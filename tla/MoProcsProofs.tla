--------------------------- MODULE MoProcsProofs ---------------------------
(***************************************************************************)
(* Proofs about MoProcs, for any processes, schedulers, bounds, policies   *)
(* and programs: every variable keeps its type (TypeOK), and updates are   *)
(* transactions (AtomicSends, OkIsCommitted).                              *)
(***************************************************************************)
EXTENDS MoProcs, SequenceTheorems, TLAPS

USE ProcsAssumption, HomeAssumption DEF Callers

(* What messages are does not change from one state to the next.           *)
LEMMA SameSets == Message' = Message /\ Outgoing' = Outgoing /\ NoAsk' = NoAsk
  BY DEF Message, Outgoing, NoAsk

USE SameSets

(***************************************************************************)
(* Helpers of the model.                                                   *)
(***************************************************************************)

(* A new message is a message.                                             *)
LEMMA MadeType ==
  ASSUME TypeOK, NEW from \in Callers, NEW upd \in Nat, NEW kind \in {"send", "ask", "later"}
  PROVE  Made(from, upd, kind) \in Message
  BY DEF TypeOK, Made, Message

(* The thread handed over, and handed back.                                *)
LEMMA PushType ==
  ASSUME TypeOK, NEW s \in Scheds, NEW p \in Procs
  PROVE  Push(s, p) \in [Scheds -> Seq(Procs)]
  BY DEF TypeOK, Push

LEMMA PopType ==
  ASSUME TypeOK, NEW s \in Scheds, stack[s] # <<>>
  PROVE  Pop(s) \in [Scheds -> Seq(Procs)]
<1>1. stack[s] \in Seq(Procs)
  BY DEF TypeOK
<1>2. SubSeq(stack[s], 1, Len(stack[s]) - 1) \in Seq(Procs)
  BY <1>1, SubSeqProperties, LenProperties
<1> QED
  BY <1>2 DEF TypeOK, Pop

(* Answers and wakes keep their types.                                     *)
LEMMA RouteType ==
  ASSUME TypeOK, NEW ids, NEW reply \in {"ok", "down"}, NEW by \in Nat, Route(ids, reply, by)
  PROVE  /\ awaiting' \subseteq [id : Nat \ {0}, by : Callers]
         /\ answers' \subseteq [id : Nat \ {0}, reply : {"ok", "down"}, by : Nat]
  BY DEF TypeOK, Route, Answered

LEMMA WakeType ==
  ASSUME TypeOK, NEW cs, Wake(cs)
  PROVE  parked' \subseteq Procs /\ ready' \subseteq Procs
  BY DEF TypeOK, Wake

(* What is held leaves with its update.                                    *)
LEMMA ClearsHeldType ==
  ASSUME TypeOK, NEW p \in Procs, ClearsHeld(p)
  PROVE  /\ outbox' \in [Procs -> [Procs -> Seq(Message)]]
         /\ heldLater' \in [Procs -> SUBSET Outgoing]
         /\ pend' \in [Procs -> SUBSET Nat]
  BY DEF TypeOK, ClearsHeld

LEMMA FlushedType ==
  ASSUME TypeOK, NEW p \in Procs
  PROVE  Flushed(p) \in [Procs -> Seq(Message)]
  BY DEF TypeOK, Flushed

LEMMA HoldsStack ==
  ASSUME TypeOK, NEW p \in Procs, Holds(p)
  PROVE  stack[Home[p]] # <<>> /\ Home[p] \in Scheds
  BY DEF Holds, Holder, HomeOf

LEMMA TakeType ==
  ASSUME TypeOK, NEW q \in Procs, Take(q)
  PROVE  TypeOK'
<1>1. mailbox' \in [Procs -> Seq(Message)] /\ cur' \in [Procs -> Nat]
  <2>1. mailbox[q] \in Seq(Message) /\ mailbox[q] # <<>>
    BY DEF TypeOK, Take
  <2>2. Head(mailbox[q]) \in Message /\ Tail(mailbox[q]) \in Seq(Message)
    BY <2>1, HeadTailProperties
  <2>3. Head(mailbox[q]).id \in Nat
    BY <2>2 DEF Message
  <2> QED
    BY <2>2, <2>3 DEF TypeOK, Take
<1>2. stack' \in [Scheds -> Seq(Procs)]
  BY PushType DEF Take
<1>3. deferring' \in [Procs -> BOOLEAN]
  BY DEF TypeOK, Take
<1>4. UNCHANGED <<made, up, settling, outbox, heldLater, pend, kept, restarts, later,
                  asking, awaiting, answers, expired, parked, ready, halted, committed>>
  BY DEF Take, askVars
<1> QED
  BY <1>1, <1>2, <1>3, <1>4 DEF TypeOK

LEMMA DropsType ==
  ASSUME TypeOK, NEW p \in Procs, NEW emptied \in BOOLEAN, Drops(p, emptied)
  PROVE  /\ outbox' \in [Procs -> [Procs -> Seq(Message)]]
         /\ heldLater' \in [Procs -> SUBSET Outgoing]
         /\ pend' \in [Procs -> SUBSET Nat]
         /\ kept' \in [Procs -> SUBSET Nat]
         /\ mailbox' \in [Procs -> Seq(Message)]
         /\ parked' \subseteq Procs /\ ready' \subseteq Procs
<1>1. ClearsHeld(p) /\ Wake(parked)
  BY DEF Drops
<1>2. kept' \in [Procs -> SUBSET Nat] /\ mailbox' \in [Procs -> Seq(Message)]
  BY DEF TypeOK, Drops
<1> QED
  BY <1>1, <1>2, ClearsHeldType, WakeType

(***************************************************************************)
(* Every step keeps every variable's type.                                 *)
(***************************************************************************)
LEMMA TypeStep == TypeOK /\ [Next]_vars => TypeOK'
<1> USE BoundAssumption, PolicyAssumption, RestartsAssumption, KnowsAssumption,
        CallsAssumption, MadeAssumption
<1> SUFFICES ASSUME TypeOK, [Next]_vars PROVE TypeOK'
  OBVIOUS
<1>1. ASSUME NEW q \in Procs, MainSend(q) PROVE TypeOK'
  <2>1. Made(Main, 0, "send") \in Message
    BY MadeType
  <2>2. mailbox' \in [Procs -> Seq(Message)]
    BY <1>1, <2>1 DEF TypeOK, MainSend, Enqueue
  <2>3. made' \in Nat
    BY <1>1 DEF TypeOK, MainSend
  <2>4. UNCHANGED <<up, cur, settling, deferring, outbox, heldLater, pend, kept, restarts, later,
                    asking, awaiting, answers, expired, stack, parked, ready, halted, committed>>
    BY <1>1 DEF MainSend, askVars, threadVars
  <2> QED
    BY <2>2, <2>3, <2>4 DEF TypeOK
<1>2. ASSUME NEW q \in Procs, MainSendLater(q) PROVE TypeOK'
  <2>1. Made(Main, 0, "later") \in Message
    BY MadeType
  <2>2. [to |-> q, msg |-> Made(Main, 0, "later")] \in Outgoing
    BY <2>1 DEF Outgoing
  <2>3. later' \subseteq Outgoing /\ made' \in Nat
    BY <1>2, <2>2 DEF TypeOK, MainSendLater
  <2>4. UNCHANGED <<up, mailbox, cur, settling, deferring, outbox, heldLater, pend, kept, restarts,
                    asking, awaiting, answers, expired, stack, parked, ready, halted, committed>>
    BY <1>2 DEF MainSendLater, procVars, askVars, threadVars
  <2> QED
    BY <2>3, <2>4 DEF TypeOK
<1>3. ASSUME NEW q \in Procs, MainOverflows(q) PROVE TypeOK'
  BY <1>3 DEF TypeOK, MainOverflows, procVars, askVars, threadVars
<1>4. ASSUME NEW c \in Callers, NEW q \in Procs, Ask(c, q) PROVE TypeOK'
  <2>1. Made(c, IF c = Main THEN 0 ELSE cur[c], "ask") \in Message
    BY MadeType DEF TypeOK
  <2>2. mailbox' \in [Procs -> Seq(Message)]
    BY <1>4, <2>1 DEF TypeOK, Ask, Enqueue
  <2>3. asking' \in [Callers -> {NoAsk} \cup [to : Procs, id : Nat \ {0}]]
    BY <1>4 DEF TypeOK, Ask
  <2>4. awaiting' \subseteq [id : Nat \ {0}, by : Callers]
    BY <1>4 DEF TypeOK, Ask
  <2>5. made' \in Nat
    BY <1>4 DEF TypeOK, Ask
  <2>6. UNCHANGED <<up, cur, settling, deferring, outbox, heldLater, pend, kept, restarts, later,
                    answers, expired, stack, parked, ready, halted, committed>>
    BY <1>4 DEF Ask, threadVars
  <2> QED
    BY <2>2, <2>3, <2>4, <2>5, <2>6 DEF TypeOK
<1>5. ASSUME NEW p \in Procs, NEW q \in Procs, Send(p, q) PROVE TypeOK'
  <2>1. Made(p, cur[p], "send") \in Message
    BY MadeType DEF TypeOK
  <2>2. outbox' \in [Procs -> [Procs -> Seq(Message)]]
    <3>1. outbox \in [Procs -> [Procs -> Seq(Message)]]
      BY DEF TypeOK
    <3>2. Append(outbox[p][q], Made(p, cur[p], "send")) \in Seq(Message)
      BY <2>1, <3>1, AppendProperties
    <3>3. outbox' = [outbox EXCEPT ![p][q] = Append(@, Made(p, cur[p], "send"))]
      BY <1>5 DEF Send
    <3> QED
      BY <3>1, <3>2, <3>3
  <2>3. made' \in Nat
    BY <1>5 DEF TypeOK, Send
  <2>4. UNCHANGED <<up, mailbox, cur, settling, deferring, heldLater, pend, kept, restarts, later,
                    asking, awaiting, answers, expired, stack, parked, ready, halted, committed>>
    BY <1>5 DEF Send, askVars, threadVars
  <2> QED
    BY <2>2, <2>3, <2>4 DEF TypeOK
<1>6. ASSUME NEW p \in Procs, NEW q \in Procs, SendLater(p, q) PROVE TypeOK'
  <2>1. [to |-> q, msg |-> Made(p, cur[p], "later")] \in Outgoing
    BY MadeType DEF TypeOK, Outgoing
  <2>2. heldLater' \in [Procs -> SUBSET Outgoing]
    BY <1>6, <2>1 DEF TypeOK, SendLater
  <2>3. made' \in Nat
    BY <1>6 DEF TypeOK, SendLater
  <2>4. UNCHANGED <<up, mailbox, cur, settling, deferring, outbox, pend, kept, restarts, later,
                    asking, awaiting, answers, expired, stack, parked, ready, halted, committed>>
    BY <1>6 DEF SendLater, askVars, threadVars
  <2> QED
    BY <2>2, <2>3, <2>4 DEF TypeOK
<1>7. ASSUME NEW p \in Procs, Defer(p) PROVE TypeOK'
  BY <1>7 DEF TypeOK, Defer, askVars, threadVars
<1>8. ASSUME NEW p \in Procs, NEW id \in kept[p] \cup {cur[p]}, Answer(p, id) PROVE TypeOK'
  <2>1. id \in Nat
    BY DEF TypeOK
  <2> QED
    BY <1>8, <2>1 DEF TypeOK, Answer, askVars, threadVars
<1>9. ASSUME NEW p \in Procs, Commit(p) PROVE TypeOK'
  <2>1. cur[p] \in Nat
    BY DEF TypeOK
  <2>2. PICK ids : Route(ids, "ok", cur[p]) /\ Wake({w.by : w \in Answered(ids)})
    BY <1>9 DEF Commit
  <2>3. mailbox' \in [Procs -> Seq(Message)]
    BY <1>9, FlushedType DEF Commit
  <2>4. kept' \in [Procs -> SUBSET Nat]
    BY <1>9 DEF TypeOK, Commit
  <2>5. ClearsHeld(p)
    BY <1>9 DEF Commit
  <2>6. later' \subseteq Outgoing
    BY <1>9 DEF TypeOK, Commit
  <2> QED
    BY <1>9, <2>1, <2>2, <2>3, <2>4, <2>5, <2>6, RouteType, WakeType, ClearsHeldType
    DEF TypeOK, Commit
<1>10. ASSUME NEW p \in Procs, CrashStaysDown(p) PROVE TypeOK'
  <2>1. cur[p] \in Nat
    BY DEF TypeOK
  <2>2. PICK ids : Route(ids, "down", cur[p])
    BY <1>10 DEF CrashStaysDown
  <2>3. Drops(p, TRUE)
    BY <1>10 DEF CrashStaysDown
  <2> QED
    BY <1>10, <2>1, <2>2, <2>3, RouteType, DropsType DEF TypeOK, CrashStaysDown
<1>11. ASSUME NEW p \in Procs, CrashRestarts(p) PROVE TypeOK'
  <2>1. cur[p] \in Nat
    BY DEF TypeOK
  <2>2. PICK ids : Route(ids, "down", cur[p])
    BY <1>11 DEF CrashRestarts
  <2>3. Drops(p, TRUE)
    BY <1>11 DEF CrashRestarts
  <2>4. restarts' \in [Procs -> 0..MaxRestarts]
    BY <1>11 DEF TypeOK, CrashRestarts, MayRestart
  <2> QED
    BY <1>11, <2>1, <2>2, <2>3, <2>4, RouteType, DropsType DEF TypeOK, CrashRestarts
<1>12. ASSUME NEW p \in Procs, CrashGivesUp(p) PROVE TypeOK'
  <2>1. cur[p] \in Nat
    BY DEF TypeOK
  <2>2. PICK init \in BOOLEAN : Drops(p, init) /\ Route(Unanswered(p, init), "down", cur[p])
    BY <1>12 DEF CrashGivesUp
  <2>3. up' \in [Procs -> BOOLEAN] /\ halted' \in BOOLEAN
    BY <1>12 DEF TypeOK, CrashGivesUp
  <2>4. UNCHANGED <<made, cur, settling, deferring, restarts, later, asking, expired, stack,
                    committed>>
    BY <1>12 DEF CrashGivesUp
  <2>5. /\ awaiting' \subseteq [id : Nat \ {0}, by : Callers]
        /\ answers' \subseteq [id : Nat \ {0}, reply : {"ok", "down"}, by : Nat]
    BY <2>1, <2>2, RouteType
  <2>6. /\ outbox' \in [Procs -> [Procs -> Seq(Message)]]
        /\ heldLater' \in [Procs -> SUBSET Outgoing]
        /\ pend' \in [Procs -> SUBSET Nat]
        /\ kept' \in [Procs -> SUBSET Nat]
        /\ mailbox' \in [Procs -> Seq(Message)]
        /\ parked' \subseteq Procs /\ ready' \subseteq Procs
    BY <2>2, DropsType
  <2> QED
    BY <2>3, <2>4, <2>5, <2>6 DEF TypeOK
<1>13. ASSUME NEW p \in Procs, Settle(p) PROVE TypeOK'
  <2>1. stack[Home[p]] # <<>> /\ Home[p] \in Scheds
    BY <1>13, HoldsStack DEF Settle
  <2>2. stack' \in [Scheds -> Seq(Procs)]
    BY <1>13, <2>1, PopType DEF Settle
  <2> QED
    BY <1>13, <2>2 DEF TypeOK, Settle, askVars
<1>14. ASSUME NEW c \in Callers, AskReturns(c) PROVE TypeOK'
  BY <1>14 DEF TypeOK, AskReturns, Returns, procVars, threadVars
<1>15. ASSUME NEW c \in Callers, AskGivesUp(c) PROVE TypeOK'
  BY <1>15 DEF TypeOK, AskGivesUp, StillAwaited, Returns, procVars, threadVars
<1>16. ASSUME NEW c \in Callers, AskDelivers(c) PROVE TypeOK'
  <2>1. asking[c].to \in Procs
    BY <1>16 DEF TypeOK, AskDelivers, InPass
  <2> QED
    BY <1>16, <2>1, TakeType DEF AskDelivers
<1>17. ASSUME NEW p \in Procs, AskParks(p) PROVE TypeOK'
  <2>1. stack[Home[p]] # <<>> /\ Home[p] \in Scheds
    BY <1>17, HoldsStack DEF AskParks, InPass
  <2>2. stack' \in [Scheds -> Seq(Procs)]
    BY <1>17, <2>1, PopType DEF AskParks
  <2>3. parked' \subseteq Procs
    BY <1>17 DEF TypeOK, AskParks
  <2>4. UNCHANGED <<made, up, mailbox, cur, settling, deferring, outbox, heldLater, pend, kept,
                    restarts, later, asking, awaiting, answers, expired, ready, halted, committed>>
    BY <1>17 DEF AskParks, procVars, askVars
  <2> QED
    BY <2>2, <2>3, <2>4 DEF TypeOK
<1>17a. ASSUME NEW p \in Procs, AskStepsAside(p) PROVE TypeOK'
  <2>1. stack[Home[p]] # <<>> /\ Home[p] \in Scheds
    BY <1>17a, HoldsStack DEF AskStepsAside, InPass
  <2>2. stack' \in [Scheds -> Seq(Procs)]
    BY <1>17a, <2>1, PopType DEF AskStepsAside
  <2>3. ready' \subseteq Procs
    BY <1>17a DEF TypeOK, AskStepsAside
  <2>4. UNCHANGED <<made, up, mailbox, cur, settling, deferring, outbox, heldLater, pend, kept,
                    restarts, later, asking, awaiting, answers, expired, parked, halted, committed>>
    BY <1>17a DEF AskStepsAside, procVars, askVars
  <2> QED
    BY <2>2, <2>3, <2>4 DEF TypeOK
<1>18. ASSUME NEW c \in Callers, Expire(c) PROVE TypeOK'
  <2>1. Wake({c})
    BY <1>18 DEF Expire
  <2> QED
    BY <1>18, <2>1, WakeType DEF TypeOK, Expire, procVars
<1>19. ASSUME NEW s \in Scheds, NEW p \in Procs, Resume(s, p) PROVE TypeOK'
  BY <1>19, PushType DEF TypeOK, Resume, procVars, askVars
<1>20. ASSUME NEW s \in Scheds, NEW q \in Procs, Deliver(s, q) PROVE TypeOK'
  BY <1>20, TakeType DEF Deliver
<1>21. ASSUME NEW l \in later, DueLater(l) PROVE TypeOK'
  <2>1. l.msg \in Message /\ l.to \in Procs
    BY DEF TypeOK, Outgoing
  <2>2. mailbox' \in [Procs -> Seq(Message)]
    <3>1. Append(mailbox[l.to], l.msg) \in Seq(Message)
      BY <2>1, AppendProperties DEF TypeOK
    <3> QED
      BY <1>21, <2>1, <3>1 DEF TypeOK, DueLater, Enqueue
  <2>3. later' \subseteq Outgoing
    BY <1>21 DEF TypeOK, DueLater
  <2>4. UNCHANGED <<made, up, cur, settling, deferring, outbox, heldLater, pend, kept, restarts,
                    asking, awaiting, answers, expired, stack, parked, ready, halted, committed>>
    BY <1>21 DEF DueLater, askVars, threadVars
  <2> QED
    BY <2>2, <2>3, <2>4 DEF TypeOK
<1>22. CASE UNCHANGED vars
  BY <1>22 DEF TypeOK, vars, procVars, askVars, threadVars
<1> QED
  BY <1>1, <1>2, <1>3, <1>4, <1>5, <1>6, <1>7, <1>8, <1>9, <1>10, <1>11, <1>12, <1>13, <1>14,
     <1>15, <1>16, <1>17, <1>17a, <1>18, <1>19, <1>20, <1>21, <1>22
  DEF Next, MainRow, Row, Crash, Pass, Turn

LEMMA TypeInit == Init => TypeOK
<1> USE BoundAssumption, PolicyAssumption, RestartsAssumption, KnowsAssumption,
        CallsAssumption, MadeAssumption
<1> SUFFICES ASSUME Init PROVE TypeOK
  OBVIOUS
<1>1. <<>> \in Seq(Message) /\ <<>> \in Seq(Procs)
  OBVIOUS
<1>2. /\ made \in Nat /\ cur \in [Procs -> Nat]
      /\ restarts \in [Procs -> 0..MaxRestarts]
  BY DEF Init
<1>3. /\ up \in [Procs -> BOOLEAN] /\ deferring \in [Procs -> BOOLEAN]
      /\ halted \in BOOLEAN
  BY DEF Init
<1>4. /\ mailbox \in [Procs -> Seq(Message)]
      /\ outbox \in [Procs -> [Procs -> Seq(Message)]]
      /\ stack \in [Scheds -> Seq(Procs)]
  BY <1>1, Zenon DEF Init
<1>5. /\ heldLater \in [Procs -> SUBSET Outgoing]
      /\ pend \in [Procs -> SUBSET Nat] /\ kept \in [Procs -> SUBSET Nat]
  BY DEF Init
<1>6. asking \in [Callers -> {NoAsk} \cup [to : Procs, id : Nat \ {0}]]
  BY Zenon DEF Init
<1>7. settling = {} /\ later = {} /\ awaiting = {} /\ answers = {} /\ expired = {}
      /\ parked = {} /\ ready = {} /\ committed = {}
  BY DEF Init
<1> QED
  BY <1>2, <1>3, <1>4, <1>5, <1>6, <1>7 DEF TypeOK

(* Every variable of the model keeps its type, in every run.               *)
THEOREM TypeCorrect == Spec => []TypeOK
<1>1. Init => TypeOK
  BY TypeInit
<1>2. TypeOK /\ [Next]_vars => TypeOK'
  BY TypeStep
<1> QED
  BY <1>1, <1>2, PTL DEF Spec

(***************************************************************************)
(* An update is a transaction towards the other processes: what it sends   *)
(* is seen only if it commits (AtomicSends), and so is what it answers     *)
(* (OkIsCommitted).  What makes it inductive is HeldIsOwn: what a process  *)
(* holds is of the update it is running, and nothing is held between two.  *)
(***************************************************************************)
Messages(box) == {box[i] : i \in 1..Len(box)}

(* What is held is of the update that runs, and of one that has not ended. *)
HeldIsOwn ==
    \A p \in Procs :
        /\ \A q \in Procs : \A m \in Messages(outbox[p][q]) :
              m.upd = cur[p] /\ Busy(p) /\ p \notin settling
        /\ \A o \in heldLater[p] : o.msg.upd = cur[p] /\ Busy(p) /\ p \notin settling

UpdateInv == TypeOK /\ AtomicSends /\ OkIsCommitted /\ HeldIsOwn

(* A message that may wait in a mailbox.                                   *)
Lawful(m) == m.kind = "ask" \/ m.upd \in committed \cup {0}

-----------------------------------------------------------------------------
LEMMA MessagesOfAppend ==
  ASSUME NEW box \in Seq(Message), NEW m \in Message
  PROVE  Messages(Append(box, m)) = Messages(box) \cup {m}
<1>1. /\ Len(Append(box, m)) = Len(box) + 1 /\ Len(box) \in Nat
      /\ \A i \in 1..Len(box) : Append(box, m)[i] = box[i]
      /\ Append(box, m)[Len(box) + 1] = m
  BY AppendProperties, LenProperties
<1>2. 1..(Len(box) + 1) = 1..Len(box) \cup {Len(box) + 1}
  BY <1>1
<1> QED
  BY <1>1, <1>2 DEF Messages

LEMMA MessagesOfConcat ==
  ASSUME NEW box \in Seq(Message), NEW more \in Seq(Message)
  PROVE  Messages(box \o more) \subseteq Messages(box) \cup Messages(more)
<1> SUFFICES ASSUME NEW i \in 1..Len(box \o more)
             PROVE  (box \o more)[i] \in Messages(box) \cup Messages(more)
  BY DEF Messages
<1>1. /\ Len(box \o more) = Len(box) + Len(more) /\ Len(box) \in Nat /\ Len(more) \in Nat
      /\ \A j \in 1..Len(box) + Len(more) :
            (box \o more)[j] = IF j <= Len(box) THEN box[j] ELSE more[j - Len(box)]
  BY ConcatProperties, LenProperties
<1>2. CASE i <= Len(box)
  <2>1. i \in 1..Len(box) /\ (box \o more)[i] = box[i]
    BY <1>1, <1>2
  <2> QED
    BY <2>1 DEF Messages
<1>3. CASE ~(i <= Len(box))
  <2>1. i - Len(box) \in 1..Len(more) /\ (box \o more)[i] = more[i - Len(box)]
    BY <1>1, <1>3
  <2> QED
    BY <2>1 DEF Messages
<1> QED
  BY <1>2, <1>3

LEMMA MessagesOfTail ==
  ASSUME NEW box \in Seq(Message), box # <<>>
  PROVE  Messages(Tail(box)) \subseteq Messages(box)
<1> SUFFICES ASSUME NEW i \in 1..Len(Tail(box)) PROVE Tail(box)[i] \in Messages(box)
  BY DEF Messages
<1>1. /\ Len(box) \in Nat /\ Len(Tail(box)) = Len(box) - 1
      /\ \A j \in 1..Len(Tail(box)) : Tail(box)[j] = box[j + 1]
  BY HeadTailProperties, LenProperties
<1>2. i + 1 \in 1..Len(box) /\ Tail(box)[i] = box[i + 1]
  BY <1>1
<1> QED
  BY <1>2 DEF Messages

LEMMA MessagesOfEmpty == Messages(<<>>) = {}
  BY DEF Messages

(* The property, by messages rather than by places.                        *)
LEMMA AtomicSendsByMessage ==
  AtomicSends <=> /\ \A q \in Procs : \A m \in Messages(mailbox[q]) : Lawful(m)
                  /\ \A l \in later : l.msg.upd \in committed \cup {0}
  BY DEF AtomicSends, Messages, Lawful

-----------------------------------------------------------------------------
(* A step that commits nothing, when mailboxes and timers gain only what   *)
(* may be there.                                                           *)
LEMMA LawfulStep ==
  ASSUME AtomicSends, UNCHANGED committed,
         \A q \in Procs : \A m \in Messages(mailbox'[q]) : m \in Messages(mailbox[q]) \/ Lawful(m),
         \A l \in later' : l \in later \/ l.msg.upd \in committed \cup {0}
  PROVE  AtomicSends'
<1>1. /\ \A q \in Procs : \A m \in Messages(mailbox'[q]) : Lawful(m)
      /\ \A l \in later' : l.msg.upd \in committed \cup {0}
  BY AtomicSendsByMessage
<1>2. /\ \A q \in Procs : \A m \in Messages(mailbox'[q]) :
            m.kind = "ask" \/ m.upd \in committed' \cup {0}
      /\ \A l \in later' : l.msg.upd \in committed' \cup {0}
  BY <1>1 DEF Lawful
<1> QED
  BY <1>2 DEF AtomicSends, Messages

LEMMA EnqueueMessages ==
  ASSUME TypeOK, NEW q \in Procs, NEW m \in Message, Enqueue(q, m)
  PROVE  \A p \in Procs : Messages(mailbox'[p]) \subseteq Messages(mailbox[p]) \cup {m}
<1>1. Messages(Append(mailbox[q], m)) = Messages(mailbox[q]) \cup {m}
  BY MessagesOfAppend DEF TypeOK
<1>2. \A p \in Procs : mailbox'[p] = IF p = q THEN Append(mailbox[q], m) ELSE mailbox[p]
  BY DEF TypeOK, Enqueue
<1> QED
  BY <1>1, <1>2

LEMMA TakeMessages ==
  ASSUME TypeOK, HeldIsOwn, NEW q \in Procs, Take(q)
  PROVE  /\ \A p \in Procs : Messages(mailbox'[p]) \subseteq Messages(mailbox[p])
         /\ HeldIsOwn'
<1>1. mailbox[q] \in Seq(Message) /\ mailbox[q] # <<>>
  BY DEF TypeOK, Take
<1>2. /\ \A p \in Procs : mailbox'[p] = IF p = q THEN Tail(mailbox[q]) ELSE mailbox[p]
      /\ \A p \in Procs : p # q => cur'[p] = cur[p]
      /\ UNCHANGED <<settling, outbox, heldLater>> /\ ~Busy(q)
  BY DEF TypeOK, Take
<1>3. \A p \in Procs : Messages(mailbox'[p]) \subseteq Messages(mailbox[p])
  BY <1>1, <1>2, MessagesOfTail
<1>4. ASSUME NEW r \in Procs
      PROVE  /\ \A s \in Procs : \A m \in Messages(outbox[r][s]) :
                   m.upd = cur'[r] /\ cur'[r] # 0 /\ r \notin settling
             /\ \A o \in heldLater[r] : o.msg.upd = cur'[r] /\ cur'[r] # 0 /\ r \notin settling
  BY <1>2 DEF HeldIsOwn, Busy
<1>5. HeldIsOwn'
  BY <1>2, <1>4 DEF HeldIsOwn, Busy, Messages
<1> QED
  BY <1>3, <1>5

(* What p held is gone; the others hold what they held.                    *)
LEMMA ClearedIsOwn ==
  ASSUME TypeOK, HeldIsOwn, NEW p \in Procs, ClearsHeld(p), UNCHANGED cur,
         settling' = settling \/ settling' = settling \cup {p}
  PROVE  HeldIsOwn'
<1>1. /\ \A r \in Procs : outbox'[r] = IF r = p THEN [q \in Procs |-> <<>>] ELSE outbox[r]
      /\ \A r \in Procs : heldLater'[r] = IF r = p THEN {} ELSE heldLater[r]
  BY DEF TypeOK, ClearsHeld
<1>2. ASSUME NEW r \in Procs
      PROVE  /\ \A q \in Procs : \A m \in Messages(outbox'[r][q]) :
                   m.upd = cur[r] /\ Busy(r) /\ r \notin settling'
             /\ \A o \in heldLater'[r] : o.msg.upd = cur[r] /\ Busy(r) /\ r \notin settling'
  <2>1. CASE r = p
    <3>1. \A q \in Procs : outbox'[r][q] = <<>>
      BY <1>1, <2>1
    <3> QED
      BY <1>1, <2>1, <3>1, MessagesOfEmpty
  <2>2. CASE r # p
    <3>1. outbox'[r] = outbox[r] /\ heldLater'[r] = heldLater[r]
          /\ (r \in settling' <=> r \in settling)
      BY <1>1, <2>2
    <3> QED
      BY <3>1 DEF HeldIsOwn
  <2> QED
    BY <2>1, <2>2
<1> QED
  BY <1>2 DEF HeldIsOwn, Busy, Messages

-----------------------------------------------------------------------------
(* Every step.                                                             *)
LEMMA UpdateInvStep == UpdateInv /\ [Next]_vars => UpdateInv'
<1> SUFFICES ASSUME UpdateInv, [Next]_vars PROVE UpdateInv'
  OBVIOUS
<1> USE DEF UpdateInv
<1> DEFINE Kept == AtomicSends /\ OkIsCommitted /\ HeldIsOwn
<1>0. TypeOK'
  BY TypeStep
<1>h. ASSUME UNCHANGED <<cur, settling, outbox, heldLater>> PROVE HeldIsOwn'
  BY <1>h DEF HeldIsOwn, Busy, Messages
<1>a. ASSUME answers' \subseteq answers, committed' = committed PROVE OkIsCommitted'
  BY <1>a DEF OkIsCommitted
<1>q. ASSUME UNCHANGED <<mailbox, later, committed>> PROVE AtomicSends'
  BY <1>q DEF AtomicSends
<1>1. ASSUME NEW q \in Procs, MainSend(q) PROVE Kept'
  <2>1. Made(Main, 0, "send") \in Message /\ Lawful(Made(Main, 0, "send"))
    BY MadeType DEF Lawful, Made
  <2>2. /\ Enqueue(q, Made(Main, 0, "send"))
        /\ UNCHANGED <<cur, settling, outbox, heldLater, later, answers, committed>>
    BY <1>1 DEF MainSend, askVars
  <2>3. \A p \in Procs : \A m \in Messages(mailbox'[p]) : m \in Messages(mailbox[p]) \/ Lawful(m)
    BY <2>1, <2>2, EnqueueMessages
  <2> QED
    BY <2>2, <2>3, <1>h, <1>a, LawfulStep
<1>2. ASSUME NEW q \in Procs, MainSendLater(q) PROVE Kept'
  <2>1. /\ UNCHANGED <<mailbox, cur, settling, outbox, heldLater, answers, committed>>
        /\ \A l \in later' : l \in later \/ l.msg.upd = 0
    BY <1>2 DEF MainSendLater, Made, procVars, askVars
  <2> QED
    BY <2>1, <1>h, <1>a, LawfulStep
<1>3. ASSUME NEW q \in Procs, MainOverflows(q) PROVE Kept'
  BY <1>3, <1>h, <1>a, <1>q DEF MainOverflows, procVars, askVars
<1>4. ASSUME NEW c \in Callers, NEW q \in Procs, Ask(c, q) PROVE Kept'
  <2>1. PICK upd \in Nat : Enqueue(q, Made(c, upd, "ask"))
    BY <1>4 DEF Ask, TypeOK
  <2>2. Made(c, upd, "ask") \in Message /\ Lawful(Made(c, upd, "ask"))
    BY MadeType DEF Lawful, Made
  <2>3. UNCHANGED <<cur, settling, outbox, heldLater, later, answers, committed>>
    BY <1>4 DEF Ask
  <2>4. \A p \in Procs : \A m \in Messages(mailbox'[p]) : m \in Messages(mailbox[p]) \/ Lawful(m)
    BY <2>1, <2>2, EnqueueMessages
  <2> QED
    BY <2>3, <2>4, <1>h, <1>a, LawfulStep
<1>5. ASSUME NEW p \in Procs, NEW q \in Procs, Send(p, q) PROVE Kept'
  <2>1. Made(p, cur[p], "send") \in Message /\ Made(p, cur[p], "send").upd = cur[p]
    BY MadeType DEF TypeOK, Made
  <2>2. /\ outbox' = [outbox EXCEPT ![p][q] = Append(@, Made(p, cur[p], "send"))]
        /\ UNCHANGED <<mailbox, later, committed, answers, cur, settling, heldLater>>
        /\ Busy(p) /\ p \notin settling
    BY <1>5 DEF Send, Runs, askVars
  <2>3. \A r, s \in Procs : outbox'[r][s] =
           IF r = p /\ s = q THEN Append(outbox[p][q], Made(p, cur[p], "send")) ELSE outbox[r][s]
    BY <2>2 DEF TypeOK
  <2>4. Messages(Append(outbox[p][q], Made(p, cur[p], "send")))
           = Messages(outbox[p][q]) \cup {Made(p, cur[p], "send")}
    BY <2>1, MessagesOfAppend DEF TypeOK
  <2>5. \A r, s \in Procs : \A m \in Messages(outbox'[r][s]) :
           m.upd = cur[r] /\ Busy(r) /\ r \notin settling
    BY <2>1, <2>2, <2>3, <2>4 DEF HeldIsOwn
  <2>6. HeldIsOwn'
    BY <2>2, <2>5 DEF HeldIsOwn, Busy, Messages
  <2> QED
    BY <2>2, <2>6, <1>a, <1>q
<1>6. ASSUME NEW p \in Procs, NEW q \in Procs, SendLater(p, q) PROVE Kept'
  <2>1. /\ UNCHANGED <<mailbox, later, committed, answers, cur, settling, outbox>>
        /\ heldLater' = [heldLater EXCEPT ![p] =
                           @ \cup {[to |-> q, msg |-> Made(p, cur[p], "later")]}]
        /\ Busy(p) /\ p \notin settling
    BY <1>6 DEF SendLater, Runs, askVars
  <2>2. \A r \in Procs : \A o \in heldLater'[r] :
           o \in heldLater[r] \/ (r = p /\ o.msg.upd = cur[p])
    BY <2>1 DEF TypeOK, Made
  <2>3. /\ \A r \in Procs : \A o \in heldLater'[r] :
              o.msg.upd = cur[r] /\ Busy(r) /\ r \notin settling
        /\ \A r, s \in Procs : \A m \in Messages(outbox[r][s]) :
              m.upd = cur[r] /\ Busy(r) /\ r \notin settling
    BY <2>1, <2>2 DEF HeldIsOwn
  <2>4. HeldIsOwn'
    BY <2>1, <2>3 DEF HeldIsOwn, Busy, Messages
  <2> QED
    BY <2>1, <2>4, <1>a, <1>q
<1>7. ASSUME NEW p \in Procs, Defer(p) PROVE Kept'
  BY <1>7, <1>h, <1>a, <1>q DEF Defer, askVars
<1>8. ASSUME NEW p \in Procs, NEW id \in kept[p] \cup {cur[p]}, Answer(p, id) PROVE Kept'
  BY <1>8, <1>h, <1>a, <1>q DEF Answer, askVars
<1>9. ASSUME NEW p \in Procs, Commit(p) PROVE Kept'
  <2>1. /\ mailbox' = Flushed(p) /\ later' = later \cup {o \in heldLater[p] : up[o.to]}
        /\ ClearsHeld(p) /\ settling' = settling \cup {p}
        /\ committed' = committed \cup {cur[p]} /\ cur' = cur
    BY <1>9 DEF Commit
  <2>2. ASSUME NEW q \in Procs, NEW m \in Messages(mailbox'[q])
        PROVE  m.kind = "ask" \/ m.upd \in committed' \cup {0}
    <3>1. mailbox[q] \in Seq(Message) /\ outbox[p][q] \in Seq(Message)
      BY DEF TypeOK
    <3>2. mailbox'[q] = mailbox[q] \/ mailbox'[q] = mailbox[q] \o outbox[p][q]
      BY <2>1 DEF Flushed
    <3>3. m \in Messages(mailbox[q]) \/ m \in Messages(outbox[p][q])
      BY <3>1, <3>2, MessagesOfConcat
    <3>4. CASE m \in Messages(mailbox[q])
      BY <3>4, <2>1, AtomicSendsByMessage DEF Lawful
    <3>5. CASE m \in Messages(outbox[p][q])
      BY <3>5, <2>1 DEF HeldIsOwn
    <3> QED
      BY <3>3, <3>4, <3>5
  <2>3. \A l \in later' : l.msg.upd \in committed' \cup {0}
    BY <2>1 DEF HeldIsOwn, AtomicSends
  <2>4. AtomicSends'
    BY <2>2, <2>3 DEF AtomicSends, Messages
  <2>5. OkIsCommitted'
    <3>1. \A a \in answers' : a \in answers \/ a.by = cur[p]
      BY <1>9 DEF Commit, Route
    <3> QED
      BY <2>1, <3>1 DEF OkIsCommitted
  <2> QED
    BY <2>1, <2>4, <2>5, ClearedIsOwn
<1>c. ASSUME NEW p \in Procs, NEW emptied \in BOOLEAN, Drops(p, emptied), NEW ids,
             Route(ids, "down", cur[p]), UNCHANGED <<cur, later, committed>>,
             settling' = settling \/ settling' = settling \cup {p}
      PROVE  Kept'
  <2>1. \A q \in Procs : mailbox'[q] = IF q = p /\ emptied THEN <<>> ELSE mailbox[q]
    BY <1>c DEF Drops, TypeOK
  <2>2. \A q \in Procs : \A m \in Messages(mailbox'[q]) : m \in Messages(mailbox[q])
    BY <2>1, MessagesOfEmpty
  <2>3. AtomicSends'
    BY <1>c, <2>2, LawfulStep
  <2>4. \A a \in answers' : a \in answers \/ a.reply = "down"
    BY <1>c DEF Route
  <2>5. OkIsCommitted'
    BY <1>c, <2>4 DEF OkIsCommitted
  <2>6. HeldIsOwn'
    BY <1>c, ClearedIsOwn DEF Drops
  <2> QED
    BY <2>3, <2>5, <2>6
<1>10. ASSUME NEW p \in Procs, CrashStaysDown(p) PROVE Kept'
  BY <1>10, <1>c DEF CrashStaysDown
<1>11. ASSUME NEW p \in Procs, CrashRestarts(p) PROVE Kept'
  BY <1>11, <1>c DEF CrashRestarts
<1>12. ASSUME NEW p \in Procs, CrashGivesUp(p) PROVE Kept'
  BY <1>12, <1>c DEF CrashGivesUp
<1>13. ASSUME NEW p \in Procs, Settle(p) PROVE Kept'
  <2>1. /\ settling' = settling \ {p} /\ p \in settling
        /\ \A r \in Procs : r # p => cur'[r] = cur[r]
        /\ UNCHANGED <<mailbox, later, committed, answers, outbox, heldLater>>
    BY <1>13 DEF Settle, askVars, TypeOK
  <2>2. ASSUME NEW r \in Procs
        PROVE  /\ \A q \in Procs : \A m \in Messages(outbox[r][q]) :
                     m.upd = cur'[r] /\ cur'[r] # 0 /\ r \notin settling'
               /\ \A o \in heldLater[r] : o.msg.upd = cur'[r] /\ cur'[r] # 0 /\ r \notin settling'
    BY <2>1 DEF HeldIsOwn, Busy
  <2>3. HeldIsOwn'
    BY <2>1, <2>2 DEF HeldIsOwn, Busy, Messages
  <2> QED
    BY <2>1, <2>3, <1>a, <1>q
<1>14. ASSUME NEW c \in Callers, AskReturns(c) PROVE Kept'
  BY <1>14, <1>h, <1>a, <1>q DEF AskReturns, procVars
<1>15. ASSUME NEW c \in Callers, AskGivesUp(c) PROVE Kept'
  BY <1>15, <1>h, <1>a, <1>q DEF AskGivesUp, procVars
<1>t. ASSUME NEW q \in Procs, Take(q) PROVE Kept'
  <2>1. UNCHANGED <<later, answers, committed>>
    BY <1>t DEF Take, askVars
  <2>2. HeldIsOwn' /\ AtomicSends'
    BY <1>t, <2>1, TakeMessages, LawfulStep
  <2> QED
    BY <2>1, <2>2, <1>a
<1>16. ASSUME NEW c \in Callers, AskDelivers(c) PROVE Kept'
  <2>1. asking[c].to \in Procs
    BY <1>16 DEF TypeOK, AskDelivers, InPass
  <2> QED
    BY <1>16, <2>1, <1>t DEF AskDelivers
<1>17. ASSUME NEW p \in Procs, AskParks(p) PROVE Kept'
  BY <1>17, <1>h, <1>a, <1>q DEF AskParks, procVars, askVars
<1>17a. ASSUME NEW p \in Procs, AskStepsAside(p) PROVE Kept'
  BY <1>17a, <1>h, <1>a, <1>q DEF AskStepsAside, procVars, askVars
<1>18. ASSUME NEW c \in Callers, Expire(c) PROVE Kept'
  BY <1>18, <1>h, <1>a, <1>q DEF Expire, procVars
<1>19. ASSUME NEW s \in Scheds, NEW p \in Procs, Resume(s, p) PROVE Kept'
  BY <1>19, <1>h, <1>a, <1>q DEF Resume, procVars, askVars
<1>20. ASSUME NEW s \in Scheds, NEW q \in Procs, Deliver(s, q) PROVE Kept'
  BY <1>20, <1>t DEF Deliver
<1>21. ASSUME NEW l \in later, DueLater(l) PROVE Kept'
  <2>1. l.msg \in Message /\ l.to \in Procs
    BY DEF TypeOK, Outgoing
  <2>2. /\ UNCHANGED <<cur, settling, outbox, heldLater, answers, committed>>
        /\ Enqueue(l.to, l.msg) \/ mailbox' = mailbox
        /\ later' \subseteq later
    BY <1>21 DEF DueLater, askVars
  <2>3. Lawful(l.msg)
    BY DEF AtomicSends, Lawful
  <2>4. \A p \in Procs : \A m \in Messages(mailbox'[p]) : m \in Messages(mailbox[p]) \/ Lawful(m)
    BY <2>1, <2>2, <2>3, EnqueueMessages
  <2> QED
    BY <2>2, <2>4, <1>h, <1>a, LawfulStep
<1>22. ASSUME UNCHANGED vars PROVE Kept'
  BY <1>22, <1>h, <1>a, <1>q DEF vars, procVars, askVars
<1>23. Kept'
  <2> HIDE DEF Kept, UpdateInv
  <2>1. MainRow => Kept'
    BY <1>1, <1>2, <1>3, <1>4, KnowsAssumption DEF MainRow
  <2>2. ASSUME NEW p \in Procs, Row(p) \/ Commit(p) \/ Crash(p) \/ Settle(p) PROVE Kept'
    BY <2>2, <1>4, <1>5, <1>6, <1>7, <1>8, <1>9, <1>10, <1>11, <1>12, <1>13, KnowsAssumption
    DEF Row, Crash
  <2>3. ASSUME NEW c \in Callers, Pass(c) \/ Expire(c) PROVE Kept'
    BY <2>3, <1>14, <1>15, <1>16, <1>17, <1>17a, <1>18 DEF Pass
  <2>4. ASSUME NEW s \in Scheds, Turn(s) PROVE Kept'
    BY <2>4, <1>19, <1>20 DEF Turn
  <2> QED
    BY <1>21, <1>22, <2>1, <2>2, <2>3, <2>4 DEF Next
<1> QED
  BY <1>0, <1>23

LEMMA UpdateInvInit == Init => UpdateInv
<1> SUFFICES ASSUME Init PROVE UpdateInv
  OBVIOUS
<1>1. /\ \A q \in Procs : mailbox[q] = <<>>
      /\ \A p, q \in Procs : outbox[p][q] = <<>>
      /\ \A p \in Procs : heldLater[p] = {}
      /\ later = {} /\ answers = {}
  BY DEF Init
<1>2. AtomicSends
  BY <1>1, AtomicSendsByMessage, MessagesOfEmpty
<1>3. HeldIsOwn
  BY <1>1, MessagesOfEmpty DEF HeldIsOwn
<1> QED
  BY <1>1, <1>2, <1>3, TypeInit DEF UpdateInv, OkIsCommitted

THEOREM UpdateInvariant == Spec => []UpdateInv
<1>1. Init => UpdateInv
  BY UpdateInvInit
<1>2. UpdateInv /\ [Next]_vars => UpdateInv'
  BY UpdateInvStep
<1> QED
  BY <1>1, <1>2, PTL DEF Spec

(* What others receive was sent by main or by an update that committed.    *)
THEOREM SendsAreAtomic == Spec => []AtomicSends
<1>1. UpdateInv => AtomicSends
  BY DEF UpdateInv
<1> QED
  BY <1>1, UpdateInvariant, PTL

(* A reply was given by an update that committed.                          *)
THEOREM RepliesAreCommitted == Spec => []OkIsCommitted
<1>1. UpdateInv => OkIsCommitted
  BY DEF UpdateInv
<1> QED
  BY <1>1, UpdateInvariant, PTL
=============================================================================
