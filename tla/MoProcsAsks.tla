----------------------------- MODULE MoProcsAsks -----------------------------
(***************************************************************************)
(* Proofs that MoProcs accounts for every ask, for any processes,          *)
(* schedulers, placements, bounds, policies and programs: nobody's ask is  *)
(* forgotten (NoStrandedAsk), and no answer is without its asker or given  *)
(* twice (AnswerHasAsker).  Each needs the other, and the two conjuncts    *)
(* below, to be inductive.  Then about turns: an update is in one place    *)
(* (OneTurn), none is parked with nothing to wait for (NoLostWake), none   *)
(* parks into a ring it could have seen (NoRingAcross), and nothing waits  *)
(* for a process that is down (DownIsEmpty).                               *)
(***************************************************************************)
EXTENDS MoProcsProofs, FiniteSetTheorems

(* Compaction is of an update that ended, not of an idle process.          *)
SettlingBusy == \A p \in settling : Busy(p)

(* An identity is given once: none is in use that was not given yet.       *)
AsksMade ==
    /\ \A a \in answers : a.id <= made
    /\ \A w \in awaiting : w.id <= made

AskInv == TypeOK /\ NoStrandedAsk /\ AnswerHasAsker /\ SettlingBusy /\ AsksMade

(* Ask `id` is q's to answer.                                              *)
HeldBy(q, id) ==
    \/ id \in Ids(mailbox[q])
    \/ id = cur[q] /\ q \notin settling
    \/ id \in kept[q]

USE ProcsAssumption, HomeAssumption, SameSets DEF Callers

-----------------------------------------------------------------------------
(* What a mailbox holds, after a message more or less.                     *)
LEMMA IdsOfAppend ==
  ASSUME NEW box \in Seq(Message), NEW m \in Message
  PROVE  Ids(Append(box, m)) = Ids(box) \cup {m.id}
<1>1. /\ Len(Append(box, m)) = Len(box) + 1 /\ Len(box) \in Nat
      /\ \A i \in 1..Len(box) : Append(box, m)[i] = box[i]
      /\ Append(box, m)[Len(box) + 1] = m
  BY AppendProperties, LenProperties
<1>2. 1..(Len(box) + 1) = 1..Len(box) \cup {Len(box) + 1}
  BY <1>1
<1> QED
  BY <1>1, <1>2 DEF Ids

LEMMA IdsOfConcat ==
  ASSUME NEW box \in Seq(Message), NEW more \in Seq(Message)
  PROVE  Ids(box) \subseteq Ids(box \o more)
<1>1. /\ Len(box \o more) = Len(box) + Len(more) /\ Len(box) \in Nat /\ Len(more) \in Nat
      /\ \A i \in 1..Len(box) : (box \o more)[i] = box[i]
  BY ConcatProperties, LenProperties
<1>2. 1..Len(box) \subseteq 1..Len(box \o more)
  BY <1>1
<1> QED
  BY <1>1, <1>2 DEF Ids

LEMMA IdsOfTail ==
  ASSUME NEW box \in Seq(Message), box # <<>>
  PROVE  Ids(box) \subseteq {Head(box).id} \cup Ids(Tail(box))
<1> SUFFICES ASSUME NEW i \in 1..Len(box)
             PROVE  box[i].id \in {Head(box).id} \cup Ids(Tail(box))
  BY DEF Ids
<1>1. /\ Head(box) = box[1] /\ Len(box) \in Nat /\ Len(Tail(box)) = Len(box) - 1
      /\ \A j \in 1..Len(Tail(box)) : Tail(box)[j] = box[j + 1]
  BY HeadTailProperties, LenProperties
<1>2. CASE i = 1
  BY <1>1, <1>2
<1>3. CASE i # 1
  <2>1. i - 1 \in 1..Len(Tail(box)) /\ Tail(box)[i - 1] = box[i]
    BY <1>1, <1>3
  <2> QED
    BY <2>1 DEF Ids
<1> QED
  BY <1>2, <1>3

(* An awaited ask is one its caller is in, to a process.                   *)
LEMMA AwaitedAsk ==
  ASSUME TypeOK, NoStrandedAsk, NEW w \in awaiting
  PROVE  /\ w.by \in Callers /\ w.id \in Nat \ {0}
         /\ asking[w.by] # NoAsk /\ asking[w.by].id = w.id
         /\ asking[w.by].to \in Procs /\ HeldBy(asking[w.by].to, w.id)
<1>1. w.by \in Callers /\ w.id \in Nat \ {0}
  BY DEF TypeOK
<1>2. asking[w.by].id = w.id /\ HeldBy(asking[w.by].to, w.id)
  BY DEF NoStrandedAsk, HeldBy
<1>3. asking[w.by] # NoAsk
  BY <1>1, <1>2 DEF NoAsk
<1>4. asking[w.by].to \in Procs
  BY <1>1, <1>3 DEF TypeOK
<1> QED
  BY <1>1, <1>2, <1>3, <1>4

-----------------------------------------------------------------------------
(* A step that starts no ask and ends none, but answers some of `ids`,     *)
(* accounts for every ask if what it does not answer is still held.        *)
LEMMA AnsweringStep ==
  ASSUME TypeOK, NoStrandedAsk, AnswerHasAsker, AsksMade,
         NEW ids, NEW reply, NEW by, Route(ids, reply, by),
         UNCHANGED <<made, asking>>,
         \A q \in Procs, id \in Nat \ {0} : HeldBy(q, id) => id \in ids \/ HeldBy(q, id)'
  PROVE  NoStrandedAsk' /\ AnswerHasAsker' /\ AsksMade'
<1>1. /\ awaiting' = {w \in awaiting : w.id \notin ids}
      /\ answers' = answers \cup
           {[id |-> w.id, reply |-> reply, by |-> by] : w \in {v \in awaiting : v.id \in ids}}
  BY DEF Route, Answered
<1>2. ASSUME NEW a \in answers'
      PROVE  \/ a \in answers
             \/ \E w \in awaiting : /\ w.id \in ids /\ a.id = w.id
                                    /\ a = [id |-> w.id, reply |-> reply, by |-> by]
  BY <1>1
<1>3. NoStrandedAsk'
  <2> SUFFICES ASSUME NEW w \in awaiting'
               PROVE  (asking[w.by].id = w.id /\ HeldBy(asking[w.by].to, w.id))'
    BY DEF NoStrandedAsk, HeldBy
  <2>1. w \in awaiting /\ w.id \notin ids
    BY <1>1
  <2> QED
    BY <2>1, AwaitedAsk
<1>4. AnswerHasAsker'
  <2> SUFFICES ASSUME NEW a \in answers'
               PROVE  /\ \E c \in Callers : asking'[c].id = a.id
                      /\ \A w \in awaiting' : w.id # a.id
                      /\ \A b \in answers' : b.id = a.id => b = a
    BY DEF AnswerHasAsker
  <2>1. CASE a \in answers
    <3>1. /\ \E c \in Callers : asking[c].id = a.id
          /\ \A w \in awaiting : w.id # a.id
          /\ \A b \in answers : b.id = a.id => b = a
      BY <2>1 DEF AnswerHasAsker
    <3> QED
      BY <3>1, <1>1, <1>2
  <2>2. ASSUME NEW w \in awaiting, w.id \in ids,
               a = [id |-> w.id, reply |-> reply, by |-> by]
        PROVE  /\ \E c \in Callers : asking'[c].id = a.id
               /\ \A v \in awaiting' : v.id # a.id
               /\ \A b \in answers' : b.id = a.id => b = a
    <3>1. \E c \in Callers : asking'[c].id = a.id
      BY <2>2, AwaitedAsk
    <3>2. \A v \in awaiting' : v.id # a.id
      BY <2>2, <1>1
    <3>3. \A b \in answers : b.id # a.id
      BY <2>2 DEF AnswerHasAsker
    <3> QED
      BY <2>2, <3>1, <3>2, <3>3, <1>2
  <2> QED
    BY <1>2, <2>1, <2>2
<1>5. AsksMade'
  BY <1>1, <1>2 DEF AsksMade
<1> QED
  BY <1>3, <1>4, <1>5

(* A step that leaves the asks alone, when what is held stays held.        *)
LEMMA QuietStep ==
  ASSUME TypeOK, NoStrandedAsk, AnswerHasAsker, AsksMade,
         made' \in Nat, made' >= made, UNCHANGED <<asking, awaiting, answers>>,
         \A q \in Procs, id \in Nat \ {0} : HeldBy(q, id) => HeldBy(q, id)'
  PROVE  NoStrandedAsk' /\ AnswerHasAsker' /\ AsksMade'
<1>1. NoStrandedAsk'
  <2> SUFFICES ASSUME NEW w \in awaiting'
               PROVE  (asking[w.by].id = w.id /\ HeldBy(asking[w.by].to, w.id))'
    BY DEF NoStrandedAsk, HeldBy
  <2> QED
    BY AwaitedAsk
<1>2. AnswerHasAsker'
  BY DEF AnswerHasAsker
<1>3. AsksMade'
  BY DEF AsksMade, TypeOK
<1> QED
  BY <1>1, <1>2, <1>3

(* An ask that returns takes its answer, if there was one, and is awaited  *)
(* no longer.                                                              *)
LEMMA ReturningStep ==
  ASSUME TypeOK, NoStrandedAsk, AnswerHasAsker, AsksMade, NEW c \in Callers,
         asking[c] # NoAsk, asking' = [asking EXCEPT ![c] = NoAsk],
         answers' \subseteq answers, awaiting' \subseteq awaiting,
         \A a \in answers' : a.id # asking[c].id,
         \A w \in awaiting' : w.id # asking[c].id,
         UNCHANGED <<made, mailbox, cur, settling, kept>>
  PROVE  NoStrandedAsk' /\ AnswerHasAsker' /\ AsksMade'
<1>0. \A d \in Callers : asking'[d] = IF d = c THEN NoAsk ELSE asking[d]
  BY DEF TypeOK
<1>1. NoStrandedAsk'
  <2> SUFFICES ASSUME NEW w \in awaiting'
               PROVE  (asking[w.by].id = w.id /\ HeldBy(asking[w.by].to, w.id))'
    BY DEF NoStrandedAsk, HeldBy
  <2>1. w \in awaiting /\ w.by # c /\ w.by \in Callers
    BY AwaitedAsk
  <2>2. asking'[w.by] = asking[w.by]
    BY <1>0, <2>1
  <2>3. asking[w.by].id = w.id /\ HeldBy(asking[w.by].to, w.id)
    BY <2>1, AwaitedAsk
  <2> QED
    BY <2>2, <2>3 DEF HeldBy
<1>2. AnswerHasAsker'
  <2> SUFFICES ASSUME NEW a \in answers'
               PROVE  /\ \E d \in Callers : asking'[d].id = a.id
                      /\ \A w \in awaiting' : w.id # a.id
                      /\ \A b \in answers' : b.id = a.id => b = a
    BY DEF AnswerHasAsker
  <2>1. PICK d \in Callers : asking[d].id = a.id
    BY DEF AnswerHasAsker
  <2>2. d # c
    BY <2>1
  <2> QED
    BY <2>1, <2>2, <1>0 DEF AnswerHasAsker
<1>3. AsksMade'
  BY DEF AsksMade
<1> QED
  BY <1>1, <1>2, <1>3

-----------------------------------------------------------------------------
(* What each step does to what processes hold.                             *)

(* A message more in one mailbox.                                          *)
LEMMA EnqueueHolds ==
  ASSUME TypeOK, NEW q \in Procs, NEW m \in Message, Enqueue(q, m),
         UNCHANGED <<cur, settling, kept>>
  PROVE  \A p \in Procs, id \in Nat \ {0} :
            HeldBy(p, id) \/ (p = q /\ id = m.id) => HeldBy(p, id)'
<1>1. Ids(Append(mailbox[q], m)) = Ids(mailbox[q]) \cup {m.id}
  BY IdsOfAppend DEF TypeOK
<1>2. \A p \in Procs : mailbox'[p] = IF p = q THEN Append(mailbox[q], m) ELSE mailbox[p]
  BY DEF TypeOK, Enqueue
<1>3. \A p \in Procs : Ids(mailbox[p]) \subseteq Ids(mailbox'[p])
  BY <1>1, <1>2
<1>4. m.id \in Ids(mailbox'[q])
  BY <1>1, <1>2
<1> QED
  BY <1>3, <1>4 DEF HeldBy, Ids

(* The message taken is the one being run.                                 *)
LEMMA TakeHolds ==
  ASSUME TypeOK, SettlingBusy, NEW q \in Procs, Take(q)
  PROVE  /\ \A p \in Procs, id \in Nat \ {0} : HeldBy(p, id) => HeldBy(p, id)'
         /\ SettlingBusy'
<1>1. mailbox[q] \in Seq(Message) /\ mailbox[q] # <<>>
  BY DEF TypeOK, Take
<1>2. Ids(mailbox[q]) \subseteq {Head(mailbox[q]).id} \cup Ids(Tail(mailbox[q]))
  BY <1>1, IdsOfTail
<1>3. /\ \A p \in Procs : mailbox'[p] = IF p = q THEN Tail(mailbox[q]) ELSE mailbox[p]
      /\ \A p \in Procs : cur'[p] = IF p = q THEN Head(mailbox[q]).id ELSE cur[p]
      /\ settling' = settling /\ kept' = kept /\ cur[q] = 0
  BY DEF TypeOK, Take, Busy
<1>4. q \notin settling /\ settling \subseteq Procs
  BY <1>3 DEF SettlingBusy, Busy, TypeOK
<1>5. ASSUME NEW p \in Procs, NEW id \in Nat \ {0}, HeldBy(p, id) PROVE HeldBy(p, id)'
  <2>1. CASE p = q
    <3>1. id \in Ids(mailbox[q]) \/ id \in kept[q]
      BY <1>3, <1>5, <2>1 DEF HeldBy
    <3>2. id \in Ids(mailbox'[q]) \/ id = cur'[q] \/ id \in kept'[q]
      BY <1>2, <1>3, <3>1
    <3> QED
      BY <1>3, <1>4, <2>1, <3>2 DEF HeldBy, Ids
  <2>2. CASE p # q
    <3>1. mailbox'[p] = mailbox[p] /\ cur'[p] = cur[p] /\ settling' = settling /\ kept' = kept
      BY <1>3, <2>2
    <3> QED
      BY <1>5, <3>1 DEF HeldBy, Ids
  <2> QED
    BY <2>1, <2>2
<1>6. SettlingBusy'
  BY <1>3, <1>4 DEF SettlingBusy, Busy
<1> QED
  BY <1>5, <1>6

(* A commit answers the message it ran and what the update answered, or    *)
(* keeps them.                                                             *)
LEMMA CommitHolds ==
  ASSUME TypeOK, SettlingBusy, NEW p \in Procs, Commit(p)
  PROVE  /\ \A q \in Procs, id \in Nat \ {0} :
               HeldBy(q, id) =>
                 \/ id \in pend[p] \cup (IF deferring[p] THEN {} ELSE {cur[p]})
                 \/ HeldBy(q, id)'
         /\ SettlingBusy'
<1>1. \A q \in Procs : Ids(mailbox[q]) \subseteq Ids(mailbox'[q])
  <2> TAKE q \in Procs
  <2>1. mailbox[q] \in Seq(Message) /\ outbox[p][q] \in Seq(Message)
    BY DEF TypeOK
  <2>2. mailbox'[q] = mailbox[q] \/ mailbox'[q] = mailbox[q] \o outbox[p][q]
    BY DEF Commit, Flushed
  <2> QED
    BY <2>1, <2>2, IdsOfConcat
<1>2. /\ kept' = [kept EXCEPT ![p] =
                    (@ \ pend[p]) \cup (IF deferring[p] THEN {cur[p]} \ pend[p] ELSE {})]
      /\ settling' = settling \cup {p} /\ cur' = cur
  BY DEF Commit
<1>3. \A q \in Procs : kept'[q] =
         IF q = p THEN (kept[p] \ pend[p]) \cup (IF deferring[p] THEN {cur[p]} \ pend[p] ELSE {})
         ELSE kept[q]
  BY <1>2 DEF TypeOK
<1>4. ASSUME NEW q \in Procs, NEW id \in Nat \ {0}, HeldBy(q, id),
             id \notin pend[p] \cup (IF deferring[p] THEN {} ELSE {cur[p]})
      PROVE  HeldBy(q, id)'
  <2>1. \/ id \in Ids(mailbox'[q])
        \/ id = cur'[q] /\ q \notin settling'
        \/ id \in kept'[q]
    BY <1>1, <1>2, <1>3, <1>4 DEF HeldBy
  <2> QED
    BY <2>1 DEF HeldBy, Ids
<1>5. SettlingBusy'
  BY <1>2 DEF SettlingBusy, Busy, Commit, Runs
<1> QED
  BY <1>4, <1>5

(* A crash answers what it drops.                                          *)
LEMMA CrashHolds ==
  ASSUME TypeOK, NEW p \in Procs, NEW emptied \in BOOLEAN, Drops(p, emptied),
         UNCHANGED cur, settling' = settling \/ settling' = settling \cup {p}
  PROVE  \A q \in Procs, id \in Nat \ {0} :
            HeldBy(q, id) =>
              \/ id \in Unanswered(p, emptied)
              \/ id = cur[p] /\ settling' # settling
              \/ HeldBy(q, id)'
<1>1. /\ \A q \in Procs : kept'[q] = IF q = p THEN {} ELSE kept[q]
      /\ \A q \in Procs : mailbox'[q] = IF q = p /\ emptied THEN <<>> ELSE mailbox[q]
  BY DEF TypeOK, Drops
<1> TAKE q \in Procs, id \in Nat \ {0}
<1> HAVE HeldBy(q, id)
<1>2. CASE q # p
  <2>1. mailbox'[q] = mailbox[q] /\ cur' = cur /\ kept'[q] = kept[q]
        /\ (q \in settling' <=> q \in settling)
    BY <1>1, <1>2
  <2> QED
    BY <2>1 DEF HeldBy, Ids
<1>3. CASE q = p
  <2>1. CASE id \in Ids(mailbox[p])
    <3>1. CASE emptied
      BY <2>1, <3>1 DEF Unanswered
    <3>2. CASE ~emptied
      <4>1. mailbox'[p] = mailbox[p]
        BY <1>1, <3>2
      <4> QED
        BY <1>3, <2>1, <4>1 DEF HeldBy, Ids
    <3> QED
      BY <3>1, <3>2
  <2>2. CASE id = cur[p] /\ p \notin settling
    BY <1>3, <2>2 DEF HeldBy
  <2>3. CASE id \in kept[p]
    BY <2>3 DEF Unanswered
  <2> QED
    BY <1>3, <2>1, <2>2, <2>3 DEF HeldBy
<1> QED
  BY <1>2, <1>3

-----------------------------------------------------------------------------
(* Every step.                                                             *)
LEMMA AskInvStep == AskInv /\ [Next]_vars => AskInv'
<1> SUFFICES ASSUME AskInv, [Next]_vars PROVE AskInv'
  OBVIOUS
<1> USE DEF AskInv
<1> DEFINE Accounted == NoStrandedAsk /\ AnswerHasAsker /\ AsksMade
<1>0. TypeOK'
  BY TypeStep
<1>q. ASSUME UNCHANGED <<mailbox, cur, settling, kept, asking, awaiting, answers>>,
             made' = made \/ made' = made + 1
      PROVE  Accounted' /\ SettlingBusy'
  <2>1. \A q \in Procs, id \in Nat \ {0} : HeldBy(q, id) => HeldBy(q, id)'
    BY <1>q DEF HeldBy, Ids
  <2>2. made' \in Nat /\ made' >= made
    BY <1>q DEF TypeOK
  <2>3. SettlingBusy'
    BY <1>q DEF SettlingBusy, Busy
  <2> QED
    BY <1>q, <2>1, <2>2, <2>3, QuietStep
<1>1. ASSUME NEW q \in Procs, MainSend(q) PROVE Accounted' /\ SettlingBusy'
  <2>1. Made(Main, 0, "send") \in Message
    BY MadeType
  <2>2. /\ Enqueue(q, Made(Main, 0, "send")) /\ made' = made + 1
        /\ UNCHANGED <<cur, settling, kept, asking, awaiting, answers>>
    BY <1>1 DEF MainSend, askVars
  <2>3. \A p \in Procs, id \in Nat \ {0} : HeldBy(p, id) => HeldBy(p, id)'
    BY <2>1, <2>2, EnqueueHolds
  <2>4. made' \in Nat /\ made' >= made
    BY <2>2 DEF TypeOK
  <2>5. SettlingBusy'
    BY <2>2 DEF SettlingBusy, Busy
  <2> QED
    BY <2>2, <2>3, <2>4, <2>5, QuietStep
<1>2. ASSUME NEW q \in Procs, MainSendLater(q) PROVE Accounted' /\ SettlingBusy'
  BY <1>2, <1>q DEF MainSendLater, procVars, askVars
<1>3. ASSUME NEW q \in Procs, MainOverflows(q) PROVE Accounted' /\ SettlingBusy'
  BY <1>3, <1>q DEF MainOverflows, procVars, askVars
<1>4. ASSUME NEW c \in Callers, NEW q \in Procs, Ask(c, q) PROVE Accounted' /\ SettlingBusy'
  <2> DEFINE m == Made(c, IF c = Main THEN 0 ELSE cur[c], "ask")
  <2>1. m \in Message /\ m.id = made + 1
    BY MadeType DEF TypeOK, Made
  <2>2. /\ Enqueue(q, m) /\ made' = made + 1 /\ made \in Nat
        /\ asking' = [asking EXCEPT ![c] = [to |-> q, id |-> made + 1]]
        /\ awaiting' = awaiting \cup {[id |-> made + 1, by |-> c]}
        /\ UNCHANGED <<cur, settling, kept, answers>>
    BY <1>4 DEF Ask, TypeOK
  <2>3. asking[c] = NoAsk
    BY <1>4 DEF Ask, MainRuns, Runs
  <2>4. \A p \in Procs, id \in Nat \ {0} :
           HeldBy(p, id) \/ (p = q /\ id = made + 1) => HeldBy(p, id)'
    <3> HIDE DEF m
    <3> QED
      BY <2>1, <2>2, EnqueueHolds
  <2>5. \A d \in Callers : asking'[d] = IF d = c THEN [to |-> q, id |-> made + 1] ELSE asking[d]
    BY <2>2 DEF TypeOK
  <2>6. NoStrandedAsk'
    <3> SUFFICES ASSUME NEW w \in awaiting'
                 PROVE  (asking[w.by].id = w.id /\ HeldBy(asking[w.by].to, w.id))'
      BY DEF NoStrandedAsk, HeldBy
    <3>1. CASE w \in awaiting
      <4>1. w.by # c /\ w.by \in Callers
        BY <2>3, <3>1, AwaitedAsk
      <4>2. /\ asking[w.by].id = w.id /\ asking[w.by].to \in Procs /\ w.id \in Nat \ {0}
            /\ HeldBy(asking[w.by].to, w.id)
        BY <3>1, AwaitedAsk
      <4>3. asking'[w.by] = asking[w.by]
        BY <2>5, <4>1
      <4> QED
        BY <2>4, <4>2, <4>3
    <3>2. CASE w = [id |-> made + 1, by |-> c]
      <4>1. asking'[w.by].to = q /\ asking'[w.by].id = w.id
        BY <2>5, <3>2
      <4>2. w.id = made + 1 /\ w.id \in Nat \ {0}
        BY <2>2, <3>2
      <4>3. HeldBy(q, w.id)'
        BY <2>4, <4>2
      <4> QED
        BY <4>1, <4>3
    <3> QED
      BY <2>2, <3>1, <3>2
  <2>7. AnswerHasAsker'
    <3> SUFFICES ASSUME NEW a \in answers
                 PROVE  /\ \E d \in Callers : asking'[d].id = a.id
                        /\ \A w \in awaiting' : w.id # a.id
                        /\ \A b \in answers : b.id = a.id => b = a
      BY <2>2 DEF AnswerHasAsker
    <3>1. a.id \in Nat \ {0} /\ a.id <= made
      BY DEF TypeOK, AsksMade
    <3>2. PICK d \in Callers : asking[d].id = a.id
      BY DEF AnswerHasAsker
    <3>3. d # c
      BY <2>3, <3>1, <3>2 DEF NoAsk
    <3>4. \A w \in awaiting' : w.id # a.id
      BY <2>2, <3>1 DEF AnswerHasAsker
    <3> QED
      BY <2>5, <3>2, <3>3, <3>4 DEF AnswerHasAsker
  <2>8. AsksMade'
    <3>1. \A a \in answers : a.id \in Nat /\ a.id <= made
      BY DEF AsksMade, TypeOK
    <3>2. \A w \in awaiting : w.id \in Nat /\ w.id <= made
      BY DEF AsksMade, TypeOK
    <3> QED
      BY <2>2, <3>1, <3>2 DEF AsksMade
  <2>9. SettlingBusy'
    BY <2>2 DEF SettlingBusy, Busy
  <2> QED
    BY <2>6, <2>7, <2>8, <2>9
<1>5. ASSUME NEW p \in Procs, NEW q \in Procs, Send(p, q) PROVE Accounted' /\ SettlingBusy'
  BY <1>5, <1>q DEF Send, askVars
<1>6. ASSUME NEW p \in Procs, NEW q \in Procs, SendLater(p, q) PROVE Accounted' /\ SettlingBusy'
  BY <1>6, <1>q DEF SendLater, askVars
<1>7. ASSUME NEW p \in Procs, Defer(p) PROVE Accounted' /\ SettlingBusy'
  BY <1>7, <1>q DEF Defer, askVars
<1>8. ASSUME NEW p \in Procs, NEW id \in kept[p] \cup {cur[p]}, Answer(p, id)
      PROVE  Accounted' /\ SettlingBusy'
  BY <1>8, <1>q DEF Answer, askVars
<1>9. ASSUME NEW p \in Procs, Commit(p) PROVE Accounted' /\ SettlingBusy'
  <2> DEFINE ids == pend[p] \cup (IF deferring[p] THEN {} ELSE {cur[p]})
  <2>1. Route(ids, "ok", cur[p]) /\ UNCHANGED <<made, asking>>
    BY <1>9 DEF Commit
  <2>2. /\ \A q \in Procs, id \in Nat \ {0} : HeldBy(q, id) => id \in ids \/ HeldBy(q, id)'
        /\ SettlingBusy'
    BY <1>9, CommitHolds
  <2> HIDE DEF ids
  <2> QED
    BY <2>1, <2>2, AnsweringStep
<1>10. ASSUME NEW p \in Procs, CrashStaysDown(p) PROVE Accounted' /\ SettlingBusy'
  <2> DEFINE ids == Unanswered(p, TRUE) \cup {cur[p]}
  <2>1. /\ Route(ids, "down", cur[p]) /\ Drops(p, TRUE) /\ settling' = settling \cup {p}
        /\ UNCHANGED <<made, cur, asking>> /\ Busy(p)
    BY <1>10 DEF CrashStaysDown, Runs
  <2>2. \A q \in Procs, id \in Nat \ {0} : HeldBy(q, id) => id \in ids \/ HeldBy(q, id)'
    BY <2>1, CrashHolds
  <2>3. SettlingBusy'
    BY <2>1 DEF SettlingBusy, Busy
  <2> HIDE DEF ids
  <2> QED
    BY <2>1, <2>2, <2>3, AnsweringStep
<1>11. ASSUME NEW p \in Procs, CrashRestarts(p) PROVE Accounted' /\ SettlingBusy'
  <2> DEFINE ids == Unanswered(p, TRUE) \cup {cur[p]}
  <2>1. /\ Route(ids, "down", cur[p]) /\ Drops(p, TRUE) /\ settling' = settling \cup {p}
        /\ UNCHANGED <<made, cur, asking>> /\ Busy(p)
    BY <1>11 DEF CrashRestarts, Runs
  <2>2. \A q \in Procs, id \in Nat \ {0} : HeldBy(q, id) => id \in ids \/ HeldBy(q, id)'
    BY <2>1, CrashHolds
  <2>3. SettlingBusy'
    BY <2>1 DEF SettlingBusy, Busy
  <2> HIDE DEF ids
  <2> QED
    BY <2>1, <2>2, <2>3, AnsweringStep
<1>12. ASSUME NEW p \in Procs, CrashGivesUp(p) PROVE Accounted' /\ SettlingBusy'
  <2>1. PICK init \in BOOLEAN : Drops(p, init) /\ Route(Unanswered(p, init), "down", cur[p])
    BY <1>12 DEF CrashGivesUp
  <2>2. UNCHANGED <<made, cur, settling, asking>>
    BY <1>12 DEF CrashGivesUp
  <2>3. \A q \in Procs, id \in Nat \ {0} :
           HeldBy(q, id) => id \in Unanswered(p, init) \/ HeldBy(q, id)'
    BY <2>1, <2>2, CrashHolds
  <2>4. SettlingBusy'
    BY <2>2 DEF SettlingBusy, Busy
  <2> QED
    BY <2>1, <2>2, <2>3, <2>4, AnsweringStep
<1>13. ASSUME NEW p \in Procs, Settle(p) PROVE Accounted' /\ SettlingBusy'
  <2>1. /\ settling' = settling \ {p} /\ p \in settling
        /\ \A q \in Procs : cur'[q] = IF q = p THEN 0 ELSE cur[q]
        /\ UNCHANGED <<made, mailbox, kept, asking, awaiting, answers>>
    BY <1>13 DEF Settle, askVars, TypeOK
  <2>2. \A q \in Procs, id \in Nat \ {0} : HeldBy(q, id) => HeldBy(q, id)'
    BY <2>1 DEF HeldBy, Ids
  <2>3. SettlingBusy'
    BY <2>1 DEF SettlingBusy, Busy, TypeOK
  <2>4. made' \in Nat /\ made' >= made
    BY <2>1 DEF TypeOK
  <2> QED
    BY <2>1, <2>2, <2>3, <2>4, QuietStep
<1>14. ASSUME NEW c \in Callers, AskReturns(c) PROVE Accounted' /\ SettlingBusy'
  <2>1. PICK a \in answers : a.id = asking[c].id
    BY <1>14 DEF AskReturns, HasAnswer
  <2>2. \A w \in awaiting : w.id # asking[c].id
    BY <2>1 DEF AnswerHasAsker
  <2>3. /\ asking[c] # NoAsk /\ asking' = [asking EXCEPT ![c] = NoAsk]
        /\ answers' = {b \in answers : b.id # asking[c].id}
        /\ UNCHANGED <<made, mailbox, cur, settling, kept, awaiting>>
    BY <1>14 DEF AskReturns, InPass, Returns, procVars
  <2>4. SettlingBusy'
    BY <2>3 DEF SettlingBusy, Busy
  <2> QED
    BY <2>2, <2>3, <2>4, ReturningStep
<1>15. ASSUME NEW c \in Callers, AskGivesUp(c) PROVE Accounted' /\ SettlingBusy'
  <2>1. /\ asking[c] # NoAsk /\ asking' = [asking EXCEPT ![c] = NoAsk]
        /\ awaiting' = {w \in awaiting : w.id # asking[c].id}
        /\ \A a \in answers : a.id # asking[c].id
        /\ UNCHANGED <<made, mailbox, cur, settling, kept, answers>>
    BY <1>15 DEF AskGivesUp, StillAwaited, HasAnswer, InPass, Returns, procVars
  <2>2. SettlingBusy'
    BY <2>1 DEF SettlingBusy, Busy
  <2> QED
    BY <2>1, <2>2, ReturningStep
<1>t. ASSUME NEW q \in Procs, Take(q) PROVE Accounted' /\ SettlingBusy'
  <2>1. UNCHANGED <<made, asking, awaiting, answers>>
    BY <1>t DEF Take, askVars
  <2>2. made' \in Nat /\ made' >= made
    BY <2>1 DEF TypeOK
  <2> QED
    BY <1>t, <2>1, <2>2, TakeHolds, QuietStep
<1>16. ASSUME NEW c \in Callers, AskDelivers(c) PROVE Accounted' /\ SettlingBusy'
  <2>1. asking[c].to \in Procs
    BY <1>16 DEF TypeOK, AskDelivers, InPass
  <2> QED
    BY <1>16, <2>1, <1>t DEF AskDelivers
<1>17. ASSUME NEW p \in Procs, AskParks(p) PROVE Accounted' /\ SettlingBusy'
  BY <1>17, <1>q DEF AskParks, procVars, askVars
<1>17a. ASSUME NEW p \in Procs, AskStepsAside(p) PROVE Accounted' /\ SettlingBusy'
  BY <1>17a, <1>q DEF AskStepsAside, procVars, askVars
<1>18. ASSUME NEW c \in Callers, Expire(c) PROVE Accounted' /\ SettlingBusy'
  BY <1>18, <1>q DEF Expire, procVars
<1>19. ASSUME NEW s \in Scheds, NEW p \in Procs, Resume(s, p) PROVE Accounted' /\ SettlingBusy'
  BY <1>19, <1>q DEF Resume, procVars, askVars
<1>20. ASSUME NEW s \in Scheds, NEW q \in Procs, Deliver(s, q) PROVE Accounted' /\ SettlingBusy'
  BY <1>20, <1>t DEF Deliver
<1>21. ASSUME NEW l \in later, DueLater(l) PROVE Accounted' /\ SettlingBusy'
  <2>1. l.msg \in Message /\ l.to \in Procs
    BY DEF TypeOK, Outgoing
  <2>2. /\ UNCHANGED <<made, cur, settling, kept, asking, awaiting, answers>>
        /\ Enqueue(l.to, l.msg) \/ mailbox' = mailbox
    BY <1>21 DEF DueLater, askVars
  <2>3. CASE mailbox' = mailbox
    BY <2>2, <2>3, <1>q
  <2>4. CASE Enqueue(l.to, l.msg)
    <3>1. \A p \in Procs, id \in Nat \ {0} : HeldBy(p, id) => HeldBy(p, id)'
      BY <2>1, <2>2, <2>4, EnqueueHolds
    <3>2. made' \in Nat /\ made' >= made
      BY <2>2 DEF TypeOK
    <3>3. SettlingBusy'
      BY <2>2 DEF SettlingBusy, Busy
    <3> QED
      BY <2>2, <3>1, <3>2, <3>3, QuietStep
  <2> QED
    BY <2>2, <2>3, <2>4
<1>22. ASSUME UNCHANGED vars PROVE Accounted' /\ SettlingBusy'
  BY <1>22, <1>q DEF vars, procVars, askVars
<1>23. Accounted' /\ SettlingBusy'
  <2> HIDE DEF Accounted, AskInv
  <2>1. MainRow => Accounted' /\ SettlingBusy'
    BY <1>1, <1>2, <1>3, <1>4, KnowsAssumption DEF MainRow
  <2>2. ASSUME NEW p \in Procs, Row(p) \/ Commit(p) \/ Crash(p) \/ Settle(p)
        PROVE  Accounted' /\ SettlingBusy'
    BY <2>2, <1>4, <1>5, <1>6, <1>7, <1>8, <1>9, <1>10, <1>11, <1>12, <1>13, KnowsAssumption
    DEF Row, Crash
  <2>3. ASSUME NEW c \in Callers, Pass(c) \/ Expire(c) PROVE Accounted' /\ SettlingBusy'
    BY <2>3, <1>14, <1>15, <1>16, <1>17, <1>17a, <1>18 DEF Pass
  <2>4. ASSUME NEW s \in Scheds, Turn(s) PROVE Accounted' /\ SettlingBusy'
    BY <2>4, <1>19, <1>20 DEF Turn
  <2> QED
    BY <1>21, <1>22, <2>1, <2>2, <2>3, <2>4 DEF Next
<1> QED
  BY <1>0, <1>23

LEMMA AskInvInit == Init => AskInv
<1> SUFFICES ASSUME Init PROVE AskInv
  OBVIOUS
<1>1. awaiting = {} /\ answers = {} /\ settling = {}
  BY DEF Init
<1> QED
  BY <1>1, TypeInit DEF AskInv, NoStrandedAsk, AnswerHasAsker, SettlingBusy, AsksMade

THEOREM AskInvariant == Spec => []AskInv
<1>1. Init => AskInv
  BY AskInvInit
<1>2. AskInv /\ [Next]_vars => AskInv'
  BY AskInvStep
<1> QED
  BY <1>1, <1>2, PTL DEF Spec

(* No crash, restart or commit forgets an ask: an ask with no answer yet   *)
(* still waits in its target's mailbox, runs, or is kept there.            *)
THEOREM NoAskStranded == Spec => []NoStrandedAsk
<1>1. AskInv => NoStrandedAsk
  BY DEF AskInv
<1> QED
  BY <1>1, AskInvariant, PTL

(* An answer always finds its asker still asking, and is the only one.     *)
THEOREM AnswersHaveAskers == Spec => []AnswerHasAsker
<1>1. AskInv => AnswerHasAsker
  BY DEF AskInv
<1> QED
  BY <1>1, AskInvariant, PTL

-----------------------------------------------------------------------------
(***************************************************************************)
(* Turns: an update is in one place (OneTurn), one that is parked has      *)
(* something to wait for (NoLostWake), and a process that is down has      *)
(* nothing waiting (DownIsEmpty).                                          *)
(***************************************************************************)
(* An ask has one caller waiting in it.                                    *)
AskersDiffer ==
    \A c, d \in Callers : asking[c] # NoAsk /\ asking[c].id = asking[d].id => c = d
AsksBegun == \A c \in Callers : asking[c].id <= made

(* A process that is down runs nothing but its last update's end.          *)
RunningUp == \A p \in Procs : Busy(p) /\ p \notin settling => up[p] \/ halted

TurnInv == AskInv /\ OneTurn /\ AskersDiffer /\ AsksBegun /\ NoLostWake /\ RunningUp /\ DownIsEmpty

-----------------------------------------------------------------------------
(* A thread handed over, and handed back.                                  *)
LEMMA Pushed ==
  ASSUME TypeOK, NEW s \in Scheds, NEW p \in Procs, stack' = Push(s, p)
  PROVE  /\ Len(stack[s]) \in Nat /\ Len(stack'[s]) = Len(stack[s]) + 1
         /\ stack'[s][Len(stack[s]) + 1] = p
         /\ \A i \in 1..Len(stack[s]) : stack'[s][i] = stack[s][i]
         /\ \A t \in Scheds \ {s} : stack'[t] = stack[t]
         /\ stack'[s] # <<>>
<1>1. stack[s] \in Seq(Procs)
  BY DEF TypeOK
<1>2. stack'[s] = Append(stack[s], p) /\ \A t \in Scheds \ {s} : stack'[t] = stack[t]
  BY DEF TypeOK, Push
<1> QED
  BY <1>1, <1>2, AppendProperties, LenProperties

LEMMA Popped ==
  ASSUME TypeOK, NEW s \in Scheds, stack[s] # <<>>, stack' = Pop(s)
  PROVE  /\ Len(stack[s]) \in Nat \ {0} /\ Len(stack'[s]) = Len(stack[s]) - 1
         /\ \A i \in 1..(Len(stack[s]) - 1) : stack'[s][i] = stack[s][i]
         /\ \A t \in Scheds \ {s} : stack'[t] = stack[t]
<1>1. stack[s] \in Seq(Procs)
  BY DEF TypeOK
<1>2. stack'[s] = SubSeq(stack[s], 1, Len(stack[s]) - 1) /\ \A t \in Scheds \ {s} : stack'[t] = stack[t]
  BY DEF TypeOK, Pop
<1>3. Len(stack[s]) \in Nat \ {0}
  BY <1>1, LenProperties, EmptySeq
<1> QED
  BY <1>1, <1>2, <1>3, SubSeqProperties

(* The holder of a thread is on it, last.                                  *)
LEMMA HolderOn ==
  ASSUME TypeOK, NEW p \in Procs, Holds(p)
  PROVE  /\ OnStack(p) /\ Home[p] \in Scheds /\ stack[Home[p]] # <<>>
         /\ stack[Home[p]][Len(stack[Home[p]])] = p
         /\ Len(stack[Home[p]]) \in Nat \ {0}
<1>0. Home[p] \in Scheds /\ stack[Home[p]] \in Seq(Procs) /\ p # Main
  BY DEF TypeOK
<1>1. stack[Home[p]] # <<>> /\ stack[Home[p]][Len(stack[Home[p]])] = p
  BY <1>0 DEF Holds, Holder, HomeOf
<1>2. Len(stack[Home[p]]) \in Nat \ {0}
  BY <1>0, <1>1, LenProperties, EmptySeq
<1> QED
  BY <1>0, <1>1, <1>2 DEF OnStack

(* The three parts of OneTurn.                                             *)
PlaceOf(p) ==
    /\ Busy(p) <=> OnStack(p) \/ p \in parked \cup ready
    /\ OnStack(p) => p \notin parked \cup ready
Once == \A s \in Scheds : \A i, j \in 1..Len(stack[s]) :
            stack[s][i] = stack[s][j] => i = j /\ s = Home[stack[s][i]]
SettlingHolds == \A p \in settling : Holds(p) /\ asking[p] = NoAsk

LEMMA OneTurnParts ==
  ASSUME TypeOK
  PROVE  OneTurn <=> parked \cap ready = {} /\ (\A p \in Procs : PlaceOf(p)) /\ Once /\ SettlingHolds
<1>1. \A s \in Scheds : \A i \in 1..Len(stack[s]) : stack[s][i] \in Procs
  <2> SUFFICES ASSUME NEW s \in Scheds, NEW i \in 1..Len(stack[s]) PROVE stack[s][i] \in Procs
    OBVIOUS
  <2>1. stack[s] \in Seq(Procs)
    BY DEF TypeOK
  <2> QED
    BY <2>1, ElementOfSeq
<1>2. settling \subseteq Procs
  BY DEF TypeOK
<1> QED
  BY <1>1, <1>2 DEF OneTurn, PlaceOf, Once, SettlingHolds

(* The next state's parts are those of OneTurn', too.                      *)
LEMMA OneTurnNext ==
  ASSUME TypeOK', parked' \cap ready' = {}, \A p \in Procs : PlaceOf(p)', Once', SettlingHolds'
  PROVE  OneTurn'
<1>1. \A s \in Scheds : \A i \in 1..Len(stack'[s]) : stack'[s][i] \in Procs
  <2> SUFFICES ASSUME NEW s \in Scheds, NEW i \in 1..Len(stack'[s]) PROVE stack'[s][i] \in Procs
    OBVIOUS
  <2>1. stack'[s] \in Seq(Procs)
    BY DEF TypeOK
  <2> QED
    BY <2>1, ElementOfSeq
<1>2. settling' \subseteq Procs
  BY DEF TypeOK
<1> QED
  BY <1>1, <1>2 DEF OneTurn, PlaceOf, Once, SettlingHolds

(* A process that is on no thread gets one: whoever held it is not being   *)
(* compacted.                                                              *)
LEMMA PushTurn ==
  ASSUME TypeOK, TypeOK', OneTurn, NEW p \in Procs, ~OnStack(p),
         stack' = Push(Home[p], p), Holder(Home[p]) \notin settling,
         settling' \subseteq settling, asking' = asking
  PROVE  /\ \A x \in Procs : OnStack(x)' <=> OnStack(x) \/ x = p
         /\ Once' /\ SettlingHolds'
<1> DEFINE s == Home[p]
<1>1. s \in Scheds
  OBVIOUS
<1>2. /\ Len(stack[s]) \in Nat /\ Len(stack'[s]) = Len(stack[s]) + 1
      /\ stack'[s][Len(stack[s]) + 1] = p
      /\ \A i \in 1..Len(stack[s]) : stack'[s][i] = stack[s][i]
      /\ \A t \in Scheds \ {s} : stack'[t] = stack[t]
      /\ stack'[s] # <<>>
  BY <1>1, Pushed
<1>3. Once /\ SettlingHolds
  BY OneTurnParts
<1>4. \A i \in 1..Len(stack[s]) : stack[s][i] # p
  BY DEF OnStack
<1>5. \A x \in Procs : OnStack(x)' <=> OnStack(x) \/ x = p
  <2> SUFFICES ASSUME NEW x \in Procs PROVE OnStack(x)' <=> OnStack(x) \/ x = p
    OBVIOUS
  <2>1. CASE Home[x] # s
    BY <1>2, <2>1 DEF OnStack
  <2>2. CASE Home[x] = s
    <3> HIDE DEF s
    <3>1. 1..Len(stack'[s]) = 1..Len(stack[s]) \cup {Len(stack[s]) + 1}
      BY <1>2
    <3> QED
      BY <1>2, <2>2, <3>1 DEF OnStack
  <2> QED
    BY <2>1, <2>2
<1>6. Once'
  <2> SUFFICES ASSUME NEW t \in Scheds, NEW i \in 1..Len(stack'[t]), NEW j \in 1..Len(stack'[t]),
                      stack'[t][i] = stack'[t][j]
               PROVE  i = j /\ t = Home[stack'[t][i]]
    BY DEF Once
  <2>1. CASE t # s
    BY <1>2, <1>3, <2>1 DEF Once
  <2>2. CASE t = s
    <3>1. Home[p] = s
      OBVIOUS
    <3> HIDE DEF s
    <3>2. CASE i \in 1..Len(stack[s]) /\ j \in 1..Len(stack[s])
      BY <1>1, <1>2, <1>3, <2>2, <3>2 DEF Once
    <3>3. CASE i = Len(stack[s]) + 1 /\ j = Len(stack[s]) + 1
      BY <1>2, <2>2, <3>1, <3>3
    <3>4. ~(i \in 1..Len(stack[s]) /\ j = Len(stack[s]) + 1)
      BY <1>2, <1>4, <2>2
    <3>5. ~(j \in 1..Len(stack[s]) /\ i = Len(stack[s]) + 1)
      BY <1>2, <1>4, <2>2
    <3> QED
      BY <1>2, <2>2, <3>2, <3>3, <3>4, <3>5
  <2> QED
    BY <2>1, <2>2
<1>7. SettlingHolds'
  <2> SUFFICES ASSUME NEW x \in settling PROVE Holds(x)' /\ asking[x] = NoAsk
    BY DEF SettlingHolds
  <2>1. Holds(x) /\ x \in Procs /\ asking[x] = NoAsk
    BY <1>3 DEF SettlingHolds, TypeOK
  <2>2. Home[x] # s /\ Home[x] \in Scheds
    BY <2>1 DEF Holds, HomeOf
  <2> QED
    BY <1>2, <2>1, <2>2 DEF Holds, HomeOf, Holder
<1> QED
  BY <1>5, <1>6, <1>7

(* The holder of a thread leaves it.                                       *)
LEMMA PopTurn ==
  ASSUME TypeOK, TypeOK', OneTurn, NEW p \in Procs, Holds(p), stack' = Pop(Home[p]),
         settling' \subseteq settling \ {p}, asking' = asking
  PROVE  /\ \A x \in Procs : OnStack(x)' <=> OnStack(x) /\ x # p
         /\ Once' /\ SettlingHolds'
<1> DEFINE s == Home[p]
<1>1. /\ s \in Scheds /\ stack[s] # <<>> /\ stack[s][Len(stack[s])] = p
  BY HolderOn
<1>2. /\ Len(stack[s]) \in Nat \ {0} /\ Len(stack'[s]) = Len(stack[s]) - 1
      /\ \A i \in 1..(Len(stack[s]) - 1) : stack'[s][i] = stack[s][i]
      /\ \A t \in Scheds \ {s} : stack'[t] = stack[t]
  BY <1>1, Popped
<1>3. Once /\ SettlingHolds
  BY OneTurnParts
<1>4. \A i \in 1..(Len(stack[s]) - 1) : stack[s][i] # p
  BY <1>1, <1>2, <1>3 DEF Once
<1>5. \A x \in Procs : OnStack(x)' <=> OnStack(x) /\ x # p
  <2> SUFFICES ASSUME NEW x \in Procs PROVE OnStack(x)' <=> OnStack(x) /\ x # p
    OBVIOUS
  <2>1. CASE Home[x] # s
    BY <1>2, <2>1 DEF OnStack
  <2>2. CASE Home[x] = s
    <3> HIDE DEF s
    <3>1. /\ 1..Len(stack[s]) = 1..Len(stack'[s]) \cup {Len(stack[s])}
          /\ \A i \in 1..Len(stack'[s]) : stack'[s][i] = stack[s][i] /\ stack[s][i] # p
      BY <1>2, <1>4
    <3>2. OnStack(x) <=> x = p \/ \E i \in 1..Len(stack'[s]) : stack[s][i] = x
      BY <1>1, <2>2, <3>1 DEF OnStack
    <3>3. OnStack(x)' <=> \E i \in 1..Len(stack'[s]) : stack'[s][i] = x
      BY <2>2 DEF OnStack
    <3> QED
      BY <3>1, <3>2, <3>3
  <2> QED
    BY <2>1, <2>2
<1>6. Once'
  <2> SUFFICES ASSUME NEW t \in Scheds, NEW i \in 1..Len(stack'[t]), NEW j \in 1..Len(stack'[t]),
                      stack'[t][i] = stack'[t][j]
               PROVE  i = j /\ t = Home[stack'[t][i]]
    BY DEF Once
  <2>1. CASE t # s
    BY <1>2, <1>3, <2>1 DEF Once
  <2>2. CASE t = s
    <3> HIDE DEF s
    <3>1. i \in 1..Len(stack[s]) /\ j \in 1..Len(stack[s])
      BY <1>2, <2>2
    <3>2. stack[s][i] = stack[s][j] /\ stack'[s][i] = stack[s][i]
      BY <1>2, <2>2
    <3> QED
      BY <1>1, <1>3, <2>2, <3>1, <3>2 DEF Once
  <2> QED
    BY <2>1, <2>2
<1>7. SettlingHolds'
  <2> SUFFICES ASSUME NEW x \in settling, x # p PROVE Holds(x)' /\ asking[x] = NoAsk
    BY DEF SettlingHolds
  <2>1. Holds(x) /\ x \in Procs /\ asking[x] = NoAsk
    BY <1>3 DEF SettlingHolds, TypeOK
  <2>2. Home[x] # s /\ Home[x] \in Scheds
    BY <2>1 DEF Holds, HomeOf
  <2> QED
    BY <1>2, <2>1, <2>2 DEF Holds, HomeOf, Holder
<1> QED
  BY <1>5, <1>6, <1>7

(* Nobody changes places but from parked to ready.                         *)
LEMMA SameTurn ==
  ASSUME TypeOK, TypeOK', OneTurn, stack' = stack, cur' = cur,
         parked' \cup ready' = parked \cup ready, parked' \cap ready' = {},
         \A x \in settling' : (x \in settling \/ Holds(x)) /\ asking'[x] = NoAsk
  PROVE  OneTurn'
<1>1. (\A p \in Procs : PlaceOf(p)) /\ Once /\ SettlingHolds
  BY OneTurnParts
<1>2. \A p \in Procs : OnStack(p)' <=> OnStack(p)
  BY DEF OnStack
<1>3. \A p \in Procs : PlaceOf(p)'
  BY <1>1, <1>2 DEF PlaceOf, Busy
<1>4. Once'
  BY <1>1 DEF Once
<1>5. SettlingHolds'
  BY <1>1 DEF SettlingHolds, Holds, HomeOf, Holder
<1> QED
  BY <1>3, <1>4, <1>5, OneTurnNext

(* A wake only moves those parked to ready.                                *)
LEMMA WakeMoves ==
  ASSUME NEW cs, Wake(cs), parked \cap ready = {}
  PROVE  parked' \cup ready' = parked \cup ready /\ parked' \cap ready' = {}
BY DEF Wake

LEMMA TakeTurn ==
  ASSUME TypeOK, TypeOK', OneTurn, NEW q \in Procs, Take(q), Holder(Home[q]) \notin settling
  PROVE  OneTurn'
<1>1. parked \cap ready = {} /\ \A p \in Procs : PlaceOf(p)
  BY OneTurnParts
<1>2. ~OnStack(q) /\ q \notin parked \cup ready
  BY <1>1 DEF Take, PlaceOf
<1>3. /\ stack' = Push(Home[q], q) /\ settling' = settling /\ asking' = asking
      /\ parked' = parked /\ ready' = ready
  BY DEF Take, askVars
<1>4. (\A x \in Procs : OnStack(x)' <=> OnStack(x) \/ x = q) /\ Once' /\ SettlingHolds'
  BY <1>2, <1>3, PushTurn
<1>5. cur'[q] # 0 /\ \A x \in Procs \ {q} : cur'[x] = cur[x]
  <2>1. mailbox[q] \in Seq(Message) /\ mailbox[q] # <<>>
    BY DEF TypeOK, Take
  <2>2. Head(mailbox[q]) \in Message
    BY <2>1, HeadTailProperties
  <2> QED
    BY <2>2 DEF Message, Take, TypeOK
<1>6. \A p \in Procs : PlaceOf(p)'
  BY <1>1, <1>2, <1>3, <1>4, <1>5 DEF PlaceOf, Busy
<1> QED
  BY <1>1, <1>3, <1>4, <1>6, OneTurnNext

-----------------------------------------------------------------------------
(* Every step keeps each update in one place.                              *)
LEMMA OneTurnKept == ASSUME TypeOK, TypeOK', OneTurn, Next PROVE OneTurn'
<1>1. /\ parked \cap ready = {} /\ \A p \in Procs : PlaceOf(p)
      /\ Once /\ SettlingHolds
  BY OneTurnParts
<1>2. ASSUME NEW p \in Procs, NEW q \in Procs, Send(p, q) \/ SendLater(p, q) \/ Defer(p)
      PROVE  OneTurn'
  <2>1. UNCHANGED <<stack, cur, parked, ready, settling, asking>>
    BY <1>2 DEF Send, SendLater, Defer, askVars, threadVars
  <2> QED
    BY <1>1, <2>1, SameTurn DEF SettlingHolds
<1>3. ASSUME NEW p \in Procs, NEW id, Answer(p, id) PROVE OneTurn'
  <2>1. UNCHANGED <<stack, cur, parked, ready, settling, asking>>
    BY <1>3 DEF Answer, askVars, threadVars
  <2> QED
    BY <1>1, <2>1, SameTurn DEF SettlingHolds
<1>4. ASSUME NEW q \in Procs, MainSend(q) \/ MainSendLater(q) \/ MainOverflows(q) PROVE OneTurn'
  <2>1. UNCHANGED <<stack, cur, parked, ready, settling, asking>>
    BY <1>4 DEF MainSend, MainSendLater, MainOverflows, procVars, askVars, threadVars
  <2> QED
    BY <1>1, <2>1, SameTurn DEF SettlingHolds
<1>5. ASSUME NEW l \in later, DueLater(l) PROVE OneTurn'
  <2>1. UNCHANGED <<stack, cur, parked, ready, settling, asking>>
    BY <1>5 DEF DueLater, askVars, threadVars
  <2> QED
    BY <1>1, <2>1, SameTurn DEF SettlingHolds
<1>6. ASSUME NEW c \in Callers, NEW q \in Procs, Ask(c, q) PROVE OneTurn'
  <2>1. UNCHANGED <<stack, cur, parked, ready, settling>>
    BY <1>6 DEF Ask, threadVars
  <2>2. c \notin settling /\ asking' = [asking EXCEPT ![c] = [to |-> q, id |-> made + 1]]
    BY <1>6 DEF Ask, Runs, TypeOK
  <2>3. \A x \in settling : asking'[x] = NoAsk
    BY <1>1, <2>2 DEF SettlingHolds, TypeOK
  <2> QED
    BY <1>1, <2>1, <2>3, SameTurn
<1>7. ASSUME NEW c \in Callers, AskReturns(c) \/ AskGivesUp(c) PROVE OneTurn'
  <2>1. UNCHANGED <<stack, cur, parked, ready, settling>>
    BY <1>7 DEF AskReturns, AskGivesUp, procVars, threadVars
  <2>2. asking' = [asking EXCEPT ![c] = NoAsk]
    BY <1>7 DEF AskReturns, AskGivesUp, Returns
  <2>3. \A x \in settling : asking'[x] = NoAsk
    BY <1>1, <2>2 DEF SettlingHolds, TypeOK
  <2> QED
    BY <1>1, <2>1, <2>3, SameTurn
<1>8. ASSUME NEW c \in Callers, Expire(c) PROVE OneTurn'
  <2>1. UNCHANGED <<stack, cur, settling, asking>> /\ Wake({c})
    BY <1>8 DEF Expire, procVars
  <2> QED
    BY <1>1, <2>1, WakeMoves, SameTurn DEF SettlingHolds
<1>9. ASSUME NEW p \in Procs, Commit(p) PROVE OneTurn'
  <2>1. PICK cs : Wake(cs)
    BY <1>9 DEF Commit
  <2>2. UNCHANGED <<stack, cur, asking>> /\ settling' = settling \cup {p} /\ Runs(p)
    BY <1>9 DEF Commit
  <2> QED
    BY <1>1, <2>1, <2>2, WakeMoves, SameTurn DEF SettlingHolds, Runs
<1>10. ASSUME NEW p \in Procs, Crash(p) PROVE OneTurn'
  <2>1. Wake(parked)
    BY <1>10 DEF Crash, CrashStaysDown, CrashRestarts, CrashGivesUp, Drops
  <2>2. /\ UNCHANGED <<stack, cur, asking>> /\ Runs(p)
        /\ settling' \subseteq settling \cup {p}
    BY <1>10 DEF Crash, CrashStaysDown, CrashRestarts, CrashGivesUp
  <2> QED
    BY <1>1, <2>1, <2>2, WakeMoves, SameTurn DEF SettlingHolds, Runs
<1>11. ASSUME NEW s \in Scheds, NEW q \in Procs, Deliver(s, q) PROVE OneTurn'
  <2>1. Take(q) /\ Holder(Home[q]) = Main
    BY <1>11 DEF Deliver, Loop, Holder
  <2>2. Main \notin settling
    BY DEF TypeOK
  <2> QED
    BY <2>1, <2>2, TakeTurn
<1>12. ASSUME NEW c \in Callers, AskDelivers(c) PROVE OneTurn'
  <2>1. PICK q : q = asking[c].to
    OBVIOUS
  <2>2. q \in Procs /\ Take(q) /\ Home[q] = HomeOf(c) /\ Holder(HomeOf(c)) = c /\ asking[c] # NoAsk
    BY <1>12, <2>1 DEF AskDelivers, Deliverable, InPass, Holds, TypeOK
  <2>3. c \notin settling
    BY <1>1, <2>2 DEF SettlingHolds
  <2> QED
    BY <2>2, <2>3, TakeTurn
<1>13. ASSUME NEW s \in Scheds, NEW p \in Procs, Resume(s, p) PROVE OneTurn'
  <2>1. /\ p \in ready /\ s = Home[p] /\ stack' = Push(Home[p], p) /\ ready' = ready \ {p}
        /\ UNCHANGED <<cur, settling, asking, parked>> /\ Holder(Home[p]) = Main
    BY <1>13 DEF Resume, ReadyOn, Loop, Holder, procVars, askVars
  <2>2. ~OnStack(p) /\ Main \notin settling
    BY <1>1, <2>1 DEF PlaceOf, TypeOK
  <2>3. (\A x \in Procs : OnStack(x)' <=> OnStack(x) \/ x = p) /\ Once' /\ SettlingHolds'
    BY <2>1, <2>2, PushTurn
  <2>4. \A x \in Procs : PlaceOf(x)'
    BY <1>1, <2>1, <2>3 DEF PlaceOf, Busy
  <2> QED
    BY <1>1, <2>1, <2>3, <2>4, OneTurnNext
<1>14. ASSUME NEW p \in Procs, AskParks(p) PROVE OneTurn'
  <2>1. /\ Holds(p) /\ stack' = Pop(Home[p]) /\ parked' = parked \cup {p} /\ asking[p] # NoAsk
        /\ UNCHANGED <<cur, settling, asking, ready>>
    BY <1>14 DEF AskParks, InPass, procVars, askVars
  <2>2. OnStack(p) /\ p \notin settling
    BY <1>1, <2>1, HolderOn DEF SettlingHolds
  <2>3. (\A x \in Procs : OnStack(x)' <=> OnStack(x) /\ x # p) /\ Once' /\ SettlingHolds'
    BY <2>1, <2>2, PopTurn
  <2>4. \A x \in Procs : PlaceOf(x)'
    BY <1>1, <2>1, <2>2, <2>3 DEF PlaceOf, Busy
  <2>5. parked' \cap ready' = {}
    BY <1>1, <2>1, <2>2 DEF PlaceOf
  <2> QED
    BY <2>3, <2>4, <2>5, OneTurnNext
<1>14a. ASSUME NEW p \in Procs, AskStepsAside(p) PROVE OneTurn'
  <2>1. /\ Holds(p) /\ stack' = Pop(Home[p]) /\ ready' = ready \cup {p} /\ asking[p] # NoAsk
        /\ UNCHANGED <<cur, settling, asking, parked>>
    BY <1>14a DEF AskStepsAside, InPass, procVars, askVars
  <2>2. OnStack(p) /\ p \notin settling
    BY <1>1, <2>1, HolderOn DEF SettlingHolds
  <2>3. (\A x \in Procs : OnStack(x)' <=> OnStack(x) /\ x # p) /\ Once' /\ SettlingHolds'
    BY <2>1, <2>2, PopTurn
  <2>4. \A x \in Procs : PlaceOf(x)'
    BY <1>1, <2>1, <2>2, <2>3 DEF PlaceOf, Busy
  <2>5. parked' \cap ready' = {}
    BY <1>1, <2>1, <2>2 DEF PlaceOf
  <2> QED
    BY <2>3, <2>4, <2>5, OneTurnNext
<1>15. ASSUME NEW p \in Procs, Settle(p) PROVE OneTurn'
  <2>1. /\ Holds(p) /\ stack' = Pop(Home[p]) /\ settling' = settling \ {p}
        /\ cur' = [cur EXCEPT ![p] = 0]
        /\ UNCHANGED <<asking, parked, ready>>
    BY <1>15 DEF Settle, askVars
  <2>2. OnStack(p) /\ cur'[p] = 0 /\ \A x \in Procs \ {p} : cur'[x] = cur[x]
    BY <2>1, HolderOn DEF TypeOK
  <2>3. (\A x \in Procs : OnStack(x)' <=> OnStack(x) /\ x # p) /\ Once' /\ SettlingHolds'
    BY <2>1, PopTurn
  <2>4. \A x \in Procs : PlaceOf(x)'
    BY <1>1, <2>1, <2>2, <2>3 DEF PlaceOf, Busy
  <2> QED
    BY <1>1, <2>1, <2>3, <2>4, OneTurnNext
<1> QED
  BY <1>2, <1>3, <1>4, <1>5, <1>6, <1>7, <1>8, <1>9, <1>10, <1>11, <1>12, <1>13, <1>14, <1>14a,
     <1>15, KnowsAssumption
     DEF Next, MainRow, Row, Pass, Turn

(* Every step keeps the asks of two callers apart.                         *)
LEMMA AskersKept == ASSUME TypeOK, AskersDiffer, AsksBegun, Next PROVE (AskersDiffer /\ AsksBegun)'
<1>0. \A d \in Callers : asking[d].id \in Nat
  BY DEF TypeOK, NoAsk
<1>1. made \in Nat /\ \A c \in Callers : asking[c] # NoAsk => asking[c].id # 0
  BY DEF TypeOK, NoAsk
<1>2. ASSUME NEW c \in Callers, NEW q \in Procs, Ask(c, q) PROVE (AskersDiffer /\ AsksBegun)'
  <2>1. made' = made + 1 /\ asking' = [asking EXCEPT ![c] = [to |-> q, id |-> made + 1]]
    BY <1>2 DEF Ask
  <2>2. asking'[c].id = made + 1 /\ \A d \in Callers \ {c} : asking'[d] = asking[d]
    BY <2>1 DEF TypeOK
  <2>3. \A d \in Callers : asking[d].id \in Nat
    BY <1>0
  <2>4. AsksBegun'
    BY <1>1, <2>1, <2>2, <2>3 DEF AsksBegun
  <2>5. AskersDiffer'
    BY <1>1, <2>2, <2>3 DEF AskersDiffer, AsksBegun
  <2> QED
    BY <2>4, <2>5
<1>3. ASSUME NEW c \in Callers, AskReturns(c) \/ AskGivesUp(c) PROVE (AskersDiffer /\ AsksBegun)'
  <2>1. made' = made /\ asking' = [asking EXCEPT ![c] = NoAsk]
    BY <1>3 DEF AskReturns, AskGivesUp, Returns
  <2>2. asking'[c] = NoAsk /\ NoAsk.id = 0 /\ \A d \in Callers \ {c} : asking'[d] = asking[d]
    BY <2>1 DEF TypeOK, NoAsk
  <2> QED
    BY <1>1, <2>1, <2>2 DEF AskersDiffer, AsksBegun
<1>4. ASSUME asking' = asking, made' \in Nat, made' >= made PROVE (AskersDiffer /\ AsksBegun)'
  BY <1>0, <1>1, <1>4 DEF AskersDiffer, AsksBegun
<1>5. ASSUME NEW p \in Procs, NEW q \in Procs, Send(p, q) \/ SendLater(p, q) \/ Defer(p)
      PROVE  asking' = asking /\ made' \in Nat /\ made' >= made
  BY <1>1, <1>5 DEF Send, SendLater, Defer, askVars
<1>6. ASSUME NEW p \in Procs, NEW id, Answer(p, id)
      PROVE  asking' = asking /\ made' \in Nat /\ made' >= made
  BY <1>1, <1>6 DEF Answer, askVars
<1>7. ASSUME NEW q \in Procs, MainSend(q) \/ MainSendLater(q) \/ MainOverflows(q)
      PROVE  asking' = asking /\ made' \in Nat /\ made' >= made
  BY <1>1, <1>7 DEF MainSend, MainSendLater, MainOverflows, askVars
<1>8. ASSUME NEW c \in Callers, NEW l,
             Expire(c) \/ AskDelivers(c) \/ AskStepsAside(c) \/ AskParks(c) \/ DueLater(l)
      PROVE  asking' = asking /\ made' \in Nat /\ made' >= made
  BY <1>1, <1>8 DEF Expire, AskDelivers, AskStepsAside, AskParks, DueLater, Take, procVars, askVars
<1>9. ASSUME NEW p \in Procs, Commit(p) \/ Crash(p) \/ Settle(p)
      PROVE  asking' = asking /\ made' \in Nat /\ made' >= made
  <2>1. ASSUME Crash(p) PROVE made' = made /\ asking' = asking
    BY <2>1 DEF Crash, CrashStaysDown, CrashRestarts, CrashGivesUp
  <2>2. CASE Commit(p) \/ Settle(p)
    BY <1>1, <2>2 DEF Commit, Settle, askVars
  <2> QED
    BY <1>1, <1>9, <2>1, <2>2
<1>10. ASSUME NEW s \in Scheds, NEW p \in Procs, Resume(s, p) \/ Deliver(s, p)
      PROVE  asking' = asking /\ made' \in Nat /\ made' >= made
  BY <1>1, <1>10 DEF Resume, Deliver, Take, askVars
<1> QED
  BY <1>2, <1>3, <1>4, <1>5, <1>6, <1>7, <1>8, <1>9, <1>10, KnowsAssumption
     DEF Next, MainRow, Row, Pass, Turn

(* A caller that holds its thread is not parked.                           *)
LEMMA HolderAwake ==
  ASSUME TypeOK, OneTurn, NEW c \in Callers, Holds(c)
  PROVE  c \notin parked
<1>1. CASE c = Main
  BY <1>1 DEF TypeOK
<1>2. CASE c \in Procs
  BY <1>2, HolderOn, OneTurnParts DEF PlaceOf
<1> QED
  BY <1>1, <1>2

(* Every step that ends what a parked process waits for wakes it.          *)
LEMMA NoLostWakeKept ==
  ASSUME TypeOK, OneTurn, NoStrandedAsk, AskersDiffer, NoLostWake, Next
  PROVE  NoLostWake'
<1>1. parked \subseteq Procs /\ expired \subseteq Callers
  BY DEF TypeOK
<1>2. ASSUME parked' \subseteq parked, halted => halted', up' = up,
             UNCHANGED <<asking, answers, expired>>
      PROVE  NoLostWake'
  BY <1>2 DEF NoLostWake, HasAnswer
<1>3. ASSUME NEW p \in Procs, NEW q \in Procs, Send(p, q) \/ SendLater(p, q) \/ Defer(p)
      PROVE  NoLostWake'
  BY <1>2, <1>3 DEF Send, SendLater, Defer, askVars, threadVars
<1>4. ASSUME NEW p \in Procs, NEW id, Answer(p, id) PROVE NoLostWake'
  BY <1>2, <1>4 DEF Answer, askVars, threadVars
<1>5. ASSUME NEW q \in Procs, MainSend(q) \/ MainSendLater(q) \/ MainOverflows(q)
      PROVE  NoLostWake'
  BY <1>2, <1>5 DEF MainSend, MainSendLater, MainOverflows, procVars, askVars, threadVars
<1>6. ASSUME NEW c \in Callers, NEW l, AskDelivers(c) \/ DueLater(l) PROVE NoLostWake'
  BY <1>2, <1>6 DEF AskDelivers, DueLater, Take, askVars, threadVars
<1>7. ASSUME NEW s \in Scheds, NEW p \in Procs, Resume(s, p) \/ Deliver(s, p) \/ Settle(p)
      PROVE  NoLostWake'
  BY <1>2, <1>7 DEF Resume, Deliver, Settle, Take, procVars, askVars
<1>8. ASSUME NEW c \in Callers, NEW q \in Procs, Ask(c, q) PROVE NoLostWake'
  <2>1. c \notin parked
    BY <1>1, <1>8, HolderAwake DEF Ask, Runs
  <2>2. /\ UNCHANGED <<parked, up, answers, expired, halted>>
        /\ \A x \in parked : asking'[x] = asking[x]
    BY <1>1, <1>8, <2>1 DEF Ask, threadVars, TypeOK
  <2> QED
    BY <1>1, <2>2 DEF NoLostWake, HasAnswer
<1>9. ASSUME NEW c \in Callers, AskReturns(c) \/ AskGivesUp(c) PROVE NoLostWake'
  <2>1. c \notin parked
    BY <1>9, HolderAwake DEF AskReturns, AskGivesUp, InPass
  <2>2. /\ UNCHANGED <<parked, up, halted>> /\ answers' \subseteq answers /\ expired' \subseteq expired
        /\ \A x \in parked : asking'[x] = asking[x]
    BY <1>1, <1>9, <2>1 DEF AskReturns, AskGivesUp, Returns, procVars, threadVars, TypeOK
  <2> QED
    BY <1>1, <2>2 DEF NoLostWake, HasAnswer
<1>10. ASSUME NEW c \in Callers, Expire(c) PROVE NoLostWake'
  <2>1. /\ parked' = parked \ {c} /\ expired' = expired \cup {c}
        /\ UNCHANGED <<up, halted, asking, answers>>
    BY <1>10 DEF Expire, Wake, procVars
  <2> QED
    BY <2>1 DEF NoLostWake, HasAnswer
<1>11. ASSUME NEW p \in Procs, AskParks(p) PROVE NoLostWake'
  <2>1. /\ parked' = parked \cup {p} /\ UNCHANGED <<up, halted, asking, answers, expired>>
        /\ asking[p] # NoAsk /\ p \notin expired /\ ~HasAnswer(p) /\ up[asking[p].to]
    BY <1>11 DEF AskParks, InPass, GivesUp, procVars, askVars
  <2> QED
    BY <2>1 DEF NoLostWake, HasAnswer
<1>11a. ASSUME NEW p \in Procs, AskStepsAside(p) PROVE NoLostWake'
  BY <1>11a DEF AskStepsAside, procVars, askVars, NoLostWake, HasAnswer
<1>12. ASSUME NEW p \in Procs, Commit(p) PROVE NoLostWake'
  <2>1. PICK ids : /\ Route(ids, "ok", cur[p]) /\ Wake({w.by : w \in Answered(ids)})
    BY <1>12 DEF Commit
  <2>2. UNCHANGED <<up, halted, asking, expired>>
    BY <1>12 DEF Commit
  <2>3. ASSUME NEW x \in parked', HasAnswer(x)' PROVE FALSE
    <3>1. x \in parked /\ x \notin {w.by : w \in Answered(ids)}
      BY <2>1, <2>3 DEF Wake
    <3>2. PICK a \in answers' : a.id = asking[x].id
      BY <2>2, <2>3 DEF HasAnswer
    <3>3. a \notin answers
      BY <3>1, <3>2 DEF NoLostWake, HasAnswer
    <3>4. PICK w \in awaiting : w.id \in ids /\ a.id = w.id
      BY <2>1, <3>2, <3>3 DEF Route, Answered
    <3>5. asking[w.by].id = w.id /\ w.by \in Callers
      BY <3>4 DEF NoStrandedAsk, TypeOK
    <3>6. asking[x] # NoAsk /\ x \in Callers
      BY <1>1, <3>1 DEF NoLostWake
    <3>7. x = w.by
      BY <3>2, <3>4, <3>5, <3>6 DEF AskersDiffer
    <3> QED
      BY <3>1, <3>4, <3>7 DEF Answered
  <2>4. parked' \subseteq parked
    BY <2>1 DEF Wake
  <2> QED
    BY <2>2, <2>3, <2>4 DEF NoLostWake
<1>13. ASSUME NEW p \in Procs, Crash(p) PROVE NoLostWake'
  <2>1. parked' = {}
    BY <1>13 DEF Crash, CrashStaysDown, CrashRestarts, CrashGivesUp, Drops, Wake
  <2> QED
    BY <2>1 DEF NoLostWake
<1> QED
  BY <1>3, <1>4, <1>5, <1>6, <1>7, <1>8, <1>9, <1>10, <1>11, <1>11a, <1>12, <1>13,
     KnowsAssumption
     DEF Next, MainRow, Row, Pass, Turn

(* What is down gets nothing, and what runs is up.                         *)
LEMMA UpKept ==
  ASSUME TypeOK, RunningUp, DownIsEmpty, Next
  PROVE  (RunningUp /\ DownIsEmpty)'
<1>1. ASSUME halted' PROVE (RunningUp /\ DownIsEmpty)'
  BY <1>1 DEF RunningUp, DownIsEmpty
<1>2. ASSUME UNCHANGED <<up, cur, settling, mailbox, kept, halted>>
      PROVE  (RunningUp /\ DownIsEmpty)'
  BY <1>2 DEF RunningUp, DownIsEmpty, Busy
<1>3. ASSUME UNCHANGED <<up, cur, settling, kept, halted>>,
             \A x \in Procs : up[x] \/ mailbox'[x] = mailbox[x]
      PROVE  (RunningUp /\ DownIsEmpty)'
  BY <1>3 DEF RunningUp, DownIsEmpty, Busy
<1>4. ASSUME NEW p \in Procs, NEW q \in Procs, Send(p, q) \/ SendLater(p, q) \/ Defer(p)
      PROVE  (RunningUp /\ DownIsEmpty)'
  BY <1>2, <1>4 DEF Send, SendLater, Defer
<1>5. ASSUME NEW p \in Procs, NEW id, Answer(p, id) PROVE (RunningUp /\ DownIsEmpty)'
  BY <1>2, <1>5 DEF Answer
<1>6. ASSUME NEW q \in Procs, MainSendLater(q) \/ MainOverflows(q)
      PROVE  (RunningUp /\ DownIsEmpty)'
  BY <1>1, <1>2, <1>6 DEF MainSendLater, MainOverflows, procVars
<1>7. ASSUME NEW q \in Procs, MainSend(q) PROVE (RunningUp /\ DownIsEmpty)'
  BY <1>3, <1>7 DEF MainSend, Enqueue, TypeOK
<1>8. ASSUME NEW c \in Callers, NEW q \in Procs, Ask(c, q) PROVE (RunningUp /\ DownIsEmpty)'
  BY <1>3, <1>8 DEF Ask, Enqueue, TypeOK
<1>9. ASSUME NEW l \in later, DueLater(l) PROVE (RunningUp /\ DownIsEmpty)'
  BY <1>3, <1>9 DEF DueLater, Accepts, Enqueue, TypeOK
<1>10. ASSUME NEW c \in Callers, AskReturns(c) \/ AskGivesUp(c) \/ AskStepsAside(c) \/ AskParks(c) \/ Expire(c)
       PROVE  (RunningUp /\ DownIsEmpty)'
  BY <1>2, <1>10 DEF AskReturns, AskGivesUp, AskStepsAside, AskParks, Expire, procVars
<1>11. ASSUME NEW s \in Scheds, NEW p \in Procs, Resume(s, p) PROVE (RunningUp /\ DownIsEmpty)'
  BY <1>2, <1>11 DEF Resume, procVars
<1>12. ASSUME NEW q \in Procs, Take(q) PROVE (RunningUp /\ DownIsEmpty)'
  <2>1. /\ UNCHANGED <<up, settling, kept, halted>> /\ up[q]
        /\ \A x \in Procs \ {q} : cur'[x] = cur[x] /\ mailbox'[x] = mailbox[x]
    BY <1>12 DEF Take, TypeOK
  <2> QED
    BY <2>1 DEF RunningUp, DownIsEmpty, Busy
<1>13. ASSUME NEW c \in Callers, AskDelivers(c) PROVE (RunningUp /\ DownIsEmpty)'
  <2>1. asking[c].to \in Procs /\ Take(asking[c].to)
    BY <1>13 DEF AskDelivers, InPass, TypeOK
  <2> QED
    BY <1>12, <2>1
<1>14. ASSUME NEW p \in Procs, Commit(p) PROVE (RunningUp /\ DownIsEmpty)'
  <2>1. /\ UNCHANGED <<up, cur, halted>> /\ settling' = settling \cup {p} /\ ~halted
        /\ Busy(p) /\ p \notin settling
    BY <1>14 DEF Commit, Runs
  <2>2. up[p] /\ \A x \in Procs \ {p} : kept'[x] = kept[x]
    BY <1>14, <2>1 DEF RunningUp, Commit, TypeOK
  <2>3. \A x \in Procs : up[x] \/ mailbox'[x] = mailbox[x]
    BY <1>14 DEF Commit, Flushed
  <2> QED
    BY <2>1, <2>2, <2>3 DEF RunningUp, DownIsEmpty, Busy
<1>15. ASSUME NEW p \in Procs, CrashStaysDown(p) \/ CrashRestarts(p)
       PROVE  (RunningUp /\ DownIsEmpty)'
  <2>1. Drops(p, TRUE) /\ cur' = cur /\ halted' = halted /\ settling' = settling \cup {p}
    BY <1>15 DEF CrashStaysDown, CrashRestarts
  <2>2. mailbox'[p] = <<>> /\ kept'[p] = {}
    BY <2>1 DEF Drops, TypeOK
  <2>3. \A x \in Procs \ {p} : mailbox'[x] = mailbox[x] /\ kept'[x] = kept[x]
    BY <2>1 DEF Drops, TypeOK
  <2>4. \A x \in Procs \ {p} : up'[x] = up[x]
    BY <1>15 DEF CrashStaysDown, CrashRestarts, TypeOK
  <2> QED
    BY <2>1, <2>2, <2>3, <2>4 DEF RunningUp, DownIsEmpty, Busy
<1>16. ASSUME NEW p \in Procs, CrashGivesUp(p) PROVE (RunningUp /\ DownIsEmpty)'
  BY <1>1, <1>16 DEF CrashGivesUp
<1>17. ASSUME NEW p \in Procs, Settle(p) PROVE (RunningUp /\ DownIsEmpty)'
  <2>1. /\ UNCHANGED <<up, mailbox, kept, halted>> /\ settling' = settling \ {p}
        /\ cur'[p] = 0 /\ \A x \in Procs \ {p} : cur'[x] = cur[x]
    BY <1>17 DEF Settle, TypeOK
  <2> QED
    BY <2>1 DEF RunningUp, DownIsEmpty, Busy
<1> QED
  BY <1>4, <1>5, <1>6, <1>7, <1>8, <1>9, <1>10, <1>11, <1>12, <1>13, <1>14, <1>15, <1>16, <1>17,
     KnowsAssumption
     DEF Next, MainRow, Row, Pass, Turn, Deliver, Crash

-----------------------------------------------------------------------------
LEMMA TurnInitial == Init => TurnInv
<1> SUFFICES ASSUME Init PROVE TurnInv
  OBVIOUS
<1>1. AskInv
  BY AskInvInit
<1>2. \A s \in Scheds : Len(stack[s]) = 0
  BY EmptySeq DEF Init
<1>3. OneTurn
  BY <1>2 DEF Init, OneTurn, OnStack, Busy
<1>4. AskersDiffer /\ AsksBegun
  BY DEF Init, AskersDiffer, AsksBegun, NoAsk
<1>5. NoLostWake /\ RunningUp /\ DownIsEmpty
  BY DEF Init, NoLostWake, RunningUp, DownIsEmpty, Busy
<1> QED
  BY <1>1, <1>3, <1>4, <1>5 DEF TurnInv

LEMMA TurnKept == TurnInv /\ [Next]_vars => TurnInv'
<1> SUFFICES ASSUME TurnInv, [Next]_vars PROVE TurnInv'
  OBVIOUS
<1>1. AskInv'
  BY AskInvStep DEF TurnInv
<1>2. CASE Next
  BY <1>1, <1>2, OneTurnKept, AskersKept, NoLostWakeKept, UpKept DEF TurnInv, AskInv
<1>3. CASE UNCHANGED vars
  <2>1. UNCHANGED <<made, up, cur, settling, mailbox, kept, stack, parked, ready, asking, answers,
                    expired, halted>>
    BY <1>3 DEF vars, procVars, askVars, threadVars
  <2>2. OneTurn'
    BY <2>1 DEF TurnInv, OneTurn, OnStack, Busy, Holds, Holder, HomeOf
  <2> QED
    BY <1>1, <2>1, <2>2 DEF TurnInv, AskersDiffer, AsksBegun, NoLostWake, HasAnswer, RunningUp,
                            DownIsEmpty, Busy
<1> QED
  BY <1>2, <1>3

LEMMA TurnInvariant == Spec => []TurnInv
BY TurnInitial, TurnKept, PTL DEF Spec

(* An update is in one place, whatever hands its thread over and takes it  *)
(* back: on its scheduler's thread, once, or parked, or ready (Turns.park, *)
(* handTo and step), for any processes and placement.                      *)
THEOREM UpdatesHaveOnePlace == Spec => []OneTurn
<1>1. TurnInv => OneTurn
  BY DEF TurnInv
<1> QED
  BY <1>1, TurnInvariant, PTL

(* Whoever ends a wait wakes the update parked on it (Turns.answer, crash, *)
(* and the deadlines), for any processes and placement.                    *)
THEOREM ParkedAreWoken == Spec => []NoLostWake
<1>1. TurnInv => NoLostWake
  BY DEF TurnInv
<1> QED
  BY <1>1, TurnInvariant, PTL

(* A process that is down has nothing waiting and keeps no ask (Sim's      *)
(* crashed and downKept), for any processes and policies.                  *)
THEOREM DownStaysEmpty == Spec => []DownIsEmpty
<1>1. TurnInv => DownIsEmpty
  BY DEF TurnInv
<1> QED
  BY <1>1, TurnInvariant, PTL

-----------------------------------------------------------------------------
(* No path through different processes is longer than there are processes. *)
LEMMA PathsAreShort ==
  ASSUME NEW n \in Nat, NEW path \in [1..n -> Procs],
         \A i, j \in 1..n : path[i] = path[j] => i = j
  PROVE  n <= Cardinality(Procs)
<1>1. path \in Injection(1..n, Procs)
  BY DEF Injection, IsInjective
<1>2. Cardinality(1..n) = n
  BY FS_Interval
<1> QED
  BY <1>1, <1>2, FS_Injection, ProcsAssumption

(* A ring across schedulers that an update closes by parking is one it has *)
(* seen: the processes its target waits on either reach it, or were a ring *)
(* before.                                                                 *)
LEMMA RingIsSeen ==
  ASSUME NEW p \in Procs, NEW S \in SUBSET Procs, p \in S,
         \A x \in S : Busy(x) /\ asking[x] # NoAsk /\ asking[x].to \in S,
         \A x \in S \ {p} : x \in parked,
         asking[p].to # p, ~WaitsOn(asking[p].to, p)
  PROVE  \E R \in SUBSET S : WaitCycle(R)
<1> DEFINE q == asking[p].to
           N == Cardinality(Procs)
           Path(n, path, x) ==
             /\ path[1] = q /\ path[n] = x
             /\ \A i \in 1..n : path[i] \in S \ {p}
             /\ \A i, j \in 1..n : path[i] = path[j] => i = j
             /\ \A i \in 1..(n - 1) : path[i + 1] = asking[path[i]].to
           R == {x \in S : \E n \in 1..N : \E path \in [1..n -> Procs] : Path(n, path, x)}
<1>1. N \in Nat
  BY FS_CardinalityType, ProcsAssumption
<1>2. q \in S /\ q # p
  OBVIOUS
<1>3. q \in R
  <2>1. [i \in 1..1 |-> q] \in [1..1 -> Procs] /\ Path(1, [i \in 1..1 |-> q], q)
    BY <1>2
  <2>2. 1 \in 1..N
    BY <1>1, <1>2, FS_EmptySet, ProcsAssumption
  <2> QED
    BY <1>2, <2>1, <2>2
<1>4. ASSUME NEW x \in R PROVE asking[x].to \in R
  <2>0. PICK n \in 1..N : \E path \in [1..n -> Procs] : Path(n, path, x)
    OBVIOUS
  <2>1. PICK path \in [1..n -> Procs] : Path(n, path, x)
    BY <2>0
  <2>2. n \in Nat /\ n >= 1 /\ n <= N
    BY <1>1
  <2> DEFINE y == asking[x].to
  <2>3. y \in S
    OBVIOUS
  <2>4. y # p
    <3> SUFFICES ASSUME y = p PROVE WaitsOn(q, p)
      OBVIOUS
    <3>1. \A i \in 1..n : Busy(path[i]) /\ asking[path[i]] # NoAsk
      BY <2>1
    <3>2. asking[path[n]].to = p
      BY <2>1
    <3> QED
      BY <2>1, <3>1, <3>2 DEF WaitsOn
  <2>5. CASE \E j \in 1..n : path[j] = y
    <3>1. PICK j \in 1..n : path[j] = y
      BY <2>5
    <3> DEFINE short == [i \in 1..j |-> path[i]]
    <3>2. j \in 1..N /\ 1..j \subseteq 1..n
      BY <1>1, <2>2
    <3>3. short \in [1..j -> Procs] /\ Path(j, short, y)
      BY <2>1, <2>2, <3>1, <3>2
    <3> QED
      BY <2>3, <3>2, <3>3
  <2>6. CASE \A j \in 1..n : path[j] # y
    <3> DEFINE long == [i \in 1..(n + 1) |-> IF i = n + 1 THEN y ELSE path[i]]
    <3>1. long \in [1..(n + 1) -> Procs]
      BY <2>2, <2>3
    <3>2. long[n + 1] = y /\ \A i \in 1..n : long[i] = path[i]
      BY <2>2
    <3>3. \A i \in 1..(n + 1) : i = n + 1 \/ i \in 1..n
      BY <2>2
    <3>4. \A i \in 1..(n + 1) : long[i] \in S \ {p}
      BY <2>1, <2>3, <2>4, <3>2, <3>3
    <3>5. \A i, j \in 1..(n + 1) : long[i] = long[j] => i = j
      BY <2>1, <2>6, <3>2, <3>3
    <3>6. \A i \in 1..n : long[i + 1] = asking[long[i]].to
      <4> SUFFICES ASSUME NEW i \in 1..n PROVE long[i + 1] = asking[long[i]].to
        OBVIOUS
      <4>1. CASE i = n
        BY <2>1, <3>2, <4>1
      <4>2. CASE i # n
        <5>1. i \in 1..(n - 1) /\ i + 1 \in 1..n
          BY <2>2, <4>2
        <5> QED
          BY <2>1, <3>2, <5>1
      <4> QED
        BY <4>1, <4>2
    <3>7. Path(n + 1, long, y)
      BY <2>1, <2>2, <3>2, <3>4, <3>5, <3>6
    <3>8. n + 1 \in 1..N
      <4> HIDE DEF long
      <4>1. n + 1 \in Nat
        BY <2>2
      <4>2. n + 1 <= N
        BY <3>1, <3>5, <4>1, PathsAreShort
      <4> QED
        BY <1>1, <4>1, <4>2
    <3> QED
      BY <2>3, <3>1, <3>7, <3>8
  <2> QED
    BY <2>5, <2>6
<1>5. \A x \in R : x \in S /\ x # p
  <2> SUFFICES ASSUME NEW x \in R PROVE x # p
    OBVIOUS
  <2>0. PICK n \in 1..N : \E path \in [1..n -> Procs] : Path(n, path, x)
    OBVIOUS
  <2>1. PICK path \in [1..n -> Procs] : Path(n, path, x)
    BY <2>0
  <2>2. n \in 1..n
    BY <1>1
  <2> QED
    BY <2>1, <2>2
<1> QED
  BY <1>3, <1>4, <1>5 DEF WaitCycle

(* What is parked was parked before, in the same ask.                      *)
LEMMA RingStays ==
  ASSUME NoRingAcross, \A x \in parked' : x \in parked /\ asking'[x] = asking[x]
  PROVE  NoRingAcross'
BY DEF NoRingAcross, WaitCycle

(* Nobody parks into a ring that crosses schedulers alone.                 *)
LEMMA NoRingKept ==
  ASSUME TypeOK, OneTurn, NoRingAcross, NoLostWake, [Next]_vars
  PROVE  NoRingAcross'
<1>1. parked \subseteq Procs
  BY DEF TypeOK
<1>2. ASSUME NEW p \in Procs, AskParks(p) PROVE NoRingAcross'
  <2>1. /\ parked' = parked \cup {p} /\ asking' = asking
        /\ Holds(p) /\ asking[p] # NoAsk /\ ~TargetRuns(p, asking[p].to)
    BY <1>2 DEF AskParks, InPass, GivesUp, askVars
  <2> SUFFICES ASSUME NEW S \in SUBSET Procs, WaitCycle(S)',
                      \A x \in S : Home[asking[x].to] # Home[x]
               PROVE  FALSE
    BY <2>1 DEF NoRingAcross
  <2>2. S # {} /\ \A x \in S : x \in parked \cup {p} /\ asking[x].to \in S
    BY <2>1 DEF WaitCycle
  <2>3. p \in S
    BY <2>2 DEF NoRingAcross, WaitCycle
  <2>4. \A x \in S : Busy(x) /\ asking[x] # NoAsk
    BY <2>1, <2>2, HolderOn DEF OneTurn, NoLostWake
  <2>5. ~WaitsOn(asking[p].to, p)
    <3>1. asking[p].to \in S /\ HomeOf(p) # Home[asking[p].to]
      BY <2>2, <2>3, ProcsAssumption DEF HomeOf
    <3> QED
      BY <2>1, <2>4, <3>1 DEF TargetRuns
  <2>6. \A x \in S \ {p} : x \in parked
    BY <2>2
  <2>7. asking[p].to # p
    BY <2>3
  <2>8. PICK R \in SUBSET S : WaitCycle(R)
    BY <2>2, <2>3, <2>4, <2>5, <2>6, <2>7, RingIsSeen
  <2> QED
    BY <2>8 DEF NoRingAcross, WaitCycle
<1>3. ASSUME NEW c \in Callers, NEW q \in Procs, Ask(c, q) PROVE NoRingAcross'
  <2>1. c \notin parked
    BY <1>1, <1>3, HolderAwake, ProcsAssumption DEF Ask, Runs
  <2>2. parked' = parked /\ \A x \in parked : asking'[x] = asking[x]
    BY <1>1, <1>3, <2>1 DEF Ask, threadVars, TypeOK
  <2> QED
    BY <2>2, RingStays
<1>4. ASSUME NEW c \in Callers, AskReturns(c) \/ AskGivesUp(c) PROVE NoRingAcross'
  <2>1. c \notin parked
    BY <1>4, HolderAwake DEF AskReturns, AskGivesUp, InPass
  <2>2. parked' = parked /\ \A x \in parked : asking'[x] = asking[x]
    BY <1>1, <1>4, <2>1 DEF AskReturns, AskGivesUp, Returns, threadVars, Callers, TypeOK
  <2> QED
    BY <2>2, RingStays
<1>5. ASSUME UNCHANGED asking, parked' \subseteq parked PROVE NoRingAcross'
  BY <1>5, RingStays
<1>6. ASSUME NEW p \in Procs, NEW q \in Procs, NEW id,
             Send(p, q) \/ SendLater(p, q) \/ Defer(p) \/ Answer(p, id)
      PROVE  NoRingAcross'
  BY <1>5, <1>6 DEF Send, SendLater, Defer, Answer, askVars, threadVars
<1>7. ASSUME NEW q \in Procs, MainSend(q) \/ MainSendLater(q) \/ MainOverflows(q)
      PROVE  NoRingAcross'
  BY <1>5, <1>7 DEF MainSend, MainSendLater, MainOverflows, askVars, threadVars
<1>8. ASSUME NEW s \in Scheds, NEW p \in Procs, Resume(s, p) \/ Deliver(s, p) \/ Settle(p)
      PROVE  NoRingAcross'
  BY <1>5, <1>8 DEF Resume, Deliver, Settle, Take, askVars
<1>9. ASSUME NEW p \in Procs, Commit(p) \/ Crash(p) PROVE NoRingAcross'
  <2>1. UNCHANGED asking /\ \E cs : Wake(cs)
    BY <1>9 DEF Commit, Crash, CrashStaysDown, CrashRestarts, CrashGivesUp, Drops
  <2> QED
    BY <1>5, <2>1 DEF Wake
<1>10. ASSUME NEW c \in Callers, NEW l,
              Expire(c) \/ AskDelivers(c) \/ AskStepsAside(c) \/ DueLater(l)
       PROVE  NoRingAcross'
  BY <1>5, <1>10 DEF Expire, AskDelivers, AskStepsAside, DueLater, Take, Wake, askVars, threadVars
<1>11. CASE UNCHANGED vars
  BY <1>5, <1>11 DEF vars, askVars, threadVars
<1>12. ASSUME NEW p \in Procs, Row(p) PROVE NoRingAcross'
  BY <1>3, <1>6, <1>12, KnowsAssumption DEF Row, Callers
<1>13. ASSUME MainRow PROVE NoRingAcross'
  BY <1>3, <1>7, <1>13, KnowsAssumption DEF MainRow, Callers
<1>14. ASSUME NEW c \in Callers, Pass(c) PROVE NoRingAcross'
  BY <1>2, <1>4, <1>10, <1>14 DEF Pass
<1> QED
  BY <1>8, <1>9, <1>10, <1>11, <1>12, <1>13, <1>14, HomeAssumption DEF Next, Turn, Callers

(* The last update to ask in a ring across schedulers sees the ring and    *)
(* does not wait (Turns.waitsOn), for any processes and placement.         *)
THEOREM RingsAreSeen == Spec => []NoRingAcross
<1>1. Init => NoRingAcross
  BY DEF Init, NoRingAcross, WaitCycle
<1>2. TurnInv /\ NoRingAcross /\ [Next]_vars => NoRingAcross'
  BY NoRingKept DEF TurnInv, AskInv
<1> QED
  BY <1>1, <1>2, TurnInvariant, PTL DEF Spec
=============================================================================
