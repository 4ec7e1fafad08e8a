------------------------------ MODULE MoProcs ------------------------------
(***************************************************************************)
(* Processes of the Mo runtime under Mo.Server: mailboxes, updates as      *)
(* transactions, asks with deadlines, deferred replies, crashes and        *)
(* restarts, on one or more scheduler threads.                             *)
(* Sources: src/toolchain/src/sim.zig and src/toolchain/src/turns.zig.     *)
(*                                                                         *)
(* What a step is.  Every row of the runtime runs under one lock           *)
(* (turns.zig, acquireLock), so an action is what one thread does between  *)
(* two points where it lets the lock go or hands its thread over: one row  *)
(* of an update, one pass of an ask's loop, one commit, one crash.         *)
(*                                                                         *)
(* What is abstracted.  A message is its identity (the runtime's `seq`,    *)
(* here given when the message is made) and where it came from; a state is *)
(* not represented, only whether the update that would change it commits.  *)
(* A deadline is an event that may happen at any time after the ask        *)
(* began, and a delayed send is due at any time after its commit: every    *)
(* choice of durations is one of these behaviours.                         *)
(***************************************************************************)
EXTENDS Naturals, Sequences, FiniteSets

CONSTANTS
    Procs,        \* the processes
    Main,         \* main's code, the runtime's other caller
    Scheds,       \* the schedulers, one thread each
    MainSched,    \* scheduler 0, which runs main's code between its turns
    Home,         \* the scheduler each process was placed on
    Bound,        \* `mailbox: N` of each process
    Policy,       \* `restart:` of each process's child line
    Supervisor,   \* the supervisor each process is under
    MaxRestarts,  \* `max_restarts:`
    Knows,        \* the processes each caller holds a handle of
    Calls,        \* the rows each caller's code uses
    MaxMade       \* model bound: messages made in a run

ASSUME ProcsAssumption == IsFiniteSet(Procs) /\ Main \notin Procs
ASSUME HomeAssumption == MainSched \in Scheds /\ Home \in [Procs -> Scheds]
ASSUME BoundAssumption == Bound \in [Procs -> Nat \ {0}]
ASSUME PolicyAssumption == Policy \in [Procs -> {"always", "never"}]
ASSUME RestartsAssumption == MaxRestarts \in Nat
ASSUME KnowsAssumption == Knows \in [Procs \cup {Main} -> SUBSET Procs]
ASSUME CallsAssumption == Calls \in [Procs \cup {Main} -> SUBSET {"send", "later", "ask", "defer"}]
ASSUME MadeAssumption == MaxMade \in Nat

VARIABLES
    made,       \* messages made so far; the next one's identity is made + 1
    up,         \* Proc.up
    mailbox,    \* Proc.mailbox from Proc.head on
    cur,        \* the message whose update is on the stack (Proc.reply_seq), 0 when not busy
    settling,   \* processes whose update ended and whose region is being compacted, still busy
    deferring,  \* Proc.deferring
    outbox,     \* Proc.outbox, the plain sends: held by each process for each target
    heldLater,  \* Proc.outbox, the sends with a delay
    pend,       \* Proc.answers: deferred asks the running update has answered
    kept,       \* Proc.kept: asks the process holds unanswered
    restarts,   \* Proc.restarts: restarts still counted against max_restarts
    later,      \* Sim.later: delayed sends of committed updates and of main
    asking,     \* the ask each caller's code waits in, or NoAsk
    awaiting,   \* Turns.awaiting: the asks nothing has answered yet, and who waits
    answers,    \* Turns.answers: the answers no asker has taken yet
    expired,    \* callers whose ask's deadline has passed
    stack,      \* for each scheduler, the processes on its thread, the holder last
    parked,     \* Sched.parked: processes waiting off the thread
    ready,      \* Sched.ready: processes whose wait ended, to be switched to
    halted,     \* a supervisor gave up, or main crashed: the run stops
    committed   \* history: the messages whose update committed

procVars == <<up, mailbox, cur, settling, deferring, outbox, heldLater, pend, kept, restarts>>
askVars == <<asking, awaiting, answers, expired>>
threadVars == <<stack, parked, ready>>
vars == <<made, procVars, later, askVars, threadVars, halted, committed>>

-----------------------------------------------------------------------------
Callers == Procs \cup {Main}
NoAsk == [to |-> Main, id |-> 0]

(* `upd` is the message whose update made this one, 0 for main's.          *)
Message == [id : Nat \ {0}, from : Callers, upd : Nat, kind : {"send", "ask", "later"}]
Made(from, upd, kind) == [id |-> made + 1, from |-> from, upd |-> upd, kind |-> kind]
Outgoing == [to : Procs, msg : Message]

Ids(box) == {box[i].id : i \in 1..Len(box)}
Busy(p) == cur[p] # 0
HomeOf(c) == IF c = Main THEN MainSched ELSE Home[c]

OnStack(p) == \E i \in 1..Len(stack[Home[p]]) : stack[Home[p]][i] = p
Holder(s) == IF stack[s] = <<>> THEN Main ELSE stack[s][Len(stack[s])]
Holds(c) == Holder(HomeOf(c)) = c
Loop(s) == stack[s] = <<>>
Push(s, p) == [stack EXCEPT ![s] = Append(@, p)]
Pop(s) == [stack EXCEPT ![s] = SubSeq(@, 1, Len(@) - 1)]

(* The update of p is running its own code.                                *)
Runs(p) == /\ ~halted /\ Busy(p) /\ Holds(p)
           /\ p \notin settling /\ asking[p] = NoAsk

(* main's code is between two rows; its thread may also hand out turns.    *)
MainRuns == ~halted /\ Loop(MainSched) /\ asking[Main] = NoAsk

(* What the sender of a plain send counts against the bound: what waits,   *)
(* and what it holds itself.  (HasRoomToSpare, and every other definition  *)
(* before the one it resembles, is that definition with a bug, which the   *)
(* properties must tell from it: see README.md, Mutants.)                  *)
HasRoomToSpare(c, q) ==
    Len(mailbox[q]) + (IF c = Main THEN 0 ELSE Len(outbox[c][q])) <= Bound[q]
HasRoom(c, q) ==
    Len(mailbox[q]) + (IF c = Main THEN 0 ELSE Len(outbox[c][q])) < Bound[q]

Init ==
    /\ made = 0
    /\ up = [p \in Procs |-> TRUE]
    /\ mailbox = [p \in Procs |-> <<>>]
    /\ cur = [p \in Procs |-> 0]
    /\ settling = {}
    /\ deferring = [p \in Procs |-> FALSE]
    /\ outbox = [p \in Procs |-> [q \in Procs |-> <<>>]]
    /\ heldLater = [p \in Procs |-> {}]
    /\ pend = [p \in Procs |-> {}]
    /\ kept = [p \in Procs |-> {}]
    /\ restarts = [p \in Procs |-> 0]
    /\ later = {}
    /\ asking = [c \in Callers |-> NoAsk]
    /\ awaiting = {}
    /\ answers = {}
    /\ expired = {}
    /\ stack = [s \in Scheds |-> <<>>]
    /\ parked = {}
    /\ ready = {}
    /\ halted = FALSE
    /\ committed = {}

-----------------------------------------------------------------------------
(* Answers on their way to askers.  The asks of `ids` still awaited get    *)
(* `reply`, the message `by` having been the one whose update said so;     *)
(* an answer nobody waits for is dropped.                                  *)
Answered(ids) == {w \in awaiting : w.id \in ids}
Route(ids, reply, by) ==
    /\ awaiting' = awaiting \ Answered(ids)
    /\ answers' = answers \cup
         {[id |-> w.id, reply |-> reply, by |-> by] : w \in Answered(ids)}
WakeNobody(cs) == cs \subseteq Callers /\ UNCHANGED <<parked, ready>>
WakeTwice(cs) == ready' = ready \cup (parked \cap cs) /\ UNCHANGED parked
Wake(cs) == parked' = parked \ cs /\ ready' = ready \cup (parked \cap cs)

-----------------------------------------------------------------------------
(* The rows of an update and of main.                                      *)

(* send: held until the update commits.  With no room the sender's update  *)
(* crashes, which is one of the causes of the crash actions below.         *)
Send(p, q) ==
    /\ Runs(p) /\ "send" \in Calls[p]
    /\ made < MaxMade /\ up[q] /\ HasRoom(p, q)
    /\ made' = made + 1
    /\ outbox' = [outbox EXCEPT ![p][q] = Append(@, Made(p, cur[p], "send"))]
    /\ UNCHANGED <<up, mailbox, cur, settling, deferring, heldLater, pend, kept, restarts,
                   later, askVars, threadVars, halted, committed>>

(* send with a delay: not counted against the bound until it is due.       *)
SendLater(p, q) ==
    /\ Runs(p) /\ "later" \in Calls[p]
    /\ made < MaxMade /\ up[q]
    /\ made' = made + 1
    /\ heldLater' = [heldLater EXCEPT ![p] =
                       @ \cup {[to |-> q, msg |-> Made(p, cur[p], "later")]}]
    /\ UNCHANGED <<up, mailbox, cur, settling, deferring, outbox, pend, kept, restarts,
                   later, askVars, threadVars, halted, committed>>

Enqueue(q, m) == mailbox' = [mailbox EXCEPT ![q] = Append(@, m)]

(* main is in no update: its send is in the mailbox at once.               *)
MainSend(q) ==
    /\ MainRuns /\ "send" \in Calls[Main]
    /\ made < MaxMade /\ up[q] /\ HasRoom(Main, q)
    /\ made' = made + 1
    /\ Enqueue(q, Made(Main, 0, "send"))
    /\ UNCHANGED <<up, cur, settling, deferring, outbox, heldLater, pend, kept, restarts,
                   later, askVars, threadVars, halted, committed>>

(* A send or an ask of main's to a full mailbox crashes main: the run ends. *)
MainOverflows(q) ==
    /\ MainRuns /\ Calls[Main] \cap {"send", "ask"} # {}
    /\ up[q] /\ ~HasRoom(Main, q)
    /\ halted' = TRUE
    /\ UNCHANGED <<made, procVars, later, askVars, threadVars, committed>>

MainSendLater(q) ==
    /\ MainRuns /\ "later" \in Calls[Main]
    /\ made < MaxMade /\ up[q]
    /\ made' = made + 1
    /\ later' = later \cup {[to |-> q, msg |-> Made(Main, 0, "later")]}
    /\ UNCHANGED <<procVars, askVars, threadVars, halted, committed>>

(* ask, until its first pass: the message is in the mailbox at once, ahead *)
(* of what the asker's own update holds.                                   *)
Ask(c, q) ==
    /\ IF c = Main THEN MainRuns ELSE Runs(c)
    /\ "ask" \in Calls[c]
    /\ made < MaxMade /\ up[q] /\ HasRoom(c, q)
    /\ made' = made + 1
    /\ Enqueue(q, Made(c, IF c = Main THEN 0 ELSE cur[c], "ask"))
    /\ asking' = [asking EXCEPT ![c] = [to |-> q, id |-> made + 1]]
    /\ awaiting' = awaiting \cup {[id |-> made + 1, by |-> c]}
    /\ UNCHANGED <<up, cur, settling, deferring, outbox, heldLater, pend, kept, restarts,
                   later, answers, expired, threadVars, halted, committed>>

(* The arm hands its reply_to to a state field instead of answering.       *)
Defer(p) ==
    /\ Runs(p) /\ "defer" \in Calls[p] /\ ~deferring[p]
    /\ deferring' = [deferring EXCEPT ![p] = TRUE]
    /\ UNCHANGED <<made, up, mailbox, cur, settling, outbox, heldLater, pend, kept, restarts,
                   later, askVars, threadVars, halted, committed>>

(* reply.answer(v), for an ask held from an earlier update or by this arm. *)
AnswerAtOnce(p, id) ==
    /\ Runs(p)
    /\ id \in kept[p] \/ (deferring[p] /\ id = cur[p])
    /\ Route({id}, "ok", cur[p]) /\ Wake({w.by : w \in Answered({id})})
    /\ UNCHANGED <<made, procVars, later, asking, expired, stack, halted, committed>>
Answer(p, id) ==
    /\ Runs(p) /\ id \notin pend[p]
    /\ id \in kept[p] \/ (deferring[p] /\ id = cur[p])
    /\ pend' = [pend EXCEPT ![p] = @ \cup {id}]
    /\ UNCHANGED <<made, up, mailbox, cur, settling, deferring, outbox, heldLater, kept,
                   restarts, later, askVars, threadVars, halted, committed>>

-----------------------------------------------------------------------------
(* Turns.                                                                  *)

(* Process q takes its next message, on a fiber its caller handed its      *)
(* thread to.                                                              *)
Take(q) ==
    /\ up[q] /\ ~Busy(q) /\ mailbox[q] # <<>>
    /\ mailbox' = [mailbox EXCEPT ![q] = Tail(@)]
    /\ cur' = [cur EXCEPT ![q] = Head(mailbox[q]).id]
    /\ deferring' = [deferring EXCEPT ![q] = FALSE]
    /\ stack' = Push(Home[q], q)
    /\ UNCHANGED <<made, up, settling, outbox, heldLater, pend, kept, restarts, later,
                   askVars, parked, ready, halted, committed>>

(* A scheduler's loop, or main's between rows: a process whose wait ended  *)
(* comes before any that has a message waiting.                            *)
ReadyOn(s) == {p \in ready : Home[p] = s}
Resume(s, p) ==
    /\ ~halted /\ Loop(s) /\ p \in ReadyOn(s)
    /\ ready' = ready \ {p}
    /\ stack' = Push(s, p)
    /\ UNCHANGED <<made, procVars, later, askVars, parked, halted, committed>>

Deliver(s, q) ==
    /\ ~halted /\ Loop(s) /\ Home[q] = s /\ ReadyOn(s) = {}
    /\ Take(q)

(* A delayed send's time has come: into the mailbox, or dropped when the   *)
(* target is down or its mailbox full.                                     *)
AcceptsDown(q) == Len(mailbox[q]) < Bound[q]
Accepts(q) == up[q] /\ Len(mailbox[q]) < Bound[q]
DueLater(l) ==
    /\ ~halted /\ l \in later
    /\ \E s \in Scheds : Loop(s)
    /\ later' = later \ {l}
    /\ IF Accepts(l.to)
       THEN Enqueue(l.to, l.msg)
       ELSE UNCHANGED mailbox
    /\ UNCHANGED <<made, up, cur, settling, deferring, outbox, heldLater, pend, kept, restarts,
                   askVars, threadVars, halted, committed>>

(* An ask's deadline passes; a parked asker is put in the ready queue.     *)
ExpireUnseen(c) ==
    /\ ~halted /\ asking[c] # NoAsk /\ c \notin expired
    /\ expired' = expired \cup {c}
    /\ UNCHANGED <<made, procVars, later, asking, awaiting, answers, threadVars, halted, committed>>
Expire(c) ==
    /\ ~halted /\ asking[c] # NoAsk /\ c \notin expired
    /\ expired' = expired \cup {c}
    /\ Wake({c})
    /\ UNCHANGED <<made, procVars, later, asking, awaiting, answers, stack, halted, committed>>

-----------------------------------------------------------------------------
(* One pass of ask's loop, by the caller whose code is in it.              *)

(* Process `me` is reached by following the asks updates wait in from q.   *)
WaitsOnDirectly(q, me) == Busy(q) /\ asking[q] # NoAsk /\ asking[q].to = me
WaitsOn(q, me) ==
    \E n \in 1..Cardinality(Procs) : \E path \in [1..n -> Procs] :
        /\ path[1] = q
        /\ \A i \in 1..n : Busy(path[i]) /\ asking[path[i]] # NoAsk
        /\ \A i \in 1..(n - 1) : path[i + 1] = asking[path[i]].to
        /\ asking[path[n]].to = me

(* Whether the target's update is itself waiting on this call: on the      *)
(* caller's own scheduler, whether it is on the thread below the caller.   *)
TargetRuns(c, q) ==
    Busy(q) /\ IF HomeOf(c) = Home[q] THEN OnStack(q) ELSE WaitsOn(q, c)

InPass(c) == ~halted /\ Holds(c) /\ asking[c] # NoAsk
HasAnswer(c) == \E a \in answers : a.id = asking[c].id
Returns(c) == /\ asking' = [asking EXCEPT ![c] = NoAsk]
              /\ expired' = expired \ {c}
GivesUp(c) == ~up[asking[c].to] \/ TargetRuns(c, asking[c].to) \/ c \in expired

AskReturns(c) ==
    /\ InPass(c) /\ HasAnswer(c)
    /\ answers' = {a \in answers : a.id # asking[c].id}
    /\ Returns(c)
    /\ UNCHANGED <<made, procVars, later, awaiting, threadVars, halted, committed>>

(* Down when the target is down, else Timeout.  Its message stays.         *)
StillAwaitedToo(c) == {w \in awaiting : c \in Callers}
StillAwaited(c) == {w \in awaiting : w.id # asking[c].id}
AskGivesUp(c) ==
    /\ InPass(c) /\ ~HasAnswer(c) /\ GivesUp(c)
    /\ awaiting' = StillAwaited(c)
    /\ Returns(c)
    /\ UNCHANGED <<made, procVars, later, answers, threadVars, halted, committed>>

(* On its own scheduler the target's waiting messages run at once, on the  *)
(* thread the caller hands over.                                           *)
Deliverable(c, q) == HomeOf(c) = Home[q] /\ ~Busy(q) /\ mailbox[q] # <<>>
AskDelivers(c) ==
    /\ InPass(c) /\ ~HasAnswer(c) /\ ~GivesUp(c)
    /\ Deliverable(c, asking[c].to)
    /\ Take(asking[c].to)

(* With more schedulers than one, an update whose target is on its own      *)
(* steps aside for a sweep that is due or waits, which it may be at any     *)
(* pass, ahead of all else: its scheduler's loop goes on with it later.     *)
AskStepsAside(p) ==
    /\ InPass(p) /\ ~HasAnswer(p) /\ ~GivesUp(p)
    /\ Scheds # {MainSched} /\ Home[asking[p].to] = Home[p]
    /\ ready' = ready \cup {p}
    /\ stack' = Pop(Home[p])
    /\ UNCHANGED <<made, procVars, later, askVars, parked, halted, committed>>

AskParks(p) ==
    /\ InPass(p) /\ ~HasAnswer(p) /\ ~GivesUp(p)
    /\ ~Deliverable(p, asking[p].to)
    /\ parked' = parked \cup {p}
    /\ stack' = Pop(Home[p])
    /\ UNCHANGED <<made, procVars, later, askVars, ready, halted, committed>>

-----------------------------------------------------------------------------
(* The end of an update.                                                   *)

(* The sends and answers an update holds leave it, committed or not.       *)
KeepsHeld(p) == Busy(p) /\ UNCHANGED <<outbox, heldLater, pend>>
ClearsHeld(p) ==
    /\ outbox' = [outbox EXCEPT ![p] = [q \in Procs |-> <<>>]]
    /\ heldLater' = [heldLater EXCEPT ![p] = {}]
    /\ pend' = [pend EXCEPT ![p] = {}]

(* Plain sends go into the mailboxes of the targets still up, with no      *)
(* second look at their bounds.                                            *)
FlushedToAll(p) == [q \in Procs |-> mailbox[q] \o outbox[p][q]]
FlushedInFront(p) == [q \in Procs |-> IF up[q] THEN outbox[p][q] \o mailbox[q] ELSE mailbox[q]]
Flushed(p) == [q \in Procs |-> IF up[q] THEN mailbox[q] \o outbox[p][q] ELSE mailbox[q]]

(* The sends, the answers the update made and, unless it deferred, its     *)
(* reply leave with it; a deferred ask it has not answered joins `kept`.   *)
Commit(p) ==
    /\ Runs(p)
    /\ mailbox' = Flushed(p)
    /\ later' = later \cup {o \in heldLater[p] : up[o.to]}
    /\ ClearsHeld(p)
    /\ kept' = [kept EXCEPT ![p] =
                  (@ \ pend[p]) \cup (IF deferring[p] THEN {cur[p]} \ pend[p] ELSE {})]
    /\ LET ids == pend[p] \cup (IF deferring[p] THEN {} ELSE {cur[p]})
       IN  Route(ids, "ok", cur[p]) /\ Wake({w.by : w \in Answered(ids)})
    /\ settling' = settling \cup {p}
    /\ committed' = committed \cup {cur[p]}
    /\ UNCHANGED <<made, up, cur, deferring, restarts, asking, expired, stack, halted>>

(* What a crash of p leaves unanswered, the message it ran aside: the asks *)
(* it kept and, when its mailbox is emptied, those that waited there.      *)
UnansweredWaiting(p, emptied) == IF emptied THEN Ids(mailbox[p]) ELSE {}
Unanswered(p, emptied) == kept[p] \cup (IF emptied THEN Ids(mailbox[p]) ELSE {})

(* What every crash does: what p held is dropped, what it left unanswered  *)
(* is Down, and every parked process looks again at what it waits for.     *)
Drops(p, emptied) ==
    /\ ClearsHeld(p)
    /\ kept' = [kept EXCEPT ![p] = {}]
    /\ mailbox' = IF emptied THEN [mailbox EXCEPT ![p] = <<>>] ELSE mailbox
    /\ Wake(parked)

(* restart: :never, the process stays down.                                *)
CrashStaysDown(p) ==
    /\ Runs(p) /\ Policy[p] = "never"
    /\ Drops(p, TRUE)
    /\ Route(Unanswered(p, TRUE) \cup {cur[p]}, "down", cur[p])
    /\ up' = [up EXCEPT ![p] = FALSE]
    /\ settling' = settling \cup {p}
    /\ UNCHANGED <<made, cur, deferring, restarts, later, asking, expired, stack, halted,
                   committed>>

(* Of the restarts counted, any number may have left the window by now.    *)
MayRestartAgain(n) == n <= MaxRestarts
MayRestart(n) == n < MaxRestarts
CrashRestarts(p) ==
    /\ Runs(p) /\ Policy[p] = "always"
    /\ \E n \in 0..restarts[p] :
          MayRestart(n) /\ restarts' = [restarts EXCEPT ![p] = n + 1]
    /\ Drops(p, TRUE)
    /\ Route(Unanswered(p, TRUE) \cup {cur[p]}, "down", cur[p])
    /\ settling' = settling \cup {p}
    /\ UNCHANGED <<made, up, cur, deferring, later, asking, expired, stack, halted,
                   committed>>

(* Its restarts are spent, or the restart's own state initializer crashed, *)
(* after the mailbox was emptied: its supervisor's processes go down and   *)
(* the run stops, the message being run left unanswered.                   *)
CrashGivesUp(p) ==
    /\ Runs(p) /\ Policy[p] = "always"
    /\ \E init \in BOOLEAN :
          /\ IF init THEN MayRestart(0) ELSE ~MayRestart(restarts[p])
          /\ Drops(p, init)
          /\ Route(Unanswered(p, init), "down", cur[p])
    /\ up' = [q \in Procs |-> up[q] /\ Supervisor[q] # Supervisor[p]]
    /\ halted' = TRUE
    /\ UNCHANGED <<made, cur, settling, deferring, restarts, later, asking, expired, stack,
                   committed>>

(* The region is compacted, and the thread goes back to whoever handed it  *)
(* over.                                                                   *)
SettleStillBusy(p) ==
    /\ ~halted /\ p \in settling /\ Holds(p)
    /\ settling' = settling \ {p}
    /\ stack' = Pop(Home[p])
    /\ UNCHANGED <<made, up, mailbox, cur, deferring, outbox, heldLater, pend, kept, restarts,
                   later, askVars, parked, ready, halted, committed>>
Settle(p) ==
    /\ ~halted /\ p \in settling /\ Holds(p)
    /\ settling' = settling \ {p}
    /\ cur' = [cur EXCEPT ![p] = 0]
    /\ stack' = Pop(Home[p])
    /\ UNCHANGED <<made, up, mailbox, deferring, outbox, heldLater, pend, kept, restarts,
                   later, askVars, parked, ready, halted, committed>>

-----------------------------------------------------------------------------
Row(p) ==
    \/ \E q \in Knows[p] : Send(p, q) \/ SendLater(p, q) \/ Ask(p, q)
    \/ Defer(p)
    \/ \E id \in kept[p] \cup {cur[p]} : Answer(p, id)
MainRow ==
    \E q \in Knows[Main] : MainSend(q) \/ MainSendLater(q) \/ MainOverflows(q) \/ Ask(Main, q)
Crash(p) == CrashStaysDown(p) \/ CrashRestarts(p) \/ CrashGivesUp(p)
Pass(c) ==
    \/ AskReturns(c) \/ AskGivesUp(c) \/ AskDelivers(c)
    \/ c \in Procs /\ (AskStepsAside(c) \/ AskParks(c))
Turn(s) == \E p \in Procs : Resume(s, p) \/ Deliver(s, p)

Next ==
    \/ MainRow
    \/ \E p \in Procs : Row(p) \/ Commit(p) \/ Crash(p) \/ Settle(p)
    \/ \E c \in Callers : Pass(c) \/ Expire(c)
    \/ \E s \in Scheds : Turn(s)
    \/ \E l \in later : DueLater(l)

Spec == Init /\ [][Next]_vars

(* An update that runs its own code ends, an ask's loop goes round, a      *)
(* deadline passes, a delay is over, and a scheduler whose loop has its    *)
(* thread and a turn to hand out hands one out.  Nothing is owed to main's *)
(* next row or to an update's next one.  Weak fairness is enough: with     *)
(* MaxMade messages a run delivers finitely often, and an ask that steps   *)
(* aside again and again still ends at its deadline.                       *)
Ends(p) == Commit(p) \/ Crash(p) \/ Settle(p)
Fairness ==
    /\ \A p \in Procs : WF_vars(Ends(p))
    /\ \A c \in Callers : WF_vars(Pass(c)) /\ WF_vars(Expire(c))
    /\ \A s \in Scheds : WF_vars(Turn(s))
    /\ WF_vars(\E l \in later : DueLater(l))
FairSpec == Spec /\ Fairness

-----------------------------------------------------------------------------
(* What the runtime promises.                                              *)

(* Every variable keeps its shape: the identities are numbers, mailboxes   *)
(* and outboxes hold messages, threads hold processes.                     *)
TypeOK ==
    /\ made \in Nat
    /\ up \in [Procs -> BOOLEAN]
    /\ mailbox \in [Procs -> Seq(Message)]
    /\ cur \in [Procs -> Nat]
    /\ settling \subseteq Procs
    /\ deferring \in [Procs -> BOOLEAN]
    /\ outbox \in [Procs -> [Procs -> Seq(Message)]]
    /\ heldLater \in [Procs -> SUBSET Outgoing]
    /\ pend \in [Procs -> SUBSET Nat]
    /\ kept \in [Procs -> SUBSET Nat]
    /\ restarts \in [Procs -> 0..MaxRestarts]
    /\ later \subseteq Outgoing
    /\ asking \in [Callers -> {NoAsk} \cup [to : Procs, id : Nat \ {0}]]
    /\ awaiting \subseteq [id : Nat \ {0}, by : Callers]
    /\ answers \subseteq [id : Nat \ {0}, reply : {"ok", "down"}, by : Nat]
    /\ expired \subseteq Callers
    /\ stack \in [Scheds -> Seq(Procs)]
    /\ parked \subseteq Procs
    /\ ready \subseteq Procs
    /\ halted \in BOOLEAN
    /\ committed \subseteq Nat

(* An ask nothing has answered is still somebody's to answer: its message  *)
(* waits in the target's mailbox, is being run by the target, or is kept   *)
(* by it.  A crash, a restart or a commit that forgot one of the three     *)
(* would leave its asker to wait out its deadline (Sim.deliver, crashed    *)
(* and downKept).                                                          *)
NoStrandedAsk ==
    \A w \in awaiting :
        LET q == asking[w.by].to
        IN  /\ asking[w.by].id = w.id
            /\ \/ w.id \in Ids(mailbox[q])
               \/ w.id = cur[q] /\ q \notin settling
               \/ w.id \in kept[q]

(* An answer belongs to an ask whose caller is still in it, and an ask has *)
(* one answer at most: one awaited is not also answered (Turns.answer).    *)
AnswerHasAsker ==
    \A a \in answers :
        /\ \E c \in Callers : asking[c].id = a.id
        /\ \A w \in awaiting : w.id # a.id
        /\ \A b \in answers : b.id = a.id => b = a

(* An update is a transaction towards the others: what waits in a mailbox  *)
(* or for its time, asks aside, was made by main or by an update that      *)
(* committed (Sim.deliver's two ends).                                     *)
AtomicSends ==
    /\ \A q \in Procs : \A i \in 1..Len(mailbox[q]) :
          LET m == mailbox[q][i]
          IN  m.kind = "ask" \/ m.upd \in committed \cup {0}
    /\ \A l \in later : l.msg.upd \in committed \cup {0}

(* A reply an asker gets was given by an update that committed, even when  *)
(* a later update than the one that took the ask gave it.                  *)
OkIsCommitted == \A a \in answers : a.reply = "ok" => a.by \in committed

(* A message is in one place at most, and never again in a mailbox once    *)
(* its update committed: it is taken at most once, whatever timed out.     *)
OnePlace ==
    /\ \A p, q \in Procs : \A i \in 1..Len(mailbox[p]), j \in 1..Len(mailbox[q]) :
          mailbox[p][i].id = mailbox[q][j].id => p = q /\ i = j
    /\ \A q \in Procs : \A i \in 1..Len(mailbox[q]) :
          LET id == mailbox[q][i].id
          IN  /\ id \notin committed
              /\ \A l \in later : l.msg.id # id
              /\ \A p \in Procs : cur[p] # id
              /\ \A p, r \in Procs : id \notin Ids(outbox[p][r])

(* The plain sends of one sender to one target arrive in the order the     *)
(* sender made them, over any number of its updates.                       *)
SendsInOrder ==
    \A q \in Procs : \A i, j \in 1..Len(mailbox[q]) :
        LET m == mailbox[q][i]
            n == mailbox[q][j]
        IN  i < j /\ m.kind = "send" /\ n.kind = "send" /\ m.from = n.from => m.id < n.id

(* A process that is down has nothing waiting and holds no ask: nothing is *)
(* enqueued to it, and its askers were all answered.                       *)
DownIsEmpty ==
    \A p \in Procs : up[p] \/ halted \/ (mailbox[p] = <<>> /\ kept[p] = {})

(* An update is in one place: on its scheduler's thread, once, parked, or  *)
(* in the ready queue, and none of them when its process is idle.          *)
OneTurn ==
    /\ parked \cap ready = {}
    /\ \A p \in Procs :
          /\ Busy(p) <=> OnStack(p) \/ p \in parked \cup ready
          /\ OnStack(p) => p \notin parked \cup ready
          /\ \A s \in Scheds : \A i, j \in 1..Len(stack[s]) :
                stack[s][i] = p /\ stack[s][j] = p => i = j /\ s = Home[p]
          /\ p \in settling => Holds(p) /\ asking[p] = NoAsk

(* No wake is lost: a process left parked waits in an ask whose deadline   *)
(* has not passed, that has no answer, to a process that is up.            *)
NoLostWake ==
    \A p \in parked :
        /\ asking[p] # NoAsk
        /\ p \notin expired /\ ~HasAnswer(p)
        /\ up[asking[p].to] \/ halted

(* Updates parked in asks of one another.                                  *)
WaitCycle(S) == S # {} /\ \A p \in S : p \in parked /\ asking[p].to \in S

(* No ring of updates waits out its deadlines when every ask in it is of a *)
(* process on another scheduler: the last to ask sees the ring (waitsOn).  *)
NoRingAcross ==
    \A S \in SUBSET Procs :
        WaitCycle(S) => \E p \in S : Home[asking[p].to] = Home[p]

(* A mailbox can pass its bound, since a commit does not look at it again  *)
(* (see MailboxBounded), but not by more than a bound's worth for each      *)
(* process that sends to it.                                               *)
SendersTo(q) == {p \in Procs : q \in Knows[p] /\ "send" \in Calls[p]}
HeldFor(q) == UNION {{p} \X (1..Len(outbox[p][q])) : p \in Procs}
BacklogBounded ==
    \A q \in Procs :
        Len(mailbox[q]) + Cardinality(HeldFor(q)) <= (Cardinality(SendersTo(q)) + 1) * Bound[q]

(* Every ask returns: answered, Down, or at its deadline at the latest.    *)
AsksReturn == \A c \in Callers : asking[c] # NoAsk ~> (asking[c] = NoAsk \/ halted)

(* What waits in a mailbox does not wait for ever.                         *)
MailboxesDrain == \A q \in Procs : mailbox[q] # <<>> ~> (mailbox[q] = <<>> \/ halted)

-----------------------------------------------------------------------------
(* Updates on many threads, with asks handed over in the middle of them,   *)
(* are the atomic updates of MoActors: a message stays its process's       *)
(* oldest until the update that runs it commits or crashes.                *)
Running(p) == IF Busy(p) /\ p \notin settling THEN <<cur[p]>> ELSE <<>>
Waiting(p) == [i \in 1..Len(mailbox[p]) |-> mailbox[p][i].id]
Actors == INSTANCE MoActors WITH
    box <- [p \in Procs |-> Running(p) \o Waiting(p)],
    timers <- {[to |-> l.to, id |-> l.msg.id] : l \in later},
    done <- committed
ImplementsActors == Actors!Spec

-----------------------------------------------------------------------------
(* What the documents say and the code does not do.                        *)

(* 03-semantics.md:34 "Every mailbox is bounded (`mailbox: N`)": not when  *)
(* two updates each held a send that fitted when it was made.              *)
MailboxBounded == \A q \in Procs : Len(mailbox[q]) <= Bound[q]

(* turns.zig:1236 "`Timeout` ... at once when the target's update is       *)
(* itself waiting on this call": not when both are parked on one scheduler.*)
NoWaitCycle == \A S \in SUBSET Procs : ~WaitCycle(S)
=============================================================================
