------------------------------ MODULE MoSweep ------------------------------
(***************************************************************************)
(* Where handles are, and the sweep that ends the processes nobody can     *)
(* reach and lets their ids be taken again.  Sources:                      *)
(* src/toolchain/src/turns.zig and src/toolchain/src/sim.zig.              *)
(*                                                                         *)
(* The code's handle is an id.  Here it is an id and the life of that id   *)
(* it was made for, which no action reads: only the properties tell the    *)
(* two lives of an id apart.                                               *)
(*                                                                         *)
(* What a step is.  A call main or an update makes of the runtime, under   *)
(* its lock.  A sweep needs every update parked, which MoTurns shows       *)
(* (WorldIsStopped), and main in a wait, for main's code holds the lock.   *)
(*                                                                         *)
(* What is abstracted.  A value is the set of the handles in it, one at    *)
(* most.  Mailboxes and outboxes are sets: MoProcs has their order, their  *)
(* bounds, and which wait ends when.  A call to a process that is down     *)
(* changes nothing and is left out.  A process may be placed anywhere, so  *)
(* it takes any free id or a new one.  A sweep may be due at any time.     *)
(***************************************************************************)
EXTENDS Naturals, FiniteSets

CONSTANTS
    Ids,        \* indices of Sim.procs
    Main,       \* main, the test_runner as a caller
    NoAsk,      \* asks nothing
    MainCalls,  \* what main's code calls
    OtherCalls, \* what the processes' code calls
    MaxStarts,  \* model bound: processes started
    MaxMade     \* model bound: messages made

ASSUME IdsAssumption == IsFiniteSet(Ids) /\ Main \notin Ids
ASSUME CallsAssumption ==
    /\ MainCalls \subseteq {"start", "line", "send", "later", "ask", "serve"}
    /\ OtherCalls \subseteq {"start", "send", "later", "ask", "serve", "answer", "defer"}
ASSUME StartsAssumption == MaxStarts \in Nat
ASSUME MadeAssumption == MaxMade \in Nat

VARIABLES
    slot,     \* what each id is: "new", "live", "ended" (in to_end) or "free" (in free_ids)
    life,     \* how many processes have had the id
    child,    \* Proc.supervisor is not test_runner
    up,       \* Proc.up
    args,     \* Proc.args
    state,    \* Proc.state
    mailbox,  \* Proc.mailbox
    kept,     \* Proc.kept
    phase,    \* main and updates: "idle", "runs", "waits" or, main, "settles" or "starts"
    takes,    \* Proc.reply_seq while an update runs, else 0
    locals,   \* handles in the locals of frames in vm.handle_frames
    stack,    \* handles on the vm's operand stack and nowhere in its frames
    outbox,   \* Proc.outbox
    pending,  \* Proc.answers
    hand,     \* what main's start was given, while it hands out turns first
    asked,    \* the ask it is in, with Turns.awaiting and Turns.answers
    sources,  \* targets of the sources that are not done
    later,    \* Sim.later
    starts,   \* processes started so far
    made,     \* messages made so far, Sim.next_seq
    lost      \* history: handles of processes a sweep ended, in use where none looks

idVars == <<slot, life, child, starts, lost>>
procVars == <<up, args, state, mailbox, kept>>
vmVars == <<phase, takes, locals, stack, hand>>
heldVars == <<outbox, pending>>
runVars == <<sources, later>>
vars == <<idVars, procVars, vmVars, heldVars, asked, runVars, made>>

-----------------------------------------------------------------------------
Users == Ids \cup {Main}
Handle == [id: Ids, life: 1 .. MaxStarts]
Number == 1 .. MaxMade
(* A value as the sweep reads it.                                            *)
Value == {{}} \cup {{h} : h \in Handle}
Message == [n: Number, to: Handle, holds: Value]
Send == [message: Message, late: BOOLEAN]
Reply == [n: Number, holds: Value]
Asking == [n: Number, to: Handle, got: SUBSET Value]
ASSUME NoAskAssumption == NoAsk \notin Asking

Live == {id \in Ids : slot[id] = "live"}
Known(x) == locals[x] \cup stack[x]
(* What x can put in a message, an answer, a state or a start's arguments.   *)
Given(x) == {{}} \cup {{h} : h \in Known(x)}
HandlesOf(things) == UNION {t.holds : t \in things}
(* main's code holds the lock while it runs.                                 *)
LockIsFree == phase[Main] # "runs"
(* Main's code runs, or an update's, and has this call.                      *)
Calls(x, c) ==
    /\ phase[x] = "runs"
    /\ IF x = Main THEN c \in MainCalls ELSE LockIsFree /\ c \in OtherCalls
Runs(id) == phase[id] = "runs" /\ LockIsFree
Awaited(x, n) == asked[x] # NoAsk /\ asked[x].n = n /\ asked[x].got = {}
(* Every ask of a reply in rs whose asker still waits has its answer.        *)
Answered(rs) ==
    [x \in Users |->
        IF \E r \in rs : Awaited(x, r.n)
        THEN [asked[x] EXCEPT !.got = {(CHOOSE r \in rs : r.n = asked[x].n).holds}]
        ELSE asked[x]]
Down(ns) == {[n |-> n, holds |-> {}] : n \in ns}
(* Those of ms whose target is up are in its mailbox.                        *)
Enqueued(ms) ==
    [id \in Ids |-> IF up[id] THEN mailbox[id] \cup {m \in ms : m.to.id = id} ELSE mailbox[id]]
(* A handle its holder has just got: named, or left on the operand stack.    *)
Gets(x, v) ==
    \/ locals' = [locals EXCEPT ![x] = @ \cup v] /\ UNCHANGED stack
    \/ stack' = [stack EXCEPT ![x] = @ \cup v] /\ UNCHANGED locals

Init ==
    /\ slot = [id \in Ids |-> "new"]
    /\ life = [id \in Ids |-> 0]
    /\ child = [id \in Ids |-> FALSE]
    /\ up = [id \in Ids |-> FALSE]
    /\ args = [id \in Ids |-> {}]
    /\ state = [id \in Ids |-> {}]
    /\ mailbox = [id \in Ids |-> {}]
    /\ kept = [id \in Ids |-> {}]
    /\ phase = [x \in Users |-> IF x = Main THEN "runs" ELSE "idle"]
    /\ takes = [id \in Ids |-> 0]
    /\ locals = [x \in Users |-> {}]
    /\ stack = [x \in Users |-> {}]
    /\ hand = {}
    /\ outbox = [id \in Ids |-> {}]
    /\ pending = [id \in Ids |-> {}]
    /\ asked = [x \in Users |-> NoAsk]
    /\ sources = {}
    /\ later = {}
    /\ starts = 0
    /\ made = 0
    /\ lost = {}

-----------------------------------------------------------------------------
(* The process takes an id: its Proc is a new one, whatever the last was.    *)
Begins(id, v, ofLine) ==
    /\ starts < MaxStarts /\ slot[id] \in {"new", "free"}
    /\ slot' = [slot EXCEPT ![id] = "live"]
    /\ life' = [life EXCEPT ![id] = @ + 1]
    /\ child' = [child EXCEPT ![id] = ofLine]
    /\ starts' = starts + 1
    /\ up' = [up EXCEPT ![id] = TRUE]
    /\ args' = [args EXCEPT ![id] = v]
    /\ state' = [state EXCEPT ![id] = v]
    /\ mailbox' = [mailbox EXCEPT ![id] = {}]
    /\ kept' = [kept EXCEPT ![id] = {}]
    /\ UNCHANGED <<takes, heldVars, asked, runVars, made, lost>>
Made(id) == {[id |-> id, life |-> life[id] + 1]}

UpdateStarts(x) ==
    /\ Calls(x, "start")
    /\ \E id \in Ids, v \in Given(x) : Begins(id, v, FALSE) /\ Gets(x, Made(id))
    /\ UNCHANGED <<phase, hand>>

(* main's start of a process, or a child of main's supervisor.               *)
MainStarts ==
    /\ phase[Main] = "runs"
    /\ \E id \in Ids, v \in Given(Main) :
        /\ \/ Calls(Main, "start") /\ Begins(id, v, FALSE)
           \/ Calls(Main, "line") /\ Begins(id, v, TRUE)
        /\ Gets(Main, Made(id))
    /\ UNCHANGED <<phase, hand>>

(* With a sweep due, main's start hands out turns first, its arguments in    *)
(* its hand.                                                                 *)
MainStartSettles ==
    /\ Calls(Main, "start") /\ starts < MaxStarts
    /\ \E v \in Given(Main) : hand' = v /\ stack' = [stack EXCEPT ![Main] = @ \ v]
    /\ phase' = [phase EXCEPT ![Main] = "starts"]
    /\ UNCHANGED <<idVars, procVars, takes, locals, heldVars, asked, runVars, made>>

Turnless ==
    \A id \in Ids : phase[id] # "runs" /\ ~(phase[id] = "idle" /\ up[id] /\ mailbox[id] # {})
MainStartsThen ==
    /\ phase[Main] = "starts" /\ Turnless
    /\ \E id \in Ids : Begins(id, hand, FALSE) /\ Gets(Main, Made(id))
    /\ phase' = [phase EXCEPT ![Main] = "runs"]
    /\ hand' = {}

(* Between two of main's statements: what they named in a block is gone.     *)
(* main's return is the last such wait: no frame is left and it never ends.  *)
MainSettles ==
    /\ phase[Main] = "runs"
    /\ phase' = [phase EXCEPT ![Main] = "settles"]
    /\ stack' = [stack EXCEPT ![Main] = {}]
    /\ \E left \in SUBSET locals[Main] : locals' = [locals EXCEPT ![Main] = left]
    /\ UNCHANGED <<idVars, procVars, takes, hand, heldVars, asked, runVars, made>>

MainGoesOn ==
    /\ phase[Main] = "settles" /\ Turnless
    /\ phase' = [phase EXCEPT ![Main] = "runs"]
    /\ UNCHANGED <<idVars, procVars, takes, locals, stack, hand, heldVars, asked, runVars, made>>

-----------------------------------------------------------------------------
(* A new message to h; it leaves the operand stack with its target.          *)
Makes(x, h, v) ==
    /\ made < MaxMade /\ up[h.id]
    /\ made' = made + 1
    /\ stack' = [stack EXCEPT ![x] = @ \ ({h} \cup v)]
Letter(h, v) == [n |-> made + 1, to |-> h, holds |-> v]

UpdateSends(x) ==
    /\ \E h \in Known(x), v \in Given(x), late \in BOOLEAN :
        /\ Calls(x, IF late THEN "later" ELSE "send")
        /\ Makes(x, h, v)
        /\ outbox' = [outbox EXCEPT ![x] = @ \cup {[message |-> Letter(h, v), late |-> late]}]
    /\ UNCHANGED <<idVars, procVars, phase, takes, locals, hand, pending, asked, runVars>>

MainSends ==
    /\ \E h \in Known(Main), v \in Given(Main) :
        /\ Makes(Main, h, v)
        /\ \/ Calls(Main, "send") /\ mailbox' = Enqueued({Letter(h, v)}) /\ UNCHANGED later
           \/ Calls(Main, "later") /\ later' = later \cup {Letter(h, v)} /\ UNCHANGED mailbox
    /\ UNCHANGED <<idVars, up, args, state, kept, phase, takes, locals, hand, heldVars, asked, sources>>

(* The frames that wait are those of the calls that have not returned: what  *)
(* it asks, and what it answered, may be in no local of theirs.              *)
Asks(x) ==
    /\ Calls(x, "ask")
    /\ \E h \in Known(x), v \in Given(x), left \in SUBSET locals[x] :
        /\ Makes(x, h, v)
        /\ mailbox' = Enqueued({Letter(h, v)})
        /\ asked' = [asked EXCEPT ![x] = [n |-> made + 1, to |-> h, got |-> {}]]
        /\ locals' = [locals EXCEPT ![x] = left]
    /\ phase' = [phase EXCEPT ![x] = "waits"]
    /\ UNCHANGED <<idVars, up, args, state, kept, takes, hand, heldVars, runVars>>

(* It takes its answer, or its deadline passes or its target is down.        *)
AskReturnsKeepingIt(x) ==
    /\ phase[x] = "waits" /\ (x = Main \/ LockIsFree)
    /\ Gets(x, IF asked[x].got = {} THEN {} ELSE CHOOSE v \in asked[x].got : TRUE)
    /\ phase' = [phase EXCEPT ![x] = "runs"]
    /\ UNCHANGED <<idVars, procVars, takes, hand, heldVars, asked, runVars, made>>
AskReturns(x) ==
    /\ phase[x] = "waits" /\ (x = Main \/ LockIsFree)
    /\ Gets(x, IF asked[x].got = {} THEN {} ELSE CHOOSE v \in asked[x].got : TRUE)
    /\ asked' = [asked EXCEPT ![x] = NoAsk]
    /\ phase' = [phase EXCEPT ![x] = "runs"]
    /\ UNCHANGED <<idVars, procVars, takes, hand, heldVars, runVars, made>>

(* A source feeds h until it is done.                                        *)
Serves(x) ==
    /\ Calls(x, "serve")
    /\ \E h \in Known(x) : sources' = sources \cup {h} /\ stack' = [stack EXCEPT ![x] = @ \ {h}]
    /\ UNCHANGED <<idVars, procVars, phase, takes, locals, hand, heldVars, asked, later, made>>

SourceGives(h) ==
    /\ LockIsFree /\ made < MaxMade
    /\ mailbox' = Enqueued({Letter(h, {})})
    /\ made' = made + 1
    /\ UNCHANGED <<idVars, up, args, state, kept, vmVars, heldVars, asked, runVars>>

SourceEnds(h) ==
    /\ LockIsFree
    /\ sources' = sources \ {h}
    /\ UNCHANGED <<idVars, procVars, vmVars, heldVars, asked, later, made>>

(* A delayed send's time has come.                                           *)
Due(m) ==
    /\ LockIsFree
    /\ later' = later \ {m}
    /\ mailbox' = Enqueued({m})
    /\ UNCHANGED <<idVars, up, args, state, kept, vmVars, heldVars, asked, sources, made>>

-----------------------------------------------------------------------------
Delivers(id) ==
    /\ LockIsFree /\ phase[id] = "idle" /\ up[id]
    /\ \E m \in mailbox[id] :
        /\ mailbox' = [mailbox EXCEPT ![id] = @ \ {m}]
        /\ takes' = [takes EXCEPT ![id] = m.n]
        /\ locals' = [locals EXCEPT ![id] = args[id] \cup state[id] \cup m.holds]
    /\ phase' = [phase EXCEPT ![id] = "runs"]
    /\ UNCHANGED <<idVars, up, args, state, kept, stack, hand, heldVars, asked, runVars, made>>

(* reply.answer(v): held until the commit.                                   *)
Answers(id) ==
    /\ Calls(id, "answer")
    /\ \E n \in kept[id] \cup {takes[id]}, v \in Given(id) :
        /\ \A r \in pending[id] : r.n # n
        /\ pending' = [pending EXCEPT ![id] = @ \cup {[n |-> n, holds |-> v]}]
        /\ stack' = [stack EXCEPT ![id] = @ \ v]
    /\ UNCHANGED <<idVars, procVars, phase, takes, locals, hand, outbox, asked, runVars, made>>

(* The update's frames are gone.                                             *)
Leaves(id) ==
    /\ phase' = [phase EXCEPT ![id] = "idle"]
    /\ takes' = [takes EXCEPT ![id] = 0]
    /\ locals' = [locals EXCEPT ![id] = {}]
    /\ stack' = [stack EXCEPT ![id] = {}]
    /\ outbox' = [outbox EXCEPT ![id] = {}]
    /\ pending' = [pending EXCEPT ![id] = {}]
    /\ UNCHANGED hand

(* `deferring`: its arm kept the asker.                                      *)
Commits(id) ==
    /\ Runs(id)
    /\ \E s \in Given(id), v \in Given(id), deferring \in BOOLEAN :
        LET own == takes[id]
            answered == {r.n : r \in pending[id]}
            replies == pending[id] \cup (IF deferring THEN {} ELSE {[n |-> own, holds |-> v]})
        IN  /\ IF deferring THEN v = {} /\ "defer" \in OtherCalls ELSE own \notin answered
            /\ state' = [state EXCEPT ![id] = s]
            /\ kept' = [kept EXCEPT ![id] =
                  (IF deferring THEN @ \cup {own} ELSE @) \ answered]
            /\ asked' = Answered(replies)
    /\ mailbox' = Enqueued({o.message : o \in {p \in outbox[id] : ~p.late}})
    /\ later' = later \cup {o.message : o \in {p \in outbox[id] : p.late /\ up[p.message.to.id]}}
    /\ Leaves(id)
    /\ UNCHANGED <<idVars, up, args, sources, made>>

(* What it kept, what it took and what waits for it goes Down; then it       *)
(* restarts, or stays down.  What its update held is gone.                   *)
Crashes(id) ==
    /\ Runs(id)
    /\ asked' = Answered(Down(kept[id] \cup {takes[id]} \cup {m.n : m \in mailbox[id]}))
    /\ mailbox' = [mailbox EXCEPT ![id] = {}]
    /\ kept' = [kept EXCEPT ![id] = {}]
    /\ \/ state' = [state EXCEPT ![id] = args[id]] /\ UNCHANGED up
       \/ up' = [up EXCEPT ![id] = FALSE] /\ UNCHANGED state
    /\ Leaves(id)
    /\ UNCHANGED <<idVars, args, runVars, made>>

-----------------------------------------------------------------------------
(* The sweep.  No update is in a frame and no message waits.                 *)
FinishedThoughMailWaits(id) == ~child[id] /\ phase[id] = "idle"
Finished(id) == ~child[id] /\ phase[id] = "idle" /\ mailbox[id] = {}
Unfinished == {id \in Live : ~Finished(id)}
(* What a process's own arguments and state keep.                            *)
KeepsArgsOnly(id) == args[id]
Keeps(id) == args[id] \cup (IF up[id] THEN state[id] ELSE {})
SentBy(id) == UNION {{o.message.to} \cup o.message.holds : o \in outbox[id]}
Untaken == UNION {UNION asked[x].got : x \in {u \in Users : asked[u] # NoAsk}}
RootsButLater ==
    locals[Main]
    \cup (UNION {Keeps(id) \cup HandlesOf(mailbox[id]) : id \in Unfinished})
    \cup (UNION {locals[id] \cup SentBy(id) : id \in {i \in Unfinished : phase[i] # "idle"}})
    \cup Untaken \cup sources
RootsButFrames ==
    locals[Main]
    \cup (UNION {Keeps(id) \cup HandlesOf(mailbox[id]) \cup SentBy(id) : id \in Unfinished})
    \cup Untaken \cup sources \cup (UNION {{m.to} \cup m.holds : m \in later})
(* Where a sweep starts from.                                                *)
Roots ==
    locals[Main]
    \cup (UNION {Keeps(id) \cup HandlesOf(mailbox[id]) : id \in Unfinished})
    \cup (UNION {locals[id] \cup SentBy(id) : id \in {i \in Unfinished : phase[i] # "idle"}})
    \cup Untaken \cup sources \cup (UNION {{m.to} \cup m.holds : m \in later})
IdsOf(hs) == {h.id : h \in hs}
(* The marks: the least set with the roots and what its members keep.        *)
Closed(from, ids) == from \subseteq ids /\ \A id \in ids : IdsOf(Keeps(id)) \subseteq ids
Reached(hs) ==
    LET from == IdsOf(hs)
    IN  {id \in Ids : \A ids \in SUBSET Ids : Closed(from, ids) => id \in ids}
Ending == LET marks == Reached(Roots) IN {id \in Live : Finished(id) /\ id \notin marks}

(* Where a program has handles and a sweep looks,                            *)
Seen ==
    (UNION {locals[x] : x \in Users})
    \cup (UNION {Keeps(id) : id \in Live})
    \cup (UNION {HandlesOf(mailbox[id]) \cup SentBy(id) : id \in Ids})
    \cup Untaken \cup sources \cup (UNION {{m.to} \cup m.holds : m \in later})
(* and where none does: an operand stack, what main's start was given, the   *)
(* answers an update holds for its commit, and whom an ask waits for.        *)
Unseen ==
    (UNION {stack[x] : x \in Users}) \cup hand
    \cup (UNION {HandlesOf(pending[id]) : id \in Ids})
    \cup {asked[x].to : x \in {u \in Users : asked[u] # NoAsk /\ asked[u].got = {}}}
(* The process h was made for has not ended.                                 *)
Lives(h) == slot[h.id] = "live" /\ life[h.id] = h.life

Sweep ==
    /\ \A x \in Users : phase[x] # "runs"
    /\ UNCHANGED <<life, child, starts, kept, vmVars, heldVars, asked, runVars, made>>
    /\ LET gone == Ending
       IN  /\ gone # {}
           /\ slot' = [id \in Ids |-> IF id \in gone THEN "ended" ELSE slot[id]]
           /\ up' = [id \in Ids |-> up[id] /\ id \notin gone]
           /\ args' = [id \in Ids |-> IF id \in gone THEN {} ELSE args[id]]
           /\ state' = [id \in Ids |-> IF id \in gone THEN {} ELSE state[id]]
           /\ mailbox' = [id \in Ids |-> IF id \in gone THEN {} ELSE mailbox[id]]
           /\ lost' = lost \cup {h \in Unseen \ Seen' : h.id \in gone /\ Lives(h)}

(* Its scheduler gives the id back.                                          *)
EndsOwn(id) ==
    /\ LockIsFree /\ slot[id] = "ended"
    /\ slot' = [slot EXCEPT ![id] = "free"]
    /\ UNCHANGED <<life, child, starts, lost, procVars, vmVars, heldVars, asked, runVars, made>>

Next ==
    \/ MainStarts \/ MainStartSettles \/ MainStartsThen
    \/ MainSettles \/ MainGoesOn \/ MainSends
    \/ \E x \in Users : Asks(x) \/ AskReturns(x) \/ Serves(x)
    \/ \E h \in sources : SourceGives(h) \/ SourceEnds(h)
    \/ \E m \in later : Due(m)
    \/ \E id \in Ids :
        \/ UpdateStarts(id) \/ UpdateSends(id) \/ Delivers(id) \/ Answers(id)
        \/ Commits(id) \/ Crashes(id) \/ EndsOwn(id)
    \/ Sweep

Spec == Init /\ [][Next]_vars

-----------------------------------------------------------------------------
(* What the variables hold; an id has had no more lives than were started,   *)
(* an ask is in progress exactly while its caller waits in it, and every     *)
(* update that is under way took a message.                                  *)
TypeOK ==
    /\ slot \in [Ids -> {"new", "live", "ended", "free"}]
    /\ life \in [Ids -> 0 .. MaxStarts]
    /\ child \in [Ids -> BOOLEAN]
    /\ up \in [Ids -> BOOLEAN]
    /\ args \in [Ids -> Value]
    /\ state \in [Ids -> Value]
    /\ mailbox \in [Ids -> SUBSET Message]
    /\ kept \in [Ids -> SUBSET Number]
    /\ phase \in [Users -> {"idle", "runs", "waits", "settles", "starts"}]
    /\ takes \in [Ids -> 0 .. MaxMade]
    /\ locals \in [Users -> SUBSET Handle]
    /\ stack \in [Users -> SUBSET Handle]
    /\ hand \in Value
    /\ outbox \in [Ids -> SUBSET Send]
    /\ pending \in [Ids -> SUBSET Reply]
    /\ asked \in [Users -> Asking \cup {NoAsk}]
    /\ sources \in SUBSET Handle
    /\ later \in SUBSET Message
    /\ starts \in 0 .. MaxStarts
    /\ made \in 0 .. MaxMade
    /\ lost \in SUBSET Handle
    /\ \A id \in Ids : life[id] <= starts
    /\ \A x \in Users : asked[x] # NoAsk <=> phase[x] = "waits"
    /\ \A id \in Ids : takes[id] = 0 <=> phase[id] = "idle"

(* A handle a program has, wherever, is of a process that has not ended, so  *)
(* of the one it was made for, whatever is swept, freed and started in its   *)
(* place; or a sweep ended that process when the handle was in no place that *)
(* Turns.sweep reads, and nothing else it was in kept it.                    *)
HandlesAreLive == \A h \in Seen \cup Unseen : Lives(h) \/ h \in lost

(* A message waits only for the process it was sent to, not for another that *)
(* took its id, held in an outbox, delayed, or made by a source meanwhile;   *)
(* but for those sent by a handle that was lost so.                          *)
MessagesReachTheirs == \A id \in Ids : \A m \in mailbox[id] : Lives(m.to) \/ m.to \in lost

(* No sweep ends a process that owes an answer, kept or not, to a caller in  *)
(* an ask that has its handle where a sweep looks: Turns.end answers none    *)
(* and wakes nobody.                                                         *)
EndedOwesNothing ==
    \A x \in Users : asked[x] # NoAsk /\ asked[x].got = {} =>
        Lives(asked[x].to) \/ asked[x].to \in lost

(* What a sweep would end, and nothing a program has leads to, nothing       *)
(* brings back: it does not matter when the next sweep comes (sweep_at,      *)
(* sweep_retry_ms).                                                          *)
Garbage == {id \in Ending : id \notin Reached(Roots \cup Unseen)}
GarbageStays ==
    [][\A id \in Garbage : slot'[id] = "live" /\ life'[id] = life[id] => id \in Garbage']_vars

(* The comment of Turns.sweep: a handle in a reply not yet taken keeps its   *)
(* process, so no process ends whose handle an update answered with.         *)
AnswersAreLive == \A id \in Ids : \A h \in HandlesOf(pending[id]) : Lives(h)

(* The same comment, of every handle main or an update goes on to use.       *)
AllAreLive == \A h \in Seen \cup Unseen : Lives(h)
=============================================================================
