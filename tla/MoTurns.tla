------------------------------ MODULE MoTurns ------------------------------
(***************************************************************************)
(* The scheduler threads of a Mo run under Mo.Server: how a thread with    *)
(* nothing to hand out goes to sleep, how one that gives it something      *)
(* wakes it, how a sweep stops the others, and how main waits for all of   *)
(* them.  Source: src/toolchain/src/turns.zig.                             *)
(*                                                                         *)
(* What a step is.  All but the word `Sched.state` and the wake's          *)
(* descriptor is read and written under the runtime's lock, so an action   *)
(* is what a thread does between taking the lock and letting it go, or     *)
(* one access of that word or descriptor by the thread that waits on it.   *)
(* A poke (the exchange and the wake after it) is part of the poker's      *)
(* action: what it wakes rechecks the word before it sleeps, so nothing    *)
(* distinguishes the two.                                                  *)
(*                                                                         *)
(* What is abstracted.  Processes are counted, not named: a scheduler has  *)
(* so many in its ready queue, so many with a message waiting and so many  *)
(* parked.  Clocks are choices: a sweep may be due at any step, its wait   *)
(* may run out at any moment, and so may a sleep's.                        *)
(***************************************************************************)
EXTENDS Naturals, FiniteSets

CONSTANTS
    Scheds,     \* the schedulers, one thread each
    Main,       \* scheduler 0, on main's thread
    Nobody,     \* no scheduler
    MaxGiven,   \* model bound: messages given and waits begun in a run
    MaxSweeps   \* model bound: sweeps begun in a run

ASSUME SchedsAssumption == IsFiniteSet(Scheds) /\ Main \in Scheds /\ Nobody \notin Scheds
ASSUME GivenAssumption == MaxGiven \in Nat
ASSUME SweepsAssumption == MaxSweeps \in Nat

VARIABLES
    pc,        \* where each thread is
    state,     \* Sched.state
    signal,    \* Sched.wake has been written and not drained
    told,      \* threads whose last look at their poller reported their wake
    resting,   \* Sched.resting
    heldBack,  \* Sched.held_back
    ready,     \* Sched.ready: how many processes' waits have ended
    mail,      \* how many turns Sched.runnable's processes have messages for
    waits,     \* Sched.parked: how many updates are parked
    toEnd,     \* Sched.to_end has something
    updating,  \* Turns.updating
    sweeper,   \* Turns.sweeper, Nobody when not Turns.sweeping
    mainWaits, \* Turns.main_waits
    stopping,  \* Turns.stopping
    failed,    \* Turns.failure is set
    given,     \* messages given and waits begun so far
    sweeps     \* sweeps begun so far

wordVars == <<state, signal, told>>
workVars == <<ready, mail, waits>>
sweepVars == <<updating, sweeper, sweeps>>
runVars == <<stopping, failed>>
vars == <<pc, wordVars, resting, heldBack, workVars, toEnd, sweepVars, mainWaits, runVars, given>>

-----------------------------------------------------------------------------
(* loop: about to call step.  looking: in step, past its sweep.  marking:  *)
(* in a sweep, the world stopped.  code: main's code.  leaving: main's     *)
(* code, on an error past a crash.  These hold the lock, and no other      *)
(* place does but for the length of an action.  update: an update has the  *)
(* thread.  stopping: in stopTurns.  spinning .. back: in idle.  joining:  *)
(* main waits for the threads to end.                                      *)
Locked == {"loop", "looking", "marking", "code", "leaving"}
Places == Locked \cup {"update", "stopping", "spinning", "falling", "futex", "polling", "awake",
                       "back", "joining", "done"}

Free == \A x \in Scheds : pc[x] \notin Locked
Others == Scheds \ {Main}

Init ==
    /\ pc = [x \in Scheds |-> IF x = Main THEN "code" ELSE "back"]
    /\ state = [x \in Scheds |-> "running"]
    /\ signal = [x \in Scheds |-> FALSE]
    /\ told = {}
    /\ resting = [x \in Scheds |-> TRUE]
    /\ heldBack = [x \in Scheds |-> FALSE]
    /\ ready = [x \in Scheds |-> 0]
    /\ mail = [x \in Scheds |-> 0]
    /\ waits = [x \in Scheds |-> 0]
    /\ toEnd = [x \in Scheds |-> FALSE]
    /\ updating = 0
    /\ sweeper = Nobody
    /\ mainWaits = FALSE
    /\ stopping = FALSE
    /\ failed = FALSE
    /\ given = 0
    /\ sweeps = 0

-----------------------------------------------------------------------------
(* rouse: `poked` is swapped in, whatever the thread does, and what was    *)
(* swapped out says whether and how it sleeps.  (PokedAsleep, and every    *)
(* other definition before the one it resembles, is that definition with a *)
(* bug: see README.md, Mutants.)                                           *)
PokedAsleep(R) ==
    [x \in Scheds |-> IF x \in R /\ state[x] \in {"sleeping", "parked"} THEN "poked" ELSE state[x]]
Poked(R) == [x \in Scheds |-> IF x \in R THEN "poked" ELSE state[x]]
Signalled(R) == [x \in Scheds |-> signal[x] \/ (x \in R /\ state[x] = "sleeping")]
Woken(R) ==
    [x \in Scheds |-> IF x \in R /\ pc[x] = "futex" /\ state[x] = "parked" THEN "awake" ELSE pc[x]]

(* stir: thread s has given something to each scheduler of T.  Its own     *)
(* goes to `next`.                                                         *)
Stir(s, T, next) ==
    /\ resting' = [x \in Scheds |-> resting[x] /\ x \notin T]
    /\ state' = Poked(T \ {s})
    /\ signal' = Signalled(T \ {s})
    /\ pc' = [Woken(T \ {s}) EXCEPT ![s] = next]

OneMore(count, T) == [x \in Scheds |-> IF x \in T THEN count[x] + 1 ELSE count[x]]

-----------------------------------------------------------------------------
(* An update on its thread.                                                *)

(* One of its asks goes to a process of another scheduler, or of its own.  *)
Asks(s, t) ==
    /\ pc[s] = "update" /\ Free /\ given < MaxGiven
    /\ given' = given + 1
    /\ mail' = OneMore(mail, {t})
    /\ Stir(s, {t}, "update")
    /\ UNCHANGED <<told, heldBack, ready, waits, toEnd, sweepVars, mainWaits, runVars>>

(* It ends: its sends go out to T, and it answers asks of R's processes.   *)
Ends(s, T, R) ==
    /\ pc[s] = "update" /\ Free
    /\ given + Cardinality(T) <= MaxGiven
    /\ \A x \in R : waits[x] > 0
    /\ given' = given + Cardinality(T)
    /\ mail' = OneMore(mail, T)
    /\ ready' = OneMore(ready, R)
    /\ waits' = [x \in Scheds |-> IF x \in R THEN waits[x] - 1 ELSE waits[x]]
    /\ updating' = updating - 1
    /\ Stir(s, T \cup R, "loop")
    /\ UNCHANGED <<told, heldBack, toEnd, sweeper, sweeps, mainWaits, runVars>>

(* It parks in an ask or a Net call.                                       *)
Parks(s) ==
    /\ pc[s] = "update" /\ Free /\ given < MaxGiven
    /\ given' = given + 1
    /\ waits' = OneMore(waits, {s})
    /\ updating' = updating - 1
    /\ pc' = [pc EXCEPT ![s] = "loop"]
    /\ UNCHANGED <<wordVars, resting, heldBack, ready, mail, toEnd, sweeper, sweeps, mainWaits,
                   runVars>>

(* stepAside: at an ask it makes way for a sweep, another's that waits or  *)
(* one that is due, and goes on once that is over.                         *)
SweepWants(s) == IF sweeper = Nobody THEN sweeps < MaxSweeps ELSE sweeper # s
StepsAsideCounted(s) ==
    /\ pc[s] = "update" /\ Free /\ SweepWants(s)
    /\ ready' = OneMore(ready, {s})
    /\ Stir(s, {s}, "loop")
    /\ UNCHANGED <<told, heldBack, mail, waits, toEnd, sweepVars, mainWaits, runVars, given>>
StepsAside(s) ==
    /\ pc[s] = "update" /\ Free /\ SweepWants(s)
    /\ ready' = OneMore(ready, {s})
    /\ updating' = updating - 1
    /\ Stir(s, {s}, "loop")
    /\ UNCHANGED <<told, heldBack, mail, waits, toEnd, sweeper, sweeps, mainWaits, runVars, given>>

(* A supervisor gives up on it: its scheduler's thread ends, which main    *)
(* must see, or main's code does.                                          *)
Fails(s) ==
    /\ s # Main /\ pc[s] = "update" /\ Free
    /\ failed' = TRUE
    /\ updating' = updating - 1
    /\ Stir(s, {Main}, "done")
    /\ UNCHANGED <<told, heldBack, workVars, toEnd, sweeper, sweeps, mainWaits, stopping, given>>
FailsOnMain ==
    /\ pc[Main] = "update" /\ Free
    /\ updating' = updating - 1
    /\ pc' = [pc EXCEPT ![Main] = "leaving"]
    /\ UNCHANGED <<wordVars, resting, heldBack, workVars, toEnd, sweeper, sweeps, mainWaits,
                   runVars, given>>

-----------------------------------------------------------------------------
(* step, called from a scheduler's loop and from settle.                   *)

(* What step checks before it looks at the queues; "looking" is past it.   *)
Refused(s) == pc[s] = "loop" /\ sweeper \notin {Nobody, s}
Ended(s) == pc[s] = "loop" /\ (failed \/ (stopping /\ s # Main))
Looks(s) == pc[s] \in {"loop", "looking"} /\ ~Ended(s)

(* endOwn, at the head of a step that is not refused.                      *)
OwnEnded(s) ==
    toEnd' = [toEnd EXCEPT ![s] = @ /\ (pc[s] = "looking" \/ Refused(s))]

(* A deadline or a socket ends the wait of one of its parked processes.    *)
WaitEnds(s) ==
    /\ Looks(s) /\ ~Refused(s) /\ waits[s] > 0
    /\ waits' = [waits EXCEPT ![s] = @ - 1]
    /\ ready' = OneMore(ready, {s})
    /\ OwnEnded(s)
    /\ Stir(s, {s}, "looking")
    /\ UNCHANGED <<told, heldBack, mail, sweepVars, mainWaits, runVars, given>>

(* It hands its thread to a process whose wait ended, else to one with a   *)
(* message waiting.                                                        *)
HandsOut(s) ==
    /\ Looks(s) /\ ~Refused(s)
    /\ \/ ready[s] > 0 /\ ready' = [ready EXCEPT ![s] = @ - 1] /\ UNCHANGED mail
       \/ ready[s] = 0 /\ mail[s] > 0 /\ mail' = [mail EXCEPT ![s] = @ - 1] /\ UNCHANGED ready
    /\ OwnEnded(s)
    /\ updating' = updating + 1
    /\ pc' = [pc EXCEPT ![s] = "update"]
    /\ UNCHANGED <<wordVars, resting, heldBack, waits, sweeper, sweeps, mainWaits, runVars, given>>

Nothing(s) == Refused(s) \/ (ready[s] = 0 /\ mail[s] = 0)

(* idle, until it lets the lock go: it looks again at once when it was     *)
(* given something this step did not hand out, or the run is over.         *)
ReturnsEarly(s) ==
    \/ stopping \/ failed
    \/ ~Refused(s) /\ (ready[s] > 0 \/ toEnd'[s])
IdlesAt(s) == IF ReturnsEarly(s) THEN "loop" ELSE "spinning"
Idles(s, poked) ==
    state' = IF ReturnsEarly(s) THEN poked ELSE [poked EXCEPT ![s] = "spinning"]

(* A scheduler's thread rests, which main may be waiting for.              *)
RestTellsNobody == {}
RestTells == IF mainWaits THEN {Main} ELSE {}
Rests(s) ==
    /\ s # Main /\ Looks(s) /\ Nothing(s)
    /\ OwnEnded(s)
    /\ heldBack' = [heldBack EXCEPT ![s] = @ \/ Refused(s)]
    /\ resting' = [x \in Scheds |-> IF x = s THEN TRUE ELSE resting[x] /\ x \notin RestTells]
    /\ Idles(s, Poked(RestTells))
    /\ signal' = Signalled(RestTells)
    /\ pc' = [Woken(RestTells) EXCEPT ![s] = IdlesAt(s)]
    /\ UNCHANGED <<told, workVars, sweepVars, mainWaits, runVars, given>>

(* Main's settle: its code goes on once every other scheduler rests.       *)
OthersRestUnswept == \A x \in Others : resting[x] /\ ready[x] = 0 /\ ~toEnd[x]
OthersRest ==
    /\ sweeper = Nobody
    /\ \A x \in Others : resting[x] /\ ready[x] = 0 /\ ~toEnd[x]
Settles ==
    /\ Looks(Main) /\ Nothing(Main) /\ OthersRest
    /\ OwnEnded(Main)
    /\ heldBack' = [heldBack EXCEPT ![Main] = @ \/ Refused(Main)]
    /\ pc' = [pc EXCEPT ![Main] = "code"]
    /\ UNCHANGED <<wordVars, resting, workVars, sweepVars, mainWaits, runVars, given>>
Waits ==
    /\ Looks(Main) /\ Nothing(Main) /\ ~OthersRest
    /\ OwnEnded(Main)
    /\ heldBack' = [heldBack EXCEPT ![Main] = @ \/ Refused(Main)]
    /\ mainWaits' = ~ReturnsEarly(Main)
    /\ Idles(Main, state)
    /\ pc' = [pc EXCEPT ![Main] = IdlesAt(Main)]
    /\ UNCHANGED <<signal, told, resting, workVars, sweepVars, runVars, given>>

-----------------------------------------------------------------------------
(* idle, with the lock let go.                                             *)

(* It spins until it sees a poke, or its poller reports its wake or a      *)
(* socket; poked, it may look at its poller too.                           *)
SpinEnds(s) ==
    /\ pc[s] = "spinning"
    /\ \/ state[s] = "poked" /\ told' = told
       \/ signal[s] /\ told' = told \cup {s}
       \/ waits[s] > 0 /\ told' = told
    /\ pc' = [pc EXCEPT ![s] = "awake"]
    /\ UNCHANGED <<state, signal, resting, heldBack, workVars, toEnd, sweepVars, mainWaits,
                   runVars, given>>

(* It has spun long enough: it sleeps in its poller, or on its state, if   *)
(* that still says it spins.                                               *)
FallsAsleep(s) ==
    /\ pc[s] = "spinning" /\ state[s] = "spinning"
    /\ \E how \in {"sleeping", "parked"} :
          /\ state' = [state EXCEPT ![s] = how]
          /\ pc' = [pc EXCEPT ![s] = IF how = "sleeping" THEN "polling" ELSE "falling"]
    /\ UNCHANGED <<signal, told, resting, heldBack, workVars, toEnd, sweepVars, mainWaits,
                   runVars, given>>

(* The system's wait on the word sleeps only while it says parked.         *)
FutexWaits(s) ==
    /\ pc[s] = "falling"
    /\ pc' = [pc EXCEPT ![s] = IF state[s] = "parked" THEN "futex" ELSE "awake"]
    /\ UNCHANGED <<wordVars, resting, heldBack, workVars, toEnd, sweepVars, mainWaits, runVars, given>>

PollReports(s) ==
    /\ pc[s] = "polling" /\ signal[s]
    /\ told' = told \cup {s}
    /\ pc' = [pc EXCEPT ![s] = "awake"]
    /\ UNCHANGED <<state, signal, resting, heldBack, workVars, toEnd, sweepVars, mainWaits,
                   runVars, given>>

(* A socket, a deadline, or the second no sleep goes past.                 *)
WakesByItself(s) ==
    /\ pc[s] \in {"polling", "futex"}
    /\ pc' = [pc EXCEPT ![s] = "awake"]
    /\ UNCHANGED <<wordVars, resting, heldBack, workVars, toEnd, sweepVars, mainWaits, runVars, given>>

SaysRunning(s) ==
    /\ pc[s] = "awake"
    /\ state' = [state EXCEPT ![s] = "running"]
    /\ pc' = [pc EXCEPT ![s] = "back"]
    /\ UNCHANGED <<signal, told, resting, heldBack, workVars, toEnd, sweepVars, mainWaits,
                   runVars, given>>

TakesLockBack(s) ==
    /\ pc[s] = "back" /\ Free
    /\ signal' = [signal EXCEPT ![s] = @ /\ s \notin told]
    /\ told' = told \ {s}
    /\ mainWaits' = (mainWaits /\ s # Main)
    /\ pc' = [pc EXCEPT ![s] = "loop"]
    /\ UNCHANGED <<state, resting, heldBack, workVars, toEnd, sweepVars, runVars, given>>

-----------------------------------------------------------------------------
(* A sweep, on whichever thread's step it falls due.                       *)

SweepBegins(s) ==
    /\ pc[s] = "loop" /\ ~Ended(s)
    /\ sweeper = Nobody /\ sweeps < MaxSweeps
    /\ OwnEnded(s)
    /\ sweeps' = sweeps + 1
    /\ sweeper' = s
    /\ pc' = [pc EXCEPT ![s] = "stopping"]
    /\ UNCHANGED <<wordVars, resting, heldBack, workVars, updating, mainWaits, runVars, given>>

(* startTurns: those it held back, or gave something, look again.          *)
StartsUnrested == {x \in Scheds : ~resting[x]}
Starts == {x \in Scheds : heldBack[x] \/ ~resting[x]}

(* stopTurns looks again and again, with the lock let go between.          *)
StillButOne == updating <= 1
Still == updating = 0
WorldStops(s) ==
    /\ pc[s] = "stopping" /\ Free /\ Still
    /\ pc' = [pc EXCEPT ![s] = "marking"]
    /\ UNCHANGED <<wordVars, resting, heldBack, workVars, toEnd, sweepVars, mainWaits, runVars, given>>

WaitsTooLong(s) ==
    /\ pc[s] = "stopping" /\ Free /\ ~Still
    /\ sweeper' = Nobody
    /\ heldBack' = [x \in Scheds |-> FALSE]
    /\ Stir(s, Starts, "looking")
    /\ UNCHANGED <<told, workVars, toEnd, updating, sweeps, mainWaits, runVars, given>>

(* It marks, ends some processes of the schedulers of E, and starts turns. *)
SweepEnds(s, E) ==
    /\ pc[s] = "marking"
    /\ toEnd' = [x \in Scheds |-> toEnd[x] \/ x \in E]
    /\ sweeper' = Nobody
    /\ heldBack' = [x \in Scheds |-> FALSE]
    /\ Stir(s, E \cup Starts, "looking")
    /\ UNCHANGED <<told, workVars, updating, sweeps, mainWaits, runVars, given>>

-----------------------------------------------------------------------------
(* main's code, and the run's end.                                         *)

(* A statement of main's sends or starts something, then settles.          *)
MainGives(t) ==
    /\ pc[Main] = "code" /\ given < MaxGiven
    /\ given' = given + 1
    /\ mail' = OneMore(mail, {t})
    /\ Stir(Main, {t}, "loop")
    /\ UNCHANGED <<told, heldBack, ready, waits, toEnd, sweepVars, mainWaits, runVars>>

(* stop, when main's code has ended or a step of main's met the failure.   *)
StopsUnpoked ==
    /\ pc[Main] \in {"code", "leaving"} \/ (pc[Main] = "loop" /\ failed)
    /\ stopping' = TRUE
    /\ signal' = [x \in Scheds |-> signal[x] \/ x \in Others]
    /\ pc' = [pc EXCEPT ![Main] = "joining"]
    /\ UNCHANGED <<state, told, resting, heldBack, workVars, toEnd, sweepVars, mainWaits, failed,
                   given>>
Stops ==
    /\ pc[Main] \in {"code", "leaving"} \/ (pc[Main] = "loop" /\ failed)
    /\ stopping' = TRUE
    /\ state' = Poked(Others)
    /\ signal' = [x \in Scheds |-> signal[x] \/ x \in Others]
    /\ pc' = [Woken(Others) EXCEPT ![Main] = "joining"]
    /\ UNCHANGED <<told, resting, heldBack, workVars, toEnd, sweepVars, mainWaits, failed, given>>

FailureTells == IF failed /\ ~stopping THEN {Main} ELSE {}
ThreadEnds(s) ==
    /\ s # Main /\ Ended(s)
    /\ Stir(s, FailureTells, "done")
    /\ UNCHANGED <<told, heldBack, workVars, toEnd, sweepVars, mainWaits, runVars, given>>

Joined ==
    /\ pc[Main] = "joining" /\ \A x \in Others : pc[x] = "done"
    /\ pc' = [pc EXCEPT ![Main] = "done"]
    /\ UNCHANGED <<wordVars, resting, heldBack, workVars, toEnd, sweepVars, mainWaits, runVars, given>>

-----------------------------------------------------------------------------
Row(s) == (\E t \in Scheds : Asks(s, t)) \/ StepsAside(s) \/ Fails(s)
Back(s) == Parks(s) \/ \E T, R \in SUBSET Scheds : Ends(s, T, R)
Step(s) == HandsOut(s) \/ Rests(s) \/ ThreadEnds(s) \/ \E E \in SUBSET Scheds : SweepEnds(s, E)
Sleeps(s) == SpinEnds(s) \/ FallsAsleep(s) \/ FutexWaits(s) \/ PollReports(s) \/ SaysRunning(s)
Chance(s) == WaitEnds(s) \/ WakesByItself(s) \/ SweepBegins(s) \/ WaitsTooLong(s)
MainSteps == Settles \/ Waits \/ Joined

Next ==
    \/ \E s \in Scheds : Row(s) \/ Back(s) \/ Step(s) \/ Sleeps(s) \/ Chance(s)
    \/ \E s \in Scheds : WorldStops(s) \/ TakesLockBack(s)
    \/ \E t \in Scheds : MainGives(t)
    \/ FailsOnMain \/ MainSteps \/ Stops

Spec == Init /\ [][Next]_vars

(* An update ends or parks, a thread that may go on goes on, and what the  *)
(* system was told to wake wakes.  No sleep is owed its timeout and no     *)
(* sweep its: what holds, holds without either.  A thread that waits for   *)
(* the lock is owed it however often others take it (acquireLock tries     *)
(* thousands of times, then waits in the system): strong fairness.         *)
GoesOn(s) == Step(s) \/ Sleeps(s)
TakesLock(s) == Back(s) \/ WorldStops(s) \/ TakesLockBack(s)
Fairness ==
    /\ \A s \in Scheds : WF_vars(GoesOn(s)) /\ SF_vars(TakesLock(s))
    /\ WF_vars(MainSteps \/ (pc[Main] # "code" /\ Stops))
FairSpec == Spec /\ Fairness

-----------------------------------------------------------------------------
(* What the threads promise each other.                                    *)

Shape ==
    /\ pc \in [Scheds -> Places]
    /\ state \in [Scheds -> {"running", "spinning", "sleeping", "parked", "poked"}]
    /\ signal \in [Scheds -> BOOLEAN] /\ told \subseteq Scheds
    /\ resting \in [Scheds -> BOOLEAN] /\ heldBack \in [Scheds -> BOOLEAN]
    /\ ready \in [Scheds -> Nat] /\ mail \in [Scheds -> Nat] /\ waits \in [Scheds -> Nat]
    /\ toEnd \in [Scheds -> BOOLEAN]
    /\ sweeper \in Scheds \cup {Nobody}
    /\ mainWaits \in BOOLEAN /\ stopping \in BOOLEAN /\ failed \in BOOLEAN
    /\ given \in 0..MaxGiven /\ sweeps \in 0..MaxSweeps

(* Every variable keeps its shape, and `updating` counts exactly the       *)
(* threads an update has (hand-over, park, step aside, commit and crash    *)
(* each keep it so).                                                       *)
TypeOK == Shape /\ updating = Cardinality({x \in Scheds : pc[x] = "update"})

(* Nothing but a socket or a clock will wake it.                           *)
Asleep(s) == pc[s] = "futex" \/ (pc[s] = "polling" /\ ~signal[s])

(* A thread given something does not sleep on it: one asleep has nothing   *)
(* to hand out, unless a sweep that will wake it holds it back, and main   *)
(* asleep in settle has somebody left to wait for (Turns.stir and idle:    *)
(* "a poke and a sleep cannot miss each other").                           *)
NoLostPoke ==
    \A s \in Scheds : Asleep(s) =>
        /\ \/ ready[s] = 0 /\ mail[s] = 0 /\ ~toEnd[s]
           \/ sweeper \notin {Nobody, s} /\ heldBack[s]
        /\ s = Main => ~OthersRest /\ ~failed
        /\ ~stopping

(* A sweep reads frames, states and outboxes only while no update runs on  *)
(* any thread, and it is one sweep (Turns.stopTurns).                      *)
WorldIsStopped ==
    \A s \in Scheds : pc[s] = "marking" =>
        sweeper = s /\ \A x \in Scheds : pc[x] # "update"

(* main's code goes on from a statement only when no other scheduler runs  *)
(* an update, has one to hand out, or is in a sweep (Turns.settle).        *)
SettledIsQuiet ==
    pc[Main] = "code" =>
        \A x \in Others : /\ pc[x] \notin {"update", "stopping", "marking"}
                          /\ ready[x] = 0 /\ mail[x] = 0 /\ ~toEnd[x]

(* What a scheduler is given, it hands out, with no sleep's timeout.       *)
WorkIsDone ==
    \A s \in Scheds :
        ready[s] + mail[s] > 0 ~> ready[s] + mail[s] = 0 \/ stopping \/ failed

(* main's statement ends, whatever the others do meanwhile.                *)
MainSettles == pc[Main] = "loop" ~> pc[Main] \in {"code", "joining", "done"}

(* A run that stops or fails ends: every thread is joined.                 *)
RunEnds == stopping \/ failed ~> \A s \in Scheds : pc[s] = "done"
=============================================================================
