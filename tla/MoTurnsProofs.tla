--------------------------- MODULE MoTurnsProofs ---------------------------
(***************************************************************************)
(* Proofs about MoTurns, for any number of scheduler threads, messages and *)
(* sweeps: a sweep marks with the world stopped (WorldIsStopped), main goes *)
(* on only when the others are quiet (SettledIsQuiet), and no poke is lost *)
(* to a thread that falls asleep (NoLostPoke).                             *)
(*                                                                         *)
(* Who holds the lock (OneLock) and who sweeps (OneSweep) is enough for    *)
(* the first.  For the others one must know what a resting thread has not   *)
(* been given (RestsOnNothing), unless a sweep holds it back, and that     *)
(* whoever is on its way to sleep without a poke (Unpoked) has nothing to   *)
(* do (NothingMissed): its word says whether it was poked (Words).         *)
(***************************************************************************)
EXTENDS MoTurns, FiniteSetTheorems, TLAPS

(* The runtime's lock has one holder.                                      *)
OneLock == \A x, y \in Scheds : pc[x] \in Locked /\ pc[y] \in Locked => x = y

(* The sweeper is the thread in stopTurns or in the sweep; a thread past   *)
(* its step's sweep knows that there is none.                              *)
OneSweep ==
    \A x \in Scheds :
        /\ pc[x] \in {"stopping", "marking"} <=> sweeper = x
        /\ pc[x] = "looking" => sweeper = Nobody
        /\ heldBack[x] => sweeper \notin {Nobody, x}

(* A thread that rests has nothing to hand out but what a sweep keeps it    *)
(* from, and no process to end but what it is about to.                    *)
RestsOnNothing ==
    \A x \in Scheds : resting[x] =>
        /\ pc[x] # "update"
        /\ (ready[x] = 0 /\ mail[x] = 0) \/ heldBack[x]
        /\ x # Main /\ toEnd[x] => heldBack[x] \/ pc[x] \in {"loop", "done"}

(* What the word says of a thread that is falling asleep or sleeps.        *)
Words ==
    \A x \in Scheds :
        /\ pc[x] = "spinning" => state[x] \in {"spinning", "poked"}
        /\ pc[x] = "falling" => state[x] \in {"parked", "poked"}
        /\ pc[x] = "futex" => state[x] = "parked"
        /\ pc[x] = "polling" => state[x] = "sleeping" \/ (state[x] = "poked" /\ signal[x])

(* A thread that ends has a reason, and main in settle says that it waits. *)
Dozing == {"spinning", "falling", "futex", "polling"}
Reasons ==
    /\ \A x \in Others : pc[x] = "done" => failed \/ stopping
    /\ pc[Main] \in Dozing => mainWaits

(* A thread is going to sleep, or sleeps, and no poke has reached it.      *)
Unpoked(x) == pc[x] \in Dozing /\ state[x] # "poked"

(* It has nothing to do.                                                   *)
NothingToDo(x) ==
    /\ (ready[x] = 0 /\ mail[x] = 0 /\ ~toEnd[x]) \/ heldBack[x]
    /\ x = Main => ~failed /\ (heldBack[Main] \/ \E y \in Others : ~resting[y])
    /\ ~stopping
NothingMissed == \A x \in Scheds : Unpoked(x) => NothingToDo(x)

Holders == OneLock /\ OneSweep /\ WorldIsStopped
Poking == Words /\ Reasons
Quiet == RestsOnNothing /\ NothingMissed /\ SettledIsQuiet
TurnsInv == TypeOK /\ Holders /\ Poking /\ Quiet

USE DEF Locked, Places, Free, Others, Dozing, wordVars, workVars, sweepVars, runVars

-----------------------------------------------------------------------------
(* One thread at most gets or gives up an update in a step, and `updating` *)
(* counts it.                                                              *)
OneMoves(s) ==
    /\ \A x \in Scheds : x # s => (pc'[x] = "update" <=> pc[x] = "update")
    /\ \/ (pc'[s] = "update" <=> pc[s] = "update") /\ updating' = updating
       \/ pc[s] = "update" /\ pc'[s] # "update" /\ updating' = updating - 1
       \/ pc[s] # "update" /\ pc'[s] = "update" /\ updating' = updating + 1

(* Every step keeps the variables' shapes and moves at most one thread     *)
(* into an update or out of one.                                           *)
LEMMA ShapeKept == ASSUME Shape, Next PROVE Shape' /\ \E s \in Scheds : OneMoves(s)
<1> USE SchedsAssumption, GivenAssumption, SweepsAssumption DEF Shape, OneMoves
<1>1. ASSUME NEW s \in Scheds, NEW t \in Scheds, Asks(s, t)
     PROVE  Shape' /\ OneMoves(s)
  BY <1>1 DEF Asks, Stir, Woken, Poked, Signalled, OneMore
<1>2. ASSUME NEW s \in Scheds, NEW T \in SUBSET Scheds, NEW R \in SUBSET Scheds, Ends(s, T, R)
     PROVE  Shape' /\ OneMoves(s)
  <2>1. IsFiniteSet(T) /\ Cardinality(T) \in Nat
    BY FS_Subset, FS_CardinalityType
  <2> QED BY <1>2, <2>1 DEF Ends, Stir, Woken, Poked, Signalled, OneMore
<1>3. ASSUME NEW s \in Scheds, Parks(s)
     PROVE  Shape' /\ OneMoves(s)
  BY <1>3 DEF Parks, OneMore
<1>4. ASSUME NEW s \in Scheds, StepsAside(s)
     PROVE  Shape' /\ OneMoves(s)
  BY <1>4 DEF StepsAside, Stir, Woken, Poked, Signalled, OneMore
<1>5. ASSUME NEW s \in Scheds, Fails(s)
     PROVE  Shape' /\ OneMoves(s)
  BY <1>5 DEF Fails, Stir, Woken, Poked, Signalled
<1>6. ASSUME NEW s \in Scheds, WaitEnds(s)
     PROVE  Shape' /\ OneMoves(s)
  BY <1>6 DEF WaitEnds, Looks, Refused, Ended, OwnEnded, Stir, Woken, Poked, Signalled, OneMore
<1>7. ASSUME NEW s \in Scheds, HandsOut(s)
     PROVE  Shape' /\ OneMoves(s)
  BY <1>7 DEF HandsOut, Looks, Refused, Ended, OwnEnded
<1>8. ASSUME NEW s \in Scheds, Rests(s)
     PROVE  Shape' /\ OneMoves(s)
  BY <1>8 DEF Rests, Looks, Refused, Ended, OwnEnded, Nothing, RestTells, Idles, IdlesAt,
              ReturnsEarly, Woken, Poked, Signalled
<1>9. ASSUME Waits
     PROVE  Shape' /\ OneMoves(Main)
  BY <1>9 DEF Waits, Looks, Refused, Ended, OwnEnded, Nothing, OthersRest, Idles, IdlesAt,
              ReturnsEarly
<1>10. ASSUME NEW s \in Scheds, ThreadEnds(s)
     PROVE  Shape' /\ OneMoves(s)
  BY <1>10 DEF ThreadEnds, Ended, FailureTells, Stir, Woken, Poked, Signalled
<1>11. ASSUME NEW s \in Scheds, SpinEnds(s) \/ PollReports(s)
     PROVE  Shape' /\ OneMoves(s)
  BY <1>11 DEF SpinEnds, PollReports
<1>12. ASSUME NEW s \in Scheds, FallsAsleep(s)
     PROVE  Shape' /\ OneMoves(s)
  BY <1>12 DEF FallsAsleep
<1>13. ASSUME NEW s \in Scheds, FutexWaits(s) \/ WakesByItself(s)
     PROVE  Shape' /\ OneMoves(s)
  BY <1>13 DEF FutexWaits, WakesByItself
<1>14. ASSUME NEW s \in Scheds, SaysRunning(s) \/ TakesLockBack(s)
     PROVE  Shape' /\ OneMoves(s)
  BY <1>14 DEF SaysRunning, TakesLockBack
<1>15. ASSUME NEW s \in Scheds, SweepBegins(s)
     PROVE  Shape' /\ OneMoves(s)
  BY <1>15 DEF SweepBegins, Ended, OwnEnded, Refused
<1>16. ASSUME NEW s \in Scheds, WorldStops(s)
     PROVE  Shape' /\ OneMoves(s)
  BY <1>16 DEF WorldStops
<1>17. ASSUME NEW s \in Scheds, WaitsTooLong(s)
     PROVE  Shape' /\ OneMoves(s)
  BY <1>17 DEF WaitsTooLong, Starts, Stir, Woken, Poked, Signalled
<1>18. ASSUME NEW s \in Scheds, NEW E \in SUBSET Scheds, SweepEnds(s, E)
     PROVE  Shape' /\ OneMoves(s)
  BY <1>18 DEF SweepEnds, Starts, Stir, Woken, Poked, Signalled
<1>19. ASSUME NEW t \in Scheds, MainGives(t)
     PROVE  Shape' /\ OneMoves(Main)
  BY <1>19 DEF MainGives, Stir, Woken, Poked, Signalled, OneMore
<1>20. ASSUME Stops
     PROVE  Shape' /\ OneMoves(Main)
  BY <1>20 DEF Stops, Woken, Poked
<1>21. ASSUME FailsOnMain \/ Settles \/ Joined
     PROVE  Shape' /\ OneMoves(Main)
  BY <1>21 DEF FailsOnMain, Settles, Joined, OthersRest, Nothing, Looks, Refused, Ended, OwnEnded
<1> HIDE DEF Shape, OneMoves
<1> QED BY <1>1, <1>2, <1>3, <1>4, <1>5, <1>6, <1>7, <1>8, <1>9, <1>10, <1>11, <1>12, <1>13,
           <1>14, <1>15, <1>16, <1>17, <1>18, <1>19, <1>20, <1>21
     DEF Next, Row, Back, Step, Sleeps, Chance, MainSteps

(* Every step keeps one holder of the lock, one sweep, and the world still *)
(* while it marks.                                                         *)
LEMMA HoldersKept == ASSUME TypeOK, Holders, Next PROVE Holders'
<1> USE SchedsAssumption DEF TypeOK, Shape, Holders, OneLock, OneSweep, WorldIsStopped
<1>1. ASSUME NEW s \in Scheds, NEW t \in Scheds, Asks(s, t)
     PROVE  Holders'
  BY <1>1 DEF Asks, Stir, Woken, Poked, Signalled, OneMore
<1>2. ASSUME NEW s \in Scheds, NEW T \in SUBSET Scheds, NEW R \in SUBSET Scheds, Ends(s, T, R)
     PROVE  Holders'
  BY <1>2 DEF Ends, Stir, Woken, Poked, Signalled, OneMore
<1>3. ASSUME NEW s \in Scheds, Parks(s)
     PROVE  Holders'
  BY <1>3 DEF Parks, OneMore
<1>4. ASSUME NEW s \in Scheds, StepsAside(s)
     PROVE  Holders'
  BY <1>4 DEF StepsAside, Stir, Woken, Poked, Signalled, OneMore
<1>5. ASSUME NEW s \in Scheds, Fails(s)
     PROVE  Holders'
  BY <1>5 DEF Fails, Stir, Woken, Poked, Signalled
<1>6. ASSUME NEW s \in Scheds, WaitEnds(s)
     PROVE  Holders'
  BY <1>6 DEF WaitEnds, Looks, Refused, Ended, OwnEnded, Stir, Woken, Poked, Signalled, OneMore
<1>7. ASSUME NEW s \in Scheds, HandsOut(s)
     PROVE  Holders'
  BY <1>7 DEF HandsOut, Looks, Refused, Ended, OwnEnded
<1>8. ASSUME NEW s \in Scheds, Rests(s)
     PROVE  Holders'
  BY <1>8 DEF Rests, Looks, Refused, Ended, OwnEnded, Nothing, RestTells, Idles, IdlesAt,
              ReturnsEarly, Woken, Poked, Signalled
<1>9. ASSUME Waits
     PROVE  Holders'
  BY <1>9 DEF Waits, Looks, Refused, Ended, OwnEnded, Nothing, OthersRest, Idles, IdlesAt,
              ReturnsEarly
<1>10. ASSUME NEW s \in Scheds, ThreadEnds(s)
     PROVE  Holders'
  BY <1>10 DEF ThreadEnds, Ended, FailureTells, Stir, Woken, Poked, Signalled
<1>11. ASSUME NEW s \in Scheds, SpinEnds(s) \/ PollReports(s)
     PROVE  Holders'
  BY <1>11 DEF SpinEnds, PollReports
<1>12. ASSUME NEW s \in Scheds, FallsAsleep(s)
     PROVE  Holders'
  BY <1>12 DEF FallsAsleep
<1>13. ASSUME NEW s \in Scheds, FutexWaits(s) \/ WakesByItself(s)
     PROVE  Holders'
  BY <1>13 DEF FutexWaits, WakesByItself
<1>14. ASSUME NEW s \in Scheds, SaysRunning(s) \/ TakesLockBack(s)
     PROVE  Holders'
  BY <1>14 DEF SaysRunning, TakesLockBack
<1>15. ASSUME NEW s \in Scheds, SweepBegins(s)
     PROVE  Holders'
  BY <1>15 DEF SweepBegins, Ended, OwnEnded, Refused
<1>16. ASSUME NEW s \in Scheds, WorldStops(s)
     PROVE  Holders'
  <2>1. PICK U : U = {x \in Scheds : pc[x] = "update"}
    OBVIOUS
  <2>2. IsFiniteSet(U)
    BY <2>1, FS_Subset
  <2>3. U = {}
    BY <1>16, <2>1, <2>2, FS_EmptySet DEF WorldStops, Still
  <2> QED BY <1>16, <2>1, <2>3 DEF WorldStops
<1>17. ASSUME NEW s \in Scheds, WaitsTooLong(s)
     PROVE  Holders'
  BY <1>17 DEF WaitsTooLong, Starts, Stir, Woken, Poked, Signalled
<1>18. ASSUME NEW s \in Scheds, NEW E \in SUBSET Scheds, SweepEnds(s, E)
     PROVE  Holders'
  BY <1>18 DEF SweepEnds, Starts, Stir, Woken, Poked, Signalled
<1>19. ASSUME NEW t \in Scheds, MainGives(t)
     PROVE  Holders'
  BY <1>19 DEF MainGives, Stir, Woken, Poked, Signalled, OneMore
<1>20. ASSUME Stops
     PROVE  Holders'
  BY <1>20 DEF Stops, Woken, Poked
<1>21. ASSUME FailsOnMain \/ Settles \/ Joined
     PROVE  Holders'
  BY <1>21 DEF FailsOnMain, Settles, Joined, OthersRest, Nothing, Looks, Refused, Ended, OwnEnded
<1> HIDE DEF TypeOK, Shape, Holders, OneLock, OneSweep, WorldIsStopped
<1> QED BY <1>1, <1>2, <1>3, <1>4, <1>5, <1>6, <1>7, <1>8, <1>9, <1>10, <1>11, <1>12, <1>13,
           <1>14, <1>15, <1>16, <1>17, <1>18, <1>19, <1>20, <1>21
     DEF Next, Row, Back, Step, Sleeps, Chance, MainSteps

(* Every step keeps the words true of the threads.                         *)
LEMMA PokingKept == ASSUME Shape, Poking, Next PROVE Poking'
<1> USE SchedsAssumption DEF Shape, Poking, Words, Reasons
<1>1. ASSUME NEW s \in Scheds, NEW t \in Scheds, Asks(s, t)
     PROVE  Poking'
  BY <1>1 DEF Asks, Stir, Woken, Poked, Signalled, OneMore
<1>2. ASSUME NEW s \in Scheds, NEW T \in SUBSET Scheds, NEW R \in SUBSET Scheds, Ends(s, T, R)
     PROVE  Poking'
  BY <1>2 DEF Ends, Stir, Woken, Poked, Signalled, OneMore
<1>3. ASSUME NEW s \in Scheds, Parks(s)
     PROVE  Poking'
  BY <1>3 DEF Parks, OneMore
<1>4. ASSUME NEW s \in Scheds, StepsAside(s)
     PROVE  Poking'
  BY <1>4 DEF StepsAside, Stir, Woken, Poked, Signalled, OneMore
<1>5. ASSUME NEW s \in Scheds, Fails(s)
     PROVE  Poking'
  BY <1>5 DEF Fails, Stir, Woken, Poked, Signalled
<1>6. ASSUME NEW s \in Scheds, WaitEnds(s)
     PROVE  Poking'
  BY <1>6 DEF WaitEnds, Looks, Refused, Ended, OwnEnded, Stir, Woken, Poked, Signalled, OneMore
<1>7. ASSUME NEW s \in Scheds, HandsOut(s)
     PROVE  Poking'
  BY <1>7 DEF HandsOut, Looks, Refused, Ended, OwnEnded
<1>8. ASSUME NEW s \in Scheds, Rests(s)
     PROVE  Poking'
  BY <1>8 DEF Rests, Looks, Refused, Ended, OwnEnded, Nothing, RestTells, Idles, IdlesAt,
              ReturnsEarly, Woken, Poked, Signalled
<1>9. ASSUME Waits
     PROVE  Poking'
  BY <1>9 DEF Waits, Looks, Refused, Ended, OwnEnded, Nothing, OthersRest, Idles, IdlesAt,
              ReturnsEarly
<1>10. ASSUME NEW s \in Scheds, ThreadEnds(s)
     PROVE  Poking'
  BY <1>10 DEF ThreadEnds, Ended, FailureTells, Stir, Woken, Poked, Signalled
<1>11. ASSUME NEW s \in Scheds, SpinEnds(s) \/ PollReports(s)
     PROVE  Poking'
  BY <1>11 DEF SpinEnds, PollReports
<1>12. ASSUME NEW s \in Scheds, FallsAsleep(s)
     PROVE  Poking'
  BY <1>12 DEF FallsAsleep
<1>13. ASSUME NEW s \in Scheds, FutexWaits(s) \/ WakesByItself(s)
     PROVE  Poking'
  BY <1>13 DEF FutexWaits, WakesByItself
<1>14. ASSUME NEW s \in Scheds, SaysRunning(s) \/ TakesLockBack(s)
     PROVE  Poking'
  BY <1>14 DEF SaysRunning, TakesLockBack
<1>15. ASSUME NEW s \in Scheds, SweepBegins(s)
     PROVE  Poking'
  BY <1>15 DEF SweepBegins, Ended, OwnEnded, Refused
<1>16. ASSUME NEW s \in Scheds, WorldStops(s)
     PROVE  Poking'
  BY <1>16 DEF WorldStops
<1>17. ASSUME NEW s \in Scheds, WaitsTooLong(s)
     PROVE  Poking'
  BY <1>17 DEF WaitsTooLong, Starts, Stir, Woken, Poked, Signalled
<1>18. ASSUME NEW s \in Scheds, NEW E \in SUBSET Scheds, SweepEnds(s, E)
     PROVE  Poking'
  BY <1>18 DEF SweepEnds, Starts, Stir, Woken, Poked, Signalled
<1>19. ASSUME NEW t \in Scheds, MainGives(t)
     PROVE  Poking'
  BY <1>19 DEF MainGives, Stir, Woken, Poked, Signalled, OneMore
<1>20. ASSUME Stops
     PROVE  Poking'
  BY <1>20 DEF Stops, Woken, Poked
<1>21. ASSUME FailsOnMain \/ Settles \/ Joined
     PROVE  Poking'
  BY <1>21 DEF FailsOnMain, Settles, Joined, OthersRest, Nothing, Looks, Refused, Ended, OwnEnded
<1> HIDE DEF Shape, Poking, Words, Reasons
<1> QED BY <1>1, <1>2, <1>3, <1>4, <1>5, <1>6, <1>7, <1>8, <1>9, <1>10, <1>11, <1>12, <1>13,
           <1>14, <1>15, <1>16, <1>17, <1>18, <1>19, <1>20, <1>21
     DEF Next, Row, Back, Step, Sleeps, Chance, MainSteps

(* Every step that gives a thread something, or takes away the reason for  *)
(* its sleep, pokes it; and none that goes to sleep has something to do.   *)
LEMMA QuietKept == ASSUME Shape, Holders, Poking, Quiet, Next PROVE Quiet'
<1> USE SchedsAssumption DEF Shape, Holders, OneLock, OneSweep, Poking, Words, Reasons, Quiet,
           RestsOnNothing, NothingMissed, NothingToDo, SettledIsQuiet,
           Unpoked
<1>1. ASSUME NEW s \in Scheds, NEW t \in Scheds, Asks(s, t)
     PROVE  Quiet'
  BY <1>1 DEF Asks, Stir, Woken, Poked, Signalled, OneMore
<1>2. ASSUME NEW s \in Scheds, NEW T \in SUBSET Scheds, NEW R \in SUBSET Scheds, Ends(s, T, R)
     PROVE  Quiet'
  BY <1>2 DEF Ends, Stir, Woken, Poked, Signalled, OneMore
<1>3. ASSUME NEW s \in Scheds, Parks(s)
     PROVE  Quiet'
  BY <1>3 DEF Parks, OneMore
<1>4. ASSUME NEW s \in Scheds, StepsAside(s)
     PROVE  Quiet'
  BY <1>4 DEF StepsAside, Stir, Woken, Poked, Signalled, OneMore
<1>5. ASSUME NEW s \in Scheds, Fails(s)
     PROVE  Quiet'
  BY <1>5 DEF Fails, Stir, Woken, Poked, Signalled
<1>6. ASSUME NEW s \in Scheds, WaitEnds(s)
     PROVE  Quiet'
  BY <1>6 DEF WaitEnds, Looks, Refused, Ended, OwnEnded, Stir, Woken, Poked, Signalled, OneMore
<1>7. ASSUME NEW s \in Scheds, HandsOut(s)
     PROVE  Quiet'
  BY <1>7 DEF HandsOut, Looks, Refused, Ended, OwnEnded
<1>8. ASSUME NEW s \in Scheds, Rests(s)
     PROVE  Quiet'
  <2> USE <1>8 DEF Rests, Looks, Refused, Ended, OwnEnded, Nothing, RestTells, Woken, Poked,
                   Signalled
  <2>1. ASSUME NEW x \in Scheds \ {s}, resting'[x]
        PROVE  /\ pc'[x] # "update"
               /\ (ready'[x] = 0 /\ mail'[x] = 0) \/ heldBack'[x]
               /\ x # Main /\ toEnd'[x] => heldBack'[x] \/ pc'[x] \in {"loop", "done"}
    BY <2>1
  <2>2. /\ pc'[s] # "update"
        /\ (ready'[s] = 0 /\ mail'[s] = 0) \/ heldBack'[s]
        /\ toEnd'[s] => heldBack'[s] \/ pc'[s] = "loop"
    <3>1. pc'[s] = IdlesAt(s) /\ heldBack'[s] = (heldBack[s] \/ Refused(s))
      OBVIOUS
    <3>2. toEnd'[s] => Refused(s) \/ IdlesAt(s) = "loop"
      BY DEF IdlesAt, ReturnsEarly
    <3> QED BY <3>1, <3>2 DEF IdlesAt
  <2>3. RestsOnNothing'
    <3> HIDE DEF Rests
    <3> QED BY <2>1, <2>2 DEF RestsOnNothing
  <2>4. SettledIsQuiet'
    BY DEF Idles, IdlesAt, ReturnsEarly
  <2>5. ASSUME ~ReturnsEarly(s) PROVE Unpoked(s)' => NothingToDo(s)'
    BY <2>5 DEF Idles, IdlesAt, ReturnsEarly
  <2>6. ASSUME ReturnsEarly(s) PROVE ~Unpoked(s)'
    BY <2>6 DEF Idles, IdlesAt
  <2>7. ASSUME NEW x \in Scheds \ {s}, Unpoked(x)' PROVE NothingToDo(x)'
    <3>1. Unpoked(x) /\ x # Main
      BY <2>7 DEF Idles, IdlesAt
    <3> QED BY <3>1
  <2>8. NothingMissed'
    BY <2>5, <2>6, <2>7 DEF NothingMissed
  <2> QED BY <2>3, <2>4, <2>8
<1>9. ASSUME Waits
     PROVE  Quiet'
  <2> USE <1>9 DEF Waits, Looks, Refused, Ended, OwnEnded, Nothing
  <2>1. (RestsOnNothing /\ SettledIsQuiet)'
    BY DEF Idles, IdlesAt, ReturnsEarly
  <2>2. ASSUME ReturnsEarly(Main) PROVE ~Unpoked(Main)'
    BY <2>2 DEF Idles, IdlesAt
  <2>3. ASSUME ~ReturnsEarly(Main) PROVE NothingToDo(Main)'
    <3>1. CASE sweeper \notin {Nobody, Main} /\ pc[Main] = "loop"
      <4>1. Refused(Main) /\ ~failed /\ ~stopping
        BY <2>3, <3>1 DEF ReturnsEarly
      <4>2. heldBack'[Main] /\ ~failed' /\ ~stopping'
        <5>1. heldBack'[Main] = (heldBack[Main] \/ Refused(Main))
          OBVIOUS
        <5>2. failed' = failed /\ stopping' = stopping
          OBVIOUS
        <5> HIDE DEF Waits, Looks, Refused, Ended, OwnEnded, Nothing, Quiet
        <5>3. heldBack'[Main]
          BY <4>1, <5>1, Zenon
        <5> QED BY <4>1, <5>2, <5>3, Zenon
      <4> QED BY <4>2
    <3>2. CASE sweeper = Nobody
      <4>1. PICK y \in Others : ~(resting[y] /\ ready[y] = 0 /\ ~toEnd[y])
        BY <3>2 DEF OthersRest
      <4>2. ~resting[y]
        BY <4>1, <2>3, <3>2 DEF ReturnsEarly
      <4>3. ~failed /\ ~stopping /\ ready[Main] = 0 /\ mail[Main] = 0 /\ ~toEnd'[Main]
        BY <2>3, <3>2 DEF ReturnsEarly
      <4> QED BY <4>1, <4>2, <4>3
    <3> QED BY <3>1, <3>2
  <2>4. ASSUME NEW x \in Others, Unpoked(x)' PROVE NothingToDo(x)'
    BY <2>4 DEF Idles, IdlesAt
  <2>5. NothingMissed'
    BY <2>2, <2>3, <2>4
  <2> QED BY <2>1, <2>5
<1>10. ASSUME NEW s \in Scheds, ThreadEnds(s)
     PROVE  Quiet'
  BY <1>10 DEF ThreadEnds, Ended, FailureTells, Stir, Woken, Poked, Signalled
<1>11. ASSUME NEW s \in Scheds, SpinEnds(s) \/ PollReports(s)
     PROVE  Quiet'
  BY <1>11 DEF SpinEnds, PollReports
<1>12. ASSUME NEW s \in Scheds, FallsAsleep(s)
     PROVE  Quiet'
  BY <1>12 DEF FallsAsleep
<1>13. ASSUME NEW s \in Scheds, FutexWaits(s) \/ WakesByItself(s)
     PROVE  Quiet'
  BY <1>13 DEF FutexWaits, WakesByItself
<1>14. ASSUME NEW s \in Scheds, SaysRunning(s) \/ TakesLockBack(s)
     PROVE  Quiet'
  BY <1>14 DEF SaysRunning, TakesLockBack
<1>15. ASSUME NEW s \in Scheds, SweepBegins(s)
     PROVE  Quiet'
  BY <1>15 DEF SweepBegins, Ended, OwnEnded, Refused
<1>16. ASSUME NEW s \in Scheds, WorldStops(s)
     PROVE  Quiet'
  BY <1>16 DEF WorldStops
<1>17. ASSUME NEW s \in Scheds, WaitsTooLong(s)
     PROVE  Quiet'
  BY <1>17 DEF WaitsTooLong, Starts, Stir, Woken, Poked, Signalled
<1>18. ASSUME NEW s \in Scheds, NEW E \in SUBSET Scheds, SweepEnds(s, E)
     PROVE  Quiet'
  BY <1>18 DEF SweepEnds, Starts, Stir, Woken, Poked, Signalled
<1>19. ASSUME NEW t \in Scheds, MainGives(t)
     PROVE  Quiet'
  BY <1>19 DEF MainGives, Stir, Woken, Poked, Signalled, OneMore
<1>20. ASSUME Stops
     PROVE  Quiet'
  BY <1>20 DEF Stops, Woken, Poked
<1>21. ASSUME FailsOnMain \/ Settles \/ Joined
     PROVE  Quiet'
  BY <1>21 DEF FailsOnMain, Settles, Joined, OthersRest, Nothing, Looks, Refused, Ended, OwnEnded
<1> HIDE DEF Shape, Holders, OneLock, OneSweep, Poking, Words, Reasons, Quiet,
           RestsOnNothing, NothingMissed, NothingToDo, SettledIsQuiet,
           Unpoked
<1> QED BY <1>1, <1>2, <1>3, <1>4, <1>5, <1>6, <1>7, <1>8, <1>9, <1>10, <1>11, <1>12, <1>13,
           <1>14, <1>15, <1>16, <1>17, <1>18, <1>19, <1>20, <1>21
     DEF Next, Row, Back, Step, Sleeps, Chance, MainSteps

-----------------------------------------------------------------------------
(* So `updating` still counts the updates.                                 *)
LEMMA CountKept ==
    ASSUME TypeOK, Shape', NEW s \in Scheds, OneMoves(s)
    PROVE  TypeOK'
<1>1. PICK U : U = {x \in Scheds : pc[x] = "update"}
  OBVIOUS
<1>2. PICK V : V = {x \in Scheds : pc'[x] = "update"}
  OBVIOUS
<1>3. IsFiniteSet(U) /\ updating = Cardinality(U) /\ Cardinality(U) \in Nat
  BY <1>1, SchedsAssumption, FS_Subset, FS_CardinalityType DEF TypeOK
<1>4. CASE V = U /\ updating' = updating
  BY <1>2, <1>3, <1>4 DEF TypeOK
<1>5. CASE s \in U /\ V = U \ {s} /\ updating' = updating - 1
  <2>1. Cardinality(U \ {s}) = Cardinality(U) - 1
    BY <1>3, <1>5, FS_RemoveElement
  <2> QED BY <1>2, <1>3, <1>5, <2>1 DEF TypeOK
<1>6. CASE s \notin U /\ V = U \cup {s} /\ updating' = updating + 1
  <2>1. Cardinality(U \cup {s}) = Cardinality(U) + 1
    BY <1>3, <1>6, FS_AddElement
  <2> QED BY <1>2, <1>3, <1>6, <2>1 DEF TypeOK
<1> QED BY <1>1, <1>2, <1>4, <1>5, <1>6 DEF OneMoves

(* The invariant holds at first, and every step keeps it.                  *)
LEMMA TurnsInitial == Init => TurnsInv
<1> SUFFICES ASSUME Init PROVE TurnsInv
  OBVIOUS
<1> USE SchedsAssumption, GivenAssumption, SweepsAssumption DEF Init
<1>1. {x \in Scheds : pc[x] = "update"} = {}
  OBVIOUS
<1>2. Shape
  <2>1. pc \in [Scheds -> Places] /\ told \subseteq Scheds
    OBVIOUS
  <2>2. given \in 0..MaxGiven /\ sweeps \in 0..MaxSweeps
    OBVIOUS
  <2>3. /\ state \in [Scheds -> {"running", "spinning", "sleeping", "parked", "poked"}]
        /\ signal \in [Scheds -> BOOLEAN] /\ resting \in [Scheds -> BOOLEAN]
        /\ heldBack \in [Scheds -> BOOLEAN] /\ toEnd \in [Scheds -> BOOLEAN]
        /\ ready \in [Scheds -> Nat] /\ mail \in [Scheds -> Nat] /\ waits \in [Scheds -> Nat]
    OBVIOUS
  <2> QED BY <2>1, <2>2, <2>3 DEF Shape
<1>3. TypeOK
  BY <1>1, <1>2, FS_EmptySet DEF TypeOK
<1>4. Holders
  BY DEF Holders, OneLock, OneSweep, WorldIsStopped
<1>5. Poking /\ Quiet
  BY DEF Poking, Words, Reasons, Quiet, RestsOnNothing, NothingMissed, Unpoked, SettledIsQuiet
<1> QED BY <1>3, <1>4, <1>5 DEF TurnsInv

LEMMA TurnsKept == TurnsInv /\ [Next]_vars => TurnsInv'
<1> SUFFICES ASSUME TurnsInv, [Next]_vars PROVE TurnsInv'
  OBVIOUS
<1>1. CASE Next
  <2>1. Shape' /\ \E s \in Scheds : OneMoves(s)
    BY <1>1, ShapeKept DEF TurnsInv, TypeOK
  <2>2. TypeOK'
    BY <2>1, CountKept DEF TurnsInv
  <2>3. Holders' /\ Poking' /\ Quiet'
    BY <1>1, HoldersKept, PokingKept, QuietKept DEF TurnsInv, TypeOK
  <2> QED BY <2>2, <2>3 DEF TurnsInv
<1>2. CASE UNCHANGED vars
  BY <1>2 DEF vars, TurnsInv, TypeOK, Shape, Holders, OneLock, OneSweep, WorldIsStopped, Poking,
              Words, Reasons, Quiet, RestsOnNothing, NothingMissed, NothingToDo, Unpoked,
              SettledIsQuiet
<1> QED BY <1>1, <1>2

LEMMA TurnsInvariant == Spec => []TurnsInv
BY TurnsInitial, TurnsKept, PTL DEF Spec

(* The variables keep their shapes, and `updating` is the number of        *)
(* updates on their threads, whatever the number of threads.               *)
THEOREM TurnsTypes == Spec => []TypeOK
<1>1. TurnsInv => TypeOK
  BY DEF TurnsInv
<1> QED BY <1>1, TurnsInvariant, PTL

(* A sweep marks with no update on any thread, and no other sweep marks:   *)
(* stopTurns and step keep it so for any number of schedulers.             *)
THEOREM TurnsStopped == Spec => []WorldIsStopped
<1>1. TurnsInv => WorldIsStopped
  BY DEF TurnsInv, Holders
<1> QED BY <1>1, TurnsInvariant, PTL

(* main's code goes on from a settle only when every other scheduler is    *)
(* quiet, for any number of them.                                          *)
THEOREM TurnsSettled == Spec => []SettledIsQuiet
<1>1. TurnsInv => SettledIsQuiet
  BY DEF TurnsInv, Quiet
<1> QED BY <1>1, TurnsInvariant, PTL

(* No poke is lost: a thread asleep has nothing to hand out but what a     *)
(* sweep that will poke it holds back, and main asleep has somebody left   *)
(* to wait for, for any number of schedulers and messages.                 *)
THEOREM TurnsPoke == Spec => []NoLostPoke
<1>1. TurnsInv => NoLostPoke
  <2> SUFFICES ASSUME TurnsInv, NEW s \in Scheds, Asleep(s)
      PROVE  /\ \/ ready[s] = 0 /\ mail[s] = 0 /\ ~toEnd[s]
                \/ sweeper \notin {Nobody, s} /\ heldBack[s]
             /\ s = Main => ~OthersRest /\ ~failed
             /\ ~stopping
    BY DEF NoLostPoke
  <2>1. Unpoked(s)
    BY DEF Asleep, Unpoked, TurnsInv, Poking, Words
  <2>2. NothingToDo(s)
    BY <2>1 DEF TurnsInv, Quiet, NothingMissed
  <2>3. \A x \in Scheds : heldBack[x] => sweeper \notin {Nobody, x}
    BY DEF TurnsInv, Holders, OneSweep
  <2> QED BY <2>2, <2>3 DEF NothingToDo, OthersRest
<1> QED BY <1>1, TurnsInvariant, PTL
=============================================================================
