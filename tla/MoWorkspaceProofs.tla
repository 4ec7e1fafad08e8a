-------------------------- MODULE MoWorkspaceProofs --------------------------
(***************************************************************************)
(* Proofs about MoWorkspace, for any set of executions: what the runs check *)
(* of a workspace, its executions and its recovery holds in every state.    *)
(*                                                                         *)
(* One invariant carries all of it (IInv), because each part leans on the   *)
(* others.  The registration lock admits one call (LockInv) and a recovery  *)
(* closes the workspace before it starts (BarInv), so a call meets an       *)
(* execution only at the stage the call before it left (LifeInv): nothing   *)
(* runs once a proof is written, and no directory goes under a unit.  What  *)
(* may still run is the active execution (MountInv, OwnerInv), and the      *)
(* owner completes it before the next, so that every dispatched execution   *)
(* is active, completed or recorded (AccountInv); a recovery that finds no  *)
(* directory therefore knows what became of it (RecoveryInv).               *)
(***************************************************************************)
EXTENDS MoWorkspace, TLAPS

(* Nothing of e is on the machine.                                         *)
Gone(e) == e \notin root /\ UnitsAbsent(e) /\ box[e] = "none"

(* The owner is about an execution, and the recovery about a row.          *)
RunIs ==
    host \in {"intent", "reserving", "reserved", "dispatched", "booting", "collecting",
              "completing", "disposing"} => run \in Execs
AtIs == rec \in {"finalizing", "disposing"} => at \in Execs
ShapeInv == TypeOK /\ RunIs /\ AtIs

(* What the owner's place says of its call, its rows and its execution.    *)
CallIs ==
    /\ reply # "none" => req = NoRequest
    /\ req # NoRequest => host \in Waiting \cup {"gone"}
    /\ host = "reserving" => req \in {NoRequest, [op |-> "reserve", exec |-> run]}
    /\ host = "completing" => req \in {NoRequest, [op |-> "complete", exec |-> run]}
    /\ req.op = "reserve" => req.exec \in rows \ dispatched
RowsAre ==
    /\ \A e \in Execs : boot[e] # "idle" => e \in dispatched
    /\ dispatched \subseteq rows
    /\ run # None => run \in rows
    /\ act # None => act \in rows
    /\ completed \subseteq dispatched
RunIsNew ==
    /\ host \in {"intent", "reserving", "reserved"} => run \notin dispatched
    /\ host = "dispatched" => run \in dispatched /\ boot[run] = "idle"
    /\ (host = "reserving" /\ reply = "ok") \/ host \in {"reserved", "dispatched"} =>
          act = run /\ ~started
DisposedIsCompleted ==
    /\ host = "completing" /\ reply = "ok" => run \in completed
    /\ \A e \in Execs : disp[e] = "called" => e \in completed
OwnerInv == CallIs /\ RowsAre /\ RunIsNew /\ DisposedIsCompleted

(* The registration lock: one call at a time, or the recovery's own.       *)
BootAlone ==
    \A e \in Execs : boot[e] \in BootSteps =>
        /\ rec = "off"
        /\ \A o \in Execs : fin[o] \notin FinSteps /\ disp[o] # "removing"
        /\ \A o \in Execs : boot[o] \in BootSteps => o = e
FinAlone ==
    \A e \in Execs : fin[e] \in FinSteps =>
        /\ rec = "off" \/ (rec = "finalizing" /\ at = e)
        /\ \A o \in Execs : disp[o] # "removing"
        /\ \A o \in Execs : fin[o] \in FinSteps => o = e
DispAlone ==
    \A e \in Execs : disp[e] = "removing" =>
        /\ rec = "off" \/ (rec = "disposing" /\ at = e)
        /\ \A o \in Execs : disp[o] = "removing" => o = e
LockInv == BootAlone /\ FinAlone /\ DispAlone

(* A recovery begins past the owner's end, and no bootstrap past that.     *)
BarInv ==
    /\ host # "gone" => terminal = "none"
    /\ terminal = "none" => rec = "off" /\ record = {} /\ ~confirmed
    /\ terminal # "none" => \A e \in Execs : boot[e] \notin BootSteps

(* How far an execution can be, by its bootstrap, its finalize, its dispose. *)
BootStages ==
    \A e \in Execs :
        /\ boot[e] # "over" => /\ proof[e] = "none" /\ e \notin completed
                               /\ sup[e] = "off" /\ box[e] = "none"
        /\ boot[e] \notin {"over", "timed"} => timer[e] = "none" /\ reaper[e] = "off"
        /\ boot[e] \in {"idle", "called"} => e \notin root
        /\ boot[e] \in BootSteps => e \in root
        /\ boot[e] \in {"written", "authorized", "timed"} => manifest[e] # "none"
FinStages ==
    \A e \in Execs :
        /\ fin[e] \in FinSteps => boot[e] = "over"
        /\ fin[e] \in FinSteps \ {"stop"} => sup[e] = "off"
        /\ fin[e] \in {"prove", "disarm", "settle"} => box[e] = "none"
        /\ fin[e] \in {"disarm", "settle"} => e \in root
        /\ fin[e] = "settle" => timer[e] = "none" /\ reaper[e] = "off"
DispStages ==
    \A e \in Execs : disp[e] = "removing" =>
        UnitsAbsent(e) /\ box[e] = "none" /\ e \in completed \cup record
ProofStays ==
    \A e \in Execs :
        /\ e \notin root => proof[e] = "none"
        /\ proof[e] = "full" => UnitsAbsent(e)
LifeInv == BootStages /\ FinStages /\ DispStages /\ ProofStays /\ ProofIsFinal /\ UnitsHaveFiles

(* The deadline's timer and its reaper.                                    *)
Watched(e) == timer[e] = "armed" \/ reaper[e] \in {"kill", "remove"} \/ reaped[e] = "unconfirmed"
WatchInv ==
    \A e \in Execs :
        /\ boot[e] = "timed" \/ sup[e] \in {"create", "register", "check"} =>
              e \in late \/ timer[e] = "armed"
        /\ reaper[e] # "off" => timer[e] = "loaded" /\ e \in late
        /\ sup[e] = "start" /\ box[e] = "created" => Watched(e)
        /\ box[e] = "running" => Watched(e)

(* The workspace's records.                                                *)
StateInv ==
    /\ wroot \/ tail # "none" \/ act # None => owner = "whole"
    /\ tail # "none" => act = None
    /\ tail # "none" /\ terminal = "none" => phase \in {"deleted", "quarantined"}
    /\ tail = "remove" => retired = "whole"
    /\ act # None /\ terminal = "none" => HasState

(* What may still run has its mounts.                                      *)
Live(e) == box[e] # "none" \/ sup[e] # "off" \/ boot[e] \in {"authorized", "timed"}
Needs(e) == IF e \in Readonly THEN {"storage", "snapshot"} ELSE {"storage"}
MountInv ==
    /\ "snapshot" \in mounts => "storage" \in mounts
    /\ phase = "ready" => "snapshot" \notin mounts
    /\ act \in Execs \ Readonly => "snapshot" \notin mounts
    /\ \A e \in Execs : Live(e) => mounts = Needs(e) /\ (terminal = "none" => act = e)

(* What was seen of a candidate is what it did.                            *)
VerdictInv ==
    /\ \A e \in Execs :
          /\ observation[e] = "success" => e \in finished
          /\ verdict[e] = "success" => e \in finished /\ sup[e] \in {"cleanup", "observe"}
    /\ host = "collecting" /\ seen = "success" /\ fin[run] # "idle" => run \in finished

(* The rows a recovery is done with, and what is left after it.            *)
DoneWith(e) == Gone(e) /\ (e \in dispatched => e \in record)
RecoveryInv ==
    /\ rec \in {"rows", "finalizing", "disposing"} => \A e \in Execs \ todo : DoneWith(e)
    /\ rec = "disposing" => /\ at \in record /\ UnitsAbsent(at) /\ box[at] = "none"
                            /\ disp[at] = "ok" => at \notin root
    /\ rec = "removing" => mounts = {} /\ \A e \in Execs : DoneWith(e)
    /\ ConfirmedIsClean

(* A dispatched execution is completed, recorded, or the active one.       *)
AccountInv ==
    /\ \A e \in dispatched \ (record \cup completed) :
          HasState /\ act = e /\ (started => e \in root /\ manifest[e] # "none")
    /\ act # None /\ started => act \in dispatched
    /\ \A e \in completed : HasState \/ retired = "whole" \/ e \in record

(* All of it, which every step keeps.                                     *)
IInv ==
    /\ ShapeInv /\ OwnerInv /\ LockInv /\ BarInv /\ LifeInv /\ WatchInv
    /\ StateInv /\ MountInv /\ VerdictInv /\ RecoveryInv /\ AccountInv


-----------------------------------------------------------------------------
(* The constant sets do not change from one state to the next.             *)
LEMMA SameSets ==
  /\ Requests' = Requests /\ NoRequest' = NoRequest /\ Waiting' = Waiting
  /\ BootSteps' = BootSteps /\ FinSteps' = FinSteps
BY DEF Requests, NoRequest, Waiting, BootSteps, FinSteps

USE ExecsAssumption, ReapAssumption, ReadonlyAssumption, NoneAssumption, SameSets
  DEF dirVars, procVars, callVars, execVars, hostVars, wireVars, ctlVars, recVars,
      callRest, ctlRest, ownerRest, recoverRest, bootRest, supRest, reapRest, finRest

-----------------------------------------------------------------------------
(* A request is about an execution or about none.                          *)
LEMMA RequestedIs ==
  ASSUME TypeOK PROVE req.exec \in Execs \cup {None}
BY DEF TypeOK, Requests, NoRequest

(* A step of the controller that keeps the types of the workspace's        *)
(* records keeps all types.                                                *)
LEMMA ControllerShape ==
  ASSUME ShapeInv, UNCHANGED ctlRest, req' \in {req, NoRequest}, reply' \in {"none", "ok", "refused"},
         wroot' \in BOOLEAN, phase' \in Phases, act' \in Execs \cup {None},
         started' \in BOOLEAN, named' \in BOOLEAN, completed' \subseteq Execs,
         mounts' \subseteq {"storage", "snapshot"}, owner' \in Torn, retired' \in Torn,
         tail' \in {"none", "retire", "remove"}
  PROVE  ShapeInv'
BY DEF ShapeInv, RunIs, AtIs, TypeOK, ExecTypeOK, Phases, Torn

(* A step of a call that keeps the types of the executions' variables      *)
(* keeps all types, and one of a finalize those that it does not write.    *)
LEMMA CallShape ==
  ASSUME ShapeInv, UNCHANGED callRest, ExecTypeOK' PROVE ShapeInv'
BY DEF ShapeInv, RunIs, AtIs, TypeOK, Phases, Torn

LEMMA FinalizeShape ==
  ASSUME ShapeInv, UNCHANGED callRest, UNCHANGED <<finRest, box, sup, verdict, power>>,
         fin' \in [Execs -> {"idle", "called", "ok", "fail", "escaped"} \cup FinSteps],
         proof' \in [Execs -> {"none", "host", "weak", "full"}],
         timer' \in [Execs -> {"none", "armed", "loaded"}],
         reaper' \in [Execs -> {"off", "kill", "remove", "disarm"}],
         tries' \in [Execs -> 0..(ReapAttempts - 1)]
  PROVE  ShapeInv'
<1>1. ExecTypeOK'
  BY DEF ShapeInv, TypeOK, ExecTypeOK, Observations, BootSteps
<1> QED
  BY <1>1, CallShape

(* Every step keeps the types.                                             *)
LEMMA ShapeKept ==
  ASSUME ShapeInv, [Next]_vars PROVE ShapeInv'
<1>1. ASSUME HostSteps PROVE ShapeInv'
  <2>1. ASSUME HostCreates PROVE ShapeInv'
    BY <2>1 DEF HostCreates, Call, ShapeInv, RunIs, AtIs, TypeOK, ExecTypeOK, Observations,
       BootSteps, FinSteps, Phases, Torn, Waiting, Requests, NoRequest
  <2>2. ASSUME NEW e \in Execs, HostIntends(e) PROVE ShapeInv'
    BY <2>2 DEF HostIntends, ShapeInv, RunIs, AtIs, TypeOK, ExecTypeOK, Observations, BootSteps,
       FinSteps, Phases, Torn, Waiting, Requests, NoRequest
  <2>3. ASSUME HostReserves PROVE ShapeInv'
    BY <2>3 DEF HostReserves, Call, ShapeInv, RunIs, AtIs, TypeOK, ExecTypeOK, Observations,
       BootSteps, FinSteps, Phases, Torn, Waiting, Requests, NoRequest
  <2>4. ASSUME HostDispatches PROVE ShapeInv'
    BY <2>4 DEF HostDispatches, ShapeInv, RunIs, AtIs, TypeOK, ExecTypeOK, Observations,
       BootSteps, FinSteps, Phases, Torn, Waiting, Requests, NoRequest
  <2>5. ASSUME HostStarts PROVE ShapeInv'
    BY <2>5 DEF HostStarts, ShapeInv, RunIs, AtIs, TypeOK, ExecTypeOK, Observations, BootSteps,
       FinSteps, Phases, Torn, Waiting, Requests, NoRequest
  <2>6. ASSUME HostStarted PROVE ShapeInv'
    BY <2>6 DEF HostStarted, ShapeInv, RunIs, AtIs, TypeOK, ExecTypeOK, Observations, BootSteps,
       FinSteps, Phases, Torn, Waiting, Requests, NoRequest
  <2>7. ASSUME HostCollects PROVE ShapeInv'
    BY <2>7 DEF HostCollects, ShapeInv, RunIs, AtIs, TypeOK, ExecTypeOK, Observations, BootSteps,
       FinSteps, Phases, Torn, Waiting, Requests, NoRequest
  <2>8. ASSUME HostCollected PROVE ShapeInv'
    BY <2>8 DEF HostCollected, Call, ShapeInv, RunIs, AtIs, TypeOK, ExecTypeOK, Observations,
       BootSteps, FinSteps, Phases, Torn, Waiting, Requests, NoRequest
  <2>9. ASSUME HostFreezes PROVE ShapeInv'
    BY <2>9 DEF HostFreezes, Call, ShapeInv, RunIs, AtIs, TypeOK, ExecTypeOK, Observations,
       BootSteps, FinSteps, Phases, Torn, Waiting, Requests, NoRequest
  <2>10. ASSUME HostDeletes PROVE ShapeInv'
    BY <2>10 DEF HostDeletes, Call, ShapeInv, RunIs, AtIs, TypeOK, ExecTypeOK, Observations,
       BootSteps, FinSteps, Phases, Torn, Waiting, Requests, NoRequest
  <2>11. ASSUME HostAnswered PROVE ShapeInv'
    BY <2>11 DEF HostAnswered, Answered, ShapeInv, RunIs, AtIs, TypeOK, ExecTypeOK, Observations,
       BootSteps, FinSteps, Phases, Torn, Waiting, Requests, NoRequest
  <2>12. ASSUME HostDisposed PROVE ShapeInv'
    BY <2>12 DEF HostDisposed, ShapeInv, RunIs, AtIs, TypeOK, ExecTypeOK, Observations, BootSteps,
       FinSteps, Phases, Torn, Waiting, Requests, NoRequest
  <2>13. ASSUME HostLosesReply PROVE ShapeInv'
    BY <2>13 DEF HostLosesReply, ShapeInv, RunIs, AtIs, TypeOK, ExecTypeOK, Observations,
       BootSteps, FinSteps, Phases, Torn, Waiting, Requests, NoRequest
  <2>14. ASSUME HostDies PROVE ShapeInv'
    BY <2>14 DEF HostDies, Rewrites, ShapeInv, RunIs, AtIs, TypeOK, ExecTypeOK, Observations, BootSteps,
       FinSteps, Phases, Torn, Waiting, Requests, NoRequest
  <2> QED
    BY <1>1, <2>1, <2>2, <2>3, <2>4, <2>5, <2>6, <2>7, <2>8, <2>9, <2>10, <2>11, <2>12, <2>13,
       <2>14 DEF HostSteps
<1>2. ASSUME ControllerSteps PROVE ShapeInv'
  <2>1. ASSUME HandleCreate PROVE ShapeInv'
    <3>1. UNCHANGED ctlRest /\ req' = NoRequest /\ reply' \in {"none", "ok", "refused"}
      BY <2>1 DEF HandleCreate, Serve, ShapeInv, TypeOK
    <3>2. UNCHANGED <<act, started, named, completed, retired, tail>>
      BY <2>1 DEF HandleCreate
    <3>3. wroot' \in BOOLEAN
      BY <2>1 DEF HandleCreate, ShapeInv, TypeOK
    <3>4. phase' \in Phases
      BY <2>1 DEF HandleCreate, ShapeInv, TypeOK, Phases
    <3>5. mounts' \subseteq {"storage", "snapshot"}
      BY <2>1 DEF HandleCreate, ShapeInv, TypeOK
    <3>6. owner' \in Torn
      BY <2>1 DEF HandleCreate, ShapeInv, TypeOK, Torn
    <3> QED
      BY <3>1, <3>2, <3>3, <3>4, <3>5, <3>6, ControllerShape DEF ShapeInv, TypeOK
  <2>2. ASSUME HandleCreateCut PROVE ShapeInv'
    <3>1. UNCHANGED ctlRest /\ req' = NoRequest /\ reply' \in {"none", "ok", "refused"}
      BY <2>2 DEF HandleCreateCut, Serve, Cut, ShapeInv, TypeOK
    <3>2. UNCHANGED <<act, started, named, completed, retired, tail>>
      BY <2>2 DEF HandleCreateCut
    <3>3. wroot' \in BOOLEAN
      BY <2>2 DEF HandleCreateCut, ShapeInv, TypeOK
    <3>4. phase' \in Phases
      BY <2>2 DEF HandleCreateCut, ShapeInv, TypeOK, Phases
    <3>5. mounts' \subseteq {"storage", "snapshot"}
      BY <2>2 DEF HandleCreateCut, ShapeInv, TypeOK
    <3>6. owner' \in Torn
      BY <2>2 DEF HandleCreateCut, ShapeInv, TypeOK, Torn
    <3> QED
      BY <3>1, <3>2, <3>3, <3>4, <3>5, <3>6, ControllerShape DEF ShapeInv, TypeOK
  <2>3. ASSUME HandleReserve PROVE ShapeInv'
    <3>1. UNCHANGED ctlRest /\ req' = NoRequest /\ reply' \in {"none", "ok", "refused"}
      BY <2>3 DEF HandleReserve, Serve, ShapeInv, TypeOK
    <3>2. UNCHANGED <<wroot, phase, completed, mounts, owner, retired, tail>>
      BY <2>3 DEF HandleReserve
    <3>3. act' \in Execs \cup {None}
      BY <2>3, RequestedIs DEF HandleReserve, ShapeInv, TypeOK
    <3>4. started' \in BOOLEAN
      BY <2>3 DEF HandleReserve, ShapeInv, TypeOK
    <3>5. named' \in BOOLEAN
      BY <2>3 DEF HandleReserve, ShapeInv, TypeOK
    <3> QED
      BY <3>1, <3>2, <3>3, <3>4, <3>5, ControllerShape DEF ShapeInv, TypeOK
  <2>4. ASSUME HandleReserveCut PROVE ShapeInv'
    <3>1. UNCHANGED ctlRest /\ req' = NoRequest /\ reply' \in {"none", "ok", "refused"}
      BY <2>4 DEF HandleReserveCut, Serve, Cut, ShapeInv, TypeOK
    <3>2. UNCHANGED <<wroot, completed, mounts, owner, retired, tail>>
      BY <2>4 DEF HandleReserveCut
    <3>3. phase' \in Phases
      BY <2>4 DEF HandleReserveCut, ShapeInv, TypeOK, Phases
    <3>4. act' \in Execs \cup {None}
      BY <2>4, RequestedIs DEF HandleReserveCut, ShapeInv, TypeOK
    <3>5. started' \in BOOLEAN
      BY <2>4 DEF HandleReserveCut, ShapeInv, TypeOK
    <3>6. named' \in BOOLEAN
      BY <2>4 DEF HandleReserveCut, ShapeInv, TypeOK
    <3> QED
      BY <3>1, <3>2, <3>3, <3>4, <3>5, <3>6, ControllerShape DEF ShapeInv, TypeOK
  <2>5. ASSUME HandleComplete PROVE ShapeInv'
    <3>1. UNCHANGED ctlRest /\ req' = NoRequest /\ reply' \in {"none", "ok", "refused"}
      BY <2>5 DEF HandleComplete, Serve, ShapeInv, TypeOK
    <3>2. UNCHANGED <<wroot, mounts, owner, retired, tail>>
      BY <2>5 DEF HandleComplete
    <3>3. phase' \in Phases
      BY <2>5 DEF HandleComplete, ShapeInv, TypeOK, Phases, Completable
    <3>4. act' \in Execs \cup {None}
      BY <2>5 DEF HandleComplete, ShapeInv, TypeOK, Completable
    <3>5. started' \in BOOLEAN
      BY <2>5 DEF HandleComplete, ShapeInv, TypeOK, Completable
    <3>6. named' \in BOOLEAN
      BY <2>5 DEF HandleComplete, ShapeInv, TypeOK, Completable
    <3>7. completed' \subseteq Execs
      BY <2>5 DEF HandleComplete, ShapeInv, TypeOK, ExecTypeOK, Completable
    <3> QED
      BY <3>1, <3>2, <3>3, <3>4, <3>5, <3>6, <3>7, ControllerShape DEF ShapeInv, TypeOK
  <2>6. ASSUME HandleFreeze PROVE ShapeInv'
    <3>1. UNCHANGED ctlRest /\ req' = NoRequest /\ reply' \in {"none", "ok", "refused"}
      BY <2>6 DEF HandleFreeze, Serve, ShapeInv, TypeOK
    <3>2. UNCHANGED <<wroot, act, started, named, completed, owner, retired, tail>>
      BY <2>6 DEF HandleFreeze
    <3>3. phase' \in Phases
      BY <2>6 DEF HandleFreeze, ShapeInv, TypeOK, Phases
    <3>4. mounts' \subseteq {"storage", "snapshot"}
      BY <2>6 DEF HandleFreeze, ShapeInv, TypeOK
    <3> QED
      BY <3>1, <3>2, <3>3, <3>4, ControllerShape DEF ShapeInv, TypeOK
  <2>7. ASSUME HandleFreezeCut PROVE ShapeInv'
    BY <2>7 DEF HandleFreezeCut, Serve, Cut, ShapeInv, RunIs, AtIs, TypeOK, ExecTypeOK,
       Observations, BootSteps, FinSteps, Phases, Torn, Waiting, Requests, NoRequest
  <2>8. ASSUME HandleDelete PROVE ShapeInv'
    <3>1. UNCHANGED ctlRest /\ req' = NoRequest /\ reply' \in {"none", "ok", "refused"}
      BY <2>8 DEF HandleDelete, Serve, Cut, UnmountCut, ShapeInv, TypeOK
    <3>2. UNCHANGED <<wroot, act, started, named, completed, owner, retired>>
      BY <2>8 DEF HandleDelete
    <3>3. phase' \in Phases
      BY <2>8 DEF HandleDelete, ShapeInv, TypeOK, Phases, UnmountCut
    <3>4. mounts' \subseteq {"storage", "snapshot"}
      BY <2>8 DEF HandleDelete, ShapeInv, TypeOK, UnmountCut
    <3>5. tail' \in {"none", "retire", "remove"}
      BY <2>8 DEF HandleDelete, ShapeInv, TypeOK, UnmountCut
    <3> QED
      BY <3>1, <3>2, <3>3, <3>4, <3>5, ControllerShape DEF ShapeInv, TypeOK
  <2>9. ASSUME TailRetires PROVE ShapeInv'
    BY <2>9 DEF TailRetires, Serve, ShapeInv, RunIs, AtIs, TypeOK, ExecTypeOK, Observations,
       BootSteps, FinSteps, Phases, Torn, Waiting, Requests, NoRequest
  <2>10. ASSUME TailRemoves PROVE ShapeInv'
    <3>1. UNCHANGED ctlRest /\ req' = req /\ reply' \in {"none", "ok", "refused"}
      BY <2>10 DEF TailRemoves, Serve, ShapeInv, TypeOK
    <3>2. UNCHANGED <<act, started, named, completed, mounts, owner, retired>>
      BY <2>10 DEF TailRemoves
    <3>3. wroot' \in BOOLEAN
      BY <2>10 DEF TailRemoves, ShapeInv, TypeOK
    <3>4. phase' \in Phases
      BY <2>10 DEF TailRemoves, ShapeInv, TypeOK, Phases
    <3>5. tail' \in {"none", "retire", "remove"}
      BY <2>10 DEF TailRemoves, ShapeInv, TypeOK
    <3> QED
      BY <3>1, <3>2, <3>3, <3>4, <3>5, ControllerShape DEF ShapeInv, TypeOK
  <2>11. ASSUME TailCut PROVE ShapeInv'
    BY <2>11 DEF TailCut, Serve, ShapeInv, RunIs, AtIs, TypeOK, ExecTypeOK, Observations,
       BootSteps, FinSteps, Phases, Torn, Waiting, Requests, NoRequest
  <2>12. ASSUME HandleAlarm PROVE ShapeInv'
    BY <2>12 DEF HandleAlarm, Serve, Cut, ShapeInv, RunIs, AtIs, TypeOK, ExecTypeOK,
       Observations, BootSteps, FinSteps, Phases, Torn, Waiting, Requests, NoRequest
  <2>13. ASSUME HandleCompleteCut PROVE ShapeInv'
    <3>1. UNCHANGED ctlRest /\ req' = NoRequest /\ reply' \in {"none", "ok", "refused"}
      BY <2>13 DEF HandleCompleteCut, Cut, Serve, ShapeInv, TypeOK
    <3>2. UNCHANGED <<wroot, mounts, owner, retired, tail>>
      BY <2>13 DEF HandleCompleteCut
    <3>3. phase' \in Phases
      BY <2>13 DEF HandleCompleteCut, Cut, ShapeInv, TypeOK, Phases, Completable
    <3>4. act' \in Execs \cup {None}
      BY <2>13 DEF HandleCompleteCut, Cut, ShapeInv, TypeOK, Completable
    <3>5. started' \in BOOLEAN
      BY <2>13 DEF HandleCompleteCut, Cut, ShapeInv, TypeOK, Completable
    <3>6. named' \in BOOLEAN
      BY <2>13 DEF HandleCompleteCut, Cut, ShapeInv, TypeOK, Completable
    <3>7. completed' \subseteq Execs
      BY <2>13 DEF HandleCompleteCut, Cut, ShapeInv, TypeOK, ExecTypeOK, Completable
    <3> QED
      BY <3>1, <3>2, <3>3, <3>4, <3>5, <3>6, <3>7, ControllerShape DEF ShapeInv, TypeOK
  <2> QED
    BY <1>2, <2>1, <2>2, <2>3, <2>4, <2>5, <2>6, <2>7, <2>8, <2>9, <2>10, <2>11, <2>12,
       <2>13 DEF ControllerSteps
<1>3. ASSUME CallSteps PROVE ShapeInv'
  <2>1. ASSUME NEW e \in Execs, BootBegins(e) PROVE ShapeInv'
    BY <2>1 DEF BootBegins, BootTo, ShapeInv, RunIs, AtIs, TypeOK, ExecTypeOK, Observations,
       BootSteps, FinSteps, Phases, Torn, Waiting, Requests, NoRequest
  <2>2. ASSUME NEW e \in Execs, BootWrites(e) PROVE ShapeInv'
    BY <2>2 DEF BootWrites, BootTo, ShapeInv, RunIs, AtIs, TypeOK, ExecTypeOK, Observations,
       BootSteps, FinSteps, Phases, Torn, Waiting, Requests, NoRequest
  <2>3. ASSUME NEW e \in Execs, BootAuthorizes(e) PROVE ShapeInv'
    <3>1. ExecTypeOK'
      BY <2>3 DEF BootAuthorizes, BootTo, ShapeInv, TypeOK, ExecTypeOK, Observations, BootSteps, FinSteps
    <3>2. started' \in BOOLEAN
      BY <2>3 DEF BootAuthorizes, ShapeInv, TypeOK
    <3> QED
      BY <2>3, <3>1, <3>2 DEF BootAuthorizes, BootTo, ShapeInv, RunIs, AtIs, TypeOK, Waiting, Phases
  <2>4. ASSUME NEW e \in Execs, BootArms(e) PROVE ShapeInv'
    BY <2>4 DEF BootArms, BootTo, ShapeInv, RunIs, AtIs, TypeOK, ExecTypeOK, Observations,
       BootSteps, FinSteps, Phases, Torn, Waiting, Requests, NoRequest
  <2>5. ASSUME NEW e \in Execs, BootDispatches(e) PROVE ShapeInv'
    BY <2>5 DEF BootDispatches, BootTo, ShapeInv, RunIs, AtIs, TypeOK, ExecTypeOK, Observations,
       BootSteps, FinSteps, Phases, Torn, Waiting, Requests, NoRequest
  <2>6. ASSUME NEW e \in Execs, BootKilled(e) PROVE ShapeInv'
    BY <2>6 DEF BootKilled, BootTo, ShapeInv, RunIs, AtIs, TypeOK, ExecTypeOK, Observations,
       BootSteps, FinSteps, Phases, Torn, Waiting, Requests, NoRequest
  <2>7. ASSUME NEW e \in Execs, FinalizeBegins(e) PROVE ShapeInv'
    BY <2>7 DEF FinalizeBegins, FinTo, ShapeInv, RunIs, AtIs, TypeOK, ExecTypeOK, Observations,
       BootSteps, FinSteps, Phases, Torn, Waiting, Requests, NoRequest
  <2>8. ASSUME NEW e \in Execs, DisposeBegins(e) PROVE ShapeInv'
    BY <2>8 DEF DisposeBegins, DispTo, ShapeInv, RunIs, AtIs, TypeOK, ExecTypeOK, Observations,
       BootSteps, FinSteps, Phases, Torn, Waiting, Requests, NoRequest
  <2>9. ASSUME NEW e \in Execs, CallKilled(e) PROVE ShapeInv'
    BY <2>9 DEF CallKilled, FinTo, DispTo, ShapeInv, RunIs, AtIs, TypeOK, ExecTypeOK,
       Observations, BootSteps, FinSteps, Phases, Torn, Waiting, Requests, NoRequest
  <2> QED
    BY <1>3, <2>1, <2>2, <2>3, <2>4, <2>5, <2>6, <2>7, <2>8, <2>9 DEF CallSteps
<1>4. ASSUME RecoverySteps PROVE ShapeInv'
  <2>1. ASSUME RecoverBegins PROVE ShapeInv'
    BY <2>1 DEF RecoverBegins, NotDone, RecTo, ShapeInv, RunIs, AtIs, TypeOK, ExecTypeOK,
       Observations, BootSteps, FinSteps, Phases, Torn, Waiting, Requests, NoRequest
  <2>2. ASSUME NEW e \in Execs, RecoverUnstarted(e) PROVE ShapeInv'
    BY <2>2 DEF RecoverUnstarted, RecTo, ShapeInv, RunIs, AtIs, TypeOK, ExecTypeOK, Observations,
       BootSteps, FinSteps, Phases, Torn, Waiting, Requests, NoRequest
  <2>3. ASSUME NEW e \in Execs, RecoverBare(e) PROVE ShapeInv'
    BY <2>3 DEF RecoverBare, RecTo, ShapeInv, RunIs, AtIs, TypeOK, ExecTypeOK, Observations,
       BootSteps, FinSteps, Phases, Torn, Waiting, Requests, NoRequest
  <2>4. ASSUME NEW e \in Execs, RecoverFinalizes(e) PROVE ShapeInv'
    BY <2>4 DEF RecoverFinalizes, RecTo, FinTo, ShapeInv, RunIs, AtIs, TypeOK, ExecTypeOK,
       Observations, BootSteps, FinSteps, Phases, Torn, Waiting, Requests, NoRequest
  <2>5. ASSUME NEW e \in Execs, RecoverAbsent(e) PROVE ShapeInv'
    BY <2>5 DEF RecoverAbsent, NotDone, RecTo, ClearActive, ShapeInv, RunIs, AtIs, TypeOK,
       ExecTypeOK, Observations, BootSteps, FinSteps, Phases, Torn, Waiting, Requests, NoRequest
  <2>6. ASSUME RecoverFinalized PROVE ShapeInv'
    BY <2>6 DEF RecoverFinalized, NotDone, RecTo, DispTo, ClearActive, ShapeInv, RunIs, AtIs,
       TypeOK, ExecTypeOK, Observations, BootSteps, FinSteps, Phases, Torn, Waiting, Requests,
       NoRequest
  <2>7. ASSUME RecoverDisposed PROVE ShapeInv'
    BY <2>7 DEF RecoverDisposed, RecTo, ShapeInv, RunIs, AtIs, TypeOK, ExecTypeOK, Observations,
       BootSteps, FinSteps, Phases, Torn, Waiting, Requests, NoRequest
  <2>8. ASSUME RecoverUnmounts PROVE ShapeInv'
    BY <2>8 DEF RecoverUnmounts, RecTo, ShapeInv, RunIs, AtIs, TypeOK, ExecTypeOK, Observations,
       BootSteps, FinSteps, Phases, Torn, Waiting, Requests, NoRequest
  <2>9. ASSUME RecoverRemoves PROVE ShapeInv'
    <3>1. ExecTypeOK'
      BY <2>9 DEF RecoverRemoves, NotDone, RecTo, ShapeInv, TypeOK, ExecTypeOK, Observations, BootSteps,
         FinSteps
    <3>2. wroot' \in BOOLEAN
      BY <2>9 DEF RecoverRemoves, ShapeInv, TypeOK
    <3>3. confirmed' \in BOOLEAN
      BY <2>9 DEF RecoverRemoves, ShapeInv, TypeOK
    <3> QED
      BY <2>9, <3>1, <3>2, <3>3 DEF RecoverRemoves, NotDone, RecTo, ShapeInv, RunIs, AtIs, TypeOK,
         Waiting, Phases
  <2>10. ASSUME RecoverCut PROVE ShapeInv'
    <3>1. fin' \in [Execs -> {"idle", "called", "ok", "fail", "escaped"} \cup FinSteps]
      BY <2>10 DEF RecoverCut, NotDone, RecTo, UnmountCut, ShapeInv, TypeOK, ExecTypeOK, FinSteps
    <3>2. disp' \in [Execs -> {"idle", "called", "removing", "ok", "fail"}]
      BY <2>10 DEF RecoverCut, NotDone, RecTo, UnmountCut, ShapeInv, TypeOK, ExecTypeOK
    <3>3. phase' \in Phases
      BY <2>10 DEF RecoverCut, NotDone, RecTo, UnmountCut, ShapeInv, TypeOK, ExecTypeOK, Phases
    <3>4. mounts' \subseteq {"storage", "snapshot"}
      BY <2>10 DEF RecoverCut, NotDone, RecTo, UnmountCut, ShapeInv, TypeOK, ExecTypeOK
    <3>5. ExecTypeOK'
      BY <2>10, <3>1, <3>2, <3>3, <3>4 DEF RecoverCut, NotDone, RecTo, UnmountCut, ShapeInv, TypeOK,
         ExecTypeOK, Observations, BootSteps, FinSteps
    <3>6. rec' = "off" /\ at' = None /\ todo' = {}
      BY <2>10 DEF RecoverCut, NotDone, RecTo
    <3> QED
      BY <2>10, <3>3, <3>4, <3>5, <3>6 DEF RecoverCut, ShapeInv, RunIs, AtIs, TypeOK
  <2> QED
    BY <1>4, <2>1, <2>2, <2>3, <2>4, <2>5, <2>6, <2>7, <2>8, <2>9, <2>10 DEF RecoverySteps
<1>5. ASSUME ExecProcesses, UNCHANGED callRest PROVE ShapeInv'
  <2>1. ASSUME NEW e \in Execs, CandidateEnds(e) PROVE ShapeInv'
    BY <1>5, <2>1 DEF CandidateEnds, ShapeInv, RunIs, AtIs, TypeOK, ExecTypeOK, Observations,
       BootSteps, FinSteps, Phases, Torn, Waiting, Requests, NoRequest
  <2>2. ASSUME NEW e \in Execs, SupervisorCreates(e) PROVE ShapeInv'
    BY <1>5, <2>2 DEF SupervisorCreates, SupVars, SupSays, ShapeInv, RunIs, AtIs, TypeOK,
       ExecTypeOK, Observations, BootSteps, FinSteps, Phases, Torn, Waiting, Requests, NoRequest
  <2>3. ASSUME NEW e \in Execs, SupervisorRegisters(e) PROVE ShapeInv'
    BY <1>5, <2>3 DEF SupervisorRegisters, SupVars, ShapeInv, RunIs, AtIs, TypeOK, ExecTypeOK,
       Observations, BootSteps, FinSteps, Phases, Torn, Waiting, Requests, NoRequest
  <2>4. ASSUME NEW e \in Execs, SupervisorChecks(e) PROVE ShapeInv'
    BY <1>5, <2>4 DEF SupervisorChecks, SupVars, ShapeInv, RunIs, AtIs, TypeOK, ExecTypeOK,
       Observations, BootSteps, FinSteps, Phases, Torn, Waiting, Requests, NoRequest
  <2>5. ASSUME NEW e \in Execs, SupervisorStarts(e) PROVE ShapeInv'
    BY <1>5, <2>5 DEF SupervisorStarts, SupVars, ShapeInv, RunIs, AtIs, TypeOK, ExecTypeOK,
       Observations, BootSteps, FinSteps, Phases, Torn, Waiting, Requests, NoRequest
  <2>6. ASSUME NEW e \in Execs, SupervisorWatches(e) PROVE ShapeInv'
    BY <1>5, <2>6 DEF SupervisorWatches, SupVars, SupSays, ShapeInv, RunIs, AtIs, TypeOK,
       ExecTypeOK, Observations, BootSteps, FinSteps, Phases, Torn, Waiting, Requests, NoRequest
  <2>7. ASSUME NEW e \in Execs, SupervisorCleans(e) PROVE ShapeInv'
    BY <1>5, <2>7 DEF SupervisorCleans, SupVars, SupSays, RemovalLeaves, ShapeInv, RunIs, AtIs,
       TypeOK, ExecTypeOK, Observations, BootSteps, FinSteps, Phases, Torn, Waiting, Requests,
       NoRequest
  <2>8. ASSUME NEW e \in Execs, SupervisorObserves(e) PROVE ShapeInv'
    BY <1>5, <2>8 DEF SupervisorObserves, SupVars, SupSays, ShapeInv, RunIs, AtIs, TypeOK,
       ExecTypeOK, Observations, BootSteps, FinSteps, Phases, Torn, Waiting, Requests, NoRequest
  <2>9. ASSUME NEW e \in Execs, SupervisorKilled(e) PROVE ShapeInv'
    BY <1>5, <2>9 DEF SupervisorKilled, SupVars, SupSays, Settles, ShapeInv, RunIs, AtIs, TypeOK,
       ExecTypeOK, Observations, BootSteps, FinSteps, Phases, Torn, Waiting, Requests, NoRequest
  <2>10. ASSUME NEW e \in Execs, SupervisorStopped(e) PROVE ShapeInv'
    BY <1>5, <2>10 DEF SupervisorStopped, SupVars, RemovalLeaves, ShapeInv, RunIs, AtIs, TypeOK,
       ExecTypeOK, Observations, BootSteps, FinSteps, Phases, Torn, Waiting, Requests, NoRequest
  <2>11. ASSUME NEW e \in Execs, TimerFires(e) PROVE ShapeInv'
    BY <1>5, <2>11 DEF TimerFires, ShapeInv, RunIs, AtIs, TypeOK, ExecTypeOK, Observations,
       BootSteps, FinSteps, Phases, Torn, Waiting, Requests, NoRequest
  <2>12. ASSUME NEW e \in Execs, ReaperKills(e) PROVE ShapeInv'
    BY <1>5, <2>12 DEF ReaperKills, SupVars, SupSays, Settles, ShapeInv, RunIs, AtIs, TypeOK,
       ExecTypeOK, Observations, BootSteps, FinSteps, Phases, Torn, Waiting, Requests, NoRequest
  <2>13. ASSUME NEW e \in Execs, ReaperRemoves(e) PROVE ShapeInv'
    <3>1. tries' \in [Execs -> 0..(ReapAttempts - 1)]
      BY <1>5, <2>13 DEF ReaperRemoves, RemovalLeaves, ShapeInv, TypeOK, ExecTypeOK, MoreAttempts
    <3>2. box' \in [Execs -> {"none", "created", "running", "exited"}]
      BY <1>5, <2>13 DEF ReaperRemoves, RemovalLeaves, ShapeInv, TypeOK, ExecTypeOK
    <3>3. ExecTypeOK'
      BY <1>5, <2>13, <3>1, <3>2 DEF ReaperRemoves, RemovalLeaves, ShapeInv, TypeOK, ExecTypeOK,
         Observations, BootSteps, FinSteps
    <3> QED
      BY <1>5, <2>13, <3>1, <3>2, <3>3 DEF ReaperRemoves, RemovalLeaves, ShapeInv, RunIs, AtIs, TypeOK,
         Waiting, Phases
  <2>14. ASSUME NEW e \in Execs, ReaperDisarms(e) PROVE ShapeInv'
    BY <1>5, <2>14 DEF ReaperDisarms, ShapeInv, RunIs, AtIs, TypeOK, ExecTypeOK, Observations,
       BootSteps, FinSteps, Phases, Torn, Waiting, Requests, NoRequest
  <2> QED
    BY <1>5, <2>1, <2>2, <2>3, <2>4, <2>5, <2>6, <2>7, <2>8, <2>9, <2>10, <2>11, <2>12, <2>13,
       <2>14 DEF ExecProcesses
<1>6. ASSUME ExecCalls, UNCHANGED callRest PROVE ShapeInv'
  <2>1. ASSUME NEW e \in Execs, FinalizeStops(e) PROVE ShapeInv'
    BY <1>6, <2>1 DEF FinalizeStops, FinTo, SupVars, SupSays, Settles, ShapeInv, RunIs, AtIs,
       TypeOK, ExecTypeOK, Observations, BootSteps, FinSteps, Phases, Torn, Waiting, Requests,
       NoRequest
  <2>2. ASSUME NEW e \in Execs, FinalizeRemoves(e) PROVE ShapeInv'
    BY <1>6, <2>2 DEF FinalizeRemoves, FinTo, RemovalLeaves, ShapeInv, RunIs, AtIs, TypeOK,
       ExecTypeOK, Observations, BootSteps, FinSteps, Phases, Torn, Waiting, Requests, NoRequest
  <2>3. ASSUME NEW e \in Execs, FinalizeProves(e) PROVE ShapeInv'
    <3>1. UNCHANGED callRest /\ UNCHANGED <<finRest, box, sup, verdict, power>>
      BY <1>6, <2>3 DEF FinalizeProves
    <3>2. fin' \in [Execs -> {"idle", "called", "ok", "fail", "escaped"} \cup FinSteps]
      BY <2>3 DEF FinalizeProves, FinTo, ShapeInv, TypeOK, ExecTypeOK, FinSteps
    <3>3. proof' \in [Execs -> {"none", "host", "weak", "full"}]
      BY <2>3 DEF FinalizeProves, ShapeInv, TypeOK, ExecTypeOK
    <3>4. /\ timer' \in [Execs -> {"none", "armed", "loaded"}]
          /\ reaper' \in [Execs -> {"off", "kill", "remove", "disarm"}]
      BY <2>3 DEF FinalizeProves, ShapeInv, TypeOK, ExecTypeOK
    <3>5. tries' \in [Execs -> 0..(ReapAttempts - 1)]
      BY <2>3 DEF FinalizeProves, ShapeInv, TypeOK, ExecTypeOK
    <3> QED
      BY <3>1, <3>2, <3>3, <3>4, <3>5, FinalizeShape
  <2>4. ASSUME NEW e \in Execs, FinalizeDisarms(e) PROVE ShapeInv'
    <3>1. UNCHANGED callRest /\ UNCHANGED <<finRest, box, sup, verdict, power>>
      BY <1>6, <2>4 DEF FinalizeDisarms
    <3>2. fin' \in [Execs -> {"idle", "called", "ok", "fail", "escaped"} \cup FinSteps]
      BY <2>4 DEF FinalizeDisarms, FinTo, ShapeInv, TypeOK, ExecTypeOK, FinSteps
    <3>3. proof' \in [Execs -> {"none", "host", "weak", "full"}]
      BY <2>4 DEF FinalizeDisarms, ShapeInv, TypeOK, ExecTypeOK
    <3>4. /\ timer' \in [Execs -> {"none", "armed", "loaded"}]
          /\ reaper' \in [Execs -> {"off", "kill", "remove", "disarm"}]
      BY <2>4 DEF FinalizeDisarms, ShapeInv, TypeOK, ExecTypeOK
    <3>5. tries' \in [Execs -> 0..(ReapAttempts - 1)]
      BY <2>4 DEF FinalizeDisarms, ShapeInv, TypeOK, ExecTypeOK
    <3> QED
      BY <3>1, <3>2, <3>3, <3>4, <3>5, FinalizeShape
  <2>5. ASSUME NEW e \in Execs, FinalizeSettles(e) PROVE ShapeInv'
    <3>1. UNCHANGED callRest /\ UNCHANGED <<finRest, box, sup, verdict, power>>
      BY <1>6, <2>5 DEF FinalizeSettles
    <3>2. fin' \in [Execs -> {"idle", "called", "ok", "fail", "escaped"} \cup FinSteps]
      BY <2>5 DEF FinalizeSettles, FinTo, ShapeInv, TypeOK, ExecTypeOK, FinSteps
    <3>3. proof' \in [Execs -> {"none", "host", "weak", "full"}]
      BY <2>5 DEF FinalizeSettles, ShapeInv, TypeOK, ExecTypeOK
    <3>4. /\ timer' \in [Execs -> {"none", "armed", "loaded"}]
          /\ reaper' \in [Execs -> {"off", "kill", "remove", "disarm"}]
      BY <2>5 DEF FinalizeSettles, ShapeInv, TypeOK, ExecTypeOK
    <3>5. tries' \in [Execs -> 0..(ReapAttempts - 1)]
      BY <2>5 DEF FinalizeSettles, ShapeInv, TypeOK, ExecTypeOK
    <3> QED
      BY <3>1, <3>2, <3>3, <3>4, <3>5, FinalizeShape
  <2>6. ASSUME NEW e \in Execs, DisposeRemoves(e) PROVE ShapeInv'
    BY <1>6, <2>6 DEF DisposeRemoves, ShapeInv, RunIs, AtIs, TypeOK, ExecTypeOK, Observations,
       BootSteps, FinSteps, Phases, Torn, Waiting, Requests, NoRequest
  <2>7. ASSUME NEW e \in Execs, DisposeEnds(e) PROVE ShapeInv'
    BY <1>6, <2>7 DEF DisposeEnds, DispTo, ShapeInv, RunIs, AtIs, TypeOK, ExecTypeOK,
       Observations, BootSteps, FinSteps, Phases, Torn, Waiting, Requests, NoRequest
  <2> QED
    BY <1>6, <2>1, <2>2, <2>3, <2>4, <2>5, <2>6, <2>7 DEF ExecCalls
<1>7. ASSUME MachineStops PROVE ShapeInv'
  BY <1>7 DEF MachineStops, ShapeInv, RunIs, AtIs, TypeOK, ExecTypeOK, Observations, BootSteps,
     FinSteps, Phases, Torn, Waiting, Requests, NoRequest
<1>8. ASSUME UNCHANGED vars PROVE ShapeInv'
  BY <1>8 DEF vars, ShapeInv, RunIs, AtIs, TypeOK, ExecTypeOK, Observations, BootSteps, FinSteps,
     Phases, Torn, Waiting, Requests, NoRequest
<1> QED
  BY <1>1, <1>2, <1>3, <1>4, <1>5, <1>6, <1>7, <1>8 DEF Next

(* What LockInv is about.                                                  *)
lockFrame == <<boot, fin, disp, rec, at>>

(* Only one call is inside the registration lock: each of them enters when *)
(* it is free, and a recovery's own calls enter with the recovery's hold.  *)
LEMMA LockKept ==
  ASSUME ShapeInv, LockInv, BarInv, [Next]_vars PROVE LockInv'
<1>f. ASSUME UNCHANGED lockFrame PROVE LockInv'
  BY <1>f DEF lockFrame, LockInv, BootAlone, FinAlone, DispAlone, BootSteps, FinSteps
<1>1. ASSUME HostSteps PROVE LockInv'
  <2>1. ASSUME HostStarts PROVE LockInv'
    BY <2>1 DEF HostStarts, LockInv, BootAlone, FinAlone, DispAlone, ShapeInv, TypeOK, ExecTypeOK,
       BarInv, RegistrationFree, Registering, BootSteps, FinSteps
  <2>2. ASSUME HostCollects PROVE LockInv'
    BY <2>2 DEF HostCollects, LockInv, BootAlone, FinAlone, DispAlone, ShapeInv, TypeOK,
       ExecTypeOK, BarInv, RegistrationFree, Registering, BootSteps, FinSteps
  <2>3. ASSUME HostAnswered PROVE LockInv'
    BY <2>3 DEF HostAnswered, Answered, LockInv, BootAlone, FinAlone, DispAlone, ShapeInv, TypeOK,
       ExecTypeOK, BarInv, RegistrationFree, Registering, BootSteps, FinSteps
  <2>4. ASSUME HostCreates \/ HostReserves \/ HostDispatches \/ HostStarted \/ HostCollected \/
     HostFreezes \/ HostDeletes \/ HostDisposed \/ HostLosesReply \/ HostDies
        PROVE  UNCHANGED lockFrame
    BY <2>4 DEF HostCreates, HostReserves, HostDispatches, HostStarted, HostCollected,
       HostFreezes, HostDeletes, HostDisposed, HostLosesReply, HostDies, lockFrame
  <2>5. ASSUME NEW e \in Execs, HostIntends(e)
        PROVE  UNCHANGED lockFrame
    BY <2>5 DEF HostIntends, lockFrame
  <2> QED
    BY <1>1, <2>1, <2>2, <2>3, <2>4, <1>f, <2>5 DEF HostSteps
<1>2. ASSUME ControllerSteps PROVE UNCHANGED lockFrame
  BY <1>2 DEF ControllerSteps, HandleCreate, HandleCreateCut, HandleReserve, HandleReserveCut,
     HandleAlarm, HandleComplete, HandleCompleteCut, HandleFreeze, HandleFreezeCut,
     HandleDelete, TailRetires, TailRemoves,
     TailCut, lockFrame
<1>3. ASSUME CallSteps PROVE LockInv'
  <2>1. ASSUME NEW e \in Execs, BootBegins(e) PROVE LockInv'
    BY <2>1 DEF BootBegins, BootTo, LockInv, BootAlone, FinAlone, DispAlone, ShapeInv, TypeOK,
       ExecTypeOK, BarInv, RegistrationFree, Registering, BootSteps, FinSteps
  <2>2. ASSUME NEW e \in Execs, BootWrites(e) PROVE LockInv'
    BY <2>2 DEF BootWrites, BootTo, LockInv, BootAlone, FinAlone, DispAlone, ShapeInv, TypeOK,
       ExecTypeOK, BarInv, RegistrationFree, Registering, BootSteps, FinSteps
  <2>3. ASSUME NEW e \in Execs, BootAuthorizes(e) PROVE LockInv'
    BY <2>3 DEF BootAuthorizes, BootTo, LockInv, BootAlone, FinAlone, DispAlone, ShapeInv, TypeOK,
       ExecTypeOK, BarInv, RegistrationFree, Registering, BootSteps, FinSteps
  <2>4. ASSUME NEW e \in Execs, BootArms(e) PROVE LockInv'
    BY <2>4 DEF BootArms, BootTo, LockInv, BootAlone, FinAlone, DispAlone, ShapeInv, TypeOK,
       ExecTypeOK, BarInv, RegistrationFree, Registering, BootSteps, FinSteps
  <2>5. ASSUME NEW e \in Execs, BootDispatches(e) PROVE LockInv'
    BY <2>5 DEF BootDispatches, BootTo, LockInv, BootAlone, FinAlone, DispAlone, ShapeInv, TypeOK,
       ExecTypeOK, BarInv, RegistrationFree, Registering, BootSteps, FinSteps
  <2>6. ASSUME NEW e \in Execs, BootKilled(e) PROVE LockInv'
    BY <2>6 DEF BootKilled, BootTo, LockInv, BootAlone, FinAlone, DispAlone, ShapeInv, TypeOK,
       ExecTypeOK, BarInv, RegistrationFree, Registering, BootSteps, FinSteps
  <2>7. ASSUME NEW e \in Execs, FinalizeBegins(e) PROVE LockInv'
    BY <2>7 DEF FinalizeBegins, FinTo, LockInv, BootAlone, FinAlone, DispAlone, ShapeInv, TypeOK,
       ExecTypeOK, BarInv, RegistrationFree, Registering, BootSteps, FinSteps
  <2>8. ASSUME NEW e \in Execs, DisposeBegins(e) PROVE LockInv'
    BY <2>8 DEF DisposeBegins, DispTo, LockInv, BootAlone, FinAlone, DispAlone, ShapeInv, TypeOK,
       ExecTypeOK, BarInv, RegistrationFree, Registering, BootSteps, FinSteps
  <2>9. ASSUME NEW e \in Execs, CallKilled(e) PROVE LockInv'
    BY <2>9 DEF CallKilled, FinTo, DispTo, LockInv, BootAlone, FinAlone, DispAlone, ShapeInv,
       TypeOK, ExecTypeOK, BarInv, RegistrationFree, Registering, BootSteps, FinSteps
  <2> QED
    BY <1>3, <2>1, <2>2, <2>3, <2>4, <2>5, <2>6, <2>7, <2>8, <2>9 DEF CallSteps
<1>4. ASSUME RecoverySteps PROVE LockInv'
  <2>1. ASSUME RecoverBegins PROVE LockInv'
    BY <2>1 DEF RecoverBegins, NotDone, RecTo, LockInv, BootAlone, FinAlone, DispAlone, ShapeInv,
       TypeOK, ExecTypeOK, BarInv, RegistrationFree, Registering, BootSteps, FinSteps
  <2>2. ASSUME NEW e \in Execs, RecoverFinalizes(e) PROVE LockInv'
    BY <2>2 DEF RecoverFinalizes, RecTo, FinTo, LockInv, BootAlone, FinAlone, DispAlone, ShapeInv,
       TypeOK, ExecTypeOK, BarInv, RegistrationFree, Registering, BootSteps, FinSteps
  <2>3. ASSUME NEW e \in Execs, RecoverAbsent(e) PROVE LockInv'
    BY <2>3 DEF RecoverAbsent, NotDone, RecTo, ClearActive, LockInv, BootAlone, FinAlone,
       DispAlone, ShapeInv, TypeOK, ExecTypeOK, BarInv, RegistrationFree, Registering, BootSteps,
       FinSteps
  <2>4. ASSUME RecoverFinalized PROVE LockInv'
    BY <2>4 DEF RecoverFinalized, NotDone, RecTo, DispTo, ClearActive, LockInv, BootAlone,
       FinAlone, DispAlone, ShapeInv, TypeOK, ExecTypeOK, BarInv, RegistrationFree, Registering,
       BootSteps, FinSteps
  <2>5. ASSUME RecoverDisposed PROVE LockInv'
    BY <2>5 DEF RecoverDisposed, RecTo, LockInv, BootAlone, FinAlone, DispAlone, ShapeInv, TypeOK,
       ExecTypeOK, BarInv, RegistrationFree, Registering, BootSteps, FinSteps
  <2>6. ASSUME RecoverUnmounts PROVE LockInv'
    BY <2>6 DEF RecoverUnmounts, RecTo, LockInv, BootAlone, FinAlone, DispAlone, ShapeInv, TypeOK,
       ExecTypeOK, BarInv, RegistrationFree, Registering, BootSteps, FinSteps
  <2>7. ASSUME RecoverRemoves PROVE LockInv'
    BY <2>7 DEF RecoverRemoves, NotDone, RecTo, LockInv, BootAlone, FinAlone, DispAlone, ShapeInv,
       TypeOK, ExecTypeOK, BarInv, RegistrationFree, Registering, BootSteps, FinSteps
  <2>8. ASSUME RecoverCut PROVE LockInv'
    BY <2>8 DEF RecoverCut, NotDone, RecTo, UnmountCut, LockInv, BootAlone, FinAlone, DispAlone,
       ShapeInv, TypeOK, ExecTypeOK, BarInv, RegistrationFree, Registering, BootSteps, FinSteps
  <2>9. ASSUME NEW e \in Execs, RecoverUnstarted(e) \/ RecoverBare(e)
        PROVE  UNCHANGED lockFrame
    BY <2>9 DEF RecoverUnstarted, RecoverBare, RecTo, lockFrame
  <2> QED
    BY <1>4, <2>1, <2>2, <2>3, <2>4, <2>5, <2>6, <2>7, <2>8, <2>9, <1>f DEF RecoverySteps
<1>5. ASSUME ExecProcesses, UNCHANGED callRest PROVE UNCHANGED lockFrame
  BY <1>5 DEF ExecProcesses, CandidateEnds, SupervisorCreates, SupervisorRegisters,
     SupervisorChecks, SupervisorStarts, SupervisorWatches, SupervisorCleans, SupervisorObserves,
     SupervisorKilled, SupervisorStopped, TimerFires, ReaperKills, ReaperRemoves, ReaperDisarms,
     SupVars, SupSays, lockFrame
<1>6. ASSUME ExecCalls, UNCHANGED callRest PROVE LockInv'
  <2>1. ASSUME NEW e \in Execs, FinalizeStops(e) PROVE LockInv'
    BY <1>6, <2>1 DEF FinalizeStops, FinTo, SupVars, SupSays, Settles, LockInv, BootAlone,
       FinAlone, DispAlone, ShapeInv, TypeOK, ExecTypeOK, BarInv, RegistrationFree, Registering,
       BootSteps, FinSteps
  <2>2. ASSUME NEW e \in Execs, FinalizeRemoves(e) PROVE LockInv'
    BY <1>6, <2>2 DEF FinalizeRemoves, FinTo, RemovalLeaves, LockInv, BootAlone, FinAlone,
       DispAlone, ShapeInv, TypeOK, ExecTypeOK, BarInv, RegistrationFree, Registering, BootSteps,
       FinSteps
  <2>3. ASSUME NEW e \in Execs, FinalizeProves(e) PROVE LockInv'
    BY <1>6, <2>3 DEF FinalizeProves, FinTo, LockInv, BootAlone, FinAlone, DispAlone, ShapeInv,
       TypeOK, ExecTypeOK, BarInv, RegistrationFree, Registering, BootSteps, FinSteps
  <2>4. ASSUME NEW e \in Execs, FinalizeDisarms(e) PROVE LockInv'
    BY <1>6, <2>4 DEF FinalizeDisarms, FinTo, LockInv, BootAlone, FinAlone, DispAlone, ShapeInv,
       TypeOK, ExecTypeOK, BarInv, RegistrationFree, Registering, BootSteps, FinSteps
  <2>5. ASSUME NEW e \in Execs, FinalizeSettles(e) PROVE LockInv'
    BY <1>6, <2>5 DEF FinalizeSettles, FinTo, LockInv, BootAlone, FinAlone, DispAlone, ShapeInv,
       TypeOK, ExecTypeOK, BarInv, RegistrationFree, Registering, BootSteps, FinSteps
  <2>6. ASSUME NEW e \in Execs, DisposeEnds(e) PROVE LockInv'
    BY <1>6, <2>6 DEF DisposeEnds, DispTo, LockInv, BootAlone, FinAlone, DispAlone, ShapeInv,
       TypeOK, ExecTypeOK, BarInv, RegistrationFree, Registering, BootSteps, FinSteps
  <2>7. ASSUME NEW e \in Execs, DisposeRemoves(e)
        PROVE  UNCHANGED lockFrame
    BY <1>6, <2>7 DEF DisposeRemoves, lockFrame
  <2> QED
    BY <1>6, <2>1, <2>2, <2>3, <2>4, <2>5, <2>6, <2>7, <1>f DEF ExecCalls
<1>7. ASSUME MachineStops PROVE UNCHANGED lockFrame
  BY <1>7 DEF MachineStops, lockFrame
<1>8. ASSUME UNCHANGED vars PROVE UNCHANGED lockFrame
  BY <1>8 DEF vars, lockFrame
<1> QED
  BY <1>f, <1>1, <1>2, <1>3, <1>4, <1>5, <1>6, <1>7, <1>8 DEF Next

(* What BarInv is about.                                                   *)
barFrame == <<host, terminal, rec, record, confirmed, boot>>

(* A recovery begins past the owner's end, and it closes the workspace     *)
(* before it does anything.                                                *)
LEMMA BarKept ==
  ASSUME ShapeInv, BarInv, LockInv, RowsAre, RunIsNew, [Next]_vars PROVE BarInv'
<1>f. ASSUME UNCHANGED barFrame PROVE BarInv'
  BY <1>f DEF barFrame, BarInv
<1>1. ASSUME HostSteps PROVE BarInv'
  <2>1. ASSUME HostCreates PROVE BarInv'
    BY <2>1 DEF HostCreates, Call, BarInv, ShapeInv, TypeOK, ExecTypeOK, Waiting,
       RegistrationFree, Registering, BootSteps, FinSteps
  <2>2. ASSUME NEW e \in Execs, HostIntends(e) PROVE BarInv'
    BY <2>2 DEF HostIntends, BarInv, ShapeInv, TypeOK, ExecTypeOK, Waiting, RegistrationFree,
       Registering, BootSteps, FinSteps
  <2>3. ASSUME HostReserves PROVE BarInv'
    BY <2>3 DEF HostReserves, Call, BarInv, ShapeInv, TypeOK, ExecTypeOK, Waiting,
       RegistrationFree, Registering, BootSteps, FinSteps
  <2>4. ASSUME HostDispatches PROVE BarInv'
    BY <2>4 DEF HostDispatches, BarInv, ShapeInv, TypeOK, ExecTypeOK, Waiting, RegistrationFree,
       Registering, BootSteps, FinSteps
  <2>5. ASSUME HostStarts PROVE BarInv'
    BY <2>5 DEF HostStarts, BarInv, ShapeInv, TypeOK, ExecTypeOK, Waiting, RegistrationFree,
       Registering, BootSteps, FinSteps
  <2>6. ASSUME HostStarted PROVE BarInv'
    BY <2>6 DEF HostStarted, BarInv, ShapeInv, TypeOK, ExecTypeOK, Waiting, RegistrationFree,
       Registering, BootSteps, FinSteps
  <2>7. ASSUME HostCollects PROVE BarInv'
    BY <2>7 DEF HostCollects, BarInv, ShapeInv, TypeOK, ExecTypeOK, Waiting, RegistrationFree,
       Registering, BootSteps, FinSteps
  <2>8. ASSUME HostCollected PROVE BarInv'
    BY <2>8 DEF HostCollected, Call, BarInv, ShapeInv, TypeOK, ExecTypeOK, Waiting,
       RegistrationFree, Registering, BootSteps, FinSteps
  <2>9. ASSUME HostFreezes PROVE BarInv'
    BY <2>9 DEF HostFreezes, Call, BarInv, ShapeInv, TypeOK, ExecTypeOK, Waiting,
       RegistrationFree, Registering, BootSteps, FinSteps
  <2>10. ASSUME HostDeletes PROVE BarInv'
    BY <2>10 DEF HostDeletes, Call, BarInv, ShapeInv, TypeOK, ExecTypeOK, Waiting,
       RegistrationFree, Registering, BootSteps, FinSteps
  <2>11. ASSUME HostAnswered PROVE BarInv'
    BY <2>11 DEF HostAnswered, Answered, BarInv, ShapeInv, TypeOK, ExecTypeOK, Waiting,
       RegistrationFree, Registering, BootSteps, FinSteps
  <2>12. ASSUME HostDisposed PROVE BarInv'
    BY <2>12 DEF HostDisposed, BarInv, ShapeInv, TypeOK, ExecTypeOK, Waiting, RegistrationFree,
       Registering, BootSteps, FinSteps
  <2>13. ASSUME HostLosesReply PROVE BarInv'
    BY <2>13 DEF HostLosesReply, BarInv, ShapeInv, TypeOK, ExecTypeOK, Waiting, RegistrationFree,
       Registering, BootSteps, FinSteps
  <2>14. ASSUME HostDies PROVE BarInv'
    BY <2>14 DEF HostDies, BarInv, ShapeInv, TypeOK, ExecTypeOK, Waiting, RegistrationFree,
       Registering, BootSteps, FinSteps
  <2> QED
    BY <1>1, <2>1, <2>2, <2>3, <2>4, <2>5, <2>6, <2>7, <2>8, <2>9, <2>10, <2>11, <2>12, <2>13,
       <2>14 DEF HostSteps
<1>2. ASSUME ControllerSteps PROVE UNCHANGED barFrame
  BY <1>2 DEF ControllerSteps, HandleCreate, HandleCreateCut, HandleReserve, HandleReserveCut,
     HandleAlarm, HandleComplete, HandleCompleteCut, HandleFreeze, HandleFreezeCut,
     HandleDelete, TailRetires, TailRemoves,
     TailCut, barFrame
<1>3. ASSUME CallSteps PROVE BarInv'
  <2>1. ASSUME NEW e \in Execs, BootBegins(e) PROVE BarInv'
    BY <2>1 DEF BootBegins, BootTo, BarInv, ShapeInv, TypeOK, ExecTypeOK, Waiting,
       RegistrationFree, Registering, BootSteps, FinSteps
  <2>2. ASSUME NEW e \in Execs, BootWrites(e) PROVE BarInv'
    BY <2>2 DEF BootWrites, BootTo, BarInv, ShapeInv, TypeOK, ExecTypeOK, Waiting,
       RegistrationFree, Registering, BootSteps, FinSteps
  <2>3. ASSUME NEW e \in Execs, BootAuthorizes(e) PROVE BarInv'
    BY <2>3 DEF BootAuthorizes, BootTo, BarInv, ShapeInv, TypeOK, ExecTypeOK, Waiting,
       RegistrationFree, Registering, BootSteps, FinSteps
  <2>4. ASSUME NEW e \in Execs, BootArms(e) PROVE BarInv'
    BY <2>4 DEF BootArms, BootTo, BarInv, ShapeInv, TypeOK, ExecTypeOK, Waiting, RegistrationFree,
       Registering, BootSteps, FinSteps
  <2>5. ASSUME NEW e \in Execs, BootDispatches(e) PROVE BarInv'
    BY <2>5 DEF BootDispatches, BootTo, BarInv, ShapeInv, TypeOK, ExecTypeOK, Waiting,
       RegistrationFree, Registering, BootSteps, FinSteps
  <2>6. ASSUME NEW e \in Execs, BootKilled(e) PROVE BarInv'
    BY <2>6 DEF BootKilled, BootTo, BarInv, ShapeInv, TypeOK, ExecTypeOK, Waiting,
       RegistrationFree, Registering, BootSteps, FinSteps
  <2>7. ASSUME NEW e \in Execs, FinalizeBegins(e) \/ DisposeBegins(e) \/ CallKilled(e)
        PROVE  UNCHANGED barFrame
    BY <2>7 DEF FinalizeBegins, DisposeBegins, CallKilled, FinTo, DispTo, barFrame
  <2> QED
    BY <1>3, <2>1, <2>2, <2>3, <2>4, <2>5, <2>6, <2>7, <1>f DEF CallSteps
<1>4. ASSUME RecoverySteps PROVE BarInv'
  <2>1. ASSUME RecoverBegins PROVE BarInv'
    BY <2>1 DEF RecoverBegins, NotDone, RecTo, BarInv, ShapeInv, TypeOK, ExecTypeOK, Waiting,
       RegistrationFree, Registering, BootSteps, FinSteps
  <2>2. ASSUME NEW e \in Execs, RecoverUnstarted(e) PROVE BarInv'
    BY <2>2 DEF RecoverUnstarted, RecTo, BarInv, ShapeInv, TypeOK, ExecTypeOK, Waiting,
       RegistrationFree, Registering, BootSteps, FinSteps
  <2>3. ASSUME NEW e \in Execs, RecoverBare(e) PROVE BarInv'
    BY <2>3 DEF RecoverBare, RecTo, BarInv, ShapeInv, TypeOK, ExecTypeOK, Waiting,
       RegistrationFree, Registering, BootSteps, FinSteps
  <2>4. ASSUME NEW e \in Execs, RecoverFinalizes(e) PROVE BarInv'
    BY <2>4 DEF RecoverFinalizes, RecTo, FinTo, BarInv, ShapeInv, TypeOK, ExecTypeOK, Waiting,
       RegistrationFree, Registering, BootSteps, FinSteps
  <2>5. ASSUME NEW e \in Execs, RecoverAbsent(e) PROVE BarInv'
    BY <2>5 DEF RecoverAbsent, NotDone, RecTo, ClearActive, BarInv, ShapeInv, TypeOK, ExecTypeOK,
       Waiting, RegistrationFree, Registering, BootSteps, FinSteps
  <2>6. ASSUME RecoverFinalized PROVE BarInv'
    BY <2>6 DEF RecoverFinalized, NotDone, RecTo, DispTo, ClearActive, BarInv, ShapeInv, TypeOK,
       ExecTypeOK, Waiting, RegistrationFree, Registering, BootSteps, FinSteps
  <2>7. ASSUME RecoverDisposed PROVE BarInv'
    BY <2>7 DEF RecoverDisposed, RecTo, BarInv, ShapeInv, TypeOK, ExecTypeOK, Waiting,
       RegistrationFree, Registering, BootSteps, FinSteps
  <2>8. ASSUME RecoverUnmounts PROVE BarInv'
    BY <2>8 DEF RecoverUnmounts, RecTo, BarInv, ShapeInv, TypeOK, ExecTypeOK, Waiting,
       RegistrationFree, Registering, BootSteps, FinSteps
  <2>9. ASSUME RecoverRemoves PROVE BarInv'
    BY <2>9 DEF RecoverRemoves, NotDone, RecTo, BarInv, ShapeInv, TypeOK, ExecTypeOK, Waiting,
       RegistrationFree, Registering, BootSteps, FinSteps
  <2>10. ASSUME RecoverCut PROVE BarInv'
    BY <2>10 DEF RecoverCut, NotDone, RecTo, UnmountCut, BarInv, ShapeInv, TypeOK, ExecTypeOK,
       Waiting, RegistrationFree, Registering, BootSteps, FinSteps
  <2> QED
    BY <1>4, <2>1, <2>2, <2>3, <2>4, <2>5, <2>6, <2>7, <2>8, <2>9, <2>10 DEF RecoverySteps
<1>5. ASSUME ExecProcesses, UNCHANGED callRest PROVE UNCHANGED barFrame
  BY <1>5 DEF ExecProcesses, CandidateEnds, SupervisorCreates, SupervisorRegisters,
     SupervisorChecks, SupervisorStarts, SupervisorWatches, SupervisorCleans, SupervisorObserves,
     SupervisorKilled, SupervisorStopped, TimerFires, ReaperKills, ReaperRemoves, ReaperDisarms,
     SupVars, SupSays, barFrame
<1>6. ASSUME ExecCalls, UNCHANGED callRest PROVE UNCHANGED barFrame
  BY <1>6 DEF ExecCalls, FinalizeStops, FinalizeRemoves, FinalizeProves, FinalizeDisarms,
     FinalizeSettles, DisposeRemoves, DisposeEnds, FinTo, SupVars, SupSays, DispTo, barFrame
<1>7. ASSUME MachineStops PROVE UNCHANGED barFrame
  BY <1>7 DEF MachineStops, barFrame
<1>8. ASSUME UNCHANGED vars PROVE UNCHANGED barFrame
  BY <1>8 DEF vars, barFrame
<1> QED
  BY <1>f, <1>1, <1>2, <1>3, <1>4, <1>5, <1>6, <1>7, <1>8 DEF Next

(* What OwnerInv is about.                                                 *)
ownerFrame == <<hostVars, wireVars, boot, disp, act, started, completed>>

(* What the owner's place says of its call, its rows and its execution     *)
(* stays true, whatever answers are lost and wherever the owner dies.      *)
LEMMA OwnerKept ==
  ASSUME ShapeInv, OwnerInv, BarInv, BootStages, [Next]_vars PROVE OwnerInv'
<1>f. ASSUME UNCHANGED ownerFrame PROVE OwnerInv'
  BY <1>f DEF ownerFrame, OwnerInv, CallIs, RowsAre, RunIsNew, DisposedIsCompleted
<1>1. ASSUME HostSteps PROVE OwnerInv'
  <2>1. ASSUME HostCreates PROVE OwnerInv'
    BY <2>1 DEF HostCreates, Call, OwnerInv, CallIs, RowsAre, RunIsNew, DisposedIsCompleted,
       ShapeInv, TypeOK, ExecTypeOK, RunIs, BarInv, Waiting, Requests, NoRequest, BootSteps,
       FinSteps
  <2>2. ASSUME NEW e \in Execs, HostIntends(e) PROVE OwnerInv'
    BY <2>2 DEF HostIntends, OwnerInv, CallIs, RowsAre, RunIsNew, DisposedIsCompleted, ShapeInv,
       TypeOK, ExecTypeOK, RunIs, BarInv, Waiting, Requests, NoRequest, BootSteps, FinSteps
  <2>3. ASSUME HostReserves PROVE OwnerInv'
    BY <2>3 DEF HostReserves, Call, OwnerInv, CallIs, RowsAre, RunIsNew, DisposedIsCompleted,
       ShapeInv, TypeOK, ExecTypeOK, RunIs, BarInv, Waiting, Requests, NoRequest, BootSteps,
       FinSteps
  <2>4. ASSUME HostDispatches PROVE OwnerInv'
    BY <2>4 DEF HostDispatches, OwnerInv, CallIs, RowsAre, RunIsNew, DisposedIsCompleted,
       ShapeInv, TypeOK, ExecTypeOK, RunIs, BarInv, Waiting, Requests, NoRequest, BootSteps,
       FinSteps
  <2>5. ASSUME HostStarts PROVE OwnerInv'
    BY <2>5 DEF HostStarts, OwnerInv, CallIs, RowsAre, RunIsNew, DisposedIsCompleted, ShapeInv,
       TypeOK, ExecTypeOK, RunIs, BarInv, Waiting, Requests, NoRequest, BootSteps, FinSteps
  <2>6. ASSUME HostStarted PROVE OwnerInv'
    BY <2>6 DEF HostStarted, OwnerInv, CallIs, RowsAre, RunIsNew, DisposedIsCompleted, ShapeInv,
       TypeOK, ExecTypeOK, RunIs, BarInv, Waiting, Requests, NoRequest, BootSteps, FinSteps
  <2>7. ASSUME HostCollects PROVE OwnerInv'
    BY <2>7 DEF HostCollects, OwnerInv, CallIs, RowsAre, RunIsNew, DisposedIsCompleted, ShapeInv,
       TypeOK, ExecTypeOK, RunIs, BarInv, Waiting, Requests, NoRequest, BootSteps, FinSteps
  <2>8. ASSUME HostCollected PROVE OwnerInv'
    BY <2>8 DEF HostCollected, Call, OwnerInv, CallIs, RowsAre, RunIsNew, DisposedIsCompleted,
       ShapeInv, TypeOK, ExecTypeOK, RunIs, BarInv, Waiting, Requests, NoRequest, BootSteps,
       FinSteps
  <2>9. ASSUME HostFreezes PROVE OwnerInv'
    BY <2>9 DEF HostFreezes, Call, OwnerInv, CallIs, RowsAre, RunIsNew, DisposedIsCompleted,
       ShapeInv, TypeOK, ExecTypeOK, RunIs, BarInv, Waiting, Requests, NoRequest, BootSteps,
       FinSteps
  <2>10. ASSUME HostDeletes PROVE OwnerInv'
    BY <2>10 DEF HostDeletes, Call, OwnerInv, CallIs, RowsAre, RunIsNew, DisposedIsCompleted,
       ShapeInv, TypeOK, ExecTypeOK, RunIs, BarInv, Waiting, Requests, NoRequest, BootSteps,
       FinSteps
  <2>11. ASSUME HostAnswered PROVE OwnerInv'
    BY <2>11 DEF HostAnswered, Answered, OwnerInv, CallIs, RowsAre, RunIsNew, DisposedIsCompleted,
       ShapeInv, TypeOK, ExecTypeOK, RunIs, BarInv, Waiting, Requests, NoRequest, BootSteps,
       FinSteps
  <2>12. ASSUME HostDisposed PROVE OwnerInv'
    BY <2>12 DEF HostDisposed, OwnerInv, CallIs, RowsAre, RunIsNew, DisposedIsCompleted, ShapeInv,
       TypeOK, ExecTypeOK, RunIs, BarInv, Waiting, Requests, NoRequest, BootSteps, FinSteps
  <2>13. ASSUME HostLosesReply PROVE OwnerInv'
    BY <2>13 DEF HostLosesReply, OwnerInv, CallIs, RowsAre, RunIsNew, DisposedIsCompleted,
       ShapeInv, TypeOK, ExecTypeOK, RunIs, BarInv, Waiting, Requests, NoRequest, BootSteps,
       FinSteps
  <2>14. ASSUME HostDies PROVE OwnerInv'
    BY <2>14 DEF HostDies, OwnerInv, CallIs, RowsAre, RunIsNew, DisposedIsCompleted, ShapeInv,
       TypeOK, ExecTypeOK, RunIs, BarInv, Waiting, Requests, NoRequest, BootSteps, FinSteps
  <2> QED
    BY <1>1, <2>1, <2>2, <2>3, <2>4, <2>5, <2>6, <2>7, <2>8, <2>9, <2>10, <2>11, <2>12, <2>13,
       <2>14 DEF HostSteps
<1>2. ASSUME ControllerSteps PROVE OwnerInv'
  <2>1. ASSUME HandleCreate PROVE OwnerInv'
    BY <2>1 DEF HandleCreate, Serve, OwnerInv, CallIs, RowsAre, RunIsNew, DisposedIsCompleted,
       ShapeInv, TypeOK, ExecTypeOK, RunIs, BarInv, Waiting, Requests, NoRequest, BootSteps,
       FinSteps
  <2>2. ASSUME HandleCreateCut PROVE OwnerInv'
    BY <2>2 DEF HandleCreateCut, Serve, Cut, OwnerInv, CallIs, RowsAre, RunIsNew,
       DisposedIsCompleted, ShapeInv, TypeOK, ExecTypeOK, RunIs, BarInv, Waiting, Requests,
       NoRequest, BootSteps, FinSteps
  <2>3. ASSUME HandleReserve PROVE OwnerInv'
    BY <2>3 DEF HandleReserve, Serve, OwnerInv, CallIs, RowsAre, RunIsNew, DisposedIsCompleted,
       ShapeInv, TypeOK, ExecTypeOK, RunIs, BarInv, Waiting, Requests, NoRequest, BootSteps,
       FinSteps
  <2>4. ASSUME HandleReserveCut PROVE OwnerInv'
    BY <2>4 DEF HandleReserveCut, Serve, Cut, OwnerInv, CallIs, RowsAre, RunIsNew,
       DisposedIsCompleted, ShapeInv, TypeOK, ExecTypeOK, RunIs, BarInv, Waiting, Requests,
       NoRequest, BootSteps, FinSteps
  <2>5. ASSUME HandleComplete PROVE OwnerInv'
    BY <2>5 DEF HandleComplete, Serve, Completable, BootStages, OwnerInv, CallIs, RowsAre,
       RunIsNew, DisposedIsCompleted, ShapeInv, TypeOK, ExecTypeOK, RunIs, BarInv, Waiting,
       Requests, NoRequest, BootSteps, FinSteps
  <2>6. ASSUME HandleFreeze PROVE OwnerInv'
    BY <2>6 DEF HandleFreeze, Serve, OwnerInv, CallIs, RowsAre, RunIsNew, DisposedIsCompleted,
       ShapeInv, TypeOK, ExecTypeOK, RunIs, BarInv, Waiting, Requests, NoRequest, BootSteps,
       FinSteps
  <2>7. ASSUME HandleFreezeCut PROVE OwnerInv'
    BY <2>7 DEF HandleFreezeCut, Serve, Cut, OwnerInv, CallIs, RowsAre, RunIsNew,
       DisposedIsCompleted, ShapeInv, TypeOK, ExecTypeOK, RunIs, BarInv, Waiting, Requests,
       NoRequest, BootSteps, FinSteps
  <2>8. ASSUME HandleDelete PROVE OwnerInv'
    BY <2>8 DEF HandleDelete, Serve, Cut, UnmountCut, OwnerInv, CallIs, RowsAre, RunIsNew,
       DisposedIsCompleted, ShapeInv, TypeOK, ExecTypeOK, RunIs, BarInv, Waiting, Requests,
       NoRequest, BootSteps, FinSteps
  <2>9. ASSUME TailRemoves PROVE OwnerInv'
    BY <2>9 DEF TailRemoves, Serve, OwnerInv, CallIs, RowsAre, RunIsNew, DisposedIsCompleted,
       ShapeInv, TypeOK, ExecTypeOK, RunIs, BarInv, Waiting, Requests, NoRequest, BootSteps,
       FinSteps
  <2>10. ASSUME TailRetires \/ TailCut
        PROVE  UNCHANGED ownerFrame
    BY <2>10 DEF TailRetires, TailCut, ownerFrame
  <2>11. ASSUME HandleAlarm PROVE OwnerInv'
    BY <2>11 DEF HandleAlarm, Serve, Cut, OwnerInv, CallIs, RowsAre, RunIsNew,
       DisposedIsCompleted, ShapeInv, TypeOK, ExecTypeOK, RunIs, BarInv, Waiting, Requests,
       NoRequest, BootSteps, FinSteps
  <2>12. ASSUME HandleCompleteCut PROVE OwnerInv'
    BY <2>12 DEF HandleCompleteCut, Cut, Serve, Completable, BootStages, OwnerInv, CallIs, RowsAre,
       RunIsNew, DisposedIsCompleted, ShapeInv, TypeOK, ExecTypeOK, RunIs, BarInv, Waiting,
       Requests, NoRequest, BootSteps, FinSteps
  <2> QED
    BY <1>2, <2>1, <2>2, <2>3, <2>4, <2>5, <2>6, <2>7, <2>8, <2>9, <2>10, <1>f, <2>11, <2>12 DEF ControllerSteps
<1>3. ASSUME CallSteps PROVE OwnerInv'
  <2>1. ASSUME NEW e \in Execs, BootBegins(e) PROVE OwnerInv'
    BY <2>1 DEF BootBegins, BootTo, OwnerInv, CallIs, RowsAre, RunIsNew, DisposedIsCompleted,
       ShapeInv, TypeOK, ExecTypeOK, RunIs, BarInv, Waiting, Requests, NoRequest, BootSteps,
       FinSteps
  <2>2. ASSUME NEW e \in Execs, BootWrites(e) PROVE OwnerInv'
    BY <2>2 DEF BootWrites, BootTo, OwnerInv, CallIs, RowsAre, RunIsNew, DisposedIsCompleted,
       ShapeInv, TypeOK, ExecTypeOK, RunIs, BarInv, Waiting, Requests, NoRequest, BootSteps,
       FinSteps
  <2>3. ASSUME NEW e \in Execs, BootAuthorizes(e) PROVE OwnerInv'
    BY <2>3 DEF BootAuthorizes, BootTo, OwnerInv, CallIs, RowsAre, RunIsNew, DisposedIsCompleted,
       ShapeInv, TypeOK, ExecTypeOK, RunIs, BarInv, Waiting, Requests, NoRequest, BootSteps,
       FinSteps
  <2>4. ASSUME NEW e \in Execs, BootArms(e) PROVE OwnerInv'
    BY <2>4 DEF BootArms, BootTo, OwnerInv, CallIs, RowsAre, RunIsNew, DisposedIsCompleted,
       ShapeInv, TypeOK, ExecTypeOK, RunIs, BarInv, Waiting, Requests, NoRequest, BootSteps,
       FinSteps
  <2>5. ASSUME NEW e \in Execs, BootDispatches(e) PROVE OwnerInv'
    BY <2>5 DEF BootDispatches, BootTo, OwnerInv, CallIs, RowsAre, RunIsNew, DisposedIsCompleted,
       ShapeInv, TypeOK, ExecTypeOK, RunIs, BarInv, Waiting, Requests, NoRequest, BootSteps,
       FinSteps
  <2>6. ASSUME NEW e \in Execs, BootKilled(e) PROVE OwnerInv'
    BY <2>6 DEF BootKilled, BootTo, OwnerInv, CallIs, RowsAre, RunIsNew, DisposedIsCompleted,
       ShapeInv, TypeOK, ExecTypeOK, RunIs, BarInv, Waiting, Requests, NoRequest, BootSteps,
       FinSteps
  <2>7. ASSUME NEW e \in Execs, FinalizeBegins(e) PROVE OwnerInv'
    BY <2>7 DEF FinalizeBegins, FinTo, OwnerInv, CallIs, RowsAre, RunIsNew, DisposedIsCompleted,
       ShapeInv, TypeOK, ExecTypeOK, RunIs, BarInv, Waiting, Requests, NoRequest, BootSteps,
       FinSteps
  <2>8. ASSUME NEW e \in Execs, DisposeBegins(e) PROVE OwnerInv'
    BY <2>8 DEF DisposeBegins, DispTo, OwnerInv, CallIs, RowsAre, RunIsNew, DisposedIsCompleted,
       ShapeInv, TypeOK, ExecTypeOK, RunIs, BarInv, Waiting, Requests, NoRequest, BootSteps,
       FinSteps
  <2>9. ASSUME NEW e \in Execs, CallKilled(e) PROVE OwnerInv'
    BY <2>9 DEF CallKilled, FinTo, DispTo, OwnerInv, CallIs, RowsAre, RunIsNew,
       DisposedIsCompleted, ShapeInv, TypeOK, ExecTypeOK, RunIs, BarInv, Waiting, Requests,
       NoRequest, BootSteps, FinSteps
  <2> QED
    BY <1>3, <2>1, <2>2, <2>3, <2>4, <2>5, <2>6, <2>7, <2>8, <2>9 DEF CallSteps
<1>4. ASSUME RecoverySteps PROVE OwnerInv'
  <2>1. ASSUME RecoverBegins PROVE OwnerInv'
    BY <2>1 DEF RecoverBegins, NotDone, RecTo, OwnerInv, CallIs, RowsAre, RunIsNew,
       DisposedIsCompleted, ShapeInv, TypeOK, ExecTypeOK, RunIs, BarInv, Waiting, Requests,
       NoRequest, BootSteps, FinSteps
  <2>2. ASSUME NEW e \in Execs, RecoverAbsent(e) PROVE OwnerInv'
    BY <2>2 DEF RecoverAbsent, NotDone, RecTo, ClearActive, OwnerInv, CallIs, RowsAre, RunIsNew,
       DisposedIsCompleted, ShapeInv, TypeOK, ExecTypeOK, RunIs, BarInv, Waiting, Requests,
       NoRequest, BootSteps, FinSteps
  <2>3. ASSUME RecoverFinalized PROVE OwnerInv'
    BY <2>3 DEF RecoverFinalized, NotDone, RecTo, DispTo, ClearActive, OwnerInv, CallIs, RowsAre,
       RunIsNew, DisposedIsCompleted, ShapeInv, TypeOK, ExecTypeOK, RunIs, BarInv, Waiting,
       Requests, NoRequest, BootSteps, FinSteps
  <2>4. ASSUME RecoverCut PROVE OwnerInv'
    BY <2>4 DEF RecoverCut, NotDone, RecTo, UnmountCut, OwnerInv, CallIs, RowsAre, RunIsNew,
       DisposedIsCompleted, ShapeInv, TypeOK, ExecTypeOK, RunIs, BarInv, Waiting, Requests,
       NoRequest, BootSteps, FinSteps
  <2>5. ASSUME RecoverDisposed \/ RecoverUnmounts \/ RecoverRemoves
        PROVE  UNCHANGED ownerFrame
    BY <2>5 DEF RecoverDisposed, RecoverUnmounts, RecoverRemoves, RecTo, NotDone, ownerFrame
  <2>6. ASSUME NEW e \in Execs, RecoverUnstarted(e) \/ RecoverBare(e) \/ RecoverFinalizes(e)
        PROVE  UNCHANGED ownerFrame
    BY <2>6 DEF RecoverUnstarted, RecoverBare, RecoverFinalizes, RecTo, FinTo, ownerFrame
  <2> QED
    BY <1>4, <2>1, <2>2, <2>3, <2>4, <2>5, <1>f, <2>6 DEF RecoverySteps
<1>5. ASSUME ExecProcesses, UNCHANGED callRest PROVE UNCHANGED ownerFrame
  BY <1>5 DEF ExecProcesses, CandidateEnds, SupervisorCreates, SupervisorRegisters,
     SupervisorChecks, SupervisorStarts, SupervisorWatches, SupervisorCleans, SupervisorObserves,
     SupervisorKilled, SupervisorStopped, TimerFires, ReaperKills, ReaperRemoves, ReaperDisarms,
     SupVars, SupSays, ownerFrame
<1>6. ASSUME ExecCalls, UNCHANGED callRest PROVE OwnerInv'
  <2>1. ASSUME NEW e \in Execs, DisposeEnds(e) PROVE OwnerInv'
    BY <1>6, <2>1 DEF DisposeEnds, DispTo, OwnerInv, CallIs, RowsAre, RunIsNew,
       DisposedIsCompleted, ShapeInv, TypeOK, ExecTypeOK, RunIs, BarInv, Waiting, Requests,
       NoRequest, BootSteps, FinSteps
  <2>2. ASSUME NEW e \in Execs, FinalizeStops(e) \/ FinalizeRemoves(e) \/ FinalizeProves(e) \/
     FinalizeDisarms(e) \/ FinalizeSettles(e) \/ DisposeRemoves(e)
        PROVE  UNCHANGED ownerFrame
    BY <1>6, <2>2 DEF FinalizeStops, FinalizeRemoves, FinalizeProves, FinalizeDisarms,
       FinalizeSettles, DisposeRemoves, FinTo, SupVars, SupSays, ownerFrame
  <2> QED
    BY <1>6, <2>1, <2>2, <1>f DEF ExecCalls
<1>7. ASSUME MachineStops PROVE UNCHANGED ownerFrame
  BY <1>7 DEF MachineStops, ownerFrame
<1>8. ASSUME UNCHANGED vars PROVE UNCHANGED ownerFrame
  BY <1>8 DEF vars, ownerFrame
<1> QED
  BY <1>f, <1>1, <1>2, <1>3, <1>4, <1>5, <1>6, <1>7, <1>8 DEF Next

(* What LifeInv is about.                                                  *)
lifeFrame == <<boot, fin, disp, proof, root, manifest, timer, reaper, sup, box, completed, record>>

(* An execution goes through its stages in order: the stages before its    *)
(* supervisor leave nothing running, finalize proves only what it stopped  *)
(* and removed, and dispose takes only what was proved.                    *)
LEMMA LifeKept ==
  ASSUME ShapeInv, OwnerInv, LockInv, BarInv, LifeInv, RecoveryInv, [Next]_vars PROVE LifeInv'
<1>f. ASSUME UNCHANGED lifeFrame PROVE LifeInv'
  BY <1>f DEF lifeFrame, LifeInv, BootStages, FinStages, DispStages, ProofStays, ProofIsFinal,
     UnitsHaveFiles, UnitsAbsent, FinSteps, BootSteps
<1>1. ASSUME HostSteps PROVE LifeInv'
  <2>1. ASSUME HostStarts PROVE LifeInv'
    BY <2>1 DEF HostStarts, OwnerInv, RunIsNew, RunIs, LifeInv, BootStages, FinStages, DispStages,
       ProofStays, ProofIsFinal, UnitsHaveFiles, ShapeInv, TypeOK, ExecTypeOK, UnitsAbsent,
       LockInv, BootAlone, FinAlone, DispAlone, BootSteps, FinSteps
  <2>2. ASSUME HostCollects PROVE LifeInv'
    BY <2>2 DEF HostCollects, LifeInv, BootStages, FinStages, DispStages, ProofStays,
       ProofIsFinal, UnitsHaveFiles, ShapeInv, TypeOK, ExecTypeOK, UnitsAbsent, LockInv,
       BootAlone, FinAlone, DispAlone, BootSteps, FinSteps
  <2>3. ASSUME HostAnswered PROVE LifeInv'
    BY <2>3 DEF HostAnswered, Answered, LifeInv, BootStages, FinStages, DispStages, ProofStays,
       ProofIsFinal, UnitsHaveFiles, ShapeInv, TypeOK, ExecTypeOK, UnitsAbsent, LockInv,
       BootAlone, FinAlone, DispAlone, BootSteps, FinSteps
  <2>4. ASSUME HostCreates \/ HostReserves \/ HostDispatches \/ HostStarted \/ HostCollected \/
     HostFreezes \/ HostDeletes \/ HostDisposed \/ HostLosesReply \/ HostDies
        PROVE  UNCHANGED lifeFrame
    BY <2>4 DEF HostCreates, HostReserves, HostDispatches, HostStarted, HostCollected,
       HostFreezes, HostDeletes, HostDisposed, HostLosesReply, HostDies, lifeFrame
  <2>5. ASSUME NEW e \in Execs, HostIntends(e)
        PROVE  UNCHANGED lifeFrame
    BY <2>5 DEF HostIntends, lifeFrame
  <2> QED
    BY <1>1, <2>1, <2>2, <2>3, <2>4, <1>f, <2>5 DEF HostSteps
<1>2. ASSUME ControllerSteps PROVE LifeInv'
  <2>1. ASSUME HandleComplete PROVE LifeInv'
    BY <2>1 DEF HandleComplete, Serve, Completable, RunIs, LifeInv, BootStages, FinStages,
       DispStages, ProofStays, ProofIsFinal, UnitsHaveFiles, ShapeInv, TypeOK, ExecTypeOK,
       UnitsAbsent, LockInv, BootAlone, FinAlone, DispAlone, BootSteps, FinSteps
  <2>2. ASSUME HandleAlarm \/ HandleCreate \/ HandleCreateCut \/ HandleReserve \/ HandleReserveCut \/
     HandleFreeze \/ HandleFreezeCut \/ HandleDelete \/ TailRetires \/ TailRemoves \/ TailCut
        PROVE  UNCHANGED lifeFrame
    BY <2>2 DEF HandleAlarm, HandleCreate, HandleCreateCut, HandleReserve, HandleReserveCut, HandleFreeze,
       HandleFreezeCut, HandleDelete, TailRetires, TailRemoves, TailCut, lifeFrame
  <2>3. ASSUME HandleCompleteCut PROVE LifeInv'
    BY <2>3 DEF HandleCompleteCut, Cut, Serve, Completable, RunIs, LifeInv, BootStages, FinStages,
       DispStages, ProofStays, ProofIsFinal, UnitsHaveFiles, ShapeInv, TypeOK, ExecTypeOK,
       UnitsAbsent, LockInv, BootAlone, FinAlone, DispAlone, BootSteps, FinSteps
  <2> QED
    BY <1>2, <2>1, <2>2, <2>3, <1>f DEF ControllerSteps
<1>3. ASSUME CallSteps PROVE LifeInv'
  <2>1. ASSUME NEW e \in Execs, BootBegins(e) PROVE LifeInv'
    BY <2>1 DEF BootBegins, BootTo, RegistrationFree, Registering, LifeInv, BootStages, FinStages,
       DispStages, ProofStays, ProofIsFinal, UnitsHaveFiles, ShapeInv, TypeOK, ExecTypeOK,
       UnitsAbsent, LockInv, BootAlone, FinAlone, DispAlone, BootSteps, FinSteps
  <2>2. ASSUME NEW e \in Execs, BootWrites(e) PROVE LifeInv'
    BY <2>2 DEF BootWrites, BootTo, LifeInv, BootStages, FinStages, DispStages, ProofStays,
       ProofIsFinal, UnitsHaveFiles, ShapeInv, TypeOK, ExecTypeOK, UnitsAbsent, LockInv,
       BootAlone, FinAlone, DispAlone, BootSteps, FinSteps
  <2>3. ASSUME NEW e \in Execs, BootAuthorizes(e) PROVE LifeInv'
    BY <2>3 DEF BootAuthorizes, BootTo, LifeInv, BootStages, FinStages, DispStages, ProofStays,
       ProofIsFinal, UnitsHaveFiles, ShapeInv, TypeOK, ExecTypeOK, UnitsAbsent, LockInv,
       BootAlone, FinAlone, DispAlone, BootSteps, FinSteps
  <2>4. ASSUME NEW e \in Execs, BootArms(e) PROVE LifeInv'
    BY <2>4 DEF BootArms, BootTo, LifeInv, BootStages, FinStages, DispStages, ProofStays,
       ProofIsFinal, UnitsHaveFiles, ShapeInv, TypeOK, ExecTypeOK, UnitsAbsent, LockInv,
       BootAlone, FinAlone, DispAlone, BootSteps, FinSteps
  <2>5. ASSUME NEW e \in Execs, BootDispatches(e) PROVE LifeInv'
    BY <2>5 DEF BootDispatches, BootTo, BarInv, LifeInv, BootStages, FinStages, DispStages,
       ProofStays, ProofIsFinal, UnitsHaveFiles, ShapeInv, TypeOK, ExecTypeOK, UnitsAbsent,
       LockInv, BootAlone, FinAlone, DispAlone, BootSteps, FinSteps
  <2>6. ASSUME NEW e \in Execs, BootKilled(e) PROVE LifeInv'
    BY <2>6 DEF BootKilled, BootTo, LifeInv, BootStages, FinStages, DispStages, ProofStays,
       ProofIsFinal, UnitsHaveFiles, ShapeInv, TypeOK, ExecTypeOK, UnitsAbsent, LockInv,
       BootAlone, FinAlone, DispAlone, BootSteps, FinSteps
  <2>7. ASSUME NEW e \in Execs, FinalizeBegins(e) PROVE LifeInv'
    BY <2>7 DEF FinalizeBegins, FinTo, RegistrationFree, Registering, LifeInv, BootStages,
       FinStages, DispStages, ProofStays, ProofIsFinal, UnitsHaveFiles, ShapeInv, TypeOK,
       ExecTypeOK, UnitsAbsent, LockInv, BootAlone, FinAlone, DispAlone, BootSteps, FinSteps
  <2>8. ASSUME NEW e \in Execs, DisposeBegins(e) PROVE LifeInv'
    BY <2>8 DEF DisposeBegins, DispTo, OwnerInv, DisposedIsCompleted, MayDispose,
       RegistrationFree, Registering, LifeInv, BootStages, FinStages, DispStages, ProofStays,
       ProofIsFinal, UnitsHaveFiles, ShapeInv, TypeOK, ExecTypeOK, UnitsAbsent, LockInv,
       BootAlone, FinAlone, DispAlone, BootSteps, FinSteps
  <2>9. ASSUME NEW e \in Execs, CallKilled(e) PROVE LifeInv'
    BY <2>9 DEF CallKilled, FinTo, DispTo, LifeInv, BootStages, FinStages, DispStages, ProofStays,
       ProofIsFinal, UnitsHaveFiles, ShapeInv, TypeOK, ExecTypeOK, UnitsAbsent, LockInv,
       BootAlone, FinAlone, DispAlone, BootSteps, FinSteps
  <2> QED
    BY <1>3, <2>1, <2>2, <2>3, <2>4, <2>5, <2>6, <2>7, <2>8, <2>9 DEF CallSteps
<1>4. ASSUME RecoverySteps PROVE LifeInv'
  <2>1. ASSUME NEW e \in Execs, RecoverUnstarted(e) PROVE LifeInv'
    BY <2>1 DEF RecoverUnstarted, RecTo, LifeInv, BootStages, FinStages, DispStages, ProofStays,
       ProofIsFinal, UnitsHaveFiles, ShapeInv, TypeOK, ExecTypeOK, UnitsAbsent, LockInv,
       BootAlone, FinAlone, DispAlone, BootSteps, FinSteps
  <2>2. ASSUME NEW e \in Execs, RecoverBare(e) PROVE LifeInv'
    BY <2>2 DEF RecoverBare, RecTo, LifeInv, BootStages, FinStages, DispStages, ProofStays,
       ProofIsFinal, UnitsHaveFiles, ShapeInv, TypeOK, ExecTypeOK, UnitsAbsent, LockInv,
       BootAlone, FinAlone, DispAlone, BootSteps, FinSteps
  <2>3. ASSUME NEW e \in Execs, RecoverFinalizes(e) PROVE LifeInv'
    BY <2>3 DEF RecoverFinalizes, RecTo, FinTo, LifeInv, BootStages, FinStages, DispStages,
       ProofStays, ProofIsFinal, UnitsHaveFiles, ShapeInv, TypeOK, ExecTypeOK, UnitsAbsent,
       LockInv, BootAlone, FinAlone, DispAlone, BootSteps, FinSteps
  <2>4. ASSUME NEW e \in Execs, RecoverAbsent(e) PROVE LifeInv'
    BY <2>4 DEF RecoverAbsent, NotDone, RecTo, ClearActive, Proven, NeedsNoProof, Known, LifeInv,
       BootStages, FinStages, DispStages, ProofStays, ProofIsFinal, UnitsHaveFiles, ShapeInv,
       TypeOK, ExecTypeOK, UnitsAbsent, LockInv, BootAlone, FinAlone, DispAlone, BootSteps,
       FinSteps
  <2>5. ASSUME RecoverFinalized PROVE LifeInv'
    BY <2>5 DEF RecoverFinalized, NotDone, RecTo, DispTo, ClearActive, MayDispose, BarInv,
       LifeInv, BootStages, FinStages, DispStages, ProofStays, ProofIsFinal, UnitsHaveFiles,
       ShapeInv, TypeOK, ExecTypeOK, UnitsAbsent, LockInv, BootAlone, FinAlone, DispAlone,
       BootSteps, FinSteps
  <2>6. ASSUME RecoverCut PROVE LifeInv'
    BY <2>6 DEF RecoverCut, NotDone, RecTo, UnmountCut, LifeInv, BootStages, FinStages,
       DispStages, ProofStays, ProofIsFinal, UnitsHaveFiles, ShapeInv, TypeOK, ExecTypeOK,
       UnitsAbsent, LockInv, BootAlone, FinAlone, DispAlone, BootSteps, FinSteps
  <2>7. ASSUME RecoverBegins \/ RecoverDisposed \/ RecoverUnmounts \/ RecoverRemoves
        PROVE  UNCHANGED lifeFrame
    BY <2>7 DEF RecoverBegins, RecoverDisposed, RecoverUnmounts, RecoverRemoves, NotDone, RecTo,
       lifeFrame
  <2> QED
    BY <1>4, <2>1, <2>2, <2>3, <2>4, <2>5, <2>6, <2>7, <1>f DEF RecoverySteps
<1>5. ASSUME ExecProcesses, UNCHANGED callRest PROVE LifeInv'
  <2>1. ASSUME NEW e \in Execs, CandidateEnds(e) PROVE LifeInv'
    BY <1>5, <2>1 DEF CandidateEnds, LifeInv, BootStages, FinStages, DispStages, ProofStays,
       ProofIsFinal, UnitsHaveFiles, ShapeInv, TypeOK, ExecTypeOK, UnitsAbsent, LockInv,
       BootAlone, FinAlone, DispAlone, BootSteps, FinSteps
  <2>2. ASSUME NEW e \in Execs, SupervisorCreates(e) PROVE LifeInv'
    BY <1>5, <2>2 DEF SupervisorCreates, SupVars, SupSays, LifeInv, BootStages, FinStages,
       DispStages, ProofStays, ProofIsFinal, UnitsHaveFiles, ShapeInv, TypeOK, ExecTypeOK,
       UnitsAbsent, LockInv, BootAlone, FinAlone, DispAlone, BootSteps, FinSteps
  <2>3. ASSUME NEW e \in Execs, SupervisorRegisters(e) PROVE LifeInv'
    BY <1>5, <2>3 DEF SupervisorRegisters, SupVars, LifeInv, BootStages, FinStages, DispStages,
       ProofStays, ProofIsFinal, UnitsHaveFiles, ShapeInv, TypeOK, ExecTypeOK, UnitsAbsent,
       LockInv, BootAlone, FinAlone, DispAlone, BootSteps, FinSteps
  <2>4. ASSUME NEW e \in Execs, SupervisorChecks(e) PROVE LifeInv'
    BY <1>5, <2>4 DEF SupervisorChecks, SupVars, LifeInv, BootStages, FinStages, DispStages,
       ProofStays, ProofIsFinal, UnitsHaveFiles, ShapeInv, TypeOK, ExecTypeOK, UnitsAbsent,
       LockInv, BootAlone, FinAlone, DispAlone, BootSteps, FinSteps
  <2>5. ASSUME NEW e \in Execs, SupervisorStarts(e) PROVE LifeInv'
    BY <1>5, <2>5 DEF SupervisorStarts, SupVars, LifeInv, BootStages, FinStages, DispStages,
       ProofStays, ProofIsFinal, UnitsHaveFiles, ShapeInv, TypeOK, ExecTypeOK, UnitsAbsent,
       LockInv, BootAlone, FinAlone, DispAlone, BootSteps, FinSteps
  <2>6. ASSUME NEW e \in Execs, SupervisorWatches(e) PROVE LifeInv'
    BY <1>5, <2>6 DEF SupervisorWatches, SupVars, SupSays, LifeInv, BootStages, FinStages,
       DispStages, ProofStays, ProofIsFinal, UnitsHaveFiles, ShapeInv, TypeOK, ExecTypeOK,
       UnitsAbsent, LockInv, BootAlone, FinAlone, DispAlone, BootSteps, FinSteps
  <2>7. ASSUME NEW e \in Execs, SupervisorCleans(e) PROVE LifeInv'
    BY <1>5, <2>7 DEF SupervisorCleans, SupVars, SupSays, RemovalLeaves, LifeInv, BootStages,
       FinStages, DispStages, ProofStays, ProofIsFinal, UnitsHaveFiles, ShapeInv, TypeOK,
       ExecTypeOK, UnitsAbsent, LockInv, BootAlone, FinAlone, DispAlone, BootSteps, FinSteps
  <2>8. ASSUME NEW e \in Execs, SupervisorObserves(e) PROVE LifeInv'
    BY <1>5, <2>8 DEF SupervisorObserves, SupVars, SupSays, LifeInv, BootStages, FinStages,
       DispStages, ProofStays, ProofIsFinal, UnitsHaveFiles, ShapeInv, TypeOK, ExecTypeOK,
       UnitsAbsent, LockInv, BootAlone, FinAlone, DispAlone, BootSteps, FinSteps
  <2>9. ASSUME NEW e \in Execs, SupervisorKilled(e) PROVE LifeInv'
    BY <1>5, <2>9 DEF SupervisorKilled, SupVars, SupSays, Settles, LifeInv, BootStages, FinStages,
       DispStages, ProofStays, ProofIsFinal, UnitsHaveFiles, ShapeInv, TypeOK, ExecTypeOK,
       UnitsAbsent, LockInv, BootAlone, FinAlone, DispAlone, BootSteps, FinSteps
  <2>10. ASSUME NEW e \in Execs, SupervisorStopped(e) PROVE LifeInv'
    BY <1>5, <2>10 DEF SupervisorStopped, SupVars, RemovalLeaves, LifeInv, BootStages, FinStages,
       DispStages, ProofStays, ProofIsFinal, UnitsHaveFiles, ShapeInv, TypeOK, ExecTypeOK,
       UnitsAbsent, LockInv, BootAlone, FinAlone, DispAlone, BootSteps, FinSteps
  <2>11. ASSUME NEW e \in Execs, TimerFires(e) PROVE LifeInv'
    BY <1>5, <2>11 DEF TimerFires, LifeInv, BootStages, FinStages, DispStages, ProofStays,
       ProofIsFinal, UnitsHaveFiles, ShapeInv, TypeOK, ExecTypeOK, UnitsAbsent, LockInv,
       BootAlone, FinAlone, DispAlone, BootSteps, FinSteps
  <2>12. ASSUME NEW e \in Execs, ReaperKills(e) PROVE LifeInv'
    BY <1>5, <2>12 DEF ReaperKills, SupVars, SupSays, Settles, LifeInv, BootStages, FinStages,
       DispStages, ProofStays, ProofIsFinal, UnitsHaveFiles, ShapeInv, TypeOK, ExecTypeOK,
       UnitsAbsent, LockInv, BootAlone, FinAlone, DispAlone, BootSteps, FinSteps
  <2>13. ASSUME NEW e \in Execs, ReaperRemoves(e) PROVE LifeInv'
    BY <1>5, <2>13 DEF ReaperRemoves, RemovalLeaves, LifeInv, BootStages, FinStages, DispStages,
       ProofStays, ProofIsFinal, UnitsHaveFiles, ShapeInv, TypeOK, ExecTypeOK, UnitsAbsent,
       LockInv, BootAlone, FinAlone, DispAlone, BootSteps, FinSteps
  <2>14. ASSUME NEW e \in Execs, ReaperDisarms(e) PROVE LifeInv'
    BY <1>5, <2>14 DEF ReaperDisarms, LifeInv, BootStages, FinStages, DispStages, ProofStays,
       ProofIsFinal, UnitsHaveFiles, ShapeInv, TypeOK, ExecTypeOK, UnitsAbsent, LockInv,
       BootAlone, FinAlone, DispAlone, BootSteps, FinSteps
  <2> QED
    BY <1>5, <2>1, <2>2, <2>3, <2>4, <2>5, <2>6, <2>7, <2>8, <2>9, <2>10, <2>11, <2>12, <2>13,
       <2>14 DEF ExecProcesses
<1>6. ASSUME ExecCalls, UNCHANGED callRest PROVE LifeInv'
  <2>1. ASSUME NEW e \in Execs, FinalizeStops(e) PROVE LifeInv'
    BY <1>6, <2>1 DEF FinalizeStops, FinTo, SupVars, SupSays, Settles, LifeInv, BootStages,
       FinStages, DispStages, ProofStays, ProofIsFinal, UnitsHaveFiles, ShapeInv, TypeOK,
       ExecTypeOK, UnitsAbsent, LockInv, BootAlone, FinAlone, DispAlone, BootSteps, FinSteps
  <2>2. ASSUME NEW e \in Execs, FinalizeRemoves(e) PROVE LifeInv'
    BY <1>6, <2>2 DEF FinalizeRemoves, FinTo, RemovalLeaves, LifeInv, BootStages, FinStages,
       DispStages, ProofStays, ProofIsFinal, UnitsHaveFiles, ShapeInv, TypeOK, ExecTypeOK,
       UnitsAbsent, LockInv, BootAlone, FinAlone, DispAlone, BootSteps, FinSteps
  <2>3. ASSUME NEW e \in Execs, FinalizeProves(e) PROVE LifeInv'
    BY <1>6, <2>3 DEF FinalizeProves, FinTo, LifeInv, BootStages, FinStages, DispStages,
       ProofStays, ProofIsFinal, UnitsHaveFiles, ShapeInv, TypeOK, ExecTypeOK, UnitsAbsent,
       LockInv, BootAlone, FinAlone, DispAlone, BootSteps, FinSteps
  <2>4. ASSUME NEW e \in Execs, FinalizeDisarms(e) PROVE LifeInv'
    BY <1>6, <2>4 DEF FinalizeDisarms, FinTo, LifeInv, BootStages, FinStages, DispStages,
       ProofStays, ProofIsFinal, UnitsHaveFiles, ShapeInv, TypeOK, ExecTypeOK, UnitsAbsent,
       LockInv, BootAlone, FinAlone, DispAlone, BootSteps, FinSteps
  <2>5. ASSUME NEW e \in Execs, FinalizeSettles(e) PROVE LifeInv'
    BY <1>6, <2>5 DEF FinalizeSettles, FinTo, LifeInv, BootStages, FinStages, DispStages,
       ProofStays, ProofIsFinal, UnitsHaveFiles, ShapeInv, TypeOK, ExecTypeOK, UnitsAbsent,
       LockInv, BootAlone, FinAlone, DispAlone, BootSteps, FinSteps
  <2>6. ASSUME NEW e \in Execs, DisposeRemoves(e) PROVE LifeInv'
    BY <1>6, <2>6 DEF DisposeRemoves, LifeInv, BootStages, FinStages, DispStages, ProofStays,
       ProofIsFinal, UnitsHaveFiles, ShapeInv, TypeOK, ExecTypeOK, UnitsAbsent, LockInv,
       BootAlone, FinAlone, DispAlone, BootSteps, FinSteps
  <2>7. ASSUME NEW e \in Execs, DisposeEnds(e) PROVE LifeInv'
    BY <1>6, <2>7 DEF DisposeEnds, DispTo, LifeInv, BootStages, FinStages, DispStages, ProofStays,
       ProofIsFinal, UnitsHaveFiles, ShapeInv, TypeOK, ExecTypeOK, UnitsAbsent, LockInv,
       BootAlone, FinAlone, DispAlone, BootSteps, FinSteps
  <2> QED
    BY <1>6, <2>1, <2>2, <2>3, <2>4, <2>5, <2>6, <2>7 DEF ExecCalls
<1>7. ASSUME MachineStops PROVE LifeInv'
  BY <1>7 DEF MachineStops, LifeInv, BootStages, FinStages, DispStages, ProofStays, ProofIsFinal,
     UnitsHaveFiles, ShapeInv, TypeOK, ExecTypeOK, UnitsAbsent, LockInv, BootAlone, FinAlone,
     DispAlone, BootSteps, FinSteps
<1>8. ASSUME UNCHANGED vars PROVE UNCHANGED lifeFrame
  BY <1>8 DEF vars, lifeFrame
<1> QED
  BY <1>f, <1>1, <1>2, <1>3, <1>4, <1>5, <1>6, <1>7, <1>8 DEF Next

(* What WatchInv is about.                                                 *)
watchFrame == <<boot, sup, box, timer, reaper, reaped, late>>

(* A candidate is started only with its timer armed, and the timer goes    *)
(* only with the candidate.                                                *)
LEMMA WatchKept ==
  ASSUME ShapeInv, OwnerInv, LockInv, BarInv, LifeInv, WatchInv, RecoveryInv, [Next]_vars PROVE WatchInv'
<1>f. ASSUME UNCHANGED watchFrame PROVE WatchInv'
  BY <1>f DEF watchFrame, WatchInv, Watched
<1>1. ASSUME HostSteps PROVE WatchInv'
  <2>1. ASSUME HostStarts PROVE WatchInv'
    BY <2>1 DEF HostStarts, RunIs, WatchInv, Watched, ShapeInv, TypeOK, ExecTypeOK, LifeInv,
       UnitsAbsent, BootStages, BootSteps, FinSteps, DispStages, FinStages
  <2>2. ASSUME HostCreates \/ HostReserves \/ HostDispatches \/ HostStarted \/ HostCollects \/
     HostCollected \/ HostFreezes \/ HostDeletes \/ HostAnswered \/ HostDisposed \/ HostLosesReply
     \/ HostDies
        PROVE  UNCHANGED watchFrame
    BY <2>2 DEF HostCreates, HostReserves, HostDispatches, HostStarted, HostCollects,
       HostCollected, HostFreezes, HostDeletes, HostAnswered, HostDisposed, HostLosesReply,
       HostDies, watchFrame
  <2>3. ASSUME NEW e \in Execs, HostIntends(e)
        PROVE  UNCHANGED watchFrame
    BY <2>3 DEF HostIntends, watchFrame
  <2> QED
    BY <1>1, <2>1, <2>2, <1>f, <2>3 DEF HostSteps
<1>2. ASSUME ControllerSteps PROVE UNCHANGED watchFrame
  BY <1>2 DEF ControllerSteps, HandleCreate, HandleCreateCut, HandleReserve, HandleReserveCut,
     HandleAlarm, HandleComplete, HandleCompleteCut, HandleFreeze, HandleFreezeCut,
     HandleDelete, TailRetires, TailRemoves,
     TailCut, watchFrame
<1>3. ASSUME CallSteps PROVE WatchInv'
  <2>1. ASSUME NEW e \in Execs, BootBegins(e) PROVE WatchInv'
    BY <2>1 DEF BootBegins, BootTo, WatchInv, Watched, ShapeInv, TypeOK, ExecTypeOK, LifeInv,
       UnitsAbsent, BootStages, BootSteps, FinSteps, DispStages, FinStages
  <2>2. ASSUME NEW e \in Execs, BootWrites(e) PROVE WatchInv'
    BY <2>2 DEF BootWrites, BootTo, WatchInv, Watched, ShapeInv, TypeOK, ExecTypeOK, LifeInv,
       UnitsAbsent, BootStages, BootSteps, FinSteps, DispStages, FinStages
  <2>3. ASSUME NEW e \in Execs, BootAuthorizes(e) PROVE WatchInv'
    BY <2>3 DEF BootAuthorizes, BootTo, WatchInv, Watched, ShapeInv, TypeOK, ExecTypeOK, LifeInv,
       UnitsAbsent, BootStages, BootSteps, FinSteps, DispStages, FinStages
  <2>4. ASSUME NEW e \in Execs, BootArms(e) PROVE WatchInv'
    BY <2>4 DEF BootArms, BootTo, WatchInv, Watched, ShapeInv, TypeOK, ExecTypeOK, LifeInv,
       UnitsAbsent, BootStages, BootSteps, FinSteps, DispStages, FinStages
  <2>5. ASSUME NEW e \in Execs, BootDispatches(e) PROVE WatchInv'
    BY <2>5 DEF BootDispatches, BootTo, WatchInv, Watched, ShapeInv, TypeOK, ExecTypeOK, LifeInv,
       UnitsAbsent, BootStages, BootSteps, FinSteps, DispStages, FinStages
  <2>6. ASSUME NEW e \in Execs, BootKilled(e) PROVE WatchInv'
    BY <2>6 DEF BootKilled, BootTo, WatchInv, Watched, ShapeInv, TypeOK, ExecTypeOK, LifeInv,
       UnitsAbsent, BootStages, BootSteps, FinSteps, DispStages, FinStages
  <2>7. ASSUME NEW e \in Execs, FinalizeBegins(e) \/ DisposeBegins(e) \/ CallKilled(e)
        PROVE  UNCHANGED watchFrame
    BY <2>7 DEF FinalizeBegins, DisposeBegins, CallKilled, FinTo, DispTo, watchFrame
  <2> QED
    BY <1>3, <2>1, <2>2, <2>3, <2>4, <2>5, <2>6, <2>7, <1>f DEF CallSteps
<1>4. ASSUME RecoverySteps PROVE WatchInv'
  <2>1. ASSUME NEW e \in Execs, RecoverBare(e) PROVE WatchInv'
    BY <2>1 DEF RecoverBare, RecTo, UnitsAbsent, WatchInv, Watched, ShapeInv, TypeOK, ExecTypeOK,
       LifeInv, UnitsAbsent, BootStages, BootSteps, FinSteps, DispStages, FinStages
  <2>2. ASSUME RecoverBegins \/ RecoverFinalized \/ RecoverDisposed \/ RecoverUnmounts \/
     RecoverRemoves \/ RecoverCut
        PROVE  UNCHANGED watchFrame
    BY <2>2 DEF RecoverBegins, RecoverFinalized, RecoverDisposed, RecoverUnmounts, RecoverRemoves,
       RecoverCut, NotDone, RecTo, DispTo, ClearActive, watchFrame
  <2>3. ASSUME NEW e \in Execs, RecoverUnstarted(e) \/ RecoverFinalizes(e) \/ RecoverAbsent(e)
        PROVE  UNCHANGED watchFrame
    BY <2>3 DEF RecoverUnstarted, RecoverFinalizes, RecoverAbsent, RecTo, FinTo, NotDone,
       ClearActive, watchFrame
  <2> QED
    BY <1>4, <2>1, <2>2, <1>f, <2>3 DEF RecoverySteps
<1>5. ASSUME ExecProcesses, UNCHANGED callRest PROVE WatchInv'
  <2>1. ASSUME NEW e \in Execs, CandidateEnds(e) PROVE WatchInv'
    BY <1>5, <2>1 DEF CandidateEnds, WatchInv, Watched, ShapeInv, TypeOK, ExecTypeOK, LifeInv,
       UnitsAbsent, BootStages, BootSteps, FinSteps, DispStages, FinStages
  <2>2. ASSUME NEW e \in Execs, SupervisorCreates(e) PROVE WatchInv'
    BY <1>5, <2>2 DEF SupervisorCreates, SupVars, SupSays, WatchInv, Watched, ShapeInv, TypeOK,
       ExecTypeOK, LifeInv, UnitsAbsent, BootStages, BootSteps, FinSteps, DispStages, FinStages
  <2>3. ASSUME NEW e \in Execs, SupervisorRegisters(e) PROVE WatchInv'
    BY <1>5, <2>3 DEF SupervisorRegisters, SupVars, WatchInv, Watched, ShapeInv, TypeOK,
       ExecTypeOK, LifeInv, UnitsAbsent, BootStages, BootSteps, FinSteps, DispStages, FinStages
  <2>4. ASSUME NEW e \in Execs, SupervisorChecks(e) PROVE WatchInv'
    BY <1>5, <2>4 DEF SupervisorChecks, SupVars, WatchInv, Watched, ShapeInv, TypeOK, ExecTypeOK,
       LifeInv, UnitsAbsent, BootStages, BootSteps, FinSteps, DispStages, FinStages
  <2>5. ASSUME NEW e \in Execs, SupervisorStarts(e) PROVE WatchInv'
    BY <1>5, <2>5 DEF SupervisorStarts, SupVars, WatchInv, Watched, ShapeInv, TypeOK, ExecTypeOK,
       LifeInv, UnitsAbsent, BootStages, BootSteps, FinSteps, DispStages, FinStages
  <2>6. ASSUME NEW e \in Execs, SupervisorWatches(e) PROVE WatchInv'
    BY <1>5, <2>6 DEF SupervisorWatches, SupVars, SupSays, WatchInv, Watched, ShapeInv, TypeOK,
       ExecTypeOK, LifeInv, UnitsAbsent, BootStages, BootSteps, FinSteps, DispStages, FinStages
  <2>7. ASSUME NEW e \in Execs, SupervisorCleans(e) PROVE WatchInv'
    BY <1>5, <2>7 DEF SupervisorCleans, SupVars, SupSays, RemovalLeaves, WatchInv, Watched,
       ShapeInv, TypeOK, ExecTypeOK, LifeInv, UnitsAbsent, BootStages, BootSteps, FinSteps,
       DispStages, FinStages
  <2>8. ASSUME NEW e \in Execs, SupervisorObserves(e) PROVE WatchInv'
    BY <1>5, <2>8 DEF SupervisorObserves, SupVars, SupSays, WatchInv, Watched, ShapeInv, TypeOK,
       ExecTypeOK, LifeInv, UnitsAbsent, BootStages, BootSteps, FinSteps, DispStages, FinStages
  <2>9. ASSUME NEW e \in Execs, SupervisorKilled(e) PROVE WatchInv'
    BY <1>5, <2>9 DEF SupervisorKilled, SupVars, SupSays, Settles, WatchInv, Watched, ShapeInv,
       TypeOK, ExecTypeOK, LifeInv, UnitsAbsent, BootStages, BootSteps, FinSteps, DispStages,
       FinStages
  <2>10. ASSUME NEW e \in Execs, SupervisorStopped(e) PROVE WatchInv'
    BY <1>5, <2>10 DEF SupervisorStopped, SupVars, RemovalLeaves, WatchInv, Watched, ShapeInv,
       TypeOK, ExecTypeOK, LifeInv, UnitsAbsent, BootStages, BootSteps, FinSteps, DispStages,
       FinStages
  <2>11. ASSUME NEW e \in Execs, TimerFires(e) PROVE WatchInv'
    BY <1>5, <2>11 DEF TimerFires, WatchInv, Watched, ShapeInv, TypeOK, ExecTypeOK, LifeInv,
       UnitsAbsent, BootStages, BootSteps, FinSteps, DispStages, FinStages
  <2>12. ASSUME NEW e \in Execs, ReaperKills(e) PROVE WatchInv'
    BY <1>5, <2>12 DEF ReaperKills, SupVars, SupSays, Settles, WatchInv, Watched, ShapeInv,
       TypeOK, ExecTypeOK, LifeInv, UnitsAbsent, BootStages, BootSteps, FinSteps, DispStages,
       FinStages
  <2>13. ASSUME NEW e \in Execs, ReaperRemoves(e) PROVE WatchInv'
    BY <1>5, <2>13 DEF ReaperRemoves, RemovalLeaves, WatchInv, Watched, ShapeInv, TypeOK,
       ExecTypeOK, LifeInv, UnitsAbsent, BootStages, BootSteps, FinSteps, DispStages, FinStages
  <2>14. ASSUME NEW e \in Execs, ReaperDisarms(e) PROVE WatchInv'
    BY <1>5, <2>14 DEF ReaperDisarms, WatchInv, Watched, ShapeInv, TypeOK, ExecTypeOK, LifeInv,
       UnitsAbsent, BootStages, BootSteps, FinSteps, DispStages, FinStages
  <2> QED
    BY <1>5, <2>1, <2>2, <2>3, <2>4, <2>5, <2>6, <2>7, <2>8, <2>9, <2>10, <2>11, <2>12, <2>13,
       <2>14 DEF ExecProcesses
<1>6. ASSUME ExecCalls, UNCHANGED callRest PROVE WatchInv'
  <2>1. ASSUME NEW e \in Execs, FinalizeStops(e) PROVE WatchInv'
    BY <1>6, <2>1 DEF FinalizeStops, FinTo, SupVars, SupSays, Settles, WatchInv, Watched,
       ShapeInv, TypeOK, ExecTypeOK, LifeInv, UnitsAbsent, BootStages, BootSteps, FinSteps,
       DispStages, FinStages
  <2>2. ASSUME NEW e \in Execs, FinalizeRemoves(e) PROVE WatchInv'
    BY <1>6, <2>2 DEF FinalizeRemoves, FinTo, RemovalLeaves, WatchInv, Watched, ShapeInv, TypeOK,
       ExecTypeOK, LifeInv, UnitsAbsent, BootStages, BootSteps, FinSteps, DispStages, FinStages
  <2>3. ASSUME NEW e \in Execs, FinalizeDisarms(e) PROVE WatchInv'
    BY <1>6, <2>3 DEF FinalizeDisarms, FinTo, FinStages, WatchInv, Watched, ShapeInv, TypeOK,
       ExecTypeOK, LifeInv, UnitsAbsent, BootStages, BootSteps, FinSteps, DispStages, FinStages
  <2>4. ASSUME NEW e \in Execs, DisposeEnds(e) PROVE WatchInv'
    BY <1>6, <2>4 DEF DisposeEnds, DispTo, DispStages, LockInv, BootAlone, WatchInv, Watched,
       ShapeInv, TypeOK, ExecTypeOK, LifeInv, UnitsAbsent, BootStages, BootSteps, FinSteps,
       DispStages, FinStages
  <2>5. ASSUME NEW e \in Execs, FinalizeProves(e) \/ FinalizeSettles(e) \/ DisposeRemoves(e)
        PROVE  UNCHANGED watchFrame
    BY <1>6, <2>5 DEF FinalizeProves, FinalizeSettles, DisposeRemoves, FinTo, watchFrame
  <2> QED
    BY <1>6, <2>1, <2>2, <2>3, <2>4, <2>5, <1>f DEF ExecCalls
<1>7. ASSUME MachineStops PROVE WatchInv'
  BY <1>7 DEF MachineStops, Registering, WatchInv, Watched, ShapeInv, TypeOK, ExecTypeOK, LifeInv,
     UnitsAbsent, BootStages, BootSteps, FinSteps, DispStages, FinStages
<1>8. ASSUME UNCHANGED vars PROVE UNCHANGED watchFrame
  BY <1>8 DEF vars, watchFrame
<1> QED
  BY <1>f, <1>1, <1>2, <1>3, <1>4, <1>5, <1>6, <1>7, <1>8 DEF Next

(* What StateInv is about.                                                 *)
stateFrame == <<wroot, phase, act, owner, retired, tail, terminal>>

(* The workspace's records go in the order a delete, its tail and a        *)
(* recovery write them.                                                    *)
LEMMA StateKept ==
  ASSUME ShapeInv, OwnerInv, BarInv, LockInv, StateInv, RecoveryInv, [Next]_vars PROVE StateInv'
<1>f. ASSUME UNCHANGED stateFrame PROVE StateInv'
  BY <1>f DEF stateFrame, StateInv, HasState
<1>1. ASSUME HostSteps PROVE UNCHANGED stateFrame
  BY <1>1 DEF HostSteps, HostCreates, HostIntends, HostReserves, HostDispatches, HostStarts,
     HostStarted, HostCollects, HostCollected, HostFreezes, HostDeletes, HostAnswered,
     HostDisposed, HostLosesReply, HostDies, stateFrame
<1>2. ASSUME ControllerSteps PROVE StateInv'
  <2>1. ASSUME HandleCreate PROVE StateInv'
    BY <2>1 DEF HandleCreate, Serve, StateInv, ShapeInv, TypeOK, ExecTypeOK, BarInv, HasState,
       Open, NoActive, Reservable, Completable, Creatable, Freezable, Deletable, Active, Phases,
       Torn
  <2>2. ASSUME HandleCreateCut PROVE StateInv'
    BY <2>2 DEF HandleCreateCut, Serve, Cut, StateInv, ShapeInv, TypeOK, ExecTypeOK, BarInv,
       HasState, Open, NoActive, Reservable, Completable, Creatable, Freezable, Deletable, Active,
       Phases, Torn
  <2>3. ASSUME HandleReserve PROVE StateInv'
    BY <2>3 DEF HandleReserve, Serve, StateInv, ShapeInv, TypeOK, ExecTypeOK, BarInv, HasState,
       Open, NoActive, Reservable, Completable, Creatable, Freezable, Deletable, Active, Phases,
       Torn
  <2>4. ASSUME HandleReserveCut PROVE StateInv'
    BY <2>4 DEF HandleReserveCut, Serve, Cut, StateInv, ShapeInv, TypeOK, ExecTypeOK, BarInv,
       HasState, Open, NoActive, Reservable, Completable, Creatable, Freezable, Deletable, Active,
       Phases, Torn
  <2>5. ASSUME HandleComplete PROVE StateInv'
    BY <2>5 DEF HandleComplete, Serve, StateInv, ShapeInv, TypeOK, ExecTypeOK, BarInv, HasState,
       Open, NoActive, Reservable, Completable, Creatable, Freezable, Deletable, Active, Phases,
       Torn
  <2>6. ASSUME HandleFreeze PROVE StateInv'
    BY <2>6 DEF HandleFreeze, Serve, StateInv, ShapeInv, TypeOK, ExecTypeOK, BarInv, HasState,
       Open, NoActive, Reservable, Completable, Creatable, Freezable, Deletable, Active, Phases,
       Torn
  <2>7. ASSUME HandleFreezeCut PROVE StateInv'
    BY <2>7 DEF HandleFreezeCut, Serve, Cut, StateInv, ShapeInv, TypeOK, ExecTypeOK, BarInv,
       HasState, Open, NoActive, Reservable, Completable, Creatable, Freezable, Deletable, Active,
       Phases, Torn
  <2>8. ASSUME HandleDelete PROVE StateInv'
    BY <2>8 DEF HandleDelete, Serve, Cut, UnmountCut, StateInv, ShapeInv, TypeOK, ExecTypeOK,
       BarInv, HasState, Open, NoActive, Reservable, Completable, Creatable, Freezable, Deletable,
       Active, Phases, Torn
  <2>9. ASSUME TailRetires PROVE StateInv'
    BY <2>9 DEF TailRetires, Serve, StateInv, ShapeInv, TypeOK, ExecTypeOK, BarInv, HasState,
       Open, NoActive, Reservable, Completable, Creatable, Freezable, Deletable, Active, Phases,
       Torn
  <2>10. ASSUME TailRemoves PROVE StateInv'
    BY <2>10 DEF TailRemoves, Serve, StateInv, ShapeInv, TypeOK, ExecTypeOK, BarInv, HasState,
       Open, NoActive, Reservable, Completable, Creatable, Freezable, Deletable, Active, Phases,
       Torn
  <2>11. ASSUME TailCut PROVE StateInv'
    BY <2>11 DEF TailCut, Serve, StateInv, ShapeInv, TypeOK, ExecTypeOK, BarInv, HasState, Open,
       NoActive, Reservable, Completable, Creatable, Freezable, Deletable, Active, Phases, Torn
  <2>12. ASSUME HandleAlarm PROVE StateInv'
    BY <2>12 DEF HandleAlarm, Serve, Cut, StateInv, ShapeInv, TypeOK, ExecTypeOK, BarInv,
       HasState, Open, NoActive, Reservable, Completable, Creatable, Freezable, Deletable, Active,
       Phases, Torn
  <2>13. ASSUME HandleCompleteCut PROVE StateInv'
    BY <2>13 DEF HandleCompleteCut, Cut, Serve, StateInv, ShapeInv, TypeOK, ExecTypeOK, BarInv, HasState,
       Open, NoActive, Reservable, Completable, Creatable, Freezable, Deletable, Active, Phases,
       Torn
  <2> QED
    BY <1>2, <2>1, <2>2, <2>3, <2>4, <2>5, <2>6, <2>7, <2>8, <2>9, <2>10, <2>11, <2>12,
       <2>13 DEF ControllerSteps
<1>3. ASSUME CallSteps PROVE UNCHANGED stateFrame
  BY <1>3 DEF CallSteps, BootBegins, BootWrites, BootAuthorizes, BootArms, BootDispatches,
     BootKilled, FinalizeBegins, DisposeBegins, CallKilled, BootTo, FinTo, DispTo, stateFrame
<1>4. ASSUME RecoverySteps PROVE StateInv'
  <2>1. ASSUME RecoverBegins PROVE StateInv'
    BY <2>1 DEF RecoverBegins, NotDone, RecTo, StateInv, ShapeInv, TypeOK, ExecTypeOK, BarInv,
       HasState, Open, NoActive, Reservable, Completable, Creatable, Freezable, Deletable, Active,
       Phases, Torn
  <2>2. ASSUME NEW e \in Execs, RecoverAbsent(e) PROVE StateInv'
    BY <2>2 DEF RecoverAbsent, NotDone, RecTo, ClearActive, StateInv, ShapeInv, TypeOK,
       ExecTypeOK, BarInv, HasState, Open, NoActive, Reservable, Completable, Creatable,
       Freezable, Deletable, Active, Phases, Torn
  <2>3. ASSUME RecoverFinalized PROVE StateInv'
    BY <2>3 DEF RecoverFinalized, NotDone, RecTo, DispTo, ClearActive, StateInv, ShapeInv, TypeOK,
       ExecTypeOK, BarInv, HasState, Open, NoActive, Reservable, Completable, Creatable,
       Freezable, Deletable, Active, Phases, Torn
  <2>4. ASSUME RecoverUnmounts PROVE StateInv'
    BY <2>4 DEF RecoverUnmounts, RecTo, StateInv, ShapeInv, TypeOK, ExecTypeOK, BarInv, HasState,
       Open, NoActive, Reservable, Completable, Creatable, Freezable, Deletable, Active, Phases,
       Torn
  <2>5. ASSUME RecoverRemoves PROVE StateInv'
    BY <2>5 DEF RecoverRemoves, NotDone, RecTo, StateInv, ShapeInv, TypeOK, ExecTypeOK, BarInv,
       HasState, Open, NoActive, Reservable, Completable, Creatable, Freezable, Deletable, Active,
       Phases, Torn
  <2>6. ASSUME RecoverCut PROVE StateInv'
    BY <2>6 DEF RecoverCut, NotDone, RecTo, UnmountCut, StateInv, ShapeInv, TypeOK, ExecTypeOK,
       BarInv, HasState, Open, NoActive, Reservable, Completable, Creatable, Freezable, Deletable,
       Active, Phases, Torn
  <2>7. ASSUME RecoverDisposed
        PROVE  UNCHANGED stateFrame
    BY <2>7 DEF RecoverDisposed, RecTo, stateFrame
  <2>8. ASSUME NEW e \in Execs, RecoverUnstarted(e) \/ RecoverBare(e) \/ RecoverFinalizes(e)
        PROVE  UNCHANGED stateFrame
    BY <2>8 DEF RecoverUnstarted, RecoverBare, RecoverFinalizes, RecTo, FinTo, stateFrame
  <2> QED
    BY <1>4, <2>1, <2>2, <2>3, <2>4, <2>5, <2>6, <2>7, <1>f, <2>8 DEF RecoverySteps
<1>5. ASSUME ExecProcesses, UNCHANGED callRest PROVE UNCHANGED stateFrame
  BY <1>5 DEF ExecProcesses, CandidateEnds, SupervisorCreates, SupervisorRegisters,
     SupervisorChecks, SupervisorStarts, SupervisorWatches, SupervisorCleans, SupervisorObserves,
     SupervisorKilled, SupervisorStopped, TimerFires, ReaperKills, ReaperRemoves, ReaperDisarms,
     SupVars, SupSays, stateFrame
<1>6. ASSUME ExecCalls, UNCHANGED callRest PROVE UNCHANGED stateFrame
  BY <1>6 DEF ExecCalls, FinalizeStops, FinalizeRemoves, FinalizeProves, FinalizeDisarms,
     FinalizeSettles, DisposeRemoves, DisposeEnds, FinTo, SupVars, SupSays, DispTo, stateFrame
<1>7. ASSUME MachineStops PROVE UNCHANGED stateFrame
  BY <1>7 DEF MachineStops, stateFrame
<1>8. ASSUME UNCHANGED vars PROVE UNCHANGED stateFrame
  BY <1>8 DEF vars, stateFrame
<1> QED
  BY <1>f, <1>1, <1>2, <1>3, <1>4, <1>5, <1>6, <1>7, <1>8 DEF Next

(* What an execution needs is the same in every state.                     *)
LEMMA NeedsStay ==
  \A e \in Execs : Needs(e)' = Needs(e)
BY DEF Needs

(* Where nothing may still run, the mounts may change.                     *)
LEMMA NothingLive ==
  ASSUME IInv, UNCHANGED <<box, sup, boot>>, \A o \in Execs : ~Live(o),
         "snapshot" \in mounts' => "storage" \in mounts',
         phase' = "ready" => "snapshot" \notin mounts',
         act' \in Execs \ Readonly => "snapshot" \notin mounts'
  PROVE  MountInv'
BY DEF MountInv, Live

(* Without an active execution and before a recovery nothing may still     *)
(* run.                                                                    *)
LEMMA IdleIsDead ==
  ASSUME IInv, act = None, terminal = "none" PROVE \A o \in Execs : ~Live(o)
BY DEF IInv, MountInv

(* Once a recovery has reconciled every row nothing may still run.         *)
LEMMA ReconciledIsDead ==
  ASSUME IInv, rec = "rows", todo = {} PROVE \A o \in Execs : ~Live(o)
BY DEF IInv, RecoveryInv, DoneWith, Gone, UnitsAbsent, BarInv, BootSteps, Live

(* What MountInv is about.                                                 *)
mountFrame == <<box, sup, boot, mounts, phase, act, terminal>>

(* The mounts change only where nothing may still run.                     *)
LEMMA MountKept ==
  ASSUME IInv, [Next]_vars PROVE MountInv'
<1>f. ASSUME UNCHANGED mountFrame PROVE MountInv'
  BY <1>f DEF mountFrame, MountInv, Live, IInv
<1>1. ASSUME HostSteps PROVE MountInv'
  <2>1. ASSUME HostStarts PROVE MountInv'
    BY <2>1 DEF HostStarts, MountInv, Live, IInv, ShapeInv, TypeOK, ExecTypeOK, UnitsAbsent,
       LifeInv, BootStages, BarInv, Open, NoActive, HasState, Phases
  <2>2. ASSUME HostCreates \/ HostReserves \/ HostDispatches \/ HostStarted \/ HostCollects \/
     HostCollected \/ HostFreezes \/ HostDeletes \/ HostAnswered \/ HostDisposed \/ HostLosesReply
     \/ HostDies
        PROVE  UNCHANGED mountFrame
    BY <2>2 DEF HostCreates, HostReserves, HostDispatches, HostStarted, HostCollects,
       HostCollected, HostFreezes, HostDeletes, HostAnswered, HostDisposed, HostLosesReply,
       HostDies, mountFrame
  <2>3. ASSUME NEW e \in Execs, HostIntends(e)
        PROVE  UNCHANGED mountFrame
    BY <2>3 DEF HostIntends, mountFrame
  <2> QED
    BY <1>1, <2>1, <2>2, <1>f, <2>3 DEF HostSteps
<1>2. ASSUME ControllerSteps PROVE MountInv'
  <2>1. ASSUME HandleCreate PROVE MountInv'
    <3>1. CASE Creatable
      <4>1. \A o \in Execs : ~Live(o)
        BY <3>1, IdleIsDead DEF Creatable, IInv, StateInv, HasState
      <4> QED
        BY <2>1, <3>1, <4>1, NothingLive DEF HandleCreate, Serve, IInv, MountInv, ShapeInv, TypeOK
    <3>2. CASE ~(Creatable)
      BY <2>1, <3>2, <1>f DEF HandleCreate, mountFrame
    <3> QED
      BY <3>1, <3>2
  <2>2. ASSUME HandleCreateCut PROVE MountInv'
    <3>1. CASE Creatable
      <4>1. \A o \in Execs : ~Live(o)
        BY <3>1, IdleIsDead DEF Creatable, IInv, StateInv, HasState
      <4> QED
        BY <2>2, <3>1, <4>1, NothingLive DEF HandleCreateCut, Serve, Cut, IInv, MountInv, ShapeInv, TypeOK
    <3>2. CASE ~(Creatable)
      BY <2>2, <3>2, <1>f DEF HandleCreateCut, mountFrame
    <3> QED
      BY <3>1, <3>2
  <2>3. ASSUME HandleReserve PROVE MountInv'
    <3>1. CASE Reservable(req.exec)
      <4>1. \A o \in Execs : ~Live(o)
        BY <3>1, IdleIsDead DEF Reservable, Open, NoActive, IInv, StateInv, HasState
      <4> QED
        BY <2>3, <3>1, <4>1, NothingLive DEF HandleReserve, Serve, IInv, MountInv, ShapeInv, TypeOK, Reservable
    <3>2. CASE ~(Reservable(req.exec))
      BY <2>3, <3>2, <1>f DEF HandleReserve, mountFrame
    <3> QED
      BY <3>1, <3>2
  <2>4. ASSUME HandleReserveCut PROVE MountInv'
    <3>1. CASE Reservable(req.exec)
      <4>1. \A o \in Execs : ~Live(o)
        BY <3>1, IdleIsDead DEF Reservable, Open, NoActive, IInv, StateInv, HasState
      <4> QED
        BY <2>4, <3>1, <4>1, NothingLive DEF HandleReserveCut, Serve, Cut, IInv, MountInv, ShapeInv, TypeOK, Reservable
    <3>2. CASE ~(Reservable(req.exec))
      BY <2>4, <3>2, <1>f DEF HandleReserveCut, mountFrame
    <3> QED
      BY <3>1, <3>2
  <2>5. ASSUME HandleComplete PROVE MountInv'
    <3>1. CASE Completable(req.exec) /\ proof[req.exec] = "full"
      <4>1. \A o \in Execs : ~Live(o)
        BY <3>1 DEF Completable, Open, IInv, MountInv, LifeInv, ProofIsFinal, BootStages, BootSteps, Live
      <4> QED
        BY <2>5, <3>1, <4>1, NothingLive DEF HandleComplete, IInv, MountInv
    <3>2. CASE ~(Completable(req.exec) /\ proof[req.exec] = "full")
      BY <2>5, <3>2, NeedsStay DEF HandleComplete, IInv, MountInv, Live
    <3> QED
      BY <3>1, <3>2
  <2>6. ASSUME HandleFreeze PROVE MountInv'
    <3>1. CASE Freezable
      <4>1. \A o \in Execs : ~Live(o)
        BY <3>1, IdleIsDead DEF Freezable, Open, NoActive, IInv, StateInv, HasState
      <4> QED
        BY <2>6, <3>1, <4>1, NothingLive DEF HandleFreeze, Serve, IInv, MountInv, ShapeInv, TypeOK, Freezable, Open, NoActive
    <3>2. CASE ~(Freezable)
      BY <2>6, <3>2, <1>f DEF HandleFreeze, mountFrame
    <3> QED
      BY <3>1, <3>2
  <2>7. ASSUME HandleFreezeCut PROVE MountInv'
    <3>1. CASE Freezable
      <4>1. \A o \in Execs : ~Live(o)
        BY <3>1, IdleIsDead DEF Freezable, Open, NoActive, IInv, StateInv, HasState
      <4> QED
        BY <2>7, <3>1, <4>1, NothingLive DEF HandleFreezeCut, Serve, Cut, IInv, MountInv, ShapeInv, TypeOK, Freezable, Open, NoActive
    <3>2. CASE ~(Freezable)
      BY <2>7, <3>2, <1>f DEF HandleFreezeCut, mountFrame
    <3> QED
      BY <3>1, <3>2
  <2>8. ASSUME HandleDelete PROVE MountInv'
    <3>1. CASE Deletable
      <4>1. \A o \in Execs : ~Live(o)
        BY <3>1, IdleIsDead DEF Deletable, Open, IInv, StateInv, HasState
      <4> QED
        BY <2>8, <3>1, <4>1, NothingLive DEF HandleDelete, Serve, Cut, UnmountCut, IInv, MountInv, ShapeInv, TypeOK
    <3>2. CASE ~(Deletable)
      BY <2>8, <3>2, <1>f DEF HandleDelete, mountFrame
    <3> QED
      BY <3>1, <3>2
  <2>9. ASSUME TailRemoves PROVE MountInv'
    BY <2>9 DEF TailRemoves, Serve, MountInv, Live, IInv, ShapeInv, TypeOK, ExecTypeOK,
       UnitsAbsent, LifeInv, BootStages, BarInv, Open, NoActive, HasState, Phases
  <2>10. ASSUME TailCut PROVE MountInv'
    BY <2>10 DEF TailCut, Serve, MountInv, Live, IInv, ShapeInv, TypeOK, ExecTypeOK, UnitsAbsent,
       LifeInv, BootStages, BarInv, Open, NoActive, HasState, Phases
  <2>11. ASSUME TailRetires
        PROVE  UNCHANGED mountFrame
    BY <2>11 DEF TailRetires, mountFrame
  <2>12. ASSUME HandleAlarm PROVE MountInv'
    BY <2>12, NeedsStay DEF HandleAlarm, Cut, Serve, IInv, MountInv, Live
  <2>13. ASSUME HandleCompleteCut PROVE MountInv'
    <3>1. \A o \in Execs : ~Live(o)
      BY <2>13 DEF HandleCompleteCut, Completable, Open, IInv, MountInv, LifeInv, ProofIsFinal,
         BootStages, BootSteps, Live
    <3> QED
      BY <2>13, <3>1, NothingLive DEF HandleCompleteCut, IInv, MountInv
<2> QED
    BY <1>2, <2>1, <2>2, <2>3, <2>4, <2>5, <2>6, <2>7, <2>8, <2>9, <2>10, <2>11, <1>f, <2>12, <2>13 DEF ControllerSteps
<1>3. ASSUME CallSteps PROVE MountInv'
  <2>1. ASSUME NEW e \in Execs, BootBegins(e) PROVE MountInv'
    BY <2>1 DEF BootBegins, BootTo, MountInv, Live, IInv, ShapeInv, TypeOK, ExecTypeOK,
       UnitsAbsent, LifeInv, BootStages, BarInv, Open, NoActive, HasState, Phases
  <2>2. ASSUME NEW e \in Execs, BootWrites(e) PROVE MountInv'
    BY <2>2 DEF BootWrites, BootTo, MountInv, Live, IInv, ShapeInv, TypeOK, ExecTypeOK,
       UnitsAbsent, LifeInv, BootStages, BarInv, Open, NoActive, HasState, Phases
  <2>3. ASSUME NEW e \in Execs, BootAuthorizes(e) PROVE MountInv'
    <3>1. CASE boot' = [boot EXCEPT ![e] = "over"] /\ UNCHANGED started
      BY <2>3, <3>1, NeedsStay DEF BootAuthorizes, IInv, MountInv, Live, ShapeInv, TypeOK, ExecTypeOK
    <3>2. CASE started' = TRUE /\ boot' = [boot EXCEPT ![e] = "authorized"] /\ Open /\ act = e
                /\ (IF e \in Readonly THEN "snapshot" ELSE "storage") \in mounts
      <4>1. mounts = Needs(e)
        BY <3>2 DEF IInv, MountInv, ShapeInv, TypeOK, Needs
      <4>2. \A o \in Execs : Live(o)' => Live(o) \/ o = e
        BY <2>3, <3>2 DEF BootAuthorizes, Live, IInv, ShapeInv, TypeOK, ExecTypeOK
      <4>3. UNCHANGED <<mounts, phase, act, terminal>>
        BY <2>3 DEF BootAuthorizes, bootRest
      <4>4. \A o \in Execs : Live(o)' => mounts' = Needs(o)' /\ (terminal' = "none" => act' = o)
        BY <3>2, <4>1, <4>2, <4>3, NeedsStay DEF IInv, MountInv, Open
      <4> QED
        BY <4>3, <4>4 DEF IInv, MountInv
    <3> QED
      BY <2>3, <3>1, <3>2 DEF BootAuthorizes, BootTo
  <2>4. ASSUME NEW e \in Execs, BootArms(e) PROVE MountInv'
    BY <2>4 DEF BootArms, BootTo, MountInv, Live, IInv, ShapeInv, TypeOK, ExecTypeOK, UnitsAbsent,
       LifeInv, BootStages, BarInv, Open, NoActive, HasState, Phases
  <2>5. ASSUME NEW e \in Execs, BootDispatches(e) PROVE MountInv'
    BY <2>5 DEF BootDispatches, BootTo, MountInv, Live, IInv, ShapeInv, TypeOK, ExecTypeOK,
       UnitsAbsent, LifeInv, BootStages, BarInv, Open, NoActive, HasState, Phases
  <2>6. ASSUME NEW e \in Execs, BootKilled(e) PROVE MountInv'
    BY <2>6 DEF BootKilled, BootTo, MountInv, Live, IInv, ShapeInv, TypeOK, ExecTypeOK,
       UnitsAbsent, LifeInv, BootStages, BarInv, Open, NoActive, HasState, Phases
  <2>7. ASSUME NEW e \in Execs, FinalizeBegins(e) \/ DisposeBegins(e) \/ CallKilled(e)
        PROVE  UNCHANGED mountFrame
    BY <2>7 DEF FinalizeBegins, DisposeBegins, CallKilled, FinTo, DispTo, mountFrame
  <2> QED
    BY <1>3, <2>1, <2>2, <2>3, <2>4, <2>5, <2>6, <2>7, <1>f DEF CallSteps
<1>4. ASSUME RecoverySteps PROVE MountInv'
  <2>1. ASSUME RecoverBegins PROVE MountInv'
    BY <2>1 DEF RecoverBegins, NotDone, RecTo, MountInv, Live, IInv, ShapeInv, TypeOK, ExecTypeOK,
       UnitsAbsent, LifeInv, BootStages, BarInv, Open, NoActive, HasState, Phases
  <2>2. ASSUME NEW e \in Execs, RecoverAbsent(e) PROVE MountInv'
    BY <2>2 DEF RecoverAbsent, NotDone, RecTo, ClearActive, MountInv, Live, IInv, ShapeInv,
       TypeOK, ExecTypeOK, UnitsAbsent, LifeInv, BootStages, BarInv, Open, NoActive, HasState,
       Phases
  <2>3. ASSUME RecoverFinalized PROVE MountInv'
    BY <2>3 DEF RecoverFinalized, NotDone, RecTo, DispTo, ClearActive, MountInv, Live, IInv,
       ShapeInv, TypeOK, ExecTypeOK, UnitsAbsent, LifeInv, BootStages, BarInv, Open, NoActive,
       HasState, Phases
  <2>4. ASSUME RecoverUnmounts PROVE MountInv'
    <3>1. \A o \in Execs : ~Live(o)
      BY <2>4, ReconciledIsDead DEF RecoverUnmounts
    <3> QED
      BY <2>4, <3>1, NothingLive DEF RecoverUnmounts
  <2>5. ASSUME RecoverRemoves PROVE MountInv'
    BY <2>5 DEF RecoverRemoves, NotDone, RecTo, MountInv, Live, IInv, ShapeInv, TypeOK,
       ExecTypeOK, UnitsAbsent, LifeInv, BootStages, BarInv, Open, NoActive, HasState, Phases
  <2>6. ASSUME RecoverCut PROVE MountInv'
    <3>1. CASE rec = "rows" /\ todo = {}
      <4>1. \A o \in Execs : ~Live(o)
        BY <3>1, ReconciledIsDead
      <4>2. UNCHANGED <<box, sup, boot, act>> /\ phase' \in {phase, "none"} /\ mounts' \in UnmountCut
        BY <2>6 DEF RecoverCut, UnmountCut
      <4> QED
        BY <4>1, <4>2, NothingLive DEF UnmountCut, IInv, MountInv
    <3>2. CASE ~(rec = "rows" /\ todo = {})
      BY <2>6, <3>2, NeedsStay DEF RecoverCut, IInv, MountInv, Live
    <3> QED
      BY <3>1, <3>2
  <2>7. ASSUME RecoverDisposed
        PROVE  UNCHANGED mountFrame
    BY <2>7 DEF RecoverDisposed, RecTo, mountFrame
  <2>8. ASSUME NEW e \in Execs, RecoverUnstarted(e) \/ RecoverBare(e) \/ RecoverFinalizes(e)
        PROVE  UNCHANGED mountFrame
    BY <2>8 DEF RecoverUnstarted, RecoverBare, RecoverFinalizes, RecTo, FinTo, mountFrame
  <2> QED
    BY <1>4, <2>1, <2>2, <2>3, <2>4, <2>5, <2>6, <2>7, <1>f, <2>8 DEF RecoverySteps
<1>5. ASSUME ExecProcesses, UNCHANGED callRest PROVE MountInv'
  <2>1. ASSUME NEW e \in Execs, CandidateEnds(e) PROVE MountInv'
    BY <1>5, <2>1 DEF CandidateEnds, MountInv, Live, IInv, ShapeInv, TypeOK, ExecTypeOK,
       UnitsAbsent, LifeInv, BootStages, BarInv, Open, NoActive, HasState, Phases
  <2>2. ASSUME NEW e \in Execs, SupervisorCreates(e) PROVE MountInv'
    BY <1>5, <2>2 DEF SupervisorCreates, SupVars, SupSays, MountInv, Live, IInv, ShapeInv, TypeOK,
       ExecTypeOK, UnitsAbsent, LifeInv, BootStages, BarInv, Open, NoActive, HasState, Phases
  <2>3. ASSUME NEW e \in Execs, SupervisorRegisters(e) PROVE MountInv'
    BY <1>5, <2>3 DEF SupervisorRegisters, SupVars, MountInv, Live, IInv, ShapeInv, TypeOK,
       ExecTypeOK, UnitsAbsent, LifeInv, BootStages, BarInv, Open, NoActive, HasState, Phases
  <2>4. ASSUME NEW e \in Execs, SupervisorChecks(e) PROVE MountInv'
    BY <1>5, <2>4 DEF SupervisorChecks, SupVars, MountInv, Live, IInv, ShapeInv, TypeOK,
       ExecTypeOK, UnitsAbsent, LifeInv, BootStages, BarInv, Open, NoActive, HasState, Phases
  <2>5. ASSUME NEW e \in Execs, SupervisorStarts(e) PROVE MountInv'
    BY <1>5, <2>5 DEF SupervisorStarts, SupVars, MountInv, Live, IInv, ShapeInv, TypeOK,
       ExecTypeOK, UnitsAbsent, LifeInv, BootStages, BarInv, Open, NoActive, HasState, Phases
  <2>6. ASSUME NEW e \in Execs, SupervisorWatches(e) PROVE MountInv'
    BY <1>5, <2>6 DEF SupervisorWatches, SupVars, SupSays, MountInv, Live, IInv, ShapeInv, TypeOK,
       ExecTypeOK, UnitsAbsent, LifeInv, BootStages, BarInv, Open, NoActive, HasState, Phases
  <2>7. ASSUME NEW e \in Execs, SupervisorCleans(e) PROVE MountInv'
    BY <1>5, <2>7 DEF SupervisorCleans, SupVars, SupSays, RemovalLeaves, MountInv, Live, IInv,
       ShapeInv, TypeOK, ExecTypeOK, UnitsAbsent, LifeInv, BootStages, BarInv, Open, NoActive,
       HasState, Phases
  <2>8. ASSUME NEW e \in Execs, SupervisorObserves(e) PROVE MountInv'
    BY <1>5, <2>8 DEF SupervisorObserves, SupVars, SupSays, MountInv, Live, IInv, ShapeInv,
       TypeOK, ExecTypeOK, UnitsAbsent, LifeInv, BootStages, BarInv, Open, NoActive, HasState,
       Phases
  <2>9. ASSUME NEW e \in Execs, SupervisorKilled(e) PROVE MountInv'
    BY <1>5, <2>9 DEF SupervisorKilled, SupVars, SupSays, Settles, MountInv, Live, IInv, ShapeInv,
       TypeOK, ExecTypeOK, UnitsAbsent, LifeInv, BootStages, BarInv, Open, NoActive, HasState,
       Phases
  <2>10. ASSUME NEW e \in Execs, SupervisorStopped(e) PROVE MountInv'
    BY <1>5, <2>10 DEF SupervisorStopped, SupVars, RemovalLeaves, MountInv, Live, IInv, ShapeInv,
       TypeOK, ExecTypeOK, UnitsAbsent, LifeInv, BootStages, BarInv, Open, NoActive, HasState,
       Phases
  <2>11. ASSUME NEW e \in Execs, TimerFires(e) PROVE MountInv'
    BY <1>5, <2>11 DEF TimerFires, MountInv, Live, IInv, ShapeInv, TypeOK, ExecTypeOK,
       UnitsAbsent, LifeInv, BootStages, BarInv, Open, NoActive, HasState, Phases
  <2>12. ASSUME NEW e \in Execs, ReaperKills(e) PROVE MountInv'
    BY <1>5, <2>12 DEF ReaperKills, SupVars, SupSays, Settles, MountInv, Live, IInv, ShapeInv,
       TypeOK, ExecTypeOK, UnitsAbsent, LifeInv, BootStages, BarInv, Open, NoActive, HasState,
       Phases
  <2>13. ASSUME NEW e \in Execs, ReaperRemoves(e) PROVE MountInv'
    BY <1>5, <2>13 DEF ReaperRemoves, RemovalLeaves, MountInv, Live, IInv, ShapeInv, TypeOK,
       ExecTypeOK, UnitsAbsent, LifeInv, BootStages, BarInv, Open, NoActive, HasState, Phases
  <2>14. ASSUME NEW e \in Execs, ReaperDisarms(e) PROVE MountInv'
    BY <1>5, <2>14 DEF ReaperDisarms, MountInv, Live, IInv, ShapeInv, TypeOK, ExecTypeOK,
       UnitsAbsent, LifeInv, BootStages, BarInv, Open, NoActive, HasState, Phases
  <2> QED
    BY <1>5, <2>1, <2>2, <2>3, <2>4, <2>5, <2>6, <2>7, <2>8, <2>9, <2>10, <2>11, <2>12, <2>13,
       <2>14 DEF ExecProcesses
<1>6. ASSUME ExecCalls, UNCHANGED callRest PROVE MountInv'
  <2>1. ASSUME NEW e \in Execs, FinalizeStops(e) PROVE MountInv'
    BY <1>6, <2>1 DEF FinalizeStops, FinTo, SupVars, SupSays, Settles, MountInv, Live, IInv,
       ShapeInv, TypeOK, ExecTypeOK, UnitsAbsent, LifeInv, BootStages, BarInv, Open, NoActive,
       HasState, Phases
  <2>2. ASSUME NEW e \in Execs, FinalizeRemoves(e) PROVE MountInv'
    BY <1>6, <2>2 DEF FinalizeRemoves, FinTo, RemovalLeaves, MountInv, Live, IInv, ShapeInv,
       TypeOK, ExecTypeOK, UnitsAbsent, LifeInv, BootStages, BarInv, Open, NoActive, HasState,
       Phases
  <2>3. ASSUME NEW e \in Execs, FinalizeProves(e) \/ FinalizeDisarms(e) \/ FinalizeSettles(e) \/
     DisposeRemoves(e) \/ DisposeEnds(e)
        PROVE  UNCHANGED mountFrame
    BY <1>6, <2>3 DEF FinalizeProves, FinalizeDisarms, FinalizeSettles, DisposeRemoves,
       DisposeEnds, FinTo, DispTo, mountFrame
  <2> QED
    BY <1>6, <2>1, <2>2, <2>3, <1>f DEF ExecCalls
<1>7. ASSUME MachineStops PROVE MountInv'
  BY <1>7 DEF MachineStops, MountInv, Live, IInv, ShapeInv, TypeOK, ExecTypeOK, UnitsAbsent,
     LifeInv, BootStages, BarInv, Open, NoActive, HasState, Phases
<1>8. ASSUME UNCHANGED vars PROVE UNCHANGED mountFrame
  BY <1>8 DEF vars, mountFrame
<1> QED
  BY <1>f, <1>1, <1>2, <1>3, <1>4, <1>5, <1>6, <1>7, <1>8 DEF Next

(* What VerdictInv is about.                                               *)
verdictFrame == <<host, run, seen, observation, verdict, finished, fin, sup>>

(* A success is seen only of a candidate that ended by itself.             *)
LEMMA VerdictKept ==
  ASSUME IInv, [Next]_vars PROVE VerdictInv'
<1>f. ASSUME UNCHANGED verdictFrame PROVE VerdictInv'
  BY <1>f DEF verdictFrame, VerdictInv, IInv
<1>1. ASSUME HostSteps PROVE VerdictInv'
  <2>1. ASSUME HostCreates PROVE VerdictInv'
    BY <2>1 DEF HostCreates, Call, VerdictInv, IInv, ShapeInv, TypeOK, ExecTypeOK, RunIs, Waiting,
       Observations, FinSteps
  <2>2. ASSUME NEW e \in Execs, HostIntends(e) PROVE VerdictInv'
    BY <2>2 DEF HostIntends, VerdictInv, IInv, ShapeInv, TypeOK, ExecTypeOK, RunIs, Waiting,
       Observations, FinSteps
  <2>3. ASSUME HostReserves PROVE VerdictInv'
    BY <2>3 DEF HostReserves, Call, VerdictInv, IInv, ShapeInv, TypeOK, ExecTypeOK, RunIs,
       Waiting, Observations, FinSteps
  <2>4. ASSUME HostDispatches PROVE VerdictInv'
    BY <2>4 DEF HostDispatches, VerdictInv, IInv, ShapeInv, TypeOK, ExecTypeOK, RunIs, Waiting,
       Observations, FinSteps
  <2>5. ASSUME HostStarts PROVE VerdictInv'
    BY <2>5 DEF HostStarts, VerdictInv, IInv, ShapeInv, TypeOK, ExecTypeOK, RunIs, Waiting,
       Observations, FinSteps
  <2>6. ASSUME HostStarted PROVE VerdictInv'
    BY <2>6 DEF HostStarted, VerdictInv, IInv, ShapeInv, TypeOK, ExecTypeOK, RunIs, Waiting,
       Observations, FinSteps
  <2>7. ASSUME HostCollects PROVE VerdictInv'
    BY <2>7 DEF HostCollects, VerdictInv, IInv, ShapeInv, TypeOK, ExecTypeOK, RunIs, Waiting,
       Observations, FinSteps
  <2>8. ASSUME HostCollected PROVE VerdictInv'
    BY <2>8 DEF HostCollected, Call, VerdictInv, IInv, ShapeInv, TypeOK, ExecTypeOK, RunIs,
       Waiting, Observations, FinSteps
  <2>9. ASSUME HostFreezes PROVE VerdictInv'
    BY <2>9 DEF HostFreezes, Call, VerdictInv, IInv, ShapeInv, TypeOK, ExecTypeOK, RunIs, Waiting,
       Observations, FinSteps
  <2>10. ASSUME HostDeletes PROVE VerdictInv'
    BY <2>10 DEF HostDeletes, Call, VerdictInv, IInv, ShapeInv, TypeOK, ExecTypeOK, RunIs,
       Waiting, Observations, FinSteps
  <2>11. ASSUME HostAnswered PROVE VerdictInv'
    BY <2>11 DEF HostAnswered, Answered, VerdictInv, IInv, ShapeInv, TypeOK, ExecTypeOK, RunIs,
       Waiting, Observations, FinSteps
  <2>12. ASSUME HostDisposed PROVE VerdictInv'
    BY <2>12 DEF HostDisposed, VerdictInv, IInv, ShapeInv, TypeOK, ExecTypeOK, RunIs, Waiting,
       Observations, FinSteps
  <2>13. ASSUME HostLosesReply PROVE VerdictInv'
    BY <2>13 DEF HostLosesReply, VerdictInv, IInv, ShapeInv, TypeOK, ExecTypeOK, RunIs, Waiting,
       Observations, FinSteps
  <2>14. ASSUME HostDies PROVE VerdictInv'
    BY <2>14 DEF HostDies, VerdictInv, IInv, ShapeInv, TypeOK, ExecTypeOK, RunIs, Waiting,
       Observations, FinSteps
  <2> QED
    BY <1>1, <2>1, <2>2, <2>3, <2>4, <2>5, <2>6, <2>7, <2>8, <2>9, <2>10, <2>11, <2>12, <2>13,
       <2>14 DEF HostSteps
<1>2. ASSUME ControllerSteps PROVE UNCHANGED verdictFrame
  BY <1>2 DEF ControllerSteps, HandleCreate, HandleCreateCut, HandleReserve, HandleReserveCut,
     HandleAlarm, HandleComplete, HandleCompleteCut, HandleFreeze, HandleFreezeCut,
     HandleDelete, TailRetires, TailRemoves,
     TailCut, verdictFrame
<1>3. ASSUME CallSteps PROVE VerdictInv'
  <2>1. ASSUME NEW e \in Execs, BootAuthorizes(e) PROVE VerdictInv'
    BY <2>1 DEF BootAuthorizes, BootTo, VerdictInv, IInv, ShapeInv, TypeOK, ExecTypeOK, RunIs,
       Waiting, Observations, FinSteps
  <2>2. ASSUME NEW e \in Execs, BootDispatches(e) PROVE VerdictInv'
    BY <2>2 DEF BootDispatches, BootTo, VerdictInv, IInv, ShapeInv, TypeOK, ExecTypeOK, RunIs,
       Waiting, Observations, FinSteps
  <2>3. ASSUME NEW e \in Execs, FinalizeBegins(e) PROVE VerdictInv'
    BY <2>3 DEF FinalizeBegins, FinTo, VerdictInv, IInv, ShapeInv, TypeOK, ExecTypeOK, RunIs,
       Waiting, Observations, FinSteps
  <2>4. ASSUME NEW e \in Execs, CallKilled(e) PROVE VerdictInv'
    BY <2>4 DEF CallKilled, FinTo, DispTo, VerdictInv, IInv, ShapeInv, TypeOK, ExecTypeOK, RunIs,
       Waiting, Observations, FinSteps
  <2>5. ASSUME NEW e \in Execs, BootBegins(e) \/ BootWrites(e) \/ BootArms(e) \/ BootKilled(e) \/
     DisposeBegins(e)
        PROVE  UNCHANGED verdictFrame
    BY <2>5 DEF BootBegins, BootWrites, BootArms, BootKilled, DisposeBegins, BootTo, DispTo,
       verdictFrame
  <2> QED
    BY <1>3, <2>1, <2>2, <2>3, <2>4, <2>5, <1>f DEF CallSteps
<1>4. ASSUME RecoverySteps PROVE VerdictInv'
  <2>1. ASSUME NEW e \in Execs, RecoverBare(e) PROVE VerdictInv'
    BY <2>1 DEF RecoverBare, RecTo, VerdictInv, IInv, ShapeInv, TypeOK, ExecTypeOK, RunIs,
       Waiting, Observations, FinSteps
  <2>2. ASSUME NEW e \in Execs, RecoverFinalizes(e) PROVE VerdictInv'
    BY <2>2 DEF RecoverFinalizes, RecTo, FinTo, BarInv, VerdictInv, IInv, ShapeInv, TypeOK,
       ExecTypeOK, RunIs, Waiting, Observations, FinSteps
  <2>3. ASSUME RecoverCut PROVE VerdictInv'
    BY <2>3 DEF RecoverCut, NotDone, RecTo, UnmountCut, VerdictInv, IInv, ShapeInv, TypeOK,
       ExecTypeOK, RunIs, Waiting, Observations, FinSteps
  <2>4. ASSUME RecoverBegins \/ RecoverFinalized \/ RecoverDisposed \/ RecoverUnmounts \/
     RecoverRemoves
        PROVE  UNCHANGED verdictFrame
    BY <2>4 DEF RecoverBegins, RecoverFinalized, RecoverDisposed, RecoverUnmounts, RecoverRemoves,
       NotDone, RecTo, DispTo, ClearActive, verdictFrame
  <2>5. ASSUME NEW e \in Execs, RecoverUnstarted(e) \/ RecoverAbsent(e)
        PROVE  UNCHANGED verdictFrame
    BY <2>5 DEF RecoverUnstarted, RecoverAbsent, RecTo, NotDone, ClearActive, verdictFrame
  <2> QED
    BY <1>4, <2>1, <2>2, <2>3, <2>4, <1>f, <2>5 DEF RecoverySteps
<1>5. ASSUME ExecProcesses, UNCHANGED callRest PROVE VerdictInv'
  <2>1. ASSUME NEW e \in Execs, CandidateEnds(e) PROVE VerdictInv'
    BY <1>5, <2>1 DEF CandidateEnds, VerdictInv, IInv, ShapeInv, TypeOK, ExecTypeOK, RunIs,
       Waiting, Observations, FinSteps
  <2>2. ASSUME NEW e \in Execs, SupervisorCreates(e) PROVE VerdictInv'
    BY <1>5, <2>2 DEF SupervisorCreates, SupVars, SupSays, VerdictInv, IInv, ShapeInv, TypeOK,
       ExecTypeOK, RunIs, Waiting, Observations, FinSteps
  <2>3. ASSUME NEW e \in Execs, SupervisorRegisters(e) PROVE VerdictInv'
    BY <1>5, <2>3 DEF SupervisorRegisters, SupVars, VerdictInv, IInv, ShapeInv, TypeOK,
       ExecTypeOK, RunIs, Waiting, Observations, FinSteps
  <2>4. ASSUME NEW e \in Execs, SupervisorChecks(e) PROVE VerdictInv'
    BY <1>5, <2>4 DEF SupervisorChecks, SupVars, VerdictInv, IInv, ShapeInv, TypeOK, ExecTypeOK,
       RunIs, Waiting, Observations, FinSteps
  <2>5. ASSUME NEW e \in Execs, SupervisorStarts(e) PROVE VerdictInv'
    BY <1>5, <2>5 DEF SupervisorStarts, SupVars, VerdictInv, IInv, ShapeInv, TypeOK, ExecTypeOK,
       RunIs, Waiting, Observations, FinSteps
  <2>6. ASSUME NEW e \in Execs, SupervisorWatches(e) PROVE VerdictInv'
    BY <1>5, <2>6 DEF SupervisorWatches, SupVars, SupSays, VerdictInv, IInv, ShapeInv, TypeOK,
       ExecTypeOK, RunIs, Waiting, Observations, FinSteps
  <2>7. ASSUME NEW e \in Execs, SupervisorCleans(e) PROVE VerdictInv'
    BY <1>5, <2>7 DEF SupervisorCleans, SupVars, SupSays, RemovalLeaves, VerdictInv, IInv,
       ShapeInv, TypeOK, ExecTypeOK, RunIs, Waiting, Observations, FinSteps
  <2>8. ASSUME NEW e \in Execs, SupervisorObserves(e) PROVE VerdictInv'
    BY <1>5, <2>8 DEF SupervisorObserves, SupVars, SupSays, VerdictInv, IInv, ShapeInv, TypeOK,
       ExecTypeOK, RunIs, Waiting, Observations, FinSteps
  <2>9. ASSUME NEW e \in Execs, SupervisorKilled(e) PROVE VerdictInv'
    BY <1>5, <2>9 DEF SupervisorKilled, SupVars, SupSays, Settles, VerdictInv, IInv, ShapeInv,
       TypeOK, ExecTypeOK, RunIs, Waiting, Observations, FinSteps
  <2>10. ASSUME NEW e \in Execs, SupervisorStopped(e) PROVE VerdictInv'
    BY <1>5, <2>10 DEF SupervisorStopped, SupVars, RemovalLeaves, VerdictInv, IInv, ShapeInv,
       TypeOK, ExecTypeOK, RunIs, Waiting, Observations, FinSteps
  <2>11. ASSUME NEW e \in Execs, TimerFires(e) PROVE VerdictInv'
    BY <1>5, <2>11 DEF TimerFires, VerdictInv, IInv, ShapeInv, TypeOK, ExecTypeOK, RunIs, Waiting,
       Observations, FinSteps
  <2>12. ASSUME NEW e \in Execs, ReaperKills(e) PROVE VerdictInv'
    BY <1>5, <2>12 DEF ReaperKills, SupVars, SupSays, Settles, VerdictInv, IInv, ShapeInv, TypeOK,
       ExecTypeOK, RunIs, Waiting, Observations, FinSteps
  <2>13. ASSUME NEW e \in Execs, ReaperRemoves(e) PROVE VerdictInv'
    BY <1>5, <2>13 DEF ReaperRemoves, RemovalLeaves, VerdictInv, IInv, ShapeInv, TypeOK,
       ExecTypeOK, RunIs, Waiting, Observations, FinSteps
  <2>14. ASSUME NEW e \in Execs, ReaperDisarms(e) PROVE VerdictInv'
    BY <1>5, <2>14 DEF ReaperDisarms, VerdictInv, IInv, ShapeInv, TypeOK, ExecTypeOK, RunIs,
       Waiting, Observations, FinSteps
  <2> QED
    BY <1>5, <2>1, <2>2, <2>3, <2>4, <2>5, <2>6, <2>7, <2>8, <2>9, <2>10, <2>11, <2>12, <2>13,
       <2>14 DEF ExecProcesses
<1>6. ASSUME ExecCalls, UNCHANGED callRest PROVE VerdictInv'
  <2>1. ASSUME NEW e \in Execs, FinalizeStops(e) PROVE VerdictInv'
    BY <1>6, <2>1 DEF FinalizeStops, FinTo, SupVars, SupSays, Settles, VerdictInv, IInv, ShapeInv,
       TypeOK, ExecTypeOK, RunIs, Waiting, Observations, FinSteps
  <2>2. ASSUME NEW e \in Execs, FinalizeRemoves(e) PROVE VerdictInv'
    BY <1>6, <2>2 DEF FinalizeRemoves, FinTo, RemovalLeaves, VerdictInv, IInv, ShapeInv, TypeOK,
       ExecTypeOK, RunIs, Waiting, Observations, FinSteps
  <2>3. ASSUME NEW e \in Execs, FinalizeProves(e) PROVE VerdictInv'
    BY <1>6, <2>3 DEF FinalizeProves, FinTo, VerdictInv, IInv, ShapeInv, TypeOK, ExecTypeOK,
       RunIs, Waiting, Observations, FinSteps
  <2>4. ASSUME NEW e \in Execs, FinalizeDisarms(e) PROVE VerdictInv'
    BY <1>6, <2>4 DEF FinalizeDisarms, FinTo, VerdictInv, IInv, ShapeInv, TypeOK, ExecTypeOK,
       RunIs, Waiting, Observations, FinSteps
  <2>5. ASSUME NEW e \in Execs, FinalizeSettles(e) PROVE VerdictInv'
    BY <1>6, <2>5 DEF FinalizeSettles, FinTo, VerdictInv, IInv, ShapeInv, TypeOK, ExecTypeOK,
       RunIs, Waiting, Observations, FinSteps
  <2>6. ASSUME NEW e \in Execs, DisposeRemoves(e) PROVE VerdictInv'
    BY <1>6, <2>6 DEF DisposeRemoves, VerdictInv, IInv, ShapeInv, TypeOK, ExecTypeOK, RunIs,
       Waiting, Observations, FinSteps
  <2>7. ASSUME NEW e \in Execs, DisposeEnds(e) PROVE VerdictInv'
    BY <1>6, <2>7 DEF DisposeEnds, DispTo, LifeInv, DispStages, UnitsAbsent, VerdictInv, IInv,
       ShapeInv, TypeOK, ExecTypeOK, RunIs, Waiting, Observations, FinSteps
  <2> QED
    BY <1>6, <2>1, <2>2, <2>3, <2>4, <2>5, <2>6, <2>7 DEF ExecCalls
<1>7. ASSUME MachineStops PROVE UNCHANGED verdictFrame
  BY <1>7 DEF MachineStops, verdictFrame
<1>8. ASSUME UNCHANGED vars PROVE UNCHANGED verdictFrame
  BY <1>8 DEF vars, verdictFrame
<1> QED
  BY <1>f, <1>1, <1>2, <1>3, <1>4, <1>5, <1>6, <1>7, <1>8 DEF Next

(* What RecoveryInv is about.                                              *)
recoveryFrame == <<root, sup, timer, reaper, box, dispatched, record, mounts, wroot, disp, rec, at, todo, confirmed>>

(* A recovery is done with a row only when nothing is left of it, and      *)
(* nothing comes back: every bootstrap is past or barred.                  *)
LEMMA RecoveryKept ==
  ASSUME IInv, [Next]_vars PROVE RecoveryInv'
<1>f. ASSUME UNCHANGED recoveryFrame PROVE RecoveryInv'
  BY <1>f DEF recoveryFrame, RecoveryInv, DoneWith, Gone, ConfirmedIsClean, UnitsAbsent, IInv
<1>1. ASSUME HostSteps PROVE RecoveryInv'
  <2>1. ASSUME HostDispatches PROVE RecoveryInv'
    BY <2>1 DEF HostDispatches, RecoveryInv, DoneWith, Gone, ConfirmedIsClean, UnitsAbsent, IInv,
       ShapeInv, TypeOK, ExecTypeOK, BarInv, LifeInv, UnitsHaveFiles, RegistrationFree,
       Registering
  <2>2. ASSUME HostAnswered PROVE RecoveryInv'
    BY <2>2 DEF HostAnswered, Answered, RecoveryInv, DoneWith, Gone, ConfirmedIsClean,
       UnitsAbsent, IInv, ShapeInv, TypeOK, ExecTypeOK, BarInv, LifeInv, UnitsHaveFiles,
       RegistrationFree, Registering
  <2>3. ASSUME HostCreates \/ HostReserves \/ HostStarts \/ HostStarted \/ HostCollects \/
     HostCollected \/ HostFreezes \/ HostDeletes \/ HostDisposed \/ HostLosesReply \/ HostDies
        PROVE  UNCHANGED recoveryFrame
    BY <2>3 DEF HostCreates, HostReserves, HostStarts, HostStarted, HostCollects, HostCollected,
       HostFreezes, HostDeletes, HostDisposed, HostLosesReply, HostDies, recoveryFrame
  <2>4. ASSUME NEW e \in Execs, HostIntends(e)
        PROVE  UNCHANGED recoveryFrame
    BY <2>4 DEF HostIntends, recoveryFrame
  <2> QED
    BY <1>1, <2>1, <2>2, <2>3, <1>f, <2>4 DEF HostSteps
<1>2. ASSUME ControllerSteps PROVE RecoveryInv'
  <2>1. ASSUME HandleCreate PROVE RecoveryInv'
    BY <2>1 DEF HandleCreate, Serve, Creatable, RecoveryInv, DoneWith, Gone, ConfirmedIsClean,
       UnitsAbsent, IInv, ShapeInv, TypeOK, ExecTypeOK, BarInv, LifeInv, UnitsHaveFiles,
       RegistrationFree, Registering
  <2>2. ASSUME HandleCreateCut PROVE RecoveryInv'
    BY <2>2 DEF HandleCreateCut, Serve, Cut, Creatable, RecoveryInv, DoneWith, Gone,
       ConfirmedIsClean, UnitsAbsent, IInv, ShapeInv, TypeOK, ExecTypeOK, BarInv, LifeInv,
       UnitsHaveFiles, RegistrationFree, Registering
  <2>3. ASSUME HandleReserve PROVE RecoveryInv'
    BY <2>3 DEF HandleReserve, Serve, RecoveryInv, DoneWith, Gone, ConfirmedIsClean, UnitsAbsent,
       IInv, ShapeInv, TypeOK, ExecTypeOK, BarInv, LifeInv, UnitsHaveFiles, RegistrationFree,
       Registering
  <2>4. ASSUME HandleReserveCut PROVE RecoveryInv'
    BY <2>4 DEF HandleReserveCut, Serve, Cut, RecoveryInv, DoneWith, Gone, ConfirmedIsClean,
       UnitsAbsent, IInv, ShapeInv, TypeOK, ExecTypeOK, BarInv, LifeInv, UnitsHaveFiles,
       RegistrationFree, Registering
  <2>5. ASSUME HandleComplete PROVE RecoveryInv'
    BY <2>5 DEF HandleComplete, Serve, RecoveryInv, DoneWith, Gone, ConfirmedIsClean, UnitsAbsent,
       IInv, ShapeInv, TypeOK, ExecTypeOK, BarInv, LifeInv, UnitsHaveFiles, RegistrationFree,
       Registering
  <2>6. ASSUME HandleFreeze PROVE RecoveryInv'
    BY <2>6 DEF HandleFreeze, Serve, RecoveryInv, DoneWith, Gone, ConfirmedIsClean, UnitsAbsent,
       IInv, ShapeInv, TypeOK, ExecTypeOK, BarInv, LifeInv, UnitsHaveFiles, RegistrationFree,
       Registering
  <2>7. ASSUME HandleFreezeCut PROVE RecoveryInv'
    BY <2>7 DEF HandleFreezeCut, Serve, Cut, RecoveryInv, DoneWith, Gone, ConfirmedIsClean,
       UnitsAbsent, IInv, ShapeInv, TypeOK, ExecTypeOK, BarInv, LifeInv, UnitsHaveFiles,
       RegistrationFree, Registering
  <2>8. ASSUME HandleDelete PROVE RecoveryInv'
    BY <2>8 DEF HandleDelete, Serve, Cut, UnmountCut, Deletable, Open, RecoveryInv, DoneWith,
       Gone, ConfirmedIsClean, UnitsAbsent, IInv, ShapeInv, TypeOK, ExecTypeOK, BarInv, LifeInv,
       UnitsHaveFiles, RegistrationFree, Registering
  <2>9. ASSUME TailRetires PROVE RecoveryInv'
    BY <2>9 DEF TailRetires, Serve, RecoveryInv, DoneWith, Gone, ConfirmedIsClean, UnitsAbsent,
       IInv, ShapeInv, TypeOK, ExecTypeOK, BarInv, LifeInv, UnitsHaveFiles, RegistrationFree,
       Registering
  <2>10. ASSUME TailRemoves PROVE RecoveryInv'
    BY <2>10 DEF TailRemoves, Serve, RecoveryInv, DoneWith, Gone, ConfirmedIsClean, UnitsAbsent,
       IInv, ShapeInv, TypeOK, ExecTypeOK, BarInv, LifeInv, UnitsHaveFiles, RegistrationFree,
       Registering
  <2>11. ASSUME TailCut PROVE RecoveryInv'
    BY <2>11 DEF TailCut, Serve, RecoveryInv, DoneWith, Gone, ConfirmedIsClean, UnitsAbsent, IInv,
       ShapeInv, TypeOK, ExecTypeOK, BarInv, LifeInv, UnitsHaveFiles, RegistrationFree,
       Registering
  <2>12. ASSUME HandleAlarm PROVE RecoveryInv'
    BY <2>12 DEF HandleAlarm, Serve, Cut, RecoveryInv, DoneWith, Gone, ConfirmedIsClean,
       UnitsAbsent, IInv, ShapeInv, TypeOK, ExecTypeOK, BarInv, LifeInv, UnitsHaveFiles,
       RegistrationFree, Registering
  <2>13. ASSUME HandleCompleteCut PROVE RecoveryInv'
    BY <2>13 DEF HandleCompleteCut, Cut, Serve, RecoveryInv, DoneWith, Gone, ConfirmedIsClean, UnitsAbsent,
       IInv, ShapeInv, TypeOK, ExecTypeOK, BarInv, LifeInv, UnitsHaveFiles, RegistrationFree,
       Registering
  <2> QED
    BY <1>2, <2>1, <2>2, <2>3, <2>4, <2>5, <2>6, <2>7, <2>8, <2>9, <2>10, <2>11, <2>12,
       <2>13 DEF ControllerSteps
<1>3. ASSUME CallSteps PROVE RecoveryInv'
  <2>1. ASSUME NEW e \in Execs, BootBegins(e) PROVE RecoveryInv'
    BY <2>1 DEF BootBegins, BootTo, RecoveryInv, DoneWith, Gone, ConfirmedIsClean, UnitsAbsent,
       IInv, ShapeInv, TypeOK, ExecTypeOK, BarInv, LifeInv, UnitsHaveFiles, RegistrationFree,
       Registering
  <2>2. ASSUME NEW e \in Execs, BootWrites(e) PROVE RecoveryInv'
    BY <2>2 DEF BootWrites, BootTo, RecoveryInv, DoneWith, Gone, ConfirmedIsClean, UnitsAbsent,
       IInv, ShapeInv, TypeOK, ExecTypeOK, BarInv, LifeInv, UnitsHaveFiles, RegistrationFree,
       Registering
  <2>3. ASSUME NEW e \in Execs, BootAuthorizes(e) PROVE RecoveryInv'
    BY <2>3 DEF BootAuthorizes, BootTo, RecoveryInv, DoneWith, Gone, ConfirmedIsClean,
       UnitsAbsent, IInv, ShapeInv, TypeOK, ExecTypeOK, BarInv, LifeInv, UnitsHaveFiles,
       RegistrationFree, Registering
  <2>4. ASSUME NEW e \in Execs, BootArms(e) PROVE RecoveryInv'
    BY <2>4 DEF BootArms, BootTo, RecoveryInv, DoneWith, Gone, ConfirmedIsClean, UnitsAbsent,
       IInv, ShapeInv, TypeOK, ExecTypeOK, BarInv, LifeInv, UnitsHaveFiles, RegistrationFree,
       Registering
  <2>5. ASSUME NEW e \in Execs, BootDispatches(e) PROVE RecoveryInv'
    BY <2>5 DEF BootDispatches, BootTo, RecoveryInv, DoneWith, Gone, ConfirmedIsClean,
       UnitsAbsent, IInv, ShapeInv, TypeOK, ExecTypeOK, BarInv, LifeInv, UnitsHaveFiles,
       RegistrationFree, Registering
  <2>6. ASSUME NEW e \in Execs, BootKilled(e) PROVE RecoveryInv'
    BY <2>6 DEF BootKilled, BootTo, RecoveryInv, DoneWith, Gone, ConfirmedIsClean, UnitsAbsent,
       IInv, ShapeInv, TypeOK, ExecTypeOK, BarInv, LifeInv, UnitsHaveFiles, RegistrationFree,
       Registering
  <2>7. ASSUME NEW e \in Execs, FinalizeBegins(e) PROVE RecoveryInv'
    BY <2>7 DEF FinalizeBegins, FinTo, RecoveryInv, DoneWith, Gone, ConfirmedIsClean, UnitsAbsent,
       IInv, ShapeInv, TypeOK, ExecTypeOK, BarInv, LifeInv, UnitsHaveFiles, RegistrationFree,
       Registering
  <2>8. ASSUME NEW e \in Execs, DisposeBegins(e) PROVE RecoveryInv'
    BY <2>8 DEF DisposeBegins, DispTo, RecoveryInv, DoneWith, Gone, ConfirmedIsClean, UnitsAbsent,
       IInv, ShapeInv, TypeOK, ExecTypeOK, BarInv, LifeInv, UnitsHaveFiles, RegistrationFree,
       Registering
  <2>9. ASSUME NEW e \in Execs, CallKilled(e) PROVE RecoveryInv'
    BY <2>9 DEF CallKilled, FinTo, DispTo, RecoveryInv, DoneWith, Gone, ConfirmedIsClean,
       UnitsAbsent, IInv, ShapeInv, TypeOK, ExecTypeOK, BarInv, LifeInv, UnitsHaveFiles,
       RegistrationFree, Registering
  <2> QED
    BY <1>3, <2>1, <2>2, <2>3, <2>4, <2>5, <2>6, <2>7, <2>8, <2>9 DEF CallSteps
<1>4. ASSUME RecoverySteps PROVE RecoveryInv'
  <2>1. ASSUME RecoverBegins PROVE RecoveryInv'
    BY <2>1 DEF RecoverBegins, NotDone, RecTo, OwnerInv, RowsAre, BootStages, BootSteps,
       RecoveryInv, DoneWith, Gone, ConfirmedIsClean, UnitsAbsent, IInv, ShapeInv, TypeOK,
       ExecTypeOK, BarInv, LifeInv, UnitsHaveFiles, RegistrationFree, Registering
  <2>2. ASSUME NEW e \in Execs, RecoverUnstarted(e) PROVE RecoveryInv'
    BY <2>2 DEF RecoverUnstarted, RecTo, RecoveryInv, DoneWith, Gone, ConfirmedIsClean,
       UnitsAbsent, IInv, ShapeInv, TypeOK, ExecTypeOK, BarInv, LifeInv, UnitsHaveFiles,
       RegistrationFree, Registering
  <2>3. ASSUME NEW e \in Execs, RecoverBare(e) PROVE RecoveryInv'
    BY <2>3 DEF RecoverBare, RecTo, RecoveryInv, DoneWith, Gone, ConfirmedIsClean, UnitsAbsent,
       IInv, ShapeInv, TypeOK, ExecTypeOK, BarInv, LifeInv, UnitsHaveFiles, RegistrationFree,
       Registering
  <2>4. ASSUME NEW e \in Execs, RecoverFinalizes(e) PROVE RecoveryInv'
    BY <2>4 DEF RecoverFinalizes, RecTo, FinTo, RecoveryInv, DoneWith, Gone, ConfirmedIsClean,
       UnitsAbsent, IInv, ShapeInv, TypeOK, ExecTypeOK, BarInv, LifeInv, UnitsHaveFiles,
       RegistrationFree, Registering
  <2>5. ASSUME NEW e \in Execs, RecoverAbsent(e) PROVE RecoveryInv'
    BY <2>5 DEF RecoverAbsent, NotDone, RecTo, ClearActive, Proven, NeedsNoProof, RecoveryInv,
       DoneWith, Gone, ConfirmedIsClean, UnitsAbsent, IInv, ShapeInv, TypeOK, ExecTypeOK, BarInv,
       LifeInv, UnitsHaveFiles, RegistrationFree, Registering
  <2>6. ASSUME RecoverFinalized PROVE RecoveryInv'
    BY <2>6 DEF RecoverFinalized, NotDone, RecTo, DispTo, ClearActive, MayDispose, AtIs,
       RecoveryInv, DoneWith, Gone, ConfirmedIsClean, UnitsAbsent, IInv, ShapeInv, TypeOK,
       ExecTypeOK, BarInv, LifeInv, UnitsHaveFiles, RegistrationFree, Registering
  <2>7. ASSUME RecoverDisposed PROVE RecoveryInv'
    BY <2>7 DEF RecoverDisposed, RecTo, RecoveryInv, DoneWith, Gone, ConfirmedIsClean,
       UnitsAbsent, IInv, ShapeInv, TypeOK, ExecTypeOK, BarInv, LifeInv, UnitsHaveFiles,
       RegistrationFree, Registering
  <2>8. ASSUME RecoverUnmounts PROVE RecoveryInv'
    BY <2>8 DEF RecoverUnmounts, RecTo, RecoveryInv, DoneWith, Gone, ConfirmedIsClean,
       UnitsAbsent, IInv, ShapeInv, TypeOK, ExecTypeOK, BarInv, LifeInv, UnitsHaveFiles,
       RegistrationFree, Registering
  <2>9. ASSUME RecoverRemoves PROVE RecoveryInv'
    BY <2>9 DEF RecoverRemoves, NotDone, RecTo, RecoveryInv, DoneWith, Gone, ConfirmedIsClean,
       UnitsAbsent, IInv, ShapeInv, TypeOK, ExecTypeOK, BarInv, LifeInv, UnitsHaveFiles,
       RegistrationFree, Registering
  <2>10. ASSUME RecoverCut PROVE RecoveryInv'
    <3>1. UNCHANGED <<wroot, root, sup, timer, reaper, box, confirmed>> /\ rec' = "off"
      BY <2>10 DEF RecoverCut, NotDone, RecTo
    <3>2. mounts = {} => mounts' = {}
      BY <2>10 DEF RecoverCut, UnmountCut
    <3> QED
      BY <3>1, <3>2 DEF IInv, RecoveryInv, ConfirmedIsClean, UnitsAbsent
  <2> QED
    BY <1>4, <2>1, <2>2, <2>3, <2>4, <2>5, <2>6, <2>7, <2>8, <2>9, <2>10 DEF RecoverySteps
<1>5. ASSUME ExecProcesses, UNCHANGED callRest PROVE RecoveryInv'
  <2>1. ASSUME NEW e \in Execs, CandidateEnds(e) PROVE RecoveryInv'
    BY <1>5, <2>1 DEF CandidateEnds, RecoveryInv, DoneWith, Gone, ConfirmedIsClean, UnitsAbsent,
       IInv, ShapeInv, TypeOK, ExecTypeOK, BarInv, LifeInv, UnitsHaveFiles, RegistrationFree,
       Registering
  <2>2. ASSUME NEW e \in Execs, SupervisorCreates(e) PROVE RecoveryInv'
    BY <1>5, <2>2 DEF SupervisorCreates, SupVars, SupSays, RecoveryInv, DoneWith, Gone,
       ConfirmedIsClean, UnitsAbsent, IInv, ShapeInv, TypeOK, ExecTypeOK, BarInv, LifeInv,
       UnitsHaveFiles, RegistrationFree, Registering
  <2>3. ASSUME NEW e \in Execs, SupervisorRegisters(e) PROVE RecoveryInv'
    BY <1>5, <2>3 DEF SupervisorRegisters, SupVars, RecoveryInv, DoneWith, Gone, ConfirmedIsClean,
       UnitsAbsent, IInv, ShapeInv, TypeOK, ExecTypeOK, BarInv, LifeInv, UnitsHaveFiles,
       RegistrationFree, Registering
  <2>4. ASSUME NEW e \in Execs, SupervisorChecks(e) PROVE RecoveryInv'
    BY <1>5, <2>4 DEF SupervisorChecks, SupVars, RecoveryInv, DoneWith, Gone, ConfirmedIsClean,
       UnitsAbsent, IInv, ShapeInv, TypeOK, ExecTypeOK, BarInv, LifeInv, UnitsHaveFiles,
       RegistrationFree, Registering
  <2>5. ASSUME NEW e \in Execs, SupervisorStarts(e) PROVE RecoveryInv'
    BY <1>5, <2>5 DEF SupervisorStarts, SupVars, RecoveryInv, DoneWith, Gone, ConfirmedIsClean,
       UnitsAbsent, IInv, ShapeInv, TypeOK, ExecTypeOK, BarInv, LifeInv, UnitsHaveFiles,
       RegistrationFree, Registering
  <2>6. ASSUME NEW e \in Execs, SupervisorWatches(e) PROVE RecoveryInv'
    BY <1>5, <2>6 DEF SupervisorWatches, SupVars, SupSays, RecoveryInv, DoneWith, Gone,
       ConfirmedIsClean, UnitsAbsent, IInv, ShapeInv, TypeOK, ExecTypeOK, BarInv, LifeInv,
       UnitsHaveFiles, RegistrationFree, Registering
  <2>7. ASSUME NEW e \in Execs, SupervisorCleans(e) PROVE RecoveryInv'
    BY <1>5, <2>7 DEF SupervisorCleans, SupVars, SupSays, RemovalLeaves, RecoveryInv, DoneWith,
       Gone, ConfirmedIsClean, UnitsAbsent, IInv, ShapeInv, TypeOK, ExecTypeOK, BarInv, LifeInv,
       UnitsHaveFiles, RegistrationFree, Registering
  <2>8. ASSUME NEW e \in Execs, SupervisorObserves(e) PROVE RecoveryInv'
    BY <1>5, <2>8 DEF SupervisorObserves, SupVars, SupSays, RecoveryInv, DoneWith, Gone,
       ConfirmedIsClean, UnitsAbsent, IInv, ShapeInv, TypeOK, ExecTypeOK, BarInv, LifeInv,
       UnitsHaveFiles, RegistrationFree, Registering
  <2>9. ASSUME NEW e \in Execs, SupervisorKilled(e) PROVE RecoveryInv'
    BY <1>5, <2>9 DEF SupervisorKilled, SupVars, SupSays, Settles, RecoveryInv, DoneWith, Gone,
       ConfirmedIsClean, UnitsAbsent, IInv, ShapeInv, TypeOK, ExecTypeOK, BarInv, LifeInv,
       UnitsHaveFiles, RegistrationFree, Registering
  <2>10. ASSUME NEW e \in Execs, SupervisorStopped(e) PROVE RecoveryInv'
    BY <1>5, <2>10 DEF SupervisorStopped, SupVars, RemovalLeaves, RecoveryInv, DoneWith, Gone,
       ConfirmedIsClean, UnitsAbsent, IInv, ShapeInv, TypeOK, ExecTypeOK, BarInv, LifeInv,
       UnitsHaveFiles, RegistrationFree, Registering
  <2>11. ASSUME NEW e \in Execs, TimerFires(e) PROVE RecoveryInv'
    BY <1>5, <2>11 DEF TimerFires, RecoveryInv, DoneWith, Gone, ConfirmedIsClean, UnitsAbsent,
       IInv, ShapeInv, TypeOK, ExecTypeOK, BarInv, LifeInv, UnitsHaveFiles, RegistrationFree,
       Registering
  <2>12. ASSUME NEW e \in Execs, ReaperKills(e) PROVE RecoveryInv'
    BY <1>5, <2>12 DEF ReaperKills, SupVars, SupSays, Settles, RecoveryInv, DoneWith, Gone,
       ConfirmedIsClean, UnitsAbsent, IInv, ShapeInv, TypeOK, ExecTypeOK, BarInv, LifeInv,
       UnitsHaveFiles, RegistrationFree, Registering
  <2>13. ASSUME NEW e \in Execs, ReaperRemoves(e) PROVE RecoveryInv'
    BY <1>5, <2>13 DEF ReaperRemoves, RemovalLeaves, RecoveryInv, DoneWith, Gone,
       ConfirmedIsClean, UnitsAbsent, IInv, ShapeInv, TypeOK, ExecTypeOK, BarInv, LifeInv,
       UnitsHaveFiles, RegistrationFree, Registering
  <2>14. ASSUME NEW e \in Execs, ReaperDisarms(e) PROVE RecoveryInv'
    BY <1>5, <2>14 DEF ReaperDisarms, RecoveryInv, DoneWith, Gone, ConfirmedIsClean, UnitsAbsent,
       IInv, ShapeInv, TypeOK, ExecTypeOK, BarInv, LifeInv, UnitsHaveFiles, RegistrationFree,
       Registering
  <2> QED
    BY <1>5, <2>1, <2>2, <2>3, <2>4, <2>5, <2>6, <2>7, <2>8, <2>9, <2>10, <2>11, <2>12, <2>13,
       <2>14 DEF ExecProcesses
<1>6. ASSUME ExecCalls, UNCHANGED callRest PROVE RecoveryInv'
  <2>1. ASSUME NEW e \in Execs, FinalizeStops(e) PROVE RecoveryInv'
    BY <1>6, <2>1 DEF FinalizeStops, FinTo, SupVars, SupSays, Settles, RecoveryInv, DoneWith,
       Gone, ConfirmedIsClean, UnitsAbsent, IInv, ShapeInv, TypeOK, ExecTypeOK, BarInv, LifeInv,
       UnitsHaveFiles, RegistrationFree, Registering
  <2>2. ASSUME NEW e \in Execs, FinalizeRemoves(e) PROVE RecoveryInv'
    BY <1>6, <2>2 DEF FinalizeRemoves, FinTo, RemovalLeaves, RecoveryInv, DoneWith, Gone,
       ConfirmedIsClean, UnitsAbsent, IInv, ShapeInv, TypeOK, ExecTypeOK, BarInv, LifeInv,
       UnitsHaveFiles, RegistrationFree, Registering
  <2>3. ASSUME NEW e \in Execs, FinalizeProves(e) PROVE RecoveryInv'
    BY <1>6, <2>3 DEF FinalizeProves, FinTo, RecoveryInv, DoneWith, Gone, ConfirmedIsClean,
       UnitsAbsent, IInv, ShapeInv, TypeOK, ExecTypeOK, BarInv, LifeInv, UnitsHaveFiles,
       RegistrationFree, Registering
  <2>4. ASSUME NEW e \in Execs, FinalizeDisarms(e) PROVE RecoveryInv'
    BY <1>6, <2>4 DEF FinalizeDisarms, FinTo, RecoveryInv, DoneWith, Gone, ConfirmedIsClean,
       UnitsAbsent, IInv, ShapeInv, TypeOK, ExecTypeOK, BarInv, LifeInv, UnitsHaveFiles,
       RegistrationFree, Registering
  <2>5. ASSUME NEW e \in Execs, FinalizeSettles(e) PROVE RecoveryInv'
    BY <1>6, <2>5 DEF FinalizeSettles, FinTo, RecoveryInv, DoneWith, Gone, ConfirmedIsClean,
       UnitsAbsent, IInv, ShapeInv, TypeOK, ExecTypeOK, BarInv, LifeInv, UnitsHaveFiles,
       RegistrationFree, Registering
  <2>6. ASSUME NEW e \in Execs, DisposeRemoves(e) PROVE RecoveryInv'
    BY <1>6, <2>6 DEF DisposeRemoves, RecoveryInv, DoneWith, Gone, ConfirmedIsClean, UnitsAbsent,
       IInv, ShapeInv, TypeOK, ExecTypeOK, BarInv, LifeInv, UnitsHaveFiles, RegistrationFree,
       Registering
  <2>7. ASSUME NEW e \in Execs, DisposeEnds(e) PROVE RecoveryInv'
    BY <1>6, <2>7 DEF DisposeEnds, DispTo, RecoveryInv, DoneWith, Gone, ConfirmedIsClean,
       UnitsAbsent, IInv, ShapeInv, TypeOK, ExecTypeOK, BarInv, LifeInv, UnitsHaveFiles,
       RegistrationFree, Registering
  <2> QED
    BY <1>6, <2>1, <2>2, <2>3, <2>4, <2>5, <2>6, <2>7 DEF ExecCalls
<1>7. ASSUME MachineStops PROVE RecoveryInv'
  BY <1>7 DEF MachineStops, RecoveryInv, DoneWith, Gone, ConfirmedIsClean, UnitsAbsent, IInv,
     ShapeInv, TypeOK, ExecTypeOK, BarInv, LifeInv, UnitsHaveFiles, RegistrationFree, Registering
<1>8. ASSUME UNCHANGED vars PROVE UNCHANGED recoveryFrame
  BY <1>8 DEF vars, recoveryFrame
<1> QED
  BY <1>f, <1>1, <1>2, <1>3, <1>4, <1>5, <1>6, <1>7, <1>8 DEF Next

(* What AccountInv is about.                                               *)
accountFrame == <<dispatched, record, completed, wroot, phase, act, started, root, manifest, retired, terminal>>

(* What was dispatched is accounted for: it is active with its workspace's *)
(* state, or completed, or in the terminal record.                         *)
LEMMA AccountKept ==
  ASSUME IInv, [Next]_vars PROVE AccountInv'
<1>f. ASSUME UNCHANGED accountFrame PROVE AccountInv'
  BY <1>f DEF accountFrame, AccountInv, HasState, IInv
<1>1. ASSUME HostSteps PROVE AccountInv'
  <2>1. ASSUME HostDispatches PROVE AccountInv'
    BY <2>1 DEF HostDispatches, RunIs, AccountInv, HasState, IInv, ShapeInv, TypeOK, ExecTypeOK,
       OwnerInv, RowsAre, RunIsNew, BarInv, StateInv, Open, NoActive
  <2>2. ASSUME HostCreates \/ HostReserves \/ HostStarts \/ HostStarted \/ HostCollects \/
     HostCollected \/ HostFreezes \/ HostDeletes \/ HostAnswered \/ HostDisposed \/ HostLosesReply
     \/ HostDies
        PROVE  UNCHANGED accountFrame
    BY <2>2 DEF HostCreates, HostReserves, HostStarts, HostStarted, HostCollects, HostCollected,
       HostFreezes, HostDeletes, HostAnswered, HostDisposed, HostLosesReply, HostDies,
       accountFrame
  <2>3. ASSUME NEW e \in Execs, HostIntends(e)
        PROVE  UNCHANGED accountFrame
    BY <2>3 DEF HostIntends, accountFrame
  <2> QED
    BY <1>1, <2>1, <2>2, <1>f, <2>3 DEF HostSteps
<1>2. ASSUME ControllerSteps PROVE AccountInv'
  <2>1. ASSUME HandleCreate PROVE AccountInv'
    BY <2>1 DEF HandleCreate, Serve, AccountInv, HasState, IInv, ShapeInv, TypeOK, ExecTypeOK,
       OwnerInv, RowsAre, RunIsNew, BarInv, StateInv, Open, NoActive
  <2>2. ASSUME HandleCreateCut PROVE AccountInv'
    BY <2>2 DEF HandleCreateCut, Serve, Cut, Creatable, AccountInv, HasState, IInv, ShapeInv,
       TypeOK, ExecTypeOK, OwnerInv, RowsAre, RunIsNew, BarInv, StateInv, Open, NoActive
  <2>3. ASSUME HandleReserve PROVE AccountInv'
    BY <2>3 DEF HandleReserve, Serve, Reservable, AccountInv, HasState, IInv, ShapeInv, TypeOK,
       ExecTypeOK, OwnerInv, RowsAre, RunIsNew, BarInv, StateInv, Open, NoActive
  <2>4. ASSUME HandleReserveCut PROVE AccountInv'
    BY <2>4 DEF HandleReserveCut, Serve, Cut, Reservable, AccountInv, HasState, IInv, ShapeInv,
       TypeOK, ExecTypeOK, OwnerInv, RowsAre, RunIsNew, BarInv, StateInv, Open, NoActive
  <2>5. ASSUME HandleComplete PROVE AccountInv'
    BY <2>5 DEF HandleComplete, Serve, Completable, AccountInv, HasState, IInv, ShapeInv, TypeOK,
       ExecTypeOK, OwnerInv, RowsAre, RunIsNew, BarInv, StateInv, Open, NoActive
  <2>6. ASSUME HandleFreeze PROVE AccountInv'
    BY <2>6 DEF HandleFreeze, Serve, AccountInv, HasState, IInv, ShapeInv, TypeOK, ExecTypeOK,
       OwnerInv, RowsAre, RunIsNew, BarInv, StateInv, Open, NoActive
  <2>7. ASSUME HandleFreezeCut PROVE AccountInv'
    BY <2>7 DEF HandleFreezeCut, Serve, Cut, AccountInv, HasState, IInv, ShapeInv, TypeOK,
       ExecTypeOK, OwnerInv, RowsAre, RunIsNew, BarInv, StateInv, Open, NoActive
  <2>8. ASSUME HandleDelete PROVE AccountInv'
    BY <2>8 DEF HandleDelete, Serve, Cut, UnmountCut, AccountInv, HasState, IInv, ShapeInv,
       TypeOK, ExecTypeOK, OwnerInv, RowsAre, RunIsNew, BarInv, StateInv, Open, NoActive
  <2>9. ASSUME TailRetires PROVE AccountInv'
    BY <2>9 DEF TailRetires, Serve, AccountInv, HasState, IInv, ShapeInv, TypeOK, ExecTypeOK,
       OwnerInv, RowsAre, RunIsNew, BarInv, StateInv, Open, NoActive
  <2>10. ASSUME TailRemoves PROVE AccountInv'
    BY <2>10 DEF TailRemoves, Serve, AccountInv, HasState, IInv, ShapeInv, TypeOK, ExecTypeOK,
       OwnerInv, RowsAre, RunIsNew, BarInv, StateInv, Open, NoActive
  <2>11. ASSUME TailCut PROVE AccountInv'
    BY <2>11 DEF TailCut, Serve, AccountInv, HasState, IInv, ShapeInv, TypeOK, ExecTypeOK,
       OwnerInv, RowsAre, RunIsNew, BarInv, StateInv, Open, NoActive
  <2>12. ASSUME HandleAlarm PROVE AccountInv'
    BY <2>12 DEF HandleAlarm, Serve, Cut, AccountInv, HasState, IInv, ShapeInv, TypeOK,
       ExecTypeOK, OwnerInv, RowsAre, RunIsNew, BarInv, StateInv, Open, NoActive
  <2>13. ASSUME HandleCompleteCut PROVE AccountInv'
    BY <2>13 DEF HandleCompleteCut, Cut, Serve, Completable, AccountInv, HasState, IInv, ShapeInv, TypeOK,
       ExecTypeOK, OwnerInv, RowsAre, RunIsNew, BarInv, StateInv, Open, NoActive
  <2> QED
    BY <1>2, <2>1, <2>2, <2>3, <2>4, <2>5, <2>6, <2>7, <2>8, <2>9, <2>10, <2>11, <2>12,
       <2>13 DEF ControllerSteps
<1>3. ASSUME CallSteps PROVE AccountInv'
  <2>1. ASSUME NEW e \in Execs, BootBegins(e) PROVE AccountInv'
    BY <2>1 DEF BootBegins, BootTo, AccountInv, HasState, IInv, ShapeInv, TypeOK, ExecTypeOK,
       OwnerInv, RowsAre, RunIsNew, BarInv, StateInv, Open, NoActive
  <2>2. ASSUME NEW e \in Execs, BootWrites(e) PROVE AccountInv'
    BY <2>2 DEF BootWrites, BootTo, AccountInv, HasState, IInv, ShapeInv, TypeOK, ExecTypeOK,
       OwnerInv, RowsAre, RunIsNew, BarInv, StateInv, Open, NoActive
  <2>3. ASSUME NEW e \in Execs, BootAuthorizes(e) PROVE AccountInv'
    BY <2>3 DEF BootAuthorizes, BootTo, LifeInv, BootStages, AccountInv, HasState, IInv, ShapeInv,
       TypeOK, ExecTypeOK, OwnerInv, RowsAre, RunIsNew, BarInv, StateInv, Open, NoActive
  <2>4. ASSUME NEW e \in Execs, BootArms(e) PROVE AccountInv'
    BY <2>4 DEF BootArms, BootTo, AccountInv, HasState, IInv, ShapeInv, TypeOK, ExecTypeOK,
       OwnerInv, RowsAre, RunIsNew, BarInv, StateInv, Open, NoActive
  <2>5. ASSUME NEW e \in Execs, BootDispatches(e) PROVE AccountInv'
    BY <2>5 DEF BootDispatches, BootTo, AccountInv, HasState, IInv, ShapeInv, TypeOK, ExecTypeOK,
       OwnerInv, RowsAre, RunIsNew, BarInv, StateInv, Open, NoActive
  <2>6. ASSUME NEW e \in Execs, BootKilled(e) PROVE AccountInv'
    BY <2>6 DEF BootKilled, BootTo, AccountInv, HasState, IInv, ShapeInv, TypeOK, ExecTypeOK,
       OwnerInv, RowsAre, RunIsNew, BarInv, StateInv, Open, NoActive
  <2>7. ASSUME NEW e \in Execs, FinalizeBegins(e) \/ DisposeBegins(e) \/ CallKilled(e)
        PROVE  UNCHANGED accountFrame
    BY <2>7 DEF FinalizeBegins, DisposeBegins, CallKilled, FinTo, DispTo, accountFrame
  <2> QED
    BY <1>3, <2>1, <2>2, <2>3, <2>4, <2>5, <2>6, <2>7, <1>f DEF CallSteps
<1>4. ASSUME RecoverySteps PROVE AccountInv'
  <2>1. ASSUME RecoverBegins PROVE AccountInv'
    BY <2>1 DEF RecoverBegins, NotDone, RecTo, AccountInv, HasState, IInv, ShapeInv, TypeOK,
       ExecTypeOK, OwnerInv, RowsAre, RunIsNew, BarInv, StateInv, Open, NoActive
  <2>2. ASSUME NEW e \in Execs, RecoverUnstarted(e) PROVE AccountInv'
    BY <2>2 DEF RecoverUnstarted, RecTo, AccountInv, HasState, IInv, ShapeInv, TypeOK, ExecTypeOK,
       OwnerInv, RowsAre, RunIsNew, BarInv, StateInv, Open, NoActive
  <2>3. ASSUME NEW e \in Execs, RecoverBare(e) PROVE AccountInv'
    BY <2>3 DEF RecoverBare, RecTo, AccountInv, HasState, IInv, ShapeInv, TypeOK, ExecTypeOK,
       OwnerInv, RowsAre, RunIsNew, BarInv, StateInv, Open, NoActive
  <2>4. ASSUME NEW e \in Execs, RecoverAbsent(e) PROVE AccountInv'
    BY <2>4 DEF RecoverAbsent, NotDone, RecTo, ClearActive, Proven, NeedsNoProof, Active,
       AccountInv, HasState, IInv, ShapeInv, TypeOK, ExecTypeOK, OwnerInv, RowsAre, RunIsNew,
       BarInv, StateInv, Open, NoActive
  <2>5. ASSUME RecoverFinalized PROVE AccountInv'
    BY <2>5 DEF RecoverFinalized, NotDone, RecTo, DispTo, ClearActive, Active, AtIs, AccountInv,
       HasState, IInv, ShapeInv, TypeOK, ExecTypeOK, OwnerInv, RowsAre, RunIsNew, BarInv,
       StateInv, Open, NoActive
  <2>6. ASSUME RecoverUnmounts PROVE AccountInv'
    BY <2>6 DEF RecoverUnmounts, RecTo, AccountInv, HasState, IInv, ShapeInv, TypeOK, ExecTypeOK,
       OwnerInv, RowsAre, RunIsNew, BarInv, StateInv, Open, NoActive
  <2>7. ASSUME RecoverRemoves PROVE AccountInv'
    BY <2>7 DEF RecoverRemoves, NotDone, RecTo, RecoveryInv, DoneWith, AccountInv, HasState, IInv,
       ShapeInv, TypeOK, ExecTypeOK, OwnerInv, RowsAre, RunIsNew, BarInv, StateInv, Open, NoActive
  <2>8. ASSUME RecoverCut PROVE AccountInv'
    BY <2>8 DEF RecoverCut, NotDone, RecTo, UnmountCut, RecoveryInv, DoneWith, AccountInv,
       HasState, IInv, ShapeInv, TypeOK, ExecTypeOK, OwnerInv, RowsAre, RunIsNew, BarInv,
       StateInv, Open, NoActive
  <2>9. ASSUME RecoverDisposed
        PROVE  UNCHANGED accountFrame
    BY <2>9 DEF RecoverDisposed, RecTo, accountFrame
  <2>10. ASSUME NEW e \in Execs, RecoverFinalizes(e)
        PROVE  UNCHANGED accountFrame
    BY <2>10 DEF RecoverFinalizes, RecTo, FinTo, accountFrame
  <2> QED
    BY <1>4, <2>1, <2>2, <2>3, <2>4, <2>5, <2>6, <2>7, <2>8, <2>9, <1>f, <2>10 DEF RecoverySteps
<1>5. ASSUME ExecProcesses, UNCHANGED callRest PROVE UNCHANGED accountFrame
  BY <1>5 DEF ExecProcesses, CandidateEnds, SupervisorCreates, SupervisorRegisters,
     SupervisorChecks, SupervisorStarts, SupervisorWatches, SupervisorCleans, SupervisorObserves,
     SupervisorKilled, SupervisorStopped, TimerFires, ReaperKills, ReaperRemoves, ReaperDisarms,
     SupVars, SupSays, accountFrame
<1>6. ASSUME ExecCalls, UNCHANGED callRest PROVE AccountInv'
  <2>1. ASSUME NEW e \in Execs, DisposeRemoves(e) PROVE AccountInv'
    BY <1>6, <2>1 DEF DisposeRemoves, LifeInv, DispStages, AccountInv, HasState, IInv, ShapeInv,
       TypeOK, ExecTypeOK, OwnerInv, RowsAre, RunIsNew, BarInv, StateInv, Open, NoActive
  <2>2. ASSUME NEW e \in Execs, DisposeEnds(e) PROVE AccountInv'
    BY <1>6, <2>2 DEF DisposeEnds, DispTo, LifeInv, DispStages, AccountInv, HasState, IInv,
       ShapeInv, TypeOK, ExecTypeOK, OwnerInv, RowsAre, RunIsNew, BarInv, StateInv, Open, NoActive
  <2>3. ASSUME NEW e \in Execs, FinalizeStops(e) \/ FinalizeRemoves(e) \/ FinalizeProves(e) \/
     FinalizeDisarms(e) \/ FinalizeSettles(e)
        PROVE  UNCHANGED accountFrame
    BY <1>6, <2>3 DEF FinalizeStops, FinalizeRemoves, FinalizeProves, FinalizeDisarms,
       FinalizeSettles, FinTo, SupVars, SupSays, accountFrame
  <2> QED
    BY <1>6, <2>1, <2>2, <2>3, <1>f DEF ExecCalls
<1>7. ASSUME MachineStops PROVE UNCHANGED accountFrame
  BY <1>7 DEF MachineStops, accountFrame
<1>8. ASSUME UNCHANGED vars PROVE UNCHANGED accountFrame
  BY <1>8 DEF vars, accountFrame
<1> QED
  BY <1>f, <1>1, <1>2, <1>3, <1>4, <1>5, <1>6, <1>7, <1>8 DEF Next

(* The invariant holds at the start.                                       *)
LEMMA InitIInv ==
  Init => IInv
<1> SUFFICES ASSUME Init PROVE IInv
  OBVIOUS
<1> USE DEF Init, ExecInit
<1>1. ShapeInv
  <2>1. ExecTypeOK
    BY DEF ExecTypeOK, Observations
  <2>2. /\ wroot \in BOOLEAN /\ started \in BOOLEAN
        /\ named \in BOOLEAN /\ confirmed \in BOOLEAN
    OBVIOUS
  <2> QED
    BY <2>1, <2>2 DEF ShapeInv, RunIs, AtIs, TypeOK, Observations, Phases, Torn
<1>2. OwnerInv
  BY DEF OwnerInv, CallIs, RowsAre, RunIsNew, DisposedIsCompleted, NoRequest, Waiting
<1>3. LockInv /\ BarInv
  BY DEF LockInv, BootAlone, FinAlone, DispAlone, BarInv, BootSteps, FinSteps
<1>4. LifeInv
  BY DEF LifeInv, BootStages, FinStages, DispStages, ProofStays, ProofIsFinal, UnitsHaveFiles,
     UnitsAbsent, BootSteps, FinSteps
<1>5. WatchInv /\ StateInv
  BY DEF WatchInv, Watched, StateInv
<1>6. MountInv
  BY DEF MountInv, Live
<1>7. VerdictInv /\ RecoveryInv /\ AccountInv
  BY DEF VerdictInv, RecoveryInv, ConfirmedIsClean, AccountInv
<1> QED
  BY <1>1, <1>2, <1>3, <1>4, <1>5, <1>6, <1>7 DEF IInv

(* Every step keeps the invariant.                                         *)
LEMMA NextIInv ==
  IInv /\ [Next]_vars => IInv'
<1> SUFFICES ASSUME IInv, [Next]_vars PROVE IInv'
  OBVIOUS
<1>1. /\ ShapeInv /\ OwnerInv /\ LockInv /\ BarInv /\ LifeInv /\ WatchInv
      /\ StateInv /\ RecoveryInv /\ BootStages /\ RowsAre /\ RunIsNew
  BY DEF IInv, LifeInv, OwnerInv
<1>2. ShapeInv' /\ LockInv' /\ BarInv'
  BY <1>1, ShapeKept, LockKept, BarKept
<1>3. OwnerInv' /\ LifeInv' /\ WatchInv' /\ StateInv'
  BY <1>1, OwnerKept, LifeKept, WatchKept, StateKept
<1>4. MountInv' /\ VerdictInv' /\ RecoveryInv' /\ AccountInv'
  BY MountKept, VerdictKept, RecoveryKept, AccountKept
<1> QED
  BY <1>2, <1>3, <1>4 DEF IInv

(* The invariant holds in every state.                                     *)
THEOREM WorkspaceInvariant == Spec => []IInv
BY InitIInv, NextIInv, PTL DEF Spec

(* Everything has its type (TypeOK).                                       *)
THEOREM WorkspaceTypes == Spec => []TypeOK
<1>1. IInv => TypeOK
  BY DEF IInv, ShapeInv
<1> QED
  BY <1>1, WorkspaceInvariant, PTL

(* remote.py supervise, reap: a candidate never runs with nobody left to   *)
(* end it, wherever the supervisor, the timer and the reaper are cut       *)
(* (StartedIsWatched).                                                     *)
THEOREM CandidatesAreWatched == Spec => []StartedIsWatched
<1>1. IInv => StartedIsWatched
  BY DEF IInv, WatchInv, Watched, StartedIsWatched
<1> QED
  BY <1>1, WorkspaceInvariant, PTL

(* remote.py dispose, machine.py recover: no directory is taken from a     *)
(* unit that still reads or writes in it (UnitsHaveFiles).                 *)
THEOREM DirectoriesStay == Spec => []UnitsHaveFiles
<1>1. IInv => UnitsHaveFiles
  BY DEF IInv, LifeInv
<1> QED
  BY <1>1, WorkspaceInvariant, PTL

(* remote.py finalize: a run with its proof has no container and no        *)
(* writer, and never gets one again (ProofIsFinal).                        *)
THEOREM ProofsAreFinal == Spec => []ProofIsFinal
<1>1. IInv => ProofIsFinal
  BY DEF IInv, LifeInv
<1> QED
  BY <1>1, WorkspaceInvariant, PTL

(* workspace_controller.py freeze, delete: a candidate has its own mounts  *)
(* under it as long as it runs (RunsOnItsMounts).                          *)
THEOREM MountsStay == Spec => []RunsOnItsMounts
<1>1. IInv => RunsOnItsMounts
  BY DEF IInv, MountInv, Live, Needs, RunsOnItsMounts
<1> QED
  BY <1>1, WorkspaceInvariant, PTL

(* adapter.py _collect, workspace.py execution_result: a success is        *)
(* published only for a candidate that ended by itself, and with nothing   *)
(* of it left (VerdictIsEarned).                                           *)
THEOREM VerdictsAreEarned == Spec => []VerdictIsEarned
<1>1. IInv => VerdictIsEarned
  <2> SUFFICES ASSUME IInv, host = "collecting", fin[run] \notin {"called"} \cup FinSteps,
                      Succeeds(run)
               PROVE  run \in finished /\ box[run] = "none" /\ UnitsAbsent(run)
    BY DEF VerdictIsEarned
  <2>1. run \in Execs
    BY DEF IInv, ShapeInv, RunIs
  <2>2. run \in finished
    BY DEF IInv, VerdictInv, Succeeds
  <2>3. box[run] = "none" /\ UnitsAbsent(run)
    BY <2>1 DEF IInv, LifeInv, ProofIsFinal, ProofStays, Succeeds
  <2> QED
    BY <2>2, <2>3
<1> QED
  BY <1>1, WorkspaceInvariant, PTL

(* machine.py recover: once a recovery has confirmed the cleanup nothing   *)
(* of the workspace is left and nothing comes back (ConfirmedIsClean).     *)
THEOREM ConfirmedStaysClean == Spec => []ConfirmedIsClean
<1>1. IInv => ConfirmedIsClean
  BY DEF IInv, RecoveryInv
<1> QED
  BY <1>1, WorkspaceInvariant, PTL

(* machine.py recover: what keeps a recovery out is only a torn record, a  *)
(* reservation cut before its call's id was in it, or a completed run      *)
(* whose disposal was cut (OnlyTheseBlock).                                *)
THEOREM OthersAreReconciled == Spec => []OnlyTheseBlock
<1>1. IInv => OnlyTheseBlock
  <2> SUFFICES ASSUME IInv,
                      hostTorn = {},
                      "torn" \notin {owner, retired} \cup {manifest[e] : e \in Execs},
                      act # None => named,
                      \A e \in completed : e \in root => manifest[e] # "none"
               PROVE  Reconcilable
    BY DEF OnlyTheseBlock
  <2>1. TypeOK /\ ExecTypeOK
    BY DEF IInv, ShapeInv, TypeOK
  <2>2. RecordsReadable
    BY DEF RecordsReadable, SupportingReadable, IInv, StateInv
  <2>3. ActiveRecorded /\ Known \subseteq rows
    BY DEF ActiveRecorded, Active, Known, IInv, OwnerInv, RowsAre
  <2>4. \A e \in dispatched \ (record \cup completed) :
           started => e \in root /\ manifest[e] # "none"
    BY DEF IInv, AccountInv
  <2>5. \A e \in dispatched \ (record \cup completed) : ~started => e \in NotStarted
    BY <2>1 DEF IInv, AccountInv, NotStarted, Active, TypeOK
  <2>6. ASSUME NEW e \in rows PROVE DirectoryAccepted(e)
    <3> SUFFICES ASSUME e \in root, manifest[e] = "none", e \notin record \cup NotStarted
                 PROVE  FALSE
      BY <2>1 DEF DirectoryAccepted, ExecTypeOK, TypeOK
    <3>1. e \in dispatched
      BY <2>1 DEF IInv, LifeInv, BootStages, OwnerInv, RowsAre, TypeOK
    <3> QED
      BY <3>1, <2>4, <2>5
  <2>7. ASSUME NEW e \in rows \ root PROVE e \in NotStarted \/ Proven(e) \/ NeedsNoProof(e)
    <3>1. CASE e \in dispatched \ (record \cup completed)
      BY <3>1, <2>4, <2>5
    <3>2. CASE e \in record \cup completed
      BY <3>2 DEF Proven, Known, IInv, AccountInv
    <3>3. CASE e \notin dispatched
      BY <2>1, <3>3 DEF NeedsNoProof, Active, IInv, AccountInv, TypeOK
    <3> QED
      BY <3>1, <3>2, <3>3
  <2> QED
    BY <2>2, <2>3, <2>6, <2>7 DEF Reconcilable, Accepted
<1> QED
  BY <1>1, WorkspaceInvariant, PTL
=============================================================================
