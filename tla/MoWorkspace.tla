----------------------------- MODULE MoWorkspace -----------------------------
(***************************************************************************)
(* A session workspace: its owner on the host (executor/workspace.py), the *)
(* controller on the machine (workspace_controller.py), and the recovery   *)
(* an operator calls once the owner has gone (recovery/__init__.py and     *)
(* recovery/machine.py), composed with the executions of MoExecutor.       *)
(*                                                                         *)
(* The owner is one thread that makes one call at a time.  It may die at   *)
(* any step with its call still on the way; a call may be lost, its answer *)
(* may be lost, and the process that serves it may be killed.  The         *)
(* controller serves a call inside the workspace's lock, so each operation *)
(* is one step, with a second one for the places where it can be cut.      *)
(***************************************************************************)
EXTENDS MoExecutor

CONSTANTS
    Readonly,       \* the executions that verify the frozen snapshot
    None            \* no execution

ASSUME ReadonlyAssumption == Readonly \subseteq Execs
ASSUME NoneAssumption == None \notin Execs

VARIABLES
    \* the owner, and what it keeps on the host
    host,           \* where the owner is
    run,            \* self.active, from the intent on
    seen,           \* the observation its collect has read
    rows,           \* ownership.json: the executions it intends
    dispatched,     \* the rows with dispatch_requested
    hostTorn,       \* the rows whose own manifest.json on the host its writer's death tore
    \* a call of the controller
    req, reply,
    \* the workspace on the machine
    wroot,          \* its directory exists
    phase,          \* state.json's phase, "none" without the file
    act,            \* state['active']
    started,        \* ... is started
    named,          \* ... has its call_id
    completed,      \* state['completed_executions'], as the retired record keeps them
    mounts,         \* what is mounted
    owner, retired, \* the .owner- and .retired- records
    tail,           \* a delete past its lock: still to retire, then to remove
    \* the recovery
    rec,            \* where it is
    at,             \* the row it finalizes or disposes of
    todo,           \* the rows it has still to reconcile
    terminal,       \* the .recovery- record's phase
    record,         \* ... and its executions
    confirmed       \* a recovery has answered 'confirmed'

hostVars == <<host, run, seen, rows, dispatched, hostTorn>>
wireVars == <<req, reply>>
ctlVars == <<wroot, phase, act, started, named, completed, mounts, owner, retired, tail>>
recVars == <<rec, at, todo, terminal, record, confirmed>>
vars == <<execVars, hostVars, wireVars, ctlVars, recVars>>

Waiting == {"creating", "reserving", "completing", "freezing", "deleting"}
Phases == {"none", "creating", "ready", "closed", "frozen", "quarantined", "deleted"}
Requests == [op : {"create", "reserve", "complete", "freeze", "delete"}, exec : Execs \cup {None}]
NoRequest == [op |-> "none", exec |-> None]
Torn == {"none", "torn", "whole"}

(* Everything has its type.                                                *)
TypeOK ==
    /\ ExecTypeOK
    /\ host \in {"new", "idle", "intent", "reserved", "dispatched", "booting",
                 "collecting", "disposing", "gone"} \cup Waiting
    /\ run \in Execs \cup {None}
    /\ seen \in Observations
    /\ rows \subseteq Execs
    /\ dispatched \subseteq Execs
    /\ hostTorn \subseteq Execs
    /\ req \in Requests \cup {NoRequest}
    /\ reply \in {"none", "ok", "refused"}
    /\ wroot \in BOOLEAN
    /\ phase \in Phases
    /\ act \in Execs \cup {None}
    /\ started \in BOOLEAN
    /\ named \in BOOLEAN
    /\ completed \subseteq Execs
    /\ mounts \subseteq {"storage", "snapshot"}
    /\ owner \in Torn
    /\ retired \in Torn
    /\ tail \in {"none", "retire", "remove"}
    /\ rec \in {"off", "rows", "finalizing", "disposing", "removing"}
    /\ at \in Execs \cup {None}
    /\ todo \subseteq Execs
    /\ terminal \in {"none", "cleaning", "cleaned"}
    /\ record \subseteq Execs
    /\ confirmed \in BOOLEAN

Init ==
    /\ ExecInit
    /\ host = "new" /\ run = None /\ seen = "none"
    /\ rows = {} /\ dispatched = {} /\ hostTorn = {}
    /\ req = NoRequest /\ reply = "none"
    /\ wroot = FALSE /\ phase = "none"
    /\ act = None /\ started = FALSE /\ named = FALSE /\ completed = {}
    /\ mounts = {} /\ owner = "none" /\ retired = "none" /\ tail = "none"
    /\ rec = "off" /\ at = None /\ todo = {} /\ terminal = "none" /\ record = {} /\ confirmed = FALSE

(* The registration lock: a call of an execution has it, or a recovery.    *)
RegistrationFree == ~Registering /\ rec = "off" /\ power = "on"

-----------------------------------------------------------------------------
(* The owner.                                                              *)
Call(op, e) == req' = [op |-> op, exec |-> e] /\ reply' = "none"
Answered == reply # "none" /\ reply' = "none" /\ UNCHANGED req
ownerRest == <<execVars, ctlVars, recVars>>

HostCreates ==
    /\ host = "new"
    /\ host' = "creating"
    /\ Call("create", None)
    /\ UNCHANGED <<ownerRest, run, seen, rows, dispatched, hostTorn>>

(* _prepare_command: the intent is in ownership.json before the reserve.   *)
HostIntends(e) ==
    /\ host = "idle" /\ run = None
    /\ e \notin rows
    /\ run' = e
    /\ rows' = rows \cup {e}
    /\ host' = "intent"
    /\ UNCHANGED <<ownerRest, wireVars, seen, dispatched, hostTorn>>

HostReserves ==
    /\ host = "intent"
    /\ host' = "reserving"
    /\ Call("reserve", run)
    /\ UNCHANGED <<ownerRest, run, seen, rows, dispatched, hostTorn>>

(* The dispatch is in ownership.json before the bootstrap.                 *)
HostDispatches ==
    /\ host = "reserved"
    /\ dispatched' = dispatched \cup {run}
    /\ host' = "dispatched"
    /\ UNCHANGED <<ownerRest, wireVars, run, seen, rows, hostTorn>>

(* Run.start, once: the bootstrap is on its way.                           *)
HostStarts ==
    /\ host = "dispatched"
    /\ boot' = [boot EXCEPT ![run] = "called"]
    /\ host' = "booting"
    /\ UNCHANGED <<dirVars, procVars, fin, disp, power, wireVars, ctlVars, recVars,
                   run, seen, rows, dispatched, hostTorn>>

(* The bootstrap has answered, or its answer is given up.                  *)
HostStarted ==
    /\ host = "booting"
    /\ host' = "idle"
    /\ UNCHANGED <<ownerRest, wireVars, run, seen, rows, dispatched, hostTorn>>

(* Run._collect: the observation, or its absence past the wait, and then   *)
(* finalize, whatever was seen.                                            *)
HostCollects ==
    /\ host = "idle" /\ run # None
    /\ fin[run] \notin {"called"} \cup FinSteps
    /\ seen' = observation[run]
    /\ fin' = [fin EXCEPT ![run] = "called"]
    /\ host' = "collecting"
    /\ UNCHANGED <<dirVars, procVars, boot, disp, power, wireVars, ctlVars, recVars,
                   run, rows, dispatched, hostTorn>>

SucceedsAsSeen(e) == seen = "success"

(* What the owner publishes: a success only from the supervisor's own      *)
(* observation and a confirmed cleanup.                                    *)
Succeeds(e) == seen = "success" /\ fin[e] = "ok" /\ proof[e] = "full"

(* The verdict is out, and complete is called in any case; a proven escape *)
(* stops the machine.                                                      *)
HostCollected ==
    /\ host = "collecting"
    /\ power' = IF fin[run] = "escaped" /\ power = "on" THEN "stopping" ELSE power
    /\ seen' = "none"
    /\ host' = "completing"
    /\ Call("complete", run)
    /\ UNCHANGED <<dirVars, procVars, callVars, ctlVars, recVars, run, rows, dispatched, hostTorn>>

HostFreezes ==
    /\ host = "idle"
    /\ host' = "freezing"
    /\ Call("freeze", None)
    /\ UNCHANGED <<ownerRest, run, seen, rows, dispatched, hostTorn>>

HostDeletes ==
    /\ host = "idle"
    /\ host' = "deleting"
    /\ Call("delete", None)
    /\ UNCHANGED <<ownerRest, run, seen, rows, dispatched, hostTorn>>

(* An answer of the controller.  A reserve that is refused leaves no active *)
(* run; a complete that is refused leaves it.                              *)
HostAnswered ==
    /\ host \in Waiting
    /\ Answered
    /\ \/ /\ reply = "ok" /\ host = "reserving"
          /\ host' = "reserved" /\ UNCHANGED <<run, disp>>
       \/ /\ reply = "ok" /\ host = "completing"
          /\ disp' = [disp EXCEPT ![run] = "called"]
          /\ host' = "disposing" /\ UNCHANGED run
       \/ /\ reply = "ok" /\ host = "deleting"
          /\ host' = "gone" /\ UNCHANGED <<run, disp>>
       \/ /\ \/ reply = "refused"
             \/ host \in {"creating", "freezing"}
          /\ run' = IF host = "reserving" THEN None ELSE run
          /\ host' = "idle" /\ UNCHANGED disp
    /\ UNCHANGED <<dirVars, procVars, boot, fin, power, ctlVars, recVars,
                   seen, rows, dispatched, hostTorn>>

(* The dispose has answered; without an answer the run stays active.       *)
HostDisposed ==
    /\ host = "disposing"
    /\ \/ disp[run] = "ok" /\ run' = None
       \/ UNCHANGED run
    /\ host' = "idle"
    /\ UNCHANGED <<ownerRest, wireVars, seen, rows, dispatched, hostTorn>>

(* The transport fails: the call or its answer is lost, and the owner knows *)
(* nothing of what the machine did.                                        *)
HostLosesReply ==
    /\ host \in Waiting
    /\ req' = NoRequest
    /\ reply' = "none"
    /\ run' = IF host = "reserving" THEN None ELSE run
    /\ host' = "idle"
    /\ UNCHANGED <<ownerRest, seen, rows, dispatched, hostTorn>>

(* The owner dies; what it has sent may still arrive.  It writes a run's    *)
(* manifest in place, once it is reserved and once its bootstrap answered.  *)
Rewrites == host = "reserved" \/ (host = "booting" /\ boot[run] = "over")
HostDies ==
    /\ host # "gone"
    /\ hostTorn' \in {hostTorn} \cup (IF Rewrites THEN {hostTorn \cup {run}} ELSE {})
    /\ host' = "gone"
    /\ run' = None
    /\ seen' = "none"
    /\ reply' = "none"
    /\ UNCHANGED <<ownerRest, req, rows, dispatched>>

HostSteps ==
    \/ HostCreates \/ (\E e \in Execs : HostIntends(e)) \/ HostReserves \/ HostDispatches
    \/ HostStarts \/ HostStarted \/ HostCollects \/ HostCollected \/ HostFreezes
    \/ HostDeletes \/ HostAnswered \/ HostDisposed \/ HostLosesReply \/ HostDies

-----------------------------------------------------------------------------
(* The controller: handle takes the call, and answers an owner that waits. *)
Serve(op, answer) ==
    /\ power = "on"
    /\ req.op = op
    /\ req' = NoRequest
    /\ reply' = IF host \in Waiting THEN answer ELSE "none"
Cut(op) == \E answer \in {"none", "refused"} : Serve(op, answer)
ctlRest == <<execVars, hostVars, recVars>>

(* What every operation but create finds first: the workspace's lock, no   *)
(* recovery, a state.                                                      *)
Open == wroot /\ terminal = "none" /\ phase # "none"
NoActive == act = None /\ phase # "quarantined"

(* The alarm goes off once the call is claimed and before it changed what   *)
(* the state says, or before that is written: quarantined all the same.     *)
HandleAlarm ==
    /\ Open
    /\ \E op \in {"reserve", "complete", "freeze", "delete"} : Cut(op)
    /\ phase' = "quarantined"
    /\ UNCHANGED <<ctlRest, wroot, act, started, named, completed, mounts, owner, retired, tail>>

Creatable == terminal = "none" /\ retired = "none" /\ owner = "none"

(* create: the owner record, the directory, the state, the mount, ready.   *)
HandleCreate ==
    /\ RegistrationFree
    /\ Serve("create", IF Creatable THEN "ok" ELSE "refused")
    /\ IF Creatable
       THEN /\ owner' = "whole"
            /\ wroot' = TRUE
            /\ phase' = "ready"
            /\ mounts' = {"storage"}
       ELSE UNCHANGED <<owner, wroot, phase, mounts>>
    /\ UNCHANGED <<ctlRest, act, started, named, completed, retired, tail>>

(* ... cut anywhere in that order; an exception leaves it quarantined.     *)
HandleCreateCut ==
    /\ RegistrationFree
    /\ Creatable
    /\ Cut("create")
    /\ owner' \in {"torn", "whole"}
    /\ wroot' \in {FALSE, owner' = "whole"}
    /\ phase' \in IF wroot' THEN {"none", "creating", "quarantined"} ELSE {"none"}
    /\ mounts' \in IF phase' = "none" THEN {{}} ELSE {{}, {"storage"}}
    /\ UNCHANGED <<ctlRest, act, started, named, completed, retired, tail>>

Reservable(e) ==
    Open /\ NoActive /\ phase = IF e \in Readonly THEN "frozen" ELSE "ready"

HandleReserve ==
    /\ Serve("reserve", IF Reservable(req.exec) THEN "ok" ELSE "refused")
    /\ IF Reservable(req.exec)
       THEN act' = req.exec /\ started' = FALSE /\ named' = TRUE
       ELSE UNCHANGED <<act, started, named>>
    /\ UNCHANGED <<ctlRest, wroot, phase, completed, mounts, owner, retired, tail>>

(* The alarm goes off inside the operation: the finally clause writes what *)
(* there is, with the call's id or still without, and then quarantines it. *)
HandleReserveCut ==
    /\ Reservable(req.exec)
    /\ Cut("reserve")
    /\ act' = req.exec
    /\ started' = FALSE
    /\ named' \in BOOLEAN
    /\ phase' = "quarantined"
    /\ UNCHANGED <<ctlRest, wroot, completed, mounts, owner, retired, tail>>

Completable(e) == Open /\ act = e /\ e \in root /\ proof[e] # "none"

(* complete: a proof that lacks a part quarantines the workspace.          *)
HandleComplete ==
    LET e == req.exec
        done == Completable(e) /\ proof[e] = "full"
    IN /\ Serve("complete", IF done THEN "ok" ELSE "refused")
       /\ IF done
          THEN /\ completed' = completed \cup {e}
               /\ act' = None /\ started' = FALSE /\ named' = FALSE
               /\ UNCHANGED phase
          ELSE /\ phase' = IF Completable(e) THEN "quarantined" ELSE phase
               /\ UNCHANGED <<completed, act, started, named>>
       /\ UNCHANGED <<ctlRest, wroot, mounts, owner, retired, tail>>

(* The alarm inside: the finally clause writes what it has done so far, the *)
(* execution in completed_executions and then the active one gone.          *)
HandleCompleteCut ==
    LET e == req.exec
    IN /\ Completable(e) /\ proof[e] = "full"
       /\ Cut("complete")
       /\ completed' = completed \cup {e}
       /\ \/ act' = None /\ started' = FALSE /\ named' = FALSE
          \/ UNCHANGED <<act, started, named>>
       /\ phase' = "quarantined"
       /\ UNCHANGED <<ctlRest, wroot, mounts, owner, retired, tail>>

Freezable == Open /\ NoActive /\ phase = "ready"

HandleFreeze ==
    /\ Freezable => "storage" \in mounts
    /\ Serve("freeze", IF Freezable THEN "ok" ELSE "refused")
    /\ IF Freezable
       THEN phase' = "frozen" /\ mounts' = mounts \cup {"snapshot"}
       ELSE UNCHANGED <<phase, mounts>>
    /\ UNCHANGED <<ctlRest, wroot, act, started, named, completed, owner, retired, tail>>

(* closed is written before the copy, which may fail for what it copies, for *)
(* a storage that is not mounted any more, or at the deadline.              *)
HandleFreezeCut ==
    /\ Freezable
    /\ Cut("freeze")
    /\ phase' \in {"closed", "quarantined"}
    /\ mounts' \in {mounts} \cup (IF "storage" \in mounts THEN {mounts \cup {"snapshot"}} ELSE {})
    /\ UNCHANGED <<ctlRest, wroot, act, started, named, completed, owner, retired, tail>>

(* The snapshot is unmounted first.                                        *)
UnmountCut == {mounts, mounts \ {"snapshot"}, {}}

DeletableActive == Open /\ tail = "none"
Deletable == Open /\ act = None /\ tail = "none"

(* delete inside the lock: the mounts, then the phase.                     *)
HandleDelete ==
    /\ req.op = "delete" /\ power = "on"
    /\ \/ /\ Deletable
          /\ mounts' = {}
          /\ phase' = "deleted"
          /\ tail' = "retire"
          /\ req' = NoRequest
          /\ UNCHANGED reply
       \/ /\ Deletable
          /\ Cut("delete")
          /\ mounts' \in UnmountCut
          /\ phase' \in {phase, "quarantined"}
          /\ UNCHANGED tail
       \/ /\ ~Deletable
          /\ Serve("delete", "refused")
          /\ UNCHANGED <<mounts, phase, tail>>
    /\ UNCHANGED <<ctlRest, wroot, act, started, named, completed, owner, retired>>

(* ... and past it: the tombstone, then the directory, while nothing keeps *)
(* a recovery out.                                                         *)
TailRetires ==
    /\ tail = "retire"
    /\ retired = "none"
    /\ retired' = "whole"
    /\ tail' = "remove"
    /\ UNCHANGED <<ctlRest, wireVars, wroot, phase, act, started, named, completed, mounts, owner>>

TailRemoves ==
    /\ tail = "remove"
    /\ wroot' = FALSE
    /\ phase' = "none"
    /\ tail' = "none"
    /\ reply' = IF host = "deleting" /\ req = NoRequest THEN "ok" ELSE reply
    /\ UNCHANGED <<ctlRest, req, act, started, named, completed, mounts, owner, retired>>

TailCut ==
    /\ tail # "none"
    /\ tail' = "none"
    /\ \/ tail = "retire" /\ retired = "none" /\ retired' = "torn" /\ UNCHANGED phase
       \/ tail = "remove" /\ phase' = "none" /\ UNCHANGED retired
       \/ UNCHANGED <<retired, phase>>
    /\ UNCHANGED <<ctlRest, wireVars, wroot, act, started, named, completed, mounts, owner>>

ControllerSteps ==
    \/ HandleAlarm
    \/ HandleCreate \/ HandleCreateCut \/ HandleReserve \/ HandleReserveCut
    \/ HandleComplete \/ HandleCompleteCut \/ HandleFreeze \/ HandleFreezeCut \/ HandleDelete
    \/ TailRetires \/ TailRemoves \/ TailCut

-----------------------------------------------------------------------------
(* The bootstrap of a workspace's execution.                               *)
BootTo(e, step) == boot' = [boot EXCEPT ![e] = step]
bootRest == <<registration, reaped, proof, box, reaper, tries, late, finished, fin, disp, power,
              hostVars, wireVars, recVars, wroot, phase, act, named, completed, mounts, owner,
              retired, tail>>

BootBeginsUnbarred(e) ==
    /\ boot[e] = "called"
    /\ RegistrationFree
    /\ \/ /\ \A o \in Execs : timer[o] = "none" /\ box[o] = "none"
          /\ e \notin root
          /\ root' = root \cup {e}
          /\ BootTo(e, "rooted")
       \/ BootTo(e, "over") /\ UNCHANGED root
    /\ UNCHANGED <<bootRest, manifest, observation, sup, verdict, timer, started>>

(* The barrier and the other candidates come before any storage; the       *)
(* machine may also be busy with a candidate of somebody else.             *)
BootBegins(e) ==
    /\ boot[e] = "called"
    /\ RegistrationFree
    /\ \/ /\ terminal = "none"
          /\ \A o \in Execs : timer[o] = "none" /\ box[o] = "none"
          /\ e \notin root
          /\ root' = root \cup {e}
          /\ BootTo(e, "rooted")
       \/ BootTo(e, "over") /\ UNCHANGED root
    /\ UNCHANGED <<bootRest, manifest, observation, sup, verdict, timer, started>>

BootWrites(e) ==
    /\ boot[e] = "rooted"
    /\ manifest' = [manifest EXCEPT ![e] = "whole"]
    /\ BootTo(e, "written")
    /\ UNCHANGED <<bootRest, root, observation, sup, verdict, timer, started>>

(* authorize: the reservation is this execution's and is used once, and its *)
(* mount is there (mount_bounds); it may have passed its deadline, or the   *)
(* snapshot have changed.                                                  *)
BootAuthorizes(e) ==
    /\ boot[e] = "written"
    /\ \/ /\ Open /\ act = e /\ ~started
          /\ (IF e \in Readonly THEN "snapshot" ELSE "storage") \in mounts
          /\ started' = TRUE
          /\ BootTo(e, "authorized")
          /\ UNCHANGED observation
       \/ /\ observation' = [observation EXCEPT ![e] = "failed"]
          /\ BootTo(e, "over")
          /\ UNCHANGED started
    /\ UNCHANGED <<bootRest, root, manifest, sup, verdict, timer>>

(* The deadline timer is there before the supervisor.                      *)
BootArms(e) ==
    /\ boot[e] = "authorized"
    /\ \/ timer' = [timer EXCEPT ![e] = "armed"] /\ BootTo(e, "timed")
       \/ UNCHANGED timer /\ BootTo(e, "over")
    /\ UNCHANGED <<bootRest, root, manifest, observation, sup, verdict, started>>

BootDispatches(e) ==
    /\ boot[e] = "timed"
    /\ \/ /\ e \notin late
          /\ sup' = [sup EXCEPT ![e] = "create"]
          /\ verdict' = [verdict EXCEPT ![e] = "failed"]
       \/ UNCHANGED <<sup, verdict>>
    /\ BootTo(e, "over")
    /\ UNCHANGED <<bootRest, root, manifest, observation, timer, started>>

(* The process is killed: the manifest is written in place, twice.         *)
BootKilled(e) ==
    /\ boot[e] \in BootSteps
    /\ \/ boot[e] \in {"rooted", "authorized"} /\ manifest' = [manifest EXCEPT ![e] = "torn"]
       \/ UNCHANGED manifest
    /\ BootTo(e, "over")
    /\ UNCHANGED <<bootRest, root, observation, sup, verdict, timer, started>>

(* The owner's finalize and dispose take the lock, or are killed.  Without a *)
(* directory and a process, finalize has nothing to end and nowhere to      *)
(* write its proof.                                                        *)
callRest == <<hostVars, wireVars, ctlVars, recVars>>

FinalizeBegins(e) ==
    /\ fin[e] = "called"
    /\ RegistrationFree
    /\ FinTo(e, IF e \in root \/ sup[e] # "off" \/ box[e] # "none" THEN "stop" ELSE "fail")
    /\ UNCHANGED <<dirVars, procVars, boot, disp, power, callRest>>

DisposeBegins(e) ==
    /\ disp[e] = "called"
    /\ RegistrationFree
    /\ DispTo(e, IF ~UnitsAbsent(e) \/ box[e] # "none" THEN "fail"
                 ELSE IF e \notin root THEN "ok"
                 ELSE IF MayDispose(e) THEN "removing" ELSE "fail")
    /\ UNCHANGED <<dirVars, procVars, boot, fin, power, callRest>>

CallKilled(e) ==
    /\ rec = "off"
    /\ \/ fin[e] \in FinSteps /\ FinTo(e, "fail") /\ UNCHANGED disp
       \/ disp[e] = "removing" /\ DispTo(e, "fail") /\ UNCHANGED fin
    /\ UNCHANGED <<dirVars, procVars, boot, power, callRest>>

CallSteps ==
    \E e \in Execs :
        \/ BootBegins(e) \/ BootWrites(e) \/ BootAuthorizes(e) \/ BootArms(e)
        \/ BootDispatches(e) \/ BootKilled(e)
        \/ FinalizeBegins(e) \/ DisposeBegins(e) \/ CallKilled(e)

-----------------------------------------------------------------------------
(* The recovery.                                                           *)
HasState == wroot /\ phase # "none"
Active == IF HasState THEN act ELSE None
NotStarted == IF started THEN {} ELSE {Active} \cap Execs

(* The executions some record of the machine calls completed.              *)
Known == IF HasState \/ retired = "whole" THEN completed ELSE {}

(* On the host, before the machine is asked: the runs' own manifests there. *)
SupportingReadable == hostTorn = {}

(* What is validated before any effect: the records of the host and of the *)
(* machine can be read, the active execution and the completed ones are    *)
(* rows of the receipt, and each run directory that is left names its row. *)
RecordsReadable ==
    /\ SupportingReadable
    /\ owner # "torn" /\ retired # "torn"
    /\ wroot => phase # "none" \/ owner = "whole" \/ terminal = "cleaned"
ActiveRecorded == Active # None => Active \in rows /\ named
DirectoryAccepted(e) ==
    e \in root /\ (manifest[e] # "none" \/ e \notin record \cup NotStarted) => manifest[e] = "whole"
Accepted ==
    /\ RecordsReadable
    /\ ActiveRecorded
    /\ Known \subseteq rows
    /\ \A e \in rows : DirectoryAccepted(e)

recoverRest == <<hostVars, wireVars, completed, owner, retired, tail>>
RecTo(step) == rec' = step
NotDone == RecTo("off") /\ todo' = {} /\ at' = None

(* recover: with the owner's lock on the host, then the machine's           *)
(* registration lock and the workspace's: validate, then close the          *)
(* workspace for good.                                                     *)
RecoverBegins ==
    /\ host = "gone"
    /\ RegistrationFree
    /\ \/ /\ Accepted
          /\ terminal' = IF terminal = "none" THEN "cleaning" ELSE terminal
          /\ phase' = IF wroot /\ (phase # "none" \/ owner = "whole") THEN "quarantined" ELSE phase
          /\ act' = IF HasState THEN act ELSE None
          /\ todo' = rows
          /\ RecTo("rows")
          /\ UNCHANGED at
       \/ /\ ~Accepted
          /\ NotDone
          /\ UNCHANGED <<terminal, phase, act>>
    /\ UNCHANGED <<execVars, recoverRest, wroot, started, named, mounts, record, confirmed>>

(* A reservation that was never started, and has no manifest: the terminal *)
(* record and the absence of a runtime are its proof.                      *)
RecoverUnstarted(e) ==
    /\ rec = "rows" /\ e \in todo
    /\ e \in NotStarted \ record
    /\ manifest[e] = "none"
    /\ UnitsAbsent(e) /\ box[e] = "none"
    /\ record' = record \cup {e}
    /\ UNCHANGED <<execVars, recoverRest, wroot, phase, act, started, named, mounts,
                   rec, at, todo, terminal, confirmed>>

(* A directory without a manifest goes once its proof is in the record.    *)
RecoverBare(e) ==
    /\ rec = "rows" /\ e \in todo
    /\ e \in root /\ manifest[e] = "none" /\ e \in record
    /\ UnitsAbsent(e) /\ box[e] = "none"
    /\ root' = root \ {e}
    /\ registration' = registration \ {e}
    /\ observation' = [observation EXCEPT ![e] = "none"]
    /\ reaped' = [reaped EXCEPT ![e] = "none"]
    /\ proof' = [proof EXCEPT ![e] = "none"]
    /\ UNCHANGED <<manifest, procVars, callVars, power, recoverRest, wroot, phase, act, started,
                   named, mounts, recVars>>

RecoverFinalizes(e) ==
    /\ rec = "rows" /\ e \in todo
    /\ e \in root /\ manifest[e] # "none"
    /\ FinTo(e, "stop")
    /\ RecTo("finalizing")
    /\ at' = e
    /\ UNCHANGED <<dirVars, procVars, boot, disp, power, recoverRest, wroot, phase, act, started,
                   named, mounts, todo, terminal, record, confirmed>>

ClearActive(e) == act' = IF Active = e THEN None ELSE act

RecoverFinalizedUnrecorded ==
    /\ rec = "finalizing"
    /\ \/ /\ fin[at] = "ok" /\ proof[at] = "full"
          /\ UNCHANGED record
          /\ ClearActive(at)
          /\ MayDispose(at)
          /\ DispTo(at, "removing")
          /\ RecTo("disposing")
          /\ UNCHANGED <<at, todo>>
       \/ /\ fin[at] \in {"fail", "escaped"} \/ (fin[at] = "ok" /\ proof[at] # "full")
          /\ NotDone
          /\ UNCHANGED <<record, act, disp>>
    /\ UNCHANGED <<dirVars, procVars, boot, fin, power, recoverRest, wroot, phase, started,
                   named, mounts, terminal, confirmed>>

(* The proof is in the terminal record before the directory goes.          *)
RecoverFinalized ==
    /\ rec = "finalizing"
    /\ \/ /\ fin[at] = "ok" /\ proof[at] = "full"
          /\ record' = record \cup {at}
          /\ ClearActive(at)
          /\ MayDispose(at)
          /\ DispTo(at, "removing")
          /\ RecTo("disposing")
          /\ UNCHANGED <<at, todo>>
       \/ /\ fin[at] \in {"fail", "escaped"} \/ (fin[at] = "ok" /\ proof[at] # "full")
          /\ NotDone
          /\ UNCHANGED <<record, act, disp>>
    /\ UNCHANGED <<dirVars, procVars, boot, fin, power, recoverRest, wroot, phase, started,
                   named, mounts, terminal, confirmed>>

RecoverDisposed ==
    /\ rec = "disposing"
    /\ disp[at] = "ok"
    /\ todo' = todo \ {at}
    /\ RecTo("rows")
    /\ at' = None
    /\ UNCHANGED <<execVars, recoverRest, wroot, phase, act, started, named, mounts,
                   terminal, record, confirmed>>

(* Without a directory: nothing of it runs, and what was dispatched or     *)
(* started has a proof.                                                    *)
Proven(e) == e \in record \cup Known
NeedsNoProof(e) == e \notin dispatched /\ ~(Active = e /\ started)

RecoverAbsent(e) ==
    /\ rec = "rows" /\ e \in todo
    /\ e \notin root
    /\ ~(e \in NotStarted \ record)
    /\ LET accounted == /\ UnitsAbsent(e) /\ box[e] = "none"
                        /\ Proven(e) \/ NeedsNoProof(e)
       IN \/ /\ accounted
             /\ record' = IF Proven(e) THEN record \cup {e} ELSE record
             /\ ClearActive(e)
             /\ todo' = todo \ {e}
             /\ UNCHANGED <<rec, at>>
          \/ /\ ~accounted
             /\ NotDone
             /\ UNCHANGED <<record, act>>
    /\ UNCHANGED <<execVars, recoverRest, wroot, phase, started, named, mounts, terminal, confirmed>>

(* The mounts, the state, the terminal record, and past the workspace's    *)
(* lock its directory.                                                     *)
RecoverUnmounts ==
    /\ rec = "rows" /\ todo = {}
    /\ mounts' = {}
    /\ phase' = IF HasState THEN "deleted" ELSE phase
    /\ terminal' = "cleaned"
    /\ RecTo("removing")
    /\ UNCHANGED <<execVars, recoverRest, wroot, act, started, named, at, todo, record, confirmed>>

RecoverRemoves ==
    /\ rec = "removing"
    /\ wroot' = FALSE
    /\ phase' = "none"
    /\ confirmed' = TRUE
    /\ NotDone
    /\ UNCHANGED <<execVars, recoverRest, act, started, named, mounts, terminal, record>>

(* The budget's alarm, the operator's death or a delete's tail under its   *)
(* feet ends an attempt at any step; another one may follow.               *)
RecoverCut ==
    /\ rec # "off"
    /\ NotDone
    /\ fin' = IF rec = "finalizing" /\ fin[at] \in FinSteps
              THEN [fin EXCEPT ![at] = "fail"] ELSE fin
    /\ disp' = IF rec = "disposing" /\ disp[at] = "removing"
               THEN [disp EXCEPT ![at] = "fail"] ELSE disp
    /\ \/ rec = "removing" /\ phase' = "none"
       \/ UNCHANGED phase
    /\ \/ rec = "rows" /\ todo = {} /\ mounts' \in UnmountCut
       \/ UNCHANGED mounts
    /\ UNCHANGED <<dirVars, procVars, boot, power, recoverRest, wroot, act, started, named,
                   terminal, record, confirmed>>

RecoverySteps ==
    \/ RecoverBegins
    \/ \E e \in Execs : \/ RecoverUnstarted(e) \/ RecoverBare(e) \/ RecoverFinalizes(e)
                        \/ RecoverAbsent(e)
    \/ RecoverFinalized \/ RecoverDisposed \/ RecoverUnmounts \/ RecoverRemoves \/ RecoverCut

-----------------------------------------------------------------------------
(* A poweroff stops what runs: the calls are killed, the services stopped,  *)
(* the transient units are gone, and a candidate has ended.  Nothing is     *)
(* served on a machine that is off.                                        *)
MachineStops ==
    /\ power = "stopping"
    /\ ~Registering /\ rec = "off" /\ tail = "none"
    /\ \A e \in Execs : sup[e] = "off"
    /\ power' = "off"
    /\ box' = [e \in Execs |-> IF box[e] = "running" THEN "exited" ELSE box[e]]
    /\ timer' = [e \in Execs |-> "none"]
    /\ reaper' = [e \in Execs |-> "off"]
    /\ tries' = [e \in Execs |-> 0]
    /\ UNCHANGED <<dirVars, sup, verdict, late, finished, callVars, callRest>>

Next ==
    \/ HostSteps
    \/ ControllerSteps
    \/ CallSteps
    \/ RecoverySteps
    \/ (ExecProcesses \/ ExecCalls) /\ UNCHANGED callRest
    \/ MachineStops

Spec == Init /\ [][Next]_vars

-----------------------------------------------------------------------------
(* What the executor promises.                                             *)

(* remote.py supervise, reap: a candidate never runs with nobody left to end *)
(* it: its timer will fire, its reaper is at work, or the reaper has said   *)
(* on disk that it could not confirm the end.                              *)
StartedIsWatched ==
    \A e \in Execs : box[e] = "running" =>
        \/ timer[e] = "armed"
        \/ reaper[e] \in {"kill", "remove"}
        \/ reaped[e] = "unconfirmed"

(* remote.py dispose, machine.py recover: no directory is taken from a unit *)
(* that still reads its manifest or writes its record there.               *)
UnitsHaveFiles ==
    \A e \in Execs : sup[e] # "off" \/ timer[e] # "none" \/ reaper[e] # "off" => e \in root

(* remote.py finalize: once a run has its proof, in its directory, in the   *)
(* workspace's state or in a terminal record, it has no container and no    *)
(* writer, and never gets one again.                                       *)
ProofIsFinal ==
    \A e \in Execs :
        proof[e] # "none" \/ e \in record \cup completed => box[e] = "none" /\ sup[e] = "off"

(* workspace_controller.py freeze, delete: a candidate that verifies has the *)
(* snapshot under it as long as it runs, and no other candidate runs once   *)
(* there is a snapshot; nobody takes the storage away from either.          *)
RunsOnItsMounts ==
    \A e \in Execs : box[e] = "running" =>
        mounts = IF e \in Readonly THEN {"storage", "snapshot"} ELSE {"storage"}

(* adapter.py _collect, workspace.py execution_result: a success is         *)
(* published only for a candidate that ended by itself with exit 0, and     *)
(* with nothing of it left that could still change what was seen.          *)
VerdictIsEarned ==
    host = "collecting" /\ fin[run] \notin {"called"} \cup FinSteps /\ Succeeds(run) =>
        run \in finished /\ box[run] = "none" /\ UnitsAbsent(run)

(* machine.py recover: once a recovery has confirmed the cleanup nothing of *)
(* the workspace is left, and nothing comes back, whatever calls its owner  *)
(* left on the way.                                                        *)
ConfirmedIsClean ==
    confirmed =>
        /\ ~wroot /\ mounts = {}
        /\ root = {}
        /\ \A e \in Execs : UnitsAbsent(e) /\ box[e] = "none"

(* Nothing is on the way or under way but what runs by itself.             *)
Quiet ==
    /\ host = "gone" /\ rec = "off" /\ req = NoRequest /\ tail = "none"
    /\ ~Registering
    /\ \A e \in Execs : "called" \notin {boot[e], fin[e], disp[e]}

(* A recovery that is called finds every row it can read either not started *)
(* or with its proof.                                                      *)
Reconcilable ==
    /\ Accepted
    /\ \A e \in rows \ root : e \in NotStarted \/ Proven(e) \/ NeedsNoProof(e)

(* machine.py recover: whatever the owner, its calls and earlier recoveries *)
(* were cut at, what keeps a recovery out is only a record that a kill     *)
(* tore, a run's on the host among them, a reservation the alarm cut before *)
(* its call's id was in it, or a completed run whose disposal was cut.     *)
OnlyTheseBlock ==
    Quiet /\ ~Reconcilable =>
        \/ hostTorn # {}
        \/ "torn" \in {owner, retired} \cup {manifest[e] : e \in Execs}
        \/ act # None /\ ~named
        \/ \E e \in completed : e \in root /\ manifest[e] = "none"

(* mo-workspace-recovery-v1.md, Contract 4: a completed reservation with    *)
(* leftover execution storage is recoverable.                              *)
CompletedIsRecoverable ==
    Quiet => \A e \in Known : DirectoryAccepted(e)
=============================================================================
