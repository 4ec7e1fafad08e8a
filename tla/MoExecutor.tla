----------------------------- MODULE MoExecutor -----------------------------
(***************************************************************************)
(* The machine side of one execution in the harness's executor             *)
(* (toolchain/harness/executor/remote.py and adapter.py): the bootstrap    *)
(* that registers a candidate, the supervisor that creates, starts and     *)
(* watches its container, the deadline timer with its reaper, and the two  *)
(* calls that end it, finalize and dispose.                                *)
(*                                                                         *)
(* Bootstrap, finalize and dispose hold the machine's registration lock;   *)
(* the supervisor, the reaper and the container take no lock at all.  Any  *)
(* process may be killed between two of its effects, and any request to    *)
(* Docker or systemd may fail.  Docker settles a request before the        *)
(* process that sent it is seen to be gone.                                *)
(***************************************************************************)
EXTENDS Naturals, FiniteSets

CONSTANTS
    Execs,          \* the executions, by their run id
    ReapAttempts    \* REAP_ATTEMPTS

ASSUME ExecsAssumption == IsFiniteSet(Execs)
ASSUME ReapAssumption == ReapAttempts \in Nat \ {0}

VARIABLES
    \* the run directory and its files
    root,           \* the executions whose directory exists
    manifest,       \* manifest.json: "none", "torn" by a kill while it was written, "whole"
    registration,   \* the executions with a registration.json
    observation,    \* what observation.json says of the run
    reaped,         \* what reaped.json says of the cleanup
    proof,          \* cleanup-confirmed.json: "host" without services_absent, "weak" without a cgroup
    \* the processes of an execution
    box,            \* its container
    sup,            \* where its supervisor is
    verdict,        \* r['status'] in the supervisor
    timer,          \* the deadline timer's unit
    reaper,         \* where the deadline service is
    tries,          \* the attempts the reaper has made
    late,           \* the executions whose deadline timer has fired
    finished,       \* history: the candidates that ended by themselves, with exit 0
    \* the calls under the registration lock
    boot, fin, disp, \* where each is, or how it ended
    power           \* the machine: "on", "stopping", "off"

dirVars == <<root, manifest, registration, observation, reaped, proof>>
procVars == <<box, sup, verdict, timer, reaper, tries, late, finished>>
callVars == <<boot, fin, disp>>
execVars == <<dirVars, procVars, callVars, power>>

(* A success is a candidate that ended by itself with exit 0, observed as     *)
(* such; refusals, limits and failures are one.                            *)
Observations == {"none", "success", "failed"}
BootSteps == {"rooted", "written", "authorized", "timed"}
FinSteps == {"stop", "remove", "prove", "disarm", "settle"}

ExecTypeOK ==
    /\ root \subseteq Execs
    /\ manifest \in [Execs -> {"none", "torn", "whole"}]
    /\ registration \subseteq Execs
    /\ observation \in [Execs -> Observations]
    /\ reaped \in [Execs -> {"none", "confirmed", "unconfirmed"}]
    /\ proof \in [Execs -> {"none", "host", "weak", "full"}]
    /\ box \in [Execs -> {"none", "created", "running", "exited"}]
    /\ sup \in [Execs -> {"off", "create", "register", "check", "start", "watch",
                          "cleanup", "observe", "stopping"}]
    /\ verdict \in [Execs -> Observations]
    /\ timer \in [Execs -> {"none", "armed", "loaded"}]
    /\ reaper \in [Execs -> {"off", "kill", "remove", "disarm"}]
    /\ tries \in [Execs -> 0..(ReapAttempts - 1)]
    /\ late \subseteq Execs
    /\ finished \subseteq Execs
    /\ boot \in [Execs -> {"idle", "called", "over"} \cup BootSteps]
    /\ fin \in [Execs -> {"idle", "called", "ok", "fail", "escaped"} \cup FinSteps]
    /\ disp \in [Execs -> {"idle", "called", "removing", "ok", "fail"}]
    /\ power \in {"on", "stopping", "off"}

ExecInit ==
    /\ root = {}
    /\ manifest = [e \in Execs |-> "none"]
    /\ registration = {}
    /\ observation = [e \in Execs |-> "none"]
    /\ reaped = [e \in Execs |-> "none"]
    /\ proof = [e \in Execs |-> "none"]
    /\ box = [e \in Execs |-> "none"]
    /\ sup = [e \in Execs |-> "off"]
    /\ verdict = [e \in Execs |-> "none"]
    /\ timer = [e \in Execs |-> "none"]
    /\ reaper = [e \in Execs |-> "off"]
    /\ tries = [e \in Execs |-> 0]
    /\ late = {}
    /\ finished = {}
    /\ boot = [e \in Execs |-> "idle"]
    /\ fin = [e \in Execs |-> "idle"]
    /\ disp = [e \in Execs |-> "idle"]
    /\ power = "on"

(* A call of an execution is inside the registration lock.                 *)
RegisteringLate ==
    \E e \in Execs : fin[e] \in FinSteps \/ disp[e] = "removing"
Registering ==
    \E e \in Execs : \/ boot[e] \in BootSteps
                     \/ fin[e] \in FinSteps
                     \/ disp[e] = "removing"

(* systemctl list-units name*: the supervisor's service, the timer, the     *)
(* deadline service.                                                       *)
UnitsAbsent(e) == sup[e] = "off" /\ timer[e] = "none" /\ reaper[e] = "off"

(* docker rm -f, then docker ps: the container goes, or the daemon fails   *)
(* before or after taking it.                                              *)
RemovalLeaves(e) == {"none", box[e]}

-----------------------------------------------------------------------------
(* The container.  A candidate ends by itself, well or badly.              *)
CandidateEnds(e) ==
    /\ box[e] = "running"
    /\ box' = [box EXCEPT ![e] = "exited"]
    /\ finished' \in {finished, finished \cup {e}}
    /\ UNCHANGED <<dirVars, sup, verdict, timer, reaper, tries, late, callVars, power>>

-----------------------------------------------------------------------------
(* The supervisor.                                                         *)
SupVars(e, next) == sup' = [sup EXCEPT ![e] = next]
SupSays(e, status) == verdict' = [verdict EXCEPT ![e] = status]
supRest == <<timer, reaper, tries, late, finished, callVars, power>>

(* docker create: a request that fails may still have made the container.  *)
SupervisorCreates(e) ==
    /\ sup[e] = "create"
    /\ \/ /\ box' = [box EXCEPT ![e] = "created"]
          /\ SupVars(e, "register")
       \/ /\ box' \in {box, [box EXCEPT ![e] = "created"]}
          /\ SupVars(e, "cleanup")
    /\ SupSays(e, "failed")
    /\ UNCHANGED <<dirVars, supRest>>

SupervisorRegisters(e) ==
    /\ sup[e] = "register"
    /\ e \in root
    /\ registration' = registration \cup {e}
    /\ SupVars(e, "check")
    /\ UNCHANGED <<root, manifest, observation, reaped, proof, box, verdict, supRest>>

SupervisorChecksPolicy(e) ==
    /\ sup[e] = "check"
    /\ \/ /\ box[e] # "none"
          /\ SupVars(e, "start")
       \/ SupVars(e, "cleanup")
    /\ UNCHANGED <<dirVars, box, verdict, supRest>>

(* The effective policy, then the deadline, before anything is started.    *)
SupervisorChecks(e) ==
    /\ sup[e] = "check"
    /\ \/ /\ box[e] # "none"
          /\ e \notin late
          /\ SupVars(e, "start")
       \/ SupVars(e, "cleanup")
    /\ UNCHANGED <<dirVars, box, verdict, supRest>>

(* docker start -a: on a container that is gone the attach client just ends. *)
SupervisorStarts(e) ==
    /\ sup[e] = "start"
    /\ box' = IF box[e] = "created" THEN [box EXCEPT ![e] = "running"] ELSE box
    /\ SupVars(e, "watch")
    /\ UNCHANGED <<dirVars, verdict, supRest>>

(* The attach loop ends with the candidate, or a limit ends it, with a kill *)
(* that may fail; a container that is gone cannot be inspected.            *)
SupervisorWatches(e) ==
    /\ sup[e] = "watch"
    /\ \/ /\ box[e] = "exited"
          /\ e \in finished
          /\ SupSays(e, "success")
          /\ UNCHANGED box
       \/ /\ box[e] = "running"
          /\ box' = [box EXCEPT ![e] = "exited"]
          /\ UNCHANGED verdict
       \/ UNCHANGED <<box, verdict>>
    /\ SupVars(e, "cleanup")
    /\ UNCHANGED <<dirVars, supRest>>

SupervisorCleans(e) ==
    /\ sup[e] = "cleanup"
    /\ \E left \in RemovalLeaves(e) :
          /\ box' = [box EXCEPT ![e] = left]
          /\ \/ left = "none" /\ UNCHANGED verdict
             \/ SupSays(e, "failed")
    /\ SupVars(e, "observe")
    /\ UNCHANGED <<dirVars, supRest>>

SupervisorObserves(e) ==
    /\ sup[e] = "observe"
    /\ e \in root
    /\ observation' = [observation EXCEPT ![e] = verdict[e]]
    /\ SupVars(e, "stopping")
    /\ SupSays(e, "none")
    /\ UNCHANGED <<root, manifest, registration, reaped, proof, box, supRest>>

(* What a request to Docker that was on its way may leave.                 *)
Settles(e) ==
    IF sup[e] = "create" THEN {box[e], "created"}
    ELSE IF sup[e] = "start" /\ box[e] = "created" THEN {"created", "running"}
    ELSE {box[e]}

(* RuntimeMaxSec, or a fault: the service's processes are killed.          *)
SupervisorKilled(e) ==
    /\ sup[e] \notin {"off", "stopping"}
    /\ \E b \in Settles(e) : box' = [box EXCEPT ![e] = b]
    /\ SupVars(e, "stopping")
    /\ SupSays(e, "none")
    /\ UNCHANGED <<dirVars, supRest>>

(* ExecStopPost=-docker rm -f                                              *)
SupervisorStopped(e) ==
    /\ sup[e] = "stopping"
    /\ \E left \in RemovalLeaves(e) : box' = [box EXCEPT ![e] = left]
    /\ SupVars(e, "off")
    /\ UNCHANGED <<dirVars, verdict, supRest>>

-----------------------------------------------------------------------------
(* The deadline timer and its reaper.                                      *)
reapRest == <<finished, callVars>>

(* m['deadline'] passes and the timer fires; a check of the deadline in      *)
(* between refuses, which it may do in any case.                           *)
TimerFires(e) ==
    /\ timer[e] = "armed"
    /\ late' = late \cup {e}
    /\ timer' = [timer EXCEPT ![e] = "loaded"]
    /\ reaper' = [reaper EXCEPT ![e] = "kill"]
    /\ UNCHANGED <<dirVars, box, sup, verdict, tries, reapRest, power>>

(* systemctl kill of the supervisor's main process; a failure is ignored.  *)
ReaperKills(e) ==
    /\ reaper[e] = "kill"
    /\ \/ /\ sup[e] \notin {"off", "stopping"}
          /\ \E b \in Settles(e) : box' = [box EXCEPT ![e] = b]
          /\ SupVars(e, "stopping")
          /\ SupSays(e, "none")
       \/ UNCHANGED <<box, sup, verdict>>
    /\ reaper' = [reaper EXCEPT ![e] = "remove"]
    /\ UNCHANGED <<dirVars, timer, tries, late, reapRest, power>>

MoreAttemptsByOne(e) == tries[e] + 1 <= ReapAttempts
MoreAttempts(e) == tries[e] + 1 < ReapAttempts

(* The container is removed and proved absent, and the record written; else *)
(* another attempt.  With the attempts or the seconds used up the record    *)
(* says unconfirmed, and a cgroup that is seen to hold processes still      *)
(* powers the machine off; one that cannot be read does not.               *)
ReaperRemoves(e) ==
    /\ reaper[e] = "remove"
    /\ e \in root
    /\ \E left \in RemovalLeaves(e) :
          /\ box' = [box EXCEPT ![e] = left]
          /\ \/ /\ left = "none"
                /\ reaped' = [reaped EXCEPT ![e] = "confirmed"]
                /\ reaper' = [reaper EXCEPT ![e] = "disarm"]
                /\ tries' = [tries EXCEPT ![e] = 0]
                /\ UNCHANGED <<timer, power>>
             \/ /\ MoreAttempts(e)
                /\ tries' = [tries EXCEPT ![e] = @ + 1]
                /\ reaper' = [reaper EXCEPT ![e] = "kill"]
                /\ UNCHANGED <<reaped, timer, power>>
             \/ /\ tries' = [tries EXCEPT ![e] = 0]
                /\ reaped' = [reaped EXCEPT ![e] = "unconfirmed"]
                /\ reaper' = [reaper EXCEPT ![e] = "off"]
                /\ timer' \in {timer, [timer EXCEPT ![e] = "none"]}
                /\ power' \in {power} \cup
                      (IF e \in registration /\ left = "running" THEN {"stopping"} ELSE {})
    /\ UNCHANGED <<root, manifest, registration, observation, proof, sup, verdict, late, reapRest>>

ReaperDisarms(e) ==
    /\ reaper[e] = "disarm"
    /\ timer' = [timer EXCEPT ![e] = "none"]
    /\ reaper' = [reaper EXCEPT ![e] = "off"]
    /\ UNCHANGED <<dirVars, box, sup, verdict, tries, late, reapRest, power>>

-----------------------------------------------------------------------------
(* finalize, inside the registration lock: first the writer, then the      *)
(* container, then the proof, and only then the reaper.                    *)
FinTo(e, step) == fin' = [fin EXCEPT ![e] = step]
finRest == <<root, manifest, registration, observation, reaped, late, finished, boot, disp>>

FinalizeStopsAnyway(e) ==
    /\ fin[e] = "stop"
    /\ FinTo(e, "remove")
    /\ UNCHANGED <<finRest, tries, box, sup, verdict, proof, timer, reaper, power>>

(* systemctl stop of the service, then its state: nothing is removed while *)
(* the supervisor may still be there.                                      *)
FinalizeStops(e) ==
    /\ fin[e] = "stop"
    /\ \/ /\ IF sup[e] = "off" THEN UNCHANGED box
             ELSE \E b \in Settles(e) : \E left \in {"none", b} :
                     box' = [box EXCEPT ![e] = left]
          /\ SupVars(e, "off")
          /\ SupSays(e, "none")
          /\ FinTo(e, "remove")
       \/ /\ FinTo(e, "fail")
          /\ UNCHANGED <<box, sup, verdict>>
    /\ UNCHANGED <<finRest, tries, proof, timer, reaper, power>>

(* cleanup: absence comes from a listing that succeeded.  A cgroup that is *)
(* seen to hold processes still is told apart from any other failure, one  *)
(* that cannot be read among them.                                         *)
FinalizeRemoves(e) ==
    /\ fin[e] = "remove"
    /\ \E left \in RemovalLeaves(e) :
          /\ box' = [box EXCEPT ![e] = left]
          /\ \/ left = "none" /\ manifest[e] # "torn" /\ FinTo(e, "prove")
             \/ FinTo(e, "fail")
             \/ left = "running" /\ FinTo(e, "escaped")
    /\ UNCHANGED <<finRest, tries, proof, sup, verdict, timer, reaper, power>>

(* cleanup-confirmed.json is on disk before the reaper is disarmed.        *)
FinalizeProves(e) ==
    /\ fin[e] = "prove"
    /\ \/ /\ e \in root
          /\ proof' = [proof EXCEPT ![e] = "host"]
          /\ FinTo(e, "disarm")
       \/ /\ e \notin root
          /\ FinTo(e, "fail")
          /\ UNCHANGED proof
    /\ UNCHANGED <<finRest, tries, box, sup, verdict, timer, reaper, power>>

FinalizeDisarms(e) ==
    /\ fin[e] = "disarm"
    /\ \/ /\ timer' = [timer EXCEPT ![e] = "none"]
          /\ reaper' = [reaper EXCEPT ![e] = "off"]
          /\ tries' = [tries EXCEPT ![e] = 0]
          /\ FinTo(e, "settle")
       \/ /\ FinTo(e, "fail")
          /\ UNCHANGED <<timer, reaper, tries>>
    /\ UNCHANGED <<finRest, proof, box, sup, verdict, power>>

(* services_absent; without a registered container only a workspace's      *)
(* manifest makes the cgroup's absence known.                              *)
FinalizeSettles(e) ==
    /\ fin[e] = "settle"
    /\ proof' = [proof EXCEPT ![e] =
                    IF e \in registration \/ manifest[e] = "whole" THEN "full" ELSE "weak"]
    /\ FinTo(e, "ok")
    /\ UNCHANGED <<finRest, tries, box, sup, verdict, timer, reaper, power>>

-----------------------------------------------------------------------------
(* dispose, inside the registration lock: refused while anything of the    *)
(* run is left, and without its proof.                                     *)
DispTo(e, step) == disp' = [disp EXCEPT ![e] = step]

MayDispose(e) == UnitsAbsent(e) /\ box[e] = "none" /\ proof[e] # "none"

(* shutil.rmtree takes the files one by one ...                            *)
DisposeRemoves(e) ==
    /\ disp[e] = "removing"
    /\ \E m \in {"none", manifest[e]}, p \in {"none", proof[e]} :
          /\ manifest' = [manifest EXCEPT ![e] = m]
          /\ proof' = [proof EXCEPT ![e] = p]
          /\ <<m, p>> # <<manifest[e], proof[e]>>
    /\ UNCHANGED <<root, registration, observation, reaped, procVars, callVars, power>>

(* ... and the directory last.                                             *)
DisposeEnds(e) ==
    /\ disp[e] = "removing"
    /\ root' = root \ {e}
    /\ manifest' = [manifest EXCEPT ![e] = "none"]
    /\ proof' = [proof EXCEPT ![e] = "none"]
    /\ registration' = registration \ {e}
    /\ observation' = [observation EXCEPT ![e] = "none"]
    /\ reaped' = [reaped EXCEPT ![e] = "none"]
    /\ DispTo(e, "ok")
    /\ fin' = [fin EXCEPT ![e] = "idle"]
    /\ late' = late \ {e}
    /\ finished' = finished \ {e}
    /\ UNCHANGED <<box, sup, verdict, timer, reaper, tries, boot, power>>

ExecProcesses ==
    \E e \in Execs :
        \/ CandidateEnds(e)
        \/ SupervisorCreates(e) \/ SupervisorRegisters(e) \/ SupervisorChecks(e)
        \/ SupervisorStarts(e) \/ SupervisorWatches(e) \/ SupervisorCleans(e)
        \/ SupervisorObserves(e) \/ SupervisorKilled(e) \/ SupervisorStopped(e)
        \/ TimerFires(e) \/ ReaperKills(e) \/ ReaperRemoves(e) \/ ReaperDisarms(e)

ExecCalls ==
    \E e \in Execs :
        \/ FinalizeStops(e) \/ FinalizeRemoves(e) \/ FinalizeProves(e)
        \/ FinalizeDisarms(e) \/ FinalizeSettles(e)
        \/ DisposeRemoves(e) \/ DisposeEnds(e)
=============================================================================
