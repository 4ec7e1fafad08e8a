---------------------------- MODULE MCWorkspace ----------------------------
(* Instances of MoWorkspace for TLC.                                         *)
EXTENDS MoWorkspace

CONSTANTS e1, e2

OneRun == {e1}
TwoRuns == {e1, e2}
OneVerify == {e2}
NoVerify == {}

(* The part of a state that a step or a property can still read: how a call  *)
(* of an execution ended, for as long as somebody waits for it, what was     *)
(* seen of a candidate, for as long as there is an owner to publish it, what *)
(* the reaper found, for as long as there may be a candidate, and whether    *)
(* the deadline has passed, before the candidate's start.                    *)
Ended(calls, ends, awaited) ==
    [e \in Execs |-> IF calls[e] \in ends /\ e \notin awaited THEN "idle" ELSE calls[e]]
FinAwaited == (IF host = "collecting" THEN {run} ELSE {}) \cup (IF rec = "finalizing" THEN {at} ELSE {})
DispAwaited == (IF host = "disposing" THEN {run} ELSE {}) \cup (IF rec = "disposing" THEN {at} ELSE {})
StillRead ==
    <<root, manifest, registration, proof, box, sup, timer, reaper, tries, power,
      {e \in Execs : reaped[e] = "unconfirmed" /\ (box[e] # "none" \/ sup[e] # "off" \/ boot[e] \in BootSteps)},
      {e \in late : sup[e] \in {"create", "register", "check"} \/ boot[e] = "timed"},
      IF host = "gone" THEN <<>> ELSE <<observation, verdict, finished, seen>>,
      Ended(boot, {"over"}, {}),
      Ended(fin, {"ok", "fail", "escaped"}, FinAwaited),
      Ended(disp, {"ok", "fail"}, DispAwaited),
      host, run, rows, dispatched, hostTorn, wireVars, ctlVars, recVars>>
=============================================================================
