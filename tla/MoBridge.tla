------------------------------ MODULE MoBridge ------------------------------
(***************************************************************************)
(* The provider bridge (toolchain/harness/provider/bridge/server.mjs) and  *)
(* its journal (journal.mjs): one session's requests, its turns with the   *)
(* provider, and the snapshots of its state on disk.                       *)
(*                                                                         *)
(* The program is one event loop: an action is what runs between two       *)
(* awaits.  In between come other requests, a lost connection, the session *)
(* timer, stop, a timeout, and the steps of the journal's own chain of     *)
(* writes, which a caller waits for no longer than closeMs while the write *)
(* goes on.  The client, the provider and the file system may take for     *)
(* ever; the timers of the program do not.                                 *)
(***************************************************************************)
EXTENDS Naturals, Sequences

CONSTANTS
    Requests,       \* the requests a client may send, each once
    MaxTurns,       \* the provider calls LIMITS.steps and LIMITS.tokens allow
    None

ASSUME TurnsAssumption == MaxTurns \in Nat \ {0}
ASSUME NoneAssumption == None \notin Requests

VARIABLES
    \* state, as far as it decides anything
    outcome,        \* state.outcome
    calls,          \* the length of state.calls
    settled,        \* the last call's outcome is known
    offered,        \* state.offered is set
    \* the session
    active,         \* the request being handled
    terminal,
    stopping,       \* stop: "none", "closing", "over"
    malformed,      \* history: a clientError ended the session
    \* each request
    pc,             \* the await its handler is at
    delivered,      \* history: the calls whose reply was finished
    gone,           \* the requests whose connection is closed
    wrote,          \* what the write its handler awaits has come to
    \* the journal
    generation,
    taken,          \* history: the snapshots taken so far
    queue,          \* the writes on the serial chain, the running one first
    step,           \* where the running one is
    disk            \* the journal file

stateVars == <<outcome, calls, settled, offered>>
sessionVars == <<active, terminal, stopping, malformed>>
requestVars == <<pc, delivered, gone, wrote>>
journalVars == <<generation, taken, queue, step, disk>>
vars == <<stateVars, sessionVars, requestVars, journalVars>>

Outcomes == {"ready", "intent", "awaiting", "final", "terminal", "uncertain"}
Writing == {"continue", "toolend", "intent", "offer"}
Waiting == {"body", "turn", "reply"}
Snapshots == [n : Nat, outcome : Outcomes, calls : 0..MaxTurns, offered : BOOLEAN]
Writes == [who : Requests \cup {None}, value : Snapshots, generation : 0..1, expired : BOOLEAN]

(* Everything has its type; a request is the active one exactly while its  *)
(* handler is between its first line and its finally.                      *)
TypeOK ==
    /\ outcome \in Outcomes
    /\ calls \in 0..MaxTurns
    /\ settled \in BOOLEAN
    /\ offered \in BOOLEAN
    /\ active \in Requests \cup {None}
    /\ terminal \in BOOLEAN
    /\ stopping \in {"none", "closing", "over"}
    /\ malformed \in BOOLEAN
    /\ pc \in [Requests -> {"away", "refused", "closing", "done"} \cup Writing \cup Waiting]
    /\ delivered \subseteq 0..MaxTurns
    /\ gone \subseteq Requests
    /\ wrote \in [Requests -> {"none", "waiting", "ok", "failed"}]
    /\ generation \in 0..1
    /\ taken \in Nat
    /\ queue \in Seq(Writes)
    /\ step \in {"queued", "temp", "rename"}
    /\ disk \in Snapshots
    /\ \A r \in Requests : pc[r] \in Writing \cup Waiting \cup {"closing"} <=> active = r

Init ==
    /\ outcome = "ready" /\ calls = 0 /\ settled = TRUE /\ offered = FALSE
    /\ active = None /\ terminal = FALSE /\ stopping = "none" /\ malformed = FALSE
    /\ pc = [r \in Requests |-> "away"]
    /\ delivered = {} /\ gone = {}
    /\ wrote = [r \in Requests |-> "none"]
    /\ generation = 0 /\ taken = 0 /\ queue = <<>> /\ step = "queued"
    /\ disk = [n |-> 0, outcome |-> "ready", calls |-> 0, offered |-> FALSE]

-----------------------------------------------------------------------------
(* log.write(state): the snapshot is taken at once, the write goes on the  *)
(* chain, and the handler, if one waits, is told later.                    *)
Write(who, g, o, c, f) ==
    /\ taken' = taken + 1
    /\ queue' = Append(queue, [who |-> who, generation |-> g, expired |-> FALSE,
                               value |-> [n |-> taken + 1, outcome |-> o, calls |-> c, offered |-> f]])
    /\ wrote' = IF who = None THEN wrote ELSE [wrote EXCEPT ![who] = "waiting"]

NoWrite == UNCHANGED <<taken, queue, wrote>>

(* end: the first one decides.  A final answer nobody is being given stays *)
(* as it is; anything else is labelled, the snapshots that are waiting are *)
(* invalidated, and the label is written.                                  *)
Ends(who, uncertain, kept) ==
    /\ terminal' = TRUE
    /\ IF terminal \/ kept
       THEN NoWrite /\ UNCHANGED <<outcome, generation>>
       ELSE /\ outcome' = IF uncertain THEN "uncertain" ELSE "terminal"
            /\ generation' = generation + 1
            /\ Write(who, generation + 1, outcome', calls, offered)
    /\ UNCHANGED <<calls, settled, offered, step, disk>>

LeavesAll(r) == active' = None

(* A handler ends its session and waits for the label, or ends at once.    *)
Leaves(r) == active' = IF active = r THEN None ELSE active
Closes(r, uncertain) ==
    /\ Ends(r, uncertain, FALSE)
    /\ IF terminal
       THEN pc' = [pc EXCEPT ![r] = "done"] /\ Leaves(r)
       ELSE pc' = [pc EXCEPT ![r] = "closing"] /\ UNCHANGED active
    /\ UNCHANGED <<stopping, malformed, delivered, gone>>

(* The catch: what was under way at the provider is uncertain.             *)
Fails(r) == Closes(r, outcome = "intent")

-----------------------------------------------------------------------------
(* A request comes in while the server listens.                            *)
Arrives(r) ==
    /\ pc[r] = "away" /\ stopping = "none"
    /\ ~terminal /\ outcome # "final" /\ active = None
    /\ active' = r
    /\ pc' = [pc EXCEPT ![r] = "body"]
    /\ UNCHANGED <<stateVars, terminal, stopping, malformed, delivered, gone, wrote, journalVars>>

(* One too many, or one too late: the session ends, and the request gets an *)
(* error.                                                                  *)
ArrivesAmiss(r) ==
    /\ pc[r] = "away" /\ stopping = "none"
    /\ terminal \/ outcome = "final" \/ active # None
    /\ Ends(r, active # None /\ outcome # "final", FALSE)
    /\ pc' = [pc EXCEPT ![r] = IF terminal THEN "done" ELSE "refused"]
    /\ UNCHANGED <<active, stopping, malformed, delivered, gone>>

(* The dispatch intent, if the budget allows another call.                 *)
Intends(r, f) ==
    /\ ~terminal /\ calls < MaxTurns
    /\ outcome' = "intent"
    /\ calls' = calls + 1
    /\ settled' = FALSE
    /\ offered' = f
    /\ Write(r, generation, "intent", calls + 1, f)
    /\ pc' = [pc EXCEPT ![r] = "intent"]
    /\ UNCHANGED <<sessionVars, delivered, gone, generation, step, disk>>

(* The body is there: the first request opens the session ...              *)
BodyOpens(r) == pc[r] = "body" /\ r \notin gone /\ outcome = "ready" /\ Intends(r, FALSE)

(* ... a later one continues it with the recorded tool, which may itself   *)
(* end the session ...                                                     *)
BodyContinues(r) ==
    /\ pc[r] = "body" /\ r \notin gone
    /\ ~terminal /\ outcome = "awaiting"
    /\ offered' = FALSE
    /\ Write(r, generation, "awaiting", calls, FALSE)
    /\ \E next \in {"continue", "toolend"} : pc' = [pc EXCEPT ![r] = next]
    /\ UNCHANGED <<outcome, calls, settled, sessionVars, delivered, gone, generation, step, disk>>

(* ... and any may be refused, for what it says or for the budget.         *)
BodyRefused(r) == pc[r] = "body" /\ Fails(r)

(* The write a handler waits for has failed, or after it the session is over, *)
(* or its time or its budget.                                              *)
WriteFails(r) ==
    /\ pc[r] \in Writing
    /\ wrote[r] = "failed" \/ (wrote[r] = "ok" /\ pc[r] # "toolend")
    /\ Fails(r)

WrittenContinue(r) == pc[r] = "continue" /\ wrote[r] = "ok" /\ Intends(r, offered)

WrittenToolEnd(r) == pc[r] = "toolend" /\ wrote[r] = "ok" /\ Closes(r, FALSE)

WrittenIntentAnyway(r) ==
    /\ pc[r] = "intent" /\ wrote[r] \in {"ok", "failed"} /\ ~terminal
    /\ pc' = [pc EXCEPT ![r] = "turn"]
    /\ UNCHANGED <<stateVars, sessionVars, delivered, gone, wrote, journalVars>>

(* The provider is called only once the intent is on disk.                 *)
WrittenIntent(r) ==
    /\ pc[r] = "intent" /\ wrote[r] = "ok" /\ ~terminal
    /\ pc' = [pc EXCEPT ![r] = "turn"]
    /\ UNCHANGED <<stateVars, sessionVars, delivered, gone, wrote, journalVars>>

(* The reply is started only once the offer is on disk.                    *)
WrittenOffer(r) ==
    /\ pc[r] = "offer" /\ wrote[r] = "ok" /\ ~terminal
    /\ pc' = [pc EXCEPT ![r] = "reply"]
    /\ UNCHANGED <<stateVars, sessionVars, delivered, gone, wrote, journalVars>>

TurnOffersLate(r) ==
    /\ pc[r] = "turn"
    /\ settled' = TRUE
    /\ offered' = TRUE
    /\ outcome' \in {"awaiting", "final"}
    /\ Write(r, generation, outcome', calls, TRUE)
    /\ pc' = [pc EXCEPT ![r] = "offer"]
    /\ UNCHANGED <<calls, sessionVars, delivered, gone, generation, step, disk>>

(* The provider answers with a tool or the final answer ...                *)
TurnOffers(r) ==
    /\ pc[r] = "turn" /\ ~terminal
    /\ settled' = TRUE
    /\ offered' = TRUE
    /\ outcome' \in {"awaiting", "final"}
    /\ Write(r, generation, outcome', calls, TRUE)
    /\ pc' = [pc EXCEPT ![r] = "offer"]
    /\ UNCHANGED <<calls, sessionVars, delivered, gone, generation, step, disk>>

(* ... with an error or a usage that cannot be counted ...                 *)
TurnErrs(r) ==
    /\ pc[r] = "turn" /\ ~terminal
    /\ settled' = TRUE
    /\ outcome' = "terminal" /\ terminal' = TRUE
    /\ generation' = generation + 1
    /\ Write(r, generation + 1, "terminal", calls, offered)
    /\ pc' = [pc EXCEPT ![r] = "closing"]
    /\ UNCHANGED <<calls, offered, active, stopping, malformed, delivered, gone, step, disk>>

(* ... with what the bridge refuses, or after the session's end.           *)
TurnRefused(r) == pc[r] = "turn" /\ Fails(r)

(* The reply is handed to the socket.                                      *)
ReplyFinishes(r) ==
    /\ pc[r] = "reply" /\ r \notin gone
    /\ delivered' = delivered \cup {calls}
    /\ pc' = [pc EXCEPT ![r] = "done"]
    /\ Leaves(r)
    /\ UNCHANGED <<stateVars, terminal, stopping, malformed, gone, wrote, journalVars>>

TimesOutOnClient(r) ==
    \/ pc[r] = "body" /\ Fails(r)
    \/ pc[r] = "reply" /\ Closes(r, TRUE)

(* bounded: every wait on a client or the provider has its timer; a closed  *)
(* connection ends the waits on the client.                                *)
TimesOut(r) ==
    \/ pc[r] \in {"body", "turn"} /\ Fails(r)
    \/ pc[r] = "reply" /\ Closes(r, TRUE)

(* The label is written, or given up, and the request is answered with it.  *)
Closed(r) ==
    /\ pc[r] \in {"closing", "refused"} /\ wrote[r] \in {"ok", "failed"}
    /\ pc' = [pc EXCEPT ![r] = "done"]
    /\ Leaves(r)
    /\ UNCHANGED <<stateVars, terminal, stopping, malformed, delivered, gone, wrote, journalVars>>

Resumes(r) ==
    \/ WriteFails(r) \/ WrittenContinue(r) \/ WrittenToolEnd(r) \/ WrittenIntent(r)
    \/ WrittenOffer(r) \/ Closed(r)

(* The connection of the active request closes before its reply is out.    *)
Disconnects(r) ==
    /\ active = r /\ r \notin gone
    /\ Ends(None, TRUE, FALSE)
    /\ gone' = gone \cup {r}
    /\ UNCHANGED <<active, stopping, malformed, pc, delivered>>

(* clientError: bytes that are no request, on any connection.              *)
ClientErrs ==
    /\ stopping = "none" /\ ~terminal
    /\ Ends(None, FALSE, FALSE)
    /\ malformed' = TRUE
    /\ UNCHANGED <<active, stopping, pc, delivered, gone>>

StopsAsTerminal ==
    /\ stopping = "none"
    /\ Ends(None, FALSE, outcome = "final" /\ active = None)
    /\ stopping' = "closing"
    /\ gone' = gone \cup ({active} \cap Requests)
    /\ UNCHANGED <<active, malformed, pc, delivered>>

(* stop, called by the operator or by the session's timer.                 *)
Stops ==
    /\ stopping = "none"
    /\ Ends(None, active # None, outcome = "final" /\ active = None)
    /\ stopping' = "closing"
    /\ gone' = gone \cup ({active} \cap Requests)
    /\ UNCHANGED <<active, malformed, pc, delivered>>

(* It returns with the label and the server closed, or at close_timeout.   *)
StopReturns ==
    /\ stopping = "closing"
    /\ stopping' = "over"
    /\ UNCHANGED <<stateVars, active, terminal, malformed, requestVars, journalVars>>

-----------------------------------------------------------------------------
(* The journal's chain.  Before each of its effects a write looks whether   *)
(* it still counts; the last look and the rename are one.                  *)
Counts(op) == ~op.expired /\ op.generation = generation
Told(op, how) ==
    wrote' = IF op.who = None \/ op.expired THEN wrote ELSE [wrote EXCEPT ![op.who] = how]
journalRest == <<stateVars, sessionVars, pc, delivered, gone, generation, taken>>

WriteGoesOn ==
    /\ queue # <<>> /\ step # "rename"
    /\ Counts(Head(queue))
    /\ step' = IF step = "queued" THEN "temp" ELSE "rename"
    /\ UNCHANGED <<journalRest, wrote, queue, disk>>

(* The file system refuses, or the write does not count any more.          *)
WriteDropped ==
    /\ queue # <<>>
    /\ step = "queued" => ~Counts(Head(queue))
    /\ Told(Head(queue), "failed")
    /\ queue' = Tail(queue)
    /\ step' = "queued"
    /\ UNCHANGED <<journalRest, disk>>

WriteLands ==
    /\ queue # <<>> /\ step = "rename"
    /\ disk' = Head(queue).value
    /\ Told(Head(queue), "ok")
    /\ queue' = Tail(queue)
    /\ step' = "queued"
    /\ UNCHANGED journalRest

(* closeMs: whoever waits is told that it failed, while it goes on.        *)
WriteExpires ==
    \E i \in DOMAIN queue :
        /\ ~queue[i].expired
        /\ queue' = [queue EXCEPT ![i].expired = TRUE]
        /\ Told(queue[i], "failed")
        /\ UNCHANGED <<journalRest, step, disk>>

-----------------------------------------------------------------------------
Next ==
    \/ \E r \in Requests :
          \/ Arrives(r) \/ ArrivesAmiss(r)
          \/ BodyOpens(r) \/ BodyContinues(r) \/ BodyRefused(r)
          \/ TurnOffers(r) \/ TurnErrs(r) \/ TurnRefused(r)
          \/ ReplyFinishes(r)
          \/ TimesOut(r) \/ Resumes(r) \/ Disconnects(r)
    \/ ClientErrs \/ Stops \/ StopReturns
    \/ WriteGoesOn \/ WriteDropped \/ WriteLands \/ WriteExpires

Spec == Init /\ [][Next]_vars

(* The event loop and its timers go on; the client, the provider and the   *)
(* file system need not.                                                   *)
Fairness ==
    /\ \A r \in Requests : WF_vars(TimesOut(r)) /\ WF_vars(Resumes(r))
    /\ WF_vars(WriteExpires) /\ WF_vars(Stops) /\ WF_vars(StopReturns)

FairSpec == Spec /\ Fairness

-----------------------------------------------------------------------------
(* mo-provider-bridge-v1.md: the intent is on disk before the provider is   *)
(* called, and the offer before the reply is started, whatever became of    *)
(* other writes and of the session meanwhile.                              *)
RecordedFirst ==
    \A r \in Requests :
        /\ pc[r] = "turn" => disk.calls = calls /\ disk.outcome \notin {"ready", "awaiting"}
        /\ pc[r] = "reply" => disk.calls = calls /\ disk.offered

(* server.mjs end: what a session's label says is true.  A session left at  *)
(* final-offered has had that answer written to its client, and one that is *)
(* called terminal has no call at the provider of unknown outcome, but for  *)
(* a clientError, which calls every session terminal.                      *)
LabelIsTrue ==
    /\ terminal /\ outcome = "final" => calls \in delivered /\ active = None
    /\ outcome = "terminal" /\ ~settled => malformed

(* mo-provider-bridge-v1.md: late completions cannot overwrite the terminal *)
(* decision, in memory or on disk, where no snapshot replaces a later one.  *)
LateStaysOut ==
    [][/\ terminal => outcome' = outcome
       /\ disk'.n >= disk.n]_vars

(* README.md, Journal and bounds: with a client, a provider or a file       *)
(* system that never answers, every request is over and stop has returned  *)
(* in the end.                                                             *)
SessionEnds ==
    <>[](stopping = "over" /\ active = None /\ \A r \in Requests : pc[r] \in {"away", "done"})
=============================================================================
