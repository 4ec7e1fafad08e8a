------------------------------ MODULE MoActors ------------------------------
(***************************************************************************)
(* What a Mo program may rely on, with no threads, no outboxes and no asks *)
(* in progress: a process takes the oldest message of its mailbox in one   *)
(* step, with all its sends, or crashes in one step with none of them      *)
(* (src/mo-wiki/spec/design-v0/03-semantics.md, "`update` is a             *)
(* transaction").  MoProcs implements it: see Actors there.                *)
(*                                                                         *)
(* The steps are relations between the mailboxes before and after, so that *)
(* what an update sends is any messages not seen before.                   *)
(***************************************************************************)
EXTENDS Naturals, Sequences, FiniteSets, SequencesExt

CONSTANTS Procs, Bound

VARIABLES
    box,     \* each process's messages, oldest first, the one it is running included
    timers,  \* delayed sends whose time is still to come
    up,      \* whether each process is up
    done,    \* the messages whose update took effect
    halted   \* the run has stopped

vars == <<box, timers, up, done, halted>>

Pending == (UNION {ToSet(box[q]) : q \in Procs}) \cup {l.id : l \in timers}

(* Only messages that neither wait nor took effect join a mailbox, each    *)
(* once, at its end.                                                       *)
Added(old, new) == {new[i] : i \in (Len(old) + 1)..Len(new)}
Fresh(ids) == ids \cap (Pending \cup done) = {}

Init ==
    /\ box = [q \in Procs |-> <<>>]
    /\ timers = {}
    /\ up = [q \in Procs |-> TRUE]
    /\ done = {}
    /\ halted = FALSE

(* p's oldest message takes effect: it leaves, and what its update sent    *)
(* joins the mailboxes of the processes that are up, at most its bound to  *)
(* each, or the timers.                                                    *)
Update(p) ==
    LET rest == [box EXCEPT ![p] = Tail(@)]
    IN  /\ ~halted /\ up[p] /\ box[p] # <<>>
        /\ DOMAIN box' = Procs
        /\ \A q \in Procs :
              /\ IsPrefix(rest[q], box'[q])
              /\ Fresh(Added(rest[q], box'[q]))
              /\ Len(box'[q]) - Len(rest[q]) <= IF up[q] THEN Bound[q] ELSE 0
        /\ timers \subseteq timers'
        /\ Fresh({l.id : l \in timers' \ timers})
        /\ \A l \in timers' \ timers : up[l.to]
        /\ done' = done \cup {Head(box[p])}
        /\ UNCHANGED <<up, halted>>

(* p crashes on its oldest message: nothing it sent is seen, and with the  *)
(* message goes all that waited behind it; p is restarted or stays down.   *)
Crash(p) ==
    /\ ~halted /\ up[p] /\ box[p] # <<>>
    /\ box' = [box EXCEPT ![p] = <<>>]
    /\ \E v \in BOOLEAN : up' = [up EXCEPT ![p] = v]
    /\ UNCHANGED <<timers, done, halted>>

(* An ask's message, or one of main's, joins a mailbox with room.          *)
Post(q) ==
    /\ ~halted /\ up[q]
    /\ IsPrefix(box[q], box'[q]) /\ Len(box'[q]) = Len(box[q]) + 1
    /\ Fresh(Added(box[q], box'[q]))
    /\ box' = [box EXCEPT ![q] = box'[q]]
    /\ UNCHANGED <<timers, up, done, halted>>

Delay ==
    /\ ~halted
    /\ \E l \in timers' : timers' = timers \cup {l} /\ Fresh({l.id}) /\ up[l.to]
    /\ UNCHANGED <<box, up, done, halted>>

(* A timer runs out: its message joins the mailbox or is dropped.          *)
Due(l) ==
    /\ ~halted
    /\ timers' = timers \ {l}
    /\ \/ up[l.to] /\ box' = [box EXCEPT ![l.to] = Append(@, l.id)]
       \/ UNCHANGED box
    /\ UNCHANGED <<up, done, halted>>

(* The run stops, on a crash past the restarts allowed or on main's own.   *)
Halt ==
    /\ ~halted /\ halted' = TRUE
    /\ \A q \in Procs : up'[q] => up[q]
    /\ \A q \in Procs : IsPrefix(box'[q], box[q])
    /\ UNCHANGED <<timers, done>>

Next ==
    \/ \E p \in Procs : Update(p) \/ Crash(p) \/ Post(p)
    \/ \E l \in timers : Due(l)
    \/ Delay \/ Halt

Spec == Init /\ [][Next]_vars
=============================================================================
