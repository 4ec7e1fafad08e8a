------------------------------- MODULE MCProcs -------------------------------
(* Instances of MoProcs for TLC: who is placed where, and who restarts.      *)
EXTENDS MoProcs, TLC

CONSTANTS a, b, c, s0, s1, s2

TwoProcs == {a, b}
ThreeProcs == {a, b, c}
OneSched == {s0}
TwoScheds == {s0, s1}
ThreeScheds == {s0, s1, s2}

(* All on main's scheduler.                                                  *)
TogetherTwo == a :> s0 @@ b :> s0
(* One with main, one on a scheduler of its own.                             *)
ApartTwo == a :> s0 @@ b :> s1
ApartThree == a :> s0 @@ b :> s0 @@ c :> s1
(* Each on a scheduler of its own.                                           *)
SpreadThree == a :> s0 @@ b :> s1 @@ c :> s2

AlwaysTwo == a :> "always" @@ b :> "always"
NeverB == a :> "always" @@ b :> "never"
NeverBThree == a :> "always" @@ b :> "never" @@ c :> "always"
NeverThree == a :> "never" @@ b :> "never" @@ c :> "never"

(* Mailboxes of one message, or of two where order shows.                    *)
BoundOne == [p \in Procs |-> 1]
BoundTwoB == [p \in Procs |-> IF p = b THEN 2 ELSE 1]

OneSupervisorTwo == a :> "sup" @@ b :> "sup"
OneSupervisorThree == a :> "sup" @@ b :> "sup" @@ c :> "sup"

(* Who holds a handle of whom.                                               *)
KnowsAll == [x \in Callers |-> Procs]
KnowsSome == Main :> {a, c} @@ a :> {b, c} @@ b :> {a} @@ c :> {b}
KnowsRing == Main :> Procs @@ a :> {b} @@ b :> {c} @@ c :> {a}

(* What the code of main and of the processes calls.                         *)
Everything == {"send", "later", "ask", "defer"}
CallsAll == [x \in Callers |-> Everything]
CallsAsks == [x \in Callers |-> IF x = Main THEN {"send", "ask"} ELSE {"ask", "defer"}]
CallsBoth ==
    [x \in Callers |-> CASE x = Main -> {"send"}
                         [] x = a    -> {"send", "later", "ask"}
                         [] OTHER    -> {"ask"}]
CallsSends == [x \in Callers |-> IF x = Main THEN {"send"} ELSE {"send", "later"}]
=============================================================================
