--------------------------- MODULE MoBridgeProofs ---------------------------
(***************************************************************************)
(* Proofs about MoBridge, for any requests and any number of provider      *)
(* calls: the journal is ahead of what the session does (RecordedFirst),   *)
(* the labels are true (LabelIsTrue) and what is late stays out            *)
(* (LateStaysOut).                                                         *)
(*                                                                         *)
(* For the labels it is enough to know what the states between two awaits  *)
(* have in common (Labelled).  For the journal one must know which of the  *)
(* writes on the chain a handler is waiting for (OneWrite), and that what  *)
(* that write records is still so in every write behind it (Ahead): then   *)
(* it does not matter which of them land and which are dropped.            *)
(***************************************************************************)
EXTENDS MoBridge, SequenceTheorems, TLAPS

(* The labels: what holds between two awaits.                              *)
Labelled ==
    /\ ~terminal => generation = 0
    /\ ~terminal /\ outcome = "final" /\ active = None => calls \in delivered
    /\ ~terminal /\ ~settled => outcome = "intent"
    /\ ~terminal /\ outcome = "intent" => active # None
    /\ \A r \in Requests :
          /\ pc[r] = "closing" => terminal
          /\ pc[r] = "toolend" /\ ~terminal => outcome = "awaiting"
          /\ pc[r] \in {"offer", "reply"} /\ ~terminal => outcome \in {"awaiting", "final"}

(* The chain: each snapshot is younger than those before it.               *)
InOrder ==
    /\ disk.n <= taken
    /\ \A i \in 1..Len(queue) : disk.n < queue[i].value.n /\ queue[i].value.n <= taken
    /\ \A i, j \in 1..Len(queue) : i < j => queue[i].value.n < queue[j].value.n

(* Somebody waits for the write.                                           *)
Awaited(op, r) == op.who = r /\ ~op.expired

(* A handler waits for one write at a time.                                *)
OneWrite ==
    \A r \in Requests :
        /\ pc[r] \in {"away", "body", "turn", "reply"} => wrote[r] # "waiting"
        /\ \A i \in 1..Len(queue) : Awaited(queue[i], r) => wrote[r] = "waiting"
        /\ \A i, j \in 1..Len(queue) : Awaited(queue[i], r) /\ Awaited(queue[j], r) => i = j

(* What must be on disk before the next step of a handler.                 *)
Dispatching == {"intent", "turn"}
Offering == {"offer", "reply"}
Records(at, c, v) ==
    /\ v.calls = c
    /\ at \in Dispatching => v.outcome \in {"intent", "terminal", "uncertain"}
    /\ at \in Offering => v.offered

(* From the write a handler waits for on, everything records it; once it is *)
(* told of that write, so does the disk.                                   *)
Ahead ==
    \A r \in Requests : pc[r] \in Dispatching \cup Offering =>
        /\ pc[r] \in Offering => offered
        /\ wrote[r] = "ok" =>
              Records(pc[r], calls, disk) /\ \A i \in 1..Len(queue) : Records(pc[r], calls, queue[i].value)
        /\ wrote[r] = "waiting" =>
              \A i, j \in 1..Len(queue) :
                  Awaited(queue[i], r) /\ i <= j => Records(pc[r], calls, queue[j].value)
        /\ pc[r] \in {"turn", "reply"} => wrote[r] = "ok"

BridgeInv == TypeOK /\ Labelled /\ LabelIsTrue /\ InOrder /\ OneWrite /\ Ahead

USE TurnsAssumption, NoneAssumption

-----------------------------------------------------------------------------
(* Helpers.                                                                *)

LEMMA AppendWrites ==
  ASSUME NEW q \in Seq(Writes), NEW op \in Writes
  PROVE  /\ Append(q, op) \in Seq(Writes)
         /\ Len(q) \in Nat
         /\ Len(Append(q, op)) = Len(q) + 1
         /\ \A i \in 1..Len(q) : Append(q, op)[i] = q[i]
         /\ Append(q, op)[Len(q) + 1] = op
  BY AppendProperties, LenProperties

LEMMA TailWrites ==
  ASSUME NEW q \in Seq(Writes), q # <<>>
  PROVE  /\ Tail(q) \in Seq(Writes)
         /\ Len(q) \in Nat \ {0}
         /\ Len(Tail(q)) = Len(q) - 1
         /\ \A i \in 1..Len(Tail(q)) : Tail(q)[i] = q[i + 1]
         /\ Head(q) = q[1]
         /\ Head(q) \in Writes
  BY HeadTailProperties, LenProperties, EmptySeq

LEMMA ExpireWrites ==
  ASSUME queue \in Seq(Writes), NEW k \in DOMAIN queue, queue' = [queue EXCEPT ![k].expired = TRUE]
  PROVE  /\ queue' \in Seq(Writes)
         /\ Len(queue') = Len(queue)
         /\ \A j \in 1..Len(queue) : /\ queue'[j].who = queue[j].who
                                    /\ queue'[j].value = queue[j].value
                                    /\ queue'[j].expired = (IF j = k THEN TRUE ELSE queue[j].expired)
<1>1. DOMAIN queue = 1..Len(queue) /\ Len(queue) \in Nat
  BY LenProperties
<1>2. \A j \in 1..Len(queue) : queue[j] \in Writes
  BY <1>1, ElementOfSeq
<1>3. queue' = [j \in 1..Len(queue) |-> IF j = k THEN [queue[k] EXCEPT !.expired = TRUE] ELSE queue[j]]
  BY <1>1
<1>4. \A j \in 1..Len(queue) : queue'[j] \in Writes
  <2>1. [queue[k] EXCEPT !.expired = TRUE] \in Writes
    BY <1>1, <1>2 DEF Writes
  <2> QED
    BY <1>2, <1>3, <2>1
<1>5. queue' \in [1..Len(queue) -> Writes]
  BY <1>3, <1>4
<1>6. queue' \in Seq(Writes) /\ Len(queue') = Len(queue)
  BY <1>1, <1>5, SeqDef, LenProperties
<1>7. \A j \in 1..Len(queue) : /\ queue'[j].who = queue[j].who
                               /\ queue'[j].value = queue[j].value
                               /\ queue'[j].expired = (IF j = k THEN TRUE ELSE queue[j].expired)
  BY <1>1, <1>2, <1>3 DEF Writes
<1> QED
  BY <1>6, <1>7

(* A write is appended to the chain, and its handler waits.                *)
Appends(op) ==
    /\ op.expired = FALSE
    /\ op.value.n = taken + 1
    /\ taken' = taken + 1
    /\ queue' = Append(queue, op)
    /\ wrote' = IF op.who = None THEN wrote ELSE [wrote EXCEPT ![op.who] = "waiting"]

LEMMA AppendsEffect ==
  ASSUME TypeOK, NEW op \in Writes, Appends(op)
  PROVE  /\ taken' \in Nat
         /\ queue' \in Seq(Writes)
         /\ Len(queue) \in Nat /\ Len(queue') = Len(queue) + 1
         /\ \A i \in 1..Len(queue) : queue'[i] = queue[i]
         /\ queue'[Len(queue) + 1] = op
         /\ wrote' \in [Requests -> {"none", "waiting", "ok", "failed"}]
<1>1. taken \in Nat /\ queue \in Seq(Writes) /\ op.who \in Requests \cup {None}
  BY DEF TypeOK, Writes
<1>2. wrote' \in [Requests -> {"none", "waiting", "ok", "failed"}]
  BY <1>1 DEF TypeOK, Appends
<1> QED
  BY <1>1, <1>2, AppendWrites DEF Appends

(* end: nothing but terminal, or the label and its write.                  *)
Nothing == UNCHANGED <<outcome, generation, taken, queue, wrote>>
Labels(who, op) ==
    /\ op.who = who
    /\ op.value.outcome = outcome' /\ op.value.calls = calls /\ op.value.offered = offered
    /\ outcome' \in {"uncertain", "terminal"}
    /\ generation' = 1
    /\ Appends(op)

LEMMA EndsEffect ==
  ASSUME TypeOK, ~terminal => generation = 0, NEW who \in Requests \cup {None},
         NEW uncertain \in BOOLEAN, NEW kept \in BOOLEAN, Ends(who, uncertain, kept)
  PROVE  /\ terminal' = TRUE
         /\ UNCHANGED <<calls, settled, offered, step, disk>>
         /\ \/ (terminal \/ kept) /\ Nothing
            \/ /\ ~terminal /\ ~kept
               /\ outcome' = (IF uncertain THEN "uncertain" ELSE "terminal")
               /\ \E op \in Writes : Labels(who, op)
<1>1. CASE terminal \/ kept
  BY <1>1 DEF Ends, NoWrite, Nothing
<1>2. CASE ~(terminal \/ kept)
  <2> DEFINE v == [n |-> taken + 1, outcome |-> outcome', calls |-> calls, offered |-> offered]
             op == [who |-> who, generation |-> generation + 1, expired |-> FALSE, value |-> v]
  <2>1. generation = 0 /\ generation + 1 = 1 /\ taken \in Nat
    BY <1>2 DEF TypeOK
  <2>2. outcome' = (IF uncertain THEN "uncertain" ELSE "terminal") /\ generation' = 1
    BY <1>2, <2>1 DEF Ends
  <2>3. v \in Snapshots
    BY <2>1, <2>2 DEF TypeOK, Snapshots, Outcomes
  <2>4. op \in Writes
    BY <2>1, <2>3 DEF Writes
  <2>5. Appends(op)
    BY <1>2 DEF Ends, Write, Appends
  <2>6. Labels(who, op)
    BY <2>2, <2>5 DEF Labels
  <2> QED
    BY <1>2, <2>2, <2>4, <2>6 DEF Ends
<1> QED
  BY <1>1, <1>2

LEMMA EndsType ==
  ASSUME TypeOK, ~terminal => generation = 0, NEW who \in Requests \cup {None},
         NEW uncertain \in BOOLEAN, NEW kept \in BOOLEAN, Ends(who, uncertain, kept)
  PROVE  /\ outcome' \in Outcomes /\ terminal' \in BOOLEAN /\ generation' \in 0..1
         /\ taken' \in Nat /\ queue' \in Seq(Writes)
         /\ wrote' \in [Requests -> {"none", "waiting", "ok", "failed"}]
         /\ UNCHANGED <<calls, settled, offered, step, disk>>
<1>0. /\ terminal' = TRUE /\ UNCHANGED <<calls, settled, offered, step, disk>>
      /\ Nothing \/ \E op \in Writes : Labels(who, op)
  BY EndsEffect
<1>1. CASE Nothing
  BY <1>0, <1>1 DEF Nothing, TypeOK
<1>2. ASSUME NEW op \in Writes, Labels(who, op)
      PROVE  /\ outcome' \in Outcomes /\ generation' \in 0..1
             /\ taken' \in Nat /\ queue' \in Seq(Writes)
             /\ wrote' \in [Requests -> {"none", "waiting", "ok", "failed"}]
  BY <1>2, AppendsEffect DEF Labels, Outcomes
<1> QED
  BY <1>0, <1>1, <1>2

(* A handler that ends.                                                    *)
LEMMA ClosesType ==
  ASSUME TypeOK, ~terminal => generation = 0, NEW r \in Requests, active = r,
         NEW uncertain \in BOOLEAN, Closes(r, uncertain)
  PROVE  TypeOK'
<1>1. Ends(r, uncertain, FALSE)
  BY DEF Closes
<1>2. /\ outcome' \in Outcomes /\ terminal' \in BOOLEAN /\ generation' \in 0..1
      /\ taken' \in Nat /\ queue' \in Seq(Writes)
      /\ wrote' \in [Requests -> {"none", "waiting", "ok", "failed"}]
      /\ UNCHANGED <<calls, settled, offered, step, disk>>
  BY <1>1, EndsType
<1>3. \/ pc' = [pc EXCEPT ![r] = "done"] /\ active' = None
      \/ pc' = [pc EXCEPT ![r] = "closing"] /\ active' = r
  BY DEF Closes, Leaves
<1>4. UNCHANGED <<stopping, malformed, delivered, gone>>
  BY DEF Closes
<1> QED
  BY <1>2, <1>3, <1>4 DEF TypeOK, Writing, Waiting

(* A handler that goes on, and waits for what it has written.              *)
Goes(r, to, op) ==
    /\ op.who = r
    /\ op.value.outcome = outcome' /\ op.value.calls = calls' /\ op.value.offered = offered'
    /\ outcome' \in Outcomes /\ calls' \in 0..MaxTurns
    /\ settled' \in BOOLEAN /\ offered' \in BOOLEAN
    /\ Appends(op)
    /\ pc' = [pc EXCEPT ![r] = to]
    /\ UNCHANGED <<sessionVars, delivered, gone, generation, step, disk>>

LEMMA GoesType ==
  ASSUME TypeOK, NEW r \in Requests, active = r, NEW to \in Writing, NEW op \in Writes, Goes(r, to, op)
  PROVE  TypeOK'
<1>1. /\ taken' \in Nat /\ queue' \in Seq(Writes)
      /\ wrote' \in [Requests -> {"none", "waiting", "ok", "failed"}]
  BY AppendsEffect DEF Goes
<1>2. /\ pc' \in [Requests -> {"away", "refused", "closing", "done"} \cup Writing \cup Waiting]
      /\ \A q \in Requests : pc'[q] \in Writing \cup Waiting \cup {"closing"} <=> active' = q
  BY DEF TypeOK, Goes, sessionVars
<1> QED
  BY <1>1, <1>2 DEF TypeOK, Goes, sessionVars

LEMMA IntendsGoes ==
  ASSUME TypeOK, NEW r \in Requests, NEW f \in BOOLEAN, Intends(r, f)
  PROVE  \E op \in Writes : Goes(r, "intent", op)
<1> DEFINE v == [n |-> taken + 1, outcome |-> "intent", calls |-> calls + 1, offered |-> f]
           op == [who |-> r, generation |-> generation, expired |-> FALSE, value |-> v]
<1>1. v \in Snapshots /\ calls + 1 \in 0..MaxTurns
  BY DEF TypeOK, Snapshots, Outcomes, Intends
<1>2. op \in Writes
  BY <1>1 DEF TypeOK, Writes
<1>3. Appends(op)
  BY NoneAssumption DEF Intends, Write, Appends
<1> QED
  BY <1>1, <1>2, <1>3 DEF Intends, Goes, Outcomes

LEMMA ContinuesGoes ==
  ASSUME TypeOK, NEW r \in Requests, BodyContinues(r)
  PROVE  \E op \in Writes, to \in {"continue", "toolend"} : Goes(r, to, op)
<1> DEFINE v == [n |-> taken + 1, outcome |-> "awaiting", calls |-> calls, offered |-> FALSE]
           op == [who |-> r, generation |-> generation, expired |-> FALSE, value |-> v]
<1>1. v \in Snapshots
  BY DEF TypeOK, Snapshots, Outcomes
<1>2. op \in Writes
  BY <1>1 DEF TypeOK, Writes
<1>3. Appends(op)
  BY NoneAssumption DEF BodyContinues, Write, Appends
<1> QED
  BY <1>1, <1>2, <1>3 DEF BodyContinues, Goes, Outcomes, TypeOK

LEMMA OffersGoes ==
  ASSUME TypeOK, NEW r \in Requests, TurnOffers(r)
  PROVE  \E op \in Writes : Goes(r, "offer", op)
<1> DEFINE v == [n |-> taken + 1, outcome |-> outcome', calls |-> calls, offered |-> TRUE]
           op == [who |-> r, generation |-> generation, expired |-> FALSE, value |-> v]
<1>1. v \in Snapshots
  BY DEF TypeOK, Snapshots, Outcomes, TurnOffers
<1>2. op \in Writes
  BY <1>1 DEF TypeOK, Writes
<1>3. Appends(op)
  BY NoneAssumption DEF TurnOffers, Write, Appends
<1> QED
  BY <1>1, <1>2, <1>3 DEF TurnOffers, Goes, Outcomes, TypeOK

(* An error of the provider: the label, with the call settled.             *)
LEMMA ErrsEffect ==
  ASSUME TypeOK, ~terminal => generation = 0, NEW r \in Requests, TurnErrs(r)
  PROVE  \E op \in Writes : Labels(r, op)
<1> DEFINE v == [n |-> taken + 1, outcome |-> "terminal", calls |-> calls, offered |-> offered]
           op == [who |-> r, generation |-> generation + 1, expired |-> FALSE, value |-> v]
<1>1. v \in Snapshots
  BY DEF TypeOK, Snapshots, Outcomes
<1>2. generation = 0 /\ generation + 1 = 1
  BY DEF TurnErrs
<1>3. op \in Writes
  BY <1>1, <1>2 DEF Writes
<1>4. Appends(op)
  BY NoneAssumption DEF TurnErrs, Write, Appends
<1> QED
  BY <1>2, <1>3, <1>4 DEF TurnErrs, Labels

-----------------------------------------------------------------------------
(* The steps by their kind: a handler that ends its session, a step of     *)
(* somebody else that ends it, and one that only moves on.                 *)

Closing(r) ==
    \/ BodyRefused(r) \/ WriteFails(r) \/ WrittenToolEnd(r) \/ TurnRefused(r) \/ TimesOut(r)

Outside == (\E r \in Requests : Disconnects(r)) \/ ClientErrs \/ Stops

Moves(r) ==
    \/ Arrives(r) \/ WrittenIntent(r) \/ WrittenOffer(r) \/ ReplyFinishes(r) \/ Closed(r)

Going(r) == BodyOpens(r) \/ WrittenContinue(r) \/ BodyContinues(r) \/ TurnOffers(r)

Chain == WriteGoesOn \/ WriteDropped \/ WriteLands \/ WriteExpires

LEMMA Kinds ==
  ASSUME Next
  PROVE  \/ \E r \in Requests :
               \/ Closing(r) \/ Moves(r) \/ Going(r) \/ ArrivesAmiss(r) \/ TurnErrs(r)
         \/ Outside \/ StopReturns \/ Chain
  BY DEF Next, Resumes, Closing, Outside, Moves, Going, Chain

LEMMA ClosingCloses ==
  ASSUME TypeOK, NEW r \in Requests, Closing(r)
  PROVE  /\ active = r
         /\ pc[r] \in {"body", "turn", "reply"} \/ (pc[r] \in Writing /\ wrote[r] # "waiting")
         /\ \E u \in BOOLEAN :
               /\ Closes(r, u)
               /\ pc[r] \notin {"toolend", "reply"} => u = (outcome = "intent")
               /\ pc[r] = "reply" => u
<1>1. pc[r] \in Writing \cup Waiting => active = r
  BY DEF TypeOK
<1>2. CASE Fails(r) /\ pc[r] \in {"body", "turn"}
  BY <1>1, <1>2 DEF Fails, Waiting
<1>3. CASE WriteFails(r)
  <2>1. pc[r] \in Writing /\ wrote[r] # "waiting" /\ Closes(r, outcome = "intent")
    BY <1>3 DEF WriteFails, Fails
  <2> QED
    BY <1>1, <2>1 DEF Writing
<1>4. CASE WrittenToolEnd(r)
  BY <1>1, <1>4 DEF WrittenToolEnd, Writing
<1>5. CASE pc[r] = "reply" /\ Closes(r, TRUE)
  BY <1>1, <1>5 DEF Waiting
<1> QED
  BY <1>2, <1>3, <1>4, <1>5 DEF Closing, BodyRefused, TurnRefused, TimesOut

LEMMA OutsideEnds ==
  ASSUME TypeOK, Outside
  PROVE  /\ UNCHANGED <<pc, active, delivered>>
         /\ gone' \subseteq Requests /\ stopping' \in {"none", "closing", "over"}
         /\ malformed' \in BOOLEAN /\ (malformed => malformed')
         /\ \E u, k \in BOOLEAN :
               /\ Ends(None, u, k)
               /\ k => outcome = "final" /\ active = None
               /\ ~u => active = None \/ malformed'
<1>1. CASE \E r \in Requests : Disconnects(r)
  <2>1. malformed' = malformed /\ Ends(None, TRUE, FALSE)
    BY <1>1 DEF Disconnects
  <2>2. UNCHANGED <<pc, active, delivered, stopping>> /\ gone' \subseteq Requests
    BY <1>1 DEF Disconnects, TypeOK
  <2> QED
    BY <2>1, <2>2 DEF TypeOK
<1>2. CASE ClientErrs
  <2>1. malformed' = TRUE /\ Ends(None, FALSE, FALSE)
    BY <1>2 DEF ClientErrs
  <2>2. UNCHANGED <<pc, active, delivered, gone, stopping>>
    BY <1>2 DEF ClientErrs
  <2> QED
    BY <2>1, <2>2 DEF TypeOK
<1>3. CASE Stops
  <2> DEFINE u == active # None
             k == outcome = "final" /\ active = None
  <2>1. u \in BOOLEAN /\ k \in BOOLEAN /\ Ends(None, u, k)
    BY <1>3 DEF Stops
  <2>2. (k => outcome = "final" /\ active = None) /\ (~u => active = None \/ malformed')
    OBVIOUS
  <2>3. \E x, y \in BOOLEAN :
           /\ Ends(None, x, y)
           /\ y => outcome = "final" /\ active = None
           /\ ~x => active = None \/ malformed'
    <3> HIDE DEF u, k
    <3> QED
      BY <2>1, <2>2
  <2> QED
    BY <1>3, <2>3 DEF TypeOK, Stops
<1> QED
  BY <1>1, <1>2, <1>3 DEF Outside

LEMMA GoingGoes ==
  ASSUME TypeOK, NEW r \in Requests, Going(r)
  PROVE  /\ active = r /\ ~terminal
         /\ pc[r] \in {"body", "turn"} \/ (pc[r] = "continue" /\ wrote[r] = "ok")
         /\ \E op \in Writes, to \in Writing :
               /\ Goes(r, to, op)
               /\ \/ to = "intent" /\ outcome' = "intent" /\ settled' = FALSE
                  \/ to \in {"continue", "toolend"} /\ outcome' = "awaiting"
                     /\ calls' = calls /\ settled' = settled /\ outcome = "awaiting"
                  \/ to = "offer" /\ outcome' \in {"awaiting", "final"} /\ offered' = TRUE
                     /\ settled' = TRUE
<1>1. pc[r] \in Writing \cup Waiting => active = r
  BY DEF TypeOK
<1>2. ASSUME NEW f \in BOOLEAN, Intends(r, f)
      PROVE  /\ ~terminal /\ outcome' = "intent" /\ settled' = FALSE
             /\ \E op \in Writes : Goes(r, "intent", op)
  BY <1>2, IntendsGoes DEF Intends
<1>3. CASE BodyOpens(r)
  BY <1>1, <1>2, <1>3 DEF BodyOpens, Writing, Waiting
<1>4. CASE WrittenContinue(r)
  BY <1>1, <1>2, <1>4 DEF WrittenContinue, Writing, TypeOK
<1>5. CASE BodyContinues(r)
  BY <1>1, <1>5, ContinuesGoes DEF BodyContinues, Writing, Waiting
<1>6. CASE TurnOffers(r)
  BY <1>1, <1>6, OffersGoes DEF TurnOffers, Writing, Waiting
<1> QED
  BY <1>3, <1>4, <1>5, <1>6 DEF Going

-----------------------------------------------------------------------------
(* Types.                                                                  *)

LEMMA AmissType ==
  ASSUME TypeOK, ~terminal => generation = 0, NEW r \in Requests, ArrivesAmiss(r)
  PROVE  TypeOK'
<1>1. \E u \in BOOLEAN : Ends(r, u, FALSE)
  BY DEF ArrivesAmiss
<1>2. /\ outcome' \in Outcomes /\ terminal' \in BOOLEAN /\ generation' \in 0..1
      /\ taken' \in Nat /\ queue' \in Seq(Writes)
      /\ wrote' \in [Requests -> {"none", "waiting", "ok", "failed"}]
      /\ UNCHANGED <<calls, settled, offered, step, disk>>
  BY <1>1, EndsType
<1>3. pc[r] = "away" /\ (pc' = [pc EXCEPT ![r] = "done"] \/ pc' = [pc EXCEPT ![r] = "refused"])
  BY DEF ArrivesAmiss
<1>4. UNCHANGED <<active, stopping, malformed, delivered, gone>>
  BY DEF ArrivesAmiss
<1> QED
  BY <1>2, <1>3, <1>4 DEF TypeOK, Writing, Waiting

LEMMA OutsideType ==
  ASSUME TypeOK, ~terminal => generation = 0, Outside
  PROVE  TypeOK'
<1>1. \E u, k \in BOOLEAN : Ends(None, u, k)
  BY OutsideEnds
<1>2. /\ outcome' \in Outcomes /\ terminal' \in BOOLEAN /\ generation' \in 0..1
      /\ taken' \in Nat /\ queue' \in Seq(Writes)
      /\ wrote' \in [Requests -> {"none", "waiting", "ok", "failed"}]
      /\ UNCHANGED <<calls, settled, offered, step, disk>>
  BY <1>1, EndsType
<1> QED
  BY <1>2, OutsideEnds DEF TypeOK

LEMMA ErrsType ==
  ASSUME TypeOK, ~terminal => generation = 0, NEW r \in Requests, TurnErrs(r)
  PROVE  TypeOK'
<1>1. PICK op \in Writes : Labels(r, op)
  BY ErrsEffect
<1>2. /\ taken' \in Nat /\ queue' \in Seq(Writes)
      /\ wrote' \in [Requests -> {"none", "waiting", "ok", "failed"}]
  BY <1>1, AppendsEffect DEF Labels
<1>3. generation' \in 0..1
  BY <1>1 DEF Labels
<1> QED
  BY <1>2, <1>3 DEF TypeOK, TurnErrs, Outcomes, Waiting, Writing

LEMMA MovesType ==
  ASSUME TypeOK, NEW r \in Requests, Moves(r)
  PROVE  TypeOK'
<1> USE DEF TypeOK, Writing, Waiting, stateVars, journalVars, sessionVars
<1>1. CASE Arrives(r)
  BY <1>1 DEF Arrives
<1>2. CASE WrittenIntent(r)
  BY <1>2 DEF WrittenIntent
<1>3. CASE WrittenOffer(r)
  BY <1>3 DEF WrittenOffer
<1>4. CASE ReplyFinishes(r)
  BY <1>4 DEF ReplyFinishes, Leaves
<1>5. CASE Closed(r)
  BY <1>5 DEF Closed, Leaves
<1> QED
  BY <1>1, <1>2, <1>3, <1>4, <1>5 DEF Moves

LEMMA ChainType ==
  ASSUME TypeOK, Chain
  PROVE  TypeOK'
<1> USE DEF journalRest, stateVars, sessionVars
<1>1. CASE WriteGoesOn
  BY <1>1 DEF WriteGoesOn, TypeOK
<1>2. ASSUME queue # <<>>, queue' = Tail(queue), NEW how \in {"ok", "failed"}, Told(Head(queue), how)
      PROVE  /\ queue' \in Seq(Writes) /\ Head(queue) \in Writes
             /\ wrote' \in [Requests -> {"none", "waiting", "ok", "failed"}]
  <2>1. queue' \in Seq(Writes) /\ Head(queue) \in Writes
    BY <1>2, TailWrites DEF TypeOK
  <2> QED
    BY <1>2, <2>1 DEF Told, TypeOK, Writes
<1>3. CASE WriteDropped
  BY <1>2, <1>3 DEF WriteDropped, TypeOK
<1>4. CASE WriteLands
  BY <1>2, <1>4 DEF WriteLands, TypeOK, Writes
<1>5. CASE WriteExpires
  <2>1. PICK i \in DOMAIN queue :
           /\ queue' = [queue EXCEPT ![i].expired = TRUE]
           /\ Told(queue[i], "failed")
           /\ UNCHANGED <<journalRest, step, disk>>
    BY <1>5 DEF WriteExpires
  <2>2. queue \in Seq(Writes) /\ queue[i] \in Writes
    BY ElementOfSeq, LenProperties DEF TypeOK
  <2>3. queue' \in Seq(Writes)
    BY <2>1, <2>2, ExpireWrites
  <2>4. wrote' \in [Requests -> {"none", "waiting", "ok", "failed"}]
    BY <2>1, <2>2 DEF Told, TypeOK, Writes
  <2> QED
    BY <2>1, <2>3, <2>4 DEF TypeOK
<1> QED
  BY <1>1, <1>3, <1>4, <1>5 DEF Chain

LEMMA TypeStep ==
  ASSUME TypeOK, ~terminal => generation = 0, Next
  PROVE  TypeOK'
<1>1. ASSUME NEW r \in Requests, Closing(r)
      PROVE  TypeOK'
  BY <1>1, ClosingCloses, ClosesType
<1>2. ASSUME NEW r \in Requests, Going(r)
      PROVE  TypeOK'
  BY <1>2, GoingGoes, GoesType
<1>3. CASE StopReturns
  BY <1>3 DEF StopReturns, TypeOK, stateVars, requestVars, journalVars
<1> QED
  BY <1>1, <1>2, <1>3, Kinds, MovesType, AmissType, ErrsType, OutsideType, ChainType

-----------------------------------------------------------------------------
(* Labels.                                                                 *)

LEMMA ClosingLabels ==
  ASSUME TypeOK, Labelled, LabelIsTrue, NEW r \in Requests, Closing(r)
  PROVE  Labelled' /\ LabelIsTrue'
<1>1. PICK u \in BOOLEAN :
         /\ Closes(r, u)
         /\ pc[r] \notin {"toolend", "reply"} => u = (outcome = "intent")
         /\ pc[r] = "reply" => u
  BY ClosingCloses
<1>2. active = r /\ pc[r] \in Writing \cup Waiting /\ r # None
  BY ClosingCloses, NoneAssumption DEF Waiting
<1>3. Ends(r, u, FALSE) /\ UNCHANGED <<malformed, delivered>>
  BY <1>1 DEF Closes
<1>4. /\ terminal' = TRUE /\ settled' = settled
      /\ \/ terminal /\ outcome' = outcome
         \/ ~terminal /\ outcome' = (IF u THEN "uncertain" ELSE "terminal")
  BY <1>3, EndsEffect DEF Labelled, Nothing
<1>5. LabelIsTrue'
  <2>1. CASE terminal
    BY <1>2, <1>3, <1>4, <2>1 DEF LabelIsTrue
  <2>2. CASE ~terminal
    BY <1>1, <1>2, <1>3, <1>4, <2>2 DEF LabelIsTrue, Labelled
  <2> QED
    BY <2>1, <2>2
<1> QED
  BY <1>4, <1>5 DEF Labelled

LEMMA AmissLabels ==
  ASSUME TypeOK, Labelled, LabelIsTrue, NEW r \in Requests, ArrivesAmiss(r)
  PROVE  Labelled' /\ LabelIsTrue'
<1>1. PICK u \in BOOLEAN : Ends(r, u, FALSE) /\ (~u => active = None \/ outcome = "final")
  BY DEF ArrivesAmiss
<1>2. UNCHANGED <<active, malformed, delivered>>
  BY DEF ArrivesAmiss
<1>3. /\ terminal' = TRUE /\ UNCHANGED <<settled, calls>>
      /\ \/ terminal /\ outcome' = outcome
         \/ ~terminal /\ outcome' = (IF u THEN "uncertain" ELSE "terminal")
  BY <1>1, EndsEffect DEF Labelled, Nothing
<1>4. LabelIsTrue'
  BY <1>1, <1>2, <1>3 DEF LabelIsTrue, Labelled
<1> QED
  BY <1>3, <1>4 DEF Labelled

LEMMA OutsideLabels ==
  ASSUME TypeOK, Labelled, LabelIsTrue, Outside
  PROVE  Labelled' /\ LabelIsTrue'
<1>1. PICK u \in BOOLEAN, k \in BOOLEAN :
         /\ Ends(None, u, k)
         /\ k => outcome = "final" /\ active = None
         /\ ~u => active = None \/ malformed'
  BY OutsideEnds
<1>2. UNCHANGED <<active, delivered>> /\ (malformed => malformed')
  BY OutsideEnds
<1>3. /\ terminal' = TRUE /\ UNCHANGED <<settled, calls>>
      /\ \/ (terminal \/ k) /\ outcome' = outcome
         \/ ~terminal /\ outcome' = (IF u THEN "uncertain" ELSE "terminal")
  BY <1>1, EndsEffect DEF Labelled, Nothing
<1>4. LabelIsTrue'
  BY <1>1, <1>2, <1>3 DEF LabelIsTrue, Labelled
<1> QED
  BY <1>3, <1>4 DEF Labelled

LEMMA GoingLabels ==
  ASSUME TypeOK, Labelled, LabelIsTrue, NEW r \in Requests, Going(r)
  PROVE  Labelled' /\ LabelIsTrue'
<1>1. PICK op \in Writes, to \in Writing :
         /\ Goes(r, to, op)
         /\ \/ to = "intent" /\ outcome' = "intent" /\ settled' = FALSE
            \/ to \in {"continue", "toolend"} /\ outcome' = "awaiting"
               /\ calls' = calls /\ settled' = settled /\ outcome = "awaiting"
            \/ to = "offer" /\ outcome' \in {"awaiting", "final"} /\ offered' = TRUE
               /\ settled' = TRUE
  BY GoingGoes
<1>2. active = r /\ ~terminal /\ r # None
  BY GoingGoes, NoneAssumption
<1>3. /\ UNCHANGED <<active, terminal, malformed, delivered, generation>>
      /\ pc' = [pc EXCEPT ![r] = to]
  BY <1>1 DEF Goes, sessionVars
<1>4. \A q \in Requests : q # r => pc[q] \notin Writing \cup Waiting \cup {"closing"}
  BY <1>2 DEF TypeOK
<1>5. \A q \in Requests :
         /\ pc'[q] = "closing" => terminal'
         /\ pc'[q] = "toolend" /\ ~terminal' => outcome' = "awaiting"
         /\ pc'[q] \in {"offer", "reply"} /\ ~terminal' => outcome' \in {"awaiting", "final"}
  BY <1>1, <1>3, <1>4 DEF TypeOK, Writing, Waiting
<1> QED
  BY <1>1, <1>2, <1>3, <1>5 DEF Labelled, LabelIsTrue

LEMMA MovesLabels ==
  ASSUME TypeOK, Labelled, LabelIsTrue, NEW r \in Requests, Moves(r)
  PROVE  Labelled' /\ LabelIsTrue'
<1> USE DEF TypeOK, Labelled, LabelIsTrue, Writing, Waiting, stateVars, journalVars, sessionVars
<1>1. CASE Arrives(r)
  BY <1>1, NoneAssumption DEF Arrives
<1>2. CASE WrittenIntent(r)
  BY <1>2 DEF WrittenIntent
<1>3. CASE WrittenOffer(r)
  BY <1>3 DEF WrittenOffer
<1>4. CASE ReplyFinishes(r)
  BY <1>4, NoneAssumption DEF ReplyFinishes, Leaves
<1>5. CASE Closed(r)
  BY <1>5, NoneAssumption DEF Closed, Leaves
<1> QED
  BY <1>1, <1>2, <1>3, <1>4, <1>5 DEF Moves

LEMMA LabelStep ==
  ASSUME TypeOK, Labelled, LabelIsTrue, Next
  PROVE  Labelled' /\ LabelIsTrue'
<1>1. ASSUME NEW r \in Requests, TurnErrs(r)
      PROVE  Labelled' /\ LabelIsTrue'
  BY <1>1 DEF TurnErrs, Labelled, LabelIsTrue
<1>2. CASE StopReturns
  BY <1>2 DEF StopReturns, stateVars, requestVars, journalVars, Labelled, LabelIsTrue
<1>3. CASE Chain
  BY <1>3 DEF Chain, WriteGoesOn, WriteDropped, WriteLands, WriteExpires, journalRest,
              stateVars, sessionVars, Labelled, LabelIsTrue
<1> QED
  BY <1>1, <1>2, <1>3, Kinds, ClosingLabels, AmissLabels, OutsideLabels, GoingLabels, MovesLabels

-----------------------------------------------------------------------------
(* The chain.                                                              *)

(* What a step that is not the chain's own does to the handlers whose       *)
(* record must be on disk: it lets one go on whose write is done ...        *)
Still == {"away", "body", "turn", "reply"}
Rests ==
    /\ UNCHANGED <<taken, queue, wrote, disk, calls, offered>>
    /\ \A r \in Requests :
          /\ pc'[r] \in Still => wrote[r] # "waiting"
          /\ pc'[r] \in Dispatching \cup Offering =>
                \/ pc'[r] = pc[r]
                \/ pc[r] = "intent" /\ pc'[r] = "turn" /\ wrote[r] = "ok"
                \/ pc[r] = "offer" /\ pc'[r] = "reply" /\ wrote[r] = "ok"

(* ... or one waits for its first write, with its record, or any write is   *)
(* a label, which takes nothing back of what is recorded.                  *)
Takes(op) ==
    /\ wrote[op.who] # "waiting" /\ pc'[op.who] \notin Still
    /\ pc'[op.who] \in Dispatching \cup Offering =>
          /\ op.value.calls = calls'
          /\ \/ pc'[op.who] = "intent" /\ op.value.outcome = "intent"
             \/ pc'[op.who] = "offer" /\ op.value.offered /\ offered'
Passes(op, r) ==
    /\ pc'[r] \in Still => pc[r] \in Still
    /\ pc'[r] \in Dispatching \cup Offering =>
          /\ pc'[r] = pc[r] /\ UNCHANGED <<calls, offered>>
          /\ op.value.calls = calls /\ op.value.offered = offered
          /\ op.value.outcome \in {"uncertain", "terminal"}
Adds(op) ==
    /\ Appends(op) /\ disk' = disk
    /\ op.who # None => Takes(op)
    /\ \A r \in Requests : r # op.who => Passes(op, r)

(* A step that leaves a label, for a handler that takes it, or nobody.     *)
LEMMA LabelAdds ==
  ASSUME OneWrite, NEW who \in Requests \cup {None}, NEW op \in Writes, Labels(who, op),
         UNCHANGED <<disk, calls, offered>>,
         who # None => /\ wrote[who] # "waiting"
                       /\ pc'[who] \notin Still \cup Dispatching \cup Offering,
         \A q \in Requests : q # who => pc'[q] = pc[q]
  PROVE  Adds(op)
<1>1. op.who = who
  BY DEF Labels
<1>2. who # None => Takes(op)
  BY <1>1 DEF Takes
<1>3. ASSUME NEW q \in Requests, q # who
      PROVE  Passes(op, q)
  BY <1>3 DEF Passes, Labels
<1> QED
  BY <1>1, <1>2, <1>3 DEF Adds, Labels

LEMMA OffChain ==
  ASSUME TypeOK, Labelled, OneWrite, Next, ~Chain
  PROVE  Rests \/ \E op \in Writes : Adds(op)
<1> USE DEF Still, Dispatching, Offering
<1>1. ASSUME NEW r \in Requests, NEW u \in BOOLEAN, Ends(r, u, FALSE), wrote[r] # "waiting",
             pc' = [pc EXCEPT ![r] = "done"] \/ pc' = [pc EXCEPT ![r] = "closing"]
                                            \/ pc' = [pc EXCEPT ![r] = "refused"]
      PROVE  Rests \/ \E op \in Writes : Adds(op)
  <2>1. \A q \in Requests : q # r => pc'[q] = pc[q]
    BY <1>1 DEF TypeOK
  <2>2. pc'[r] \notin Still \cup Dispatching \cup Offering
    BY <1>1 DEF TypeOK
  <2>3. UNCHANGED <<disk, calls, offered>>
    BY <1>1, EndsEffect DEF Labelled
  <2>4. CASE Nothing
    BY <2>1, <2>2, <2>3, <2>4 DEF Nothing, Rests, OneWrite
  <2>5. ASSUME NEW op \in Writes, Labels(r, op)
        PROVE  Adds(op)
    BY <1>1, <2>1, <2>2, <2>3, <2>5, LabelAdds
  <2> QED
    BY <1>1, <2>4, <2>5, EndsEffect DEF Labelled
<1>2. ASSUME NEW r \in Requests, Closing(r)
      PROVE  Rests \/ \E op \in Writes : Adds(op)
  <2>1. PICK u \in BOOLEAN : Closes(r, u)
    BY <1>2, ClosingCloses
  <2>2. wrote[r] # "waiting"
    BY <1>2, ClosingCloses DEF OneWrite
  <2> QED
    BY <1>1, <2>1, <2>2 DEF Closes
<1>3. ASSUME NEW r \in Requests, ArrivesAmiss(r)
      PROVE  Rests \/ \E op \in Writes : Adds(op)
  <2>1. PICK u \in BOOLEAN : Ends(r, u, FALSE)
    BY <1>3 DEF ArrivesAmiss
  <2>2. wrote[r] # "waiting"
    BY <1>3 DEF OneWrite, ArrivesAmiss
  <2>3. pc' = [pc EXCEPT ![r] = "done"] \/ pc' = [pc EXCEPT ![r] = "refused"]
    BY <1>3 DEF ArrivesAmiss
  <2> QED
    BY <1>1, <2>1, <2>2, <2>3
<1>4. CASE Outside
  <2>1. PICK u \in BOOLEAN, k \in BOOLEAN : Ends(None, u, k)
    BY <1>4, OutsideEnds
  <2>2. pc' = pc
    BY <1>4, OutsideEnds
  <2>3. UNCHANGED <<disk, calls, offered>>
    BY <2>1, EndsEffect DEF Labelled
  <2>4. CASE Nothing
    BY <2>2, <2>3, <2>4 DEF Nothing, Rests, OneWrite
  <2>5. ASSUME NEW op \in Writes, Labels(None, op)
        PROVE  Adds(op)
    BY <2>2, <2>3, <2>5, LabelAdds
  <2> QED
    BY <2>1, <2>4, <2>5, EndsEffect DEF Labelled
<1>5. ASSUME NEW r \in Requests, Going(r)
      PROVE  Rests \/ \E op \in Writes : Adds(op)
  <2>1. PICK op \in Writes, to \in Writing :
           /\ Goes(r, to, op)
           /\ \/ to = "intent" /\ outcome' = "intent"
              \/ to \in {"continue", "toolend"}
              \/ to = "offer" /\ offered' = TRUE
    BY <1>5, GoingGoes
  <2>2. wrote[r] # "waiting" /\ active = r
    BY <1>5, GoingGoes DEF OneWrite
  <2>3. pc'[r] = to /\ \A q \in Requests : q # r => pc'[q] = pc[q]
    BY <2>1 DEF Goes, TypeOK
  <2>4. \A q \in Requests : q # r => pc[q] \notin Dispatching \cup Offering
    BY <2>2 DEF TypeOK, Writing, Waiting
  <2>5. op.who = r /\ disk' = disk /\ Appends(op)
    BY <2>1 DEF Goes
  <2>6. Takes(op)
    BY <2>1, <2>2, <2>3, <2>5 DEF Takes, Goes, Writing
  <2>7. \A q \in Requests : q # r => Passes(op, q)
    BY <2>3, <2>4 DEF Passes
  <2> QED
    BY <2>5, <2>6, <2>7 DEF Adds
<1>6. ASSUME NEW r \in Requests, TurnErrs(r)
      PROVE  Rests \/ \E op \in Writes : Adds(op)
  <2>1. PICK op \in Writes : Labels(r, op)
    BY <1>6, ErrsEffect DEF Labelled
  <2>2. wrote[r] # "waiting" /\ UNCHANGED <<disk, calls, offered>>
    BY <1>6 DEF OneWrite, TurnErrs
  <2>3. pc'[r] = "closing" /\ \A q \in Requests : q # r => pc'[q] = pc[q]
    BY <1>6 DEF TurnErrs, TypeOK
  <2> QED
    BY <2>1, <2>2, <2>3, LabelAdds
<1>7. ASSUME NEW r \in Requests, Moves(r)
      PROVE  Rests
  <2> USE DEF TypeOK, OneWrite, Rests, journalVars, stateVars
  <2>1. CASE Arrives(r)
    BY <2>1 DEF Arrives
  <2>2. CASE WrittenIntent(r)
    BY <2>2 DEF WrittenIntent
  <2>3. CASE WrittenOffer(r)
    BY <2>3 DEF WrittenOffer
  <2>4. CASE ReplyFinishes(r)
    BY <2>4 DEF ReplyFinishes
  <2>5. CASE Closed(r)
    BY <2>5 DEF Closed
  <2> QED
    BY <1>7, <2>1, <2>2, <2>3, <2>4, <2>5 DEF Moves
<1>8. CASE StopReturns
  BY <1>8 DEF StopReturns, stateVars, requestVars, journalVars, Rests, OneWrite
<1> QED
  BY <1>2, <1>3, <1>4, <1>5, <1>6, <1>7, <1>8, Kinds

LEMMA ChainOrder ==
  ASSUME TypeOK, InOrder, Chain
  PROVE  InOrder'
<1>1. queue \in Seq(Writes) /\ Len(queue) \in Nat /\ taken \in Nat /\ disk \in Snapshots
  BY LenProperties DEF TypeOK
<1>2. \A i \in 1..Len(queue) : queue[i].value \in Snapshots
  <2>1. \A i \in 1..Len(queue) : queue[i] \in Writes
    BY <1>1, ElementOfSeq
  <2> QED
    BY <2>1 DEF Writes
<1>3. taken' = taken
  BY DEF Chain, WriteGoesOn, WriteDropped, WriteLands, WriteExpires, journalRest
<1>4. CASE WriteGoesOn
  BY <1>3, <1>4 DEF WriteGoesOn, InOrder
<1>5. CASE WriteDropped \/ WriteLands
  <2>1. queue # <<>> /\ queue' = Tail(queue) /\ disk' \in {disk, queue[1].value}
    BY <1>1, <1>5, TailWrites DEF WriteDropped, WriteLands
  <2>2. /\ Len(queue) \in Nat \ {0} /\ Len(queue') = Len(queue) - 1
        /\ \A i \in 1..Len(queue') : queue'[i] = queue[i + 1]
    BY <1>1, <2>1, TailWrites
  <2>3. \A i \in 1..Len(queue') : i + 1 \in 1..Len(queue) /\ 1 < i + 1 /\ 1 \in 1..Len(queue)
    BY <2>2
  <2>4. disk'.n <= taken'
    BY <1>1, <1>2, <1>3, <2>1, <2>2 DEF InOrder
  <2>5. \A i \in 1..Len(queue') : disk'.n < queue'[i].value.n /\ queue'[i].value.n <= taken'
    BY <1>3, <2>1, <2>2, <2>3 DEF InOrder
  <2>6. \A i, j \in 1..Len(queue') : i < j => queue'[i].value.n < queue'[j].value.n
    BY <2>2, <2>3 DEF InOrder
  <2> QED
    BY <2>4, <2>5, <2>6 DEF InOrder
<1>6. CASE WriteExpires
  <2>1. disk' = disk
    BY <1>6 DEF WriteExpires
  <2>2. Len(queue') = Len(queue) /\ \A j \in 1..Len(queue) : queue'[j].value = queue[j].value
    BY <1>1, <1>6, ExpireWrites DEF WriteExpires
  <2> QED
    BY <1>3, <2>1, <2>2 DEF InOrder
<1> QED
  BY <1>4, <1>5, <1>6 DEF Chain

LEMMA OrderStep ==
  ASSUME TypeOK, Labelled, OneWrite, InOrder, Next
  PROVE  InOrder'
<1>1. taken \in Nat /\ disk \in Snapshots
  BY DEF TypeOK
<1>2. CASE Rests
  BY <1>2 DEF Rests, InOrder
<1>3. ASSUME NEW op \in Writes, Adds(op)
      PROVE  InOrder'
  <2>1. /\ Len(queue) \in Nat /\ Len(queue') = Len(queue) + 1
        /\ \A i \in 1..Len(queue) : queue'[i] = queue[i]
        /\ queue'[Len(queue) + 1] = op
    BY <1>3, AppendsEffect DEF Adds
  <2>2. op.value.n = taken + 1 /\ taken' = taken + 1 /\ disk' = disk
    BY <1>3 DEF Adds, Appends
  <2>3. \A i \in 1..Len(queue) : queue[i].value.n \in Nat
    <3>1. \A i \in 1..Len(queue) : queue[i] \in Writes
      BY ElementOfSeq DEF TypeOK
    <3> QED
      BY <3>1 DEF Writes, Snapshots
  <2>4. disk'.n <= taken' /\ disk.n \in Nat
    BY <1>1, <2>2 DEF InOrder, Snapshots
  <2>5. \A i \in 1..Len(queue') : disk'.n < queue'[i].value.n /\ queue'[i].value.n <= taken'
    <3> SUFFICES ASSUME NEW i \in 1..Len(queue')
                 PROVE  disk'.n < queue'[i].value.n /\ queue'[i].value.n <= taken'
      OBVIOUS
    <3>1. CASE i \in 1..Len(queue)
      BY <1>1, <2>1, <2>2, <2>3, <2>4, <3>1 DEF InOrder
    <3>2. CASE i = Len(queue) + 1
      BY <1>1, <2>1, <2>2, <2>4, <3>2 DEF InOrder
    <3> QED
      BY <2>1, <3>1, <3>2
  <2>6. \A i, j \in 1..Len(queue') : i < j => queue'[i].value.n < queue'[j].value.n
    <3> SUFFICES ASSUME NEW i \in 1..Len(queue'), NEW j \in 1..Len(queue'), i < j
                 PROVE  queue'[i].value.n < queue'[j].value.n
      OBVIOUS
    <3>1. i \in 1..Len(queue)
      BY <2>1
    <3>2. CASE j \in 1..Len(queue)
      BY <2>1, <3>1, <3>2 DEF InOrder
    <3>3. CASE j = Len(queue) + 1
      <4>1. queue'[i].value.n = queue[i].value.n /\ queue'[j].value.n = taken + 1
        BY <2>1, <2>2, <3>1, <3>3
      <4>2. queue[i].value.n \in Nat /\ queue[i].value.n <= taken
        BY <2>3, <3>1 DEF InOrder
      <4> QED
        BY <1>1, <4>1, <4>2
    <3> QED
      BY <2>1, <3>2, <3>3
  <2> QED
    BY <2>4, <2>5, <2>6 DEF InOrder
<1> QED
  BY <1>2, <1>3, OffChain, ChainOrder

(* A step of the chain: the running write leaves it, or another one's      *)
(* caller is told that it failed.                                          *)
LEMMA ChainKinds ==
  ASSUME TypeOK, Chain
  PROVE  /\ UNCHANGED <<pc, calls, offered>>
         /\ \/ UNCHANGED <<queue, wrote, disk>>
            \/ \E how \in {"ok", "failed"} :
                  /\ queue # <<>> /\ queue' = Tail(queue)
                  /\ Told(queue[1], how)
                  /\ disk' = IF how = "ok" THEN queue[1].value ELSE disk
            \/ \E k \in 1..Len(queue) :
                  /\ ~queue[k].expired
                  /\ queue' = [queue EXCEPT ![k].expired = TRUE]
                  /\ Told(queue[k], "failed")
                  /\ disk' = disk
<1>1. queue \in Seq(Writes) /\ DOMAIN queue = 1..Len(queue)
  BY LenProperties DEF TypeOK
<1>2. queue # <<>> => Head(queue) = queue[1]
  BY <1>1, TailWrites
<1>3. UNCHANGED <<pc, calls, offered>>
  BY DEF Chain, WriteGoesOn, WriteDropped, WriteLands, WriteExpires, journalRest, stateVars
<1>4. CASE WriteGoesOn
  BY <1>3, <1>4 DEF WriteGoesOn
<1>5. CASE WriteDropped
  BY <1>2, <1>3, <1>5 DEF WriteDropped
<1>6. CASE WriteLands
  BY <1>2, <1>3, <1>6 DEF WriteLands
<1>7. CASE WriteExpires
  BY <1>1, <1>3, <1>7 DEF WriteExpires
<1> QED
  BY <1>4, <1>5, <1>6, <1>7 DEF Chain

(* The running write leaves: the others move up, and only who waited for   *)
(* it hears of it.                                                         *)
LEMMA LeavesChain ==
  ASSUME TypeOK, OneWrite, NEW how \in {"ok", "failed"}, queue # <<>>, queue' = Tail(queue), Told(queue[1], how)
  PROVE  /\ Len(queue) \in Nat \ {0} /\ 1 \in 1..Len(queue)
         /\ \A i \in 1..Len(queue') : i + 1 \in 1..Len(queue) /\ queue'[i] = queue[i + 1] /\ i + 1 # 1
         /\ \A i, j \in 1..Len(queue') : (i <= j => i + 1 <= j + 1) /\ (i + 1 = j + 1 => i = j)
         /\ \A r \in Requests :
               /\ Awaited(queue[1], r) => wrote'[r] = how /\ wrote[r] = "waiting"
               /\ ~Awaited(queue[1], r) => wrote'[r] = wrote[r]
<1>1. queue \in Seq(Writes)
  BY DEF TypeOK
<1>2. /\ Len(queue) \in Nat \ {0} /\ Len(queue') = Len(queue) - 1
      /\ \A i \in 1..Len(queue') : queue'[i] = queue[i + 1]
  BY <1>1, TailWrites
<1>3. 1 \in 1..Len(queue)
  BY <1>2
<1>4. \A i \in 1..Len(queue') : i + 1 \in 1..Len(queue) /\ i + 1 # 1
  BY <1>2
<1>5. queue[1] \in Writes
  BY <1>1, <1>3, ElementOfSeq
<1>6. queue[1].who \in Requests \cup {None} /\ queue[1].expired \in BOOLEAN
  BY <1>5 DEF Writes
<1>7. ASSUME NEW r \in Requests
      PROVE  /\ Awaited(queue[1], r) => wrote'[r] = how /\ wrote[r] = "waiting"
             /\ ~Awaited(queue[1], r) => wrote'[r] = wrote[r]
  BY <1>3, <1>6, NoneAssumption DEF Told, Awaited, OneWrite, TypeOK
<1> QED
  BY <1>2, <1>3, <1>4, <1>7

(* A caller is told: the chain stays as it is, and nobody waits for that   *)
(* write.                                                                  *)
LEMMA ExpiresChain ==
  ASSUME TypeOK, OneWrite, NEW k \in 1..Len(queue), ~queue[k].expired,
         queue' = [queue EXCEPT ![k].expired = TRUE], Told(queue[k], "failed")
  PROVE  /\ Len(queue') = Len(queue)
         /\ \A i \in 1..Len(queue) :
               /\ queue'[i].value = queue[i].value
               /\ \A r \in Requests : Awaited(queue'[i], r) <=> i # k /\ Awaited(queue[i], r)
         /\ \A r \in Requests :
               /\ queue[k].who = r => wrote'[r] = "failed" /\ wrote[r] = "waiting"
               /\ queue[k].who # r => wrote'[r] = wrote[r]
<1>1. queue \in Seq(Writes) /\ k \in DOMAIN queue
  BY LenProperties DEF TypeOK
<1>2. /\ queue' \in Seq(Writes)
      /\ Len(queue') = Len(queue)
      /\ \A j \in 1..Len(queue) : /\ queue'[j].who = queue[j].who
                                  /\ queue'[j].value = queue[j].value
                                  /\ queue'[j].expired = (IF j = k THEN TRUE ELSE queue[j].expired)
  BY <1>1, ExpireWrites
<1>3. queue[k] \in Writes
  BY <1>1, ElementOfSeq
<1>4. queue[k].who \in Requests \cup {None}
  BY <1>3 DEF Writes
<1>5. ASSUME NEW r \in Requests
      PROVE  /\ queue[k].who = r => wrote'[r] = "failed" /\ wrote[r] = "waiting"
             /\ queue[k].who # r => wrote'[r] = wrote[r]
  BY <1>4, NoneAssumption DEF Told, Awaited, OneWrite, TypeOK
<1>6. \A i \in 1..Len(queue), r \in Requests :
         Awaited(queue'[i], r) <=> i # k /\ Awaited(queue[i], r)
  BY <1>2 DEF Awaited
<1> QED
  BY <1>2, <1>5, <1>6

LEMMA WaitStep ==
  ASSUME TypeOK, Labelled, OneWrite, Next
  PROVE  OneWrite'
<1>1. CASE Rests
  BY <1>1 DEF Rests, OneWrite, Awaited, Still
<1>2. ASSUME NEW op \in Writes, Adds(op)
      PROVE  OneWrite'
  <2>1. /\ Len(queue) \in Nat /\ Len(queue') = Len(queue) + 1
        /\ \A i \in 1..Len(queue) : queue'[i] = queue[i]
        /\ queue'[Len(queue) + 1] = op
    BY <1>2, AppendsEffect DEF Adds
  <2>2. op.who \in Requests \cup {None}
    BY DEF Writes
  <2> SUFFICES ASSUME NEW r \in Requests
               PROVE  /\ pc'[r] \in Still => wrote'[r] # "waiting"
                      /\ \A i \in 1..Len(queue') : Awaited(queue'[i], r) => wrote'[r] = "waiting"
                      /\ \A i, j \in 1..Len(queue') : Awaited(queue'[i], r) /\ Awaited(queue'[j], r) => i = j
    BY DEF OneWrite, Awaited, Still
  <2>3. /\ op.who = r => wrote'[r] = "waiting" /\ wrote[r] # "waiting" /\ pc'[r] \notin Still
        /\ op.who # r => wrote'[r] = wrote[r] /\ (pc'[r] \in Still => pc[r] \in Still)
    BY <1>2, <2>2, NoneAssumption DEF Adds, Takes, Passes, Appends, TypeOK
  <2>4. \A i \in 1..Len(queue') : i \in 1..Len(queue) \/ i = Len(queue) + 1
    BY <2>1
  <2>5. pc'[r] \in Still => wrote'[r] # "waiting"
    BY <2>3 DEF OneWrite, Still
  <2>6. Awaited(op, r) => op.who = r
    BY DEF Awaited
  <2>7. \A i \in 1..Len(queue') : Awaited(queue'[i], r) =>
           \/ op.who = r /\ i = Len(queue) + 1
           \/ op.who # r /\ i \in 1..Len(queue) /\ Awaited(queue[i], r)
    BY <2>1, <2>3, <2>4, <2>6 DEF OneWrite
  <2> QED
    BY <2>3, <2>5, <2>7 DEF OneWrite
<1>3. CASE Chain
  <2>1. pc' = pc
    BY <1>3, ChainKinds
  <2>2. CASE UNCHANGED <<queue, wrote, disk>>
    BY <2>1, <2>2 DEF OneWrite, Awaited
  <2>3. ASSUME NEW how \in {"ok", "failed"}, queue # <<>>, queue' = Tail(queue), Told(queue[1], how)
        PROVE  OneWrite'
    <3> SUFFICES ASSUME NEW r \in Requests
                 PROVE  /\ pc'[r] \in Still => wrote'[r] # "waiting"
                        /\ \A i \in 1..Len(queue') : Awaited(queue'[i], r) => wrote'[r] = "waiting"
                        /\ \A i, j \in 1..Len(queue') : Awaited(queue'[i], r) /\ Awaited(queue'[j], r) => i = j
      BY DEF OneWrite, Awaited, Still
    <3>1. pc'[r] \in Still => wrote'[r] # "waiting"
      BY <2>1, <2>3, LeavesChain DEF OneWrite, Still
    <3>2. \A i \in 1..Len(queue') : Awaited(queue'[i], r) => wrote'[r] = "waiting"
      BY <2>3, LeavesChain DEF OneWrite
    <3>3. \A i, j \in 1..Len(queue') : Awaited(queue'[i], r) /\ Awaited(queue'[j], r) => i = j
      BY <2>3, LeavesChain DEF OneWrite
    <3> QED
      BY <3>1, <3>2, <3>3
  <2>4. ASSUME NEW k \in 1..Len(queue), ~queue[k].expired,
               queue' = [queue EXCEPT ![k].expired = TRUE], Told(queue[k], "failed")
        PROVE  OneWrite'
    <3> SUFFICES ASSUME NEW r \in Requests
                 PROVE  /\ pc'[r] \in Still => wrote'[r] # "waiting"
                        /\ \A i \in 1..Len(queue') : Awaited(queue'[i], r) => wrote'[r] = "waiting"
                        /\ \A i, j \in 1..Len(queue') : Awaited(queue'[i], r) /\ Awaited(queue'[j], r) => i = j
      BY DEF OneWrite, Awaited, Still
    <3>1. Awaited(queue[k], r) <=> queue[k].who = r
      BY <2>4 DEF Awaited
    <3>5. /\ queue[k].who = r => wrote'[r] = "failed" /\ wrote[r] = "waiting"
          /\ queue[k].who # r => wrote'[r] = wrote[r]
      BY <2>4, ExpiresChain
    <3>2. pc'[r] \in Still => wrote'[r] # "waiting"
      BY <2>1, <3>5 DEF OneWrite, Still
    <3>3. \A i \in 1..Len(queue') : Awaited(queue'[i], r) =>
             i \in 1..Len(queue) /\ i # k /\ Awaited(queue[i], r)
      BY <2>4, ExpiresChain
    <3>4. \A i \in 1..Len(queue') : Awaited(queue'[i], r) => wrote'[r] = "waiting"
      <4> SUFFICES ASSUME NEW i \in 1..Len(queue'), Awaited(queue'[i], r)
                   PROVE  wrote'[r] = "waiting"
        OBVIOUS
      <4>1. i \in 1..Len(queue) /\ i # k /\ Awaited(queue[i], r)
        BY <3>3
      <4>2. queue[k].who # r
        BY <2>4, <3>1, <4>1 DEF OneWrite
      <4> QED
        BY <3>5, <4>1, <4>2 DEF OneWrite
    <3> QED
      BY <3>2, <3>3, <3>4 DEF OneWrite
  <2> QED
    BY <1>3, <2>2, <2>3, <2>4, ChainKinds
<1> QED
  BY <1>1, <1>2, <1>3, OffChain

-----------------------------------------------------------------------------
(* The journal is ahead.                                                   *)

(* What the invariant says of one handler.                                 *)
AheadFor(r) ==
    /\ pc[r] \in Offering => offered
    /\ wrote[r] = "ok" =>
          Records(pc[r], calls, disk) /\ \A i \in 1..Len(queue) : Records(pc[r], calls, queue[i].value)
    /\ wrote[r] = "waiting" =>
          \A i, j \in 1..Len(queue) :
              Awaited(queue[i], r) /\ i <= j => Records(pc[r], calls, queue[j].value)
    /\ pc[r] \in {"turn", "reply"} => wrote[r] = "ok"

LEMMA AheadIs == Ahead <=> \A r \in Requests : pc[r] \in Dispatching \cup Offering => AheadFor(r)
  BY DEF Ahead, AheadFor

(* Off the chain: of a write that is added, for the one who takes it and   *)
(* for one it passes.                                                      *)
LEMMA AheadAdds ==
  ASSUME TypeOK, OneWrite, Ahead, NEW op \in Writes, Adds(op)
  PROVE  Ahead'
<1>1. /\ Len(queue) \in Nat /\ Len(queue') = Len(queue) + 1
      /\ \A i \in 1..Len(queue) : queue'[i] = queue[i]
      /\ queue'[Len(queue) + 1] = op
  BY AppendsEffect DEF Adds
<1>2. \A i \in 1..Len(queue') : i \in 1..Len(queue) \/ i = Len(queue) + 1
  BY <1>1
<1>3. op.who \in Requests \cup {None} /\ Len(queue) + 1 \in 1..Len(queue')
  BY <1>1 DEF Writes
<1>4. ASSUME NEW r \in Requests, pc'[r] \in Dispatching \cup Offering, op.who = r
      PROVE  AheadFor(r)'
  <2>1. /\ Takes(op) /\ wrote'[r] = "waiting" /\ wrote[r] # "waiting"
        /\ pc'[r] \in {"intent", "offer"}
    BY <1>4, NoneAssumption DEF Adds, Takes, Appends, TypeOK
  <2>2. Records(pc'[r], calls', op.value)
    BY <1>4, <2>1 DEF Takes, Records, Dispatching, Offering
  <2>3. pc'[r] \in Offering => offered'
    BY <1>4, <2>1 DEF Takes, Offering, Dispatching
  <2>4. \A i, j \in 1..Len(queue') : Awaited(queue'[i], r) /\ i <= j => j = Len(queue) + 1
    <3> SUFFICES ASSUME NEW i \in 1..Len(queue'), NEW j \in 1..Len(queue'), Awaited(queue'[i], r), i <= j
                 PROVE  j = Len(queue) + 1
      OBVIOUS
    <3>1. i \notin 1..Len(queue)
      BY <1>1, <2>1 DEF OneWrite
    <3> QED
      BY <1>1, <1>2, <3>1
  <2>5. \A i, j \in 1..Len(queue') : Awaited(queue'[i], r) /\ i <= j => Records(pc'[r], calls', queue'[j].value)
    BY <1>1, <2>2, <2>4 DEF Records
  <2> QED
    BY <2>1, <2>3, <2>5 DEF AheadFor, Awaited, Records
<1>5. ASSUME NEW r \in Requests, pc'[r] \in Dispatching \cup Offering, op.who # r
      PROVE  AheadFor(r)'
  <2>1. /\ Passes(op, r) /\ wrote'[r] = wrote[r] /\ disk' = disk
        /\ pc'[r] = pc[r] /\ UNCHANGED <<calls, offered>>
    BY <1>3, <1>5 DEF Adds, Appends, Passes, TypeOK
  <2>2. AheadFor(r)
    BY <1>5, <2>1, AheadIs
  <2>3. Records(pc'[r], calls', op.value)
    BY <1>5, <2>1, <2>2 DEF Passes, Records, AheadFor
  <2>4. pc'[r] = pc[r] /\ calls' = calls
    BY <2>1 DEF Records
  <2>5. \A i \in 1..Len(queue') : Awaited(queue'[i], r) => i \in 1..Len(queue) /\ Awaited(queue[i], r)
    BY <1>1, <1>2, <1>5 DEF Awaited
  <2>6. wrote'[r] = "ok" => /\ Records(pc'[r], calls', disk')
                            /\ \A i \in 1..Len(queue') : Records(pc'[r], calls', queue'[i].value)
    BY <1>1, <1>2, <2>1, <2>2, <2>3, <2>4 DEF AheadFor
  <2>7. wrote'[r] = "waiting" =>
           \A i, j \in 1..Len(queue') : Awaited(queue'[i], r) /\ i <= j => Records(pc'[r], calls', queue'[j].value)
    BY <1>1, <1>2, <2>1, <2>2, <2>3, <2>4, <2>5 DEF AheadFor
  <2> QED
    BY <2>1, <2>2, <2>6, <2>7 DEF AheadFor, Awaited, Records
<1> QED
  BY <1>4, <1>5 DEF Ahead, AheadFor

LEMMA AheadRests ==
  ASSUME Ahead, Rests
  PROVE  Ahead'
<1> SUFFICES ASSUME NEW r \in Requests, pc'[r] \in Dispatching \cup Offering
             PROVE  AheadFor(r)'
  BY DEF Ahead, AheadFor
<1>1. AheadFor(r) /\ (pc'[r] \in {"turn", "reply"} => wrote[r] = "ok")
  BY AheadIs DEF Rests, Dispatching, Offering, AheadFor
<1>2. \A v : Records(pc'[r], calls', v) <=> Records(pc[r], calls, v)
  BY DEF Rests, Records, Dispatching, Offering
<1>3. pc'[r] \in Offering => pc[r] \in Offering
  BY DEF Rests, Dispatching, Offering
<1> QED
  BY <1>1, <1>2, <1>3 DEF Rests, AheadFor, Awaited, Records

LEMMA AheadChain ==
  ASSUME TypeOK, OneWrite, Ahead, Chain
  PROVE  Ahead'
<1>1. UNCHANGED <<pc, calls, offered>>
  BY ChainKinds
<1>2. \A r \in Requests : pc'[r] = pc[r] /\ calls' = calls
  BY <1>1 DEF Records
<1>3. CASE UNCHANGED <<queue, wrote, disk>>
  BY <1>1, <1>3 DEF Ahead, Awaited, Records
<1>4. ASSUME NEW how \in {"ok", "failed"}, queue # <<>>, queue' = Tail(queue), Told(queue[1], how),
             disk' = IF how = "ok" THEN queue[1].value ELSE disk
      PROVE  Ahead'
  <2> SUFFICES ASSUME NEW r \in Requests, pc'[r] \in Dispatching \cup Offering
               PROVE  AheadFor(r)'
    BY DEF Ahead, AheadFor
  <2>1. AheadFor(r)
    BY <1>1, AheadIs
  <2>2. 1 \in 1..Len(queue)
    BY <1>4, LeavesChain
  <2>3. \A i \in 1..Len(queue') : i + 1 \in 1..Len(queue) /\ queue'[i] = queue[i + 1]
    BY <1>4, LeavesChain
  <2>4. CASE Awaited(queue[1], r)
    <3>1. wrote'[r] = how /\ wrote[r] = "waiting"
      BY <1>4, <2>4, LeavesChain
    <3>2. pc'[r] \notin {"turn", "reply"}
      BY <1>1, <2>1, <3>1 DEF AheadFor
    <3>3. \A j \in 1..Len(queue) : Records(pc[r], calls, queue[j].value)
      BY <2>1, <2>2, <2>4, <3>1 DEF AheadFor
    <3>4. \A i \in 1..Len(queue') : Records(pc'[r], calls', queue'[i].value)
      BY <1>2, <2>3, <3>3
    <3>5. how = "ok" => Records(pc'[r], calls', disk')
      BY <1>2, <1>4, <2>2, <3>3
    <3> QED
      BY <1>1, <2>1, <3>1, <3>2, <3>4, <3>5 DEF AheadFor, Records
  <2>5. CASE ~Awaited(queue[1], r)
    <3>1. wrote'[r] = wrote[r]
      BY <1>4, <2>5, LeavesChain
    <3>2. wrote[r] = "ok" => /\ Records(pc'[r], calls', disk')
                             /\ \A i \in 1..Len(queue') : Records(pc'[r], calls', queue'[i].value)
      BY <1>2, <1>4, <2>1, <2>2, <2>3 DEF AheadFor
    <3>3. wrote[r] = "waiting" =>
             \A i, j \in 1..Len(queue') : Awaited(queue'[i], r) /\ i <= j => Records(pc'[r], calls', queue'[j].value)
      <4> SUFFICES ASSUME wrote[r] = "waiting", NEW i \in 1..Len(queue'), NEW j \in 1..Len(queue'),
                          Awaited(queue'[i], r), i <= j
                   PROVE  Records(pc'[r], calls', queue'[j].value)
        OBVIOUS
      <4>1. /\ i + 1 \in 1..Len(queue) /\ j + 1 \in 1..Len(queue) /\ i + 1 <= j + 1
            /\ queue'[i] = queue[i + 1] /\ queue'[j] = queue[j + 1]
        BY <1>4, <2>3, LeavesChain
      <4>2. Records(pc[r], calls, queue[j + 1].value)
        BY <2>1, <4>1 DEF AheadFor
      <4> QED
        BY <1>2, <4>1, <4>2
    <3> QED
      BY <1>1, <2>1, <3>1, <3>2, <3>3 DEF AheadFor, Awaited, Records
  <2> QED
    BY <2>4, <2>5
<1>5. ASSUME NEW k \in 1..Len(queue), ~queue[k].expired,
             queue' = [queue EXCEPT ![k].expired = TRUE], Told(queue[k], "failed"), disk' = disk
      PROVE  Ahead'
  <2> SUFFICES ASSUME NEW r \in Requests, pc'[r] \in Dispatching \cup Offering
               PROVE  AheadFor(r)'
    BY DEF Ahead, AheadFor
  <2>1. AheadFor(r)
    BY <1>1, AheadIs
  <2>2. Len(queue') = Len(queue) /\ \A i \in 1..Len(queue) : queue'[i].value = queue[i].value
    BY <1>5, ExpiresChain
  <2>3. CASE queue[k].who = r
    <3>1. wrote'[r] = "failed" /\ wrote[r] = "waiting"
      BY <1>5, <2>3, ExpiresChain
    <3> QED
      BY <1>1, <2>1, <3>1 DEF AheadFor
  <2>4. CASE queue[k].who # r
    <3>1. wrote'[r] = wrote[r]
      BY <1>5, <2>4, ExpiresChain
    <3>2. \A i \in 1..Len(queue) : Awaited(queue'[i], r) => Awaited(queue[i], r)
      BY <1>5, ExpiresChain
    <3>3. wrote[r] = "ok" => /\ Records(pc'[r], calls', disk')
                             /\ \A i \in 1..Len(queue') : Records(pc'[r], calls', queue'[i].value)
      BY <1>2, <1>5, <2>1, <2>2 DEF AheadFor
    <3>4. wrote[r] = "waiting" =>
             \A i, j \in 1..Len(queue') : Awaited(queue'[i], r) /\ i <= j => Records(pc'[r], calls', queue'[j].value)
      BY <1>2, <2>1, <2>2, <3>2 DEF AheadFor
    <3> QED
      BY <1>1, <2>1, <3>1, <3>3, <3>4 DEF AheadFor, Awaited, Records
  <2> QED
    BY <2>3, <2>4
<1> QED
  BY <1>3, <1>4, <1>5, ChainKinds

-----------------------------------------------------------------------------
(* The invariant.                                                          *)

LEMMA BridgeInit ==
  ASSUME Init
  PROVE  BridgeInv
<1>1. queue = <<>> /\ queue \in Seq(Writes) /\ Len(queue) = 0
  BY EmptySeq DEF Init
<1>2. TypeOK
  <2>1. calls \in 0..MaxTurns /\ generation \in 0..1 /\ taken \in Nat
    BY DEF Init
  <2>2. disk \in Snapshots
    BY DEF Init, Snapshots, Outcomes
  <2>3. \A r \in Requests : pc[r] \in Writing \cup Waiting \cup {"closing"} <=> active = r
    BY DEF Init, Writing, Waiting
  <2> QED
    BY <1>1, <2>1, <2>2, <2>3 DEF Init, TypeOK, Outcomes
<1>3. Labelled /\ LabelIsTrue
  BY DEF Init, Labelled, LabelIsTrue
<1>4. InOrder /\ OneWrite /\ Ahead
  BY <1>1 DEF Init, InOrder, OneWrite, Ahead, Dispatching, Offering
<1> QED
  BY <1>2, <1>3, <1>4 DEF BridgeInv

LEMMA BridgeStep ==
  ASSUME BridgeInv, [Next]_vars
  PROVE  BridgeInv'
<1>1. CASE Next
  <2>1. TypeOK'
    BY <1>1, TypeStep DEF BridgeInv, Labelled
  <2>2. Labelled' /\ LabelIsTrue'
    BY <1>1, LabelStep DEF BridgeInv
  <2>3. InOrder' /\ OneWrite'
    BY <1>1, OrderStep, WaitStep DEF BridgeInv
  <2>4. Ahead'
    BY <1>1, OffChain, AheadAdds, AheadRests, AheadChain DEF BridgeInv
  <2> QED
    BY <2>1, <2>2, <2>3, <2>4 DEF BridgeInv
<1>2. CASE UNCHANGED vars
  BY <1>2 DEF vars, stateVars, sessionVars, requestVars, journalVars, BridgeInv, TypeOK, Labelled,
              LabelIsTrue, InOrder, OneWrite, Awaited, Ahead, Records
<1> QED
  BY <1>1, <1>2

LEMMA BridgeInvariant == Spec => []BridgeInv
<1>1. Init => BridgeInv
  BY BridgeInit
<1>2. BridgeInv /\ [Next]_vars => BridgeInv'
  BY BridgeStep
<1> QED
  BY <1>1, <1>2, PTL DEF Spec

(* Everything has its type, and a request is the active one exactly while  *)
(* its handler (server.mjs) is under way.                                  *)
THEOREM BridgeTypes == Spec => []TypeOK
<1>1. BridgeInv => TypeOK
  BY DEF BridgeInv
<1> QED
  BY <1>1, BridgeInvariant, PTL

(* Whatever lands, is dropped or expires on the chain of journal.mjs: at    *)
(* the provider's call its intent is on disk, at the reply its offer.      *)
THEOREM BridgeRecords == Spec => []RecordedFirst
<1>1. BridgeInv => RecordedFirst
  <2> SUFFICES ASSUME BridgeInv, NEW r \in Requests
               PROVE  /\ pc[r] = "turn" => disk.calls = calls /\ disk.outcome \notin {"ready", "awaiting"}
                      /\ pc[r] = "reply" => disk.calls = calls /\ disk.offered
    BY DEF RecordedFirst
  <2> QED
    BY DEF BridgeInv, Ahead, Records, Dispatching, Offering
<1> QED
  BY <1>1, BridgeInvariant, PTL

(* The label end (server.mjs) leaves is true, however the handlers, a lost  *)
(* connection, the timers and stop come together.                          *)
THEOREM BridgeLabels == Spec => []LabelIsTrue
<1>1. BridgeInv => LabelIsTrue
  BY DEF BridgeInv
<1> QED
  BY <1>1, BridgeInvariant, PTL

(* Once a session has ended nothing changes what it ended as, and no older  *)
(* snapshot replaces a younger one in the journal's file.                  *)
THEOREM BridgeLate == Spec => LateStaysOut
<1>1. ASSUME BridgeInv, [Next]_vars
      PROVE  [(terminal => outcome' = outcome) /\ disk'.n >= disk.n]_vars
  <2>1. CASE UNCHANGED vars
    BY <2>1 DEF vars
  <2>2. CASE Next
    <3>1. disk'.n >= disk.n
      <4>1. disk.n \in Nat
        BY <1>1 DEF BridgeInv, TypeOK, Snapshots
      <4>2. CASE Chain
        <5>1. disk' = disk \/ (queue # <<>> /\ disk' = queue[1].value)
          BY <1>1, <4>2, ChainKinds DEF BridgeInv
        <5>2. queue # <<>> => 1 \in 1..Len(queue) /\ queue[1] \in Writes
          BY <1>1, TailWrites, LenProperties, EmptySeq DEF BridgeInv, TypeOK
        <5>3. queue # <<>> => queue[1].value.n \in Nat /\ disk.n < queue[1].value.n
          BY <1>1, <5>2 DEF BridgeInv, InOrder, Writes, Snapshots
        <5> QED
          BY <4>1, <5>1, <5>3
      <4>3. CASE ~Chain
        BY <1>1, <2>2, <4>1, <4>3, OffChain DEF BridgeInv, Rests, Adds
      <4> QED
        BY <4>2, <4>3
    <3>2. terminal => outcome' = outcome
      <4> SUFFICES ASSUME terminal
                   PROVE  outcome' = outcome
        OBVIOUS
      <4>1. ASSUME NEW r \in Requests, Closing(r)
            PROVE  outcome' = outcome
        BY <1>1, <4>1, ClosingCloses DEF BridgeInv, Closes, Ends
      <4>2. CASE Outside
        BY <1>1, <4>2, OutsideEnds DEF BridgeInv, Ends
      <4>3. ASSUME NEW r \in Requests, ArrivesAmiss(r) \/ Moves(r)
            PROVE  outcome' = outcome
        BY <4>3 DEF ArrivesAmiss, Ends, Moves, Arrives, WrittenIntent, WrittenOffer, ReplyFinishes,
                    Closed, stateVars
      <4>4. ASSUME NEW r \in Requests, Going(r) \/ TurnErrs(r)
            PROVE  FALSE
        BY <1>1, <4>4, GoingGoes DEF BridgeInv, TurnErrs
      <4>5. CASE StopReturns \/ Chain
        BY <4>5 DEF StopReturns, Chain, WriteGoesOn, WriteDropped, WriteLands, WriteExpires,
                    journalRest, stateVars
      <4> QED
        BY <2>2, <4>1, <4>2, <4>3, <4>4, <4>5, Kinds
    <3> QED
      BY <3>1, <3>2
  <2> QED
    BY <1>1, <2>1, <2>2
<1> QED
  BY <1>1, BridgeInvariant, PTL DEF Spec, LateStaysOut
=============================================================================
