--------------------------- MODULE MoProcsMessages ---------------------------
(***************************************************************************)
(* Proofs about messages, for any processes, schedulers, bounds, policies  *)
(* and programs: a message is in one place (OnePlace), and what one sender *)
(* sends one target arrives in order (SendsInOrder).                       *)
(*                                                                         *)
(* The places are named (PlaceNames); a step moves all that is in one      *)
(* place to another (Commit: an outbox to a mailbox, what is held to       *)
(* `later`), puts a new identity in one, or takes something away.          *)
(***************************************************************************)
EXTENDS MoProcsAsks

PlaceNames == {"box", "out", "held", "later"} \X Callers \X Callers
Box(q) == <<"box", q, q>>
Out(p, q) == <<"out", p, q>>
Held(p) == <<"held", p, p>>
Later == <<"later", Main, Main>>

(* The message `id` is in place x.                                         *)
In(id, x) ==
    \/ \E q \in Procs : x = Box(q) /\ id \in Ids(mailbox[q])
    \/ \E p, q \in Procs : x = Out(p, q) /\ id \in Ids(outbox[p][q])
    \/ \E p \in Procs : x = Held(p) /\ \E o \in heldLater[p] : o.msg.id = id
    \/ x = Later /\ \E l \in later : l.msg.id = id

(* It is being run, or its update committed.                               *)
Spent(id) == id \in committed \/ \E p \in Procs : Busy(p) /\ cur[p] = id

Apart(id) == \A x, y : In(id, x) /\ In(id, y) => x = y
PlacesApart == \A id \in Nat : Apart(id)
Unspent == \A id \in Nat : \A x : In(id, x) => ~Spent(id)
Given == \A id \in Nat : Spent(id) \/ (\E x : In(id, x)) => id <= made

(* In one place it is once.                                                *)
Differ(box) == \A i, j \in 1..Len(box) : box[i].id = box[j].id => i = j
DifferLater(ls) == \A l, m \in ls : l.msg.id = m.msg.id => l = m
Differing ==
    /\ \A q \in Procs : Differ(mailbox[q])
    /\ \A p, q \in Procs : Differ(outbox[p][q])
    /\ \A p \in Procs : DifferLater(heldLater[p])
    /\ DifferLater(later)

PlaceInv == TypeOK /\ PlacesApart /\ Unspent /\ Given /\ Differing

(* The order of one sender's plain sends: along a box, and across two.     *)
Before(m, n) == m.kind = "send" /\ n.kind = "send" /\ m.from = n.from => m.id < n.id
InOrder(box) == \A i, j \in 1..Len(box) : i < j => Before(box[i], box[j])
AllBefore(box, more) == \A i \in 1..Len(box), j \in 1..Len(more) : Before(box[i], more[j])

(* Plain sends with identities up to n; messages of one sender.            *)
Within(box, n) == \A i \in 1..Len(box) : box[i].kind = "send" => box[i].id <= n
AllFrom(box, p) == \A i \in 1..Len(box) : box[i].from = p
AllLater(ls) == \A l \in ls : l.msg.kind = "later"

(* An update holds no more for a target than the target's bound, and only  *)
(* a process whose code sends to it holds anything for it.                 *)
OutboxFits == \A p, q \in Procs : Len(outbox[p][q]) <= Bound[q]
SendersHold == \A p, q \in Procs : outbox[p][q] # <<>> => p \in SendersTo(q)

BacklogInv == TypeOK /\ OutboxFits /\ SendersHold /\ BacklogBounded

(* What is held for a target is of its holder, in order, and made after    *)
(* all of that sender's that waits there.                                  *)
OrderInv ==
    /\ TypeOK
    /\ \A q \in Procs : InOrder(mailbox[q]) /\ Within(mailbox[q], made)
    /\ \A p, q \in Procs : /\ InOrder(outbox[p][q]) /\ Within(outbox[p][q], made)
                           /\ AllFrom(outbox[p][q], p)
                           /\ AllBefore(mailbox[q], outbox[p][q])
    /\ AllLater(later) /\ \A p \in Procs : AllLater(heldLater[p])

USE ProcsAssumption, HomeAssumption, SameSets DEF Callers

-----------------------------------------------------------------------------
(* Boxes with a message more, two together, and one less.                  *)
LEMMA AppendIs ==
  ASSUME NEW box \in Seq(Message), NEW m \in Message
  PROVE  /\ Len(box) \in Nat /\ Len(Append(box, m)) = Len(box) + 1
         /\ \A i \in 1..Len(box) : Append(box, m)[i] = box[i]
         /\ Append(box, m)[Len(box) + 1] = m
         /\ \A i \in 1..Len(Append(box, m)) : i \in 1..Len(box) \/ i = Len(box) + 1
BY AppendProperties, LenProperties

LEMMA ConcatIs ==
  ASSUME NEW box \in Seq(Message), NEW more \in Seq(Message)
  PROVE  /\ Len(box) \in Nat /\ Len(more) \in Nat
         /\ Len(box \o more) = Len(box) + Len(more)
         /\ \A i \in 1..Len(box) : (box \o more)[i] = box[i]
         /\ \A i \in 1..Len(more) : (box \o more)[Len(box) + i] = more[i]
         /\ \A i \in 1..Len(box \o more) :
               i \in 1..Len(box) \/ \E j \in 1..Len(more) : i = Len(box) + j
<1>1. /\ Len(box \o more) = Len(box) + Len(more) /\ Len(box) \in Nat /\ Len(more) \in Nat
      /\ \A j \in 1..Len(box) + Len(more) :
            (box \o more)[j] = IF j <= Len(box) THEN box[j] ELSE more[j - Len(box)]
  BY ConcatProperties, LenProperties
<1>2. ASSUME NEW i \in 1..Len(more) PROVE (box \o more)[Len(box) + i] = more[i]
  <2>1. Len(box) + i \in 1..Len(box) + Len(more) /\ ~(Len(box) + i <= Len(box))
        /\ Len(box) + i - Len(box) = i
    BY <1>1
  <2> QED
    BY <1>1, <2>1
<1>3. ASSUME NEW i \in 1..Len(box \o more), i \notin 1..Len(box)
      PROVE  \E j \in 1..Len(more) : i = Len(box) + j
  <2>1. i - Len(box) \in 1..Len(more) /\ i = Len(box) + (i - Len(box))
    BY <1>1, <1>3
  <2> QED
    BY <2>1
<1> QED
  BY <1>1, <1>2, <1>3

LEMMA TailIs ==
  ASSUME NEW box \in Seq(Message), box # <<>>
  PROVE  /\ Len(box) \in Nat \ {0} /\ Len(Tail(box)) = Len(box) - 1 /\ Head(box) = box[1]
         /\ \A i \in 1..Len(Tail(box)) : i + 1 \in 1..Len(box) /\ Tail(box)[i] = box[i + 1]
<1>1. /\ Len(box) \in Nat /\ Len(Tail(box)) = Len(box) - 1
      /\ \A j \in 1..Len(Tail(box)) : Tail(box)[j] = box[j + 1]
  BY HeadTailProperties, LenProperties
<1>2. Len(box) \in Nat \ {0}
  BY EmptySeq
<1>3. Head(box) = box[1]
  BY SMT
<1> QED
  BY <1>1, <1>2, <1>3

LEMMA IdsAreNat ==
  ASSUME NEW box \in Seq(Message)
  PROVE  Ids(box) \subseteq Nat
<1> SUFFICES ASSUME NEW i \in 1..Len(box) PROVE box[i].id \in Nat
  BY DEF Ids
<1>1. box[i] \in Message
  BY ElementOfSeq
<1> QED
  BY <1>1 DEF Message

LEMMA AppendDiffers ==
  ASSUME NEW box \in Seq(Message), NEW m \in Message, Differ(box), m.id \notin Ids(box)
  PROVE  Differ(Append(box, m))
<1>1. \A i \in 1..Len(box) : box[i].id # m.id
  BY DEF Ids
<1> QED
  BY <1>1, AppendIs DEF Differ

LEMMA ConcatDiffers ==
  ASSUME NEW box \in Seq(Message), NEW more \in Seq(Message), Differ(box), Differ(more),
         Ids(box) \cap Ids(more) = {}
  PROVE  Differ(box \o more) /\ Ids(box \o more) = Ids(box) \cup Ids(more)
<1>1. \A i \in 1..Len(box), j \in 1..Len(more) : box[i].id # more[j].id
  BY DEF Ids
<1>2. Differ(box \o more)
  <2> SUFFICES ASSUME NEW i \in 1..Len(box \o more), NEW j \in 1..Len(box \o more),
                      (box \o more)[i].id = (box \o more)[j].id
               PROVE  i = j
    BY DEF Differ
  <2>1. CASE i \in 1..Len(box) /\ j \in 1..Len(box)
    BY <2>1, ConcatIs DEF Differ
  <2>2. CASE i \notin 1..Len(box) /\ j \notin 1..Len(box)
    <3>1. PICK k \in 1..Len(more) : i = Len(box) + k
      BY <2>2, ConcatIs
    <3>2. PICK l \in 1..Len(more) : j = Len(box) + l
      BY <2>2, ConcatIs
    <3>3. more[k].id = more[l].id
      BY <3>1, <3>2, ConcatIs
    <3>4. k = l
      BY <3>3 DEF Differ
    <3> QED
      BY <3>1, <3>2, <3>4
  <2>3. CASE i \in 1..Len(box) /\ j \notin 1..Len(box)
    BY <2>3, <1>1, ConcatIs
  <2>4. CASE i \notin 1..Len(box) /\ j \in 1..Len(box)
    BY <2>4, <1>1, ConcatIs
  <2> QED
    BY <2>1, <2>2, <2>3, <2>4
<1>3. ASSUME NEW id PROVE id \in Ids(box \o more) <=> id \in Ids(box) \/ id \in Ids(more)
  <2>1. ASSUME NEW i \in 1..Len(box \o more), id = (box \o more)[i].id
        PROVE  id \in Ids(box) \/ id \in Ids(more)
    BY <2>1, ConcatIs DEF Ids
  <2>2. ASSUME NEW i \in 1..Len(box), id = box[i].id PROVE id \in Ids(box \o more)
    <3>1. i \in 1..Len(box \o more) /\ (box \o more)[i].id = id
      BY <2>2, ConcatIs
    <3> QED
      BY <3>1 DEF Ids
  <2>3. ASSUME NEW i \in 1..Len(more), id = more[i].id PROVE id \in Ids(box \o more)
    <3>1. Len(box) + i \in 1..Len(box \o more) /\ (box \o more)[Len(box) + i].id = id
      BY <2>3, ConcatIs
    <3> QED
      BY <3>1 DEF Ids
  <2> QED
    BY <2>1, <2>2, <2>3 DEF Ids
<1> QED
  BY <1>2, <1>3

LEMMA TailDiffers ==
  ASSUME NEW box \in Seq(Message), box # <<>>, Differ(box)
  PROVE  /\ Differ(Tail(box)) /\ Ids(Tail(box)) \subseteq Ids(box)
         /\ Head(box).id \in Ids(box) /\ Head(box).id \notin Ids(Tail(box))
<1>1. Differ(Tail(box))
  BY TailIs DEF Differ
<1>2. ASSUME NEW i \in 1..Len(Tail(box)) PROVE Tail(box)[i].id \in Ids(box) \ {Head(box).id}
  <2>1. i + 1 \in 1..Len(box) /\ 1 \in 1..Len(box) /\ i + 1 # 1 /\ Tail(box)[i] = box[i + 1]
    BY TailIs
  <2> QED
    BY <2>1, TailIs DEF Ids, Differ
<1>3. 1 \in 1..Len(box)
  BY TailIs
<1> QED
  BY <1>1, <1>2, <1>3, TailIs DEF Ids

LEMMA EmptyIs == Ids(<<>>) = {} /\ Differ(<<>>)
BY DEF Ids, Differ

LEMMA EmptyOrder ==
  ASSUME NEW n, NEW p, NEW box
  PROVE  /\ InOrder(<<>>) /\ Within(<<>>, n) /\ AllFrom(<<>>, p)
         /\ AllBefore(<<>>, box) /\ AllBefore(box, <<>>)
BY DEF InOrder, Within, AllFrom, AllBefore

LEMMA AppendOrder ==
  ASSUME NEW box \in Seq(Message), NEW m \in Message, InOrder(box),
         \A i \in 1..Len(box) : Before(box[i], m)
  PROVE  InOrder(Append(box, m))
BY AppendIs DEF InOrder

LEMMA AppendWithin ==
  ASSUME NEW box \in Seq(Message), NEW m \in Message, NEW n \in Nat, Within(box, n),
         m.kind = "send" => m.id <= n
  PROVE  Within(Append(box, m), n)
BY AppendIs DEF Within

LEMMA AppendFrom ==
  ASSUME NEW box \in Seq(Message), NEW m \in Message, AllFrom(box, m.from)
  PROVE  AllFrom(Append(box, m), m.from)
BY AppendIs DEF AllFrom

LEMMA AppendBefore ==
  ASSUME NEW box \in Seq(Message), NEW more \in Seq(Message), NEW m \in Message,
         AllBefore(box, more), \A j \in 1..Len(more) : Before(m, more[j])
  PROVE  AllBefore(Append(box, m), more)
BY AppendIs DEF AllBefore

LEMMA BeforeAppend ==
  ASSUME NEW box \in Seq(Message), NEW more \in Seq(Message), NEW m \in Message,
         AllBefore(box, more), \A i \in 1..Len(box) : Before(box[i], m)
  PROVE  AllBefore(box, Append(more, m))
BY AppendIs DEF AllBefore

LEMMA ConcatOrder ==
  ASSUME NEW box \in Seq(Message), NEW more \in Seq(Message), InOrder(box), InOrder(more),
         AllBefore(box, more)
  PROVE  InOrder(box \o more)
<1> SUFFICES ASSUME NEW i \in 1..Len(box \o more), NEW j \in 1..Len(box \o more), i < j
             PROVE  Before((box \o more)[i], (box \o more)[j])
  BY DEF InOrder
<1>1. CASE i \in 1..Len(box) /\ j \in 1..Len(box)
  BY <1>1, ConcatIs DEF InOrder
<1>2. CASE i \in 1..Len(box) /\ j \notin 1..Len(box)
  BY <1>2, ConcatIs DEF AllBefore
<1>3. CASE i \notin 1..Len(box)
  <2>1. PICK k \in 1..Len(more) : i = Len(box) + k
    BY <1>3, ConcatIs
  <2>2. j \notin 1..Len(box)
    BY <2>1, ConcatIs
  <2>3. PICK l \in 1..Len(more) : j = Len(box) + l
    BY <2>2, ConcatIs
  <2>4. k < l
    BY <2>1, <2>3, ConcatIs
  <2> QED
    BY <2>1, <2>3, <2>4, ConcatIs DEF InOrder
<1> QED
  BY <1>1, <1>2, <1>3

(* Each message of two boxes together is one of either.                    *)
LEMMA ConcatSplits ==
  ASSUME NEW box \in Seq(Message), NEW more \in Seq(Message), NEW i \in 1..Len(box \o more)
  PROVE  \/ i \in 1..Len(box) /\ (box \o more)[i] = box[i]
         \/ \E j \in 1..Len(more) : (box \o more)[i] = more[j]
<1>1. CASE i \in 1..Len(box)
  BY <1>1, ConcatIs
<1>2. CASE i \notin 1..Len(box)
  <2>1. PICK j \in 1..Len(more) : i = Len(box) + j
    BY <1>2, ConcatIs
  <2> QED
    BY <2>1, ConcatIs
<1> QED
  BY <1>1, <1>2

LEMMA ConcatWithin ==
  ASSUME NEW box \in Seq(Message), NEW more \in Seq(Message), NEW n \in Nat,
         Within(box, n), Within(more, n)
  PROVE  Within(box \o more, n)
BY ConcatSplits DEF Within

LEMMA ConcatBefore ==
  ASSUME NEW box \in Seq(Message), NEW more \in Seq(Message), NEW last \in Seq(Message),
         AllBefore(box, last), AllBefore(more, last)
  PROVE  AllBefore(box \o more, last)
BY ConcatSplits DEF AllBefore

LEMMA TailOrder ==
  ASSUME NEW box \in Seq(Message), box # <<>>, InOrder(box), NEW n, Within(box, n)
  PROVE  /\ InOrder(Tail(box)) /\ Within(Tail(box), n)
         /\ \A more : AllBefore(box, more) => AllBefore(Tail(box), more)
BY TailIs DEF InOrder, Within, AllBefore

(* A message just made comes after all there are.                          *)
LEMMA NewestIsLast ==
  ASSUME NEW box \in Seq(Message), NEW m \in Message, NEW n \in Nat, Within(box, n), m.id = n + 1
  PROVE  Within(box, n + 1) /\ \A i \in 1..Len(box) : Before(box[i], m)
<1> SUFFICES ASSUME NEW i \in 1..Len(box)
             PROVE  (box[i].kind = "send" => box[i].id <= n + 1) /\ Before(box[i], m)
  BY DEF Within
<1>1. box[i] \in Message
  BY ElementOfSeq
<1>2. box[i].id \in Nat
  BY <1>1 DEF Message
<1> QED
  BY <1>2 DEF Within, Before

(* Two senders' messages are in any order.                                 *)
LEMMA OthersBefore ==
  ASSUME NEW box, NEW more, NEW p, NEW q, p # q, AllFrom(box, p), AllFrom(more, q)
  PROVE  AllBefore(box, more)
BY DEF AllFrom, AllBefore, Before

-----------------------------------------------------------------------------
(* What a step does to messages.                                           *)
Boxes == \A q \in Procs : mailbox'[q] = mailbox[q]
Outs == \A p, q \in Procs : outbox'[p][q] = outbox[p][q]
Helds == \A p \in Procs : heldLater'[p] = heldLater[p]
NoneSpent == committed' = committed /\ \A p \in Procs : cur'[p] \in {0, cur[p]}

Rests == made' = made /\ Boxes /\ Outs /\ Helds /\ later' = later /\ NoneSpent

PutsOut(p, q) ==
    /\ HasRoom(p, q) /\ p \in SendersTo(q)
    /\ made' = made + 1 /\ Boxes /\ Helds /\ later' = later /\ NoneSpent
    /\ \A r, t \in Procs : outbox'[r][t] =
          IF r = p /\ t = q THEN Append(outbox[p][q], Made(p, cur[p], "send")) ELSE outbox[r][t]

PutsHeld(p, q) ==
    /\ made' = made + 1 /\ Boxes /\ Outs /\ later' = later /\ NoneSpent
    /\ \A r \in Procs : heldLater'[r] =
          IF r = p THEN heldLater[p] \cup {[to |-> q, msg |-> Made(p, cur[p], "later")]}
                   ELSE heldLater[r]

PutsLater(q) ==
    /\ made' = made + 1 /\ Boxes /\ Outs /\ Helds /\ NoneSpent
    /\ later' = later \cup {[to |-> q, msg |-> Made(Main, 0, "later")]}

PutsBox(q, m) ==
    /\ Len(mailbox[q]) < Bound[q]
    /\ made' = made + 1 /\ Outs /\ Helds /\ later' = later /\ NoneSpent
    /\ m.id = made + 1 /\ (m.kind = "ask" \/ m.from = Main)
    /\ \A r \in Procs : mailbox'[r] = IF r = q THEN Append(mailbox[q], m) ELSE mailbox[r]

Takes(q) ==
    /\ made' = made /\ Outs /\ Helds /\ later' = later /\ committed' = committed
    /\ mailbox[q] # <<>>
    /\ \A r \in Procs : mailbox'[r] = IF r = q THEN Tail(mailbox[q]) ELSE mailbox[r]
    /\ \A p \in Procs : cur'[p] = IF p = q THEN Head(mailbox[q]).id ELSE cur[p]

TimesOut(l) ==
    /\ made' = made /\ Outs /\ Helds /\ later' = later \ {l} /\ NoneSpent
    /\ \A r \in Procs : mailbox'[r] \in {mailbox[r], Append(mailbox[r], l.msg)}
    /\ \A r \in Procs : mailbox'[r] # mailbox[r] => r = l.to /\ Len(mailbox[r]) < Bound[r]

LetsGo(p) ==
    /\ Busy(p) /\ made' = made /\ cur' = cur /\ committed' = committed \cup {cur[p]}
    /\ \A q \in Procs : mailbox'[q] \in {mailbox[q], mailbox[q] \o outbox[p][q]}
    /\ \A r, q \in Procs : outbox'[r][q] = IF r = p THEN <<>> ELSE outbox[r][q]
    /\ \A r \in Procs : heldLater'[r] = IF r = p THEN {} ELSE heldLater[r]
    /\ later' \subseteq later \cup heldLater[p]

Loses(p) ==
    /\ made' = made /\ cur' = cur /\ committed' = committed /\ later' = later
    /\ \A q \in Procs : mailbox'[q] \in {mailbox[q], <<>>}
    /\ \A r, q \in Procs : outbox'[r][q] \in {<<>>, outbox[r][q]}
    /\ \A r \in Procs : heldLater'[r] \in {{}, heldLater[r]}

LEMMA EveryStep ==
  ASSUME TypeOK, [Next]_vars
  PROVE  \/ Rests
         \/ \E p, q \in Procs : PutsOut(p, q) \/ PutsHeld(p, q)
         \/ \E q \in Procs : PutsLater(q)
         \/ \E q \in Procs : \E m \in Message : PutsBox(q, m)
         \/ \E q \in Procs : Takes(q)
         \/ \E l \in later : TimesOut(l)
         \/ \E p \in Procs : LetsGo(p)
         \/ \E p \in Procs : Loses(p)
<1>k. /\ \A c \in Callers : Knows[c] \subseteq Procs
  BY KnowsAssumption
<1>t. /\ mailbox \in [Procs -> Seq(Message)] /\ outbox \in [Procs -> [Procs -> Seq(Message)]]
      /\ heldLater \in [Procs -> SUBSET Outgoing] /\ later \subseteq Outgoing
      /\ cur \in [Procs -> Nat] /\ made \in Nat
  BY DEF TypeOK
<1>r. ASSUME UNCHANGED <<made, mailbox, outbox, heldLater, later, committed, cur>> PROVE Rests
  BY <1>r DEF Rests, Boxes, Outs, Helds, NoneSpent
<1>1. CASE UNCHANGED vars
  BY <1>1, <1>r DEF vars, procVars
<1>2. ASSUME NEW p \in Procs, NEW q \in Knows[p], Send(p, q)
      PROVE  \E r \in Procs : PutsOut(p, r)
  <2>1. q \in Procs /\ UNCHANGED <<mailbox, heldLater, later, committed, cur>> /\ made' = made + 1
        /\ outbox' = [outbox EXCEPT ![p][q] = Append(@, Made(p, cur[p], "send"))]
    BY <1>2, <1>k DEF Send
  <2>2. \A r, t \in Procs : outbox'[r][t] =
          IF r = p /\ t = q THEN Append(outbox[p][q], Made(p, cur[p], "send")) ELSE outbox[r][t]
    BY <2>1, <1>t
  <2>3. HasRoom(p, q) /\ p \in SendersTo(q)
    BY <1>2 DEF Send, SendersTo
  <2>4. PutsOut(p, q)
    BY <2>1, <2>2, <2>3 DEF PutsOut, Boxes, Helds, NoneSpent
  <2> QED
    BY <2>1, <2>4
<1>3. ASSUME NEW p \in Procs, NEW q \in Knows[p], SendLater(p, q)
      PROVE  \E r \in Procs : PutsHeld(p, r)
  <2>1. q \in Procs /\ UNCHANGED <<mailbox, outbox, later, committed, cur>> /\ made' = made + 1
        /\ heldLater' = [heldLater EXCEPT ![p] =
                       @ \cup {[to |-> q, msg |-> Made(p, cur[p], "later")]}]
    BY <1>3, <1>k DEF SendLater
  <2>2. \A r \in Procs : heldLater'[r] =
          IF r = p THEN heldLater[p] \cup {[to |-> q, msg |-> Made(p, cur[p], "later")]}
                   ELSE heldLater[r]
    BY <2>1, <1>t
  <2>3. PutsHeld(p, q)
    BY <2>1, <2>2 DEF PutsHeld, Boxes, Outs, NoneSpent
  <2> QED
    BY <2>1, <2>3
<1>b. ASSUME NEW q \in Procs, NEW m \in Message, Enqueue(q, m), m.id = made + 1,
             m.kind = "ask" \/ m.from = Main, made' = made + 1, Len(mailbox[q]) < Bound[q],
             UNCHANGED <<outbox, heldLater, later, committed, cur>>
      PROVE  PutsBox(q, m)
  <2>1. \A r \in Procs : mailbox'[r] = IF r = q THEN Append(mailbox[q], m) ELSE mailbox[r]
    BY <1>b, <1>t DEF Enqueue
  <2> QED
    BY <1>b, <2>1 DEF PutsBox, Outs, Helds, NoneSpent
<1>l. ASSUME NEW c \in Callers, NEW q \in Procs, HasRoom(c, q) PROVE Len(mailbox[q]) < Bound[q]
  <2> DEFINE waits == Len(mailbox[q])
             held == IF c = Main THEN 0 ELSE Len(outbox[c][q])
  <2>1. waits \in Nat /\ Bound[q] \in Nat
    BY <1>t, LenProperties, BoundAssumption
  <2>2. held \in Nat
    BY <1>t, LenProperties
  <2>3. waits + held < Bound[q]
    BY <1>l DEF HasRoom
  <2> HIDE DEF waits, held
  <2>4. waits < Bound[q]
    BY <2>1, <2>2, <2>3
  <2> QED
    BY <2>4 DEF waits
<1>4. ASSUME NEW c \in Callers, NEW q \in Knows[c], Ask(c, q)
      PROVE  \E r \in Procs : \E m \in Message : PutsBox(r, m)
  <2> DEFINE u == IF c = Main THEN 0 ELSE cur[c]
             m == Made(c, u, "ask")
  <2>1. u \in Nat
    BY <1>t
  <2>2. m \in Message /\ m.id = made + 1 /\ m.kind = "ask"
    BY <2>1, <1>t DEF Made, Message
  <2>3. q \in Procs /\ Enqueue(q, m) /\ made' = made + 1
        /\ UNCHANGED <<outbox, heldLater, later, committed, cur>>
    BY <1>4, <1>k DEF Ask
  <2>4. Len(mailbox[q]) < Bound[q]
    BY <1>4, <2>3, <1>l DEF Ask
  <2> HIDE DEF m
  <2> QED
    BY <2>2, <2>3, <2>4, <1>b
<1>5. ASSUME NEW q \in Knows[Main], MainSend(q)
      PROVE  \E r \in Procs : \E m \in Message : PutsBox(r, m)
  <2> DEFINE m == Made(Main, 0, "send")
  <2>2. m \in Message /\ m.id = made + 1 /\ m.from = Main
    BY <1>t DEF Made, Message
  <2>3. q \in Procs /\ Enqueue(q, m) /\ made' = made + 1
        /\ UNCHANGED <<outbox, heldLater, later, committed, cur>>
    BY <1>5, <1>k DEF MainSend
  <2>4. Len(mailbox[q]) < Bound[q]
    BY <1>5, <2>3, <1>l DEF MainSend
  <2> HIDE DEF m
  <2> QED
    BY <2>2, <2>3, <2>4, <1>b
<1>6. ASSUME NEW q \in Knows[Main], MainSendLater(q) PROVE \E r \in Procs : PutsLater(r)
  BY <1>6, <1>k DEF MainSendLater, PutsLater, Boxes, Outs, Helds, NoneSpent, procVars
<1>7. ASSUME NEW q \in Procs, Take(q) PROVE Takes(q)
  <2>1. UNCHANGED <<made, outbox, heldLater, later, committed>> /\ mailbox[q] # <<>>
        /\ mailbox' = [mailbox EXCEPT ![q] = Tail(@)]
        /\ cur' = [cur EXCEPT ![q] = Head(mailbox[q]).id]
    BY <1>7 DEF Take
  <2>2. /\ \A r \in Procs : mailbox'[r] = IF r = q THEN Tail(mailbox[q]) ELSE mailbox[r]
        /\ \A p \in Procs : cur'[p] = IF p = q THEN Head(mailbox[q]).id ELSE cur[p]
    BY <2>1, <1>t
  <2> QED
    BY <2>1, <2>2 DEF Takes, Outs, Helds
<1>8. ASSUME NEW l \in later, DueLater(l) PROVE TimesOut(l)
  <2>1. UNCHANGED <<made, outbox, heldLater, committed, cur>> /\ later' = later \ {l}
        /\ ((Enqueue(l.to, l.msg) /\ Accepts(l.to)) \/ mailbox' = mailbox)
        /\ l.to \in Procs
    BY <1>8, <1>t DEF DueLater, Outgoing
  <2>2. /\ \A r \in Procs : mailbox'[r] \in {mailbox[r], Append(mailbox[r], l.msg)}
        /\ \A r \in Procs : mailbox'[r] # mailbox[r] => r = l.to /\ Len(mailbox[r]) < Bound[r]
    BY <2>1, <1>t DEF Enqueue, Accepts
  <2> QED
    BY <2>1, <2>2 DEF TimesOut, Outs, Helds, NoneSpent
<1>c. ASSUME NEW p \in Procs, ClearsHeld(p)
      PROVE  /\ \A r, q \in Procs : outbox'[r][q] = IF r = p THEN <<>> ELSE outbox[r][q]
             /\ \A r \in Procs : heldLater'[r] = IF r = p THEN {} ELSE heldLater[r]
  BY <1>c, <1>t DEF ClearsHeld
<1>9. ASSUME NEW p \in Procs, Commit(p) PROVE LetsGo(p)
  <2>1. /\ UNCHANGED <<made, cur>> /\ committed' = committed \cup {cur[p]} /\ Busy(p)
        /\ later' \subseteq later \cup heldLater[p] /\ mailbox' = Flushed(p) /\ ClearsHeld(p)
    BY <1>9 DEF Commit, Runs
  <2>2. \A q \in Procs : mailbox'[q] \in {mailbox[q], mailbox[q] \o outbox[p][q]}
    BY <2>1 DEF Flushed
  <2> QED
    BY <2>1, <2>2, <1>c DEF LetsGo
<1>10. ASSUME NEW p \in Procs, Crash(p) PROVE Loses(p)
  <2>1. /\ UNCHANGED <<made, cur, committed, later>>
        /\ \E emptied \in BOOLEAN : Drops(p, emptied)
    BY <1>10 DEF Crash, CrashStaysDown, CrashRestarts, CrashGivesUp
  <2>2. ClearsHeld(p) /\ \A q \in Procs : mailbox'[q] \in {mailbox[q], <<>>}
    BY <2>1, <1>t DEF Drops
  <2> QED
    BY <2>1, <2>2, <1>c DEF Loses
<1>11. ASSUME NEW p \in Procs, Settle(p) PROVE Rests
  <2>1. UNCHANGED <<made, mailbox, outbox, heldLater, later, committed>>
        /\ cur' = [cur EXCEPT ![p] = 0]
    BY <1>11 DEF Settle
  <2>2. \A r \in Procs : cur'[r] \in {0, cur[r]}
    BY <2>1, <1>t
  <2> QED
    BY <2>1, <2>2 DEF Rests, Boxes, Outs, Helds, NoneSpent
<1>12. ASSUME NEW p \in Procs, Defer(p) \/ \E id \in kept[p] \cup {cur[p]} : Answer(p, id)
       PROVE  Rests
  BY <1>12, <1>r DEF Defer, Answer
<1>13. ASSUME NEW q, MainOverflows(q) PROVE Rests
  BY <1>13, <1>r DEF MainOverflows, procVars
<1>14. ASSUME NEW c \in Callers, AskReturns(c) \/ AskGivesUp(c) \/ AskStepsAside(c) \/ AskParks(c) \/ Expire(c)
       PROVE  Rests
  BY <1>14, <1>r DEF AskReturns, AskGivesUp, AskStepsAside, AskParks, Expire, procVars
<1>15. ASSUME NEW c \in Callers, AskDelivers(c) PROVE \E q \in Procs : Takes(q)
  <2>1. asking[c].to \in Procs /\ Take(asking[c].to)
    BY <1>15 DEF AskDelivers, InPass, TypeOK
  <2> QED
    BY <2>1, <1>7
<1>16. ASSUME NEW s \in Scheds, NEW p \in Procs, Resume(s, p) PROVE Rests
  BY <1>16, <1>r DEF Resume, procVars
<1>17. ASSUME NEW s \in Scheds, NEW p \in Procs, Deliver(s, p) PROVE Takes(p)
  BY <1>17, <1>7 DEF Deliver
<1>18. ASSUME MainRow
       PROVE  \/ Rests \/ \E q \in Procs : PutsLater(q)
              \/ \E q \in Procs : \E m \in Message : PutsBox(q, m)
  BY <1>18, <1>4, <1>5, <1>6, <1>13 DEF MainRow
<1>19. ASSUME NEW p \in Procs, Row(p)
       PROVE  \/ Rests
              \/ \E r, q \in Procs : PutsOut(r, q) \/ PutsHeld(r, q)
              \/ \E q \in Procs : \E m \in Message : PutsBox(q, m)
  BY <1>19, <1>2, <1>3, <1>4, <1>12 DEF Row
<1>20. ASSUME NEW c \in Callers, Pass(c) \/ Expire(c)
       PROVE  Rests \/ \E q \in Procs : Takes(q)
  BY <1>20, <1>14, <1>15 DEF Pass
<1>21. ASSUME NEW s \in Scheds, Turn(s)
       PROVE  Rests \/ \E q \in Procs : Takes(q)
  BY <1>21, <1>16, <1>17 DEF Turn
<1> HIDE DEF Rests, PutsOut, PutsHeld, PutsLater, PutsBox, Takes, TimesOut, LetsGo, Loses
<1> QED
  BY <1>1, <1>8, <1>9, <1>10, <1>11, <1>18, <1>19, <1>20, <1>21 DEF Next

-----------------------------------------------------------------------------
(* One message, one place.                                                 *)

(* What In says of each kind of place.                                     *)
LEMMA Places ==
  ASSUME NEW id
  PROVE  /\ \A q \in Procs : In(id, Box(q)) <=> id \in Ids(mailbox[q])
         /\ \A p, q \in Procs : In(id, Out(p, q)) <=> id \in Ids(outbox[p][q])
         /\ \A p \in Procs : In(id, Held(p)) <=> \E o \in heldLater[p] : o.msg.id = id
         /\ In(id, Later) <=> \E l \in later : l.msg.id = id
BY DEF In, Box, Out, Held, Later

LEMMA PlacesNext ==
  ASSUME NEW id
  PROVE  /\ \A q \in Procs : In(id, Box(q))' <=> id \in Ids(mailbox'[q])
         /\ \A p, q \in Procs : In(id, Out(p, q))' <=> id \in Ids(outbox'[p][q])
         /\ \A p \in Procs : In(id, Held(p))' <=> \E o \in heldLater'[p] : o.msg.id = id
         /\ In(id, Later)' <=> \E l \in later' : l.msg.id = id
BY DEF In, Box, Out, Held, Later, Ids

(* A message somewhere is in a place of one of the four kinds.             *)
LEMMA PlacesCases ==
  ASSUME NEW id, NEW x
  PROVE  /\ In(id, x) => \/ \E q \in Procs : x = Box(q)
                         \/ \E p, q \in Procs : x = Out(p, q)
                         \/ \E p \in Procs : x = Held(p)
                         \/ x = Later
         /\ In(id, x)' => \/ \E q \in Procs : x = Box(q)
                          \/ \E p, q \in Procs : x = Out(p, q)
                          \/ \E p \in Procs : x = Held(p)
                          \/ x = Later
BY DEF In

LEMMA PlacesDiffer ==
  /\ \A p, q, r, t : Box(p) # Out(q, r) /\ Box(p) # Held(q) /\ Box(p) # Later
                     /\ Out(p, q) # Held(r) /\ Out(p, q) # Later /\ Held(p) # Later
                     /\ (Out(p, q) = Out(r, t) => p = r /\ q = t)
                     /\ (Box(p) = Box(q) => p = q) /\ (Held(p) = Held(q) => p = q)
BY DEF Box, Out, Held, Later

LEMMA PlacesNamed == \A id, x : In(id, x) => x \in PlaceNames
BY DEF In, Box, Out, Held, Later, PlaceNames

(* Messages go away or stay.                                               *)
LEMMA FewerApart ==
  ASSUME PlaceInv, made' = made, \A id, x : In(id, x)' => In(id, x),
         \A id \in Nat : Spent(id)' => Spent(id) \/ (id <= made /\ \A x : ~In(id, x)')
  PROVE  PlacesApart' /\ Unspent' /\ Given'
<1>1. \A id \in Nat : Spent(id)' \/ (\E x : In(id, x)') => id <= made'
  BY DEF PlaceInv, Given
<1>2. \A id \in Nat : \A x : In(id, x)' => ~Spent(id)'
  BY DEF PlaceInv, Unspent
<1>3. \A id \in Nat : \A x, y : In(id, x)' /\ In(id, y)' => x = y
  BY DEF PlaceInv, PlacesApart, Apart
<1> QED
  BY <1>1, <1>2, <1>3 DEF PlacesApart, Apart, Unspent, Given

(* Each message is where it was, or where its place's content goes.        *)
LEMMA MovedApart ==
  ASSUME PlaceInv, made' = made, \A id \in Nat : Spent(id)' => Spent(id),
         \A id \in Nat : \E f : \A x : In(id, x)' => \E y : In(id, y) /\ f[y] = x
  PROVE  PlacesApart' /\ Unspent' /\ Given'
<1>1. \A id \in Nat : \A x, z : In(id, x)' /\ In(id, z)' => x = z
  <2> TAKE id \in Nat
  <2>1. \A x, y : In(id, x) /\ In(id, y) => x = y
    BY DEF PlaceInv, PlacesApart, Apart
  <2>2. PICK f : \A x : In(id, x)' => \E y : In(id, y) /\ f[y] = x
    OBVIOUS
  <2> QED
    BY <2>1, <2>2
<1>2. \A id \in Nat : (\E x : In(id, x)') => \E y : In(id, y)
  OBVIOUS
<1>3. \A id \in Nat : \A x : In(id, x)' => ~Spent(id)'
  BY <1>2 DEF PlaceInv, Unspent
<1>4. \A id \in Nat : Spent(id)' \/ (\E x : In(id, x)') => id <= made'
  BY <1>2 DEF PlaceInv, Given
<1> QED
  BY <1>1, <1>3, <1>4 DEF PlacesApart, Apart, Unspent, Given

(* One new message, in one place.                                          *)
LEMMA MadeApart ==
  ASSUME PlaceInv, made' = made + 1, NoneSpent, NEW x0,
         \A id \in Nat : \A x : In(id, x)' => In(id, x) \/ (id = made + 1 /\ x = x0)
  PROVE  PlacesApart' /\ Unspent' /\ Given'
<1>0. made \in Nat
  BY DEF PlaceInv, TypeOK
<1>1. \A id \in Nat : Spent(id)' => Spent(id)
  BY DEF NoneSpent, Spent, Busy
<1>2. ~Spent(made + 1) /\ \A x : ~In(made + 1, x)
  BY <1>0 DEF PlaceInv, Given
<1>3. ASSUME NEW id \in Nat PROVE Apart(id)'
  <2>1. \A x, y : In(id, x) /\ In(id, y) => x = y
    BY DEF PlaceInv, PlacesApart, Apart
  <2>2. \A x, y : In(id, x)' /\ In(id, y)' => x = y
    BY <1>2, <2>1
  <2> QED
    BY <2>2 DEF Apart
<1>4. \A id \in Nat : \A x : In(id, x)' => ~Spent(id)'
  BY <1>1, <1>2 DEF PlaceInv, Unspent
<1>5. \A id \in Nat : Spent(id)' \/ (\E x : In(id, x)') => id <= made'
  BY <1>0, <1>1 DEF PlaceInv, Given
<1> QED
  BY <1>3, <1>4, <1>5 DEF PlacesApart, Unspent, Given

-----------------------------------------------------------------------------
LEMMA RestPlaces ==
  ASSUME PlaceInv, Rests PROVE PlacesApart' /\ Unspent' /\ Given' /\ Differing'
<1>1. \A id \in Nat : Spent(id)' => Spent(id)
  BY DEF Rests, NoneSpent, Spent, Busy
<1>2. \A id, x : In(id, x)' => In(id, x)
  BY DEF Rests, Boxes, Outs, Helds, In
<1>3. Differing'
  BY DEF PlaceInv, Differing, Rests, Boxes, Outs, Helds
<1> QED
  BY <1>1, <1>2, <1>3, FewerApart DEF Rests

LEMMA PutPlaces ==
  ASSUME PlaceInv,
         \/ \E p, q \in Procs : PutsOut(p, q) \/ PutsHeld(p, q)
         \/ \E q \in Procs : PutsLater(q)
         \/ \E q \in Procs : \E m \in Message : PutsBox(q, m)
  PROVE  PlacesApart' /\ Unspent' /\ Given' /\ Differing'
<1>t. /\ mailbox \in [Procs -> Seq(Message)] /\ outbox \in [Procs -> [Procs -> Seq(Message)]]
      /\ cur \in [Procs -> Nat] /\ made \in Nat
  BY DEF PlaceInv, TypeOK
<1>n. made + 1 \in Nat /\ \A x : ~In(made + 1, x)
  BY <1>t DEF PlaceInv, Given
<1>d. Differing
  BY DEF PlaceInv
<1>1. ASSUME NEW p \in Procs, NEW q \in Procs, PutsOut(p, q)
      PROVE  PlacesApart' /\ Unspent' /\ Given' /\ Differing'
  <2> DEFINE m == Made(p, cur[p], "send")
  <2>1. m \in Message /\ m.id = made + 1
    BY <1>t DEF Made, Message
  <2>2. \A r, t \in Procs : outbox'[r][t] =
          IF r = p /\ t = q THEN Append(outbox[p][q], m) ELSE outbox[r][t]
    BY <1>1 DEF PutsOut
  <2>3. UNCHANGED later /\ Boxes /\ Helds /\ made' = made + 1 /\ NoneSpent
    BY <1>1 DEF PutsOut
  <2> HIDE DEF m
  <2>4. Ids(Append(outbox[p][q], m)) = Ids(outbox[p][q]) \cup {made + 1}
    BY <2>1, <1>t, IdsOfAppend
  <2>5. \A id \in Nat : \A x : In(id, x)' => In(id, x) \/ (id = made + 1 /\ x = Out(p, q))
    BY <2>2, <2>3, <2>4 DEF In, Boxes, Helds
  <2>6. made + 1 \notin Ids(outbox[p][q])
    BY <1>n, Places
  <2>7. Differ(Append(outbox[p][q], m))
    BY <2>1, <2>6, <1>t, <1>d, AppendDiffers DEF Differing
  <2>8. Differing'
    BY <2>2, <2>3, <2>7, <1>d DEF Differing, Boxes, Helds
  <2> QED
    BY <2>3, <2>5, <2>8, MadeApart
<1>2. ASSUME NEW p \in Procs, NEW q \in Procs, PutsHeld(p, q)
      PROVE  PlacesApart' /\ Unspent' /\ Given' /\ Differing'
  <2> DEFINE o == [to |-> q, msg |-> Made(p, cur[p], "later")]
  <2>1. o.msg.id = made + 1
    BY <1>t DEF Made
  <2>2. \A r \in Procs : heldLater'[r] = IF r = p THEN heldLater[p] \cup {o} ELSE heldLater[r]
    BY <1>2 DEF PutsHeld
  <2>3. UNCHANGED later /\ Boxes /\ Outs /\ made' = made + 1 /\ NoneSpent
    BY <1>2 DEF PutsHeld
  <2> HIDE DEF o
  <2>4. \A id \in Nat : \A x : In(id, x)' => In(id, x) \/ (id = made + 1 /\ x = Held(p))
    BY <2>1, <2>2, <2>3 DEF In, Boxes, Outs
  <2>5. \A l \in heldLater[p] : l.msg.id # made + 1
    BY <1>n, Places
  <2>6. DifferLater(heldLater[p] \cup {o})
    BY <2>1, <2>5, <1>d DEF Differing, DifferLater
  <2>7. Differing'
    BY <2>2, <2>3, <2>6, <1>d DEF Differing, Boxes, Outs
  <2> QED
    BY <2>3, <2>4, <2>7, MadeApart
<1>3. ASSUME NEW q \in Procs, PutsLater(q)
      PROVE  PlacesApart' /\ Unspent' /\ Given' /\ Differing'
  <2> DEFINE o == [to |-> q, msg |-> Made(Main, 0, "later")]
  <2>1. o.msg.id = made + 1
    BY <1>t DEF Made
  <2>3. later' = later \cup {o} /\ Boxes /\ Outs /\ Helds /\ made' = made + 1 /\ NoneSpent
    BY <1>3 DEF PutsLater
  <2> HIDE DEF o
  <2>4. \A id \in Nat : \A x : In(id, x)' => In(id, x) \/ (id = made + 1 /\ x = Later)
    BY <2>1, <2>3 DEF In, Boxes, Outs, Helds
  <2>5. \A l \in later : l.msg.id # made + 1
    BY <1>n, Places
  <2>6. DifferLater(later \cup {o})
    BY <2>1, <2>5, <1>d DEF Differing, DifferLater
  <2>7. Differing'
    BY <2>3, <2>6, <1>d DEF Differing, Boxes, Outs, Helds
  <2> QED
    BY <2>3, <2>4, <2>7, MadeApart
<1>4. ASSUME NEW q \in Procs, NEW m \in Message, PutsBox(q, m)
      PROVE  PlacesApart' /\ Unspent' /\ Given' /\ Differing'
  <2>2. /\ \A r \in Procs : mailbox'[r] = IF r = q THEN Append(mailbox[q], m) ELSE mailbox[r]
        /\ UNCHANGED later /\ Outs /\ Helds /\ made' = made + 1 /\ NoneSpent /\ m.id = made + 1
    BY <1>4 DEF PutsBox
  <2>3. Ids(Append(mailbox[q], m)) = Ids(mailbox[q]) \cup {made + 1}
    BY <2>2, <1>t, IdsOfAppend
  <2>4. \A id \in Nat : \A x : In(id, x)' => In(id, x) \/ (id = made + 1 /\ x = Box(q))
    BY <2>2, <2>3 DEF In, Outs, Helds
  <2>5. made + 1 \notin Ids(mailbox[q])
    BY <1>n, Places
  <2>6. Differ(Append(mailbox[q], m))
    BY <2>2, <2>5, <1>t, <1>d, AppendDiffers DEF Differing
  <2>7. Differing'
    BY <2>2, <2>6, <1>d DEF Differing, Outs, Helds
  <2> QED
    BY <2>2, <2>4, <2>7, MadeApart
<1> QED
  BY <1>1, <1>2, <1>3, <1>4

LEMMA LosePlaces ==
  ASSUME PlaceInv, NEW p \in Procs, Loses(p)
  PROVE  PlacesApart' /\ Unspent' /\ Given' /\ Differing'
<1>1. /\ \A id, q : q \in Procs /\ id \in Ids(mailbox'[q]) => id \in Ids(mailbox[q])
      /\ \A id, r, q : r \in Procs /\ q \in Procs /\ id \in Ids(outbox'[r][q]) => id \in Ids(outbox[r][q])
  BY EmptyIs DEF Loses
<1>2. /\ \A r \in Procs : heldLater'[r] \subseteq heldLater[r]
      /\ later' = later
  BY DEF Loses
<1>3. \A id, x : In(id, x)' => In(id, x)
  BY <1>1, <1>2 DEF In
<1>4. \A id \in Nat : Spent(id)' => Spent(id)
  BY DEF Loses, Spent, Busy
<1>5. Differing'
  BY <1>2, EmptyIs DEF PlaceInv, Differing, DifferLater, Loses
<1> QED
  BY <1>3, <1>4, <1>5, FewerApart DEF Loses

LEMMA TakePlaces ==
  ASSUME PlaceInv, NEW q \in Procs, Takes(q)
  PROVE  PlacesApart' /\ Unspent' /\ Given' /\ Differing'
<1>h. PICK h : h = Head(mailbox[q]).id
  OBVIOUS
<1>1. mailbox[q] \in Seq(Message) /\ mailbox[q] # <<>> /\ Differ(mailbox[q])
  BY DEF PlaceInv, TypeOK, Differing, Takes
<1>2. h \in Nat
  <2>1. Head(mailbox[q]) \in Message
    BY <1>1, HeadTailProperties
  <2> QED
    BY <1>h, <2>1 DEF Message
<1>3. /\ Differ(Tail(mailbox[q])) /\ Ids(Tail(mailbox[q])) \subseteq Ids(mailbox[q])
      /\ h \in Ids(mailbox[q]) /\ h \notin Ids(Tail(mailbox[q]))
  BY <1>h, <1>1, TailDiffers
<1>4. /\ \A r \in Procs : mailbox'[r] = IF r = q THEN Tail(mailbox[q]) ELSE mailbox[r]
      /\ \A p \in Procs : cur'[p] = IF p = q THEN h ELSE cur[p]
      /\ made' = made /\ Outs /\ Helds /\ later' = later /\ committed' = committed
  BY <1>h DEF Takes
<1>5. \A id, x : In(id, x)' => In(id, x)
  BY <1>3, <1>4 DEF In, Outs, Helds
<1>6. In(h, Box(q)) /\ \A x : In(h, x) => x = Box(q)
  BY <1>2, <1>3, Places DEF PlaceInv, PlacesApart, Apart
<1>7. ~In(h, Box(q))'
  BY <1>3, <1>4, PlacesNext
<1>8. h <= made /\ \A x : ~In(h, x)'
  BY <1>2, <1>5, <1>6, <1>7 DEF PlaceInv, Given
<1>9. \A id \in Nat : Spent(id)' => Spent(id) \/ id = h
  BY <1>4 DEF Spent, Busy
<1>10. Differing'
  BY <1>3, <1>4 DEF PlaceInv, Differing, Outs, Helds
<1> QED
  BY <1>4, <1>5, <1>8, <1>9, <1>10, FewerApart

LEMMA TimeOutPlaces ==
  ASSUME PlaceInv, NEW l \in later, TimesOut(l)
  PROVE  PlacesApart' /\ Unspent' /\ Given' /\ Differing'
<1> DEFINE i == l.msg.id
<1>1. l.msg \in Message /\ l.to \in Procs /\ i \in Nat
  BY DEF PlaceInv, TypeOK, Outgoing, Message
<1>2. /\ \A r \in Procs : mailbox'[r] \in {mailbox[r], Append(mailbox[r], l.msg)}
      /\ \A r \in Procs : mailbox'[r] # mailbox[r] => r = l.to
      /\ made' = made /\ Outs /\ Helds /\ later' = later \ {l} /\ NoneSpent
  BY DEF TimesOut
<1>3. \A r \in Procs : mailbox[r] \in Seq(Message)
  BY DEF PlaceInv, TypeOK
<1>4. In(i, Later) /\ \A x : In(i, x) => x = Later
  BY <1>1, Places DEF PlaceInv, PlacesApart, Apart
<1>5. \A r \in Procs : Ids(Append(mailbox[r], l.msg)) = Ids(mailbox[r]) \cup {i}
  BY <1>1, <1>3, IdsOfAppend
<1> HIDE DEF i
<1>6. \A m \in later' : m.msg.id # i
  BY <1>2 DEF i, PlaceInv, Differing, DifferLater
<1>7. \A id, x : In(id, x)' => In(id, x) \/ (id = i /\ x = Box(l.to))
  <2> SUFFICES ASSUME NEW id, NEW x, In(id, x)' PROVE In(id, x) \/ (id = i /\ x = Box(l.to))
    OBVIOUS
  <2>1. ASSUME NEW q \in Procs, x = Box(q) PROVE In(id, x) \/ (id = i /\ x = Box(l.to))
    <3>1. id \in Ids(mailbox'[q])
      BY <2>1, PlacesNext
    <3>2. CASE mailbox'[q] = mailbox[q]
      BY <2>1, <3>1, <3>2, Places
    <3>3. CASE mailbox'[q] # mailbox[q]
      <4>1. q = l.to /\ mailbox'[q] = Append(mailbox[q], l.msg)
        BY <1>2, <3>3
      <4>2. id \in Ids(mailbox[q]) \/ id = i
        BY <3>1, <4>1, <1>5
      <4> QED
        BY <2>1, <4>1, <4>2, Places
    <3> QED
      BY <3>2, <3>3
  <2>2. ASSUME NEW p \in Procs, NEW q \in Procs, x = Out(p, q) PROVE In(id, x)
    <3>1. id \in Ids(outbox'[p][q]) /\ outbox'[p][q] = outbox[p][q]
      BY <1>2, <2>2, PlacesNext DEF Outs
    <3> QED
      BY <2>2, <3>1, Places
  <2>3. ASSUME NEW p \in Procs, x = Held(p) PROVE In(id, x)
    <3>1. (\E o \in heldLater'[p] : o.msg.id = id) /\ heldLater'[p] = heldLater[p]
      BY <1>2, <2>3, PlacesNext DEF Helds
    <3> QED
      BY <2>3, <3>1, Places
  <2>4. CASE x = Later
    BY <1>2, <2>4, Places, PlacesNext
  <2> QED
    BY <2>1, <2>2, <2>3, <2>4, PlacesCases
<1>8. ~In(i, Later)'
  BY <1>6, PlacesNext
<1>9. ASSUME NEW id \in Nat
      PROVE  \E f : \A x : In(id, x)' => \E y : In(id, y) /\ f[y] = x
  <2> DEFINE f == [y \in PlaceNames |-> IF id = i THEN Box(l.to) ELSE y]
  <2>1. ASSUME NEW x, In(id, x)' PROVE \E y : In(id, y) /\ f[y] = x
    <3>1. CASE id = i
      <4>1. x = Box(l.to)
        BY <3>1, <2>1, <1>4, <1>7, <1>8
      <4>2. In(id, Later) /\ Later \in PlaceNames
        BY <3>1, <1>4, PlacesNamed
      <4> QED
        BY <3>1, <4>1, <4>2
    <3>2. CASE id # i
      <4>1. In(id, x) /\ x \in PlaceNames
        BY <3>2, <2>1, <1>7, PlacesNamed
      <4> QED
        BY <3>2, <4>1
    <3> QED
      BY <3>1, <3>2
  <2> HIDE DEF f
  <2> QED
    BY <2>1
<1>10. \A id \in Nat : Spent(id)' => Spent(id)
  BY <1>2 DEF NoneSpent, Spent, Busy
<1>11. \A r \in Procs : Differ(Append(mailbox[r], l.msg))
  <2> TAKE r \in Procs
  <2>1. i \notin Ids(mailbox[r])
    BY <1>4, Places, PlacesDiffer
  <2> QED
    BY <2>1, <1>1, <1>3, AppendDiffers DEF i, PlaceInv, Differing
<1>12. Differing'
  BY <1>2, <1>11 DEF PlaceInv, Differing, DifferLater, Outs, Helds
<1> QED
  BY <1>2, <1>9, <1>10, <1>12, MovedApart

LEMMA LetGoPlaces ==
  ASSUME PlaceInv, NEW p \in Procs, LetsGo(p)
  PROVE  PlacesApart' /\ Unspent' /\ Given' /\ Differing'
<1>1. /\ Busy(p) /\ made' = made /\ cur' = cur /\ committed' = committed \cup {cur[p]}
      /\ \A q \in Procs : mailbox'[q] \in {mailbox[q], mailbox[q] \o outbox[p][q]}
      /\ \A r, q \in Procs : outbox'[r][q] = IF r = p THEN <<>> ELSE outbox[r][q]
      /\ \A r \in Procs : heldLater'[r] = IF r = p THEN {} ELSE heldLater[r]
      /\ later' \subseteq later \cup heldLater[p]
  BY DEF LetsGo
<1>2. \A q \in Procs : mailbox[q] \in Seq(Message) /\ outbox[p][q] \in Seq(Message)
  BY DEF PlaceInv, TypeOK
<1>3. \A q \in Procs : Ids(mailbox[q]) \subseteq Nat /\ Ids(outbox[p][q]) \subseteq Nat
  BY <1>2, IdsAreNat
<1>4. \A q \in Procs : Ids(mailbox[q]) \cap Ids(outbox[p][q]) = {}
  <2> SUFFICES ASSUME NEW q \in Procs, NEW id \in Nat,
                      id \in Ids(mailbox[q]), id \in Ids(outbox[p][q])
               PROVE  FALSE
    BY <1>3
  <2>1. In(id, Box(q)) /\ In(id, Out(p, q))
    BY Places
  <2> QED
    BY <2>1, PlacesDiffer DEF PlaceInv, PlacesApart, Apart
<1>5. \A q \in Procs : /\ Differ(mailbox[q] \o outbox[p][q])
                       /\ Ids(mailbox[q] \o outbox[p][q]) = Ids(mailbox[q]) \cup Ids(outbox[p][q])
  BY <1>2, <1>4, ConcatDiffers DEF PlaceInv, Differing
<1>6. /\ \A q \in Procs : Ids(mailbox'[q]) \subseteq Ids(mailbox[q]) \cup Ids(outbox[p][q])
      /\ \A r, q \in Procs : Ids(outbox'[r][q]) = IF r = p THEN {} ELSE Ids(outbox[r][q])
  BY <1>1, <1>5, EmptyIs
<1>7. ASSUME NEW id, NEW x, In(id, x)'
      PROVE  \/ In(id, x) /\ x # Held(p) /\ \A q \in Procs : x # Out(p, q)
             \/ \E q \in Procs : x = Box(q) /\ In(id, Out(p, q))
             \/ x = Later /\ In(id, Held(p))
  <2> DEFINE Moved == \/ In(id, x) /\ x # Held(p) /\ \A q \in Procs : x # Out(p, q)
                      \/ \E q \in Procs : x = Box(q) /\ In(id, Out(p, q))
                      \/ x = Later /\ In(id, Held(p))
  <2>1. ASSUME NEW q \in Procs, x = Box(q) PROVE Moved
    <3>1. id \in Ids(mailbox'[q])
      BY <1>7, <2>1, PlacesNext
    <3>2. In(id, Box(q)) \/ In(id, Out(p, q))
      BY <3>1, <1>6, Places
    <3>3. x # Held(p) /\ \A r \in Procs : x # Out(p, r)
      BY <2>1, PlacesDiffer
    <3> QED
      BY <2>1, <3>2, <3>3
  <2>2. ASSUME NEW r \in Procs, NEW q \in Procs, x = Out(r, q) PROVE Moved
    <3>1. id \in Ids(outbox'[r][q])
      BY <1>7, <2>2, PlacesNext
    <3>2. r # p /\ id \in Ids(outbox[r][q])
      BY <3>1, <1>6
    <3>4. In(id, Out(r, q))
      BY <3>2, Places
    <3>3. x # Held(p) /\ \A t \in Procs : x # Out(p, t)
      BY <2>2, <3>2, PlacesDiffer
    <3> QED
      BY <2>2, <3>4, <3>3
  <2>3. ASSUME NEW r \in Procs, x = Held(r) PROVE Moved
    <3>1. \E o \in heldLater'[r] : o.msg.id = id
      BY <1>7, <2>3, PlacesNext
    <3>2. r # p /\ In(id, Held(r))
      BY <3>1, <1>1, Places
    <3>3. x # Held(p) /\ \A t \in Procs : x # Out(p, t)
      BY <2>3, <3>2, PlacesDiffer
    <3> QED
      BY <2>3, <3>2, <3>3
  <2>4. CASE x = Later
    <3>1. \E l \in later' : l.msg.id = id
      BY <1>7, <2>4, PlacesNext
    <3>2. In(id, Later) \/ In(id, Held(p))
      BY <3>1, <1>1, Places
    <3>3. x # Held(p) /\ \A t \in Procs : x # Out(p, t)
      BY <2>4, PlacesDiffer
    <3> QED
      BY <2>4, <3>2, <3>3
  <2> QED
    BY <1>7, <2>1, <2>2, <2>3, <2>4, PlacesCases
<1>8. ASSUME NEW id \in Nat
      PROVE  \E f : \A x : In(id, x)' => \E y : In(id, y) /\ f[y] = x
  <2> DEFINE f == [y \in PlaceNames |->
                     IF y = Held(p) THEN Later
                     ELSE IF \E q \in Procs : y = Out(p, q)
                          THEN Box(CHOOSE q \in Procs : y = Out(p, q)) ELSE y]
  <2>1. ASSUME NEW x, In(id, x)' PROVE \E y : In(id, y) /\ f[y] = x
    <3>1. CASE In(id, x) /\ x # Held(p) /\ \A q \in Procs : x # Out(p, q)
      <4>1. x \in PlaceNames
        BY <3>1, PlacesNamed
      <4>2. f[x] = x
        BY <3>1, <4>1
      <4> QED
        BY <3>1, <4>2
    <3>2. ASSUME NEW q \in Procs, x = Box(q), In(id, Out(p, q)) PROVE \E y : In(id, y) /\ f[y] = x
      <4>1. Out(p, q) \in PlaceNames /\ Out(p, q) # Held(p)
        BY <3>2, PlacesNamed, PlacesDiffer
      <4>2. (CHOOSE r \in Procs : Out(p, q) = Out(p, r)) = q
        BY PlacesDiffer
      <4>3. f[Out(p, q)] = Box(q)
        BY <4>1, <4>2
      <4> QED
        BY <3>2, <4>3
    <3>3. CASE x = Later /\ In(id, Held(p))
      <4>1. Held(p) \in PlaceNames
        BY <3>3, PlacesNamed
      <4>2. f[Held(p)] = Later
        BY <4>1
      <4> QED
        BY <3>3, <4>2
    <3>4. \/ In(id, x) /\ x # Held(p) /\ \A q \in Procs : x # Out(p, q)
          \/ \E q \in Procs : x = Box(q) /\ In(id, Out(p, q))
          \/ x = Later /\ In(id, Held(p))
      BY <2>1, <1>7
    <3> HIDE DEF f
    <3> QED
      BY <3>1, <3>2, <3>3, <3>4
  <2> HIDE DEF f
  <2> QED
    BY <2>1
<1>9. \A id \in Nat : Spent(id)' => Spent(id)
  BY <1>1 DEF Spent, Busy
<1>10. DifferLater(later')
  <2> SUFFICES ASSUME NEW l \in later', NEW m \in later', l.msg.id = m.msg.id PROVE l = m
    BY DEF DifferLater
  <2>1. l \in Outgoing /\ m \in Outgoing
    BY <1>1 DEF PlaceInv, TypeOK
  <2>2. l.msg.id \in Nat
    BY <2>1 DEF Outgoing, Message
  <2>3. CASE l \in later /\ m \in later
    BY <2>3 DEF PlaceInv, Differing, DifferLater
  <2>8. CASE l \in heldLater[p] /\ m \in heldLater[p]
    BY <2>8 DEF PlaceInv, Differing, DifferLater
  <2>4. ASSUME In(l.msg.id, Later), In(l.msg.id, Held(p)) PROVE FALSE
    BY <2>2, <2>4, PlacesDiffer DEF PlaceInv, PlacesApart, Apart
  <2>5. CASE l \in later /\ m \in heldLater[p]
    <3>1. In(l.msg.id, Later) /\ In(l.msg.id, Held(p))
      BY <2>5, Places
    <3> QED
      BY <3>1, <2>4
  <2>6. CASE m \in later /\ l \in heldLater[p]
    <3>1. In(l.msg.id, Later) /\ In(l.msg.id, Held(p))
      BY <2>6, Places
    <3> QED
      BY <3>1, <2>4
  <2>7. (l \in later \/ l \in heldLater[p]) /\ (m \in later \/ m \in heldLater[p])
    BY <1>1
  <2> QED
    BY <2>3, <2>5, <2>6, <2>7, <2>8
<1>11. Differing'
  BY <1>1, <1>5, <1>10, EmptyIs DEF PlaceInv, Differing, DifferLater
<1> QED
  BY <1>1, <1>8, <1>9, <1>11, MovedApart

LEMMA PlaceKept == PlaceInv /\ [Next]_vars => PlaceInv'
<1> SUFFICES ASSUME PlaceInv, [Next]_vars PROVE PlaceInv'
  OBVIOUS
<1>1. TypeOK /\ TypeOK'
  BY TypeStep DEF PlaceInv
<1>2. \/ Rests
      \/ \E p, q \in Procs : PutsOut(p, q) \/ PutsHeld(p, q)
      \/ \E q \in Procs : PutsLater(q)
      \/ \E q \in Procs : \E m \in Message : PutsBox(q, m)
      \/ \E q \in Procs : Takes(q)
      \/ \E l \in later : TimesOut(l)
      \/ \E p \in Procs : LetsGo(p)
      \/ \E p \in Procs : Loses(p)
  BY <1>1, EveryStep
<1>3. PlacesApart' /\ Unspent' /\ Given' /\ Differing'
  BY <1>2, RestPlaces, PutPlaces, TakePlaces, TimeOutPlaces, LetGoPlaces, LosePlaces
<1> QED
  BY <1>1, <1>3 DEF PlaceInv

LEMMA PlaceInitial == Init => PlaceInv
<1> SUFFICES ASSUME Init PROVE PlaceInv
  OBVIOUS
<1>1. \A id, x : ~In(id, x)
  BY EmptyIs DEF Init, In
<1>2. \A id : ~Spent(id)
  BY DEF Init, Spent, Busy
<1>3. Differing
  BY EmptyIs DEF Init, Differing, DifferLater
<1> QED
  BY <1>1, <1>2, <1>3, TypeInit DEF PlaceInv, PlacesApart, Apart, Unspent, Given

(* A message is in one mailbox, once, and never again once its update took *)
(* it or committed (Sim.deliver, flush and takeLater), for any processes   *)
(* and programs.                                                           *)
THEOREM MessagesHaveOnePlace == Spec => []OnePlace
<1>1. PlaceInv => OnePlace
  <2> SUFFICES ASSUME PlaceInv PROVE OnePlace
    OBVIOUS
  <2>1. ASSUME NEW p \in Procs, NEW q \in Procs, NEW i \in 1..Len(mailbox[p]),
               NEW j \in 1..Len(mailbox[q]), mailbox[p][i].id = mailbox[q][j].id
        PROVE  p = q /\ i = j
    <3>1. mailbox[p][i].id \in Ids(mailbox[p]) /\ mailbox[p][i].id \in Ids(mailbox[q])
      BY <2>1 DEF Ids
    <3>2. mailbox[p][i].id \in Nat
      BY <3>1, IdsAreNat DEF PlaceInv, TypeOK
    <3>3. Box(p) = Box(q)
      <4>1. In(mailbox[p][i].id, Box(p)) /\ In(mailbox[p][i].id, Box(q))
        BY <3>1, Places
      <4> QED
        BY <3>2, <4>1 DEF PlaceInv, PlacesApart, Apart
    <3>4. p = q
      BY <3>3, PlacesDiffer
    <3> QED
      BY <2>1, <3>4 DEF PlaceInv, Differing, Differ
  <2>2. ASSUME NEW q \in Procs, NEW i \in 1..Len(mailbox[q])
        PROVE  LET id == mailbox[q][i].id
               IN  /\ id \notin committed
                   /\ \A l \in later : l.msg.id # id
                   /\ \A p \in Procs : cur[p] # id
                   /\ \A p, r \in Procs : id \notin Ids(outbox[p][r])
    <3> DEFINE id == mailbox[q][i].id
    <3>1. id \in Ids(mailbox[q])
      BY DEF Ids
    <3>2. id \in Nat \ {0}
      <4>1. mailbox[q] \in Seq(Message)
        BY DEF PlaceInv, TypeOK
      <4>2. mailbox[q][i] \in Message
        BY <4>1, ElementOfSeq
      <4> QED
        BY <4>2 DEF Message
    <3> HIDE DEF id
    <3>3. ~Spent(id) /\ \A x : In(id, x) => x = Box(q)
      BY <3>1, <3>2, Places DEF PlaceInv, PlacesApart, Apart, Unspent
    <3>4. id \notin committed /\ \A p \in Procs : cur[p] # id
      BY <3>2, <3>3 DEF Spent, Busy
    <3>5. ~In(id, Later) /\ \A p, r \in Procs : ~In(id, Out(p, r))
      BY <3>3, PlacesDiffer
    <3>6. /\ \A l \in later : l.msg.id # id
          /\ \A p, r \in Procs : id \notin Ids(outbox[p][r])
      BY <3>5, Places
    <3> QED
      BY <3>4, <3>6 DEF id
  <2> QED
    BY <2>1, <2>2 DEF OnePlace
<1> QED
  BY <1>1, PlaceInitial, PlaceKept, PTL DEF Spec

-----------------------------------------------------------------------------
(* The order of one sender's sends.                                        *)
LEMMA OrderKept == OrderInv /\ [Next]_vars => OrderInv'
<1> SUFFICES ASSUME OrderInv, [Next]_vars PROVE OrderInv'
  OBVIOUS
<1>t. TypeOK /\ TypeOK'
  BY TypeStep DEF OrderInv
<1>b. /\ \A q \in Procs : mailbox[q] \in Seq(Message)
      /\ \A p, q \in Procs : outbox[p][q] \in Seq(Message)
      /\ cur \in [Procs -> Nat] /\ made \in Nat
  BY <1>t DEF TypeOK
<1> DEFINE Mail(q) == InOrder(mailbox[q]) /\ Within(mailbox[q], made)
           Post(p, q) == /\ InOrder(outbox[p][q]) /\ Within(outbox[p][q], made)
                         /\ AllFrom(outbox[p][q], p)
                         /\ AllBefore(mailbox[q], outbox[p][q])
           Lates == AllLater(later) /\ \A p \in Procs : AllLater(heldLater[p])
<1>i. /\ \A q \in Procs : Mail(q)
      /\ \A p, q \in Procs : Post(p, q)
      /\ Lates
  BY DEF OrderInv
<1>k. ASSUME \A q \in Procs : Mail(q)', \A p, q \in Procs : Post(p, q)', Lates'
      PROVE  OrderInv'
  BY <1>t, <1>k DEF OrderInv
<1>n. /\ \A q \in Procs : Within(mailbox[q], made + 1)
      /\ \A p, q \in Procs : Within(outbox[p][q], made + 1)
  <2>1. [id |-> made + 1, from |-> Main, upd |-> 0, kind |-> "ask"] \in Message
    BY <1>b DEF Message
  <2> QED
    BY <1>b, <1>i, <2>1, NewestIsLast
<1>1. CASE Rests
  BY <1>1, <1>i, <1>k DEF Rests, Boxes, Outs, Helds
<1>2. ASSUME NEW p \in Procs, NEW q \in Procs, PutsOut(p, q) PROVE OrderInv'
  <2>1. PICK m : m = Made(p, cur[p], "send")
    OBVIOUS
  <2>2. m \in Message /\ m.id = made + 1 /\ m.from = p
    BY <1>b, <2>1 DEF Made, Message
  <2>3. /\ \A r, t \in Procs : outbox'[r][t] =
             IF r = p /\ t = q THEN Append(outbox[p][q], m) ELSE outbox[r][t]
        /\ made' = made + 1 /\ Boxes /\ Helds /\ later' = later
    BY <1>2, <2>1 DEF PutsOut
  <2>4. /\ \A i \in 1..Len(outbox[p][q]) : Before(outbox[p][q][i], m)
        /\ \A i \in 1..Len(mailbox[q]) : Before(mailbox[q][i], m)
    BY <1>b, <1>i, <2>2, NewestIsLast
  <2>5. /\ InOrder(Append(outbox[p][q], m))
        /\ AllFrom(Append(outbox[p][q], m), p)
        /\ AllBefore(mailbox[q], Append(outbox[p][q], m))
    BY <1>b, <1>i, <2>2, <2>4, AppendOrder, AppendFrom, BeforeAppend
  <2>6. Within(Append(outbox[p][q], m), made + 1)
    <3>1. m.id <= made + 1 /\ made + 1 \in Nat
      BY <1>b, <2>2
    <3> QED
      BY <1>b, <1>n, <2>2, <3>1, AppendWithin
  <2>7. \A r \in Procs : Mail(r)'
    BY <1>i, <1>n, <2>3 DEF Boxes
  <2>8. ASSUME NEW r \in Procs, NEW t \in Procs PROVE Post(r, t)'
    <3>1. CASE r = p /\ t = q
      BY <2>3, <2>5, <2>6, <3>1 DEF Boxes
    <3>2. CASE ~(r = p /\ t = q)
      BY <1>i, <1>n, <2>3, <3>2 DEF Boxes
    <3> QED
      BY <3>1, <3>2
  <2>9. Lates'
    BY <1>i, <2>3 DEF Helds
  <2> QED
    BY <1>k, <2>7, <2>8, <2>9
<1>3. ASSUME made' = made + 1, Boxes, Outs, Lates' PROVE OrderInv'
  BY <1>3, <1>i, <1>k, <1>n DEF Boxes, Outs
<1>4. ASSUME NEW p \in Procs, NEW q \in Procs, PutsHeld(p, q) PROVE OrderInv'
  <2>1. Lates'
    BY <1>i, <1>4 DEF PutsHeld, Made, AllLater
  <2> QED
    BY <1>3, <1>4, <2>1 DEF PutsHeld
<1>5. ASSUME NEW q \in Procs, PutsLater(q) PROVE OrderInv'
  <2>1. Lates'
    BY <1>i, <1>5 DEF PutsLater, Made, Helds, AllLater
  <2> QED
    BY <1>3, <1>5, <2>1 DEF PutsLater
<1>6. ASSUME NEW q \in Procs, NEW m \in Message, PutsBox(q, m) PROVE OrderInv'
  <2>1. /\ \A r \in Procs : mailbox'[r] = IF r = q THEN Append(mailbox[q], m) ELSE mailbox[r]
        /\ Outs /\ Helds /\ later' = later /\ made' = made + 1
        /\ m.id = made + 1 /\ (m.kind = "ask" \/ m.from = Main)
    BY <1>6 DEF PutsBox
  <2>2. \A i \in 1..Len(mailbox[q]) : Before(mailbox[q][i], m)
    BY <1>b, <1>i, <2>1, NewestIsLast
  <2>3. \A p \in Procs : \A j \in 1..Len(outbox[p][q]) : Before(m, outbox[p][q][j])
    BY <1>i, <2>1 DEF Before, AllFrom
  <2>4. InOrder(Append(mailbox[q], m)) /\ Within(Append(mailbox[q], m), made + 1)
    <3>1. m.id <= made + 1 /\ made + 1 \in Nat
      BY <1>b, <2>1
    <3> QED
      BY <1>b, <1>i, <1>n, <2>2, <3>1, AppendOrder, AppendWithin
  <2>5. \A p \in Procs : AllBefore(Append(mailbox[q], m), outbox[p][q])
    BY <1>b, <1>i, <2>3, AppendBefore
  <2>6. \A r \in Procs : Mail(r)'
    BY <1>i, <1>n, <2>1, <2>4
  <2>7. \A p, r \in Procs : Post(p, r)'
    BY <1>i, <1>n, <2>1, <2>5 DEF Outs
  <2>8. Lates'
    BY <1>i, <2>1 DEF Helds
  <2> QED
    BY <1>k, <2>6, <2>7, <2>8
<1>7. ASSUME NEW q \in Procs, Takes(q) PROVE OrderInv'
  <2>1. /\ \A r \in Procs : mailbox'[r] = IF r = q THEN Tail(mailbox[q]) ELSE mailbox[r]
        /\ Outs /\ Helds /\ later' = later /\ made' = made /\ mailbox[q] # <<>>
    BY <1>7 DEF Takes
  <2>2. /\ InOrder(Tail(mailbox[q])) /\ Within(Tail(mailbox[q]), made)
        /\ \A p \in Procs : AllBefore(Tail(mailbox[q]), outbox[p][q])
    BY <1>b, <1>i, <2>1, TailOrder
  <2>3. \A r \in Procs : Mail(r)'
    BY <1>i, <2>1, <2>2
  <2>4. \A p, r \in Procs : Post(p, r)'
    BY <1>i, <2>1, <2>2 DEF Outs
  <2>5. Lates'
    BY <1>i, <2>1 DEF Helds
  <2> QED
    BY <1>k, <2>3, <2>4, <2>5
<1>8. ASSUME NEW l \in later, TimesOut(l) PROVE OrderInv'
  <2>1. /\ \A r \in Procs : mailbox'[r] \in {mailbox[r], Append(mailbox[r], l.msg)}
        /\ Outs /\ Helds /\ later' = later \ {l} /\ made' = made
    BY <1>8 DEF TimesOut
  <2>2. l.msg.kind = "later" /\ l.msg \in Message
    BY <1>i, <1>t DEF TypeOK, Outgoing, AllLater
  <2>3. \A m, n : m.kind = "later" \/ n.kind = "later" => Before(m, n)
    BY DEF Before
  <2>4. ASSUME NEW q \in Procs
        PROVE  /\ InOrder(Append(mailbox[q], l.msg)) /\ Within(Append(mailbox[q], l.msg), made)
               /\ \A p \in Procs : AllBefore(Append(mailbox[q], l.msg), outbox[p][q])
    <3>1. InOrder(Append(mailbox[q], l.msg))
      BY <1>b, <1>i, <2>2, <2>3, AppendOrder
    <3>2. Within(Append(mailbox[q], l.msg), made)
      BY <1>b, <1>i, <2>2, AppendWithin
    <3>3. \A p \in Procs : AllBefore(Append(mailbox[q], l.msg), outbox[p][q])
      BY <1>b, <1>i, <2>2, <2>3, AppendBefore
    <3> QED
      BY <3>1, <3>2, <3>3
  <2>5. \A q \in Procs : Mail(q)'
    BY <1>i, <2>1, <2>4
  <2>6. \A p, q \in Procs : Post(p, q)'
    BY <1>i, <2>1, <2>4 DEF Outs
  <2>7. Lates'
    BY <1>i, <2>1 DEF Helds, AllLater
  <2> QED
    BY <1>k, <2>5, <2>6, <2>7
<1>9. ASSUME NEW p \in Procs, LetsGo(p) PROVE OrderInv'
  <2>1. /\ made' = made
        /\ \A q \in Procs : mailbox'[q] \in {mailbox[q], mailbox[q] \o outbox[p][q]}
        /\ \A r, q \in Procs : outbox'[r][q] = IF r = p THEN <<>> ELSE outbox[r][q]
        /\ \A r \in Procs : heldLater'[r] = IF r = p THEN {} ELSE heldLater[r]
        /\ later' \subseteq later \cup heldLater[p]
    BY <1>9 DEF LetsGo
  <2>2. \A q \in Procs : /\ InOrder(mailbox[q] \o outbox[p][q])
                         /\ Within(mailbox[q] \o outbox[p][q], made)
    BY <1>b, <1>i, ConcatOrder, ConcatWithin
  <2>3. ASSUME NEW r \in Procs, NEW q \in Procs, r # p
        PROVE  AllBefore(mailbox[q] \o outbox[p][q], outbox[r][q])
    <3>1. AllBefore(outbox[p][q], outbox[r][q])
      BY <1>i, <2>3, OthersBefore
    <3> QED
      BY <1>b, <1>i, <3>1, ConcatBefore
  <2>4. \A q \in Procs : Mail(q)'
    BY <1>i, <2>1, <2>2
  <2>5. ASSUME NEW r \in Procs, NEW q \in Procs PROVE Post(r, q)'
    <3>1. CASE r = p
      BY <2>1, <3>1, EmptyOrder
    <3>2. CASE r # p
      BY <1>i, <2>1, <2>3, <3>2
    <3> QED
      BY <3>1, <3>2
  <2>6. Lates'
    BY <1>i, <2>1 DEF AllLater
  <2> QED
    BY <1>k, <2>4, <2>5, <2>6
<1>10. ASSUME NEW p \in Procs, Loses(p) PROVE OrderInv'
  <2>1. /\ \A q \in Procs : mailbox'[q] \in {mailbox[q], <<>>}
        /\ \A r, q \in Procs : outbox'[r][q] \in {<<>>, outbox[r][q]}
        /\ \A r \in Procs : heldLater'[r] \in {{}, heldLater[r]}
        /\ later' = later /\ made' = made
    BY <1>10 DEF Loses
  <2>2. \A q \in Procs : Mail(q)'
    BY <1>i, <2>1, EmptyOrder
  <2>3. \A r, q \in Procs : Post(r, q)'
    BY <1>i, <2>1, EmptyOrder
  <2>4. Lates'
    BY <1>i, <2>1 DEF AllLater
  <2> QED
    BY <1>k, <2>2, <2>3, <2>4
<1> HIDE DEF Rests, PutsOut, PutsHeld, PutsLater, PutsBox, Takes, TimesOut, LetsGo, Loses
<1> QED
  BY <1>t, <1>1, <1>2, <1>4, <1>5, <1>6, <1>7, <1>8, <1>9, <1>10, EveryStep

LEMMA OrderInitial == Init => OrderInv
<1> SUFFICES ASSUME Init PROVE OrderInv
  OBVIOUS
<1>1. /\ \A q \in Procs : mailbox[q] = <<>>
      /\ \A p, q \in Procs : outbox[p][q] = <<>>
      /\ \A p \in Procs : heldLater[p] = {}
      /\ later = {}
  BY DEF Init
<1> QED
  BY <1>1, TypeInit, EmptyOrder DEF OrderInv, AllLater

(* What a sender sent a target first arrives first, over any number of     *)
(* commits and crashes between (Sim.deliver's flush), for any bounds.      *)
THEOREM SendsArriveInOrder == Spec => []SendsInOrder
<1>1. OrderInv => SendsInOrder
  BY DEF OrderInv, InOrder, Before, SendsInOrder
<1> QED
  BY <1>1, OrderInitial, OrderKept, PTL DEF Spec

-----------------------------------------------------------------------------
(* What an update holds for a target stays within the target's bound.      *)
LEMMA OutboxFitsKept == TypeOK /\ OutboxFits /\ [Next]_vars => OutboxFits'
<1> SUFFICES ASSUME TypeOK, OutboxFits, [Next]_vars, NEW r \in Procs, NEW t \in Procs
             PROVE  Len(outbox'[r][t]) <= Bound[t]
  BY DEF OutboxFits
<1>1. /\ Len(outbox[r][t]) <= Bound[t] /\ Bound[t] \in Nat
      /\ outbox[r][t] \in Seq(Message) /\ mailbox[t] \in Seq(Message)
  BY BoundAssumption DEF OutboxFits, TypeOK
<1>2. CASE outbox'[r][t] \in {<<>>, outbox[r][t]}
  BY <1>1, <1>2, EmptySeq
<1>3. ASSUME NEW p \in Procs, NEW q \in Procs, PutsOut(p, q)
      PROVE  Len(outbox'[r][t]) <= Bound[t]
  <2>1. CASE r = p /\ t = q
    <3> DEFINE m == Made(r, cur[r], "send")
    <3>1. m \in Message
      BY MadeType DEF TypeOK
    <3>2. outbox'[r][t] = Append(outbox[r][t], m)
      BY <1>3, <2>1 DEF PutsOut
    <3>3. Len(mailbox[t]) + Len(outbox[r][t]) < Bound[t]
      BY <1>3, <2>1 DEF PutsOut, HasRoom
    <3> HIDE DEF m
    <3>4. Len(outbox'[r][t]) = Len(outbox[r][t]) + 1
      BY <1>1, <3>1, <3>2, AppendIs
    <3>5. Len(mailbox[t]) \in Nat /\ Len(outbox[r][t]) \in Nat /\ Bound[t] \in Nat
      BY <1>1, LenProperties
    <3>6. \A waits, held, bound \in Nat : waits + held < bound => held + 1 <= bound
      OBVIOUS
    <3> QED
      BY <3>3, <3>4, <3>5, <3>6
  <2>2. CASE ~(r = p /\ t = q)
    BY <1>2, <1>3, <2>2 DEF PutsOut
  <2> QED
    BY <2>1, <2>2
<1>4. CASE \A p, q \in Procs : ~PutsOut(p, q)
  <2>1. outbox'[r][t] \in {<<>>, outbox[r][t]}
    BY <1>4, EveryStep
    DEF Rests, PutsHeld, PutsLater, PutsBox, Takes, TimesOut, LetsGo, Loses, Outs
  <2> QED
    BY <2>1, <1>2
<1> QED
  BY <1>3, <1>4

LEMMA SendersHoldKept == TypeOK /\ SendersHold /\ [Next]_vars => SendersHold'
<1> SUFFICES ASSUME TypeOK, SendersHold, [Next]_vars, NEW r \in Procs, NEW t \in Procs,
                    outbox'[r][t] # <<>>
             PROVE  r \in SendersTo(t)
  BY DEF SendersHold, SendersTo
<1>1. ASSUME NEW p \in Procs, NEW q \in Procs, PutsOut(p, q) PROVE r \in SendersTo(t)
  BY <1>1 DEF SendersHold, PutsOut
<1>2. CASE \A p, q \in Procs : ~PutsOut(p, q)
  <2>1. outbox'[r][t] \in {<<>>, outbox[r][t]}
    BY <1>2, EveryStep
    DEF Rests, PutsHeld, PutsLater, PutsBox, Takes, TimesOut, LetsGo, Loses, Outs
  <2> QED
    BY <2>1 DEF SendersHold
<1> QED
  BY <1>1, <1>2

-----------------------------------------------------------------------------
(* The backlog of a target: what each of P holds for it, as pairs.         *)
Slots(n, P) == UNION {{p} \X (1..n[p]) : p \in P}

LEMMA SlotsFit ==
  ASSUME NEW P, NEW S, IsFiniteSet(S), NEW n, NEW bound \in Nat,
         \A p \in P : n[p] \in Nat /\ n[p] <= bound /\ (n[p] # 0 => p \in S)
  PROVE  /\ IsFiniteSet(Slots(n, P)) /\ Cardinality(Slots(n, P)) \in Nat
         /\ Cardinality(Slots(n, P)) <= Cardinality(S) * bound
<1>1. Slots(n, P) \subseteq S \X (1..bound)
  BY DEF Slots
<1>2. IsFiniteSet(1..bound) /\ Cardinality(1..bound) = bound
  BY FS_Interval
<1>3. /\ IsFiniteSet(S \X (1..bound))
      /\ Cardinality(S \X (1..bound)) = Cardinality(S) * bound
  BY <1>2, FS_Product
<1>4. IsFiniteSet(Slots(n, P)) /\ Cardinality(Slots(n, P)) <= Cardinality(S \X (1..bound))
  BY <1>1, <1>3, FS_Subset
<1> QED
  BY <1>3, <1>4, FS_CardinalityType

LEMMA SlotsSplit ==
  ASSUME NEW P, NEW n, NEW p \in P, n[p] \in Nat, IsFiniteSet(Slots(n, P))
  PROVE  Cardinality(Slots(n, P)) = n[p] + Cardinality(Slots(n, P \ {p}))
<1> DEFINE own == {p} \X (1..n[p])
           others == Slots(n, P \ {p})
<1>1. Slots(n, P) = own \cup others /\ own \cap others = {}
  BY DEF Slots
<1>2. IsFiniteSet(others)
  BY <1>1, FS_Subset
<1>3. IsFiniteSet(1..n[p]) /\ Cardinality(1..n[p]) = n[p]
  <2>1. \A k \in Nat : IsFiniteSet(1..k) /\ Cardinality(1..k) = k
    BY FS_Interval
  <2> QED
    BY <2>1
<1>4. IsFiniteSet({p}) /\ Cardinality({p}) = 1
  BY FS_Singleton
<1>5. IsFiniteSet(own) /\ Cardinality(own) = n[p]
  <2>1. IsFiniteSet(own) /\ Cardinality(own) = Cardinality({p}) * Cardinality(1..n[p])
    BY <1>3, <1>4, FS_Product
  <2>2. \A k \in Nat : 1 * k = k
    OBVIOUS
  <2> QED
    BY <1>3, <1>4, <2>1, <2>2
<1> HIDE DEF own, others
<1>6. /\ IsFiniteSet(own \cup others)
      /\ Cardinality(own \cup others) = Cardinality(own) + Cardinality(others) - Cardinality({})
  BY <1>1, <1>2, <1>5, FS_Union
<1>7. Cardinality(others) \in Nat
  BY <1>2, FS_CardinalityType
<1> QED
  BY <1>1, <1>5, <1>6, <1>7, FS_EmptySet DEF others

LEMMA FewerSlots ==
  ASSUME NEW P, NEW n, NEW m, IsFiniteSet(Slots(n, P)),
         \A p \in P : n[p] \in Nat /\ m[p] \in Nat /\ m[p] <= n[p]
  PROVE  Cardinality(Slots(m, P)) <= Cardinality(Slots(n, P))
<1>1. Slots(m, P) \subseteq Slots(n, P)
  BY DEF Slots
<1> QED
  BY <1>1, FS_Subset

(* What each process holds is within the bound, and only those of S hold.  *)
Fits(n, S, bound) == \A p \in Procs : n[p] \in Nat /\ n[p] <= bound /\ (n[p] # 0 => p \in S)

(* What is waiting and what is held, before a step and after it: less of   *)
(* both; a message let in or held by a check that found what waits within  *)
(* the bound; or all that p held let go at once, unchecked.                *)
Fewer(n, m, waits, waiting) == waiting <= waits /\ \A p \in Procs : m[p] <= n[p]
LetGo(n, m, waits, waiting) ==
    \E p \in Procs : /\ waiting <= waits + n[p] /\ m[p] = 0
                     /\ \A r \in Procs \ {p} : m[r] = n[r]

LEMMA BacklogStays ==
  ASSUME NEW S \in SUBSET Procs, NEW bound \in Nat,
         NEW n, NEW m, NEW waits \in Nat, NEW waiting \in Nat,
         Fits(n, S, bound), Fits(m, S, bound),
         waits + Cardinality(Slots(n, Procs)) <= (Cardinality(S) + 1) * bound,
         Fewer(n, m, waits, waiting) \/ waiting <= bound \/ LetGo(n, m, waits, waiting)
  PROVE  waiting + Cardinality(Slots(m, Procs)) <= (Cardinality(S) + 1) * bound
<1> USE DEF Fits
<1>s. IsFiniteSet(S) /\ Cardinality(S) \in Nat
  BY FS_Subset, FS_CardinalityType
<1>n. IsFiniteSet(Slots(n, Procs)) /\ Cardinality(Slots(n, Procs)) \in Nat
  BY <1>s, SlotsFit
<1>m. /\ IsFiniteSet(Slots(m, Procs)) /\ Cardinality(Slots(m, Procs)) \in Nat
      /\ Cardinality(Slots(m, Procs)) <= Cardinality(S) * bound
  BY <1>s, SlotsFit
<1>b. \A c \in Nat : (c + 1) * bound = c * bound + bound /\ c * bound \in Nat
  OBVIOUS
<1>1. CASE Fewer(n, m, waits, waiting)
  <2>1. Cardinality(Slots(m, Procs)) <= Cardinality(Slots(n, Procs))
    BY <1>1, <1>n, FewerSlots DEF Fewer
  <2>2. \A all \in Nat : waits + Cardinality(Slots(n, Procs)) <= all
                         => waiting + Cardinality(Slots(m, Procs)) <= all
    BY <1>1, <1>n, <1>m, <2>1 DEF Fewer
  <2> QED
    BY <1>s, <1>b, <2>2
<1>2. CASE waiting <= bound
  <2>1. \A all \in Nat : Cardinality(Slots(m, Procs)) <= all
                         => waiting + Cardinality(Slots(m, Procs)) <= all + bound
    BY <1>2, <1>m
  <2> QED
    BY <1>s, <1>b, <1>m, <2>1
<1>3. ASSUME NEW p \in Procs, waiting <= waits + n[p], m[p] = 0,
             \A r \in Procs \ {p} : m[r] = n[r]
      PROVE  waiting + Cardinality(Slots(m, Procs)) <= (Cardinality(S) + 1) * bound
  <2>1. /\ Cardinality(Slots(n, Procs)) = n[p] + Cardinality(Slots(n, Procs \ {p}))
        /\ Cardinality(Slots(m, Procs)) = m[p] + Cardinality(Slots(m, Procs \ {p}))
    BY <1>n, <1>m, SlotsSplit
  <2>2. Slots(n, Procs \ {p}) = Slots(m, Procs \ {p})
    BY <1>3 DEF Slots
  <2>3. Slots(n, Procs \ {p}) \subseteq Slots(n, Procs)
    BY DEF Slots
  <2>4. Cardinality(Slots(n, Procs \ {p})) \in Nat
    BY <1>n, <2>3, FS_Subset, FS_CardinalityType
  <2>5. \A others, all \in Nat : waits + (n[p] + others) <= all => waiting + (0 + others) <= all
    BY <1>3
  <2> QED
    BY <1>s, <1>b, <1>3, <2>1, <2>2, <2>4, <2>5
<1> QED
  BY <1>1, <1>2, <1>3 DEF LetGo

LEMMA BacklogInitial == Init => BacklogInv
<1> SUFFICES ASSUME Init PROVE BacklogInv
  OBVIOUS
<1>1. \A p, q \in Procs : mailbox[q] = <<>> /\ outbox[p][q] = <<>> /\ Len(<<>>) = 0
  BY DEF Init
<1>2. \A q \in Procs : Bound[q] \in Nat
  BY BoundAssumption
<1>3. OutboxFits /\ SendersHold
  BY <1>1, <1>2 DEF OutboxFits, SendersHold
<1>4. ASSUME NEW q \in Procs
      PROVE  Len(mailbox[q]) + Cardinality(HeldFor(q)) <= (Cardinality(SendersTo(q)) + 1) * Bound[q]
  <2>1. HeldFor(q) = {}
    BY <1>1 DEF HeldFor
  <2>2. Cardinality(SendersTo(q)) \in Nat
    BY FS_Subset, FS_CardinalityType DEF SendersTo
  <2>3. \A c, bound \in Nat : 0 + 0 <= (c + 1) * bound
    OBVIOUS
  <2> QED
    BY <1>1, <1>2, <2>1, <2>2, <2>3, FS_EmptySet
<1> QED
  BY <1>3, <1>4, TypeInit DEF BacklogInv, BacklogBounded

LEMMA BacklogKept == BacklogInv /\ [Next]_vars => BacklogInv'
<1> SUFFICES ASSUME BacklogInv, [Next]_vars PROVE BacklogInv'
  OBVIOUS
<1>t. /\ mailbox \in [Procs -> Seq(Message)] /\ outbox \in [Procs -> [Procs -> Seq(Message)]]
      /\ TypeOK
  BY DEF BacklogInv, TypeOK
<1>i. TypeOK' /\ OutboxFits' /\ SendersHold'
  BY TypeStep, OutboxFitsKept, SendersHoldKept DEF BacklogInv
<1>u. mailbox' \in [Procs -> Seq(Message)] /\ outbox' \in [Procs -> [Procs -> Seq(Message)]]
  BY <1>i DEF TypeOK
<1>1. ASSUME NEW q \in Procs
      PROVE  (Len(mailbox[q]) + Cardinality(HeldFor(q)) <= (Cardinality(SendersTo(q)) + 1) * Bound[q])'
  <2> DEFINE n == [p \in Procs |-> Len(outbox[p][q])]
             S == SendersTo(q)
  <2> PICK m : m = [p \in Procs |-> Len(outbox'[p][q])]
    OBVIOUS
  <2>b. Bound[q] \in Nat /\ S \in SUBSET Procs
    BY BoundAssumption DEF SendersTo
  <2>w. Len(mailbox[q]) \in Nat /\ Len(mailbox'[q]) \in Nat
    BY <1>t, <1>u, LenProperties
  <2>n. \A p \in Procs : n[p] \in Nat /\ n[p] <= Bound[q] /\ (n[p] # 0 => p \in S)
    BY <1>t, LenProperties, EmptySeq DEF BacklogInv, OutboxFits, SendersHold
  <2>m. \A p \in Procs : m[p] \in Nat /\ m[p] <= Bound[q] /\ (m[p] # 0 => p \in S)
    BY <1>i, <1>u, LenProperties, EmptySeq DEF OutboxFits, SendersHold, SendersTo
  <2>h. Slots(n, Procs) = HeldFor(q) /\ Slots(m, Procs) = HeldFor(q)'
    BY DEF Slots, HeldFor
  <2>1. \/ Fewer(n, m, Len(mailbox[q]), Len(mailbox'[q]))
        \/ Len(mailbox'[q]) <= Bound[q]
        \/ LetGo(n, m, Len(mailbox[q]), Len(mailbox'[q]))
    <3>e. Len(<<>>) = 0
      BY EmptySeq
    <3>1. ASSUME mailbox'[q] = mailbox[q] \/ mailbox'[q] = <<>>,
                 \A p \in Procs : outbox'[p][q] \in {<<>>, outbox[p][q]}
          PROVE  Fewer(n, m, Len(mailbox[q]), Len(mailbox'[q]))
      <4>1. \A p \in Procs : m[p] \in {0, n[p]}
        BY <3>1, <3>e
      <4>2. Len(mailbox'[q]) \in {0, Len(mailbox[q])}
        BY <3>1, <3>e
      <4> HIDE DEF n
      <4>3. \A p \in Procs : m[p] <= n[p]
        BY <4>1, <2>n
      <4> QED
        BY <4>2, <4>3, <2>w DEF Fewer
    <3>2. ASSUME Outs, mailbox[q] # <<>>, mailbox'[q] = Tail(mailbox[q])
          PROVE  Fewer(n, m, Len(mailbox[q]), Len(mailbox'[q]))
      <4>1. \A p \in Procs : m[p] = n[p]
        BY <3>2 DEF Outs
      <4>2. Len(Tail(mailbox[q])) = Len(mailbox[q]) - 1
        BY <1>t, <3>2, TailIs
      <4> HIDE DEF n
      <4> QED
        BY <3>2, <4>1, <4>2, <2>w, <2>n DEF Fewer
    <3>3. ASSUME NEW mm \in Message, mailbox'[q] = Append(mailbox[q], mm), Len(mailbox[q]) < Bound[q]
          PROVE  Len(mailbox'[q]) <= Bound[q]
      <4>1. Len(Append(mailbox[q], mm)) = Len(mailbox[q]) + 1
        BY <1>t, AppendIs
      <4> QED
        BY <3>3, <4>1, <2>w, <2>b
    <3>4. ASSUME NEW p \in Procs, HasRoom(p, q), Boxes
          PROVE  Len(mailbox'[q]) <= Bound[q]
      <4>1. Len(mailbox[q]) + Len(outbox[p][q]) < Bound[q] /\ Len(outbox[p][q]) \in Nat
        BY <1>t, <3>4, LenProperties DEF HasRoom
      <4>2. mailbox'[q] = mailbox[q]
        BY <3>4 DEF Boxes
      <4>3. \A waits, held, bound \in Nat : waits + held < bound => waits <= bound
        OBVIOUS
      <4> QED
        BY <4>1, <4>2, <4>3, <2>w, <2>b
    <3>5. ASSUME NEW p \in Procs, LetsGo(p)
          PROVE  LetGo(n, m, Len(mailbox[q]), Len(mailbox'[q]))
      <4>1. m[p] = 0 /\ \A r \in Procs \ {p} : m[r] = n[r]
        BY <3>5, <3>e DEF LetsGo
      <4>2. Len(mailbox[q] \o outbox[p][q]) = Len(mailbox[q]) + n[p]
        BY <1>t, ConcatIs
      <4>3. Len(mailbox'[q]) \in {Len(mailbox[q]), Len(mailbox[q]) + n[p]}
        BY <3>5, <4>2 DEF LetsGo
      <4> HIDE DEF n
      <4> QED
        BY <4>1, <4>3, <2>w, <2>n DEF LetGo
    <3> HIDE DEF n, S
    <3>6. CASE Rests \/ (\E p, r \in Procs : PutsHeld(p, r)) \/ (\E r \in Procs : PutsLater(r))
      BY <3>1, <3>6 DEF Rests, PutsHeld, PutsLater, Boxes, Outs
    <3>7. ASSUME NEW p \in Procs, NEW r \in Procs, PutsOut(p, r)
          PROVE  \/ Fewer(n, m, Len(mailbox[q]), Len(mailbox'[q]))
                 \/ Len(mailbox'[q]) <= Bound[q]
      BY <3>1, <3>4, <3>7 DEF PutsOut, Boxes
    <3>8. ASSUME NEW r \in Procs, NEW mm \in Message, PutsBox(r, mm)
          PROVE  \/ Fewer(n, m, Len(mailbox[q]), Len(mailbox'[q]))
                 \/ Len(mailbox'[q]) <= Bound[q]
      BY <3>1, <3>3, <3>8 DEF PutsBox, Outs
    <3>9. ASSUME NEW r \in Procs, Takes(r)
          PROVE  Fewer(n, m, Len(mailbox[q]), Len(mailbox'[q]))
      BY <3>1, <3>2, <3>9 DEF Takes, Outs
    <3>10. ASSUME NEW l \in later, TimesOut(l)
           PROVE  \/ Fewer(n, m, Len(mailbox[q]), Len(mailbox'[q]))
                  \/ Len(mailbox'[q]) <= Bound[q]
      <4>1. l.msg \in Message
        BY <1>t DEF TypeOK, Outgoing
      <4> QED
        BY <3>1, <3>3, <3>10, <4>1 DEF TimesOut, Outs
    <3>11. ASSUME NEW p \in Procs, Loses(p)
           PROVE  Fewer(n, m, Len(mailbox[q]), Len(mailbox'[q]))
      BY <3>1, <3>11 DEF Loses
    <3> HIDE DEF Rests, PutsOut, PutsHeld, PutsLater, PutsBox, Takes, TimesOut, LetsGo, Loses
    <3> QED
      BY <1>t, <3>5, <3>6, <3>7, <3>8, <3>9, <3>10, <3>11, EveryStep
  <2>3. Fits(n, S, Bound[q]) /\ Fits(m, S, Bound[q])
    BY <2>n, <2>m DEF Fits
  <2> HIDE DEF n, S
  <2>2. Len(mailbox[q]) + Cardinality(Slots(n, Procs)) <= (Cardinality(S) + 1) * Bound[q]
    BY <2>h DEF BacklogInv, BacklogBounded, S
  <2>4. Len(mailbox'[q]) + Cardinality(Slots(m, Procs)) <= (Cardinality(S) + 1) * Bound[q]
    BY <2>1, <2>2, <2>3, <2>b, <2>w, BacklogStays
  <2> QED
    BY <2>4, <2>h DEF S, SendersTo
<1> QED
  BY <1>i, <1>1 DEF BacklogInv, BacklogBounded

(* What waits for a process and what updates hold for it together never    *)
(* pass a bound's worth for it and one for each process that sends to it.  *)
THEOREM BacklogHasBound == Spec => []BacklogBounded
<1>1. BacklogInv => BacklogBounded
  BY DEF BacklogInv
<1> QED
  BY <1>1, BacklogInitial, BacklogKept, PTL DEF Spec
=============================================================================
