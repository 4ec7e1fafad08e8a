---------------------------- MODULE MoProcsActors ----------------------------
(***************************************************************************)
(* The proof that MoProcs implements MoActors, for any processes,          *)
(* schedulers, placements, bounds, policies and programs: whatever updates *)
(* are interleaved, handed over and parked, what is seen from outside is   *)
(* one whole update after the other (ImplementsActors).                    *)
(*                                                                         *)
(* First what makes a step a step of MoActors, in terms of each process's  *)
(* Letters; then which step of MoProcs makes which.                        *)
(***************************************************************************)
EXTENDS MoProcsMessages

(* What MoActors sees of a process and of the delayed sends.               *)
Letters(p) == Running(p) \o Waiting(p)
Timers == {[to |-> l.to, id |-> l.msg.id] : l \in later}

(* It has met the message `id`.                                            *)
Seen(id) ==
    \/ id \in committed
    \/ \E q \in Procs : \E i \in 1..Len(Letters(q)) : Letters(q)[i] = id
    \/ \E l \in later : l.msg.id = id

Lettered == \A p \in Procs : Letters(p) \in Seq(Nat)

RefineInv == PlaceInv /\ TurnInv /\ OutboxFits

USE ProcsAssumption, HomeAssumption, SameSets DEF Callers

-----------------------------------------------------------------------------
(* The steps of MoActors.                                                  *)
LEMMA UnseenIsFresh ==
  ASSUME Lettered, NEW ids, \A id \in ids : ~Seen(id)
  PROVE  Actors!Fresh(ids)
<1>1. ASSUME NEW id \in ids PROVE id \notin Actors!Pending
  <2>1. \A q \in Procs : id \notin Actors!ToSet(Letters(q))
    <3> TAKE q \in Procs
    <3>1. DOMAIN Letters(q) = 1..Len(Letters(q))
      BY LenProperties DEF Lettered
    <3> QED
      BY <3>1 DEF Seen, Actors!ToSet
  <2>2. \A t \in Timers : t.id # id
    BY DEF Seen, Timers
  <2> QED
    BY <2>1, <2>2 DEF Actors!Pending, Letters, Timers
<1>2. \A id \in ids : id \notin committed
  BY DEF Seen
<1> QED
  BY <1>1, <1>2 DEF Actors!Fresh

LEMMA StuttersAre ==
  ASSUME \A p \in Procs : Letters(p)' = Letters(p), Timers' = Timers,
         UNCHANGED <<up, committed, halted>>
  PROVE  UNCHANGED Actors!vars
<1>1. UNCHANGED [p \in Procs |-> Letters(p)]
  OBVIOUS
<1> QED
  BY <1>1 DEF Actors!vars, Letters, Timers

(* Three pieces of a queue, put together from either end.                  *)
LEMMA ConcatOfThree ==
  ASSUME NEW s \in Seq(Nat), NEW t \in Seq(Nat), NEW u \in Seq(Nat)
  PROVE  s \o (t \o u) = (s \o t) \o u
<1>1. (s \o t) \o u = s \o (t \o u)
  BY ConcatAssociative, SMTT(30)
<1> QED
  BY <1>1, Zenon

(* Some letters more at the end, and these.                                *)
LEMMA PrefixOfConcat ==
  ASSUME NEW s \in Seq(Nat), NEW more \in Seq(Nat)
  PROVE  /\ Len(s) <= Len(s \o more) /\ SubSeq(s, 1, Len(s)) = SubSeq(s \o more, 1, Len(s))
         /\ Len(s \o more) - Len(s) = Len(more)
         /\ \A i \in (Len(s) + 1)..Len(s \o more) : \E j \in 1..Len(more) : more[j] = (s \o more)[i]
<1>1. /\ Len(s) \in Nat /\ Len(more) \in Nat /\ Len(s \o more) = Len(s) + Len(more)
      /\ \A i \in 1..Len(s) + Len(more) :
            (s \o more)[i] = IF i <= Len(s) THEN s[i] ELSE more[i - Len(s)]
      /\ s \o more \in Seq(Nat)
  BY ConcatProperties, LenProperties
<1>2. SubSeq(s, 1, Len(s)) = SubSeq(s \o more, 1, Len(s))
  <2>1. \A i \in 1..Len(s) : s[i] \in Nat /\ (s \o more)[i] \in Nat
    BY <1>1, ElementOfSeq
  <2>2. /\ SubSeq(s, 1, Len(s)) \in Seq(Nat) /\ SubSeq(s \o more, 1, Len(s)) \in Seq(Nat)
        /\ Len(SubSeq(s, 1, Len(s))) = Len(s) /\ Len(SubSeq(s \o more, 1, Len(s))) = Len(s)
        /\ \A i \in 1..Len(s) : /\ SubSeq(s, 1, Len(s))[i] = s[i]
                                /\ SubSeq(s \o more, 1, Len(s))[i] = (s \o more)[i]
    BY <1>1, <2>1, SubSeqProperties, Z3
  <2>3. \A i \in 1..Len(s) : SubSeq(s, 1, Len(s))[i] = SubSeq(s \o more, 1, Len(s))[i]
    BY <1>1, <2>2
  <2> QED
    BY <2>2, <2>3, SeqEqual
<1>3. ASSUME NEW i \in (Len(s) + 1)..Len(s \o more)
      PROVE  \E j \in 1..Len(more) : more[j] = (s \o more)[i]
  <2>1. i - Len(s) \in 1..Len(more) /\ (s \o more)[i] = more[i - Len(s)]
    BY <1>1
  <2> QED
    BY <2>1
<1>4. Len(s) <= Len(s \o more) /\ Len(s \o more) - Len(s) = Len(more)
  <2>1. \A m, n \in Nat : m <= m + n /\ (m + n) - m = n
    OBVIOUS
  <2> QED
    BY <1>1, <2>1
<1> QED
  <2>1. \A i \in (Len(s) + 1)..Len(s \o more) : \E j \in 1..Len(more) : more[j] = (s \o more)[i]
    BY <1>3, Zenon
  <2> QED
    BY <1>2, <1>4, <2>1, Zenon

LEMMA HaltsAre ==
  ASSUME Lettered, ~halted, halted' = TRUE, \A q \in Procs : up'[q] => up[q],
         \A q \in Procs : \E rest \in Seq(Nat) : Letters(q)' \in Seq(Nat) /\ Letters(q) = Letters(q)' \o rest,
         Timers' = Timers, UNCHANGED committed
  PROVE  Actors!Next
<1>1. \A q \in Procs : Actors!IsPrefix(Letters(q)', Letters(q))
  BY PrefixOfConcat DEF Actors!IsPrefix
<1>2. Actors!Halt
  BY <1>1 DEF Actors!Halt, Letters, Timers
<1> QED
  BY <1>2 DEF Actors!Next

LEMMA PostsAre ==
  ASSUME Lettered, ~halted, NEW q \in Procs, up[q], NEW id \in Nat, ~Seen(id),
         \A p \in Procs : Letters(p)' = IF p = q THEN Append(Letters(q), id) ELSE Letters(p),
         Timers' = Timers, UNCHANGED <<up, committed, halted>>
  PROVE  Actors!Next
<1>1. Letters(q) \in Seq(Nat) /\ <<id>> \in Seq(Nat) /\ Len(<<id>>) = 1 /\ <<id>>[1] = id
  BY DEF Lettered
<1>2. Letters(q)' = Letters(q) \o <<id>>
  BY <1>1, AppendIsConcat
<1>3. /\ Actors!IsPrefix(Letters(q), Letters(q)')
      /\ Len(Letters(q)') - Len(Letters(q)) = 1
      /\ \A k \in Actors!Added(Letters(q), Letters(q)') : k = id
  BY <1>1, <1>2, PrefixOfConcat DEF Actors!IsPrefix, Actors!Added
<1>4. Len(Letters(q)') = Len(Letters(q)) + 1
  BY <1>1, AppendProperties
<1>5. Actors!Fresh(Actors!Added(Letters(q), Letters(q)'))
  BY <1>3, UnseenIsFresh
<1>6. [p \in Procs |-> Letters(p)]' = [[p \in Procs |-> Letters(p)] EXCEPT ![q] = Letters(q)']
  OBVIOUS
<1>7. Actors!Post(q)
  BY <1>3, <1>4, <1>5, <1>6 DEF Actors!Post, Letters, Timers
<1> QED
  BY <1>7 DEF Actors!Next

LEMMA DelaysAre ==
  ASSUME Lettered, ~halted, NEW t, Timers' = Timers \cup {t}, ~Seen(t.id), up[t.to],
         \A p \in Procs : Letters(p)' = Letters(p), UNCHANGED <<up, committed, halted>>
  PROVE  Actors!Next
<1>1. Actors!Fresh({t.id})
  BY UnseenIsFresh
<1>2. UNCHANGED [p \in Procs |-> Letters(p)]
  OBVIOUS
<1>3. Actors!Delay
  BY <1>1, <1>2 DEF Actors!Delay, Letters, Timers
<1> QED
  BY <1>3 DEF Actors!Next

LEMMA DuesAre ==
  ASSUME ~halted, NEW t \in Timers, Timers' = Timers \ {t}, t.to \in Procs,
         \/ \A p \in Procs : Letters(p)' = Letters(p)
         \/ /\ up[t.to]
            /\ \A p \in Procs : Letters(p)' = IF p = t.to THEN Append(Letters(p), t.id)
                                                          ELSE Letters(p),
         UNCHANGED <<up, committed, halted>>
  PROVE  Actors!Next
<1>1. \/ UNCHANGED [p \in Procs |-> Letters(p)]
      \/ /\ up[t.to]
         /\ [p \in Procs |-> Letters(p)]'
              = [[p \in Procs |-> Letters(p)] EXCEPT ![t.to] = Append(@, t.id)]
  OBVIOUS
<1>2. Actors!Due(t)
  BY <1>1 DEF Actors!Due, Letters, Timers
<1> QED
  BY <1>2 DEF Actors!Next, Timers

LEMMA CrashesAre ==
  ASSUME ~halted, NEW p \in Procs, up[p], Letters(p) # <<>>, NEW v \in BOOLEAN,
         up' = [up EXCEPT ![p] = v],
         \A q \in Procs : Letters(q)' = IF q = p THEN <<>> ELSE Letters(q),
         Timers' = Timers, UNCHANGED <<committed, halted>>
  PROVE  Actors!Next
<1>1. [q \in Procs |-> Letters(q)]' = [[q \in Procs |-> Letters(q)] EXCEPT ![p] = <<>>]
  OBVIOUS
<1>2. Actors!Crash(p)
  BY <1>1 DEF Actors!Crash, Letters, Timers
<1> QED
  BY <1>2 DEF Actors!Next

LEMMA UpdatesAre ==
  ASSUME Lettered, ~halted, NEW p \in Procs, up[p], Letters(p) # <<>>,
         NEW sent, \A q \in Procs :
            /\ sent[q] \in Seq(Nat) /\ \A i \in 1..Len(sent[q]) : ~Seen(sent[q][i])
            /\ Len(sent[q]) <= IF up[q] THEN Bound[q] ELSE 0
            /\ Letters(q)' = (IF q = p THEN Tail(Letters(p)) ELSE Letters(q)) \o sent[q],
         Timers \subseteq Timers', \A t \in Timers' \ Timers : up[t.to] /\ ~Seen(t.id),
         committed' = committed \cup {Head(Letters(p))}, UNCHANGED <<up, halted>>
  PROVE  Actors!Next
<1> DEFINE rest == [[q \in Procs |-> Letters(q)] EXCEPT ![p] = Tail(@)]
<1>1. \A q \in Procs : /\ rest[q] = IF q = p THEN Tail(Letters(p)) ELSE Letters(q)
                       /\ rest[q] \in Seq(Nat)
  BY HeadTailProperties DEF Lettered
<1>2. \A q \in Procs : Letters(q)' = rest[q] \o sent[q]
  BY <1>1
<1> HIDE DEF rest
<1>3. ASSUME NEW q \in Procs
      PROVE  /\ Actors!IsPrefix(rest[q], Letters(q)')
             /\ Len(Letters(q)') - Len(rest[q]) <= IF up[q] THEN Bound[q] ELSE 0
             /\ Actors!Fresh(Actors!Added(rest[q], Letters(q)'))
  <2>0. PICK s \in Seq(Nat) : s = rest[q]
    BY <1>1
  <2>1. PICK more \in Seq(Nat) : more = sent[q]
    OBVIOUS
  <2>2. /\ Len(more) <= IF up[q] THEN Bound[q] ELSE 0
        /\ \A i \in 1..Len(more) : ~Seen(more[i])
    BY <2>1
  <2>3. PICK t : t = s \o more
    OBVIOUS
  <2>4. Letters(q)' = t /\ rest[q] = s
    BY <1>2, <2>0, <2>1, <2>3
  <2>5. /\ Len(s) <= Len(t) /\ SubSeq(s, 1, Len(s)) = SubSeq(t, 1, Len(s))
        /\ Len(t) - Len(s) = Len(more)
        /\ \A i \in (Len(s) + 1)..Len(t) : \E j \in 1..Len(more) : more[j] = t[i]
    BY <2>3, PrefixOfConcat
  <2>6. \A id \in Actors!Added(s, t) : ~Seen(id)
    BY <2>2, <2>5 DEF Actors!Added
  <2>7. Actors!Fresh(Actors!Added(s, t))
    BY <2>6, UnseenIsFresh
  <2>8. Actors!IsPrefix(s, t)
    BY <2>5 DEF Actors!IsPrefix
  <2> QED
    BY <2>2, <2>4, <2>5, <2>7, <2>8
<1>5. Actors!Fresh({t.id : t \in Timers' \ Timers})
  BY UnseenIsFresh
<1>6. \A q \in Procs : [r \in Procs |-> Letters(r)]'[q] = Letters(q)'
  OBVIOUS
<1>7. Actors!Update(p)
  BY <1>3, <1>5, <1>6 DEF Actors!Update, Letters, Timers, rest
<1> QED
  BY <1>7 DEF Actors!Next

-----------------------------------------------------------------------------
(* The identities of a box, oldest first.                                  *)
IdSeq(box) == [i \in 1..Len(box) |-> box[i].id]

LEMMA IdSeqIs ==
  ASSUME NEW box \in Seq(Message)
  PROVE  /\ IdSeq(box) \in Seq(Nat) /\ Len(IdSeq(box)) = Len(box) /\ Len(box) \in Nat
         /\ \A i \in 1..Len(box) : IdSeq(box)[i] = box[i].id /\ box[i].id \in Nat
<1>1. Len(box) \in Nat
  BY LenProperties
<1>2. \A i \in 1..Len(box) : box[i].id \in Nat
  <2> TAKE i \in 1..Len(box)
  <2>1. box[i] \in Message
    BY ElementOfSeq
  <2> QED
    BY <2>1 DEF Message
<1>3. IdSeq(box) \in [1..Len(box) -> Nat]
  BY <1>2 DEF IdSeq
<1>4. IdSeq(box) \in Seq(Nat)
  BY <1>1, <1>3, SeqDef
<1>5. DOMAIN IdSeq(box) = 1..Len(IdSeq(box)) /\ Len(IdSeq(box)) \in Nat
  BY <1>4, LenProperties
<1>6. Len(IdSeq(box)) = Len(box)
  BY <1>1, <1>3, <1>5
<1> QED
  BY <1>1, <1>2, <1>4, <1>6 DEF IdSeq

LEMMA IdSeqOfEmpty == IdSeq(<<>>) = <<>>
<1>1. <<>> \in Seq(Message) /\ Len(<<>>) = 0
  BY EmptySeq
<1>2. IdSeq(<<>>) \in Seq(Nat) /\ Len(IdSeq(<<>>)) = 0
  BY <1>1, IdSeqIs
<1> QED
  BY <1>2, EmptySeq

LEMMA IdSeqOfConcat ==
  ASSUME NEW box \in Seq(Message), NEW more \in Seq(Message)
  PROVE  IdSeq(box \o more) = IdSeq(box) \o IdSeq(more)
<1>1. /\ box \o more \in Seq(Message) /\ Len(box \o more) = Len(box) + Len(more)
      /\ \A i \in 1..Len(box) + Len(more) :
            (box \o more)[i] = IF i <= Len(box) THEN box[i] ELSE more[i - Len(box)]
  BY ConcatProperties
<1>2. /\ IdSeq(box) \in Seq(Nat) /\ Len(IdSeq(box)) = Len(box) /\ Len(box) \in Nat
      /\ \A i \in 1..Len(box) : IdSeq(box)[i] = box[i].id
  BY IdSeqIs
<1>3. /\ IdSeq(more) \in Seq(Nat) /\ Len(IdSeq(more)) = Len(more) /\ Len(more) \in Nat
      /\ \A i \in 1..Len(more) : IdSeq(more)[i] = more[i].id
  BY IdSeqIs
<1>4. /\ IdSeq(box \o more) \in Seq(Nat) /\ Len(IdSeq(box \o more)) = Len(box) + Len(more)
      /\ \A i \in 1..Len(box) + Len(more) : IdSeq(box \o more)[i] = (box \o more)[i].id
  BY <1>1, IdSeqIs
<1>5. /\ IdSeq(box) \o IdSeq(more) \in Seq(Nat)
      /\ Len(IdSeq(box) \o IdSeq(more)) = Len(box) + Len(more)
      /\ \A i \in 1..Len(box) + Len(more) :
            (IdSeq(box) \o IdSeq(more))[i]
              = IF i <= Len(box) THEN IdSeq(box)[i] ELSE IdSeq(more)[i - Len(box)]
  <2>1. PICK s \in Seq(Nat), t \in Seq(Nat) :
           s = IdSeq(box) /\ t = IdSeq(more) /\ Len(s) = Len(box) /\ Len(t) = Len(more)
    BY <1>2, <1>3
  <2>2. /\ s \o t \in Seq(Nat) /\ Len(s \o t) = Len(s) + Len(t)
        /\ \A i \in 1..Len(s) + Len(t) : (s \o t)[i] = IF i <= Len(s) THEN s[i] ELSE t[i - Len(s)]
    BY ConcatProperties
  <2> QED
    BY <2>1, <2>2
<1>6. ASSUME NEW i \in 1..Len(box) + Len(more)
      PROVE  IdSeq(box \o more)[i] = (IdSeq(box) \o IdSeq(more))[i]
  <2>1. CASE i <= Len(box)
    <3>1. i \in 1..Len(box)
      BY <2>1, <1>2, <1>3
    <3> QED
      BY <2>1, <3>1, <1>1, <1>2, <1>4, <1>5
  <2>2. CASE ~(i <= Len(box))
    <3>1. i - Len(box) \in 1..Len(more)
      BY <2>2, <1>2, <1>3
    <3> QED
      BY <2>2, <3>1, <1>1, <1>3, <1>4, <1>5
  <2> QED
    BY <2>1, <2>2
<1> QED
  BY <1>4, <1>5, <1>6, SeqEqual

LEMMA IdSeqOfAppend ==
  ASSUME NEW box \in Seq(Message), NEW m \in Message
  PROVE  IdSeq(Append(box, m)) = Append(IdSeq(box), m.id)
<1>1. /\ <<m>> \in Seq(Message) /\ Len(<<m>>) = 1 /\ <<m>>[1] = m /\ m.id \in Nat
      /\ <<m.id>> \in Seq(Nat) /\ Len(<<m.id>>) = 1 /\ <<m.id>>[1] = m.id
  BY DEF Message
<1>2. IdSeq(<<m>>) \in Seq(Nat) /\ Len(IdSeq(<<m>>)) = 1 /\ IdSeq(<<m>>)[1] = m.id
  <2>1. PICK one \in Seq(Message) : one = <<m>>
    BY <1>1
  <2>2. Len(one) = 1 /\ one[1] = m /\ 1 \in 1..1
    BY <1>1, <2>1
  <2>3. IdSeq(one) \in Seq(Nat) /\ Len(IdSeq(one)) = 1 /\ IdSeq(one)[1] = m.id
    BY <2>2, IdSeqIs
  <2> QED
    BY <2>1, <2>3, Zenon
<1>3. IdSeq(<<m>>) = <<m.id>>
  BY <1>1, <1>2, SeqEqual
<1>4. Append(box, m) = box \o <<m>> /\ IdSeq(box) \in Seq(Nat)
  BY AppendIsConcat, IdSeqIs
<1>5. Append(IdSeq(box), m.id) = IdSeq(box) \o <<m.id>>
  BY <1>1, <1>4, AppendIsConcat
<1> QED
  BY <1>1, <1>3, <1>4, <1>5, IdSeqOfConcat

LEMMA IdSeqOfTail ==
  ASSUME NEW box \in Seq(Message), box # <<>>
  PROVE  IdSeq(box) = <<Head(box).id>> \o IdSeq(Tail(box))
<1>1. /\ Head(box) \in Message /\ Tail(box) \in Seq(Message) /\ Len(box) \in Nat \ {0}
      /\ Len(Tail(box)) = Len(box) - 1 /\ Head(box) = box[1]
      /\ \A i \in 1..Len(Tail(box)) : Tail(box)[i] = box[i + 1]
  BY HeadTailProperties, TailIs
<1>2. /\ <<Head(box)>> \in Seq(Message) /\ <<Head(box)>> = Append(<<>>, Head(box))
      /\ <<>> \in Seq(Message) /\ <<Head(box).id>> = Append(<<>>, Head(box).id)
  BY <1>1
<1>3. IdSeq(<<Head(box)>>) = <<Head(box).id>>
  BY <1>1, <1>2, IdSeqOfAppend, IdSeqOfEmpty
<1>4. /\ <<Head(box)>> \o Tail(box) \in Seq(Message)
      /\ Len(<<Head(box)>> \o Tail(box)) = Len(box)
      /\ \A i \in 1..Len(box) : (<<Head(box)>> \o Tail(box))[i]
                                  = IF i <= 1 THEN <<Head(box)>>[1] ELSE Tail(box)[i - 1]
  <2>1. Len(<<Head(box)>>) = 1
    OBVIOUS
  <2>2. 1 + Len(Tail(box)) = Len(box)
    BY <1>1
  <2> QED
    BY <1>1, <1>2, <2>1, <2>2, ConcatProperties
<1>5. \A i \in 1..Len(box) : (<<Head(box)>> \o Tail(box))[i] = box[i]
  BY <1>1, <1>4
<1>6. box = <<Head(box)>> \o Tail(box)
  BY <1>4, <1>5, SeqEqual
<1> QED
  BY <1>1, <1>2, <1>3, <1>6, IdSeqOfConcat

(* A process's letters are the message it is running and those waiting.    *)
LEMMA LettersAre ==
  ASSUME TypeOK, NEW p \in Procs
  PROVE  /\ Letters(p) = Running(p) \o IdSeq(mailbox[p])
         /\ Running(p) \in Seq(Nat) /\ IdSeq(mailbox[p]) \in Seq(Nat) /\ Letters(p) \in Seq(Nat)
<1>1. Running(p) \in Seq(Nat)
  BY EmptySeq DEF Running, TypeOK
<1>2. mailbox[p] \in Seq(Message)
  BY DEF TypeOK
<1>3. IdSeq(mailbox[p]) \in Seq(Nat)
  BY <1>2, IdSeqIs
<1> QED
  BY <1>1, <1>3, ConcatProperties DEF Letters, Waiting, IdSeq

LEMMA AllLettered == TypeOK => Lettered
  BY LettersAre DEF Lettered

LEMMA LettersNext ==
  \A p \in Procs : Letters(p)' = Running(p)' \o IdSeq(mailbox'[p])
BY DEF Letters, Waiting, IdSeq

LEMMA SameLetters ==
  ASSUME NEW p \in Procs, mailbox'[p] = mailbox[p], cur'[p] = cur[p], p \in settling' <=> p \in settling
  PROVE  Letters(p)' = Letters(p)
<1>1. Waiting(p)' = Waiting(p) /\ Running(p)' = Running(p)
  BY DEF Waiting, Running, Busy
<1> QED
  BY <1>1 DEF Letters

LEMMA SameRunning ==
  ASSUME NEW p \in Procs, cur'[p] = cur[p], p \in settling' <=> p \in settling
  PROVE  Running(p)' = Running(p)
BY DEF Running, Busy

(* A message nobody has met: the next one made, and one an update holds.   *)
LEMMA SeenIs ==
  ASSUME PlaceInv, NEW id \in Nat, Seen(id)
  PROVE  Spent(id) \/ (\E q \in Procs : In(id, Box(q))) \/ In(id, Later)
<1>1. CASE id \in committed
  BY <1>1 DEF Spent
<1>2. CASE \E l \in later : l.msg.id = id
  BY <1>2, Places
<1>3. ASSUME NEW q \in Procs, NEW i \in 1..Len(Letters(q)), Letters(q)[i] = id
      PROVE  Spent(id) \/ In(id, Box(q))
  <2>1. PICK run \in Seq(Nat), box \in Seq(Message) :
           /\ run = Running(q) /\ box = mailbox[q] /\ IdSeq(box) \in Seq(Nat)
           /\ Letters(q) = run \o IdSeq(box)
    BY LettersAre DEF PlaceInv, TypeOK
  <2>2. /\ Len(run) \in Nat /\ Len(IdSeq(box)) \in Nat /\ Len(Letters(q)) = Len(run) + Len(IdSeq(box))
        /\ Letters(q)[i] = IF i <= Len(run) THEN run[i] ELSE IdSeq(box)[i - Len(run)]
    <3>1. PICK ids \in Seq(Nat) : ids = IdSeq(box)
      BY <2>1
    <3>2. /\ Len(run) \in Nat /\ Len(ids) \in Nat /\ Len(run \o ids) = Len(run) + Len(ids)
          /\ \A j \in 1..Len(run) + Len(ids) :
                (run \o ids)[j] = IF j <= Len(run) THEN run[j] ELSE ids[j - Len(run)]
      BY ConcatProperties, LenProperties
    <3> QED
      BY <2>1, <3>1, <3>2
  <2>3. CASE i <= Len(run)
    <3>1. i \in 1..Len(run) /\ run[i] = id
      BY <1>3, <2>2, <2>3
    <3>2. Busy(q) /\ run = <<cur[q]>>
      BY <2>1, <3>1, EmptySeq DEF Running
    <3>3. cur[q] = id
      BY <3>1, <3>2
    <3> QED
      BY <3>2, <3>3 DEF Spent
  <2>4. CASE ~(i <= Len(run))
    <3>1. i - Len(run) \in 1..Len(IdSeq(box)) /\ IdSeq(box)[i - Len(run)] = id
      BY <1>3, <2>2, <2>4
    <3>2. i - Len(run) \in 1..Len(box) /\ box[i - Len(run)].id = id
      BY <3>1, IdSeqIs
    <3>3. id \in Ids(mailbox[q])
      BY <2>1, <3>2 DEF Ids
    <3> QED
      BY <3>3, Places
  <2> QED
    BY <2>3, <2>4
<1> QED
  BY <1>1, <1>2, <1>3 DEF Seen

LEMMA NextIsUnseen ==
  ASSUME PlaceInv
  PROVE  ~Seen(made + 1)
<1>1. made \in Nat /\ made + 1 \in Nat /\ ~(made + 1 <= made)
  BY DEF PlaceInv, TypeOK
<1> QED
  BY <1>1, SeenIs DEF PlaceInv, Given

LEMMA HeldIsUnseen ==
  ASSUME PlaceInv, NEW id \in Nat, NEW x, In(id, x),
         (\E p, q \in Procs : x = Out(p, q)) \/ (\E p \in Procs : x = Held(p))
  PROVE  ~Seen(id)
<1>1. ~Spent(id)
  BY DEF PlaceInv, Unspent
<1>2. \A q \in Procs : x # Box(q) /\ x # Later
  BY PlacesDiffer
<1>3. (\A q \in Procs : ~In(id, Box(q))) /\ ~In(id, Later)
  BY <1>2 DEF PlaceInv, PlacesApart, Apart
<1> QED
  BY <1>1, <1>3, SeenIs

-----------------------------------------------------------------------------
(* Which step of MoProcs makes which.                                      *)
(* Nothing seen from outside.                                              *)
LEMMA RestsStutter ==
  ASSUME UNCHANGED <<mailbox, cur, settling, later, up, committed, halted>>
  PROVE  UNCHANGED Actors!vars
<1>1. \A p \in Procs : Letters(p)' = Letters(p)
  BY SameLetters
<1>2. Timers' = Timers
  BY DEF Timers
<1> QED
  BY <1>1, <1>2, StuttersAre

LEMMA TakesStutter ==
  ASSUME AskInv, NEW q \in Procs, Take(q)
  PROVE  UNCHANGED Actors!vars
<1>1. /\ ~Busy(q) /\ mailbox[q] # <<>> /\ UNCHANGED <<settling, later, up, committed, halted>>
      /\ mailbox' = [mailbox EXCEPT ![q] = Tail(@)]
      /\ cur' = [cur EXCEPT ![q] = Head(mailbox[q]).id]
  BY DEF Take
<1>t. /\ mailbox \in [Procs -> Seq(Message)] /\ cur \in [Procs -> Nat] /\ TypeOK
  BY DEF AskInv, TypeOK
<1>2. mailbox'[q] = Tail(mailbox[q]) /\ cur'[q] = Head(mailbox[q]).id
  BY <1>1, <1>t
<1>3. Head(mailbox[q]) \in Message /\ Tail(mailbox[q]) \in Seq(Message)
  BY <1>1, <1>t, HeadTailProperties
<1>4. Head(mailbox[q]).id \in Nat \ {0}
  BY <1>3 DEF Message
<1>5. Running(q) = <<>> /\ Running(q)' = <<Head(mailbox[q]).id>>
  <2>1. q \notin settling
    BY <1>1 DEF AskInv, SettlingBusy
  <2> QED
    BY <1>1, <1>2, <1>4, <2>1 DEF Running, Busy
<1>6. IdSeq(mailbox[q]) = <<Head(mailbox[q]).id>> \o IdSeq(Tail(mailbox[q]))
  BY <1>1, <1>t, IdSeqOfTail
<1>7. Letters(q)' = Letters(q)
  <2>1. Letters(q) = <<>> \o IdSeq(mailbox[q]) /\ IdSeq(mailbox[q]) \in Seq(Nat)
    BY <1>5, <1>t, LettersAre
  <2>2. Letters(q) = IdSeq(mailbox[q])
    BY <2>1, ConcatEmptySeq
  <2>3. Letters(q)' = <<Head(mailbox[q]).id>> \o IdSeq(Tail(mailbox[q]))
    BY <1>2, <1>5, LettersNext
  <2> QED
    BY <2>2, <2>3, <1>6
<1>8. \A p \in Procs : Letters(p)' = Letters(p)
  <2> TAKE p \in Procs
  <2>1. CASE p # q
    <3>1. mailbox'[p] = mailbox[p] /\ cur'[p] = cur[p]
      BY <1>1, <1>t, <2>1
    <3> QED
      BY <3>1, <1>1, SameLetters
  <2> QED
    BY <1>7, <2>1
<1>9. Timers' = Timers
  BY <1>1 DEF Timers
<1> QED
  BY <1>1, <1>8, <1>9, StuttersAre

LEMMA SettlesStutter ==
  ASSUME TypeOK, NEW p \in Procs, Settle(p)
  PROVE  UNCHANGED Actors!vars
<1>1. /\ p \in settling /\ settling' = settling \ {p} /\ cur' = [cur EXCEPT ![p] = 0]
      /\ UNCHANGED <<mailbox, later, up, committed, halted>> /\ cur \in [Procs -> Nat]
  BY DEF Settle, TypeOK
<1>2. Running(p) = <<>> /\ Running(p)' = <<>> /\ Waiting(p)' = Waiting(p)
  BY <1>1 DEF Running, Busy, Waiting
<1>3. \A q \in Procs : Letters(q)' = Letters(q)
  <2> TAKE q \in Procs
  <2>1. CASE q = p
    BY <1>2, <2>1 DEF Letters
  <2>2. CASE q # p
    BY <1>1, <2>2, SameLetters
  <2> QED
    BY <2>1, <2>2
<1>4. Timers' = Timers
  BY <1>1 DEF Timers
<1> QED
  BY <1>1, <1>3, <1>4, StuttersAre

(* A message joins the mailbox of a process that is up.                    *)
LEMMA EnqueuesAppend ==
  ASSUME TypeOK, NEW q \in Procs, NEW m \in Message, Enqueue(q, m), UNCHANGED <<cur, settling>>
  PROVE  \A p \in Procs : Letters(p)' = IF p = q THEN Append(Letters(q), m.id) ELSE Letters(p)
<1>t. mailbox \in [Procs -> Seq(Message)]
  BY DEF TypeOK
<1> TAKE p \in Procs
<1>1. CASE p # q
  <2>1. mailbox'[p] = mailbox[p]
    BY <1>1, <1>t DEF Enqueue
  <2> QED
    BY <1>1, <2>1, SameLetters
<1>2. CASE p = q
  <2>1. mailbox'[q] = Append(mailbox[q], m) /\ mailbox[q] \in Seq(Message) /\ m.id \in Nat
    BY <1>t DEF Enqueue, Message
  <2>2. PICK run \in Seq(Nat), ids \in Seq(Nat) :
           run = Running(q) /\ ids = IdSeq(mailbox[q]) /\ Letters(q) = run \o ids
    BY LettersAre
  <2>3. Letters(q)' = run \o Append(ids, m.id)
    BY <2>1, <2>2, LettersNext, SameRunning, IdSeqOfAppend
  <2>4. ASSUME NEW id \in Nat PROVE run \o Append(ids, id) = Append(run \o ids, id)
    <3>1. /\ <<id>> \in Seq(Nat) /\ Append(ids, id) = ids \o <<id>>
          /\ run \o ids \in Seq(Nat)
      BY AppendIsConcat, ConcatProperties
    <3>2. Append(run \o ids, id) = (run \o ids) \o <<id>>
      BY <3>1, AppendIsConcat
    <3>3. (run \o ids) \o <<id>> = run \o (ids \o <<id>>)
      BY <3>1, ConcatAssociative
    <3> QED
      BY <3>1, <3>2, <3>3
  <2> QED
    BY <1>2, <2>1, <2>2, <2>3, <2>4
<1> QED
  BY <1>1, <1>2

LEMMA MainSends ==
  ASSUME PlaceInv, NEW q \in Procs, MainSend(q)
  PROVE  Actors!Next
<1> DEFINE m == Made(Main, 0, "send")
<1>1. TypeOK /\ m \in Message /\ m.id = made + 1 /\ ~Seen(made + 1)
  BY MadeType, NextIsUnseen DEF PlaceInv, Made
<1>2. /\ ~halted /\ up[q] /\ Enqueue(q, m) /\ UNCHANGED <<cur, settling, later, up, committed, halted>>
  BY DEF MainSend, MainRuns
<1>3. Timers' = Timers
  BY <1>2 DEF Timers
<1> HIDE DEF m
<1>4. \A p \in Procs : Letters(p)' = IF p = q THEN Append(Letters(q), m.id) ELSE Letters(p)
  BY <1>1, <1>2, EnqueuesAppend
<1>5. made + 1 \in Nat
  BY <1>1 DEF TypeOK
<1> QED
  BY <1>1, <1>2, <1>3, <1>4, <1>5, AllLettered, PostsAre

LEMMA AsksSend ==
  ASSUME PlaceInv, NEW c \in Callers, NEW q \in Procs, Ask(c, q)
  PROVE  Actors!Next
<1> DEFINE upd == IF c = Main THEN 0 ELSE cur[c]
           m == Made(c, upd, "ask")
<1>0. TypeOK /\ upd \in Nat
  BY DEF PlaceInv, TypeOK
<1>1. m \in Message /\ m.id = made + 1 /\ ~Seen(made + 1)
  BY <1>0, MadeType, NextIsUnseen DEF Made
<1>2. /\ ~halted /\ up[q] /\ Enqueue(q, m) /\ UNCHANGED <<cur, settling, later, up, committed, halted>>
  BY DEF Ask, MainRuns, Runs
<1>3. Timers' = Timers
  BY <1>2 DEF Timers
<1> HIDE DEF m
<1>4. \A p \in Procs : Letters(p)' = IF p = q THEN Append(Letters(q), m.id) ELSE Letters(p)
  BY <1>0, <1>1, <1>2, EnqueuesAppend
<1>5. made + 1 \in Nat
  BY <1>0 DEF TypeOK
<1> QED
  BY <1>0, <1>1, <1>2, <1>3, <1>4, <1>5, AllLettered, PostsAre

LEMMA MainDelays ==
  ASSUME PlaceInv, NEW q \in Procs, MainSendLater(q)
  PROVE  Actors!Next
<1> DEFINE l == [to |-> q, msg |-> Made(Main, 0, "later")]
           t == [to |-> q, id |-> made + 1]
<1>1. TypeOK /\ ~Seen(made + 1) /\ l.to = q /\ l.msg.id = made + 1
  BY NextIsUnseen DEF PlaceInv, Made
<1>2. /\ ~halted /\ up[q] /\ later' = later \cup {l}
      /\ UNCHANGED <<mailbox, cur, settling, up, committed, halted>>
  BY DEF MainSendLater, MainRuns, procVars
<1>3. Timers' = Timers \cup {t}
  BY <1>1, <1>2 DEF Timers
<1>4. \A p \in Procs : Letters(p)' = Letters(p)
  BY <1>2, SameLetters
<1>5. t.id = made + 1 /\ t.to = q
  OBVIOUS
<1> HIDE DEF t
<1> QED
  BY <1>1, <1>2, <1>3, <1>4, <1>5, AllLettered, DelaysAre

LEMMA LaterIsDue ==
  ASSUME PlaceInv, NEW l \in later, DueLater(l)
  PROVE  Actors!Next
<1> DEFINE t == [to |-> l.to, id |-> l.msg.id]
<1>1. TypeOK /\ DifferLater(later) /\ l.to \in Procs /\ l.msg \in Message
  BY DEF PlaceInv, Differing, TypeOK, Outgoing
<1>2. /\ ~halted /\ later' = later \ {l}
      /\ \/ Enqueue(l.to, l.msg) /\ up[l.to]
         \/ mailbox' = mailbox
      /\ UNCHANGED <<cur, settling, up, committed, halted>>
  BY DEF DueLater, Accepts
<1>3. Timers' = Timers \ {t} /\ t \in Timers
  BY <1>1, <1>2 DEF Timers, DifferLater
<1>4. \/ \A p \in Procs : Letters(p)' = Letters(p)
      \/ /\ up[l.to]
         /\ \A p \in Procs : Letters(p)' = IF p = l.to THEN Append(Letters(p), l.msg.id)
                                                       ELSE Letters(p)
  <2>1. CASE mailbox' = mailbox
    BY <1>2, <2>1, SameLetters
  <2>2. CASE Enqueue(l.to, l.msg) /\ up[l.to]
    BY <1>1, <1>2, <2>2, EnqueuesAppend
  <2> QED
    BY <1>2, <2>1, <2>2
<1>5. t.to = l.to /\ t.id = l.msg.id
  OBVIOUS
<1> HIDE DEF t
<1> QED
  BY <1>1, <1>2, <1>3, <1>4, <1>5, DuesAre

LEMMA MainHalts ==
  ASSUME TypeOK, NEW q \in Procs, MainOverflows(q)
  PROVE  Actors!Next
<1>1. /\ ~halted /\ halted' = TRUE /\ UNCHANGED <<mailbox, cur, settling, later, up, committed>>
  BY DEF MainOverflows, MainRuns, procVars
<1>2. Timers' = Timers
  BY <1>1 DEF Timers
<1>3. ASSUME NEW p \in Procs
      PROVE  \E rest \in Seq(Nat) : Letters(p)' \in Seq(Nat) /\ Letters(p) = Letters(p)' \o rest
  <2>1. Letters(p)' = Letters(p) /\ Letters(p) \in Seq(Nat)
    BY <1>1, SameLetters, LettersAre
  <2>2. <<>> \in Seq(Nat) /\ Letters(p) = Letters(p) \o <<>>
    BY <2>1, ConcatEmptySeq
  <2> QED
    BY <2>1, <2>2
<1> QED
  BY <1>1, <1>2, <1>3, AllLettered, HaltsAre

(* A crash that ends the run, or only the process's turn.                  *)
LEMMA GivesUpHalts ==
  ASSUME TypeOK, NEW p \in Procs, CrashGivesUp(p)
  PROVE  Actors!Next
<1>1. /\ ~halted /\ halted' = TRUE /\ UNCHANGED <<cur, settling, later, committed>>
      /\ mailbox' = mailbox \/ mailbox' = [mailbox EXCEPT ![p] = <<>>]
      /\ up' = [q \in Procs |-> up[q] /\ Supervisor[q] # Supervisor[p]]
  BY DEF CrashGivesUp, Runs, Drops
<1>2. Timers' = Timers
  BY <1>1 DEF Timers
<1>3. ASSUME NEW q \in Procs
      PROVE  \E rest \in Seq(Nat) : Letters(q)' \in Seq(Nat) /\ Letters(q) = Letters(q)' \o rest
  <2>1. PICK run \in Seq(Nat), ids \in Seq(Nat) :
           /\ run = Running(q) /\ ids = IdSeq(mailbox[q]) /\ Letters(q) = run \o ids
           /\ run \o ids \in Seq(Nat)
    BY LettersAre
  <2>2. CASE mailbox'[q] = mailbox[q]
    <3>1. Letters(q)' = run \o ids
      BY <1>1, <2>1, <2>2, SameLetters
    <3>2. <<>> \in Seq(Nat) /\ run \o ids = (run \o ids) \o <<>>
      BY <2>1, ConcatEmptySeq
    <3> QED
      BY <2>1, <3>1, <3>2
  <2>3. CASE mailbox'[q] = <<>>
    <3>1. Letters(q)' = run \o <<>>
      BY <1>1, <2>1, <2>3, LettersNext, SameRunning, IdSeqOfEmpty
    <3>2. Letters(q)' = run
      BY <3>1, ConcatEmptySeq
    <3> QED
      BY <2>1, <3>2
  <2> QED
    BY <1>1, <2>2, <2>3 DEF TypeOK
<1>4. \A q \in Procs : up'[q] => up[q]
  BY <1>1
<1> QED
  BY <1>1, <1>2, <1>3, <1>4, AllLettered, HaltsAre

(* What an update is running comes first of its letters.                   *)
LEMMA RunsFirst ==
  ASSUME TypeOK, NEW p \in Procs, Runs(p)
  PROVE  /\ Letters(p) # <<>> /\ Head(Letters(p)) = cur[p]
         /\ Tail(Letters(p)) = IdSeq(mailbox[p])
<1>1. cur[p] \in Nat /\ Running(p) = <<cur[p]>>
  BY DEF Runs, Running, TypeOK
<1>2. PICK ids \in Seq(Nat) : ids = IdSeq(mailbox[p]) /\ Letters(p) = <<cur[p]>> \o ids
  BY <1>1, LettersAre
<1>3. ASSUME NEW id \in Nat
      PROVE  /\ <<id>> \o ids # <<>> /\ Head(<<id>> \o ids) = id /\ Tail(<<id>> \o ids) = ids
  <2>0. <<id>> \in Seq(Nat) /\ Len(<<id>>) = 1 /\ <<id>>[1] = id
    OBVIOUS
  <2>1. PICK one \in Seq(Nat) : one = <<id>> /\ Len(one) = 1 /\ one[1] = id
    BY <2>0, Zenon
  <2>2. /\ one \o ids \in Seq(Nat) /\ Len(one \o ids) = 1 + Len(ids) /\ Len(ids) \in Nat
        /\ \A i \in 1..1 + Len(ids) : (one \o ids)[i] = IF i <= 1 THEN one[i] ELSE ids[i - 1]
    BY <2>1, ConcatProperties, LenProperties
  <2>3. one \o ids # <<>>
    BY <2>2, EmptySeq
  <2>4. Head(one \o ids) = id
    <3>1. Head(one \o ids) = (one \o ids)[1]
      BY <2>2, SMT
    <3> QED
      BY <2>1, <2>2, <3>1
  <2>5. /\ Tail(one \o ids) \in Seq(Nat) /\ Len(Tail(one \o ids)) = Len(ids)
        /\ \A i \in 1..Len(ids) : Tail(one \o ids)[i] = (one \o ids)[i + 1]
    BY <2>2, <2>3, HeadTailProperties
  <2>6. \A i \in 1..Len(ids) : Tail(one \o ids)[i] = ids[i]
    BY <2>2, <2>5
  <2>7. Tail(one \o ids) = ids
    BY <2>5, <2>6, SeqEqual
  <2> QED
    BY <2>1, <2>3, <2>4, <2>7
<1> QED
  BY <1>1, <1>2, <1>3

LEMMA CrashesCrash ==
  ASSUME TypeOK, RunningUp, NEW p \in Procs, CrashStaysDown(p) \/ CrashRestarts(p)
  PROVE  Actors!Next
<1>1. /\ Runs(p) /\ ~halted /\ settling' = settling \cup {p}
      /\ mailbox' = [mailbox EXCEPT ![p] = <<>>]
      /\ up' = [up EXCEPT ![p] = FALSE] \/ up' = up
      /\ UNCHANGED <<cur, later, committed, halted>>
  BY DEF CrashStaysDown, CrashRestarts, Drops, Runs
<1>t. mailbox \in [Procs -> Seq(Message)] /\ up \in [Procs -> BOOLEAN]
  BY DEF TypeOK
<1>2. up[p] /\ Letters(p) # <<>>
  BY <1>1, RunsFirst DEF RunningUp, Runs
<1>3. \E v \in BOOLEAN : up' = [up EXCEPT ![p] = v]
  <2>1. up = [up EXCEPT ![p] = TRUE]
    BY <1>2, <1>t
  <2> QED
    BY <1>1, <2>1
<1>4. ASSUME NEW q \in Procs PROVE Letters(q)' = IF q = p THEN <<>> ELSE Letters(q)
  <2>1. CASE q # p
    <3>1. mailbox'[q] = mailbox[q] /\ (q \in settling' <=> q \in settling)
      BY <1>1, <1>t, <2>1
    <3> QED
      BY <1>1, <2>1, <3>1, SameLetters
  <2>2. CASE q = p
    <3>1. mailbox'[p] = <<>> /\ Running(p)' = <<>>
      BY <1>1, <1>t DEF Running
    <3>2. Letters(p)' = <<>> \o <<>>
      BY <3>1, LettersNext, IdSeqOfEmpty
    <3>3. <<>> \o <<>> = <<>>
      BY EmptySeq, ConcatEmptySeq
    <3> QED
      BY <2>2, <3>2, <3>3
  <2> QED
    BY <2>1, <2>2
<1>5. Timers' = Timers
  BY <1>1 DEF Timers
<1> QED
  BY <1>1, <1>2, <1>3, <1>4, <1>5, CrashesAre

(* An update commits: one update of MoActors.                              *)
LEMMA CommitsUpdate ==
  ASSUME PlaceInv, RunningUp, OutboxFits, NEW p \in Procs, Commit(p)
  PROVE  Actors!Next
<1> DEFINE sent == [q \in Procs |-> IF up[q] THEN IdSeq(outbox[p][q]) ELSE <<>>]
<1>1. /\ Runs(p) /\ ~halted /\ settling' = settling \cup {p} /\ mailbox' = Flushed(p)
      /\ later' = later \cup {o \in heldLater[p] : up[o.to]}
      /\ committed' = committed \cup {cur[p]} /\ UNCHANGED <<up, cur, halted>>
  BY DEF Commit, Runs
<1>t. /\ TypeOK /\ up \in [Procs -> BOOLEAN] /\ heldLater \in [Procs -> SUBSET Outgoing]
      /\ \A q \in Procs : mailbox[q] \in Seq(Message) /\ outbox[p][q] \in Seq(Message)
  <2>1. TypeOK
    BY DEF PlaceInv
  <2>2. /\ up \in [Procs -> BOOLEAN] /\ heldLater \in [Procs -> SUBSET Outgoing]
        /\ mailbox \in [Procs -> Seq(Message)] /\ outbox \in [Procs -> [Procs -> Seq(Message)]]
    BY <2>1 DEF TypeOK
  <2> QED
    BY <2>1, <2>2
<1>2. up[p] /\ Letters(p) # <<>> /\ Head(Letters(p)) = cur[p]
      /\ Tail(Letters(p)) = IdSeq(mailbox[p])
  BY <1>1, <1>t, RunsFirst DEF RunningUp, Runs
<1>3. ASSUME NEW q \in Procs
      PROVE  /\ sent[q] \in Seq(Nat) /\ \A i \in 1..Len(sent[q]) : ~Seen(sent[q][i])
             /\ Len(sent[q]) <= IF up[q] THEN Bound[q] ELSE 0
  <2>1. CASE up[q]
    <3>1. sent[q] = IdSeq(outbox[p][q])
      BY <2>1
    <3>2. /\ sent[q] \in Seq(Nat) /\ Len(sent[q]) = Len(outbox[p][q])
          /\ \A i \in 1..Len(outbox[p][q]) : sent[q][i] = outbox[p][q][i].id
      BY <1>t, <3>1, IdSeqIs
    <3>3. ASSUME NEW i \in 1..Len(outbox[p][q]) PROVE ~Seen(outbox[p][q][i].id)
      <4>1. outbox[p][q][i].id \in Ids(outbox[p][q]) /\ outbox[p][q][i].id \in Nat
        BY <1>t, IdsAreNat DEF Ids
      <4>2. In(outbox[p][q][i].id, Out(p, q))
        BY <4>1, Places
      <4> QED
        BY <4>1, <4>2, HeldIsUnseen
    <3> HIDE DEF sent
    <3>4. Len(outbox[p][q]) <= Bound[q]
      BY DEF OutboxFits
    <3> QED
      BY <2>1, <3>2, <3>3, <3>4
  <2>2. CASE ~up[q]
    <3>1. sent[q] = <<>>
      BY <2>2
    <3> HIDE DEF sent
    <3> QED
      BY <2>2, <3>1, EmptySeq
  <2> QED
    BY <2>1, <2>2
<1>4. ASSUME NEW q \in Procs
      PROVE  IdSeq(mailbox'[q]) = IdSeq(mailbox[q]) \o sent[q]
  <2>1. CASE up[q]
    <3>1. mailbox'[q] = mailbox[q] \o outbox[p][q] /\ sent[q] = IdSeq(outbox[p][q])
      BY <1>1, <2>1 DEF Flushed
    <3>2. mailbox[q] \in Seq(Message) /\ outbox[p][q] \in Seq(Message)
      BY <1>t
    <3>3. IdSeq(mailbox[q] \o outbox[p][q]) = IdSeq(mailbox[q]) \o IdSeq(outbox[p][q])
      BY <3>2, IdSeqOfConcat
    <3> HIDE DEF sent
    <3> QED
      BY <3>1, <3>3, Zenon
  <2>2. CASE ~up[q]
    <3>1. mailbox'[q] = mailbox[q] /\ sent[q] = <<>>
      BY <1>1, <2>2 DEF Flushed
    <3>2. IdSeq(mailbox[q]) \in Seq(Nat)
      BY <1>t, IdSeqIs
    <3> HIDE DEF sent
    <3> QED
      BY <3>1, <3>2, ConcatEmptySeq
  <2> QED
    BY <2>1, <2>2
<1>5. \A o \in heldLater[p] : ~Seen(o.msg.id)
  <2> TAKE o \in heldLater[p]
  <2>1. o.msg.id \in Nat
    BY <1>t DEF Outgoing, Message
  <2>2. In(o.msg.id, Held(p))
    BY Places
  <2> QED
    BY <2>1, <2>2, HeldIsUnseen
<1> HIDE DEF sent
<1>6. ASSUME NEW q \in Procs
      PROVE  Letters(q)' = (IF q = p THEN Tail(Letters(p)) ELSE Letters(q)) \o sent[q]
  <2>1. PICK run \in Seq(Nat), ids \in Seq(Nat), more \in Seq(Nat) :
           /\ run = Running(q) /\ ids = IdSeq(mailbox[q]) /\ Letters(q) = run \o ids
           /\ more = sent[q]
    BY <1>3, <1>t, LettersAre
  <2>2. Letters(q)' = Running(q)' \o (ids \o more)
    BY <1>4, <2>1, LettersNext
  <2>3. CASE q = p
    <3>1. Running(q)' = <<>> /\ Tail(Letters(p)) = ids
      BY <1>1, <1>2, <2>1, <2>3 DEF Running
    <3>2. ids \o more \in Seq(Nat)
      BY ConcatProperties
    <3>3. <<>> \o (ids \o more) = ids \o more
      BY <3>2, ConcatEmptySeq
    <3> QED
      BY <2>1, <2>2, <2>3, <3>1, <3>3
  <2>4. CASE q # p
    <3>1. q \in settling' <=> q \in settling
      BY <1>1, <2>4
    <3>2. Running(q)' = run
      BY <1>1, <2>1, <3>1, SameRunning
    <3>3. run \o (ids \o more) = (run \o ids) \o more
      BY ConcatOfThree
    <3> QED
      BY <2>1, <2>2, <2>4, <3>2, <3>3
  <2> QED
    BY <2>3, <2>4
<1>7. Timers \subseteq Timers' /\ \A t \in Timers' \ Timers : up[t.to] /\ ~Seen(t.id)
  BY <1>1, <1>5 DEF Timers
<1>8. Lettered /\ ~halted /\ up[p] /\ Letters(p) # <<>> /\ UNCHANGED <<up, halted>>
  BY <1>1, <1>2, <1>t, AllLettered
<1>9. committed' = committed \cup {Head(Letters(p))}
  BY <1>1, <1>2
<1> QED
  BY <1>3, <1>6, <1>7, <1>8, <1>9, UpdatesAre

-----------------------------------------------------------------------------
LEMMA RefineInvariant == Spec => []RefineInv
<1>1. Init => OutboxFits
  BY BoundAssumption, EmptySeq DEF Init, OutboxFits
<1>2. TypeOK /\ OutboxFits /\ [Next]_vars => OutboxFits'
  BY OutboxFitsKept
<1>3. Spec => []PlaceInv
  BY PlaceInitial, PlaceKept, PTL DEF Spec
<1>4. PlaceInv => TypeOK
  BY DEF PlaceInv
<1>5. RefineInv <=> PlaceInv /\ TurnInv /\ OutboxFits
  BY DEF RefineInv
<1> QED
  BY <1>1, <1>2, <1>3, <1>4, <1>5, TurnInvariant, PTL DEF Spec

LEMMA StepsAre == RefineInv /\ [Next]_vars => [Actors!Next]_(Actors!vars)
<1> SUFFICES ASSUME RefineInv, [Next]_vars PROVE Actors!Next \/ UNCHANGED Actors!vars
  OBVIOUS
<1>i. PlaceInv /\ TypeOK /\ AskInv /\ RunningUp /\ OutboxFits
  BY DEF RefineInv, TurnInv, PlaceInv
<1>k. \A c \in Callers : Knows[c] \subseteq Procs
  BY KnowsAssumption
<1>1. CASE UNCHANGED vars
  BY <1>1, RestsStutter DEF vars, procVars
<1>2. ASSUME NEW q \in Knows[Main], MainSend(q) \/ MainSendLater(q) \/ MainOverflows(q) \/ Ask(Main, q)
      PROVE  Actors!Next
  BY <1>2, <1>i, <1>k, MainSends, MainDelays, MainHalts, AsksSend
<1>3. ASSUME NEW p \in Procs, NEW q \in Knows[p], Send(p, q) \/ SendLater(p, q) \/ Ask(p, q)
      PROVE  Actors!Next \/ UNCHANGED Actors!vars
  <2>1. CASE Ask(p, q)
    BY <2>1, <1>i, <1>k, AsksSend
  <2>2. CASE Send(p, q) \/ SendLater(p, q)
    BY <2>2, RestsStutter DEF Send, SendLater
  <2> QED
    BY <1>3, <2>1, <2>2
<1>4. ASSUME NEW p \in Procs, Defer(p) \/ \E id \in kept[p] \cup {cur[p]} : Answer(p, id)
      PROVE  UNCHANGED Actors!vars
  BY <1>4, RestsStutter DEF Defer, Answer
<1>5. ASSUME NEW p \in Procs, Commit(p) \/ Crash(p) PROVE Actors!Next
  BY <1>5, <1>i, CommitsUpdate, CrashesCrash, GivesUpHalts DEF Crash
<1>6. ASSUME NEW p \in Procs, Settle(p) PROVE UNCHANGED Actors!vars
  BY <1>6, <1>i, SettlesStutter
<1>7. ASSUME NEW c \in Callers, AskReturns(c) \/ AskGivesUp(c) \/ AskStepsAside(c) \/ AskParks(c) \/ Expire(c)
      PROVE  UNCHANGED Actors!vars
  BY <1>7, RestsStutter DEF AskReturns, AskGivesUp, AskStepsAside, AskParks, Expire, procVars
<1>8. ASSUME NEW c \in Callers, AskDelivers(c) PROVE UNCHANGED Actors!vars
  <2>1. asking[c].to \in Procs
    BY <1>8, <1>i DEF TypeOK, AskDelivers, InPass
  <2> QED
    BY <1>8, <1>i, <2>1, TakesStutter DEF AskDelivers
<1>9. ASSUME NEW s \in Scheds, NEW p \in Procs, Resume(s, p) PROVE UNCHANGED Actors!vars
  BY <1>9, RestsStutter DEF Resume, procVars
<1>10. ASSUME NEW s \in Scheds, NEW q \in Procs, Deliver(s, q) PROVE UNCHANGED Actors!vars
  BY <1>10, <1>i, TakesStutter DEF Deliver
<1>11. ASSUME NEW l \in later, DueLater(l) PROVE Actors!Next
  BY <1>11, <1>i, LaterIsDue
<1> QED
  <2>1. MainRow => Actors!Next
    BY <1>2 DEF MainRow
  <2>2. ASSUME NEW p \in Procs, Row(p) \/ Commit(p) \/ Crash(p) \/ Settle(p)
        PROVE  Actors!Next \/ UNCHANGED Actors!vars
    BY <2>2, <1>3, <1>4, <1>5, <1>6 DEF Row
  <2>3. ASSUME NEW c \in Callers, Pass(c) \/ Expire(c) PROVE UNCHANGED Actors!vars
    BY <2>3, <1>7, <1>8 DEF Pass
  <2>4. ASSUME NEW s \in Scheds, Turn(s) PROVE UNCHANGED Actors!vars
    BY <2>4, <1>9, <1>10 DEF Turn
  <2> QED
    BY <1>1, <1>11, <2>1, <2>2, <2>3, <2>4 DEF Next

LEMMA StartsAre == Init => Actors!Init
<1> SUFFICES ASSUME Init PROVE Actors!Init
  OBVIOUS
<1>1. ASSUME NEW p \in Procs PROVE Running(p) \o Waiting(p) = <<>>
  <2>1. Running(p) = <<>> /\ mailbox[p] = <<>>
    BY DEF Init, Running, Busy
  <2>2. Waiting(p) = <<>>
    BY <2>1, IdSeqOfEmpty DEF Waiting, IdSeq
  <2>3. <<>> \o <<>> = <<>>
    BY EmptySeq, ConcatEmptySeq
  <2> QED
    BY <2>1, <2>2, <2>3
<1> QED
  BY <1>1 DEF Init, Actors!Init

(* Every run of MoProcs, its handing over and waiting left out, is a run   *)
(* of MoActors: each commit is one whole update, each crash one that left  *)
(* nothing (ImplementsActors).                                             *)
THEOREM UpdatesAreAtomic == Spec => ImplementsActors
<1> QED
  BY RefineInvariant, StepsAre, StartsAre, PTL DEF Spec, ImplementsActors, Actors!Spec
=============================================================================
