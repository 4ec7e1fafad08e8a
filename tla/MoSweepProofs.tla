--------------------------- MODULE MoSweepProofs ---------------------------
(***************************************************************************)
(* Proofs about MoSweep, for any ids and any number of starts and          *)
(* messages, whatever is swept and started in its place: a handle a        *)
(* program has is of a process that has not ended, or was in no place      *)
(* Turns.sweep reads when a sweep ended it (HandlesAreLive); mail is for   *)
(* the process it was sent to (MessagesReachTheirs); no process ends owing *)
(* an answer to whoever has its handle where a sweep looks                 *)
(* (EndedOwesNothing); and what a sweep would end, and nothing leads to, a *)
(* later one ends too (GarbageStays).                                      *)
(*                                                                         *)
(* The argument.  A process without frames holds nothing for a commit      *)
(* (IdleHasNothing).  So every place of Seen is one a sweep starts from,   *)
(* or an idle process's own, which it follows if it marks the process and  *)
(* ends if it does not: no handle there is of a process it ends            *)
(* (SweepLooks), and what is lost was in Unseen alone.  Between sweeps, a  *)
(* start takes an id nobody lives at (LivesOn), and every other step only  *)
(* moves handles from place to place (PlacesStep, of any set the handles   *)
(* in all the places are of: once that of the live and the lost ones, once *)
(* that of those that are not of garbage).                                 *)
(***************************************************************************)
EXTENDS MoSweep, TLAPS

(* A process between updates has no frame and holds no send and no answer;   *)
(* one that has ended has nothing.                                           *)
IdleHasNothing ==
    \A id \in Ids : phase[id] = "idle" => locals[id] = {} /\ outbox[id] = {} /\ pending[id] = {}
EndedHasNothing ==
    \A id \in Ids : slot[id] # "live" =>
        ~up[id] /\ args[id] = {} /\ mailbox[id] = {} /\ phase[id] = "idle"

(* Every handle in a place is of S: in locals; in arguments and states, but  *)
(* for the processes E; in mailboxes; in outboxes; in answers nobody has     *)
(* taken; in what belongs to the run; and where no sweep looks.              *)
NamedIn(S) == \A x \in Users : locals[x] \subseteq S
OwnedIn(S, E) == \A id \in Ids \ E : Keeps(id) \subseteq S
MailIn(S) ==
    \A id \in Ids : \A m \in mailbox[id] : m.to.id = id /\ m.to \in S /\ m.holds \subseteq S
SentIn(S) ==
    \A id \in Ids : \A o \in outbox[id] : o.message.to \in S /\ o.message.holds \subseteq S
RepliesIn(S) == \A x \in Users : asked[x] # NoAsk => \A v \in asked[x].got : v \subseteq S
RunIn(S) == sources \subseteq S /\ \A m \in later : m.to \in S /\ m.holds \subseteq S

StacksIn(S) == \A x \in Users : stack[x] \subseteq S
HeldIn(S) == \A id \in Ids : \A r \in pending[id] : r.holds \subseteq S
AsksIn(S) == \A x \in Users : asked[x] # NoAsk /\ asked[x].got = {} => asked[x].to \in S

SeenIn(S, E) ==
    NamedIn(S) /\ OwnedIn(S, E) /\ MailIn(S) /\ SentIn(S) /\ RepliesIn(S) /\ RunIn(S)
UnseenIn(S) == StacksIn(S) /\ hand \subseteq S /\ HeldIn(S) /\ AsksIn(S)
PlacesIn(S, E) == SeenIn(S, E) /\ UnseenIn(S)

(* The live ones and the lost ones.                                          *)
GoodHandles == {h \in Handle : Lives(h)} \cup lost
Places == PlacesIn(GoodHandles, {})

Frames == IdleHasNothing /\ EndedHasNothing

-----------------------------------------------------------------------------
(* Shapes of what steps build.                                               *)
LEMMA HeldTypes ==
    ASSUME TypeOK
    PROVE  /\ \A v \in Value : v \subseteq Handle
           /\ \A x \in Users : Known(x) \subseteq Handle /\ Given(x) \subseteq Value
           /\ \A x \in Users : \A v \in Given(x) : v \subseteq Known(x)
  BY DEF TypeOK, Known, Given, Value

LEMMA LetterTypes ==
    ASSUME TypeOK, made < MaxMade, NEW h \in Handle, NEW v \in Value
    PROVE  Letter(h, v) \in Message /\ made + 1 \in Number /\ made + 1 \in 0 .. MaxMade
  BY MadeAssumption DEF TypeOK, Letter, Message, Number

LEMMA EnqueuedTypes ==
    ASSUME TypeOK, NEW ms \in SUBSET Message
    PROVE  Enqueued(ms) \in [Ids -> SUBSET Message]
  BY DEF TypeOK, Enqueued

(* Answering an ask leaves it alone, or gives it one reply's value.          *)
LEMMA AnsweredTypes ==
    ASSUME TypeOK, NEW rs \in SUBSET Reply
    PROVE  /\ Answered(rs) \in [Users -> Asking \cup {NoAsk}]
           /\ \A x \in Users :
                \/ Answered(rs)[x] = asked[x]
                \/ /\ asked[x] # NoAsk /\ Answered(rs)[x] # NoAsk
                   /\ Answered(rs)[x].to = asked[x].to
                   /\ \E r \in rs : Answered(rs)[x].got = {r.holds}
<1> DEFINE Choice(x) == CHOOSE r \in rs : r.n = asked[x].n
<1>1. ASSUME NEW x \in Users
      PROVE  \/ Answered(rs)[x] = asked[x]
             \/ /\ asked[x] # NoAsk /\ Answered(rs)[x] # NoAsk
                /\ Answered(rs)[x] \in Asking
                /\ Answered(rs)[x].to = asked[x].to
                /\ \E r \in rs : Answered(rs)[x].got = {r.holds}
  <2>1. CASE \E r \in rs : Awaited(x, r.n)
    <3>1. Choice(x) \in rs /\ asked[x] # NoAsk
      BY <2>1 DEF Awaited
    <3>2. Answered(rs)[x] = [asked[x] EXCEPT !.got = {Choice(x).holds}]
      BY <2>1 DEF Answered
    <3>3. asked[x] \in Asking /\ Choice(x).holds \in Value
      BY <3>1 DEF TypeOK, Reply
    <3>4. /\ [asked[x] EXCEPT !.got = {Choice(x).holds}] \in Asking
          /\ [asked[x] EXCEPT !.got = {Choice(x).holds}].to = asked[x].to
          /\ [asked[x] EXCEPT !.got = {Choice(x).holds}].got = {Choice(x).holds}
      BY <3>3 DEF Asking
    <3> QED BY <3>1, <3>2, <3>4, NoAskAssumption
  <2>2. CASE ~\E r \in rs : Awaited(x, r.n)
    BY <2>2 DEF Answered
  <2> QED BY <2>1, <2>2
<1>2. Answered(rs) \in [Users -> Asking \cup {NoAsk}]
  <2>1. \A x \in Users : Answered(rs)[x] \in Asking \cup {NoAsk}
    BY <1>1 DEF TypeOK
  <2>2. Answered(rs) = [x \in Users |-> Answered(rs)[x]]
    BY DEF Answered
  <2> QED BY <2>1, <2>2
<1> QED BY <1>1, <1>2

LEMMA BeginsTypes ==
    ASSUME TypeOK, NEW id \in Ids, NEW v \in Value, NEW ofLine \in BOOLEAN, Begins(id, v, ofLine)
    PROVE  /\ Made(id) \subseteq Handle
           /\ slot' \in [Ids -> {"new", "live", "ended", "free"}]
           /\ life' \in [Ids -> 0 .. MaxStarts]
           /\ child' \in [Ids -> BOOLEAN]
           /\ up' \in [Ids -> BOOLEAN]
           /\ args' \in [Ids -> Value]
           /\ state' \in [Ids -> Value]
           /\ mailbox' \in [Ids -> SUBSET Message]
           /\ kept' \in [Ids -> SUBSET Number]
           /\ starts' \in 0 .. MaxStarts
           /\ \A i \in Ids : life'[i] <= starts'
           /\ lost' \in SUBSET Handle
<1>1. life[id] + 1 <= starts + 1 /\ life[id] + 1 \in 1 .. MaxStarts /\ starts + 1 \in 0 .. MaxStarts
  BY StartsAssumption DEF TypeOK, Begins
<1>2. Made(id) \subseteq Handle
  BY <1>1 DEF Made, Handle
<1>3. {} \in SUBSET Message /\ {} \in SUBSET Number
  OBVIOUS
<1>4. life' \in [Ids -> 0 .. MaxStarts] /\ \A i \in Ids : life'[i] <= starts'
  BY <1>1, StartsAssumption DEF TypeOK, Begins
<1> QED BY <1>1, <1>2, <1>3, <1>4 DEF TypeOK, Begins

LEMMA LeavesTypes ==
    ASSUME TypeOK, NEW id \in Ids, Leaves(id), phase[id] = "runs"
    PROVE  /\ phase' \in [Users -> {"idle", "runs", "waits", "settles", "starts"}]
           /\ takes' \in [Ids -> 0 .. MaxMade]
           /\ locals' \in [Users -> SUBSET Handle]
           /\ stack' \in [Users -> SUBSET Handle]
           /\ outbox' \in [Ids -> SUBSET Send]
           /\ pending' \in [Ids -> SUBSET Reply]
           /\ hand' \in Value
           /\ \A x \in Users : phase'[x] = "waits" <=> phase[x] = "waits"
           /\ \A i \in Ids : takes'[i] = 0 <=> phase'[i] = "idle"
  BY MadeAssumption DEF TypeOK, Leaves, Users

LEMMA GetsTypes ==
    ASSUME TypeOK, NEW x \in Users, NEW v \in SUBSET Handle, Gets(x, v)
    PROVE  locals' \in [Users -> SUBSET Handle] /\ stack' \in [Users -> SUBSET Handle]
<1>1. locals[x] \cup v \in SUBSET Handle /\ stack[x] \cup v \in SUBSET Handle
  BY DEF TypeOK
<1> QED BY <1>1 DEF TypeOK, Gets

(* What a commit does, as the invariants need it: the values it answers with *)
(* are pending ones or of what it can name, and it sends what it held.       *)
LEMMA CommitIs ==
    ASSUME TypeOK, NEW id \in Ids, Commits(id)
    PROVE  /\ Leaves(id) /\ phase[id] = "runs"
           /\ \E rs \in SUBSET Reply :
                /\ asked' = Answered(rs)
                /\ \A r \in rs : r \in pending[id] \/ r.holds \subseteq Known(id)
           /\ \E s \in Given(id) : state' = [state EXCEPT ![id] = s]
           /\ kept' \in [Ids -> SUBSET Number]
           /\ \E ms \in SUBSET {o.message : o \in outbox[id]} : mailbox' = Enqueued(ms)
           /\ later' \subseteq later \cup {o.message : o \in outbox[id]}
           /\ UNCHANGED <<slot, life, child, starts, lost, up, args, sources, made>>
<1>1. takes[id] \in Number
  BY MadeAssumption DEF TypeOK, Commits, Runs, Number
<1>2. PICK s \in Given(id), v \in Given(id), deferring \in BOOLEAN :
         /\ state' = [state EXCEPT ![id] = s]
         /\ kept' = [kept EXCEPT ![id] =
               (IF deferring THEN @ \cup {takes[id]} ELSE @) \ {r.n : r \in pending[id]}]
         /\ asked' = Answered(pending[id] \cup
                              (IF deferring THEN {} ELSE {[n |-> takes[id], holds |-> v]}))
  BY DEF Commits
<1>3. v \in Value /\ v \subseteq Known(id)
  BY HeldTypes DEF Users
<1>4. \E rs \in SUBSET Reply :
         /\ asked' = Answered(rs)
         /\ \A r \in rs : r \in pending[id] \/ r.holds \subseteq Known(id)
  <2>1. CASE deferring
    BY <1>2, <2>1 DEF TypeOK
  <2>2. CASE ~deferring
    <3> DEFINE own == [n |-> takes[id], holds |-> v]
    <3>1. own \in Reply /\ own.holds \subseteq Known(id)
      BY <1>1, <1>3 DEF Reply
    <3> QED BY <1>2, <2>2, <3>1 DEF TypeOK
  <2> QED BY <2>1, <2>2
<1>5. kept' \in [Ids -> SUBSET Number]
  BY <1>1, <1>2 DEF TypeOK
<1>6. \E ms \in SUBSET {o.message : o \in outbox[id]} : mailbox' = Enqueued(ms)
  <2>1. mailbox' = Enqueued({o.message : o \in {p \in outbox[id] : ~p.late}})
    BY DEF Commits
  <2>2. {o.message : o \in {p \in outbox[id] : ~p.late}} \subseteq {o.message : o \in outbox[id]}
    OBVIOUS
  <2> QED BY <2>1, <2>2
<1>7. later' \subseteq later \cup {o.message : o \in outbox[id]}
  BY DEF Commits
<1>8. /\ Leaves(id) /\ phase[id] = "runs"
      /\ UNCHANGED <<slot, life, child, starts, lost, up, args, sources, made>>
  BY DEF Commits, Runs, idVars
<1> QED BY <1>2, <1>4, <1>5, <1>6, <1>7, <1>8

(* What a crash does: all its answers are Down, which holds nothing.         *)
LEMMA CrashIs ==
    ASSUME TypeOK, NEW id \in Ids, Crashes(id)
    PROVE  /\ Leaves(id) /\ phase[id] = "runs"
           /\ \E rs \in SUBSET Reply : asked' = Answered(rs) /\ \A r \in rs : r.holds = {}
           /\ mailbox' = [mailbox EXCEPT ![id] = {}]
           /\ kept' = [kept EXCEPT ![id] = {}]
           /\ \/ state' = [state EXCEPT ![id] = args[id]] /\ UNCHANGED up
              \/ up' = [up EXCEPT ![id] = FALSE] /\ UNCHANGED state
           /\ UNCHANGED <<slot, life, child, starts, lost, args, sources, later, made>>
<1>1. takes[id] \in Number
  BY MadeAssumption DEF TypeOK, Crashes, Runs, Number
<1> DEFINE ns == kept[id] \cup {takes[id]} \cup {m.n : m \in mailbox[id]}
<1>2. asked' = Answered(Down(ns))
  BY DEF Crashes
<1>3. Down(ns) \in SUBSET Reply /\ \A r \in Down(ns) : r.holds = {}
  BY <1>1 DEF TypeOK, Down, Reply, Message, Value
<1>4. \E rs \in SUBSET Reply : asked' = Answered(rs) /\ \A r \in rs : r.holds = {}
  BY <1>2, <1>3
<1> QED BY <1>4 DEF Crashes, Runs, idVars, runVars

(* What is where no sweep looks are handles.                                 *)
LEMMA UnseenTypes == ASSUME TypeOK PROVE Unseen \subseteq Handle
<1> DEFINE Stacks == UNION {stack[x] : x \in Users}
           Answering == UNION {HandlesOf(pending[id]) : id \in Ids}
           Awaiting == {asked[x].to : x \in {u \in Users : asked[u] # NoAsk /\ asked[u].got = {}}}
<1>1. Stacks \subseteq Handle
  BY DEF TypeOK
<1>2. hand \subseteq Handle
  BY HeldTypes DEF TypeOK
<1>3. Answering \subseteq Handle
  <2>1. \A id \in Ids : \A r \in pending[id] : r.holds \subseteq Handle
    BY HeldTypes DEF TypeOK, Reply
  <2> QED BY <2>1 DEF HandlesOf
<1>4. Awaiting \subseteq Handle
  <2>1. \A x \in Users : asked[x] # NoAsk => asked[x].to \in Handle
    BY DEF TypeOK, Asking
  <2> QED BY <2>1
<1>5. Unseen = Stacks \cup hand \cup Answering \cup Awaiting
  BY DEF Unseen
<1> HIDE DEF Stacks, Answering, Awaiting
<1> QED BY <1>1, <1>2, <1>3, <1>4, <1>5

(* Every step keeps the shapes.                                              *)
LEMMA TypeStep == ASSUME TypeOK, [Next]_vars PROVE TypeOK'
<1> USE HeldTypes, IdsAssumption DEF TypeOK, Users
<1>1. ASSUME MainStarts PROVE TypeOK'
  <2>1. PICK id \in Ids, v \in Given(Main) :
           /\ Begins(id, v, FALSE) \/ Begins(id, v, TRUE)
           /\ Gets(Main, Made(id))
    BY <1>1 DEF MainStarts
  <2>2. v \in Value /\ Main \in Users
    OBVIOUS
  <2>3. Made(id) \in SUBSET Handle
    BY <2>1, <2>2, BeginsTypes
  <2>4. locals' \in [Users -> SUBSET Handle] /\ stack' \in [Users -> SUBSET Handle]
    BY <2>1, <2>2, <2>3, GetsTypes
  <2>5. CASE Begins(id, v, FALSE)
    BY <1>1, <2>2, <2>4, <2>5, BeginsTypes DEF MainStarts, Begins, runVars, heldVars
  <2>6. CASE Begins(id, v, TRUE)
    BY <1>1, <2>2, <2>4, <2>6, BeginsTypes DEF MainStarts, Begins, runVars, heldVars
  <2> QED BY <2>1, <2>5, <2>6
<1>2. ASSUME MainStartSettles PROVE TypeOK'
  <2>1. PICK v \in Given(Main) : hand' = v /\ stack' = [stack EXCEPT ![Main] = @ \ v]
    BY <1>2 DEF MainStartSettles
  <2>2. hand' \in Value /\ stack' \in [Users -> SUBSET Handle]
    BY <2>1
  <2> QED BY <1>2, <2>2 DEF MainStartSettles, Calls, idVars, procVars, heldVars, runVars
<1>3. ASSUME MainStartsThen PROVE TypeOK'
  <2>1. PICK id \in Ids : Begins(id, hand, FALSE) /\ Gets(Main, Made(id))
    BY <1>3 DEF MainStartsThen
  <2>2. Made(id) \in SUBSET Handle /\ Main \in Users
    BY <2>1, BeginsTypes
  <2>3. locals' \in [Users -> SUBSET Handle] /\ stack' \in [Users -> SUBSET Handle]
    BY <2>1, <2>2, GetsTypes
  <2> QED BY <1>3, <2>1, <2>3, BeginsTypes DEF MainStartsThen, Begins, runVars, heldVars, Value
<1>4. ASSUME MainSettles \/ MainGoesOn PROVE TypeOK'
  BY <1>4 DEF MainSettles, MainGoesOn, idVars, procVars, heldVars, runVars
<1>5. ASSUME MainSends PROVE TypeOK'
  <2>1. PICK h \in Known(Main), v \in Given(Main) :
           /\ Makes(Main, h, v)
           /\ \/ mailbox' = Enqueued({Letter(h, v)}) /\ UNCHANGED later
              \/ later' = later \cup {Letter(h, v)} /\ UNCHANGED mailbox
    BY <1>5 DEF MainSends
  <2>2. Letter(h, v) \in Message /\ made' \in 0 .. MaxMade
    BY <2>1, LetterTypes DEF Makes
  <2>3. mailbox' \in [Ids -> SUBSET Message] /\ later' \in SUBSET Message
    BY <2>1, <2>2, EnqueuedTypes
  <2>4. stack' \in [Users -> SUBSET Handle]
    BY <2>1 DEF Makes
  <2> QED BY <1>5, <2>2, <2>3, <2>4 DEF MainSends, idVars, heldVars
<1>6. ASSUME NEW x \in Users, Asks(x) PROVE TypeOK'
  <2>1. PICK h \in Known(x), v \in Given(x), left \in SUBSET locals[x] :
           /\ Makes(x, h, v)
           /\ mailbox' = Enqueued({Letter(h, v)})
           /\ asked' = [asked EXCEPT ![x] = [n |-> made + 1, to |-> h, got |-> {}]]
           /\ locals' = [locals EXCEPT ![x] = left]
    BY <1>6 DEF Asks
  <2>2. Letter(h, v) \in Message /\ made' \in 0 .. MaxMade /\ made + 1 \in Number
    BY <2>1, LetterTypes DEF Makes
  <2>3. mailbox' \in [Ids -> SUBSET Message]
    BY <2>1, <2>2, EnqueuedTypes
  <2>4. stack' \in [Users -> SUBSET Handle] /\ locals' \in [Users -> SUBSET Handle]
    BY <2>1 DEF Makes
  <2>5. [n |-> made + 1, to |-> h, got |-> {}] \in Asking
    BY <2>1, <2>2 DEF Asking
  <2>6. /\ asked' \in [Users -> Asking \cup {NoAsk}]
        /\ \A y \in Users : asked'[y] # NoAsk <=> phase'[y] = "waits"
    BY <1>6, <2>1, <2>5, NoAskAssumption DEF Asks
  <2> QED BY <1>6, <2>2, <2>3, <2>4, <2>6 DEF Asks, Calls, idVars, heldVars, runVars
<1>7. ASSUME NEW x \in Users, AskReturns(x) PROVE TypeOK'
  <2>1. asked[x] \in Asking
    BY <1>7 DEF AskReturns
  <2>2. (IF asked[x].got = {} THEN {} ELSE CHOOSE v \in asked[x].got : TRUE) \in SUBSET Handle
    BY <2>1 DEF Asking
  <2>3. stack' \in [Users -> SUBSET Handle] /\ locals' \in [Users -> SUBSET Handle]
    BY <1>7, <2>2, GetsTypes DEF AskReturns
  <2> QED BY <1>7, <2>3 DEF AskReturns, idVars, procVars, heldVars, runVars
<1>8. ASSUME NEW x \in Users, Serves(x) PROVE TypeOK'
  BY <1>8 DEF Serves, idVars, procVars, heldVars
<1>9. ASSUME NEW h \in sources, SourceGives(h) PROVE TypeOK'
  <2>1. {} \in Value
    BY DEF Value
  <2>2. Letter(h, {}) \in Message /\ made' \in 0 .. MaxMade
    BY <1>9, <2>1, LetterTypes DEF SourceGives
  <2>3. mailbox' \in [Ids -> SUBSET Message]
    BY <1>9, <2>2, EnqueuedTypes DEF SourceGives
  <2> QED BY <1>9, <2>2, <2>3 DEF SourceGives, idVars, vmVars, heldVars, runVars
<1>10. ASSUME NEW h \in sources, SourceEnds(h) PROVE TypeOK'
  BY <1>10 DEF SourceEnds, idVars, procVars, vmVars, heldVars
<1>11. ASSUME NEW m \in later, Due(m) PROVE TypeOK'
  <2>1. mailbox' \in [Ids -> SUBSET Message]
    BY <1>11, EnqueuedTypes DEF Due
  <2> QED BY <1>11, <2>1 DEF Due, idVars, vmVars, heldVars
<1>12. ASSUME NEW id \in Ids, UpdateStarts(id) PROVE TypeOK'
  <2>1. PICK i \in Ids, v \in Given(id) : Begins(i, v, FALSE) /\ Gets(id, Made(i))
    BY <1>12 DEF UpdateStarts
  <2>2. v \in Value /\ id \in Users
    OBVIOUS
  <2>3. Made(i) \in SUBSET Handle
    BY <2>1, <2>2, BeginsTypes
  <2>4. locals' \in [Users -> SUBSET Handle] /\ stack' \in [Users -> SUBSET Handle]
    BY <2>1, <2>2, <2>3, GetsTypes
  <2> QED BY <1>12, <2>1, <2>2, <2>4, BeginsTypes DEF UpdateStarts, Begins, runVars, heldVars
<1>13. ASSUME NEW id \in Ids, UpdateSends(id) PROVE TypeOK'
  <2>1. PICK h \in Known(id), v \in Given(id), late \in BOOLEAN :
           /\ Makes(id, h, v)
           /\ outbox' = [outbox EXCEPT ![id] = @ \cup {[message |-> Letter(h, v), late |-> late]}]
    BY <1>13 DEF UpdateSends
  <2>2. Letter(h, v) \in Message /\ made' \in 0 .. MaxMade
    BY <2>1, LetterTypes DEF Makes
  <2>3. outbox' \in [Ids -> SUBSET Send]
    BY <2>1, <2>2 DEF Send
  <2>4. stack' \in [Users -> SUBSET Handle]
    BY <2>1 DEF Makes
  <2> QED BY <1>13, <2>2, <2>3, <2>4 DEF UpdateSends, idVars, procVars, runVars
<1>14. ASSUME NEW id \in Ids, Delivers(id) PROVE TypeOK'
  <2>1. PICK m \in mailbox[id] :
           /\ mailbox' = [mailbox EXCEPT ![id] = @ \ {m}]
           /\ takes' = [takes EXCEPT ![id] = m.n]
           /\ locals' = [locals EXCEPT ![id] = args[id] \cup state[id] \cup m.holds]
    BY <1>14 DEF Delivers
  <2>2. m.n \in 0 .. MaxMade /\ m.n # 0 /\ m.holds \subseteq Handle
    BY MadeAssumption DEF Message, Number
  <2> QED BY <1>14, <2>1, <2>2 DEF Delivers, idVars, heldVars, runVars
<1>15. ASSUME NEW id \in Ids, Answers(id) PROVE TypeOK'
  <2>1. PICK n \in kept[id] \cup {takes[id]}, v \in Given(id) :
           /\ pending' = [pending EXCEPT ![id] = @ \cup {[n |-> n, holds |-> v]}]
           /\ stack' = [stack EXCEPT ![id] = @ \ v]
    BY <1>15 DEF Answers
  <2>2. takes[id] \in Number
    BY <1>15, MadeAssumption DEF Answers, Calls, Number
  <2>3. [n |-> n, holds |-> v] \in Reply
    BY <2>1, <2>2 DEF Reply
  <2> QED BY <1>15, <2>1, <2>3 DEF Answers, idVars, procVars, runVars
<1>16. ASSUME NEW id \in Ids, Commits(id) PROVE TypeOK'
  <2>1. PICK rs \in SUBSET Reply : asked' = Answered(rs)
    BY <1>16, CommitIs
  <2>2. PICK ms \in SUBSET {o.message : o \in outbox[id]} : mailbox' = Enqueued(ms)
    BY <1>16, CommitIs
  <2>3. /\ asked' \in [Users -> Asking \cup {NoAsk}]
        /\ \A x \in Users : asked'[x] # NoAsk <=> asked[x] # NoAsk
    BY <2>1, AnsweredTypes
  <2>4. {o.message : o \in outbox[id]} \subseteq Message
    BY DEF Send
  <2>5. mailbox' \in [Ids -> SUBSET Message]
    BY <2>2, <2>4, EnqueuedTypes
  <2>6. later' \in SUBSET Message /\ state' \in [Ids -> Value] /\ kept' \in [Ids -> SUBSET Number]
    BY <1>16, <2>4, CommitIs
  <2> QED BY <1>16, <2>3, <2>5, <2>6, CommitIs, LeavesTypes
<1>17. ASSUME NEW id \in Ids, Crashes(id) PROVE TypeOK'
  <2>1. PICK rs \in SUBSET Reply : asked' = Answered(rs)
    BY <1>17, CrashIs
  <2>2. /\ asked' \in [Users -> Asking \cup {NoAsk}]
        /\ \A x \in Users : asked'[x] # NoAsk <=> asked[x] # NoAsk
    BY <2>1, AnsweredTypes
  <2>3. mailbox' \in [Ids -> SUBSET Message] /\ kept' \in [Ids -> SUBSET Number]
    BY <1>17, CrashIs
  <2>4. state' \in [Ids -> Value] /\ up' \in [Ids -> BOOLEAN]
    <3>1. \/ state' = [state EXCEPT ![id] = args[id]] /\ UNCHANGED up
          \/ up' = [up EXCEPT ![id] = FALSE] /\ UNCHANGED state
      BY <1>17 DEF Crashes
    <3>2. CASE state' = [state EXCEPT ![id] = args[id]] /\ UNCHANGED up
      BY <3>2
    <3>3. CASE up' = [up EXCEPT ![id] = FALSE] /\ UNCHANGED state
      BY <3>3
    <3> QED BY <3>1, <3>2, <3>3
  <2> QED BY <1>17, <2>2, <2>3, <2>4, CrashIs, LeavesTypes
<1>18. ASSUME NEW id \in Ids, EndsOwn(id) PROVE TypeOK'
  BY <1>18 DEF EndsOwn, procVars, vmVars, heldVars, runVars
<1>19. ASSUME Sweep PROVE TypeOK'
  <2>1. {} \in Value
    BY DEF Value
  <2>2. lost' \in SUBSET Handle
    BY <1>19, UnseenTypes DEF Sweep
  <2>3. slot' \in [Ids -> {"new", "live", "ended", "free"}] /\ up' \in [Ids -> BOOLEAN]
    BY <1>19 DEF Sweep
  <2>4. /\ args' \in [Ids -> Value] /\ state' \in [Ids -> Value]
        /\ mailbox' \in [Ids -> SUBSET Message]
    BY <1>19, <2>1 DEF Sweep
  <2>5. UNCHANGED <<life, child, starts, kept, vmVars, heldVars, asked, runVars, made>>
    BY <1>19 DEF Sweep
  <2> QED BY <2>2, <2>3, <2>4, <2>5 DEF vmVars, heldVars, runVars
<1>20. ASSUME UNCHANGED vars PROVE TypeOK'
  BY <1>20 DEF vars, idVars, procVars, vmVars, heldVars, runVars
<1> QED BY <1>1, <1>2, <1>3, <1>4, <1>5, <1>6, <1>7, <1>8, <1>9, <1>10, <1>11, <1>12, <1>13, <1>14,
           <1>15, <1>16, <1>17, <1>18, <1>19, <1>20 DEF Next

-----------------------------------------------------------------------------
(* What a program gets is in its frames or on its operand stack.             *)
LEMMA GetsNames ==
    ASSUME TypeOK, NEW x \in Users, NEW v, Gets(x, v)
    PROVE  /\ \A y \in Users : y # x => locals'[y] = locals[y] /\ stack'[y] = stack[y]
           /\ locals'[x] \subseteq locals[x] \cup v /\ stack'[x] \subseteq stack[x] \cup v
  BY DEF TypeOK, Gets

LEMMA BeginsFrames ==
    ASSUME TypeOK, NEW id \in Ids, NEW v, NEW ofLine, Begins(id, v, ofLine)
    PROVE  /\ slot[id] # "live"
           /\ EndedHasNothing /\ phase' = phase => EndedHasNothing'
           /\ outbox' = outbox /\ pending' = pending /\ asked' = asked
  BY DEF TypeOK, Begins, EndedHasNothing, heldVars

LEMMA LeavesFrames ==
    ASSUME TypeOK, NEW id \in Ids, Leaves(id), phase[id] = "runs"
    PROVE  /\ hand' = hand
           /\ phase'[id] = "idle" /\ \A x \in Users : x # id => phase'[x] = phase[x]
           /\ locals'[id] = {} /\ \A x \in Users : x # id => locals'[x] = locals[x]
           /\ stack'[id] = {} /\ \A x \in Users : x # id => stack'[x] = stack[x]
           /\ outbox'[id] = {} /\ \A i \in Ids : i # id => outbox'[i] = outbox[i]
           /\ pending'[id] = {} /\ \A i \in Ids : i # id => pending'[i] = pending[i]
           /\ asked[id] = NoAsk
  BY DEF TypeOK, Leaves, Users

(* An ask that is still unanswered is the one it was.                        *)
LEMMA AnsweredNames ==
    ASSUME TypeOK, NEW rs \in SUBSET Reply
    PROVE  \A x \in Users :
               Answered(rs)[x] # NoAsk /\ Answered(rs)[x].got = {} => Answered(rs)[x] = asked[x]
<1> TAKE x \in Users
<1>1. CASE Answered(rs)[x] = asked[x]
  BY <1>1
<1>2. CASE \E r \in rs : Answered(rs)[x].got = {r.holds}
  BY <1>2
<1> QED BY <1>1, <1>2, AnsweredTypes

(* Every step keeps idle processes without frames, and ended ones empty.     *)
LEMMA FramesStep ==
    ASSUME TypeOK, Frames, [Next]_vars
    PROVE  Frames'
<1> USE HeldTypes, IdsAssumption DEF Frames, IdleHasNothing, EndedHasNothing, Users
<1>1. ASSUME MainStarts PROVE Frames'
  <2>1. PICK id \in Ids, v \in Given(Main), ofLine \in BOOLEAN :
           Begins(id, v, ofLine) /\ Gets(Main, Made(id))
    BY <1>1 DEF MainStarts
  <2>2. phase' = phase /\ hand' = hand /\ phase[Main] = "runs" /\ Main \in Users
    BY <1>1 DEF MainStarts
  <2> QED BY <2>1, <2>2, GetsNames, BeginsFrames
<1>2. ASSUME MainStartSettles PROVE Frames'
  BY <1>2 DEF TypeOK, MainStartSettles, Calls, idVars, procVars, heldVars
<1>3. ASSUME MainStartsThen PROVE Frames'
  <2>1. PICK id \in Ids : Begins(id, hand, FALSE) /\ Gets(Main, Made(id))
    BY <1>3 DEF MainStartsThen
  <2>2. Main \in Users /\ \A i \in Ids : phase'[i] = phase[i]
    BY <1>3 DEF TypeOK, MainStartsThen
  <2>3. EndedHasNothing'
    BY <2>1, <2>2 DEF TypeOK, Begins
  <2>4. outbox' = outbox /\ pending' = pending
    BY <2>1 DEF Begins, heldVars
  <2>5. \A i \in Ids : locals'[i] = locals[i]
    BY <2>1, <2>2, GetsNames
  <2>6. IdleHasNothing'
    BY <2>2, <2>4, <2>5
  <2> QED BY <2>3, <2>6
<1>4. ASSUME MainSettles PROVE Frames'
  BY <1>4 DEF TypeOK, MainSettles, idVars, procVars, heldVars
<1>5. ASSUME MainGoesOn PROVE Frames'
  BY <1>5 DEF TypeOK, MainGoesOn, idVars, procVars, heldVars
<1>6. ASSUME MainSends PROVE Frames'
  BY <1>6 DEF TypeOK, MainSends, Makes, Enqueued, idVars, heldVars
<1>7. ASSUME NEW x \in Users, Asks(x) PROVE Frames'
  <2>1. PICK h \in Known(x), v \in Given(x), left \in SUBSET locals[x] :
           /\ mailbox' = Enqueued({Letter(h, v)})
           /\ locals' = [locals EXCEPT ![x] = left]
    BY <1>7 DEF Asks
  <2>2. /\ phase[x] = "runs" /\ phase' = [phase EXCEPT ![x] = "waits"]
        /\ UNCHANGED <<outbox, pending, slot, up, args>>
    BY <1>7 DEF Asks, Calls, idVars, heldVars
  <2>3. IdleHasNothing'
    <3>1. \A i \in Ids : phase'[i] = "idle" => i # x /\ phase[i] = "idle"
      BY <2>2 DEF TypeOK
    <3>2. \A i \in Ids : i # x => locals'[i] = locals[i]
      BY <2>1 DEF TypeOK
    <3> QED BY <2>2, <3>1, <3>2
  <2>4. EndedHasNothing'
    BY <2>1, <2>2 DEF TypeOK, Enqueued
  <2> QED BY <2>3, <2>4
<1>8. ASSUME NEW x \in Users, AskReturns(x) PROVE Frames'
  <2>1. PICK v : Gets(x, v)
    BY <1>8 DEF AskReturns
  <2>2. /\ phase[x] = "waits" /\ phase' = [phase EXCEPT ![x] = "runs"]
        /\ UNCHANGED <<slot, up, args, mailbox, outbox, pending>>
    BY <1>8 DEF AskReturns, idVars, procVars, heldVars
  <2>3. IdleHasNothing'
    BY <2>1, <2>2, GetsNames DEF TypeOK
  <2>4. EndedHasNothing'
    BY <2>2 DEF TypeOK
  <2> QED BY <2>3, <2>4
<1>9. ASSUME NEW x \in Users, Serves(x) PROVE Frames'
  BY <1>9 DEF Serves, idVars, procVars, heldVars
<1>10. ASSUME NEW h \in sources, SourceGives(h) PROVE Frames'
  BY <1>10 DEF TypeOK, SourceGives, Enqueued, idVars, vmVars, heldVars
<1>11. ASSUME NEW h \in sources, SourceEnds(h) PROVE Frames'
  BY <1>11 DEF TypeOK, SourceEnds, idVars, procVars, vmVars, heldVars
<1>12. ASSUME NEW m \in later, Due(m) PROVE Frames'
  <2>1. IdleHasNothing'
    BY <1>12 DEF Due, vmVars, heldVars
  <2>2. EndedHasNothing'
    BY <1>12 DEF Due, Enqueued, idVars, vmVars
  <2> QED BY <2>1, <2>2
<1>13. ASSUME NEW id \in Ids, UpdateStarts(id) PROVE Frames'
  <2>1. PICK i \in Ids, v \in Given(id) : Begins(i, v, FALSE) /\ Gets(id, Made(i))
    BY <1>13 DEF UpdateStarts
  <2>2. phase' = phase /\ phase[id] = "runs"
    BY <1>13 DEF UpdateStarts, Calls
  <2>3. EndedHasNothing' /\ outbox' = outbox /\ pending' = pending
    BY <2>1, <2>2, BeginsFrames
  <2>4. \A j \in Ids : j # id => locals'[j] = locals[j]
    BY <2>1, GetsNames
  <2>5. IdleHasNothing'
    BY <2>2, <2>3, <2>4
  <2> QED BY <2>3, <2>5
<1>14. ASSUME NEW id \in Ids, UpdateSends(id) PROVE Frames'
  BY <1>14 DEF TypeOK, UpdateSends, Makes, Calls, idVars, procVars
<1>15. ASSUME NEW id \in Ids, Delivers(id) PROVE Frames'
  BY <1>15 DEF TypeOK, Delivers, idVars, heldVars
<1>16. ASSUME NEW id \in Ids, Answers(id) PROVE Frames'
  BY <1>16 DEF TypeOK, Answers, Calls, Known, Given, idVars, procVars
<1>17. ASSUME NEW id \in Ids, Commits(id) PROVE Frames'
  <2>1. PICK ms : mailbox' = Enqueued(ms)
    BY <1>17, CommitIs
  <2>2. IdleHasNothing'
    BY <1>17, CommitIs, LeavesFrames
  <2>3. EndedHasNothing'
    BY <1>17, <2>1, CommitIs, LeavesFrames DEF Enqueued
  <2> QED BY <2>2, <2>3
<1>18. ASSUME NEW id \in Ids, Crashes(id) PROVE Frames'
  <2>1. IdleHasNothing'
    BY <1>18, CrashIs, LeavesFrames
  <2>2. EndedHasNothing'
    <3>1. slot[id] = "live" /\ slot' = slot /\ args' = args
      BY <1>18, CrashIs
    <3>2. \A i \in Ids : i # id => up'[i] = up[i] /\ mailbox'[i] = mailbox[i] /\ phase'[i] = phase[i]
      <4>1. CASE up' = up
        BY <1>18, <4>1, CrashIs, LeavesFrames DEF TypeOK
      <4>2. CASE up' = [up EXCEPT ![id] = FALSE]
        BY <1>18, <4>2, CrashIs, LeavesFrames DEF TypeOK
      <4> QED BY <1>18, <4>1, <4>2, CrashIs
    <3> QED BY <3>1, <3>2
  <2> QED BY <2>1, <2>2
<1>19. ASSUME NEW id \in Ids, EndsOwn(id) PROVE Frames'
  BY <1>19 DEF TypeOK, EndsOwn, procVars, vmVars, heldVars
<1>20. ASSUME Sweep PROVE Frames'
  BY <1>20 DEF TypeOK, Sweep, Ending, Finished, vmVars, heldVars
<1>21. ASSUME UNCHANGED vars PROVE Frames'
  BY <1>21 DEF vars, idVars, procVars, vmVars, heldVars
<1> QED BY <1>1, <1>2, <1>3, <1>4, <1>5, <1>6, <1>7, <1>8, <1>9, <1>10, <1>11, <1>12, <1>13, <1>14,
           <1>15, <1>16, <1>17, <1>18, <1>19, <1>20, <1>21 DEF Next

-----------------------------------------------------------------------------
(* Who lives goes on living in every step but a sweep, and nothing is lost.  *)
LEMMA LivesOn ==
    ASSUME TypeOK, [Next]_vars, ~Sweep
    PROVE  lost' = lost /\ \A h \in Handle : Lives(h) => Lives(h)'
<1>1. \A h \in Handle : h.id \in Ids
  BY DEF Handle
<1>2. CASE \E id \in Ids : \E v, ofLine : Begins(id, v, ofLine)
  BY <1>1, <1>2 DEF TypeOK, Lives, Begins
<1>3. CASE \E id \in Ids : EndsOwn(id)
  BY <1>1, <1>3 DEF TypeOK, Lives, EndsOwn
<1>4. CASE UNCHANGED <<slot, life, lost>>
  BY <1>4 DEF Lives
<1>5. MainStarts \/ MainStartsThen \/ (\E id \in Ids : UpdateStarts(id))
      => \E id \in Ids : \E v, ofLine : Begins(id, v, ofLine)
  BY DEF MainStarts, MainStartsThen, UpdateStarts
<1>6. \/ MainStartSettles \/ MainSettles \/ MainGoesOn \/ MainSends
      \/ \E x \in Users : Asks(x) \/ AskReturns(x) \/ Serves(x)
      => UNCHANGED <<slot, life, lost>>
  BY DEF MainStartSettles, MainSettles, MainGoesOn, MainSends, Asks, AskReturns, Serves, idVars
<1>7. \/ \E g \in sources : SourceGives(g) \/ SourceEnds(g)
      \/ \E m \in later : Due(m)
      \/ \E id \in Ids : UpdateSends(id) \/ Delivers(id) \/ Answers(id) \/ Commits(id) \/ Crashes(id)
      => UNCHANGED <<slot, life, lost>>
  BY DEF SourceGives, SourceEnds, Due, UpdateSends, Delivers, Answers, Commits, Crashes, idVars
<1>8. UNCHANGED vars => UNCHANGED <<slot, life, lost>>
  BY DEF vars, idVars
<1> QED BY <1>2, <1>3, <1>4, <1>5, <1>6, <1>7, <1>8 DEF Next

(* A new process's handle is one, and it lives.                              *)
LEMMA MadeTypes ==
    ASSUME TypeOK, NEW id \in Ids, NEW v, NEW ofLine, Begins(id, v, ofLine)
    PROVE  Made(id) \subseteq Handle
<1>1. life[id] + 1 \in 1 .. MaxStarts
  BY StartsAssumption DEF TypeOK, Begins
<1> QED BY <1>1 DEF Made, Handle

LEMMA MadeLives ==
    ASSUME TypeOK, NEW id \in Ids, NEW v, NEW ofLine, Begins(id, v, ofLine)
    PROVE  \A h \in Made(id) : Lives(h)'
  BY DEF TypeOK, Begins, Made, Lives

(* What is in the places are handles.                                        *)
LEMMA PlaceTypes ==
    ASSUME TypeOK
    PROVE  /\ \A x \in Users : locals[x] \subseteq Handle
           /\ \A id \in Ids : args[id] \subseteq Handle /\ state[id] \subseteq Handle
           /\ \A id \in Ids : \A m \in mailbox[id] : m.to \in Handle /\ m.holds \subseteq Handle
           /\ \A id \in Ids : \A o \in outbox[id] :
                 o.message \in Message /\ o.message.to \in Handle /\ o.message.holds \subseteq Handle
           /\ \A x \in Users : asked[x] # NoAsk => \A v \in asked[x].got : v \subseteq Handle
           /\ sources \subseteq Handle
           /\ \A m \in later : m.to \in Handle /\ m.holds \subseteq Handle
           /\ \A x \in Users : stack[x] \subseteq Handle
           /\ hand \subseteq Handle
           /\ \A id \in Ids : \A r \in pending[id] : r.holds \subseteq Handle
           /\ \A x \in Users : asked[x] # NoAsk => asked[x].to \in Handle
  BY HeldTypes DEF TypeOK, Message, Send, Reply, Asking

(* What a step does not touch stays of S.                                    *)
LEMMA PlacesStay ==
    ASSUME TypeOK, NEW S \in SUBSET Handle, NEW T \in SUBSET Handle, S \subseteq T,
           NEW E, PlacesIn(S, E)
    PROVE  /\ UNCHANGED locals => NamedIn(T)'
           /\ UNCHANGED <<up, args, state>> => OwnedIn(T, E)'
           /\ UNCHANGED mailbox => MailIn(T)'
           /\ UNCHANGED outbox => SentIn(T)'
           /\ UNCHANGED asked => RepliesIn(T)' /\ AsksIn(T)'
           /\ UNCHANGED sources => sources' \subseteq T
           /\ UNCHANGED later => \A m \in later' : m.to \in T /\ m.holds \subseteq T
           /\ UNCHANGED stack => StacksIn(T)'
           /\ UNCHANGED hand => hand' \subseteq T
           /\ UNCHANGED pending => HeldIn(T)'
<1> USE PlaceTypes DEF PlacesIn, SeenIn, UnseenIn
<1>1. UNCHANGED locals => NamedIn(T)'
  BY DEF NamedIn
<1>2. UNCHANGED <<up, args, state>> => OwnedIn(T, E)'
  BY DEF OwnedIn, Keeps
<1>3. UNCHANGED mailbox => MailIn(T)'
  BY DEF MailIn
<1>4. UNCHANGED outbox => SentIn(T)'
  BY DEF SentIn
<1>5. UNCHANGED asked => RepliesIn(T)'
  BY DEF RepliesIn
<1>6. UNCHANGED asked => AsksIn(T)'
  BY DEF AsksIn
<1>7. UNCHANGED sources => sources' \subseteq T
  BY DEF RunIn
<1>8. UNCHANGED later => \A m \in later' : m.to \in T /\ m.holds \subseteq T
  BY DEF RunIn
<1>9. UNCHANGED stack => StacksIn(T)'
  BY DEF StacksIn
<1>10. UNCHANGED hand => hand' \subseteq T
  OBVIOUS
<1>11. UNCHANGED pending => HeldIn(T)'
  BY DEF HeldIn
<1> QED BY <1>1, <1>2, <1>3, <1>4, <1>5, <1>6, <1>7, <1>8, <1>9, <1>10, <1>11

(* What x can name is of S, and so is what main's start was given.           *)
LEMMA GivenIn ==
    ASSUME NEW S, NEW E, PlacesIn(S, E)
    PROVE  /\ \A x \in Users : Known(x) \subseteq S /\ \A v \in Given(x) : v \subseteq S
           /\ hand \subseteq S
  BY DEF PlacesIn, SeenIn, UnseenIn, NamedIn, StacksIn, Known, Given

(* Messages whose handles are of T have them of T in a mailbox.              *)
LEMMA EnqueuedIn ==
    ASSUME TypeOK, NEW S \in SUBSET Handle, NEW T \in SUBSET Handle, S \subseteq T,
           NEW E, PlacesIn(S, E), NEW ms,
           \A m \in ms : m.to \in T /\ m.holds \subseteq T,
           mailbox' = Enqueued(ms)
    PROVE  MailIn(T)'
<1>1. ASSUME NEW id \in Ids, NEW m \in mailbox'[id]
      PROVE  m.to.id = id /\ m.to \in T /\ m.holds \subseteq T
  <2>1. m \in mailbox[id] \/ (m \in ms /\ m.to.id = id)
    BY <1>1 DEF Enqueued
  <2>2. CASE m \in mailbox[id]
    BY <2>2, PlaceTypes DEF PlacesIn, SeenIn, MailIn
  <2>3. CASE m \in ms /\ m.to.id = id
    BY <2>3
  <2> QED BY <2>1, <2>2, <2>3
<1> QED BY <1>1 DEF MailIn

(* A process that begins owns what it was given.                             *)
LEMMA BeginsIn ==
    ASSUME TypeOK, NEW S \in SUBSET Handle, NEW T \in SUBSET Handle, S \subseteq T,
           NEW E, PlacesIn(S, E),
           NEW id \in Ids, NEW v, NEW ofLine, Begins(id, v, ofLine),
           v \subseteq S
    PROVE  /\ OwnedIn(T, E)' /\ MailIn(T)' /\ SentIn(T)' /\ RepliesIn(T)' /\ RunIn(T)'
           /\ HeldIn(T)' /\ AsksIn(T)'
<1>1. OwnedIn(T, E)'
  BY PlaceTypes DEF PlacesIn, SeenIn, OwnedIn, Keeps, Begins, TypeOK
<1>2. MailIn(T)'
  BY PlaceTypes DEF PlacesIn, SeenIn, MailIn, Begins, TypeOK
<1> QED BY <1>1, <1>2, PlacesStay DEF Begins, heldVars, runVars, RunIn

(* What x gets is where a sweep looks or on the operand stack.               *)
LEMMA GetsIn ==
    ASSUME TypeOK, NEW S \in SUBSET Handle, NEW T \in SUBSET Handle, S \subseteq T,
           NEW E, PlacesIn(S, E),
           NEW x \in Users, NEW v, Gets(x, v), v \subseteq T
    PROVE  NamedIn(T)' /\ StacksIn(T)'
<1>1. \A y \in Users : locals[y] \subseteq T /\ stack[y] \subseteq T
  BY DEF PlacesIn, SeenIn, UnseenIn, NamedIn, StacksIn
<1>2. \A y \in Users : locals'[y] \subseteq locals[y] \cup v /\ stack'[y] \subseteq stack[y] \cup v
  BY GetsNames
<1> QED BY <1>1, <1>2 DEF NamedIn, StacksIn

(* What leaves an operand stack is nowhere new on it.                        *)
LEMMA TakesIn ==
    ASSUME TypeOK, NEW S \in SUBSET Handle, NEW T \in SUBSET Handle, S \subseteq T,
           NEW E, PlacesIn(S, E),
           NEW x \in Users, NEW v, stack' = [stack EXCEPT ![x] = @ \ v]
    PROVE  StacksIn(T)'
<1>1. \A y \in Users : stack'[y] \subseteq stack[y]
  BY DEF TypeOK
<1> QED BY <1>1 DEF PlacesIn, UnseenIn, StacksIn

LEMMA LeavesIn ==
    ASSUME TypeOK, NEW S \in SUBSET Handle, NEW T \in SUBSET Handle, S \subseteq T,
           NEW E, PlacesIn(S, E),
           NEW id \in Ids, Leaves(id), phase[id] = "runs"
    PROVE  NamedIn(T)' /\ SentIn(T)' /\ StacksIn(T)' /\ hand' \subseteq T /\ HeldIn(T)'
<1> USE LeavesFrames DEF PlacesIn, SeenIn, UnseenIn
<1>1. NamedIn(T)'
  BY DEF NamedIn
<1>2. SentIn(T)'
  BY DEF SentIn
<1>3. StacksIn(T)' /\ hand' \subseteq T
  BY DEF StacksIn
<1>4. HeldIn(T)'
  BY DEF HeldIn
<1> QED BY <1>1, <1>2, <1>3, <1>4

LEMMA AnsweredIn ==
    ASSUME TypeOK, NEW S \in SUBSET Handle, NEW T \in SUBSET Handle, S \subseteq T,
           NEW E, PlacesIn(S, E),
           NEW rs \in SUBSET Reply, asked' = Answered(rs), \A r \in rs : r.holds \subseteq T
    PROVE  RepliesIn(T)' /\ AsksIn(T)'
<1>1. ASSUME NEW x \in Users, asked'[x] # NoAsk, NEW v \in asked'[x].got, NEW h \in v
      PROVE  h \in T
  <2>1. CASE asked'[x] = asked[x]
    BY <1>1, <2>1 DEF PlacesIn, SeenIn, RepliesIn
  <2>2. CASE \E r \in rs : asked'[x].got = {r.holds}
    BY <1>1, <2>2
  <2> QED BY <2>1, <2>2, AnsweredTypes
<1>2. RepliesIn(T)'
  BY <1>1 DEF RepliesIn
<1>3. AsksIn(T)'
  BY AnsweredNames DEF PlacesIn, UnseenIn, AsksIn
<1> QED BY <1>2, <1>3

(* Every step but a sweep moves handles between the places only.             *)
LEMMA PlacesStep ==
    ASSUME TypeOK, Frames, [Next]_vars, ~Sweep,
           NEW S \in SUBSET Handle, NEW T \in SUBSET Handle, S \subseteq T,
           NEW E, PlacesIn(S, E), \A h \in S : h.id \notin E,
           \A id \in Ids : \A v, ofLine : Begins(id, v, ofLine) => Made(id) \subseteq T
    PROVE  PlacesIn(T, E)'
<1>1. /\ UNCHANGED locals => NamedIn(T)'
      /\ UNCHANGED <<up, args, state>> => OwnedIn(T, E)'
      /\ UNCHANGED mailbox => MailIn(T)'
      /\ UNCHANGED outbox => SentIn(T)'
      /\ UNCHANGED asked => RepliesIn(T)' /\ AsksIn(T)'
      /\ UNCHANGED sources => sources' \subseteq T
      /\ UNCHANGED later => \A m \in later' : m.to \in T /\ m.holds \subseteq T
      /\ UNCHANGED stack => StacksIn(T)'
      /\ UNCHANGED hand => hand' \subseteq T
      /\ UNCHANGED pending => HeldIn(T)'
  BY PlacesStay
<1>2. Main \in Users /\ Ids \subseteq Users
  BY DEF Users
<1>3. /\ NamedIn(S) /\ OwnedIn(S, E) /\ MailIn(S) /\ SentIn(S) /\ RepliesIn(S) /\ RunIn(S)
      /\ StacksIn(S) /\ HeldIn(S) /\ AsksIn(S)
      /\ \A x \in Users : Known(x) \subseteq S /\ \A v \in Given(x) : v \subseteq S
      /\ hand \subseteq S
  BY GivenIn DEF PlacesIn, SeenIn, UnseenIn
<1>4. /\ NamedIn(T)' /\ OwnedIn(T, E)' /\ MailIn(T)' /\ SentIn(T)' /\ RepliesIn(T)' /\ RunIn(T)'
      /\ StacksIn(T)' /\ hand' \subseteq T /\ HeldIn(T)' /\ AsksIn(T)'
      => PlacesIn(T, E)'
  BY DEF PlacesIn, SeenIn, UnseenIn
<1> USE <1>1, <1>2
<1>5. ASSUME MainStarts PROVE PlacesIn(T, E)'
  <2>1. PICK id \in Ids, v \in Given(Main), ofLine \in BOOLEAN :
           Begins(id, v, ofLine) /\ Gets(Main, Made(id))
    BY <1>5 DEF MainStarts
  <2>2. v \subseteq S /\ Made(id) \subseteq T
    BY <1>3, <2>1
  <2>3. /\ OwnedIn(T, E)' /\ MailIn(T)' /\ SentIn(T)' /\ RepliesIn(T)' /\ RunIn(T)'
        /\ HeldIn(T)' /\ AsksIn(T)'
    BY <2>1, <2>2, BeginsIn
  <2>4. NamedIn(T)' /\ StacksIn(T)'
    BY <2>1, <2>2, GetsIn
  <2> QED BY <1>4, <1>5, <2>3, <2>4 DEF MainStarts
<1>6. ASSUME MainStartSettles PROVE PlacesIn(T, E)'
  <2>1. PICK v \in Given(Main) : hand' = v /\ stack' = [stack EXCEPT ![Main] = @ \ v]
    BY <1>6 DEF MainStartSettles
  <2>2. hand' \subseteq T /\ StacksIn(T)'
    BY <1>3, <2>1, TakesIn
  <2> QED BY <1>4, <1>6, <2>2 DEF RunIn, MainStartSettles, idVars, procVars, heldVars, runVars
<1>7. ASSUME MainStartsThen PROVE PlacesIn(T, E)'
  <2>1. PICK id \in Ids : Begins(id, hand, FALSE) /\ Gets(Main, Made(id))
    BY <1>7 DEF MainStartsThen
  <2>2. Made(id) \subseteq T
    BY <2>1
  <2>3. /\ OwnedIn(T, E)' /\ MailIn(T)' /\ SentIn(T)' /\ RepliesIn(T)' /\ RunIn(T)'
        /\ HeldIn(T)' /\ AsksIn(T)'
    BY <1>3, <2>1, BeginsIn
  <2>4. NamedIn(T)' /\ StacksIn(T)'
    BY <2>1, <2>2, GetsIn
  <2> QED BY <1>4, <1>7, <2>3, <2>4 DEF MainStartsThen
<1>8. ASSUME MainSettles PROVE PlacesIn(T, E)'
  <2>1. PICK left \in SUBSET locals[Main] : locals' = [locals EXCEPT ![Main] = left]
    BY <1>8 DEF MainSettles
  <2>2. NamedIn(T)'
    BY <1>3, <2>1 DEF NamedIn, TypeOK
  <2>3. StacksIn(T)'
    BY <1>3, <1>8 DEF MainSettles, StacksIn, TypeOK
  <2> QED BY <1>4, <1>8, <2>2, <2>3 DEF RunIn, MainSettles, idVars, procVars, heldVars, runVars
<1>9. ASSUME MainGoesOn PROVE PlacesIn(T, E)'
  BY <1>4, <1>9 DEF RunIn, MainGoesOn, idVars, procVars, heldVars, runVars
<1>10. ASSUME MainSends PROVE PlacesIn(T, E)'
  <2>1. PICK h \in Known(Main), v \in Given(Main) :
           /\ Makes(Main, h, v)
           /\ \/ mailbox' = Enqueued({Letter(h, v)}) /\ UNCHANGED later
              \/ later' = later \cup {Letter(h, v)} /\ UNCHANGED mailbox
    BY <1>10 DEF MainSends
  <2>2. \A m \in {Letter(h, v)} : m.to \in T /\ m.holds \subseteq T
    BY <1>3 DEF Letter
  <2>3. MailIn(T)'
    BY <2>1, <2>2, EnqueuedIn
  <2>4. \A m \in later' : m.to \in T /\ m.holds \subseteq T
    BY <1>3, <2>1, <2>2 DEF RunIn
  <2>5. StacksIn(T)'
    BY <2>1, TakesIn DEF Makes
  <2> QED BY <1>4, <1>10, <2>3, <2>4, <2>5 DEF RunIn, MainSends, idVars, heldVars
<1>11. ASSUME NEW x \in Users, Asks(x) PROVE PlacesIn(T, E)'
  <2>1. PICK h \in Known(x), v \in Given(x), left \in SUBSET locals[x] :
           /\ Makes(x, h, v)
           /\ mailbox' = Enqueued({Letter(h, v)})
           /\ asked' = [asked EXCEPT ![x] = [n |-> made + 1, to |-> h, got |-> {}]]
           /\ locals' = [locals EXCEPT ![x] = left]
    BY <1>11 DEF Asks
  <2>2. \A m \in {Letter(h, v)} : m.to \in T /\ m.holds \subseteq T
    BY <1>3 DEF Letter
  <2>3. MailIn(T)'
    BY <2>1, <2>2, EnqueuedIn
  <2>4. NamedIn(T)'
    BY <1>3, <2>1 DEF NamedIn, TypeOK
  <2>5. RepliesIn(T)'
    BY <1>3, <2>1 DEF RepliesIn, TypeOK
  <2>6. AsksIn(T)'
    BY <1>3, <2>1 DEF AsksIn, TypeOK
  <2>7. StacksIn(T)'
    BY <2>1, TakesIn DEF Makes
  <2> QED BY <1>4, <1>11, <2>3, <2>4, <2>5, <2>6, <2>7 DEF RunIn, Asks, idVars, heldVars, runVars
<1>12. ASSUME NEW x \in Users, AskReturns(x) PROVE PlacesIn(T, E)'
  <2>1. PICK v : Gets(x, v) /\ v \subseteq S
    BY <1>3, <1>12 DEF AskReturns, RepliesIn, TypeOK
  <2>2. NamedIn(T)' /\ StacksIn(T)'
    BY <2>1, GetsIn
  <2>3. RepliesIn(T)'
    BY <1>3, <1>12 DEF AskReturns, RepliesIn, TypeOK
  <2>4. AsksIn(T)'
    BY <1>3, <1>12 DEF AskReturns, AsksIn, TypeOK
  <2> QED BY <1>4, <1>12, <2>2, <2>3, <2>4 DEF RunIn, AskReturns, idVars, procVars, heldVars, runVars
<1>13. ASSUME NEW x \in Users, Serves(x) PROVE PlacesIn(T, E)'
  <2>1. PICK h \in Known(x) : sources' = sources \cup {h} /\ stack' = [stack EXCEPT ![x] = @ \ {h}]
    BY <1>13 DEF Serves
  <2>2. StacksIn(T)'
    BY <2>1, TakesIn
  <2>3. sources' \subseteq T
    BY <1>3, <2>1 DEF RunIn
  <2> QED BY <1>4, <1>13, <2>2, <2>3 DEF RunIn, Serves, idVars, procVars, heldVars
<1>14. ASSUME NEW h \in sources, SourceGives(h) PROVE PlacesIn(T, E)'
  <2>1. \A m \in {Letter(h, {})} : m.to \in T /\ m.holds \subseteq T
    BY <1>3 DEF Letter, RunIn
  <2>2. MailIn(T)'
    BY <1>14, <2>1, EnqueuedIn DEF SourceGives
  <2> QED BY <1>4, <1>14, <2>2 DEF RunIn, SourceGives, idVars, vmVars, heldVars, runVars
<1>15. ASSUME NEW h \in sources, SourceEnds(h) PROVE PlacesIn(T, E)'
  <2>1. sources' \subseteq T
    BY <1>3, <1>15 DEF SourceEnds, RunIn
  <2> QED BY <1>4, <1>15, <2>1 DEF RunIn, SourceEnds, idVars, procVars, vmVars, heldVars
<1>16. ASSUME NEW m \in later, Due(m) PROVE PlacesIn(T, E)'
  <2>1. \A k \in {m} : k.to \in T /\ k.holds \subseteq T
    BY <1>3 DEF RunIn
  <2>2. MailIn(T)'
    BY <1>16, <2>1, EnqueuedIn DEF Due
  <2>3. \A k \in later' : k.to \in T /\ k.holds \subseteq T
    BY <1>3, <1>16 DEF Due, RunIn
  <2> QED BY <1>4, <1>16, <2>2, <2>3 DEF RunIn, Due, idVars, vmVars, heldVars
<1>17. ASSUME NEW id \in Ids, UpdateStarts(id) PROVE PlacesIn(T, E)'
  <2>1. PICK i \in Ids, v \in Given(id) : Begins(i, v, FALSE) /\ Gets(id, Made(i))
    BY <1>17 DEF UpdateStarts
  <2>2. v \subseteq S /\ Made(i) \subseteq T
    BY <1>3, <2>1
  <2>3. /\ OwnedIn(T, E)' /\ MailIn(T)' /\ SentIn(T)' /\ RepliesIn(T)' /\ RunIn(T)'
        /\ HeldIn(T)' /\ AsksIn(T)'
    BY <2>1, <2>2, BeginsIn
  <2>4. NamedIn(T)' /\ StacksIn(T)'
    BY <2>1, <2>2, GetsIn
  <2> QED BY <1>4, <1>17, <2>3, <2>4 DEF UpdateStarts
<1>18. ASSUME NEW id \in Ids, UpdateSends(id) PROVE PlacesIn(T, E)'
  <2>1. PICK h \in Known(id), v \in Given(id), late \in BOOLEAN :
           /\ Makes(id, h, v)
           /\ outbox' = [outbox EXCEPT ![id] = @ \cup {[message |-> Letter(h, v), late |-> late]}]
    BY <1>18 DEF UpdateSends
  <2>2. Letter(h, v).to \in T /\ Letter(h, v).holds \subseteq T
    BY <1>3 DEF Letter
  <2>3. SentIn(T)'
    <3>1. ASSUME NEW i \in Ids, NEW o \in outbox'[i]
          PROVE  o.message.to \in T /\ o.message.holds \subseteq T
      <4>1. o \in outbox[i] \/ o.message = Letter(h, v)
        BY <2>1 DEF TypeOK
      <4> QED BY <1>3, <2>2, <4>1 DEF SentIn
    <3> QED BY <3>1 DEF SentIn
  <2>4. StacksIn(T)'
    BY <2>1, TakesIn DEF Makes
  <2> QED BY <1>4, <1>18, <2>3, <2>4 DEF RunIn, UpdateSends, idVars, procVars, runVars
<1>19. ASSUME NEW id \in Ids, Delivers(id) PROVE PlacesIn(T, E)'
  <2>1. PICK m \in mailbox[id] :
           /\ mailbox' = [mailbox EXCEPT ![id] = @ \ {m}]
           /\ locals' = [locals EXCEPT ![id] = args[id] \cup state[id] \cup m.holds]
    BY <1>19 DEF Delivers
  <2>2. args[id] \cup state[id] \cup m.holds \subseteq S
    BY <1>3, <1>19 DEF Delivers, OwnedIn, MailIn, Keeps
  <2>3. NamedIn(T)'
    BY <1>3, <2>1, <2>2 DEF NamedIn, TypeOK
  <2>4. MailIn(T)'
    BY <1>3, <2>1 DEF MailIn, TypeOK
  <2> QED BY <1>4, <1>19, <2>3, <2>4 DEF RunIn, Delivers, idVars, heldVars, runVars
<1>20. ASSUME NEW id \in Ids, Answers(id) PROVE PlacesIn(T, E)'
  <2>1. PICK n \in kept[id] \cup {takes[id]}, v \in Given(id) :
           /\ pending' = [pending EXCEPT ![id] = @ \cup {[n |-> n, holds |-> v]}]
           /\ stack' = [stack EXCEPT ![id] = @ \ v]
    BY <1>20 DEF Answers
  <2>2. v \subseteq S
    BY <1>3
  <2>3. HeldIn(T)'
    BY <1>3, <2>1, <2>2 DEF HeldIn, TypeOK
  <2>4. StacksIn(T)'
    BY <2>1, TakesIn
  <2> QED BY <1>4, <1>20, <2>3, <2>4 DEF RunIn, Answers, idVars, procVars, runVars
<1>21. ASSUME NEW id \in Ids, Commits(id) PROVE PlacesIn(T, E)'
  <2>1. PICK ms \in SUBSET {o.message : o \in outbox[id]} : mailbox' = Enqueued(ms)
    BY <1>21, CommitIs
  <2>2. \A o \in outbox[id] : o.message.to \in T /\ o.message.holds \subseteq T
    BY <1>3 DEF SentIn
  <2>3. MailIn(T)'
    BY <2>1, <2>2, EnqueuedIn
  <2>4. \A m \in later' : m.to \in T /\ m.holds \subseteq T
    BY <1>3, <1>21, <2>2, CommitIs DEF RunIn
  <2>5. PICK s \in Given(id) : state' = [state EXCEPT ![id] = s]
    BY <1>21, CommitIs
  <2>6. up' = up /\ args' = args /\ sources' = sources /\ Leaves(id) /\ phase[id] = "runs"
    BY <1>21, CommitIs
  <2>7. OwnedIn(T, E)'
    <3>1. s \subseteq S
      BY <1>3
    <3> QED BY <1>3, <2>5, <2>6, <3>1 DEF OwnedIn, Keeps, TypeOK
  <2>8. NamedIn(T)' /\ SentIn(T)' /\ StacksIn(T)' /\ hand' \subseteq T /\ HeldIn(T)'
    BY <2>6, LeavesIn
  <2>9. PICK rs \in SUBSET Reply :
           asked' = Answered(rs) /\ \A r \in rs : r \in pending[id] \/ r.holds \subseteq Known(id)
    BY <1>21, CommitIs
  <2>10. \A r \in rs : r.holds \subseteq T
    BY <1>3, <2>9 DEF HeldIn
  <2>11. RepliesIn(T)' /\ AsksIn(T)'
    BY <2>9, <2>10, AnsweredIn
  <2> QED BY <1>4, <2>3, <2>4, <2>6, <2>7, <2>8, <2>11 DEF RunIn
<1>22. ASSUME NEW id \in Ids, Crashes(id) PROVE PlacesIn(T, E)'
  <2>1. /\ Leaves(id) /\ phase[id] = "runs" /\ sources' = sources /\ later' = later
        /\ args' = args /\ mailbox' = [mailbox EXCEPT ![id] = {}]
    BY <1>22, CrashIs
  <2>2. MailIn(T)'
    BY <1>3, <2>1 DEF MailIn, TypeOK
  <2>3. NamedIn(T)' /\ SentIn(T)' /\ StacksIn(T)' /\ hand' \subseteq T /\ HeldIn(T)'
    BY <2>1, LeavesIn
  <2>4. OwnedIn(T, E)'
    <3>1. CASE state' = [state EXCEPT ![id] = args[id]] /\ UNCHANGED up
      BY <1>3, <2>1, <3>1 DEF OwnedIn, Keeps, TypeOK
    <3>2. CASE up' = [up EXCEPT ![id] = FALSE] /\ UNCHANGED state
      BY <1>3, <2>1, <3>2 DEF OwnedIn, Keeps, TypeOK
    <3> QED BY <1>22, <3>1, <3>2, CrashIs
  <2>5. PICK rs \in SUBSET Reply : asked' = Answered(rs) /\ \A r \in rs : r.holds = {}
    BY <1>22, CrashIs
  <2>6. RepliesIn(T)' /\ AsksIn(T)'
    BY <2>5, AnsweredIn
  <2> QED BY <1>4, <2>1, <2>2, <2>3, <2>4, <2>6 DEF RunIn
<1>23. ASSUME NEW id \in Ids, EndsOwn(id) PROVE PlacesIn(T, E)'
  BY <1>4, <1>23 DEF RunIn, EndsOwn, procVars, vmVars, heldVars, runVars
<1>24. ASSUME UNCHANGED vars PROVE PlacesIn(T, E)'
  BY <1>4, <1>24 DEF RunIn, vars, idVars, procVars, vmVars, heldVars, runVars
<1> QED BY <1>5, <1>6, <1>7, <1>8, <1>9, <1>10, <1>11, <1>12, <1>13, <1>14, <1>15, <1>16, <1>17,
           <1>18, <1>19, <1>20, <1>21, <1>22, <1>23, <1>24 DEF Next

-----------------------------------------------------------------------------
(* What is reached has what it starts from and what its members keep, and    *)
(* more from more.                                                           *)
LEMMA ReachedIsClosed ==
    ASSUME NEW hs
    PROVE  /\ \A h \in hs : h.id \in Ids => h.id \in Reached(hs)
           /\ \A id \in Reached(hs) : \A h \in Keeps(id) : h.id \in Ids => h.id \in Reached(hs)
           /\ \A fewer \in SUBSET hs : Reached(fewer) \subseteq Reached(hs)
  BY DEF Reached, Closed, IdsOf

(* Where the roots come from.                                                *)
LEMMA RootsAre ==
    /\ locals[Main] \subseteq Roots
    /\ \A id \in Unfinished : Keeps(id) \subseteq Roots /\ HandlesOf(mailbox[id]) \subseteq Roots
    /\ \A id \in Unfinished : phase[id] # "idle" => locals[id] \subseteq Roots /\ SentBy(id) \subseteq Roots
    /\ Untaken \subseteq Roots /\ sources \subseteq Roots
    /\ \A m \in later : {m.to} \cup m.holds \subseteq Roots
<1> DEFINE Owned == UNION {Keeps(id) \cup HandlesOf(mailbox[id]) : id \in Unfinished}
           InUpdates == UNION {locals[id] \cup SentBy(id) : id \in {i \in Unfinished : phase[i] # "idle"}}
           Delayed == UNION {{m.to} \cup m.holds : m \in later}
<1>1. Roots = locals[Main] \cup Owned \cup InUpdates \cup Untaken \cup sources \cup Delayed
  BY DEF Roots
<1>2. \A id \in Unfinished : Keeps(id) \subseteq Owned /\ HandlesOf(mailbox[id]) \subseteq Owned
  OBVIOUS
<1>3. \A id \in Unfinished : phase[id] # "idle" => locals[id] \subseteq InUpdates /\ SentBy(id) \subseteq InUpdates
  OBVIOUS
<1>4. \A m \in later : {m.to} \cup m.holds \subseteq Delayed
  OBVIOUS
<1> HIDE DEF Owned, InUpdates, Delayed
<1> QED BY <1>1, <1>2, <1>3, <1>4

(* And where no sweep looks.                                                 *)
LEMMA UnseenAre ==
    /\ \A x \in Users : stack[x] \subseteq Unseen
    /\ hand \subseteq Unseen
    /\ \A id \in Ids : \A r \in pending[id] : r.holds \subseteq Unseen
    /\ \A x \in Users : asked[x] # NoAsk /\ asked[x].got = {} => asked[x].to \in Unseen
<1> DEFINE Stacks == UNION {stack[x] : x \in Users}
           Answering == UNION {HandlesOf(pending[id]) : id \in Ids}
           Awaiting == {asked[x].to : x \in {u \in Users : asked[u] # NoAsk /\ asked[u].got = {}}}
<1>1. Unseen = Stacks \cup hand \cup Answering \cup Awaiting
  BY DEF Unseen
<1>2. \A x \in Users : stack[x] \subseteq Stacks
  OBVIOUS
<1>3. \A id \in Ids : \A r \in pending[id] : r.holds \subseteq Answering
  BY DEF HandlesOf
<1>4. \A x \in Users : asked[x] # NoAsk /\ asked[x].got = {} => asked[x].to \in Awaiting
  OBVIOUS
<1> HIDE DEF Stacks, Answering, Awaiting
<1> QED BY <1>1, <1>2, <1>3, <1>4

(* The places of Seen and of Unseen are the ones the two are named for.      *)
SeenIsThat == \A S : SeenIn(S, {}) => Seen \subseteq S
LEMMA SeenIs == SeenIsThat
<1> SUFFICES ASSUME NEW S, SeenIn(S, {}) PROVE Seen \subseteq S
  BY DEF SeenIsThat
<1> USE DEF SeenIn
<1> DEFINE Named == UNION {locals[x] : x \in Users}
           Owned == UNION {Keeps(id) : id \in Live}
           Sent == UNION {HandlesOf(mailbox[id]) \cup SentBy(id) : id \in Ids}
           Delayed == UNION {{m.to} \cup m.holds : m \in later}
<1>1. Named \subseteq S
  BY DEF NamedIn
<1>2. Owned \subseteq S
  BY DEF OwnedIn, Live
<1>3. Sent \subseteq S
  <2>1. \A id \in Ids : HandlesOf(mailbox[id]) \subseteq S /\ SentBy(id) \subseteq S
    BY DEF MailIn, SentIn, HandlesOf, SentBy
  <2> QED BY <2>1
<1>4. Untaken \subseteq S
  BY DEF RepliesIn, Untaken
<1>5. sources \subseteq S /\ Delayed \subseteq S
  BY DEF RunIn
<1>6. Seen = Named \cup Owned \cup Sent \cup Untaken \cup sources \cup Delayed
  BY DEF Seen
<1> HIDE DEF Named, Owned, Sent, Delayed
<1> QED BY <1>1, <1>2, <1>3, <1>4, <1>5, <1>6

LEMMA UnseenIs == \A S : UnseenIn(S) => Unseen \subseteq S
<1> SUFFICES ASSUME NEW S, UnseenIn(S) PROVE Unseen \subseteq S
  OBVIOUS
<1> USE DEF UnseenIn
<1> DEFINE Stacks == UNION {stack[x] : x \in Users}
           Answering == UNION {HandlesOf(pending[id]) : id \in Ids}
           Awaiting == {asked[x].to : x \in {u \in Users : asked[u] # NoAsk /\ asked[u].got = {}}}
<1>1. Stacks \subseteq S
  BY DEF StacksIn
<1>2. Answering \subseteq S
  BY DEF HeldIn, HandlesOf
<1>3. Awaiting \subseteq S
  BY DEF AsksIn
<1>4. Unseen = Stacks \cup hand \cup Answering \cup Awaiting
  BY DEF Unseen
<1> HIDE DEF Stacks, Answering, Awaiting
<1> QED BY <1>1, <1>2, <1>3, <1>4

(* Whatever more than its roots a sweep starts from, it reads every place of *)
(* Seen but what idle processes keep: the handles in all others are of       *)
(* processes that stay, and so are those kept by who stays.                  *)
LEMMA SweepLooks ==
    ASSUME TypeOK, Frames, Places, NEW hs, Roots \subseteq hs,
           NEW E, E = {id \in Live : Finished(id) /\ id \notin Reached(hs)}
    PROVE  /\ SeenIn({h \in Handle : h.id \notin E}, E)
           /\ Unseen \subseteq hs => UnseenIn({h \in Handle : h.id \notin E})
<1> DEFINE Staying == {h \in Handle : h.id \notin E}
<1>1. \A h \in Handle : h.id \in Ids /\ (h.id \in Reached(hs) => h.id \notin E)
  BY DEF Handle
<1>2. \A h \in hs : h \in Handle => h \in Staying
  BY <1>1, ReachedIsClosed
<1>3. \A id \in Ids : phase[id] # "idle" \/ mailbox[id] # {} => id \in Unfinished
  BY DEF Frames, EndedHasNothing, Unfinished, Live, Finished
<1>4. NamedIn(Staying)
  <2>1. \A x \in Users : locals[x] \subseteq Roots
    BY <1>3, RootsAre DEF Users, Frames, IdleHasNothing
  <2> QED BY <1>2, <2>1, PlaceTypes DEF NamedIn
<1>5. OwnedIn(Staying, E)
  <2>1. ASSUME NEW id \in Ids \ E, NEW h \in Keeps(id)
        PROVE  h \in Staying
    <3>1. h \in Handle
      BY PlaceTypes DEF Keeps
    <3>2. slot[id] = "live"
      BY DEF Frames, EndedHasNothing, Keeps
    <3>3. CASE id \in Unfinished
      BY <1>2, <3>1, <3>3, RootsAre
    <3>4. CASE id \in Reached(hs)
      BY <1>1, <3>1, <3>4, ReachedIsClosed
    <3> QED BY <3>2, <3>3, <3>4 DEF Unfinished, Live
  <2> QED BY <2>1 DEF OwnedIn
<1>6. MailIn(Staying)
  <2>1. ASSUME NEW id \in Ids, NEW m \in mailbox[id]
        PROVE  m.to.id = id /\ m.to \in Staying /\ m.holds \subseteq Staying
    <3>1. id \in Unfinished /\ id \notin E
      BY <1>3 DEF Unfinished
    <3>2. m.holds \subseteq Roots
      BY <3>1, RootsAre DEF HandlesOf
    <3>3. m.to.id = id /\ m.to \in Handle /\ m.holds \subseteq Handle
      BY PlaceTypes DEF Places, PlacesIn, SeenIn, MailIn
    <3> QED BY <1>2, <3>1, <3>2, <3>3
  <2> QED BY <2>1 DEF MailIn
<1>7. SentIn(Staying)
  <2>1. ASSUME NEW id \in Ids, NEW o \in outbox[id]
        PROVE  {o.message.to} \cup o.message.holds \subseteq Roots
    <3>1. id \in Unfinished /\ phase[id] # "idle"
      BY <1>3 DEF Frames, IdleHasNothing
    <3>2. {o.message.to} \cup o.message.holds \subseteq SentBy(id)
      BY DEF SentBy
    <3> QED BY <3>1, <3>2, RootsAre
  <2> QED BY <1>2, <2>1, PlaceTypes DEF SentIn
<1>8. RepliesIn(Staying)
  <2>1. \A x \in Users : asked[x] # NoAsk => \A v \in asked[x].got : v \subseteq Roots
    BY RootsAre DEF Untaken
  <2> QED BY <1>2, <2>1, PlaceTypes DEF RepliesIn
<1>9. RunIn(Staying)
  BY <1>2, RootsAre, PlaceTypes DEF RunIn
<1>10. ASSUME Unseen \subseteq hs PROVE UnseenIn(Staying)
  <2>1. \A h \in Unseen : h \in Staying
    BY <1>2, <1>10, UnseenTypes
  <2> HIDE DEF Staying
  <2> QED BY <2>1, UnseenAre DEF UnseenIn, StacksIn, HeldIn, AsksIn
<1> HIDE DEF Staying
<1>11. SeenIn(Staying, E)
  BY <1>4, <1>5, <1>6, <1>7, <1>8, <1>9 DEF SeenIn
<1> QED BY <1>10, <1>11 DEF Staying

(* So a sweep takes nothing from the handles in those places, and what it    *)
(* takes of the others is in none of those.                                  *)
LEMMA SweepStep ==
    ASSUME TypeOK, Frames, Places, Sweep
    PROVE  Places'
<1>1. PICK K, E, G : /\ E = Ending /\ K = {h \in Handle : h.id \notin E}
                     /\ G = GoodHandles'
  OBVIOUS
<1>2. E = {id \in Live : Finished(id) /\ id \notin Reached(Roots)}
  BY <1>1 DEF Ending
<1>3. SeenIn(K, E)
  BY <1>1, <1>2, SweepLooks
<1>4. SeenIn(GoodHandles, {}) /\ UnseenIn(GoodHandles)
  BY DEF Places, PlacesIn
<1>5. UNCHANGED <<life, locals, outbox, asked, sources, later, stack, hand, pending>>
  BY DEF Sweep, vmVars, heldVars, runVars
<1>6. \A h \in Handle : Lives(h) /\ h.id \notin E => Lives(h)'
  BY <1>1, <1>5 DEF TypeOK, Lives, Sweep, Handle
<1>7. GoodHandles \subseteq Handle
  BY DEF GoodHandles, TypeOK
<1>8. lost \subseteq lost'
  BY DEF Sweep
<1>9. GoodHandles \cap K \subseteq G
  BY <1>1, <1>6, <1>7, <1>8 DEF GoodHandles
<1>10. \A id \in Ids : Keeps(id)' \subseteq Keeps(id) /\ (id \in E => Keeps(id)' = {})
  BY <1>1 DEF Keeps, Sweep, TypeOK
<1>11. \A id \in Ids : mailbox'[id] \subseteq mailbox[id]
  BY DEF Sweep
<1>12. ASSUME NEW S, GoodHandles \cap K \subseteq S PROVE SeenIn(S, {})'
  <2>1. NamedIn(S)'
    BY <1>3, <1>4, <1>5, <1>12 DEF SeenIn, NamedIn
  <2>2. OwnedIn(S, {})'
    <3>1. ASSUME NEW id \in Ids PROVE Keeps(id)' \subseteq S
      <4>1. CASE id \in E
        BY <1>10, <4>1
      <4>2. CASE id \notin E
        BY <1>3, <1>4, <1>10, <1>12, <4>2 DEF SeenIn, OwnedIn
      <4> QED BY <4>1, <4>2
    <3> QED BY <3>1 DEF OwnedIn
  <2>3. MailIn(S)'
    BY <1>3, <1>4, <1>11, <1>12 DEF SeenIn, MailIn
  <2>4. SentIn(S)'
    BY <1>3, <1>4, <1>5, <1>12 DEF SeenIn, SentIn
  <2>5. RepliesIn(S)'
    BY <1>3, <1>4, <1>5, <1>12 DEF SeenIn, RepliesIn
  <2>6. RunIn(S)'
    BY <1>3, <1>4, <1>5, <1>12 DEF SeenIn, RunIn
  <2> QED BY <2>1, <2>2, <2>3, <2>4, <2>5, <2>6 DEF SeenIn
<1>13. SeenIn(G, {})'
  BY <1>9, <1>12
<1>14. Seen' \subseteq K
  <2>1. SeenIn(K, {})'
    BY <1>12
  <2>2. SeenIsThat'
    BY SeenIs, PTL
  <2> QED BY <2>1, <2>2 DEF SeenIsThat
<1>15. \A h \in Unseen : h \in G
  <2>1. ASSUME NEW h \in Unseen PROVE h \in G
    <3>1. h \in GoodHandles /\ h \in Handle
      BY <1>4, UnseenIs, UnseenTypes
    <3>2. CASE h \in K
      BY <1>9, <3>1, <3>2
    <3>3. CASE h \in lost
      BY <1>1, <1>8, <3>3 DEF GoodHandles
    <3>4. CASE Lives(h) /\ h \notin K
      <4>1. h.id \in Ending /\ h \notin Seen'
        BY <1>1, <1>14, <3>1, <3>4
      <4>2. h \in lost'
        BY <3>4, <4>1 DEF Sweep
      <4> QED BY <1>1, <4>2 DEF GoodHandles
    <3> QED BY <3>1, <3>2, <3>3, <3>4 DEF GoodHandles
  <2> QED BY <2>1
<1>16. UnseenIn(G)'
  BY <1>5, <1>15, UnseenAre DEF UnseenIn, StacksIn, HeldIn, AsksIn
<1> QED BY <1>1, <1>13, <1>16
        DEF Places, PlacesIn, SeenIn, UnseenIn, NamedIn, OwnedIn, MailIn, SentIn, RepliesIn, RunIn,
            StacksIn, HeldIn, AsksIn

(* In every other step what was live stays so, and what is new is live.      *)
LEMMA LiveStep ==
    ASSUME TypeOK, Frames, Places, [Next]_vars, ~Sweep
    PROVE  Places'
<1>1. PICK S, T : S = GoodHandles /\ T = GoodHandles'
  OBVIOUS
<1>2. S \subseteq Handle /\ T \subseteq Handle /\ S \subseteq T
  BY <1>1, LivesOn DEF GoodHandles, TypeOK
<1>3. \A id \in Ids : \A v, ofLine : Begins(id, v, ofLine) => Made(id) \subseteq T
  BY <1>1, MadeLives, MadeTypes DEF GoodHandles
<1>4. PlacesIn(S, {})
  BY <1>1 DEF Places
<1>5. PlacesIn(T, {})'
  BY <1>2, <1>3, <1>4, PlacesStep
<1> QED
  BY <1>1, <1>5
     DEF Places, PlacesIn, SeenIn, UnseenIn, NamedIn, OwnedIn, MailIn, SentIn, RepliesIn, RunIn,
         StacksIn, HeldIn, AsksIn


-----------------------------------------------------------------------------
(* The inductive invariant: shapes, who has no frames, and that every place  *)
(* a handle may be has live and lost ones only.                              *)
SweepInv == TypeOK /\ Frames /\ Places

LEMMA InitTypes == Init => TypeOK
<1> SUFFICES ASSUME Init PROVE TypeOK
  OBVIOUS
<1> USE StartsAssumption, MadeAssumption, IdsAssumption DEF Init, Users
<1>1. {} \in Value /\ 0 \in 0 .. MaxStarts /\ 0 \in 0 .. MaxMade
  BY DEF Value
<1>2. args \in [Ids -> Value] /\ state \in [Ids -> Value] /\ hand \in Value
  BY <1>1
<1>3. /\ mailbox \in [Ids -> SUBSET Message] /\ kept \in [Ids -> SUBSET Number]
      /\ locals \in [Users -> SUBSET Handle] /\ stack \in [Users -> SUBSET Handle]
      /\ outbox \in [Ids -> SUBSET Send] /\ pending \in [Ids -> SUBSET Reply]
  OBVIOUS
<1>4. asked \in [Users -> Asking \cup {NoAsk}] /\ \A x \in Users : asked[x] # NoAsk <=> phase[x] = "waits"
  OBVIOUS
<1> QED BY <1>1, <1>2, <1>3, <1>4 DEF TypeOK

(* Every variable keeps its shape, an ask is in progress exactly while its   *)
(* caller waits, and an update under way took a message.                     *)
THEOREM SweepTypes == Spec => []TypeOK
<1>1. Init => TypeOK
  BY InitTypes
<1>2. TypeOK /\ [Next]_vars => TypeOK'
  BY TypeStep
<1> QED BY <1>1, <1>2, PTL DEF Spec

LEMMA SweepInvHolds == Spec => []SweepInv
<1>1. Init => SweepInv
  BY InitTypes, IdsAssumption
     DEF Init, SweepInv, Users, Frames, IdleHasNothing, EndedHasNothing, Places, PlacesIn, SeenIn,
         UnseenIn, NamedIn, OwnedIn, MailIn, SentIn, RepliesIn, RunIn, Keeps, StacksIn, HeldIn, AsksIn
<1>2. SweepInv /\ [Next]_vars => SweepInv'
  <2> SUFFICES ASSUME SweepInv, [Next]_vars PROVE SweepInv'
    OBVIOUS
  <2>1. TypeOK' /\ Frames'
    BY TypeStep, FramesStep DEF SweepInv
  <2>2. ASSUME Sweep PROVE Places'
    BY <2>2, SweepStep DEF SweepInv
  <2>3. ASSUME ~Sweep PROVE Places'
    BY <2>3, LiveStep DEF SweepInv
  <2> QED BY <2>1, <2>2, <2>3 DEF SweepInv
<1> QED BY <1>1, <1>2, PTL DEF Spec

(* What the invariant says of the programs.                                  *)
LEMMA InvGives ==
    ASSUME SweepInv
    PROVE  HandlesAreLive /\ MessagesReachTheirs /\ EndedOwesNothing
<1>1. SeenIn(GoodHandles, {}) /\ UnseenIn(GoodHandles)
  BY DEF SweepInv, Places, PlacesIn
<1>2. \A h \in GoodHandles : Lives(h) \/ h \in lost
  BY DEF GoodHandles
<1>3. HandlesAreLive
  <2>1. Seen \subseteq GoodHandles
    BY <1>1, SeenIs DEF SeenIsThat
  <2>2. Unseen \subseteq GoodHandles
    BY <1>1, UnseenIs
  <2> QED BY <1>2, <2>1, <2>2 DEF HandlesAreLive
<1>4. MessagesReachTheirs
  BY <1>1, <1>2 DEF MessagesReachTheirs, SeenIn, MailIn
<1>5. EndedOwesNothing
  BY <1>1, <1>2 DEF EndedOwesNothing, UnseenIn, AsksIn
<1> QED BY <1>3, <1>4, <1>5

(* No sweep ends a process a program has a handle to where a sweep looks, so *)
(* no such handle is ever of the process that took its id next: whatever it  *)
(* ended in spite of a handle, that one was on an operand stack, with main's *)
(* start, held for a commit or asked (Turns.sweep, Sim.start).               *)
THEOREM HandlesStayLive == Spec => []HandlesAreLive
<1>1. SweepInv => HandlesAreLive
  BY InvGives
<1> QED BY <1>1, SweepInvHolds, PTL

(* What is in a mailbox was sent to the process that has the id now, however *)
(* long it was held, delayed or made by a source, unless with a handle that  *)
(* was lost first (Sim.enqueue, end).                                        *)
THEOREM MessagesStayTheirs == Spec => []MessagesReachTheirs
<1>1. SweepInv => MessagesReachTheirs
  BY InvGives
<1> QED BY <1>1, SweepInvHolds, PTL

(* The process an unanswered ask was sent to has not ended, unless the asker *)
(* and everyone else had its handle only where no sweep looks: Turns.end     *)
(* wakes no asker, and none is left waiting for it.                          *)
THEOREM SweptOwesNothing == Spec => []EndedOwesNothing
<1>1. SweepInv => EndedOwesNothing
  BY InvGives
<1> QED BY <1>1, SweepInvHolds, PTL

-----------------------------------------------------------------------------
(* Without mail an idle process stays idle, and nobody becomes its           *)
(* supervisor while it lives.                                                *)
LEMMA IdleStays ==
    ASSUME TypeOK, Next, NEW id \in Ids, slot[id] = "live", phase[id] = "idle", mailbox[id] = {}
    PROVE  phase'[id] = "idle" /\ child'[id] = child[id]
<1> USE IdsAssumption DEF TypeOK, Users
<1>1. ASSUME MainStarts \/ MainStartsThen \/ \E i \in Ids : UpdateStarts(i)
      PROVE  phase'[id] = "idle" /\ child'[id] = child[id]
  <2>0. PICK i \in Ids : \E v, ofLine : Begins(i, v, ofLine)
    BY <1>1 DEF MainStarts, MainStartsThen, UpdateStarts
  <2>1. PICK v, ofLine : Begins(i, v, ofLine)
    BY <2>0
  <2>2. phase'[id] = phase[id]
    BY <1>1 DEF MainStarts, MainStartsThen, UpdateStarts
  <2> QED BY <2>1, <2>2 DEF Begins
<1>2. ASSUME MainStartSettles \/ MainSettles \/ MainGoesOn \/ MainSends
      PROVE  phase'[id] = "idle" /\ child'[id] = child[id]
  BY <1>2 DEF MainStartSettles, MainSettles, MainGoesOn, MainSends, idVars
<1>3. ASSUME NEW x \in Users, Asks(x) \/ AskReturns(x) \/ Serves(x)
      PROVE  phase'[id] = "idle" /\ child'[id] = child[id]
  BY <1>3 DEF Asks, AskReturns, Serves, Calls, idVars
<1>4. ASSUME \/ \E h \in sources : SourceGives(h) \/ SourceEnds(h)
             \/ \E m \in later : Due(m)
             \/ Sweep
      PROVE  phase'[id] = "idle" /\ child'[id] = child[id]
  BY <1>4 DEF SourceGives, SourceEnds, Due, Sweep, idVars, vmVars
<1>5. ASSUME NEW i \in Ids, UpdateSends(i) \/ Answers(i) \/ EndsOwn(i)
      PROVE  phase'[id] = "idle" /\ child'[id] = child[id]
  BY <1>5 DEF UpdateSends, Answers, EndsOwn, idVars, vmVars
<1>6. ASSUME NEW i \in Ids, Delivers(i)
      PROVE  phase'[id] = "idle" /\ child'[id] = child[id]
  BY <1>6 DEF Delivers, idVars
<1>7. ASSUME NEW i \in Ids, Commits(i) \/ Crashes(i)
      PROVE  phase'[id] = "idle" /\ child'[id] = child[id]
  BY <1>7 DEF Commits, Crashes, Leaves, idVars
<1> QED BY <1>1, <1>2, <1>3, <1>4, <1>5, <1>6, <1>7 DEF Next

(* The roots are in the places of Seen.                                      *)
LEMMA RootsIn ==
    \A K, E : SeenIn(K, E) /\ Unfinished \cap E = {} => Roots \subseteq K
<1> SUFFICES ASSUME NEW K, NEW E, SeenIn(K, E), Unfinished \cap E = {} PROVE Roots \subseteq K
  OBVIOUS
<1> USE DEF SeenIn
<1> DEFINE Owned == UNION {Keeps(id) \cup HandlesOf(mailbox[id]) : id \in Unfinished}
           InUpdates == UNION {locals[id] \cup SentBy(id) : id \in {i \in Unfinished : phase[i] # "idle"}}
           Delayed == UNION {{m.to} \cup m.holds : m \in later}
<1>1. \A id \in Unfinished : id \in Ids /\ id \notin E
  BY DEF Unfinished, Live
<1>2. \A id \in Ids : HandlesOf(mailbox[id]) \subseteq K /\ SentBy(id) \subseteq K
  BY DEF MailIn, SentIn, HandlesOf, SentBy
<1>3. Owned \subseteq K
  BY <1>1, <1>2 DEF OwnedIn
<1>4. InUpdates \subseteq K
  BY <1>1, <1>2 DEF NamedIn, Users
<1>5. Delayed \subseteq K /\ sources \subseteq K
  BY DEF RunIn
<1>6. Untaken \subseteq K
  BY DEF RepliesIn, Untaken
<1>7. locals[Main] \subseteq K
  BY DEF NamedIn, Users
<1>8. Roots = locals[Main] \cup Owned \cup InUpdates \cup Untaken \cup sources \cup Delayed
  BY DEF Roots
<1> HIDE DEF Owned, InUpdates, Delayed
<1> QED BY <1>3, <1>4, <1>5, <1>6, <1>7, <1>8

(* Where no handle of E is, and who is not of E keeps none, nothing of E is  *)
(* reached.                                                                  *)
ReachesPlacesOnly ==
    \A K, E : /\ PlacesIn(K, E) /\ Unfinished \cap E = {}
              /\ K \subseteq {h \in Handle : h.id \notin E}
              => Reached(Roots) \cap E = {} /\ Reached(Roots \cup Unseen) \cap E = {}
LEMMA ReachedMisses == ReachesPlacesOnly
<1> SUFFICES ASSUME NEW K, NEW E, PlacesIn(K, E), Unfinished \cap E = {},
                    K \subseteq {h \in Handle : h.id \notin E}
             PROVE  Reached(Roots) \cap E = {} /\ Reached(Roots \cup Unseen) \cap E = {}
  BY DEF ReachesPlacesOnly
<1>1. \A h \in K : h.id \in Ids \ E
  BY DEF Handle
<1>2. Roots \subseteq K /\ Unseen \subseteq K
  BY RootsIn, UnseenIs DEF PlacesIn
<1>3. \A id \in Ids \ E : IdsOf(Keeps(id)) \subseteq Ids \ E
  BY <1>1 DEF PlacesIn, SeenIn, OwnedIn, IdsOf
<1>4. ASSUME NEW hs, hs \subseteq K PROVE Reached(hs) \cap E = {}
  <2>1. Closed(IdsOf(hs), Ids \ E)
    BY <1>1, <1>3, <1>4 DEF Closed, IdsOf
  <2>2. Reached(hs) \subseteq Ids \ E
    BY <2>1 DEF Reached
  <2> QED BY <2>2
<1> QED BY <1>2, <1>4

(* In a step other than a sweep nobody gets a handle of garbage, and a sweep *)
(* ends all of it.                                                           *)
LEMMA GarbageStep ==
    ASSUME SweepInv, Next, NEW id \in Garbage, slot'[id] = "live"
    PROVE  id \in Garbage'
<1> USE DEF SweepInv
<1>1. ~Sweep
  BY DEF Sweep, Garbage, Ending, Live
<1>2. PICK K, E : E = Garbage /\ K = {h \in Handle : h.id \notin E}
  OBVIOUS
<1>3. PlacesIn(K, E)
  <2>1. PICK hs : hs = Roots \cup Unseen
    OBVIOUS
  <2>2. Roots \subseteq hs /\ Unseen \subseteq hs /\ Reached(Roots) \subseteq Reached(hs)
    BY <2>1, ReachedIsClosed
  <2>3. E = {i \in Live : Finished(i) /\ i \notin Reached(hs)}
    BY <1>2, <2>1, <2>2 DEF Garbage, Ending
  <2>4. SeenIn(K, E) /\ UnseenIn(K)
    BY <1>2, <2>2, <2>3, SweepLooks
  <2> QED BY <2>4 DEF PlacesIn
<1>4. \A i \in Ids : \A v, ofLine : Begins(i, v, ofLine) => Made(i) \subseteq K
  <2>1. ASSUME NEW i \in Ids, NEW v, NEW ofLine, Begins(i, v, ofLine)
        PROVE  Made(i) \subseteq K
    <3>1. i \notin E
      BY <1>2, <2>1 DEF Begins, Garbage, Ending, Live
    <3>2. Made(i) \subseteq Handle
      BY <2>1, MadeTypes
    <3> QED BY <1>2, <3>1, <3>2 DEF Made
  <2> QED BY <2>1
<1>5. PlacesIn(K, E)'
  <2>1. K \subseteq Handle /\ \A h \in K : h.id \notin E
    BY <1>2
  <2> QED BY <1>1, <1>3, <1>4, <2>1, PlacesStep
<1>6. \A i \in E : slot[i] = "live" /\ i \in Ids /\ Finished(i)
  BY <1>2 DEF Garbage, Ending, Live
<1>7. \A i \in E : Finished(i)'
  <2>1. ASSUME NEW i \in E PROVE Finished(i)'
    <3>1. phase'[i] = "idle" /\ child'[i] = child[i]
      BY <1>6, IdleStays DEF Finished
    <3>2. mailbox'[i] = {}
      BY <1>2, <1>5, <1>6 DEF PlacesIn, SeenIn, MailIn
    <3> QED BY <1>6, <3>1, <3>2 DEF Finished
  <2> QED BY <2>1
<1>8. (Unfinished \cap E = {})'
  BY <1>7 DEF Unfinished
<1>9. (Reached(Roots) \cap E = {} /\ Reached(Roots \cup Unseen) \cap E = {})'
  <2>1. ReachesPlacesOnly'
    BY ReachedMisses, PTL
  <2>2. K \subseteq {h \in Handle : h.id \notin E}
    BY <1>2
  <2> QED BY <1>5, <1>8, <2>1, <2>2 DEF ReachesPlacesOnly
<1> QED BY <1>2, <1>6, <1>7, <1>9 DEF Garbage, Ending, Live

(* What a sweep would end, and nothing a program has leads to, nothing       *)
(* brings back: no call, answer, message or start gets a handle of it, and   *)
(* no mail comes (GarbageStays).                                             *)
THEOREM GarbageIsGarbage == Spec => GarbageStays
<1>1. SweepInv /\ [Next]_vars
      => [\A id \in Garbage : slot'[id] = "live" /\ life'[id] = life[id] => id \in Garbage']_vars
  BY GarbageStep
<1> QED BY <1>1, SweepInvHolds, PTL DEF Spec, GarbageStays
=============================================================================
