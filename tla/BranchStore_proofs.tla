-------------------------- MODULE BranchStore_proofs --------------------------
(***************************************************************************)
(* What branches hold and what they remember, for any number of            *)
(* conversations, turns, processes and keys.                               *)
(***************************************************************************)
EXTENDS BranchMemory, FiniteSetTheorems, FunctionTheorems, TLAPS

Used == {t \in Turns : turn[t].status # "unused"}

\* Ids are given away in order.
IdsInOrder ==
  /\ \A c \in Made : 1 .. c \subseteq Made
  /\ \A t \in Used : 1 .. t \subseteq Used

\* What was not made yet is blank.
Blank ==
  /\ \A c \in Convs \ Made : conv[c] = NoConv
  /\ \A t \in Turns \ Used : turn[t] = NoTurn

\* A turn is whole once it was completed, and lost only in a wiped conversation.
TurnInv ==
  \A t \in Used :
    /\ turn[t].conv \in Made /\ turn[t].at \in 1 .. clock
    /\ turn[t].status = "completed" => turn[t].whole
    /\ turn[t].whole => turn[t].status \in {"completed", "gone"}
    /\ turn[t].status = "gone" => turn[t].conv \in wiped

\* The turns of a conversation follow each other, and the one that runs is the last.
InTime ==
  \A t, u \in Used : turn[t].conv = turn[u].conv =>
    /\ turn[t].at = turn[u].at => t = u
    /\ turn[t].status = "running" => turn[u].at <= turn[t].at

\* A copy goes back to one turn that was lived and completed.
OriginInv ==
  \A t \in Used :
    LET o == turn[t].origin IN
    /\ o \in Used /\ turn[o].origin = o /\ turn[o].at = turn[t].at
    /\ o # t => turn[t].whole /\ turn[o].whole

\* A branch comes after what it branches off, and its fork turn lies there.
ParentInv ==
  \A c \in Made :
    /\ conv[c].born <= clock
    /\ conv[c].parent = 0 => conv[c].forked = 0 /\ conv[c].slot = 0
    /\ conv[c].parent # 0 => conv[c].parent \in Made /\ conv[c].parent < c
    /\ conv[c].slot # 0 => conv[c].slot \in Used
    /\ conv[c].forked # 0 =>
         LET f == conv[c].forked IN
         f \in Used /\ turn[f].conv = conv[c].parent /\ turn[f].whole
           /\ turn[f].at <= conv[c].born

\* What a branch has inherited its parent has, up to the fork turn; the branch's
\* own turns came later.
LinkInv ==
  \A t \in Used :
    LET c == turn[t].conv IN
    IF turn[t].origin = t THEN conv[c].parent # 0 => turn[t].at > conv[c].born
    ELSE /\ conv[c].parent # 0 /\ conv[c].forked # 0
         /\ turn[t].at <= turn[conv[c].forked].at
         /\ \E u \in TurnsOf(conv[c].parent) : turn[u].origin = turn[t].origin

\* What was completed before a turn of its conversation.
Earlier(s) == {turn[u].origin : u \in {v \in TurnsOf(turn[s].conv) :
                                         turn[v].whole /\ turn[v].at < turn[s].at}}

\* The versions of a slot have the past of the message they are versions of.
SlotInv == \A c \in Made : conv[c].clean /\ conv[c].slot # 0 => Past(c) = Earlier(conv[c].slot)

\* What a process has read: still true of a source that nobody wiped.
Right(r) ==
  r.op # "idle" =>
    LET c == r.source
        t == r.turn
        before == r.before
    IN /\ c \in Made /\ t \in TurnsOf(c) \cap Used
       /\ r.op = "forking" => turn[t].whole
       /\ r.op = "reading" =>
            /\ before \subseteq {u \in TurnsOf(c) : turn[u].whole /\ turn[u].at < turn[t].at}
            /\ r.slot \in Used
            /\ c \notin wiped => before = {u \in Completed(c) : turn[u].at < turn[t].at}
            /\ conv[c].clean /\ c \notin wiped /\ conv[c].parent \notin wiped
                 => {turn[u].origin : u \in before} = Earlier(r.slot)
ProcInv == \A p \in Procs : Right(proc[p])

Shape == TypeOK /\ IdsInOrder /\ Blank /\ TurnInv /\ InTime /\ OriginInv /\ ParentInv
IInv  == Shape /\ LinkInv /\ ProcInv /\ SlotInv /\ InheritsUpToTheCut

-----------------------------------------------------------------------------
(* Numbers.  The library's induction theorem is about an operator; that a  *)
(* set of numbers has a least one says as much, and can be cited.          *)

\* The initial segments below the numbers of a set are well-founded by inclusion.
LEMMA LeastNumber ==
  ASSUME NEW S \in SUBSET Nat, S # {}
  PROVE  \E m \in S : \A n \in S : m <= n
<1> DEFINE Below == {0 .. n : n \in S}
<1>1. Below \subseteq FiniteSubsetsOf(Nat) /\ Below # {}
  <2>1. \A n \in S : IsFiniteSet(0 .. n) /\ 0 .. n \in SUBSET Nat
    BY FS_Interval
  <2> QED
    BY <2>1 DEF FiniteSubsetsOf
<1>2. PICK T \in Below : \A U \in Below : ~ (<<U, T>> \in StrictSubsetOrdering(Nat))
  <2> HIDE DEF Below
  <2>1. IsWellFoundedOn(StrictSubsetOrdering(Nat), FiniteSubsetsOf(Nat))
    BY FS_StrictSubsetOrderingWellFounded
  <2> QED
    BY <1>1, <2>1, WFMin
<1>3. PICK m \in S : T = 0 .. m
  OBVIOUS
<1>4. ASSUME NEW n \in S, ~ (m <= n) PROVE FALSE
  <2>1. m \in 0 .. m /\ m \notin 0 .. n
    BY <1>4
  <2>2. 0 .. n \subseteq 0 .. m /\ 0 .. n # 0 .. m
        /\ 0 .. n \in SUBSET Nat /\ 0 .. m \in SUBSET Nat
    BY <1>4, <2>1
  <2>3. 0 .. n \in Below
    OBVIOUS
  <2> QED
    BY <1>2, <1>3, <2>2, <2>3 DEF StrictSubsetOrdering
<1> QED
  BY <1>4

\* A set of numbers that are bounded has a greatest.
LEMMA GreatestNumber ==
  ASSUME NEW S \in SUBSET Nat, S # {}, NEW b \in Nat, \A n \in S : n <= b
  PROVE  \E m \in S : \A n \in S : n <= m
<1> DEFINE Bounds == {x \in Nat : \A n \in S : n <= x}
<1>1. \E m \in Bounds : \A x \in Bounds : m <= x
  <2>1. b \in Bounds /\ Bounds \in SUBSET Nat
    OBVIOUS
  <2> HIDE DEF Bounds
  <2> QED
    BY <2>1, LeastNumber
<1>2. PICK m \in Bounds : \A x \in Bounds : m <= x
  BY <1>1
<1>3. CASE m \notin S
  <2>1. PICK n \in S : TRUE
    OBVIOUS
  <2>2. \A k \in S : k \in Nat /\ k < m
    BY <1>3
  <2>3. m - 1 \in Bounds
    BY <2>1, <2>2
  <2> QED
    BY <1>2, <2>3
<1> QED
  BY <1>3

\* Ids that are given away in order are 1, 2, ... up to their number.
LEMMA Numbered ==
  ASSUME NEW M \in Nat, NEW S \in SUBSET (1 .. M), \A a \in S : 1 .. a \subseteq S
  PROVE  IsFiniteSet(S) /\ Cardinality(S) \in Nat /\ S = 1 .. Cardinality(S)
<1> DEFINE Out == {n \in 1 .. M + 1 : n \notin S}
<1>1. M + 1 \in Out /\ Out \in SUBSET Nat
  OBVIOUS
<1>2. PICK m \in Out : \A n \in Out : m <= n
  <2> HIDE DEF Out
  <2> QED
    BY <1>1, LeastNumber
<1>3. S = 1 .. m - 1
  <2>1. ASSUME NEW a \in S PROVE a < m
    BY <1>2, <2>1
  <2>2. ASSUME NEW a \in 1 .. m - 1, a \notin S PROVE FALSE
    BY <1>2, <2>2
  <2>3. \A a \in S : a \in 1 .. M
    OBVIOUS
  <2>4. m \in 1 .. M + 1
    OBVIOUS
  <2>5. \A a \in S : a \in 1 .. m - 1
    BY <2>1, <2>3, <2>4
  <2> QED
    BY <2>2, <2>5
<1>4. IsFiniteSet(1 .. m - 1) /\ Cardinality(1 .. m - 1) = m - 1
  BY <1>2, FS_Interval
<1> QED
  BY <1>3, <1>4

-----------------------------------------------------------------------------
(* The tables.                                                             *)

\* The next ids are free, and follow those that were given away.
LEMMA NextIds ==
  ASSUME TypeOK, IdsInOrder
  PROVE  /\ IsFiniteSet(Used) /\ UsedTurns \in Nat /\ Used = 1 .. UsedTurns
         /\ NextConv \in Nat \ {0} /\ Made = 1 .. NextConv - 1
<1>1. Used = {t \in Turns : turn[t].status # "unused"} /\ UsedTurns = Cardinality(Used)
  BY DEF Used, UsedTurns
<1>2. IsFiniteSet(Used) /\ UsedTurns \in Nat /\ Used = 1 .. UsedTurns
  BY <1>1, Numbered, BoundsAreNat DEF IdsInOrder, Turns
<1>3. Cardinality(Made) \in Nat /\ Made = 1 .. Cardinality(Made)
  <2>1. Made \in SUBSET (1 .. MaxConvs)
    BY DEF Made, Convs
  <2> QED
    BY <2>1, Numbered, BoundsAreNat DEF IdsInOrder
<1> QED
  BY <1>2, <1>3 DEF NextConv

\* The ranks of turns of different times are 1, 2, ... up to their number.
LEMMA RanksAreNumbers ==
  ASSUME NEW ts, IsFiniteSet(ts), \A u \in ts : turn[u].at \in Nat,
         \A u, v \in ts : turn[u].at = turn[v].at => u = v
  PROVE  /\ Cardinality(ts) \in Nat
         /\ \A u \in ts : Rank(ts, u) \in 1 .. Cardinality(ts)
         /\ \A u, v \in ts : Rank(ts, u) = Rank(ts, v) => u = v
         /\ \A r \in 1 .. Cardinality(ts) : \E u \in ts : Rank(ts, u) = r
<1> DEFINE K == Cardinality(ts)
           below(u) == {v \in ts : turn[v].at < turn[u].at}
           f == [u \in ts |-> Rank(ts, u)]
<1>1. K \in Nat
  BY FS_CardinalityType
<1>2. ASSUME NEW u \in ts
      PROVE  /\ IsFiniteSet(below(u)) /\ Cardinality(below(u)) \in Nat
             /\ Rank(ts, u) = Cardinality(below(u)) + 1 /\ Rank(ts, u) \in 1 .. K
  <2>1. IsFiniteSet(ts \ {u}) /\ Cardinality(ts \ {u}) = K - 1
    BY FS_RemoveElement
  <2>2. below(u) \in SUBSET (ts \ {u})
    OBVIOUS
  <2>3. IsFiniteSet(below(u)) /\ Cardinality(below(u)) <= K - 1
    <3> HIDE DEF below
    <3> QED
      BY <2>1, <2>2, FS_Subset
  <2>4. Cardinality(below(u)) \in Nat
    <3> HIDE DEF below
    <3> QED
      BY <2>3, FS_CardinalityType
  <2>5. Rank(ts, u) = Cardinality(below(u)) + 1
    BY DEF Rank
  <2> HIDE DEF below
  <2> QED
    BY <1>1, <2>3, <2>4, <2>5
<1>3. ASSUME NEW u \in ts, NEW v \in ts, turn[u].at < turn[v].at
      PROVE  Rank(ts, u) < Rank(ts, v)
  <2>1. below(u) \in SUBSET below(v) /\ u \in below(v) /\ u \notin below(u)
    BY <1>3
  <2>2. Cardinality(below(u)) <= Cardinality(below(v))
        /\ Cardinality(below(u)) # Cardinality(below(v))
    <3>1. IsFiniteSet(below(v))
      BY <1>2
    <3> HIDE DEF below
    <3> QED
      BY <2>1, <3>1, FS_Subset
  <2> HIDE DEF below
  <2> QED
    BY <1>2, <2>2
<1>4. \A u, v \in ts : Rank(ts, u) = Rank(ts, v) => u = v
  <2> SUFFICES ASSUME NEW u \in ts, NEW v \in ts, Rank(ts, u) = Rank(ts, v), u # v
               PROVE  FALSE
    OBVIOUS
  <2>1. turn[u].at < turn[v].at \/ turn[v].at < turn[u].at
    OBVIOUS
  <2> HIDE DEF below, K
  <2>2. Rank(ts, u) \in Nat /\ Rank(ts, v) \in Nat
    BY <1>1, <1>2
  <2> QED
    BY <1>3, <2>1, <2>2
<1>5. \A r \in 1 .. K : \E u \in ts : Rank(ts, u) = r
  <2>1. f \in Injection(ts, 1 .. K)
    <3>1. f \in [ts -> 1 .. K] /\ \A u, v \in ts : f[u] = f[v] => u = v
      BY <1>2, <1>4
    <3> HIDE DEF f, K
    <3> QED
      BY <3>1, Fun_IsInj
  <2>2. IsFiniteSet(1 .. K) /\ Cardinality(1 .. K) = K
    BY <1>1, FS_Interval
  <2>3. f \in Surjection(ts, 1 .. K)
    <3> HIDE DEF f
    <3> QED
      BY <2>1, <2>2, FS_Injection
  <2>4. \A r \in 1 .. K : \E u \in ts : f[u] = r
    <3> HIDE DEF f, K
    <3> QED
      BY <2>3 DEF Surjection
  <2> QED
    BY <2>4
<1> QED
  BY <1>1, <1>2, <1>4, <1>5

\* Every inherited turn is copied once, under an id that was free.
LEMMA CopyIdsFit ==
  ASSUME TypeOK, IdsInOrder, NEW ts \in SUBSET Used,
         \A u, v \in ts : turn[u].at = turn[v].at => u = v
  PROVE  /\ CopyIds(ts) \cap Used = {}
         /\ \A t \in CopyIds(ts) : t \in Nat /\ 1 .. t \subseteq Used \cup CopyIds(ts)
         /\ \A t \in CopyIds(ts) : CopyOf(ts, t) \in ts
         /\ \A t, w \in CopyIds(ts) : CopyOf(ts, t) = CopyOf(ts, w) => t = w
         /\ \A u \in ts : \E t \in CopyIds(ts) : CopyOf(ts, t) = u
<1> DEFINE K == Cardinality(ts)
           U == UsedTurns
<1>1. IsFiniteSet(ts) /\ U \in Nat /\ Used = 1 .. U
  BY NextIds, FS_Subset
<1>2. \A u \in ts : turn[u].at \in Nat
  BY BoundsAreNat DEF TypeOK, Used
<1>3. /\ K \in Nat
      /\ \A u \in ts : Rank(ts, u) \in 1 .. K
      /\ \A u, v \in ts : Rank(ts, u) = Rank(ts, v) => u = v
      /\ \A r \in 1 .. K : \E u \in ts : Rank(ts, u) = r
  BY <1>1, <1>2, RanksAreNumbers, Zenon
<1>4. CopyIds(ts) = U + 1 .. U + K
  BY DEF CopyIds
<1> HIDE DEF K, U
<1>5. ASSUME NEW t \in CopyIds(ts)
      PROVE  CopyOf(ts, t) \in ts /\ U + Rank(ts, CopyOf(ts, t)) = t
  <2>1. t - U \in 1 .. K
    BY <1>1, <1>3, <1>4
  <2>2. PICK u \in ts : Rank(ts, u) = t - U
    BY <1>3, <2>1
  <2>3. U + Rank(ts, u) = t
    BY <1>1, <1>3, <1>4, <2>2
  <2> QED
    BY <2>3 DEF CopyOf, U
<1>6. ASSUME NEW u \in ts PROVE \E t \in CopyIds(ts) : CopyOf(ts, t) = u
  <2> DEFINE t == U + Rank(ts, u)
  <2>1. t \in CopyIds(ts)
    BY <1>1, <1>3, <1>4
  <2>2. U + Rank(ts, CopyOf(ts, t)) = U + Rank(ts, u) /\ CopyOf(ts, t) \in ts
    BY <1>5, <2>1
  <2> HIDE DEF t
  <2>3. Rank(ts, CopyOf(ts, t)) \in Nat /\ Rank(ts, u) \in Nat
    BY <1>3, <2>2
  <2>4. Rank(ts, CopyOf(ts, t)) = Rank(ts, u)
    BY <1>1, <2>2, <2>3
  <2>5. CopyOf(ts, t) = u
    BY <1>3, <2>2, <2>4
  <2> QED
    BY <2>1, <2>5
<1>7. \A t \in CopyIds(ts) : t \in Nat /\ t \notin Used /\ 1 .. t \subseteq Used \cup CopyIds(ts)
  BY <1>1, <1>3, <1>4
<1>8. \A t, w \in CopyIds(ts) : CopyOf(ts, t) = CopyOf(ts, w) => t = w
  BY <1>5
<1> QED
  BY <1>5, <1>6, <1>7, <1>8

-----------------------------------------------------------------------------
(* Steps, and what each does to the tables.                                *)

tables == <<conv, turn, clock, wiped>>

\* A branch is committed: what it inherits is completed in its source.
Commits(p, ts, forked, slot) ==
  /\ ts \subseteq Completed(proc[p].source)
  /\ AddChild(p, ts, forked, slot)
  /\ \/ /\ proc[p].op = "forking" /\ forked = proc[p].turn /\ slot = 0
        /\ ts = UpToTheTurn(proc[p].source, proc[p].turn)
     \/ /\ proc[p].op = "reading" /\ forked = Latest(ts) /\ slot = proc[p].slot
        /\ ts = proc[p].before

\* Either way of making a branch inherits turns that are completed in its source.
LEMMA CommitKinds ==
  ASSUME ProcInv, TurnInv, NEW p \in Procs, CommitFork(p) \/ CommitEdit(p)
  PROVE  \E ts, forked, slot : Commits(p, ts, forked, slot)
<1>1. CASE CommitFork(p)
  <2> DEFINE ts == UpToTheTurn(proc[p].source, proc[p].turn)
  <2>1. ts \subseteq Completed(proc[p].source)
    BY DEF UpToTheTurn
  <2>2. Commits(p, ts, proc[p].turn, 0)
    BY <1>1, <2>1 DEF CommitFork, Commits
  <2> QED
    BY <2>2
<1>2. CASE CommitEdit(p)
  <2> DEFINE ts == proc[p].before
  <2>1. ts \subseteq Completed(proc[p].source)
    BY <1>2 DEF CommitEdit, ProcInv, Right, AcceptsTurns, TurnInv, Used, Completed, TurnsOf,
                HasRow
  <2>2. Commits(p, ts, Latest(ts), proc[p].slot)
    BY <1>2, <2>1 DEF CommitEdit, Commits
  <2> QED
    BY <2>2
<1> QED
  BY <1>1, <1>2

\* Four kinds of steps touch the tables.
LEMMA Kinds ==
  ASSUME ProcInv, TurnInv, [Next]_vars
  PROVE  \/ \E p \in Procs, c \in Convs : StartTurn(p, c)
         \/ \E p \in Procs, t \in Turns, status \in {"completed", "failed"} : EndTurn(p, t, status)
         \/ \E p \in Procs, c \in Convs, after \in {"live", "deleted"} : Wipe(p, c, after)
         \/ \E p \in Procs : \E ts, forked, slot : Commits(p, ts, forked, slot)
         \/ UNCHANGED tables
<1>1. ASSUME NEW p \in Procs, CommitFork(p) \/ CommitEdit(p)
      PROVE  \E ts, forked, slot : Commits(p, ts, forked, slot)
  BY <1>1, CommitKinds
<1>2. ASSUME NEW p \in Procs, NEW c \in Convs, NEW t \in Turns, NEW k,
             CheckFork(p, c, t, k) \/ CheckEdit(p, c, t, k)
      PROVE  UNCHANGED tables
  BY <1>2 DEF CheckFork, CheckEdit, tables
<1>3. ASSUME NEW p \in Procs, ReadBefore(p) \/ CommitAborts(p) PROVE UNCHANGED tables
  BY <1>3 DEF ReadBefore, CommitAborts, tables
<1>4. CASE UNCHANGED vars
  BY <1>4 DEF vars, tables
<1> QED
  BY <1>1, <1>2, <1>3, <1>4 DEF Next, Branch, DeleteConversation, ClearConversation

\* A turn that starts takes the next id and the next moment.
LEMMA StartEffect ==
  ASSUME TypeOK, IdsInOrder, Blank, NEW p \in Procs, NEW c \in Convs, StartTurn(p, c)
  PROVE  \E t \in Turns \ Used :
           /\ Used' = Used \cup {t} /\ 1 .. t \subseteq Used \cup {t}
           /\ turn'[t] = [status |-> "running", conv |-> c, at |-> clock + 1,
                          whole |-> FALSE, origin |-> t]
           /\ \A u \in Turns \ {t} : turn'[u] = turn[u]
           /\ c \in Made /\ \A u \in Used : turn[u].conv = c => turn[u].status # "running"
           /\ Made' = Made /\ conv' = conv /\ wiped' = wiped /\ clock' = clock + 1
           /\ clock' \in 0 .. MaxStarts
<1> DEFINE t == UsedTurns + 1
<1>1. t \in Turns \ Used /\ 1 .. t \subseteq Used \cup {t}
  BY NextIds DEF StartTurn
<1>2. /\ turn'[t] = [status |-> "running", conv |-> c, at |-> clock + 1,
                     whole |-> FALSE, origin |-> t]
      /\ \A u \in Turns \ {t} : turn'[u] = turn[u]
      /\ conv' = conv /\ wiped' = wiped /\ clock' = clock + 1 /\ clock < MaxStarts
  <2> HIDE DEF t
  <2> QED
    BY <1>1 DEF StartTurn, TypeOK, t
<1> HIDE DEF t
<1>3. Used' = Used \cup {t}
  BY <1>1, <1>2 DEF Used
<1>4. c \in Made /\ \A u \in Used : turn[u].conv = c => turn[u].status # "running"
  BY DEF StartTurn, Live, Made, TurnsOf, Used
<1>5. Made' = Made /\ clock' \in 0 .. MaxStarts
  BY <1>2, BoundsAreNat DEF Made, TypeOK
<1> QED
  BY <1>1, <1>2, <1>3, <1>4, <1>5

\* A turn ends where it ran.
LEMMA EndEffect ==
  ASSUME TypeOK, NEW p \in Procs, NEW t \in Turns, NEW status \in {"completed", "failed"},
         EndTurn(p, t, status)
  PROVE  /\ Used' = Used /\ t \in Used /\ turn[t].status = "running"
         /\ turn'[t] = [status |-> status, conv |-> turn[t].conv, at |-> turn[t].at,
                        whole |-> (status = "completed"), origin |-> turn[t].origin]
         /\ \A u \in Turns \ {t} : turn'[u] = turn[u]
         /\ Made' = Made /\ conv' = conv /\ wiped' = wiped /\ clock' = clock
<1>1. /\ turn' = [turn EXCEPT ![t].status = status, ![t].whole = (status = "completed")]
      /\ turn[t].status = "running" /\ conv' = conv /\ wiped' = wiped /\ clock' = clock
  BY DEF EndTurn
<1>2. /\ turn'[t] = [status |-> status, conv |-> turn[t].conv, at |-> turn[t].at,
                     whole |-> (status = "completed"), origin |-> turn[t].origin]
      /\ \A u \in Turns \ {t} : turn'[u] = turn[u]
  BY <1>1 DEF TypeOK
<1>3. Used' = Used /\ t \in Used
  <2>1. turn'[t].status # "unused" /\ turn[t].status # "unused"
    BY <1>1, <1>2
  <2> QED
    BY <1>2, <2>1 DEF Used
<1>4. Made' = Made
  BY <1>1 DEF Made
<1> QED
  BY <1>1, <1>2, <1>3, <1>4

\* What is wiped keeps its place in the tables.
LEMMA WipeEffect ==
  ASSUME TypeOK, NEW p \in Procs, NEW c \in Convs, NEW after \in {"live", "deleted"},
         Wipe(p, c, after)
  PROVE  /\ Used' = Used /\ Made' = Made /\ clock' = clock /\ wiped' = wiped \cup {c}
         /\ c \in Made /\ conv' = [conv EXCEPT ![c].state = after]
         /\ \A d \in Convs : /\ conv'[d].parent = conv[d].parent /\ conv'[d].forked = conv[d].forked
                             /\ conv'[d].slot = conv[d].slot /\ conv'[d].born = conv[d].born
                             /\ conv'[d].clean = conv[d].clean
                             /\ d # c => conv'[d] = conv[d]
         /\ \A t \in Turns :
              /\ turn'[t].conv = turn[t].conv /\ turn'[t].at = turn[t].at
              /\ turn'[t].whole = turn[t].whole /\ turn'[t].origin = turn[t].origin
              /\ turn'[t].status = IF t \in Rows(c) THEN "gone" ELSE turn[t].status
         /\ \A t \in Turns \ Used : turn'[t] = turn[t]
<1>1. /\ conv' = [conv EXCEPT ![c].state = after] /\ c \in Live
      /\ turn' = [t \in Turns |->
                    IF t \in Rows(c) THEN [turn[t] EXCEPT !.status = "gone"] ELSE turn[t]]
      /\ wiped' = wiped \cup {c} /\ clock' = clock
  BY DEF Wipe
<1>2. /\ c \in Made
      /\ \A d \in Convs : /\ conv'[d].parent = conv[d].parent /\ conv'[d].forked = conv[d].forked
                          /\ conv'[d].slot = conv[d].slot /\ conv'[d].born = conv[d].born
                          /\ conv'[d].clean = conv[d].clean
                          /\ d # c => conv'[d] = conv[d]
      /\ conv'[c].state = after
  BY <1>1 DEF TypeOK, Live, Made
<1>3. Made' = Made
  BY <1>1, <1>2 DEF Made
<1>4. \A t \in Turns :
        /\ turn'[t].conv = turn[t].conv /\ turn'[t].at = turn[t].at
        /\ turn'[t].whole = turn[t].whole /\ turn'[t].origin = turn[t].origin
        /\ turn'[t].status = IF t \in Rows(c) THEN "gone" ELSE turn[t].status
        /\ t \notin Rows(c) => turn'[t] = turn[t]
  BY <1>1 DEF TypeOK
<1>5. \A t \in Rows(c) : t \in Used
  BY DEF Rows, TurnsOf, HasRow, Used
<1>6. Used' = Used
  BY <1>4, <1>5 DEF Used
<1> QED
  BY <1>1, <1>2, <1>3, <1>4, <1>5, <1>6

\* What a branch adds to the tables: it takes the next id, and its copies the next
\* ids of turns.
Committed(p, ts, forked, slot) ==
  LET c == proc[p].source
      child == NextConv
  IN
  /\ child \in Convs \ Made /\ \A d \in Made : d < child
  /\ 1 .. child \subseteq Made \cup {child}
  /\ Made' = Made \cup {child} /\ Used' = Used \cup CopyIds(ts)
  /\ c \in Made /\ ts \subseteq Used
  /\ wiped' = wiped /\ clock' = clock
  /\ \A d \in Convs \ {child} : conv'[d] = conv[d]
  /\ conv'[child] =
       [state |-> "live", parent |-> c, forked |-> forked, slot |-> slot,
        born |-> clock, key |-> proc[p].key,
        clean |-> conv[c].clean /\ c \notin wiped /\ conv[c].parent \notin wiped]
  /\ \A t \in Turns \ CopyIds(ts) : turn'[t] = turn[t]
  /\ \A t \in CopyIds(ts) :
       /\ t \in Turns \ Used /\ 1 .. t \subseteq Used \cup CopyIds(ts)
       /\ \E u \in ts :
            /\ u = CopyOf(ts, t)
            /\ turn'[t] = [status |-> "completed", conv |-> child, at |-> turn[u].at,
                           whole |-> TRUE, origin |-> turn[u].origin]
  /\ \A t, w \in CopyIds(ts) : CopyOf(ts, t) = CopyOf(ts, w) => t = w
  /\ \A u \in ts : \E t \in CopyIds(ts) : CopyOf(ts, t) = u

\* Either way of making a branch adds that.
LEMMA CommitEffect ==
  ASSUME TypeOK, IdsInOrder, Blank, TurnInv, InTime, ProcInv,
         NEW p \in Procs, NEW ts, NEW forked, NEW slot, Commits(p, ts, forked, slot)
  PROVE  Committed(p, ts, forked, slot)
<1> DEFINE c == proc[p].source
           child == NextConv
<1>1. /\ child \in Convs /\ CopyIds(ts) \subseteq Turns
      /\ conv' = [conv EXCEPT ![child] =
                   [state |-> "live", parent |-> c, forked |-> forked, slot |-> slot,
                    born |-> clock, key |-> proc[p].key,
                    clean |-> conv[c].clean /\ c \notin wiped /\ conv[c].parent \notin wiped]]
      /\ turn' = Copies(ts, child) /\ wiped' = wiped /\ clock' = clock
      /\ ts \subseteq Completed(c)
  BY DEF Commits, AddChild
<1>2. c \in Made
  BY DEF Commits, ProcInv, Right
<1>3. ts \in SUBSET Used /\ \A u \in ts : turn[u].conv = c /\ turn[u].status = "completed"
  BY <1>1 DEF Completed, TurnsOf, Used
<1>4. \A u, v \in ts : turn[u].at = turn[v].at => u = v
  BY <1>3 DEF InTime
<1>5. /\ CopyIds(ts) \cap Used = {}
      /\ \A t \in CopyIds(ts) : t \in Nat /\ 1 .. t \subseteq Used \cup CopyIds(ts)
      /\ \A t \in CopyIds(ts) : CopyOf(ts, t) \in ts
      /\ \A t, w \in CopyIds(ts) : CopyOf(ts, t) = CopyOf(ts, w) => t = w
      /\ \A u \in ts : \E t \in CopyIds(ts) : CopyOf(ts, t) = u
  BY <1>3, <1>4, CopyIdsFit, Zenon
<1>6. child \in Nat \ {0} /\ Made = 1 .. child - 1
  BY NextIds
<1> HIDE DEF child, c
<1>7. child \notin Made /\ (\A d \in Made : d < child) /\ 1 .. child \subseteq Made \cup {child}
  BY <1>6
<1>8. ASSUME NEW t \in CopyIds(ts)
      PROVE  \E u \in ts :
               /\ u = CopyOf(ts, t)
               /\ turn'[t] = [status |-> "completed", conv |-> child, at |-> turn[u].at,
                              whole |-> TRUE, origin |-> turn[u].origin]
  <2> DEFINE u == CopyOf(ts, t)
  <2>1. u \in ts /\ t \in Turns
    BY <1>1, <1>5
  <2>2. turn'[t] = [turn[u] EXCEPT !.status = "completed", !.conv = child,
                                   !.whole = HasRow(u) /\ @]
    BY <1>1, <2>1 DEF Copies
  <2> HIDE DEF u
  <2>3. u \in Used /\ HasRow(u) /\ turn[u].whole
    BY <1>3, <2>1 DEF HasRow, TurnInv
  <2>4. turn[u] \in [status : {"unused", "running", "completed", "failed", "gone"},
                     conv : 0 .. MaxConvs, at : 0 .. MaxStarts, whole : BOOLEAN,
                     origin : 0 .. MaxTurns]
    BY <2>3 DEF TypeOK, Used
  <2>5. turn'[t] = [status |-> "completed", conv |-> child, at |-> turn[u].at,
                    whole |-> TRUE, origin |-> turn[u].origin]
    BY <2>2, <2>3, <2>4
  <2> QED
    BY <2>1, <2>5 DEF u
<1>9. \A t \in Turns \ CopyIds(ts) : turn'[t] = turn[t]
  BY <1>1 DEF Copies
<1>10. Used' = Used \cup CopyIds(ts)
  <2>1. ASSUME NEW t \in CopyIds(ts) PROVE turn'[t].status = "completed" /\ t \in Turns
    <3>1. PICK u \in ts : turn'[t] = [status |-> "completed", conv |-> child,
                                     at |-> turn[u].at, whole |-> TRUE,
                                     origin |-> turn[u].origin]
      BY <1>8
    <3> QED
      BY <1>1, <3>1
  <2> QED
    BY <1>9, <2>1 DEF Used
<1>11. /\ \A d \in Convs \ {child} : conv'[d] = conv[d]
       /\ conv'[child] =
              [state |-> "live", parent |-> c, forked |-> forked, slot |-> slot,
               born |-> clock, key |-> proc[p].key,
               clean |-> conv[c].clean /\ c \notin wiped /\ conv[c].parent \notin wiped]
  BY <1>1 DEF TypeOK
<1>12. Made' = Made \cup {child}
  <2>1. conv'[child].state = "live"
    BY <1>11
  <2> QED
    BY <1>1, <1>11, <2>1 DEF Made
<1>13. \A t \in CopyIds(ts) : t \in Turns \ Used /\ 1 .. t \subseteq Used \cup CopyIds(ts)
  BY <1>1, <1>5
<1> QED
  BY <1>1, <1>2, <1>3, <1>5, <1>7, <1>8, <1>9, <1>10, <1>11, <1>12, <1>13
     DEF child, c, Committed

\* The latest of some turns is one of them.
LEMMA LatestIsLast ==
  ASSUME TypeOK, NEW ts \in SUBSET Turns
  PROVE  IF ts = {} THEN Latest(ts) = 0
         ELSE Latest(ts) \in ts /\ \A v \in ts : turn[v].at <= turn[Latest(ts)].at
<1>1. CASE ts = {}
  BY <1>1 DEF Latest
<1>2. CASE ts # {}
  <2> DEFINE times == {turn[v].at : v \in ts}
  <2>1. times \in SUBSET Nat /\ times # {} /\ \A n \in times : n <= MaxStarts
    BY <1>2, BoundsAreNat DEF TypeOK
  <2>2. \E m \in times : \A n \in times : n <= m
    <3> HIDE DEF times
    <3> QED
      BY <2>1, GreatestNumber, BoundsAreNat
  <2>3. \E u \in ts : \A v \in ts : turn[v].at <= turn[u].at
    BY <2>2
  <2> QED
    BY <1>2, <2>3 DEF Latest
<1> QED
  BY <1>1, <1>2

-----------------------------------------------------------------------------
(* The shape of the tables.                                                *)

ConvRows == [state : {"unused", "live", "deleted"}, parent : 0 .. MaxConvs,
             forked : 0 .. MaxTurns, slot : 0 .. MaxTurns, born : 0 .. MaxStarts,
             key : Keys \cup {None}, clean : BOOLEAN]
TurnRows == [status : {"unused", "running", "completed", "failed", "gone"},
             conv : 0 .. MaxConvs, at : 0 .. MaxStarts, whole : BOOLEAN,
             origin : 0 .. MaxTurns]
ProcRows == [op : {"idle", "forking", "editing", "reading"}, source : 0 .. MaxConvs,
             turn : 0 .. MaxTurns, key : Keys \cup {None},
             before : SUBSET Turns, slot : 0 .. MaxTurns]

\* The type invariant, by the rows of the tables.
LEMMA Types ==
  TypeOK <=> /\ conv \in [Convs -> ConvRows] /\ turn \in [Turns -> TurnRows]
             /\ keyed \in [Keys -> 0 .. MaxConvs] /\ proc \in [Procs -> ProcRows]
             /\ clock \in 0 .. MaxStarts /\ wiped \subseteq Convs
  BY DEF TypeOK, ConvRows, TurnRows, ProcRows

\* At first there is one conversation, and nothing was said.
LEMMA InitInv == Init => IInv
<1> SUFFICES ASSUME Init PROVE IInv
  OBVIOUS
<1>1. TypeOK
  <2>1. NoTurn \in TurnRows
    BY BoundsAreNat DEF NoTurn, TurnRows
  <2>2. Idle \in ProcRows
    BY BoundsAreNat DEF Idle, ProcRows
  <2>3. NoConv \in ConvRows /\ [NoConv EXCEPT !.state = "live"] \in ConvRows
    <3>1. NoConv \in ConvRows
      BY BoundsAreNat DEF NoConv, ConvRows
    <3>2. ASSUME NEW row \in ConvRows PROVE [row EXCEPT !.state = "live"] \in ConvRows
      BY DEF ConvRows
    <3> QED
      BY <3>1, <3>2
  <2>4. conv \in [Convs -> ConvRows]
    BY <2>3 DEF Init
  <2>5. turn \in [Turns -> TurnRows] /\ proc \in [Procs -> ProcRows]
    BY <2>1, <2>2 DEF Init
  <2>6. keyed \in [Keys -> 0 .. MaxConvs] /\ clock \in 0 .. MaxStarts /\ wiped \subseteq Convs
    BY BoundsAreNat DEF Init
  <2> QED
    BY <2>4, <2>5, <2>6, Types
<1> USE BoundsAreNat DEF Init, NoConv, NoTurn, Idle
<1>2. Made = {1} /\ Used = {}
  BY DEF Made, Used, Convs
<1>3. \A c \in Convs : conv[c].parent = 0 /\ conv[c].forked = 0 /\ conv[c].slot = 0 /\ conv[c].born = 0
  OBVIOUS
<1>4. IdsInOrder /\ Blank
  BY <1>2 DEF IdsInOrder, Blank
<1>5. TurnInv /\ InTime /\ OriginInv /\ LinkInv
  BY <1>2 DEF TurnInv, InTime, OriginInv, LinkInv
<1>6. 1 \in Convs
  BY DEF Convs
<1>7. ParentInv /\ SlotInv /\ InheritsUpToTheCut
  BY <1>2, <1>3, <1>6 DEF ParentInv, SlotInv, InheritsUpToTheCut
<1>8. ProcInv
  BY DEF ProcInv, Right
<1> QED
  BY <1>1, <1>4, <1>5, <1>7, <1>8 DEF IInv, Shape

\* The types, step by step.
LEMMA TypeStep == Shape /\ ProcInv /\ [Next]_vars => TypeOK'
<1> SUFFICES ASSUME Shape, ProcInv, [Next]_vars PROVE TypeOK'
  OBVIOUS
<1> DEFINE Typed == /\ conv' \in [Convs -> ConvRows] /\ turn' \in [Turns -> TurnRows]
                    /\ keyed' \in [Keys -> 0 .. MaxConvs] /\ proc' \in [Procs -> ProcRows]
                    /\ clock' \in 0 .. MaxStarts /\ wiped' \subseteq Convs
<1> SUFFICES Typed
  BY DEF TypeOK, ConvRows, TurnRows, ProcRows
<1>1. /\ conv \in [Convs -> ConvRows] /\ turn \in [Turns -> TurnRows]
      /\ keyed \in [Keys -> 0 .. MaxConvs] /\ proc \in [Procs -> ProcRows]
      /\ clock \in 0 .. MaxStarts /\ wiped \subseteq Convs
  BY Types DEF Shape
<1>2. Idle \in ProcRows
  BY BoundsAreNat DEF Idle, ProcRows
<1>3. \A c \in Convs : c \in 0 .. MaxConvs
  BY DEF Convs
<1>4. \A t \in Turns : t \in 0 .. MaxTurns
  BY DEF Turns
<1>5. ASSUME NEW p \in Procs, NEW c \in Convs, StartTurn(p, c) PROVE Typed
  <2>1. keyed' = keyed /\ proc' = proc
    BY <1>5 DEF StartTurn
  <2>2. PICK t \in Turns \ Used :
           /\ turn'[t] = [status |-> "running", conv |-> c, at |-> clock + 1,
                          whole |-> FALSE, origin |-> t]
           /\ \A u \in Turns \ {t} : turn'[u] = turn[u]
           /\ conv' = conv /\ wiped' = wiped /\ clock' = clock + 1
           /\ clock' \in 0 .. MaxStarts
    BY <1>5, StartEffect DEF Shape
  <2>3. turn'[t] \in TurnRows
    BY <1>3, <1>4, <2>2 DEF TurnRows
  <2>4. turn' = [u \in Turns |-> turn'[u]] /\ \A u \in Turns \ {t} : turn'[u] = turn[u]
    BY <1>1, <1>5, <2>2 DEF StartTurn
  <2>5. turn' \in [Turns -> TurnRows]
    BY <1>1, <2>3, <2>4
  <2> QED
    BY <1>1, <2>1, <2>2, <2>5
<1>6. ASSUME NEW p \in Procs, NEW t \in Turns, NEW status \in {"completed", "failed"},
             EndTurn(p, t, status)
      PROVE  Typed
  <2>1. /\ turn' = [turn EXCEPT ![t].status = status, ![t].whole = (status = "completed")]
        /\ UNCHANGED <<conv, keyed, proc, clock, wiped>>
    BY <1>6 DEF EndTurn
  <2>2. turn' \in [Turns -> TurnRows]
    BY <1>1, <2>1 DEF TurnRows
  <2> QED
    BY <1>1, <2>1, <2>2
<1>7. ASSUME NEW p \in Procs, NEW c \in Convs, NEW after \in {"live", "deleted"},
             Wipe(p, c, after)
      PROVE  Typed
  <2>1. /\ conv' = [conv EXCEPT ![c].state = after]
        /\ turn' = [t \in Turns |->
                      IF t \in Rows(c) THEN [turn[t] EXCEPT !.status = "gone"] ELSE turn[t]]
        /\ wiped' = wiped \cup {c} /\ UNCHANGED <<keyed, proc, clock>>
    BY <1>7 DEF Wipe
  <2>2. conv' \in [Convs -> ConvRows]
    BY <1>1, <2>1 DEF ConvRows
  <2>3. turn' \in [Turns -> TurnRows]
    BY <1>1, <2>1 DEF TurnRows
  <2> QED
    BY <1>1, <2>1, <2>2, <2>3
<1>8. ASSUME NEW p \in Procs, NEW ts, NEW forked, NEW slot, Commits(p, ts, forked, slot)
      PROVE  Typed
  <2> DEFINE c == proc[p].source
             child == NextConv
             row == [state |-> "live", parent |-> c, forked |-> forked, slot |-> slot,
                     born |-> clock, key |-> proc[p].key,
                     clean |-> conv[c].clean /\ c \notin wiped /\ conv[c].parent \notin wiped]
  <2>0. Committed(p, ts, forked, slot)
    BY <1>8, CommitEffect DEF Shape
  <2>1. /\ child \in Convs /\ c \in Convs
        /\ conv' = [conv EXCEPT ![child] = row]
        /\ keyed' = [k \in Keys |-> IF k = proc[p].key THEN child ELSE keyed[k]]
        /\ proc' = [proc EXCEPT ![p] = Idle]
        /\ wiped' = wiped /\ clock' = clock
    BY <1>8 DEF Commits, AddChild, ProcInv, Right, Made
  <2>2. ts \in SUBSET Turns
    BY <1>8 DEF Commits, Completed, TurnsOf
  <2>3. forked \in 0 .. MaxTurns /\ slot \in 0 .. MaxTurns /\ proc[p].key \in Keys \cup {None}
    <3>1. Latest(ts) \in 0 .. MaxTurns
      BY <1>4, <2>2, LatestIsLast, BoundsAreNat DEF Shape
    <3>2. /\ proc[p].turn \in 0 .. MaxTurns /\ proc[p].slot \in 0 .. MaxTurns
          /\ proc[p].key \in Keys \cup {None}
      BY <1>1 DEF ProcRows
    <3> QED
      BY <1>8, <3>1, <3>2, BoundsAreNat DEF Commits
  <2>4. row \in ConvRows
    <3> DEFINE clean == conv[c].clean /\ c \notin wiped /\ conv[c].parent \notin wiped
    <3>1. clean \in BOOLEAN
      BY <1>1, <2>1 DEF ConvRows
    <3>2. c \in 0 .. MaxConvs
      BY <1>3, <2>1
    <3> HIDE DEF clean, c
    <3> QED
      BY <1>1, <2>3, <3>1, <3>2 DEF ConvRows
  <2> HIDE DEF child, row
  <2>5. conv' \in [Convs -> ConvRows] /\ proc' \in [Procs -> ProcRows]
        /\ keyed' \in [Keys -> 0 .. MaxConvs]
    BY <1>1, <1>2, <1>3, <2>1, <2>4
  <2>6. ASSUME NEW t \in Turns PROVE turn'[t] \in TurnRows
    <3>1. CASE t \in CopyIds(ts)
      <4>1. PICK u \in ts :
                  turn'[t] = [status |-> "completed", conv |-> child, at |-> turn[u].at,
                              whole |-> TRUE, origin |-> turn[u].origin]
        BY <2>0, <3>1 DEF Committed, child
      <4>2. turn[u] \in TurnRows
        BY <1>1, <2>2
      <4> QED
        BY <1>3, <2>1, <4>1, <4>2 DEF TurnRows
    <3>2. CASE t \notin CopyIds(ts)
      BY <1>1, <2>0, <3>2 DEF Committed
    <3> QED
      BY <3>1, <3>2
  <2>7. turn' = [t \in Turns |-> turn'[t]]
    BY <1>8 DEF Commits, AddChild, Copies
  <2>8. turn' \in [Turns -> TurnRows]
    BY <2>6, <2>7
  <2> QED
    BY <1>1, <2>1, <2>5, <2>8
<1>9. ASSUME NEW p \in Procs, NEW c \in Convs, NEW t \in Turns, NEW k \in Keys \cup {None},
             CheckFork(p, c, t, k) \/ CheckEdit(p, c, t, k)
      PROVE  Typed
  <2>1. PICK op \in {"forking", "editing"} :
          proc' = [proc EXCEPT ![p] = [Idle EXCEPT !.op = op, !.source = c, !.turn = t, !.key = k]]
    BY <1>9 DEF CheckFork, CheckEdit
  <2>2. [Idle EXCEPT !.op = op, !.source = c, !.turn = t, !.key = k] \in ProcRows
    BY <1>2, <1>3, <1>4 DEF ProcRows
  <2>3. UNCHANGED <<conv, turn, keyed, clock, wiped>>
    BY <1>9 DEF CheckFork, CheckEdit
  <2> QED
    BY <1>1, <2>1, <2>2, <2>3
<1>10. ASSUME NEW p \in Procs, ReadBefore(p) PROVE Typed
  <2> DEFINE c == proc[p].source
             t == proc[p].turn
             before == {u \in Completed(c) : turn[u].at < turn[t].at}
             slot == Slot(c, t)
  <2>1. c \in Convs /\ t \in Turns
    BY <1>10 DEF ReadBefore, ProcInv, Right, Made, Used
  <2>2. slot \in 0 .. MaxTurns
    BY <1>1, <1>4, <2>1 DEF Slot, ConvRows
  <2>3. before \in SUBSET Turns
    BY DEF Completed, TurnsOf
  <2>4. /\ proc' = [proc EXCEPT ![p].op = "reading", ![p].before = before, ![p].slot = slot]
        /\ UNCHANGED <<conv, turn, keyed, clock, wiped>>
    BY <1>10 DEF ReadBefore
  <2>5. [[[proc[p] EXCEPT !.op = "reading"] EXCEPT !.before = before] EXCEPT !.slot = slot]
          \in ProcRows
    <3> HIDE DEF before, slot
    <3> QED
      BY <1>1, <2>2, <2>3 DEF ProcRows
  <2> HIDE DEF before, slot, c, t
  <2>6. proc' = [proc EXCEPT ![p] = [[[proc[p] EXCEPT !.op = "reading"]
                                        EXCEPT !.before = before] EXCEPT !.slot = slot]]
    BY <1>1, <2>4
  <2>7. proc' \in [Procs -> ProcRows]
    BY <1>1, <2>5, <2>6
  <2> QED
    BY <1>1, <2>4, <2>7
<1>11. ASSUME NEW p \in Procs, CommitAborts(p) PROVE Typed
  BY <1>1, <1>2, <1>11 DEF CommitAborts
<1>12. CASE UNCHANGED vars
  BY <1>1, <1>12 DEF vars
<1> HIDE DEF Typed
<1>13. ASSUME NEW p \in Procs, CommitFork(p) \/ CommitEdit(p) PROVE Typed
  BY <1>8, <1>13, CommitKinds DEF Shape
<1> QED
  BY <1>5, <1>6, <1>7, <1>9, <1>10, <1>11, <1>12, <1>13
     DEF Next, Branch, DeleteConversation, ClearConversation

Tables == IdsInOrder /\ Blank /\ TurnInv /\ InTime /\ OriginInv /\ ParentInv

\* The ids and times of rows are numbers.
LEMMA Numbers ==
  ASSUME TypeOK
  PROVE  /\ clock \in Nat
         /\ \A t \in Turns : t \in Nat /\ turn[t].at \in Nat
         /\ \A c \in Convs : c \in Nat /\ c # 0 /\ conv[c].born \in Nat /\ conv[c].parent \in Nat
  BY BoundsAreNat DEF TypeOK, Turns, Convs

\* A turn that starts is the latest of all.
LEMMA StartKeepsTables ==
  ASSUME Shape, NEW p \in Procs, NEW c \in Convs, StartTurn(p, c)
  PROVE  Tables'
<1> USE DEF Shape
<1>1. PICK t \in Turns \ Used :
           /\ Used' = Used \cup {t} /\ 1 .. t \subseteq Used \cup {t}
           /\ turn'[t] = [status |-> "running", conv |-> c, at |-> clock + 1,
                          whole |-> FALSE, origin |-> t]
           /\ \A u \in Turns \ {t} : turn'[u] = turn[u]
           /\ c \in Made /\ \A u \in Used : turn[u].conv = c => turn[u].status # "running"
           /\ Made' = Made /\ conv' = conv /\ wiped' = wiped /\ clock' = clock + 1
           /\ clock' \in 0 .. MaxStarts
  BY StartEffect
<1>2. /\ turn'[t].status = "running" /\ turn'[t].conv = c /\ turn'[t].at = clock + 1
      /\ ~ turn'[t].whole /\ turn'[t].origin = t
      /\ \A u \in Used : u # t /\ turn'[u] = turn[u] /\ u \in Turns
  BY <1>1 DEF Used
<1>3. clock \in Nat /\ \A u \in Used : turn[u].at \in 1 .. clock
  BY Numbers DEF TurnInv
<1>4. IdsInOrder' /\ Blank'
  BY <1>1, <1>2 DEF IdsInOrder, Blank
<1>5. TurnInv'
  BY <1>1, <1>2, <1>3 DEF TurnInv
<1>6. InTime'
  BY <1>1, <1>2, <1>3 DEF InTime
<1>7. OriginInv'
  BY <1>1, <1>2 DEF OriginInv
<1>8. ParentInv'
  <2>1. \A d \in Made : conv[d].born \in Nat
    BY Numbers DEF Made
  <2> QED
    BY <1>1, <1>2, <1>3, <2>1 DEF ParentInv
<1> QED
  BY <1>4, <1>5, <1>6, <1>7, <1>8 DEF Tables

\* A turn that ends was the latest of its conversation.
LEMMA EndKeepsTables ==
  ASSUME Shape, NEW p \in Procs, NEW t \in Turns, NEW status \in {"completed", "failed"},
         EndTurn(p, t, status)
  PROVE  Tables'
<1> USE DEF Shape
<1>1. /\ Used' = Used /\ t \in Used /\ turn[t].status = "running"
      /\ turn'[t] = [status |-> status, conv |-> turn[t].conv, at |-> turn[t].at,
                     whole |-> (status = "completed"), origin |-> turn[t].origin]
      /\ \A u \in Turns \ {t} : turn'[u] = turn[u]
      /\ Made' = Made /\ conv' = conv /\ wiped' = wiped /\ clock' = clock
  BY EndEffect
<1>2. /\ turn'[t].status = status /\ turn'[t].conv = turn[t].conv /\ turn'[t].at = turn[t].at
      /\ turn'[t].whole = (status = "completed") /\ turn'[t].origin = turn[t].origin
      /\ ~ turn[t].whole
  BY <1>1 DEF TurnInv
<1>3. \A u \in Used : /\ turn'[u].conv = turn[u].conv /\ turn'[u].at = turn[u].at
                      /\ turn'[u].origin = turn[u].origin
                      /\ turn[u].whole => turn'[u].whole
                      /\ u # t => turn'[u] = turn[u]
  BY <1>1, <1>2 DEF Used
<1>4. IdsInOrder' /\ Blank'
  BY <1>1 DEF IdsInOrder, Blank
<1>5. TurnInv'
  <2> SUFFICES ASSUME NEW u \in Used
               PROVE  /\ turn'[u].conv \in Made /\ turn'[u].at \in 1 .. clock
                      /\ turn'[u].status = "completed" => turn'[u].whole
                      /\ turn'[u].whole => turn'[u].status \in {"completed", "gone"}
                      /\ turn'[u].status = "gone" => turn'[u].conv \in wiped
    BY <1>1 DEF TurnInv
  <2>1. CASE u = t
    BY <1>1, <1>2, <1>3, <2>1 DEF TurnInv
  <2>2. CASE u # t
    BY <1>3, <2>2 DEF TurnInv
  <2> QED
    BY <2>1, <2>2
<1>6. InTime'
  BY <1>1, <1>2, <1>3 DEF InTime
<1>7. OriginInv'
  BY <1>1, <1>2, <1>3 DEF OriginInv
<1>8. ParentInv'
  BY <1>1, <1>3 DEF ParentInv
<1> QED
  BY <1>4, <1>5, <1>6, <1>7, <1>8 DEF Tables

\* Wiping takes rows, and nothing else.
LEMMA WipeKeepsTables ==
  ASSUME Shape, NEW p \in Procs, NEW c \in Convs, NEW after \in {"live", "deleted"},
         Wipe(p, c, after)
  PROVE  Tables'
<1> USE DEF Shape
<1>1. /\ Used' = Used /\ Made' = Made /\ clock' = clock /\ wiped' = wiped \cup {c}
      /\ c \in Made
      /\ \A d \in Convs : /\ conv'[d].parent = conv[d].parent /\ conv'[d].forked = conv[d].forked
                          /\ conv'[d].slot = conv[d].slot /\ conv'[d].born = conv[d].born
                          /\ d # c => conv'[d] = conv[d]
      /\ \A t \in Turns :
              /\ turn'[t].conv = turn[t].conv /\ turn'[t].at = turn[t].at
              /\ turn'[t].whole = turn[t].whole /\ turn'[t].origin = turn[t].origin
              /\ turn'[t].status = IF t \in Rows(c) THEN "gone" ELSE turn[t].status
      /\ \A t \in Turns \ Used : turn'[t] = turn[t]
  BY WipeEffect
<1>2. Used \subseteq Turns /\ Made \subseteq Convs
  BY DEF Used, Made
<1>3. IdsInOrder' /\ Blank'
  BY <1>1 DEF IdsInOrder, Blank
<1>4. TurnInv'
  <2> SUFFICES ASSUME NEW t \in Used
               PROVE  /\ turn'[t].conv \in Made /\ turn'[t].at \in 1 .. clock
                      /\ turn'[t].status = "completed" => turn'[t].whole
                      /\ turn'[t].whole => turn'[t].status \in {"completed", "gone"}
                      /\ turn'[t].status = "gone" => turn'[t].conv \in wiped'
    BY <1>1 DEF TurnInv
  <2>1. t \in Rows(c) => turn[t].conv = c
    BY DEF Rows, TurnsOf
  <2> QED
    BY <1>1, <1>2, <2>1 DEF TurnInv
<1>5. InTime'
  BY <1>1, <1>2 DEF InTime
<1>6. OriginInv'
  BY <1>1, <1>2 DEF OriginInv
<1>7. ParentInv'
  BY <1>1, <1>2 DEF ParentInv
<1> QED
  BY <1>3, <1>4, <1>5, <1>6, <1>7 DEF Tables

\* What is inherited comes with the times and origins it had.
LEMMA Inheritance ==
  ASSUME Shape, ProcInv, NEW p \in Procs, NEW ts, NEW forked, NEW slot,
         Commits(p, ts, forked, slot)
  PROVE  /\ Committed(p, ts, forked, slot)
         /\ \A t \in Used : turn'[t] = turn[t]
         /\ \A u \in ts : /\ u \in Used /\ turn[u].conv = proc[p].source
                          /\ turn[u].status = "completed" /\ turn[u].whole
         /\ \A t \in CopyIds(ts) :
              /\ t \in Turns \ Used /\ CopyOf(ts, t) \in ts
              /\ turn'[t].status = "completed" /\ turn'[t].conv = NextConv
              /\ turn'[t].at = turn[CopyOf(ts, t)].at /\ turn'[t].whole
              /\ turn'[t].origin = turn[CopyOf(ts, t)].origin
              /\ turn'[t].origin \in Used
         /\ proc[p].turn \in Used /\ turn[proc[p].turn].conv = proc[p].source
         /\ \A u \in ts : turn[u].at <= turn[proc[p].turn].at
<1> USE DEF Shape
<1>1. Committed(p, ts, forked, slot)
  BY CommitEffect
<1>2. \A t \in CopyIds(ts) : t \in Turns \ Used
  BY <1>1 DEF Committed
<1>3. \A t \in Used : turn'[t] = turn[t]
  BY <1>1, <1>2 DEF Committed, Used
<1>4. \A u \in ts : /\ u \in Used /\ turn[u].conv = proc[p].source
                    /\ turn[u].status = "completed" /\ turn[u].whole
  BY <1>1 DEF Committed, Commits, Completed, TurnsOf, TurnInv
<1>5. ASSUME NEW t \in CopyIds(ts)
      PROVE  /\ CopyOf(ts, t) \in ts
             /\ turn'[t].status = "completed" /\ turn'[t].conv = NextConv
             /\ turn'[t].at = turn[CopyOf(ts, t)].at /\ turn'[t].whole
             /\ turn'[t].origin = turn[CopyOf(ts, t)].origin
             /\ turn'[t].origin \in Used
  <2>1. PICK u \in ts :
          /\ u = CopyOf(ts, t)
          /\ turn'[t] = [status |-> "completed", conv |-> NextConv, at |-> turn[u].at,
                         whole |-> TRUE, origin |-> turn[u].origin]
    BY <1>1 DEF Committed
  <2>2. turn[u].origin \in Used
    BY <1>4 DEF OriginInv
  <2> QED
    BY <2>1, <2>2
<1>6. proc[p].turn \in Used /\ turn[proc[p].turn].conv = proc[p].source
  BY DEF Commits, ProcInv, Right, TurnsOf
<1>7. \A u \in ts : turn[u].at <= turn[proc[p].turn].at
  <2>1. CASE ts = UpToTheTurn(proc[p].source, proc[p].turn)
    BY <2>1 DEF UpToTheTurn
  <2>2. CASE proc[p].op = "reading" /\ ts = proc[p].before
    <3>1. \A u \in ts : turn[u].at < turn[proc[p].turn].at
      BY <2>2 DEF ProcInv, Right
    <3>2. turn[proc[p].turn].at \in Nat /\ \A u \in ts : turn[u].at \in Nat
      BY <1>4, <1>6, Numbers DEF Used
    <3> QED
      BY <3>1, <3>2
  <2> QED
    BY <2>1, <2>2 DEF Commits
<1> QED
  BY <1>1, <1>2, <1>3, <1>4, <1>5, <1>6, <1>7

\* The fork turn is the last that is inherited, or one that is not later than it.
LEMMA ForkTurn ==
  ASSUME Shape, ProcInv, NEW p \in Procs, NEW ts, NEW forked, NEW slot,
         Commits(p, ts, forked, slot)
  PROVE  /\ forked # 0 => /\ forked \in Used /\ turn[forked].conv = proc[p].source
                          /\ turn[forked].whole
                          /\ \A u \in ts : turn[u].at <= turn[forked].at
         /\ ts # {} => forked # 0
         /\ slot # 0 => slot \in Used
<1> USE DEF Shape
<1>1. ts \in SUBSET Turns /\ 0 \notin Turns
  BY DEF Commits, Completed, TurnsOf, Turns
<1>2. CASE proc[p].op = "forking" /\ forked = proc[p].turn /\ slot = 0
  BY <1>1, <1>2, Inheritance DEF ProcInv, Right, Used
<1>3. CASE proc[p].op = "reading" /\ forked = Latest(ts) /\ slot = proc[p].slot
  <2>1. slot \in Used
    BY <1>3 DEF ProcInv, Right, Commits
  <2>2. CASE ts = {}
    BY <1>1, <1>3, <2>1, <2>2, LatestIsLast
  <2>3. CASE ts # {}
    <3>1. Latest(ts) \in ts /\ \A v \in ts : turn[v].at <= turn[Latest(ts)].at
      BY <1>1, <2>3, LatestIsLast
    <3> QED
      BY <1>1, <1>3, <2>1, <3>1, Inheritance
  <2> QED
    BY <2>2, <2>3
<1> QED
  BY <1>2, <1>3 DEF Commits

\* A branch is a new row, and its turns are copies.
LEMMA CommitKeepsTables ==
  ASSUME Shape, ProcInv, NEW p \in Procs, NEW ts, NEW forked, NEW slot,
         Commits(p, ts, forked, slot)
  PROVE  Tables'
<1> DEFINE c == proc[p].source
           child == NextConv
           ids == CopyIds(ts)
           of(t) == CopyOf(ts, t)
<1> USE DEF Shape
<1>1. /\ child \in Convs \ Made /\ \A d \in Made : d < child
      /\ 1 .. child \subseteq Made \cup {child}
      /\ Made' = Made \cup {child} /\ Used' = Used \cup ids
      /\ c \in Made /\ wiped' = wiped /\ clock' = clock
      /\ \A d \in Convs \ {child} : conv'[d] = conv[d]
      /\ \A t \in Turns \ ids : turn'[t] = turn[t]
      /\ \A t \in ids : 1 .. t \subseteq Used \cup ids
      /\ \A t, w \in ids : of(t) = of(w) => t = w
  BY Inheritance DEF Committed
<1>2. conv'[child] = [state |-> "live", parent |-> c, forked |-> forked, slot |-> slot,
                      born |-> clock, key |-> proc[p].key,
                      clean |-> conv[c].clean /\ c \notin wiped /\ conv[c].parent \notin wiped]
  BY Inheritance DEF Committed
<1>3. /\ conv'[child].parent = c /\ conv'[child].forked = forked
      /\ conv'[child].slot = slot /\ conv'[child].born = clock
  BY <1>2
<1>4. /\ \A t \in Used : turn'[t] = turn[t]
      /\ \A u \in ts : /\ u \in Used /\ turn[u].conv = c /\ turn[u].whole
      /\ \A t \in ids :
              /\ t \in Turns \ Used /\ of(t) \in ts
              /\ turn'[t].status = "completed" /\ turn'[t].conv = child
              /\ turn'[t].at = turn[of(t)].at /\ turn'[t].whole
              /\ turn'[t].origin = turn[of(t)].origin
              /\ turn'[t].origin \in Used
  BY Inheritance
<1>5. Used \subseteq Turns /\ Made \subseteq Convs /\ \A d \in Made : conv'[d] = conv[d]
  BY <1>1 DEF Used, Made
<1> HIDE DEF c, child, ids, of
<1>6. IdsInOrder' /\ Blank'
  BY <1>1, <1>4, <1>5 DEF IdsInOrder, Blank
<1>7. TurnInv'
  BY <1>1, <1>4 DEF TurnInv
<1>8. InTime'
  <2> SUFFICES ASSUME NEW t \in Used \cup ids, NEW u \in Used \cup ids,
                      turn'[t].conv = turn'[u].conv
               PROVE  /\ turn'[t].at = turn'[u].at => t = u
                      /\ turn'[t].status = "running" => turn'[u].at <= turn'[t].at
    BY <1>1 DEF InTime
  <2>1. CASE t \in Used /\ u \in Used
    BY <1>4, <2>1 DEF InTime
  <2>2. CASE t \in ids /\ u \in ids
    BY <1>1, <1>4, <2>2 DEF InTime
  <2>3. \A w \in Used : turn'[w].conv # child
    BY <1>1, <1>4 DEF TurnInv
  <2> QED
    BY <1>4, <2>1, <2>2, <2>3
<1>9. OriginInv'
  <2> SUFFICES ASSUME NEW t \in Used \cup ids
               PROVE  LET o == turn'[t].origin IN
                      /\ o \in Used' /\ turn'[o].origin = o /\ turn'[o].at = turn'[t].at
                      /\ o # t => turn'[t].whole /\ turn'[o].whole
    BY <1>1 DEF OriginInv
  <2>1. CASE t \in Used
    BY <1>1, <1>4, <2>1 DEF OriginInv
  <2>2. CASE t \in ids
    <3>1. of(t) \in Used /\ turn[of(t)].whole
      BY <1>4, <2>2
    <3>2. turn[turn[of(t)].origin].whole
      BY <3>1 DEF OriginInv
    <3> QED
      BY <1>1, <1>4, <2>2, <3>1, <3>2 DEF OriginInv
  <2> QED
    BY <2>1, <2>2
<1>10. ParentInv'
  <2> SUFFICES ASSUME NEW d \in Made \cup {child}
               PROVE  /\ conv'[d].born <= clock
                      /\ conv'[d].parent = 0 => conv'[d].forked = 0 /\ conv'[d].slot = 0
                      /\ conv'[d].parent # 0 => conv'[d].parent \in Made' /\ conv'[d].parent < d
                      /\ conv'[d].slot # 0 => conv'[d].slot \in Used'
                      /\ conv'[d].forked # 0 =>
                           LET f == conv'[d].forked IN
                           f \in Used' /\ turn'[f].conv = conv'[d].parent /\ turn'[f].whole
                             /\ turn'[f].at <= conv'[d].born
    BY <1>1 DEF ParentInv
  <2>1. CASE d \in Made
    BY <1>1, <1>4, <1>5, <2>1 DEF ParentInv
  <2>2. CASE d = child
    <3>1. /\ forked # 0 => /\ forked \in Used /\ turn[forked].conv = c /\ turn[forked].whole
          /\ slot # 0 => slot \in Used
      BY ForkTurn DEF c
    <3>2. clock \in Nat /\ c # 0
      BY <1>1, <1>5, Numbers
    <3>3. forked # 0 => turn'[forked] = turn[forked] /\ turn[forked].at <= clock
      BY <1>4, <3>1, <3>2 DEF TurnInv
    <3> QED
      BY <1>1, <1>3, <2>2, <3>1, <3>2, <3>3
  <2> QED
    BY <2>1, <2>2
<1> QED
  BY <1>6, <1>7, <1>8, <1>9, <1>10 DEF Tables

\* Every step keeps the shape of the tables.
LEMMA ShapeStep == Shape /\ ProcInv /\ [Next]_vars => Shape'
<1> SUFFICES ASSUME Shape, ProcInv, [Next]_vars PROVE Shape'
  OBVIOUS
<1>1. TypeOK'
  BY TypeStep
<1>2. CASE UNCHANGED tables
  <2>1. Used' = Used /\ Made' = Made
    BY <1>2 DEF Used, Made, tables
  <2> QED
    BY <1>1, <1>2, <2>1
       DEF tables, Shape, IdsInOrder, Blank, TurnInv, InTime, OriginInv, ParentInv
<1>3. Tables' => Shape'
  BY <1>1 DEF Tables, Shape
<1> QED
  BY <1>2, <1>3, Kinds, StartKeepsTables, EndKeepsTables, WipeKeepsTables, CommitKeepsTables
     DEF Shape

-----------------------------------------------------------------------------
(* What every step leaves as it is.                                        *)

Keeps ==
  /\ Used \subseteq Used' /\ Made \subseteq Made' /\ wiped \subseteq wiped'
  /\ \A c \in Made :
       /\ conv'[c].parent = conv[c].parent /\ conv'[c].forked = conv[c].forked
       /\ conv'[c].slot = conv[c].slot /\ conv'[c].born = conv[c].born
       /\ conv'[c].clean = conv[c].clean
  /\ \A t \in Used :
       /\ turn'[t].conv = turn[t].conv /\ turn'[t].at = turn[t].at
       /\ turn'[t].origin = turn[t].origin
       /\ turn[t].whole => turn'[t].whole
       /\ turn'[t].whole => turn[t].whole \/ turn[t].status = "running"
       /\ \/ turn'[t].status = turn[t].status \/ turn[t].status = "running"
          \/ turn'[t].status = "gone" /\ turn[t].conv \in wiped'
  /\ \A t \in Used' \ Used : turn'[t].conv \in Made =>
       /\ turn'[t].origin = t /\ turn'[t].at > clock /\ clock \in Nat
       /\ turn'[t].status = "running" /\ ~ turn'[t].whole

\* Rows are never forgotten, and a turn of a conversation that is there is a new one.
LEMMA KeepsStep == Shape /\ ProcInv /\ [Next]_vars => Keeps
<1> SUFFICES ASSUME Shape, ProcInv, [Next]_vars PROVE Keeps
  OBVIOUS
<1> USE DEF Shape
<1>0. Used \subseteq Turns /\ Made \subseteq Convs /\ clock \in Nat
  BY Numbers DEF Used, Made
<1>1. ASSUME NEW p \in Procs, NEW c \in Convs, StartTurn(p, c) PROVE Keeps
  <2>1. PICK t \in Turns \ Used :
           /\ Used' = Used \cup {t}
           /\ turn'[t] = [status |-> "running", conv |-> c, at |-> clock + 1,
                          whole |-> FALSE, origin |-> t]
           /\ \A u \in Turns \ {t} : turn'[u] = turn[u]
           /\ Made' = Made /\ conv' = conv /\ wiped' = wiped
    BY <1>1, StartEffect
  <2>2. /\ turn'[t].status = "running" /\ turn'[t].at > clock /\ turn'[t].origin = t
        /\ ~ turn'[t].whole
    BY <1>0, <2>1
  <2>3. \A u \in Used : turn'[u] = turn[u]
    BY <1>0, <2>1
  <2> QED
    BY <1>0, <2>1, <2>2, <2>3 DEF Keeps
<1>2. ASSUME NEW p \in Procs, NEW t \in Turns, NEW status \in {"completed", "failed"},
             EndTurn(p, t, status)
      PROVE  Keeps
  <2>1. /\ Used' = Used /\ t \in Used /\ turn[t].status = "running"
        /\ turn'[t] = [status |-> status, conv |-> turn[t].conv, at |-> turn[t].at,
                       whole |-> (status = "completed"), origin |-> turn[t].origin]
        /\ \A u \in Turns \ {t} : turn'[u] = turn[u]
        /\ Made' = Made /\ conv' = conv /\ wiped' = wiped
    BY <1>2, EndEffect
  <2>2. /\ turn'[t].conv = turn[t].conv /\ turn'[t].at = turn[t].at
        /\ turn'[t].origin = turn[t].origin /\ ~ turn[t].whole
    BY <2>1 DEF TurnInv
  <2>3. \A u \in Used : u # t => turn'[u] = turn[u]
    BY <1>0, <2>1
  <2> QED
    BY <2>1, <2>2, <2>3 DEF Keeps
<1>3. ASSUME NEW p \in Procs, NEW c \in Convs, NEW after \in {"live", "deleted"},
             Wipe(p, c, after)
      PROVE  Keeps
  <2>1. /\ Used' = Used /\ Made' = Made /\ wiped' = wiped \cup {c}
        /\ \A d \in Convs : /\ conv'[d].parent = conv[d].parent /\ conv'[d].forked = conv[d].forked
                            /\ conv'[d].slot = conv[d].slot /\ conv'[d].born = conv[d].born
                            /\ conv'[d].clean = conv[d].clean
        /\ \A t \in Turns :
              /\ turn'[t].conv = turn[t].conv /\ turn'[t].at = turn[t].at
              /\ turn'[t].whole = turn[t].whole /\ turn'[t].origin = turn[t].origin
              /\ turn'[t].status = IF t \in Rows(c) THEN "gone" ELSE turn[t].status
    BY <1>3, WipeEffect
  <2>2. \A t \in Rows(c) : turn[t].conv = c
    BY DEF Rows, TurnsOf
  <2> QED
    BY <1>0, <2>1, <2>2 DEF Keeps
<1>4. ASSUME NEW p \in Procs, NEW ts, NEW forked, NEW slot, Commits(p, ts, forked, slot)
      PROVE  Keeps
  <2>1. /\ NextConv \in Convs \ Made
        /\ Made' = Made \cup {NextConv} /\ Used' = Used \cup CopyIds(ts) /\ wiped' = wiped
        /\ \A d \in Convs \ {NextConv} : conv'[d] = conv[d]
    BY <1>4, Inheritance DEF Committed
  <2>2. /\ \A t \in Used : turn'[t] = turn[t]
        /\ \A t \in CopyIds(ts) : turn'[t].conv = NextConv
    BY <1>4, Inheritance
  <2>3. \A d \in Made : conv'[d] = conv[d]
    BY <1>0, <2>1
  <2> QED
    BY <2>1, <2>2, <2>3 DEF Keeps
<1>5. CASE UNCHANGED tables
  <2>1. Used' = Used /\ Made' = Made
    BY <1>5 DEF Used, Made, tables
  <2> QED
    BY <1>5, <2>1 DEF tables, Keeps
<1> QED
  BY <1>1, <1>2, <1>3, <1>4, <1>5, Kinds

\* The turns of a conversation that was made are rows.
LEMMA TurnsAreUsed ==
  ASSUME Blank, NEW c \in Made
  PROVE  TurnsOf(c) \subseteq Used
<1>1. c # 0
  BY DEF Made, Convs
<1> QED
  BY <1>1 DEF Blank, TurnsOf, NoTurn

\* What a branch has inherited stays as it was.
LEMMA PastKept ==
  ASSUME Shape, Shape', Keeps, NEW c \in Made
  PROVE  Past(c)' = Past(c)
<1>1. TurnsOf(c) \subseteq Used /\ TurnsOf(c)' \subseteq Used' /\ c \in Made'
  <2>1. c \in Made'
    BY DEF Keeps
  <2>2. c # 0
    BY DEF Made, Convs
  <2> QED
    BY <2>1, <2>2, TurnsAreUsed DEF Shape, Blank, TurnsOf, NoTurn
<1>2. Inherited(c)' = Inherited(c)
  <2>1. ASSUME NEW t \in Turns PROVE t \in Inherited(c)' <=> t \in Inherited(c)
    <3>1. CASE t \in Used
      BY <3>1 DEF Keeps, Inherited, TurnsOf
    <3>2. CASE t \notin Used
      BY <1>1, <3>2 DEF Keeps, Inherited, TurnsOf
    <3> QED
      BY <3>1, <3>2
  <2> QED
    BY <2>1 DEF Inherited, TurnsOf
<1>3. \A t \in Inherited(c) : turn'[t].origin = turn[t].origin
  BY <1>1 DEF Inherited, Keeps
<1> QED
  BY <1>2, <1>3 DEF Past

\* What was completed before a turn stays as it was: the turn that runs is later.
LEMMA EarlierKept ==
  ASSUME Shape, Shape', Keeps, NEW s \in Used
  PROVE  Earlier(s)' = Earlier(s)
<1> DEFINE before == {v \in TurnsOf(turn[s].conv) : turn[v].whole /\ turn[v].at < turn[s].at}
<1>1. turn[s].conv \in Made /\ turn[s].conv # 0 /\ turn[s].at \in Nat /\ turn[s].at <= clock
      /\ clock \in Nat
  BY Numbers DEF Shape, TurnInv, Made, Convs, Used
<1>2. turn'[s].conv = turn[s].conv /\ turn'[s].at = turn[s].at
  BY DEF Keeps
<1>3. ASSUME NEW v \in Turns PROVE v \in before' <=> v \in before
  <2>1. CASE v \in Used
    <3>1. /\ turn'[v].conv = turn[v].conv /\ turn'[v].at = turn[v].at
          /\ turn[v].whole => turn'[v].whole
          /\ turn'[v].whole => turn[v].whole \/ turn[v].status = "running"
      BY <2>1 DEF Keeps
    <3>2. turn[v].status = "running" /\ turn[v].conv = turn[s].conv => turn[s].at <= turn[v].at
      BY <2>1 DEF Shape, InTime
    <3>3. turn[v].at \in Nat
      BY Numbers DEF Shape
    <3> QED
      BY <1>1, <1>2, <3>1, <3>2, <3>3 DEF TurnsOf
  <2>2. CASE v \notin Used
    <3>1. turn[v].conv = 0
      BY <2>2 DEF Shape, Blank, NoTurn
    <3>2. v \in before' => v \in Used' \ Used
      BY <1>1, <1>2, <2>2 DEF Shape, Blank, NoTurn, TurnsOf
    <3> QED
      BY <1>1, <1>2, <3>1, <3>2 DEF Keeps, TurnsOf
  <2> QED
    BY <2>1, <2>2
<1>4. before' = before
  BY <1>3 DEF TurnsOf
<1>5. \A v \in before : turn'[v].origin = turn[v].origin
  BY <1>1, TurnsAreUsed DEF Shape, Keeps
<1>6. Earlier(s) = {turn[u].origin : u \in before}
      /\ Earlier(s)' = {turn'[u].origin : u \in before'}
  BY DEF Earlier
<1> HIDE DEF before
<1> QED
  BY <1>4, <1>5, <1>6

\* So do the rows of what was completed before, unless they are wiped.
LEMMA CompletedKept ==
  ASSUME Shape, Shape', Keeps, NEW c \in Made, c \notin wiped', NEW m \in Used, turn[m].conv = c
  PROVE  /\ {u \in Completed(c) : turn[u].at < turn[m].at}'
              = {u \in Completed(c) : turn[u].at < turn[m].at}
         /\ turn[m].whole => {u \in Completed(c) : turn[u].at <= turn[m].at}'
                               = {u \in Completed(c) : turn[u].at <= turn[m].at}
<1>1. c # 0 /\ turn[m].at \in Nat /\ turn[m].at <= clock /\ clock \in Nat
  BY Numbers DEF Shape, TurnInv, Made, Convs, Used
<1>2. turn'[m].at = turn[m].at
  BY DEF Keeps
<1>3. ASSUME NEW u \in Turns
      PROVE  /\ (u \in Completed(c)' /\ turn'[u].at < turn[m].at)
                  <=> (u \in Completed(c) /\ turn[u].at < turn[m].at)
             /\ turn[m].whole =>
                  ((u \in Completed(c)' /\ turn'[u].at <= turn[m].at)
                     <=> (u \in Completed(c) /\ turn[u].at <= turn[m].at))
  <2>1. CASE u \in Used
    <3>1. /\ turn'[u].conv = turn[u].conv /\ turn'[u].at = turn[u].at
          /\ \/ turn'[u].status = turn[u].status \/ turn[u].status = "running"
             \/ turn'[u].status = "gone" /\ turn[u].conv \in wiped'
      BY <2>1 DEF Keeps
    <3>2. turn[u].status = "running" /\ turn[u].conv = c => turn[m].at <= turn[u].at
      BY <2>1 DEF Shape, InTime
    <3>3. turn[u].conv = c /\ turn[u].at = turn[m].at => u = m
      BY <2>1 DEF Shape, InTime
    <3>4. turn[m].whole => turn[m].status # "running"
      BY DEF Shape, TurnInv
    <3>5. turn[u].at \in Nat
      BY Numbers DEF Shape
    <3>6. CASE turn[u].status = "running" /\ turn[u].conv = c
      <4>1. turn[m].whole => turn[m].at < turn[u].at
        BY <1>1, <3>2, <3>3, <3>4, <3>5, <3>6
      <4> QED
        BY <1>1, <3>1, <3>2, <3>5, <3>6, <4>1 DEF Completed, TurnsOf
    <3>7. CASE ~ (turn[u].status = "running" /\ turn[u].conv = c)
      BY <3>1, <3>7 DEF Completed, TurnsOf
    <3> QED
      BY <3>6, <3>7
  <2>2. CASE u \notin Used
    <3>1. turn[u].conv = 0
      BY <2>2 DEF Shape, Blank, NoTurn
    <3>2. u \in Completed(c)' => u \in Used' \ Used
      BY <2>2 DEF Completed, TurnsOf, Used
    <3>3. u \in Used' \ Used /\ turn'[u].conv = c => turn'[u].status = "running"
      BY DEF Keeps
    <3>4. u \notin Completed(c)'
      BY <3>2, <3>3 DEF Completed, TurnsOf
    <3> QED
      BY <1>1, <3>1, <3>4 DEF Completed, TurnsOf
  <2> QED
    BY <2>1, <2>2
<1> QED
  BY <1>2, <1>3 DEF Completed, TurnsOf

\* Only a commit makes a conversation.
LEMMA NewRows ==
  ASSUME Shape, ProcInv, [Next]_vars
  PROVE  \/ Made' = Made
         \/ \E p \in Procs : \E ts, forked, slot : Commits(p, ts, forked, slot)
<1>1. CASE UNCHANGED tables
  BY <1>1 DEF tables, Made
<1> QED
  BY <1>1, Kinds, StartEffect, EndEffect, WipeEffect DEF Shape

\* The links between a branch and its parent hold after every step.
LEMMA LinkStep ==
  ASSUME Shape, Shape', Keeps, LinkInv, ProcInv, [Next]_vars
  PROVE  LinkInv'
<1> SUFFICES ASSUME NEW t \in Used', NEW c, c = turn'[t].conv
             PROVE  \/ /\ turn'[t].origin = t
                       /\ conv'[c].parent # 0 => turn'[t].at > conv'[c].born
                    \/ /\ turn'[t].origin # t /\ conv'[c].parent # 0 /\ conv'[c].forked # 0
                       /\ turn'[t].at <= turn'[conv'[c].forked].at
                       /\ \E u \in Turns : /\ turn'[u].conv = conv'[c].parent
                                           /\ turn'[u].origin = turn'[t].origin
  BY DEF LinkInv, TurnsOf
<1>1. CASE t \in Used
  <2>1. /\ turn[t].conv = c /\ turn'[t].at = turn[t].at /\ turn'[t].origin = turn[t].origin
        /\ c \in Made
    BY <1>1 DEF Keeps, Shape, TurnInv
  <2>2. /\ conv'[c].parent = conv[c].parent /\ conv'[c].forked = conv[c].forked
        /\ conv'[c].born = conv[c].born
    BY <2>1 DEF Keeps
  <2>3. CASE turn[t].origin = t
    BY <1>1, <2>1, <2>2, <2>3 DEF LinkInv
  <2>4. CASE turn[t].origin # t
    <3>1. /\ conv[c].parent # 0 /\ conv[c].forked # 0
          /\ turn[t].at <= turn[conv[c].forked].at
      BY <1>1, <2>1, <2>4 DEF LinkInv
    <3>2. PICK u \in TurnsOf(conv[c].parent) : turn[u].origin = turn[t].origin
      BY <1>1, <2>1, <2>4 DEF LinkInv
    <3>3. conv[c].parent \in Made /\ conv[c].forked \in Used
      BY <2>1, <3>1 DEF Shape, ParentInv
    <3>4. u \in Used /\ u \in Turns /\ turn[u].conv = conv[c].parent
      BY <3>3, TurnsAreUsed DEF Shape, TurnsOf
    <3>5. /\ turn'[u].conv = turn[u].conv /\ turn'[u].origin = turn[u].origin
          /\ turn'[conv[c].forked].at = turn[conv[c].forked].at
      BY <3>3, <3>4 DEF Keeps
    <3> QED
      BY <2>1, <2>2, <2>4, <3>1, <3>2, <3>4, <3>5
  <2> QED
    BY <2>3, <2>4
<1>2. CASE t \notin Used /\ c \in Made
  <2>1. turn'[t].origin = t /\ turn'[t].at > clock /\ clock \in Nat
    BY <1>2 DEF Keeps
  <2>2. conv'[c].born = conv[c].born
    BY <1>2 DEF Keeps
  <2>3. conv[c].born <= clock /\ conv[c].born \in Nat
    BY <1>2, Numbers DEF Shape, ParentInv, Made
  <2>4. turn'[t].at \in Nat
    <3>1. TypeOK' /\ t \in Turns
      BY DEF Shape, Used
    <3> QED
      BY <3>1, BoundsAreNat DEF TypeOK
  <2> QED
    BY <2>1, <2>2, <2>3, <2>4
<1>3. CASE t \notin Used /\ c \notin Made
  <2>1. c \in Made'
    BY DEF Shape, TurnInv
  <2>0. PICK p \in Procs : \E ts, forked, slot : Commits(p, ts, forked, slot)
    BY <1>3, <2>1, NewRows
  <2>2. PICK ts, forked, slot : Commits(p, ts, forked, slot)
    BY <2>0
  <2>3. /\ NextConv \in Convs \ Made
        /\ Made' = Made \cup {NextConv} /\ Used' = Used \cup CopyIds(ts)
        /\ proc[p].source \in Made
        /\ conv'[NextConv] =
             [state |-> "live", parent |-> proc[p].source, forked |-> forked, slot |-> slot,
              born |-> clock, key |-> proc[p].key,
              clean |-> conv[proc[p].source].clean /\ proc[p].source \notin wiped
                          /\ conv[proc[p].source].parent \notin wiped]
    BY <2>2, Inheritance DEF Committed
  <2>4. conv'[NextConv].parent = proc[p].source /\ conv'[NextConv].forked = forked
    BY <2>3
  <2>5. t \in CopyIds(ts)
    BY <1>3, <2>3
  <2>6. PICK u : u = CopyOf(ts, t)
    OBVIOUS
  <2>7. /\ u \in ts /\ c = NextConv /\ turn'[t].at = turn[u].at
        /\ turn'[t].origin = turn[u].origin /\ turn'[t].origin \in Used
        /\ u \in Used /\ turn[u].conv = proc[p].source /\ \A v \in Used : turn'[v] = turn[v]
    BY <2>2, <2>5, <2>6, Inheritance
  <2>8. forked # 0 /\ forked \in Used /\ turn[u].at <= turn[forked].at
    BY <2>2, <2>7, ForkTurn
  <2>9. proc[p].source # 0 /\ u \in Turns
    BY <2>3, <2>7 DEF Made, Convs, Used
  <2> QED
    BY <1>3, <2>4, <2>7, <2>8, <2>9
<1> QED
  BY <1>1, <1>2, <1>3

-----------------------------------------------------------------------------
(* What the processes have read.                                           *)

\* What was read stays right, whatever the other processes do.
LEMMA RightKept ==
  ASSUME Shape, Shape', Keeps, NEW r, Right(r)
  PROVE  Right(r)'
<1> SUFFICES ASSUME r.op # "idle" PROVE Right(r)'
  BY DEF Right
<1> DEFINE c == r.source
           t == r.turn
           before == r.before
<1>1. c \in Made /\ t \in Used /\ t \in Turns /\ turn[t].conv = c
  BY DEF Right, TurnsOf
<1>2. /\ c \in Made' /\ t \in Used' /\ turn'[t].conv = c /\ turn'[t].at = turn[t].at
      /\ turn[t].whole => turn'[t].whole
      /\ conv'[c].clean = conv[c].clean /\ conv'[c].parent = conv[c].parent
      /\ wiped \subseteq wiped'
  BY <1>1 DEF Keeps
<1>3. ASSUME r.op = "reading"
      PROVE  /\ before \subseteq {u \in TurnsOf(c)' : turn'[u].whole /\ turn'[u].at < turn'[t].at}
             /\ r.slot \in Used'
             /\ c \notin wiped' => before = {u \in Completed(c) : turn[u].at < turn[t].at}'
             /\ conv'[c].clean /\ c \notin wiped' /\ conv'[c].parent \notin wiped'
                  => {turn'[u].origin : u \in before} = Earlier(r.slot)'
  <2>1. /\ before \subseteq {u \in TurnsOf(c) : turn[u].whole /\ turn[u].at < turn[t].at}
        /\ r.slot \in Used
        /\ c \notin wiped => before = {u \in Completed(c) : turn[u].at < turn[t].at}
        /\ conv[c].clean /\ c \notin wiped /\ conv[c].parent \notin wiped
             => {turn[u].origin : u \in before} = Earlier(r.slot)
    BY <1>3 DEF Right
  <2>2. before \subseteq Used
    BY <1>1, <2>1, TurnsAreUsed DEF Shape
  <2>3. \A u \in before : /\ turn'[u].conv = turn[u].conv /\ turn'[u].at = turn[u].at
                          /\ turn'[u].origin = turn[u].origin
                          /\ turn[u].whole => turn'[u].whole
    BY <2>2 DEF Keeps
  <2>4. before \subseteq {u \in TurnsOf(c)' : turn'[u].whole /\ turn'[u].at < turn'[t].at}
    BY <1>2, <2>1, <2>3 DEF TurnsOf
  <2>5. r.slot \in Used'
    BY <2>1 DEF Keeps
  <2>6. c \notin wiped' => before = {u \in Completed(c) : turn[u].at < turn[t].at}'
    BY <1>1, <1>2, <2>1, CompletedKept
  <2>7. Earlier(r.slot)' = Earlier(r.slot)
    BY <2>1, EarlierKept
  <2>8. {turn'[u].origin : u \in before} = {turn[u].origin : u \in before}
    BY <2>3
  <2> QED
    BY <1>2, <2>1, <2>4, <2>5, <2>6, <2>7, <2>8
<1> QED
  BY <1>1, <1>2, <1>3 DEF Right, TurnsOf

\* A message is the first of its own in a branch of its own: what comes before it
\* is what the branch has inherited.
LEMMA FirstFreshIsFirst ==
  ASSUME Shape, LinkInv, NEW c \in Made, NEW t \in Turns, FirstFresh(c, t),
         conv[c].parent # 0, c \notin wiped, conv[c].parent \notin wiped
  PROVE  {u \in Completed(c) : turn[u].at < turn[t].at} = Inherited(c)
<1> USE DEF Shape
<1>1. TurnsOf(c) \subseteq Used /\ t \in Used /\ turn[t].at \in Nat
  BY TurnsAreUsed, Numbers DEF FirstFresh, Rows
<1>2. conv[c].born \in Nat /\ \A u \in Used : turn[u].at \in Nat
  BY Numbers DEF Made, Used
<1>3. Boundary(c) \in Nat /\ Boundary(c) <= conv[c].born
  BY <1>2 DEF Boundary, ParentInv
<1>4. ASSUME NEW u \in Completed(c), turn[u].at < turn[t].at PROVE u \in Inherited(c)
  <2>1. u \in Used /\ u \in Rows(c) /\ turn[u].conv = c /\ u \in TurnsOf(c)
    BY <1>1, <1>4 DEF Completed, Rows, TurnsOf, HasRow
  <2>2. turn[u].origin = u => turn[u].at > Boundary(c)
    BY <1>2, <1>3, <2>1 DEF LinkInv
  <2>3. turn[u].at > Boundary(c) => turn[t].at <= turn[u].at
    BY <2>1 DEF FirstFresh
  <2> QED
    BY <1>1, <1>2, <1>4, <2>1, <2>2, <2>3 DEF Inherited
<1>5. ASSUME NEW u \in Inherited(c) PROVE u \in Completed(c) /\ turn[u].at < turn[t].at
  <2>1. u \in Used /\ turn[u].conv = c /\ turn[u].origin # u
    BY <1>1 DEF Inherited, TurnsOf
  <2>2. turn[u].status = "completed"
    BY <2>1 DEF OriginInv, TurnInv
  <2>3. conv[c].forked # 0 /\ turn[u].at <= turn[conv[c].forked].at
    BY <2>1 DEF LinkInv
  <2>4. HasRow(conv[c].forked) /\ conv[c].forked \in Used
    BY <2>3 DEF ParentInv, TurnInv, HasRow
  <2>5. Boundary(c) = turn[conv[c].forked].at
    BY <2>3, <2>4 DEF Boundary
  <2>6. turn[t].at > Boundary(c)
    BY DEF FirstFresh
  <2> QED
    BY <1>1, <1>2, <2>1, <2>2, <2>3, <2>4, <2>5, <2>6 DEF Completed, Inherited
<1>6. \A u \in Inherited(c) : u \in Turns
  BY DEF Inherited, TurnsOf
<1> QED
  BY <1>4, <1>5

\* The slot that is read anchors what is read before the edited turn.
LEMMA SlotIsRight ==
  ASSUME Shape, LinkInv, SlotInv, NEW c \in Made, NEW t \in TurnsOf(c)
  PROVE  /\ Slot(c, t) \in Used
         /\ conv[c].clean /\ c \notin wiped /\ conv[c].parent \notin wiped
              => {turn[u].origin : u \in {v \in Completed(c) : turn[v].at < turn[t].at}}
                   = Earlier(Slot(c, t))
<1> USE DEF Shape
<1>1. TurnsOf(c) \subseteq Used /\ t \in Used /\ turn[t].conv = c /\ t \in Turns
  BY TurnsAreUsed DEF TurnsOf
<1>2. CASE conv[c].slot # 0 /\ FirstFresh(c, t)
  <2>1. Slot(c, t) = conv[c].slot /\ conv[c].slot \in Used /\ conv[c].parent # 0
    BY <1>2 DEF Slot, ParentInv
  <2>2. conv[c].clean => Past(c) = Earlier(conv[c].slot)
    BY <1>2 DEF SlotInv
  <2>3. c \notin wiped /\ conv[c].parent \notin wiped
          => {u \in Completed(c) : turn[u].at < turn[t].at} = Inherited(c)
    BY <1>1, <1>2, <2>1, FirstFreshIsFirst
  <2> QED
    BY <2>1, <2>2, <2>3 DEF Past
<1>3. CASE ~ (conv[c].slot # 0 /\ FirstFresh(c, t))
  <2>1. Slot(c, t) = t
    BY <1>3 DEF Slot
  <2>2. c \notin wiped => \A u \in TurnsOf(c) : turn[u].whole <=> turn[u].status = "completed"
    BY <1>1 DEF TurnInv, TurnsOf
  <2>3. c \notin wiped => {v \in Completed(c) : turn[v].at < turn[t].at}
                            = {v \in TurnsOf(c) : turn[v].whole /\ turn[v].at < turn[t].at}
    BY <2>2 DEF Completed
  <2>4. Earlier(t) = {turn[u].origin : u \in {v \in TurnsOf(c) : turn[v].whole
                                                   /\ turn[v].at < turn[t].at}}
    BY <1>1 DEF Earlier
  <2> QED
    BY <1>1, <2>1, <2>3, <2>4
<1> QED
  BY <1>2, <1>3

\* What the processes have read stays right, and what they read is.
LEMMA ProcStep ==
  ASSUME Shape, Shape', Keeps, LinkInv, SlotInv, ProcInv, [Next]_vars
  PROVE  ProcInv'
<1> SUFFICES ASSUME NEW q \in Procs, NEW r, r = proc'[q] PROVE Right(r)'
  <2>1. SUFFICES ASSUME NEW q \in Procs PROVE Right(proc[q])'
    BY DEF ProcInv
  <2>2. PICK r : r = proc'[q]
    OBVIOUS
  <2> QED
    BY <2>2 DEF Right
<1>1. CASE r = proc[q] \/ r.op = "idle"
  <2>1. Right(r)
    BY <1>1 DEF ProcInv, Right
  <2> QED
    BY <2>1, RightKept
<1>2. ASSUME UNCHANGED tables, Right(r) PROVE Right(r)'
  BY <1>2, RightKept
<1>3. ASSUME NEW p \in Procs, NEW c \in Convs, NEW t \in Turns, NEW k,
             CheckFork(p, c, t, k) \/ CheckEdit(p, c, t, k)
      PROVE  Right(r)'
  <2>1. PICK op \in {"forking", "editing"} :
          /\ proc' = [proc EXCEPT
                ![p] = [Idle EXCEPT !.op = op, !.source = c, !.turn = t, !.key = k]]
          /\ op = "forking" => t \in Completed(c)
    BY <1>3 DEF CheckFork, CheckEdit
  <2>2. c \in Made /\ t \in TurnsOf(c) \cap Used /\ UNCHANGED tables
    BY <1>3 DEF CheckFork, CheckEdit, Live, Made, Completed, Rows, TurnsOf, Used, HasRow, tables
  <2>3. op = "forking" => turn[t].whole
    BY <2>1, <2>2 DEF Shape, TurnInv, Completed
  <2>4. CASE q = p
    <3>1. r.op = op /\ r.source = c /\ r.turn = t
      BY <2>1, <2>4 DEF Idle, Shape, TypeOK
    <3>2. Right(r)
      BY <2>1, <2>2, <2>3, <3>1 DEF Right
    <3> QED
      BY <1>2, <2>2, <3>2
  <2>5. CASE q # p
    BY <1>1, <2>1, <2>5 DEF Shape, TypeOK
  <2> QED
    BY <2>4, <2>5
<1>4. ASSUME NEW p \in Procs, ReadBefore(p) PROVE Right(r)'
  <2>1. CASE q = p
    <3>1. PICK c, t : c = proc[p].source /\ t = proc[p].turn
      OBVIOUS
    <3>2. PICK s : s = Slot(c, t)
      OBVIOUS
    <3>3. PICK before : before = {u \in Completed(c) : turn[u].at < turn[t].at}
      OBVIOUS
    <3>4. /\ proc[p].op = "editing" /\ UNCHANGED tables
          /\ proc' = [proc EXCEPT ![p].op = "reading", ![p].before = before, ![p].slot = s]
      BY <1>4, <3>1, <3>2, <3>3 DEF ReadBefore, tables
    <3>5. /\ r.op = "reading" /\ r.source = c /\ r.turn = t /\ r.before = before /\ r.slot = s
      BY <2>1, <3>1, <3>4, Types DEF Shape, ProcRows
    <3>6. c \in Made /\ t \in TurnsOf(c) \cap Used
      BY <3>1, <3>4 DEF ProcInv, Right
    <3>7. s \in Used /\ (conv[c].clean /\ c \notin wiped /\ conv[c].parent \notin wiped
                           => {turn[u].origin : u \in before} = Earlier(s))
      BY <3>2, <3>3, <3>6, SlotIsRight
    <3>8. before \subseteq {u \in TurnsOf(c) : turn[u].whole /\ turn[u].at < turn[t].at}
      BY <3>3, <3>6, TurnsAreUsed DEF Completed, Shape, TurnInv
    <3>9. Right(r)
      BY <3>3, <3>5, <3>6, <3>7, <3>8 DEF Right
    <3> QED
      BY <1>2, <3>4, <3>9
  <2>2. CASE q # p
    BY <1>1, <1>4, <2>2 DEF ReadBefore, Shape, TypeOK
  <2> QED
    BY <2>1, <2>2
<1>5. ASSUME NEW p \in Procs, CommitFork(p) \/ CommitEdit(p) \/ CommitAborts(p) PROVE Right(r)'
  <2>1. proc' = [proc EXCEPT ![p] = Idle]
    BY <1>5 DEF CommitFork, CommitEdit, CommitAborts, AddChild
  <2>2. r = proc[q] \/ r.op = "idle"
    BY <2>1 DEF Shape, TypeOK, Idle
  <2> QED
    BY <1>1, <2>2
<1>6. CASE proc' = proc
  BY <1>1, <1>6
<1> QED
  BY <1>3, <1>4, <1>5, <1>6
     DEF Next, Branch, vars, StartTurn, EndTurn, DeleteConversation, ClearConversation, Wipe

-----------------------------------------------------------------------------
(* Branches that are made.                                                 *)

\* A new branch has inherited the turns that were copied.
LEMMA ChildPast ==
  ASSUME Shape, ProcInv, NEW p \in Procs, NEW ts, NEW forked, NEW slot,
         Commits(p, ts, forked, slot), NEW child, child = NextConv
  PROVE  Past(child)' = {turn[u].origin : u \in ts}
<1> DEFINE ids == CopyIds(ts)
<1>1. /\ child \in Convs \ Made /\ child # 0 /\ Used' = Used \cup ids
      /\ \A t \in Turns \ ids : turn'[t] = turn[t]
      /\ \A u \in ts : \E t \in ids : CopyOf(ts, t) = u
  <2>1. Committed(p, ts, forked, slot)
    BY Inheritance
  <2>2. NextConv \in Convs \ Made
    BY <2>1 DEF Committed
  <2>3. child # 0
    BY <2>2 DEF Convs
  <2> QED
    BY <2>1, <2>2, <2>3 DEF Committed
<1>2. \A t \in ids : /\ t \in Turns \ Used /\ CopyOf(ts, t) \in ts /\ turn'[t].conv = child
                     /\ turn'[t].origin = turn[CopyOf(ts, t)].origin /\ turn'[t].origin \in Used
  BY Inheritance
<1>3. \A t \in Turns \ ids : turn'[t].conv # child
  <2>1. \A t \in Turns : turn[t].conv # child
    BY <1>1 DEF Shape, TurnInv, Blank, NoTurn
  <2> QED
    BY <1>1, <2>1
<1> HIDE DEF ids
<1>4. Inherited(child)' = ids
  BY <1>2, <1>3 DEF Inherited, TurnsOf
<1>5. \A t \in ids : turn'[t].origin \in {turn[u].origin : u \in ts}
  BY <1>2
<1>6. \A u \in ts : \E t \in ids : turn'[t].origin = turn[u].origin
  BY <1>1, <1>2
<1> QED
  BY <1>4, <1>5, <1>6 DEF Past

\* The versions of a slot keep the past of the message they are versions of.
LEMMA SlotStep ==
  ASSUME Shape, Shape', Keeps, ProcInv, SlotInv, [Next]_vars
  PROVE  SlotInv'
<1> SUFFICES ASSUME NEW c \in Made', conv'[c].clean, NEW s, s = conv'[c].slot, s # 0
             PROVE  Past(c)' = Earlier(s)'
  BY DEF SlotInv
<1>1. CASE c \in Made
  <2>1. s = conv[c].slot /\ conv[c].clean /\ s \in Used
    BY <1>1 DEF Keeps, Shape, ParentInv
  <2> QED
    BY <1>1, <2>1, PastKept, EarlierKept DEF SlotInv
<1>2. CASE c \notin Made
  <2>0. PICK p \in Procs : \E ts, forked, slot : Commits(p, ts, forked, slot)
    BY <1>2, NewRows
  <2>1. PICK ts, forked, slot : Commits(p, ts, forked, slot)
    BY <2>0
  <2>2. PICK from : from = proc[p].source
    OBVIOUS
  <2>3. /\ NextConv \in Convs \ Made /\ Made' = Made \cup {NextConv}
        /\ conv'[NextConv] =
             [state |-> "live", parent |-> from, forked |-> forked, slot |-> slot,
              born |-> clock, key |-> proc[p].key,
              clean |-> conv[from].clean /\ from \notin wiped /\ conv[from].parent \notin wiped]
    BY <2>1, <2>2, Inheritance DEF Committed
  <2>4. c = NextConv
    BY <1>2, <2>3
  <2>5. s = slot /\ conv[from].clean /\ from \notin wiped /\ conv[from].parent \notin wiped
    <3> DEFINE kept == conv[from].clean /\ from \notin wiped /\ conv[from].parent \notin wiped
    <3>1. conv'[c].slot = slot /\ conv'[c].clean = kept
      <4> HIDE DEF kept
      <4>1. conv'[c] = [state |-> "live", parent |-> from, forked |-> forked, slot |-> slot,
                        born |-> clock, key |-> proc[p].key, clean |-> kept]
        BY <2>3, <2>4 DEF kept
      <4> QED
        BY <4>1
    <3>2. kept
      BY <3>1
    <3> QED
      BY <3>1, <3>2
  <2>6. Past(c)' = {turn[u].origin : u \in ts}
    BY <2>1, <2>4, ChildPast
  <2>7. proc[p].op = "reading" /\ s = proc[p].slot /\ ts = proc[p].before
    BY <2>1, <2>5 DEF Commits
  <2>8. {turn[u].origin : u \in ts} = Earlier(s) /\ s \in Used
    BY <2>2, <2>5, <2>7 DEF ProcInv, Right
  <2> QED
    BY <2>6, <2>8, EarlierKept
<1> QED
  BY <1>1, <1>2

\* What a branch has inherited stays what was completed up to its fork turn.
LEMMA InheritStep ==
  ASSUME Shape, Shape', Keeps, ProcInv, InheritsUpToTheCut, [Next]_vars
  PROVE  InheritsUpToTheCut'
<1> SUFFICES ASSUME NEW c \in Made', conv'[c].clean,
                    NEW d, d = conv'[c].parent, d # 0, d \notin wiped',
                    NEW f, f = conv'[c].forked
             PROVE  Past(c)' = {turn'[u].origin : u \in {v \in Completed(d)' :
                                  f # 0 /\ turn'[v].at <= turn'[f].at}}
  BY DEF InheritsUpToTheCut
<1>1. CASE c \in Made
  <2>1. /\ conv[c].parent = d /\ conv[c].forked = f /\ conv[c].clean /\ d \notin wiped
    BY <1>1 DEF Keeps
  <2>2. Past(c)' = {turn[u].origin : u \in {v \in Completed(d) :
                      f # 0 /\ turn[v].at <= turn[f].at}}
    BY <1>1, <2>1, PastKept DEF InheritsUpToTheCut
  <2>3. CASE f = 0
    BY <2>2, <2>3
  <2>4. CASE f # 0
    <3>1. d \in Made /\ f \in Used /\ turn[f].conv = d /\ turn[f].whole
      BY <1>1, <2>1, <2>4 DEF Shape, ParentInv
    <3>2. turn'[f].at = turn[f].at
      BY <3>1 DEF Keeps
    <3>3. {u \in Completed(d) : turn[u].at <= turn[f].at}'
            = {u \in Completed(d) : turn[u].at <= turn[f].at}
      BY <3>1, CompletedKept
    <3>4. \A u \in Completed(d) : turn'[u].origin = turn[u].origin
      BY <3>1, TurnsAreUsed DEF Shape, Keeps, Completed
    <3> QED
      BY <2>2, <2>4, <3>2, <3>3, <3>4
  <2> QED
    BY <2>3, <2>4
<1>2. CASE c \notin Made
  <2>0. PICK p \in Procs : \E ts, forked, slot : Commits(p, ts, forked, slot)
    BY <1>2, NewRows
  <2>1. PICK ts, forked, slot : Commits(p, ts, forked, slot)
    BY <2>0
  <2>2. PICK from : from = proc[p].source
    OBVIOUS
  <2>3. /\ NextConv \in Convs \ Made /\ Made' = Made \cup {NextConv} /\ from \in Made
        /\ Used' = Used \cup CopyIds(ts)
        /\ \A t \in Turns \ CopyIds(ts) : turn'[t] = turn[t]
        /\ wiped' = wiped
        /\ conv'[NextConv] =
             [state |-> "live", parent |-> from, forked |-> forked, slot |-> slot,
              born |-> clock, key |-> proc[p].key,
              clean |-> conv[from].clean /\ from \notin wiped /\ conv[from].parent \notin wiped]
    BY <2>1, <2>2, Inheritance DEF Committed
  <2>4. c = NextConv
    BY <1>2, <2>3
  <2>5. d = from /\ f = forked /\ d \notin wiped
    BY <2>3, <2>4
  <2>6. Past(c)' = {turn[u].origin : u \in ts}
    BY <2>1, <2>4, ChildPast
  <2>7. /\ \A t \in Used : turn'[t] = turn[t]
        /\ \A t \in CopyIds(ts) : turn'[t].conv = NextConv
        /\ \A u \in ts : u \in Used
    BY <2>1, Inheritance
  <2>8. TurnsOf(d) \subseteq Used
    BY <2>3, <2>5, TurnsAreUsed DEF Shape
  <2>9. TurnsOf(d)' = TurnsOf(d)
    BY <2>3, <2>5, <2>7, <2>8 DEF TurnsOf
  <2>10. Completed(d)' = Completed(d) /\ \A u \in Completed(d) : turn'[u] = turn[u]
    BY <2>7, <2>8, <2>9 DEF Completed
  <2>11. ts = {v \in Completed(d) : f # 0 /\ turn[v].at <= turn[f].at}
    <3>1. CASE proc[p].op = "forking" /\ forked = proc[p].turn
                 /\ ts = UpToTheTurn(proc[p].source, proc[p].turn)
      <4>1. forked \in Used /\ forked # 0
        BY <2>1, <3>1, Inheritance DEF Used, Turns
      <4> QED
        BY <2>2, <2>5, <3>1, <4>1 DEF UpToTheTurn
    <3>2. CASE proc[p].op = "reading" /\ forked = Latest(ts) /\ ts = proc[p].before
      <4>1. ts = {u \in Completed(d) : turn[u].at < turn[proc[p].turn].at}
              /\ proc[p].turn \in Used
        BY <2>2, <2>5, <3>2 DEF ProcInv, Right
      <4>2. CASE ts = {}
        <5>1. f = 0
          BY <2>5, <3>2, <4>2, LatestIsLast DEF Shape
        <5> QED
          BY <4>2, <5>1
      <4>3. CASE ts # {}
        <5>1. f \in ts /\ (\A v \in ts : turn[v].at <= turn[f].at) /\ f # 0
          <6>1. ts \in SUBSET Turns /\ 0 \notin Turns
            BY <2>7 DEF Used, Turns
          <6> QED
            BY <2>5, <3>2, <4>3, <6>1, LatestIsLast DEF Shape
        <5>2. turn[f].at < turn[proc[p].turn].at
          BY <4>1, <5>1
        <5>3. turn[proc[p].turn].at \in Nat /\ \A u \in Used : turn[u].at \in Nat
          BY <4>1, Numbers DEF Shape, Used
        <5>4. Completed(d) \subseteq Used /\ f \in Used
          BY <2>7, <2>8, <5>1 DEF Completed
        <5> QED
          BY <4>1, <5>1, <5>2, <5>3, <5>4
      <4> QED
        BY <4>2, <4>3
    <3> QED
      BY <2>1, <3>1, <3>2 DEF Commits
  <2>12. f # 0 => turn'[f].at = turn[f].at
    BY <2>1, <2>5, <2>7, ForkTurn
  <2> QED
    BY <2>6, <2>10, <2>11, <2>12
<1> QED
  BY <1>1, <1>2

-----------------------------------------------------------------------------
(* The theorems.                                                           *)

\* The invariant is inductive.
THEOREM Invariance == Spec => []IInv
<1>1. Init => IInv
  BY InitInv
<1>2. IInv /\ [Next]_vars => IInv'
  <2> SUFFICES ASSUME IInv, [Next]_vars PROVE IInv'
    OBVIOUS
  <2>1. Shape /\ LinkInv /\ ProcInv /\ SlotInv /\ InheritsUpToTheCut
    BY DEF IInv
  <2>2. Shape' /\ Keeps
    BY <2>1, ShapeStep, KeepsStep
  <2>3. LinkInv' /\ ProcInv'
    BY <2>1, <2>2, LinkStep, ProcStep
  <2>4. SlotInv' /\ InheritsUpToTheCut'
    BY <2>1, <2>2, SlotStep, InheritStep
  <2> QED
    BY <2>2, <2>3, <2>4 DEF IInv
<1> QED
  BY <1>1, <1>2, PTL DEF Spec

\* The tables hold rows, and the processes hold what they have read.
THEOREM TypeCorrect == Spec => []TypeOK
<1>1. IInv => TypeOK
  BY DEF IInv, Shape
<1> QED
  BY <1>1, Invariance, PTL

\* No conversation shows a completed turn without its answer, whatever another
\* process deletes between the reads of a branch and its commit.
THEOREM NoHalfTurnsHolds == Spec => []NoHalfTurns
<1>1. IInv => NoHalfTurns
  BY DEF IInv, Shape, TurnInv, NoHalfTurns, Completed, TurnsOf, Used
<1> QED
  BY <1>1, Invariance, PTL

\* A branch holds what was completed up to its fork turn, then and later.
THEOREM InheritsUpToTheCutHolds == Spec => []InheritsUpToTheCut
<1>1. IInv => InheritsUpToTheCut
  BY DEF IInv
<1> QED
  BY <1>1, Invariance, PTL

\* Versions of one message come after the same past, through edits of edits.
THEOREM SameSlotSamePastHolds == Spec => []SameSlotSamePast
<1>1. IInv => SameSlotSamePast
  BY DEF IInv, SlotInv, SameSlotSamePast
<1> QED
  BY <1>1, Invariance, PTL

\* A branch is made after its parent: walks up the family come to an end.
LEMMA ParentsComeFirst ==
  ASSUME Shape, NEW c \in Convs, conv[c].parent # 0
  PROVE  conv[c].parent \in 1 .. c - 1
<1>1. c \in Made
  BY DEF Shape, Blank, NoConv
<1>2. conv[c].parent \in Convs /\ conv[c].parent < c
  BY <1>1 DEF Shape, ParentInv, Made
<1> QED
  BY <1>2, BoundsAreNat DEF Convs

\* The walk that collects the ancestors of a conversation.
LEMMA AncestorsWalk ==
  ASSUME Shape
  PROVE  \A c \in Convs : Ancestors[c] =
           IF conv[c].parent = 0 THEN {} ELSE {conv[c].parent} \cup Ancestors[conv[c].parent]
<1> DEFINE Body(f, c) == IF conv[c].parent = 0 THEN {}
                         ELSE {conv[c].parent} \cup f[conv[c].parent]
           Fits(n) == \E f : f = [c \in 1 .. n |-> Body(f, c)]
           Bad == {n \in 0 .. MaxConvs : ~ Fits(n)}
<1>1. ASSUME NEW m \in Bad, \A n \in Bad : m <= n PROVE FALSE
  <2>1. m # 0
    <3>1. [c \in 1 .. 0 |-> {}] = [c \in 1 .. 0 |-> Body([d \in 1 .. 0 |-> {}], c)]
      OBVIOUS
    <3> QED
      BY <3>1
  <2>2. m \in 1 .. MaxConvs /\ Fits(m - 1)
    <3> HIDE DEF Fits
    <3>1. m \in 1 .. MaxConvs /\ m - 1 \in 0 .. MaxConvs /\ ~ (m <= m - 1)
      BY <2>1, BoundsAreNat
    <3>2. m - 1 \notin Bad
      <4> HIDE DEF Bad
      <4> QED
        BY <1>1, <3>1
    <3> QED
      BY <3>1, <3>2
  <2>3. PICK g : g = [c \in 1 .. m - 1 |-> Body(g, c)]
    BY <2>2
  <2> DEFINE f == [c \in 1 .. m |-> IF c = m THEN Body(g, m) ELSE g[c]]
  <2>4. ASSUME NEW c \in 1 .. m PROVE f[c] = Body(f, c)
    <3> HIDE DEF Body, Fits, Bad, f
    <3>1. c \in Convs
      BY <2>2, BoundsAreNat DEF Convs
    <3>2. conv[c].parent # 0 => conv[c].parent \in 1 .. c - 1
      BY <3>1, ParentsComeFirst
    <3>3. conv[c].parent # 0 => f[conv[c].parent] = g[conv[c].parent]
      BY <2>2, <3>2 DEF f
    <3>4. c # m => c \in 1 .. m - 1
      BY <2>2
    <3>5. f[c] = Body(g, c)
      BY <2>3, <3>4 DEF f
    <3>6. Body(g, c) = Body(f, c)
      BY <3>3 DEF Body
    <3> QED
      BY <3>5, <3>6
  <2>5. f = [c \in 1 .. m |-> Body(f, c)]
    BY <2>4
  <2> QED
    BY <2>5
<1>2. Bad = {}
  <2>1. Bad \in SUBSET Nat
    BY BoundsAreNat
  <2> HIDE DEF Bad
  <2> QED
    BY <1>1, <2>1, LeastNumber
<1>3. \E f : f = [c \in Convs |-> Body(f, c)]
  <2>1. Fits(MaxConvs)
    <3> HIDE DEF Fits
    <3> QED
      BY <1>2, BoundsAreNat
  <2> QED
    BY <2>1 DEF Convs
<1>4. Ancestors = [c \in Convs |-> Body(Ancestors, c)]
  BY <1>3 DEF Ancestors
<1>5. \A c \in Convs : Ancestors[c] = Body(Ancestors, c)
  <2> HIDE DEF Body
  <2> QED
    BY <1>4
<1> QED
  BY <1>5

\* The walk that collects the lineage of a conversation.
LEMMA LineageWalk ==
  ASSUME Shape
  PROVE  \A c \in Convs : Lineage[c] =
           {<<c, Never>>} \cup
             IF Ends(c) THEN {}
             ELSE {<<conv[c].parent, Cut(c)>>} \cup
                  {e \in Lineage[conv[c].parent] : e[1] # conv[c].parent}
<1> DEFINE Body(f, c) == {<<c, Never>>} \cup
                           IF Ends(c) THEN {}
                           ELSE {<<conv[c].parent, Cut(c)>>} \cup
                                {e \in f[conv[c].parent] : e[1] # conv[c].parent}
           Fits(n) == \E f : f = [c \in 1 .. n |-> Body(f, c)]
           Bad == {n \in 0 .. MaxConvs : ~ Fits(n)}
<1>1. ASSUME NEW m \in Bad, \A n \in Bad : m <= n PROVE FALSE
  <2>1. m # 0
    <3>1. [c \in 1 .. 0 |-> {}] = [c \in 1 .. 0 |-> Body([d \in 1 .. 0 |-> {}], c)]
      <4> HIDE DEF Body
      <4> QED
        OBVIOUS
    <3> QED
      BY <3>1
  <2>2. m \in 1 .. MaxConvs /\ Fits(m - 1)
    <3> HIDE DEF Fits
    <3>1. m \in 1 .. MaxConvs /\ m - 1 \in 0 .. MaxConvs /\ ~ (m <= m - 1)
      BY <2>1, BoundsAreNat
    <3>2. m - 1 \notin Bad
      <4> HIDE DEF Bad
      <4> QED
        BY <1>1, <3>1
    <3> QED
      BY <3>1, <3>2
  <2>3. PICK g : g = [c \in 1 .. m - 1 |-> Body(g, c)]
    BY <2>2
  <2> DEFINE f == [c \in 1 .. m |-> IF c = m THEN Body(g, m) ELSE g[c]]
  <2>4. ASSUME NEW c \in 1 .. m PROVE f[c] = Body(f, c)
    <3> HIDE DEF Body, Fits, Bad, f
    <3>1. c \in Convs
      BY <2>2, BoundsAreNat DEF Convs
    <3>2. ~ Ends(c) => conv[c].parent \in 1 .. c - 1
      BY <3>1, ParentsComeFirst DEF Ends
    <3>3. ~ Ends(c) => f[conv[c].parent] = g[conv[c].parent]
      BY <2>2, <3>2 DEF f
    <3>4. c # m => c \in 1 .. m - 1
      BY <2>2
    <3>5. f[c] = Body(g, c)
      BY <2>3, <3>4 DEF f
    <3>6. Body(g, c) = Body(f, c)
      BY <3>3 DEF Body
    <3> QED
      BY <3>5, <3>6
  <2>5. f = [c \in 1 .. m |-> Body(f, c)]
    <3> HIDE DEF Body
    <3> QED
      BY <2>4
  <2> QED
    BY <2>5
<1>2. Bad = {}
  <2>1. Bad \in SUBSET Nat
    BY BoundsAreNat
  <2> HIDE DEF Bad
  <2> QED
    BY <1>1, <2>1, LeastNumber
<1>3. \E f : f = [c \in Convs |-> Body(f, c)]
  <2>1. Fits(MaxConvs)
    <3> HIDE DEF Fits
    <3> QED
      BY <1>2, BoundsAreNat
  <2> QED
    BY <2>1 DEF Convs
<1>4. Lineage = [c \in Convs |-> Body(Lineage, c)]
  BY <1>3 DEF Lineage
<1>5. \A c \in Convs : Lineage[c] = Body(Lineage, c)
  <2> HIDE DEF Body
  <2> QED
    BY <1>4
<1> QED
  BY <1>5

\* The lineage of a conversation reaches the turns that its turns go back to.
Reaches(c) ==
  (\A a \in Ancestors[c] : conv[a].state = "live") =>
    \A t \in TurnsOf(c) : \E e \in Lineage[c] :
      turn[turn[t].origin].conv = e[1] /\ turn[t].at <= e[2]

\* One branch further down, it still does.
LEMMA ReachStep ==
  ASSUME Shape, LinkInv, NEW c \in Made, \A d \in Made : d < c => Reaches(d)
  PROVE  Reaches(c)
<1> USE DEF Shape
<1> SUFFICES ASSUME \A a \in Ancestors[c] : conv[a].state = "live", NEW t \in TurnsOf(c)
             PROVE  \E e \in Lineage[c] :
                      turn[turn[t].origin].conv = e[1] /\ turn[t].at <= e[2]
  BY DEF Reaches
<1>1. c \in Convs /\ t \in Used /\ t \in Turns /\ turn[t].conv = c
  BY TurnsAreUsed DEF Made, TurnsOf
<1>2. CASE turn[t].origin = t
  <2>1. <<c, Never>> \in Lineage[c]
    BY <1>1, LineageWalk
  <2>2. turn[t].at <= Never
    BY <1>1, BoundsAreNat DEF TypeOK, Never
  <2> QED
    BY <1>1, <1>2, <2>1, <2>2
<1>3. CASE turn[t].origin # t
  <2>1. PICK p, f : p = conv[c].parent /\ f = conv[c].forked
    OBVIOUS
  <2>2. p # 0 /\ f # 0 /\ turn[t].at <= turn[f].at
    BY <1>1, <1>3, <2>1 DEF LinkInv
  <2>3. PICK u \in TurnsOf(p) : turn[u].origin = turn[t].origin
    BY <1>1, <1>3, <2>1 DEF LinkInv
  <2>4. /\ p \in Made /\ p < c /\ f \in Used /\ turn[f].at <= conv[c].born
    BY <2>1, <2>2 DEF ParentInv
  <2>5. u \in Used /\ turn[u].at = turn[t].at
    <3>1. u \in Used
      BY <2>4, TurnsAreUsed
    <3> QED
      BY <1>1, <2>3, <3>1 DEF OriginInv
  <2>6. Ancestors[c] = {p} \cup Ancestors[p]
    BY <1>1, <2>1, <2>2, AncestorsWalk
  <2>7. conv[p].state = "live" /\ Reaches(p) /\ \A a \in Ancestors[p] : conv[a].state = "live"
    BY <2>4, <2>6
  <2>8. PICK e \in Lineage[p] : turn[turn[t].origin].conv = e[1] /\ turn[t].at <= e[2]
    BY <2>3, <2>5, <2>7 DEF Reaches
  <2>9. Lineage[c] = {<<c, Never>>} \cup {<<p, Cut(c)>>} \cup {x \in Lineage[p] : x[1] # p}
    <3>1. ~ Ends(c)
      BY <2>1, <2>2, <2>7 DEF Ends
    <3> QED
      BY <1>1, <2>1, <3>1, LineageWalk
  <2>10. turn[t].at <= Cut(c)
    <3>1. turn[t].at \in Nat /\ turn[f].at \in Nat /\ conv[c].born \in Nat
      BY <1>1, <2>4, Numbers DEF Used
    <3> QED
      BY <2>1, <2>2, <2>4, <3>1 DEF Cut
  <2>11. CASE e[1] = p
    <3>1. <<p, Cut(c)>> \in Lineage[c]
      BY <2>9
    <3> QED
      BY <2>8, <2>10, <2>11, <3>1
  <2>12. CASE e[1] # p
    BY <2>8, <2>9, <2>12
  <2> QED
    BY <2>11, <2>12
<1> QED
  BY <1>2, <1>3

\* The memory changes no table: with it, the tables go through the same steps.
LEMMA MemoryStep == MemoryNext \/ UNCHANGED <<vars, memoryVars>> => [Next]_vars
  BY DEF MemoryNext, WipeConversation, CompleteTurn, RememberTurn, LoseJob, ForgetEpisode, Next

\* So the tables keep their inductive invariant.
LEMMA MemoryInvariance == MemorySpec => []IInv
<1>1. MemorySpec => Spec
  <2>1. MemoryInit => Init
    BY DEF MemoryInit
  <2>2. [MemoryNext]_<<vars, memoryVars>> => [Next]_vars
    BY MemoryStep
  <2> QED
    BY <2>1, <2>2, PTL DEF MemorySpec, Spec
<1> QED
  BY <1>1, Invariance, PTL

\* Only turns that were lived and completed are remembered, or wait to be.
THEOREM MemoryTypeCorrect == MemorySpec => []MemoryTypeOK
<1> DEFINE lived == {t \in Turns : turn[t].origin = t /\ turn[t].whole}
           Lived == jobs \cup memory \subseteq lived
<1>1. MemoryInit => Lived
  BY DEF MemoryInit
<1>2. IInv /\ Lived /\ [MemoryNext]_<<vars, memoryVars>> => Lived'
  <2> SUFFICES ASSUME IInv, Lived, [MemoryNext]_<<vars, memoryVars>> PROVE Lived'
    OBVIOUS
  <2> USE DEF IInv
  <2>1. Keeps
    BY MemoryStep, KeepsStep
  <2>2. lived \subseteq lived'
    <3>1. \A t \in lived : t \in Used
      BY DEF Shape, Blank, NoTurn
    <3> QED
      BY <2>1, <3>1 DEF Keeps
  <2>3. ASSUME NEW p \in Procs, NEW t \in Turns, CompleteTurn(p, t) PROVE t \in lived'
    <3>1. turn'[t].whole /\ turn'[t].origin = turn[t].origin /\ t \in Used
          /\ turn[t].status = "running"
      <4>1. EndTurn(p, t, "completed") /\ TypeOK
        BY <2>3 DEF CompleteTurn, Shape
      <4> DEFINE done == [status |-> "completed", conv |-> turn[t].conv, at |-> turn[t].at,
                          whole |-> TRUE, origin |-> turn[t].origin]
      <4>2. turn' = [turn EXCEPT ![t].status = "completed", ![t].whole = TRUE]
            /\ turn[t].status = "running"
        BY <4>1 DEF EndTurn
      <4>3. turn'[t] = done
        <5>1. turn \in [Turns -> TurnRows] /\ t \in Turns
          BY <2>3, <4>1, Types
        <5>2. turn'[t] = [[turn[t] EXCEPT !.status = "completed"] EXCEPT !.whole = TRUE]
          <6> HIDE DEF lived, Lived
          <6> QED
            BY <4>2, <5>1
        <5> HIDE DEF lived, Lived
        <5> QED
          BY <5>1, <5>2 DEF TurnRows
      <4>4. done.whole /\ done.origin = turn[t].origin
        BY Zenon
      <4>5. t \in Used
        BY <4>2 DEF Used
      <4> HIDE DEF done
      <4> QED
        BY <4>2, <4>3, <4>4, <4>5, Zenon
    <3>2. turn[t].origin = t
      BY <3>1 DEF Shape, TurnInv, OriginInv
    <3> QED
      BY <3>1, <3>2
  <2>4. CASE UNCHANGED <<vars, memoryVars>>
    BY <2>2, <2>4 DEF memoryVars
  <2>5. jobs' \cup memory' \subseteq lived'
    <3> HIDE DEF lived
    <3> QED
      BY <2>2, <2>3, <2>4 DEF MemoryNext, WipeConversation, CompleteTurn, QueueJob, RememberTurn, LoseJob,
                              ForgetEpisode, memoryVars
  <2> QED
    BY <2>5
<1>3. IInv /\ Lived => MemoryTypeOK
  BY DEF IInv, Shape, MemoryTypeOK
<1> HIDE DEF Lived
<1> QED
  BY <1>1, <1>2, <1>3, MemoryInvariance, PTL DEF MemorySpec

\* No episode of its past is hidden from a branch, at any depth and whenever it was
\* written, unless a conversation between the branch and the origin was deleted.
THEOREM SeesItsPastHolds == MemorySpec => []SeesItsPast
<1>1. IInv => SeesItsPast
  <2> SUFFICES ASSUME IInv PROVE SeesItsPast
    OBVIOUS
  <2> USE DEF IInv, Shape
  <2> DEFINE Bad == {c \in Made : ~ Reaches(c)}
  <2>1. Bad = {}
    <3>1. ASSUME NEW m \in Bad, \A c \in Bad : m <= c PROVE FALSE
      <4>1. \A d \in Made : d \in Nat
        BY Numbers DEF Made
      <4>2. \A d \in Made : d < m => Reaches(d)
        BY <3>1, <4>1
      <4> QED
        BY <4>2, ReachStep
    <3>2. Bad \in SUBSET Nat
      BY Numbers DEF Made
    <3> HIDE DEF Bad
    <3> QED
      BY <3>1, <3>2, LeastNumber
  <2>2. ASSUME NEW c \in Live, \A a \in Ancestors[c] : conv[a].state = "live",
               NEW t \in TurnsOf(c), turn[t].origin \in memory
        PROVE  turn[t].origin \in Visible(c)
    <3>1. c \in Made
      BY DEF Live, Made
    <3>2. PICK e \in Lineage[c] : turn[turn[t].origin].conv = e[1] /\ turn[t].at <= e[2]
      BY <2>1, <2>2, <3>1 DEF Reaches
    <3>3. turn[turn[t].origin].at = turn[t].at
      BY <3>1, TurnsAreUsed DEF OriginInv
    <3> QED
      BY <2>2, <3>2, <3>3 DEF Visible
  <2> QED
    BY <2>2 DEF SeesItsPast
<1> QED
  BY <1>1, MemoryInvariance, PTL

=============================================================================
