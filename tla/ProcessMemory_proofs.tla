------------------------- MODULE ProcessMemory_proofs ------------------------
(***************************************************************************)
(* What a process keeps in memory: the slices of its conversations beside  *)
(* the transcript, the snapshots and the jobs in the store, and the        *)
(* runners of its event loops.  The two components share no state; each    *)
(* has its own invariant here.                                             *)
(***************************************************************************)
EXTENDS RollingSummary, GraphRunnerPool, FiniteSetTheorems, SequenceTheorems, TLAPS
-----------------------------------------------------------------------------
(* The inductive invariant of RollingSummary.                               *)

\* A turn is at work.
InTurn == turn.step # "none"

\* The last turn that a slice can hold.
Heard == IF turn.step = "running" THEN began - 1 ELSE began

\* A turn at work has a server, and comes after all that was said.
TurnInv ==
  /\ turn.step = "none" => turn = NoTurn
  /\ InTurn => turn.pool \in Servers /\ began > 0 /\ said \in Seq(1 .. began - 1)

\* A slice holds nothing that has not been said or written back.
PastInv == \A p \in Pools : cache[p].history \in Seq(1 .. Heard)

\* The worker is idle or has a job that runs; what it applies is what it saved.
WorkInv ==
  /\ worker.step = "idle" => worker = NoWork
  /\ worker.step # "idle" =>
       /\ worker.pool \in Workers /\ worker.job \in Turns
       /\ job[worker.job].status = "running"
  /\ worker.step \in {"saved", "patched", "cached"} => job[worker.job].result = worker.value

\* Only a turn that was answered has a job.
JobInv == \A t \in Turns : job[t].status # "none" => t \in ToSet(said)

TypeInv == TypeOK /\ TurnInv /\ PastInv /\ WorkInv /\ JobInv

\* What the window of pool p must be: the turn at work there comes after the transcript.
Expected(p) == IF Ahead(p) THEN Hot(Append(said, began)) ELSE Rehydrated

\* The slices that nothing has spoilt follow the transcript.
WindowInv == \A p \in Servers \ behind : Settled(p) => cache[p].history = Expected(p)

\* The slice of pool p has yet to hear of the summary that was patched.
Untold(p) == worker.step = "patched" /\ worker.pool = p

\* Without a race a turn works on a slice that is warm and unspoilt, and what it pushes
\* out of the window is in what it queues.
Sound ==
  /\ astray = {}
  /\ InTurn => Closing(turn.pool) = {} /\ turn.pool \notin behind
  /\ turn.step \in {"written", "built"} =>
       /\ cache[turn.pool].warm
       /\ ToSet(Rehydrated) \subseteq ToSet(Hot(Append(said, began))) \cup turn.dropped

\* Without a race everybody has the same summary: every slice,
SlicesAgree ==
  \A p \in Servers : cache[p].warm =>
    IF Untold(p) THEN Latest.summary \subseteq cache[p].summary \cup Folding
                 ELSE cache[p].summary = Latest.summary

\* the snapshot that is built, and each result that waits to be applied, which adds
\* its own turns.
SnapshotAgrees == turn.step = "built" => turn.snap.summary = Latest.summary
JobsAgree ==
  \A t \in Queued : job[t].result # None => job[t].result = Latest.summary \cup job[t].dropped
WorkAgrees ==
  /\ worker.step \in {"folded", "saved"} => worker.value = Latest.summary \cup Folding
  /\ worker.step \in {"patched", "cached"} =>
       worker.value = Latest.summary /\ Folding \subseteq Latest.summary

Agreed == SlicesAgree /\ SnapshotAgrees /\ JobsAgree /\ WorkAgrees

\* The turns that a job will still fold, and where a completed turn is then.
Owed == UNION {job[t].dropped : t \in Queued}
Carried == done \subseteq ToSet(Rehydrated) \cup Latest.summary \cup Owed

QuietInv == Sound /\ Agreed /\ Carried
RaceInv == races = {} => QuietInv

IInv == TypeInv /\ WindowInv /\ RaceInv

-----------------------------------------------------------------------------
(* Histories and their ends.                                                *)

\* The elements of a sequence.
LEMMA ElementsOf ==
  ASSUME NEW S, NEW h \in Seq(S)
  PROVE  ToSet(h) \subseteq S
  BY LenProperties, ElementOfSeq DEF ToSet

\* The last turns of a history keep their places from its end.
LEMMA HotIsTheEnd ==
  ASSUME NEW S, NEW h \in Seq(S)
  PROVE  /\ Hot(h) \in Seq(S)
         /\ Len(Hot(h)) = IF Len(h) > Window THEN Window ELSE Len(h)
         /\ \A i \in 1 .. Len(Hot(h)) : Hot(h)[i] = h[i + (Len(h) - Len(Hot(h)))]
<1>1. Len(h) \in Nat /\ Window \in Nat \ {0}
  BY LenProperties, BoundsAreNat
<1>2. CASE Len(h) > Window
  <2> DEFINE m == Len(h) - Window + 1
  <2>1. m \in 1 .. Len(h) + 1 /\ Len(h) \in m - 1 .. Len(h)
    BY <1>1, <1>2
  <2>2. Hot(h) = SubSeq(h, m, Len(h))
    BY <1>2 DEF Hot
  <2>3. /\ SubSeq(h, m, Len(h)) \in Seq(S)
        /\ Len(SubSeq(h, m, Len(h))) = Len(h) - m + 1
        /\ \A i \in 1 .. Len(h) - m + 1 : SubSeq(h, m, Len(h))[i] = h[m + i - 1]
    BY <1>1, <1>2, <2>1, SubSeqProperties
  <2>4. Len(Hot(h)) = Window
    BY <1>1, <2>2, <2>3
  <2> QED
    BY <1>1, <1>2, <2>2, <2>3, <2>4
<1>3. CASE ~ (Len(h) > Window)
  BY <1>1, <1>3 DEF Hot
<1> QED
  BY <1>2, <1>3

\* An ascending history has an ascending end.
LEMMA HotAscends ==
  ASSUME NEW S \in SUBSET Nat, NEW h \in Seq(S), Ascending(h)
  PROVE  Ascending(Hot(h)) /\ ToSet(Hot(h)) \subseteq ToSet(h)
<1> DEFINE g == Hot(h)
<1>1. /\ g \in Seq(S) /\ Len(g) \in Nat /\ Len(h) \in Nat /\ Len(g) <= Len(h)
      /\ DOMAIN g = 1 .. Len(g) /\ DOMAIN h = 1 .. Len(h)
      /\ \A i \in 1 .. Len(g) : g[i] = h[i + (Len(h) - Len(g))]
  BY HotIsTheEnd, LenProperties, BoundsAreNat
<1> HIDE DEF g
<1>2. ASSUME NEW i \in DOMAIN g
      PROVE  i + (Len(h) - Len(g)) \in DOMAIN h /\ g[i] = h[i + (Len(h) - Len(g))]
  BY <1>1
<1>3. Ascending(g)
  <2> SUFFICES ASSUME NEW i \in DOMAIN g, NEW j \in DOMAIN g, i < j PROVE g[i] < g[j]
    BY DEF Ascending
  <2>1. i + (Len(h) - Len(g)) < j + (Len(h) - Len(g))
    BY <1>1
  <2> QED
    BY <1>2, <2>1 DEF Ascending
<1>4. ToSet(g) \subseteq ToSet(h)
  BY <1>2 DEF ToSet
<1> QED
  BY <1>3, <1>4 DEF g

\* A turn that comes after all of a history is appended in order.
LEMMA AppendAscends ==
  ASSUME NEW n \in Nat, NEW h \in Seq(1 .. n), Ascending(h)
  PROVE  /\ Append(h, n + 1) \in Seq(1 .. n + 1) /\ Ascending(Append(h, n + 1))
         /\ ToSet(Append(h, n + 1)) = ToSet(h) \cup {n + 1}
<1> DEFINE g == Append(h, n + 1)
<1>1. Len(h) \in Nat /\ DOMAIN h = 1 .. Len(h) /\ \A i \in 1 .. Len(h) : h[i] \in 1 .. n
  BY LenProperties, ElementOfSeq
<1>2. h \in Seq(1 .. n + 1)
  BY <1>1, SeqMonotonic
<1>3. /\ g \in Seq(1 .. n + 1) /\ Len(g) = Len(h) + 1 /\ DOMAIN g = 1 .. Len(h) + 1
      /\ \A i \in 1 .. Len(h) : g[i] = h[i]
      /\ g[Len(h) + 1] = n + 1
  BY <1>1, <1>2, AppendProperties, LenProperties
<1> HIDE DEF g
<1>4. Ascending(g)
  <2> SUFFICES ASSUME NEW i \in DOMAIN g, NEW j \in DOMAIN g, i < j PROVE g[i] < g[j]
    BY DEF Ascending
  <2>1. i \in 1 .. Len(h) /\ g[i] = h[i]
    BY <1>1, <1>3
  <2>2. CASE j \in 1 .. Len(h)
    BY <1>1, <1>3, <2>1, <2>2 DEF Ascending
  <2>3. CASE j = Len(h) + 1
    BY <1>1, <1>3, <2>1, <2>3
  <2> QED
    BY <1>1, <1>3, <2>2, <2>3
<1>5. ToSet(g) = ToSet(h) \cup {n + 1}
  <2>1. DOMAIN g = DOMAIN h \cup {Len(h) + 1}
    BY <1>1, <1>3
  <2> QED
    BY <1>1, <1>3, <2>1 DEF ToSet
<1> QED
  BY <1>3, <1>4, <1>5 DEF g

\* Trimming before a turn is appended makes no difference to the window after it.
LEMMA HotAppend ==
  ASSUME NEW S, NEW h \in Seq(S), NEW e \in S
  PROVE  Hot(Append(Hot(h), e)) = Hot(Append(h, e))
<1> DEFINE g == Hot(h)
           a == Append(g, e)
           b == Append(h, e)
           d == Len(h) - Len(g)
<1>1. /\ g \in Seq(S) /\ Len(h) \in Nat /\ Len(g) \in Nat /\ Window \in Nat \ {0}
      /\ Len(g) = IF Len(h) > Window THEN Window ELSE Len(h)
      /\ \A i \in 1 .. Len(g) : g[i] = h[i + d]
      /\ d \in Nat /\ Len(h) = Len(g) + d
  BY HotIsTheEnd, LenProperties, BoundsAreNat
<1> HIDE DEF g, d
<1>2. /\ a \in Seq(S) /\ Len(a) = Len(g) + 1
      /\ \A i \in 1 .. Len(g) : a[i] = g[i]
      /\ a[Len(g) + 1] = e
  BY <1>1, AppendProperties
<1>3. /\ b \in Seq(S) /\ Len(b) = Len(h) + 1
      /\ \A i \in 1 .. Len(h) : b[i] = h[i]
      /\ b[Len(h) + 1] = e
  BY AppendProperties
<1> HIDE DEF a, b
<1>4. \A i \in 1 .. Len(a) : a[i] = b[i + d]
  <2> SUFFICES ASSUME NEW i \in 1 .. Len(a) PROVE a[i] = b[i + d]
    OBVIOUS
  <2>1. CASE i \in 1 .. Len(g)
    <3>1. i + d \in 1 .. Len(h)
      BY <1>1, <2>1
    <3> QED
      BY <1>1, <1>2, <1>3, <2>1, <3>1
  <2>2. CASE i = Len(g) + 1
    <3>1. i + d = Len(h) + 1
      BY <1>1, <2>2
    <3> QED
      BY <1>2, <1>3, <2>2, <3>1
  <2> QED
    BY <1>1, <1>2, <2>1, <2>2
<1>5. /\ Hot(a) \in Seq(S) /\ Len(Hot(a)) = IF Len(a) > Window THEN Window ELSE Len(a)
      /\ \A i \in 1 .. Len(Hot(a)) : Hot(a)[i] = a[i + (Len(a) - Len(Hot(a)))]
  BY <1>2, HotIsTheEnd
<1>6. /\ Hot(b) \in Seq(S) /\ Len(Hot(b)) = IF Len(b) > Window THEN Window ELSE Len(b)
      /\ \A i \in 1 .. Len(Hot(b)) : Hot(b)[i] = b[i + (Len(b) - Len(Hot(b)))]
  BY <1>3, HotIsTheEnd
<1>7. /\ Len(a) \in Nat /\ Len(b) \in Nat /\ d \in Nat /\ Len(a) + d = Len(b)
      /\ Len(Hot(a)) = Len(Hot(b)) /\ Len(Hot(a)) \in Nat /\ Len(Hot(a)) <= Len(a)
  <2>1. Len(a) \in Nat /\ Len(b) \in Nat /\ d \in Nat /\ Len(a) + d = Len(b)
    BY <1>1, <1>2, <1>3
  <2>2. Len(a) > Window <=> Len(b) > Window
    BY <1>1, <1>2, <1>3
  <2>3. Len(a) <= Window => Len(a) = Len(b)
    BY <1>1, <1>2, <1>3
  <2> QED
    BY <1>1, <1>5, <1>6, <2>1, <2>2, <2>3
<1>8. \A i \in 1 .. Len(Hot(a)) : Hot(a)[i] = Hot(b)[i]
  <2> SUFFICES ASSUME NEW i \in 1 .. Len(Hot(a)) PROVE Hot(a)[i] = Hot(b)[i]
    OBVIOUS
  <2> DEFINE k == i + (Len(a) - Len(Hot(a)))
  <2>1. k \in 1 .. Len(a) /\ k + d = i + (Len(b) - Len(Hot(b)))
    BY <1>7
  <2>2. Hot(a)[i] = a[k] /\ Hot(b)[i] = b[k + d]
    BY <1>5, <1>6, <1>7, <2>1
  <2> QED
    BY <1>4, <2>1, <2>2
<1>9. Hot(a) = Hot(b)
  BY <1>5, <1>6, <1>7, <1>8, SeqEqual
<1> QED
  BY <1>9 DEF a, b, g

\* The turn that was appended last is in the window.
LEMMA LastIsHot ==
  ASSUME NEW S, NEW h \in Seq(S), NEW e \in S
  PROVE  e \in ToSet(Hot(Append(h, e)))
<1> DEFINE b == Append(h, e)
<1>1. b \in Seq(S) /\ Len(b) = Len(h) + 1 /\ b[Len(b)] = e /\ Len(h) \in Nat
  BY AppendProperties, LenProperties
<1> HIDE DEF b
<1>2. /\ Hot(b) \in Seq(S) /\ Len(Hot(b)) = IF Len(b) > Window THEN Window ELSE Len(b)
      /\ \A i \in 1 .. Len(Hot(b)) : Hot(b)[i] = b[i + (Len(b) - Len(Hot(b)))]
  BY <1>1, HotIsTheEnd
<1>3. /\ Len(Hot(b)) \in 1 .. Len(Hot(b)) /\ DOMAIN Hot(b) = 1 .. Len(Hot(b))
      /\ Len(Hot(b)) + (Len(b) - Len(Hot(b))) = Len(b)
  BY <1>1, <1>2, BoundsAreNat, LenProperties
<1>4. Hot(b)[Len(Hot(b))] = e
  BY <1>1, <1>2, <1>3
<1> QED
  BY <1>3, <1>4 DEF ToSet, b

-----------------------------------------------------------------------------
(* Types.                                                                   *)

\* A history is a short ascending sequence of turns.
LEMMA HistoryIs ==
  ASSUME NEW h
  PROVE  h \in Histories <=> h \in Seq(Turns) /\ Len(h) <= Window /\ Ascending(h)
<1>1. h \in SeqOf(Turns, Window) <=> h \in Seq(Turns) /\ Len(h) <= Window
  <2>1. ASSUME h \in SeqOf(Turns, Window)
        PROVE  h \in Seq(Turns) /\ Len(h) <= Window
    <3>1. PICK m \in 0 .. Window : h \in [1 .. m -> Turns]
      BY <2>1 DEF SeqOf
    <3>2. h \in Seq(Turns) /\ Len(h) = m
      BY <3>1, BoundsAreNat, IsASeq, LenProperties
    <3> QED
      BY <3>1, <3>2, BoundsAreNat
  <2>2. ASSUME h \in Seq(Turns), Len(h) <= Window
        PROVE  h \in SeqOf(Turns, Window)
    <3>1. Len(h) \in 0 .. Window /\ h \in [1 .. Len(h) -> Turns]
      BY <2>2, BoundsAreNat, LenProperties
    <3> QED
      BY <3>1 DEF SeqOf
  <2> QED
    BY <2>1, <2>2
<1> QED
  BY <1>1 DEF Histories

\* The window of an ascending history is one that a slice can hold.
LEMMA HotIsHistory ==
  ASSUME NEW n \in 0 .. MaxTurns, NEW h \in Seq(1 .. n), Ascending(h)
  PROVE  Hot(h) \in Histories /\ Hot(h) \in Seq(1 .. n)
<1>1. 1 .. n \in SUBSET Nat /\ 1 .. n \subseteq Turns
  BY BoundsAreNat DEF Turns
<1>2. Hot(h) \in Seq(1 .. n) /\ Len(Hot(h)) <= Window
  BY HotIsTheEnd, LenProperties, BoundsAreNat
<1>3. Hot(h) \in Seq(Turns)
  BY <1>1, <1>2, SeqMonotonic
<1> QED
  BY <1>1, <1>2, <1>3, HotAscends, HistoryIs

\* The initial segments below the numbers of a set are well-founded by inclusion.
LEMMA LeastNumber ==
  ASSUME NEW S \in SUBSET Nat, S # {}
  PROVE  \E m \in S : \A n \in S : m <= n
<1> DEFINE Below == {0 .. n : n \in S}
<1>1. Below \subseteq FiniteSubsetsOf(Nat) /\ Below # {}
  <2>1. \A n \in S : IsFiniteSet(0 .. n) /\ 0 .. n \in SUBSET Nat
    BY FS_Interval
  <2> QED
    BY <2>1 DEF FiniteSubsetsOf
<1>2. PICK T \in Below : \A U \in Below : ~ (<<U, T>> \in StrictSubsetOrdering(Nat))
  <2> HIDE DEF Below
  <2>1. IsWellFoundedOn(StrictSubsetOrdering(Nat), FiniteSubsetsOf(Nat))
    BY FS_StrictSubsetOrderingWellFounded
  <2> QED
    BY <1>1, <2>1, WFMin
<1>3. PICK m \in S : T = 0 .. m
  OBVIOUS
<1>4. ASSUME NEW n \in S, ~ (m <= n) PROVE FALSE
  <2>1. m \in 0 .. m /\ m \notin 0 .. n
    BY <1>4
  <2>2. 0 .. n \subseteq 0 .. m /\ 0 .. n # 0 .. m
        /\ 0 .. n \in SUBSET Nat /\ 0 .. m \in SUBSET Nat
    BY <1>4, <2>1
  <2>3. 0 .. n \in Below
    OBVIOUS
  <2> QED
    BY <1>2, <1>3, <2>2, <2>3 DEF StrictSubsetOrdering
<1> QED
  BY <1>4

\* A set of numbers that are bounded has a greatest.
LEMMA GreatestNumber ==
  ASSUME NEW S \in SUBSET Nat, S # {}, NEW b \in Nat, \A n \in S : n <= b
  PROVE  \E m \in S : \A n \in S : n <= m
<1> DEFINE Bounds == {x \in Nat : \A n \in S : n <= x}
<1>1. \E m \in Bounds : \A x \in Bounds : m <= x
  <2>1. b \in Bounds /\ Bounds \in SUBSET Nat
    OBVIOUS
  <2> HIDE DEF Bounds
  <2> QED
    BY <2>1, LeastNumber
<1>2. PICK m \in Bounds : \A x \in Bounds : m <= x
  BY <1>1
<1>3. CASE m \notin S
  <2>1. PICK n \in S : TRUE
    OBVIOUS
  <2>2. \A k \in S : k \in Nat /\ k < m
    BY <1>3
  <2>3. m - 1 \in Bounds
    BY <2>1, <2>2
  <2> QED
    BY <1>2, <2>3
<1> QED
  BY <1>3

\* Everything that was said is of the past.
LEMMA SaidIsPast ==
  ASSUME TypeInv
  PROVE  Heard \in 0 .. MaxTurns /\ said \in Seq(1 .. Heard) /\ Ascending(said)
<1>1. began \in 0 .. MaxTurns /\ said \in Seq(1 .. began) /\ Ascending(said)
  BY DEF TypeInv, TypeOK
<1>2. turn.step = "running" => began > 0 /\ said \in Seq(1 .. began - 1)
  BY DEF TypeInv, TurnInv, InTurn
<1> QED
  BY <1>1, <1>2, BoundsAreNat DEF Heard

\* When a turn is completed there is a last one, and it has the latest snapshot.
LEMMA LatestIs ==
  ASSUME TypeInv
  PROVE  /\ Latest \in Snapshots /\ done \in SUBSET (1 .. began) /\ began \in Nat
         /\ done # {} => LastDone \in done /\ LastDone \in Turns /\ Latest = snapshot[LastDone]
         /\ \A t \in done : (\A u \in done : u <= t) => LastDone = t
<1>1. done \in SUBSET (1 .. began) /\ began \in 0 .. MaxTurns /\ began \in Nat /\ done \in SUBSET Nat
  BY ElementsOf, BoundsAreNat DEF TypeInv, TypeOK
<1>2. ASSUME done # {} PROVE LastDone \in done /\ \A u \in done : u <= LastDone
  <2>1. \A u \in done : u <= began
    BY <1>1
  <2>2. \E t \in done : \A u \in done : u <= t
    BY <1>1, <1>2, <2>1, GreatestNumber
  <2> QED
    BY <2>2 DEF LastDone
<1> HIDE DEF LastDone
<1>3. done # {} => LastDone \in Turns /\ Latest = snapshot[LastDone]
  <2>1. 1 .. began \subseteq Turns
    BY <1>1, BoundsAreNat DEF Turns
  <2> QED
    BY <1>1, <1>2, <2>1 DEF Latest
<1>4. NoSnapshot \in Snapshots
  BY DEF NoSnapshot, Snap, Snapshots
<1>5. Latest \in Snapshots
  <2>1. \A t \in Turns : snapshot[t] \in Snapshots
    BY DEF TypeInv, TypeOK
  <2> QED
    BY <1>3, <1>4, <2>1 DEF Latest
<1>6. ASSUME NEW t \in done, \A u \in done : u <= t PROVE LastDone = t
  <2>1. LastDone \in done /\ t <= LastDone /\ LastDone <= t
    BY <1>2, <1>6
  <2>2. LastDone \in Nat /\ t \in Nat
    BY <1>1, <2>1
  <2> QED
    BY <2>1, <2>2
<1> QED
  BY <1>1, <1>2, <1>3, <1>5, <1>6

\* A cold slice is one, with nothing in it.
LEMMA ColdIsPast == Cold \in Slices /\ ~ Cold.warm /\ \A n \in Nat : Cold.history \in Seq(1 .. n)
<1>1. <<>> \in Histories
  <2>1. <<>> \in Seq(Turns) /\ Len(<<>>) = 0 /\ DOMAIN <<>> = {}
    BY EmptySeq
  <2>2. Ascending(<<>>)
    BY <2>1 DEF Ascending
  <2>3. Len(<<>>) <= Window
    BY <2>1, BoundsAreNat
  <2> QED
    BY <2>1, <2>2, <2>3, HistoryIs
<1>2. \A n \in Nat : <<>> \in Seq(1 .. n)
  BY EmptySeq
<1> QED
  BY <1>1, <1>2 DEF Cold, Slice, Slices

\* What _get_session returns, from a slice or from the store, is a slice of the past.
LEMMA SessionIsPast ==
  ASSUME TypeInv, NEW p \in Pools, NEW s \in Sessions(p)
  PROVE  /\ s \in Slices /\ s.warm /\ s.history \in Histories /\ s.summary \in SUBSET Turns
         /\ s.history \in Seq(1 .. Heard) /\ Heard \in 0 .. MaxTurns
         /\ cache[p].warm => s = cache[p]
         /\ ~ cache[p].warm => s.history \in {Rehydrated, <<>>} /\ s.summary \in {Latest.summary, {}}
<1>1. Heard \in 0 .. MaxTurns /\ said \in Seq(1 .. Heard) /\ Ascending(said)
  BY SaidIsPast
<1>2. Hot(said) \in Histories /\ Hot(said) \in Seq(1 .. Heard)
  BY <1>1, HotIsHistory
<1>3. <<>> \in Histories /\ <<>> \in Seq(1 .. Heard)
  BY <1>1, ColdIsPast, BoundsAreNat DEF Cold, Slice, Slices
<1>4. CASE cache[p].warm
  <2>1. s = cache[p]
    BY <1>4 DEF Sessions
  <2> QED
    BY <1>1, <1>4, <2>1 DEF TypeInv, TypeOK, PastInv, Slices
<1>5. CASE ~ cache[p].warm
  <2>1. PICK h \in {Rehydrated, <<>>}, v \in {Latest.summary, {}} :
          s = [warm |-> TRUE, history |-> h, summary |-> v]
    BY <1>5 DEF Sessions, Slice
  <2>2. v \in SUBSET Turns
    BY LatestIs DEF Snapshots
  <2>3. h \in Histories /\ h \in Seq(1 .. Heard)
    BY <1>2, <1>3 DEF Rehydrated
  <2> QED
    BY <1>1, <1>5, <2>1, <2>2, <2>3 DEF Slices
<1> QED
  BY <1>4, <1>5

\* A read of the session may be one more fault, and may leave its pool astray.
LEMMA ReadsCount ==
  ASSUME TypeInv, NEW p \in Pools, NEW s \in Sessions(p), GetSession(p, s)
  PROVE  faults' \in 0 .. MaxFaults /\ astray \subseteq astray' /\ astray' \subseteq astray \cup {p}
<1>1. faults' \in 0 .. MaxFaults
  BY BoundsAreNat DEF GetSession, TypeInv, TypeOK
<1> QED
  BY <1>1 DEF GetSession

\* What a slice held is still of the past when time goes on.
LEMMA PastGrows ==
  ASSUME TypeInv, NEW n \in Nat, Heard <= n
  PROVE  \A p \in Pools : cache[p].history \in Seq(1 .. n)
<1> SUFFICES ASSUME NEW p \in Pools PROVE cache[p].history \in Seq(1 .. n)
  OBVIOUS
<1>1. Heard \in Nat
  BY SaidIsPast, BoundsAreNat
<1>2. 1 .. Heard \subseteq 1 .. n /\ cache[p].history \in Seq(1 .. Heard)
  BY <1>1 DEF TypeInv, PastInv
<1> QED
  BY <1>2, SeqMonotonic

\* A step that writes one slice leaves slices of the past, if it writes one.
LEMMA OneSlice ==
  ASSUME TypeInv, NEW p \in Pools, NEW s \in Slices, cache' = [cache EXCEPT ![p] = s],
         NEW n \in Nat, Heard <= n, s.history \in Seq(1 .. n)
  PROVE  /\ cache' \in [Pools -> Slices] /\ cache'[p] = s
         /\ \A q \in Pools : cache'[q].history \in Seq(1 .. n)
         /\ \A q \in Pools \ {p} : cache'[q] = cache[q]
<1>1. cache \in [Pools -> Slices] /\ \A q \in Pools : cache[q].history \in Seq(1 .. n)
  BY PastGrows DEF TypeInv, TypeOK
<1> HIDE DEF Slices
<1>2. cache' \in [Pools -> Slices] /\ cache'[p] = s /\ \A q \in Pools \ {p} : cache'[q] = cache[q]
  BY <1>1
<1>3. ASSUME NEW q \in Pools PROVE cache'[q].history \in Seq(1 .. n)
  BY <1>1, <1>2, <1>3
<1> QED
  BY <1>2, <1>3

\* One that fills a slice keeps the marks on warm slices.
LEMMA OneFilled ==
  ASSUME TypeInv, NEW p \in Pools, NEW s \in Slices, s.warm, cache' = [cache EXCEPT ![p] = s],
         NEW n \in Nat, Heard <= n, s.history \in Seq(1 .. n),
         astray' \subseteq astray \cup {p}, behind' = behind
  PROVE  /\ cache' \in [Pools -> Slices] /\ cache'[p] = s
         /\ \A q \in Pools : cache'[q].history \in Seq(1 .. n)
         /\ astray' \cup behind' \subseteq {q \in Pools : cache'[q].warm}
<1>1. /\ cache' \in [Pools -> Slices] /\ cache'[p] = s
      /\ \A q \in Pools : cache'[q].history \in Seq(1 .. n)
      /\ \A q \in Pools \ {p} : cache'[q] = cache[q]
  BY OneSlice
<1>2. astray \cup behind \subseteq {q \in Pools : cache[q].warm}
  BY DEF TypeInv, TypeOK
<1> QED
  BY <1>1, <1>2

\* One that drops a slice takes its marks away.
LEMMA OneDropped ==
  ASSUME TypeInv, NEW p \in Pools, DropSlice(p), NEW n \in Nat, Heard <= n
  PROVE  /\ cache' \in [Pools -> Slices] /\ ~ cache'[p].warm
         /\ \A q \in Pools : cache'[q].history \in Seq(1 .. n)
         /\ \A q \in Pools \ {p} : cache'[q] = cache[q]
         /\ astray' \cup behind' \subseteq {q \in Pools : cache'[q].warm}
<1>1. cache' = [cache EXCEPT ![p] = Cold] /\ astray' = astray \ {p} /\ behind' = behind \ {p}
  BY DEF DropSlice, ClearSlice
<1>2. Cold \in Slices /\ ~ Cold.warm /\ Cold.history \in Seq(1 .. n)
  BY ColdIsPast
<1>3. /\ cache' \in [Pools -> Slices] /\ cache'[p] = Cold
      /\ \A q \in Pools : cache'[q].history \in Seq(1 .. n)
      /\ \A q \in Pools \ {p} : cache'[q] = cache[q]
  BY <1>1, <1>2, OneSlice
<1>4. astray \cup behind \subseteq {q \in Pools : cache[q].warm}
  BY DEF TypeInv, TypeOK
<1> QED
  BY <1>1, <1>2, <1>3, <1>4

\* The turn that runs comes after everything that was said.
LEMMA RunsLast ==
  ASSUME TypeInv, InTurn
  PROVE  /\ began - 1 \in 0 .. MaxTurns /\ began = (began - 1) + 1 /\ began \in Turns
         /\ said \in Seq(1 .. began - 1) /\ Ascending(said)
         /\ turn.pool \in Servers /\ turn.pool \in Pools
  BY BoundsAreNat, PoolsServe DEF TypeInv, TypeOK, TurnInv, Turns

\* A turn that begins in a pool is given the slice of the pool.
LEMMA BeginStep ==
  ASSUME TypeInv, NEW p \in Servers, BeginTurn(p)
  PROVE  TypeInv'
<1>1. p \in Pools /\ turn = NoTurn /\ ~ InTurn /\ Heard = began
  BY PoolsServe DEF BeginTurn, NoTurn, TurnAt, InTurn, Heard
<1>2. PICK s \in Sessions(p) :
        /\ GetSession(p, s) /\ cache' = [cache EXCEPT ![p] = s]
        /\ races' = races \cup When(p \in behind, "stale slice")
                          \cup When(Misread(p, s) \/ Closing(p) # {}, "failure")
  BY DEF BeginTurn
<1>3. s \in Slices /\ s.warm /\ s.history \in Seq(1 .. Heard)
  BY <1>1, SessionIsPast
<1>4. /\ began' = began + 1 /\ began \in Nat /\ began' \in 0 .. MaxTurns
      /\ turn' = [step |-> "running", pool |-> p, dropped |-> {}, snap |-> NoSnapshot]
      /\ UNCHANGED <<said, done, snapshot, closing, job, worker, failed, behind>>
  <2>1. /\ began < MaxTurns /\ began' = began + 1 /\ turn' = TurnAt("running", p, {}, NoSnapshot)
        /\ UNCHANGED <<said, done, snapshot, closing, job, worker, failed, behind>>
    BY DEF BeginTurn
  <2>2. began \in 0 .. MaxTurns
    BY DEF TypeInv, TypeOK
  <2> QED
    BY <2>1, <2>2, BoundsAreNat DEF TurnAt
<1>5. Heard' = began
  BY <1>4 DEF Heard
<1>6. faults' \in 0 .. MaxFaults /\ astray' \subseteq astray \cup {p}
  BY <1>1, <1>2, ReadsCount
<1>7. /\ cache' \in [Pools -> Slices] /\ PastInv'
      /\ astray' \cup behind' \subseteq {q \in Pools : cache'[q].warm}
  <2>1. Heard <= began /\ s.history \in Seq(1 .. began)
    BY <1>1, <1>3, <1>4
  <2>2. /\ cache' \in [Pools -> Slices]
        /\ \A q \in Pools : cache'[q].history \in Seq(1 .. began)
        /\ astray' \cup behind' \subseteq {q \in Pools : cache'[q].warm}
    BY <1>1, <1>2, <1>3, <1>4, <1>6, <2>1, OneFilled
  <2> QED
    BY <1>5, <2>2 DEF PastInv
<1>8. said' \in Seq(1 .. began') /\ said' \in Seq(1 .. began' - 1) /\ Ascending(said')
  <2>1. said \in Seq(1 .. began) /\ Ascending(said) /\ 1 .. began \subseteq 1 .. began + 1 /\ began + 1 - 1 = began
    BY <1>4 DEF TypeInv, TypeOK
  <2> QED
    BY <1>4, <2>1, SeqMonotonic
<1>9. turn' \in TurnStates
  BY <1>4 DEF TurnStates, NoSnapshot, Snap, Snapshots
<1>10. races' \subseteq Kinds
  BY <1>2 DEF When, Kinds, TypeInv, TypeOK
<1>11. TypeOK'
  BY <1>4, <1>6, <1>7, <1>8, <1>9, <1>10 DEF TypeInv, TypeOK
<1>12. TurnInv'
  BY <1>4, <1>8 DEF TurnInv, InTurn
<1>13. WorkInv' /\ JobInv'
  BY <1>4 DEF TypeInv, WorkInv, JobInv
<1> QED
  BY <1>7, <1>11, <1>12, <1>13 DEF TypeInv

\* The turn enters the window it ran with, and what does not fit leaves it.
LEMMA WriteBackStep ==
  ASSUME TypeInv, WriteBack
  PROVE  TypeInv'
<1> DEFINE p == turn.pool
<1>1. /\ turn.step = "running" /\ InTurn /\ Heard = began - 1
      /\ UNCHANGED <<began, said, done, snapshot, closing, job, worker, failed, behind>>
  BY DEF WriteBack, InTurn, Heard, store
<1>2. /\ began - 1 \in 0 .. MaxTurns /\ began \in 0 .. MaxTurns /\ began = (began - 1) + 1
      /\ p \in Pools
  BY <1>1, RunsLast, BoundsAreNat DEF TypeInv, TypeOK
<1>3. PICK s \in Sessions(p) :
        /\ GetSession(p, s)
        /\ cache' = [cache EXCEPT ![p] = [s EXCEPT !.history = Hot(Append(s.history, began))]]
        /\ turn' = [turn EXCEPT !.step = "written", !.dropped = LeavesWindow(Append(s.history, began))]
        /\ races' = races \cup When(Misread(p, s), "failure")
  BY DEF WriteBack
<1> DEFINE h == Append(s.history, began)
           i == [s EXCEPT !.history = Hot(h)]
<1>4. s \in Slices /\ s.warm /\ s.history \in Seq(1 .. began - 1) /\ s.history \in Histories
  BY <1>1, <1>2, SessionIsPast
<1>5. h \in Seq(1 .. began) /\ Ascending(h)
  BY <1>2, <1>4, AppendAscends, HistoryIs
<1>6. Hot(h) \in Histories /\ Hot(h) \in Seq(1 .. began)
  BY <1>2, <1>5, HotIsHistory
<1>7. i \in Slices /\ i.history = Hot(h) /\ i.warm
  BY <1>4, <1>6 DEF Slices
<1>8. Heard' = began
  BY <1>1, <1>3 DEF Heard, TypeInv, TypeOK, TurnStates
<1>9. faults' \in 0 .. MaxFaults /\ astray' \subseteq astray \cup {p}
  BY <1>2, <1>3, ReadsCount
<1>10. /\ cache' \in [Pools -> Slices] /\ PastInv'
       /\ astray' \cup behind' \subseteq {q \in Pools : cache'[q].warm}
  <2>1. Heard <= began /\ i.history \in Seq(1 .. began) /\ began \in Nat
    BY <1>1, <1>2, <1>6, <1>7
  <2>2. cache' = [cache EXCEPT ![p] = i]
    BY <1>3
  <2> HIDE DEF i, p
  <2>3. /\ cache' \in [Pools -> Slices]
        /\ \A q \in Pools : cache'[q].history \in Seq(1 .. began)
        /\ astray' \cup behind' \subseteq {q \in Pools : cache'[q].warm}
    BY <1>1, <1>2, <1>7, <1>9, <2>1, <2>2, OneFilled
  <2> QED
    BY <1>8, <2>3 DEF PastInv
<1>11. turn' \in TurnStates
  <2>1. ToSet(h) \subseteq Turns
    <3>1. ToSet(h) \subseteq 1 .. began
      BY <1>5, ElementsOf
    <3> QED
      BY <1>2, <3>1, BoundsAreNat DEF Turns
  <2>2. LeavesWindow(h) \in SUBSET Turns
    BY <2>1 DEF LeavesWindow
  <2> HIDE DEF h
  <2> QED
    BY <1>3, <2>2 DEF h, TurnStates, TypeInv, TypeOK
<1>12. races' \subseteq Kinds
  BY <1>3 DEF When, Kinds, TypeInv, TypeOK
<1>13. TypeOK'
  BY <1>1, <1>9, <1>10, <1>11, <1>12 DEF TypeInv, TypeOK
<1>14. TurnInv' /\ WorkInv' /\ JobInv'
  <2>1. turn'.step = "written" /\ turn'.pool = p
    BY <1>3 DEF TypeInv, TypeOK, TurnStates
  <2> QED
    BY <1>1, <2>1, RunsLast DEF TypeInv, TypeOK, TurnInv, WorkInv, JobInv, InTurn
<1> QED
  BY <1>10, <1>13, <1>14 DEF TypeInv

\* A commit of a message, by an answer or by an error.
LEMMA SaidGrows ==
  ASSUME TypeInv, InTurn
  PROVE  /\ Append(said, began) \in Seq(1 .. began) /\ Ascending(Append(said, began))
         /\ ToSet(Append(said, began)) = ToSet(said) \cup {began}
<1>1. began - 1 \in Nat /\ began = (began - 1) + 1 /\ said \in Seq(1 .. began - 1) /\ Ascending(said)
  BY RunsLast, BoundsAreNat
<1> QED
  BY <1>1, AppendAscends

\* The snapshot is built of what the slice holds.
LEMMA BuildStep ==
  ASSUME TypeInv, BuildSnapshot
  PROVE  TypeInv'
<1> DEFINE p == turn.pool
<1>1. /\ turn.step = "written" /\ InTurn /\ Heard = began
      /\ UNCHANGED <<began, said, done, snapshot, closing, job, worker, failed, behind>>
  BY DEF BuildSnapshot, InTurn, Heard, store
<1>2. p \in Pools /\ began \in Nat
  BY <1>1, RunsLast, BoundsAreNat DEF TypeInv, TypeOK
<1>3. PICK s \in Sessions(p) :
        /\ GetSession(p, s) /\ cache' = [cache EXCEPT ![p] = s]
        /\ turn' = [turn EXCEPT !.step = "built", !.snap = Snap(s.summary, NextRevision)]
        /\ races' = races \cup When(Misread(p, s), "failure")
                \cup When(worker.step = "patched" /\ worker.pool = p, "late snapshot")
  BY DEF BuildSnapshot
<1>4. s \in Slices /\ s.warm /\ s.history \in Seq(1 .. began) /\ s.summary \in SUBSET Turns
  BY <1>1, <1>2, SessionIsPast
<1>5. Heard' = began
  BY <1>1, <1>3 DEF Heard, TypeInv, TypeOK, TurnStates
<1>6. faults' \in 0 .. MaxFaults /\ astray' \subseteq astray \cup {p}
  BY <1>2, <1>3, ReadsCount
<1>7. /\ cache' \in [Pools -> Slices] /\ PastInv'
      /\ astray' \cup behind' \subseteq {q \in Pools : cache'[q].warm}
  <2>1. Heard <= began
    BY <1>1, <1>2
  <2> HIDE DEF p
  <2>2. /\ cache' \in [Pools -> Slices]
        /\ \A q \in Pools : cache'[q].history \in Seq(1 .. began)
        /\ astray' \cup behind' \subseteq {q \in Pools : cache'[q].warm}
    BY <1>1, <1>2, <1>3, <1>4, <1>6, <2>1, OneFilled
  <2> QED
    BY <1>5, <2>2 DEF PastInv
<1>8. turn' \in TurnStates
  <2>1. Snap(s.summary, NextRevision) \in Snapshots
    BY <1>4, LatestIs DEF Snap, Snapshots, NextRevision
  <2> QED
    BY <1>3, <2>1 DEF TurnStates, TypeInv, TypeOK
<1>9. races' \subseteq Kinds
  BY <1>3 DEF When, Kinds, TypeInv, TypeOK
<1>10. TypeOK'
  BY <1>1, <1>6, <1>7, <1>8, <1>9 DEF TypeInv, TypeOK
<1>11. TurnInv' /\ WorkInv' /\ JobInv'
  <2>1. turn'.step = "built" /\ turn'.pool = p
    BY <1>3 DEF TypeInv, TypeOK, TurnStates
  <2> QED
    BY <1>1, <2>1, RunsLast DEF TypeInv, TypeOK, TurnInv, WorkInv, JobInv, InTurn
<1> QED
  BY <1>7, <1>10, <1>11 DEF TypeInv


\* A turn that is over leaves none.
LEMMA NoTurnIsOne == NoTurn \in TurnStates /\ NoTurn.step = "none"
  BY DEF NoTurn, TurnAt, NoSnapshot, Snap, Snapshots, TurnStates

\* What a job can have saved.
LEMMA ResultIs ==
  /\ None \in Results /\ \A v \in SUBSET Turns : v \in Results
  /\ \A r \in Results : r # None => r \in SUBSET Turns
<1>1. None \in Results
  BY DEF Results
<1>2. ASSUME NEW v \in SUBSET Turns PROVE v \in Results
  BY DEF Results
<1>3. ASSUME NEW r \in Results, r # None PROVE r \in SUBSET Turns
  BY <1>3 DEF Results
<1> QED
  BY <1>1, <1>2, <1>3

\* The handler of a turn that was not answered has an end to come to.
LEMMA FailsIs ==
  ASSUME TypeInv, InTurn, NEW st \in {"undo", "clear"}, Fails(st)
  PROVE  failed' \in 0 .. MaxFailed /\ closing' \subseteq Endings
<1>1. Ending(began, turn.pool, st) \in Endings
  BY RunsLast DEF Ending, Endings
<1>2. failed' \in 0 .. MaxFailed
  BY BoundsAreNat DEF Fails, TypeInv, TypeOK
<1>3. closing' \subseteq Endings
  BY <1>1 DEF Fails, TypeInv, TypeOK
<1> QED
  BY <1>2, <1>3

\* The five ways a turn ends.
LEMMA OverStep ==
  ASSUME TypeInv, Finalize \/ FinalizeUnread \/ FinalizeFailed \/ FinalizeRaises \/ HangUp
  PROVE  TypeInv'
<1> DEFINE Answered == Finalize \/ FinalizeUnread
           Unanswered == FinalizeRaises \/ HangUp
<1>1. InTurn /\ turn' = NoTurn /\ began' = began /\ cache' = cache /\ faults' = faults
      /\ worker' = worker /\ astray' = astray
  BY DEF Finalize, FinalizeUnread, Commit, FinalizeFailed, FinalizeRaises, HangUp, InTurn, NoTurn,
         TurnAt, TypeInv, TurnInv, store, history
<1>2. began \in Nat /\ began \in Turns /\ began - 1 \in 0 .. MaxTurns /\ turn.pool \in Servers
  BY <1>1, RunsLast, BoundsAreNat DEF TypeInv, TypeOK
<1>3. failed' \in 0 .. MaxFailed /\ closing' \subseteq Endings
  <2>1. CASE Finalize
    BY <2>1 DEF Finalize, TypeInv, TypeOK
  <2>2. CASE FinalizeUnread
    BY <1>1, <2>2, FailsIs DEF FinalizeUnread
  <2>3. CASE FinalizeFailed \/ FinalizeRaises
    BY <1>1, <2>3, FailsIs DEF FinalizeFailed, FinalizeRaises
  <2>4. CASE HangUp
    BY <2>4, BoundsAreNat DEF HangUp, TypeInv, TypeOK
  <2> QED
    BY <2>1, <2>2, <2>3, <2>4
<1>4. /\ Answered \/ FinalizeFailed => said' = Append(said, began) /\ LeaveBehind
      /\ Answered => done' = done \cup {began} /\ snapshot' = [snapshot EXCEPT ![began] = turn.snap]
                     /\ races' = races
      /\ FinalizeFailed => done' = done /\ snapshot' = snapshot /\ job' = job
                           /\ races' = races \cup When(Len(said) >= Window, "failed turn")
      /\ Unanswered => UNCHANGED <<said, done, snapshot, job, behind, races>>
  BY DEF Finalize, FinalizeUnread, Commit, FinalizeFailed, FinalizeRaises, HangUp, store, history
<1>5. Answered \/ FinalizeFailed \/ Unanswered
  OBVIOUS
<1>6. said' \in Seq(1 .. began) /\ Ascending(said') /\ done' \subseteq ToSet(said')
      /\ ToSet(said) \subseteq ToSet(said')
  BY <1>1, <1>4, SaidGrows DEF TypeInv, TypeOK
<1>7. snapshot' \in [Turns -> Snapshots]
  BY <1>2, <1>4 DEF TypeInv, TypeOK, TurnStates
<1>8. astray' \cup behind' \subseteq {p \in Pools : cache'[p].warm}
  BY <1>1, <1>4 DEF LeaveBehind, TypeInv, TypeOK
<1>9. races' \subseteq Kinds
  BY <1>4 DEF When, Kinds, TypeInv, TypeOK
<1>10. job' \in [Turns -> JobStates] /\ WorkInv' /\ JobInv'
  <2>1. CASE Answered
    <3> DEFINE j == Job("pending", turn.dropped, None)
    <3>1. j \in JobStates
      <4>1. turn.dropped \in SUBSET Turns
        BY DEF TypeInv, TypeOK, TurnStates
      <4> QED
        BY <4>1, ResultIs DEF Job, JobStates
    <3>2. job' = job \/ job' = [job EXCEPT ![began] = j]
      BY <2>1 DEF Finalize, FinalizeUnread, Commit
    <3> HIDE DEF j
    <3>3. began \notin ToSet(said)
      <4>1. ToSet(said) \subseteq 1 .. began - 1
        BY <1>1, RunsLast, ElementsOf
      <4> QED
        BY <1>2, <4>1
    <3>4. worker.step # "idle" => worker.job # began
      BY <3>3 DEF TypeInv, WorkInv, JobInv
    <3>5. job' \in [Turns -> JobStates] /\ WorkInv'
      BY <1>1, <3>1, <3>2, <3>4 DEF TypeInv, TypeOK, WorkInv
    <3>6. began \in ToSet(said')
      BY <1>1, <1>4, <2>1, SaidGrows
    <3>7. JobInv'
      BY <1>6, <3>2, <3>6 DEF TypeInv, TypeOK, JobInv
    <3> QED
      BY <3>5, <3>7
  <2>2. CASE ~ Answered
    BY <1>1, <1>4, <1>5, <1>6, <2>2 DEF TypeInv, TypeOK, WorkInv, JobInv
  <2> QED
    BY <2>1, <2>2
<1>11. TypeOK'
  BY <1>1, <1>3, <1>6, <1>7, <1>8, <1>9, <1>10, NoTurnIsOne DEF TypeInv, TypeOK
<1>12. TurnInv'
  BY <1>1, NoTurnIsOne DEF TurnInv, InTurn
<1>13. PastInv'
  <2>1. Heard' = began /\ Heard <= began
    BY <1>1, <1>2, NoTurnIsOne DEF Heard
  <2> QED
    BY <1>1, <1>2, <2>1, PastGrows DEF PastInv
<1> QED
  BY <1>10, <1>11, <1>12, <1>13 DEF TypeInv

\* The handler of a committed turn takes it back.
LEMMA FailTurnStep ==
  ASSUME TypeInv, NEW c \in closing, FailTurn(c)
  PROVE  TypeInv'
<1>1. /\ UNCHANGED <<began, said, snapshot, cache, turn, job, worker, faults, failed, astray, behind>>
      /\ done' \subseteq done /\ races' \subseteq races \cup {"failure"}
      /\ closing' = (closing \ {c}) \cup {Ending(c.turn, c.pool, "clear")}
  BY DEF FailTurn, history
<1>2. Ending(c.turn, c.pool, "clear") \in Endings
  BY DEF Ending, Endings, TypeInv, TypeOK
<1>3. closing' \subseteq Endings /\ done' \subseteq ToSet(said) /\ races' \subseteq Kinds
  BY <1>1, <1>2 DEF TypeInv, TypeOK, Kinds
<1>4. TypeOK'
  BY <1>1, <1>3 DEF TypeInv, TypeOK
<1>5. TurnInv' /\ PastInv' /\ WorkInv' /\ JobInv'
  BY <1>1 DEF TypeInv, TurnInv, PastInv, WorkInv, JobInv, InTurn, Heard
<1> QED
  BY <1>4, <1>5 DEF TypeInv

\* The handler of a failed turn drops the slice.
LEMMA ClearStep ==
  ASSUME TypeInv, NEW c \in closing, Clear(c)
  PROVE  TypeInv'
<1>1. /\ UNCHANGED <<began, said, done, snapshot, turn, job, worker, faults, failed, races>>
      /\ DropSlice(c.pool) /\ closing' = closing \ {c} /\ Heard' = Heard
  BY DEF Clear, store, Heard
<1>2. c.pool \in Pools /\ closing' \subseteq Endings /\ Heard \in Nat /\ Heard <= Heard
  BY <1>1, PoolsServe, SaidIsPast, BoundsAreNat DEF TypeInv, TypeOK, Endings
<1>3. /\ cache' \in [Pools -> Slices] /\ \A q \in Pools : cache'[q].history \in Seq(1 .. Heard)
      /\ astray' \cup behind' \subseteq {q \in Pools : cache'[q].warm}
  BY <1>1, <1>2, OneDropped
<1>4. PastInv'
  BY <1>1, <1>3 DEF PastInv
<1>5. TypeOK'
  BY <1>1, <1>2, <1>3 DEF TypeInv, TypeOK
<1>6. TurnInv' /\ WorkInv' /\ JobInv'
  BY <1>1 DEF TypeInv, TurnInv, WorkInv, JobInv, InTurn
<1> QED
  BY <1>4, <1>5, <1>6 DEF TypeInv

\* What a job step does beside the slices: the transcript and the turn stay.
LEMMA BesideTurn ==
  ASSUME TypeInv, UNCHANGED <<began, said, turn>>
  PROVE  TurnInv' /\ Heard' = Heard /\ Heard \in Nat
<1>1. Heard \in Nat
  BY SaidIsPast, BoundsAreNat
<1> QED
  BY <1>1 DEF TypeInv, TurnInv, InTurn, Heard

\* A job whose status changes.
LEMMA JobChanges ==
  ASSUME NEW x \in JobStates, NEW st \in {"pending", "waiting", "running", "completed", "dead"}
  PROVE  /\ [x EXCEPT !.status = st] \in JobStates /\ [x EXCEPT !.status = st].status = st
         /\ [x EXCEPT !.status = st].dropped = x.dropped
         /\ [x EXCEPT !.status = st].result = x.result
  BY DEF JobStates

\* A job whose result changes.
LEMMA ResultChanges ==
  ASSUME NEW x \in JobStates, NEW v \in Results
  PROVE  /\ [x EXCEPT !.result = v] \in JobStates /\ [x EXCEPT !.result = v].result = v
         /\ [x EXCEPT !.result = v].status = x.status
         /\ [x EXCEPT !.result = v].dropped = x.dropped
  BY DEF JobStates

\* The job that is worked on, and that of no other turn, takes another state.
LEMMA OneJob ==
  ASSUME TypeInv, NEW t \in Turns, NEW j \in JobStates, job[t].status # "none",
         job' = [job EXCEPT ![t] = j], UNCHANGED said
  PROVE  job' \in [Turns -> JobStates] /\ JobInv'
  BY DEF TypeInv, TypeOK, JobInv

\* The worker's own job, while there is one.
LEMMA WorkedOn ==
  ASSUME TypeInv, worker.step # "idle"
  PROVE  /\ worker.pool \in Workers /\ worker.pool \in Pools /\ worker.job \in Turns
         /\ job[worker.job] \in JobStates /\ job[worker.job].status = "running"
         /\ worker.value \in SUBSET Turns /\ Folding \in SUBSET Turns
  BY PoolsServe DEF TypeInv, TypeOK, WorkInv, WorkStates, JobStates, Folding

\* A claim gives an idle worker its job.
LEMMA ClaimStep ==
  ASSUME TypeInv, NEW p \in Workers, NEW t \in Turns, Claim(p, t)
  PROVE  TypeInv'
<1> DEFINE j == [job[t] EXCEPT !.status = "running"]
<1>1. /\ worker = NoWork /\ job[t].status = "pending" /\ job' = [job EXCEPT ![t] = j]
      /\ worker' = [step |-> "claimed", pool |-> p, job |-> t, value |-> {}]
      /\ UNCHANGED <<began, said, done, snapshot, cache, turn, closing, faults, failed, astray, behind, races>>
  BY DEF Claim, At, store, history
<1>2. j \in JobStates /\ j.status = "running"
  <2>1. job[t] \in JobStates
    BY DEF TypeInv, TypeOK
  <2> QED
    BY <2>1, JobChanges
<1> HIDE DEF j
<1>3. job' \in [Turns -> JobStates] /\ JobInv'
  BY <1>1, <1>2, OneJob
<1>4. worker' \in WorkStates /\ WorkInv'
  BY <1>1, <1>2 DEF TypeInv, TypeOK, WorkStates, WorkInv
<1>5. TurnInv' /\ PastInv'
  BY <1>1, BesideTurn DEF TypeInv, PastInv
<1>6. TypeOK'
  BY <1>1, <1>3, <1>4 DEF TypeInv, TypeOK
<1> QED
  BY <1>3, <1>4, <1>5, <1>6 DEF TypeInv

\* The steps of the worker between the claim and the telling of the slice.
LEMMA FoldStep ==
  ASSUME TypeInv, Fold \/ FoldFails \/ SaveResult \/ PatchSnapshot
  PROVE  TypeInv'
<1>1. worker.step # "idle"
  BY DEF Fold, FoldFails, SaveResult, PatchSnapshot
<1> DEFINE k == worker.job
           j == [job[k] EXCEPT !.result = worker.value]
<1>2. /\ k \in Turns /\ job[k] \in JobStates /\ job[k].status = "running" /\ worker.pool \in Workers
      /\ worker.value \in SUBSET Turns /\ Folding \in SUBSET Turns
  BY <1>1, WorkedOn
<1>3. UNCHANGED <<began, said, done, cache, turn, closing, faults, failed, astray, behind>>
  BY DEF Fold, FoldFails, SaveResult, PatchSnapshot, store, history
<1>4. job' = job \/ job' = [job EXCEPT ![k] = j]
  <2>1. SaveResult => job' = [job EXCEPT ![k] = j]
    BY DEF SaveResult
  <2>2. Fold \/ FoldFails \/ PatchSnapshot => job' = job
    BY DEF Fold, FoldFails, PatchSnapshot
  <2> QED
    BY <2>1, <2>2
<1>5. j \in JobStates /\ j.status = "running" /\ j.result = worker.value
  <2>1. worker.value \in Results
    BY <1>2, ResultIs
  <2> QED
    BY <1>2, <2>1, ResultChanges
<1>6. Latest.summary \in SUBSET Turns /\ Latest.context_revision \in Nat
  BY LatestIs DEF Snapshots
<1>7. PICK v \in SUBSET Turns, st \in {"folded", "saved", "patched"} :
        /\ worker' = [worker EXCEPT !.step = st, !.value = v]
        /\ st # "folded" => job'[k].result = v
  <2>1. FoldOntoPrior \in SUBSET Turns
    BY <1>2, <1>6 DEF FoldOntoPrior
  <2>2. job[k].result # None => job[k].result \in SUBSET Turns
    BY <1>2, ResultIs DEF JobStates
  <2>3. CASE Fold
    BY <2>1, <2>2, <2>3 DEF Fold, WorkOn
  <2>4. CASE FoldFails
    BY <1>6, <2>4 DEF FoldFails, WorkOn
  <2>5. CASE SaveResult
    BY <1>2, <1>5, <2>5 DEF SaveResult, WorkOn, TypeInv, TypeOK
  <2>6. CASE PatchSnapshot
    BY <1>2, <2>6 DEF PatchSnapshot, WorkOn, TypeInv, WorkInv
  <2> QED
    BY <2>3, <2>4, <2>5, <2>6
<1>8. job' \in [Turns -> JobStates] /\ JobInv' /\ job'[k].status = "running"
  <2> HIDE DEF j
  <2> QED
    BY <1>2, <1>3, <1>4, <1>5, OneJob DEF TypeInv, TypeOK, JobInv
<1>9. worker' \in WorkStates /\ WorkInv'
  BY <1>1, <1>2, <1>7, <1>8 DEF TypeInv, TypeOK, WorkStates, WorkInv
<1>10. snapshot' \in [Turns -> Snapshots]
  <2>1. CASE PatchSnapshot
    <3>1. Snap(worker.value, NextRevision) \in Snapshots
      BY <1>2, <1>6 DEF Snap, NextRevision, Snapshots
    <3> QED
      BY <2>1, <3>1, LatestIs DEF PatchSnapshot, TypeInv, TypeOK
  <2>2. CASE ~ PatchSnapshot
    BY <2>2 DEF Fold, FoldFails, SaveResult, TypeInv, TypeOK, store
  <2> QED
    BY <2>1, <2>2
<1>11. races' \subseteq Kinds
  <2>1. races' = races \/ races' = races \cup {"failure"} \/ PatchSnapshot
    BY DEF Fold, FoldFails, SaveResult, PatchSnapshot, history
  <2>2. PatchSnapshot => races' \subseteq races \cup Kinds
    BY DEF PatchSnapshot, When, Kinds
  <2> QED
    BY <2>1, <2>2 DEF TypeInv, TypeOK, Kinds
<1>12. TurnInv' /\ PastInv'
  BY <1>3, BesideTurn DEF TypeInv, PastInv
<1>13. TypeOK'
  BY <1>3, <1>8, <1>9, <1>10, <1>11 DEF TypeInv, TypeOK
<1> QED
  BY <1>8, <1>9, <1>12, <1>13 DEF TypeInv

\* The slice that is told of the summary may be a new one.
LEMMA UpdateStep ==
  ASSUME TypeInv, UpdateCache
  PROVE  TypeInv'
<1> DEFINE p == worker.pool
<1>1. /\ worker.step = "patched"
      /\ worker' = [worker EXCEPT !.step = "cached", !.value = worker.value]
      /\ UNCHANGED <<began, said, done, snapshot, turn, closing, job, failed, behind>>
  BY DEF UpdateCache, WorkOn, store
<1>2. p \in Pools /\ worker.value \in SUBSET Turns
  BY <1>1, WorkedOn
<1>3. PICK s \in Sessions(p) :
        /\ GetSession(p, s) /\ cache' = [cache EXCEPT ![p] = [s EXCEPT !.summary = worker.value]]
        /\ races' = races \cup When(Misread(p, s), "failure")
  BY DEF UpdateCache
<1> DEFINE i == [s EXCEPT !.summary = worker.value]
<1>4. i \in Slices /\ i.warm /\ i.history \in Seq(1 .. Heard)
  BY <1>2, SessionIsPast DEF Slices
<1>5. Heard' = Heard /\ Heard \in Nat /\ TurnInv' /\ Heard <= Heard
  BY <1>1, BesideTurn
<1>6. faults' \in 0 .. MaxFaults /\ astray' \subseteq astray \cup {p} /\ races' \subseteq Kinds
  BY <1>2, <1>3, ReadsCount DEF When, Kinds, TypeInv, TypeOK
<1>7. /\ cache' \in [Pools -> Slices] /\ PastInv'
      /\ astray' \cup behind' \subseteq {q \in Pools : cache'[q].warm}
  <2>1. cache' = [cache EXCEPT ![p] = i]
    BY <1>3
  <2> HIDE DEF i, p
  <2>2. /\ cache' \in [Pools -> Slices]
        /\ \A q \in Pools : cache'[q].history \in Seq(1 .. Heard)
        /\ astray' \cup behind' \subseteq {q \in Pools : cache'[q].warm}
    BY <1>1, <1>2, <1>4, <1>5, <1>6, <2>1, OneFilled
  <2> QED
    BY <1>5, <2>2 DEF PastInv
<1>8. worker' \in WorkStates /\ WorkInv' /\ JobInv'
  BY <1>1 DEF TypeInv, TypeOK, WorkStates, WorkInv, JobInv
<1>9. TypeOK'
  BY <1>1, <1>6, <1>7, <1>8 DEF TypeInv, TypeOK
<1> QED
  BY <1>5, <1>7, <1>8, <1>9 DEF TypeInv

\* A job that is over, or waits for another attempt, leaves the worker idle.
LEMMA CompleteStep ==
  ASSUME TypeInv, Complete \/ Retry
  PROVE  TypeInv'
<1> DEFINE k == worker.job
<1>1. worker.step # "idle"
  BY DEF Complete, Retry
<1>2. /\ worker' = NoWork
      /\ UNCHANGED <<began, said, done, snapshot, cache, turn, closing, failed, astray, behind>>
  BY DEF Complete, Retry, store, history
<1>3. /\ k \in Turns /\ job[k] \in JobStates /\ job[k].status # "none"
  BY <1>1, WorkedOn
<1>4. PICK j \in JobStates : job' = [job EXCEPT ![k] = j]
  <2>1. CASE Complete
    <3> DEFINE i == [job[k] EXCEPT !.status = "completed"]
               j == [i EXCEPT !.result = None]
    <3>1. i \in JobStates
      BY <1>3, JobChanges
    <3>2. j \in JobStates
      BY <3>1, ResultIs, ResultChanges
    <3>3. j = [job[k] EXCEPT !.status = "completed", !.result = None]
      OBVIOUS
    <3>4. job' = [job EXCEPT ![k] = j]
      BY <2>1, <3>3 DEF Complete
    <3> QED
      BY <3>2, <3>4
  <2>2. CASE Retry
    BY <1>3, <2>2, JobChanges DEF Retry
  <2> QED
    BY <2>1, <2>2
<1>5. job' \in [Turns -> JobStates] /\ JobInv'
  BY <1>2, <1>3, <1>4, OneJob
<1>6. worker' \in WorkStates /\ WorkInv'
  BY <1>2 DEF NoWork, At, WorkStates, WorkInv
<1>7. TurnInv' /\ PastInv'
  BY <1>2, BesideTurn DEF TypeInv, PastInv
<1>8. faults' \in 0 .. MaxFaults /\ races' \subseteq Kinds
  <2>1. faults \in 0 .. MaxFaults /\ races \subseteq Kinds
    BY DEF TypeInv, TypeOK
  <2>2. faults' = faults \/ (faults < MaxFaults /\ faults' = faults + 1)
    BY DEF Complete, Retry
  <2>3. races' = races \/ races' = races \cup {"failure"}
    BY DEF Complete, Retry
  <2>4. faults' \in 0 .. MaxFaults
    BY <2>1, <2>2, BoundsAreNat
  <2>5. races' \subseteq Kinds
    BY <2>1, <2>3 DEF Kinds
  <2> QED
    BY <2>4, <2>5
<1>9. TypeOK'
  BY <1>2, <1>5, <1>6, <1>8 DEF TypeInv, TypeOK
<1> QED
  BY <1>5, <1>6, <1>7, <1>9 DEF TypeInv

\* The wait for another attempt ends.
LEMMA BackoffStep ==
  ASSUME TypeInv, NEW t \in Turns, BackoffEnds(t)
  PROVE  TypeInv'
<1> DEFINE j == [job[t] EXCEPT !.status = "pending"]
<1>1. /\ job[t].status = "waiting" /\ job' = [job EXCEPT ![t] = j]
      /\ UNCHANGED <<began, said, done, snapshot, cache, turn, closing, worker, faults, failed,
                     astray, behind, races>>
  BY DEF BackoffEnds, store, history
<1>2. j \in JobStates
  BY JobChanges DEF TypeInv, TypeOK
<1> HIDE DEF j
<1>3. job' \in [Turns -> JobStates] /\ JobInv'
  BY <1>1, <1>2, OneJob
<1>4. WorkInv'
  BY <1>1 DEF TypeInv, TypeOK, WorkInv
<1>5. TurnInv' /\ PastInv'
  BY <1>1, BesideTurn DEF TypeInv, PastInv
<1>6. TypeOK'
  BY <1>1, <1>3 DEF TypeInv, TypeOK
<1> QED
  BY <1>3, <1>4, <1>5, <1>6 DEF TypeInv

\* A slice, and with a crash the turn, the handlers and the job of its process.
LEMMA CrashStep ==
  ASSUME TypeInv, NEW p \in Pools, Crash(p) \/ Evict(p)
  PROVE  TypeInv'
<1>1. /\ DropSlice(p) /\ faults < MaxFaults /\ faults' = faults + 1
      /\ UNCHANGED <<began, said, done, snapshot, failed, races>>
      /\ turn' = turn \/ turn' = NoTurn
      /\ closing' \subseteq closing
  BY DEF Crash, Evict, store
<1>2. Heard' \in Nat /\ Heard <= Heard'
  BY <1>1, NoTurnIsOne, SaidIsPast, BoundsAreNat DEF Heard, TypeInv, TypeOK, TurnInv, InTurn
<1>3. /\ cache' \in [Pools -> Slices] /\ PastInv'
      /\ astray' \cup behind' \subseteq {q \in Pools : cache'[q].warm}
  <2> DEFINE n == Heard'
  <2> HIDE DEF n
  <2>1. /\ cache' \in [Pools -> Slices]
        /\ \A q \in Pools : cache'[q].history \in Seq(1 .. n)
        /\ astray' \cup behind' \subseteq {q \in Pools : cache'[q].warm}
    BY <1>1, <1>2, OneDropped DEF n
  <2> QED
    BY <2>1 DEF PastInv, n
<1>4. turn' \in TurnStates /\ TurnInv'
  BY <1>1, NoTurnIsOne DEF TypeInv, TypeOK, TurnInv, InTurn
<1>5. job' \in [Turns -> JobStates] /\ JobInv' /\ worker' \in WorkStates /\ WorkInv'
  <2>1. CASE UNCHANGED <<worker, job>>
    BY <1>1, <2>1 DEF TypeInv, TypeOK, JobInv, WorkInv
  <2>2. CASE Crash(p) /\ worker.pool = p
    <3> DEFINE k == worker.job
               j == [job[k] EXCEPT !.status = "pending"]
    <3>1. worker' = NoWork /\ job' = [job EXCEPT ![k] = j]
      BY <2>2 DEF Crash
    <3>2. worker.step # "idle"
      BY <2>2, NoneIsNoPool DEF TypeInv, WorkInv, NoWork, At
    <3>3. k \in Turns /\ job[k] \in JobStates /\ job[k].status # "none"
      BY <3>2, WorkedOn
    <3>4. j \in JobStates
      BY <3>3, JobChanges
    <3> HIDE DEF j, k
    <3>5. job' \in [Turns -> JobStates] /\ JobInv'
      BY <1>1, <3>1, <3>3, <3>4, OneJob
    <3>6. worker' \in WorkStates /\ WorkInv'
      BY <3>1 DEF NoWork, At, WorkStates, WorkInv
    <3> QED
      BY <3>5, <3>6
  <2> QED
    BY <2>1, <2>2 DEF Crash, Evict
<1>6. faults' \in 0 .. MaxFaults
  BY <1>1, BoundsAreNat DEF TypeInv, TypeOK
<1>7. TypeOK'
  BY <1>1, <1>3, <1>4, <1>5, <1>6 DEF TypeInv, TypeOK
<1> QED
  BY <1>3, <1>4, <1>5, <1>7 DEF TypeInv

\* At first every slice is cold and every job is to come.
LEMMA TypeInit == Init => TypeInv
<1> SUFFICES ASSUME Init PROVE TypeInv
  OBVIOUS
<1>1. /\ said = <<>> /\ <<>> \in Seq(1 .. began) /\ Ascending(<<>>) /\ began = 0
      /\ done = {} /\ turn = NoTurn /\ worker = NoWork /\ closing = {}
      /\ snapshot = [t \in Turns |-> NoSnapshot]
      /\ cache = [p \in Pools |-> Cold] /\ job = [t \in Turns |-> NoJob] /\ faults = 0 /\ failed = 0
      /\ astray = {} /\ behind = {} /\ races = {}
  BY ColdIsPast, HistoryIs DEF Init, Cold, Slice, Slices
<1>2. cache \in [Pools -> Slices] /\ PastInv
  BY <1>1, ColdIsPast, NoTurnIsOne DEF PastInv, Heard
<1>3. turn \in TurnStates /\ TurnInv
  BY <1>1, NoTurnIsOne DEF TurnInv, InTurn
<1>4. job \in [Turns -> JobStates] /\ JobInv
  BY <1>1, ResultIs DEF NoJob, Job, JobStates, JobInv
<1>5. worker \in WorkStates /\ WorkInv
  BY <1>1 DEF NoWork, At, WorkStates, WorkInv
<1>6. snapshot \in [Turns -> Snapshots]
  BY <1>1 DEF NoSnapshot, Snap, Snapshots
<1>7. TypeOK
  BY <1>1, <1>2, <1>3, <1>4, <1>5, <1>6, BoundsAreNat DEF TypeOK
<1> QED
  BY <1>2, <1>3, <1>4, <1>5, <1>7 DEF TypeInv

\* Every step keeps the types.
LEMMA TypeStep == TypeInv /\ [Next \/ Finished]_vars => TypeInv'
<1> SUFFICES ASSUME TypeInv, [Next \/ Finished]_vars PROVE TypeInv'
  OBVIOUS
<1>1. ASSUME UNCHANGED vars PROVE TypeInv'
  BY <1>1, BesideTurn DEF vars, store, history, TypeInv, TypeOK, PastInv, WorkInv, JobInv
<1> QED
  BY <1>1, BeginStep, WriteBackStep, BuildStep, OverStep, FailTurnStep, ClearStep, ClaimStep,
     FoldStep, UpdateStep, CompleteStep, BackoffStep, CrashStep
     DEF Next, TurnStep, EndStep, JobStep, Finished

-----------------------------------------------------------------------------
(* The window follows the transcript.                                       *)

\* A session that was read well is what the pool is expected to hold.
LEMMA SessionFollows ==
  ASSUME TypeInv, WindowInv, NEW p \in Servers \ behind, NEW s \in Sessions(p), GetSession(p, s),
         Closing(p) = {}, p \notin astray'
  PROVE  s.history = Expected(p)
<1>1. CASE cache[p].warm
  <2>1. s = cache[p]
    BY <1>1 DEF Sessions
  <2>2. p \notin astray
    BY <1>1 DEF GetSession
  <2> QED
    BY <1>1, <2>1, <2>2 DEF WindowInv, Settled
<1>2. CASE ~ cache[p].warm
  BY <1>2 DEF GetSession, Expected
<1> QED
  BY <1>1, <1>2

\* A slice that a step leaves alone is still what its pool should hold.
LEMMA StillFollows ==
  ASSUME TypeInv, WindowInv, UNCHANGED <<began, said>>, NEW q \in Servers \ behind,
         Settled(q)', cache'[q] = cache[q], q \in astray => q \in astray',
         Closing(q)' = {} => Closing(q) = {}, Ahead(q)' <=> Ahead(q)
  PROVE  cache'[q].history = Expected(q)'
<1>1. Settled(q)
  BY DEF Settled
<1>2. cache[q].history = Expected(q)
  BY <1>1 DEF WindowInv
<1>3. Expected(q)' = Expected(q)
  BY DEF Expected, Rehydrated
<1> QED
  BY <1>2, <1>3

\* A turn that begins is given the window; no other slice changes.
LEMMA BeginFollows ==
  ASSUME TypeInv, WindowInv, NEW p \in Servers, BeginTurn(p)
  PROVE  WindowInv'
<1>1. PICK s \in Sessions(p) : GetSession(p, s) /\ cache' = [cache EXCEPT ![p] = s]
  BY DEF BeginTurn
<1>2. /\ UNCHANGED <<said, closing, behind>> /\ p \in Pools /\ turn = NoTurn /\ turn'.step = "running"
      /\ cache \in [Pools -> Slices]
  BY PoolsServe DEF BeginTurn, TurnAt, TypeInv, TypeOK
<1>3. \A q : ~ Ahead(q) /\ ~ Ahead(q)'
  BY <1>2, NoTurnIsOne DEF Ahead
<1>4. \A q : Expected(q)' = Rehydrated /\ Expected(q) = Rehydrated
  BY <1>2, <1>3 DEF Expected, Rehydrated
<1> SUFFICES ASSUME NEW q \in Servers \ behind, Settled(q)' PROVE cache'[q].history = Rehydrated
  BY <1>2, <1>4 DEF WindowInv
<1>5. Closing(q) = {} /\ q \notin astray' /\ q \in Pools
  BY <1>2, PoolsServe DEF Settled, Closing
<1>6. CASE q = p
  <2>1. s.history = Expected(p)
    BY <1>1, <1>5, <1>6, SessionFollows
  <2> QED
    BY <1>1, <1>2, <1>4, <1>6, <2>1
<1>7. CASE q # p
  <2>1. cache'[q] = cache[q] /\ q \notin astray
    BY <1>1, <1>2, <1>5, <1>7 DEF GetSession
  <2>2. Settled(q)
    BY <1>5, <2>1 DEF Settled
  <2> QED
    BY <1>4, <2>1, <2>2 DEF WindowInv
<1> QED
  BY <1>6, <1>7

\* The turn is appended to the window and the window is trimmed.
LEMMA WriteBackFollows ==
  ASSUME TypeInv, WindowInv, WriteBack
  PROVE  WindowInv'
<1> DEFINE p == turn.pool
<1>1. PICK s \in Sessions(p) :
        /\ GetSession(p, s)
        /\ cache' = [cache EXCEPT ![p] = [s EXCEPT !.history = Hot(Append(s.history, began))]]
        /\ turn' = [turn EXCEPT !.step = "written", !.dropped = LeavesWindow(Append(s.history, began))]
  BY DEF WriteBack
<1>2. /\ UNCHANGED <<began, said, closing, behind>> /\ turn.step = "running" /\ InTurn
      /\ cache \in [Pools -> Slices] /\ turn \in TurnStates
  BY DEF WriteBack, store, InTurn, TypeInv, TypeOK
<1>3. p \in Pools /\ p \in Servers
  BY <1>2, RunsLast
<1>4. turn'.step = "written" /\ turn'.pool = p
  BY <1>1, <1>2 DEF TurnStates
<1> HIDE DEF p
<1> SUFFICES ASSUME NEW q \in Servers \ behind, Settled(q)' PROVE cache'[q].history = Expected(q)'
  BY <1>2 DEF WindowInv
<1>5. Closing(q) = {} /\ q \notin astray' /\ q \in Pools
  BY <1>2, PoolsServe DEF Settled, Closing
<1>6. CASE q = p
  <2>1. s.history = Rehydrated
    BY <1>1, <1>2, <1>5, <1>6, SessionFollows DEF Expected, Ahead
  <2>2. Expected(q)' = Hot(Append(said, began))
    BY <1>2, <1>4, <1>6 DEF Expected, Ahead
  <2>3. s \in [warm : BOOLEAN, history : Histories, summary : SUBSET Turns]
    BY <1>3, SessionIsPast DEF Slices
  <2>4. cache'[q].history = Hot(Append(s.history, began))
    <3>1. cache'[q] = [s EXCEPT !.history = Hot(Append(s.history, began))]
      BY <1>1, <1>2, <1>3, <1>6
    <3> QED
      BY <2>3, <3>1
  <2>5. Hot(Append(Hot(said), began)) = Hot(Append(said, began))
    <3>1. said \in Seq(Nat) /\ began \in Nat
      <4>1. said \in Seq(1 .. began) /\ began \in Nat /\ 1 .. began \subseteq Nat
        BY BoundsAreNat DEF TypeInv, TypeOK
      <4> QED
        BY <4>1, SeqMonotonic
    <3> QED
      BY <3>1, HotAppend
  <2> QED
    BY <2>1, <2>2, <2>4, <2>5 DEF Rehydrated
<1>7. CASE q # p
  <2>1. cache'[q] = cache[q] /\ (q \in astray => q \in astray')
    BY <1>1, <1>2, <1>3, <1>5, <1>7 DEF GetSession
  <2>2. Ahead(q)' <=> Ahead(q)
    BY <1>2, <1>4, <1>7 DEF Ahead, p
  <2> QED
    BY <1>2, <1>5, <2>1, <2>2, StillFollows
<1> QED
  BY <1>6, <1>7

\* A session that is read while the turn of its pool is in the slice only, or that is
\* told of a summary, keeps its window or goes astray.
LEMMA ReadFollows ==
  ASSUME TypeInv, WindowInv, NEW p \in Pools, NEW s \in Sessions(p), GetSession(p, s),
         NEW i \in Slices, i.history = s.history, cache' = [cache EXCEPT ![p] = i],
         UNCHANGED <<began, said, closing, behind>>, \A q \in Servers : Ahead(q)' <=> Ahead(q)
  PROVE  WindowInv'
<1> SUFFICES ASSUME NEW q \in Servers \ behind, Settled(q)' PROVE cache'[q].history = Expected(q)'
  BY DEF WindowInv
<1>1. Closing(q) = {} /\ q \notin astray' /\ q \in Pools /\ cache \in [Pools -> Slices]
  BY PoolsServe DEF Settled, Closing, TypeInv, TypeOK
<1>2. CASE q = p
  <2>1. s.history = Expected(q)
    BY <1>1, <1>2, SessionFollows
  <2>2. Expected(q)' = Expected(q)
    BY DEF Expected, Rehydrated
  <2> QED
    BY <1>1, <1>2, <2>1, <2>2
<1>3. CASE q # p
  <2>1. cache'[q] = cache[q] /\ (q \in astray => q \in astray')
    BY <1>1, <1>3 DEF GetSession
  <2> QED
    BY <1>1, <2>1, StillFollows
<1> QED
  BY <1>2, <1>3

\* The snapshot is built of a session.
LEMMA BuildFollows ==
  ASSUME TypeInv, WindowInv, BuildSnapshot
  PROVE  WindowInv'
<1>1. PICK s \in Sessions(turn.pool) :
        /\ GetSession(turn.pool, s) /\ cache' = [cache EXCEPT ![turn.pool] = s]
        /\ turn' = [turn EXCEPT !.step = "built", !.snap = Snap(s.summary, NextRevision)]
  BY DEF BuildSnapshot
<1>2. UNCHANGED <<began, said, closing, behind>> /\ turn.step = "written" /\ InTurn /\ turn \in TurnStates
  BY DEF BuildSnapshot, store, InTurn, TypeInv, TypeOK
<1>3. turn.pool \in Pools
  BY <1>2, RunsLast
<1>4. s \in Slices
  BY <1>3, SessionIsPast
<1>5. \A q \in Servers : Ahead(q)' <=> Ahead(q)
  <2>1. turn'.step = "built" /\ turn'.pool = turn.pool
    BY <1>1, <1>2 DEF TurnStates
  <2> QED
    BY <1>2, <2>1 DEF Ahead
<1> QED
  BY <1>1, <1>2, <1>3, <1>4, <1>5, ReadFollows

\* The worker tells its own pool.
LEMMA UpdateFollows ==
  ASSUME TypeInv, WindowInv, UpdateCache
  PROVE  WindowInv'
<1>1. PICK s \in Sessions(worker.pool) :
        /\ GetSession(worker.pool, s)
        /\ cache' = [cache EXCEPT ![worker.pool] = [s EXCEPT !.summary = worker.value]]
  BY DEF UpdateCache
<1>2. UNCHANGED <<began, said, closing, behind, turn>> /\ worker.step # "idle"
  BY DEF UpdateCache, store
<1>3. worker.pool \in Pools /\ worker.value \in SUBSET Turns
  BY <1>2, WorkedOn
<1> DEFINE i == [s EXCEPT !.summary = worker.value]
<1>4. i \in Slices /\ i.history = s.history
  <2>1. s \in Slices
    BY <1>3, SessionIsPast
  <2> QED
    BY <1>3, <2>1 DEF Slices
<1>5. \A q \in Servers : Ahead(q)' <=> Ahead(q)
  BY <1>2 DEF Ahead
<1>6. cache' = [cache EXCEPT ![worker.pool] = i]
  BY <1>1
<1> HIDE DEF i
<1> QED
  BY <1>1, <1>2, <1>3, <1>4, <1>5, <1>6, ReadFollows

\* The turn that is answered or failed: the window of its pool ends with it, or its
\* handler is about to clear it; the other pools are behind.
LEMMA OverFollows ==
  ASSUME TypeInv, WindowInv,
         Finalize \/ FinalizeUnread \/ FinalizeFailed \/ FinalizeRaises \/ HangUp
  PROVE  WindowInv'
<1>1. InTurn /\ turn' = NoTurn /\ UNCHANGED <<began, cache, astray>> /\ turn.pool \in Pools
  <2>1. InTurn
    BY DEF Finalize, FinalizeUnread, Commit, FinalizeFailed, FinalizeRaises, HangUp, InTurn, NoTurn,
           TurnAt, TypeInv, TurnInv
  <2> QED
    BY <2>1, RunsLast DEF Finalize, FinalizeUnread, Commit, FinalizeFailed, FinalizeRaises, HangUp,
           store, history
<1>2. \A q : ~ Ahead(q)'
  BY <1>1, NoTurnIsOne DEF Ahead
<1> SUFFICES ASSUME NEW q \in Servers \ behind', Settled(q)' PROVE cache'[q].history = Expected(q)'
  BY DEF WindowInv
<1>3. cache[q].warm /\ q \notin astray /\ Closing(q)' = {} /\ q \in Pools
  BY <1>1, PoolsServe DEF Settled
<1>4. ASSUME NEW st \in {"undo", "clear"}, Fails(st) PROVE q # turn.pool
  <2>1. Ending(began, turn.pool, st) \in closing' /\ Ending(began, turn.pool, st).pool = turn.pool
    BY <1>4 DEF Fails, Ending
  <2> QED
    BY <1>3, <2>1 DEF Closing
<1>5. ASSUME LeaveBehind PROVE q = turn.pool
  BY <1>1, <1>3, <1>5 DEF LeaveBehind
<1>6. CASE Finalize
  <2>1. Commit /\ closing' = closing /\ q = turn.pool
    BY <1>5, <1>6 DEF Finalize, Commit
  <2>2. q \notin behind /\ Ahead(q) /\ said' = Append(said, began)
    BY <2>1 DEF Commit, LeaveBehind, Ahead
  <2>3. Settled(q)
    BY <1>3, <2>1 DEF Settled, Closing
  <2>4. cache[q].history = Hot(Append(said, began))
    BY <2>2, <2>3 DEF WindowInv, Expected
  <2> QED
    BY <1>1, <1>2, <2>2, <2>4 DEF Expected, Rehydrated
<1>7. CASE FinalizeUnread \/ FinalizeFailed
  BY <1>4, <1>5, <1>7 DEF FinalizeUnread, Commit, FinalizeFailed
<1>8. CASE FinalizeRaises \/ HangUp
  <2>1. UNCHANGED <<said, behind>> /\ (FinalizeRaises => q # turn.pool)
    BY <1>4, <1>8 DEF FinalizeRaises, HangUp, store, history
  <2>2. ~ Ahead(q)
    BY <1>8, <2>1 DEF Ahead, HangUp
  <2>3. closing \subseteq closing'
    BY <1>8 DEF FinalizeRaises, HangUp, Fails
  <2>4. Closing(q)' = {} => Closing(q) = {}
    BY <2>3 DEF Closing
  <2> QED
    BY <1>1, <1>2, <2>1, <2>2, <2>4, StillFollows
<1> QED
  BY <1>6, <1>7, <1>8

\* A handler that takes a turn back has its slice to clear as before.
LEMMA FailTurnFollows ==
  ASSUME TypeInv, WindowInv, NEW c \in closing, FailTurn(c)
  PROVE  WindowInv'
<1>1. /\ UNCHANGED <<began, said, cache, turn, astray, behind>>
      /\ closing' = (closing \ {c}) \cup {Ending(c.turn, c.pool, "clear")}
  BY DEF FailTurn, history
<1> SUFFICES ASSUME NEW q \in Servers \ behind, Settled(q)' PROVE cache'[q].history = Expected(q)'
  BY <1>1 DEF WindowInv
<1>2. ASSUME Closing(q)' = {} PROVE Closing(q) = {}
  <2>1. Ending(c.turn, c.pool, "clear").pool = c.pool
    BY DEF Ending
  <2>2. c.pool # q
    BY <1>1, <1>2, <2>1 DEF Closing
  <2> QED
    BY <1>1, <1>2, <2>2 DEF Closing
<1>3. Ahead(q)' <=> Ahead(q)
  BY <1>1 DEF Ahead
<1> QED
  BY <1>1, <1>2, <1>3, StillFollows

\* A slice that is dropped is no concern; nothing else of another pool changes.
LEMMA DropFollows ==
  ASSUME TypeInv, WindowInv, NEW p \in Pools, DropSlice(p), UNCHANGED <<began, said>>,
         turn' = turn \/ (turn.pool = p /\ turn' = NoTurn),
         \A c \in closing : c.pool # p => c \in closing'
  PROVE  WindowInv'
<1>1. ~ cache'[p].warm /\ \A q \in Pools \ {p} : cache'[q] = cache[q]
  <2>1. Heard \in Nat /\ Heard <= Heard
    BY SaidIsPast, BoundsAreNat
  <2> QED
    BY <2>1, OneDropped
<1> SUFFICES ASSUME NEW q \in Servers \ behind', Settled(q)' PROVE cache'[q].history = Expected(q)'
  BY DEF WindowInv
<1>2. q # p /\ q \in Pools /\ cache'[q] = cache[q]
  BY <1>1, PoolsServe DEF Settled
<1>3. q \notin behind /\ (q \in astray => q \in astray')
  BY <1>2 DEF DropSlice
<1>4. Closing(q)' = {} => Closing(q) = {}
  BY <1>2 DEF Closing
<1>5. Ahead(q)' <=> Ahead(q)
  BY <1>2, NoTurnIsOne DEF Ahead
<1> QED
  BY <1>2, <1>3, <1>4, <1>5, StillFollows

\* What a job step does to the slices is to tell one.
LEMMA WorkFollows ==
  ASSUME TypeInv, WindowInv, UNCHANGED <<began, said, cache, turn, closing, astray, behind>>
  PROVE  WindowInv'
  BY DEF WindowInv, Settled, Closing, Expected, Ahead, Rehydrated

\* Every step keeps the windows.
LEMMA WindowStep == TypeInv /\ WindowInv /\ [Next \/ Finished]_vars => WindowInv'
<1> SUFFICES ASSUME TypeInv, WindowInv, [Next \/ Finished]_vars PROVE WindowInv'
  OBVIOUS
<1>1. ASSUME NEW c \in closing, Clear(c) PROVE WindowInv'
  <2>1. /\ DropSlice(c.pool) /\ UNCHANGED <<began, said, turn>> /\ closing' = closing \ {c}
        /\ c.pool \in Pools
    BY <1>1, PoolsServe DEF Clear, store, TypeInv, TypeOK, Endings
  <2> QED
    BY <2>1, DropFollows
<1>2. ASSUME NEW p \in Pools, Crash(p) \/ Evict(p) PROVE WindowInv'
  <2>1. /\ DropSlice(p) /\ UNCHANGED <<began, said>>
        /\ turn' = turn \/ (turn.pool = p /\ turn' = NoTurn)
        /\ \A c \in closing : c.pool # p => c \in closing'
    BY <1>2 DEF Crash, Evict, store, Closing
  <2> QED
    BY <2>1, DropFollows
<1>3. ASSUME \/ \E p \in Workers, t \in Turns : Claim(p, t)
             \/ Fold \/ FoldFails \/ SaveResult \/ PatchSnapshot \/ Complete \/ Retry
             \/ \E t \in Turns : BackoffEnds(t)
             \/ UNCHANGED vars
      PROVE  WindowInv'
  <2>1. UNCHANGED <<began, said, cache, turn, closing, astray, behind>>
    BY <1>3 DEF Claim, Fold, FoldFails, SaveResult, PatchSnapshot, Complete, Retry, BackoffEnds,
                vars, store, history
  <2> QED
    BY <2>1, WorkFollows
<1> QED
  BY <1>1, <1>2, <1>3, BeginFollows, WriteBackFollows, BuildFollows, OverFollows, FailTurnFollows,
     UpdateFollows DEF Next, TurnStep, EndStep, JobStep, Finished

\* At first no slice is warm.
LEMMA WindowInit == Init => WindowInv
<1> SUFFICES ASSUME Init, NEW p \in Servers, Settled(p) PROVE FALSE
  BY DEF WindowInv
<1>1. p \in Pools /\ cache = [q \in Pools |-> Cold]
  BY PoolsServe DEF Init
<1> QED
  BY <1>1, ColdIsPast DEF Settled

-----------------------------------------------------------------------------
(* What holds while there was no race.                                      *)

\* No step takes a race back.
LEMMA RacesGrow ==
  ASSUME [Next \/ Finished]_vars, races' = {}
  PROVE  races = {}
  BY DEF Next, TurnStep, EndStep, JobStep, Finished, vars, history, BeginTurn, WriteBack,
         BuildSnapshot, Finalize, FinalizeUnread, Commit, FinalizeFailed, FinalizeRaises, HangUp,
         FailTurn, Clear, Claim, Fold, FoldFails, SaveResult, PatchSnapshot, UpdateCache, Complete,
         Retry, BackoffEnds, Crash, Evict

\* The latest snapshot changes with the completed turns and the snapshots only.
LEMMA LatestStays ==
  ASSUME UNCHANGED <<done, snapshot>>
  PROVE  Latest' = Latest
  BY DEF Latest, LastDone

\* A session that is read well has the summary of the slice or of the store, and does
\* not lead astray.
LEMMA SessionIsSound ==
  ASSUME TypeInv, Sound, NEW p \in Pools, NEW s \in Sessions(p), GetSession(p, s), ~ Misread(p, s)
  PROVE  /\ astray' = {} /\ s \in Slices /\ s.warm
         /\ s.summary = IF cache[p].warm THEN cache[p].summary ELSE Latest.summary
<1>1. s \in Slices /\ s.warm /\ (cache[p].warm => s = cache[p])
  BY SessionIsPast
<1>2. CASE cache[p].warm
  BY <1>1, <1>2 DEF Sound, GetSession
<1>3. CASE ~ cache[p].warm
  <2>1. s = [warm |-> TRUE, history |-> Rehydrated, summary |-> Latest.summary]
    BY <1>3 DEF Misread, Filled, Slice
  <2>2. ~ Ahead(p)
    BY <1>3 DEF Sound, Ahead
  <2> QED
    BY <1>1, <1>3, <2>1, <2>2 DEF Sound, GetSession
<1> QED
  BY <1>2, <1>3

\* A slice that is read well agrees as before.
LEMMA ReadAgrees ==
  ASSUME TypeInv, SlicesAgree, NEW p \in Pools, NEW s \in Slices, NEW i \in Slices,
         s.summary = IF cache[p].warm THEN cache[p].summary ELSE Latest.summary,
         i.summary = s.summary, cache' = [cache EXCEPT ![p] = i],
         UNCHANGED <<done, snapshot, worker, job>>
  PROVE  SlicesAgree'
<1>1. Latest' = Latest /\ Folding' = Folding /\ \A q : Untold(q)' <=> Untold(q)
  BY LatestStays DEF Folding, Untold
<1>2. cache \in [Pools -> Slices] /\ Servers \subseteq Pools
  BY PoolsServe DEF TypeInv, TypeOK
<1> SUFFICES ASSUME NEW q \in Servers, cache'[q].warm
             PROVE  IF Untold(q) THEN Latest.summary \subseteq cache'[q].summary \cup Folding
                                 ELSE cache'[q].summary = Latest.summary
  BY <1>1 DEF SlicesAgree
<1>3. CASE q = p
  BY <1>2, <1>3 DEF SlicesAgree
<1>4. CASE q # p
  BY <1>2, <1>4 DEF SlicesAgree
<1> QED
  BY <1>3, <1>4

\* Nothing that is owed or done changes with the slices.
LEMMA CarriedStays ==
  ASSUME Carried, UNCHANGED <<said, done, snapshot, job>>
  PROVE  Carried'
  BY LatestStays DEF Carried, Owed, Queued, Rehydrated

LEMMA JobsStay ==
  ASSUME JobsAgree, WorkAgrees, UNCHANGED <<done, snapshot, job, worker>>
  PROVE  JobsAgree' /\ WorkAgrees'
  BY LatestStays DEF JobsAgree, WorkAgrees, Queued, Folding

\* A turn begins on a slice that follows the transcript.
LEMMA BeginIsQuiet ==
  ASSUME TypeInv, QuietInv, NEW p \in Servers, BeginTurn(p), races' = {}
  PROVE  QuietInv'
<1>1. PICK s \in Sessions(p) :
        /\ GetSession(p, s) /\ cache' = [cache EXCEPT ![p] = s]
        /\ p \notin behind /\ ~ Misread(p, s) /\ Closing(p) = {}
  BY DEF BeginTurn, When
<1>2. /\ UNCHANGED <<said, done, snapshot, closing, job, worker, behind>> /\ p \in Pools
      /\ turn'.step = "running" /\ turn'.pool = p
  BY PoolsServe DEF BeginTurn, TurnAt
<1>3. /\ astray' = {} /\ s \in Slices
      /\ s.summary = IF cache[p].warm THEN cache[p].summary ELSE Latest.summary
  BY <1>1, <1>2, SessionIsSound DEF QuietInv
<1>4. Sound'
  BY <1>1, <1>2, <1>3 DEF Sound, InTurn, Closing
<1>5. SlicesAgree'
  BY <1>1, <1>2, <1>3, ReadAgrees DEF QuietInv, Agreed
<1>6. JobsAgree' /\ WorkAgrees' /\ SnapshotAgrees' /\ Carried'
  BY <1>2, JobsStay, CarriedStays DEF QuietInv, Agreed, SnapshotAgrees
<1> QED
  BY <1>4, <1>5, <1>6 DEF QuietInv, Agreed

\* What the turn pushes out of the window is what it queues.
LEMMA WriteBackIsQuiet ==
  ASSUME TypeInv, WindowInv, QuietInv, WriteBack, races' = {}
  PROVE  QuietInv'
<1> DEFINE p == turn.pool
<1>1. PICK s \in Sessions(p) :
        /\ GetSession(p, s) /\ ~ Misread(p, s)
        /\ cache' = [cache EXCEPT ![p] = [s EXCEPT !.history = Hot(Append(s.history, began))]]
        /\ turn' = [turn EXCEPT !.step = "written", !.dropped = LeavesWindow(Append(s.history, began))]
  BY DEF WriteBack, When
<1>2. /\ UNCHANGED <<began, said, done, snapshot, closing, job, worker, behind>>
      /\ turn.step = "running" /\ InTurn /\ turn \in TurnStates /\ cache \in [Pools -> Slices]
  BY DEF WriteBack, store, InTurn, TypeInv, TypeOK
<1>3. p \in Pools /\ p \in Servers /\ Closing(p) = {} /\ p \notin behind
  BY <1>2, RunsLast DEF QuietInv, Sound
<1>4. /\ astray' = {} /\ s \in Slices /\ s.warm
      /\ s.summary = IF cache[p].warm THEN cache[p].summary ELSE Latest.summary
  BY <1>1, <1>3, SessionIsSound DEF QuietInv
<1>5. s.history = Hot(said)
  BY <1>1, <1>2, <1>3, <1>4, SessionFollows DEF Expected, Ahead, Rehydrated
<1> DEFINE h == Append(Hot(said), began)
           i == [s EXCEPT !.history = Hot(h)]
<1>6. /\ turn'.step = "written" /\ turn'.pool = p /\ turn'.dropped = LeavesWindow(h)
      /\ cache' = [cache EXCEPT ![p] = i]
  BY <1>1, <1>2, <1>5 DEF TurnStates
<1>7. i \in Slices /\ i.warm /\ i.summary = s.summary
  <2>1. /\ Hot(said) \in Seq(1 .. began - 1) /\ Ascending(Hot(said))
        /\ began - 1 \in 0 .. MaxTurns /\ began = (began - 1) + 1 /\ began \in 0 .. MaxTurns
    <3>1. Heard = began - 1 /\ s \in Sessions(p)
      BY <1>2 DEF Heard
    <3>2. s.history \in Seq(1 .. began - 1) /\ s.history \in Histories
      BY <1>3, <3>1, SessionIsPast
    <3> QED
      BY <1>2, <1>5, <3>2, RunsLast, HistoryIs DEF TypeInv, TypeOK
  <2>2. h \in Seq(1 .. began) /\ Ascending(h)
    BY <2>1, AppendAscends, BoundsAreNat
  <2>3. Hot(h) \in Histories
    BY <2>1, <2>2, HotIsHistory
  <2> QED
    BY <1>4, <2>3 DEF Slices
<1>8. ToSet(Rehydrated) \subseteq ToSet(Hot(Append(said, began))) \cup LeavesWindow(h)
  <2>1. said \in Seq(Nat) /\ began \in Nat
    <3>1. said \in Seq(1 .. began) /\ began \in Nat /\ 1 .. began \subseteq Nat
      BY BoundsAreNat DEF TypeInv, TypeOK
    <3> QED
      BY <3>1, SeqMonotonic
  <2>2. Hot(h) = Hot(Append(said, began))
    BY <2>1, HotAppend
  <2>3. ToSet(Hot(said)) \subseteq ToSet(h)
    <3>1. Hot(said) \in Seq(Nat) /\ Len(Hot(said)) \in Nat
      BY <2>1, HotIsTheEnd, LenProperties
    <3>2. /\ DOMAIN Hot(said) = 1 .. Len(Hot(said)) /\ DOMAIN h = 1 .. Len(Hot(said)) + 1
          /\ \A k \in 1 .. Len(Hot(said)) : h[k] = Hot(said)[k]
      BY <2>1, <3>1, AppendProperties, LenProperties
    <3> QED
      BY <3>1, <3>2 DEF ToSet
  <2> QED
    BY <2>2, <2>3 DEF LeavesWindow, Rehydrated
<1> HIDE DEF i, h, p
<1>9. Sound'
  <2>1. cache'[p].warm /\ Rehydrated' = Rehydrated /\ Append(said, began)' = Append(said, began)
    BY <1>2, <1>3, <1>6, <1>7 DEF Rehydrated
  <2>2. turn'.step # "none" /\ {c \in closing' : c.pool = p} = {} /\ p \notin behind'
    BY <1>2, <1>3, <1>6 DEF Closing
  <2>3. turn'.pool = p /\ turn'.dropped = LeavesWindow(h)
    BY <1>6
  <2> QED
    BY <1>2, <1>4, <1>8, <2>1, <2>2, <2>3 DEF Sound, Closing
<1>10. SlicesAgree'
  BY <1>2, <1>3, <1>4, <1>6, <1>7, ReadAgrees DEF QuietInv, Agreed
<1>11. JobsAgree' /\ WorkAgrees' /\ SnapshotAgrees' /\ Carried'
  BY <1>2, <1>6, JobsStay, CarriedStays DEF QuietInv, Agreed, SnapshotAgrees
<1> QED
  BY <1>9, <1>10, <1>11 DEF QuietInv, Agreed

\* The snapshot is built of the summary that is the latest.
LEMMA BuildIsQuiet ==
  ASSUME TypeInv, QuietInv, BuildSnapshot, races' = {}
  PROVE  QuietInv'
<1> DEFINE p == turn.pool
<1>1. PICK s \in Sessions(p) :
        /\ GetSession(p, s) /\ ~ Misread(p, s) /\ cache' = [cache EXCEPT ![p] = s]
        /\ turn' = [turn EXCEPT !.step = "built", !.snap = Snap(s.summary, NextRevision)]
        /\ ~ Untold(p)
  BY DEF BuildSnapshot, When, Untold
<1>2. /\ UNCHANGED <<began, said, done, snapshot, closing, job, worker, behind>>
      /\ turn.step = "written" /\ InTurn /\ turn \in TurnStates /\ cache \in [Pools -> Slices]
  BY DEF BuildSnapshot, store, InTurn, TypeInv, TypeOK
<1>3. p \in Pools /\ p \in Servers /\ Closing(p) = {} /\ p \notin behind /\ cache[p].warm
  BY <1>2, RunsLast DEF QuietInv, Sound
<1>4. /\ astray' = {} /\ s \in Slices /\ s.warm
      /\ s.summary = IF cache[p].warm THEN cache[p].summary ELSE Latest.summary
  BY <1>1, <1>3, SessionIsSound DEF QuietInv
<1>5. s.summary = Latest.summary
  BY <1>1, <1>3, <1>4 DEF QuietInv, Agreed, SlicesAgree
<1>6. /\ turn'.step = "built" /\ turn'.pool = p /\ turn'.dropped = turn.dropped
      /\ turn'.snap.summary = s.summary
  BY <1>1, <1>2 DEF TurnStates, Snap
<1> HIDE DEF p
<1>7. Sound'
  <2>1. cache'[p].warm /\ Rehydrated' = Rehydrated /\ Append(said, began)' = Append(said, began)
    BY <1>1, <1>2, <1>3, <1>4 DEF Rehydrated
  <2>2. turn'.step # "none" /\ {c \in closing' : c.pool = p} = {} /\ p \notin behind'
    BY <1>2, <1>3, <1>6 DEF Closing
  <2>3. ToSet(Rehydrated) \subseteq ToSet(Hot(Append(said, began))) \cup turn.dropped
    BY <1>2 DEF QuietInv, Sound
  <2> QED
    BY <1>2, <1>4, <1>6, <2>1, <2>2, <2>3 DEF Sound, Closing
<1>8. SlicesAgree'
  BY <1>1, <1>2, <1>3, <1>4, ReadAgrees DEF QuietInv, Agreed
<1>9. SnapshotAgrees'
  BY <1>2, <1>5, <1>6, LatestStays DEF SnapshotAgrees
<1>10. JobsAgree' /\ WorkAgrees' /\ Carried'
  BY <1>2, JobsStay, CarriedStays DEF QuietInv, Agreed
<1> QED
  BY <1>7, <1>8, <1>9, <1>10 DEF QuietInv, Agreed

\* The snapshot of a turn that is committed is the latest, and its job is queued.
LEMMA CommitIsQuiet ==
  ASSUME TypeInv, QuietInv, Commit
  PROVE  QuietInv'
<1>1. /\ turn.step = "built" /\ InTurn /\ turn' = NoTurn /\ ~ InTurn' /\ turn'.step = "none"
      /\ said' = Append(said, began) /\ done' = done \cup {began}
      /\ snapshot' = [snapshot EXCEPT ![began] = turn.snap]
      /\ UNCHANGED <<cache, worker, astray>>
  BY NoTurnIsOne DEF Commit, InTurn
<1>2. /\ began \in Nat /\ began \in Turns /\ began - 1 \in Nat
      /\ said \in Seq(1 .. began - 1) /\ ToSet(said) \subseteq 1 .. began - 1
      /\ snapshot \in [Turns -> Snapshots] /\ job \in [Turns -> JobStates] /\ done \subseteq ToSet(said)
  BY <1>1, RunsLast, ElementsOf, BoundsAreNat DEF TypeInv, TypeOK
<1>3. began \notin ToSet(said) /\ \A t \in done : t <= began
  BY <1>2
<1>4. Latest' = turn.snap
  <2>1. \A t \in done' : t \in Nat /\ t <= began
    BY <1>1, <1>2, <1>3
  <2>2. began \in done'
    BY <1>1
  <2>3. LastDone' \in done' /\ \A u \in done' : u <= LastDone'
    BY <2>1, <2>2 DEF LastDone
  <2>4. LastDone' = began
    <3>1. began <= LastDone' /\ LastDone' <= began /\ LastDone' \in Nat
      BY <2>1, <2>2, <2>3
    <3> QED
      BY <1>2, <3>1
  <2> QED
    BY <1>1, <1>2, <2>2, <2>4 DEF Latest
<1>5. Latest'.summary = Latest.summary
  BY <1>1, <1>4 DEF QuietInv, Agreed, SnapshotAgrees
<1>6. job[began].status = "none"
  BY <1>2, <1>3 DEF TypeInv, JobInv
<1>7. worker.step # "idle" => worker.job \in Turns /\ worker.job # began
  BY <1>3 DEF TypeInv, WorkInv, JobInv
<1>8. /\ Queued \subseteq Queued'
      /\ \A t \in Turns \ {began} : job'[t] = job[t]
      /\ turn.dropped # {} =>
           began \in Queued' /\ job'[began].dropped = turn.dropped /\ job'[began].result = None
      /\ turn.dropped = {} => job' = job
      /\ Queued' \subseteq Queued \cup {began}
  <2>1. job' = IF turn.dropped = {} THEN job
               ELSE [job EXCEPT ![began] = Job("pending", turn.dropped, None)]
    BY DEF Commit
  <2>2. CASE turn.dropped = {}
    BY <2>1, <2>2 DEF Queued
  <2>3. CASE turn.dropped # {}
    <3>1. job'[began] = Job("pending", turn.dropped, None) /\ \A t \in Turns \ {began} : job'[t] = job[t]
      BY <1>2, <2>1, <2>3
    <3>2. /\ job'[began].status = "pending" /\ job'[began].dropped = turn.dropped
          /\ job'[began].result = None
      BY <3>1 DEF Job
    <3>3. began \in Queued' /\ began \notin Queued
      BY <1>2, <1>6, <3>2 DEF Queued
    <3>4. \A t \in Turns \ {began} : t \in Queued' <=> t \in Queued
      BY <3>1 DEF Queued
    <3>5. Queued \subseteq Turns /\ Queued' \subseteq Turns
      BY DEF Queued
    <3> QED
      BY <2>3, <3>1, <3>2, <3>3, <3>4, <3>5
  <2> QED
    BY <2>2, <2>3
<1>9. worker.step # "idle" => Folding' = Folding
  BY <1>1, <1>7, <1>8 DEF Folding
<1>10. Sound'
  BY <1>1 DEF Sound, QuietInv
<1>11. SlicesAgree'
  <2> SUFFICES ASSUME NEW q \in Servers, cache[q].warm
               PROVE  IF Untold(q) THEN Latest.summary \subseteq cache[q].summary \cup Folding'
                                   ELSE cache[q].summary = Latest.summary
    BY <1>1, <1>5 DEF SlicesAgree, Untold
  <2>1. Untold(q) => Folding' = Folding
    BY <1>9 DEF Untold
  <2> QED
    BY <2>1 DEF QuietInv, Agreed, SlicesAgree
<1>12. JobsAgree'
  <2> SUFFICES ASSUME NEW t \in Queued', job'[t].result # None
               PROVE  job'[t].result = Latest.summary \cup job'[t].dropped
    BY <1>5 DEF JobsAgree
  <2>1. t \in Queued /\ job'[t] = job[t]
    BY <1>6, <1>8 DEF Queued
  <2> QED
    BY <2>1 DEF QuietInv, Agreed, JobsAgree
<1>13. SnapshotAgrees' /\ WorkAgrees'
  BY <1>1, <1>5, <1>9 DEF SnapshotAgrees, WorkAgrees, QuietInv, Agreed
<1>14. Carried'
  <2>1. Rehydrated' = Hot(Append(said, began))
    BY <1>1 DEF Rehydrated
  <2>2. began \in ToSet(Hot(Append(said, began)))
    <3>1. said \in Seq(Nat)
      BY <1>2, SeqMonotonic
    <3> QED
      BY <1>2, <3>1, LastIsHot
  <2>3. turn.dropped \subseteq Owed'
    BY <1>8 DEF Owed
  <2>4. Owed \subseteq Owed'
    <3> SUFFICES ASSUME NEW t \in Queued, NEW x \in job[t].dropped PROVE x \in Owed'
      BY DEF Owed
    <3>1. t # began /\ t \in Turns
      BY <1>6 DEF Queued
    <3>2. t \in Queued' /\ job'[t] = job[t]
      BY <1>8, <3>1
    <3> QED
      BY <3>2 DEF Owed
  <2>5. ToSet(Rehydrated) \subseteq ToSet(Hot(Append(said, began))) \cup turn.dropped
    BY <1>1 DEF QuietInv, Sound
  <2> QED
    BY <1>1, <1>5, <2>1, <2>2, <2>3, <2>4, <2>5 DEF QuietInv, Carried
<1> QED
  BY <1>10, <1>11, <1>12, <1>13, <1>14 DEF QuietInv, Agreed

\* A turn that ends with nothing completed.
LEMMA UnansweredIsQuiet ==
  ASSUME TypeInv, QuietInv, FinalizeFailed \/ FinalizeRaises \/ HangUp, races' = {}
  PROVE  QuietInv'
<1>1. /\ turn' = NoTurn /\ ~ InTurn' /\ turn'.step = "none"
      /\ UNCHANGED <<done, snapshot, cache, job, worker, astray>>
  BY NoTurnIsOne DEF FinalizeFailed, FinalizeRaises, HangUp, store, history, InTurn
<1>2. Sound'
  BY <1>1 DEF Sound, QuietInv
<1>3. Agreed'
  <2>1. JobsAgree' /\ WorkAgrees'
    BY <1>1, JobsStay DEF QuietInv, Agreed
  <2>2. SlicesAgree' /\ SnapshotAgrees'
    BY <1>1, LatestStays DEF QuietInv, Agreed, SlicesAgree, SnapshotAgrees, Untold, Folding
  <2> QED
    BY <2>1, <2>2 DEF Agreed
<1>4. Carried'
  <2>1. CASE FinalizeFailed
    <3>1. ~ (Len(said) >= Window) /\ said' = Append(said, began) /\ InTurn
      BY <2>1 DEF FinalizeFailed, When, InTurn
    <3>2. Len(said) \in Nat /\ Window \in Nat /\ said \in Seq(1 .. began)
      BY LenProperties, BoundsAreNat DEF TypeInv, TypeOK
    <3>3. Hot(said) = said
      BY <3>1, <3>2 DEF Hot
    <3>4. Hot(said') = said'
      <4>1. Len(said') = Len(said) + 1
        BY <3>1, <3>2, SaidGrows, RunsLast, AppendProperties
      <4> QED
        BY <3>1, <3>2, <4>1 DEF Hot
    <3>5. ToSet(Rehydrated) \subseteq ToSet(Rehydrated)'
      BY <3>1, <3>3, <3>4, SaidGrows DEF Rehydrated
    <3>6. Latest' = Latest /\ Owed' = Owed
      BY <1>1, LatestStays DEF Owed, Queued
    <3> QED
      BY <1>1, <3>5, <3>6 DEF QuietInv, Carried
  <2>2. CASE FinalizeRaises \/ HangUp
    BY <1>1, <2>2, CarriedStays DEF QuietInv, FinalizeRaises, HangUp, store
  <2> QED
    BY <2>1, <2>2
<1> QED
  BY <1>2, <1>3, <1>4 DEF QuietInv

\* A handler that takes a turn back is a failure; one that cannot changes nothing.
LEMMA FailTurnIsQuiet ==
  ASSUME TypeInv, QuietInv, NEW c \in closing, FailTurn(c), races' = {}
  PROVE  QuietInv'
<1>1. /\ UNCHANGED <<began, said, done, snapshot, cache, turn, job, worker, astray, behind>>
      /\ closing' = (closing \ {c}) \cup {Ending(c.turn, c.pool, "clear")}
  BY DEF FailTurn, history
<1>2. Sound'
  <2>1. Closing(turn.pool) = {} => Closing(turn.pool)' = {}
    BY <1>1 DEF Closing, Ending
  <2>2. Rehydrated' = Rehydrated
    BY <1>1 DEF Rehydrated
  <2> QED
    BY <1>1, <2>1, <2>2 DEF QuietInv, Sound, InTurn
<1>3. Agreed'
  <2>1. JobsAgree' /\ WorkAgrees'
    BY <1>1, JobsStay DEF QuietInv, Agreed
  <2>2. SlicesAgree' /\ SnapshotAgrees'
    BY <1>1, LatestStays DEF QuietInv, Agreed, SlicesAgree, SnapshotAgrees, Untold, Folding
  <2> QED
    BY <2>1, <2>2 DEF Agreed
<1>4. Carried'
  BY <1>1, CarriedStays DEF QuietInv
<1> QED
  BY <1>2, <1>3, <1>4 DEF QuietInv

\* A slice that is dropped has nothing to agree with, and no turn works on it.
LEMMA DropIsSound ==
  ASSUME TypeInv, QuietInv, NEW p \in Pools, DropSlice(p), UNCHANGED <<began, said, done, snapshot>>,
         turn' = turn \/ turn' = NoTurn, turn'.step # "none" => turn.pool # p,
         closing' \subseteq closing
  PROVE  Sound' /\ SnapshotAgrees' /\ ~ cache'[p].warm
         /\ \A q \in Pools \ {p} : cache'[q] = cache[q]
<1>1. ~ cache'[p].warm /\ \A q \in Pools \ {p} : cache'[q] = cache[q]
  <2>1. Heard \in Nat /\ Heard <= Heard
    BY SaidIsPast, BoundsAreNat
  <2> QED
    BY <2>1, OneDropped
<1>2. astray' = {} /\ behind' \subseteq behind
  BY DEF DropSlice, QuietInv, Sound
<1>3. CASE turn' = NoTurn
  BY <1>1, <1>2, <1>3, NoTurnIsOne DEF Sound, InTurn, SnapshotAgrees
<1>4. CASE turn' = turn
  <2>1. InTurn => turn.pool \in Pools /\ cache'[turn.pool] = cache[turn.pool]
    BY <1>1, <1>4, RunsLast DEF InTurn
  <2>2. Closing(turn.pool) = {} => Closing(turn.pool)' = {}
    BY <1>4 DEF Closing
  <2>3. Rehydrated' = Rehydrated /\ Latest' = Latest
    BY LatestStays DEF Rehydrated
  <2>4. Sound'
    BY <1>2, <1>4, <2>1, <2>2, <2>3 DEF QuietInv, Sound, InTurn
  <2>5. SnapshotAgrees'
    BY <1>4, <2>3 DEF QuietInv, Agreed, SnapshotAgrees
  <2> QED
    BY <1>1, <2>4, <2>5
<1> QED
  BY <1>3, <1>4

\* Clearing and eviction.
LEMMA DropIsQuiet ==
  ASSUME TypeInv, QuietInv, NEW p \in Pools, DropSlice(p),
         UNCHANGED <<began, said, done, snapshot, turn, job, worker>>,
         turn.step # "none" => turn.pool # p, closing' \subseteq closing
  PROVE  QuietInv'
<1>1. Sound' /\ SnapshotAgrees' /\ ~ cache'[p].warm /\ \A q \in Pools \ {p} : cache'[q] = cache[q]
  BY DropIsSound
<1>2. SlicesAgree'
  <2>1. Servers \subseteq Pools /\ Latest' = Latest
    BY PoolsServe, LatestStays
  <2> QED
    BY <1>1, <2>1 DEF QuietInv, Agreed, SlicesAgree, Untold, Folding
<1>3. JobsAgree' /\ WorkAgrees' /\ Carried'
  BY JobsStay, CarriedStays DEF QuietInv, Agreed
<1> QED
  BY <1>1, <1>2, <1>3 DEF QuietInv, Agreed

\* What Sound says does not depend on jobs.
LEMMA SoundStays ==
  ASSUME Sound, UNCHANGED <<began, said, cache, turn, closing, astray, behind>>
  PROVE  Sound'
  BY DEF Sound, InTurn, Closing, Rehydrated

\* A job that changes its status but stays queued is owed as before.
LEMMA RequeueIsQuiet ==
  ASSUME TypeInv, QuietInv, UNCHANGED <<said, done, snapshot>>, NEW t \in Turns,
         NEW st \in {"pending", "waiting", "running"}, t \in Queued,
         job' = [job EXCEPT ![t].status = st]
  PROVE  JobsAgree' /\ Carried' /\ \A u \in Turns : job'[u].dropped = job[u].dropped
<1>1. job \in [Turns -> JobStates] /\ job[t] \in JobStates
  BY DEF TypeInv, TypeOK
<1>2. \A u \in Turns : /\ job'[u].dropped = job[u].dropped /\ job'[u].result = job[u].result
                       /\ u # t => job'[u] = job[u]
  BY <1>1, JobChanges
<1>3. job'[t].status = st
  BY <1>1, JobChanges
<1>4. Queued' = Queued
  BY <1>2, <1>3 DEF Queued
<1>5. Latest' = Latest /\ Queued \subseteq Turns
  BY LatestStays DEF Queued
<1>6. JobsAgree'
  BY <1>2, <1>4, <1>5 DEF QuietInv, Agreed, JobsAgree
<1>7. Owed' = Owed
  BY <1>2, <1>4, <1>5 DEF Owed
<1>8. Carried'
  BY <1>5, <1>7 DEF QuietInv, Carried, Rehydrated
<1> QED
  BY <1>2, <1>6, <1>8

\* A claim, a retry and the end of a backoff: nothing is folded yet, or no more.
LEMMA QueueIsQuiet ==
  ASSUME TypeInv, QuietInv, races' = {},
         \/ \E p \in Workers, t \in Turns : Claim(p, t)
         \/ Retry
         \/ \E t \in Turns : BackoffEnds(t)
  PROVE  QuietInv'
<1>1. UNCHANGED <<began, said, done, snapshot, cache, turn, closing, astray, behind>>
  BY DEF Claim, Retry, BackoffEnds, store, history
<1>2. PICK t \in Turns, st \in {"pending", "waiting", "running"} :
        /\ t \in Queued /\ job' = [job EXCEPT ![t].status = st]
        /\ \/ worker' = worker
           \/ worker.step # "patched" /\ worker'.step \in {"idle", "claimed"}
  <2>1. ASSUME NEW p \in Workers, NEW t \in Turns, Claim(p, t)
        PROVE  /\ t \in Queued /\ job' = [job EXCEPT ![t].status = "running"]
               /\ worker.step # "patched" /\ worker'.step = "claimed"
    BY <2>1 DEF Claim, At, NoWork, Queued
  <2>2. ASSUME Retry
        PROVE  /\ worker.job \in Turns /\ worker.job \in Queued
               /\ job' = [job EXCEPT ![worker.job].status = "waiting"]
               /\ worker.step # "patched" /\ worker'.step = "idle"
    BY <2>2, WorkedOn DEF Retry, At, NoWork, Queued
  <2>3. ASSUME NEW t \in Turns, BackoffEnds(t)
        PROVE  t \in Queued /\ job' = [job EXCEPT ![t].status = "pending"] /\ worker' = worker
    BY <2>3 DEF BackoffEnds, Queued
  <2> QED
    BY <2>1, <2>2, <2>3
<1>3. JobsAgree' /\ Carried' /\ \A u \in Turns : job'[u].dropped = job[u].dropped
  BY <1>1, <1>2, RequeueIsQuiet
<1>4. Latest' = Latest
  BY <1>1, LatestStays
<1>5. worker' = worker /\ worker.step # "idle" => Folding' = Folding
  BY <1>3 DEF Folding, TypeInv, WorkInv
<1>6. Sound' /\ SnapshotAgrees'
  BY <1>1, <1>4, SoundStays DEF QuietInv, Agreed, SnapshotAgrees
<1>7. SlicesAgree' /\ WorkAgrees'
  BY <1>1, <1>2, <1>4, <1>5 DEF QuietInv, Agreed, SlicesAgree, WorkAgrees, Untold
<1> QED
  BY <1>3, <1>6, <1>7 DEF QuietInv, Agreed

\* The fold adds the turns of the job to the latest summary.
LEMMA FoldIsQuiet ==
  ASSUME TypeInv, QuietInv, Fold
  PROVE  QuietInv'
<1>1. /\ UNCHANGED <<began, said, done, snapshot, cache, turn, closing, job, astray, behind>>
      /\ worker.step = "claimed" /\ worker \in WorkStates
  BY DEF Fold, store, history, TypeInv, TypeOK
<1>2. worker.job \in Queued /\ job[worker.job].dropped = Folding
  BY <1>1, WorkedOn DEF Queued, Folding
<1>3. /\ worker'.step \in {"folded", "saved"} /\ worker'.job = worker.job /\ worker'.pool = worker.pool
      /\ worker'.value = Latest.summary \cup Folding
  <2>1. CASE job[worker.job].result = None
    BY <1>1, <2>1 DEF Fold, WorkOn, FoldOntoPrior, WorkStates
  <2>2. CASE job[worker.job].result # None
    BY <1>1, <1>2, <2>2 DEF Fold, WorkOn, WorkStates, QuietInv, Agreed, JobsAgree
  <2> QED
    BY <2>1, <2>2
<1>4. Latest' = Latest /\ Folding' = Folding /\ Queued' = Queued
  BY <1>1, <1>3, LatestStays DEF Folding, Queued
<1>5. Sound' /\ SnapshotAgrees' /\ Carried'
  BY <1>1, <1>4, SoundStays, CarriedStays DEF QuietInv, Agreed, SnapshotAgrees
<1>6. SlicesAgree' /\ WorkAgrees'
  BY <1>1, <1>3, <1>4 DEF QuietInv, Agreed, SlicesAgree, WorkAgrees, Untold
<1>7. JobsAgree'
  BY <1>1, <1>4 DEF QuietInv, Agreed, JobsAgree
<1> QED
  BY <1>5, <1>6, <1>7 DEF QuietInv, Agreed

\* The result that is saved is the one that was folded.
LEMMA SaveIsQuiet ==
  ASSUME TypeInv, QuietInv, SaveResult
  PROVE  QuietInv'
<1> DEFINE k == worker.job
<1>1. /\ UNCHANGED <<began, said, done, snapshot, cache, turn, closing, astray, behind>>
      /\ worker.step = "folded" /\ worker \in WorkStates
      /\ job' = [job EXCEPT ![k].result = worker.value]
      /\ worker' = [worker EXCEPT !.step = "saved", !.value = worker.value]
  BY DEF SaveResult, WorkOn, store, history, TypeInv, TypeOK
<1>2. /\ k \in Turns /\ job[k] \in JobStates /\ worker.value \in Results /\ k \in Queued
      /\ job \in [Turns -> JobStates]
  BY <1>1, WorkedOn, ResultIs DEF Queued, TypeInv, TypeOK
<1>3. /\ worker'.step = "saved" /\ worker'.job = k /\ worker'.pool = worker.pool
      /\ worker'.value = worker.value
  BY <1>1 DEF WorkStates
<1> HIDE DEF k
<1>4. /\ \A t \in Turns : job'[t].dropped = job[t].dropped /\ job'[t].status = job[t].status
      /\ \A t \in Turns \ {k} : job'[t] = job[t]
      /\ job'[k].result = worker.value
  BY <1>1, <1>2, ResultChanges
<1>5. Latest' = Latest /\ Folding' = Folding /\ Queued' = Queued /\ Folding = job[k].dropped
      /\ Queued \subseteq Turns
  BY <1>1, <1>2, <1>3, <1>4, LatestStays DEF Folding, Queued, k
<1>6. worker.value = Latest.summary \cup Folding
  BY <1>1 DEF QuietInv, Agreed, WorkAgrees
<1>7. Sound' /\ SnapshotAgrees'
  BY <1>1, <1>5, SoundStays DEF QuietInv, Agreed, SnapshotAgrees
<1>8. SlicesAgree' /\ WorkAgrees'
  BY <1>1, <1>3, <1>5, <1>6 DEF QuietInv, Agreed, SlicesAgree, WorkAgrees, Untold
<1>9. JobsAgree'
  BY <1>4, <1>5, <1>6 DEF QuietInv, Agreed, JobsAgree
<1>10. Carried'
  <2>1. Owed' = Owed
    BY <1>4, <1>5 DEF Owed
  <2> QED
    BY <1>1, <1>5, <2>1 DEF QuietInv, Carried, Rehydrated
<1> QED
  BY <1>7, <1>8, <1>9, <1>10 DEF QuietInv, Agreed

\* The latest summary gains the turns of the job; only the worker's own pool is warm.
LEMMA PatchIsQuiet ==
  ASSUME TypeInv, QuietInv, PatchSnapshot, races' = {}
  PROVE  QuietInv'
<1>1. /\ UNCHANGED <<began, said, done, cache, turn, closing, job, astray, behind>>
      /\ worker.step = "saved" /\ worker \in WorkStates /\ done # {}
      /\ snapshot' = [snapshot EXCEPT ![LastDone] = Snap(worker.value, NextRevision)]
      /\ worker' = [worker EXCEPT !.step = "patched", !.value = worker.value]
      /\ \A p \in Servers \ {worker.pool} : ~ cache[p].warm
      /\ turn.step # "built"
      /\ \A t \in Queued \ {worker.job} : job[t].result = None
  BY DEF PatchSnapshot, WorkOn, When, history, TypeInv, TypeOK
<1>2. Latest'.summary = worker.value
  <2>1. LastDone \in Turns /\ LastDone' = LastDone /\ snapshot \in [Turns -> Snapshots]
    BY <1>1, LatestIs DEF LastDone, TypeInv, TypeOK
  <2>2. Latest' = snapshot'[LastDone]
    BY <1>1, <2>1 DEF Latest
  <2> HIDE DEF LastDone
  <2> QED
    BY <1>1, <2>1, <2>2 DEF Snap
<1>3. worker.value = Latest.summary \cup Folding
  BY <1>1 DEF QuietInv, Agreed, WorkAgrees
<1>4. /\ worker'.step = "patched" /\ worker'.job = worker.job /\ worker'.pool = worker.pool
      /\ worker'.value = worker.value
  BY <1>1 DEF WorkStates
<1>5. Folding' = Folding /\ Queued' = Queued /\ job[worker.job].dropped = Folding
      /\ job[worker.job].result = worker.value
  BY <1>1, <1>4 DEF Folding, Queued, TypeInv, WorkInv
<1>6. Sound'
  BY <1>1, SoundStays DEF QuietInv
<1>7. SlicesAgree'
  <2> SUFFICES ASSUME NEW p \in Servers, cache[p].warm
               PROVE  Untold(p)' /\ worker.value \subseteq cache[p].summary \cup Folding
    BY <1>1, <1>2, <1>5 DEF SlicesAgree
  <2>1. p = worker.pool
    BY <1>1
  <2>2. cache[p].summary = Latest.summary
    BY <1>1 DEF QuietInv, Agreed, SlicesAgree, Untold
  <2> QED
    BY <1>3, <1>4, <2>1, <2>2 DEF Untold
<1>8. SnapshotAgrees' /\ WorkAgrees'
  BY <1>1, <1>2, <1>3, <1>4, <1>5 DEF SnapshotAgrees, WorkAgrees
<1>9. JobsAgree'
  BY <1>1, <1>2, <1>3, <1>5 DEF JobsAgree
<1>10. Carried'
  <2>1. Owed' = Owed
    BY <1>1, <1>5 DEF Owed
  <2> QED
    BY <1>1, <1>2, <1>3, <2>1 DEF QuietInv, Carried, Rehydrated
<1> QED
  BY <1>6, <1>7, <1>8, <1>9, <1>10 DEF QuietInv, Agreed

\* The worker's own slice is told.
LEMMA UpdateIsQuiet ==
  ASSUME TypeInv, QuietInv, UpdateCache, races' = {}
  PROVE  QuietInv'
<1> DEFINE p == worker.pool
<1>1. PICK s \in Sessions(p) :
        /\ GetSession(p, s) /\ ~ Misread(p, s)
        /\ cache' = [cache EXCEPT ![p] = [s EXCEPT !.summary = worker.value]]
  BY DEF UpdateCache, When
<1>2. /\ UNCHANGED <<began, said, done, snapshot, turn, closing, job, behind>>
      /\ worker.step = "patched" /\ worker \in WorkStates /\ cache \in [Pools -> Slices]
      /\ worker' = [worker EXCEPT !.step = "cached", !.value = worker.value]
  BY DEF UpdateCache, WorkOn, store, TypeInv, TypeOK
<1>3. p \in Pools /\ worker.value \in SUBSET Turns
  BY <1>2, WorkedOn
<1>4. astray' = {} /\ s \in Slices /\ s.warm
  BY <1>1, <1>3, SessionIsSound DEF QuietInv
<1>5. /\ worker'.step = "cached" /\ worker'.job = worker.job /\ worker'.pool = p
      /\ worker'.value = worker.value
  BY <1>2 DEF WorkStates
<1>6. /\ cache'[p].warm /\ cache'[p].summary = worker.value
      /\ \A q \in Pools \ {p} : cache'[q] = cache[q]
  BY <1>1, <1>2, <1>3, <1>4 DEF Slices
<1>7. Latest' = Latest /\ Folding' = Folding /\ Queued' = Queued /\ Rehydrated' = Rehydrated
      /\ worker.value = Latest.summary
  BY <1>2, <1>5, LatestStays DEF Folding, Queued, Rehydrated, QuietInv, Agreed, WorkAgrees
<1>8. Sound'
  <2>1. InTurn /\ cache[turn.pool].warm => cache'[turn.pool].warm
    BY <1>6, RunsLast
  <2>2. InTurn <=> InTurn'
    BY <1>2 DEF InTurn
  <2> QED
    BY <1>2, <1>4, <1>7, <2>1, <2>2 DEF QuietInv, Sound, Closing, InTurn
<1>9. SlicesAgree'
  <2> SUFFICES ASSUME NEW q \in Servers, cache'[q].warm
               PROVE  ~ Untold(q)' /\ cache'[q].summary = Latest.summary
    BY <1>7 DEF SlicesAgree
  <2>1. q \in Pools /\ ~ Untold(q)'
    BY <1>5, PoolsServe DEF Untold
  <2>2. q # p => cache'[q] = cache[q] /\ ~ Untold(q)
    BY <1>6, <2>1 DEF Untold
  <2> QED
    BY <1>6, <1>7, <2>1, <2>2 DEF QuietInv, Agreed, SlicesAgree
<1>10. JobsAgree' /\ WorkAgrees' /\ SnapshotAgrees'
  BY <1>2, <1>5, <1>7 DEF QuietInv, Agreed, JobsAgree, WorkAgrees, SnapshotAgrees
<1>11. Carried'
  BY <1>2, CarriedStays DEF QuietInv
<1> QED
  BY <1>8, <1>9, <1>10, <1>11 DEF QuietInv, Agreed

\* The job is done: its turns are in the summary.
LEMMA CompleteIsQuiet ==
  ASSUME TypeInv, QuietInv, Complete
  PROVE  QuietInv'
<1> DEFINE k == worker.job
<1>1. /\ UNCHANGED <<began, said, done, snapshot, cache, turn, closing, astray, behind>>
      /\ worker.step = "cached" /\ worker' = NoWork /\ worker'.step = "idle"
      /\ job' = [job EXCEPT ![k] = [@ EXCEPT !.status = "completed", !.result = None]]
  BY DEF Complete, store, history, NoWork, At
<1>2. k \in Turns /\ job[k] \in JobStates /\ job \in [Turns -> JobStates]
  BY <1>1, WorkedOn DEF TypeInv, TypeOK
<1>3. /\ \A t \in Turns \ {k} : job'[t] = job[t]
      /\ job'[k].status = "completed"
  BY <1>1, <1>2 DEF JobStates
<1>4. Queued' = Queued \ {k} /\ Latest' = Latest /\ Queued \subseteq Turns
  BY <1>1, <1>3, LatestStays DEF Queued
<1>5. job[k].dropped \subseteq Latest.summary
  BY <1>1 DEF QuietInv, Agreed, WorkAgrees, Folding
<1> HIDE DEF k
<1>6. Sound' /\ SnapshotAgrees' /\ WorkAgrees'
  BY <1>1, <1>4, SoundStays DEF QuietInv, Agreed, SnapshotAgrees, WorkAgrees
<1>7. SlicesAgree' /\ JobsAgree'
  BY <1>1, <1>3, <1>4 DEF QuietInv, Agreed, SlicesAgree, JobsAgree, Untold
<1>8. Carried'
  <2>1. Owed \subseteq Owed' \cup Latest.summary
    BY <1>3, <1>4, <1>5 DEF Owed
  <2> QED
    BY <1>1, <1>4, <2>1 DEF QuietInv, Carried, Rehydrated
<1> QED
  BY <1>6, <1>7, <1>8 DEF QuietInv, Agreed

\* A crash takes the slice, the turn and the handlers of a process; its job is owed.
LEMMA CrashIsQuiet ==
  ASSUME TypeInv, QuietInv, NEW p \in Pools, Crash(p)
  PROVE  QuietInv'
<1>1. /\ DropSlice(p) /\ UNCHANGED <<began, said, done, snapshot>>
      /\ turn' = turn \/ turn' = NoTurn
      /\ turn'.step # "none" => turn.pool # p
      /\ closing' \subseteq closing
  BY NoTurnIsOne DEF Crash, store
<1>2. Sound' /\ SnapshotAgrees' /\ ~ cache'[p].warm /\ \A q \in Pools \ {p} : cache'[q] = cache[q]
  BY <1>1, DropIsSound
<1>3. CASE worker.pool # p
  <2>1. UNCHANGED <<worker, job>>
    BY <1>3 DEF Crash
  <2>2. SlicesAgree'
    <3>1. Servers \subseteq Pools /\ Latest' = Latest
      BY <1>1, PoolsServe, LatestStays
    <3> QED
      BY <1>2, <2>1, <3>1 DEF QuietInv, Agreed, SlicesAgree, Untold, Folding
  <2>3. JobsAgree' /\ WorkAgrees' /\ Carried'
    BY <1>1, <2>1, JobsStay, CarriedStays DEF QuietInv, Agreed
  <2> QED
    BY <1>2, <2>2, <2>3 DEF QuietInv, Agreed
<1>4. CASE worker.pool = p
  <2>1. worker' = NoWork /\ worker'.step = "idle" /\ job' = [job EXCEPT ![worker.job].status = "pending"]
    BY <1>4 DEF Crash, NoWork, At
  <2>2. worker.step # "idle"
    BY <1>4, NoneIsNoPool DEF TypeInv, WorkInv, NoWork, At
  <2>3. worker.job \in Turns /\ worker.job \in Queued
    BY <2>2, WorkedOn DEF Queued
  <2>4. JobsAgree' /\ Carried'
    BY <1>1, <2>1, <2>3, RequeueIsQuiet
  <2>5. SlicesAgree'
    <3>1. Servers \subseteq Pools /\ Latest' = Latest
      BY <1>1, PoolsServe, LatestStays
    <3>2. \A q \in Servers : q # p => ~ Untold(q)
      BY <1>4 DEF Untold
    <3> QED
      BY <1>2, <2>1, <3>1, <3>2 DEF QuietInv, Agreed, SlicesAgree, Untold
  <2>6. WorkAgrees'
    BY <2>1 DEF WorkAgrees
  <2> QED
    BY <1>2, <2>4, <2>5, <2>6 DEF QuietInv, Agreed
<1> QED
  BY <1>3, <1>4

\* Every step without a race keeps all of it.
LEMMA RaceStep == TypeInv /\ WindowInv /\ RaceInv /\ [Next \/ Finished]_vars => RaceInv'
<1> SUFFICES ASSUME TypeInv, WindowInv, RaceInv, [Next \/ Finished]_vars, races' = {} PROVE QuietInv'
  BY DEF RaceInv
<1>1. QuietInv
  BY RacesGrow DEF RaceInv
<1>2. ASSUME NEW c \in closing, Clear(c) PROVE QuietInv'
  <2>1. /\ DropSlice(c.pool) /\ closing' = closing \ {c} /\ c.pool \in Pools
        /\ UNCHANGED <<began, said, done, snapshot, turn, job, worker>>
    BY <1>2, PoolsServe DEF Clear, store, TypeInv, TypeOK, Endings
  <2>2. turn.step # "none" => turn.pool # c.pool
    BY <1>1 DEF QuietInv, Sound, InTurn, Closing
  <2> QED
    BY <1>1, <2>1, <2>2, DropIsQuiet
<1>3. ASSUME NEW p \in Pools, Evict(p) PROVE QuietInv'
  <2>1. /\ DropSlice(p) /\ turn.pool # p /\ closing' = closing
        /\ UNCHANGED <<began, said, done, snapshot, turn, job, worker>>
    BY <1>3 DEF Evict, store
  <2> QED
    BY <1>1, <2>1, DropIsQuiet
<1>4. ASSUME FoldFails PROVE FALSE
  BY <1>4 DEF FoldFails
<1>5. ASSUME UNCHANGED vars PROVE QuietInv'
  BY <1>1, <1>5, SoundStays, JobsStay, CarriedStays, LatestStays
     DEF vars, store, history, QuietInv, Agreed, SlicesAgree, SnapshotAgrees, Untold, Folding
<1>6. ASSUME Finalize \/ FinalizeUnread PROVE QuietInv'
  BY <1>1, <1>6, CommitIsQuiet DEF Finalize, FinalizeUnread
<1> QED
  BY <1>1, <1>2, <1>3, <1>4, <1>5, <1>6, BeginIsQuiet, WriteBackIsQuiet, BuildIsQuiet,
     UnansweredIsQuiet, FailTurnIsQuiet, QueueIsQuiet, FoldIsQuiet, SaveIsQuiet, PatchIsQuiet,
     UpdateIsQuiet, CompleteIsQuiet, CrashIsQuiet
     DEF Next, TurnStep, EndStep, JobStep, Finished

\* At first nothing is done.
LEMMA RaceInit == Init => RaceInv
<1> SUFFICES ASSUME Init PROVE QuietInv
  BY DEF RaceInv
<1>1. /\ done = {} /\ turn = NoTurn /\ turn.step = "none" /\ worker.step = "idle" /\ astray = {}
      /\ cache = [p \in Pools |-> Cold] /\ job = [t \in Turns |-> NoJob]
  BY NoTurnIsOne DEF Init, NoWork, At
<1>2. Queued = {} /\ \A p \in Pools : ~ cache[p].warm
  BY <1>1, ColdIsPast DEF Queued, NoJob, Job
<1>3. Agreed
  BY <1>1, <1>2, PoolsServe DEF Agreed, SlicesAgree, SnapshotAgrees, JobsAgree, WorkAgrees
<1> QED
  BY <1>1, <1>3 DEF QuietInv, Sound, InTurn, Carried

-----------------------------------------------------------------------------
(* The theorems of RollingSummary.                                          *)

\* The types, the windows and, until the first race, the summaries: slices follow the
\* transcript through turns, read failures, crashes and the clears of _session_store.
THEOREM Invariance == Spec => []IInv
<1>1. Init => IInv
  BY TypeInit, WindowInit, RaceInit DEF IInv
<1>2. IInv /\ [Next \/ Finished]_vars => IInv'
  BY TypeStep, WindowStep, RaceStep DEF IInv
<1> QED
  BY <1>1, <1>2, PTL DEF Spec

\* Windows are as long as MAX_HISTORY_LENGTH allows and in the order of the turns.
THEOREM TypeCorrect == Spec => []TypeOK
<1>1. IInv => TypeOK
  BY DEF IInv, TypeInv
<1> QED
  BY <1>1, Invariance, PTL

\* Between turns, a slice of a pool that no other pool has left behind is the end of
\* the transcript, whatever failed, crashed or was cleared late (_get_session).
THEOREM TurnReadsTheTranscriptHolds == Spec => []TurnReadsTheTranscript
<1>1. IInv => TurnReadsTheTranscript
  <2> SUFFICES ASSUME IInv, turn = NoTurn, NEW p \in Servers \ behind, Settled(p)
               PROVE  cache[p].history = Rehydrated
    BY DEF TurnReadsTheTranscript
  <2>1. ~ Ahead(p)
    BY NoTurnIsOne DEF Ahead
  <2> QED
    BY <2>1 DEF IInv, WindowInv, Expected
<1> QED
  BY <1>1, Invariance, PTL

\* Until one of the races of Kinds has happened, no completed turn is lost to the next:
\* it is in the window, in the summary, or in a job that will fold it.
THEOREM FoldsAreKeptHolds == Spec => []FoldsAreKept
<1>1. IInv => FoldsAreKept
  <2> SUFFICES ASSUME IInv, races = {}, turn = NoTurn, NEW p \in Servers \ behind, Closing(p) = {}
               PROVE  done \subseteq Known(p)
    BY DEF FoldsAreKept, NothingIsLost
  <2>1. TypeInv /\ WindowInv /\ Sound /\ SlicesAgree /\ Carried
    BY DEF IInv, RaceInv, QuietInv, Agreed
  <2>2. done \subseteq ToSet(Rehydrated) \cup Latest.summary \cup Owed
    BY <2>1 DEF Carried
  <2>3. CASE cache[p].warm
    <3>1. cache[p].history = Rehydrated
      <4>1. Settled(p) /\ ~ Ahead(p)
        BY <2>1, <2>3, NoTurnIsOne DEF Settled, Sound, Ahead
      <4> QED
        BY <2>1, <4>1 DEF WindowInv, Expected
    <3>2. Latest.summary \subseteq cache[p].summary \cup Owed
      <4>1. CASE Untold(p)
        <5>1. worker.job \in Queued
          BY <2>1, <4>1, WorkedOn DEF Untold, Queued
        <5>2. Folding \subseteq Owed
          BY <5>1 DEF Folding, Owed
        <5> QED
          BY <2>1, <2>3, <4>1, <5>2 DEF SlicesAgree
      <4>2. CASE ~ Untold(p)
        BY <2>1, <2>3, <4>2 DEF SlicesAgree
      <4> QED
        BY <4>1, <4>2
    <3>3. Known(p) = ToSet(cache[p].history) \cup cache[p].summary \cup Owed
      BY <2>3 DEF Known, Owed
    <3> QED
      BY <2>2, <3>1, <3>2, <3>3
  <2>4. CASE ~ cache[p].warm
    <3>1. Known(p) = ToSet(Filled.history) \cup Filled.summary \cup Owed
      BY <2>4 DEF Known, Owed
    <3>2. Filled.history = Rehydrated /\ Filled.summary = Latest.summary
      BY DEF Filled, Slice
    <3> QED
      BY <2>2, <3>1, <3>2
  <2> QED
    BY <2>3, <2>4
<1> QED
  BY <1>1, Invariance, PTL

-----------------------------------------------------------------------------
(* The runner pool.                                                         *)

\* A turn that has been given a graph knows the runner of it.
BoundInv == \A t \in Requests : phase[t] # "idle" => bound[t] # NoRunner

\* Only a runner of the pool has callbacks.
CallInv == \A r \in Runners \ pool : restoring[r] = 0

PoolTypeInv == PoolTypeOK /\ BoundInv /\ CallInv
PoolIInv    == PoolTypeInv /\ OneGeneration /\ SomebodyRestores

\* At first there is one runner, with nothing on it.
LEMMA PoolInitInv == PoolInit => PoolIInv
<1> SUFFICES ASSUME PoolInit PROVE PoolIInv
  OBVIOUS
<1>1. Cardinality({First}) = 1
  BY FS_Singleton
<1>2. PoolTypeInv
  BY <1>1, PoolIsGiven DEF PoolInit, PoolTypeInv, PoolTypeOK, BoundInv, CallInv
<1>3. OneGeneration /\ SomebodyRestores
  BY PoolIsGiven DEF PoolInit, OneGeneration, SomebodyRestores
<1> QED
  BY <1>2, <1>3 DEF PoolIInv

\* A rotation adds a runner only where there is room for one.
LEMMA GrowsWithinCapacity ==
  ASSUME PoolTypeOK, HasRoom, NEW r \in Runners \ pool
  PROVE  Cardinality(pool \cup {r}) <= Capacity
<1>1. IsFiniteSet(pool)
  BY PoolIsGiven, FS_Subset DEF PoolTypeOK
<1>2. Cardinality(pool \cup {r}) = Cardinality(pool) + 1 /\ Cardinality(pool) \in Nat
  BY <1>1, FS_AddElement, FS_CardinalityType
<1> QED
  BY <1>2, PoolIsGiven DEF HasRoom

\* Every step keeps the types, and gives a turn that leaves idle its runner.
LEMMA PoolTypeStep == PoolTypeInv /\ [PoolNext]_poolVars => PoolTypeInv'
<1> SUFFICES ASSUME PoolTypeInv, [PoolNext]_poolVars PROVE PoolTypeInv'
  OBVIOUS
<1> USE PoolIsGiven DEF PoolTypeInv, PoolTypeOK, BoundInv, CallInv, Goes
<1>1. ASSUME NEW t \in Requests, Ensure(t) PROVE PoolTypeInv'
  BY <1>1 DEF Ensure
<1>2. ASSUME NEW t \in Requests, Submit(t) PROVE PoolTypeInv'
  BY <1>2 DEF Submit
<1>3. ASSUME NEW t \in Requests, Finish(t) \/ Expire(t) PROVE PoolTypeInv'
  BY <1>3 DEF Finish, Expire
<1>4. ASSUME NEW t \in Requests, Quarantine(t) PROVE PoolTypeInv'
  BY <1>4 DEF Quarantine
<1>5. ASSUME NEW t \in Requests, Rotate(t) PROVE PoolTypeInv'
  <2>1. \A r \in Runners \ pool : HasRoom => Cardinality(pool \cup {r}) <= Capacity
    BY GrowsWithinCapacity
  <2>2. pool \subseteq pool' /\ pool' \subseteq Runners /\ Cardinality(pool') <= Capacity
    BY <1>5, <2>1 DEF Rotate
  <2>3. current' \in pool' \cup {NoRunner} /\ published' \in pool' \cup {NoRunner}
    BY <1>5, <2>2 DEF Rotate, Standbys, GraphOf
  <2> QED
    BY <1>5, <2>2, <2>3 DEF Rotate
<1>6. ASSUME NEW r \in Runners, Block(r) \/ Unblock(r) PROVE PoolTypeInv'
  BY <1>6 DEF Block, Unblock
<1>7. ASSUME NEW r \in Runners, Recover(r) PROVE PoolTypeInv'
  BY <1>7 DEF Recover, Calls, Freed
<1>8. ASSUME NEW r \in Runners, Restore(r) PROVE PoolTypeInv'
  BY <1>8 DEF Restore, GraphOf
<1>9. CASE UNCHANGED poolVars
  BY <1>9 DEF poolVars
<1> QED
  BY <1>1, <1>2, <1>3, <1>4, <1>5, <1>6, <1>7, <1>8, <1>9 DEF PoolNext, TurnActs

\* The steps that touch the current runner or the published graph set both.
LEMMA GenerationStep == PoolTypeInv /\ OneGeneration /\ [PoolNext]_poolVars => OneGeneration'
<1> SUFFICES ASSUME PoolTypeInv, OneGeneration, [PoolNext]_poolVars PROVE OneGeneration'
  OBVIOUS
<1> USE DEF OneGeneration, GraphOf
<1>1. ASSUME NEW t \in Requests, Ensure(t) PROVE OneGeneration'
  BY <1>1 DEF Ensure
<1>2. ASSUME NEW t \in Requests, Rotate(t) PROVE OneGeneration'
  BY <1>2 DEF Rotate
<1>3. ASSUME NEW r \in Runners, Restore(r) PROVE OneGeneration'
  BY <1>3 DEF Restore
<1>4. CASE UNCHANGED <<current, published, built>>
  BY <1>4
<1> QED
  BY <1>1, <1>2, <1>3, <1>4
     DEF PoolNext, TurnActs, poolVars, Submit, Finish, Expire, Quarantine, Block, Unblock, Recover

\* In a pool that is full, a runner without a standby leaves another one behind
\* that is in quarantine.
LEMMA AnotherIsHeld ==
  ASSUME PoolTypeOK, current \in pool, Standbys = {}, ~ HasRoom
  PROVE  quarantined # {}
<1>1. IsFiniteSet(pool) /\ Cardinality(pool) \in Nat
  BY PoolIsGiven, FS_Subset, FS_CardinalityType DEF PoolTypeOK
<1>2. pool # {current}
  BY <1>1, PoolIsGiven, FS_Singleton DEF HasRoom
<1>3. PICK r \in pool : r # current
  BY <1>2
<1> QED
  BY <1>3 DEF Standbys, Available

\* Whatever takes the current runner away leaves a quarantine behind, and what ends
\* the last quarantine calls for a restoration.
LEMMA RestoreStep == PoolTypeInv /\ SomebodyRestores /\ [PoolNext]_poolVars => SomebodyRestores'
<1> SUFFICES ASSUME PoolTypeInv, SomebodyRestores, [PoolNext]_poolVars PROVE SomebodyRestores'
  OBVIOUS
<1> USE DEF SomebodyRestores
<1>1. ASSUME NEW t \in Requests, Ensure(t) PROVE SomebodyRestores'
  BY <1>1 DEF Ensure
<1>2. ASSUME NEW t \in Requests, Quarantine(t) PROVE SomebodyRestores'
  BY <1>2 DEF Quarantine
<1>3. ASSUME NEW t \in Requests, Rotate(t) PROVE SomebodyRestores'
  <2>1. current = bound[t] => current \in pool
    BY <1>3 DEF Rotate, PoolTypeInv, PoolTypeOK, BoundInv
  <2>2. CASE current # bound[t]
    BY <1>3, <2>2 DEF Rotate
  <2>3. CASE current = bound[t] /\ (Standbys # {} \/ HasRoom)
    BY <1>3, <2>3, PoolIsGiven DEF Rotate, Standbys, PoolTypeInv, PoolTypeOK
  <2>4. CASE current = bound[t] /\ Standbys = {} /\ ~ HasRoom
    BY <1>3, <2>1, <2>4, AnotherIsHeld DEF Rotate, PoolTypeInv
  <2> QED
    BY <2>2, <2>3, <2>4
<1>4. ASSUME NEW r \in Runners, Recover(r) PROVE SomebodyRestores'
  <2>1. r \in pool /\ restoring'[r] > 0
    BY <1>4 DEF Recover, Calls, PoolTypeInv, PoolTypeOK
  <2> QED
    BY <1>4, <2>1 DEF Recover
<1>5. ASSUME NEW r \in Runners, Restore(r) PROVE SomebodyRestores'
  BY <1>5, PoolIsGiven DEF Restore
<1>6. CASE UNCHANGED <<current, quarantined, restoring, pool>>
  BY <1>6
<1> QED
  BY <1>1, <1>2, <1>3, <1>4, <1>5, <1>6
     DEF PoolNext, TurnActs, poolVars, Submit, Finish, Expire, Block, Unblock

\* What the theorems about the pool are read off from.
THEOREM PoolInvariance == PoolSpec => []PoolIInv
<1>1. PoolIInv /\ [PoolNext]_poolVars => PoolIInv'
  BY PoolTypeStep, GenerationStep, RestoreStep DEF PoolIInv
<1> QED
  BY <1>1, PoolInitInv, PTL DEF PoolSpec

\* Every variable keeps its type, and the pool its capacity.
THEOREM PoolTypeCorrect == PoolSpec => []PoolTypeOK
<1>1. PoolIInv => PoolTypeOK
  BY DEF PoolIInv, PoolTypeInv
<1> QED
  BY <1>1, PoolInvariance, PTL

\* "Callers can only observe a complete (runner, graph) generation."
THEOREM OneGenerationHolds == PoolSpec => []OneGeneration
<1>1. PoolIInv => OneGeneration
  BY DEF PoolIInv
<1> QED
  BY <1>1, PoolInvariance, PTL

\* While there is no current runner, a quarantine or a restoration is under way.
THEOREM SomebodyRestoresHolds == PoolSpec => []SomebodyRestores
<1>1. PoolIInv => SomebodyRestores
  BY DEF PoolIInv
<1> QED
  BY <1>1, PoolInvariance, PTL
=============================================================================
