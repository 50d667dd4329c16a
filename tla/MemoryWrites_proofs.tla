------------------------- MODULE MemoryWrites_proofs -------------------------
(***************************************************************************)
(* What holds of the ledger of frozen writes and of the records for any    *)
(* number of sentences, handlers, confirmations and late attempts.         *)
(***************************************************************************)
EXTENDS MemoryWrites, TLAPS

InHand(h) == pc[h] \in {"saving", "failed"}

\* A handler that decides has a candidate.
HeldInv == \A h \in Handlers : pc[h] # "idle" => held[h] \in Candidates

\* A candidate keeps the place in time it was frozen at.
OrderInv ==
  /\ \A r \in pending : r.created = r.op /\ r.op <= Len(frozen)
  /\ \A h \in Handlers : InHand(h) => held[h].created = held[h].op
                                      /\ held[h].op <= Len(frozen)

\* A candidate is in the ledger or in one hand.
OneHolder ==
  /\ \A r, s \in pending : r.op = s.op => r = s
  /\ \A r \in pending, h \in Handlers : InHand(h) => held[h].op # r.op
  /\ \A g, h \in Handlers : InHand(g) /\ InHand(h) /\ g # h => held[g].op # held[h].op

\* The keys of a candidate that were used are behind its attempt.
KeyInv ==
  /\ \A k \in used : k[1] <= Len(frozen)
  /\ \A r \in pending : \A k \in used : k[1] = r.op => k[2] < r.attempt
  /\ \A h \in Handlers : InHand(h) =>
       \A k \in used : k[1] = held[h].op => k[2] <= held[h].attempt

\* A candidate says what was frozen under its number.
ContentInv ==
  /\ \A r \in pending : r.content = frozen[r.op]
  /\ \A h \in Handlers : InHand(h) => held[h].content = frozen[held[h].op]

\* An id is made of the hash, and belongs to one record.
IdInv ==
  /\ \A m \in memory : m.id = <<m.hash, 0>>
  /\ \A m, n \in memory : m.id = n.id => m = n

TypeInv == TypeOK /\ HeldInv
IInv    == TypeInv /\ OrderInv /\ OneHolder /\ KeyInv /\ IdInv
           /\ ContentInv /\ NoCandidateIsLost

ledger == <<frozen, pending, pc, held, used>>

-----------------------------------------------------------------------------
(* Types.                                                                  *)

\* At first nothing was ever frozen or stored.
LEMMA InitInv == Init => IInv
<1> SUFFICES ASSUME Init PROVE IInv
  OBVIOUS
<1>1. TypeInv
  BY BoundsAreNat DEF Init, TypeInv, TypeOK, HeldInv
<1>2. OrderInv /\ OneHolder /\ KeyInv /\ IdInv /\ ContentInv
  BY DEF Init, OrderInv, OneHolder, KeyInv, IdInv, ContentInv, InHand
<1>3. NoCandidateIsLost
  BY DEF Init, NoCandidateIsLost
<1> QED
  BY <1>1, <1>2, <1>3 DEF IInv

\* A decision is one on candidates that were frozen.
LEMMA DecidedType ==
  ASSUME TypeOK, NEW row, NEW h, Decided(row, h)
  PROVE  settled' \subseteq Ops
<1>1. Len(frozen) \in Nat /\ Len(frozen) <= MaxFreezes
  BY DEF TypeOK
<1>2. 1 .. Len(frozen) \subseteq Ops
  BY <1>1, BoundsAreNat DEF Ops
<1> QED
  BY <1>2 DEF TypeOK, Decided

\* Every step keeps the types.
LEMMA TypeStep == TypeInv /\ [Next]_vars => TypeInv'
<1> SUFFICES ASSUME TypeInv, [Next]_vars PROVE TypeInv'
  OBVIOUS
<1> USE BoundsAreNat DEF TypeInv, TypeOK, HeldInv
<1>1. ASSUME NEW c \in Contents, Freeze(c) PROVE TypeInv'
  <2>1. /\ frozen' \in Seq(Contents) /\ Len(frozen') = Len(frozen) + 1
        /\ Len(frozen') \in Ops
    BY <1>1 DEF Freeze, Ops
  <2>2. pending' \subseteq Candidates
    BY <1>1, <2>1 DEF Freeze, Others, Candidates
  <2> QED
    BY <1>1, <2>1, <2>2 DEF Freeze, Others, Ops
<1>2. ASSUME NEW h \in Handlers, NEW intent \in {"confirm", "decline"},
             ReadLatest(h, intent)
      PROVE  TypeInv'
  BY <1>2 DEF ReadLatest
<1>3. ASSUME NEW h \in Handlers, Decline(h) \/ ClaimedAlready(h) PROVE TypeInv'
  <2>1. settled' \subseteq Ops
    BY <1>3, DecidedType DEF Decline, ClaimedAlready
  <2> QED
    BY <1>3, <2>1 DEF Decline, ClaimedAlready, Without
<1>4. ASSUME NEW h \in Handlers, Confirm(h) PROVE TypeInv'
  <2>1. PICK row \in Row(h) :
          /\ held' = [held EXCEPT ![h] = row]
          /\ used' = used \cup {Key(row)}
          /\ adders' = adders
               \cup {[key |-> Key(row), content |-> row.content, at |-> "lookup"]}
    BY <1>4 DEF Confirm
  <2>2. row \in Candidates /\ Key(row) \in Keys
    BY DEF Row, Key, Keys, Candidates
  <2>3. [key |-> Key(row), content |-> row.content, at |-> "lookup"] \in Adders
    BY <2>2 DEF Adders, Candidates
  <2> QED
    BY <1>4, <2>1, <2>2, <2>3 DEF Confirm, Without
<1>5. ASSUME NEW h \in Handlers,
             HearSaved(h) \/ HearFailed(h) \/ TimesOut(h) \/ RestoreFails(h) \/ CutOff(h)
      PROVE  TypeInv'
  <2>1. settled' \subseteq Ops
    BY <1>5, DecidedType DEF HearSaved, HearFailed, TimesOut, RestoreFails, CutOff
  <2>2. adders' \subseteq adders
    BY <1>5 DEF HearSaved, HearFailed, TimesOut, RestoreFails, CutOff
  <2>3. pc' \in [Handlers -> {"idle", "decline", "confirm", "saving", "failed"}]
    BY <1>5 DEF HearSaved, HearFailed, TimesOut, RestoreFails, CutOff
  <2>4. /\ \A g \in Handlers : held'[g] \in Candidates \cup {Nothing}
        /\ HeldInv'
    BY <1>5 DEF HearSaved, HearFailed, TimesOut, RestoreFails, CutOff
  <2> QED
    BY <1>5, <2>1, <2>2, <2>3, <2>4
       DEF HearSaved, HearFailed, TimesOut, RestoreFails, CutOff
<1>6. ASSUME NEW h \in Handlers, Restore(h) PROVE TypeInv'
  <2>1. held[h] \in Candidates
    BY <1>6 DEF Restore
  <2>2. Retried(held[h]) \in Candidates /\ Retried(held[h]).content = held[h].content
    BY <2>1 DEF Retried, Candidates
  <2> QED
    BY <1>6, <2>2 DEF Restore, Absent
<1>7. ASSUME NEW a \in adders, LookUp(a) \/ AddFails(a) \/ EndAdd(a) PROVE TypeInv'
  BY <1>7 DEF LookUp, AddFails, EndAdd, Step, Adders
<1>8. ASSUME NEW a \in adders, Insert(a) PROVE TypeInv'
  <2>1. [id |-> IdOf(a.content), hash |-> a.content, text |-> a.content] \in Records
    BY DEF Adders, IdOf, Records
  <2> QED
    BY <1>8, <2>1 DEF Insert, Step, Adders
<1>9. ASSUME NEW c \in Contents, StartAdd(c) PROVE TypeInv'
  <2>1. [key |-> NoKey, content |-> c, at |-> "lookup"] \in Adders
    BY DEF Adders
  <2> QED
    BY <1>9, <2>1 DEF StartAdd, Edit
<1>10. ASSUME NEW m \in memory, NEW c \in Contents, Update(m, c) PROVE TypeInv'
  <2>1. [m EXCEPT !.text = c] \in Records
    BY DEF Records
  <2> QED
    BY <1>10, <2>1 DEF Update, Edit
<1>11. ASSUME NEW m \in memory, Delete(m) PROVE TypeInv'
  BY <1>11 DEF Delete, Edit
<1>12. CASE UNCHANGED vars
  BY <1>12 DEF vars
<1> QED
  BY <1>1, <1>2, <1>3, <1>4, <1>5, <1>6, <1>7, <1>8, <1>9, <1>10, <1>11, <1>12 DEF Next

-----------------------------------------------------------------------------
(* The ledger.                                                             *)

\* Nine kinds of steps touch the ledger, the handlers or the keys.
LEMMA LedgerSteps ==
  [Next]_vars =>
    \/ UNCHANGED ledger
    \/ \E c \in Contents : Freeze(c)
    \/ \E h \in Handlers : \/ \E intent \in {"confirm", "decline"} : ReadLatest(h, intent)
                           \/ Decline(h) \/ Confirm(h) \/ ClaimedAlready(h)
                           \/ HearSaved(h) \/ HearFailed(h) \/ TimesOut(h)
                           \/ Restore(h) \/ RestoreFails(h) \/ CutOff(h)
  BY DEF Next, vars, ledger, StartAdd, LookUp, Insert, AddFails, EndAdd, Update, Delete

\* A step that only takes candidates out of the ledger or out of hands.
LEMMA LettingGo ==
  ASSUME OrderInv, OneHolder, KeyInv, frozen' = frozen, used' = used,
         pending' \subseteq pending,
         \A h \in Handlers : InHand(h)' => InHand(h) /\ held'[h] = held[h]
  PROVE  OrderInv' /\ OneHolder' /\ KeyInv'
<1>1. OrderInv'
  BY DEF OrderInv
<1>2. OneHolder'
  BY DEF OneHolder
<1>3. KeyInv'
  BY DEF KeyInv
<1> QED
  BY <1>1, <1>2, <1>3

\* Candidates stay where they are in time, with one holder and keys of their own.
LEMMA LedgerStep ==
  TypeInv /\ OrderInv /\ OneHolder /\ KeyInv /\ [Next]_vars
    => OrderInv' /\ OneHolder' /\ KeyInv'
<1> SUFFICES ASSUME TypeInv, OrderInv, OneHolder, KeyInv, [Next]_vars
             PROVE  OrderInv' /\ OneHolder' /\ KeyInv'
  OBVIOUS
<1>1. ASSUME NEW c \in Contents, Freeze(c) PROVE OrderInv' /\ OneHolder' /\ KeyInv'
  <2> DEFINE new == [content |-> c, created |-> Len(frozen) + 1,
                     op |-> Len(frozen) + 1, attempt |-> 0]
  <2>1. /\ Len(frozen') = Len(frozen) + 1 /\ Len(frozen) \in Nat
        /\ pending' = Others(c) \cup {new}
        /\ pc' = pc /\ held' = held /\ used' = used
    BY <1>1 DEF Freeze, TypeInv, TypeOK
  <2>2. /\ \A r \in pending : r.op \in Nat /\ r.op <= Len(frozen)
        /\ \A h \in Handlers : InHand(h) => held[h].op \in Nat /\ held[h].op <= Len(frozen)
        /\ \A k \in used : k[1] \in Nat /\ k[1] <= Len(frozen)
    BY DEF TypeInv, TypeOK, HeldInv, InHand, Candidates, Ops, Keys, OrderInv, KeyInv
  <2>3. OrderInv'
    BY <2>1, <2>2 DEF OrderInv, Others, InHand
  <2>4. OneHolder'
    BY <2>1, <2>2 DEF OneHolder, Others, InHand
  <2>5. KeyInv'
    BY <2>1, <2>2 DEF KeyInv, Others, InHand
  <2> QED
    BY <2>3, <2>4, <2>5
<1>2. ASSUME NEW h \in Handlers, NEW intent \in {"confirm", "decline"},
             ReadLatest(h, intent)
      PROVE  OrderInv' /\ OneHolder' /\ KeyInv'
  BY <1>2, LettingGo DEF ReadLatest, InHand, TypeInv, TypeOK
<1>3. ASSUME NEW h \in Handlers, Decline(h) \/ ClaimedAlready(h)
      PROVE  OrderInv' /\ OneHolder' /\ KeyInv'
  BY <1>3, LettingGo DEF Decline, ClaimedAlready, Without, InHand, TypeInv, TypeOK
<1>4. ASSUME NEW h \in Handlers,
             HearSaved(h) \/ HearFailed(h) \/ TimesOut(h) \/ RestoreFails(h) \/ CutOff(h)
      PROVE  OrderInv' /\ OneHolder' /\ KeyInv'
  <2>1. /\ frozen' = frozen /\ used' = used /\ pending' = pending
        /\ \A g \in Handlers : InHand(g)' => InHand(g) /\ held'[g] = held[g]
    BY <1>4 DEF HearSaved, HearFailed, TimesOut, RestoreFails, CutOff, InHand,
                TypeInv, TypeOK
  <2> QED
    BY <2>1, LettingGo
<1>5. ASSUME NEW h \in Handlers, Confirm(h) PROVE OrderInv' /\ OneHolder' /\ KeyInv'
  <2>1. PICK row \in Row(h) :
          /\ held' = [held EXCEPT ![h] = row]
          /\ used' = used \cup {Key(row)}
    BY <1>5 DEF Confirm
  <2>2. /\ row \in pending /\ row \notin pending' /\ pending' \subseteq pending
        /\ frozen' = frozen /\ pc' = [pc EXCEPT ![h] = "saving"]
        /\ row.attempt \in Nat
    BY <1>5 DEF Confirm, Row, Without, TypeInv, TypeOK, Candidates
  <2>3. /\ held'[h] = row /\ InHand(h)'
        /\ \A g \in Handlers \ {h} : held'[g] = held[g] /\ (InHand(g)' <=> InHand(g))
    BY <2>1, <2>2 DEF InHand, TypeInv, TypeOK
  <2>4. OrderInv'
    BY <2>2, <2>3 DEF OrderInv
  <2>5. OneHolder'
    BY <2>2, <2>3 DEF OneHolder
  <2>6. \A r \in pending' : r.op # row.op
    BY <2>2 DEF OneHolder
  <2>7. \A g \in Handlers \ {h} : InHand(g)' => held'[g].op # row.op
    BY <2>2, <2>3 DEF OneHolder
  <2>8. \A k \in used : k \in Keys
    BY DEF TypeInv, TypeOK
  <2>9. KeyInv'
    <3>1. \A k \in used' : k[1] <= Len(frozen')
      BY <2>1, <2>2 DEF KeyInv, OrderInv, Key
    <3>2. \A r \in pending' : \A k \in used' : k[1] = r.op => k[2] < r.attempt
      BY <2>1, <2>2, <2>6 DEF KeyInv, Key
    <3>3. ASSUME NEW g \in Handlers, InHand(g)', NEW k \in used', k[1] = held'[g].op
          PROVE  k[2] <= held'[g].attempt
      <4>1. CASE g = h /\ k \in used
        BY <3>3, <4>1, <2>2, <2>3, <2>8 DEF KeyInv, Keys
      <4>2. CASE g = h /\ k = Key(row)
        BY <4>2, <2>2, <2>3 DEF Key
      <4>3. CASE g # h
        BY <3>3, <4>3, <2>1, <2>3, <2>7 DEF KeyInv, Key
      <4> QED
        BY <4>1, <4>2, <4>3, <2>1
    <3> QED
      BY <3>1, <3>2, <3>3 DEF KeyInv
  <2> QED
    BY <2>4, <2>5, <2>9
<1>6. ASSUME NEW h \in Handlers, Restore(h) PROVE OrderInv' /\ OneHolder' /\ KeyInv'
  <2> DEFINE back == Retried(held[h])
  <2>1. /\ held[h] \in Candidates /\ InHand(h) /\ ~ InHand(h)'
        /\ \A g \in Handlers \ {h} : held'[g] = held[g] /\ (InHand(g)' <=> InHand(g))
        /\ frozen' = frozen /\ used' = used /\ pending' \subseteq pending \cup {back}
    BY <1>6 DEF Restore, InHand, TypeInv, TypeOK, HeldInv
  <2>2. /\ back.op = held[h].op /\ back.created = held[h].created
        /\ back.attempt = held[h].attempt + 1 /\ held[h].attempt \in Nat
    BY <2>1 DEF Retried, Candidates
  <2>3. OrderInv'
    BY <2>1, <2>2 DEF OrderInv
  <2>4. OneHolder'
    BY <2>1, <2>2 DEF OneHolder
  <2>5. \A k \in used : k[2] \in Nat
    BY DEF TypeInv, TypeOK, Keys
  <2>6. KeyInv'
    <3>1. \A k \in used : k[1] = back.op => k[2] < back.attempt
      BY <2>1, <2>2, <2>5 DEF KeyInv
    <3> QED
      BY <2>1, <3>1 DEF KeyInv
  <2> QED
    BY <2>3, <2>4, <2>6
<1>7. CASE UNCHANGED ledger
  BY <1>7, LettingGo DEF ledger, InHand
<1> QED
  BY <1>1, <1>2, <1>3, <1>4, <1>5, <1>6, <1>7, LedgerSteps

-----------------------------------------------------------------------------
(* No candidate is lost.                                                   *)

Latest(op)  == \A later \in op + 1 .. Len(frozen) : frozen[later] # frozen[op]
InSight(c)  == \E row \in pending \cup InHands(Handlers) : row.content = c

\* A sentence is in sight when it is in the ledger or in one hand.
LEMMA Sight ==
  ASSUME NEW c
  PROVE  InSight(c) <=> \/ \E r \in pending : r.content = c
                        \/ \E h \in Handlers : InHand(h) /\ held[h].content = c
  BY DEF InSight, InHands, InHand

\* A candidate keeps its sentence on its way through the hands.
LEMMA ContentStep ==
  TypeInv /\ OrderInv /\ ContentInv /\ [Next]_vars => ContentInv'
<1> SUFFICES ASSUME TypeInv, OrderInv, ContentInv, [Next]_vars PROVE ContentInv'
  OBVIOUS
<1> USE DEF TypeInv, TypeOK
<1>1. ASSUME NEW c \in Contents, Freeze(c) PROVE ContentInv'
  <2>1. /\ Len(frozen) \in Nat /\ frozen'[Len(frozen) + 1] = c
        /\ \A op \in 1 .. Len(frozen) : frozen'[op] = frozen[op]
        /\ pc' = pc /\ held' = held
    BY <1>1 DEF Freeze
  <2>2. /\ \A r \in pending : r.op \in 1 .. Len(frozen)
        /\ \A h \in Handlers : InHand(h) => held[h].op \in 1 .. Len(frozen)
    BY <2>1, BoundsAreNat DEF OrderInv, HeldInv, InHand, Candidates, Ops
  <2>3. \A r \in pending' : \/ r \in pending
                            \/ r.op = Len(frozen) + 1 /\ r.content = c
    BY <1>1 DEF Freeze, Others
  <2> QED
    BY <2>1, <2>2, <2>3 DEF ContentInv, InHand
<1>2. ASSUME NEW h \in Handlers, Restore(h) PROVE ContentInv'
  <2>1. /\ held[h] \in Candidates /\ InHand(h) /\ ~ InHand(h)'
        /\ \A g \in Handlers \ {h} : held'[g] = held[g] /\ (InHand(g)' <=> InHand(g))
        /\ frozen' = frozen /\ pending' \subseteq pending \cup {Retried(held[h])}
    BY <1>2 DEF Restore, InHand, HeldInv
  <2>2. /\ Retried(held[h]).op = held[h].op
        /\ Retried(held[h]).content = held[h].content
    BY <2>1 DEF Retried, Candidates
  <2> QED
    BY <2>1, <2>2 DEF ContentInv
<1>3. ASSUME NEW h \in Handlers, Confirm(h) PROVE ContentInv'
  <2>1. PICK row \in Row(h) : held' = [held EXCEPT ![h] = row]
    BY <1>3 DEF Confirm
  <2>2. /\ row \in pending /\ pending' \subseteq pending /\ frozen' = frozen
        /\ held'[h] = row
        /\ \A g \in Handlers \ {h} : held'[g] = held[g] /\ (InHand(g)' <=> InHand(g))
    BY <1>3, <2>1 DEF Confirm, Row, Without, InHand
  <2> QED
    BY <2>2 DEF ContentInv
<1>4. ASSUME NEW h \in Handlers,
             \/ \E intent \in {"confirm", "decline"} : ReadLatest(h, intent)
             \/ Decline(h) \/ ClaimedAlready(h) \/ HearSaved(h) \/ HearFailed(h)
             \/ TimesOut(h) \/ RestoreFails(h) \/ CutOff(h)
      PROVE  ContentInv'
  <2>1. /\ frozen' = frozen /\ pending' \subseteq pending
        /\ \A g \in Handlers : InHand(g)' => InHand(g) /\ held'[g] = held[g]
    BY <1>4 DEF ReadLatest, Decline, ClaimedAlready, HearSaved, HearFailed, TimesOut,
                RestoreFails, CutOff, Without, InHand
  <2> QED
    BY <2>1 DEF ContentInv
<1>5. CASE UNCHANGED ledger
  BY <1>5 DEF ledger, ContentInv, InHand
<1> QED
  BY <1>1, <1>2, <1>3, <1>4, <1>5, LedgerSteps

\* A step that decides nothing, freezes nothing and keeps every sentence in sight.
LEMMA KeepingSight ==
  ASSUME NoCandidateIsLost, frozen' = frozen, settled \subseteq settled',
         \A c \in Contents : InSight(c) => InSight(c)',
         \A op \in 1 .. Len(frozen) : frozen[op] \in Contents
  PROVE  NoCandidateIsLost'
<1> SUFFICES ASSUME NEW op \in 1 .. Len(frozen), op \notin settled', Latest(op)
             PROVE  InSight(frozen[op])'
  BY DEF NoCandidateIsLost, Latest, InSight
<1>1. InSight(frozen[op])
  BY DEF NoCandidateIsLost, Latest, InSight
<1> QED
  BY <1>1

\* A decision on a row loses nothing: a later candidate of the sentence is
\* another row, or in another hand, and that stays there.
LEMMA DecidingKeepsTheRest ==
  ASSUME TypeInv, ContentInv, NoCandidateIsLost, NEW h \in Handlers, NEW row,
         Decided(row, h), frozen' = frozen, pending \ {row} \subseteq pending',
         \A g \in Handlers \ {h} : held'[g] = held[g] /\ (InHand(g)' <=> InHand(g)),
         InHand(h) => held[h].content = row.content,
         row \in pending \/ InHand(h)
  PROVE  NoCandidateIsLost'
<1> SUFFICES ASSUME NEW op \in 1 .. Len(frozen), op \notin settled', Latest(op)
             PROVE  InSight(frozen[op])'
  BY DEF NoCandidateIsLost, Latest, InSight
<1>1. InSight(frozen[op])
  BY DEF NoCandidateIsLost, Latest, InSight, Decided
<1>2. CASE frozen[op] = row.content
  <2>1. PICK r \in (pending \ {row}) \cup InHands(Handlers \ {h}) : r.op = op
    BY <1>2 DEF Decided
  <2>2. CASE r \in pending \ {row}
    BY <2>1, <2>2, Sight DEF ContentInv, InSight
  <2>3. CASE r \in InHands(Handlers \ {h})
    <3>1. PICK g \in Handlers \ {h} : InHand(g) /\ r = held[g]
      BY <2>3 DEF InHands, InHand
    <3>2. InHand(g)' /\ held'[g].content = frozen[op]
      BY <2>1, <3>1 DEF ContentInv
    <3> QED
      BY <3>2 DEF InSight, InHands, InHand
  <2> QED
    BY <2>1, <2>2, <2>3
<1>3. CASE frozen[op] # row.content
  <2>1. CASE \E r \in pending : r.content = frozen[op]
    BY <1>3, <2>1 DEF InSight
  <2>2. ASSUME NEW g \in Handlers, InHand(g), held[g].content = frozen[op]
        PROVE  InSight(frozen[op])'
    <3>1. g # h
      BY <1>3, <2>2
    <3> QED
      BY <2>2, <3>1 DEF InSight, InHands, InHand
  <2> QED
    BY <1>1, <2>1, <2>2, Sight
<1> QED
  BY <1>2, <1>3

\* What was frozen last of a sentence stays in sight until it is settled.
LEMMA LossStep ==
  TypeInv /\ ContentInv /\ NoCandidateIsLost /\ [Next]_vars => NoCandidateIsLost'
<1> SUFFICES ASSUME TypeInv, ContentInv, NoCandidateIsLost, [Next]_vars
             PROVE  NoCandidateIsLost'
  OBVIOUS
<1> USE DEF TypeInv, TypeOK
<1>0. \A op \in 1 .. Len(frozen) : frozen[op] \in Contents
  OBVIOUS
<1>1. ASSUME NEW c \in Contents, Freeze(c) PROVE NoCandidateIsLost'
  <2>1. /\ Len(frozen) \in Nat /\ Len(frozen') = Len(frozen) + 1
        /\ frozen'[Len(frozen) + 1] = c
        /\ \A op \in 1 .. Len(frozen) : frozen'[op] = frozen[op]
        /\ pc' = pc /\ held' = held /\ settled' = settled
    BY <1>1 DEF Freeze
  <2>2. InHands(Handlers)' = InHands(Handlers)
    BY <2>1 DEF InHands
  <2> DEFINE new == [content |-> c, created |-> Len(frozen'), op |-> Len(frozen'),
                     attempt |-> 0]
  <2>3. pending' = Others(c) \cup {new} /\ new.content = c
    BY <1>1 DEF Freeze
  <2>4. /\ \E r \in pending' : r.content = c
        /\ \A r \in pending : r.content # c => r \in pending'
    <3> HIDE DEF new
    <3> QED
      BY <2>3 DEF Others
  <2> HIDE DEF TypeOK, TypeInv
  <2> SUFFICES ASSUME NEW op \in 1 .. Len(frozen'), op \notin settled',
                      \A later \in op + 1 .. Len(frozen') : frozen'[later] # frozen'[op]
               PROVE  \E row \in pending' \cup InHands(Handlers) : row.content = frozen'[op]
    BY <2>2, Zenon DEF NoCandidateIsLost
  <2>5. CASE frozen'[op] = c
    BY <2>4, <2>5
  <2>6. CASE frozen'[op] # c
    <3>1. op \in 1 .. Len(frozen) /\ frozen'[op] = frozen[op]
      BY <2>1, <2>6
    <3>2. \A later \in op + 1 .. Len(frozen) :
            later \in op + 1 .. Len(frozen') /\ frozen'[later] = frozen[later]
      BY <2>1
    <3>3. InSight(frozen[op])
      BY <2>1, <3>1, <3>2 DEF NoCandidateIsLost, InSight
    <3> QED
      BY <2>4, <2>6, <3>1, <3>3 DEF InSight
  <2> QED
    BY <2>5, <2>6
<1>2. ASSUME NEW h \in Handlers, Decline(h) PROVE NoCandidateIsLost'
  <2>1. PICK row \in Row(h) : Decided(row, h)
    BY <1>2 DEF Decline
  <2>2. pending \ {row} \subseteq pending' /\ row \in pending
    BY <1>2, <2>1 DEF Decline, Row, Without
  <2>3. /\ ~ InHand(h) /\ frozen' = frozen
        /\ \A g \in Handlers \ {h} : held'[g] = held[g] /\ (InHand(g)' <=> InHand(g))
    BY <1>2 DEF Decline, InHand
  <2> QED
    BY <2>1, <2>2, <2>3, DecidingKeepsTheRest
<1>3. ASSUME NEW h \in Handlers, HearSaved(h) \/ RestoreFails(h) \/ CutOff(h)
      PROVE  NoCandidateIsLost'
  <2>1. /\ Decided(held[h], h) /\ InHand(h) /\ frozen' = frozen /\ pending' = pending
        /\ \A g \in Handlers \ {h} : held'[g] = held[g] /\ (InHand(g)' <=> InHand(g))
    BY <1>3 DEF HearSaved, RestoreFails, CutOff, InHand
  <2> QED
    BY <2>1, DecidingKeepsTheRest
<1>4. ASSUME NEW h \in Handlers, Confirm(h) PROVE NoCandidateIsLost'
  <2>1. PICK row \in Row(h) : held' = [held EXCEPT ![h] = row]
    BY <1>4 DEF Confirm
  <2>2. /\ ~ InHand(h) /\ InHand(h)' /\ held'[h] = row
        /\ \A g \in Handlers \ {h} : held'[g] = held[g] /\ (InHand(g)' <=> InHand(g))
        /\ \A r \in pending : r \in pending' \/ r.content = row.content
        /\ frozen' = frozen /\ settled' = settled
    BY <1>4, <2>1 DEF Confirm, InHand, Row, Without
  <2>3. ASSUME NEW c \in Contents, InSight(c) PROVE InSight(c)'
    <3>1. CASE \E r \in pending : r.content = c
      BY <2>2, <3>1 DEF InSight, InHands, InHand
    <3>2. ASSUME NEW g \in Handlers, InHand(g), held[g].content = c PROVE InSight(c)'
      BY <2>2, <3>2 DEF InSight, InHands, InHand
    <3> QED
      BY <2>3, <3>1, <3>2, Sight
  <2> QED
    BY <1>0, <2>2, <2>3, KeepingSight
<1>5. ASSUME NEW h \in Handlers, Restore(h) PROVE NoCandidateIsLost'
  <2>1. /\ InHand(h) /\ frozen' = frozen /\ settled' = settled
        /\ pending \subseteq pending'
        /\ \A g \in Handlers \ {h} : held'[g] = held[g] /\ (InHand(g)' <=> InHand(g))
    BY <1>5 DEF Restore, InHand
  <2>2. held[h] \in Candidates
    BY <1>5 DEF Restore, HeldInv
  <2>3. Retried(held[h]).content = held[h].content
    BY <2>2 DEF Retried, Candidates
  <2>4. \E r \in pending' : r.content = held[h].content
    BY <1>5, <2>3 DEF Restore, Absent
  <2>5. ASSUME NEW c \in Contents, InSight(c) PROVE InSight(c)'
    <3>1. CASE \E r \in pending : r.content = c
      BY <2>1, <3>1 DEF InSight
    <3>2. ASSUME NEW g \in Handlers, InHand(g), held[g].content = c PROVE InSight(c)'
      <4>1. CASE g = h
        BY <2>4, <3>2, <4>1 DEF InSight
      <4>2. CASE g # h
        BY <2>1, <3>2, <4>2 DEF InSight, InHands, InHand
      <4> QED
        BY <4>1, <4>2
    <3> QED
      BY <2>5, <3>1, <3>2, Sight
  <2> QED
    BY <1>0, <2>1, <2>5, KeepingSight
<1>6. ASSUME NEW h \in Handlers,
             \/ \E intent \in {"confirm", "decline"} : ReadLatest(h, intent)
             \/ ClaimedAlready(h) \/ HearFailed(h) \/ TimesOut(h)
      PROVE  NoCandidateIsLost'
  <2>1. /\ frozen' = frozen /\ pending' = pending /\ settled' = settled
        /\ \A g \in Handlers : InHand(g) => InHand(g)' /\ held'[g] = held[g]
    BY <1>6 DEF ReadLatest, ClaimedAlready, HearFailed, TimesOut, InHand
  <2>2. \A c \in Contents : InSight(c) => InSight(c)'
    BY <2>1 DEF InSight, InHands, InHand
  <2> QED
    BY <1>0, <2>1, <2>2, KeepingSight
<1>7. CASE UNCHANGED <<ledger, settled>>
  BY <1>7 DEF ledger, NoCandidateIsLost, InHands
<1>8. UNCHANGED ledger => UNCHANGED settled \/ \E h \in Handlers : 
        HearSaved(h) \/ RestoreFails(h) \/ CutOff(h) \/ Decline(h)
  BY DEF Next, vars, ledger, Freeze, StartAdd, ReadLatest, Decline, Confirm,
         ClaimedAlready, HearSaved, HearFailed, TimesOut, Restore, RestoreFails, CutOff,
         LookUp, Insert, AddFails, EndAdd, Update, Delete
<1> QED
  BY <1>1, <1>2, <1>3, <1>4, <1>5, <1>6, <1>7, <1>8, LedgerSteps

-----------------------------------------------------------------------------
(* The records.                                                            *)

\* An insert never takes an id twice; rewriting leaves the ids as they are.
LEMMA IdStep == TypeInv /\ IdInv /\ [Next]_vars => IdInv'
<1> SUFFICES ASSUME TypeInv, IdInv, [Next]_vars PROVE IdInv'
  OBVIOUS
<1>1. ASSUME NEW a \in adders, Insert(a) PROVE IdInv'
  BY <1>1 DEF Insert, Taken, IdOf, IdInv
<1>2. ASSUME NEW m \in memory, NEW c \in Contents, Update(m, c) PROVE IdInv'
  <2> DEFINE new == [m EXCEPT !.text = c]
  <2>1. m \in Records /\ new.id = m.id /\ new.hash = m.hash
    BY DEF TypeInv, TypeOK, Records
  <2> QED
    BY <1>2, <2>1 DEF Update, IdInv
<1>3. ASSUME NEW m \in memory, Delete(m) PROVE IdInv'
  BY <1>3 DEF Delete, IdInv
<1>4. CASE UNCHANGED memory
  BY <1>4 DEF IdInv
<1> QED
  BY <1>1, <1>2, <1>3, <1>4
     DEF Next, vars, Freeze, StartAdd, ReadLatest, Decline, Confirm, ClaimedAlready,
         HearSaved, HearFailed, TimesOut, Restore, RestoreFails, CutOff, LookUp,
         AddFails, EndAdd

-----------------------------------------------------------------------------
(* Theorems.                                                               *)

\* What the theorems below are read off from.
THEOREM Invariance == Spec => []IInv
<1>1. IInv /\ [Next]_vars => IInv'
  BY TypeStep, LedgerStep, IdStep, ContentStep, LossStep DEF IInv
<1> QED
  BY <1>1, InitInv, PTL DEF Spec

\* Every variable keeps its type, and the ledger one row for each sentence.
THEOREM TypeCorrect == Spec => []TypeOK
<1>1. IInv => TypeOK
  BY DEF IInv, TypeInv
<1> QED
  BY <1>1, Invariance, PTL

\* A candidate that went back to the ledger has not overtaken a later one.
THEOREM RestoredInOrderHolds == Spec => []RestoredInOrder
<1>1. IInv => RestoredInOrder
  BY DEF IInv, OrderInv, RestoredInOrder
<1> QED
  BY <1>1, Invariance, PTL

\* What was frozen last of a sentence can be decided on until it is settled.
THEOREM NoCandidateIsLostHolds == Spec => []NoCandidateIsLost
<1>1. IInv => NoCandidateIsLost
  BY DEF IInv
<1> QED
  BY <1>1, Invariance, PTL

\* However many attempts at a sentence are at work, it has one record.
THEOREM OneRecordPerHashHolds == Spec => []OneRecordPerHash
<1>1. IInv => OneRecordPerHash
  BY DEF IInv, IdInv, OneRecordPerHash
<1> QED
  BY <1>1, Invariance, PTL

\* A confirmation never meets the outcome of an earlier attempt.
THEOREM KeysAreFreshHolds == Spec => KeysAreFresh
<1> DEFINE Fresh == \A h \in Handlers : pc[h] = "confirm" /\ pc'[h] = "saving"
                                          => Key(held'[h]) \notin used
<1>1. IInv /\ [Next]_vars => [Fresh]_vars
  <2> SUFFICES ASSUME IInv, Next, NEW h \in Handlers, pc[h] = "confirm", pc'[h] = "saving"
               PROVE  Key(held'[h]) \notin used
    BY DEF KeysAreFresh
  <2> USE DEF IInv, TypeInv, TypeOK
  <2>1. ASSUME NEW g \in Handlers,
               \/ \E intent \in {"confirm", "decline"} : ReadLatest(g, intent)
               \/ Decline(g) \/ ClaimedAlready(g) \/ HearSaved(g) \/ HearFailed(g)
               \/ TimesOut(g) \/ Restore(g) \/ RestoreFails(g) \/ CutOff(g)
        PROVE  FALSE
    BY <2>1 DEF ReadLatest, Decline, ClaimedAlready, HearSaved, HearFailed, TimesOut,
                Restore, RestoreFails, CutOff
  <2>2. ASSUME NEW g \in Handlers, Confirm(g) PROVE g = h
    BY <2>2 DEF Confirm
  <2>3. Confirm(h)
    BY <2>1, <2>2, LedgerSteps DEF ledger, Freeze
  <2>4. held'[h] \in pending
    BY <2>3 DEF Confirm, Row
  <2>5. held'[h] \in Candidates
    BY <2>4
  <2> QED
    BY <2>4, <2>5 DEF KeyInv, Key, Candidates
<1>2. [][Fresh]_vars => KeysAreFresh
  BY PTL DEF KeysAreFresh
<1> QED
  BY <1>1, <1>2, Invariance, PTL DEF Spec
=============================================================================
