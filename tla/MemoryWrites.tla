----------------------------- MODULE MemoryWrites -----------------------------
(***************************************************************************)
(* How a sentence gets into the long-term memory of one user.  A write the *)
(* agent may not make is frozen, and the user is asked; a later turn reads *)
(* the newest frozen candidate, claims it, and runs remember under a key   *)
(* of its own while it waits for a limited time.  If that fails, or is too *)
(* late, the candidate goes back to where it was in the ledger, although   *)
(* the thread of remember may still be at work.                            *)
(*                                                                         *)
(* Beside that the outbox consolidates what it learnt: it adds, rewrites   *)
(* and deletes records.  A record is found by the hash of the text it was  *)
(* created with, and so is its id made.                                    *)
(*                                                                         *)
(* A turn runs in a handler; two of them share a conversation when a lease *)
(* has lapsed, and they may be in different processes.                     *)
(***************************************************************************)
EXTENDS Integers, Sequences, FiniteSets, FiniteSetsExt

CONSTANTS
  Handlers,
  Contents,      \* the sentences, one digest each
  MaxFreezes,    \* bound: how often a write is frozen
  MaxDecisions,  \* bound: how often the user confirms or declines
  MaxEdits       \* bound: operations of the consolidation

ASSUME BoundsAreNat == {MaxFreezes, MaxDecisions, MaxEdits} \subseteq Nat

VARIABLES
  frozen,     \* history: the contents in the order they were frozen
  pending,    \* pending_memory_writes of the conversation
  pc, held,   \* what a handler does, and the candidate in its hands
  adders,     \* the calls of AgentMemory.add at work, or with an outcome
  memory,     \* memory_records
  used,       \* history: the keys that remember was called with
  settled,    \* history: candidates declined, saved, given up or cut off
  decisions, edits

vars == <<frozen, pending, pc, held, adders, memory, used, settled, decisions, edits>>

Ops        == 1 .. MaxFreezes
Candidates == [content : Contents, created : Ops, op : Ops, attempt : Nat]
Keys       == Ops \X Nat
NoKey      == <<0, 0>>        \* remember or ADD without a confirmation
Adders     == [key : Keys \cup {NoKey}, content : Contents,
               at : {"lookup", "insert", "ok", "failed"}]
Records    == [id : Contents \X Nat, hash : Contents, text : Contents]
Nothing    == [content |-> "nothing"]

TypeOK ==
  /\ frozen \in Seq(Contents) /\ Len(frozen) <= MaxFreezes
  /\ pending \subseteq Candidates
  /\ \A r, s \in pending : r.content = s.content => r = s
  /\ pc \in [Handlers -> {"idle", "decline", "confirm", "saving", "failed"}]
  /\ held \in [Handlers -> Candidates \cup {Nothing}]
  /\ adders \subseteq Adders
  /\ memory \subseteq Records
  /\ used \subseteq Keys /\ settled \subseteq Ops
  /\ decisions \in 0 .. MaxDecisions /\ edits \in 0 .. MaxEdits

Init ==
  /\ frozen = <<>> /\ pending = {} /\ used = {} /\ settled = {}
  /\ pc = [h \in Handlers |-> "idle"] /\ held = [h \in Handlers |-> Nothing]
  /\ adders = {} /\ memory = {} /\ decisions = 0 /\ edits = 0

Key(row) == <<row.op, row.attempt>>

\* The candidates that handlers have taken out of the ledger.
InHands(hs) == {held[g] : g \in {g \in hs : pc[g] \in {"saving", "failed"}}}

\* The history of a decision on a row: it is one on every earlier candidate of
\* the sentence that is neither pending nor in the hands of another handler.
Decided(row, h) ==
  settled' = settled \cup
    ({op \in 1 .. Len(frozen) : frozen[op] = row.content}
       \ {r.op : r \in (pending \ {row}) \cup InHands(Handlers \ {h})})

-----------------------------------------------------------------------------
(* memory_gate: the ledger of frozen candidates                            *)

Others(c) == {r \in pending : r.content # c}

Freeze(c) ==
  /\ Len(frozen) < MaxFreezes
  /\ frozen' = Append(frozen, c)
  /\ LET op == Len(frozen')
     IN  pending' = Others(c)
           \cup {[content |-> c, created |-> op, op |-> op, attempt |-> 0]}
  /\ UNCHANGED <<pc, held, adders, memory, used, settled, decisions, edits>>

Newest(row) == \A r \in pending : r.created <= row.created

\* latest_pending_digest, for a message that confirms or declines.
ReadLatest(h, intent) ==
  /\ pc[h] = "idle" /\ decisions < MaxDecisions
  /\ decisions' = decisions + 1 /\ pc' = [pc EXCEPT ![h] = intent]
  /\ \E row \in pending : Newest(row) /\ held' = [held EXCEPT ![h] = row]
  /\ UNCHANGED <<frozen, pending, adders, memory, used, settled, edits>>

\* The row of the digest, whichever was frozen under it last.
Row(h) == {r \in pending : r.content = held[h].content}

\* A claim that reads the row and leaves it there.
LeftThere(rows) == pending
Without(rows)   == pending \ rows

Decline(h) ==
  /\ pc[h] = "decline"
  /\ \E row \in Row(h) : Decided(row, h)
  /\ pending' = Without(Row(h))
  /\ pc' = [pc EXCEPT ![h] = "idle"] /\ held' = [held EXCEPT ![h] = Nothing]
  /\ UNCHANGED <<frozen, adders, memory, used, decisions, edits>>

\* claim_pending_write, and remember set going under the candidate's key.
Confirm(h) ==
  /\ pc[h] = "confirm"
  /\ \E row \in Row(h) :
     /\ held' = [held EXCEPT ![h] = row]
     /\ used' = used \cup {Key(row)}
     /\ adders' = adders
          \cup {[key |-> Key(row), content |-> row.content, at |-> "lookup"]}
  /\ pending' = Without(Row(h))
  /\ pc' = [pc EXCEPT ![h] = "saving"]
  /\ UNCHANGED <<frozen, memory, settled, decisions, edits>>

\* Another handler was faster.
ClaimedAlready(h) ==
  /\ pc[h] \in {"decline", "confirm"} /\ Row(h) = {}
  /\ pc' = [pc EXCEPT ![h] = "idle"] /\ held' = [held EXCEPT ![h] = Nothing]
  /\ UNCHANGED <<frozen, pending, adders, memory, used, settled, decisions, edits>>

Of(h) == {a \in adders : a.key = Key(held[h])}

HearSaved(h) ==
  /\ pc[h] = "saving" /\ \E a \in Of(h) : a.at = "ok"
  /\ adders' = adders \ Of(h) /\ Decided(held[h], h)
  /\ pc' = [pc EXCEPT ![h] = "idle"] /\ held' = [held EXCEPT ![h] = Nothing]
  /\ UNCHANGED <<frozen, pending, memory, used, decisions, edits>>

HearFailed(h) ==
  /\ pc[h] = "saving" /\ \E a \in Of(h) : a.at = "failed"
  /\ adders' = adders \ Of(h)
  /\ pc' = [pc EXCEPT ![h] = "failed"]
  /\ UNCHANGED <<frozen, pending, held, memory, used, settled, decisions, edits>>

\* The time of remember is up: its thread goes on, unless none had begun.
TimesOut(h) ==
  /\ pc[h] = "saving"
  /\ adders' \in {adders, adders \ {a \in Of(h) : a.at = "lookup"}}
  /\ pc' = [pc EXCEPT ![h] = "failed"]
  /\ UNCHANGED <<frozen, pending, held, memory, used, settled, decisions, edits>>

\* What goes back: the candidate as it was, under the next key.
PostDated(row)  == [row EXCEPT !.attempt = @ + 1, !.created = Len(frozen)]
Retried(row)    == [row EXCEPT !.attempt = @ + 1]

\* A ledger with one row for the conversation.
LedgerEmpty(c) == pending = {}
Absent(c)      == \A r \in pending : r.content # c

Restore(h) ==
  /\ pc[h] = "failed"
  /\ pending' = IF Absent(held[h].content) THEN pending \cup {Retried(held[h])}
                ELSE pending
  /\ pc' = [pc EXCEPT ![h] = "idle"] /\ held' = [held EXCEPT ![h] = Nothing]
  /\ UNCHANGED <<frozen, adders, memory, used, settled, decisions, edits>>

\* The ledger cannot be written; the user is asked to say it again.
RestoreFails(h) ==
  /\ pc[h] = "failed" /\ Decided(held[h], h)
  /\ pc' = [pc EXCEPT ![h] = "idle"] /\ held' = [held EXCEPT ![h] = Nothing]
  /\ UNCHANGED <<frozen, pending, adders, memory, used, decisions, edits>>

\* The turn is cancelled, which the handler does not catch, or its process
\* dies, and the thread with it.
CutOff(h) ==
  /\ pc[h] \in {"saving", "failed"} /\ Decided(held[h], h)
  /\ adders' \in {adders, adders \ Of(h)}
  /\ pc' = [pc EXCEPT ![h] = "idle"] /\ held' = [held EXCEPT ![h] = Nothing]
  /\ UNCHANGED <<frozen, pending, memory, used, decisions, edits>>

-----------------------------------------------------------------------------
(* AgentMemory._add_record: look for the hash, then insert under the id    *)
(* made of it.  The lock of a process covers both; another process may be  *)
(* in between.                                                             *)

WithHash(c) == {m \in memory : m.hash = c}
Step(a, at) == adders' = (adders \ {a}) \cup {[a EXCEPT !.at = at]}

LookUp(a) ==
  /\ a.at = "lookup"
  /\ Step(a, IF WithHash(a.content) # {} THEN "ok" ELSE "insert")
  /\ UNCHANGED <<frozen, pending, pc, held, memory, used, settled, decisions, edits>>

\* An id that is new at every call.
NewId(c)  == <<c, Cardinality(memory)>>
IdOf(c)   == <<c, 0>>
Taken(id) == \E m \in memory : m.id = id

\* A duplicate id: somebody else has inserted it, and the record is theirs.
Insert(a) ==
  /\ a.at = "insert"
  /\ memory' = IF Taken(IdOf(a.content)) THEN memory
               ELSE memory \cup {[id |-> IdOf(a.content), hash |-> a.content,
                                  text |-> a.content]}
  /\ Step(a, "ok")
  /\ UNCHANGED <<frozen, pending, pc, held, used, settled, decisions, edits>>

AddFails(a) ==
  /\ a.at \in {"lookup", "insert"} /\ Step(a, "failed")
  /\ UNCHANGED <<frozen, pending, pc, held, memory, used, settled, decisions, edits>>

-----------------------------------------------------------------------------
(* AgentMemory._consolidate, in the outbox, and direct writes              *)

Edit == edits < MaxEdits /\ edits' = edits + 1

\* ADD, the remember of a turn nobody has to ask for, or an UPDATE that failed.
StartAdd(c) ==
  /\ Edit /\ ~ \E a \in adders : a.key = NoKey
  /\ adders' = adders \cup {[key |-> NoKey, content |-> c, at |-> "lookup"]}
  /\ UNCHANGED <<frozen, pending, pc, held, memory, used, settled, decisions>>

EndAdd(a) ==
  /\ a.key = NoKey /\ a.at \in {"ok", "failed"} /\ adders' = adders \ {a}
  /\ UNCHANGED <<frozen, pending, pc, held, memory, used, settled, decisions, edits>>

\* UPDATE writes the document and leaves the metadata, the hash with them.
Update(m, c) ==
  /\ Edit /\ c # m.text
  /\ memory' = (memory \ {m}) \cup {[m EXCEPT !.text = c]}
  /\ UNCHANGED <<frozen, pending, pc, held, adders, used, settled, decisions>>

\* DELETE, or the scrub of a field the user asked to forget.
Delete(m) ==
  /\ Edit /\ memory' = memory \ {m}
  /\ UNCHANGED <<frozen, pending, pc, held, adders, used, settled, decisions>>

Next ==
  \/ \E c \in Contents : Freeze(c) \/ StartAdd(c)
  \/ \E h \in Handlers :
       \/ \E intent \in {"confirm", "decline"} : ReadLatest(h, intent)
       \/ Decline(h) \/ Confirm(h) \/ ClaimedAlready(h)
       \/ HearSaved(h) \/ HearFailed(h) \/ TimesOut(h)
       \/ Restore(h) \/ RestoreFails(h) \/ CutOff(h)
  \/ \E a \in adders : LookUp(a) \/ Insert(a) \/ AddFails(a) \/ EndAdd(a)
  \/ \E m \in memory : Delete(m) \/ \E c \in Contents : Update(m, c)

Spec == Init /\ [][Next]_vars

-----------------------------------------------------------------------------
(* Properties                                                              *)

(* A candidate that goes back after a failed save does not overtake one    *)
(* that was frozen meanwhile: the user is always asked, and answers, about *)
(* the newest of those that are pending.                                   *)
RestoredInOrder ==
  \A r, s \in pending : r.op < s.op => r.created < s.created

(* Every confirmation runs remember under a key that was never used, by    *)
(* whichever handler: a used one would be answered by what became of the   *)
(* earlier attempt.                                                        *)
KeysAreFresh ==
  [][\A h \in Handlers : pc[h] = "confirm" /\ pc'[h] = "saving"
       => Key(held'[h]) \notin used]_vars

(* However many attempts at a sentence are at work, in whichever process,  *)
(* and late as they may be, it is stored under its hash once.              *)
OneRecordPerHash == \A m, n \in memory : m.hash = n.hash => m = n

(* What was last frozen of a sentence is there to be decided on, or in the *)
(* hands of a handler, until the user declined, it was saved, or the turn  *)
(* that saved it was cut off or could not put it back.                     *)
NoCandidateIsLost ==
  \A op \in 1 .. Len(frozen) :
    op \notin settled /\ (\A later \in op + 1 .. Len(frozen) : frozen[later] # frozen[op])
      => \E row \in pending \cup InHands(Handlers) : row.content = frozen[op]

(* "The frozen candidate was saved verbatim": when the memory answers that *)
(* a confirmed sentence was saved, a record says that sentence.            *)
SavedVerbatim ==
  [][\A a \in adders :
       a.key # NoKey /\ a.at = "lookup" /\ [a EXCEPT !.at = "ok"] \in adders'
         => \E m \in memory' : m.text = a.content]_vars
=============================================================================
