---------------------------- MODULE BranchStore ----------------------------
(***************************************************************************)
(* Branches of a conversation: fork_conversation (inherit up to a turn),   *)
(* branch_for_edit (inherit up to the turn that is rewritten), the version *)
(* groups of edited positions, and the lineage that scopes long-term       *)
(* memory.  A process takes its own lock for the whole of a method, but    *)
(* the other process shares only the database: what a method reads before  *)
(* its transaction may be gone when the transaction begins.                *)
(*                                                                         *)
(* The module follows one family: conversation 1 and what branches off it. *)
(* Conversations and turns get their ids in the order they are made, 0 is  *)
(* NULL.  A copied turn keeps started_at; `origin` follows it to the turn  *)
(* that was lived.  A turn stands for its row, messages and snapshot.      *)
(***************************************************************************)
EXTENDS Naturals, FiniteSets

CONSTANTS
  Procs,        \* serving processes
  Forkers,      \* those that are asked for branches
  Keys,         \* Idempotency-Key values
  None,         \* a request without a key
  MaxConvs, MaxTurns,   \* bounds: conversations and turn rows ever made,
  MaxStarts, MaxWiped   \* turns started, conversations cleared or deleted

ASSUME BoundsAreNat == MaxConvs \in Nat \ {0} /\ MaxTurns \in Nat
                         /\ MaxStarts \in Nat /\ MaxWiped \in Nat
ASSUME SomeProcsFork == Forkers \subseteq Procs
ASSUME NoneIsNoKey == None \notin Keys

Convs == 1 .. MaxConvs
Turns == 1 .. MaxTurns
Never == MaxStarts + 1                      \* later than any started_at

VARIABLES
  conv,         \* the conversations table, by id
  turn,         \* the turns table, by id
  keyed,        \* fork_requests: the conversation a key names, or 0
  proc,         \* what every process does between its reads and its commit
  clock,        \* how many turns were started: the time of the next
  wiped         \* conversations that were cleared or deleted at some time

vars == <<conv, turn, keyed, proc, clock, wiped>>

Made == {c \in Convs : conv[c].state # "unused"}
Live == {c \in Convs : conv[c].state = "live"}
TurnsOf(c)  == {t \in Turns : turn[t].conv = c}
HasRow(t)   == turn[t].status \in {"running", "completed", "failed"}
Rows(c)     == {t \in TurnsOf(c) : HasRow(t)}
Completed(c) == {t \in TurnsOf(c) : turn[t].status = "completed"}

NoConv == [state |-> "unused", parent |-> 0, forked |-> 0, slot |-> 0, born |-> 0,
           key |-> None, clean |-> TRUE]
NoTurn == [status |-> "unused", conv |-> 0, at |-> 0, whole |-> FALSE, origin |-> 0]
Idle   == [op |-> "idle", source |-> 0, turn |-> 0, key |-> None, before |-> {}, slot |-> 0]

TypeOK ==
  /\ conv \in [Convs -> [state : {"unused", "live", "deleted"}, parent : 0 .. MaxConvs,
                         forked : 0 .. MaxTurns, slot : 0 .. MaxTurns, born : 0 .. MaxStarts,
                         key : Keys \cup {None}, clean : BOOLEAN]]
  /\ turn \in [Turns -> [status : {"unused", "running", "completed", "failed", "gone"},
                         conv : 0 .. MaxConvs, at : 0 .. MaxStarts, whole : BOOLEAN,
                         origin : 0 .. MaxTurns]]
  /\ keyed \in [Keys -> 0 .. MaxConvs]
  /\ proc \in [Procs -> [op : {"idle", "forking", "editing", "reading"}, source : 0 .. MaxConvs,
                         turn : 0 .. MaxTurns, key : Keys \cup {None},
                         before : SUBSET Turns, slot : 0 .. MaxTurns]]
  /\ clock \in 0 .. MaxStarts
  /\ wiped \subseteq Convs

Init ==
  /\ conv  = [c \in Convs |-> IF c = 1 THEN [NoConv EXCEPT !.state = "live"] ELSE NoConv]
  /\ turn  = [t \in Turns |-> NoTurn]
  /\ keyed = [k \in Keys |-> 0]
  /\ proc  = [p \in Procs |-> Idle]
  /\ clock = 0
  /\ wiped = {}

Free(p) == proc[p].op = "idle"     \* its lock is not held
NextConv == Cardinality(Made) + 1
UsedTurns == Cardinality({t \in Turns : turn[t].status # "unused"})
-----------------------------------------------------------------------------
(* Conversations and turns as far as branches depend on them.               *)

\* start_request_turn: one turn of a conversation runs at a time.
StartTurn(p, c) ==
  LET t == UsedTurns + 1 IN
  /\ Free(p) /\ t \in Turns /\ clock < MaxStarts
  /\ c \in Live /\ \A u \in TurnsOf(c) : turn[u].status # "running"
  /\ clock' = clock + 1
  /\ turn' = [turn EXCEPT ![t] = [status |-> "running", conv |-> c, at |-> clock + 1,
                                  whole |-> FALSE, origin |-> t]]
  /\ UNCHANGED <<conv, keyed, proc, wiped>>

\* finalize_request_turn writes the answer with the status, fail_turn none.
EndTurn(p, t, status) ==
  /\ Free(p) /\ turn[t].status = "running"
  /\ turn' = [turn EXCEPT ![t].status = status, ![t].whole = (status = "completed")]
  /\ UNCHANGED <<conv, keyed, proc, clock, wiped>>

\* delete_conversation, or clear_conversation_messages which leaves the row.
Wipe(p, c, after) ==
  /\ Free(p) /\ c \in Live /\ Cardinality(wiped) < MaxWiped
  /\ conv' = [conv EXCEPT ![c].state = after]
  /\ turn' = [t \in Turns |-> IF t \in Rows(c) THEN [turn[t] EXCEPT !.status = "gone"] ELSE turn[t]]
  /\ wiped' = wiped \cup {c}
  /\ UNCHANGED <<keyed, proc, clock>>

DeleteConversation(p, c) == Wipe(p, c, "deleted")
ClearConversation(p, c)  == Wipe(p, c, "live")
-----------------------------------------------------------------------------
(* Fork and edit.                                                           *)

\* The key names a branch that is there: it is answered again and nothing changes.
Replays(k) == k # None /\ keyed[k] # 0 /\ keyed[k] \in Live

\* fork_conversation up to its transaction.
CheckFork(p, c, t, k) ==
  /\ Free(p) /\ ~Replays(k)
  /\ c \in Live /\ t \in Completed(c)
  /\ proc' = [proc EXCEPT ![p] = [Idle EXCEPT !.op = "forking", !.source = c, !.turn = t, !.key = k]]
  /\ UNCHANGED <<conv, turn, keyed, clock, wiped>>

\* branch_for_edit: the source and the edited turn, whatever its status ...
CheckEdit(p, c, t, k) ==
  /\ Free(p) /\ ~Replays(k)
  /\ c \in Live /\ t \in Rows(c)
  /\ proc' = [proc EXCEPT ![p] = [Idle EXCEPT !.op = "editing", !.source = c, !.turn = t, !.key = k]]
  /\ UNCHANGED <<conv, turn, keyed, clock, wiped>>

\* _resolve_slot_anchor.  Only a row that is still there gives a boundary.
\* Mutated: the inherited turns count as the branch's own.
NoBoundary(c) == 0
Boundary(c) == IF conv[c].forked # 0 /\ HasRow(conv[c].forked) THEN turn[conv[c].forked].at ELSE 0

FirstFresh(c, t) ==
  /\ t \in Rows(c) /\ turn[t].at > Boundary(c)
  /\ \A u \in Rows(c) : turn[u].at > Boundary(c) => turn[t].at <= turn[u].at

Slot(c, t) == IF conv[c].slot # 0 /\ FirstFresh(c, t) THEN conv[c].slot ELSE t

\* ... then the turns it inherits and the slot, each in a read of its own.
ReadBefore(p) ==
  LET c == proc[p].source
      t == proc[p].turn
  IN /\ proc[p].op = "editing"
     /\ proc' = [proc EXCEPT ![p].op = "reading",
                             ![p].before = {u \in Completed(c) : turn[u].at < turn[t].at},
                             ![p].slot = Slot(c, t)]
     /\ UNCHANGED <<conv, turn, keyed, clock, wiped>>

\* The turns in ts, oldest first, take the free turn ids in this order.
Rank(ts, u) == Cardinality({v \in ts : turn[v].at < turn[u].at}) + 1
CopyOf(ts, t) == CHOOSE u \in ts : UsedTurns + Rank(ts, u) = t
CopyIds(ts) == UsedTurns + 1 .. UsedTurns + Cardinality(ts)

\* _materialize_branch: the copied turn has its messages as far as they are there.
Copies(ts, child) ==
  [t \in Turns |->
     IF t \notin CopyIds(ts) THEN turn[t]
     ELSE LET u == CopyOf(ts, t) IN
          [turn[u] EXCEPT !.status = "completed", !.conv = child, !.whole = HasRow(u) /\ @]]

\* The child's row and its key; INSERT OR REPLACE lets the last one have the key.
\* `clean` (history only): no conversation above the child was cleared or deleted.
AddChild(p, ts, forked, slot) ==
  LET c == proc[p].source
      child == NextConv
  IN /\ child \in Convs /\ CopyIds(ts) \subseteq Turns
     /\ conv' = [conv EXCEPT ![child] =
                   [state |-> "live", parent |-> c, forked |-> forked, slot |-> slot,
                    born |-> clock, key |-> proc[p].key,
                    clean |-> conv[c].clean /\ c \notin wiped /\ conv[c].parent \notin wiped]]
     /\ turn' = Copies(ts, child)
     /\ keyed' = [k \in Keys |-> IF k = proc[p].key THEN child ELSE keyed[k]]
     /\ proc' = [proc EXCEPT ![p] = Idle]
     /\ UNCHANGED <<clock, wiped>>

\* Mutated: the fork turn itself is left out.
BeforeTheTurn(c, t) == {u \in Completed(c) : turn[u].at < turn[t].at}
UpToTheTurn(c, t) == {u \in Completed(c) : turn[u].at <= turn[t].at}

CommitFork(p) ==
  /\ proc[p].op = "forking"
  /\ AddChild(p, UpToTheTurn(proc[p].source, proc[p].turn), proc[p].turn, 0)

\* A branch without an inherited turn gets no fork turn, which is 0.
Latest(ts) == IF ts = {} THEN 0 ELSE CHOOSE u \in ts : \A v \in ts : turn[v].at <= turn[u].at

\* turns_completed_requires_assistant_insert: a trigger aborts the transaction when
\* the messages of an inherited turn are gone.  Mutated: there is no trigger.
AcceptsHalfTurns(ts) == TRUE
AcceptsTurns(ts) == \A u \in ts : HasRow(u)

CommitEdit(p) ==
  /\ proc[p].op = "reading" /\ AcceptsTurns(proc[p].before)
  /\ AddChild(p, proc[p].before, Latest(proc[p].before), proc[p].slot)

CommitAborts(p) ==
  /\ proc[p].op = "reading" /\ ~AcceptsTurns(proc[p].before)
  /\ proc' = [proc EXCEPT ![p] = Idle]
  /\ UNCHANGED <<conv, turn, keyed, clock, wiped>>

Branch(p) ==
  \/ \E c \in Convs, t \in Turns, k \in Keys \cup {None} :
       p \in Forkers /\ (CheckFork(p, c, t, k) \/ CheckEdit(p, c, t, k))
  \/ ReadBefore(p)
  \/ CommitFork(p) \/ CommitEdit(p) \/ CommitAborts(p)

Next ==
  \E p \in Procs :
    \/ \E c \in Convs : StartTurn(p, c) \/ DeleteConversation(p, c) \/ ClearConversation(p, c)
    \/ \E t \in Turns : EndTurn(p, t, "completed") \/ EndTurn(p, t, "failed")
    \/ Branch(p)

Spec == Init /\ [][Next]_vars
-----------------------------------------------------------------------------
(* What readers make of the tables (BranchMemory: who sees which memories). *)

\* get_branch_lineage: the conversation itself, then its ancestors, each with the
\* time up to which it is visible.  A branch without a fork turn, or whose parent's
\* row is gone, ends the walk; a fork turn that is gone is replaced by the time the
\* branch was made.
Cut(c) == IF HasRow(conv[c].forked) THEN turn[conv[c].forked].at ELSE conv[c].born

\* Mutated: the walk stops at the first branch.
OwnOnly(c) == TRUE
Ends(c) == conv[c].parent = 0 \/ conv[c].forked = 0 \/ conv[conv[c].parent].state # "live"

Lineage[c \in Convs] ==
  {<<c, Never>>} \cup
    IF Ends(c) THEN {}
    ELSE {<<conv[c].parent, Cut(c)>>} \cup
         {e \in Lineage[conv[c].parent] : e[1] # conv[c].parent}

Inherited(c) == {t \in TurnsOf(c) : turn[t].origin # t}
Past(c) == {turn[t].origin : t \in Inherited(c)}

-----------------------------------------------------------------------------
(* Safety.                                                                  *)

\* No conversation ever shows a completed turn without its answer, though a branch
\* copies turns it has read before it copies their messages.
NoHalfTurns == \A c \in Live : \A t \in Completed(c) : turn[t].whole

\* What a branch has inherited is what was completed up to its fork turn, and
\* nothing that happens to its source later changes that, as long as nobody clears
\* or deletes above it.
InheritsUpToTheCut ==
  \A c \in Made : conv[c].parent # 0 /\ conv[c].clean /\ conv[c].parent \notin wiped =>
    Past(c) = {turn[u].origin : u \in {v \in Completed(conv[c].parent) :
                 conv[c].forked # 0 /\ turn[v].at <= turn[conv[c].forked].at}}

\* Two versions of one slot are versions of one message: what comes before it is
\* the same in both, through edits of edits.
SameSlotSamePast ==
  \A c, d \in Made : conv[c].clean /\ conv[d].clean /\ conv[c].slot # 0 /\ conv[c].slot = conv[d].slot
    => Past(c) = Past(d)
=============================================================================
