---------------------- MODULE ConversationTurns_proofs ----------------------
(***************************************************************************)
(* The inductive invariant of ConversationTurns and what follows from it   *)
(* for every set of conversations, turns, requests and handlers.           *)
(***************************************************************************)
EXTENDS ConversationTurns, TLAPS

\* A handler whose turn may still be written by it.
Owns(h) == handler[h].step \in {"running", "finalizing", "failing"}

\* The fields every step of a handler relies on.
FieldsSet ==
  \A h \in Handlers :
    /\ handler[h].step \in {"resolving", "starting"} => handler[h].req # None
    /\ Owns(h) \/ handler[h].step = "replaying" => handler[h].turn # None

TypeInv == TypeOK /\ FieldsSet

\* Rows refer to each other as the foreign columns say.
RowsInv ==
  /\ \A t \in Turns : HasRow(t) <=> home[t] # None
  /\ \A t \in Turns : HasRow(t) => /\ conv[home[t]] = "live"
                                   /\ asked[t] # None
                                   /\ request[asked[t]] = t
  /\ \A t \in Turns : t \in answer \/ t \in snapshot => HasRow(t)
  /\ \A r \in Requests :
       request[r] # None => HasRow(request[r]) /\ asked[request[r]] = r

\* A turn runs exactly as long as its conversation's lease names it.
LeaseInv ==
  /\ \A t \in Turns : status[t] = "running" => lease[home[t]] = t
  /\ \A c \in Convs :
       lease[c] # None => status[lease[c]] = "running" /\ home[lease[c]] = c

\* A handler is the only one to write its turn, and the turn cannot complete
\* behind its back; it can only be reclaimed after its expiry, or deleted.  A
\* handler that is failing may have committed a verdict of its own already.
OwnerInv ==
  /\ \A h \in Handlers :
       Owns(h) => \/ status[handler[h].turn] \in {"running", "deleted"}
                  \/ status[handler[h].turn] = "failed" /\ handler[h].turn \in lapsed
                  \/ /\ handler[h].step = "failing"
                     /\ status[handler[h].turn] \in {"completed", "failed"}
  /\ \A g, h \in Handlers :
       g # h /\ Owns(g) /\ Owns(h) => handler[g].turn # handler[h].turn

\* The answer and the snapshot of a turn are on disk.
Kept(t) == t \in answer \cap snapshot

\* What a handler tells its client, or is about to, agrees with the rows.
ReplyInv ==
  \A h \in Handlers :
    /\ handler[h].step = "replaying" /\ handler[h].code = 200
         => Kept(handler[h].turn) \/ status[handler[h].turn] = "deleted"
    /\ handler[h].step = "replied" /\ handler[h].code = 200
         => /\ handler[h].turn # None
            /\ \/ Kept(handler[h].turn)
               \/ status[handler[h].turn] = "deleted"
               \/ handler[h].turn \in lapsed

IInv == /\ TypeInv /\ RowsInv /\ LeaseInv /\ OwnerInv /\ ReplyInv
        /\ CompletedIsDurable /\ ErasureBarrier

-----------------------------------------------------------------------------
(* Types.                                                                   *)

\* The initial handlers are idle and no row exists.
LEMMA TypeInit == Init => TypeInv
<1>1. Idle \in HandlerStates
  BY DEF Idle, At, HandlerStates, Steps, Codes
<1>2. Init => TypeOK
  BY <1>1 DEF Init, TypeOK, TurnStates
<1>3. Init => FieldsSet
  BY DEF Init, FieldsSet, Owns, Idle, At
<1> QED
  BY <1>2, <1>3 DEF TypeInv

\* Every action assigns values of the type, and fills the fields its next step reads.
LEMMA TypeStep == TypeInv /\ [Next]_vars => TypeInv'
<1> SUFFICES ASSUME TypeInv, [Next]_vars PROVE TypeInv'
  OBVIOUS
<1> USE NoneIsFresh DEF TypeInv, TypeOK, FieldsSet, Owns, HandlerStates, TurnStates,
                        Steps, Codes, store, rows, Goto, At
<1>1. ASSUME NEW h \in Handlers, NEW r \in Requests, NEW c \in Convs \cup {None},
             Receive(h, r, c)
      PROVE  TypeInv'
  BY <1>1 DEF Receive, Idle
<1>2. ASSUME NEW h \in Handlers, Resolve(h)
      PROVE  TypeInv'
  BY <1>2 DEF Resolve, Replay
<1>3. ASSUME NEW h \in Handlers, NEW c \in Convs, NEW t \in Turns, StartClaims(h, c, t)
      PROVE  TypeInv'
  BY <1>3 DEF StartClaims, Claim, StatusAfterClaim
<1>4. ASSUME NEW h \in Handlers, StartRefuses(h)
      PROVE  TypeInv'
  BY <1>4 DEF StartRefuses, Replay, Reply, Known
<1>5. ASSUME NEW h \in Handlers, ReplayRead(h)
      PROVE  TypeInv'
  BY <1>5 DEF ReplayRead, Reply
<1>6. ASSUME NEW h \in Handlers, RunGraph(h)
      PROVE  TypeInv'
  BY <1>6 DEF RunGraph
<1>7. ASSUME NEW h \in Handlers, FinalizeCommits(h) \/ FinalizeUnread(h)
      PROVE  TypeInv'
  BY <1>7 DEF FinalizeCommits, FinalizeUnread, GiveUp, Settle, SnapshotsAfter, Outcome, Reply
<1>8. ASSUME NEW h \in Handlers,
             FinalizeTooLate(h) \/ FinalizeRaises(h) \/ FailTurnRaises(h)
      PROVE  TypeInv'
  BY <1>8 DEF FinalizeTooLate, FinalizeRaises, GiveUp, FailTurnRaises, Reply
<1>9. ASSUME NEW h \in Handlers, FailTurn(h)
      PROVE  TypeInv'
  BY <1>9 DEF FailTurn, Reply
<1>10. ASSUME NEW h \in Handlers, Close(h) \/ Vanish(h)
       PROVE  TypeInv'
  BY <1>10 DEF Close, Vanish, Idle
<1>11. ASSUME NEW t \in Turns, LeaseExpires(t)
       PROVE  TypeInv'
  BY <1>11 DEF LeaseExpires
<1>12. ASSUME RouteStep
       PROVE  TypeInv'
  <2>1. ASSUME NEW c \in Convs, CreateConversation(c) PROVE TypeInv'
    BY <2>1 DEF CreateConversation
  <2>2. ASSUME NEW c \in Convs, ClearConversation(c) PROVE TypeInv'
    BY <2>2 DEF ClearConversation, DeleteRows
  <2>3. ASSUME NEW c \in Convs, DeleteConversation(c) PROVE TypeInv'
    BY <2>3 DEF DeleteConversation, DeleteRows
  <2>4. CASE DeleteEverything
    BY <2>4 DEF DeleteEverything, DeleteRows
  <2>5. CASE BeginErasure
    <3>1. status' \in [Turns -> TurnStates]
      BY <2>5 DEF BeginErasure
    <3> QED
      BY <3>1, <2>5 DEF BeginErasure
  <2>6. CASE EndErasure
    BY <2>6 DEF EndErasure
  <2> QED
    BY <1>12, <2>1, <2>2, <2>3, <2>4, <2>5, <2>6 DEF RouteStep
<1>13. CASE UNCHANGED vars
  BY <1>13 DEF vars
<1> QED
  BY <1>1, <1>2, <1>3, <1>4, <1>5, <1>6, <1>7, <1>8, <1>9, <1>10, <1>11, <1>12, <1>13
     DEF Next, HandlerStep

\* Every variable keeps its type, whatever request, expiry or deletion comes next: the
\* request or the turn the next step of a handler needs is always there.
THEOREM TypeCorrect == Spec => []TypeOK
<1>1. TypeInv => TypeOK
  BY DEF TypeInv
<1> QED
  BY <1>1, TypeInit, TypeStep, PTL DEF Spec

-----------------------------------------------------------------------------
(* Rows.                                                                    *)

\* Only six kinds of steps write to the store.
LEMMA StoreSteps ==
  [Next]_vars =>
    \/ UNCHANGED store
    \/ \E h \in Handlers, c \in Convs, t \in Turns : StartClaims(h, c, t)
    \/ \E h \in Handlers : FinalizeCommits(h) \/ FinalizeUnread(h)
    \/ \E h \in Handlers : FailTurn(h)
    \/ \E t \in Turns : LeaseExpires(t)
    \/ RouteStep
  BY DEF Next, HandlerStep, vars, Receive, Resolve, StartRefuses, ReplayRead, RunGraph,
         FinalizeTooLate, FinalizeRaises, FailTurnRaises, Close, Vanish

\* There are no rows at first.
LEMMA RowsInit == Init => RowsInv
  BY DEF Init, RowsInv, HasRow

\* Claims insert a turn with its request, deletions remove both.
LEMMA RowsStep == TypeInv /\ RowsInv /\ [Next]_vars => RowsInv'
<1> SUFFICES ASSUME TypeInv, RowsInv, [Next]_vars PROVE RowsInv'
  OBVIOUS
<1> USE NoneIsFresh DEF TypeInv, TypeOK, TurnStates, RowsInv, HasRow, store, rows
<1>1. ASSUME NEW h \in Handlers, NEW c \in Convs, NEW t \in Turns, StartClaims(h, c, t)
      PROVE  RowsInv'
  <2>1. handler[h].req \in Requests /\ request[handler[h].req] = None
    BY <1>1 DEF StartClaims, Known, FieldsSet, HandlerStates
  <2> QED
    BY <1>1, <2>1 DEF StartClaims, Claim, StatusAfterClaim
<1>2. ASSUME NEW h \in Handlers, FinalizeCommits(h) \/ FinalizeUnread(h)
      PROVE  RowsInv'
  <2>1. handler[h].turn \in Turns
    BY <1>2 DEF FinalizeCommits, FinalizeUnread, GiveUp, FieldsSet, Owns, HandlerStates
  <2> QED
    BY <1>2, <2>1 DEF FinalizeCommits, FinalizeUnread, GiveUp, Settle, SnapshotsAfter, StillRunning, Outcome
<1>3. ASSUME NEW h \in Handlers, FailTurn(h)
      PROVE  RowsInv'
  <2>1. handler[h].turn \in Turns
    BY <1>3 DEF FailTurn, FieldsSet, Owns, HandlerStates
  <2> QED
    BY <1>3, <2>1 DEF FailTurn
<1>4. ASSUME RouteStep
      PROVE  RowsInv'
  <2>1. ASSUME NEW c \in Convs, CreateConversation(c) PROVE RowsInv'
    BY <2>1 DEF CreateConversation
  <2>2. ASSUME NEW c \in Convs, ClearConversation(c) PROVE RowsInv'
    BY <2>2 DEF ClearConversation, DeleteRows
  <2>3. ASSUME NEW c \in Convs, DeleteConversation(c) PROVE RowsInv'
    BY <2>3 DEF DeleteConversation, DeleteRows
  <2>4. CASE DeleteEverything
    BY <2>4 DEF DeleteEverything, DeleteRows
  <2>5. CASE BeginErasure \/ EndErasure
    BY <2>5 DEF BeginErasure, EndErasure
  <2> QED
    BY <1>4, <2>1, <2>2, <2>3, <2>4, <2>5 DEF RouteStep
<1>5. CASE UNCHANGED store \/ \E t \in Turns : LeaseExpires(t)
  BY <1>5 DEF LeaseExpires
<1> QED
  BY <1>1, <1>2, <1>3, <1>4, <1>5, StoreSteps

-----------------------------------------------------------------------------
(* Leases.                                                                  *)

\* No turn runs at first.
LEMMA LeaseInit == Init => LeaseInv
  BY DEF Init, LeaseInv

\* A turn and its lease begin and end in the same transaction.
LEMMA LeaseStep == TypeInv /\ RowsInv /\ LeaseInv /\ [Next]_vars => LeaseInv'
<1> SUFFICES ASSUME TypeInv, RowsInv, LeaseInv, [Next]_vars PROVE LeaseInv'
  OBVIOUS
<1> USE NoneIsFresh DEF TypeInv, TypeOK, TurnStates, RowsInv, LeaseInv, HasRow, store, rows
<1>1. ASSUME NEW h \in Handlers, NEW c \in Convs, NEW t \in Turns, StartClaims(h, c, t)
      PROVE  LeaseInv'
  BY <1>1 DEF StartClaims, Claim, StatusAfterClaim
<1>2. ASSUME NEW h \in Handlers, FinalizeCommits(h) \/ FinalizeUnread(h)
      PROVE  LeaseInv'
  <2>1. handler[h].turn \in Turns
    BY <1>2 DEF FinalizeCommits, FinalizeUnread, GiveUp, FieldsSet, Owns, HandlerStates
  <2> QED
    BY <1>2, <2>1 DEF FinalizeCommits, FinalizeUnread, GiveUp, Settle, StillRunning, Outcome
<1>3. ASSUME NEW h \in Handlers, FailTurn(h)
      PROVE  LeaseInv'
  <2>1. handler[h].turn \in Turns
    BY <1>3 DEF FailTurn, FieldsSet, Owns, HandlerStates
  <2> QED
    BY <1>3, <2>1 DEF FailTurn
<1>4. ASSUME RouteStep
      PROVE  LeaseInv'
  <2>1. ASSUME NEW c \in Convs, CreateConversation(c) PROVE LeaseInv'
    BY <2>1 DEF CreateConversation
  <2>2. ASSUME NEW c \in Convs, ClearConversation(c) PROVE LeaseInv'
    BY <2>2 DEF ClearConversation, DeleteRows
  <2>3. ASSUME NEW c \in Convs, DeleteConversation(c) PROVE LeaseInv'
    BY <2>3 DEF DeleteConversation, DeleteRows
  <2>4. CASE DeleteEverything
    BY <2>4 DEF DeleteEverything, DeleteRows
  <2>5. CASE BeginErasure \/ EndErasure
    BY <2>5 DEF BeginErasure, EndErasure
  <2> QED
    BY <1>4, <2>1, <2>2, <2>3, <2>4, <2>5 DEF RouteStep
<1>5. CASE UNCHANGED store \/ \E t \in Turns : LeaseExpires(t)
  BY <1>5 DEF LeaseExpires
<1> QED
  BY <1>1, <1>2, <1>3, <1>4, <1>5, StoreSteps

-----------------------------------------------------------------------------
(* Owners.                                                                  *)

\* No handler owns a turn at first.
LEMMA OwnerInit == Init => OwnerInv
  BY DEF Init, OwnerInv, Owns, Idle, At

\* A claimed turn is new, so no other handler owns it; only expiry and deletion take it away.
LEMMA OwnerStep ==
  TypeInv /\ RowsInv /\ LeaseInv /\ OwnerInv /\ [Next]_vars => OwnerInv'
<1> SUFFICES ASSUME TypeInv, RowsInv, LeaseInv, OwnerInv, [Next]_vars PROVE OwnerInv'
  OBVIOUS
<1> USE NoneIsFresh DEF TypeInv, TypeOK, FieldsSet, HandlerStates, TurnStates, LeaseInv,
                        OwnerInv, Owns, HasRow, store, rows, Goto, At
<1>1. ASSUME NEW h \in Handlers, NEW c \in Convs, NEW t \in Turns, StartClaims(h, c, t)
      PROVE  OwnerInv'
  <2>1. \A g \in Handlers : Owns(g) => handler[g].turn # t
    BY <1>1 DEF StartClaims
  <2>2. lease[c] # None => lease[c] \in lapsed
    BY <1>1 DEF StartClaims, LiveLease, RowsInv
  <2> QED
    BY <1>1, <2>1, <2>2 DEF StartClaims, Claim, StatusAfterClaim
<1>2. ASSUME NEW h \in Handlers, FinalizeCommits(h) \/ FinalizeUnread(h)
      PROVE  OwnerInv'
  BY <1>2 DEF FinalizeCommits, FinalizeUnread, GiveUp, Settle, StillRunning, Outcome, Reply
<1>3. ASSUME NEW h \in Handlers, FailTurn(h)
      PROVE  OwnerInv'
  BY <1>3 DEF FailTurn, Reply
<1>4. ASSUME RouteStep
      PROVE  OwnerInv'
  <2>1. ASSUME NEW c \in Convs, CreateConversation(c) PROVE OwnerInv'
    BY <2>1 DEF CreateConversation
  <2>2. ASSUME NEW c \in Convs, ClearConversation(c) PROVE OwnerInv'
    BY <2>2 DEF ClearConversation, DeleteRows
  <2>3. ASSUME NEW c \in Convs, DeleteConversation(c) PROVE OwnerInv'
    BY <2>3 DEF DeleteConversation, DeleteRows
  <2>4. CASE DeleteEverything
    BY <2>4 DEF DeleteEverything, DeleteRows
  <2>5. CASE BeginErasure
    BY <2>5 DEF BeginErasure, LiveLease
  <2>6. CASE EndErasure
    BY <2>6 DEF EndErasure
  <2> QED
    BY <1>4, <2>1, <2>2, <2>3, <2>4, <2>5, <2>6 DEF RouteStep
<1>5. ASSUME NEW t \in Turns, LeaseExpires(t)
      PROVE  OwnerInv'
  BY <1>5 DEF LeaseExpires
<1>6. ASSUME NEW h \in Handlers, NEW r \in Requests, NEW c \in Convs \cup {None},
             Receive(h, r, c)
      PROVE  OwnerInv'
  BY <1>6 DEF Receive
<1>7. ASSUME NEW h \in Handlers,
             \/ Resolve(h) \/ StartRefuses(h) \/ ReplayRead(h) \/ FinalizeTooLate(h)
             \/ FailTurnRaises(h) \/ Close(h) \/ Vanish(h)
      PROVE  OwnerInv'
  <2>1. ~Owns(h)' /\ UNCHANGED store
    BY <1>7 DEF Resolve, Replay, StartRefuses, ReplayRead, FinalizeTooLate, FailTurnRaises,
                Close, Vanish, Reply, Idle
  <2>2. \A g \in Handlers : g # h => handler'[g] = handler[g]
    BY <1>7 DEF Resolve, Replay, StartRefuses, ReplayRead, FinalizeTooLate, FailTurnRaises,
                Close, Vanish, Reply, Idle
  <2> QED
    BY <2>1, <2>2
<1>8. ASSUME NEW h \in Handlers, RunGraph(h) \/ FinalizeRaises(h)
      PROVE  OwnerInv'
  <2>1. CASE RunGraph(h)
    BY <2>1 DEF RunGraph
  <2>2. CASE FinalizeRaises(h)
    BY <2>2 DEF FinalizeRaises, GiveUp
  <2> QED
    BY <1>8, <2>1, <2>2
<1>9. CASE UNCHANGED vars
  BY <1>9 DEF vars
<1> QED
  BY <1>1, <1>2, <1>3, <1>4, <1>5, <1>6, <1>7, <1>8, <1>9 DEF Next, HandlerStep

-----------------------------------------------------------------------------
(* Durability, the barrier and what clients are told.                       *)

\* finalize_request_turn alone completes a turn, and writes its snapshot with it.
LEMMA DurableStep ==
  TypeInv /\ RowsInv /\ OwnerInv /\ CompletedIsDurable /\ [Next]_vars => CompletedIsDurable'
<1> SUFFICES ASSUME TypeInv, RowsInv, OwnerInv, CompletedIsDurable, [Next]_vars
             PROVE  CompletedIsDurable'
  OBVIOUS
<1> USE NoneIsFresh DEF TypeInv, TypeOK, FieldsSet, HandlerStates, TurnStates, RowsInv,
                        Owns, HasRow, CompletedIsDurable, store, rows
<1>1. ASSUME NEW h \in Handlers, NEW c \in Convs, NEW t \in Turns, StartClaims(h, c, t)
      PROVE  CompletedIsDurable'
  BY <1>1 DEF StartClaims, Claim, StatusAfterClaim
<1>2. ASSUME NEW h \in Handlers, FinalizeCommits(h) \/ FinalizeUnread(h)
      PROVE  CompletedIsDurable'
  BY <1>2 DEF FinalizeCommits, FinalizeUnread, GiveUp, Settle, SnapshotsAfter, StillRunning, Outcome
<1>3. ASSUME NEW h \in Handlers, FailTurn(h)
      PROVE  CompletedIsDurable'
  BY <1>3 DEF FailTurn, OwnerInv
<1>4. ASSUME RouteStep
      PROVE  CompletedIsDurable'
  <2>1. ASSUME NEW c \in Convs, CreateConversation(c) PROVE CompletedIsDurable'
    BY <2>1 DEF CreateConversation
  <2>2. ASSUME NEW c \in Convs, ClearConversation(c) PROVE CompletedIsDurable'
    BY <2>2 DEF ClearConversation, DeleteRows
  <2>3. ASSUME NEW c \in Convs, DeleteConversation(c) PROVE CompletedIsDurable'
    BY <2>3 DEF DeleteConversation, DeleteRows
  <2>4. CASE DeleteEverything
    BY <2>4 DEF DeleteEverything, DeleteRows
  <2>5. CASE BeginErasure
    BY <2>5 DEF BeginErasure, LiveLease
  <2>6. CASE EndErasure
    BY <2>6 DEF EndErasure
  <2> QED
    BY <1>4, <2>1, <2>2, <2>3, <2>4, <2>5, <2>6 DEF RouteStep
<1>5. CASE UNCHANGED store \/ \E t \in Turns : LeaseExpires(t)
  BY <1>5 DEF LeaseExpires
<1> QED
  BY <1>1, <1>2, <1>3, <1>4, <1>5, StoreSteps

\* begin_privacy_erasure gives up every lease, hence every running turn; no turn starts after it.
LEMMA BarrierStep ==
  TypeInv /\ RowsInv /\ LeaseInv /\ ErasureBarrier /\ [Next]_vars => ErasureBarrier'
<1> SUFFICES ASSUME TypeInv, RowsInv, LeaseInv, ErasureBarrier, [Next]_vars
             PROVE  ErasureBarrier'
  OBVIOUS
<1> USE NoneIsFresh DEF TypeInv, TypeOK, TurnStates, ErasureBarrier, store, rows
<1>1. ASSUME NEW h \in Handlers, NEW c \in Convs, NEW t \in Turns, StartClaims(h, c, t)
      PROVE  ErasureBarrier'
  BY <1>1 DEF StartClaims, Barred
<1>2. ASSUME NEW h \in Handlers, FinalizeCommits(h) \/ FinalizeUnread(h)
      PROVE  ErasureBarrier'
  BY <1>2 DEF FinalizeCommits, FinalizeUnread, GiveUp, Settle, StillRunning, Outcome
<1>3. ASSUME NEW h \in Handlers, FailTurn(h)
      PROVE  ErasureBarrier'
  BY <1>3 DEF FailTurn
<1>4. ASSUME RouteStep
      PROVE  ErasureBarrier'
  <2>1. ASSUME NEW c \in Convs, CreateConversation(c) PROVE ErasureBarrier'
    BY <2>1 DEF CreateConversation
  <2>2. ASSUME NEW c \in Convs, ClearConversation(c) PROVE ErasureBarrier'
    BY <2>2 DEF ClearConversation, DeleteRows
  <2>3. ASSUME NEW c \in Convs, DeleteConversation(c) PROVE ErasureBarrier'
    BY <2>3 DEF DeleteConversation, DeleteRows
  <2>4. CASE DeleteEverything
    BY <2>4 DEF DeleteEverything, DeleteRows
  <2>5. CASE BeginErasure
    BY <2>5 DEF BeginErasure, LeaseInv, RowsInv, HasRow
  <2>6. CASE EndErasure
    BY <2>6 DEF EndErasure
  <2> QED
    BY <1>4, <2>1, <2>2, <2>3, <2>4, <2>5, <2>6 DEF RouteStep
<1>5. CASE UNCHANGED store \/ \E t \in Turns : LeaseExpires(t)
  BY <1>5 DEF LeaseExpires
<1> QED
  BY <1>1, <1>2, <1>3, <1>4, <1>5, StoreSteps

\* A handler means to answer 200 only for a turn it completed, found completed, or lost.
LEMMA ReplyStep ==
  TypeInv /\ RowsInv /\ OwnerInv /\ CompletedIsDurable /\ ReplyInv /\ [Next]_vars => ReplyInv'
<1> SUFFICES ASSUME TypeInv, RowsInv, OwnerInv, CompletedIsDurable, ReplyInv, [Next]_vars
             PROVE  ReplyInv'
  OBVIOUS
<1> USE NoneIsFresh DEF TypeInv, TypeOK, FieldsSet, HandlerStates, TurnStates, Kept,
                        Owns, HasRow, ReplyInv, store, rows, Goto, At
<1>1. ASSUME NEW h \in Handlers, NEW c \in Convs, NEW t \in Turns, StartClaims(h, c, t)
      PROVE  ReplyInv'
  BY <1>1 DEF StartClaims, Claim, StatusAfterClaim
<1>2. ASSUME NEW h \in Handlers, FinalizeCommits(h) \/ FinalizeUnread(h)
      PROVE  ReplyInv'
  BY <1>2 DEF FinalizeCommits, FinalizeUnread, GiveUp, Settle, SnapshotsAfter, StillRunning,
              Outcome, Reply
<1>3. ASSUME NEW h \in Handlers, FailTurn(h)
      PROVE  ReplyInv'
  BY <1>3 DEF FailTurn, OwnerInv, Reply
<1>4. ASSUME RouteStep
      PROVE  ReplyInv'
  <2>1. ASSUME NEW c \in Convs, CreateConversation(c) PROVE ReplyInv'
    BY <2>1 DEF CreateConversation
  <2>2. ASSUME NEW c \in Convs, ClearConversation(c) PROVE ReplyInv'
    BY <2>2 DEF ClearConversation, DeleteRows
  <2>3. ASSUME NEW c \in Convs, DeleteConversation(c) PROVE ReplyInv'
    BY <2>3 DEF DeleteConversation, DeleteRows
  <2>4. CASE DeleteEverything
    BY <2>4 DEF DeleteEverything, DeleteRows
  <2>5. CASE BeginErasure
    BY <2>5 DEF BeginErasure, LiveLease
  <2>6. CASE EndErasure
    BY <2>6 DEF EndErasure
  <2> QED
    BY <1>4, <2>1, <2>2, <2>3, <2>4, <2>5, <2>6 DEF RouteStep
<1>5. ASSUME NEW t \in Turns, LeaseExpires(t)
      PROVE  ReplyInv'
  BY <1>5 DEF LeaseExpires
<1>6. ASSUME NEW h \in Handlers, Resolve(h) \/ StartRefuses(h)
      PROVE  ReplyInv'
  <2>1. request[handler[h].req] # None => HasRow(request[handler[h].req])
    BY <1>6 DEF Resolve, StartRefuses, RowsInv
  <2> QED
    BY <1>6, <2>1 DEF Resolve, StartRefuses, Replay, Reply, Known, CompletedIsDurable
<1>7. ASSUME NEW h \in Handlers, ReplayRead(h) \/ FinalizeTooLate(h) \/ FailTurnRaises(h)
      PROVE  ReplyInv'
  BY <1>7 DEF ReplayRead, FinalizeTooLate, FailTurnRaises, Reply, OwnerInv, StillRunning
<1>8. ASSUME NEW h \in Handlers,
             \/ \E r \in Requests, c \in Convs \cup {None} : Receive(h, r, c)
             \/ RunGraph(h) \/ FinalizeRaises(h) \/ Close(h) \/ Vanish(h)
      PROVE  ReplyInv'
  BY <1>8 DEF Receive, RunGraph, FinalizeRaises, GiveUp, Close, Vanish, Idle
<1>9. CASE UNCHANGED vars
  BY <1>9 DEF vars
<1> QED
  BY <1>1, <1>2, <1>3, <1>4, <1>5, <1>6, <1>7, <1>8, <1>9 DEF Next, HandlerStep

-----------------------------------------------------------------------------
(* The theorems.                                                            *)

\* The inductive invariant holds in every reachable state.
THEOREM Invariance == Spec => []IInv
<1>1. Init => IInv
  BY TypeInit, RowsInit, LeaseInit, OwnerInit
     DEF IInv, Init, ReplyInv, CompletedIsDurable, ErasureBarrier, Idle, At
<1>2. IInv /\ [Next]_vars => IInv'
  BY TypeStep, RowsStep, LeaseStep, OwnerStep, ReplyStep, DurableStep, BarrierStep DEF IInv
<1> QED
  BY <1>1, <1>2, PTL DEF Spec

\* A conversation has at most one running turn, the one its lease names.
THEOREM SingleFlightHolds == Spec => []SingleFlight
<1>1. IInv => SingleFlight
  BY NoneIsFresh DEF IInv, TypeInv, TypeOK, TurnStates, RowsInv, LeaseInv, HasRow, SingleFlight
<1> QED
  BY <1>1, Invariance, PTL

\* A request id is executed by one turn, however many workers receive it.
THEOREM OneTurnPerRequestHolds == Spec => []OneTurnPerRequest
<1>1. IInv => OneTurnPerRequest
  BY DEF IInv, RowsInv, OneTurnPerRequest
<1> QED
  BY <1>1, Invariance, PTL

\* No row outlives what it points to.
THEOREM NoOrphanRowsHolds == Spec => []NoOrphanRows
<1>1. IInv => NoOrphanRows
  BY NoneIsFresh DEF IInv, TypeInv, TypeOK, RowsInv, LeaseInv, HasRow, NoOrphanRows
<1> QED
  BY <1>1, Invariance, PTL

\* Answer, verdict and snapshot stand or fall together.
THEOREM CompletedIsDurableHolds == Spec => []CompletedIsDurable
<1>1. IInv => CompletedIsDurable
  BY DEF IInv
<1> QED
  BY <1>1, Invariance, PTL

\* A handler loses its turn only to its own delay or to a deletion.
THEOREM NoLiveTurnIsStolenHolds == Spec => []NoLiveTurnIsStolen
<1>1. IInv => NoLiveTurnIsStolen
  BY DEF IInv, OwnerInv, Owns, NoLiveTurnIsStolen, Executing
<1> QED
  BY <1>1, Invariance, PTL

\* Nothing can commit while the user's data is being erased.
THEOREM ErasureBarrierHolds == Spec => []ErasureBarrier
<1>1. IInv => ErasureBarrier
  BY DEF IInv
<1> QED
  BY <1>1, Invariance, PTL

\* Within the lease, a 200 is about a turn that is on disk.
THEOREM OkIsDurableWithinLeaseHolds == Spec => []OkIsDurableWithinLease
<1>1. IInv => OkIsDurableWithinLease
  BY DEF IInv, ReplyInv, Kept, OkIsDurableWithinLease
<1> QED
  BY <1>1, Invariance, PTL

\* A verdict is revised by nothing but a deletion of the rows, and by the handler that
\* wrote it, could not read it back, and fails the turn it completed.
THEOREM SettledForGoodHolds == Spec => SettledForGood
<1> DEFINE Kind(t) == \/ status'[t] \in {status[t], "deleted"}
                      \/ status[t] = "completed" /\ status'[t] = "failed" /\ Unread(t)
<1>1. IInv /\ [Next]_vars
        => [\A t \in Turns : status[t] \in {"completed", "failed"} => Kind(t)]_vars
  <2> SUFFICES ASSUME IInv, [Next]_vars, NEW t \in Turns,
                      status[t] \in {"completed", "failed"}
               PROVE  Kind(t)
    OBVIOUS
  <2> USE NoneIsFresh DEF IInv, TypeInv, TypeOK, TurnStates, store, rows
  <2>1. ASSUME NEW h \in Handlers, NEW c \in Convs, NEW u \in Turns, StartClaims(h, c, u)
        PROVE  status'[t] = status[t]
    BY <2>1 DEF StartClaims, Claim, StatusAfterClaim
  <2>2. ASSUME NEW h \in Handlers, FinalizeCommits(h) \/ FinalizeUnread(h)
        PROVE  status'[t] = status[t]
    BY <2>2 DEF FinalizeCommits, FinalizeUnread, Settle, StillRunning
  <2>3. ASSUME NEW h \in Handlers, FailTurn(h)
        PROVE  Kind(t)
    BY <2>3 DEF FailTurn, Unread
  <2>4. CASE RouteStep
    BY <2>4 DEF RouteStep, CreateConversation, ClearConversation, DeleteConversation,
                DeleteEverything, DeleteRows, BeginErasure, EndErasure
  <2>5. CASE UNCHANGED store \/ \E u \in Turns : LeaseExpires(u)
    BY <2>5 DEF LeaseExpires
  <2> QED
    BY <2>1, <2>2, <2>3, <2>4, <2>5, StoreSteps
<1> QED
  BY <1>1, Invariance, PTL DEF Spec, SettledForGood

-----------------------------------------------------------------------------
(* The refinement of RequestLedger.                                         *)

\* A lease runs out only of a turn that was granted one.
LapsedInv == \A t \in lapsed : status[t] # "unused"

\* No turn comes back to life, and only a turn with a lease lapses.
LEMMA LapsedStep == TypeInv /\ LeaseInv /\ LapsedInv /\ [Next]_vars => LapsedInv'
<1> SUFFICES ASSUME TypeInv, LeaseInv, LapsedInv, [Next]_vars PROVE LapsedInv'
  OBVIOUS
<1> USE NoneIsFresh DEF TypeInv, TypeOK, TurnStates, LapsedInv, store, rows
<1>1. ASSUME NEW h \in Handlers, NEW c \in Convs, NEW t \in Turns, StartClaims(h, c, t)
      PROVE  LapsedInv'
  BY <1>1 DEF StartClaims, Claim, StatusAfterClaim
<1>2. ASSUME NEW h \in Handlers,
             FinalizeCommits(h) \/ FinalizeUnread(h) \/ FailTurn(h)
      PROVE  LapsedInv'
  BY <1>2 DEF FinalizeCommits, FinalizeUnread, GiveUp, Settle, Outcome, FailTurn
<1>3. ASSUME NEW t \in Turns, LeaseExpires(t)
      PROVE  LapsedInv'
  BY <1>3 DEF LeaseExpires, LeaseInv
<1>4. ASSUME RouteStep
      PROVE  LapsedInv'
  BY <1>4 DEF RouteStep, CreateConversation, ClearConversation, DeleteConversation,
              DeleteEverything, DeleteRows, BeginErasure, EndErasure
<1>5. CASE UNCHANGED store
  BY <1>5
<1> QED
  BY <1>1, <1>2, <1>3, <1>4, <1>5, StoreSteps

Fate   == [r \in Requests |-> FateOf(r)]
Flight == [c \in Convs |-> FlightOf(c)]

\* The invariants the mapping rests on: a request and its turn name each other, and so
\* do a turn at work and its conversation's lease.
MapInv == TypeInv /\ RowsInv /\ LeaseInv /\ OwnerInv /\ LapsedInv

\* The fate of a request is the status of the turn it stands for.
LEMMA FateOfTurn ==
  ASSUME MapInv, NEW r \in Requests
  PROVE  /\ request[r] = None => Fate[r] = "new"
         /\ request[r] # None =>
              /\ request[r] \in Turns /\ HasRow(request[r]) /\ asked[request[r]] = r
              /\ Fate[r] = IF status[request[r]] = "running" /\ request[r] \in lapsed
                           THEN "overdue" ELSE status[request[r]]
  BY NoneIsFresh DEF MapInv, TypeInv, TypeOK, RowsInv, Fate, FateOf

\* The flight of a conversation is the request of the turn its lease names, which runs.
LEMMA FlightOfLease ==
  ASSUME MapInv, NEW c \in Convs
  PROVE  /\ lease[c] = None => Flight[c] = None
         /\ lease[c] # None =>
              /\ lease[c] \in Turns /\ status[lease[c]] = "running"
              /\ home[lease[c]] = c
              /\ Flight[c] = asked[lease[c]]
              /\ Flight[c] \in Requests /\ request[Flight[c]] = lease[c]
  BY NoneIsFresh DEF MapInv, TypeInv, TypeOK, RowsInv, LeaseInv, HasRow, Flight, FlightOf

\* A claim admits the request, and displaces only one that is overdue.
LEMMA ClaimAdmits ==
  ASSUME MapInv, NEW h \in Handlers, NEW c \in Convs, NEW t \in Turns, StartClaims(h, c, t)
  PROVE  \E r \in Requests : Ledger!Admit(r, c)
<1> DEFINE r == handler[h].req
<1> USE NoneIsFresh
<1>1. r \in Requests /\ request[r] = None /\ ~erasing
  BY DEF MapInv, TypeInv, TypeOK, FieldsSet, HandlerStates, StartClaims, Known, Barred
<1>2. Fate[r] = "new"
  BY <1>1, FateOfTurn
<1>3. lease[c] # None => lease[c] \in lapsed
  BY FlightOfLease DEF StartClaims, LiveLease, MapInv, RowsInv, HasRow
<1>4. Flight[c] # None => Fate[Flight[c]] = "overdue"
  BY <1>3, FlightOfLease, FateOfTurn
<1> HIDE DEF r
<1>5. ASSUME NEW q \in Requests
      PROVE  FateOf(q)' = IF q = r THEN "running"
                          ELSE IF q = Flight[c] THEN "failed" ELSE Fate[q]
  <2> USE DEF MapInv, TypeInv, TypeOK, StartClaims, Claim
  <2>1. t \notin lapsed
    BY DEF LapsedInv
  <2>2. CASE q = r
    BY <1>1, <2>1, <2>2 DEF r, FateOf, StatusAfterClaim
  <2>3. CASE q # r /\ request[q] = None
    BY <2>3, FateOfTurn, FlightOfLease DEF r, FateOf
  <2>4. CASE q # r /\ request[q] # None
    <3>1. request[q] # t /\ request'[q] = request[q] /\ lapsed' = lapsed
      BY <2>4, FateOfTurn DEF r, HasRow
    <3>2. request[q] = lease[c] <=> q = Flight[c]
      BY <2>4, FateOfTurn, FlightOfLease
    <3>3. status'[request[q]] = IF q = Flight[c] THEN "failed" ELSE status[request[q]]
      BY <2>4, <3>1, <3>2, FateOfTurn, FlightOfLease DEF StatusAfterClaim
    <3> QED
      BY <2>4, <3>1, <3>3, FateOfTurn DEF FateOf
  <2> QED
    BY <2>2, <2>3, <2>4
<1>6. ASSUME NEW d \in Convs
      PROVE  FlightOf(d)' = IF d = c THEN r ELSE Flight[d]
  <2> USE DEF MapInv, TypeInv, TypeOK, StartClaims, Claim
  <2>1. CASE d = c
    BY <2>1 DEF FlightOf, r
  <2>2. CASE d # c
    BY <2>2, FlightOfLease DEF FlightOf
  <2> QED
    BY <2>1, <2>2
<1>7. Ledger!Admit(r, c)
  BY <1>1, <1>2, <1>4, <1>5, <1>6 DEF Ledger!Admit, Fate, Flight, StartClaims
<1> QED
  BY <1>1, <1>7

\* What the end of turn t with a verdict does to its request, and to its conversation.
LEMMA VerdictDecides ==
  ASSUME MapInv, NEW t \in Turns, status[t] = "running",
         NEW verdict \in {"completed", "failed"},
         status' = [status EXCEPT ![t] = verdict],
         lease' = [c \in Convs |-> IF lease[c] = t THEN None ELSE lease[c]],
         UNCHANGED <<asked, request, lapsed, erasing>>
  PROVE  \E r \in Requests : Ledger!Decide(r, verdict)
<1> DEFINE r == asked[t]
<1> USE NoneIsFresh
<1>1. r \in Requests /\ request[r] = t
  BY DEF MapInv, TypeInv, TypeOK, RowsInv, HasRow
<1> HIDE DEF r
<1>2. Fate[r] \in {"running", "overdue"}
  BY <1>1, FateOfTurn
<1>3. ASSUME NEW q \in Requests
      PROVE  FateOf(q)' = IF q = r THEN verdict ELSE Fate[q]
  <2>1. request[q] = t <=> q = r
    BY <1>1, FateOfTurn
  <2> QED
    BY <1>1, <2>1, FateOfTurn DEF FateOf, MapInv, TypeInv, TypeOK
<1>4. ASSUME NEW d \in Convs
      PROVE  FlightOf(d)' = IF Flight[d] = r THEN None ELSE Flight[d]
  <2>1. lease[d] = t <=> Flight[d] = r
    BY <1>1, FlightOfLease DEF r
  <2> QED
    BY <2>1, FlightOfLease DEF FlightOf
<1>5. Ledger!Decide(r, verdict)
  BY <1>2, <1>3, <1>4 DEF Ledger!Decide, Ledger!Pending, Fate, Flight
<1> QED
  BY <1>1, <1>5

\* A completed turn that is failed after all takes its request along; no lease names it.
LEMMA FailureWithdraws ==
  ASSUME MapInv, NEW t \in Turns, status[t] = "completed",
         status' = [status EXCEPT ![t] = "failed"],
         lease' = [c \in Convs |-> IF lease[c] = t THEN None ELSE lease[c]],
         UNCHANGED <<asked, request, lapsed, erasing>>
  PROVE  \E r \in Requests : Ledger!Withdraw(r)
<1> DEFINE r == asked[t]
<1> USE NoneIsFresh
<1>1. r \in Requests /\ request[r] = t
  BY DEF MapInv, TypeInv, TypeOK, RowsInv, HasRow
<1> HIDE DEF r
<1>2. Fate[r] = "completed"
  BY <1>1, FateOfTurn
<1>3. ASSUME NEW q \in Requests
      PROVE  FateOf(q)' = IF q = r THEN "failed" ELSE Fate[q]
  <2>1. request[q] = t <=> q = r
    BY <1>1, FateOfTurn
  <2> QED
    BY <1>1, <2>1, FateOfTurn DEF FateOf, MapInv, TypeInv, TypeOK
<1>4. ASSUME NEW c \in Convs
      PROVE  FlightOf(c)' = Flight[c]
  BY FlightOfLease DEF FlightOf, Flight
<1> QED
  BY <1>1, <1>2, <1>3, <1>4 DEF Ledger!Withdraw, Fate, Flight

\* A deletion of the rows of some conversations makes their requests new again.
LEMMA DeletionForgets ==
  ASSUME MapInv, NEW cs \in SUBSET Convs, DeleteRows(cs)
  PROVE  \E rs \in SUBSET Requests : Ledger!Forget(rs)
<1> DEFINE gone == {t \in Turns : HasRow(t) /\ home[t] \in cs}
           rs   == {r \in Requests : request[r] \in gone}
<1> USE NoneIsFresh
<1>1. ASSUME NEW q \in Requests
      PROVE  FateOf(q)' = IF q \in rs THEN "new" ELSE Fate[q]
  BY FateOfTurn DEF DeleteRows, FateOf
<1>2. ASSUME NEW d \in Convs
      PROVE  FlightOf(d)' = IF Flight[d] \in rs THEN None ELSE Flight[d]
  <2>1. lease[d] # None => (Flight[d] \in rs <=> d \in cs)
    BY FlightOfLease DEF HasRow
  <2>2. None \notin rs
    OBVIOUS
  <2>3. lease[d] # None /\ d \notin cs => lease[d] \notin gone
    BY FlightOfLease
  <2> QED
    BY <2>1, <2>2, <2>3, FlightOfLease DEF DeleteRows, FlightOf, MapInv, TypeInv, TypeOK
<1>3. Ledger!Forget(rs)
  <2> HIDE DEF rs
  <2> QED
    BY <1>1, <1>2 DEF Ledger!Forget, Fate, Flight, DeleteRows
<1> QED
  BY <1>3

\* An erasure shuts the ledger when no turn is within its time, and fails the others.
LEMMA ErasureShuts == ASSUME MapInv, BeginErasure PROVE Ledger!Shut
<1> USE NoneIsFresh
<1>1. ASSUME NEW r \in Requests
      PROVE  /\ Fate[r] # "running"
             /\ FateOf(r)' = IF Fate[r] = "overdue" THEN "failed" ELSE Fate[r]
  <2>1. CASE request[r] = None
    BY <2>1, FateOfTurn DEF BeginErasure, FateOf
  <2>2. CASE request[r] # None
    <3> DEFINE t == request[r]
    <3>1. t \in Turns /\ HasRow(t)
      BY <2>2, FateOfTurn
    <3>2. status[t] = "running" => (\E c \in Convs : lease[c] = t) /\ t \in lapsed
      BY <3>1 DEF BeginErasure, LiveLease, MapInv, TypeInv, TypeOK, RowsInv, LeaseInv
    <3>3. status'[t] = IF status[t] = "running" THEN "failed" ELSE status[t]
      BY <3>1, <3>2 DEF BeginErasure
    <3> QED
      BY <2>2, <3>1, <3>2, <3>3, FateOfTurn DEF BeginErasure, FateOf, HasRow
  <2> QED
    BY <2>1, <2>2
<1>2. ASSUME NEW c \in Convs
      PROVE  FlightOf(c)' = None
  BY DEF BeginErasure, FlightOf
<1> QED
  BY <1>1, <1>2 DEF Ledger!Shut, Fate, Flight, BeginErasure

\* The clock makes the request of the turn overdue.
LEMMA LapseExpires ==
  ASSUME MapInv, NEW t \in Turns, LeaseExpires(t)
  PROVE  \E r \in Requests : Ledger!Expire(r)
<1> DEFINE r == asked[t]
<1> USE NoneIsFresh
<1>1. r \in Requests /\ request[r] = t /\ status[t] = "running"
  BY DEF LeaseExpires, MapInv, TypeInv, TypeOK, RowsInv, LeaseInv, HasRow
<1> HIDE DEF r
<1>2. Fate[r] = "running"
  BY <1>1, FateOfTurn DEF LeaseExpires
<1>3. ASSUME NEW q \in Requests
      PROVE  FateOf(q)' = IF q = r THEN "overdue" ELSE Fate[q]
  <2>1. request[q] = t <=> q = r
    BY <1>1, FateOfTurn
  <2> QED
    BY <1>1, <2>1, FateOfTurn DEF FateOf, LeaseExpires, rows
<1>4. ASSUME NEW c \in Convs
      PROVE  FlightOf(c)' = Flight[c]
  BY DEF LeaseExpires, rows, FlightOf, Flight
<1> QED
  BY <1>1, <1>2, <1>3, <1>4 DEF Ledger!Expire, Fate, Flight, LeaseExpires, rows

\* A step that leaves turns, requests, leases and the barrier alone is none of the ledger.
LEMMA StoreStutters ==
  ASSUME UNCHANGED <<status, asked, request, lease, lapsed, erasing>>
  PROVE  UNCHANGED Ledger!ledger
  BY DEF Ledger!ledger, FateOf, FlightOf

\* Every step of the store is one of the ledger, or none.
LEMMA StepRefines == MapInv /\ [Next]_vars => [Ledger!LedgerNext]_(Ledger!ledger)
<1> SUFFICES ASSUME MapInv, [Next]_vars
             PROVE  Ledger!LedgerNext \/ UNCHANGED Ledger!ledger
  OBVIOUS
<1>1. ASSUME NEW h \in Handlers, NEW c \in Convs, NEW t \in Turns, StartClaims(h, c, t)
      PROVE  Ledger!LedgerNext
  BY <1>1, ClaimAdmits DEF Ledger!LedgerNext
<1>2. ASSUME NEW h \in Handlers, FinalizeCommits(h) \/ FinalizeUnread(h)
      PROVE  Ledger!LedgerNext
  <2>1. handler[h].turn \in Turns
    BY <1>2, NoneIsFresh
       DEF FinalizeCommits, FinalizeUnread, GiveUp, MapInv, TypeInv, TypeOK, FieldsSet, Owns, HandlerStates
  <2> QED
    BY <1>2, <2>1, VerdictDecides
       DEF FinalizeCommits, FinalizeUnread, GiveUp, Settle, StillRunning, Outcome, Ledger!LedgerNext
<1>3. ASSUME NEW h \in Handlers, FailTurn(h)
      PROVE  Ledger!LedgerNext \/ UNCHANGED Ledger!ledger
  <2> DEFINE t == handler[h].turn
  <2>1. t \in Turns
    BY <1>3, NoneIsFresh
       DEF FailTurn, MapInv, TypeInv, TypeOK, FieldsSet, Owns, HandlerStates
  <2>2. CASE status[t] = "running"
    BY <1>3, <2>1, <2>2, VerdictDecides DEF FailTurn, HasRow, Ledger!LedgerNext
  <2>3. CASE status[t] = "completed"
    BY <1>3, <2>1, <2>3, FailureWithdraws DEF FailTurn, HasRow, Ledger!LedgerNext
  <2>4. CASE status[t] \notin {"running", "completed"}
    <3>1. status' = status
      BY <1>3, <2>1, <2>4 DEF FailTurn, HasRow, MapInv, TypeInv, TypeOK, TurnStates
    <3>2. lease' = lease
      BY <1>3, <2>1, <2>4, NoneIsFresh DEF FailTurn, MapInv, LeaseInv, TypeInv, TypeOK
    <3> QED
      BY <1>3, <3>1, <3>2, StoreStutters DEF FailTurn
  <2> QED
    BY <2>2, <2>3, <2>4
<1>4. ASSUME NEW t \in Turns, LeaseExpires(t)
      PROVE  Ledger!LedgerNext
  BY <1>4, LapseExpires DEF Ledger!LedgerNext
<1>5. ASSUME RouteStep
      PROVE  Ledger!LedgerNext \/ UNCHANGED Ledger!ledger
  <2>1. ASSUME NEW c \in Convs, CreateConversation(c)
        PROVE  UNCHANGED Ledger!ledger
    BY <2>1, StoreStutters DEF CreateConversation
  <2>2. ASSUME NEW cs \in SUBSET Convs, DeleteRows(cs)
        PROVE  Ledger!LedgerNext
    BY <2>2, DeletionForgets DEF Ledger!LedgerNext
  <2>3. CASE BeginErasure
    BY <2>3, ErasureShuts DEF Ledger!LedgerNext
  <2>4. CASE EndErasure
    BY <2>4 DEF EndErasure, Ledger!LedgerNext, Ledger!Reopen, FateOf, FlightOf
  <2> QED
    BY <1>5, <2>1, <2>2, <2>3, <2>4
       DEF RouteStep, ClearConversation, DeleteConversation, DeleteEverything
<1>6. CASE UNCHANGED store
  BY <1>6, StoreStutters DEF store, rows
<1> QED
  BY <1>1, <1>2, <1>3, <1>4, <1>5, <1>6, StoreSteps

\* A client that knows only its request ids, its conversations and whether it is being
\* erased cannot tell the store from the ledger: every behaviour of the store is one of it.
THEOREM ImplementsLedgerHolds == Spec => ImplementsLedger
<1>1. Init => Ledger!LedgerInit
  BY DEF Init, Ledger!LedgerInit, FateOf, FlightOf
<1>2. Init => LapsedInv
  BY DEF Init, LapsedInv
<1>3. IInv /\ LapsedInv /\ [Next]_vars => LapsedInv'
  BY LapsedStep DEF IInv
<1>4. IInv /\ LapsedInv /\ [Next]_vars => [Ledger!LedgerNext]_(Ledger!ledger)
  BY StepRefines DEF IInv, MapInv
<1> QED
  BY <1>1, <1>2, <1>3, <1>4, Invariance, PTL DEF Spec, ImplementsLedger, Ledger!LedgerSpec
=============================================================================
