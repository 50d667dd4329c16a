------------------------- MODULE ConversationTurns -------------------------
(***************************************************************************)
(* The life of one chat request, from the HTTP boundary (api_alex) through *)
(* the durable ConversationStore that both agent pools share.              *)
(*                                                                         *)
(* Every table of the store is keyed by user_id and no statement below     *)
(* joins two users, so the module models the rows of ONE user.  A handler  *)
(* is one HTTP worker of either pool; a store method runs under BEGIN      *)
(* IMMEDIATE and is therefore one atomic action, while everything a        *)
(* handler does between two store calls interleaves with the others.       *)
(***************************************************************************)
EXTENDS FiniteSets

CONSTANTS
  Convs,        \* conversation ids (uuid4: an id is never handed out twice)
  Turns,        \* turn ids (uuid4)
  Requests,     \* X-Request-Id values
  Handlers,     \* HTTP workers, of either pool
  None          \* SQL NULL / Python None

ASSUME NoneIsFresh == None \notin Convs \cup Turns \cup Requests

VARIABLES
  conv,         \* conversations: has the id been inserted, is the row there
  status,       \* turns.status; "unused" before, "deleted" after the row's life
  home,         \* turns.conversation_id, None when there is no row
  asked,        \* turns.request_id, None when there is no row
  answer,       \* turns whose assistant_message_id is set
  snapshot,     \* turns with a row in turn_snapshots
  request,      \* turn_requests: request_id -> turn_id
  lease,        \* conversation_turn_leases: conversation_id -> turn_id
  lapsed,       \* turns whose lease has reached expires_at
  erasing,      \* the user has a row in privacy_erasure_locks
  handler       \* what every HTTP worker is doing

rows  == <<conv, status, home, asked, answer, snapshot, request, lease, erasing>>
store == <<rows, lapsed>>
vars  == <<store, handler>>

TurnStates == {"unused", "running", "completed", "failed", "deleted"}
HasRow(t)  == status[t] \in {"running", "completed", "failed"}

Steps == {"idle", "resolving", "starting", "running", "finalizing", "failing",
          "replaying", "replied"}
Codes == {0, 200, 409, 423, 500, 502}

HandlerStates ==
  [step : Steps, req : Requests \cup {None}, conv : Convs \cup {None},
   turn : Turns \cup {None}, code : Codes]

\* A field that the steps to come do not read is None.
At(s, r, c, t, k) == [step |-> s, req |-> r, conv |-> c, turn |-> t, code |-> k]
Idle == At("idle", None, None, None, 0)

TypeOK ==
  /\ conv     \in [Convs -> {"unused", "live", "deleted"}]
  /\ status   \in [Turns -> TurnStates]
  /\ home     \in [Turns -> Convs \cup {None}]
  /\ asked    \in [Turns -> Requests \cup {None}]
  /\ answer   \subseteq Turns
  /\ snapshot \subseteq Turns
  /\ request  \in [Requests -> Turns \cup {None}]
  /\ lease    \in [Convs -> Turns \cup {None}]
  /\ lapsed   \subseteq Turns
  /\ erasing  \in BOOLEAN
  /\ handler  \in [Handlers -> HandlerStates]

Init ==
  /\ conv     = [c \in Convs |-> "unused"]
  /\ status   = [t \in Turns |-> "unused"]
  /\ home     = [t \in Turns |-> None]
  /\ asked    = [t \in Turns |-> None]
  /\ answer   = {}
  /\ snapshot = {}
  /\ request  = [r \in Requests |-> None]
  /\ lease    = [c \in Convs |-> None]
  /\ lapsed   = {}
  /\ erasing  = FALSE
  /\ handler  = [h \in Handlers |-> Idle]

-----------------------------------------------------------------------------
(* The handler, up to the moment its turn is claimed.                       *)

Goto(h, place) == handler' = [handler EXCEPT ![h] = place]

Reply(h, code) ==
  Goto(h, At("replied", None, None, IF code = 200 THEN handler[h].turn ELSE None, code))

\* _request_replay_response for a request whose turn t is already on record:
\* a running turn is answered at once, a settled one after a second read.
Replay(h, t) ==
  Goto(h, CASE status[t] = "running" -> At("replied", None, None, None, 409)
            [] status[t] = "failed"  -> At("replaying", None, None, t, 502)
            [] OTHER                 -> At("replaying", None, None, t, 200))

\* A client posts request r, for the conversation c it knows of or for none.
Receive(h, r, c) ==
  /\ handler[h].step = "idle"
  /\ c # None => conv[c] # "unused"
  /\ Goto(h, At("resolving", r, c, None, 0))
  /\ UNCHANGED store

\* get_request_turn, then get_conversation: an unknown conversation id is
\* dropped, and the turn will open a conversation of its own.
Resolve(h) ==
  /\ handler[h].step = "resolving"
  /\ LET r == handler[h].req
         c == handler[h].conv
     IN  IF request[r] # None
           THEN Replay(h, request[r])
           ELSE IF c # None /\ conv[c] = "live"
                  THEN Goto(h, At("starting", r, c, None, 0))
                  ELSE Goto(h, At("starting", r, None, None, 0))
  /\ UNCHANGED store

(* The three checks start_request_turn makes.                               *)

Barred == erasing
Known(r) == request[r] # None

LiveLeaseTurnedRound(c) ==      \* mutated: expires_at <= now
  lease[c] # None /\ status[lease[c]] = "running" /\ lease[c] \in lapsed
LiveLease(c) ==
  lease[c] # None /\ status[lease[c]] = "running" /\ lease[c] \notin lapsed

\* turns.status once turn t is inserted for conversation c: the turn of an expired
\* lease is abandoned.  Mutated: the lease is replaced and the turn left running.
StatusWithNewTurn(c, t) == [status EXCEPT ![t] = "running"]
StatusAfterClaim(c, t) ==
  [x \in Turns |-> IF x = t THEN "running"
                   ELSE IF x = lease[c] /\ status[x] = "running" THEN "failed"
                   ELSE status[x]]

\* The rows start_request_turn writes when it grants turn t of conversation c.
Claim(r, c, t) ==
  /\ status'  = StatusAfterClaim(c, t)
  /\ home'    = [home EXCEPT ![t] = c]
  /\ asked'   = [asked EXCEPT ![t] = r]
  /\ request' = [request EXCEPT ![r] = t]
  /\ lease'   = [lease EXCEPT ![c] = t]

\* The transaction of start_request_turn that claims a turn.
StartClaims(h, c, t) ==
  /\ handler[h].step = "starting"
  /\ ~Barred
  /\ ~Known(handler[h].req)
  /\ status[t] = "unused"
  /\ IF handler[h].conv = None
       THEN conv[c] = "unused"
       ELSE c = handler[h].conv /\ conv[c] = "live" /\ ~LiveLease(c)
  /\ conv' = [conv EXCEPT ![c] = "live"]
  /\ Claim(handler[h].req, c, t)
  /\ Goto(h, At("running", None, None, t, 0))
  /\ UNCHANGED <<answer, snapshot, lapsed, erasing>>

\* The same transaction when it refuses, in the order of its checks.
StartRefuses(h) ==
  LET r == handler[h].req
      c == handler[h].conv
  IN  /\ handler[h].step = "starting"
      /\ \/ Barred /\ Reply(h, 423)
         \/ ~Barred /\ Known(r) /\ Replay(h, request[r])
         \/ /\ ~Barred /\ ~Known(r) /\ c # None
            /\ \/ conv[c] # "live" /\ Reply(h, 500)
               \/ conv[c] = "live" /\ LiveLease(c) /\ Reply(h, 409)
      /\ UNCHANGED store

\* get_turn_response: a turn with no assistant message has nothing to replay.
ReplayRead(h) ==
  /\ handler[h].step = "replaying"
  /\ Reply(h, IF HasRow(handler[h].turn) /\ handler[h].turn \in answer
                THEN handler[h].code ELSE 500)
  /\ UNCHANGED store
-----------------------------------------------------------------------------
(* The handler, once it owns a turn.                                        *)

\* The agent graph has run and the payload was guarded; for an answer worth
\* keeping the snapshot was built too.  Any failure on the way turns the
\* intended status into an error (502; 500 for a payload that is not JSON) and
\* leaves nothing but a message to commit.
RunGraph(h) ==
  /\ handler[h].step = "running"
  /\ \E code \in {200, 502} :
       Goto(h, At("finalizing", None, None, handler[h].turn, code))
  /\ UNCHANGED store

\* The check finalize_request_turn makes.  Mutated: the row may be gone; settled.
RunningOrGone(t) == status[t] \in {"running", "deleted"}
AnyRow(t) == HasRow(t)
StillRunning(t) == status[t] = "running"

\* turn_snapshots once t is settled.
SnapshotsAfter(t, state) ==
  IF state = "completed" THEN snapshot \cup {t} ELSE snapshot

\* The writes of finalize_request_turn when its turn is still running.
Settle(t, state) ==
  /\ status'   = [status EXCEPT ![t] = state]
  /\ answer'   = answer \cup {t}
  /\ snapshot' = SnapshotsAfter(t, state)
  /\ lease'    = [c \in Convs |-> IF lease[c] = t THEN None ELSE lease[c]]

\* The status the handler asks for.  Mutated: always failed.
FailedOutcome(h) == "failed"
Outcome(h) == IF handler[h].code = 200 THEN "completed" ELSE "failed"

\* finalize_request_turn commits the answer, the terminal status and, for a
\* completed turn, the snapshot.
FinalizeCommits(h) ==
  /\ handler[h].step = "finalizing"
  /\ StillRunning(handler[h].turn)
  /\ Settle(handler[h].turn, Outcome(h))
  /\ Reply(h, handler[h].code)
  /\ UNCHANGED <<conv, home, asked, request, lapsed, erasing>>

\* The turn was settled by somebody else: the row is returned, nothing is
\* written, and the handler, which does not look at the row, replies as planned.
FinalizeTooLate(h) ==
  /\ handler[h].step = "finalizing"
  /\ HasRow(handler[h].turn) /\ ~StillRunning(handler[h].turn)
  /\ Reply(h, handler[h].code)
  /\ UNCHANGED store

GiveUp(h) == Goto(h, At("failing", None, None, handler[h].turn, 500))

\* finalize_request_turn raises with nothing written: the row is gone (TurnNotFound),
\* SQLite or the JSON encoder failed and the transaction rolled back, or the row of a
\* turn that somebody else settled could not be read.
FinalizeRaises(h) ==
  /\ handler[h].step = "finalizing"
  /\ GiveUp(h)
  /\ UNCHANGED store

\* It raises although everything is written: the get_turn that follows the commit fails.
FinalizeUnread(h) ==
  /\ handler[h].step = "finalizing"
  /\ StillRunning(handler[h].turn)
  /\ Settle(handler[h].turn, Outcome(h))
  /\ GiveUp(h)
  /\ UNCHANGED <<conv, home, asked, request, lapsed, erasing>>

\* fail_turn: an UPDATE with no condition on the status, then the lease.  It marks a
\* turn as failed that has just been completed, and leaves its answer and its snapshot.
FailTurn(h) ==
  LET t == handler[h].turn
  IN  /\ handler[h].step = "failing"
      /\ status' = IF HasRow(t) THEN [status EXCEPT ![t] = "failed"] ELSE status
      /\ lease'  = [c \in Convs |-> IF lease[c] = t THEN None ELSE lease[c]]
      /\ Reply(h, 500)
      /\ UNCHANGED <<conv, home, asked, answer, snapshot, request, lapsed, erasing>>

\* fail_turn raises as well: the error still reaches the client.
FailTurnRaises(h) ==
  /\ handler[h].step = "failing"
  /\ Reply(h, 500)
  /\ UNCHANGED store

\* The response has left; the worker takes the next request.
Close(h) ==
  /\ handler[h].step = "replied"
  /\ Goto(h, Idle)
  /\ UNCHANGED store

\* The client hangs up while the graph runs (CancelledError is re-raised with
\* nothing written), or the worker's process dies, wherever the handler is.
Vanish(h) ==
  /\ handler[h].step \notin {"idle", "replied"}
  /\ Goto(h, Idle)
  /\ UNCHANGED store

-----------------------------------------------------------------------------
(* The clock and the other routes, which take no notice of running turns.   *)

\* turn_lease_seconds have passed since t was claimed.
LeaseExpires(t) ==
  /\ \E c \in Convs : lease[c] = t
  /\ t \notin lapsed
  /\ lapsed' = lapsed \cup {t}
  /\ UNCHANGED <<rows, handler>>

CreateConversation(c) ==
  /\ conv[c] = "unused"
  /\ conv' = [conv EXCEPT ![c] = "live"]
  /\ UNCHANGED <<status, home, asked, answer, snapshot, request, lease, lapsed,
                 erasing, handler>>

\* The DELETEs that clear, delete and erase share, for the conversations cs.
DeleteRows(cs) ==
  LET gone == {t \in Turns : HasRow(t) /\ home[t] \in cs}
  IN  /\ status'   = [t \in Turns |-> IF t \in gone THEN "deleted" ELSE status[t]]
      /\ home'     = [t \in Turns |-> IF t \in gone THEN None ELSE home[t]]
      /\ asked'    = [t \in Turns |-> IF t \in gone THEN None ELSE asked[t]]
      /\ answer'   = answer \ gone
      /\ snapshot' = snapshot \ gone
      /\ request'  = [r \in Requests |->
                        IF request[r] \in gone THEN None ELSE request[r]]
      /\ lease'    = [c \in Convs |-> IF c \in cs THEN None ELSE lease[c]]
      /\ UNCHANGED <<lapsed, erasing, handler>>

\* clear_history with a conversation id.
ClearConversation(c) ==
  /\ conv[c] = "live"
  /\ DeleteRows({c})
  /\ UNCHANGED conv

DeleteConversation(c) ==
  /\ conv[c] = "live"
  /\ DeleteRows({c})
  /\ conv' = [conv EXCEPT ![c] = "deleted"]

\* clear_history without one, and the relational layer of forget_me.
DeleteEverything ==
  LET cs == {c \in Convs : conv[c] = "live"}
  IN  /\ cs # {}
      /\ DeleteRows(cs)
      /\ conv' = [c \in Convs |-> IF c \in cs THEN "deleted" ELSE conv[c]]

\* begin_privacy_erasure: refused while a lease is live; an expired one is
\* given up and its turn marked failed.
BeginErasure ==
  /\ ~erasing
  /\ \A c \in Convs : ~LiveLease(c)
  /\ status'  = [t \in Turns |->
                   IF status[t] = "running" /\ \E c \in Convs : lease[c] = t
                     THEN "failed" ELSE status[t]]
  /\ lease'   = [c \in Convs |-> None]
  /\ erasing' = TRUE
  /\ UNCHANGED <<conv, home, asked, answer, snapshot, request, lapsed, handler>>

EndErasure ==
  /\ erasing
  /\ erasing' = FALSE
  /\ UNCHANGED <<conv, status, home, asked, answer, snapshot, request, lease,
                 lapsed, handler>>

-----------------------------------------------------------------------------

HandlerStep(h) ==
  \/ Resolve(h)
  \/ \E c \in Convs, t \in Turns : StartClaims(h, c, t)
  \/ StartRefuses(h)
  \/ ReplayRead(h)
  \/ RunGraph(h)
  \/ FinalizeCommits(h)
  \/ FinalizeTooLate(h)
  \/ FinalizeRaises(h)
  \/ FinalizeUnread(h)
  \/ FailTurn(h)
  \/ FailTurnRaises(h)
  \/ Close(h)

RouteStep ==
  \/ \E c \in Convs : CreateConversation(c)
  \/ \E c \in Convs : ClearConversation(c)
  \/ \E c \in Convs : DeleteConversation(c)
  \/ DeleteEverything
  \/ BeginErasure
  \/ EndErasure

Next ==
  \/ \E h \in Handlers, r \in Requests, c \in Convs \cup {None} : Receive(h, r, c)
  \/ \E h \in Handlers : HandlerStep(h)
  \/ \E h \in Handlers : Vanish(h)
  \/ \E t \in Turns : LeaseExpires(t)
  \/ RouteStep

Spec == Init /\ [][Next]_vars
-----------------------------------------------------------------------------
(* What the store and the boundary promise.                                 *)

\* A handler is running the agent for its turn.
Executing(h) == handler[h].step \in {"running", "finalizing"}

\* A conversation has at most one running turn, and it is the one its lease
\* names: whatever the pools, the expiries and the other routes do, only one
\* execution can still commit an answer to a conversation.
SingleFlight ==
  \A t \in Turns : status[t] = "running" <=>
                     home[t] # None /\ lease[home[t]] = t

\* A request id stands for one turn: two workers that both missed it in
\* get_request_turn do not both execute it.
OneTurnPerRequest ==
  \A s, t \in Turns : HasRow(s) /\ HasRow(t) /\ asked[s] = asked[t] => s = t

\* Turns, leases and request ids never outlive the rows they point to, however
\* late a handler finalizes after its conversation was cleared or deleted.
NoOrphanRows ==
  /\ \A t \in Turns : HasRow(t) => home[t] # None /\ conv[home[t]] = "live"
  /\ \A c \in Convs : lease[c] # None => HasRow(lease[c]) /\ home[lease[c]] = c
  /\ \A r \in Requests :
       request[r] # None => HasRow(request[r]) /\ asked[request[r]] = r
  /\ answer \cup snapshot \subseteq {t \in Turns : HasRow(t)}

\* The answer, the terminal status and the snapshot of a turn commit together: a
\* completed turn has both, and a snapshot comes with its answer and a verdict.  The
\* verdict may be "failed", of a handler that could not read what it had committed.
CompletedIsDurable ==
  \A t \in Turns :
    /\ status[t] = "completed" => t \in snapshot
    /\ t \in snapshot => t \in answer /\ status[t] \in {"completed", "failed"}

\* A turn is taken from the handler that executes it only once its lease has
\* expired or its rows were deleted by the user.
NoLiveTurnIsStolen ==
  \A h \in Handlers :
    Executing(h) => \/ status[handler[h].turn] \in {"running", "deleted"}
                    \/ handler[h].turn \in lapsed

\* While the erasure barrier is up no turn can commit anything.
ErasureBarrier == erasing => \A t \in Turns : status[t] # "running"

\* A 200, of the handler of the turn or of a retry, tells the client that the answer
\* and the snapshot of the turn are on disk, except when the lease expired under the
\* handler or the user deleted the rows.
OkIsDurableWithinLease ==
  \A h \in Handlers :
    handler[h].step = "replied" /\ handler[h].code = 200
      => \/ handler[h].turn \in answer \cap snapshot
         \/ status[handler[h].turn] = "deleted"
         \/ handler[h].turn \in lapsed

\* The verdict was written by a handler that could not read it, and has not answered.
Unread(t) == \E h \in Handlers : handler[h].step = "failing" /\ handler[h].turn = t

\* A settled turn keeps its verdict until its rows are deleted: a handler that comes
\* back after its lease was reclaimed can neither resurrect the turn nor fail one that
\* completed.  One change is left: a handler that raised after its own commit fails it.
SettledForGood ==
  [][\A t \in Turns : status[t] \in {"completed", "failed"}
       => \/ status'[t] \in {status[t], "deleted"}
          \/ status[t] = "completed" /\ status'[t] = "failed" /\ Unread(t)]_vars

-----------------------------------------------------------------------------
(* The store implements RequestLedger.                                      *)

FateOf(r) ==
  LET t == request[r]
  IN  CASE t = None -> "new"
        [] t # None /\ status[t] = "running" /\ t \in lapsed -> "overdue"
        [] OTHER -> status[t]

FlightOf(c) == IF lease[c] = None THEN None ELSE asked[lease[c]]

Ledger == INSTANCE RequestLedger WITH
            fate   <- [r \in Requests |-> FateOf(r)],
            flight <- [c \in Convs |-> FlightOf(c)],
            closed <- erasing

\* Whatever the handlers, the clock and the other routes interleave, a client sees
\* its request ids behave as the ledger says.
ImplementsLedger == Ledger!LedgerSpec
=============================================================================
