--------------------------- MODULE RollingSummary ---------------------------
(***************************************************************************)
(* The context of one conversation: the transcript and the snapshots in    *)
(* the store, the hot cache slice of every pool, and the rolling_summary   *)
(* jobs that fold the turns leaving the hot window into the summary.       *)
(*                                                                         *)
(* A turn is its number and a summary is the set of turns whose content it *)
(* holds.  A turn keeps its lease until its verdict, so turns follow one   *)
(* another (ConversationTurns!SingleFlight), but the handler of a failed   *)
(* one goes on: it clears its slice when the next may have begun.  The     *)
(* jobs run one at a time (Outbox!SerialWithinConversation).               *)
(***************************************************************************)
EXTENDS Naturals, Sequences, SequencesExt

CONSTANTS
  Pools,      \* the agent processes that share the store
  Servers,    \* pools the conversation is routed to
  Workers,    \* pools whose outbox thread has been started
  Window,     \* MAX_HISTORY_LENGTH
  MaxTurns,   \* bound on turns
  MaxFaults,  \* bound on crashes, evictions, failed reads and jobs that raise
  MaxFailed,  \* bound on turns that end as failed
  Blank,      \* can a completion of the model fail or come back empty
  None

Turns == 1 .. MaxTurns

ASSUME BoundsAreNat == Window \in Nat \ {0} /\ MaxTurns \in Nat /\ MaxFaults \in Nat
                       /\ MaxFailed \in Nat
ASSUME PoolsServe == Servers \subseteq Pools /\ Workers \subseteq Pools
ASSUME NoneIsNoPool == None \notin Pools \cup Turns
ASSUME BlankIsBoolean == Blank \in BOOLEAN

VARIABLES
  began,      \* turns started so far
  said,       \* the turns with an assistant message, in the order of their messages
  done,       \* completed turns
  snapshot,   \* the snapshot of every turn that got one
  cache,      \* per pool, its slice of SessionStore
  turn,       \* the running turn
  closing,    \* handlers whose turn has its verdict and whose slice is not cleared yet
  job,        \* the rolling_summary job of every turn that queued one
  worker,     \* the job being worked on
  faults,
  failed,
  astray,     \* history: pools whose slice was filled without all of the transcript
  behind,     \* history: pools whose slice was warm when another pool said something
  races       \* history: the kinds of races and failures there were

store   == <<began, said, done, snapshot>>
history == <<astray, behind>>
vars == <<store, cache, turn, closing, job, worker, faults, failed, history, races>>

Slice(w, h, s) == [warm |-> w, history |-> h, summary |-> s]
Cold == Slice(FALSE, <<>>, {})

TurnAt(st, p, d, snap) == [step |-> st, pool |-> p, dropped |-> d, snap |-> snap]
Snap(s, r) == [summary |-> s, context_revision |-> r]
NoSnapshot == Snap({}, 0)
NoTurn == TurnAt("none", None, {}, NoSnapshot)
Ending(t, p, st) == [turn |-> t, pool |-> p, step |-> st]

Job(st, d, res) == [status |-> st, dropped |-> d, result |-> res]
NoJob == Job("none", {}, None)
At(st, p, t, v) == [step |-> st, pool |-> p, job |-> t, value |-> v]
NoWork == At("idle", None, None, {})

Folding == job[worker.job].dropped
Queued == {t \in Turns : job[t].status \in {"pending", "waiting", "running"}}
Closing(p) == {c \in closing : c.pool = p}

\* What can go wrong with a fold; "failure" is a read, a completion, a job or a reply
\* that fails, or a clear that comes late.
Kinds == {"stale slice", "late snapshot", "late result", "failed turn", "failure"}
When(occurs, kind) == IF occurs THEN {kind} ELSE {}

Ascending(h) == \A i, j \in DOMAIN h : i < j => h[i] < h[j]
Histories == {h \in SeqOf(Turns, Window) : Ascending(h)}
Snapshots == [summary : SUBSET Turns, context_revision : Nat]
Slices    == [warm : BOOLEAN, history : Histories, summary : SUBSET Turns]
TurnStates ==
  [step : {"none", "running", "written", "built"}, pool : Servers \cup {None},
   dropped : SUBSET Turns, snap : Snapshots]
Endings == [turn : Turns, pool : Servers, step : {"undo", "clear"}]
Results == (SUBSET Turns) \cup {None}
JobStates ==
  [status : {"none", "pending", "waiting", "running", "completed", "dead"},
   dropped : SUBSET Turns, result : Results]
WorkStates ==
  [step : {"idle", "claimed", "folded", "saved", "patched", "cached"},
   pool : Workers \cup {None}, job : Turns \cup {None}, value : SUBSET Turns]

TypeOK ==
  /\ began \in 0 .. MaxTurns
  /\ said \in Seq(1 .. began) /\ Ascending(said)
  /\ done \subseteq ToSet(said)
  /\ snapshot \in [Turns -> Snapshots]
  /\ cache \in [Pools -> Slices]
  /\ turn \in TurnStates
  /\ closing \subseteq Endings
  /\ job \in [Turns -> JobStates]
  /\ worker \in WorkStates
  /\ faults \in 0 .. MaxFaults
  /\ failed \in 0 .. MaxFailed
  /\ astray \cup behind \subseteq {p \in Pools : cache[p].warm}
  /\ races \subseteq Kinds

Init ==
  /\ began = 0 /\ said = <<>> /\ done = {}
  /\ snapshot = [t \in Turns |-> NoSnapshot]
  /\ cache  = [p \in Pools |-> Cold]
  /\ turn   = NoTurn
  /\ closing = {}
  /\ job    = [t \in Turns |-> NoJob]
  /\ worker = NoWork
  /\ faults = 0 /\ failed = 0
  /\ astray = {} /\ behind = {}
  /\ races = {}

-----------------------------------------------------------------------------
(* The store and the hot cache.                                             *)

\* latest_snapshot: of the last turn that is completed.
LastDone == CHOOSE t \in done : \A u \in done : u <= t
Latest == IF done = {} THEN NoSnapshot ELSE snapshot[LastDone]

\* The last turns of a history that fit the window.  Mutated: one too many.
HotAndOne(h) == IF Len(h) > Window + 1 THEN SubSeq(h, Len(h) - Window, Len(h)) ELSE h
Hot(h) == IF Len(h) > Window THEN SubSeq(h, Len(h) - Window + 1, Len(h)) ELSE h

\* rehydrate_history: the last turns with an answer, whatever became of them.
Rehydrated == Hot(said)

\* _get_session fills a slice when it is new, and only then.  Either read may fail:
\* that is logged, and the slice counts as filled.
Filled == Slice(TRUE, Rehydrated, Latest.summary)
Sessions(p) ==
  IF cache[p].warm THEN {cache[p]}
  ELSE {Slice(TRUE, h, s) : h \in {Rehydrated, <<>>}, s \in {Latest.summary, {}}}
Misread(p, s) == ~cache[p].warm /\ s # Filled

\* The turn under way in pool p is in its slice, and not yet in the store.
Ahead(p) == turn.pool = p /\ turn.step \in {"written", "built"}

GetSession(p, s) ==
  /\ s \in Sessions(p)
  /\ Misread(p, s) => faults < MaxFaults
  /\ faults' = IF Misread(p, s) THEN faults + 1 ELSE faults
  /\ astray' = IF ~cache[p].warm /\ (Ahead(p) \/ s.history # Rehydrated)
                 THEN astray \cup {p} ELSE astray

\* SessionStore.clear.  Mutated: the slice stays.
KeepSlice(p) == cache
ClearSlice(p) == [cache EXCEPT ![p] = Cold]
DropSlice(p) ==
  /\ cache'  = ClearSlice(p)
  /\ astray' = astray \ {p}
  /\ behind' = behind \ {p}

-----------------------------------------------------------------------------
(* A turn.                                                                  *)

\* start_request_turn grants the turn and handle_with_react_agent snapshots the slice.
BeginTurn(p) ==
  /\ turn = NoTurn
  /\ began < MaxTurns
  /\ began' = began + 1
  /\ turn'  = TurnAt("running", p, {}, NoSnapshot)
  /\ \E s \in Sessions(p) :
       /\ GetSession(p, s)
       /\ cache' = [cache EXCEPT ![p] = s]
       /\ races' = races \cup When(p \in behind, "stale slice")
                        \cup When(Misread(p, s) \/ Closing(p) # {}, "failure")
  /\ UNCHANGED <<said, done, snapshot, closing, job, worker, failed, behind>>

\* The turns that leave a history.
LeavesWindow(h) == ToSet(h) \ ToSet(Hot(h))

\* _write_back_turn appends the turn, trims the window and queues what fell out of it.
WriteBack ==
  LET p == turn.pool
  IN  /\ turn.step = "running"
      /\ \E s \in Sessions(p) :
           LET h == Append(s.history, began)
           IN  /\ GetSession(p, s)
               /\ cache' = [cache EXCEPT ![p] = [s EXCEPT !.history = Hot(h)]]
               /\ turn'  = [turn EXCEPT !.step = "written", !.dropped = LeavesWindow(h)]
               /\ races' = races \cup When(Misread(p, s), "failure")
      /\ UNCHANGED <<store, closing, job, worker, failed, behind>>

\* The context_revision of a new snapshot and of a patched one.
NextRevision == Latest.context_revision + 1

\* _build_turn_snapshot_after_turn: the revision of the latest snapshot, plus one, with
\* the summary of the slice, which a fold may not have reached yet.
BuildSnapshot ==
  LET p == turn.pool
  IN  /\ turn.step = "written"
      /\ \E s \in Sessions(p) :
           /\ GetSession(p, s)
           /\ cache' = [cache EXCEPT ![p] = s]
           /\ turn'  = [turn EXCEPT !.step = "built", !.snap = Snap(s.summary, NextRevision)]
           /\ races' = races \cup When(Misread(p, s), "failure")
                \cup When(worker.step = "patched" /\ worker.pool = p, "late snapshot")
      /\ UNCHANGED <<store, closing, job, worker, failed, behind>>

\* The other pools whose slice is warm do not hear of the message of this turn.
LeaveBehind == behind' = behind \cup {p \in Pools \ {turn.pool} : cache[p].warm}

\* finalize_request_turn commits the answer, the snapshot and the job.
Commit ==
  /\ turn.step = "built"
  /\ said'     = Append(said, began)
  /\ done'     = done \cup {began}
  /\ snapshot' = [snapshot EXCEPT ![began] = turn.snap]
  /\ job'      = IF turn.dropped = {} THEN job
                 ELSE [job EXCEPT ![began] = Job("pending", turn.dropped, None)]
  /\ turn'     = NoTurn
  /\ LeaveBehind
  /\ UNCHANGED <<began, cache, worker, faults, astray, races>>

Finalize == Commit /\ UNCHANGED <<closing, failed>>

\* A handler whose turn has ended has something left to do.
Fails(st) ==
  /\ failed < MaxFailed
  /\ failed' = failed + 1
  /\ closing' = closing \cup {Ending(began, turn.pool, st)}

\* It raises although everything is written: the handler will fail the turn.
FinalizeUnread == Commit /\ Fails("undo")

\* The turn failed: its error message is committed and its jobs are dropped.  The window
\* of the transcript moves on; nothing is folded for it.
FinalizeFailed ==
  /\ turn.step \in {"running", "written"}
  /\ Fails("clear")
  /\ said'  = Append(said, began)
  /\ turn'  = NoTurn
  /\ LeaveBehind
  /\ races' = races \cup When(Len(said) >= Window, "failed turn")
  /\ UNCHANGED <<began, done, snapshot, cache, job, worker, faults, astray>>

\* The finalize raised with nothing written: fail_turn gives the lease up, or it runs out.
FinalizeRaises ==
  /\ turn # NoTurn
  /\ Fails("clear")
  /\ turn' = NoTurn
  /\ UNCHANGED <<store, cache, job, worker, faults, history, races>>

\* The handler of a turn that is committed fails it: the turn is not completed any
\* more, and an earlier snapshot is the latest.  fail_turn may raise as well.
FailTurn(c) ==
  /\ c \in closing /\ c.step = "undo"
  /\ \/ done' = done \ {c.turn} /\ races' = races \cup {"failure"}
     \/ UNCHANGED <<done, races>>
  /\ closing' = (closing \ {c}) \cup {Ending(c.turn, c.pool, "clear")}
  /\ UNCHANGED <<began, said, snapshot, cache, turn, job, worker, faults, failed, history>>

\* The handler of a failed turn clears the slice, at whatever the conversation is by now.
Clear(c) ==
  /\ c \in closing /\ c.step = "clear"
  /\ closing' = closing \ {c}
  /\ DropSlice(c.pool)
  /\ UNCHANGED <<store, turn, job, worker, faults, failed, races>>

\* The client hangs up while the graph runs: nothing is written.
HangUp ==
  /\ turn.step = "running"
  /\ failed < MaxFailed
  /\ failed' = failed + 1
  /\ turn'   = NoTurn
  /\ UNCHANGED <<store, cache, closing, job, worker, faults, history, races>>

-----------------------------------------------------------------------------
(* A rolling_summary job (_process_background_job).                         *)

WorkOn(st, v) == worker' = [worker EXCEPT !.step = st, !.value = v]

Claim(p, t) ==
  /\ worker = NoWork
  /\ job[t].status = "pending"
  /\ \A u \in Turns : job[u].status = "pending" => t <= u
  /\ job'    = [job EXCEPT ![t].status = "running"]
  /\ worker' = At("claimed", p, t, {})
  /\ UNCHANGED <<store, cache, turn, closing, faults, failed, history, races>>

\* update_rolling_summary of the latest snapshot's summary, or the saved result.
\* Mutated: the turns that left the window replace the prior summary.
FoldAlone == Folding
FoldOntoPrior == Latest.summary \cup Folding
Fold ==
  /\ worker.step = "claimed"
  /\ IF job[worker.job].result = None
       THEN WorkOn("folded", FoldOntoPrior)
       ELSE WorkOn("saved", job[worker.job].result)
  /\ UNCHANGED <<store, cache, turn, closing, job, faults, failed, history, races>>

\* The model failed: update_rolling_summary returns the prior summary.
FoldFails ==
  /\ Blank
  /\ worker.step = "claimed"
  /\ job[worker.job].result = None
  /\ WorkOn("folded", Latest.summary)
  /\ races' = races \cup {"failure"}
  /\ UNCHANGED <<store, cache, turn, closing, job, faults, failed, history>>

SaveResult ==
  /\ worker.step = "folded"
  /\ job' = [job EXCEPT ![worker.job].result = worker.value]
  /\ WorkOn("saved", worker.value)
  /\ UNCHANGED <<store, cache, turn, closing, faults, failed, history, races>>

\* patch_latest_snapshot_summary: whichever snapshot is the latest by now.  A serving
\* pool other than the worker's keeps the summary it has; a snapshot that is built
\* does not get this one; a result saved before it does not have it.
PatchSnapshot ==
  /\ worker.step = "saved"
  /\ done # {}
  /\ snapshot' = [snapshot EXCEPT ![LastDone] = Snap(worker.value, NextRevision)]
  /\ WorkOn("patched", worker.value)
  /\ races' = races
       \cup When(\E p \in Servers \ {worker.pool} : cache[p].warm, "stale slice")
       \cup When(turn.step = "built", "late snapshot")
       \cup When(\E t \in Queued \ {worker.job} : job[t].result # None, "late result")
  /\ UNCHANGED <<began, said, done, cache, turn, closing, job, faults, failed, history>>

\* The slice of the worker's own pool is told.
UpdateCache ==
  LET p == worker.pool
  IN  /\ worker.step = "patched"
      /\ \E s \in Sessions(p) :
           /\ GetSession(p, s)
           /\ cache' = [cache EXCEPT ![p] = [s EXCEPT !.summary = worker.value]]
           /\ races' = races \cup When(Misread(p, s), "failure")
      /\ WorkOn("cached", worker.value)
      /\ UNCHANGED <<store, turn, closing, job, failed, behind>>

Complete ==
  /\ worker.step = "cached"
  /\ job'    = [job EXCEPT ![worker.job] = [@ EXCEPT !.status = "completed", !.result = None]]
  /\ worker' = NoWork
  /\ UNCHANGED <<store, cache, turn, closing, faults, failed, history, races>>

\* The job raises, as it does when there is no snapshot to patch.
Retry ==
  /\ worker.step \in {"claimed", "folded", "saved", "cached"}
  /\ \/ faults < MaxFaults /\ faults' = faults + 1
     \/ worker.step = "saved" /\ done = {} /\ UNCHANGED faults
  /\ \/ job' = [job EXCEPT ![worker.job].status = "waiting"] /\ UNCHANGED races
     \/ job' = [job EXCEPT ![worker.job].status = "dead"] /\ races' = races \cup {"failure"}
  /\ worker' = NoWork
  /\ UNCHANGED <<store, cache, turn, closing, failed, history>>

\* It has waited out its backoff; another may have been claimed meanwhile.
BackoffEnds(t) ==
  /\ job[t].status = "waiting"
  /\ job' = [job EXCEPT ![t].status = "pending"]
  /\ UNCHANGED <<store, cache, turn, closing, worker, faults, failed, history, races>>

-----------------------------------------------------------------------------

\* A process dies and starts again: its slices are gone, its turn is abandoned, its
\* handlers clear nothing, and its job is claimed again once the lease has expired.
Crash(p) ==
  /\ faults < MaxFaults
  /\ faults' = faults + 1
  /\ DropSlice(p)
  /\ turn'    = IF turn.pool = p THEN NoTurn ELSE turn
  /\ closing' = closing \ Closing(p)
  /\ IF worker.pool = p
       THEN worker' = NoWork /\ job' = [job EXCEPT ![worker.job].status = "pending"]
       ELSE UNCHANGED <<worker, job>>
  /\ UNCHANGED <<store, failed, races>>

\* TTL or LRU eviction of an idle slice; the slice of a running turn was just touched.
Evict(p) ==
  /\ faults < MaxFaults
  /\ cache[p].warm /\ turn.pool # p
  /\ faults' = faults + 1
  /\ DropSlice(p)
  /\ UNCHANGED <<store, turn, closing, job, worker, failed, races>>

TurnStep ==
  \/ \E p \in Servers : BeginTurn(p)
  \/ WriteBack
  \/ BuildSnapshot
  \/ Finalize
  \/ FinalizeUnread
  \/ FinalizeFailed
  \/ FinalizeRaises
  \/ HangUp

EndStep == \E c \in closing : FailTurn(c) \/ Clear(c)

JobStep ==
  \/ \E p \in Workers, t \in Turns : Claim(p, t)
  \/ Fold
  \/ FoldFails
  \/ SaveResult
  \/ PatchSnapshot
  \/ UpdateCache
  \/ Complete
  \/ Retry
  \/ \E t \in Turns : BackoffEnds(t)

Next == TurnStep \/ EndStep \/ JobStep \/ \E p \in Pools : Crash(p) \/ Evict(p)

\* Every turn has been played, every handler has ended and every job is done.
Finished == began = MaxTurns /\ turn = NoTurn /\ closing = {} /\ Queued = {} /\ UNCHANGED vars

Spec == Init /\ [][Next \/ Finished]_vars
-----------------------------------------------------------------------------
(* What the context of a conversation promises.                             *)

\* The window a pool gives its next turn.
Settled(p) == cache[p].warm /\ Closing(p) = {} /\ p \notin astray

\* Between turns, the window of every slice that was filled by a read that worked is the
\* end of the transcript, whatever failed, crashed, raised or was evicted before, except
\* in a pool that another pool has left behind.
TurnReadsTheTranscript ==
  turn = NoTurn =>
    \A p \in Servers \ behind : Settled(p) => cache[p].history = Rehydrated

\* What the next turn in pool p would know, with what the queue will still add.
Known(p) ==
  LET s == IF cache[p].warm THEN cache[p] ELSE Filled
  IN  ToSet(s.history) \cup s.summary \cup UNION {job[t].dropped : t \in Queued}

\* Between turns, nothing that was said in a completed turn is lost to the next one:
\* it is in the window, in the summary, or in a job that will fold it.
NothingIsLost ==
  turn = NoTurn =>
    \A p \in Servers \ behind : Closing(p) = {} => done \subseteq Known(p)

\* A turn is lost only by one of the races: turns begin while jobs are queued and while
\* other pools work, jobs overlap, wait and are claimed again, processes crash, slices
\* are evicted, and finalizes raise; nothing of that loses a turn.
FoldsAreKept == races = {} => NothingIsLost

=============================================================================
