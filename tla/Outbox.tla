------------------------------- MODULE Outbox -------------------------------
(***************************************************************************)
(* The durable outbox of one user: the background jobs that finalized      *)
(* turns leave in the conversation store, the OutboxWorker thread of each  *)
(* pool that consumes them, and their effects.  A memory_turn job adds a   *)
(* turn to long-term memory, which drops a key it has already stored; a    *)
(* rolling_summary job writes to the latest snapshot of its conversation   *)
(* (RollingSummary says what it writes).                                   *)
(***************************************************************************)
EXTENDS Naturals, Sequences

CONSTANTS
  MaxJobs,      \* bound on background_jobs.id (AUTOINCREMENT)
  Pools,        \* the agent processes; each runs one outbox thread
  Convs,        \* conversations of the user
  MaxAttempts,  \* OutboxWorker.max_attempts
  MaxFaults,    \* bound on crashes, overrun leases, failed retries and erasures
  None,         \* SQL NULL / Python None
  Gone          \* the worker_id of a process that has died

Jobs == 1 .. MaxJobs

ASSUME BoundsAreNat == MaxJobs \in Nat /\ MaxAttempts \in Nat \ {0} /\ MaxFaults \in Nat
ASSUME NamesAreFresh ==
  /\ None \notin Pools \cup Convs \cup Jobs
  /\ Gone \notin Pools \cup {None}

VARIABLES
  status,       \* background_jobs.status; "unused" before, "deleted" after the row
  home,         \* background_jobs.conversation_id
  kind,         \* background_jobs.kind
  attempts,     \* background_jobs.attempts, counted up to MaxAttempts
  owner,        \* background_jobs.claimed_by
  result,       \* background_jobs.result_json, told apart by the pool that made it
  waiting,      \* jobs with available_at in the future
  lapsed,       \* running jobs whose lease_expires has passed
  erasing,      \* the user has a row in privacy_erasure_locks
  snapshots,    \* conversations with a completed turn's snapshot
  memory,       \* jobs whose turn long-term memory has stored
  patched,      \* history: jobs whose result was once patched into a snapshot
  worker,       \* what the outbox thread of each pool is doing
  faults        \* crashes, overrun leases, failed retries and erasures so far

jobs  == <<status, home, kind, attempts, owner, result, waiting, lapsed>>
store == <<jobs, erasing, snapshots>>
vars  == <<store, memory, patched, worker, faults>>

Kinds     == {"rolling_summary", "memory_turn"}
Queued    == {j \in Jobs : status[j] \in {"pending", "running"}}

Steps == {"stopped", "idle", "claimed", "folding", "patching", "acking",
          "completing", "failing"}
Working(s, j, v) == [step |-> s, job |-> j, value |-> v]
IdleWorker == Working("idle", None, None)
Stopped    == Working("stopped", None, None)

TypeOK ==
  /\ status   \in [Jobs -> {"unused", "pending", "running", "completed", "dead", "deleted"}]
  /\ home     \in [Jobs -> Convs \cup {None}]
  /\ kind     \in [Jobs -> Kinds \cup {None}]
  /\ attempts \in [Jobs -> 0 .. MaxAttempts]
  /\ owner    \in [Jobs -> Pools \cup {None, Gone}]
  /\ result   \in [Jobs -> Pools \cup {None}]
  /\ waiting  \subseteq Jobs
  /\ lapsed   \subseteq Jobs
  /\ erasing  \in BOOLEAN
  /\ snapshots \subseteq Convs
  /\ memory   \subseteq Jobs
  /\ patched  \subseteq Jobs
  /\ worker   \in [Pools -> [step : Steps, job : Jobs \cup {None},
                             value : Pools \cup {None}]]
  /\ faults   \in 0 .. MaxFaults
  /\ \A j \in Jobs : owner[j] # None <=> status[j] = "running"
  /\ \A j \in lapsed : status[j] = "running"

Init ==
  /\ status   = [j \in Jobs |-> "unused"]
  /\ home     = [j \in Jobs |-> None]
  /\ kind     = [j \in Jobs |-> None]
  /\ attempts = [j \in Jobs |-> 0]
  /\ owner    = [j \in Jobs |-> None]
  /\ result   = [j \in Jobs |-> None]
  /\ waiting  = {}
  /\ lapsed   = {}
  /\ erasing  = FALSE
  /\ snapshots = {}
  /\ memory   = {}
  /\ patched  = {}
  /\ worker   = [p \in Pools |-> Stopped]
  /\ faults   = 0

-----------------------------------------------------------------------------
(* Where jobs come from.                                                    *)

\* What a turn queues: a summary when turns left the hot window, then a memory.
Batches == {<<>>, <<"rolling_summary">>, <<"memory_turn">>,
            <<"rolling_summary", "memory_turn">>}

\* finalize_request_turn of a completed turn of c, in pool p: the snapshot and the jobs,
\* which take the next ids, commit together.  A turn with jobs starts the outbox thread
\* of its pool (_ensure_outbox_worker); nothing does so when a process starts.  No turn
\* commits while an erasure is under way (ConversationTurns!ErasureBarrier).
FinalizeTurn(p, c) ==
  /\ ~erasing
  /\ \E n \in 0 .. MaxJobs, batch \in Batches :
       LET new == {j \in Jobs : n < j /\ j <= n + Len(batch)}
       IN  /\ n + Len(batch) <= MaxJobs
           /\ \A j \in Jobs : status[j] # "unused" <=> j <= n
           /\ status' = [j \in Jobs |-> IF j \in new THEN "pending" ELSE status[j]]
           /\ home'   = [j \in Jobs |-> IF j \in new THEN c ELSE home[j]]
           /\ kind'   = [j \in Jobs |-> IF j \in new THEN batch[j - n] ELSE kind[j]]
           /\ worker' = IF new # {} /\ worker[p].step = "stopped"
                          THEN [worker EXCEPT ![p] = IdleWorker] ELSE worker
  /\ snapshots' = snapshots \cup {c}
  /\ UNCHANGED <<attempts, owner, result, waiting, lapsed, erasing, memory, patched, faults>>

\* A turn of another user does the same to the thread, which serves all users.
StartThread(p) ==
  /\ worker[p].step = "stopped"
  /\ worker' = [worker EXCEPT ![p] = IdleWorker]
  /\ UNCHANGED <<store, memory, patched, faults>>

-----------------------------------------------------------------------------
(* claim_background_job.                                                    *)

\* claimed_by once the jobs js are given back, settled or deleted: retry_background_job
\* looks at nothing else.
Released(js) == [k \in Jobs |-> IF k \in js THEN None ELSE owner[k]]

\* Running jobs whose lease has passed.  Mutated: left to a worker that is gone.
FreedNever == {}
Freed == {j \in Jobs : status[j] = "running" /\ j \in lapsed}

\* No job of j's conversation is running, once the lapsed ones are given back.
\* Mutated: jobs are claimed in id order only.
ConversationAlways(j) == TRUE
ConversationFree(j) ==
  \A k \in Jobs : status[k] = "running" /\ home[k] = home[j] => k \in Freed

\* The erasure lock keeps every job of the user where it is.  Mutated: only turns
\* look at the lock.
LockIgnored == TRUE
NoErasure == ~erasing

Claimable(j) ==
  /\ status[j] = "pending" \/ j \in Freed
  /\ j \notin waiting
  /\ NoErasure
  /\ ConversationFree(j)

\* Lapsed leases are given back and the first claimable job is taken.  When there is none,
\* nothing was given back either: a lapsed job is past its backoff and is claimable.
ClaimJob(p, j) ==
  /\ worker[p].step = "idle"
  /\ Claimable(j) /\ \A k \in Jobs : Claimable(k) => j <= k
  /\ status'   = [k \in Jobs |-> IF k = j THEN "running"
                                 ELSE IF k \in Freed THEN "pending" ELSE status[k]]
  /\ attempts' = [attempts EXCEPT ![j] = IF @ < MaxAttempts THEN @ + 1 ELSE @]
  /\ owner'    = [Released(Freed) EXCEPT ![j] = p]
  /\ lapsed'   = lapsed \ Freed
  /\ worker'   = [worker EXCEPT ![p] = Working("claimed", j, result[j])]
  /\ UNCHANGED <<home, kind, result, waiting, erasing, snapshots, memory, patched, faults>>

-----------------------------------------------------------------------------
(* _process_background_job and run_once, one store call at a time.          *)

\* The condition of every write a worker makes to its job.  Mutated: the job runs,
\* whoever claimed it.
JobRuns(p, j) == status[j] = "running"
Owns(p, j) == status[j] = "running" /\ owner[j] = p

Move(p, s, v) == worker' = [worker EXCEPT ![p] = Working(s, worker[p].job, v)]

\* A summary job with no saved result reads the summary it will extend and calls the
\* LLM; the answer is saved before it is applied.
Fold(p) ==
  /\ worker[p].step = "claimed" /\ kind[worker[p].job] = "rolling_summary"
  /\ worker[p].value = None
  /\ Move(p, "folding", p)
  /\ UNCHANGED <<store, memory, patched, faults>>

SaveFold(p) ==
  LET j == worker[p].job
  IN  /\ worker[p].step = "folding"
      /\ IF Owns(p, j)
           THEN /\ result' = [result EXCEPT ![j] = worker[p].value]
                /\ Move(p, "patching", worker[p].value)
           ELSE /\ Move(p, "failing", None)
                /\ UNCHANGED result
      /\ UNCHANGED <<status, home, kind, attempts, owner, waiting, lapsed, erasing,
                     snapshots, memory, patched, faults>>

\* A result saved by an earlier attempt is applied as it is.  Mutated: it is taken to
\* have been applied, as it is for a memory.
SavedIsDone == "completing"
SavedIsPatched == "patching"
ReuseFold(p) ==
  /\ worker[p].step = "claimed" /\ kind[worker[p].job] = "rolling_summary"
  /\ worker[p].value # None
  /\ Move(p, SavedIsPatched, worker[p].value)
  /\ UNCHANGED <<store, memory, patched, faults>>

\* patch_latest_snapshot_summary checks nothing but that there is a snapshot.
PatchSnapshot(p) ==
  LET j == worker[p].job
  IN  /\ worker[p].step = "patching"
      /\ IF home[j] \in snapshots
           THEN /\ patched' = patched \cup {j}
                /\ Move(p, "completing", None)
           ELSE /\ Move(p, "failing", None)
                /\ UNCHANGED patched
      /\ UNCHANGED <<store, memory, faults>>

\* A memory job with no saved result calls remember_turn, which drops a turn whose
\* idempotency key it has; with one, the call is skipped.
RememberTurn(p) ==
  /\ worker[p].step = "claimed" /\ kind[worker[p].job] = "memory_turn"
  /\ IF worker[p].value = None
       THEN Move(p, "acking", None) /\ memory' = memory \cup {worker[p].job}
       ELSE Move(p, "completing", None) /\ UNCHANGED memory
  /\ UNCHANGED <<store, patched, faults>>

\* The acknowledgement of the memory becomes the job's result.
SaveStored(p) ==
  LET j == worker[p].job
  IN  /\ worker[p].step = "acking"
      /\ IF Owns(p, j)
           THEN /\ result' = [result EXCEPT ![j] = p]
                /\ Move(p, "completing", None)
           ELSE /\ Move(p, "failing", None)
                /\ UNCHANGED result
      /\ UNCHANGED <<status, home, kind, attempts, owner, waiting, lapsed, erasing, snapshots,
                     memory, patched, faults>>

\* complete_background_job leaves a tombstone with neither payload nor result.
CompleteJob(p) ==
  LET j == worker[p].job
  IN  /\ worker[p].step = "completing"
      /\ IF Owns(p, j)
           THEN /\ status' = [status EXCEPT ![j] = "completed"]
                /\ owner'  = Released({j})
                /\ result' = [result EXCEPT ![j] = None]
                /\ lapsed' = lapsed \ {j}
                /\ worker' = [worker EXCEPT ![p] = IdleWorker]
           ELSE /\ Move(p, "failing", None)
                /\ UNCHANGED <<status, owner, result, lapsed>>
      /\ UNCHANGED <<home, kind, attempts, waiting, erasing, snapshots, memory, patched, faults>>

\* The store, the memory or the model raises in the middle of the job.
ProcessRaises(p) ==
  /\ worker[p].step \in {"claimed", "folding", "patching", "acking", "completing"}
  /\ Move(p, "failing", None)
  /\ UNCHANGED <<store, memory, patched, faults>>

\* retry_background_job, which looks at claimed_by alone.  Mutated: at nothing.
RowIsThere(p, j) == status[j] \notin {"unused", "deleted"}
ClaimedBy(p, j) == owner[j] = p

RetryJob(p) ==
  LET j == worker[p].job
  IN  /\ worker[p].step = "failing"
      /\ IF ClaimedBy(p, j)
           THEN /\ status'  = [status EXCEPT ![j] = IF attempts[j] >= MaxAttempts
                                                      THEN "dead" ELSE "pending"]
                /\ owner'   = Released({j})
                /\ waiting' = waiting \cup {j}
                /\ lapsed'  = lapsed \ {j}
           ELSE UNCHANGED <<status, owner, waiting, lapsed>>
      /\ worker' = [worker EXCEPT ![p] = IdleWorker]
      /\ UNCHANGED <<home, kind, attempts, result, erasing, snapshots, memory, patched, faults>>

\* The retry itself raises: _run logs it, and the job is left to its lease.
RetryRaises(p) ==
  /\ worker[p].step = "failing"
  /\ faults < MaxFaults
  /\ faults' = faults + 1
  /\ worker' = [worker EXCEPT ![p] = IdleWorker]
  /\ UNCHANGED <<store, memory, patched>>

-----------------------------------------------------------------------------
(* Time, crashes and the other routes.                                      *)

Lapse(j) ==
  /\ status[j] = "running" /\ j \notin lapsed
  /\ lapsed' = lapsed \cup {j}
  /\ UNCHANGED <<status, home, kind, attempts, owner, result, waiting, erasing, snapshots,
                 memory, patched, worker>>

AtWork(j) == \E p \in Pools : owner[j] = p /\ worker[p].job = j

\* lease_expires passes for a job that nobody works on, or under a worker that is slow.
LeaseLapses(j) == ~AtWork(j) /\ Lapse(j) /\ UNCHANGED faults
WorkerOverruns(j) ==
  AtWork(j) /\ Lapse(j) /\ faults < MaxFaults /\ faults' = faults + 1

BackoffEnds(j) ==
  /\ j \in waiting
  /\ waiting' = waiting \ {j}
  /\ UNCHANGED <<status, home, kind, attempts, owner, result, lapsed, erasing, snapshots,
                 memory, patched, worker, faults>>

\* The process dies and another takes its place, with no outbox thread for now; a new
\* thread will claim under a new worker_id.
Restart(p) ==
  /\ worker' = [worker EXCEPT ![p] = Stopped]
  /\ owner'  = [j \in Jobs |-> IF owner[j] = p THEN Gone ELSE owner[j]]
  /\ UNCHANGED <<status, home, kind, attempts, result, waiting, lapsed, erasing, snapshots,
                 memory, patched>>

Crash(p) ==
  /\ faults < MaxFaults
  /\ faults' = faults + 1
  /\ Restart(p)

\* The background_jobs and snapshots of the conversations cs are deleted.
DeleteRows(cs) ==
  LET gone == {j \in Jobs : status[j] # "unused" /\ home[j] \in cs}
  IN  /\ status'  = [j \in Jobs |-> IF j \in gone THEN "deleted" ELSE status[j]]
      /\ owner'   = Released(gone)
      /\ result'  = [j \in Jobs |-> IF j \in gone THEN None ELSE result[j]]
      /\ waiting' = waiting \ gone
      /\ lapsed'  = lapsed \ gone
      /\ snapshots' = snapshots \ cs
      /\ UNCHANGED <<home, kind, attempts, erasing, memory, patched, worker, faults>>

\* clear_conversation_messages, as far as it reaches the outbox.
ClearConversation(c) == c \in snapshots /\ DeleteRows({c})

\* What begin_privacy_erasure checks of the jobs: the running one with the lowest id
\* (LIMIT 1) must have lapsed; and every running job is put back.
FirstRunningLapsed ==
  \A j \in Jobs :
    status[j] = "running" /\ (\A k \in Jobs : status[k] = "running" => j <= k)
      => j \in lapsed

BeginErasure ==
  /\ ~erasing
  /\ faults < MaxFaults
  /\ faults' = faults + 1
  /\ FirstRunningLapsed
  /\ status'  = [j \in Jobs |-> IF status[j] = "running" THEN "pending" ELSE status[j]]
  /\ owner'   = Released({j \in Jobs : status[j] = "running"})
  /\ lapsed'  = {}
  /\ erasing' = TRUE
  /\ UNCHANGED <<home, kind, attempts, result, waiting, snapshots, memory, patched,
                 worker>>

\* delete_all_user_data.
EraseRows ==
  /\ erasing
  /\ DeleteRows(Convs)

EndErasure ==
  /\ erasing
  /\ erasing' = FALSE
  /\ UNCHANGED <<jobs, snapshots, memory, patched, worker, faults>>

-----------------------------------------------------------------------------

WorkerStep(p) ==
  \/ \E j \in Jobs : ClaimJob(p, j)
  \/ Fold(p)
  \/ SaveFold(p)
  \/ ReuseFold(p)
  \/ PatchSnapshot(p)
  \/ RememberTurn(p)
  \/ SaveStored(p)
  \/ CompleteJob(p)
  \/ ProcessRaises(p)
  \/ RetryJob(p)
  \/ RetryRaises(p)

TimeStep ==
  \/ \E j \in Jobs : LeaseLapses(j)
  \/ \E j \in Jobs : WorkerOverruns(j)
  \/ \E j \in Jobs : BackoffEnds(j)

RouteStep ==
  \/ \E p \in Pools, c \in Convs : FinalizeTurn(p, c)
  \/ \E p \in Pools : StartThread(p)
  \/ \E c \in Convs : ClearConversation(c)
  \/ BeginErasure
  \/ EraseRows
  \/ EndErasure

Next ==
  \/ \E p \in Pools : WorkerStep(p)
  \/ TimeStep
  \/ RouteStep
  \/ \E p \in Pools : Crash(p)

Spec == Init /\ [][Next]_vars

\* The thread loops as long as its process lives, and leases and backoffs are real time.
\* Nothing sees to it that an erasure ends: forget_me releases its lock in a finally
\* clause, which a process that dies never reaches and whose write may fail.
Fairness ==
  /\ \A p \in Pools : WF_vars(WorkerStep(p))
  /\ \A j \in Jobs : WF_vars(LeaseLapses(j)) /\ WF_vars(BackoffEnds(j))

FairSpec == Spec /\ Fairness

-----------------------------------------------------------------------------
(* What the outbox promises.                                                *)

\* At most one job of a conversation is being worked on under a lease, across the
\* threads of both pools, so that summaries are not folded side by side.
SerialWithinConversation ==
  \A i, j \in Jobs :
    status[i] = "running" /\ status[j] = "running" /\ home[i] = home[j] => i = j

\* A job that reports success had its effect, whichever attempt produced it and
\* wherever the earlier ones crashed.
CompletedTookEffect ==
  \A j \in Jobs : status[j] = "completed" => j \in memory \cup patched

\* Once saved, the result of a job is applied by every later attempt: no worker, not
\* even one that lost its lease in the middle, replaces it.
ResultIsSavedOnce ==
  [][\A j \in Jobs : result[j] # None => result'[j] \in {result[j], None}
       /\ (result'[j] = None => status'[j] \in {"completed", "deleted"})]_vars

\* A completed or dead job never comes back to the queue, although retry_background_job
\* does not look at the status.
TombstonesStay ==
  [][\A j \in Jobs : status[j] \in {"completed", "dead"}
                        => status'[j] \in {status[j], "deleted"}]_vars

\* No job is under a lease while the user's data is being erased.
ErasureStopsJobs == erasing => \A j \in Jobs : status[j] # "running"

\* As long as some pool runs an outbox thread, every job is completed, quarantined or
\* deleted, unless an erasure holds it up: while the lock is there - for good, when the
\* process that took it is gone - the user's jobs wait; once it goes, they drain.
QueueDrains ==
  \A j \in Jobs :
    j \in Queued ~> j \notin Queued \/ erasing \/ \A p \in Pools : worker[p].step = "stopped"
=============================================================================
