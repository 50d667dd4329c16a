# RentCompass in TLA+

Specifications, model-checking configurations and proofs for the parts of RentCompass
(`src/`) whose correctness depends on interleaving, failure and time. Paths below are
relative to the repository; `conversation_store.py` stands for
`src/uk_rent_agent/web/conversation_store.py`.

## 1. The system

RentCompass is a conversational rental agent. Two *pools* (processes; the two sides of a
canary switch) serve the same users from one host. Each runs a Flask application
(`app/app.py`) behind an ASGI adapter, an agent graph on its own event loop, an
in-memory cache of conversations, and one background thread. They share SQLite files:
conversations, rate-limit events, tool invocations, long-term memory, checkpoints and
credentials. Nothing else coordinates the pools, so each promise about a conversation is
a promise about transactions of the shared store and about what a handler does between
two of them.

### Components

| Component | State | Operations | Interacts with |
|---|---|---|---|
| Request turns (`conversation_store.py`, `api_alex`) | `conversations`, `turns`, `messages`, `turn_requests`, `conversation_turn_leases`, `turn_snapshots`, `privacy_erasure_locks`; one HTTP worker per request | `start_request_turn`, `finalize_request_turn`, `fail_turn`, `get_request_turn`, `get_turn_response`, create, clear, delete, erase | agent graph, outbox, cache |
| Outbox (`background_jobs.py`, `conversation_store.py`, `_process_background_job`) | `background_jobs`; one thread per process | claim, save result, patch snapshot, complete, retry | LLM, long-term memory, snapshots, cache |
| Snapshots and hot cache (`session_store.py`, `_get_session`, `_write_back_turn`) | per-process LRU of `UserSession`; `turn_snapshots` | rehydrate, write back, build snapshot, patch summary, clear | turns, outbox |
| Privacy erasure (`forget_me`) | the lock row and five layers of data | begin, memory, checkpoints, relational, credentials, cache, end | every store |
| Branches (`fork_conversation`, `branch_for_edit`, `version_map`) | `conversations` lineage columns, copied turns, `fork_requests` | fork, edit, lineage, version map | turns, snapshots |
| Idempotency ledger (`tools/idempotency.py`) | `tool_invocations` | claim, complete, fail, mark unknown, read | tool system |
| Rate limiter (`web/rate_limit.py`) | `rate_limit_events` | allow | ASGI adapter |
| Graph runner pool (`app/app.py`) | two runners with a quarantine flag, the current runner | submit, time out, quarantine, heartbeat, recover | turns |
| Agent loop (`core/agent_loop.py`, `core/langgraph_agent.py`, `agent/critic.py`) | messages, artifacts, counters and deadlines of one turn | guard, agent, execute tools, critic, format | tools, LLM, ledger, policy |
| Manager and specialists (`core/specialist_runtime.py`, `agent/specialist_contracts.py`) | plans, tasks, lifecycle records | plan, dispatch, settle | agent loop |
| Tool policy, memory gate (`core/tool_policy.py`, `core/memory_gate.py`) | pending confirmation | classify, propose, confirm | agent loop, memory |
| Long-term memory (`rag/`) | memories, idempotency keys | remember, recall, forget | outbox, erasure |
| Checkpoints (`agent/persistence.py`), credentials (`web/auth_store.py`) | SQLite rows | read, write, delete | graph, erasure |
| Canary (`deploy/`, `core/canary_telemetry.py`) | nginx upstream, weights, telemetry | switch, gate, release, roll back | the two pools |
| Search, maps, commute, scraping, ranking, LLM clients, front end, evaluation | caches and external services | request and response | agent loop |

`PROJECT.json` lists every component with its sources and what is modelled.

### What is hard

* **Interleaving.** A store method is one transaction, but a handler calls several:
  it looks its request up, starts a turn, runs for a minute, finalizes, and may fail the
  turn. Everything else can run in between, in either pool.
* **Time.** A lease expires under a handler that is merely slow; its turn is given to
  another, and the first one comes back.
* **Loss.** A process dies, or a client hangs up, at any point; the client retries the
  same request id.
* **Other routes.** Clearing, deleting and erasing take no account of running handlers
  (the erasure does, once, at its start).
* **At-least-once jobs.** A worker dies between an effect and its record.
* **Copies.** Each process caches what the store holds and writes the cache back.

### What makes each component correct

* *Turns*: a conversation has one running turn; a request id has one turn; the answer,
  the verdict and the snapshot commit together; a verdict is revised by nobody but the handler
  that gave it; nothing commits during an erasure; no row refers to a row that is gone.
* *Outbox*: jobs of a conversation are serial; a completed job had its effect; a saved
  result is the one applied; settled jobs stay settled; an erasure sees no job at work;
  the queue drains.
* *Snapshots and cache*: no fold is lost, but by five races that can be named; what a turn reads
  is the end of the transcript.
* *Erasure*: success is claimed only when every layer is empty; what is needed for a retry
  survives a partial failure.
* *Branches*: one child per idempotency key; a child holds whole completed turns up to its
  cut; repeated edits of one position are one version group; what is remembered of its past, it sees.
* *Ledger*: a logical write runs at most once; an uncertain one is never retried.
* *Runner pool*: a quarantined runner gets no work; capacity returns when a runner does.
* *Agent loop*: it ends within its caps and budgets with an answer.

## 2. Modules

| Module | What it is |
|---|---|
| `ConversationTurns` | The life of a chat request, from the route to the shared store, for one user |
| `RequestLedger` | What the store promises a client about its request ids; `ConversationTurns` implements it |
| `ConversationTurns_proofs` | The inductive invariant of `ConversationTurns`, its theorems, and the refinement |
| `MCConversationTurns` | The symmetry of its runs |
| `Outbox` | The background jobs of one user and the two threads that consume them |
| `MCOutbox` | The symmetry of its runs |
| `RollingSummary` | What one conversation remembers: window, snapshot, slices and folds |
| `ToolWrites` | Calls of write tools, their pipelines, and the ledger of logical writes |
| `ToolWrites_proofs` | The inductive invariant of `ToolWrites` and its theorems |
| `MCToolWrites` | The symmetry of its run |
| `Outbox_proofs` | The inductive invariant of `Outbox` and its theorems |
| `PrivacyErasure` | `forget_me` and its layers, beside the writers and routes it meets |
| `PrivacyErasure_proofs`, `MCPrivacyErasure` | Its theorems; where the writers of its runs live |
| `BranchStore` | Forks, edits, version slots and lineage of one family of conversations |
| `BranchMemory` | `BranchStore` with the episodes of its turns: their jobs, and who sees them |
| `BranchStore_proofs` | The inductive invariant of `BranchStore`, the walks up a family, and the theorems of both |
| `AgentLoop` | One turn of the agent: rounds, batches, deadlines, saves, taint, critic |
| `AgentLoop_proofs` | The inductive invariant of `AgentLoop` and its theorems |
| `MemoryWrites` | Frozen saves, their confirmations and retries, and the records they become |
| `MemoryWrites_proofs`, `MCMemoryWrites` | Its theorems; the symmetry of its run |
| `GraphRunnerPool` | The event loops of the agent graph: quarantine, rotation, recovery |
| `ProcessMemory_proofs` | The inductive invariants of `RollingSummary` and `GraphRunnerPool` and their theorems |

Every table of the store is keyed by `user_id` and no statement of the modelled methods
joins two users, except the claim of a job, which serves all users in id order; so each
module models the rows of one user, and the outbox threads may also be started by others
(`StartThread`).

### ConversationTurns

`Handlers` are HTTP workers of either pool. A handler's record holds the step it has
reached, its request id, its conversation, its turn and the status code it means to send; a field that no
later step reads is `None`.

| Step | The code it stands at |
|---|---|
| `idle` → `resolving` (`Receive`) | `api_alex` has parsed the request |
| `resolving` (`Resolve`) | `get_request_turn`, then `get_conversation`, which drops an unknown id |
| `starting` (`StartClaims`, `StartRefuses`) | `start_request_turn`, with its checks in order: erasure lock (423), known request (replay), missing conversation (500), live lease (409) |
| `replaying` (`ReplayRead`) | `get_turn_response` of a settled turn |
| `running` (`RunGraph`) | the agent graph, the answer guards and the snapshot |
| `finalizing` (`FinalizeCommits`, `FinalizeTooLate`, `FinalizeRaises`, `FinalizeUnread`) | `finalize_request_turn`: commit, return a row that is no longer running, raise with nothing written, or raise at the `get_turn` after the commit |
| `failing` (`FailTurn`, `FailTurnRaises`) | `fail_turn` in the handler of a failed finalize, whatever the row is by then |
| `replied` (`Close`) | the response has left |

`Vanish` is a dead process or a client that hung up (`CancelledError` writes nothing).
`LeaseExpires` is the clock: `lapsed` holds the turns whose `expires_at` has passed.
The other routes are `CreateConversation`, `ClearConversation`, `DeleteConversation`,
`DeleteEverything`, `BeginErasure` and `EndErasure`; the DELETEs they share are one
operator, `DeleteRows`.

Abstractions: messages are told apart only by whether a turn has its assistant row
(`answer`); snapshots by whether there is one. `Resolve` merges two reads of the route:
conversations are only created and deleted, and an id that is deleted between the two
reads ends in the same 500 as one deleted after them. A failed turn is replayed with the code
it has at that moment. The checkpoints that clear and erase also touch are in
`PrivacyErasure`, the caches in `RollingSummary`.

### RequestLedger

Three variables: the fate of each request (new, running, overdue, completed, failed), the
request each conversation works on, and whether the user is closed for erasure. The
refinement maps a request to the status of the turn `turn_requests` gives it, with
"overdue" for a running turn whose lease has passed, and a conversation to the request of
its lease. The ledger says what no reading of one method tells: an admitted request is
displaced only when overdue, a request becomes new again only when the user deletes, and a
success becomes a failure only by `Withdraw`, which is the handler of the request that could
not read what it had committed. That step is in the ledger because the code takes it, not because anybody
wants it: a retry that came in between was told the success, and the one after it the failure (section 5).

### Outbox

A job has a status, a conversation, a kind, attempts, an owner (`claimed_by`), a saved
result, and two flags of time: `waiting` (`available_at` is ahead) and `lapsed`
(`lease_expires` has passed). A worker is a thread with the step it has reached in
`run_once` and `_process_background_job`, one store call per action:

`ClaimJob` (`claim_background_job`, which first gives lapsed jobs back) →
`Fold`, `SaveFold`, `PatchSnapshot` or, when an earlier attempt saved its result,
`ReuseFold`, `PatchSnapshot`; for a memory `RememberTurn`, `SaveStored` → `CompleteJob`.
Any of them may raise (`ProcessRaises`), and then `RetryJob` puts the job back with a
backoff or buries it, or fails itself (`RetryRaises`) and leaves the job to its lease.

`Crash` kills a process: its claims stay, under a `worker_id` that no new thread will have
(`Gone`). A new thread exists only after `FinalizeTurn` queues jobs in that process, or after
a turn of another user does (`StartThread`).

Abstractions: a summary is "the result of pool p" or nothing; the text is left to
`RollingSummary`. The hot cache that a summary job updates after the patch is left out. The store's
`INSERT OR IGNORE` on the dedupe key never ignores here: the key of a summary holds the
turn id and that of a memory the request id, a request has one turn
(`OneTurnPerRequest`, proved in `ConversationTurns_proofs`) and a turn finalizes once
(`SettledForGood`). An erasure ends or does not: the lock is `erasing`, and nothing is assumed
about its end.

### RollingSummary

One conversation, with what the two modules above leave out: the contents. A turn is its
number, a history is a sequence of turns, a summary is the set of turns it was folded
from. `said` are the turns with an assistant row in the order of their rows, `done` the completed ones, `latest` the
snapshot of the latest completed turn, `cache[p]` the slice of pool p in its `SessionStore`
(`warm` is `rehydrated`).

| Action | The code |
|---|---|
| `BeginTurn` | phase 1 of `handle_with_react_agent`, with the rehydration of `_get_session` |
| `WriteBack` | `_write_back_turn`: append, trim, queue what fell out |
| `BuildSnapshot`, `Finalize` | `_build_turn_snapshot_after_turn`, then the commit |
| `FinalizeFailed`, `FinalizeRaises`, `FinalizeUnread`, `HangUp` | the ways a turn ends without a success: a failure that is committed, a finalize that raises before or after its commit, a client that is gone |
| `FailTurn`, `Clear` | what the handler of a failed turn does afterwards, when the next turn may have begun: `fail_turn`, then `SessionStore.clear` |
| `Claim`, `Fold`, `FoldFails`, `SaveResult`, `PatchSnapshot`, `UpdateCache`, `Complete`, `Retry`, `BackoffEnds` | the `rolling_summary` branch of `_process_background_job`, one store call each |
| `Crash`, `Evict` | the end of a process; TTL and LRU |

`_get_session` is part of every action that calls it (`Sessions`, `GetSession`): a cold slice is filled from
the transcript and from the latest snapshot, either read may fail, and the slice counts as rehydrated all the
same.

It takes from the other modules that turns of a conversation follow one another
(`SingleFlight`; a turn here never outlives its lease, but a handler outlives its turn, in `closing`) and that its jobs run one at a time
(`SerialWithinConversation`; a worker here never outlives its own). A job raises fewer than
`max_attempts` times. `BuildSnapshot` merges the read of the revision and that of the
slice: a fold between the two gives the snapshot the older revision with the newer
summary, which no property here tells from a fold before both or after both. `Servers` are the pools the router sends the
conversation to, `Workers` those whose outbox thread runs: a pool that serves other users
of the shared store has one.

Three variables are histories with no counterpart in the code, and say how far its promises go. `astray`
are the pools whose slice was filled without all of the transcript, because a read failed or the turn under
way was not in it yet; `behind` those whose slice was warm when another pool committed a message. `races` collects the kinds
of things that are known to lose a turn:

* `stale slice`: a fold is patched while a pool other than the worker's has a warm slice, or a turn
  begins on a slice that is behind;
* `late snapshot`: a snapshot is built before a fold is in it, and committed after;
* `late result`: a fold is applied while an older result of a queued job waits to be;
* `failed turn`: a failed turn's message takes a place in a full window;
* `failure`: a read, a completion, a reply or a job that fails for good, or a slice cleared after the next
  turn has begun.

A race is noted when it becomes possible, not when it does harm. Everything else - turns that begin while
jobs are queued, jobs that overlap, wait and are claimed again, pools that work side by side, crashes,
evictions, finalizes that raise - is no race, and loses nothing.

### ToolWrites

A call has a pipeline (`Tool._execute_with_callable`, here or in the MCP server), a function
(the body, on a thread nothing can stop) and a caller. A key has a record in
`tool_invocations`; `lapsed` holds the keys whose lease has run out without anybody having
looked.

| Pipe | The code it stands at |
|---|---|
| `reading` (`ReadRecord`) | the first `get_record`: replay, refuse, or go on |
| `claiming` (`ClaimWins`, `ClaimLoses`), `lost` (`ReportLoss`) | `claim`, and the second `get_record` of a loser |
| `running` (`Complete`, `CompleteRaises`, `Fail`) | after the function: `complete`, `fail`, or the exception handler |
| `late` (`Fail`, `FailRaises`) | in that handler, after `complete` raised |
| `ended`, `dead` | answered; cancelled or gone with its process |

`CallerStops` is the loop that stops waiting for an offloaded call, whose pipeline goes on;
`CallerCancels` is the await that is cancelled, which marks the key unknown; `TransportFails` is
the MCP client, which freezes a key the server may not have come to; `ProcessDies` takes the
pipelines and functions of the process or of the server along. The function writes or refuses
in one step: what it writes is its own matter (`remember` deduplicates by content). Store
errors are modelled where they come after the write (`complete`, `fail`); before it they
change nothing.

A function that wrote and could not be completed is recorded as failed, although the loop
says of a write it "could not confirm" that it is never a clean failure
(`app/core/agent_loop.py:3037`). The ledger's promises do not depend on that: they are about
starting twice and about telling two stories. What the turn then records of the save is in `AgentLoop`
(`WritesAreNotMisreported`), and what the reply makes of that in section 5.

### PrivacyErasure

`BeginErasure` → `ListConversations` → `EraseMemory` → `EraseThread` for each conversation →
`EraseRows` or `RowsStay` → `EraseAccount` or `AccountStays` → `AnswerComplete` or
`AnswerPartial` → `EndErasure`, one action per layer of `forget_me`, each of which may succeed,
fail half-way, or be verified wrongly because somebody wrote in between; `failed` are the layers that were
not erased and verified. `ErasureRaises` is an exception outside the layers. The lock stays when the
process dies (`Crash`) or when its deletion raises (`EndErasureFails`); `orphaned` remembers that. What such a
failure leaves behind on the connection of the store, a transaction that is neither committed nor rolled
back, is not modelled.

The writers are chat turns and memory jobs. A claim is `held`, `lapsed`, `dropped` when a
route or an erasure has taken its row, or `ousted` when the erasure took it from a live worker whose lease
still ran, which can happen since it looks at one running job only (`NobodyWrites`). What a layer holds
is `held` when a writer with a claim put it there, `ousted` or `stray` when only writers without one
did. The distinction is what the erasure can promise: nothing stops a writer that lost its claim from
writing once more, and an ousted one has done nothing to lose it (section 5).

The rows of a conversation are its entry in `conv`; `there` are those an erasure found when it came to them. The
route that creates conversations does not look at the lock, so that `CompleteErases` can speak of `there` only.
The hot caches are process memory and left
out, except that a turn of the same process may re-make its slice before it is counted
(`AnswerPartial`).

### BranchStore

Conversations and turns are numbered in the order they are made; a copied turn keeps
`started_at` and points through `origin` to the turn that was lived. `CheckFork`, `CheckEdit` and
`ReadBefore` are the reads in front of a transaction, `CommitFork`, `CommitEdit` and
`CommitAborts` the transaction, since the process lock does not cover the other process.
`AcceptsTurns` is the trigger `turns_completed_requires_assistant_insert`. `Lineage` is
`get_branch_lineage`: each ancestor is cut by the start of the fork turn of its own child, whatever nearer
branches have cut off (`src/README.md:470` says otherwise, see section 5). A key that names a live branch is answered
from `fork_requests` and changes nothing, which the model leaves out as a step.

`BranchMemory` adds the episodes. `CompleteTurn` queues the `memory_turn` job with the answer, or does not (a
direct search); `RememberTurn` writes the episode, at any later time and perhaps twice; `WipeConversation` takes
the waiting jobs along, but not the one a worker holds; `LoseJob` is a job that ends without an episode, because
every attempt failed or an equal episode of another turn was found by its hash; `ForgetEpisode` is the cap.
`Visible` is what `AgentMemory._visible_in_lineage` leaves of the episodes, through the lineage of that
moment. `SeesItsPast` is about what is remembered: no episode of a branch's own or inherited turns is hidden from
it. That a turn is remembered at all, nothing in the code promises. Each episode comes and goes by
itself, and what the lineage shows of one does not depend on the others; `MaxEpisodes`, a bound of the run on
the episodes and jobs that are there together, is therefore 1.

`clean` and `wiped` are history variables: they tell whether a conversation above a branch was
cleared or deleted, after which the code promises less.

### AgentLoop

`node` is the node of the graph that runs, `now` the seconds of the turn. An action that awaits
moves `now` to any second its deadline leaves; the others take no time, but for `Slack` between a
plan and its dispatch. The knobs (`SoftWrap`, `Reserve`, `Crumb`, `MinBatch`, the budgets) are
constants; the code's values are hundreds of seconds and only their order matters.

| Action | The code |
|---|---|
| `GuardAnswers`, `GuardPasses` | the deterministic guards in front of the agent |
| `PromptFails`, `ResolvePendingMemory` | what the agent does before the model: the prompt, and a decision on a frozen save |
| `LimitAnswers`, `LimitFails`, `EnterLate` | the cap of rounds; a node entered after the soft wrap |
| `PlanBatch`, `Sweep`, `PlanAnswers`, `PlanAsks`, `PlanFails` | a plan of the model, with the calls the harness adds for cued dimensions |
| `RunNothing`, `SkipBatch`, `RunBatch` | a batch that repeats itself, is refused for want of time or budget, or is dispatched |
| `WrapUp` | the answer from what is there |
| `CriticPasses`, `CriticCaveats`, `CriticRewrites`, `Format` | the grounding check and the end |
| `Cancel`, `CancelBatch` | the ceiling of the whole turn, at any await |
| `LateFinish` | the thread of a save that nobody waits for any more |

A call is a tool with one digest of parameters; the model asks for at most `MaxAsked` at once, any
of them, any number of times. What a call may do is all an await may give: an answer, an error,
a time-out with or without a thread that goes on, or a refusal by policy or by the taint. A save that
ends in an error may have reached the memory (`ToolWrites!CompleteRaises`, or an output that does not fit its
model): `log` has what the artifact says, `landed` what is in the memory. `contract` is what the notice
at the end of the reply will say, saved or failed.

### MemoryWrites

`pending` is the ledger of frozen candidates of one conversation, one row per sentence. A
handler reads the newest row (`ReadLatest`), then claims the row of that digest (`Confirm`,
`Decline`, `ClaimedAlready`), waits (`HearSaved`, `HearFailed`, `TimesOut`) and puts a failed
candidate back under the next attempt (`Restore`), or cannot (`RestoreFails`, `CutOff`).
`AgentMemory.add` is `LookUp` and `Insert`, for each call at work, with another process between
the two; `StartAdd`, `Update` and `Delete` are what consolidation and other writes do to the records.
`frozen`, `used` and `settled` are history. The key of a confirmation goes to the ledger that
`ToolWrites` models; that it is fresh (`KeysAreFresh`) is what makes a confirmed retry run at all.

### GraphRunnerPool

A turn takes the published graph and its runner (`Ensure`), submits (`Submit`), and finishes or runs
into its deadline (`Expire`); then it puts the runner in quarantine (`Quarantine`) and, in a
second step under other locks, rotates (`Rotate`). A loop blocks and goes on (`Block`, `Unblock`); when it
answers its heartbeat the quarantine ends (`Recover`), and the callback restores it if there is no
current runner (`Restore`). Anything may run between these steps.

## 3. Runs

| Run | Instance | What it shows |
|---|---|---|
| `turns` | 2 handlers, 2 requests, 2 conversations, 3 turns | safety of turns and the refinement of `RequestLedger` |
| `outbox` | 2 jobs, 2 threads, 2 conversations, 2 attempts, 2 faults | serial claims, results saved once, tombstones, the barrier of the erasure |
| `outbox_drains` | 2 jobs, 2 threads, 1 conversation, 2 faults, fairness but not for the end of an erasure | the queue drains while a thread lives and no lock holds it up |
| `rolling` | 2 serving pools, 1 worker, window of 2, 4 turns, 2 faults, 1 failed turn, failed completions | a slice that no pool left behind is the end of the transcript; no turn is lost but by the named races |
| `tool_writes` | 3 calls, 2 keys, 2 faults | a key's function starts once, and callers are told the truth and one story |
| `erasure` | 2 processes, 2 writers, 1 conversation, 2 crashes or locks that stay, fairness | complete means empty, what a retry needs goes last, the lock comes off |
| `branches` | `BranchMemory`: 3 conversations, 5 turn rows of which 3 are lived, 2 processes, 1 clear or deletion, 1 episode at a time | what a branch holds is whole, is what it forked from, and what is remembered of it, it sees |
| `branches_lineage` | `BranchMemory`: 1 process, 3 conversations, 2 lived turns, nothing wiped | refutes "a fork sees only what it actually inherited" |
| `agent_loop` | 2 reads, 2 saves, 3 rounds, soft wrap and reserve of 2 s, budget 1, fairness | no call twice, deadlines that agree, saves reported as they are, the taint, grounding, the end |
| `memory` | 2 handlers, 2 sentences, 3 freezes, 3 decisions, 1 edit | order, fresh keys, one record per sentence, no candidate lost |
| `memory_saved` | 1 handler, 2 sentences, 2 freezes, 2 decisions, 1 edit | refutes "the frozen candidate was saved verbatim" |
| `runner_pool` | 3 turns, capacity 2, 3 runners, fairness | one generation, somebody restores, service comes back |

Bounds. Two handlers are enough for every conflict the store resolves, which is between
the holder of a row and one other; three turns let an abandoned turn, its successor and the
late return of the first meet. Two jobs give the pairs that serial claims, the
`LIMIT 1` of the erasure and the order of ids depend on. `MaxFaults` bounds crashes,
overrun leases, failed retries and erasures together; a lease that lapses with nobody at work
is not a fault and not bounded. `MaxAttempts` is 2: a first attempt, a retry, and burial.
`attempts` stops counting there, since the code only compares it with the maximum.
In `RollingSummary` a window of two is full after two turns, so that four turns queue two
jobs, which can overtake each other by a backoff; both pools serve, one of them has the worker, and each of
the five races occurs. In `ToolWrites` two calls race for a
key and the third comes when they are over; two faults let a connection fail and a store error
follow, and callers and leases are not bounded.

In `PrivacyErasure` the second writer is there because the check of the erasure looks at one
running job, and the second process for a second erasure, which may be a retry; both may work again and again.
`MaxFaults` is 2: the process of an erasure may die, or its lock stay, beside another fault. A lock
that stays ends the run of erasures, but not of writers and routes. One conversation is enough for what the
properties say of each; lists of several are left to the proofs. In `BranchStore`, `MaxConvs`, `MaxTurns`, `MaxStarts` and `MaxWiped` bound
conversations, rows, lived turns and clears or deletions; three conversations are a branch of a
branch, or two versions of one slot. `Keys` is empty in `branches`: a key only replays a branch that
exists, which changes nothing; `branches_lineage` has one. `MaxFreezes` of 3 is a candidate, one that is frozen while the
first is being saved, and a re-freeze of either; an edit is an add, an update or a deletion.
`MaxCalls` bounds recovery callbacks of one runner that wait together.

In `AgentLoop` the clock runs to 5 (soft wrap + reserve + crumb), which leaves a second on each side of every
edge; three rounds are a batch, one more, and the cap. A budget of one call beside batches of two
makes both limits bite. `Refused` is empty: a refusal by policy is the same as one by taint, which
happens.

Symmetry permutes handlers, requests, conversations and turns (turns), pools and
conversations (outbox), calls and keys (tool writes), and handlers (memory); the other runs use none,
those with a liveness property in particular.

Fairness. `outbox_drains`: the thread's loop has no exit but the death of its process
(`_run` catches everything), and a lease and a backoff are real time. That an erasure ends is not
assumed, since nothing lifts the lock of a process that died; `QueueDrains` exempts the jobs it holds
up, and asks that they drain once it is gone. `erasure`: a request that is being served goes on to its end; nobody need come. `agent_loop`:
the turn takes a step, since every await has a deadline and the whole turn a ceiling; which step is not
said. `runner_pool`: a turn's thread goes on and its deadline passes, a blocked loop goes on at last
(the calls of the tools have time limits of their own), answers its heartbeat and runs its callback.

Deadlock is checked in `turns`, `outbox`, `outbox_drains`, `rolling` (which ends in `Finished`), `tool_writes`,
`agent_loop` (`Ended`) and `runner_pool`. It is not in `erasure`, `branches`,
`branches_lineage`, `memory` and `memory_saved`, where the
system rests once every bound is used up and nobody has anything to do.

## 4. What is proved

Eight modules have theorems, each for every value of its constants. Each rests on an invariant
`IInv` that is inductive (`Init => IInv`, `IInv /\ [Next]_vars => IInv'`), from which the safety and
the action properties follow.

`ConversationTurns_proofs`, assuming only that `None` is no conversation, turn or
request: `TypeCorrect`, `SingleFlightHolds`, `NoOrphanRowsHolds`, `OkIsDurableWithinLeaseHolds` and
`SettledForGoodHolds`, which `turns` checks, and `OneTurnPerRequestHolds`,
`CompletedIsDurableHolds`, `NoLiveTurnIsStolenHolds` and `ErasureBarrierHolds`, which no run checks:
each is a step on the way to the others, or follows from the refinement. `IInv` adds what ties the
pieces together:

* `TypeInv`: types, and that a handler past a step has the fields that step filled;
* `RowsInv`: a turn with a row has a live conversation, a request, and is the turn of that
  request; and back;
* `LeaseInv`: a turn is running exactly when its conversation's lease names it;
* `OwnerInv`: a handler that will still write its turn is the only one, and the turn is
  running, deleted, or failed after its lease lapsed - or settled by the handler itself, which raised after
  its commit and is about to fail the turn;
* `ReplyInv`: what a handler has decided to answer agrees with the rows.

`OwnerInv` bounds the harm of `fail_turn`, an UPDATE without a condition: the only completed turn
it can fail is one that its own handler completed and could not read (`FinalizeUnread`), before it has
answered. `SettledForGood` says so, and `CompletedIsDurable` what is then left: a snapshot always comes with its
answer and a verdict, which need not be a success any more. `LeaseInv` is what makes the erasure check of the
leases a check of the turns.

`ImplementsLedgerHolds` is the refinement of `RequestLedger`, which `turns` checks as a property.
`FateOfTurn` and `FlightOfLease` read the mapping off the invariant: the fate of a request is the status
of the one turn that stands for it, and a flight is the request of a turn that runs. Then each kind of
step is a step of the ledger or leaves both functions alone (`ClaimAdmits` and the lemmas beside it,
`StepRefines`); a `FailTurn` of a completed turn is `Withdraw`. One more invariant is needed, `LapsedInv`: a lease lapses only of a turn that was granted
one, so that a new turn is never overdue at once.

`ToolWrites_proofs`, assuming that `None` is no key and `Calls` finite: `TypeCorrect`, `AtMostOnceHolds`,
`SuccessIsWrittenHolds`, `AnswersAgreeHolds` and `OutcomesAreFinalHolds` (the last in no run: a
known outcome never changes, the reason why the others hold). Its invariant says that a started
key stays taken (`StartInv`), that the record of a running function is running or unknown, so that
only its own pipeline can settle it (`OwnerInv`), that a complete record stands for a write
(`CompleteInv`), and that once a caller was told, the record has no owner left to contradict it
(`AnswerInv`). The proof sorts the actions into a few kinds (`Looks`, `Wins`, `Passes`,
`Completes`, `Fails`, `Freezes`) and keeps each part of the invariant for each kind.

`Outbox_proofs`, assuming that the bounds are numbers (`BoundsAreNat`) and that `None` and `Gone` are fresh names:
`SerialWithinConversationHolds`, `CompletedTookEffectHolds`,
`ErasureStopsJobsHolds`, `ResultIsSavedOnceHolds` and `TombstonesStayHolds`. The invariant says what a
worker at each step has made true of its job (`Effects`), and that a worker that still owns its
job knows whether a result was saved (`Known`); without it `SaveFold` could replace one.

`PrivacyErasure_proofs`, for any processes, writers and faults: `RowsOutliveThreadsHolds`,
`CompleteErasesHolds`, `CredentialsGoLastHolds` and `OneErasureAtATimeHolds` (in no run). The
invariant says that behind the lock nobody has a claim and a claim has rows (`LockInv`), so that layers already
emptied can only receive writes of writers that lost theirs. `Progress` says what an erasure has behind it at
each step while no layer has `failed`: the memory (`MemoryIsGone`), the threads, which before that are all on
its list (`ThreadsAreListed`, `ThreadsAreGone`), the rows it found (`RowsAreGone`) and the account
(`AccountIsGone`). `CompleteErases` and `CredentialsGoLast` have a conjunct for each; that the rows go before
the account rests on `relational_ok` being asked (`AccountMayGo`). None of it depends on the lock ever coming
off.

`AgentLoop_proofs`, for any calls, any classification of them and any knobs that are numbers of
seconds in the order the code has them (`KnobsAreSeconds`): `NoCallRunsTwiceHolds`, `RefusedBatchIsTheLastHolds`,
`WritesAreNotMisreportedHolds`, `UngroundedIsMarkedHolds`, `GateSeesTheTaintHolds`. A save that is logged ok
has taken effect, one that was refused never has, now or later; of one that ended in an error nothing is
claimed but that it is over. The invariant adds that what was
dispatched has an artifact (`Recorded`), that what was shown has tainted the state
(`TaintStays`), that a batch is planned before the edge (`PlannedInTime`) and refused only past it
(`EdgePassed`). `NothingRunsPastTheEndHolds` has a hypothesis, `DispatchIsPrompt`: what passes between
a plan and its dispatch fits between the edge and the hard end. The code has no timer there, only
synchronous lines, and its knobs leave 8 s for them (a minimal batch of 2 s and a reserve of 6.5 s less
0.5 s); a process that stalls for longer refuses the batch after the hard end. The run has
`Slack` 1 and a margin of 2.

`MemoryWrites_proofs`: `RestoredInOrderHolds`, `OneRecordPerHashHolds`, `KeysAreFreshHolds`,
`NoCandidateIsLostHolds`.
The invariant: a candidate keeps the time it was frozen at (`OrderInv`), is in the ledger or in one
hand (`OneHolder`), its used keys are behind its attempt (`KeyInv`), and the id of a record is made of
its hash (`IdInv`), which is why a second process cannot insert it again. For the last theorem a candidate
also says what was frozen under its number (`ContentInv`): only then is the row a handler deletes by digest
the candidate it settles, and a restore brings back what was taken (`LossStep`, one case per action that
takes a candidate out of sight).

`BranchStore_proofs`, for any processes, keys and numbers of conversations, turns and clears: `NoHalfTurnsHolds`,
`InheritsUpToTheCutHolds`, `SameSlotSamePastHolds`, and for `MemorySpec` `MemoryTypeCorrect` and
`SeesItsPastHolds`. Episodes come and go without touching a table (`MemoryStep`), so that `BranchMemory` has the
invariant of `BranchStore`. It has three layers.

* `Shape`, about the tables: ids are given away in order and what was not made is blank; a completed turn is
  whole, and rows are lost only in a wiped conversation (`TurnInv`); the turns of a conversation are
  apart in time and the one that runs is the last (`InTime`); a copy goes back to one lived turn with
  its time (`OriginInv`); a branch comes after its parent and its fork turn lies there (`ParentInv`).
* `LinkInv` and `SlotInv`, about pasts: what a branch has inherited its parent has, up to the fork turn, and
  its own turns are later; a version of a slot has the past of the message the slot is named for.
* `ProcInv`, about processes: what was read before the transaction is still true of a source nobody has
  wiped. This is where the other process matters: between the reads of an edit and its commit turns may
  start and end in the source, but they are all later than the edited one (`CompletedKept`, `EarlierKept`).

`SlotIsRight` is the crux of `SameSlotSamePast`: `_resolve_slot_anchor` passes the slot on only when the edited
turn is the first of the branch's own, and then what comes before it is exactly what was inherited
(`FirstFreshIsFirst`). For `SeesItsPast` the recursive walks `Lineage` and `Ancestors` have to be unfolded. The
library's induction theorem takes an operator and cannot be cited; `LeastNumber`, that a set of numbers has a least,
is first-order and can. It is derived from the well-foundedness of inclusion on finite sets, and used for the
ids of rows (`Numbered`), for the last inherited turn (`GreatestNumber`), to show that the two walks
end (`AncestorsWalk`, `LineageWalk`), and for the induction over the depth of a branch (`ReachStep`).

`ProcessMemory_proofs` is about what a process keeps in memory and has two parts that share no state (the
definitions of `GraphRunnerPool` are named so that one module can extend both).

Of `RollingSummary`, for any pools, servers, workers, windows and bounds: `TypeCorrect` (which also
says that every window is ascending and no longer than `Window`), `TurnReadsTheTranscriptHolds` and
`FoldsAreKeptHolds`. The invariant has three layers.

* `TypeInv`: types, and that nothing in a slice comes after the turn that is being served (`TurnInv`,
  `PastInv`), that a worker has a running job and applies what it saved (`WorkInv`), and that a job belongs
  to a turn that was answered (`JobInv`).
* `WindowInv`: a slice of a server that is not `behind` and not `astray` (`Settled`) holds `Expected`, the end
  of the transcript, and from `WriteBack` to the end of the turn that with the turn appended. It
  holds whatever races.
* `RaceInv`: until the first race, `QuietInv`. The turn at work has a slice that is warm and right, and what it
  pushes out of the window is in what it queues (`Sound`); every slice, the snapshot being built, the results
  that wait and the worker agree on the latest summary, up to the turns of the job they belong to (`Agreed`, of
  `SlicesAgree`, `SnapshotAgrees`, `JobsAgree`, `WorkAgrees`); and a completed turn is in the window, in the
  summary or in what a queued job will fold (`Carried`, `Owed`).

The transcript is never trimmed and the slice always is, once per turn; that both give the same window is
`HotAppend`: to trim, append and trim again is to append and trim. There is no hypothesis about the number of
servers and none about the order of turns and jobs: turns begin while jobs wait, and pools work side by side.
What is exempt is named by `behind`, `astray` and `races`, and each of the five races by itself loses a turn
(section 5).

Of `GraphRunnerPool`, for a capacity of two or more (the code has 2): `OneGenerationHolds` and
`SomebodyRestoresHolds`. The invariant adds that a turn past `Ensure` knows its runner and that
only runners of the pool have callbacks.

Every safety and action property that a passing run checks is stated by a theorem. Model-checked only is
liveness (`QueueDrains`, `BarrierIsLifted`, `Terminates`, `ServiceComesBack`), which is out of the prover's
reach.

## 5. Disagreements between the code and its words

Two are runs that TLC refutes; `PROJECT.json` ("findings") quotes the lines.

1. *A branch of a branch sees too much* (`branches_lineage`). The cut of an ancestor comes from its
   own child alone, so a fork at an inherited turn still retrieves memories of the turns after that turn
   and before the first fork; `README.md:470` promises "branch-lineage scoping so a fork sees only what it
   actually inherited".
2. *A confirmed sentence is not saved* (`memory_saved`). A consolidation rewrites a record and
   leaves its hash; confirming the old sentence again finds the hash and reports a success.

The others are limits of the code that the modules show, each through the condition or the exemption a
property needs; no run is kept for them.

3. *A success becomes a failure.* `finalize_request_turn` runs `get_turn` after its commit
   (`conversation_store.py:987`). When that raises, the route fails the turn it has just completed
   (`app/app.py:1956`): a retry in between is told 200 and the client 502, although "the durable turn_requests
   row makes retries idempotent across processes" (`conversation_store.py:595`). The failed turn keeps its
   snapshot. `SettledForGood` and the ledger's `Withdraw` say that nothing else revises a verdict.
4. *Clearing a conversation lets two turns of it execute.* `clear_conversation_messages`
   (`conversation_store.py:489`) and the deletes drop the lease of a running turn; its handler goes
   on. The store stays sound (`NoOrphanRows`, `SingleFlight`), but both handlers run the agent on the
   same checkpoint thread, against `conversation_store.py:596`.
5. *A 200 without a snapshot.* `finalize_request_turn` returns a turn that is no longer running
   (`conversation_store.py:900`) and the route does not look (`app/app.py:1936`); the client is told
   200 with an answer no later turn will know. `OkIsDurableWithinLease` is the part that holds.
6. *A retry is told 409 for ever.* The replay check (`app/app.py:1751`) comes before the reclaim, so
   the client that lost its handler cannot recover under the same request id; a different request can.
7. *Queued jobs wait for a turn.* Nothing starts the outbox thread when a process starts
   (`app/app.py:1967`); `QueueDrains` says "or every thread is stopped".
8. *The erasure lock has no expiry* (`conversation_store.py:809`). A process that dies in `forget_me`, or whose
   `end_privacy_erasure` raises (`conversation_store.py:817`), leaves turns, jobs and later erasures of the user
   refused for good. `BarrierIsLifted` says that nothing else leaves it, and `QueueDrains` exempts the lock.
9. *The erasure looks at one job* (`conversation_store.py:775`). A second running job is put back under
   its worker's feet, although its lease runs and its worker lives (`ousted`). `ErasureStopsJobs` still holds and
   the worker's later writes to the job fail, but its patch or its memory write can land during the erasure and
   after its answer, which `CompleteErases` exempts.
10. *Conversations are created during an erasure.* `create_conversation` does not look at the lock
    (`conversation_store.py:264`, unlike `start_request_turn` at 617); one that is created after the rows were
    erased outlives a complete answer. `CompleteErases` speaks of the rows that were there.
11. *Folds are lost.* Each of the five races of `FoldsAreKept` does so by itself: a pool that builds its snapshot
    from a slice that another pool's fold never reached (`app/app.py:2597`, the slice is not read again at 1107);
    a snapshot built before a fold and committed after it, which replaces the latest one as a whole
    (`app/app.py:2529`); a job that is retried with a result computed before a later fold
    (`conversation_store.py:1107`, 1123); a failed turn, whose message takes a place in the window of the
    transcript (`conversation_store.py:561`) while the slice that dropped a turn for it is cleared
    (`app/app.py:1962`); and reads, completions or jobs that fail.
12. *A pool switch does not rebuild hot state.* Only the stamp is reconciled (`app/app.py:1106`); the pool's slice
    stays as it was for as long as it is warm, and a turn there reads a window from before the turns of the
    other pool. `TurnReadsTheTranscript` exempts such slices (`behind`).
13. *A failed read stays.* When the transcript cannot be read, the slice is left empty and marked as
    rehydrated (`app/app.py:1157`), so that the next turns read a conversation without a past (`astray`).
14. *A complete erasure leaves the slices of the other process* (`app/app.py:4036`).
15. *A recovered runner may idle.* When a heartbeat is answered before the turn that timed out
    rotates, the callback finds a current runner and does nothing; the rotation then takes that runner
    away although it is available again, and with the other one in quarantine leaves none. Turns are refused
    until the other recovers, which is what `SomebodyRestores` and `ServiceComesBack` need.
16. *A save that may have happened is announced as failed.* The artifact of a timed-out save says
    "write outcome unknown" (`app/core/agent_loop.py:3040`), and one whose completion raised after the write
    says it failed (`app/core/tool_system.py:707`); the notice of the reply knows saved and failed only
    (`app/core/memory_contract.py:50`). `WritesAreNotMisreported` is about the artifact, and claims nothing of
    an error.

## 6. Plan and limits

The plan is done, of modules (turns, outbox, rolling summary, ledger, erasure, branches, confirmed
saves, runner pool, agent loop) and of proofs.

### Not modelled

The models cover the code that keeps state across steps, processes and failures; that is a small
share of the repository's lines. The larger share is
computation over text and external data, in one call, which a model checker does not reach usefully:

* Search, scraping, maps, commute, safety, ranking and their caches: parsing, geometry, scoring and
  formatting of answers of services. `AgentLoop` has each as a call with every outcome.
* The prompts, the texts of answers, the cards, and the recognisers that match them (guards, cues,
  confirmations): text. The modules take either verdict.
* The nodes of the older graph in `langgraph_agent.py`, kept beside the loop that serves, and the
  human-in-the-loop interrupt.
* Specialists: an alternative dispatch of the reads of a batch, off by default.
* The rate limiter: one transaction that deletes, counts and inserts, with one window for all callers.
* LLM routing, MCP transport, front end and ASGI adapter: transport. A call is an answer, an error or a
  time-out.
* Recall, importance, decay and reflection of memories: scoring.
* `version_map`: a listing of the slots `BranchStore` has.
* Canary scripts, backup and migration: run one at a time by an operator.
* Evaluation, benchmarks, graders and fine-tuning: offline, and the largest part of the code.
