--------------------------- MODULE PrivacyErasure ---------------------------
(***************************************************************************)
(* POST /api/forget_me: one user's data lies in several layers (long-term  *)
(* memory, checkpointer threads, relational rows, credentials), which are  *)
(* erased one after another, each possibly without success.  Beside it run *)
(* the writers it has to keep out (chat turns, memory jobs), those whose   *)
(* claim has lapsed and that write all the same, and the routes that       *)
(* delete conversations.  The hot caches live and die with their process   *)
(* and are left out, but for the answer the last layer may still spoil.    *)
(*                                                                         *)
(* What a layer holds is told by its writers: "held" when one of them had  *)
(* its claim in the store at the time; else "ousted" when one of them had  *)
(* a live lease that an erasure took from it; else "stray", when every one *)
(* had overrun its lease or lost its conversation.  A turn and a           *)
(* memory_turn job are claimed and dropped alike; only what they write     *)
(* differs.  The rows of a conversation stand for all tables of the store. *)
(***************************************************************************)
EXTENDS Naturals, FiniteSets

CONSTANTS
  Pools,        \* serving processes
  Writers,      \* handlers and outbox threads that may write the user's data
  Home,         \* the process of every writer
  Convs,        \* conversation ids, never handed out twice
  None,
  MaxFaults     \* bound: how many times a process dies or the lock cannot be deleted

ASSUME FaultsAreCounted == MaxFaults \in Nat
ASSUME WritersLiveInPools == Home \in [Writers -> Pools]

VARIABLES
  conv,         \* the rows: "deleted" by a route, "erased" by an erasure
  account,      \* the user has a row in the authentication store
  barrier,      \* the user has a row in privacy_erasure_locks
  thread,       \* checkpointer: what the thread of a conversation holds
  memory,       \* AgentMemory: what the user's records are
  writer,       \* what every writer does
  dropping,     \* threads that a delete or clear route has still to drop
  step,         \* per process: where its forget_me is
  todo,         \* the conversations listed whose thread is still to be deleted
  failed,       \* the layers that were not erased and verified: not memory_ok, ...
  there,        \* the rows that were there when the erasure came to them
  said,         \* what the process's last erasure has answered
  orphaned,     \* the request that took the lock has ended and left it
  faults

layers  == <<conv, account, thread, memory>>
request == <<step, todo, failed, there, said>>
vars    == <<layers, barrier, writer, dropping, request, orphaned, faults>>

Marks  == {"nothing", "stray", "ousted", "held"}
Phases == {"listing", "memory", "threads", "account", "slices", "releasing"}
Layers == {"memory", "threads", "rows", "account"}
Claims == {"held", "lapsed", "dropped", "ousted"}
Kinds  == {"turn", "memory_turn"}

Working(k, c) == [kind |-> k, conv |-> c, claim |-> "held", alive |-> TRUE]
Work    == [kind : Kinds, conv : Convs, claim : Claims, alive : BOOLEAN]
Resting == [kind |-> None, conv |-> None, claim |-> None, alive |-> TRUE]

TypeOK ==
  /\ conv     \in [Convs -> {"unused", "live", "deleted", "erased"}]
  /\ account  \in BOOLEAN
  /\ barrier  \in BOOLEAN
  /\ thread   \in [Convs -> Marks]
  /\ memory   \in Marks
  /\ writer   \in [Writers -> Work \cup {Resting}]
  /\ dropping \subseteq Convs
  /\ step     \in [Pools -> Phases \cup {"idle"}]
  /\ todo     \in [Pools -> SUBSET Convs]
  /\ failed   \in [Pools -> SUBSET Layers]
  /\ there    \in [Pools -> SUBSET Convs]
  /\ said     \in [Pools -> {"nothing", "complete", "partial"}]
  /\ orphaned \in BOOLEAN
  /\ faults   \in 0 .. MaxFaults

Init ==
  /\ conv     = [c \in Convs |-> "unused"]
  /\ account  = TRUE
  /\ barrier  = FALSE
  /\ thread   = [c \in Convs |-> "nothing"]
  /\ memory   = "nothing"
  /\ writer   = [w \in Writers |-> Resting]
  /\ dropping = {}
  /\ step     = [p \in Pools |-> "idle"]
  /\ todo     = [p \in Pools |-> {}]
  /\ failed   = [p \in Pools |-> {}]
  /\ there    = [p \in Pools |-> {}]
  /\ said     = [p \in Pools |-> "nothing"]
  /\ orphaned = FALSE
  /\ faults   = 0

Live == {c \in Convs : conv[c] = "live"}
-----------------------------------------------------------------------------
(* The writers.                                                             *)

Busy(w)    == writer[w] # Resting
Alive(w)   == Busy(w) /\ writer[w].alive
Gone(w)    == writer[w].claim \in {"dropped", "ousted"}
Marked(w, mark) ==
  IF ~Gone(w) \/ mark = "held" THEN "held"
  ELSE IF "ousted" \in {writer[w].claim, mark} THEN "ousted" ELSE "stray"
Rest(w)    == writer' = [writer EXCEPT ![w] = Resting]

\* The claims in S are taken away; a writer that died with its own is forgotten.
Dropped(S) ==
  [w \in Writers |->
     IF w \notin S \/ ~Busy(w) \/ Gone(w) THEN writer[w]
     ELSE IF writer[w].alive THEN [writer[w] EXCEPT !.claim = "dropped"]
     ELSE Resting]

Claiming(k, c) == {w \in Writers : Busy(w) /\ writer[w].conv = c /\ writer[w].kind = k}

CreateConversation(c) ==
  /\ conv[c] = "unused"
  /\ conv' = [conv EXCEPT ![c] = "live"]
  /\ UNCHANGED <<account, thread, memory, barrier, writer, dropping, request, orphaned, faults>>

NoBarrier == ~barrier

\* start_request_turn or claim_background_job: a live claim of the conversation
\* refuses, a lapsed one is taken away.
Start(w, k, c) ==
  /\ ~Busy(w)
  /\ NoBarrier
  /\ conv[c] = "live"
  /\ \A v \in Claiming(k, c) : writer[v].claim # "held"
  /\ writer' = [Dropped(Claiming(k, c)) EXCEPT ![w] = Working(k, c)]
  /\ UNCHANGED <<layers, barrier, dropping, request, orphaned, faults>>

\* The graph checkpoints its state under the thread of its conversation.
WriteThread(w) ==
  /\ Alive(w) /\ writer[w].kind = "turn"
  /\ thread' = [thread EXCEPT ![writer[w].conv] = Marked(w, @)]
  /\ UNCHANGED <<conv, account, memory, barrier, writer, dropping, request, orphaned, faults>>

\* A remember call of the graph, or the remember_turn of a job.
WriteMemory(w) ==
  /\ Alive(w)
  /\ memory' = Marked(w, memory)
  /\ UNCHANGED <<conv, account, thread, barrier, writer, dropping, request, orphaned, faults>>

\* The turn is finalized or the job completed, or neither finds its row any more.
Finish(w) ==
  /\ Alive(w)
  /\ Rest(w)
  /\ UNCHANGED <<layers, barrier, dropping, request, orphaned, faults>>

Lapse(w) ==
  /\ Busy(w) /\ writer[w].claim = "held"
  /\ writer' = [writer EXCEPT ![w].claim = "lapsed"]
  /\ UNCHANGED <<layers, barrier, dropping, request, orphaned, faults>>
-----------------------------------------------------------------------------
(* The routes that delete or clear conversations.  None looks at the lock.  *)

ClaimsOn(cs) == {w \in Writers : Busy(w) /\ writer[w].conv \in cs}

\* DELETE /api/conversations/<cid>, or clear_history with or without an id: the
\* rows, and the claims with them, go first.
DeleteRows(cs, after) ==
  /\ cs # {} /\ cs \subseteq Live
  /\ conv' = [c \in Convs |-> IF c \in cs THEN after ELSE conv[c]]
  /\ writer' = Dropped(ClaimsOn(cs))
  /\ dropping' = dropping \cup cs
  /\ UNCHANGED <<account, thread, memory, barrier, request, orphaned, faults>>

DeleteConversation(c) == DeleteRows({c}, "deleted")
ClearConversation(c)  == DeleteRows({c}, "live")
ClearHistory          == DeleteRows(Live, "deleted")

\* Then, if it can be had, the thread: the route ignores what
\* _delete_checkpoint_thread answers.
DropThread(c) ==
  /\ c \in dropping
  /\ dropping' = dropping \ {c}
  /\ \E left \in {"nothing", thread[c]} : thread' = [thread EXCEPT ![c] = left]
  /\ UNCHANGED <<conv, account, memory, barrier, writer, request, orphaned, faults>>
-----------------------------------------------------------------------------
(* forget_me.                                                               *)

Goto(p, s) == step' = [step EXCEPT ![p] = s]

\* One layer was tried.  Mutated: nobody looks at how deleting the threads went.
ThreadsUnchecked(p, layer, erased) ==
  failed' = [failed EXCEPT ![p] = IF erased \/ layer = "threads" THEN @ ELSE @ \cup {layer}]
Tried(p, layer, erased) ==
  failed' = [failed EXCEPT ![p] = IF erased THEN @ ELSE @ \cup {layer}]

LockIsFree == ~barrier

\* No turn of the user has a live lease, and neither has the one running job that
\* the code looks at (ORDER BY id LIMIT 1: here, some running job).
Claimants(k) == {w \in Writers : Busy(w) /\ writer[w].kind = k /\ ~Gone(w)}
NobodyWrites ==
  /\ \A w \in Claimants("turn") : writer[w].claim = "lapsed"
  /\ Claimants("memory_turn") = {} \/ \E w \in Claimants("memory_turn") : writer[w].claim = "lapsed"

\* All claims go, those of jobs that are still leased with the rest.
Ousted ==
  [w \in Writers |->
     IF Alive(w) /\ writer[w].claim = "held" THEN [writer[w] EXCEPT !.claim = "ousted"]
     ELSE Dropped(Writers)[w]]

\* begin_privacy_erasure: 409 while another erasure or a live claim is there;
\* lapsed turns fail, running jobs wait again, and new ones are refused from here.
BeginErasure(p) ==
  /\ step[p] = "idle"
  /\ LockIsFree
  /\ NobodyWrites
  /\ writer' = Ousted
  /\ barrier' = TRUE
  /\ Goto(p, "listing")
  /\ UNCHANGED <<layers, dropping, todo, failed, there, said, orphaned, faults>>

ListConversations(p) ==
  /\ step[p] = "listing"
  /\ todo' = [todo EXCEPT ![p] = Live]
  /\ Goto(p, "memory")
  /\ UNCHANGED <<layers, barrier, writer, dropping, failed, there, said, orphaned, faults>>

\* AgentMemory.forget, then an inventory that must find nothing: an exception at
\* either, or a record that was written between the two, fails the layer.
EraseMemory(p) ==
  /\ step[p] = "memory"
  /\ Goto(p, "threads")
  /\ \E left \in {"nothing", memory}, counted \in BOOLEAN :
       /\ memory' = left
       /\ Tried(p, "memory", counted /\ left = "nothing")
  /\ UNCHANGED <<conv, account, thread, barrier, writer, dropping, todo, there, said, orphaned, faults>>

\* _delete_checkpoint_thread for one of the conversations listed.
EraseThread(p, c) ==
  /\ step[p] = "threads" /\ c \in todo[p]
  /\ todo' = [todo EXCEPT ![p] = @ \ {c}]
  /\ \E left \in {"nothing", thread[c]}, seen \in BOOLEAN :
       /\ thread' = [thread EXCEPT ![c] = left]
       /\ Tried(p, "threads", seen /\ left = "nothing")
  /\ UNCHANGED <<conv, account, memory, barrier, writer, dropping, step, there, said, orphaned, faults>>

ThreadsAreDone(p) == step[p] = "threads" /\ todo[p] = {}

RowsMayGoAnyway(p) == TRUE      \* mutated: the rows are not kept for a retry
RowsMayGo(p) == failed[p] = {}

\* delete_all_user_data: everything or, when it raises, nothing.
EraseRows(p) ==
  /\ ThreadsAreDone(p) /\ RowsMayGo(p)
  /\ Goto(p, "account")
  /\ there' = [there EXCEPT ![p] = Live]
  /\ conv' = [c \in Convs |-> IF c \in Live THEN "erased" ELSE conv[c]]
  /\ writer' = Dropped(Writers)
  /\ UNCHANGED <<account, thread, memory, barrier, dropping, todo, failed, said, orphaned, faults>>

RowsStay(p) ==
  /\ ThreadsAreDone(p)
  /\ Goto(p, "account")
  /\ there' = [there EXCEPT ![p] = Live]
  /\ Tried(p, "rows", FALSE)
  /\ UNCHANGED <<layers, barrier, writer, dropping, todo, said, orphaned, faults>>

\* Mutated: the credentials do not wait for relational_ok.
AccountMayGoBefore(p) == failed[p] \subseteq {"rows"}
AccountMayGo(p) == failed[p] = {}

\* delete_user_id, then an inventory that may raise.
EraseAccount(p) ==
  /\ step[p] = "account" /\ AccountMayGo(p)
  /\ Goto(p, "slices")
  /\ account' = FALSE
  /\ \E counted \in BOOLEAN : Tried(p, "account", counted)
  /\ UNCHANGED <<conv, thread, memory, barrier, writer, dropping, todo, there, said, orphaned, faults>>

AccountStays(p) ==
  /\ step[p] = "account"
  /\ Goto(p, "slices")
  /\ Tried(p, "account", FALSE)
  /\ UNCHANGED <<layers, barrier, writer, dropping, todo, there, said, orphaned, faults>>

\* The hot cache of this process, then the answer: 200 complete or 503 partial.
\* A turn of this process may make its slice again before the slices are counted.
Answer(p, word) ==
  /\ step[p] = "slices"
  /\ Goto(p, "releasing")
  /\ said' = [said EXCEPT ![p] = word]
  /\ UNCHANGED <<layers, barrier, writer, dropping, todo, failed, there, orphaned, faults>>

AnswerComplete(p) == failed[p] = {} /\ Answer(p, "complete")

AnswerPartial(p) ==
  /\ failed[p] = {} => \E w \in Writers : Alive(w) /\ Home[w] = p /\ writer[w].kind = "turn"
  /\ Answer(p, "partial")

\* What is not caught layer by layer: the listing, the inventory of what is kept.
ErasureRaises(p) ==
  /\ step[p] = "listing" \/ (ThreadsAreDone(p) /\ failed[p] # {})
  /\ Goto(p, "releasing")
  /\ UNCHANGED <<layers, barrier, writer, dropping, todo, failed, there, said, orphaned, faults>>

\* The request is over, and what it knew is gone with it.
Forget(p) ==
  /\ Goto(p, "idle")
  /\ todo' = [todo EXCEPT ![p] = {}]
  /\ failed' = [failed EXCEPT ![p] = {}]
  /\ there' = [there EXCEPT ![p] = {}]
  /\ said' = [said EXCEPT ![p] = "nothing"]

ReleasedWhenAnswered(p) == said[p] # "nothing"   \* mutated: not in a finally
Released(p) == TRUE

\* end_privacy_erasure, in a finally.
EndErasure(p) ==
  /\ step[p] = "releasing"
  /\ Forget(p)
  /\ barrier' = IF Released(p) THEN FALSE ELSE barrier
  /\ UNCHANGED <<layers, writer, dropping, orphaned, faults>>

\* Deleting the lock raises: the request answers 500, and nobody tries again.
EndErasureFails(p) ==
  /\ step[p] = "releasing"
  /\ faults < MaxFaults
  /\ faults' = faults + 1
  /\ Forget(p)
  /\ orphaned' = TRUE
  /\ UNCHANGED <<layers, barrier, writer, dropping>>

\* A process dies: its routes and the threads of its writers are gone,
\* their claims and the erasure lock stay in the store.
Crash(p) ==
  /\ faults < MaxFaults
  /\ faults' = faults + 1
  /\ writer' = [w \in Writers |->
                  IF ~Busy(w) \/ Home[w] # p THEN writer[w]
                  ELSE IF Gone(w) THEN Resting
                  ELSE [writer[w] EXCEPT !.alive = FALSE]]
  /\ dropping' \in SUBSET dropping
  /\ Forget(p)
  /\ orphaned' = (orphaned \/ step[p] \in Phases)
  /\ UNCHANGED <<conv, account, thread, memory, barrier>>

WriterStep(w) ==
  \/ \E k \in Kinds, c \in Convs : Start(w, k, c)
  \/ WriteThread(w) \/ WriteMemory(w)
  \/ Finish(w) \/ Lapse(w)

RouteStep ==
  \/ \E c \in Convs : DeleteConversation(c) \/ ClearConversation(c) \/ DropThread(c)
  \/ ClearHistory

ErasureStep(p) ==
  \/ ListConversations(p) \/ EraseMemory(p)
  \/ \E c \in Convs : EraseThread(p, c)
  \/ EraseRows(p) \/ RowsStay(p)
  \/ EraseAccount(p) \/ AccountStays(p)
  \/ AnswerComplete(p) \/ AnswerPartial(p) \/ ErasureRaises(p)
  \/ EndErasure(p) \/ EndErasureFails(p)

Next ==
  \/ \E c \in Convs : CreateConversation(c)
  \/ \E w \in Writers : WriterStep(w)
  \/ RouteStep
  \/ \E p \in Pools : BeginErasure(p) \/ ErasureStep(p) \/ Crash(p)

\* A request that is being served goes on to its end; clients need not come.
Spec == Init /\ [][Next]_vars /\ \A p \in Pools : WF_vars(ErasureStep(p))
-----------------------------------------------------------------------------
(* Safety.                                                                  *)

Erasing(p) == step[p] \in Phases
Leftover(c) == thread[c] = "held"

\* Two processes never erase the same user at once, and while one does, the lock
\* stays: no other request, refused or late, gives it back.
OneErasureAtATime ==
  \A p \in Pools : Erasing(p) => barrier /\ \A q \in Pools \ {p} : ~Erasing(q)

\* The rows, which say where the threads are, are erased only when no thread is
\* left behind them, whatever failed, crashed or was tried again.
RowsOutliveThreads == \A c \in Convs : conv[c] = "erased" => ~Leftover(c)

\* When an erasure answers "complete", nothing is left that anyone wrote under a
\* claim: no memory, no account, none of the rows that were there when it came to
\* them, no thread but those of conversations whose rows a delete route had taken
\* before.  What a writer without a claim still wrote may be there, be it "stray" or
\* of a live job that was ousted; and so may a conversation created since.
Answers(p) == said[p] # "complete" /\ said'[p] = "complete"
RowsOf(p)  == \E c \in there[p] : conv[c] = "live"
CompleteErases ==
  [][\A p \in Pools : Answers(p) =>
       /\ memory' # "held" /\ ~account' /\ ~RowsOf(p)'
       /\ \A c \in Convs : thread'[c] = "held" => conv'[c] = "deleted"]_vars

\* The credentials, without which the user cannot come back to try again, are the
\* last layer: they never go while rows, threads or memory were kept.
CredentialsGoLast ==
  [][account /\ ~account' =>
       /\ memory # "held"
       /\ \A p \in Pools : step[p] = "account" => ~RowsOf(p)
       /\ \A c \in Convs : conv[c] = "live" => ~Leftover(c)]_vars

\* The user is let in again after every erasure, however it ended, unless its
\* process died in it or could not delete the lock.
BarrierIsLifted == barrier ~> (~barrier \/ orphaned)

=============================================================================
