---------------------------- MODULE BranchMemory ----------------------------
(***************************************************************************)
(* The episodic memories of a user with branches.  A completed turn is not *)
(* remembered by the request that ran it: its memory_turn job waits in the *)
(* outbox (module Outbox) until a worker calls remember_turn.  Until then  *)
(* a clear or a delete drops the job, retries may bury it, and another     *)
(* conversation that said the same keeps the new episode out; later, newer *)
(* episodes push it out.  An episode has the conversation and the time of  *)
(* its turn, whatever becomes of the row, and is seen from a branch only   *)
(* through the lineage that BranchStore's tables give at that moment.      *)
(***************************************************************************)
EXTENDS BranchStore

CONSTANT MaxEpisodes     \* bound: episodes that are stored or wait to be, together

ASSUME EpisodesAreCounted == MaxEpisodes \in Nat

VARIABLES
  jobs,         \* turns whose memory_turn job waits, or is in a worker's hands
  memory        \* turns whose episode is stored

memoryVars == <<jobs, memory>>

\* What is remembered, or waits to be, is a turn that was lived and completed: never a
\* copy that a branch holds, and never a turn that failed.
MemoryTypeOK ==
  TypeOK /\ jobs \cup memory \subseteq {t \in Turns : turn[t].origin = t /\ turn[t].whole}

MemoryInit == Init /\ jobs = {} /\ memory = {}
-----------------------------------------------------------------------------
\* finalize_request_turn stores the job with the answer; a direct search has none.
QueueJob(t) ==
  \/ UNCHANGED jobs
  \/ Cardinality(jobs \cup memory) < MaxEpisodes /\ jobs' = jobs \cup {t}

\* Mutated: the job is stored whatever the status.
EndAnyTurn(p, t) ==
  /\ EndTurn(p, t, "completed") \/ EndTurn(p, t, "failed")
  /\ QueueJob(t)
  /\ UNCHANGED memory

CompleteTurn(p, t) ==
  /\ EndTurn(p, t, "completed")
  /\ QueueJob(t)
  /\ UNCHANGED memory

\* A clear or a delete takes the conversation's jobs with it, but a worker that holds
\* one has its payload and goes on.  Episodes stay.
WipeConversation(p, c) ==
  /\ DeleteConversation(p, c) \/ ClearConversation(p, c)
  /\ \E held \in SUBSET (jobs \cap TurnsOf(c)) : jobs' = (jobs \ TurnsOf(c)) \cup held
  /\ UNCHANGED memory

\* remember_turn adds the episode.  The job goes when that is on record; until then
\* another attempt may come, and the key makes it find the episode.
RememberTurn(t) ==
  /\ t \in jobs
  /\ memory' = memory \cup {t}
  /\ jobs' \in {jobs, jobs \ {t}}
  /\ UNCHANGED vars

\* The job goes without an episode: an equal one of another turn was there, the add
\* failed and was swallowed, or every attempt failed.
LoseJob(t) ==
  /\ t \in jobs
  /\ jobs' = jobs \ {t}
  /\ UNCHANGED <<vars, memory>>

\* _enforce_episodic_cap
ForgetEpisode(t) ==
  /\ t \in memory
  /\ memory' = memory \ {t}
  /\ UNCHANGED <<vars, jobs>>

MemoryNext ==
  \/ \E p \in Procs :
       \/ \E c \in Convs : WipeConversation(p, c)
       \/ \E t \in Turns : CompleteTurn(p, t)
       \/ /\ \/ \E c \in Convs : StartTurn(p, c)
             \/ \E t \in Turns : EndTurn(p, t, "failed")
             \/ Branch(p)
          /\ UNCHANGED memoryVars
  \/ \E t \in Turns : RememberTurn(t) \/ LoseJob(t) \/ ForgetEpisode(t)

MemorySpec == MemoryInit /\ [][MemoryNext]_<<vars, memoryVars>>
-----------------------------------------------------------------------------
\* AgentMemory._visible_in_lineage
Visible(c) == {t \in memory : \E e \in Lineage[c] : turn[t].conv = e[1] /\ turn[t].at <= e[2]}

Ancestors[c \in Convs] ==
  IF conv[c].parent = 0 THEN {} ELSE {conv[c].parent} \cup Ancestors[conv[c].parent]

\* No episode of its past is hidden from a branch: what is remembered of the turns it
\* has or has inherited, through any number of branches, it sees - whenever the
\* episode was written, before the branch was made or long after, and whatever was
\* cleared on the way - unless a conversation between it and their origin was deleted.
\* (What was never remembered, or was pushed out, nobody sees.)
SeesItsPast ==
  \A c \in Live : (\A a \in Ancestors[c] : conv[a].state = "live") =>
    \A t \in TurnsOf(c) : turn[t].origin \in memory => turn[t].origin \in Visible(c)

(* README.md:470 says that long-term memory is "retrieved with branch-lineage  *)
(* scoping so a fork sees only what it actually inherited".                 *)
\* While nothing is cleared or deleted, a branch remembers its own turns and those
\* it inherited, and no others.
SeesOnlyWhatItInherited ==
  wiped = {} => \A c \in Live : \A t \in Visible(c) : turn[t].conv = c \/ t \in Past(c)
=============================================================================
