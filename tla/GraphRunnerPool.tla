--------------------------- MODULE GraphRunnerPool ---------------------------
(***************************************************************************)
(* The event loops that the agent graph runs on.  One runner is current,   *)
(* and the graph that was built for it is the published one.  A turn gets  *)
(* that pair, submits its work to the loop and waits up to its deadline;   *)
(* then it puts the runner in quarantine, queues a heartbeat on the loop   *)
(* and rotates to a standby.  A heartbeat that is answered ends the        *)
(* quarantine, and its callback restores the runner if there is no current *)
(* one.                                                                    *)
(*                                                                         *)
(* A step is what runs under one hold of the locks: _agent_init_lock is    *)
(* held by Ensure, Rotate and Restore, the lock of a runner by what reads  *)
(* or sets its quarantine.                                                 *)
(***************************************************************************)
EXTENDS Integers, FiniteSets

CONSTANTS
  Requests,    \* the requests that are served at once
  Runners,     \* the runners that may be created
  First,       \* the one there is at the start
  Capacity,    \* _GRAPH_RUNNER_CAPACITY
  MaxCalls,    \* bound: callbacks of one runner that wait for the locks
  NoRunner     \* no runner

ASSUME PoolIsGiven ==
  /\ First \in Runners /\ NoRunner \notin Runners /\ IsFiniteSet(Runners)
  /\ Capacity \in Nat \ {0, 1} /\ MaxCalls \in Nat

VARIABLES
  pool,         \* _graph_loop_runners
  current,      \* _graph_loop_runner
  published,    \* the runner that agent_graph is bound to
  built,        \* the runners that have a graph
  quarantined,  \* the runners in quarantine, each with a heartbeat queued
  restoring,    \* callbacks of heartbeats that were answered, for each runner
  phase, bound, \* what a turn does, and the runner of the graph it was given
  blocked       \* the loops that are held up by a call that does not await

poolVars == <<pool, current, published, built, quarantined, restoring,
              phase, bound, blocked>>

PoolTypeOK ==
  /\ pool \subseteq Runners /\ Cardinality(pool) <= Capacity
  /\ current \in pool \cup {NoRunner} /\ published \in pool \cup {NoRunner}
  /\ built \subseteq pool /\ quarantined \subseteq pool /\ blocked \subseteq pool
  /\ restoring \in [Runners -> 0 .. MaxCalls]
  /\ phase \in [Requests -> {"idle", "ready", "running", "expired", "rotate"}]
  /\ bound \in [Requests -> pool \cup {NoRunner}]

PoolInit ==
  /\ pool = {First} /\ current = First /\ published = NoRunner /\ built = {}
  /\ quarantined = {} /\ restoring = [r \in Runners |-> 0]
  /\ phase = [t \in Requests |-> "idle"] /\ bound = [t \in Requests |-> NoRunner]
  /\ blocked = {}

Available(r) == r \notin quarantined
Goes(t, to)  ==
  /\ phase' = [phase EXCEPT ![t] = to]
  /\ bound' = IF to = "idle" THEN [bound EXCEPT ![t] = NoRunner] ELSE bound

-----------------------------------------------------------------------------
(* A turn                                                                  *)

\* _ensure_agent_runtime: the published graph, or one built for the runner.
Ensure(t) ==
  /\ phase[t] = "idle" /\ current # NoRunner /\ Available(current)
  /\ built' = built \cup {current} /\ published' = current
  /\ bound' = [bound EXCEPT ![t] = current] /\ phase' = [phase EXCEPT ![t] = "ready"]
  /\ UNCHANGED <<pool, current, quarantined, restoring, blocked>>

\* The runner may have been put in quarantine since.
Submit(t) ==
  /\ phase[t] = "ready"
  /\ Goes(t, IF Available(bound[t]) THEN "running" ELSE "idle")
  /\ UNCHANGED <<pool, current, published, built, quarantined, restoring,
                 blocked>>

\* An answer or an error.
Finish(t) ==
  /\ phase[t] = "running" /\ bound[t] \notin blocked /\ Goes(t, "idle")
  /\ UNCHANGED <<pool, current, published, built, quarantined, restoring,
                 blocked>>

Expire(t) ==
  /\ phase[t] = "running" /\ Goes(t, "expired")
  /\ UNCHANGED <<pool, current, published, built, quarantined, restoring,
                 blocked>>

\* _GraphLoopRunner.quarantine: the second turn that times out there has
\* nothing to do.
Quarantine(t) ==
  /\ phase[t] = "expired"
  /\ IF Available(bound[t])
     THEN /\ quarantined' = quarantined \cup {bound[t]}
          /\ Goes(t, "rotate")
     ELSE /\ Goes(t, "idle") /\ UNCHANGED quarantined
  /\ UNCHANGED <<pool, current, published, built, restoring, blocked>>

\* agent_graph, when r becomes current.
Kept(r)    == published
GraphOf(r) == IF r \in built THEN r ELSE NoRunner

Standbys == {r \in pool \ {current} : Available(r)}

HasRoom == Cardinality(pool) < Capacity

\* _quarantine_graph_runner, once the runner is in quarantine.
Rotate(t) ==
  /\ phase[t] = "rotate" /\ Goes(t, "idle")
  /\ \/ /\ current # bound[t] /\ UNCHANGED <<pool, current, published>>
     \/ /\ current = bound[t] /\ Standbys # {}
        /\ current' \in Standbys /\ UNCHANGED pool
        /\ published' = GraphOf(current')
     \/ /\ current = bound[t] /\ Standbys = {} /\ HasRoom
        /\ \E r \in Runners \ pool : current' = r /\ pool' = pool \cup {r}
        /\ published' = GraphOf(current')
     \/ /\ current = bound[t] /\ Standbys = {} /\ ~ HasRoom
        /\ current' = NoRunner /\ published' = NoRunner /\ UNCHANGED pool
  /\ UNCHANGED <<built, quarantined, restoring, blocked>>

-----------------------------------------------------------------------------
(* A loop                                                                  *)

\* A turn on the loop makes a call that does not await.
Block(r) ==
  /\ \E t \in Requests : phase[t] = "running" /\ bound[t] = r
  /\ r \notin blocked /\ blocked' = blocked \cup {r}
  /\ UNCHANGED <<pool, current, published, built, quarantined, restoring,
                 phase, bound>>

Unblock(r) ==
  /\ r \in blocked /\ blocked' = blocked \ {r}
  /\ UNCHANGED <<pool, current, published, built, quarantined, restoring,
                 phase, bound>>

\* A callback for the runner that is current, and no other.
CallsIfCurrent(r) == IF r = current THEN 1 ELSE 0
Calls(r)          == 1

\* An answer that leaves the mark of the quarantine.
StillHeld(r) == {}
Freed(r)     == {r}

\* The heartbeat is answered: the quarantine ends, then the callback is called,
\* by the thread of the loop or, if that was fast, of the turn that times out.
Recover(r) ==
  /\ r \in quarantined \ blocked /\ restoring[r] < MaxCalls
  /\ quarantined' = quarantined \ Freed(r)
  /\ restoring' = [restoring EXCEPT ![r] = @ + Calls(r)]
  /\ UNCHANGED <<pool, current, published, built, phase, bound, blocked>>

\* _on_graph_runner_recovered
Restore(r) ==
  /\ restoring[r] > 0 /\ restoring' = [restoring EXCEPT ![r] = @ - 1]
  /\ \/ current = NoRunner /\ current' = r /\ published' = GraphOf(r)
     \/ current # NoRunner /\ UNCHANGED <<current, published>>
  /\ UNCHANGED <<pool, built, quarantined, phase, bound, blocked>>

TurnActs(t) == Submit(t) \/ Expire(t) \/ Quarantine(t) \/ Rotate(t)

PoolNext ==
  \/ \E t \in Requests : Ensure(t) \/ Finish(t) \/ TurnActs(t)
  \/ \E r \in Runners : Block(r) \/ Unblock(r) \/ Recover(r) \/ Restore(r)

\* A deadline passes and a thread goes on; what blocks a loop ends, since the
\* calls a tool makes have time limits of their own.
PoolSpec ==
  /\ PoolInit /\ [][PoolNext]_poolVars
  /\ \A t \in Requests : WF_poolVars(TurnActs(t))
  /\ \A r \in Runners :
       WF_poolVars(Unblock(r)) /\ WF_poolVars(Recover(r)) /\ WF_poolVars(Restore(r))

-----------------------------------------------------------------------------
(* Properties                                                              *)

(* "Callers can only observe a complete (runner, graph) generation": the   *)
(* graph that is published was built for the runner that is current.       *)
OneGeneration == published # NoRunner => published = current /\ current \in built

(* While there is no current runner, one is in quarantine, with its        *)
(* heartbeat under way, or about to be restored.                           *)
SomebodyRestores ==
  current = NoRunner => quarantined # {} \/ \E r \in pool : restoring[r] > 0

(* The service heals itself: always again there is a current runner that   *)
(* takes work, as long as every blocked loop goes on some time.            *)
ServiceComesBack == []<>(current # NoRunner /\ Available(current))
=============================================================================
