---------------------------- MODULE Outbox_proofs ----------------------------
(***************************************************************************)
(* The safety of the outbox, for any number of jobs, pools, conversations, *)
(* attempts and faults.                                                    *)
(***************************************************************************)
EXTENDS Outbox, TLAPS

Busy(p) == worker[p].step \notin {"stopped", "idle"}

\* A worker is busy with a job that was queued, and a result is that of one.
Placed ==
  /\ \A p \in Pools : Busy(p) => worker[p].job \in Jobs /\ status[worker[p].job] # "unused"
  /\ \A j \in Jobs : result[j] # None => status[j] # "unused"

\* Only summaries are folded, and what is acknowledged or completed has happened.
Effects ==
  /\ \A p \in Pools :
       LET j == worker[p].job
       IN  /\ worker[p].step = "folding" => kind[j] = "rolling_summary" /\ worker[p].value # None
           /\ worker[p].step = "acking" => j \in memory
           /\ worker[p].step = "completing" => j \in memory \cup patched
           /\ worker[p].step = "claimed" /\ worker[p].value # None /\ kind[j] = "memory_turn"
                => j \in memory
  /\ \A j \in Jobs : result[j] # None /\ kind[j] = "memory_turn" => j \in memory

\* A worker that still owns its job knows whether its result was saved.
Known ==
  \A p \in Pools : Busy(p) /\ Owns(p, worker[p].job) =>
    /\ worker[p].step = "claimed" => result[worker[p].job] = worker[p].value
    /\ worker[p].step \in {"folding", "acking"} => result[worker[p].job] = None

TypeInv == TypeOK /\ Placed
IInv ==
  /\ TypeInv /\ Effects /\ Known
  /\ SerialWithinConversation /\ CompletedTookEffect /\ ErasureStopsJobs

\* At first there is no job and no thread.
LEMMA InitInv == Init => IInv
<1> SUFFICES ASSUME Init PROVE IInv
  OBVIOUS
<1> USE DEF Init, Stopped, Working
<1>1. TypeInv
  <2>1. 0 \in 0 .. MaxAttempts /\ 0 \in 0 .. MaxFaults
    BY BoundsAreNat
  <2>2. worker \in [Pools -> [step : Steps, job : Jobs \cup {None}, value : Pools \cup {None}]]
    BY DEF Steps
  <2>3. TypeOK
    BY <2>1, <2>2 DEF TypeOK
  <2> QED
    BY <2>3 DEF TypeInv, Placed, Busy
<1>2. Effects /\ Known
  BY DEF Effects, Known, Busy
<1>3. SerialWithinConversation /\ CompletedTookEffect /\ ErasureStopsJobs
  BY DEF SerialWithinConversation, CompletedTookEffect, ErasureStopsJobs
<1> QED
  BY <1>1, <1>2, <1>3 DEF IInv

\* A finalized turn queues jobs that were not there, and touches no other.
LEMMA NewJobs ==
  ASSUME TypeOK, NEW p \in Pools, NEW c \in Convs, FinalizeTurn(p, c)
  PROVE  \E new \in SUBSET Jobs :
           /\ \A j \in new : status[j] = "unused"
           /\ status' = [j \in Jobs |-> IF j \in new THEN "pending" ELSE status[j]]
           /\ home'   = [j \in Jobs |-> IF j \in new THEN c ELSE home[j]]
           /\ kind' \in [Jobs -> Kinds \cup {None}]
           /\ \A j \in Jobs \ new : kind'[j] = kind[j]
           /\ worker' \in {worker, [worker EXCEPT ![p] = IdleWorker]}
<1>1. PICK n \in 0 .. MaxJobs, batch \in Batches :
        LET new == {j \in Jobs : n < j /\ j <= n + Len(batch)}
        IN  /\ \A j \in Jobs : status[j] # "unused" <=> j <= n
            /\ status' = [j \in Jobs |-> IF j \in new THEN "pending" ELSE status[j]]
            /\ home'   = [j \in Jobs |-> IF j \in new THEN c ELSE home[j]]
            /\ kind'   = [j \in Jobs |-> IF j \in new THEN batch[j - n] ELSE kind[j]]
            /\ worker' = IF new # {} /\ worker[p].step = "stopped"
                           THEN [worker EXCEPT ![p] = IdleWorker] ELSE worker
  BY Zenon DEF FinalizeTurn
<1> DEFINE new == {j \in Jobs : n < j /\ j <= n + Len(batch)}
<1>2. n \in Nat /\ batch \in Seq(Kinds)
  <2>1. {<<>>, <<"rolling_summary">>, <<"memory_turn">>, <<"rolling_summary", "memory_turn">>}
          \subseteq Seq(Kinds)
    BY DEF Kinds
  <2>2. batch \in Seq(Kinds)
    BY <2>1, Zenon DEF Batches
  <2>3. n \in Nat
    BY BoundsAreNat
  <2> QED
    BY <2>2, <2>3
<1>3. \A j \in new : batch[j - n] \in Kinds
  BY <1>2 DEF Jobs
<1>4. \A j \in new : status[j] = "unused"
  BY <1>1, <1>2 DEF Jobs
<1>5. kind' \in [Jobs -> Kinds \cup {None}]
  BY <1>1, <1>3 DEF TypeOK
<1> QED
  BY <1>1, <1>4, <1>5

\* Types: what comes from outside.
LEMMA TypeStepRoutes ==
  ASSUME TypeInv, RouteStep \/ TimeStep \/ (\E p \in Pools : Crash(p))
  PROVE  TypeInv'
<1> USE DEF TypeInv, TypeOK, Placed, Busy, jobs, store
<1>1. ASSUME NEW p \in Pools, NEW c \in Convs, FinalizeTurn(p, c) PROVE TypeInv'
  <2>1. PICK new \in SUBSET Jobs :
           /\ \A j \in new : status[j] = "unused"
           /\ status' = [j \in Jobs |-> IF j \in new THEN "pending" ELSE status[j]]
           /\ home'   = [j \in Jobs |-> IF j \in new THEN c ELSE home[j]]
           /\ kind' \in [Jobs -> Kinds \cup {None}]
           /\ \A j \in Jobs \ new : kind'[j] = kind[j]
           /\ worker' \in {worker, [worker EXCEPT ![p] = IdleWorker]}
    BY <1>1, NewJobs
  <2>2. snapshots' = snapshots \cup {c}
        /\ UNCHANGED <<attempts, owner, result, waiting, lapsed, erasing, memory, patched, faults>>
    BY <1>1 DEF FinalizeTurn
  <2> QED
    BY <2>1, <2>2 DEF IdleWorker, Working, Steps
<1>2. ASSUME NEW p \in Pools, StartThread(p) PROVE TypeInv'
  BY <1>2 DEF StartThread, IdleWorker, Working, Steps
<1>3. ASSUME NEW cs \in SUBSET Convs, DeleteRows(cs) PROVE TypeInv'
  BY <1>3 DEF DeleteRows, Released
<1>4. CASE BeginErasure
  BY <1>4, BoundsAreNat DEF BeginErasure, Released
<1>5. CASE EndErasure
  BY <1>5 DEF EndErasure
<1>6. ASSUME NEW j \in Jobs, LeaseLapses(j) \/ WorkerOverruns(j) \/ BackoffEnds(j) PROVE TypeInv'
  BY <1>6, BoundsAreNat DEF LeaseLapses, WorkerOverruns, Lapse, BackoffEnds
<1>7. ASSUME NEW p \in Pools, Crash(p) PROVE TypeInv'
  BY <1>7, BoundsAreNat, NamesAreFresh DEF Crash, Restart, Stopped, Working, Steps
<1> QED
  BY <1>1, <1>2, <1>3, <1>4, <1>5, <1>6, <1>7
     DEF RouteStep, TimeStep, ClearConversation, EraseRows

\* Types: the worker's steps.
LEMMA TypeStepWorker ==
  ASSUME TypeInv, NEW p \in Pools, WorkerStep(p)
  PROVE  TypeInv'
<1> USE DEF TypeInv, TypeOK, Placed, Busy, jobs, store, Move, Working, IdleWorker, Steps
<1>1. ASSUME NEW j \in Jobs, ClaimJob(p, j) PROVE TypeInv'
  <2>1. attempts' \in [Jobs -> 0 .. MaxAttempts]
    BY <1>1, BoundsAreNat DEF ClaimJob
  <2>2. status[j] # "unused"
    BY <1>1 DEF ClaimJob, Claimable, Freed
  <2> QED
    BY <1>1, <2>1, <2>2, NamesAreFresh DEF ClaimJob, Freed, Released
<1>2. CASE Fold(p) \/ ReuseFold(p) \/ ProcessRaises(p)
  BY <1>2 DEF Fold, ReuseFold, ProcessRaises, SavedIsPatched
<1>3. CASE SaveFold(p) \/ SaveStored(p)
  BY <1>3 DEF SaveFold, SaveStored
<1>4. CASE PatchSnapshot(p) \/ RememberTurn(p)
  BY <1>4 DEF PatchSnapshot, RememberTurn
<1>5. CASE CompleteJob(p)
  BY <1>5, NamesAreFresh DEF CompleteJob, Owns, Released
<1>6. CASE RetryJob(p)
  BY <1>6, NamesAreFresh DEF RetryJob, ClaimedBy, Released
<1>7. CASE RetryRaises(p)
  BY <1>7, BoundsAreNat DEF RetryRaises
<1> QED
  BY <1>1, <1>2, <1>3, <1>4, <1>5, <1>6, <1>7 DEF WorkerStep

LEMMA TypeStep == TypeInv /\ [Next]_vars => TypeInv'
<1>1. CASE UNCHANGED vars
  BY <1>1 DEF vars, store, jobs, TypeInv, TypeOK, Placed, Busy
<1> QED
  BY <1>1, TypeStepRoutes, TypeStepWorker DEF Next

\* One erasure, one job per conversation: what the claim looks at.
LEMMA SerialStep ==
  TypeInv /\ SerialWithinConversation /\ ErasureStopsJobs /\ [Next]_vars
    => SerialWithinConversation' /\ ErasureStopsJobs'
<1> SUFFICES ASSUME TypeInv, SerialWithinConversation, ErasureStopsJobs, [Next]_vars
             PROVE  SerialWithinConversation' /\ ErasureStopsJobs'
  OBVIOUS
<1>1. ASSUME NEW p \in Pools, NEW j \in Jobs, ClaimJob(p, j)
      PROVE  SerialWithinConversation' /\ ErasureStopsJobs'
  BY <1>1 DEF ClaimJob, Claimable, ConversationFree, NoErasure, Freed, SerialWithinConversation,
         ErasureStopsJobs, TypeInv, TypeOK
<1>2. ASSUME NEW p \in Pools, NEW c \in Convs, FinalizeTurn(p, c)
      PROVE  SerialWithinConversation' /\ ErasureStopsJobs'
  <2>1. ~erasing /\ erasing' = erasing
    BY <1>2 DEF FinalizeTurn
  <2> QED
    BY <1>2, <2>1, NewJobs DEF SerialWithinConversation, ErasureStopsJobs, TypeInv, TypeOK
<1>3. CASE BeginErasure
  BY <1>3 DEF BeginErasure, SerialWithinConversation, ErasureStopsJobs, TypeInv, TypeOK
<1>4. CASE EndErasure
  BY <1>4 DEF EndErasure, jobs, SerialWithinConversation, ErasureStopsJobs
<1>5. CASE /\ home' = home /\ erasing' = erasing
           /\ \A j \in Jobs : status'[j] = "running" => status[j] = "running"
  BY <1>5 DEF SerialWithinConversation, ErasureStopsJobs
<1>6. ASSUME NEW cs \in SUBSET Convs, DeleteRows(cs)
      PROVE  /\ home' = home /\ erasing' = erasing
             /\ \A j \in Jobs : status'[j] = "running" => status[j] = "running"
  BY <1>6 DEF DeleteRows
<1>7. ASSUME NEW p \in Pools,
             \/ Fold(p) \/ SaveFold(p) \/ ReuseFold(p) \/ PatchSnapshot(p) \/ RememberTurn(p)
             \/ SaveStored(p) \/ CompleteJob(p) \/ ProcessRaises(p) \/ RetryJob(p) \/ RetryRaises(p)
      PROVE  /\ home' = home /\ erasing' = erasing
             /\ \A j \in Jobs : status'[j] = "running" => status[j] = "running"
  <2> USE DEF store, jobs, TypeInv, TypeOK
  <2>1. CASE CompleteJob(p)
    BY <2>1 DEF CompleteJob
  <2>2. CASE RetryJob(p)
    BY <2>2 DEF RetryJob
  <2> QED
    BY <1>7, <2>1, <2>2 DEF Fold, SaveFold, ReuseFold, PatchSnapshot, RememberTurn, SaveStored,
           ProcessRaises, RetryRaises
<1>8. CASE TimeStep \/ (\E p \in Pools : StartThread(p) \/ Crash(p)) \/ UNCHANGED vars
  BY <1>5, <1>8 DEF TimeStep, LeaseLapses, WorkerOverruns, Lapse, BackoffEnds, StartThread, Crash,
         Restart, vars, store, jobs
<1> QED
  BY <1>1, <1>2, <1>3, <1>4, <1>5, <1>6, <1>7, <1>8
     DEF Next, WorkerStep, RouteStep, ClearConversation, EraseRows

\* What happened stays, and the kind of a job is settled when it is queued.
LEMMA HistoryStep ==
  ASSUME TypeInv, [Next]_vars
  PROVE  /\ memory \subseteq memory' /\ patched \subseteq patched'
         /\ \A j \in Jobs : status[j] # "unused" => status'[j] # "unused" /\ kind'[j] = kind[j]
<1> USE DEF TypeInv, TypeOK
<1>1. ASSUME NEW p \in Pools, NEW c \in Convs, FinalizeTurn(p, c)
      PROVE  /\ UNCHANGED <<memory, patched>>
             /\ \A j \in Jobs : status[j] # "unused" => status'[j] # "unused" /\ kind'[j] = kind[j]
  <2>1. UNCHANGED <<memory, patched>>
    BY <1>1 DEF FinalizeTurn
  <2> QED
    BY <1>1, <2>1, NewJobs
<1>2. ASSUME NEW cs \in SUBSET Convs, DeleteRows(cs)
      PROVE  /\ UNCHANGED <<memory, patched>>
             /\ \A j \in Jobs : status[j] # "unused" => status'[j] # "unused" /\ kind'[j] = kind[j]
  BY <1>2 DEF DeleteRows
<1>3. ASSUME NEW p \in Pools, WorkerStep(p)
      PROVE  /\ memory \subseteq memory' /\ patched \subseteq patched'
             /\ \A j \in Jobs : status[j] # "unused" => status'[j] # "unused" /\ kind'[j] = kind[j]
  BY <1>3 DEF WorkerStep, ClaimJob, Fold, SaveFold, ReuseFold, PatchSnapshot, RememberTurn,
         SaveStored, CompleteJob, ProcessRaises, RetryJob, RetryRaises, store, jobs, Freed
<1>4. CASE \/ TimeStep \/ BeginErasure \/ EndErasure
           \/ \E p \in Pools : StartThread(p) \/ Crash(p)
           \/ UNCHANGED vars
  BY <1>4 DEF TimeStep, LeaseLapses, WorkerOverruns, Lapse, BackoffEnds, StartThread, Crash,
         Restart, BeginErasure, EndErasure, vars, store, jobs
<1> QED
  BY <1>1, <1>2, <1>3, <1>4 DEF Next, RouteStep, ClearConversation, EraseRows

\* What comes from outside puts threads to rest and takes results away, no more.
Outside ==
  /\ \A p \in Pools : worker'[p] \in {worker[p], IdleWorker, Stopped}
  /\ \A j \in Jobs : result'[j] \in {result[j], None}
  /\ \A j \in Jobs, p \in Pools : Owns(p, j)' => Owns(p, j)
  /\ \A j \in Jobs : status'[j] = "completed" => status[j] = "completed"
  /\ \A j \in Jobs : result[j] # None /\ result'[j] = None => status'[j] = "deleted"
  /\ \A j \in Jobs : status[j] \in {"completed", "dead"} => status'[j] \in {status[j], "deleted"}

LEMMA OutsideSteps ==
  ASSUME TypeInv, RouteStep \/ TimeStep \/ (\E p \in Pools : Crash(p)) \/ UNCHANGED vars
  PROVE  Outside
<1> USE DEF Outside, TypeInv, TypeOK, Owns, store, jobs
<1>1. ASSUME NEW p \in Pools, NEW c \in Convs, FinalizeTurn(p, c) PROVE Outside
  <2>1. UNCHANGED <<owner, result>>
    BY <1>1 DEF FinalizeTurn
  <2>2. PICK new \in SUBSET Jobs :
           /\ \A j \in new : status[j] = "unused"
           /\ status' = [j \in Jobs |-> IF j \in new THEN "pending" ELSE status[j]]
           /\ worker' \in {worker, [worker EXCEPT ![p] = IdleWorker]}
    BY <1>1, NewJobs
  <2> QED
    BY <2>1, <2>2
<1>2. ASSUME NEW cs \in SUBSET Convs, DeleteRows(cs) PROVE Outside
  BY <1>2 DEF DeleteRows, Released
<1>3. CASE BeginErasure
  BY <1>3 DEF BeginErasure, Released
<1>4. CASE TimeStep \/ EndErasure \/ UNCHANGED vars
  BY <1>4 DEF TimeStep, LeaseLapses, WorkerOverruns, Lapse, BackoffEnds, EndErasure, vars
<1>5. ASSUME NEW p \in Pools, StartThread(p) \/ Crash(p) PROVE Outside
  BY <1>5, NamesAreFresh DEF StartThread, Crash, Restart
<1> QED
  BY <1>1, <1>2, <1>3, <1>4, <1>5 DEF RouteStep, ClearConversation, EraseRows

\* What a worker is about to report has happened.
LEMMA EffectsStep == TypeInv /\ Effects /\ [Next]_vars => Effects'
<1> SUFFICES ASSUME TypeInv, Effects, [Next]_vars PROVE Effects'
  OBVIOUS
<1>1. CASE Outside
  BY <1>1, HistoryStep DEF Outside, Effects, TypeInv, Placed, Busy, IdleWorker, Stopped, Working
<1>2. ASSUME NEW p \in Pools, WorkerStep(p) PROVE Effects'
  <2> USE DEF Effects, TypeInv, TypeOK, Placed, Busy, Move, Working, store, jobs
  <2>1. ASSUME NEW j \in Jobs, ClaimJob(p, j) PROVE Effects'
    BY <2>1 DEF ClaimJob
  <2>2. CASE Fold(p)
    BY <2>2, NamesAreFresh DEF Fold
  <2>3. CASE SaveFold(p)
    BY <2>3 DEF SaveFold
  <2>4. CASE ReuseFold(p)
    BY <2>4 DEF ReuseFold, SavedIsPatched
  <2>5. CASE PatchSnapshot(p)
    BY <2>5 DEF PatchSnapshot
  <2>6. CASE RememberTurn(p)
    BY <2>6 DEF RememberTurn
  <2>7. CASE SaveStored(p)
    BY <2>7 DEF SaveStored
  <2>8. CASE CompleteJob(p)
    BY <2>8 DEF CompleteJob, IdleWorker
  <2>9. CASE ProcessRaises(p) \/ RetryJob(p) \/ RetryRaises(p)
    BY <2>9 DEF ProcessRaises, RetryJob, RetryRaises, IdleWorker
  <2> QED
    BY <1>2, <2>1, <2>2, <2>3, <2>4, <2>5, <2>6, <2>7, <2>8, <2>9 DEF WorkerStep
<1> QED
  BY <1>1, <1>2, OutsideSteps DEF Next

\* Nobody but its owner touches the result of a job.
LEMMA KnownStep == TypeInv /\ Known /\ [Next]_vars => Known'
<1> SUFFICES ASSUME TypeInv, Known, [Next]_vars PROVE Known'
  OBVIOUS
<1>1. CASE RouteStep \/ TimeStep \/ (\E p \in Pools : Crash(p)) \/ UNCHANGED vars
  <2>1. \A p \in Pools, j \in Jobs : Owns(p, j)' => Owns(p, j) /\ result'[j] = result[j]
    BY <1>1, OutsideSteps DEF Outside, Owns, TypeInv, TypeOK
  <2>2. \A p \in Pools : Busy(p)' => Busy(p) /\ worker'[p] = worker[p]
    BY <1>1, OutsideSteps DEF Outside, Busy, IdleWorker, Stopped, Working
  <2> QED
    BY <2>1, <2>2 DEF Known, TypeInv, Placed
<1>2. ASSUME NEW p \in Pools, WorkerStep(p) PROVE Known'
  <2> USE DEF Known, Owns, TypeInv, TypeOK, Placed, Busy, Move, Working, store, jobs
  <2>1. ASSUME NEW j \in Jobs, ClaimJob(p, j) PROVE Known'
    BY <2>1 DEF ClaimJob, Released
  <2>2. CASE Fold(p) \/ ReuseFold(p)
    BY <2>2 DEF Fold, ReuseFold, SavedIsPatched
  <2>3. CASE SaveFold(p) \/ SaveStored(p)
    BY <2>3 DEF SaveFold, SaveStored
  <2>4. CASE PatchSnapshot(p) \/ ProcessRaises(p) \/ RetryRaises(p)
    BY <2>4 DEF PatchSnapshot, ProcessRaises, RetryRaises, IdleWorker
  <2>5. CASE RememberTurn(p)
    BY <2>5 DEF RememberTurn
  <2>6. CASE CompleteJob(p)
    BY <2>6 DEF CompleteJob, IdleWorker, Released
  <2>7. CASE RetryJob(p)
    BY <2>7 DEF RetryJob, IdleWorker, Released
  <2> QED
    BY <1>2, <2>1, <2>2, <2>3, <2>4, <2>5, <2>6, <2>7 DEF WorkerStep
<1> QED
  BY <1>1, <1>2 DEF Next

\* A job is completed by a worker that has seen its effect.
LEMMA CompletedStep == IInv /\ [Next]_vars => CompletedTookEffect'
<1> SUFFICES ASSUME IInv, [Next]_vars, NEW j \in Jobs, status'[j] = "completed"
             PROVE  j \in memory \cup patched
  BY HistoryStep DEF IInv, CompletedTookEffect
<1>1. CASE status[j] = "completed"
  BY <1>1 DEF IInv, CompletedTookEffect
<1>2. CASE status[j] # "completed"
  <2>1. PICK p \in Pools : WorkerStep(p)
    BY <1>2, OutsideSteps DEF IInv, Outside, Next
  <2>2. CompleteJob(p) /\ worker[p].job = j
    BY <1>2, <2>1 DEF WorkerStep, ClaimJob, Fold, SaveFold, ReuseFold, PatchSnapshot, RememberTurn,
           SaveStored, CompleteJob, ProcessRaises, RetryJob, RetryRaises, store, jobs, IInv, TypeInv, TypeOK
  <2> QED
    BY <2>2 DEF CompleteJob, IInv, Effects
<1> QED
  BY <1>1, <1>2

\* The inductive invariant: who owns a job knows its result, and what is reported
\* has happened.
THEOREM Invariance == Spec => []IInv
<1>1. IInv /\ [Next]_vars => IInv'
  BY TypeStep, SerialStep, EffectsStep, KnownStep, CompletedStep DEF IInv
<1> QED
  BY InitInv, <1>1, PTL DEF Spec

\* Every reachable state has the right types; a job has an owner while it runs.
THEOREM TypeCorrect == Spec => []TypeOK
<1>1. IInv => TypeOK
  BY DEF IInv, TypeInv
<1> QED
  BY Invariance, <1>1, PTL

\* One job of a conversation at a time, whoever claims.
THEOREM SerialWithinConversationHolds == Spec => []SerialWithinConversation
<1>1. IInv => SerialWithinConversation
  BY DEF IInv
<1> QED
  BY Invariance, <1>1, PTL

\* A completed job had its effect, wherever earlier attempts have stopped.
THEOREM CompletedTookEffectHolds == Spec => []CompletedTookEffect
<1>1. IInv => CompletedTookEffect
  BY DEF IInv
<1> QED
  BY Invariance, <1>1, PTL

\* No job runs during an erasure.
THEOREM ErasureStopsJobsHolds == Spec => []ErasureStopsJobs
<1>1. IInv => ErasureStopsJobs
  BY DEF IInv
<1> QED
  BY Invariance, <1>1, PTL

\* A saved result is replaced by nobody, and is taken away with its job only.
THEOREM ResultIsSavedOnceHolds == Spec => ResultIsSavedOnce
<1>1. ASSUME IInv, [Next]_vars, NEW j \in Jobs, result[j] # None
      PROVE  /\ result'[j] \in {result[j], None}
             /\ result'[j] = None => status'[j] \in {"completed", "deleted"}
  <2>1. ASSUME NEW p \in Pools, SaveFold(p) \/ SaveStored(p) PROVE result'[j] = result[j]
    <3>1. CASE j = worker[p].job
      BY <1>1, <2>1, <3>1 DEF SaveFold, SaveStored, IInv, Known, Busy, Owns
    <3>2. CASE j # worker[p].job
      BY <1>1, <2>1, <3>2 DEF SaveFold, SaveStored, IInv, TypeInv, TypeOK
    <3> QED
      BY <3>1, <3>2
  <2>2. ASSUME NEW p \in Pools, CompleteJob(p)
        PROVE  /\ result'[j] \in {result[j], None}
               /\ result'[j] = None => status'[j] \in {"completed", "deleted"}
    BY <1>1, <2>2 DEF CompleteJob, IInv, TypeInv, TypeOK
  <2>3. ASSUME NEW p \in Pools,
               \/ \E i \in Jobs : ClaimJob(p, i)
               \/ Fold(p) \/ ReuseFold(p) \/ PatchSnapshot(p) \/ RememberTurn(p)
               \/ ProcessRaises(p) \/ RetryJob(p) \/ RetryRaises(p)
        PROVE  result'[j] = result[j]
    BY <2>3 DEF ClaimJob, Fold, ReuseFold, PatchSnapshot, RememberTurn, ProcessRaises, RetryJob,
           RetryRaises, store, jobs
  <2> QED
    BY <1>1, <2>1, <2>2, <2>3, OutsideSteps DEF IInv, Outside, Next, WorkerStep
<1>2. IInv /\ [Next]_vars =>
        [\A j \in Jobs : result[j] # None => result'[j] \in {result[j], None}
           /\ (result'[j] = None => status'[j] \in {"completed", "deleted"})]_vars
  BY <1>1
<1> QED
  BY Invariance, <1>2, PTL DEF Spec, ResultIsSavedOnce

\* What is completed or dead does not come back.
THEOREM TombstonesStayHolds == Spec => TombstonesStay
<1>1. ASSUME IInv, [Next]_vars, NEW j \in Jobs, status[j] \in {"completed", "dead"}
      PROVE  status'[j] \in {status[j], "deleted"}
  <2>1. ASSUME NEW p \in Pools, WorkerStep(p) PROVE status'[j] = status[j]
    <3>1. owner[j] = None
      BY <1>1 DEF IInv, TypeInv, TypeOK
    <3>2. CASE RetryJob(p)
      BY <1>1, <3>1, <3>2, NamesAreFresh DEF RetryJob, ClaimedBy, IInv, TypeInv, TypeOK
    <3>3. CASE CompleteJob(p)
      BY <1>1, <3>3 DEF CompleteJob, Owns, IInv, TypeInv, TypeOK
    <3>4. ASSUME NEW i \in Jobs, ClaimJob(p, i) PROVE status'[j] = status[j]
      BY <1>1, <3>4 DEF ClaimJob, Claimable, Freed, IInv, TypeInv, TypeOK
    <3> QED
      BY <2>1, <3>2, <3>3, <3>4 DEF WorkerStep, Fold, SaveFold, ReuseFold, PatchSnapshot,
             RememberTurn, SaveStored, ProcessRaises, RetryRaises, store, jobs
  <2> QED
    BY <1>1, <2>1, OutsideSteps DEF IInv, Outside, Next
<1>2. IInv /\ [Next]_vars =>
        [\A j \in Jobs : status[j] \in {"completed", "dead"}
                           => status'[j] \in {status[j], "deleted"}]_vars
  BY <1>1
<1> QED
  BY Invariance, <1>2, PTL DEF Spec, TombstonesStay
=============================================================================
