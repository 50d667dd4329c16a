------------------------ MODULE PrivacyErasure_proofs ------------------------
(***************************************************************************)
(* What an erasure promises, for any number of processes, writers,         *)
(* conversations and faults.                                               *)
(***************************************************************************)
EXTENDS PrivacyErasure, TLAPS

\* Behind the barrier nobody writes under a claim.
BarrierDrops == barrier => \A w \in Writers : Busy(w) => Gone(w)

\* Whoever has a claim has it on a conversation whose rows are there.
ClaimsAreLive ==
  \A w \in Writers : Busy(w) /\ ~Gone(w) => conv[writer[w].conv] = "live"

\* No thread is older than its conversation.
NewIdsAreBlank == \A c \in Convs : conv[c] = "unused" => ~Leftover(c)

\* What an erasure that no layer has failed so far has behind it.
MemoryIsGone ==
  \A p \in Pools : step[p] \in {"threads", "account", "slices"} /\ failed[p] = {} =>
    memory # "held"
ThreadsAreListed ==
  \A p \in Pools : step[p] \in {"memory", "threads"} /\ failed[p] = {} =>
    \A c \in Convs : conv[c] = "live" /\ Leftover(c) => c \in todo[p]
ThreadsAreGone ==
  \A p \in Pools : step[p] \in {"account", "slices"} /\ failed[p] = {} =>
    \A c \in Convs : conv[c] = "live" => ~Leftover(c)
RowsAreGone ==
  \A p \in Pools : step[p] \in {"account", "slices"} /\ failed[p] = {} =>
    \A c \in there[p] : conv[c] \in {"deleted", "erased"}
AccountIsGone == \A p \in Pools : step[p] = "slices" /\ failed[p] = {} => ~account

LockInv  == OneErasureAtATime /\ BarrierDrops /\ ClaimsAreLive
RowsInv  == NewIdsAreBlank /\ RowsOutliveThreads
Progress == MemoryIsGone /\ ThreadsAreListed /\ ThreadsAreGone /\ RowsAreGone /\ AccountIsGone
IInv     == TypeOK /\ LockInv /\ RowsInv /\ Progress

\* At first nothing is stored and nobody is at work.
LEMMA InitInv == Init => IInv
<1> SUFFICES ASSUME Init PROVE IInv
  OBVIOUS
<1> USE DEF Init
<1>1. TypeOK
  <2>1. faults \in 0 .. MaxFaults
    BY FaultsAreCounted
  <2>2. writer \in [Writers -> Work \cup {Resting}]
    OBVIOUS
  <2> QED
    BY <2>1, <2>2 DEF TypeOK, Marks, Layers
<1>2. LockInv
  BY DEF LockInv, OneErasureAtATime, BarrierDrops, ClaimsAreLive, Erasing, Phases, Busy
<1>3. RowsInv /\ Progress
  BY DEF RowsInv, NewIdsAreBlank, RowsOutliveThreads, Leftover,
         Progress, MemoryIsGone, ThreadsAreListed, ThreadsAreGone, RowsAreGone, AccountIsGone
<1> QED
  BY <1>1, <1>2, <1>3 DEF IInv

\* Taking claims away leaves every writer at most as it was, and those named
\* without a claim.
LEMMA DroppedWriters ==
  ASSUME TypeOK, NEW S
  PROVE  /\ Dropped(S) \in [Writers -> Work \cup {Resting}]
         /\ \A w \in Writers : Dropped(S)[w] # Resting =>
              /\ Busy(w) /\ Dropped(S)[w].conv = writer[w].conv
              /\ Gone(w) => Dropped(S)[w].claim \in {"dropped", "ousted"}
              /\ w \in S => Dropped(S)[w].claim \in {"dropped", "ousted"}
<1>1. ASSUME NEW w \in Writers, Busy(w)
      PROVE  /\ writer[w] \in Work
             /\ [writer[w] EXCEPT !.claim = "dropped"] \in Work
             /\ [writer[w] EXCEPT !.claim = "dropped"].claim = "dropped"
             /\ [writer[w] EXCEPT !.claim = "dropped"].conv = writer[w].conv
  BY <1>1 DEF TypeOK, Busy, Work, Claims
<1> QED
  BY <1>1 DEF Dropped, Gone, Busy, TypeOK

LEMMA OustedWriters ==
  ASSUME TypeOK
  PROVE  /\ Ousted \in [Writers -> Work \cup {Resting}]
         /\ \A w \in Writers : Ousted[w] # Resting =>
              Busy(w) /\ Ousted[w].claim \in {"dropped", "ousted"}
<1>1. ASSUME NEW w \in Writers, Busy(w)
      PROVE  /\ [writer[w] EXCEPT !.claim = "ousted"] \in Work
             /\ [writer[w] EXCEPT !.claim = "ousted"].claim = "ousted"
  BY <1>1 DEF TypeOK, Busy, Work, Claims
<1> QED
  BY <1>1, DroppedWriters DEF Ousted, Alive

\* Types: the steps of the writers and of the routes.
LEMMA TypeStepBeside ==
  ASSUME TypeOK,
         \/ \E c \in Convs : CreateConversation(c)
         \/ \E w \in Writers : WriterStep(w)
         \/ RouteStep
  PROVE  TypeOK'
<1> USE DEF TypeOK, layers, request
<1>1. ASSUME NEW c \in Convs, CreateConversation(c) PROVE TypeOK'
  BY <1>1 DEF CreateConversation
<1>2. ASSUME NEW w \in Writers, NEW k \in Kinds, NEW c \in Convs, Start(w, k, c) PROVE TypeOK'
  <2>1. Working(k, c) \in Work
    BY DEF Working, Work, Claims
  <2>2. writer' \in [Writers -> Work \cup {Resting}]
    BY <1>2, <2>1, DroppedWriters DEF Start
  <2> QED
    BY <1>2, <2>2 DEF Start
<1>3. ASSUME NEW w \in Writers, WriteThread(w) PROVE TypeOK'
  BY <1>3 DEF WriteThread, Marked, Marks
<1>4. ASSUME NEW w \in Writers, WriteMemory(w) PROVE TypeOK'
  BY <1>4 DEF WriteMemory, Marked, Marks
<1>5. ASSUME NEW w \in Writers, Finish(w) PROVE TypeOK'
  BY <1>5 DEF Finish, Rest
<1>6. ASSUME NEW w \in Writers, Lapse(w) PROVE TypeOK'
  <2>1. [writer[w] EXCEPT !.claim = "lapsed"] \in Work
    BY <1>6 DEF Lapse, Busy, Work, Claims
  <2> QED
    BY <1>6, <2>1 DEF Lapse
<1>7. ASSUME NEW cs \in SUBSET Convs, NEW after \in {"live", "deleted"}, DeleteRows(cs, after)
      PROVE  TypeOK'
  <2>1. writer' \in [Writers -> Work \cup {Resting}]
    BY <1>7, DroppedWriters DEF DeleteRows
  <2> QED
    BY <1>7, <2>1 DEF DeleteRows
<1>8. ASSUME NEW c \in Convs, DropThread(c) PROVE TypeOK'
  BY <1>8 DEF DropThread, Marks
<1> QED
  BY <1>1, <1>2, <1>3, <1>4, <1>5, <1>6, <1>7, <1>8
     DEF WriterStep, RouteStep, DeleteConversation, ClearConversation, ClearHistory, Live

\* Types: the steps of an erasure, and faults.
LEMMA TypeStepErasing ==
  ASSUME TypeOK, NEW p \in Pools, BeginErasure(p) \/ ErasureStep(p) \/ Crash(p)
  PROVE  TypeOK'
<1> USE DEF TypeOK, layers, request, Goto, Phases, Layers, Tried
<1>1. CASE BeginErasure(p)
  <2>1. writer' \in [Writers -> Work \cup {Resting}]
    BY <1>1, OustedWriters DEF BeginErasure
  <2> QED
    BY <1>1, <2>1 DEF BeginErasure
<1>2. CASE ListConversations(p)
  BY <1>2 DEF ListConversations, Live
<1>3. CASE EraseMemory(p)
  BY <1>3 DEF EraseMemory, Marks
<1>4. ASSUME NEW c \in Convs, EraseThread(p, c) PROVE TypeOK'
  BY <1>4 DEF EraseThread, Marks
<1>5. CASE EraseRows(p)
  <2>1. writer' \in [Writers -> Work \cup {Resting}]
    BY <1>5, DroppedWriters DEF EraseRows
  <2> QED
    BY <1>5, <2>1 DEF EraseRows, Live
<1>6. CASE RowsStay(p) \/ EraseAccount(p) \/ AccountStays(p)
  <2>1. CASE RowsStay(p)
    BY <2>1 DEF RowsStay, Live
  <2>2. CASE EraseAccount(p)
    <3>1. failed' \in [Pools -> SUBSET Layers]
      BY <2>2 DEF EraseAccount
    <3> QED
      BY <2>2, <3>1 DEF EraseAccount
  <2>3. CASE AccountStays(p)
    BY <2>3 DEF AccountStays
  <2> QED
    BY <1>6, <2>1, <2>2, <2>3
<1>7. CASE AnswerComplete(p) \/ AnswerPartial(p) \/ ErasureRaises(p)
  BY <1>7 DEF AnswerComplete, AnswerPartial, Answer, ErasureRaises
<1>8. CASE EndErasure(p) \/ EndErasureFails(p)
  <2>1. CASE EndErasure(p)
    BY <2>1 DEF EndErasure, Forget
  <2>2. CASE EndErasureFails(p)
    <3>1. faults' \in 0 .. MaxFaults
      BY <2>2, FaultsAreCounted DEF EndErasureFails
    <3> QED
      BY <2>2, <3>1 DEF EndErasureFails, Forget
  <2> QED
    BY <1>8, <2>1, <2>2
<1>9. CASE Crash(p)
  <2>1. ASSUME NEW w \in Writers, Busy(w) PROVE [writer[w] EXCEPT !.alive = FALSE] \in Work
    <3>1. writer[w] \in Work
      BY <2>1 DEF Busy
    <3> QED
      BY <3>1 DEF Work
  <2>2. writer' \in [Writers -> Work \cup {Resting}]
    BY <1>9, <2>1 DEF Crash, Busy
  <2>3. faults' \in 0 .. MaxFaults
    BY <1>9, FaultsAreCounted DEF Crash
  <2> QED
    BY <1>9, <2>2, <2>3 DEF Crash, Forget
<1> QED
  BY <1>1, <1>2, <1>3, <1>4, <1>5, <1>6, <1>7, <1>8, <1>9 DEF ErasureStep

LEMMA TypeStep == TypeOK /\ [Next]_vars => TypeOK'
<1>1. CASE UNCHANGED vars
  BY <1>1 DEF vars, layers, request, TypeOK
<1> QED
  BY <1>1, TypeStepBeside, TypeStepErasing DEF Next

\* The lock: who may erase, and who has a claim.
LEMMA LockStep == TypeOK /\ LockInv /\ [Next]_vars => LockInv'
<1> SUFFICES ASSUME TypeOK, LockInv, [Next]_vars PROVE LockInv'
  OBVIOUS
<1> USE DEF LockInv, OneErasureAtATime, BarrierDrops, ClaimsAreLive, Erasing, Gone, layers, request
<1>1. ASSUME NEW c \in Convs, CreateConversation(c) PROVE LockInv'
  BY <1>1 DEF CreateConversation, Busy, TypeOK
<1>2. ASSUME NEW w \in Writers, NEW k \in Kinds, NEW c \in Convs, Start(w, k, c) PROVE LockInv'
  <2>1. \A v \in Writers \ {w} : writer'[v] = Dropped(Claiming(k, c))[v]
    BY <1>2, DroppedWriters DEF Start
  <2>2. writer'[w].conv = c
    BY <1>2, DroppedWriters DEF Start, Working
  <2> QED
    BY <1>2, <2>1, <2>2, DroppedWriters DEF Start, NoBarrier, Busy
<1>3. ASSUME NEW w \in Writers, WriteThread(w) \/ WriteMemory(w) PROVE LockInv'
  BY <1>3 DEF WriteThread, WriteMemory, Busy
<1>4. ASSUME NEW w \in Writers, Finish(w) PROVE LockInv'
  BY <1>4 DEF Finish, Rest, Busy, TypeOK
<1>5. ASSUME NEW w \in Writers, Lapse(w) PROVE LockInv'
  BY <1>5 DEF Lapse, Busy, TypeOK, Work
<1>6. ASSUME NEW cs \in SUBSET Convs, NEW after \in {"live", "deleted"}, DeleteRows(cs, after)
      PROVE  LockInv'
  <2>1. \A w \in Writers : Busy(w) /\ writer[w].conv \in cs => w \in ClaimsOn(cs)
    BY DEF ClaimsOn
  <2>2. \A w \in Writers : Busy(w) => writer[w].conv \in Convs
    BY DEF Busy, TypeOK, Work
  <2> QED
    BY <1>6, <2>1, <2>2, DroppedWriters DEF DeleteRows, Busy
<1>7. ASSUME NEW c \in Convs, DropThread(c) PROVE LockInv'
  BY <1>7 DEF DropThread, Busy
<1>8. ASSUME NEW p \in Pools, BeginErasure(p) PROVE LockInv'
  BY <1>8, OustedWriters DEF BeginErasure, LockIsFree, Goto, Busy, TypeOK
<1>9. ASSUME NEW p \in Pools, EraseRows(p) PROVE LockInv'
  BY <1>9, DroppedWriters DEF EraseRows, ThreadsAreDone, Goto, Busy, TypeOK, Phases
<1>10. ASSUME NEW p \in Pools, EndErasure(p) \/ EndErasureFails(p) PROVE LockInv'
  BY <1>10 DEF EndErasure, EndErasureFails, Forget, Released, Goto, Busy, TypeOK, Phases
<1>11. ASSUME NEW p \in Pools, Crash(p) PROVE LockInv'
  <2>1. \A w \in Writers : writer'[w] # Resting =>
          Busy(w) /\ writer'[w].conv = writer[w].conv /\ writer'[w].claim = writer[w].claim
    BY <1>11 DEF Crash, Busy, TypeOK, Work
  <2> QED
    BY <1>11, <2>1 DEF Crash, Forget, Goto, Busy, TypeOK, Phases
<1>12. ASSUME NEW p \in Pools,
              \/ ListConversations(p) \/ EraseMemory(p) \/ \E c \in Convs : EraseThread(p, c)
              \/ RowsStay(p) \/ EraseAccount(p) \/ AccountStays(p)
              \/ AnswerComplete(p) \/ AnswerPartial(p) \/ ErasureRaises(p)
       PROVE  LockInv'
  <2>1. step[p] \in Phases /\ UNCHANGED <<conv, barrier, writer>>
    BY <1>12 DEF ListConversations, EraseMemory, EraseThread, RowsStay, EraseAccount, AccountStays,
                 AnswerComplete, AnswerPartial, Answer, ErasureRaises, ThreadsAreDone, Phases
  <2>2. \A q \in Pools \ {p} : step'[q] = step[q]
    BY <1>12 DEF ListConversations, EraseMemory, EraseThread, RowsStay, EraseAccount, AccountStays,
                 AnswerComplete, AnswerPartial, Answer, ErasureRaises, Goto, TypeOK
  <2> QED
    BY <2>1, <2>2 DEF Busy
<1>13. CASE UNCHANGED vars
  BY <1>13 DEF vars, Busy
<1> QED
  BY <1>1, <1>2, <1>3, <1>4, <1>5, <1>6, <1>7, <1>8, <1>9, <1>10, <1>11, <1>12, <1>13
     DEF Next, WriterStep, RouteStep, ErasureStep, DeleteConversation, ClearConversation,
         ClearHistory, Live

\* A thread comes to hold something under a claim only where no erasure runs and
\* the rows are there.
LEMMA ThreadStep ==
  ASSUME TypeOK, LockInv, [Next]_vars, NEW c \in Convs, ~Leftover(c), Leftover(c)'
  PROVE  ~barrier /\ conv[c] = "live" /\ UNCHANGED <<conv, barrier>>
<1>1. PICK w \in Writers : WriteThread(w)
  BY DEF Next, vars, layers, request, Leftover, TypeOK, CreateConversation, WriterStep, Start, WriteMemory,
         Finish, Lapse, RouteStep, DeleteConversation, ClearConversation, ClearHistory, DeleteRows,
         DropThread, BeginErasure, ErasureStep, ListConversations, EraseMemory, EraseThread,
         EraseRows, RowsStay, EraseAccount, AccountStays, AnswerComplete, AnswerPartial, Answer,
         ErasureRaises, EndErasure, EndErasureFails, Crash
<1>2. writer[w].conv = c /\ ~Gone(w) /\ Busy(w)
  BY <1>1 DEF WriteThread, Marked, Leftover, TypeOK, Alive
<1> QED
  BY <1>1, <1>2 DEF WriteThread, LockInv, BarrierDrops, ClaimsAreLive

\* Who changes the rows.
LEMMA RowsChange ==
  ASSUME [Next]_vars
  PROVE  \/ UNCHANGED conv
         \/ \E c \in Convs : CreateConversation(c)
         \/ \E cs \in SUBSET Live, after \in {"live", "deleted"} : DeleteRows(cs, after)
         \/ \E p \in Pools : EraseRows(p)
<1>1. CASE RouteStep
  <2>1. ASSUME NEW cs, NEW after \in {"live", "deleted"}, DeleteRows(cs, after)
        PROVE  cs \in SUBSET Live
    BY <2>1 DEF DeleteRows
  <2> QED
    BY <1>1, <2>1 DEF RouteStep, DeleteConversation, ClearConversation, ClearHistory, DropThread
<1>2. CASE UNCHANGED vars
  BY <1>2 DEF vars, layers
<1>3. ASSUME NEW w \in Writers, WriterStep(w) PROVE UNCHANGED conv
  BY <1>3 DEF WriterStep, Start, WriteThread, WriteMemory, Finish, Lapse, layers
<1>4. ASSUME NEW p \in Pools, BeginErasure(p) \/ ErasureStep(p) \/ Crash(p)
      PROVE  UNCHANGED conv \/ EraseRows(p)
  BY <1>4 DEF BeginErasure, ErasureStep, ListConversations, EraseMemory, EraseThread, RowsStay,
         EraseAccount, AccountStays, AnswerComplete, AnswerPartial, Answer, ErasureRaises,
         EndErasure, EndErasureFails, Crash, layers
<1> QED
  BY <1>1, <1>2, <1>3, <1>4 DEF Next

\* Rows are erased when the threads behind them are gone, and ids are fresh.
LEMMA RowsStep == IInv /\ [Next]_vars => RowsInv'
<1> SUFFICES ASSUME IInv, [Next]_vars PROVE RowsInv'
  OBVIOUS
<1>1. ASSUME NEW c \in Convs, conv'[c] = "unused" PROVE conv[c] = "unused"
  BY <1>1, RowsChange DEF IInv, TypeOK, CreateConversation, DeleteRows, EraseRows
<1>2. ASSUME NEW c \in Convs, conv'[c] = "erased", conv[c] # "erased" PROVE ~Leftover(c)'
  <2>1. PICK p \in Pools : EraseRows(p)
    BY <1>2, RowsChange DEF IInv, TypeOK, CreateConversation, DeleteRows
  <2>2. conv[c] = "live"
    BY <1>2, <2>1 DEF EraseRows, Live
  <2> QED
    BY <2>1, <2>2 DEF EraseRows, ThreadsAreDone, RowsMayGo, IInv, Progress, ThreadsAreListed, Leftover
<1> QED
  BY <1>1, <1>2, ThreadStep DEF IInv, RowsInv, NewIdsAreBlank, RowsOutliveThreads

\* Memory comes to hold something under a claim only where no erasure runs.
LEMMA MemoryStep ==
  ASSUME TypeOK, LockInv, [Next]_vars, memory # "held", memory' = "held"
  PROVE  ~barrier /\ UNCHANGED <<step, failed, barrier>>
<1>1. PICK w \in Writers : WriteMemory(w)
  BY DEF Next, vars, layers, request, CreateConversation, WriterStep, Start, WriteThread,
         Finish, Lapse, RouteStep, DeleteConversation, ClearConversation, ClearHistory, DeleteRows,
         DropThread, BeginErasure, ErasureStep, ListConversations, EraseMemory, EraseThread,
         EraseRows, RowsStay, EraseAccount, AccountStays, AnswerComplete, AnswerPartial, Answer,
         ErasureRaises, EndErasure, EndErasureFails, Crash
<1>2. ~Gone(w) /\ Busy(w)
  BY <1>1 DEF WriteMemory, Marked, Alive
<1> QED
  BY <1>1, <1>2 DEF WriteMemory, LockInv, BarrierDrops, request

\* Behind the barrier nothing comes back that an erasure has removed.
LEMMA NothingComesBack ==
  ASSUME IInv, [Next]_vars, barrier
  PROVE  /\ memory' = "held" => memory = "held"
         /\ account' => account
         /\ \A c \in Convs : (conv[c] = "live" /\ Leftover(c))' => conv[c] = "live" /\ Leftover(c)
         /\ \A c \in Convs : conv[c] \in {"deleted", "erased"} => conv'[c] = conv[c]
<1>1. account' => account
  BY DEF IInv, TypeOK, Next, vars, layers, request, CreateConversation, WriterStep, Start,
         WriteThread, WriteMemory, Finish, Lapse, RouteStep, DeleteConversation, ClearConversation,
         ClearHistory, DeleteRows, DropThread, BeginErasure, ErasureStep, ListConversations,
         EraseMemory, EraseThread, EraseRows, RowsStay, EraseAccount, AccountStays,
         AnswerComplete, AnswerPartial, Answer, ErasureRaises, EndErasure, EndErasureFails, Crash
<1>2. ASSUME NEW c \in Convs, conv'[c] = "live" PROVE conv[c] \in {"live", "unused"}
  BY <1>2, RowsChange DEF IInv, TypeOK, CreateConversation, DeleteRows, EraseRows, Live
<1>3. ASSUME NEW c \in Convs, Leftover(c)' PROVE Leftover(c)
  BY <1>3, ThreadStep DEF IInv
<1>4. ASSUME NEW c \in Convs, conv[c] \in {"deleted", "erased"} PROVE conv'[c] = conv[c]
  BY <1>4, RowsChange DEF IInv, TypeOK, CreateConversation, DeleteRows, EraseRows, Live
<1> QED
  BY <1>1, <1>2, <1>3, <1>4, MemoryStep DEF IInv, RowsInv, NewIdsAreBlank

\* Layer by layer: what an erasure that is still ok has behind it.
LEMMA ProgressStep == IInv /\ [Next]_vars => Progress'
<1> SUFFICES ASSUME IInv, [Next]_vars, NEW q \in Pools, failed'[q] = {}
             PROVE  /\ step'[q] \in {"threads", "account", "slices"} => memory' # "held"
                    /\ step'[q] \in {"memory", "threads"} =>
                         \A c \in Convs : (conv[c] = "live" /\ Leftover(c))' => c \in todo'[q]
                    /\ step'[q] \in {"account", "slices"} =>
                         \A c \in Convs : (conv[c] = "live" => ~Leftover(c))'
                    /\ step'[q] \in {"account", "slices"} =>
                         \A c \in there'[q] : conv'[c] \in {"deleted", "erased"}
                    /\ step'[q] = "slices" => ~account'
  BY DEF Progress, MemoryIsGone, ThreadsAreListed, ThreadsAreGone, RowsAreGone, AccountIsGone
<1> USE DEF IInv, Progress, MemoryIsGone, ThreadsAreListed, ThreadsAreGone, RowsAreGone, AccountIsGone, TypeOK
<1>1. step[q] \in Phases => barrier
  BY DEF LockInv, OneErasureAtATime, Erasing
<1>2. CASE step'[q] = step[q] /\ UNCHANGED <<todo[q], failed[q], there[q]>>
  BY <1>1, <1>2, NothingComesBack DEF Phases
<1>3. CASE BeginErasure(q)
  BY <1>3 DEF BeginErasure, Goto
<1>4. CASE ListConversations(q)
  <2>1. todo'[q] = Live /\ step'[q] = "memory" /\ conv' = conv
    BY <1>4 DEF ListConversations, Goto, layers
  <2> QED
    BY <2>1 DEF Live
<1>5. CASE EraseMemory(q)
  BY <1>5 DEF EraseMemory, Goto, Tried, Leftover
<1>6. CASE \E c \in Convs : EraseThread(q, c)
  <2>1. PICK c \in Convs : EraseThread(q, c)
    BY <1>6
  <2>2. step[q] = "threads" /\ step'[q] = "threads" /\ failed[q] = {} /\ ~Leftover(c)' /\ memory' = memory
    <3>1. PICK left \in {"nothing", thread[c]}, seen \in BOOLEAN :
            thread' = [thread EXCEPT ![c] = left] /\ Tried(q, "threads", seen /\ left = "nothing")
      BY <2>1 DEF EraseThread
    <3>2. failed[q] = {} /\ left = "nothing"
      BY <3>1 DEF Tried
    <3> QED
      BY <2>1, <3>1, <3>2 DEF EraseThread, Leftover
  <2>3. \A d \in Convs \ {c} : Leftover(d)' <=> Leftover(d)
    BY <2>1 DEF EraseThread, Leftover
  <2> QED
    BY <2>1, <2>2, <2>3 DEF EraseThread
<1>7. CASE EraseRows(q)
  BY <1>7 DEF EraseRows, ThreadsAreDone, RowsMayGo, Goto, Live, Leftover
<1>8. CASE EraseAccount(q)
  BY <1>8 DEF EraseAccount, AccountMayGo, Goto, Leftover
<1>9. CASE \/ RowsStay(q) \/ AccountStays(q)
           \/ EndErasure(q) \/ EndErasureFails(q) \/ Crash(q)
  <2>1. CASE RowsStay(q) \/ AccountStays(q)
    <3>1. ASSUME NEW layer \in Layers, Tried(q, layer, FALSE) PROVE failed'[q] # {}
      BY <3>1 DEF Tried
    <3> QED
      BY <2>1, <3>1 DEF RowsStay, AccountStays, Layers
  <2>2. CASE EndErasure(q) \/ EndErasureFails(q) \/ Crash(q)
    <3>1. step'[q] = "idle"
      BY <2>2 DEF EndErasure, EndErasureFails, Crash, Forget, Goto
    <3> QED
      BY <3>1
  <2> QED
    BY <1>9, <2>1, <2>2
<1>10. CASE AnswerComplete(q) \/ AnswerPartial(q) \/ ErasureRaises(q)
  BY <1>10 DEF AnswerComplete, AnswerPartial, Answer, ErasureRaises, Goto
<1>11. ASSUME NEW p \in Pools \ {q}, BeginErasure(p) \/ ErasureStep(p) \/ Crash(p)
       PROVE  step'[q] = step[q] /\ UNCHANGED <<todo[q], failed[q], there[q]>>
  BY <1>11 DEF BeginErasure, ErasureStep, ListConversations, EraseMemory, EraseThread, EraseRows,
         RowsStay, EraseAccount, AccountStays, AnswerComplete, AnswerPartial, Answer, ErasureRaises,
         EndErasure, EndErasureFails, Crash, Forget, Tried, Goto, request
<1>12. ASSUME \/ \E c \in Convs : CreateConversation(c)
              \/ \E w \in Writers : WriterStep(w)
              \/ RouteStep
              \/ UNCHANGED vars
       PROVE  step'[q] = step[q] /\ UNCHANGED <<todo[q], failed[q], there[q]>>
  BY <1>12 DEF vars, request, CreateConversation, WriterStep, Start, WriteThread, WriteMemory,
         Finish, Lapse, RouteStep, DeleteConversation, ClearConversation, ClearHistory, DeleteRows,
         DropThread
<1> HIDE DEF IInv, Progress, MemoryIsGone, ThreadsAreListed, ThreadsAreGone, RowsAreGone, AccountIsGone, TypeOK
<1> QED
  BY <1>2, <1>3, <1>4, <1>5, <1>6, <1>7, <1>8, <1>9, <1>10, <1>11, <1>12 DEF Next, ErasureStep

\* The inductive invariant: one lock, no claim behind it, and what every layer
\* that was passed has left.
THEOREM Invariance == Spec => []IInv
<1>1. IInv /\ [Next]_vars => IInv'
  BY TypeStep, LockStep, RowsStep, ProgressStep DEF IInv
<1> QED
  BY InitInv, <1>1, PTL DEF Spec

\* Every reachable state has the right types, whatever fails and whoever dies.
THEOREM TypeCorrect == Spec => []TypeOK
<1>1. IInv => TypeOK
  BY DEF IInv
<1> QED
  BY Invariance, <1>1, PTL

\* Two processes never erase one user at once, and the lock stays while one does.
THEOREM OneErasureAtATimeHolds == Spec => []OneErasureAtATime
<1>1. IInv => OneErasureAtATime
  BY DEF IInv, LockInv
<1> QED
  BY Invariance, <1>1, PTL

\* Rows that an erasure has taken had no thread left behind them, and get none.
THEOREM RowsOutliveThreadsHolds == Spec => []RowsOutliveThreads
<1>1. IInv => RowsOutliveThreads
  BY DEF IInv, RowsInv
<1> QED
  BY Invariance, <1>1, PTL

\* Only an answer makes an answer.
LEMMA WhoAnswers ==
  ASSUME TypeOK, [Next]_vars, NEW p \in Pools, Answers(p)
  PROVE  AnswerComplete(p)
<1>1. \E q \in Pools : AnswerComplete(q) \/ AnswerPartial(q)
  BY DEF Answers, TypeOK, Next, vars, request, CreateConversation, WriterStep, Start, WriteThread,
         WriteMemory, Finish, Lapse, RouteStep, DeleteConversation, ClearConversation,
         ClearHistory, DeleteRows, DropThread, BeginErasure, ErasureStep, ListConversations,
         EraseMemory, EraseThread, EraseRows, RowsStay, EraseAccount, AccountStays,
         ErasureRaises, EndErasure, EndErasureFails, Crash, Forget
<1> QED
  BY <1>1 DEF AnswerComplete, AnswerPartial, Answer, Answers, TypeOK

\* An erasure that answers "complete" leaves nothing that anyone wrote under a
\* claim, but the threads of rows that a delete route had taken before, and no row
\* that was there when it came to the rows.
THEOREM CompleteErasesHolds == Spec => CompleteErases
<1>1. ASSUME IInv, [Next]_vars, NEW p \in Pools, Answers(p)
      PROVE  /\ memory' # "held" /\ ~account' /\ ~RowsOf(p)'
             /\ \A c \in Convs : thread'[c] = "held" => conv'[c] = "deleted"
  <2>1. step[p] = "slices" /\ failed[p] = {} /\ UNCHANGED <<conv, account, thread, memory, there>>
    BY <1>1, WhoAnswers DEF AnswerComplete, Answer, layers, IInv
  <2>2. /\ memory # "held" /\ ~account /\ ~RowsOf(p)
        /\ \A c \in Convs : conv[c] = "live" => ~Leftover(c)
    BY <1>1, <2>1
       DEF IInv, Progress, MemoryIsGone, ThreadsAreGone, RowsAreGone, AccountIsGone, RowsOf
  <2>3. \A c \in Convs : conv[c] \in {"unused", "erased"} => ~Leftover(c)
    BY <1>1 DEF IInv, RowsInv, NewIdsAreBlank, RowsOutliveThreads
  <2> QED
    BY <1>1, <2>1, <2>2, <2>3 DEF IInv, TypeOK, Leftover, RowsOf
<1>2. IInv /\ [Next]_vars =>
        [\A p \in Pools : Answers(p) =>
           /\ memory' # "held" /\ ~account' /\ ~RowsOf(p)'
           /\ \A c \in Convs : thread'[c] = "held" => conv'[c] = "deleted"]_vars
  BY <1>1
<1> QED
  BY Invariance, <1>2, PTL DEF Spec, CompleteErases

\* The credentials go when rows, threads and memory have gone.
THEOREM CredentialsGoLastHolds == Spec => CredentialsGoLast
<1>1. ASSUME IInv, [Next]_vars, account, ~account'
      PROVE  /\ memory # "held"
             /\ \A q \in Pools : step[q] = "account" => ~RowsOf(q)
             /\ \A c \in Convs : conv[c] = "live" => ~Leftover(c)
  <2>1. PICK p \in Pools : EraseAccount(p)
    BY <1>1 DEF Next, vars, layers, request, CreateConversation, WriterStep, Start, WriteThread,
           WriteMemory, Finish, Lapse, RouteStep, DeleteConversation, ClearConversation,
           ClearHistory, DeleteRows, DropThread, BeginErasure, ErasureStep, ListConversations,
           EraseMemory, EraseThread, EraseRows, RowsStay, AccountStays,
           AnswerComplete, AnswerPartial, Answer, ErasureRaises, EndErasure, EndErasureFails, Crash
  <2>2. \A q \in Pools \ {p} : step[q] # "account"
    BY <1>1, <2>1 DEF EraseAccount, IInv, LockInv, OneErasureAtATime, Erasing, Phases
  <2>3. /\ memory # "held" /\ ~RowsOf(p)
        /\ \A c \in Convs : conv[c] = "live" => ~Leftover(c)
    BY <1>1, <2>1
       DEF EraseAccount, AccountMayGo, IInv, Progress, MemoryIsGone, ThreadsAreGone, RowsAreGone, RowsOf
  <2> QED
    BY <2>2, <2>3
<1>2. IInv /\ [Next]_vars =>
        [account /\ ~account' =>
           /\ memory # "held"
           /\ \A p \in Pools : step[p] = "account" => ~RowsOf(p)
           /\ \A c \in Convs : conv[c] = "live" => ~Leftover(c)]_vars
  BY <1>1
<1> QED
  BY Invariance, <1>2, PTL DEF Spec, CredentialsGoLast
=============================================================================
