-------------------------- MODULE ToolWrites_proofs --------------------------
(***************************************************************************)
(* The inductive invariant of ToolWrites and what follows from it for any  *)
(* calls and keys, and any number of crashes, lost connections and store   *)
(* errors.                                                                 *)
(***************************************************************************)
EXTENDS ToolWrites, TLAPS

\* A pipeline that will still write the outcome of its function down.
Owns(c) == call[c].pipe \in {"running", "late"}

\* A call has a key from when it is sent; before that nothing has come of it.
CallInv ==
  \A c \in Calls : IF call[c].pipe = "none"
                      THEN call[c].body = "none" /\ call[c].answer = "none" /\ ~call[c].remote
                      ELSE call[c].key \in Keys

\* A function runs under a key that the ledger knows, and nobody starts it twice.
StartInv ==
  /\ \A c \in Calls :
       /\ call[c].pipe \in {"none", "reading", "claiming", "lost"} => ~Started(c)
       /\ Started(c) \/ call[c].pipe = "lost" => record[call[c].key] # "absent"
  /\ AtMostOnce

\* Nobody settles the outcome of a function before its own pipeline does.
OwnerInv ==
  \A c \in Calls : Owns(c) =>
    Started(c) /\ record[call[c].key] \in {"running", "unknown"}

\* A complete record stands for a write.
CompleteInv ==
  \A k \in Keys : record[k] = "complete" =>
    \E d \in Calls : call[d].key = k /\ call[d].body = "wrote"

\* What callers were told agrees with the record, and nobody is left to change it.
AnswerInv ==
  \A c \in Calls :
    /\ Success(c) => record[call[c].key] = "complete"
    /\ call[c].answer = "failed" =>
         /\ record[call[c].key] \in {"failed", "unknown"}
         /\ \A d \in Calls : call[d].key = call[c].key => ~Owns(d)

IInv == TypeOK /\ CallInv /\ StartInv /\ OwnerInv /\ CompleteInv /\ AnswerInv

-----------------------------------------------------------------------------
(* The records of calls.                                                    *)

\* What a step of one call does to it: the pipeline moves, the function becomes b, and a caller
\* who is still there is told a.
Moves(c, p, b, a) ==
  /\ call' \in [Calls -> CallRecords]
  /\ \A d \in Calls \ {c} : call'[d] = call[d]
  /\ call'[c].pipe = p
  /\ call'[c].key = call[c].key
  /\ call'[c].remote = call[c].remote
  /\ call'[c].body = b
  /\ call'[c].answer = IF call[c].answer = "none" THEN a ELSE call[c].answer

\* Answering leaves the rest of the record alone.
LEMMA AnsweredMoves ==
  ASSUME TypeOK, NEW c \in Calls, NEW p \in Pipes, NEW a \in Answers,
         call' = [call EXCEPT ![c] = Answered(c, p, a)]
  PROVE  Moves(c, p, call[c].body, a)
<1>1. call[c] \in CallRecords
  BY DEF TypeOK
<1>2. /\ Answered(c, p, a) \in CallRecords
      /\ Answered(c, p, a).pipe = p
      /\ Answered(c, p, a).key = call[c].key
      /\ Answered(c, p, a).remote = call[c].remote
      /\ Answered(c, p, a).body = call[c].body
      /\ Answered(c, p, a).answer = IF call[c].answer = "none" THEN a ELSE call[c].answer
  BY <1>1 DEF Answered, CallRecords
<1> QED
  BY <1>2 DEF Moves, TypeOK

\* A death ends the pipelines it reaches, and takes functions that have not written with it.
LEMMA DyingFields ==
  ASSUME TypeOK, NEW c \in Calls, NEW r \in BOOLEAN
  PROVE  LET x == Dying(call[c], r)
         IN  /\ x \in CallRecords
             /\ x.key = call[c].key
             /\ x.remote = call[c].remote
             /\ x.pipe \in {call[c].pipe, "dead"}
             /\ x.pipe = "none" <=> call[c].pipe = "none"
             /\ x.body = "none" <=> call[c].body = "none"
             /\ call[c].body = "wrote" => x.body = "wrote"
             /\ x.answer # call[c].answer => x.answer = "gone" /\ call[c].pipe # "none"
<1>1. call[c] \in CallRecords
  BY DEF TypeOK
<1>2. /\ "dead" \in Pipes
      /\ "gone" \in Answers
  BY DEF Pipes, Answers
<1> QED
  BY <1>1, <1>2 DEF Dying, CallRecords

-----------------------------------------------------------------------------
(* The steps.                                                               *)

\* No call has been sent and the ledger is empty.
LEMMA Initially == Init => IInv
  BY NoneIsNoKey, FaultsAreNat
     DEF Init, IInv, TypeOK, CallInv, StartInv, AtMostOnce, Started, OwnerInv, Owns,
         CompleteInv, AnswerInv, Success, Call, NoCall, CallRecords, Pipes, Answers, Statuses

\* A key that is taken has one of the four statuses.
LEMMA TakenStatus ==
  ASSUME TypeOK, NEW k \in Keys
  PROVE  /\ CurrentRecord(k) \in Statuses \cup {"absent"}
         /\ Taken(k) <=> record[k] # "absent"
         /\ Taken(k) => CurrentRecord(k) \in Statuses /\ ReplayOf(CurrentRecord(k)) \in Answers
         /\ CurrentRecord(k) # record[k] => record[k] = "running" /\ CurrentRecord(k) = "unknown"
  BY DEF TypeOK, CurrentRecord, Taken, ReplayOf, Statuses, Answers

\* The steps of a pipeline, each as a move of its call.
LEMMA PipelineMoves ==
  ASSUME TypeOK, CallInv, NEW c \in Calls
  PROVE  LET k == call[c].key
             b == call[c].body
         IN  /\ ReadRecord(c) =>
                  IF Taken(k) THEN Moves(c, "ended", b, ReplayOf(CurrentRecord(k)))
                              ELSE Moves(c, "claiming", b, "none")
             /\ ClaimWins(c)  => Moves(c, "running", "running", "none")
             /\ ClaimLoses(c) => Moves(c, "lost", b, "none")
             /\ StartInv /\ ReportLoss(c) =>
                  Moves(c, "ended", b, IF CurrentRecord(k) = "complete" THEN "lost"
                                       ELSE CurrentRecord(k))
             /\ \A x \in {"wrote", "refused"} :
                  BodyEnds(c, x) => Moves(c, call[c].pipe, x, "none")
             /\ Complete(c)       => Moves(c, "ended", b, "complete")
             /\ CompleteRaises(c) => Moves(c, "late", b, "none")
             /\ Fail(c)           => Moves(c, "ended", b, "failed")
             /\ FailRaises(c)     => Moves(c, "ended", b, "raised")
<1> USE DEF Pipes, Answers
<1>1. /\ call \in [Calls -> CallRecords]
      /\ call[c] \in CallRecords
  BY DEF TypeOK
<1>2. ASSUME ReadRecord(c)
      PROVE  IF Taken(call[c].key)
               THEN Moves(c, "ended", call[c].body, ReplayOf(CurrentRecord(call[c].key)))
               ELSE Moves(c, "claiming", call[c].body, "none")
  <2>1. call[c].key \in Keys
    BY <1>2 DEF ReadRecord, CallInv
  <2>2. CASE Taken(call[c].key)
    BY <1>2, <2>1, <2>2, TakenStatus, AnsweredMoves DEF ReadRecord
  <2>3. CASE ~Taken(call[c].key)
    <3>1. call' = [call EXCEPT ![c] = [call[c] EXCEPT !.pipe = "claiming"]]
      BY <1>2, <2>3 DEF ReadRecord
    <3> QED
      BY <1>1, <2>3, <3>1 DEF Moves, CallRecords
  <2> QED
    BY <2>2, <2>3
<1>3. ClaimWins(c) => Moves(c, "running", "running", "none")
  <2>1. ClaimWins(c) => call' = [call EXCEPT ![c] = [call[c] EXCEPT !.pipe = "running",
                                                                    !.body = "running"]]
    BY DEF ClaimWins
  <2> DEFINE won == [call[c] EXCEPT !.pipe = "running", !.body = "running"]
  <2>2. /\ won \in CallRecords
        /\ won.pipe = "running" /\ won.body = "running"
        /\ won.key = call[c].key /\ won.remote = call[c].remote
        /\ won.answer = call[c].answer
    BY <1>1 DEF CallRecords
  <2> HIDE DEF won
  <2>3. ASSUME call' = [call EXCEPT ![c] = won] PROVE Moves(c, "running", "running", "none")
    BY <1>1, <2>2, <2>3 DEF Moves
  <2> QED
    BY <2>1, <2>3 DEF won
<1>4. ClaimLoses(c) => Moves(c, "lost", call[c].body, "none")
  BY <1>1 DEF ClaimLoses, Moves, CallRecords
<1>5. ASSUME StartInv, ReportLoss(c)
      PROVE  Moves(c, "ended", call[c].body, IF CurrentRecord(call[c].key) = "complete"
                                               THEN "lost" ELSE CurrentRecord(call[c].key))
  <2>1. call[c].key \in Keys /\ record[call[c].key] # "absent"
    BY <1>5 DEF ReportLoss, CallInv, StartInv
  <2>2. CurrentRecord(call[c].key) \in Statuses
    BY <2>1, TakenStatus
  <2> QED
    BY <1>5, <2>2, AnsweredMoves DEF ReportLoss, Statuses
<1>6. \A x \in {"wrote", "refused"} :
        BodyEnds(c, x) => Moves(c, call[c].pipe, x, "none")
  BY <1>1 DEF BodyEnds, Moves, CallRecords
<1>7. Complete(c) => Moves(c, "ended", call[c].body, "complete")
  BY AnsweredMoves DEF Complete
<1>8. CompleteRaises(c) => Moves(c, "late", call[c].body, "none")
  BY <1>1 DEF CompleteRaises, Moves, CallRecords
<1>9. Fail(c) => Moves(c, "ended", call[c].body, "failed")
  BY AnsweredMoves DEF Fail
<1>10. FailRaises(c) => Moves(c, "ended", call[c].body, "raised")
  BY AnsweredMoves DEF FailRaises
<1> QED
  BY <1>2, <1>3, <1>4, <1>5, <1>6, <1>7, <1>8, <1>9, <1>10

\* What callers and connections do, as moves of their call.
LEMMA FaultMoves ==
  ASSUME TypeOK, NEW c \in Calls
  PROVE  /\ CallerStops(c)    => Moves(c, call[c].pipe, call[c].body, "gone")
         /\ CallerCancels(c)  => Moves(c, "dead", call[c].body, "gone")
         /\ TransportFails(c) => Moves(c, call[c].pipe, call[c].body, "unknown")
<1> USE DEF Pipes, Answers
<1>1. /\ call \in [Calls -> CallRecords]
      /\ call[c] \in CallRecords
  BY DEF TypeOK
<1>2. CallerStops(c) => Moves(c, call[c].pipe, call[c].body, "gone")
  BY <1>1 DEF CallerStops, Moves, CallRecords
<1>3. CallerCancels(c) => Moves(c, "dead", call[c].body, "gone")
  BY AnsweredMoves DEF CallerCancels
<1>4. TransportFails(c) => Moves(c, call[c].pipe, call[c].body, "unknown")
  <2>1. TransportFails(c) =>
          call' = [call EXCEPT ![c] = Answered(c, call[c].pipe, "unknown")]
    BY DEF TransportFails
  <2>2. call[c].pipe \in Pipes
    BY <1>1 DEF CallRecords
  <2> QED
    BY <2>1, <2>2, AnsweredMoves
<1> QED
  BY <1>2, <1>3, <1>4

-----------------------------------------------------------------------------
(* Kinds of steps: what the invariant needs to know of them.                *)

\* A pipeline without a function reads the ledger and reports what it finds.
Looks(c) ==
  LET k == call[c].key
  IN  \E p \in {"claiming", "lost", "ended"}, a \in Answers :
        /\ call[c].pipe \in {"reading", "claiming", "lost"}
        /\ p = "lost" => record[k] # "absent"
        /\ a # "complete"
        /\ a = "replayed" => CurrentRecord(k) = "complete"
        /\ a = "failed" => CurrentRecord(k) = "failed"
        /\ SetRecord(k, CurrentRecord(k))
        /\ Moves(c, p, call[c].body, a)

\* A pipeline wins the key, and its function starts.
Wins(c) ==
  /\ call[c].pipe = "claiming"
  /\ record[call[c].key] = "absent"
  /\ SetRecord(call[c].key, "running")
  /\ Moves(c, "running", "running", "none")

\* A function ends, a caller leaves, the store raises: the ledger does not notice.
Passes(c) ==
  /\ call[c].pipe # "none"
  /\ \E p \in Pipes, b \in {"none", "running", "wrote", "refused"},
        a \in {"none", "raised", "gone"} :
       /\ p = call[c].pipe \/ (Owns(c) /\ p \in {"late", "ended"})
       /\ b = call[c].body \/ (call[c].body = "running" /\ b \in {"wrote", "refused"})
       /\ Moves(c, p, b, a)
  /\ UNCHANGED <<record, lapsed>>

\* A pipeline records the outcome of its function.
Completes(c) ==
  /\ Owns(c)
  /\ call[c].body = "wrote"
  /\ SetRecord(call[c].key, "complete")
  /\ Moves(c, "ended", call[c].body, "complete")
Fails(c) ==
  LET k == call[c].key
  IN  /\ Owns(c)
      /\ IF record[k] = "running" THEN SetRecord(k, "failed") ELSE UNCHANGED <<record, lapsed>>
      /\ Moves(c, "ended", call[c].body, "failed")

\* A caller or a client gives up, and freezes the key.
Freezes(c) ==
  LET k == call[c].key
  IN  /\ call[c].pipe # "none"
      /\ IF record[k] \in {"absent", "running", "unknown"}
           THEN SetRecord(k, "unknown") ELSE UNCHANGED <<record, lapsed>>
      /\ \E p \in {call[c].pipe, "dead"}, a \in {"unknown", "gone"} : Moves(c, p, call[c].body, a)

\* Every step is of one of these kinds.
LEMMA Kinds ==
  ASSUME IInv, Next \/ Quiet
  PROVE  \/ \E c \in Calls :
              \/ Looks(c) \/ Wins(c) \/ Passes(c) \/ Completes(c) \/ Fails(c) \/ Freezes(c)
              \/ \E k \in Keys, r \in BOOLEAN : Dispatch(c, k, r)
         \/ \E r \in BOOLEAN : ProcessDies(r)
         \/ \E k \in Keys : LeaseLapses(k)
         \/ UNCHANGED writeVars
<1> USE DEF IInv, Owns, Pipes
<1>1. ASSUME NEW c \in Calls, ReadRecord(c)
      PROVE  Looks(c)
  <2>1. call[c].pipe = "reading" /\ SetRecord(call[c].key, CurrentRecord(call[c].key))
    BY <1>1 DEF ReadRecord
  <2>2. call[c].key \in Keys
    BY <2>1 DEF CallInv
  <2>3. CASE Taken(call[c].key)
    <3>1. Moves(c, "ended", call[c].body, ReplayOf(CurrentRecord(call[c].key)))
      BY <1>1, <2>3, PipelineMoves
    <3> QED
      BY <2>1, <2>2, <2>3, <3>1, TakenStatus DEF Looks, ReplayOf, Statuses
  <2>4. CASE ~Taken(call[c].key)
    <3>1. Moves(c, "claiming", call[c].body, "none")
      BY <1>1, <2>4, PipelineMoves
    <3> QED
      BY <2>1, <3>1 DEF Looks, Answers
  <2> QED
    BY <2>3, <2>4
<1>2. ASSUME NEW c \in Calls, ClaimWins(c)
      PROVE  Wins(c)
  <2>1. call[c].pipe = "claiming" /\ ~Taken(call[c].key) /\ SetRecord(call[c].key, "running")
    BY <1>2 DEF ClaimWins
  <2>2. call[c].key \in Keys
    BY <2>1 DEF CallInv
  <2> QED
    BY <1>2, <2>1, <2>2, TakenStatus, PipelineMoves DEF Wins
<1>3. ASSUME NEW c \in Calls, ClaimLoses(c)
      PROVE  Looks(c)
  <2>1. /\ call[c].pipe = "claiming" /\ Taken(call[c].key)
        /\ SetRecord(call[c].key, CurrentRecord(call[c].key))
    BY <1>3 DEF ClaimLoses
  <2>2. call[c].key \in Keys
    BY <2>1 DEF CallInv
  <2>3. Moves(c, "lost", call[c].body, "none")
    BY <1>3, PipelineMoves
  <2> QED
    BY <2>1, <2>2, <2>3, TakenStatus DEF Looks, Answers
<1>4. ASSUME NEW c \in Calls, ReportLoss(c)
      PROVE  Looks(c)
  <2>1. call[c].pipe = "lost" /\ SetRecord(call[c].key, CurrentRecord(call[c].key))
    BY <1>4 DEF ReportLoss
  <2>2. call[c].key \in Keys /\ record[call[c].key] # "absent"
    BY <2>1 DEF CallInv, StartInv
  <2>3. Moves(c, "ended", call[c].body, IF CurrentRecord(call[c].key) = "complete"
                                          THEN "lost" ELSE CurrentRecord(call[c].key))
    BY <1>4, PipelineMoves
  <2> QED
    BY <2>1, <2>2, <2>3, TakenStatus DEF Looks, Answers, Statuses
<1>5. ASSUME NEW c \in Calls, NEW b \in {"wrote", "refused"}, BodyEnds(c, b)
      PROVE  Passes(c)
  <2>1. call[c].body = "running" /\ UNCHANGED <<record, lapsed>>
    BY <1>5 DEF BodyEnds
  <2>2. call[c].pipe \in Pipes /\ call[c].pipe # "none"
    BY <2>1 DEF TypeOK, CallRecords, StartInv, Started
  <2>3. Moves(c, call[c].pipe, b, "none")
    BY <1>5, PipelineMoves
  <2> QED
    BY <2>1, <2>2, <2>3 DEF Passes
<1>6. ASSUME NEW c \in Calls, Complete(c)
      PROVE  Completes(c)
  <2>1. Owns(c) /\ call[c].body = "wrote"
    BY <1>6 DEF Complete
  <2>2. SetRecord(call[c].key, "complete")
    BY <1>6, <2>1 DEF Complete, Completable, OwnerInv
  <2> QED
    BY <1>6, <2>1, <2>2, PipelineMoves DEF Completes
<1>7. ASSUME NEW c \in Calls, CompleteRaises(c)
      PROVE  Passes(c)
  <2>1. call[c].pipe = "running" /\ call[c].body = "wrote" /\ UNCHANGED <<record, lapsed>>
    BY <1>7 DEF CompleteRaises
  <2>2. Moves(c, "late", call[c].body, "none")
    BY <1>7, PipelineMoves
  <2> QED
    BY <2>1, <2>2 DEF Passes
<1>8. ASSUME NEW c \in Calls, Fail(c)
      PROVE  Fails(c)
  <2>1. Moves(c, "ended", call[c].body, "failed")
    BY <1>8, PipelineMoves
  <2> QED
    BY <1>8, <2>1 DEF Fail, Fails
<1>9. ASSUME NEW c \in Calls, FailRaises(c)
      PROVE  Passes(c)
  <2>1. Owns(c) /\ UNCHANGED <<record, lapsed>>
    BY <1>9 DEF FailRaises
  <2>2. Moves(c, "ended", call[c].body, "raised")
    BY <1>9, PipelineMoves
  <2>3. call[c].body \in {"none", "running", "wrote", "refused"}
    BY DEF TypeOK, CallRecords
  <2> QED
    BY <2>1, <2>2, <2>3 DEF Passes
<1>10. ASSUME NEW c \in Calls, CallerStops(c)
       PROVE  Passes(c)
  <2>1. call[c].pipe # "none" /\ UNCHANGED <<record, lapsed>>
    BY <1>10 DEF CallerStops
  <2>2. Moves(c, call[c].pipe, call[c].body, "gone")
    BY <1>10, FaultMoves
  <2>3. call[c].pipe \in Pipes /\ call[c].body \in {"none", "running", "wrote", "refused"}
    BY DEF TypeOK, CallRecords
  <2> QED
    BY <2>1, <2>2, <2>3 DEF Passes
<1>11. ASSUME NEW c \in Calls, CallerCancels(c)
       PROVE  Freezes(c)
  <2>1. Moves(c, "dead", call[c].body, "gone")
    BY <1>11, FaultMoves
  <2> QED
    BY <1>11, <2>1 DEF CallerCancels, Uncertain, Freezes, OwnerInv
<1>12. ASSUME NEW c \in Calls, TransportFails(c)
       PROVE  Freezes(c)
  <2>1. Moves(c, call[c].pipe, call[c].body, "unknown")
    BY <1>12, FaultMoves
  <2>2. call[c].pipe # "none"
    BY <1>12 DEF TransportFails, CallInv
  <2> QED
    BY <1>12, <2>1, <2>2 DEF TransportFails, Uncertain, Freezes
<1> QED
  BY <1>1, <1>2, <1>3, <1>4, <1>5, <1>6, <1>7, <1>8, <1>9, <1>10, <1>11, <1>12
     DEF Next, WriteNext, PipelineStep, Quiet

-----------------------------------------------------------------------------
(* Every kind of step keeps every part of the invariant.                    *)

\* A call keeps its key, from when it is sent.
LEMMA CallStep == IInv /\ [Next \/ Quiet]_writeVars => CallInv'
<1> SUFFICES ASSUME IInv, [Next \/ Quiet]_writeVars
             PROVE  CallInv'
  OBVIOUS
<1> USE DEF IInv, TypeOK, Moves, SetRecord, CallInv
<1>1. ASSUME NEW c \in Calls, Looks(c) PROVE CallInv'
  BY <1>1 DEF Looks, CurrentRecord
<1>2. ASSUME NEW c \in Calls, Wins(c) PROVE CallInv'
  BY <1>2 DEF Wins
<1>3. ASSUME NEW c \in Calls, Passes(c) PROVE CallInv'
  BY <1>3 DEF Passes
<1>4. ASSUME NEW c \in Calls, Completes(c) PROVE CallInv'
  BY <1>4 DEF Completes
<1>5. ASSUME NEW c \in Calls, Fails(c) PROVE CallInv'
  BY <1>5 DEF Fails, Owns
<1>6. ASSUME NEW c \in Calls, Freezes(c) PROVE CallInv'
  BY <1>6 DEF Freezes
<1>7. ASSUME NEW c \in Calls, NEW k \in Keys, NEW r \in BOOLEAN, Dispatch(c, k, r)
      PROVE  CallInv'
  BY <1>7 DEF Dispatch, Call, NoCall
<1>8. ASSUME NEW r \in BOOLEAN, ProcessDies(r) PROVE CallInv'
  <2>1. /\ \A c \in Calls : call'[c] = Dying(call[c], r)
        /\ UNCHANGED record
    BY <1>8 DEF ProcessDies
  <2> QED
    BY <2>1, DyingFields
<1>9. CASE UNCHANGED writeVars \/ \E k \in Keys : LeaseLapses(k)
  BY <1>9 DEF writeVars, LeaseLapses
<1> QED
  BY <1>1, <1>2, <1>3, <1>4, <1>5, <1>6, <1>7, <1>8, <1>9, Kinds

\* A key that is taken stays taken, so that nobody else wins it.
LEMMA StartStep == IInv /\ [Next \/ Quiet]_writeVars => StartInv'
<1> SUFFICES ASSUME IInv, [Next \/ Quiet]_writeVars
             PROVE  StartInv'
  OBVIOUS
<1> USE DEF IInv, TypeOK, Moves, SetRecord, CallInv, StartInv, AtMostOnce, Started, OwnerInv, Owns
<1>1. ASSUME NEW c \in Calls, Looks(c) PROVE StartInv'
  BY <1>1 DEF Looks, CurrentRecord
<1>2. ASSUME NEW c \in Calls, Wins(c) PROVE StartInv'
  BY <1>2 DEF Wins
<1>3. ASSUME NEW c \in Calls, Passes(c) PROVE StartInv'
  BY <1>3 DEF Passes
<1>4. ASSUME NEW c \in Calls, Completes(c) PROVE StartInv'
  BY <1>4 DEF Completes
<1>5. ASSUME NEW c \in Calls, Fails(c) PROVE StartInv'
  BY <1>5 DEF Fails
<1>6. ASSUME NEW c \in Calls, Freezes(c) PROVE StartInv'
  BY <1>6 DEF Freezes
<1>7. ASSUME NEW c \in Calls, NEW k \in Keys, NEW r \in BOOLEAN, Dispatch(c, k, r)
      PROVE  StartInv'
  BY <1>7 DEF Dispatch, Call, NoCall
<1>8. ASSUME NEW r \in BOOLEAN, ProcessDies(r) PROVE StartInv'
  <2>1. /\ \A c \in Calls : call'[c] = Dying(call[c], r)
        /\ UNCHANGED record
    BY <1>8 DEF ProcessDies
  <2> QED
    BY <2>1, DyingFields
<1>9. CASE UNCHANGED writeVars \/ \E k \in Keys : LeaseLapses(k)
  BY <1>9 DEF writeVars, LeaseLapses
<1> QED
  BY <1>1, <1>2, <1>3, <1>4, <1>5, <1>6, <1>7, <1>8, <1>9, Kinds

\* Only the owner settles a record: others read it or freeze it.
LEMMA OwnerStep == IInv /\ [Next \/ Quiet]_writeVars => OwnerInv'
<1> SUFFICES ASSUME IInv, [Next \/ Quiet]_writeVars
             PROVE  OwnerInv'
  OBVIOUS
<1> USE DEF IInv, TypeOK, Moves, SetRecord, CallInv, StartInv, AtMostOnce, Started, OwnerInv, Owns
<1>1. ASSUME NEW c \in Calls, Looks(c) PROVE OwnerInv'
  BY <1>1 DEF Looks, CurrentRecord
<1>2. ASSUME NEW c \in Calls, Wins(c) PROVE OwnerInv'
  BY <1>2 DEF Wins
<1>3. ASSUME NEW c \in Calls, Passes(c) PROVE OwnerInv'
  BY <1>3 DEF Passes
<1>4. ASSUME NEW c \in Calls, Completes(c) PROVE OwnerInv'
  BY <1>4 DEF Completes
<1>5. ASSUME NEW c \in Calls, Fails(c) PROVE OwnerInv'
  BY <1>5 DEF Fails
<1>6. ASSUME NEW c \in Calls, Freezes(c) PROVE OwnerInv'
  BY <1>6 DEF Freezes
<1>7. ASSUME NEW c \in Calls, NEW k \in Keys, NEW r \in BOOLEAN, Dispatch(c, k, r)
      PROVE  OwnerInv'
  BY <1>7 DEF Dispatch, Call, NoCall
<1>8. ASSUME NEW r \in BOOLEAN, ProcessDies(r) PROVE OwnerInv'
  <2>1. /\ \A c \in Calls : call'[c] = Dying(call[c], r)
        /\ UNCHANGED record
    BY <1>8 DEF ProcessDies
  <2> QED
    BY <2>1, DyingFields
<1>9. CASE UNCHANGED writeVars \/ \E k \in Keys : LeaseLapses(k)
  BY <1>9 DEF writeVars, LeaseLapses
<1> QED
  BY <1>1, <1>2, <1>3, <1>4, <1>5, <1>6, <1>7, <1>8, <1>9, Kinds

\* A record becomes complete after a write only.
LEMMA CompleteStep == IInv /\ [Next \/ Quiet]_writeVars => CompleteInv'
<1> SUFFICES ASSUME IInv, [Next \/ Quiet]_writeVars
             PROVE  CompleteInv'
  OBVIOUS
<1> USE DEF IInv, TypeOK, Moves, SetRecord, CompleteInv, CallInv
<1>1. ASSUME NEW c \in Calls, Looks(c) PROVE CompleteInv'
  BY <1>1 DEF Looks, CurrentRecord
<1>2. ASSUME NEW c \in Calls, Wins(c) PROVE CompleteInv'
  BY <1>2 DEF Wins
<1>3. ASSUME NEW c \in Calls, Passes(c) PROVE CompleteInv'
  BY <1>3 DEF Passes
<1>4. ASSUME NEW c \in Calls, Completes(c) PROVE CompleteInv'
  BY <1>4 DEF Completes
<1>5. ASSUME NEW c \in Calls, Fails(c) PROVE CompleteInv'
  BY <1>5 DEF Fails
<1>6. ASSUME NEW c \in Calls, Freezes(c) PROVE CompleteInv'
  BY <1>6 DEF Freezes
<1>7. ASSUME NEW c \in Calls, NEW k \in Keys, NEW r \in BOOLEAN, Dispatch(c, k, r)
      PROVE  CompleteInv'
  BY <1>7 DEF Dispatch, Call, NoCall
<1>8. ASSUME NEW r \in BOOLEAN, ProcessDies(r) PROVE CompleteInv'
  <2>1. /\ \A c \in Calls : call'[c] = Dying(call[c], r)
        /\ UNCHANGED record
    BY <1>8 DEF ProcessDies
  <2> QED
    BY <2>1, DyingFields
<1>9. CASE UNCHANGED writeVars \/ \E k \in Keys : LeaseLapses(k)
  BY <1>9 DEF writeVars, LeaseLapses
<1> QED
  BY <1>1, <1>2, <1>3, <1>4, <1>5, <1>6, <1>7, <1>8, <1>9, Kinds

\* An answer agrees with the record, and its record does not change any more.
LEMMA AnswerStep == IInv /\ [Next \/ Quiet]_writeVars => AnswerInv'
<1> SUFFICES ASSUME IInv, [Next \/ Quiet]_writeVars
             PROVE  AnswerInv'
  OBVIOUS
<1> USE DEF IInv, TypeOK, Moves, SetRecord, CallInv, StartInv, AtMostOnce, Started, OwnerInv, Owns, AnswerInv, Success
<1>1. ASSUME NEW c \in Calls, Looks(c) PROVE AnswerInv'
  BY <1>1 DEF Looks, CurrentRecord
<1>2. ASSUME NEW c \in Calls, Wins(c) PROVE AnswerInv'
  BY <1>2 DEF Wins
<1>3. ASSUME NEW c \in Calls, Passes(c) PROVE AnswerInv'
  BY <1>3 DEF Passes
<1>4. ASSUME NEW c \in Calls, Completes(c) PROVE AnswerInv'
  BY <1>4 DEF Completes
<1>5. ASSUME NEW c \in Calls, Fails(c) PROVE AnswerInv'
  BY <1>5 DEF Fails
<1>6. ASSUME NEW c \in Calls, Freezes(c) PROVE AnswerInv'
  BY <1>6 DEF Freezes
<1>7. ASSUME NEW c \in Calls, NEW k \in Keys, NEW r \in BOOLEAN, Dispatch(c, k, r)
      PROVE  AnswerInv'
  BY <1>7 DEF Dispatch, Call, NoCall
<1>8. ASSUME NEW r \in BOOLEAN, ProcessDies(r) PROVE AnswerInv'
  <2>1. /\ \A c \in Calls : call'[c] = Dying(call[c], r)
        /\ UNCHANGED record
    BY <1>8 DEF ProcessDies
  <2> QED
    BY <2>1, DyingFields
<1>9. CASE UNCHANGED writeVars \/ \E k \in Keys : LeaseLapses(k)
  BY <1>9 DEF writeVars, LeaseLapses
<1> QED
  BY <1>1, <1>2, <1>3, <1>4, <1>5, <1>6, <1>7, <1>8, <1>9, Kinds

\* Types.
LEMMA TypeStep == IInv /\ [Next \/ Quiet]_writeVars => TypeOK'
<1> SUFFICES ASSUME IInv, [Next \/ Quiet]_writeVars
             PROVE  TypeOK'
  OBVIOUS
<1> USE NoneIsNoKey, FaultsAreNat DEF IInv
<1>1. faults' \in 0 .. MaxFaults
  <2>1. faults' = faults \/ (faults < MaxFaults /\ faults' = faults + 1)
    BY DEF Next, WriteNext, PipelineStep, Quiet, ReadRecord, ClaimWins, ClaimLoses,
           ReportLoss, BodyEnds, Complete, CompleteRaises, Fail, FailRaises, CallerStops,
           CallerCancels, TransportFails, ProcessDies, LeaseLapses, Dispatch, writeVars
  <2> QED
    BY <2>1 DEF TypeOK
<1> DEFINE LedgerTypes == /\ record' \in [Keys -> Statuses \cup {"absent"}]
                         /\ lapsed' \subseteq {k \in Keys : record'[k] = "running"}
                         /\ call' \in [Calls -> CallRecords]
<1>2. ASSUME NEW c \in Calls, Looks(c) PROVE LedgerTypes
  BY <1>2, TakenStatus DEF TypeOK, CallInv, Looks, SetRecord, Moves, CurrentRecord
<1>3. ASSUME NEW c \in Calls, Wins(c) \/ Completes(c) \/ Fails(c) \/ Freezes(c) PROVE LedgerTypes
  BY <1>3 DEF TypeOK, CallInv, Wins, Completes, Fails, Freezes, SetRecord, Moves, Owns, Statuses
<1>4. ASSUME NEW c \in Calls, Passes(c) PROVE LedgerTypes
  BY <1>4 DEF TypeOK, Passes, Moves
<1>5. ASSUME NEW c \in Calls, NEW k \in Keys, NEW r \in BOOLEAN, Dispatch(c, k, r)
      PROVE  LedgerTypes
  BY <1>5 DEF TypeOK, Dispatch, Call, CallRecords, Pipes, Answers
<1>6. ASSUME NEW r \in BOOLEAN, ProcessDies(r) PROVE LedgerTypes
  BY <1>6, DyingFields DEF ProcessDies, TypeOK
<1>7. CASE UNCHANGED writeVars \/ \E k \in Keys : LeaseLapses(k)
  BY <1>7 DEF TypeOK, writeVars, LeaseLapses
<1> QED
  BY <1>1, <1>2, <1>3, <1>4, <1>5, <1>6, <1>7, Kinds DEF TypeOK

-----------------------------------------------------------------------------
(* The theorems.                                                            *)

\* The inductive invariant holds in every reachable state.
THEOREM Invariance == Spec => []IInv
<1>1. IInv /\ [Next \/ Quiet]_writeVars => IInv'
  BY TypeStep, CallStep, StartStep, OwnerStep, CompleteStep, AnswerStep DEF IInv
<1> QED
  BY Initially, <1>1, PTL DEF Spec

\* The variables keep their types.
THEOREM TypeCorrect == Spec => []TypeOK
<1>1. IInv => TypeOK
  BY DEF IInv
<1> QED
  BY <1>1, Invariance, PTL

\* A logical write is started at most once.
THEOREM AtMostOnceHolds == Spec => []AtMostOnce
<1>1. IInv => AtMostOnce
  BY DEF IInv, StartInv
<1> QED
  BY <1>1, Invariance, PTL

\* A success that a caller was told of is on record and was written.
THEOREM SuccessIsWrittenHolds == Spec => []SuccessIsWritten
<1>1. IInv => SuccessIsWritten
  <2> SUFFICES ASSUME IInv, NEW c \in Calls, Success(c)
               PROVE  /\ record[call[c].key] = "complete"
                      /\ \E d \in Calls : call[d].key = call[c].key /\ call[d].body = "wrote"
    BY DEF SuccessIsWritten
  <2>1. call[c].key \in Keys
    BY DEF IInv, CallInv, Success
  <2> QED
    BY <2>1 DEF IInv, AnswerInv, CompleteInv
<1> QED
  BY <1>1, Invariance, PTL

\* Callers of one key are not told opposite things.
THEOREM AnswersAgreeHolds == Spec => []AnswersAgree
<1>1. IInv => AnswersAgree
  BY DEF IInv, AnswerInv, AnswersAgree
<1> QED
  BY <1>1, Invariance, PTL

\* What the ledger knows of a key is never revised.
THEOREM OutcomesAreFinalHolds == Spec => OutcomesAreFinal
<1> DEFINE Final == \A k \in Keys :
              /\ record[k] \in {"complete", "failed"} => record'[k] = record[k]
              /\ record[k] = "unknown" => record'[k] \in {"unknown", "complete"}
              /\ record[k] = "running" => record'[k] # "absent"
<1>1. IInv /\ [Next \/ Quiet]_writeVars => [Final]_writeVars
  <2> SUFFICES ASSUME IInv, Next \/ Quiet PROVE Final
    OBVIOUS
  <2> USE DEF IInv, TypeOK, CallInv, SetRecord
  <2>1. ASSUME NEW c \in Calls, Looks(c) PROVE Final
    BY <2>1 DEF Looks, CurrentRecord
  <2>2. ASSUME NEW c \in Calls, Wins(c) \/ Passes(c) \/ Fails(c) \/ Freezes(c) PROVE Final
    BY <2>2 DEF Wins, Passes, Fails, Freezes, Owns
  <2>3. ASSUME NEW c \in Calls, Completes(c) PROVE Final
    BY <2>3 DEF Completes, OwnerInv
  <2>4. CASE \/ \E c \in Calls, k \in Keys, r \in BOOLEAN : Dispatch(c, k, r)
             \/ \E r \in BOOLEAN : ProcessDies(r)
             \/ \E k \in Keys : LeaseLapses(k)
             \/ UNCHANGED writeVars
    BY <2>4 DEF Dispatch, ProcessDies, LeaseLapses, writeVars
  <2> QED
    BY <2>1, <2>2, <2>3, <2>4, Kinds
<1> QED
  BY <1>1, Invariance, PTL DEF Spec, OutcomesAreFinal
=============================================================================
