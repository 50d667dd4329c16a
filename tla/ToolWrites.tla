----------------------------- MODULE ToolWrites -----------------------------
(***************************************************************************)
(* Calls of write tools and the ledger that keeps a logical write from     *)
(* happening twice.  A call goes through the tool pipeline                 *)
(* (Tool._execute_with_callable), in this process or in the MCP server;    *)
(* the function that writes runs on a thread that nothing can stop.        *)
(*                                                                         *)
(* A key is what the idempotency key hashes: the tool, its arguments and   *)
(* the run or the confirmation they belong to.                             *)
(***************************************************************************)
EXTENDS Naturals, FiniteSets

CONSTANTS
  Calls,      \* calls of execute_tool
  Keys,
  MaxFaults,  \* bound on crashes, lost connections and store errors
  None

ASSUME CallsAreFinite == IsFiniteSet(Calls)
ASSUME NoneIsNoKey == None \notin Keys
ASSUME FaultsAreNat == MaxFaults \in Nat

VARIABLES
  record,     \* tool_invocations: the status of every key
  lapsed,     \* running keys whose lease_expires has passed
  call,       \* every call: its pipeline, its function and its caller
  faults

writeVars == <<record, lapsed, call, faults>>

Statuses == {"running", "complete", "failed", "unknown"}

\* What a pipeline is doing.  It is "late" when the store failed to take its completion,
\* and "dead" when it was cancelled or its process died.
Pipes == {"none", "reading", "claiming", "lost", "running", "late", "ended", "dead"}
Answers == {"none", "complete", "replayed", "failed", "running", "unknown", "lost", "raised",
            "gone"}

CallRecords == [pipe : Pipes, key : Keys \cup {None}, remote : BOOLEAN,
                body : {"none", "running", "wrote", "refused"}, answer : Answers]
Call(p, k, r, b, a) == [pipe |-> p, key |-> k, remote |-> r, body |-> b, answer |-> a]
NoCall == Call("none", None, FALSE, "none", "none")

TypeOK ==
  /\ record \in [Keys -> Statuses \cup {"absent"}]
  /\ lapsed \subseteq {k \in Keys : record[k] = "running"}
  /\ call \in [Calls -> CallRecords]
  /\ faults \in 0 .. MaxFaults

Init ==
  /\ record = [k \in Keys |-> "absent"]
  /\ lapsed = {}
  /\ call   = [c \in Calls |-> NoCall]
  /\ faults = 0

Started(c) == call[c].body # "none"

-----------------------------------------------------------------------------
(* The ledger (IdempotencyStore).                                           *)

\* A status is written together with its lease.
SetRecord(k, s) ==
  /\ record' = [record EXCEPT ![k] = s]
  /\ lapsed' = lapsed \ {k}

\* get_record and claim first turn a lapsed lease into an unknown outcome.
\* Mutated: they free the key for another attempt.
FreedRecord(k) == IF k \in lapsed THEN "absent" ELSE record[k]
CurrentRecord(k) == IF k \in lapsed THEN "unknown" ELSE record[k]

\* INSERT OR IGNORE: the row is there already.  Mutated: a failed write may be repeated.
TakenUnlessFailed(k) == CurrentRecord(k) \notin {"absent", "failed"}
Taken(k) == CurrentRecord(k) # "absent"

\* complete() answers for a running or an unknown write.  Mutated: for a running one only.
CompletableIfRunning(k) == record[k] = "running"
Completable(k) == record[k] \in {"running", "unknown"}

\* mark_unknown leaves an outcome that is known alone.
Uncertain(k) == record[k] \in {"running", "unknown"}

-----------------------------------------------------------------------------
(* The pipeline of a call (Tool._execute_with_callable).                    *)

\* The answer reaches a caller who is still there.
Answered(c, p, a) ==
  [call[c] EXCEPT !.pipe = p, !.answer = IF @ = "none" THEN a ELSE @]

\* The caller sends the call, through the MCP server or not.
Dispatch(c, k, r) ==
  /\ call[c] = NoCall
  /\ call' = [call EXCEPT ![c] = Call("reading", k, r, "none", "none")]
  /\ UNCHANGED <<record, lapsed, faults>>

\* get_record: a key that is known is replayed, or refused.
ReplayOf(s) == IF s = "complete" THEN "replayed" ELSE s
ReadRecord(c) ==
  LET k == call[c].key
  IN  /\ call[c].pipe = "reading"
      /\ SetRecord(k, CurrentRecord(k))
      /\ call' = [call EXCEPT ![c] =
                    IF Taken(k) THEN Answered(c, "ended", ReplayOf(CurrentRecord(k)))
                    ELSE [@ EXCEPT !.pipe = "claiming"]]
      /\ UNCHANGED faults

\* claim(): the winner starts the function.
ClaimWins(c) ==
  LET k == call[c].key
  IN  /\ call[c].pipe = "claiming"
      /\ ~Taken(k)
      /\ SetRecord(k, "running")
      /\ call' = [call EXCEPT ![c] = [@ EXCEPT !.pipe = "running", !.body = "running"]]
      /\ UNCHANGED faults

ClaimLoses(c) ==
  LET k == call[c].key
  IN  /\ call[c].pipe = "claiming"
      /\ Taken(k)
      /\ SetRecord(k, CurrentRecord(k))
      /\ call' = [call EXCEPT ![c].pipe = "lost"]
      /\ UNCHANGED faults

\* The loser reads the record and reports it as no success, whatever it is.
ReportLoss(c) ==
  LET k == call[c].key
  IN  /\ call[c].pipe = "lost"
      /\ SetRecord(k, CurrentRecord(k))
      /\ call' = [call EXCEPT ![c] =
                    Answered(c, "ended", IF CurrentRecord(k) = "complete" THEN "lost"
                                         ELSE CurrentRecord(k))]
      /\ UNCHANGED faults

\* The function writes, or it fails without writing.
BodyEnds(c, b) ==
  /\ call[c].body = "running"
  /\ call' = [call EXCEPT ![c].body = b]
  /\ UNCHANGED <<record, lapsed, faults>>

Complete(c) ==
  LET k == call[c].key
  IN  /\ call[c].pipe = "running"
      /\ call[c].body = "wrote"
      /\ IF Completable(k) THEN SetRecord(k, "complete") ELSE UNCHANGED <<record, lapsed>>
      /\ call' = [call EXCEPT ![c] = Answered(c, "ended", "complete")]
      /\ UNCHANGED faults

\* The result does not fit its model, or complete() raises: the handler of exceptions will
\* call fail().
CompleteRaises(c) ==
  /\ call[c].pipe = "running"
  /\ call[c].body = "wrote"
  /\ faults < MaxFaults
  /\ faults' = faults + 1
  /\ call' = [call EXCEPT ![c].pipe = "late"]
  /\ UNCHANGED <<record, lapsed>>

\* fail() answers for a running write only.
Fail(c) ==
  LET k == call[c].key
  IN  /\ \/ call[c].pipe = "running" /\ call[c].body = "refused"
         \/ call[c].pipe = "late"
      /\ IF record[k] = "running" THEN SetRecord(k, "failed") ELSE UNCHANGED <<record, lapsed>>
      /\ call' = [call EXCEPT ![c] = Answered(c, "ended", "failed")]
      /\ UNCHANGED faults

\* fail() raised as well: the exception reaches the caller, and the record stays.
FailRaises(c) ==
  /\ \/ call[c].pipe = "running" /\ call[c].body = "refused"
     \/ call[c].pipe = "late"
  /\ faults < MaxFaults
  /\ faults' = faults + 1
  /\ call' = [call EXCEPT ![c] = Answered(c, "ended", "raised")]
  /\ UNCHANGED <<record, lapsed>>

-----------------------------------------------------------------------------
(* What goes wrong.                                                         *)

\* The caller stops waiting, or the response is lost, and the pipeline goes on without it: on
\* a worker thread, or in the server.
CallerStops(c) ==
  /\ call[c].answer = "none"
  /\ call[c].pipe \notin {"none", "ended", "dead"}
  /\ call' = [call EXCEPT ![c].answer = "gone"]
  /\ UNCHANGED <<record, lapsed, faults>>

\* The caller stops waiting, and the pipeline is cancelled where it awaits the function: it
\* marks the write unknown.
CallerCancels(c) ==
  LET k == call[c].key
  IN  /\ call[c].answer = "none"
      /\ call[c].pipe = "running"
      /\ ~call[c].remote
      /\ IF Uncertain(k) THEN SetRecord(k, "unknown") ELSE UNCHANGED <<record, lapsed>>
      /\ call' = [call EXCEPT ![c] = Answered(c, "dead", "gone")]
      /\ UNCHANGED faults

\* The connection to the server fails, or times out, after the call was sent: the client
\* freezes the key, whether or not the server has come to it.
TransportFails(c) ==
  LET k == call[c].key
  IN  /\ call[c].answer \in {"none", "gone"}
      /\ call[c].remote
      /\ faults < MaxFaults
      /\ faults' = faults + 1
      /\ IF record[k] = "absent" \/ Uncertain(k)
           THEN SetRecord(k, "unknown") ELSE UNCHANGED <<record, lapsed>>
      /\ call' = [call EXCEPT ![c] = Answered(c, @.pipe, "unknown")]

\* The process (or the server) dies, with the pipelines and threads it runs.  The callers
\* are in the process.
Dying(x, r) ==
  [x EXCEPT !.pipe   = IF x.remote = r /\ @ \notin {"none", "ended"} THEN "dead" ELSE @,
            !.body   = IF x.remote = r /\ @ = "running" THEN "refused" ELSE @,
            !.answer = IF ~r /\ x.pipe # "none" /\ @ = "none" THEN "gone" ELSE @]
ProcessDies(r) ==
  /\ faults < MaxFaults
  /\ \E c \in Calls : Dying(call[c], r) # call[c]
  /\ faults' = faults + 1
  /\ call' = [c \in Calls |-> Dying(call[c], r)]
  /\ UNCHANGED <<record, lapsed>>

LeaseLapses(k) ==
  /\ record[k] = "running"
  /\ k \notin lapsed
  /\ lapsed' = lapsed \cup {k}
  /\ UNCHANGED <<record, call, faults>>

-----------------------------------------------------------------------------
PipelineStep(c) ==
  \/ ReadRecord(c) \/ ClaimWins(c) \/ ClaimLoses(c) \/ ReportLoss(c)
  \/ \E b \in {"wrote", "refused"} : BodyEnds(c, b)
  \/ Complete(c) \/ CompleteRaises(c) \/ Fail(c) \/ FailRaises(c)

WriteNext ==
  \/ \E c \in Calls :
       PipelineStep(c) \/ CallerStops(c) \/ CallerCancels(c) \/ TransportFails(c)
  \/ \E r \in BOOLEAN : ProcessDies(r)
  \/ \E k \in Keys : LeaseLapses(k)

Next == WriteNext \/ \E c \in Calls, k \in Keys, r \in BOOLEAN : Dispatch(c, k, r)

\* Every call has been sent and nothing goes on.
Quiet ==
  /\ \A c \in Calls : call[c].pipe \in {"ended", "dead"} /\ call[c].body # "running"
  /\ UNCHANGED writeVars

Spec == Init /\ [][Next \/ Quiet]_writeVars
-----------------------------------------------------------------------------
(* What the ledger promises.                                                *)

\* The function of a key is started by one call at most, however often the key is called,
\* whoever stops waiting, and whatever dies or lapses.
AtMostOnce ==
  \A c, d \in Calls : Started(c) /\ Started(d) /\ call[c].key = call[d].key => c = d

\* A caller who is told of a success can rely on it: the record says so, and the function
\* of the key wrote.
Success(c) == call[c].answer \in {"complete", "replayed"}
SuccessIsWritten ==
  \A c \in Calls : Success(c) =>
    /\ record[call[c].key] = "complete"
    /\ \E d \in Calls : call[d].key = call[c].key /\ call[d].body = "wrote"

\* No two callers of a key are told opposite things.
AnswersAgree ==
  \A c, d \in Calls :
    call[c].key = call[d].key /\ Success(c) => call[d].answer # "failed"

\* A known outcome is final, and an unknown one can only turn out complete.
OutcomesAreFinal ==
  [][\A k \in Keys :
       /\ record[k] \in {"complete", "failed"} => record'[k] = record[k]
       /\ record[k] = "unknown" => record'[k] \in {"unknown", "complete"}
       /\ record[k] = "running" => record'[k] # "absent"]_writeVars
=============================================================================
