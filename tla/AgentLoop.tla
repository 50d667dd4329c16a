------------------------------ MODULE AgentLoop ------------------------------
(***************************************************************************)
(* One user turn through the fc_loop graph: guard, then the agent, which   *)
(* asks the model what to do, and the tools it asks for, alternating until *)
(* the model answers, asks, or is made to stop; then the critic and the    *)
(* formatter.  Every await of a node is an action that lets time pass;     *)
(* what a node computes between two awaits takes none, but for the moment  *)
(* between a plan and its dispatch (Slack).                                *)
(*                                                                         *)
(* A call stands for a tool with one digest of its parameters, so a call   *)
(* asked for twice in a batch is one element of the batch.  remember is    *)
(* the only tool that writes.  An offloaded call runs on a thread nobody   *)
(* can stop: what outlives its deadline goes on, and ends in LateFinish.   *)
(***************************************************************************)
EXTENDS Integers, FiniteSets, FiniteSetsExt

CONSTANTS
  Reads, Writes,     \* the calls the model may ask for
  Search,            \* the read whose result has its candidates validated
  Checked,           \* the reads that validating the result of Search makes
  Cued,              \* the reads that serve a dimension the message cues
  Untrusted,         \* the reads whose data is a third party's text
  Stated,            \* the write whose content is the user's own words
  Refused,           \* the calls a policy refuses, whatever happened before
  SoftWrap, Reserve, Crumb, MinBatch, MinAttempt,  \* seconds, see the knobs
  BatchBudget, TurnBudget, PerTool,
  Slack,             \* seconds a plan may wait for its dispatch
  MaxAgentTurns,
  MaxAsked           \* bound: how many calls the model asks for at once

Calls   == Reads \cup Writes
HardEnd == SoftWrap + Reserve - Crumb
Ceiling == SoftWrap + Reserve + Crumb
\* The agent wraps at the bare soft wrap.
BareEdge == SoftWrap
Edge    == SoftWrap - MinBatch

ASSUME CallsAreKnown ==
  /\ Reads \cap Writes = {} /\ Search \in Reads
  /\ Checked \subseteq Reads /\ Cued \subseteq Reads /\ Untrusted \subseteq Reads
  /\ Stated \subseteq Writes /\ Refused \subseteq Calls \ Stated
  /\ IsFiniteSet(Stated) /\ Cardinality(Stated) <= 1
ASSUME KnobsAreSeconds ==
  /\ {SoftWrap, Reserve, Crumb, MinBatch, MinAttempt} \subseteq Nat
  /\ {BatchBudget, TurnBudget, PerTool, Slack, MaxAgentTurns, MaxAsked} \subseteq Nat
  /\ MinBatch <= SoftWrap /\ Crumb <= Reserve

VARIABLES
  node,       \* the node that runs; "wrap" is the agent inside _wrap_up
  now,        \* seconds since turn_start_monotonic
  pending,    \* the message decides on a frozen memory write
  explicit,   \* the message asks to remember something
  loopTurn, used,
  batch,      \* the tool calls of the last message
  log,        \* tool_artifacts: the calls that have one, with its outcome
  tainted, wrapped,
  contract,   \* memory_write_contract: what the reply will say of a save
  answer,     \* final_response, as the critic judges it
  thread,     \* the writes whose thread is still at work
  landed,     \* the writes that reached the memory
  ran,        \* how often a call of the model was dispatched
  shown,      \* the untrusted calls whose data the model was shown
  skipped     \* a batch was refused because the soft wrap was near

turn == <<node, now, loopTurn, used, batch, log, tainted, wrapped, contract, answer>>
said == <<pending, explicit>>
seen == <<thread, landed, ran, shown, skipped>>
vars == <<turn, said, seen>>

Outcomes == {"ok", "error", "timed_out", "unknown", "denied"}
Answers  == {"none", "grounded", "ungrounded", "caveated", "canned", "question", "error"}

TypeOK ==
  /\ node \in {"guard", "agent", "wrap", "execute_tools", "critic", "format",
               "done", "cancelled"}
  /\ now \in 0 .. Ceiling
  /\ pending \in BOOLEAN /\ explicit \in BOOLEAN
  /\ loopTurn \in 0 .. MaxAgentTurns + 1
  /\ used \in 0 .. TurnBudget
  /\ batch \subseteq Calls
  /\ log \subseteq Calls \X Outcomes
  /\ tainted \in BOOLEAN /\ wrapped \in BOOLEAN /\ skipped \in BOOLEAN
  /\ contract \in {"none", "saved", "failed"}
  /\ answer \in Answers
  /\ thread \subseteq Writes /\ landed \subseteq Writes /\ shown \subseteq Untrusted
  /\ ran \in [Calls -> Nat]

Init ==
  /\ node = "guard" /\ now = 0 /\ pending \in BOOLEAN /\ explicit \in BOOLEAN
  /\ loopTurn = 0 /\ used = 0 /\ batch = {} /\ log = {}
  /\ tainted = FALSE /\ wrapped = FALSE /\ contract = "none" /\ answer = "none"
  /\ thread = {} /\ landed = {} /\ ran = [c \in Calls |-> 0] /\ shown = {}
  /\ skipped = FALSE

\* Seconds from t up to an absolute deadline that may have passed.
Until(t, deadline) == t .. Max({t, deadline})

-----------------------------------------------------------------------------
(* guard                                                                   *)

\* A refusal, a greeting, statutory arithmetic, or the listings on screen
\* narrowed down, whose text is a third party's.
GuardAnswers ==
  /\ node = "guard"
  /\ node' = "format" /\ answer' = "canned" /\ tainted' \in {tainted, TRUE}
  /\ UNCHANGED <<now, loopTurn, used, batch, log, wrapped, contract, said, seen>>

GuardPasses ==
  /\ node = "guard" /\ node' = "agent"
  /\ UNCHANGED <<now, loopTurn, used, batch, log, tainted, wrapped, contract, answer,
                 said, seen>>

-----------------------------------------------------------------------------
(* agent                                                                   *)

\* The prompt cannot be assembled: neither the model nor a tool is called.
PromptFails ==
  /\ node = "agent" /\ node' = "format" /\ answer' = "error"
  /\ UNCHANGED <<now, loopTurn, used, batch, log, tainted, wrapped, contract, said, seen>>

\* First entry: the message confirms or declines a frozen write.  The wait
\* for the save has a limit of its own that no deadline of the turn bounds.
ResolvePendingMemory ==
  /\ node = "agent" /\ loopTurn = 0 /\ pending
  /\ pending' = FALSE
  /\ now' \in Until(now, Ceiling)
  /\ UNCHANGED <<node, loopTurn, used, batch, log, tainted, wrapped, contract, answer,
                 explicit, seen>>

\* An entry into the agent that is not counted.
SameTurn    == loopTurn
NextTurn    == Min({loopTurn + 1, MaxAgentTurns + 1})
LoopIsOver  == NextTurn > MaxAgentTurns
PastTheEdge == now > Edge

Entering == node = "agent" /\ ~ pending

\* The loop cap: one last call without tools, up to the hard end.
LimitAnswers(text) ==
  /\ Entering /\ LoopIsOver /\ now < HardEnd
  /\ now' \in Until(now, HardEnd) /\ loopTurn' = NextTurn
  /\ node' = "critic" /\ answer' = text
  /\ UNCHANGED <<used, batch, log, tainted, wrapped, contract, said, seen>>

LimitFails ==
  /\ Entering /\ LoopIsOver
  /\ now' \in Until(now, HardEnd) /\ loopTurn' = NextTurn /\ node' = "wrap"
  /\ UNCHANGED <<used, batch, log, tainted, wrapped, contract, answer, said, seen>>

EnterLate ==
  /\ Entering /\ ~ LoopIsOver /\ PastTheEdge
  /\ loopTurn' = NextTurn /\ node' = "wrap"
  /\ UNCHANGED <<now, used, batch, log, tainted, wrapped, contract, answer, said, seen>>

\* The call that plans, bounded by the edge.
Planning ==
  /\ Entering /\ ~ LoopIsOver /\ ~ PastTheEdge
  /\ now' \in Until(now, Edge) /\ loopTurn' = NextTurn
  /\ UNCHANGED <<used, log, tainted, wrapped, contract, said, seen>>

PlanFails ==
  /\ Planning /\ node' = "wrap"
  /\ UNCHANGED <<batch, answer>>

\* An explicit save the model did not ask for is added to what it asks for.
Forced(calls) ==
  IF explicit /\ loopTurn = 0 /\ calls \cap Writes = {} THEN Stated ELSE {}

\* Only calls that completed count as asked for.
AttemptedToTheEnd == {a[1] : a \in log \cap (Calls \X {"ok", "error"})}
\* Reads the harness may add: cued, allowed, and with no artifact so far.
Attempted   == {a[1] : a \in log}
Executed    == {a[1] : a \in log \cap (Calls \X {"ok", "error"})}
Askable     == {b \in SUBSET Calls : Cardinality(b) <= MaxAsked}
Unserved(b) == Cued \ (b \cup Attempted \cup Refused)

PlanAsks ==
  /\ Planning /\ node' = "format" /\ answer' = "question"
  /\ UNCHANGED batch

PlanBatch(calls) ==
  /\ Planning
  /\ LET asked == calls \cup Forced(calls)
     IN  /\ asked # {}
         /\ \E added \in SUBSET Unserved(asked) : batch' = asked \cup added
  /\ node' = "execute_tools"
  /\ UNCHANGED answer

\* The model answers in plain text, but a cued dimension is still to fetch.
MaySweep ==
  /\ Executed \cap Reads # {}
  /\ now' <= Edge
  /\ used < TurnBudget

Sweep(added) ==
  /\ Planning /\ Forced({}) = {} /\ MaySweep
  /\ added # {} /\ added \subseteq Unserved({})
  /\ batch' = added /\ node' = "execute_tools"
  /\ UNCHANGED answer

PlanAnswers(text) ==
  /\ Planning /\ Forced({}) = {}
  /\ node' = "critic" /\ answer' = text
  /\ UNCHANGED batch

\* The floor that an earlier version gave the window of the wrap-up call.
FlooredWindow == Max({HardEnd - now, MinAttempt})
\* _wrap_up: one call without tools, and one more if that fails at once,
\* inside what is left before the hard end; else the artifacts are rendered.
WrapWindow == HardEnd - now

WrapUp(text) ==
  /\ node = "wrap"
  /\ \/ /\ WrapWindow >= MinAttempt
        /\ now' \in now .. now + WrapWindow
     \/ /\ WrapWindow < MinAttempt /\ text = "grounded"
        /\ now' = now
  /\ node' = "critic" /\ wrapped' = TRUE /\ answer' = text
  /\ UNCHANGED <<loopTurn, used, batch, log, tainted, contract, said, seen>>

-----------------------------------------------------------------------------
(* execute_tools                                                           *)

\* The save takes a cue in the message and content that the user stated.
Authorized(c) == explicit /\ c \in Stated

Seen(c)   == c \in Attempted
Planned   == {c \in batch : ~ Seen(c)}
Denied(c) == c \in Refused \/ (c \in Writes /\ tainted /\ ~ Authorized(c))
Denials   == {<<c, "denied">> : c \in {d \in Planned : Denied(d)}}
ToRun     == {c \in Planned : ~ Denied(c)}

\* The reply speaks of the last save that has an artifact.
Told(entry) == IF entry[2] = "ok" THEN "saved" ELSE "failed"
ContractAfter(entries) ==
  LET saves == {e \in entries : e[1] \in Writes}
  IN  IF saves = {} THEN {contract} ELSE {Told(e) : e \in saves}

\* The taint of the last batch alone.
TaintOfTheBatch(data) == data # {}
TaintAfter(data) == tainted \/ data # {}

BackToAgent(entries) ==
  /\ log' = log \cup entries
  /\ contract' \in ContractAfter(entries)
  /\ node' = "agent" /\ batch' = {}
  /\ UNCHANGED <<loopTurn, wrapped, answer, said>>

TooLate(t)   == SoftWrap - t < MinBatch
BudgetIsGone == used >= TurnBudget

RunNothing ==
  /\ node = "execute_tools" /\ ToRun = {}
  /\ BackToAgent(Denials)
  /\ tainted' = TaintAfter({})
  /\ UNCHANGED <<now, used, seen>>

\* Nothing of the batch is dispatched: no budget left, or no time.
SkipBatch ==
  /\ node = "execute_tools" /\ ToRun # {}
  /\ now' \in now .. now + Slack /\ now' <= Ceiling
  /\ \/ /\ BudgetIsGone
        /\ BackToAgent(Denials \cup {<<c, "timed_out">> : c \in ToRun})
        /\ UNCHANGED skipped
     \/ /\ ~ BudgetIsGone /\ TooLate(now')
        /\ BackToAgent(Denials \cup {<<c, "denied">> : c \in ToRun})
        /\ skipped' = TRUE
  /\ tainted' = TaintAfter({})
  /\ UNCHANGED <<used, thread, landed, ran, shown>>

\* How long the reads of a batch that starts at t may take, and its writes.
Left        == TurnBudget - used
ReadTime(t)  == Min({BatchBudget, Left, SoftWrap - t})
WriteTime(t) == Min({PerTool, Left, SoftWrap - t})

\* How a dispatched call ends: with a result, or still at work when its time
\* is up.  A tool may itself say that it does not know what it has written.
\* A read that is late was abandoned at the end of the batch, or had its own
\* time limit: the artifact is marked timed_out either way.
Endings(c) == IF c \in Writes THEN {"ok", "error", "unknown", "late"}
                              ELSE {"ok", "error", "late"}
\* A save that timed out is reported like a read.
ReportedAlike(c, e) == IF e = "late" THEN "timed_out" ELSE e
Reported(c, e) ==
  IF e # "late" THEN e
  ELSE IF c \in Writes THEN "unknown" ELSE "timed_out"

Late(end)      == {c \in DOMAIN end : end[c] = "late"}
Dispatched(run) == [c \in Calls |-> IF c \in run THEN ran[c] + 1 ELSE ran[c]]

\* Seconds a batch may take, given how its calls end.
Takes(t, end) ==
  LET of(c) == IF c \in Writes THEN WriteTime(t) ELSE Min({PerTool, ReadTime(t)})
  IN  Max({of(c) : c \in Late(end)} \cup {0}) .. Max({of(c) : c \in DOMAIN end})

\* Validating what a search found makes more calls, inside the same deadlines:
\* nothing to check, or every candidate checked, or no time left for it.
Validated(end) ==
  IF Search \in DOMAIN end /\ end[Search] = "ok"
  THEN {{}, Checked \X {"ok"}, Checked \X {"denied"}} ELSE {{}}

DataShown(end)   == {c \in DOMAIN end \cap Untrusted : end[c] = "ok"}

RunBatch(start) ==
  /\ node = "execute_tools" /\ ToRun # {}
  /\ start <= now + Slack /\ ~ BudgetIsGone /\ ~ TooLate(start)
  /\ \E end \in [ToRun -> {"ok", "error", "unknown", "late"}] :
     /\ \A c \in DOMAIN end : end[c] \in Endings(c)
     /\ \E s \in Takes(start, end), checks \in Validated(end) :
        /\ now' \in IF checks = {} THEN {start + s}
                    ELSE Until(start + s, Min({SoftWrap, start + Left}))
        /\ used' = used + (now' - start)
        /\ BackToAgent(Denials \cup checks
                       \cup {<<c, Reported(c, end[c])>> : c \in DOMAIN end})
     /\ tainted' = TaintAfter(DataShown(end))
     /\ shown' = shown \cup DataShown(end)
     /\ ran' = Dispatched(DOMAIN end)
     \* A late save that no worker had taken up is gone with its task.
     /\ \E going \in SUBSET (Late(end) \cap Writes) : thread' = thread \cup going
     \* A save that wrote comes back as an error when marking its key complete
     \* or checking its result raises.
     /\ \E some \in SUBSET {c \in DOMAIN end \cap Writes : end[c] \in {"unknown", "error"}} :
          landed' = landed \cup some
                    \cup {c \in DOMAIN end \cap Writes : end[c] = "ok"}
  /\ UNCHANGED skipped

\* The thread of a save that was walked away from ends, with or without effect.
LateFinish(w) ==
  /\ w \in thread /\ thread' = thread \ {w}
  /\ landed' \in {landed, landed \cup {w}}
  /\ UNCHANGED <<turn, said, ran, shown, skipped>>

-----------------------------------------------------------------------------
(* critic and format_output_fc                                             *)

RetrievalExpected == Attempted \cap Reads # {}

CriticPasses ==
  /\ node = "critic" /\ (answer = "grounded" \/ ~ RetrievalExpected)
  /\ node' = "format"
  /\ UNCHANGED <<now, loopTurn, used, batch, log, tainted, wrapped, contract, answer,
                 said, seen>>

\* The answer goes out as it is when there is no time to rewrite it.
ShippedBare == "ungrounded"
\* No time to rewrite: the caveat alone.
WithoutRewrite == "caveated"

\* An answer without any evidence behind its figures is replaced.
NoEvidence == \A c \in Reads : <<c, "ok">> \notin log
Delivered(text) ==
  IF text # "grounded" /\ NoEvidence THEN {text, "canned"} ELSE {text}

CriticCaveats ==
  /\ node = "critic" /\ answer # "grounded" /\ RetrievalExpected /\ wrapped
  /\ node' = "format" /\ answer' \in Delivered(WithoutRewrite)
  /\ UNCHANGED <<now, loopTurn, used, batch, log, tainted, wrapped, contract, said, seen>>

\* One corrective call, which only the ceiling of the turn bounds.
CriticRewrites ==
  /\ node = "critic" /\ answer # "grounded" /\ RetrievalExpected /\ ~ wrapped
  /\ now' \in Until(now, Ceiling)
  /\ node' = "format"
  /\ \E text \in {"grounded", "caveated"} : answer' \in Delivered(text)
  /\ UNCHANGED <<loopTurn, used, batch, log, tainted, wrapped, contract, said, seen>>

Format ==
  /\ node = "format" /\ node' = "done"
  /\ UNCHANGED <<now, loopTurn, used, batch, log, tainted, wrapped, contract, answer,
                 said, seen>>

\* _ainvoke_graph_with_timeout: at the ceiling the turn is cancelled where it
\* waits, and the state of its graph is dropped; calls that were dispatched go
\* on without it, or have ended.
CancelNode ==
  /\ now' = Ceiling /\ node' = "cancelled" /\ answer' = "error"
  /\ loopTurn' = 0 /\ used' = 0 /\ batch' = {} /\ log' = {} /\ contract' = "none"
  /\ tainted' = FALSE /\ wrapped' = FALSE
  /\ UNCHANGED <<said, shown, skipped>>

Cancel ==
  /\ node \notin {"done", "cancelled"} /\ CancelNode
  /\ UNCHANGED <<thread, landed, ran>>

CancelBatch ==
  /\ node = "execute_tools" /\ ToRun # {} /\ ~ BudgetIsGone /\ ~ TooLate(now)
  /\ CancelNode
  /\ ran' = Dispatched(ToRun)
  /\ \E left \in SUBSET (ToRun \cap Writes) :
       /\ thread' = thread \cup left
       /\ \E some \in SUBSET ((ToRun \cap Writes) \ left) : landed' = landed \cup some

Ended == node \in {"done", "cancelled"} /\ UNCHANGED vars

TurnStep ==
  \/ GuardAnswers \/ GuardPasses
  \/ PromptFails \/ ResolvePendingMemory
  \/ LimitFails \/ EnterLate \/ PlanFails \/ PlanAsks
  \/ \E calls \in Askable : PlanBatch(calls)
  \/ \E added \in SUBSET Cued : Sweep(added)
  \/ \E text \in {"grounded", "ungrounded"} :
       LimitAnswers(text) \/ PlanAnswers(text) \/ WrapUp(text)
  \/ RunNothing \/ SkipBatch
  \/ \E start \in now .. SoftWrap : RunBatch(start)
  \/ CriticPasses \/ CriticCaveats \/ CriticRewrites \/ Format
  \/ Cancel \/ CancelBatch

Next == TurnStep \/ (\E w \in Writes : LateFinish(w)) \/ Ended

Spec == Init /\ [][Next]_vars /\ WF_vars(TurnStep)

-----------------------------------------------------------------------------
(* Properties                                                              *)

(* Beyond soft wrap + reserve - crumb the loop spends no more time, however *)
(* late a node is entered; only the wait for a confirmed save, the rewrite  *)
(* of the critic and the cancellation at the ceiling may end later.         *)
NothingRunsPastTheEnd ==
  [][now' # now /\ now' > HardEnd
       => ResolvePendingMemory \/ CriticRewrites \/ CancelNode]_vars

(* No call of a turn is dispatched twice, in whichever batches the model,   *)
(* the fan-out and the sweep ask for it and however it ended before.        *)
NoCallRunsTwice == \A c \in Calls : ran[c] <= 1

(* Once a batch was turned down for want of time, the agent opens no other: *)
(* its edge and that of the dispatch cannot disagree.                       *)
RefusedBatchIsTheLast == skipped => node # "execute_tools"

(* A save that the ledger of the turn calls refused or never run has not    *)
(* reached the memory and never will; one it calls ended, well or badly, is *)
(* over, so only a save called unknown may still be at work, or one whose   *)
(* turn was cancelled; and the reply says saved only of a save that is in   *)
(* the memory.  An error alone says nothing of the effect.                  *)
NeverRun(w) == {<<w, "denied">>, <<w, "timed_out">>} \cap log # {}
IsOver(w)   == {<<w, "ok">>, <<w, "error">>} \cap log # {}
WritesAreNotMisreported ==
  /\ \A w \in Writes :
       /\ NeverRun(w) => w \notin landed \cup thread
       /\ IsOver(w) => w \notin thread
       /\ <<w, "ok">> \in log => w \in landed
       /\ w \in thread => <<w, "unknown">> \in log \/ node = "cancelled"
  /\ contract = "saved" => landed # {}

(* After a third party's text was shown to the model, in whichever batch,   *)
(* nothing is saved but what the user asked to save in their own words.     *)
GateSeesTheTaint ==
  [][\A w \in Writes : ran'[w] > ran[w] /\ ~ Authorized(w) => shown = {}]_vars

(* A turn that looked something up never ships an answer which failed the   *)
(* grounding check without a caveat, also when there is no time to rewrite. *)
UngroundedIsMarked ==
  node \in {"format", "done"} /\ RetrievalExpected => answer # "ungrounded"

(* Every turn ends: batches that find everything already asked for, budgets *)
(* that ran out and plans that fail do not send it round for ever.          *)
Terminates == <>(node \in {"done", "cancelled"})
=============================================================================
