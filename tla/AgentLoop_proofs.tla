-------------------------- MODULE AgentLoop_proofs --------------------------
(***************************************************************************)
(* The safety of the agent loop, for any calls, classification of calls    *)
(* and values of the knobs.                                                *)
(***************************************************************************)
EXTENDS AgentLoop, TLAPS

\* A call that was ever dispatched has an artifact, and so has every save whose
\* thread was started, until the state of the turn is dropped.
Recorded ==
  node # "cancelled" =>
    /\ \A c \in Calls : ran[c] > 0 => Seen(c)
    /\ \A w \in landed \cup thread : Seen(w)

TaintStays == node # "cancelled" /\ shown # {} => tainted
\* A batch is planned before the edge.
PlannedInTime == node = "execute_tools" => now <= Edge
EdgePassed == skipped => now > Edge \/ node \in {"done", "cancelled"}

IInv ==
  /\ TypeOK
  /\ Recorded /\ NoCallRunsTwice /\ WritesAreNotMisreported
  /\ TaintStays
  /\ PlannedInTime /\ EdgePassed /\ RefusedBatchIsTheLast
  /\ UngroundedIsMarked

-----------------------------------------------------------------------------
(* Time.                                                                    *)

LEMMA GreatestIsMax ==
  ASSUME NEW S \in SUBSET Int, NEW m \in S, \A x \in S : m >= x
  PROVE  Max(S) \in S /\ \A x \in S : Max(S) >= x
BY DEF Max

LEMMA LeastIsMin ==
  ASSUME NEW S \in SUBSET Int, NEW m \in S, \A x \in S : m <= x
  PROVE  Min(S) \in S /\ \A x \in S : Min(S) <= x
BY DEF Min

\* A set of at most three numbers has a greatest.
LEMMA SmallMax ==
  ASSUME NEW a \in Int, NEW b \in Int, NEW c \in Int, NEW S \in SUBSET {a, b, c}, S # {}
  PROVE  Max(S) \in S
<1>1. S \in SUBSET Int
  OBVIOUS
<1>2. ASSUME NEW m \in S, m \in {a, b, c}, a \in S => m >= a, b \in S => m >= b, c \in S => m >= c
      PROVE  Max(S) \in S
  BY <1>1, <1>2, GreatestIsMax
<1>3. CASE a \in S /\ (b \in S => a >= b) /\ (c \in S => a >= c)
  BY <1>2, <1>3
<1>4. CASE b \in S /\ (a \in S => b >= a) /\ (c \in S => b >= c)
  BY <1>2, <1>4
<1>5. CASE c \in S /\ (a \in S => c >= a) /\ (b \in S => c >= b)
  BY <1>2, <1>5
<1>6. a \in S \/ b \in S \/ c \in S
  OBVIOUS
<1> QED
  BY <1>3, <1>4, <1>5, <1>6

LEMMA GreaterOfTwo ==
  ASSUME NEW a \in Int, NEW b \in Int
  PROVE  Max({a, b}) \in {a, b} /\ Max({a, b}) >= a /\ Max({a, b}) >= b
<1>1. CASE a >= b
  BY <1>1, GreatestIsMax
<1>2. CASE b >= a
  BY <1>2, GreatestIsMax
<1> QED
  BY <1>1, <1>2

LEMMA LesserOfTwo ==
  ASSUME NEW a \in Int, NEW b \in Int
  PROVE  Min({a, b}) \in {a, b} /\ Min({a, b}) <= a /\ Min({a, b}) <= b
<1>1. CASE a <= b
  BY <1>1, LeastIsMin
<1>2. CASE b <= a
  BY <1>2, LeastIsMin
<1> QED
  BY <1>1, <1>2

LEMMA LeastOfThree ==
  ASSUME NEW a \in Int, NEW b \in Int, NEW c \in Int
  PROVE  /\ Min({a, b, c}) \in {a, b, c}
         /\ Min({a, b, c}) <= a /\ Min({a, b, c}) <= b /\ Min({a, b, c}) <= c
<1>1. CASE a <= b /\ a <= c
  BY <1>1, LeastIsMin
<1>2. CASE b <= a /\ b <= c
  BY <1>2, LeastIsMin
<1>3. CASE c <= a /\ c <= b
  BY <1>3, LeastIsMin
<1> QED
  BY <1>1, <1>2, <1>3

\* The edges of a turn, in their order.
LEMMA Clock ==
  /\ Edge \in Nat /\ HardEnd \in Nat /\ Ceiling \in Nat
  /\ Edge <= SoftWrap /\ SoftWrap <= HardEnd /\ HardEnd <= Ceiling
BY KnobsAreSeconds DEF Edge, HardEnd, Ceiling

LEMMA UntilBounds ==
  ASSUME NEW t \in Nat, NEW deadline \in Nat, NEW x \in Until(t, deadline)
  PROVE  x \in Nat /\ t <= x /\ (x <= deadline \/ x = t)
<1>1. Max({t, deadline}) \in {t, deadline} /\ Max({t, deadline}) >= t
  BY GreaterOfTwo
<1> QED
  BY <1>1 DEF Until

\* A batch ends before the soft wrap and inside what is left of the budget.
LEMMA BatchTime ==
  ASSUME TypeOK, NEW start \in now .. SoftWrap, RunBatch(start)
  PROVE  /\ now' \in Nat /\ start <= now' /\ now' <= SoftWrap
         /\ now' - start <= Left
<1> DEFINE W == WriteTime(start)
           R == ReadTime(start)
           T == Min({PerTool, R})
           last == Min({SoftWrap, start + Left})
<1>1. start \in Nat /\ Left \in Nat /\ SoftWrap - start \in Nat /\ now <= start
  BY KnobsAreSeconds DEF TypeOK, Left
<1>2. BatchBudget \in Nat /\ PerTool \in Nat /\ SoftWrap \in Nat /\ start + Left \in Nat
  BY <1>1, KnobsAreSeconds
<1>3. BatchBudget \in Int /\ PerTool \in Int /\ Left \in Int /\ SoftWrap - start \in Int
  BY <1>1, <1>2
<1>4. R \in Nat /\ R <= Left /\ R <= SoftWrap - start
  <2>1. R = Min({BatchBudget, Left, SoftWrap - start})
    BY DEF ReadTime
  <2> HIDE DEF R
  <2>2. /\ Min({BatchBudget, Left, SoftWrap - start}) \in {BatchBudget, Left, SoftWrap - start}
        /\ Min({BatchBudget, Left, SoftWrap - start}) <= Left
        /\ Min({BatchBudget, Left, SoftWrap - start}) <= SoftWrap - start
    BY <1>3, LeastOfThree, Zenon
  <2> QED
    BY <2>1, <2>2, <1>1, <1>2
<1>5. W \in Nat /\ W <= Left /\ W <= SoftWrap - start
  <2>1. W = Min({PerTool, Left, SoftWrap - start})
    BY DEF WriteTime
  <2> HIDE DEF W
  <2>2. /\ Min({PerTool, Left, SoftWrap - start}) \in {PerTool, Left, SoftWrap - start}
        /\ Min({PerTool, Left, SoftWrap - start}) <= Left
        /\ Min({PerTool, Left, SoftWrap - start}) <= SoftWrap - start
    BY <1>3, LeastOfThree, Zenon
  <2> QED
    BY <2>1, <2>2, <1>1, <1>2
<1>6. T \in Nat /\ T <= R
  <2> HIDE DEF R
  <2>1. R \in Int
    BY <1>4
  <2>2. Min({PerTool, R}) \in {PerTool, R} /\ Min({PerTool, R}) <= R
    BY <2>1, <1>3, LesserOfTwo, Zenon
  <2> QED
    BY <2>2, <1>2, <1>4
<1>7. last \in Nat /\ last <= SoftWrap /\ last <= start + Left /\ last \in {SoftWrap, start + Left}
  <2>1. SoftWrap \in Int /\ start + Left \in Int
    BY <1>2
  <2>2. /\ Min({SoftWrap, start + Left}) \in {SoftWrap, start + Left}
        /\ Min({SoftWrap, start + Left}) <= SoftWrap /\ Min({SoftWrap, start + Left}) <= start + Left
    BY <2>1, LesserOfTwo, Zenon
  <2> QED
    BY <2>2, <1>2
<1> HIDE DEF T, R, W
<1>8. ASSUME NEW end \in [ToRun -> {"ok", "error", "unknown", "late"}], NEW s \in Takes(start, end)
      PROVE  s \in Nat /\ s <= Left /\ s <= SoftWrap - start
  <2> DEFINE of(c) == IF c \in Writes THEN W ELSE T
             lates == {of(c) : c \in Late(end)} \cup {0}
             all   == {of(c) : c \in DOMAIN end}
  <2>1. Takes(start, end) = Max(lates) .. Max(all)
    BY DEF Takes, T, R, W
  <2>2. lates \in SUBSET {W, T, 0} /\ lates # {}
    OBVIOUS
  <2>3. all \in SUBSET {W, T, 0} /\ all \in SUBSET {W, T} /\ all # {}
    BY DEF RunBatch
  <2> HIDE DEF lates, all
  <2>0. W \in Int /\ T \in Int /\ 0 \in Int
    BY <1>5, <1>6
  <2>4. Max(lates) \in lates
    BY <2>2, <2>0, SmallMax, Zenon
  <2>5. Max(all) \in all
    BY <2>3, <2>0, SmallMax, Zenon
  <2>6. Max(lates) \in {W, T, 0} /\ Max(all) \in {W, T}
    BY <2>2, <2>3, <2>4, <2>5, Zenon
  <2> QED
    BY <2>1, <2>6, <1>1, <1>4, <1>5, <1>6
<1>9. PICK end \in [ToRun -> {"ok", "error", "unknown", "late"}] :
        \E s \in Takes(start, end) : now' = start + s \/ now' \in Until(start + s, last)
  BY DEF RunBatch
<1> HIDE DEF last
<1>10. PICK s \in Takes(start, end) : now' = start + s \/ now' \in Until(start + s, last)
  BY <1>9
<1>11. s \in Nat /\ s <= Left /\ s <= SoftWrap - start
  BY <1>8
<1>12. start + s \in Nat /\ start + s <= last
  BY <1>1, <1>2, <1>7, <1>11
<1>13. now' = start + s \/ (now' \in Nat /\ start + s <= now' /\ now' <= last)
  BY <1>7, <1>10, <1>12, UntilBounds
<1> QED
  BY <1>1, <1>2, <1>7, <1>11, <1>12, <1>13

\* Time does not go back, and does not pass the ceiling.
LEMMA ClockStep ==
  TypeOK /\ [Next]_vars => now' \in 0 .. Ceiling /\ now <= now'
<1> SUFFICES ASSUME TypeOK, [Next]_vars PROVE now' \in 0 .. Ceiling /\ now <= now'
  OBVIOUS
<1>1. now \in Nat /\ now <= Ceiling
  BY Clock DEF TypeOK
<1>2. ASSUME NEW deadline \in {Edge, HardEnd, Ceiling}, now' \in Until(now, deadline)
      PROVE  now' \in 0 .. Ceiling /\ now <= now'
  <2>1. deadline \in Nat /\ deadline <= Ceiling
    BY Clock, KnobsAreSeconds
  <2>2. now' \in Nat /\ now <= now' /\ (now' <= deadline \/ now' = now)
    BY <1>1, <1>2, <2>1, UntilBounds, Zenon
  <2> QED
    BY <1>1, <2>1, <2>2, Clock
<1>3. CASE ResolvePendingMemory \/ CriticRewrites
  BY <1>2, <1>3 DEF ResolvePendingMemory, CriticRewrites
<1>4. CASE LimitFails \/ (\E text \in {"grounded", "ungrounded"} : LimitAnswers(text))
  BY <1>2, <1>4 DEF LimitFails, LimitAnswers
<1>5. CASE Planning
  BY <1>2, <1>5 DEF Planning
<1>6. ASSUME NEW text \in {"grounded", "ungrounded"}, WrapUp(text)
      PROVE  now' \in 0 .. Ceiling /\ now <= now'
  BY <1>1, <1>6, Clock DEF WrapUp, WrapWindow
<1>7. CASE SkipBatch
  BY <1>1, <1>7, Clock, KnobsAreSeconds DEF SkipBatch
<1>8. ASSUME NEW start \in now .. SoftWrap, RunBatch(start)
      PROVE  now' \in 0 .. Ceiling /\ now <= now'
  <2>1. start \in Nat /\ now <= start
    BY <1>1, KnobsAreSeconds
  <2> QED
    <3>1. now' \in Nat /\ start <= now' /\ now' <= SoftWrap
      BY <1>8, BatchTime, Zenon
    <3> QED
      BY <1>1, <2>1, <3>1, Clock, KnobsAreSeconds
<1>9. CASE Cancel \/ CancelBatch
  BY <1>1, <1>9, Clock DEF Cancel, CancelBatch, CancelNode
<1>10. CASE UNCHANGED now
  BY <1>1, <1>10
<1> QED
  BY <1>3, <1>4, <1>5, <1>6, <1>7, <1>8, <1>9, <1>10
     DEF Next, TurnStep, vars, turn, Ended, LateFinish, GuardAnswers, GuardPasses, PromptFails,
         EnterLate, PlanFails, PlanAsks, PlanBatch, Sweep, PlanAnswers, RunNothing,
         CriticPasses, CriticCaveats, Format

-----------------------------------------------------------------------------
(* What a turn remembers of its calls.                                      *)

\* The steps that touch neither the calls, their artifacts nor the memory.
Aside == UNCHANGED <<used, log, thread, landed, ran, shown, skipped, tainted, contract>>

LEMMA AsideSteps ==
  ASSUME \/ PromptFails \/ ResolvePendingMemory \/ GuardPasses
         \/ LimitFails \/ EnterLate \/ PlanFails \/ PlanAsks
         \/ \E calls \in Askable : PlanBatch(calls)
         \/ \E added \in SUBSET Cued : Sweep(added)
         \/ \E text \in {"grounded", "ungrounded"} : LimitAnswers(text) \/ PlanAnswers(text) \/ WrapUp(text)
         \/ CriticPasses \/ CriticCaveats \/ CriticRewrites \/ Format
  PROVE  Aside
BY DEF Aside, PromptFails, ResolvePendingMemory, GuardPasses, LimitFails, EnterLate, Planning,
       PlanFails, PlanAsks, PlanBatch, Sweep, LimitAnswers, PlanAnswers, WrapUp, CriticPasses,
       CriticCaveats, CriticRewrites, Format, seen

\* A batch: what is added to the artifacts, and what else it may change.
LEMMA BatchStep ==
  ASSUME TypeOK, NEW start \in now .. SoftWrap, RunBatch(start)
  PROVE  \E end \in [ToRun -> {"ok", "error", "unknown", "late"}],
            checks \in SUBSET (Reads \X {"ok", "denied"}) :
           /\ \A c \in ToRun : end[c] \in Endings(c)
           /\ log' = log \cup (Denials \cup checks \cup {<<c, Reported(c, end[c])>> : c \in ToRun})
           /\ tainted' = (tainted \/ DataShown(end) # {})
           /\ shown' = shown \cup DataShown(end)
           /\ ran' = Dispatched(ToRun)
           /\ thread \subseteq thread' /\ thread' \subseteq thread \cup (Late(end) \cap Writes)
           /\ landed \cup {c \in ToRun \cap Writes : end[c] = "ok"} \subseteq landed'
           /\ landed' \subseteq landed \cup {c \in ToRun \cap Writes :
                                              end[c] \in {"ok", "unknown", "error"}}
           /\ contract' \in ContractAfter(Denials \cup checks
                               \cup {<<c, Reported(c, end[c])>> : c \in ToRun})
<1>1. PICK end \in [ToRun -> {"ok", "error", "unknown", "late"}] :
     /\ \A c \in DOMAIN end : end[c] \in Endings(c)
     /\ \E s \in Takes(start, end), checks \in Validated(end) :
          BackToAgent(Denials \cup checks \cup {<<c, Reported(c, end[c])>> : c \in DOMAIN end})
     /\ tainted' = TaintAfter(DataShown(end))
     /\ shown' = shown \cup DataShown(end)
     /\ ran' = Dispatched(DOMAIN end)
     /\ \E going \in SUBSET (Late(end) \cap Writes) : thread' = thread \cup going
     /\ \E some \in SUBSET {c \in DOMAIN end \cap Writes : end[c] \in {"unknown", "error"}} :
          landed' = landed \cup some \cup {c \in DOMAIN end \cap Writes : end[c] = "ok"}
  BY Zenon DEF RunBatch
<1>2. DOMAIN end = ToRun
  OBVIOUS
<1>3. PICK checks \in Validated(end) :
        BackToAgent(Denials \cup checks \cup {<<c, Reported(c, end[c])>> : c \in DOMAIN end})
  BY <1>1
<1>4. checks \in SUBSET (Reads \X {"ok", "denied"})
  BY <1>3, CallsAreKnown DEF Validated
<1>5. log' = log \cup (Denials \cup checks \cup {<<c, Reported(c, end[c])>> : c \in ToRun})
  BY <1>2, <1>3 DEF BackToAgent
<1>6. tainted' = (tainted \/ DataShown(end) # {})
  BY <1>1 DEF TaintAfter
<1>7. contract' \in ContractAfter(Denials \cup checks
                    \cup {<<c, Reported(c, end[c])>> : c \in ToRun})
  BY <1>2, <1>3 DEF BackToAgent
<1>8. /\ landed \cup {c \in ToRun \cap Writes : end[c] = "ok"} \subseteq landed'
      /\ landed' \subseteq landed \cup {c \in ToRun \cap Writes :
                                         end[c] \in {"ok", "unknown", "error"}}
  BY <1>1, <1>2
<1>9. thread \subseteq thread' /\ thread' \subseteq thread \cup (Late(end) \cap Writes)
  BY <1>1
<1> WITNESS end \in [ToRun -> {"ok", "error", "unknown", "late"}]
<1> WITNESS checks \in SUBSET (Reads \X {"ok", "denied"})
<1> QED
  BY <1>1, <1>2, <1>5, <1>6, <1>7, <1>8, <1>9

\* The types, step by step.
LEMMA TypeStep == TypeOK /\ [Next]_vars => TypeOK'
<1> SUFFICES ASSUME TypeOK, [Next]_vars PROVE TypeOK'
  OBVIOUS
<1>0. now' \in 0 .. Ceiling
  BY ClockStep
<1> USE DEF TypeOK, seen, said
<1>1. NextTurn \in 0 .. MaxAgentTurns + 1
  <2>1. loopTurn + 1 \in Int /\ MaxAgentTurns + 1 \in Int
    BY KnobsAreSeconds
  <2>2. NextTurn \in {loopTurn + 1, MaxAgentTurns + 1} /\ NextTurn <= MaxAgentTurns + 1
    BY <2>1, LesserOfTwo, Zenon DEF NextTurn
  <2> QED
    BY <2>1, <2>2, KnobsAreSeconds
<1>2. CASE GuardAnswers \/ GuardPasses \/ PromptFails \/ ResolvePendingMemory
  BY <1>0, <1>2 DEF GuardAnswers, GuardPasses, PromptFails, ResolvePendingMemory, Answers
<1>3. CASE LimitFails \/ EnterLate \/ PlanFails \/ PlanAsks
  BY <1>0, <1>1, <1>3 DEF LimitFails, EnterLate, PlanFails, PlanAsks, Planning, Answers
<1>4. ASSUME NEW calls \in Askable, PlanBatch(calls) PROVE TypeOK'
  <2>1. batch' \subseteq Calls
    BY <1>4, CallsAreKnown DEF PlanBatch, Askable, Forced, Unserved, Calls
  <2> QED
    BY <1>0, <1>1, <1>4, <2>1 DEF PlanBatch, Planning
<1>5. ASSUME NEW added \in SUBSET Cued, Sweep(added) PROVE TypeOK'
  BY <1>0, <1>1, <1>5, CallsAreKnown DEF Sweep, Planning, Calls
<1>6. ASSUME NEW text \in {"grounded", "ungrounded"},
             LimitAnswers(text) \/ PlanAnswers(text) \/ WrapUp(text)
      PROVE  TypeOK'
  BY <1>0, <1>1, <1>6 DEF LimitAnswers, PlanAnswers, WrapUp, Planning, Answers
<1>7. Denials \subseteq Calls \X Outcomes /\ ToRun \subseteq Calls
  BY DEF Denials, ToRun, Planned, Outcomes
<1>8. ASSUME NEW entries, contract' \in ContractAfter(entries)
      PROVE  contract' \in {"none", "saved", "failed"}
  BY <1>8 DEF ContractAfter, Told
<1>9. CASE RunNothing
  BY <1>0, <1>7, <1>8, <1>9 DEF RunNothing, BackToAgent, TaintAfter
<1>10. CASE SkipBatch
  <2>1. PICK word \in {"timed_out", "denied"} :
          BackToAgent(Denials \cup {<<c, word>> : c \in ToRun})
    BY <1>10 DEF SkipBatch
  <2>2. Denials \cup {<<c, word>> : c \in ToRun} \subseteq Calls \X Outcomes
    BY <1>7 DEF Outcomes
  <2>3. contract' \in {"none", "saved", "failed"}
    BY <1>8, <2>1 DEF BackToAgent
  <2> QED
    BY <1>0, <1>10, <2>1, <2>2, <2>3 DEF SkipBatch, BackToAgent, TaintAfter
<1>11. ASSUME NEW start \in now .. SoftWrap, RunBatch(start) PROVE TypeOK'
  <2>1. PICK end \in [ToRun -> {"ok", "error", "unknown", "late"}],
             checks \in SUBSET (Reads \X {"ok", "denied"}) :
           /\ \A c \in ToRun : end[c] \in Endings(c)
           /\ log' = log \cup (Denials \cup checks \cup {<<c, Reported(c, end[c])>> : c \in ToRun})
           /\ tainted' = (tainted \/ DataShown(end) # {})
           /\ shown' = shown \cup DataShown(end)
           /\ ran' = Dispatched(ToRun)
           /\ thread' \subseteq thread \cup (Late(end) \cap Writes)
           /\ landed' \subseteq landed \cup {c \in ToRun \cap Writes :
                                              end[c] \in {"ok", "unknown", "error"}}
    BY <1>11, BatchStep
  <2>2. {<<c, Reported(c, end[c])>> : c \in ToRun} \subseteq Calls \X Outcomes
    BY <1>7, <2>1 DEF Reported, Outcomes
  <2>3. checks \subseteq Calls \X Outcomes
    BY DEF Calls, Outcomes
  <2>4. log' \subseteq Calls \X Outcomes
    BY <1>7, <2>1, <2>2, <2>3
  <2>5. landed' \subseteq Writes /\ thread' \subseteq Writes
    BY <1>7, <2>1 DEF Endings, Calls
  <2>6. ran' \in [Calls -> Nat] /\ shown' \subseteq Untrusted /\ tainted' \in BOOLEAN
    BY <2>1 DEF Dispatched, DataShown
  <2>7. used' \in 0 .. TurnBudget
    <3>1. used' = used + (now' - start)
      BY <1>11 DEF RunBatch
    <3>2. start \in Nat /\ now' \in Nat /\ start <= now' /\ now' - start <= TurnBudget - used
      BY <1>11, BatchTime, KnobsAreSeconds DEF Left
    <3> QED
      BY <3>1, <3>2, KnobsAreSeconds
  <2>8. /\ node' = "agent" /\ batch' = {} /\ contract' \in {"none", "saved", "failed"}
        /\ UNCHANGED <<loopTurn, wrapped, answer, said, skipped>>
    BY <1>8, <1>11, Zenon DEF RunBatch, BackToAgent
  <2> QED
    BY <1>0, <2>4, <2>5, <2>6, <2>7, <2>8
<1>12. CASE CriticPasses \/ CriticCaveats \/ CriticRewrites \/ Format
  BY <1>0, <1>12 DEF CriticPasses, CriticCaveats, CriticRewrites, Format, Delivered,
         WithoutRewrite, Answers
<1>13. CASE Cancel \/ CancelBatch
  <2>1. CancelNode
    BY <1>13 DEF Cancel, CancelBatch
  <2>2. ran' \in [Calls -> Nat]
    BY <1>13 DEF Cancel, CancelBatch, Dispatched
  <2>3. thread' \subseteq Writes /\ landed' \subseteq Writes
    BY <1>13 DEF Cancel, CancelBatch
  <2> QED
    <3>1. used' \in 0 .. TurnBudget /\ loopTurn' \in 0 .. MaxAgentTurns + 1
      BY <2>1, KnobsAreSeconds DEF CancelNode
    <3>2. /\ node' = "cancelled" /\ answer' \in Answers /\ contract' = "none"
          /\ batch' = {} /\ log' = {} /\ tainted' = FALSE /\ wrapped' = FALSE
          /\ UNCHANGED <<pending, explicit, shown, skipped>>
      BY <2>1 DEF CancelNode, Answers
    <3> QED
      BY <1>0, <2>2, <2>3, <3>1, <3>2
<1>14. ASSUME NEW w \in Writes, LateFinish(w) PROVE TypeOK'
  BY <1>14 DEF LateFinish, turn
<1>15. CASE UNCHANGED vars
  BY <1>15 DEF vars, turn
<1> HIDE DEF TypeOK
<1> QED
  BY <1>2, <1>3, <1>4, <1>5, <1>6, <1>9, <1>10, <1>11, <1>12, <1>13, <1>14, <1>15
     DEF Next, TurnStep, Ended

\* Artifacts only grow until the state is dropped, and then nothing is left to run.
LEMMA RecordedStep ==
  ASSUME TypeOK, Recorded, NoCallRunsTwice, TaintStays, [Next]_vars
  PROVE  Recorded' /\ NoCallRunsTwice' /\ TaintStays'
<1> DEFINE Goal == Recorded' /\ NoCallRunsTwice' /\ TaintStays'
<1> USE DEF Recorded, NoCallRunsTwice, TaintStays, Seen, Attempted
<1>1. CASE Aside /\ (node' = "cancelled" <=> node = "cancelled")
  BY <1>1 DEF Aside
<1>2. CASE GuardAnswers
  BY <1>2 DEF GuardAnswers, seen
<1>3. ASSUME NEW denied \in SUBSET (Planned \X {"denied", "timed_out"}),
             log' = log \cup denied, node' = "agent", node # "cancelled",
             UNCHANGED <<thread, landed, ran, shown>>, tainted' = TaintAfter({})
      PROVE  Goal
  BY <1>3 DEF TaintAfter
<1>4. CASE RunNothing
  <2>1. Denials \in SUBSET (Planned \X {"denied", "timed_out"})
    BY DEF Denials
  <2> QED
    BY <1>3, <1>4, <2>1 DEF RunNothing, BackToAgent, seen
<1>5. CASE SkipBatch
  <2>1. PICK word \in {"timed_out", "denied"} :
          BackToAgent(Denials \cup {<<c, word>> : c \in ToRun})
    BY <1>5 DEF SkipBatch
  <2>2. Denials \cup {<<c, word>> : c \in ToRun} \in SUBSET (Planned \X {"denied", "timed_out"})
    BY DEF Denials, ToRun
  <2> QED
    BY <1>3, <1>5, <2>1, <2>2 DEF SkipBatch, BackToAgent
<1>6. ASSUME NEW start \in now .. SoftWrap, RunBatch(start) PROVE Goal
  <2>1. PICK end \in [ToRun -> {"ok", "error", "unknown", "late"}],
             checks \in SUBSET (Reads \X {"ok", "denied"}) :
           /\ \A c \in ToRun : end[c] \in Endings(c)
           /\ log' = log \cup (Denials \cup checks \cup {<<c, Reported(c, end[c])>> : c \in ToRun})
           /\ tainted' = (tainted \/ DataShown(end) # {})
           /\ shown' = shown \cup DataShown(end)
           /\ ran' = Dispatched(ToRun)
           /\ thread \subseteq thread' /\ thread' \subseteq thread \cup (Late(end) \cap Writes)
           /\ landed' \subseteq landed \cup {c \in ToRun \cap Writes :
                                              end[c] \in {"ok", "unknown", "error"}}
    BY <1>6, BatchStep
  <2>2. node = "execute_tools" /\ node' = "agent"
    BY <1>6 DEF RunBatch, BackToAgent
  <2>3. ToRun \subseteq Calls /\ \A c \in ToRun : ~ Seen(c) /\ ran[c] = 0 /\ c \notin landed \cup thread
    BY <2>2 DEF ToRun, Planned, TypeOK
  <2>4. ASSUME NEW c \in ToRun PROVE Seen(c)'
    <3>1. <<c, Reported(c, end[c])>> \in log'
      BY <2>1
    <3>2. <<c, Reported(c, end[c])>>[1] = c
      OBVIOUS
    <3> QED
      BY <3>1, <3>2
  <2>5. \A c \in Calls : Seen(c) => Seen(c)'
    BY <2>1
  <2>6. Late(end) \subseteq ToRun
    BY DEF Late
  <2>7. Recorded'
    <3>1. \A c \in Calls : ran'[c] > 0 => Seen(c)'
      BY <2>1, <2>2, <2>4, <2>5 DEF Dispatched
    <3>2. \A w \in landed' \cup thread' : Seen(w)'
      BY <2>1, <2>2, <2>4, <2>5, <2>6 DEF TypeOK, Calls
    <3> QED
      BY <3>1, <3>2
  <2>8. NoCallRunsTwice'
    BY <2>1, <2>3 DEF Dispatched, TypeOK
  <2>9. TaintStays'
    BY <2>1, <2>2
  <2> QED
    BY <2>7, <2>8, <2>9
<1>7. CASE Cancel \/ CancelBatch
  <2>1. node' = "cancelled" /\ log' = {}
    BY <1>7 DEF Cancel, CancelBatch, CancelNode
  <2>2. NoCallRunsTwice'
    BY <1>7 DEF Cancel, CancelBatch, Dispatched, ToRun, Planned, TypeOK
  <2> QED
    BY <2>1, <2>2
<1>8. ASSUME NEW w \in Writes, LateFinish(w) PROVE Goal
  BY <1>8 DEF LateFinish, turn
<1>9. CASE UNCHANGED vars
  BY <1>9 DEF vars, turn, seen
<1>10. CASE \/ PromptFails \/ ResolvePendingMemory \/ GuardPasses
            \/ LimitFails \/ EnterLate \/ PlanFails \/ PlanAsks
            \/ \E calls \in Askable : PlanBatch(calls)
            \/ \E added \in SUBSET Cued : Sweep(added)
            \/ \E text \in {"grounded", "ungrounded"} : LimitAnswers(text) \/ PlanAnswers(text) \/ WrapUp(text)
            \/ CriticPasses \/ CriticCaveats \/ CriticRewrites \/ Format
  <2>1. Aside
    BY <1>10, AsideSteps
  <2>2. node # "cancelled" /\ node' # "cancelled"
    BY <1>10 DEF PromptFails, ResolvePendingMemory, GuardPasses, LimitFails, EnterLate, Planning,
       Entering, PlanFails, PlanAsks, PlanBatch, Sweep, LimitAnswers, PlanAnswers, WrapUp,
       CriticPasses, CriticCaveats, CriticRewrites, Format
  <2> QED
    BY <1>1, <2>1, <2>2
<1> HIDE DEF Recorded, NoCallRunsTwice, TaintStays
<1>11. CASE TurnStep
  BY <1>2, <1>4, <1>5, <1>6, <1>7, <1>10, <1>11 DEF TurnStep
<1> QED
  BY <1>8, <1>9, <1>11 DEF Next, Ended

\* What a step adds to the ledger agrees with what it does to the memory and the
\* threads, and the reply speaks of a save that is in the ledger.
LEMMA ReportStep ==
  ASSUME TypeOK, Recorded, WritesAreNotMisreported, [Next]_vars
  PROVE  WritesAreNotMisreported'
<1> USE DEF WritesAreNotMisreported, NeverRun, IsOver
<1>1. CASE Aside /\ (node' = "cancelled" <=> node = "cancelled")
  BY <1>1 DEF Aside
<1>2. CASE GuardAnswers
  BY <1>2 DEF GuardAnswers, seen
<1>3. ASSUME NEW denied \in SUBSET (Planned \X {"denied", "timed_out"}),
             log' = log \cup denied, contract' \in ContractAfter(denied),
             node' = "agent", node # "cancelled", UNCHANGED <<thread, landed>>
      PROVE  WritesAreNotMisreported'
  <2>1. ASSUME NEW w \in Writes, NEW word, <<w, word>> \in denied
        PROVE  w \notin landed \cup thread /\ word \in {"denied", "timed_out"}
    BY <1>3, <2>1 DEF Planned, Recorded
  <2>2. contract' = "saved" => contract = "saved"
    BY <1>3 DEF ContractAfter, Told
  <2> QED
    BY <1>3, <2>1, <2>2
<1>4. CASE RunNothing
  <2>1. Denials \in SUBSET (Planned \X {"denied", "timed_out"})
    BY DEF Denials
  <2> QED
    BY <1>3, <1>4, <2>1 DEF RunNothing, BackToAgent, seen
<1>5. CASE SkipBatch
  <2>1. PICK word \in {"timed_out", "denied"} :
          BackToAgent(Denials \cup {<<c, word>> : c \in ToRun})
    BY <1>5 DEF SkipBatch
  <2>2. Denials \cup {<<c, word>> : c \in ToRun} \in SUBSET (Planned \X {"denied", "timed_out"})
    BY DEF Denials, ToRun
  <2> QED
    BY <1>3, <1>5, <2>1, <2>2 DEF SkipBatch, BackToAgent
<1>6. ASSUME NEW start \in now .. SoftWrap, RunBatch(start) PROVE WritesAreNotMisreported'
  <2>1. PICK end \in [ToRun -> {"ok", "error", "unknown", "late"}],
             checks \in SUBSET (Reads \X {"ok", "denied"}) :
           /\ \A c \in ToRun : end[c] \in Endings(c)
           /\ log' = log \cup (Denials \cup checks \cup {<<c, Reported(c, end[c])>> : c \in ToRun})
           /\ thread \subseteq thread' /\ thread' \subseteq thread \cup (Late(end) \cap Writes)
           /\ landed \cup {c \in ToRun \cap Writes : end[c] = "ok"} \subseteq landed'
           /\ landed' \subseteq landed \cup {c \in ToRun \cap Writes :
                                              end[c] \in {"ok", "unknown", "error"}}
           /\ contract' \in ContractAfter(Denials \cup checks
                               \cup {<<c, Reported(c, end[c])>> : c \in ToRun})
    BY <1>6, BatchStep
  <2>2. node = "execute_tools" /\ node' = "agent"
    BY <1>6 DEF RunBatch, BackToAgent
  <2>3. Late(end) \subseteq ToRun
    BY DEF Late
  \* The threads and effects of a save that has an entry do not change here.
  <2>4. \A c \in Planned : ~ Seen(c) /\ c \notin landed \cup thread
    BY <2>2 DEF Planned, Recorded
  <2>5. ASSUME NEW w \in Writes, w \notin ToRun
        PROVE  (w \in landed' <=> w \in landed) /\ (w \in thread' <=> w \in thread)
    BY <2>1, <2>3, <2>5
  <2>6. ASSUME NEW w \in Writes, NEW word, <<w, word>> \in log'
        PROVE  \/ <<w, word>> \in log /\ w \notin ToRun
               \/ word = "denied" /\ w \in Planned /\ w \notin ToRun
               \/ w \in ToRun /\ word = Reported(w, end[w])
    <3>1. CASE <<w, word>> \in log
      BY <2>4, <3>1 DEF ToRun, Seen, Attempted
    <3>2. CASE <<w, word>> \in Denials
      BY <3>2 DEF Denials, ToRun
    <3>3. CASE <<w, word>> \in checks
      BY <3>3, CallsAreKnown
    <3> QED
      BY <2>1, <2>6, <3>1, <3>2, <3>3
  <2>7. ASSUME NEW w \in Writes, NeverRun(w)' PROVE w \notin landed' \cup thread'
    <3>1. PICK word \in {"denied", "timed_out"} : <<w, word>> \in log'
      BY <2>7
    <3>2. ~ (w \in ToRun /\ word = Reported(w, end[w]))
      BY <2>1, <3>1 DEF Reported, Endings
    <3> QED
      BY <2>4, <2>5, <2>6, <3>1, <3>2
  <2>8. ASSUME NEW w \in Writes, NEW word \in {"ok", "error"}, <<w, word>> \in log'
        PROVE  w \notin thread' /\ (word = "ok" => w \in landed')
    <3>1. CASE <<w, word>> \in log /\ w \notin ToRun
      BY <2>5, <3>1
    <3>2. CASE w \in ToRun /\ word = Reported(w, end[w])
      <4>1. end[w] = word /\ w \notin Late(end)
        BY <3>2 DEF Reported, Late
      <4>2. w \notin thread
        BY <2>4, <3>2 DEF ToRun
      <4> QED
        BY <2>1, <3>2, <4>1, <4>2
    <3> QED
      BY <2>6, <2>8, <3>1, <3>2
  <2>9. ASSUME NEW w \in Writes, w \in thread' PROVE <<w, "unknown">> \in log'
    <3>1. CASE w \in thread
      BY <2>1, <2>2, <3>1
    <3>2. CASE w \in Late(end) \cap Writes
      <4>1. w \in ToRun /\ Reported(w, end[w]) = "unknown"
        BY <2>3, <3>2 DEF Reported, Late
      <4> QED
        BY <2>1, <4>1
    <3> QED
      BY <2>1, <2>9, <3>1, <3>2
  <2>10. ASSUME contract' = "saved" PROVE landed' # {}
    <3>1. CASE contract = "saved"
      BY <2>1, <3>1
    <3>2. ASSUME NEW w \in Writes,
                 <<w, "ok">> \in Denials \cup checks \cup {<<c, Reported(c, end[c])>> : c \in ToRun}
          PROVE  landed' # {}
      BY <2>1, <2>8, <3>2
    <3> QED
      BY <2>1, <2>10, <3>1, <3>2, CallsAreKnown DEF ContractAfter, Told, Denials
  <2> QED
    BY <2>7, <2>8, <2>9, <2>10
<1>7. CASE Cancel \/ CancelBatch
  BY <1>7 DEF Cancel, CancelBatch, CancelNode
<1>8. ASSUME NEW w \in Writes, LateFinish(w) PROVE WritesAreNotMisreported'
  BY <1>8 DEF LateFinish, turn, Recorded
<1>9. CASE UNCHANGED vars
  BY <1>9 DEF vars, turn, seen
<1>10. CASE \/ PromptFails \/ ResolvePendingMemory \/ GuardPasses
            \/ LimitFails \/ EnterLate \/ PlanFails \/ PlanAsks
            \/ \E calls \in Askable : PlanBatch(calls)
            \/ \E added \in SUBSET Cued : Sweep(added)
            \/ \E text \in {"grounded", "ungrounded"} : LimitAnswers(text) \/ PlanAnswers(text) \/ WrapUp(text)
            \/ CriticPasses \/ CriticCaveats \/ CriticRewrites \/ Format
  <2>1. Aside
    BY <1>10, AsideSteps
  <2>2. node # "cancelled" /\ node' # "cancelled"
    BY <1>10 DEF PromptFails, ResolvePendingMemory, GuardPasses, LimitFails, EnterLate, Planning,
       Entering, PlanFails, PlanAsks, PlanBatch, Sweep, LimitAnswers, PlanAnswers, WrapUp,
       CriticPasses, CriticCaveats, CriticRewrites, Format
  <2> QED
    BY <1>1, <2>1, <2>2
<1> HIDE DEF WritesAreNotMisreported
<1>11. CASE TurnStep
  BY <1>2, <1>4, <1>5, <1>6, <1>7, <1>10, <1>11 DEF TurnStep
<1> QED
  BY <1>8, <1>9, <1>11 DEF Next, Ended

-----------------------------------------------------------------------------
(* The edge, and what the critic lets through.                              *)

\* Once a batch came too late, no plan that could open another is made.
LEMMA EdgeStep ==
  ASSUME TypeOK, EdgePassed, RefusedBatchIsTheLast, [Next]_vars
  PROVE  EdgePassed' /\ RefusedBatchIsTheLast'
<1> USE DEF EdgePassed, RefusedBatchIsTheLast
<1>0. now \in Int /\ now' \in Int /\ now <= now' /\ Edge \in Int
  BY ClockStep, Clock DEF TypeOK
<1>1. CASE SkipBatch
  <2>1. node' = "agent" /\ (skipped' => skipped \/ TooLate(now'))
    BY <1>1 DEF SkipBatch, BackToAgent
  <2>2. TooLate(now') => now' > Edge
    BY <1>0, KnobsAreSeconds DEF TooLate, Edge
  <2> QED
    BY <1>0, <1>1, <2>1, <2>2 DEF SkipBatch
<1>2. CASE Planning
  BY <1>0, <1>2 DEF Planning, Entering, PastTheEdge, seen
<1>3. CASE Cancel \/ CancelBatch
  BY <1>0, <1>3 DEF Cancel, CancelBatch, CancelNode
<1>4. CASE /\ skipped' = skipped /\ node' # "execute_tools"
           /\ node \notin {"done", "cancelled"} \/ node' = node
  BY <1>0, <1>4
<1>5. ASSUME NEW start \in now .. SoftWrap, RunBatch(start)
      PROVE  skipped' = skipped /\ node' = "agent" /\ node = "execute_tools"
  BY <1>5 DEF RunBatch, BackToAgent
<1>6. CASE \/ PromptFails \/ ResolvePendingMemory \/ GuardPasses \/ GuardAnswers
           \/ LimitFails \/ EnterLate
           \/ \E text \in {"grounded", "ungrounded"} : LimitAnswers(text) \/ WrapUp(text)
           \/ CriticPasses \/ CriticCaveats \/ CriticRewrites \/ Format \/ RunNothing
  <2>1. skipped' = skipped
    BY <1>6 DEF PromptFails, ResolvePendingMemory, GuardPasses, GuardAnswers, LimitFails, EnterLate,
           LimitAnswers, WrapUp, CriticPasses, CriticCaveats, CriticRewrites, Format, RunNothing, seen
  <2>2. node' # "execute_tools" /\ node \notin {"done", "cancelled"}
    BY <1>6 DEF PromptFails, ResolvePendingMemory, GuardPasses, GuardAnswers, LimitFails, EnterLate,
           LimitAnswers, WrapUp, CriticPasses, CriticCaveats, CriticRewrites, Format, RunNothing,
           BackToAgent, Entering
  <2> QED
    BY <1>4, <2>1, <2>2
<1>7. CASE UNCHANGED <<node, now, skipped>>
  BY <1>7
<1>8. ASSUME NEW w \in Writes, LateFinish(w) PROVE UNCHANGED <<node, now, skipped>>
  BY <1>8 DEF LateFinish, turn
<1> HIDE DEF EdgePassed, RefusedBatchIsTheLast
<1>9. CASE TurnStep
  BY <1>1, <1>2, <1>3, <1>4, <1>5, <1>6, <1>9
     DEF TurnStep, PlanFails, PlanAsks, PlanBatch, Sweep, PlanAnswers
<1> QED
  BY <1>7, <1>8, <1>9 DEF Next, Ended, vars, turn, seen

\* The agent opens a batch before the edge, and no step passes time in between.
LEMMA PlanStep ==
  ASSUME TypeOK, PlannedInTime, [Next]_vars
  PROVE  PlannedInTime'
<1> USE DEF PlannedInTime
<1>1. CASE node' # "execute_tools"
  BY <1>1
<1>2. CASE Planning
  <2>1. now \in Nat /\ Edge \in Nat /\ now <= Edge
    BY <1>2, Clock DEF TypeOK, Planning, PastTheEdge
  <2>2. now' \in Until(now, Edge)
    BY <1>2 DEF Planning
  <2> QED
    BY <2>1, <2>2, UntilBounds
<1>3. CASE UNCHANGED <<node, now>>
  BY <1>3
<1>4. ASSUME NEW w \in Writes, LateFinish(w) PROVE UNCHANGED <<node, now>>
  BY <1>4 DEF LateFinish, turn
<1>5. CASE ResolvePendingMemory
  BY <1>5 DEF ResolvePendingMemory
<1> HIDE DEF PlannedInTime
<1>6. CASE TurnStep
  BY <1>1, <1>2, <1>5, <1>6
     DEF TurnStep, GuardAnswers, GuardPasses, PromptFails, LimitFails, EnterLate, PlanFails,
         PlanAsks, PlanBatch, Sweep, LimitAnswers, PlanAnswers, WrapUp, RunNothing, SkipBatch,
         RunBatch, BackToAgent, CriticPasses, CriticCaveats, CriticRewrites, Format, Cancel,
         CancelBatch, CancelNode
<1> QED
  BY <1>3, <1>4, <1>6 DEF Next, Ended, vars, turn

\* Whatever reaches the formatter has passed the critic, or looked nothing up.
LEMMA CriticStep ==
  ASSUME TypeOK, UngroundedIsMarked, [Next]_vars
  PROVE  UngroundedIsMarked'
<1> USE DEF UngroundedIsMarked, RetrievalExpected, Attempted
<1>1. CASE node' \notin {"format", "done"}
  BY <1>1
<1>2. CASE GuardAnswers \/ PromptFails \/ PlanAsks
  BY <1>2 DEF GuardAnswers, PromptFails, PlanAsks
<1>3. CASE CriticPasses \/ CriticCaveats \/ CriticRewrites \/ Format
  BY <1>3 DEF CriticPasses, CriticCaveats, CriticRewrites, Format, Delivered, WithoutRewrite
<1>4. CASE UNCHANGED <<node, log, answer>>
  BY <1>4
<1>5. ASSUME NEW w \in Writes, LateFinish(w) PROVE UNCHANGED <<node, log, answer>>
  BY <1>5 DEF LateFinish, turn
<1>6. CASE ResolvePendingMemory
  BY <1>6 DEF ResolvePendingMemory
<1> HIDE DEF UngroundedIsMarked
<1>7. CASE TurnStep
  BY <1>1, <1>2, <1>3, <1>6, <1>7
     DEF TurnStep, GuardPasses, LimitFails, EnterLate, PlanFails, PlanBatch, Sweep, LimitAnswers,
         PlanAnswers, WrapUp, RunNothing, SkipBatch, RunBatch, BackToAgent, Cancel, CancelBatch,
         CancelNode
<1> QED
  BY <1>4, <1>5, <1>7 DEF Next, Ended, vars, turn

LEMMA InitInv == Init => IInv
<1> SUFFICES ASSUME Init PROVE IInv
  OBVIOUS
<1> USE DEF Init
<1>1. TypeOK
  <2>1. 0 \in 0 .. Ceiling /\ 0 \in 0 .. MaxAgentTurns + 1 /\ 0 \in 0 .. TurnBudget
    BY Clock, KnobsAreSeconds
  <2> QED
    BY <2>1 DEF TypeOK, Answers
<1>2. Recorded /\ NoCallRunsTwice /\ WritesAreNotMisreported /\ TaintStays
  BY DEF Recorded, NoCallRunsTwice, WritesAreNotMisreported, NeverRun, IsOver, TaintStays
<1>3. PlannedInTime /\ EdgePassed /\ RefusedBatchIsTheLast /\ UngroundedIsMarked
  BY DEF PlannedInTime, EdgePassed, RefusedBatchIsTheLast, UngroundedIsMarked
<1> QED
  BY <1>1, <1>2, <1>3 DEF IInv

\* The inductive invariant: what was dispatched has an artifact, what was shown
\* has tainted the turn, and a refusal for want of time is past the edge.
THEOREM Invariance == Spec => []IInv
<1>1. IInv /\ [Next]_vars => IInv'
  BY TypeStep, RecordedStep, ReportStep, PlanStep, EdgeStep, CriticStep DEF IInv
<1> QED
  BY InitInv, <1>1, PTL DEF Spec

\* Every reachable state has the right types: the clock stays inside the turn and
\* the tools inside their budget.
THEOREM TypeCorrect == Spec => []TypeOK
<1>1. IInv => TypeOK
  BY DEF IInv
<1> QED
  BY Invariance, <1>1, PTL

\* No call of a turn is dispatched twice.
THEOREM NoCallRunsTwiceHolds == Spec => []NoCallRunsTwice
<1>1. IInv => NoCallRunsTwice
  BY DEF IInv
<1> QED
  BY Invariance, <1>1, PTL

\* A save that the ledger calls refused or never run has no effect and no thread; only
\* one called unknown, or one of a cancelled turn, is still at work; and the reply says
\* saved only when a save is in the memory.
THEOREM WritesAreNotMisreportedHolds == Spec => []WritesAreNotMisreported
<1>1. IInv => WritesAreNotMisreported
  BY DEF IInv
<1> QED
  BY Invariance, <1>1, PTL

\* A batch refused for want of time is the last.
THEOREM RefusedBatchIsTheLastHolds == Spec => []RefusedBatchIsTheLast
<1>1. IInv => RefusedBatchIsTheLast
  BY DEF IInv
<1> QED
  BY Invariance, <1>1, PTL

\* What failed the grounding check carries a caveat.
THEOREM UngroundedIsMarkedHolds == Spec => []UngroundedIsMarked
<1>1. IInv => UngroundedIsMarked
  BY DEF IInv
<1> QED
  BY Invariance, <1>1, PTL

\* After foreign text was shown, only what the user asked to save is saved.
THEOREM GateSeesTheTaintHolds == Spec => GateSeesTheTaint
<1>1. ASSUME IInv, [Next]_vars, NEW w \in Writes, ran'[w] > ran[w], ~ Authorized(w)
      PROVE  shown = {}
  <2>1. w \in ToRun /\ node = "execute_tools"
    <3>1. CASE \E start \in now .. SoftWrap : RunBatch(start)
      BY <1>1, <3>1, BatchStep DEF RunBatch, Dispatched, IInv, TypeOK, Calls
    <3>2. CASE CancelBatch
      BY <1>1, <3>2 DEF CancelBatch, Dispatched, IInv, TypeOK, Calls
    <3>3. CASE ran' = ran
      BY <1>1, <3>3 DEF IInv, TypeOK, Calls
    <3> QED
      BY <1>1, <3>1, <3>2, <3>3, AsideSteps
         DEF Next, TurnStep, Ended, vars, seen, Aside, LateFinish, GuardAnswers, RunNothing,
             SkipBatch, Cancel
  <2>2. ~ tainted
    BY <1>1, <2>1 DEF ToRun, Planned, Denied
  <2> QED
    BY <1>1, <2>1, <2>2 DEF IInv, TaintStays
<1>2. IInv /\ [Next]_vars =>
        [\A w \in Writes : ran'[w] > ran[w] /\ ~ Authorized(w) => shown = {}]_vars
  BY <1>1
<1> QED
  BY Invariance, <1>2, PTL DEF Spec, GateSeesTheTaint

\* A plan waits for its dispatch no longer than from the edge to the hard end.
DispatchIsPrompt == Slack <= HardEnd - Edge

\* The nodes that the hard end bounds, once a batch is planned in time.
LEMMA BoundedSteps ==
  ASSUME DispatchIsPrompt, TypeOK, PlannedInTime, [Next]_vars, now' # now, now' > HardEnd
  PROVE  ResolvePendingMemory \/ CriticRewrites \/ CancelNode
<1> SUFFICES ASSUME ~ ResolvePendingMemory, ~ CriticRewrites, ~ CancelNode PROVE FALSE
  OBVIOUS
<1>1. /\ now \in Nat /\ now' \in Nat /\ HardEnd \in Nat /\ Edge \in Nat
      /\ Edge <= SoftWrap /\ SoftWrap <= HardEnd /\ SoftWrap \in Nat /\ Slack \in Nat
  BY ClockStep, Clock, KnobsAreSeconds DEF TypeOK
<1>2. ASSUME NEW deadline \in {Edge, HardEnd}, now' \in Until(now, deadline) PROVE FALSE
  <2>1. now' <= deadline \/ now' = now
    BY <1>1, <1>2, UntilBounds
  <2> QED
    BY <1>1, <1>2, <2>1
<1>3. CASE LimitFails \/ \E text \in {"grounded", "ungrounded"} : LimitAnswers(text)
  BY <1>2, <1>3 DEF LimitFails, LimitAnswers
<1>4. CASE Planning
  BY <1>2, <1>4 DEF Planning
<1>5. ASSUME NEW text \in {"grounded", "ungrounded"}, WrapUp(text) PROVE FALSE
  BY <1>1, <1>5 DEF WrapUp, WrapWindow
<1>6. CASE SkipBatch
  BY <1>1, <1>6 DEF SkipBatch, PlannedInTime, DispatchIsPrompt
<1>7. ASSUME NEW start \in now .. SoftWrap, RunBatch(start) PROVE FALSE
  <2>1. now' <= SoftWrap
    BY <1>7, BatchTime, Zenon
  <2> QED
    BY <1>1, <2>1
<1>8. CASE Cancel \/ CancelBatch
  BY <1>8 DEF Cancel, CancelBatch
<1> QED
  BY <1>3, <1>4, <1>5, <1>6, <1>7, <1>8
     DEF Next, TurnStep, vars, turn, Ended, LateFinish, GuardAnswers, GuardPasses, PromptFails,
         EnterLate, PlanFails, PlanAsks, PlanBatch, Sweep, PlanAnswers, RunNothing,
         CriticPasses, CriticCaveats, Format

\* Past the hard end the loop spends no time, when a plan is dispatched promptly.
THEOREM NothingRunsPastTheEndHolds ==
  ASSUME DispatchIsPrompt
  PROVE  Spec => NothingRunsPastTheEnd
<1> DEFINE Bounded == now' # now /\ now' > HardEnd
                        => ResolvePendingMemory \/ CriticRewrites \/ CancelNode
<1>1. IInv /\ [Next]_vars => [Bounded]_vars
  BY BoundedSteps DEF IInv
<1>2. [][Bounded]_vars => NothingRunsPastTheEnd
  BY PTL DEF NothingRunsPastTheEnd
<1> QED
  BY Invariance, <1>1, <1>2, PTL DEF Spec
=============================================================================
