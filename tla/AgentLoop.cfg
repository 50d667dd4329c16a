SPECIFICATION Spec
CONSTANTS
  Reads = {search, commute}
  Writes = {own, derived}
  Search = search
  Checked = {commute}
  Cued = {commute}
  Untrusted = {search}
  Stated = {own}
  Refused = {}
  SoftWrap = 2
  Reserve = 2
  Crumb = 1
  MinBatch = 1
  MinAttempt = 1
  BatchBudget = 2
  TurnBudget = 1
  PerTool = 1
  Slack = 1
  MaxAgentTurns = 3
  MaxAsked = 2
INVARIANT NoCallRunsTwice
INVARIANT RefusedBatchIsTheLast
INVARIANT WritesAreNotMisreported
INVARIANT UngroundedIsMarked
PROPERTY NothingRunsPastTheEnd
PROPERTY GateSeesTheTaint
PROPERTY Terminates
