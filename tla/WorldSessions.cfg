SPECIFICATION Spec
CONSTANTS
  Ann = Ann
  Bob = Bob
  Cid = Cid
  ann1 = ann1
  ann2 = ann2
  bob1 = bob1
  cid1 = cid1
  NoSession = NoSession
  Never = Never
  Accounts = {Ann, Bob, Cid}
  Sessions = {ann1, ann2, bob1, cid1}
  Acct <- MCAcct
  SkipQueue = {Cid}
  Scenarios <- MCScenarios
  Expire = 2
INVARIANTS
  NoDangling
  QueueGate
  ShutdownUnloads
PROPERTIES
  QueueOnlyWhenFull
  LimitRespected
  NoOvertaking
  SessionsEnd
