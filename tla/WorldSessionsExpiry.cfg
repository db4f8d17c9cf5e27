SPECIFICATION Spec
CONSTANTS
  Ann = Ann
  Bob = Bob
  Cid = Cid
  ann1 = ann1
  ann2 = ann2
  bob1 = bob1
  cid1 = cid1
  NoSession = NoSession
  Never = Never
  Accounts = {Ann, Bob}
  Sessions = {ann1, ann2, bob1}
  Acct <- MCAcct
  SkipQueue = {}
  Scenarios <- MCReturning
  Expire = 2
PROPERTIES
  ToleranceExpires
