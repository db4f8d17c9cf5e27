SPECIFICATION Spec
CONSTANTS
  p1 = p1
  p2 = p2
  p3 = p3
  i1 = i1
  i2 = i2
  Players = {p1, p2, p3}
  Items = {i1, i2}
  None = None
  FirstOwner <- MCFirstOwner
  FirstMoney <- MCFirstMoney
  DepositOf <- MCDepositOf
  MaxDeposit = 2
  Prices = {1, 2}
  Offers <- MCOffers
  CutPercent = 50
  Leavers = {p1}
  MaxAuctions = 2
INVARIANTS
  ItemsAccounted
  MoneyConserved
PROPERTIES
  PaysForSomething
  Settled
CHECK_DEADLOCK FALSE
