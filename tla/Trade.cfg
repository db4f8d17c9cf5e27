SPECIFICATION Spec
CONSTANTS
  p1 = p1
  p2 = p2
  p3 = p3
  i1 = i1
  i2 = i2
  Players = {p1, p2, p3}
  Items = {i1, i2}
  None = None
  Traded = 1
  MaxMoney = 2
  MaxCount <- MCMaxCount
  Bindable = {i2}
  Capacity <- MCCapacity
  FirstOwner <- MCFirstOwner
  FirstMoney <- MCFirstMoney
INVARIANTS
  Mutual
  Consent
PROPERTIES
  ExchangeAsAgreed
