SPECIFICATION FairSpec
CONSTANTS
  u1 = u1
  u2 = u2
  p1 = p1
  p2 = p2
  o1 = o1
  o2 = o2
  t1 = t1
  t2 = t2
  reserve = reserve
  exchange = exchange
  group = group
  pay = pay
  theLoop = theLoop
  Loop = theLoop

  Users = {u1, u2}
  Proposals = {p1, p2}
  Orders = {o1}
  Resource <- MCResource
  Tips = {t1}
  Accepts = 1
  MaxBackoff = 2
  MaxPlanchets = 3
  Works = {reserve, exchange}
  KindOf <- MCKindOf
  Cap = 2
  Scenes <- OneEach
  Callers <- TwoForOrders
  CanStop = TRUE
  MaxEvents = 1
INVARIANTS TipOnce SignedIsStored
PROPERTIES ChoiceStands AcceptedIsPickedUp WorkIsDone
