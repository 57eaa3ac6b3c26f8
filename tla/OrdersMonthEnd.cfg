SPECIFICATION Spec
CONSTANTS
  None = None
  Procs = {p1, p2}
  Users = {u1}
  OrderIds = {o1}
  CouponIds = {}
  RewardIds = {1, 2}
  Phones = {f1}
  Milestones = {1}
  MaxMonth = 2
  CouponThreshold = 9
  SolesPorEstrella = 1
  InitialPhone <- SamePhone
  InitialCoupons <- NoCoupons
  InitialRewards <- NoRewards
  Carts <- PlainCarts
  Requests = {"place", "status"}
SYMMETRY Symmetry
INVARIANTS RewardBackedByItsMonth
