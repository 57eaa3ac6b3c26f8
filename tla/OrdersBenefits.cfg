SPECIFICATION Spec
CONSTANTS
  None = None
  Procs = {p1, p2}
  Users = {u1}
  OrderIds = {o1, o2}
  CouponIds = {c1, c2}
  RewardIds = {1, 2}
  Phones = {f1}
  Milestones = {1, 2}
  MaxMonth = 1
  CouponThreshold = 9
  SolesPorEstrella = 9
  InitialPhone <- SamePhone
  InitialCoupons <- ManualCoupons
  InitialRewards <- EarnedRewards
  Carts <- BenefitCarts
  Requests = {"place", "status", "link", "maintenance", "lapse"}
SYMMETRY Symmetry
INVARIANTS OnlyBatchesDeadlock BenefitPaysOnce
