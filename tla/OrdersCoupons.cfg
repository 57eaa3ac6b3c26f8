SPECIFICATION Spec
CONSTANTS
  None = None
  Procs = {p1, p2}
  Users = {u1}
  OrderIds = {o1, o2}
  CouponIds = {c1, c2}
  RewardIds = {}
  Phones = {f1}
  Milestones = {}
  MaxMonth = 1
  CouponThreshold = 1
  SolesPorEstrella = 1
  InitialPhone <- SamePhone
  InitialCoupons <- NoCoupons
  InitialRewards <- NoRewards
  Carts <- PhoneCarts
  Requests = {"place", "status", "link", "maintenance", "lapse"}
SYMMETRY CouponSymmetry
INVARIANTS SpendEarnsOneCoupon
