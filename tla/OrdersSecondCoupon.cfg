SPECIFICATION Spec
CONSTANTS
  None = None
  Procs = {p1, p2}
  Users = {u1}
  OrderIds = {o1, o2}
  CouponIds = {c1, c2}
  RewardIds = {}
  Phones = {f1}
  Milestones = {}
  MaxMonth = 1
  CouponThreshold = 1
  SolesPorEstrella = 1
  InitialPhone <- SamePhone
  InitialCoupons <- AutoCoupon
  InitialRewards <- NoRewards
  Carts <- CouponCarts
  Requests = {"place", "status"}
SYMMETRY Symmetry
PROPERTIES NoSecondAutoCoupon
