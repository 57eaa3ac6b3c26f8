SPECIFICATION Spec
CONSTANTS
  None = None
  Procs = {p1, p2}
  Users = {u1}
  OrderIds = {o1, o2}
  CouponIds = {c1, c2}
  RewardIds = {1, 2}
  Phones = {f1}
  Milestones = {1, 2}
  MaxMonth = 1
  CouponThreshold = 2
  SolesPorEstrella = 2
  InitialPhone <- SamePhone
  InitialCoupons <- OneCoupon
  InitialRewards <- OneReward
  Carts <- RedeemingCarts
  Requests = {"place", "status", "link", "lapse", "maintenance"}
SYMMETRY Symmetry
INVARIANTS SpentIsDelivered
PROPERTIES ImplementsBook
