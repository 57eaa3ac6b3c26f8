SPECIFICATION LiveSpec
CONSTANTS
  None = None
  Procs = {p1, p2}
  Users = {u1}
  OrderIds = {o1}
  CouponIds = {c1, c2}
  RewardIds = {1, 2, 3}
  Phones = {f1}
  Milestones = {1, 3}
  MaxMonth = 2
  CouponThreshold = 1
  SolesPorEstrella = 1
  InitialPhone <- SamePhone
  InitialCoupons <- OneCoupon
  InitialRewards <- OneReward
  Carts <- OwnCarts
  Requests = {"place", "status", "whatsapp", "maintenance", "progress"}
INVARIANTS OneRewardPerMilestone
PROPERTIES RequestsEnd
