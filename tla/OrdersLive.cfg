SPECIFICATION LiveSpec
CONSTANTS
  None = None
  Procs = {p1, p2}
  Users = {u1}
  OrderIds = {o1, o2}
  CouponIds = {c1}
  RewardIds = {}
  Phones = {f1}
  Milestones = {}
  MaxMonth = 1
  CouponThreshold = 9
  SolesPorEstrella = 1
  InitialPhone <- SamePhone
  InitialCoupons <- NoCoupons
  InitialRewards <- NoRewards
  Carts <- PhoneCarts
  Requests = {"place", "link", "maintenance", "progress", "grant"}
PROPERTIES RequestsEnd
