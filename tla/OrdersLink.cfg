SPECIFICATION Spec
CONSTANTS
  None = None
  Procs = {p1, p2, p3}
  Users = {u1, u2}
  OrderIds = {o1}
  CouponIds = {}
  RewardIds = {}
  Phones = {f1}
  Milestones = {}
  MaxMonth = 1
  CouponThreshold = 9
  SolesPorEstrella = 1
  InitialPhone <- SamePhone
  InitialCoupons <- NoCoupons
  InitialRewards <- NoRewards
  Carts <- PhoneCarts
  Requests = {"place", "status", "link", "whatsapp", "profile"}
SYMMETRY LinkSymmetry
PROPERTIES CustomerNeverReplaced EveryChangeIsSignalled FirstConfirmationKept
