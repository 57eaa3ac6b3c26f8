SPECIFICATION Spec
CONSTANTS
  Handlers = {r1, r2}
  None = None
  Days = {1, 2}
  Customers = {u1}
  Devices = {t1, t2}
  Generations = {g1}
  AccountIds = {a1, a2, a3}
  Emails = {e1, e2}
  Passwords = {w1, w2}
  GoogleIds = {x1}
  FirstAdmins = {a1}
  Owners = {u1, u2}
  Places = {p1, p2}
  Promos = {m1, m2}
  MilestoneIds = {m1}
  Thresholds = {1, 2}
  Multiplier = 2
  MaxOrders = 1
  s1 = s1
  s2 = s2
  Zones = {z1, z2}
  Spots = {s1, s2}
  Areas <- MCAreas
  Fees = {3}
  DistanceOf <- MCDistanceOf
  TierTables <- MCTierTables
  Grid = {0, 1, 2}
  Corners = {3, 4}
  Week = 3
  Day = 3
  LimaOffset = 2
  NoChange = NoChange
  Amounts = {10, 200}
  DefaultAmount = 10
  o1 = o1
  o2 = o2
  OptionIds <- MCOptionIds
  ItemIds = {i1}
  Options = {o1, o2}
  PriceOf <- MCPriceOf
  BasePrice = 7
  Discounts <- MCDiscounts
  DeliveryFees = {5}
  MaxMoney = 24
  NoValue = NoValue
  SaleIds = {k1, k2}
  Shoppers = {c1}
  Phones = {f1}
  Calendar = {7, 8}
  Totals = {2}
  Products = {d1}
  MonthStarts = {1, 7}
  Ticks = 1
  BannerIds = {n1, n2}
  Positions = {1, 2}
  BannerDtos <- MCBannerDtos
  Requesters = {c1}
  Nobody = Nobody
INVARIANTS RegistrationsHold AccountsAreNotMerged AdminsAreLostOnlyTogether OneDefaultAddress OnePromotionPerDay ProgressIsAligned  PolygonsAreRegions CommonInteriorsAreFound AppKnowsTheHours  CustomersHearTheLastClosing   EveryoneIsToldOnePrice ReportsAgree BannersAreInOrder RequestsDoWhatTheyMay
PROPERTIES CleansOnlyDeadTokens LinkingKeepsCustomers
CHECK_DEADLOCK FALSE
SYMMETRY MCSymmetry
