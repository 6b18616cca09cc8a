SPECIFICATION ServicesSpec
CONSTANTS
  Handlers = {h1, h2}
  Desks = {h1, h2}
  Calls = {h1, h2}
  Attempts = {h1, h2}
  Errands = {h1, h2}
  Riders = {r1}
  NoRider = NoRider
  MaxInvites = 1
  MaxSeats = 3
  MaxForms = 2
  Merchants = {m1}
  Spaces = {w1}
  Customer = Customer
  Places = {p1, p2}
  NoPlace = NoPlace
  Onboard = {p1}
  MaxClaims = 1
  MaxAsks = 1
  MaxTokens = 3
  MaxCodes = 1
  MaxPasswords = 2
  MaxAttempts = 2
  Window = 2
  Block = 2
  Hold = 1
  MaxNow = 8
  Endpoints = {"assign", "claim", "status", "cancel"}
  Clerks = {h1, h2}
  Staff = {r1}
  MaxSalary = 2
  Guests = {h1, h2}
  Sales = {1}
  Extras = {3}
  Rates = {4}
  Cooks = {h1, h2}
  Kitchens = {1, 2}
  Cats = {c1}
  Dishes = {1, 2}
  KitchenOf <- MCKitchenOf
  Uncategorised = Uncategorised
  Editors = {h1, h2}
  Tracked = {"price", "name"}
  Untracked = {"image"}
  Values = {1, 2}
  Initially = 1
  MaxRevisions = 2
  Tickets = {1, 2}
  HouseOf <- MCHouseOf
  Meals = {"a", "b"}
  Lines <- MCLines
  Price <- MCPrice
  CategoryOf <- MCCategoryOf
  Fee = 2
  MonthStarts <- MCMonthStarts
  YearStart = 0
  Todays <- MCTodays
  OpenDays = {6, 13}
  LoyaltyRate = 4
  Options = {"a", "b"}
  OptionPrice <- MCOptionPrice
  AddOnPrice = 10
  DishPrice = 100
  MaxPicks = 2
  Visits = {h1, h2}
  Customers = {c1}
  MaxAddresses = 2
  Taps = {h1, h2}
  Fans = {1, 2}
  Hearted = {1}
  Houses = {2}
  MaxHearts = 2
  Writers = {h1, h2}
  Scrollers = {1}
  Talks = {1, 2}
  Limit = 1
  MaxMessages = 2
  MaxClock = 1
SYMMETRY Interchangeable
INVARIANTS
  OneSeatPerOverlap
  RidersAreReal
  
  
  BlockEnds
  UntoldHasCause
  SalariedIsPlatform
  
  
  TrailExplainsItem
  
  OnePrice
  DefaultPerOverlap
  HeartsCounted
  ConversationWhole
CHECK_DEADLOCK FALSE
