CONSTANTS
  g1 = g1
  g2 = g2
  NumCards = 2
  MONTH_CARD_DAYS_NUM = 3
  Chargers <- TwoChargers
  ChanCap = 2
  MaxDay = 3
  MaxCharges = 2
  MaxCrashes = 1
SPECIFICATION FairSpec
INVARIANTS
  ActiveIsWatched
  NeverOverpaid
  PaysByTheDay
PROPERTIES
  PaidUpToDate
