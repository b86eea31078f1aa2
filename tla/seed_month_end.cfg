SPECIFICATION SeedSpec
CONSTANTS
  Slice = {1, 9, 10}
  Todays <- NewYearsEve
  PayDates <- NewYearsEve
  NewPayments = {0}
  MaxWrites = 0
  Null = Null
INVARIANTS FullHistory
