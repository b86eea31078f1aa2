SPECIFICATION SeedSpec
CONSTANTS
  Slice = {1, 9, 10}
  Todays <- TurnOfYear
  PayDates <- NewYearsEve
  NewPayments = {0}
  MaxWrites = 1
  Null = Null
INVARIANTS SeedIsWhole ReportsAgree
