SPECIFICATION PricingSpec

CONSTANTS
  MinInitial = 2
  MaxUnits = 14

INVARIANTS
  OwnedExactlyWhenFunded
  NoRoundingGain
  CalculatorMatchesContract

PROPERTY PriceNeverFalls
