SPECIFICATION FairSpec
CONSTANTS
  MaxText = 22
  MaxRun = 1
  Symbol <- MCSymbol
INVARIANTS
  TypeOK
  StringsWellFormed
  PartsInOrder
  HeaderBeginsItsLine
PROPERTY
  ParseEnds
