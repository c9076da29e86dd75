SPECIFICATION FairSpec
CONSTANTS
  MaxText = 18
  MaxRun = 1
  Symbol <- MCSymbol
PROPERTY
  IncompleteDataWaits
