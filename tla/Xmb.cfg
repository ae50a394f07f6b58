CONSTANTS
  Calls <- MCCalls
  Gap = 2
  MaxCoded = 4
  DataLimit = 7
SPECIFICATION Spec
INVARIANTS TextsWithinPages ImageCoversTexts SizesAgree
PROPERTY ImplementsPlacement
