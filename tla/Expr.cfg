CONSTANTS
  Sources <- MCSources
  IntBits = 10
  ShortString = 24
  MaxLongInt = 127
  FloatLimit = 4096
  Symbols <- MCSymbols
  SlotInt <- MCSlotInt
  SlotFloat <- MCSlotFloat
  Real <- MCReal
  Before <- MCBefore
SPECIFICATION Spec
INVARIANTS ParsesAsGrammar TypedReads StoresValue
CHECK_DEADLOCK FALSE
