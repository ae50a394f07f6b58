CONSTANTS
  Tables <- MCTables
  LastDefaultSysmess = 1
SPECIFICATION Spec
INVARIANTS LookupsReadBack SavingsExact RamTextsAligned
