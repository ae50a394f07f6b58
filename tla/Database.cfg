CONSTANTS
  Jobs <- MCJobs
  MaxTexts = 4
  InitialBuckets = 4
  Hash <- MCHash
SPECIFICATION Spec
INVARIANTS SymbolsFound TextsMeanSource FileReadsBack SourceReadsBack
CHECK_DEADLOCK FALSE
