CONSTANTS
  Jobs <- MCJobs
  MAXTOK = 4
  BUDGET = 3
SPECIFICATION Spec
INVARIANTS TextsDecode ObjectsKeepWords
PROPERTY StepsPay
