CONSTANTS
  Jobs <- MCJobs
  MAXLEN = 4
  LITS = 12
  REFMAX = 4
  LARGE = 7
SPECIFICATION Spec
INVARIANTS CodesBest AcceptsOwnOutput ChoiceBySize
