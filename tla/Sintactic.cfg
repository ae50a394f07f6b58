CONSTANTS
  Jobs <- MCJobs
  Reach = 2
  MAX_PROCESSES = 1
  MAX_LABELS = 5
  MAX_MESSAGES_PER_TABLE = 2
SPECIFICATION Spec
INVARIANTS InlineTextsFound SkipsLeadToLabels
PROPERTIES ImplementsConditionals LabelsStick
