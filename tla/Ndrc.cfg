CONSTANTS
  Games <- MCGames
  Commands <- MCCommands
  MaxRuns = 2
  Absent = Absent
  Cut = Cut
SPECIFICATION Spec
INVARIANTS DatabaseFindsXmb SuccessIsThisRun FailureKeepsDatabase FrozenTextsSame
