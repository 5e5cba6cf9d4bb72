CONSTANTS
  Workers = {w0, w1}
  Leader = w0
  Default = "a"
  Plans <- TwoRuns
SPECIFICATION Spec
INVARIANT MeetTogether
