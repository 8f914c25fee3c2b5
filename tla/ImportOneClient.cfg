CONSTANTS
  Rows = {2, 3}
  Keys = {k1}
  NoKey = nokey
  KeyStored = TRUE
  MaxRequests = 6
  Inputs <- MCInputs
SPECIFICATION Spec
INVARIANTS TypeOK StatusFollowsIssues StatusIsEarned
PROPERTIES CommitsWhatWasSimulated AllOrNothing
