\* Three runs, a daily limit of two runs and of one medium-risk proposal.
SPECIFICATION Spec
CONSTANTS
  a1 = a1  a2 = a2  a3 = a3
  Runs = {a1, a2, a3}
  MaxRuns = 2
  MaxMedium = 1
SYMMETRY RunSymmetry
INVARIANT RunMatchesRequest
INVARIANT NothingLeftBehind
