\* Two workers; Redis fails twice, a worker restarts.
SPECIFICATION SwitchSpec
CONSTANTS
  w1 = w1  w2 = w2
  Workers = {w1, w2}
  HistoryCap = 2
  MaxFaults = 2
  MaxRestarts = 1
INVARIANT SwitchTypeOK
PROPERTY StopHolds
