SPECIFICATION Spec
CONSTANTS
  Reload = 30
  Durations <- MCDurations
  Clocks <- MCClocks
  Horizon = 150
INVARIANT NeverForgotten
PROPERTY NeverEarly
