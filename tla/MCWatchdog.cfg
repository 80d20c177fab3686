SPECIFICATION Spec
CONSTANTS
  Caller = {c1, c2}
  Wrap = 8
  Interval = {1, 2, 3, 6}
  Late = 1
  MaxCalls = 3
INVARIANT TypeOK
PROPERTY OnTime
PROPERTY Responds
