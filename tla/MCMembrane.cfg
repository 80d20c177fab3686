SPECIFICATION Spec
CONSTANTS
  Object = {o1, o2, o3, o4}
  String = {s1, s2}
  Other = {x}
  MaxArgs = 4
  Null = Null
SYMMETRY Values
INVARIANT TypeOK
INVARIANT OneWrapperEach
INVARIANT ChainsMirrored
INVARIANT NoBadEntry
CHECK_DEADLOCK FALSE
