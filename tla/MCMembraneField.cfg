SPECIFICATION Spec
CONSTANTS
  Object = {o1, o2}
  String = {s1}
  Other = {x}
  MaxArgs = 2
  Null = Null
INVARIANT ObjectsBecomeProxies
CHECK_DEADLOCK FALSE
