CONSTANTS
  Kinds = {"issue", "label", "tag", "group", "project"}
  Names = {"n1", "n2"}
  Namespaces = {"s1", "s2"}
  Ids = {i1, i2}
  MaxOthers = 2
SPECIFICATION Spec
INVARIANTS OkMeansDone OnlyTheNamed
CHECK_DEADLOCK FALSE
