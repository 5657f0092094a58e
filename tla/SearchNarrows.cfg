SPECIFICATION Spec
CONSTANTS
  Remote = {"r"}
  Letters = {"a", "b"}
  MaxLength = 2
  MaxTyped = 3
  MaxReloads = 0
INVARIANT SubsearchNarrows
CHECK_DEADLOCK FALSE
