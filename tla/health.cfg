\* Two browsers come and go, four visits in all.
CONSTANTS
  Clients = {c1, c2}
  MaxVisits = 4
SPECIFICATION Spec
INVARIANTS NoneLost CheckedIffWatched
PROPERTIES RunnersEnd
CHECK_DEADLOCK FALSE
