SPECIFICATION Spec
CONSTANTS
  Threads = {t1, t2}
  Polling = {t1}
  WaitPolling = FALSE
  Owner = owner
  Guard = guard
  Nobody = nobody
  Node = {n1, n2, n3, n4}
  ListId = {l1, l2}
  NULL = NULL
INVARIANTS TypeOK WellFormed NoStaleNode NoCircularWait
PROPERTY ListSpec
SYMMETRY Symmetry
