SPECIFICATION Spec
CONSTANTS
  c1 = c1
  c2 = c2
  t1 = t1
  t2 = t2
  Conn = {c1}
  Task = {t1, t2}
  Backends = {"h1", "h2"}
  H3 = FALSE
CHECK_DEADLOCK FALSE
PROPERTY
  WaitUntilAwaited
