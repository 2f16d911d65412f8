SPECIFICATION Spec
CONSTANTS
  p = p
  q = q
  r = r
  t = t
  u = u
  Processes = {p, q, r}
  Versions = 3
  Known <- MCKnown
  Texts = {t, u}
  Text <- MCText
  Rebuilds = {2}
  Statements = 2
  StartBound = 4
  None = None
CHECK_DEADLOCK FALSE
INVARIANT Whole
PROPERTY ImplementsLedger
PROPERTY EndsAll
