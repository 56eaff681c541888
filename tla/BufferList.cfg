SPECIFICATION Spec
CONSTANTS
  N = 4
  Tasks = {1, 2, 3}
  Roles <- TwoPop
  Retries = 2
  None = None
INVARIANT Exclusive
