CONSTANTS
  Thread = {t1, t2}
  MaxLines = 2
  Null = null
SPECIFICATION Spec
INVARIANT OwnArgument
