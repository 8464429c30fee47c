CONSTANTS
  Thread = {t1, t2, t3}
  MaxLines = 4
  Null = null
SPECIFICATION Spec
INVARIANTS TypeOK MixedOnlyByRace
SYMMETRY Symmetry
