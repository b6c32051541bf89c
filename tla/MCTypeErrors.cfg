SPECIFICATION MCSpec
CONSTANTS
  Parts = {"function"}
  INLINE_CAP = 1
  N_NEWLINES = 2
  N_SPACES = 3
  Texts <- MCTexts
  Programs <- MCPrograms
  LinkedPrograms <- MCLinked
  Symbols = {"h"}
INVARIANT
  MismatchIsAnError
