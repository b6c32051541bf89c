SPECIFICATION MCSpec
CONSTANTS
  Parts = {"strings", "parser", "compiler", "function", "program"}
  INLINE_CAP = 1
  N_NEWLINES = 2
  N_SPACES = 3
  Texts <- MCTexts
  Programs <- MCPrograms
  LinkedPrograms <- MCLinked
  Symbols = {"h"}
INVARIANTS
  RoundTrip
  HeapOnlyWhenNeeded
  SaysWhatWasRead
  GroupsByPower
  TypesMeanNames
  CompilesExactly
  RunsAsWritten
  BuilderIsObeyed
  CallsArrive
  LinksExactly
PROPERTIES
  EveryTurnAdvances
