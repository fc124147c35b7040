SPECIFICATION Spec
CONSTANTS
  Base = 3
  Size = 4
  Split = 2
  Bytes = {1, 2}
  Leftovers <- Earlier
  MaxBytes = 7
INVARIANTS TypeOK ShowsNewest TornDumpExact TornQueryTail FailedShowsStretch
