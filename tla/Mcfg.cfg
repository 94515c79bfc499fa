CONSTANT Tables <- MCTables
SPECIFICATION Spec
INVARIANT TypeOK
INVARIANT EntryDecoded
INVARIANT ShortTableShows
CHECK_DEADLOCK FALSE
