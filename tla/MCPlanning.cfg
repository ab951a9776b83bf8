\* The seven indexes on the twelve machines; nothing is bounded but their size.
\* A refused index, like a closed client, does nothing more.
CONSTANTS
  Texts <- MCTexts
  Nothing = Nothing
  Self = Self
  Indexes <- MCIndexes
  Machines <- MCMachines
SPECIFICATION Spec
PROPERTIES
  PlanIsSound
  SearchIsComplete
  EveryTypeHasItsDirectory
  
  ReadingsAgree
CHECK_DEADLOCK FALSE
