SPECIFICATION FairSpec
CONSTANTS
  RemoveTries = 3
  RenameTries = 4
  MaxEdits = 1
INVARIANTS OnlyFinishedPromoted 
PROPERTIES ResultNotLost Implements Returns
