SPECIFICATION FairSpec
CONSTANTS
  Albums = {a1, a2}
  Groups = {g1}
  Paths = {top, sub}
  Top = top
  Root = Root
  None = None
  Overlap = FALSE
  CreateInGroup = FALSE
  MaxInputs = 3
  MaxChanges = 1
INVARIANTS
  TypeOK
  ViewOfPlace
  CachesKeyed
PROPERTIES
  NeverOlder
  CatchesUp
  SpinnersStop
CHECK_DEADLOCK FALSE
