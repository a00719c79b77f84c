CONSTANTS
  w1 = w1  w2 = w2  p1 = p1  p2 = p2
  fresh = fresh  mine = mine  theirs = theirs  None = None
  Window <- MCWindow
  Project <- MCProject
  Revision <- MCRevision
  Template <- fresh
  MaxCommands = 3
  MaxEvents = 3
SPECIFICATION Spec
CHECK_DEADLOCK FALSE
SYMMETRY MCSymmetry
INVARIANTS TypeOK RecoveryHasTheWork
PROPERTIES SavesReplaceTheirBasis CommandsKeepTheWork
