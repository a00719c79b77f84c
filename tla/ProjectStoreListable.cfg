SPECIFICATION Spec
CONSTANTS
  None = None
  Editor = {e1, e2}
  starter = starter
  edited = edited
  imported = imported
  foreign = foreign
  study1 = study1
  study2 = study2
  Revision <- MCRevision
  Starter <- starter
  OriginOf <- MCOriginOf
  HistoryLimit = 2
INVARIANT HistoryListable
