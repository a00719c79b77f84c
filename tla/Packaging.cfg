CONSTANTS
  r1 = r1  r2 = r2  c1 = c1  c2 = c2
  exe0 = exe0  doc = doc  a = a  mid = mid  last = last  out = out
  old = old  new = new  None = None
  Executable <- exe0
  Run <- MCRun
  Creator <- MCCreator
  File <- MCFile
  Given <- MCGiven
  Existing <- MCExisting
  Editable <- MCEditable
  Studies <- MCStudies
  Order <- MCOrder
  MaxEdits = 1
  MaxStarted = 2
SPECIFICATION DeliverySpec
CHECK_DEADLOCK FALSE
SYMMETRY MCSymmetry
INVARIANTS DeliveryTypeOK RecordIsWhole EvidenceComesFromItsSource RecordedOutputsStand
  PublishedIsWhole NoLeftovers
PROPERTIES InputsSurvive AllOrNothing
