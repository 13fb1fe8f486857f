SPECIFICATION Spec
CONSTANTS
  Creators = {c1, c2}
  Finalizers = {f1, f2}
  Submitters = {s1}
  Browsers = {w1}
  Jobs = {j1}
  Workers = {k1}
  Proposals = {p, q}
  None = None
  FilesPerBatch = 2
  MaxAtWork = 2
  MaxFaults = 1
SYMMETRY Interchangeable
INVARIANT TypeOK
INVARIANT UploadsAccounted
INVARIANT EvidenceKept
PROPERTY ReviewStands
PROPERTY DismissedStays
CHECK_DEADLOCK FALSE
