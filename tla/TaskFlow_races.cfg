SPECIFICATION Spec
CONSTANTS
  Designers = {}
  Auditors = {u1}
  Keepers = {u1}
  Clerks = {u1}
  OrgScope = {u1}
  Creator = u1
  Requests = {r1, r2}
  Handovers = {}
  Nobody = Nobody
  Keep = Keep
  NoHandover = NoHandover
SYMMETRY Symmetry
INVARIANTS
  NoStageSkipped
  ReceiptAgreesWithStatus
