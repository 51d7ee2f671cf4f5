SPECIFICATION FairJobSpec
CONSTANTS
  Designers = {d1, d2}
  Auditors = {a1, a2}
  Keepers = {k1}
  Clerks = {c1}
  OrgScope = {a1, c1}
  Creator = c1
  Requests = {r1}
  Handovers = {h1, h2}
  Nobody = Nobody
  Keep = Keep
  NoHandover = NoHandover
INVARIANTS
  TypeOK
  OwnershipIsFresh
  HandoverFreezesAudit
PROPERTIES
  ImplementsTaskLifecycle
  WarehouseNeverStalls
