SPECIFICATION Spec
CONSTANTS
  Designers = {d1, d2}
  Auditors = {}
  Keepers = {}
  Clerks = {c1}
  OrgScope = {c1}
  Creator = c1
  Requests = {r1, r2}
  Handovers = {}
  Nobody = Nobody
  Keep = Keep
  NoHandover = NoHandover
PROPERTIES
  ClaimsDoNotSteal
