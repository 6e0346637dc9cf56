CONSTANTS
  a = a
  p = p
  kid = kid
  Tenant <- Tenants
  Link <- OneLink
  Child <- OneChild
  Conf <- Confs
  rpkic = rpkic
  gui = gui
  Command <- Processes
  Runs <- TheRuns
  MaxTroubles = 0
  MaxChanges = 1
SPECIFICATION Spec
INVARIANT NothingOrphaned
