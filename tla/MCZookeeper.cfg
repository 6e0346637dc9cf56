CONSTANTS
  a = a
  p = p
  kid = kid
  Tenant <- Tenants
  Link <- OneLink
  Child <- OneChild
  Conf <- Confs
  rpkic = rpkic
  gui = gui
  Command <- Processes
  Runs <- TheRuns
  MaxTroubles = 1
  MaxChanges = 2
SPECIFICATION LiveSpec
INVARIANT Rooted
PROPERTIES Converges SyncWorks KeysKept
