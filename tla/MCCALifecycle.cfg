SPECIFICATION FairSpec
CONSTANTS
  k1 = k1
  k2 = k2
  k3 = k3
  r1 = r1
  r2 = r2
  c1 = c1
  None = None
  Key <- const_Key
  Res <- const_Res
  Child <- const_Child
  Faults <- const_Faults
  MaxFaults = 1
  MaxChanges = 2
INVARIANT KeysInOrder
PROPERTIES MakeBeforeBreak Converged ManifestCatchesUp
