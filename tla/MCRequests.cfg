SPECIFICATION LiveSpec
CONSTANTS
    ca = ca
    d1 = d1
    d2 = d2
    c1 = c1
    r1 = r1
    r2 = r2
    Ca = {ca}
    Detail = {d1, d2}
    CaOf <- MCCaOf
    FirstActive = {d1}
    Covers <- MCCovers
    Content = {c1}
    Need <- MCNeed
    Vcard = {v}
    Gski = {g}
    EeResources <- MCEeResources
    MaxChanges = 2
    MaxTroubles = 1
INVARIANTS
    ManifestExact
PROPERTIES
    RoaKept
    WithdrawnIsRevoked
    Settles
