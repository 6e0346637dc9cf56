--------------------------- MODULE MCCALifecycle ---------------------------
\* Instances of CALifecycle for TLC.
EXTENDS CALifecycle
CONSTANTS k1, k2, k3, r1, r2, c1
const_Key == {k1, k2, k3}
const_Res == {r1, r2}
const_Child == {c1}
const_Faults == {"request", "reply", "publish"}
=============================================================================
