------------------------------- MODULE MCWalk -------------------------------
(***************************************************************************)
(* Walk for TLC: a trust anchor with two children that share one RRDP      *)
(* notification, which changes once, and a grandchild under each of them,  *)
(* whose publication points are an rsync directory and one below it.       *)
(* `leafb' publishes nothing.  The manifest of `right' also lists a ROA    *)
(* that `left' has signed.                                                 *)
(***************************************************************************)
EXTENDS Walk
CONSTANTS w1, w2

TheWorkers == {w1, w2}
TheTAs == {"ta"}
TheCAs == {"ta", "left", "right", "leafa", "leafb"}
ThePoint == ("ta" :> "root") @@ ("left" :> "rrdp") @@ ("right" :> "rrdp")
            @@ ("leafa" :> "below") @@ ("leafb" :> "dir")
TheFiles ==
     ("ta.mft"    :> {"ta.crl", "left", "right"})
  @@ ("left1.mft" :> {"left1.crl", "roa1"})
  @@ ("left2.mft" :> {"left2.crl", "leafa"})
  @@ ("right.mft" :> {"right.crl", "leafb", "roa1"})
  @@ ("leafa.mft" :> {"leafa.crl", "roa2"})
TheRevoked ==
     ("ta.crl" :> {}) @@ ("left1.crl" :> {}) @@ ("left2.crl" :> {"left1.mft"})
  @@ ("right.crl" :> {}) @@ ("leafa.crl" :> {"roa2"})
Left1 == {"left1.mft", "left1.crl", "roa1"}
Left2 == {"left2.mft", "left2.crl", "leafa"}
Right == {"right.mft", "right.crl", "leafb"}
LeafA == {"leafa.mft", "leafa.crl", "roa2"}
TheObjects == TheCAs \cup DOMAIN TheFiles \cup DOMAIN TheRevoked \cup {"roa1", "roa2"}
TheIssuer ==
  [o \in TheObjects \ TheTAs |->
     CASE o \in Left1 \cup Left2 -> "left"
       [] o \in Right -> "right"
       [] o \in LeafA -> "leafa"
       [] OTHER -> "ta"]
TheNumber == [o \in DOMAIN TheFiles \cup DOMAIN TheRevoked |-> IF o \in Left2 THEN 2 ELSE 1]
TheUri ==
  [o \in TheObjects |->
     CASE o \in {"left1.mft", "left2.mft"} -> "left.mft"
       [] o \in {"left1.crl", "left2.crl"} -> "left.crl"
       [] OTHER -> o]
TheVersions ==
     ("root"  :> <<{"ta.mft", "ta.crl", "left", "right"}>>)
  @@ ("rrdp"  :> <<Left1 \cup Right, Left2 \cup Right>>)
  @@ ("dir"   :> <<LeafA>>)
  @@ ("below" :> <<LeafA>>)
TheAbove == {<<p, p>> : p \in DOMAIN TheVersions} \cup {<<"dir", "below">>}
TheChunks == {DOMAIN TheNumber, TheCAs \cup {"roa1", "roa2"}}
TheMaybeBad == {"left2.mft", "ta"}
TheOldData == {Left1 \cup {"ta"}}
=============================================================================
