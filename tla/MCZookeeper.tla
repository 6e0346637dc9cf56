---------------------------- MODULE MCZookeeper ----------------------------
(* One tenant with a parent, a repository and a child. *)
EXTENDS Zookeeper, TLC
CONSTANTS a, p, kid, rpkic, gui

Tenants == {a}
Processes == {rpkic, gui}
OneLink == {<<a, p>>}
OneChild == {<<a, kid>>}
Confs == [parent |-> {"v1", "v2"}, repository |-> {"plain", "rrdp"},
          child |-> {"v1"}, client |-> {"v1"}]
TheRuns == (rpkic :> {"all"}) @@ (gui :> {"ca"})
=============================================================================
