--------------------------- MODULE MCReplication ---------------------------
(* Replication on small instances. *)
EXTENDS Replication, TLC

MCDomains == {"a", "b"}
MCRRs == {"v", "w"}
TwoMutations == {Frame("a", "v"), Frame("b", "w")}
=============================================================================
