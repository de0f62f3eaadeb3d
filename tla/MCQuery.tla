------------------------------ MODULE MCQuery ------------------------------
(* Query on a small instance: three keys that share a shard of two entries *)
(* and one key in a shard of its own.                                      *)
EXTENDS Query

MCKeys == {"a", "b", "c", "d"}
MCLower == [q \in MCKeys \cup {"A"} |-> IF q = "A" THEN "a" ELSE q]
MCAsks == [r \in {1, 2} |-> IF r = 1 THEN MCKeys \cup {"A"} ELSE {"a"}]
MCHash == [k \in MCKeys |-> IF k = "d" THEN 2 ELSE 1]
MCValues == {"v0", "v1", "v2"}
MCTtl == [v \in MCValues |-> CASE v = "v0" -> 0 [] v = "v1" -> 1 [] v = "v2" -> 2]
MCAnswers ==
  [k \in MCKeys |-> IF k = "a" THEN {"v0", "v2"} ELSE {}]
MCZones ==
  {[k \in MCKeys |-> IF k = "a" THEN "v2" ELSE "v1"],
   [k \in MCKeys |-> IF k = "b" THEN "v1" ELSE Negative]}
=============================================================================
