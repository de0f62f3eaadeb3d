------------------------------ MODULE MCStore ------------------------------
(* Store on small instances: one zone with an apex and one other name.     *)
EXTENDS StoreRefinement, TLC

MCDomains == {"apex", "www"}
MCApexOnly == {"apex"}

Rec(kind, body) == [kind |-> kind, body |-> body, serial |-> 0]

PlainInputs == {Rec("plain", "a"), Rec("plain", "b")}
SoaInputs == {Rec("plain", "a"), Rec("soa", "a")}
LargeInputs == {Rec("plain", "a"), Rec("plain", "big")}
LargeOnes == {Rec("plain", "big")}
NoInputs == {}

MCRRs == [kind : {"soa", "cname", "plain"}, body : {rr.body : rr \in Inputs},
          serial : 0..(SerialMod - 1)]

CallerSymmetry == Permutations(Callers)

(* A zone file with an SOA, and one that was edited since. *)
MCZone == [d \in MCDomains |-> IF d = "apex" THEN Rec("soa", "a") ELSE NoRR]
MCEdited == [MCZone EXCEPT !["www"] = Rec("cname", "a")]
OneZone == {MCZone}
TwoZones == {MCZone, MCEdited}
NoZones == {}

(* Two of the crashes, faults and reloads happen in one behaviour. *)
TwoEvents == crashes + faults + reloads <= 2
=============================================================================
