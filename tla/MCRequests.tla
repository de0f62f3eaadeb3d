----------------------------- MODULE MCRequests -----------------------------
(* Requests with a zone of three names, one name outside it, one TSIG key  *)
(* and an API token.                                                       *)
EXTENDS Requests

MCDomains == {"z", "a", "b", "x"}
MCUnder == [z \in MCDomains \cup {Root} |->
              IF z = Root THEN MCDomains
              ELSE IF z = "z" THEN {"z", "a", "b"} ELSE {z}]
MCCanonical ==
  [n \in MCDomains \cup {Root, "A", "key", "KEY", "other", "old", "sha", "md4"} |->
     IF n = "A" THEN "a" ELSE IF n = "KEY" THEN "key" ELSE n]
MCClocks == {-1, 5}
MCKeys == [k \in {"key", "old"} |->
             [algorithm |-> IF k = "key" THEN "sha" ELSE "md4", secret |-> k]]

Set(ttl, data) == [ttl |-> ttl, data |-> data]
Soa == [t \in {"SOA"} |-> Set(1, {1})]
MCTrees ==
  {[d \in MCDomains |->
      IF d = "z" THEN Soa
      ELSE IF d = "a" THEN [t \in {"A"} |-> Set(1, {"1"})]
      ELSE IF d = "b" THEN [t \in {"CNAME"} |-> Set(1, {"z"})]
      ELSE NoRecords],
   [d \in MCDomains |->
      IF d = "z" THEN Soa
      ELSE IF d = "b" THEN [t \in {"A"} |-> Set(1, {"1", "3"})]
      ELSE IF d = "x" THEN [t \in {"A"} |-> Set(1, {"1"})]
      ELSE NoRecords]}

RR(name, class, type, ttl, data) ==
  [name |-> name, class |-> class, type |-> type, ttl |-> ttl, data |-> data]

Body0(zone, prereqs, updates) ==
  [id |-> 1, opcode |-> "UPDATE", class |-> "IN", zone |-> zone,
   sections |-> "ok", prereqs |-> prereqs, updates |-> updates]

Rec(name, algorithm, time, fudge, original) ==
  [name |-> name, algorithm |-> algorithm, time |-> time, fudge |-> fudge,
   original |-> original]
Signed(rec, secret, body) ==
  <<[f \in DOMAIN rec \cup {"mac"} |->
       IF f = "mac" THEN MAC(secret, body, rec) ELSE rec[f]]>>
Good(body) ==
  [frame |-> "ok", body |-> body,
   tsig |-> Signed(Rec("KEY", "sha", 5, 0, 0), "key", body)]

(* Updates: several operations on one name spelled in two ways, the apex   *)
(* together with two other names, deletions of a record, of a set and of a *)
(* name, an operation of no valid form                                     *)
AddTwo == Body0("z", <<RR("a", "IN", "A", 0, "1"), RR("b", "NONE", "A", 0, NoData)>>,
                <<RR("a", "IN", "A", 9, "2"), RR("A", "NONE", "A", 0, "1"),
                  RR("b", "ANY", ANY, 0, NoData)>>)
Spread == Body0("z", <<RR("z", "ANY", ANY, 0, NoData)>>,
                <<RR("z", "IN", "A", 9, "3"), RR("a", "IN", "A", 9, "3"),
                  RR("b", "IN", "A", 9, "3")>>)
Cuts == Body0(Root, <<RR("x", "NONE", ANY, 0, NoData), RR("z", "ANY", "SOA", 0, NoData)>>,
              <<RR("a", "NONE", "A", 0, "1"), RR("a", "ANY", "A", 5, NoData),
                RR("b", "ANY", "CNAME", 0, NoData), RR("b", "IN", "A", 9, "4")>>)
Nothing == Body0("z", <<>>, <<>>)
BadPrereq == Body0("z", <<RR("a", "IN", ANY, 0, "1")>>, <<RR("a", "IN", "A", 9, "2")>>)
Outside == Body0("z", <<>>, <<RR("x", "IN", "A", 9, "1")>>)
NoZone == Body0("x", <<>>, <<RR("x", "IN", "A", 9, "1")>>)

Query == [AddTwo EXCEPT !.opcode = "QUERY"]
Unsigned(body) == [frame |-> "ok", tsig |-> <<>>, body |-> body]
Framed(frame) == [Good(AddTwo) EXCEPT !.frame = frame]
OtherTsig(rec, secret, body) == [Good(AddTwo) EXCEPT !.tsig = Signed(rec, secret, body)]

Rejected ==
  {Framed(f) : f \in {"badtsig", "multipleOPT", "malformed", "response", "noquestion"}}
  \cup {Unsigned(b) : b \in {AddTwo, Query, [Query EXCEPT !.class = "CH"],
                             [Query EXCEPT !.opcode = "STATUS"]}}
  \cup {OtherTsig(Rec("other", "sha", 5, 9, 0), "key", AddTwo),
        OtherTsig(Rec("key", "md4", 5, 9, 0), "key", AddTwo),
        OtherTsig(Rec("old", "md4", 5, 9, 0), "old", AddTwo),
        OtherTsig(Rec("key", "sha", 9, 2, 0), "key", AddTwo),
        OtherTsig(Rec("key", "sha", 5, 9, 0), "other", AddTwo),
        OtherTsig(Rec("key", "sha", 5, 9, 0), "key", Spread)}
  \cup {Good(b) : b \in {BadPrereq, Outside, NoZone,
                         [AddTwo EXCEPT !.sections = "badzone"],
                         [AddTwo EXCEPT !.sections = "badrecord"]}}

(* A forwarder changed the ID: OriginalID restores it.                     *)
Forwarded == [frame |-> "ok", body |-> [Nothing EXCEPT !.id = 2],
              tsig |-> Signed(Rec("key", "sha", 5, 9, 1), "key", Nothing)]

Call(method, path, token, domain, json, entries) ==
  [method |-> method, path |-> path, token |-> token, domain |-> domain,
   json |-> json, entries |-> entries]
Entry(type, data) == [type |-> type, ttl |-> 1, data |-> data]
MCRDataOf ==
  [t \in {"A", "CNAME", "SOA", "OPT", ANY} |->
     IF t = "A" THEN {"1", "5"} ELSE IF t = "SOA" THEN {1} ELSE {"a", "b", "1"}]
Put(domain, entries) == Call("PUT", "records", "token", domain, "ok", entries)

Calls ==
  {Put("a", <<Entry("A", <<"5">>)>>), Put("b", <<Entry("CNAME", <<"a">>)>>),
   Put("a", <<Entry("A", <<"5">>), Entry("CNAME", <<"b">>)>>),
   Put("invalid", <<>>), Put("a", <<>>), Put("a", <<Entry("A", <<"a">>)>>),
   Put("a", <<Entry("OPT", <<"1">>)>>), Put("a", <<Entry("B", <<"1">>)>>),
   Put("a", <<[Entry("A", <<"1">>) EXCEPT !.ttl = 10]>>),
   [Put("a", <<>>) EXCEPT !.json = "toolarge"],
   [Put("a", <<Entry("A", <<"5">>)>>) EXCEPT !.token = "another"],
   Call("DELETE", "records", "token", "a", "ok", <<>>),
   Call("DELETE", "records", "token", "x", "ok", <<>>),
   Call("GET", "records", "token", "a", "ok", <<>>),
   Call("GET", "records", "token", "invalid", "ok", <<>>),
   Call("GET", "readyz", "", "a", "ok", <<>>),
   Call("PUT", "livez", "", "a", "ok", <<>>),
   Call("OPTIONS", "records", "", "a", "ok", <<>>),
   Call("OPTIONS", "records", "token", "a", "ok", <<>>)}

Doh(method, payload, frame, opcode) ==
  [method |-> method, payload |-> payload, frame |-> frame,
   body |-> [opcode |-> opcode]]
DohCalls ==
  {Doh("PUT", "ok", "ok", "QUERY"), Doh("POST", "contenttype", "ok", "QUERY"),
   Doh("GET", "empty", "ok", "QUERY"), Doh("GET", "ok", "multipleOPT", "QUERY"),
   Doh("GET", "ok", "response", "QUERY"), Doh("GET", "ok", "ok", "QUERY"),
   Doh("POST", "ok", "ok", "UPDATE"), Doh("POST", "ok", "ok", "STATUS")}

MCTransport == [w \in {"udp", "tcp", "api", "doh"} |-> w]
MCAsks == [w \in {"udp", "tcp", "api", "doh"} |->
  IF w = "udp" THEN {Good(AddTwo), Good(Spread), Good(Cuts), Forwarded} \cup Rejected
  ELSE IF w = "tcp" THEN {Good(Spread), Good(AddTwo)}
  ELSE IF w = "doh" THEN DohCalls
  ELSE Calls]
=============================================================================
