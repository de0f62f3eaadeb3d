------------------------------ MODULE Requests ------------------------------
(* What requests do to the zone: queries and RFC 2136 dynamic updates that *)
(* reach the DNS server (resolve, tsig, rfc2136.Process), DoH queries and  *)
(* the REST API's reads and writes, served side by side.                   *)
(*                                                                         *)
(* The tree is read through state.Get, one name at a time and without a    *)
(* lock, and written through store.Upsert and store.DeleteDomain, one name *)
(* at a time.  How the store commits is in Store, what a query finds is in *)
(* Radix and Query.                                                        *)
EXTENDS Integers, FiniteSets, Sequences

CONSTANTS
  Domains,      \* the names the tree may hold, in canonical form
  Apex,         \* the name that holds the SOA
  Under,        \* Under[z]: the names that are z or end in "." z
  Canonical,    \* canonicalName, CanonicalName and CanonicalAlgorithm
  Trees,        \* the trees the server may start with
  Workers,      \* goroutines that serve requests
  Transport,        \* Transport[w]: "udp", "tcp", "doh" or "api"
  Asks,         \* Asks[w]: the requests that may reach w
  Keys,         \* the key ring: name -> [algorithm, secret], or NoKeys
  Hashers,      \* the algorithms newHasher knows
  DefaultFudge, \* 300 s
  Clocks,       \* what time.Now may return
  ApiToken,     \* the configured token, or ""
  CorsOrigin,   \* the configured CORS origin, or ""
  RDataOf,      \* type that dns.ParseType knows -> texts PackRData accepts
  MaxTTL,       \* math.MaxInt32
  Modes,        \* modes the daemon may run in
  Root, ANY, NoData, NoKeys,
  MaxRequests,  \* bound: requests served
  MaxFaults     \* bound: commits that fail

VARIABLES
  mode,         \* "primary" (or standalone) or "replica"
  tree,         \* name -> record sets; NoRecords where the name is absent
  work,         \* worker -> what it is doing
  served,       \* requests received
  faults        \* commits that failed

vars == <<mode, tree, work, served, faults>>

-----------------------------------------------------------------------------
(* Record sets: a function from the types present to [ttl, data], where    *)
(* data is the set of the rdata held; their order makes no difference.     *)

NoRecords == <<>>

Found(d) == tree[d] # NoRecords

Without(sets, t) == [u \in DOMAIN sets \ {t} |-> sets[u]]
With(sets, t, rrset) ==
  [u \in DOMAIN sets \cup {t} |-> IF u = t THEN rrset ELSE sets[u]]
WithData(sets, t, data) == With(sets, t, [ttl |-> sets[t].ttl, data |-> data])

(* No set of a type that only queries may name, and none without data      *)
Full(sets) == \A t \in DOMAIN sets : t # ANY /\ sets[t].data # {}

IsList(s) == s \in Seq({s[i] : i \in DOMAIN s})

ASSUME RequestsAssumption ==
  /\ MaxRequests \in Nat /\ MaxFaults \in Nat
  /\ \A t \in Trees : DOMAIN t = Domains /\ \A d \in Domains : Full(t[d])
  /\ \A w \in Workers : Transport[w] \in {"udp", "tcp", "doh", "api"}
  /\ \A w \in Workers : \A req \in Asks[w] :
       /\ Transport[w] = "api" =>
            /\ req.domain \in Domains \cup {"invalid"}
            /\ IsList(req.entries)
            /\ \A i \in DOMAIN req.entries : IsList(req.entries[i].data)
       /\ Transport[w] \in {"udp", "tcp"} =>
            LET ups == req.body.updates IN
            IsList(ups) /\ \A i \in DOMAIN ups : Canonical[ups[i].name] \in Domains

(* The SOA's rdata is its serial alone.                                    *)
IncrementSOASerial(sets) ==
  WithData(sets, "SOA", {serial + 1 : serial \in sets["SOA"].data})

(* autoIncrementSOA for a name whose new records hold no SOA.  Resolve of  *)
(* a name with a CNAME gives no authority, so no apex is found.            *)
IncrementApex(t, d) ==
  IF /\ d # Apex
     /\ d \in Under[Apex]
     /\ "SOA" \in DOMAIN t[Apex]
     /\ "CNAME" \notin DOMAIN t[d]
    THEN [t EXCEPT ![Apex] = IncrementSOASerial(@)]
    ELSE t

(* applyUpsert, and applyDelete where sets is NoRecords                    *)
Applied(t, d, sets) ==
  IF "SOA" \in DOMAIN sets
    THEN [t EXCEPT ![d] = IncrementSOASerial(sets)]
    ELSE [IncrementApex(t, d) EXCEPT ![d] = sets]

(* Mutant of FailedCommits: the name is taken out of the tree before its   *)
(* frame is appended.                                                      *)
FailedCommits_Removed(t, d, sets) == {t, [t EXCEPT ![d] = NoRecords]}

(* What a failed Upsert or DeleteDomain leaves: nothing (queue full,       *)
(* closed, an earlier operation of the batch failed), the apex with a new  *)
(* serial (the append of d's own frame failed), or all of it (the flush    *)
(* failed after the tree was changed).                                     *)
FailedCommits(t, d, sets) ==
  {t, IF "SOA" \in DOMAIN sets THEN t ELSE IncrementApex(t, d),
   Applied(t, d, sets)}

-----------------------------------------------------------------------------
(* TSIG                                                                    *)

Skew(now, signed) ==
  IF now < 0 THEN signed
  ELSE IF now >= signed THEN now - signed ELSE signed - now

(* The message that is hashed: OriginalID goes back into the header unless *)
(* it is zero.                                                             *)
HashedBody(body, rec) ==
  IF rec.original # 0 THEN [body EXCEPT !.id = rec.original] ELSE body

(* An HMAC, as the pair of its key and what it covers: the message and the *)
(* TSIG variables                                                          *)
MAC(secret, body, rec) ==
  [secret |-> secret, body |-> HashedBody(body, rec),
   variables |-> <<Canonical[rec.name], Canonical[rec.algorithm],
                   rec.time, rec.fudge>>]

(* Mutant of Verify: the MAC of a message that names a known key and       *)
(* algorithm in time is not compared.                                      *)
Verify_NoMAC(body, rec, key, now) ==
  LET fudge == IF rec.fudge = 0 THEN DefaultFudge ELSE rec.fudge IN
  IF key.algorithm # Canonical[rec.algorithm] THEN "BADALG"
  ELSE IF Skew(now, rec.time) > fudge THEN "BADTIME"
  ELSE IF key.algorithm \notin Hashers THEN "BADALG"
  ELSE "ok"

Verify(body, rec, key, now) ==
  LET fudge == IF rec.fudge = 0 THEN DefaultFudge ELSE rec.fudge IN
  IF key.algorithm # Canonical[rec.algorithm] THEN "BADALG"
  ELSE IF Skew(now, rec.time) > fudge THEN "BADTIME"
  ELSE IF key.algorithm \notin Hashers THEN "BADALG"
  ELSE IF MAC(key.secret, body, rec) # rec.mac THEN "BADSIG"
  ELSE "ok"

KeyFound(rec) == Keys # NoKeys /\ Canonical[rec.name] \in DOMAIN Keys

(* authenticateTSIG: errCode, "absent" when there is no TSIG record        *)
AuthenticateTSIG(req, now) ==
  IF req.tsig = <<>> THEN "absent"
  ELSE LET rec == req.tsig[1] IN
       IF KeyFound(rec)
         THEN Verify(req.body, rec, Keys[Canonical[rec.name]], now)
         ELSE "BADKEY"

(* tsig.Sign signs the answer when the request's key is known and its      *)
(* algorithm has a hasher.                                                 *)
SignsAnswer(req) ==
  /\ req.tsig # <<>>
  /\ KeyFound(req.tsig[1])
  /\ Keys[Canonical[req.tsig[1].name]].algorithm \in Hashers

-----------------------------------------------------------------------------
(* Answers.  "silent" is no answer at all.                                 *)

Answer(code, signed) == [code |-> code, signed |-> signed]
Silent == Answer("silent", FALSE)

(* handleQuery and resolveCHAOS; what is found does not concern this module *)
HandleQuery(body) ==
  IF body.class = "CH" /\ body.zone # "version.bind" THEN "NXDOMAIN"
  ELSE "answer"

(* handleUpdate up to the call of rfc2136.Process.  The daemon always      *)
(* gives the DNS server the storage: canUpdate asks for the key ring only. *)
HandleUpdate(auth) ==
  IF Keys = NoKeys THEN "REFUSED"
  ELSE IF auth # "ok" THEN "NOTAUTH"
  ELSE "process"

(* resolve, to the point where it answers or calls rfc2136.Process         *)
Resolve(req, now) ==
  LET auth == AuthenticateTSIG(req, now) IN
  IF req.frame = "badtsig" THEN Silent
  ELSE IF req.frame = "multipleOPT" THEN Answer("FORMERR", FALSE)
  ELSE IF req.frame \in {"malformed", "response", "noquestion"} THEN Silent
  ELSE Answer(IF auth \notin {"absent", "ok"} THEN "NOTAUTH"
              ELSE IF req.body.opcode = "QUERY" THEN HandleQuery(req.body)
              ELSE IF req.body.opcode = "UPDATE" THEN HandleUpdate(auth)
              ELSE "NOTIMP",
              SignsAnswer(req))

(* handleDoH: there is no TSIG over HTTP and an update is refused.         *)
HandleDoH(req) ==
  IF req.method \notin {"GET", "POST"} THEN Answer("405", FALSE)
  ELSE IF req.payload # "ok"
    THEN Answer(IF req.payload = "contenttype" THEN "415" ELSE "400", FALSE)
  ELSE IF req.frame = "multipleOPT" THEN Answer("FORMERR", FALSE)
  ELSE IF req.frame # "ok" THEN Answer("400", FALSE)
  ELSE Answer(IF req.body.opcode = "QUERY" THEN "answer"
              ELSE IF req.body.opcode = "UPDATE" THEN "REFUSED"
              ELSE "NOTIMP",
              FALSE)

(* parseRecordEntry refuses an entry: a type it does not know or that no   *)
(* zone holds, a TTL past MaxInt32, no data or data that is not of its     *)
(* type, a second CNAME or SOA.                                            *)
BadEntry(e) ==
  \/ e.type \notin DOMAIN RDataOf
  \/ e.type \in {ANY, "OPT"}
  \/ e.ttl > MaxTTL
  \/ e.data = <<>>
  \/ \E i \in DOMAIN e.data : e.data[i] \notin RDataOf[e.type]
  \/ e.type \in {"CNAME", "SOA"} /\ Len(e.data) > 1

(* UpsertRequest.RRSets: the record sets of a request body, or NoRecords   *)
(* when it is refused                                                      *)
RRSets(entries) ==
  LET types == {entries[i].type : i \in DOMAIN entries} IN
  IF \/ entries = <<>>
     \/ \E i \in DOMAIN entries : BadEntry(entries[i])
     \/ Cardinality(types) # Len(entries)
     \/ "CNAME" \in types /\ Len(entries) > 1
    THEN NoRecords
    ELSE [t \in types |->
            LET e == entries[CHOOSE i \in DOMAIN entries : entries[i].type = t]
            IN  [ttl |-> e.ttl, data |-> {e.data[i] : i \in DOMAIN e.data}]]

(* cors, authenticate, the routes and the handlers up to their first       *)
(* access to the tree.  Reads touch nothing that is written here: "read".  *)
(* synced is what ReplicaSyncStatus tells readyz.                          *)
HandleHTTP(req, synced) ==
  IF CorsOrigin # "" /\ req.method = "OPTIONS" THEN "204"
  ELSE IF req.path \in {"livez", "readyz", "startupz", "metrics"}
    THEN IF req.method # "GET" THEN "405"
         ELSE IF req.path = "readyz" /\ mode = "replica" /\ ~synced THEN "503"
         ELSE "200"
  ELSE IF ApiToken = "" \/ req.token # ApiToken THEN "401"
  ELSE IF req.method \notin {"GET", "PUT", "POST", "DELETE"} THEN "405"
  ELSE IF req.method = "GET"
    THEN IF req.domain = "invalid" THEN "400" ELSE "read"
  ELSE IF mode = "replica" THEN "403"
  ELSE IF req.domain = "invalid" THEN "400"
  ELSE IF req.method = "DELETE" THEN "delete"
  ELSE IF req.json # "ok" THEN IF req.json = "toolarge" THEN "413" ELSE "400"
  ELSE IF RRSets(req.entries) = NoRecords THEN "400"
  ELSE "upsert"

-----------------------------------------------------------------------------
(* rfc2136: rules on one name's record sets                                *)

(* evaluatePrerequisite, on what Get found                                 *)
EvaluatePrerequisite(pr, sets) ==
  LET typed == pr.type # ANY
      has   == pr.type \in DOMAIN sets IN
  IF pr.class = "ANY" /\ typed /\ pr.data = NoData
    THEN IF has THEN "NOERROR" ELSE "NXRRSET"
  ELSE IF pr.class = "IN" /\ typed /\ pr.data # NoData
    THEN IF has /\ pr.data \in sets[pr.type].data
           THEN "NOERROR" ELSE "NXRRSET"
  ELSE IF pr.class = "NONE" /\ typed /\ pr.data = NoData
    THEN IF has THEN "YXRRSET" ELSE "NOERROR"
  ELSE IF pr.class = "ANY" /\ ~typed /\ pr.data = NoData
    THEN IF sets = NoRecords THEN "NXDOMAIN" ELSE "NOERROR"
  ELSE IF pr.class = "NONE" /\ ~typed /\ pr.data = NoData
    THEN IF sets = NoRecords THEN "NOERROR" ELSE "YXDOMAIN"
  ELSE "FORMERR"

(* Mutant of ApplyUpdateOp: a set that lost its last record is kept.       *)
ApplyUpdateOp_KeepsEmpty(sets, up) ==
  LET t   == up.type
      has == t \in DOMAIN sets IN
  IF up.class = "IN" /\ t # ANY /\ up.data # NoData
    THEN With(sets, t, [ttl  |-> up.ttl,
                        data |-> {up.data} \cup (IF has THEN sets[t].data ELSE {})])
  ELSE IF up.class = "ANY" /\ up.ttl = 0 /\ up.data = NoData
    THEN IF t = ANY THEN NoRecords ELSE Without(sets, t)
  ELSE IF up.class = "NONE" /\ t # ANY /\ up.ttl = 0 /\ up.data # NoData /\ has
    THEN WithData(sets, t, sets[t].data \ {up.data})
  ELSE sets

(* applyUpdateOp: an operation of any other form changes nothing.          *)
ApplyUpdateOp(sets, up) ==
  LET t   == up.type
      has == t \in DOMAIN sets IN
  IF up.class = "IN" /\ t # ANY /\ up.data # NoData
    THEN With(sets, t,
              [ttl  |-> up.ttl,
               data |-> {up.data} \cup (IF has THEN sets[t].data ELSE {})])
  ELSE IF up.class = "ANY" /\ t # ANY /\ up.ttl = 0 /\ up.data = NoData
    THEN Without(sets, t)
  ELSE IF up.class = "ANY" /\ t = ANY /\ up.ttl = 0 /\ up.data = NoData
    THEN NoRecords
  ELSE IF up.class = "NONE" /\ t # ANY /\ up.ttl = 0 /\ up.data # NoData /\ has
    THEN LET rest == sets[t].data \ {up.data} IN
         IF rest = {} THEN Without(sets, t) ELSE WithData(sets, t, rest)
  ELSE sets

-----------------------------------------------------------------------------
(* A worker: pc, its request, the index of the record in hand, the record  *)
(* sets it has computed (domainStates), the names still to write, and its  *)
(* answer.  History: the tree's record sets as it loaded them, the names   *)
(* it wrote, and the names of its request that others wrote meanwhile.     *)

Idle ==
  [pc |-> "idle", req |-> <<>>, i |-> 0, states |-> <<>>, todo |-> {},
   answer |-> Silent, base |-> <<>>, wrote |-> {}, disturbed |-> {}]

Init ==
  /\ mode \in Modes
  /\ tree \in Trees
  /\ work = [w \in Workers |-> Idle]
  /\ served = 0
  /\ faults = 0

Goto(w, pc) == work' = [work EXCEPT ![w].pc = pc, ![w].i = 1]

Reply(w, answer) ==
  work' = [work EXCEPT ![w].pc = "answer", ![w].answer = answer]

ReplyCode(w, code) ==
  Reply(w, Answer(code, /\ Transport[w] \in {"udp", "tcp"}
                        /\ SignsAnswer(work[w].req)))

(* serveUDP, handleTCPConn and the HTTP servers take a request and run it  *)
(* to its first access to the tree.                                        *)
Receive(w) ==
  /\ work[w].pc = "idle"
  /\ served < MaxRequests
  /\ served' = served + 1
  /\ \E req \in Asks[w], now \in Clocks, synced \in BOOLEAN :
       LET first ==
             IF Transport[w] = "api" THEN Answer(HandleHTTP(req, synced), FALSE)
             ELSE IF Transport[w] = "doh" THEN HandleDoH(req)
             ELSE Resolve(req, now)
           inside == first.code \in {"process", "read", "upsert", "delete"}
       IN  work' = [work EXCEPT ![w] =
                      [Idle EXCEPT !.pc = IF inside THEN first.code ELSE "answer",
                                   !.req = req,
                                   !.answer = IF inside THEN Silent ELSE first]]
  /\ UNCHANGED <<mode, tree, faults>>

(* getDomain; listRecords and searchRecords read no less                   *)
Read(w) ==
  /\ work[w].pc = "read"
  /\ ReplyCode(w, IF Found(work[w].req.domain) THEN "200" ELSE "404")
  /\ UNCHANGED <<mode, tree, served, faults>>

(* upsertDomain, once the request is compiled                              *)
Upsert(w) ==
  /\ work[w].pc = "upsert"
  /\ work' = [work EXCEPT ![w].pc = "write",
       ![w].states = [d \in {work[w].req.domain} |-> RRSets(work[w].req.entries)],
       ![w].todo = {work[w].req.domain}]
  /\ UNCHANGED <<mode, tree, served, faults>>

(* deleteDomain looks the name up, then deletes it.                        *)
Delete(w) ==
  /\ work[w].pc = "delete"
  /\ IF Found(work[w].req.domain)
       THEN work' = [work EXCEPT ![w].pc = "write",
              ![w].states = [d \in {work[w].req.domain} |-> NoRecords],
              ![w].todo = {work[w].req.domain}]
       ELSE ReplyCode(w, "404")
  /\ UNCHANGED <<mode, tree, served, faults>>

-----------------------------------------------------------------------------
(* rfc2136.Process                                                         *)

Body(w) == work[w].req.body
Zone(w) == Canonical[Body(w).zone]
Name(rr) == Canonical[rr.name]

InZone(rrs, z) == \A i \in DOMAIN rrs : Name(rrs[i]) \in Under[z]

(* Up to the prerequisites: an error of the parser makes resolve drop the  *)
(* query.                                                                  *)
Process(w) ==
  /\ work[w].pc = "process"
  /\ IF Body(w).sections = "badzone" THEN Reply(w, Silent)
     ELSE IF Zone(w) # Root /\ ~Found(Zone(w)) THEN ReplyCode(w, "NOTAUTH")
     ELSE IF Body(w).sections = "badrecord" THEN Reply(w, Silent)
     ELSE IF ~InZone(Body(w).prereqs \o Body(w).updates, Zone(w))
       THEN ReplyCode(w, "NOTZONE")
     ELSE Goto(w, "prereqs")
  /\ UNCHANGED <<mode, tree, served, faults>>

(* One turn of checkPrerequisites' loop                                    *)
CheckPrerequisite(w) ==
  /\ work[w].pc = "prereqs"
  /\ IF work[w].i > Len(Body(w).prereqs) THEN Goto(w, "load")
     ELSE LET pr   == Body(w).prereqs[work[w].i]
              code == EvaluatePrerequisite(pr, tree[Name(pr)]) IN
          IF code = "NOERROR"
            THEN work' = [work EXCEPT ![w].i = @ + 1]
            ELSE ReplyCode(w, code)
  /\ UNCHANGED <<mode, tree, served, faults>>

(* Mutant of LoadAndApply: every update starts from the tree.              *)
LoadAndApply_Reloads(w) ==
  /\ work[w].pc = "load"
  /\ IF work[w].i > Len(Body(w).updates)
       THEN work' = [work EXCEPT ![w].pc = "write",
                                 ![w].todo = DOMAIN work[w].states]
       ELSE LET up   == Body(w).updates[work[w].i]
                d    == Name(up) IN
            work' = [work EXCEPT
                       ![w].i = @ + 1,
                       ![w].states = With(@, d, ApplyUpdateOp(tree[d], up)),
                       ![w].base = With(@, d, tree[d])]
  /\ UNCHANGED <<mode, tree, served, faults>>

(* One turn of applyUpdates' first loop: a name is read from the tree when *)
(* its first update is met, and marked as modified whatever the update     *)
(* does.                                                                   *)
LoadAndApply(w) ==
  /\ work[w].pc = "load"
  /\ IF work[w].i > Len(Body(w).updates)
       THEN work' = [work EXCEPT ![w].pc = "write",
                                 ![w].todo = DOMAIN work[w].states]
       ELSE LET up      == Body(w).updates[work[w].i]
                d       == Name(up)
                loaded  == d \in DOMAIN work[w].states
                current == IF loaded THEN work[w].states[d] ELSE tree[d] IN
            work' = [work EXCEPT
                       ![w].i = @ + 1,
                       ![w].states = With(@, d, ApplyUpdateOp(current, up)),
                       ![w].base = IF loaded THEN @ ELSE With(@, d, tree[d])]
  /\ UNCHANGED <<mode, tree, served, faults>>

(* Writes d to the tree, as t; whoever had read d has now read the past.   *)
Commit(w, d, t, me) ==
  /\ tree' = t
  /\ work' = [v \in Workers |->
       IF v = w THEN [me EXCEPT !.wrote = IF t = tree THEN @ ELSE @ \cup {d}]
       ELSE IF d \in DOMAIN work[v].base
         THEN [work[v] EXCEPT !.disturbed = @ \cup {d}]
       ELSE work[v]]

(* Upsert or DeleteDomain succeeds: names are written in any order, for    *)
(* applyUpdates ranges over a map.                                         *)
Write(w) ==
  /\ work[w].pc = "write"
  /\ \E d \in work[w].todo :
       Commit(w, d, Applied(tree, d, work[w].states[d]),
              [work[w] EXCEPT !.todo = @ \ {d}])
  /\ UNCHANGED <<mode, served, faults>>

(* Mutant of WriteFails: a failed update is answered SERVFAIL.             *)
WriteFails_Answers(w) ==
  /\ work[w].pc = "write"
  /\ faults < MaxFaults
  /\ faults' = faults + 1
  /\ \E d \in work[w].todo : \E t \in FailedCommits(tree, d, work[w].states[d]) :
       Commit(w, d, t,
              [work[w] EXCEPT !.pc = "answer",
                              !.answer = Answer("SERVFAIL", FALSE)])
  /\ UNCHANGED <<mode, served>>

(* It fails: applyUpdates stops there, and resolve drops the query; the    *)
(* API answers 500.                                                        *)
WriteFails(w) ==
  /\ work[w].pc = "write"
  /\ faults < MaxFaults
  /\ faults' = faults + 1
  /\ \E d \in work[w].todo : \E t \in FailedCommits(tree, d, work[w].states[d]) :
       Commit(w, d, t,
              [work[w] EXCEPT !.pc = "answer",
                              !.answer = IF Transport[w] = "api"
                                           THEN Answer("500", FALSE) ELSE Silent])
  /\ UNCHANGED <<mode, served>>

(* Every name is written.                                                  *)
Finish(w) ==
  /\ work[w].pc = "write"
  /\ work[w].todo = {}
  /\ ReplyCode(w, IF Transport[w] = "api" THEN "200" ELSE "NOERROR")
  /\ UNCHANGED <<mode, tree, served, faults>>

(* The answer leaves, unless it is none or, over UDP, rate limiting drops  *)
(* it; the worker takes its next request.                                  *)
Send(w) ==
  /\ work[w].pc = "answer"
  /\ work' = [work EXCEPT ![w] = Idle]
  /\ UNCHANGED <<mode, tree, served, faults>>

Step(w) ==
  \/ Read(w) \/ Upsert(w) \/ Delete(w)
  \/ Process(w) \/ CheckPrerequisite(w) \/ LoadAndApply(w)
  \/ Write(w) \/ WriteFails(w) \/ Finish(w)
  \/ Send(w)

Done == served = MaxRequests /\ \A w \in Workers : work[w].pc = "idle"

Next ==
  \/ \E w \in Workers : Receive(w) \/ Step(w)
  \/ Done /\ UNCHANGED vars

Spec == Init /\ [][Next]_vars

-----------------------------------------------------------------------------
(* What the operations of an update ask for, record by record and in the   *)
(* forms of RFC 2136, section 2.5, that applyUpdateOp lists: a record is   *)
(* there when it was there or is added, and nothing later removes it.  The *)
(* rules of section 3.4.2 that look at other records (an addition beside a *)
(* CNAME is ignored, the apex keeps its SOA and an NS) are no part of it:  *)
(* the code has none of them.                                              *)

Adds(up, d, t, x) ==
  /\ Name(up) = d /\ up.type = t /\ up.data = x
  /\ up.class = "IN" /\ t # ANY /\ x # NoData

Removes(up, d, t, x) ==
  /\ Name(up) = d /\ up.ttl = 0
  /\ \/ up.class = "ANY" /\ up.type \in {t, ANY} /\ up.data = NoData
     \/ up.class = "NONE" /\ up.type = t /\ up.data = x /\ t # ANY /\ x # NoData

Held(sets, t) == IF t \in DOMAIN sets THEN sets[t].data ELSE {}

(* What the first n operations of ups ask d to hold of type t              *)
Asked(sets, ups, n, d, t) ==
  {x \in Held(sets, t) \cup {ups[i].data : i \in 1..n} :
     \E i \in 0..n :
       /\ IF i = 0 THEN x \in Held(sets, t) ELSE Adds(ups[i], d, t, x)
       /\ \A j \in (i + 1)..n : ~Removes(ups[j], d, t, x)}

AskedOf(w, sets, d, t) == Asked(sets, Body(w).updates, Len(Body(w).updates), d, t)

(* The names an update has read and nobody else wrote since                *)
OwnNames(w) == DOMAIN work[w].base \ work[w].disturbed

(* The types other than SOA, whose serial the store changes                *)
TypesAt(w, d) ==
  (DOMAIN tree[d] \cup DOMAIN work[w].base[d]
     \cup {Body(w).updates[i].type : i \in DOMAIN Body(w).updates}) \ {"SOA", ANY}

-----------------------------------------------------------------------------
PCs == {"idle", "read", "upsert", "delete", "process", "prereqs", "load",
        "write", "answer"}

(* Types: no name is left with a set that holds no data (applyUpdateOp     *)
(* drops it, RRSets refuses it), whatever requests interleave.             *)
TypeOK ==
  /\ mode \in Modes
  /\ \A d \in Domains : Full(tree[d])
  /\ served \in 0..MaxRequests /\ faults \in 0..MaxFaults
  /\ \A w \in Workers : work[w].pc \in PCs

(* A client that is told its request failed, by any code but the silence   *)
(* or the 500 of a failed write, can rely on it: nothing was written.      *)
(* Prerequisites, TSIG and zone checks all come before the first write.    *)
RefusedChangesNothing ==
  \A w \in Workers :
    (work[w].pc = "answer"
      /\ work[w].answer.code \notin {"NOERROR", "200", "500", "silent"})
    => work[w].wrote = {}

(* The tree changes only for a request its sender was entitled to make: an *)
(* update whose TSIG was made, with a secret of the key ring, over this    *)
(* very message, or an API call with the token.                            *)
Entitled(w) ==
  LET req == work[w].req IN
  IF Transport[w] = "api" THEN ApiToken # "" /\ req.token = ApiToken
  ELSE /\ req.tsig # <<>>
       /\ \E k \in DOMAIN Keys :
            /\ Canonical[req.tsig[1].name] = k
            /\ req.tsig[1].mac = MAC(Keys[k].secret, req.body, req.tsig[1])

OnlyEntitledWrites ==
  [][tree' # tree => \E w \in Workers : /\ work[w].pc = "write"
                                        /\ work'[w] # work[w]
                                        /\ Entitled(w)]_vars

(* An update that is answered NOERROR did what each of its operations asks *)
(* by itself, in their order, on every name nobody else wrote meanwhile,   *)
(* however they overlap: several on one name, one name spelled in two      *)
(* ways, names written in any order.                                       *)
UpdateApplied ==
  \A w \in Workers :
    (work[w].pc = "answer" /\ work[w].answer.code = "NOERROR") =>
      \A d \in OwnNames(w) : \A t \in TypesAt(w, d) :
        Held(tree[d], t) = AskedOf(w, work[w].base[d], d, t)

(* An update cut short by a failed write stays half applied, and no one is *)
(* told.  What it left behind does not stand in the way of its operations: *)
(* applied again, on every name nobody else wrote, they lead to what they  *)
(* asked for at first.  Its prerequisites are evaluated anew when it is    *)
(* sent again, and refuse it where its own first writes made them false.   *)
ReapplyRepairs ==
  \A w \in Workers :
    (work[w].pc = "answer" /\ work[w].answer.code = "silent") =>
      \A d \in OwnNames(w) : \A t \in TypesAt(w, d) :
        AskedOf(w, tree[d], d, t) = AskedOf(w, work[w].base[d], d, t)

(* docs/clustering-ha.md: a replica answers dynamic updates with REFUSED   *)
(* and is read-only.  The daemon hands its store to the DNS server in      *)
(* every mode.                                                             *)
ReplicaIsReadOnly == [][mode = "replica" => tree' = tree]_vars
=============================================================================
