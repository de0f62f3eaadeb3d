------------------------------ MODULE Messages ------------------------------
(***************************************************************************)
(* DNS responses on the wire: PackResponse with its name compression and   *)
(* truncation (dns/pack.go), Unpack (dns/unpack.go), the DNSSEC records    *)
(* that SignResult adds (dnssec/manager.go), the TSIG record that Sign     *)
(* appends and Extract strips (tsig), and the truncated answer of the rate *)
(* limiter, in the order in which resolve and handleUDPQuery call them.    *)
(*                                                                         *)
(* A message is a header and a map from offsets to what starts there: a    *)
(* label, a pointer, the root's octet, the fixed part of a question, or a  *)
(* record after its owner.  Sizes are octets and are what decides; types   *)
(* are names, and record data is its place in its set.                     *)
(***************************************************************************)
EXTENDS Integers, Sequences, FiniteSets, SequencesExt

CONSTANTS
  Size,            \* the length of each label
  Lower,           \* and its lower-case form
  MaxUDPSize, MaxEDNS0Size, MaxTCPSize,
  BufferSize,      \* the length of a UDP response buffer
  MaxEntries,      \* maxCompressionOffsets
  MaxPointer,      \* the largest offset a pointer can hold
  MaxJumps, MaxNameLen, MaxQuestions,
  SigSize, BitmapSize, TSIGSize,  \* the parts of RRSIG, NSEC and TSIG data of fixed size
  KeyName,         \* the labels of the TSIG key's name
  Keyed,           \* the zones with signing keys
  Queries,         \* the queries that may come in
  RDatas           \* the data an RRset may have: sequences of lengths

VARIABLES
  pc,
  msg,    \* the query: questions, udp, edns (0 without OPT), do, tsig
  res,    \* the Result: rcode, answer, authority, their RRSIGs, the owner
  reply   \* the response in the buffer

vars == <<pc, msg, res, reply>>

HeaderSize == 12

Name(labels) == [labels |-> labels, dot |-> FALSE]
Folded(name) == [name EXCEPT !.labels = [i \in DOMAIN @ |-> Lower[@[i]]]]
From(name, i) == [name EXCEPT !.labels = SubSeq(@, i, Len(@))]
WireSize(labels) == FoldLeft(LAMBDA n, l : n + 1 + Size[l], 1, labels)

None == [type |-> "none", rdata |-> <<>>]
HasRecords(set) == set.rdata # <<>>

-----------------------------------------------------------------------------
(* dnssec.Manager                                                          *)

(* canonicalZone: lower case, with a trailing dot                          *)
CanonicalZone(labels) == [Folded(Name(labels)) EXCEPT !.dot = TRUE]

(* findMatchingKeys walks up from the name to the closest zone with keys.  *)
KeyZones(labels) ==
  {i \in 1..(Len(labels) + 1) : From(CanonicalZone(labels), i).labels \in Keyed}

Signer(labels) ==
  From(CanonicalZone(labels), CHOOSE i \in KeyZones(labels) : \A j \in KeyZones(labels) : i <= j)

RRSIG(signer) == [type |-> "RRSIG", rdata |-> <<SigSize + WireSize(signer.labels)>>]
NSEC(next) == [type |-> "NSEC", rdata |-> <<WireSize(next.labels) + BitmapSize>>]

(* synthesizeDNSKEY answers at the name of a zone with keys.               *)
SynthesizesDNSKEY(m, r) ==
  /\ m.type = "DNSKEY"
  /\ r.answer.type # "DNSKEY"
  /\ CanonicalZone(m.questions[1]).labels \in Keyed

(* SignResult; without a signature, because Sign or NSEC returns an error, *)
(* the result stays as it is, but for a synthesized DNSKEY.                *)
SignResult(m, r, signs) ==
  LET q == m.questions[1]
      z == Signer(q)
      positive == r.rcode = "NOERROR" /\ HasRecords(r.answer)
      Signature(signer) == IF signs THEN RRSIG(signer) ELSE None
  IN IF SynthesizesDNSKEY(m, r)
       THEN [r EXCEPT !.rcode = "NOERROR",
                      !.answer = [type |-> "DNSKEY", rdata |-> <<SigSize>>],
                      !.answerRRSIG = Signature(CanonicalZone(q))]
     ELSE IF KeyZones(q) = {} \/ r.rcode \notin {"NOERROR", "NXDOMAIN"} \/ ~signs THEN r
     ELSE IF positive
       THEN IF r.answer.type = "RRSIG" THEN r ELSE [r EXCEPT !.answerRRSIG = RRSIG(z)]
     ELSE [r EXCEPT !.authority = NSEC(z), !.authorityRRSIG = RRSIG(z),
                    !.owner = CanonicalZone(q)]

-----------------------------------------------------------------------------
(* packetWriter: off is the offset, err ErrBufferTooSmall, done the end of *)
(* a name in a pointer.                                                    *)

Item(kind, val, size) == [kind |-> kind, val |-> val, size |-> size]
Root == Item("root", 0, 1)

Writer(max) == [off |-> HeaderSize, max |-> max, buf |-> <<>>, table |-> <<>>,
                tc |-> FALSE, err |-> FALSE, done |-> FALSE]

(* Writes an item, for which there must be room of need octets.            *)
Put(w, item, need) ==
  IF w.off + need > w.max THEN [w EXCEPT !.err = TRUE]
  ELSE [w EXCEPT !.off = @ + item.size,
                 !.buf = (w.off :> item) @@
                         [o \in DOMAIN @ \ (w.off .. w.off + item.size - 1) |-> @[o]]]

(* domainCompressor: lookup is blind to case, not to a trailing dot.       *)
Entries(w, name) == {i \in DOMAIN w.table : w.table[i].name = Folded(name)}

Lookup(w, name) == w.table[CHOOSE i \in Entries(w, name) : TRUE].at

Insert(w, name) ==
  IF Len(w.table) >= MaxEntries \/ w.off > MaxPointer \/ Entries(w, name) # {} THEN w
  ELSE [w EXCEPT !.table = Append(@, [name |-> Folded(name), at |-> w.off])]

(* writeFinalLabel and writeIntermediateLabel: the last label of a name    *)
(* without a trailing dot needs room for the root as well.                 *)
WriteLabel(w, suffix) ==
  LET label == Head(suffix.labels)
      need  == 1 + Size[label] + (IF Len(suffix.labels) = 1 /\ ~suffix.dot THEN 1 ELSE 0)
  IN IF w.off + need > w.max THEN [w EXCEPT !.err = TRUE]
     ELSE Put(Insert(w, suffix), Item("label", label, 1 + Size[label]), need)

(* writeDomainCompressed                                                   *)
WriteDomain(w, name) ==
  LET Step(v, i) ==
        IF v.err \/ v.done THEN v
        ELSE IF Entries(v, From(name, i)) # {}
             THEN [Put(v, Item("pointer", Lookup(v, From(name, i)), 2), 2) EXCEPT !.done = TRUE]
             ELSE WriteLabel(v, From(name, i))
      v == FoldLeft(Step, [w EXCEPT !.done = FALSE], [i \in DOMAIN name.labels |-> i])
  IN IF v.err \/ v.done THEN v ELSE Put(v, Root, 1)

WriteQuestion(w, m, labels) ==
  LET v == WriteDomain(w, Name(labels))
  IN IF v.err THEN v ELSE Put(v, Item("question", m.type, 4), 4)

(* Writes a record; the writer has just been given its owner.              *)
PutRecord(w, type, i, n) == Put(w, Item("record", <<type, i>>, 10 + n), 10 + n)

(* Mutant of CutAt: a record that does not fit leaves its owner behind.    *)
CutAt_NoRollback(w, v) == [v EXCEPT !.tc = TRUE, !.err = FALSE]

(* A record that does not fit: the offset goes back to where it was in w   *)
(* and TC is set, while the compression table keeps what it learnt in v.   *)
CutAt(w, v) == [v EXCEPT !.off = w.off, !.tc = TRUE, !.err = FALSE]

(* writeRRSet stops at the first record that does not fit; count is how    *)
(* many did.                                                               *)
WriteRRSet(w, owner, set) ==
  LET Try(a, v, i) ==
        IF v.err \/ v.off + 10 + set.rdata[i] > v.max
        THEN [a EXCEPT !.w = CutAt(a.w, v), !.full = TRUE]
        ELSE [a EXCEPT !.w = PutRecord(v, set.type, i, set.rdata[i]), !.count = @ + 1]
  IN FoldLeft(LAMBDA a, i : IF a.full THEN a ELSE Try(a, WriteDomain(a.w, owner), i),
              [w |-> w, count |-> 0, full |-> FALSE], [i \in DOMAIN set.rdata |-> i])

(* writeEDNS0: an OPT record that does not fit is left out.                *)
WriteEDNS0(w, m) ==
  IF m.edns = 0 \/ w.max - w.off < 11 THEN [w |-> w, count |-> 0]
  ELSE [w |-> Put(Put(w, Root, 1), Item("record", <<"OPT", m.do>>, 10), 10), count |-> 1]

(* Mutant of MaxPayloadSize: the client's buffer is taken at its word.     *)
MaxPayloadSize_NoCap(m) ==
  IF m.udp /\ m.edns > MaxUDPSize THEN m.edns ELSE IF m.udp THEN MaxUDPSize ELSE MaxTCPSize

(* MaxPayloadSize                                                          *)
MaxPayloadSize(m) ==
  LET transport == IF m.udp THEN MaxUDPSize ELSE MaxTCPSize
      smaller == IF m.edns < MaxEDNS0Size THEN m.edns ELSE MaxEDNS0Size
  IN IF transport = MaxUDPSize /\ m.edns > MaxUDPSize THEN smaller ELSE transport

(* A delegation is not an authoritative answer.                            *)
Authoritative(r) ==
  ~(r.rcode = "NOERROR" /\ ~HasRecords(r.answer) /\ r.authority.type = "NS")

(* The RRsets of a response in their order, and the sections they are in:  *)
(* answers only without an error, signatures only when asked for.          *)
Sections(m, r) ==
  LET S(count, owner, set, present) ==
        [count |-> count, owner |-> owner, set |-> IF present THEN set ELSE None]
      q  == Name(m.questions[1])
      ok == r.rcode = "NOERROR" /\ HasRecords(r.answer)
  IN <<S("an", q, r.answer, ok), S("an", q, r.answerRRSIG, ok /\ m.do),
       S("ns", r.owner, r.authority, TRUE),
       S("ns", r.owner, r.authorityRRSIG, HasRecords(r.authority) /\ m.do)>>

PackResponse(m, r) ==
  LET Question(w, labels) == IF w.err THEN w ELSE WriteQuestion(w, m, labels)
      Counted(a, s, b) == [a EXCEPT !.w = b.w, ![s.count] = @ + b.count]
      Section(a, s) == Counted(a, s, WriteRRSet(a.w, s.owner, s.set))
      Header(a, e) ==
        [err |-> a.w.err, off |-> e.w.off, buf |-> e.w.buf, tc |-> e.w.tc,
         aa |-> Authoritative(r), rcode |-> r.rcode, qd |-> Len(m.questions),
         an |-> a.an, ns |-> a.ns, ar |-> e.count]
      Finish(a) == Header(a, WriteEDNS0(a.w, m))
      w == FoldLeft(Question, Writer(MaxPayloadSize(m)), m.questions)
  IN Finish(IF w.err THEN [w |-> w, an |-> 0, ns |-> 0]
            ELSE FoldLeft(Section, [w |-> w, an |-> 0, ns |-> 0], Sections(m, r)))

-----------------------------------------------------------------------------
(* Reading a message p                                                     *)

(* domainDecompressor.decode: a pointer must go back, and there may be few *)
(* of them.  What does not start at an item is garbage.                    *)
RECURSIVE Decode(_, _, _, _)
Decode(p, o, jumps, length) ==
  LET bad  == [ok |-> FALSE, labels |-> <<>>, next |-> o]
      item == p.buf[o]
      rest == Decode(p, o + item.size, jumps, length + item.size)
  IN IF jumps > MaxJumps \/ o >= p.off \/ o \notin DOMAIN p.buf THEN bad
     ELSE CASE item.kind = "root" -> [ok |-> TRUE, labels |-> <<>>, next |-> o + 1]
            [] item.kind = "pointer" ->
                 IF item.val >= o THEN bad
                 ELSE [Decode(p, item.val, jumps + 1, length) EXCEPT !.next = o + 2]
            [] item.kind = "label" ->
                 IF o + item.size > p.off \/ length + item.size > MaxNameLen THEN bad
                 ELSE [rest EXCEPT !.labels = <<item.val>> \o @]
            [] OTHER -> bad

(* A reader is where it got to and the names and types it read.            *)
Read(p, r, kind) ==
  LET After(name) ==
        IF ~r.ok \/ ~name.ok \/ name.next \notin DOMAIN p.buf THEN [r EXCEPT !.ok = FALSE]
        ELSE LET item == p.buf[name.next]
             IN IF item.kind # kind \/ name.next + item.size > p.off
                THEN [r EXCEPT !.ok = FALSE]
                ELSE [ok |-> TRUE, o |-> name.next + item.size,
                      seen |-> Append(r.seen, [at |-> r.o, name |-> name.labels, val |-> item.val])]
  IN After(Decode(p, r.o, 0, 0))

(* The questions and then n records: decodeQuestion, skipRecord and        *)
(* decodeEDNS0                                                             *)
ReadAll(p, n) ==
  FoldLeft(LAMBDA r, i : Read(p, r, IF i <= p.qd THEN "question" ELSE "record"),
           [ok |-> TRUE, o |-> HeaderSize, seen |-> <<>>], [i \in 1..(p.qd + n) |-> i])

(* Unpack: the questions, the answer and authority records, then the OPT   *)
(* record among the additional ones, of which there is at most one.        *)
Unpack(p) ==
  LET IsOPT(x) == x.val[1] = "OPT"
      Sorted(questions, records, additional, r) ==
        [ok |-> p.qd <= MaxQuestions /\ r.ok /\ Len(SelectSeq(additional, IsOPT)) <= 1,
         questions |-> questions, records |-> records,
         opts |-> SelectSeq(additional, IsOPT), end |-> r.o]
      Split(r) ==
        LET n == p.qd + p.an + p.ns
        IN Sorted(SubSeq(r.seen, 1, p.qd), SubSeq(r.seen, p.qd + 1, n),
                  SubSeq(r.seen, n + 1, Len(r.seen)), r)
      Checked(r) == IF r.ok THEN Split(r) ELSE Sorted(<<>>, <<>>, <<>>, r)
  IN Checked(ReadAll(p, p.an + p.ns + p.ar))

-----------------------------------------------------------------------------
(* tsig                                                                    *)

(* The response buffer, from the pool for UDP or the one for TCP and DoH   *)
Buffer(m) == IF m.udp THEN BufferSize ELSE MaxTCPSize

(* tsig.Sign appends a record to a response, past the size it was packed   *)
(* for; when the buffer is too short the response stays as it is.          *)
SignTSIG(m, p) ==
  LET PutLabel(v, l) == Put(v, Item("label", l, 1 + Size[l]), 1 + Size[l])
      named == FoldLeft(PutLabel, [Writer(Buffer(m)) EXCEPT !.off = p.off, !.buf = p.buf], KeyName)
      Signed(v) == IF v.err THEN p ELSE [p EXCEPT !.off = v.off, !.buf = v.buf, !.ar = @ + 1]
  IN Signed(PutRecord(Put(named, Root, 1), "TSIG", 1, TSIGSize))

(* Mutant of Stripped: ARCount still counts the record.                    *)
Stripped_KeepsCount(p, at) == [p EXCEPT !.off = at]

(* The message without its last record, which starts at at.                *)
Stripped(p, at) == [p EXCEPT !.off = at, !.ar = @ - 1]

(* tsig.Extract: the last additional record, when it is a TSIG.            *)
Extract(p) ==
  LET Result(ok, found, rest) == [ok |-> ok, found |-> found, rest |-> rest]
      Judged(r) ==
        IF ~r.ok THEN Result(FALSE, FALSE, p)
        ELSE LET end == r.seen[Len(r.seen)]
             IN IF end.val[1] # "TSIG" THEN Result(TRUE, FALSE, p)
                ELSE Result(TRUE, TRUE, Stripped(p, end.at))
  IN IF p.ar = 0 THEN Result(TRUE, FALSE, p) ELSE Judged(ReadAll(p, p.an + p.ns + p.ar))

-----------------------------------------------------------------------------
(* TruncateToSlip scans the first question for its end.                    *)
RECURSIVE QuestionEnd(_, _)
QuestionEnd(p, o) ==
  IF o >= p.off THEN o
  ELSE IF p.buf[o].kind = "label" THEN QuestionEnd(p, o + p.buf[o].size)
  ELSE o + p.buf[o].size

(* Mutant of TruncateToSlip: the type and the class are cut off.           *)
TruncateToSlip_NoType(p) ==
  [p EXCEPT !.tc = TRUE, !.an = 0, !.ns = 0, !.ar = 0,
            !.off = QuestionEnd(p, HeaderSize)]

TruncateToSlip(p) ==
  LET end == QuestionEnd(p, HeaderSize) + 4
  IN [p EXCEPT !.tc = TRUE, !.an = 0, !.ns = 0, !.ar = 0,
               !.off = IF end <= p.off THEN end ELSE HeaderSize]

-----------------------------------------------------------------------------
NoResult == [rcode |-> "none", answer |-> None, answerRRSIG |-> None,
             authority |-> None, authorityRRSIG |-> None, owner |-> Name(<<>>)]
NoReply == [off |-> 0]

Init ==
  /\ pc = "resolve"
  /\ msg \in Queries
  /\ res = NoResult
  /\ reply = NoReply

(* What the tree can answer: records, or the SOA or a delegation of a zone *)
(* around the name, or no data at all; updates and refusals have a code.   *)
Outcomes(m) ==
  LET set(types) == [type : types, rdata : RDatas]
      above == {Folded(Name(From(Name(m.questions[1]), i).labels)) :
                  i \in 1..(Len(m.questions[1]) + 1)}
  IN   {[NoResult EXCEPT !.rcode = "NOERROR", !.answer = s] : s \in set({m.type, "CNAME"})}
  \cup {[NoResult EXCEPT !.rcode = "NOERROR", !.authority = s, !.owner = z] :
          s \in set({"SOA", "NS"}), z \in above}
  \cup {[NoResult EXCEPT !.rcode = "NXDOMAIN", !.authority = s, !.owner = z] :
          s \in set({"SOA"}), z \in above}
  \cup {[NoResult EXCEPT !.rcode = c] : c \in {"NOERROR", "NXDOMAIN", "REFUSED"}}

(* handleQuery: a query with DO is signed when there is a key manager.     *)
Resolve ==
  /\ pc = "resolve"
  /\ pc' = IF msg.do /\ Keyed # {} THEN "sign" ELSE "pack"
  /\ res' \in Outcomes(msg)
  /\ UNCHANGED <<msg, reply>>

Sign ==
  /\ pc = "sign"
  /\ pc' = "pack"
  /\ \E signs \in BOOLEAN : res' = SignResult(msg, res, signs)
  /\ UNCHANGED <<msg, reply>>

(* A response that cannot be packed is not sent.                           *)
Pack ==
  /\ pc = "pack"
  /\ reply' = PackResponse(msg, res)
  /\ pc' = IF reply'.err THEN "dropped" ELSE IF msg.tsig THEN "seal" ELSE "packed"
  /\ UNCHANGED <<msg, res>>

Seal ==
  /\ pc = "seal"
  /\ pc' = "packed"
  /\ reply' = SignTSIG(msg, reply)
  /\ UNCHANGED <<msg, res>>

Send ==
  /\ pc = "packed"
  /\ pc' = "sent"
  /\ UNCHANGED <<msg, res, reply>>

(* The rate limiter answers ActionSlip; it sees only UDP.                  *)
Slip ==
  /\ pc = "packed"
  /\ msg.udp
  /\ pc' = "slipped"
  /\ reply' = TruncateToSlip(reply)
  /\ UNCHANGED <<msg, res>>

Next == Resolve \/ Sign \/ Pack \/ Seal \/ Send \/ Slip

-----------------------------------------------------------------------------
(* The octets that are sent                                                *)
Sent(p) == [p EXCEPT !.buf = [o \in {x \in DOMAIN @ : x < p.off} |-> @[o]]]

(* The records of the result, with the owners they should have             *)
Offered(m, r) ==
  LET Records(owner, set) ==
        [i \in DOMAIN set.rdata |-> [name |-> Folded(owner).labels, val |-> <<set.type, i>>]]
      q == Name(m.questions[1])
      signed(set) == IF m.do THEN set ELSE None
  IN (IF r.rcode = "NOERROR" /\ HasRecords(r.answer)
        THEN Records(q, r.answer) \o Records(q, signed(r.answerRRSIG)) ELSE <<>>)
     \o Records(r.owner, r.authority) \o Records(r.owner, signed(r.authorityRRSIG))

(* A response survives the wire: wherever it was cut, Unpack reads the     *)
(* questions, the first in the client's own letters, and of every RRset    *)
(* the first records under their owner's name; TC tells whether any is     *)
(* missing; nothing follows the last one.                                  *)
(* The compression table keeps names of records that were taken back, so   *)
(* this is not claimed of a signed denial that was cut.                    *)
ResponseReadable ==
  (pc = "sent" /\ ~(reply.tc /\ HasRecords(res.authorityRRSIG))) =>
    LET u     == Unpack(reply)
        read  == [i \in DOMAIN u.records |->
                    [name |-> Folded(Name(u.records[i].name)).labels, val |-> u.records[i].val]]
        offered == Offered(msg, res)
    IN /\ u.ok /\ u.end = reply.off
       /\ u.questions[1].name = msg.questions[1]
       /\ [i \in DOMAIN u.questions |-> Folded(Name(u.questions[i].name))]
            = [i \in DOMAIN msg.questions |-> Folded(Name(msg.questions[i]))]
       /\ read = SelectSeq(offered, LAMBDA x : x \in ToSet(read))
       /\ \A x \in ToSet(read) : \A j \in 1..x.val[2] :
            [x EXCEPT !.val = <<x.val[1], j>>] \in ToSet(read)
       /\ reply.tc <=> read # offered

(* No response is longer than what the transport and the client's EDNS     *)
(* buffer allow, but for the TSIG record, which is added last and stays    *)
(* within the buffer: a signed UDP response may be longer than the client  *)
(* and the cap of 1232 octets allow.  A single question is always answered.*)
SizeRespected ==
  /\ pc \in {"seal", "packed", "sent", "slipped"} =>
       LET tsig == IF pc # "seal" /\ msg.tsig THEN WireSize(KeyName) + 10 + TSIGSize ELSE 0
           len == reply.off - tsig
       IN /\ reply.off <= Buffer(msg)
          /\ msg.udp => /\ len <= MaxUDPSize \/ len <= msg.edns
                        /\ len <= MaxEDNS0Size
  /\ pc = "slipped" => reply.off <= MaxUDPSize
  /\ pc = "dropped" => Len(msg.questions) > 1

(* A slipped response to one question is just that question with TC: what  *)
(* the limiter sends in place of an answer makes the client ask over TCP.  *)
SlipAsksForTCP ==
  (pc = "slipped" /\ Len(msg.questions) = 1) =>
    LET u == Unpack(reply)
    IN /\ reply.tc /\ u.ok /\ u.end = reply.off
       /\ u.questions = <<[at |-> HeaderSize, name |-> msg.questions[1], val |-> msg.type]>>
       /\ u.records = <<>> /\ u.opts = <<>>

(* Extract takes off exactly what Sign put on: the signed message without  *)
(* its TSIG record is, octet for octet, the one the MAC was computed over. *)
TSIGComesOff ==
  (pc = "sent" /\ msg.tsig /\ ~(reply.tc /\ HasRecords(res.authorityRRSIG))) =>
    LET packed == PackResponse(msg, res)
        x      == Extract(reply)
    IN x.ok /\ (x.found => Sent(x.rest) = Sent(packed))
            /\ (~x.found => reply = packed)
=============================================================================
