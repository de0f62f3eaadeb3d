------------------------------ MODULE ZoneFile ------------------------------
(***************************************************************************)
(* Zone files: zone.Parse (zone/zone.go) and zone.FormatZone               *)
(* (zone/export.go), whose output the API exports and a store can be       *)
(* seeded from.                                                            *)
(*                                                                         *)
(* A file is a sequence of lines and a line a sequence of tokens, with "(" *)
(* and ")" among them.  What a token can be taken for is given by TTLOf,   *)
(* TypeOf and NameOf: as in the code one token may be several of them.     *)
(* Comments, and quotes that span lines, are left out: a quoted string is  *)
(* one token.  A name is its labels, the root <<>>, which the code writes  *)
(* "" and uses for "no origin" as well.                                    *)
(***************************************************************************)
EXTENDS Integers, Sequences, FiniteSets, SequencesExt

CONSTANTS
  TTLOf,    \* the tokens that parseTTL accepts, and the seconds they mean
  TypeOf,   \* the tokens that dns.ParseType accepts, and their types
  NameOf,   \* the tokens that can be names: labels, and dot if they end in one
  Text,     \* record data and its text, a sequence of tokens (UnpackRData)
  Data,     \* tokens and the record data they are packed to (PackRData)
  Listings, \* what may be written: sequences of records
  Zones,    \* the zones to export; <<>> is all of them
  Origins   \* the origins of files written by hand; <<>> is none

VARIABLES
  phase,    \* "write", "parse", "done"
  listing,  \* what is written
  byHand,   \* not by FormatZone
  zone,     \* the zone that is exported, or the origin of a file by hand
  written,  \* the number of records written by hand
  misread,  \* history: a record was written by hand that Parse takes for another
  file,     \* the lines
  p         \* the parser

vars == <<phase, listing, byHand, zone, written, misread, file, p>>

DefaultTTL == 3600

-----------------------------------------------------------------------------
(* zone.go                                                                 *)

Parser == [records |-> <<>>, origin |-> <<>>, last |-> <<>>, ttl |-> DefaultTTL,
           paren |-> 0, pending |-> <<>>, failed |-> FALSE]

Failed(q) == [q EXCEPT !.failed = TRUE]

IsTTL(t) == t \in DOMAIN TTLOf
IsClass(t) == t = "IN"
IsType(t) == ~IsTTL(t) /\ ~IsClass(t) /\ t \in DOMAIN TypeOf

FirstTTL(s) == {i \in DOMAIN s : IsTTL(s[i]) /\ \A j \in 1..(i - 1) : ~IsTTL(s[j])}
FirstClass(s) == {i \in DOMAIN s : IsClass(s[i]) /\ \A j \in 1..(i - 1) : ~IsClass(s[j])}

(* isValidPrefix: at most a TTL, a class and an owner                      *)
IsValidPrefix(s) ==
  Len(s) <= 3 /\ Cardinality(DOMAIN s \ (FirstTTL(s) \cup FirstClass(s))) <= 1

TypeCandidates(s) ==
  {i \in 1..4 \cap DOMAIN s :
     IsType(s[i]) /\ (i = Len(s) \/ IsValidPrefix(SubSeq(s, 1, i - 1)))}

(* Mutant of FindRecordTypeIndex: the search starts from the left.         *)
FindRecordTypeIndex_Left(s) ==
  IF Len(s) < 2 \/ TypeCandidates(s) = {} THEN 0
  ELSE CHOOSE i \in TypeCandidates(s) : \A j \in TypeCandidates(s) : j >= i

(* findRecordTypeIndex looks for the type from the right, up to the fourth *)
(* token; 0 is an error, also when no data follows.                        *)
FindRecordTypeIndex(s) ==
  IF Len(s) < 2 \/ Len(s) \in TypeCandidates(s) \/ TypeCandidates(s) = {} THEN 0
  ELSE CHOOSE i \in TypeCandidates(s) : \A j \in TypeCandidates(s) : j <= i

(* resolveDomainName                                                       *)
ResolveDomainName(t, origin) ==
  CASE t = "@" -> origin
    [] t = "." -> <<>>
    [] OTHER   -> IF NameOf[t].dot THEN NameOf[t].labels ELSE NameOf[t].labels \o origin

(* appendOrUpdateRRSet: the first record of a set gives its TTL.           *)
AppendOrUpdate(records, key, ttl, d) ==
  IF key \in DOMAIN records THEN [records EXCEPT ![key].data = Append(@, d)]
  ELSE (key :> [ttl |-> ttl, data |-> <<d>>]) @@ records

(* processDirective                                                        *)
Directive(q, s) ==
  IF Len(s) < 2 THEN Failed(q)
  ELSE IF s[1] = "$TTL"
       THEN IF IsTTL(s[2]) THEN [q EXCEPT !.ttl = TTLOf[s[2]]] ELSE Failed(q)
       ELSE [q EXCEPT !.origin = NameOf[s[2]].labels, !.last = NameOf[s[2]].labels]

(* processRecordTokens with parseRecordHeader and resolveOwnerName: an     *)
(* omitted owner is the last one, else the origin, else an error.          *)
Record(q, s) ==
  LET i      == FindRecordTypeIndex(s)
      header == SubSeq(s, 1, i - 1)
      owners == {j \in DOMAIN header : j \notin FirstTTL(header) /\ ~IsClass(header[j])}
      name   == IF owners # {} THEN ResolveDomainName(header[CHOOSE j \in owners : TRUE], q.origin)
                ELSE IF q.last # <<>> THEN q.last ELSE q.origin
      ttl    == IF FirstTTL(header) = {} THEN q.ttl
                ELSE TTLOf[header[CHOOSE j \in FirstTTL(header) : TRUE]]
      rdata  == SubSeq(s, i + 1, Len(s))
  IN IF \/ i = 0 \/ Cardinality(owners) > 1 \/ rdata \notin DOMAIN Data
        \/ owners = {} /\ name = <<>>
     THEN Failed(q)
     ELSE [q EXCEPT !.last = IF owners = {} THEN @ ELSE name,
                    !.records = AppendOrUpdate(@, <<name, TypeOf[s[i]]>>, ttl, Data[rdata])]

(* tokenizeComplexLine: parentheses are counted and dropped.               *)
Tokenize(q, line) ==
  FoldLeft(LAMBDA r, t :
             CASE r.failed -> r
               [] ~r.failed /\ t = "(" -> [r EXCEPT !.paren = @ + 1]
               [] ~r.failed /\ t = ")" ->
                    IF r.paren = 0 THEN Failed(r) ELSE [r EXCEPT !.paren = @ - 1]
               [] OTHER -> [r EXCEPT !.pending = Append(@, t)],
           q, line)

(* One turn of the loop of parseAll: the tokens are processed once no      *)
(* parenthesis is open.                                                    *)
ParseOne(q, line) ==
  LET r == Tokenize(q, line)
      c == [r EXCEPT !.pending = <<>>]
  IN IF r.failed \/ r.paren > 0 \/ r.pending = <<>> THEN r
     ELSE IF r.pending[1] \in {"$TTL", "$ORIGIN"} THEN Directive(c, r.pending)
     ELSE Record(c, r.pending)

-----------------------------------------------------------------------------
(* export.go                                                               *)

Token(labels, dot) == CHOOSE t \in DOMAIN NameOf : NameOf[t] = [labels |-> labels, dot |-> dot]
FQDN(labels) == IF labels = <<>> THEN "." ELSE Token(labels, TRUE)
TTLToken(n) == CHOOSE t \in DOMAIN TTLOf : TTLOf[t] = n

InZone(labels, z) == IsSuffix(z, labels)

(* The order of the lines: SOA and NS of every name, then everything else, *)
(* the apex first in both.  The other names, alphabetical in the code,     *)
(* come in any order.                                                      *)
Exported(t, z) == {k \in DOMAIN t : InZone(k[1], z)}

Ranked(t, z) ==
  LET rank(k) == (IF k[2] \in {"SOA", "NS"} THEN 0 ELSE 4)
                 + (IF k[1] = z THEN 0 ELSE 2) + (IF k[2] = "SOA" THEN 0 ELSE 1)
  IN SetToSortSeq(Exported(t, z), LAMBDA a, b : rank(a) < rank(b))

(* The default TTL is that of the first SOA whose TTL is not 0.            *)
ExportTTL(t, z) ==
  LET soas == SelectSeq(Ranked(t, z), LAMBDA k : k[2] = "SOA" /\ t[k].ttl > 0)
  IN IF soas = <<>> THEN DefaultTTL ELSE t[Head(soas)].ttl

(* Mutant of Lines: the owner is written without its final dot.            *)
Lines_Relative(t, k) ==
  LET shown == SelectSeq(t[k].data, LAMBDA d : d \in DOMAIN Text)
  IN [i \in DOMAIN shown |->
        <<IF k[1] = <<>> THEN "." ELSE Token(k[1], FALSE), TTLToken(t[k].ttl), "IN", k[2]>>
        \o Text[shown[i]]]

(* writeRecordLine for each record; data that UnpackRData rejects has no   *)
(* text and is passed over.                                                *)
Lines(t, k) ==
  LET shown == SelectSeq(t[k].data, LAMBDA d : d \in DOMAIN Text)
  IN [i \in DOMAIN shown |->
        <<FQDN(k[1]), TTLToken(t[k].ttl), "IN", k[2]>> \o Text[shown[i]]]

FormatZone(t, z) ==
  IF Exported(t, z) = {} THEN <<>>
  ELSE (IF z = <<>> THEN <<>> ELSE <<<<"$ORIGIN", FQDN(z)>>>>)
       \o <<<<"$TTL", TTLToken(ExportTTL(t, z))>>>>
       \o FoldLeft(LAMBDA lines, k : lines \o Lines(t, k), <<>>, Ranked(t, z))

-----------------------------------------------------------------------------
(* The contents that a listing stands for, owner and type to TTL and data  *)
Content(records) ==
  FoldLeft(LAMBDA t, r : AppendOrUpdate(t, <<r.name, r.type>>, r.ttl, r.data), <<>>, records)

(* Data that its text stands for                                           *)
Canonical(d) == d \in DOMAIN Text /\ Data[Text[d]] = d

Init ==
  /\ phase = "write"
  /\ listing \in Listings
  /\ byHand \in {b \in BOOLEAN : b => \A i \in DOMAIN listing : Canonical(listing[i].data)}
  /\ zone \in IF byHand THEN Origins ELSE Zones
  /\ written = 0 /\ misread = FALSE
  /\ file = IF byHand /\ zone # <<>> THEN <<<<"$ORIGIN", FQDN(zone)>>>> ELSE <<>>
  /\ p = Parser

(* GET /v1/export/zonefile; a zone without names is an error, and no file. *)
Export ==
  /\ phase = "write" /\ ~byHand
  /\ file' = FormatZone(Content(listing), zone)
  /\ phase' = "parse"
  /\ UNCHANGED <<listing, byHand, zone, written, misread, p>>

(* How an owner can be written: in full, as "@", relative to the origin,   *)
(* or not at all when it is the owner of the record before.                *)
OwnerForms(name) ==
  LET previous == IF written = 0 THEN zone ELSE listing[written].name
  IN      {<<FQDN(name)>>}
     \cup (IF zone # <<>> /\ name = zone THEN {<<"@">>} ELSE {})
     \cup (IF InZone(name, zone) /\ name # zone
             THEN {<<Token(SubSeq(name, 1, Len(name) - Len(zone)), FALSE)>>} ELSE {})
     \cup (IF name = previous /\ name # <<>> THEN {<<>>} ELSE {})

(* What parseRecordHeader and findRecordTypeIndex take for something else, *)
(* although RFC 1035 has it: a relative owner that is a number, read as a  *)
(* TTL, and the name of a type at the end of the data or, where the owner  *)
(* is left out, anywhere in it                                             *)
Misread(owner, data) ==
  \/ \E i \in DOMAIN owner : IsTTL(owner[i])
  \/ IsType(Last(data))
  \/ owner = <<>> /\ \E i \in DOMAIN data : IsType(data[i])

(* A TTL and a class in either order, either of them left out: the TTL     *)
(* when it is the default                                                  *)
Attributes(ttl) ==
       {<<TTLToken(ttl)>>, <<TTLToken(ttl), "IN">>, <<"IN", TTLToken(ttl)>>}
  \cup (IF ttl = DefaultTTL THEN {<<>>, <<"IN">>} ELSE {})

(* An operator writes a record, on one line or with its data in            *)
(* parentheses on lines of its own.                                        *)
WriteByHand ==
  /\ phase = "write" /\ byHand
  /\ written < Len(listing)
  /\ LET r == listing[written + 1]
     IN \E o \in OwnerForms(r.name), a \in Attributes(r.ttl), split \in BOOLEAN :
          /\ file' = file \o (IF split THEN <<o \o a \o <<r.type, "(">>, Text[r.data], <<")">>>>
                              ELSE <<o \o a \o <<r.type>> \o Text[r.data]>>)
          /\ misread' = (misread \/ Misread(o, Text[r.data]))
  /\ written' = written + 1
  /\ UNCHANGED <<phase, listing, byHand, zone, p>>

Written ==
  /\ phase = "write" /\ byHand
  /\ written = Len(listing)
  /\ phase' = "parse"
  /\ UNCHANGED <<listing, byHand, zone, written, misread, file, p>>

(* parseAll reads a line; Parse returns at the first error.                *)
ParseLine ==
  /\ phase = "parse"
  /\ file # <<>> /\ ~p.failed
  /\ p' = ParseOne(p, Head(file))
  /\ file' = Tail(file)
  /\ UNCHANGED <<phase, listing, byHand, zone, written, misread>>

(* The end of the file, with a parenthesis open or not                     *)
EndOfFile ==
  /\ phase = "parse"
  /\ file = <<>> \/ p.failed
  /\ p' = IF p.paren > 0 THEN Failed(p) ELSE p
  /\ phase' = "done"
  /\ UNCHANGED <<listing, byHand, zone, written, misread, file>>

Next == Export \/ WriteByHand \/ Written \/ ParseLine \/ EndOfFile

-----------------------------------------------------------------------------
(* What is exported can be loaded: Parse accepts every file of FormatZone  *)
(* and returns the records of the zone, all of it and nothing else, with   *)
(* their TTLs, each as PackRData rebuilds it from its text.  (Listings has *)
(* no data whose text PackRData rejects, as it does for NSEC.)             *)
ExportParses ==
  (phase = "done" /\ ~byHand) =>
    LET t == Content(listing)
        Rebuilt(k) == LET d == SelectSeq(t[k].data, LAMBDA x : x \in DOMAIN Text)
                      IN [i \in DOMAIN d |-> Data[Text[d[i]]]]
        shown == {k \in DOMAIN t : InZone(k[1], zone) /\ Rebuilt(k) # <<>>}
    IN /\ ~p.failed
       /\ p.records = [k \in shown |-> [ttl |-> t[k].ttl, data |-> Rebuilt(k)]]

(* Layout does not matter: however an operator writes the owners, TTLs and *)
(* classes and wherever the lines are broken, also when a label of an      *)
(* owner is the name of a type, Parse returns the records that were meant. *)
(* Two layouts of RFC 1035 are excepted, which Parse takes for others or   *)
(* rejects (Misread): relative owners that are numbers, as in a reverse    *)
(* zone, and data in which a type is named where the type is looked for.   *)
LayoutIrrelevant ==
  (phase = "done" /\ byHand /\ ~misread) => ~p.failed /\ p.records = Content(listing)
=============================================================================
