---------------------------- MODULE MCDataPlane ----------------------------
(* The parts that work on their own, on small instances: the rate limiter, *)
(* the tree of names, messages on the wire, and zone files.  A behaviour   *)
(* is one of one of them.                                                  *)
EXTENDS RRL, Sequences

VARIABLES
  mode,                                             \* which part runs
  heap, root, size, held, list, stored, writes,     \* Radix
  pc, msg, res, reply,                              \* Messages
  phase, listing, byHand, zone, written, misread, file, p   \* ZoneFile

radixVars == <<heap, root, size, held, list, stored, writes>>
messageVars == <<pc, msg, res, reply>>
zoneVars == <<phase, listing, byHand, zone, written, misread, file, p>>

-----------------------------------------------------------------------------
(* The rate limiter                                                        *)
MCSubnet == [c \in {"c1"} |-> c]
MCLower == [n \in {"a", "A"} |-> "a"]
MCSlot == [k \in Streams |-> 1]

-----------------------------------------------------------------------------
(* The tree.  A domain is spelled from the left: <<1, 2>> is a name 1      *)
(* below 2.                                                                *)
RadixDomains == {<<>>, <<2>>, <<1, 2>>, <<3, 2>>, <<0, 2>>, <<1, 1, 2>>, <<13, 12, -1>>}
RadixQueries ==
  {<<>>, <<1>>, <<2>>, <<1, 2>>, <<2, 2>>, <<0, 2>>, <<1, 1, 2>>, <<2, 1, 2>>, <<2, 3, 2>>}
RadixRRs == {<<"A">>, <<"NS", "DS">>, <<"CNAME">>}
Entry(d, rr) == [d |-> d, rr |-> rr]
RadixZones ==
  {<<Entry(<<2>>, <<"SOA", "NS">>), Entry(<<3, 2>>, <<"A">>),
     Entry(<<0, 2>>, <<"A">>), Entry(<<1, 2>>, <<"A">>)>>,
   <<Entry(<<1, 1, 2>>, <<"A">>), Entry(<<1, 1, 2>>, <<"CNAME">>)>>}

R == INSTANCE Radix WITH
       Domains <- RadixDomains, Queries <- RadixQueries, RRs <- RadixRRs,
       QTypes <- {"A", "DS", "CNAME", "ANY"}, Zones <- RadixZones,
       LinearMax <- 1, PageLimit <- 1, MaxWrites <- 3, MaxPages <- 4

-----------------------------------------------------------------------------
(* Messages.  Sizes are scaled down, and the client's buffer takes every   *)
(* value, so that a response is cut at every octet.                        *)
Labels == {"a", "A", "b", "long", "k"}
AllQueries ==
  [questions : {<<<<"A", "b">>>>, <<<<"long", "b">>>>, <<<<>>>>,
                <<<<"a", "b">>, <<"long", "A", "b">>>>},
   type : {"A", "DNSKEY", "RRSIG"}, udp : BOOLEAN, edns : {0} \cup (40..100),
   do : BOOLEAN, tsig : BOOLEAN]
MessageQueries ==
  {q \in AllQueries :
     /\ q.edns = 0 => ~q.do
     /\ ~q.udp => q.edns \in {0, 40}
     /\ q.type # "A" => q.do /\ ~q.tsig
     /\ q.type = "RRSIG" => q.edns \in {40, 60, 100}
     /\ q.tsig => q.edns \in {0, 40} \cup (60..72)}

M == INSTANCE Messages WITH
       Size <- [l \in Labels |-> IF l = "long" THEN 20 ELSE 1],
       Lower <- [l \in Labels |-> IF l = "A" THEN "a" ELSE l],
       MaxUDPSize <- 45, MaxEDNS0Size <- 90, MaxTCPSize <- 150, BufferSize <- 100,
       MaxEntries <- 3, MaxPointer <- 60, MaxJumps <- 10, MaxNameLen <- 28,
       MaxQuestions <- 2, SigSize <- 12, BitmapSize <- 3, TSIGSize <- 6,
       KeyName <- <<"k">>, Keyed <- {<<"b">>}, Queries <- MessageQueries,
       RDatas <- {<<4>>, <<4, 20>>, <<20, 4>>}

-----------------------------------------------------------------------------
(* Zone files: an owner whose label is a type, one whose label is a        *)
(* number, data whose text stands for other data and data without a text,  *)
(* and data that names a type                                              *)
Spelling ==
  {<<"z.", <<"z">>>>, <<"mx.z.", <<"mx", "z">>>>, <<"10.z.", <<"10", "z">>>>, <<"w.", <<"w">>>>,
   <<"z", <<"z">>>>, <<"mx.z", <<"mx", "z">>>>, <<"10.z", <<"10", "z">>>>, <<"w", <<"w">>>>,
   <<"mx", <<"mx">>>>, <<"10", <<"10">>>>, <<"3600", <<"3600">>>>}
Names_ == [t \in {s[1] : s \in Spelling} |->
             [labels |-> (CHOOSE s \in Spelling : s[1] = t)[2],
              dot |-> t \in {"z.", "mx.z.", "10.z.", "w."}]]
Plain == [name : {<<"z">>, <<"mx", "z">>, <<"10", "z">>, <<"w">>}, type : {"A"},
          ttl : {10, 3600}, data : {"addr"}]
         \cup [name : {<<"z">>, <<"mx", "z">>}, type : {"MX"}, ttl : {3600}, data : {"pref"}]
         \cup [name : {<<"z">>}, type : {"NS"}, ttl : {10, 3600}, data : {"alias"}]
         \cup [name : {<<"z">>}, type : {"TXT"}, ttl : {10}, data : {"words"}]
Any == Plain \cup [name : {<<"z">>, <<>>}, type : {"SOA", "NS"}, ttl : {10},
                   data : {"chunks", "odd"}]

Z == INSTANCE ZoneFile WITH
       TTLOf <- [t \in {"10", "3600"} |-> IF t = "10" THEN 10 ELSE 3600],
       TypeOf <- [t \in {"A", "NS", "SOA", "MX", "TXT", "mx"} |-> IF t = "mx" THEN "MX" ELSE t],
       NameOf <- Names_,
       Text <- [d \in {"addr", "pref", "alias", "words", "chunks"} |->
                  CASE d = "pref" -> <<"10", "host">> [] d = "alias" -> <<"mx">>
                    [] d = "words" -> <<"A", "x">>    [] OTHER -> <<"1.2.3.4">>],
       Data <- [s \in {<<"1.2.3.4">>, <<"10", "host">>, <<"mx">>, <<"A", "x">>} |->
                  CASE s[1] = "10" -> "pref" [] s[1] = "mx" -> "alias"
                    [] s[1] = "A" -> "words" [] OTHER -> "addr"],
       Listings <- UNION {[1..n -> Plain] : n \in 0..2} \cup [1..2 -> Any],
       Zones <- {<<>>, <<"z">>}, Origins <- {<<>>, <<"z">>}

-----------------------------------------------------------------------------
MCInit ==
  /\ mode \in {"rrl", "radix", "messages", "zone"}
  /\ Init /\ R!Init
  /\ IF mode = "messages" THEN M!Init ELSE pc = "off" /\ msg = "off" /\ res = "off" /\ reply = "off"
  /\ IF mode = "zone" THEN Z!Init
     ELSE /\ phase = "off" /\ listing = "off" /\ byHand = "off" /\ zone = "off"
          /\ written = "off" /\ misread = "off" /\ file = "off" /\ p = "off"

MCNext ==
  /\ \/ mode = "rrl" /\ Next /\ UNCHANGED <<radixVars, messageVars, zoneVars>>
     \/ mode = "radix" /\ R!Next /\ UNCHANGED <<vars, messageVars, zoneVars>>
     \/ mode = "messages" /\ M!Next /\ UNCHANGED <<vars, radixVars, zoneVars>>
     \/ mode = "zone" /\ Z!Next /\ UNCHANGED <<vars, radixVars, messageVars>>
  /\ UNCHANGED mode

MCSpec == MCInit /\ [][MCNext]_<<mode, vars, radixVars, messageVars, zoneVars>>

-----------------------------------------------------------------------------
(* The tree (radix.Tree) is always the map of what was written last, in    *)
(* whatever order and spelling: see Radix!TreeIsMap.                       *)
TreeIsMap == mode = "radix" => R!TypeOK /\ R!TreeIsMap

(* A reader that loaded the root of the tree finds in it what it held      *)
(* then, whatever is written later: see Radix!SnapshotStable.              *)
SnapshotStable == mode = "radix" => R!SnapshotStable

(* Tree.Resolve answers as a definition over names says, with delegations, *)
(* wildcards and empty nonterminals: see Radix!ResolveAgrees.              *)
ResolveAgrees == mode = "radix" => R!ResolveAgrees

(* listRecords, page by page, misses no domain and repeats none while      *)
(* others come and go: see Radix!ListingComplete.                          *)
ListingComplete == mode = "radix" => R!ListingComplete

(* What PackResponse packs Unpack reads, wherever the response was cut:    *)
(* see Messages!ResponseReadable.                                          *)
ResponseReadable == mode = "messages" => M!ResponseReadable

(* No response exceeds the size agreed on: see Messages!SizeRespected.     *)
SizeRespected == mode = "messages" => M!SizeRespected

(* TruncateToSlip leaves the question and TC: see Messages!SlipAsksForTCP. *)
SlipAsksForTCP == mode = "messages" => M!SlipAsksForTCP

(* tsig.Extract undoes tsig.Sign: see Messages!TSIGComesOff.               *)
TSIGComesOff == mode = "messages" => M!TSIGComesOff

(* zone.Parse reads back what FormatZone wrote: see ZoneFile!ExportParses. *)
ExportParses == mode = "zone" => Z!ExportParses

(* zone.Parse reads a zone in every layout: see ZoneFile!LayoutIrrelevant. *)
LayoutIrrelevant == mode = "zone" => Z!LayoutIrrelevant
=============================================================================
