-------------------------------- MODULE Wal --------------------------------
(***************************************************************************)
(* The write-ahead log of internal/wal, as a sequence of items, and what   *)
(* replaying it computes.                                                  *)
(*                                                                         *)
(* A frame replaces, as a whole, the record set of one domain (an upsert)  *)
(* or removes it (a delete, or an upsert of no records: rr = NoRR).  Two   *)
(* further items are what failures leave between frames:                   *)
(*   Torn    the first bytes of a frame whose last bytes never reached the *)
(*           disk (a crash or a short write);                              *)
(*   Orphan  the opcode byte that AppendUpsert hands to the buffered       *)
(*           writer before the codec rejects the record set.               *)
(***************************************************************************)
EXTENDS Integers, Sequences

CONSTANTS
  Domains,   \* the canonical domain names
  RRs,       \* the record sets a domain may hold
  NoRR       \* "no records": the domain is absent

ASSUME NoRRAssumption == NoRR \notin RRs

Values == RRs \cup {NoRR}

(* What the radix tree holds, by domain name. *)
Trees == [Domains -> Values]

EmptyTree == [d \in Domains |-> NoRR]

Frame(d, rr) == [kind |-> "frame", d |-> d, rr |-> rr]

Frames == {Frame(d, rr) : d \in Domains, rr \in Values}

Torn == [kind |-> "torn"]

Orphan == [kind |-> "orphan"]

Items == Frames \cup {Torn, Orphan}

IsFrame(item) == item.kind = "frame"

OnlyFrames(log) == \A i \in 1..Len(log) : IsFrame(log[i])

(* Every item but perhaps the last is a whole frame. *)
Undamaged(log) == \A i \in 1..(Len(log) - 1) : IsFrame(log[i])

(* i is the last frame of log about domain d. *)
IsLast(log, d, i) ==
  /\ log[i].d = d
  /\ \A j \in (i+1)..Len(log) : log[j].d # d

(* The tree after replaying log, a sequence of frames, over tree: frames   *)
(* are whole-domain replacements, so the last frame of a domain decides.   *)
Replay(tree, log) ==
  [d \in Domains |->
     IF \E i \in 1..Len(log) : log[i].d = d
       THEN log[CHOOSE i \in 1..Len(log) : IsLast(log, d, i)].rr
       ELSE tree[d]]

(* k is the number of frames Replay decodes before the end of the file or  *)
(* the first item that is not a frame.                                     *)
IsDecodable(log, k) ==
  /\ k \in 0..Len(log)
  /\ \A i \in 1..k : IsFrame(log[i])
  /\ k < Len(log) => ~IsFrame(log[k+1])

(* How wal.Replay returns after k frames: "ok" at a clean end of file,     *)
(* "truncated" (ErrTruncated) or "corrupt" (any other error).  A torn      *)
(* frame swallows the bytes appended after it as if they were its own:     *)
(* they run out or fail the checksum.  An opcode byte followed by another  *)
(* opcode reads as the high byte of a domain length above 255, unless the  *)
(* file ends inside that length.                                           *)
ReplayOutcomes(log, k) ==
  IF k = Len(log) THEN {"ok"}
  ELSE IF k + 1 = Len(log) THEN {"truncated"}
  ELSE IF log[k+1] = Torn THEN {"truncated", "corrupt"}
  ELSE IF k + 2 = Len(log) /\ ~IsFrame(log[k+2]) THEN {"truncated", "corrupt"}
  ELSE {"corrupt"}
=============================================================================
