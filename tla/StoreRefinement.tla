-------------------------- MODULE StoreRefinement --------------------------
(***************************************************************************)
(* The store implements DurableMap: batching, the WAL, compaction and      *)
(* reload from disk are invisible to its callers.                          *)
(***************************************************************************)
EXTENDS Store

(* What a crash right now could not take away. *)
DurableNow ==
  IF snap = NoSnap THEN EmptyTree
  ELSE Replay(snap, SubSeq(wal, 1, synced))

(* What it could: frames not synced, in the file or still in the buffer. *)
Pending == SubSeq(wal, synced + 1, Len(wal)) \o buf

Map == INSTANCE DurableMap WITH
  Initials <- IF Zones = {} THEN {EmptyTree} ELSE Zones,
  created <- (snap # NoSnap),
  durable <- DurableNow,
  pending <- Pending,
  visible <- tree,
  up <- Running

(* Every behaviour of the store is one of DurableMap: a compaction, the    *)
(* answers of commitBatch and a reload change nothing a caller or a crash  *)
(* could tell; a mutation is seen before it is durable, and a crash keeps  *)
(* a prefix of what was pending.                                           *)
ImplementsDurableMap == Map!Spec
=============================================================================
