----------------------------- MODULE DurableMap -----------------------------
(***************************************************************************)
(* What internal/store promises its callers, without files, batches or     *)
(* goroutines: a map from domains to record sets of which a crash may      *)
(* forget the newest frames, in order, as long as no caller was answered   *)
(* for them.                                                               *)
(***************************************************************************)
EXTENDS Wal

CONSTANT Initials   \* what the first Open may find: a zone file, or nothing

VARIABLES
  created,   \* the first Open was here
  durable,   \* what survives a crash
  pending,   \* frames visible to readers that a crash may forget
  visible,   \* what readers see while the store is up
  up

vars == <<created, durable, pending, visible, up>>

Init ==
  /\ created = FALSE
  /\ durable = EmptyTree
  /\ pending = <<>>
  /\ visible = EmptyTree
  /\ up = FALSE

Create ==
  /\ ~created
  /\ created' = TRUE
  /\ durable' \in Initials
  /\ UNCHANGED <<pending, visible, up>>

(* One mutation: a frame of its own, after one for the apex of its zone. *)
Mutate ==
  /\ up
  /\ pending' \in Seq(Frames)
  /\ Len(pending') - Len(pending) \in 1..2
  /\ pending = SubSeq(pending', 1, Len(pending))
  /\ visible' = Replay(durable, pending')
  /\ UNCHANGED <<created, durable, up>>

(* The group is on disk; its callers are answered after this. *)
Harden ==
  /\ up
  /\ durable' = visible
  /\ pending' = <<>>
  /\ UNCHANGED <<created, visible, up>>

(* The store goes down, by Close or by a crash. *)
Stop ==
  /\ up
  /\ \E n \in 0..Len(pending) : durable' = Replay(durable, SubSeq(pending, 1, n))
  /\ pending' = <<>>
  /\ visible' = EmptyTree
  /\ up' = FALSE
  /\ UNCHANGED created

Start ==
  /\ ~up /\ created
  /\ visible' = durable
  /\ up' = TRUE
  /\ UNCHANGED <<created, durable, pending>>

Next == Create \/ Mutate \/ Harden \/ Stop \/ Start

Spec == Init /\ [][Next]_vars
=============================================================================
