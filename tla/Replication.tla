---------------------------- MODULE Replication ----------------------------
(***************************************************************************)
(* Streaming replication: the hub of a primary (internal/cluster/hub), one *)
(* replica (internal/cluster/replica, and the store it restarts with), and *)
(* the two files of the primary between them.                              *)
(*                                                                         *)
(* The hub reads the primary's files without the store's lock, so every    *)
(* step of a compaction and every step of a stream handler interleave.     *)
(* The primary is reduced to what Store shows of it: its tree is what its  *)
(* snapshot, its WAL and the frames it appended behind a torn one since it *)
(* started give.  A frame takes two units of a file, so that a write or a  *)
(* stream may break inside one; offsets count units.  Two snapshots have   *)
(* the same checksum if they hold the same tree.                           *)
(***************************************************************************)
EXTENDS Wal

CONSTANTS
  Mutations,    \* the frames the primary commits
  NoSnap,       \* the snapshot file does not exist
  NoStream,     \* no stream handler runs for the replica
  MaxStreams,   \* maxStreams of the hub
  SplitFrames,  \* TRUE if a read or a crash may cut a frame in two
  MaxAppends, MaxCompactions, MaxCuts, MaxCrashes, MaxRestarts,  \* bounds
  MaxReloads, MaxEvents   \* cuts, crashes, restarts and reloads together

ASSUME ReplicationAssumption ==
  /\ Mutations \subseteq Frames
  /\ NoSnap \notin Trees
  /\ MaxStreams \in Nat \ {0}
  /\ SplitFrames \in BOOLEAN
  /\ MaxAppends \in Nat /\ MaxCompactions \in Nat /\ MaxCuts \in Nat
  /\ MaxCrashes \in Nat /\ MaxRestarts \in Nat /\ MaxReloads \in Nat
  /\ MaxEvents \in Nat

VARIABLES
  snap,     \* the primary's snapshot
  wal,      \* the frames a replay of its WAL decodes ...
  tail,     \* ... and the rest of the file: a torn frame and what follows it
  synced,   \* how many units of the file are synced
  behind,   \* the frames appended to tail since the primary started
  ppc,      \* the primary: "idle", "written"; "renamed", "truncated" (Compact);
            \* "refused" when it does not start
  gen,      \* Server.gen
  stream,   \* the handler of the replica's stream: [pc, startGen, offset]
  zombies,  \* handlers that wait although their client is gone
  rsnap, rwal, rfile,  \* the replica's files; whether mutations.wal exists
  rtree,    \* the replica's live tree
  rpc,      \* where sync is
  body,     \* the snapshot being downloaded
  carry,    \* units received of a frame not yet complete
  reload,   \* the replica's ReloadState: [pc, tree]
  past,     \* history: every frame the primary held
  split,    \* history: a session of the replica ended inside a frame
  outdated, \* history: a reload put back a tree it had read before
  appends, compactions, cuts, crashes, restarts, reloads

primaryVars == <<snap, wal, tail, synced, behind, ppc, gen>>
hubVars == <<stream, zombies>>
replicaVars == <<rsnap, rwal, rfile, rtree, rpc, body, carry>>
historyVars == <<past, split, outdated>>
boundVars == <<appends, compactions, cuts, crashes, restarts, reloads>>
restVars == <<reload, historyVars, boundVars>>
vars == <<primaryVars, hubVars, replicaVars, restVars>>

-----------------------------------------------------------------------------
(* Units of a file.                                                        *)

Unit(f, h) == [f |-> f, h |-> h]

Units == [f : Frames, h : {1, 2}]

Bytes(log) ==
  [i \in 1..(2 * Len(log)) |-> Unit(log[(i + 1) \div 2], IF i % 2 = 1 THEN 1 ELSE 2)]

(* Mutant of IsWhole: halves of different frames pass the checksum. *)
IsWhole_NoChecksum(x, i) == x[2*i - 1].h = 1 /\ x[2*i].h = 2

(* codec.ReadRecord: the checksum covers the whole frame. *)
IsWhole(x, i) == x[2*i - 1].h = 1 /\ x[2*i] = Unit(x[2*i - 1].f, 2)

(* How many frames wal.Replay decodes at the front of x. *)
Decoded(x) ==
  CHOOSE k \in 0..(Len(x) \div 2) :
    /\ \A i \in 1..k : IsWhole(x, i)
    /\ k < Len(x) \div 2 => ~IsWhole(x, k + 1)

(* The first half of a frame holds the domain, the second the records. *)
FramesIn(x) == [i \in 1..Decoded(x) |-> Frame(x[2*i - 1].f.d, x[2*i].f.rr)]

(* What is left may still become a frame, or is none. *)
Rest(x) == SubSeq(x, 2 * Decoded(x) + 1, Len(x))

IsClean(rest) == rest = <<>> \/ (Len(rest) = 1 /\ rest[1].h = 1)

(* How many units of n may be there when a read or a file is cut short. *)
Cut(n) == {k \in 0..n : SplitFrames \/ k % 2 = 0}

(* The primary's mutations.wal, and its live tree. *)
File == Bytes(wal) \o tail

PrimaryTree == Replay(snap, wal \o behind)

-----------------------------------------------------------------------------
NoReload == [pc |-> "idle", tree |-> EmptyTree]

StreamType ==
  [pc : {"open", "header", "check", "read", "eof", "park", "waiting"},
   startGen : Nat, offset : Nat]

TypeOK ==
  /\ snap \in Trees /\ wal \in Seq(Frames) /\ tail \in Seq(Units)
  /\ synced \in Nat /\ behind \in Seq(Frames)
  /\ ppc \in {"idle", "written", "renamed", "truncated", "refused"}
  /\ gen \in Nat
  /\ stream \in StreamType \cup {NoStream} /\ zombies \in 0..MaxStreams
  /\ rsnap \in Trees \cup {NoSnap} /\ rwal \in Seq(Units) /\ rfile \in BOOLEAN
  /\ rtree \in Trees
  /\ rpc \in {"down", "refused", "idle", "stream", "fetch", "fetched",
              "verified", "renamed", "removed"}
  /\ body \in Trees /\ carry \in Seq(Units)
  /\ reload \in [pc : {"idle", "loaded", "replayed"}, tree : Trees]
  /\ past \subseteq Frames /\ split \in BOOLEAN /\ outdated \in BOOLEAN

Init ==
  /\ snap = EmptyTree /\ wal = <<>> /\ tail = <<>> /\ synced = 0
  /\ behind = <<>> /\ ppc = "idle" /\ gen = 0
  /\ stream = NoStream /\ zombies = 0
  /\ rsnap = NoSnap /\ rwal = <<>> /\ rfile = FALSE
  /\ rtree = EmptyTree /\ rpc = "down" /\ body = EmptyTree /\ carry = <<>>
  /\ reload = NoReload
  /\ past = {Frame(d, NoRR) : d \in Domains}
  /\ split = FALSE /\ outdated = FALSE
  /\ appends = 0 /\ compactions = 0 /\ cuts = 0 /\ crashes = 0 /\ restarts = 0
  /\ reloads = 0

MayHappen == cuts + crashes + restarts + reloads < MaxEvents

-----------------------------------------------------------------------------
(* cond.Broadcast: handlers that wait go on; those without a client end.   *)
Broadcast ==
  /\ stream' = IF stream # NoStream /\ stream.pc = "waiting"
                 THEN [stream EXCEPT !.pc = "check"] ELSE stream
  /\ zombies' = 0

(* The handler ends, or finds out that its client is gone only after it    *)
(* waited for the next broadcast.                                          *)
ClientGone ==
  /\ stream' = NoStream
  /\ \/ zombies' = zombies
     \/ stream # NoStream /\ zombies' = zombies + 1

(* wal.Replay meets the end of the stream, or an error: sync returns.      *)
EndSession ==
  /\ rpc' = "idle" /\ carry' = <<>>
  /\ split' = (split \/ carry # <<>>)
  /\ UNCHANGED <<rsnap, rfile, body>>

-----------------------------------------------------------------------------
(* The primary.                                                            *)

(* commitBatch writes the buffer to the file, after a torn frame too ... *)
Append1(f) ==
  /\ ppc = "idle" /\ appends < MaxAppends
  /\ appends' = appends + 1
  /\ past' = past \cup {f}
  /\ IF tail = <<>>
       THEN wal' = Append(wal, f) /\ UNCHANGED <<tail, behind>>
       ELSE /\ tail' = tail \o Bytes(<<f>>) /\ behind' = Append(behind, f)
            /\ UNCHANGED wal
  /\ ppc' = "written"
  /\ UNCHANGED <<snap, synced, gen, hubVars, replicaVars, reload, split,
                 outdated, compactions, cuts, crashes, restarts, reloads>>

(* ... syncs it, and calls NotifyFlush, which does not take the hub's lock. *)
NotifyFlush ==
  /\ ppc = "written"
  /\ ppc' = "idle" /\ synced' = Len(File)
  /\ Broadcast
  /\ UNCHANGED <<snap, wal, tail, behind, gen, replicaVars, restVars>>

CompactRename ==
  /\ ppc = "idle" /\ compactions < MaxCompactions
  /\ compactions' = compactions + 1
  /\ snap' = PrimaryTree
  /\ ppc' = "renamed"
  /\ UNCHANGED <<wal, tail, synced, behind, gen, hubVars, replicaVars, reload,
                 historyVars, appends, cuts, crashes, restarts, reloads>>

CompactTruncate ==
  /\ ppc = "renamed"
  /\ wal' = <<>> /\ tail' = <<>> /\ synced' = 0 /\ behind' = <<>>
  /\ ppc' = "truncated"
  /\ UNCHANGED <<snap, gen, hubVars, replicaVars, restVars>>

(* It waits for the lock a handler holds until it is on the wait list.     *)
NotifyCompaction ==
  /\ ppc = "truncated"
  /\ stream # NoStream => stream.pc # "park"
  /\ gen' = gen + 1 /\ ppc' = "idle"
  /\ Broadcast
  /\ UNCHANGED <<snap, wal, tail, synced, behind, replicaVars, restVars>>

(* The machine of the primary stops and starts again.  What was not synced *)
(* may be cut anywhere; a torn frame stays in the file, and makes the next *)
(* start fail or not once more bytes follow it (ReplayOutcomes of Wal).    *)
PrimaryCrash ==
  /\ crashes < MaxCrashes /\ MayHappen
  /\ crashes' = crashes + 1
  /\ \E k \in Cut(Len(File)) :
       LET x == SubSeq(File, 1, k)
       IN  /\ k >= synced
           /\ wal' = FramesIn(x) /\ tail' = Rest(x) /\ synced' = k
           /\ ppc' \in IF IsClean(Rest(x)) THEN {"idle"} ELSE {"idle", "refused"}
  /\ behind' = <<>> /\ gen' = 0
  /\ stream' = NoStream /\ zombies' = 0
  /\ \/ rpc = "stream" /\ EndSession
     \/ rpc # "stream" /\ UNCHANGED <<rsnap, rfile, rpc, body, carry, split>>
  /\ UNCHANGED <<snap, rwal, rtree, reload, past, outdated, appends,
                 compactions, cuts, restarts, reloads>>

-----------------------------------------------------------------------------
(* The hub: handleStream and streamWALToClient.                            *)

(* Mutant of Connect: the offset counts only the whole frames. *)
Connect_FrameOffset ==
  /\ rpc = "idle" /\ rsnap # NoSnap /\ stream = NoStream /\ ppc # "refused"
  /\ zombies < MaxStreams
  /\ stream' = [pc |-> "open", startGen |-> gen, offset |-> 2 * Decoded(rwal)]
  /\ UNCHANGED <<primaryVars, zombies, replicaVars, restVars>>

(* The replica asks for what follows its own WAL.  With all slots taken    *)
(* the answer is 429 and it tries again later.                             *)
Connect ==
  /\ rpc = "idle" /\ rsnap # NoSnap /\ stream = NoStream /\ ppc # "refused"
  /\ zombies < MaxStreams
  /\ stream' = [pc |-> "open", startGen |-> gen, offset |-> Len(rwal)]
  /\ UNCHANGED <<primaryVars, zombies, replicaVars, restVars>>

(* OpenWALReader, Stat and Seek; 416 sends the replica for a snapshot.     *)
OpenStream ==
  /\ stream # NoStream /\ stream.pc = "open"
  /\ \/ /\ stream.offset > Len(File)
        /\ stream' = NoStream /\ rpc' = "fetch"
     \/ /\ stream.offset <= Len(File)
        /\ stream' = [stream EXCEPT !.pc = "header"]
        /\ UNCHANGED rpc
  /\ UNCHANGED <<primaryVars, zombies, rsnap, rwal, rfile, rtree, body, carry,
                 restVars>>

(* Mutant of SendHeader: the replica does not compare the checksums. *)
SendHeader_NoCompare ==
  /\ stream # NoStream /\ stream.pc = "header"
  /\ stream' = [stream EXCEPT !.pc = "check"]
  /\ rpc' = "stream" /\ rfile' = TRUE
  /\ UNCHANGED <<primaryVars, zombies, rsnap, rwal, rtree, body, carry,
                 restVars>>

(* The header carries the checksum of the snapshot there is by now.        *)
SendHeader ==
  /\ stream # NoStream /\ stream.pc = "header"
  /\ \/ /\ snap # rsnap
        /\ ClientGone /\ rpc' = "fetch"
        /\ UNCHANGED rfile
     \/ /\ snap = rsnap
        /\ stream' = [stream EXCEPT !.pc = "check"]
        /\ rpc' = "stream" /\ rfile' = TRUE
        /\ UNCHANGED zombies
  /\ UNCHANGED <<primaryVars, rsnap, rwal, rtree, body, carry, restVars>>

(* A new generation ends the stream.                                       *)
CheckGeneration ==
  /\ stream # NoStream /\ stream.pc = "check"
  /\ \/ stream.startGen # gen /\ stream' = NoStream /\ EndSession
     \/ /\ stream.startGen = gen
        /\ stream' = [stream EXCEPT !.pc = "read"]
        /\ UNCHANGED <<rsnap, rfile, rpc, body, carry, split>>
  /\ UNCHANGED <<primaryVars, zombies, rwal, rtree, reload, past, outdated,
                 boundVars>>

(* The replica's TeeReader writes what arrives to its WAL; wal.Replay      *)
(* applies every frame as it is complete.  Bytes that are no frame end the *)
(* session with an error, or pass for the beginning of a longer frame.     *)
Receive(u) ==
  LET x == carry \o u
  IN  /\ rwal' = rwal \o u
      /\ rtree' = Replay(rtree, FramesIn(x))
      /\ \/ /\ carry' = Rest(x)
            /\ stream' = [stream EXCEPT !.pc = "check", !.offset = @ + Len(u)]
            /\ UNCHANGED <<rsnap, rfile, rpc, body, zombies, split>>
         \/ ~IsClean(Rest(x)) /\ EndSession /\ ClientGone

ReadWAL ==
  /\ stream # NoStream /\ stream.pc = "read"
  /\ LET size == Len(File)
     IN  \/ \E n \in Cut(size - stream.offset) \ {0} :
              Receive(SubSeq(File, stream.offset + 1, stream.offset + n))
         \/ /\ stream.offset >= size
            /\ stream' = [stream EXCEPT !.pc = "eof"]
            /\ UNCHANGED <<zombies, replicaVars, split>>
  /\ UNCHANGED <<primaryVars, reload, past, outdated, boundVars>>

(* At the end of the file, under the lock: look once more, then wait.      *)
AtEOF ==
  /\ stream # NoStream /\ stream.pc = "eof"
  /\ \/ stream.startGen # gen /\ stream' = NoStream /\ EndSession
     \/ /\ stream.startGen = gen
        /\ stream' = [stream EXCEPT
             !.pc = IF Len(File) > stream.offset THEN "check" ELSE "park"]
        /\ UNCHANGED <<rsnap, rfile, rpc, body, carry, split>>
  /\ UNCHANGED <<primaryVars, zombies, rwal, rtree, reload, past, outdated,
                 boundVars>>

(* cond.Wait puts the handler on the wait list and releases the lock.      *)
Wait ==
  /\ stream # NoStream /\ stream.pc = "park"
  /\ stream' = [stream EXCEPT !.pc = "waiting"]
  /\ UNCHANGED <<primaryVars, zombies, replicaVars, restVars>>

(* The connection breaks.                                                  *)
Disconnect ==
  /\ stream # NoStream /\ cuts < MaxCuts /\ MayHappen
  /\ cuts' = cuts + 1
  /\ ClientGone /\ EndSession
  /\ UNCHANGED <<primaryVars, rwal, rtree, reload, past, outdated, appends,
                 compactions, crashes, restarts, reloads>>

-----------------------------------------------------------------------------
(* The replica: downloadSnapshot.                                          *)

(* The hub opens the snapshot file ... *)
FetchSnapshot ==
  /\ rpc = "fetch" \/ (rpc = "idle" /\ rsnap = NoSnap)
  /\ ppc # "refused"
  /\ body' = snap /\ rpc' = "fetched"
  /\ UNCHANGED <<primaryVars, hubVars, rsnap, rwal, rfile, rtree, carry,
                 restVars>>

(* ... and then reads the checksum it announces.                           *)
VerifySnapshot ==
  /\ rpc = "fetched"
  /\ rpc' = IF body = snap THEN "verified" ELSE "idle"
  /\ UNCHANGED <<primaryVars, hubVars, rsnap, rwal, rfile, rtree, body, carry,
                 restVars>>

(* The download breaks off: everything stays as it was.                    *)
FetchFails ==
  /\ rpc = "fetched" /\ cuts < MaxCuts /\ MayHappen
  /\ cuts' = cuts + 1
  /\ rpc' = "idle"
  /\ UNCHANGED <<primaryVars, hubVars, rsnap, rwal, rfile, rtree, body, carry,
                 reload, historyVars, appends, compactions, crashes, restarts,
                 reloads>>

RenameSnapshot ==
  /\ rpc = "verified"
  /\ rsnap' = body /\ rpc' = "renamed"
  /\ UNCHANGED <<primaryVars, hubVars, rwal, rfile, rtree, body, carry,
                 restVars>>

RemoveWAL ==
  /\ rpc = "renamed"
  /\ rwal' = <<>> /\ rfile' = FALSE /\ rpc' = "removed"
  /\ UNCHANGED <<primaryVars, hubVars, rsnap, rtree, body, carry, restVars>>

SwapTree ==
  /\ rpc = "removed"
  /\ rtree' = body /\ rpc' = "idle"
  /\ outdated' = FALSE
  /\ UNCHANGED <<primaryVars, hubVars, rsnap, rwal, rfile, body, carry, reload,
                 past, split, boundVars>>

-----------------------------------------------------------------------------
(* The replica: stop and start.                                            *)

(* What it received last may not have reached its WAL.                     *)
ReplicaCrash ==
  /\ rpc \notin {"down", "refused"} /\ restarts < MaxRestarts /\ MayHappen
  /\ restarts' = restarts + 1
  /\ \E k \in Cut(Len(rwal)) :
       rwal' = SubSeq(rwal, 1, k) /\ split' = (split \/ k % 2 = 1)
  /\ reload' = NoReload
  /\ ClientGone
  /\ rpc' = "down" /\ carry' = <<>> /\ rtree' = EmptyTree
  /\ UNCHANGED <<primaryVars, rsnap, rfile, body, past, outdated, appends,
                 compactions, cuts, crashes, reloads>>

(* Mutant of ReplicaStart: the WAL is not replayed at the start. *)
ReplicaStart_NoReplay ==
  /\ rpc = "down"
  /\ rsnap = NoSnap => ~rfile
  /\ rtree' = IF rsnap = NoSnap THEN EmptyTree ELSE rsnap
  /\ rpc' = "idle" /\ rfile' = TRUE
  /\ UNCHANGED <<primaryVars, hubVars, rsnap, rwal, body, carry, restVars>>

(* store.Open in replica mode creates mutations.wal if it is missing.      *)
ReplicaStart ==
  /\ rpc = "down"
  /\ rsnap = NoSnap => ~rfile
  /\ rtree' = IF rsnap = NoSnap THEN EmptyTree ELSE Replay(rsnap, FramesIn(rwal))
  /\ rpc' = "idle" /\ rfile' = TRUE
  /\ UNCHANGED <<primaryVars, hubVars, rsnap, rwal, body, carry, restVars>>

(* ErrUncleanState, or the error of replaying a damaged WAL.               *)
ReplicaRefused ==
  /\ rpc = "down"
  /\ IF rsnap = NoSnap THEN rfile ELSE ~IsClean(Rest(rwal))
  /\ rpc' = "refused"
  /\ UNCHANGED <<primaryVars, hubVars, rsnap, rwal, rfile, rtree, body, carry,
                 restVars>>

-----------------------------------------------------------------------------
(* The replica: ReloadState on SIGHUP.  The client of the hub does not     *)
(* take the store's lock, so its steps fall between the reload's.          *)

ReloadSnapshot ==
  /\ rpc \notin {"down", "refused"} /\ reload.pc = "idle"
  /\ reloads < MaxReloads /\ MayHappen
  /\ reloads' = reloads + 1
  /\ reload' = [pc |-> "loaded",
                tree |-> IF rsnap = NoSnap THEN EmptyTree ELSE rsnap]
  /\ UNCHANGED <<primaryVars, hubVars, replicaVars, historyVars, appends,
                 compactions, cuts, crashes, restarts>>

(* A WAL that does not replay ends the reload with an error.               *)
ReloadWAL ==
  /\ reload.pc = "loaded"
  /\ reload' = IF IsClean(Rest(rwal))
                 THEN [pc |-> "replayed",
                       tree |-> Replay(reload.tree, FramesIn(rwal))]
                 ELSE NoReload
  /\ UNCHANGED <<primaryVars, hubVars, replicaVars, historyVars, boundVars>>

(* State.Swap: what the client applied since the files were read is gone.  *)
ReloadSwap ==
  /\ reload.pc = "replayed"
  /\ rtree' = reload.tree /\ outdated' = (outdated \/ rtree # reload.tree)
  /\ reload' = NoReload
  /\ UNCHANGED <<primaryVars, hubVars, rsnap, rwal, rfile, rpc, body, carry,
                 past, split, boundVars>>

-----------------------------------------------------------------------------
PrimaryStep ==
  NotifyFlush \/ CompactTruncate \/ NotifyCompaction

HubStep ==
  OpenStream \/ SendHeader \/ CheckGeneration \/ ReadWAL \/ AtEOF \/ Wait

ReplicaStep ==
  Connect \/ FetchSnapshot \/ VerifySnapshot \/ RenameSnapshot \/ RemoveWAL
  \/ SwapTree \/ ReplicaStart \/ ReplicaRefused

ReloadStep ==
  ReloadWAL \/ ReloadSwap

Next ==
  \/ \E f \in Mutations : Append1(f)
  \/ CompactRename \/ PrimaryStep \/ PrimaryCrash
  \/ HubStep \/ Disconnect
  \/ ReplicaStep \/ FetchFails \/ ReplicaCrash
  \/ ReloadSnapshot \/ ReloadStep

Spec == Init /\ [][Next]_vars

(* Goroutines are scheduled and requests are answered; mutations,          *)
(* compactions, cuts and crashes may stop at any time.                     *)
FairSpec ==
  /\ Spec /\ WF_vars(PrimaryStep) /\ WF_vars(HubStep) /\ WF_vars(ReplicaStep)
  /\ WF_vars(ReloadStep)

-----------------------------------------------------------------------------
(* Properties.                                                             *)

(* The state is well formed, and a replica serves, for every domain,       *)
(* something its primary held once: neither broken streams nor snapshots   *)
(* changing under a download make wal.Replay accept bytes of two frames as *)
(* one.                                                                    *)
NothingInvented == TypeOK /\ \A d \in Domains : Frame(d, rtree[d]) \in past

(* A stream that has sent all of the WAL and waits for more has brought    *)
(* its replica to the primary's tree, through cut connections, restarts    *)
(* and reloads, with these exceptions: the primary compacted or crashed, a *)
(* session ended inside a frame, or a reload put back an older tree.       *)
CaughtUpAgrees ==
  (/\ compactions = 0 /\ crashes = 0 /\ ~split /\ ~outdated
   /\ stream # NoStream /\ stream.pc = "waiting" /\ stream.startGen = gen
   /\ stream.offset = Len(File) /\ carry = <<>> /\ ppc = "idle")
    => rtree = PrimaryTree

(* While there is no compaction and no crash of the primary, the WAL of    *)
(* the replica is a prefix of the primary's, whatever breaks.              *)
LocalWALIsPrefix ==
  compactions = 0 /\ crashes = 0 =>
    /\ Len(rwal) <= Len(File)
    /\ rwal = SubSeq(File, 1, Len(rwal))

(* Once the primary rests, the replica catches up.                         *)
CatchesUp == <>[](rtree = PrimaryTree)

(* A compaction heals: if the primary rests after one, with an empty WAL,  *)
(* the replica ends at the primary's tree, whatever happened before,       *)
(* unless it does not start or a reload puts back what it read earlier.    *)
CompactionHeals ==
  <>[](File = <<>> /\ ppc = "idle" /\ rpc # "refused" /\ ~outdated)
    => <>[](rtree = PrimaryTree)
=============================================================================
