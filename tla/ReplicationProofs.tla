------------------------- MODULE ReplicationProofs -------------------------
(***************************************************************************)
(* Proofs about Replication, for every set of domains and record sets, any *)
(* number of mutations, compactions, crashes, broken connections, restarts *)
(* and reloads, and streams that break inside a frame or only between two. *)
(***************************************************************************)
EXTENDS Replication, WalProofs

-----------------------------------------------------------------------------
(* Files and the frames in them                                            *)

(* A function on 1..n is a sequence of length n.                           *)
LEMMA FunctionIsSeq ==
  ASSUME NEW S, NEW n \in Nat, NEW g \in [1..n -> S]
  PROVE  g \in Seq(S) /\ Len(g) = n
BY SMTT(60)

(* A file of frames has two units for each.                                *)
LEMMA BytesType ==
  ASSUME NEW log \in Seq(Frames)
  PROVE  /\ Bytes(log) \in Seq(Units)
         /\ Len(Bytes(log)) = 2 * Len(log)
         /\ \A i \in 1..(2 * Len(log)) :
              Bytes(log)[i] = Unit(log[(i + 1) \div 2], IF i % 2 = 1 THEN 1 ELSE 2)
<1>1. Len(log) \in Nat
  BY SMTT(60)
<1>2. ASSUME NEW i \in 1..(2 * Len(log))
      PROVE  Unit(log[(i + 1) \div 2], IF i % 2 = 1 THEN 1 ELSE 2) \in Units
  <2>1. (i + 1) \div 2 \in 1..Len(log)
    BY <1>1
  <2> QED BY <2>1 DEF Unit, Units
<1> QED BY <1>1, <1>2 DEF Bytes

(* Whatever a file holds, decoding stops at a definite place.              *)
LEMMA DecodedExists ==
  ASSUME NEW x \in Seq(Units)
  PROVE  /\ Decoded(x) \in 0..(Len(x) \div 2)
         /\ \A i \in 1..Decoded(x) : IsWhole(x, i)
<1> DEFINE n == Len(x) \div 2
           T == {k \in 1..n : \A i \in 1..k : IsWhole(x, i)}
           P(k) == /\ \A i \in 1..k : IsWhole(x, i)
                   /\ k < n => ~IsWhole(x, k + 1)
<1>1. n \in Nat
  BY SMTT(60)
<1>2. \E k \in 0..n : P(k)
  <2>1. CASE T = {}
    <3>1. ASSUME n > 0, IsWhole(x, 1) PROVE FALSE
      <4>1. 1 \in 1..n /\ \A i \in 1..1 : IsWhole(x, i)
        BY <1>1, <3>1
      <4>2. 1 \in T
        BY Zenon, <4>1
      <4> QED BY Zenon, <2>1, <4>2
    <3> QED BY <1>1, <3>1
  <2>2. CASE T # {}
    <3>1. PICK m \in T : \A k \in T : k <= m
      <4> HIDE DEF n, T
      <4>1. T \subseteq 1..n
        BY Zenon DEF T
      <4> QED BY ZenonT(60), <1>1, <2>2, <4>1, GreatestExists
    <3>2. ASSUME m < n, IsWhole(x, m + 1) PROVE FALSE
      <4>1. m + 1 \in 1..n /\ m + 1 \notin T
        BY <1>1, <3>1, <3>2
      <4>2. \A i \in 1..(m + 1) : IsWhole(x, i)
        BY <1>1, <3>1, <3>2
      <4> QED BY Zenon, <4>1, <4>2
    <3> QED BY <3>1, <3>2
  <2> QED BY Zenon, <2>1, <2>2
<1>3. Decoded(x) = CHOOSE k \in 0..n : P(k)
  BY Zenon DEF Decoded
<1> HIDE DEF n
<1>4. Decoded(x) \in 0..n /\ P(Decoded(x))
  BY Zenon, <1>2, <1>3
<1> QED BY Zenon, <1>4 DEF n

(* Where every pair of units is a frame, all of them are decoded.          *)
LEMMA DecodedAll ==
  ASSUME NEW x \in Seq(Units), \A i \in 1..(Len(x) \div 2) : IsWhole(x, i)
  PROVE  Decoded(x) = Len(x) \div 2
<1> DEFINE n == Len(x) \div 2
           P(k) == /\ \A i \in 1..k : IsWhole(x, i)
                   /\ k < n => ~IsWhole(x, k + 1)
<1>1. n \in Nat
  BY SMTT(60)
<1>2. P(n)
  BY SMTT(60)
<1>3. ASSUME NEW k \in 0..n, P(k) PROVE k = n
  BY <1>1, <1>3
<1>4. Decoded(x) = CHOOSE k \in 0..n : P(k)
  BY Zenon DEF Decoded
<1> HIDE DEF n, P
<1> QED BY <1>1, <1>2, <1>3, <1>4 DEF n

(* A decoded frame is the one its first half was written for.              *)
LEMMA FramesInType ==
  ASSUME NEW x \in Seq(Units)
  PROVE  /\ FramesIn(x) \in Seq(Frames)
         /\ Len(FramesIn(x)) = Decoded(x)
         /\ \A i \in 1..Decoded(x) : 2*i - 1 \in 1..Len(x) /\ FramesIn(x)[i] = x[2*i - 1].f
<1>1. Decoded(x) \in Nat /\ 2 * Decoded(x) <= Len(x) /\ Len(x) \in Nat
  BY DecodedExists
<1>2. ASSUME NEW i \in 1..Decoded(x)
      PROVE  /\ 2*i - 1 \in 1..Len(x)
             /\ x[2*i - 1].f \in Frames
             /\ Frame(x[2*i - 1].f.d, x[2*i].f.rr) = x[2*i - 1].f
  <2>1. 2*i - 1 \in 1..Len(x)
    BY <1>1
  <2>2. x[2*i - 1] \in Units
    BY <2>1
  <2>3. x[2*i - 1].f \in Frames
    BY Zenon, <2>2 DEF Units
  <2>4. IsWhole(x, i)
    BY Zenon, DecodedExists
  <2>5. x[2*i].f = x[2*i - 1].f
    BY <2>4 DEF IsWhole, Unit
  <2> QED BY Zenon, <2>1, <2>3, <2>5, FrameType
<1>3. FramesIn(x) = [i \in 1..Decoded(x) |-> x[2*i - 1].f]
  BY Zenon, <1>2 DEF FramesIn
<1>4. FramesIn(x) \in [1..Decoded(x) -> Frames]
  BY Zenon, <1>2, <1>3
<1>5. FramesIn(x) \in Seq(Frames) /\ Len(FramesIn(x)) = Decoded(x)
  BY Zenon, <1>1, <1>4, FunctionIsSeq
<1> QED BY ZenonT(60), <1>2, <1>3, <1>5

(* What is not decoded yet is the end of what was received.                *)
LEMMA RestType ==
  ASSUME NEW x \in Seq(Units)
  PROVE  /\ Rest(x) \in Seq(Units)
         /\ \A i \in 1..Len(Rest(x)) : \E j \in 1..Len(x) : Rest(x)[i] = x[j]
<1>1. Decoded(x) \in Nat /\ 2 * Decoded(x) <= Len(x) /\ Len(x) \in Nat
  BY DecodedExists
<1>2. \A i \in (2 * Decoded(x) + 1)..Len(x) : x[i] \in Units
  BY <1>1
<1>3. /\ Rest(x) \in Seq(Units)
      /\ Len(Rest(x)) = IF 2 * Decoded(x) + 1 <= Len(x) THEN Len(x) - 2 * Decoded(x) ELSE 0
      /\ \A i \in 1..(Len(x) - 2 * Decoded(x)) : Rest(x)[i] = x[2 * Decoded(x) + i]
  BY <1>1, <1>2, SubSeqIs DEF Rest
<1> HIDE DEF Rest
<1>4. ASSUME NEW i \in 1..Len(Rest(x))
      PROVE  2 * Decoded(x) + i \in 1..Len(x) /\ Rest(x)[i] = x[2 * Decoded(x) + i]
  BY <1>1, <1>3
<1> QED BY Zenon, <1>3, <1>4

(* Units cut out of a file of frames at a frame's beginning give back its  *)
(* frames, and the first half of one at most is left.                      *)
LEMMA AlignedFrames ==
  ASSUME NEW log \in Seq(Frames), NEW m \in 0..Len(log), NEW x \in Seq(Units),
         2 * m + Len(x) <= 2 * Len(log),
         \A i \in 1..Len(x) : x[i] = Bytes(log)[2 * m + i]
  PROVE  /\ FramesIn(x) = SubSeq(log, m + 1, m + Len(x) \div 2)
         /\ Rest(x) = SubSeq(x, 2 * (Len(x) \div 2) + 1, Len(x))
         /\ IsClean(Rest(x))
<1> DEFINE n == Len(x) \div 2
<1>0. Len(x) \in Nat /\ Len(log) \in Nat /\ n \in Nat /\ 2 * n <= Len(x) /\ Len(x) <= 2 * n + 1
  BY SMTT(60)
<1>1. ASSUME NEW i \in 1..n
      PROVE  x[2*i - 1] = Unit(log[m + i], 1) /\ x[2*i] = Unit(log[m + i], 2)
  <2>1. /\ 2*i - 1 \in 1..Len(x) /\ 2*i \in 1..Len(x)
        /\ 2*m + (2*i - 1) \in 1..(2 * Len(log)) /\ 2*m + 2*i \in 1..(2 * Len(log))
    BY <1>0
  <2>2. /\ (2*m + (2*i - 1) + 1) \div 2 = m + i /\ (2*m + (2*i - 1)) % 2 = 1
        /\ (2*m + 2*i + 1) \div 2 = m + i /\ (2*m + 2*i) % 2 = 0
    BY <1>0
  <2>3. x[2*i - 1] = Bytes(log)[2*m + (2*i - 1)] /\ x[2*i] = Bytes(log)[2*m + 2*i]
    BY Zenon, <2>1
  <2>4. Bytes(log)[2*m + (2*i - 1)] = Unit(log[m + i], 1)
    BY ZenonT(60), <2>1, <2>2, BytesType
  <2>5. Bytes(log)[2*m + 2*i] = Unit(log[m + i], 2)
    BY ZenonT(60), <2>1, <2>2, BytesType
  <2> QED BY Zenon, <2>3, <2>4, <2>5
<1>2. Decoded(x) = n
  <2>1. \A i \in 1..n : IsWhole(x, i)
    <3> SUFFICES ASSUME NEW i \in 1..n PROVE IsWhole(x, i)
      BY Zenon
    <3>1. x[2*i - 1] = Unit(log[m + i], 1) /\ x[2*i] = Unit(log[m + i], 2)
      BY ZenonT(60), <1>1
    <3> QED BY <3>1 DEF IsWhole, Unit
  <2> QED BY Zenon, <2>1, DecodedAll
<1>3. FramesIn(x) = SubSeq(log, m + 1, m + n)
  <2>1. /\ FramesIn(x) \in Seq(Frames) /\ Len(FramesIn(x)) = n
        /\ \A i \in 1..n : FramesIn(x)[i] = x[2*i - 1].f
    BY Zenon, <1>2, FramesInType
  <2>2. \A i \in (m + 1)..(m + n) : log[i] \in Frames
    BY <1>0
  <2>3. /\ SubSeq(log, m + 1, m + n) \in Seq(Frames) /\ Len(SubSeq(log, m + 1, m + n)) = n
        /\ \A i \in 1..n : SubSeq(log, m + 1, m + n)[i] = log[m + i]
    <3>1. m + 1 \in Int /\ m + n \in Int /\ (m + n) - (m + 1) + 1 = n
          /\ (m + 1 <= m + n <=> n > 0)
      BY <1>0
    <3>2. \A i \in 1..n : (m + 1) + i - 1 = m + i
      BY <1>0
    <3> HIDE DEF n
    <3> QED BY <1>0, <2>2, <3>1, <3>2, SubSeqIs
  <2>4. \A i \in 1..n : FramesIn(x)[i] = SubSeq(log, m + 1, m + n)[i]
    <3> SUFFICES ASSUME NEW i \in 1..n
                 PROVE  FramesIn(x)[i] = SubSeq(log, m + 1, m + n)[i]
      BY Zenon
    <3>1. x[2*i - 1] = Unit(log[m + i], 1)
      BY Zenon, <1>1
    <3>2. x[2*i - 1].f = log[m + i]
      BY <3>1 DEF Unit
    <3> HIDE DEF n
    <3> QED BY ZenonT(60), <2>1, <2>3, <3>2
  <2> HIDE DEF n
  <2> QED BY ZenonT(60), <2>1, <2>3, <2>4, SameSeq
<1>4. Rest(x) = SubSeq(x, 2 * n + 1, Len(x))
  BY Zenon, <1>2 DEF Rest
<1>5. IsClean(Rest(x))
  <2>1. CASE Len(x) = 2 * n
    <3>1. Rest(x) = <<>>
      BY <1>0, <1>4, <2>1, SubSeqNone
    <3> QED BY Zenon, <3>1 DEF IsClean
  <2>2. CASE Len(x) = 2 * n + 1
    <3>1. x[2*n + 1] = Unit(log[m + n + 1], 1)
      <4>1. /\ 2*n + 1 \in 1..Len(x) /\ 2*m + (2*n + 1) \in 1..(2 * Len(log))
            /\ (2*m + (2*n + 1) + 1) \div 2 = m + n + 1 /\ (2*m + (2*n + 1)) % 2 = 1
        <5> HIDE DEF n
        <5>1. 2*n + 1 \in 1..Len(x) /\ 2*m + (2*n + 1) \in 1..(2 * Len(log))
          BY <1>0, <2>2
        <5>2. (2*m + (2*n + 1) + 1) \div 2 = m + n + 1
          BY <1>0
        <5>3. (2*m + (2*n + 1)) % 2 = 1
          BY <1>0
        <5> QED BY Zenon, <5>1, <5>2, <5>3
      <4>2. x[2*n + 1] = Bytes(log)[2*m + (2*n + 1)]
        BY Zenon, <4>1
      <4> QED BY Zenon, <4>1, <4>2, BytesType
    <3>2. Len(Rest(x)) = 1 /\ Rest(x)[1] = x[2*n + 1]
      BY <1>0, <1>4, <2>2
    <3> QED BY <3>1, <3>2 DEF IsClean, Unit
  <2> QED BY <1>0, <2>1, <2>2
<1> QED BY Zenon, <1>3, <1>4, <1>5

-----------------------------------------------------------------------------
(* The inductive invariant                                                 *)

(* What TypeOK says of every variable but the three flags.                 *)
Plain ==
  /\ snap \in Trees /\ wal \in Seq(Frames) /\ tail \in Seq(Units)
  /\ synced \in Nat /\ behind \in Seq(Frames)
  /\ ppc \in {"idle", "written", "renamed", "truncated", "refused"}
  /\ gen \in Nat
  /\ stream \in StreamType \cup {NoStream} /\ zombies \in 0..MaxStreams
  /\ rsnap \in Trees \cup {NoSnap} /\ rwal \in Seq(Units)
  /\ rtree \in Trees
  /\ rpc \in {"down", "refused", "idle", "stream", "fetch", "fetched",
              "verified", "renamed", "removed"}
  /\ body \in Trees /\ carry \in Seq(Units)
  /\ reload \in [pc : {"idle", "loaded", "replayed"}, tree : Trees]
  /\ past \subseteq Frames
  /\ compactions \in Nat /\ crashes \in Nat

Flags == rfile \in BOOLEAN /\ split \in BOOLEAN /\ outdated \in BOOLEAN

(* A handler with a client streams what follows the replica's WAL, to a    *)
(* replica that has a snapshot and is not busy with another.               *)
Session ==
  stream # NoStream =>
    /\ zombies < MaxStreams /\ rsnap # NoSnap /\ stream.offset = Len(rwal)
    /\ rpc \in {"idle", "stream"}
    /\ stream.pc \notin {"open", "header"} => rpc = "stream"

(* Every tree and every file is made of frames the primary held.           *)
Known(t) == \A d \in Domains : Frame(d, t[d]) \in past

Held ==
  /\ \A d \in Domains : Frame(d, NoRR) \in past
  /\ Known(snap) /\ Known(body) /\ Known(rtree) /\ Known(reload.tree)
  /\ rsnap # NoSnap => Known(rsnap)
  /\ \A i \in 1..Len(wal) : wal[i] \in past
  /\ \A i \in 1..Len(tail) : tail[i].f \in past
  /\ \A i \in 1..Len(behind) : behind[i] \in past
  /\ \A i \in 1..Len(rwal) : rwal[i].f \in past
  /\ \A i \in 1..Len(carry) : carry[i].f \in past

(* The primary has neither compacted nor crashed.  Then the only snapshot  *)
(* is the empty one, no frame is torn, the replica's WAL is a prefix of the primary's, and a *)
(* replica that fetches the snapshot has no WAL that could be lost.        *)
Calm == compactions = 0 /\ crashes = 0

Fetching == {"fetch", "fetched", "verified", "renamed", "removed"}

Prefix ==
  /\ ppc \in {"idle", "written"} /\ snap = EmptyTree /\ body = EmptyTree
  /\ tail = <<>> /\ behind = <<>>
  /\ rsnap \in {NoSnap, EmptyTree}
  /\ Len(rwal) <= 2 * Len(wal)
  /\ \A i \in 1..Len(rwal) : rwal[i] = Bytes(wal)[i]
  /\ rsnap = NoSnap \/ rpc \in Fetching => rwal = <<>>

(* As long as no session ended inside a frame, a session begins at the     *)
(* beginning of one, and carries what follows the last whole frame.        *)
Half == Len(rwal) \div 2

Aligned ==
  IF rpc = "stream" THEN carry = SubSeq(rwal, 2 * Half + 1, Len(rwal))
                    ELSE carry = <<>> /\ 2 * Half = Len(rwal)

(* As long as no reload put back an older tree, the replica's tree is what *)
(* the whole frames of its WAL replay to.                                  *)
Agrees ==
  rpc \notin {"down", "refused"} =>
    rtree = Replay(EmptyTree, SubSeq(wal, 1, Half))

Follows == Calm => Prefix /\ (~split => Aligned /\ (~outdated => Agrees))

IInv == Plain /\ Flags /\ Session /\ Held /\ Follows

-----------------------------------------------------------------------------
(* Types                                                                   *)

(* The empty tree is a tree.                                               *)
LEMMA EmptyTreeType == EmptyTree \in Trees
BY Zenon DEF EmptyTree, Trees, Values

(* The flags stay flags.                                                   *)
LEMMA FlagsKept == ASSUME Flags, [Next]_vars PROVE Flags'
<1> USE DEF Flags
<1>1. CASE UNCHANGED vars
  BY <1>1, Zenon DEF vars, replicaVars, restVars, historyVars
<1>2. CASE \E f \in Mutations : Append1(f)
  BY <1>2, Zenon DEF Append1, replicaVars
<1>3. CASE CompactRename
  BY <1>3, Zenon DEF CompactRename, replicaVars, historyVars
<1>4. CASE NotifyFlush
  BY <1>4, Zenon DEF NotifyFlush, replicaVars, restVars, historyVars
<1>5. CASE CompactTruncate
  BY <1>5, Zenon DEF CompactTruncate, replicaVars, restVars, historyVars
<1>6. CASE NotifyCompaction
  BY <1>6, Zenon DEF NotifyCompaction, replicaVars, restVars, historyVars
<1>7. CASE PrimaryCrash
  BY <1>7, Zenon DEF PrimaryCrash, EndSession
<1>8. CASE OpenStream
  BY <1>8, Zenon DEF OpenStream, restVars, historyVars
<1>9. CASE SendHeader
  BY <1>9, Zenon DEF SendHeader, restVars, historyVars
<1>10. CASE CheckGeneration
  BY <1>10, Zenon DEF CheckGeneration, EndSession
<1>11. CASE ReadWAL
  <2>1. rfile' = rfile /\ outdated' = outdated
        /\ (split' = split \/ split' = (split \/ carry # <<>>))
    BY <1>11, Zenon DEF ReadWAL, Receive, EndSession, replicaVars
  <2> QED BY <2>1, Zenon
<1>12. CASE AtEOF
  BY <1>12, Zenon DEF AtEOF, EndSession
<1>13. CASE Wait
  BY <1>13, Zenon DEF Wait, replicaVars, restVars, historyVars
<1>14. CASE Disconnect
  BY <1>14, Zenon DEF Disconnect, EndSession
<1>15. CASE Connect
  BY <1>15, Zenon DEF Connect, replicaVars, restVars, historyVars
<1>16. CASE FetchSnapshot
  BY <1>16, Zenon DEF FetchSnapshot, restVars, historyVars
<1>17. CASE VerifySnapshot
  BY <1>17, Zenon DEF VerifySnapshot, restVars, historyVars
<1>18. CASE RenameSnapshot
  BY <1>18, Zenon DEF RenameSnapshot, restVars, historyVars
<1>19. CASE RemoveWAL
  BY <1>19, Zenon DEF RemoveWAL, restVars, historyVars
<1>20. CASE SwapTree
  BY <1>20, Zenon DEF SwapTree
<1>21. CASE ReplicaStart
  BY <1>21, Zenon DEF ReplicaStart, restVars, historyVars
<1>22. CASE ReplicaRefused
  BY <1>22, Zenon DEF ReplicaRefused, restVars, historyVars
<1>23. CASE FetchFails
  BY <1>23, Zenon DEF FetchFails, historyVars
<1>24. CASE ReplicaCrash
  <2>1. PICK k : split' = (split \/ k % 2 = 1)
    BY <1>24, Zenon DEF ReplicaCrash
  <2> QED BY <1>24, <2>1, Zenon DEF ReplicaCrash
<1>25. CASE ReloadSnapshot
  BY <1>25, Zenon DEF ReloadSnapshot, replicaVars, historyVars
<1>26. CASE ReloadWAL
  BY <1>26, Zenon DEF ReloadWAL, replicaVars, historyVars
<1>27. CASE ReloadSwap
  BY <1>27, Zenon DEF ReloadSwap
<1> QED
  BY Zenon, <1>1, <1>2, <1>3, <1>4, <1>5, <1>6, <1>7, <1>8, <1>9, <1>10, <1>11, <1>12,
     <1>13, <1>14, <1>15, <1>16, <1>17, <1>18, <1>19, <1>20, <1>21, <1>22, <1>23,
     <1>24, <1>25, <1>26, <1>27, Zenon
  DEF Next, PrimaryStep, HubStep, ReplicaStep, ReloadStep

(* The primary's file is made of units; without a torn frame they are      *)
(* those of its frames.                                                    *)
LEMMA FileType ==
  ASSUME Plain
  PROVE  /\ File \in Seq(Units) /\ Len(File) \in Nat
         /\ tail = <<>> => File = Bytes(wal) /\ Len(File) = 2 * Len(wal)
<1>1. Bytes(wal) \in Seq(Units) /\ Len(Bytes(wal)) = 2 * Len(wal) /\ tail \in Seq(Units)
  BY Zenon, BytesType DEF Plain
<1> DEFINE b == Bytes(wal)
<1>2. b \in Seq(Units) /\ tail \in Seq(Units)
  BY Zenon, <1>1
<1>3. File = b \o tail
  BY Zenon DEF File
<1> HIDE DEF b
<1>4. b \o tail \in Seq(Units) /\ Len(b \o tail) \in Nat
  BY ONLY <1>2
<1>5. b \o <<>> = b
  BY ONLY <1>2
<1> QED BY Zenon, <1>1, <1>3, <1>4, <1>5 DEF b

(* What a read of the hub sends is what follows the replica's WAL in the   *)
(* primary's.                                                              *)
LEMMA ReadUnits ==
  ASSUME Plain, Session, stream # NoStream,
         NEW n \in Cut(Len(File) - stream.offset) \ {0},
         NEW u, u = SubSeq(File, stream.offset + 1, stream.offset + n)
  PROVE  /\ n \in Nat \ {0} /\ u \in Seq(Units) /\ Len(u) = n
         /\ Len(rwal) + n <= Len(File)
         /\ \A i \in 1..n : u[i] = File[Len(rwal) + i]
<1> DEFINE b == File
           o == Len(rwal)
<1>1. o \in Nat /\ stream.offset = o
  BY DEF Plain, Session
<1>3. b \in Seq(Units) /\ Len(b) \in Nat
  BY Zenon, FileType
<1>2. n \in Nat \ {0} /\ o + n <= Len(b)
  BY <1>1, <1>3 DEF Cut
<1>4. u = SubSeq(b, o + 1, o + n)
  BY Zenon, <1>1
<1> HIDE DEF b, o
<1>5. \A i \in (o + 1)..(o + n) : b[i] \in Units
  BY <1>1, <1>2, <1>3
<1>6. u \in Seq(Units) /\ Len(u) = n /\ \A i \in 1..n : u[i] = b[o + i]
  <2>1. o + 1 \in Int /\ o + n \in Int /\ o + 1 <= o + n /\ (o + n) - (o + 1) + 1 = n
    BY <1>1, <1>2
  <2>2. \A i \in 1..n : (o + 1) + i - 1 = o + i
    BY <1>1, <1>2
  <2>3. /\ SubSeq(b, o + 1, o + n) \in Seq(Units)
        /\ Len(SubSeq(b, o + 1, o + n)) = (o + n) - (o + 1) + 1
        /\ \A i \in 1..((o + n) - (o + 1) + 1) : SubSeq(b, o + 1, o + n)[i] = b[(o + 1) + i - 1]
    BY <1>3, <1>5, <2>1, SubSeqIs
  <2> QED BY ZenonT(60), <1>4, <2>1, <2>2, <2>3
<1> QED BY Zenon, <1>2, <1>6 DEF b, o

(* A prefix of a sequence.                                                 *)
LEMMA Front ==
  ASSUME NEW S, NEW x \in Seq(S), NEW k \in 0..Len(x)
  PROVE  /\ SubSeq(x, 1, k) \in Seq(S) /\ Len(SubSeq(x, 1, k)) = k
         /\ \A i \in 1..k : SubSeq(x, 1, k)[i] = x[i]
BY SMTT(60)

(* How the end of a session leaves the replica, flags apart.               *)
LEMMA SessionEnds ==
  ASSUME EndSession
  PROVE  rpc' = "idle" /\ carry' = <<>> /\ rsnap' = rsnap /\ body' = body
BY Zenon DEF EndSession

(* A handler that goes on keeps its generation and its offset.             *)
LEMMA HandlerMoves ==
  ASSUME stream \in StreamType,
         NEW p \in {"open", "header", "check", "read", "eof", "park", "waiting"}
  PROVE  /\ [stream EXCEPT !.pc = p] \in StreamType
         /\ [stream EXCEPT !.pc = p].pc = p
         /\ [stream EXCEPT !.pc = p].startGen = stream.startGen
         /\ [stream EXCEPT !.pc = p].offset = stream.offset
BY Zenon DEF StreamType

(* A broadcast lets no handler skip its header.                            *)
LEMMA BroadcastKeeps ==
  ASSUME Plain, Session, Broadcast
  PROVE  /\ stream' \in StreamType \cup {NoStream} /\ zombies' = 0
         /\ stream' # NoStream =>
              /\ stream # NoStream /\ stream'.offset = stream.offset
              /\ stream'.pc \notin {"open", "header"} => rpc = "stream"
<1>1. CASE stream # NoStream /\ stream.pc = "waiting"
  <2>1. stream' = [stream EXCEPT !.pc = "check"] /\ zombies' = 0
    BY Zenon, <1>1 DEF Broadcast
  <2>2. stream \in StreamType /\ rpc = "stream"
    BY Zenon, <1>1 DEF Plain, Session
  <2> QED BY Zenon, <1>1, <2>1, <2>2, HandlerMoves
<1>2. CASE ~(stream # NoStream /\ stream.pc = "waiting")
  BY Zenon, <1>2 DEF Broadcast, Plain, Session
<1> QED BY Zenon, <1>1, <1>2

(* A sequence that grows by one of its kind.                               *)
LEMMA AppendMadeOf ==
  ASSUME NEW S, NEW P, NEW x \in Seq(S), NEW e \in S
  PROVE  /\ Append(x, e) \in Seq(S)
         /\ (e \in P /\ \A i \in 1..Len(x) : x[i] \in P)
              => \A i \in 1..Len(Append(x, e)) : Append(x, e)[i] \in P
<1>1. /\ Append(x, e) \in Seq(S) /\ Len(Append(x, e)) = Len(x) + 1 /\ Len(x) \in Nat
      /\ Append(x, e)[Len(x) + 1] = e
      /\ \A i \in 1..Len(x) : Append(x, e)[i] = x[i]
  BY SMTT(60)
<1> DEFINE y == Append(x, e)
<1> HIDE DEF y
<1>2. ASSUME e \in P, \A i \in 1..Len(x) : x[i] \in P, NEW i \in 1..Len(y) PROVE y[i] \in P
  <2>1. i \in 1..Len(x) \/ i = Len(x) + 1
    BY <1>1 DEF y
  <2> QED BY Zenon, <1>1, <1>2, <2>1 DEF y
<1> QED BY Zenon, <1>1, <1>2 DEF y

(* The units of one frame.                                                 *)
LEMMA OneFrame ==
  ASSUME NEW f \in Frames, NEW t \in Seq(Units)
  PROVE  /\ Bytes(<<f>>) \in Seq(Units) /\ t \o Bytes(<<f>>) \in Seq(Units)
         /\ \A i \in 1..Len(Bytes(<<f>>)) : Bytes(<<f>>)[i].f = f
<1>1. <<f>> \in Seq(Frames) /\ Len(<<f>>) = 1 /\ <<f>>[1] = f
  BY SMTT(60)
<1> DEFINE g == <<f>>
           b == Bytes(g)
<1>0. g \in Seq(Frames) /\ 2 * Len(g) = 2
  BY <1>1
<1>2. /\ b \in Seq(Units) /\ Len(b) = 2
      /\ \A i \in 1..2 : b[i] = Unit(g[(i + 1) \div 2], IF i % 2 = 1 THEN 1 ELSE 2)
  <2> HIDE DEF g
  <2> QED BY Zenon, <1>0, BytesType
<1>3. \A i \in 1..2 : (i + 1) \div 2 = 1
  BY SMTT(60)
<1>4. \A i \in 1..2 : b[i].f = f
  BY <1>1, <1>2, <1>3 DEF Unit
<1> HIDE DEF b
<1>5. t \o b \in Seq(Units)
  BY <1>2
<1> QED BY Zenon, <1>2, <1>4, <1>5 DEF b

(* The primary's live tree is made of the frames it appended.              *)
LEMMA PrimaryLog == ASSUME Plain PROVE wal \o behind \in Seq(Frames)
BY SMTT(60) DEF Plain

(* What a crash leaves of the primary's WAL.                               *)
LEMMA CrashLeaves ==
  ASSUME Plain, NEW k \in Cut(Len(File)), NEW x, x = SubSeq(File, 1, k)
  PROVE  /\ k \in Nat /\ x \in Seq(Units)
         /\ FramesIn(x) \in Seq(Frames) /\ Rest(x) \in Seq(Units)
         /\ \A i \in 1..Len(x) : i \in 1..Len(File) /\ x[i] = File[i]
<1>1. File \in Seq(Units) /\ Len(File) \in Nat /\ k \in 0..Len(File)
  BY Zenon, FileType DEF Cut
<1> DEFINE b == File
<1> HIDE DEF b
<1>2. b \in Seq(Units) /\ k \in 0..Len(b) /\ x = SubSeq(b, 1, k) /\ Len(b) \in Nat
  BY Zenon, <1>1 DEF b
<1>3. /\ x \in Seq(Units) /\ Len(x) = k
      /\ \A i \in 1..k : x[i] = b[i]
  BY Zenon, <1>2, Front
<1>4. k \in Nat /\ \A i \in 1..k : i \in 1..Len(b)
  BY <1>2
<1> QED BY Zenon, <1>3, <1>4, FramesInType, RestType DEF b

(* Every step keeps the types and the state of the session.                *)
LEMMA PlainKept == ASSUME Plain, Session, [Next]_vars PROVE Plain' /\ Session'
<1> USE ReplicationAssumption DEF Plain, Session, StreamType
<1>1. CASE UNCHANGED vars
  BY <1>1 DEF vars, primaryVars, hubVars, replicaVars, restVars, historyVars, boundVars
<1>2. CASE \E f \in Mutations : Append1(f)
  <2>1. PICK f \in Mutations : Append1(f)
    BY Zenon, <1>2
  <2>2. f \in Frames /\ past' \subseteq Frames
    BY <2>1 DEF Append1
  <2>3. wal' \in {wal, Append(wal, f)} /\ tail' \in {tail, tail \o Bytes(<<f>>)}
        /\ behind' \in {behind, Append(behind, f)}
    BY Zenon, <2>1 DEF Append1
  <2>4. wal' \in Seq(Frames) /\ behind' \in Seq(Frames)
    <3>1. wal \in Seq(Frames) /\ behind \in Seq(Frames)
      BY Zenon
    <3>2. Append(wal, f) \in Seq(Frames) /\ Append(behind, f) \in Seq(Frames)
      BY ONLY <2>2, <3>1
    <3> QED BY ONLY <2>3, <3>1, <3>2, Zenon
  <2>5. tail' \in Seq(Units)
    <3>1. tail \in Seq(Units)
      BY Zenon
    <3>2. tail \o Bytes(<<f>>) \in Seq(Units)
      BY Zenon, <2>2, <3>1, OneFrame
    <3> QED BY ONLY <2>3, <3>1, <3>2, Zenon
  <2> QED BY <2>1, <2>2, <2>4, <2>5 DEF Append1, hubVars, replicaVars
<1>3. CASE CompactRename
  <2>1. snap' \in Trees
    BY Zenon, <1>3, ReplayType, PrimaryLog DEF CompactRename, PrimaryTree
  <2> QED BY <1>3, <2>1 DEF CompactRename, hubVars, replicaVars, historyVars
<1>4. CASE NotifyFlush
  <2>1. Broadcast
    BY Zenon, <1>4 DEF NotifyFlush
  <2>2. synced' \in Nat
    BY Zenon, <1>4, FileType DEF NotifyFlush
  <2> QED BY <1>4, <2>1, <2>2, BroadcastKeeps DEF NotifyFlush, replicaVars, restVars, historyVars, boundVars
<1>5. CASE CompactTruncate
  BY <1>5 DEF CompactTruncate, hubVars, replicaVars, restVars, historyVars, boundVars
<1>6. CASE NotifyCompaction
  <2>1. Broadcast
    BY Zenon, <1>6 DEF NotifyCompaction
  <2> QED BY <1>6, <2>1, BroadcastKeeps DEF NotifyCompaction, replicaVars, restVars, historyVars, boundVars
<1>7. CASE PrimaryCrash
  <2>1. PICK k \in Cut(Len(File)) :
           /\ wal' = FramesIn(SubSeq(File, 1, k)) /\ tail' = Rest(SubSeq(File, 1, k))
           /\ synced' = k /\ ppc' \in {"idle", "refused"}
    BY Zenon, <1>7 DEF PrimaryCrash
  <2>2. wal' \in Seq(Frames) /\ tail' \in Seq(Units) /\ synced' \in Nat
    BY Zenon, <2>1, CrashLeaves
  <2>3. rpc' \in {rpc, "idle"} /\ carry' \in Seq(Units) /\ rsnap' = rsnap /\ body' = body
    <3>1. (rpc = "stream" /\ EndSession) \/ UNCHANGED <<rsnap, rpc, body, carry>>
      BY <1>7, Zenon DEF PrimaryCrash
    <3>2. CASE EndSession
      BY <3>2, SessionEnds
    <3> QED BY Zenon, <3>1, <3>2
  <2> QED BY <1>7, <2>1, <2>2, <2>3 DEF PrimaryCrash
<1>8. CASE OpenStream
  BY ZenonT(60), <1>8 DEF OpenStream, primaryVars, restVars, historyVars, boundVars
<1>9. CASE SendHeader
  <2>1. CASE stream' = NoStream /\ rpc' = "fetch" /\ zombies' \in {zombies, zombies + 1}
    <3>1. zombies' \in 0..MaxStreams
      <4>1. zombies \in 0..MaxStreams /\ (zombies' = zombies + 1 => zombies < MaxStreams)
        BY Zenon, <1>9, <2>1 DEF SendHeader, ClientGone
      <4> QED BY ONLY <2>1, <4>1, ReplicationAssumption
    <3>2. UNCHANGED <<primaryVars, rsnap, rwal, rtree, body, carry, restVars>>
      BY <1>9, Zenon DEF SendHeader
    <3> QED BY Zenon, <2>1, <3>1, <3>2 DEF primaryVars, restVars, historyVars, boundVars
  <2>2. CASE stream' = [stream EXCEPT !.pc = "check"] /\ rpc' = "stream" /\ zombies' = zombies
    BY ZenonT(60), <1>9, <2>2 DEF SendHeader, primaryVars, restVars, historyVars, boundVars
  <2>3. SendHeader => \/ stream' = NoStream /\ rpc' = "fetch" /\ zombies' \in {zombies, zombies + 1}
                      \/ stream' = [stream EXCEPT !.pc = "check"] /\ rpc' = "stream" /\ zombies' = zombies
    BY Zenon DEF SendHeader, ClientGone
  <2> QED BY Zenon, <1>9, <2>1, <2>2, <2>3
<1>10. CASE CheckGeneration
  <2>1. CASE stream' = NoStream /\ EndSession
    BY <1>10, <2>1, SessionEnds DEF CheckGeneration, primaryVars, boundVars
  <2>2. CASE stream' = [stream EXCEPT !.pc = "read"] /\ UNCHANGED <<rsnap, rpc, body, carry>>
    BY ZenonT(60), <1>10, <2>2 DEF CheckGeneration, primaryVars, boundVars
  <2> QED BY Zenon, <1>10, <2>1, <2>2 DEF CheckGeneration
<1>12. CASE AtEOF
  <2>1. CASE stream' = NoStream /\ EndSession
    BY <1>12, <2>1, SessionEnds DEF AtEOF, primaryVars, boundVars
  <2>2. CASE /\ stream' = [stream EXCEPT
                  !.pc = IF Len(File) > stream.offset THEN "check" ELSE "park"]
             /\ UNCHANGED <<rsnap, rpc, body, carry>>
    BY Zenon, <1>12, <2>2 DEF AtEOF, primaryVars, boundVars
  <2> QED BY Zenon, <1>12, <2>1, <2>2 DEF AtEOF
<1>13. CASE Wait
  BY ZenonT(60), <1>13 DEF Wait, primaryVars, replicaVars, restVars, historyVars, boundVars
<1>14. CASE Disconnect
  BY <1>14 DEF Disconnect, ClientGone, EndSession, primaryVars
<1>15. CASE Connect
  BY <1>15 DEF Connect, primaryVars, replicaVars, restVars, historyVars, boundVars
<1>16. CASE FetchSnapshot
  BY Zenon, <1>16 DEF FetchSnapshot, primaryVars, hubVars, restVars, historyVars, boundVars
<1>17. CASE VerifySnapshot
  BY Zenon, <1>17 DEF VerifySnapshot, primaryVars, hubVars, restVars, historyVars, boundVars
<1>18. CASE RenameSnapshot
  BY Zenon, <1>18 DEF RenameSnapshot, primaryVars, hubVars, restVars, historyVars, boundVars
<1>19. CASE RemoveWAL
  BY <1>19 DEF RemoveWAL, primaryVars, hubVars, restVars, historyVars, boundVars
<1>20. CASE SwapTree
  BY Zenon, <1>20 DEF SwapTree, primaryVars, hubVars, boundVars
<1>21. CASE ReplicaStart
  <2>1. rtree' \in Trees
    BY Zenon, <1>21, EmptyTreeType, FramesInType, ReplayType DEF ReplicaStart
  <2> QED BY Zenon, <1>21, <2>1 DEF ReplicaStart, primaryVars, hubVars, restVars, historyVars, boundVars
<1>22. CASE ReplicaRefused
  BY Zenon, <1>22 DEF ReplicaRefused, primaryVars, hubVars, restVars, historyVars, boundVars
<1>23. CASE FetchFails
  BY Zenon, <1>23 DEF FetchFails, primaryVars, hubVars, historyVars
<1>24. CASE ReplicaCrash
  <2>1. PICK k \in Cut(Len(rwal)) : rwal' = SubSeq(rwal, 1, k)
    BY ZenonT(60), <1>24 DEF ReplicaCrash
  <2>2. rwal' \in Seq(Units)
    BY Zenon, <2>1, Front DEF Cut
  <2>3. reload' \in [pc : {"idle", "loaded", "replayed"}, tree : Trees]
    BY Zenon, <1>24, EmptyTreeType DEF ReplicaCrash, NoReload
  <2> QED BY <1>24, <2>2, <2>3, EmptyTreeType DEF ReplicaCrash, ClientGone, primaryVars
<1>25. CASE ReloadSnapshot
  <2>1. reload' \in [pc : {"idle", "loaded", "replayed"}, tree : Trees]
    BY Zenon, <1>25, EmptyTreeType DEF ReloadSnapshot
  <2> QED BY Zenon, <1>25, <2>1 DEF ReloadSnapshot, primaryVars, hubVars, replicaVars, historyVars
<1>26. CASE ReloadWAL
  <2>1. reload' \in [pc : {"idle", "loaded", "replayed"}, tree : Trees]
    BY Zenon, <1>26, EmptyTreeType, FramesInType, ReplayType DEF ReloadWAL, NoReload
  <2> QED BY Zenon, <1>26, <2>1 DEF ReloadWAL, primaryVars, hubVars, replicaVars, historyVars, boundVars
<1>27. CASE ReloadSwap
  <2>1. reload' \in [pc : {"idle", "loaded", "replayed"}, tree : Trees]
    BY Zenon, <1>27, EmptyTreeType DEF ReloadSwap, NoReload
  <2>2. rtree' \in Trees
    BY Zenon, <1>27 DEF ReloadSwap
  <2> QED BY Zenon, <1>27, <2>1, <2>2 DEF ReloadSwap, primaryVars, hubVars, boundVars
<1>11. CASE ReadWAL
  <2>0. stream # NoStream /\ UNCHANGED <<primaryVars, reload, past, boundVars>>
    BY Zenon, <1>11 DEF ReadWAL
  <2>1. CASE stream.offset >= Len(File) /\ stream' = [stream EXCEPT !.pc = "eof"]
             /\ UNCHANGED <<zombies, replicaVars>>
    BY ZenonT(60), <1>11, <2>0, <2>1 DEF ReadWAL, primaryVars, replicaVars, boundVars
  <2>2. ASSUME NEW n \in Cut(Len(File) - stream.offset) \ {0},
               Receive(SubSeq(File, stream.offset + 1, stream.offset + n))
        PROVE  Plain' /\ Session'
    <3> DEFINE u == SubSeq(File, stream.offset + 1, stream.offset + n)
    <3>1. n \in Nat \ {0} /\ u \in Seq(Units) /\ Len(u) = n
      BY ZenonT(60), <2>0, ReadUnits
    <3>2. Receive(u)
      BY Zenon, <2>2
    <3> HIDE DEF u
    <3>3. rwal' \in Seq(Units) /\ Len(rwal') = Len(rwal) + n /\ carry \o u \in Seq(Units)
      <4>1. rwal' = rwal \o u
        BY Zenon, <3>2 DEF Receive
      <4>2. u \in Seq(Units) /\ Len(u) = n /\ rwal \in Seq(Units) /\ carry \in Seq(Units)
        BY Zenon, <3>1
      <4>3. rwal \o u \in Seq(Units)
        BY ONLY <4>2
      <4>4. Len(rwal \o u) = Len(rwal) + Len(u)
        BY ONLY <4>2
      <4>5. carry \o u \in Seq(Units)
        BY ONLY <4>2
      <4> QED BY Zenon, <4>1, <4>2, <4>3, <4>4, <4>5
    <3>4. rtree' \in Trees
      BY ZenonT(60), <3>2, <3>3, FramesInType, ReplayType DEF Receive
    <3>5. CASE /\ carry' = Rest(carry \o u)
               /\ stream' = [stream EXCEPT !.pc = "check", !.offset = @ + Len(u)]
               /\ UNCHANGED <<rsnap, rpc, body, zombies>>
      <4>1. carry' \in Seq(Units)
        BY ZenonT(60), <3>3, <3>5, RestType
      <4>2. stream' \in StreamType /\ stream'.pc = "check" /\ stream'.offset = stream.offset + n
        <5>1. stream \in StreamType /\ stream.offset \in Nat /\ stream.offset + Len(u) \in Nat
          BY <2>0, <3>1
        <5> QED BY ZenonT(60), <3>1, <3>5, <5>1
      <4> QED BY ZenonT(60), <1>11, <2>0, <3>3, <3>4, <3>5, <4>1, <4>2 DEF ReadWAL, primaryVars, boundVars
    <3>6. CASE EndSession /\ ClientGone
      <4>1. zombies' \in {zombies, zombies + 1} /\ stream' = NoStream
        BY Zenon, <3>6 DEF ClientGone
      <4>2. zombies' \in 0..MaxStreams
        BY <2>0, <4>1
      <4> QED BY <2>0, <3>3, <3>4, <3>6, <4>1, <4>2, SessionEnds DEF primaryVars, boundVars
    <3> QED BY Zenon, <3>2, <3>5, <3>6 DEF Receive
  <2> QED BY ZenonT(60), <1>11, <2>1, <2>2 DEF ReadWAL
<1> QED
  BY <1>1, <1>2, <1>3, <1>4, <1>5, <1>6, <1>7, <1>8, <1>9, <1>10, <1>11, <1>12,
     <1>13, <1>14, <1>15, <1>16, <1>17, <1>18, <1>19, <1>20, <1>21, <1>22, <1>23,
     <1>24, <1>25, <1>26, <1>27, Zenon
  DEF Next, PrimaryStep, HubStep, ReplicaStep, ReloadStep

-----------------------------------------------------------------------------
(* Nothing is invented                                                     *)

(* Replaying frames of a set over a tree made of them gives such a tree.   *)
LEMMA ReplayMadeOf ==
  ASSUME NEW P, NEW t \in Trees, NEW log \in Seq(Frames),
         \A d \in Domains : Frame(d, t[d]) \in P,
         \A i \in 1..Len(log) : log[i] \in P
  PROVE  \A d \in Domains : Frame(d, Replay(t, log)[d]) \in P
<1> SUFFICES ASSUME NEW d \in Domains PROVE Frame(d, Replay(t, log)[d]) \in P
  BY ZenonT(60)
<1>1. CASE \E i \in 1..Len(log) : log[i].d = d
  <2>1. PICK m \in 1..Len(log) : IsLast(log, d, m)
    BY Zenon, <1>1, LastExists
  <2>2. Replay(t, log)[d] = log[m].rr /\ log[m].d = d
    BY <2>1, ReplayLast DEF IsLast
  <2>3. log[m] \in Frames /\ log[m] \in P
    BY SMTT(60)
  <2> QED BY <2>2, <2>3, FrameType
<1>2. CASE \A i \in 1..Len(log) : log[i].d # d
  BY <1>2, ReplayUntouched
<1> QED BY Zenon, <1>1, <1>2

(* The frames decoded, and the rest, come from the units.                  *)
LEMMA DecodedMadeOf ==
  ASSUME NEW P, NEW x \in Seq(Units), \A i \in 1..Len(x) : x[i].f \in P
  PROVE  /\ \A i \in 1..Len(FramesIn(x)) : FramesIn(x)[i] \in P
         /\ \A i \in 1..Len(Rest(x)) : Rest(x)[i].f \in P
<1>1. Decoded(x) \in Nat /\ 2 * Decoded(x) <= Len(x) /\ Len(x) \in Nat
  BY DecodedExists
<1>2. \A i \in 1..Len(FramesIn(x)) : FramesIn(x)[i] \in P
  BY ZenonT(60), FramesInType
<1>3. \A i \in 1..Len(Rest(x)) : Rest(x)[i].f \in P
  <2> DEFINE k == 2 * Decoded(x)
  <2>1. k \in Nat /\ k <= Len(x) /\ Rest(x) = SubSeq(x, k + 1, Len(x))
    BY <1>1 DEF Rest
  <2> HIDE DEF k
  <2>2. Len(Rest(x)) = Len(x) - k /\ \A i \in 1..(Len(x) - k) : Rest(x)[i] = x[k + i]
    BY <1>1, <2>1
  <2> QED BY <1>1, <2>1, <2>2
<1> QED BY Zenon, <1>2, <1>3

(* Units received after others.                                            *)
LEMMA ConcatMadeOf ==
  ASSUME NEW P, NEW x \in Seq(Units), NEW y \in Seq(Units),
         \A i \in 1..Len(x) : x[i].f \in P, \A i \in 1..Len(y) : y[i].f \in P
  PROVE  x \o y \in Seq(Units) /\ \A i \in 1..Len(x \o y) : (x \o y)[i].f \in P
<1> DEFINE z == x \o y
<1>1. /\ z \in Seq(Units) /\ Len(z) = Len(x) + Len(y)
      /\ Len(x) \in Nat /\ Len(y) \in Nat
  BY SMTT(60)
<1>2. \A i \in 1..Len(x) : z[i] = x[i]
  BY SMTT(60)
<1>3. \A i \in 1..Len(y) : z[Len(x) + i] = y[i]
  BY SMTT(60)
<1> HIDE DEF z
<1>4. ASSUME NEW i \in 1..Len(z) PROVE z[i].f \in P
  <2>1. CASE i <= Len(x)
    BY <1>1, <1>2, <2>1
  <2>2. CASE i > Len(x)
    <3>1. i - Len(x) \in 1..Len(y) /\ i = Len(x) + (i - Len(x))
      BY <1>1, <2>2
    <3>2. z[i] = y[i - Len(x)]
      BY Zenon, <1>3, <3>1
    <3> QED BY Zenon, <3>1, <3>2
  <2> QED BY <1>1, <2>1, <2>2
<1> QED BY Zenon, <1>1, <1>4 DEF z

(* The primary's file comes from frames it held.                           *)
LEMMA FileMadeOf ==
  ASSUME Plain, Held PROVE \A i \in 1..Len(File) : File[i].f \in past
<1> DEFINE b == Bytes(wal)
<1>1. wal \in Seq(Frames) /\ tail \in Seq(Units) /\ Len(wal) \in Nat
  BY DEF Plain
<1>2. b \in Seq(Units) /\ Len(b) = 2 * Len(wal)
  BY Zenon, <1>1, BytesType
<1>3. ASSUME NEW i \in 1..Len(b) PROVE b[i].f \in past
  <2>1. i \in 1..(2 * Len(wal)) /\ (i + 1) \div 2 \in 1..Len(wal)
    <3> HIDE DEF b
    <3> QED BY <1>1, <1>2
  <2>2. b[i] = Unit(wal[(i + 1) \div 2], IF i % 2 = 1 THEN 1 ELSE 2)
    BY Zenon, <1>1, <2>1, BytesType
  <2>3. b[i].f = wal[(i + 1) \div 2]
    <3> HIDE DEF b
    <3> QED BY <2>2 DEF Unit
  <2> QED BY Zenon, <2>1, <2>3 DEF Held
<1>4. \A i \in 1..Len(tail) : tail[i].f \in past
  BY Zenon DEF Held
<1> HIDE DEF b
<1>5. \A i \in 1..Len(b \o tail) : (b \o tail)[i].f \in past
  BY Zenon, <1>1, <1>2, <1>3, <1>4, ConcatMadeOf
<1> QED BY Zenon, <1>5 DEF File, b

(* The initial tree holds nothing.                                         *)
LEMMA EmptyKnown == ASSUME Held PROVE Known(EmptyTree)
BY ZenonT(60) DEF Held, Known, EmptyTree

(* Every step leaves only frames in files and trees that the primary held. *)
LEMMA HeldKept ==
  ASSUME Plain, Session, Held, [Next]_vars PROVE Held'
<1> USE DEF Held, Known
<1>1. CASE UNCHANGED vars
  BY ZenonT(60), <1>1 DEF vars, primaryVars, replicaVars, restVars, historyVars
<1>2. CASE \E f \in Mutations : Append1(f)
  <2>1. PICK f \in Mutations : Append1(f)
    BY Zenon, <1>2
  <2>2. /\ past' = past \cup {f} /\ UNCHANGED <<snap, replicaVars, reload>>
        /\ wal' \in {wal, Append(wal, f)} /\ tail' \in {tail, tail \o Bytes(<<f>>)}
        /\ behind' \in {behind, Append(behind, f)}
    BY ZenonT(60), <2>1 DEF Append1
  <2>0. wal \in Seq(Frames) /\ f \in Frames /\ tail \in Seq(Units) /\ behind \in Seq(Frames)
    BY Zenon, ReplicationAssumption DEF Plain
  <2>6. /\ f \in past' /\ \A i \in 1..Len(wal) : wal[i] \in past'
        /\ \A i \in 1..Len(behind) : behind[i] \in past'
    BY Zenon, <2>2
  <2>3. \A i \in 1..Len(wal') : wal'[i] \in past'
    <3>1. \A i \in 1..Len(Append(wal, f)) : Append(wal, f)[i] \in past'
      BY ONLY <2>0, <2>6, AppendMadeOf, Zenon
    <3> QED BY ONLY <2>2, <2>6, <3>1
  <2>4. \A i \in 1..Len(behind') : behind'[i] \in past'
    <3>1. \A i \in 1..Len(Append(behind, f)) : Append(behind, f)[i] \in past'
      BY ONLY <2>0, <2>6, AppendMadeOf, Zenon
    <3> QED BY ONLY <2>2, <2>6, <3>1
  <2>5. \A i \in 1..Len(tail') : tail'[i].f \in past'
    <3>1. CASE tail' = tail
      BY Zenon, <2>2, <3>1
    <3>2. CASE tail' = tail \o Bytes(<<f>>)
      <4> DEFINE b == Bytes(<<f>>)
      <4>1. b \in Seq(Units) /\ \A i \in 1..Len(b) : b[i].f \in past'
        BY Zenon, <2>0, <2>2, OneFrame
      <4>2. \A i \in 1..Len(tail) : tail[i].f \in past'
        BY Zenon, <2>2
      <4> HIDE DEF b
      <4>3. \A i \in 1..Len(tail \o b) : (tail \o b)[i].f \in past'
        BY Zenon, <2>0, <4>1, <4>2, ConcatMadeOf
      <4> QED BY Zenon, <3>2, <4>3 DEF b
    <3> QED BY Zenon, <2>2, <3>1, <3>2
  <2> QED BY Zenon, <2>2, <2>3, <2>4, <2>5 DEF replicaVars
<1>3. CASE CompactRename
  <2>1. snap' = Replay(snap, wal \o behind) /\ UNCHANGED <<wal, tail, behind, replicaVars, reload, past>>
    BY <1>3, Zenon DEF CompactRename, PrimaryTree, historyVars
  <2>2. /\ snap \in Trees /\ wal \o behind \in Seq(Frames)
        /\ \A i \in 1..Len(wal \o behind) : (wal \o behind)[i] \in past
    <3>1. wal \in Seq(Frames) /\ behind \in Seq(Frames)
      BY Zenon DEF Plain
    <3>2. \A i \in 1..Len(wal \o behind) : (wal \o behind)[i] \in past
      BY <3>1
    <3> QED BY Zenon, <3>2, PrimaryLog DEF Plain
  <2>3. \A d \in Domains : Frame(d, snap'[d]) \in past
    BY ZenonT(60), <2>1, <2>2, ReplayMadeOf
  <2> QED BY Zenon, <2>1, <2>3 DEF replicaVars
<1>4. CASE NotifyFlush
  BY ZenonT(60), <1>4 DEF NotifyFlush, replicaVars, restVars, historyVars
<1>5. CASE CompactTruncate
  BY <1>5 DEF CompactTruncate, replicaVars, restVars, historyVars
<1>6. CASE NotifyCompaction
  BY Zenon, <1>6 DEF NotifyCompaction, replicaVars, restVars, historyVars
<1>7. CASE PrimaryCrash
  <2>1. PICK k \in Cut(Len(File)) :
           wal' = FramesIn(SubSeq(File, 1, k)) /\ tail' = Rest(SubSeq(File, 1, k))
    BY Zenon, <1>7 DEF PrimaryCrash
  <2>2. /\ \A i \in 1..Len(wal') : wal'[i] \in past
        /\ \A i \in 1..Len(tail') : tail'[i].f \in past
    <3> DEFINE x == SubSeq(File, 1, k)
    <3>1. x \in Seq(Units) /\ \A i \in 1..Len(x) : i \in 1..Len(File) /\ x[i] = File[i]
      BY Zenon, CrashLeaves
    <3> HIDE DEF x
    <3>2. \A i \in 1..Len(x) : x[i].f \in past
      BY Zenon, <3>1, FileMadeOf
    <3> QED BY Zenon, <2>1, <3>1, <3>2, DecodedMadeOf DEF x
  <2>3. carry' \in {carry, <<>>} /\ rsnap' = rsnap /\ body' = body
    BY <1>7, Zenon DEF PrimaryCrash, EndSession
  <2>4. UNCHANGED <<snap, rwal, rtree, reload, past>> /\ behind' = <<>>
    BY <1>7, Zenon DEF PrimaryCrash
  <2> QED BY <2>2, <2>3, <2>4
<1>8. CASE OpenStream
  BY Zenon, <1>8 DEF OpenStream, primaryVars, restVars, historyVars
<1>9. CASE SendHeader
  <2>1. UNCHANGED <<snap, wal, tail, behind, rsnap, rwal, rtree, body, carry, reload, past>>
    BY <1>9, Zenon DEF SendHeader, primaryVars, restVars, historyVars
  <2> QED BY Zenon, <2>1
<1>10. CASE CheckGeneration
  <2>1. UNCHANGED <<snap, wal, tail, behind, rsnap, rwal, rtree, body, reload, past>> /\ carry' \in {carry, <<>>}
    BY <1>10, Zenon DEF CheckGeneration, EndSession, primaryVars
  <2> QED BY <2>1
<1>11. CASE ReadWAL
  <2>0. stream # NoStream /\ UNCHANGED <<snap, wal, tail, behind, reload, past>>
    BY <1>11, Zenon DEF ReadWAL, primaryVars
  <2>1. CASE UNCHANGED replicaVars
    BY Zenon, <2>0, <2>1 DEF replicaVars
  <2>2. ASSUME NEW n \in Cut(Len(File) - stream.offset) \ {0},
               Receive(SubSeq(File, stream.offset + 1, stream.offset + n))
        PROVE  Held'
    <3> DEFINE u == SubSeq(File, stream.offset + 1, stream.offset + n)
               x == carry \o u
    <3>1. /\ n \in Nat \ {0} /\ u \in Seq(Units) /\ Len(u) = n
          /\ Len(rwal) + n <= Len(File)
          /\ \A i \in 1..n : u[i] = File[Len(rwal) + i]
      BY ZenonT(60), <2>0, ReadUnits
    <3>2. /\ rwal' = rwal \o u /\ rtree' = Replay(rtree, FramesIn(x))
          /\ rsnap' = rsnap /\ body' = body /\ carry' \in {Rest(x), <<>>}
      BY <2>2, Zenon DEF Receive, EndSession
    <3> HIDE DEF u
    <3>3. rwal \in Seq(Units) /\ carry \in Seq(Units) /\ rtree \in Trees
      BY Zenon DEF Plain
    <3>4. \A i \in 1..n : u[i].f \in past
      <4> SUFFICES ASSUME NEW i \in 1..n PROVE u[i].f \in past
        BY Zenon
      <4>1. Len(rwal) \in Nat /\ Len(File) \in Nat
        BY <3>3, FileType
      <4>2. Len(rwal) + i \in 1..Len(File)
        BY <3>1, <4>1
      <4> QED BY Zenon, <3>1, <4>2, FileMadeOf
    <3>5. \A i \in 1..Len(rwal') : rwal'[i].f \in past
      <4>1. \A i \in 1..Len(u) : u[i].f \in past
        BY Zenon, <3>1, <3>4
      <4> QED BY Zenon, <3>1, <3>2, <3>3, <4>1, ConcatMadeOf
    <3>6. x \in Seq(Units) /\ \A i \in 1..Len(x) : x[i].f \in past
      <4>1. \A i \in 1..Len(u) : u[i].f \in past
        BY <3>1, <3>4
      <4> QED BY ZenonT(60), <3>1, <3>3, <4>1, ConcatMadeOf
    <3> HIDE DEF x
    <3>7. /\ \A i \in 1..Len(FramesIn(x)) : FramesIn(x)[i] \in past
          /\ \A i \in 1..Len(Rest(x)) : Rest(x)[i].f \in past
      BY ZenonT(60), <3>6, DecodedMadeOf
    <3>8. \A d \in Domains : Frame(d, rtree'[d]) \in past
      BY ZenonT(60), <3>2, <3>3, <3>6, <3>7, FramesInType, ReplayMadeOf
    <3>9. \A i \in 1..Len(carry') : carry'[i].f \in past
      BY <3>2, <3>7
    <3> QED BY Zenon, <2>0, <3>2, <3>5, <3>8, <3>9
  <2> QED BY Zenon, <1>11, <2>1, <2>2 DEF ReadWAL
<1>12. CASE AtEOF
  <2>1. UNCHANGED <<snap, wal, tail, behind, rsnap, rwal, rtree, body, reload, past>> /\ carry' \in {carry, <<>>}
    BY <1>12, Zenon DEF AtEOF, EndSession, primaryVars
  <2> QED BY <2>1
<1>13. CASE Wait
  BY Zenon, <1>13 DEF Wait, primaryVars, replicaVars, restVars, historyVars
<1>14. CASE Disconnect
  <2>1. UNCHANGED <<snap, wal, tail, behind, rsnap, rwal, rtree, body, reload, past>> /\ carry' \in {carry, <<>>}
    BY <1>14, Zenon DEF Disconnect, EndSession, primaryVars
  <2> QED BY <2>1
<1>15. CASE Connect
  BY ZenonT(60), <1>15 DEF Connect, primaryVars, replicaVars, restVars, historyVars
<1>16. CASE FetchSnapshot
  BY Zenon, <1>16 DEF FetchSnapshot, primaryVars, restVars, historyVars
<1>17. CASE VerifySnapshot
  BY Zenon, <1>17 DEF VerifySnapshot, primaryVars, restVars, historyVars
<1>18. CASE RenameSnapshot
  BY Zenon, <1>18 DEF RenameSnapshot, primaryVars, restVars, historyVars
<1>19. CASE RemoveWAL
  BY <1>19 DEF RemoveWAL, primaryVars, restVars, historyVars
<1>20. CASE SwapTree
  BY Zenon, <1>20 DEF SwapTree, primaryVars
<1>21. CASE ReplicaStart
  <2>1. UNCHANGED <<snap, wal, tail, behind, rsnap, rwal, body, carry, reload, past>>
    BY <1>21, Zenon DEF ReplicaStart, primaryVars, restVars, historyVars
  <2>2. CASE rsnap = NoSnap
    <3>1. rtree' = EmptyTree
      BY Zenon, <1>21, <2>2 DEF ReplicaStart
    <3> QED BY Zenon, <2>1, <3>1, EmptyKnown
  <2>3. CASE rsnap # NoSnap
    <3>1. rtree' = Replay(rsnap, FramesIn(rwal)) /\ rsnap \in Trees /\ rwal \in Seq(Units)
      BY Zenon, <1>21, <2>3 DEF ReplicaStart, Plain
    <3>2. FramesIn(rwal) \in Seq(Frames) /\ \A i \in 1..Len(FramesIn(rwal)) : FramesIn(rwal)[i] \in past
      BY Zenon, <3>1, FramesInType, DecodedMadeOf
    <3>3. \A d \in Domains : Frame(d, rtree'[d]) \in past
      BY ZenonT(60), <2>3, <3>1, <3>2, ReplayMadeOf
    <3> QED BY Zenon, <2>1, <3>3
  <2> QED BY Zenon, <2>2, <2>3
<1>22. CASE ReplicaRefused
  <2>1. UNCHANGED <<snap, wal, tail, behind, rsnap, rwal, rtree, body, carry, reload, past>>
    BY <1>22, Zenon DEF ReplicaRefused, primaryVars, restVars, historyVars
  <2> QED BY <2>1
<1>23. CASE FetchFails
  BY Zenon, <1>23 DEF FetchFails, primaryVars, historyVars
<1>24. CASE ReplicaCrash
  <2>1. PICK k \in Cut(Len(rwal)) : rwal' = SubSeq(rwal, 1, k)
    BY ZenonT(60), <1>24 DEF ReplicaCrash
  <2>2. \A i \in 1..Len(rwal') : rwal'[i].f \in past
    <3>1. rwal \in Seq(Units) /\ k \in 0..Len(rwal)
      BY Zenon, <2>1 DEF Plain, Cut
    <3> QED BY <2>1, <3>1, Front
  <2>3. /\ UNCHANGED <<snap, wal, tail, behind, rsnap, body, past>>
        /\ reload' = NoReload /\ carry' = <<>> /\ rtree' = EmptyTree
    BY <1>24, Zenon DEF ReplicaCrash, primaryVars
  <2>4. reload'.tree = EmptyTree
    BY Zenon, <2>3 DEF NoReload
  <2> QED BY <2>2, <2>3, <2>4, EmptyKnown
<1>25. CASE ReloadSnapshot
  <2>1. UNCHANGED <<snap, wal, tail, behind, replicaVars, past>>
    BY <1>25, Zenon DEF ReloadSnapshot, primaryVars, historyVars
  <2>2. reload'.tree = IF rsnap = NoSnap THEN EmptyTree ELSE rsnap
    BY ZenonT(60), <1>25 DEF ReloadSnapshot
  <2> QED BY Zenon, <2>1, <2>2, EmptyKnown DEF replicaVars
<1>26. CASE ReloadWAL
  <2>1. UNCHANGED <<snap, wal, tail, behind, replicaVars, past>>
    BY <1>26, Zenon DEF ReloadWAL, primaryVars, historyVars
  <2>2. reload'.tree \in {EmptyTree, Replay(reload.tree, FramesIn(rwal))}
    BY ZenonT(60), <1>26 DEF ReloadWAL, NoReload
  <2>3. rwal \in Seq(Units) /\ reload.tree \in Trees
    BY Zenon DEF Plain
  <2>4. FramesIn(rwal) \in Seq(Frames) /\ \A i \in 1..Len(FramesIn(rwal)) : FramesIn(rwal)[i] \in past
    BY ZenonT(60), <2>3, FramesInType, DecodedMadeOf
  <2>5. \A d \in Domains : Frame(d, Replay(reload.tree, FramesIn(rwal))[d]) \in past
    BY ZenonT(60), <2>3, <2>4, ReplayMadeOf
  <2> QED BY Zenon, <2>1, <2>2, <2>5, EmptyKnown DEF replicaVars
<1>27. CASE ReloadSwap
  <2>1. /\ UNCHANGED <<snap, wal, tail, behind, rsnap, rwal, body, carry, past>>
        /\ rtree' = reload.tree /\ reload' = NoReload
    BY <1>27, Zenon DEF ReloadSwap, primaryVars
  <2>2. reload'.tree = EmptyTree
    BY ZenonT(60), <2>1 DEF NoReload
  <2> QED BY ZenonT(60), <2>1, <2>2, EmptyKnown
<1> QED
  BY <1>1, <1>2, <1>3, <1>4, <1>5, <1>6, <1>7, <1>8, <1>9, <1>10, <1>11, <1>12,
     <1>13, <1>14, <1>15, <1>16, <1>17, <1>18, <1>19, <1>20, <1>21, <1>22, <1>23,
     <1>24, <1>25, <1>26, <1>27, Zenon
  DEF Next, PrimaryStep, HubStep, ReplicaStep, ReloadStep

-----------------------------------------------------------------------------
(* The replica follows the primary                                         *)

followVars == <<snap, wal, tail, behind, rsnap, rwal, rtree, rpc, body, carry, split, outdated,
                compactions, crashes>>

(* Steps that touch none of this but the primary's program counter.        *)
LEMMA FollowsFrame ==
  ASSUME Follows, UNCHANGED followVars, ppc' \in {ppc, "idle"}
  PROVE  Follows'
<1>1. Calm' = Calm
  BY Zenon DEF Calm, followVars
<1>2. Prefix => Prefix'
  BY Zenon DEF Prefix, followVars
<1>3. Aligned => Aligned'
  BY Zenon DEF Aligned, Half, followVars
<1>4. Agrees => Agrees'
  BY Zenon DEF Agrees, Half, followVars
<1>5. split' = split /\ outdated' = outdated
  BY Zenon DEF followVars
<1> QED BY <1>1, <1>2, <1>3, <1>4, <1>5, Zenon DEF Follows

(* The end of a session: a frame of which only a part has arrived is noted *)
(* in split, so that without one the replica's WAL ends with a frame.      *)
LEMMA FollowsEnd ==
  ASSUME Plain, Follows, EndSession, rpc \in {"idle", "stream"},
         UNCHANGED <<snap, wal, tail, behind, ppc, rwal, rtree, outdated, compactions, crashes>>
  PROVE  Follows'
<1>0. rpc' = "idle" /\ carry' = <<>> /\ rsnap' = rsnap /\ body' = body
  BY Zenon, SessionEnds
<1>1. Calm' = Calm
  BY Zenon DEF Calm
<1>2. Prefix => Prefix'
  BY Zenon, <1>0 DEF Prefix, Fetching
<1>3. ~split' => ~split /\ carry = <<>>
  BY Zenon DEF EndSession
<1>4. Aligned /\ carry = <<>> => Aligned'
  <2> SUFFICES ASSUME Aligned, carry = <<>> PROVE 2 * Half = Len(rwal)
    BY Zenon, <1>0 DEF Aligned, Half
  <2>1. CASE rpc = "stream"
    <3> DEFINE k == 2 * Half
    <3>1. rwal \in Seq(Units) /\ Len(rwal) \in Nat /\ k \in 0..Len(rwal)
      BY DEF Plain, Half
    <3>2. SubSeq(rwal, k + 1, Len(rwal)) = <<>>
      BY Zenon, <2>1 DEF Aligned
    <3> HIDE DEF k
    <3>3. Len(SubSeq(rwal, k + 1, Len(rwal))) = Len(rwal) - k
      BY <3>1
    <3>4. Len(rwal) - k = 0
      BY ZenonT(60), <3>2, <3>3
    <3> QED BY <3>1, <3>4 DEF k
  <2> QED BY Zenon, <2>1 DEF Aligned
<1>5. Agrees => Agrees'
  BY Zenon, <1>0 DEF Agrees, Half
<1> QED BY <1>1, <1>2, <1>3, <1>4, <1>5, Zenon DEF Follows

(* A step of a download.  While the primary is calm the replica has no WAL *)
(* then, and the snapshot is the empty one.                                *)
LEMMA FollowsFetch ==
  ASSUME Follows,
         UNCHANGED <<snap, wal, tail, behind, ppc, rwal, rtree, carry, split, outdated, compactions, crashes>>,
         rpc \notin {"stream", "down", "refused"}, rpc' \notin {"stream", "down", "refused"},
         Calm /\ Prefix => /\ body' = EmptyTree /\ rsnap' \in {NoSnap, EmptyTree}
                           /\ rsnap' = NoSnap \/ rpc' \in Fetching => rwal = <<>>
  PROVE  Follows'
<1>1. Calm' = Calm
  BY Zenon DEF Calm
<1>2. Calm /\ Prefix => Prefix'
  BY Zenon DEF Prefix
<1>3. Aligned => Aligned'
  BY Zenon DEF Aligned, Half
<1>4. Agrees => Agrees'
  BY Zenon DEF Agrees, Half
<1>5. split' = split /\ outdated' = outdated
  BY Zenon
<1>6. Calm => Prefix /\ (~split => Aligned /\ (~outdated => Agrees))
  BY Zenon DEF Follows
<1>7. Calm' => Prefix' /\ (~split' => Aligned' /\ (~outdated' => Agrees'))
  BY ONLY <1>1, <1>2, <1>3, <1>4, <1>5, <1>6, Zenon
<1> QED BY <1>7, Zenon DEF Follows

(* Longer logs begin like shorter ones.                                    *)
LEMMA AppendKeeps ==
  ASSUME NEW log \in Seq(Frames), NEW f \in Frames
  PROVE  /\ \A i \in 1..(2 * Len(log)) : Bytes(Append(log, f))[i] = Bytes(log)[i]
         /\ \A k \in 0..Len(log) : SubSeq(Append(log, f), 1, k) = SubSeq(log, 1, k)
         /\ Len(Append(log, f)) = Len(log) + 1
<1> DEFINE l == Append(log, f)
<1>1. /\ l \in Seq(Frames) /\ Len(l) = Len(log) + 1 /\ Len(log) \in Nat
      /\ \A i \in 1..Len(log) : l[i] = log[i]
  BY SMTT(60)
<1> HIDE DEF l
<1>2. ASSUME NEW i \in 1..(2 * Len(log)) PROVE Bytes(l)[i] = Bytes(log)[i]
  <2>1. (i + 1) \div 2 \in 1..Len(log) /\ i \in 1..(2 * Len(l))
    BY <1>1
  <2>2. l[(i + 1) \div 2] = log[(i + 1) \div 2]
    BY Zenon, <1>1, <2>1
  <2>3. Bytes(log)[i] = Unit(log[(i + 1) \div 2], IF i % 2 = 1 THEN 1 ELSE 2)
    BY Zenon, BytesType
  <2>4. Bytes(l)[i] = Unit(l[(i + 1) \div 2], IF i % 2 = 1 THEN 1 ELSE 2)
    BY ZenonT(60), <1>1, <2>1, BytesType
  <2> QED BY Zenon, <2>2, <2>3, <2>4
<1>3. ASSUME NEW k \in 0..Len(log) PROVE SubSeq(l, 1, k) = SubSeq(log, 1, k)
  <2>1. /\ SubSeq(log, 1, k) \in Seq(Frames) /\ Len(SubSeq(log, 1, k)) = k
        /\ \A i \in 1..k : SubSeq(log, 1, k)[i] = log[i]
    BY Zenon, Front
  <2>2. /\ SubSeq(l, 1, k) \in Seq(Frames) /\ Len(SubSeq(l, 1, k)) = k
        /\ \A i \in 1..k : SubSeq(l, 1, k)[i] = l[i]
    BY <1>1, Front
  <2>3. \A i \in 1..k : SubSeq(l, 1, k)[i] = SubSeq(log, 1, k)[i]
    BY <1>1, <2>1, <2>2
  <2> QED BY Zenon, <2>1, <2>2, <2>3, SameSeq
<1> QED BY Zenon, <1>1, <1>2, <1>3 DEF l

(* The primary appends a frame.                                            *)
LEMMA FollowsAppend ==
  ASSUME Plain, Follows, NEW f \in Mutations, Append1(f)
  PROVE  Follows'
<1>1. /\ wal \in Seq(Frames) /\ f \in Frames /\ rwal \in Seq(Units)
      /\ Len(rwal) \in Nat /\ Len(wal) \in Nat
  BY ReplicationAssumption DEF Plain
<1>0. Prefix => wal' = Append(wal, f) /\ tail' = tail /\ behind' = behind
  BY Zenon DEF Append1, Prefix
<1>2. /\ UNCHANGED <<snap, rsnap, rwal, rtree, rpc, body, carry, split, outdated, compactions, crashes>>
      /\ ppc' = "written"
  BY Zenon DEF Append1, replicaVars
<1>3. Calm' = Calm
  BY Zenon, <1>2 DEF Calm
<1>4. Prefix => Prefix'
  <2> SUFFICES ASSUME Prefix PROVE Prefix'
    BY Zenon
  <2>1. Len(rwal) <= 2 * Len(wal) /\ \A i \in 1..Len(rwal) : rwal[i] = Bytes(wal)[i]
    BY Zenon DEF Prefix
  <2>2. /\ \A i \in 1..(2 * Len(wal)) : Bytes(wal')[i] = Bytes(wal)[i]
        /\ Len(wal') = Len(wal) + 1
    BY Zenon, <1>0, <1>1, AppendKeeps
  <2>3. Len(rwal) <= 2 * Len(wal') /\ \A i \in 1..Len(rwal) : i \in 1..(2 * Len(wal))
    BY ONLY <1>1, <2>1, <2>2
  <2>4. \A i \in 1..Len(rwal) : rwal[i] = Bytes(wal')[i]
    BY Zenon, <2>1, <2>2, <2>3
  <2> QED BY Zenon, <1>0, <1>2, <2>3, <2>4 DEF Prefix
<1>5. Aligned => Aligned'
  BY Zenon, <1>2 DEF Aligned, Half
<1>6. Prefix /\ Agrees => Agrees'
  <2> SUFFICES ASSUME Prefix, Agrees PROVE Agrees'
    BY Zenon
  <2>1. Half \in 0..Len(wal)
    BY <1>1 DEF Prefix, Half
  <2>2. SubSeq(wal', 1, Half) = SubSeq(wal, 1, Half)
    BY Zenon, <1>0, <1>1, <2>1, AppendKeeps
  <2>3. Half' = Half
    BY Zenon, <1>2 DEF Half
  <2> QED BY ZenonT(60), <1>2, <2>2, <2>3 DEF Agrees
<1>7. split' = split /\ outdated' = outdated
  BY <1>2, Zenon
<1> QED BY <1>3, <1>4, <1>5, <1>6, <1>7, Zenon DEF Follows

(* A part of a sequence, from after a to b.                                *)
LEMMA Slice ==
  ASSUME NEW S, NEW x \in Seq(S), NEW a \in Nat, NEW b \in Nat, a <= b, b <= Len(x)
  PROVE  /\ SubSeq(x, a + 1, b) \in Seq(S) /\ Len(SubSeq(x, a + 1, b)) = b - a
         /\ \A i \in 1..(b - a) : SubSeq(x, a + 1, b)[i] = x[a + i]
<1>1. /\ a + 1 \in Int /\ b \in Int /\ b - (a + 1) + 1 = b - a
      /\ (a + 1 <= b <=> b - a > 0) /\ b - a \in Nat
  BY SMTT(60)
<1>2. \A i \in (a + 1)..b : x[i] \in S
  BY SMTT(60)
<1>3. /\ SubSeq(x, a + 1, b) \in Seq(S)
      /\ Len(SubSeq(x, a + 1, b)) = IF a + 1 <= b THEN b - (a + 1) + 1 ELSE 0
      /\ \A i \in 1..(b - (a + 1) + 1) : SubSeq(x, a + 1, b)[i] = x[(a + 1) + i - 1]
  BY <1>1, <1>2, SubSeqIs
<1>4. \A i \in 1..(b - a) : (a + 1) + i - 1 = a + i
  BY SMTT(60)
<1> QED BY <1>1, <1>3, <1>4

(* The replica receives what follows its WAL.  In step with frames, it     *)
(* decodes the frames that follow the ones it has, and what is left fits.  *)
LEMMA FollowsReceive ==
  ASSUME Plain, Session, Follows, stream # NoStream, rpc = "stream",
         NEW n \in Cut(Len(File) - stream.offset) \ {0},
         Receive(SubSeq(File, stream.offset + 1, stream.offset + n)),
         File = Bytes(wal), Len(File) = 2 * Len(wal),
         UNCHANGED <<snap, wal, tail, behind, ppc, outdated, compactions, crashes>>
  PROVE  Follows'
<1> DEFINE u == SubSeq(File, stream.offset + 1, stream.offset + n)
           x == carry \o u
           b == Bytes(wal)
           o == Len(rwal)
<1>1. /\ n \in Nat \ {0} /\ u \in Seq(Units) /\ Len(u) = n
      /\ o + n <= 2 * Len(wal)
      /\ \A i \in 1..n : u[i] = b[o + i]
  <2>1. /\ n \in Nat \ {0} /\ u \in Seq(Units) /\ Len(u) = n
        /\ Len(rwal) + n <= Len(File)
        /\ \A i \in 1..n : u[i] = File[Len(rwal) + i]
    BY ZenonT(60), ReadUnits
  <2> HIDE DEF u
  <2> QED BY Zenon, <2>1
<1>2. /\ rwal' = rwal \o u /\ rtree' = Replay(rtree, FramesIn(x))
      /\ rsnap' = rsnap /\ body' = body
      /\ \/ carry' = Rest(x) /\ rpc' = rpc /\ split' = split
         \/ /\ ~IsClean(Rest(x)) /\ rpc' = "idle"
            /\ split' = (split \/ carry # <<>>)
  BY Zenon DEF Receive, EndSession
<1>3. /\ wal \in Seq(Frames) /\ rwal \in Seq(Units) /\ carry \in Seq(Units)
      /\ o \in Nat /\ Len(wal) \in Nat
  BY DEF Plain
<1> HIDE DEF u, b
<1>4. /\ rwal' \in Seq(Units) /\ Len(rwal') = o + n
      /\ \A i \in 1..o : rwal'[i] = rwal[i]
      /\ \A i \in 1..n : rwal'[o + i] = u[i]
  <2>1. u \in Seq(Units) /\ Len(u) = n /\ rwal' = rwal \o u
    BY Zenon, <1>1, <1>2
  <2>2. rwal \in Seq(Units) /\ u \in Seq(Units)
    BY Zenon, <1>3, <2>1
  <2>3. rwal \o u \in Seq(Units)
    BY ONLY <2>2
  <2>4. Len(rwal \o u) = Len(rwal) + Len(u)
    BY ONLY <2>2
  <2>5. \A i \in 1..Len(rwal) : (rwal \o u)[i] = rwal[i]
    BY ONLY <2>2
  <2>6. \A i \in 1..Len(u) : (rwal \o u)[Len(rwal) + i] = u[i]
    BY ONLY <2>2
  <2> QED BY Zenon, <2>1, <2>3, <2>4, <2>5, <2>6
<1>5. Calm' = Calm
  BY Zenon DEF Calm
<1>6. ASSUME Prefix PROVE Prefix' /\ \A i \in 1..(o + n) : rwal'[i] = b[i]
  <2>1. ASSUME NEW i \in 1..(o + n) PROVE rwal'[i] = b[i]
    <3>1. CASE i <= o
      BY <1>3, <1>4, <1>6, <3>1 DEF Prefix, b
    <3>2. CASE i > o
      <4>1. i - o \in 1..n /\ o + (i - o) = i
        BY <1>1, <1>3, <3>2
      <4>2. rwal'[o + (i - o)] = u[i - o] /\ u[i - o] = b[o + (i - o)]
        BY Zenon, <1>1, <1>4, <4>1
      <4> QED BY Zenon, <4>1, <4>2
    <3> QED BY <1>1, <1>3, <3>1, <3>2
  <2>2. rpc' \in {"stream", "idle"} /\ rsnap # NoSnap
    BY Zenon, <1>2 DEF Session
  <2>3. \A i \in 1..Len(rwal') : rwal'[i] = Bytes(wal)'[i]
    BY Zenon, <1>4, <2>1 DEF b
  <2>4. Len(rwal') <= 2 * Len(wal')
    BY Zenon, <1>1, <1>4
  <2> QED BY ZenonT(60), <1>2, <1>6, <2>1, <2>2, <2>3, <2>4 DEF Prefix, Fetching
<1>7. ASSUME Prefix, Aligned
      PROVE  /\ rpc' = "stream" /\ split' = split /\ Aligned'
             /\ Agrees => Agrees'
  <2> DEFINE m == Half
             c == o - 2 * m
             h == (c + n) \div 2
  <2>1. /\ m \in Nat /\ 2 * m <= o /\ o <= 2 * m + 1 /\ c \in Nat /\ m \in 0..Len(wal)
        /\ h \in Nat /\ 2 * h <= c + n /\ m + h = (o + n) \div 2 /\ m + h <= Len(wal)
    <3>1. m = o \div 2 /\ o \in Nat /\ n \in Nat /\ Len(wal) \in Nat /\ o + n <= 2 * Len(wal)
      BY Zenon, <1>1, <1>3 DEF Half
    <3> HIDE DEF m, o
    <3>2. /\ m \in Nat /\ 2 * m <= o /\ o <= 2 * m + 1 /\ c \in Nat /\ m \in 0..Len(wal)
      BY <3>1
    <3>3. h \in Nat /\ 2 * h <= c + n /\ c + n <= 2 * h + 1
      BY <3>1, <3>2
    <3> HIDE DEF h
    <3> QED BY <3>1, <3>2, <3>3
  <2>2. carry = SubSeq(rwal, 2 * m + 1, o)
    BY Zenon, <1>7 DEF Aligned
  <2> HIDE DEF m
  <2>3. Len(carry) = c /\ \A i \in 1..c : carry[i] = rwal[2 * m + i]
    <3>1. 2 * m \in Nat /\ o \in Nat /\ 2 * m <= o /\ o <= Len(rwal)
      BY <1>3, <2>1
    <3> DEFINE a == 2 * m
    <3>2. a \in Nat /\ o \in Nat /\ a <= o /\ o <= Len(rwal) /\ rwal \in Seq(Units)
      BY Zenon, <1>3, <3>1
    <3> HIDE DEF a, o
    <3>3. /\ Len(SubSeq(rwal, a + 1, o)) = o - a
          /\ \A i \in 1..(o - a) : SubSeq(rwal, a + 1, o)[i] = rwal[a + i]
      BY Zenon, <3>2, Slice
    <3> QED BY Zenon, <2>2, <3>3 DEF a
  <2>4. /\ x \in Seq(Units) /\ Len(x) = c + n
        /\ \A i \in 1..c : x[i] = carry[i]
        /\ \A i \in 1..n : x[c + i] = u[i]
    <3>1. u \in Seq(Units) /\ Len(u) = n
      BY Zenon, <1>1
    <3>2. carry \in Seq(Units) /\ Len(carry) = c
      BY Zenon, <1>3, <2>3
    <3> HIDE DEF c
    <3> HIDE DEF c
    <3>3. carry \in Seq(Units) /\ u \in Seq(Units)
      BY <3>1, <3>2
    <3>4. carry \o u \in Seq(Units)
      BY ONLY <3>3
    <3>5. Len(carry \o u) = Len(carry) + Len(u)
      BY ONLY <3>3
    <3>6. \A i \in 1..Len(carry) : (carry \o u)[i] = carry[i]
      BY ONLY <3>3
    <3>7. \A i \in 1..Len(u) : (carry \o u)[Len(carry) + i] = u[i]
      BY ONLY <3>3
    <3> QED BY Zenon, <3>1, <3>2, <3>4, <3>5, <3>6, <3>7
  <2> HIDE DEF x, h
  <2>5. ASSUME NEW i \in 1..(c + n) PROVE x[i] = rwal'[2 * m + i] /\ x[i] = b[2 * m + i]
    <3>1. 2 * m + i \in 1..(o + n)
      BY <1>1, <1>3, <2>1
    <3>2. x[i] = rwal'[2 * m + i]
      <4>1. CASE i <= c
        <5>1. 2 * m + i \in 1..o /\ i \in 1..c
          BY <1>3, <2>1, <4>1
        <5> QED BY Zenon, <1>4, <2>3, <2>4, <5>1
      <4>2. CASE i > c
        <5>1. i - c \in 1..n /\ c + (i - c) = i /\ o + (i - c) = 2 * m + i
          BY <1>1, <1>3, <2>1, <4>2
        <5>2. x[c + (i - c)] = u[i - c] /\ rwal'[o + (i - c)] = u[i - c]
          BY Zenon, <1>4, <2>4, <5>1
        <5> QED BY Zenon, <5>1, <5>2
      <4> QED BY <1>3, <2>1, <4>1, <4>2
    <3> QED BY Zenon, <1>6, <1>7, <3>1, <3>2
  <2>6. /\ FramesIn(x) = SubSeq(wal, m + 1, m + h)
        /\ Rest(x) = SubSeq(x, 2 * h + 1, c + n)
        /\ IsClean(Rest(x))
    <3>1. 2 * m + Len(x) <= 2 * Len(wal)
      <4>1. Len(x) = o - 2 * m + n /\ o + n <= 2 * Len(wal)
        BY Zenon, <1>1, <2>4
      <4> QED BY ONLY <1>1, <1>3, <2>1, <4>1
    <3>2. \A i \in 1..Len(x) : x[i] = Bytes(wal)[2 * m + i]
      BY Zenon, <2>4, <2>5 DEF b
    <3>3. Len(x) \div 2 = h
      BY Zenon, <2>4 DEF h
    <3> HIDE DEF c
    <3> QED BY ZenonT(60), <1>3, <2>1, <2>4, <3>1, <3>2, <3>3, AlignedFrames
  <2>7. carry' = Rest(x) /\ rpc' = "stream" /\ split' = split
    BY <1>2, <2>6, Zenon
  <2>8. Half' = m + h
    BY Zenon, <1>4, <2>1 DEF Half
  <2>9. Aligned'
    <3> DEFINE p == SubSeq(x, 2 * h + 1, c + n)
               q == SubSeq(rwal', 2 * (m + h) + 1, o + n)
    <3>1. 2 * h \in Nat /\ c + n \in Nat /\ 2 * (m + h) \in Nat /\ o + n \in Nat
          /\ 2 * (m + h) <= o + n /\ (o + n) - 2 * (m + h) = (c + n) - 2 * h
      BY <1>1, <1>3, <2>1
    <3>2. /\ p \in Seq(Units) /\ Len(p) = (c + n) - 2 * h
          /\ \A i \in 1..((c + n) - 2 * h) : p[i] = x[2 * h + i]
      <4> DEFINE a == 2 * h
                 e == c + n
      <4>1. a \in Nat /\ e \in Nat /\ a <= e /\ e <= Len(x) /\ x \in Seq(Units)
        BY <2>1, <2>4, <3>1
      <4> HIDE DEF a, e, p
      <4>2. /\ SubSeq(x, a + 1, e) \in Seq(Units) /\ Len(SubSeq(x, a + 1, e)) = e - a
            /\ \A i \in 1..(e - a) : SubSeq(x, a + 1, e)[i] = x[a + i]
        BY Zenon, <4>1, Slice
      <4> QED BY Zenon, <4>2 DEF a, e, p
    <3>3. /\ q \in Seq(Units) /\ Len(q) = (o + n) - 2 * (m + h)
          /\ \A i \in 1..((o + n) - 2 * (m + h)) : q[i] = rwal'[2 * (m + h) + i]
      <4> DEFINE a == 2 * (m + h)
                 e == o + n
      <4>1. a \in Nat /\ e \in Nat /\ a <= e /\ e <= Len(rwal') /\ rwal' \in Seq(Units)
        BY ONLY <1>4, <3>1
      <4> HIDE DEF a, e, q
      <4>2. /\ SubSeq(rwal', a + 1, e) \in Seq(Units) /\ Len(SubSeq(rwal', a + 1, e)) = e - a
            /\ \A i \in 1..(e - a) : SubSeq(rwal', a + 1, e)[i] = rwal'[a + i]
        BY Zenon, <4>1, Slice
      <4> QED BY Zenon, <4>2 DEF a, e, q
    <3> HIDE DEF p, q
    <3>4. ASSUME NEW i \in 1..((c + n) - 2 * h) PROVE p[i] = q[i]
      <4>1. 2 * h + i \in 1..(c + n) /\ 2 * m + (2 * h + i) = 2 * (m + h) + i
        BY <2>1, <3>1
      <4>2. x[2 * h + i] = rwal'[2 * m + (2 * h + i)]
        BY Zenon, <2>5, <4>1
      <4> QED BY Zenon, <3>1, <3>2, <3>3, <4>1, <4>2
    <3>5. p = q
      <4>1. Len(p) = Len(q) /\ \A i \in 1..Len(p) : p[i] = q[i]
        BY Zenon, <3>1, <3>2, <3>3, <3>4
      <4> QED BY Zenon, <3>2, <3>3, <4>1, SameSeq
    <3> QED BY ZenonT(60), <1>4, <2>6, <2>7, <2>8, <3>5 DEF Aligned, p, q
  <2>10. ASSUME Agrees PROVE Agrees'
    <3>1. rtree = Replay(EmptyTree, SubSeq(wal, 1, m))
      BY Zenon, <2>10 DEF Agrees, m
    <3>2. SubSeq(wal, 1, m) \in Seq(Frames) /\ SubSeq(wal, m + 1, m + h) \in Seq(Frames)
      <4>1. SubSeq(wal, 1, m) \in Seq(Frames)
        BY Zenon, <1>3, <2>1, Front
      <4>2. m + h \in Nat /\ m <= m + h
        BY <2>1
      <4>3. SubSeq(wal, m + 1, m + h) \in Seq(Frames)
        BY Zenon, <1>3, <2>1, <4>2, Slice
      <4> QED BY Zenon, <4>1, <4>3
    <3>3. SubSeq(wal, 1, m) \o SubSeq(wal, m + 1, m + h) = SubSeq(wal, 1, m + h)
      <4>1. 1 \in 1..(Len(wal) + 1) /\ m \in (1 - 1)..Len(wal) /\ m + h \in m..Len(wal)
        BY <1>3, <2>1
      <4> QED BY ZenonT(60), <1>3, <4>1, SubSeqJoin
    <3>4. rtree' = Replay(EmptyTree, SubSeq(wal, 1, m + h))
      <4>1. rtree' = Replay(rtree, SubSeq(wal, m + 1, m + h))
        BY Zenon, <1>2, <2>6
      <4>2. Replay(EmptyTree, SubSeq(wal, 1, m) \o SubSeq(wal, m + 1, m + h))
              = Replay(Replay(EmptyTree, SubSeq(wal, 1, m)), SubSeq(wal, m + 1, m + h))
        BY ZenonT(60), <3>2, EmptyTreeType, ReplayConcat
      <4> QED BY ZenonT(60), <3>1, <3>3, <4>1, <4>2
    <3> QED BY Zenon, <2>8, <3>4 DEF Agrees
  <2> QED BY <2>7, <2>9, <2>10, Zenon
<1>8. ~split' => ~split
  BY <1>2, Zenon
<1>9. outdated' = outdated
  BY Zenon
<1>10. Calm => Prefix /\ (~split => Aligned /\ (~outdated => Agrees))
  BY Zenon DEF Follows
<1>11. Calm' => Prefix' /\ (~split' => Aligned' /\ (~outdated' => Agrees'))
  BY ONLY <1>5, <1>6, <1>7, <1>8, <1>9, <1>10, Zenon
<1> QED BY <1>11, Zenon DEF Follows

(* The replica crashes, perhaps losing the end of its WAL.                 *)
LEMMA FollowsCrash ==
  ASSUME Plain, Follows, ReplicaCrash PROVE Follows'
<1>1. PICK k \in Cut(Len(rwal)) : rwal' = SubSeq(rwal, 1, k) /\ split' = (split \/ k % 2 = 1)
  BY Zenon DEF ReplicaCrash
<1>2. /\ UNCHANGED <<snap, wal, tail, behind, ppc, rsnap, body, outdated, compactions, crashes>>
      /\ rpc' = "down" /\ carry' = <<>>
  BY Zenon DEF ReplicaCrash, primaryVars
<1>3. k \in 0..Len(rwal) /\ rwal \in Seq(Units) /\ Len(rwal) \in Nat /\ wal \in Seq(Frames)
  BY DEF Plain, Cut
<1>4. Len(rwal') = k /\ \A i \in 1..k : rwal'[i] = rwal[i]
  BY Zenon, <1>1, <1>3, Front
<1>5. Calm' = Calm
  BY Zenon, <1>2 DEF Calm
<1>6. ASSUME Prefix PROVE Prefix'
  <2>1. \A i \in 1..Len(rwal') : rwal'[i] = Bytes(wal)[i]
    BY <1>3, <1>4, <1>6 DEF Prefix
  <2>2. Len(rwal') <= 2 * Len(wal)
    BY <1>3, <1>4, <1>6 DEF Prefix
  <2>3. rwal = <<>> => rwal' = <<>>
    BY <1>1, <1>3
  <2> QED BY Zenon, <1>2, <1>6, <2>1, <2>2, <2>3 DEF Prefix, Fetching
<1>7. ~split' => ~split /\ k % 2 # 1
  BY <1>1, Zenon
<1>8. k % 2 # 1 => Aligned'
  <2>1. k % 2 # 1 => 2 * (k \div 2) = k
    BY <1>3
  <2> QED BY Zenon, <1>2, <1>4, <2>1 DEF Aligned, Half
<1>9. Agrees'
  BY Zenon, <1>2 DEF Agrees
<1>10. Calm => Prefix
  BY Zenon DEF Follows
<1>11. Calm' => Prefix' /\ (~split' => Aligned' /\ (~outdated' => Agrees'))
  BY ONLY <1>5, <1>6, <1>7, <1>8, <1>9, <1>10, Zenon
<1> QED BY <1>11, Zenon DEF Follows

(* It starts again, replaying its WAL.                                     *)
LEMMA FollowsStart ==
  ASSUME Plain, Follows, ReplicaStart PROVE Follows'
<1>1. /\ UNCHANGED <<snap, wal, tail, behind, ppc, rsnap, rwal, body, carry, split, outdated, compactions, crashes>>
      /\ rpc = "down" /\ rpc' = "idle"
      /\ rtree' = IF rsnap = NoSnap THEN EmptyTree ELSE Replay(rsnap, FramesIn(rwal))
  BY Zenon DEF ReplicaStart, primaryVars, restVars, historyVars, boundVars
<1>2. rwal \in Seq(Units) /\ Len(rwal) \in Nat /\ wal \in Seq(Frames) /\ Len(wal) \in Nat
  BY DEF Plain
<1>3. Calm' = Calm
  BY Zenon, <1>1 DEF Calm
<1>4. Prefix => Prefix'
  BY Zenon, <1>1 DEF Prefix, Fetching
<1>5. Aligned => Aligned'
  BY Zenon, <1>1 DEF Aligned, Half
<1>6. ASSUME Prefix, Aligned PROVE Agrees'
  <2>1. rtree' = Replay(EmptyTree, SubSeq(wal, 1, Half))
    <3>1. CASE rsnap = NoSnap
      <4>1. rwal = <<>> /\ rtree' = EmptyTree /\ Half = 0
        BY <1>1, <1>6, <3>1 DEF Prefix, Half
      <4>2. SubSeq(wal, 1, 0) = <<>>
        BY SubSeqNone
      <4> QED BY ZenonT(60), <4>1, <4>2, EmptyTreeType, ReplayEmpty
    <3>2. CASE rsnap # NoSnap
      <4>1. rtree' = Replay(EmptyTree, FramesIn(rwal))
        BY Zenon, <1>1, <1>6, <3>2 DEF Prefix
      <4>2. /\ 2 * 0 + Len(rwal) <= 2 * Len(wal) /\ 0 \in 0..Len(wal)
            /\ \A i \in 1..Len(rwal) : rwal[i] = Bytes(wal)[2 * 0 + i]
        BY <1>2, <1>6 DEF Prefix
      <4>3. FramesIn(rwal) = SubSeq(wal, 0 + 1, 0 + Len(rwal) \div 2)
        BY Zenon, <1>2, <4>2, AlignedFrames
      <4>4. FramesIn(rwal) = SubSeq(wal, 1, Half)
        BY <1>2, <4>3 DEF Half
      <4> QED BY Zenon, <4>1, <4>4
    <3> QED BY Zenon, <3>1, <3>2
  <2> QED BY Zenon, <1>1, <2>1 DEF Agrees, Half
<1>7. split' = split
  BY <1>1, Zenon
<1>8. Calm => Prefix /\ (~split => Aligned)
  BY Zenon DEF Follows
<1>9. Calm' => Prefix' /\ (~split' => Aligned' /\ (~outdated' => Agrees'))
  BY ONLY <1>3, <1>4, <1>5, <1>6, <1>7, <1>8, Zenon
<1> QED BY <1>9, Zenon DEF Follows

(* The replica does not start.                                             *)
LEMMA FollowsRefused ==
  ASSUME Follows, ReplicaRefused PROVE Follows'
<1>1. /\ UNCHANGED <<snap, wal, tail, behind, ppc, rsnap, rwal, rtree, body, carry, split, outdated, compactions, crashes>>
      /\ rpc = "down" /\ rpc' = "refused"
  BY Zenon DEF ReplicaRefused, primaryVars, restVars, historyVars, boundVars
<1>2. Calm' = Calm
  BY Zenon, <1>1 DEF Calm
<1>3. Prefix => Prefix'
  BY Zenon, <1>1 DEF Prefix, Fetching
<1>4. Aligned => Aligned'
  BY Zenon, <1>1 DEF Aligned, Half
<1>5. Agrees'
  BY Zenon, <1>1 DEF Agrees
<1>6. split' = split
  BY <1>1, Zenon
<1>7. Calm => Prefix /\ (~split => Aligned)
  BY Zenon DEF Follows
<1>8. Calm' => Prefix' /\ (~split' => Aligned' /\ (~outdated' => Agrees'))
  BY ONLY <1>2, <1>3, <1>4, <1>5, <1>6, <1>7, Zenon
<1> QED BY <1>8, Zenon DEF Follows

(* A session begins: without a cut frame there is nothing to carry.        *)
LEMMA FollowsHeader ==
  ASSUME Plain, Session, Follows, SendHeader, rpc' = "stream" PROVE Follows'
<1>1. UNCHANGED <<snap, wal, tail, behind, ppc, rsnap, rwal, rtree, body, carry, split, outdated, compactions, crashes>>
  BY Zenon DEF SendHeader, primaryVars, restVars, historyVars, boundVars
<1>2. rpc \in {"idle", "stream"}
  BY Zenon DEF SendHeader, Session
<1>3. Calm' = Calm
  BY Zenon, <1>1 DEF Calm
<1>4. Prefix => Prefix'
  BY Zenon, <1>1 DEF Prefix, Fetching
<1>5. ASSUME Aligned PROVE Aligned'
  <2>1. CASE rpc = "stream"
    BY Zenon, <1>1, <1>5, <2>1 DEF Aligned, Half
  <2>2. CASE rpc # "stream"
    <3>1. carry = <<>> /\ 2 * Half = Len(rwal) /\ Len(rwal) \in Nat
      BY <1>5, <2>2 DEF Aligned, Plain
    <3>2. SubSeq(rwal, 2 * Half + 1, Len(rwal)) = <<>>
      BY <3>1, SubSeqNone
    <3> QED BY Zenon, <1>1, <3>1, <3>2 DEF Aligned, Half
  <2> QED BY Zenon, <2>1, <2>2
<1>6. Agrees => Agrees'
  BY Zenon, <1>1, <1>2 DEF Agrees, Half
<1>7. split' = split /\ outdated' = outdated
  BY <1>1, Zenon
<1>8. Calm => Prefix /\ (~split => Aligned /\ (~outdated => Agrees))
  BY Zenon DEF Follows
<1>9. Calm' => Prefix' /\ (~split' => Aligned' /\ (~outdated' => Agrees'))
  BY ONLY <1>3, <1>4, <1>5, <1>6, <1>7, <1>8, Zenon
<1> QED BY <1>9, Zenon DEF Follows

(* The tree of the snapshot becomes the live one.                          *)
LEMMA FollowsSwap ==
  ASSUME Plain, Follows, SwapTree PROVE Follows'
<1>1. /\ UNCHANGED <<snap, wal, tail, behind, ppc, rsnap, rwal, body, carry, split, compactions, crashes>>
      /\ rpc = "removed" /\ rpc' = "idle" /\ rtree' = body
  BY Zenon DEF SwapTree, primaryVars, boundVars
<1>2. Calm' = Calm
  BY Zenon, <1>1 DEF Calm
<1>3. Prefix => Prefix'
  BY Zenon, <1>1 DEF Prefix, Fetching
<1>4. Aligned => Aligned'
  BY Zenon, <1>1 DEF Aligned, Half
<1>5. ASSUME Prefix PROVE Agrees'
  <2>1. rwal' = <<>> /\ rtree' = EmptyTree
    BY Zenon, <1>1, <1>5 DEF Prefix, Fetching
  <2>2. Half' = 0
    BY <2>1 DEF Half
  <2>3. SubSeq(wal', 1, 0) = <<>>
    BY SubSeqNone
  <2> QED BY ZenonT(60), <2>1, <2>2, <2>3, EmptyTreeType, ReplayEmpty DEF Agrees
<1>6. split' = split
  BY <1>1, Zenon
<1>7. Calm => Prefix /\ (~split => Aligned)
  BY Zenon DEF Follows
<1>8. Calm' => Prefix' /\ (~split' => Aligned' /\ (~outdated' => Agrees'))
  BY ONLY <1>2, <1>3, <1>4, <1>5, <1>6, <1>7, Zenon
<1> QED BY <1>8, Zenon DEF Follows

(* A reload that changes the live tree is noted in outdated.               *)
LEMMA FollowsReload ==
  ASSUME Follows, ReloadSwap PROVE Follows'
<1>1. /\ UNCHANGED <<snap, wal, tail, behind, ppc, rsnap, rwal, rpc, body, carry, split, compactions, crashes>>
      /\ rtree' = reload.tree
  BY Zenon DEF ReloadSwap, primaryVars, boundVars
<1>2. Calm' = Calm
  BY Zenon, <1>1 DEF Calm
<1>3. Prefix => Prefix'
  BY Zenon, <1>1 DEF Prefix
<1>4. Aligned => Aligned'
  BY Zenon, <1>1 DEF Aligned, Half
<1>5. ~outdated' => ~outdated /\ rtree = reload.tree
  BY Zenon DEF ReloadSwap
<1>6. rtree = reload.tree /\ Agrees => Agrees'
  BY Zenon, <1>1 DEF Agrees, Half
<1>7. split' = split
  BY <1>1, Zenon
<1>8. Calm => Prefix /\ (~split => Aligned /\ (~outdated => Agrees))
  BY Zenon DEF Follows
<1>9. Calm' => Prefix' /\ (~split' => Aligned' /\ (~outdated' => Agrees'))
  BY ONLY <1>2, <1>3, <1>4, <1>5, <1>6, <1>7, <1>8, Zenon
<1> QED BY <1>9, Zenon DEF Follows

(* Nothing is claimed once the primary has compacted or crashed.           *)
LEMMA NotCalm == ASSUME ~Calm' PROVE Follows'
BY Zenon DEF Follows

(* Every step leaves the replica where its WAL says.                       *)
LEMMA FollowsKept ==
  ASSUME Plain, Session, Follows, [Next]_vars PROVE Follows'
<1>0. Calm => Prefix
  BY Zenon DEF Follows
<1>1. CASE UNCHANGED vars
  <2>1. UNCHANGED followVars /\ ppc' = ppc
    BY <1>1, Zenon DEF vars, primaryVars, replicaVars, restVars, historyVars, boundVars, followVars
  <2> QED BY Zenon, <2>1, FollowsFrame
<1>2. CASE \E f \in Mutations : Append1(f)
  BY Zenon, <1>2, FollowsAppend
<1>3. CASE CompactRename
  <2>1. compactions' = compactions + 1 /\ compactions \in Nat
    BY Zenon, <1>3 DEF CompactRename, Plain
  <2>2. ~Calm'
    BY <2>1 DEF Calm
  <2> QED BY Zenon, <2>2, NotCalm
<1>4. CASE NotifyFlush
  <2>1. UNCHANGED followVars /\ ppc' = "idle"
    BY <1>4, Zenon DEF NotifyFlush, replicaVars, restVars, historyVars, boundVars, followVars
  <2> QED BY Zenon, <2>1, FollowsFrame
<1>5. CASE CompactTruncate
  <2>1. ppc = "renamed" /\ UNCHANGED <<compactions, crashes>>
    BY <1>5, Zenon DEF CompactTruncate, restVars, boundVars
  <2>2. ~Calm'
    BY Zenon, <1>0, <2>1 DEF Calm, Prefix
  <2> QED BY <2>2, NotCalm
<1>6. CASE NotifyCompaction
  <2>1. UNCHANGED followVars /\ ppc' = "idle"
    BY <1>6, Zenon DEF NotifyCompaction, replicaVars, restVars, historyVars, boundVars, followVars
  <2> QED BY <2>1, FollowsFrame
<1>7. CASE PrimaryCrash
  <2>1. crashes' = crashes + 1 /\ crashes \in Nat
    BY Zenon, <1>7 DEF PrimaryCrash, Plain
  <2>2. ~Calm'
    BY <2>1 DEF Calm
  <2> QED BY <2>2, NotCalm
<1>8. CASE OpenStream
  <2>1. CASE rpc' = rpc
    <3>1. UNCHANGED followVars /\ ppc' = ppc
      BY <1>8, <2>1, Zenon DEF OpenStream, primaryVars, restVars, historyVars, boundVars, followVars
    <3> QED BY <3>1, FollowsFrame
  <2>2. CASE stream.offset > Len(File)
    <3>1. stream.offset = Len(rwal) /\ UNCHANGED <<compactions, crashes>>
          /\ Len(rwal) \in Nat /\ Len(wal) \in Nat
      BY <1>8 DEF OpenStream, Session, Plain, restVars, boundVars
    <3>2. Calm => Len(File) = 2 * Len(wal) /\ Len(rwal) <= 2 * Len(wal)
      BY Zenon, <1>0, FileType DEF Prefix
    <3>3. ~Calm
      BY <2>2, <3>1, <3>2
    <3>4. ~Calm'
      BY Zenon, <3>1, <3>3 DEF Calm
    <3> QED BY <3>4, NotCalm
  <2> QED BY Zenon, <1>8, <2>1, <2>2 DEF OpenStream
<1>9. CASE SendHeader
  <2>1. CASE rpc' = "stream"
    BY Zenon, <1>9, <2>1, FollowsHeader
  <2>2. CASE snap # rsnap
    <3>1. rsnap # NoSnap /\ UNCHANGED <<compactions, crashes>>
      BY <1>9, Zenon DEF SendHeader, Session, restVars, boundVars
    <3>2. ~Calm'
      BY Zenon, <1>0, <2>2, <3>1 DEF Calm, Prefix
    <3> QED BY <3>2, NotCalm
  <2>3. snap # rsnap \/ rpc' = "stream"
    BY <1>9, Zenon DEF SendHeader
  <2> QED BY Zenon, <2>1, <2>2, <2>3
<1>10. CASE CheckGeneration
  <2>1. UNCHANGED <<snap, wal, tail, behind, ppc, rwal, rtree, outdated, compactions, crashes>>
        /\ rpc \in {"idle", "stream"}
    BY <1>10, Zenon DEF CheckGeneration, primaryVars, boundVars, Session
  <2>2. CASE EndSession
    BY Zenon, <2>1, <2>2, FollowsEnd
  <2>3. CASE UNCHANGED <<rsnap, rpc, body, carry, split>>
    <3>1. UNCHANGED followVars /\ ppc' = ppc
      BY <2>1, <2>3, Zenon DEF followVars
    <3> QED BY <3>1, FollowsFrame
  <2>4. EndSession \/ UNCHANGED <<rsnap, rpc, body, carry, split>>
    BY <1>10, Zenon DEF CheckGeneration
  <2> QED BY Zenon, <2>2, <2>3, <2>4
<1>11. CASE ReadWAL
  <2>1. /\ stream # NoStream /\ rpc = "stream"
        /\ UNCHANGED <<snap, wal, tail, behind, ppc, outdated, compactions, crashes>>
    BY <1>11, Zenon DEF ReadWAL, primaryVars, boundVars, Session
  <2>2. ASSUME NEW n \in Cut(Len(File) - stream.offset) \ {0},
               Receive(SubSeq(File, stream.offset + 1, stream.offset + n))
        PROVE  Follows'
    <3>1. CASE Calm
      <4>1. File = Bytes(wal) /\ Len(File) = 2 * Len(wal)
        BY Zenon, <1>0, <3>1, FileType DEF Prefix
      <4> QED BY Zenon, <2>1, <2>2, <4>1, FollowsReceive
    <3>2. CASE ~Calm
      <4>1. ~Calm'
        BY Zenon, <2>1, <3>2 DEF Calm
      <4> QED BY Zenon, <4>1, NotCalm
    <3> QED BY Zenon, <3>1, <3>2
  <2>3. CASE UNCHANGED <<replicaVars, split>>
    <3>1. UNCHANGED followVars /\ ppc' = ppc
      BY <2>1, <2>3, Zenon DEF followVars, replicaVars
    <3> QED BY <3>1, FollowsFrame
  <2> QED BY <1>11, <2>2, <2>3, Zenon DEF ReadWAL
<1>12. CASE AtEOF
  <2>1. UNCHANGED <<snap, wal, tail, behind, ppc, rwal, rtree, outdated, compactions, crashes>>
        /\ rpc \in {"idle", "stream"}
    BY <1>12, Zenon DEF AtEOF, primaryVars, boundVars, Session
  <2>2. CASE EndSession
    BY <2>1, <2>2, FollowsEnd
  <2>3. CASE UNCHANGED <<rsnap, rpc, body, carry, split>>
    <3>1. UNCHANGED followVars /\ ppc' = ppc
      BY <2>1, <2>3, Zenon DEF followVars
    <3> QED BY <3>1, FollowsFrame
  <2>4. EndSession \/ UNCHANGED <<rsnap, rpc, body, carry, split>>
    BY <1>12, Zenon DEF AtEOF
  <2> QED BY <2>2, <2>3, <2>4
<1>13. CASE Wait
  <2>1. UNCHANGED followVars /\ ppc' = ppc
    BY <1>13, Zenon DEF Wait, primaryVars, replicaVars, restVars, historyVars, boundVars, followVars
  <2> QED BY <2>1, FollowsFrame
<1>14. CASE Disconnect
  <2>1. UNCHANGED <<snap, wal, tail, behind, ppc, rwal, rtree, outdated, compactions, crashes>>
        /\ rpc \in {"idle", "stream"} /\ EndSession
    BY <1>14, Zenon DEF Disconnect, primaryVars, Session
  <2> QED BY Zenon, <2>1, FollowsEnd
<1>15. CASE Connect
  <2>1. UNCHANGED followVars /\ ppc' = ppc
    BY <1>15, Zenon DEF Connect, primaryVars, replicaVars, restVars, historyVars, boundVars, followVars
  <2> QED BY <2>1, FollowsFrame
<1>16. CASE FetchSnapshot
  <2>1. /\ UNCHANGED <<snap, wal, tail, behind, ppc, rwal, rtree, carry, split, outdated, compactions, crashes>>
        /\ rpc = "fetch" \/ (rpc = "idle" /\ rsnap = NoSnap)
        /\ rpc' = "fetched" /\ body' = snap /\ rsnap' = rsnap
    BY <1>16, Zenon DEF FetchSnapshot, primaryVars, restVars, historyVars, boundVars
  <2>2. rpc \notin {"stream", "down", "refused"} /\ rpc' \notin {"stream", "down", "refused"}
    BY Zenon, <2>1
  <2>3. Prefix => body' = EmptyTree /\ rsnap' \in {NoSnap, EmptyTree} /\ rwal = <<>>
    BY Zenon, <2>1 DEF Prefix, Fetching
  <2> QED BY Zenon, <2>1, <2>2, <2>3, FollowsFetch
<1>17. CASE VerifySnapshot
  <2>1. /\ UNCHANGED <<snap, wal, tail, behind, ppc, rwal, rtree, carry, split, outdated, compactions, crashes>>
        /\ rpc = "fetched" /\ body' = body /\ rsnap' = rsnap
    BY <1>17, Zenon DEF VerifySnapshot, primaryVars, restVars, historyVars, boundVars
  <2>2. rpc \notin {"stream", "down", "refused"} /\ rpc' \notin {"stream", "down", "refused"}
    BY Zenon, <1>17, <2>1 DEF VerifySnapshot
  <2>3. Prefix => body' = EmptyTree /\ rsnap' \in {NoSnap, EmptyTree} /\ rwal = <<>>
    BY Zenon, <2>1 DEF Prefix, Fetching
  <2> QED BY Zenon, <2>1, <2>2, <2>3, FollowsFetch
<1>18. CASE RenameSnapshot
  <2>1. /\ UNCHANGED <<snap, wal, tail, behind, ppc, rwal, rtree, carry, split, outdated, compactions, crashes>>
        /\ rpc = "verified" /\ body' = body /\ rsnap' = body /\ rpc' = "renamed"
    BY <1>18, Zenon DEF RenameSnapshot, primaryVars, restVars, historyVars, boundVars
  <2>2. rpc \notin {"stream", "down", "refused"} /\ rpc' \notin {"stream", "down", "refused"}
    BY Zenon, <2>1
  <2>3. Prefix => body' = EmptyTree /\ rsnap' \in {NoSnap, EmptyTree} /\ rwal = <<>>
    BY Zenon, <2>1 DEF Prefix, Fetching
  <2> QED BY Zenon, <2>1, <2>2, <2>3, FollowsFetch
<1>19. CASE RemoveWAL
  <2>1. /\ UNCHANGED <<snap, wal, tail, behind, ppc, rtree, carry, split, outdated, compactions, crashes>>
        /\ rpc = "renamed" /\ body' = body /\ rsnap' = rsnap /\ rpc' = "removed" /\ rwal' = <<>>
    BY <1>19, Zenon DEF RemoveWAL, primaryVars, restVars, historyVars, boundVars
  <2>2. CASE Calm
    <3>1. Prefix
      BY Zenon, <1>0, <2>2
    <3>2. rwal' = rwal /\ body' = EmptyTree /\ rsnap' \in {NoSnap, EmptyTree} /\ rwal = <<>>
      BY Zenon, <2>1, <3>1 DEF Prefix, Fetching
    <3>3. rpc \notin {"stream", "down", "refused"} /\ rpc' \notin {"stream", "down", "refused"}
      BY Zenon, <2>1
    <3> QED BY Zenon, <2>1, <3>2, <3>3, FollowsFetch
  <2>3. CASE ~Calm
    <3>1. ~Calm'
      BY Zenon, <2>1, <2>3 DEF Calm
    <3> QED BY <3>1, NotCalm
  <2> QED BY Zenon, <2>2, <2>3
<1>20. CASE SwapTree
  BY Zenon, <1>20, FollowsSwap
<1>21. CASE ReplicaStart
  BY Zenon, <1>21, FollowsStart
<1>22. CASE ReplicaRefused
  BY Zenon, <1>22, FollowsRefused
<1>23. CASE FetchFails
  <2>1. /\ UNCHANGED <<snap, wal, tail, behind, ppc, rwal, rtree, carry, split, outdated, compactions, crashes>>
        /\ rpc = "fetched" /\ rpc' = "idle" /\ body' = body /\ rsnap' = rsnap
    BY <1>23, Zenon DEF FetchFails, primaryVars, historyVars
  <2>2. rpc \notin {"stream", "down", "refused"} /\ rpc' \notin {"stream", "down", "refused"}
    BY Zenon, <2>1
  <2>3. Prefix => body' = EmptyTree /\ rsnap' \in {NoSnap, EmptyTree} /\ rwal = <<>>
    BY Zenon, <2>1 DEF Prefix, Fetching
  <2> QED BY Zenon, <2>1, <2>2, <2>3, FollowsFetch
<1>24. CASE ReplicaCrash
  BY <1>24, FollowsCrash
<1>25. CASE ReloadSnapshot
  <2>1. UNCHANGED followVars /\ ppc' = ppc
    BY <1>25, Zenon DEF ReloadSnapshot, primaryVars, replicaVars, historyVars, followVars
  <2> QED BY <2>1, FollowsFrame
<1>26. CASE ReloadWAL
  <2>1. UNCHANGED followVars /\ ppc' = ppc
    BY <1>26, Zenon DEF ReloadWAL, primaryVars, replicaVars, historyVars, boundVars, followVars
  <2> QED BY <2>1, FollowsFrame
<1>27. CASE ReloadSwap
  BY <1>27, FollowsReload
<1> QED
  BY <1>1, <1>2, <1>3, <1>4, <1>5, <1>6, <1>7, <1>8, <1>9, <1>10, <1>11, <1>12,
     <1>13, <1>14, <1>15, <1>16, <1>17, <1>18, <1>19, <1>20, <1>21, <1>22, <1>23,
     <1>24, <1>25, <1>26, <1>27, Zenon
  DEF Next, PrimaryStep, HubStep, ReplicaStep, ReloadStep

-----------------------------------------------------------------------------
(* The theorems                                                            *)

(* Primary and replica start empty, the replica with nothing on disk.      *)
LEMMA InitIInv == ASSUME Init PROVE IInv
<1>1. Plain
  <2>1. reload \in [pc : {"idle", "loaded", "replayed"}, tree : Trees]
    BY Zenon, EmptyTreeType DEF Init, NoReload
  <2>2. past \subseteq Frames
    BY DEF Init, Frames, Values
  <2> QED BY <2>1, <2>2, EmptyTreeType, ReplicationAssumption DEF Init, Plain
<1>2. Flags
  BY Zenon DEF Init, Flags
<1>3. Session
  BY Zenon DEF Init, Session
<1>4. Held
  <2>1. \A d \in Domains : Frame(d, NoRR) \in past
    BY Zenon DEF Init
  <2>2. reload.tree = EmptyTree
    BY Zenon DEF Init, NoReload
  <2>3. Known(EmptyTree)
    BY ZenonT(60), <2>1 DEF Known, EmptyTree
  <2>4. snap = EmptyTree /\ body = EmptyTree /\ rtree = EmptyTree /\ rsnap = NoSnap
        /\ wal = <<>> /\ tail = <<>> /\ behind = <<>> /\ rwal = <<>> /\ carry = <<>>
    BY Zenon DEF Init
  <2> QED BY <2>1, <2>2, <2>3, <2>4 DEF Held
<1>5. Follows
  <2>1. Prefix
    BY DEF Init, Prefix, Bytes
  <2>2. Aligned
    BY DEF Init, Aligned, Half
  <2>3. Agrees
    BY Zenon DEF Init, Agrees
  <2> QED BY <2>1, <2>2, <2>3, Zenon DEF Follows
<1> QED BY Zenon, <1>1, <1>2, <1>3, <1>4, <1>5 DEF IInv

(* The inductive invariant holds in every reachable state.                 *)
THEOREM Invariance == Spec => []IInv
<1>1. Init => IInv
  BY Zenon, InitIInv
<1>2. IInv /\ [Next]_vars => IInv'
  BY Zenon, PlainKept, FlagsKept, HeldKept, FollowsKept DEF IInv
<1> QED BY <1>1, <1>2, PTL DEF Spec

(* The replica never serves, for any domain, what its primary never held:  *)
(* however connections, files and downloads break or change under the      *)
(* replica, wal.Replay accepts only frames the primary wrote.              *)
THEOREM ReplicaInventsNothing == Spec => []NothingInvented
<1>1. IInv => NothingInvented
  <2> SUFFICES ASSUME IInv PROVE NothingInvented
    BY Zenon
  <2>1. TypeOK
    BY Zenon DEF IInv, Plain, Flags, TypeOK
  <2> QED BY Zenon, <2>1 DEF IInv, Held, Known, NothingInvented
<1> QED BY <1>1, Invariance, PTL

(* While the primary neither compacts nor crashes, what the replica has on *)
(* disk is a prefix of the primary's WAL, in units of half frames, through *)
(* every broken session, crash and restart of the replica.                 *)
THEOREM ReplicaWALIsPrefix == Spec => []LocalWALIsPrefix
<1>1. IInv => LocalWALIsPrefix
  <2> SUFFICES ASSUME IInv, compactions = 0, crashes = 0
               PROVE  Len(rwal) <= Len(File) /\ rwal = SubSeq(File, 1, Len(rwal))
    BY Zenon DEF LocalWALIsPrefix
  <2>1. Prefix
    BY Zenon DEF IInv, Follows, Calm
  <2>0. File = Bytes(wal) /\ Len(File) = 2 * Len(wal)
    BY Zenon, <2>1, FileType DEF IInv, Prefix
  <2>2. rwal \in Seq(Units) /\ wal \in Seq(Frames) /\ Len(rwal) \in Nat /\ Len(wal) \in Nat
    BY DEF IInv, Plain
  <2>3. /\ Len(rwal) \in 0..Len(Bytes(wal)) /\ Bytes(wal) \in Seq(Units)
        /\ \A i \in 1..Len(rwal) : rwal[i] = Bytes(wal)[i]
    BY <2>1, <2>2, BytesType DEF Prefix
  <2> DEFINE q == SubSeq(Bytes(wal), 1, Len(rwal))
  <2>4. q \in Seq(Units) /\ Len(q) = Len(rwal) /\ \A i \in 1..Len(rwal) : q[i] = Bytes(wal)[i]
    BY Zenon, <2>3, Front
  <2> HIDE DEF q
  <2>5. \A i \in 1..Len(rwal) : rwal[i] = q[i]
    BY Zenon, <2>3, <2>4
  <2>6. rwal = q
    BY Zenon, <2>2, <2>4, <2>5, SameSeq
  <2> QED BY Zenon, <2>0, <2>1, <2>6 DEF Prefix, q
<1> QED BY <1>1, Invariance, PTL

(* A handler that waits at the end of the primary's WAL has brought its    *)
(* replica to the primary's tree, if the primary neither compacted nor     *)
(* crashed, no session ended inside a frame and no reload put back an      *)
(* older tree.                                                             *)
THEOREM CaughtUpReplicaAgrees == Spec => []CaughtUpAgrees
<1>1. IInv => CaughtUpAgrees
  <2> SUFFICES ASSUME IInv, compactions = 0, crashes = 0, ~split, ~outdated,
                      stream # NoStream, stream.pc = "waiting",
                      stream.offset = Len(File)
               PROVE  rtree = PrimaryTree
    BY Zenon DEF CaughtUpAgrees
  <2>1. Prefix /\ Agrees
    BY Zenon DEF IInv, Follows, Calm
  <2>0. Len(File) = 2 * Len(wal) /\ behind = <<>>
    BY Zenon, <2>1, FileType DEF IInv, Prefix
  <2>2. rpc = "stream" /\ Len(rwal) = 2 * Len(wal)
    BY Zenon, <2>0 DEF IInv, Session
  <2>3. wal \in Seq(Frames) /\ Len(wal) \in Nat
    BY DEF IInv, Plain
  <2>4. Half = Len(wal)
    BY <2>2, <2>3 DEF Half
  <2>5. SubSeq(wal, 1, Len(wal)) = wal
    BY <2>3
  <2>6. wal \o behind = wal
    BY <2>0, <2>3
  <2> QED BY ZenonT(60), <2>1, <2>2, <2>4, <2>5, <2>6 DEF Agrees, Prefix, PrimaryTree
<1> QED BY <1>1, Invariance, PTL
=============================================================================
