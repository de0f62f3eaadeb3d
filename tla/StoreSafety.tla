---------------------------- MODULE StoreSafety ----------------------------
(***************************************************************************)
(* The store keeps what it acknowledged, for every number of domains,      *)
(* callers, batches, crashes and faults: the inductive invariant behind    *)
(* Recoverable and AckedSurvives, and its proof.                           *)
(***************************************************************************)
EXTENDS StoreProofs

(* Acceptable, of any history. *)
Accept(t, a, m) == \A d \in Domains : t[d] = a[d] \/ Frame(d, t[d]) \in m

(* Replay decodes k items of the log w, and at most one item is left. *)
Decoded(w, k) == IsDecodable(w, k) /\ Len(w) <= k + 1

(* A crash may leave the first n items of w, of which s are synced, as the *)
(* frames Open replays, with nothing but an undecodable tail after them.   *)
Survives(w, s, n) ==
  /\ n \in 0..Len(w)
  /\ \A i \in 1..n : IsFrame(w[i])
  /\ n < s => n + 1 = s /\ ~IsFrame(w[s])

(* Whatever a crash leaves is acceptable. *)
SafeDisk(sn, w, s, a, m) ==
  \A n \in 0..Len(w) : Survives(w, s, n) => Accept(Replay(sn, SubSeq(w, 1, n)), a, m)

(* The log takes the tree to itself, and the snapshot to the tree. *)
SameTree(sn, w, t, mix) ==
  \A k \in 0..Len(w) :
    Decoded(w, k) => /\ Replay(t, SubSeq(w, 1, k)) = t
                     /\ ~mix => Replay(sn, SubSeq(w, 1, k)) = t

Safe ==
  /\ Running => Accept(tree, acked, maybe)
  /\ (Running /\ writer = "ok") => SameTree(snap, Written, tree, mixed)
  /\ snap # NoSnap => SafeDisk(snap, Written, synced, acked, maybe)

IInv == TypeOK /\ Control /\ Safe

-----------------------------------------------------------------------------
(* Logs.                                                                   *)

(* Where decoding stops is determined by the log. *)
LEMMA DecodableUnique ==
  ASSUME NEW w \in Seq(Items), NEW j, NEW k, IsDecodable(w, j), IsDecodable(w, k)
  PROVE  j = k
BY DEF IsDecodable

(* When all of a log is synced, a crash leaves what replay decodes. *)
LEMMA SyncedSurvives ==
  ASSUME NEW w \in Seq(Items), NEW n, Survives(w, Len(w), n)
  PROVE  Decoded(w, n)
BY DEF Survives, Decoded, IsDecodable

(* A log that is damaged at its end at most survives as far as it decodes. *)
LEMMA DecodedSurvives ==
  ASSUME NEW w \in Seq(Items), NEW k, IsDecodable(w, k), Undamaged(w)
  PROVE  Survives(w, Len(w), k)
BY DEF Survives, IsDecodable, Undamaged

(* Syncing more leaves a crash fewer choices. *)
LEMMA SyncShrinks ==
  ASSUME NEW w \in Seq(Items), NEW s \in 0..Len(w), NEW n, Survives(w, Len(w), n)
  PROVE  Survives(w, s, n)
BY DEF Survives

(* The frames at the front of a log that a write or a crash cut short are  *)
(* the ones at the front of the whole log.                                 *)
LEMMA CutFront ==
  ASSUME NEW log \in Seq(Items), NEW m \in 0..Len(log), NEW w \in Cuts(log, m),
         NEW n \in 0..Len(w), \A i \in 1..n : IsFrame(w[i])
  PROVE  /\ n \in 0..Len(log) /\ m <= Len(w)
         /\ \A i \in 1..n : w[i] = log[i]
         /\ \A i \in 1..m : w[i] = log[i]
         /\ SubSeq(w, 1, n) = SubSeq(log, 1, n)
<1>1. w \in Seq(Items)
  BY Zenon, CutsType
<1>2. PICK k \in m..Len(log) :
        /\ k \in 0..Len(log)
        /\ \/ w = SubSeq(log, 1, k) /\ Len(w) = k
           \/ w = Append(SubSeq(log, 1, k), Torn) /\ Len(w) = k + 1
  BY Zenon, CutsType
<1>3. /\ SubSeq(log, 1, k) \in Seq(Items) /\ Len(SubSeq(log, 1, k)) = k
      /\ \A i \in 1..k : SubSeq(log, 1, k)[i] = log[i]
  BY <1>2
<1>4. \A i \in 1..k : w[i] = log[i]
  BY <1>2, <1>3, ItemType
<1>5. Len(w) = k + 1 => w[k+1] = Torn
  BY <1>2, <1>3, ItemType
<1>6. n <= k
  BY <1>2, <1>5, ItemKinds
<1>7. SubSeq(w, 1, n) = SubSeq(log, 1, n)
  BY <1>1, <1>2, <1>4, <1>6
<1> QED
  BY <1>2, <1>4, <1>6, <1>7

(* A crash leaves nothing that a later crash could not have left. *)
LEMMA CutSurvives ==
  ASSUME NEW log \in Seq(Items), NEW s \in 0..Len(log), NEW w \in Cuts(log, s),
         NEW n, Survives(w, Len(w), n)
  PROVE  Survives(log, s, n) /\ SubSeq(w, 1, n) = SubSeq(log, 1, n)
<1>1. /\ w \in Seq(Items) /\ n \in 0..Len(w)
      /\ \A i \in 1..n : IsFrame(w[i])
      /\ n < Len(w) => n + 1 = Len(w) /\ ~IsFrame(w[Len(w)])
  BY Zenon, CutsType DEF Survives
<1>2. /\ n \in 0..Len(log) /\ s <= Len(w)
      /\ \A i \in 1..n : w[i] = log[i]
      /\ \A i \in 1..s : w[i] = log[i]
      /\ SubSeq(w, 1, n) = SubSeq(log, 1, n)
  BY <1>1, CutFront
<1>3. \A i \in 1..n : IsFrame(log[i])
  BY Zenon, <1>1, <1>2
<1>4. n < s => n + 1 = s /\ ~IsFrame(log[s])
  BY <1>1, <1>2
<1> QED
  BY Zenon, <1>2, <1>3, <1>4 DEF Survives

(* What survives of a log that failed to grow. *)
LEMMA ShortSurvives ==
  ASSUME NEW log \in Seq(Items), NEW m \in 0..Len(log), NEW w \in Cuts(log, m),
         NEW s \in 0..m, NEW n, Survives(w, s, n)
  PROVE  Survives(log, s, n) /\ SubSeq(w, 1, n) = SubSeq(log, 1, n)
<1>1. /\ n \in 0..Len(w) /\ \A i \in 1..n : IsFrame(w[i])
      /\ n < s => n + 1 = s /\ ~IsFrame(w[s])
  BY Zenon DEF Survives
<1>2. /\ n \in 0..Len(log) /\ m <= Len(w)
      /\ \A i \in 1..n : w[i] = log[i]
      /\ \A i \in 1..m : w[i] = log[i]
      /\ SubSeq(w, 1, n) = SubSeq(log, 1, n)
  BY Zenon, <1>1, CutFront
<1> QED
  BY <1>1, <1>2 DEF Survives

-----------------------------------------------------------------------------
(* What replay keeps acceptable.                                           *)

(* The value replay leaves in a domain is its own or a frame's. *)
LEMMA ReplayValue ==
  ASSUME NEW t, NEW log \in Seq(Frames), NEW d \in Domains
  PROVE  \/ \E i \in 1..Len(log) : /\ log[i].d = d /\ log[i] = Frame(d, Replay(t, log)[d])
                                   /\ \A u : Replay(u, log)[d] = log[i].rr
         \/ \A u : Replay(u, log)[d] = u[d]
<1>1. CASE \E i \in 1..Len(log) : log[i].d = d
  <2>1. PICK m \in 1..Len(log) : IsLast(log, d, m)
    BY Zenon, <1>1, LastExists
  <2>2. \A u : Replay(u, log)[d] = log[m].rr
    BY Zenon, <2>1, ReplayLast
  <2>3. log[m].d = d /\ log[m] = Frame(d, log[m].rr)
    BY <2>1, FrameType DEF IsLast
  <2> QED
    BY Zenon, <2>2, <2>3
<1>2. CASE \A i \in 1..Len(log) : log[i].d # d
  BY Zenon, <1>2, ReplayUntouched
<1> QED
  BY Zenon, <1>1, <1>2

(* Replaying frames that may have been written keeps a tree acceptable. *)
LEMMA AcceptReplay ==
  ASSUME NEW t, NEW log \in Seq(Frames), NEW a, NEW m, NEW m2,
         Accept(t, a, m), m \subseteq m2, \A i \in 1..Len(log) : log[i] \in m2
  PROVE  Accept(Replay(t, log), a, m2)
<1> SUFFICES ASSUME NEW d \in Domains
             PROVE  Replay(t, log)[d] = a[d] \/ Frame(d, Replay(t, log)[d]) \in m2
  BY Zenon DEF Accept
<1>1. CASE \E i \in 1..Len(log) : log[i] = Frame(d, Replay(t, log)[d])
  BY Zenon, <1>1
<1>2. CASE Replay(t, log)[d] = t[d]
  BY Zenon, <1>2 DEF Accept
<1> QED
  BY Zenon, <1>1, <1>2, ReplayValue

(* A log that is acceptable over one tree is so over any acceptable one. *)
LEMMA AcceptOver ==
  ASSUME NEW t, NEW u, NEW log \in Seq(Frames), NEW a, NEW m, NEW m2,
         Accept(Replay(t, log), a, m), Accept(u, a, m2), m \subseteq m2
  PROVE  Accept(Replay(u, log), a, m2)
<1> SUFFICES ASSUME NEW d \in Domains
             PROVE  Replay(u, log)[d] = a[d] \/ Frame(d, Replay(u, log)[d]) \in m2
  BY Zenon DEF Accept
<1>1. CASE Replay(u, log)[d] = Replay(t, log)[d]
  BY Zenon, <1>1 DEF Accept
<1>2. CASE Replay(u, log)[d] = u[d]
  BY Zenon, <1>2 DEF Accept
<1> QED
  BY <1>1, <1>2, ReplayValue

(* What may have been written only grows until callers are answered. *)
LEMMA AcceptGrows ==
  ASSUME NEW t, NEW a, NEW m, NEW m2, Accept(t, a, m), m \subseteq m2
  PROVE  Accept(t, a, m2)
BY Zenon DEF Accept

(* Replaying the end of a log first changes nothing. *)
LEMMA ReplayTwice ==
  ASSUME NEW t \in Trees, NEW u \in Seq(Frames), NEW v \in Seq(Frames)
  PROVE  Replay(Replay(t, v), u \o v) = Replay(t, u \o v)
<1> DEFINE w == u \o v
           r == Replay(t, v)
<1>1. /\ w \in Seq(Frames) /\ Len(w) = Len(u) + Len(v)
      /\ Len(u) \in Nat /\ Len(v) \in Nat
      /\ \A i \in 1..Len(v) : w[Len(u) + i] = v[i]
  OBVIOUS
<1>2. Replay(t, w) \in Trees
  BY <1>1, ReplayType, Zenon
<1> HIDE DEF w
<1>3. ASSUME NEW d \in Domains PROVE Replay(r, w)[d] = Replay(t, w)[d]
  <2>1. CASE \E i \in 1..Len(w) : w[i].d = d
    <3>1. PICK m \in 1..Len(w) : IsLast(w, d, m)
      BY <1>1, <2>1, LastExists, Zenon
    <3> QED
      BY <1>1, <3>1, ReplayLast
  <2>2. CASE \A i \in 1..Len(w) : w[i].d # d
    <3>1. \A i \in 1..Len(v) : v[i].d # d
      BY <1>1, <2>2
    <3>2. r[d] = t[d]
      BY <3>1, ReplayUntouched
    <3> QED
      BY <2>2, <3>2, ReplayUntouched
  <2> QED
    BY Zenon, <2>1, <2>2
<1> QED
  BY <1>2, <1>3, ReplayEqual DEF w

-----------------------------------------------------------------------------
(* What the steps of the store do to a safe disk.                          *)

(* The first n items of x are frames. *)
Whole(x, n) == \A i \in 1..n : IsFrame(x[i])

(* An operation appended its frames F to the log w, then the opcode of a   *)
(* rejected upsert or not, which gave x.                                   *)
Grew(w, F, x) ==
  /\ x \in Seq(Items)
  /\ \A i \in 1..Len(w) : x[i] = w[i]
  /\ \A i \in 1..Len(F) : x[Len(w) + i] = F[i]
  /\ \/ Len(x) = Len(w) + Len(F) /\ Len(F) > 0
     \/ Len(x) = Len(w) + Len(F) + 1 /\ x[Len(x)] = Orphan

LEMMA GrewFrames ==
  ASSUME NEW w \in Seq(Items), NEW F \in Seq(Frames), F # <<>>
  PROVE  Grew(w, F, w \o F)
<1>1. F \in Seq(Items) /\ Len(F) > 0
  BY ItemType, SeqWider
<1> QED
  BY <1>1 DEF Grew

LEMMA GrewOrphan ==
  ASSUME NEW w \in Seq(Items), NEW F \in Seq(Frames)
  PROVE  Grew(w, F, w \o Append(F, Orphan))
<1> DEFINE A == Append(F, Orphan)
<1>1. F \in Seq(Items) /\ Orphan \in Items
  BY Zenon, ItemType, SeqWider
<1>2. /\ A \in Seq(Items) /\ Len(A) = Len(F) + 1
      /\ \A i \in 1..Len(F) : A[i] = F[i]
      /\ A[Len(F) + 1] = Orphan
  BY ONLY <1>1
<1> HIDE DEF A
<1>3. /\ w \o A \in Seq(Items) /\ Len(w \o A) = Len(w) + Len(A)
      /\ \A i \in 1..Len(w) : (w \o A)[i] = w[i]
      /\ \A i \in 1..Len(A) : (w \o A)[Len(w) + i] = A[i]
      /\ Len(w) \in Nat /\ Len(F) \in Nat
  BY <1>2
<1> DEFINE x == w \o A
<1> HIDE DEF x
<1>4. /\ x \in Seq(Items) /\ Len(x) = Len(w) + (Len(F) + 1)
      /\ \A i \in 1..Len(w) : x[i] = w[i]
      /\ \A i \in 1..(Len(F) + 1) : x[Len(w) + i] = A[i]
      /\ Len(w) \in Nat /\ Len(F) \in Nat
  BY Zenon, <1>2, <1>3 DEF x
<1>5. x[Len(x)] = Orphan /\ Len(x) = Len(w) + Len(F) + 1
  BY ONLY <1>2, <1>4
<1>6. \A i \in 1..Len(F) : x[Len(w) + i] = F[i]
  BY ONLY <1>2, <1>4
<1> QED
  BY Zenon, <1>4, <1>5, <1>6 DEF Grew, x, A

(* The front of a log that grew. *)
LEMMA GrewFront ==
  ASSUME NEW w \in Seq(Items), NEW F \in Seq(Frames), NEW x, Grew(w, F, x),
         NEW n \in 0..Len(x), Whole(x, n)
  PROVE  /\ n <= Len(w) + Len(F)
         /\ n <= Len(w) => Whole(w, n) /\ SubSeq(x, 1, n) = SubSeq(w, 1, n)
<1>1. n <= Len(w) + Len(F)
  BY ItemKinds DEF Grew, Whole
<1>2. ASSUME n <= Len(w) PROVE Whole(w, n) /\ SubSeq(x, 1, n) = SubSeq(w, 1, n)
  <2>1. \A i \in 1..n : x[i] = w[i]
    BY <1>2 DEF Grew
  <2>2. Whole(w, n)
    BY Zenon, <2>1 DEF Whole
  <2>3. SubSeq(x, 1, n) = SubSeq(w, 1, n)
    BY <1>2, <2>1 DEF Grew
  <2> QED
    BY Zenon, <2>2, <2>3
<1> QED
  BY Zenon, <1>1, <1>2

(* The same, for a front that reaches into the new frames. *)
LEMMA GrewTail ==
  ASSUME NEW w \in Seq(Items), NEW F \in Seq(Frames), NEW x, Grew(w, F, x),
         NEW n \in 0..Len(x), Whole(x, n), n > Len(w)
  PROVE  /\ w \in Seq(Frames)
         /\ n - Len(w) \in 1..Len(F)
         /\ SubSeq(x, 1, n) = w \o SubSeq(F, 1, n - Len(w))
<1>1. /\ x \in Seq(Items) /\ Len(F) \in Nat /\ Len(w) \in Nat /\ Len(w) <= Len(x)
      /\ \A i \in 1..Len(w) : x[i] = w[i]
      /\ \A i \in 1..Len(F) : x[Len(w) + i] = F[i]
  BY DEF Grew
<1>2. F \in Seq(Items) /\ w \in Seq(Items) /\ n \in 0..Len(x) /\ n > Len(w) /\ n \in Nat
  BY <1>1, ItemType, SeqWider
<1>3. n <= Len(w) + Len(F)
  BY Zenon, GrewFront
<1>4. w \in Seq(Frames)
  <2>1. \A i \in 1..Len(w) : IsFrame(w[i])
    BY <1>1 DEF Whole
  <2>2. SubSeq(w, 1, Len(w)) \in Seq(Frames)
    <3>1. Len(w) \in 0..Len(w)
      BY <1>1
    <3> QED
      BY ONLY Zenon, <1>2, <2>1, <3>1, PrefixOfFrames
  <2> QED
    BY Zenon, <2>2, SubSeqAll
<1> DEFINE j == n - Len(w)
           g == SubSeq(F, 1, j)
<1>5. j \in 1..Len(F) /\ n = Len(w) + j
  BY ONLY <1>1, <1>2, <1>3
<1> HIDE DEF j
<1>6. g \in Seq(Items) /\ Len(g) = j /\ \A i \in 1..j : g[i] = F[i]
  BY ONLY <1>1, <1>2, <1>5
<1> HIDE DEF g
<1>7. /\ w \o g \in Seq(Items) /\ Len(w \o g) = n
      /\ \A i \in 1..Len(w) : (w \o g)[i] = w[i]
      /\ \A i \in 1..j : (w \o g)[Len(w) + i] = g[i]
  BY ONLY <1>1, <1>2, <1>5, <1>6
<1>8. ASSUME NEW i \in 1..n PROVE (w \o g)[i] = x[i]
  <2>0. i \in Nat /\ i >= 1 /\ i <= n
    BY <1>2
  <2>1. CASE i <= Len(w)
    BY ONLY <1>1, <1>2, <1>7, <2>0, <2>1
  <2>2. CASE ~(i <= Len(w))
    <3>1. i - Len(w) \in 1..j /\ i - Len(w) \in 1..Len(F) /\ i = Len(w) + (i - Len(w))
      BY ONLY <1>1, <1>2, <1>5, <2>0, <2>2
    <3> QED
      BY ONLY <1>1, <1>6, <1>7, <3>1
  <2> QED
    BY ONLY <2>1, <2>2, Zenon
<1>9. SubSeq(x, 1, n) \in Seq(Items) /\ Len(SubSeq(x, 1, n)) = n
      /\ \A i \in 1..n : SubSeq(x, 1, n)[i] = x[i]
  BY ONLY <1>1, <1>2
<1>10. SubSeq(x, 1, n) = w \o g
  BY <1>7, <1>8, <1>9, SameSeq, Zenon
<1> QED
  BY Zenon, <1>4, <1>5, <1>10 DEF g, j

(* The log grew and the tree with it. *)
LEMMA GrewSame ==
  ASSUME NEW sn \in Trees, NEW t \in Trees, NEW mix,
         NEW w \in Seq(Items), NEW F \in Seq(Frames), NEW x, Grew(w, F, x),
         SameTree(sn, w, t, mix)
  PROVE  SameTree(sn, x, Replay(t, F), mix)
<1> SUFFICES ASSUME NEW k \in 0..Len(x), Decoded(x, k)
             PROVE  /\ Replay(Replay(t, F), SubSeq(x, 1, k)) = Replay(t, F)
                    /\ ~mix => Replay(sn, SubSeq(x, 1, k)) = Replay(t, F)
  BY Zenon DEF SameTree
<1>1. Len(F) \in Nat /\ Len(w) \in Nat /\ Len(x) \in Nat
  BY DEF Grew
<1>2. Whole(x, k)
  BY Zenon DEF Decoded, IsDecodable, Whole
<1>3. k <= Len(w) + Len(F)
  BY Zenon, <1>2, GrewFront
<1>4. k = Len(w) + Len(F)
  <2>1. k < Len(x) => ~IsFrame(x[k+1]) /\ Len(x) = k + 1
    BY DEF Decoded, IsDecodable
  <2>2. CASE Len(x) = Len(w) + Len(F) + 1
    BY <1>1, <1>3, <2>1, <2>2
  <2>3. CASE Len(x) = Len(w) + Len(F) /\ Len(F) > 0
    <3>1. F[Len(F)] \in Frames /\ x[Len(w) + Len(F)] = F[Len(F)]
      BY <1>1, <2>3 DEF Grew
    <3>2. IsFrame(x[Len(x)])
      BY Zenon, <2>3, <3>1, ItemKinds
    <3> QED
      BY <1>1, <1>3, <2>1, <2>3, <3>2
  <2> QED
    BY Zenon, <2>2, <2>3 DEF Grew
<1>5. w \in Seq(Frames) /\ SubSeq(x, 1, k) = w \o F
  <2>1. CASE Len(F) > 0
    <3>1. k > Len(w)
      BY <1>1, <1>4, <2>1
    <3>2. w \in Seq(Frames)
      BY Zenon, <1>2, <3>1, GrewTail
    <3>3. SubSeq(x, 1, k) = w \o SubSeq(F, 1, k - Len(w))
      BY Zenon, <1>2, <3>1, GrewTail
    <3>4. k - Len(w) = Len(F)
      BY <1>1, <1>4
    <3>5. SubSeq(F, 1, Len(F)) = F
      BY Zenon, SubSeqAll
    <3> QED
      BY Zenon, <3>2, <3>3, <3>4, <3>5
  <2>2. CASE Len(F) = 0
    <3>1. k = Len(w)
      BY <1>1, <1>4, <2>2
    <3>2. SubSeq(x, 1, k) = SubSeq(w, 1, Len(w)) /\ \A i \in 1..k : IsFrame(w[i])
      <4>1. k <= Len(w)
        BY <1>1, <3>1
      <4> QED BY Zenon, <1>2, <3>1, <4>1, GrewFront DEF Whole
    <3>3. SubSeq(w, 1, Len(w)) = w /\ F = <<>>
      BY <1>1, <2>2, SubSeqAll
    <3>4. w \in Seq(Frames)
      BY <3>1, <3>2, <3>3, PrefixOfFrames
    <3>5. w \o F = w
      BY Zenon, <3>3, NothingAdded
    <3> QED
      BY <3>2, <3>3, <3>4, <3>5, Zenon
  <2> QED
    BY <1>1, <2>1, <2>2
<1>6. Decoded(w, Len(w)) /\ SubSeq(w, 1, Len(w)) = w /\ Len(w) \in 0..Len(w)
  <2>1. \A i \in 1..Len(w) : w[i] \in Frames
    BY <1>5
  <2>2. \A i \in 1..Len(w) : IsFrame(w[i])
    BY Zenon, <2>1, ItemKinds
  <2> QED
    BY <1>1, <2>2, SubSeqAll DEF Decoded, IsDecodable
<1>7. Replay(t, w) = t /\ (~mix => Replay(sn, w) = t)
  BY <1>6, Zenon DEF SameTree
<1>8. Replay(Replay(t, F), w \o F) = Replay(t, F)
  <2>1. Replay(Replay(t, F), w \o F) = Replay(t, w \o F)
    BY Zenon, <1>5, ReplayTwice
  <2>2. Replay(t, w \o F) = Replay(Replay(t, w), F)
    BY Zenon, <1>5, ReplayConcat
  <2> QED
    BY Zenon, <1>7, <2>1, <2>2
<1>9. ~mix => Replay(sn, w \o F) = Replay(t, F)
  <2>1. Replay(sn, w \o F) = Replay(Replay(sn, w), F)
    BY Zenon, <1>5, ReplayConcat
  <2> QED
    BY Zenon, <1>7, <2>1
<1> QED
  BY <1>5, <1>8, <1>9, Zenon

(* What was appended may survive a crash, in part or as a whole. *)
LEMMA GrewSafe ==
  ASSUME NEW sn \in Trees, NEW a, NEW m, NEW m2, m \subseteq m2,
         NEW w \in Seq(Items), NEW s \in 0..Len(w),
         NEW F \in Seq(Frames), NEW x, Grew(w, F, x),
         \A i \in 1..Len(F) : F[i] \in m2,
         SafeDisk(sn, w, s, a, m)
  PROVE  SafeDisk(sn, x, s, a, m2)
<1> SUFFICES ASSUME NEW n \in 0..Len(x), Survives(x, s, n)
             PROVE  Accept(Replay(sn, SubSeq(x, 1, n)), a, m2)
  BY Zenon DEF SafeDisk
<1>1. Len(F) \in Nat /\ Len(w) \in Nat /\ Len(x) \in Nat
  BY DEF Grew
<1>2. /\ Whole(x, n)
      /\ n < s => n + 1 = s /\ ~IsFrame(x[s])
  BY Zenon DEF Survives, Whole
<1>3. CASE n <= Len(w)
  <2>1. Whole(w, n) /\ SubSeq(x, 1, n) = SubSeq(w, 1, n)
    BY <1>2, <1>3, GrewFront
  <2>2. n < s => n + 1 = s /\ ~IsFrame(w[s])
    BY <1>1, <1>2 DEF Grew
  <2>3. n \in 0..Len(w) /\ Survives(w, s, n)
    BY <1>1, <1>3, <2>1, <2>2 DEF Survives, Whole
  <2>4. Accept(Replay(sn, SubSeq(w, 1, n)), a, m)
    BY Zenon, <2>3 DEF SafeDisk
  <2> QED
    BY <2>1, <2>4, AcceptGrows, Zenon
<1>4. CASE n > Len(w)
  <2>1. w \in Seq(Frames)
    BY Zenon, <1>2, <1>4, GrewTail
  <2> DEFINE j == n - Len(w)
             g == SubSeq(F, 1, j)
  <2>2. j \in 1..Len(F) /\ SubSeq(x, 1, n) = w \o g
    BY Zenon, <1>2, <1>4, GrewTail
  <2> HIDE DEF j
  <2>3. g \in Seq(Frames) /\ \A i \in 1..Len(g) : g[i] \in m2
    BY <2>2
  <2> HIDE DEF g
  <2>4. Survives(w, s, Len(w)) /\ SubSeq(w, 1, Len(w)) = w /\ Len(w) \in 0..Len(w)
    <3>1. \A i \in 1..Len(w) : w[i] \in Frames
      BY <2>1
    <3>2. \A i \in 1..Len(w) : IsFrame(w[i])
      BY Zenon, <3>1, ItemKinds
    <3> QED
      BY <1>1, <3>2, SubSeqAll DEF Survives
  <2>5. Accept(Replay(sn, w), a, m)
    BY <2>4, Zenon DEF SafeDisk
  <2>6. Accept(Replay(Replay(sn, w), g), a, m2)
    BY Zenon, <2>3, <2>5, AcceptReplay
  <2>7. Replay(sn, w \o g) = Replay(Replay(sn, w), g)
    BY Zenon, <2>1, <2>3, ReplayConcat
  <2> QED
    BY <2>2, <2>6, <2>7, Zenon
<1> QED
  BY <1>1, <1>3, <1>4

(* What survives a crash is a sequence of frames. *)
LEMMA SurvivorType ==
  ASSUME NEW w \in Seq(Items), NEW s, NEW n, Survives(w, s, n)
  PROVE  SubSeq(w, 1, n) \in Seq(Frames) /\ n \in 0..Len(w)
BY Zenon, PrefixOfFrames DEF Survives

(* Open, and a reload from disk. *)
LEMMA SafeOpened ==
  ASSUME NEW sn \in Trees, NEW w \in Seq(Items), NEW k, IsDecodable(w, k),
         NEW t, t = Replay(sn, SubSeq(w, 1, k)), NEW m, NEW mix
  PROVE  Accept(t, t, m) /\ SameTree(sn, w, t, mix) /\ SafeDisk(sn, w, Len(w), t, m)
<1>1. Accept(t, t, m)
  BY Zenon DEF Accept
<1>2. SubSeq(w, 1, k) \in Seq(Frames)
  BY Zenon, PrefixOfFrames DEF IsDecodable
<1>3. Replay(t, SubSeq(w, 1, k)) = t
  BY <1>2, ReplayIdempotent, Zenon
<1>4. SameTree(sn, w, t, mix)
  BY Zenon, <1>3, DecodableUnique DEF SameTree, Decoded
<1>5. SafeDisk(sn, w, Len(w), t, m)
  BY Zenon, <1>1, SyncedSurvives, DecodableUnique DEF SafeDisk, Decoded
<1> QED
  BY Zenon, <1>1, <1>4, <1>5

(* A WAL that was truncated behind a snapshot of the tree. *)
LEMMA SafeTruncated ==
  ASSUME NEW t \in Trees, NEW a, NEW m, NEW s, NEW mix, Accept(t, a, m)
  PROVE  SameTree(t, <<>>, t, mix) /\ SafeDisk(t, <<>>, s, a, m)
<1>1. Replay(t, <<>>) = t
  BY Zenon, ReplayEmpty
<1>2. \A n \in 0..Len(<<>>) : SubSeq(<<>>, 1, n) = <<>>
  OBVIOUS
<1> QED
  BY <1>1, <1>2, Zenon DEF SameTree, SafeDisk

(* An fsync. *)
LEMMA SafeSynced ==
  ASSUME NEW sn, NEW w \in Seq(Items), NEW s \in 0..Len(w), NEW a, NEW m,
         SafeDisk(sn, w, s, a, m)
  PROVE  SafeDisk(sn, w, Len(w), a, m)
BY Zenon, SyncShrinks DEF SafeDisk

(* A crash. *)
LEMMA SafeCrashed ==
  ASSUME NEW sn, NEW log \in Seq(Items), NEW s \in 0..Len(log), NEW a, NEW m,
         NEW w \in Cuts(log, s), SafeDisk(sn, log, s, a, m)
  PROVE  SafeDisk(sn, w, Len(w), a, m)
<1> SUFFICES ASSUME NEW n \in 0..Len(w), Survives(w, Len(w), n)
             PROVE  Accept(Replay(sn, SubSeq(w, 1, n)), a, m)
  BY Zenon DEF SafeDisk
<1>1. Survives(log, s, n) /\ SubSeq(w, 1, n) = SubSeq(log, 1, n)
  BY CutSurvives, Zenon
<1>2. n \in 0..Len(log)
  BY Zenon, <1>1, SurvivorType
<1> QED
  BY <1>1, <1>2, Zenon DEF SafeDisk

(* A write that failed. *)
LEMMA SafeShort ==
  ASSUME NEW sn, NEW log \in Seq(Items), NEW k \in 0..Len(log), NEW s \in 0..k,
         NEW a, NEW m, NEW w \in Cuts(log, k), SafeDisk(sn, log, s, a, m)
  PROVE  SafeDisk(sn, w, s, a, m)
<1> SUFFICES ASSUME NEW n \in 0..Len(w), Survives(w, s, n)
             PROVE  Accept(Replay(sn, SubSeq(w, 1, n)), a, m)
  BY Zenon DEF SafeDisk
<1>1. Survives(log, s, n) /\ SubSeq(w, 1, n) = SubSeq(log, 1, n)
  BY ShortSurvives, Zenon
<1>2. n \in 0..Len(log)
  BY Zenon, <1>1, SurvivorType
<1> QED
  BY <1>1, <1>2, Zenon DEF SafeDisk

(* Callers told of success, when all of the WAL is synced. *)
LEMMA SafeAcknowledged ==
  ASSUME NEW sn \in Trees, NEW w \in Seq(Items), NEW t \in Trees, NEW mix, NEW m,
         SameTree(sn, w, t, mix),
         mix => \A d \in Domains : Frame(d, sn[d]) \in m
  PROVE  SafeDisk(sn, w, Len(w), t, m)
<1> SUFFICES ASSUME NEW n \in 0..Len(w), Survives(w, Len(w), n)
             PROVE  Accept(Replay(sn, SubSeq(w, 1, n)), t, m)
  BY Zenon DEF SafeDisk
<1> DEFINE f == SubSeq(w, 1, n)
<1>1. f \in Seq(Frames)
  BY Zenon, SurvivorType
<1>2. Replay(t, f) = t /\ (~mix => Replay(sn, f) = t)
  BY Zenon, SyncedSurvives DEF SameTree
<1> HIDE DEF f
<1>3. CASE ~mix
  BY <1>2, <1>3, Zenon DEF Accept, f
<1>4. CASE mix
  <2> SUFFICES ASSUME NEW d \in Domains
               PROVE  Replay(sn, f)[d] = t[d] \/ Frame(d, Replay(sn, f)[d]) \in m
    BY Zenon DEF Accept, f
  <2>1. CASE Replay(sn, f)[d] = Replay(t, f)[d]
    BY Zenon, <1>2, <2>1
  <2>2. CASE Replay(sn, f)[d] = sn[d]
    BY Zenon, <1>4, <2>2
  <2> QED
    BY <1>1, <2>1, <2>2, ReplayValue
<1> QED
  BY Zenon, <1>3, <1>4

(* A new snapshot in front of the old WAL. *)
LEMMA SafeReplaced ==
  ASSUME NEW sn, NEW t \in Trees, NEW w \in Seq(Items), NEW s, NEW a, NEW m, NEW m2,
         m \subseteq m2, SafeDisk(sn, w, s, a, m), Accept(t, a, m2)
  PROVE  SafeDisk(t, w, s, a, m2)
<1> SUFFICES ASSUME NEW n \in 0..Len(w), Survives(w, s, n)
             PROVE  Accept(Replay(t, SubSeq(w, 1, n)), a, m2)
  BY Zenon DEF SafeDisk
<1>1. SubSeq(w, 1, n) \in Seq(Frames)
  BY Zenon, SurvivorType
<1>2. Accept(Replay(sn, SubSeq(w, 1, n)), a, m)
  BY Zenon DEF SafeDisk
<1> QED
  BY <1>1, <1>2, AcceptOver, Zenon

(* More may have been written. *)
LEMMA SafeGrows ==
  ASSUME NEW sn, NEW w, NEW s, NEW a, NEW m, NEW m2, m \subseteq m2,
         SafeDisk(sn, w, s, a, m)
  PROVE  SafeDisk(sn, w, s, a, m2)
BY Zenon, AcceptGrows DEF SafeDisk

-----------------------------------------------------------------------------
(* Every step of the store keeps it safe.                                  *)

(* With nothing buffered, the WAL is what was written of it. *)
LEMMA WrittenUnbuffered ==
  ASSUME NEW w \in Seq(Items)
  PROVE  w \o <<>> = w
BY Zenon, NothingAdded

(* What a batch appends goes behind what is buffered. *)
LEMMA WrittenAppend ==
  ASSUME NEW u \in Seq(Items), NEW v \in Seq(Items), NEW w \in Seq(Items)
  PROVE  (u \o v) \o w = u \o (v \o w)
<1>1. /\ (u \o v) \o w \in Seq(Items) /\ u \o (v \o w) \in Seq(Items)
      /\ Len((u \o v) \o w) = Len(u \o (v \o w))
      /\ \A i \in 1..Len((u \o v) \o w) : ((u \o v) \o w)[i] = (u \o (v \o w))[i]
  OBVIOUS
<1> QED
  BY Zenon, <1>1, SameSeq

(* Steps that touch neither files nor tree. *)
LEMMA SafeUntouched ==
  ASSUME Safe, Running' = Running,
         UNCHANGED <<snap, wal, synced, buf, writer, tree, acked, maybe, mixed>>
  PROVE  Safe'
BY Zenon DEF Safe, Written

(* wal.Writer.Flush, whether it succeeds or not. *)
LEMMA SafeFlushed ==
  ASSUME TypeOK, Safe, FlushOK \/ FlushFails,
         UNCHANGED <<snap, tree, status, acked, maybe, mixed>>
  PROVE  Safe'
<1>0. TypeDisk
  BY Zenon, TypeParts
<1>1. Written \in Seq(Items) /\ synced \in 0..Len(Written)
  BY Zenon, <1>0, WrittenType
<1>2. CASE FlushOK
  <2>1. wal' = Written /\ buf' = <<>> /\ writer' = "ok" /\ writer = "ok" /\ synced' = Len(wal')
    BY Zenon, <1>2 DEF FlushOK, Written
  <2>2. Written' = Written
    BY Zenon, <1>1, <2>1, WrittenUnbuffered DEF Written
  <2>3. snap # NoSnap => SafeDisk(snap, Written, Len(Written), acked, maybe)
    BY Zenon, <1>1, SafeSynced DEF Safe
  <2> QED
    BY Zenon, <2>1, <2>2, <2>3 DEF Safe, Running
<1>3. CASE FlushFails /\ Written' = Written /\ synced' = synced /\ (writer' = "ok" => writer = "ok")
  BY Zenon, <1>3 DEF Safe, Running
<1>4. CASE /\ writer = "ok" /\ writer' = "failed" /\ synced' = synced
           /\ wal' \in Cuts(wal \o buf, Len(wal))
  <2>1. Written = wal \o buf /\ Written' = wal'
    BY Zenon, <1>4 DEF Written
  <2>2. Len(wal) \in 0..Len(Written) /\ synced \in 0..Len(wal)
    BY <1>0, WrittenType DEF TypeDisk
  <2>3. wal' \in Cuts(Written, Len(wal))
    BY Zenon, <1>4, <2>1
  <2>4. snap # NoSnap => SafeDisk(snap, wal', synced, acked, maybe)
    BY Zenon, <1>1, <2>2, <2>3, SafeShort DEF Safe
  <2> QED
    BY Zenon, <1>4, <2>1, <2>4 DEF Safe, Running
<1>5. ASSUME FlushFails
      PROVE  \/ Written' = Written /\ synced' = synced /\ (writer' = "ok" => writer = "ok")
             \/ /\ writer = "ok" /\ writer' = "failed" /\ synced' = synced
                /\ wal' \in Cuts(wal \o buf, Len(wal))
  <2>1. CASE writer = "ok" /\ wal' = wal \o buf /\ writer' = writer /\ buf' = <<>> /\ synced' = synced
    <3>1. Written = wal' /\ Written' = wal' \o <<>>
      BY Zenon, <2>1 DEF Written
    <3> QED
      BY Zenon, <1>1, <2>1, <3>1, WrittenUnbuffered
  <2>2. CASE writer # "ok" /\ wal' = wal /\ writer' # "ok" /\ synced' = synced
    BY Zenon, <2>2 DEF Written
  <2> QED
    BY Zenon, <1>5, <2>1, <2>2 DEF FlushFails
<1> QED
  BY Zenon, <1>2, <1>3, <1>4, <1>5

(* The WAL cannot be reopened for truncation. *)
LEMMA SafeNotTruncated ==
  ASSUME TypeOK, Safe, TruncateFails, buf = <<>>, buf' = <<>>,
         UNCHANGED <<snap, tree, status, acked, maybe, mixed>>
  PROVE  Safe'
<1>1. wal \in Seq(Items)
  BY Zenon, TypeParts DEF TypeDisk
<1>2. Written = wal /\ Written' = wal /\ writer' = "closed" /\ synced' = synced
  BY Zenon, <1>1, WrittenUnbuffered DEF TruncateFails, Written
<1> QED
  BY Zenon, <1>2 DEF Safe, Running

(* The process ended and left of the WAL what replay may accept. *)
LEMMA SafeForgotten ==
  ASSUME ForgetMemory, wal' \in Seq(Items), synced' = Len(wal'), snap' = snap,
         snap # NoSnap => SafeDisk(snap, wal', Len(wal'), acked, maybe)
  PROVE  Safe'
<1>1. Written' = wal'
  BY Zenon, WrittenUnbuffered DEF ForgetMemory, Written
<1> QED
  BY Zenon, <1>1 DEF ForgetMemory, historyVars, Safe, Running

(* One operation of a batch, appended to the buffer and applied. *)
LEMMA SafeApply ==
  ASSUME TypeOK, Control, Safe, ApplyOperation
  PROVE  Safe'
<1> DEFINE op == worker.batch[worker.next]
           F == Issued(tree, op)
           A == Appended(tree, op)
<1>0. TypeDisk /\ TypeTree /\ TypeWorker
  BY Zenon, TypeParts
<1>1. op \in Mutation
  BY <1>0 DEF ApplyOperation, Control, TypeWorker
<1>2. tree \in Trees
  BY Zenon, <1>0 DEF TypeTree
<1>3. /\ F \in Seq(Frames) /\ A \in Seq(Items)
      /\ op.rr \notin Oversize => A = F
      /\ op.rr \in Oversize => A = Append(F, Orphan)
  BY Zenon, <1>1, <1>2, IssuedType
<1>4. op.rr \notin Oversize => F # <<>>
  BY DEF Issued
<1>5. /\ buf' = buf \o A /\ tree' = Replay(tree, F)
      /\ maybe' = maybe \cup {F[i] : i \in 1..Len(F)}
      /\ UNCHANGED <<snap, wal, synced, writer, status, mixed, acked>>
  BY Zenon DEF ApplyOperation, diskVars
<1> HIDE DEF op, F, A
<1>6. maybe \subseteq maybe' /\ \A i \in 1..Len(F) : F[i] \in maybe'
  BY Zenon, <1>5
<1>7. Running /\ snap \in Trees
  BY Zenon, <1>0 DEF ApplyOperation, Control, Idle, IdleWorker, TypeDisk, Running
<1>8. Running' /\ Accept(tree', acked', maybe')
  BY Zenon, <1>3, <1>5, <1>6, <1>7, AcceptReplay DEF Safe, Running
<1>9. /\ Written \in Seq(Items) /\ synced \in 0..Len(Written)
  BY Zenon, <1>0, WrittenType
<1>10. Grew(Written, F, Written \o A)
  BY <1>3, <1>4, <1>9, GrewFrames, GrewOrphan, Zenon
<1>11. writer = "ok" => Written' = Written \o A
  <2>1. wal \in Seq(Items) /\ buf \in Seq(Items)
    BY Zenon, <1>0 DEF TypeDisk
  <2>2. (wal \o buf) \o A = wal \o (buf \o A)
    BY ONLY Zenon, <1>3, <2>1, WrittenAppend
  <2> QED
    BY Zenon, <1>5, <2>2 DEF Written
<1>12. CASE writer = "ok"
  <2>1. SameTree(snap', Written', tree', mixed')
    BY <1>2, <1>3, <1>5, <1>7, <1>9, <1>10, <1>11, <1>12, GrewSame, Zenon DEF Safe
  <2>2. SafeDisk(snap, Written \o A, synced, acked, maybe')
    <3>1. SafeDisk(snap, Written, synced, acked, maybe)
      BY Zenon, <1>7, Limits DEF Safe
    <3> QED
      BY <1>3, <1>6, <1>7, <1>9, <1>10, <3>1, GrewSafe
  <2> QED
    BY <1>5, <1>8, <1>11, <1>12, <2>1, <2>2, Zenon DEF Safe
<1>13. CASE writer # "ok"
  <2>1. Written' = Written
    BY Zenon, <1>5, <1>13 DEF Written
  <2>2. snap # NoSnap => SafeDisk(snap, Written, synced, acked, maybe')
    BY Zenon, <1>6, SafeGrows DEF Safe
  <2> QED
    BY Zenon, <1>5, <1>8, <1>13, <2>1, <2>2 DEF Safe
<1> QED
  BY Zenon, <1>12, <1>13

(* A torn frame after the log changes nothing: replay stops there. *)
LEMMA SafeTorn ==
  ASSUME NEW sn, NEW w \in Seq(Items), NEW s \in 0..Len(w), NEW a, NEW m,
         SafeDisk(sn, w, s, a, m)
  PROVE  SafeDisk(sn, Append(w, Torn), s, a, m)
<1> DEFINE x == Append(w, Torn)
<1>1. /\ x \in Seq(Items) /\ Len(x) = Len(w) + 1 /\ x[Len(w) + 1] = Torn
      /\ \A i \in 1..Len(w) : x[i] = w[i]
  BY ItemType
<1> HIDE DEF x
<1>2. ASSUME NEW n \in 0..Len(x), Survives(x, s, n)
      PROVE  Accept(Replay(sn, SubSeq(x, 1, n)), a, m)
  <2>1. n # Len(w) + 1
    BY <1>1, <1>2, ItemKinds DEF Survives
  <2>2. n \in 0..Len(w)
    BY <1>1, <2>1
  <2>3. Survives(w, s, n)
    BY <1>1, <1>2, <2>2 DEF Survives
  <2>4. SubSeq(x, 1, n) = SubSeq(w, 1, n)
    BY <1>1, <2>2
  <2> QED
    BY <2>2, <2>3, <2>4, Zenon DEF SafeDisk
<1> QED
  BY Zenon, <1>2 DEF SafeDisk, x

(* A write that fails in the middle of a batch. *)
LEMMA SafeWriteFails ==
  ASSUME TypeOK, Control, Safe, ApplyWriteFails
  PROVE  Safe'
<1>0. TypeDisk /\ TypeTree
  BY Zenon, TypeParts
<1>1. PICK F \in Seq(Frames) :
        /\ wal \o buf \o F \in Seq(Items)
        /\ Len(wal) \in 0..Len(wal \o buf \o F)
        /\ wal \o buf \in Seq(Items) /\ Len(wal) \in 0..Len(wal \o buf)
        /\ \/ wal' \in Cuts(wal \o buf \o F, Len(wal))
           \/ wal' = Append(wal \o buf \o F, Torn)
        /\ tree' = Replay(tree, F)
        /\ maybe' = maybe \cup {F[i] : i \in 1..Len(F)}
  BY Zenon, WriteFailsType
<1>2. /\ writer = "ok" /\ writer' = "failed"
      /\ UNCHANGED <<snap, synced, status, mixed, acked>>
  BY Zenon DEF ApplyWriteFails
<1>3. Running /\ snap \in Trees
  BY Zenon, <1>0 DEF ApplyWriteFails, Control, Idle, IdleWorker, TypeDisk, Running
<1>4. maybe \subseteq maybe' /\ \A i \in 1..Len(F) : F[i] \in maybe'
  BY Zenon, <1>1
<1>5. Accept(tree', acked', maybe')
  BY Zenon, <1>0, <1>1, <1>2, <1>3, <1>4, AcceptReplay DEF Safe, TypeTree
<1> DEFINE w == wal \o buf
           x == wal \o buf \o F
<1>6. /\ w \in Seq(Items) /\ x \in Seq(Items) /\ x = w \o F
      /\ synced \in 0..Len(w) /\ synced <= Len(wal) /\ Len(wal) \in 0..Len(x)
  BY <1>0, <1>1 DEF TypeDisk
<1>7. SafeDisk(snap, w, synced, acked, maybe)
  BY Zenon, <1>2, <1>3, Limits DEF Safe, Written
<1>8. wal' \in Cuts(x, Len(wal)) \/ wal' = Append(x, Torn)
  BY Zenon, <1>1
<1> HIDE DEF w, x
<1>9. SafeDisk(snap, x, synced, acked, maybe')
  <2>1. CASE F = <<>>
    <3>1. x = w
      BY <1>6, <2>1
    <3> QED
      BY Zenon, <1>4, <1>7, <3>1, SafeGrows
  <2>2. CASE F # <<>>
    <3>1. Grew(w, F, x)
      BY Zenon, <1>1, <1>6, <2>2, GrewFrames
    <3> QED
      BY <1>1, <1>3, <1>4, <1>6, <1>7, <3>1, GrewSafe, Zenon
  <2> QED
    BY Zenon, <2>1, <2>2
<1>10. SafeDisk(snap, wal', synced, acked, maybe')
  <2>0. synced \in 0..Len(x) /\ synced \in 0..Len(wal)
    BY <1>0, <1>6 DEF TypeDisk
  <2>1. CASE wal' \in Cuts(x, Len(wal))
    BY <1>6, <1>9, <2>0, <2>1, SafeShort, Zenon
  <2>2. CASE wal' = Append(x, Torn)
    BY <1>6, <1>9, <2>0, <2>2, SafeTorn, Zenon
  <2> QED
    BY Zenon, <1>8, <2>1, <2>2
<1>11. Written' = wal'
  BY Zenon, <1>2 DEF Written
<1> QED
  BY Zenon, <1>2, <1>5, <1>10, <1>11 DEF Safe

(* Every step keeps the inductive invariant: the one that makes Recoverable *)
(* and AckedSurvives hold.                                                  *)
LEMMA SafeStep ==
  ASSUME TypeOK, Control, Safe, Next
  PROVE  Safe'
<1>0. TypeDisk /\ TypeTree /\ TypeWorker /\ TypeRest /\ Control
  BY Zenon, TypeParts
<1> USE DEF diskVars, writerVars, callerVars, compactVars, historyVars, boundVars
<1>1. CASE Bootstrap
  <2>1. /\ wal = <<>> /\ buf = <<>> /\ writer = "ok" /\ ~Running
    BY Zenon, <1>0, <1>1 DEF Bootstrap, Control, Idle, Running
  <2>2. Written' = <<>>
    BY <1>1, <2>1, WrittenUnbuffered DEF Bootstrap, Written
  <2>3. snap' \in Trees /\ acked' = snap'
    BY Zenon, <1>1, Limits, TreeTypes DEF Bootstrap
  <2>4. Accept(snap', acked', maybe')
    BY Zenon, <2>3 DEF Accept
  <2>5. SafeDisk(snap', <<>>, synced', acked', maybe')
    BY Zenon, <2>3, <2>4, SafeTruncated
  <2> QED
    BY Zenon, <1>1, <2>1, <2>2, <2>5 DEF Bootstrap, Safe, Running
<1>2. CASE Open
  <2>1. /\ buf = <<>> /\ writer = "ok" /\ synced = Len(wal)
    BY Zenon, <1>0, <1>2 DEF Open, Control, Idle, Running
  <2>2. Written' = wal
    BY Zenon, <1>0, <1>2, <2>1, WrittenUnbuffered DEF Open, Written, TypeDisk
  <2>3. snap \in Trees /\ wal \in Seq(Items)
    BY Zenon, <1>0, <1>2 DEF Open, TypeDisk
  <2>4. PICK k \in 0..Len(wal) : IsDecodable(wal, k) /\ tree' = Replay(snap, SubSeq(wal, 1, k))
    BY Zenon, <1>2 DEF Open
  <2>5. /\ Accept(tree', tree', maybe') /\ SameTree(snap, wal, tree', mixed')
        /\ SafeDisk(snap, wal, Len(wal), tree', maybe')
    BY Zenon, <2>3, <2>4, SafeOpened
  <2>6. acked' = tree' /\ snap' = snap /\ synced' = synced
    BY Zenon, <1>2 DEF Open
  <2> QED
    BY Zenon, <2>1, <2>2, <2>5, <2>6 DEF Safe
<1>3. CASE OpenRefused
  BY <1>3, SafeUntouched DEF OpenRefused, Running
<1>4. CASE CollectBatch
  BY Zenon, <1>4, SafeUntouched DEF CollectBatch, Running
<1>5. CASE WorkerExit
  BY Zenon, <1>5, SafeUntouched DEF WorkerExit, Running
<1>6. CASE CommitLock
  BY Zenon, <1>6, SafeUntouched DEF CommitLock, Running
<1>7. CASE ApplyOperation
  BY Zenon, <1>7, SafeApply
<1>8. CASE ApplyFails
  BY Zenon, <1>8, SafeUntouched DEF ApplyFails, Running
<1>9. CASE CommitFlush
  BY Zenon, <1>9, SafeFlushed DEF CommitFlush
<1>10. CASE CommitReply
  <2>1. CASE worker.flushErr /\ UNCHANGED historyVars
    BY Zenon, <1>10, <2>1, SafeUntouched DEF CommitReply, Running
  <2>2. CASE ~worker.flushErr /\ acked' = tree /\ maybe' = (IF mixed THEN FramesOf(snap) ELSE {}) /\ mixed' = mixed
    <3>1. /\ buf = <<>> /\ writer = "ok" /\ synced = Len(wal) /\ Running
          /\ snap # NoSnap
      BY Zenon, <1>0, <1>10, <2>2 DEF CommitReply, Control, Idle, IdleWorker, Running
    <3>2. UNCHANGED <<snap, wal, synced, buf, writer, tree, status>>
      BY Zenon, <1>10 DEF CommitReply
    <3>3. Written = wal /\ Written' = wal /\ wal \in Seq(Items)
      BY Zenon, <1>0, <3>1, <3>2, WrittenUnbuffered DEF Written, TypeDisk
    <3>4. snap \in Trees /\ tree \in Trees
      BY Zenon, <1>0, <3>1 DEF TypeDisk, TypeTree
    <3>5. SameTree(snap, wal, tree, mixed)
      BY Zenon, <3>1, <3>3 DEF Safe
    <3>6. mixed => \A d \in Domains : Frame(d, snap[d]) \in maybe'
      BY Zenon, <2>2 DEF FramesOf
    <3>7. SafeDisk(snap, wal, Len(wal), tree, maybe')
      BY Zenon, <3>3, <3>4, <3>5, <3>6, SafeAcknowledged
    <3>8. Accept(tree, tree, maybe')
      BY Zenon DEF Accept
    <3> QED
      BY Zenon, <2>2, <3>1, <3>2, <3>3, <3>5, <3>7, <3>8 DEF Safe
  <2> QED
    BY Zenon, <1>10, <2>1, <2>2 DEF CommitReply
<1>11. CASE CompactTrigger
  BY Zenon, <1>11, SafeUntouched DEF CompactTrigger, Running
<1>12. CASE CompactorExit
  BY Zenon, <1>12, SafeUntouched DEF CompactorExit, Running
<1>13. CASE CompactSave
  <2>1. Written \in Seq(Items) /\ Written' = Written
    BY Zenon, <1>0, <1>13, WrittenType DEF CompactSave, Written
  <2>2. Running /\ snap # NoSnap /\ tree \in Trees
    BY Zenon, <1>0, <1>13 DEF CompactSave, Control, Running, TypeTree
  <2>3. SafeDisk(tree, Written, synced, acked, maybe)
    BY Zenon, <2>1, <2>2, SafeReplaced DEF Safe
  <2>4. writer = "ok" => SameTree(tree, Written, tree, FALSE)
    BY Zenon, <2>2 DEF Safe, SameTree
  <2>5. /\ snap' = tree /\ mixed' = FALSE
        /\ UNCHANGED <<synced, writer, tree, status, acked, maybe>>
    BY Zenon, <1>13 DEF CompactSave
  <2> QED
    BY <2>1, <2>3, <2>4, <2>5, Zenon DEF Safe, Running
<1>14. CASE CompactSaveFails
  BY Zenon, <1>14, SafeUntouched DEF CompactSaveFails, Running
<1>15. CASE CompactFlush
  BY Zenon, <1>15, SafeFlushed DEF CompactFlush
<1>16. CASE CompactTruncate
  <2>1. buf = <<>> /\ Running /\ snap = tree /\ tree \in Trees
    BY Zenon, <1>0, <1>16 DEF CompactTruncate, Control, Idle, Running, TypeTree
  <2>2. CASE TruncateOK
    <3>1. Written' = <<>>
      BY <1>16, <2>1, <2>2, WrittenUnbuffered DEF CompactTruncate, TruncateOK, Written
    <3>2. SameTree(tree, <<>>, tree, mixed) /\ SafeDisk(tree, <<>>, synced', acked, maybe)
      BY Zenon, <2>1, SafeTruncated DEF Safe
    <3> QED
      BY Zenon, <1>16, <2>1, <2>2, <3>1, <3>2 DEF CompactTruncate, TruncateOK, Safe, Running
  <2>3. CASE TruncateFails
    BY Zenon, <1>16, <2>1, <2>3, SafeNotTruncated DEF CompactTruncate
  <2> QED
    BY Zenon, <1>16, <2>2, <2>3 DEF CompactTruncate
<1>17. CASE ReloadFromDisk
  <2>1. UNCHANGED <<snap, status, mixed>>
    BY Zenon, <1>17 DEF ReloadFromDisk
  <2>2. CASE (FlushOK \/ FlushFails) /\ UNCHANGED <<tree, acked, maybe>>
    BY Zenon, <2>1, <2>2, SafeFlushed
  <2>3. CASE /\ FlushOK /\ acked' = tree'
             /\ \E k \in 0..Len(wal') : IsDecodable(wal', k) /\ tree' = Replay(snap, SubSeq(wal', 1, k))
    <3>1. wal' \in Seq(Items) /\ buf' = <<>> /\ synced' = Len(wal')
      BY Zenon, <1>0, <2>3, FlushType DEF FlushOK, TypeDisk, TypeRest
    <3>2. Written' = wal'
      BY Zenon, <3>1, WrittenUnbuffered DEF Written
    <3>3. snap \in Trees
      BY Zenon, <1>0, <1>17 DEF ReloadFromDisk, Control, Running, TypeDisk
    <3>4. /\ Accept(tree', tree', maybe') /\ SameTree(snap, wal', tree', mixed')
          /\ SafeDisk(snap, wal', Len(wal'), tree', maybe')
      BY Zenon, <2>3, <3>1, <3>3, SafeOpened
    <3> QED
      BY Zenon, <2>1, <2>3, <3>1, <3>2, <3>4 DEF Safe
  <2> QED
    BY Zenon, <1>17, <2>2, <2>3 DEF ReloadFromDisk
<1>18. CASE ReloadSave
  <2>1. Written \in Seq(Items) /\ Written' = Written
    BY Zenon, <1>0, <1>18, WrittenType DEF ReloadSave, Written
  <2>2. Running /\ snap # NoSnap /\ snap' \in Trees
    BY Zenon, <1>0, <1>18, Limits DEF ReloadSave, Control, Running
  <2>3. maybe \subseteq maybe' /\ Accept(snap', acked, maybe')
    BY Zenon, <1>18 DEF ReloadSave, FramesOf, Accept
  <2>4. SafeDisk(snap', Written, synced, acked, maybe')
    BY Zenon, <2>1, <2>2, <2>3, SafeReplaced DEF Safe
  <2>5. Accept(tree, acked, maybe')
    BY Zenon, <2>2, <2>3, AcceptGrows DEF Safe
  <2>6. writer = "ok" => SameTree(snap', Written, tree, TRUE)
    BY Zenon, <2>2 DEF Safe, SameTree
  <2>7. /\ mixed' = TRUE
        /\ UNCHANGED <<synced, writer, tree, status, acked>>
    BY Zenon, <1>18 DEF ReloadSave
  <2> QED
    BY <2>1, <2>4, <2>5, <2>6, <2>7, Zenon DEF Safe, Running
<1>19. CASE ReloadFlush
  BY Zenon, <1>19, SafeFlushed DEF ReloadFlush
<1>20. CASE ReloadTruncate
  <2>1. buf = <<>> /\ Running /\ snap' = snap /\ snap \in Trees
    BY Zenon, <1>0, <1>20 DEF ReloadTruncate, Control, Idle, Running, TypeDisk
  <2>2. CASE TruncateOK /\ tree' = snap /\ acked' = snap
    <3>1. Written' = <<>>
      BY <1>20, <2>1, <2>2, WrittenUnbuffered DEF ReloadTruncate, TruncateOK, Written
    <3>2. Accept(snap, snap, maybe')
      BY DEF Accept
    <3>3. SameTree(snap, <<>>, snap, mixed') /\ SafeDisk(snap, <<>>, synced', snap, maybe')
      BY Zenon, <2>1, <3>2, SafeTruncated
    <3> QED
      BY Zenon, <1>20, <2>1, <2>2, <3>1, <3>2, <3>3 DEF ReloadTruncate, Safe
  <2>3. CASE TruncateFails /\ UNCHANGED <<tree, historyVars>>
    BY Zenon, <1>20, <2>1, <2>3, SafeNotTruncated DEF ReloadTruncate
  <2> QED
    BY Zenon, <1>20, <2>2, <2>3 DEF ReloadTruncate
<1>21. CASE CloseBegin
  BY <1>21, SafeUntouched DEF CloseBegin, Running
<1>22. CASE CloseEnd
  <2>1. Written \in Seq(Items) /\ synced \in 0..Len(Written)
    BY Zenon, <1>0, WrittenType
  <2>2. snap # NoSnap => SafeDisk(snap, Written, Len(Written), acked, maybe)
    BY Zenon, <2>1, SafeSynced DEF Safe
  <2> QED
    BY Zenon, <1>22, <2>1, <2>2, SafeForgotten DEF CloseEnd
<1>23. CASE Crash
  <2>1. Written \in Seq(Items) /\ synced \in 0..Len(Written)
    BY <1>0, WrittenType
  <2>2. wal' \in Cuts(Written, synced) /\ wal' \in Seq(Items)
    BY Zenon, <1>23, <2>1, CutsType DEF Crash
  <2>3. snap # NoSnap => SafeDisk(snap, wal', Len(wal'), acked, maybe)
    BY Zenon, <2>1, <2>2, SafeCrashed DEF Safe
  <2> QED
    BY Zenon, <1>23, <2>2, <2>3, SafeForgotten DEF Crash
<1>24. ASSUME NEW c \in Callers, NEW d \in Domains, NEW rr \in Inputs \cup {NoRR},
             Enqueue(c, d, rr)
      PROVE  Safe'
  BY Zenon, <1>24, SafeUntouched DEF Enqueue, Running
<1>25. ASSUME NEW c \in Callers, NotEnqueued(c) PROVE  Safe'
  BY Zenon, <1>25, SafeUntouched DEF NotEnqueued, Running
<1>26. ASSUME NEW c \in Callers, Abandon(c) PROVE  Safe'
  BY Zenon, <1>26, SafeUntouched DEF Abandon, Running
<1>27. CASE ApplyWriteFails
  BY <1>27, SafeWriteFails
<1> QED
  BY Zenon, <1>1, <1>2, <1>3, <1>4, <1>5, <1>6, <1>7, <1>8, <1>9, <1>10, <1>11, <1>12,
     <1>13, <1>14, <1>15, <1>16, <1>17, <1>18, <1>19, <1>20, <1>21, <1>22, <1>23,
     <1>24, <1>25, <1>26, <1>27 DEF Next

-----------------------------------------------------------------------------
(* The store is well typed.                                                *)
THEOREM TypeCorrect == Spec => []TypeOK
<1>1. Init => TypeOK /\ Control
  BY Zenon, InitTyped
<1>2. TypeOK /\ Control /\ [Next]_vars => (TypeOK /\ Control)'
  <2> SUFFICES ASSUME TypeOK, Control, [Next]_vars PROVE TypeOK' /\ Control'
    OBVIOUS
  <2>1. CASE Next
    BY Zenon, <2>1, TypeStep, ControlStep
  <2>2. CASE UNCHANGED vars
    BY <2>2 DEF vars, diskVars, writerVars, callerVars, compactVars, historyVars,
                boundVars, TypeOK, Control, Idle, Running
  <2> QED
    BY Zenon, <2>1, <2>2
<1> QED
  BY <1>1, <1>2, PTL DEF Spec

(* The inductive invariant. *)
THEOREM Invariance == Spec => []IInv
<1>1. Init => IInv
  <2> SUFFICES ASSUME Init PROVE Safe
    BY Zenon, InitTyped DEF IInv
  <2> QED
    BY Zenon DEF Init, Safe, Running
<1>2. IInv /\ [Next]_vars => IInv'
  <2> SUFFICES ASSUME TypeOK, Control, Safe, [Next]_vars PROVE TypeOK' /\ Control' /\ Safe'
    BY Zenon DEF IInv
  <2>1. CASE Next
    BY Zenon, <2>1, TypeStep, ControlStep, SafeStep
  <2>2. CASE UNCHANGED vars
    <3>1. Safe'
      BY Zenon, <2>2, SafeUntouched DEF vars, diskVars, writerVars, historyVars, Running
    <3>2. TypeOK' /\ Control'
      BY <2>2 DEF vars, diskVars, writerVars, callerVars, compactVars, historyVars,
                  boundVars, TypeOK, Control, Idle, Running
    <3> QED
      BY Zenon, <3>1, <3>2
  <2> QED
    BY Zenon, <2>1, <2>2
<1> QED
  BY <1>1, <1>2, PTL DEF Spec

(* Recoverable: at every moment the snapshot and the WAL replayed over it  *)
(* give the live tree, for any number of callers, batches and compactions. *)
THEOREM AlwaysRecoverable == Spec => []Recoverable
<1>1. IInv => Recoverable
  <2> SUFFICES ASSUME TypeOK, Safe, Running, writer = "ok", ~mixed, Undamaged(Written),
                      NEW k \in 0..Len(Written), IsDecodable(Written, k)
               PROVE  Replay(snap, SubSeq(Written, 1, k)) = tree
    BY Zenon DEF IInv, Recoverable
  <2>1. Written \in Seq(Items)
    BY Zenon, TypeParts, WrittenType
  <2>2. Decoded(Written, k)
    BY <2>1 DEF Decoded, IsDecodable, Undamaged
  <2> QED
    BY Zenon, <2>2 DEF Safe, SameTree
<1> QED
  BY <1>1, Invariance, PTL

(* AckedSurvives: what Open, or a reload, reads back from disk holds every *)
(* mutation whose caller was told of success.                              *)
THEOREM AckedAlwaysSurvives == Spec => AckedSurvives
<1>1. IInv /\ [Next]_vars => [((Opens \/ Reloads) /\ Undamaged(wal')) => Acceptable(tree')]_vars
  <2> SUFFICES ASSUME TypeOK, Control, Safe, Next, Opens \/ Reloads, Undamaged(wal')
               PROVE  Acceptable(tree')
    BY Zenon DEF IInv
  <2>1. Open \/ ReloadFromDisk
    BY Zenon DEF Next, boundVars, Opens, Reloads, ForgetMemory, callerVars,
           Bootstrap, OpenRefused, CollectBatch, WorkerExit, CommitLock,
           ApplyOperation, ApplyWriteFails, ApplyFails, CommitFlush, CommitReply,
           CompactTrigger, CompactorExit, CompactSave, CompactSaveFails,
           CompactFlush, CompactTruncate, ReloadSave, ReloadFlush,
           ReloadTruncate, CloseBegin, CloseEnd, Crash, Enqueue, NotEnqueued,
           Abandon
  <2>2. \A t : Acceptable(t) <=> Accept(t, acked, maybe)
    BY Zenon DEF Acceptable, Accept
  <2>3. TypeDisk /\ Written \in Seq(Items) /\ synced \in 0..Len(Written)
    BY Zenon, TypeParts, WrittenType
  <2>4. snap # NoSnap => SafeDisk(snap, Written, Len(Written), acked, maybe)
    BY Zenon, <2>3, SafeSynced DEF Safe
  <2>5. ASSUME NEW k \in 0..Len(wal'), IsDecodable(wal', k), wal' = Written,
               snap # NoSnap, tree' = Replay(snap, SubSeq(wal', 1, k))
        PROVE  Acceptable(tree')
    <3>1. Survives(Written, Len(Written), k)
      BY Zenon, <2>3, <2>5, DecodedSurvives
    <3> QED
      BY Zenon, <2>2, <2>4, <2>5, <3>1 DEF SafeDisk
  <2>6. CASE Open
    <3>1. wal' = Written /\ snap # NoSnap
      BY Zenon, <2>3, <2>6, WrittenUnbuffered DEF Open, Control, Idle, Running, Written,
                                           diskVars, TypeDisk
    <3> QED
      BY Zenon, <2>5, <2>6, <3>1 DEF Open, diskVars
  <2>7. CASE ReloadFromDisk
    <3>1. Running /\ snap # NoSnap
      BY Zenon, <2>7 DEF ReloadFromDisk, Control, Running
    <3>2. CASE tree' = tree
      BY Zenon, <2>2, <3>1, <3>2 DEF Safe
    <3>3. CASE FlushOK /\ \E k \in 0..Len(wal') : /\ IsDecodable(wal', k)
                                                  /\ tree' = Replay(snap, SubSeq(wal', 1, k))
      <4>1. wal' = Written
        BY Zenon, <3>3 DEF FlushOK, Written
      <4> QED
        BY Zenon, <2>5, <3>1, <3>3, <4>1
    <3> QED
      BY Zenon, <2>7, <3>2, <3>3 DEF ReloadFromDisk
  <2> QED
    BY Zenon, <2>1, <2>6, <2>7
<1> QED
  BY <1>1, Invariance, PTL DEF Spec, AckedSurvives
=============================================================================
