----------------------------- MODULE WalProofs -----------------------------
(***************************************************************************)
(* What replaying a log of whole frames computes: lemmas about Replay.     *)
(***************************************************************************)
EXTENDS Wal, WellFoundedInduction, TLAPS

(* An element of a sequence over S is in S.                                *)
LEMMA ElementOf ==
  ASSUME NEW S, NEW s \in Seq(S), NEW n \in 1..Len(s) PROVE s[n] \in S
OBVIOUS

(* Sequences of one length with the same elements are the same.            *)
LEMMA SameSeq ==
  ASSUME NEW S, NEW s \in Seq(S), NEW t \in Seq(S), Len(s) = Len(t),
         \A i \in 1..Len(s) : s[i] = t[i]
  PROVE  s = t
OBVIOUS

(* The empty sequence adds nothing.                                        *)
LEMMA NothingAdded ==
  ASSUME NEW S, NEW s \in Seq(S) PROVE s \o <<>> = s /\ <<>> \o s = s
OBVIOUS

(* The length and the elements of a subsequence.                           *)
LEMMA SubSeqIs ==
  ASSUME NEW S, NEW s, NEW m \in Int, NEW n \in Int, \A i \in m..n : s[i] \in S
  PROVE  /\ SubSeq(s, m, n) \in Seq(S) /\ Len(SubSeq(s, m, n)) = IF m <= n THEN n - m + 1 ELSE 0
         /\ \A i \in 1..(n - m + 1) : SubSeq(s, m, n)[i] = s[m + i - 1]
OBVIOUS

(* A subsequence of an empty range is empty.                               *)
LEMMA SubSeqNone ==
  ASSUME NEW s, NEW m \in Int, NEW n \in Int, n < m PROVE SubSeq(s, m, n) = <<>>
OBVIOUS

(* The subsequence of all positions is the sequence.                       *)
LEMMA SubSeqAll ==
  ASSUME NEW S, NEW s \in Seq(S) PROVE SubSeq(s, 1, Len(s)) = s
OBVIOUS

(* Adjacent subsequences join.                                             *)
LEMMA SubSeqJoin ==
  ASSUME NEW S, NEW s \in Seq(S), NEW m \in 1..(Len(s) + 1), NEW k \in (m - 1)..Len(s), NEW n \in k..Len(s)
  PROVE  SubSeq(s, m, k) \o SubSeq(s, k + 1, n) = SubSeq(s, m, n)
OBVIOUS

(* A sequence over S is one over any larger set.                           *)
LEMMA SeqWider ==
  ASSUME NEW S, NEW T, S \subseteq T, NEW s \in Seq(S) PROVE s \in Seq(T)
OBVIOUS

(* Appending is concatenating a sequence of one.                           *)
LEMMA AppendConcat ==
  ASSUME NEW S, NEW s \in Seq(S), NEW e \in S PROVE Append(s, e) = s \o <<e>>
OBVIOUS

(* A non-empty set of positions of a log has a greatest element.           *)
LEMMA GreatestExists ==
  ASSUME NEW n \in Nat, NEW S, S \subseteq 1..n, S # {}
  PROVE  \E m \in S : \A i \in S : i <= m
<1> DEFINE T == {k \in Nat : \E i \in S : k = n - i}
           LT == OpToRel(<, Nat)
<1>1. T \subseteq Nat /\ T # {}
  <2>1. PICK i \in S : TRUE
    BY Zenon
  <2>2. n - i \in T
    BY <2>1
  <2> QED
    BY <2>2, Zenon
<1>2. PICK k \in T : \A j \in T : ~(<<j, k>> \in LT)
  <2> HIDE DEF T, LT
  <2>1. IsWellFoundedOn(LT, Nat)
    BY NatLessThanWellFounded, Zenon DEF LT
  <2> QED
    BY <1>1, <2>1, WFMin, Zenon
<1>3. \A j \in T : ~(j < k)
  BY <1>1, <1>2, Zenon DEF OpToRel
<1>4. PICK m \in S : k = n - m
  OBVIOUS
<1>5. ASSUME NEW i \in S PROVE i <= m
  BY <1>3, <1>4
<1> QED
  BY Zenon, <1>4, <1>5

(* A domain that a log of frames touches has a last frame in it.           *)
LEMMA LastExists ==
  ASSUME NEW log \in Seq(Frames), NEW d, NEW i \in 1..Len(log), log[i].d = d
  PROVE  \E m \in 1..Len(log) : IsLast(log, d, m)
<1> DEFINE S == {j \in 1..Len(log) : log[j].d = d}
<1>1. Len(log) \in Nat /\ S \subseteq 1..Len(log) /\ S # {}
  OBVIOUS
<1>2. PICK m \in S : \A j \in S : j <= m
  <2> HIDE DEF S
  <2> QED BY <1>1, GreatestExists, Zenon
<1> QED
  BY <1>1, <1>2 DEF IsLast

(* The last frame of a domain decides what replay leaves there.            *)
LEMMA ReplayLast ==
  ASSUME NEW log \in Seq(Frames), NEW t, NEW d \in Domains,
         NEW m \in 1..Len(log), IsLast(log, d, m)
  PROVE  Replay(t, log)[d] = log[m].rr
<1> DEFINE l == CHOOSE i \in 1..Len(log) : IsLast(log, d, i)
<1>1. l \in 1..Len(log) /\ IsLast(log, d, l)
  OBVIOUS
<1>2. l = m
  <2> HIDE DEF l
  <2> QED BY <1>1 DEF IsLast
<1>3. log[m].d = d
  BY Zenon DEF IsLast
<1> HIDE DEF l
<1>4. Replay(t, log)[d] = log[l].rr
  BY Zenon, <1>3 DEF Replay, l
<1> QED
  BY Zenon, <1>2, <1>4

(* Replay leaves alone a domain no frame names.                            *)
LEMMA ReplayUntouched ==
  ASSUME NEW log, NEW t, NEW d \in Domains,
         \A i \in 1..Len(log) : log[i].d # d
  PROVE  Replay(t, log)[d] = t[d]
BY Zenon DEF Replay

(* Frames name domains and hold values of trees.                           *)
LEMMA FrameType ==
  ASSUME NEW f \in Frames
  PROVE  f.d \in Domains /\ f.rr \in Values /\ f.kind = "frame" /\ f = Frame(f.d, f.rr)
BY DEF Frames, Frame

(* Replay turns a tree into a tree.                                        *)
LEMMA ReplayType ==
  ASSUME NEW t \in Trees, NEW log \in Seq(Frames)
  PROVE  Replay(t, log) \in Trees
<1>1. ASSUME NEW d \in Domains PROVE Replay(t, log)[d] \in Values
  <2>1. CASE \E i \in 1..Len(log) : log[i].d = d
    <3>1. PICK m \in 1..Len(log) : IsLast(log, d, m)
      BY Zenon, <2>1, LastExists
    <3>2. Replay(t, log)[d] = log[m].rr
      BY Zenon, <3>1, ReplayLast
    <3>3. log[m] \in Frames
      BY Zenon, <3>1, ElementOf
    <3> QED
      BY Zenon, <3>2, <3>3, FrameType
  <2>2. CASE ~ \E i \in 1..Len(log) : log[i].d = d
    BY <2>2, ReplayUntouched DEF Trees
  <2> QED
    BY Zenon, <2>1, <2>2
<1>2. Replay(t, log) = [d \in Domains |-> Replay(t, log)[d]]
  BY DEF Replay
<1> QED
  BY Zenon, <1>1, <1>2 DEF Trees

(* Two replays that agree on every domain are equal.                       *)
LEMMA ReplayEqual ==
  ASSUME NEW t, NEW log, NEW u \in Trees,
         \A d \in Domains : Replay(t, log)[d] = u[d]
  PROVE  Replay(t, log) = u
BY Zenon DEF Replay, Trees

LEMMA ReplayEmpty ==
  ASSUME NEW t \in Trees
  PROVE  Replay(t, <<>>) = t
<1>1. \A d \in Domains : Replay(t, <<>>)[d] = t[d]
  BY ReplayUntouched
<1> QED
  BY Zenon, <1>1, ReplayEqual

(* Replaying one log after another is replaying their concatenation.       *)
LEMMA ReplayConcat ==
  ASSUME NEW t \in Trees, NEW u \in Seq(Frames), NEW v \in Seq(Frames)
  PROVE  Replay(t, u \o v) = Replay(Replay(t, u), v)
<1> DEFINE w == u \o v
           r == Replay(t, u)
<1>1. /\ w \in Seq(Frames) /\ Len(w) = Len(u) + Len(v)
      /\ Len(u) \in Nat /\ Len(v) \in Nat
      /\ \A i \in 1..Len(u) : w[i] = u[i]
      /\ \A i \in 1..Len(v) : w[Len(u) + i] = v[i]
  OBVIOUS
<1>2. r \in Trees /\ Replay(r, v) \in Trees
  BY Zenon, ReplayType
<1> HIDE DEF w
<1>3. ASSUME NEW d \in Domains PROVE Replay(t, w)[d] = Replay(r, v)[d]
  <2>1. CASE \E i \in 1..Len(v) : v[i].d = d
    <3>1. PICK m \in 1..Len(v) : IsLast(v, d, m)
      BY Zenon, <2>1, LastExists
    <3>2. Len(u) + m \in 1..Len(w) /\ IsLast(w, d, Len(u) + m)
      <4>1. Len(u) + m \in 1..Len(w) /\ w[Len(u) + m].d = d
        BY <1>1, <3>1 DEF IsLast
      <4>2. ASSUME NEW j \in (Len(u) + m + 1)..Len(w) PROVE w[j].d # d
        <5>1. j - Len(u) \in (m + 1)..Len(v) /\ w[Len(u) + (j - Len(u))] = v[j - Len(u)]
          BY ONLY <1>1, m \in 1..Len(v), j \in (Len(u) + m + 1)..Len(w)
        <5>2. Len(u) + (j - Len(u)) = j
          BY <1>1
        <5> QED
          BY Zenon, <3>1, <5>1, <5>2 DEF IsLast
      <4> QED
        BY Zenon, <4>1, <4>2 DEF IsLast
    <3>3. Replay(t, w)[d] = w[Len(u) + m].rr
      BY <1>1, <3>2, ReplayLast
    <3>4. Replay(r, v)[d] = v[m].rr
      BY <3>1, ReplayLast
    <3> QED
      BY Zenon, <1>1, <3>3, <3>4
  <2>2. CASE /\ ~ \E i \in 1..Len(v) : v[i].d = d
             /\ \E i \in 1..Len(u) : u[i].d = d
    <3>1. PICK m \in 1..Len(u) : IsLast(u, d, m)
      BY Zenon, <2>2, LastExists
    <3>2. m \in 1..Len(w) /\ IsLast(w, d, m)
      <4>1. m \in 1..Len(w) /\ w[m].d = d
        BY <1>1, <3>1 DEF IsLast
      <4>2. ASSUME NEW j \in (m + 1)..Len(w) PROVE w[j].d # d
        <5>1. CASE j <= Len(u)
          BY <1>1, <3>1, <5>1 DEF IsLast
        <5>2. CASE j > Len(u)
          <6>1. j - Len(u) \in 1..Len(v) /\ Len(u) + (j - Len(u)) = j
            BY <1>1, <5>2
          <6> QED
            BY <1>1, <2>2, <6>1, Zenon
        <5> QED
          BY <1>1, <5>1, <5>2
      <4> QED
        BY Zenon, <4>1, <4>2 DEF IsLast
    <3>3. Replay(t, w)[d] = w[m].rr
      BY <1>1, <3>2, ReplayLast
    <3>4. r[d] = u[m].rr
      BY <3>1, ReplayLast
    <3>5. Replay(r, v)[d] = r[d]
      BY <2>2, ReplayUntouched
    <3> QED
      BY Zenon, <1>1, <3>3, <3>4, <3>5
  <2>3. CASE /\ ~ \E i \in 1..Len(v) : v[i].d = d
             /\ ~ \E i \in 1..Len(u) : u[i].d = d
    <3>1. ASSUME NEW i \in 1..Len(w) PROVE w[i].d # d
      <4>1. CASE i <= Len(u)
        BY <1>1, <2>3, <4>1
      <4>2. CASE i > Len(u)
        <5>1. i - Len(u) \in 1..Len(v) /\ Len(u) + (i - Len(u)) = i
          BY <1>1, <4>2
        <5> QED
          BY <1>1, <2>3, <5>1, Zenon
      <4> QED
        BY <1>1, <4>1, <4>2
    <3> HIDE DEF r
    <3>2. Replay(t, w)[d] = t[d] /\ Replay(r, v)[d] = r[d]
      BY <2>3, <3>1, ReplayUntouched
    <3>3. r[d] = t[d]
      BY <2>3, ReplayUntouched DEF r
    <3> QED
      BY Zenon, <3>2, <3>3
  <2> QED
    BY Zenon, <2>1, <2>2, <2>3
<1>4. Replay(t, w) = Replay(r, v)
  <2> HIDE DEF r
  <2> QED BY <1>2, <1>3, ReplayEqual
<1> QED
  BY Zenon, <1>4 DEF w

(* Replaying a log over what it already produced changes nothing.          *)
THEOREM ReplayIdempotent ==
  ASSUME NEW t \in Trees, NEW log \in Seq(Frames)
  PROVE  Replay(Replay(t, log), log) = Replay(t, log)
<1> DEFINE r == Replay(t, log)
<1>1. r \in Trees
  BY Zenon, ReplayType
<1>2. ASSUME NEW d \in Domains PROVE Replay(r, log)[d] = r[d]
  <2>1. CASE \E i \in 1..Len(log) : log[i].d = d
    <3>1. PICK m \in 1..Len(log) : IsLast(log, d, m)
      BY Zenon, <2>1, LastExists
    <3>2. r[d] = log[m].rr
      BY Zenon, <3>1, ReplayLast
    <3> HIDE DEF r
    <3>3. Replay(r, log)[d] = log[m].rr
      BY Zenon, <3>1, ReplayLast
    <3> QED
      BY Zenon, <3>2, <3>3
  <2>2. CASE ~ \E i \in 1..Len(log) : log[i].d = d
    <3> HIDE DEF r
    <3> QED BY <2>2, ReplayUntouched
  <2> QED
    BY Zenon, <2>1, <2>2
<1> HIDE DEF r
<1>3. Replay(r, log) = r
  BY Zenon, <1>1, <1>2, ReplayEqual
<1> QED
  BY Zenon, <1>3 DEF r
=============================================================================
