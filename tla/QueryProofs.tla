---------------------------- MODULE QueryProofs ----------------------------
(***************************************************************************)
(* Proofs about Query, for every set of keys, hash, number of shards,      *)
(* capacity, TTLs, trees, readers, writes and delay of a query.            *)
(***************************************************************************)
EXTENDS Query, TLAPS

-----------------------------------------------------------------------------
(* Linked lists                                                            *)

Links == [Nodes -> Nodes \cup {Nil}]

Distinct(c) == \A i, j \in 1..Len(c) : c[i] = c[j] => i = j

(* The node at place j of a list of the entries c between the sentinels.   *)
At(c, j) == IF j = 0 THEN Front ELSE IF j = Len(c) + 1 THEN Back ELSE c[j]

(* next and prev make such a list of c.                                    *)
Linked(next, prev, c) ==
  \A j \in 0..Len(c) : next[At(c, j)] = At(c, j + 1) /\ prev[At(c, j + 1)] = At(c, j)

(* A shard has at least one entry.                                         *)
LEMMA CapType == ShardCap \in Nat \ {0}
<1>1. TotalCapacity \in Nat /\ ShardCount \in Nat \ {0}
  BY Zenon, QueryAssumption
<1>2. TotalCapacity \div ShardCount \in Int
  BY <1>1
<1> QED BY <1>2 DEF ShardCap

(* Entries are not sentinels.                                              *)
LEMMA NodeKinds ==
  /\ Entries \subseteq Nat \ {0} /\ Entries \subseteq Nodes
  /\ Front \in Nodes /\ Back \in Nodes /\ Front # Back
  /\ \A e \in Entries : e # Front /\ e # Back
BY CapType DEF Entries, Nodes, Front, Back

(* Places of a list are nodes, and no node has two places.                 *)
LEMMA AtType ==
  ASSUME NEW c \in Seq(Entries), NEW i \in 0..(Len(c) + 1) PROVE At(c, i) \in Nodes
<1>1. Len(c) \in Nat /\ \A x \in 1..Len(c) : c[x] \in Entries
  BY SMTT(60)
<1>2. CASE i = 0 \/ i = Len(c) + 1
  BY Zenon, <1>1, <1>2, NodeKinds DEF At
<1>3. CASE i \in 1..Len(c)
  <2>1. At(c, i) = c[i]
    BY <1>1, <1>3 DEF At
  <2> QED BY ZenonT(60), <1>1, <1>3, <2>1, NodeKinds
<1> QED BY <1>1, <1>2, <1>3

LEMMA AtDistinct ==
  ASSUME NEW c \in Seq(Entries), Distinct(c),
         NEW i \in 0..(Len(c) + 1), NEW j \in 0..(Len(c) + 1), At(c, i) = At(c, j)
  PROVE  i = j
<1>1. Len(c) \in Nat /\ \A x \in 1..Len(c) : c[x] # Front /\ c[x] # Back
  BY NodeKinds
<1>2. CASE i = 0 \/ j = 0
  BY <1>1, <1>2, NodeKinds DEF At
<1>3. CASE i = Len(c) + 1 \/ j = Len(c) + 1
  BY <1>1, <1>3, NodeKinds DEF At
<1>4. CASE i \in 1..Len(c) /\ j \in 1..Len(c)
  BY <1>1, <1>4 DEF At, Distinct
<1> QED BY <1>1, <1>2, <1>3, <1>4

(* A sequence without the element at p.                                    *)
LEMMA DropAtType ==
  ASSUME NEW S, NEW q \in Seq(S), NEW p \in 1..Len(q)
  PROVE  /\ DropAt(q, p) \in Seq(S) /\ Len(DropAt(q, p)) = Len(q) - 1
         /\ \A j \in 1..(Len(q) - 1) : DropAt(q, p)[j] = IF j < p THEN q[j] ELSE q[j + 1]
<1>1. Len(q) \in Nat /\ Len(q) >= 1
  BY SMTT(60)
<1>2. \A j \in 1..(Len(q) - 1) : (IF j < p THEN q[j] ELSE q[j + 1]) \in S
  BY <1>1
<1>3. DropAt(q, p) \in [1..(Len(q) - 1) -> S]
  BY Zenon, <1>2 DEF DropAt
<1>4. DropAt(q, p) \in Seq(S) /\ Len(DropAt(q, p)) = Len(q) - 1
  BY <1>1, <1>3
<1> QED BY Zenon, <1>4 DEF DropAt

LEMMA DropAtDistinct ==
  ASSUME NEW S, NEW q \in Seq(S), NEW p \in 1..Len(q), Distinct(q)
  PROVE  /\ Distinct(DropAt(q, p))
         /\ \A j \in 1..Len(DropAt(q, p)) : DropAt(q, p)[j] # q[p]
<1> DEFINE r == DropAt(q, p)
<1>1. /\ r \in Seq(S) /\ Len(r) = Len(q) - 1 /\ Len(q) \in Nat
      /\ \A j \in 1..(Len(q) - 1) : r[j] = IF j < p THEN q[j] ELSE q[j + 1]
  BY DropAtType
<1> HIDE DEF r
<1>2. ASSUME NEW i \in 1..Len(r), NEW j \in 1..Len(r), r[i] = r[j] PROVE i = j
  BY <1>1, <1>2 DEF Distinct
<1>3. ASSUME NEW j \in 1..Len(r), r[j] = q[p] PROVE FALSE
  BY <1>1, <1>3 DEF Distinct
<1> QED BY Zenon, <1>2, <1>3 DEF Distinct, r

(* Places after the removal of place m.                                    *)
LEMMA DropAtPlaces ==
  ASSUME NEW c \in Seq(Entries), NEW m \in 1..Len(c), NEW j \in 0..Len(c)
  PROVE  At(DropAt(c, m), j) = IF j < m THEN At(c, j) ELSE At(c, j + 1)
<1> DEFINE r == DropAt(c, m)
<1>1. /\ Len(r) = Len(c) - 1 /\ Len(c) \in Nat
      /\ \A i \in 1..(Len(c) - 1) : r[i] = IF i < m THEN c[i] ELSE c[i + 1]
  BY DropAtType
<1> HIDE DEF r
<1>2. At(r, j) = IF j < m THEN At(c, j) ELSE At(c, j + 1)
  <2>1. CASE j = 0
    BY <1>1, <2>1 DEF At
  <2>2. CASE j = Len(c)
    BY <1>1, <2>2 DEF At
  <2>3. CASE j \in 1..(Len(c) - 1)
    BY <1>1, <2>3 DEF At
  <2> QED BY <1>1, <2>1, <2>2, <2>3
<1> QED BY Zenon, <1>2 DEF r

(* remove takes the entry at place m out of the list.                      *)
LEMMA Unlink ==
  ASSUME NEW next \in Links, NEW prev \in Links, NEW c \in Seq(Entries), Distinct(c),
         Linked(next, prev, c), NEW m \in 1..Len(c), NEW e, e = c[m],
         NEW next2, next2 = [next EXCEPT ![prev[e]] = next[e], ![e] = Nil],
         NEW prev2, prev2 = [prev EXCEPT ![next[e]] = prev[e], ![e] = Nil]
  PROVE  next2 \in Links /\ prev2 \in Links /\ Linked(next2, prev2, DropAt(c, m))
<1>1. Len(c) \in Nat /\ m - 1 \in 0..Len(c) /\ m \in 0..Len(c) /\ (m - 1) + 1 = m
  BY SMTT(60)
<1>2. At(c, m) = e /\ e \in Nodes
  BY <1>1, NodeKinds DEF At
<1>3. next[e] = At(c, m + 1) /\ prev[e] = At(c, m - 1)
  BY Zenon, <1>1, <1>2 DEF Linked
<1>4. \A i, j \in 0..(Len(c) + 1) : At(c, i) \in Nodes /\ (At(c, i) = At(c, j) => i = j)
  BY Zenon, AtType, AtDistinct
<1>5. next[e] \in Nodes /\ prev[e] \in Nodes
  BY <1>1, <1>3, <1>4
<1>6. next2 \in Links /\ prev2 \in Links
  BY Zenon, <1>2, <1>5 DEF Links
<1>10. e # next[e] /\ e # prev[e]
  <2>1. m + 1 \in 0..(Len(c) + 1) /\ m - 1 \in 0..(Len(c) + 1) /\ m \in 0..(Len(c) + 1)
    BY <1>1
  <2>2. At(c, m) # At(c, m + 1) /\ At(c, m) # At(c, m - 1)
    BY <1>4, <2>1
  <2> QED BY Zenon, <1>2, <1>3, <2>2
<1>11. \A x \in Nodes : next2[x] = IF x = e THEN Nil ELSE IF x = prev[e] THEN next[e] ELSE next[x]
  BY Zenon, <1>2, <1>5, <1>10 DEF Links
<1>12. \A x \in Nodes : prev2[x] = IF x = e THEN Nil ELSE IF x = next[e] THEN prev[e] ELSE prev[x]
  BY Zenon, <1>2, <1>5, <1>10 DEF Links
<1>7. /\ next2[At(c, m - 1)] = At(c, m + 1) /\ prev2[At(c, m + 1)] = At(c, m - 1)
      /\ \A j \in 0..(Len(c) + 1) : j # m /\ j # m - 1 => next2[At(c, j)] = next[At(c, j)]
      /\ \A j \in 0..(Len(c) + 1) : j # m /\ j # m + 1 => prev2[At(c, j)] = prev[At(c, j)]
  <2>1. m \in 0..(Len(c) + 1) /\ m - 1 \in 0..(Len(c) + 1) /\ m + 1 \in 0..(Len(c) + 1)
    BY <1>1
  <2>2. ASSUME NEW j \in 0..(Len(c) + 1)
        PROVE  /\ At(c, j) \in Nodes /\ (At(c, j) = e <=> j = m)
               /\ (At(c, j) = prev[e] <=> j = m - 1) /\ (At(c, j) = next[e] <=> j = m + 1)
    BY Zenon, <1>2, <1>3, <1>4, <2>1
  <2>3. \A j \in 0..(Len(c) + 1) : j # m /\ j # m - 1 => next2[At(c, j)] = next[At(c, j)]
    BY ZenonT(60), <1>11, <2>2
  <2>4. \A j \in 0..(Len(c) + 1) : j # m /\ j # m + 1 => prev2[At(c, j)] = prev[At(c, j)]
    BY ZenonT(60), <1>12, <2>2
  <2>5. next2[At(c, m - 1)] = At(c, m + 1) /\ prev2[At(c, m + 1)] = At(c, m - 1)
    BY ZenonT(60), <1>3, <1>5, <1>10, <1>11, <1>12
  <2> QED BY ZenonT(60), <2>3, <2>4, <2>5
<1>8. ASSUME NEW j \in 0..(Len(c) - 1)
      PROVE  /\ next2[At(DropAt(c, m), j)] = At(DropAt(c, m), j + 1)
             /\ prev2[At(DropAt(c, m), j + 1)] = At(DropAt(c, m), j)
  <2>1. /\ At(DropAt(c, m), j) = IF j < m THEN At(c, j) ELSE At(c, j + 1)
        /\ At(DropAt(c, m), j + 1) = IF j + 1 < m THEN At(c, j + 1) ELSE At(c, j + 2)
    <3>1. j \in 0..Len(c) /\ j + 1 \in 0..Len(c) /\ (j + 1) + 1 = j + 2
      BY ONLY <1>1, j \in 0..(Len(c) - 1)
    <3> QED BY Zenon, <3>1, DropAtPlaces
  <2>5. /\ j \in 0..(Len(c) + 1) /\ j + 1 \in 0..(Len(c) + 1) /\ j + 2 \in 0..(Len(c) + 1)
        /\ m + 1 \in 0..(Len(c) + 1)
    BY ONLY <1>1, m \in 1..Len(c), j \in 0..(Len(c) - 1)
  <2>2. CASE j < m - 1
    <3>1. next2[At(c, j)] = next[At(c, j)] /\ prev2[At(c, j + 1)] = prev[At(c, j + 1)]
      <4>1. j # m /\ j # m - 1 /\ j + 1 # m /\ j + 1 # m + 1
        BY <1>1, <2>2
      <4> QED BY ZenonT(60), <1>7, <2>5, <4>1
    <3> QED BY <1>1, <2>1, <2>2, <3>1 DEF Linked
  <2>3. CASE j = m - 1
    <3>1. next2[At(c, j)] = At(c, m + 1) /\ prev2[At(c, m + 1)] = At(c, m - 1)
      BY Zenon, <1>7, <2>3
    <3> QED BY <1>1, <2>1, <2>3, <3>1
  <2>4. CASE j >= m
    <3>1. next2[At(c, j + 1)] = next[At(c, j + 1)] /\ prev2[At(c, j + 2)] = prev[At(c, j + 2)]
      <4>1. j + 1 # m /\ j + 1 # m - 1 /\ j + 2 # m /\ j + 2 # m + 1
        BY <1>1, <2>4
      <4> QED BY ZenonT(60), <1>7, <2>5, <4>1
    <3>2. j + 1 \in 0..Len(c)
      BY <1>1
    <3> QED BY <1>1, <2>1, <2>4, <3>1, <3>2 DEF Linked
  <2> QED BY <1>1, <2>2, <2>3, <2>4
<1>9. Len(DropAt(c, m)) = Len(c) - 1
  BY Zenon, DropAtType
<1> QED BY ZenonT(60), <1>6, <1>8, <1>9 DEF Linked

(* The links after pushFront of e, and the list with e put before c.       *)
FrontNext(next, e) == [next EXCEPT ![e] = next[Front], ![Front] = e]
FrontPrev(next, prev, e) == [prev EXCEPT ![e] = Front, ![next[Front]] = e]
Fronted(c, e, d) ==
  /\ \A i \in 1..Len(c) : c[i] # e
  /\ d \in Seq(Entries) /\ Len(d) = Len(c) + 1 /\ d[1] = e
  /\ \A j \in 1..Len(c) : d[j + 1] = c[j]

(* pushFront puts an entry at place 1.                                     *)
LEMMA LinkFront ==
  ASSUME NEW next \in Links, NEW prev \in Links, NEW c \in Seq(Entries), Distinct(c),
         Linked(next, prev, c), NEW e \in Entries, NEW d, Fronted(c, e, d)
  PROVE  /\ FrontNext(next, e) \in Links /\ FrontPrev(next, prev, e) \in Links
         /\ Linked(FrontNext(next, e), FrontPrev(next, prev, e), d)
<1> DEFINE next2 == FrontNext(next, e)
           prev2 == FrontPrev(next, prev, e)
<1> HIDE DEF next2, prev2
<1>0. /\ \A i \in 1..Len(c) : c[i] # e
      /\ d \in Seq(Entries) /\ Len(d) = Len(c) + 1 /\ d[1] = e
      /\ \A j \in 1..Len(c) : d[j + 1] = c[j]
  BY Zenon DEF Fronted
<1>1. Len(c) \in Nat /\ 0 \in 0..Len(c)
  BY SMTT(60)
<1>2. next[Front] = At(c, 1)
  BY <1>1 DEF Linked, At
<1>3. \A i, j \in 0..(Len(c) + 1) : At(c, i) \in Nodes /\ (At(c, i) = At(c, j) => i = j)
  BY Zenon, AtType, AtDistinct
<1>4. \A i \in 0..(Len(c) + 1) : At(c, i) # e
  BY ONLY <1>0, <1>1, e \in Entries, NodeKinds DEF At
<1>5. At(c, 0) = Front /\ At(d, 0) = Front /\ At(d, 1) = e
  BY <1>0, <1>1 DEF At
<1>6. \A i \in 1..(Len(c) + 1) : At(d, i + 1) = At(c, i)
  BY <1>0, <1>1 DEF At
<1>7. next2 \in Links /\ prev2 \in Links
  BY Zenon, <1>1, <1>2, <1>3, NodeKinds DEF Links, next2, prev2, FrontNext, FrontPrev
<1>8. /\ next2[Front] = e /\ next2[e] = At(c, 1)
      /\ \A i \in 1..(Len(c) + 1) : next2[At(c, i)] = next[At(c, i)]
  <2>1. \A x \in Nodes : next2[x] = IF x = Front THEN e ELSE IF x = e THEN next[Front] ELSE next[x]
    BY Zenon, NodeKinds DEF Links, next2, FrontNext
  <2>2. \A i \in 1..(Len(c) + 1) : At(c, i) \in Nodes /\ At(c, i) # Front /\ At(c, i) # e
    BY <1>1, <1>3, <1>4, <1>5
  <2> QED BY ZenonT(60), <1>2, <2>1, <2>2, NodeKinds
<1>9. /\ prev2[e] = Front /\ prev2[At(c, 1)] = e
      /\ \A i \in 2..(Len(c) + 1) : prev2[At(c, i)] = prev[At(c, i)]
  <2>1. At(c, 1) \in Nodes /\ At(c, 1) # e
    BY <1>1, <1>3, <1>4
  <2>2. \A x \in Nodes : prev2[x] = IF x = At(c, 1) THEN e ELSE IF x = e THEN Front ELSE prev[x]
    BY Zenon, <1>2, <2>1, NodeKinds DEF Links, prev2, FrontPrev
  <2>3. ASSUME NEW i \in 2..(Len(c) + 1)
        PROVE  At(c, i) \in Nodes /\ At(c, i) # At(c, 1) /\ At(c, i) # e
    <3>1. i \in 0..(Len(c) + 1) /\ 1 \in 0..(Len(c) + 1) /\ i # 1
      BY <1>1
    <3> QED BY Zenon, <1>3, <1>4, <3>1
  <2> QED BY ZenonT(60), <2>1, <2>2, <2>3, NodeKinds
<1>10. ASSUME NEW j \in 0..(Len(c) + 1)
       PROVE  next2[At(d, j)] = At(d, j + 1) /\ prev2[At(d, j + 1)] = At(d, j)
  <2>1. CASE j = 0
    <3>1. 0 + 1 = 1
      BY SMTT(60)
    <3> QED BY ZenonT(60), <1>5, <1>8, <1>9, <2>1, <3>1
  <2>2. CASE j = 1
    <3>1. At(d, 2) = At(c, 1)
      BY <1>1, <1>6
    <3> QED BY <1>5, <1>8, <1>9, <2>2, <3>1
  <2>3. CASE j >= 2
    <3> DEFINE i == j - 1
    <3>1. i \in 1..Len(c) /\ i + 1 = j /\ i + 1 \in 2..(Len(c) + 1)
      BY <1>1, <2>3
    <3>2. At(d, j) = At(c, i) /\ At(d, j + 1) = At(c, i + 1)
      BY <1>1, <1>6, <3>1
    <3>3. next[At(c, i)] = At(c, i + 1) /\ prev[At(c, i + 1)] = At(c, i)
      BY <1>1, <3>1 DEF Linked
    <3>4. i \in 1..(Len(c) + 1)
      BY <1>1, <3>1
    <3> HIDE DEF i
    <3> QED BY ZenonT(60), <1>8, <1>9, <3>1, <3>2, <3>3, <3>4
  <2> QED BY <1>1, <2>1, <2>2, <2>3
<1> QED BY ZenonT(60), <1>0, <1>7, <1>10 DEF Linked, next2, prev2
-----------------------------------------------------------------------------
(* A shard and its ideal list                                              *)

Maps == UNION {[D -> Entries] : D \in SUBSET Keys}

EntryType ==
  [key : Keys \cup {None}, value : Values \cup {None}, left : Nat, late : BOOLEAN, age : Nat]

Shard == [items : Maps, next : Links, prev : Links, entry : [Entries -> EntryType]]

(* The entries of the keys of q, in the order of q.                        *)
Chain(items, q) == [j \in 1..Len(q) |-> items[q[j]]]

(* The shard s is what its list of keys, q, says: the map holds the keys   *)
(* of q, each with an entry of its own that names the key, and these       *)
(* entries are linked in the order of q.                                   *)
Rep(s, q) ==
  /\ s \in Shard
  /\ q \in Seq(Keys) /\ Distinct(q) /\ Len(q) <= ShardCap
  /\ DOMAIN s.items = Range(q)
  /\ \A k, l \in DOMAIN s.items : s.items[k] = s.items[l] => k = l
  /\ \A k \in DOMAIN s.items : s.entry[s.items[k]].key = k
  /\ Linked(s.next, s.prev, Chain(s.items, q))

(* Two sequences with the same elements are the same.                      *)
LEMMA SameSeq ==
  ASSUME NEW S, NEW a \in Seq(S), NEW b \in Seq(S), Len(a) = Len(b),
         \A i \in 1..Len(a) : a[i] = b[i]
  PROVE  a = b
BY SMTT(60)

LEMMA MapsType ==
  ASSUME NEW f
  PROVE  f \in Maps <=> f \in [DOMAIN f -> Entries] /\ DOMAIN f \subseteq Keys
<1>1. ASSUME f \in Maps PROVE f \in [DOMAIN f -> Entries] /\ DOMAIN f \subseteq Keys
  <2>1. PICK D \in SUBSET Keys : f \in [D -> Entries]
    BY Zenon, <1>1 DEF Maps
  <2> QED BY Zenon, <2>1
<1>2. ASSUME f \in [DOMAIN f -> Entries], DOMAIN f \subseteq Keys PROVE f \in Maps
  BY Zenon, <1>2 DEF Maps
<1> QED BY Zenon, <1>1, <1>2

LEMMA PlacesOf ==
  ASSUME NEW S, NEW q \in Seq(S)
  PROVE  /\ \A j \in 1..Len(q) : q[j] \in Range(q) /\ q[j] \in S
         /\ \A k \in Range(q) : \E j \in 1..Len(q) : q[j] = k
         /\ Range(q) \subseteq S
<1>1. DOMAIN q = 1..Len(q)
  BY SMTT(60)
<1>2. Range(q) = {q[j] : j \in 1..Len(q)}
  BY Zenon, <1>1 DEF Range
<1> QED BY <1>2

(* What a shard's list and map say of each other.                          *)
LEMMA RepChain ==
  ASSUME NEW s, NEW q, Rep(s, q)
  PROVE  /\ s.items \in [Range(q) -> Entries]
         /\ Chain(s.items, q) \in Seq(Entries) /\ Len(Chain(s.items, q)) = Len(q)
         /\ \A j \in 1..Len(q) : Chain(s.items, q)[j] = s.items[q[j]]
         /\ Distinct(Chain(s.items, q))
<1>1. /\ s.items \in Maps /\ q \in Seq(Keys) /\ DOMAIN s.items = Range(q) /\ Distinct(q)
      /\ \A k, l \in DOMAIN s.items : s.items[k] = s.items[l] => k = l
  BY Zenon DEF Rep, Shard
<1>2. s.items \in [Range(q) -> Entries]
  BY Zenon, <1>1, MapsType
<1>3. \A j \in 1..Len(q) : q[j] \in Range(q)
  BY Zenon, <1>1, PlacesOf
<1>4. Chain(s.items, q) \in [1..Len(q) -> Entries] /\ Len(q) \in Nat
  BY <1>1, <1>2, <1>3 DEF Chain
<1>5. Chain(s.items, q) \in Seq(Entries) /\ Len(Chain(s.items, q)) = Len(q)
  BY <1>4
<1>6. \A j \in 1..Len(q) : Chain(s.items, q)[j] = s.items[q[j]]
  BY Zenon DEF Chain
<1>7. \A i, j \in 1..Len(q) : s.items[q[i]] = s.items[q[j]] => i = j
  BY Zenon, <1>1, <1>3 DEF Distinct
<1>8. Distinct(Chain(s.items, q))
  BY Zenon, <1>5, <1>6, <1>7 DEF Distinct
<1> QED BY Zenon, <1>2, <1>5, <1>6, <1>8

(* Taking a key out of a list of distinct keys.                            *)
LEMMA GoneAt ==
  ASSUME NEW q \in Seq(Keys), Distinct(q), NEW m \in 1..Len(q)
  PROVE  q[m] \in Range(q) /\ Gone(q, q[m]) = DropAt(q, m)
<1>1. q[m] \in Range(q)
  BY Zenon, PlacesOf
<1>2. (CHOOSE p \in 1..Len(q) : q[p] = q[m]) = m
  BY Zenon DEF Distinct
<1> QED BY ZenonT(60), <1>1, <1>2 DEF Gone

LEMMA GoneType ==
  ASSUME NEW q \in Seq(Keys), Distinct(q), NEW k
  PROVE  /\ Gone(q, k) \in Seq(Keys) /\ Distinct(Gone(q, k))
         /\ Range(Gone(q, k)) = Range(q) \ {k}
         /\ Len(Gone(q, k)) = IF k \in Range(q) THEN Len(q) - 1 ELSE Len(q)
<1>1. CASE k \notin Range(q)
  BY Zenon, <1>1 DEF Gone
<1>2. CASE k \in Range(q)
  <2>1. PICK m \in 1..Len(q) : q[m] = k
    BY Zenon, <1>2, PlacesOf
  <2> DEFINE g == DropAt(q, m)
  <2>2. Gone(q, k) = g
    BY Zenon, <2>1, GoneAt
  <2>3. /\ g \in Seq(Keys) /\ Len(g) = Len(q) - 1 /\ Len(q) \in Nat
        /\ \A j \in 1..(Len(q) - 1) : g[j] = IF j < m THEN q[j] ELSE q[j + 1]
    BY DropAtType
  <2>4. Distinct(g) /\ \A j \in 1..Len(g) : g[j] # k
    BY Zenon, <2>1, DropAtDistinct
  <2> HIDE DEF g
  <2>5. ASSUME NEW x \in Range(g) PROVE x \in Range(q) \ {k}
    <3>1. PICK j \in 1..Len(g) : g[j] = x
      BY Zenon, <2>3, PlacesOf
    <3>2. \E i \in 1..Len(q) : q[i] = x
      BY <2>3, <3>1
    <3> QED BY Zenon, <2>4, <3>1, <3>2, PlacesOf
  <2>6. ASSUME NEW x \in Range(q), x # k PROVE x \in Range(g)
    <3>1. PICK i \in 1..Len(q) : q[i] = x
      BY Zenon, PlacesOf
    <3>2. i # m
      BY Zenon, <2>1, <2>6, <3>1
    <3>3. CASE i < m
      <4>1. i \in 1..Len(g) /\ g[i] = x
        BY <2>3, <3>1, <3>3
      <4> QED BY Zenon, <2>3, <4>1, PlacesOf
    <3>4. CASE i > m
      <4>1. i - 1 \in 1..Len(g) /\ g[i - 1] = x
        BY <2>3, <3>1, <3>4
      <4> QED BY Zenon, <2>3, <4>1, PlacesOf
    <3> QED BY <3>2, <3>3, <3>4
  <2> QED BY Zenon, <1>2, <2>2, <2>3, <2>4, <2>5, <2>6
<1> QED BY Zenon, <1>1, <1>2

(* Putting a key in front of a list that does not have it.                 *)
LEMMA FrontType ==
  ASSUME NEW q \in Seq(Keys), Distinct(q), NEW k \in Keys, k \notin Range(q)
  PROVE  /\ <<k>> \o q \in Seq(Keys) /\ Distinct(<<k>> \o q)
         /\ Len(<<k>> \o q) = Len(q) + 1 /\ (<<k>> \o q)[1] = k
         /\ \A j \in 1..Len(q) : (<<k>> \o q)[j + 1] = q[j]
         /\ Range(<<k>> \o q) = Range(q) \cup {k}
<1> DEFINE t == <<k>> \o q
<1>1. t \in Seq(Keys) /\ Len(t) = Len(q) + 1 /\ Len(q) \in Nat
  BY SMTT(60)
<1>2. t[1] = k /\ \A j \in 1..Len(q) : t[j + 1] = q[j]
  BY SMTT(60)
<1> HIDE DEF t
<1>3. \A i \in 2..Len(t) : i - 1 \in 1..Len(q) /\ t[i] = q[i - 1]
  BY <1>1, <1>2
<1>4. \A j \in 1..Len(q) : q[j] # k
  BY PlacesOf
<1>5. Distinct(t)
  <2>1. ASSUME NEW i \in 1..Len(t), NEW j \in 1..Len(t), t[i] = t[j] PROVE i = j
    <3>1. CASE i = 1 \/ j = 1
      <4>1. \A x \in 1..Len(t) : x = 1 \/ x \in 2..Len(t)
        BY ONLY <1>1
      <4>2. \A x \in 2..Len(t) : t[x] # t[1]
        BY ONLY <1>2, <1>3, <1>4
      <4> QED BY Zenon, <2>1, <3>1, <4>1, <4>2
    <3>2. CASE i \in 2..Len(t) /\ j \in 2..Len(t)
      <4>1. q[i - 1] = q[j - 1] /\ i - 1 \in 1..Len(q) /\ j - 1 \in 1..Len(q)
        BY Zenon, <1>3, <2>1, <3>2
      <4>2. i - 1 = j - 1
        BY Zenon, <4>1 DEF Distinct
      <4> QED BY <1>1, <4>2
    <3> QED BY <1>1, <3>1, <3>2
  <2> QED BY Zenon, <2>1 DEF Distinct
<1>6. ASSUME NEW x \in Range(t) PROVE x \in Range(q) \cup {k}
  <2>1. PICK i \in 1..Len(t) : t[i] = x
    BY Zenon, <1>1, PlacesOf
  <2>2. i = 1 \/ i \in 2..Len(t)
    BY <1>1
  <2> QED BY <1>2, <1>3, <2>1, <2>2, PlacesOf
<1>7. ASSUME NEW x \in Range(q) \cup {k} PROVE x \in Range(t)
  <2>1. CASE x = k
    <3>1. 1 \in 1..Len(t)
      BY <1>1
    <3> QED BY Zenon, <1>1, <1>2, <2>1, <3>1, PlacesOf
  <2>2. CASE x \in Range(q)
    <3>1. PICK j \in 1..Len(q) : q[j] = x
      BY Zenon, <2>2, PlacesOf
    <3>2. j + 1 \in 1..Len(t) /\ t[j + 1] = x
      BY <1>1, <1>2, <3>1
    <3> QED BY Zenon, <1>1, <3>2, PlacesOf
  <2> QED BY Zenon, <1>7, <2>1, <2>2
<1> QED BY Zenon, <1>1, <1>2, <1>5, <1>6, <1>7 DEF t
(* The fields that remove and pushFront leave and set.                     *)
LEMMA RemoveFields ==
  ASSUME NEW s \in Shard, NEW e,
         [s.next EXCEPT ![s.prev[e]] = s.next[e], ![e] = Nil] \in Links,
         [s.prev EXCEPT ![s.next[e]] = s.prev[e], ![e] = Nil] \in Links
  PROVE  /\ Remove(s, e) \in Shard
         /\ Remove(s, e).items = s.items /\ Remove(s, e).entry = s.entry
         /\ Remove(s, e).next = [s.next EXCEPT ![s.prev[e]] = s.next[e], ![e] = Nil]
         /\ Remove(s, e).prev = [s.prev EXCEPT ![s.next[e]] = s.prev[e], ![e] = Nil]
BY ZenonT(60) DEF Remove, Shard

LEMMA PushFrontFields ==
  ASSUME NEW s \in Shard, NEW e, NEW r, r = PushFront(s, e),
         FrontNext(s.next, e) \in Links, FrontPrev(s.next, s.prev, e) \in Links
  PROVE  /\ r \in Shard /\ r.items = s.items /\ r.entry = s.entry
         /\ r.next = FrontNext(s.next, e) /\ r.prev = FrontPrev(s.next, s.prev, e)
BY ZenonT(60) DEF PushFront, FrontNext, FrontPrev, Shard

(* remove, on a shard, of the entry of the key at place m.                 *)
LEMMA RemoveRep ==
  ASSUME NEW s, NEW q, Rep(s, q), NEW m \in 1..Len(q)
  PROVE  LET r == Remove(s, s.items[q[m]])
         IN  /\ r \in Shard /\ r.items = s.items /\ r.entry = s.entry
             /\ Linked(r.next, r.prev, DropAt(Chain(s.items, q), m))
<1> DEFINE c == Chain(s.items, q)
           e == s.items[q[m]]
           n2 == [s.next EXCEPT ![s.prev[e]] = s.next[e], ![e] = Nil]
           p2 == [s.prev EXCEPT ![s.next[e]] = s.prev[e], ![e] = Nil]
<1>1. s \in Shard /\ s.next \in Links /\ s.prev \in Links /\ Linked(s.next, s.prev, c)
  BY Zenon DEF Rep, Shard
<1>2. c \in Seq(Entries) /\ Len(c) = Len(q) /\ Distinct(c) /\ e = c[m]
  BY RepChain
<1> HIDE DEF c, e
<1>3. n2 \in Links /\ p2 \in Links /\ Linked(n2, p2, DropAt(c, m))
  BY Zenon, <1>1, <1>2, Unlink
<1>4. /\ Remove(s, e) \in Shard
      /\ Remove(s, e).items = s.items /\ Remove(s, e).entry = s.entry
      /\ Remove(s, e).next = n2 /\ Remove(s, e).prev = p2
  BY Zenon, <1>1, <1>3, RemoveFields
<1> HIDE DEF n2, p2
<1> QED BY Zenon, <1>3, <1>4 DEF c, e

(* A promoted key comes first, and nothing else changes.                   *)
LEMMA ToFrontRep ==
  ASSUME NEW s, NEW q, Rep(s, q), NEW k \in DOMAIN s.items
  PROVE  LET r == ToFront(s, s.items[k])
         IN  Rep(r, Touched(q, k)) /\ r.items = s.items /\ r.entry = s.entry
<1> DEFINE c == Chain(s.items, q)
           e == s.items[k]
           g == Gone(q, k)
           t == Touched(q, k)
           r == ToFront(s, e)
<1>1. /\ q \in Seq(Keys) /\ Distinct(q) /\ DOMAIN s.items = Range(q) /\ s \in Shard
      /\ Linked(s.next, s.prev, c) /\ k \in Keys /\ Len(q) <= ShardCap
      /\ \A x, y \in DOMAIN s.items : s.items[x] = s.items[y] => x = y
      /\ \A x \in DOMAIN s.items : s.entry[s.items[x]].key = x
  <2>1. q \in Seq(Keys) /\ DOMAIN s.items = Range(q)
    BY Zenon DEF Rep
  <2>2. k \in Keys
    BY Zenon, <2>1, PlacesOf
  <2> QED BY Zenon, <2>1, <2>2 DEF Rep
<1>2. PICK m \in 1..Len(q) : q[m] = k
  BY Zenon, <1>1, PlacesOf
<1>3. /\ c \in Seq(Entries) /\ Len(c) = Len(q) /\ Distinct(c) /\ Len(q) \in Nat
      /\ s.items \in [Range(q) -> Entries]
      /\ \A j \in 1..Len(q) : c[j] = s.items[q[j]]
  BY <1>1, RepChain
<1>4. e = c[m] /\ e \in Entries
  BY Zenon, <1>2, <1>3
<1>5. g = DropAt(q, m)
  BY Zenon, <1>1, <1>2, GoneAt
<1>6. /\ g \in Seq(Keys) /\ Distinct(g) /\ Range(g) = Range(q) \ {k} /\ Len(g) = Len(q) - 1
      /\ \A j \in 1..(Len(q) - 1) : g[j] = IF j < m THEN q[j] ELSE q[j + 1]
  <2>1. k \in Range(q)
    BY Zenon, <1>1
  <2>2. g \in Seq(Keys) /\ Distinct(g) /\ Range(g) = Range(q) \ {k} /\ Len(g) = Len(q) - 1
    BY Zenon, <1>1, <2>1, GoneType
  <2>3. \A j \in 1..(Len(q) - 1) : DropAt(q, m)[j] = IF j < m THEN q[j] ELSE q[j + 1]
    BY <1>1, DropAtType
  <2> QED BY Zenon, <1>5, <2>2, <2>3
<1>7. /\ t \in Seq(Keys) /\ Distinct(t) /\ Len(t) = Len(q) /\ t[1] = k
      /\ \A j \in 1..Len(g) : t[j + 1] = g[j]
      /\ Range(t) = Range(q)
  <2>1. t = <<k>> \o g /\ k \notin Range(g)
    BY Zenon, <1>6 DEF Touched
  <2>2. Range(t) = Range(g) \cup {k} /\ Len(t) = Len(g) + 1
    BY <1>1, <1>6, <2>1, FrontType
  <2>3. Range(t) = Range(q) /\ Len(t) = Len(q)
    BY <1>1, <1>3, <1>6, <2>2
  <2> QED BY <1>1, <1>6, <2>1, <2>3, FrontType
<1> HIDE DEF c, e, g, t
<1>8. CASE s.next[Front] = e
  <2>1. m = 1
    <3>1. At(c, 1) = e /\ At(c, m) = e /\ 1 \in 0..(Len(c) + 1) /\ m \in 0..(Len(c) + 1)
      <4>1. 0 \in 0..Len(c) /\ At(c, 0) = Front /\ 0 + 1 = 1
        BY <1>3 DEF At
      <4>3. s.next[At(c, 0)] = At(c, 0 + 1)
        BY Zenon, <1>1, <4>1 DEF Linked
      <4>2. At(c, 1) = e
        BY Zenon, <1>8, <4>1, <4>3
      <4> QED BY <1>3, <1>4, <4>2 DEF At
    <3> QED BY <1>3, <3>1, AtDistinct
  <2>2. \A j \in 1..Len(q) : t[j] = q[j]
    <3> SUFFICES ASSUME NEW j \in 1..Len(q) PROVE t[j] = q[j]
      BY Zenon
    <3>1. CASE j = 1
      BY Zenon, <1>2, <1>7, <2>1, <3>1
    <3>2. CASE j > 1
      <4> DEFINE i == j - 1
      <4>1. i \in 1..Len(g) /\ i + 1 = j /\ ~(i < m) /\ i \in 1..(Len(q) - 1)
        BY <1>3, <1>6, <2>1, <3>2
      <4>2. t[i + 1] = g[i] /\ g[i] = q[i + 1]
        BY Zenon, <1>6, <1>7, <4>1
      <4> QED BY Zenon, <4>1, <4>2
    <3> QED BY <1>3, <3>1, <3>2
  <2>3. t = q
    BY Zenon, <1>1, <1>7, <2>2, SameSeq
  <2>4. r = s
    BY Zenon, <1>8 DEF ToFront
  <2> QED BY Zenon, <2>3, <2>4 DEF e, t
<1>9. CASE s.next[Front] # e
  <2> DEFINE u == Remove(s, e)
             n2 == FrontNext(u.next, e)
             p2 == FrontPrev(u.next, u.prev, e)
             c2 == DropAt(c, m)
             d == Chain(s.items, t)
  <2>1. u \in Shard /\ u.items = s.items /\ u.entry = s.entry /\ Linked(u.next, u.prev, c2)
    BY Zenon, <1>2, RemoveRep DEF c, e
  <2>2. u.next \in Links /\ u.prev \in Links
    BY Zenon, <2>1 DEF Shard
  <2>3. /\ c2 \in Seq(Entries) /\ Len(c2) = Len(q) - 1 /\ Distinct(c2)
        /\ \A j \in 1..(Len(q) - 1) : c2[j] = IF j < m THEN c[j] ELSE c[j + 1]
        /\ \A j \in 1..Len(c2) : c2[j] # e
    <3>1. c \in Seq(Entries) /\ Distinct(c) /\ m \in 1..Len(c) /\ Len(c) = Len(q)
      BY Zenon, <1>3
    <3>2. Distinct(c2) /\ \A j \in 1..Len(c2) : c2[j] # c[m]
      BY Zenon, <3>1, DropAtDistinct
    <3>3. /\ c2 \in Seq(Entries) /\ Len(c2) = Len(c) - 1
          /\ \A j \in 1..(Len(c) - 1) : c2[j] = IF j < m THEN c[j] ELSE c[j + 1]
      BY Zenon, <3>1, DropAtType
    <3> HIDE DEF c, c2, e
    <3> QED BY Zenon, <1>4, <3>1, <3>2, <3>3
  <2>4. /\ d \in Seq(Entries) /\ Len(d) = Len(q)
        /\ \A j \in 1..Len(q) : d[j] = s.items[t[j]]
    <3>1. \A j \in 1..Len(q) : s.items[t[j]] \in Entries
      BY <1>3, <1>7, PlacesOf
    <3>2. d \in [1..Len(q) -> Entries]
      BY Zenon, <1>7, <3>1 DEF Chain
    <3> QED BY <1>3, <1>7, <3>2 DEF Chain
  <2> HIDE DEF d, c2
  <2>5. d[1] = e /\ \A j \in 1..Len(c2) : d[j + 1] = c2[j]
    <3>1. d[1] = e
      BY <1>2, <1>3, <1>7, <2>4 DEF e
    <3>2. ASSUME NEW j \in 1..Len(c2) PROVE d[j + 1] = c2[j]
      <4>1. j \in 1..(Len(q) - 1) /\ j \in 1..Len(g) /\ j + 1 \in 1..Len(q) /\ j \in 1..Len(q)
        BY <1>3, <1>6, <2>3
      <4>2. d[j + 1] = s.items[g[j]]
        BY Zenon, <1>7, <2>4, <4>1
      <4>3. c2[j] = s.items[g[j]]
        BY <1>3, <1>6, <2>3, <4>1
      <4> QED BY Zenon, <4>2, <4>3
    <3> QED BY Zenon, <3>1, <3>2
  <2>6. Len(d) = Len(c2) + 1
    BY <1>3, <2>3, <2>4
  <2> HIDE DEF u
  <2>7. n2 \in Links /\ p2 \in Links /\ Linked(n2, p2, d)
    <3>1. Fronted(c2, e, d)
      BY Zenon, <2>3, <2>4, <2>5, <2>6 DEF Fronted
    <3>2. Linked(u.next, u.prev, c2) /\ c2 \in Seq(Entries) /\ Distinct(c2)
      BY Zenon, <2>1, <2>3
    <3> QED BY Zenon, <1>4, <2>2, <3>1, <3>2, LinkFront
  <2>8. r = PushFront(u, e)
    BY Zenon, <1>9 DEF ToFront, u
  <2>9. r \in Shard /\ r.items = u.items /\ r.entry = u.entry /\ r.next = n2 /\ r.prev = p2
    BY <2>1, <2>7, <2>8, PushFrontFields
  <2> HIDE DEF r
  <2>10. Rep(r, t)
    <3>1. Linked(r.next, r.prev, Chain(r.items, t))
      BY Zenon, <2>1, <2>7, <2>9 DEF d
    <3> QED BY <1>1, <1>7, <2>1, <2>9, <3>1 DEF Rep
  <2> QED BY Zenon, <2>1, <2>9, <2>10 DEF r, e, t
<1> QED BY Zenon, <1>8, <1>9
(* The entry the map has for k.                                            *)
Content(s, k) == s.entry[s.items[k]]

LEMMA NoEntryType == NoEntry \in EntryType
BY Zenon DEF NoEntry, EntryType

(* A dropped key leaves its list and its map, and nothing else changes.    *)
LEMMA DroppedRep ==
  ASSUME NEW s, NEW q, Rep(s, q), NEW k \in DOMAIN s.items
  PROVE  LET r == Dropped(s, s.items[k])
         IN  /\ Rep(r, Gone(q, k))
             /\ DOMAIN r.items = DOMAIN s.items \ {k}
             /\ \A l \in DOMAIN r.items : /\ r.items[l] = s.items[l] /\ r.items[l] # s.items[k]
                                          /\ Content(r, l) = Content(s, l)
<1> DEFINE c == Chain(s.items, q)
           e == s.items[k]
           g == Gone(q, k)
           u == Remove(s, e)
           r == Dropped(s, e)
<1>1. /\ q \in Seq(Keys) /\ Distinct(q) /\ DOMAIN s.items = Range(q) /\ s \in Shard
      /\ Linked(s.next, s.prev, c) /\ Len(q) <= ShardCap
      /\ \A x, y \in DOMAIN s.items : s.items[x] = s.items[y] => x = y
      /\ \A x \in DOMAIN s.items : s.entry[s.items[x]].key = x
  BY Zenon DEF Rep
<1>2. PICK m \in 1..Len(q) : q[m] = k
  BY Zenon, <1>1, PlacesOf
<1>3. /\ c \in Seq(Entries) /\ Len(c) = Len(q) /\ Distinct(c) /\ Len(q) \in Nat
      /\ s.items \in [Range(q) -> Entries]
      /\ \A j \in 1..Len(q) : c[j] = s.items[q[j]]
  BY <1>1, RepChain
<1>4. e \in Entries /\ k \in Range(q) /\ s.entry[e].key = k
  BY Zenon, <1>1, <1>3
<1>5. g = DropAt(q, m)
  BY Zenon, <1>1, <1>2, GoneAt
<1>6. g \in Seq(Keys) /\ Distinct(g) /\ Range(g) = Range(q) \ {k} /\ Len(g) = Len(q) - 1
  BY Zenon, <1>1, <1>4, GoneType
<1>7. \A j \in 1..(Len(q) - 1) : g[j] = IF j < m THEN q[j] ELSE q[j + 1]
  <2>1. \A j \in 1..(Len(q) - 1) : DropAt(q, m)[j] = IF j < m THEN q[j] ELSE q[j + 1]
    BY <1>1, DropAtType
  <2> QED BY Zenon, <1>5, <2>1
<1>8. u \in Shard /\ u.items = s.items /\ u.entry = s.entry /\ Linked(u.next, u.prev, DropAt(c, m))
  BY Zenon, <1>2, RemoveRep DEF c, e
<1>9. /\ Without(s.items, k) \in [Range(q) \ {k} -> Entries]
      /\ \A l \in Range(q) \ {k} : Without(s.items, k)[l] = s.items[l]
  BY Zenon, <1>1, <1>3 DEF Without, Restrict
<1>10. Without(s.items, k) \in Maps
  <2>1. Range(q) \ {k} \subseteq Keys
    BY Zenon, <1>1, PlacesOf
  <2> QED BY Zenon, <1>9, <2>1, MapsType
<1>11. [s.entry EXCEPT ![e] = NoEntry] \in [Entries -> EntryType]
  BY ZenonT(60), <1>1, NoEntryType DEF Shard
<1> HIDE DEF c, e, g, u
<1>12. /\ r.items = Without(s.items, k) /\ r.entry = [s.entry EXCEPT ![e] = NoEntry]
       /\ r.next = u.next /\ r.prev = u.prev /\ r \in Shard
  BY ZenonT(60), <1>4, <1>8, <1>10, <1>11 DEF Dropped, Shard, u
<1> HIDE DEF r
<1>13. DOMAIN r.items = Range(q) \ {k} /\ \A l \in Range(q) \ {k} : r.items[l] = s.items[l]
  BY Zenon, <1>9, <1>12
<1>14. \A l \in Range(q) \ {k} : s.items[l] # e
  BY Zenon, <1>1, <1>4 DEF e
<1>15. \A l \in Range(q) \ {k} : r.entry[r.items[l]] = s.entry[s.items[l]]
  <2>1. s.entry \in [Entries -> EntryType]
    BY Zenon, <1>1 DEF Shard
  <2>2. \A l \in Range(q) \ {k} : s.items[l] \in Entries
    BY Zenon, <1>3
  <2> QED BY Zenon, <1>12, <1>13, <1>14, <2>1, <2>2
<1>16. Chain(r.items, g) = DropAt(c, m)
  <2>1. \A j \in 1..(Len(q) - 1) : r.items[g[j]] = s.items[g[j]]
    BY Zenon, <1>6, <1>13, PlacesOf
  <2>2. ASSUME NEW j \in 1..(Len(q) - 1)
        PROVE  r.items[g[j]] = IF j < m THEN c[j] ELSE c[j + 1]
    <3>1. j \in 1..Len(q) /\ j + 1 \in 1..Len(q)
      BY <1>3
    <3> QED BY <1>3, <1>7, <2>1, <3>1
  <2> QED BY ZenonT(60), <1>3, <1>6, <2>2 DEF Chain, DropAt
<1>17. Rep(r, g)
  <2>1. Linked(r.next, r.prev, Chain(r.items, g))
    BY Zenon, <1>8, <1>12, <1>16
  <2>2. \A x, y \in DOMAIN r.items : r.items[x] = r.items[y] => x = y
    BY Zenon, <1>1, <1>13
  <2>3. \A x \in DOMAIN r.items : r.entry[r.items[x]].key = x
    BY <1>1, <1>13, <1>15
  <2>4. Len(g) <= ShardCap
    BY <1>1, <1>3, <1>6, CapType
  <2> QED BY Zenon, <1>6, <1>12, <1>13, <2>1, <2>2, <2>3, <2>4 DEF Rep
<1> QED BY Zenon, <1>1, <1>13, <1>14, <1>15, <1>17 DEF Content, r, e, g

(* Set puts the key k into the entry e.                                    *)
Inserted(s, k, e, new) ==
  PushFront([s EXCEPT !.items = With(@, k, e), !.entry[e] = new], e)

(* A key put into a free entry comes first, and nothing else changes.      *)
LEMMA InsertRep ==
  ASSUME NEW s, NEW q, Rep(s, q), Len(q) < ShardCap, NEW k \in Keys, k \notin Range(q),
         NEW e \in Entries, \A l \in DOMAIN s.items : s.items[l] # e,
         NEW new \in EntryType, new.key = k
  PROVE  LET r == Inserted(s, k, e, new)
         IN  /\ Rep(r, <<k>> \o q)
             /\ DOMAIN r.items = DOMAIN s.items \cup {k}
             /\ Content(r, k) = new
             /\ \A l \in DOMAIN s.items : Content(r, l) = Content(s, l)
<1> DEFINE c == Chain(s.items, q)
           t == <<k>> \o q
           u == [s EXCEPT !.items = With(@, k, e), !.entry[e] = new]
           r == PushFront(u, e)
           n2 == FrontNext(s.next, e)
           p2 == FrontPrev(s.next, s.prev, e)
           f == With(s.items, k, e)
           d == Chain(f, t)
<1>1. /\ q \in Seq(Keys) /\ Distinct(q) /\ DOMAIN s.items = Range(q) /\ s \in Shard
      /\ Linked(s.next, s.prev, c)
      /\ \A x, y \in DOMAIN s.items : s.items[x] = s.items[y] => x = y
      /\ \A x \in DOMAIN s.items : s.entry[s.items[x]].key = x
  BY Zenon DEF Rep
<1>2. /\ c \in Seq(Entries) /\ Len(c) = Len(q) /\ Distinct(c) /\ Len(q) \in Nat
      /\ s.items \in [Range(q) -> Entries]
      /\ \A j \in 1..Len(q) : c[j] = s.items[q[j]]
  BY <1>1, RepChain
<1>3. /\ t \in Seq(Keys) /\ Distinct(t) /\ Len(t) = Len(q) + 1 /\ t[1] = k
      /\ \A j \in 1..Len(q) : t[j + 1] = q[j]
      /\ Range(t) = Range(q) \cup {k}
  BY <1>1, FrontType
<1>4. f \in [Range(q) \cup {k} -> Entries] /\ f[k] = e /\ \A l \in Range(q) : f[l] = s.items[l]
  BY Zenon, <1>1, <1>2 DEF With
<1>5. f \in Maps
  <2>1. Range(q) \cup {k} \subseteq Keys
    BY Zenon, <1>1, PlacesOf
  <2> QED BY Zenon, <1>4, <2>1, MapsType
<1> HIDE DEF c, t, f
<1>6. /\ d \in Seq(Entries) /\ Len(d) = Len(c) + 1 /\ d[1] = e
      /\ \A j \in 1..Len(c) : d[j + 1] = c[j]
  <2>1. \A j \in 1..Len(t) : t[j] \in Range(q) \cup {k}
    BY Zenon, <1>3, PlacesOf
  <2>2. d \in [1..Len(t) -> Entries] /\ \A j \in 1..Len(t) : d[j] = f[t[j]]
    BY Zenon, <1>4, <2>1 DEF Chain
  <2>3. d \in Seq(Entries) /\ Len(d) = Len(c) + 1 /\ Len(t) = Len(q) + 1 /\ 1 \in 1..Len(t)
    <3>1. Len(t) = Len(q) + 1 /\ Len(t) \in Nat /\ 1 \in 1..Len(t)
      BY <1>2, <1>3
    <3> HIDE DEF d
    <3>2. d \in Seq(Entries) /\ Len(d) = Len(t)
      BY <2>2, <3>1
    <3> QED BY Zenon, <1>2, <3>1, <3>2
  <2> HIDE DEF d
  <2>4. d[1] = e
    BY Zenon, <1>3, <1>4, <2>2, <2>3
  <2>5. ASSUME NEW j \in 1..Len(q) PROVE d[j + 1] = c[j]
    <3>1. j + 1 \in 1..Len(t) /\ q[j] \in Range(q)
      BY <1>1, <1>2, <1>3, PlacesOf
    <3>2. d[j + 1] = f[q[j]]
      BY Zenon, <1>3, <2>2, <3>1
    <3> QED BY Zenon, <1>2, <1>4, <3>1, <3>2
  <2> QED BY Zenon, <1>2, <2>3, <2>4, <2>5
<1> HIDE DEF d
<1>7. \A i \in 1..Len(c) : c[i] # e
  BY <1>1, <1>2, PlacesOf
<1>8. s.next \in Links /\ s.prev \in Links /\ s.entry \in [Entries -> EntryType]
  BY Zenon, <1>1 DEF Shard
<1>9. n2 \in Links /\ p2 \in Links /\ Linked(n2, p2, d)
  <2>1. Linked(s.next, s.prev, c) /\ c \in Seq(Entries) /\ Distinct(c)
    BY Zenon, <1>1, <1>2
  <2>2. Fronted(c, e, d)
    BY Zenon, <1>6, <1>7 DEF Fronted
  <2> QED BY Zenon, <1>8, <2>1, <2>2, LinkFront
<1>10. /\ u \in Shard /\ u.items = f /\ u.entry = [s.entry EXCEPT ![e] = new]
       /\ u.next = s.next /\ u.prev = s.prev
  <2>1. [s.entry EXCEPT ![e] = new] \in [Entries -> EntryType]
    BY Zenon, <1>8
  <2> QED BY ZenonT(60), <1>1, <1>5, <2>1 DEF Shard, f
<1> HIDE DEF u
<1>11. r \in Shard /\ r.items = f /\ r.entry = u.entry /\ r.next = n2 /\ r.prev = p2
  BY <1>9, <1>10, PushFrontFields
<1> HIDE DEF r, n2, p2
<1>12. DOMAIN r.items = Range(t) /\ DOMAIN r.items = Range(q) \cup {k}
  BY Zenon, <1>3, <1>4, <1>11
<1>13. r.entry[r.items[k]] = new /\ \A l \in Range(q) : r.entry[r.items[l]] = s.entry[s.items[l]]
  <2>1. \A l \in Range(q) : s.items[l] \in Entries /\ s.items[l] # e
    BY Zenon, <1>1, <1>2
  <2> QED BY <1>4, <1>8, <1>10, <1>11, <2>1
<1>14. Rep(r, t)
  <2>1. Linked(r.next, r.prev, Chain(r.items, t))
    BY Zenon, <1>9, <1>11 DEF d
  <2>2. \A x, y \in DOMAIN r.items : r.items[x] = r.items[y] => x = y
    BY <1>1, <1>4, <1>11
  <2>3. \A x \in DOMAIN r.items : r.entry[r.items[x]].key = x
    BY <1>1, <1>12, <1>13
  <2>4. Len(t) <= ShardCap
    BY <1>2, <1>3, CapType
  <2> QED BY Zenon, <1>3, <1>11, <1>12, <2>1, <2>2, <2>3, <2>4 DEF Rep
<1> QED BY Zenon, <1>1, <1>12, <1>13, <1>14 DEF Inserted, Content, r, u, t
(* del of a key that may be there.                                         *)
LEMMA DeleteRep ==
  ASSUME NEW s, NEW q, Rep(s, q), NEW k
  PROVE  /\ Rep(Delete(s, k), Gone(q, k))
         /\ DOMAIN Delete(s, k).items = DOMAIN s.items \ {k}
         /\ \A l \in DOMAIN Delete(s, k).items : Content(Delete(s, k), l) = Content(s, l)
<1>1. CASE k \in DOMAIN s.items
  <2>1. Delete(s, k) = Dropped(s, s.items[k])
    BY Zenon, <1>1 DEF Delete
  <2> QED BY <1>1, <2>1, DroppedRep
<1>2. CASE k \notin DOMAIN s.items
  <2>1. Delete(s, k) = s /\ k \notin Range(q)
    BY Zenon, <1>2 DEF Delete, Rep
  <2>2. Gone(q, k) = q
    BY Zenon, <2>1 DEF Gone
  <2> QED BY Zenon, <1>2, <2>1, <2>2
<1> QED BY Zenon, <1>1, <1>2

(* Get promotes a live entry and drops an expired one.                     *)
LEMMA AfterGetRep ==
  ASSUME NEW s, NEW q, Rep(s, q), NEW k
  PROVE  /\ Rep(AfterGet(s, k), IF Hit(s, k) THEN Touched(q, k) ELSE Gone(q, k))
         /\ DOMAIN AfterGet(s, k).items \subseteq DOMAIN s.items
         /\ \A l \in DOMAIN AfterGet(s, k).items : Content(AfterGet(s, k), l) = Content(s, l)
<1>1. CASE Hit(s, k)
  <2>1. AfterGet(s, k) = ToFront(s, s.items[k]) /\ k \in DOMAIN s.items
    BY Zenon, <1>1 DEF AfterGet, Hit
  <2>2. /\ Rep(AfterGet(s, k), Touched(q, k))
        /\ AfterGet(s, k).items = s.items /\ AfterGet(s, k).entry = s.entry
    BY Zenon, <2>1, ToFrontRep
  <2> QED BY Zenon, <1>1, <2>2 DEF Content
<1>2. CASE ~Hit(s, k)
  <2>1. AfterGet(s, k) = Delete(s, k)
    BY Zenon, <1>2 DEF AfterGet
  <2> QED BY <1>2, <2>1, DeleteRep
<1> QED BY Zenon, <1>1, <1>2

(* A list of distinct keys or entries is as long as it has elements, and   *)
(* a shard has as many entries as its capacity says: the facts on sizes    *)
(* that the proofs below take as an assumption, and that are proved from   *)
(* the library's theorems on finite sets once they are needed.             *)
Sizes ==
  /\ \A S \in {Keys, Entries} : \A q \in Seq(S) : Distinct(q) => Cardinality(Range(q)) = Len(q)
  /\ Cardinality(Entries) = ShardCap

(* A shard that is not full has an entry no key uses.                      *)
LEMMA UnusedExists ==
  ASSUME Sizes, NEW s, NEW q, Rep(s, q), Len(q) < ShardCap
  PROVE  Entries \ Range(s.items) # {}
<1> DEFINE c == Chain(s.items, q)
<1>1. q \in Seq(Keys) /\ DOMAIN s.items = Range(q)
  BY Zenon DEF Rep
<1>2. /\ c \in Seq(Entries) /\ Len(c) = Len(q) /\ Distinct(c)
      /\ \A j \in 1..Len(q) : c[j] = s.items[q[j]]
  BY RepChain
<1> HIDE DEF c
<1>3. Cardinality(Range(c)) = Len(q)
  BY Zenon, <1>2 DEF Sizes
<1>4. Cardinality(Entries) = ShardCap
  BY Zenon DEF Sizes
<1>5. Range(c) # Entries
  BY <1>1, <1>3, <1>4, CapType
<1>6. Range(c) \subseteq Entries
  BY Zenon, <1>2, PlacesOf
<1>7. Range(s.items) \subseteq Range(c)
  <2>1. ASSUME NEW k \in DOMAIN s.items PROVE s.items[k] \in Range(c)
    <3>1. PICK j \in 1..Len(q) : q[j] = k
      BY Zenon, <1>1, PlacesOf
    <3> QED BY Zenon, <1>2, <3>1, PlacesOf
  <2> QED BY Zenon, <2>1 DEF Range
<1> QED BY ZenonT(60), <1>5, <1>6, <1>7

(* The entry before the tail is that of the least recently used key, and   *)
(* without that key the list is the list without its last element.         *)
LEMMA VictimIs ==
  ASSUME NEW s, NEW q, Rep(s, q), Len(q) > 0
  PROVE  /\ q[Len(q)] \in DOMAIN s.items /\ s.prev[Back] = s.items[q[Len(q)]]
         /\ Gone(q, q[Len(q)]) = SubSeq(q, 1, Len(q) - 1)
<1> DEFINE c == Chain(s.items, q)
           n == Len(q)
<1>1. /\ q \in Seq(Keys) /\ Distinct(q) /\ DOMAIN s.items = Range(q) /\ Linked(s.next, s.prev, c)
  BY Zenon DEF Rep
<1>2. n \in Nat /\ n \in 1..n /\ Len(c) = n /\ c[n] = s.items[q[n]] /\ n \in 0..n /\ n # 0 /\ n # n + 1
  <2>1. n \in Nat /\ n \in 1..n /\ n \in 0..n /\ n # 0 /\ n # n + 1
    BY <1>1
  <2> QED BY <2>1, RepChain
<1> HIDE DEF c, n
<1>3. s.prev[Back] = s.items[q[n]]
  <2>1. s.prev[At(c, n + 1)] = At(c, n)
    BY Zenon, <1>1, <1>2 DEF Linked
  <2> QED BY <1>2, <2>1 DEF At
<1>4. q[n] \in DOMAIN s.items
  BY Zenon, <1>1, <1>2, PlacesOf DEF n
<1>5. Gone(q, q[n]) = DropAt(q, n)
  BY Zenon, <1>1, <1>2, GoneAt DEF n
<1>6. DropAt(q, n) = SubSeq(q, 1, n - 1)
  <2>1. /\ DropAt(q, n) \in Seq(Keys) /\ Len(DropAt(q, n)) = n - 1
        /\ \A j \in 1..(n - 1) : DropAt(q, n)[j] = IF j < n THEN q[j] ELSE q[j + 1]
    BY Zenon, <1>1, <1>2, DropAtType DEF n
  <2>2. /\ SubSeq(q, 1, n - 1) \in Seq(Keys) /\ Len(SubSeq(q, 1, n - 1)) = n - 1
        /\ \A j \in 1..(n - 1) : SubSeq(q, 1, n - 1)[j] = q[j]
    BY <1>1, <1>2 DEF n
  <2>3. \A j \in 1..(n - 1) : j < n
    BY <1>2
  <2> QED BY Zenon, <2>1, <2>2, <2>3, SameSeq
<1> QED BY Zenon, <1>3, <1>4, <1>5, <1>6 DEF n

(* A cleared shard.                                                        *)
LEMMA EmptyRep == Rep(EmptyShard, <<>>) /\ DOMAIN EmptyShard.items = {}
<1>1. /\ EmptyShard.items = <<>> /\ DOMAIN <<>> = {} /\ Len(<<>>) = 0
      /\ EmptyShard.next = [n \in Nodes |-> IF n = Front THEN Back ELSE Nil]
      /\ EmptyShard.prev = [n \in Nodes |-> IF n = Back THEN Front ELSE Nil]
      /\ EmptyShard.entry = [e \in Entries |-> NoEntry]
  BY DEF EmptyShard
<1>2. EmptyShard.next \in Links /\ EmptyShard.prev \in Links
  BY <1>1, NodeKinds DEF Links
<1>3. EmptyShard.items \in Maps
  <2>1. <<>> \in [{} -> Entries]
    BY SMTT(60)
  <2> QED BY ZenonT(60), <1>1, <2>1, MapsType
<1>4. EmptyShard.entry \in [Entries -> EntryType]
  BY Zenon, <1>1, NoEntryType
<1>5. EmptyShard \in Shard
  BY Zenon, <1>2, <1>3, <1>4 DEF EmptyShard, Shard
<1>6. Linked(EmptyShard.next, EmptyShard.prev, Chain(<<>>, <<>>))
  <2>1. Len(Chain(<<>>, <<>>)) = 0
    BY <1>1 DEF Chain
  <2> HIDE DEF Chain
  <2>2. At(Chain(<<>>, <<>>), 0) = Front /\ At(Chain(<<>>, <<>>), 1) = Back
    BY <2>1 DEF At
  <2>3. EmptyShard.next[Front] = Back /\ EmptyShard.prev[Back] = Front
    BY Zenon, <1>1, NodeKinds
  <2>4. \A j \in 0..0 : j = 0 /\ j + 1 = 1
    BY SMTT(60)
  <2> QED BY Zenon, <2>1, <2>2, <2>3, <2>4 DEF Linked
<1>7. Range(<<>>) = {} /\ Distinct(<<>>) /\ <<>> \in Seq(Keys) /\ 0 <= ShardCap
  BY <1>1, CapType DEF Range, Distinct
<1> QED BY Zenon, <1>1, <1>5, <1>6, <1>7 DEF Rep
(* Set: the key comes first with the new entry, the least recently used    *)
(* key goes when the shard is full, and nothing else changes; an answer    *)
(* with TTL 0 is a deletion.                                               *)
LEMMA SetRep ==
  ASSUME Sizes, NEW s, NEW q, Rep(s, q), NEW k \in Keys, NEW v \in Values,
         NEW late \in BOOLEAN, NEW age \in Nat
  PROVE  LET r == Set(s, k, v, late, age)
         IN  /\ Rep(r, IF Ttl[v] = 0 THEN Gone(q, k) ELSE Stored(q, k))
             /\ DOMAIN r.items \subseteq DOMAIN s.items \cup {k}
             /\ \A l \in DOMAIN r.items :
                  IF l = k THEN Content(r, l) = [key |-> k, value |-> v, left |-> Ttl[v],
                                                 late |-> late, age |-> age]
                  ELSE Content(r, l) = Content(s, l)
<1> DEFINE r == Set(s, k, v, late, age)
           new == [key |-> k, value |-> v, left |-> Ttl[v], late |-> late, age |-> age]
<1>1. /\ q \in Seq(Keys) /\ Distinct(q) /\ DOMAIN s.items = Range(q) /\ s \in Shard
      /\ Len(q) <= ShardCap /\ Len(q) \in Nat
      /\ \A x, y \in DOMAIN s.items : s.items[x] = s.items[y] => x = y
      /\ \A x \in DOMAIN s.items : s.entry[s.items[x]].key = x
      /\ s.items \in [Range(q) -> Entries] /\ Linked(s.next, s.prev, Chain(s.items, q))
  <2>1. q \in Seq(Keys) /\ Len(q) \in Nat
    BY DEF Rep
  <2> QED BY ZenonT(60), <2>1, RepChain DEF Rep
<1>2. Ttl[v] \in Nat
  BY Zenon, QueryAssumption
<1>3. new \in EntryType /\ new.key = k
  BY Zenon, <1>2 DEF EntryType
<1>4. CASE Ttl[v] = 0
  <2>1. r = Delete(s, k)
    BY <1>4 DEF Set
  <2>2. Rep(r, Gone(q, k)) /\ DOMAIN r.items = DOMAIN s.items \ {k}
        /\ \A l \in DOMAIN r.items : Content(r, l) = Content(s, l)
    BY <2>1, DeleteRep
  <2> HIDE DEF r
  <2>3. \A l \in DOMAIN r.items : l # k
    BY Zenon, <2>2
  <2> QED BY Zenon, <1>4, <2>2, <2>3 DEF r
<1>5. CASE Ttl[v] # 0 /\ k \in DOMAIN s.items
  <2> DEFINE u == [s EXCEPT !.entry[s.items[k]] = new]
  <2>1. r = ToFront(u, s.items[k])
    BY <1>2, <1>5 DEF Set
  <2>2. s.entry \in [Entries -> EntryType] /\ s.items[k] \in Entries
    BY Zenon, <1>1, <1>5 DEF Shard
  <2> HIDE DEF new
  <2>3. /\ u.items = s.items /\ u.next = s.next /\ u.prev = s.prev
        /\ u.entry = [s.entry EXCEPT ![s.items[k]] = new] /\ u \in Shard
    <3>1. [s.entry EXCEPT ![s.items[k]] = new] \in [Entries -> EntryType]
      BY Zenon, <1>3, <2>2
    <3> QED BY Zenon, <1>1, <3>1 DEF Shard
  <2> HIDE DEF u, r
  <2>4. \A l \in DOMAIN s.items : u.entry[u.items[l]] = IF l = k THEN new ELSE s.entry[s.items[l]]
    BY <1>1, <1>5, <2>2, <2>3
  <2>5. \A l \in DOMAIN u.items : u.entry[u.items[l]].key = l
    BY <1>1, <1>3, <2>3, <2>4
  <2>6. Rep(u, q)
    BY Zenon, <1>1, <2>3, <2>5 DEF Rep
  <2>7. Rep(r, Touched(q, k)) /\ r.items = u.items /\ r.entry = u.entry
    BY <1>5, <2>1, <2>3, <2>6, ToFrontRep
  <2>8. Stored(q, k) = Touched(q, k)
    BY Zenon, <1>1, <1>5 DEF Stored
  <2>9. \A l \in DOMAIN r.items : Content(r, l) = IF l = k THEN new ELSE Content(s, l)
    BY Zenon, <2>3, <2>4, <2>7 DEF Content
  <2> QED BY Zenon, <1>5, <2>3, <2>7, <2>8, <2>9 DEF r, new
<1>6. CASE Ttl[v] # 0 /\ k \notin DOMAIN s.items
  <2>1. Cardinality(DOMAIN s.items) = Len(q) /\ k \notin Range(q)
    BY Zenon, <1>1, <1>6 DEF Sizes
  <2>2. CASE Len(q) >= ShardCap
    <3> DEFINE w == q[Len(q)]
               e == s.prev[Back]
               u == Dropped(s, e)
               p == SubSeq(q, 1, Len(q) - 1)
    <3>1. r = Inserted(u, k, e, new)
      BY <1>2, <1>6, <2>1, <2>2 DEF Set, Inserted
    <3>2. Len(q) > 0 /\ Len(q) = ShardCap
      BY <1>1, <2>2, CapType
    <3>3. w \in DOMAIN s.items /\ e = s.items[w] /\ Gone(q, w) = p
      BY ZenonT(60), <3>2, VictimIs
    <3> HIDE DEF w, e, p, new
    <3>4. /\ Rep(u, p) /\ DOMAIN u.items = DOMAIN s.items \ {w}
          /\ \A l \in DOMAIN u.items : u.items[l] # e /\ Content(u, l) = Content(s, l)
      BY <3>3, DroppedRep
    <3>5. Range(p) = Range(q) \ {w} /\ Len(p) = Len(q) - 1
      BY Zenon, <1>1, <3>3, GoneType
    <3>6. Len(p) < ShardCap /\ k \notin Range(p) /\ e \in Entries
      BY <1>1, <2>1, <3>2, <3>3, <3>5
    <3> HIDE DEF u, r
    <3>7. /\ Rep(r, <<k>> \o p) /\ DOMAIN r.items = DOMAIN u.items \cup {k}
          /\ Content(r, k) = new /\ \A l \in DOMAIN u.items : Content(r, l) = Content(u, l)
      <4>1. Rep(u, p) /\ \A l \in DOMAIN u.items : u.items[l] # e
        BY Zenon, <3>4
      <4>2. k \in Keys
        BY Zenon
      <4> QED BY ONLY <1>3, <3>1, <3>6, <4>1, <4>2, InsertRep
    <3>8. Stored(q, k) = <<k>> \o p
      BY <2>1, <2>2, <3>2, <3>6 DEF Stored, Touched, Gone, p
    <3>9. DOMAIN r.items \subseteq DOMAIN s.items \cup {k}
      BY Zenon, <3>4, <3>7
    <3>10. \A l \in DOMAIN r.items : IF l = k THEN Content(r, l) = new
                                     ELSE Content(r, l) = Content(s, l)
      BY Zenon, <3>4, <3>7
    <3> QED BY Zenon, <1>6, <3>7, <3>8, <3>9, <3>10 DEF r, new
  <2>3. CASE Len(q) < ShardCap
    <3> DEFINE e == CHOOSE e \in Entries \ Range(s.items) : TRUE
    <3>1. r = Inserted(s, k, e, new)
      <4>1. ~(Len(q) >= ShardCap)
        BY <1>1, <2>3, CapType
      <4> QED BY <1>2, <1>6, <2>1, <4>1 DEF Set, Inserted
    <3>2. e \in Entries /\ e \notin Range(s.items)
      BY Zenon, <2>3, UnusedExists
    <3> HIDE DEF e, r, new
    <3>3. \A l \in DOMAIN s.items : s.items[l] # e
      BY Zenon, <3>2 DEF Range
    <3>4. /\ Rep(r, <<k>> \o q) /\ DOMAIN r.items = DOMAIN s.items \cup {k}
          /\ Content(r, k) = new /\ \A l \in DOMAIN s.items : Content(r, l) = Content(s, l)
      <4>1. Rep(s, q) /\ k \in Keys /\ k \notin Range(q)
        BY Zenon, <2>1
      <4> QED BY ONLY <1>3, <2>3, <3>1, <3>2, <3>3, <4>1, InsertRep
    <3>5. Stored(q, k) = <<k>> \o q
      BY Zenon, <2>1, <2>3 DEF Stored, Touched, Gone
    <3>6. \A l \in DOMAIN r.items : IF l = k THEN Content(r, l) = new
                                    ELSE Content(r, l) = Content(s, l)
      BY Zenon, <3>4
    <3> QED BY Zenon, <1>6, <3>4, <3>5, <3>6 DEF r, new
  <2>4. Len(q) \in Int /\ ShardCap \in Int
    BY <1>1, CapType
  <2>5. Len(q) >= ShardCap \/ Len(q) < ShardCap
    BY ONLY <2>4
  <2> QED BY <2>2, <2>3, <2>5, Zenon
<1> QED BY Zenon, <1>4, <1>5, <1>6

-----------------------------------------------------------------------------
(* The inductive invariant                                                 *)

QueryType ==
  [pc : {"idle", "miss", "fill"}, key : Keys \cup {None}, res : Values \cup {None},
   wait : 0..MaxDelay, late : BOOLEAN, age : Nat]

WriterType ==
  [pc : {"idle", "mutating", "clearing"}, shard : 0..ShardCount, batch : 0..MaxBatch]

(* The clear is at a shard while it lasts.                                 *)
Plain ==
  /\ tree \in [Keys -> Values \cup {Negative}]
  /\ DOMAIN cache = Shards /\ DOMAIN lru = Shards
  /\ reader \in [Readers -> QueryType]
  /\ writer \in WriterType /\ (writer.pc = "clearing" => writer.shard \in 1..ShardCount)
  /\ writes \in 0..MaxWrites

(* A query on its way to the cache carries the answer to its key, which is *)
(* the tree's or is known to be late, and has not been the tree's for at   *)
(* most as long as the query has waited.                                   *)
Carried(q, t) ==
  /\ q.pc # "idle" => q.key \in Keys
  /\ q.pc = "miss" => q.wait = 0 /\ q.age = 0
  /\ q.pc = "fill" => q.res \in Values /\ q.age <= q.wait /\ (q.late \/ q.res = t[q.key])

Asking == \A r \in Readers : Carried(reader[r], tree)

(* Every shard is what its ideal list says, and holds its own keys.        *)
Lists ==
  \A i \in Shards : /\ Rep(cache[i], lru[i])
                    /\ \A k \in DOMAIN cache[i].items : Hash[k] = i

(* A live entry has an age and a remaining life that add up to no more     *)
(* than the life it started with, and the delay of the query that made it. *)
InTime(c) == c.left > 0 => c.value \in Values /\ c.age + c.left <= Ttl[c.value] + MaxDelay

Bounded ==
  \A i \in Shards : \A k \in DOMAIN cache[i].items : InTime(Content(cache[i], k))

(* The write in progress has yet to clear shard i.                         *)
ToClear(w, i) == w.pc = "mutating" \/ (w.pc = "clearing" /\ w.shard <= i)

(* A live entry that is neither late nor the tree's answer is in a shard   *)
(* the write in progress has yet to clear.                                 *)
Current(c, a) == c.left > 0 => c.late \/ c.value = a

Fresh ==
  \A i \in Shards : \A k \in DOMAIN cache[i].items :
    ToClear(writer, i) \/ Current(Content(cache[i], k), tree[k])

IInv == Plain /\ Asking /\ Lists /\ Bounded /\ Fresh
(* The invariant of one shard and its list, while the tree is t and the    *)
(* writer w.                                                               *)
ShardInv(i, s, q, t, w) ==
  /\ Rep(s, q)
  /\ \A k \in DOMAIN s.items : /\ Hash[k] = i /\ InTime(Content(s, k))
                               /\ ToClear(w, i) \/ Current(Content(s, k), t[k])

LEMMA ByShard ==
  Lists /\ Bounded /\ Fresh <=> \A i \in Shards : ShardInv(i, cache[i], lru[i], tree, writer)
BY Zenon DEF Lists, Bounded, Fresh, ShardInv

LEMMA ByShardNext ==
  ASSUME \A i \in Shards : ShardInv(i, cache'[i], lru'[i], tree', writer')
  PROVE  Lists' /\ Bounded' /\ Fresh'
BY Zenon DEF Lists, Bounded, Fresh, ShardInv

LEMMA KeyOfAsk ==
  ASSUME NEW r \in Readers, NEW q \in Asks[r] PROVE Lower[q] \in Keys
<1>1. q \in UNION Range(Asks)
  BY Zenon, QueryAssumption DEF Range
<1> QED BY Zenon, <1>1, QueryAssumption

LEMMA HashType ==
  ASSUME NEW k \in Keys PROVE Hash[k] \in Shards
BY Zenon, QueryAssumption

LEMMA IdleType == Idle \in QueryType /\ \A t : Carried(Idle, t)
<1>1. 0 \in 0..MaxDelay
  BY QueryAssumption
<1> QED BY Zenon, <1>1 DEF Idle, QueryType, Carried

LEMMA InitIInv == Init => IInv
<1> SUFFICES ASSUME Init PROVE IInv
  BY Zenon
<1>1. Plain
  <2>1. ShardCount \in Nat /\ MaxBatch \in Nat /\ MaxWrites \in Nat
    BY Zenon, QueryAssumption
  <2>2. writer \in WriterType /\ writer.pc # "clearing" /\ writes \in 0..MaxWrites
    BY <2>1 DEF Init, WriterType
  <2>3. reader \in [Readers -> QueryType]
    BY Zenon, IdleType DEF Init
  <2>4. tree \in [Keys -> Values \cup {Negative}] /\ DOMAIN cache = Shards /\ DOMAIN lru = Shards
    BY Zenon, QueryAssumption DEF Init
  <2> QED BY Zenon, <2>2, <2>3, <2>4 DEF Plain
<1>2. Asking
  BY Zenon, IdleType DEF Init, Asking
<1>3. ASSUME NEW i \in Shards PROVE ShardInv(i, cache[i], lru[i], tree, writer)
  <2>1. cache[i] = EmptyShard /\ lru[i] = <<>>
    BY Zenon DEF Init
  <2> QED BY Zenon, <2>1, EmptyRep DEF ShardInv
<1> QED BY Zenon, <1>1, <1>2, <1>3, ByShard DEF IInv

(* A lookup.                                                               *)
LEMMA LookupKeeps ==
  ASSUME IInv, NEW r \in Readers, NEW q \in Asks[r], Lookup(r, q) PROVE IInv'
<1> DEFINE k == Lower[q]
           h == Hash[k]
<1>1. k \in Keys /\ h \in Shards
  BY Zenon, KeyOfAsk, HashType
<1>2. /\ cache' = [cache EXCEPT ![h] = AfterGet(@, k)]
      /\ lru' = [lru EXCEPT ![h] = IF Hit(cache[h], k) THEN Touched(@, k) ELSE Gone(@, k)]
      /\ reader' = IF Hit(cache[h], k) THEN reader
                   ELSE [reader EXCEPT ![r] = [Idle EXCEPT !.pc = "miss", !.key = k]]
      /\ tree' = tree /\ writer' = writer /\ writes' = writes
  BY Zenon DEF Lookup
<1> HIDE DEF k, h
<1>3. Plain /\ Asking /\ \A i \in Shards : ShardInv(i, cache[i], lru[i], tree, writer)
  BY Zenon, ByShard DEF IInv
<1> DEFINE n == [Idle EXCEPT !.pc = "miss", !.key = k]
<1>4. n \in QueryType /\ Carried(n, tree)
  BY ZenonT(60), <1>1, IdleType DEF Idle, QueryType, Carried
<1> HIDE DEF n
<1>5. reader' \in [Readers -> QueryType] /\ \A x \in Readers : reader'[x] = reader[x] \/ reader'[x] = n
  BY Zenon, <1>2, <1>3, <1>4 DEF Plain, n
<1>6. DOMAIN cache' = Shards /\ DOMAIN lru' = Shards
  BY Zenon, <1>2, <1>3 DEF Plain
<1>7. Plain'
  BY <1>2, <1>3, <1>5, <1>6, Zenon DEF Plain
<1>8. Asking'
  BY <1>2, <1>3, <1>4, <1>5, Zenon DEF Asking
<1>9. ASSUME NEW i \in Shards PROVE ShardInv(i, cache'[i], lru'[i], tree', writer')
  <2>1. CASE i # h
    <3>1. cache'[i] = cache[i] /\ lru'[i] = lru[i]
      BY Zenon, <1>2, <1>3, <2>1 DEF Plain
    <3> QED BY Zenon, <1>2, <1>3, <3>1
  <2>2. CASE i = h
    <3> DEFINE s == cache[i]
    <3>1. /\ cache'[i] = AfterGet(s, k)
          /\ lru'[i] = IF Hit(s, k) THEN Touched(lru[i], k) ELSE Gone(lru[i], k)
      BY Zenon, <1>1, <1>2, <1>3, <2>2 DEF Plain
    <3>2. ShardInv(i, s, lru[i], tree, writer)
      BY Zenon, <1>3
    <3> HIDE DEF s
    <3>3. /\ Rep(cache'[i], lru'[i]) /\ DOMAIN cache'[i].items \subseteq DOMAIN s.items
          /\ \A l \in DOMAIN cache'[i].items : Content(cache'[i], l) = Content(s, l)
      BY <3>1, <3>2, AfterGetRep DEF ShardInv
    <3> QED BY ZenonT(60), <1>2, <3>2, <3>3, ZenonT(60) DEF ShardInv
  <2> QED BY Zenon, <2>1, <2>2
<1>10. Lists' /\ Bounded' /\ Fresh'
  BY Zenon, <1>9, ByShardNext
<1> QED BY Zenon, <1>7, <1>8, <1>10 DEF IInv

(* The read of the tree.                                                   *)
LEMMA ReadTreeKeeps ==
  ASSUME IInv, NEW r \in Readers, ReadTree(r) PROVE IInv'
<1> DEFINE res == tree[reader[r].key]
           n == IF res = Negative THEN Idle ELSE [reader[r] EXCEPT !.pc = "fill", !.res = res]
<1>1. /\ reader[r].pc = "miss" /\ reader' = [reader EXCEPT ![r] = n]
      /\ tree' = tree /\ cache' = cache /\ lru' = lru /\ writer' = writer /\ writes' = writes
  BY Zenon DEF ReadTree
<1>2. Plain /\ Asking
  BY Zenon DEF IInv
<1>3. reader[r] \in QueryType /\ Carried(reader[r], tree) /\ reader \in [Readers -> QueryType]
  BY Zenon, <1>2 DEF Plain, Asking
<1>4. n \in QueryType /\ Carried(n, tree)
  <2>1. CASE res = Negative
    BY Zenon, <2>1, IdleType
  <2>2. CASE res # Negative
    <3>1. reader[r].key \in Keys /\ reader[r].wait = 0 /\ reader[r].age = 0
      BY Zenon, <1>1, <1>3 DEF Carried
    <3>2. res \in Values
      BY Zenon, <1>2, <2>2, <3>1 DEF Plain
    <3>3. /\ n.pc = "fill" /\ n.res = res /\ n.key = reader[r].key /\ n.wait = 0 /\ n.age = 0
          /\ n \in QueryType
      BY ZenonT(60), <1>3, <2>2, <3>1, <3>2 DEF QueryType
    <3> QED BY <3>1, <3>2, <3>3 DEF Carried
  <2> QED BY Zenon, <2>1, <2>2
<1> HIDE DEF n
<1>5. reader' \in [Readers -> QueryType] /\ \A x \in Readers : reader'[x] = reader[x] \/ reader'[x] = n
  BY Zenon, <1>1, <1>3, <1>4
<1>6. Plain'
  BY <1>1, <1>2, <1>5, Zenon DEF Plain
<1>7. Asking'
  BY <1>1, <1>2, <1>4, <1>5, Zenon DEF Asking
<1>8. Lists' /\ Bounded' /\ Fresh'
  BY <1>1, Zenon DEF IInv, Lists, Bounded, Fresh
<1> QED BY Zenon, <1>6, <1>7, <1>8 DEF IInv
(* The fill.                                                               *)
LEMMA FillKeeps ==
  ASSUME Sizes, IInv, NEW r \in Readers, Fill(r) PROVE IInv'
<1> DEFINE k == reader[r].key
           v == reader[r].res
           h == Hash[k]
           late == reader[r].late
           age == reader[r].age
           new == [key |-> k, value |-> v, left |-> Ttl[v], late |-> late, age |-> age]
<1>1. /\ reader[r].pc = "fill"
      /\ cache' = [cache EXCEPT ![h] = Set(@, k, v, late, age)]
      /\ lru' = [lru EXCEPT ![h] = IF Ttl[v] = 0 THEN Gone(@, k) ELSE Stored(@, k)]
      /\ reader' = [reader EXCEPT ![r] = Idle]
      /\ tree' = tree /\ writer' = writer /\ writes' = writes
  BY Zenon DEF Fill
<1>2. Plain /\ Asking /\ \A i \in Shards : ShardInv(i, cache[i], lru[i], tree, writer)
  BY Zenon, ByShard DEF IInv
<1>3. Carried(reader[r], tree) /\ reader[r] \in QueryType /\ reader \in [Readers -> QueryType]
  BY Zenon, <1>2 DEF Plain, Asking
<1>4. k \in Keys /\ v \in Values /\ late \in BOOLEAN /\ age \in Nat /\ age <= MaxDelay
  <2>1. k \in Keys /\ v \in Values /\ age <= reader[r].wait
    BY Zenon, <1>1, <1>3 DEF Carried
  <2>2. late \in BOOLEAN
    BY <1>3, Zenon DEF QueryType
  <2>3. age \in Nat /\ reader[r].wait \in 0..MaxDelay
    BY Zenon, <1>3 DEF QueryType
  <2>4. MaxDelay \in Nat
    BY Zenon, QueryAssumption
  <2>5. age <= MaxDelay
    BY <2>1, <2>3, <2>4
  <2> QED BY ONLY <2>1, <2>2, <2>3, <2>5, Zenon
<1>5. late \/ v = tree[k]
  BY <1>1, <1>3, Zenon DEF Carried
<1>6. h \in Shards
  BY Zenon, <1>4, HashType
<1>7. InTime(new) /\ Current(new, tree[k])
  <2>1. InTime(new)
    <3>1. Ttl[v] \in Nat /\ MaxDelay \in Nat
      BY Zenon, <1>4, QueryAssumption
    <3>2. new.left = Ttl[v] /\ new.value = v /\ new.age = age
      BY Zenon
    <3> HIDE DEF new, age
    <3>3. age + Ttl[v] <= Ttl[v] + MaxDelay
      BY <1>4, <3>1
    <3> QED BY Zenon, <1>4, <3>2, <3>3 DEF InTime
  <2>2. new.late = late /\ new.value = v
    BY Zenon
  <2>3. Current(new, tree[k])
    BY ONLY <1>5, <2>2, Zenon DEF Current
  <2> QED BY <2>1, <2>3, Zenon
<1>8. reader' \in [Readers -> QueryType] /\ \A x \in Readers : reader'[x] = reader[x] \/ reader'[x] = Idle
  BY Zenon, <1>1, <1>3, IdleType
<1>9. DOMAIN cache' = Shards /\ DOMAIN lru' = Shards
  BY Zenon, <1>1, <1>2 DEF Plain
<1>10. Plain'
  BY <1>1, <1>2, <1>8, <1>9, Zenon DEF Plain
<1>11. Asking'
  BY <1>1, <1>2, <1>8, IdleType, Zenon DEF Asking
<1>12. ASSUME NEW i \in Shards PROVE ShardInv(i, cache'[i], lru'[i], tree', writer')
  <2>1. CASE i # h
    <3>1. cache'[i] = cache[i] /\ lru'[i] = lru[i]
      BY ZenonT(60), <1>1, <1>2, <2>1 DEF Plain
    <3> QED BY ZenonT(60), <1>1, <1>2, <3>1
  <2>2. CASE i = h
    <3> DEFINE s == cache[i]
    <3>1. cache'[i] = Set(s, k, v, late, age)
      BY ZenonT(60), <1>1, <1>2, <1>6, <2>2 DEF Plain
    <3>2. lru'[i] = IF Ttl[v] = 0 THEN Gone(lru[i], k) ELSE Stored(lru[i], k)
      BY ZenonT(60), <1>1, <1>2, <1>6, <2>2 DEF Plain
    <3>3. ShardInv(i, s, lru[i], tree, writer)
      BY Zenon, <1>2
    <3>4. Rep(s, lru[i])
      BY Zenon, <3>3 DEF ShardInv
    <3> HIDE DEF s, k, v, late, age
    <3>5. /\ Rep(cache'[i], lru'[i]) /\ DOMAIN cache'[i].items \subseteq DOMAIN s.items \cup {k}
          /\ \A l \in DOMAIN cache'[i].items :
               IF l = k THEN Content(cache'[i], l) = new ELSE Content(cache'[i], l) = Content(s, l)
      <4> DEFINE u == Set(s, k, v, late, age)
      <4>1. k \in Keys /\ v \in Values /\ late \in BOOLEAN /\ age \in Nat
        BY <1>4, Zenon DEF k, v, late, age
      <4>6. Sizes
        BY Zenon
      <4>2. Rep(u, IF Ttl[v] = 0 THEN Gone(lru[i], k) ELSE Stored(lru[i], k))
        BY ONLY <3>4, <4>1, <4>6, SetRep
      <4>3. DOMAIN u.items \subseteq DOMAIN s.items \cup {k}
        BY ONLY <3>4, <4>1, <4>6, SetRep, Zenon
      <4>4. \A l \in DOMAIN u.items : IF l = k THEN Content(u, l) = new
                                     ELSE Content(u, l) = Content(s, l)
        BY ONLY <3>4, <4>1, <4>6, SetRep
      <4> HIDE DEF u, new
      <4>5. cache'[i] = u
        BY Zenon, <3>1 DEF u
      <4> QED BY ONLY <3>2, <4>2, <4>3, <4>4, <4>5, Zenon
    <3> HIDE DEF new
    <3>6. ASSUME NEW l \in DOMAIN cache'[i].items
          PROVE  /\ Hash[l] = i /\ InTime(Content(cache'[i], l))
                 /\ ToClear(writer, i) \/ Current(Content(cache'[i], l), tree[l])
      <4>1. CASE l = k
        BY <1>7, <2>2, <3>5, <4>1, Zenon
      <4>2. CASE l # k
        BY <3>3, <3>5, <4>2, Zenon DEF ShardInv
      <4> QED BY Zenon, <4>1, <4>2
    <3> QED BY <1>1, <3>5, <3>6, Zenon DEF ShardInv
  <2> QED BY Zenon, <2>1, <2>2
<1>13. Lists' /\ Bounded' /\ Fresh'
  BY Zenon, <1>12, ByShardNext
<1> QED BY Zenon, <1>10, <1>11, <1>13 DEF IInv

(* Entries that keep their keys keep the shard what its list says.         *)
LEMMA RepaintedRep ==
  ASSUME NEW s, NEW q, Rep(s, q), NEW f \in [Entries -> EntryType],
         \A e \in Entries : f[e].key = s.entry[e].key
  PROVE  LET r == [s EXCEPT !.entry = f]
         IN  Rep(r, q) /\ r.items = s.items /\ \A k \in DOMAIN s.items : Content(r, k) = f[s.items[k]]
<1> DEFINE r == [s EXCEPT !.entry = f]
<1>1. s \in Shard
  BY Zenon DEF Rep
<1>2. /\ r.items = s.items /\ r.next = s.next /\ r.prev = s.prev /\ r.entry = f /\ r \in Shard
  BY Zenon, <1>1 DEF Shard
<1> HIDE DEF r
<1>3. \A k \in DOMAIN s.items : s.items[k] \in Entries
  BY RepChain DEF Rep
<1>4. \A k \in DOMAIN r.items : r.entry[r.items[k]].key = k
  BY Zenon, <1>2, <1>3 DEF Rep
<1>5. Rep(r, q)
  BY Zenon, <1>2, <1>4 DEF Rep
<1> QED BY Zenon, <1>2, <1>5 DEF Content, r

(* The tree becomes t: queries and shards stay well formed, ages shrink.   *)
LEMMA TreeBecomesKeeps ==
  ASSUME IInv, NEW t \in [Keys -> Values \cup {Negative}], TreeBecomes(t)
  PROVE  /\ reader' \in [Readers -> QueryType] /\ Asking' /\ tree' = t /\ DOMAIN cache' = Shards
         /\ \A i \in Shards :
              /\ Rep(cache'[i], lru[i]) /\ DOMAIN cache'[i].items = DOMAIN cache[i].items
              /\ \A k \in DOMAIN cache[i].items : Hash[k] = i /\ InTime(Content(cache'[i], k))
<1>1. Plain /\ Asking /\ \A i \in Shards : ShardInv(i, cache[i], lru[i], tree, writer)
  BY Zenon, ByShard DEF IInv
<1>2. tree' = t /\ DOMAIN cache' = Shards
  BY Zenon DEF TreeBecomes
<1>3. ASSUME NEW r \in Readers PROVE reader'[r] \in QueryType /\ Carried(reader'[r], t)
  <2>1. reader[r] \in QueryType /\ Carried(reader[r], tree)
    BY Zenon, <1>1 DEF Plain, Asking
  <2>2. CASE reader[r].pc # "fill"
    <3>1. reader'[r] = reader[r]
      BY ZenonT(60), <2>2 DEF TreeBecomes
    <3> QED BY Zenon, <2>1, <2>2, <3>1 DEF Carried
  <2>3. CASE reader[r].pc = "fill"
    <3> DEFINE n == [reader[r] EXCEPT
                       !.late = @ \/ t[reader[r].key] # reader[r].res,
                       !.age = IF t[reader[r].key] = reader[r].res THEN 0 ELSE @]
    <3>1. reader'[r] = n
      BY ZenonT(60), <2>3, ZenonT(60) DEF TreeBecomes
    <3>2. n \in QueryType
      BY ZenonT(60), <2>1 DEF QueryType
    <3>3. n.pc = "fill" /\ n.key = reader[r].key /\ n.res = reader[r].res /\ n.wait = reader[r].wait
          /\ (n.age = 0 \/ n.age = reader[r].age)
      BY Zenon, <2>1, <2>3 DEF QueryType
    <3>4. n.late <=> reader[r].late \/ t[reader[r].key] # reader[r].res
      BY ZenonT(60), <2>1 DEF QueryType
    <3>5. n.age <= n.wait
      <4>1. reader[r].age <= reader[r].wait /\ reader[r].wait \in 0..MaxDelay /\ MaxDelay \in Nat
        BY Zenon, <2>1, <2>3, QueryAssumption DEF Carried, QueryType
      <4> HIDE DEF n
      <4> QED BY <3>3, <4>1
    <3>6. n.late \/ n.res = t[n.key]
      BY <3>3, <3>4, Zenon
    <3>7. n.key \in Keys /\ n.res \in Values
      BY Zenon, <2>1, <2>3, <3>3 DEF Carried
    <3> HIDE DEF n
    <3>8. Carried(n, t)
      BY <3>3, <3>5, <3>6, <3>7, Zenon DEF Carried
    <3> QED BY Zenon, <3>1, <3>2, <3>8
  <2> QED BY Zenon, <2>2, <2>3
<1>4. DOMAIN reader' = Readers
  BY Zenon DEF TreeBecomes
<1>5. reader' \in [Readers -> QueryType] /\ Asking'
  <2> DEFINE f == [r \in Readers |->
                     IF reader[r].pc = "fill"
                     THEN [reader[r] EXCEPT
                             !.late = @ \/ t[reader[r].key] # reader[r].res,
                             !.age = IF t[reader[r].key] = reader[r].res THEN 0 ELSE @]
                     ELSE reader[r]]
  <2>1. reader' = f
    BY Zenon DEF TreeBecomes
  <2>3. \A r \in Readers : f[r] \in QueryType
    BY <1>3, <2>1, Zenon
  <2>2. reader' \in [Readers -> QueryType]
    BY ONLY <2>1, <2>3, Zenon
  <2> QED BY <1>2, <1>3, <2>2, Zenon DEF Asking
<1>6. ASSUME NEW i \in Shards
      PROVE  /\ Rep(cache'[i], lru[i]) /\ DOMAIN cache'[i].items = DOMAIN cache[i].items
             /\ \A k \in DOMAIN cache[i].items : Hash[k] = i /\ InTime(Content(cache'[i], k))
  <2> DEFINE s == cache[i]
             f == [e \in Entries |->
                     IF \E k \in Keys : k = s.entry[e].key /\ t[k] = s.entry[e].value
                     THEN [s.entry[e] EXCEPT !.age = 0] ELSE s.entry[e]]
  <2>1. cache'[i] = [s EXCEPT !.entry = f]
    BY ZenonT(60) DEF TreeBecomes
  <2>2. Rep(s, lru[i]) /\ \A k \in DOMAIN s.items : Hash[k] = i /\ InTime(Content(s, k))
    BY Zenon, <1>1 DEF ShardInv
  <2>3. s.entry \in [Entries -> EntryType] /\ \A k \in DOMAIN s.items : s.items[k] \in Entries
    <3>1. s \in Shard /\ DOMAIN s.items = Range(lru[i])
      BY <2>2, Zenon DEF Rep
    <3>2. s.entry \in [Entries -> EntryType]
      BY Zenon, <3>1 DEF Shard
    <3>3. s.items \in [Range(lru[i]) -> Entries]
      BY <2>2, RepChain, Zenon
    <3> QED BY ONLY Zenon, <3>1, <3>2, <3>3
  <2> HIDE DEF s
  <2>4. ASSUME NEW e \in Entries
        PROVE  /\ f[e] \in EntryType /\ f[e].key = s.entry[e].key
               /\ InTime(s.entry[e]) => InTime(f[e])
    <3>1. s.entry[e] \in EntryType /\ f[e] \in {[s.entry[e] EXCEPT !.age = 0], s.entry[e]}
      BY Zenon, <2>3
    <3> DEFINE c == s.entry[e]
               d == [c EXCEPT !.age = 0]
    <3> HIDE DEF c
    <3>2. c \in EntryType
      BY Zenon, <3>1 DEF c
    <3>3. /\ d \in EntryType /\ d.key = c.key /\ d.value = c.value /\ d.left = c.left /\ d.age = 0
          /\ c.age \in Nat /\ c.left \in Nat
      BY Zenon, <3>2 DEF EntryType
    <3> HIDE DEF d
    <3>4. ASSUME InTime(c) PROVE InTime(d)
      <4> SUFFICES ASSUME d.left > 0 PROVE d.value \in Values /\ d.age + d.left <= Ttl[d.value] + MaxDelay
        BY Zenon DEF InTime
      <4>1. c.value \in Values /\ c.age + c.left <= Ttl[c.value] + MaxDelay
        BY Zenon, <3>3, <3>4 DEF InTime
      <4>2. Ttl[c.value] \in Nat /\ MaxDelay \in Nat
        BY Zenon, <4>1, QueryAssumption
      <4> QED BY <3>3, <4>1, <4>2
    <3> QED BY Zenon, <3>1, <3>2, <3>3, <3>4 DEF c, d
  <2>5. f \in [Entries -> EntryType]
    BY Zenon, <2>4
  <2> HIDE DEF f
  <2>6. /\ Rep(cache'[i], lru[i]) /\ cache'[i].items = s.items
        /\ \A k \in DOMAIN s.items : Content(cache'[i], k) = f[s.items[k]]
    BY <2>1, <2>2, <2>4, <2>5, RepaintedRep
  <2>7. \A k \in DOMAIN s.items : InTime(Content(cache'[i], k))
    BY Zenon, <2>2, <2>3, <2>4, <2>6 DEF Content
  <2> QED BY ZenonT(60), <2>2, <2>6, <2>7 DEF s
<1> QED BY Zenon, <1>2, <1>5, <1>6
(* A write that leaves every shard to be cleared.                          *)
LEMMA WriteKeeps ==
  ASSUME IInv, NEW t \in [Keys -> Values \cup {Negative}], TreeBecomes(t), lru' = lru,
         writer' \in WriterType, writer'.pc = "clearing" => writer'.shard \in 1..ShardCount,
         writes' \in 0..MaxWrites, \A i \in Shards : ToClear(writer', i)
  PROVE  IInv'
<1>1. /\ reader' \in [Readers -> QueryType] /\ Asking' /\ tree' = t /\ DOMAIN cache' = Shards
      /\ \A i \in Shards :
           /\ Rep(cache'[i], lru[i]) /\ DOMAIN cache'[i].items = DOMAIN cache[i].items
           /\ \A k \in DOMAIN cache[i].items : Hash[k] = i /\ InTime(Content(cache'[i], k))
  BY Zenon, TreeBecomesKeeps
<1>2. Plain'
  BY <1>1, Zenon DEF IInv, Plain
<1>3. \A i \in Shards : ShardInv(i, cache'[i], lru'[i], tree', writer')
  BY ZenonT(60), <1>1, ZenonT(60) DEF ShardInv
<1> QED BY ZenonT(60), <1>1, <1>2, <1>3, ByShardNext DEF IInv

LEMMA MutateKeeps ==
  ASSUME IInv, NEW k \in Keys, NEW v \in Answers[k] \cup {Negative}, Mutate(k, v) PROVE IInv'
<1>1. Plain
  BY Zenon DEF IInv
<1>2. /\ TreeBecomes([tree EXCEPT ![k] = v]) /\ lru' = lru /\ writes' = writes + 1
      /\ writer' = [writer EXCEPT !.pc = "mutating", !.batch = @ + 1]
      /\ writer.batch < MaxBatch /\ writes < MaxWrites
  BY Zenon DEF Mutate
<1>3. [tree EXCEPT ![k] = v] \in [Keys -> Values \cup {Negative}]
  BY Zenon, <1>1, QueryAssumption DEF Plain
<1>4. MaxBatch \in Nat /\ MaxWrites \in Nat
  BY Zenon, QueryAssumption
<1>5. writer' \in WriterType /\ writer'.pc = "mutating"
  <2>1. writer.batch + 1 \in 0..MaxBatch
    BY <1>1, <1>2, <1>4 DEF Plain, WriterType
  <2> QED BY ZenonT(60), <1>1, <1>2, <2>1 DEF Plain, WriterType
<1>6. writes' \in 0..MaxWrites
  BY <1>1, <1>2, <1>4 DEF Plain
<1>7. \A i \in Shards : ToClear(writer', i)
  BY Zenon, <1>5 DEF ToClear
<1> QED BY ZenonT(60), <1>2, <1>3, <1>5, <1>6, <1>7, WriteKeeps

(* What the first shard of a clear is.                                     *)
LEMMA ClearingType ==
  ASSUME NEW w, w = [pc |-> "clearing", shard |-> 1, batch |-> 0]
  PROVE  w \in WriterType /\ w.shard \in 1..ShardCount /\ \A i \in Shards : ToClear(w, i)
<1>1. ShardCount \in Nat \ {0} /\ Shards = 1..ShardCount /\ MaxBatch \in Nat
  BY Zenon, QueryAssumption
<1>2. 1 \in 1..ShardCount /\ 1 \in 0..ShardCount /\ 0 \in 0..MaxBatch /\ \A i \in Shards : 1 <= i
  BY <1>1
<1>3. w.pc = "clearing" /\ w.shard = 1
  BY Zenon
<1> QED BY Zenon, <1>2, <1>3 DEF WriterType, ToClear

LEMMA SwapKeeps ==
  ASSUME IInv, NEW t \in Zones, Swap(t) PROVE IInv'
<1>1. /\ TreeBecomes(t) /\ lru' = lru /\ writes' = writes + 1 /\ writes < MaxWrites
      /\ writer' = [pc |-> "clearing", shard |-> 1, batch |-> 0]
  BY Zenon DEF Swap
<1>2. t \in [Keys -> Values \cup {Negative}] /\ MaxWrites \in Nat
  BY Zenon, QueryAssumption
<1>3. writes' \in 0..MaxWrites
  BY <1>1, <1>2 DEF IInv, Plain
<1>4. /\ writer' \in WriterType /\ writer'.shard \in 1..ShardCount
      /\ \A i \in Shards : ToClear(writer', i)
  BY Zenon, <1>1, ClearingType
<1> QED BY Zenon, <1>1, <1>2, <1>3, <1>4, WriteKeeps

LEMMA EndMutationsKeeps ==
  ASSUME IInv, EndMutations PROVE IInv'
<1>1. /\ writer' = [pc |-> "clearing", shard |-> 1, batch |-> 0]
      /\ tree' = tree /\ cache' = cache /\ reader' = reader /\ writes' = writes /\ lru' = lru
  BY Zenon DEF EndMutations
<1>2. /\ writer' \in WriterType /\ writer'.shard \in 1..ShardCount
      /\ \A i \in Shards : ToClear(writer', i)
  BY Zenon, <1>1, ClearingType
<1>3. Plain'
  BY <1>1, <1>2, Zenon DEF IInv, Plain
<1>4. Asking' /\ Lists' /\ Bounded'
  BY <1>1, Zenon DEF IInv, Asking, Lists, Bounded
<1>5. Fresh'
  BY <1>2, Zenon DEF Fresh
<1> QED BY Zenon, <1>3, <1>4, <1>5 DEF IInv

(* One turn of the clear: the shard it is at is empty, and the clear goes  *)
(* on to the next shard or is over.                                        *)
LEMMA ClearShardKeeps ==
  ASSUME IInv, ClearShard PROVE IInv'
<1> DEFINE h == writer.shard
<1>1. /\ writer.pc = "clearing" /\ tree' = tree /\ reader' = reader /\ writes' = writes
      /\ cache' = [cache EXCEPT ![h] = EmptyShard] /\ lru' = [lru EXCEPT ![h] = <<>>]
      /\ writer' = IF h < ShardCount THEN [writer EXCEPT !.shard = @ + 1]
                   ELSE [pc |-> "idle", shard |-> 0, batch |-> 0]
  BY Zenon DEF ClearShard
<1>2. Plain /\ Asking /\ \A i \in Shards : ShardInv(i, cache[i], lru[i], tree, writer)
  BY Zenon, ByShard DEF IInv
<1>3. ShardCount \in Nat \ {0} /\ Shards = 1..ShardCount /\ MaxBatch \in Nat
  BY Zenon, QueryAssumption
<1>4. h \in 1..ShardCount /\ writer \in WriterType
  BY Zenon, <1>1, <1>2 DEF Plain
<1>5. /\ writer' \in WriterType
      /\ writer'.pc = IF h < ShardCount THEN "clearing" ELSE "idle"
      /\ h < ShardCount => writer'.shard = h + 1 /\ writer'.shard \in 1..ShardCount
  <2>1. CASE h < ShardCount
    <3>1. h + 1 \in 1..ShardCount /\ h + 1 \in 0..ShardCount
      BY <1>3, <1>4, <2>1
    <3> QED BY Zenon, <1>1, <1>4, <2>1, <3>1 DEF WriterType
  <2>2. CASE ~(h < ShardCount)
    <3>1. 0 \in 0..ShardCount /\ 0 \in 0..MaxBatch
      BY <1>3
    <3> QED BY Zenon, <1>1, <2>2, <3>1 DEF WriterType
  <2> QED BY Zenon, <2>1, <2>2
<1> HIDE DEF h
<1>6. DOMAIN cache' = Shards /\ DOMAIN lru' = Shards
  BY Zenon, <1>1, <1>2 DEF Plain
<1>7. Plain'
  BY Zenon, <1>1, <1>2, <1>5, <1>6 DEF Plain
<1>8. Asking'
  BY <1>1, <1>2, Zenon DEF Asking
<1>9. ASSUME NEW i \in Shards PROVE ShardInv(i, cache'[i], lru'[i], tree', writer')
  <2>1. CASE i = h
    <3>1. cache'[i] = EmptyShard /\ lru'[i] = <<>>
      BY Zenon, <1>1, <1>2, <2>1 DEF Plain
    <3> QED BY Zenon, <3>1, EmptyRep DEF ShardInv
  <2>2. CASE i # h
    <3>1. cache'[i] = cache[i] /\ lru'[i] = lru[i]
      BY Zenon, <1>1, <1>2, <2>2 DEF Plain
    <3>2. ShardInv(i, cache[i], lru[i], tree, writer)
      BY Zenon, <1>2
    <3>3. ToClear(writer, i) => ToClear(writer', i)
      <4>1. SUFFICES ASSUME h <= i PROVE h < ShardCount /\ h + 1 <= i
        BY Zenon, <1>1, <1>5 DEF ToClear, h
      <4> QED BY <1>3, <1>4, <2>2, <4>1
    <3> QED BY <1>1, <3>1, <3>2, <3>3, Zenon DEF ShardInv
  <2> QED BY Zenon, <2>1, <2>2
<1> QED BY Zenon, <1>7, <1>8, <1>9, ByShardNext DEF IInv

(* A second passes.                                                        *)
LEMMA TickKeeps ==
  ASSUME IInv, Tick PROVE IInv'
<1>1. Plain /\ Asking /\ \A i \in Shards : ShardInv(i, cache[i], lru[i], tree, writer)
  BY ByShard DEF IInv
<1>2. tree' = tree /\ writer' = writer /\ writes' = writes /\ lru' = lru /\ DOMAIN cache' = Shards
  BY Zenon DEF Tick
<1>3. MaxDelay \in Nat
  BY Zenon, QueryAssumption
<1>4. \A k, v : \A age \in Nat : Aged(k, v, age) \in Nat /\ Aged(k, v, age) <= age + 1
  BY DEF Aged
<1> DEFINE f == [r \in Readers |->
                   IF reader[r].pc = "fill"
                   THEN [reader[r] EXCEPT !.wait = @ + 1,
                                          !.age = Aged(reader[r].key, reader[r].res, @)]
                   ELSE reader[r]]
<1>5. reader' = f
  BY Zenon DEF Tick
<1>6. ASSUME NEW r \in Readers PROVE f[r] \in QueryType /\ Carried(f[r], tree)
  <2>1. reader[r] \in QueryType /\ Carried(reader[r], tree)
    BY Zenon, <1>1 DEF Plain, Asking
  <2>2. CASE reader[r].pc # "fill"
    <3>1. f[r] = reader[r]
      BY Zenon, <2>2
    <3> QED BY Zenon, <2>1, <3>1
  <2>3. CASE reader[r].pc = "fill"
    <3> DEFINE q == reader[r]
               n == [q EXCEPT !.wait = @ + 1, !.age = Aged(q.key, q.res, @)]
    <3>1. f[r] = n
      BY Zenon, <2>3
    <3>2. q.wait < MaxDelay
      BY ZenonT(60), <2>3 DEF Tick
    <3> HIDE DEF q, f
    <3>3. q \in QueryType /\ Carried(q, tree) /\ q.pc = "fill"
      BY Zenon, <2>1, <2>3 DEF q
    <3>4. q.wait \in 0..MaxDelay /\ q.age \in Nat
      BY Zenon, <3>3 DEF QueryType
    <3>5. q.wait + 1 \in 0..MaxDelay /\ Aged(q.key, q.res, q.age) \in Nat
      BY <1>3, <1>4, <3>2, <3>4
    <3>6. /\ n \in QueryType /\ n.pc = "fill" /\ n.key = q.key /\ n.res = q.res
          /\ n.wait = q.wait + 1 /\ n.age = Aged(q.key, q.res, q.age)
      BY ZenonT(60), <3>3, <3>5 DEF QueryType
    <3>7. n.late = q.late
      BY Zenon, <3>3 DEF QueryType
    <3> HIDE DEF n
    <3>8. n.age <= n.wait
      <4>1. q.age <= q.wait
        BY Zenon, <3>3 DEF Carried
      <4>2. Aged(q.key, q.res, q.age) <= q.age + 1
        BY Zenon, <1>4, <3>4
      <4> QED BY <1>3, <3>4, <3>5, <3>6, <4>1, <4>2
    <3>9. Carried(n, tree)
      BY <3>3, <3>6, <3>7, <3>8, Zenon DEF Carried
    <3> QED BY Zenon, <3>1, <3>6, <3>9
  <2> QED BY Zenon, <2>2, <2>3
<1>7. reader' \in [Readers -> QueryType]
  BY ONLY <1>5, <1>6, Zenon
<1>8. Asking'
  BY <1>2, <1>5, <1>6, Zenon DEF Asking
<1>9. Plain'
  BY <1>1, <1>2, <1>7, Zenon DEF Plain
<1>10. ASSUME NEW i \in Shards PROVE ShardInv(i, cache'[i], lru'[i], tree', writer')
  <2> DEFINE s == cache[i]
             g == [e \in Entries |-> Older(s.entry[e])]
  <2>1. cache'[i] = [s EXCEPT !.entry = g]
    BY Zenon DEF Tick
  <2>2. ShardInv(i, s, lru[i], tree, writer) /\ Rep(s, lru[i])
    BY Zenon, <1>1 DEF ShardInv
  <2>3. s.entry \in [Entries -> EntryType] /\ \A k \in DOMAIN s.items : s.items[k] \in Entries
    <3>1. s \in Shard /\ DOMAIN s.items = Range(lru[i])
      BY <2>2, Zenon DEF Rep
    <3>2. s.entry \in [Entries -> EntryType]
      BY Zenon, <3>1 DEF Shard
    <3>3. s.items \in [Range(lru[i]) -> Entries]
      BY <2>2, RepChain, Zenon
    <3> QED BY ONLY Zenon, <3>1, <3>2, <3>3
  <2> HIDE DEF s
  <2>4. ASSUME NEW c \in EntryType
        PROVE  /\ Older(c) \in EntryType /\ Older(c).key = c.key
               /\ InTime(c) => InTime(Older(c))
               /\ \A a : Current(c, a) => Current(Older(c), a)
    <3>1. c.left \in Nat /\ c.age \in Nat
      BY Zenon DEF EntryType
    <3>2. CASE c.left > 1
      <4> DEFINE d == [c EXCEPT !.left = @ - 1, !.age = Aged(c.key, c.value, @)]
      <4>1. Older(c) = d
        BY Zenon, <3>2 DEF Older
      <4>2. /\ c.left - 1 \in Nat /\ Aged(c.key, c.value, c.age) \in Nat
            /\ Aged(c.key, c.value, c.age) <= c.age + 1
        BY <1>4, <3>1, <3>2
      <4>3. /\ d \in EntryType /\ d.key = c.key /\ d.value = c.value /\ d.left = c.left - 1
            /\ d.age = Aged(c.key, c.value, c.age)
        BY ZenonT(60), <4>2 DEF EntryType
      <4>4. d.late = c.late
        BY Zenon DEF EntryType
      <4> HIDE DEF d
      <4>5. ASSUME InTime(c) PROVE InTime(d)
        <5>1. c.value \in Values /\ c.age + c.left <= Ttl[c.value] + MaxDelay
          BY <3>1, <3>2, <4>5 DEF InTime
        <5>2. Ttl[c.value] \in Nat
          BY Zenon, <5>1, QueryAssumption
        <5>3. d.age + d.left <= Ttl[c.value] + MaxDelay
          BY <1>3, <3>1, <4>2, <4>3, <5>1, <5>2
        <5> QED BY Zenon, <4>3, <5>1, <5>3 DEF InTime
      <4>6. ASSUME NEW a, Current(c, a) PROVE Current(d, a)
        <5>1. c.left > 0
          BY <3>1, <3>2
        <5> QED BY <4>3, <4>4, <4>6, <5>1, Zenon DEF Current
      <4> QED BY Zenon, <4>1, <4>3, <4>5, <4>6
    <3>3. CASE ~(c.left > 1)
      <4> DEFINE d == [c EXCEPT !.left = 0, !.age = 0, !.late = TRUE]
      <4>1. Older(c) = d
        BY Zenon, <3>3 DEF Older
      <4>2. d \in EntryType /\ d.key = c.key /\ d.left = 0
        BY ZenonT(60) DEF EntryType
      <4> HIDE DEF d
      <4>3. ~(d.left > 0)
        BY <4>2
      <4>4. InTime(d) /\ \A a : Current(d, a)
        BY <4>3, Zenon DEF InTime, Current
      <4> QED BY Zenon, <4>1, <4>2, <4>4
    <3> QED BY Zenon, <3>2, <3>3
  <2>5. /\ g \in [Entries -> EntryType] /\ \A e \in Entries : g[e].key = s.entry[e].key
        /\ \A e \in Entries : g[e] = Older(s.entry[e])
    BY Zenon, <2>3, <2>4
  <2> HIDE DEF g
  <2>6. /\ Rep(cache'[i], lru[i]) /\ cache'[i].items = s.items
        /\ \A k \in DOMAIN s.items : Content(cache'[i], k) = g[s.items[k]]
    BY <2>1, <2>2, <2>5, RepaintedRep
  <2>7. ASSUME NEW k \in DOMAIN s.items
        PROVE  Content(s, k) \in EntryType /\ Content(cache'[i], k) = Older(Content(s, k))
    BY Zenon, <2>3, <2>5, <2>6 DEF Content
  <2>8. ASSUME NEW k \in DOMAIN s.items
        PROVE  /\ Hash[k] = i /\ InTime(Content(cache'[i], k))
               /\ ToClear(writer, i) \/ Current(Content(cache'[i], k), tree[k])
    BY ZenonT(60), <2>2, <2>4, <2>7, ZenonT(60) DEF ShardInv
  <2> QED BY <1>2, <2>6, <2>8, Zenon DEF ShardInv
<1> QED BY Zenon, <1>8, <1>9, <1>10, ByShardNext DEF IInv
(* Every step of the system keeps the invariant.                           *)
LEMMA NextKeeps ==
  ASSUME Sizes, IInv, [Next]_vars PROVE IInv'
<1>1. CASE UNCHANGED vars
  BY <1>1, Zenon DEF vars, IInv, Plain, Asking, Lists, Bounded, Fresh
<1>2. CASE \E r \in Readers : (\E q \in Asks[r] : Lookup(r, q)) \/ ReadTree(r) \/ Fill(r)
  BY Zenon, <1>2, LookupKeeps, ReadTreeKeeps, FillKeeps
<1>3. CASE \E k \in Keys : \E v \in Answers[k] \cup {Negative} : Mutate(k, v)
  BY Zenon, <1>3, MutateKeeps
<1>4. CASE \E t \in Zones : Swap(t)
  BY Zenon, <1>4, SwapKeeps
<1>5. CASE EndMutations
  BY Zenon, <1>5, EndMutationsKeeps
<1>6. CASE ClearShard
  BY Zenon, <1>6, ClearShardKeeps
<1>7. CASE Tick
  BY <1>7, TickKeeps
<1> QED BY <1>1, <1>2, <1>3, <1>4, <1>5, <1>6, <1>7, Zenon DEF Next, WriterStep

(* The invariant says of each shard what ListIsLRU does.                   *)
LEMMA IInvIsLRU ==
  ASSUME Sizes, IInv PROVE ListIsLRU
<1>1. Plain /\ Lists
  BY Zenon DEF IInv
<1>2. ASSUME NEW i \in Shards
      PROVE  /\ DOMAIN cache[i].items \subseteq {k \in Keys : Hash[k] = i}
             /\ \A k \in DOMAIN cache[i].items : cache[i].items[k] \in Entries
             /\ \A e \in Entries : cache[i].entry[e].left \in Nat /\ cache[i].entry[e].age \in Nat
             /\ Len(lru[i]) <= ShardCap
             /\ DOMAIN cache[i].items = Range(lru[i])
             /\ Cardinality(DOMAIN cache[i].items) = Len(lru[i])
             /\ \A k \in DOMAIN cache[i].items : cache[i].entry[cache[i].items[k]].key = k
             /\ \A j \in 0..Len(lru[i]) :
                  /\ cache[i].next[NodeAt(cache[i], lru[i], j)] = NodeAt(cache[i], lru[i], j + 1)
                  /\ cache[i].prev[NodeAt(cache[i], lru[i], j + 1)] = NodeAt(cache[i], lru[i], j)
  <2> DEFINE s == cache[i]
             q == lru[i]
             c == Chain(s.items, q)
  <2>1. Rep(s, q) /\ \A k \in DOMAIN s.items : Hash[k] = i
    BY Zenon, <1>1 DEF Lists
  <2> HIDE DEF s, q
  <2>2. /\ q \in Seq(Keys) /\ Distinct(q) /\ Len(q) <= ShardCap /\ DOMAIN s.items = Range(q)
        /\ \A k \in DOMAIN s.items : s.entry[s.items[k]].key = k
        /\ Linked(s.next, s.prev, c) /\ s.entry \in [Entries -> EntryType]
    BY Zenon, <2>1 DEF Rep, Shard
  <2>3. /\ s.items \in [Range(q) -> Entries] /\ Len(c) = Len(q)
        /\ \A j \in 1..Len(q) : c[j] = s.items[q[j]]
    BY <2>1, RepChain
  <2> HIDE DEF c
  <2>4. Range(q) \subseteq Keys
    BY Zenon, <2>2, PlacesOf
  <2>5. Cardinality(DOMAIN s.items) = Len(q) /\ Len(q) \in Nat
    <3>1. Len(q) \in Nat
      BY <2>2
    <3> QED BY <2>2, <3>1, Zenon DEF Sizes
  <2>6. \A e \in Entries : s.entry[e].left \in Nat /\ s.entry[e].age \in Nat
    BY Zenon, <2>2 DEF EntryType
  <2>7. \A j \in 0..(Len(q) + 1) : NodeAt(s, q, j) = At(c, j)
    BY <2>3, <2>5 DEF NodeAt, At
  <2>8. ASSUME NEW j \in 0..Len(q)
        PROVE  /\ s.next[NodeAt(s, q, j)] = NodeAt(s, q, j + 1)
               /\ s.prev[NodeAt(s, q, j + 1)] = NodeAt(s, q, j)
    <3>1. j \in 0..(Len(q) + 1) /\ j + 1 \in 0..(Len(q) + 1) /\ j \in 0..Len(c)
      BY <2>3, <2>5
    <3> QED BY Zenon, <2>2, <2>7, <3>1 DEF Linked
  <2>9. DOMAIN s.items \subseteq {k \in Keys : Hash[k] = i} /\ \A k \in DOMAIN s.items : s.items[k] \in Entries
    BY Zenon, <2>1, <2>2, <2>3, <2>4
  <2> QED BY ZenonT(60), <2>2, <2>5, <2>6, <2>8, <2>9 DEF s, q
<1>3. ASSUME NEW r \in Readers
      PROVE  reader[r].pc \in {"idle", "miss", "fill"} /\ reader[r].wait \in 0..MaxDelay
  BY Zenon, <1>1 DEF Plain, QueryType
<1>4. /\ writer.pc \in {"idle", "mutating", "clearing"}
      /\ writer.shard \in 0..ShardCount /\ writer.batch \in 0..MaxBatch
  BY Zenon, <1>1 DEF Plain, WriterType
<1>5. TypeOK
  BY <1>1, <1>2, <1>3, <1>4, Zenon DEF TypeOK, Plain
<1> QED BY <1>2, <1>5, Zenon DEF ListIsLRU

(* What a hit on k is served.                                              *)
LEMMA LiveContent ==
  ASSUME IInv, NEW k \in Keys, Live(k)
  PROVE  /\ Hash[k] \in Shards /\ k \in DOMAIN cache[Hash[k]].items
         /\ Cached(k) = Content(cache[Hash[k]], k)
         /\ Cached(k).left \in Nat /\ Cached(k).left > 0 /\ Cached(k).age \in Nat
<1> DEFINE s == cache[Hash[k]]
<1>1. Hash[k] \in Shards
  BY Zenon, HashType
<1>2. k \in DOMAIN s.items /\ Cached(k).left > 0 /\ Cached(k) = Content(s, k)
  BY Zenon DEF Live, Hit, Cached, Content
<1>3. Rep(s, lru[Hash[k]])
  BY Zenon, <1>1 DEF IInv, Lists
<1> HIDE DEF s
<1>4. s.entry \in [Entries -> EntryType] /\ s.items[k] \in Entries
  BY <1>2, <1>3, RepChain DEF Rep, Shard
<1>5. Content(s, k) \in EntryType
  BY Zenon, <1>4 DEF Content
<1>6. Content(s, k).left \in Nat /\ Content(s, k).age \in Nat
  BY Zenon, <1>5 DEF EntryType
<1> QED BY Zenon, <1>1, <1>2, <1>6 DEF s

(* The definition of Cardinality, written out.  The library's theorems on  *)
(* finite sets come with a copy of Cardinality that the provers take for   *)
(* another operator; both are this one.                                    *)
SizeOf(S) ==
  LET CS[T \in SUBSET S] == IF T = {} THEN 0 ELSE 1 + CS[T \ {CHOOSE x : x \in T}]
  IN  CS[S]

LEMMA IsSize == \A S : Cardinality(S) = SizeOf(S)
BY Zenon DEF Cardinality, SizeOf

(* What is numbered from 1 to n, each once, has n elements.                *)
Counts ==
  \A n \in Nat : \A T : \A q \in [1..n -> T] :
    /\ \A k \in T : \E j \in 1..n : q[j] = k
    /\ \A i, j \in 1..n : q[i] = q[j] => i = j
    => SizeOf(T) = n

LEMMA SizesFrom ==
  ASSUME Counts, SizeOf(Entries) = ShardCap PROVE Sizes
<1>1. ASSUME NEW S, NEW q \in Seq(S), Distinct(q) PROVE Cardinality(Range(q)) = Len(q)
  <2>1. /\ \A j \in 1..Len(q) : q[j] \in Range(q)
        /\ \A k \in Range(q) : \E j \in 1..Len(q) : q[j] = k
    BY Zenon, PlacesOf
  <2>2. Len(q) \in Nat /\ q \in [1..Len(q) -> Range(q)]
    BY <2>1
  <2>3. \A i, j \in 1..Len(q) : q[i] = q[j] => i = j
    BY Zenon, <1>1 DEF Distinct
  <2> QED BY <2>1, <2>2, <2>3, IsSize, Zenon DEF Counts
<1> QED BY <1>1, IsSize, Zenon DEF Sizes

-----------------------------------------------------------------------------
(* The theorems                                                            *)

LOCAL INSTANCE FiniteSetTheorems

LEMMA IsSizeToo == \A S : Cardinality(S) = SizeOf(S)
BY Zenon DEF Cardinality, SizeOf

LEMMA Counting == Counts
<1> SUFFICES ASSUME NEW n \in Nat, NEW T, NEW q \in [1..n -> T],
                    \A k \in T : \E j \in 1..n : q[j] = k,
                    \A i, j \in 1..n : q[i] = q[j] => i = j
             PROVE  SizeOf(T) = n
  BY Zenon DEF Counts
<1>1. q \in Surjection(1..n, T)
  BY Zenon DEF Surjection
<1>2. q \in Injection(1..n, T)
  BY Zenon DEF Injection, IsInjective
<1>3. ExistsBijection(1..n, T)
  BY Zenon, <1>1, <1>2 DEF Bijection, ExistsBijection
<1>4. Cardinality(T) = n
  BY Zenon, <1>3, FS_CountingElements
<1> QED BY <1>4, IsSizeToo, Zenon

LEMMA SizesHold == Sizes
<1>1. Cardinality(Entries) = ShardCap
  <2>1. ShardCap \in Nat \ {0} /\ 1 \in Int /\ ShardCap \in Int
    BY CapType
  <2> QED BY <2>1, FS_Interval DEF Entries
<1>2. SizeOf(Entries) = ShardCap
  BY <1>1, IsSizeToo, Zenon
<1> QED BY <1>2, Counting, SizesFrom, Zenon

(* The inductive invariant holds in every reachable state: every shard is  *)
(* an ideal LRU list of its keys, every live entry is within its time, and *)
(* what is stale is late or waits for the clear.                           *)
THEOREM Invariance == Spec => []IInv
<1>1. Init => IInv
  BY Zenon, InitIInv
<1>2. IInv /\ [Next]_vars => IInv'
  BY Zenon, NextKeeps, SizesHold
<1> QED BY <1>1, <1>2, PTL DEF Spec

(* A cache shard's map and linked list agree after any history of gets,    *)
(* sets, expiries, evictions and clears: the list between head and tail,   *)
(* followed either way, is the ideal LRU list of the map's keys, within    *)
(* the shard's capacity.  For every capacity, number of shards and hash.   *)
THEOREM ShardsAreLRULists == Spec => []ListIsLRU
<1>1. IInv => ListIsLRU
  BY Zenon, IInvIsLRU, SizesHold
<1> QED BY <1>1, Invariance, PTL

(* What the cache serves was the tree's answer less than its TTL and the   *)
(* delay of one query ago, whatever writes, late fills and clears came in  *)
(* between.                                                                *)
THEOREM CacheStalenessBounded == Spec => []StalenessBounded
<1>1. IInv => StalenessBounded
  <2> SUFFICES ASSUME IInv, NEW k \in Keys, Live(k)
               PROVE  Cached(k).age < Ttl[Cached(k).value] + MaxDelay
    BY Zenon DEF StalenessBounded
  <2> DEFINE c == Cached(k)
  <2>1. /\ Hash[k] \in Shards /\ k \in DOMAIN cache[Hash[k]].items
        /\ c = Content(cache[Hash[k]], k)
        /\ c.left \in Nat /\ c.left > 0 /\ c.age \in Nat
    BY Zenon, LiveContent
  <2> HIDE DEF c
  <2>2. InTime(c)
    BY Zenon, <2>1 DEF IInv, Bounded
  <2>3. c.value \in Values /\ c.age + c.left <= Ttl[c.value] + MaxDelay
    BY Zenon, <2>1, <2>2 DEF InTime
  <2>4. Ttl[c.value] \in Nat /\ MaxDelay \in Nat
    BY Zenon, <2>3, QueryAssumption
  <2>5. c.age < Ttl[c.value] + MaxDelay
    BY <2>1, <2>3, <2>4
  <2> QED BY Zenon, <2>5 DEF c
<1> QED BY <1>1, Invariance, PTL

(* With no write in progress, whatever the cache serves is the tree's      *)
(* answer, unless the fill that put it there was overtaken by a write.     *)
THEOREM CacheFreshUnlessLate == Spec => []FreshUnlessLate
<1>1. IInv => FreshUnlessLate
  <2> SUFFICES ASSUME IInv, writer.pc = "idle", NEW k \in Keys, Live(k)
               PROVE  Cached(k).late \/ Cached(k).value = tree[k]
    BY Zenon DEF FreshUnlessLate
  <2> DEFINE c == Cached(k)
  <2>1. /\ Hash[k] \in Shards /\ k \in DOMAIN cache[Hash[k]].items
        /\ c = Content(cache[Hash[k]], k) /\ c.left > 0
    BY Zenon, LiveContent
  <2> HIDE DEF c
  <2>2. ToClear(writer, Hash[k]) \/ Current(c, tree[k])
    BY <2>1, Zenon DEF IInv, Fresh
  <2>3. ~ToClear(writer, Hash[k])
    BY Zenon DEF ToClear
  <2>4. c.late \/ c.value = tree[k]
    BY <2>1, <2>2, <2>3, Zenon DEF Current
  <2> QED BY <2>4, Zenon DEF c
<1> QED BY <1>1, Invariance, PTL
=============================================================================
