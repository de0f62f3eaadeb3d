------------------------------- MODULE Query -------------------------------
(***************************************************************************)
(* The query side of KDNS: the State that pairs the current radix tree     *)
(* with the sharded LRU-TTL cache (internal/state, internal/cache).        *)
(*                                                                         *)
(* Resolve is three separate critical sections: a cache lookup under the   *)
(* lock of one shard, a read of the tree through an atomic pointer, and a  *)
(* cache fill under the shard's lock again.  A writer mutates the tree     *)
(* under State.mu, which no reader takes, and then clears the cache shard  *)
(* by shard.  Every interleaving of these is a behaviour of Spec.          *)
(*                                                                         *)
(* A shard keeps the code's pointers: a map from key to entry and a doubly *)
(* linked list between two sentinels.  A tree is the answer it gives to    *)
(* each key: an RRSet, or Negative.  Time is a Tick of one second, and an  *)
(* entry counts down to its expiry instead of naming it.                   *)
(***************************************************************************)
EXTENDS Integers, Sequences, FiniteSets, Functions

CONSTANTS
  Keys,        \* cache keys: a lower-case name and a type
  Asks,        \* [Readers -> what it may ask for: names in any case, with a type]
  Lower,       \* what is asked, in lower case: the key
  Shards,      \* 1..n; the code has 256 of them
  Hash,        \* [Keys -> Shards]
  TotalCapacity,
  Values,      \* RRSets
  Ttl,         \* [Values -> Nat]
  Answers,     \* [Keys -> SUBSET Values], what may be written for a key
  Zones,       \* whole trees, as loaded at boot or swapped in
  Readers,
  MaxBatch,    \* mutations of one Update
  MaxWrites,   \* mutations in all
  MaxDelay     \* seconds a query may take between reading and filling

Negative == "negative"     \* NXDOMAIN, NODATA or a referral: never cached
Front == 0     \* the head sentinel
Back == -1      \* the tail sentinel
Nil == -2       \* no node
None == "none"   \* no key, no RRSet

ShardCount == Cardinality(Shards)

ASSUME QueryAssumption ==
  /\ ShardCount \in Nat \ {0} /\ Shards = 1..ShardCount /\ Hash \in [Keys -> Shards]
  /\ DOMAIN Asks = Readers /\ Lower \in [UNION Range(Asks) -> Keys]
  /\ Ttl \in [Values -> Nat]
  /\ Answers \in [Keys -> SUBSET Values]
  /\ \A t \in Zones : t \in [Keys -> Values \cup {Negative}]
  /\ {TotalCapacity, MaxBatch, MaxWrites, MaxDelay} \subseteq Nat

-----------------------------------------------------------------------------
(* One shard.                                                              *)

(* New gives every shard its share, and at least one entry.                *)
ShardCap ==
  IF TotalCapacity \div ShardCount > 1 THEN TotalCapacity \div ShardCount ELSE 1

Entries == 1..ShardCap
Nodes == Entries \cup {Front, Back}

(* late and age are history: whether the tree had changed its answer when  *)
(* the fill came (or the entry has expired since), and for how many seconds *)
(* the tree has not given this answer.                                     *)
NoEntry == [key |-> None, value |-> None, left |-> 0, late |-> TRUE, age |-> 0]

EmptyShard ==
  [items |-> <<>>,
   next |-> [n \in Nodes |-> IF n = Front THEN Back ELSE Nil],
   prev |-> [n \in Nodes |-> IF n = Back THEN Front ELSE Nil],
   entry |-> [e \in Entries |-> NoEntry]]

Without(f, k) == Restrict(f, DOMAIN f \ {k})
With(f, k, v) == [x \in DOMAIN f \cup {k} |-> IF x = k THEN v ELSE f[x]]

Remove(s, e) ==
  [s EXCEPT !.next = [@ EXCEPT ![s.prev[e]] = s.next[e], ![e] = Nil],
            !.prev = [@ EXCEPT ![s.next[e]] = s.prev[e], ![e] = Nil]]

PushFront(s, e) ==
  [s EXCEPT !.next = [@ EXCEPT ![e] = s.next[Front], ![Front] = e],
            !.prev = [@ EXCEPT ![e] = Front, ![s.next[Front]] = e]]

(* Mutant of ToFront: the entry is linked in front without being unlinked. *)
ToFront_StillLinked(s, e) == IF s.next[Front] = e THEN s ELSE PushFront(s, e)

(* Promotion, with the fast path for the entry already in front.           *)
ToFront(s, e) == IF s.next[Front] = e THEN s ELSE PushFront(Remove(s, e), e)

(* An entry that has left the map keeps nothing a later operation reads.   *)
Dropped(s, e) ==
  [Remove(s, e) EXCEPT !.items = Without(@, s.entry[e].key), !.entry[e] = NoEntry]

Delete(s, k) == IF k \in DOMAIN s.items THEN Dropped(s, s.items[k]) ELSE s

Set(s, k, v, late, age) ==
  LET new == [key |-> k, value |-> v, left |-> Ttl[v], late |-> late, age |-> age]
      Insert(t, e) ==
        PushFront([t EXCEPT !.items = With(@, k, e), !.entry[e] = new], e)
      unused == Entries \ Range(s.items)
  IN  IF Ttl[v] <= 0
      THEN Delete(s, k)
      ELSE IF k \in DOMAIN s.items
      THEN ToFront([s EXCEPT !.entry[s.items[k]] = new], s.items[k])
      ELSE IF Cardinality(DOMAIN s.items) >= ShardCap
      THEN Insert(Dropped(s, s.prev[Back]), s.prev[Back])
      ELSE Insert(s, CHOOSE e \in unused : TRUE)

(* Mutant of Hit: the expiry is not looked at.                             *)
Hit_Expired(s, k) == k \in DOMAIN s.items

(* Live entries only; an expired one is dropped by the lookup that meets it. *)
Hit(s, k) == k \in DOMAIN s.items /\ s.entry[s.items[k]].left > 0

(* Mutant of AfterGet: a hit starts the entry's TTL again.                 *)
AfterGet_Renewed(s, k) ==
  IF Hit(s, k)
  THEN ToFront([s EXCEPT !.entry[s.items[k]].left = Ttl[s.entry[s.items[k]].value]],
               s.items[k])
  ELSE Delete(s, k)

AfterGet(s, k) == IF Hit(s, k) THEN ToFront(s, s.items[k]) ELSE Delete(s, k)

-----------------------------------------------------------------------------
VARIABLES
  tree,     \* [Keys -> Values \cup {Negative}], the tree State.tree points to
  cache,    \* [Shards -> shard]
  reader,   \* [Readers -> query in progress]
  writer,   \* the holder of State.mu
  writes,   \* mutations so far
  lru       \* history: [Shards -> keys, most recently used first]

vars == <<tree, cache, reader, writer, writes, lru>>

Idle ==
  [pc |-> "idle", key |-> None, res |-> None, wait |-> 0, late |-> FALSE, age |-> 0]

Init ==
  /\ tree \in Zones
  /\ cache = [i \in Shards |-> EmptyShard]
  /\ reader = [r \in Readers |-> Idle]
  /\ writer = [pc |-> "idle", shard |-> 0, batch |-> 0]
  /\ writes = 0
  /\ lru = [i \in Shards |-> <<>>]

(* What an LRU list of the given capacity does, in terms of keys alone.    *)
DropAt(q, p) == [j \in 1..(Len(q) - 1) |-> IF j < p THEN q[j] ELSE q[j + 1]]
Gone(q, k) ==
  IF k \in Range(q) THEN DropAt(q, CHOOSE p \in 1..Len(q) : q[p] = k) ELSE q
Touched(q, k) == <<k>> \o Gone(q, k)
Stored(q, k) ==
  IF k \in Range(q) \/ Len(q) < ShardCap THEN Touched(q, k)
  ELSE Touched(SubSeq(q, 1, Len(q) - 1), k)

-----------------------------------------------------------------------------
(* State.Resolve, first critical section: the cache lookup.                *)
Lookup(r, q) ==
  LET k == Lower[q]
      i == Hash[k]
  IN  /\ reader[r].pc = "idle"
      /\ cache' = [cache EXCEPT ![i] = AfterGet(@, k)]
      /\ lru' = [lru EXCEPT ![i] =
                   IF Hit(cache[i], k) THEN Touched(@, k) ELSE Gone(@, k)]
      /\ reader' = IF Hit(cache[i], k) THEN reader
                   ELSE [reader EXCEPT ![r] = [Idle EXCEPT !.pc = "miss", !.key = k]]
      /\ UNCHANGED <<tree, writer, writes>>

(* The tree is read once; only a positive answer goes on to the cache.     *)
ReadTree(r) ==
  LET res == tree[reader[r].key]
  IN  /\ reader[r].pc = "miss"
      /\ reader' = [reader EXCEPT ![r] =
                      IF res = Negative THEN Idle
                      ELSE [@ EXCEPT !.pc = "fill", !.res = res]]
      /\ UNCHANGED <<tree, cache, writer, writes, lru>>

Fill(r) ==
  LET k == reader[r].key
      v == reader[r].res
      i == Hash[k]
  IN  /\ reader[r].pc = "fill"
      /\ cache' = [cache EXCEPT ![i] = Set(@, k, v, reader[r].late, reader[r].age)]
      /\ lru' = [lru EXCEPT ![i] =
                   IF Ttl[v] = 0 THEN Gone(@, k) ELSE Stored(@, k)]
      /\ reader' = [reader EXCEPT ![r] = Idle]
      /\ UNCHANGED <<tree, writer, writes>>

(* The tree becomes t.  A reader on its way to the cache is late when the  *)
(* answer it carries is no longer the tree's (history).                    *)
TreeBecomes(t) ==
  /\ tree' = t
  /\ reader' = [r \in Readers |->
       IF reader[r].pc = "fill"
       THEN [reader[r] EXCEPT !.late = @ \/ t[reader[r].key] # reader[r].res,
                              !.age = IF t[reader[r].key] = reader[r].res THEN 0 ELSE @]
       ELSE reader[r]]
  /\ cache' = [i \in Shards |-> [cache[i] EXCEPT !.entry = [e \in Entries |->
       IF \E k \in Keys : k = @[e].key /\ t[k] = @[e].value
       THEN [@[e] EXCEPT !.age = 0] ELSE @[e]]]]

(* State.Update, under State.mu: fn applies a batch of mutations one by    *)
(* one, each visible to readers as soon as it is made.                     *)
Mutate(k, v) ==
  /\ writer.pc \in {"idle", "mutating"} /\ writer.batch < MaxBatch
  /\ writes < MaxWrites
  /\ v # tree[k]
  /\ TreeBecomes([tree EXCEPT ![k] = v])
  /\ writer' = [writer EXCEPT !.pc = "mutating", !.batch = @ + 1]
  /\ writes' = writes + 1
  /\ UNCHANGED lru

EndMutations ==
  /\ writer.pc = "mutating"
  /\ writer' = [pc |-> "clearing", shard |-> 1, batch |-> 0]
  /\ UNCHANGED <<tree, cache, reader, writes, lru>>

(* Mutant of Swap: the cache is left alone.                                *)
Swap_NoClear(t) ==
  /\ writer.pc = "idle" /\ writes < MaxWrites
  /\ t # tree
  /\ TreeBecomes(t)
  /\ writes' = writes + 1
  /\ UNCHANGED <<lru, writer>>

(* State.Swap, under State.mu: a whole new tree, then the clear.           *)
Swap(t) ==
  /\ writer.pc = "idle" /\ writes < MaxWrites
  /\ t # tree
  /\ TreeBecomes(t)
  /\ writer' = [pc |-> "clearing", shard |-> 1, batch |-> 0]
  /\ writes' = writes + 1
  /\ UNCHANGED lru

(* One turn of Cache.Clear's loop; State.mu is released after the last.    *)
ClearShard ==
  /\ writer.pc = "clearing"
  /\ cache' = [cache EXCEPT ![writer.shard] = EmptyShard]
  /\ lru' = [lru EXCEPT ![writer.shard] = <<>>]
  /\ writer' = IF writer.shard < ShardCount
               THEN [writer EXCEPT !.shard = @ + 1]
               ELSE [pc |-> "idle", shard |-> 0, batch |-> 0]
  /\ UNCHANGED <<tree, reader, writes>>

(* A second passes.  No query is longer than MaxDelay between its read of  *)
(* the tree and its fill.                                                  *)
Aged(k, v, age) == IF tree[k] = v THEN 0 ELSE age + 1
Older(c) ==
  IF c.left > 1 THEN [c EXCEPT !.left = @ - 1, !.age = Aged(c.key, c.value, @)]
  ELSE [c EXCEPT !.left = 0, !.age = 0, !.late = TRUE]

Tick ==
  /\ \A r \in Readers : reader[r].pc = "fill" => reader[r].wait < MaxDelay
  /\ cache' = [i \in Shards |->
       [cache[i] EXCEPT !.entry = [e \in Entries |-> Older(@[e])]]]
  /\ reader' = [r \in Readers |->
       IF reader[r].pc = "fill"
       THEN [reader[r] EXCEPT !.wait = @ + 1,
                              !.age = Aged(reader[r].key, reader[r].res, @)]
       ELSE reader[r]]
  /\ UNCHANGED <<tree, writer, writes, lru>>

WriterStep == EndMutations \/ ClearShard

Next ==
  \/ \E r \in Readers : (\E q \in Asks[r] : Lookup(r, q)) \/ ReadTree(r) \/ Fill(r)
  \/ \E k \in Keys : \E v \in Answers[k] \cup {Negative} : Mutate(k, v)
  \/ \E t \in Zones : Swap(t)
  \/ WriterStep
  \/ Tick

(* Queries and writers run to their end and time passes; nobody has to     *)
(* ask again, and nobody has to write.                                     *)
Spec ==
  /\ Init /\ [][Next]_vars
  /\ WF_vars(Tick) /\ WF_vars(WriterStep)
  /\ \A r \in Readers : WF_vars(ReadTree(r)) /\ WF_vars(Fill(r))

-----------------------------------------------------------------------------
(* The state of the query side is well formed.                             *)
TypeOK ==
  /\ tree \in [Keys -> Values \cup {Negative}]
  /\ \A i \in Shards :
       /\ DOMAIN cache[i].items \subseteq {k \in Keys : Hash[k] = i}
       /\ \A k \in DOMAIN cache[i].items : cache[i].items[k] \in Entries
       /\ \A e \in Entries : cache[i].entry[e].left \in Nat /\ cache[i].entry[e].age \in Nat
       /\ Len(lru[i]) <= ShardCap
  /\ \A r \in Readers : /\ reader[r].pc \in {"idle", "miss", "fill"}
                        /\ reader[r].wait \in 0..MaxDelay
  /\ writer.pc \in {"idle", "mutating", "clearing"}
  /\ writer.shard \in 0..ShardCount /\ writer.batch \in 0..MaxBatch
  /\ writes \in 0..MaxWrites

(* The node at place j of the list of shard s, if that list holds the keys *)
(* of q in order, between the two sentinels.                               *)
NodeAt(s, q, j) ==
  IF j = 0 THEN Front ELSE IF j = Len(q) + 1 THEN Back ELSE s.items[q[j]]

(* The state is well formed, and a shard's two representations agree,      *)
(* whatever gets, fills, expiries, evictions and clears came before:       *)
(* following next from head meets the map's entries in exactly the order   *)
(* of an ideal LRU list, and ends at tail; following prev from tail meets  *)
(* them in reverse and ends at head; every entry is filed in the map under *)
(* its own key.                                                            *)
ListIsLRU ==
  /\ TypeOK
  /\ \A i \in Shards :
       LET s == cache[i]
           q == lru[i]
       IN  /\ DOMAIN s.items = Range(q) /\ Cardinality(DOMAIN s.items) = Len(q)
           /\ \A k \in DOMAIN s.items : s.entry[s.items[k]].key = k
           /\ \A j \in 0..Len(q) : /\ s.next[NodeAt(s, q, j)] = NodeAt(s, q, j + 1)
                                   /\ s.prev[NodeAt(s, q, j + 1)] = NodeAt(s, q, j)

Live(k) == Hit(cache[Hash[k]], k)
Cached(k) == cache[Hash[k]].entry[cache[Hash[k]].items[k]]

(* An answer served from the cache was the tree's answer less than its own *)
(* TTL ago, plus the time the query that filled it took: a fill that comes *)
(* after the clear of the write that made it stale is out by that much and *)
(* no more.                                                                *)
StalenessBounded ==
  \A k \in Keys :
    Live(k) => Cached(k).age < Ttl[Cached(k).value] + MaxDelay

(* When no write is in progress, everything the cache would serve is what  *)
(* the tree says, unless it was put there by a query that had read the     *)
(* tree before a write changed that answer.                                *)
FreshUnlessLate ==
  writer.pc = "idle" =>
    \A k \in Keys : Live(k) => Cached(k).late \/ Cached(k).value = tree[k]

(* Once writes stop, the cache ends up serving only what the tree says,    *)
(* however many late fills happened, and stays that way.                   *)
EventuallyFresh ==
  <>[](\A k \in Keys : Live(k) => Cached(k).value = tree[k])

(* docs/architecture.md: the caller of a write that has returned reads its *)
(* own write.  The answer to a query that starts while no write is in      *)
(* progress is the tree's.                                                 *)
ReadYourWrites ==
  writer.pc = "idle" => \A k \in Keys : Live(k) => Cached(k).value = tree[k]
=============================================================================
