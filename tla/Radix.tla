------------------------------- MODULE Radix -------------------------------
(***************************************************************************)
(* The copy-on-write tree of names (internal/radix) and the paginated      *)
(* listing the REST API makes of it (internal/api).                        *)
(*                                                                         *)
(* Nodes live in a heap and refer to each other by address, so that what   *)
(* a writer may share with a reader that still holds an older root is part *)
(* of the state.  Labels are numbers in their order; Star is the label     *)
(* "*".  A domain is spelled from left to right and may hold empty labels  *)
(* (a trailing dot) and upper-case ones; a path runs from the root, in     *)
(* lower case.                                                             *)
(***************************************************************************)
EXTENDS Integers, Sequences, FiniteSets, SequencesExt, FiniteSetsExt

CONSTANTS
  Domains,     \* the domains callers write, as they spell them
  Queries,     \* the domains readers ask for
  RRs,         \* the record sets callers write: sequences of types
  QTypes,      \* the types readers ask for
  Zones,       \* what ReloadZone may load: sequences of [d, rr]
  LinearMax,   \* findEdge scans up to this many edges (16)
  PageLimit,   \* domains on a page of the listing
  MaxWrites, MaxPages   \* bounds of the model

Nil == 0
Star == 0
Empty == -1    \* the empty label
Upper == 10    \* a label in upper case is 10 more than in lower case

VARIABLES
  heap,     \* address -> node
  root,     \* state.root
  size,     \* state.size
  held,     \* a root that some reader loaded, and what it found there
  list,     \* a client that lists all domains page by page
  stored,   \* history: the record set last written for each path
  writes

vars == <<heap, root, size, held, list, stored, writes>>

-----------------------------------------------------------------------------
(* Names.                                                                  *)

LowerCase(l) == IF l > Upper THEN l - Upper ELSE l

(* DomainIterator.NextLower, until it has no more labels.                  *)
Path(domain) ==
  LET labels == SelectSeq(domain, LAMBDA l : l # Empty)
  IN  [i \in 1..Len(labels) |-> LowerCase(labels[Len(labels) + 1 - i])]

(* Nodes.  A record remembers the path it was written for.                 *)
EmptyNode == [rr |-> <<>>, wild |-> Nil, kids |-> <<>>]

Records(p, types) == [i \in DOMAIN types |-> [type |-> types[i], of |-> p]]

(* The two searches of findEdge: where the label is, or would be.          *)
LinearIndex(kids, l) ==
  Min({i \in 1..Len(kids) : kids[i].label >= l} \cup {Len(kids) + 1})

RECURSIVE BinaryIndex(_, _, _, _)
BinaryIndex(kids, l, lo, hi) ==
  LET m == (lo + hi) \div 2
  IN  CASE lo > hi -> lo
        [] lo <= hi /\ kids[m].label = l -> m
        [] lo <= hi /\ kids[m].label < l -> BinaryIndex(kids, l, m + 1, hi)
        [] OTHER -> BinaryIndex(kids, l, lo, m - 1)

FindEdge(kids, l) ==
  LET i == IF Len(kids) <= LinearMax
             THEN LinearIndex(kids, l) ELSE BinaryIndex(kids, l, 1, Len(kids))
  IN  [idx |-> i, found |-> i \in DOMAIN kids /\ kids[i].label = l]

(* One label down from node n, or Nil.                                     *)
Child(h, n, l) ==
  LET e == FindEdge(h[n].kids, l)
  IN  CASE l = Star -> h[n].wild
        [] l # Star /\ e.found -> h[n].kids[e.idx].node
        [] OTHER -> Nil

FindNode(h, r, p) ==
  FoldLeft(LAMBDA n, l : IF n = Nil THEN Nil ELSE Child(h, n, l), r, p)

-----------------------------------------------------------------------------
(* Mutations.                                                              *)

Fresh(h) == Min((1..(Cardinality(DOMAIN h) + 1)) \ DOMAIN h)

Put(h, n, node) == [m \in DOMAIN h \cup {n} |-> IF m = n THEN node ELSE h[m]]

(* A node with its link for label l pointing to c.                         *)
Linked(node, l, c) ==
  LET e == FindEdge(node.kids, l)
      edge == [label |-> l, node |-> c]
  IN  CASE l = Star -> [node EXCEPT !.wild = c]
        [] l # Star /\ e.found -> [node EXCEPT !.kids[e.idx] = edge]
        [] OTHER -> [node EXCEPT !.kids = InsertAt(@, e.idx, edge)]

Unlinked(node, l) ==
  IF l = Star THEN [node EXCEPT !.wild = Nil]
              ELSE [node EXCEPT !.kids = RemoveAt(@, FindEdge(@, l).idx)]

(* insert goes down one label in place; as a step of Upsert, it would      *)
(* change nodes that readers hold.                                         *)
DescendInPlace(at, l) ==
  LET old == Child(at.h, at.n, l)
      new == Fresh(at.h)
  IN  IF old # Nil THEN [h |-> at.h, n |-> old]
      ELSE LET h == Put(at.h, new, EmptyNode)
           IN  [h |-> [h EXCEPT ![at.n] = Linked(h[at.n], l, new)], n |-> new]

(* Upsert goes down one label: a clone of the child, or a new one, is      *)
(* linked into the clone of its parent.                                    *)
Descend(at, l) ==
  LET old == Child(at.h, at.n, l)
      new == Fresh(at.h)
      h == Put(at.h, new, IF old = Nil THEN EmptyNode ELSE at.h[old])
  IN  [h |-> [h EXCEPT ![at.n] = Linked(h[at.n], l, new)], n |-> new]

(* Upsert: the heap, the new root and the size it stores.                  *)
Upsert(h, r, n, p, rr) ==
  LET top == Fresh(h)
      end == FoldLeft(Descend, [h |-> Put(h, top, h[r]), n |-> top], p)
      old == end.h[end.n].rr
  IN  [heap |-> [end.h EXCEPT ![end.n].rr = rr], root |-> top,
       size |-> IF old = <<>> THEN n + 1 ELSE n]

(* The nodes on the way to p, with the label that leads to the next.       *)
Trail(h, r, p) ==
  [i \in DOMAIN p |->
     [node |-> FindNode(h, r, SubSeq(p, 1, i - 1)), label |-> p[i]]]

IsBare(node) == node.rr = <<>> /\ node.wild = Nil /\ node.kids = <<>>

(* Mutant of Pruned: a wildcard does not keep its parent. *)
Pruned_WildcardForgotten(h, node) ==
  IF node.rr = <<>> /\ node.kids = <<>>
    THEN [h |-> h, n |-> Nil] ELSE [h |-> Put(h, Fresh(h), node), n |-> Fresh(h)]

(* deletePath returns nil for a node that became bare, or else its clone.  *)
Pruned(h, node) ==
  IF IsBare(node)
    THEN [h |-> h, n |-> Nil] ELSE [h |-> Put(h, Fresh(h), node), n |-> Fresh(h)]

(* deletePath on the way back up.                                          *)
DeletePath(h, r, p) ==
  LET target == FindNode(h, r, p)
      Up(step, below) ==
        LET node == below.h[step.node]
        IN  Pruned(below.h, IF below.n = Nil THEN Unlinked(node, step.label)
                            ELSE Linked(node, step.label, below.n))
  IN  FoldRight(Up, Trail(h, r, p), Pruned(h, [h[target] EXCEPT !.rr = <<>>]))

(* DeleteDomain; an empty tree gets a new root.                            *)
DeleteDomain(h, r, n, p) ==
  LET t == FindNode(h, r, p)
      end == DeletePath(h, r, p)
      top == Fresh(end.h)
  IN  CASE t = Nil -> [heap |-> h, root |-> r, size |-> n]
        [] t # Nil /\ h[t].rr = <<>> -> [heap |-> h, root |-> r, size |-> n]
        [] t # Nil /\ h[t].rr # <<>> /\ end.n = Nil ->
             [heap |-> Put(end.h, top, EmptyNode), root |-> top, size |-> n - 1]
        [] OTHER -> [heap |-> end.h, root |-> end.n, size |-> n - 1]

(* ReloadZone builds a tree of its own, in place.                          *)
ReloadZone(h, zone) ==
  LET top == Fresh(h)
      Insert(t, e) ==
        LET end == FoldLeft(DescendInPlace, [h |-> t.heap, n |-> top], Path(e.d))
            old == end.h[end.n].rr
            new == Records(Path(e.d), e.rr)
        IN  [heap |-> [end.h EXCEPT ![end.n].rr = new], root |-> top,
             size |-> IF old = <<>> THEN t.size + 1 ELSE t.size]
      start == [heap |-> Put(h, top, EmptyNode), root |-> top, size |-> 0]
  IN  FoldLeft(Insert, start, zone)

-----------------------------------------------------------------------------
(* Queries.                                                                *)

(* walkTree: every node, the wildcard before the other children.           *)
RECURSIVE Walk(_, _, _)
Walk(h, n, p) ==
  LET wild == [label |-> Star, node |-> h[n].wild]
      below == IF wild.node = Nil THEN h[n].kids ELSE <<wild>> \o h[n].kids
  IN  <<[p |-> p, n |-> n]>>
      \o FlattenSeq([i \in DOMAIN below |->
           Walk(h, below[i].node, Append(p, below[i].label))])

Stored(h, visits) == SelectSeq(visits, LAMBDA v : h[v.n].rr # <<>>)

(* Mutant of Seek: the cursor itself is returned again. *)
Seek_Inclusive(h, r, after) ==
  LET visits == Walk(h, r, <<>>)
      at == {i \in DOMAIN visits : Reverse(visits[i].p) = after}
  IN  CASE after = <<>> -> Stored(h, visits)
        [] after # <<>> /\ FindNode(h, r, Path(after)) # Nil /\ at # {} ->
             Stored(h, SubSeq(visits, Min(at), Len(visits)))
        [] OTHER -> <<>>

(* Seek: what Walk visits after the node spelled like the cursor; nothing  *)
(* if there is none.                                                       *)
Seek(h, r, after) ==
  LET visits == Walk(h, r, <<>>)
      at == {i \in DOMAIN visits : Reverse(visits[i].p) = after}
  IN  CASE after = <<>> -> Stored(h, visits)
        [] after # <<>> /\ FindNode(h, r, Path(after)) # Nil /\ at # {} ->
             Stored(h, SubSeq(visits, Min(at) + 1, Len(visits)))
        [] OTHER -> <<>>

Get(h, r, p) ==
  LET n == FindNode(h, r, p) IN IF n = Nil THEN <<>> ELSE h[n].rr

NoRecord == [type |-> "none", of |-> <<>>]

(* searchRRSet *)
Search(rr, t) ==
  IF \E i \in DOMAIN rr : rr[i].type = t
    THEN rr[CHOOSE i \in DOMAIN rr : rr[i].type = t] ELSE NoRecord

Result(rcode, answer, authority, name) ==
  [rcode |-> rcode, answer |-> answer, authority |-> authority, name |-> name]

ResolveAtNode(rr, qt, soa, name) ==
  LET own == IF qt = "ANY" /\ rr # <<>> THEN rr[1] ELSE Search(rr, qt)
      answer == IF own = NoRecord /\ qt # "CNAME" THEN Search(rr, "CNAME") ELSE own
  IN  IF answer # NoRecord THEN Result("NOERROR", answer, NoRecord, <<>>)
                           ELSE Result("NOERROR", NoRecord, soa, name)

WildcardResolve(h, fallback, qt, soa, name) ==
  IF fallback = Nil \/ h[fallback].rr = <<>>
    THEN Result("NXDOMAIN", NoRecord, soa, name)
    ELSE ResolveAtNode(h[fallback].rr, qt, soa, name)

Ongoing == Result("ongoing", NoRecord, NoRecord, <<>>)

(* Mutant of EvaluateNode: the records of a delegation are not protected. *)
EvaluateNode_DSOnly(rr, at, p, qt, q) ==
  LET ns == Search(rr, "NS")
      soa == Search(rr, "SOA")
  IN  CASE soa # NoRecord -> [q EXCEPT !.soa = soa, !.name = at]
        [] soa = NoRecord /\ ns # NoRecord /\ at # p ->
             [q EXCEPT !.res = Result("NOERROR", NoRecord, ns, at)]
        [] OTHER -> q

(* evaluateNode: remember the SOA of an apex, stop at a delegation.        *)
EvaluateNode(rr, at, p, qt, q) ==
  LET ns == Search(rr, "NS")
      soa == Search(rr, "SOA")
  IN  CASE soa # NoRecord -> [q EXCEPT !.soa = soa, !.name = at]
        [] soa = NoRecord /\ ns # NoRecord /\ (qt # "DS" \/ at # p) ->
             [q EXCEPT !.res = Result("NOERROR", NoRecord, ns, at)]
        [] OTHER -> q

(* Resolve.  q.n is the current node, q.fallback the last wildcard seen.   *)
Resolve(h, r, p, qt) ==
  LET Enter(q, n, at) ==
        EvaluateNode(h[n].rr, at, p, qt, [q EXCEPT !.n = n, !.at = at])
      Label(q, l) ==
        LET f == IF h[q.n].wild # Nil THEN h[q.n].wild ELSE q.fallback
            n == Child(h, q.n, l)
        IN  CASE q.res # Ongoing -> q
              [] q.res = Ongoing /\ n = Nil ->
                   [q EXCEPT !.res = WildcardResolve(h, f, qt, q.soa, q.name)]
              [] OTHER -> Enter([q EXCEPT !.fallback = f], n, Append(q.at, l))
      start == [n |-> r, at |-> <<>>, fallback |-> Nil, soa |-> NoRecord,
                name |-> <<>>, res |-> Ongoing]
      end == FoldLeft(Label, Enter(start, r, <<>>), p)
  IN  CASE end.res # Ongoing -> end.res
        [] end.res = Ongoing /\ IsBare(h[end.n]) ->
             WildcardResolve(h, end.fallback, qt, end.soa, end.name)
        [] OTHER -> ResolveAtNode(h[end.n].rr, qt, end.soa, end.name)

-----------------------------------------------------------------------------
(* The tree in use.                                                        *)

RECURSIVE Below(_, _)
Below(h, n) ==
  {n} \cup UNION {Below(h, c) :
    c \in (({h[n].wild} \ {Nil}) \cup {h[n].kids[i].node : i \in DOMAIN h[n].kids})}

(* What a reader that loaded root r sees.                                  *)
View(h, r) ==
  LET seen == Stored(h, Walk(h, r, <<>>))
  IN  [p \in {seen[i].p : i \in DOMAIN seen} |-> Get(h, r, p)]

(* The runtime keeps what the tree or a reader still refers to.            *)
Collected(h, r) ==
  Restrict(h, UNION {Below(h, n) : n \in {r, held.root} \ {Nil}})

NoReader == [root |-> Nil, view |-> <<>>]

Init ==
  /\ heap = [n \in {1} |-> EmptyNode] /\ root = 1 /\ size = 0
  /\ held = NoReader
  /\ list = [cursor |-> <<>>, pages |-> 0, seen |-> <<>>, kept |-> {},
             more |-> TRUE, lost |-> FALSE]
  /\ stored = <<>> /\ writes = 0

Store(t) == heap' = Collected(t.heap, t.root) /\ root' = t.root /\ size' = t.size

(* Tree.Upsert, which deletes if there are no records, and DeleteDomain.   *)
Write(d, rr) ==
  /\ writes < MaxWrites
  /\ writes' = writes + 1
  /\ Store(IF rr = <<>>
             THEN DeleteDomain(heap, root, size, Path(d))
             ELSE Upsert(heap, root, size, Path(d), Records(Path(d), rr)))
  /\ stored' = IF rr = <<>> THEN Restrict(stored, DOMAIN stored \ {Path(d)})
               ELSE [p \in DOMAIN stored \cup {Path(d)} |->
                       IF p = Path(d) THEN Records(p, rr) ELSE stored[p]]
  /\ list' = [list EXCEPT !.kept = @ \cap DOMAIN stored']
  /\ UNCHANGED held

Reload(zone) ==
  /\ writes < MaxWrites
  /\ writes' = writes + 1
  /\ Store(ReloadZone(heap, zone))
  /\ stored' = [p \in {Path(zone[i].d) : i \in DOMAIN zone} |->
                  LET i == Max({j \in DOMAIN zone : Path(zone[j].d) = p})
                  IN  Records(p, zone[i].rr)]
  /\ list' = [list EXCEPT !.kept = @ \cap DOMAIN stored']
  /\ UNCHANGED held

(* A reader loads the state, and goes on with it for as long as it likes.  *)
(* Readers do not influence each other: a behaviour has one, or a listing. *)
Load ==
  /\ held = NoReader /\ list.pages = 0
  /\ held' = [root |-> root, view |-> View(heap, root)]
  /\ UNCHANGED <<heap, root, size, list, stored, writes>>

(* listRecords: one page, and the cursor of the next.                      *)
ListPage ==
  LET rest == Seek(heap, root, list.cursor)
      page == SubSeq(rest, 1, Min({PageLimit, Len(rest)}))
      more == Len(rest) > PageLimit
  IN  /\ held = NoReader
      /\ list.more /\ list.pages < MaxPages
      /\ list' =
           [cursor |-> IF more THEN Reverse(Last(page).p) ELSE <<>>,
            pages |-> list.pages + 1,
            seen |-> list.seen \o [i \in DOMAIN page |-> page[i].p],
            kept |-> IF list.pages = 0 THEN DOMAIN stored ELSE list.kept,
            more |-> more,
            lost |-> list.lost \/ FindNode(heap, root, Path(list.cursor)) = Nil
                     \/ (more /\ Last(page).p = <<>>)]
      /\ UNCHANGED <<heap, root, size, held, stored, writes>>

Next ==
  \/ \E d \in Domains, rr \in RRs \cup {<<>>} : Write(d, rr)
  \/ \E zone \in Zones : Reload(zone)
  \/ Load \/ ListPage

-----------------------------------------------------------------------------
(* What the tree promises, in terms of the paths that hold records.        *)

Exists(p) == \E s \in DOMAIN stored : IsPrefix(p, s)

At(p) == IF p \in DOMAIN stored THEN stored[p] ELSE <<>>

Has(p, t) == Search(At(p), t) # NoRecord

Longest(paths) == CHOOSE p \in paths : \A q \in paths : Len(q) <= Len(p)

Shortest(paths) == CHOOSE p \in paths : \A q \in paths : Len(p) <= Len(q)

(* A referral from the first delegation on the way; else the records of    *)
(* the name if there are any at or below it; else those of the nearest     *)
(* wildcard; with the SOA of the nearest apex if the answer is negative.   *)
Expected(p, qt) ==
  LET cuts == {c \in Prefixes(p) : /\ Has(c, "NS") /\ ~Has(c, "SOA")
                                   /\ qt # "DS" \/ c # p}
      wilds == {w \in Prefixes(p) \ {p} : Exists(Append(w, Star))}
      source == CASE Exists(p) -> p
                  [] ~Exists(p) /\ wilds # {} -> Append(Longest(wilds), Star)
                  [] OTHER -> p
      apexes == {a \in Prefixes(p) : Has(a, "SOA")}
      apex == IF apexes = {} THEN <<>> ELSE Longest(apexes)
      first == Shortest(cuts)
      named == Exists(p) \/ At(source) # <<>>
      answer == CASE qt = "ANY" /\ At(source) # <<>> -> At(source)[1]
                  [] qt # "ANY" /\ Has(source, qt) -> Search(At(source), qt)
                  [] OTHER -> Search(At(source), "CNAME")
  IN  CASE cuts # {} ->
             Result("NOERROR", NoRecord, Search(At(first), "NS"), first)
        [] cuts = {} /\ answer # NoRecord ->
             Result("NOERROR", answer, NoRecord, <<>>)
        [] OTHER -> Result(IF named THEN "NOERROR" ELSE "NXDOMAIN",
                           NoRecord, Search(At(apex), "SOA"), apex)

-----------------------------------------------------------------------------
(* Properties.                                                             *)

TypeOK ==
  /\ root \in DOMAIN heap /\ size \in Nat
  /\ \A n \in DOMAIN heap :
       /\ heap[n].wild \in DOMAIN heap \cup {Nil}
       /\ \A i \in DOMAIN heap[n].kids : heap[n].kids[i].node \in DOMAIN heap

(* Whatever was inserted, replaced, deleted and reloaded in whatever order *)
(* and spelling, the tree holds exactly what was written last, counts it,  *)
(* and keeps no node that neither holds nor leads to records.              *)
TreeIsMap ==
  /\ View(heap, root) = stored
  /\ size = Cardinality(DOMAIN stored)
  /\ \A d \in Domains : Get(heap, root, Path(d)) = At(Path(d))
  /\ \A n \in Below(heap, root) \ {root} : ~IsBare(heap[n])

(* Copy-on-write: a reader that loaded the tree finds in it, at any later  *)
(* time, what it held when it was loaded.                                  *)
SnapshotStable ==
  held # NoReader => View(heap, held.root) = held.view

(* Resolve answers every query as the names that hold records demand.      *)
ResolveAgrees ==
  \A d \in Queries, qt \in QTypes :
    Resolve(heap, root, Path(d), qt) = Expected(Path(d), qt)

(* A listing that reaches its last page has returned every domain that was *)
(* there throughout, and none twice, while others came and went; unless a  *)
(* cursor was deleted meanwhile, or a page ended at the root, whose name   *)
(* is the empty cursor.                                                    *)
ListingComplete ==
  ~list.lost =>
    /\ IsInjective(list.seen)
    /\ ~list.more => list.kept \subseteq {list.seen[i] : i \in DOMAIN list.seen}
=============================================================================
