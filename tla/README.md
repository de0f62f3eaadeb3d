# Verification of KDNS

TLA+ models of [KDNS](../src/README.md), an authoritative DNS server in Go,
with TLC runs on small instances and TLAPS proofs for every instance.

## 1. The system

| part | source | role |
| --- | --- | --- |
| store | `internal/store` | one queue of mutations, a batch worker that commits them to the WAL and the tree, a compaction loop, reload, close |
| wal, codec, snapshot | `internal/wal`, `internal/codec`, `internal/snapshot` | the two files of a storage directory: `mutations.wal` and `state.snap` |
| state, cache, radix | `internal/state`, `internal/cache`, `internal/radix` | the live tree, and a sharded LRU cache of answers in front of it |
| hub, replica | `internal/cluster` | streaming of the primary's WAL to read-only replicas |
| dns server, dns, rrl, dnssec, doh, tsig, rfc2136 | `internal/...` | the query path and dynamic updates |
| api, daemon, metrics, zone, tlsreload, cmd | `internal/...`, `cmd/kdns` | management, start and stop |

The REST API and RFC 2136 updates call `Store.Upsert` and `Store.DeleteDomain`.
The store applies a mutation to the tree of `state.State` (which clears the
cache), appends it to the WAL, and notifies the cluster hub, whose streams read
the WAL file and the snapshot file without the store's lock. A replica appends
what it receives to a WAL of its own and applies it to its own tree; its DNS
server answers from that tree. A UDP answer passes through the DNSSEC signer,
`PackResponse`, TSIG and the rate limiter before it is sent.

`PROJECT.json` lists every part under `components`, with what is modelled of
it, and every hazard that the models aim at under `hazards`.

## 2. Modules

| module | models |
| --- | --- |
| `Wal` | a WAL as a sequence of items, `Replay`, what `wal.Replay` returns |
| `Store` | the store of a primary: callers, batch worker, compaction loop, reload, close, crash, I/O errors |
| `DurableMap`, `StoreRefinement` | what the store promises its callers, and the mapping from `Store` to it |
| `Replication` | the hub's streams, one replica, and the primary's files between them |
| `Query` | `state.State` and `cache.Cache`: readers, a writer, expiry |
| `Radix` | the copy-on-write tree of names, `Resolve`, and the API's listing |
| `Requests` | updates, queries, DoH and REST requests served side by side: what each may do to the tree |
| `Messages` | a response on the wire: signing, packing, truncation, TSIG, slip, unpacking |
| `RRL` | the rate limiter |
| `ZoneFile` | parsing and exporting zone files |
| `Daemon` | start, failure, SIGHUP and shutdown of the daemon and its servers |
| `MCStore`, `MCReplication`, `MCQuery`, `MCRequests`, `MCDaemon`, `MCDataPlane` | instances for TLC |
| `WalProofs`, `StoreProofs`, `StoreSafety`, `ReplicationProofs`, `QueryProofs`, `RRLProofs`, `RequestsProofs`, `DaemonProofs` | proofs |

The modules meet where one takes for granted what another shows. `Requests`
commits through `Applied` and `FailedCommits`, the outcomes `Store` gives a
single call; `Replication` reduces the primary to its files, which
`AlwaysRecoverable` (section 4) justifies; `Query` has a tree that answers a
key, `Radix` says how; `Store` has a zone file that is the tree it parses to,
`ZoneFile` says how; `RRL` decides that an answer slips, `Messages` what is
sent then.

### Wal

A frame replaces the record set of one domain, so the last frame of a domain
decides what replay leaves: `Replay` is a closed form rather than a fold, which
keeps it within reach of the provers. `Torn` is the beginning of a frame whose
rest did not reach the disk; `Orphan` is the opcode byte that `AppendUpsert`
puts into the buffer before the codec rejects a record set.
`ReplayOutcomes` gives the errors `wal.Replay` may return: the bytes behind a
torn frame are read as its rest, so they run out (`ErrTruncated`) or fail the
checksum; an opcode behind an orphan is read as a domain length above 255.

### Store

| variable | code |
| --- | --- |
| `snap`, `wal`, `synced` | the files `state.snap` and `mutations.wal`, and how much of the latter fsync covered |
| `buf`, `writer` | the `bufio.Writer` of `wal.Writer`, and whether it keeps an error or a closed file |
| `tree` | the tree of `state.State` |
| `mu`, `worker`, `comp`, `reload` | `Store.mu` and where each goroutine stands |
| `queue`, `call` | `mutationCh` and the callers' `done` channels |
| `count`, `token` | `mutationsCount` and `compactCh` |
| `status` | before `Open`, running, `Close` called, `Open` failed |
| `mixed`, `acked`, `maybe` | history: a zone reload stopped half way; what callers were told; frames issued since |

Each function of the code that runs under `Store.mu` is cut into one action for
each moment at which a crash leaves a different disk: `commitBatch` is
`CommitLock`, `ApplyOperation` (one turn of the loop, with the SOA increment),
`CommitFlush`, `CommitReply`; `Compact` is `CompactSave`, `CompactFlush`,
`CompactTruncate`; a reload with a zone file is `ReloadSave`, `ReloadFlush`,
`ReloadTruncate`. `Open` and a reload from disk are one step each, since nothing
else touches the files meanwhile. A snapshot is renamed into place when it is
whole and synced, so a crash before the rename leaves the disk as it was.

Abstractions: a record set is a kind (SOA, CNAME or plain), a body and a serial;
one zone with one apex; the serial is modulo `SerialMod` (2^32 in the code). The
guard of `AppendUpsert` that rejects a record set before its opcode leaves no
trace and is not modelled apart. Read errors, metrics and logging are left out.
A crash keeps every byte fsync covered and any prefix of what came after;
`TornWrites` says whether a frame may be cut in the middle. Renames and
truncations of one directory are assumed to reach the disk in order: the code
does not sync the directory.

### Replication

The hub reads the primary's files without the store's lock, so `Compact` is
three steps (`CompactRename`, `CompactTruncate`, `NotifyCompaction`) and a
commit two (`Append1`, `NotifyFlush`), and each of them may fall between any two
steps of a stream.

| variable | code |
| --- | --- |
| `snap`, `wal`, `tail`, `synced`, `ppc` | the primary's files (`File` is the WAL: its frames, then what follows a torn one), how much is synced, and where its writer stands |
| `behind` | the frames appended behind a torn one since the last start: in the primary's tree, not in what its WAL replays to |
| `gen`, `stream`, `zombies` | `Server.gen`; the handler of the replica's stream (`pc`, `startGen`, `offset`); handlers in `cond.Wait` whose client is gone |
| `rsnap`, `rwal`, `rfile`, `rtree` | the files and the tree of the replica |
| `rpc`, `body`, `carry` | where `sync` stands, the snapshot being downloaded, the part of a frame received so far |
| `reload` | the replica's `ReloadState` after a SIGHUP: snapshot read, WAL replayed, tree swapped |
| `past`, `split`, `outdated` | history: the frames the primary ever held; a session ended inside a frame; a reload put back a tree it had read before |

A handler passes through `Connect` (slot, generation), `OpenStream` (size and
offset, 416), `SendHeader` (checksum, compared by the replica), then the loop
`CheckGeneration`, `ReadWAL`, `AtEOF`, `Wait`. `AtEOF` and `Wait` are two steps
because `NotifyFlush` does not take the lock that a handler holds between them;
`NotifyCompaction` does. A compaction truncates the file that a handler has
open, so its next read finds the new content at the old offset. The reload of a
replica shares no lock with `sync`, so its three steps fall anywhere.

A frame takes two units of a file; `SplitFrames` says whether reads and crashes
may separate them. A crash of the primary keeps what was synced and any part of
the rest; a torn frame stays in the file, is streamed like any other byte, and
what is committed next goes behind it. The next start fails or does not, as
`wal.Replay` takes the bytes behind it (`ppc = "refused"`). Bytes that are no frame make `wal.Replay` fail, or pass for
the beginning of a longer frame: `Receive` allows both. What the hub sends and
what the replica receives is one step: bytes in flight are those not read yet,
or those received already. Two snapshots have the same checksum if and only if
they hold the same tree.

### Query

`Resolve` is three critical sections, `Lookup`, `ReadTree` and `Fill`, with
nothing held between them; `Update` is `Mutate`, `EndMutations` and one
`ClearShard` for each shard, `Swap` the same from a whole tree. A shard
(`cache`) keeps the code's representation: a map from keys to entries and
pointers `next` and `prev` between two sentinels; `lru` is the ideal list it is
compared with. An entry counts its seconds down. `late` and `age` are history:
whether a fill came after a write that changed its answer, and for how long the
tree has not given the answer.

### Radix

Nodes live in a `heap` and refer to each other by address, so sharing between
an old root and a new one is part of the state; `held` is a reader with an old
root, `list` a client that lists all domains page by page. `Upsert` and
`DeleteDomain` rebuild the path as the code does (`Descend`, `DeletePath`,
`Pruned`); `FindEdge` has both searches and their boundary. `Expected` is a
definition of what a query gets that speaks of names and records only, not of
nodes; `Resolve` is compared with it.

### Requests

`work[w]` is what a goroutine does: the UDP loop, a TCP connection, a DoH or an
API request. An update is read, authenticated and classified in one step (none
of it touches shared state), then takes one step for each prerequisite, one for
each operation, which reads the tree when it is the first on its name, and one
for each name it writes. Other requests fall between any
two of these, and every write may fail in one of the three ways in which a call
of the store fails (`FailedCommits`): without effect, with the apex's serial
alone, or with everything in the tree and nothing promised. A MAC is an
injective function of secret, message and TSIG variables; a message that the
parser rejects is a message with that mark. `HandleHTTP` is the order of the
API's wrappers: CORS (which answers OPTIONS only with an origin configured), the
probes, the token, the route; `readyz` depends on whether a replica is in sync.
`BadEntry` lists what `parseRecordEntry` refuses. The data of a record set are a set:
their order is never looked at here, `applyUpdateOp` adds no datum twice and
removes every copy of one, and the API, which keeps the copies it is sent, says
nothing about them.

### Messages

A message is a header and a map from offsets to what starts there (label,
pointer, root, question, record), so compression, truncation and overwriting
after a rollback work on octets, while the content of a label or of record data
is its length. `Resolve`, `Sign`, `Pack`, `Seal`, then `Send` or `Slip` follow
`resolve` and `handleUDPQuery`. `CutAt` is the rollback of a record that does
not fit: the offset goes back, the compression table does not. `Buffer` is the
capacity of the pooled buffer, that of UDP or of TCP, which bounds what `Seal`
may append. Whether a key signs (`signs`) is a choice of `Sign`. The additional
section of a `Result` is never filled by the code and left out.

### RRL

A stream is what `hashKey` hashes: subnet, class, and the name for positive
answers; `Slot` says which streams share a slot. `Half` and `Word` stand for
2^16 and 2^32: tokens and decays wrap there. `New` bounds limits and slip rate
by nothing, and neither does the model; `Fits` says that one can be reached by
a 16-bit counter. `granted`, `silence` and `wrapped`
are history. The clock moves by `Tick` to any second, also backwards.

### ZoneFile

A file is a sequence of lines of tokens. What a token may be taken for is given
by tables (`TTLOf`, `TypeOf`, `NameOf`), in which a token may appear several
times, as `MX` or `10` may be labels. The file is written either by
`FormatZone` or by hand: `OwnerForms` and `Attributes` are the ways in which the
format allows a record to be written, with owners relative, in full, as `@` or
left out, TTL and class in either order or left out, data in parentheses over
several lines. `misread` records that a line was written in one of the two
layouts that the parser takes for another (`Misread`). `ParseLine` is a turn of `parseAll`'s loop.

### Daemon

`run` is where `Run` is, `srv[s]` where the `Start` of a server is, `handler[s]`
one handler at work in it, `serve[s]` where the goroutine of an HTTP server is,
`loop` where the SIGHUP loop is. DoH and hub bind in `Start` (`Listen`) and serve
in a goroutine; the API leaves the bind to its goroutine too (`Launch`,
`ListenAndServe`, `BindAPI`), so `Shutdown` may come before it, between the
bind and `Serve`, or beside its failure. A server may fail to bind, or fail
while it serves; the context is cancelled at any moment; files
change at any moment and may be unreadable. `disk`, `loaded` and `owed` are
versions of the certificate and the zone file: as the operator left them, in
use, and asked for by a signal.

## 3. Runs

| run | shows |
| --- | --- |
| `store_faults` | what callers were told survives any crash, with failing writes, fsyncs, snapshots and reopenings, rejected record sets and an edited zone file; snapshot and WAL always give the live tree; no crash publishes new content under an old serial |
| `store_liveness` | callers are answered, the WAL is compacted, `Close` returns |
| `store_refines_map` | `Store`, with crashes and reloads from disk, implements `DurableMap` |
| `store_torn_tail` | (violation) mutations acknowledged after a recovery from a torn tail are lost by the next `Open` |
| `replica_faults` | with a compaction, cut streams and downloads, crashes that tear frames and a reload, a replica serves only what its primary held; until the first compaction its WAL is a prefix of the primary's; when its stream waits it agrees with the primary; a compaction after which the primary rests heals everything |
| `replica_lost_wakeup` | (violation) a flush between a handler's last look at the file and its wait is not seen until the next one |
| `query_cache` | map and list of a shard stay one LRU list; an answer is out of date by at most its TTL and the time of a query; only a fill that crosses a write can be stale; staleness ends |
| `query_stale_fill` | (violation) a query that read the tree before a write fills the cache after it: the writer does not read its own write |
| `requests` | a refusal means that nothing was written; an update does what each of its operations asks (2.5 of RFC 2136) on names nobody else wrote; the operations of one cut short can be applied again; only entitled requests change the tree |
| `replica_takes_updates` | (violation) a replica with a key ring applies signed updates to its own tree |
| `daemon` | every socket is released, at the latest after `Run` has returned; the store outlives its writers, failures are reported, no SIGHUP is lost, shutdown completes |
| `data_plane` | `RRL`, `Radix`, `Messages` and `ZoneFile`, each in behaviours of its own (`mode`): see below |

The bounds are constants named `Max...`; each counts a kind of event and stops
it. `CHECK_DEADLOCK FALSE` is set where the bounds end every behaviour.

*Store*: two callers, the domains `apex` and `www`, a queue of two, a batch of
at most two and a compaction threshold of two mutations (`store_liveness`: a
queue and a batch of one), so that a batch mixes callers, the queue fills, a
batch triggers a compaction in its middle and the next batch waits for it. In
`store_faults` a behaviour has at most two crashes, faults and reloads
together (`TwoEvents`). `Recoverable` and `AckedSurvives` speak of logs in which
no frame was appended behind damaged bytes (`Undamaged`): `store_torn_tail`
shows what happens otherwise.

*Replication*: two domains and mutations, one compaction, and two events among a
cut connection, crashes of the primary (two: a torn frame, and a start with
bytes behind it), a restart and a reload of the replica
(`MaxEvents`): enough for a stream to break inside a frame and for a handler to
outlive its client. There are more slots than connections that can be cut: a
handler whose client is gone keeps its slot until the next broadcast, and a hub
with a single slot would turn the replica away for as long as the primary rests.

*Query*: two readers, one shard of two entries for three keys and one for a
fourth, TTLs of 0, 1 and 2 seconds, two writes and a query that takes up to a
second: enough for an eviction, an expiry and a late fill of the same entry.

*Requests*: two requests out of about fifty, one failing commit; two trees, one
with a CNAME and one with a set of two records. Two are enough because requests
interact only through the tree, and an update has up to three names.

*Daemon*: a primary and a replica with all their servers, of which two have a
handler at work at once, and a server alone that gets up to three SIGHUPs while
files change three times.

*data_plane*: `RRL` with every stream in one slot, limits 2 (the default, for a configured 0)
and 4 (one that does not fit), tokens that wrap at 4 and decays at 5, so that overflow happens within a clock of four
seconds. `Radix` with seven spellings of six names up to three labels deep, a
wildcard, the root and an upper-case name with a trailing dot among them, three writes or reloads,
a scan of one edge at most (so that both searches run) and pages of one domain.
`Messages` with limits scaled down to 45 (UDP), 90 (EDNS) and 150 (TCP) octets,
every EDNS buffer from 40 to 100 (with TSIG: 40 and 60 to 72), so that a
response is cut at every place, and a compression table of three entries.
`ZoneFile` with listings of up to two records, written in every form, with
labels that are types and numbers: the parser carries only the owner, the origin
and the TTL from one line to the next.

### Disagreements

The four violations are listed in `PROJECT.json` with the sentences they
contradict. Others are in the models; the properties name them as exceptions:

- A change of a name that holds a CNAME leaves the serial of its zone as it was
  (`IncrementsApex`), where `batch_test.go:122` expects an increment.
- A record set the codec rejects leaves its opcode in the buffer, and the
  directory does not open again (`OpenRefused`).
- A replica stopped before its first snapshot arrived does not start again
  (`ReplicaRefused`): a WAL without a snapshot is `ErrUncleanState`.
- A frame whose transfer was cut is in the WAL of the replica and not in its
  tree (`split`), and a replica that met the new snapshot with the old WAL skips
  frames of the next one, until a compaction heals both.
- A signed denial that does not fit may contain a pointer to its own place: the
  NSEC record is rolled back and its owner stays in the compression table
  (`CutAt`), so the RRSIG that follows is written as a pointer to where it
  stands.
- `SignResult` replaces the authority section of every answer without records,
  so a signed referral loses its NS records and becomes authoritative.
- A slipped response to two questions counts both and holds one.
- A relative owner that is a number, as in a reverse zone, is read as a TTL, and
  data that end in the name of a type are rejected (`Misread`), where
  `zone.go:5` says RFC 1035 compliant; data whose text `PackRData` does not accept (NSEC)
  make the whole export unreadable.
- A listing whose cursor is deleted between pages, or whose page ends at the
  root, may miss or repeat names (`list.lost`), where `api/openapi.yaml:177` has
  it go on "strictly after this key".
- Of two updates that read the same name, one may be lost.
- An update is written name by name, and a failed write leaves the first names
  changed (`WriteFails`), where `update.go` (lines 6, 43, 91 and 153) speaks of
  atomic application. Its operations can be applied again (`ReapplyRepairs`);
  sent again, its prerequisites may refuse it.
- `applyUpdateOp` has the operations of RFC 2136, 2.5, and not the rules of
  3.4.2: it adds a record beside a CNAME and a CNAME beside records, and deletes
  the SOA and the last NS of the apex, where `update.go:5` claims accordance
  with the RFC. `Asked` follows the code.
- The TSIG record is appended after the size of the response was bounded, so a
  signed UDP response may be larger than what the client advertised and than the
  1232 octets of `docs/transports.md:20` (`Seal`; `SizeRespected` excepts it).
- The wildcard that answers is the nearest one above the name
  (`docs/radix-tree.md:64`), also across an existing name that is closer; RFC
  4592, which the repository's `README.md:99` cites, takes only the wildcard of
  the closest encloser. `Expected` follows the former.
- A limit or a slip rate of 65536 or more is accepted (`limiter.go:142`, whose comment
  says "validated configuration limits") and never reached by the 16-bit
  counters: nothing is refused, or nothing slips (`Fits`).
- The API's `Start` may return before its goroutine has bound the socket, which
  is then open for a moment after `Run` has returned (`LateBind`); a bind that
  fails while the context is cancelled may go unreported. `api/server.go:224` has
  it listening until the context is cancelled.

### Fairness

Nothing is assumed of what callers, clients and operators do, nor of faults, cuts
and crashes. The
rest is weak fairness of what the scheduler runs:

- `store_liveness`: the steps of each goroutine; strong fairness of taking the
  lock (`sync.RWMutex` does not starve a waiting writer), of `CompactorExit` and
  `CloseEnd` (a `select` that finds the closed context again and again takes it
  at last). A caller that waits in `Upsert` or `DeleteDomain` when the store closes is in a
  `select` of the store's own code (`Abandon`).
- `replica_faults`, `replica_lost_wakeup`: the steps of the primary's writer, the
  handler, the replica and a reload once begun.
- `query_cache`: the clock, the writer's steps once begun, and the steps of a
  query once begun.
- `daemon`: the steps of `Run`, of each `Start` and its goroutine, of the SIGHUP loop and of
  handlers that a deadline or a closed connection ends; strong fairness of
  `LeaveLoop`, whose `select` competes with signals. A stream of the hub has no
  fairness: `Shutdown` gives up on it in time.

## 4. Proofs

### Store

For every set of domains, record sets and callers, every queue, batch and
threshold, and any number of crashes, faults and reloads:

- `TypeCorrect`: `TypeOK`;
- `AlwaysRecoverable`: `Recoverable`;
- `AckedAlwaysSurvives`: `AckedSurvives`;
- `ReplayIdempotent`: replaying a log over what it produced changes nothing.

And, where `Reliable` holds:

- `StoreImplementsDurableMap`: `ImplementsDurableMap`.

Neither property is inductive: a crash keeps any prefix of the unsynced log, so
the invariant must speak of what every such prefix gives. `IInv` is

- `TypeOK`;
- `Control`: who holds the lock is at a step under it, the buffer is empty
  outside a batch, and the snapshot between `CompactSave` and the truncation is
  the tree;
- `Safe`: the tree is acceptable; while the writer works, the whole log takes
  the snapshot to the tree and the tree to itself; and *every* survivor of a
  crash - a prefix of frames that contains what was synced - takes the snapshot
  to an acceptable tree.

`WalProofs` proves the facts about `Replay` (it distributes over concatenation
and is idempotent), `StoreProofs` that each action keeps `TypeOK` and `Control`,
`StoreSafety` that each action keeps `Safe`. The proofs assume `StoreAssumption`
and `NoRRAssumption`, which say that the constants have their types.

`DurableMap` is what the store promises as long as its disk does what it is told.
`Reliable` says just that of the constants: no record set the codec rejects, no
torn or failing write, and no reload where there are zone files to reload (a
zone file replaces the tree without a frame). Callers, batches, compactions,
crashes and reloads of the store's own files stay unbounded. Without `Reliable` the theorem
is false: a batch whose flush failed stays visible and is neither pending nor
durable. `store_refines_map` checks such an instance.

The refinement needs an invariant of its own, `Faultless`: the log and the buffer
are frames, everything in the file is synced outside a commit, and while the
store runs the snapshot with log and buffer gives the tree. `FaultlessStep` goes
through the actions: `Bootstrap` is `Create`, `Open` is `Start`,
`ApplyOperation` is `Mutate`, `CommitFlush` is `Harden`, `CloseEnd` and `Crash`
are `Stop`, and every other step - a compaction at each of its three points, an
answer, a reload - leaves `DurableMap` where it is. That a crash keeps a prefix
of what was pending is `DurablePart`.

### Replication

For every set of domains and record sets, every number of commits, compactions,
cut sessions, crashes with torn frames, restarts and reloads, with frames split
or not:

- `ReplicaInventsNothing`: `NothingInvented`;
- `ReplicaWALIsPrefix`: `LocalWALIsPrefix`;
- `CaughtUpReplicaAgrees`: `CaughtUpAgrees`.

`IInv` is

- `Plain` and `Flags`: the types, without the bounds of the model;
- `Session`: a handler with a client streams from where the replica's WAL ends,
  to a replica that has a snapshot and does not fetch one;
- `Held`: every frame of every file, of every tree and of what is being received
  was the primary's once (`past`). This is what `NothingInvented` needs: the
  replica's tree comes from a snapshot, a WAL, a reload or a stream, so each of
  them must be made of such frames;
- `Follows`: until the primary compacts or crashes there is one snapshot, its WAL
  has no torn frame, and the replica's WAL is a prefix of the primary's (`Prefix`); unless a session ended
  inside a frame, sessions begin at the beginning of one (`Aligned`); unless a
  reload put back an older tree, the tree is what the whole frames of the WAL
  replay to (`Agrees`).

`Prefix` holds of the bytes, `Agrees` of the frames; the step between them is
`Receive`, which completes as many frames as the chunk and what was carried
over hold. The proofs use `ReplicationAssumption` and the facts about `Replay`
of `WalProofs`.

### Query

For every set of keys, number of shards, hash, capacity and TTLs, every choice
of trees, readers and batches, and any number of writes and delay of a query:

- `ShardsAreLRULists`: `ListIsLRU`;
- `CacheStalenessBounded`: `StalenessBounded`;
- `CacheFreshUnlessLate`: `FreshUnlessLate`.

The first half of `QueryProofs` is about one shard and no state: `Rep(s, q)` says
that the map and the pointers of shard `s` are the list of keys `q`. `Unlink` and
`LinkFront` show what `remove` and `pushFront` do to a doubly linked list, and
from them follow `AfterGetRep`, `SetRep` and `DeleteRep`: what each operation of
the cache does to a shard is what it does to the list, and no entry but the one
it is about changes. Eviction takes the last key (`VictimIs`), and a shard that
is not full has a free entry (`UnusedExists`, by counting). The second half shows
that each action keeps `IInv`:

- `Plain`: the types;
- `Asking`: what a query carries between two of its critical sections: a key, an
  answer and how long ago the tree gave it;
- `Lists`: `Rep` of every shard and its ideal list, keys in the shard of their
  hash;
- `Bounded`: the age of a live entry and what is left of its TTL are together no
  more than the TTL and `MaxDelay`: both `Tick` and a fill with an old answer
  keep the sum;
- `Fresh`: a live entry is `late`, or the tree's answer, or in a shard that the
  writer has still to clear (`ToClear`). Without the last case it would not be
  inductive: between a mutation and the clear of a shard every entry may be
  out of date.

The counts of the library's theorems on finite sets are brought in at the end
(`SizesHold`); until then the lemmas that count take them as an assumption.
The proofs use `QueryAssumption`, that the constants have their types and there
is at least one shard.

### RRL

For every set of clients and names, every assignment of streams to slots, every
configuration and any clock (`RateLimited` for the limits, `SlipWorks` for the
slip rates, that a 16-bit counter reaches: `Fits`):

- `RateLimited`: `RateBound`;
- `SlipWorks`: `NeverSilenced`;
- `Recovery`: `IdleRecovers`.

`RateBound` becomes inductive with `BucketBounded` (no bucket above its limit)
and `TokensAccount` (every answer granted is a token still in the bucket or one
that a past second gave back). `NeverSilenced` needs `SilenceCounted`: a stream
that holds its slot was dropped in a row at most as often as its slip counter
says; one that lost its slot is answered when it takes it back. `IInv` is these
and `TypeOK`. `NeverSilenced` and `IdleRecovers` say themselves that they do not
speak of a decay that wrapped at 2^32. The proofs assume `StreamAssumption`,
`WidthAssumption` (the clock and the defaults fit their widths, and the default
limits are positive) and `ConfigAssumption` (configured limits are integers, of
any sign and size).

### Requests

For every key ring, tree, set of requests and number of workers:

- `WritesAreEntitled`: `OnlyEntitledWrites`;
- `RefusalsAreClean`: `RefusedChangesNothing`;
- `NoEmptySets`: `TypeOK`;
- `UpdatesDoWhatIsAsked`: `UpdateApplied`;
- `CutShortUpdatesCanBeReapplied`: `ReapplyRepairs`.

A worker checks who sent a request when it arrives and writes several steps
later. `IInv` carries what was checked to where it is used: a worker on its way
to a write is entitled to it, one that has not reached its writes has written
nothing, and one that answers with a refusal has written nothing either. That
the check establishes entitlement is lemma `ProcessMeansSigned` for TSIG and
`WriteMeansToken` for the API.

An update computes on copies of the names it read while others write the tree.
`UInv` relates the three: before operation `i`, the copy of a name holds what the
operations before it ask of what was read (`Computed`); a name nobody else wrote
holds in the tree what was read until it is written back, what was computed
afterwards, and after a failed write one of the two (`Untouched`); every copy,
and every name of the tree, has no set without data (`Full`). The serial of an
SOA is left out (`Holds`), for every write of the zone increments it. What the
operations ask for is stated record by record (`Asked`: a record is there if it
was or is added and nothing later removes it), not by applying them one after
the other: that both agree is `HeldAfter` and `AskedNext`, and that asking twice
is asking once, on which `CutShortUpdatesCanBeReapplied` rests, is `AskedAgain`.
`RequestsAssumption` says that initial trees have no set without data, that the
records of an update and the entries of an API call are lists, and that the names
in them are names of the model.

### Daemon

For every choice of servers, any number of SIGHUPs, edits and handlers, and
every positive capacity of `errCh`:

- `NoSocketLeaks`: `SocketsReleased`;
- `NoWriterWithoutStore`: `StoreOutlivesWriters`;
- `NoFailureSwallowed`: `FailuresReported`;
- `EverySignalServed`: `NoSignalLost`.

`IInv` adds to the types where servers and signal loop stand at each stage of
`Run` (`Stages`), which of its listeners `dnsserver.Start` has open, and which
socket the goroutine of an HTTP server holds in each of its states (`Sockets`),
that the handler of an API server outlives it only if it failed (`Handlers`),
that a failure is in `errCh` or in a goroutine about to put it there
(`Failures`), and what a turn of the reload loop has still to load (`Signals`).
`DaemonAssumption` says that `errCh` has room for an error and that the
configurations name servers of the daemon. Safety needs no more room than that;
that nobody waits for room is part of `ShutdownCompletes`, which is liveness.

### Only model-checked

Liveness (out of the provers' reach), `NoStaleSerial`, and the properties of
`Radix`, `Messages` and `ZoneFile`. `Radix` and `Messages` are recursive over
trees and octets, which needs induction over data. `NoStaleSerial` does not hold
for every value of the constants: a caller that upserts an SOA may put the old
serial back, and so may a batch of as many operations as there are serials. The
instance of `store_faults` has neither.

## 5. Not modelled

- metrics, logging, pprof: nothing reads them back.
- flags and configuration files: done once, sequentially, before anything runs.
- the presentation formats of record data (`dns/rdata.go`): `ZoneFile` takes
  them as tables; thirty formats of text, without state, are a matter of
  round-trip tests.
- cryptography: signatures and MACs are sizes in `Messages` and injective
  functions in `Requests`.
- the layout of snapshot and WAL records below the unit a checksum covers.
- two replicas that take the last slot of a hub at once; failover between
  primaries and backoff delays of a replica.
- the connection limit of the TCP listener and the framing of HTTP, JSON and
  base64.
- the integration harness under `src/test`.
