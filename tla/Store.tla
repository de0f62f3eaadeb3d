------------------------------- MODULE Store -------------------------------
(***************************************************************************)
(* internal/store of a primary: group commit of mutations into the WAL,    *)
(* the snapshot and its compaction, reload, close, crash and reopen.       *)
(*                                                                         *)
(* Three goroutines share the store: the batch worker, the compaction loop *)
(* and whoever calls ReloadState.  Each holds Store.mu while it touches    *)
(* the files, so its steps under the lock interleave only with the callers *)
(* that enqueue mutations, with readers of the tree, and with a crash:     *)
(* there is one step for each moment at which a crash leaves a different   *)
(* disk.  Compact and ReloadState write the snapshot to a temporary file   *)
(* that is renamed, and that Open removes: before the rename a crash       *)
(* leaves the disk as it was.                                              *)
(***************************************************************************)
EXTENDS Wal

CONSTANTS
  Apex,         \* the domain that holds the zone's SOA
  Inputs,       \* the record sets callers submit
  Oversize,     \* the ones among them that exceed the limits of the codec
  Callers,      \* goroutines that call Upsert and DeleteDomain
  QueueCap,     \* capacity of mutationCh (10000)
  MaxBatch,     \* maxBatchSize (512)
  Threshold,    \* compaction threshold, in mutations
  SerialMod,    \* 2^32 in the code: SOA serials wrap around
  Zones,        \* what the zone file may hold, as trees; {} if none is given
  NoSnap,       \* the snapshot file does not exist
  TornWrites,   \* TRUE if a write may reach the disk in part
  MaxCalls, MaxCrashes, MaxFaults, MaxReloads   \* bounds of the model

ASSUME StoreAssumption ==
  /\ RRs = [kind : {"soa", "cname", "plain"}, body : {rr.body : rr \in Inputs},
            serial : 0..(SerialMod - 1)]
  /\ Apex \in Domains
  /\ Inputs \subseteq RRs
  /\ Oversize \subseteq Inputs
  /\ QueueCap \in Nat \ {0}
  /\ MaxBatch \in Nat \ {0}
  /\ Threshold \in Nat \ {0}
  /\ SerialMod \in Nat \ {0}
  /\ Zones \subseteq Trees
  /\ NoSnap \notin Trees
  /\ TornWrites \in BOOLEAN
  /\ MaxCalls \in Nat /\ MaxCrashes \in Nat /\ MaxFaults \in Nat /\ MaxReloads \in Nat

VARIABLES
  snap,     \* state.snap: a tree, or NoSnap
  wal,      \* mutations.wal, the bytes handed to the operating system
  synced,   \* how many of its items the last successful fsync covered
  buf,      \* the items still in the bufio.Writer
  writer,   \* "ok"; "failed": bufio keeps a write error; "closed" file
  tree,     \* the live radix tree
  status,   \* "down", "up", "closing" (Close was called), "refused" (Open failed)
  mu,       \* who holds Store.mu: "free", "worker", "compact" or "reload"
  queue,    \* mutationCh
  call,     \* what each caller waits for or was told
  worker,   \* the batch worker: [pc, draining, batch, next, failed, flushErr]
  comp,     \* program counter of the compaction loop
  reload,   \* program counter of ReloadState with a zone file
  count,    \* mutationsCount
  token,    \* compactCh holds a token
  mixed,    \* history: a zone reload stopped between snapshot and WAL
  acked,    \* history: the tree when callers were last told of success
  maybe,    \* history: frames issued since, which a crash may or may not keep
  calls, crashes, faults, reloads   \* how much of each bound is used

diskVars == <<snap, wal, synced>>
writerVars == <<buf, writer>>
callerVars == <<queue, call, calls>>
compactVars == <<comp, count, token>>
historyVars == <<mixed, acked, maybe>>
boundVars == <<crashes, faults, reloads>>
vars == <<diskVars, writerVars, tree, status, mu, callerVars, worker,
          compactVars, reload, historyVars, boundVars>>

Mutation == [caller : Callers, d : Domains, rr : Inputs \cup {NoRR}]

IdleWorker == [pc |-> "idle", draining |-> FALSE, batch |-> <<>>,
               next |-> 1, failed |-> 0, flushErr |-> FALSE]

TypeOK ==
  /\ snap \in Trees \cup {NoSnap}
  /\ wal \in Seq(Items) /\ buf \in Seq(Items)
  /\ synced \in 0..Len(wal)
  /\ writer \in {"ok", "failed", "closed"}
  /\ tree \in Trees /\ acked \in Trees
  /\ status \in {"down", "up", "closing", "refused"}
  /\ mu \in {"free", "worker", "compact", "reload"}
  /\ queue \in Seq(Mutation) /\ Len(queue) <= QueueCap
  /\ call \in [Callers -> {"none", "waiting", "ok", "error", "closed", "full"}]
  /\ worker \in [pc : {"idle", "lock", "apply", "flush", "reply", "exited"},
                 draining : BOOLEAN, batch : Seq(Mutation), next : Nat \ {0},
                 failed : Nat, flushErr : BOOLEAN]
  /\ Len(worker.batch) <= MaxBatch
  /\ comp \in {"idle", "lock", "flush", "trunc", "exited"}
  /\ reload \in {"idle", "flush", "trunc"}
  /\ count \in Nat /\ token \in BOOLEAN
  /\ mixed \in BOOLEAN /\ maybe \subseteq Frames
  /\ calls \in Nat /\ crashes \in Nat /\ faults \in Nat /\ reloads \in Nat

Running == status \in {"up", "closing"}

(* The process before Open: nothing in memory, nobody waiting. *)
Init ==
  /\ snap = NoSnap /\ wal = <<>> /\ synced = 0
  /\ buf = <<>> /\ writer = "ok"
  /\ tree = EmptyTree /\ status = "down" /\ mu = "free"
  /\ queue = <<>> /\ call = [c \in Callers |-> "none"] /\ calls = 0
  /\ worker = IdleWorker
  /\ comp = "idle" /\ count = 0 /\ token = FALSE
  /\ reload = "idle"
  /\ mixed = FALSE /\ acked = EmptyTree /\ maybe = {}
  /\ crashes = 0 /\ faults = 0 /\ reloads = 0

-----------------------------------------------------------------------------
(* Opening.                                                                *)

(* Open on an empty directory: bootstrap writes the first snapshot.        *)
Bootstrap ==
  /\ status = "down" /\ snap = NoSnap
  /\ snap' \in (IF Zones = {} THEN {EmptyTree} ELSE Zones)
  /\ acked' = snap'
  /\ UNCHANGED <<wal, synced, writerVars, tree, status, mu, callerVars, worker,
                 compactVars, reload, mixed, maybe, boundVars>>

(* Open with a snapshot: load it, replay the WAL, reopen the WAL for       *)
(* append - after a torn tail too - and start the two goroutines.          *)
Open ==
  /\ status = "down" /\ snap # NoSnap
  /\ \E k \in 0..Len(wal) :
       /\ IsDecodable(wal, k)
       /\ ReplayOutcomes(wal, k) \cap {"ok", "truncated"} # {}
       /\ tree' = Replay(snap, SubSeq(wal, 1, k))
  /\ status' = "up"
  /\ acked' = tree' /\ maybe' = {} /\ mixed' = FALSE
  /\ UNCHANGED <<diskVars, writerVars, mu, callerVars, worker, compactVars,
                 reload, boundVars>>

(* Open returns the replay's error and the daemon exits.                   *)
OpenRefused ==
  /\ status = "down" /\ snap # NoSnap
  /\ \E k \in 0..Len(wal) :
       IsDecodable(wal, k) /\ "corrupt" \in ReplayOutcomes(wal, k)
  /\ status' = "refused"
  /\ UNCHANGED <<diskVars, writerVars, tree, mu, callerVars, worker, compactVars,
                 reload, historyVars, boundVars>>

-----------------------------------------------------------------------------
(* Callers: Upsert and DeleteDomain.                                       *)

(* No mutation of c is still queued or in the batch: every call has a      *)
(* done channel of its own, so an abandoned call is over for its caller.   *)
NoneInFlight(c) ==
  /\ \A i \in 1..Len(queue) : queue[i].caller # c
  /\ \A i \in 1..Len(worker.batch) : worker.batch[i].caller # c

MayCall(c) ==
  Running /\ call[c] # "waiting" /\ NoneInFlight(c) /\ calls < MaxCalls

Enqueue(c, d, rr) ==
  /\ MayCall(c) /\ Len(queue) < QueueCap
  /\ queue' = Append(queue, [caller |-> c, d |-> d, rr |-> rr])
  /\ call' = [call EXCEPT ![c] = "waiting"]
  /\ calls' = calls + 1
  /\ UNCHANGED <<diskVars, writerVars, tree, status, mu, worker, compactVars,
                 reload, historyVars, boundVars>>

(* The 5 s timer fires before there is room, or the context is done: the   *)
(* mutation was never queued.                                              *)
NotEnqueued(c) ==
  /\ MayCall(c)
  /\ \/ Len(queue) = QueueCap /\ call' = [call EXCEPT ![c] = "full"]
     \/ status = "closing" /\ call' = [call EXCEPT ![c] = "closed"]
  /\ calls' = calls + 1
  /\ UNCHANGED <<diskVars, writerVars, tree, status, mu, queue, worker,
                 compactVars, reload, historyVars, boundVars>>

(* The second select sees the closed context before its done channel: the  *)
(* caller is told ErrClosed and the mutation stays where it is.            *)
Abandon(c) ==
  /\ status = "closing" /\ call[c] = "waiting"
  /\ call' = [call EXCEPT ![c] = "closed"]
  /\ UNCHANGED <<diskVars, writerVars, tree, status, mu, queue, calls, worker,
                 compactVars, reload, historyVars, boundVars>>

-----------------------------------------------------------------------------
(* The batch worker.                                                       *)

BatchSize == IF Len(queue) < MaxBatch THEN Len(queue) ELSE MaxBatch

(* batchWorker: take one mutation, then whatever else is queued.  Once the *)
(* context is done, drainMutations does the same until the queue is empty. *)
CollectBatch ==
  /\ Running /\ worker.pc = "idle" /\ queue # <<>>
  /\ \E draining \in {worker.draining, status = "closing"} :
       worker' = [IdleWorker EXCEPT !.pc = "lock", !.draining = draining,
                                    !.batch = SubSeq(queue, 1, BatchSize)]
  /\ queue' = SubSeq(queue, BatchSize + 1, Len(queue))
  /\ UNCHANGED <<diskVars, writerVars, tree, status, mu, call, calls,
                 compactVars, reload, historyVars, boundVars>>

(* drainMutations finds the queue empty and the goroutine ends.            *)
WorkerExit ==
  /\ status = "closing" /\ worker.pc = "idle" /\ queue = <<>>
  /\ worker' = [IdleWorker EXCEPT !.pc = "exited"]
  /\ UNCHANGED <<diskVars, writerVars, tree, status, mu, callerVars,
                 compactVars, reload, historyVars, boundVars>>

CommitLock ==
  /\ Running /\ worker.pc = "lock" /\ mu = "free"
  /\ mu' = "worker"
  /\ worker' = [worker EXCEPT !.pc = "apply"]
  /\ UNCHANGED <<diskVars, writerVars, tree, status, callerVars, compactVars,
                 reload, historyVars, boundVars>>

IsSOA(rr) == rr # NoRR /\ rr.kind = "soa"

IsCNAME(rr) == rr # NoRR /\ rr.kind = "cname"

(* incrementSOASerial *)
IncrementSOASerial(rr) == [rr EXCEPT !.serial = (@ + 1) % SerialMod]

(* autoIncrementSOA finds an apex to increment, unless the domain is one   *)
(* itself or answers Resolve(domain, SOA) with its CNAME and no authority  *)
(* (a delegation, which answers with its own NS, behaves alike).           *)
IncrementsApex(t, op) ==
  /\ ~IsSOA(op.rr)
  /\ op.d # Apex
  /\ IsSOA(t[Apex])
  /\ t[op.d] # NoRR => t[op.d].kind = "plain"

(* The frames autoIncrementSOA appends before the operation's own.         *)
ApexFrames(t, op) ==
  IF IncrementsApex(t, op)
    THEN <<Frame(Apex, IncrementSOASerial(t[Apex]))>>
    ELSE <<>>

OwnFrame(op) ==
  Frame(op.d, IF IsSOA(op.rr) THEN IncrementSOASerial(op.rr) ELSE op.rr)

(* Mutant of Issued: the child's frame goes first. *)
Issued_ChildFirst(t, op) ==
  (IF op.rr \in Oversize THEN <<>> ELSE <<OwnFrame(op)>>) \o ApexFrames(t, op)

(* The frames applyUpsert and applyDelete append, and apply to the tree,   *)
(* in order.  The codec rejects an oversize record set once its opcode     *)
(* byte is in the buffer.                                                  *)
Issued(t, op) ==
  ApexFrames(t, op) \o (IF op.rr \in Oversize THEN <<>> ELSE <<OwnFrame(op)>>)

Appended(t, op) ==
  Issued(t, op) \o (IF op.rr \in Oversize THEN <<Orphan>> ELSE <<>>)

(* The parts of a log that may be on disk when the writes after its first  *)
(* n items are cut short.                                                  *)
Cuts(log, n) ==
  {SubSeq(log, 1, k) : k \in n..Len(log)} \cup
  IF TornWrites
    THEN {Append(SubSeq(log, 1, k), Torn) :
            k \in {j \in n..(Len(log) - 1) : IsFrame(log[j+1])}}
    ELSE {}

LastOfBatch == worker.next = Len(worker.batch)

(* One turn of commitBatch's loop under state.Update.  After an append     *)
(* error the remaining operations are skipped.                             *)
ApplyOperation ==
  /\ worker.pc = "apply" /\ writer # "failed"
  /\ LET op == worker.batch[worker.next]
         rejected == op.rr \in Oversize
     IN  /\ buf' = buf \o Appended(tree, op)
         /\ tree' = Replay(tree, Issued(tree, op))
         /\ maybe' = maybe \cup {Issued(tree, op)[i] : i \in 1..Len(Issued(tree, op))}
         /\ worker' = [worker EXCEPT
              !.next = @ + 1,
              !.failed = IF rejected THEN worker.next ELSE 0,
              !.pc = IF rejected \/ LastOfBatch THEN "flush" ELSE "apply"]
         /\ count' = IF rejected THEN count ELSE count + 1
         /\ token' = (token \/ (~rejected /\ count' >= Threshold))
  /\ UNCHANGED <<diskVars, writer, status, mu, callerVars, comp, reload, mixed,
                 acked, boundVars>>

(* The buffer is full and writing it fails: the frame in hand, the apex's  *)
(* or the operation's own, does not reach the disk as a whole, what was    *)
(* buffered before it may.                                                 *)
ApplyWriteFails ==
  /\ worker.pc = "apply" /\ writer = "ok" /\ faults < MaxFaults
  /\ faults' = faults + 1
  /\ writer' = "failed" /\ buf' = <<>>
  /\ LET op == worker.batch[worker.next]
     IN  \E F \in {<<>>, ApexFrames(tree, op)} :
           /\ wal' \in Cuts(wal \o buf \o F, Len(wal)) \cup
                       (IF TornWrites THEN {Append(wal \o buf \o F, Torn)} ELSE {})
           /\ tree' = Replay(tree, F)
           /\ maybe' = maybe \cup {F[i] : i \in 1..Len(F)}
  /\ worker' = [worker EXCEPT !.failed = worker.next, !.pc = "flush"]
  /\ UNCHANGED <<snap, synced, status, mu, callerVars, compactVars, reload, mixed,
                 acked, crashes, reloads>>

(* The bufio.Writer returns the error it kept: nothing of the batch is     *)
(* appended or applied.                                                    *)
ApplyFails ==
  /\ worker.pc = "apply" /\ writer = "failed"
  /\ worker' = [worker EXCEPT !.failed = worker.next, !.pc = "flush"]
  /\ UNCHANGED <<diskVars, writerVars, tree, status, mu, callerVars,
                 compactVars, reload, historyVars, boundVars>>

(* Mutant of FlushOK: the fsync is forgotten. *)
FlushOK_NoSync ==
  /\ writer = "ok"
  /\ wal' = wal \o buf
  /\ buf' = <<>>
  /\ UNCHANGED <<synced, writer, faults>>

(* wal.Writer.Flush: hand the buffer to the file, then fsync.              *)
FlushOK ==
  /\ writer = "ok"
  /\ wal' = wal \o buf
  /\ synced' = Len(wal')
  /\ buf' = <<>>
  /\ UNCHANGED <<writer, faults>>

(* It fails: in fsync; in a write, and the bufio.Writer keeps the error;   *)
(* because it kept one; or because the file is closed.                     *)
FlushFails ==
  \/ /\ writer = "ok" /\ faults < MaxFaults
     /\ faults' = faults + 1
     /\ buf' = <<>>
     /\ UNCHANGED synced
     /\ \/ wal' = wal \o buf /\ UNCHANGED writer
        \/ /\ buf # <<>>
           /\ wal' \in Cuts(wal \o buf, Len(wal)) \ {wal \o buf}
           /\ writer' = "failed"
  \/ /\ writer # "ok"
     /\ writer' = IF buf = <<>> THEN writer ELSE "failed"
     /\ buf' = <<>>
     /\ UNCHANGED <<wal, synced, faults>>

(* Mutant of CommitFlush: the error of Flush is dropped. *)
CommitFlush_ErrorDropped ==
  /\ worker.pc = "flush"
  /\ FlushOK \/ FlushFails
  /\ worker' = [worker EXCEPT !.pc = "reply"]
  /\ UNCHANGED <<snap, tree, status, mu, callerVars, compactVars, reload,
                 historyVars, crashes, reloads>>

CommitFlush ==
  /\ worker.pc = "flush"
  /\ \/ FlushOK /\ worker' = [worker EXCEPT !.pc = "reply"]
     \/ FlushFails /\ worker' = [worker EXCEPT !.pc = "reply", !.flushErr = TRUE]
  /\ UNCHANGED <<snap, tree, status, mu, callerVars, compactVars, reload,
                 historyVars, crashes, reloads>>

(* What a snapshot of a zone file holds. *)
FramesOf(t) == {Frame(d, t[d]) : d \in Domains}

Succeeded(i) == ~worker.flushErr /\ (worker.failed = 0 \/ i < worker.failed)

(* Mutant of CommitReply: only successes are answered. *)
CommitReply_ErrorsUnanswered ==
  /\ worker.pc = "reply"
  /\ call' = [c \in Callers |->
       IF call[c] = "waiting" /\ \E i \in 1..Len(worker.batch) :
                                   worker.batch[i].caller = c /\ Succeeded(i)
         THEN "ok" ELSE call[c]]
  /\ worker' = IdleWorker
  /\ mu' = "free"
  /\ UNCHANGED <<diskVars, writerVars, tree, status, queue, calls, compactVars,
                 reload, historyVars, boundVars>>

(* The end of commitBatch: answer on every done channel and unlock.  The   *)
(* worker that drained a batch below maxBatchSize ends without looking at  *)
(* the queue again.                                                        *)
CommitReply ==
  /\ worker.pc = "reply"
  /\ call' = [c \in Callers |->
       IF call[c] = "waiting" /\ \E i \in 1..Len(worker.batch) : worker.batch[i].caller = c
         THEN IF \E i \in 1..Len(worker.batch) : worker.batch[i].caller = c /\ Succeeded(i)
                THEN "ok" ELSE "error"
         ELSE call[c]]
  /\ worker' = [IdleWorker EXCEPT
       !.draining = worker.draining,
       !.pc = IF worker.draining /\ Len(worker.batch) < MaxBatch THEN "exited" ELSE "idle"]
  /\ mu' = "free"
  /\ \/ worker.flushErr /\ UNCHANGED historyVars
     \/ /\ ~worker.flushErr
        /\ acked' = tree
        /\ maybe' = IF mixed THEN FramesOf(snap) ELSE {}
        /\ UNCHANGED mixed
  /\ UNCHANGED <<diskVars, writerVars, tree, status, queue, calls, compactVars,
                 reload, boundVars>>

-----------------------------------------------------------------------------
(* The compaction loop.                                                    *)

(* A token on compactCh, or the ticker while there are mutations to drop.  *)
CompactTrigger ==
  /\ Running /\ comp = "idle"
  /\ \/ token /\ token' = FALSE
     \/ count > 0 /\ mu = "free" /\ UNCHANGED token
  /\ comp' = "lock"
  /\ UNCHANGED <<diskVars, writerVars, tree, status, mu, callerVars, worker,
                 count, reload, historyVars, boundVars>>

CompactorExit ==
  /\ status = "closing" /\ comp = "idle"
  /\ comp' = "exited"
  /\ UNCHANGED <<diskVars, writerVars, tree, status, mu, callerVars, worker,
                 count, token, reload, historyVars, boundVars>>

(* Mutant of CompactSave: the snapshot is not written. *)
CompactSave_NoSnapshot ==
  /\ Running /\ comp = "lock" /\ mu = "free"
  /\ mu' = "compact"
  /\ comp' = "flush"
  /\ UNCHANGED <<diskVars, writerVars, tree, status, callerVars, worker, count,
                 token, reload, historyVars, boundVars>>

(* Compact takes the lock and renames the new snapshot into place.         *)
CompactSave ==
  /\ Running /\ comp = "lock" /\ mu = "free"
  /\ mu' = "compact"
  /\ snap' = tree /\ mixed' = FALSE
  /\ comp' = "flush"
  /\ UNCHANGED <<wal, synced, writerVars, tree, status, callerVars, worker,
                 count, token, reload, acked, maybe, boundVars>>

(* The snapshot cannot be written: the temporary file is removed.          *)
CompactSaveFails ==
  /\ Running /\ comp = "lock" /\ mu = "free" /\ faults < MaxFaults
  /\ faults' = faults + 1
  /\ comp' = "idle"
  /\ UNCHANGED <<diskVars, writerVars, tree, status, mu, callerVars, worker,
                 count, token, reload, historyVars, crashes, reloads>>

CompactFlush ==
  /\ comp = "flush"
  /\ \/ FlushOK /\ comp' = "trunc" /\ UNCHANGED mu
     \/ FlushFails /\ comp' = "idle" /\ mu' = "free"
  /\ UNCHANGED <<snap, tree, status, callerVars, worker, count, token, reload,
                 historyVars, crashes, reloads>>

(* Mutant of TruncateOK: the position in the file survives. *)
TruncateOK_OldOffset ==
  /\ wal' = <<>>
  /\ count' = 0
  /\ UNCHANGED <<synced, writer, faults>>

(* Mutant of TruncateOK: mutationsCount is not reset. *)
TruncateOK_CountKept ==
  /\ wal' = <<>> /\ synced' = 0
  /\ UNCHANGED <<count, writer, faults>>

TruncateOK ==
  /\ wal' = <<>> /\ synced' = 0
  /\ count' = 0
  /\ UNCHANGED <<writer, faults>>

(* The old file is closed and cannot be opened again for truncation.       *)
TruncateFails ==
  /\ faults < MaxFaults
  /\ faults' = faults + 1
  /\ writer' = "closed"
  /\ UNCHANGED <<wal, synced, count>>

CompactTruncate ==
  /\ comp = "trunc"
  /\ TruncateOK \/ TruncateFails
  /\ comp' = "idle" /\ mu' = "free"
  /\ UNCHANGED <<snap, buf, tree, status, callerVars, worker, token, reload,
                 historyVars, crashes, reloads>>

-----------------------------------------------------------------------------
(* ReloadState, on SIGHUP.                                                 *)

(* Without a zone file: flush, load the snapshot, replay the WAL, swap.    *)
ReloadFromDisk ==
  /\ Running /\ mu = "free" /\ Zones = {} /\ reloads < MaxReloads
  /\ reloads' = reloads + 1
  /\ \/ FlushFails /\ UNCHANGED <<tree, acked, maybe>>
     \/ /\ FlushOK
        /\ \E k \in 0..Len(wal') :
             /\ IsDecodable(wal', k)
             /\ \/ "corrupt" \in ReplayOutcomes(wal', k) /\ UNCHANGED <<tree, acked, maybe>>
                \/ /\ ReplayOutcomes(wal', k) \cap {"ok", "truncated"} # {}
                   /\ tree' = Replay(snap, SubSeq(wal', 1, k))
                   /\ acked' = tree' /\ maybe' = {}
  /\ UNCHANGED <<snap, status, mu, callerVars, worker, compactVars, reload,
                 mixed, crashes>>

(* With a zone file: its tree becomes the snapshot first ...               *)
ReloadSave ==
  /\ Running /\ mu = "free" /\ reload = "idle"
  /\ reloads < MaxReloads
  /\ reloads' = reloads + 1
  /\ mu' = "reload"
  /\ snap' \in Zones /\ mixed' = TRUE
  /\ maybe' = maybe \cup FramesOf(snap')
  /\ reload' = "flush"
  /\ UNCHANGED <<wal, synced, writerVars, tree, status, callerVars, worker,
                 compactVars, acked, crashes, faults>>

ReloadFlush ==
  /\ reload = "flush"
  /\ \/ FlushOK /\ reload' = "trunc" /\ UNCHANGED mu
     \/ FlushFails /\ reload' = "idle" /\ mu' = "free"
  /\ UNCHANGED <<snap, tree, status, callerVars, worker, compactVars,
                 historyVars, crashes, reloads>>

(* Mutant of ReloadTruncate: the tree is not swapped. *)
ReloadTruncate_TreeKept ==
  /\ reload = "trunc"
  /\ TruncateOK
  /\ mixed' = FALSE
  /\ reload' = "idle" /\ mu' = "free"
  /\ UNCHANGED <<snap, buf, status, callerVars, worker, comp, token, crashes,
                 reloads, tree, acked, maybe>>

(* ... then the WAL is truncated and the tree swapped.                     *)
ReloadTruncate ==
  /\ reload = "trunc"
  /\ \/ TruncateOK /\ tree' = snap /\ acked' = snap /\ maybe' = {} /\ mixed' = FALSE
     \/ TruncateFails /\ UNCHANGED <<tree, historyVars>>
  /\ reload' = "idle" /\ mu' = "free"
  /\ UNCHANGED <<snap, buf, status, callerVars, worker, comp, token, crashes,
                 reloads>>

-----------------------------------------------------------------------------
(* Close and crash.                                                        *)

(* Close cancels the context ...                                           *)
CloseBegin ==
  /\ status = "up"
  /\ status' = "closing"
  /\ UNCHANGED <<diskVars, writerVars, tree, mu, callerVars, worker, compactVars,
                 reload, historyVars, boundVars>>

(* What of the WAL may be on disk after a crash. *)
Written == IF writer = "ok" THEN wal \o buf ELSE wal

(* What a process that ends takes with it: callers hear no more.           *)
ForgetMemory ==
  /\ status' = "down" /\ mu' = "free"
  /\ buf' = <<>> /\ writer' = "ok"
  /\ tree' = EmptyTree
  /\ queue' = <<>> /\ call' = [c \in Callers |-> "none"]
  /\ worker' = IdleWorker
  /\ comp' = "idle" /\ count' = 0 /\ token' = FALSE
  /\ reload' = "idle"
  /\ UNCHANGED <<calls, historyVars, faults, reloads>>

(* Mutant of CloseEnd: it waits for the queue to be empty. *)
CloseEnd_EmptyQueue ==
  /\ status = "closing" /\ mu = "free" /\ queue = <<>>
  /\ worker.pc = "exited" /\ comp = "exited"
  /\ wal' = wal \o buf /\ synced' = Len(wal')
  /\ ForgetMemory
  /\ UNCHANGED <<snap, crashes>>

(* ... and, both goroutines gone, flushes and closes the files.            *)
CloseEnd ==
  /\ status = "closing" /\ mu = "free"
  /\ worker.pc = "exited" /\ comp = "exited"
  /\ wal' = Written
  /\ synced' = Len(wal')
  /\ ForgetMemory
  /\ UNCHANGED <<snap, crashes>>

(* The machine stops: of what fsync did not cover, any part may be lost.   *)
Crash ==
  /\ Running /\ crashes < MaxCrashes
  /\ crashes' = crashes + 1
  /\ wal' \in Cuts(Written, synced)
  /\ synced' = Len(wal')
  /\ ForgetMemory
  /\ UNCHANGED snap

-----------------------------------------------------------------------------
Next ==
  \/ Bootstrap \/ Open \/ OpenRefused
  \/ \E c \in Callers : \E d \in Domains, rr \in Inputs \cup {NoRR} : Enqueue(c, d, rr)
  \/ \E c \in Callers : NotEnqueued(c) \/ Abandon(c)
  \/ CollectBatch \/ WorkerExit \/ CommitLock
  \/ ApplyOperation \/ ApplyWriteFails \/ ApplyFails \/ CommitFlush \/ CommitReply
  \/ CompactTrigger \/ CompactorExit \/ CompactSave \/ CompactSaveFails
  \/ CompactFlush \/ CompactTruncate
  \/ ReloadFromDisk \/ ReloadSave \/ ReloadFlush \/ ReloadTruncate
  \/ CloseBegin \/ CloseEnd \/ Crash

Spec == Init /\ [][Next]_vars

(* The goroutines are scheduled; sync.RWMutex does not starve a writer     *)
(* that waits for it; a select that meets the closed context over and over *)
(* takes it at last.  Callers, signals, faults and crashes owe us nothing. *)
Fairness ==
  /\ WF_vars(Bootstrap \/ Open)
  /\ WF_vars(CollectBatch \/ WorkerExit)
  /\ SF_vars(CommitLock)
  /\ WF_vars(ApplyOperation \/ ApplyWriteFails \/ ApplyFails \/ CommitFlush \/ CommitReply)
  /\ WF_vars(CompactTrigger) /\ SF_vars(CompactorExit)
  /\ SF_vars(CompactSave \/ CompactSaveFails)
  /\ WF_vars(CompactFlush \/ CompactTruncate)
  /\ WF_vars(ReloadFlush \/ ReloadTruncate)
  /\ SF_vars(CloseEnd)
  /\ \A c \in Callers : WF_vars(Abandon(c))

FairSpec == Spec /\ Fairness

-----------------------------------------------------------------------------
(* Properties.                                                             *)

(* Whatever the store is doing - committing, between the rename of a new   *)
(* snapshot and the truncation of the WAL, closing - the snapshot and the  *)
(* WAL replayed over it give the live tree.  (Compact keeps the old WAL    *)
(* until the new snapshot is in place, so replay must be idempotent.)      *)
Recoverable ==
  (Running /\ writer = "ok" /\ ~mixed /\ Undamaged(Written)) =>
    \A k \in 0..Len(Written) :
      IsDecodable(Written, k) => Replay(snap, SubSeq(Written, 1, k)) = tree

(* t holds, for each domain, what callers were told was written, or a      *)
(* value issued later whose caller was told nothing yet, or an error.      *)
Acceptable(t) ==
  \A d \in Domains : t[d] = acked[d] \/ Frame(d, t[d]) \in maybe

(* The tree is read from disk: by Open, or by ReloadState without a zone.  *)
Opens == status = "down" /\ status' = "up"
Reloads == Zones = {} /\ reloads' # reloads

(* After any crash or close Open finds everything callers were told was    *)
(* written (commitBatch answers after Flush), and so does a reload, as     *)
(* long as no frame was appended behind damaged bytes.                     *)
AckedSurvives ==
  [][((Opens \/ Reloads) /\ Undamaged(wal')) => Acceptable(tree')]_vars

(* The same without the reservation: "Callers block until their batch is   *)
(* durably written to disk."                                               *)
AckedDurable == [][Opens => Acceptable(tree')]_vars

(* autoIncrementSOA appends the apex before the changed child: no crash    *)
(* exposes new zone contents under a serial secondaries already have, as   *)
(* long as no write failed and no zone file, which has a serial of its     *)
(* own, was reloaded.  Names with a CNAME are excepted: Resolve does not   *)
(* find their apex.                                                        *)
NoStaleSerial ==
  [][(Opens /\ reloads = 0 /\ faults = 0 /\ Undamaged(wal) /\ IsSOA(acked[Apex]))
      => ((\E d \in Domains : tree'[d] # acked[d] /\ ~IsCNAME(acked[d]))
            => tree'[Apex] # acked[Apex])]_vars

(* Every caller of Upsert and DeleteDomain gets an answer, whatever fails. *)
EveryCallReturns ==
  \A c \in Callers : call[c] = "waiting" ~> call[c] # "waiting"

(* Once mutationsCount reaches the threshold the WAL is compacted, even if *)
(* the first attempt fails and its token is gone; a writer that lost its   *)
(* file stays as it is.                                                    *)
WalIsCompacted ==
  (status = "up" /\ count >= Threshold)
    ~> (count < Threshold \/ status # "up" \/ writer # "ok")

(* Close returns, whatever callers still enqueue while it drains.          *)
CloseCompletes == status = "closing" ~> status = "down"
=============================================================================
