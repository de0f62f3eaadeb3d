---------------------------- MODULE StoreProofs ----------------------------
(***************************************************************************)
(* Types and control of the store: what every step of its goroutines keeps *)
(* true of its memory and of who holds the lock.  And, where no write      *)
(* fails, that each of them is a step of DurableMap or no step of it.      *)
(***************************************************************************)
EXTENDS StoreRefinement, WalProofs

Idle ==
  /\ mu = "free" /\ buf = <<>> /\ writer = "ok" /\ worker = IdleWorker
  /\ comp = "idle" /\ reload = "idle"

(* Who holds the lock is at a step under it, the buffer is empty outside a *)
(* commit, and the files are what each program counter makes of them.      *)
Control ==
  /\ worker.pc \in {"apply", "flush", "reply"} <=> mu = "worker"
  /\ comp \in {"flush", "trunc"} <=> mu = "compact"
  /\ reload \in {"flush", "trunc"} <=> mu = "reload"
  /\ worker.pc \notin {"apply", "flush"} => buf = <<>>
  /\ worker.pc \in {"lock", "apply"} => worker.next \in 1..Len(worker.batch)
  /\ worker.pc = "reply" /\ ~worker.flushErr => writer = "ok" /\ synced = Len(wal)
  /\ ~Running => Idle /\ synced = Len(wal)
  /\ snap = NoSnap => status = "down" /\ wal = <<>>
  /\ comp \in {"flush", "trunc"} => snap = tree

-----------------------------------------------------------------------------
(* Types of what the actions compute.                                      *)

(* What the proofs need of the constants. *)
LEMMA Limits ==
  /\ QueueCap \in Nat \ {0} /\ MaxBatch \in Nat \ {0}
  /\ Zones \subseteq Trees /\ NoSnap \notin Trees
BY Zenon, StoreAssumption

(* What is an item of a log. *)
LEMMA ItemType == Frames \subseteq Items /\ Torn \in Items /\ Orphan \in Items
BY Zenon DEF Items

(* The kinds of items are told apart. *)
LEMMA ItemKinds ==
  /\ \A f \in Frames : IsFrame(f)
  /\ \A x \in Items : IsFrame(x) => x \in Frames
  /\ ~IsFrame(Torn) /\ ~IsFrame(Orphan)
BY DEF Items, Frames, Frame, IsFrame, Torn, Orphan

(* The decodable part of a log is a sequence of frames.                    *)
LEMMA PrefixOfFrames ==
  ASSUME NEW log \in Seq(Items), NEW n \in 0..Len(log),
         \A i \in 1..n : IsFrame(log[i])
  PROVE  /\ SubSeq(log, 1, n) \in Seq(Frames)
         /\ Len(SubSeq(log, 1, n)) = n
         /\ \A i \in 1..n : SubSeq(log, 1, n)[i] = log[i]
<1>1. ASSUME NEW i \in 1..n PROVE log[i] \in Frames
  <2>1. log[i] \in Items
    OBVIOUS
  <2> QED
    BY Zenon, <2>1, ItemKinds
<1>2. /\ SubSeq(log, 1, n) = [i \in 1..n |-> log[i]]
      /\ Len(SubSeq(log, 1, n)) = n
  OBVIOUS
<1>3. SubSeq(log, 1, n) \in Seq(Frames)
  BY <1>1, SubSeqIs
<1> QED
  BY Zenon, <1>2, <1>3

(* An incremented SOA is a record set. *)
LEMMA IncrementType ==
  ASSUME NEW rr \in RRs
  PROVE  IncrementSOASerial(rr) \in RRs
<1>1. /\ RRs = [kind : {"soa", "cname", "plain"}, body : {x.body : x \in Inputs},
                serial : 0..(SerialMod - 1)]
      /\ SerialMod \in Nat \ {0}
  BY Zenon, StoreAssumption
<1>2. (rr.serial + 1) % SerialMod \in 0..(SerialMod - 1)
  BY <1>1
<1> QED
  BY Zenon, <1>1, <1>2 DEF IncrementSOASerial

(* What an operation appends: frames, and the opcode of a rejected upsert. *)
LEMMA IssuedType ==
  ASSUME NEW t \in Trees, NEW op \in Mutation
  PROVE  /\ Issued(t, op) \in Seq(Frames)
         /\ Appended(t, op) \in Seq(Items)
         /\ op.rr \notin Oversize => Appended(t, op) = Issued(t, op)
         /\ op.rr \in Oversize => Appended(t, op) = Append(Issued(t, op), Orphan)
         /\ ApexFrames(t, op) \in Seq(Frames)
<1>1. op.d \in Domains /\ op.rr \in Values /\ Apex \in Domains
  BY Zenon, StoreAssumption DEF Mutation, Values
<1>2. OwnFrame(op) \in Frames
  <2>1. CASE IsSOA(op.rr)
    <3>1. op.rr \in RRs
      BY Zenon, <1>1, <2>1 DEF IsSOA, Values
    <3>2. IncrementSOASerial(op.rr) \in Values
      BY Zenon, <3>1, IncrementType DEF Values
    <3> QED
      BY <1>1, <2>1, <3>2 DEF OwnFrame, Frames
  <2>2. CASE ~IsSOA(op.rr)
    BY <1>1, <2>2 DEF OwnFrame, Frames
  <2> QED
    BY Zenon, <2>1, <2>2
<1>3. ApexFrames(t, op) \in Seq(Frames)
  <2>1. CASE IncrementsApex(t, op)
    <3>1. t[Apex] \in RRs
      BY Zenon, <1>1, <2>1 DEF IncrementsApex, IsSOA, Trees, Values
    <3>2. Frame(Apex, IncrementSOASerial(t[Apex])) \in Frames
      BY <1>1, <3>1, IncrementType DEF Frames, Values
    <3> QED
      BY <2>1, <3>2 DEF ApexFrames
  <2>2. CASE ~IncrementsApex(t, op)
    BY <2>2 DEF ApexFrames
  <2> QED
    BY Zenon, <2>1, <2>2
<1>4. Issued(t, op) \in Seq(Frames)
  BY <1>2, <1>3 DEF Issued
<1>5. Issued(t, op) \in Seq(Items)
  BY Zenon, <1>4, ItemType, SeqWider
<1> HIDE DEF Issued
<1>6. CASE op.rr \in Oversize
  <2>1. Appended(t, op) = Issued(t, op) \o <<Orphan>>
    BY Zenon, <1>6 DEF Appended
  <2>2. Appended(t, op) = Append(Issued(t, op), Orphan)
    BY Zenon, <2>1, <1>5, ItemType, AppendConcat
  <2> QED
    BY <1>3, <1>4, <1>5, <1>6, <2>2, ItemType
<1>7. CASE op.rr \notin Oversize
  <2>1. Appended(t, op) = Issued(t, op) \o <<>>
    BY Zenon, <1>7 DEF Appended
  <2>2. Appended(t, op) = Issued(t, op)
    BY Zenon, <2>1, <1>5, NothingAdded
  <2> QED
    BY Zenon, <1>3, <1>4, <1>5, <1>7, <2>2
<1> QED
  BY Zenon, <1>6, <1>7

(* A cut keeps the first n items, perhaps more, and adds at most a torn    *)
(* frame.                                                                  *)
LEMMA CutsType ==
  ASSUME NEW log \in Seq(Items), NEW n \in 0..Len(log), NEW w \in Cuts(log, n)
  PROVE  /\ w \in Seq(Items)
         /\ \E k \in n..Len(log) :
              /\ k \in 0..Len(log)
              /\ \/ w = SubSeq(log, 1, k) /\ Len(w) = k
                 \/ w = Append(SubSeq(log, 1, k), Torn) /\ Len(w) = k + 1
<1>1. PICK k \in n..Len(log) : w = SubSeq(log, 1, k) \/ w = Append(SubSeq(log, 1, k), Torn)
  <2>1. CASE w \in {SubSeq(log, 1, k) : k \in n..Len(log)}
    BY Zenon, <2>1
  <2>2. CASE w \in {Append(SubSeq(log, 1, k), Torn) :
                      k \in {j \in n..(Len(log) - 1) : IsFrame(log[j+1])}}
    <3>1. PICK k \in n..(Len(log) - 1) : w = Append(SubSeq(log, 1, k), Torn)
      BY Zenon, <2>2
    <3>2. k \in n..Len(log)
      BY ONLY k \in n..(Len(log) - 1), n \in 0..Len(log)
    <3> QED BY Zenon, <3>1, <3>2
  <2> QED
    BY Zenon, <2>1, <2>2 DEF Cuts
<1>2. k \in 0..Len(log) /\ SubSeq(log, 1, k) \in Seq(Items) /\ Len(SubSeq(log, 1, k)) = k
  OBVIOUS
<1> QED
  BY <1>1, <1>2, ItemType

-----------------------------------------------------------------------------
(* Types and control.                                                      *)

TypeDisk ==
  /\ snap \in Trees \cup {NoSnap}
  /\ wal \in Seq(Items) /\ buf \in Seq(Items)
  /\ synced \in 0..Len(wal)
  /\ writer \in {"ok", "failed", "closed"}

TypeTree ==
  /\ tree \in Trees /\ acked \in Trees
  /\ maybe \subseteq Frames

TypeFlags == mixed \in BOOLEAN /\ token \in BOOLEAN

TypeWorker ==
  /\ worker \in [pc : {"idle", "lock", "apply", "flush", "reply", "exited"},
                 draining : BOOLEAN, batch : Seq(Mutation), next : Nat \ {0},
                 failed : Nat, flushErr : BOOLEAN]
  /\ Len(worker.batch) <= MaxBatch

TypeRest ==
  /\ status \in {"down", "up", "closing", "refused"}
  /\ mu \in {"free", "worker", "compact", "reload"}
  /\ queue \in Seq(Mutation) /\ Len(queue) <= QueueCap
  /\ call \in [Callers -> {"none", "waiting", "ok", "error", "closed", "full"}]
  /\ comp \in {"idle", "lock", "flush", "trunc", "exited"}
  /\ reload \in {"idle", "flush", "trunc"}
  /\ count \in Nat
  /\ calls \in Nat /\ crashes \in Nat /\ faults \in Nat /\ reloads \in Nat

(* TypeOK, in parts the provers handle one by one. *)
LEMMA TypeParts ==
  TypeOK <=> TypeDisk /\ TypeTree /\ TypeFlags /\ TypeWorker /\ TypeRest
BY Zenon DEF TypeOK, TypeDisk, TypeTree, TypeFlags, TypeWorker, TypeRest

(* A worker that waits is well typed. *)
LEMMA IdleWorkerType ==
  /\ IdleWorker \in [pc : {"idle", "lock", "apply", "flush", "reply", "exited"},
                     draining : BOOLEAN, batch : Seq(Mutation), next : Nat \ {0},
                     failed : Nat, flushErr : BOOLEAN]
  /\ Len(IdleWorker.batch) = 0
<1>1. <<>> \in Seq(Mutation)
  OBVIOUS
<1> QED
  BY <1>1 DEF IdleWorker

(* The initial state. *)
LEMMA InitTyped == Init => TypeOK /\ Control
<1> SUFFICES ASSUME Init PROVE TypeOK /\ Control
  OBVIOUS
<1> USE DEF Init
<1>1. TypeDisk
  BY DEF TypeDisk
<1>2. TypeTree
  BY Zenon DEF TypeTree, EmptyTree, Trees, Values
<1>3. TypeWorker
  BY IdleWorkerType, Limits DEF TypeWorker
<1>4. TypeRest
  BY Limits DEF TypeRest
<1>5. TypeFlags
  BY Zenon DEF TypeFlags
<1>6. Control
  BY Zenon DEF Control, IdleWorker, Idle, Running
<1> QED
  BY Zenon, <1>1, <1>2, <1>3, <1>4, <1>5, <1>6, TypeParts

(* The trees that Open may start from, and what they hold as frames. *)
LEMMA TreeTypes ==
  /\ EmptyTree \in Trees
  /\ \A t \in Trees : FramesOf(t) \subseteq Frames
BY DEF EmptyTree, Trees, Values, FramesOf, Frames

(* The tree Open and ReloadState read from disk. *)
LEMMA DecodedType ==
  ASSUME NEW log \in Seq(Items), NEW k \in 0..Len(log), IsDecodable(log, k),
         NEW t \in Trees
  PROVE  Replay(t, SubSeq(log, 1, k)) \in Trees
<1>1. SubSeq(log, 1, k) \in Seq(Frames)
  BY Zenon, PrefixOfFrames DEF IsDecodable
<1> QED
  BY <1>1, ReplayType, Zenon

(* What Flush leaves, whether it succeeds or not. *)
LEMMA FlushType ==
  ASSUME wal \in Seq(Items), buf \in Seq(Items), synced \in 0..Len(wal),
         writer \in {"ok", "failed", "closed"}, faults \in Nat,
         FlushOK \/ FlushFails
  PROVE  /\ wal' \in Seq(Items) /\ buf' = <<>> /\ synced' \in 0..Len(wal')
         /\ writer' \in {"ok", "failed", "closed"} /\ faults' \in Nat
<1>1. /\ wal \o buf \in Seq(Items) /\ Len(wal \o buf) = Len(wal) + Len(buf)
      /\ Len(wal) \in 0..Len(wal \o buf) /\ Len(wal \o buf) \in Nat
  OBVIOUS
<1>2. CASE FlushOK
  BY <1>1, <1>2 DEF FlushOK
<1>3. CASE FlushFails
  <2>1. CASE wal' \in Cuts(wal \o buf, Len(wal))
    <3> DEFINE log == wal \o buf
    <3>0. log \in Seq(Items) /\ Len(wal) \in 0..Len(log) /\ wal' \in Cuts(log, Len(wal))
      BY Zenon, <1>1, <2>1
    <3> HIDE DEF log
    <3>1. \E k \in Len(wal)..Len(log) : Len(wal') = k \/ Len(wal') = k + 1
      BY <3>0, CutsType
    <3>2. wal' \in Seq(Items)
      BY Zenon, <3>0, CutsType
    <3> QED
      BY <1>1, <1>3, <3>1, <3>2 DEF FlushFails
  <2>2. CASE wal' = wal \o buf
    BY <1>1, <1>3, <2>2 DEF FlushFails
  <2>3. CASE wal' = wal
    BY <1>3, <2>3 DEF FlushFails
  <2> QED
    BY Zenon, <1>3, <2>1, <2>2, <2>3 DEF FlushFails
<1> QED
  BY Zenon, <1>2, <1>3

(* What the truncation of the WAL leaves. *)
LEMMA TruncateType ==
  ASSUME wal \in Seq(Items), synced \in 0..Len(wal), count \in Nat,
         writer \in {"ok", "failed", "closed"}, faults \in Nat,
         TruncateOK \/ TruncateFails
  PROVE  /\ wal' \in Seq(Items) /\ synced' \in 0..Len(wal') /\ count' \in Nat
         /\ writer' \in {"ok", "failed", "closed"} /\ faults' \in Nat
<1>1. CASE TruncateOK
  BY <1>1 DEF TruncateOK
<1>2. CASE TruncateFails
  BY <1>2 DEF TruncateFails
<1> QED
  BY Zenon, <1>1, <1>2

(* A process that ended leaves a memory of the right types. *)
LEMMA ForgetType ==
  ASSUME TypeOK, ForgetMemory, crashes' \in Nat,
         snap' = snap, wal' \in Seq(Items), synced' = Len(wal')
  PROVE  TypeOK'
<1>0. TypeTree /\ TypeFlags /\ TypeRest /\ TypeDisk
  BY Zenon, TypeParts
<1> USE DEF ForgetMemory, historyVars
<1>1. TypeDisk'
  BY <1>0 DEF TypeDisk
<1>2. TypeTree'
  BY Zenon, <1>0, TreeTypes DEF TypeTree
<1>3. TypeFlags'
  BY <1>0, Zenon DEF TypeFlags
<1>4. TypeWorker'
  BY IdleWorkerType, Limits DEF TypeWorker
<1>5. TypeRest'
  BY <1>0, Limits DEF TypeRest
<1> QED
  BY Zenon, <1>1, <1>2, <1>3, <1>4, <1>5 DEF TypeOK, TypeDisk, TypeTree, TypeFlags, TypeWorker, TypeRest

(* What was written of the WAL extends what is in the file. *)
LEMMA WrittenType ==
  ASSUME TypeDisk
  PROVE  /\ Written \in Seq(Items) /\ Len(Written) \in Nat
         /\ Len(wal) <= Len(Written) /\ synced \in 0..Len(Written)
         /\ \A i \in 1..Len(wal) : Written[i] = wal[i]
<1>1. CASE writer = "ok"
  BY <1>1 DEF TypeDisk, Written
<1>2. CASE writer # "ok"
  BY <1>2 DEF TypeDisk, Written
<1> QED
  BY Zenon, <1>1, <1>2

(* What a failed write in the middle of a batch leaves: of the log, a cut; *)
(* of the operation, its apex at most.                                     *)
LEMMA WriteFailsType ==
  ASSUME TypeOK, Control, ApplyWriteFails
  PROVE  \E F \in Seq(Frames) :
           /\ wal \o buf \o F \in Seq(Items)
           /\ Len(wal) \in 0..Len(wal \o buf \o F)
           /\ wal \o buf \in Seq(Items) /\ Len(wal) \in 0..Len(wal \o buf)
           /\ \/ wal' \in Cuts(wal \o buf \o F, Len(wal))
              \/ wal' = Append(wal \o buf \o F, Torn)
           /\ tree' = Replay(tree, F)
           /\ maybe' = maybe \cup {F[i] : i \in 1..Len(F)}
<1> DEFINE op == worker.batch[worker.next]
<1>0. TypeDisk /\ TypeTree /\ TypeWorker
  BY Zenon, TypeParts
<1>1. op \in Mutation
  BY <1>0 DEF ApplyWriteFails, Control, TypeWorker
<1>2. ApexFrames(tree, op) \in Seq(Frames) /\ <<>> \in Seq(Frames)
  BY <1>0, <1>1, IssuedType DEF TypeTree
<1>3. PICK F \in {<<>>, ApexFrames(tree, op)} :
        /\ wal' \in Cuts(wal \o buf \o F, Len(wal)) \cup
                    (IF TornWrites THEN {Append(wal \o buf \o F, Torn)} ELSE {})
        /\ tree' = Replay(tree, F)
        /\ maybe' = maybe \cup {F[i] : i \in 1..Len(F)}
  BY Zenon DEF ApplyWriteFails
<1> HIDE DEF op
<1>4. F \in Seq(Frames) /\ F \in Seq(Items)
  BY <1>2, <1>3, ItemType, SeqWider, Zenon
<1>5. wal \o buf \in Seq(Items) /\ Len(wal) \in 0..Len(wal \o buf)
  BY <1>0 DEF TypeDisk
<1>6. wal \o buf \o F \in Seq(Items) /\ Len(wal) \in 0..Len(wal \o buf \o F)
  BY <1>0, <1>4, <1>5 DEF TypeDisk
<1>7. wal' \in Cuts(wal \o buf \o F, Len(wal)) \/ wal' = Append(wal \o buf \o F, Torn)
  BY Zenon, <1>3
<1> QED
  BY Zenon, <1>3, <1>4, <1>5, <1>6, <1>7

(* Every step keeps the types. *)
LEMMA TypeStep ==
  ASSUME TypeOK, Control, Next
  PROVE  TypeOK'
<1>0. TypeDisk /\ TypeTree /\ TypeFlags /\ TypeWorker /\ TypeRest
  BY Zenon, TypeParts
<1> USE DEF diskVars, writerVars, callerVars, compactVars, historyVars, boundVars
<1>1. CASE Bootstrap
  <2>1. TypeDisk'
    BY Zenon, <1>0, <1>1, Limits, TreeTypes DEF Bootstrap, TypeDisk
  <2>2. TypeTree'
    BY Zenon, <1>0, <1>1, Limits, TreeTypes DEF Bootstrap, TypeTree
  <2>3. TypeFlags'
    BY Zenon, <1>0, <1>1 DEF Bootstrap, TypeFlags
  <2>4. TypeWorker'
    BY Zenon, <1>0, <1>1 DEF Bootstrap, TypeWorker
  <2>5. TypeRest'
    BY <1>0, <1>1 DEF Bootstrap, TypeRest
  <2> QED
    BY <2>1, <2>2, <2>3, <2>4, <2>5, Zenon DEF TypeOK, TypeDisk, TypeTree, TypeFlags, TypeWorker, TypeRest
<1>2. CASE Open
  <2>1. TypeDisk'
    BY Zenon, <1>0, <1>2 DEF Open, TypeDisk
  <2>2. TypeTree'
    <3>1. PICK k \in 0..Len(wal) : IsDecodable(wal, k) /\ tree' = Replay(snap, SubSeq(wal, 1, k))
      BY Zenon, <1>2 DEF Open
    <3>2. tree' \in Trees
      BY Zenon, <1>0, <1>2, <3>1, DecodedType DEF Open, TypeDisk
    <3> QED
      BY Zenon, <1>2, <3>2 DEF Open, TypeTree
  <2>3. TypeFlags'
    BY <1>0, <1>2, Zenon DEF Open, TypeFlags
  <2>4. TypeWorker'
    BY Zenon, <1>0, <1>2 DEF Open, TypeWorker
  <2>5. TypeRest'
    BY Zenon, <1>0, <1>2 DEF Open, TypeRest
  <2> QED
    BY <2>1, <2>2, <2>3, <2>4, <2>5, Zenon DEF TypeOK, TypeDisk, TypeTree, TypeFlags, TypeWorker, TypeRest
<1>3. CASE OpenRefused
  <2>1. TypeDisk'
    BY Zenon, <1>0, <1>3 DEF OpenRefused, TypeDisk
  <2>2. TypeTree'
    BY Zenon, <1>0, <1>3 DEF OpenRefused, TypeTree
  <2>3. TypeFlags'
    BY Zenon, <1>0, <1>3 DEF OpenRefused, TypeFlags
  <2>4. TypeWorker'
    BY Zenon, <1>0, <1>3 DEF OpenRefused, TypeWorker
  <2>5. TypeRest'
    BY <1>0, <1>3 DEF OpenRefused, TypeRest
  <2> QED
    BY <2>1, <2>2, <2>3, <2>4, <2>5, Zenon DEF TypeOK, TypeDisk, TypeTree, TypeFlags, TypeWorker, TypeRest
<1>4. CASE CollectBatch
  <2>1. TypeDisk'
    BY Zenon, <1>0, <1>4 DEF CollectBatch, TypeDisk
  <2>2. TypeTree'
    BY Zenon, <1>0, <1>4 DEF CollectBatch, TypeTree
  <2>3. TypeFlags'
    BY Zenon, <1>0, <1>4 DEF CollectBatch, TypeFlags
  <2>4. TypeWorker'
    <3>1. BatchSize \in 1..Len(queue) /\ BatchSize <= MaxBatch
      BY <1>0, <1>4, Limits DEF CollectBatch, BatchSize, TypeRest
    <3>2. SubSeq(queue, 1, BatchSize) \in Seq(Mutation) /\ Len(SubSeq(queue, 1, BatchSize)) = BatchSize
      BY <1>0, <3>1 DEF TypeRest
    <3>3. PICK draining \in {worker.draining, status = "closing"} :
            worker' = [IdleWorker EXCEPT !.pc = "lock", !.draining = draining,
                                         !.batch = SubSeq(queue, 1, BatchSize)]
      BY <1>4, Zenon DEF CollectBatch
    <3>4. draining \in BOOLEAN
      BY <1>0, Zenon DEF TypeWorker
    <3> HIDE DEF BatchSize
    <3>5. worker' = [pc |-> "lock", draining |-> draining, batch |-> SubSeq(queue, 1, BatchSize),
                     next |-> 1, failed |-> 0, flushErr |-> FALSE]
      BY <3>3, Zenon DEF IdleWorker
    <3> QED
      BY <3>1, <3>2, <3>4, <3>5 DEF TypeWorker
  <2>5. TypeRest'
    <3>1. BatchSize \in 1..Len(queue)
      BY <1>0, <1>4, Limits DEF CollectBatch, BatchSize, TypeRest
    <3>2. /\ SubSeq(queue, BatchSize + 1, Len(queue)) \in Seq(Mutation)
          /\ Len(SubSeq(queue, BatchSize + 1, Len(queue))) <= QueueCap
      BY <1>0, <3>1, Limits DEF TypeRest
    <3> HIDE DEF BatchSize
    <3> QED
      BY Zenon, <1>0, <1>4, <3>2 DEF CollectBatch, TypeRest
  <2> QED
    BY <2>1, <2>2, <2>3, <2>4, <2>5, Zenon DEF TypeOK, TypeDisk, TypeTree, TypeFlags, TypeWorker, TypeRest
<1>5. CASE WorkerExit
  <2>1. TypeDisk'
    BY Zenon, <1>0, <1>5 DEF WorkerExit, TypeDisk
  <2>2. TypeTree'
    BY Zenon, <1>0, <1>5 DEF WorkerExit, TypeTree
  <2>3. TypeFlags'
    BY Zenon, <1>0, <1>5 DEF WorkerExit, TypeFlags
  <2>4. TypeWorker'
    <3>1. worker' = [pc |-> "exited", draining |-> FALSE, batch |-> <<>>,
                     next |-> 1, failed |-> 0, flushErr |-> FALSE]
      BY <1>5, Zenon DEF WorkerExit, IdleWorker
    <3> QED
      BY <3>1, Limits DEF TypeWorker
  <2>5. TypeRest'
    BY <1>0, <1>5 DEF WorkerExit, TypeRest
  <2> QED
    BY <2>1, <2>2, <2>3, <2>4, <2>5, Zenon DEF TypeOK, TypeDisk, TypeTree, TypeFlags, TypeWorker, TypeRest
<1>6. CASE CommitLock
  <2>1. TypeDisk'
    BY Zenon, <1>0, <1>6 DEF CommitLock, TypeDisk
  <2>2. TypeTree'
    BY Zenon, <1>0, <1>6 DEF CommitLock, TypeTree
  <2>3. TypeFlags'
    BY Zenon, <1>0, <1>6 DEF CommitLock, TypeFlags
  <2>4. TypeWorker'
    BY Zenon, <1>0, <1>6 DEF CommitLock, TypeWorker
  <2>5. TypeRest'
    BY Zenon, <1>0, <1>6 DEF CommitLock, TypeRest
  <2> QED
    BY <2>1, <2>2, <2>3, <2>4, <2>5, Zenon DEF TypeOK, TypeDisk, TypeTree, TypeFlags, TypeWorker, TypeRest
<1>7. CASE ApplyOperation
  <2>1. TypeDisk'
    <3> DEFINE op == worker.batch[worker.next]
    <3>1. op \in Mutation
      BY <1>0, <1>7 DEF ApplyOperation, Control, TypeWorker
    <3>2. Appended(tree, op) \in Seq(Items)
      BY Zenon, <1>0, <3>1, IssuedType DEF TypeTree
    <3>3. buf' = buf \o Appended(tree, op)
      BY Zenon, <1>7 DEF ApplyOperation
    <3> HIDE DEF op
    <3> QED
      BY <1>0, <1>7, <3>2, <3>3 DEF ApplyOperation, TypeDisk
  <2>2. TypeTree'
    <3> DEFINE op == worker.batch[worker.next]
    <3>1. op \in Mutation
      BY <1>0, <1>7 DEF ApplyOperation, Control, TypeWorker
    <3>2. Issued(tree, op) \in Seq(Frames)
      BY Zenon, <1>0, <3>1, IssuedType DEF TypeTree
    <3>3. /\ tree' = Replay(tree, Issued(tree, op))
          /\ maybe' = maybe \cup {Issued(tree, op)[i] : i \in 1..Len(Issued(tree, op))}
          /\ acked' = acked
      BY Zenon, <1>7 DEF ApplyOperation
    <3> HIDE DEF op
    <3>4. tree' \in Trees
      BY Zenon, <1>0, <3>2, <3>3, ReplayType DEF TypeTree
    <3>5. maybe' \subseteq Frames
      BY <1>0, <3>2, <3>3 DEF TypeTree
    <3> QED
      BY Zenon, <1>0, <3>3, <3>4, <3>5 DEF TypeTree
  <2>3. TypeFlags'
    BY Zenon, <1>0, <1>7 DEF ApplyOperation, TypeFlags
  <2>4. TypeWorker'
    <3>1. PICK p \in {"apply", "flush"}, f \in Nat :
            worker' = [worker EXCEPT !.next = @ + 1, !.failed = f, !.pc = p]
      BY <1>0, <1>7, Zenon DEF ApplyOperation, TypeWorker
    <3>2. worker.next + 1 \in Nat \ {0}
      BY <1>0 DEF TypeWorker
    <3> DEFINE n == worker.next + 1
    <3>3. worker' = [worker EXCEPT !.next = n, !.failed = f, !.pc = p] /\ n \in Nat \ {0}
      BY Zenon, <3>1, <3>2
    <3> HIDE DEF n
    <3> QED
      BY <1>0, <3>3, Zenon DEF TypeWorker
  <2>5. TypeRest'
    BY <1>0, <1>7 DEF ApplyOperation, TypeRest
  <2> QED
    BY <2>1, <2>2, <2>3, <2>4, <2>5, Zenon DEF TypeOK, TypeDisk, TypeTree, TypeFlags, TypeWorker, TypeRest
<1>8. CASE ApplyFails
  <2>1. TypeDisk'
    BY Zenon, <1>0, <1>8 DEF ApplyFails, TypeDisk
  <2>2. TypeTree'
    BY Zenon, <1>0, <1>8 DEF ApplyFails, TypeTree
  <2>3. TypeFlags'
    BY Zenon, <1>0, <1>8 DEF ApplyFails, TypeFlags
  <2>4. TypeWorker'
    BY <1>0, <1>8, Zenon DEF ApplyFails, TypeWorker
  <2>5. TypeRest'
    BY <1>0, <1>8 DEF ApplyFails, TypeRest
  <2> QED
    BY <2>1, <2>2, <2>3, <2>4, <2>5, Zenon DEF TypeOK, TypeDisk, TypeTree, TypeFlags, TypeWorker, TypeRest
<1>9. CASE CommitFlush
  <2>1. TypeDisk'
    <3>1. FlushOK \/ FlushFails
      BY Zenon, <1>9 DEF CommitFlush
    <3>2. /\ wal' \in Seq(Items) /\ buf' = <<>> /\ synced' \in 0..Len(wal')
          /\ writer' \in {"ok", "failed", "closed"}
      BY Zenon, <1>0, <3>1, FlushType DEF TypeDisk, TypeRest
    <3> QED
      BY <1>0, <1>9, <3>2 DEF CommitFlush, TypeDisk
  <2>2. TypeTree'
    BY Zenon, <1>0, <1>9 DEF CommitFlush, TypeTree
  <2>3. TypeFlags'
    BY Zenon, <1>0, <1>9 DEF CommitFlush, TypeFlags
  <2>4. TypeWorker'
    BY <1>0, <1>9, Zenon DEF CommitFlush, TypeWorker
  <2>5. TypeRest'
    <3>1. FlushOK \/ FlushFails
      BY <1>9 DEF CommitFlush
    <3>2. faults' \in Nat
      BY <1>0, <3>1, FlushType DEF TypeDisk, TypeRest
    <3> QED
      BY Zenon, <1>0, <1>9, <3>2 DEF CommitFlush, TypeRest
  <2> QED
    BY <2>1, <2>2, <2>3, <2>4, <2>5, Zenon DEF TypeOK, TypeDisk, TypeTree, TypeFlags, TypeWorker, TypeRest
<1>10. CASE CommitReply
  <2>1. TypeDisk'
    BY Zenon, <1>0, <1>10 DEF CommitReply, TypeDisk
  <2>2. TypeTree'
    <3>1. FramesOf(snap) \subseteq Frames
      BY Zenon, <1>0, <1>10, TreeTypes DEF CommitReply, Control, Idle, IdleWorker, Running, TypeDisk
    <3> QED
      BY Zenon, <1>0, <1>10, <3>1 DEF CommitReply, TypeTree
  <2>3. TypeFlags'
    BY Zenon, <1>0, <1>10 DEF CommitReply, TypeFlags
  <2>4. TypeWorker'
    <3>1. PICK p \in {"idle", "exited"} :
            worker' = [IdleWorker EXCEPT !.draining = worker.draining, !.pc = p]
      BY <1>10, Zenon DEF CommitReply
    <3>2. worker' = [pc |-> p, draining |-> worker.draining, batch |-> <<>>,
                     next |-> 1, failed |-> 0, flushErr |-> FALSE]
      BY <3>1, Zenon DEF IdleWorker
    <3>3. worker.draining \in BOOLEAN
      BY Zenon, <1>0 DEF TypeWorker
    <3> QED
      BY <3>2, <3>3, Limits DEF TypeWorker
  <2>5. TypeRest'
    BY Zenon, <1>0, <1>10 DEF CommitReply, TypeRest
  <2> QED
    BY <2>1, <2>2, <2>3, <2>4, <2>5, Zenon DEF TypeOK, TypeDisk, TypeTree, TypeFlags, TypeWorker, TypeRest
<1>11. CASE CompactTrigger
  <2>1. TypeDisk'
    BY Zenon, <1>0, <1>11 DEF CompactTrigger, TypeDisk
  <2>2. TypeTree'
    BY Zenon, <1>0, <1>11 DEF CompactTrigger, TypeTree
  <2>3. TypeFlags'
    BY <1>0, <1>11, Zenon DEF CompactTrigger, TypeFlags
  <2>4. TypeWorker'
    BY Zenon, <1>0, <1>11 DEF CompactTrigger, TypeWorker
  <2>5. TypeRest'
    BY Zenon, <1>0, <1>11 DEF CompactTrigger, TypeRest
  <2> QED
    BY <2>1, <2>2, <2>3, <2>4, <2>5, Zenon DEF TypeOK, TypeDisk, TypeTree, TypeFlags, TypeWorker, TypeRest
<1>12. CASE CompactorExit
  <2>1. TypeDisk'
    BY Zenon, <1>0, <1>12 DEF CompactorExit, TypeDisk
  <2>2. TypeTree'
    BY Zenon, <1>0, <1>12 DEF CompactorExit, TypeTree
  <2>3. TypeFlags'
    BY Zenon, <1>0, <1>12 DEF CompactorExit, TypeFlags
  <2>4. TypeWorker'
    BY Zenon, <1>0, <1>12 DEF CompactorExit, TypeWorker
  <2>5. TypeRest'
    BY <1>0, <1>12 DEF CompactorExit, TypeRest
  <2> QED
    BY <2>1, <2>2, <2>3, <2>4, <2>5, Zenon DEF TypeOK, TypeDisk, TypeTree, TypeFlags, TypeWorker, TypeRest
<1>13. CASE CompactSave
  <2>1. TypeDisk'
    BY Zenon, <1>0, <1>13 DEF CompactSave, TypeDisk, TypeTree
  <2>2. TypeTree'
    BY Zenon, <1>0, <1>13 DEF CompactSave, TypeTree
  <2>3. TypeFlags'
    BY <1>0, <1>13, Zenon DEF CompactSave, TypeFlags
  <2>4. TypeWorker'
    BY Zenon, <1>0, <1>13 DEF CompactSave, TypeWorker
  <2>5. TypeRest'
    BY <1>0, <1>13 DEF CompactSave, TypeRest
  <2> QED
    BY <2>1, <2>2, <2>3, <2>4, <2>5, Zenon DEF TypeOK, TypeDisk, TypeTree, TypeFlags, TypeWorker, TypeRest
<1>14. CASE CompactSaveFails
  <2>1. TypeDisk'
    BY Zenon, <1>0, <1>14 DEF CompactSaveFails, TypeDisk
  <2>2. TypeTree'
    BY Zenon, <1>0, <1>14 DEF CompactSaveFails, TypeTree
  <2>3. TypeFlags'
    BY Zenon, <1>0, <1>14 DEF CompactSaveFails, TypeFlags
  <2>4. TypeWorker'
    BY Zenon, <1>0, <1>14 DEF CompactSaveFails, TypeWorker
  <2>5. TypeRest'
    BY <1>0, <1>14 DEF CompactSaveFails, TypeRest
  <2> QED
    BY <2>1, <2>2, <2>3, <2>4, <2>5, Zenon DEF TypeOK, TypeDisk, TypeTree, TypeFlags, TypeWorker, TypeRest
<1>15. CASE CompactFlush
  <2>1. TypeDisk'
    <3>1. FlushOK \/ FlushFails
      BY Zenon, <1>15 DEF CompactFlush
    <3>2. /\ wal' \in Seq(Items) /\ buf' = <<>> /\ synced' \in 0..Len(wal')
          /\ writer' \in {"ok", "failed", "closed"}
      BY <1>0, <3>1, FlushType DEF TypeDisk, TypeRest
    <3> QED
      BY <1>0, <1>15, <3>2 DEF CompactFlush, TypeDisk
  <2>2. TypeTree'
    BY Zenon, <1>0, <1>15 DEF CompactFlush, TypeTree
  <2>3. TypeFlags'
    BY Zenon, <1>0, <1>15 DEF CompactFlush, TypeFlags
  <2>4. TypeWorker'
    BY Zenon, <1>0, <1>15 DEF CompactFlush, TypeWorker
  <2>5. TypeRest'
    <3>1. FlushOK \/ FlushFails
      BY <1>15 DEF CompactFlush
    <3>2. faults' \in Nat
      BY <1>0, <3>1, FlushType DEF TypeDisk, TypeRest
    <3> QED
      BY <1>0, <1>15, <3>2 DEF CompactFlush, TypeRest
  <2> QED
    BY <2>1, <2>2, <2>3, <2>4, <2>5, Zenon DEF TypeOK, TypeDisk, TypeTree, TypeFlags, TypeWorker, TypeRest
<1>16. CASE CompactTruncate
  <2>1. TypeDisk'
    <3>1. TruncateOK \/ TruncateFails
      BY Zenon, <1>16 DEF CompactTruncate
    <3>2. /\ wal' \in Seq(Items) /\ synced' \in 0..Len(wal')
          /\ writer' \in {"ok", "failed", "closed"}
      BY Zenon, <1>0, <3>1, TruncateType DEF TypeDisk, TypeRest
    <3> QED
      BY Zenon, <1>0, <1>16, <3>2 DEF CompactTruncate, TypeDisk
  <2>2. TypeTree'
    BY Zenon, <1>0, <1>16 DEF CompactTruncate, TypeTree
  <2>3. TypeFlags'
    BY Zenon, <1>0, <1>16 DEF CompactTruncate, TypeFlags
  <2>4. TypeWorker'
    BY Zenon, <1>0, <1>16 DEF CompactTruncate, TypeWorker
  <2>5. TypeRest'
    <3>1. TruncateOK \/ TruncateFails
      BY <1>16 DEF CompactTruncate
    <3>2. faults' \in Nat /\ count' \in Nat
      BY Zenon, <1>0, <3>1, TruncateType DEF TypeDisk, TypeRest
    <3> QED
      BY Zenon, <1>0, <1>16, <3>2 DEF CompactTruncate, TypeRest
  <2> QED
    BY <2>1, <2>2, <2>3, <2>4, <2>5, Zenon DEF TypeOK, TypeDisk, TypeTree, TypeFlags, TypeWorker, TypeRest
<1>17. CASE ReloadFromDisk
  <2>1. TypeDisk'
    <3>1. FlushOK \/ FlushFails
      BY Zenon, <1>17 DEF ReloadFromDisk
    <3>2. /\ wal' \in Seq(Items) /\ buf' = <<>> /\ synced' \in 0..Len(wal')
          /\ writer' \in {"ok", "failed", "closed"}
      BY <1>0, <3>1, FlushType DEF TypeDisk, TypeRest
    <3> QED
      BY <1>0, <1>17, <3>2 DEF ReloadFromDisk, TypeDisk
  <2>2. TypeTree'
    <3>1. CASE UNCHANGED <<tree, acked, maybe>>
      BY Zenon, <1>0, <3>1 DEF TypeTree
    <3>2. CASE ~ UNCHANGED <<tree, acked, maybe>>
      <4>1. PICK k \in 0..Len(wal') :
              /\ FlushOK /\ IsDecodable(wal', k)
              /\ tree' = Replay(snap, SubSeq(wal', 1, k))
              /\ acked' = tree' /\ maybe' = {}
        BY Zenon, <1>17, <3>2 DEF ReloadFromDisk
      <4>2. wal' \in Seq(Items)
        BY Zenon, <1>0, <4>1, FlushType DEF TypeDisk, TypeRest
      <4>3. snap \in Trees
        BY Zenon, <1>0, <1>17 DEF ReloadFromDisk, Running, Control, TypeDisk
      <4>4. tree' \in Trees
        BY Zenon, <4>1, <4>2, <4>3, DecodedType
      <4> QED
        BY Zenon, <4>1, <4>4 DEF TypeTree
    <3> QED
      BY Zenon, <3>1, <3>2
  <2>3. TypeFlags'
    BY Zenon, <1>0, <1>17 DEF ReloadFromDisk, TypeFlags
  <2>4. TypeWorker'
    BY Zenon, <1>0, <1>17 DEF ReloadFromDisk, TypeWorker
  <2>5. TypeRest'
    <3>1. FlushOK \/ FlushFails
      BY Zenon, <1>17 DEF ReloadFromDisk
    <3>2. faults' \in Nat
      BY Zenon, <1>0, <3>1, FlushType DEF TypeDisk, TypeRest
    <3> QED
      BY <1>0, <1>17, <3>2 DEF ReloadFromDisk, TypeRest
  <2> QED
    BY <2>1, <2>2, <2>3, <2>4, <2>5, Zenon DEF TypeOK, TypeDisk, TypeTree, TypeFlags, TypeWorker, TypeRest
<1>18. CASE ReloadSave
  <2>1. TypeDisk'
    BY Zenon, <1>0, <1>18, Limits DEF ReloadSave, TypeDisk
  <2>2. TypeTree'
    <3>1. FramesOf(snap') \subseteq Frames
      BY Zenon, <1>18, Limits, TreeTypes DEF ReloadSave
    <3> QED
      BY Zenon, <1>0, <1>18, <3>1 DEF ReloadSave, TypeTree
  <2>3. TypeFlags'
    BY Zenon, <1>0, <1>18 DEF ReloadSave, TypeFlags
  <2>4. TypeWorker'
    BY Zenon, <1>0, <1>18 DEF ReloadSave, TypeWorker
  <2>5. TypeRest'
    BY <1>0, <1>18 DEF ReloadSave, TypeRest
  <2> QED
    BY <2>1, <2>2, <2>3, <2>4, <2>5, Zenon DEF TypeOK, TypeDisk, TypeTree, TypeFlags, TypeWorker, TypeRest
<1>19. CASE ReloadFlush
  <2>1. TypeDisk'
    <3>1. FlushOK \/ FlushFails
      BY Zenon, <1>19 DEF ReloadFlush
    <3>2. /\ wal' \in Seq(Items) /\ buf' = <<>> /\ synced' \in 0..Len(wal')
          /\ writer' \in {"ok", "failed", "closed"}
      BY <1>0, <3>1, FlushType DEF TypeDisk, TypeRest
    <3> QED
      BY <1>0, <1>19, <3>2 DEF ReloadFlush, TypeDisk
  <2>2. TypeTree'
    BY Zenon, <1>0, <1>19 DEF ReloadFlush, TypeTree
  <2>3. TypeFlags'
    BY Zenon, <1>0, <1>19 DEF ReloadFlush, TypeFlags
  <2>4. TypeWorker'
    BY Zenon, <1>0, <1>19 DEF ReloadFlush, TypeWorker
  <2>5. TypeRest'
    <3>1. FlushOK \/ FlushFails
      BY <1>19 DEF ReloadFlush
    <3>2. faults' \in Nat
      BY <1>0, <3>1, FlushType DEF TypeDisk, TypeRest
    <3> QED
      BY <1>0, <1>19, <3>2 DEF ReloadFlush, TypeRest
  <2> QED
    BY <2>1, <2>2, <2>3, <2>4, <2>5, Zenon DEF TypeOK, TypeDisk, TypeTree, TypeFlags, TypeWorker, TypeRest
<1>20. CASE ReloadTruncate
  <2>1. TypeDisk'
    <3>1. TruncateOK \/ TruncateFails
      BY Zenon, <1>20 DEF ReloadTruncate
    <3>2. /\ wal' \in Seq(Items) /\ synced' \in 0..Len(wal')
          /\ writer' \in {"ok", "failed", "closed"}
      BY Zenon, <1>0, <3>1, TruncateType DEF TypeDisk, TypeRest
    <3> QED
      BY Zenon, <1>0, <1>20, <3>2 DEF ReloadTruncate, TypeDisk
  <2>2. TypeTree'
    <3>1. snap \in Trees
      BY Zenon, <1>0, <1>20 DEF ReloadTruncate, Control, Idle, Running, TypeDisk
    <3> QED
      BY <1>0, <1>20, <3>1 DEF ReloadTruncate, TypeTree
  <2>3. TypeFlags'
    BY <1>0, <1>20, Zenon DEF ReloadTruncate, TypeFlags
  <2>4. TypeWorker'
    BY Zenon, <1>0, <1>20 DEF ReloadTruncate, TypeWorker
  <2>5. TypeRest'
    <3>1. TruncateOK \/ TruncateFails
      BY <1>20 DEF ReloadTruncate
    <3>2. faults' \in Nat /\ count' \in Nat
      BY <1>0, <3>1, TruncateType DEF TypeDisk, TypeRest
    <3> QED
      BY Zenon, <1>0, <1>20, <3>2 DEF ReloadTruncate, TypeRest
  <2> QED
    BY <2>1, <2>2, <2>3, <2>4, <2>5, Zenon DEF TypeOK, TypeDisk, TypeTree, TypeFlags, TypeWorker, TypeRest
<1>21. CASE CloseBegin
  <2>1. TypeDisk'
    BY Zenon, <1>0, <1>21 DEF CloseBegin, TypeDisk
  <2>2. TypeTree'
    BY Zenon, <1>0, <1>21 DEF CloseBegin, TypeTree
  <2>3. TypeFlags'
    BY Zenon, <1>0, <1>21 DEF CloseBegin, TypeFlags
  <2>4. TypeWorker'
    BY <1>0, <1>21 DEF CloseBegin, TypeWorker
  <2>5. TypeRest'
    BY Zenon, <1>0, <1>21 DEF CloseBegin, TypeRest
  <2> QED
    BY <2>1, <2>2, <2>3, <2>4, <2>5, Zenon DEF TypeOK, TypeDisk, TypeTree, TypeFlags, TypeWorker, TypeRest
<1>22. CASE CloseEnd
  <2>1. wal' \in Seq(Items) /\ synced' = Len(wal')
    BY Zenon, <1>0, <1>22, WrittenType DEF CloseEnd
  <2> QED
    BY Zenon, <1>0, <1>22, <2>1, ForgetType DEF CloseEnd, TypeRest
<1>23. CASE Crash
  <2>1. wal' \in Seq(Items) /\ synced' = Len(wal')
    BY Zenon, <1>0, <1>23, WrittenType, CutsType DEF Crash
  <2> QED
    BY <1>0, <1>23, <2>1, ForgetType DEF Crash, TypeRest
<1>24. ASSUME NEW c \in Callers, NEW d \in Domains, NEW rr \in Inputs \cup {NoRR},
             Enqueue(c, d, rr)
      PROVE  TypeOK'
  <2>1. TypeDisk'
    BY Zenon, <1>0, <1>24 DEF Enqueue, TypeDisk
  <2>2. TypeTree'
    BY Zenon, <1>0, <1>24 DEF Enqueue, TypeTree
  <2>3. TypeFlags'
    BY Zenon, <1>0, <1>24 DEF Enqueue, TypeFlags
  <2>4. TypeWorker'
    BY Zenon, <1>0, <1>24 DEF Enqueue, TypeWorker
  <2>5. TypeRest'
    <3>1. [caller |-> c, d |-> d, rr |-> rr] \in Mutation
      BY Zenon, <1>24 DEF Mutation
    <3>2. queue' \in Seq(Mutation) /\ Len(queue') <= QueueCap
      BY <1>0, <1>24, <3>1, Limits DEF Enqueue, TypeRest
    <3>3. call' \in [Callers -> {"none", "waiting", "ok", "error", "closed", "full"}]
      BY Zenon, <1>0, <1>24 DEF Enqueue, TypeRest
    <3>4. calls' \in Nat
      BY <1>0, <1>24 DEF Enqueue, TypeRest
    <3> QED
      BY Zenon, <1>0, <1>24, <3>2, <3>3, <3>4 DEF Enqueue, TypeRest
  <2> QED
    BY <2>1, <2>2, <2>3, <2>4, <2>5, Zenon DEF TypeOK, TypeDisk, TypeTree, TypeFlags, TypeWorker, TypeRest
<1>25. ASSUME NEW c \in Callers, NotEnqueued(c) PROVE  TypeOK'
  <2>1. TypeDisk'
    BY Zenon, <1>0, <1>25 DEF NotEnqueued, TypeDisk
  <2>2. TypeTree'
    BY Zenon, <1>0, <1>25 DEF NotEnqueued, TypeTree
  <2>3. TypeFlags'
    BY Zenon, <1>0, <1>25 DEF NotEnqueued, TypeFlags
  <2>4. TypeWorker'
    BY Zenon, <1>0, <1>25 DEF NotEnqueued, TypeWorker
  <2>5. TypeRest'
    BY <1>0, <1>25 DEF NotEnqueued, TypeRest
  <2> QED
    BY <2>1, <2>2, <2>3, <2>4, <2>5, Zenon DEF TypeOK, TypeDisk, TypeTree, TypeFlags, TypeWorker, TypeRest
<1>26. ASSUME NEW c \in Callers, Abandon(c) PROVE  TypeOK'
  <2>1. TypeDisk'
    BY Zenon, <1>0, <1>26 DEF Abandon, TypeDisk
  <2>2. TypeTree'
    BY Zenon, <1>0, <1>26 DEF Abandon, TypeTree
  <2>3. TypeFlags'
    BY Zenon, <1>0, <1>26 DEF Abandon, TypeFlags
  <2>4. TypeWorker'
    BY Zenon, <1>0, <1>26 DEF Abandon, TypeWorker
  <2>5. TypeRest'
    BY Zenon, <1>0, <1>26 DEF Abandon, TypeRest
  <2> QED
    BY <2>1, <2>2, <2>3, <2>4, <2>5, Zenon DEF TypeOK, TypeDisk, TypeTree, TypeFlags, TypeWorker, TypeRest
<1>27. CASE ApplyWriteFails
  <2>0. PICK F \in Seq(Frames) :
          /\ wal \o buf \o F \in Seq(Items)
          /\ Len(wal) \in 0..Len(wal \o buf \o F)
          /\ \/ wal' \in Cuts(wal \o buf \o F, Len(wal))
             \/ wal' = Append(wal \o buf \o F, Torn)
          /\ tree' = Replay(tree, F)
          /\ maybe' = maybe \cup {F[i] : i \in 1..Len(F)}
    BY Zenon, <1>27, WriteFailsType
  <2>1. TypeDisk'
    <3> DEFINE log == wal \o buf \o F
    <3>1. /\ log \in Seq(Items) /\ Len(wal) \in 0..Len(log)
          /\ wal' \in Cuts(log, Len(wal)) \/ wal' = Append(log, Torn)
      BY Zenon, <2>0
    <3> HIDE DEF log
    <3>2. wal' \in Seq(Items) /\ Len(wal) <= Len(wal')
      <4>1. CASE wal' \in Cuts(log, Len(wal))
        <5>1. \E k \in Len(wal)..Len(log) : Len(wal') = k \/ Len(wal') = k + 1
          BY <3>1, <4>1, CutsType
        <5>2. wal' \in Seq(Items)
          BY Zenon, <3>1, <4>1, CutsType
        <5> QED
          BY <1>0, <5>1, <5>2 DEF TypeDisk
      <4>2. CASE wal' = Append(log, Torn)
        BY <3>1, <4>2, ItemType
      <4> QED
        BY Zenon, <3>1, <4>1, <4>2
    <3> QED
      BY <1>0, <1>27, <3>2 DEF ApplyWriteFails, TypeDisk
  <2>2. TypeTree'
    <3>1. tree' \in Trees
      BY Zenon, <1>0, <2>0, ReplayType DEF TypeTree
    <3>2. maybe' \subseteq Frames
      BY <1>0, <2>0 DEF TypeTree
    <3> QED
      BY Zenon, <1>0, <1>27, <3>1, <3>2 DEF ApplyWriteFails, TypeTree
  <2>3. TypeFlags'
    BY Zenon, <1>0, <1>27 DEF ApplyWriteFails, TypeFlags
  <2>4. TypeWorker'
    BY <1>0, <1>27, Zenon DEF ApplyWriteFails, TypeWorker
  <2>5. TypeRest'
    BY <1>0, <1>27 DEF ApplyWriteFails, TypeRest
  <2> QED
    BY <2>1, <2>2, <2>3, <2>4, <2>5, Zenon DEF TypeOK, TypeDisk, TypeTree, TypeFlags, TypeWorker, TypeRest
<1> QED
  BY <1>1, <1>2, <1>3, <1>4, <1>5, <1>6, <1>7, <1>8, <1>9, <1>10, <1>11, <1>12,
     <1>13, <1>14, <1>15, <1>16, <1>17, <1>18, <1>19, <1>20, <1>21, <1>22, <1>23,
     <1>24, <1>25, <1>26, <1>27 DEF Next

(* Every step keeps the control invariant. *)
LEMMA ControlStep ==
  ASSUME TypeOK, Control, Next
  PROVE  Control'
<1>0. TypeDisk /\ TypeTree /\ TypeFlags /\ TypeWorker /\ TypeRest
  BY Zenon, TypeParts
<1> USE DEF diskVars, writerVars, callerVars, compactVars, historyVars, boundVars
<1>1. CASE Bootstrap
  BY Zenon, <1>0, <1>1 DEF Bootstrap, Control, Running, Idle, TypeWorker
<1>2. CASE Open
  BY Zenon, <1>0, <1>2 DEF Open, Control, Running, Idle, TypeWorker
<1>3. CASE OpenRefused
  BY Zenon, <1>0, <1>3 DEF OpenRefused, Control, Running, Idle, TypeWorker
<1>4. CASE CollectBatch
  <2>1. BatchSize \in 1..Len(queue)
    BY <1>0, <1>4, Limits DEF CollectBatch, BatchSize, TypeRest
  <2>2. Len(SubSeq(queue, 1, BatchSize)) = BatchSize
    BY <1>0, <2>1 DEF TypeRest
  <2>3. worker'.pc = "lock" /\ worker'.next = 1 /\ worker'.batch = SubSeq(queue, 1, BatchSize)
    BY <1>4, Zenon DEF CollectBatch, IdleWorker
  <2>4. worker'.next \in 1..Len(worker'.batch)
    BY <2>1, <2>2, <2>3
  <2>5. /\ UNCHANGED <<mu, comp, reload, buf, writer, synced, wal, snap, status, tree, mixed>>
        /\ Running /\ worker.pc = "idle"
    BY Zenon, <1>4 DEF CollectBatch
  <2> QED
    BY <2>3, <2>4, <2>5, Zenon DEF Control, Running
<1>5. CASE WorkerExit
  BY <1>0, <1>5 DEF WorkerExit, Control, Running, Idle, TypeWorker
<1>6. CASE CommitLock
  BY Zenon, <1>0, <1>6 DEF CommitLock, Control, Running, Idle, TypeWorker
<1>7. CASE ApplyOperation
  <2>1. /\ worker'.pc \in {"apply", "flush"}
        /\ worker'.pc = "apply" => worker'.next \in 1..Len(worker'.batch)
    BY <1>0, <1>7 DEF ApplyOperation, TypeWorker, LastOfBatch, Control
  <2>2. /\ UNCHANGED <<mu, comp, reload, writer, synced, wal, snap, status, mixed>>
        /\ worker.pc = "apply"
    BY Zenon, <1>7 DEF ApplyOperation
  <2> QED
    BY Zenon, <2>1, <2>2 DEF Control, Running, Idle, IdleWorker
<1>8. CASE ApplyFails
  BY Zenon, <1>0, <1>8 DEF ApplyFails, Control, Running, Idle, TypeWorker
<1>9. CASE CommitFlush
  <2>1. /\ UNCHANGED <<mu, comp, reload, snap, status, tree, mixed>>
        /\ worker.pc = "flush" /\ worker'.pc = "reply" /\ buf' = <<>>
    BY <1>0, <1>9, Zenon DEF CommitFlush, FlushOK, FlushFails, TypeWorker
  <2>2. ~worker'.flushErr => writer' = "ok" /\ synced' = Len(wal')
    BY <1>0, <1>9, Zenon DEF CommitFlush, FlushOK, FlushFails, TypeWorker
  <2> QED
    BY Zenon, <2>1, <2>2 DEF Control, Running, Idle, IdleWorker
<1>10. CASE CommitReply
  BY <1>0, <1>10 DEF CommitReply, Control, Running, Idle, TypeWorker
<1>11. CASE CompactTrigger
  BY Zenon, <1>0, <1>11 DEF CompactTrigger, Control, Running, Idle, TypeWorker
<1>12. CASE CompactorExit
  BY Zenon, <1>0, <1>12 DEF CompactorExit, Control, Running, Idle, TypeWorker
<1>13. CASE CompactSave
  <2>1. tree # NoSnap
    BY Zenon, <1>0, Limits DEF TypeTree
  <2>2. reload = "idle"
    BY Zenon, <1>0, <1>13 DEF CompactSave, Control, TypeRest
  <2> QED
    BY Zenon, <1>13, <2>1, <2>2 DEF CompactSave, Control, Running, Idle
<1>14. CASE CompactSaveFails
  BY Zenon, <1>0, <1>14 DEF CompactSaveFails, Control, Running, Idle, TypeWorker
<1>15. CASE CompactFlush
  <2>1. /\ comp = "flush" /\ UNCHANGED <<snap, tree, status, worker, reload>>
        /\ (comp' = "trunc" /\ mu' = mu) \/ (comp' = "idle" /\ mu' = "free")
    BY Zenon, <1>15 DEF CompactFlush
  <2>2. buf' = <<>>
    BY Zenon, <1>15 DEF CompactFlush, FlushOK, FlushFails
  <2>3. /\ mu = "compact" /\ Running
        /\ worker.pc \notin {"apply", "flush", "reply"} /\ reload \notin {"flush", "trunc"}
    BY Zenon, <1>0, <2>1 DEF Control, Idle
  <2> QED
    BY Zenon, <1>0, <2>1, <2>2, <2>3 DEF Control, Running
<1>16. CASE CompactTruncate
  BY Zenon, <1>0, <1>16 DEF CompactTruncate, Control, Running, Idle, TypeWorker
<1>17. CASE ReloadFromDisk
  <2>1. /\ Running /\ mu = "free"
        /\ UNCHANGED <<snap, status, mu, worker, comp, reload>>
    BY Zenon, <1>17 DEF ReloadFromDisk, compactVars
  <2>2. buf' = <<>>
    BY Zenon, <1>17 DEF ReloadFromDisk, FlushOK, FlushFails
  <2>3. /\ worker.pc \notin {"apply", "flush", "reply"}
        /\ comp \notin {"flush", "trunc"} /\ reload \notin {"flush", "trunc"}
    BY Zenon, <1>0, <2>1 DEF Control
  <2> QED
    BY Zenon, <1>0, <2>1, <2>2, <2>3 DEF Control, Running
<1>18. CASE ReloadSave
  <2>1. snap' # NoSnap
    BY Zenon, <1>18, Limits DEF ReloadSave
  <2> QED
    BY Zenon, <1>18, <2>1 DEF ReloadSave, Control, Running, Idle
<1>19. CASE ReloadFlush
  <2>1. /\ reload = "flush" /\ UNCHANGED <<snap, tree, status, worker, comp>>
        /\ (reload' = "trunc" /\ mu' = mu) \/ (reload' = "idle" /\ mu' = "free")
    BY Zenon, <1>19 DEF ReloadFlush, compactVars
  <2>2. buf' = <<>>
    BY Zenon, <1>19 DEF ReloadFlush, FlushOK, FlushFails
  <2>3. /\ mu = "reload" /\ Running
        /\ worker.pc \notin {"apply", "flush", "reply"} /\ comp \notin {"flush", "trunc"}
    BY Zenon, <1>0, <2>1 DEF Control, Idle
  <2> QED
    BY Zenon, <1>0, <2>1, <2>2, <2>3 DEF Control, Running
<1>20. CASE ReloadTruncate
  BY Zenon, <1>0, <1>20 DEF ReloadTruncate, Control, Running, Idle, TypeWorker
<1>21. CASE CloseBegin
  BY Zenon, <1>0, <1>21 DEF CloseBegin, Control, Running, Idle, TypeWorker
<1>22. CASE CloseEnd
  <2>1. /\ Idle' /\ status' = "down" /\ synced' = Len(wal')
        /\ UNCHANGED <<snap, mixed>> /\ Running
    BY Zenon, <1>22 DEF CloseEnd, ForgetMemory, Idle, Running
  <2> QED
    BY Zenon, <2>1 DEF Control, Running, Idle, IdleWorker
<1>23. CASE Crash
  <2>1. /\ Idle' /\ status' = "down" /\ synced' = Len(wal')
        /\ UNCHANGED <<snap, mixed>> /\ Running
    BY Zenon, <1>23 DEF Crash, ForgetMemory, Idle, Running
  <2> QED
    BY <2>1 DEF Control, Running, Idle, IdleWorker
<1>24. ASSUME NEW c \in Callers, NEW d \in Domains, NEW rr \in Inputs \cup {NoRR},
             Enqueue(c, d, rr)
      PROVE  Control'
  BY Zenon, <1>0, <1>24 DEF Enqueue, Control, Running, Idle, TypeWorker
<1>25. ASSUME NEW c \in Callers, NotEnqueued(c) PROVE  Control'
  BY Zenon, <1>0, <1>25 DEF NotEnqueued, Control, Running, Idle, TypeWorker
<1>26. ASSUME NEW c \in Callers, Abandon(c) PROVE  Control'
  BY Zenon, <1>0, <1>26 DEF Abandon, Control, Running, Idle, TypeWorker
<1>27. CASE ApplyWriteFails
  BY Zenon, <1>0, <1>27 DEF ApplyWriteFails, Control, Running, Idle, IdleWorker, TypeWorker
<1> QED
  BY Zenon, <1>1, <1>2, <1>3, <1>4, <1>5, <1>6, <1>7, <1>8, <1>9, <1>10, <1>11, <1>12,
     <1>13, <1>14, <1>15, <1>16, <1>17, <1>18, <1>19, <1>20, <1>21, <1>22, <1>23,
     <1>24, <1>25, <1>26, <1>27 DEF Next

-----------------------------------------------------------------------------
(* The refinement of DurableMap                                            *)

(* No write is torn, fails or is refused by the codec, and no zone file is *)
(* reloaded: the instances in which DurableMap is what the store promises. *)
Reliable ==
  /\ Oversize = {} /\ ~TornWrites /\ MaxFaults = 0
  /\ Zones = {} \/ MaxReloads = 0

(* What such a store keeps true, beside its types and control: the log is  *)
(* made of frames, all synced outside a commit, and leads to the tree.     *)
Faultless ==
  /\ wal \in Seq(Frames) /\ buf \in Seq(Frames)
  /\ writer = "ok" /\ reload = "idle"
  /\ worker.pc \notin {"apply", "flush"} => synced = Len(wal)
  /\ Running => tree = Replay(snap, wal \o buf)

(* DurableMap speaks of the same frames and of the same Replay. *)
LEMMA MapReplay ==
  /\ Map!Frames = Frames /\ Map!EmptyTree = EmptyTree
  /\ \A t, w : Map!Replay(t, w) = Replay(t, w)
<1>1. Map!Frames = Frames /\ Map!EmptyTree = EmptyTree
  BY DEF Map!Frames, Frames, Map!Frame, Frame, Map!Values, Values, Map!EmptyTree, EmptyTree
<1>2. ASSUME NEW t, NEW w PROVE Map!Replay(t, w) = Replay(t, w)
  BY Zenon DEF Map!Replay, Replay, Map!IsLast, IsLast
<1> QED BY Zenon, <1>1, <1>2

(* The length and the elements of a concatenation. *)
LEMMA ConcatIs ==
  ASSUME NEW S, NEW s \in Seq(S), NEW t \in Seq(S)
  PROVE  /\ s \o t \in Seq(S) /\ Len(s \o t) = Len(s) + Len(t)
         /\ \A i \in 1..(Len(s) + Len(t)) :
              (s \o t)[i] = IF i <= Len(s) THEN s[i] ELSE t[i - Len(s)]
OBVIOUS

(* A log, split where its synced part ends. *)
LEMMA SyncedPart ==
  ASSUME NEW w \in Seq(Frames), NEW b \in Seq(Frames), NEW s \in 0..Len(w)
  PROVE  LET p == SubSeq(w, s + 1, Len(w)) \o b IN
         /\ SubSeq(w, 1, s) \in Seq(Frames) /\ p \in Seq(Frames)
         /\ w \o b = SubSeq(w, 1, s) \o p
         /\ Len(p) \in Nat
         /\ \A k \in s..Len(w \o b) :
              k - s \in 0..Len(p) /\ SubSeq(w \o b, 1, k) = SubSeq(w, 1, s) \o SubSeq(p, 1, k - s)
<1> DEFINE u == SubSeq(w, s + 1, Len(w))
           p == u \o b
           h == SubSeq(w, 1, s)
<1>1. /\ u \in Seq(Frames) /\ Len(u) = Len(w) - s
      /\ \A i \in 1..Len(u) : u[i] = w[s + i]
  OBVIOUS
<1>2. h \in Seq(Frames) /\ Len(h) = s /\ \A i \in 1..s : h[i] = w[i]
  OBVIOUS
<1> HIDE DEF u, h
<1> DEFINE l == w \o b
<1>3. /\ l \in Seq(Frames) /\ Len(l) = Len(w) + Len(b)
      /\ \A i \in 1..(Len(w) + Len(b)) : l[i] = IF i <= Len(w) THEN w[i] ELSE b[i - Len(w)]
  BY Zenon, ConcatIs
<1>4. /\ p \in Seq(Frames) /\ Len(p) = Len(u) + Len(b)
      /\ \A i \in 1..(Len(u) + Len(b)) : p[i] = IF i <= Len(u) THEN u[i] ELSE b[i - Len(u)]
  BY Zenon, <1>1, ConcatIs
<1> HIDE DEF p, l
<1>5. Len(p) \in Nat /\ Len(l) = s + Len(p) /\ Len(w) \in Nat /\ Len(b) \in Nat
  BY ONLY <1>1, <1>3, <1>4, s \in 0..Len(w), w \in Seq(Frames), b \in Seq(Frames)
<1>6. ASSUME NEW i \in 1..Len(p) PROVE p[i] = l[s + i]
  <2>1. CASE i <= Len(u)
    <3>1. i \in 1..Len(u) /\ i \in 1..(Len(u) + Len(b)) /\ s + i \in 1..(Len(w) + Len(b)) /\ s + i <= Len(w)
      BY ONLY <1>1, <1>4, <1>5, <2>1, i \in 1..Len(p), s \in 0..Len(w)
    <3> QED BY Zenon, <1>1, <1>3, <1>4, <2>1, <3>1
  <2>2. CASE ~(i <= Len(u))
    <3>1. /\ i \in 1..(Len(u) + Len(b)) /\ s + i \in 1..(Len(w) + Len(b)) /\ ~(s + i <= Len(w))
          /\ s + i - Len(w) = i - Len(u)
      BY ONLY <1>1, <1>4, <1>5, <2>2, i \in 1..Len(p), s \in 0..Len(w)
    <3>2. l[s + i] = b[s + i - Len(w)]
      BY ONLY <1>3, <3>1
    <3>3. p[i] = b[i - Len(u)]
      BY Zenon, <1>4, <2>2, <3>1
    <3> QED BY Zenon, <3>1, <3>2, <3>3
  <2> QED BY Zenon, <2>1, <2>2
<1>7. ASSUME NEW k \in s..Len(l)
      PROVE  k - s \in 0..Len(p) /\ SubSeq(l, 1, k) = h \o SubSeq(p, 1, k - s)
  <2>1. k - s \in 0..Len(p) /\ k \in 0..Len(l)
    BY <1>5
  <2> DEFINE x == SubSeq(l, 1, k)
             z == SubSeq(p, 1, k - s)
             y == h \o z
  <2>2. x \in Seq(Frames) /\ Len(x) = k /\ \A i \in 1..k : x[i] = l[i]
    BY ONLY <1>3, <2>1
  <2>3. z \in Seq(Frames) /\ Len(z) = k - s /\ \A i \in 1..(k - s) : z[i] = p[i]
    BY ONLY <1>4, <2>1
  <2> HIDE DEF z
  <2>4. /\ y \in Seq(Frames) /\ Len(y) = Len(h) + Len(z)
        /\ \A i \in 1..(Len(h) + Len(z)) : y[i] = IF i <= Len(h) THEN h[i] ELSE z[i - Len(h)]
    BY Zenon, <1>2, <2>3, ConcatIs
  <2> HIDE DEF x, y
  <2>5. Len(y) = k
    BY <1>2, <2>3, <2>4, <2>1
  <2>6. ASSUME NEW i \in 1..k PROVE x[i] = y[i]
    <3>1. CASE i <= s
      <4>1. /\ i \in 1..s /\ i \in 1..(Len(h) + Len(z)) /\ i <= Len(h)
            /\ i \in 1..(Len(w) + Len(b)) /\ i <= Len(w)
        BY ONLY <1>2, <1>5, <2>3, <2>1, <3>1, s \in 0..Len(w), i \in 1..k
      <4> QED
        BY Zenon, <1>2, <1>3, <2>2, <2>4, <4>1
    <3>2. CASE ~(i <= s)
      <4>1. i - s \in 1..(k - s) /\ i - s \in 1..Len(p) /\ s + (i - s) = i
        BY ONLY <2>1, <3>2, <1>5, s \in 0..Len(w), i \in 1..k
      <4>2. z[i - s] = l[i]
        BY Zenon, <2>3, <1>6, <4>1
      <4>3. i \in 1..(Len(h) + Len(z)) /\ ~(i <= Len(h)) /\ i - Len(h) = i - s
        BY ONLY <1>2, <2>1, <2>3, <3>2, s \in 0..Len(w), i \in 1..k
      <4> QED
        BY Zenon, <2>2, <2>4, <4>2, <4>3
    <3> QED BY Zenon, <3>1, <3>2
  <2> QED
    BY Zenon, <2>1, <2>2, <2>4, <2>5, <2>6, SameSeq DEF x, y, z
<1>8. l = h \o p
  <2>1. Len(l) \in s..Len(l) /\ Len(l) - s = Len(p)
    BY <1>5
  <2>2. SubSeq(l, 1, Len(l)) = l /\ SubSeq(p, 1, Len(p)) = p
    BY Zenon, <1>3, <1>4, SubSeqAll
  <2> QED
    BY Zenon, <1>7, <2>1, <2>2
<1> QED
  BY Zenon, <1>2, <1>4, <1>5, <1>7, <1>8 DEF p, u, h, l

(* A log all of whose items are synced. *)
LEMMA AllSynced ==
  ASSUME NEW w \in Seq(Frames)
  PROVE  /\ SubSeq(w, 1, Len(w)) = w /\ w \o <<>> = w
         /\ SubSeq(w, Len(w) + 1, Len(w)) \o <<>> = <<>>
<1>1. Len(w) + 1 \in Int /\ Len(w) \in Int /\ Len(w) < Len(w) + 1 /\ <<>> \in Seq(Frames)
  OBVIOUS
<1>2. SubSeq(w, Len(w) + 1, Len(w)) = <<>>
  BY Zenon, <1>1, SubSeqNone
<1> QED
  BY Zenon, <1>1, <1>2, SubSeqAll, NothingAdded

(* Frames alone are all decoded. *)
LEMMA DecodesAll ==
  ASSUME NEW w \in Seq(Frames), NEW k \in 0..Len(w), IsDecodable(w, k)
  PROVE  SubSeq(w, 1, k) = w
<1>1. ASSUME k < Len(w) PROVE FALSE
  <2>1. k + 1 \in 1..Len(w)
    BY <1>1
  <2>2. w[k+1] \in Frames
    BY Zenon, <2>1, ElementOf
  <2> QED
    BY Zenon, <1>1, <2>2, ItemKinds DEF IsDecodable
<1>2. k = Len(w)
  BY <1>1
<1> QED
  BY Zenon, <1>2, SubSeqAll

(* While the store is open, the frames pending lead from what is durable   *)
(* to the tree, and so does each prefix of them to what a crash may leave. *)
LEMMA DurablePart ==
  ASSUME TypeDisk, Faultless, snap # NoSnap
  PROVE  /\ DurableNow \in Trees /\ Pending \in Seq(Frames) /\ Len(Pending) \in Nat
         /\ Replay(snap, wal \o buf) = Replay(DurableNow, Pending)
         /\ \A k \in synced..Len(wal \o buf) :
              /\ k - synced \in 0..Len(Pending)
              /\ Replay(snap, SubSeq(wal \o buf, 1, k))
                   = Replay(DurableNow, SubSeq(Pending, 1, k - synced))
<1> DEFINE h == SubSeq(wal, 1, synced)
<1>1. /\ wal \in Seq(Frames) /\ buf \in Seq(Frames) /\ synced \in 0..Len(wal)
      /\ snap \in Trees
  BY Zenon DEF TypeDisk, Faultless
<1>2. /\ h \in Seq(Frames) /\ Pending \in Seq(Frames)
      /\ wal \o buf = h \o Pending /\ Len(Pending) \in Nat
      /\ \A k \in synced..Len(wal \o buf) :
           k - synced \in 0..Len(Pending) /\ SubSeq(wal \o buf, 1, k) = h \o SubSeq(Pending, 1, k - synced)
  BY Zenon, <1>1, SyncedPart DEF Pending
<1>3. DurableNow = Replay(snap, h)
  BY Zenon DEF DurableNow
<1> HIDE DEF h
<1>4. \A v \in Seq(Frames) : Replay(snap, h \o v) = Replay(DurableNow, v)
  BY Zenon, <1>1, <1>2, <1>3, ReplayConcat
<1>5. ASSUME NEW k \in synced..Len(wal \o buf)
      PROVE  /\ k - synced \in 0..Len(Pending)
             /\ Replay(snap, SubSeq(wal \o buf, 1, k)) = Replay(DurableNow, SubSeq(Pending, 1, k - synced))
  <2>1. k - synced \in 0..Len(Pending)
    BY Zenon, <1>2
  <2>2. SubSeq(Pending, 1, k - synced) \in Seq(Frames)
    BY ONLY <1>2, <2>1
  <2> QED
    BY Zenon, <1>2, <1>4, <2>1, <2>2
<1>6. DurableNow \in Trees
  BY Zenon, <1>1, <1>2, <1>3, ReplayType
<1> QED
  BY Zenon, <1>2, <1>4, <1>5, <1>6

(* Outside a commit everything is durable. *)
LEMMA DurableAll ==
  ASSUME TypeDisk, Faultless, snap # NoSnap, buf = <<>>, synced = Len(wal)
  PROVE  /\ snap \in Trees /\ wal \in Seq(Frames) /\ wal \o buf = wal
         /\ DurableNow = Replay(snap, wal) /\ Pending = <<>>
<1>1. wal \in Seq(Frames) /\ snap \in Trees
  BY Zenon DEF TypeDisk, Faultless
<1> QED
  BY Zenon, <1>1, AllSynced DEF DurableNow, Pending

(* A step that changes nothing a caller or a crash could tell. *)
LEMMA MapStutters ==
  ASSUME snap' = NoSnap <=> snap = NoSnap, DurableNow' = DurableNow, Pending' = Pending,
         tree' = tree, Running' <=> Running
  PROVE  UNCHANGED Map!vars
<1>1. (snap' # NoSnap) = (snap # NoSnap) /\ Running' = Running
  BY DEF Running
<1> QED
  BY Zenon, <1>1 DEF Map!vars

(* A step that touches neither the files nor the tree. *)
LEMMA FaultlessSame ==
  ASSUME Faultless, UNCHANGED <<snap, wal, synced, buf, writer, tree, reload>>,
         Running' <=> Running,
         worker'.pc \notin {"apply", "flush"} => worker.pc \notin {"apply", "flush"}
  PROVE  Faultless' /\ UNCHANGED Map!vars
<1>1. DurableNow' = DurableNow /\ Pending' = Pending
  BY Zenon DEF DurableNow, Pending
<1>2. Faultless'
  BY Zenon DEF Faultless
<1> QED
  BY Zenon, <1>1, <1>2, MapStutters

(* A flush that cannot fail makes everything pending durable. *)
LEMMA FaultlessFlush ==
  ASSUME Reliable, TypeOK, Faultless, FlushOK \/ FlushFails, snap # NoSnap,
         UNCHANGED <<snap, tree, status, reload>>, Running
  PROVE  /\ FlushOK /\ Faultless' /\ wal' = wal \o buf
         /\ Map!Harden /\ (Pending = <<>> => UNCHANGED Map!vars)
<1>0. TypeDisk /\ faults \in Nat
  BY Zenon, TypeParts DEF TypeRest
<1>1. writer = "ok" /\ ~(faults < MaxFaults)
  BY <1>0 DEF Reliable, Faultless
<1>2. FlushOK
  BY Zenon, <1>1 DEF FlushFails
<1>3. wal' = wal \o buf /\ synced' = Len(wal') /\ buf' = <<>> /\ writer' = writer
  BY Zenon, <1>2 DEF FlushOK
<1>4. wal \in Seq(Frames) /\ buf \in Seq(Frames) /\ snap \in Trees
  BY Zenon, <1>0 DEF Faultless, TypeDisk
<1>5. wal' \in Seq(Frames) /\ <<>> \in Seq(Frames)
  BY ONLY <1>3, <1>4
<1>6. SubSeq(wal', 1, Len(wal')) = wal' /\ wal' \o <<>> = wal'
      /\ SubSeq(wal', Len(wal') + 1, Len(wal')) \o <<>> = <<>>
  BY Zenon, <1>5, AllSynced
<1>7. tree = Replay(snap, wal')
  BY Zenon, <1>3 DEF Faultless
<1>8. DurableNow' = tree /\ Pending' = <<>>
  BY Zenon, <1>3, <1>6, <1>7 DEF DurableNow, Pending
<1>9. Faultless'
  BY Zenon, <1>3, <1>5, <1>6, <1>7 DEF Faultless, Running
<1>10. Running' = Running /\ (snap' # NoSnap) = (snap # NoSnap)
  BY DEF Running
<1>11. Map!Harden
  BY Zenon, <1>8, <1>10 DEF Map!Harden
<1>12. ASSUME Pending = <<>> PROVE UNCHANGED Map!vars
  <2>1. DurableNow = tree
    BY Zenon, <1>0, <1>3, <1>7, <1>12, DurablePart, ReplayEmpty
  <2> QED
    BY Zenon, <1>8, <1>10, <1>12, <2>1, MapStutters
<1> QED
  BY Zenon, <1>2, <1>3, <1>9, <1>11, <1>12

(* A mutation appends one frame, or two, to what is pending. *)
LEMMA FaultlessApply ==
  ASSUME Reliable, TypeOK, Control, Faultless, ApplyOperation
  PROVE  Faultless' /\ Map!Mutate
<1> DEFINE op == worker.batch[worker.next]
           F == Issued(tree, op)
<1>0. TypeDisk /\ TypeTree /\ TypeWorker
  BY Zenon, TypeParts
<1>1. op \in Mutation /\ Running /\ snap # NoSnap
  <2>1. worker.next \in 1..Len(worker.batch) /\ worker.batch \in Seq(Mutation)
    BY Zenon, <1>0 DEF ApplyOperation, Control, TypeWorker
  <2>2. op \in Mutation
    BY Zenon, <2>1, ElementOf
  <2> QED
    BY Zenon, <2>2 DEF ApplyOperation, Control, Idle, IdleWorker, Running
<1>2. op.rr \notin Oversize
  BY Zenon DEF Reliable
<1>3. F \in Seq(Frames) /\ Appended(tree, op) = F
  BY Zenon, <1>0, <1>1, <1>2, IssuedType DEF TypeTree
<1>4. F # <<>> /\ Len(F) \in 1..2
  BY <1>2 DEF Issued, ApexFrames
<1>5. /\ buf' = buf \o F /\ tree' = Replay(tree, F)
      /\ UNCHANGED <<snap, wal, synced, writer, status, reload>>
      /\ worker.pc = "apply" /\ worker'.pc \in {"apply", "flush"}
  BY Zenon, <1>0, <1>3 DEF ApplyOperation, diskVars, TypeWorker
<1> HIDE DEF F, op
<1>6. /\ wal \in Seq(Frames) /\ buf \in Seq(Frames) /\ snap \in Trees
      /\ tree = Replay(snap, wal \o buf)
  BY Zenon, <1>0, <1>1 DEF Faultless, TypeDisk
<1>7. /\ DurableNow \in Trees /\ Pending \in Seq(Frames) /\ Len(Pending) \in Nat
      /\ tree = Replay(DurableNow, Pending)
  BY Zenon, <1>0, <1>1, <1>6, DurablePart
<1>8. /\ buf' \in Seq(Frames) /\ wal \o buf \in Seq(Frames)
      /\ wal \o buf' = (wal \o buf) \o F
  BY ONLY <1>3, <1>5, <1>6
<1>9. tree' = Replay(snap, wal' \o buf')
  <2>1. Replay(snap, (wal \o buf) \o F) = Replay(Replay(snap, wal \o buf), F)
    BY Zenon, <1>3, <1>6, <1>8, ReplayConcat
  <2>2. wal' = wal
    BY Zenon, <1>5
  <2> QED
    BY Zenon, <1>5, <1>6, <1>8, <2>1, <2>2
<1>10. Faultless'
  BY Zenon, <1>5, <1>6, <1>8, <1>9 DEF Faultless
<1>11. Pending' = Pending \o F
  <2>1. SubSeq(wal, synced + 1, Len(wal)) \in Seq(Frames)
    BY <1>0, <1>6 DEF TypeDisk
  <2>2. \A u \in Seq(Frames) : u \o (buf \o F) = (u \o buf) \o F
    BY ONLY <1>3, <1>6
  <2> QED
    BY Zenon, <1>5, <2>1, <2>2 DEF Pending
<1>12. /\ Pending' \in Seq(Frames) /\ Len(Pending') - Len(Pending) \in 1..2
       /\ Pending = SubSeq(Pending', 1, Len(Pending))
  <2>1. \A u, v \in Seq(Frames) :
          u \o v \in Seq(Frames) /\ Len(u \o v) = Len(u) + Len(v) /\ u = SubSeq(u \o v, 1, Len(u))
    OBVIOUS
  <2>2. /\ Pending' \in Seq(Frames) /\ Len(Pending') = Len(Pending) + Len(F)
        /\ Pending = SubSeq(Pending', 1, Len(Pending))
    BY Zenon, <1>3, <1>7, <1>11, <2>1
  <2> QED
    BY ONLY <1>4, <1>7, <2>2
<1>13. DurableNow' = DurableNow
  BY Zenon, <1>5 DEF DurableNow
<1>14. tree' = Replay(DurableNow, Pending')
  BY Zenon, <1>3, <1>5, <1>7, <1>11, ReplayConcat
<1>15. Running' = Running /\ (snap' # NoSnap) = (snap # NoSnap)
  BY <1>5 DEF Running
<1>16. Map!Mutate
  BY Zenon, <1>1, <1>12, <1>13, <1>14, <1>15, MapReplay DEF Map!Mutate
<1> QED
  BY Zenon, <1>10, <1>16

(* A store that stops keeps, of what was pending, a prefix. *)
LEMMA FaultlessStop ==
  ASSUME TypeOK, Faultless, Running, snap # NoSnap, snap' = snap, ForgetMemory,
         NEW k \in synced..Len(wal \o buf), wal' = SubSeq(wal \o buf, 1, k),
         synced' = Len(wal')
  PROVE  Faultless' /\ Map!Stop
<1>0. TypeDisk
  BY Zenon, TypeParts
<1>1. /\ k - synced \in 0..Len(Pending)
      /\ Replay(snap, wal') = Replay(DurableNow, SubSeq(Pending, 1, k - synced))
  BY Zenon, <1>0, DurablePart
<1>2. wal' \in Seq(Frames) /\ <<>> \in Seq(Frames)
  <2>1. wal \in Seq(Frames) /\ buf \in Seq(Frames) /\ synced \in 0..Len(wal)
    BY Zenon, <1>0 DEF Faultless, TypeDisk
  <2> QED
    BY <2>1
<1>3. /\ status' = "down" /\ buf' = <<>> /\ writer' = "ok" /\ reload' = "idle"
      /\ tree' = EmptyTree
  BY Zenon DEF ForgetMemory
<1>4. Faultless' /\ ~Running'
  BY Zenon, <1>2, <1>3 DEF Faultless, Running
<1>5. DurableNow' = Replay(snap, wal') /\ Pending' = <<>>
  BY Zenon, <1>2, <1>3, AllSynced DEF DurableNow, Pending
<1>6. Running' = FALSE /\ (snap' # NoSnap) = (snap # NoSnap)
  BY <1>4 DEF Running
<1>7. Map!Stop
  BY Zenon, <1>1, <1>3, <1>5, <1>6, MapReplay DEF Map!Stop
<1> QED
  BY Zenon, <1>4, <1>7

(* Every step of a reliable store is one of DurableMap, or a stutter. *)
LEMMA FaultlessStep ==
  ASSUME Reliable, TypeOK, Control, Faultless, Next
  PROVE  Faultless' /\ (Map!Next \/ UNCHANGED Map!vars)
<1>0. /\ TypeDisk /\ TypeTree /\ TypeWorker /\ TypeRest
      /\ Running => snap # NoSnap
  BY Zenon, TypeParts DEF Control, Running
<1>f. ~(faults < MaxFaults) /\ writer = "ok" /\ reload = "idle"
  BY <1>0 DEF Reliable, Faultless, TypeRest
<1> USE DEF diskVars, writerVars, callerVars, compactVars, historyVars, boundVars
<1>1. CASE Bootstrap
  <2>1. /\ wal = <<>> /\ synced = 0 /\ buf = <<>> /\ ~Running /\ snap = NoSnap
    BY <1>0, <1>1 DEF Bootstrap, Control, Idle, Running
  <2>2. snap' \in Trees /\ snap' # NoSnap
    BY Zenon, <1>1, Limits, TreeTypes DEF Bootstrap
  <2>3. UNCHANGED <<wal, synced, buf, writer, tree, status, worker, reload>>
    BY Zenon, <1>1 DEF Bootstrap
  <2>4. SubSeq(<<>>, 1, 0) = <<>>
    OBVIOUS
  <2>5. DurableNow' = snap' /\ Pending' = Pending
    BY Zenon, <2>1, <2>2, <2>3, <2>4, ReplayEmpty DEF DurableNow, Pending
  <2>6. Running' = Running /\ (snap # NoSnap) = FALSE /\ (snap' # NoSnap) = TRUE
    BY <2>1, <2>2, <2>3 DEF Running
  <2>7. Map!Create
    BY Zenon, <1>1, <2>3, <2>5, <2>6, MapReplay DEF Bootstrap, Map!Create
  <2>8. Faultless'
    BY Zenon, <2>1, <2>3 DEF Faultless, Running
  <2> QED
    BY Zenon, <2>7, <2>8 DEF Map!Next
<1>2. CASE Open
  <2>1. /\ buf = <<>> /\ synced = Len(wal) /\ ~Running /\ snap # NoSnap
    BY Zenon, <1>0, <1>2 DEF Open, Control, Idle, Running
  <2>2. /\ snap \in Trees /\ wal \in Seq(Frames) /\ wal \o buf = wal
        /\ DurableNow = Replay(snap, wal) /\ Pending = <<>>
    BY Zenon, <1>0, <2>1, DurableAll
  <2>3. UNCHANGED <<snap, wal, synced, buf, writer, worker, reload>> /\ status' = "up"
    BY Zenon, <1>2 DEF Open
  <2>4. PICK k \in 0..Len(wal) : IsDecodable(wal, k) /\ tree' = Replay(snap, SubSeq(wal, 1, k))
    BY Zenon, <1>2 DEF Open
  <2>5. SubSeq(wal, 1, k) = wal
    BY Zenon, <2>2, <2>4, DecodesAll
  <2>6. DurableNow' = DurableNow /\ Pending' = Pending
    BY Zenon, <2>3 DEF DurableNow, Pending
  <2>7. Running' = TRUE /\ Running = FALSE /\ (snap' # NoSnap) = (snap # NoSnap)
    BY <2>1, <2>3 DEF Running
  <2>8. Map!Start
    BY Zenon, <2>1, <2>2, <2>4, <2>5, <2>6, <2>7 DEF Map!Start
  <2>9. Faultless'
    BY Zenon, <2>2, <2>3, <2>4, <2>5 DEF Faultless
  <2> QED
    BY Zenon, <2>8, <2>9 DEF Map!Next
<1>3. CASE OpenRefused
  BY <1>3, FaultlessSame DEF OpenRefused, Running
<1>4. CASE CollectBatch
  BY Zenon, <1>4, FaultlessSame DEF CollectBatch, Running
<1>5. CASE WorkerExit
  BY Zenon, <1>5, FaultlessSame DEF WorkerExit, Running
<1>6. CASE CommitLock
  BY Zenon, <1>0, <1>6, FaultlessSame DEF CommitLock, Running, TypeWorker
<1>7. CASE ApplyOperation
  BY Zenon, <1>7, FaultlessApply DEF Map!Next
<1>8. CASE ApplyWriteFails \/ ApplyFails \/ CompactSaveFails
  BY Zenon, <1>f, <1>8 DEF ApplyWriteFails, ApplyFails, CompactSaveFails
<1>9. CASE CommitFlush
  <2>1. Running /\ UNCHANGED <<snap, tree, status, reload>> /\ (FlushOK \/ FlushFails)
    BY Zenon, <1>9 DEF CommitFlush, Control, Idle, IdleWorker
  <2> QED
    BY Zenon, <1>0, <2>1, FaultlessFlush DEF Map!Next
<1>10. CASE CommitReply
  BY Zenon, <1>10, FaultlessSame DEF CommitReply, Running
<1>11. CASE CompactTrigger
  BY Zenon, <1>11, FaultlessSame DEF CompactTrigger, Running
<1>12. CASE CompactorExit
  BY Zenon, <1>12, FaultlessSame DEF CompactorExit, Running
<1>13. CASE CompactSave
  <2>1. /\ Running /\ snap # NoSnap /\ buf = <<>> /\ synced = Len(wal)
    BY Zenon, <1>0, <1>13 DEF CompactSave, Control, Faultless
  <2>2. /\ snap \in Trees /\ wal \in Seq(Frames) /\ wal \o buf = wal
        /\ DurableNow = Replay(snap, wal) /\ Pending = <<>>
    BY Zenon, <1>0, <2>1, DurableAll
  <2>3. UNCHANGED <<wal, synced, buf, writer, tree, status, worker, reload>> /\ snap' = tree
    BY Zenon, <1>13 DEF CompactSave
  <2>4. tree = Replay(snap, wal) /\ tree \in Trees /\ tree # NoSnap
    BY Zenon, <1>0, <2>1, <2>2, Limits DEF Faultless, TypeTree
  <2>5. Replay(tree, wal) = tree
    BY Zenon, <2>2, <2>4, ReplayIdempotent
  <2>6. DurableNow' = DurableNow /\ Pending' = Pending
    BY Zenon, <2>1, <2>2, <2>3, <2>4, <2>5, AllSynced DEF DurableNow, Pending
  <2>7. Faultless'
    BY Zenon, <2>2, <2>3, <2>5 DEF Faultless
  <2> QED
    BY Zenon, <2>1, <2>3, <2>4, <2>6, <2>7, MapStutters DEF Running
<1>14. CASE CompactFlush
  <2>1. /\ Running /\ UNCHANGED <<snap, tree, status, reload>> /\ (FlushOK \/ FlushFails)
        /\ buf = <<>> /\ synced = Len(wal)
    BY Zenon, <1>14 DEF CompactFlush, Control, Idle, Faultless
  <2>2. Pending = <<>>
    BY Zenon, <1>0, <2>1, DurableAll
  <2> QED
    BY Zenon, <1>0, <2>1, <2>2, FaultlessFlush
<1>15. CASE CompactTruncate
  <2>1. /\ Running /\ snap # NoSnap /\ buf = <<>> /\ synced = Len(wal) /\ snap = tree
    BY Zenon, <1>0, <1>15 DEF CompactTruncate, Control, Idle, Faultless
  <2>2. /\ snap \in Trees /\ wal \in Seq(Frames) /\ wal \o buf = wal
        /\ DurableNow = Replay(snap, wal) /\ Pending = <<>>
    BY Zenon, <1>0, <2>1, DurableAll
  <2>3. /\ UNCHANGED <<snap, buf, writer, tree, status, worker, reload>>
        /\ wal' = <<>> /\ synced' = 0
    BY Zenon, <1>f, <1>15 DEF CompactTruncate, TruncateOK, TruncateFails
  <2>4. tree = Replay(snap, wal)
    BY Zenon, <2>1, <2>2 DEF Faultless
  <2>5. <<>> \in Seq(Frames) /\ Len(<<>>) = 0
    OBVIOUS
  <2>6. DurableNow' = DurableNow /\ Pending' = Pending
    BY Zenon, <2>1, <2>2, <2>3, <2>4, <2>5, ReplayEmpty, AllSynced DEF DurableNow, Pending
  <2>7. Faultless'
    BY Zenon, <2>1, <2>2, <2>3, <2>4, <2>5, ReplayEmpty, AllSynced DEF Faultless
  <2> QED
    BY Zenon, <2>1, <2>3, <2>6, <2>7, MapStutters DEF Running
<1>16. CASE ReloadFromDisk
  <2>1. /\ Running /\ snap # NoSnap /\ buf = <<>> /\ synced = Len(wal)
    BY Zenon, <1>0, <1>16 DEF ReloadFromDisk, Control, Faultless
  <2>2. /\ snap \in Trees /\ wal \in Seq(Frames) /\ wal \o buf = wal
        /\ Pending = <<>>
    BY Zenon, <1>0, <2>1, DurableAll
  <2>3. UNCHANGED <<snap, status, reload>> /\ FlushOK
    BY Zenon, <1>f, <1>16 DEF ReloadFromDisk, FlushFails
  <2>4. wal' = wal
    BY Zenon, <2>2, <2>3 DEF FlushOK
  <2>5. tree' = tree
    <3>1. CASE UNCHANGED tree
      BY Zenon, <3>1
    <3>2. CASE \E k \in 0..Len(wal') : IsDecodable(wal', k) /\ tree' = Replay(snap, SubSeq(wal', 1, k))
      <4>1. tree' = Replay(snap, wal)
        BY Zenon, <2>2, <2>4, <3>2, DecodesAll
      <4> QED
        BY Zenon, <2>1, <2>2, <4>1 DEF Faultless
    <3> QED
      BY Zenon, <1>16, <3>1, <3>2 DEF ReloadFromDisk
  <2> QED
    BY Zenon, <2>1, <2>2, <2>3, <2>5, FaultlessFlush
<1>17. CASE ReloadSave \/ ReloadFlush \/ ReloadTruncate
  <2>1. ~ReloadFlush /\ ~ReloadTruncate
    BY Zenon, <1>f DEF ReloadFlush, ReloadTruncate
  <2>2. MaxReloads = 0 => ~(reloads < MaxReloads)
    BY <1>0 DEF TypeRest
  <2> QED
    BY Zenon, <1>17, <2>1, <2>2 DEF ReloadSave, Reliable
<1>18. CASE CloseBegin
  BY Zenon, <1>18, FaultlessSame DEF CloseBegin, Running
<1>19. CASE CloseEnd
  <2>1. Running /\ wal' = wal \o buf /\ synced' = Len(wal') /\ ForgetMemory /\ snap' = snap
    BY Zenon, <1>f, <1>19 DEF CloseEnd, Running, Written
  <2>2. Len(wal \o buf) \in synced..Len(wal \o buf) /\ SubSeq(wal \o buf, 1, Len(wal \o buf)) = wal \o buf
    <3>1. wal \in Seq(Frames) /\ buf \in Seq(Frames) /\ synced \in 0..Len(wal)
      BY Zenon, <1>0 DEF Faultless, TypeDisk
    <3> QED
      BY ONLY <3>1
  <2> QED
    BY Zenon, <1>0, <2>1, <2>2, FaultlessStop DEF Map!Next
<1>20. CASE Crash
  <2>1. Running /\ wal' \in Cuts(wal \o buf, synced) /\ synced' = Len(wal') /\ ForgetMemory /\ snap' = snap
    BY Zenon, <1>f, <1>20 DEF Crash, Running, Written
  <2>2. PICK k \in synced..Len(wal \o buf) : wal' = SubSeq(wal \o buf, 1, k)
    BY Zenon, <2>1 DEF Cuts, Reliable
  <2> QED
    BY Zenon, <1>0, <2>1, <2>2, FaultlessStop DEF Map!Next
<1>21. ASSUME NEW c \in Callers, NEW d \in Domains, NEW rr \in Inputs \cup {NoRR},
             Enqueue(c, d, rr)
      PROVE  Faultless' /\ UNCHANGED Map!vars
  BY Zenon, <1>21, FaultlessSame DEF Enqueue, Running
<1>22. ASSUME NEW c \in Callers, NotEnqueued(c) \/ Abandon(c)
       PROVE  Faultless' /\ UNCHANGED Map!vars
  BY Zenon, <1>22, FaultlessSame DEF NotEnqueued, Abandon, Running
<1> QED
  BY Zenon, <1>1, <1>2, <1>3, <1>4, <1>5, <1>6, <1>7, <1>8, <1>9, <1>10, <1>11, <1>12,
     <1>13, <1>14, <1>15, <1>16, <1>17, <1>18, <1>19, <1>20, <1>21, <1>22 DEF Next

(* The store implements DurableMap: whatever the number of domains,        *)
(* callers, batches, compactions, reloads from disk and crashes, when no   *)
(* write is torn or fails.                                                 *)
THEOREM StoreImplementsDurableMap == Reliable => (Spec => ImplementsDurableMap)
<1> SUFFICES ASSUME Reliable PROVE Spec => ImplementsDurableMap
  OBVIOUS
<1>1. Init => TypeOK /\ Control /\ Faultless /\ Map!Init
  <2> SUFFICES ASSUME Init PROVE TypeOK /\ Control /\ Faultless /\ Map!Init
    OBVIOUS
  <2>1. <<>> \in Seq(Frames) /\ Len(<<>>) = 0 /\ SubSeq(<<>>, 1, 0) = <<>>
        /\ SubSeq(<<>>, 0 + 1, 0) \o <<>> = <<>>
    OBVIOUS
  <2>2. Faultless
    BY Zenon, <2>1 DEF Init, Faultless, Running
  <2>3. DurableNow = EmptyTree /\ Pending = <<>> /\ Running = FALSE /\ (snap # NoSnap) = FALSE
    BY <2>1 DEF Init, DurableNow, Pending, Running
  <2>4. Map!Init
    BY Zenon, <2>3, MapReplay DEF Init, Map!Init
  <2> QED
    BY Zenon, <2>2, <2>4, InitTyped
<1>2. TypeOK /\ Control /\ Faultless /\ [Next]_vars
        => (TypeOK /\ Control /\ Faultless)' /\ [Map!Next]_(Map!vars)
  <2> SUFFICES ASSUME TypeOK, Control, Faultless, [Next]_vars
               PROVE  TypeOK' /\ Control' /\ Faultless' /\ (Map!Next \/ UNCHANGED Map!vars)
    BY Zenon
  <2>1. CASE Next
    BY Zenon, <2>1, TypeStep, ControlStep, FaultlessStep
  <2>2. CASE UNCHANGED vars
    <3>1. Faultless' /\ UNCHANGED Map!vars
      BY Zenon, <2>2, FaultlessSame DEF vars, diskVars, writerVars, Running
    <3>2. TypeOK' /\ Control'
      BY <2>2 DEF vars, diskVars, writerVars, callerVars, compactVars, historyVars,
                  boundVars, TypeOK, Control, Idle, Running
    <3> QED
      BY Zenon, <3>1, <3>2
  <2> QED
    BY Zenon, <2>1, <2>2
<1> QED
  BY <1>1, <1>2, PTL DEF Spec, ImplementsDurableMap, Map!Spec
=============================================================================
