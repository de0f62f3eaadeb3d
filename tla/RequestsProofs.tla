--------------------------- MODULE RequestsProofs ---------------------------
(***************************************************************************)
(* Proofs about Requests, for every key ring, tree, set of requests and    *)
(* number of workers: only a request whose sender is entitled to it        *)
(* changes the tree, a refused one has changed nothing, and an update does *)
(* what its operations ask for or, cut short, can be sent again.           *)
(*                                                                         *)
(* A worker checks who sent a request once, when it receives it, and       *)
(* writes many steps later.  The inductive invariant carries what was      *)
(* checked to where it is used: a worker on its way to a write is          *)
(* entitled, and one that has not reached its writes has written nothing.  *)
(* A second one, UInv, follows the copies an update computes on: what they *)
(* hold, and what the tree holds of the same names until and after each is *)
(* written back.                                                           *)
(***************************************************************************)
EXTENDS Requests, TLAPS

Fields == {"pc", "req", "i", "states", "todo", "answer", "base", "wrote", "disturbed"}

(* Where a worker may go on to a write.                                    *)
Writing == {"upsert", "delete", "process", "prereqs", "load", "write"}

Refusal(code) == code \notin {"NOERROR", "200", "500", "silent"}

Sound(w) ==
  /\ Fields \subseteq DOMAIN work[w]
  /\ work[w].pc \in Writing => Entitled(w)
  /\ work[w].pc \notin {"write", "answer"} => work[w].wrote = {}
  /\ work[w].pc = "answer" /\ Refusal(work[w].answer.code) => work[w].wrote = {}

IInv == DOMAIN work = Workers /\ \A w \in Workers : Sound(w)

-----------------------------------------------------------------------------
(* What the checks before the first access to the tree establish           *)

(* resolve hands a request to rfc2136.Process only when its MAC is right.  *)
LEMMA ProcessMeansSigned ==
  ASSUME NEW req, NEW now, Resolve(req, now).code = "process"
  PROVE  /\ req.tsig # <<>>
         /\ \E k \in DOMAIN Keys :
              /\ Canonical[req.tsig[1].name] = k
              /\ req.tsig[1].mac = MAC(Keys[k].secret, req.body, req.tsig[1])
<1> DEFINE auth == AuthenticateTSIG(req, now)
           rec == req.tsig[1]
           key == Keys[Canonical[rec.name]]
<1>1. auth = "ok"
  BY Zenon DEF Resolve, Answer, Silent, HandleQuery, HandleUpdate
<1>2. req.tsig # <<>> /\ KeyFound(rec) /\ Verify(req.body, rec, key, now) = "ok"
  BY Zenon, <1>1 DEF AuthenticateTSIG
<1>3. MAC(key.secret, req.body, rec) = rec.mac
  BY ZenonT(60), <1>2 DEF Verify
<1>4. Canonical[rec.name] \in DOMAIN Keys
  BY Zenon, <1>2 DEF KeyFound
<1> QED BY Zenon, <1>2, <1>3, <1>4

(* resolve has no other way into the tree's writers, and DoH has none.     *)
LEMMA ResolveCodes ==
  ASSUME NEW req, NEW now
  PROVE  Resolve(req, now).code \notin {"read", "upsert", "delete"}
BY Zenon DEF Resolve, Answer, Silent, HandleQuery, HandleUpdate

(* DoH answers, or refuses, without a write.                               *)
LEMMA DoHCodes ==
  ASSUME NEW req
  PROVE  HandleDoH(req).code \notin {"process", "read", "upsert", "delete"}
BY Zenon DEF HandleDoH, Answer

(* The API writes only for a request with the configured token.            *)
LEMMA WriteMeansToken ==
  ASSUME NEW req, NEW synced, HandleHTTP(req, synced) \in Writing
  PROVE  ApiToken # "" /\ req.token = ApiToken
BY ZenonT(60) DEF HandleHTTP, Writing

-----------------------------------------------------------------------------
(* The initial states satisfy the inductive invariant.                     *)
LEMMA InitIInv == Init => IInv
BY DEF Init, IInv, Sound, Idle, Fields, Writing, Silent, Answer

(* A step that changes only what worker w does, from a place before its    *)
(* writes, and leads it on or to an answer.                                *)
LEMMA OwnStep ==
  ASSUME IInv, NEW w \in Workers, NEW me,
         work' = [work EXCEPT ![w] = me],
         Fields \subseteq DOMAIN me,
         me.req = work[w].req, me.wrote = work[w].wrote,
         me.pc \in Writing => work[w].pc \in Writing,
         \/ work[w].wrote = {}
         \/ me.pc = "write" /\ work[w].pc = "write"
         \/ me.pc = "answer" /\ ~Refusal(me.answer.code)
  PROVE  IInv'
<1>1. DOMAIN work' = Workers
  BY Zenon DEF IInv
<1>2. ASSUME NEW v \in Workers PROVE Sound(v)'
  <2>1. CASE v = w
    <3>1. work'[v] = me
      BY Zenon, <2>1 DEF IInv
    <3>2. Entitled(v)' <=> Entitled(w)
      BY ZenonT(60), <3>1, <2>1 DEF Entitled
    <3> QED BY Zenon, <3>1, <3>2, <2>1 DEF IInv, Sound
  <2>2. CASE v # w
    <3>1. work'[v] = work[v]
      BY Zenon, <2>2 DEF IInv
    <3> QED BY ZenonT(60), <3>1 DEF IInv, Sound, Entitled
  <2> QED BY Zenon, <2>1, <2>2
<1> QED BY Zenon, <1>1, <1>2 DEF IInv

(* A request arrives and is checked.                                       *)
LEMMA ReceiveIInv ==
  ASSUME IInv, NEW w \in Workers, Receive(w)
  PROVE  IInv'
<1>1. PICK req \in Asks[w], now \in Clocks, synced \in BOOLEAN :
        LET first ==
              IF Transport[w] = "api" THEN Answer(HandleHTTP(req, synced), FALSE)
              ELSE IF Transport[w] = "doh" THEN HandleDoH(req)
              ELSE Resolve(req, now)
            inside == first.code \in {"process", "read", "upsert", "delete"}
        IN  work' = [work EXCEPT ![w] =
                       [Idle EXCEPT !.pc = IF inside THEN first.code ELSE "answer",
                                    !.req = req,
                                    !.answer = IF inside THEN Silent ELSE first]]
  BY ZenonT(60) DEF Receive
<1> DEFINE first == IF Transport[w] = "api" THEN Answer(HandleHTTP(req, synced), FALSE)
                    ELSE IF Transport[w] = "doh" THEN HandleDoH(req)
                    ELSE Resolve(req, now)
           inside == first.code \in {"process", "read", "upsert", "delete"}
           me == [Idle EXCEPT !.pc = IF inside THEN first.code ELSE "answer",
                              !.req = req,
                              !.answer = IF inside THEN Silent ELSE first]
<1>2. work' = [work EXCEPT ![w] = me]
  BY Zenon, <1>1
<1>3. /\ Fields \subseteq DOMAIN me
      /\ me.pc = (IF inside THEN first.code ELSE "answer")
      /\ me.req = req /\ me.wrote = {}
  BY Zenon DEF Idle, Fields
<1> HIDE DEF me
<1>4. work'[w] = me /\ DOMAIN work' = Workers
  BY Zenon, <1>2 DEF IInv
<1>5. me.pc \in Writing => Entitled(w)'
  <2> SUFFICES ASSUME me.pc \in Writing PROVE Entitled(w)'
    OBVIOUS
  <2>1. inside /\ first.code \in Writing
    BY ZenonT(60), <1>3 DEF Writing
  <2>2. CASE Transport[w] = "api"
    <3>1. HandleHTTP(req, synced) \in Writing
      BY <2>1, <2>2 DEF Answer
    <3> QED BY ZenonT(60), <3>1, <2>2, <1>3, <1>4, WriteMeansToken DEF Entitled
  <2>3. CASE Transport[w] # "api"
    <3>1. Resolve(req, now).code = "process"
      BY <2>1, <2>3, DoHCodes, ResolveCodes
    <3> QED BY <3>1, <2>3, <1>3, <1>4, ProcessMeansSigned DEF Entitled
  <2> QED BY Zenon, <2>2, <2>3
<1>6. ASSUME NEW v \in Workers PROVE Sound(v)'
  <2>1. CASE v = w
    BY ZenonT(60), <2>1, <1>3, <1>4, <1>5 DEF Sound
  <2>2. CASE v # w
    <3>1. work'[v] = work[v]
      BY Zenon, <2>2, <1>2 DEF IInv
    <3> QED BY ZenonT(60), <3>1 DEF IInv, Sound, Entitled
  <2> QED BY <2>1, <2>2
<1> QED BY Zenon, <1>4, <1>6 DEF IInv
-----------------------------------------------------------------------------
(* The steps of a worker that do not write                                 *)

(* A worker that only has to say something: it has written nothing yet.    *)
LEMMA ReplyIInv ==
  ASSUME IInv, NEW w \in Workers, NEW answer,
         work[w].pc \notin {"write", "answer"}, Reply(w, answer)
  PROVE  IInv'
<1> DEFINE me == [work[w] EXCEPT !.pc = "answer", !.answer = answer]
<1>1. Fields \subseteq DOMAIN work[w] /\ work[w].wrote = {}
  BY Zenon DEF IInv, Sound
<1>2. work' = [work EXCEPT ![w] = me]
  BY ZenonT(60), <1>1 DEF Reply, IInv
<1>3. /\ Fields \subseteq DOMAIN me /\ me.pc = "answer"
      /\ me.req = work[w].req /\ me.wrote = work[w].wrote
  BY Zenon, <1>1 DEF Fields
<1> HIDE DEF me
<1> QED BY ZenonT(60), <1>1, <1>2, <1>3, OwnStep DEF Writing

(* The API reads.                                                          *)
LEMMA ReadIInv ==
  ASSUME IInv, NEW w \in Workers, Read(w)
  PROVE  IInv'
BY ZenonT(60), ReplyIInv DEF Read, ReplyCode

(* The API goes on to an upsert.                                           *)
LEMMA UpsertIInv ==
  ASSUME IInv, NEW w \in Workers, Upsert(w)
  PROVE  IInv'
<1> DEFINE d == work[w].req.domain
           me == [work[w] EXCEPT !.pc = "write",
                    !.states = [x \in {d} |-> RRSets(work[w].req.entries)], !.todo = {d}]
<1>1. Fields \subseteq DOMAIN work[w] /\ work[w].wrote = {} /\ work[w].pc = "upsert"
  BY Zenon DEF IInv, Sound, Upsert
<1>2. work' = [work EXCEPT ![w] = me]
  BY ZenonT(60), <1>1 DEF Upsert, IInv
<1>3. Fields \subseteq DOMAIN me /\ me.req = work[w].req /\ me.wrote = work[w].wrote
  BY Zenon, <1>1 DEF Fields
<1> HIDE DEF me
<1> QED BY ZenonT(60), <1>1, <1>2, <1>3, OwnStep DEF Writing

(* The API goes on to a deletion.                                          *)
LEMMA DeleteIInv ==
  ASSUME IInv, NEW w \in Workers, Delete(w)
  PROVE  IInv'
<1> DEFINE d == work[w].req.domain
           me == [work[w] EXCEPT !.pc = "write",
                    !.states = [x \in {d} |-> NoRecords], !.todo = {d}]
<1>1. Fields \subseteq DOMAIN work[w] /\ work[w].wrote = {} /\ work[w].pc = "delete"
  BY Zenon DEF IInv, Sound, Delete
<1>2. CASE Found(d)
  <2>1. work' = [work EXCEPT ![w] = me]
    BY ZenonT(60), <1>1, <1>2 DEF Delete, IInv
  <2>2. Fields \subseteq DOMAIN me /\ me.req = work[w].req /\ me.wrote = work[w].wrote
    BY Zenon, <1>1 DEF Fields
  <2> HIDE DEF me
  <2> QED BY ZenonT(60), <1>1, <2>1, <2>2, OwnStep DEF Writing
<1>3. CASE ~Found(d)
  BY ZenonT(60), <1>1, <1>3, ReplyIInv DEF Delete, ReplyCode
<1> QED BY Zenon, <1>2, <1>3

(* Goto leads an update from one of its stages to the next.                *)
LEMMA GotoIInv ==
  ASSUME IInv, NEW w \in Workers, NEW pc,
         work[w].pc \in Writing \ {"write"}, Goto(w, pc)
  PROVE  IInv'
<1> DEFINE me == [work[w] EXCEPT !.pc = pc, !.i = 1]
<1>1. Fields \subseteq DOMAIN work[w] /\ work[w].wrote = {}
  BY Zenon DEF IInv, Sound, Writing
<1>2. work' = [work EXCEPT ![w] = me]
  BY ZenonT(60), <1>1 DEF Goto, IInv
<1>3. Fields \subseteq DOMAIN me /\ me.req = work[w].req /\ me.wrote = work[w].wrote
  BY <1>1 DEF Fields
<1> HIDE DEF me
<1> QED BY ZenonT(60), <1>1, <1>2, <1>3, OwnStep

(* rfc2136.Process begins.                                                 *)
LEMMA ProcessIInv ==
  ASSUME IInv, NEW w \in Workers, Process(w)
  PROVE  IInv'
<1>1. work[w].pc = "process"
  BY Zenon DEF Process
<1>2. Goto(w, "prereqs") \/ \E a : Reply(w, a)
  BY ZenonT(60) DEF Process, ReplyCode
<1> QED BY <1>1, <1>2, GotoIInv, ReplyIInv DEF Writing

(* A prerequisite is checked.                                              *)
LEMMA CheckPrerequisiteIInv ==
  ASSUME IInv, NEW w \in Workers, CheckPrerequisite(w)
  PROVE  IInv'
<1> DEFINE me == [work[w] EXCEPT !.i = @ + 1]
<1>1. work[w].pc = "prereqs" /\ Fields \subseteq DOMAIN work[w] /\ work[w].wrote = {}
  BY Zenon DEF CheckPrerequisite, IInv, Sound
<1>2. \/ Goto(w, "load")
      \/ work' = [work EXCEPT ![w].i = @ + 1]
      \/ \E a : Reply(w, a)
  BY ZenonT(60) DEF CheckPrerequisite, ReplyCode
<1>3. CASE work' = [work EXCEPT ![w].i = @ + 1]
  <2>1. work' = [work EXCEPT ![w] = me]
    BY Zenon, <1>3 DEF IInv
  <2>2. Fields \subseteq DOMAIN me /\ me.req = work[w].req /\ me.wrote = work[w].wrote
    BY Zenon, <1>1 DEF Fields
  <2> HIDE DEF me
  <2> QED BY ZenonT(60), <1>1, <2>1, <2>2, OwnStep DEF Writing
<1> QED BY <1>1, <1>2, <1>3, GotoIInv, ReplyIInv DEF Writing

(* The updates are applied to copies.                                      *)
LEMMA LoadAndApplyIInv ==
  ASSUME IInv, NEW w \in Workers, LoadAndApply(w)
  PROVE  IInv'
<1>1. work[w].pc = "load" /\ Fields \subseteq DOMAIN work[w] /\ work[w].wrote = {}
  BY ZenonT(60) DEF LoadAndApply, IInv, Sound
<1>2. CASE work[w].i > Len(Body(w).updates)
  <2> DEFINE me == [work[w] EXCEPT !.pc = "write", !.todo = DOMAIN work[w].states]
  <2>1. work' = [work EXCEPT ![w] = me]
    BY ZenonT(60), <1>2 DEF LoadAndApply, IInv
  <2>2. Fields \subseteq DOMAIN me /\ me.req = work[w].req /\ me.wrote = work[w].wrote
    BY Zenon, <1>1 DEF Fields
  <2> HIDE DEF me
  <2> QED BY ZenonT(60), <1>1, <2>1, <2>2, OwnStep DEF Writing
<1>3. CASE ~(work[w].i > Len(Body(w).updates))
  <2>1. PICK states, base :
          work' = [work EXCEPT ![w].i = @ + 1, ![w].states = states, ![w].base = base]
    BY ZenonT(60), <1>3 DEF LoadAndApply
  <2> DEFINE me == [work[w] EXCEPT !.i = @ + 1, !.states = states, !.base = base]
  <2>2. work' = [work EXCEPT ![w] = me]
    BY ZenonT(60), <2>1 DEF IInv
  <2>3. Fields \subseteq DOMAIN me /\ me.req = work[w].req /\ me.wrote = work[w].wrote
        /\ me.pc = "load"
    BY Zenon, <1>1 DEF Fields
  <2> HIDE DEF me
  <2> QED BY ZenonT(60), <1>1, <2>2, <2>3, OwnStep DEF Writing
<1> QED BY Zenon, <1>2, <1>3

(* All record sets are written: the worker answers.                        *)
LEMMA FinishIInv ==
  ASSUME IInv, NEW w \in Workers, Finish(w)
  PROVE  IInv'
<1>1. work[w].pc = "write" /\ Fields \subseteq DOMAIN work[w]
  BY Zenon DEF Finish, IInv, Sound
<1>2. PICK a : Reply(w, a) /\ ~Refusal(a.code)
  BY DEF Finish, ReplyCode, Answer, Refusal
<1> DEFINE me == [work[w] EXCEPT !.pc = "answer", !.answer = a]
<1>3. work' = [work EXCEPT ![w] = me]
  BY ZenonT(60), <1>2 DEF Reply, IInv
<1>4. /\ Fields \subseteq DOMAIN me /\ me.pc = "answer" /\ me.answer = a
      /\ me.req = work[w].req /\ me.wrote = work[w].wrote
  BY Zenon, <1>1 DEF Fields
<1> HIDE DEF me
<1> QED BY ZenonT(60), <1>2, <1>3, <1>4, OwnStep DEF Writing

(* The answer is sent.                                                     *)
LEMMA SendIInv ==
  ASSUME IInv, NEW w \in Workers, Send(w)
  PROVE  IInv'
<1>1. work' = [work EXCEPT ![w] = Idle]
  BY Zenon DEF Send
<1>2. Fields \subseteq DOMAIN Idle /\ Idle.pc = "idle" /\ Idle.wrote = {}
  BY Zenon DEF Idle, Fields
<1>3. ASSUME NEW v \in Workers PROVE Sound(v)'
  <2>1. CASE v = w
    <3>1. work'[v] = Idle
      BY <1>1, <2>1 DEF IInv
    <3> QED BY Zenon, <3>1, <1>2 DEF Sound, Writing
  <2>2. CASE v # w
    <3>1. work'[v] = work[v]
      BY Zenon, <1>1, <2>2 DEF IInv
    <3> QED BY ZenonT(60), <3>1 DEF IInv, Sound, Entitled
  <2> QED BY Zenon, <2>1, <2>2
<1> QED BY Zenon, <1>1, <1>3 DEF IInv

-----------------------------------------------------------------------------
(* The steps that write                                                    *)

(* A commit leaves the other workers where they are.                       *)
LEMMA CommitIInv ==
  ASSUME IInv, NEW w \in Workers, NEW d, NEW t, NEW me, Commit(w, d, t, me),
         work[w].pc = "write", Fields \subseteq DOMAIN me, me.req = work[w].req,
         \/ me.pc = "write"
         \/ me.pc = "answer" /\ ~Refusal(me.answer.code)
  PROVE  IInv'
<1>1. DOMAIN work' = Workers
  BY Zenon DEF Commit
<1>2. ASSUME NEW v \in Workers PROVE Sound(v)'
  <2>0. Sound(v)
    BY Zenon DEF IInv
  <2>1. CASE v = w
    <3>1. work'[v] = [me EXCEPT !.wrote = IF t = tree THEN @ ELSE @ \cup {d}]
      BY Zenon, <2>1 DEF Commit
    <3>2. /\ Fields \subseteq DOMAIN work'[v] /\ work'[v].pc = me.pc
          /\ work'[v].req = me.req /\ work'[v].answer = me.answer
      BY Zenon, <3>1 DEF Fields
    <3>3. Entitled(v)' <=> Entitled(w)
      BY Zenon, <3>2, <2>1 DEF Entitled
    <3> QED BY <3>2, <3>3, <2>0, <2>1 DEF Sound, Writing
  <2>2. CASE v # w
    <3>1. \/ work'[v] = work[v]
          \/ work'[v] = [work[v] EXCEPT !.disturbed = @ \cup {d}]
      BY Zenon, <2>2 DEF Commit
    <3>2. /\ DOMAIN work'[v] = DOMAIN work[v] /\ work'[v].pc = work[v].pc
          /\ work'[v].req = work[v].req /\ work'[v].answer = work[v].answer
          /\ work'[v].wrote = work[v].wrote
      BY Zenon, <3>1, <2>0 DEF Sound, Fields
    <3> QED BY ZenonT(60), <3>2, <2>0 DEF Sound, Entitled
  <2> QED BY Zenon, <2>1, <2>2
<1> QED BY Zenon, <1>1, <1>2 DEF IInv

(* A record set is written.                                                *)
LEMMA WriteIInv ==
  ASSUME IInv, NEW w \in Workers, Write(w)
  PROVE  IInv'
<1>1. work[w].pc = "write" /\ Fields \subseteq DOMAIN work[w]
  BY Zenon DEF Write, IInv, Sound
<1>2. PICK d, t : Commit(w, d, t, [work[w] EXCEPT !.todo = @ \ {d}])
  BY ZenonT(60) DEF Write
<1> DEFINE me == [work[w] EXCEPT !.todo = @ \ {d}]
<1>3. Fields \subseteq DOMAIN me /\ me.req = work[w].req /\ me.pc = "write"
  BY Zenon, <1>1 DEF Fields
<1>4. Commit(w, d, t, me)
  BY Zenon, <1>2
<1> HIDE DEF me
<1> QED BY <1>1, <1>3, <1>4, CommitIInv

(* A write fails.                                                          *)
LEMMA WriteFailsIInv ==
  ASSUME IInv, NEW w \in Workers, WriteFails(w)
  PROVE  IInv'
<1> DEFINE a == IF Transport[w] = "api" THEN Answer("500", FALSE) ELSE Silent
           me == [work[w] EXCEPT !.pc = "answer", !.answer = a]
<1>1. work[w].pc = "write" /\ Fields \subseteq DOMAIN work[w]
  BY Zenon DEF WriteFails, IInv, Sound
<1>2. PICK d, t : Commit(w, d, t, me)
  BY Zenon DEF WriteFails
<1>3. ~Refusal(a.code)
  BY Zenon DEF Answer, Silent, Refusal
<1> HIDE DEF a
<1>4. /\ Fields \subseteq DOMAIN me /\ me.req = work[w].req
      /\ me.pc = "answer" /\ me.answer = a
  BY Zenon, <1>1 DEF Fields
<1> HIDE DEF me
<1> QED BY <1>1, <1>2, <1>3, <1>4, CommitIInv

-----------------------------------------------------------------------------
(* Every step keeps the inductive invariant.                               *)
LEMMA NextIInv == IInv /\ [Next]_vars => IInv'
<1> SUFFICES ASSUME IInv, [Next]_vars PROVE IInv'
  OBVIOUS
<1>1. CASE UNCHANGED vars
  BY ZenonT(60), <1>1 DEF vars, IInv, Sound, Entitled
<1>2. ASSUME NEW w \in Workers, Receive(w) \/ Step(w) PROVE IInv'
  BY <1>2, ReceiveIInv, ReadIInv, UpsertIInv, DeleteIInv, ProcessIInv,
     CheckPrerequisiteIInv, LoadAndApplyIInv, WriteIInv, WriteFailsIInv, FinishIInv,
     SendIInv DEF Step
<1> QED BY <1>1, <1>2 DEF Next

(* The inductive invariant holds in every reachable state.                 *)
LEMMA Invariance == Spec => []IInv
BY InitIInv, NextIInv, PTL DEF Spec

(* Whatever requests come in and however they interleave, a client that is *)
(* refused - by TSIG, the zone, a prerequisite, the API's checks - can     *)
(* rely on it that its request has written nothing.                        *)
THEOREM RefusalsAreClean == Spec => []RefusedChangesNothing
<1>1. IInv => RefusedChangesNothing
  BY Zenon DEF IInv, Sound, Refusal, RefusedChangesNothing
<1> QED BY <1>1, Invariance, PTL

(* The tree changes only in a write of a worker whose request was signed,  *)
(* with a secret of the key ring, over this very message, or carried the   *)
(* API's token: the check made on arrival holds for every later write.     *)
THEOREM WritesAreEntitled == Spec => OnlyEntitledWrites
<1> DEFINE A == tree' # tree => \E w \in Workers : /\ work[w].pc = "write"
                                                   /\ work'[w] # work[w]
                                                   /\ Entitled(w)
<1>1. IInv /\ [Next]_vars => [A]_vars
  <2> SUFFICES ASSUME IInv, Next, tree' # tree PROVE A
    BY Zenon DEF vars
  <2>1. PICK w \in Workers : Write(w) \/ WriteFails(w)
    BY ZenonT(60) DEF Next, Step, Receive, Read, Upsert, Delete, Process, CheckPrerequisite,
           LoadAndApply, Finish, Send, vars
  <2>2. /\ work[w].pc = "write" /\ Entitled(w) /\ Fields \subseteq DOMAIN work[w]
    BY Zenon, <2>1 DEF Write, WriteFails, IInv, Sound, Writing
  <2>3. work'[w] # work[w]
    <3>1. CASE Write(w)
      <4>1. PICK d, t : d \in work[w].todo /\ Commit(w, d, t, [work[w] EXCEPT !.todo = @ \ {d}])
        BY Zenon, <3>1 DEF Write
      <4>2. work'[w].todo = work[w].todo \ {d}
        BY ZenonT(60), <4>1, <2>2 DEF Commit, Fields
      <4>3. d \in work[w].todo
        BY Zenon, <4>1
      <4> QED BY <4>2, <4>3
    <3>2. CASE WriteFails(w)
      <4>1. PICK d, t, a : Commit(w, d, t, [work[w] EXCEPT !.pc = "answer", !.answer = a])
        BY ZenonT(60), <3>2 DEF WriteFails
      <4>2. work'[w].pc = "answer"
        BY ZenonT(60), <4>1, <2>2 DEF Commit, Fields
      <4> QED BY <4>2, <2>2
    <3> QED BY <2>1, <3>1, <3>2
  <2> QED BY Zenon, <2>2, <2>3
<1> QED BY <1>1, Invariance, PTL DEF Spec, OnlyEntitledWrites

-----------------------------------------------------------------------------
(* The empty function.                                                     *)
LEMMA NoneIn == DOMAIN <<>> = {}
OBVIOUS

-----------------------------------------------------------------------------
(* What the operations of an update do to the record sets of a name        *)

(* One operation adds and removes what it says, and nothing else.          *)
LEMMA HeldAfter ==
  ASSUME NEW sets, NEW up, NEW t, t # ANY, NEW x
  PROVE  x \in Held(ApplyUpdateOp(sets, up), t)
           <=> \/ Adds(up, Name(up), t, x)
               \/ x \in Held(sets, t) /\ ~Removes(up, Name(up), t, x)
<1> DEFINE u == up.type
           has == u \in DOMAIN sets
           after == ApplyUpdateOp(sets, up)
<1>1. CASE up.class = "IN" /\ u # ANY /\ up.data # NoData
  <2>1. after = With(sets, u, [ttl |-> up.ttl, data |-> {up.data} \cup (IF has THEN sets[u].data ELSE {})])
    BY Zenon, <1>1 DEF ApplyUpdateOp
  <2>2. ~Removes(up, Name(up), t, x)
    BY Zenon, <1>1 DEF Removes
  <2>3. CASE t = u
    <3>1. Held(after, t) = {up.data} \cup Held(sets, t)
      BY <2>1, <2>3 DEF Held, With
    <3> QED BY Zenon, <1>1, <2>2, <2>3, <3>1 DEF Adds
  <2>4. CASE t # u
    <3>1. Held(after, t) = Held(sets, t)
      BY <2>1, <2>4 DEF Held, With
    <3> QED BY Zenon, <2>2, <2>4, <3>1 DEF Adds
  <2> QED BY Zenon, <2>3, <2>4
<1>2. CASE up.class = "ANY" /\ u # ANY /\ up.ttl = 0 /\ up.data = NoData
  <2>1. after = Without(sets, u) /\ ~Adds(up, Name(up), t, x)
    BY Zenon, <1>2 DEF ApplyUpdateOp, Adds
  <2>2. Held(after, t) = IF t = u THEN {} ELSE Held(sets, t)
    BY <2>1 DEF Held, Without
  <2>3. Removes(up, Name(up), t, x) <=> t = u
    BY Zenon, <1>2 DEF Removes
  <2> QED BY Zenon, <2>1, <2>2, <2>3
<1>3. CASE up.class = "ANY" /\ u = ANY /\ up.ttl = 0 /\ up.data = NoData
  <2>1. after = NoRecords /\ ~Adds(up, Name(up), t, x) /\ Removes(up, Name(up), t, x)
    BY Zenon, <1>3 DEF ApplyUpdateOp, Adds, Removes
  <2> QED BY Zenon, <2>1, NoneIn DEF Held, NoRecords
<1>4. CASE up.class = "NONE" /\ u # ANY /\ up.ttl = 0 /\ up.data # NoData
  <2>1. ~Adds(up, Name(up), t, x) /\ (Removes(up, Name(up), t, x) <=> t = u /\ up.data = x)
    BY Zenon, <1>4 DEF Adds, Removes
  <2>2. CASE ~has
    BY Zenon, <1>4, <2>1, <2>2 DEF ApplyUpdateOp, Held
  <2>3. CASE has
    <3> DEFINE rest == sets[u].data \ {up.data}
    <3>1. after = IF rest = {} THEN Without(sets, u) ELSE WithData(sets, u, rest)
      BY Zenon, <1>4, <2>3 DEF ApplyUpdateOp
    <3>2. Held(after, t) = IF t = u THEN rest ELSE Held(sets, t)
      <4>1. CASE rest = {}
        <5>1. after = Without(sets, u)
          BY Zenon, <3>1, <4>1
        <5> HIDE DEF rest
        <5> QED BY <4>1, <5>1 DEF Held, Without
      <4>2. CASE rest # {}
        <5>1. after = With(sets, u, [ttl |-> sets[u].ttl, data |-> rest])
          BY Zenon, <3>1, <4>2 DEF WithData
        <5> HIDE DEF rest
        <5> QED BY <5>1 DEF Held, With
      <4> QED BY Zenon, <4>1, <4>2
    <3>3. t = u => Held(sets, t) = sets[u].data
      BY Zenon, <2>3 DEF Held
    <3> QED BY Zenon, <2>1, <3>2, <3>3
  <2> QED BY Zenon, <2>2, <2>3
<1>5. CASE /\ ~(up.class = "IN" /\ u # ANY /\ up.data # NoData)
           /\ ~(up.class = "ANY" /\ u # ANY /\ up.ttl = 0 /\ up.data = NoData)
           /\ ~(up.class = "ANY" /\ u = ANY /\ up.ttl = 0 /\ up.data = NoData)
           /\ ~(up.class = "NONE" /\ u # ANY /\ up.ttl = 0 /\ up.data # NoData)
  <2>1. after = sets
    BY Zenon, <1>5 DEF ApplyUpdateOp
  <2>2. ~Adds(up, Name(up), t, x) /\ ~Removes(up, Name(up), t, x)
    BY Zenon, <1>5 DEF Adds, Removes
  <2> QED BY Zenon, <2>1, <2>2
<1> QED BY Zenon, <1>1, <1>2, <1>3, <1>4, <1>5

(* A set that loses its last record is dropped.                            *)
LEMMA FullAfter ==
  ASSUME NEW sets, NEW up, Full(sets)
  PROVE  Full(ApplyUpdateOp(sets, up))
<1>1. Full(NoRecords)
  BY Zenon, NoneIn DEF Full, NoRecords
<1>2. \A t : Full(Without(sets, t))
  BY DEF Full, Without
<1>3. \A t, v : t # ANY /\ v.data # {} => Full(With(sets, t, v))
  BY DEF Full, With
<1>4. \A v, S : [ttl |-> v, data |-> S].data = S
  OBVIOUS
<1>5. \A S : {up.data} \cup S # {}
  BY Zenon
<1> QED BY Zenon, <1>1, <1>2, <1>3, <1>4, <1>5 DEF ApplyUpdateOp, WithData

(* What n + 1 operations ask for, from what n do.                          *)
LEMMA AskedNext ==
  ASSUME NEW sets, NEW ups, NEW n \in Nat, NEW d, NEW t, NEW x
  PROVE  x \in Asked(sets, ups, n + 1, d, t)
           <=> \/ Adds(ups[n+1], d, t, x)
               \/ x \in Asked(sets, ups, n, d, t) /\ ~Removes(ups[n+1], d, t, x)
<1> DEFINE From(i) == IF i = 0 THEN x \in Held(sets, t) ELSE Adds(ups[i], d, t, x)
           Stays(i, m) == \A j \in (i + 1)..m : ~Removes(ups[j], d, t, x)
<1>1. \A m \in Nat : x \in Asked(sets, ups, m, d, t) <=> \E i \in 0..m : From(i) /\ Stays(i, m)
  <2>1. \A i \in Nat : Adds(ups[i], d, t, x) => ups[i].data = x
    BY Zenon DEF Adds
  <2> QED BY <2>1 DEF Asked
<1>2. \A i \in 0..n : Stays(i, n + 1) <=> Stays(i, n) /\ ~Removes(ups[n+1], d, t, x)
  OBVIOUS
<1>3. Stays(n + 1, n + 1)
  OBVIOUS
<1>4. From(n + 1) <=> Adds(ups[n+1], d, t, x)
  OBVIOUS
<1>5. \A i : i \in 0..(n + 1) <=> i \in 0..n \/ i = n + 1
  OBVIOUS
<1>6. n + 1 \in Nat
  OBVIOUS
<1> HIDE DEF From, Stays
<1> QED BY Zenon, <1>1, <1>2, <1>3, <1>4, <1>5, <1>6

(* Operations on other names ask nothing of this one.                      *)
LEMMA AskedNone ==
  ASSUME NEW sets, NEW ups, NEW n \in Nat, NEW d, NEW t,
         \A j \in 1..n : Name(ups[j]) # d
  PROVE  Asked(sets, ups, n, d, t) = Held(sets, t)
<1>1. \A i \in 1..n : \A x : ~Adds(ups[i], d, t, x) /\ ~Removes(ups[i], d, t, x)
  BY Zenon DEF Adds, Removes
<1>2. 0 \in 0..n /\ (\A i \in 0..n : i # 0 => i \in 1..n) /\ (\A i \in (0 + 1)..n : i \in 1..n)
  OBVIOUS
<1> QED BY Zenon, <1>1, <1>2 DEF Asked

(* Asking again, of what was asked for, changes nothing.                   *)
LEMMA AskedAgain ==
  ASSUME NEW sets, NEW again, NEW ups, NEW n \in Nat, NEW d, NEW t,
         Held(again, t) = Asked(sets, ups, n, d, t)
  PROVE  Asked(again, ups, n, d, t) = Asked(sets, ups, n, d, t)
<1> DEFINE Stays(i, x) == \A j \in (i + 1)..n : ~Removes(ups[j], d, t, x)
<1>1. ASSUME NEW s, NEW x
      PROVE  x \in Asked(s, ups, n, d, t)
               <=> \/ x \in Held(s, t) /\ Stays(0, x)
                   \/ \E i \in 1..n : Adds(ups[i], d, t, x) /\ Stays(i, x)
  <2>1. \A i \in 1..n : Adds(ups[i], d, t, x) => ups[i].data = x
    BY Zenon DEF Adds
  <2>2. \A i : i \in 0..n <=> i = 0 \/ i \in 1..n
    OBVIOUS
  <2>3. \A i \in 1..n : i # 0
    OBVIOUS
  <2> HIDE DEF Stays
  <2>4. x \in Asked(s, ups, n, d, t) <=> 
          /\ x \in Held(s, t) \cup {ups[i].data : i \in 1..n}
          /\ \E i \in 0..n : (IF i = 0 THEN x \in Held(s, t) ELSE Adds(ups[i], d, t, x)) /\ Stays(i, x)
    BY Zenon DEF Asked, Stays
  <2> QED BY Zenon, <2>1, <2>2, <2>3, <2>4
<1> HIDE DEF Stays
<1>2. ASSUME NEW x PROVE x \in Asked(again, ups, n, d, t) <=> x \in Asked(sets, ups, n, d, t)
  <2>1. x \in Asked(again, ups, n, d, t)
               <=> \/ x \in Asked(sets, ups, n, d, t) /\ Stays(0, x)
                   \/ \E i \in 1..n : Adds(ups[i], d, t, x) /\ Stays(i, x)
    BY Zenon, <1>1
  <2>2. x \in Asked(sets, ups, n, d, t)
               <=> \/ x \in Held(sets, t) /\ Stays(0, x)
                   \/ \E i \in 1..n : Adds(ups[i], d, t, x) /\ Stays(i, x)
    BY Zenon, <1>1
  <2> QED BY Zenon, <2>1, <2>2
<1> QED BY Zenon, <1>2

-----------------------------------------------------------------------------
(* What a commit does to the tree                                          *)

(* A new serial touches no other type.                                     *)
LEMMA SerialOnly ==
  ASSUME NEW sets, "SOA" \in DOMAIN sets
  PROVE  /\ \A t : t # "SOA" => Held(IncrementSOASerial(sets), t) = Held(sets, t)
         /\ Full(sets) => Full(IncrementSOASerial(sets))
<1> DEFINE new == {serial + 1 : serial \in sets["SOA"].data}
           after == With(sets, "SOA", [ttl |-> sets["SOA"].ttl, data |-> new])
<1>1. IncrementSOASerial(sets) = after
  BY Zenon DEF IncrementSOASerial, WithData
<1>2. sets["SOA"].data # {} => new # {}
  BY Zenon
<1> HIDE DEF new
<1>3. DOMAIN after = DOMAIN sets /\ after["SOA"].data = new
      /\ \A t \in DOMAIN sets : t # "SOA" => after[t] = sets[t]
  BY DEF With
<1> HIDE DEF after
<1> QED BY Zenon, <1>1, <1>2, <1>3 DEF Held, Full

(* What was there of other names, and of their other types, is kept.       *)
Kept(t, u, d) ==
  \A e \in Domains \ {d} : \A y : y # "SOA" => Held(u[e], y) = Held(t[e], y)

(* What d holds now                                                        *)
Holds(u, d, sets) == \A y : y # "SOA" => Held(u[d], y) = Held(sets, y)

FullTree(t) == DOMAIN t = Domains /\ \A e \in Domains : Full(t[e])

(* autoIncrementSOA changes nothing but a serial.                          *)
LEMMA IncrementKeeps ==
  ASSUME NEW t, FullTree(t), NEW d, NEW u, u = IncrementApex(t, d)
  PROVE  FullTree(u) /\ \A e \in Domains : Holds(u, e, t[e])
<1>1. CASE u = t
  BY Zenon, <1>1 DEF Holds
<1>2. CASE "SOA" \in DOMAIN t[Apex] /\ u = [t EXCEPT ![Apex] = IncrementSOASerial(t[Apex])]
  <2>1. DOMAIN u = Domains
    BY Zenon, <1>2 DEF FullTree
  <2>2. \A e \in Domains : u[e] = IF e = Apex THEN IncrementSOASerial(t[Apex]) ELSE t[e]
    BY Zenon, <1>2 DEF FullTree
  <2> QED BY Zenon, <1>2, <2>1, <2>2, SerialOnly DEF FullTree, Holds
<1> QED BY Zenon, <1>1, <1>2 DEF IncrementApex

(* A commit that succeeds: d holds what it was given.                      *)
LEMMA AppliedKeeps ==
  ASSUME NEW t, FullTree(t), NEW d \in Domains, NEW sets, Full(sets),
         NEW u, u = Applied(t, d, sets)
  PROVE  FullTree(u) /\ Kept(t, u, d) /\ Holds(u, d, sets)
<1>1. CASE "SOA" \in DOMAIN sets
  <2>1. u = [t EXCEPT ![d] = IncrementSOASerial(sets)]
    BY Zenon, <1>1 DEF Applied
  <2>2. DOMAIN u = Domains /\ \A e \in Domains : u[e] = IF e = d THEN IncrementSOASerial(sets) ELSE t[e]
    BY Zenon, <2>1 DEF FullTree
  <2> QED BY Zenon, <1>1, <2>2, SerialOnly DEF FullTree, Kept, Holds
<1>2. CASE "SOA" \notin DOMAIN sets
  <2> DEFINE i == IncrementApex(t, d)
  <2>1. u = [i EXCEPT ![d] = sets]
    BY Zenon, <1>2 DEF Applied
  <2>2. FullTree(i) /\ \A e \in Domains : Holds(i, e, t[e])
    BY Zenon, IncrementKeeps
  <2> HIDE DEF i
  <2>3. DOMAIN u = Domains /\ \A e \in Domains : u[e] = IF e = d THEN sets ELSE i[e]
    BY Zenon, <2>1, <2>2 DEF FullTree
  <2> QED BY Zenon, <2>2, <2>3 DEF FullTree, Kept, Holds
<1> QED BY Zenon, <1>1, <1>2

(* One that fails: d holds what it was given, or what it held.             *)
LEMMA FailedKeeps ==
  ASSUME NEW t, FullTree(t), NEW d \in Domains, NEW sets, Full(sets),
         NEW u \in FailedCommits(t, d, sets)
  PROVE  FullTree(u) /\ Kept(t, u, d) /\ (Holds(u, d, t[d]) \/ Holds(u, d, sets))
<1>1. CASE u = t
  BY Zenon, <1>1 DEF Kept, Holds
<1>2. CASE u = IncrementApex(t, d)
  <2>1. FullTree(u) /\ \A e \in Domains : Holds(u, e, t[e])
    BY Zenon, <1>2, IncrementKeeps
  <2> QED BY Zenon, <2>1 DEF Kept, Holds
<1>3. CASE u = Applied(t, d, sets)
  BY Zenon, <1>3, AppliedKeeps
<1> QED BY Zenon, <1>1, <1>2, <1>3 DEF FailedCommits

-----------------------------------------------------------------------------
(* The inductive invariant behind TypeOK, UpdateApplied and ReapplyRepairs. *)
(* An update reads the tree name by name, computes on copies and writes    *)
(* back while others write too: what it has computed is what its first     *)
(* operations ask for, and a name nobody else wrote holds what was read    *)
(* until its turn to be written comes, and what was computed afterwards.   *)

Listed(body) ==
  /\ IsList(body.updates)
  /\ \A i \in DOMAIN body.updates : Name(body.updates[i]) \in Domains

(* The request is what its stage needs, and so are the copies.             *)
Shape(r) ==
  /\ r.pc \in PCs
  /\ r.pc \in {"process", "prereqs", "load"} => Listed(r.req.body)
  /\ r.pc = "upsert" => r.req.domain \in Domains /\ Full(RRSets(r.req.entries))
  /\ r.pc = "delete" => r.req.domain \in Domains
  /\ r.pc \notin {"load", "write", "answer"} => r.states = <<>> /\ r.base = <<>>
  /\ \A d \in DOMAIN r.states : d \in Domains /\ Full(r.states[d])
  /\ DOMAIN r.base \subseteq DOMAIN r.states
  /\ r.pc = "write" => r.todo \subseteq DOMAIN r.states

(* The copies are what the first n operations ask for.                     *)
Computed(r, n) ==
  \A d \in DOMAIN r.base : \A t : t # ANY =>
    Held(r.states[d], t) = Asked(r.base[d], r.req.body.updates, n, d, t)

Loaded(r) ==
  /\ r.pc = "load" =>
       /\ r.i \in 1..(Len(r.req.body.updates) + 1)
       /\ DOMAIN r.states = DOMAIN r.base
       /\ \A j \in 1..(r.i - 1) : Name(r.req.body.updates[j]) \in DOMAIN r.base
       /\ Computed(r, r.i - 1)
  /\ r.pc \in {"write", "answer"} /\ DOMAIN r.base # {} =>
       /\ Len(r.req.body.updates) \in Nat
       /\ Computed(r, Len(r.req.body.updates))

(* A name that nobody else wrote                                           *)
Untouched(r, tr) ==
  \A d \in DOMAIN r.base \ r.disturbed :
    /\ r.pc = "load" => Holds(tr, d, r.base[d])
    /\ r.pc = "write" => IF d \in r.todo THEN Holds(tr, d, r.base[d])
                                         ELSE Holds(tr, d, r.states[d])
    /\ r.pc = "answer" => \/ Holds(tr, d, r.states[d])
                          \/ Holds(tr, d, r.base[d]) /\ r.answer.code # "NOERROR"

Good(r, tr) == Shape(r) /\ Loaded(r) /\ Untouched(r, tr)

AllGood == FullTree(tree) /\ \A w \in Workers : Good(work[w], tree)

UInv ==
  /\ mode \in Modes /\ served \in 0..MaxRequests /\ faults \in 0..MaxFaults
  /\ AllGood

(* A worker that has computed nothing.                                     *)
LEMMA GoodFresh ==
  ASSUME NEW r, NEW tr, r.states = <<>>, r.base = <<>>, r.pc \in PCs \ {"load"},
         r.pc \in {"process", "prereqs"} => Listed(r.req.body),
         r.pc = "upsert" => r.req.domain \in Domains /\ Full(RRSets(r.req.entries)),
         r.pc = "delete" => r.req.domain \in Domains,
         r.pc = "write" => r.todo = {}
  PROVE  Good(r, tr)
BY Zenon, NoneIn DEF Good, Shape, Loaded, Untouched

(* A step of w that leaves the tree alone.                                 *)
LEMMA OwnGood ==
  ASSUME IInv, AllGood, NEW w \in Workers, NEW me, work' = [work EXCEPT ![w] = me],
         tree' = tree, Good(me, tree)
  PROVE  AllGood'
<1>1. \A v \in Workers : work'[v] = IF v = w THEN me ELSE work[v]
  BY Zenon DEF IInv
<1> QED BY Zenon, <1>1 DEF AllGood

(* A commit of d by w: the others lose at most d.                          *)
LEMMA CommitGood ==
  ASSUME IInv, AllGood, NEW w \in Workers, NEW d \in Domains, NEW u, NEW me,
         Commit(w, d, u, me), FullTree(u), Kept(tree, u, d),
         Good([me EXCEPT !.wrote = IF u = tree THEN @ ELSE @ \cup {d}], u)
  PROVE  AllGood'
<1>1. tree' = u
  BY Zenon DEF Commit
<1>2. ASSUME NEW v \in Workers PROVE Good(work'[v], u)
  <2>1. CASE v = w
    <3>1. work'[v] = [me EXCEPT !.wrote = IF u = tree THEN @ ELSE @ \cup {d}]
      BY Zenon, <2>1 DEF Commit
    <3> QED BY Zenon, <3>1
  <2>2. CASE v # w
    <3> DEFINE r == work[v]
               q == work'[v]
    <3>1. Good(r, tree) /\ Fields \subseteq DOMAIN r
      BY Zenon DEF AllGood, IInv, Sound
    <3>2. q = IF d \in DOMAIN r.base THEN [r EXCEPT !.disturbed = @ \cup {d}] ELSE r
      BY Zenon, <2>2 DEF Commit
    <3>3. /\ q.pc = r.pc /\ q.req = r.req /\ q.i = r.i /\ q.states = r.states
          /\ q.todo = r.todo /\ q.answer = r.answer /\ q.base = r.base
          /\ r.disturbed \subseteq q.disturbed
          /\ d \in DOMAIN r.base => d \in q.disturbed
      BY Zenon, <3>1, <3>2 DEF Fields
    <3> HIDE DEF r, q
    <3>4. Shape(q)
      BY Zenon, <3>1, <3>3 DEF Good, Shape
    <3>5. Loaded(q)
      <4>1. \A n : Computed(r, n) => Computed(q, n)
        BY Zenon, <3>3 DEF Computed
      <4> QED BY Zenon, <3>1, <3>3, <4>1 DEF Good, Loaded
    <3>6. \A e \in DOMAIN q.base \ q.disturbed : e \in DOMAIN r.base \ r.disturbed /\ e \in Domains \ {d}
      BY Zenon, <3>1, <3>3 DEF Good, Shape
    <3>7. \A e \in Domains \ {d} : \A x : Holds(tree, e, x) => Holds(u, e, x)
      BY Zenon DEF Kept, Holds
    <3>8. Untouched(q, u)
      BY Zenon, <3>1, <3>3, <3>6, <3>7 DEF Good, Untouched
    <3> QED BY Zenon, <3>4, <3>5, <3>8 DEF Good, q
  <2> QED BY Zenon, <2>1, <2>2
<1> QED BY Zenon, <1>1, <1>2 DEF AllGood

(* The lists of a request that are not empty have an element.              *)
LEMMA ListHasFirst ==
  ASSUME NEW s, IsList(s), s # <<>>
  PROVE  DOMAIN s # {}
<1>1. s \in Seq({s[i] : i \in DOMAIN s})
  BY Zenon DEF IsList
<1>2. ASSUME NEW S, NEW q \in Seq(S), q # <<>> PROVE DOMAIN q # {}
  <2>1. Len(q) \in Nat /\ Len(q) # 0 /\ DOMAIN q = 1..Len(q)
    BY <1>2
  <2>2. 1 \in DOMAIN q
    BY <2>1
  <2> QED BY Zenon, <2>2
<1> QED BY Zenon, <1>1, <1>2

(* The API refuses a set without data.                                     *)
LEMMA RRSetsFull ==
  ASSUME NEW entries, RRSets(entries) # NoRecords,
         \A i \in DOMAIN entries : IsList(entries[i].data)
  PROVE  Full(RRSets(entries))
<1> DEFINE types == {entries[i].type : i \in DOMAIN entries}
           e(t) == entries[CHOOSE i \in DOMAIN entries : entries[i].type = t]
<1>1. /\ ANY \notin types /\ \A i \in DOMAIN entries : entries[i].data # <<>>
      /\ RRSets(entries) = [t \in types |-> [ttl |-> e(t).ttl, data |-> {e(t).data[i] : i \in DOMAIN e(t).data}]]
  BY Zenon DEF RRSets, BadEntry
<1>2. ASSUME NEW t \in types
      PROVE  t # ANY /\ {e(t).data[i] : i \in DOMAIN e(t).data} # {}
  <2>1. \E i \in DOMAIN entries : e(t) = entries[i]
    BY Zenon
  <2>2. DOMAIN e(t).data # {}
    BY Zenon, <1>1, <2>1, ListHasFirst
  <2> HIDE DEF e, types
  <2>3. t # ANY
    BY Zenon, <1>1
  <2> QED BY Zenon, <2>2, <2>3
<1> HIDE DEF types, e
<1>3. /\ DOMAIN RRSets(entries) = types
      /\ \A t \in types : RRSets(entries)[t].data = {e(t).data[i] : i \in DOMAIN e(t).data}
  BY <1>1
<1> QED BY Zenon, <1>2, <1>3 DEF Full

(* The API reaches the tree by its own ways only.                          *)
LEMMA HTTPCodes ==
  ASSUME NEW req, NEW synced
  PROVE  /\ HandleHTTP(req, synced) # "process"
         /\ HandleHTTP(req, synced) \in {"upsert", "delete"} => req.domain # "invalid"
         /\ HandleHTTP(req, synced) = "upsert" => RRSets(req.entries) # NoRecords
BY Zenon DEF HandleHTTP

(* A request arrives.                                                      *)
LEMMA ReceiveGood ==
  ASSUME IInv, AllGood, NEW w \in Workers, Receive(w)
  PROVE  AllGood'
<1>1. PICK req \in Asks[w], now \in Clocks, synced \in BOOLEAN :
        LET first ==
              IF Transport[w] = "api" THEN Answer(HandleHTTP(req, synced), FALSE)
              ELSE IF Transport[w] = "doh" THEN HandleDoH(req)
              ELSE Resolve(req, now)
            inside == first.code \in {"process", "read", "upsert", "delete"}
        IN  work' = [work EXCEPT ![w] =
                       [Idle EXCEPT !.pc = IF inside THEN first.code ELSE "answer",
                                    !.req = req,
                                    !.answer = IF inside THEN Silent ELSE first]]
  BY ZenonT(60) DEF Receive
<1> DEFINE first == IF Transport[w] = "api" THEN Answer(HandleHTTP(req, synced), FALSE)
                    ELSE IF Transport[w] = "doh" THEN HandleDoH(req)
                    ELSE Resolve(req, now)
           inside == first.code \in {"process", "read", "upsert", "delete"}
           me == [Idle EXCEPT !.pc = IF inside THEN first.code ELSE "answer",
                              !.req = req,
                              !.answer = IF inside THEN Silent ELSE first]
<1>2. work' = [work EXCEPT ![w] = me] /\ tree' = tree
  BY Zenon, <1>1 DEF Receive
<1>3. /\ me.pc = (IF inside THEN first.code ELSE "answer")
      /\ me.req = req /\ me.states = <<>> /\ me.base = <<>>
  BY Zenon DEF Idle
<1> HIDE DEF me
<1>4. first.code = "process" => Listed(req.body)
  <2> SUFFICES ASSUME first.code = "process" PROVE Listed(req.body)
    OBVIOUS
  <2>1. Transport[w] \notin {"api", "doh"}
    BY Zenon, DoHCodes, HTTPCodes DEF Answer
  <2>2. Transport[w] \in {"udp", "tcp"}
    BY Zenon, <2>1, RequestsAssumption
  <2> QED BY Zenon, <2>2, RequestsAssumption DEF Listed, Name
<1>5. ASSUME first.code \in {"upsert", "delete"}
      PROVE  /\ req.domain \in Domains
             /\ first.code = "upsert" => Full(RRSets(req.entries))
  <2>1. Transport[w] = "api"
    BY Zenon, <1>5, DoHCodes, ResolveCodes
  <2>2. first.code = HandleHTTP(req, synced)
    BY Zenon, <2>1 DEF Answer
  <2>3. /\ req.domain \in Domains \cup {"invalid"}
        /\ \A i \in DOMAIN req.entries : IsList(req.entries[i].data)
    BY Zenon, <2>1, RequestsAssumption
  <2> HIDE DEF first
  <2>4. req.domain # "invalid"
    BY Zenon, <1>5, <2>2, HTTPCodes
  <2>5. first.code = "upsert" => Full(RRSets(req.entries))
    BY Zenon, <2>2, <2>3, HTTPCodes, RRSetsFull
  <2> QED BY Zenon, <2>3, <2>4, <2>5
<1> HIDE DEF first
<1>6. Good(me, tree)
  BY Zenon, <1>3, <1>4, <1>5, GoodFresh DEF PCs
<1> QED BY Zenon, <1>2, <1>6, OwnGood

(* A worker that has read nothing of the tree answers.                     *)
LEMMA ReplyGood ==
  ASSUME IInv, AllGood, NEW w \in Workers, NEW answer,
         work[w].pc \notin {"load", "write", "answer"}, Reply(w, answer), tree' = tree
  PROVE  AllGood'
<1> DEFINE me == [work[w] EXCEPT !.pc = "answer", !.answer = answer]
<1>1. Fields \subseteq DOMAIN work[w] /\ work[w].states = <<>> /\ work[w].base = <<>>
  BY Zenon DEF IInv, Sound, AllGood, Good, Shape
<1>2. work' = [work EXCEPT ![w] = me]
  BY ZenonT(60), <1>1 DEF Reply, IInv
<1>3. me.pc = "answer" /\ me.states = <<>> /\ me.base = <<>>
  BY Zenon, <1>1 DEF Fields
<1> HIDE DEF me
<1>4. Good(me, tree)
  BY Zenon, <1>3, GoodFresh DEF PCs
<1> QED BY Zenon, <1>2, <1>4, OwnGood

(* The API reads, or goes on to write one name.                            *)
LEMMA ApiGood ==
  ASSUME IInv, AllGood, NEW w \in Workers, Read(w) \/ Upsert(w) \/ Delete(w)
  PROVE  AllGood'
<1> DEFINE d == work[w].req.domain
<1>0. /\ tree' = tree /\ work[w].pc \in {"read", "upsert", "delete"}
      /\ Fields \subseteq DOMAIN work[w] /\ work[w].base = <<>>
  BY Zenon DEF Read, Upsert, Delete, IInv, Sound, AllGood, Good, Shape
<1>1. \/ \E a : Reply(w, a)
      \/ \E sets : /\ d \in Domains /\ Full(sets)
                   /\ work' = [work EXCEPT ![w].pc = "write", ![w].states = [x \in {d} |-> sets],
                                           ![w].todo = {d}]
  <2>1. Full(NoRecords)
    BY Zenon, NoneIn DEF Full, NoRecords
  <2>2. Shape(work[w])
    BY Zenon DEF AllGood, Good
  <2>3. CASE Read(w)
    BY Zenon, <2>3 DEF Read, ReplyCode
  <2>4. CASE Upsert(w)
    BY Zenon, <2>2, <2>4 DEF Upsert, Shape
  <2>5. CASE Delete(w)
    BY Zenon, <2>1, <2>2, <2>5 DEF Delete, Shape, ReplyCode
  <2> QED BY Zenon, <2>3, <2>4, <2>5
<1>2. CASE \E a : Reply(w, a)
  BY Zenon, <1>0, <1>2, ReplyGood
<1>3. ASSUME NEW sets, d \in Domains, Full(sets),
             work' = [work EXCEPT ![w].pc = "write", ![w].states = [x \in {d} |-> sets],
                                  ![w].todo = {d}]
      PROVE  AllGood'
  <2> DEFINE me == [work[w] EXCEPT !.pc = "write", !.states = [x \in {d} |-> sets], !.todo = {d}]
  <2>1. work' = [work EXCEPT ![w] = me]
    BY ZenonT(60), <1>0, <1>3 DEF IInv
  <2>2. /\ me.pc = "write" /\ me.base = <<>> /\ me.todo = {d}
        /\ me.states = [x \in {d} |-> sets]
    BY Zenon, <1>0 DEF Fields
  <2> HIDE DEF me
  <2>3. DOMAIN me.states = {d} /\ me.states[d] = sets
    BY Zenon, <2>2
  <2>4. Good(me, tree)
    BY Zenon, <1>3, <2>2, <2>3, NoneIn DEF Good, Shape, Loaded, Untouched, PCs
  <2> QED BY Zenon, <1>0, <2>1, <2>4, OwnGood
<1> QED BY Zenon, <1>1, <1>2, <1>3

(* A list has a length.                                                    *)
LEMMA ListLength ==
  ASSUME NEW s, IsList(s)
  PROVE  Len(s) \in Nat /\ DOMAIN s = 1..Len(s)
<1>1. s \in Seq({s[i] : i \in DOMAIN s})
  BY Zenon DEF IsList
<1>2. ASSUME NEW S, NEW q \in Seq(S) PROVE Len(q) \in Nat /\ DOMAIN q = 1..Len(q)
  BY <1>2
<1> QED BY Zenon, <1>1, <1>2

(* An update whose zone is looked at, or whose prerequisites are: nothing  *)
(* has been computed when the first operation's turn comes.                *)
LEMMA CheckGood ==
  ASSUME IInv, AllGood, NEW w \in Workers, Process(w) \/ CheckPrerequisite(w)
  PROVE  AllGood'
<1>0. /\ tree' = tree /\ work[w].pc \in {"process", "prereqs"}
      /\ Fields \subseteq DOMAIN work[w] /\ Listed(work[w].req.body)
      /\ work[w].states = <<>> /\ work[w].base = <<>>
  BY Zenon DEF Process, CheckPrerequisite, IInv, Sound, AllGood, Good, Shape
<1>1. \/ \E a : Reply(w, a)
      \/ Goto(w, "prereqs")
      \/ Goto(w, "load")
      \/ work' = [work EXCEPT ![w].i = @ + 1]
  BY ZenonT(60) DEF Process, CheckPrerequisite, ReplyCode
<1>2. CASE \E a : Reply(w, a)
  BY Zenon, <1>0, <1>2, ReplyGood
<1>3. CASE Goto(w, "prereqs")
  <2> DEFINE me == [work[w] EXCEPT !.pc = "prereqs", !.i = 1]
  <2>1. work' = [work EXCEPT ![w] = me]
    BY ZenonT(60), <1>0, <1>3 DEF Goto, IInv
  <2>2. me.pc = "prereqs" /\ me.req = work[w].req /\ me.states = <<>> /\ me.base = <<>>
    BY Zenon, <1>0 DEF Fields
  <2> HIDE DEF me
  <2>3. Good(me, tree)
    BY Zenon, <1>0, <2>2, GoodFresh DEF PCs
  <2> QED BY Zenon, <1>0, <2>1, <2>3, OwnGood
<1>4. CASE Goto(w, "load")
  <2> DEFINE me == [work[w] EXCEPT !.pc = "load", !.i = 1]
  <2>1. work' = [work EXCEPT ![w] = me]
    BY ZenonT(60), <1>0, <1>4 DEF Goto, IInv
  <2>2. me.pc = "load" /\ me.req = work[w].req /\ me.states = <<>> /\ me.base = <<>> /\ me.i = 1
    BY Zenon, <1>0 DEF Fields
  <2> HIDE DEF me
  <2>3. Len(me.req.body.updates) \in Nat
    BY Zenon, <1>0, <2>2, ListLength DEF Listed
  <2>4. me.i \in 1..(Len(me.req.body.updates) + 1) /\ 1..(me.i - 1) = {}
    BY <2>2, <2>3
  <2>5. Shape(me) /\ Untouched(me, tree)
    BY Zenon, <1>0, <2>2, NoneIn DEF Shape, Untouched, PCs
  <2>6. Loaded(me)
    BY Zenon, <2>2, <2>4, NoneIn DEF Loaded, Computed
  <2> QED BY Zenon, <1>0, <2>1, <2>5, <2>6, OwnGood DEF Good
<1>5. CASE work' = [work EXCEPT ![w].i = @ + 1]
  <2> DEFINE me == [work[w] EXCEPT !.i = @ + 1]
  <2>1. work' = [work EXCEPT ![w] = me]
    BY Zenon, <1>5 DEF IInv
  <2>2. /\ me.pc = work[w].pc /\ me.req = work[w].req
        /\ me.states = <<>> /\ me.base = <<>>
    BY Zenon, <1>0 DEF Fields
  <2> HIDE DEF me
  <2>3. Good(me, tree)
    BY Zenon, <1>0, <2>2, GoodFresh DEF PCs
  <2> QED BY Zenon, <1>0, <2>1, <2>3, OwnGood
<1> QED BY Zenon, <1>1, <1>2, <1>3, <1>4, <1>5

(* The last operation has been applied to the copies.                      *)
LEMMA LoadEndGood ==
  ASSUME IInv, AllGood, NEW w \in Workers, LoadAndApply(w),
         work[w].i > Len(work[w].req.body.updates)
  PROVE  AllGood'
<1> DEFINE r == work[w]
           me == [r EXCEPT !.pc = "write", !.todo = DOMAIN r.states]
<1>0. /\ tree' = tree /\ r.pc = "load" /\ Fields \subseteq DOMAIN r
      /\ Shape(r) /\ Loaded(r) /\ Untouched(r, tree)
  BY Zenon DEF LoadAndApply, IInv, Sound, AllGood, Good
<1>1. work' = [work EXCEPT ![w] = me]
  <2>1. work' = [work EXCEPT ![w].pc = "write", ![w].todo = DOMAIN work[w].states]
    BY Zenon DEF LoadAndApply, Body
  <2> QED BY ZenonT(60), <1>0, <2>1 DEF IInv
<1>2. /\ me.pc = "write" /\ me.req = r.req /\ me.todo = DOMAIN r.states
      /\ me.states = r.states /\ me.base = r.base /\ me.disturbed = r.disturbed
  BY Zenon, <1>0 DEF Fields
<1> HIDE DEF me
<1>3. Len(r.req.body.updates) \in Nat /\ r.i - 1 = Len(r.req.body.updates)
  <2>1. Len(r.req.body.updates) \in Nat
    BY Zenon, <1>0, ListLength DEF Shape, Listed
  <2>2. r.i \in 1..(Len(r.req.body.updates) + 1)
    BY Zenon, <1>0 DEF Loaded
  <2>3. r.i > Len(r.req.body.updates)
    BY Zenon
  <2>4. \A i, n : n \in Nat /\ i \in 1..(n + 1) /\ i > n => i - 1 = n
    OBVIOUS
  <2> HIDE DEF r
  <2> QED BY Zenon, <2>1, <2>2, <2>3, <2>4
<1> HIDE DEF r
<1>4. Shape(me) /\ Untouched(me, tree)
  BY Zenon, <1>0, <1>2 DEF Shape, Untouched, PCs
<1>5. Loaded(me)
  BY Zenon, <1>0, <1>2, <1>3 DEF Loaded, Computed
<1> QED BY Zenon, <1>0, <1>1, <1>4, <1>5, OwnGood DEF Good

(* One operation is applied to a copy.                                     *)
LEMMA LoadStepGood ==
  ASSUME IInv, AllGood, NEW w \in Workers, LoadAndApply(w),
         ~(work[w].i > Len(work[w].req.body.updates))
  PROVE  AllGood'
<1> DEFINE r == work[w]
           ups == r.req.body.updates
           up == ups[r.i]
           d == Name(up)
           loaded == d \in DOMAIN r.states
           current == IF loaded THEN r.states[d] ELSE tree[d]
           after == ApplyUpdateOp(current, up)
           first == IF loaded THEN r.base ELSE With(r.base, d, tree[d])
           me == [r EXCEPT !.i = r.i + 1, !.states = With(r.states, d, after), !.base = first]
<1>0. /\ tree' = tree /\ r.pc = "load" /\ Fields \subseteq DOMAIN r
      /\ Shape(r) /\ Loaded(r) /\ Untouched(r, tree) /\ FullTree(tree)
  BY Zenon DEF LoadAndApply, IInv, Sound, AllGood, Good
<1>1. work' = [work EXCEPT ![w] = me]
  <2>1. work' = [work EXCEPT ![w].i = @ + 1,
                             ![w].states = With(@, d, after),
                             ![w].base = IF loaded THEN @ ELSE With(@, d, tree[d])]
    BY Zenon DEF LoadAndApply, Body
  <2> HIDE DEF d, after, loaded
  <2>2. DOMAIN work = Workers /\ {"i", "states", "base"} \subseteq DOMAIN work[w]
    BY Zenon, <1>0 DEF IInv, Fields
  <2> QED BY <2>1, <2>2
<1>2. /\ me.pc = "load" /\ me.req = r.req /\ me.i = r.i + 1
      /\ me.states = With(r.states, d, after) /\ me.base = first
      /\ me.disturbed = r.disturbed
  BY Zenon, <1>0 DEF Fields
<1> HIDE DEF me
<1>3. /\ Len(ups) \in Nat /\ DOMAIN ups = 1..Len(ups)
      /\ \A i \in DOMAIN ups : Name(ups[i]) \in Domains
  BY Zenon, <1>0, ListLength DEF Shape, Listed
<1>4. /\ r.i \in 1..(Len(ups) + 1) /\ DOMAIN r.states = DOMAIN r.base
      /\ \A j \in 1..(r.i - 1) : Name(ups[j]) \in DOMAIN r.base
      /\ Computed(r, r.i - 1)
  BY Zenon, <1>0 DEF Loaded
<1>5. /\ r.i \in DOMAIN ups /\ r.i + 1 \in 1..(Len(ups) + 1)
      /\ r.i - 1 \in Nat /\ r.i - 1 + 1 = r.i /\ r.i + 1 - 1 = r.i
      /\ \A j \in 1..r.i : j = r.i \/ j \in 1..(r.i - 1)
  <2>1. ~(r.i > Len(ups))
    BY Zenon
  <2>2. \A i, n : n \in Nat /\ i \in 1..(n + 1) /\ ~(i > n) =>
          /\ i \in 1..n /\ i + 1 \in 1..(n + 1)
          /\ i - 1 \in Nat /\ i - 1 + 1 = i /\ i + 1 - 1 = i
          /\ \A j \in 1..i : j = i \/ j \in 1..(i - 1)
    OBVIOUS
  <2> HIDE DEF r, ups
  <2> QED BY Zenon, <1>3, <1>4, <2>1, <2>2
<1>6. d \in Domains
  BY Zenon, <1>3, <1>5
<1>7. \A e \in DOMAIN r.states : e \in Domains /\ Full(r.states[e])
  BY Zenon, <1>0 DEF Shape
<1>8. Full(after)
  BY Zenon, <1>0, <1>6, <1>7, FullAfter DEF FullTree
<1>9. \A t, x : t # ANY =>
        (x \in Held(after, t) <=> Adds(up, d, t, x) \/ (x \in Held(current, t) /\ ~Removes(up, d, t, x)))
  BY Zenon, HeldAfter
<1>10. /\ DOMAIN me.states = DOMAIN r.states \cup {d} /\ me.states[d] = after
       /\ \A e \in DOMAIN r.states : e # d => me.states[e] = r.states[e]
  BY Zenon, <1>2 DEF With
<1>11. /\ DOMAIN me.base = DOMAIN r.base \cup {d}
       /\ \A e \in DOMAIN r.base : me.base[e] = r.base[e]
       /\ ~loaded => me.base[d] = tree[d]
  <2>1. CASE loaded
    <3>1. me.base = r.base /\ d \in DOMAIN r.base
      BY Zenon, <2>1, <1>2, <1>4
    <3> HIDE DEF loaded, d
    <3> QED BY Zenon, <3>1, <2>1
  <2>2. CASE ~loaded
    <3>1. me.base = With(r.base, d, tree[d]) /\ d \notin DOMAIN r.base
      BY Zenon, <2>2, <1>2, <1>4
    <3> HIDE DEF loaded, d
    <3> QED BY Zenon, <3>1 DEF With
  <2> QED BY Zenon, <2>1, <2>2
<1>12. \A t : t # ANY => Held(current, t) = Asked(me.base[d], ups, r.i - 1, d, t)
  <2>1. CASE loaded
    <3>1. d \in DOMAIN r.base /\ me.base[d] = r.base[d] /\ current = r.states[d]
      BY Zenon, <2>1, <1>4, <1>11
    <3> HIDE DEF current, loaded, d
    <3> QED BY Zenon, <3>1, <1>4 DEF Computed
  <2>2. CASE ~loaded
    <3>1. me.base[d] = tree[d] /\ current = tree[d] /\ d \notin DOMAIN r.base
      BY Zenon, <2>2, <1>4, <1>11
    <3> HIDE DEF current, loaded, d
    <3>2. \A j \in 1..(r.i - 1) : Name(ups[j]) # d
      BY Zenon, <3>1, <1>4
    <3> DEFINE n == r.i - 1
    <3>3. n \in Nat /\ \A j \in 1..n : Name(ups[j]) # d
      BY Zenon, <3>2, <1>5
    <3> HIDE DEF n, ups
    <3>4. \A t : Asked(tree[d], ups, n, d, t) = Held(tree[d], t)
      BY Zenon, <3>3, AskedNone
    <3> QED BY Zenon, <3>1, <3>4 DEF n
  <2> QED BY Zenon, <2>1, <2>2
<1> HIDE DEF current, after, loaded, first
<1>13. \A b, e, t, x : x \in Asked(b, ups, r.i, e, t)
         <=> Adds(up, e, t, x) \/ (x \in Asked(b, ups, r.i - 1, e, t) /\ ~Removes(up, e, t, x))
  BY <1>5, AskedNext
<1>14. Computed(me, r.i)
  <2> SUFFICES ASSUME NEW e \in DOMAIN me.base, NEW t, t # ANY
               PROVE  Held(me.states[e], t) = Asked(me.base[e], ups, r.i, e, t)
    BY Zenon, <1>2 DEF Computed
  <2>1. CASE e = d
    <3> DEFINE held == Held(current, t)
               asked == Asked(me.base[d], ups, r.i - 1, d, t)
    <3>0. /\ held = asked
          /\ \A x : x \in Held(after, t)
                      <=> Adds(up, d, t, x) \/ (x \in held /\ ~Removes(up, d, t, x))
          /\ \A x : x \in Asked(me.base[d], ups, r.i, d, t)
                      <=> Adds(up, d, t, x) \/ (x \in asked /\ ~Removes(up, d, t, x))
      BY Zenon, <1>9, <1>12, <1>13
    <3> HIDE DEF up, d, ups, held, asked
    <3>1. \A x : x \in Held(after, t) <=> x \in Asked(me.base[d], ups, r.i, d, t)
      BY Zenon, <3>0
    <3>2. \A x : x \in Held(me.states[e], t) <=> x \in Asked(me.base[e], ups, r.i, e, t)
      BY Zenon, <2>1, <3>1, <1>10
    <3> QED BY <3>2
  <2>2. CASE e # d
    <3>1. \A x : ~Adds(up, e, t, x) /\ ~Removes(up, e, t, x)
      BY Zenon, <2>2 DEF Adds, Removes
    <3> HIDE DEF up, d, ups
    <3>2. e \in DOMAIN r.base /\ me.base[e] = r.base[e] /\ me.states[e] = r.states[e]
      BY Zenon, <2>2, <1>4, <1>10, <1>11
    <3>3. Held(r.states[e], t) = Asked(r.base[e], ups, r.i - 1, e, t)
      BY Zenon, <3>2, <1>4 DEF Computed, ups
    <3> HIDE DEF r
    <3>4. \A x : x \in Held(me.states[e], t) <=> x \in Asked(me.base[e], ups, r.i, e, t)
      BY Zenon, <3>1, <3>2, <3>3, <1>13
    <3> QED BY <3>4
  <2> QED BY Zenon, <2>1, <2>2
<1>15. Loaded(me)
  <2>1. \A j \in 1..r.i : Name(ups[j]) \in DOMAIN me.base
    BY Zenon, <1>4, <1>5, <1>11
  <2>2. me.i - 1 = r.i
    <3>1. r.i \in Int /\ me.i = r.i + 1
      BY <1>2, <1>4
    <3> HIDE DEF r
    <3> QED BY ONLY <3>1
  <2>3. DOMAIN me.states = DOMAIN me.base
    BY Zenon, <1>4, <1>10, <1>11
  <2>4. me.i \in 1..(Len(ups) + 1) /\ me.req = r.req /\ me.pc = "load"
    BY Zenon, <1>2, <1>5
  <2>5. (\A j \in 1..(me.i - 1) : Name(ups[j]) \in DOMAIN me.base) /\ Computed(me, me.i - 1)
    BY <2>1, <2>2, <1>14
  <2> QED BY Zenon, <2>3, <2>4, <2>5 DEF Loaded
<1> HIDE DEF d, up, ups
<1>16. Shape(me)
  <2>1. \A e \in DOMAIN me.states : e \in Domains /\ Full(me.states[e])
    BY Zenon, <1>6, <1>7, <1>8, <1>10
  <2>2. DOMAIN me.base \subseteq DOMAIN me.states
    BY Zenon, <1>4, <1>10, <1>11
  <2>3. Listed(me.req.body)
    BY Zenon, <1>0, <1>2 DEF Shape
  <2> QED BY Zenon, <1>2, <2>1, <2>2, <2>3 DEF Shape, PCs
<1>17. Untouched(me, tree)
  <2>1. \A e \in DOMAIN me.base \ r.disturbed : Holds(tree, e, me.base[e])
    BY Zenon, <1>0, <1>4, <1>11 DEF Untouched, Holds, loaded
  <2> QED BY Zenon, <2>1, <1>2 DEF Untouched
<1> HIDE DEF r
<1> QED BY Zenon, <1>0, <1>1, <1>15, <1>16, <1>17, OwnGood DEF Good

(* A name is written, and holds what was computed for it.                  *)
LEMMA WriteGood ==
  ASSUME IInv, AllGood, NEW w \in Workers, Write(w)
  PROVE  AllGood'
<1> DEFINE r == work[w]
<1>0. /\ r.pc = "write" /\ Fields \subseteq DOMAIN r
      /\ Shape(r) /\ Loaded(r) /\ Untouched(r, tree) /\ FullTree(tree)
  BY Zenon DEF Write, IInv, Sound, AllGood, Good
<1>1. PICK d \in r.todo : Commit(w, d, Applied(tree, d, r.states[d]), [r EXCEPT !.todo = @ \ {d}])
  BY Zenon DEF Write
<1> DEFINE u == Applied(tree, d, r.states[d])
           me == [r EXCEPT !.todo = @ \ {d}]
           mine == [me EXCEPT !.wrote = IF u = tree THEN @ ELSE @ \cup {d}]
<1>2. d \in DOMAIN r.states /\ d \in Domains /\ Full(r.states[d])
  BY Zenon, <1>0 DEF Shape
<1>3. FullTree(u) /\ Kept(tree, u, d) /\ Holds(u, d, r.states[d])
  BY Zenon, <1>0, <1>2, AppliedKeeps
<1>4. Commit(w, d, u, me)
  BY Zenon, <1>1
<1>5. /\ mine.pc = "write" /\ mine.req = r.req /\ mine.todo = r.todo \ {d}
      /\ mine.states = r.states /\ mine.base = r.base /\ mine.disturbed = r.disturbed
  <2> HIDE DEF u
  <2> QED BY ZenonT(60), <1>0 DEF Fields
<1> HIDE DEF u, mine, r
<1>6. Shape(mine) /\ Loaded(mine)
  BY Zenon, <1>0, <1>5 DEF Shape, Loaded, Computed
<1>7. Untouched(mine, u)
  <2> SUFFICES ASSUME NEW e \in DOMAIN r.base \ r.disturbed
               PROVE  IF e \in r.todo \ {d} THEN Holds(u, e, r.base[e])
                                            ELSE Holds(u, e, r.states[e])
    BY Zenon, <1>5 DEF Untouched
  <2>1. e \in Domains
    BY Zenon, <1>0 DEF Shape
  <2>2. IF e \in r.todo THEN Holds(tree, e, r.base[e]) ELSE Holds(tree, e, r.states[e])
    BY Zenon, <1>0 DEF Untouched
  <2>3. e # d => \A sets : Holds(tree, e, sets) => Holds(u, e, sets)
    BY Zenon, <2>1, <1>3 DEF Kept, Holds
  <2> QED BY Zenon, <2>2, <2>3, <1>3
<1>8. Good(mine, u)
  BY Zenon, <1>6, <1>7 DEF Good
<1> HIDE DEF me
<1> QED BY Zenon, <1>2, <1>3, <1>4, <1>8, CommitGood DEF mine

(* A write fails: its name holds the old or the new, and nobody is told it *)
(* succeeded.                                                              *)
LEMMA WriteFailsGood ==
  ASSUME IInv, AllGood, NEW w \in Workers, WriteFails(w)
  PROVE  AllGood'
<1> DEFINE r == work[w]
           a == IF Transport[w] = "api" THEN Answer("500", FALSE) ELSE Silent
           me == [r EXCEPT !.pc = "answer", !.answer = a]
<1>0. /\ r.pc = "write" /\ Fields \subseteq DOMAIN r
      /\ Shape(r) /\ Loaded(r) /\ Untouched(r, tree) /\ FullTree(tree)
  BY Zenon DEF WriteFails, IInv, Sound, AllGood, Good
<1>1. PICK d \in r.todo : \E u \in FailedCommits(tree, d, r.states[d]) : Commit(w, d, u, me)
  BY Zenon DEF WriteFails
<1>2. PICK u \in FailedCommits(tree, d, r.states[d]) : Commit(w, d, u, me)
  BY Zenon, <1>1
<1>3. a.code # "NOERROR"
  BY Zenon DEF Answer, Silent
<1> DEFINE mine == [me EXCEPT !.wrote = IF u = tree THEN @ ELSE @ \cup {d}]
<1>4. d \in DOMAIN r.states /\ d \in Domains /\ Full(r.states[d])
  BY Zenon, <1>0 DEF Shape
<1>5. /\ FullTree(u) /\ Kept(tree, u, d)
      /\ Holds(u, d, tree[d]) \/ Holds(u, d, r.states[d])
  BY Zenon, <1>0, <1>4, FailedKeeps
<1> HIDE DEF a
<1>6. /\ mine.pc = "answer" /\ mine.req = r.req /\ mine.answer = a
      /\ mine.states = r.states /\ mine.base = r.base /\ mine.disturbed = r.disturbed
  BY ZenonT(60), <1>0 DEF Fields
<1> HIDE DEF mine, r, me
<1>7. Shape(mine) /\ Loaded(mine)
  BY Zenon, <1>0, <1>6 DEF Shape, Loaded, Computed, PCs
<1>8. Untouched(mine, u)
  <2> SUFFICES ASSUME NEW e \in DOMAIN r.base \ r.disturbed
               PROVE  Holds(u, e, r.base[e]) \/ Holds(u, e, r.states[e])
    BY Zenon, <1>3, <1>6 DEF Untouched
  <2>1. e \in Domains
    BY Zenon, <1>0 DEF Shape
  <2>2. IF e \in r.todo THEN Holds(tree, e, r.base[e]) ELSE Holds(tree, e, r.states[e])
    BY Zenon, <1>0 DEF Untouched
  <2>3. e # d => \A sets : Holds(tree, e, sets) => Holds(u, e, sets)
    BY Zenon, <2>1, <1>5 DEF Kept, Holds
  <2>4. Holds(u, d, tree[d]) => \A sets : Holds(tree, d, sets) => Holds(u, d, sets)
    BY Zenon DEF Holds
  <2> QED BY Zenon, <2>2, <2>3, <2>4, <1>5
<1>9. Good(mine, u)
  BY Zenon, <1>7, <1>8 DEF Good
<1> QED BY Zenon, <1>2, <1>4, <1>5, <1>9, CommitGood DEF mine

(* Every name is written: each holds what was computed for it.             *)
LEMMA FinishGood ==
  ASSUME IInv, AllGood, NEW w \in Workers, Finish(w)
  PROVE  AllGood'
<1> DEFINE r == work[w]
<1>0. /\ tree' = tree /\ r.pc = "write" /\ r.todo = {} /\ Fields \subseteq DOMAIN r
      /\ Shape(r) /\ Loaded(r) /\ Untouched(r, tree)
  BY Zenon DEF Finish, IInv, Sound, AllGood, Good
<1>1. PICK a : Reply(w, a)
  BY Zenon DEF Finish, ReplyCode
<1> DEFINE me == [r EXCEPT !.pc = "answer", !.answer = a]
<1>2. work' = [work EXCEPT ![w] = me]
  BY ZenonT(60), <1>0, <1>1 DEF Reply, IInv
<1>3. /\ me.pc = "answer" /\ me.req = r.req
      /\ me.states = r.states /\ me.base = r.base /\ me.disturbed = r.disturbed
  BY Zenon, <1>0 DEF Fields
<1> HIDE DEF me, r
<1>4. Shape(me) /\ Loaded(me) /\ Untouched(me, tree)
  BY Zenon, <1>0, <1>3 DEF Shape, Loaded, Computed, Untouched, PCs
<1> QED BY Zenon, <1>0, <1>2, <1>4, OwnGood DEF Good

(* The answer leaves.                                                      *)
LEMMA SendGood ==
  ASSUME IInv, AllGood, NEW w \in Workers, Send(w)
  PROVE  AllGood'
<1>1. work' = [work EXCEPT ![w] = Idle] /\ tree' = tree
  BY Zenon DEF Send
<1>2. Idle.pc = "idle" /\ Idle.states = <<>> /\ Idle.base = <<>>
  BY Zenon DEF Idle
<1>3. Good(Idle, tree)
  BY Zenon, <1>2, GoodFresh DEF PCs
<1> QED BY Zenon, <1>1, <1>3, OwnGood

(* The bounds are kept, and mode never changes.                            *)
LEMMA NextCounts ==
  ASSUME NEW w \in Workers, Receive(w) \/ Step(w),
         served \in 0..MaxRequests, faults \in 0..MaxFaults
  PROVE  mode' = mode /\ served' \in 0..MaxRequests /\ faults' \in 0..MaxFaults
<1>1. /\ mode' = mode
      /\ served' = served \/ (served < MaxRequests /\ served' = served + 1)
      /\ faults' = faults \/ (faults < MaxFaults /\ faults' = faults + 1)
  BY ZenonT(60) DEF Receive, Step, Read, Upsert, Delete, Process, CheckPrerequisite,
     LoadAndApply, Write, WriteFails, Finish, Send
<1>2. MaxRequests \in Nat /\ MaxFaults \in Nat
  BY Zenon, RequestsAssumption
<1> QED BY <1>1, <1>2

(* The server starts with no request in hand.                              *)
LEMMA InitUInv == Init => UInv
<1> SUFFICES ASSUME Init PROVE UInv
  OBVIOUS
<1>1. mode \in Modes /\ served \in 0..MaxRequests /\ faults \in 0..MaxFaults
  <2>1. MaxRequests \in Nat /\ MaxFaults \in Nat
    BY Zenon, RequestsAssumption
  <2> QED BY <2>1 DEF Init
<1>2. FullTree(tree)
  BY Zenon, RequestsAssumption DEF Init, FullTree
<1>3. Idle.pc = "idle" /\ Idle.states = <<>> /\ Idle.base = <<>>
  BY Zenon DEF Idle
<1>4. Good(Idle, tree)
  BY Zenon, <1>3, GoodFresh DEF PCs
<1> QED BY Zenon, <1>1, <1>2, <1>4 DEF UInv, AllGood, Init

(* Every step keeps it.                                                    *)
LEMMA NextUInv == IInv /\ UInv /\ [Next]_vars => UInv'
<1> SUFFICES ASSUME IInv, UInv, [Next]_vars PROVE UInv'
  OBVIOUS
<1>1. CASE UNCHANGED vars
  BY Zenon, <1>1 DEF vars, UInv, AllGood
<1>2. ASSUME NEW w \in Workers, Receive(w) \/ Step(w) PROVE UInv'
  <2>1. AllGood
    BY Zenon DEF UInv
  <2>2. LoadAndApply(w) => AllGood'
    BY Zenon, <2>1, LoadStepGood, LoadEndGood
  <2>3. AllGood'
    BY Zenon, <1>2, <2>1, <2>2, ReceiveGood, ApiGood, CheckGood, WriteGood,
       WriteFailsGood, FinishGood, SendGood DEF Step
  <2> QED BY Zenon, <1>2, <2>3, NextCounts DEF UInv
<1> QED BY Zenon, <1>1, <1>2 DEF Next

(* The invariant of the updates holds in every reachable state.            *)
LEMMA UpdateInvariance == Spec => []UInv
BY Invariance, InitUInv, NextUInv, PTL DEF Spec

(* Only the data of the type asked for counts.                             *)
LEMMA AskedSame ==
  ASSUME NEW sets, NEW again, NEW ups, NEW n, NEW d, NEW t, Held(again, t) = Held(sets, t)
  PROVE  Asked(again, ups, n, d, t) = Asked(sets, ups, n, d, t)
<1> DEFINE A(h) == {x \in h \cup {ups[i].data : i \in 1..n} :
                      \E i \in 0..n :
                        /\ IF i = 0 THEN x \in h ELSE Adds(ups[i], d, t, x)
                        /\ \A j \in (i + 1)..n : ~Removes(ups[j], d, t, x)}
<1>1. \A s : Asked(s, ups, n, d, t) = A(Held(s, t))
  BY Zenon DEF Asked
<1> HIDE DEF A
<1> QED BY Zenon, <1>1

(* No name is ever left with a set that holds no data, however updates,    *)
(* API calls and failed writes interleave.                                 *)
THEOREM NoEmptySets == Spec => []TypeOK
<1>1. UInv => TypeOK
  BY Zenon DEF UInv, AllGood, FullTree, Good, Shape, TypeOK
<1> QED BY <1>1, UpdateInvariance, PTL

(* An update that is answered NOERROR did, for any number of operations on *)
(* any number of names, what each operation asks by itself (the forms      *)
(* applyUpdateOp lists), on each name nobody else wrote meanwhile.         *)
THEOREM UpdatesDoWhatIsAsked == Spec => []UpdateApplied
<1>1. UInv => UpdateApplied
  <2> SUFFICES ASSUME UInv, NEW w \in Workers,
                      work[w].pc = "answer", work[w].answer.code = "NOERROR",
                      NEW d \in OwnNames(w), NEW t \in TypesAt(w, d)
               PROVE  Held(tree[d], t) = AskedOf(w, work[w].base[d], d, t)
    BY Zenon DEF UpdateApplied
  <2>1. t # "SOA" /\ t # ANY /\ d \in DOMAIN work[w].base \ work[w].disturbed
    BY Zenon DEF TypesAt, OwnNames
  <2>2. Loaded(work[w]) /\ Untouched(work[w], tree)
    BY Zenon DEF UInv, AllGood, Good
  <2>3. Held(tree[d], t) = Held(work[w].states[d], t)
    BY Zenon, <2>1, <2>2 DEF Untouched, Holds
  <2> QED BY Zenon, <2>1, <2>2, <2>3 DEF Loaded, Computed, AskedOf, Body
<1> QED BY <1>1, UpdateInvariance, PTL

(* What an update cut short by a failed write left behind is no obstacle:  *)
(* its operations, applied again, lead to what they asked for at first.    *)
(* Whether its prerequisites let them be applied again is another matter.  *)
THEOREM CutShortUpdatesCanBeReapplied == Spec => []ReapplyRepairs
<1>1. UInv => ReapplyRepairs
  <2> SUFFICES ASSUME UInv, NEW w \in Workers,
                      work[w].pc = "answer", work[w].answer.code = "silent",
                      NEW d \in OwnNames(w), NEW t \in TypesAt(w, d)
               PROVE  AskedOf(w, tree[d], d, t) = AskedOf(w, work[w].base[d], d, t)
    BY Zenon DEF ReapplyRepairs
  <2> DEFINE r == work[w]
             ups == r.req.body.updates
             n == Len(ups)
  <2>1. t # "SOA" /\ t # ANY /\ d \in DOMAIN r.base \ r.disturbed
    BY Zenon DEF TypesAt, OwnNames
  <2>2. Loaded(r) /\ Untouched(r, tree)
    BY Zenon DEF UInv, AllGood, Good
  <2>3. n \in Nat /\ Held(r.states[d], t) = Asked(r.base[d], ups, n, d, t)
    BY Zenon, <2>1, <2>2 DEF Loaded, Computed
  <2>4. Held(tree[d], t) \in {Held(r.base[d], t), Held(r.states[d], t)}
    BY Zenon, <2>1, <2>2 DEF Untouched, Holds
  <2> HIDE DEF n, ups, r
  <2>5. Asked(tree[d], ups, n, d, t) = Asked(r.base[d], ups, n, d, t)
    <3>1. CASE Held(tree[d], t) = Held(r.base[d], t)
      BY <3>1, AskedSame
    <3>2. CASE Held(tree[d], t) = Held(r.states[d], t)
      BY <3>2, <2>3, AskedAgain
    <3> QED BY Zenon, <2>4, <3>1, <3>2
  <2> QED BY Zenon, <2>5 DEF AskedOf, Body, n, ups, r
<1> QED BY <1>1, UpdateInvariance, PTL
=============================================================================
