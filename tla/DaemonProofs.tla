---------------------------- MODULE DaemonProofs ----------------------------
(***************************************************************************)
(* Proofs about Daemon, for every choice of servers, any number of         *)
(* signals, edits and handlers, and every capacity of errCh but zero.      *)
(*                                                                         *)
(* None of the four properties is inductive.  What they need besides is    *)
(* where the servers and the signal loop stand at each stage of Run        *)
(* (Stages), which listener a stage of dnsserver.Start, or of an HTTP      *)
(* server's Start and goroutine, has open (Sockets),                       *)
(* that a handler outlives its server only where the server failed         *)
(* (Handlers), where an error is between Start and Run (Failures), and     *)
(* what a turn of the signal loop has still to load (Signals).             *)
(***************************************************************************)
EXTENDS Daemon, TLAPS

Flags ==
  cancelled \in BOOLEAN /\ notify \in BOOLEAN /\ failed \in BOOLEAN

States == {"off", "starting", "udp", "tcp", "dot", "serving", "draining", "reporting", "done"}

ServeStates == {"off", "begun", "binding", "bound", "accepting", "failed", "ended"}

Types ==
  /\ setup \in Setups
  /\ run \in {"open", "tls", "start", "wait", "closing", "returned"}
  /\ store \in {"none", "open", "closed"}
  /\ srv \in [Servers -> States]
  /\ serve \in [HTTPServers -> ServeStates]
  /\ sockets \subseteq {"udp", "tcp", "dot"} \cup HTTPServers
  /\ handler \in [Servers -> {"none", "reading", "writing", "streaming"}]
  /\ errs \in 0..ErrChCap /\ hup \in 0..1
  /\ result \in {"none", "ok", "error"}
  /\ loop \in {"off", "select", "cert", "zone", "done"}

Versions ==
  /\ disk \in [Files -> [version : Nat \ {0}, ok : BOOLEAN]]
  /\ loaded \in [Files -> Nat]
  /\ owed \in [Files -> Nat]
  /\ \A f \in Files : loaded[f] <= disk[f].version

Stages ==
  /\ run \in {"open", "tls", "start"} =>
       /\ \A s \in Servers : srv[s] = "off"
       /\ errs = 0 /\ ~failed /\ loop = "off"
  /\ run \in {"closing", "returned"} => \A s \in Servers : srv[s] \in {"off", "done"}
  /\ store = "closed" => run = "returned"

(* The socket of an HTTP server, by where its Start and its goroutine are  *)
Socket(s) ==
  /\ s \in sockets => serve[s] \in {"bound", "accepting"}
  /\ s \in sockets => srv[s] \in {"serving", "draining"} \/ s = "api"
  /\ serve[s] # "off" => srv[s] \in {"serving", "draining", "reporting", "done"}
  /\ serve[s] = "accepting" => srv[s] = "serving"
  /\ serve[s] \in {"bound", "accepting"} /\ srv[s] = "serving" => s \in sockets

Sockets ==
  /\ sockets \cap {"udp", "tcp", "dot"} # {} => srv["dns"] \in {"udp", "tcp", "dot"}
  /\ "dot" \in sockets => srv["dns"] = "dot"
  /\ \A s \in HTTPServers : Socket(s)

Handlers ==
  /\ handler["dns"] # "none" => ServingDNS \/ srv["dns"] = "draining"
  /\ handler["api"] # "none" => srv["api"] \in {"serving", "draining"} \/ failed

Failures ==
  failed =>
    /\ errs > 0 \/ \E s \in Servers : srv[s] = "reporting"
    /\ run \in {"closing", "returned"} => result = "error"

Signals ==
  /\ loop = "off" => ~notify /\ hup = 0 /\ \A f \in Files : owed[f] = 0
  /\ ~tls => owed["cert"] = 0
  /\ \A f \in Files : owed[f] <= disk[f].version
  /\ (loop = "select" /\ hup = 0) => \A f \in Files : loaded[f] >= owed[f]
  /\ (loop = "zone" /\ hup = 0) => loaded["cert"] >= owed["cert"]

IInv == Flags /\ Types /\ Versions /\ Stages /\ Sockets /\ Handlers /\ Failures /\ Signals

(* The initial states satisfy the inductive invariant.                     *)
LEMMA InitIInv == Init => IInv
<1> SUFFICES ASSUME Init PROVE IInv
  OBVIOUS
<1>0. Flags
  BY Zenon DEF Init, Flags
<1>1. Types
  BY DaemonAssumption DEF Init, Types, States, ServeStates
<1>4. Versions
  BY DEF Init, Versions, Files
<1>2. Stages /\ Sockets /\ Handlers /\ Failures
  BY Zenon DEF Init, Stages, Sockets, Socket, Handlers, Failures, Servers, HTTPServers
<1>3. Signals
  BY DEF Init, Signals, Files
<1> QED BY Zenon, <1>0, <1>1, <1>2, <1>3, <1>4 DEF IInv

-----------------------------------------------------------------------------
(* The steps of a server, and of a handler, by what they leave alone       *)

ServerStep ==
  \/ BindDNS \/ StopDNS \/ DrainedDNS \/ StopReplica
  \/ \E s \in HTTPServers : Listen(s) \/ ServeError(s) \/ Shutdown(s) \/ ShutdownEnds(s)
  \/ Launch
  \/ \E s \in Servers : Report(s)

GoroutineStep ==
  \/ ListenAndServe \/ BindAPI
  \/ \E s \in HTTPServers : Serve(s) \/ ServeFails(s)

HandlerStep ==
  \/ TakeUpdate \/ StreamEnds
  \/ \E s \in Servers : Accept(s) \/ StoreAnswers(s) \/ StoreClosed(s) \/ ReaderEnds(s)

SignalStep == Hangup \/ Reloading \/ \E f \in Files : Edit(f)

(* The kinds of steps of Next.                                             *)
LEMMA NextSteps ==
  ASSUME Next
  PROVE  Lifecycle \/ Cancel \/ ServerStep \/ GoroutineStep \/ HandlerStep \/ SignalStep
         \/ UNCHANGED vars
BY Zenon DEF Next, Background, Environment, Starter, Server, ServerStep, GoroutineStep,
       HandlerStep, SignalStep

(* A handler changes only what it is doing.                                *)
LEMMA HandlerQuiet ==
  ASSUME HandlerStep
  PROVE  UNCHANGED <<startup, cancelled, srv, serve, sockets, errs, signals, failed>>
BY Zenon DEF HandlerStep, TakeUpdate, StreamEnds, Accept, StoreAnswers, StoreClosed,
       ReaderEnds, Work

(* Signals and the reloads they cause leave the servers alone.             *)
LEMMA SignalQuiet ==
  ASSUME SignalStep
  PROVE  UNCHANGED <<startup, cancelled, srv, serve, sockets, handler, errs, failed>>
BY Zenon DEF SignalStep, Hangup, Reloading, TakeHangup, LeaveLoop, ReloadCert, ReloadStore,
       Edit, Steady
-----------------------------------------------------------------------------
(* Run's own steps                                                         *)

(* store.Open, and its failure                                             *)
LEMMA OpenStoreKeeps == ASSUME IInv, OpenStore PROVE IInv'
<1> USE DEF OpenStore, RunOnly, tls
<1>1. Flags'
  BY Zenon DEF IInv, Flags
<1>2. Types'
  BY Zenon, DaemonAssumption DEF IInv, Types, Stages, Servers, HTTPServers, States, ServeStates
<1>3. Versions'
  BY DEF IInv, Versions, Files
<1>4. Stages'
  BY Zenon DEF IInv, Types, Stages
<1>5. Sockets'
  BY DEF IInv, Types, Stages, Sockets, Socket, Servers, HTTPServers
<1>6. Handlers'
  BY Zenon DEF IInv, Types, Stages, Handlers, ServingDNS, Servers, HTTPServers
<1>7. Failures'
  BY Zenon DEF IInv, Types, Stages, Failures
<1>8. Signals'
  BY Zenon DEF IInv, Types, Versions, Stages, Signals, Files
<1> QED BY Zenon, <1>1, <1>2, <1>3, <1>4, <1>5, <1>6, <1>7, <1>8 DEF IInv

(* initTLS and buildDNSServer                                              *)
LEMMA InitServersKeeps == ASSUME IInv, InitServers PROVE IInv'
<1> USE DEF InitServers, RunOnly, tls
<1>1. Flags'
  BY Zenon DEF IInv, Flags
<1>2. Types'
  BY Zenon, DaemonAssumption DEF IInv, Types, Stages, Servers, HTTPServers, States, ServeStates
<1>3. Versions'
  BY DEF IInv, Versions, Files
<1>4. Stages'
  BY Zenon DEF IInv, Types, Stages
<1>5. Sockets'
  BY DEF IInv, Types, Stages, Sockets, Socket, Servers, HTTPServers
<1>6. Handlers'
  BY Zenon DEF IInv, Types, Stages, Handlers, ServingDNS, Servers, HTTPServers
<1>7. Failures'
  BY Zenon DEF IInv, Types, Stages, Failures
<1>8. Signals'
  BY Zenon DEF IInv, Types, Versions, Stages, Signals, Files
<1> QED BY Zenon, <1>1, <1>2, <1>3, <1>4, <1>5, <1>6, <1>7, <1>8 DEF IInv

(* The servers start where no error is queued yet.                         *)
LEMMA StartServersKeeps == ASSUME IInv, StartServers PROVE IInv'
<1> USE DEF StartServers, RunOnly, tls
<1>1. Flags'
  BY Zenon DEF IInv, Flags
<1>2. Types'
  BY DaemonAssumption DEF IInv, Types, Stages, Servers, HTTPServers, States, ServeStates
<1>3. Versions'
  BY Zenon DEF IInv, Versions, Files
<1>4. Stages'
  BY Zenon DEF IInv, Types, Stages
<1>5. Sockets'
  BY DEF IInv, Types, Stages, Sockets, Socket, Servers, HTTPServers
<1>6. Handlers'
  BY Zenon DEF IInv, Types, Stages, Handlers, ServingDNS, Servers, HTTPServers
<1>7. Failures'
  <2>1. errs = 0 /\ ~failed
    BY Zenon DEF IInv, Stages
  <2>2. run' = "wait" /\ (errs' = errs + 1 \/ failed' = failed)
    OBVIOUS
  <2>3. CASE failed' = failed
    BY Zenon, <2>1, <2>3 DEF Failures
  <2>4. CASE errs' = errs + 1
    BY <2>1, <2>2, <2>4 DEF Failures
  <2> QED BY Zenon, <2>2, <2>3, <2>4
<1>8. Signals'
  BY DEF IInv, Types, Versions, Stages, Signals, Files
<1> QED BY Zenon, <1>1, <1>2, <1>3, <1>4, <1>5, <1>6, <1>7, <1>8 DEF IInv

(* No server is reporting any more: what failed is in errCh.               *)
LEMMA WaitKeeps == ASSUME IInv, Wait PROVE IInv'
<1> USE DEF Wait, RunOnly, tls
<1>1. Flags'
  BY Zenon DEF IInv, Flags
<1>2. Types'
  BY Zenon, DaemonAssumption DEF IInv, Types, Stages, Servers, HTTPServers, States, ServeStates
<1>3. Versions'
  BY Zenon DEF IInv, Versions, Files
<1>4. Stages'
  BY Zenon DEF IInv, Types, Stages
<1>5. Sockets'
  BY Zenon DEF IInv, Types, Stages, Sockets, Socket, Servers, HTTPServers
<1>6. Handlers'
  BY Zenon DEF IInv, Types, Stages, Handlers, ServingDNS, Servers, HTTPServers
<1>7. Failures'
  BY Zenon DEF IInv, Types, Stages, Failures
<1>8. Signals'
  BY Zenon DEF IInv, Types, Versions, Stages, Signals, Files
<1> QED BY Zenon, <1>1, <1>2, <1>3, <1>4, <1>5, <1>6, <1>7, <1>8 DEF IInv

(* No server is left when the store is closed.                             *)
LEMMA CloseStoreKeeps == ASSUME IInv, CloseStore PROVE IInv'
<1> USE DEF CloseStore, RunOnly, tls
<1>1. Flags'
  BY Zenon DEF IInv, Flags
<1>2. Types'
  BY Zenon, DaemonAssumption DEF IInv, Types, Stages, Servers, HTTPServers, States, ServeStates
<1>3. Versions'
  BY Zenon DEF IInv, Versions, Files
<1>4. Stages'
  BY Zenon DEF IInv, Types, Stages
<1>5. Sockets'
  BY Zenon DEF IInv, Types, Stages, Sockets, Socket, Servers, HTTPServers
<1>6. Handlers'
  BY Zenon DEF IInv, Types, Stages, Handlers, ServingDNS, Servers, HTTPServers
<1>7. Failures'
  BY Zenon DEF IInv, Types, Stages, Failures
<1>8. Signals'
  BY Zenon DEF IInv, Types, Versions, Stages, Signals, Files
<1> QED BY Zenon, <1>1, <1>2, <1>3, <1>4, <1>5, <1>6, <1>7, <1>8 DEF IInv

-----------------------------------------------------------------------------
(* The servers                                                             *)

(* BindDNS, for one listener                                               *)
Bind(from, to) ==
  /\ srv["dns"] = from
  /\ to = "dot" => tls
  /\ \/ srv' = [srv EXCEPT !["dns"] = to] /\ sockets' = sockets \cup {to} /\ UNCHANGED failed
     \/ Returns("dns", TRUE) /\ sockets' = sockets \ {"udp", "tcp"}
  /\ Quiet /\ UNCHANGED <<serve, errs>>

(* No DNS connection is served before the last listener is bound.          *)
LEMMA BindDNSKeeps == ASSUME IInv, BindDNS PROVE IInv'
<1>0. PICK from \in {"starting", "udp", "tcp"}, to \in {"udp", "tcp", "dot"} :
        Bind(from, to) /\ (from = "tcp" => to = "dot")
  <2>1. PICK b \in {<<"starting", "udp">>, <<"udp", "tcp">>, <<"tcp", "dot">>} : Bind(b[1], b[2])
    BY Zenon DEF BindDNS, Bind
  <2>2. b[1] \in {"starting", "udp", "tcp"} /\ b[2] \in {"udp", "tcp", "dot"}
        /\ (b[1] = "tcp" => b[2] = "dot")
    OBVIOUS
  <2> QED BY Zenon, <2>1, <2>2
<1> USE <1>0 DEF Bind, Quiet, Returns, startup, signals, tls
<1>1. Flags'
  BY Zenon DEF IInv, Flags
<1>2. Types'
  <2>1. srv' \in [Servers -> States]
    BY Zenon DEF IInv, Types, States, ServeStates
  <2>2. sockets' \subseteq {"udp", "tcp", "dot"} \cup HTTPServers
    BY ZenonT(60) DEF IInv, Types
  <2> QED BY Zenon, <2>1, <2>2 DEF IInv, Types
<1>3. Versions'
  BY Zenon DEF IInv, Versions
<1>4. Stages'
  BY Zenon DEF IInv, Types, Stages, Servers, HTTPServers
<1>5. Sockets'
  BY DEF IInv, Types, Sockets, Socket, Servers, HTTPServers
<1>6. Handlers'
  <2>1. from = "tcp" => tls
    BY Zenon
  <2>2. ~ServingDNS /\ srv["dns"] # "draining"
    BY Zenon, <2>1 DEF ServingDNS
  <2>3. handler["dns"] = "none"
    BY Zenon, <2>2 DEF IInv, Handlers
  <2>4. srv'["api"] = srv["api"]
    BY Zenon DEF IInv, Types, Servers, HTTPServers
  <2>5. failed => failed'
    BY Zenon
  <2> QED BY Zenon, <2>3, <2>4, <2>5 DEF IInv, Handlers
<1>7. Failures'
  BY ZenonT(60) DEF IInv, Types, Stages, Failures, Servers, HTTPServers
<1>8. Signals'
  BY Zenon DEF IInv, Signals
<1> QED BY Zenon, <1>1, <1>2, <1>3, <1>4, <1>5, <1>6, <1>7, <1>8 DEF IInv

(* dnsserver.Start closes all its sockets.                                 *)
LEMMA StopDNSKeeps == ASSUME IInv, StopDNS PROVE IInv'
<1> USE DEF StopDNS, Quiet, Returns, startup, signals, tls
<1>1. Flags'
  BY Zenon DEF IInv, Flags
<1>2. Types'
  BY Zenon, DaemonAssumption DEF IInv, Types, Servers, HTTPServers, States, ServeStates
<1>3. Versions'
  BY Zenon DEF IInv, Versions
<1>4. Stages'
  BY Zenon DEF IInv, Types, Stages, Servers, HTTPServers, ServingDNS
<1>5. Sockets'
  BY Zenon DEF IInv, Types, Sockets, Socket, Servers, HTTPServers, ServingDNS
<1>6. Handlers'
  BY Zenon DEF IInv, Types, Handlers, ServingDNS, Servers, HTTPServers
<1>7. Failures'
  BY Zenon DEF IInv, Types, Stages, Failures, Servers, HTTPServers, ServingDNS
<1>8. Signals'
  BY Zenon DEF IInv, Signals
<1> QED BY Zenon, <1>1, <1>2, <1>3, <1>4, <1>5, <1>6, <1>7, <1>8 DEF IInv

(* No DNS handler is left when Start returns.                              *)
LEMMA DrainedDNSKeeps == ASSUME IInv, DrainedDNS PROVE IInv'
<1> USE DEF DrainedDNS, Quiet, Returns, startup, signals, tls
<1>1. Flags'
  BY Zenon DEF IInv, Flags
<1>2. Types'
  BY Zenon, DaemonAssumption DEF IInv, Types, Servers, HTTPServers, States, ServeStates
<1>3. Versions'
  BY Zenon DEF IInv, Versions
<1>4. Stages'
  BY Zenon DEF IInv, Types, Stages, Servers, HTTPServers, ServingDNS
<1>5. Sockets'
  BY Zenon DEF IInv, Types, Sockets, Socket, Servers, HTTPServers, ServingDNS
<1>6. Handlers'
  BY ZenonT(60) DEF IInv, Types, Handlers, ServingDNS, Servers, HTTPServers
<1>7. Failures'
  BY ZenonT(60) DEF IInv, Types, Stages, Failures, Servers, HTTPServers, ServingDNS
<1>8. Signals'
  BY Zenon DEF IInv, Signals
<1> QED BY Zenon, <1>1, <1>2, <1>3, <1>4, <1>5, <1>6, <1>7, <1>8 DEF IInv

(* The replica has no socket and no handler.                               *)
LEMMA StopReplicaKeeps == ASSUME IInv, StopReplica PROVE IInv'
<1> USE DEF StopReplica, Quiet, Returns, startup, signals, tls
<1>1. Flags'
  BY Zenon DEF IInv, Flags
<1>2. Types'
  BY Zenon, DaemonAssumption DEF IInv, Types, Servers, HTTPServers, States, ServeStates
<1>3. Versions'
  BY Zenon DEF IInv, Versions
<1>4. Stages'
  BY Zenon DEF IInv, Types, Stages, Servers, HTTPServers, ServingDNS
<1>5. Sockets'
  BY Zenon DEF IInv, Types, Sockets, Socket, Servers, HTTPServers, ServingDNS
<1>6. Handlers'
  BY ZenonT(60) DEF IInv, Types, Handlers, ServingDNS, Servers, HTTPServers
<1>7. Failures'
  BY ZenonT(60) DEF IInv, Types, Stages, Failures, Servers, HTTPServers, ServingDNS
<1>8. Signals'
  BY Zenon DEF IInv, Signals
<1> QED BY Zenon, <1>1, <1>2, <1>3, <1>4, <1>5, <1>6, <1>7, <1>8 DEF IInv

(* A server listens, or reports that it cannot.                            *)
LEMMA ListenKeeps == ASSUME IInv, NEW s \in HTTPServers, Listen(s) PROVE IInv'
<1> USE DEF Listen, Quiet, Returns, startup, signals, tls
<1>1. Flags'
  BY Zenon DEF IInv, Flags
<1>2. Types'
  <2>1. srv' \in [Servers -> States]
    BY ZenonT(60) DEF IInv, Types, States
  <2>2. serve' \in [HTTPServers -> ServeStates]
    BY Zenon DEF IInv, Types, ServeStates
  <2>3. sockets' \subseteq {"udp", "tcp", "dot"} \cup HTTPServers
    BY Zenon DEF IInv, Types
  <2> QED BY Zenon, <2>1, <2>2, <2>3 DEF IInv, Types
<1>3. Versions'
  BY Zenon DEF IInv, Versions
<1>4. Stages'
  BY Zenon DEF IInv, Types, Stages, Servers, HTTPServers, ServingDNS
<1>5. Sockets'
  BY DEF IInv, Types, Sockets, Socket, Servers, HTTPServers, ServingDNS
<1>6. Handlers'
  <2>1. srv'["dns"] = srv["dns"] /\ srv'["api"] = srv["api"]
    BY Zenon DEF IInv, Types, Servers, HTTPServers
  <2>2. failed => failed'
    BY Zenon
  <2> QED BY Zenon, <2>1, <2>2 DEF IInv, Handlers, ServingDNS
<1>7. Failures'
  BY ZenonT(60) DEF IInv, Types, Stages, Failures, Servers, HTTPServers, ServingDNS
<1>8. Signals'
  BY ZenonT(60) DEF IInv, Signals
<1> QED BY Zenon, <1>1, <1>2, <1>3, <1>4, <1>5, <1>6, <1>7, <1>8 DEF IInv

(* The API's goroutine begins, with no socket yet.                         *)
LEMMA LaunchKeeps == ASSUME IInv, Launch PROVE IInv'
<1> USE DEF Launch, Quiet, Returns, startup, signals, tls
<1>1. Flags'
  BY Zenon DEF IInv, Flags
<1>2. Types'
  BY Zenon, DaemonAssumption DEF IInv, Types, Servers, HTTPServers, States, ServeStates
<1>3. Versions'
  BY Zenon DEF IInv, Versions
<1>4. Stages'
  BY Zenon DEF IInv, Types, Stages, Servers, HTTPServers, ServingDNS
<1>5. Sockets'
  BY Zenon DEF IInv, Types, Sockets, Socket, Servers, HTTPServers, ServingDNS
<1>6. Handlers'
  BY Zenon DEF IInv, Types, Handlers, ServingDNS, Servers, HTTPServers
<1>7. Failures'
  BY Zenon DEF IInv, Types, Stages, Failures, Servers, HTTPServers, ServingDNS
<1>8. Signals'
  BY Zenon DEF IInv, Signals
<1> QED BY Zenon, <1>1, <1>2, <1>3, <1>4, <1>5, <1>6, <1>7, <1>8 DEF IInv

(* Shutdown closes the listener.                                           *)
LEMMA ShutdownKeeps == ASSUME IInv, NEW s \in HTTPServers, Shutdown(s) PROVE IInv'
<1> USE DEF Shutdown, Quiet, Returns, startup, signals, tls
<1>1. Flags'
  BY Zenon DEF IInv, Flags
<1>2. Types'
  <2>1. srv' \in [Servers -> States]
    BY Zenon DEF IInv, Types, States
  <2>2. serve' \in [HTTPServers -> ServeStates]
    BY Zenon DEF IInv, Types, ServeStates
  <2>3. sockets' \subseteq {"udp", "tcp", "dot"} \cup HTTPServers
    BY Zenon DEF IInv, Types
  <2> QED BY Zenon, <2>1, <2>2, <2>3 DEF IInv, Types
<1>3. Versions'
  BY Zenon DEF IInv, Versions
<1>4. Stages'
  BY Zenon DEF IInv, Types, Stages, Servers, HTTPServers, ServingDNS
<1>5. Sockets'
  BY DEF IInv, Types, Sockets, Socket, Servers, HTTPServers, ServingDNS
<1>6. Handlers'
  BY Zenon DEF IInv, Types, Handlers, ServingDNS, Servers, HTTPServers
<1>7. Failures'
  BY Zenon DEF IInv, Types, Stages, Failures, Servers, HTTPServers, ServingDNS
<1>8. Signals'
  BY Zenon DEF IInv, Signals
<1> QED BY Zenon, <1>1, <1>2, <1>3, <1>4, <1>5, <1>6, <1>7, <1>8 DEF IInv

(* An API handler outlives Shutdown only as a failure.                     *)
LEMMA ShutdownEndsKeeps == ASSUME IInv, NEW s \in HTTPServers, ShutdownEnds(s) PROVE IInv'
<1> USE DEF ShutdownEnds, Quiet, Returns, startup, signals, tls
<1>1. Flags'
  BY Zenon DEF IInv, Flags
<1>2. Types'
  BY DaemonAssumption DEF IInv, Types, Servers, HTTPServers, States, ServeStates
<1>3. Versions'
  BY Zenon DEF IInv, Versions
<1>4. Stages'
  BY Zenon DEF IInv, Types, Stages, Servers, HTTPServers, ServingDNS
<1>5. Sockets'
  BY DEF IInv, Types, Sockets, Socket, Servers, HTTPServers, ServingDNS
<1>6. Handlers'
  BY ZenonT(60) DEF IInv, Types, Handlers, ServingDNS, Servers, HTTPServers
<1>7. Failures'
  BY ZenonT(60) DEF IInv, Types, Stages, Failures, Servers, HTTPServers, ServingDNS
<1>8. Signals'
  BY ZenonT(60) DEF IInv, Signals
<1> QED BY Zenon, <1>1, <1>2, <1>3, <1>4, <1>5, <1>6, <1>7, <1>8 DEF IInv

(* What has failed to serve has no socket any more.                        *)
LEMMA ServeErrorKeeps == ASSUME IInv, NEW s \in HTTPServers, ServeError(s) PROVE IInv'
<1> USE DEF ServeError, Quiet, Returns, startup, signals, tls
<1>1. Flags'
  BY Zenon DEF IInv, Flags
<1>2. Types'
  BY DaemonAssumption DEF IInv, Types, Servers, HTTPServers, States, ServeStates
<1>3. Versions'
  BY Zenon DEF IInv, Versions
<1>4. Stages'
  BY Zenon DEF IInv, Types, Stages, Servers, HTTPServers, ServingDNS
<1>5. Sockets'
  BY Zenon DEF IInv, Types, Sockets, Socket, Servers, HTTPServers, ServingDNS
<1>6. Handlers'
  BY ZenonT(60) DEF IInv, Types, Handlers, ServingDNS, Servers, HTTPServers
<1>7. Failures'
  BY Zenon DEF IInv, Types, Stages, Failures, Servers, HTTPServers, ServingDNS
<1>8. Signals'
  BY Zenon DEF IInv, Signals
<1> QED BY Zenon, <1>1, <1>2, <1>3, <1>4, <1>5, <1>6, <1>7, <1>8 DEF IInv

(* The error moves from the goroutine to errCh.                            *)
LEMMA ReportKeeps == ASSUME IInv, NEW s \in Servers, Report(s) PROVE IInv'
<1> USE DEF Report, Quiet, Returns, startup, signals, tls
<1>1. Flags'
  BY Zenon DEF IInv, Flags
<1>2. Types'
  BY DaemonAssumption DEF IInv, Types, Servers, HTTPServers, States, ServeStates
<1>3. Versions'
  BY Zenon DEF IInv, Versions
<1>4. Stages'
  BY Zenon DEF IInv, Types, Stages, Servers, HTTPServers, ServingDNS
<1>5. Sockets'
  BY Zenon DEF IInv, Types, Sockets, Socket, Servers, HTTPServers, ServingDNS
<1>6. Handlers'
  BY Zenon DEF IInv, Types, Handlers, ServingDNS, Servers, HTTPServers
<1>7. Failures'
  BY DEF IInv, Types, Stages, Failures, Servers, HTTPServers, ServingDNS
<1>8. Signals'
  BY Zenon DEF IInv, Signals
<1> QED BY Zenon, <1>1, <1>2, <1>3, <1>4, <1>5, <1>6, <1>7, <1>8 DEF IInv

(* A goroutine opens the API's socket, begins to accept before Shutdown    *)
(* only, and closes its socket when it ends.                               *)
LEMMA GoroutineKeeps == ASSUME IInv, GoroutineStep PROVE IInv'
<1> USE DEF Goroutine, startup, signals, tls
<1>1. UNCHANGED <<startup, cancelled, srv, handler, errs, signals, failed>>
  BY Zenon DEF GoroutineStep, ListenAndServe, BindAPI, Serve, ServeFails
<1>2. Flags' /\ Versions' /\ Stages' /\ Failures'
  BY <1>1, Zenon DEF IInv, Flags, Versions, Stages, Failures
<1>3. Handlers' /\ Signals'
  BY <1>1, Zenon DEF IInv, Handlers, Signals, ServingDNS
<1>4. PICK s \in HTTPServers, to \in ServeStates :
        /\ serve' = [serve EXCEPT ![s] = to]
        /\ sockets' \in {sockets, sockets \cup {s}, sockets \ {s}}
  BY Zenon DEF GoroutineStep, ListenAndServe, BindAPI, Serve, ServeFails, HTTPServers,
         ServeStates
<1>5. Types'
  BY <1>1, <1>4 DEF IInv, Types
<1>6. Sockets'
  BY <1>1 DEF IInv, Types, Sockets, Socket, GoroutineStep, ListenAndServe, BindAPI,
         Serve, ServeFails, ShuttingDown, HTTPServers
<1> QED BY Zenon, <1>2, <1>3, <1>5, <1>6 DEF IInv

-----------------------------------------------------------------------------
(* The handlers, the signals and the context                               *)

(* A handler begins only in a server that serves.                          *)
LEMMA HandlerKeeps == ASSUME IInv, HandlerStep PROVE IInv'
<1> USE HandlerQuiet DEF startup, signals, tls
<1>1. Flags' /\ Versions' /\ Signals'
  BY DEF IInv, Flags, Versions, Signals
<1>5. Stages' /\ Sockets' /\ Failures'
  BY DEF IInv, Stages, Sockets, Socket, Failures
<1>2. PICK s \in Servers, from, to \in {"none", "reading", "writing", "streaming"} :
        Work(s, from, to)
        /\ (from = "none" /\ s = "dns" => ServingDNS)
        /\ (from = "none" /\ s = "api" => srv[s] = "serving")
  <2>1. serve["api"] = "accepting" => srv["api"] = "serving"
    BY Zenon DEF IInv, Sockets, Socket, HTTPServers
  <2> QED BY <2>1, Zenon DEF HandlerStep, TakeUpdate, StreamEnds, Accept, StoreAnswers,
             StoreClosed, ReaderEnds, Servers, HTTPServers
<1>3. Types'
  BY Zenon, <1>2 DEF IInv, Types, Work
<1>4. Handlers'
  BY Zenon, <1>2 DEF IInv, Types, Handlers, ServingDNS, Work, Servers, HTTPServers
<1> QED BY Zenon, <1>1, <1>3, <1>4, <1>5 DEF IInv

(* A reload pays what the signals before it owe.                           *)
LEMMA SignalKeeps == ASSUME IInv, SignalStep PROVE IInv'
<1> USE SignalQuiet DEF startup, tls
<1>1. Flags' /\ Sockets' /\ Handlers' /\ Failures'
  BY DEF IInv, Flags, Sockets, Socket, Handlers, Failures, ServingDNS
<1>2. Stages'
  BY DEF IInv, Stages, Signals, SignalStep, Hangup, Reloading, TakeHangup, LeaveLoop,
         ReloadCert, ReloadStore, Edit
<1>3. Types'
  <2>1. hup' \in 0..1
    BY DEF IInv, Types, SignalStep, Hangup, Reloading, TakeHangup, LeaveLoop,
           ReloadCert, ReloadStore, Edit
  <2>2. loop' \in {"off", "select", "cert", "zone", "done"}
    BY Zenon DEF IInv, Types, SignalStep, Hangup, Reloading, TakeHangup, LeaveLoop,
           ReloadCert, ReloadStore, Edit
  <2> QED BY Zenon, <2>1, <2>2 DEF IInv, Types
<1>4. CASE Hangup
  <2>1. Versions'
    BY Zenon, <1>4 DEF IInv, Versions, Hangup, Wanted, Files
  <2>2. Signals'
    BY <1>4 DEF IInv, Versions, Signals, Hangup, Wanted, Files
  <2> QED BY Zenon, <1>1, <1>2, <1>3, <2>1, <2>2 DEF IInv
<1>5. CASE TakeHangup \/ LeaveLoop
  <2>1. Versions' /\ Signals'
    BY Zenon, <1>5 DEF IInv, Versions, Signals, TakeHangup, LeaveLoop, Files
  <2> QED BY Zenon, <1>1, <1>2, <1>3, <2>1 DEF IInv
<1>6. CASE ReloadCert
  <2>1. Versions'
    BY <1>6 DEF IInv, Versions, ReloadCert, Load, Files
  <2>2. Signals'
    BY <1>6 DEF IInv, Types, Versions, Signals, ReloadCert, Load, Files
  <2> QED BY <1>1, <1>2, <1>3, <2>1, <2>2 DEF IInv
<1>7. CASE ReloadStore
  <2>1. Versions'
    BY <1>7 DEF IInv, Versions, ReloadStore, Load, Files
  <2>2. Signals'
    BY <1>7 DEF IInv, Types, Versions, Signals, ReloadStore, Load, Files
  <2> QED BY <1>1, <1>2, <1>3, <2>1, <2>2 DEF IInv
<1>8. ASSUME NEW f \in Files, Edit(f) PROVE IInv'
  <2>1. Versions'
    BY <1>8 DEF IInv, Versions, Edit, Files
  <2>2. Signals'
    BY <1>8 DEF IInv, Versions, Signals, Edit, Files
  <2> QED BY Zenon, <1>1, <1>2, <1>3, <2>1, <2>2 DEF IInv
<1> QED BY Zenon, <1>4, <1>5, <1>6, <1>7, <1>8 DEF SignalStep, Reloading

(* The context is cancelled.                                               *)
LEMMA CancelKeeps == ASSUME IInv, Cancel PROVE IInv'
<1> USE DEF Cancel, startup, signals, tls
<1>1. Flags'
  BY Zenon DEF IInv, Flags
<1>2. Types' /\ Versions'
  BY Zenon DEF IInv, Types, Versions
<1>3. Stages' /\ Sockets' /\ Failures'
  BY Zenon DEF IInv, Stages, Sockets, Socket, Failures
<1>4. Handlers' /\ Signals'
  BY Zenon DEF IInv, Handlers, Signals, ServingDNS
<1> QED BY Zenon, <1>1, <1>2, <1>3, <1>4 DEF IInv

(* Nothing happens.                                                        *)
LEMMA StutterKeeps == ASSUME IInv, UNCHANGED vars PROVE IInv'
<1> USE DEF vars, startup, signals, tls
<1>1. Flags' /\ Types' /\ Versions'
  BY DEF IInv, Flags, Types, Versions
<1>2. Stages' /\ Sockets' /\ Failures'
  BY Zenon DEF IInv, Stages, Sockets, Socket, Failures
<1>3. Handlers' /\ Signals'
  BY Zenon DEF IInv, Handlers, Signals, ServingDNS
<1> QED BY Zenon, <1>1, <1>2, <1>3 DEF IInv

-----------------------------------------------------------------------------
(* Every step keeps the inductive invariant.                               *)
LEMMA NextIInv == IInv /\ [Next]_vars => IInv'
<1> SUFFICES ASSUME IInv, [Next]_vars PROVE IInv'
  OBVIOUS
<1>1. CASE Lifecycle
  BY Zenon, <1>1, OpenStoreKeeps, InitServersKeeps, StartServersKeeps, WaitKeeps,
     CloseStoreKeeps DEF Lifecycle
<1>2. CASE ServerStep
  BY Zenon, <1>2, BindDNSKeeps, StopDNSKeeps, DrainedDNSKeeps, StopReplicaKeeps,
     ListenKeeps, LaunchKeeps, ShutdownKeeps, ShutdownEndsKeeps, ServeErrorKeeps,
     ReportKeeps DEF ServerStep
<1> QED
  BY Zenon, <1>1, <1>2, NextSteps, GoroutineKeeps, HandlerKeeps, SignalKeeps, CancelKeeps, StutterKeeps

(* The inductive invariant holds in every reachable state.                 *)
LEMMA Invariance == Spec => []IInv
BY InitIInv, NextIInv, PTL DEF Spec

(* Whatever fails to bind or to serve, and whenever the context is         *)
(* cancelled, a socket is open only while the Start of its server has not  *)
(* returned, and accepted on only before Shutdown; the one that can be     *)
(* left when Run returns is the API's, bound by a goroutine that Shutdown  *)
(* has overtaken, and Serve has only to close it.                          *)
THEOREM NoSocketLeaks == Spec => []SocketsReleased
<1>1. IInv => SocketsReleased
  <2> SUFFICES ASSUME IInv PROVE SocketsReleased
    OBVIOUS
  <2>1. cancelled \in BOOLEAN
    BY Zenon DEF IInv, Flags
  <2>2. \A f \in Files : loaded[f] \in 0..disk[f].version
    BY DEF IInv, Versions
  <2>3. TypeOK
    BY <2>1, <2>2, Zenon DEF IInv, Types, TypeOK, States, ServeStates
  <2>4. \A s \in sockets \cap HTTPServers :
          srv[s] \in {"serving", "draining"} \/ (s = "api" /\ LateBind)
    BY Zenon DEF IInv, Sockets, Socket, LateBind, ShuttingDown
  <2>5. \A s \in HTTPServers :
          serve[s] = "accepting" => srv[s] = "serving" /\ s \in sockets
    BY Zenon DEF IInv, Sockets, Socket
  <2>6. ASSUME run = "returned" PROVE sockets = {} \/ (sockets = {"api"} /\ LateBind)
    <3>1. \A s \in Servers : srv[s] \in {"off", "done"}
      BY <2>6, Zenon DEF IInv, Stages
    <3>2. \A s \in sockets \cap HTTPServers : s = "api" /\ LateBind
      BY <2>4, <3>1, Zenon DEF Servers
    <3>3. sockets \cap {"udp", "tcp", "dot"} = {}
      BY <3>1, Zenon DEF IInv, Sockets, Servers
    <3> QED BY <3>2, <3>3, Zenon DEF IInv, Types
  <2> QED BY <2>3, <2>4, <2>5, <2>6, Zenon DEF IInv, Sockets, SocketsReleased
<1> QED BY <1>1, Invariance, PTL

(* storage.Close, which Run defers, never runs while a DNS connection has  *)
(* a dynamic update in the store; an API request meets a closed store only *)
(* where Run returns an error.                                             *)
THEOREM NoWriterWithoutStore == Spec => []StoreOutlivesWriters
<1>1. IInv => StoreOutlivesWriters
  BY Zenon DEF IInv, Types, Stages, Handlers, Failures, ServingDNS, StoreOutlivesWriters,
         Servers, HTTPServers
<1> QED BY <1>1, Invariance, PTL

(* Run returns an error whenever a server's Start has returned one, for    *)
(* every capacity of errCh but zero.                                       *)
THEOREM NoFailureSwallowed == Spec => []FailuresReported
<1>1. IInv => FailuresReported
  BY Zenon DEF IInv, Failures, FailuresReported
<1> QED BY <1>1, Invariance, PTL

(* However many SIGHUPs meet a full hupCh, the loop of startSignalReloader *)
(* is idle only with every file in use that one of them asked for.         *)
THEOREM EverySignalServed == Spec => []NoSignalLost
<1>1. IInv => NoSignalLost
  BY Zenon DEF IInv, Signals, NoSignalLost
<1> QED BY <1>1, Invariance, PTL
=============================================================================
