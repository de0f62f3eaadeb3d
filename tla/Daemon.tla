------------------------------- MODULE Daemon -------------------------------
(* The daemon's life: Run opens the store, starts the servers and the      *)
(* SIGHUP loop, waits for all of them, gathers their errors and closes the *)
(* store.  A server is its Start function, the goroutine in which an HTTP  *)
(* server listens and accepts, and one handler that may be at work in it   *)
(* when the context is cancelled.                                          *)
EXTENDS Integers, FiniteSets

CONSTANTS
  Setups,     \* [servers, tls, hups]: the servers that are enabled, HasTLS, and
              \* a bound on the SIGHUPs the daemon gets
  ErrChCap,   \* capacity of errCh (4)
  MaxBusy,    \* bound: handlers at work at once
  MaxEdits    \* bound: times the operator replaces a file

HTTPServers == {"doh", "hub", "api"}
Servers == HTTPServers \cup {"dns", "replica"}
Files == {"cert", "zone"}

ASSUME DaemonAssumption ==
  /\ ErrChCap \in Nat \ {0}
  /\ \A s \in Setups :
       s.servers \subseteq Servers /\ s.tls \in BOOLEAN /\ s.hups \in Nat

VARIABLES
  setup,      \* the configuration
  run,        \* where Run is
  store,      \* "none", "open" or "closed"
  cancelled,  \* ctx is done
  srv,        \* server -> where its Start is
  serve,      \* HTTP server -> where its serving goroutine is
  sockets,    \* listening sockets
  handler,    \* server -> what its handler does
  errs,       \* errors in errCh
  result,     \* what Run returns
  notify,     \* signal.Notify is in effect
  hup,        \* signals in hupCh
  loop,       \* where the SIGHUP loop is
  disk,       \* file -> [version, ok]: the files as the operator left them
  loaded,     \* file -> version in use
  edits, hups,
  owed,       \* history: file -> version that a SIGHUP asked to load
  failed      \* history: some server's Start returned an error

tls == setup.tls

startup == <<setup, run, store, result, notify>>
signals == <<hup, loop, disk, loaded, edits, hups, owed>>
vars == <<startup, cancelled, srv, serve, sockets, handler, errs, signals,
          failed>>

Init ==
  /\ setup \in Setups
  /\ run = "open" /\ store = "none" /\ cancelled = FALSE
  /\ srv = [s \in Servers |-> "off"]
  /\ serve = [s \in HTTPServers |-> "off"]
  /\ sockets = {}
  /\ handler = [s \in Servers |-> "none"]
  /\ errs = 0 /\ result = "none"
  /\ notify = FALSE /\ hup = 0 /\ loop = "off"
  /\ disk = [f \in Files |-> [version |-> 1, ok |-> TRUE]]
  /\ loaded = [f \in Files |-> 0]
  /\ edits = 0 /\ hups = 0
  /\ owed = [f \in Files |-> 0]
  /\ failed = FALSE

(* What the servers, and the signals, leave alone in Run's own steps       *)
RunOnly == UNCHANGED <<setup, cancelled, serve, sockets, handler, disk,
                       edits, hups, owed>>

-----------------------------------------------------------------------------
(* Daemon.Run                                                              *)

(* store.Open; without a store there is nothing to close.  What the        *)
(* directory holds is version 1 of the zone file.                          *)
OpenStore ==
  /\ run = "open"
  /\ \/ run' = "tls" /\ store' = "open" /\ loaded' = [loaded EXCEPT !["zone"] = 1]
        /\ UNCHANGED result
     \/ run' = "returned" /\ result' = "error" /\ UNCHANGED <<store, loaded>>
  /\ RunOnly /\ UNCHANGED <<srv, errs, notify, hup, loop, failed>>

(* initTLS and buildDNSServer; after a failure the deferred Close runs.    *)
InitServers ==
  /\ run = "tls"
  /\ \/ /\ tls => disk["cert"].ok
        /\ run' = "start" /\ UNCHANGED result
        /\ loaded' = [loaded EXCEPT !["cert"] = IF tls THEN disk["cert"].version ELSE 0]
     \/ run' = "closing" /\ result' = "error" /\ UNCHANGED loaded
  /\ RunOnly /\ UNCHANGED <<store, srv, errs, notify, hup, loop, failed>>

(* signal.Notify, startSignalReloader and a goroutine for each server.     *)
(* The hub's or the replica's TLS files may be unusable: startCluster then *)
(* queues the error and starts nothing.                                    *)
StartServers ==
  /\ run = "start"
  /\ run' = "wait"
  /\ notify' = TRUE /\ loop' = "select"
  /\ \/ srv' = [s \in Servers |-> IF s \in setup.servers THEN "starting" ELSE "off"]
        /\ UNCHANGED <<errs, failed>>
     \/ \E c \in setup.servers \cap {"hub", "replica"} :
          /\ srv' = [s \in Servers |-> IF s \in setup.servers \ {c} THEN "starting" ELSE "off"]
          /\ errs' = errs + 1
          /\ failed' = TRUE
  /\ RunOnly /\ UNCHANGED <<store, result, loaded, hup>>

(* Mutant of Wait: one error is left in errCh.                             *)
Wait_LeavesOne ==
  /\ run = "wait"
  /\ loop = "done"
  /\ \A s \in Servers : srv[s] \in {"off", "done"}
  /\ run' = "closing"
  /\ result' = IF errs > 1 THEN "error" ELSE "ok"
  /\ RunOnly /\ UNCHANGED <<store, srv, errs, notify, loaded, hup, loop, failed>>

(* wg.Wait, close(errCh) and the loop over what it holds                   *)
Wait ==
  /\ run = "wait"
  /\ loop = "done"
  /\ \A s \in Servers : srv[s] \in {"off", "done"}
  /\ run' = "closing"
  /\ result' = IF errs > 0 THEN "error" ELSE "ok"
  /\ RunOnly /\ UNCHANGED <<store, srv, errs, notify, loaded, hup, loop, failed>>

(* The deferred calls: signal.Stop, then storage.Close, which may fail     *)
CloseStore ==
  /\ run = "closing"
  /\ run' = "returned"
  /\ notify' = FALSE
  /\ store' = "closed"
  /\ \/ UNCHANGED result
     \/ result' = "error"
  /\ RunOnly /\ UNCHANGED <<srv, errs, loaded, hup, loop, failed>>

(* SIGINT or SIGTERM                                                       *)
Cancel ==
  /\ ~cancelled
  /\ run # "returned"
  /\ cancelled' = TRUE
  /\ UNCHANGED <<startup, srv, serve, sockets, handler, errs, signals, failed>>

-----------------------------------------------------------------------------
(* Starting and stopping a server                                          *)

Quiet == UNCHANGED <<startup, cancelled, handler, signals>>

(* Start returns an error, which is to be put into errCh.                  *)
Returns(s, err) ==
  /\ srv' = [srv EXCEPT ![s] = IF err THEN "reporting" ELSE "done"]
  /\ failed' = (failed \/ err)

(* Mutant of BindDNS: a listener that cannot be bound leaves the ones      *)
(* before it open.                                                         *)
BindDNS_Leaks ==
  \E b \in {<<"starting", "udp">>, <<"udp", "tcp">>, <<"tcp", "dot">>} :
    /\ srv["dns"] = b[1]
    /\ b[2] = "dot" => tls
    /\ \/ srv' = [srv EXCEPT !["dns"] = b[2]]
          /\ sockets' = sockets \cup {b[2]}
          /\ UNCHANGED failed
       \/ Returns("dns", TRUE) /\ UNCHANGED sockets
    /\ Quiet /\ UNCHANGED <<serve, errs>>

(* dnsserver.Start binds UDP, TCP and, with TLS, DoT; when one fails it    *)
(* closes those it has bound.                                              *)
BindDNS ==
  \E b \in {<<"starting", "udp">>, <<"udp", "tcp">>, <<"tcp", "dot">>} :
    /\ srv["dns"] = b[1]
    /\ b[2] = "dot" => tls
    /\ \/ srv' = [srv EXCEPT !["dns"] = b[2]]
          /\ sockets' = sockets \cup {b[2]}
          /\ UNCHANGED failed
       \/ Returns("dns", TRUE) /\ sockets' = sockets \ {"udp", "tcp"}
    /\ Quiet /\ UNCHANGED <<serve, errs>>

ServingDNS == srv["dns"] = (IF tls THEN "dot" ELSE "tcp")

(* The context is done: Start closes the sockets and waits for serveUDP,   *)
(* serveTCP and every connection.                                          *)
StopDNS ==
  /\ cancelled
  /\ ServingDNS
  /\ srv' = [srv EXCEPT !["dns"] = "draining"]
  /\ sockets' = sockets \ {"udp", "tcp", "dot"}
  /\ Quiet /\ UNCHANGED <<serve, errs, failed>>

(* Mutant of DrainedDNS: Start returns without waiting for connections.    *)
DrainedDNS_NoWait ==
  /\ srv["dns"] = "draining"
  /\ Returns("dns", FALSE)
  /\ Quiet /\ UNCHANGED <<serve, sockets, errs>>

(* wg.Wait of Start                                                        *)
DrainedDNS ==
  /\ srv["dns"] = "draining"
  /\ handler["dns"] = "none"
  /\ Returns("dns", FALSE)
  /\ Quiet /\ UNCHANGED <<serve, sockets, errs>>

(* Start of the DoH server and of the hub listens, or fails to, and leaves *)
(* Serve to a goroutine.                                                   *)
Listen(s) ==
  /\ s # "api"
  /\ srv[s] = "starting"
  /\ \/ /\ srv' = [srv EXCEPT ![s] = "serving"]
        /\ serve' = [serve EXCEPT ![s] = "bound"]
        /\ sockets' = sockets \cup {s}
        /\ UNCHANGED failed
     \/ Returns(s, TRUE) /\ UNCHANGED <<serve, sockets>>
  /\ Quiet /\ UNCHANGED errs

(* Start of the API leaves ListenAndServe to a goroutine.                  *)
Launch ==
  /\ srv["api"] = "starting"
  /\ srv' = [srv EXCEPT !["api"] = "serving"]
  /\ serve' = [serve EXCEPT !["api"] = "begun"]
  /\ Quiet /\ UNCHANGED <<sockets, errs, failed>>

(* select takes the error of the goroutine, and the deferred calls close   *)
(* the listener.                                                           *)
ServeError(s) ==
  /\ srv[s] = "serving"
  /\ serve[s] = "failed"
  /\ Returns(s, TRUE)
  /\ Quiet /\ UNCHANGED <<serve, sockets, errs>>

(* select takes the context, which may be done beside an error that nobody *)
(* reads any more.  Shutdown closes the listener Serve has registered, and *)
(* waits for that Serve to return.                                         *)
Shutdown(s) ==
  /\ cancelled
  /\ srv[s] = "serving"
  /\ srv' = [srv EXCEPT ![s] = "draining"]
  /\ IF serve[s] = "accepting"
       THEN serve' = [serve EXCEPT ![s] = "ended"] /\ sockets' = sockets \ {s}
       ELSE UNCHANGED <<serve, sockets>>
  /\ Quiet /\ UNCHANGED <<errs, failed>>

(* Shutdown waits for the handler, for two seconds (five at the hub).  DoH *)
(* ignores the error of a Shutdown that ran out of time.  DoH and the hub  *)
(* close the listener they have bound, whether Serve got to see it or not. *)
ShutdownEnds(s) ==
  /\ srv[s] = "draining"
  /\ IF handler[s] = "none"
       THEN Returns(s, FALSE)
       ELSE Returns(s, s # "doh")
  /\ sockets' = IF s = "api" THEN sockets ELSE sockets \ {s}
  /\ Quiet /\ UNCHANGED <<serve, errs>>

-----------------------------------------------------------------------------
(* The serving goroutine of an HTTP server, as net/http has it             *)

Goroutine == UNCHANGED <<startup, cancelled, srv, handler, errs, signals, failed>>

(* Shutdown has been called.                                               *)
ShuttingDown(s) == srv[s] \in {"draining", "reporting", "done"}

(* ListenAndServe of the API looks whether Shutdown was called ...         *)
ListenAndServe ==
  /\ serve["api"] = "begun"
  /\ serve' = [serve EXCEPT !["api"] = IF ShuttingDown("api") THEN "ended" ELSE "binding"]
  /\ Goroutine /\ UNCHANGED sockets

(* ... then binds, by which time it may have been, or fails to ...         *)
BindAPI ==
  /\ serve["api"] = "binding"
  /\ \/ serve' = [serve EXCEPT !["api"] = "bound"] /\ sockets' = sockets \cup {"api"}
     \/ serve' = [serve EXCEPT !["api"] = "failed"] /\ UNCHANGED sockets
  /\ Goroutine

(* ... and Serve registers the listener, or closes it after a Shutdown.    *)
Serve(s) ==
  /\ serve[s] = "bound"
  /\ IF ShuttingDown(s)
       THEN serve' = [serve EXCEPT ![s] = "ended"] /\ sockets' = sockets \ {s}
       ELSE serve' = [serve EXCEPT ![s] = "accepting"] /\ UNCHANGED sockets
  /\ Goroutine

(* Accept fails while the server is up; Serve closes the listener.         *)
ServeFails(s) ==
  /\ serve[s] = "accepting"
  /\ serve' = [serve EXCEPT ![s] = "failed"]
  /\ sockets' = sockets \ {s}
  /\ Goroutine

-----------------------------------------------------------------------------
(* The other ends of a Start                                               *)

(* The replica's client leaves its loop of sync and back-off.              *)
StopReplica ==
  /\ cancelled
  /\ srv["replica"] = "starting"
  /\ Returns("replica", FALSE)
  /\ Quiet /\ UNCHANGED <<serve, sockets, errs>>

(* The goroutine around Start sends the error to errCh, and ends.          *)
Report(s) ==
  /\ srv[s] = "reporting"
  /\ errs < ErrChCap
  /\ errs' = errs + 1
  /\ srv' = [srv EXCEPT ![s] = "done"]
  /\ Quiet /\ UNCHANGED <<serve, sockets, failed>>

-----------------------------------------------------------------------------
(* A handler: a DNS connection or the UDP loop, an HTTP request, a stream  *)

Work(s, from, to) ==
  /\ handler[s] = from
  /\ handler' = [handler EXCEPT ![s] = to]
  /\ UNCHANGED <<startup, cancelled, srv, serve, sockets, errs, signals, failed>>

(* A connection, a request or a replica's stream comes in.                 *)
Accept(s) ==
  /\ Cardinality({r \in Servers : handler[r] # "none"}) < MaxBusy
  /\ \/ s = "dns" /\ ServingDNS /\ Work(s, "none", "reading")
     \/ s = "doh" /\ serve[s] = "accepting" /\ Work(s, "none", "reading")
     \/ s = "api" /\ serve[s] = "accepting" /\ Work(s, "none", "writing")
     \/ s = "hub" /\ serve[s] = "accepting" /\ Work(s, "none", "streaming")

(* A dynamic update is in store.Upsert.                                    *)
TakeUpdate == Work("dns", "reading", "writing")

(* The store answers.  A DNS connection reads on, unless the context is    *)
(* done.                                                                   *)
StoreAnswers(s) ==
  /\ store = "open"
  /\ Work(s, "writing", IF s = "dns" /\ ~cancelled THEN "reading" ELSE "none")

(* The store was closed under the handler: ErrClosed.                      *)
StoreClosed(s) == store = "closed" /\ Work(s, "writing", "none")

(* Mutant of ReaderEnds: a DNS connection has no read deadline.            *)
ReaderEnds_NoDeadline(s) == s # "dns" /\ Work(s, "reading", "none")

(* A reader ends: an answered query, a closed connection, the deadline of  *)
(* a read (five seconds over TCP, one over UDP)                            *)
ReaderEnds(s) == Work(s, "reading", "none")

(* A stream ends when its replica goes away or the hub is stopped.         *)
StreamEnds == Work("hub", "streaming", "none")

-----------------------------------------------------------------------------
(* Signals                                                                 *)

Steady == UNCHANGED <<startup, cancelled, srv, serve, sockets, handler, errs,
                      failed>>

(* The operator replaces a file, perhaps by one that cannot be loaded.     *)
Edit(f) ==
  /\ setup.hups > 0
  /\ edits < MaxEdits
  /\ edits' = edits + 1
  /\ \E ok \in BOOLEAN :
       disk' = [disk EXCEPT ![f] = [version |-> @.version + 1, ok |-> ok]]
  /\ Steady /\ UNCHANGED <<hup, loop, loaded, hups, owed>>

Wanted == [f \in Files |->
             IF disk[f].ok /\ (f = "cert" => tls) THEN disk[f].version ELSE owed[f]]

(* Mutant of Hangup: hupCh has no buffer.                                  *)
Hangup_Unbuffered ==
  /\ notify
  /\ hups < setup.hups
  /\ hups' = hups + 1
  /\ hup' = IF loop = "select" THEN 1 ELSE hup
  /\ owed' = Wanted
  /\ Steady /\ UNCHANGED <<loop, disk, loaded, edits>>

(* SIGHUP: the runtime drops it when hupCh, of capacity 1, is full.        *)
Hangup ==
  /\ notify
  /\ hups < setup.hups
  /\ hups' = hups + 1
  /\ hup' = 1
  /\ owed' = Wanted
  /\ Steady /\ UNCHANGED <<loop, disk, loaded, edits>>

(* The loop of startSignalReloader.  With both ready, select takes either. *)
TakeHangup ==
  /\ loop = "select"
  /\ hup > 0
  /\ hup' = hup - 1
  /\ loop' = "cert"
  /\ Steady /\ UNCHANGED <<disk, loaded, edits, hups, owed>>

LeaveLoop ==
  /\ loop = "select"
  /\ cancelled
  /\ loop' = "done"
  /\ Steady /\ UNCHANGED <<hup, disk, loaded, edits, hups, owed>>

(* Loads f; an unusable file leaves what is in use, and the log says so.   *)
Load(f) ==
  IF disk[f].ok
    THEN loaded' = [loaded EXCEPT ![f] = disk[f].version] /\ UNCHANGED owed
    ELSE owed' = [owed EXCEPT ![f] = loaded[f]] /\ UNCHANGED loaded

(* reloader.Reload; the store is reloaded whatever its outcome.            *)
ReloadCert ==
  /\ loop = "cert"
  /\ loop' = "zone"
  /\ IF tls THEN Load("cert") ELSE UNCHANGED <<loaded, owed>>
  /\ Steady /\ UNCHANGED <<hup, disk, edits, hups>>

(* storage.ReloadState, with a zone file                                   *)
ReloadStore ==
  /\ loop = "zone"
  /\ loop' = "select"
  /\ Load("zone")
  /\ Steady /\ UNCHANGED <<hup, disk, edits, hups>>

-----------------------------------------------------------------------------
Lifecycle ==
  \/ OpenStore \/ InitServers \/ StartServers \/ Wait \/ CloseStore

Starter(s) ==
  \/ Listen(s) \/ ServeError(s) \/ Shutdown(s) \/ ShutdownEnds(s)
  \/ s = "api" /\ Launch

Server(s) ==
  \/ Serve(s)
  \/ s = "api" /\ (ListenAndServe \/ BindAPI)

Background ==
  \/ BindDNS \/ StopDNS \/ DrainedDNS \/ StopReplica
  \/ \E s \in HTTPServers : Starter(s) \/ Server(s)

Reloading == TakeHangup \/ LeaveLoop \/ ReloadCert \/ ReloadStore

Environment ==
  \/ Cancel \/ Hangup \/ TakeUpdate
  \/ \E f \in Files : Edit(f)
  \/ \E s \in Servers : Accept(s)
  \/ \E s \in HTTPServers : ServeFails(s)

Next ==
  \/ Lifecycle \/ Background \/ Reloading \/ Environment
  \/ \E s \in Servers : Report(s) \/ StoreAnswers(s) \/ StoreClosed(s) \/ ReaderEnds(s)
  \/ StreamEnds
  \/ run = "returned" /\ UNCHANGED vars

(* Goroutines run, deadlines and Shutdown's timers fire, and the store     *)
(* answers.  select takes a ready case at random, so a context that is     *)
(* done is not passed over for ever.  Nothing is assumed of operators and  *)
(* clients.                                                                *)
Fairness ==
  /\ WF_vars(Lifecycle)
  /\ WF_vars(BindDNS) /\ WF_vars(StopDNS) /\ WF_vars(DrainedDNS)
  /\ WF_vars(StopReplica)
  /\ \A s \in HTTPServers : WF_vars(Starter(s)) /\ WF_vars(Server(s))
  /\ \A s \in Servers : WF_vars(Report(s))
  /\ \A s \in {"dns", "api"} : WF_vars(StoreAnswers(s)) /\ WF_vars(StoreClosed(s))
  /\ \A s \in {"dns", "doh"} : WF_vars(ReaderEnds(s))
  /\ WF_vars(ReloadCert) /\ WF_vars(ReloadStore) /\ WF_vars(TakeHangup)
  /\ SF_vars(LeaveLoop)

Spec == Init /\ [][Next]_vars /\ Fairness

-----------------------------------------------------------------------------
(* Types.  hupCh holds at most one signal and errCh at most four errors.   *)
TypeOK ==
  /\ setup \in Setups
  /\ run \in {"open", "tls", "start", "wait", "closing", "returned"}
  /\ store \in {"none", "open", "closed"} /\ cancelled \in BOOLEAN
  /\ srv \in [Servers -> {"off", "starting", "udp", "tcp", "dot", "serving",
                          "draining", "reporting", "done"}]
  /\ serve \in [HTTPServers -> {"off", "begun", "binding", "bound", "accepting",
                                "failed", "ended"}]
  /\ sockets \subseteq {"udp", "tcp", "dot"} \cup HTTPServers
  /\ handler \in [Servers -> {"none", "reading", "writing", "streaming"}]
  /\ errs \in 0..ErrChCap /\ hup \in 0..1
  /\ result \in {"none", "ok", "error"}
  /\ loop \in {"off", "select", "cert", "zone", "done"}
  /\ \A f \in Files : loaded[f] \in 0..disk[f].version

(* Shutdown came between the API's look at it and its bind, or before      *)
(* Serve registered the listener: the socket is open and nobody accepts.   *)
LateBind == serve["api"] = "bound" /\ ShuttingDown("api")

(* The state is well formed; whatever fails to bind and whenever the       *)
(* context is cancelled, a socket is open only while the Start of its      *)
(* server has not returned, and connections are accepted only on an open   *)
(* socket and before Shutdown.  The exception is the API's, which binds in *)
(* a goroutine that Start does not wait for: it can be left when Start,    *)
(* and Run, return, and is then one that Serve is about to close.          *)
SocketsReleased ==
  /\ TypeOK
  /\ sockets \cap {"udp", "tcp", "dot"} # {} => srv["dns"] \in {"udp", "tcp", "dot"}
  /\ \A s \in sockets \cap HTTPServers :
       srv[s] \in {"serving", "draining"} \/ (s = "api" /\ LateBind)
  /\ \A s \in HTTPServers : serve[s] = "accepting" => srv[s] = "serving" /\ s \in sockets
  /\ run = "returned" => (sockets = {} \/ (sockets = {"api"} /\ LateBind))

(* The store outlives the servers: a dynamic update that a DNS connection  *)
(* has taken is answered by an open store, for storage.Close runs after    *)
(* wg.Wait.  An API request can meet a closed store only when its server   *)
(* failed or Shutdown ran out of time, and then Run reports an error.      *)
StoreOutlivesWriters ==
  store = "closed" =>
    /\ handler["dns"] # "writing"
    /\ handler["api"] = "writing" => result = "error"

(* Run never returns success when the Start of a server has returned an    *)
(* error: each is in errCh before wg.Wait returns.  An error of Serve, or  *)
(* of the API's bind, that Start's select passes over because the context  *)
(* is done as well is not one of them.                                     *)
FailuresReported ==
  run = "returned" /\ result = "ok" => ~failed

(* No SIGHUP is lost, although hupCh holds one and more are dropped: when  *)
(* the loop is back in select with an empty channel, what is in use is at  *)
(* least as new as every file that a signal asked for, unless the file     *)
(* could not be loaded; and a bad certificate does not keep the zone file  *)
(* from being reloaded.                                                    *)
NoSignalLost ==
  (loop = "select" /\ hup = 0) => \A f \in Files : loaded[f] >= owed[f]

(* Once the context is cancelled Run returns, whatever fails and whichever *)
(* connections, requests and streams are open, and the API's socket that   *)
(* was bound too late is closed as well.                                   *)
ShutdownCompletes == cancelled ~> (run = "returned" /\ sockets = {})
=============================================================================
