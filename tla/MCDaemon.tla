------------------------------ MODULE MCDaemon ------------------------------
(* The daemon as a primary and as a replica, with every server that can    *)
(* fail, with and without TLS, and with the DNS server alone while SIGHUPs *)
(* come in.                                                                *)
EXTENDS Daemon

Setup(servers, hasTLS, n) == [servers |-> servers, tls |-> hasTLS, hups |-> n]
MCSetups ==
  {Setup({"dns", "doh", "hub", "api"}, FALSE, 0),
   Setup({"dns", "hub", "api"}, TRUE, 0),
   Setup({"dns", "doh", "replica", "api"}, FALSE, 0),
   Setup({"dns"}, FALSE, 3),
   Setup({"dns"}, TRUE, 3)}
=============================================================================
