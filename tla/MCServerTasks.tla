--------------------------- MODULE MCServerTasks ----------------------------
(* The server binary for model checking: its connections, its TLS files,   *)
(* its panel.  Little is shared (a cancel token; PanelSync has its own     *)
(* relays), so a behaviour is one of either part with the others at their  *)
(* beginning.                                                              *)
EXTENDS ServerTasks, TlsReload, PanelSync

MCInit == SrvInit /\ TlsInit /\ Init

\* One of the initial states is enough for the others' behaviours.
SrvIdle == SrvInit /\ \A n \in ServerDrains : srv.limit <= n

MCNext ==
  \/ TlsInit /\ Init /\ SrvNext /\ UNCHANGED <<tlsVars, vars>>
  \/ SrvIdle /\ Init /\ TlsNext /\ UNCHANGED <<srvVars, vars>>
  \/ SrvIdle /\ TlsInit /\ Next /\ UNCHANGED <<srvVars, tlsVars>>

MCFairSpec ==
  /\ MCInit /\ [][MCNext]_<<srvVars, tlsVars, vars>>
  /\ \/ <>[](TlsInit /\ Init) /\ SrvFairness
     \/ <>[](SrvInit /\ Init) /\ TlsFairness
     \/ <>[](SrvInit /\ TlsInit) /\ Fairness

\* Tasks, files and books are what their declarations allow: nothing is counted that was not
\* carried, no key is read for a missing certificate, no difference is negative (relay_stream,
\* tls_config, report_traffic_once).
MCTypeOK == SrvTypeOK /\ TlsTypeOK /\ TypeOK
=============================================================================
