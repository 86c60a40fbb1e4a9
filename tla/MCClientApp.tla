---------------------------- MODULE MCClientApp ----------------------------
(* ClientApp, with two methods and a request of every kind, and Tunnel, the *)
(* relays it starts, for model checking: a behaviour is one of the program  *)
(* or one of a single tunnel, with the other at its beginning.              *)
EXTENDS ClientApp, Tunnel

MCMethods == {<<"G", "E">>, <<"P">>}

MCRequests == {<<"5">>, <<"4">>, <<"G", "E", " ">>, <<"G", "x">>}

MCInit == AppInit /\ TunInit

MCNext ==
  \/ TunInit /\ AppNext /\ UNCHANGED tunVars
  \/ AppInit /\ TunNext /\ UNCHANGED appVars

MCFairSpec ==
  /\ MCInit /\ [][MCNext]_<<appVars, tunVars>>
  /\ (<>[]TunInit /\ AppFairness) \/ (<>[]AppInit /\ TunFairness)

\* A task has a stream exactly while it relays by it or is about to, and StreamIo keeps a write
\* only while a buffer is being written (handle_socks5, run_http_service, StreamIo).
MCTypeOK == AppTypeOK /\ TunTypeOK
=============================================================================
