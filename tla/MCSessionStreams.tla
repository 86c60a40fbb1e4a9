-------------------------- MODULE MCSessionStreams --------------------------
(* Instances of SessionStreams: how the applications end their streams.    *)
EXTENDS SessionStreams

\* The client's relay half-closes, then drops its handle; the server's fails and drops it.
RelayCalls == [x \in Side |-> IF x = "client" THEN {"shutdown_write", "drop"} ELSE {"drop"}]

\* The client half-closes, the server uses Stream::close.
ReuseCalls == [x \in Side |-> IF x = "client" THEN {"shutdown_write"} ELSE {"close"}]

\* The client drops its streams, the server closes them.
DropCloseCalls == [x \in Side |-> IF x = "client" THEN {"drop"} ELSE {"close"}]

\* The client half-closes and closes, the server half-closes.
HalfCloseCalls ==
  [x \in Side |-> IF x = "client" THEN {"shutdown_write", "close"} ELSE {"shutdown_write"}]
=============================================================================
