---------------------------- MODULE MCRestEngine ----------------------------
(* RestEngine on two requests of one route. *)
EXTENDS RestEngine, TLC

CONSTANTS r1, r2, api1

TwoRequests == {r1, r2}
OneRoute == {api1}
OneRouteOf == [r \in Requests |-> api1]

AllModes == {"plain", "context", "render"}

\* A route that gets one request at a time, with OpenTelemetry, hooks that abort
\* or write, and an encoder that sends a status.
Serial == [modes |-> AllModes, hookWrites |-> {"abort", "bytes"}, encoder |-> "status",
           tracer |-> "otel", oneAtATime |-> TRUE]

\* A route whose service leaves the answer to EncodeResponse, with zipkin and
\* hooks that send a status.
Plain == [modes |-> {"plain"}, hookWrites |-> {"denial"}, encoder |-> "default",
          tracer |-> "zipkin", oneAtATime |-> FALSE]

\* Such a route with OpenTelemetry, hooks that abort and an encoder that sends a
\* status.
PlainOtel == [Plain EXCEPT !.hookWrites = {"abort"}, !.encoder = "status", !.tracer = "otel"]

\* A route that serves any requests at the same time.
Shared == [modes |-> AllModes, hookWrites |-> {}, encoder |-> "default",
           tracer |-> "zipkin", oneAtATime |-> FALSE]

SerialOrPlain == {Serial, Plain, PlainOtel}
OnlyShared == {Shared}
=============================================================================
