----------------------------- MODULE MCOcpiCall -----------------------------
(* Instances of OcpiCall for TLC.                                           *)
EXTENDS OcpiCall, TLC

CONSTANTS a, b

\* A handler's error that ends the call, and one that is retried.
MCHandlerErrors == {Resp(404, 2003), Resp(500, 3000)}

\* A reverse proxy that gives up on the server, without an OCPI envelope.
MCGateway == {Resp(504, EmptyBody), Resp(502, NotJSON)}
NoGateway == {}
MCRetriedError == {Resp(500, 3000)}

(* An application that makes call b only after call a has returned, and does *)
(* not cancel: the interleavings that remain are those of the copies.       *)
OneAtATime == cancelled = {} /\ (pc[b] # "idle" => pc[a] = "done")
=============================================================================
