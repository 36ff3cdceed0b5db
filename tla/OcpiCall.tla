------------------------------ MODULE OcpiCall ------------------------------
(***************************************************************************)
(* One OCPI request/response exchange, end to end: Client.Do with its       *)
(* retry loop and core.Decode on the calling side (core/client.go,          *)
(* core/envelope.go), the middleware chain and a handler on the serving     *)
(* side (core/server.go), and between them a network that loses requests,   *)
(* reports errors for requests that were in fact delivered, and may contain *)
(* a gateway that answers by itself.                                        *)
(*                                                                          *)
(* Every attempt of a call is its own copy of the request.  A copy the      *)
(* client has given up on keeps its own life: it may still be delivered,    *)
(* executed and answered, with nobody listening.                            *)
(***************************************************************************)
EXTENDS Integers

CONSTANTS
    Calls,           \* the calls the application makes (each runs Do, then Decode)
    MaxRetries,      \* WithRetry(n): Client.maxRetries, 0 unless the option is given
    HandlerErrors,   \* the error responses an application handler may choose
    GatewayReplies   \* the responses a gateway may send by itself; {} = no gateway

Attempts == 0 .. MaxRetries    \* the values of i in Do's loop; attempts = MaxRetries + 1

(***************************************************************************)
(* A response is its HTTP status and the envelope's status_code.            *)
(* code 0 is a body that is empty or has no status_code, code -1 a body     *)
(* that is not an envelope at all (net/http's "404 page not found", HTML).  *)
(***************************************************************************)
EmptyBody == 0
NotJSON   == -1
Resp(h, s) == [http |-> h, code |-> s]

RetryableStatus == {429, 500, 502, 503, 504}

IsSuccess(s) == s >= 1000 /\ s < 2000

\* Mutant of Verdict: only the HTTP status is looked at.
VerdictByHTTP(r) ==
    IF r.code = NotJSON THEN "undecodable" ELSE IF r.http >= 400 THEN "status_error" ELSE "ok"

\* What Decode makes of a response it could read.
Verdict(r) ==
    IF r.code = NotJSON THEN "undecodable"
    ELSE IF \/ r.code # EmptyBody /\ ~IsSuccess(r.code)
            \/ r.code = EmptyBody /\ r.http >= 400
         THEN "status_error"
         ELSE "ok"

Success       == Resp(200, 1000)
AuthErrors    == {Resp(401, 2000), Resp(500, 3000)}
RouteErrors   == {Resp(404, NotJSON), Resp(400, 2000)}
\* recoverMiddleware writes 500; if the handler already wrote its header, the
\* status stays 200 and only the envelope says 3000; if it wrote a body too, the
\* two envelopes together are not one.
PanicReplies  == {Resp(500, 3000), Resp(200, 3000), Resp(200, NotJSON)}
Responses     == {Success} \cup AuthErrors \cup RouteErrors \cup PanicReplies
                     \cup HandlerErrors \cup GatewayReplies
NoReply       == Resp(0, EmptyBody)

ASSUME RetriesAssumption == MaxRetries \in Nat

\* A handler that fails says so, and a gateway does not forge an OCPI success.
ASSUME ErrorsAssumption ==
    \A r \in HandlerErrors \cup GatewayReplies :
        /\ r \in [http : Int, code : Int]
        /\ r.http # 0
        /\ Verdict(r) # "ok"

VARIABLES
    pc,         \* pc[c]: "idle", "wait" (in doer.Do), "sleep" (in the backoff),
                \*        "body" (Do has returned a response), "done"
    attempt,    \* attempt[c]: i
    outcome,    \* outcome[c]: what the application gets from Do and Decode
    cancelled,  \* the calls whose context is done
    heard,      \* heard[c]: the attempts whose response reached the client
                \*           (each one is an ObserveClient call)
    srv,        \* srv[c][k]: the life of copy k: "unsent", "flying", "lost",
                \*            "serving" (a handler runs), "over"
    executed,   \* executed[c]: the copies whose operation the handler carried out
    reply,      \* reply[c][k]: the response on the way to the client
    observed,   \* observed[c]: the copies ObserveServer was called for
    store,      \* the call whose operation was carried out last
    before      \* history: before[c], the calls that had returned when c began

client == <<pc, attempt, outcome, cancelled, heard>>
server == <<executed, observed, store>>
vars   == <<pc, attempt, outcome, cancelled, heard, srv, executed, reply,
            observed, store, before>>

NoCall == "none"

Init ==
    /\ pc = [c \in Calls |-> "idle"]
    /\ attempt = [c \in Calls |-> 0]
    /\ outcome = [c \in Calls |-> "none"]
    /\ cancelled = {}
    /\ heard = [c \in Calls |-> {}]
    /\ srv = [c \in Calls |-> [k \in Attempts |-> "unsent"]]
    /\ executed = [c \in Calls |-> {}]
    /\ reply = [c \in Calls |-> [k \in Attempts |-> NoReply]]
    /\ observed = [c \in Calls |-> {}]
    /\ store = NoCall
    /\ before = [c \in Calls |-> {}]

-----------------------------------------------------------------------------
(* The client: Do and Decode.                                               *)

\* A new reader, a new request, doer.Do: copy k of call c is on the wire.
SendCopy(c, k) ==
    /\ pc' = [pc EXCEPT ![c] = "wait"]
    /\ srv' = [srv EXCEPT ![c][k] = "flying"]

Return(c, o) ==
    /\ pc' = [pc EXCEPT ![c] = "done"]
    /\ outcome' = [outcome EXCEPT ![c] = o]

Begin(c) ==
    /\ pc[c] = "idle"
    /\ SendCopy(c, 0)
    /\ before' = [before EXCEPT ![c] = {b \in Calls : pc[b] = "done"}]
    /\ UNCHANGED <<attempt, outcome, cancelled, heard, reply, server>>

\* The body cannot be marshalled or the URL not parsed: nothing is sent.
RejectLocally(c) ==
    /\ pc[c] = "idle"
    /\ Return(c, "local_error")
    /\ UNCHANGED <<attempt, cancelled, heard, srv, reply, server, before>>

\* Mutant of AttemptFails: one attempt too many.
AttemptFailsOffByOne(c, e) ==
    IF attempt[c] <= MaxRetries
    THEN /\ attempt' = [attempt EXCEPT ![c] = @ + 1]
         /\ pc' = [pc EXCEPT ![c] = "sleep"]
         /\ UNCHANGED outcome
    ELSE Return(c, e) /\ UNCHANGED attempt

\* The attempt failed with error e: "continue" to the next one, or out of
\* the loop with lastErr.
AttemptFails(c, e) ==
    IF attempt[c] < MaxRetries
    THEN /\ attempt' = [attempt EXCEPT ![c] = @ + 1]
         /\ pc' = [pc EXCEPT ![c] = "sleep"]
         /\ UNCHANGED outcome
    ELSE /\ Return(c, e)
         /\ UNCHANGED attempt

\* Mutant of TransportError: the request does not carry the context.
TransportErrorNoContext(c) ==
    /\ pc[c] = "wait" /\ c \notin cancelled
    /\ AttemptFails(c, "transport_error")
    /\ UNCHANGED <<cancelled, heard, srv, reply, server, before>>

\* doer.Do returns an error, wherever the copy is: refused, reset, timed out,
\* or the context is done.
TransportError(c) ==
    /\ pc[c] = "wait"
    /\ AttemptFails(c, "transport_error")
    /\ UNCHANGED <<cancelled, heard, srv, reply, server, before>>

\* Mutants of Receive: every error response is retried; the last response is
\* given up for an error when its status is retryable.
ReceiveRetryingAll(c) ==
    LET k == attempt[c]
        r == reply[c][k]
    IN  /\ pc[c] = "wait"
        /\ r # NoReply
        /\ heard' = [heard EXCEPT ![c] = @ \cup {k}]
        /\ IF k < MaxRetries /\ Verdict(r) # "ok"
           THEN AttemptFails(c, "retryable_status")
           ELSE /\ pc' = [pc EXCEPT ![c] = "body"]
                /\ UNCHANGED <<attempt, outcome>>
        /\ UNCHANGED <<cancelled, srv, reply, server, before>>
ReceiveDroppingLast(c) ==
    LET k == attempt[c]
        r == reply[c][k]
    IN  /\ pc[c] = "wait"
        /\ r # NoReply
        /\ heard' = [heard EXCEPT ![c] = @ \cup {k}]
        /\ IF r.http \in RetryableStatus
           THEN AttemptFails(c, "retryable_status")
           ELSE /\ pc' = [pc EXCEPT ![c] = "body"]
                /\ UNCHANGED <<attempt, outcome>>
        /\ UNCHANGED <<cancelled, srv, reply, server, before>>

\* doer.Do returns a response.
Receive(c) ==
    LET k == attempt[c]
        r == reply[c][k]
    IN  /\ pc[c] = "wait"
        /\ r # NoReply
        /\ heard' = [heard EXCEPT ![c] = @ \cup {k}]
        /\ IF k < MaxRetries /\ r.http \in RetryableStatus
           THEN AttemptFails(c, "retryable_status")
           ELSE /\ pc' = [pc EXCEPT ![c] = "body"]
                /\ UNCHANGED <<attempt, outcome>>
        /\ UNCHANGED <<cancelled, srv, reply, server, before>>

\* The backoff timer fires; select may pick it even when the context is done.
Wake(c) ==
    /\ pc[c] = "sleep"
    /\ SendCopy(c, attempt[c])
    /\ UNCHANGED <<attempt, outcome, cancelled, heard, reply, server, before>>

\* The context is done during the backoff: Do returns ctx.Err().
SleepCancelled(c) ==
    /\ pc[c] = "sleep"
    /\ c \in cancelled
    /\ Return(c, "ctx_error")
    /\ UNCHANGED <<attempt, cancelled, heard, srv, reply, server, before>>

Decode(c) ==
    /\ pc[c] = "body"
    /\ Return(c, Verdict(reply[c][attempt[c]]))
    /\ UNCHANGED <<attempt, cancelled, heard, srv, reply, server, before>>

\* Mutant of ReadBodyFails: the error is dropped, what was read is an empty body.
ReadBodyFailsUnnoticed(c) ==
    /\ pc[c] = "body"
    /\ Return(c, Verdict(Resp(reply[c][attempt[c]].http, EmptyBody)))
    /\ UNCHANGED <<attempt, cancelled, heard, srv, reply, server, before>>

\* The connection breaks (or the context is done) while Decode reads the body.
ReadBodyFails(c) ==
    /\ pc[c] = "body"
    /\ Return(c, "undecodable")
    /\ UNCHANGED <<attempt, cancelled, heard, srv, reply, server, before>>

\* The application cancels the context, or its deadline passes.
Cancel(c) ==
    /\ c \notin cancelled
    /\ pc[c] # "done"
    /\ cancelled' = cancelled \cup {c}
    /\ UNCHANGED <<pc, attempt, outcome, heard, srv, reply, server, before>>

-----------------------------------------------------------------------------
(* The network.                                                             *)

Lose(c, k) ==
    /\ srv[c][k] = "flying"
    /\ srv' = [srv EXCEPT ![c][k] = "lost"]
    /\ UNCHANGED <<client, reply, server, before>>

\* A gateway answers for the server, which may be at any point of its work.
GatewayAnswers(c, k) ==
    /\ srv[c][k] # "unsent"
    /\ reply[c][k] = NoReply
    /\ \E r \in GatewayReplies : reply' = [reply EXCEPT ![c][k] = r]
    /\ UNCHANGED <<client, srv, server, before>>

-----------------------------------------------------------------------------
(* The server: recover, context, auth, metrics, mux, handler.               *)

\* The chain unwinds and r goes back, unless a gateway has already answered.
Answer(c, k, r) ==
    /\ srv' = [srv EXCEPT ![c][k] = "over"]
    /\ reply' = IF reply[c][k] = NoReply THEN [reply EXCEPT ![c][k] = r] ELSE reply

Observe(c, k) == observed' = [observed EXCEPT ![c] = @ \cup {k}]

\* authMiddleware: no or malformed header, unknown token, or a failing Lookup.
\* metricsMiddleware is inside it and sees nothing.
RejectAuth(c, k) ==
    /\ srv[c][k] = "flying"
    /\ \E r \in AuthErrors : Answer(c, k, r)
    /\ UNCHANGED <<client, server, before>>

\* No route, or a body the generated route cannot decode.
RejectRoute(c, k) ==
    /\ srv[c][k] = "flying"
    /\ \E r \in RouteErrors : Answer(c, k, r)
    /\ Observe(c, k)
    /\ UNCHANGED <<client, executed, store, before>>

Dispatch(c, k) ==
    /\ srv[c][k] = "flying"
    /\ srv' = [srv EXCEPT ![c][k] = "serving"]
    /\ UNCHANGED <<client, reply, server, before>>

\* The handler carries out the operation.
Execute(c, k) ==
    /\ srv[c][k] = "serving"
    /\ k \notin executed[c]
    /\ executed' = [executed EXCEPT ![c] = @ \cup {k}]
    /\ store' = c
    /\ UNCHANGED <<client, srv, reply, observed, before>>

\* Mutant of HandlerSucceeds: the route answers before its handler is through.
AcknowledgeFirst(c, k) ==
    /\ srv[c][k] = "serving"
    /\ reply[c][k] = NoReply
    /\ reply' = [reply EXCEPT ![c][k] = Success]
    /\ UNCHANGED <<client, srv, server, before>>

HandlerSucceeds(c, k) ==
    /\ srv[c][k] = "serving"
    /\ k \in executed[c]
    /\ Answer(c, k, Success)
    /\ Observe(c, k)
    /\ UNCHANGED <<client, executed, store, before>>

\* Mutant of HandlerFails: the error leaves the chain before the observation.
HandlerFailsUnobserved(c, k) ==
    /\ srv[c][k] = "serving"
    /\ \E r \in HandlerErrors : Answer(c, k, r)
    /\ UNCHANGED <<client, server, before>>

\* The handler returns an error, before or after it has carried out the operation.
HandlerFails(c, k) ==
    /\ srv[c][k] = "serving"
    /\ \E r \in HandlerErrors : Answer(c, k, r)
    /\ Observe(c, k)
    /\ UNCHANGED <<client, executed, store, before>>

\* recoverMiddleware is outside metricsMiddleware: ObserveServer is skipped.
HandlerPanics(c, k) ==
    /\ srv[c][k] = "serving"
    /\ \E r \in PanicReplies : Answer(c, k, r)
    /\ UNCHANGED <<client, server, before>>

-----------------------------------------------------------------------------
ClientStep(c) ==
    \/ Begin(c) \/ RejectLocally(c)
    \/ TransportError(c) \/ Receive(c)
    \/ Wake(c) \/ SleepCancelled(c)
    \/ Decode(c) \/ ReadBodyFails(c) \/ Cancel(c)

CopyStep(c, k) ==
    \/ Lose(c, k) \/ GatewayAnswers(c, k)
    \/ RejectAuth(c, k) \/ RejectRoute(c, k) \/ Dispatch(c, k)
    \/ Execute(c, k) \/ HandlerSucceeds(c, k) \/ HandlerFails(c, k) \/ HandlerPanics(c, k)

Next == \E c \in Calls : ClientStep(c) \/ \E k \in Attempts : CopyStep(c, k)

Spec == Init /\ [][Next]_vars

\* The Go runtime runs the client's goroutine, timers fire, and net/http's
\* transport returns once the request's context is done.  Nothing makes the
\* network or the server answer, and http.DefaultClient has no timeout.
Fairness ==
    \A c \in Calls :
        /\ WF_vars(Wake(c) \/ SleepCancelled(c))
        /\ WF_vars(Decode(c) \/ ReadBodyFails(c))
        /\ WF_vars(c \in cancelled /\ TransportError(c))

FairSpec == Spec /\ Fairness

-----------------------------------------------------------------------------
(* Correctness.                                                             *)

TypeOK ==
    /\ pc \in [Calls -> {"idle", "wait", "sleep", "body", "done"}]
    /\ attempt \in [Calls -> Nat]
    /\ \A c \in Calls : pc[c] \in {"wait", "sleep", "body"} => attempt[c] \in Attempts
    /\ outcome \in [Calls -> {"none", "ok", "status_error", "undecodable", "transport_error",
                              "retryable_status", "ctx_error", "local_error"}]
    /\ cancelled \subseteq Calls
    /\ heard \in [Calls -> SUBSET Attempts]
    /\ srv \in [Calls -> [Attempts -> {"unsent", "flying", "lost", "serving", "over"}]]
    /\ executed \in [Calls -> SUBSET Attempts]
    /\ reply \in [Calls -> [Attempts -> Responses \cup {NoReply}]]
    /\ observed \in [Calls -> SUBSET Attempts]
    /\ store \in Calls \cup {NoCall}
    /\ before \in [Calls -> SUBSET Calls]

\* A call reported as done was carried out by the peer, and by the very copy
\* whose answer was decoded: no answer to an earlier attempt, no rejection by
\* the middleware and no recovered panic can pass for a success.
\* (Do, core/client.go; Decode, core/envelope.go; the chain, core/server.go)
OkMeansExecuted ==
    \A c \in Calls : outcome[c] = "ok" => attempt[c] \in executed[c]

\* The peer carries a call out a second time only if the client did not hear
\* of the first time, or heard of it as a retryable error: no copy is sent
\* after an answer that settled the call.  (the retry condition of Do)
RepeatedOnlyWhenInDoubt ==
    \A c \in Calls : \A j, k \in executed[c] :
        j < k /\ j \in heard[c] => reply[c][j].http \in RetryableStatus

\* A copy whose response the client has taken is finished at the peer; so
\* without a gateway in between, only a transport error leaves a copy behind
\* that can act after the client has moved on.
Unattended(c, k) ==
    /\ srv[c][k] \in {"flying", "serving"}
    /\ ~(pc[c] = "wait" /\ attempt[c] = k)
StragglersComeFromErrors ==
    GatewayReplies = {} =>
        \A c \in Calls : \A k \in Attempts : Unattended(c, k) => k \notin heard[c]

\* The calls all of whose copies were answered to the client.
Clean(c) == \A k \in Attempts : srv[c][k] # "unsent" => k \in heard[c]

\* A write does not undo a later one: once call b, begun after call a had
\* returned, has taken effect, no copy of a takes effect any more, provided
\* every copy of a was answered to the client (and no gateway answers for the
\* peer).  (the retry loop of Do runs one attempt at a time)
WritesInOrder ==
    \A a, b \in Calls :
        /\ GatewayReplies = {}
        /\ store = b /\ a \in before[b] /\ Clean(a)
        => store' # a
NoWriteOvertakesALaterOne == [][WritesInOrder]_vars

\* The peer's answer to the last attempt is what the application gets, an
\* exhausted retry included: a call whose current attempt was answered never
\* ends in an error of the retry loop's own making.  (Do's i < attempts-1)
FinalAnswerIsDelivered ==
    \A c \in Calls :
        pc[c] = "done" /\ attempt[c] \in heard[c] =>
            outcome[c] \in {Verdict(reply[c][attempt[c]]), "undecodable"}

\* A call whose context is done returns, whatever the network and the peer do.
\* (sleep's select, and the context every attempt's request carries)
CancelledCallsReturn ==
    \A c \in Calls : (c \in cancelled /\ pc[c] # "idle") ~> (pc[c] = "done")

\* What the peer's metrics miss: a success the client decoded is among the
\* observations, and so is whatever was carried out, unless its handler
\* panicked.  (metricsMiddleware, inside recoverMiddleware, without a defer)
MetricsMissOnlyPanics ==
    \A c \in Calls :
        /\ outcome[c] = "ok" => attempt[c] \in observed[c]
        /\ \A k \in executed[c] \ observed[c] :
              srv[c][k] = "over" => reply[c][k] \in PanicReplies \cup GatewayReplies

\* The exchange implements the at-least-once call of RemoteCall.
Remote == INSTANCE RemoteCall WITH
    Calls  <- Calls,
    Copies <- Attempts,
    state  <- [c \in Calls |->
                 IF pc[c] = "idle" THEN "idle"
                 ELSE IF pc[c] # "done" THEN "open"
                 ELSE IF outcome[c] = "ok" THEN "ok" ELSE "failed"],
    done   <- executed

RemoteSpec == Remote!Spec
=============================================================================
