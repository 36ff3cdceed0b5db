--------------------------- MODULE OcpiCall_proofs ---------------------------
(***************************************************************************)
(* Proofs about OcpiCall, for any calls, any number of retries, any handler *)
(* errors and any gateway.                                                  *)
(***************************************************************************)
EXTENDS OcpiCall, TLAPS

(***************************************************************************)
(* The strengthening.  The safety properties speak of executed and outcome; *)
(* what carries them from step to step is how far each copy has come        *)
(* (which copies exist, which are answered) and what the client has drawn   *)
(* from it.                                                                 *)
(***************************************************************************)

\* The copies that exist are those of the attempts made so far.
SentInv ==
    \A c \in Calls :
        /\ pc[c] = "idle" => attempt[c] = 0
        /\ \A k \in Attempts : srv[c][k] # "unsent" => k <= attempt[c] /\ pc[c] # "idle"
        /\ pc[c] = "sleep" => srv[c][attempt[c]] = "unsent"
        /\ pc[c] \in {"wait", "body"} => srv[c][attempt[c]] # "unsent"

\* A reply comes from a copy; a success comes from an executed one.
ReplyInv ==
    \A c \in Calls : \A k \in Attempts :
        /\ srv[c][k] = "unsent" => reply[c][k] = NoReply
        /\ srv[c][k] = "over" => reply[c][k] # NoReply
        /\ reply[c][k] # NoReply /\ Verdict(reply[c][k]) = "ok" => k \in executed[c]
        /\ GatewayReplies = {} /\ reply[c][k] # NoReply => srv[c][k] = "over"
        /\ k \in executed[c] => srv[c][k] \in {"serving", "over"}

\* What the client has heard, and why it went on.
HeardInv ==
    \A c \in Calls :
        /\ \A k \in heard[c] :
              /\ reply[c][k] # NoReply
              /\ k <= attempt[c]
              /\ k < attempt[c] => reply[c][k].http \in RetryableStatus
              /\ k = attempt[c] => pc[c] \in {"body", "done"}
        /\ pc[c] = "body" => attempt[c] \in heard[c]

\* What the application was told.
OutcomeInv ==
    \A c \in Calls :
        /\ outcome[c] = "none" <=> pc[c] # "done"
        /\ outcome[c] = "ok" => attempt[c] \in executed[c]
        /\ pc[c] = "done" /\ attempt[c] \in heard[c] =>
              outcome[c] \in {Verdict(reply[c][attempt[c]]), "undecodable"}
        /\ \A b \in before[c] : pc[b] = "done"
        /\ c \notin before[c]

IInv == TypeOK /\ SentInv /\ ReplyInv /\ HeardInv /\ OutcomeInv

-----------------------------------------------------------------------------
(* The responses.                                                           *)

\* What the server's middleware, its routes, its handlers and the gateways
\* send is a response, and none of it but a handler's success decodes as one.
LEMMA ResponseFacts ==
    /\ Success \in Responses /\ Success # NoReply
    /\ NoReply \notin Responses
    /\ \A r \in AuthErrors \cup RouteErrors \cup PanicReplies \cup HandlerErrors
                \cup GatewayReplies :
          r \in Responses /\ r # NoReply /\ Verdict(r) # "ok"
<1>1. \A r \in HandlerErrors \cup GatewayReplies : r # NoReply /\ Verdict(r) # "ok"
    BY ErrorsAssumption DEF NoReply, Resp
<1>2. \A r \in AuthErrors \cup RouteErrors \cup PanicReplies : r # NoReply /\ Verdict(r) # "ok"
    BY DEF AuthErrors, RouteErrors, PanicReplies, NoReply, Resp, Verdict, IsSuccess, EmptyBody, NotJSON
<1>3. Success # NoReply
    BY DEF Success, NoReply, Resp, EmptyBody
<1> QED
    BY <1>1, <1>2, <1>3 DEF Responses

\* Verdict and AttemptFails have the outcomes TypeOK lists.
LEMMA VerdictType == ASSUME NEW r PROVE Verdict(r) \in {"ok", "status_error", "undecodable"}
    BY DEF Verdict

-----------------------------------------------------------------------------
(* The invariant.                                                           *)

\* The invariant holds before the first call.
LEMMA InitIInv == Init => IInv
<1> SUFFICES ASSUME Init PROVE IInv
    OBVIOUS
<1>1. TypeOK
    BY RetriesAssumption DEF Init, TypeOK, Attempts
<1>2. SentInv /\ ReplyInv /\ HeardInv /\ OutcomeInv
    BY RetriesAssumption DEF Init, Attempts, SentInv, ReplyInv, HeardInv, OutcomeInv
<1> QED
    BY <1>1, <1>2 DEF IInv

\* Every step of the client preserves the invariant.
LEMMA ClientIInv ==
    ASSUME IInv, NEW c \in Calls, ClientStep(c)
    PROVE  IInv'
<1> USE RetriesAssumption DEF Attempts
<1>1. CASE Begin(c)
    BY <1>1 DEF Begin, SendCopy, server, IInv, TypeOK, SentInv, ReplyInv, HeardInv, OutcomeInv
<1>2. CASE RejectLocally(c)
    BY <1>2 DEF RejectLocally, Return, server, IInv, TypeOK, SentInv, ReplyInv, HeardInv, OutcomeInv
<1>3. CASE TransportError(c)
  <2>1. CASE attempt[c] < MaxRetries
    <3>1. /\ pc[c] = "wait"
          /\ attempt' = [attempt EXCEPT ![c] = @ + 1]
          /\ pc' = [pc EXCEPT ![c] = "sleep"]
          /\ UNCHANGED <<outcome, cancelled, heard, srv, reply, executed, observed, store, before>>
        BY <1>3, <2>1 DEF TransportError, AttemptFails, Return, server
    <3>2. attempt[c] \in Attempts /\ attempt[c] + 1 \in Attempts
        BY <2>1, <3>1 DEF IInv, TypeOK
    <3>3. TypeOK'
        BY <3>1, <3>2 DEF IInv, TypeOK
    <3>4. SentInv'
        BY <3>1, <3>2 DEF IInv, TypeOK, SentInv
    <3>5. ReplyInv' /\ HeardInv' /\ OutcomeInv'
        BY <3>1, <3>2 DEF IInv, TypeOK, ReplyInv, HeardInv, OutcomeInv
    <3> QED
        BY <3>3, <3>4, <3>5 DEF IInv
  <2>2. CASE ~(attempt[c] < MaxRetries)
    <3>1. /\ pc[c] = "wait"
          /\ outcome' = [outcome EXCEPT ![c] = "transport_error"]
          /\ pc' = [pc EXCEPT ![c] = "done"]
          /\ UNCHANGED <<attempt, cancelled, heard, srv, reply, executed, observed, store, before>>
        BY <1>3, <2>2 DEF TransportError, AttemptFails, Return, server
    <3> QED
        BY <3>1 DEF IInv, TypeOK, SentInv, ReplyInv, HeardInv, OutcomeInv
  <2> QED
    BY <2>1, <2>2
<1>4. CASE Receive(c)
  <2>1. CASE attempt[c] < MaxRetries /\ reply[c][attempt[c]].http \in RetryableStatus
    <3>1. /\ pc[c] = "wait"
          /\ reply[c][attempt[c]] # NoReply
          /\ heard' = [heard EXCEPT ![c] = @ \cup {attempt[c]}]
          /\ attempt' = [attempt EXCEPT ![c] = @ + 1]
          /\ pc' = [pc EXCEPT ![c] = "sleep"]
          /\ UNCHANGED <<outcome, cancelled, srv, reply, executed, observed, store, before>>
        BY <1>4, <2>1 DEF Receive, AttemptFails, Return, server
    <3>2. attempt[c] \in Attempts /\ attempt[c] + 1 \in Attempts
        BY <2>1, <3>1 DEF IInv, TypeOK
    <3>3. TypeOK'
        BY <3>1, <3>2 DEF IInv, TypeOK
    <3>4. SentInv' /\ ReplyInv'
        BY <3>1, <3>2 DEF IInv, TypeOK, SentInv, ReplyInv
    <3>5. HeardInv' /\ OutcomeInv'
        BY <2>1, <3>1, <3>2 DEF IInv, TypeOK, HeardInv, OutcomeInv
    <3> QED
        BY <3>3, <3>4, <3>5 DEF IInv
  <2>2. CASE ~(attempt[c] < MaxRetries /\ reply[c][attempt[c]].http \in RetryableStatus)
    <3>1. /\ pc[c] = "wait"
          /\ reply[c][attempt[c]] # NoReply
          /\ heard' = [heard EXCEPT ![c] = @ \cup {attempt[c]}]
          /\ pc' = [pc EXCEPT ![c] = "body"]
          /\ UNCHANGED <<attempt, outcome, cancelled, srv, reply, executed, observed, store, before>>
        BY <1>4, <2>2 DEF Receive, server
    <3> QED
        BY <3>1 DEF IInv, TypeOK, SentInv, ReplyInv, HeardInv, OutcomeInv
  <2> QED
    BY <2>1, <2>2
<1>5. CASE Wake(c)
    BY <1>5 DEF Wake, SendCopy, server, IInv, TypeOK, SentInv, ReplyInv, HeardInv, OutcomeInv
<1>6. CASE SleepCancelled(c)
    BY <1>6 DEF SleepCancelled, Return, server, IInv, TypeOK, SentInv, ReplyInv, HeardInv, OutcomeInv
<1>7. CASE Decode(c)
    BY <1>7, VerdictType DEF Decode, Return, server, IInv, TypeOK, SentInv, ReplyInv, HeardInv, OutcomeInv
<1>8. CASE ReadBodyFails(c)
    BY <1>8 DEF ReadBodyFails, Return, server, IInv, TypeOK, SentInv, ReplyInv, HeardInv, OutcomeInv
<1>9. CASE Cancel(c)
    BY <1>9 DEF Cancel, server, IInv, TypeOK, SentInv, ReplyInv, HeardInv, OutcomeInv
<1> QED
    BY <1>1, <1>2, <1>3, <1>4, <1>5, <1>6, <1>7, <1>8, <1>9 DEF ClientStep

\* So does every step of the network and of the server.
LEMMA CopyIInv ==
    ASSUME IInv, NEW c \in Calls, NEW k \in Attempts, CopyStep(c, k)
    PROVE  IInv'
<1> USE RetriesAssumption, ResponseFacts DEF Attempts
<1>1. CASE Lose(c, k)
    BY <1>1 DEF Lose, client, server, IInv, TypeOK, SentInv, ReplyInv, HeardInv, OutcomeInv
<1>2. CASE GatewayAnswers(c, k)
    BY <1>2 DEF GatewayAnswers, client, server, IInv, TypeOK, SentInv, ReplyInv, HeardInv, OutcomeInv
<1>3. CASE RejectAuth(c, k)
    BY <1>3 DEF RejectAuth, Answer, client, server, IInv, TypeOK, SentInv, ReplyInv, HeardInv, OutcomeInv
<1>4. CASE RejectRoute(c, k)
    BY <1>4 DEF RejectRoute, Answer, Observe, client, server, IInv, TypeOK, SentInv, ReplyInv, HeardInv, OutcomeInv
<1>5. CASE Dispatch(c, k)
    BY <1>5 DEF Dispatch, client, server, IInv, TypeOK, SentInv, ReplyInv, HeardInv, OutcomeInv
<1>6. CASE Execute(c, k)
    BY <1>6 DEF Execute, client, server, IInv, TypeOK, SentInv, ReplyInv, HeardInv, OutcomeInv
<1>7. CASE HandlerSucceeds(c, k)
    BY <1>7 DEF HandlerSucceeds, Answer, Observe, client, server, IInv, TypeOK, SentInv, ReplyInv, HeardInv, OutcomeInv
<1>8. CASE HandlerFails(c, k)
    BY <1>8 DEF HandlerFails, Answer, Observe, client, server, IInv, TypeOK, SentInv, ReplyInv, HeardInv, OutcomeInv
<1>9. CASE HandlerPanics(c, k)
    BY <1>9 DEF HandlerPanics, Answer, client, server, IInv, TypeOK, SentInv, ReplyInv, HeardInv, OutcomeInv
<1> QED
    BY <1>1, <1>2, <1>3, <1>4, <1>5, <1>6, <1>7, <1>8, <1>9 DEF CopyStep

\* Every step of a call, a copy, the network and the gateway keeps it.
LEMMA NextIInv == IInv /\ [Next]_vars => IInv'
<1> SUFFICES ASSUME IInv, [Next]_vars PROVE IInv'
    OBVIOUS
<1>1. CASE UNCHANGED vars
    BY <1>1 DEF vars, IInv, TypeOK, SentInv, ReplyInv, HeardInv, OutcomeInv
<1>2. CASE Next
    BY <1>2, ClientIInv, CopyIInv DEF Next
<1> QED
    BY <1>1, <1>2

\* The inductive invariant of the exchange.
THEOREM Invariance == Spec => []IInv
    BY InitIInv, NextIInv, PTL DEF Spec

\* Every variable keeps the values it is meant to have.
THEOREM TypeCorrect == Spec => []TypeOK
<1>1. IInv => TypeOK
    BY DEF IInv
<1> QED
    BY <1>1, Invariance, PTL

-----------------------------------------------------------------------------
(* Safety.                                                                  *)

\* A success is never reported for a call the peer has not carried out.
THEOREM OkIsExecuted == Spec => []OkMeansExecuted
<1>1. IInv => OkMeansExecuted
    BY DEF IInv, OutcomeInv, OkMeansExecuted
<1> QED
    BY <1>1, Invariance, PTL

\* The peer repeats a call only if its earlier execution went unheard or was
\* answered with a retryable status.
THEOREM NoRepeatAfterSettled == Spec => []RepeatedOnlyWhenInDoubt
<1>1. IInv => RepeatedOnlyWhenInDoubt
  <2> SUFFICES ASSUME IInv, NEW c \in Calls, NEW j \in executed[c], NEW k \in executed[c],
                      j < k, j \in heard[c]
               PROVE  reply[c][j].http \in RetryableStatus
      BY DEF RepeatedOnlyWhenInDoubt
  <2>1. j \in Attempts /\ k \in Attempts
      BY DEF IInv, TypeOK
  <2>2. k <= attempt[c]
      BY <2>1 DEF IInv, ReplyInv, SentInv
  <2>3. j < attempt[c]
      BY <2>1, <2>2, RetriesAssumption DEF IInv, TypeOK, Attempts
  <2> QED
      BY <2>3 DEF IInv, HeardInv
<1> QED
    BY <1>1, Invariance, PTL

\* The retry loop hands the peer's own last answer to the application.
THEOREM LastAnswerDelivered == Spec => []FinalAnswerIsDelivered
<1>1. IInv => FinalAnswerIsDelivered
    BY DEF IInv, OutcomeInv, FinalAnswerIsDelivered
<1> QED
    BY <1>1, Invariance, PTL

\* Without a gateway, only a transport error leaves a copy at work.
LEMMA IInvStragglers == IInv => StragglersComeFromErrors
    BY DEF IInv, TypeOK, ReplyInv, HeardInv, StragglersComeFromErrors, Unattended

\* Without a gateway, a copy outlives its attempt only after a transport error.
THEOREM OnlyErrorsLeaveStragglers == Spec => []StragglersComeFromErrors
    BY IInvStragglers, Invariance, PTL

-----------------------------------------------------------------------------
(* The order of writes.                                                     *)

\* A clean call that had returned before b began has no copy left to execute.
THEOREM WritesKeepTheirOrder == Spec => NoWriteOvertakesALaterOne
<1>1. IInv /\ [Next]_vars => [WritesInOrder]_vars
  <2> SUFFICES ASSUME IInv, Next, NEW a \in Calls, NEW b \in Calls,
                      GatewayReplies = {}, store = b, a \in before[b], Clean(a), store' = a
               PROVE  FALSE
      BY DEF WritesInOrder
  <2>1. a # b
      BY DEF IInv, OutcomeInv
  <2>2. PICK k \in Attempts : Execute(a, k)
    <3>1. store' # store
        BY <2>1
    <3>2. \A c \in Calls : ClientStep(c) => store' = store
        BY DEF ClientStep, Begin, RejectLocally, TransportError, Receive, Wake, SleepCancelled,
               Decode, ReadBodyFails, Cancel, server
    <3>3. \A c \in Calls, k \in Attempts : CopyStep(c, k) /\ ~Execute(c, k) => store' = store
        BY DEF CopyStep, Lose, GatewayAnswers, RejectAuth, RejectRoute, Dispatch,
               HandlerSucceeds, HandlerFails, HandlerPanics, server
    <3>4. \A c \in Calls, k \in Attempts : Execute(c, k) => store' = c
        BY DEF Execute
    <3> QED
        BY <3>1, <3>2, <3>3, <3>4 DEF Next
  <2>3. srv[a][k] = "serving"
      BY <2>2 DEF Execute
  <2>4. k \in heard[a]
      BY <2>3 DEF Clean
  <2>5. srv[a][k] = "over"
      BY <2>4 DEF IInv, HeardInv, ReplyInv
  <2> QED
      BY <2>3, <2>5
<1> QED
    BY <1>1, Invariance, PTL DEF Spec, NoWriteOvertakesALaterOne

-----------------------------------------------------------------------------
(* Observation.                                                             *)

\* What the server's metrics have of the copies: whatever was answered as a
\* success, and whatever was carried out and answered by its handler; the rest
\* of the replies is a gateway's or a recovered panic's.
ObservedInv ==
    \A c \in Calls :
        /\ outcome[c] = "ok" => attempt[c] \in observed[c]
        /\ \A k \in Attempts :
              /\ reply[c][k] # NoReply /\ Verdict(reply[c][k]) = "ok" => k \in observed[c]
              /\ reply[c][k] # NoReply /\ srv[c][k] # "over" => reply[c][k] \in GatewayReplies
              /\ k \in executed[c] /\ k \notin observed[c] /\ srv[c][k] = "over" =>
                    reply[c][k] \in PanicReplies \cup GatewayReplies

\* The client adds nothing to what the server answered.
LEMMA ClientObserved ==
    ASSUME IInv, ObservedInv, NEW c \in Calls, ClientStep(c)
    PROVE  ObservedInv'
<1> USE DEF IInv, TypeOK, ObservedInv, server
<1>1. CASE Begin(c)
    BY <1>1, RetriesAssumption DEF Begin, SendCopy, SentInv, ReplyInv, Attempts
<1>2. CASE RejectLocally(c) \/ SleepCancelled(c) \/ ReadBodyFails(c)
    BY <1>2 DEF RejectLocally, SleepCancelled, ReadBodyFails, Return
<1>3. CASE TransportError(c) \/ Receive(c)
  <2>1. /\ UNCHANGED <<srv, reply, executed, observed>>
        /\ pc[c] = "wait"
        /\ outcome' = outcome \/ \E e \in {"transport_error", "retryable_status"} :
                                    outcome' = [outcome EXCEPT ![c] = e] /\ attempt' = attempt
        /\ attempt' = attempt \/ attempt' = [attempt EXCEPT ![c] = @ + 1]
    BY <1>3 DEF TransportError, Receive, AttemptFails, Return
  <2>2. outcome[c] = "none"  BY <2>1 DEF OutcomeInv
  <2> QED
    BY <2>1, <2>2
<1>4. CASE Wake(c)
    BY <1>4 DEF Wake, SendCopy, SentInv, ReplyInv
<1>5. CASE Decode(c)
    BY <1>5 DEF Decode, Return, HeardInv
<1>6. CASE Cancel(c)
    BY <1>6 DEF Cancel
<1> QED
    BY <1>1, <1>2, <1>3, <1>4, <1>5, <1>6 DEF ClientStep

\* Only a copy that fails authentication or panics ends unobserved.
LEMMA CopyObserved ==
    ASSUME IInv, ObservedInv, NEW c \in Calls, NEW k \in Attempts, CopyStep(c, k)
    PROVE  ObservedInv'
<1> USE ResponseFacts DEF IInv, TypeOK, ReplyInv, ObservedInv, client, server
<1>1. CASE Lose(c, k)
    BY <1>1 DEF Lose
<1>2. CASE GatewayAnswers(c, k)
    BY <1>2 DEF GatewayAnswers
<1>3. CASE RejectAuth(c, k)
    BY <1>3 DEF RejectAuth, Answer
<1>4. CASE RejectRoute(c, k)
    BY <1>4 DEF RejectRoute, Answer, Observe
<1>5. CASE Dispatch(c, k)
    BY <1>5 DEF Dispatch
<1>6. CASE Execute(c, k)
    BY <1>6 DEF Execute
<1>7. CASE HandlerSucceeds(c, k)
    BY <1>7 DEF HandlerSucceeds, Answer, Observe
<1>8. CASE HandlerFails(c, k)
    BY <1>8 DEF HandlerFails, Answer, Observe
<1>9. CASE HandlerPanics(c, k)
    BY <1>9 DEF HandlerPanics, Answer
<1> QED
    BY <1>1, <1>2, <1>3, <1>4, <1>5, <1>6, <1>7, <1>8, <1>9 DEF CopyStep

\* The metrics have every success, and all that was carried out but for panics.
THEOREM MetricsAreComplete == Spec => []MetricsMissOnlyPanics
<1>1. ASSUME Init PROVE ObservedInv
  <2>1. /\ \A c \in Calls : outcome[c] = "none" /\ executed[c] = {}
        /\ \A c \in Calls : \A k \in Attempts : reply[c][k] = NoReply
      BY <1>1 DEF Init
  <2>2. "none" # "ok"
      OBVIOUS
  <2> QED
      BY <2>1, <2>2 DEF ObservedInv
<1>2. IInv /\ ObservedInv /\ [Next]_vars => ObservedInv'
  <2>1. ObservedInv /\ UNCHANGED vars => ObservedInv'
      BY DEF vars, ObservedInv
  <2> QED
      BY <2>1, ClientObserved, CopyObserved DEF Next
<1>3. IInv /\ ObservedInv => MetricsMissOnlyPanics
    BY DEF IInv, TypeOK, ObservedInv, MetricsMissOnlyPanics
<1> QED
    BY <1>1, <1>2, <1>3, Invariance, PTL DEF Spec

-----------------------------------------------------------------------------
(* Refinement.                                                              *)

\* Every behaviour of the exchange is one of the at-least-once call.
THEOREM Refinement == Spec => RemoteSpec
<1>1. Init => Remote!Init
    BY DEF Init, Remote!Init
<1>2. IInv /\ IInv' /\ [Next]_vars => [Remote!Next]_(Remote!rvars)
  <2> SUFFICES ASSUME IInv, IInv', [Next]_vars
               PROVE  Remote!Next \/ UNCHANGED Remote!rvars
      OBVIOUS
  <2> DEFINE st == [c \in Calls |->
                 IF pc[c] = "idle" THEN "idle"
                 ELSE IF pc[c] # "done" THEN "open"
                 ELSE IF outcome[c] = "ok" THEN "ok" ELSE "failed"]
  <2>1. CASE UNCHANGED vars
      BY <2>1 DEF vars, Remote!rvars
  <2>2. ASSUME NEW c \in Calls, ClientStep(c) PROVE Remote!Next \/ UNCHANGED Remote!rvars
    <3>1. CASE Begin(c)
      <4>1. Remote!Open(c)
          BY <3>1 DEF Begin, SendCopy, server, Remote!Open, IInv, TypeOK
      <4> QED
          BY <4>1 DEF Remote!Next
    <3>2. ASSUME NEW o, o # "ok", o # "none", pc[c] # "done", Return(c, o), UNCHANGED executed
          PROVE  Remote!Next
      <4>1. Remote!ReportFailed(c)
          BY <3>2 DEF Return, Remote!ReportFailed, IInv, TypeOK
      <4> QED
          BY <4>1 DEF Remote!Next
    <3>3. CASE RejectLocally(c) \/ SleepCancelled(c) \/ ReadBodyFails(c)
        BY <3>2, <3>3 DEF RejectLocally, SleepCancelled, ReadBodyFails, server
    <3>4. CASE TransportError(c) \/ Receive(c)
      <4>1. CASE pc'[c] = "done"
        <5>1. \E o : o # "ok" /\ o # "none" /\ pc[c] # "done" /\ Return(c, o) /\ UNCHANGED executed
            BY <3>4, <4>1 DEF TransportError, Receive, AttemptFails, server, IInv, TypeOK
        <5> QED
            BY <3>2, <5>1
      <4>2. CASE pc'[c] # "done"
        BY <3>4, <4>2 DEF TransportError, Receive, AttemptFails, Return, server, Remote!rvars, IInv, TypeOK
      <4> QED
        BY <4>1, <4>2
    <3>5. CASE Decode(c)
      <4>1. CASE Verdict(reply[c][attempt[c]]) = "ok"
        <5>1. executed[c] # {}
            BY <3>5, <4>1 DEF Decode, IInv, HeardInv, ReplyInv, TypeOK
        <5>2. Remote!ReportDone(c)
            BY <3>5, <4>1, <5>1 DEF Decode, Return, server, Remote!ReportDone, IInv, TypeOK
        <5> QED
            BY <5>2 DEF Remote!Next
      <4>2. CASE Verdict(reply[c][attempt[c]]) # "ok"
        BY <3>2, <3>5, <4>2, VerdictType DEF Decode, server
      <4> QED
        BY <4>1, <4>2
    <3>6. CASE Wake(c) \/ Cancel(c)
        BY <3>6 DEF Wake, Cancel, SendCopy, server, Remote!rvars, IInv, TypeOK
    <3> QED
        BY <2>2, <3>1, <3>3, <3>4, <3>5, <3>6 DEF ClientStep
  <2>3. ASSUME NEW c \in Calls, NEW k \in Attempts, CopyStep(c, k)
        PROVE  Remote!Next \/ UNCHANGED Remote!rvars
    <3>1. CASE Execute(c, k)
      <4>1. Remote!CarryOut(c)
          BY <3>1 DEF Execute, client, Remote!CarryOut, IInv, SentInv
      <4> QED
          BY <4>1 DEF Remote!Next
    <3>2. CASE ~Execute(c, k)
      <4>1. UNCHANGED <<pc, outcome, executed>>
          BY <2>3, <3>2 DEF CopyStep, Lose, GatewayAnswers, RejectAuth, RejectRoute, Dispatch,
                 HandlerSucceeds, HandlerFails, HandlerPanics, server, client
      <4> QED
          BY <4>1 DEF Remote!rvars
    <3> QED
        BY <3>1, <3>2
  <2> QED
      BY <2>1, <2>2, <2>3 DEF Next
<1> QED
    BY <1>1, <1>2, Invariance, PTL DEF Spec, RemoteSpec, Remote!Spec
=============================================================================
