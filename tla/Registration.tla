---------------------------- MODULE Registration ----------------------------
(***************************************************************************)
(* The registration handshake (handshake/handshake.go) between a caller and *)
(* a peer, over calls whose answers may get lost.  Register asks for the    *)
(* peer's versions and the details of the preferred one, and posts the      *)
(* caller's credentials; the peer's OnRegister issues a fresh token for the *)
(* caller, its token store may at the same time stop accepting the others,  *)
(* and the POST is retried as core's client retries every call.             *)
(*                                                                          *)
(* Tokens are numbered as the peer issues them; 0 is the one the caller was *)
(* given out of band (token A).  Registrations are numbered too, and the    *)
(* credentials the caller sends are those of the registration.              *)
(***************************************************************************)
EXTENDS Naturals, Sequences

CONSTANTS
    MaxRetries,   \* of the caller's client (WithRetry)
    MaxRegs,      \* bound on the number of times the caller registers
    Versions,     \* the peer's answer: sequence of [version, url]
    Details,      \* its details by URL: sequences of [identifier, url]
    Prefer,       \* the version the caller wants
    Routes        \* the URLs at which the peer serves POST credentials

ASSUME BoundsAssumption == MaxRetries \in Nat /\ MaxRegs \in Nat
ASSUME OfferAssumption ==
    \A n \in 1 .. Len(Versions) : Versions[n].url \in DOMAIN Details

Attempts == 0 .. MaxRetries
Regs == 1 .. MaxRegs

VARIABLES
    pc,       \* Register: "idle", "versions", "details", "post", "registered", "failed"
    reg,      \* the number of the latest registration
    token,    \* the token of the client each registration is made with
    attempt,  \* the attempt of its POST under way
    held,     \* the token in the Peer it returned
    has,      \* the tokens the caller has been given
    copy,     \* each POST's attempts: "unsent", "flying", "serving", "over"
    result,   \* how the peer answered: "none", "issued", "refused", "error"
    given,    \* the token it issued
    heard,    \* whether the caller got the answer
    issued,   \* the latest token the peer issued
    valid,    \* the tokens the peer's store accepts
    party     \* the registration whose credentials the peer keeps, 0: none

caller == <<pc, reg, token, attempt, held, has>>
peer   == <<issued, valid, party>>
vars   == <<pc, reg, token, attempt, held, has, copy, result, given, heard, issued, valid, party>>

-----------------------------------------------------------------------------
(* Discover and the first half of Register: the last matching entry counts. *)

LastURL(entries, field, wanted) ==
    LET ns == {n \in 1 .. Len(entries) : entries[n][field] = wanted}
    IN  {entries[n].url : n \in {m \in ns : \A k \in ns : k <= m}}

DetailsURL == LastURL(Versions, "version", Prefer)
CredentialsURL(url) == LastURL(Details[url], "identifier", "credentials")

\* Whether Mount serves what CredentialsURL says.
Routed == \A url \in DetailsURL : CredentialsURL(url) \subseteq Routes

Init ==
    /\ pc = "idle" /\ reg = 0 /\ token = [r \in Regs |-> 0] /\ attempt = 0 /\ held = 0 /\ has = {0}
    /\ copy   = [r \in Regs |-> [k \in Attempts |-> "unsent"]]
    /\ result = [r \in Regs |-> [k \in Attempts |-> "none"]]
    /\ given  = [r \in Regs |-> [k \in Attempts |-> 0]]
    /\ heard  = [r \in Regs |-> [k \in Attempts |-> FALSE]]
    /\ issued = 0 /\ valid = {0} /\ party = 0

\* The application registers, with a client made with a token it has.
Register ==
    /\ pc \in {"idle", "registered", "failed"} /\ reg < MaxRegs
    /\ pc' = "versions" /\ reg' = reg + 1
    /\ \E t \in has : token' = [token EXCEPT ![reg + 1] = t]
    /\ UNCHANGED <<attempt, held, has, copy, result, given, heard, issued, valid, party>>

Fail ==
    /\ pc' = "failed"
    /\ UNCHANGED <<reg, token, attempt, held, has>>

\* Versions: refused without a valid token, useless without the version.
GetVersions ==
    /\ pc = "versions"
    /\ \/ /\ token[reg] \in valid /\ DetailsURL # {}
          /\ pc' = "details"
          /\ UNCHANGED <<reg, token, attempt, held, has>>
       \/ (token[reg] \notin valid \/ DetailsURL = {}) /\ Fail
    /\ UNCHANGED <<copy, result, given, heard, issued, valid, party>>

Send(r, k) == copy' = [copy EXCEPT ![r][k] = "flying"]

\* Details, and the first attempt of the POST if they name a credentials URL.
GetDetails ==
    /\ pc = "details"
    /\ LET found == \E url \in DetailsURL : CredentialsURL(url) # {}
       IN  \/ /\ token[reg] \in valid /\ found
              /\ pc' = "post" /\ attempt' = 0 /\ Send(reg, 0)
              /\ UNCHANGED <<reg, token, held, has>>
           \/ (token[reg] \notin valid \/ ~ found) /\ Fail /\ UNCHANGED copy
    /\ UNCHANGED <<result, given, heard, issued, valid, party>>

\* A GET fails for good: its retries are used up, or the context is done.
GetFails ==
    /\ pc \in {"versions", "details"}
    /\ Fail
    /\ UNCHANGED <<copy, result, given, heard, issued, valid, party>>

-----------------------------------------------------------------------------
(* The POST at the caller (core/client.go, as Register sees it).            *)

\* Mutant of RetryOrFail: attempts are not counted.
RetryForever ==
    \/ /\ attempt < MaxRetries
       /\ Send(reg, attempt)
       /\ UNCHANGED caller
    \/ Fail /\ UNCHANGED copy

\* The next attempt, or the end of the call: none is left, or the context is
\* done during the backoff.
RetryOrFail ==
    \/ /\ attempt < MaxRetries
       /\ attempt' = attempt + 1 /\ Send(reg, attempt + 1)
       /\ UNCHANGED <<pc, reg, token, held, has>>
    \/ Fail /\ UNCHANGED copy

\* A transport error, wherever the request has got to.
AttemptFails ==
    /\ pc = "post"
    /\ RetryOrFail
    /\ UNCHANGED <<result, given, heard, issued, valid, party>>

Answered == pc = "post" /\ copy[reg][attempt] = "over" /\ result[reg][attempt] # "none"
Hear == heard' = [heard EXCEPT ![reg][attempt] = TRUE]

\* Mutant of Receive: the Peer has the token the client was made with.
ReceiveOldToken ==
    /\ Answered /\ result[reg][attempt] = "issued"
    /\ pc' = "registered"
    /\ held' = token[reg]
    /\ has' = has \cup {given[reg][attempt]}
    /\ Hear
    /\ UNCHANGED <<reg, token, attempt, copy, result, given, issued, valid, party>>

\* Mutant of Receive: the status of the answer is not looked at.
ReceiveAnyAnswer ==
    /\ Answered /\ result[reg][attempt] \in {"issued", "error"}
    /\ pc' = "registered"
    /\ held' = given[reg][attempt]
    /\ has' = has \cup {held'}
    /\ Hear
    /\ UNCHANGED <<reg, token, attempt, copy, result, given, issued, valid, party>>

\* The credentials are decoded, and Register returns the peer.
Receive ==
    /\ Answered /\ result[reg][attempt] = "issued"
    /\ pc' = "registered"
    /\ held' = given[reg][attempt]
    /\ has' = has \cup {held'}
    /\ Hear
    /\ UNCHANGED <<reg, token, attempt, copy, result, given, issued, valid, party>>

\* The answer's status is there but its body cannot be read: not retried.
DecodeFails ==
    /\ Answered /\ result[reg][attempt] = "issued"
    /\ Fail
    /\ UNCHANGED <<copy, result, given, heard, issued, valid, party>>

\* 401 and 404 end the call, the 500 of a failed OnRegister is retried.
ReceiveRefusal ==
    /\ Answered /\ result[reg][attempt] = "refused"
    /\ Fail /\ Hear
    /\ UNCHANGED <<copy, result, given, issued, valid, party>>

ReceiveError ==
    /\ Answered /\ result[reg][attempt] = "error"
    /\ RetryOrFail /\ Hear
    /\ UNCHANGED <<result, given, issued, valid, party>>

-----------------------------------------------------------------------------
(* The POST at the peer.                                                    *)

Answer(r, k, what) ==
    /\ copy' = [copy EXCEPT ![r][k] = "over"]
    /\ result' = [result EXCEPT ![r][k] = what]

\* The copy is lost on its way.
Lose(r, k) ==
    /\ copy[r][k] = "flying"
    /\ copy' = [copy EXCEPT ![r][k] = "over"]
    /\ UNCHANGED <<caller, result, given, heard, peer>>

\* authMiddleware and the route: refused, or passed to Mount's handler.
Refuse(r, k) ==
    /\ copy[r][k] = "flying"
    /\ token[r] \notin valid \/ ~ Routed
    /\ Answer(r, k, "refused")
    /\ UNCHANGED <<caller, given, heard, peer>>

Dispatch(r, k) ==
    /\ copy[r][k] = "flying"
    /\ token[r] \in valid /\ Routed
    /\ copy' = [copy EXCEPT ![r][k] = "serving"]
    /\ UNCHANGED <<caller, result, given, heard, peer>>

\* A fresh token, beside the ones accepted so far or in their place.
Issue(r, k) ==
    /\ issued' = issued + 1
    /\ given' = [given EXCEPT ![r][k] = issued + 1]
    /\ valid' \in {valid \cup {issued + 1}, {issued + 1}}

\* OnRegister: the caller's credentials are kept and a fresh token handed back.
OnRegister(r, k) ==
    /\ copy[r][k] = "serving"
    /\ Issue(r, k) /\ party' = r
    /\ Answer(r, k, "issued")
    /\ UNCHANGED <<caller, heard>>

\* Any part of what OnRegister does to the application's store.
IssuePartly(r, k) ==
    /\ party' \in {party, r}
    /\ \/ Issue(r, k)
       \/ valid' \in {valid, {}} /\ UNCHANGED <<issued, given>>

\* Mutant of OnRegisterFails: the callback's error is answered as one of the
\* caller's (GenericClient).
OnRegisterBlamesCaller(r, k) ==
    /\ copy[r][k] = "serving"
    /\ IssuePartly(r, k)
    /\ Answer(r, k, "refused")
    /\ UNCHANGED <<caller, heard>>

\* OnRegister returns an error, or panics: a 500 either way, whatever it has
\* done to the store before.
OnRegisterFails(r, k) ==
    /\ copy[r][k] = "serving"
    /\ IssuePartly(r, k)
    /\ Answer(r, k, "error")
    /\ UNCHANGED <<caller, heard>>

CallerStep ==
    \/ GetVersions \/ GetDetails \/ GetFails
    \/ AttemptFails \/ Receive \/ DecodeFails \/ ReceiveRefusal \/ ReceiveError

PeerStep(r, k) ==
    \/ Lose(r, k) \/ Refuse(r, k) \/ Dispatch(r, k)
    \/ OnRegister(r, k) \/ OnRegisterFails(r, k)

Next == Register \/ CallerStep \/ \E r \in Regs, k \in Attempts : PeerStep(r, k)

Spec == Init /\ [][Next]_vars

\* The caller's goroutine runs, and its context has a deadline, so that every
\* call it makes is answered or fails.  Nothing makes the peer answer.
FairSpec == Spec /\ WF_vars(CallerStep)

-----------------------------------------------------------------------------
(* Correctness.                                                             *)

TypeOK ==
    /\ pc \in {"idle", "versions", "details", "post", "registered", "failed"}
    /\ reg \in 0 .. MaxRegs /\ attempt \in Attempts
    /\ pc # "idle" => reg \in Regs
    /\ pc = "idle" => reg = 0
    /\ held \in Nat /\ has \subseteq Nat /\ 0 \in has
    /\ token \in [Regs -> Nat]
    /\ copy \in [Regs -> [Attempts -> {"unsent", "flying", "serving", "over"}]]
    /\ result \in [Regs -> [Attempts -> {"none", "issued", "refused", "error"}]]
    /\ given \in [Regs -> [Attempts -> Nat]]
    /\ heard \in [Regs -> [Attempts -> BOOLEAN]]
    /\ issued \in Nat /\ valid \subseteq 0 .. issued
    /\ party \in 0 .. MaxRegs

UnderWay(r, k) == pc = "post" /\ r = reg /\ k = attempt

\* OnRegister ran for a copy, to its end or to an error, and the caller has not
\* heard its answer.
Ran(r, k)     == result[r][k] \in {"issued", "error"}
Unheard(r, k) == Ran(r, k) /\ ~ heard[r][k]

\* The caller registered successfully in registration r or since.
SucceededSince(r) ==
    \E s \in Regs, j \in Attempts : s >= r /\ heard[s][j] /\ result[s][j] = "issued"

\* A Peer holds a token the peer issued to this very registration, in an answer
\* the caller heard: no answer of another one, no empty credentials.
PeerIsOfThisRegistration ==
    pc = "registered" =>
        /\ held # 0
        /\ \E k \in Attempts :
              heard[reg][k] /\ result[reg][k] = "issued" /\ given[reg][k] = held

\* Once registered, the Peer is of this registration and both sides agree: its
\* token is accepted, and the peer keeps the credentials of that registration;
\* unless OnRegister ran for a copy whose answer went unheard, before or since.
\* What OnRegister left behind when it failed, and the caller was told, does
\* not count: the retry that succeeded has made up for it.  (Register over
\* Do's retries, Mount)
BothSidesAgree ==
    /\ PeerIsOfThisRegistration
    /\ pc = "registered" =>
          \/ held \in valid /\ party = reg
          \/ \E r \in Regs, k \in Attempts : Unheard(r, k)

\* A token the peer accepts and the caller does not know was issued to a copy
\* whose answer went unheard (or is on its way), or was an error.
StrayTokensAreInDoubt ==
    \A t \in valid \ has : \E r \in Regs, k \in Attempts :
        given[r][k] = t /\ (Unheard(r, k) \/ result[r][k] = "error")

\* The caller is locked out, with no token the peer accepts, only by an
\* OnRegister whose answer it has not heard, or that failed and has not been
\* made up for: the retry with the old token is then refused.  No refusal of
\* a POST and no Peer leaves the caller without a token.
LockedOutOnlyInDoubt ==
    has \cap valid = {} =>
        \E r \in Regs, k \in Attempts :
            Unheard(r, k) \/ (result[r][k] = "error" /\ ~ SucceededSince(r))

\* Register returns, whatever the network and the peer do.
RegisterReturns == (pc \in {"versions", "details", "post"}) ~> (pc \in {"registered", "failed"})

\* To the application a registration is an at-least-once call: a Peer means
\* that the peer registered the caller for it, an error promises nothing, and
\* a copy of the POST may register again after Register has returned.
Outcome(r) == IF \E k \in Attempts : heard[r][k] /\ result[r][k] = "issued" THEN "ok" ELSE "failed"

StateOf(r) ==
    IF r > reg THEN "idle"
    ELSE IF r < reg THEN Outcome(r)
    ELSE IF pc = "registered" THEN "ok"
    ELSE IF pc = "failed" THEN "failed" ELSE "open"

DoneOf(r) == {k \in Attempts : given[r][k] # 0}

Remote == INSTANCE RemoteCall WITH
    Calls  <- Regs,
    Copies <- Attempts,
    state  <- [r \in Regs |-> StateOf(r)],
    done   <- [r \in Regs |-> DoneOf(r)]

RemoteSpec == Remote!Spec
=============================================================================
