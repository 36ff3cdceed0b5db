------------------------- MODULE Registration_proofs -------------------------
(***************************************************************************)
(* Proofs about Registration, for any number of registrations and retries,  *)
(* any peer and any choice of its token store.                              *)
(***************************************************************************)
EXTENDS Registration, TLAPS

\* What has been sent: the attempts of the registrations so far, in order.
Sending ==
    /\ \A r \in Regs, k \in Attempts : r > reg => copy[r][k] = "unsent"
    /\ pc \in {"versions", "details"} => \A k \in Attempts : copy[reg][k] = "unsent"
    /\ pc = "post" =>
          /\ copy[reg][attempt] # "unsent"
          /\ \A k \in Attempts : k > attempt => copy[reg][k] = "unsent"

\* Answers are given once, by the copies that are over; a token was issued to
\* whoever was told so, and perhaps to a copy that was answered with an error.
Answering ==
    \A r \in Regs, k \in Attempts :
        /\ result[r][k] # "none" => copy[r][k] = "over"
        /\ given[r][k] # 0 => Ran(r, k)
        /\ result[r][k] = "issued" => given[r][k] # 0
        /\ heard[r][k] => result[r][k] # "none" /\ ~ UnderWay(r, k)

\* A token that was heard is known and ended its registration.
Hearing ==
    \A r \in Regs, k \in Attempts :
        heard[r][k] /\ result[r][k] = "issued" =>
            /\ given[r][k] \in has
            /\ r = reg => pc = "registered" /\ held = given[r][k]

\* The peer accepts no token it has not issued, but the one given out of band.
Accepting == \A t \in valid \ {0} : \E r \in Regs, k \in Attempts : given[r][k] = t

\* A token on its way to the caller is already what both sides will agree on,
\* unless OnRegister ran for another copy, whose answer went unheard.
Agreeing ==
    pc = "post" /\ result[reg][attempt] = "issued" =>
        \/ given[reg][attempt] \in valid /\ party = reg
        \/ \E r \in Regs, k \in Attempts : Unheard(r, k) /\ ~ UnderWay(r, k)

IInv ==
    /\ TypeOK /\ Sending /\ Answering /\ Hearing /\ Accepting /\ Agreeing
    /\ BothSidesAgree /\ LockedOutOnlyInDoubt

\* Nothing has been sent, and the only token is the one given out of band.
LEMMA InitIInv == Init => IInv
  BY BoundsAssumption DEF Init, IInv, TypeOK, Sending, Answering, Hearing, Accepting, Agreeing,
     BothSidesAgree, PeerIsOfThisRegistration, LockedOutOnlyInDoubt, Regs, Attempts, UnderWay, Ran

-----------------------------------------------------------------------------
(* What the parts of the actions do, attempt by attempt.                    *)

\* One entry of a table of attempts is replaced.
LEMMA Update ==
    ASSUME NEW S, NEW f \in [Regs -> [Attempts -> S]],
           NEW r \in Regs, NEW k \in Attempts, NEW v \in S
    PROVE  LET g == [f EXCEPT ![r][k] = v]
           IN  /\ g \in [Regs -> [Attempts -> S]]
               /\ \A s \in Regs, j \in Attempts :
                      g[s][j] = IF s = r /\ j = k THEN v ELSE f[s][j]
  OBVIOUS

CopyStates == {"unsent", "flying", "serving", "over"}

\* A copy is sent: one entry of the table, and nothing else of it.
LEMMA SendFacts ==
    ASSUME TypeOK, NEW r \in Regs, NEW k \in Attempts, Send(r, k)
    PROVE  /\ copy' \in [Regs -> [Attempts -> CopyStates]]
           /\ \A s \in Regs, j \in Attempts :
                  copy'[s][j] = IF s = r /\ j = k THEN "flying" ELSE copy[s][j]
<1>1. copy \in [Regs -> [Attempts -> CopyStates]] /\ "flying" \in CopyStates
  BY DEF TypeOK, CopyStates
<1> QED
  BY <1>1, Update DEF Send

\* The attempt under way is heard, and no other one.
HeardNow ==
    /\ heard' \in [Regs -> [Attempts -> BOOLEAN]]
    /\ \A s \in Regs, j \in Attempts :
           heard'[s][j] <=> heard[s][j] \/ (s = reg /\ j = attempt)

\* Hearing an answer marks the attempt under way.
LEMMA HearFacts ==
    ASSUME TypeOK, reg \in Regs, Hear
    PROVE  HeardNow
<1>1. heard \in [Regs -> [Attempts -> BOOLEAN]] /\ attempt \in Attempts
  BY DEF TypeOK
<1>2. heard' = [heard EXCEPT ![reg] = [heard[reg] EXCEPT ![attempt] = TRUE]]
  BY <1>1 DEF Hear
<1>3. [heard[reg] EXCEPT ![attempt] = TRUE] \in [Attempts -> BOOLEAN]
  BY <1>1, Zenon
<1>4. heard' \in [Regs -> [Attempts -> BOOLEAN]]
  BY <1>1, <1>2, <1>3, Zenon
<1>5. ASSUME NEW s \in Regs, NEW j \in Attempts
      PROVE  heard'[s][j] <=> heard[s][j] \/ (s = reg /\ j = attempt)
  <2>1. CASE s # reg
    <3>1. heard'[s] = heard[s]
      BY <1>1, <1>2, <2>1, Zenon
    <3> QED
      BY <3>1, <2>1
  <2>2. CASE s = reg
    <3>1. heard'[reg] = [heard[reg] EXCEPT ![attempt] = TRUE]
      BY <1>1, <1>2, Zenon
    <3>2. heard[reg] \in [Attempts -> BOOLEAN]
      BY <1>1
    <3>3. CASE j = attempt
      BY <3>1, <3>2, <3>3, <2>2, Zenon
    <3>4. CASE j # attempt
      BY <3>1, <3>2, <3>4, <2>2, Zenon
    <3> QED
      BY <3>3, <3>4
  <2> QED
    BY <2>1, <2>2
<1> QED
  BY <1>4, <1>5 DEF HeardNow

Retried ==
    /\ pc' = pc /\ attempt < MaxRetries /\ attempt' = attempt + 1
    /\ copy' \in [Regs -> [Attempts -> CopyStates]]
    /\ \A s \in Regs, j \in Attempts :
           copy'[s][j] = IF s = reg /\ j = attempt + 1 THEN "flying" ELSE copy[s][j]

Failed == pc' = "failed" /\ attempt' = attempt /\ copy' = copy

\* After a failed attempt the next copy is on its way, or the call has failed.
LEMMA RetryFacts ==
    ASSUME TypeOK, reg \in Regs, RetryOrFail
    PROVE  UNCHANGED <<reg, token, held, has>> /\ (Retried \/ Failed)
<1>1. CASE attempt < MaxRetries /\ attempt' = attempt + 1 /\ Send(reg, attempt + 1)
           /\ UNCHANGED <<pc, reg, token, held, has>>
  <2>1. attempt + 1 \in Attempts
    BY <1>1, BoundsAssumption DEF TypeOK, Attempts
  <2> QED
    BY <1>1, <2>1, SendFacts DEF Retried
<1>2. CASE Fail /\ UNCHANGED copy
  BY <1>2 DEF Fail, Failed
<1> QED
  BY <1>1, <1>2 DEF RetryOrFail

-----------------------------------------------------------------------------
(* The steps of the caller.                                                 *)

\* What the steps after which nothing was issued to the caller leave alone; an
\* answer they may have heard was not an issued token.
Quietly ==
    /\ UNCHANGED <<reg, token, held, has, result, given, issued, valid, party>>
    /\ heard' \in [Regs -> [Attempts -> BOOLEAN]]
    /\ \A s \in Regs, j \in Attempts :
           /\ heard[s][j] => heard'[s][j]
           /\ heard'[s][j] => \/ heard[s][j]
                              \/ UnderWay(s, j) /\ result[s][j] \in {"refused", "error"}

\* A step in which nothing is heard at all is a quiet one.
LEMMA Silence ==
    ASSUME TypeOK, UNCHANGED <<reg, token, held, has, result, given, heard, issued, valid, party>>
    PROVE  Quietly
  BY DEF Quietly, TypeOK

\* What is not in doubt stays so: an error that is heard now is the latest
\* answer of its registration, and no later one has succeeded.
LEMMA QuietlyInDoubt ==
    ASSUME IInv, Quietly, pc \in {"versions", "details", "post"}
    PROVE  LockedOutOnlyInDoubt'
<1> SUFFICES ASSUME has \cap valid = {}
             PROVE  \E r \in Regs, k \in Attempts :
                        Unheard(r, k)' \/ (result[r][k] = "error" /\ ~ SucceededSince(r)')
  BY DEF LockedOutOnlyInDoubt, Quietly
<1>1. \A s \in Regs, j \in Attempts : heard'[s][j] /\ result'[s][j] = "issued" =>
          heard[s][j] /\ result[s][j] = "issued" /\ s # reg
  BY DEF Quietly, IInv, Hearing
<1>2. \A r \in Regs : SucceededSince(r)' => SucceededSince(r)
  BY <1>1 DEF SucceededSince
<1>3. PICK r \in Regs, k \in Attempts : Unheard(r, k) \/ (result[r][k] = "error" /\ ~ SucceededSince(r))
  BY DEF IInv, LockedOutOnlyInDoubt
<1>4. CASE result[r][k] = "error" /\ ~ SucceededSince(r)
  BY <1>2, <1>4
<1>5. CASE Unheard(r, k) /\ ~ heard'[r][k]
  BY <1>5 DEF Unheard, Ran, Quietly
<1>6. CASE Unheard(r, k) /\ heard'[r][k]
  <2>1. r = reg /\ result[r][k] = "error"
    BY <1>6 DEF Quietly, Unheard, Ran, UnderWay
  <2>2. \A s \in Regs, j \in Attempts : heard'[s][j] /\ result'[s][j] = "issued" => ~ s > reg
    <3> SUFFICES ASSUME NEW s \in Regs, NEW j \in Attempts, heard[s][j], s > reg PROVE FALSE
      BY <1>1
    <3> QED
      BY DEF IInv, Sending, Answering
  <2>3. ~ SucceededSince(r)'
    BY <1>1, <2>1, <2>2 DEF SucceededSince, Regs
  <2> QED
    BY <2>1, <2>3, Zenon
<1> QED
  BY <1>3, <1>4, <1>5, <1>6

\* Register gives up: the tables keep their meaning without an attempt under way.
LEMMA FailKeepsIInv ==
    ASSUME IInv, Quietly, pc \in {"versions", "details", "post"}, Failed
    PROVE  IInv'
<1>1. TypeOK'
  BY DEF IInv, TypeOK, Quietly, Failed
<1>2. Sending'
  BY DEF IInv, Sending, Quietly, Failed
<1>3. Answering'
  <2> SUFFICES ASSUME NEW r \in Regs, NEW k \in Attempts
               PROVE  /\ result[r][k] # "none" => copy[r][k] = "over"
                      /\ given[r][k] # 0 => Ran(r, k)
                      /\ result[r][k] = "issued" => given[r][k] # 0
                      /\ heard'[r][k] => result[r][k] # "none"
    BY DEF Answering, Quietly, Failed, UnderWay, Ran
  <2> QED
    BY DEF IInv, Answering, Quietly
<1>4. Hearing'
  <2>1. \A r \in Regs, k \in Attempts : heard'[r][k] /\ result[r][k] = "issued" => heard[r][k]
    BY DEF Quietly
  <2>2. \A r \in Regs, k \in Attempts : heard[r][k] /\ result[r][k] = "issued" => r # reg
    BY DEF IInv, Hearing
  <2> QED
    BY <2>1, <2>2 DEF IInv, Hearing, Quietly
<1>5. Accepting' /\ Agreeing' /\ BothSidesAgree'
  BY DEF IInv, Accepting, Agreeing, BothSidesAgree, PeerIsOfThisRegistration, Quietly, Failed
<1> QED
  BY <1>1, <1>2, <1>3, <1>4, <1>5, QuietlyInDoubt DEF IInv

\* A fresh copy of the POST is sent.
LEMMA SendKeepsIInv ==
    ASSUME IInv, Quietly, NEW n \in Attempts,
           \/ pc = "details" /\ n = 0
           \/ pc = "post" /\ n = attempt + 1,
           pc' = "post", attempt' = n,
           copy' \in [Regs -> [Attempts -> CopyStates]],
           \A s \in Regs, j \in Attempts :
               copy'[s][j] = IF s = reg /\ j = n THEN "flying" ELSE copy[s][j]
    PROVE  IInv'
<1>0. reg \in Regs /\ reg' = reg /\ attempt \in Nat /\ n \in Nat
  BY BoundsAssumption DEF IInv, TypeOK, Quietly, Attempts
<1>1. copy[reg][n] = "unsent"
  BY <1>0 DEF IInv, Sending
<1>2. ~ heard'[reg][n]
  <2>1. result[reg][n] = "none"
    BY <1>0, <1>1 DEF IInv, Answering
  <2>2. ~ heard[reg][n]
    BY <1>0, <2>1 DEF IInv, Answering
  <2> QED
    BY <1>0, <2>1, <2>2 DEF Quietly
<1>3. TypeOK'
  BY <1>0 DEF IInv, TypeOK, Quietly, CopyStates
<1>4. Sending'
  <2>1. \A r \in Regs, k \in Attempts : r > reg => copy'[r][k] = "unsent"
    BY <1>0 DEF IInv, Sending, Regs
  <2>2. copy'[reg][n] # "unsent"
    BY <1>0
  <2>3. \A k \in Attempts : k > n => copy'[reg][k] = "unsent"
    <3> SUFFICES ASSUME NEW k \in Attempts, k > n PROVE copy[reg][k] = "unsent"
      BY <1>0 DEF Attempts
    <3>1. CASE pc = "details"
      BY <3>1, <1>0 DEF IInv, Sending
    <3>2. CASE pc = "post" /\ n = attempt + 1
      <4>1. k > attempt
        BY <3>2, <1>0 DEF Attempts
      <4> QED
        BY <3>2, <4>1 DEF IInv, Sending
    <3> QED
      BY <3>1, <3>2
  <2> QED
    BY <2>1, <2>2, <2>3, <1>0 DEF Sending
<1>5. Answering'
  <2> SUFFICES ASSUME NEW r \in Regs, NEW k \in Attempts
               PROVE  /\ result[r][k] # "none" => copy'[r][k] = "over"
                      /\ given[r][k] # 0 => Ran(r, k)
                      /\ result[r][k] = "issued" => given[r][k] # 0
                      /\ heard'[r][k] => result[r][k] # "none" /\ ~ (r = reg /\ k = n)
    BY <1>0 DEF Answering, Quietly, UnderWay, Ran
  <2>1. result[r][k] # "none" => copy[r][k] = "over"
    BY DEF IInv, Answering
  <2>2. result[r][k] # "none" => copy'[r][k] = "over"
    BY <2>1, <1>1
  <2>3. heard'[r][k] => result[r][k] # "none"
    BY DEF IInv, Answering, Quietly
  <2> QED
    BY <2>2, <2>3, <1>2 DEF IInv, Answering
<1>6. Hearing'
  <2>1. \A r \in Regs, k \in Attempts : heard'[r][k] /\ result[r][k] = "issued" => heard[r][k]
    BY DEF Quietly
  <2>2. \A r \in Regs, k \in Attempts : heard[r][k] /\ result[r][k] = "issued" => r # reg
    BY DEF IInv, Hearing
  <2> QED
    BY <2>1, <2>2, <1>0 DEF IInv, Hearing, Quietly
<1>7. result[reg][n] = "none"
  BY <1>0, <1>1 DEF IInv, Answering
<1>8. Accepting' /\ Agreeing' /\ BothSidesAgree'
  BY <1>0, <1>7 DEF IInv, Accepting, Agreeing, BothSidesAgree, PeerIsOfThisRegistration, Quietly
<1> QED
  BY <1>3, <1>4, <1>5, <1>6, <1>8, QuietlyInDoubt DEF IInv

\* A new registration starts with a table without copies.
LEMMA RegisterKeepsIInv == IInv /\ Register => IInv'
<1> SUFFICES ASSUME IInv, Register PROVE IInv'
  OBVIOUS
<1>0. /\ pc \in {"idle", "registered", "failed"} /\ reg < MaxRegs
      /\ pc' = "versions" /\ reg' = reg + 1
      /\ token' \in [Regs -> Nat]
      /\ UNCHANGED <<attempt, held, has, copy, result, given, heard, issued, valid, party>>
  BY BoundsAssumption DEF IInv, Register, TypeOK, Regs
<1>1. reg \in Nat /\ reg + 1 \in Regs /\ MaxRegs \in Nat
  BY <1>0, BoundsAssumption DEF IInv, TypeOK, Regs
<1>2. \A k \in Attempts : copy[reg + 1][k] = "unsent"
  BY <1>1 DEF IInv, Sending
<1>3. \A k \in Attempts : ~ heard[reg + 1][k]
  BY <1>1, <1>2 DEF IInv, Answering
<1>4. TypeOK'
  BY <1>0, <1>1 DEF IInv, TypeOK
<1>5. Sending'
  <2>1. \A r \in Regs, k \in Attempts : r > reg + 1 => copy[r][k] = "unsent"
    BY <1>1 DEF IInv, Sending, Regs
  <2> QED
    BY <1>0, <1>2, <2>1 DEF Sending
<1>6. Answering'
  BY <1>0 DEF IInv, Answering, UnderWay, Ran
<1>7. Hearing'
  BY <1>0, <1>3 DEF IInv, Hearing
<1>8. /\ Accepting' /\ Agreeing' /\ BothSidesAgree'
      /\ LockedOutOnlyInDoubt'
  BY <1>0 DEF IInv, Accepting, Agreeing, BothSidesAgree, PeerIsOfThisRegistration,
     LockedOutOnlyInDoubt, Unheard, Ran, SucceededSince
<1> QED
  BY <1>4, <1>5, <1>6, <1>7, <1>8 DEF IInv

\* The first GET changes nothing but where Register stands.
LEMMA VersionsKeepsIInv == IInv /\ GetVersions => IInv'
<1> SUFFICES ASSUME IInv, GetVersions PROVE IInv'
  OBVIOUS
<1>1. CASE Fail
  BY <1>1, Silence, FailKeepsIInv DEF GetVersions, Fail, Failed, IInv
<1>2. CASE pc' = "details" /\ UNCHANGED <<reg, token, attempt, held, has>>
  <2>1. TypeOK' /\ Sending'
    BY <1>2 DEF GetVersions, IInv, TypeOK, Sending
  <2>2. Answering'
    BY <1>2 DEF GetVersions, IInv, Answering, UnderWay, Ran
  <2>3. Hearing' /\ Accepting' /\ Agreeing' /\ BothSidesAgree' /\ LockedOutOnlyInDoubt'
    BY <1>2 DEF GetVersions, IInv, Hearing, Accepting, Agreeing, BothSidesAgree,
       PeerIsOfThisRegistration, LockedOutOnlyInDoubt, Unheard, Ran, SucceededSince
  <2> QED
    BY <2>1, <2>2, <2>3 DEF IInv
<1> QED
  BY <1>1, <1>2 DEF GetVersions

\* The second GET ends with the first copy of the POST, or with a failure.
LEMMA DetailsKeepsIInv == IInv /\ GetDetails => IInv'
<1> SUFFICES ASSUME IInv, GetDetails PROVE IInv'
  OBVIOUS
<1>1. CASE Fail /\ UNCHANGED copy
  BY <1>1, Silence, FailKeepsIInv DEF GetDetails, Fail, Failed, IInv
<1>2. CASE /\ pc' = "post" /\ attempt' = 0 /\ Send(reg, 0)
           /\ UNCHANGED <<reg, token, held, has>>
  <2>1. reg \in Regs /\ 0 \in Attempts /\ TypeOK /\ pc = "details"
    BY BoundsAssumption DEF GetDetails, IInv, TypeOK, Attempts
  <2>2. Quietly
    BY <1>2, <2>1, Silence DEF GetDetails
  <2> QED
    BY <1>2, <2>1, <2>2, SendFacts, SendKeepsIInv
<1> QED
  BY <1>1, <1>2 DEF GetDetails

\* The POST's attempt failed, heard or not: another one, or the end.
LEMMA RetryKeepsIInv == IInv /\ pc = "post" /\ RetryOrFail /\ Quietly => IInv'
<1> SUFFICES ASSUME IInv, pc = "post", RetryOrFail, Quietly PROVE IInv'
  OBVIOUS
<1>1. reg \in Regs /\ TypeOK
  BY DEF IInv, TypeOK
<1>2. CASE Retried
  <2>1. attempt + 1 \in Attempts
    BY <1>1, <1>2, BoundsAssumption DEF TypeOK, Attempts, Retried
  <2> QED
    BY <1>2, <2>1, SendKeepsIInv DEF Retried
<1>3. CASE Failed
  BY <1>3, FailKeepsIInv
<1> QED
  BY <1>1, <1>2, <1>3, RetryFacts

\* Nothing was heard but a refusal or an error.
LEMMA HeardQuietly ==
    ASSUME IInv, pc = "post", Hear, result[reg][attempt] \in {"refused", "error"},
           UNCHANGED <<reg, token, held, has, result, given, issued, valid, party>>
    PROVE  Quietly
<1>1. TypeOK /\ reg \in Regs
  BY DEF IInv, TypeOK
<1>2. HeardNow
  BY <1>1, HearFacts
<1> QED
  BY <1>2 DEF HeardNow, Quietly, UnderWay

\* The answer under way is decoded: its token becomes the one held.
LEMMA ReceiveKeepsIInv == IInv /\ Receive => IInv'
<1> SUFFICES ASSUME IInv, Receive PROVE IInv'
  OBVIOUS
<1>0. /\ pc = "post" /\ result[reg][attempt] = "issued" /\ pc' = "registered"
      /\ held' = given[reg][attempt] /\ has' = has \cup {given[reg][attempt]}
      /\ UNCHANGED <<reg, token, attempt, copy, result, given, issued, valid, party>>
  BY DEF Receive, Answered
<1>1. reg \in Regs /\ attempt \in Attempts /\ TypeOK
  BY <1>0 DEF IInv, TypeOK
<1>2. HeardNow
  BY <1>1, HearFacts DEF Receive
<1>3. given[reg][attempt] \in Nat /\ given[reg][attempt] # 0
  BY <1>0, <1>1 DEF IInv, TypeOK, Answering
<1>4. \A k \in Attempts : heard'[reg][k] /\ result[reg][k] = "issued" => k = attempt
  BY <1>0, <1>1, <1>2 DEF IInv, Hearing, HeardNow
<1>5. TypeOK'
  BY <1>0, <1>1, <1>2, <1>3 DEF TypeOK, HeardNow
<1>6. Sending'
  BY <1>0 DEF IInv, Sending
<1>7. Answering'
  <2> SUFFICES ASSUME NEW r \in Regs, NEW k \in Attempts
               PROVE  /\ result[r][k] # "none" => copy[r][k] = "over"
                      /\ given[r][k] # 0 => Ran(r, k)
                      /\ result[r][k] = "issued" => given[r][k] # 0
                      /\ heard'[r][k] => result[r][k] # "none"
    BY <1>0 DEF Answering, UnderWay, Ran
  <2> QED
    BY <1>0, <1>2 DEF IInv, Answering, HeardNow
<1>8. Hearing'
  BY <1>0, <1>1, <1>2, <1>4 DEF IInv, Hearing, HeardNow
<1>9. Accepting' /\ Agreeing'
  BY <1>0 DEF IInv, Accepting, Agreeing
<1>10. \/ given[reg][attempt] \in valid /\ party = reg
       \/ \E r \in Regs, k \in Attempts : Unheard(r, k)'
  <2>1. CASE given[reg][attempt] \in valid /\ party = reg
    BY <2>1
  <2>2. ASSUME NEW r \in Regs, NEW k \in Attempts, Unheard(r, k), ~ UnderWay(r, k)
        PROVE  Unheard(r, k)'
    BY <1>0, <1>2, <2>2 DEF Unheard, Ran, UnderWay, HeardNow
  <2> QED
    BY <1>0, <2>1, <2>2 DEF IInv, Agreeing
<1>11. BothSidesAgree'
  <2>1. heard'[reg][attempt]
    BY <1>1, <1>2 DEF HeardNow
  <2>2. PeerIsOfThisRegistration'
    BY <1>0, <1>1, <1>3, <2>1 DEF PeerIsOfThisRegistration
  <2> QED
    BY <1>0, <1>10, <2>2 DEF BothSidesAgree
<1>12. LockedOutOnlyInDoubt'
  BY <1>0, <1>10 DEF LockedOutOnlyInDoubt
<1> QED
  BY <1>5, <1>6, <1>7, <1>8, <1>9, <1>11, <1>12 DEF IInv

\* Every step of the caller.
LEMMA CallerKeepsIInv == IInv /\ CallerStep => IInv'
<1> SUFFICES ASSUME IInv, CallerStep PROVE IInv'
  OBVIOUS
<1>1. CASE GetVersions \/ GetDetails
  BY <1>1, VersionsKeepsIInv, DetailsKeepsIInv
<1>2. CASE GetFails \/ DecodeFails
  <2>1. Quietly
    BY <1>2, Silence DEF GetFails, DecodeFails, Fail, IInv
  <2> QED
    BY <1>2, <2>1, FailKeepsIInv DEF GetFails, DecodeFails, Answered, Fail, Failed
<1>3. CASE AttemptFails
  <2>1. TypeOK /\ reg \in Regs /\ pc = "post" /\ RetryOrFail
    BY <1>3 DEF AttemptFails, IInv, TypeOK
  <2>2. Quietly
    BY <1>3, <2>1, RetryFacts, Silence DEF AttemptFails
  <2> QED
    BY <2>1, <2>2, RetryKeepsIInv
<1>4. CASE Receive
  BY <1>4, ReceiveKeepsIInv
<1>5. CASE ReceiveRefusal
  <2>1. Quietly
    BY <1>5, HeardQuietly DEF ReceiveRefusal, Answered, Fail
  <2> QED
    BY <1>5, <2>1, FailKeepsIInv DEF ReceiveRefusal, Answered, Fail, Failed
<1>6. CASE ReceiveError
  <2>1. TypeOK /\ reg \in Regs /\ pc = "post" /\ RetryOrFail
    BY <1>6 DEF ReceiveError, Answered, IInv, TypeOK
  <2>2. Quietly
    BY <1>6, <2>1, RetryFacts, HeardQuietly DEF ReceiveError, Answered
  <2> QED
    BY <2>1, <2>2, RetryKeepsIInv
<1> QED
  BY <1>1, <1>2, <1>3, <1>4, <1>5, <1>6 DEF CallerStep

-----------------------------------------------------------------------------
(* The steps of the peer.                                                   *)

Results == {"none", "issued", "refused", "error"}

\* A copy moves on, or is refused, without OnRegister.
LEMMA CopyKeepsIInv ==
    ASSUME IInv, NEW r \in Regs, NEW k \in Attempts, copy[r][k] = "flying",
           NEW c \in {"serving", "over"}, NEW w \in {"none", "refused"},
           w # "none" => c = "over",
           copy' = [copy EXCEPT ![r][k] = c], result' = [result EXCEPT ![r][k] = w],
           UNCHANGED <<caller, given, heard, peer>>
    PROVE  IInv'
<1> USE DEF caller, peer
<1>1. /\ copy' \in [Regs -> [Attempts -> CopyStates]]
      /\ \A s \in Regs, j \in Attempts :
             copy'[s][j] = IF s = r /\ j = k THEN c ELSE copy[s][j]
  <2>1. copy \in [Regs -> [Attempts -> CopyStates]] /\ c \in CopyStates
    BY DEF IInv, TypeOK, CopyStates
  <2> QED
    BY <2>1, Update
<1>2. /\ result' \in [Regs -> [Attempts -> Results]]
      /\ \A s \in Regs, j \in Attempts :
             result'[s][j] = IF s = r /\ j = k THEN w ELSE result[s][j]
  <2>1. result \in [Regs -> [Attempts -> Results]] /\ w \in Results
    BY DEF IInv, TypeOK, Results
  <2> QED
    BY <2>1, Update
<1>3. result[r][k] = "none" /\ ~ heard[r][k]
  BY DEF IInv, Answering
<1>4. TypeOK'
  BY <1>1, <1>2 DEF IInv, TypeOK, CopyStates, Results
<1>5. Sending'
  <2>1. pc = "post" => reg \in Regs /\ attempt \in Attempts
    BY DEF IInv, TypeOK
  <2>2. pc \in {"versions", "details"} => reg \in Regs
    BY DEF IInv, TypeOK
  <2>3. \A s \in Regs, j \in Attempts : copy[s][j] = "unsent" <=> copy'[s][j] = "unsent"
    BY <1>1
  <2> QED
    BY <2>1, <2>2, <2>3 DEF IInv, Sending
<1>6. \A s \in Regs, j \in Attempts :
          /\ Ran(s, j)' <=> Ran(s, j)
          /\ Unheard(s, j)' <=> Unheard(s, j)
          /\ result'[s][j] = "issued" <=> result[s][j] = "issued"
          /\ result'[s][j] = "error" <=> result[s][j] = "error"
  BY <1>2, <1>3 DEF Ran, Unheard
<1>7. Answering'
  <2> SUFFICES ASSUME NEW s \in Regs, NEW j \in Attempts
               PROVE  /\ result'[s][j] # "none" => copy'[s][j] = "over"
                      /\ given[s][j] # 0 => Ran(s, j)
                      /\ result[s][j] = "issued" => given[s][j] # 0
                      /\ heard[s][j] => result'[s][j] # "none" /\ ~ UnderWay(s, j)
    BY <1>6 DEF Answering, UnderWay
  <2> QED
    BY <1>1, <1>2, <1>3 DEF IInv, Answering
<1>8. Hearing' /\ Accepting'
  BY <1>6 DEF IInv, Hearing, Accepting
<1>9. Agreeing' /\ BothSidesAgree'
  <2>1. pc = "post" => reg \in Regs /\ attempt \in Attempts
    BY DEF IInv, TypeOK
  <2> QED
    BY <1>6, <2>1 DEF IInv, Agreeing, BothSidesAgree, PeerIsOfThisRegistration, UnderWay
<1>10. LockedOutOnlyInDoubt'
  BY <1>6 DEF IInv, LockedOutOnlyInDoubt, SucceededSince
<1> QED
  BY <1>4, <1>5, <1>7, <1>8, <1>9, <1>10 DEF IInv

\* A copy without an answer: the peer's tables may be replaced by themselves.
LEMMA Unanswered ==
    ASSUME IInv, NEW r \in Regs, NEW k \in Attempts, copy[r][k] = "flying",
           UNCHANGED result
    PROVE  result' = [result EXCEPT ![r][k] = "none"]
<1>1. result[r][k] = "none" /\ result \in [Regs -> [Attempts -> Results]]
  BY DEF IInv, Answering, TypeOK, Results
<1> QED
  BY <1>1

\* What OnRegister leaves behind, succeeding or not: g is the token it issued,
\* if it did, and w the answer.
RanNow(r, k, g, w) ==
    /\ copy[r][k] = "serving"
    /\ issued' \in Nat /\ issued <= issued' /\ g \in 0 .. issued'
    /\ given' = [given EXCEPT ![r][k] = g]
    /\ valid' \subseteq valid \cup {g} /\ party' \in {party, r}
    /\ w = "issued" => g # 0 /\ g \in valid' /\ party' = r
    /\ w \in {"issued", "error"} /\ Answer(r, k, w)
    /\ UNCHANGED <<caller, heard>>

\* OnRegister ran: its answer is in the table, and has not been heard.
LEMMA RunKeepsIInv ==
    ASSUME IInv, NEW r \in Regs, NEW k \in Attempts, NEW g, NEW w, RanNow(r, k, g, w)
    PROVE  IInv'
<1> USE DEF caller
<1>0. /\ copy[r][k] = "serving" /\ issued' \in Nat /\ issued <= issued' /\ g \in 0 .. issued'
      /\ valid' \subseteq valid \cup {g} /\ party' \in {party, r} /\ w \in {"issued", "error"}
      /\ w = "issued" => g # 0 /\ g \in valid' /\ party' = r
      /\ UNCHANGED <<pc, reg, token, attempt, held, has, heard>>
      /\ issued \in Nat
  BY DEF RanNow, IInv, TypeOK
<1>1. /\ copy' \in [Regs -> [Attempts -> CopyStates]]
      /\ \A s \in Regs, j \in Attempts :
             copy'[s][j] = IF s = r /\ j = k THEN "over" ELSE copy[s][j]
  <2>1. copy \in [Regs -> [Attempts -> CopyStates]] /\ "over" \in CopyStates
    BY DEF IInv, TypeOK, CopyStates
  <2> QED
    BY <2>1, Update DEF RanNow, Answer
<1>2. /\ result' \in [Regs -> [Attempts -> Results]]
      /\ \A s \in Regs, j \in Attempts :
             result'[s][j] = IF s = r /\ j = k THEN w ELSE result[s][j]
  <2>1. result \in [Regs -> [Attempts -> Results]] /\ w \in Results
    BY <1>0 DEF IInv, TypeOK, Results
  <2> QED
    BY <2>1, Update DEF RanNow, Answer
<1>3. /\ given' \in [Regs -> [Attempts -> Nat]]
      /\ \A s \in Regs, j \in Attempts :
             given'[s][j] = IF s = r /\ j = k THEN g ELSE given[s][j]
  <2>1. given \in [Regs -> [Attempts -> Nat]] /\ g \in Nat
    BY <1>0 DEF IInv, TypeOK
  <2> QED
    BY <2>1, Update DEF RanNow
<1>4. result[r][k] = "none" /\ ~ heard[r][k] /\ given[r][k] = 0
  BY <1>0 DEF IInv, Answering, Ran
<1>5. Unheard(r, k)'
  BY <1>0, <1>2, <1>4 DEF Unheard, Ran
<1>6. TypeOK'
  <2>1. valid' \subseteq 0 .. issued'
    BY <1>0 DEF IInv, TypeOK
  <2>2. party' \in 0 .. MaxRegs
    BY <1>0, BoundsAssumption DEF IInv, TypeOK, Regs
  <2> QED
    BY <1>0, <1>1, <1>2, <1>3, <2>1, <2>2 DEF IInv, TypeOK, CopyStates, Results
<1>7. Sending'
  <2>1. pc = "post" => reg \in Regs /\ attempt \in Attempts
    BY DEF IInv, TypeOK
  <2>2. pc \in {"versions", "details"} => reg \in Regs
    BY DEF IInv, TypeOK
  <2>3. \A s \in Regs, j \in Attempts : copy[s][j] = "unsent" <=> copy'[s][j] = "unsent"
    BY <1>0, <1>1
  <2> QED
    BY <1>0, <2>1, <2>2, <2>3 DEF IInv, Sending
<1>8. Answering'
  <2> SUFFICES ASSUME NEW s \in Regs, NEW j \in Attempts
               PROVE  /\ result'[s][j] # "none" => copy'[s][j] = "over"
                      /\ given'[s][j] # 0 => result'[s][j] \in {"issued", "error"}
                      /\ result'[s][j] = "issued" => given'[s][j] # 0
                      /\ heard[s][j] => result'[s][j] # "none" /\ ~ UnderWay(s, j)
    BY <1>0 DEF Answering, UnderWay, Ran
  <2>1. CASE s = r /\ j = k
    BY <1>0, <1>1, <1>2, <1>3, <1>4, <2>1
  <2>2. CASE ~ (s = r /\ j = k)
    <3>1. copy'[s][j] = copy[s][j] /\ result'[s][j] = result[s][j] /\ given'[s][j] = given[s][j]
      BY <1>1, <1>2, <1>3, <2>2
    <3> QED
      BY <3>1 DEF IInv, Answering, Ran
  <2> QED
    BY <2>1, <2>2
<1>9. Hearing'
  <2>1. \A s \in Regs, j \in Attempts :
            heard[s][j] /\ result'[s][j] = "issued" =>
                result[s][j] = "issued" /\ given'[s][j] = given[s][j]
    BY <1>2, <1>3, <1>4
  <2> QED
    BY <1>0, <2>1 DEF IInv, Hearing
<1>10. Accepting'
  <2> SUFFICES ASSUME NEW t \in valid', t # 0
               PROVE  \E s \in Regs, j \in Attempts : given'[s][j] = t
    BY DEF Accepting
  <2>1. CASE t = g
    BY <1>3, <2>1
  <2>2. CASE t \in valid
    <3>1. PICK s \in Regs : \E j \in Attempts : given[s][j] = t
      BY <2>2 DEF IInv, Accepting
    <3>2. PICK j \in Attempts : given[s][j] = t
      BY <3>1
    <3>3. given'[s][j] = t
      BY <1>3, <1>4, <3>2
    <3> QED
      BY <3>3
  <2> QED
    BY <1>0, <2>1, <2>2
<1>11. Agreeing'
  <2> SUFFICES ASSUME pc = "post", result'[reg][attempt] = "issued"
               PROVE  \/ given'[reg][attempt] \in valid' /\ party' = reg
                      \/ Unheard(r, k)' /\ ~ UnderWay(r, k)
    BY <1>0 DEF Agreeing, UnderWay
  <2>1. reg \in Regs /\ attempt \in Attempts
    BY DEF IInv, TypeOK
  <2>2. CASE UnderWay(r, k)
    BY <1>0, <1>2, <1>3, <2>1, <2>2 DEF UnderWay
  <2>3. CASE ~ UnderWay(r, k)
    BY <1>5, <2>3
  <2> QED
    BY <2>2, <2>3
<1>12. PeerIsOfThisRegistration'
  <2> SUFFICES ASSUME pc = "registered"
               PROVE  /\ held # 0
                      /\ \E j \in Attempts :
                            heard[reg][j] /\ result'[reg][j] = "issued" /\ given'[reg][j] = held
    BY <1>0 DEF PeerIsOfThisRegistration
  <2>1. reg \in Regs
    BY DEF IInv, TypeOK
  <2>2. PICK j \in Attempts : heard[reg][j] /\ result[reg][j] = "issued" /\ given[reg][j] = held
    BY DEF IInv, BothSidesAgree, PeerIsOfThisRegistration
  <2>3. result'[reg][j] = "issued" /\ given'[reg][j] = held
    BY <1>2, <1>3, <1>4, <2>1, <2>2
  <2> QED
    BY <2>2, <2>3 DEF IInv, BothSidesAgree, PeerIsOfThisRegistration
<1>13. BothSidesAgree' /\ LockedOutOnlyInDoubt'
  BY <1>5, <1>12 DEF BothSidesAgree, LockedOutOnlyInDoubt
<1> QED
  BY <1>6, <1>7, <1>8, <1>9, <1>10, <1>11, <1>13 DEF IInv

\* OnRegister ran to its end: with the token it issued.
LEMMA OnRegisterRuns ==
    ASSUME IInv, NEW r \in Regs, NEW k \in Attempts, OnRegister(r, k)
    PROVE  issued + 1 \in Nat \ {0} /\ RanNow(r, k, issued + 1, "issued")
<1>1. issued \in Nat
  BY DEF IInv, TypeOK
<1> QED
  BY <1>1 DEF OnRegister, Issue, RanNow

\* OnRegister failed: with a token, or with none.
LEMMA OnRegisterFailsRuns ==
    ASSUME IInv, NEW r \in Regs, NEW k \in Attempts, OnRegisterFails(r, k)
    PROVE  \/ issued + 1 \in Nat \ {0} /\ RanNow(r, k, issued + 1, "error")
           \/ UNCHANGED given /\ RanNow(r, k, 0, "error")
<1>1. issued \in Nat /\ given \in [Regs -> [Attempts -> Nat]]
  BY DEF IInv, TypeOK
<1>2. copy[r][k] = "serving" /\ IssuePartly(r, k) /\ Answer(r, k, "error") /\ UNCHANGED <<caller, heard>>
  BY DEF OnRegisterFails
<1>3. CASE Issue(r, k)
  BY <1>1, <1>2, <1>3 DEF IssuePartly, Issue, RanNow
<1>4. CASE valid' \in {valid, {}} /\ UNCHANGED <<issued, given>>
  <2>1. given[r][k] = 0
    BY <1>2 DEF IInv, Answering, Ran
  <2>2. given' = [given EXCEPT ![r][k] = 0]
    BY <1>1, <1>4, <2>1
  <2> QED
    BY <1>1, <1>2, <1>4, <2>2 DEF IssuePartly, RanNow
<1> QED
  BY <1>2, <1>3, <1>4 DEF IssuePartly

\* Every step of the peer and of the network.
LEMMA PeerKeepsIInv ==
    ASSUME IInv, NEW r \in Regs, NEW k \in Attempts, PeerStep(r, k)
    PROVE  IInv'
<1>1. CASE Lose(r, k)
  <2>1. copy[r][k] = "flying" /\ result' = [result EXCEPT ![r][k] = "none"]
    BY <1>1, Unanswered DEF Lose
  <2>2. copy' = [copy EXCEPT ![r][k] = "over"] /\ UNCHANGED <<caller, given, heard, peer>>
    BY <1>1 DEF Lose
  <2> QED
    BY <2>1, <2>2, CopyKeepsIInv
<1>2. CASE Refuse(r, k)
  BY <1>2, CopyKeepsIInv DEF Refuse, Answer
<1>3. CASE Dispatch(r, k)
  <2>1. copy[r][k] = "flying" /\ result' = [result EXCEPT ![r][k] = "none"]
    BY <1>3, Unanswered DEF Dispatch
  <2>2. copy' = [copy EXCEPT ![r][k] = "serving"] /\ UNCHANGED <<caller, given, heard, peer>>
    BY <1>3 DEF Dispatch
  <2> QED
    BY <2>1, <2>2, CopyKeepsIInv
<1>4. CASE OnRegister(r, k)
  BY <1>4, OnRegisterRuns, RunKeepsIInv
<1>5. CASE OnRegisterFails(r, k)
  BY <1>5, OnRegisterFailsRuns, RunKeepsIInv
<1> QED
  BY <1>1, <1>2, <1>3, <1>4, <1>5 DEF PeerStep

-----------------------------------------------------------------------------
(* The theorems.                                                            *)

\* The inductive invariant holds in every reachable state.
THEOREM Invariance == Spec => []IInv
<1>1. Init => IInv
  BY InitIInv
<1>2. IInv /\ [Next]_vars => IInv'
  <2>1. CASE Next
    BY <2>1, RegisterKeepsIInv, CallerKeepsIInv, PeerKeepsIInv DEF Next
  <2>2. CASE UNCHANGED vars
    BY <2>2 DEF vars, IInv, TypeOK, Sending, Answering, Hearing, Accepting, Agreeing, BothSidesAgree,
       PeerIsOfThisRegistration, LockedOutOnlyInDoubt, SucceededSince, Unheard, Ran, UnderWay
  <2> QED
    BY <2>1, <2>2
<1> QED
  BY <1>1, <1>2, PTL DEF Spec

\* The variables have their types, for any number of registrations and retries.
THEOREM TypeCorrect == Spec => []TypeOK
<1>1. IInv => TypeOK
  BY DEF IInv
<1> QED
  BY <1>1, Invariance, PTL

\* A Peer that Register returned holds a token issued to that registration.
THEOREM OwnToken == Spec => []PeerIsOfThisRegistration
<1>1. IInv => PeerIsOfThisRegistration
  BY DEF IInv, BothSidesAgree
<1> QED
  BY <1>1, Invariance, PTL

\* Unless OnRegister ran for a copy whose answer went unheard, caller and peer
\* agree after a registration, whatever failed before.  (Register, Mount)
THEOREM Agreement == Spec => []BothSidesAgree
<1>1. IInv => BothSidesAgree
  BY DEF IInv
<1> QED
  BY <1>1, Invariance, PTL

\* The peer accepts no token the caller does not know, but those issued to a
\* copy whose answer went unheard or was an error.  (the TokenStore, OnRegister)
THEOREM StrayTokens == Spec => []StrayTokensAreInDoubt
<1>1. IInv => StrayTokensAreInDoubt
  <2> SUFFICES ASSUME IInv, NEW t \in valid \ has
               PROVE  \E r \in Regs, k \in Attempts :
                          given[r][k] = t /\ (Unheard(r, k) \/ result[r][k] = "error")
    BY DEF StrayTokensAreInDoubt
  <2>1. t # 0
    BY DEF IInv, TypeOK
  <2>2. PICK r \in Regs : \E k \in Attempts : given[r][k] = t
    BY <2>1 DEF IInv, Accepting
  <2>3. PICK k \in Attempts : given[r][k] = t
    BY <2>2
  <2>4. Ran(r, k)
    BY <2>1, <2>3 DEF IInv, Answering
  <2>5. heard[r][k] => result[r][k] # "issued"
    BY <2>3 DEF IInv, Hearing
  <2> QED
    BY <2>3, <2>4, <2>5 DEF Unheard, Ran
<1> QED
  BY <1>1, Invariance, PTL

\* The caller is left without a token only by an answer it did not hear, or by
\* an OnRegister that failed and that no later registration has made up for.
THEOREM LockOut == Spec => []LockedOutOnlyInDoubt
<1>1. IInv => LockedOutOnlyInDoubt
  BY DEF IInv
<1> QED
  BY <1>1, Invariance, PTL

-----------------------------------------------------------------------------
(* Refinement.                                                              *)

\* The outcome of a registration that is over, and whose table is not touched
\* but by copies nobody waits for any more, stays.
LEMMA OutcomeStays ==
    ASSUME IInv, NEW r \in Regs, NEW k \in Attempts, PeerStep(r, k)
    PROVE  /\ UNCHANGED <<pc, reg>>
           /\ \A s \in Regs : Outcome(s)' = Outcome(s)
<1>1. UNCHANGED <<pc, reg, heard>>
  BY DEF PeerStep, Lose, Refuse, Dispatch, OnRegister, OnRegisterFails, caller
<1>2. ASSUME NEW s \in Regs, NEW j \in Attempts, heard[s][j]
      PROVE  result'[s][j] = result[s][j]
  <2>1. copy[s][j] = "over" /\ result \in [Regs -> [Attempts -> Results]]
    BY <1>2 DEF IInv, Answering, TypeOK, Results
  <2>2. CASE UNCHANGED result
    BY <2>2
  <2>3. ASSUME NEW w \in Results, result' = [result EXCEPT ![r][k] = w], copy[r][k] # "over"
        PROVE  result'[s][j] = result[s][j]
    BY <2>1, <2>3, Update
  <2> QED
    BY <2>2, <2>3 DEF PeerStep, Lose, Refuse, Dispatch, OnRegister, OnRegisterFails, Answer, Results
<1> QED
  BY <1>1, <1>2 DEF Outcome

\* The current registration has returned: its entries say what its pc says.
LEMMA Returned ==
    ASSUME IInv, reg \in Regs, pc \in {"registered", "failed"}
    PROVE  StateOf(reg) = Outcome(reg)
<1>1. reg \in Nat
  BY BoundsAssumption DEF Regs
<1>2. CASE pc = "registered"
  <2>1. \E k \in Attempts : heard[reg][k] /\ result[reg][k] = "issued"
    BY <1>2 DEF IInv, BothSidesAgree, PeerIsOfThisRegistration
  <2> QED
    BY <1>1, <1>2, <2>1 DEF StateOf, Outcome
<1>3. CASE pc = "failed"
  <2>1. \A k \in Attempts : ~ (heard[reg][k] /\ result[reg][k] = "issued")
    BY <1>3 DEF IInv, Hearing
  <2> QED
    BY <1>1, <1>3, <2>1 DEF StateOf, Outcome
<1> QED
  BY <1>2, <1>3

\* A new registration opens its call and leaves the outcome of the last one.
LEMMA RegisterOpens ==
    ASSUME IInv, Register
    PROVE  Remote!Next
<1>1. /\ reg \in Nat /\ reg + 1 \in Regs /\ reg' = reg + 1 /\ pc' = "versions"
      /\ UNCHANGED <<result, given, heard>>
  BY BoundsAssumption DEF IInv, TypeOK, Register, Regs
<1>2. PICK n \in Regs : n = reg + 1
  BY <1>1
<1>3. StateOf(n) = "idle" /\ StateOf(n)' = "open"
  <2>1. n > reg /\ ~ n > reg' /\ ~ n < reg'
    BY <1>1, <1>2
  <2> QED
    BY <1>1, <2>1 DEF StateOf
<1>4. ASSUME NEW r \in Regs, r # n
      PROVE  StateOf(r)' = StateOf(r)
  <2>1. r \in Nat /\ Outcome(r)' = Outcome(r)
    BY <1>1 DEF Regs, Outcome
  <2>2. CASE r > reg
    <3>1. r > reg'
      BY <1>1, <1>2, <1>4, <2>1, <2>2
    <3> QED
      BY <2>2, <3>1 DEF StateOf
  <2>3. CASE r < reg
    <3>1. ~ r > reg /\ ~ r > reg' /\ r < reg'
      BY <1>1, <2>1, <2>3
    <3> QED
      BY <2>1, <2>3, <3>1 DEF StateOf
  <2>4. CASE r = reg
    <3>1. pc \in {"registered", "failed"}
      BY <2>4, <2>1 DEF Register, IInv, TypeOK, Regs
    <3>2. StateOf(r) = Outcome(r)
      BY <2>4, <3>1, Returned
    <3>3. ~ r > reg' /\ r < reg'
      BY <1>1, <2>1, <2>4
    <3> QED
      BY <2>1, <3>2, <3>3 DEF StateOf
  <2> QED
    BY <1>1, <2>1, <2>2, <2>3, <2>4
<1>5. Remote!Open(n)
  BY <1>1, <1>3, <1>4 DEF Remote!Open, DoneOf
<1> QED
  BY <1>5 DEF Remote!Next

\* A step of Register before it returns: a stutter, or the end of the call.
LEMMA CallerReports ==
    ASSUME IInv, IInv', CallerStep
    PROVE  Remote!Next \/ UNCHANGED Remote!rvars
<1>1. /\ pc \in {"versions", "details", "post"} /\ reg \in Regs
      /\ UNCHANGED <<reg, result, given>>
  BY DEF CallerStep, GetVersions, GetDetails, GetFails, AttemptFails, RetryOrFail, Fail, Receive,
     DecodeFails, ReceiveRefusal, ReceiveError, Answered, IInv, TypeOK
<1>2. \A s \in Regs, j \in Attempts : heard'[s][j] <=> heard[s][j] \/ (s = reg /\ j = attempt /\ heard'[s][j])
  <2>1. CASE UNCHANGED heard
    BY <2>1
  <2>2. CASE Hear
    BY <2>2, <1>1, HearFacts DEF IInv, HeardNow
  <2> QED
    BY <2>1, <2>2 DEF CallerStep, GetVersions, GetDetails, GetFails, AttemptFails, Receive,
       DecodeFails, ReceiveRefusal, ReceiveError
<1>3. PICK n \in Regs : n = reg
  BY <1>1
<1>4. ASSUME NEW r \in Regs, r # n
      PROVE  StateOf(r)' = StateOf(r)
  BY <1>1, <1>3, <1>2, <1>4 DEF StateOf, Outcome, Regs
<1>5. StateOf(n) = "open" /\ n \in Nat
  BY <1>1, <1>3 DEF StateOf, Regs
<1>6. CASE pc' = "registered"
  <2>1. Receive
    BY <1>1, <1>6 DEF CallerStep, GetVersions, GetDetails, GetFails, AttemptFails, RetryOrFail, Fail,
       DecodeFails, ReceiveRefusal, ReceiveError
  <2>2. DoneOf(n) # {}
    BY <2>1, <1>1, <1>3 DEF Receive, Answered, IInv, TypeOK, Answering, DoneOf
  <2>3. StateOf(n)' = "ok"
    BY <1>1, <1>3, <1>5, <1>6 DEF StateOf
  <2>4. Remote!ReportDone(n)
    BY <1>1, <1>4, <1>5, <2>2, <2>3 DEF Remote!ReportDone, DoneOf
  <2> QED
    BY <1>1, <2>4 DEF Remote!Next
<1>7. CASE pc' = "failed"
  <2>1. StateOf(n)' = "failed"
    BY <1>1, <1>3, <1>5, <1>7 DEF StateOf
  <2>2. Remote!ReportFailed(n)
    BY <1>1, <1>4, <1>5, <2>1 DEF Remote!ReportFailed, DoneOf
  <2> QED
    BY <1>1, <2>2 DEF Remote!Next
<1>8. CASE pc' \notin {"registered", "failed"}
  <2>1. StateOf(n)' = "open"
    BY <1>1, <1>3, <1>5, <1>8 DEF StateOf
  <2> QED
    BY <1>1, <1>3, <1>4, <1>5, <2>1 DEF Remote!rvars, DoneOf
<1> QED
  BY <1>6, <1>7, <1>8

\* OnRegister carries the call out, once per copy, and so may one that fails in
\* the end; the peer's other steps and
\* the network's change nothing the application could tell.
LEMMA PeerCarriesOut ==
    ASSUME IInv, NEW r \in Regs, NEW k \in Attempts, PeerStep(r, k)
    PROVE  Remote!Next \/ UNCHANGED Remote!rvars
<1>1. \A s \in Regs : StateOf(s)' = StateOf(s)
  BY OutcomeStays DEF StateOf
<1>2. ASSUME issued + 1 \in Nat \ {0}, NEW w, RanNow(r, k, issued + 1, w)
      PROVE  Remote!CarryOut(r)
  <2>1. copy[r][k] = "serving"
    BY <1>2 DEF RanNow
  <2>2. given[r][k] = 0
    BY <2>1 DEF IInv, Answering, Ran
  <2>3. \A s \in Regs, j \in Attempts :
            given'[s][j] = IF s = r /\ j = k THEN issued + 1 ELSE given[s][j]
    BY <1>2, Update DEF RanNow, IInv, TypeOK
  <2>4. DoneOf(r)' = DoneOf(r) \cup {k} /\ k \notin DoneOf(r)
    BY <1>2, <2>2, <2>3 DEF DoneOf
  <2>5. \A s \in Regs : s # r => DoneOf(s)' = DoneOf(s)
    BY <2>3 DEF DoneOf
  <2>6. StateOf(r) # "idle"
    <3>1. ~ r > reg
      BY <2>1 DEF IInv, Sending
    <3> QED
      BY <3>1 DEF StateOf, Outcome
  <2> QED
    BY <1>1, <2>4, <2>5, <2>6 DEF Remote!CarryOut
<1>3. CASE UNCHANGED given
  BY <1>1, <1>3 DEF Remote!rvars, DoneOf
<1>4. CASE Lose(r, k) \/ Refuse(r, k) \/ Dispatch(r, k)
  BY <1>3, <1>4 DEF Lose, Refuse, Dispatch
<1>5. CASE OnRegister(r, k)
  BY <1>2, <1>5, OnRegisterRuns DEF Remote!Next
<1>6. CASE OnRegisterFails(r, k)
  BY <1>2, <1>3, <1>6, OnRegisterFailsRuns DEF Remote!Next
<1> QED
  BY <1>4, <1>5, <1>6 DEF PeerStep

\* Every behaviour of the handshake is one of the at-least-once call.
THEOREM Refinement == Spec => RemoteSpec
<1>1. Init => Remote!Init
  BY BoundsAssumption DEF Init, Remote!Init, StateOf, DoneOf, Regs, Attempts
<1>2. IInv /\ IInv' /\ [Next]_vars => [Remote!Next]_(Remote!rvars)
  <2> SUFFICES ASSUME IInv, IInv', [Next]_vars
               PROVE  Remote!Next \/ UNCHANGED Remote!rvars
    OBVIOUS
  <2>1. CASE UNCHANGED vars
    BY <2>1 DEF vars, Remote!rvars, Outcome, StateOf, DoneOf
  <2> QED
    BY <2>1, RegisterOpens, CallerReports, PeerCarriesOut DEF Next
<1> QED
  BY <1>1, <1>2, Invariance, PTL DEF Spec, RemoteSpec, Remote!Spec
=============================================================================
