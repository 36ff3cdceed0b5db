----------------------------- MODULE RemoteCall -----------------------------
(***************************************************************************)
(* What gocpi's client promises the application that calls a peer:          *)
(* at-least-once execution of what is reported as done, at most Budget      *)
(* executions in all, no promise either way about what is reported as       *)
(* failed, and no bound on when the last execution takes place: it may be   *)
(* after the call has returned.                                             *)
(***************************************************************************)
CONSTANTS Calls,    \* the calls
          Copies    \* the copies of one request the client may send

VARIABLES state,    \* state[c]: "idle", "open", "ok", "failed"
          done      \* done[c]: the copies the peer has carried out

rvars == <<state, done>>

Init ==
    /\ state = [c \in Calls |-> "idle"]
    /\ done = [c \in Calls |-> {}]

Open(c) ==
    /\ state[c] = "idle"
    /\ state' = [state EXCEPT ![c] = "open"]
    /\ UNCHANGED done

CarryOut(c) ==
    /\ state[c] # "idle"
    /\ \E k \in Copies \ done[c] : done' = [done EXCEPT ![c] = @ \cup {k}]
    /\ UNCHANGED state

ReportDone(c) ==
    /\ state[c] = "open"
    /\ done[c] # {}
    /\ state' = [state EXCEPT ![c] = "ok"]
    /\ UNCHANGED done

\* Also from "idle": a call that is refused before anything is sent.
ReportFailed(c) ==
    /\ state[c] \in {"idle", "open"}
    /\ state' = [state EXCEPT ![c] = "failed"]
    /\ UNCHANGED done

Next == \E c \in Calls : Open(c) \/ CarryOut(c) \/ ReportDone(c) \/ ReportFailed(c)

Spec == Init /\ [][Next]_rvars
=============================================================================
