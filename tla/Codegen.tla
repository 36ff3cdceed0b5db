------------------------------- MODULE Codegen -------------------------------
(***************************************************************************)
(* What internal/codegen derives from an operation of the OCPI description *)
(* files, for both sides at once: the URL the generated client calls and   *)
(* the route the generated RegisterXxx function registers.  The modules    *)
(* EndpointsV211, EndpointsV221 and EndpointsV230 list the operations of   *)
(* the generated files in the form defined here.                           *)
(***************************************************************************)
EXTENDS Naturals, Sequences

(* The path parameters of all description files, as the wildcard segments  *)
(* they become.                                                            *)
PathParams == {"{country_code}", "{party_id}", "{location_id}", "{evse_uid}",
               "{connector_id}", "{session_id}", "{cdr_id}", "{tariff_id}",
               "{token_uid}", "{booking_location_id}", "{calendar_id}",
               "{booking_id}", "{terminal_id}",
               "{financial_advice_confirmation_id}", "{version}"}

INSTANCE Mux WITH Wildcards <- PathParams

(* An operation: its Go name, its HTTP method, the path below the module's *)
(* mount path, and what a call answers: a page of a list, data or nothing. *)
Operation(name, method, path, answer) ==
    [name |-> name, method |-> method, path |-> path, answer |-> answer]

List(name, path)       == Operation(name, "GET", path, "page")
Get(name, path)        == Operation(name, "GET", path, "data")
Push(method, name, path) == Operation(name, method, path, "nothing")
Ask(method, name, path)  == Operation(name, method, path, "data")

(* The path of an object its owner pushes: the owner's country code and    *)
(* party id come first.                                                    *)
Owned(path) == <<"{country_code}", "{party_id}">> \o path

(* The three operations of a pushed object: read back, replaced, patched.  *)
Pushed(suffix, path) ==
    << Get("Get" \o suffix, path),
       Push("PUT", "Put" \o suffix, path),
       Push("PATCH", "Patch" \o suffix, path) >>

ParamsOf(op) == {op.path[i] : i \in 1 .. Len(op.path)} \cap PathParams

\* Mutant of ClientPath: the arguments alone, without the literal segments.
ClientPathOfArgs(base, op, args) ==
    LET params == SelectSeq(op.path, LAMBDA seg : seg \in PathParams)
    IN  base \o [i \in 1 .. Len(params) |-> args[params[i]]]

(* The generated client's URL: its base, then for every segment of the     *)
(* path the literal, or the argument for the parameter, escaped so that it *)
(* stays one segment.                                                      *)
ClientPath(base, op, args) ==
    base \o [i \in 1 .. Len(op.path) |->
                IF op.path[i] \in PathParams THEN args[op.path[i]] ELSE op.path[i]]

(* The generated route: the same path below the mount path, its handler    *)
(* the operation of the interface mounted there.                           *)
Route(mount, op) ==
    [method |-> op.method, pattern |-> mount.path \o op.path,
     mount |-> mount, op |-> op]

(* A field of a role's Handlers struct: the module's name, which is also   *)
(* its path, the side of the interface and its operations in the order     *)
(* they are registered in.                                                 *)
Interface(module, side, ops) == [module |-> module, side |-> side, ops |-> ops]
=============================================================================
