------------------------------- MODULE Platform -------------------------------
(***************************************************************************)
(* One OCPI platform as an application assembles it: it mounts the         *)
(* handshake (handshake.Mount), role presets (RegisterCPO, RegisterMSP,    *)
(* RegisterHub) of one or more versions, and interfaces that are in no     *)
(* preset, at base paths of its choice and in any order, on one core.Mux.  *)
(* Every mounted interface is advertised, in that order, in the version    *)
(* details its peers read.                                                 *)
(*                                                                         *)
(* The properties speak of every call a peer's generated client can make   *)
(* to what is mounted: does it reach the operation of the same name, with  *)
(* the same arguments?                                                     *)
(***************************************************************************)
EXTENDS Codegen, FiniteSets

CONSTANTS
    Bases,             \* base paths an application mounts something at
    Interfaces,        \* the generated interfaces it may register
    Words,             \* their literal path segments and operation names
    Ids,               \* what callers pass for path parameters
    VersionNumbers,    \* what they pass for the handshake's {version}
    Prefix,            \* the path net/http strips before the server sees it
    MaxRegistrations   \* bound on the number of registrations

Operations ==
    [name : Words, method : {"GET", "POST", "PUT", "PATCH", "DELETE"},
     path : Seq(Words \cup PathParams), answer : {"page", "data", "nothing"}]

InterfaceRecords ==
    [module : Words, side : {"SENDER", "RECEIVER"}, ops : Seq(Operations)]

MountRecords ==
    [path : Seq(Words), module : Words, side : {"SENDER", "RECEIVER"},
     ops : Seq(Operations)]

ASSUME WordsAssumption ==
    /\ Words \cap PathParams = {}
    /\ {"versions", "credentials", "GetVersions", "GetDetails", "PostCredentials"}
            \subseteq Words

ASSUME InterfacesAssumption ==
    Bases \subseteq Seq(Words) /\ Interfaces \subseteq InterfaceRecords

ASSUME BoundAssumption == MaxRegistrations \in Nat

VARIABLES
    table,    \* the routes of the mux
    mounts,   \* the interfaces registered so far, in that order
    failed    \* the route whose registration panicked, in a set

vars == <<table, mounts, failed>>

-----------------------------------------------------------------------------
(* The three routes of handshake.Mount, which every role serves.           *)
HandshakeOps ==
    << Get("GetVersions", <<"versions">>),
       Get("GetDetails", <<"{version}">>),
       Ask("POST", "PostCredentials", <<"{version}", "credentials">>) >>

Handshake == Interface("credentials", "RECEIVER", HandshakeOps)

Mount(path, interface) ==
    [path |-> path, module |-> interface.module, side |-> interface.side,
     ops |-> interface.ops]

RoutesOf(mount) == [i \in 1 .. Len(mount.ops) |-> Route(mount, mount.ops[i])]

-----------------------------------------------------------------------------
Init == table = {} /\ mounts = <<>> /\ failed = {}

(* One mux.Handle after the other; the first that the library refuses      *)
(* panics, and the routes before it stay in the table.                     *)
RegisterAt(mount) ==
    LET routes     == RoutesOf(mount)
        upTo(n)    == table \cup {routes[i] : i \in 1 .. n}
        accepts(n) == CanHandle(upTo(n - 1), routes[n])
    IN  /\ failed = {} /\ Len(mounts) < MaxRegistrations
        /\ \/ /\ \A n \in 1 .. Len(routes) : accepts(n)
              /\ table' = upTo(Len(routes))
              /\ mounts' = Append(mounts, mount)
              /\ UNCHANGED failed
           \/ \E n \in 1 .. Len(routes) :
                /\ ~ accepts(n)
                /\ \A k \in 1 .. n - 1 : accepts(k)
                /\ table' = upTo(n - 1)
                /\ failed' = {routes[n]}
                /\ UNCHANGED mounts

MountHandshake == \E base \in Bases : RegisterAt(Mount(base, Handshake))

\* Mutant of RegisterInterface: every module is mounted at the base itself.
RegisterInterfaceAtBase ==
    \E base \in Bases, interface \in Interfaces : RegisterAt(Mount(base, interface))

(* The generated RegisterXxx of an interface.  RegisterCPO, RegisterMSP    *)
(* and RegisterHub call these for their non-nil handlers one by one: a     *)
(* preset is a behaviour of several such steps at one base.                *)
RegisterInterface ==
    \E base \in Bases, interface \in Interfaces :
        RegisterAt(Mount(Append(base, interface.module), interface))

Next == MountHandshake \/ RegisterInterface

Spec == Init /\ [][Next]_vars

-----------------------------------------------------------------------------
(* What a peer's client calls, and what serves it.                         *)

Calls ==
    UNION {UNION {{[mount |-> mounts[i], op |-> mounts[i].ops[k], args |-> args] :
                    args \in [ParamsOf(mounts[i].ops[k]) -> Ids]} :
                k \in 1 .. Len(mounts[i].ops)} : i \in 1 .. Len(mounts)}

PathOf(call) == ClientPath(call.mount.path, call.op, call.args)

(* The call reaches its own operation, which reads back the arguments.     *)
ReachedBy(call, path) ==
    LET route == Route(call.mount, call.op)
    IN  /\ Serving(table, call.op.method, path) = {route}
        /\ \A p \in ParamsOf(call.op) :
                PathValues(route.pattern, path)[p] = call.args[p]

Reaches(call) == ReachedBy(call, PathOf(call))

Literals(op) == {op.path[i] : i \in 1 .. Len(op.path)} \ PathParams

LiteralsOf(mount) == UNION {Literals(mount.ops[k]) : k \in 1 .. Len(mount.ops)}

(* handshake.Peer.Endpoint: the first entry for the module, whatever its   *)
(* role.                                                                   *)
PeerEndpoint(module) ==
    LET entries == SelectSeq(mounts, LAMBDA m : m.module = module)
    IN  Head(entries).path

-----------------------------------------------------------------------------
(* The conditions on the bases and on the generated interfaces under which *)
(* nothing mounted elsewhere gets in a call's way.                         *)

Modules == {i.module : i \in Interfaces}
OpsOf(mount) == {mount.ops[k] : k \in 1 .. Len(mount.ops)}

\* No segment of a base is named like a module.
BasesApart == \A base \in Bases : \A n \in 1 .. Len(base) : base[n] \notin Modules

\* No module has the name of a segment of the handshake or of a version.
NamesApart ==
    /\ Modules \cap ({"versions", "credentials"} \cup VersionNumbers) = {}
    /\ "versions" \notin VersionNumbers

\* What is posted one segment below its module has a name of its own there,
\* as a command has.
PostsApart ==
    \A i \in Interfaces : \A op \in OpsOf(i) :
        op.method = "POST" /\ Len(op.path) = 1 =>
            op.path[1] \notin PathParams \cup {"credentials"}

\* No operation of an interface competes with another one of it.
OperationsApart ==
    \A i \in Interfaces : \A k, n \in 1 .. Len(i.ops) :
        i.ops[k].method = i.ops[n].method /\ Conflict(i.ops[k].path, i.ops[n].path) => k = n

\* The modules whose two sides have routes of the same shape.
Twins == {"locations", "chargingprofiles", "payments"}

Alike(i, j) == i.module = j.module /\ (i.side = j.side \/ i.module \in Twins)

\* The two sides of the other modules do not compete, in any two versions.
SidesApart ==
    \A i, j \in Interfaces :
        i.module = j.module /\ ~ Alike(i, j) =>
            \A op \in OpsOf(i), other \in OpsOf(j) :
                op.method = other.method => ~ Conflict(op.path, other.path)

\* The modules of which one side's routes match paths of the other side.
Mistakable == Twins \cup {"bookings"}

\* No path is one of both sides of a module that is none of these, in any
\* two versions.
SidesDistinct ==
    \A i, j \in Interfaces :
        i.module = j.module /\ i.side # j.side /\ i.module \notin Mistakable =>
            \A op \in OpsOf(i), other \in OpsOf(j) :
                op.method = other.method => ~ Overlap(op.path, other.path)

\* In an interface, in two versions of it and in twins, a literal never
\* stands where the other operation of the method has a parameter.
ShapesAlike ==
    \A i, j \in Interfaces :
        Alike(i, j) =>
            \A op \in OpsOf(i), other \in OpsOf(j) :
                op.method = other.method /\ Overlap(op.path, other.path) =>
                    Matches(other.path, op.path)

Apart ==
    /\ BasesApart /\ NamesApart /\ PostsApart
    /\ OperationsApart /\ SidesApart /\ SidesDistinct /\ ShapesAlike

-----------------------------------------------------------------------------
TypeOK ==
    /\ mounts \in Seq(MountRecords)
    /\ Len(mounts) <= MaxRegistrations
    /\ \A r \in table \cup failed :
            /\ r.mount \in MountRecords
            /\ r = Route(r.mount, r.op)
    /\ \A i \in 1 .. Len(mounts) : \A k \in 1 .. Len(mounts[i].ops) :
            Route(mounts[i], mounts[i].ops[k]) \in table

(* The arguments of the call are no literal segment of the platform's      *)
(* routes.                                                                 *)
Plain(call) ==
    \A r \in table : \A i \in 1 .. Len(r.pattern) :
        \A p \in ParamsOf(call.op) :
            r.pattern[i] = call.args[p] => r.pattern[i] \in PathParams

(* A call with plain arguments reaches the operation of that name at that  *)
(* module, with its arguments, next to whatever else is mounted on the     *)
(* same server: other roles, versions and the handshake, whose patterns    *)
(* overlap it.                                                             *)
CallsReachTheirHandler ==
    \A call \in Calls : Plain(call) => Reaches(call)

(* Arguments that happen to be a literal segment of the interface's own    *)
(* routes (a session called "response", a terminal called "activate") do   *)
(* not divert the call, unless the other side of the module is mounted at  *)
(* the same path; nor does a version number that is in the platform's      *)
(* paths divert the handshake.                                             *)
IdsMayLookLikeRoutes ==
    \A i \in 1 .. Len(mounts) : \A k \in 1 .. Len(mounts[i].ops) :
        LET m    == mounts[i]
            op   == m.ops[k]
            used == IF m.module = "credentials" THEN VersionNumbers ELSE LiteralsOf(m)
        IN  (\A j \in 1 .. Len(mounts) : mounts[j].path = m.path => j = i)
            => \A args \in [ParamsOf(op) -> used] :
                    Reaches([mount |-> m, op |-> op, args |-> args])

(* Peer.Endpoint may hand a client of one side of a module the URL of the  *)
(* other side, or of another version.  No operation of the wrong side      *)
(* answers it, whatever the arguments, even those that are literals of the *)
(* wrong side's routes; a list asked for at its module's own path may be   *)
(* taken by the handshake for a version of that name, which it has not.    *)
(* Twins are the exceptions, their two sides having routes of the same     *)
(* shape, and bookings: to the receiver the URL of a calendar is that of a *)
(* booking whose country code is "booking_locations".                      *)
WrongSideNeverAnswers ==
    \A i \in 1 .. Len(mounts), caller \in Interfaces :
        caller.module = mounts[i].module /\ caller.module \notin Mistakable =>
            \A op \in OpsOf(caller) :
                \A args \in [ParamsOf(op) -> Ids \cup LiteralsOf(mounts[i])] :
                    \A r \in Serving(table, op.method,
                                     ClientPath(mounts[i].path, op, args)) :
                        \/ r.mount.module = caller.module /\ r.mount.side = caller.side
                        \/ r.mount.module = "credentials" /\ op.path = <<>>

(* Assembling a platform panics only for two interfaces of one module at   *)
(* one path: the same one registered twice, or the two sides of a module   *)
(* whose routes have the same shape - locations, charging profiles and     *)
(* payments, so that RegisterCPO and RegisterMSP do not go under one base. *)
(* Roles at bases of their own, versions and the handshake never collide.  *)
OnlyTwinsCollide ==
    \A bad \in failed :
        \E i \in 1 .. Len(mounts) :
            /\ mounts[i].path = bad.mount.path
            /\ mounts[i].module = bad.mount.module
            /\ \/ mounts[i].side = bad.mount.side
               \/ bad.mount.module \in Twins

(* core/server.go:67-69: the handler "does relative-path routing, so it    *)
(* can be mounted under any prefix (use http.StripPrefix when mounting     *)
(* under a prefix)": a call to an advertised URL below the prefix reaches  *)
(* its operation once the prefix is stripped.                              *)
MountableUnderAPrefix ==
    \A call \in Calls :
        LET path == PathOf(call)
        IN  SubSeq(path, 1, Len(Prefix)) = Prefix =>
                ReachedBy(call, SubSeq(path, Len(Prefix) + 1, Len(path)))

(* README.md:138-140: "Call the discovered Locations endpoint with the     *)
(* generated typed client", bound to the URL Peer.Endpoint returns.        *)
DiscoveredEndpointAnswers ==
    \A call \in Calls :
        Serving(table, call.op.method,
                ClientPath(PeerEndpoint(call.mount.module), call.op, call.args)) # {}
=============================================================================
