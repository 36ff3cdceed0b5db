----------------------------- MODULE MCPlatform -----------------------------
(* Instances of Platform for TLC.                                           *)
EXTENDS Platform, Endpoints

\* The root, the base of the handshake, that of a version, and a base of
\* its own for a second role of that version.
MCBases == {<<>>, <<"ocpi">>, <<"ocpi", "2.2.1">>, <<"ocpi", "emsp", "2.2.1">>}

MCVersions   == {"2.1.1", "2.2.1", "2.3.0"}
MCInterfaces == InterfacesOf(MCVersions)
MCWords ==
    {"ocpi", "2.2.1", "emsp", "cpo", "versions", "credentials",
     "GetVersions", "GetDetails", "PostCredentials"}
    \cup {i.module : i \in MCInterfaces}
    \cup UNION {{i.ops[k].name : k \in 1 .. Len(i.ops)}
                \cup UNION {Literals(i.ops[k]) : k \in 1 .. Len(i.ops)} :
                    i \in MCInterfaces}
MCIds        == {"LOC1", "2"}

\* What chi and echo strip in the README's examples.
MCPrefix == <<"ocpi">>

\* A platform of two roles, each with a base of its own.
MCTwoRoles == {<<"ocpi", "cpo">>, <<"ocpi", "emsp">>}
MC221      == InterfacesOf({"2.2.1"})

\* The generated interfaces of all versions, at these bases, are apart.
ASSUME ApartAssumption == Apart
=============================================================================
