---------------------------- MODULE MCSimulator ----------------------------
(***************************************************************************)
(* Instances of Simulator. plain is priced; bare has no tariff; claim      *)
(* embeds its total cost; rare comes from the JSON panel with a value that *)
(* the link's check does not know; huge is too long for a link and the     *)
(* engine rejects it; garbage is no JSON, and list is a long JSON array,   *)
(* of which deserialize makes a form without a tariff.                     *)
(***************************************************************************)
EXTENDS Simulator

CONSTANTS none, unreadable, garbage, list, plain, bare, claim, rare, huge

TextsOf(forms, versions) == (forms \X versions) \cup {garbage, list}

\* The serialized form, named by the form and the version.
SerializeOf(forms, versions) == [p \in forms \X versions |-> p]
DeserializeOf(forms, versions) ==
    [t \in TextsOf(forms, versions) |-> CASE t = garbage -> unreadable
                                      [] t = list    -> bare
                                      [] OTHER       -> t[1]]

EveryForm == {plain, bare, claim, rare, huge}
EveryVersion == {"2.2.1", "2.3.0"}
EveryText == TextsOf(EveryForm, EveryVersion)
SerializeEvery == SerializeOf(EveryForm, EveryVersion)
DeserializeEvery == DeserializeOf(EveryForm, EveryVersion)

EveryObject == EveryForm \X EveryVersion
EveryLongLink ==
    {p \in EveryForm \X (EveryText \cup {none}) :
        p[1] = huge \/ p[2] \in {list} \cup ({huge} \X EveryVersion)}

NoText == {garbage, list} \cup ({huge} \X EveryVersion)
NoPayload == NoText \cup {huge}

DefaultScenario == [form |-> plain, rawJson |-> none, version |-> "2.2.1",
                    mode |-> "embedded", options |-> "utc", unit |-> 10, view |-> "form"]
=============================================================================
