--------------------------- MODULE MCRegistration ---------------------------
(* Instances of Registration for TLC.                                       *)
EXTENDS Registration

\* A peer of two versions, one of which it lists twice.
MCVersions == << [version |-> "2.2.1", url |-> "old"], [version |-> "2.1.1", url |-> "legacy"],
                 [version |-> "2.2.1", url |-> "new"] >>

MCDetails == [url \in {"old", "legacy", "new"} |->
    IF url = "new" THEN << [identifier |-> "credentials", url |-> "new/credentials"],
                           [identifier |-> "locations", url |-> "new/locations"] >>
    ELSE <<>>]

MCRoutes == {"new/credentials"}
=============================================================================
