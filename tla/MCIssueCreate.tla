--------------------------- MODULE MCIssueCreate ---------------------------
(***************************************************************************)
(* IssueCreate for TLC.  Body "twin" differs from "plain" but has the same *)
(* v1 text (a title that spells out the next field); "stray" asks for the  *)
(* milestone of another project, "ghost" for one that does not exist.      *)
(***************************************************************************)
EXTENDS IssueCreate

CONSTANTS k1, k2, a1, a2

TwoKeys     == {k1, k2}
TwoAttempts == {a1, a2}

MCBodies     == {"plain", "twin", "stray", "ghost"}
MCProjects   == {"p1", "p2"}
MCMilestones == {"m1", "m2"}

MCProjectOf   == [b \in MCBodies |-> IF b = "stray" THEN "p2" ELSE "p1"]
MCMilestoneOf == [b \in MCBodies |-> CASE b = "stray" -> "m1"
                                       [] b = "ghost" -> "m2"
                                       [] OTHER       -> None]
MCMilestoneProject == [m \in {"m1"} |-> "p1"]
MCLegacyText       == [b \in MCBodies |-> IF b = "twin" THEN "plain" ELSE b]

\* One key was used before the fingerprints changed.
MCLegacy == [k \in {k2} |-> "plain"]

=============================================================================
