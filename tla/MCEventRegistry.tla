-------------------------- MODULE MCEventRegistry --------------------------
(***************************************************************************)
(* EventRegistry for TLC: six handlers of two types, two of them for the   *)
(* same version, registered in every order up to five times; versions      *)
(* above MaxVersion stand for what does not fit u32.                       *)
(***************************************************************************)
EXTENDS EventRegistry

MCTypes    == {"issue", "project"}
MCHandlers == {"issue v1", "issue v3", "issue v3 patched", "issue v4",
               "project v2", "project v4"}
MCEventType == [h \in MCHandlers |->
                    IF h \in {"project v2", "project v4"} THEN "project" ELSE "issue"]
MCSchemaVersion == [h \in MCHandlers |-> CASE h = "issue v1"   -> 1
                                           [] h = "project v2" -> 2
                                           [] h \in {"issue v4", "project v4"} -> 4
                                           [] OTHER            -> 3]
MCMessages == [type : MCTypes, version : 0..6, decodes : BOOLEAN]
                \union [type : MCTypes, version : {None}, decodes : {TRUE}]
=============================================================================
