--------------------------- MODULE EventRegistry ---------------------------
(***************************************************************************)
(* The versioned handlers of outbox events: OutboxRegistry of              *)
(* crates/dandori-app-services/src/worker/registry.rs.  Handlers are       *)
(* registered in any order, several for one version or one handler twice;  *)
(* a message goes to the handler of its schema version, or of the highest  *)
(* registered version below it.                                            *)
(*                                                                         *)
(* The registry keeps each handler twice, in a map by version and in a     *)
(* list per type sorted by version: what could go wrong is that the two    *)
(* disagree.                                                               *)
(***************************************************************************)
EXTENDS Integers, Sequences

CONSTANTS
    Types,        \* event types
    Handlers,
    EventType, SchemaVersion,   \* of each handler
    Messages,     \* outbox messages: type, schema_version field, decodes
    MaxVersion,   \* u32::MAX
    MaxHandlers,  \* bound on the registrations of one type
    None

Versions == 0..MaxVersion

\* The field of a message is None when it is absent or no unsigned integer.
ASSUME VersionsAreU32 == MaxVersion \in Nat /\ MaxVersion >= 1
ASSUME HandlersAreWellFormed ==
    /\ EventType \in [Handlers -> Types]
    /\ SchemaVersion \in [Handlers -> Versions]
    /\ None \notin Handlers
ASSUME MessagesAreWellFormed ==
    \A m \in Messages : /\ m.type \in Types /\ m.decodes \in BOOLEAN
                        /\ m.version = None \/ m.version \in Nat

VARIABLES
    by_key,    \* HashMap<(type, version), handler>
    by_type    \* HashMap<type, Vec<(version, handler)>>

vars == <<by_key, by_type>>

Init ==
    /\ by_key  = [k \in Types \X Versions |-> None]
    /\ by_type = [t \in Types |-> <<>>]

-----------------------------------------------------------------------------
\* Faulty: a handler is put before those of the same version.
PlaceBeforeEquals(list, v) ==
    CHOOSE n \in 0..Len(list) :
        \A i \in 1..Len(list) : i <= n <=> SchemaVersion[list[i]] < v

\* push and the stable sort_by_key: the handlers that end up before a new one.
Place(list, v) ==
    CHOOSE n \in 0..Len(list) :
        \A i \in 1..Len(list) : i <= n <=> SchemaVersion[list[i]] <= v

\* The list with h after its first n entries.
InsertAfter(list, n, h) ==
    [i \in 1..(Len(list) + 1) |->
        IF i <= n THEN list[i] ELSE IF i = n + 1 THEN h ELSE list[i - 1]]

Register(h) ==
    LET t == EventType[h]
        v == SchemaVersion[h]
    IN  /\ Len(by_type[t]) < MaxHandlers
        /\ by_key'  = [by_key EXCEPT ![<<t, v>>] = h]
        /\ by_type' = [by_type EXCEPT ![t] = InsertAfter(@, Place(@, v), h)]

Next == \E h \in Handlers : Register(h)

Spec == Init /\ [][Next]_vars

-----------------------------------------------------------------------------
Known(list, v) == {i \in 1..Len(list) : SchemaVersion[list[i]] <= v}

\* iter().rev().find(): the last entry that is not too new.
LastKnown(list, v) ==
    CHOOSE i \in Known(list, v) : \A j \in Known(list, v) : j <= i

Resolve(t, v) ==
    IF by_key[<<t, v>>] # None THEN by_key[<<t, v>>]
    ELSE IF Known(by_type[t], v) = {} THEN None
    ELSE by_type[t][LastKnown(by_type[t], v)]

\* Faulty: "as u32" keeps the low bits of a number that is too large.
ResolveTruncating(m) ==
    IF m.version = None THEN 1 ELSE m.version % (MaxVersion + 1)

\* resolve_schema_version: what is no u32 counts as version 1.
ResolveSchemaVersion(m) == IF m.version \in Versions THEN m.version ELSE 1

\* dispatch, and the handle of the handlers, which first decode the payload.
Dispatch(m) ==
    LET handler == Resolve(m.type, ResolveSchemaVersion(m))
    IN  CASE handler = None -> [kind |-> "unsupported", by |-> None]
          [] handler # None /\ ~m.decodes -> [kind |-> "serialization", by |-> handler]
          [] OTHER -> [kind |-> "published", by |-> handler]

-----------------------------------------------------------------------------
\* The versions of a type up to v that some handler was registered for.
Supported(t, v) == {w \in 0..v : by_key[<<t, w>>] # None}

\* The version a message is meant to be of: the one its payload names, but 1 if
\* it names none, or something that no handler's u32 can be.
MeantFor(m, v) == m.version = v \/ (m.version \notin Versions /\ v = 1)

(***************************************************************************)
(* In whatever order the handlers came, a message goes to the handler      *)
(* registered last for the highest version not above its own, and is       *)
(* refused as unsupported only when there is none.                         *)
(***************************************************************************)
RoutesToNewestKnown ==
    \A m \in Messages : \A v \in Versions : MeantFor(m, v) =>
        IF Supported(m.type, v) = {} THEN Dispatch(m).kind = "unsupported"
        ELSE \E w \in Supported(m.type, v) :
               /\ \A u \in Supported(m.type, v) : u <= w
               /\ Dispatch(m).kind # "unsupported"
               /\ Dispatch(m).by = by_key[<<m.type, w>>]
=============================================================================
