----------------------------- MODULE CreateOnce -----------------------------
(***************************************************************************)
(* What issue creation promises, with no transactions in sight: for a key  *)
(* that is on record the recorded issue is the only answer a matching      *)
(* request gets and no issue is created; a request for a free key creates  *)
(* its issue and puts it on record in the same instant; any other request  *)
(* changes nothing.  A record may be forgotten, and the key is free again. *)
(***************************************************************************)
CONSTANTS Keys, Attempts, Issues, None

VARIABLES
    book,     \* the issue on record under each key
    made,     \* every issue there is
    answer    \* what each attempt was told, None while it waits

vars == <<book, made, answer>>

Told(a, x) == answer[a] = None /\ answer' = [answer EXCEPT ![a] = x]

\* The creator may lose the reply; it never learns then what it created.
Create(a, k, i) ==
    /\ book[k] = None /\ i \notin made
    /\ book' = [book EXCEPT ![k] = i]
    /\ made' = made \union {i}
    /\ Told(a, i) \/ Told(a, "lost")

Replay(a, k) ==
    /\ book[k] # None
    /\ Told(a, book[k])
    /\ UNCHANGED <<book, made>>

Refuse(a) ==
    /\ Told(a, "refused") \/ Told(a, "lost")
    /\ UNCHANGED <<book, made>>

Forget(S) ==
    /\ book' = [k \in Keys |-> IF k \in S THEN None ELSE book[k]]
    /\ UNCHANGED <<made, answer>>

Init ==
    /\ book \in [Keys -> Issues \union {None}]
    /\ made = {book[k] : k \in Keys} \ {None}
    /\ answer = [a \in Attempts |-> None]

Next ==
    \/ \E a \in Attempts, k \in Keys, i \in Issues : Create(a, k, i)
    \/ \E a \in Attempts, k \in Keys : Replay(a, k)
    \/ \E a \in Attempts : Refuse(a)
    \/ \E S \in SUBSET Keys : Forget(S)

Spec == Init /\ [][Next]_vars

=============================================================================
