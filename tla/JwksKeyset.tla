----------------------------- MODULE JwksKeyset -----------------------------
(***************************************************************************)
(* JwtAuthenticator (crates/dandori-auth/src/lib.rs): the keyset behind a  *)
(* lock, the task that refreshes it from the issuer's JWKS document, and   *)
(* authenticate_token, which reads it.                                     *)
(*                                                                         *)
(* The issuer replaces its document as it likes and may be down or slow.   *)
(* The task sleeps, loads under a timeout and doubles its delay after      *)
(* every refresh that fails.  A task that is due runs: time does not pass  *)
(* a timer of the runtime.                                                 *)
(*                                                                         *)
(* A JWK is [kid, key, alg, usable]: kid and alg may be None, and usable   *)
(* says that DecodingKey::from_jwk and map_key_algorithm accept it.  A     *)
(* token is [kid, alg, key]: key is the one that signed it.  Its claims    *)
(* are valid.                                                              *)
(***************************************************************************)
EXTENDS Naturals, FiniteSets, Sequences, SequencesExt

CONSTANTS
    Editions,     \* the documents of the issuer, in the order it publishes them
    Tokens,       \* the tokens that are presented
    Allowed,      \* allowed_algorithms
    Interval,     \* refresh.interval()
    Timeout,      \* refresh.timeout()
    MaxBackoff,   \* max_backoff_millis
    None          \* no kid, no algorithm, no key

\* interval() and timeout() replace 0 by 1.
ASSUME DurationsArePositive ==
    Interval \in Nat \ {0} /\ Timeout \in Nat \ {0} /\ MaxBackoff \in Nat

ASSUME EditionsAreDocuments ==
    /\ Len(Editions) \in Nat \ {0}
    /\ \A e \in 1 .. Len(Editions) :
         Len(Editions[e]) \in Nat /\ DOMAIN Editions[e] = 1 .. Len(Editions[e])

\* refresh.max_backoff()
MaxDelay == IF MaxBackoff < Interval THEN Interval ELSE MaxBackoff

-----------------------------------------------------------------------------
(* parse_jwks and authenticate_token.                                      *)

Entry(jwk) == [key |-> jwk.key, alg |-> jwk.alg]

\* One key that cannot be used refuses the whole document, as no key does.
Parses(doc) == doc # <<>> /\ \A i \in DOMAIN doc : doc[i].usable

\* Of two keys with one kid the last counts, of two without the first.
Keyset(doc) ==
    LET LastOf(kid) == doc[SelectLastInSeq(doc, LAMBDA jwk : jwk.kid = kid)]
        unkeyed     == SelectInSeq(doc, LAMBDA jwk : jwk.kid = None)
    IN  [keys     |-> [kid \in {doc[i].kid : i \in DOMAIN doc} \ {None} |-> Entry(LastOf(kid))],
         fallback |-> IF unkeyed = 0 THEN None ELSE Entry(doc[unkeyed])]

\* Faulty: a kid that is not known is treated as none.
SelectedLoosely(set, token) ==
    IF token.kid \in DOMAIN set.keys THEN {set.keys[token.kid]}
    ELSE {set.keys[kid] : kid \in DOMAIN set.keys} \cup ({set.fallback} \ {None})

\* The entry a token is verified with, if there is one.  A token without a
\* kid needs a keyset with one keyed entry at most; the fallback is used if
\* there is none.
Selected(set, token) ==
    LET kids == DOMAIN set.keys
    IN  CASE token.kid # None     -> {set.keys[kid] : kid \in kids \cap {token.kid}}
          [] token.kid = None /\ kids = {} -> {set.fallback} \ {None}
          [] OTHER -> IF Cardinality(kids) > 1 THEN {} ELSE {set.keys[kid] : kid \in kids}

\* authenticate_token
Accepts(set, token) ==
    \E entry \in Selected(set, token) :
        /\ entry.alg \in {None, token.alg}
        /\ token.alg \in Allowed
        /\ entry.key = token.key

-----------------------------------------------------------------------------
VARIABLES
    published,    \* which edition the issuer serves
    up,           \* the source answers
    keyset,
    phase,        \* of the task: "sleeping" or "loading"
    timer,        \* how long the task has been in its phase
    next_delay,
    fetched,      \* the edition under way to the task, 0 for none
    steady        \* history: ticks since the issuer last changed or failed

task == <<phase, timer, next_delay, fetched>>
vars == <<published, up, keyset, task, steady>>

\* How long the task needs at most to catch up with a steady issuer: a load
\* that was already under way, the longest delay, and a load.
CatchUp == Timeout + MaxDelay + Timeout

\* from_config has loaded the first edition.
Init ==
    /\ Parses(Editions[1])
    /\ published = 1 /\ up = TRUE
    /\ keyset = Keyset(Editions[1])
    /\ phase = "sleeping" /\ timer = 0 /\ next_delay = Interval /\ fetched = 0
    /\ steady = 0

Sleep(delay) == phase' = "sleeping" /\ timer' = 0 /\ next_delay' = delay /\ fetched' = 0

\* The delay has passed and the load begins.
Wake ==
    /\ phase = "sleeping" /\ timer = next_delay
    /\ phase' = "loading" /\ timer' = 0
    /\ UNCHANGED <<published, up, keyset, next_delay, fetched, steady>>

\* The issuer serves its document; the body arrives when Install or Refuse
\* takes it.
Serve ==
    /\ phase = "loading" /\ fetched = 0 /\ up
    /\ fetched' = published
    /\ UNCHANGED <<published, up, keyset, phase, timer, next_delay, steady>>

\* Faulty: the new keys are added to the old ones.
InstallMerging ==
    /\ fetched # 0 /\ Parses(Editions[fetched])
    /\ keyset' = LET new == Keyset(Editions[fetched])
                 IN  [new EXCEPT !.keys =
                        [kid \in DOMAIN new.keys \cup DOMAIN keyset.keys |->
                            IF kid \in DOMAIN new.keys THEN new.keys[kid] ELSE keyset.keys[kid]]]
    /\ Sleep(Interval)
    /\ UNCHANGED <<published, up, steady>>

\* The document parses and replaces the keyset.
Install ==
    /\ fetched # 0 /\ Parses(Editions[fetched])
    /\ keyset' = Keyset(Editions[fetched])
    /\ Sleep(Interval)
    /\ UNCHANGED <<published, up, steady>>

\* Faulty: the delay has no maximum but twice the one meant.
BackoffUncapped == IF 2 * next_delay > 2 * MaxDelay THEN 2 * MaxDelay ELSE 2 * next_delay

Backoff == IF 2 * next_delay > MaxDelay THEN MaxDelay ELSE 2 * next_delay

\* Faulty: what can be used of a refused document is installed.
RefuseInPart ==
    /\ fetched # 0 /\ ~Parses(Editions[fetched])
    /\ keyset' = Keyset(SelectSeq(Editions[fetched], LAMBDA jwk : jwk.usable))
    /\ Sleep(Backoff)
    /\ UNCHANGED <<published, up, steady>>

\* parse_jwks errs and the keyset stays.
Refuse ==
    /\ fetched # 0 /\ ~Parses(Editions[fetched])
    /\ Sleep(Backoff)
    /\ UNCHANGED <<published, up, keyset, steady>>

\* The load has met a source that was down or changing.
Disturbed == ~up \/ steady <= timer

\* load_jwks_raw errs: no connection, a status that is an error, no file.
FailLoad ==
    /\ phase = "loading" /\ Disturbed
    /\ Sleep(Backoff)
    /\ UNCHANGED <<published, up, keyset, steady>>

\* The timeout drops the load, and with it an answer that is still to come.
TimeOut ==
    /\ phase = "loading" /\ timer = Timeout /\ Disturbed
    /\ Sleep(Backoff)
    /\ UNCHANGED <<published, up, keyset, steady>>

Publish ==
    /\ published < Len(Editions)
    /\ published' = published + 1 /\ steady' = 0
    /\ UNCHANGED <<up, keyset, task>>

GoDown == up /\ up' = FALSE /\ steady' = 0 /\ UNCHANGED <<published, keyset, task>>

ComeUp == ~up /\ up' = TRUE /\ steady' = 0 /\ UNCHANGED <<published, keyset, task>>

\* steady is counted up to the first value that is long enough.
Tick ==
    /\ timer < (IF phase = "sleeping" THEN next_delay ELSE Timeout)
    /\ timer' = timer + 1
    /\ steady' = IF steady > CatchUp THEN steady ELSE steady + 1
    /\ UNCHANGED <<published, up, keyset, phase, next_delay, fetched>>

Refresh == Wake \/ Serve \/ Install \/ Refuse \/ FailLoad \/ TimeOut

Issuer == Publish \/ GoDown \/ ComeUp

Next == Refresh \/ Issuer \/ Tick

Spec == Init /\ [][Next]_vars

-----------------------------------------------------------------------------
(* Properties.                                                             *)

\* Every variable has its type; the delay stays between the interval and
\* the maximum, however long the issuer fails.
TypeOK ==
    /\ published \in 1 .. Len(Editions) /\ up \in BOOLEAN
    /\ keyset \in {Keyset(Editions[e]) : e \in 1 .. published}
    /\ phase \in {"sleeping", "loading"}
    /\ next_delay \in Interval .. MaxDelay
    /\ timer \in 0 .. (IF phase = "sleeping" THEN next_delay ELSE Timeout)
    /\ fetched \in 0 .. published
    /\ steady \in 0 .. CatchUp + 1

Settled == up /\ steady > CatchUp /\ Parses(Editions[published])

\* However long the issuer was away and however many refreshes had failed,
\* once it has been steady for CatchUp the keyset is that of its document.
CaughtUp == Settled => keyset = Keyset(Editions[published])

\* A key that the issuer has withdrawn verifies nothing any more after
\* that time: what is accepted was signed with a key of the present
\* document, the one of the token's kid if it names one, and with an
\* algorithm that the document leaves open or states.
WithdrawnKeysAreRefused ==
    Settled =>
        \A token \in {t \in Tokens : Accepts(keyset, t)} :
            \E i \in DOMAIN Editions[published] :
                LET jwk == Editions[published][i]
                IN  /\ jwk.key = token.key /\ jwk.alg \in {None, token.alg}
                    /\ token.kid \in {None, jwk.kid}

\* A rotation is seamless: a token that every document so far vouches for is
\* accepted at every instant, whatever fails between them.
RotationIsSeamless ==
    \A token \in Tokens :
        (\A e \in 1 .. published :
            Parses(Editions[e]) => Accepts(Keyset(Editions[e]), token))
        => Accepts(keyset, token)

=============================================================================
