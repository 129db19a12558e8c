-------------------------- MODULE JwksKeyset_proofs --------------------------
(***************************************************************************)
(* Proofs about JwksKeyset, for every list of documents, every set of      *)
(* tokens and algorithms, and every interval, timeout and backoff.         *)
(***************************************************************************)
EXTENDS JwksKeyset, WellFoundedInduction, TLAPS

\* The longest delay is a natural number and not below the interval.
LEMMA DelaysAreNaturals ==
    /\ Interval \in Nat /\ Interval > 0
    /\ Timeout \in Nat /\ Timeout > 0
    /\ MaxDelay \in Nat /\ MaxDelay >= Interval
    /\ CatchUp = Timeout + MaxDelay + Timeout /\ CatchUp \in Nat
  BY DurationsArePositive DEF DurationsArePositive, MaxDelay, CatchUp

\* A delay that doubles stays between the interval and the maximum.
LEMMA BackoffIsBounded ==
    ASSUME next_delay \in Interval .. MaxDelay
    PROVE  Backoff \in Interval .. MaxDelay
  BY DelaysAreNaturals DEF Backoff

-----------------------------------------------------------------------------
(* Types.                                                                  *)

\* from_config leaves a keyset that a document stands for.
LEMMA InitTypeOK ==
    ASSUME Init
    PROVE  TypeOK
<1>1. published = 1 /\ 1 \in 1 .. Len(Editions)
  BY EditionsAreDocuments DEF EditionsAreDocuments, Init
<1>2. keyset \in {Keyset(Editions[e]) : e \in 1 .. published}
  BY <1>1 DEF Init
<1> QED
  BY <1>1, <1>2, DelaysAreNaturals DEF Init, TypeOK

\* The numbers of the task and the history, apart from the keyset.
Numbers ==
    /\ Len(Editions) \in Nat /\ published \in 1 .. Len(Editions)
    /\ next_delay \in Interval .. MaxDelay
    /\ phase \in {"sleeping", "loading"}
    /\ timer \in 0 .. (IF phase = "sleeping" THEN next_delay ELSE Timeout)
    /\ fetched \in 0 .. published
    /\ steady \in 0 .. CatchUp + 1

LEMMA TypedNumbers ==
    ASSUME TypeOK
    PROVE  Numbers
  BY EditionsAreDocuments DEF EditionsAreDocuments, TypeOK, Numbers

\* A task that goes to sleep has its types.
LEMMA SleepNumbers ==
    ASSUME Numbers, NEW delay \in Interval .. MaxDelay, Sleep(delay),
           UNCHANGED <<published, steady>>
    PROVE  Numbers'
  BY DelaysAreNaturals DEF Numbers, Sleep

\* Every step keeps the numbers in range.
LEMMA NextNumbers ==
    ASSUME Numbers, [Next]_vars
    PROVE  Numbers'
<1>1. Interval \in Interval .. MaxDelay /\ Backoff \in Interval .. MaxDelay
  BY DelaysAreNaturals, BackoffIsBounded DEF Numbers
<1>2. CASE Wake
  BY <1>2, DelaysAreNaturals DEF Wake, Numbers
<1>3. CASE Serve
  BY <1>3, DelaysAreNaturals DEF Serve, Numbers
<1>4. CASE Install
  BY <1>1, <1>4, SleepNumbers DEF Install
<1>5. CASE Refuse
  BY <1>1, <1>5, SleepNumbers DEF Refuse
<1>6. CASE FailLoad
  BY <1>1, <1>6, SleepNumbers DEF FailLoad
<1>7. CASE TimeOut
  BY <1>1, <1>7, SleepNumbers DEF TimeOut
<1>8. CASE Issuer
  BY <1>8, DelaysAreNaturals DEF Issuer, Publish, GoDown, ComeUp, task, Numbers
<1>9. CASE Tick
  BY <1>9, DelaysAreNaturals DEF Tick, Numbers
<1>10. CASE UNCHANGED vars
  BY <1>10 DEF vars, task, Numbers
<1> QED
  BY <1>2, <1>3, <1>4, <1>5, <1>6, <1>7, <1>8, <1>9, <1>10 DEF Next, Refresh

-----------------------------------------------------------------------------
(* What is installed.  The keyset is that of a document that was published *)
(* and parses; a load is under way only while the task is loading.         *)

Installed ==
    \E e \in 1 .. published : Parses(Editions[e]) /\ keyset = Keyset(Editions[e])

\* The first keyset is that of the first document.
LEMMA InitInstalled ==
    ASSUME Init
    PROVE  Installed
  BY DEF Init, Installed

\* Only Install changes the keyset, and documents are not unpublished.
LEMMA NextInstalled ==
    ASSUME Numbers, Installed, [Next]_vars
    PROVE  Installed'
<1>1. published \in Nat /\ published' \in Nat /\ published <= published'
  BY DEF Numbers, Next, Refresh, Issuer, Wake, Serve, Install, Refuse, FailLoad,
         TimeOut, Publish, GoDown, ComeUp, Tick, vars
<1>2. CASE Install
  <2>1. fetched \in 1 .. published
    BY <1>2 DEF Install, Numbers
  <2>2. /\ Parses(Editions[fetched]) /\ keyset' = Keyset(Editions[fetched])
        /\ published' = published
    BY <1>2 DEF Install
  <2> QED
    BY <2>1, <2>2 DEF Installed
<1>3. CASE keyset' = keyset
  <2>1. PICK e \in 1 .. published : Parses(Editions[e]) /\ keyset = Keyset(Editions[e])
    BY DEF Installed
  <2>2. e \in 1 .. published'
    BY <1>1
  <2> QED
    BY <1>3, <2>1, <2>2 DEF Installed
<1> QED
  BY <1>2, <1>3 DEF Next, Refresh, Issuer, Wake, Serve, Refuse, FailLoad,
         TimeOut, Publish, GoDown, ComeUp, Tick, vars, task

JwksInv == TypeOK /\ Installed

\* The two survive every step.
LEMMA NextJwksInv ==
    ASSUME JwksInv, [Next]_vars
    PROVE  JwksInv'
<1>1. Numbers /\ Numbers'
  BY TypedNumbers, NextNumbers DEF JwksInv
<1>2. Installed'
  BY <1>1, NextInstalled DEF JwksInv
<1>3. up' \in BOOLEAN
  BY DEF JwksInv, TypeOK, Next, Refresh, Issuer, Wake, Serve, Install, Refuse,
         FailLoad, TimeOut, Publish, GoDown, ComeUp, Tick, vars
<1>4. keyset' \in {Keyset(Editions[e]) : e \in 1 .. published'}
  BY <1>2 DEF Installed
<1> QED
  BY <1>1, <1>2, <1>3, <1>4 DEF JwksInv, TypeOK, Numbers

LEMMA InstalledInvariant == Spec => []JwksInv
<1>1. Init => JwksInv
  BY InitTypeOK, InitInstalled DEF JwksInv
<1>2. JwksInv /\ [Next]_vars => JwksInv'
  BY NextJwksInv
<1> QED
  BY <1>1, <1>2, PTL DEF Spec

\* Every variable has its type, and the delay stays between the interval and
\* the maximum, however long the issuer fails.
THEOREM KeysetsAreTyped == Spec => []TypeOK
<1>1. JwksInv => TypeOK
  BY DEF JwksInv
<1> QED
  BY <1>1, InstalledInvariant, PTL

\* What every document so far vouches for is accepted at every instant.
THEOREM RotationsAreSeamless == Spec => []RotationIsSeamless
<1>1. JwksInv => RotationIsSeamless
  BY DEF JwksInv, Installed, RotationIsSeamless
<1> QED
  BY <1>1, InstalledInvariant, PTL

-----------------------------------------------------------------------------
(* Catching up.  A load that brings an old document, or none, began before *)
(* the issuer was steady, so that the issuer has been steady for no longer *)
(* than the load.  The delay and the load after it are what CatchUp adds.  *)

Behind == up /\ Parses(Editions[published]) /\ keyset # Keyset(Editions[published])

Catching ==
    /\ phase = "sleeping" => fetched = 0
    /\ fetched \notin {0, published} => steady <= timer
    /\ Behind /\ phase = "sleeping" => steady <= Timeout + timer
    /\ Behind /\ phase = "loading"  => steady <= Timeout + MaxDelay + timer

\* The first document is installed.
LEMMA InitCatching ==
    ASSUME Init
    PROVE  Catching
  BY DelaysAreNaturals DEF Init, Catching, Behind

\* A load after which the keyset is behind has met the disturbance itself.
LEMMA SleepCatching ==
    ASSUME Numbers, Catching, phase = "loading", NEW delay, Sleep(delay),
           UNCHANGED <<published, up, steady>>, Behind' => steady <= timer
    PROVE  Catching'
<1>1. /\ phase' = "sleeping" /\ timer' = 0 /\ fetched' = 0
      /\ steady' = steady /\ steady \in Nat /\ timer \in 0 .. Timeout
  BY DelaysAreNaturals DEF Numbers, Sleep
<1>2. Behind' => steady <= Timeout + 0
  BY <1>1, DelaysAreNaturals
<1> QED
  BY <1>1, <1>2 DEF Catching

\* The issuer's own steps start the count again.
LEMMA IssuerCatching ==
    ASSUME Numbers, Catching, Issuer
    PROVE  Catching'
<1>1. steady' = 0 /\ UNCHANGED <<phase, timer, fetched>>
  BY DEF Issuer, Publish, GoDown, ComeUp, task
<1>2. /\ timer \in Nat /\ Timeout \in Nat /\ MaxDelay \in Nat
      /\ 0 <= timer /\ 0 <= Timeout + timer /\ 0 <= Timeout + MaxDelay + timer
  BY DelaysAreNaturals DEF Numbers
<1> QED
  BY <1>1, <1>2 DEF Catching

\* Every step keeps the keyset from falling further behind than that.
LEMMA NextCatching ==
    ASSUME Numbers, Catching, [Next]_vars
    PROVE  Catching'
<1>1. /\ timer \in Nat /\ steady \in Nat /\ next_delay \in Nat /\ next_delay <= MaxDelay
      /\ Timeout \in Nat /\ MaxDelay \in Nat
      /\ fetched # 0 => phase = "loading"
  BY DelaysAreNaturals DEF Numbers, Catching
<1>2. CASE Wake
  <2>1. /\ phase = "sleeping" /\ phase' = "loading" /\ timer = next_delay /\ timer' = 0
        /\ UNCHANGED <<published, up, keyset, fetched, steady>>
    BY <1>2 DEF Wake
  <2>2. Behind' => Behind
    BY <2>1 DEF Behind
  <2>3. Behind => steady <= Timeout + MaxDelay + 0
    BY <1>1, <2>1 DEF Catching
  <2> QED
    BY <2>1, <2>2, <2>3 DEF Catching
<1>3. CASE Serve
  <2>1. /\ phase = "loading" /\ fetched' = published
        /\ UNCHANGED <<published, up, keyset, phase, timer, steady>>
    BY <1>3 DEF Serve
  <2>2. Behind' => Behind
    BY <2>1 DEF Behind
  <2> QED
    BY <2>1, <2>2 DEF Catching
<1>4. CASE Install
  <2>1. /\ fetched # 0 /\ keyset' = Keyset(Editions[fetched]) /\ Sleep(Interval)
        /\ UNCHANGED <<published, up, steady>>
    BY <1>4 DEF Install
  <2>2. Behind' => fetched # published
    BY <2>1 DEF Behind
  <2> QED
    BY <1>1, <2>1, <2>2, SleepCatching DEF Catching
<1>5. CASE Refuse
  <2>1. /\ fetched # 0 /\ ~Parses(Editions[fetched]) /\ Sleep(Backoff)
        /\ UNCHANGED <<published, up, steady>>
    BY <1>5 DEF Refuse
  <2>2. Behind' => fetched # published
    BY <2>1 DEF Behind
  <2> QED
    BY <1>1, <2>1, <2>2, SleepCatching DEF Catching
<1>6. ASSUME phase = "loading", Disturbed, Sleep(Backoff),
             UNCHANGED <<published, up, keyset, steady>>
      PROVE  Catching'
  <2>1. Behind' => steady <= timer
    BY <1>6 DEF Behind, Disturbed
  <2> QED
    BY <1>6, <2>1, SleepCatching
<1>7. CASE Tick
  <2>1. /\ timer' = timer + 1
        /\ UNCHANGED <<published, up, keyset, phase, fetched>>
    BY <1>7 DEF Tick
  <2>2. steady' <= steady + 1 /\ steady' \in Nat
    BY <1>1, <1>7 DEF Tick
  <2>3. Behind' => Behind
    BY <2>1 DEF Behind
  <2>4. ASSUME NEW n \in Nat, steady <= n + timer
        PROVE  steady' <= n + timer'
    BY <1>1, <2>1, <2>2, <2>4
  <2>5. fetched' \notin {0, published'} => steady' <= timer'
    BY <1>1, <2>1, <2>2 DEF Catching
  <2>6. Behind' /\ phase' = "sleeping" => steady' <= Timeout + timer'
    BY <1>1, <2>1, <2>3, <2>4 DEF Catching
  <2>7. Behind' /\ phase' = "loading" => steady' <= Timeout + MaxDelay + timer'
    <3>1. Timeout + MaxDelay \in Nat
      BY <1>1
    <3> QED
      BY <2>1, <2>3, <2>4, <3>1 DEF Catching
  <2> QED
    BY <2>1, <2>5, <2>6, <2>7 DEF Catching
<1>8. CASE UNCHANGED vars
  BY <1>8 DEF vars, task, Catching, Behind
<1> QED
  BY <1>2, <1>3, <1>4, <1>5, <1>6, <1>7, <1>8, IssuerCatching
     DEF Next, Refresh, FailLoad, TimeOut

\* A load takes Timeout at most and a delay MaxDelay.
LEMMA CatchingCatchesUp ==
    ASSUME Numbers, Catching
    PROVE  CaughtUp
<1>1. /\ timer \in Nat /\ steady \in Nat /\ next_delay \in Nat /\ next_delay <= MaxDelay
      /\ Timeout \in Nat /\ MaxDelay \in Nat /\ CatchUp = Timeout + MaxDelay + Timeout
      /\ phase = "sleeping" => timer <= next_delay
      /\ phase = "loading" => timer <= Timeout
      /\ phase \in {"sleeping", "loading"}
  BY DelaysAreNaturals DEF Numbers
<1>2. Behind => steady <= CatchUp
  <2>1. CASE phase = "sleeping"
    BY <1>1, <2>1 DEF Catching
  <2>2. CASE phase = "loading"
    BY <1>1, <2>2 DEF Catching
  <2> QED
    BY <1>1, <2>1, <2>2
<1> QED
  BY <1>1, <1>2 DEF CaughtUp, Settled, Behind

\* Once the issuer has been steady for CatchUp the keyset is that of its
\* document, whatever failed before.
THEOREM KeysetCatchesUp == Spec => []CaughtUp
<1>1. Init => Catching
  BY InitCatching
<1>2. JwksInv => Numbers
  BY TypedNumbers DEF JwksInv
<1>3. Numbers /\ Catching /\ [Next]_vars => Catching'
  BY NextCatching
<1>4. Numbers /\ Catching => CaughtUp
  BY CatchingCatchesUp
<1> QED
  BY <1>1, <1>2, <1>3, <1>4, InstalledInvariant, PTL DEF Spec

-----------------------------------------------------------------------------
(* Withdrawn keys.  Every entry of a keyset is that of a key of the        *)
(* document, with its own kid, so that the entry a token is verified with  *)
(* is too.                                                                 *)

\* A set of natural numbers that is not empty has a least element.
LEMMA LeastNatural ==
    ASSUME NEW T, T \subseteq Nat, T # {}
    PROVE  Min(T) \in T /\ \A x \in T : Min(T) <= x
<1> DEFINE Less == OpToRel(<, Nat)
<1>1. IsWellFoundedOn(Less, Nat)
  BY NatLessThanWellFounded
<1>2. \A x, y \in T : ~(<<y, x>> \in Less) => x <= y
  BY DEF OpToRel
<1> HIDE DEF Less
<1>3. \E x \in T : \A y \in T : x <= y
  <2>1. \E x \in T : \A y \in T : ~(<<y, x>> \in Less)
    BY <1>1, WFMin
  <2> QED
    BY <1>2, <2>1
<1> QED
  BY <1>3 DEF Min

\* One that is bounded has a greatest element.
LEMMA GreatestNatural ==
    ASSUME NEW n \in Nat, NEW T, T \subseteq 1 .. n, T # {}
    PROVE  Max(T) \in T
<1> DEFINE U == {n - x : x \in T}
<1>1. U \subseteq Nat /\ U # {}
  <2>1. \A x \in T : n - x \in Nat
    OBVIOUS
  <2>2. PICK x \in T : TRUE
    OBVIOUS
  <2>3. n - x \in U
    OBVIOUS
  <2> QED
    BY <2>1, <2>3
<1>2. PICK y \in U : \A z \in U : y <= z
  <2> HIDE DEF U
  <2>1. Min(U) \in U /\ \A z \in U : Min(U) <= z
    BY <1>1, LeastNatural
  <2> QED
    BY <2>1
<1>3. PICK x \in T : y = n - x
  BY <1>2
<1>4. \A z \in T : x >= z
  <2>1. \A z \in T : y <= n - z
    BY <1>2
  <2> QED
    BY <1>3, <2>1
<1> QED
  BY <1>3, <1>4 DEF Max

\* What Keyset(doc) is made of.
LEMMA EntriesOfDocument ==
    ASSUME NEW doc, Len(doc) \in Nat, DOMAIN doc = 1 .. Len(doc)
    PROVE  /\ \A kid \in DOMAIN Keyset(doc).keys :
                /\ kid # None
                /\ \E i \in DOMAIN doc :
                     doc[i].kid = kid /\ Keyset(doc).keys[kid] = Entry(doc[i])
           /\ Keyset(doc).fallback # None =>
                \E i \in DOMAIN doc : Keyset(doc).fallback = Entry(doc[i])
<1> DEFINE Kids == {doc[i].kid : i \in DOMAIN doc} \ {None}
           LastOf(kid) == SelectLastInSeq(doc, LAMBDA jwk : jwk.kid = kid)
           first == SelectInSeq(doc, LAMBDA jwk : jwk.kid = None)
<1>1. /\ Keyset(doc).keys = [kid \in Kids |-> Entry(doc[LastOf(kid)])]
      /\ Keyset(doc).fallback = IF first = 0 THEN None ELSE Entry(doc[first])
  BY DEF Keyset
<1>2. ASSUME NEW kid \in Kids
      PROVE  LastOf(kid) \in DOMAIN doc /\ doc[LastOf(kid)].kid = kid
  <2> DEFINE T == {i \in 1 .. Len(doc) : doc[i].kid = kid}
  <2>1. T # {} /\ T \subseteq 1 .. Len(doc)
    OBVIOUS
  <2>2. LastOf(kid) = Max(T)
    BY <2>1 DEF SelectLastInSeq
  <2>3. Max(T) \in T
    <3> HIDE DEF T
    <3> QED
      BY <2>1, GreatestNatural
  <2> QED
    BY <2>2, <2>3
<1>3. first # 0 => first \in DOMAIN doc
  <2> DEFINE T == {i \in 1 .. Len(doc) : doc[i].kid = None}
  <2>1. first = IF T # {} THEN Min(T) ELSE 0
    BY DEF SelectInSeq
  <2>2. T \subseteq Nat /\ T \subseteq DOMAIN doc
    OBVIOUS
  <2>3. T # {} => Min(T) \in T
    <3> HIDE DEF T
    <3> QED
      BY <2>2, LeastNatural
  <2> QED
    BY <2>1, <2>2, <2>3
<1> HIDE DEF LastOf, first
<1> QED
  BY <1>1, <1>2, <1>3

\* A token that a keyset accepts was signed with a key of its document.
LEMMA AcceptedAreOfDocument ==
    ASSUME NEW doc, Len(doc) \in Nat, DOMAIN doc = 1 .. Len(doc),
           NEW token, Accepts(Keyset(doc), token)
    PROVE  \E i \in DOMAIN doc :
               /\ doc[i].key = token.key /\ doc[i].alg \in {None, token.alg}
               /\ token.kid \in {None, doc[i].kid}
<1>1. PICK entry \in Selected(Keyset(doc), token) :
          entry.alg \in {None, token.alg} /\ entry.key = token.key
  BY DEF Accepts
<1>2. SUFFICES \E i \in DOMAIN doc : entry = Entry(doc[i]) /\ token.kid \in {None, doc[i].kid}
  BY <1>1 DEF Entry
<1>3. \/ \E kid \in DOMAIN Keyset(doc).keys :
            entry = Keyset(doc).keys[kid] /\ token.kid \in {None, kid}
      \/ entry = Keyset(doc).fallback /\ entry # None /\ token.kid = None
  BY <1>1 DEF Selected
<1> QED
  BY <1>3, EntriesOfDocument

\* A key that the issuer has withdrawn verifies nothing once the issuer has
\* been steady for CatchUp.
THEOREM WithdrawnKeysRefused == Spec => []WithdrawnKeysAreRefused
<1>1. JwksInv /\ CaughtUp => WithdrawnKeysAreRefused
  <2> SUFFICES ASSUME JwksInv, CaughtUp, Settled,
                      NEW token \in Tokens, Accepts(keyset, token)
               PROVE  \E i \in DOMAIN Editions[published] :
                          LET jwk == Editions[published][i]
                          IN  /\ jwk.key = token.key /\ jwk.alg \in {None, token.alg}
                              /\ token.kid \in {None, jwk.kid}
    BY DEF WithdrawnKeysAreRefused
  <2> DEFINE doc == Editions[published]
  <2>1. keyset = Keyset(doc)
    BY DEF CaughtUp
  <2>2. Len(doc) \in Nat /\ DOMAIN doc = 1 .. Len(doc)
    BY EditionsAreDocuments, TypedNumbers DEF EditionsAreDocuments, JwksInv, Numbers
  <2> HIDE DEF doc
  <2>3. \E i \in DOMAIN doc :
            /\ doc[i].key = token.key /\ doc[i].alg \in {None, token.alg}
            /\ token.kid \in {None, doc[i].kid}
    BY <2>1, <2>2, AcceptedAreOfDocument
  <2> QED
    BY <2>3 DEF doc
<1> QED
  BY <1>1, InstalledInvariant, KeysetCatchesUp, PTL

=============================================================================
