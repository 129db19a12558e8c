----------------------- MODULE EventRegistry_proofs -----------------------
(***************************************************************************)
(* The routing of EventRegistry for every set of handlers, versions and    *)
(* messages: the list of a type stays sorted, holds exactly the versions   *)
(* of the map, and ends each version with the handler of the map.          *)
(***************************************************************************)
EXTENDS EventRegistry, WellFoundedInduction, TLAPS

RegistryTypeOK ==
    /\ by_key \in [Types \X Versions -> Handlers \union {None}]
    /\ by_type \in [Types -> Seq(Handlers)]

Sorted(list) ==
    \A i, j \in 1..Len(list) : i <= j => SchemaVersion[list[i]] <= SchemaVersion[list[j]]

\* The handler of the map for v ends the entries of v in the list.
EndsWith(list, v, h) ==
    \E i \in 1..Len(list) :
        /\ SchemaVersion[list[i]] = v /\ list[i] = h
        /\ \A j \in 1..Len(list) : SchemaVersion[list[j]] = v => j <= i

Agree(t) ==
    /\ Sorted(by_type[t])
    /\ \A i \in 1..Len(by_type[t]) : by_key[<<t, SchemaVersion[by_type[t][i]]>>] # None
    /\ \A v \in Versions : by_key[<<t, v>>] # None =>
          EndsWith(by_type[t], v, by_key[<<t, v>>])

RegistryInv == RegistryTypeOK /\ \A t \in Types : Agree(t)

-----------------------------------------------------------------------------
\* A non-empty set of naturals has a least element.
LEMMA LeastNatural ==
    ASSUME NEW T, T \subseteq Nat, T # {}
    PROVE  \E x \in T : \A y \in T : x <= y
<1> DEFINE Less == OpToRel(<, Nat)
<1>1. IsWellFoundedOn(Less, Nat)
    BY NatLessThanWellFounded
<1>2. \A x, y \in T : ~(<<y, x>> \in Less) => x <= y
    BY DEF OpToRel
<1> HIDE DEF Less
<1>3. \E x \in T : \A y \in T : ~(<<y, x>> \in Less)
    BY <1>1, WFMin
<1> QED BY <1>2, <1>3

\* The sort has a place for a version: the entries not above it come first.
LEMMA PlaceExists ==
    ASSUME NEW list \in Seq(Handlers), NEW v \in Versions, Sorted(list)
    PROVE  /\ Place(list, v) \in 0..Len(list)
           /\ \A i \in 1..Len(list) :
                 i <= Place(list, v) <=> SchemaVersion[list[i]] <= v
<1> DEFINE Above == {i \in 1..Len(list) : ~(SchemaVersion[list[i]] <= v)}
<1>0. /\ Len(list) \in Nat
      /\ \A i \in 1..Len(list) : SchemaVersion[list[i]] \in Nat
    BY HandlersAreWellFormed, VersionsAreU32 DEF Versions
<1>1. \E n \in 0..Len(list) :
         \A i \in 1..Len(list) : i <= n <=> SchemaVersion[list[i]] <= v
    <2>1. CASE Above = {}
        <3>1. \A i \in 1..Len(list) : i <= Len(list) <=> SchemaVersion[list[i]] <= v
            BY <1>0, <2>1
        <3> QED BY <1>0, <3>1
    <2>2. CASE Above # {}
        <3>0. Above \subseteq Nat
            BY <1>0
        <3>1. PICK x \in Above : \A y \in Above : x <= y
            BY <2>2, <3>0, LeastNatural
        <3>2. x - 1 \in 0..Len(list)
            BY <1>0, <3>1
        <3>3. ASSUME NEW i \in 1..Len(list)
              PROVE  i <= x - 1 <=> SchemaVersion[list[i]] <= v
            <4>1. i <= x - 1 => i \notin Above
                BY <1>0, <3>1
            <4>2. ~(i <= x - 1) => SchemaVersion[list[x]] <= SchemaVersion[list[i]]
                BY <1>0, <3>1 DEF Sorted
            <4>3. SchemaVersion[list[x]] > v
                BY <1>0, <3>1, VersionsAreU32 DEF Versions
            <4> QED BY <1>0, <3>1, <4>1, <4>2, <4>3, VersionsAreU32 DEF Versions
        <3> QED BY <3>2, <3>3
    <2> QED BY <2>1, <2>2
<1> QED BY <1>1 DEF Place

\* The entry resolve() falls back to is the last one in front of that place.
LEMMA LastKnownIsPlace ==
    ASSUME NEW list \in Seq(Handlers), NEW v \in Versions, Sorted(list),
           Known(list, v) # {}
    PROVE  /\ LastKnown(list, v) \in Known(list, v)
           /\ \A j \in Known(list, v) : j <= LastKnown(list, v)
<1> DEFINE n == Place(list, v)
<1>1. /\ n \in 0..Len(list)
      /\ \A i \in 1..Len(list) : i <= n <=> SchemaVersion[list[i]] <= v
    BY PlaceExists
<1>2. n \in Known(list, v) /\ \A j \in Known(list, v) : j <= n
    <2>1. PICK k \in Known(list, v) : TRUE
        OBVIOUS
    <2>2. k \in 1..Len(list) /\ k <= n
        BY <1>1, <2>1 DEF Known
    <2>3. n \in 1..Len(list) /\ Len(list) \in Nat
        BY <1>1, <2>2
    <2> HIDE DEF n
    <2> QED BY <1>1, <2>3 DEF Known
<1> HIDE DEF n
<1> QED BY <1>2 DEF LastKnown

\* What the list is after a registration, entry by entry.
LEMMA InsertedList ==
    ASSUME NEW list \in Seq(Handlers), NEW h \in Handlers, NEW n \in 0..Len(list)
    PROVE  /\ InsertAfter(list, n, h) \in Seq(Handlers)
           /\ Len(InsertAfter(list, n, h)) = Len(list) + 1
           /\ \A i \in 1..n : InsertAfter(list, n, h)[i] = list[i]
           /\ InsertAfter(list, n, h)[n + 1] = h
           /\ \A i \in (n + 2)..(Len(list) + 1) : InsertAfter(list, n, h)[i] = list[i - 1]
<1> DEFINE new == InsertAfter(list, n, h)
<1>1. Len(list) \in Nat
    OBVIOUS
<1>2. new \in [1..(Len(list) + 1) -> Handlers]
    <2>1. \A i \in 1..(Len(list) + 1) :
             (IF i <= n THEN list[i] ELSE IF i = n + 1 THEN h ELSE list[i - 1]) \in Handlers
        BY <1>1
    <2> QED BY <2>1 DEF InsertAfter
<1>3. new \in Seq(Handlers) /\ Len(new) = Len(list) + 1
    <2>1. Len(list) + 1 \in Nat
        BY <1>1
    <2> HIDE DEF new
    <2> QED BY <1>2, <2>1
<1>4. \A i \in 1..n : new[i] = list[i]
    BY <1>1 DEF InsertAfter
<1>5. new[n + 1] = h
    BY <1>1 DEF InsertAfter
<1>6. \A i \in (n + 2)..(Len(list) + 1) : new[i] = list[i - 1]
    BY <1>1 DEF InsertAfter
<1> QED BY <1>3, <1>4, <1>5, <1>6

-----------------------------------------------------------------------------
\* A registration keeps the list and the map of its own type in agreement.
LEMMA RegisterKeepsAgreement ==
    ASSUME RegistryInv, NEW h \in Handlers, Register(h)
    PROVE  Agree(EventType[h])'
<1> DEFINE t    == EventType[h]
           v    == SchemaVersion[h]
           old  == by_type[t]
           n    == Place(old, v)
           new  == InsertAfter(old, n, h)
<1>1. /\ t \in Types /\ v \in Versions /\ <<t, v>> \in Types \X Versions
      /\ old \in Seq(Handlers) /\ Len(old) \in Nat
      /\ Sorted(old)
    BY HandlersAreWellFormed DEF RegistryInv, RegistryTypeOK, Agree
<1>2. /\ n \in 0..Len(old)
      /\ \A i \in 1..Len(old) : i <= n <=> SchemaVersion[old[i]] <= v
    BY <1>1, PlaceExists
<1>3. /\ new \in Seq(Handlers) /\ Len(new) = Len(old) + 1
      /\ \A i \in 1..n : new[i] = old[i]
      /\ new[n + 1] = h
      /\ \A i \in (n + 2)..(Len(old) + 1) : new[i] = old[i - 1]
    <2> HIDE DEF new, n, old
    <2> QED BY <1>1, <1>2, InsertedList DEF new
<1>4. /\ by_type'[t] = new
      /\ by_key'[<<t, v>>] = h
      /\ \A w \in Versions : w # v => by_key'[<<t, w>>] = by_key[<<t, w>>]
    BY <1>1 DEF Register, RegistryInv, RegistryTypeOK
<1>5. /\ \A i \in 1..Len(new) : SchemaVersion[new[i]] \in Versions
      /\ \A i \in 1..Len(old) : SchemaVersion[old[i]] \in Versions
    <2> HIDE DEF n, new, old, t, v
    <2> QED BY <1>1, <1>3, HandlersAreWellFormed
<1> HIDE DEF n, new, old, t, v
<1>v. v = SchemaVersion[h] /\ Versions \subseteq Nat
    BY VersionsAreU32 DEF v, Versions
<1>a. ASSUME NEW i \in 1..n
      PROVE  /\ i \in 1..Len(old) /\ i \in 1..Len(new)
             /\ new[i] = old[i] /\ SchemaVersion[old[i]] <= v
    <2>1. i \in 1..Len(old) /\ i <= n
        BY <1>1, <1>2
    <2> QED BY <1>1, <1>2, <1>3, <2>1
<1>b. ASSUME NEW i \in (n + 2)..(Len(old) + 1)
      PROVE  /\ i - 1 \in 1..Len(old) /\ i \in 1..Len(new)
             /\ new[i] = old[i - 1] /\ SchemaVersion[old[i - 1]] > v
    <2>1. i - 1 \in 1..Len(old) /\ ~(i - 1 <= n) /\ i \in 1..Len(new)
        BY <1>1, <1>2, <1>3
    <2>2. ~(SchemaVersion[old[i - 1]] <= v)
        BY <1>2, <2>1
    <2>3. SchemaVersion[old[i - 1]] \in Nat /\ v \in Nat
        BY <1>1, <1>5, <1>v, <2>1
    <2> QED BY <1>3, <2>1, <2>2, <2>3
<1>c. \A i \in 1..Len(new) : \/ i \in 1..n
                             \/ i = n + 1
                             \/ i \in (n + 2)..(Len(old) + 1)
    BY <1>1, <1>2, <1>3
<1>6. Sorted(new)
    <2> SUFFICES ASSUME NEW i \in 1..Len(new), NEW j \in 1..Len(new), i <= j
                 PROVE  SchemaVersion[new[i]] <= SchemaVersion[new[j]]
        BY DEF Sorted
    <2>1. CASE j \in 1..n
        <3>1. i \in 1..n
            BY <1>2, <1>3, <2>1
        <3> QED BY <1>1, <1>a, <2>1, <3>1 DEF Sorted
    <2>2. CASE j = n + 1
        <3>1. i \in 1..n \/ i = n + 1
            BY <1>2, <1>3, <2>2
        <3> QED BY <1>1, <1>3, <1>5, <1>a, <1>v, <2>2, <3>1
    <2>3. CASE j \in (n + 2)..(Len(old) + 1)
        <3>1. SchemaVersion[new[j]] > v /\ new[j] = old[j - 1] /\ j - 1 \in 1..Len(old)
            BY <1>b, <2>3
        <3>t. SchemaVersion[new[i]] \in Nat /\ SchemaVersion[new[j]] \in Nat /\ v \in Nat
            BY <1>1, <1>5, <1>v
        <3>2. CASE i \in 1..n
            <4>1. SchemaVersion[new[i]] <= v
                BY <1>a, <3>2
            <4> QED BY <3>t, <3>1, <4>1
        <3>3. CASE i = n + 1
            <4>1. SchemaVersion[new[i]] = v
                BY <1>3, <1>v, <3>3
            <4> QED BY <3>t, <3>1, <4>1
        <3>4. CASE i \in (n + 2)..(Len(old) + 1)
            <4>1. new[i] = old[i - 1] /\ i - 1 \in 1..Len(old) /\ i - 1 <= j - 1
                BY <1>b, <1>2, <3>4
            <4> QED BY <1>1, <3>1, <4>1 DEF Sorted
        <3> QED BY <1>c, <3>2, <3>3, <3>4
    <2> QED BY <1>c, <2>1, <2>2, <2>3
<1>7. ASSUME NEW i \in 1..Len(new)
      PROVE  by_key'[<<t, SchemaVersion[new[i]]>>] # None
    <2>1. CASE SchemaVersion[new[i]] = v
        BY <1>4, <2>1, HandlersAreWellFormed
    <2>2. CASE SchemaVersion[new[i]] # v
        <3>1. \E k \in 1..Len(old) : new[i] = old[k]
            BY <1>3, <1>a, <1>b, <1>c, <1>v, <2>2
        <3>2. by_key[<<t, SchemaVersion[new[i]]>>] # None
            BY <1>1, <3>1 DEF RegistryInv, Agree, old
        <3> QED BY <1>4, <1>5, <2>2, <3>2
    <2> QED BY <2>1, <2>2
<1>8. ASSUME NEW w \in Versions, by_key'[<<t, w>>] # None
      PROVE  EndsWith(new, w, by_key'[<<t, w>>])
    <2>1. CASE w = v
        <3>1. n + 1 \in 1..Len(new) /\ new[n + 1] = h
            BY <1>1, <1>2, <1>3
        <3>2. ASSUME NEW j \in 1..Len(new), SchemaVersion[new[j]] = w
              PROVE  j <= n + 1
            <4>1. j \notin (n + 2)..(Len(old) + 1)
                BY <1>1, <1>b, <1>v, <2>1, <3>2
            <4> QED BY <1>2, <1>c, <4>1
        <3> QED BY <1>4, <1>v, <2>1, <3>1, <3>2 DEF EndsWith
    <2>2. CASE w # v
        <3>1. by_key[<<t, w>>] # None /\ by_key'[<<t, w>>] = by_key[<<t, w>>]
            BY <1>4, <1>8, <2>2
        <3>2. PICK k \in 1..Len(old) :
                 /\ SchemaVersion[old[k]] = w /\ old[k] = by_key[<<t, w>>]
                 /\ \A j \in 1..Len(old) : SchemaVersion[old[j]] = w => j <= k
            BY <1>1, <3>1 DEF RegistryInv, Agree, EndsWith, old
        <3> DEFINE m == IF k <= n THEN k ELSE k + 1
        <3>3. m \in 1..Len(new) /\ new[m] = old[k]
            <4>1. CASE k <= n
                <5>1. k \in 1..n
                    BY <1>2, <4>1
                <5> QED BY <1>a, <4>1, <5>1
            <4>2. CASE ~(k <= n)
                <5>1. k + 1 \in (n + 2)..(Len(old) + 1)
                    BY <1>1, <1>2, <4>2
                <5>2. (k + 1) - 1 = k
                    BY <1>1
                <5> QED BY <1>b, <4>2, <5>1, <5>2
            <4> QED BY <4>1, <4>2
        <3>4. ASSUME NEW j \in 1..Len(new), SchemaVersion[new[j]] = w
              PROVE  j <= m
            <4>1. CASE j \in 1..n
                <5>1. j <= k
                    BY <1>a, <3>2, <3>4, <4>1
                <5> QED BY <1>1, <1>2, <4>1, <5>1
            <4>2. CASE j = n + 1
                BY <1>3, <1>v, <2>2, <3>4, <4>2
            <4>3. CASE j \in (n + 2)..(Len(old) + 1)
                <5>1. j - 1 <= k
                    BY <1>b, <3>2, <3>4, <4>3
                <5> QED BY <1>1, <1>2, <4>3, <5>1
            <4> QED BY <1>c, <4>1, <4>2, <4>3
        <3> HIDE DEF m
        <3> QED BY <3>1, <3>2, <3>3, <3>4 DEF EndsWith
    <2> QED BY <2>1, <2>2
<1>9. Agree(t)'
    BY <1>4, <1>6, <1>7, <1>8 DEF Agree
<1> QED BY <1>9 DEF t

\* The invariant holds of every registry that registrations can build.
LEMMA RegistryInvariant == Spec => []RegistryInv
<1>1. Init => RegistryInv
    <2> SUFFICES ASSUME Init PROVE RegistryInv
        OBVIOUS
    <2>1. RegistryTypeOK
        BY DEF Init, RegistryTypeOK
    <2>2. ASSUME NEW t \in Types PROVE Agree(t)
        BY DEF Init, Agree, Sorted
    <2> QED BY <2>1, <2>2 DEF RegistryInv
<1>2. RegistryInv /\ [Next]_vars => RegistryInv'
    <2> SUFFICES ASSUME RegistryInv, [Next]_vars PROVE RegistryInv'
        OBVIOUS
    <2>1. ASSUME NEW h \in Handlers, Register(h) PROVE RegistryInv'
        <3> DEFINE t == EventType[h]
                   v == SchemaVersion[h]
        <3>1. t \in Types /\ v \in Versions
            BY HandlersAreWellFormed
        <3>2. Agree(t)'
            BY <2>1, RegisterKeepsAgreement
        <3>3. by_type'[t] \in Seq(Handlers)
            <4>1. by_type[t] \in Seq(Handlers) /\ Sorted(by_type[t])
                BY <3>1 DEF RegistryInv, RegistryTypeOK, Agree
            <4>2. Place(by_type[t], v) \in 0..Len(by_type[t])
                BY <3>1, <4>1, PlaceExists
            <4>3. InsertAfter(by_type[t], Place(by_type[t], v), h) \in Seq(Handlers)
                BY <4>1, <4>2, InsertedList
            <4> QED BY <2>1, <3>1, <4>3 DEF Register, RegistryInv, RegistryTypeOK
        <3>4. RegistryTypeOK'
            <4>1. by_key' \in [Types \X Versions -> Handlers \union {None}]
                BY <2>1 DEF Register, RegistryInv, RegistryTypeOK
            <4>2. by_type' \in [Types -> Seq(Handlers)]
                BY <2>1, <3>1, <3>3 DEF Register, RegistryInv, RegistryTypeOK
            <4> QED BY <4>1, <4>2 DEF RegistryTypeOK
        <3>5. ASSUME NEW u \in Types, u # t PROVE Agree(u)'
            <4>1. /\ by_type'[u] = by_type[u]
                  /\ \A w \in Versions : by_key'[<<u, w>>] = by_key[<<u, w>>]
                BY <2>1, <3>1, <3>5 DEF Register, RegistryInv, RegistryTypeOK
            <4>2. \A i \in 1..Len(by_type[u]) : SchemaVersion[by_type[u][i]] \in Versions
                BY HandlersAreWellFormed DEF RegistryInv, RegistryTypeOK
            <4>3. Agree(u)
                BY DEF RegistryInv
            <4> QED BY <4>1, <4>2, <4>3 DEF Agree
        <3> QED BY <3>2, <3>4, <3>5 DEF RegistryInv
    <2>2. CASE UNCHANGED vars
        BY <2>2 DEF vars, RegistryInv, RegistryTypeOK, Agree
    <2> QED BY <2>1, <2>2 DEF Next
<1> QED BY <1>1, <1>2, PTL DEF Spec

-----------------------------------------------------------------------------
\* w is the highest version of the type, up to v, that has a handler.
IsNewest(t, v, w) == w \in Supported(t, v) /\ \A u \in Supported(t, v) : u <= w

ResolvesToNewest ==
    \A t \in Types, v \in Versions :
        /\ Supported(t, v) = {} => Resolve(t, v) = None
        /\ Supported(t, v) # {} =>
              /\ Resolve(t, v) # None
              /\ \E w \in Versions : IsNewest(t, v, w) /\ Resolve(t, v) = by_key[<<t, w>>]

\* The search through the list of a type finds what the map has.
LEMMA ListFindsNewest == RegistryInv => ResolvesToNewest
<1> SUFFICES ASSUME RegistryInv, NEW t \in Types, NEW v \in Versions
             PROVE  /\ Supported(t, v) = {} => Resolve(t, v) = None
                    /\ Supported(t, v) # {} =>
                          /\ Resolve(t, v) # None
                          /\ \E w \in Versions :
                                IsNewest(t, v, w) /\ Resolve(t, v) = by_key[<<t, w>>]
    BY DEF ResolvesToNewest
<1> DEFINE list == by_type[t]
<1>1. /\ list \in Seq(Handlers) /\ Sorted(list)
      /\ \A u \in 0..v : u \in Versions /\ <<t, u>> \in Types \X Versions
    BY VersionsAreU32 DEF Versions, RegistryInv, RegistryTypeOK, Agree
<1>2. /\ \A i \in 1..Len(list) : SchemaVersion[list[i]] \in Nat
      /\ \A i \in 1..Len(list) : list[i] \in Handlers
      /\ v \in Nat /\ Len(list) \in Nat
    BY <1>1, HandlersAreWellFormed, VersionsAreU32 DEF Versions
<1>3. \A i \in 1..Len(list) : by_key[<<t, SchemaVersion[list[i]]>>] # None
    BY <1>1 DEF RegistryInv, Agree
<1>4. \A u \in Supported(t, v) : EndsWith(list, u, by_key[<<t, u>>])
    BY <1>1 DEF RegistryInv, Agree, Supported
<1> HIDE DEF list
<1>7. CASE Supported(t, v) = {}
    <2>1. by_key[<<t, v>>] = None
        BY <1>2, <1>7 DEF Supported
    <2>2. Known(list, v) = {}
        <3> SUFFICES ASSUME NEW i \in Known(list, v) PROVE FALSE
            OBVIOUS
        <3>1. i \in 1..Len(list) /\ SchemaVersion[list[i]] \in 0..v
            BY <1>2 DEF Known
        <3> QED BY <1>3, <1>7, <3>1 DEF Supported
    <2>3. Resolve(t, v) = None
        BY <2>1, <2>2 DEF Resolve, list
    <2> QED BY <1>7, <2>3
<1>8. CASE Supported(t, v) # {} /\ by_key[<<t, v>>] # None
    <2>1. v \in Supported(t, v) /\ \A u \in Supported(t, v) : u <= v
        BY <1>2, <1>8 DEF Supported
    <2>2. Resolve(t, v) = by_key[<<t, v>>]
        BY <1>8 DEF Resolve
    <2> QED BY <1>8, <2>1, <2>2 DEF IsNewest
<1>9. CASE Supported(t, v) # {} /\ by_key[<<t, v>>] = None
    <2>1. ASSUME NEW u \in Supported(t, v)
          PROVE  \E i \in Known(list, v) :
                    /\ SchemaVersion[list[i]] = u /\ list[i] = by_key[<<t, u>>]
                    /\ \A j \in 1..Len(list) : SchemaVersion[list[j]] = u => j <= i
        <3>1. u \in 0..v
            BY DEF Supported
        <3>2. PICK i \in 1..Len(list) :
                /\ SchemaVersion[list[i]] = u /\ list[i] = by_key[<<t, u>>]
                /\ \A j \in 1..Len(list) : SchemaVersion[list[j]] = u => j <= i
            BY <1>4 DEF EndsWith
        <3>3. i \in Known(list, v)
            BY <1>2, <3>1, <3>2 DEF Known
        <3> QED BY <3>2, <3>3
    <2>2. Known(list, v) # {}
        BY <1>9, <2>1
    <2> DEFINE n == LastKnown(list, v)
               w == SchemaVersion[list[n]]
    <2>3. n \in Known(list, v) /\ \A j \in Known(list, v) : j <= n
        BY <1>1, <2>2, LastKnownIsPlace
    <2>4. n \in 1..Len(list) /\ w <= v /\ w \in Nat
        BY <1>2, <2>3 DEF Known
    <2>5. Resolve(t, v) = list[n] /\ list[n] # None
        <3>1. Resolve(t, v) = list[n]
            BY <1>9, <2>2 DEF Resolve, list
        <3> QED BY <1>2, <2>4, <3>1, HandlersAreWellFormed
    <2> HIDE DEF n
    <2>6. w \in Supported(t, v)
        BY <1>2, <1>3, <2>4 DEF Supported
    <2>7. \A u \in Supported(t, v) : u <= w
        <3> SUFFICES ASSUME NEW u \in Supported(t, v) PROVE u <= w
            OBVIOUS
        <3>1. PICK i \in Known(list, v) : SchemaVersion[list[i]] = u
            BY <2>1
        <3>2. i \in 1..Len(list) /\ i <= n
            BY <2>3, <3>1 DEF Known
        <3> QED BY <1>1, <2>4, <3>1, <3>2 DEF Sorted
    <2>8. by_key[<<t, w>>] = list[n]
        <3>1. PICK i \in Known(list, v) :
                /\ SchemaVersion[list[i]] = w /\ list[i] = by_key[<<t, w>>]
                /\ \A j \in 1..Len(list) : SchemaVersion[list[j]] = w => j <= i
            BY <2>1, <2>6
        <3>2. n <= i /\ i <= n /\ i \in 1..Len(list)
            BY <2>3, <2>4, <3>1 DEF Known
        <3>3. i = n
            BY <2>4, <3>2
        <3> QED BY <3>1, <3>3
    <2>9. w \in Versions
        BY <1>1, <2>6 DEF Supported
    <2> HIDE DEF w
    <2>10. IsNewest(t, v, w)
        BY <2>6, <2>7 DEF IsNewest
    <2> QED BY <1>9, <2>5, <2>8, <2>9, <2>10
<1> QED BY <1>7, <1>8, <1>9

\* Every message goes to the handler registered last for the highest version
\* not above its own: the list and the map of OutboxRegistry never disagree.
THEOREM RoutingIsRight == Spec => []RoutesToNewestKnown
<1>1. ResolvesToNewest => RoutesToNewestKnown
    <2> SUFFICES ASSUME ResolvesToNewest, NEW m \in Messages,
                        NEW v \in Versions, MeantFor(m, v)
                 PROVE  IF Supported(m.type, v) = {} THEN Dispatch(m).kind = "unsupported"
                        ELSE \E w \in Supported(m.type, v) :
                               /\ \A u \in Supported(m.type, v) : u <= w
                               /\ Dispatch(m).kind # "unsupported"
                               /\ Dispatch(m).by = by_key[<<m.type, w>>]
        BY DEF RoutesToNewestKnown
    <2>1. m.type \in Types /\ v = ResolveSchemaVersion(m)
        BY MessagesAreWellFormed DEF ResolveSchemaVersion, MeantFor
    <2>2. /\ Dispatch(m).kind = "unsupported" <=> Resolve(m.type, v) = None
          /\ Resolve(m.type, v) # None => Dispatch(m).by = Resolve(m.type, v)
        BY <2>1 DEF Dispatch
    <2> QED BY <2>1, <2>2 DEF ResolvesToNewest, IsNewest
<1> QED BY <1>1, ListFindsNewest, RegistryInvariant, PTL

\* A registration, in whatever order it comes, changes the handler of the
\* messages of its own type from its own version on, if of any, and then to
\* itself: nothing that was routed before becomes unsupported, and no
\* registration reaches the messages of another type or of older versions.
RegistrationIsLocal ==
    [][\A h \in Handlers : Register(h) =>
          \A t \in Types, v \in Versions :
              \/ Resolve(t, v)' = Resolve(t, v)
              \/ /\ Resolve(t, v)' = h
                 /\ t = EventType[h] /\ SchemaVersion[h] <= v]_vars

THEOREM RegistrationsAreLocal == Spec => RegistrationIsLocal
<1>1. ResolvesToNewest' <=> \A t \in Types, v \in Versions :
         /\ Supported(t, v)' = {} => Resolve(t, v)' = None
         /\ Supported(t, v)' # {} =>
               /\ Resolve(t, v)' # None
               /\ \E w \in Versions : IsNewest(t, v, w)' /\ Resolve(t, v)' = by_key'[<<t, w>>]
    BY DEF ResolvesToNewest
<1>2. ASSUME RegistryInv, ResolvesToNewest, ResolvesToNewest',
             NEW h \in Handlers, Register(h), NEW t \in Types, NEW v \in Versions
      PROVE  \/ Resolve(t, v)' = Resolve(t, v)
             \/ /\ Resolve(t, v)' = h
                /\ t = EventType[h] /\ SchemaVersion[h] <= v
    <2>1. /\ SchemaVersion[h] \in Versions /\ EventType[h] \in Types /\ h # None
          /\ Versions \subseteq Nat
          /\ \A u \in 0..v : u \in Versions
        BY HandlersAreWellFormed, VersionsAreU32 DEF Versions
    <2>2. \A u \in Versions :
             by_key'[<<t, u>>] = IF t = EventType[h] /\ u = SchemaVersion[h]
                                 THEN h ELSE by_key[<<t, u>>]
        BY <1>2, <2>1 DEF Register, RegistryInv, RegistryTypeOK
    <2>3. CASE t = EventType[h] /\ SchemaVersion[h] <= v
        <3>1. SchemaVersion[h] \in Supported(t, v)'
            <4>1. SchemaVersion[h] \in 0..v
                BY <2>1, <2>3
            <4>2. by_key'[<<t, SchemaVersion[h]>>] = h
                BY <2>1, <2>2, <2>3
            <4> QED BY <2>1, <4>1, <4>2 DEF Supported
        <3>2. PICK w \in Versions : IsNewest(t, v, w)' /\ Resolve(t, v)' = by_key'[<<t, w>>]
            BY <1>1, <1>2, <3>1
        <3>3. CASE w = SchemaVersion[h]
            BY <2>2, <2>3, <3>2, <3>3
        <3>4. CASE w # SchemaVersion[h]
            <4>1. by_key'[<<t, w>>] = by_key[<<t, w>>]
                BY <2>2, <3>4
            <4>2. IsNewest(t, v, w)
                BY <2>1, <2>2, <3>2, <3>4, <4>1 DEF IsNewest, Supported
            <4>3. PICK u \in Versions : IsNewest(t, v, u) /\ Resolve(t, v) = by_key[<<t, u>>]
                BY <1>2, <4>2 DEF ResolvesToNewest, IsNewest
            <4>4. u = w
                BY <2>1, <4>2, <4>3 DEF IsNewest
            <4> QED BY <3>2, <4>1, <4>3, <4>4
        <3> QED BY <3>3, <3>4
    <2>4. CASE ~(t = EventType[h] /\ SchemaVersion[h] <= v)
        <3>1. \A u \in 0..v : by_key'[<<t, u>>] = by_key[<<t, u>>]
            BY <2>1, <2>2, <2>4
        <3>2. Supported(t, v)' = Supported(t, v)
            BY <3>1 DEF Supported
        <3>3. CASE Supported(t, v) = {}
            BY <1>1, <1>2, <3>2, <3>3 DEF ResolvesToNewest
        <3>4. CASE Supported(t, v) # {}
            <4>1. PICK w \in Versions : IsNewest(t, v, w)' /\ Resolve(t, v)' = by_key'[<<t, w>>]
                BY <1>1, <1>2, <3>2, <3>4
            <4>2. PICK u \in Versions : IsNewest(t, v, u) /\ Resolve(t, v) = by_key[<<t, u>>]
                BY <1>2, <3>4 DEF ResolvesToNewest
            <4>3. u = w /\ w \in 0..v
                BY <2>1, <3>2, <4>1, <4>2 DEF IsNewest, Supported
            <4> QED BY <3>1, <4>1, <4>2, <4>3
        <3> QED BY <3>3, <3>4
    <2> QED BY <2>3, <2>4
<1>3. RegistryInv /\ ResolvesToNewest /\ ResolvesToNewest' =>
         [\A h \in Handlers : Register(h) =>
             \A t \in Types, v \in Versions :
                 \/ Resolve(t, v)' = Resolve(t, v)
                 \/ /\ Resolve(t, v)' = h
                    /\ t = EventType[h] /\ SchemaVersion[h] <= v]_vars
    BY <1>2
<1> QED BY <1>3, ListFindsNewest, RegistryInvariant, PTL DEF RegistrationIsLocal

=============================================================================
