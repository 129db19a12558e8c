------------------------- MODULE IssueCreate_proofs -------------------------
(***************************************************************************)
(* Idempotent issue creation for any number of keys, attempts, bodies and  *)
(* legacy records, and any retention: the statements of the transactions,  *)
(* their rollbacks, lost replies and cleanups in every interleaving.       *)
(***************************************************************************)
EXTENDS IssueCreate, SequenceTheorems, TLAPS

Open == {"checking", "writing"}

Birth == [key : Keys, body : Bodies, at : Nat, expires : Nat]

\* A transaction that is past its reservation holds its key, which has no
\* record, and nobody else's.
KeysAreHeld ==
    /\ \A k \in Keys : holder[k] # None =>
         stage[holder[k]] \in Open /\ request[holder[k]].key = k /\ records[k] = None
    /\ \A a \in Attempts : stage[a] \in Open => holder[request[a].key] = a

\* The three tables hold the issues that were born, and an attempt's issue
\* is born when and only when its commit is what it is told, or was to be.
TablesAgree ==
    /\ born \in [DOMAIN born -> Birth]
    /\ \A t \in Tables : tables[t] = DOMAIN born
    /\ \A a \in Attempts :
         /\ a \in DOMAIN born => reply[a].kind \in {"created", "lost"}
         /\ reply[a].kind = "created" => a \in DOMAIN born /\ reply[a].issue = a
         /\ reply[a].kind = "none" <=> stage[a] # "done"

\* A record tells of the issue that it was committed with.
RecordsTell ==
    \A k \in Keys : records[k] # None =>
        LET i == records[k].issue
        IN  /\ i \in DOMAIN born /\ born[i].key = k
            /\ records[k].expires = born[i].expires
            /\ records[k].fingerprint = IF i \in Attempts THEN Fingerprint(born[i].body)
                                                          ELSE OldFingerprint(born[i].body)

\* An issue that is not on record any more has expired, and been retained.
UnrecordedHaveExpired ==
    \A i \in DOMAIN born :
        \/ records[born[i].key] # None /\ records[born[i].key].issue = i
        \/ born[i].expires + Retention < clock

CreateInv ==
    /\ TypeOK /\ KeysAreHeld /\ TablesAgree /\ RecordsTell
    /\ UnrecordedHaveExpired /\ OneIssuePerKey /\ ReplaysAreFaithful

-----------------------------------------------------------------------------
LEMMA Constant ==
    /\ KeepFor \in Nat /\ Retention \in Nat /\ MaxClock \in Nat
    /\ DOMAIN Legacy \subseteq Keys /\ Attempts \subseteq Issues
    /\ DOMAIN Legacy \intersect Attempts = {} /\ None \notin Issues
    /\ \A b \in Bodies : /\ Fingerprint(b) \in Fingerprints
                         /\ OldFingerprint(b) \in Fingerprints
BY TimesAreNaturals, LegacyIsPartial, NamesAreDistinct
   DEF Issues, Fingerprints, Fingerprint, OldFingerprint

LEMMA StatementsAre ==
    /\ Statements \in Seq(Tables \union {"payload"}) /\ Len(Statements) = 4
    /\ Statements[1] = "issue" /\ Statements[2] = "activity"
    /\ Statements[3] = "outbox" /\ Statements[4] = "payload"
BY DEF Statements, Tables

\* Writing goes on where it was.
LEMMA WritingGoesOn ==
    ASSUME TypeOK, NEW a \in Attempts, Len(written[a]) < Len(Statements)
    PROVE  LET next == Append(written[a], Statements[Len(written[a]) + 1])
           IN  /\ next \in Seq(Tables \union {"payload"})
               /\ next = SubSeq(Statements, 1, Len(next))
<1> DEFINE E == Tables \union {"payload"}
           n == Len(written[a]) + 1
           next == Append(written[a], Statements[n])
<1>1. /\ written[a] \in Seq(E) /\ Len(written[a]) \in Nat
      /\ written[a] = SubSeq(Statements, 1, Len(written[a]))
    BY LenProperties DEF TypeOK
<1>2. Statements \in Seq(E) /\ n \in 1 .. Len(Statements) /\ 1 \in 1 .. Len(Statements)
      /\ n - 1 = Len(written[a]) /\ n \in 1 .. Len(Statements)
    BY <1>1, StatementsAre
<1>3. Statements[n] \in E
    BY <1>2, ElementOfSeq
<1>4. /\ next \in Seq(E) /\ Len(next) = n /\ next = written[a] \o <<Statements[n]>>
    BY <1>1, <1>3, AppendProperties, AppendIsConcat
<1>5. SubSeq(Statements, 1, n) = SubSeq(Statements, 1, n - 1) \o <<Statements[n]>>
    BY <1>2, SubSeqRecursiveSecond
<1> QED BY <1>1, <1>2, <1>4, <1>5

\* A transaction that has executed every statement has written every row.
LEMMA AllIsWritten ==
    ASSUME TypeOK, NEW a \in Attempts, Len(written[a]) = Len(Statements)
    PROVE  Wrote(a, "payload") /\ \A t \in Tables : Wrote(a, t)
<1>1. written[a] = Statements
    BY StatementsAre, SubSeqFull DEF TypeOK
<1>2. DOMAIN Statements = 1 .. 4
    BY StatementsAre, LenProperties
<1>3. 1 \in DOMAIN written[a] /\ 2 \in DOMAIN written[a]
      /\ 3 \in DOMAIN written[a] /\ 4 \in DOMAIN written[a]
    BY <1>1, <1>2
<1> QED BY <1>1, <1>3, StatementsAre DEF Wrote, Tables

-----------------------------------------------------------------------------
(* Steps that put nothing on record and take nothing off it.               *)

\* The table's history is as it was, and an attempt that is newly answered
\* with a replay was answered in faith.
LEMMA NothingBorn ==
    ASSUME CreateInv, UNCHANGED <<records, tables, born>>,
           clock' \in Nat, clock <= clock',
           TypeOK', KeysAreHeld',
           \A a \in Attempts : stage[a] # "unborn" => request'[a] = request[a],
           \A a \in Attempts :
              \/ reply'[a] = reply[a] /\ (stage'[a] = "done" <=> stage[a] = "done")
              \/ /\ stage[a] \notin {"unborn", "done"} /\ stage'[a] = "done"
                 /\ reply'[a].kind \notin {"created", "none"}
                 /\ reply'[a].kind = "replay" =>
                      LET i == reply'[a].issue
                      IN  /\ i \in DOMAIN born /\ born[i].key = request[a].key
                          /\ \/ born[i].body = request[a].body
                             \/ /\ i \in DOMAIN Legacy
                                /\ LegacyText[born[i].body] = LegacyText[request[a].body]
    PROVE  CreateInv'
<1>1. TablesAgree'
    <2>1. \A a \in Attempts : stage[a] # "done" => a \notin DOMAIN born
        BY DEF CreateInv, TablesAgree
    <2> QED BY <2>1 DEF CreateInv, TablesAgree
<1>2. RecordsTell'
    BY DEF CreateInv, RecordsTell
<1>3. UnrecordedHaveExpired'
    <2> SUFFICES ASSUME NEW i \in DOMAIN born,
                        ~(records[born[i].key] # None /\ records[born[i].key].issue = i)
                 PROVE  born[i].expires + Retention < clock'
        BY DEF UnrecordedHaveExpired
    <2>1. born[i].expires + Retention < clock /\ born[i].expires \in Nat
        BY DEF CreateInv, UnrecordedHaveExpired, TablesAgree, Birth
    <2>2. clock \in Nat
        BY Constant DEF CreateInv, TypeOK
    <2> QED BY <2>1, <2>2, Constant
<1>4. OneIssuePerKey'
    BY DEF CreateInv, OneIssuePerKey
<1>5. ReplaysAreFaithful'
    <2> SUFFICES ASSUME NEW a \in Attempts, reply'[a].kind = "replay"
                 PROVE  LET i == reply'[a].issue
                        IN  /\ i \in tables["issue"]
                            /\ born[i].key = request'[a].key
                            /\ \/ born[i].body = request'[a].body
                               \/ /\ i \in DOMAIN Legacy
                                  /\ LegacyText[born[i].body] = LegacyText[request'[a].body]
        BY DEF ReplaysAreFaithful
    <2>1. tables["issue"] = DOMAIN born
        BY DEF CreateInv, TablesAgree, Tables
    <2>2. CASE reply'[a] = reply[a]
        <3>1. stage[a] = "done"
            BY <2>2 DEF CreateInv, TablesAgree
        <3> QED BY <2>2, <3>1 DEF CreateInv, ReplaysAreFaithful
    <2>3. CASE reply'[a] # reply[a]
        <3>1. request'[a] = request[a]
            BY <2>3
        <3> QED BY <2>1, <2>3, <3>1
    <2> QED BY <2>2, <2>3
<1> QED BY <1>1, <1>2, <1>3, <1>4, <1>5 DEF CreateInv

LEMMA ClockIsNatural ==
    ASSUME TypeOK
    PROVE  clock \in Nat
BY Constant DEF TypeOK

LEMMA CreateProjectKeeps ==
    ASSUME CreateInv, NEW p \in Projects, CreateProject(p)
    PROVE  CreateInv'
<1>1. /\ TypeOK /\ clock \in Nat /\ clock <= clock
      /\ UNCHANGED <<records, tables, holder, stage, request, written, reply, clock, born>>
    BY ClockIsNatural DEF CreateInv, CreateProject
<1>2. TypeOK'
    BY <1>1 DEF CreateProject, TypeOK
<1>3. KeysAreHeld'
    BY <1>1 DEF CreateInv, KeysAreHeld
<1> QED BY <1>1, <1>2, <1>3, NothingBorn

LEMMA TickKeeps ==
    ASSUME CreateInv, Tick
    PROVE  CreateInv'
<1>1. /\ TypeOK /\ clock \in Nat /\ clock' = clock + 1 /\ clock < MaxClock
      /\ UNCHANGED <<records, tables, projects, holder, stage, request, written, reply, born>>
    BY ClockIsNatural DEF CreateInv, Tick
<1>2. TypeOK'
    <2>1. clock' \in 0 .. MaxClock
        BY <1>1, Constant
    <2> QED BY <1>1, <2>1 DEF TypeOK
<1>3. KeysAreHeld'
    BY <1>1 DEF CreateInv, KeysAreHeld
<1> QED BY <1>1, <1>2, <1>3, NothingBorn

LEMMA BeginKeeps ==
    ASSUME CreateInv, NEW a \in Attempts, NEW k \in Keys, NEW body \in Bodies,
           Begin(a, k, body)
    PROVE  CreateInv'
<1> DEFINE r == [key |-> k, body |-> body, expires |-> clock + KeepFor]
<1>1. /\ TypeOK /\ clock \in Nat /\ clock <= clock /\ stage[a] = "unborn"
      /\ stage' = [stage EXCEPT ![a] = "reserving"] /\ request' = [request EXCEPT ![a] = r]
      /\ UNCHANGED <<records, tables, projects, holder, written, reply, clock, born>>
    BY ClockIsNatural DEF CreateInv, Begin
<1>2. /\ r \in [key : Keys, body : Bodies, expires : Nat]
      /\ r \in [key : Keys \union {None}, body : Bodies \union {None}, expires : Nat]
    BY <1>1, Constant
<1> HIDE DEF r
<1>3. /\ \A b \in Attempts \ {a} : stage'[b] = stage[b] /\ request'[b] = request[b]
      /\ stage'[a] = "reserving" /\ request'[a] = r
    BY <1>1 DEF TypeOK
<1>4. TypeOK'
    <2>1. stage' \in [Attempts -> Stages]
        BY <1>1 DEF TypeOK, Stages
    <2>2. request' \in [Attempts -> [key : Keys \union {None}, body : Bodies \union {None},
                                     expires : Nat]]
        BY <1>1, <1>2 DEF TypeOK
    <2>3. \A b \in Attempts :
            stage'[b] = "unborn" \/ request'[b] \in [key : Keys, body : Bodies, expires : Nat]
        BY <1>2, <1>3, <1>1 DEF TypeOK
    <2> QED BY <1>1, <2>1, <2>2, <2>3 DEF TypeOK
<1>5. KeysAreHeld'
    <2>1. \A l \in Keys : holder[l] # None => holder[l] # a /\ holder[l] \in Attempts
        <3>1. \A l \in Keys : holder[l] \in Attempts \union {None}
            BY <1>1 DEF TypeOK
        <3>2. \A l \in Keys : holder[l] # None => stage[holder[l]] \in Open
            BY DEF CreateInv, KeysAreHeld
        <3> QED BY <1>1, <3>1, <3>2 DEF Open
    <2>2. \A b \in Attempts : stage'[b] \in Open => b # a
        BY <1>3 DEF Open
    <2> QED BY <1>1, <1>3, <2>1, <2>2 DEF CreateInv, KeysAreHeld
<1>6. \A b \in Attempts : reply'[b] = reply[b] /\ (stage'[b] = "done" <=> stage[b] = "done")
    BY <1>1, <1>3
<1>7. \A b \in Attempts : stage[b] # "unborn" => request'[b] = request[b]
    BY <1>1, <1>3
<1> QED BY <1>1, <1>4, <1>5, <1>6, <1>7, NothingBorn

\* What an answer that closes an attempt leaves behind.
LEMMA Answered ==
    ASSUME TypeOK, NEW a \in Attempts, NEW kind, NEW issue, Answer(a, kind, issue),
           [kind |-> kind, issue |-> issue] \in Replies
    PROVE  /\ reply' \in [Attempts -> Replies] /\ stage' \in [Attempts -> Stages]
           /\ reply'[a].kind = kind /\ reply'[a].issue = issue /\ stage'[a] = "done"
           /\ \A b \in Attempts \ {a} : reply'[b] = reply[b] /\ stage'[b] = stage[b]
BY DEF TypeOK, Answer, Stages

LEMMA RepliesAre ==
    /\ \A kind \in {"none", "lost"} \union Errors : [kind |-> kind, issue |-> None] \in Replies
    /\ \A i \in Issues : /\ [kind |-> "created", issue |-> i] \in Replies
                         /\ [kind |-> "replay", issue |-> i] \in Replies
BY DEF Replies

\* A rollback frees the key of its transaction and no other.
LEMMA RollbackKeeps ==
    ASSUME CreateInv, NEW a \in Attempts, stage[a] \in {"reserving", "checking", "writing"},
           NEW kind \in {"lost"} \union Errors,
           Answer(a, kind, None), Rollback(a)
    PROVE  CreateInv'
<1>1. /\ TypeOK /\ clock \in Nat /\ clock <= clock
      /\ UNCHANGED <<records, tables, projects, request, clock, born>>
      /\ holder' = [k \in Keys |-> IF holder[k] = a THEN None ELSE holder[k]]
      /\ written' = [written EXCEPT ![a] = <<>>]
    BY ClockIsNatural DEF CreateInv, Rollback
<1>2. /\ reply' \in [Attempts -> Replies] /\ stage' \in [Attempts -> Stages]
      /\ reply'[a].kind = kind /\ stage'[a] = "done"
      /\ \A b \in Attempts \ {a} : reply'[b] = reply[b] /\ stage'[b] = stage[b]
    BY <1>1, Answered, RepliesAre
<1>3. TypeOK'
    <2>1. holder' \in [Keys -> Attempts \union {None}]
        BY <1>1 DEF TypeOK
    <2>2. <<>> \in Seq(Tables \union {"payload"}) /\ <<>> = SubSeq(Statements, 1, Len(<<>>))
        BY EmptySeq, SubSeqEmpty
    <2>3. /\ written' \in [Attempts -> Seq(Tables \union {"payload"})]
          /\ \A b \in Attempts : written'[b] = SubSeq(Statements, 1, Len(written'[b]))
        BY <1>1, <2>2 DEF TypeOK
    <2>4. \A b \in Attempts :
            stage'[b] = "unborn" \/ request'[b] \in [key : Keys, body : Bodies, expires : Nat]
        BY <1>1, <1>2 DEF TypeOK
    <2> QED BY <1>1, <1>2, <2>1, <2>3, <2>4 DEF TypeOK
<1>4. KeysAreHeld'
    <2>1. \A k \in Keys : holder'[k] # None => holder'[k] = holder[k] /\ holder[k] # a
        BY <1>1
    <2>2. \A b \in Attempts \ {a} : stage[b] \in Open => holder'[request[b].key] = b
        <3>1. \A b \in Attempts : stage[b] \in Open => request[b].key \in Keys
            BY <1>1 DEF TypeOK, Open
        <3> QED BY <1>1, <3>1 DEF CreateInv, KeysAreHeld
    <2>3. \A k \in Keys : holder[k] \in Attempts \union {None}
        BY <1>1 DEF TypeOK
    <2>4. stage'[a] \notin Open
        BY <1>2 DEF Open
    <2> QED BY <1>1, <1>2, <2>1, <2>2, <2>3, <2>4 DEF CreateInv, KeysAreHeld
<1>5. \A b \in Attempts :
        \/ reply'[b] = reply[b] /\ (stage'[b] = "done" <=> stage[b] = "done")
        \/ /\ stage[b] \notin {"unborn", "done"} /\ stage'[b] = "done"
           /\ reply'[b].kind \notin {"created", "none", "replay"}
    BY <1>2 DEF Errors
<1> QED BY <1>1, <1>3, <1>4, <1>5, NothingBorn

LEMMA CheckKeeps ==
    ASSUME CreateInv, NEW a \in Attempts, Check(a)
    PROVE  CreateInv'
<1>1. Refusal(request[a].body) \in {"none"} \union Errors
    BY DEF Refusal, Errors
<1>2. CASE Refusal(request[a].body) # "none"
    BY <1>1, <1>2, RollbackKeeps DEF Check
<1>3. CASE Refusal(request[a].body) = "none"
    <2>1. /\ TypeOK /\ clock \in Nat /\ clock <= clock /\ stage[a] = "checking"
          /\ stage' = [stage EXCEPT ![a] = "writing"]
          /\ UNCHANGED <<records, tables, projects, holder, request, written, reply, clock, born>>
        BY <1>3, ClockIsNatural DEF CreateInv, Check
    <2>2. /\ stage' \in [Attempts -> Stages] /\ stage'[a] = "writing"
          /\ \A b \in Attempts \ {a} : stage'[b] = stage[b]
        BY <2>1 DEF TypeOK, Stages
    <2>3. TypeOK'
        <3>1. \A b \in Attempts :
                stage'[b] = "unborn" \/ request[b] \in [key : Keys, body : Bodies, expires : Nat]
            BY <2>1, <2>2 DEF TypeOK
        <3> QED BY <2>1, <2>2, <3>1 DEF TypeOK
    <2>4. KeysAreHeld'
        <3>1. \A b \in Attempts : stage'[b] \in Open <=> stage[b] \in Open
            BY <2>1, <2>2 DEF Open
        <3>2. \A k \in Keys : holder[k] \in Attempts \union {None}
            BY <2>1 DEF TypeOK
        <3> QED BY <2>1, <3>1, <3>2 DEF CreateInv, KeysAreHeld
    <2>5. \A b \in Attempts : reply'[b] = reply[b] /\ (stage'[b] = "done" <=> stage[b] = "done")
        BY <2>1, <2>2
    <2> QED BY <2>1, <2>3, <2>4, <2>5, NothingBorn
<1> QED BY <1>2, <1>3

LEMMA WriteKeeps ==
    ASSUME CreateInv, NEW a \in Attempts, Write(a)
    PROVE  CreateInv'
<1>1. /\ TypeOK /\ clock \in Nat /\ clock <= clock
      /\ written' = [written EXCEPT ![a] = Append(@, Statements[Len(@) + 1])]
      /\ Len(written[a]) < Len(Statements)
      /\ UNCHANGED <<records, tables, projects, holder, stage, request, reply, clock, born>>
    BY ClockIsNatural DEF CreateInv, Write
<1> DEFINE next == Append(written[a], Statements[Len(written[a]) + 1])
<1>2. /\ next \in Seq(Tables \union {"payload"})
      /\ next = SubSeq(Statements, 1, Len(next))
    BY <1>1, WritingGoesOn
<1>3. /\ written'[a] = next /\ \A b \in Attempts \ {a} : written'[b] = written[b]
      /\ written' = [written EXCEPT ![a] = next]
    BY <1>1 DEF TypeOK
<1> HIDE DEF next
<1>4. /\ written' \in [Attempts -> Seq(Tables \union {"payload"})]
      /\ \A b \in Attempts : written'[b] = SubSeq(Statements, 1, Len(written'[b]))
    BY <1>1, <1>2, <1>3 DEF TypeOK
<1>5. TypeOK'
    BY <1>1, <1>4 DEF TypeOK
<1>6. KeysAreHeld'
    BY <1>1 DEF CreateInv, KeysAreHeld
<1> QED BY <1>1, <1>5, <1>6, NothingBorn

LEMMA LoseKeeps ==
    ASSUME CreateInv, NEW a \in Attempts, Lose(a)
    PROVE  CreateInv'
BY RollbackKeeps DEF Lose

\* The key is free, or its record answers the request.
LEMMA ReserveKeeps ==
    ASSUME CreateInv, NEW a \in Attempts, Reserve(a)
    PROVE  CreateInv'
<1> DEFINE k == request[a].key
           stored == records[k]
<1>1. /\ TypeOK /\ clock \in Nat /\ clock <= clock
      /\ stage[a] = "reserving" /\ holder[k] = None
      /\ UNCHANGED <<records, tables, projects, request, written, clock, born>>
    BY ClockIsNatural DEF CreateInv, Reserve
<1>2. request[a] \in [key : Keys, body : Bodies, expires : Nat] /\ k \in Keys
    BY <1>1 DEF TypeOK
<1>3. CASE stored = None
    <2>1. /\ holder' = [holder EXCEPT ![k] = a] /\ stage' = [stage EXCEPT ![a] = "checking"]
          /\ reply' = reply
        BY <1>3 DEF Reserve
    <2>2. /\ stage' \in [Attempts -> Stages] /\ stage'[a] = "checking"
          /\ \A b \in Attempts \ {a} : stage'[b] = stage[b]
          /\ holder' \in [Keys -> Attempts \union {None}] /\ holder'[k] = a
          /\ \A l \in Keys \ {k} : holder'[l] = holder[l]
        BY <1>1, <1>2, <2>1 DEF TypeOK, Stages
    <2>3. TypeOK'
        <3>1. \A b \in Attempts :
                stage'[b] = "unborn" \/ request[b] \in [key : Keys, body : Bodies, expires : Nat]
            BY <1>1, <1>2, <2>2 DEF TypeOK
        <3> QED BY <1>1, <2>1, <2>2, <3>1 DEF TypeOK
    <2>4. KeysAreHeld'
        <3>1. \A l \in Keys : holder[l] # None => holder[l] \in Attempts /\ holder[l] # a
            <4>1. \A l \in Keys : holder[l] \in Attempts \union {None}
                BY <1>1 DEF TypeOK
            <4>2. \A l \in Keys : holder[l] # None => stage[holder[l]] \in Open
                BY DEF CreateInv, KeysAreHeld
            <4> QED BY <1>1, <4>1, <4>2 DEF Open
        <3>2. \A l \in Keys : holder'[l] # None =>
                stage'[holder'[l]] \in Open /\ request[holder'[l]].key = l /\ records[l] = None
            BY <1>3, <2>2, <3>1 DEF CreateInv, KeysAreHeld, Open
        <3>3. \A b \in Attempts \ {a} : stage[b] \in Open => holder'[request[b].key] = b
            <4>1. \A b \in Attempts : stage[b] \in Open =>
                    request[b].key \in Keys /\ holder[request[b].key] = b
                BY <1>1 DEF TypeOK, Open, CreateInv, KeysAreHeld
            <4>2. None \notin Attempts
                BY Constant
            <4> QED BY <1>1, <2>2, <4>1, <4>2
        <3> QED BY <1>1, <2>2, <3>2, <3>3 DEF KeysAreHeld
    <2>5. \A b \in Attempts : reply'[b] = reply[b] /\ (stage'[b] = "done" <=> stage[b] = "done")
        BY <1>1, <2>1, <2>2
    <2> QED BY <1>1, <2>3, <2>4, <2>5, NothingBorn
<1>4. CASE stored # None
    <2> DEFINE kind == IF Matches(stored.fingerprint, request[a].body) THEN "replay" ELSE "conflict"
               issue == IF Matches(stored.fingerprint, request[a].body) THEN stored.issue ELSE None
    <2>1. Answer(a, kind, issue) /\ holder' = holder
        BY <1>4 DEF Reserve
    <2>2. /\ stored.issue \in DOMAIN born /\ born[stored.issue].key = k
          /\ stored.fingerprint = IF stored.issue \in Attempts
                                  THEN Fingerprint(born[stored.issue].body)
                                  ELSE OldFingerprint(born[stored.issue].body)
          /\ stored.issue \in Issues
        BY <1>1, <1>2, <1>4 DEF CreateInv, RecordsTell, TypeOK
    <2>3. [kind |-> kind, issue |-> issue] \in Replies
        BY <2>2, RepliesAre DEF Errors
    <2>4. kind = "replay" =>
            /\ issue = stored.issue
            /\ \/ born[issue].body = request[a].body
               \/ /\ issue \in DOMAIN Legacy
                  /\ LegacyText[born[issue].body] = LegacyText[request[a].body]
        <3> SUFFICES ASSUME Matches(stored.fingerprint, request[a].body)
                     PROVE  \/ born[stored.issue].body = request[a].body
                            \/ /\ stored.issue \in DOMAIN Legacy
                               /\ LegacyText[born[stored.issue].body] = LegacyText[request[a].body]
            OBVIOUS
        <3>1. CASE stored.issue \in Attempts
            BY <2>2, <3>1 DEF Matches, Fingerprint, OldFingerprint
        <3>2. CASE stored.issue \in DOMAIN Legacy
            BY <2>2, <3>2, Constant DEF Matches, Fingerprint, OldFingerprint
        <3> QED BY <2>2, <3>1, <3>2 DEF Issues
    <2>5. kind \notin {"created", "none"}
        OBVIOUS
    <2> HIDE DEF kind, issue
    <2>6. /\ reply' \in [Attempts -> Replies] /\ stage' \in [Attempts -> Stages]
          /\ reply'[a].kind = kind /\ reply'[a].issue = issue /\ stage'[a] = "done"
          /\ \A b \in Attempts \ {a} : reply'[b] = reply[b] /\ stage'[b] = stage[b]
        BY <1>1, <2>1, <2>3, Answered
    <2>7. TypeOK'
        <3>1. \A b \in Attempts :
                stage'[b] = "unborn" \/ request[b] \in [key : Keys, body : Bodies, expires : Nat]
            BY <1>1, <1>2, <2>6 DEF TypeOK
        <3> QED BY <1>1, <2>1, <2>6, <3>1 DEF TypeOK
    <2>8. KeysAreHeld'
        <3>1. \A b \in Attempts : stage'[b] \in Open <=> stage[b] \in Open
            BY <1>1, <2>6 DEF Open
        <3>2. \A l \in Keys : holder[l] \in Attempts \union {None}
            BY <1>1 DEF TypeOK
        <3> QED BY <1>1, <2>1, <3>1, <3>2 DEF CreateInv, KeysAreHeld
    <2>9. \A b \in Attempts :
            \/ reply'[b] = reply[b] /\ (stage'[b] = "done" <=> stage[b] = "done")
            \/ /\ stage[b] \notin {"unborn", "done"} /\ stage'[b] = "done"
               /\ reply'[b].kind \notin {"created", "none"}
               /\ reply'[b].kind = "replay" =>
                    LET i == reply'[b].issue
                    IN  /\ i \in DOMAIN born /\ born[i].key = request[b].key
                        /\ \/ born[i].body = request[b].body
                           \/ /\ i \in DOMAIN Legacy
                              /\ LegacyText[born[i].body] = LegacyText[request[b].body]
        BY <1>1, <2>2, <2>4, <2>5, <2>6
    <2> QED BY <1>1, <2>7, <2>8, <2>9, NothingBorn
<1> QED BY <1>3, <1>4

-----------------------------------------------------------------------------
(* The two steps that change what is on record.                            *)

\* Only records that are past their expiry and the retention are deleted.
LEMMA CleanupKeeps ==
    ASSUME CreateInv, CleanupIdempotency
    PROVE  CreateInv'
<1> DEFINE expired == {k \in Keys : records[k] # None /\ records[k].expires + Retention < clock}
<1>1. /\ TypeOK
      /\ records' = [k \in Keys |-> IF k \in expired THEN None ELSE records[k]]
      /\ UNCHANGED <<tables, projects, holder, stage, request, written, reply, clock, born>>
    BY DEF CreateInv, CleanupIdempotency
<1>2. \A k \in Keys : \/ records'[k] = records[k]
                      \/ records'[k] = None /\ records[k] # None
                           /\ records[k].expires + Retention < clock
    BY <1>1
<1>3. records' \in [Keys -> Record \union {None}]
    BY <1>1 DEF TypeOK
<1> HIDE DEF expired
<1>4. TypeOK'
    BY <1>1, <1>3 DEF TypeOK
<1>5. KeysAreHeld'
    BY <1>1, <1>2 DEF CreateInv, KeysAreHeld
<1>6. TablesAgree'
    BY <1>1 DEF CreateInv, TablesAgree
<1>7. RecordsTell'
    BY <1>1, <1>2 DEF CreateInv, RecordsTell
<1>8. UnrecordedHaveExpired'
    <2> SUFFICES ASSUME NEW i \in DOMAIN born,
                        ~(records'[born[i].key] # None /\ records'[born[i].key].issue = i)
                 PROVE  born[i].expires + Retention < clock
        BY <1>1 DEF UnrecordedHaveExpired
    <2>1. born[i].key \in Keys
        BY DEF CreateInv, TablesAgree, Birth
    <2>2. CASE records'[born[i].key] = records[born[i].key]
        BY <2>2 DEF CreateInv, UnrecordedHaveExpired
    <2>3. CASE records'[born[i].key] # records[born[i].key]
        <3>1. records[born[i].key] # None /\ records[born[i].key].expires + Retention < clock
            BY <1>2, <2>1, <2>3
        <3>2. records[born[i].key].issue = i => records[born[i].key].expires = born[i].expires
            BY <2>1, <3>1 DEF CreateInv, RecordsTell
        <3> QED BY <3>1, <3>2 DEF CreateInv, UnrecordedHaveExpired
    <2> QED BY <2>2, <2>3
<1>9. OneIssuePerKey' /\ ReplaysAreFaithful'
    BY <1>1 DEF CreateInv, OneIssuePerKey, ReplaysAreFaithful
<1> QED BY <1>4, <1>5, <1>6, <1>7, <1>8, <1>9 DEF CreateInv

\* What the commit makes visible.
LEMMA Committed ==
    ASSUME CreateInv, NEW a \in Attempts, Commit(a)
    PROVE  LET r == request[a]
               k == r.key
           IN  /\ r \in [key : Keys, body : Bodies, expires : Nat]
               /\ stage[a] = "writing" /\ holder[k] = a /\ records[k] = None
               /\ a \notin DOMAIN born /\ reply[a].kind = "none" /\ clock \in Nat
               /\ tables' = [t \in Tables |-> DOMAIN born \union {a}]
               /\ records' = [records EXCEPT ![k] =
                                [fingerprint |-> Fingerprint(r.body), issue |-> a,
                                 expires |-> r.expires]]
               /\ DOMAIN born' = DOMAIN born \union {a}
               /\ born'[a] = [key |-> k, body |-> r.body, at |-> clock, expires |-> r.expires]
               /\ born'[a] \in Birth
               /\ \A i \in DOMAIN born : born'[i] = born[i]
               /\ born' \in [DOMAIN born' -> Birth]
               /\ holder' = [holder EXCEPT ![k] = None]
               /\ UNCHANGED <<projects, request, written, clock>>
               /\ Answer(a, "created", a) \/ Answer(a, "lost", None)
<1> DEFINE r == request[a]
           k == r.key
           b == [key |-> k, body |-> r.body, at |-> clock, expires |-> r.expires]
<1>1. /\ TypeOK /\ clock \in Nat /\ stage[a] = "writing"
      /\ Publish(a) /\ Len(written[a]) = Len(Statements)
      /\ Answer(a, "created", a) \/ Answer(a, "lost", None)
    BY ClockIsNatural DEF CreateInv, Commit
<1>2. Wrote(a, "payload") /\ \A t \in Tables : Wrote(a, t)
    BY <1>1, AllIsWritten
<1>3. r \in [key : Keys, body : Bodies, expires : Nat]
    BY <1>1 DEF TypeOK
<1>4. holder[k] = a /\ k \in Keys /\ a # None
    BY <1>1, <1>3, Constant DEF CreateInv, KeysAreHeld, Open
<1>5. records[k] = None
    BY <1>4 DEF CreateInv, KeysAreHeld
<1>6. a \notin DOMAIN born /\ reply[a].kind = "none"
    BY <1>1 DEF CreateInv, TablesAgree
<1>7. tables' = [t \in Tables |-> DOMAIN born \union {a}]
    BY <1>1, <1>2 DEF Publish, CreateInv, TablesAgree
<1>8. records' = [records EXCEPT ![k] =
                    [fingerprint |-> Fingerprint(r.body), issue |-> a, expires |-> r.expires]]
    BY <1>1, <1>2 DEF Publish
<1>9. b \in Birth
    BY <1>1, <1>3 DEF Birth
<1> HIDE DEF b
<1>10. /\ born' = [i \in DOMAIN born \union {a} |-> IF i = a THEN b ELSE born[i]]
       /\ holder' = [holder EXCEPT ![k] = None]
       /\ UNCHANGED <<projects, request, written, clock>>
    BY <1>1 DEF Publish, b
<1>11. /\ DOMAIN born' = DOMAIN born \union {a} /\ born'[a] = b
       /\ \A i \in DOMAIN born : born'[i] = born[i]
       /\ born' \in [DOMAIN born' -> Birth]
    <2>1. \A i \in DOMAIN born : born[i] \in Birth
        BY DEF CreateInv, TablesAgree
    <2> QED BY <1>6, <1>9, <1>10, <2>1
<1> QED BY <1>1, <1>3, <1>4, <1>5, <1>6, <1>7, <1>8, <1>9, <1>10, <1>11 DEF b

LEMMA CommitKeeps ==
    ASSUME CreateInv, NEW a \in Attempts, Commit(a)
    PROVE  CreateInv'
<1> DEFINE r == request[a]
           k == r.key
           rec == [fingerprint |-> Fingerprint(r.body), issue |-> a, expires |-> r.expires]
<1>1. /\ r \in [key : Keys, body : Bodies, expires : Nat] /\ k \in Keys
      /\ stage[a] = "writing" /\ holder[k] = a /\ records[k] = None
      /\ a \notin DOMAIN born /\ reply[a].kind = "none" /\ clock \in Nat
      /\ tables' = [t \in Tables |-> DOMAIN born \union {a}]
      /\ records' = [records EXCEPT ![k] = rec]
      /\ DOMAIN born' = DOMAIN born \union {a}
      /\ born'[a] = [key |-> k, body |-> r.body, at |-> clock, expires |-> r.expires]
      /\ \A i \in DOMAIN born : born'[i] = born[i]
      /\ born' \in [DOMAIN born' -> Birth]
      /\ holder' = [holder EXCEPT ![k] = None]
      /\ UNCHANGED <<projects, request, written, clock>>
    BY Committed
<1>2. /\ TypeOK /\ \A b \in Attempts : stage[b] # "unborn" =>
                       request[b] \in [key : Keys, body : Bodies, expires : Nat]
    BY DEF CreateInv, TypeOK
<1>3. rec \in Record /\ rec # None
    BY <1>1, Constant, NoneIsNoRecord DEF Record
<1>4. /\ rec.issue = a /\ rec.expires = r.expires /\ rec.fingerprint = Fingerprint(r.body)
      /\ born'[a].key = k /\ born'[a].body = r.body /\ born'[a].at = clock
      /\ born'[a].expires = r.expires
    BY <1>1
<1> HIDE DEF rec
<1>5. /\ reply' \in [Attempts -> Replies] /\ stage' \in [Attempts -> Stages]
      /\ stage'[a] = "done"
      /\ \/ reply'[a].kind = "created" /\ reply'[a].issue = a
         \/ reply'[a].kind = "lost"
      /\ \A b \in Attempts \ {a} : reply'[b] = reply[b] /\ stage'[b] = stage[b]
    <2>1. Answer(a, "created", a) \/ Answer(a, "lost", None)
        BY Committed
    <2>2. [kind |-> "created", issue |-> a] \in Replies /\ [kind |-> "lost", issue |-> None] \in Replies
        BY Constant, RepliesAre
    <2> QED BY <1>2, <2>1, <2>2, Answered
<1>6. /\ records'[k] = rec /\ \A l \in Keys \ {k} : records'[l] = records[l]
      /\ records' \in [Keys -> Record \union {None}]
      /\ holder'[k] = None /\ \A l \in Keys \ {k} : holder'[l] = holder[l]
      /\ holder' \in [Keys -> Attempts \union {None}]
    BY <1>1, <1>2, <1>3 DEF TypeOK
<1>7. TypeOK'
    <2>1. DOMAIN born \union {a} \subseteq Issues
        BY <1>2, Constant DEF TypeOK
    <2>2. tables' \in [Tables -> SUBSET Issues]
        BY <1>1, <2>1
    <2>3. \A b \in Attempts :
            stage'[b] = "unborn" \/ request'[b] \in [key : Keys, body : Bodies, expires : Nat]
        BY <1>1, <1>2, <1>5
    <2> QED BY <1>1, <1>2, <1>5, <1>6, <2>1, <2>2, <2>3 DEF TypeOK
<1>8. KeysAreHeld'
    <2>1. \A l \in Keys \ {k} : holder[l] # None => holder[l] \in Attempts /\ holder[l] # a
        BY <1>2 DEF TypeOK, CreateInv, KeysAreHeld
    <2>2. \A l \in Keys : holder'[l] # None =>
            stage'[holder'[l]] \in Open /\ request[holder'[l]].key = l /\ records'[l] = None
        BY <1>5, <1>6, <2>1 DEF CreateInv, KeysAreHeld
    <2>3. \A b \in Attempts : stage'[b] \in Open => holder'[request[b].key] = b
        <3> SUFFICES ASSUME NEW b \in Attempts, stage'[b] \in Open
                     PROVE  holder'[request[b].key] = b
            OBVIOUS
        <3>1. b # a /\ stage[b] \in Open
            BY <1>5 DEF Open
        <3>2. holder[request[b].key] = b /\ request[b].key \in Keys
            BY <1>2, <3>1 DEF CreateInv, KeysAreHeld, Open
        <3> QED BY <1>1, <1>6, <3>1, <3>2
    <2> QED BY <1>1, <2>2, <2>3 DEF KeysAreHeld
<1>9. TablesAgree'
    <2>1. \A b \in Attempts :
            /\ b \in DOMAIN born' => reply'[b].kind \in {"created", "lost"}
            /\ reply'[b].kind = "created" => b \in DOMAIN born' /\ reply'[b].issue = b
            /\ reply'[b].kind = "none" <=> stage'[b] # "done"
        BY <1>1, <1>5 DEF CreateInv, TablesAgree
    <2> QED BY <1>1, <2>1 DEF TablesAgree
<1>10. RecordsTell'
    <2> SUFFICES ASSUME NEW l \in Keys, records'[l] # None
                 PROVE  LET i == records'[l].issue
                        IN  /\ i \in DOMAIN born' /\ born'[i].key = l
                            /\ records'[l].expires = born'[i].expires
                            /\ records'[l].fingerprint =
                                 IF i \in Attempts THEN Fingerprint(born'[i].body)
                                                   ELSE OldFingerprint(born'[i].body)
        BY DEF RecordsTell
    <2>1. CASE l = k
        BY <1>1, <1>4, <1>6, <2>1
    <2>2. CASE l # k
        BY <1>1, <1>6, <2>2 DEF CreateInv, RecordsTell
    <2> QED BY <2>1, <2>2
<1>11. \A i \in DOMAIN born : /\ i # a /\ born[i].key \in Keys
                              /\ born[i].key = k => born[i].expires + Retention < clock
    BY <1>1 DEF CreateInv, UnrecordedHaveExpired, TablesAgree, Birth
<1>12. UnrecordedHaveExpired'
    <2> SUFFICES ASSUME NEW i \in DOMAIN born',
                        ~(records'[born'[i].key] # None /\ records'[born'[i].key].issue = i)
                 PROVE  born'[i].expires + Retention < clock
        BY <1>1 DEF UnrecordedHaveExpired
    <2>1. i # a /\ i \in DOMAIN born
        BY <1>1, <1>3, <1>4, <1>6
    <2> QED BY <1>1, <1>6, <1>11, <2>1 DEF CreateInv, UnrecordedHaveExpired
<1>13. OneIssuePerKey'
    <2> SUFFICES ASSUME NEW i \in DOMAIN born', NEW j \in DOMAIN born',
                        i # j, born'[i].key = born'[j].key
                 PROVE  \/ born'[i].expires + Retention < born'[j].at
                        \/ born'[j].expires + Retention < born'[i].at
        BY DEF OneIssuePerKey
    <2>1. CASE i # a /\ j # a
        BY <1>1, <2>1 DEF CreateInv, OneIssuePerKey
    <2>2. CASE i = a
        BY <1>1, <1>4, <1>11, <2>2
    <2>3. CASE j = a
        BY <1>1, <1>4, <1>11, <2>3
    <2> QED BY <2>1, <2>2, <2>3
<1>14. ReplaysAreFaithful'
    <2> SUFFICES ASSUME NEW b \in Attempts, reply'[b].kind = "replay"
                 PROVE  LET i == reply'[b].issue
                        IN  /\ i \in tables'["issue"]
                            /\ born'[i].key = request'[b].key
                            /\ \/ born'[i].body = request'[b].body
                               \/ /\ i \in DOMAIN Legacy
                                  /\ LegacyText[born'[i].body] = LegacyText[request'[b].body]
        BY DEF ReplaysAreFaithful
    <2>1. b # a /\ reply'[b] = reply[b] /\ request'[b] = request[b]
        BY <1>1, <1>5
    <2>2. "issue" \in Tables /\ tables["issue"] = DOMAIN born
        BY DEF Tables, CreateInv, TablesAgree
    <2> QED BY <1>1, <2>1, <2>2 DEF CreateInv, ReplaysAreFaithful
<1> QED BY <1>7, <1>8, <1>9, <1>10, <1>12, <1>13, <1>14 DEF CreateInv

-----------------------------------------------------------------------------
LEMMA InitCreateInv == Init => CreateInv
<1> SUFFICES ASSUME Init PROVE CreateInv
    OBVIOUS
<1>1. \A k \in DOMAIN Legacy : /\ LegacyRecord(k) \in Record /\ LegacyRecord(k) # None
                               /\ LegacyRecord(k).issue = k
                               /\ LegacyRecord(k).expires = KeepFor
                               /\ LegacyRecord(k).fingerprint = OldFingerprint(Legacy[k])
                               /\ k \in Keys /\ Legacy[k] \in Bodies /\ k \notin Attempts
    <2>1. \A k \in DOMAIN Legacy : Legacy[k] \in Bodies /\ k \in Issues /\ k \notin Attempts
        BY LegacyIsPartial, Constant DEF Issues
    <2> QED BY <2>1, Constant, NoneIsNoRecord DEF LegacyRecord, Record
<1>2. /\ DOMAIN born = DOMAIN Legacy
      /\ \A i \in DOMAIN Legacy :
           /\ born[i] \in Birth /\ born[i].key = i /\ born[i].body = Legacy[i]
           /\ born[i].expires = KeepFor
      /\ born \in [DOMAIN born -> Birth]
    BY <1>1, Constant DEF Init, Birth
<1>3. /\ \A k \in DOMAIN Legacy : records[k] = LegacyRecord(k)
      /\ \A k \in Keys \ DOMAIN Legacy : records[k] = None
      /\ records \in [Keys -> Record \union {None}]
    BY <1>1, Constant DEF Init
<1>4. TypeOK
    <2>1. <<>> \in Seq(Tables \union {"payload"}) /\ <<>> = SubSeq(Statements, 1, Len(<<>>))
        BY EmptySeq, SubSeqEmpty
    <2>2. /\ request \in [Attempts -> [key : Keys \union {None}, body : Bodies \union {None},
                                       expires : Nat]]
          /\ reply \in [Attempts -> Replies]
        BY RepliesAre DEF Init, NoRequest
    <2>3. /\ written \in [Attempts -> Seq(Tables \union {"payload"})]
          /\ \A a \in Attempts : written[a] = SubSeq(Statements, 1, Len(written[a]))
        BY <2>1 DEF Init
    <2>4. DOMAIN born \subseteq Issues /\ tables \in [Tables -> SUBSET Issues]
        BY <1>2 DEF Init, Issues
    <2> QED BY <1>3, <2>2, <2>3, <2>4, Constant DEF Init, TypeOK, Stages
<1>5. KeysAreHeld
    BY DEF Init, KeysAreHeld, Open
<1>6. TablesAgree
    BY <1>1, <1>2 DEF Init, TablesAgree
<1>7. RecordsTell
    BY <1>1, <1>2, <1>3 DEF RecordsTell
<1>8. UnrecordedHaveExpired
    BY <1>1, <1>2, <1>3 DEF UnrecordedHaveExpired
<1>9. OneIssuePerKey
    BY <1>2 DEF OneIssuePerKey
<1>10. ReplaysAreFaithful
    BY DEF Init, ReplaysAreFaithful
<1> QED BY <1>4, <1>5, <1>6, <1>7, <1>8, <1>9, <1>10 DEF CreateInv

LEMMA NextCreateInv == CreateInv /\ [Next]_vars => CreateInv'
<1> SUFFICES ASSUME CreateInv, [Next]_vars
             PROVE  CreateInv'
    OBVIOUS
<1>1. CASE UNCHANGED vars
    BY <1>1 DEF vars, CreateInv, TypeOK, KeysAreHeld, TablesAgree, RecordsTell,
                UnrecordedHaveExpired, OneIssuePerKey, ReplaysAreFaithful
<1>2. CASE Next
    BY <1>2, CreateProjectKeeps, BeginKeeps, ReserveKeeps, CheckKeeps, WriteKeeps,
       CommitKeeps, LoseKeeps, CleanupKeeps, TickKeeps DEF Next, Proceed
<1> QED BY <1>1, <1>2

LEMMA CreateInvariant == Spec => []CreateInv
BY InitCreateInv, NextCreateInv, PTL DEF Spec

\* Rows, requests, transactions and replies have their types.
THEOREM CreationIsTyped == Spec => []TypeOK
<1>1. CreateInv => TypeOK
    BY DEF CreateInv
<1> QED BY <1>1, CreateInvariant, PTL

\* Issue, activity and outbox rows come and stay together, and exist exactly
\* for the attempts whose replies do not deny them.
THEOREM CreationIsAllOrNothing == Spec => []CreationIsAtomic
<1>1. CreateInv => CreationIsAtomic
    BY DEF CreateInv, TablesAgree, CreationIsAtomic, Errors, Tables
<1> QED BY <1>1, CreateInvariant, PTL

\* No transaction ever reads the placeholder of another one's reservation.
THEOREM RecordsNameIssues == Spec => []RecordsAreFinal
<1>1. CreateInv => RecordsAreFinal
    BY DEF CreateInv, TablesAgree, RecordsTell, RecordsAreFinal, Tables
<1> QED BY <1>1, CreateInvariant, PTL

\* A replay is of the very request, or of its v1 text if the record is of
\* the first release.
THEOREM ReplaysAreOfTheRequest == Spec => []ReplaysAreFaithful
<1>1. CreateInv => ReplaysAreFaithful
    BY DEF CreateInv
<1> QED BY <1>1, CreateInvariant, PTL

\* Two issues of one key are an expiry and a retention apart, however the
\* requests are repeated and raced.
THEOREM KeysCreateOnce == Spec => []OneIssuePerKey
<1>1. CreateInv => OneIssuePerKey
    BY DEF CreateInv
<1> QED BY <1>1, CreateInvariant, PTL

-----------------------------------------------------------------------------
(* issue.rs implements CreateOnce.                                         *)

LEMMA SaidAre ==
    ASSUME NEW r
    PROVE  /\ r.kind = "none" => Said(r) = None
           /\ r.kind = "lost" => Said(r) = "lost"
           /\ r.kind \in Errors => Said(r) = "refused"
           /\ r.kind \in {"created", "replay"} => Said(r) = r.issue
BY DEF Said, Errors

Book(k) == IF records[k] = None THEN None ELSE records[k].issue

\* What a transaction tells its caller at its end, in the terms of CreateOnce.
LEMMA AnswerTells ==
    ASSUME CreateInv, NEW a \in Attempts, stage[a] # "done",
           NEW kind, NEW issue, Answer(a, kind, issue), [kind |-> kind, issue |-> issue] \in Replies
    PROVE  Promise!Told(a, Said([kind |-> kind, issue |-> issue]))
<1> DEFINE said == [b \in Attempts |-> Said(reply[b])]
<1>1. reply \in [Attempts -> Replies] /\ reply[a].kind = "none"
    BY DEF CreateInv, TypeOK, TablesAgree
<1>2. said[a] = None
    BY <1>1, SaidAre
<1>3. reply' = [reply EXCEPT ![a] = [kind |-> kind, issue |-> issue]]
    BY DEF Answer
<1>4. [b \in Attempts |-> Said(reply'[b])]
        = [said EXCEPT ![a] = Said([kind |-> kind, issue |-> issue])]
    BY <1>1, <1>3
<1> QED BY <1>2, <1>4 DEF Promise!Told

LEMMA InitCreateOnce == Init => Promise!Init
<1> SUFFICES ASSUME Init PROVE Promise!Init
    OBVIOUS
<1>1. /\ \A k \in DOMAIN Legacy : Book(k) = k /\ k \in Keys /\ k \in Issues /\ k # None
      /\ \A k \in Keys \ DOMAIN Legacy : Book(k) = None
    <2>1. CreateInv
        BY InitCreateInv
    <2>2. \A k \in DOMAIN Legacy : k \in Keys /\ k \in Issues /\ k # None
        BY Constant DEF Issues
    <2>3. \A k \in DOMAIN Legacy : LegacyRecord(k) # None /\ LegacyRecord(k).issue = k
        <3>1. \A k \in DOMAIN Legacy : LegacyRecord(k) \in Record
            BY <2>2, LegacyIsPartial, Constant DEF LegacyRecord, Record
        <3> QED BY <3>1, NoneIsNoRecord DEF LegacyRecord
    <2>4. \A k \in DOMAIN Legacy : records[k] = LegacyRecord(k)
        BY <2>2 DEF Init
    <2>5. \A k \in Keys \ DOMAIN Legacy : records[k] = None
        BY DEF Init
    <2> QED BY <2>2, <2>3, <2>4, <2>5 DEF Book
<1>2. [k \in Keys |-> Book(k)] \in [Keys -> Issues \union {None}]
    BY <1>1
<1>3. tables["issue"] = DOMAIN Legacy
    BY DEF Init, Tables
<1>4. DOMAIN Legacy = {Book(k) : k \in Keys} \ {None}
    BY <1>1
<1>5. \A a \in Attempts : Said(reply[a]) = None
    BY SaidAre DEF Init
<1>6. DOMAIN Legacy = {[k \in Keys |-> Book(k)][l] : l \in Keys} \ {None}
    BY <1>4
<1> QED BY <1>2, <1>3, <1>5, <1>6 DEF Promise!Init, Book

\* A step that answers nobody is not seen.
LEMMA Unseen ==
    ASSUME UNCHANGED <<records, tables, reply>>
    PROVE  UNCHANGED Promise!vars
BY DEF Promise!vars

LEMMA RefusalPromise ==
    ASSUME CreateInv, NEW a \in Attempts, stage[a] # "done",
           NEW kind \in {"lost"} \union Errors, Answer(a, kind, None),
           UNCHANGED <<records, tables>>
    PROVE  Promise!Refuse(a)
<1>1. Promise!Told(a, Said([kind |-> kind, issue |-> None]))
    BY AnswerTells, RepliesAre
<1>2. Said([kind |-> kind, issue |-> None]) \in {"refused", "lost"}
    BY SaidAre
<1> QED BY <1>1, <1>2 DEF Promise!Refuse

LEMMA CheckPromise ==
    ASSUME CreateInv, NEW a \in Attempts, Check(a)
    PROVE  Promise!Next \/ UNCHANGED Promise!vars
<1>1. Refusal(request[a].body) \in {"none"} \union Errors
    BY DEF Refusal, Errors
<1>2. CASE Refusal(request[a].body) # "none"
    BY <1>1, <1>2, RefusalPromise DEF Check, Rollback, Promise!Next
<1>3. CASE Refusal(request[a].body) = "none"
    BY <1>3, Unseen DEF Check
<1> QED BY <1>2, <1>3

LEMMA ReservePromise ==
    ASSUME CreateInv, NEW a \in Attempts, Reserve(a)
    PROVE  Promise!Next \/ UNCHANGED Promise!vars
<1> DEFINE k == request[a].key
           stored == records[k]
<1>1. /\ UNCHANGED <<records, tables>> /\ stage[a] = "reserving"
      /\ k \in Keys
    BY DEF Reserve, CreateInv, TypeOK
<1>2. CASE stored = None
    BY <1>1, <1>2, Unseen DEF Reserve
<1>3. CASE stored # None /\ Matches(stored.fingerprint, request[a].body)
    <2>1. Answer(a, "replay", stored.issue)
        BY <1>3 DEF Reserve
    <2>2. stored.issue \in Issues
        BY <1>1, <1>3 DEF CreateInv, RecordsTell, TypeOK
    <2>3. Promise!Told(a, Said([kind |-> "replay", issue |-> stored.issue]))
        BY <1>1, <2>1, <2>2, AnswerTells, RepliesAre
    <2>4. Said([kind |-> "replay", issue |-> stored.issue]) = stored.issue
        BY SaidAre
    <2>5. stored.issue # None
        BY <2>2, Constant
    <2>6. Promise!Replay(a, k)
        BY <1>1, <1>3, <2>3, <2>4, <2>5 DEF Promise!Replay
    <2> QED BY <1>1, <2>6 DEF Promise!Next
<1>4. CASE stored # None /\ ~Matches(stored.fingerprint, request[a].body)
    <2>1. Answer(a, "conflict", None)
        BY <1>4 DEF Reserve
    <2>2. Promise!Refuse(a)
        BY <1>1, <2>1, RefusalPromise DEF Errors
    <2> QED BY <2>2 DEF Promise!Next
<1> QED BY <1>2, <1>3, <1>4

LEMMA CommitPromise ==
    ASSUME CreateInv, NEW a \in Attempts, Commit(a)
    PROVE  Promise!Next
<1> DEFINE r == request[a]
           k == r.key
           rec == [fingerprint |-> Fingerprint(r.body), issue |-> a, expires |-> r.expires]
           book == [l \in Keys |-> Book(l)]
<1>1. /\ k \in Keys /\ r \in [key : Keys, body : Bodies, expires : Nat]
      /\ records[k] = None /\ records' = [records EXCEPT ![k] = rec]
      /\ a \notin DOMAIN born /\ stage[a] # "done"
      /\ tables' = [t \in Tables |-> DOMAIN born \union {a}]
      /\ Answer(a, "created", a) \/ Answer(a, "lost", None)
    BY Committed
<1>2. rec \in Record /\ rec # None /\ rec.issue = a
    BY <1>1, Constant, NoneIsNoRecord DEF Record
<1> HIDE DEF rec
<1>3. tables["issue"] = DOMAIN born /\ tables'["issue"] = tables["issue"] \union {a}
    BY <1>1 DEF CreateInv, TablesAgree, Tables
<1>4. [l \in Keys |-> IF records'[l] = None THEN None ELSE records'[l].issue]
        = [book EXCEPT ![k] = a]
    <2>1. records \in [Keys -> Record \union {None}]
        BY DEF CreateInv, TypeOK
    <2>2. records'[k] = rec /\ \A l \in Keys \ {k} : records'[l] = records[l]
        BY <1>1, <2>1
    <2>3. \A l \in Keys : (IF records'[l] = None THEN None ELSE records'[l].issue)
                            = IF l = k THEN a ELSE Book(l)
        <3> TAKE l \in Keys
        <3>1. CASE l = k
            BY <1>2, <2>2, <3>1
        <3>2. CASE l # k
            BY <2>2, <3>2 DEF Book
        <3> QED BY <3>1, <3>2
    <2>4. [book EXCEPT ![k] = a] = [l \in Keys |-> IF l = k THEN a ELSE Book(l)]
        BY <1>1
    <2> QED BY <2>3, <2>4
<1>5. book[k] = None
    BY <1>1 DEF Book
<1>6. Promise!Told(a, a) \/ Promise!Told(a, "lost")
    <2>1. /\ Said([kind |-> "created", issue |-> a]) = a
          /\ Said([kind |-> "lost", issue |-> None]) = "lost"
        BY SaidAre
    <2>2. [kind |-> "created", issue |-> a] \in Replies /\ [kind |-> "lost", issue |-> None] \in Replies
        BY Constant, RepliesAre
    <2>3. CASE Answer(a, "created", a)
        BY <1>1, <2>1, <2>2, <2>3, AnswerTells
    <2>4. CASE Answer(a, "lost", None)
        BY <1>1, <2>1, <2>2, <2>4, AnswerTells
    <2> QED BY <1>1, <2>3, <2>4
<1>7. Promise!Create(a, k, a)
    BY <1>1, <1>3, <1>4, <1>5, <1>6 DEF Promise!Create, Book
<1> QED BY <1>1, <1>7, Constant DEF Promise!Next

LEMMA CleanupPromise ==
    ASSUME CreateInv, CleanupIdempotency
    PROVE  Promise!Next
<1>1. PICK expired \in SUBSET Keys :
        records' = [k \in Keys |-> IF k \in expired THEN None ELSE records[k]]
    <2> DEFINE S == {k \in Keys : records[k] # None /\ records[k].expires + Retention < clock}
    <2>1. /\ records' = [k \in Keys |-> IF k \in S THEN None ELSE records[k]]
          /\ S \in SUBSET Keys
        BY DEF CleanupIdempotency
    <2> HIDE DEF S
    <2> QED BY <2>1
<1>2. UNCHANGED <<tables, reply>>
    BY DEF CleanupIdempotency
<1>3. \A k \in Keys : (IF records'[k] = None THEN None ELSE records'[k].issue)
                        = IF k \in expired THEN None ELSE Book(k)
    BY <1>1 DEF Book
<1>4. [k \in Keys |-> IF records'[k] = None THEN None ELSE records'[k].issue]
        = [k \in Keys |-> IF k \in expired THEN None ELSE [l \in Keys |-> Book(l)][k]]
    BY <1>3
<1>5. Promise!Forget(expired)
    BY <1>2, <1>4 DEF Promise!Forget, Book
<1> QED BY <1>5 DEF Promise!Next

LEMMA NextCreateOnce ==
    ASSUME CreateInv, [Next]_vars
    PROVE  [Promise!Next]_(Promise!vars)
<1>1. CASE UNCHANGED vars
    BY <1>1, Unseen DEF vars
<1>2. CASE \E p \in Projects : CreateProject(p)
    BY <1>2, Unseen DEF CreateProject
<1>3. CASE \E a \in Attempts, k \in Keys, body \in Bodies : Begin(a, k, body)
    BY <1>3, Unseen DEF Begin
<1>4. ASSUME NEW a \in Attempts, Proceed(a)
      PROVE  Promise!Next \/ UNCHANGED Promise!vars
    <2>1. CASE Write(a)
        BY <2>1, Unseen DEF Write
    <2> QED BY <1>4, <2>1, ReservePromise, CheckPromise, CommitPromise DEF Proceed
<1>5. ASSUME NEW a \in Attempts, Lose(a)
      PROVE  Promise!Next
    BY <1>5, RefusalPromise DEF Lose, Rollback, Promise!Next
<1>6. CASE CleanupIdempotency
    BY <1>6, CleanupPromise
<1>7. CASE Tick
    BY <1>7, Unseen DEF Tick
<1> QED BY <1>1, <1>2, <1>3, <1>4, <1>5, <1>6, <1>7 DEF Next

\* Interleaved statements, rollbacks and lost replies amount to creations
\* and records that appear in one instant.
THEOREM CreationKeepsPromise == Spec => CreatesOnce
<1>1. CreateInv /\ [Next]_vars => [Promise!Next]_(Promise!vars)
    BY NextCreateOnce
<1> QED BY <1>1, InitCreateOnce, CreateInvariant, PTL DEF Spec, CreatesOnce, Promise!Spec

-----------------------------------------------------------------------------
\* An issue is born with the key and the body of its attempt.
BornAsAsked ==
    \A a \in Attempts : a \in DOMAIN born =>
        born[a].key = request[a].key /\ born[a].body = request[a].body

LEMMA BornAsAskedInvariant == Spec => [](CreateInv /\ BornAsAsked)
<1>1. Init => BornAsAsked
    BY Constant DEF Init, BornAsAsked
<1>2. CreateInv /\ BornAsAsked /\ [Next]_vars => BornAsAsked'
    <2> SUFFICES ASSUME CreateInv, BornAsAsked, [Next]_vars,
                        NEW a \in Attempts, a \in DOMAIN born'
                 PROVE  born'[a].key = request'[a].key /\ born'[a].body = request'[a].body
        BY DEF BornAsAsked
    <2>1. a \in DOMAIN born => stage[a] = "done"
        BY DEF CreateInv, TablesAgree
    <2>2. stage[a] # "unborn" => request'[a] = request[a]
        <3>1. ASSUME NEW b \in Attempts, NEW k \in Keys, NEW body \in Bodies, Begin(b, k, body)
              PROVE  stage[a] # "unborn" => request'[a] = request[a]
            BY <3>1 DEF Begin, CreateInv, TypeOK
        <3>2. \/ UNCHANGED request
              \/ \E b \in Attempts, k \in Keys, body \in Bodies : Begin(b, k, body)
            BY DEF Next, Proceed, CreateProject, Reserve, Check, Write, Commit, Publish, Lose,
                   Rollback, CleanupIdempotency, Tick, vars
        <3> QED BY <3>1, <3>2
    <2>3. CASE UNCHANGED born
        BY <2>1, <2>2, <2>3 DEF BornAsAsked
    <2>4. ASSUME NEW b \in Attempts, Commit(b)
          PROVE  born'[a].key = request'[a].key /\ born'[a].body = request'[a].body
        <3>1. /\ request' = request
              /\ born' = [i \in DOMAIN born \union {b} |->
                            IF i = b THEN [key |-> request[b].key, body |-> request[b].body,
                                           at |-> clock, expires |-> request[b].expires]
                                     ELSE born[i]]
            BY <2>4 DEF Commit, Publish
        <3>2. CASE a = b
            BY <3>1, <3>2
        <3>3. CASE a # b
            <4>1. a \in DOMAIN born /\ born'[a] = born[a]
                BY <3>1, <3>3
            <4> QED BY <3>1, <4>1 DEF BornAsAsked
        <3> QED BY <3>2, <3>3
    <2>5. \/ UNCHANGED born
          \/ \E b \in Attempts : Commit(b)
        BY DEF Next, Proceed, CreateProject, Begin, Reserve, Check, Write, Lose,
               Rollback, CleanupIdempotency, Tick, vars
    <2> QED BY <2>3, <2>4, <2>5
<1> QED BY <1>1, <1>2, CreateInvariant, PTL DEF Spec

\* A caller that repeats its request, with or without an answer to the first
\* one, is told of the same issue and of nothing else, until the record has
\* expired and been retained in full: the contract of the idempotency key.
ToldOf(a) == reply[a].kind \in {"created", "replay"}

RetriesAgree ==
    \A a, b \in Attempts :
        ToldOf(a) /\ ToldOf(b) /\ request[a].key = request[b].key =>
            LET i == reply[a].issue
                j == reply[b].issue
            IN  \/ i = j
                \/ born[i].expires + Retention < born[j].at
                \/ born[j].expires + Retention < born[i].at

THEOREM RetriesAreToldTheSame == Spec => []RetriesAgree
<1>1. ASSUME CreateInv, BornAsAsked, NEW a \in Attempts, ToldOf(a)
      PROVE  reply[a].issue \in DOMAIN born /\ born[reply[a].issue].key = request[a].key
    <2>1. CASE reply[a].kind = "replay"
        BY <1>1, <2>1 DEF CreateInv, ReplaysAreFaithful, TablesAgree, Tables
    <2>2. CASE reply[a].kind = "created"
        BY <1>1, <2>2 DEF CreateInv, TablesAgree, BornAsAsked
    <2> QED BY <1>1, <2>1, <2>2 DEF ToldOf
<1>2. CreateInv /\ BornAsAsked => RetriesAgree
    BY <1>1 DEF RetriesAgree, CreateInv, OneIssuePerKey
<1> QED BY <1>2, BornAsAskedInvariant, PTL

\* A record stays as it was committed, whatever comes with its key, until a
\* cleanup takes it after its expiry and the retention: no request overwrites
\* the record of another, and no cleanup comes early.
RecordsAreKept ==
    [][\A k \in Keys : records[k] # None =>
          \/ records'[k] = records[k]
          \/ records'[k] = None /\ records[k].expires + Retention < clock]_vars

THEOREM RecordsAreKeptAsWritten == Spec => RecordsAreKept
<1>1. CreateInv /\ [Next]_vars =>
        [\A k \in Keys : records[k] # None =>
            \/ records'[k] = records[k]
            \/ records'[k] = None /\ records[k].expires + Retention < clock]_vars
    <2> SUFFICES ASSUME CreateInv, [Next]_vars, NEW k \in Keys, records[k] # None
                 PROVE  \/ records'[k] = records[k]
                        \/ records'[k] = None /\ records[k].expires + Retention < clock
        OBVIOUS
    <2>1. CASE UNCHANGED records
        BY <2>1
    <2>2. CASE CleanupIdempotency
        BY <2>2 DEF CleanupIdempotency
    <2>3. ASSUME NEW a \in Attempts, Commit(a)
          PROVE  records'[k] = records[k]
        <3>1. stage[a] \in Open
            BY <2>3 DEF Commit, Open
        <3>2. k # request[a].key
            BY <3>1, Constant DEF CreateInv, KeysAreHeld
        <3> QED BY <2>3, <3>2 DEF Commit, Publish, CreateInv, TypeOK
    <2>4. \/ UNCHANGED records \/ CleanupIdempotency
          \/ \E a \in Attempts : Commit(a)
        BY DEF Next, Proceed, CreateProject, Begin, Reserve, Check, Write, Lose, Rollback,
               Tick, vars
    <2> QED BY <2>1, <2>2, <2>3, <2>4
<1> QED BY <1>1, CreateInvariant, PTL DEF Spec, RecordsAreKept

\* No transaction executes more than its statements.
WritingEnds == \A a \in Attempts : Len(written[a]) \in 0 .. Len(Statements)

LEMMA WritingEndsInvariant == Spec => [](CreateInv /\ WritingEnds)
<1>1. Init => WritingEnds
    BY StatementsAre DEF Init, WritingEnds
<1>2. CreateInv /\ WritingEnds /\ [Next]_vars => WritingEnds'
    <2> SUFFICES ASSUME CreateInv, WritingEnds, [Next]_vars, NEW a \in Attempts
                 PROVE  Len(written'[a]) \in 0 .. Len(Statements)
        BY DEF WritingEnds
    <2>1. Len(written[a]) \in 0 .. Len(Statements)
        BY DEF WritingEnds
    <2>2. ASSUME NEW b \in Attempts, Write(b)
          PROVE  Len(written'[a]) \in 0 .. Len(Statements)
        <3>1. /\ written' = [written EXCEPT ![b] = Append(@, Statements[Len(@) + 1])]
              /\ Len(written[b]) < Len(Statements)
            BY <2>2 DEF Write
        <3>2. CASE a = b
            <4>1. written[a] \in Seq(Tables \union {"payload"})
                BY DEF CreateInv, TypeOK
            <4>2. written'[a] = Append(written[a], Statements[Len(written[a]) + 1])
                BY <3>1, <3>2 DEF CreateInv, TypeOK
            <4>3. Len(written'[a]) = Len(written[a]) + 1
                BY <4>1, <4>2
            <4> QED BY <2>1, <3>1, <3>2, <4>3, StatementsAre
        <3>3. CASE a # b
            BY <2>1, <3>1, <3>3 DEF CreateInv, TypeOK
        <3> QED BY <3>2, <3>3
    <2>3. ASSUME NEW b \in Attempts, Rollback(b)
          PROVE  Len(written'[a]) \in 0 .. Len(Statements)
        <3>1. written'[a] = written[a] \/ written'[a] = <<>>
            BY <2>3 DEF Rollback, CreateInv, TypeOK
        <3> QED BY <2>1, <3>1, StatementsAre
    <2>4. \/ UNCHANGED written
          \/ \E b \in Attempts : Write(b) \/ Rollback(b)
        BY DEF Next, Proceed, CreateProject, Begin, Reserve, Check, Commit, Publish, Lose,
               CleanupIdempotency, Tick, vars
    <2> QED BY <2>1, <2>2, <2>3, <2>4
<1> QED BY <1>1, <1>2, CreateInvariant, PTL DEF Spec

\* The key that an attempt waits for is held by a transaction that waits for
\* nothing, and no transaction is past its last statement, where neither Write
\* nor Commit could take it on: what EveryAttemptIsAnswered rests on, for any
\* number of attempts and keys.
NobodyIsStuck ==
    \A a \in Attempts :
        /\ stage[a] = "reserving" /\ holder[request[a].key] # None =>
              stage[holder[request[a].key]] \in {"checking", "writing"}
        /\ stage[a] = "writing" => Len(written[a]) \in 0 .. Len(Statements)

THEOREM HoldersAreNotWaiting == Spec => []NobodyIsStuck
<1>1. CreateInv /\ WritingEnds => NobodyIsStuck
    <2> SUFFICES ASSUME CreateInv, WritingEnds, NEW a \in Attempts
                 PROVE  /\ stage[a] = "reserving" /\ holder[request[a].key] # None =>
                              stage[holder[request[a].key]] \in {"checking", "writing"}
                        /\ Len(written[a]) \in 0 .. Len(Statements)
        BY DEF NobodyIsStuck
    <2>1. stage[a] = "reserving" => request[a].key \in Keys
        BY DEF CreateInv, TypeOK
    <2>2. stage[a] = "reserving" /\ holder[request[a].key] # None =>
             stage[holder[request[a].key]] \in {"checking", "writing"}
        <3>1. \A k \in Keys : holder[k] # None => stage[holder[k]] \in Open
            BY DEF CreateInv, KeysAreHeld
        <3> QED BY <2>1, <3>1 DEF Open
    <2>3. Len(written[a]) \in 0 .. Len(Statements)
        BY DEF WritingEnds
    <2> QED BY <2>2, <2>3
<1> QED BY <1>1, WritingEndsInvariant, PTL

=============================================================================
