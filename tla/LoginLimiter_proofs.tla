------------------------ MODULE LoginLimiter_proofs ------------------------
(* What LoginLimiter promises, for any number of clients, accounts and     *)
(* requests, any size of the table and any number of slots.                *)
EXTENDS LoginLimiter, FiniteSetTheorems, TLAPS

\* What holds of the entry of a key with n requests under way.
EntryOK(e, n) ==
  /\ e.block <= e.window
  /\ e.failures < Limit => e.block = 0 /\ e.streak <= e.failures
  /\ e.block = 0 => e.streak < Limit
  /\ e.block > 0 => e.streak + n <= Limit - 1 + Cardinality(Requests)

EntriesOK == \A k \in DOMAIN attempts : EntryOK(attempts[k], Cardinality(Engaged(k)))

LimiterInv == LimiterTypeOK /\ TableBounded /\ SlotsAreHeld /\ EntriesOK

\* A table within its bound.
IsTable(t) ==
  /\ DOMAIN t \in SUBSET Keys
  /\ t \in [DOMAIN t -> Attempt]
  /\ Cardinality(DOMAIN t) <= MaxTracked

\* u is t with a failure of k counted, if there was room.
Records(t, k, u) ==
  /\ DOMAIN u = DOMAIN t \/ DOMAIN u = DOMAIN t \cup {k}
  /\ k \in DOMAIN u => u[k] = Failure(t, k)
  /\ \A j \in DOMAIN t : j # k => u[j] = t[j]

-----------------------------------------------------------------------------
(* Counting.                                                               *)

LEMMA Finite ==
  ASSUME LimiterTypeOK
  PROVE  /\ IsFiniteSet(DOMAIN attempts) /\ Cardinality(DOMAIN attempts) \in Nat
         /\ IsFiniteSet(Holders) /\ Cardinality(Holders) \in Nat
         /\ Cardinality(Requests) \in Nat
         /\ \A k : IsFiniteSet(Engaged(k)) /\ Cardinality(Engaged(k)) \in Nat
  <1>1. IsFiniteSet(DOMAIN attempts)
    BY KeyAssumption, FS_Subset DEF LimiterTypeOK
  <1>2. IsFiniteSet(Holders)
    BY KeyAssumption, FS_Subset DEF Holders
  <1>3. \A k : IsFiniteSet(Engaged(k))
    BY KeyAssumption, FS_Subset DEF Engaged
  <1> QED
    BY <1>1, <1>2, <1>3, KeyAssumption, FS_CardinalityType

\* A smaller set of requests is counted lower.
LEMMA FewerEngaged ==
  ASSUME NEW S, NEW T, IsFiniteSet(T), S \subseteq T
  PROVE  IsFiniteSet(S) /\ Cardinality(S) \in Nat /\ Cardinality(S) <= Cardinality(T)
  BY FS_Subset, FS_CardinalityType

\* Dropping entries keeps a table a table within its bound.
LEMMA ForgetSmaller ==
  ASSUME LimiterTypeOK, TableBounded, NEW K,
         attempts' = Forget(K)
  PROVE  /\ DOMAIN attempts' \subseteq DOMAIN attempts
         /\ \A k \in DOMAIN attempts' : attempts'[k] = attempts[k] /\ attempts'[k] \in Attempt
         /\ attempts' \in [DOMAIN attempts' -> Attempt]
         /\ TableBounded'
  <1>1. /\ DOMAIN attempts' = DOMAIN attempts \ K
        /\ \A k \in DOMAIN attempts' : attempts'[k] = attempts[k]
        /\ attempts' = [k \in DOMAIN attempts' |-> attempts[k]]
    BY DEF Forget
  <1>2. \A k \in DOMAIN attempts' : attempts'[k] \in Attempt
    BY <1>1 DEF LimiterTypeOK
  <1>3. Cardinality(DOMAIN attempts') \in Nat
          /\ Cardinality(DOMAIN attempts') <= Cardinality(DOMAIN attempts)
    BY <1>1, Finite, FewerEngaged
  <1>4. TableBounded'
    BY <1>3, Finite, LimitAssumption DEF TableBounded
  <1> QED
    BY <1>1, <1>2, <1>4

LEMMA SweptSmaller ==
  ASSUME NEW K, LimiterTypeOK, TableBounded, attempts' = Swept(Forget(K))
  PROVE  /\ DOMAIN attempts' \subseteq DOMAIN attempts
         /\ \A k \in DOMAIN attempts' : attempts'[k] = attempts[k] /\ attempts'[k] \in Attempt
         /\ attempts' \in [DOMAIN attempts' -> Attempt]
         /\ TableBounded'
         /\ \A k \in DOMAIN attempts \ K : attempts[k].window > 0 => k \in DOMAIN attempts'
  <1>1. PICK J : attempts' = Forget(J) /\ \A k \in J : k \in K \/ ~ attempts[k].window > 0
    <2>1. CASE Cardinality(DOMAIN Forget(K)) >= MaxTracked
      <3> DEFINE J == K \cup {k \in DOMAIN attempts : ~ attempts[k].window > 0}
      <3>1. attempts' = [k \in {j \in DOMAIN attempts \ K : attempts[j].window > 0} |-> attempts[k]]
        BY <2>1 DEF Swept, Forget
      <3>2. {j \in DOMAIN attempts \ K : attempts[j].window > 0} = DOMAIN attempts \ J
        OBVIOUS
      <3>3. attempts' = Forget(J)
        BY <3>1, <3>2 DEF Forget
      <3> QED
        BY <3>3
    <2>2. CASE ~ Cardinality(DOMAIN Forget(K)) >= MaxTracked
      BY <2>2 DEF Swept
    <2> QED
      BY <2>1, <2>2
  <1>2. \A k \in DOMAIN attempts \ K : attempts[k].window > 0 => k \in DOMAIN attempts'
    BY <1>1 DEF Forget
  <1> QED
    BY <1>1, <1>2, ForgetSmaller

-----------------------------------------------------------------------------
(* Recording a failure.                                                    *)

LEMMA FailureType ==
  ASSUME NEW t, NEW k, k \in DOMAIN t => t[k] \in Attempt
  PROVE  Failure(t, k) \in Attempt
  <1>1. Failures(t, k) \in 1..Limit
    BY LimitAssumption DEF Failures, Remembers, Attempt
  <1> QED
    BY <1>1, LimitAssumption DEF Failure, Remembers, Attempt

\* One key: its entry is the failure, if the table has room for it.
LEMMA RecordOne ==
  ASSUME NEW t, IsTable(t), NEW k \in Keys
  PROVE  IsTable(Record(t, k)) /\ Records(t, k, Record(t, k))
  <1> DEFINE K == DOMAIN t
             u == Record(t, k)
  <1>1. K \in SUBSET Keys /\ t \in [K -> Attempt] /\ Cardinality(K) <= MaxTracked
    BY DEF IsTable
  <1>2. CASE HasRoom(t, k)
    <2>1. u = [j \in K \cup {k} |-> IF j = k THEN Failure(t, k) ELSE t[j]]
      BY <1>2 DEF Record
    <2>2. Failure(t, k) \in Attempt
      BY <1>1, FailureType
    <2>3. Cardinality(K \cup {k}) <= MaxTracked
      <3>1. CASE k \in K
        <4>1. K \cup {k} = K
          BY <3>1
        <4> QED
          BY <1>1, <4>1
      <3>2. CASE k \notin K
        <4>1. Cardinality(K) < MaxTracked
          BY <1>2, <3>2 DEF HasRoom
        <4>2. IsFiniteSet(K) /\ Cardinality(K) \in Nat
          BY <1>1, KeyAssumption, FS_Subset, FS_CardinalityType
        <4>3. Cardinality(K \cup {k}) = Cardinality(K) + 1
          BY <3>2, <4>2, FS_AddElement
        <4> QED
          BY <4>1, <4>2, <4>3, LimitAssumption
      <3> QED
        BY <3>1, <3>2
    <2>4. DOMAIN u = K \cup {k} /\ IsTable(u)
      BY <1>1, <2>1, <2>2, <2>3 DEF IsTable
    <2> QED
      BY <2>1, <2>4 DEF Records
  <1>3. CASE ~ HasRoom(t, k)
    <2>1. u = t /\ k \notin K
      BY <1>3 DEF Record, HasRoom
    <2> QED
      BY <2>1 DEF Records
  <1> QED
    BY <1>2, <1>3

\* Both keys of a login.
LEMMA RecordBoth ==
  ASSUME LimiterTypeOK, TableBounded,
         NEW c \in Clients, NEW a \in Accounts,
         attempts' = Record(Record(attempts, c), a)
  PROVE  /\ IsTable(attempts')
         /\ DOMAIN attempts \subseteq DOMAIN attempts'
         /\ \A k \in DOMAIN attempts' :
              IF k \in {c, a} THEN attempts'[k] = Failure(attempts, k)
              ELSE k \in DOMAIN attempts /\ attempts'[k] = attempts[k]
  <1>1. c \in Keys /\ a \in Keys /\ a # c
    BY KeyAssumption DEF Keys
  <1>2. IsTable(attempts)
    BY DEF LimiterTypeOK, TableBounded, IsTable
  <1>3. IsTable(Record(attempts, c)) /\ Records(attempts, c, Record(attempts, c))
    BY <1>1, <1>2, RecordOne
  <1>4. PICK t : t = Record(attempts, c)
    OBVIOUS
  <1>5. IsTable(t) /\ Records(attempts, c, t)
    BY <1>3, <1>4
  <1>6. IsTable(attempts') /\ Records(t, a, attempts')
    BY <1>1, <1>4, <1>5, RecordOne
  <1>7. Failure(t, a) = Failure(attempts, a)
    <2>1. (a \in DOMAIN t <=> a \in DOMAIN attempts) /\ (a \in DOMAIN attempts => t[a] = attempts[a])
      BY <1>1, <1>5 DEF Records
    <2> QED
      BY <2>1 DEF Failure, Failures, Remembers
  <1> QED
    BY <1>1, <1>5, <1>6, <1>7 DEF Records

\* What a failure does to a good entry: the request that reports it is no
\* longer under way.
LEMMA FailureOK ==
  ASSUME NEW t, NEW k, NEW m \in Nat, NEW n \in Nat, Cardinality(Requests) \in Nat,
         n <= m, n + 1 <= Cardinality(Requests), k \in DOMAIN t => n + 1 <= m,
         k \in DOMAIN t => t[k] \in Attempt /\ EntryOK(t[k], m)
  PROVE  EntryOK(Failure(t, k), n)
  <1> DEFINE e == Failure(t, k)
  <1>1. CASE ~ Remembers(t, k)
    <2>1. e = [failures |-> 1, window |-> Window, streak |-> 1,
               block |-> IF 1 = Limit THEN Block ELSE IF k \in DOMAIN t THEN t[k].block ELSE 0]
      BY <1>1, Zenon DEF Failure, Failures
    <2>2. k \in DOMAIN t => t[k].block = 0
      BY <1>1, LimitAssumption DEF Remembers, Attempt, EntryOK
    <2>3. e.failures = 1 /\ e.window = Window /\ e.streak = 1
            /\ e.block = IF 1 = Limit THEN Block ELSE 0
      BY <2>1, <2>2
    <2> HIDE DEF e
    <2>4. EntryOK(e, n)
      BY <2>3, LimitAssumption DEF EntryOK
    <2> QED
      BY <2>4 DEF e
  <1>2. CASE Remembers(t, k)
    <2>1. k \in DOMAIN t /\ t[k] \in Attempt /\ EntryOK(t[k], m)
      BY <1>2 DEF Remembers
    <2>2. e.window = Window /\ e.streak = t[k].streak + 1
            /\ e.failures = (IF t[k].failures < Limit THEN t[k].failures + 1 ELSE Limit)
            /\ e.block = IF e.failures = Limit THEN Block ELSE t[k].block
      BY <1>2, <2>1 DEF Failure, Failures
    <2>3. t[k].failures \in 1..Limit /\ t[k].block \in Nat /\ t[k].streak \in Nat
      BY <2>1, LimitAssumption DEF Attempt
    <2> HIDE DEF e
    <2>4. EntryOK(e, n)
      BY <2>1, <2>2, <2>3, LimitAssumption DEF EntryOK
    <2> QED
      BY <2>4 DEF e
  <1> QED
    BY <1>1, <1>2

LEMMA EntryWeaker ==
  ASSUME NEW e \in Attempt, NEW m \in Nat, NEW n \in Nat, n <= m,
         Cardinality(Requests) \in Nat, EntryOK(e, m)
  PROVE  EntryOK(e, n)
  BY LimitAssumption DEF EntryOK, Attempt

-----------------------------------------------------------------------------
(* The inductive invariant.                                                *)

LEMMA LimiterInitOK == ASSUME LimiterInit PROVE LimiterInv
  <1>1. DOMAIN attempts = {} /\ LimiterTypeOK
    BY LimitAssumption DEF LimiterInit, LimiterTypeOK, Request
  <1>2. Holders = {}
    BY DEF LimiterInit, Holders
  <1>3. TableBounded /\ SlotsAreHeld
    BY <1>1, <1>2, FS_EmptySet, LimitAssumption DEF TableBounded, SlotsAreHeld, LimiterInit
  <1> QED
    BY <1>1, <1>3 DEF LimiterInv, EntriesOK

\* A request moves on and the table only loses entries.
LEMMA Moves ==
  ASSUME LimiterInv, NEW r \in Requests, NEW stage \in {"idle", "checking", "answered"},
         Goes(r, stage), requests[r].stage # "idle",
         stage = "checking" => requests[r].stage = "admitted",
         IsTable(attempts'), DOMAIN attempts' \subseteq DOMAIN attempts,
         \A k \in DOMAIN attempts' : attempts'[k] = attempts[k]
  PROVE  /\ requests' \in [Requests -> Request]
         /\ Holders' = IF stage = "idle" THEN Holders \ {r} ELSE Holders \cup {r}
         /\ TableBounded' /\ EntriesOK'
  <1>1. LimiterTypeOK /\ EntriesOK
    BY DEF LimiterInv
  <1>2. requests' \in [Requests -> Request]
    BY <1>1 DEF Goes, LimiterTypeOK, Request
  <1>3. Holders' = IF stage = "idle" THEN Holders \ {r} ELSE Holders \cup {r}
    BY <1>1 DEF Goes, Holders, LimiterTypeOK
  <1>4. \A k : Engaged(k)' \subseteq Engaged(k)
    BY <1>1 DEF Goes, Engaged, LimiterTypeOK
  <1>5. EntriesOK'
    <2> SUFFICES ASSUME NEW k \in DOMAIN attempts'
                 PROVE  EntryOK(attempts'[k], Cardinality(Engaged(k)'))
      BY DEF EntriesOK
    <2>1. attempts'[k] \in Attempt /\ EntryOK(attempts'[k], Cardinality(Engaged(k)))
      BY <1>1 DEF LimiterTypeOK, EntriesOK
    <2>2. Cardinality(Engaged(k)) \in Nat /\ Cardinality(Requests) \in Nat
            /\ Cardinality(Engaged(k)') \in Nat
            /\ Cardinality(Engaged(k)') <= Cardinality(Engaged(k))
      BY <1>1, <1>4, Finite, FewerEngaged
    <2> QED
      BY <2>1, <2>2, EntryWeaker
  <1> QED
    BY <1>2, <1>3, <1>5 DEF IsTable, TableBounded

LEMMA SameTable ==
  ASSUME LimiterInv, UNCHANGED attempts
  PROVE  IsTable(attempts') /\ DOMAIN attempts' \subseteq DOMAIN attempts
           /\ \A k \in DOMAIN attempts' : attempts'[k] = attempts[k]
  BY DEF LimiterInv, LimiterTypeOK, TableBounded, IsTable

LEMMA SmallerTable ==
  ASSUME LimiterInv, NEW K, attempts' = Forget(K)
  PROVE  IsTable(attempts') /\ DOMAIN attempts' \subseteq DOMAIN attempts
           /\ \A k \in DOMAIN attempts' : attempts'[k] = attempts[k]
  BY ForgetSmaller DEF LimiterInv, LimiterTypeOK, TableBounded, IsTable

LEMMA AdmitsOK ==
  ASSUME LimiterInv, NEW r \in Requests, NEW c \in Clients, NEW a \in Accounts, Admits(r, c, a)
  PROVE  LimiterInv'
  <1>1. LimiterTypeOK /\ TableBounded /\ EntriesOK /\ SlotsAreHeld
    BY DEF LimiterInv
  <1>2. /\ DOMAIN attempts' \subseteq DOMAIN attempts
        /\ \A k \in DOMAIN attempts' : attempts'[k] = attempts[k]
        /\ attempts' \in [DOMAIN attempts' -> Attempt]
        /\ TableBounded'
    BY <1>1, SweptSmaller DEF Admits
  <1>3. LimiterTypeOK'
    BY <1>1, <1>2 DEF Admits, LimiterTypeOK, Request
  <1>4. Holders' = Holders
    BY <1>1 DEF Admits, At, Holders, LimiterTypeOK
  <1>5. EntriesOK'
    <2> SUFFICES ASSUME NEW k \in DOMAIN attempts'
                 PROVE  EntryOK(attempts'[k], Cardinality(Engaged(k)'))
      BY DEF EntriesOK
    <2>1. attempts'[k] \in Attempt /\ EntryOK(attempts'[k], Cardinality(Engaged(k)))
      BY <1>1, <1>2 DEF LimiterTypeOK, EntriesOK
    <2>2. CASE k \in {c, a}
      <3>1. ~ attempts'[k].block > 0
        BY <1>2, <2>2 DEF Admits, Blocked
      <3> QED
        BY <2>1, <3>1, LimitAssumption DEF EntryOK, Attempt
    <2>3. CASE k \notin {c, a}
      <3>1. Engaged(k)' \subseteq Engaged(k)
        BY <1>1, <2>3 DEF Admits, Engaged, LimiterTypeOK
      <3>2. Cardinality(Engaged(k)) \in Nat /\ Cardinality(Requests) \in Nat
              /\ Cardinality(Engaged(k)') \in Nat
              /\ Cardinality(Engaged(k)') <= Cardinality(Engaged(k))
        BY <1>1, <3>1, Finite, FewerEngaged
      <3> QED
        BY <2>1, <3>2, EntryWeaker
    <2> QED
      BY <2>2, <2>3
  <1>6. SlotsAreHeld'
    BY <1>1, <1>4 DEF Admits, SlotsAreHeld
  <1> QED
    BY <1>2, <1>3, <1>5, <1>6 DEF LimiterInv

LEMMA RefusesOK ==
  ASSUME LimiterInv, NEW r \in Requests, NEW c \in Clients, NEW a \in Accounts, Refuses(r, c, a)
  PROVE  LimiterInv'
  <1>1. IsTable(attempts') /\ DOMAIN attempts' \subseteq DOMAIN attempts
          /\ \A k \in DOMAIN attempts' : attempts'[k] = attempts[k]
    BY SmallerTable DEF Refuses
  <1>2. UNCHANGED <<active, requests>>
    BY DEF Refuses
  <1>3. LimiterTypeOK' /\ TableBounded'
    BY <1>1, <1>2 DEF LimiterInv, LimiterTypeOK, IsTable, TableBounded
  <1>4. EntriesOK' /\ SlotsAreHeld'
    BY <1>1, <1>2 DEF LimiterInv, EntriesOK, SlotsAreHeld, Holders, Engaged
  <1> QED
    BY <1>3, <1>4 DEF LimiterInv

LEMMA FailsOK ==
  ASSUME LimiterInv, NEW r \in Requests, Fails(r)
  PROVE  LimiterInv'
  <1> DEFINE c == requests[r].client
             a == requests[r].account
  <1>1. LimiterTypeOK /\ TableBounded /\ EntriesOK /\ SlotsAreHeld
    BY DEF LimiterInv
  <1>2. c \in Clients /\ a \in Accounts /\ requests[r].stage = "checking"
    BY <1>1 DEF Fails, At, LimiterTypeOK, Request
  <1>3. /\ IsTable(attempts')
        /\ \A k \in DOMAIN attempts' :
             IF k \in {c, a} THEN attempts'[k] = Failure(attempts, k)
             ELSE k \in DOMAIN attempts /\ attempts'[k] = attempts[k]
    BY <1>1, <1>2, RecordBoth DEF Fails
  <1>4. requests' \in [Requests -> Request] /\ Holders' = Holders
    BY <1>1, <1>2 DEF Fails, Goes, LimiterTypeOK, Request, Holders
  <1>5. LimiterTypeOK' /\ TableBounded' /\ SlotsAreHeld'
    BY <1>1, <1>3, <1>4 DEF LimiterTypeOK, IsTable, TableBounded, SlotsAreHeld, Fails
  <1>6. EntriesOK'
    <2> SUFFICES ASSUME NEW k \in DOMAIN attempts'
                 PROVE  EntryOK(attempts'[k], Cardinality(Engaged(k)'))
      BY DEF EntriesOK
    <2> DEFINE m == Cardinality(Engaged(k))
               n == Cardinality(Engaged(k)')
    <2>1. m \in Nat /\ Cardinality(Requests) \in Nat
      BY <1>1, Finite
    <2>2. Engaged(k)' = Engaged(k) \ {r} /\ Engaged(k) \subseteq Requests
      BY <1>1, <1>2 DEF Fails, Goes, Engaged, LimiterTypeOK
    <2>3. n \in Nat /\ n <= m
      BY <1>1, <2>2, Finite, FewerEngaged
    <2>4. CASE k \in {c, a}
      <3>1. r \in Engaged(k)
        BY <1>2, <2>4 DEF Engaged
      <3>2. n = m - 1
        BY <1>1, <2>2, <3>1, Finite, FS_RemoveElement
      <3>3. m <= Cardinality(Requests)
        BY <2>2, KeyAssumption, FewerEngaged
      <3>4. k \in DOMAIN attempts => attempts[k] \in Attempt /\ EntryOK(attempts[k], m)
        BY <1>1 DEF LimiterTypeOK, EntriesOK
      <3>5. EntryOK(Failure(attempts, k), n)
        <4> HIDE DEF m, n
        <4> QED
          BY <2>1, <2>3, <3>2, <3>3, <3>4, FailureOK
      <3> QED
        BY <1>3, <2>4, <3>5
    <2>5. CASE k \notin {c, a}
      <3>1. attempts'[k] \in Attempt /\ EntryOK(attempts'[k], m)
        BY <1>1, <1>3, <2>5 DEF LimiterTypeOK, EntriesOK
      <3> QED
        BY <2>1, <2>3, <3>1, EntryWeaker
    <2> QED
      BY <2>4, <2>5
  <1> QED
    BY <1>5, <1>6 DEF LimiterInv

LEMMA AnswersOK ==
  ASSUME LimiterInv, NEW r \in Requests, Answers(r)
  PROVE  LimiterInv'
  <1>1. LimiterTypeOK /\ TableBounded /\ EntriesOK /\ SlotsAreHeld
    BY DEF LimiterInv
  <1>2. IsFiniteSet(Holders) /\ Cardinality(Holders) \in Nat /\ active = Cardinality(Holders)
    BY <1>1, Finite DEF SlotsAreHeld
  <1>3. CASE TakesSlot(r)
    <2>1. requests' \in [Requests -> Request] /\ Holders' = Holders \cup {r} /\ TableBounded' /\ EntriesOK'
      BY <1>3, Moves, SameTable DEF TakesSlot, At
    <2>2. r \notin Holders
      BY <1>3 DEF TakesSlot, At, Holders
    <2>3. active' = Cardinality(Holders')
      BY <1>2, <1>3, <2>1, <2>2, FS_AddElement DEF TakesSlot
    <2>4. LimiterTypeOK'
      BY <1>1, <1>3, <2>1, LimitAssumption DEF LimiterTypeOK, TakesSlot
    <2> QED
      BY <2>1, <2>3, <2>4 DEF LimiterInv, SlotsAreHeld
  <1>4. CASE FindsNoSlot(r)
    <2>1. requests' \in [Requests -> Request] /\ Holders' = Holders \ {r} /\ TableBounded' /\ EntriesOK'
      BY <1>4, Moves, SameTable DEF FindsNoSlot, At
    <2>2. Holders' = Holders
      BY <1>4, <2>1 DEF FindsNoSlot, At, Holders
    <2>3. LimiterTypeOK'
      BY <1>1, <1>4, <2>1 DEF LimiterTypeOK, FindsNoSlot
    <2> QED
      BY <1>1, <1>4, <2>1, <2>2, <2>3 DEF LimiterInv, SlotsAreHeld, FindsNoSlot
  <1>5. CASE Fails(r)
    BY <1>5, FailsOK
  <1>6. CASE Succeeds(r) \/ CheckFails(r)
    <2>1. IsTable(attempts') /\ DOMAIN attempts' \subseteq DOMAIN attempts
            /\ \A k \in DOMAIN attempts' : attempts'[k] = attempts[k]
      BY <1>6, SmallerTable, SameTable DEF Succeeds, CheckFails
    <2>2. requests' \in [Requests -> Request] /\ Holders' = Holders \cup {r} /\ TableBounded' /\ EntriesOK'
      BY <1>6, <2>1, Moves DEF Succeeds, CheckFails, At
    <2>3. Holders' = Holders
      BY <1>6, <2>2 DEF Succeeds, CheckFails, At, Holders
    <2>4. LimiterTypeOK'
      BY <1>1, <1>6, <2>1, <2>2 DEF LimiterTypeOK, IsTable, Succeeds, CheckFails
    <2> QED
      BY <1>1, <1>6, <2>2, <2>3, <2>4 DEF LimiterInv, SlotsAreHeld, Succeeds, CheckFails
  <1>7. CASE Releases(r)
    <2>1. requests' \in [Requests -> Request] /\ Holders' = Holders \ {r} /\ TableBounded' /\ EntriesOK'
      BY <1>7, Moves, SameTable DEF Releases, At
    <2>2. r \in Holders
      BY <1>7 DEF Releases, At, Holders
    <2>3. /\ Cardinality(Holders') = Cardinality(Holders) - 1
          /\ Cardinality(Holders') \in Nat
      BY <1>2, <2>1, <2>2, FS_RemoveElement, FewerEngaged
    <2>4. LimiterTypeOK'
      BY <1>1, <1>2, <1>7, <2>1, <2>3, LimitAssumption DEF LimiterTypeOK, Releases
    <2> QED
      BY <1>2, <1>7, <2>1, <2>3, <2>4 DEF LimiterInv, SlotsAreHeld, Releases
  <1> QED
    BY <1>3, <1>4, <1>5, <1>6, <1>7 DEF Answers

LEMMA TickOK ==
  ASSUME LimiterInv, Tick
  PROVE  LimiterInv'
  <1>1. LimiterTypeOK /\ TableBounded /\ EntriesOK /\ SlotsAreHeld
    BY DEF LimiterInv
  <1>2. DOMAIN attempts' = DOMAIN attempts /\ UNCHANGED <<active, requests>>
    BY DEF Tick
  <1>3. \A k \in DOMAIN attempts' :
          /\ attempts'[k] \in Attempt
          /\ EntryOK(attempts'[k], Cardinality(Engaged(k)))
    <2> SUFFICES ASSUME NEW k \in DOMAIN attempts
                 PROVE  /\ attempts'[k] \in Attempt
                        /\ EntryOK(attempts'[k], Cardinality(Engaged(k)))
      BY <1>2
    <2>1. attempts[k] \in Attempt /\ EntryOK(attempts[k], Cardinality(Engaged(k)))
      BY <1>1 DEF LimiterTypeOK, EntriesOK
    <2>2. attempts'[k] = [failures |-> attempts[k].failures,
                          window   |-> Less(attempts[k].window),
                          block    |-> Less(attempts[k].block),
                          streak   |-> IF attempts[k].block = 1 THEN 0 ELSE attempts[k].streak]
      BY DEF Tick
    <2>3. Cardinality(Engaged(k)) \in Nat /\ Cardinality(Requests) \in Nat
      BY <1>1, Finite
    <2>4. attempts'[k] \in Attempt
      BY <2>1, <2>2, LimitAssumption DEF Attempt, Less
    <2>5. EntryOK(attempts'[k], Cardinality(Engaged(k)))
      BY <2>1, <2>2, <2>3, LimitAssumption DEF Attempt, Less, EntryOK
    <2> QED
      BY <2>4, <2>5
  <1>4. LimiterTypeOK' /\ TableBounded'
    BY <1>1, <1>2, <1>3 DEF LimiterTypeOK, TableBounded, Tick
  <1>5. EntriesOK' /\ SlotsAreHeld'
    BY <1>1, <1>2, <1>3 DEF EntriesOK, SlotsAreHeld, Engaged, Holders
  <1> QED
    BY <1>4, <1>5 DEF LimiterInv

LEMMA LimiterStepOK ==
  ASSUME LimiterInv, [LimiterNext]_limiterVars
  PROVE  LimiterInv'
  <1>1. CASE UNCHANGED limiterVars
    BY <1>1 DEF LimiterInv, LimiterTypeOK, TableBounded, SlotsAreHeld, EntriesOK, Holders,
                Engaged, limiterVars
  <1>2. CASE LimiterNext
    BY <1>2, AdmitsOK, RefusesOK, AnswersOK, TickOK DEF LimiterNext
  <1> QED
    BY <1>1, <1>2

\* The limiter's inductive invariant, about begin, failed, succeeded, the
\* release and the clock in any order.
THEOREM LimiterInvariant == LimiterSpec => []LimiterInv
  <1>1. LimiterInit => LimiterInv
    BY LimiterInitOK
  <1>2. LimiterInv /\ [LimiterNext]_limiterVars => LimiterInv'
    BY LimiterStepOK
  <1> QED
    BY <1>1, <1>2, PTL DEF LimiterSpec

\* The table, the slots and the requests keep their types.
THEOREM LimiterTypes == LimiterSpec => []LimiterTypeOK
  BY LimiterInvariant, PTL DEF LimiterInv

\* failed never lets the table outgrow its limit.
THEOREM TableStaysBounded == LimiterSpec => []TableBounded
  BY LimiterInvariant, PTL DEF LimiterInv

\* No slot leaks and none is given back twice, on any path of login.
THEOREM NoSlotLeaks == LimiterSpec => []SlotsAreHeld
  BY LimiterInvariant, PTL DEF LimiterInv

\* From one block to the next a key fails at most Limit - 1 times and once for
\* every request under way at once.
THEOREM StreaksAreBounded == LimiterSpec => []StreakBounded
  <1>1. LimiterInv => StreakBounded
    <2> SUFFICES ASSUME LimiterInv, NEW k \in DOMAIN attempts
                 PROVE  /\ k \notin Blocked => attempts[k].streak < Limit
                        /\ k \in Blocked => attempts[k].streak + Cardinality(Engaged(k))
                                               <= Limit - 1 + Cardinality(Requests)
      BY DEF StreakBounded
    <2>1. attempts[k] \in Attempt /\ EntryOK(attempts[k], Cardinality(Engaged(k)))
      BY DEF LimiterInv, LimiterTypeOK, EntriesOK
    <2> QED
      BY <2>1, LimitAssumption DEF EntryOK, Attempt, Blocked
  <1> QED
    BY <1>1, LimiterInvariant, PTL

\* A block ends with its time, or by a right password of its own account.
THEOREM BlocksEndWithTime == LimiterSpec => BlockEndsWithTime
  <1> DEFINE A == \A k \in Blocked :
                    \/ k \in Blocked'
                    \/ attempts[k].block = 1
                    \/ \E r \in Requests : requests[r].account = k /\ Succeeds(r)
  <1>1. LimiterInv /\ LimiterNext => A
    <2> SUFFICES ASSUME LimiterInv, LimiterNext, NEW k \in Blocked
                 PROVE  \/ k \in Blocked'
                        \/ attempts[k].block = 1
                        \/ \E r \in Requests : requests[r].account = k /\ Succeeds(r)
      OBVIOUS
    <2>1. LimiterTypeOK /\ TableBounded /\ EntriesOK
      BY DEF LimiterInv
    <2>2. k \in DOMAIN attempts /\ attempts[k] \in Attempt /\ attempts[k].block > 0
      BY <2>1 DEF Blocked, LimiterTypeOK
    <2>3. attempts[k].window > 0 /\ k \notin Old
      BY <2>1, <2>2, LimitAssumption DEF EntriesOK, EntryOK, Attempt, Old
    <2>4. ASSUME NEW r \in Requests, NEW c \in Clients, NEW a \in Accounts, Admits(r, c, a)
          PROVE  k \in Blocked'
      <3>1. k \in DOMAIN attempts' /\ attempts'[k] = attempts[k]
        <4>1. attempts' = Swept(Forget({c, a} \cap Old))
          BY <2>4 DEF Admits
        <4> QED
          BY <2>1, <2>2, <2>3, <4>1, SweptSmaller
      <3> QED
        BY <2>2, <3>1 DEF Blocked
    <2>5. ASSUME NEW r \in Requests, NEW c \in Clients, NEW a \in Accounts, Refuses(r, c, a)
          PROVE  k \in Blocked'
      BY <2>2, <2>3, <2>5 DEF Refuses, Forget, Blocked
    <2>6. ASSUME NEW r \in Requests, Answers(r)
          PROVE  k \in Blocked' \/ (requests[r].account = k /\ Succeeds(r))
      <3>1. CASE UNCHANGED attempts
        BY <2>2, <3>1 DEF Blocked
      <3>2. CASE Fails(r)
        <4>1. requests[r].client \in Clients /\ requests[r].account \in Accounts
          BY <2>1 DEF LimiterTypeOK, Request
        <4>2. /\ k \in DOMAIN attempts'
              /\ attempts'[k] \in {Failure(attempts, k), attempts[k]}
          BY <2>1, <2>2, <3>2, <4>1, RecordBoth DEF Fails
        <4>3. Failure(attempts, k).block > 0
          BY <2>2, LimitAssumption DEF Failure
        <4> QED
          BY <2>2, <4>2, <4>3 DEF Blocked
      <3>3. CASE Succeeds(r)
        BY <2>2, <3>3 DEF Succeeds, Forget, Blocked
      <3> QED
        BY <2>6, <3>1, <3>2, <3>3
           DEF Answers, TakesSlot, FindsNoSlot, CheckFails, Releases
    <2>7. CASE Tick
      <3>1. k \in DOMAIN attempts' /\ attempts'[k].block = Less(attempts[k].block)
        BY <2>2, <2>7 DEF Tick
      <3> QED
        BY <2>2, <3>1, LimitAssumption DEF Blocked, Less, Attempt
    <2> QED
      BY <2>4, <2>5, <2>6, <2>7 DEF LimiterNext
  <1>2. LimiterInv /\ [LimiterNext]_limiterVars => [A]_limiterVars
    BY <1>1
  <1> QED
    BY <1>2, LimiterInvariant, PTL DEF LimiterSpec, BlockEndsWithTime

=============================================================================
