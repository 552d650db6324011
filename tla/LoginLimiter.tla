---------------------------- MODULE LoginLimiter ----------------------------
(***************************************************************************)
(* The limiter in front of the login form (internal/web/login_limiter.go)  *)
(* with the handler that calls it: failures counted per client address and *)
(* per account name, keys blocked for a while at the limit, a table with a *)
(* largest size, and slots for the password checks that run at once.       *)
(*                                                                         *)
(* The mutex makes each method one step; the slot is taken after the lock  *)
(* is given up, which is a step of its own.  Every entry keeps how long it *)
(* is still remembered and blocked instead of the times of the clock:      *)
(* Tick lets a unit of time pass and counts both down.                     *)
(***************************************************************************)
EXTENDS Naturals, FiniteSets

CONSTANTS
  Clients,     \* client addresses: keys "ip:..."
  Accounts,    \* account names, trimmed and lowered: keys "account:..."
  Requests,    \* the handlers that may run at the same time
  Slots,       \* capacity of the channel active
  Limit,       \* loginFailureLimit
  Block,       \* loginBlockDuration
  Window,      \* loginAttemptWindow
  MaxTracked   \* maxLoginClients

Keys == Clients \cup Accounts

ASSUME KeyAssumption ==
  /\ Clients \cap Accounts = {}
  /\ IsFiniteSet(Keys)
  /\ IsFiniteSet(Requests)

ASSUME LimitAssumption ==
  /\ Slots \in Nat /\ MaxTracked \in Nat
  /\ Limit \in Nat \ {0} /\ Block \in Nat \ {0} /\ Window \in Nat
  /\ Block <= Window

VARIABLES
  attempts,   \* the table: an entry for each key it tracks
  active,     \* how many slots are taken
  requests    \* what each handler is doing

limiterVars == <<attempts, active, requests>>

\* failures stops at Limit: the code does not tell larger counts apart.
\* streak is no field of the code: it counts the failures recorded since the
\* key was last free to try.
Attempt == [failures : 1..Limit, window : 0..Window, block : 0..Block, streak : Nat]

Request ==
  [stage   : {"idle", "admitted", "checking", "answered"},
   client  : Clients,
   account : Accounts]

LimiterTypeOK ==
  /\ DOMAIN attempts \subseteq Keys
  /\ attempts \in [DOMAIN attempts -> Attempt]
  /\ active \in 0..Slots
  /\ requests \in [Requests -> Request]

LimiterInit ==
  /\ attempts = [k \in {} |-> 0]
  /\ active = 0
  /\ \E c \in Clients, a \in Accounts :
       requests = [r \in Requests |-> [stage |-> "idle", client |-> c, account |-> a]]

-----------------------------------------------------------------------------
(* The table.                                                              *)

Old == {k \in DOMAIN attempts : attempts[k].window = 0}

Blocked == {k \in DOMAIN attempts : attempts[k].block > 0}

Forget(K) == [k \in DOMAIN attempts \ K |-> attempts[k]]

\* Mutant of Swept: a full table is emptied whatever its entries are.
SweptAll(t) == IF Cardinality(DOMAIN t) >= MaxTracked THEN [k \in {} |-> 0] ELSE t

\* A full table drops every entry whose last failure is out of the window.
Swept(t) ==
  IF Cardinality(DOMAIN t) >= MaxTracked
  THEN [k \in {j \in DOMAIN t : t[j].window > 0} |-> t[k]]
  ELSE t

\* Mutant of HasRoom: off by one.
HasRoomForOneMore(t, k) == k \in DOMAIN t \/ Cardinality(DOMAIN t) <= MaxTracked

HasRoom(t, k) == k \in DOMAIN t \/ Cardinality(DOMAIN t) < MaxTracked

Remembers(t, k) == k \in DOMAIN t /\ t[k].window > 0

Failures(t, k) ==
  IF ~ Remembers(t, k) THEN 1
  ELSE IF t[k].failures < Limit THEN t[k].failures + 1 ELSE Limit

\* The entry of k once another failure is counted.
Failure(t, k) ==
  [failures |-> Failures(t, k),
   window   |-> Window,
   block    |-> IF Failures(t, k) = Limit THEN Block
                ELSE IF k \in DOMAIN t THEN t[k].block ELSE 0,
   streak   |-> IF Remembers(t, k) THEN t[k].streak + 1 ELSE 1]

Record(t, k) ==
  IF HasRoom(t, k)
  THEN [j \in DOMAIN t \cup {k} |-> IF j = k THEN Failure(t, k) ELSE t[j]]
  ELSE t

-----------------------------------------------------------------------------
(* The handler.                                                            *)

At(r, stage) == requests[r].stage = stage

Goes(r, stage) == requests' = [requests EXCEPT ![r].stage = stage]

\* Mutant of Admits: only the client is looked at.
AdmitsByClient(r, c, a) ==
  /\ At(r, "idle")
  /\ c \notin Blocked
  /\ attempts' = Swept(Forget({c, a} \cap Old))
  /\ requests' = [requests EXCEPT ![r] = [stage |-> "admitted", client |-> c, account |-> a]]
  /\ UNCHANGED active

\* The first half of begin, under the lock: old entries of the two keys go,
\* a blocked key refuses the request, a full table is swept.
Admits(r, c, a) ==
  /\ At(r, "idle")
  /\ {c, a} \cap Blocked = {}
  /\ attempts' = Swept(Forget({c, a} \cap Old))
  /\ requests' = [requests EXCEPT ![r] = [stage |-> "admitted", client |-> c, account |-> a]]
  /\ UNCHANGED active

\* Mutant of Refuses: a refused request starts the block anew.
RefusesAndExtends(r, c, a) ==
  /\ At(r, "idle")
  /\ {c, a} \cap Blocked # {}
  /\ attempts' = [k \in DOMAIN attempts |->
       IF k \in {c, a} \cap Blocked
       THEN [attempts[k] EXCEPT !.window = Window, !.block = Block]
       ELSE attempts[k]]
  /\ UNCHANGED <<active, requests>>

\* The client is looked at first: when the account refuses the request, an
\* old entry of the client is gone already.
Refuses(r, c, a) ==
  /\ At(r, "idle")
  /\ {c, a} \cap Blocked # {}
  /\ attempts' = Forget({c} \cap Old)
  /\ UNCHANGED <<active, requests>>

\* Mutant of TakesSlot: the capacity is not looked at.
TakesAnySlot(r) ==
  /\ At(r, "admitted")
  /\ active' = active + 1
  /\ Goes(r, "checking")
  /\ UNCHANGED attempts

\* The second half of begin: the slot is taken or refused without waiting.
TakesSlot(r) ==
  /\ At(r, "admitted")
  /\ active < Slots
  /\ active' = active + 1
  /\ Goes(r, "checking")
  /\ UNCHANGED attempts

\* Mutant of FindsNoSlot: what was not taken is released, too.
ReleasesNoSlot(r) ==
  /\ At(r, "admitted")
  /\ active >= Slots
  /\ active' = active - 1
  /\ Goes(r, "idle")
  /\ UNCHANGED attempts

FindsNoSlot(r) ==
  /\ At(r, "admitted")
  /\ active >= Slots
  /\ Goes(r, "idle")
  /\ UNCHANGED <<attempts, active>>

\* Authenticate found the password wrong: the failure counts for the client,
\* then for the account, with one lock around both.
Fails(r) ==
  /\ At(r, "checking")
  /\ attempts' = Record(Record(attempts, requests[r].client), requests[r].account)
  /\ Goes(r, "answered")
  /\ UNCHANGED active

\* The password was right: the account starts afresh, the client does not.
Succeeds(r) ==
  /\ At(r, "checking")
  /\ attempts' = Forget({requests[r].account})
  /\ Goes(r, "answered")
  /\ UNCHANGED active

\* The database failed: neither is told.
CheckFails(r) ==
  /\ At(r, "checking")
  /\ Goes(r, "answered")
  /\ UNCHANGED <<attempts, active>>

\* The deferred release, whatever came of the request.
Releases(r) ==
  /\ At(r, "answered")
  /\ active' = active - 1
  /\ Goes(r, "idle")
  /\ UNCHANGED attempts

Less(n) == IF n = 0 THEN 0 ELSE n - 1

\* A unit of time passes.  A key whose block ends starts a new streak.
Tick ==
  /\ \E k \in DOMAIN attempts : attempts[k].window > 0
  /\ attempts' = [k \in DOMAIN attempts |->
       [failures |-> attempts[k].failures,
        window   |-> Less(attempts[k].window),
        block    |-> Less(attempts[k].block),
        streak   |-> IF attempts[k].block = 1 THEN 0 ELSE attempts[k].streak]]
  /\ UNCHANGED <<active, requests>>

Answers(r) ==
  \/ TakesSlot(r) \/ FindsNoSlot(r)
  \/ Fails(r) \/ Succeeds(r) \/ CheckFails(r)
  \/ Releases(r)

LimiterNext ==
  \/ \E r \in Requests :
       \/ \E c \in Clients, a \in Accounts : Admits(r, c, a) \/ Refuses(r, c, a)
       \/ Answers(r)
  \/ Tick

\* Time passes, and the scheduler and the database let every handler finish.
LimiterFairness == WF_limiterVars(Tick) /\ \A r \in Requests : WF_limiterVars(Answers(r))

LimiterSpec == LimiterInit /\ [][LimiterNext]_limiterVars

FairLimiterSpec == LimiterSpec /\ LimiterFairness

-----------------------------------------------------------------------------
(* What the limiter promises.                                              *)

\* The table never outgrows its limit, though one failed login counts for two
\* keys and the table is swept only when the next login begins.
TableBounded == Cardinality(DOMAIN attempts) <= MaxTracked

Holders == {r \in Requests : requests[r].stage \in {"checking", "answered"}}

\* Every taken slot belongs to a handler that will give it back: none leaks
\* on any path out of login, none is given back twice.
SlotsAreHeld == active = Cardinality(Holders)

\* The requests that may still report a failure of key k.
Engaged(k) ==
  {r \in Requests : /\ requests[r].stage \in {"admitted", "checking"}
                    /\ k \in {requests[r].client, requests[r].account}}

\* Until a key is blocked it failed less often than the limit, and once it is
\* blocked only the requests already past the check can add a failure: from
\* one block to the next a key fails at most Limit - 1 times and once for
\* each request under way at once.  A block may end while its failures still
\* count; then the first failure blocks again.
StreakBounded ==
  \A k \in DOMAIN attempts :
    /\ k \notin Blocked => attempts[k].streak < Limit
    /\ k \in Blocked =>
         attempts[k].streak + Cardinality(Engaged(k)) <= Limit - 1 + Cardinality(Requests)

\* A block ends with its time.  Only an account is let in earlier, by a login
\* with the right password that was under way; the table being swept, another
\* account logging in from the same client, or the window that forgets
\* failures never lift a block.
BlockEndsWithTime ==
  [][\A k \in Blocked :
       \/ k \in Blocked'
       \/ attempts[k].block = 1
       \/ \E r \in Requests : requests[r].account = k /\ Succeeds(r)]_limiterVars

\* Who is blocked can try again some day: requests still under way may extend
\* the block, but only so often.
BlocksEnd == \A k \in Keys : k \in Blocked ~> k \notin Blocked

=============================================================================
