------------------------ MODULE AccountRemoval_proofs ------------------------
(***************************************************************************)
(* Proofs that a deleted account leaves nothing its owner could be charged *)
(* for, and that removals keep what CheckoutFlow promises of payments.     *)
(*                                                                         *)
(* A removal's step is a step of the store and changes little at Stripe    *)
(* (StepKept, from CheckoutFlow_proofs); StepKeepsRemovalInv says what     *)
(* remains to show of it, and that it keeps the invariant and is a step of *)
(* the store (RemovalKept).                                                *)
(***************************************************************************)
EXTENDS AccountRemoval, CheckoutFlow_proofs

-----------------------------------------------------------------------------
(* What steps of the store and of Stripe leave of a removal's knowledge.   *)

LEMMA SalesStay ==
  ASSUME FlowInv, StepKept
  PROVE  /\ \A i \in SubscriptionSales : i \in SubscriptionSales' /\ sales'[i] = sales[i]
         /\ Pending = {} /\ DOMAIN checkouts' \subseteq DOMAIN checkouts
              => Pending' = {} /\ sales' = sales
<1>1. Inv /\ Inv' /\ [Next]_storeVars
  BY DEF StepKept, FlowInv
<1>2. \A i \in DOMAIN sales : /\ i \in DOMAIN sales' /\ sales'[i] = sales[i]
                              /\ i \in DOMAIN checkouts' /\ checkouts'[i] = checkouts[i]
  BY <1>1, StepKeepsSales
<1>3. \A i \in SubscriptionSales : i \in SubscriptionSales' /\ sales'[i] = sales[i]
  BY <1>2 DEF SubscriptionSales
<1>4. ASSUME Pending = {}, DOMAIN checkouts' \subseteq DOMAIN checkouts
      PROVE  Pending' = {} /\ sales' = sales
  <2>1. /\ DOMAIN sales = DOMAIN checkouts
        /\ DOMAIN sales' = DOMAIN checkouts' \ Pending'
    BY <1>1, <1>4 DEF Inv, SoldIffFulfilled
  <2>2. DOMAIN sales' = DOMAIN sales
    BY <1>2, <1>4, <2>1
  <2>3. Pending' = {}
    BY <1>4, <2>1, <2>2 DEF Pending
  <2>4. sales = [i \in DOMAIN sales |-> sales[i]] /\ sales' = [i \in DOMAIN sales' |-> sales'[i]]
    BY <1>1 DEF Inv, TypeOK
  <2> QED
    BY <1>2, <2>2, <2>3, <2>4
<1> QED
  BY <1>3, <1>4

LEMMA OtherRemovalsStay ==
  ASSUME RemovalInv, StepKept, ended \subseteq ended',
         NEW d \in Removers, removal'[d] = removal[d]
  PROVE  RemovalGood(d)'
<1>1. /\ RemovalGood(d)
      /\ removal[d].session \in Sessions \cup {NoSession}
  BY DEF RemovalInv, RemovalTypeOK, Removal
<1>2. \A i \in SubscriptionSales : i \in SubscriptionSales' /\ sales'[i] = sales[i]
  BY SalesStay DEF RemovalInv
<1>3. removal[d].at \in {"find", "release"} =>
        /\ removal[d].session # NoSession
        /\ stripe'[removal[d].session].status = "expired"
  BY <1>1 DEF RemovalGood, StepKept, StripeGrows, InUse, Payable
<1> QED
  BY <1>1, <1>2, <1>3 DEF RemovalGood

\* What is shown of every step: it keeps the invariant and is a step of the
\* store, or none.
RemovalKept == RemovalInv' /\ [Next]_storeVars

LEMMA StepKeepsRemovalInv ==
  ASSUME RemovalInv, StepKept,
         removal' \in [Removers -> Removal],
         \A d \in Removers : removal'[d] = removal[d] \/ RemovalGood(d)',
         ended \subseteq ended', ended' \subseteq Sessions,
         canceled' \subseteq CheckoutIds,
         \A i \in canceled' \ canceled : i \in SubscriptionSales' /\ sales'[i].session \in ended',
         account' \in {"active", "deleted"},
         account' = "deleted" => Pending' = {} /\ LiveSubscriptions' = {}
  PROVE  RemovalKept
<1>1. FlowInv'
  BY DEF StepKept
<1>2. RemovalTypeOK'
  BY <1>1 DEF RemovalTypeOK, FlowInv
<1>3. \A d \in Removers : RemovalGood(d)'
  BY OtherRemovalsStay
<1>4. CanceledIsEnded'
  BY SalesStay DEF RemovalInv, CanceledIsEnded
<1>5. account' = "deleted" => ~DeletionBlocked' /\ Pending' = {}
  BY DEF DeletionBlocked, Attached
<1> QED
  BY <1>1, <1>2, <1>3, <1>4, <1>5 DEF RemovalKept, RemovalInv, StepKept

\* Once the account is gone nothing comes to be owed again.
LEMMA DeletedStaysClear ==
  ASSUME RemovalInv, StepKept, DOMAIN checkouts' \subseteq DOMAIN checkouts,
         canceled \subseteq canceled', account = "deleted"
  PROVE  Pending' = {} /\ LiveSubscriptions' = {}
<1>1. Pending = {} /\ LiveSubscriptions = {} /\ FlowInv
  BY DEF RemovalInv, DeletionBlocked
<1>2. Pending' = {} /\ sales' = sales
  BY <1>1, SalesStay
<1> QED
  BY <1>1, <1>2 DEF LiveSubscriptions, SubscriptionSales

LEMMA IdleIsGood ==
  /\ IdleRemoval \in Removal
  /\ IdleRemoval.at = "idle" /\ IdleRemoval.subs = {}
BY RoundsAssumption DEF IdleRemoval, Removal

\* The shop goes on.
LEMMA ShopKeepsRemovalInv == ASSUME RemovalInv, ShopStep PROVE RemovalKept
<1>1. StepKept /\ UNCHANGED <<account, ended, canceled>>
  BY NextKeepsFlowInv DEF ShopStep, RemovalInv
<1>2. removal' \in [Removers -> Removal]
  BY IdleIsGood DEF ShopStep, RemovalInv, RemovalTypeOK
<1>3. \A d \in Removers : removal'[d] = removal[d] \/ removal'[d] = IdleRemoval
  BY DEF ShopStep
<1>4. \A d \in Removers : removal'[d] = removal[d] \/ RemovalGood(d)'
  BY <1>3, IdleIsGood DEF RemovalGood
<1>5. account = "deleted" => DOMAIN checkouts' \subseteq DOMAIN checkouts
  BY DEF ShopStep, NamesUser
<1>6. account' = "deleted" => Pending' = {} /\ LiveSubscriptions' = {}
  BY <1>1, <1>5, DeletedStaysClear
<1> QED
  BY <1>1, <1>2, <1>4, <1>6, StepKeepsRemovalInv DEF RemovalInv, RemovalTypeOK

-----------------------------------------------------------------------------
(* Steps of a removal.                                                     *)

\* One removal moves, the account stays what it is.
LEMMA RemovalMoves ==
  ASSUME RemovalInv, StepKept, DOMAIN checkouts' \subseteq DOMAIN checkouts,
         NEW d \in Removers, NEW m \in Removal, Moves(d, m),
         RemovalGood(d)',
         ended \subseteq ended', ended' \subseteq Sessions,
         canceled \subseteq canceled', canceled' \subseteq CheckoutIds,
         \A i \in canceled' \ canceled : i \in SubscriptionSales' /\ sales'[i].session \in ended',
         account' = account
  PROVE  RemovalKept
<1>1. removal \in [Removers -> Removal] /\ account \in {"active", "deleted"}
  BY DEF RemovalInv, RemovalTypeOK
<1>2. removal' \in [Removers -> Removal]
  BY <1>1 DEF Moves
<1>3. \A e \in Removers : removal'[e] = removal[e] \/ RemovalGood(e)'
  BY <1>1 DEF Moves
<1>4. account' = "deleted" => Pending' = {} /\ LiveSubscriptions' = {}
  BY DeletedStaysClear
<1> QED
  BY <1>1, <1>2, <1>3, <1>4, StepKeepsRemovalInv

\* A step only the removal itself takes part in.
LEMMA QuietMoveKeepsInv ==
  ASSUME RemovalInv, UNCHANGED <<storeVars, flowVars, account>>,
         NEW d \in Removers, NEW m \in Removal, Moves(d, m),
         RemovalGood(d)',
         ended \subseteq ended', ended' \subseteq Sessions,
         canceled \subseteq canceled', canceled' \subseteq CheckoutIds,
         \A i \in canceled' \ canceled : i \in SubscriptionSales /\ sales[i].session \in ended'
  PROVE  RemovalKept
<1>1. StepKept
  BY StutterIsKept DEF RemovalInv, vars
<1>2. UNCHANGED <<checkouts, sales>> /\ SubscriptionSales' = SubscriptionSales
  BY DEF storeVars, SubscriptionSales
<1> QED
  BY <1>1, <1>2, RemovalMoves

\* It moves on without having learned anything it will rely on.
LEMMA PlainMoveKeepsInv ==
  ASSUME RemovalInv, UNCHANGED storeVars, OnlyRemoval,
         NEW d \in Removers, NEW m \in Removal, Moves(d, m),
         m.at \in {"idle", "list", "clear", "finalize"},
         m.subs \subseteq SubscriptionSales
  PROVE  RemovalKept
<1>1. removal \in [Removers -> Removal] /\ ended \subseteq Sessions /\ canceled \subseteq CheckoutIds
  BY DEF RemovalInv, RemovalTypeOK
<1>2. removal'[d] = m
  BY <1>1 DEF Moves
<1>3. SubscriptionSales' = SubscriptionSales
  BY DEF storeVars, SubscriptionSales
<1>4. RemovalGood(d)'
  BY <1>2, <1>3 DEF RemovalGood
<1>5. UNCHANGED <<storeVars, flowVars, account>> /\ UNCHANGED <<ended, canceled>>
  BY DEF OnlyRemoval
<1> QED
  BY <1>1, <1>4, <1>5, QuietMoveKeepsInv

\* What the fields of a removal's record are.
LEMMA RemovalFields ==
  ASSUME RemovalInv, NEW d \in Removers
  PROVE  /\ removal \in [Removers -> Removal] /\ removal[d] \in Removal
         /\ RemovalGood(d) /\ removal[d].subs \subseteq SubscriptionSales
         /\ ended \subseteq Sessions /\ canceled \subseteq CheckoutIds
         /\ SubscriptionSales \subseteq CheckoutIds
         /\ \A i \in SubscriptionSales : sales[i].session \in Sessions
<1>1. removal \in [Removers -> Removal] /\ RemovalGood(d) /\ TypeOK
      /\ ended \subseteq Sessions /\ canceled \subseteq CheckoutIds
  BY DEF RemovalInv, RemovalTypeOK, FlowTypeOK
<1>2. /\ SubscriptionSales \subseteq CheckoutIds
      /\ \A i \in SubscriptionSales : sales[i].session \in Sessions
  BY <1>1 DEF TypeOK, SubscriptionSales, Sale
<1> QED
  BY <1>1, <1>2 DEF RemovalGood

\* The first stage of a round.
LEMMA RoundIsGood ==
  ASSUME NEW n \in 0..Rounds
  PROVE  LET m == [IdleRemoval EXCEPT !.at = "list", !.round = n]
         IN  m \in Removal /\ m.at = "list" /\ m.subs = {}
BY DEF IdleRemoval, Removal

LEMMA QuietStepsKeepInv ==
  ASSUME RemovalInv, NEW d \in Removers,
         \/ BeginsRemoval(d) \/ ListsTargets(d)
         \/ \E x \in Sessions : ExpiryFails(d, x)
         \/ FindsCheckout(d)
         \/ \E i \in CheckoutIds : EndsSubscription(d, i)
         \/ MarksCanceled(d) \/ Retries(d) \/ FindsUserGone(d)
  PROVE  RemovalKept
<1> DEFINE me == removal[d]
<1>1. /\ removal \in [Removers -> Removal] /\ me \in Removal
      /\ RemovalGood(d) /\ me.subs \subseteq SubscriptionSales
      /\ ended \subseteq Sessions /\ canceled \subseteq CheckoutIds
      /\ SubscriptionSales \subseteq CheckoutIds
      /\ \A i \in SubscriptionSales : sales[i].session \in Sessions
  BY RemovalFields
<1>2. ASSUME Stops(d), UNCHANGED storeVars, OnlyRemoval PROVE RemovalKept
  BY <1>2, IdleIsGood, PlainMoveKeepsInv DEF Stops
<1>3. ASSUME NEW n \in 0..Rounds,
             Moves(d, [IdleRemoval EXCEPT !.at = "list", !.round = n]),
             UNCHANGED storeVars, OnlyRemoval
      PROVE  RemovalKept
  <2> DEFINE m == [IdleRemoval EXCEPT !.at = "list", !.round = n]
  <2>1. m \in Removal /\ m.at = "list" /\ m.subs \subseteq SubscriptionSales
    BY RoundIsGood
  <2>2. Moves(d, m)
    BY <1>3
  <2> HIDE DEF m
  <2> QED
    BY <1>3, <2>1, <2>2, PlainMoveKeepsInv
<1>4. CASE BeginsRemoval(d)
  <2>1. 1 \in 0..Rounds
    BY RoundsAssumption
  <2> QED
    BY <1>3, <1>4, <2>1 DEF BeginsRemoval
<1>5. CASE ListsTargets(d)
  <2> DEFINE S == {checkouts[i].session : i \in Attached}
             m == [me EXCEPT !.at = "clear", !.sessions = S, !.subs = LiveSubscriptions]
  <2>1. S \subseteq Sessions
    BY DEF RemovalInv, RemovalTypeOK, FlowTypeOK, TypeOK, Attached, Pending, Checkout
  <2>2. LiveSubscriptions \subseteq SubscriptionSales
    BY DEF LiveSubscriptions
  <2> HIDE DEF S
  <2>3. m \in Removal /\ m.at = "clear" /\ m.subs \subseteq SubscriptionSales
    BY <1>1, <2>1, <2>2 DEF Removal
  <2>4. Moves(d, m) /\ UNCHANGED storeVars /\ OnlyRemoval
    BY <1>5 DEF ListsTargets, S
  <2> HIDE DEF m
  <2> QED
    BY <2>3, <2>4, PlainMoveKeepsInv
<1>6. CASE FindsCheckout(d)
  <2>1. /\ me.at = "find" /\ UNCHANGED storeVars /\ OnlyRemoval
        /\ UNCHANGED <<storeVars, flowVars, account>> /\ UNCHANGED <<ended, canceled>>
    BY <1>6 DEF FindsCheckout, Removing, OnlyRemoval
  <2>2. CASE Moves(d, [me EXCEPT !.at = "clear", !.session = NoSession])
    <3> DEFINE m == [me EXCEPT !.at = "clear", !.session = NoSession]
    <3>1. m \in Removal /\ m.at = "clear" /\ m.subs \subseteq SubscriptionSales
      BY <1>1 DEF Removal
    <3>2. Moves(d, m)
      BY <2>2
    <3> HIDE DEF m
    <3> QED
      BY <2>1, <3>1, <3>2, PlainMoveKeepsInv
  <2>3. ASSUME NEW i \in CheckoutsOfSession(me.session) \cap Pending,
               Moves(d, [me EXCEPT !.at = "release", !.checkout = i])
        PROVE  RemovalKept
    <3> DEFINE m == [me EXCEPT !.at = "release", !.checkout = i]
    <3>1. i \in CheckoutIds
      BY DEF RemovalInv, RemovalTypeOK, FlowTypeOK, TypeOK, Pending
    <3>2. /\ m \in Removal /\ m.at = "release" /\ m.session = me.session
          /\ m.subs \subseteq SubscriptionSales
      BY <1>1, <3>1 DEF Removal
    <3>3. Moves(d, m) /\ removal'[d] = m
      BY <1>1, <2>3 DEF Moves
    <3>4. SubscriptionSales' = SubscriptionSales /\ stripe' = stripe
      BY <2>1 DEF storeVars, flowVars, SubscriptionSales
    <3> HIDE DEF m
    <3>5. RemovalGood(d)'
      BY <1>1, <2>1, <3>2, <3>3, <3>4 DEF RemovalGood
    <3> QED
      BY <1>1, <2>1, <3>2, <3>3, <3>5, QuietMoveKeepsInv
  <2> QED
    BY <1>6, <2>2, <2>3 DEF FindsCheckout
<1>7. ASSUME NEW i \in CheckoutIds, EndsSubscription(d, i) PROVE RemovalKept
  <2> DEFINE m == [me EXCEPT !.at = "mark", !.subs = @ \ {i}, !.checkout = i]
  <2>1. /\ i \in SubscriptionSales
        /\ ended' = ended \cup {sales[i].session}
        /\ Moves(d, m) /\ UNCHANGED <<storeVars, flowVars, account, canceled>>
    BY <1>1, <1>7 DEF EndsSubscription, RemovalGood
  <2>2. /\ m \in Removal /\ m.at = "mark" /\ m.subs \subseteq SubscriptionSales
        /\ m.checkout = i
    BY <1>1 DEF Removal, RemovalGood
  <2>3. removal'[d] = m /\ SubscriptionSales' = SubscriptionSales /\ sales' = sales
    BY <1>1, <2>1 DEF Moves, storeVars, SubscriptionSales
  <2>4. RemovalGood(d)'
    BY <2>1, <2>2, <2>3 DEF RemovalGood
  <2>5. ended \subseteq ended' /\ ended' \subseteq Sessions
    BY <1>1, <2>1
  <2> QED
    BY <1>1, <2>1, <2>2, <2>4, <2>5, QuietMoveKeepsInv
<1>8. CASE MarksCanceled(d)
  <2>1. /\ me.checkout \in SubscriptionSales /\ sales[me.checkout].session \in ended
        /\ UNCHANGED <<storeVars, flowVars, account, ended>>
    BY <1>1, <1>8 DEF MarksCanceled, Removing, RemovalGood
  <2>2. CASE account = "active"
    <3> DEFINE m == [me EXCEPT !.at = "clear", !.checkout = NoCheckout]
    <3>1. canceled' = canceled \cup {me.checkout} /\ Moves(d, m)
      BY <1>8, <2>2 DEF MarksCanceled
    <3>2. m \in Removal /\ m.at = "clear" /\ m.subs \subseteq SubscriptionSales
      BY <1>1 DEF Removal, RemovalGood
    <3>3. removal'[d] = m /\ SubscriptionSales' = SubscriptionSales
      BY <1>1, <2>1, <3>1 DEF Moves, storeVars, SubscriptionSales
    <3>4. RemovalGood(d)'
      BY <3>2, <3>3 DEF RemovalGood
    <3> QED
      BY <1>1, <2>1, <3>1, <3>2, <3>4, QuietMoveKeepsInv
  <2>3. CASE account # "active"
    BY <1>2, <1>8, <2>3 DEF MarksCanceled, OnlyRemoval
  <2> QED
    BY <2>2, <2>3
<1>9. CASE Retries(d)
  <2>1. CASE me.round < Rounds
    <3>1. me.round + 1 \in 0..Rounds
      BY <1>1, <2>1, RoundsAssumption DEF Removal
    <3> QED
      BY <1>3, <1>9, <2>1, <3>1 DEF Retries
  <2>2. CASE ~(me.round < Rounds)
    BY <1>2, <1>9, <2>2 DEF Retries
  <2> QED
    BY <2>1, <2>2
<1>10. CASE (\E x \in Sessions : ExpiryFails(d, x)) \/ FindsUserGone(d)
  BY <1>2, <1>10 DEF ExpiryFails, FindsUserGone
<1> QED
  BY <1>4, <1>5, <1>6, <1>7, <1>8, <1>9, <1>10

\* Stripe ends a session nobody has completed, or has nothing to do.
LEMMA ExpiryKeepsFlow ==
  ASSUME FlowInv, NEW x \in Sessions, StripeExpires(x),
         UNCHANGED <<storeVars, request, worker, shown, serverUp>>,
         faults' \in 0..MaxFaults
  PROVE  StepKept /\ stripe'[x].status = "expired"
<1>1. /\ request \in [Requests -> Request] /\ worker \in [Workers -> Worker]
      /\ stripe \in [Sessions -> StripeSession] /\ shown \subseteq Sessions
      /\ serverUp \in BOOLEAN
  BY DEF FlowInv, FlowTypeOK
<1>2. /\ stripe[x].status \in {"open", "expired"}
      /\ stripe' = [stripe EXCEPT ![x].status = IF @ = "open" THEN "expired" ELSE @]
  BY DEF StripeExpires, CanExpire
<1>3. stripe' \in [Sessions -> StripeSession]
  BY <1>1, <1>2 DEF StripeSession
<1>4. /\ stripe'[x].status = "expired" /\ stripe'[x].checkout = stripe[x].checkout
      /\ \A y \in Sessions \ {x} : stripe'[y] = stripe[y]
  BY <1>1, <1>2 DEF StripeSession
<1>5. StripeGrows
  BY <1>2, <1>4 DEF StripeGrows, InUse, Payable
<1>6. StoreSafe /\ [Next]_storeVars
  BY QuietIsSafe DEF storeVars
<1> QED
  BY <1>1, <1>3, <1>4, <1>5, <1>6, StepKeepsFlowInv

LEMMA StripeStepsKeepInv ==
  ASSUME RemovalInv, NEW d \in Removers,
         \/ \E x \in Sessions : ExpiresTarget(d, x)
         \/ RemovalLosesAnswer(d) \/ RemovalFails(d)
  PROVE  RemovalKept
<1> DEFINE me == removal[d]
<1>1. /\ removal \in [Removers -> Removal] /\ me \in Removal
      /\ RemovalGood(d) /\ me.subs \subseteq SubscriptionSales
      /\ ended \subseteq Sessions /\ canceled \subseteq CheckoutIds
      /\ SubscriptionSales \subseteq CheckoutIds
      /\ \A i \in SubscriptionSales : sales[i].session \in Sessions
  BY RemovalFields
<1>2. FlowInv /\ faults \in 0..MaxFaults /\ me.sessions \subseteq Sessions
  BY <1>1 DEF RemovalInv, FlowInv, FlowTypeOK, Removal
<1>3. Fault => faults' \in 0..MaxFaults
  BY <1>2, FlowAssumption DEF Fault
<1>4. Stops(d) => RemovalGood(d)'
  BY <1>1, IdleIsGood DEF Stops, Moves, RemovalGood
<1>5. ASSUME NEW x \in Sessions, ExpiresTarget(d, x) PROVE RemovalKept
  <2> DEFINE m == [me EXCEPT !.at = "find", !.sessions = @ \ {x}, !.session = x]
  <2>1. /\ StripeExpires(x) /\ Moves(d, m)
        /\ UNCHANGED <<storeVars, request, worker, shown, serverUp, faults>>
        /\ UNCHANGED <<account, ended, canceled>>
    BY <1>5 DEF ExpiresTarget
  <2>2. StepKept /\ stripe'[x].status = "expired"
    BY <1>2, <2>1, ExpiryKeepsFlow
  <2>3. /\ m \in Removal /\ m.at = "find" /\ m.session = x
        /\ m.subs \subseteq SubscriptionSales
    BY <1>1 DEF Removal
  <2>4. removal'[d] = m /\ SubscriptionSales' = SubscriptionSales
    BY <1>1, <2>1 DEF Moves, storeVars, SubscriptionSales
  <2>5. checkouts' = checkouts
    BY <2>1 DEF storeVars
  <2> HIDE DEF m
  <2>6. RemovalGood(d)'
    BY <2>2, <2>3, <2>4, NullAssumption DEF RemovalGood
  <2> QED
    BY <1>1, <2>1, <2>2, <2>3, <2>5, <2>6, RemovalMoves
<1>6. CASE RemovalLosesAnswer(d)
  <2>1. /\ Stops(d) /\ Fault
        /\ UNCHANGED <<storeVars, request, worker, shown, serverUp>>
        /\ UNCHANGED <<account, canceled>>
    BY <1>6 DEF RemovalLosesAnswer
  <2>2. \/ UNCHANGED ended /\ \E x \in Sessions : StripeExpires(x)
        \/ UNCHANGED stripe /\ \E i \in SubscriptionSales : ended' = ended \cup {sales[i].session}
    BY <1>1, <1>2, <1>6 DEF RemovalLosesAnswer
  <2>3. StepKept
    <3>1. CASE UNCHANGED stripe
      <4>1. StoreSafe /\ [Next]_storeVars /\ StripeGrows
        BY <1>2, <2>1, <3>1, QuietIsSafe DEF storeVars, StripeGrows, InUse
      <4> QED
        BY <1>2, <1>3, <2>1, <3>1, <4>1, StepKeepsFlowInv DEF FlowInv, FlowTypeOK
    <3> QED
      BY <1>2, <1>3, <2>1, <2>2, <3>1, ExpiryKeepsFlow
  <2>4. ended \subseteq ended' /\ ended' \subseteq Sessions
    BY <1>1, <2>2
  <2>5. checkouts' = checkouts
    BY <2>1 DEF storeVars
  <2> QED
    BY <1>1, <1>4, <2>1, <2>3, <2>4, <2>5, IdleIsGood, RemovalMoves DEF Stops
<1>7. CASE RemovalFails(d)
  <2>1. /\ Stops(d) /\ Fault
        /\ UNCHANGED <<storeVars, request, worker, stripe, shown, serverUp>>
        /\ UNCHANGED <<account, ended, canceled>>
    BY <1>7 DEF RemovalFails
  <2>2. StoreSafe /\ [Next]_storeVars /\ StripeGrows
    BY <1>2, <2>1, QuietIsSafe DEF storeVars, StripeGrows, InUse
  <2>3. StepKept
    BY <1>2, <1>3, <2>1, <2>2, StepKeepsFlowInv DEF FlowInv, FlowTypeOK
  <2>4. checkouts' = checkouts
    BY <2>1 DEF storeVars
  <2> QED
    BY <1>1, <1>4, <2>1, <2>3, <2>4, IdleIsGood, RemovalMoves DEF Stops
<1> QED
  BY <1>5, <1>6, <1>7

\* The calls that change the store.
LEMMA StoreStepsKeepInv ==
  ASSUME RemovalInv, NEW d \in Removers,
         ReleasesCheckout(d) \/ AbandonsCarts(d) \/ DeletesUser(d)
  PROVE  RemovalKept
<1> DEFINE me == removal[d]
<1>1. /\ removal \in [Removers -> Removal] /\ me \in Removal
      /\ RemovalGood(d) /\ me.subs \subseteq SubscriptionSales
      /\ ended \subseteq Sessions /\ canceled \subseteq CheckoutIds
  BY RemovalFields
<1>2. FlowInv
  BY DEF RemovalInv
<1>3. ASSUME StoreSafe, [Next]_storeVars, UNCHANGED flowVars PROVE StepKept
  <2>1. UNCHANGED <<request, worker, stripe, shown, serverUp, faults>> /\ StripeGrows
    BY <1>3 DEF flowVars, StripeGrows, InUse
  <2> QED
    BY <1>2, <1>3, <2>1, StepKeepsFlowInv DEF FlowInv, FlowTypeOK
<1>4. CASE ReleasesCheckout(d)
  <2> DEFINE m == [me EXCEPT !.at = "clear", !.session = NoSession, !.checkout = NoCheckout]
  <2>1. /\ CancelsIfPending(me.checkout, me.session) /\ Moves(d, m)
        /\ UNCHANGED flowVars /\ UNCHANGED <<account, ended, canceled>>
        /\ me.session \in Sessions \cup {NoSession} /\ ~Payable(me.session)
    BY <1>1, <1>4 DEF ReleasesCheckout, OnlyRemoval, Removing, RemovalGood, Payable, Removal
  <2>2. StoreSafe /\ [Next]_storeVars
    BY <1>2, <2>1, CancelsSafely
  <2>3. StepKept
    BY <1>3, <2>1, <2>2
  <2>4. DOMAIN checkouts' \subseteq DOMAIN checkouts /\ sales' = sales
    BY <2>1 DEF CancelsIfPending, CancelExpiredCheckout, DeleteCheckouts, storeVars
  <2>5. m \in Removal /\ m.at = "clear" /\ m.subs \subseteq SubscriptionSales
    BY <1>1 DEF Removal
  <2>6. removal'[d] = m /\ SubscriptionSales' = SubscriptionSales
    BY <1>1, <2>1, <2>4 DEF Moves, SubscriptionSales
  <2> HIDE DEF m
  <2>7. RemovalGood(d)'
    BY <2>5, <2>6 DEF RemovalGood
  <2> QED
    BY <1>1, <2>1, <2>3, <2>4, <2>5, <2>7, RemovalMoves
<1>5. CASE AbandonsCarts(d)
  <2> DEFINE m == [me EXCEPT !.at = "finalize"]
  <2>1. PICK C \in SUBSET OpenCarts : AbandonOpenCartsForUser(C)
    BY <1>5 DEF AbandonsCarts
  <2>2. /\ Moves(d, m) /\ UNCHANGED <<checkouts, sales>> /\ UNCHANGED flowVars
        /\ UNCHANGED <<account, ended, canceled>>
    BY <1>5, <2>1 DEF AbandonsCarts, OnlyRemoval, AbandonOpenCartsForUser
  <2>3. StoreSafe /\ [Next]_storeVars
    BY <1>2, <2>1, <2>2, QuietIsSafe DEF Next, AccountStep, OpenCarts
  <2>4. StepKept
    BY <1>3, <2>2, <2>3
  <2>5. m \in Removal /\ m.at = "finalize" /\ m.subs \subseteq SubscriptionSales
    BY <1>1 DEF Removal
  <2>6. removal'[d] = m /\ SubscriptionSales' = SubscriptionSales
    BY <1>1, <2>2 DEF Moves, SubscriptionSales
  <2> HIDE DEF m
  <2>7. RemovalGood(d)'
    BY <2>5, <2>6 DEF RemovalGood
  <2> QED
    BY <1>1, <2>2, <2>4, <2>5, <2>7, RemovalMoves
<1>6. CASE DeletesUser(d)
  <2>1. /\ Attached = {} /\ LiveSubscriptions = {}
        /\ FinalizeUserDeletion(OpenCarts, Unattached)
        /\ account' = "deleted" /\ Stops(d)
        /\ UNCHANGED flowVars /\ UNCHANGED <<ended, canceled>>
    BY <1>6 DEF DeletesUser, DeletionBlocked
  <2>2. /\ checkouts' = [j \in DOMAIN checkouts \ Unattached |-> checkouts[j]]
        /\ sales' = sales
    BY <2>1 DEF FinalizeUserDeletion, DeleteCheckouts
  <2>3. Unattached \subseteq CheckoutIds /\ OpenCarts \subseteq Carts
    BY <1>2 DEF FlowInv, Inv, TypeOK, Unattached, Pending, OpenCarts
  <2>4. [Next]_storeVars
    BY <2>1, <2>3 DEF Next, AccountStep
  <2>5. StoreSafe
    BY <1>2, <2>2, NullAssumption
    DEF StoreSafe, FlowInv, SaleOnlyIfPaid, CheckoutsOfSession, Unattached
  <2>6. StepKept
    BY <1>3, <2>1, <2>4, <2>5
  <2>7. Pending' = {}
    BY <2>1, <2>2 DEF Pending, Attached, Unattached
  <2>8. LiveSubscriptions' = {}
    BY <2>1, <2>2 DEF LiveSubscriptions, SubscriptionSales
  <2>9. /\ removal' \in [Removers -> Removal]
        /\ \A e \in Removers : removal'[e] = removal[e] \/ removal'[e] = IdleRemoval
    BY <1>1, <2>1, IdleIsGood DEF Stops, Moves
  <2>10. \A e \in Removers : removal'[e] = removal[e] \/ RemovalGood(e)'
    BY <2>9, IdleIsGood DEF RemovalGood
  <2> QED
    BY <1>1, <2>1, <2>6, <2>7, <2>8, <2>9, <2>10, StepKeepsRemovalInv
<1> QED
  BY <1>4, <1>5, <1>6

-----------------------------------------------------------------------------

LEMMA InitRemovalInv == RemovalInit => RemovalInv
<1> SUFFICES ASSUME RemovalInit PROVE RemovalInv
  OBVIOUS
<1>1. FlowInv
  BY InitFlowInv DEF RemovalInit
<1>2. /\ removal = [d \in Removers |-> IdleRemoval]
      /\ account = "active" /\ ended = {} /\ canceled = {}
  BY DEF RemovalInit
<1>3. \A d \in Removers : RemovalGood(d)
  BY <1>2, IdleIsGood DEF RemovalGood
<1> QED
  BY <1>1, <1>2, <1>3, IdleIsGood DEF RemovalInv, RemovalTypeOK, FlowInv, CanceledIsEnded

LEMMA NextKeepsRemovalInv == RemovalInv /\ [RemovalNext]_allVars => RemovalKept
<1> SUFFICES ASSUME RemovalInv, [RemovalNext]_allVars PROVE RemovalKept
  OBVIOUS
<1>1. CASE UNCHANGED allVars
  <2>1. StepKept /\ UNCHANGED <<account, removal, ended, canceled>> /\ UNCHANGED <<checkouts, sales>>
    BY <1>1, StutterIsKept DEF allVars, accountVars, vars, storeVars, RemovalInv
  <2>2. account = "deleted" => Pending' = {} /\ LiveSubscriptions' = {}
    BY <2>1, DeletedStaysClear
  <2> QED
    BY <2>1, <2>2, StepKeepsRemovalInv DEF RemovalInv, RemovalTypeOK
<1>2. ASSUME NEW d \in Removers, RemovalStep(d) PROVE RemovalKept
  BY <1>2, QuietStepsKeepInv, StripeStepsKeepInv, StoreStepsKeepInv DEF RemovalStep
<1> QED
  BY <1>1, <1>2, ShopKeepsRemovalInv DEF RemovalNext

\* The invariant of removals beside requests, webhooks and payments, for any
\* number of each and any number of rounds.
THEOREM RemovalInvariant == RemovalSpec => []RemovalInv
<1>1. RemovalInv /\ [RemovalNext]_allVars => RemovalInv'
  BY NextKeepsRemovalInv DEF RemovalKept
<1> QED
  BY <1>1, InitRemovalInv, PTL DEF RemovalSpec

\* A deleted account leaves no payable session, no payment without a sale
\* and no running subscription.
THEOREM DeletedAccountsOweNothing == RemovalSpec => []DeletedOwesNothing
<1>1. ASSUME RemovalInv PROVE DeletedOwesNothing
  <2> SUFFICES ASSUME account = "deleted"
               PROVE  /\ \A x \in shown :
                           /\ stripe[x].status \notin {"open", "processing"}
                           /\ stripe[x].status = "paid" =>
                                \E i \in DOMAIN sales : sales[i].session = x
                      /\ \A i \in SubscriptionSales : sales[i].session \in ended
    BY DEF DeletedOwesNothing
  <2>1. /\ Pending = {} /\ SubscriptionSales \subseteq canceled /\ CanceledIsEnded
        /\ Inv /\ SaleOnlyIfPaid /\ PayableSessionHasCheckout
    BY <1>1 DEF RemovalInv, DeletionBlocked, LiveSubscriptions, FlowInv
  <2>2. ASSUME NEW x \in shown, Payable(x)
        PROVE  stripe[x].status = "paid" /\ \E i \in DOMAIN sales : sales[i].session = x
    <3> DEFINE i == stripe[x].checkout
    <3>1. i \in DOMAIN checkouts /\ checkouts[i].session = x
      BY <2>1, <2>2 DEF PayableSessionHasCheckout, Secured, CheckoutsOfSession
    <3>2. i \in DOMAIN sales /\ sales[i].session = x
      BY <2>1, <3>1 DEF Inv, SoldIffFulfilled
    <3> QED
      BY <2>1, <3>2 DEF SaleOnlyIfPaid
  <2> QED
    BY <2>1, <2>2 DEF Payable, CanceledIsEnded
<1> QED
  BY <1>1, RemovalInvariant, PTL

\* No row calls a subscription canceled that Stripe still bills.
THEOREM CanceledRowsAreTrue == RemovalSpec => []CanceledIsEnded
<1>1. RemovalInv => CanceledIsEnded
  BY DEF RemovalInv
<1> QED
  BY <1>1, RemovalInvariant, PTL

\* Removals do not take the checkout away from under a payment either.
THEOREM PaymentsSurviveRemovals == RemovalSpec => []PayableSessionHasCheckout
<1>1. RemovalInv => PayableSessionHasCheckout
  BY DEF RemovalInv, FlowInv
<1> QED
  BY <1>1, RemovalInvariant, PTL

\* Accounts, removals, sessions and subscription marks keep their types; a
\* removal never goes beyond its last round.
THEOREM RemovalTypes == RemovalSpec => []RemovalTypeOK
<1>1. RemovalInv => RemovalTypeOK
  BY DEF RemovalInv
<1> QED
  BY <1>1, RemovalInvariant, PTL

\* A removal uses the store only through its methods, as the handlers it
\* runs beside do.
THEOREM RemovalsImplementStore == RemovalSpec => ImplementsStore
<1>1. RemovalInit => Init
  BY DEF RemovalInit, FlowInit
<1>2. RemovalInv /\ [RemovalNext]_allVars => [Next]_storeVars
  BY NextKeepsRemovalInv DEF RemovalKept
<1> QED
  BY <1>1, <1>2, RemovalInvariant, PTL DEF RemovalSpec, ImplementsStore, Spec

\* Deleting accounts sells no cart twice, takes no sale back, loses or
\* invents no unit and never releases what a sale has claimed.
THEOREM RemovalsKeepTheStoresPromises ==
  RemovalSpec => []CartSoldOnce /\ SaleIsFinal /\ StockConserved /\ ImplementsShop
BY RemovalsImplementStore, CartsSoldOnce, SalesAreFinal, StockIsConserved,
   StoreImplementsShop, PTL DEF ImplementsStore

=============================================================================
