--------------------------- MODULE AccountRemoval ---------------------------
(***************************************************************************)
(* Deleting an account (cancelAndDeleteUser in internal/web/accounts.go)   *)
(* while its owner still checks out, pays and is sent webhooks: up to three *)
(* rounds of ending what Stripe holds for the account, then one            *)
(* transaction that refuses while anything is left.                        *)
(*                                                                         *)
(* Every cart and checkout of the model belongs to the one account that is *)
(* removed, and a Stripe subscription is named by the session that sold it. *)
(* A removal is a place its HTTP request runs in: the owner's               *)
(* /profile/delete or an administrator's, at the same time or twice.        *)
(***************************************************************************)
EXTENDS CheckoutFlow

CONSTANTS
  Removers,   \* removals in flight
  Rounds      \* 3 in the code

ASSUME RoundsAssumption == Rounds \in Nat \ {0}

VARIABLES
  account,    \* whether the row in users exists
  removal,    \* the removals
  ended,      \* sessions whose subscription Stripe has canceled
  canceled    \* commerce_subscriptions with status 'canceled', by checkout

accountVars == <<account, removal, ended, canceled>>
allVars == <<vars, accountVars>>

Removal ==
  [at       : {"idle", "list", "clear", "find", "release", "mark", "finalize"},
   round    : 0..Rounds,
   sessions : SUBSET Sessions,           \* CheckoutSessionIDs still to expire
   subs     : SUBSET CheckoutIds,        \* SubscriptionIDs still to cancel
   session  : Sessions \cup {NoSession},
   checkout : CheckoutIds \cup {NoCheckout}]

IdleRemoval ==
  [at |-> "idle", round |-> 0, sessions |-> {}, subs |-> {},
   session |-> NoSession, checkout |-> NoCheckout]

RemovalTypeOK ==
  /\ FlowTypeOK
  /\ account \in {"active", "deleted"}
  /\ removal \in [Removers -> Removal]
  /\ ended \subseteq Sessions
  /\ canceled \subseteq CheckoutIds

RemovalInit ==
  /\ FlowInit
  /\ account = "active"
  /\ removal = [d \in Removers |-> IdleRemoval]
  /\ ended = {}
  /\ canceled = {}

-----------------------------------------------------------------------------
(* What stands against deleting the account.                               *)

Attached == {i \in Pending : checkouts[i].session # NoSession}

SubscriptionSales == {i \in DOMAIN sales : sales[i].kind = "subscription"}

LiveSubscriptions == SubscriptionSales \ canceled

\* Mutant of DeletionBlocked: running subscriptions are not looked at.
BlockedByCheckouts == Attached # {}

\* The two NOT EXISTS of the DELETE FROM users.
DeletionBlocked == Attached # {} \/ LiveSubscriptions # {}

-----------------------------------------------------------------------------
(* Steps of a removal.                                                     *)

Removing(d, stage) == serverUp /\ removal[d].at = stage

Moves(d, to) == removal' = [removal EXCEPT ![d] = to]

Stops(d) == Moves(d, IdleRemoval)

OnlyRemoval == UNCHANGED <<flowVars, account, ended, canceled>>

\* The password and the confirmation were right, or it is an administrator.
BeginsRemoval(d) ==
  /\ Removing(d, "idle")
  /\ account = "active"
  /\ Moves(d, [IdleRemoval EXCEPT !.at = "list", !.round = 1])
  /\ UNCHANGED storeVars
  /\ OnlyRemoval

\* Mutant of ListsTargets: checkouts without a session are listed, too.
ListsAllTargets(d) ==
  /\ Removing(d, "list")
  /\ Moves(d, [removal[d] EXCEPT
       !.at = "clear",
       !.sessions = {checkouts[i].session : i \in Pending},
       !.subs = LiveSubscriptions])
  /\ UNCHANGED storeVars
  /\ OnlyRemoval

\* CancellationTargetsForUser.
ListsTargets(d) ==
  /\ Removing(d, "list")
  /\ Moves(d, [removal[d] EXCEPT
       !.at = "clear",
       !.sessions = {checkouts[i].session : i \in Attached},
       !.subs = LiveSubscriptions])
  /\ UNCHANGED storeVars
  /\ OnlyRemoval

\* ExpireSession is an error for a session that was completed.
CanExpire(x) == stripe[x].status \in {"open", "expired"}

StripeExpires(x) ==
  /\ CanExpire(x)
  /\ stripe' = [stripe EXCEPT ![x].status = IF @ = "open" THEN "expired" ELSE @]

ExpiresTarget(d, x) ==
  /\ Removing(d, "clear")
  /\ x \in removal[d].sessions
  /\ StripeExpires(x)
  /\ Moves(d, [removal[d] EXCEPT !.at = "find", !.sessions = @ \ {x}, !.session = x])
  /\ UNCHANGED <<storeVars, request, worker, shown, serverUp, faults,
                 account, ended, canceled>>

ExpiryFails(d, x) ==
  /\ Removing(d, "clear")
  /\ x \in removal[d].sessions
  /\ ~CanExpire(x)
  /\ Stops(d)
  /\ UNCHANGED storeVars
  /\ OnlyRemoval

\* CancelExpiredCheckoutForUser reads the id of the pending checkout of the
\* session, then calls CancelExpiredCheckout with it.
FindsCheckout(d) ==
  /\ Removing(d, "find")
  /\ LET found == CheckoutsOfSession(removal[d].session) \cap Pending
     IN  \/ /\ found = {}
            /\ Moves(d, [removal[d] EXCEPT !.at = "clear", !.session = NoSession])
         \/ \E i \in found :
              Moves(d, [removal[d] EXCEPT !.at = "release", !.checkout = i])
  /\ UNCHANGED storeVars
  /\ OnlyRemoval

ReleasesCheckout(d) ==
  /\ Removing(d, "release")
  /\ CancelsIfPending(removal[d].checkout, removal[d].session)
  /\ Moves(d, [removal[d] EXCEPT
       !.at = "clear", !.session = NoSession, !.checkout = NoCheckout])
  /\ OnlyRemoval

EndsSubscription(d, i) ==
  /\ Removing(d, "clear")
  /\ removal[d].sessions = {}
  /\ i \in removal[d].subs
  /\ ended' = ended \cup {sales[i].session}
  /\ Moves(d, [removal[d] EXCEPT !.at = "mark", !.subs = @ \ {i}, !.checkout = i])
  /\ UNCHANGED <<storeVars, flowVars, account, canceled>>

\* MarkSubscriptionCanceledForUser finds no row once the user is deleted.
MarksCanceled(d) ==
  /\ Removing(d, "mark")
  /\ IF account = "active"
     THEN /\ canceled' = canceled \cup {removal[d].checkout}
          /\ Moves(d, [removal[d] EXCEPT !.at = "clear", !.checkout = NoCheckout])
     ELSE /\ canceled' = canceled
          /\ Stops(d)
  /\ UNCHANGED <<storeVars, flowVars, account, ended>>

\* AbandonOpenCartsForUser; a cart left open is one created just after.
AbandonsCarts(d) ==
  /\ Removing(d, "clear")
  /\ removal[d].sessions = {}
  /\ removal[d].subs = {}
  /\ \E C \in SUBSET OpenCarts :
       /\ \A c \in OpenCarts \ C : InCart(c) = {}
       /\ AbandonOpenCartsForUser(C)
  /\ Moves(d, [removal[d] EXCEPT !.at = "finalize"])
  /\ OnlyRemoval

\* The transaction of FinalizeUserDeletion.
DeletesUser(d) ==
  /\ Removing(d, "finalize")
  /\ account = "active"
  /\ ~DeletionBlocked
  /\ FinalizeUserDeletion(OpenCarts, Unattached)
  /\ account' = "deleted"
  /\ Stops(d)
  /\ UNCHANGED <<flowVars, ended, canceled>>

\* ErrCancellationRequired: rolled back, once more with fresh targets.
Retries(d) ==
  /\ Removing(d, "finalize")
  /\ account = "active"
  /\ DeletionBlocked
  /\ IF removal[d].round < Rounds
     THEN Moves(d, [IdleRemoval EXCEPT !.at = "list", !.round = removal[d].round + 1])
     ELSE Stops(d)
  /\ UNCHANGED storeVars
  /\ OnlyRemoval

\* Another removal was first: nothing to delete, reported as done.
FindsUserGone(d) ==
  /\ Removing(d, "finalize")
  /\ account = "deleted"
  /\ Stops(d)
  /\ UNCHANGED storeVars
  /\ OnlyRemoval

\* Mutant of RemovalFails: the error of CancelSubscription is dropped.
RemovalGoesOn(d) ==
  /\ serverUp
  /\ removal[d].at # "idle"
  /\ IF removal[d].at = "clear" /\ removal[d].sessions = {} /\ removal[d].subs # {}
     THEN \E i \in removal[d].subs :
            Moves(d, [removal[d] EXCEPT !.at = "mark", !.subs = @ \ {i}, !.checkout = i])
     ELSE Stops(d)
  /\ Fault
  /\ UNCHANGED <<storeVars, request, worker, stripe, shown, serverUp,
                 account, ended, canceled>>

\* A call of the store or of Stripe fails, or the client hung up.
RemovalFails(d) ==
  /\ serverUp
  /\ removal[d].at # "idle"
  /\ Stops(d)
  /\ Fault
  /\ UNCHANGED <<storeVars, request, worker, stripe, shown, serverUp,
                 account, ended, canceled>>

\* Stripe did what it was asked to, but its answer was lost.
RemovalLosesAnswer(d) ==
  /\ Removing(d, "clear")
  /\ \/ /\ \E x \in removal[d].sessions : StripeExpires(x)
        /\ UNCHANGED ended
     \/ /\ removal[d].sessions = {}
        /\ \E i \in removal[d].subs : ended' = ended \cup {sales[i].session}
        /\ UNCHANGED stripe
  /\ Stops(d)
  /\ Fault
  /\ UNCHANGED <<storeVars, request, worker, shown, serverUp, account, canceled>>

RemovalStep(d) ==
  \/ BeginsRemoval(d) \/ ListsTargets(d)
  \/ \E x \in Sessions : ExpiresTarget(d, x) \/ ExpiryFails(d, x)
  \/ FindsCheckout(d) \/ ReleasesCheckout(d)
  \/ \E i \in CheckoutIds : EndsSubscription(d, i)
  \/ MarksCanceled(d) \/ AbandonsCarts(d)
  \/ DeletesUser(d) \/ Retries(d) \/ FindsUserGone(d)
  \/ RemovalFails(d) \/ RemovalLosesAnswer(d)

\* A new checkout of the account must name its row in users.
NamesUser == DOMAIN checkouts' \subseteq DOMAIN checkouts \/ account = "active"

\* The rest of the shop goes on meanwhile; a crash ends the removals, too.
ShopStep ==
  /\ FlowNext
  /\ NamesUser
  /\ removal' = [d \in Removers |-> IF serverUp' THEN removal[d] ELSE IdleRemoval]
  /\ UNCHANGED <<account, ended, canceled>>

RemovalNext == ShopStep \/ \E d \in Removers : RemovalStep(d)

RemovalSpec == RemovalInit /\ [][RemovalNext]_allVars

\* The webhooks' fairness; nobody has to go on with a removal.
FairRemovalSpec == RemovalSpec /\ Fairness

-----------------------------------------------------------------------------
(* What removing an account promises.                                      *)

\* A deleted account leaves nothing behind that costs its owner money: no
\* session of theirs can still be paid, whatever was paid is an order or a
\* subscription, and Stripe bills no subscription on.
DeletedOwesNothing ==
  account = "deleted" =>
    /\ \A x \in shown :
         /\ stripe[x].status \notin {"open", "processing"}
         /\ stripe[x].status = "paid" => \E i \in DOMAIN sales : sales[i].session = x
    /\ \A i \in SubscriptionSales : sales[i].session \in ended

\* The store calls a subscription canceled only if Stripe has canceled it,
\* wherever a removal broke off and however often it was tried.
CanceledIsEnded ==
  \A i \in canceled : i \in SubscriptionSales /\ sales[i].session \in ended

-----------------------------------------------------------------------------
(* The inductive invariant behind them.                                    *)

RemovalGood(d) ==
  LET m == removal[d]
  IN  /\ m.at \in {"find", "release"} =>
           m.session # NoSession /\ stripe[m.session].status = "expired"
      /\ m.subs \subseteq SubscriptionSales
      /\ m.at = "mark" =>
           m.checkout \in SubscriptionSales /\ sales[m.checkout].session \in ended

RemovalInv ==
  /\ FlowInv
  /\ RemovalTypeOK
  /\ \A d \in Removers : RemovalGood(d)
  /\ CanceledIsEnded
  /\ account = "deleted" => ~DeletionBlocked /\ Pending = {}

=============================================================================
