---------------------------- MODULE CheckoutFlow ----------------------------
(***************************************************************************)
(* The handlers of internal/web/checkout.go at work on CheckoutStore and   *)
(* Stripe: checkout requests, Stripe webhooks and the return page, running *)
(* side by side, calling Stripe between their store calls, failing half    *)
(* way and being cut off by a crash of the server.                         *)
(*                                                                         *)
(* A request is a place a HTTP request runs in: its stage is the next call *)
(* it makes, and what it read earlier is kept in its record, whatever has  *)
(* become of the row since.  Time is left open: any unattached checkout    *)
(* may be past its lease when a sweep looks, an open session may expire.    *)
(***************************************************************************)
EXTENDS CheckoutStore

CONSTANTS
  Requests,   \* checkout requests in flight
  Workers,    \* webhook deliveries and return pages in flight
  NoCheckout, \* no checkout id read
  NoCharge,   \* no snapshot loaded
  MaxFaults   \* bound: failed calls, lost answers and crashes

ASSUME FlowAssumption ==
  /\ NoCheckout \notin CheckoutIds
  /\ MaxFaults \in Nat

VARIABLES
  request,    \* the checkout requests
  worker,     \* the webhook and return page requests
  stripe,     \* the Checkout sessions Stripe holds
  shown,      \* sessions whose client secret reached a browser
  serverUp,   \* whether the process serves
  faults      \* faults so far

flowVars == <<request, worker, stripe, shown, serverUp, faults>>
vars == <<storeVars, flowVars>>

\* What a session is created to charge: the snapshot of a checkout.
Charge == [lines : Lines, terms : Terms]

Stages == {"idle", "cancel", "get", "drop", "sweep", "sweeping", "load",
           "create", "undo", "attach", "reload", "expire", "release"}

Request ==
  [at       : Stages,
   cart     : Carts \cup {NoCart},
   checkout : CheckoutIds \cup {NoCheckout},
   session  : Sessions \cup {NoSession},
   charge   : Charge \cup {NoCharge},
   todo     : SUBSET CheckoutIds]

IdleRequest ==
  [at |-> "idle", cart |-> NoCart, checkout |-> NoCheckout,
   session |-> NoSession, charge |-> NoCharge, todo |-> {}]

Worker ==
  [at       : {"idle", "fulfill", "cancel"},
   checkout : CheckoutIds \cup {NoCheckout},
   session  : Sessions \cup {NoSession}]

IdleWorker == [at |-> "idle", checkout |-> NoCheckout, session |-> NoSession]

\* "processing" is complete but not paid, "failed" is complete and never paid.
StripeSession ==
  [status   : {"unused", "open", "processing", "paid", "failed", "expired"},
   checkout : CheckoutIds \cup {NoCheckout},    \* metadata checkout_id
   charge   : Charge \cup {NoCharge}]

FlowTypeOK ==
  /\ TypeOK
  /\ request \in [Requests -> Request]
  /\ worker \in [Workers -> Worker]
  /\ stripe \in [Sessions -> StripeSession]
  /\ shown \subseteq Sessions
  /\ serverUp \in BOOLEAN
  /\ faults \in 0..MaxFaults

FlowInit ==
  /\ Init
  /\ request = [r \in Requests |-> IdleRequest]
  /\ worker = [w \in Workers |-> IdleWorker]
  /\ stripe = [x \in Sessions |->
       [status |-> "unused", checkout |-> NoCheckout, charge |-> NoCharge]]
  /\ shown = {}
  /\ serverUp = TRUE
  /\ faults = 0

-----------------------------------------------------------------------------
(* Steps of a checkout request.                                            *)

At(r, stage) == serverUp /\ request[r].at = stage

Goes(r, stage) == request' = [request EXCEPT ![r].at = stage]

Ends(r) == request' = [request EXCEPT ![r] = IdleRequest]

OnlyRequests == UNCHANGED <<worker, stripe, shown, serverUp, faults>>

\* Mutant of CancelsIfPending: the reservation is not given back.
CancelsKeepingStock(i, x) ==
  IF CanCancel(i, x)
  THEN /\ checkouts' = [j \in DOMAIN checkouts \ {i} |-> checkouts[j]]
       /\ UNCHANGED <<inventory, forSale, cartStatus, cartLines, sales>>
  ELSE UNCHANGED storeVars

\* A cancellation whose caller ignores that there is nothing to cancel.
CancelsIfPending(i, x) ==
  IF CanCancel(i, x) THEN CancelExpiredCheckout(i, x) ELSE UNCHANGED storeVars

Fault ==
  /\ faults < MaxFaults
  /\ faults' = faults + 1

\* checkoutCart up to the lookup in resumeCartCheckout: what is done first
\* depends on the checkout the cart already has.
BeginCartCheckout(r, c) ==
  /\ At(r, "idle")
  /\ InCart(c) # {}
  /\ request' = [request EXCEPT ![r] =
       IF CheckoutsOfCart(c) = {}
       THEN [IdleRequest EXCEPT !.at = "sweep", !.cart = c]
       ELSE LET i == CHOOSE j \in CheckoutsOfCart(c) : TRUE
                x == checkouts[i].session
            IN  [IdleRequest EXCEPT
                   !.at = IF x = NoSession THEN "cancel" ELSE "get",
                   !.cart = c, !.checkout = i, !.session = x]]
  /\ UNCHANGED storeVars
  /\ OnlyRequests

BeginSubscriptionCheckout(r) ==
  /\ At(r, "idle")
  /\ Goes(r, "sweep")
  /\ UNCHANGED storeVars
  /\ OnlyRequests

\* The cart's checkout had no session yet: cancel it and start afresh.
ResumeCancels(r) ==
  /\ At(r, "cancel")
  /\ CancelPendingCheckout(request[r].checkout)
  /\ Goes(r, "sweep")
  /\ OnlyRequests

\* It had one: show it again, follow it to the return page, or, when it has
\* expired, cancel the checkout and start afresh.
ResumeShows(r) ==
  /\ At(r, "get")
  /\ stripe[request[r].session].status = "open"
  /\ shown' = shown \cup {request[r].session}
  /\ Ends(r)
  /\ UNCHANGED <<storeVars, worker, stripe, serverUp, faults>>

ResumeRedirects(r) ==
  /\ At(r, "get")
  /\ stripe[request[r].session].status \in {"processing", "paid", "failed"}
  /\ Ends(r)
  /\ UNCHANGED storeVars
  /\ OnlyRequests

ResumeFindsExpired(r) ==
  /\ At(r, "get")
  /\ stripe[request[r].session].status = "expired"
  /\ Goes(r, "drop")
  /\ UNCHANGED storeVars
  /\ OnlyRequests

ResumeDrops(r) ==
  /\ At(r, "drop")
  /\ CancelExpiredCheckout(request[r].checkout, request[r].session)
  /\ Goes(r, "sweep")
  /\ OnlyRequests

\* The checkout went meanwhile: the request fails.
ResumeFails(r) ==
  /\ \/ At(r, "cancel") /\ ~CanCancel(request[r].checkout, NoSession)
     \/ At(r, "drop") /\ ~CanCancel(request[r].checkout, request[r].session)
  /\ Ends(r)
  /\ UNCHANGED storeVars
  /\ OnlyRequests

\* CancelStalePendingCheckouts reads the ids of the stale checkouts, then
\* cancels them one transaction each, skipping those it no longer finds.
ListStaleCheckouts(r, S) ==
  /\ At(r, "sweep")
  /\ S \subseteq Unattached
  /\ request' = [request EXCEPT ![r].at = "sweeping", ![r].todo = S]
  /\ UNCHANGED storeVars
  /\ OnlyRequests

SweepOne(r, i) ==
  /\ At(r, "sweeping")
  /\ i \in request[r].todo
  /\ request' = [request EXCEPT ![r].todo = @ \ {i}]
  /\ CancelsIfPending(i, NoSession)
  /\ OnlyRequests

\* The transaction of CreateCheckout.
Inserts(r, i, t) ==
  /\ At(r, "sweeping")
  /\ request[r].todo = {}
  /\ \/ request[r].cart # NoCart /\ CreateCheckout(request[r].cart, i, t)
     \/ /\ request[r].cart = NoCart
        /\ \E s \in Subscriptions : CreateSubscriptionCheckout(s, i, t)
  /\ request' = [request EXCEPT ![r] =
       [IdleRequest EXCEPT !.at = "load", !.checkout = i]]
  /\ OnlyRequests

\* CreateCheckout returns what it reads back by id after the commit.
Loads(r) ==
  /\ At(r, "load")
  /\ request[r].checkout \in DOMAIN checkouts
  /\ LET row == checkouts[request[r].checkout]
     IN  request' = [request EXCEPT ![r].at = "create",
           ![r].charge = [lines |-> row.lines, terms |-> row.terms]]
  /\ UNCHANGED storeVars
  /\ OnlyRequests

LoadFails(r) ==
  /\ At(r, "load")
  /\ request[r].checkout \notin DOMAIN checkouts
  /\ Ends(r)
  /\ UNCHANGED storeVars
  /\ OnlyRequests

\* Mutant of NewSession: priced from the catalog, not from the snapshot.
NewSessionAtListPrice(r, x) ==
  /\ stripe[x].status = "unused"
  /\ stripe' = [stripe EXCEPT ![x] =
       [status |-> "open", checkout |-> request[r].checkout,
        charge |-> [request[r].charge EXCEPT !.terms = CHOOSE t \in Terms : TRUE]]]

\* A session with the loaded snapshot and the checkout id as metadata.
NewSession(r, x) ==
  /\ stripe[x].status = "unused"
  /\ stripe' = [stripe EXCEPT ![x] =
       [status |-> "open", checkout |-> request[r].checkout,
        charge |-> request[r].charge]]

CreatesSession(r, x) ==
  /\ At(r, "create")
  /\ NewSession(r, x)
  /\ request' = [request EXCEPT ![r].at = "attach", ![r].session = x,
                                ![r].charge = NoCharge]
  /\ UNCHANGED <<storeVars, worker, shown, serverUp, faults>>

GoesUndo(r) ==
  request' = [request EXCEPT ![r].at = "undo", ![r].charge = NoCharge]

\* Stripe made the session but its answer was lost.
LosesSession(r, x) ==
  /\ At(r, "create")
  /\ NewSession(r, x)
  /\ GoesUndo(r)
  /\ Fault
  /\ UNCHANGED <<storeVars, worker, shown, serverUp>>

\* CreateSession returns an error and there is no session.
SessionRefused(r) ==
  /\ At(r, "create")
  /\ GoesUndo(r)
  /\ UNCHANGED storeVars
  /\ OnlyRequests

\* cancelUnattachedCheckout.
Undoes(r) ==
  /\ At(r, "undo")
  /\ CancelsIfPending(request[r].checkout, NoSession)
  /\ Ends(r)
  /\ OnlyRequests

Attaches(r) ==
  /\ At(r, "attach")
  /\ AttachStripeSession(request[r].checkout, request[r].session)
  /\ Goes(r, "reload")
  /\ OnlyRequests

AttachFails(r) ==
  /\ At(r, "attach")
  /\ ~CanAttach(request[r].checkout, request[r].session)
  /\ Goes(r, "expire")
  /\ UNCHANGED storeVars
  /\ OnlyRequests

\* AttachStripeSession reads the row back, and the page with the client
\* secret is rendered.
Renders(r) ==
  /\ At(r, "reload")
  /\ request[r].checkout \in DOMAIN checkouts
  /\ shown' = shown \cup {request[r].session}
  /\ Ends(r)
  /\ UNCHANGED <<storeVars, worker, stripe, serverUp, faults>>

ReloadFails(r) ==
  /\ At(r, "reload")
  /\ request[r].checkout \notin DOMAIN checkouts
  /\ Goes(r, "expire")
  /\ UNCHANGED storeVars
  /\ OnlyRequests

\* expireUnattachedStripeSession: ExpireSession, then CancelExpiredCheckout.
ExpiresSession(r) ==
  /\ At(r, "expire")
  /\ stripe[request[r].session].status \in {"open", "expired"}
  /\ stripe' = [stripe EXCEPT ![request[r].session].status = "expired"]
  /\ Goes(r, "release")
  /\ UNCHANGED <<storeVars, worker, shown, serverUp, faults>>

ExpiryRefused(r) ==
  /\ At(r, "expire")
  /\ stripe[request[r].session].status \in {"processing", "paid", "failed"}
  /\ Ends(r)
  /\ UNCHANGED storeVars
  /\ OnlyRequests

Releases(r) ==
  /\ At(r, "release")
  /\ CancelsIfPending(request[r].checkout, request[r].session)
  /\ Ends(r)
  /\ OnlyRequests

\* A call fails: the client hung up, the database or Stripe returned an
\* error, or CreateCheckout found the cart, the stock or the row unfit.
\* Once there is a session the handler expires it, before that it just ends.
Fails(r) ==
  /\ serverUp
  /\ request[r].at \notin {"idle", "create"}
  /\ IF request[r].at \in {"attach", "reload"} THEN Goes(r, "expire") ELSE Ends(r)
  /\ Fault
  /\ UNCHANGED <<storeVars, worker, stripe, shown, serverUp>>

\* CreateCheckout refuses: the cart or the SKU is not fit, there is no stock,
\* or the buyer's shipping choice is not one of the options.
CheckoutRefused(r) ==
  /\ At(r, "sweeping")
  /\ request[r].todo = {}
  /\ Ends(r)
  /\ UNCHANGED storeVars
  /\ OnlyRequests

-----------------------------------------------------------------------------
(* Webhooks and the return page.  Stripe may deliver an event late, more   *)
(* than once and in any order, and the customer may reload the return page *)
(* at any time, so a worker may take up a session in its final status      *)
(* whenever it is idle.                                                    *)

OnlyWorkers == UNCHANGED <<request, stripe, shown, serverUp, faults>>

WorkerIdle(w) == serverUp /\ worker[w].at = "idle"

WorkerEnds(w) == worker' = [worker EXCEPT ![w] = IdleWorker]

\* Mutant of FindsPaid: a completed session counts as paid.
FindsComplete(w, x) ==
  /\ WorkerIdle(w)
  /\ stripe[x].status \in {"processing", "paid"}
  /\ stripe[x].checkout \in CheckoutsOfSession(x)
  /\ worker' = [worker EXCEPT ![w] = [IdleWorker EXCEPT !.at = "fulfill", !.session = x]]
  /\ UNCHANGED storeVars
  /\ OnlyWorkers

\* fulfillSession, up to the metadata check.
FindsPaid(w, x) ==
  /\ WorkerIdle(w)
  /\ stripe[x].status = "paid"
  /\ stripe[x].checkout \in CheckoutsOfSession(x)
  /\ worker' = [worker EXCEPT ![w] = [IdleWorker EXCEPT !.at = "fulfill", !.session = x]]
  /\ UNCHANGED storeVars
  /\ OnlyWorkers

\* Fulfill looks the checkout up by its session again.
FulfillsSession(w) ==
  /\ serverUp
  /\ worker[w].at = "fulfill"
  /\ LET x == worker[w].session
         ready == {i \in CheckoutsOfSession(x) : CanFulfill(i)}
     IN  IF ready = {} THEN UNCHANGED storeVars ELSE \E i \in ready : Fulfill(i, x)
  /\ WorkerEnds(w)
  /\ OnlyWorkers

\* Mutant of Ended: completed without payment yet is taken for failed.
EndedUnpaid(x) == stripe[x].status \in {"expired", "failed", "processing"}

\* Mutant of Ended: a failed asynchronous payment is not listened for.
EndedExpired(x) == stripe[x].status = "expired"

\* The statuses whose events make the webhook cancel: the expired and the
\* async_payment_failed event.
Ended(x) == stripe[x].status \in {"expired", "failed"}

FindsEnded(w, x) ==
  /\ WorkerIdle(w)
  /\ Ended(x)
  /\ \E i \in CheckoutsOfSession(x) :
       worker' = [worker EXCEPT ![w] =
         [at |-> "cancel", checkout |-> i, session |-> x]]
  /\ UNCHANGED storeVars
  /\ OnlyWorkers

CancelsEnded(w) ==
  /\ serverUp
  /\ worker[w].at = "cancel"
  /\ CancelsIfPending(worker[w].checkout, worker[w].session)
  /\ WorkerEnds(w)
  /\ OnlyWorkers

WorkerFails(w) ==
  /\ serverUp
  /\ worker[w].at # "idle"
  /\ WorkerEnds(w)
  /\ Fault
  /\ UNCHANGED <<storeVars, request, stripe, shown, serverUp>>

-----------------------------------------------------------------------------
(* Stripe and the customer.  Nobody pays a session they were not shown.    *)

Becomes(x, from, to) ==
  /\ stripe[x].status = from
  /\ stripe' = [stripe EXCEPT ![x].status = to]
  /\ UNCHANGED <<storeVars, request, worker, shown, serverUp, faults>>

CustomerPays(x) == x \in shown /\ Becomes(x, "open", "paid")
PaysLater(x) == x \in shown /\ Becomes(x, "open", "processing")
PaymentClears(x) == Becomes(x, "processing", "paid")
PaymentFails(x) == Becomes(x, "processing", "failed")

\* Stripe gives a session a day: the request that made it is over by then.
TimesOut(x) ==
  /\ \A r \in Requests : request[r].session = x => request[r].at # "attach"
  /\ Becomes(x, "open", "expired")

CustomerEditsCart ==
  /\ serverUp
  /\ CartStep
  /\ UNCHANGED flowVars

-----------------------------------------------------------------------------
(* The process.                                                            *)

Crash ==
  /\ serverUp
  /\ Fault
  /\ serverUp' = FALSE
  /\ request' = [r \in Requests |-> IdleRequest]
  /\ worker' = [w \in Workers |-> IdleWorker]
  /\ UNCHANGED <<storeVars, stripe, shown>>

\* commerce.New sweeps: before the server listens, and when an operator runs
\* cmd/catalog or cmd/users beside it.
StartupSweeps(i) ==
  /\ CancelPendingCheckout(i)
  /\ UNCHANGED flowVars

Starts ==
  /\ ~serverUp
  /\ serverUp' = TRUE
  /\ UNCHANGED <<storeVars, request, worker, stripe, shown, faults>>

-----------------------------------------------------------------------------

RequestStep(r) ==
  \/ \E c \in Carts : BeginCartCheckout(r, c)
  \/ BeginSubscriptionCheckout(r)
  \/ ResumeCancels(r) \/ ResumeShows(r) \/ ResumeRedirects(r)
  \/ ResumeFindsExpired(r) \/ ResumeDrops(r) \/ ResumeFails(r)
  \/ \E S \in SUBSET CheckoutIds : ListStaleCheckouts(r, S)
  \/ \E i \in CheckoutIds :
       \/ SweepOne(r, i)
       \/ \E t \in Terms : Inserts(r, i, t)
  \/ CheckoutRefused(r) \/ Loads(r) \/ LoadFails(r)
  \/ \E x \in Sessions : CreatesSession(r, x) \/ LosesSession(r, x)
  \/ SessionRefused(r)
  \/ Undoes(r) \/ Attaches(r) \/ AttachFails(r) \/ Renders(r)
  \/ ReloadFails(r) \/ ExpiresSession(r) \/ ExpiryRefused(r) \/ Releases(r)
  \/ Fails(r)

WorkerStep(w) ==
  \/ \E x \in Sessions : FindsPaid(w, x) \/ FindsEnded(w, x)
  \/ FulfillsSession(w) \/ CancelsEnded(w) \/ WorkerFails(w)

StripeStep(x) ==
  \/ CustomerPays(x) \/ PaysLater(x)
  \/ PaymentClears(x) \/ PaymentFails(x) \/ TimesOut(x)

ProcessStep == Crash \/ Starts \/ \E i \in CheckoutIds : StartupSweeps(i)

FlowNext ==
  \/ \E r \in Requests : RequestStep(r)
  \/ \E w \in Workers : WorkerStep(w)
  \/ \E x \in Sessions : StripeStep(x)
  \/ CustomerEditsCart
  \/ ProcessStep

FlowSpec == FlowInit /\ [][FlowNext]_vars

\* Stripe retries an event until it is acknowledged, so the handling of a
\* session's final status is attempted again and again (strong fairness per
\* session: workers are also busy with other sessions); a handler that runs
\* makes its next call; a process that died is started again.
Fairness ==
  /\ \A x \in Sessions :
       /\ SF_vars(\E w \in Workers : FindsPaid(w, x))
       /\ SF_vars(\E w \in Workers : FindsEnded(w, x))
  /\ \A w \in Workers : WF_vars(FulfillsSession(w)) /\ WF_vars(CancelsEnded(w))
  /\ WF_vars(Starts)

FairFlowSpec == FlowSpec /\ Fairness

-----------------------------------------------------------------------------
(* What the handlers, the store and Stripe promise together.               *)

\* The process serves the store's interface and no other: every step of it
\* is one store method, or leaves the store alone.
ImplementsStore == Spec

\* Nothing is sold that was not paid: a sale is recorded for a session only
\* after Stripe has it as paid, whatever events come late or twice.
SaleOnlyIfPaid == \A i \in DOMAIN sales : stripe[sales[i].session].status = "paid"

Payable(x) == stripe[x].status \in {"open", "processing", "paid"}

\* A session that is or may be paid has the checkout it is to fulfil: the row
\* its metadata names carries it.
Secured(x) == Payable(x) => stripe[x].checkout \in CheckoutsOfSession(x)

\* A session a browser can pay, or has paid, is secured: no cancellation,
\* sweep, late event or crash takes the checkout away from under a payment.
PayableSessionHasCheckout == \A x \in shown : Secured(x)

\* What a handler learned from Stripe still holds when it acts on it: it
\* cancels for a session that can no longer be paid, and fulfils for one that
\* is paid, however long ago it asked.
LearnedStatusHolds ==
  /\ \A r \in Requests :
       request[r].at \in {"drop", "release"} =>
         stripe[request[r].session].status = "expired"
  /\ \A w \in Workers :
       /\ worker[w].at = "fulfill" => stripe[worker[w].session].status = "paid"
       /\ worker[w].at = "cancel" =>
            stripe[worker[w].session].status \in {"expired", "failed"}

\* What a customer was charged is what the sale records: the items, and the
\* terms, of the snapshot the session was created from.
ChargedWhatSold ==
  \A i \in DOMAIN sales :
    stripe[sales[i].session].charge = [lines |-> sales[i].lines, terms |-> sales[i].terms]

\* Every paid session ends in a sale, though webhooks and return pages fail
\* and the server crashes.
PaidIsSold ==
  \A x \in Sessions :
    stripe[x].status = "paid" ~> \E i \in DOMAIN sales : sales[i].session = x

\* A session that expired or failed to be paid gives up its reservation.
EndedIsReleased ==
  \A x \in Sessions :
    stripe[x].status \in {"expired", "failed"} ~> CheckoutsOfSession(x) = {}

-----------------------------------------------------------------------------
(* The inductive invariant behind the safety properties.                   *)

InUse(x) == stripe[x].status # "unused"

\* Where a request holds a session, and what the session is to its checkout.
RequestInv(r) ==
  LET q == request[r]
  IN  /\ q.session # NoSession => InUse(q.session)
      /\ q.at \in {"get", "drop", "attach", "reload", "expire", "release"} =>
           q.session # NoSession
      /\ q.at = "attach" => stripe[q.session].checkout = q.checkout
      /\ q.at \in {"get", "reload"} => Secured(q.session)

WorkerInv(w) == worker[w].at # "idle" => worker[w].session # NoSession

\* The row that carries a session is the one the session names.
RowsNamed ==
  \A i \in DOMAIN checkouts :
    LET x == checkouts[i].session
    IN  x # NoSession => InUse(x) /\ stripe[x].checkout = i

FlowInv ==
  /\ Inv
  /\ FlowTypeOK
  /\ \A r \in Requests : RequestInv(r)
  /\ \A w \in Workers : WorkerInv(w)
  /\ \A x \in shown : InUse(x)
  /\ RowsNamed
  /\ SaleOnlyIfPaid
  /\ PayableSessionHasCheckout
  /\ LearnedStatusHolds

-----------------------------------------------------------------------------
(* Behind ChargedWhatSold, which SQLite's reuse of row ids can break.      *)

\* What a checkout's session is to charge.
ToCharge(i) == [lines |-> checkouts[i].lines, terms |-> checkouts[i].terms]

\* A request that is about to make or attach a session holds the charge of
\* the row it will find.
RequestCharges(r) ==
  request[r].checkout \in DOMAIN checkouts =>
    /\ request[r].at = "create" => request[r].charge = ToCharge(request[r].checkout)
    /\ request[r].at = "attach" =>
         stripe[request[r].session].charge = ToCharge(request[r].checkout)

RowsCharged ==
  \A i \in DOMAIN checkouts :
    checkouts[i].session # NoSession => stripe[checkouts[i].session].charge = ToCharge(i)

ChargeInv == RowsCharged /\ \A r \in Requests : RequestCharges(r)

\* A request with the loaded snapshot of row i in its hands, or a session
\* made from it.
Charges(r, i) == request[r].at \in {"create", "attach"} /\ request[r].checkout = i

\* No insert gets the id of a deleted row a request still means to attach a
\* session to.  AUTOINCREMENT would make it so, and it is so while one request
\* runs at a time.
InsertsFreshId ==
  \A i \in DOMAIN checkouts' \ DOMAIN checkouts, r \in Requests : ~Charges(r, i)

IdsNotReused == [][InsertsFreshId]_vars

=============================================================================
