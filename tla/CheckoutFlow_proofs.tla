------------------------ MODULE CheckoutFlow_proofs ------------------------
(***************************************************************************)
(* Proofs that the handlers of CheckoutFlow use the store only through its *)
(* methods, so that everything proved of CheckoutStore holds of them, and  *)
(* that no payment loses its checkout and nothing unpaid is sold.          *)
(*                                                                         *)
(* A step has two effects, on the store and on what Stripe holds.          *)
(* StoreSafe and StripeGrows say what every step does to them; under these *)
(* two the invariant of everybody who does not move is kept                *)
(* (KeptByOthers), and each action only answers for the one who moves.     *)
(*                                                                         *)
(* The last part is about charges: while no insert reuses an id that a     *)
(* request still has in its hands, what was charged is what was sold.      *)
(***************************************************************************)
EXTENDS CheckoutFlow, CheckoutStore_proofs

\* A session in use stays in use, keeps the checkout it names, and leaves
\* its final statuses no more.
StripeGrows ==
  \A x \in Sessions :
    InUse(x) =>
      /\ InUse(x)'
      /\ stripe'[x].checkout = stripe[x].checkout
      /\ ~Payable(x) => stripe'[x].status = stripe[x].status
      /\ stripe[x].status = "paid" => stripe'[x].status = "paid"

\* Rows that carry a session carried it before or are named by it, those of
\* payable sessions stay, and sales are of paid sessions.
StoreSafe ==
  /\ \A j \in DOMAIN checkouts' :
       LET x == checkouts'[j].session
       IN  x # NoSession => \/ j \in CheckoutsOfSession(x)
                            \/ InUse(x) /\ stripe[x].checkout = j
  /\ \A x \in Sessions : Payable(x) => CheckoutsOfSession(x) \subseteq CheckoutsOfSession(x)'
  /\ \A j \in DOMAIN sales' : stripe[sales'[j].session].status = "paid"

\* RequestInv with what a request learned of its session.
RequestGood(r) ==
  /\ RequestInv(r)
  /\ request[r].at \in {"drop", "release"} => stripe[request[r].session].status = "expired"

WorkerGood(w) ==
  /\ WorkerInv(w)
  /\ worker[w].at = "fulfill" => stripe[worker[w].session].status = "paid"
  /\ worker[w].at = "cancel" =>
       stripe[worker[w].session].status \in {"expired", "failed"}

-----------------------------------------------------------------------------
(* What the store methods do.                                              *)

LEMMA QuietIsSafe ==
  ASSUME FlowInv, UNCHANGED <<checkouts, sales>>
  PROVE  StoreSafe
BY DEF FlowInv, StoreSafe, SaleOnlyIfPaid, CheckoutsOfSession

LEMMA CancelIsSafe ==
  ASSUME FlowInv, NEW i, NEW x, CancelExpiredCheckout(i, x),
         x = NoSession \/ ~Payable(x)
  PROVE  /\ StoreSafe
         /\ CancelPendingCheckout(i) \/ x # NoSession
         /\ i \in CheckoutIds
<1>1. /\ checkouts' = [j \in DOMAIN checkouts \ {i} |-> checkouts[j]]
      /\ sales' = sales
      /\ i \in DOMAIN checkouts
      /\ checkouts[i].session \in {NoSession, x}
  BY DEF CancelExpiredCheckout, DeleteCheckouts, CanCancel, Pending
<1>2. ASSUME NEW y \in Sessions, Payable(y)
      PROVE  CheckoutsOfSession(y) \subseteq CheckoutsOfSession(y)'
  <2>1. i \notin CheckoutsOfSession(y)
    BY <1>1, <1>2, NullAssumption DEF CheckoutsOfSession
  <2> QED
    BY <1>1, <2>1 DEF CheckoutsOfSession
<1>3. CancelPendingCheckout(i) \/ x # NoSession
  BY DEF CancelExpiredCheckout, CancelPendingCheckout
<1>4. i \in CheckoutIds
  BY <1>1 DEF FlowInv, Inv, TypeOK
<1> QED
  BY <1>1, <1>2, <1>3, <1>4
  DEF StoreSafe, FlowInv, SaleOnlyIfPaid, CheckoutsOfSession

LEMMA InsertIsSafe ==
  ASSUME FlowInv, NEW i \in CheckoutIds, NEW c, NEW lines, NEW t, InsertCheckout(i, c, lines, t)
  PROVE  StoreSafe
<1>1. /\ i \notin DOMAIN checkouts
      /\ DOMAIN checkouts' = DOMAIN checkouts \cup {i}
      /\ checkouts'[i].session = NoSession
      /\ \A j \in DOMAIN checkouts : checkouts'[j] = checkouts[j]
      /\ sales' = sales
  BY BoundAssumption DEF InsertCheckout, IsNextId, CheckoutIds
<1> QED
  BY <1>1 DEF StoreSafe, FlowInv, SaleOnlyIfPaid, CheckoutsOfSession

LEMMA FulfillIsSafe ==
  ASSUME FlowInv, NEW i \in CheckoutIds, NEW x \in Sessions, Fulfill(i, x),
         stripe[x].status = "paid"
  PROVE  StoreSafe
<1>1. /\ i \in DOMAIN checkouts
      /\ checkouts' = [checkouts EXCEPT ![i].status = "fulfilled"]
      /\ checkouts \in [DOMAIN checkouts -> Checkout]
  BY DEF Fulfill, CheckoutsOfSession, FlowInv, Inv, TypeOK
<1>2. /\ DOMAIN checkouts' = DOMAIN checkouts
      /\ \A j \in DOMAIN checkouts : checkouts'[j].session = checkouts[j].session
  <2>1. checkouts'[i] = [checkouts[i] EXCEPT !.status = "fulfilled"]
    BY <1>1
  <2>2. checkouts'[i].session = checkouts[i].session
    BY <1>1, <2>1 DEF Checkout
  <2> QED
    BY <1>1, <2>2
<1>3. \A j \in DOMAIN sales' : sales'[j].session = x \/ (j \in DOMAIN sales /\ sales'[j] = sales[j])
  BY DEF Fulfill
<1> QED
  BY <1>2, <1>3 DEF StoreSafe, FlowInv, SaleOnlyIfPaid, CheckoutsOfSession

LEMMA AttachIsSafe ==
  ASSUME FlowInv, NEW i \in CheckoutIds, NEW x \in Sessions, AttachStripeSession(i, x),
         InUse(x), stripe[x].checkout = i
  PROVE  StoreSafe /\ i \in DOMAIN checkouts' /\ checkouts'[i].session = x
<1>1. /\ i \in DOMAIN checkouts
      /\ checkouts[i].session \in {NoSession, x}
      /\ checkouts' = [checkouts EXCEPT ![i].session = x]
      /\ checkouts \in [DOMAIN checkouts -> Checkout]
      /\ sales' = sales
  BY DEF AttachStripeSession, CanAttach, Pending, FlowInv, Inv, TypeOK
<1>2. /\ DOMAIN checkouts' = DOMAIN checkouts
      /\ \A j \in DOMAIN checkouts \ {i} : checkouts'[j] = checkouts[j]
      /\ checkouts'[i].session = x
  <2>1. checkouts'[i] = [checkouts[i] EXCEPT !.session = x]
    BY <1>1
  <2>2. checkouts'[i].session = x
    BY <1>1, <2>1 DEF Checkout
  <2> QED
    BY <1>1, <2>2
<1> QED
  BY <1>1, <1>2, NullAssumption
  DEF StoreSafe, FlowInv, SaleOnlyIfPaid, CheckoutsOfSession

LEMMA CartStepIsQuiet == ASSUME CartStep PROVE UNCHANGED <<checkouts, sales>>
BY DEF CartStep, AddCartItem, AddCartSelection, UpdateCartItem, RemoveCartItem

-----------------------------------------------------------------------------
(* What is kept for everybody who does not move.                           *)

LEMMA KeptByOthers ==
  ASSUME FlowInv, TypeOK', StripeGrows, StoreSafe
  PROVE  /\ RowsNamed'
         /\ SaleOnlyIfPaid'
         /\ \A x \in Sessions : InUse(x) /\ Secured(x) => Secured(x)'
         /\ \A r \in Requests : request'[r] = request[r] => RequestGood(r)'
         /\ \A w \in Workers : worker'[w] = worker[w] => WorkerGood(w)'
<1>1. RowsNamed'
  <2> SUFFICES ASSUME NEW j \in DOMAIN checkouts', checkouts'[j].session # NoSession
               PROVE  /\ stripe'[checkouts'[j].session].status # "unused"
                      /\ stripe'[checkouts'[j].session].checkout = j
    BY DEF RowsNamed, InUse
  <2>1. checkouts'[j].session \in Sessions
    BY DEF TypeOK, Checkout
  <2>2. /\ InUse(checkouts'[j].session)
        /\ stripe[checkouts'[j].session].checkout = j
    BY DEF StoreSafe, CheckoutsOfSession, FlowInv, RowsNamed
  <2> QED
    BY <2>1, <2>2 DEF StripeGrows, InUse
<1>2. SaleOnlyIfPaid'
  <2> SUFFICES ASSUME NEW j \in DOMAIN sales'
               PROVE  stripe'[sales'[j].session].status = "paid"
    BY DEF SaleOnlyIfPaid
  <2>1. sales'[j].session \in Sessions
    BY DEF TypeOK, Sale
  <2> QED
    BY <2>1 DEF StoreSafe, StripeGrows, InUse
<1>3. ASSUME NEW x \in Sessions, InUse(x), Secured(x) PROVE Secured(x)'
  BY <1>3 DEF StripeGrows, StoreSafe, Secured, Payable
<1>4. ASSUME NEW r \in Requests, request'[r] = request[r] PROVE RequestGood(r)'
  <2>1. RequestGood(r)
    BY DEF FlowInv, RequestGood, LearnedStatusHolds
  <2>2. request[r].session \in Sessions \cup {NoSession}
    BY DEF FlowInv, FlowTypeOK, Request
  <2>3. CASE request[r].session = NoSession
    BY <1>4, <2>1, <2>3 DEF RequestGood, RequestInv
  <2>4. CASE request[r].session # NoSession
    <3>1. request[r].session \in Sessions /\ InUse(request[r].session)
      BY <2>1, <2>2, <2>4 DEF RequestGood, RequestInv
    <3>2. request[r].at \in {"drop", "release"} =>
            stripe'[request[r].session].status = "expired"
      BY <2>1, <3>1 DEF RequestGood, StripeGrows, Payable
    <3>3. InUse(request[r].session)'
             /\ (request[r].at = "attach" =>
                   stripe'[request[r].session].checkout = request[r].checkout)
      BY <1>4, <2>1, <3>1 DEF RequestGood, RequestInv, StripeGrows, InUse
    <3>4. request[r].at \in {"get", "reload"} => Secured(request[r].session)'
      BY <1>3, <1>4, <2>1, <3>1 DEF RequestGood, RequestInv, Secured, Payable, CheckoutsOfSession
    <3> QED
      BY <1>4, <2>1, <2>4, <3>2, <3>3, <3>4
      DEF RequestGood, RequestInv, InUse, Secured, Payable, CheckoutsOfSession
  <2> QED
    BY <2>3, <2>4
<1>5. ASSUME NEW w \in Workers, worker'[w] = worker[w] PROVE WorkerGood(w)'
  <2>1. WorkerInv(w) /\ worker[w].session \in Sessions \cup {NoSession}
    BY DEF FlowInv, FlowTypeOK, Worker
  <2> QED
    BY <1>5, <2>1
    DEF WorkerInv, WorkerGood, FlowInv, LearnedStatusHolds, StripeGrows, Payable, InUse
<1> QED
  BY <1>1, <1>2, <1>3, <1>4, <1>5

\* What is shown of every step: it keeps the invariant, is a step of the
\* store, or none, and takes nothing back that Stripe has said.
StepKept == FlowInv' /\ [Next]_storeVars /\ StripeGrows

\* What is left to show of a step.
LEMMA StepKeepsFlowInv ==
  ASSUME FlowInv, [Next]_storeVars, StripeGrows, StoreSafe,
         request' \in [Requests -> Request],
         worker' \in [Workers -> Worker],
         stripe' \in [Sessions -> StripeSession],
         shown' \subseteq Sessions,
         serverUp' \in BOOLEAN,
         faults' \in 0..MaxFaults,
         \A r \in Requests : request'[r] = request[r] \/ RequestGood(r)',
         \A w \in Workers : worker'[w] = worker[w] \/ WorkerGood(w)',
         \A x \in shown' \ shown : InUse(x) /\ Secured(x)
  PROVE  StepKept
<1>1. Inv' /\ TypeOK'
  BY NextKeepsInv DEF FlowInv, Inv
<1>2. FlowTypeOK'
  BY <1>1 DEF FlowTypeOK
<1>3. /\ RowsNamed'
      /\ SaleOnlyIfPaid'
      /\ \A x \in Sessions : InUse(x) /\ Secured(x) => Secured(x)'
      /\ \A r \in Requests : RequestGood(r)'
      /\ \A w \in Workers : WorkerGood(w)'
  BY <1>1, KeptByOthers
<1>4. \A x \in shown' : InUse(x) /\ Secured(x)
  BY DEF FlowInv, PayableSessionHasCheckout
<1>5. \A x \in shown' : InUse(x)' /\ Secured(x)'
  BY <1>3, <1>4 DEF StripeGrows
<1>6. LearnedStatusHolds'
  BY <1>3 DEF LearnedStatusHolds, RequestGood, WorkerGood
<1>7. (\A r \in Requests : RequestInv(r)') /\ (\A w \in Workers : WorkerInv(w)')
  BY <1>3 DEF RequestGood, WorkerGood
<1> QED
  BY <1>1, <1>2, <1>3, <1>5, <1>6, <1>7 DEF StepKept, FlowInv, PayableSessionHasCheckout

\* The store methods the handlers call are steps of the store.
LEMMA StoreCalls ==
  ASSUME NEW i \in CheckoutIds
  PROVE  /\ CancelPendingCheckout(i) => Next
         /\ \A x \in Sessions : AttachStripeSession(i, x) \/ CancelExpiredCheckout(i, x)
                                  \/ Fulfill(i, x) => Next
         /\ \A c \in Carts, t \in Terms : CreateCheckout(c, i, t) => Next
         /\ \A p \in Skus, t \in Terms : CreateSubscriptionCheckout(p, i, t) => Next
BY DEF Next, CheckoutStep

\* Cancelling what may be cancelled is a safe step of the store.
LEMMA CancelsSafely ==
  ASSUME FlowInv, NEW i, NEW x \in Sessions \cup {NoSession},
         CancelsIfPending(i, x) \/ CancelExpiredCheckout(i, x),
         x = NoSession \/ ~Payable(x)
  PROVE  StoreSafe /\ [Next]_storeVars
<1>1. CASE UNCHANGED storeVars
  BY <1>1, QuietIsSafe DEF storeVars
<1>2. CASE CancelExpiredCheckout(i, x)
  BY <1>2, CancelIsSafe, StoreCalls
<1> QED
  BY <1>1, <1>2 DEF CancelsIfPending

-----------------------------------------------------------------------------
(* Checkout requests.                                                      *)

\* What is left to show of a step of request r, whose record becomes q.
LEMMA RequestMoves ==
  ASSUME FlowInv, [Next]_storeVars, StripeGrows, StoreSafe,
         NEW r \in Requests, NEW q \in Request,
         request' = [request EXCEPT ![r] = q],
         stripe' \in [Sessions -> StripeSession],
         shown' \subseteq Sessions,
         \A x \in shown' \ shown : InUse(x) /\ Secured(x),
         faults' \in 0..MaxFaults,
         UNCHANGED <<worker, serverUp>>,
         RequestGood(r)'
  PROVE  StepKept
<1>1. /\ request \in [Requests -> Request]
      /\ worker \in [Workers -> Worker]
      /\ serverUp \in BOOLEAN
  BY DEF FlowInv, FlowTypeOK
<1>2. /\ request' \in [Requests -> Request]
      /\ \A p \in Requests : request'[p] = request[p] \/ p = r
  BY <1>1
<1> QED
  BY <1>1, <1>2, StepKeepsFlowInv

\* A record that holds no session, or the one it held, and does not rest on
\* what Stripe said of it.
Plain(r, q) ==
  /\ q \in Request
  /\ q.at \in {"idle", "cancel", "sweep", "sweeping", "load", "create", "undo"}
  /\ q.session \in {NoSession, request[r].session}

LEMMA PlainIsGood ==
  ASSUME FlowInv, StripeGrows, NEW r \in Requests, NEW q, Plain(r, q),
         request' = [request EXCEPT ![r] = q]
  PROVE  RequestGood(r)'
<1>1. request'[r] = q /\ request[r] \in Request
  BY DEF FlowInv, FlowTypeOK
<1>2. q.session # NoSession => InUse(q.session) /\ q.session \in Sessions
  BY <1>1 DEF Plain, FlowInv, RequestInv, Request
<1>3. q.session # NoSession => stripe'[q.session].status # "unused"
  BY <1>2 DEF StripeGrows, InUse
<1> QED
  BY <1>1, <1>3 DEF RequestGood, RequestInv, Plain, InUse

\* A step of a request that leaves Stripe alone and ends in a plain stage.
LEMMA PlainMove ==
  ASSUME FlowInv, [Next]_storeVars, StoreSafe, NEW r \in Requests, NEW q, Plain(r, q),
         request' = [request EXCEPT ![r] = q],
         faults' \in 0..MaxFaults,
         UNCHANGED <<worker, stripe, serverUp>>,
         shown' \subseteq Sessions,
         \A x \in shown' \ shown : InUse(x) /\ Secured(x)
  PROVE  StepKept
<1>1. StripeGrows
  BY DEF StripeGrows, InUse
<1>2. stripe' \in [Sessions -> StripeSession]
  BY DEF FlowInv, FlowTypeOK
<1> QED
  BY <1>1, <1>2, PlainIsGood, RequestMoves DEF Plain

\* A lookup keeps what it read in the record; it cancels nothing yet.
LEMMA BeginKeepsFlowInv ==
  ASSUME FlowInv, NEW r \in Requests, NEW c \in Carts, BeginCartCheckout(r, c)
  PROVE  StepKept
<1> DEFINE i == CHOOSE j \in CheckoutsOfCart(c) : TRUE
<1> DEFINE x == checkouts[i].session
<1>1. /\ StoreSafe /\ [Next]_storeVars /\ StripeGrows
      /\ UNCHANGED <<checkouts, worker, stripe, shown, serverUp, faults>>
      /\ faults' \in 0..MaxFaults
      /\ request \in [Requests -> Request]
      /\ stripe' \in [Sessions -> StripeSession]
      /\ shown' \subseteq Sessions
  BY QuietIsSafe
  DEF BeginCartCheckout, OnlyRequests, storeVars, StripeGrows, InUse, FlowInv, FlowTypeOK
<1>2. IdleRequest \in Request
  BY DEF IdleRequest, Request, Stages
<1>3. CASE CheckoutsOfCart(c) = {}
  <2> DEFINE q == [IdleRequest EXCEPT !.at = "sweep", !.cart = c]
  <2>1. Plain(r, q)
    BY DEF Plain, IdleRequest, Request, Stages
  <2>2. request' = [request EXCEPT ![r] = q]
    BY <1>3 DEF BeginCartCheckout
  <2> QED
    BY <1>1, <2>1, <2>2, PlainMove
<1>4. CASE CheckoutsOfCart(c) # {}
  <2> DEFINE q == [IdleRequest EXCEPT !.at = IF x = NoSession THEN "cancel" ELSE "get",
                     !.cart = c, !.checkout = i, !.session = x]
  <2>1. i \in DOMAIN checkouts
    BY <1>4 DEF CheckoutsOfCart
  <2>2. x \in Sessions \cup {NoSession} /\ i \in CheckoutIds
    BY <2>1 DEF FlowInv, Inv, TypeOK, Checkout
  <2>3. request' = [request EXCEPT ![r] = q]
    BY <1>4 DEF BeginCartCheckout
  <2> HIDE DEF i, x
  <2>4. q \in Request
    BY <2>2 DEF IdleRequest, Request, Stages
  <2>5. CASE x = NoSession
    <3>1. Plain(r, q)
      BY <2>4, <2>5 DEF Plain, IdleRequest
    <3> QED
      BY <1>1, <2>3, <3>1, PlainMove
  <2>6. CASE x # NoSession
    <3>1. q.at = "get" /\ q.session = x
      BY <2>6 DEF IdleRequest
    <3>2. InUse(x) /\ Secured(x)
      BY <2>1, <2>6 DEF x, FlowInv, RowsNamed, Secured, CheckoutsOfSession
    <3>3. request'[r] = q
      BY <1>1, <2>3
    <3> HIDE DEF q
    <3>4. RequestGood(r)'
      BY <1>1, <2>6, <3>1, <3>2, <3>3
      DEF RequestGood, RequestInv, InUse, Secured, Payable, CheckoutsOfSession
    <3> QED
      BY <1>1, <2>3, <2>4, <3>4, RequestMoves
  <2> QED
    BY <2>5, <2>6
<1> QED
  BY <1>3, <1>4

\* Steps that cancel, sweep, insert or read, and go on to a plain stage.
LEMMA PlainStepsKeepFlowInv ==
  ASSUME FlowInv, NEW r \in Requests,
         \/ BeginSubscriptionCheckout(r)
         \/ ResumeCancels(r) \/ ResumeShows(r) \/ ResumeRedirects(r)
         \/ ResumeDrops(r) \/ ResumeFails(r)
         \/ \E S \in SUBSET CheckoutIds : ListStaleCheckouts(r, S)
         \/ \E i \in CheckoutIds : SweepOne(r, i)
         \/ CheckoutRefused(r) \/ Loads(r) \/ LoadFails(r)
         \/ SessionRefused(r) \/ Undoes(r) \/ Renders(r) \/ ExpiryRefused(r) \/ Releases(r)
  PROVE  StepKept
<1> DEFINE me == request[r]
<1>1. /\ request \in [Requests -> Request]
      /\ me \in Request
      /\ RequestGood(r)
      /\ shown \subseteq Sessions
      /\ faults \in 0..MaxFaults
      /\ checkouts \in [DOMAIN checkouts -> Checkout]
  BY DEF FlowInv, FlowTypeOK, RequestGood, LearnedStatusHolds, Inv, TypeOK
<1>2. ASSUME NEW q, Plain(r, q), request' = [request EXCEPT ![r] = q],
             StoreSafe, [Next]_storeVars, OnlyRequests
      PROVE  StepKept
  BY <1>1, <1>2, PlainMove DEF OnlyRequests
<1>3. ASSUME NEW q, Plain(r, q), request' = [request EXCEPT ![r] = q],
             UNCHANGED storeVars, OnlyRequests
      PROVE  StepKept
  BY <1>2, <1>3, QuietIsSafe DEF storeVars
<1>4. Plain(r, IdleRequest) /\ (Ends(r) => request' = [request EXCEPT ![r] = IdleRequest])
  BY DEF Plain, IdleRequest, Request, Stages, Ends
<1>5. ASSUME NEW at \in {"idle", "cancel", "sweep", "sweeping", "load", "create", "undo"},
             Goes(r, at)
      PROVE  /\ Plain(r, [me EXCEPT !.at = at])
             /\ request' = [request EXCEPT ![r] = [me EXCEPT !.at = at]]
  BY <1>1, <1>5 DEF Goes, Plain, Request, Stages
<1>6. CASE BeginSubscriptionCheckout(r)
  BY <1>3, <1>5, <1>6 DEF BeginSubscriptionCheckout
<1>7. CASE ResumeCancels(r)
  <2>1. CancelExpiredCheckout(me.checkout, NoSession)
    BY <1>7 DEF ResumeCancels, CancelPendingCheckout, CancelExpiredCheckout
  <2> QED
    BY <1>2, <1>5, <1>7, <2>1, CancelsSafely DEF ResumeCancels
<1>8. CASE ResumeShows(r)
  <2>1. me.at = "get" /\ me.session \in Sessions
    BY <1>1, <1>8 DEF ResumeShows, At, RequestGood, RequestInv, Request
  <2>2. InUse(me.session) /\ Secured(me.session)
    BY <1>1, <1>8, <2>1 DEF ResumeShows, RequestGood, RequestInv, InUse
  <2>3. /\ StoreSafe /\ [Next]_storeVars
        /\ shown' \subseteq Sessions
        /\ \A x \in shown' \ shown : InUse(x) /\ Secured(x)
        /\ UNCHANGED <<worker, stripe, serverUp, faults>>
    BY <1>1, <1>8, <2>1, <2>2, QuietIsSafe DEF ResumeShows, storeVars
  <2> QED
    BY <1>1, <1>4, <1>8, <2>3, PlainMove DEF ResumeShows
<1>9. CASE ResumeRedirects(r) \/ ResumeFails(r) \/ CheckoutRefused(r) \/ LoadFails(r)
           \/ ExpiryRefused(r)
  BY <1>3, <1>4, <1>9
  DEF ResumeRedirects, ResumeFails, CheckoutRefused, LoadFails, ExpiryRefused
<1>10. CASE ResumeDrops(r)
  <2>1. me.session \in Sessions /\ ~Payable(me.session)
    BY <1>1, <1>10 DEF ResumeDrops, At, RequestGood, RequestInv, Request, Payable
  <2> QED
    BY <1>2, <1>5, <1>10, <2>1, CancelsSafely DEF ResumeDrops
<1>11. ASSUME NEW S \in SUBSET CheckoutIds, ListStaleCheckouts(r, S) PROVE StepKept
  <2> DEFINE q == [me EXCEPT !.at = "sweeping", !.todo = S]
  <2>1. Plain(r, q) /\ request' = [request EXCEPT ![r] = q]
    BY <1>1, <1>11 DEF ListStaleCheckouts, Plain, Request, Stages
  <2> QED
    BY <1>3, <1>11, <2>1 DEF ListStaleCheckouts
<1>12. ASSUME NEW i \in CheckoutIds, SweepOne(r, i) PROVE StepKept
  <2> DEFINE q == [me EXCEPT !.todo = @ \ {i}]
  <2>1. Plain(r, q) /\ request' = [request EXCEPT ![r] = q]
    BY <1>1, <1>12 DEF SweepOne, At, Plain, Request, Stages
  <2> QED
    BY <1>2, <1>12, <2>1, CancelsSafely DEF SweepOne
<1>13. CASE Loads(r)
  <2> DEFINE row == checkouts[me.checkout]
  <2> DEFINE q == [me EXCEPT !.at = "create",
                     !.charge = [lines |-> row.lines, terms |-> row.terms]]
  <2>1. [lines |-> row.lines, terms |-> row.terms] \in Charge
    BY <1>1, <1>13 DEF Loads, Checkout, Charge
  <2>2. Plain(r, q) /\ request' = [request EXCEPT ![r] = q]
    BY <1>1, <1>13, <2>1 DEF Loads, Plain, Request, Stages
  <2> QED
    BY <1>3, <1>13, <2>2 DEF Loads
<1>14. CASE SessionRefused(r)
  <2> DEFINE q == [me EXCEPT !.at = "undo", !.charge = NoCharge]
  <2>1. Plain(r, q) /\ request' = [request EXCEPT ![r] = q]
    BY <1>1, <1>14 DEF SessionRefused, GoesUndo, Plain, Request, Stages
  <2> QED
    BY <1>3, <1>14, <2>1 DEF SessionRefused
<1>15. CASE Undoes(r)
  BY <1>2, <1>4, <1>15, CancelsSafely DEF Undoes
<1>16. CASE Renders(r)
  <2>1. me.at = "reload" /\ me.session \in Sessions
    BY <1>1, <1>16 DEF Renders, At, RequestGood, RequestInv, Request
  <2>2. InUse(me.session) /\ Secured(me.session)
    BY <1>1, <2>1 DEF RequestGood, RequestInv
  <2>3. /\ StoreSafe /\ [Next]_storeVars
        /\ shown' \subseteq Sessions
        /\ \A x \in shown' \ shown : InUse(x) /\ Secured(x)
        /\ UNCHANGED <<worker, stripe, serverUp, faults>>
    BY <1>1, <1>16, <2>1, <2>2, QuietIsSafe DEF Renders, storeVars
  <2> QED
    BY <1>1, <1>4, <1>16, <2>3, PlainMove DEF Renders
<1>17. CASE Releases(r)
  <2>1. me.session \in Sessions /\ ~Payable(me.session)
    BY <1>1, <1>17 DEF Releases, At, RequestGood, RequestInv, Request, Payable
  <2> QED
    BY <1>2, <1>4, <1>17, <2>1, CancelsSafely DEF Releases
<1> QED
  BY <1>6, <1>7, <1>8, <1>9, <1>10, <1>11, <1>12, <1>13, <1>14, <1>15, <1>16, <1>17

\* The transaction of CreateCheckout.
LEMMA InsertKeepsFlowInv ==
  ASSUME FlowInv, NEW r \in Requests, NEW i \in CheckoutIds, NEW t \in Terms, Inserts(r, i, t)
  PROVE  StepKept
<1> DEFINE q == [IdleRequest EXCEPT !.at = "load", !.checkout = i]
<1>1. Plain(r, q) /\ request' = [request EXCEPT ![r] = q]
  BY DEF Inserts, Plain, IdleRequest, Request, Stages
<1>2. /\ faults' \in 0..MaxFaults
      /\ shown' = shown /\ shown' \subseteq Sessions
      /\ request[r].cart \in Carts \cup {NoCart}
      /\ UNCHANGED <<worker, stripe, serverUp>>
  BY DEF Inserts, OnlyRequests, FlowInv, FlowTypeOK, Request
<1>3. StoreSafe /\ [Next]_storeVars
  <2>1. CASE request[r].cart # NoCart /\ CreateCheckout(request[r].cart, i, t)
    BY <1>2, <2>1, InsertIsSafe, StoreCalls DEF CreateCheckout
  <2>2. ASSUME NEW p \in Subscriptions, CreateSubscriptionCheckout(p, i, t)
        PROVE  StoreSafe /\ [Next]_storeVars
    BY <2>2, InsertIsSafe, StoreCalls, CatalogAssumption DEF CreateSubscriptionCheckout
  <2> QED
    BY <2>1, <2>2 DEF Inserts
<1> QED
  BY <1>1, <1>2, <1>3, PlainMove

\* A session Stripe makes was in nobody's hands before.
LEMMA NewSessionGrows ==
  ASSUME FlowInv, NEW r \in Requests, NEW x \in Sessions, NewSession(r, x)
  PROVE  /\ StripeGrows
         /\ stripe' \in [Sessions -> StripeSession]
         /\ stripe'[x].status = "open"
         /\ stripe'[x].checkout = request[r].checkout
<1>1. /\ stripe \in [Sessions -> StripeSession]
      /\ request[r] \in Request
  BY DEF FlowInv, FlowTypeOK
<1> DEFINE new == [status |-> "open", checkout |-> request[r].checkout,
                   charge |-> request[r].charge]
<1>2. /\ new \in StripeSession
      /\ stripe' = [stripe EXCEPT ![x] = new]
      /\ ~InUse(x)
  BY <1>1 DEF NewSession, StripeSession, Request, InUse
<1>3. stripe'[x] = new /\ \A y \in Sessions \ {x} : stripe'[y] = stripe[y]
  BY <1>1, <1>2
<1> QED
  BY <1>1, <1>2, <1>3 DEF StripeGrows, InUse

LEMMA CreateSessionKeepsFlowInv ==
  ASSUME FlowInv, NEW r \in Requests, NEW x \in Sessions,
         CreatesSession(r, x) \/ LosesSession(r, x)
  PROVE  StepKept
<1> DEFINE me == request[r]
<1>1. /\ request \in [Requests -> Request]
      /\ me \in Request
      /\ NewSession(r, x)
      /\ UNCHANGED <<storeVars, worker, shown, serverUp>>
      /\ faults \in 0..MaxFaults
      /\ shown' \subseteq Sessions
  BY DEF CreatesSession, LosesSession, FlowInv, FlowTypeOK
<1>2. /\ StripeGrows
      /\ stripe' \in [Sessions -> StripeSession]
      /\ stripe'[x].status = "open"
      /\ stripe'[x].checkout = me.checkout
  BY <1>1, NewSessionGrows
<1>3. StoreSafe /\ [Next]_storeVars
  BY <1>1, QuietIsSafe DEF storeVars
<1>4. CASE CreatesSession(r, x)
  <2> DEFINE q == [me EXCEPT !.at = "attach", !.session = x, !.charge = NoCharge]
  <2>1. /\ q \in Request
        /\ request' = [request EXCEPT ![r] = q]
        /\ q.at = "attach" /\ q.session = x /\ q.checkout = me.checkout
    BY <1>1, <1>4 DEF CreatesSession, Request, Stages
  <2>2. request'[r] = q
    BY <1>1, <2>1
  <2> HIDE DEF q
  <2>3. RequestGood(r)'
    BY <1>2, <2>1, <2>2, NullAssumption DEF RequestGood, RequestInv, InUse
  <2> QED
    BY <1>1, <1>2, <1>3, <1>4, <2>1, <2>3, RequestMoves DEF CreatesSession
<1>5. CASE LosesSession(r, x)
  <2> DEFINE q == [me EXCEPT !.at = "undo", !.charge = NoCharge]
  <2>1. Plain(r, q) /\ request' = [request EXCEPT ![r] = q]
    BY <1>1, <1>5 DEF LosesSession, GoesUndo, Plain, Request, Stages
  <2>2. faults' \in 0..MaxFaults
    BY <1>1, <1>5, FlowAssumption DEF LosesSession, Fault
  <2>3. RequestGood(r)'
    BY <1>2, <2>1, PlainIsGood
  <2> QED
    BY <1>1, <1>2, <1>3, <2>1, <2>2, <2>3, RequestMoves DEF Plain
<1> QED
  BY <1>4, <1>5

\* The steps from a created session to a page, or to its expiry.
LEMMA SessionStepsKeepFlowInv ==
  ASSUME FlowInv, NEW r \in Requests,
         \/ ResumeFindsExpired(r) \/ Attaches(r) \/ AttachFails(r)
         \/ ReloadFails(r) \/ ExpiresSession(r)
  PROVE  StepKept
<1> DEFINE me == request[r]
<1> DEFINE x == me.session
<1>1. /\ request \in [Requests -> Request]
      /\ stripe \in [Sessions -> StripeSession]
      /\ me \in Request
      /\ RequestGood(r)
      /\ shown \subseteq Sessions
      /\ faults \in 0..MaxFaults
  BY DEF FlowInv, FlowTypeOK, RequestGood, LearnedStatusHolds
<1>2. /\ me.at \in {"get", "attach", "reload", "expire"}
      /\ x \in Sessions /\ InUse(x)
  BY <1>1
  DEF ResumeFindsExpired, Attaches, AttachFails, ReloadFails, ExpiresSession,
      At, RequestGood, RequestInv, Request
<1>3. ASSUME NEW at \in Stages, Goes(r, at)
      PROVE  /\ [me EXCEPT !.at = at] \in Request
             /\ request' = [request EXCEPT ![r] = [me EXCEPT !.at = at]]
             /\ request'[r].at = at
             /\ request'[r].session = x
             /\ request'[r].checkout = me.checkout
  BY <1>1, <1>3 DEF Goes, Request
<1>4. "drop" \in Stages /\ "reload" \in Stages /\ "expire" \in Stages /\ "release" \in Stages
  BY DEF Stages
<1>5. CASE ResumeFindsExpired(r)
  <2>1. /\ StoreSafe /\ [Next]_storeVars /\ StripeGrows
        /\ stripe' = stripe /\ shown' = shown /\ faults' = faults
        /\ UNCHANGED <<worker, serverUp>>
        /\ Goes(r, "drop") /\ stripe[x].status = "expired"
    BY <1>5, QuietIsSafe
    DEF ResumeFindsExpired, OnlyRequests, storeVars, StripeGrows, InUse
  <2>2. RequestGood(r)'
    BY <1>2, <1>3, <1>4, <2>1, NullAssumption DEF RequestGood, RequestInv, InUse
  <2> QED
    BY <1>1, <1>3, <1>4, <2>1, <2>2, RequestMoves
<1>6. CASE Attaches(r)
  <2>1. /\ me.at = "attach"
        /\ AttachStripeSession(me.checkout, x)
        /\ Goes(r, "reload")
        /\ stripe' = stripe /\ shown' = shown /\ faults' = faults
        /\ UNCHANGED <<worker, serverUp>>
    BY <1>6 DEF Attaches, At, OnlyRequests
  <2>2. stripe[x].checkout = me.checkout
    BY <1>1, <2>1 DEF RequestGood, RequestInv
  <2>3. me.checkout \in CheckoutIds
    BY <2>1 DEF AttachStripeSession, CanAttach, Pending, FlowInv, Inv, TypeOK
  <2>4. /\ StoreSafe /\ [Next]_storeVars
        /\ me.checkout \in DOMAIN checkouts' /\ checkouts'[me.checkout].session = x
    BY <1>2, <2>1, <2>2, <2>3, AttachIsSafe, StoreCalls
  <2>5. StripeGrows
    BY <2>1 DEF StripeGrows, InUse
  <2>6. \E i \in DOMAIN checkouts' : i = stripe'[x].checkout /\ checkouts'[i].session = x
    BY <2>1, <2>2, <2>4
  <2>7. RequestGood(r)'
    BY <1>2, <1>3, <1>4, <2>1, <2>6, NullAssumption
    DEF RequestGood, RequestInv, InUse, Secured, Payable, CheckoutsOfSession
  <2> QED
    BY <1>1, <1>3, <1>4, <2>1, <2>4, <2>5, <2>7, RequestMoves
<1>7. CASE AttachFails(r) \/ ReloadFails(r)
  <2>1. /\ StoreSafe /\ [Next]_storeVars /\ StripeGrows
        /\ stripe' = stripe /\ shown' = shown /\ faults' = faults
        /\ UNCHANGED <<worker, serverUp>>
        /\ Goes(r, "expire")
    BY <1>7, QuietIsSafe
    DEF AttachFails, ReloadFails, OnlyRequests, storeVars, StripeGrows, InUse
  <2>2. RequestGood(r)'
    BY <1>2, <1>3, <1>4, <2>1, NullAssumption DEF RequestGood, RequestInv, InUse
  <2> QED
    BY <1>1, <1>3, <1>4, <2>1, <2>2, RequestMoves
<1>8. CASE ExpiresSession(r)
  <2>1. /\ StoreSafe /\ [Next]_storeVars
        /\ stripe[x].status \in {"open", "expired"}
        /\ stripe' = [stripe EXCEPT ![x].status = "expired"]
        /\ shown' = shown /\ faults' = faults
        /\ UNCHANGED <<worker, serverUp>>
        /\ Goes(r, "release")
    BY <1>8, QuietIsSafe DEF ExpiresSession, storeVars
  <2>2. /\ stripe' \in [Sessions -> StripeSession]
        /\ stripe'[x].status = "expired" /\ stripe'[x].checkout = stripe[x].checkout
        /\ \A y \in Sessions \ {x} : stripe'[y] = stripe[y]
    BY <1>1, <1>2, <2>1 DEF StripeSession
  <2>3. StripeGrows
    BY <1>1, <2>1, <2>2 DEF StripeGrows, InUse, Payable
  <2>4. RequestGood(r)'
    BY <1>2, <1>3, <1>4, <2>1, <2>2, NullAssumption DEF RequestGood, RequestInv, InUse
  <2> QED
    BY <1>1, <1>3, <1>4, <2>1, <2>2, <2>3, <2>4, RequestMoves
<1> QED
  BY <1>5, <1>6, <1>7, <1>8

\* A failing request only forgets, or goes to expire the session it holds.
LEMMA FailKeepsFlowInv ==
  ASSUME FlowInv, NEW r \in Requests, Fails(r)
  PROVE  StepKept
<1> DEFINE me == request[r]
<1>1. /\ request \in [Requests -> Request]
      /\ me \in Request
      /\ RequestGood(r)
      /\ shown' \subseteq Sessions
      /\ faults' \in 0..MaxFaults
      /\ StoreSafe /\ [Next]_storeVars /\ StripeGrows
      /\ stripe' \in [Sessions -> StripeSession]
      /\ UNCHANGED <<worker, stripe, shown, serverUp>>
  BY QuietIsSafe, FlowAssumption
  DEF Fails, Fault, storeVars, StripeGrows, InUse, FlowInv, FlowTypeOK, RequestGood,
      LearnedStatusHolds
<1>2. CASE Ends(r)
  <2>1. Plain(r, IdleRequest) /\ request' = [request EXCEPT ![r] = IdleRequest]
    BY <1>2 DEF Plain, IdleRequest, Request, Stages, Ends
  <2> QED
    BY <1>1, <2>1, PlainMove
<1>3. CASE me.at \in {"attach", "reload"} /\ Goes(r, "expire")
  <2> DEFINE q == [me EXCEPT !.at = "expire"]
  <2>1. /\ q \in Request
        /\ request' = [request EXCEPT ![r] = q]
        /\ request'[r].at = "expire" /\ request'[r].session = me.session
    BY <1>1, <1>3 DEF Goes, Request, Stages
  <2>2. RequestGood(r)'
    BY <1>1, <1>3, <2>1 DEF RequestGood, RequestInv, InUse
  <2> QED
    BY <1>1, <2>1, <2>2, RequestMoves
<1> QED
  BY <1>2, <1>3 DEF Fails

\* Every step of a checkout request preserves the invariant.
LEMMA RequestStepKeepsFlowInv ==
  ASSUME FlowInv, NEW r \in Requests, RequestStep(r)
  PROVE  StepKept
BY BeginKeepsFlowInv, PlainStepsKeepFlowInv, InsertKeepsFlowInv,
   CreateSessionKeepsFlowInv, SessionStepsKeepFlowInv, FailKeepsFlowInv
DEF RequestStep

-----------------------------------------------------------------------------
(* Webhooks, the return page, Stripe and the process.                      *)

\* A worker acts on what it learned of its session, which is still so.
LEMMA WorkerStepKeepsFlowInv ==
  ASSUME FlowInv, NEW w \in Workers, WorkerStep(w)
  PROVE  StepKept
<1> DEFINE me == worker[w]
<1>1. /\ worker \in [Workers -> Worker]
      /\ me \in Worker
      /\ WorkerInv(w)
      /\ request \in [Requests -> Request]
      /\ stripe \in [Sessions -> StripeSession]
      /\ shown \subseteq Sessions
      /\ serverUp \in BOOLEAN
      /\ faults \in 0..MaxFaults
  BY DEF FlowInv, FlowTypeOK
<1>2. UNCHANGED stripe => StripeGrows
  BY DEF StripeGrows, InUse
<1>3. ASSUME NEW q \in Worker, worker' = [worker EXCEPT ![w] = q],
             UNCHANGED <<request, stripe, shown, serverUp>>, faults' \in 0..MaxFaults,
             StoreSafe, [Next]_storeVars,
             q.at # "idle" => q.session # NoSession,
             q.at = "fulfill" => stripe[q.session].status = "paid",
             q.at = "cancel" => stripe[q.session].status \in {"expired", "failed"}
      PROVE  StepKept
  <2>1. worker' \in [Workers -> Worker] /\ worker'[w] = q
        /\ \A v \in Workers : worker'[v] = worker[v] \/ v = w
    BY <1>1, <1>3
  <2>2. WorkerGood(w)'
    BY <1>3, <2>1 DEF WorkerGood, WorkerInv
  <2> QED
    BY <1>1, <1>2, <1>3, <2>1, <2>2, StepKeepsFlowInv
<1>4. IdleWorker \in Worker /\ IdleWorker.at = "idle"
  BY DEF IdleWorker, Worker
<1>5. WorkerEnds(w) => worker' = [worker EXCEPT ![w] = IdleWorker]
  BY DEF WorkerEnds
<1>6. ASSUME NEW x \in Sessions, FindsPaid(w, x) PROVE StepKept
  <2> DEFINE q == [IdleWorker EXCEPT !.at = "fulfill", !.session = x]
  <2>1. /\ q \in Worker
        /\ q.at = "fulfill" /\ q.session = x
    BY DEF IdleWorker, Worker
  <2>2. /\ worker' = [worker EXCEPT ![w] = q]
        /\ stripe[x].status = "paid"
        /\ StoreSafe /\ [Next]_storeVars
        /\ UNCHANGED <<request, stripe, shown, serverUp>>
        /\ faults' \in 0..MaxFaults
    BY <1>1, <1>6, QuietIsSafe DEF FindsPaid, OnlyWorkers, storeVars
  <2> QED
    BY <1>3, <2>1, <2>2, NullAssumption
<1>7. ASSUME NEW x \in Sessions, FindsEnded(w, x) PROVE StepKept
  <2> PICK i \in CheckoutsOfSession(x) :
        worker' = [worker EXCEPT ![w] = [at |-> "cancel", checkout |-> i, session |-> x]]
    BY <1>7 DEF FindsEnded
  <2> DEFINE q == [at |-> "cancel", checkout |-> i, session |-> x]
  <2>1. i \in CheckoutIds
    BY DEF CheckoutsOfSession, FlowInv, Inv, TypeOK
  <2>2. /\ q \in Worker
        /\ q.at = "cancel" /\ q.session = x
    BY <2>1 DEF Worker
  <2>3. /\ stripe[x].status \in {"expired", "failed"}
        /\ StoreSafe /\ [Next]_storeVars
        /\ UNCHANGED <<request, stripe, shown, serverUp>>
        /\ faults' \in 0..MaxFaults
    BY <1>1, <1>7, QuietIsSafe DEF FindsEnded, Ended, OnlyWorkers, storeVars
  <2> QED
    BY <1>3, <2>2, <2>3, NullAssumption
<1>8. ASSUME WorkerEnds(w), OnlyWorkers, StoreSafe, [Next]_storeVars PROVE StepKept
  BY <1>1, <1>3, <1>4, <1>5, <1>8 DEF OnlyWorkers
<1>9. CASE FulfillsSession(w)
  <2>1. me.session \in Sessions /\ stripe[me.session].status = "paid"
    BY <1>1, <1>9 DEF FulfillsSession, WorkerInv, Worker, FlowInv, LearnedStatusHolds
  <2>2. CASE UNCHANGED storeVars
    BY <1>8, <1>9, <2>2, QuietIsSafe DEF FulfillsSession, storeVars
  <2>3. CASE \E i \in CheckoutsOfSession(me.session) : Fulfill(i, me.session)
    <3> PICK i \in CheckoutsOfSession(me.session) : Fulfill(i, me.session)
      BY <2>3
    <3>1. i \in CheckoutIds
      BY DEF CheckoutsOfSession, FlowInv, Inv, TypeOK
    <3> QED
      BY <1>8, <1>9, <2>1, <3>1, FulfillIsSafe, StoreCalls DEF FulfillsSession
  <2> QED
    BY <1>9, <2>2, <2>3 DEF FulfillsSession
<1>10. CASE CancelsEnded(w)
  <2>1. me.session \in Sessions /\ ~Payable(me.session)
    BY <1>1, <1>10
    DEF CancelsEnded, WorkerInv, Worker, FlowInv, LearnedStatusHolds, Payable
  <2> QED
    BY <1>8, <1>10, <2>1, CancelsSafely DEF CancelsEnded
<1>11. CASE WorkerFails(w)
  <2>1. /\ faults' \in 0..MaxFaults
        /\ StoreSafe /\ [Next]_storeVars
        /\ UNCHANGED <<request, stripe, shown, serverUp>>
    BY <1>1, <1>11, QuietIsSafe, FlowAssumption DEF WorkerFails, Fault, storeVars
  <2> QED
    BY <1>3, <1>4, <1>5, <1>11, <2>1 DEF WorkerFails
<1> QED
  BY <1>6, <1>7, <1>9, <1>10, <1>11 DEF WorkerStep

\* A session runs its course: an ended one never becomes payable again.
LEMMA StripeStepKeepsFlowInv ==
  ASSUME FlowInv, NEW x \in Sessions, StripeStep(x)
  PROVE  StepKept
<1> PICK from, to :
      /\ Becomes(x, from, to)
      /\ <<from, to>> \in {<<"open", "paid">>, <<"open", "processing">>,
                           <<"processing", "paid">>, <<"processing", "failed">>,
                           <<"open", "expired">>}
  BY DEF StripeStep, CustomerPays, PaysLater, PaymentClears, PaymentFails, TimesOut
<1>1. /\ request \in [Requests -> Request]
      /\ worker \in [Workers -> Worker]
      /\ stripe \in [Sessions -> StripeSession]
      /\ shown \subseteq Sessions
      /\ serverUp \in BOOLEAN
      /\ faults \in 0..MaxFaults
  BY DEF FlowInv, FlowTypeOK
<1>2. /\ from \in {"open", "processing"}
      /\ to \in {"paid", "processing", "failed", "expired"}
      /\ stripe[x].status = from
      /\ stripe' = [stripe EXCEPT ![x].status = to]
      /\ UNCHANGED <<storeVars, request, worker, shown, serverUp, faults>>
  BY DEF Becomes
<1>3. /\ stripe' \in [Sessions -> StripeSession]
      /\ stripe'[x].status = to /\ stripe'[x].checkout = stripe[x].checkout
      /\ \A y \in Sessions \ {x} : stripe'[y] = stripe[y]
  BY <1>1, <1>2 DEF StripeSession
<1>4. StripeGrows
  BY <1>2, <1>3 DEF StripeGrows, InUse, Payable
<1>5. StoreSafe /\ [Next]_storeVars
  BY <1>2, QuietIsSafe DEF storeVars
<1> QED
  BY <1>1, <1>2, <1>3, <1>4, <1>5, StepKeepsFlowInv

\* Editing a cart, crashing, starting and sweeping at the start preserve it.
LEMMA OtherStepsKeepFlowInv ==
  ASSUME FlowInv, CustomerEditsCart \/ ProcessStep
  PROVE  StepKept
<1>1. /\ request \in [Requests -> Request]
      /\ worker \in [Workers -> Worker]
      /\ stripe \in [Sessions -> StripeSession]
      /\ shown \subseteq Sessions
      /\ serverUp \in BOOLEAN
      /\ faults \in 0..MaxFaults
  BY DEF FlowInv, FlowTypeOK
<1>2. UNCHANGED stripe => StripeGrows
  BY DEF StripeGrows, InUse
<1>3. CASE CustomerEditsCart
  <2>1. StoreSafe /\ [Next]_storeVars /\ UNCHANGED flowVars
    BY <1>3, CartStepIsQuiet, QuietIsSafe DEF CustomerEditsCart, Next
  <2> QED
    BY <1>1, <1>2, <2>1, StepKeepsFlowInv DEF flowVars
<1>4. ASSUME NEW i \in CheckoutIds, StartupSweeps(i) PROVE StepKept
  <2>1. CancelExpiredCheckout(i, NoSession)
    BY <1>4 DEF StartupSweeps, CancelPendingCheckout, CancelExpiredCheckout
  <2>2. StoreSafe /\ [Next]_storeVars /\ UNCHANGED flowVars
    BY <1>4, <2>1, CancelsSafely DEF StartupSweeps
  <2> QED
    BY <1>1, <1>2, <2>2, StepKeepsFlowInv DEF flowVars
<1>5. CASE Starts
  <2>1. StoreSafe /\ [Next]_storeVars
    BY <1>5, QuietIsSafe DEF Starts, storeVars
  <2> QED
    BY <1>1, <1>2, <1>5, <2>1, StepKeepsFlowInv DEF Starts
<1>6. CASE Crash
  <2>1. /\ Fault /\ serverUp' = FALSE
        /\ UNCHANGED <<storeVars, stripe, shown>>
        /\ request' = [r \in Requests |-> IdleRequest]
        /\ worker' = [w \in Workers |-> IdleWorker]
    BY <1>6 DEF Crash
  <2>2. IdleRequest \in Request /\ IdleRequest.at = "idle" /\ IdleRequest.session = NoSession
        /\ IdleWorker \in Worker /\ IdleWorker.at = "idle"
    BY DEF IdleRequest, IdleWorker, Request, Worker, Stages
  <2>3. request' \in [Requests -> Request] /\ worker' \in [Workers -> Worker]
    BY <2>1, <2>2
  <2>4. (\A r \in Requests : RequestGood(r)') /\ (\A w \in Workers : WorkerGood(w)')
    BY <2>1, <2>2 DEF RequestGood, RequestInv, WorkerGood, WorkerInv
  <2>5. StoreSafe /\ [Next]_storeVars
    BY <2>1, QuietIsSafe DEF storeVars
  <2>6. faults' \in 0..MaxFaults
    BY <1>1, <2>1, FlowAssumption DEF Fault
  <2> QED
    BY <1>1, <1>2, <2>1, <2>3, <2>4, <2>5, <2>6, StepKeepsFlowInv
<1> QED
  BY <1>3, <1>4, <1>5, <1>6 DEF ProcessStep

-----------------------------------------------------------------------------

LEMMA InitFlowInv == FlowInit => FlowInv
<1> SUFFICES ASSUME FlowInit PROVE FlowInv
  OBVIOUS
<1>1. Inv /\ TypeOK
  BY InitInv DEF FlowInit, Inv
<1>2. DOMAIN checkouts = {} /\ DOMAIN sales = {}
  BY DEF FlowInit, Init
<1>3. FlowTypeOK
  BY <1>1, FlowAssumption
  DEF FlowInit, FlowTypeOK, Request, IdleRequest, Worker, IdleWorker, StripeSession, Stages
<1> QED
  BY <1>1, <1>2, <1>3
  DEF FlowInit, FlowInv, RequestInv, IdleRequest, WorkerInv, IdleWorker, RowsNamed,
      SaleOnlyIfPaid, PayableSessionHasCheckout, LearnedStatusHolds

\* A step that neither the store nor Stripe nor a handler takes part in.
LEMMA StutterIsKept == ASSUME FlowInv, UNCHANGED vars PROVE StepKept
<1>1. /\ StoreSafe /\ [Next]_storeVars /\ StripeGrows
      /\ UNCHANGED <<request, worker, stripe, shown, serverUp, faults>>
  BY QuietIsSafe DEF vars, flowVars, storeVars, StripeGrows, InUse
<1> QED
  BY <1>1, StepKeepsFlowInv DEF FlowInv, FlowTypeOK

LEMMA NextKeepsFlowInv == FlowInv /\ [FlowNext]_vars => StepKept
<1> SUFFICES ASSUME FlowInv, [FlowNext]_vars PROVE StepKept
  OBVIOUS
<1> QED
  BY StutterIsKept, RequestStepKeepsFlowInv, WorkerStepKeepsFlowInv, StripeStepKeepsFlowInv,
     OtherStepsKeepFlowInv DEF FlowNext

\* The invariant of handlers, store and Stripe together, for any number of
\* requests, workers, sessions, carts and faults.
THEOREM FlowInvariant == FlowSpec => []FlowInv
<1>1. FlowInv /\ [FlowNext]_vars => FlowInv'
  BY NextKeepsFlowInv DEF StepKept
<1> QED
  BY <1>1, InitFlowInv, PTL DEF FlowSpec

\* The server is a user of the store: what is proved of every order of calls
\* of the store's methods holds of the handlers running side by side.
THEOREM FlowImplementsStore == FlowSpec => ImplementsStore
<1>1. FlowInit => Init
  BY DEF FlowInit
<1>2. FlowInv /\ [FlowNext]_vars => [Next]_storeVars
  BY NextKeepsFlowInv DEF StepKept
<1> QED
  BY <1>1, <1>2, FlowInvariant, PTL DEF FlowSpec, ImplementsStore, Spec

\* No cancellation, sweep, late event or crash takes a checkout away from
\* under a session a customer can pay or has paid.
THEOREM PaymentsKeepTheirCheckout == FlowSpec => []PayableSessionHasCheckout
<1>1. FlowInv => PayableSessionHasCheckout
  BY DEF FlowInv
<1> QED
  BY <1>1, FlowInvariant, PTL

\* Nothing unpaid is sold.
THEOREM OnlyPaidIsSold == FlowSpec => []SaleOnlyIfPaid
<1>1. FlowInv => SaleOnlyIfPaid
  BY DEF FlowInv
<1> QED
  BY <1>1, FlowInvariant, PTL

\* What a handler learned from Stripe still holds when it acts on it.
THEOREM HandlersActOnTruth == FlowSpec => []LearnedStatusHolds
<1>1. FlowInv => LearnedStatusHolds
  BY DEF FlowInv
<1> QED
  BY <1>1, FlowInvariant, PTL

\* Of the store under the handlers: a cart is sold once, whatever webhooks
\* and return pages run at the same time, what is sold stays sold, and no
\* clean-up path of a failed request releases a unit twice or forgets it.
THEOREM HandlersKeepTheStoresPromises ==
  FlowSpec => []CartSoldOnce /\ SaleIsFinal /\ StockConserved
BY FlowImplementsStore, CartsSoldOnce, SalesAreFinal, StockIsConserved, PTL
DEF ImplementsStore

\* The refinements compose: handlers, webhooks, sweeps and crashes running
\* side by side deal as a shop does.
THEOREM HandlersImplementShop == FlowSpec => ImplementsShop
BY FlowImplementsStore, StoreImplementsShop, PTL DEF ImplementsStore

\* Requests, workers and sessions keep their types, and no fault goes
\* uncounted.
THEOREM FlowTypes == FlowSpec => []FlowTypeOK
<1>1. FlowInv => FlowTypeOK
  BY DEF FlowInv
<1> QED
  BY <1>1, FlowInvariant, PTL

-----------------------------------------------------------------------------
(* What is charged is what is sold.                                        *)

ChargesStay == \A x \in Sessions : InUse(x) => stripe'[x].charge = stripe[x].charge

\* A row keeps its snapshot, and comes by a session only if that session is
\* to charge it.
RowsStay ==
  \A j \in DOMAIN checkouts' :
    LET y == checkouts'[j].session
    IN  /\ j \in DOMAIN checkouts => ToCharge(j)' = ToCharge(j)
        /\ y # NoSession =>
             /\ j \in DOMAIN checkouts
             /\ checkouts[j].session = y \/ (InUse(y) /\ stripe[y].charge = ToCharge(j))

\* What is left to show of a step: the one who moves answers for its request.
LEMMA StepKeepsChargeInv ==
  ASSUME FlowInv, FlowInv', ChargeInv, ChargesStay, RowsStay, InsertsFreshId,
         \A r \in Requests : request'[r] = request[r] \/ RequestCharges(r)'
  PROVE  ChargeInv'
<1>1. RowsCharged'
  <2> SUFFICES ASSUME NEW j \in DOMAIN checkouts', checkouts'[j].session # NoSession
               PROVE  stripe'[checkouts'[j].session].charge = ToCharge(j)'
    BY DEF RowsCharged
  <2> DEFINE y == checkouts'[j].session
  <2>1. y \in Sessions
    BY DEF FlowInv, Inv, TypeOK, Checkout
  <2>2. /\ j \in DOMAIN checkouts
        /\ ToCharge(j)' = ToCharge(j)
        /\ checkouts[j].session = y \/ (InUse(y) /\ stripe[y].charge = ToCharge(j))
    BY DEF RowsStay
  <2>3. InUse(y) /\ stripe[y].charge = ToCharge(j)
    BY <2>2 DEF FlowInv, RowsNamed, ChargeInv, RowsCharged
  <2> QED
    BY <2>1, <2>2, <2>3 DEF ChargesStay
<1>2. ASSUME NEW r \in Requests, request'[r] = request[r] PROVE RequestCharges(r)'
  <2> DEFINE x == request[r].session
  <2> SUFFICES ASSUME NEW i \in DOMAIN checkouts', i = request[r].checkout,
                      request[r].at \in {"create", "attach"}
               PROVE  /\ request[r].at = "create" => request[r].charge = ToCharge(i)'
                      /\ request[r].at = "attach" => stripe'[x].charge = ToCharge(i)'
    BY <1>2 DEF RequestCharges, ToCharge
  <2>1. i \in DOMAIN checkouts
    BY DEF InsertsFreshId, Charges
  <2>2. ToCharge(i)' = ToCharge(i)
    BY <2>1 DEF RowsStay
  <2>3. request[r].at = "attach" => x \in Sessions /\ InUse(x)
    BY DEF FlowInv, FlowTypeOK, Request, RequestInv
  <2> QED
    BY <2>1, <2>2, <2>3 DEF ChargeInv, RequestCharges, ChargesStay
<1> QED
  BY <1>1, <1>2 DEF ChargeInv

\* Of the store's methods only AttachStripeSession gives a row a session, and
\* none changes a snapshot.
LEMMA StoreKeepsRows ==
  ASSUME FlowInv,
         \/ UNCHANGED checkouts
         \/ \E i, x : CancelExpiredCheckout(i, x)
         \/ \E i \in CheckoutIds : \E c, lines, t : InsertCheckout(i, c, lines, t)
         \/ \E i, x : Fulfill(i, x)
  PROVE  RowsStay
<1>1. CASE UNCHANGED checkouts
  BY <1>1 DEF RowsStay, ToCharge
<1>2. ASSUME NEW i, NEW x, CancelExpiredCheckout(i, x) PROVE RowsStay
  BY <1>2 DEF CancelExpiredCheckout, DeleteCheckouts, RowsStay, ToCharge
<1>3. ASSUME NEW i \in CheckoutIds, NEW c, NEW lines, NEW t, InsertCheckout(i, c, lines, t)
      PROVE  RowsStay
  <2>1. /\ i \notin DOMAIN checkouts
        /\ DOMAIN checkouts' = DOMAIN checkouts \cup {i}
        /\ checkouts'[i].session = NoSession
        /\ \A j \in DOMAIN checkouts : checkouts'[j] = checkouts[j]
    BY <1>3, BoundAssumption DEF InsertCheckout, IsNextId, CheckoutIds
  <2> QED
    BY <2>1 DEF RowsStay, ToCharge
<1>4. ASSUME NEW i, NEW x, Fulfill(i, x) PROVE RowsStay
  <2>1. /\ i \in DOMAIN checkouts
        /\ checkouts' = [checkouts EXCEPT ![i].status = "fulfilled"]
        /\ checkouts \in [DOMAIN checkouts -> Checkout]
    BY <1>4 DEF Fulfill, CheckoutsOfSession, FlowInv, Inv, TypeOK
  <2>2. checkouts'[i] = [checkouts[i] EXCEPT !.status = "fulfilled"]
        /\ \A j \in DOMAIN checkouts \ {i} : checkouts'[j] = checkouts[j]
    BY <2>1
  <2>3. /\ checkouts'[i].session = checkouts[i].session
        /\ checkouts'[i].lines = checkouts[i].lines
        /\ checkouts'[i].terms = checkouts[i].terms
    BY <2>1, <2>2 DEF Checkout
  <2> QED
    BY <2>1, <2>2, <2>3 DEF RowsStay, ToCharge
<1> QED
  BY <1>1, <1>2, <1>3, <1>4

LEMMA AttachKeepsRows ==
  ASSUME FlowInv, ChargeInv, NEW r \in Requests, Attaches(r)
  PROVE  RowsStay
<1> DEFINE i == request[r].checkout
           x == request[r].session
<1>1. /\ request[r].at = "attach" /\ i \in DOMAIN checkouts
      /\ checkouts' = [checkouts EXCEPT ![i].session = x]
      /\ checkouts \in [DOMAIN checkouts -> Checkout]
  BY DEF Attaches, At, AttachStripeSession, CanAttach, Pending, FlowInv, Inv, TypeOK
<1>2. checkouts'[i] = [checkouts[i] EXCEPT !.session = x]
      /\ \A j \in DOMAIN checkouts \ {i} : checkouts'[j] = checkouts[j]
  BY <1>1
<1>3. /\ checkouts'[i].session = x
      /\ checkouts'[i].lines = checkouts[i].lines
      /\ checkouts'[i].terms = checkouts[i].terms
  BY <1>1, <1>2 DEF Checkout
<1>4. InUse(x) /\ stripe[x].charge = ToCharge(i)
  BY <1>1 DEF FlowInv, RequestInv, ChargeInv, RequestCharges
<1> QED
  BY <1>1, <1>2, <1>3, <1>4 DEF RowsStay, ToCharge

\* What a step has the store do to the checkouts.
StoreCall ==
  \/ UNCHANGED checkouts
  \/ \E i, x : CancelExpiredCheckout(i, x)
  \/ \E i, x : Fulfill(i, x)
  \/ \E r \in Requests : Attaches(r)
  \/ \E r \in Requests, i \in CheckoutIds : \E c, lines, t :
       request[r].at = "sweeping" /\ InsertCheckout(i, c, lines, t)

LEMMA RequestCallsStore == ASSUME NEW r \in Requests, RequestStep(r) PROVE StoreCall
<1>1. CASE Attaches(r)
  BY <1>1 DEF StoreCall
<1>2. CASE \/ \E c \in Carts : BeginCartCheckout(r, c)
           \/ BeginSubscriptionCheckout(r)
           \/ ResumeShows(r) \/ ResumeRedirects(r) \/ ResumeFindsExpired(r) \/ ResumeFails(r)
           \/ \E S \in SUBSET CheckoutIds : ListStaleCheckouts(r, S)
           \/ CheckoutRefused(r) \/ Loads(r) \/ LoadFails(r)
           \/ \E x \in Sessions : CreatesSession(r, x) \/ LosesSession(r, x)
           \/ SessionRefused(r) \/ AttachFails(r) \/ Renders(r)
           \/ ReloadFails(r) \/ ExpiresSession(r) \/ ExpiryRefused(r) \/ Fails(r)
  <2>1. \A c \in Carts : BeginCartCheckout(r, c) => UNCHANGED storeVars
    BY DEF BeginCartCheckout
  <2>2. \A S \in SUBSET CheckoutIds : ListStaleCheckouts(r, S) => UNCHANGED storeVars
    BY DEF ListStaleCheckouts
  <2>3. \A x \in Sessions : CreatesSession(r, x) \/ LosesSession(r, x) => UNCHANGED storeVars
    BY DEF CreatesSession, LosesSession, storeVars
  <2>4. BeginSubscriptionCheckout(r) \/ ResumeShows(r) \/ ResumeRedirects(r)
          \/ ResumeFindsExpired(r) \/ ResumeFails(r) \/ CheckoutRefused(r) \/ Loads(r)
          => UNCHANGED storeVars
    BY DEF BeginSubscriptionCheckout, ResumeShows, ResumeRedirects, ResumeFindsExpired,
           ResumeFails, CheckoutRefused, Loads, storeVars
  <2>5. LoadFails(r) \/ SessionRefused(r) \/ AttachFails(r) \/ Renders(r) \/ ReloadFails(r)
          \/ ExpiresSession(r) \/ ExpiryRefused(r) \/ Fails(r)
          => UNCHANGED storeVars
    BY DEF LoadFails, SessionRefused, AttachFails, Renders, ReloadFails, ExpiresSession,
           ExpiryRefused, Fails, storeVars
  <2>6. UNCHANGED checkouts
    BY <1>2, <2>1, <2>2, <2>3, <2>4, <2>5 DEF storeVars
  <2> QED
    BY <2>6 DEF StoreCall
<1>3. CASE ResumeCancels(r) \/ ResumeDrops(r) \/ Undoes(r) \/ Releases(r)
           \/ \E i \in CheckoutIds : SweepOne(r, i)
  <2>1. UNCHANGED checkouts \/ \E i, x : CancelExpiredCheckout(i, x)
    BY <1>3
    DEF ResumeCancels, CancelPendingCheckout, CancelExpiredCheckout, ResumeDrops, Undoes,
        Releases, SweepOne, CancelsIfPending, storeVars
  <2> QED
    BY <2>1 DEF StoreCall
<1>4. ASSUME NEW i \in CheckoutIds, NEW t \in Terms, Inserts(r, i, t) PROVE StoreCall
  <2>1. request[r].at = "sweeping" /\ \E c, lines : InsertCheckout(i, c, lines, t)
    BY <1>4 DEF Inserts, At, CreateCheckout, CreateSubscriptionCheckout
  <2> QED
    BY <2>1 DEF StoreCall
<1> QED
  BY <1>1, <1>2, <1>3, <1>4 DEF RequestStep

LEMMA WorkerCallsStore == ASSUME NEW w \in Workers, WorkerStep(w) PROVE StoreCall
<1>1. FulfillsSession(w) => UNCHANGED storeVars \/ \E i, x : Fulfill(i, x)
  BY DEF FulfillsSession
<1>2. CancelsEnded(w) => UNCHANGED storeVars \/ \E i, x : CancelExpiredCheckout(i, x)
  BY DEF CancelsEnded, CancelsIfPending
<1>3. \A x \in Sessions : FindsPaid(w, x) \/ FindsEnded(w, x) => UNCHANGED storeVars
  BY DEF FindsPaid, FindsEnded
<1>4. WorkerFails(w) => UNCHANGED storeVars
  BY DEF WorkerFails
<1>5. UNCHANGED storeVars => UNCHANGED checkouts
  BY DEF storeVars
<1> QED
  BY <1>1, <1>2, <1>3, <1>4, <1>5 DEF WorkerStep, StoreCall

LEMMA NextCallsStore == [FlowNext]_vars => StoreCall
<1> SUFFICES ASSUME [FlowNext]_vars PROVE StoreCall
  OBVIOUS
<1>1. UNCHANGED storeVars => StoreCall
  BY DEF storeVars, StoreCall
<1>2. CASE UNCHANGED vars
  BY <1>1, <1>2 DEF vars
<1>3. ASSUME NEW x \in Sessions, StripeStep(x) PROVE StoreCall
  BY <1>1, <1>3
  DEF StripeStep, CustomerPays, PaysLater, PaymentClears, PaymentFails, TimesOut, Becomes
<1>4. CASE CustomerEditsCart
  BY <1>4, CartStepIsQuiet DEF CustomerEditsCart, StoreCall
<1>5. CASE ProcessStep
  <2>1. Crash \/ Starts => UNCHANGED storeVars
    BY DEF Crash, Starts
  <2>2. (\E i \in CheckoutIds : StartupSweeps(i)) => \E i, x : CancelExpiredCheckout(i, x)
    BY DEF StartupSweeps, CancelPendingCheckout, CancelExpiredCheckout
  <2> QED
    BY <1>1, <1>5, <2>1, <2>2 DEF ProcessStep, StoreCall
<1> QED
  BY <1>2, <1>3, <1>4, <1>5, RequestCallsStore, WorkerCallsStore DEF FlowNext

LEMMA NextKeepsRows == ASSUME FlowInv, ChargeInv, [FlowNext]_vars PROVE RowsStay
BY NextCallsStore, AttachKeepsRows, StoreKeepsRows DEF StoreCall

\* A lone request inserts no row while it holds a snapshot.
LEMMA LoneRequestInsertsFresh ==
  ASSUME FlowInv, [FlowNext]_vars, \A r, q \in Requests : r = q
  PROVE  InsertsFreshId
<1>1. \A i, x : CancelExpiredCheckout(i, x) => DOMAIN checkouts' \subseteq DOMAIN checkouts
  BY DEF CancelExpiredCheckout, DeleteCheckouts
<1>2. \A i, x : Fulfill(i, x) => DOMAIN checkouts' = DOMAIN checkouts
  BY DEF Fulfill, FlowInv, Inv, TypeOK
<1>3. \A r \in Requests : Attaches(r) => DOMAIN checkouts' = DOMAIN checkouts
  BY DEF Attaches, AttachStripeSession, FlowInv, Inv, TypeOK
<1>4. ASSUME NEW r \in Requests, request[r].at = "sweeping"
      PROVE  \A q \in Requests : request[q].at = "sweeping"
  BY <1>4
<1> QED
  BY <1>1, <1>2, <1>3, <1>4, NextCallsStore DEF StoreCall, InsertsFreshId, Charges

\* A session keeps the charge it was created with.
LEMMA StripeKeepsCharges ==
  ASSUME FlowInv,
         \/ UNCHANGED stripe
         \/ \E r \in Requests, x \in Sessions : NewSession(r, x)
         \/ \E x \in Sessions : \E to : stripe' = [stripe EXCEPT ![x].status = to]
  PROVE  ChargesStay
<1>1. stripe \in [Sessions -> StripeSession]
  BY DEF FlowInv, FlowTypeOK
<1>2. CASE \E r \in Requests, x \in Sessions : NewSession(r, x)
  BY <1>1, <1>2 DEF NewSession, ChargesStay, InUse
<1>3. ASSUME NEW x \in Sessions, NEW to, stripe' = [stripe EXCEPT ![x].status = to]
      PROVE  ChargesStay
  <2>1. stripe'[x] = [stripe[x] EXCEPT !.status = to]
        /\ \A y \in Sessions \ {x} : stripe'[y] = stripe[y]
    BY <1>1, <1>3
  <2>2. stripe'[x].charge = stripe[x].charge
    BY <1>1, <2>1 DEF StripeSession
  <2> QED
    BY <2>1, <2>2 DEF ChargesStay
<1> QED
  BY <1>2, <1>3 DEF ChargesStay

\* A request that neither loads a snapshot nor creates a session charges
\* nobody after its step.
LEMMA OtherStepsCharge ==
  ASSUME FlowInv, NEW r \in Requests, RequestStep(r),
         ~Loads(r), \A x \in Sessions : ~CreatesSession(r, x)
  PROVE  /\ UNCHANGED stripe \/ (\E x \in Sessions : NewSession(r, x))
           \/ \E x \in Sessions : stripe' = [stripe EXCEPT ![x].status = "expired"]
         /\ \A p \in Requests : request'[p] = request[p] \/ RequestCharges(p)'
<1> DEFINE me == request[r]
<1>1. request \in [Requests -> Request] /\ me \in Request /\ RequestInv(r)
  BY DEF FlowInv, FlowTypeOK
<1>2. ASSUME NEW q, request' = [request EXCEPT ![r] = q], q.at \notin {"create", "attach"}
      PROVE  \A p \in Requests : request'[p] = request[p] \/ RequestCharges(p)'
  BY <1>1, <1>2 DEF RequestCharges
<1>3. ASSUME Ends(r) PROVE \A p \in Requests : request'[p] = request[p] \/ RequestCharges(p)'
  BY <1>2, <1>3 DEF Ends, IdleRequest
<1>4. ASSUME NEW at, Goes(r, at), at \notin {"create", "attach"}
      PROVE  \A p \in Requests : request'[p] = request[p] \/ RequestCharges(p)'
  <2>1. [me EXCEPT !.at = at].at = at
    BY <1>1 DEF Request
  <2> QED
    BY <1>1, <1>2, <1>4, <2>1 DEF Goes
<1>5. ASSUME GoesUndo(r)
      PROVE  \A p \in Requests : request'[p] = request[p] \/ RequestCharges(p)'
  <2> DEFINE q == [me EXCEPT !.at = "undo", !.charge = NoCharge]
  <2>1. q.at = "undo" /\ request' = [request EXCEPT ![r] = q]
    BY <1>1, <1>5 DEF GoesUndo, Request
  <2> QED
    BY <1>2, <2>1
<1>6. ASSUME NEW c \in Carts, BeginCartCheckout(r, c)
      PROVE  /\ UNCHANGED stripe
             /\ \A p \in Requests : request'[p] = request[p] \/ RequestCharges(p)'
  <2>1. UNCHANGED stripe
    BY <1>6 DEF BeginCartCheckout, OnlyRequests
  <2>2. CASE CheckoutsOfCart(c) = {}
    <3> DEFINE q == [IdleRequest EXCEPT !.at = "sweep", !.cart = c]
    <3>1. q.at = "sweep" /\ request' = [request EXCEPT ![r] = q]
      BY <1>6, <2>2 DEF BeginCartCheckout, IdleRequest
    <3> QED
      BY <1>2, <2>1, <3>1
  <2>3. CASE CheckoutsOfCart(c) # {}
    <3> DEFINE i == CHOOSE j \in CheckoutsOfCart(c) : TRUE
               x == checkouts[i].session
               q == [IdleRequest EXCEPT !.at = IF x = NoSession THEN "cancel" ELSE "get",
                       !.cart = c, !.checkout = i, !.session = x]
    <3>1. request' = [request EXCEPT ![r] = q]
      BY <1>6, <2>3 DEF BeginCartCheckout
    <3> HIDE DEF i, x
    <3>2. q.at \in {"cancel", "get"}
      BY DEF IdleRequest
    <3> QED
      BY <1>2, <2>1, <3>1, <3>2
  <2> QED
    BY <2>2, <2>3
<1>7. ASSUME NEW S, ListStaleCheckouts(r, S)
      PROVE  /\ UNCHANGED stripe
             /\ \A p \in Requests : request'[p] = request[p] \/ RequestCharges(p)'
  <2> DEFINE q == [me EXCEPT !.at = "sweeping", !.todo = S]
  <2>1. q.at = "sweeping" /\ request' = [request EXCEPT ![r] = q] /\ UNCHANGED stripe
    BY <1>1, <1>7 DEF ListStaleCheckouts, OnlyRequests, Request
  <2> QED
    BY <1>2, <2>1
<1>8. ASSUME NEW i, SweepOne(r, i)
      PROVE  /\ UNCHANGED stripe
             /\ \A p \in Requests : request'[p] = request[p] \/ RequestCharges(p)'
  <2> DEFINE q == [me EXCEPT !.todo = @ \ {i}]
  <2>1. q.at = "sweeping" /\ request' = [request EXCEPT ![r] = q] /\ UNCHANGED stripe
    BY <1>1, <1>8 DEF SweepOne, At, OnlyRequests, Request
  <2> QED
    BY <1>2, <2>1
<1>9. ASSUME NEW i, NEW t, Inserts(r, i, t)
      PROVE  /\ UNCHANGED stripe
             /\ \A p \in Requests : request'[p] = request[p] \/ RequestCharges(p)'
  <2> DEFINE q == [IdleRequest EXCEPT !.at = "load", !.checkout = i]
  <2>1. q.at = "load" /\ request' = [request EXCEPT ![r] = q] /\ UNCHANGED stripe
    BY <1>9 DEF Inserts, OnlyRequests, IdleRequest
  <2> QED
    BY <1>2, <2>1
<1>10. CASE BeginSubscriptionCheckout(r) \/ ResumeCancels(r) \/ ResumeFindsExpired(r)
              \/ ResumeDrops(r) \/ Attaches(r) \/ AttachFails(r) \/ ReloadFails(r)
  <2>1. UNCHANGED stripe /\ \E at : Goes(r, at) /\ at \notin {"create", "attach"}
    BY <1>10
    DEF BeginSubscriptionCheckout, ResumeCancels, ResumeFindsExpired, ResumeDrops, Attaches,
        AttachFails, ReloadFails, OnlyRequests
  <2> QED
    BY <1>4, <2>1
<1>11. CASE ResumeShows(r) \/ ResumeRedirects(r) \/ ResumeFails(r) \/ CheckoutRefused(r)
              \/ LoadFails(r) \/ Undoes(r) \/ Renders(r) \/ ExpiryRefused(r) \/ Releases(r)
  <2>1. UNCHANGED stripe /\ Ends(r)
    BY <1>11
    DEF ResumeShows, ResumeRedirects, ResumeFails, CheckoutRefused, LoadFails, Undoes,
        Renders, ExpiryRefused, Releases, OnlyRequests
  <2> QED
    BY <1>3, <2>1
<1>12. CASE Fails(r)
  BY <1>3, <1>4, <1>12 DEF Fails
<1>13. CASE SessionRefused(r)
  BY <1>5, <1>13 DEF SessionRefused, OnlyRequests
<1>14. ASSUME NEW x \in Sessions, LosesSession(r, x)
       PROVE  /\ NewSession(r, x)
              /\ \A p \in Requests : request'[p] = request[p] \/ RequestCharges(p)'
  BY <1>5, <1>14 DEF LosesSession
<1>15. CASE ExpiresSession(r)
  <2>1. me.session \in Sessions
    BY <1>1, <1>15 DEF ExpiresSession, At, RequestInv, Request
  <2> QED
    BY <1>4, <1>15, <2>1 DEF ExpiresSession
<1> QED
  BY <1>6, <1>7, <1>8, <1>9, <1>10, <1>11, <1>12, <1>13, <1>14, <1>15 DEF RequestStep

LEMMA RequestKeepsChargeInv ==
  ASSUME FlowInv, FlowInv', ChargeInv, InsertsFreshId, NEW r \in Requests, RequestStep(r)
  PROVE  ChargeInv'
<1> DEFINE me == request[r]
           i == me.checkout
<1>1. request \in [Requests -> Request] /\ me \in Request /\ stripe \in [Sessions -> StripeSession]
  BY DEF FlowInv, FlowTypeOK
<1>2. RowsStay
  BY NextKeepsRows DEF FlowNext
<1>3. CASE Loads(r)
  <2> DEFINE q == [me EXCEPT !.at = "create", !.charge = ToCharge(i)]
  <2>1. /\ request' = [request EXCEPT ![r] = q]
        /\ UNCHANGED <<checkouts, stripe>>
    BY <1>3 DEF Loads, ToCharge, OnlyRequests, storeVars
  <2>2. q.at = "create" /\ q.charge = ToCharge(i) /\ q.checkout = i
    BY <1>1 DEF Request
  <2>3. request'[r] = q /\ \A p \in Requests \ {r} : request'[p] = request[p]
    BY <1>1, <2>1
  <2> HIDE DEF q
  <2>4. RequestCharges(r)'
    BY <2>1, <2>2, <2>3 DEF RequestCharges, ToCharge
  <2> QED
    BY <1>2, <2>1, <2>3, <2>4, StripeKeepsCharges, StepKeepsChargeInv
<1>4. ASSUME NEW x \in Sessions, CreatesSession(r, x) PROVE ChargeInv'
  <2> DEFINE q == [me EXCEPT !.at = "attach", !.session = x, !.charge = NoCharge]
  <2>1. /\ me.at = "create" /\ NewSession(r, x)
        /\ request' = [request EXCEPT ![r] = q]
        /\ UNCHANGED checkouts
    BY <1>4 DEF CreatesSession, At, storeVars
  <2>2. q.at = "attach" /\ q.session = x /\ q.checkout = i
    BY <1>1 DEF Request
  <2>3. request'[r] = q /\ \A p \in Requests \ {r} : request'[p] = request[p]
    BY <1>1, <2>1
  <2>4. stripe'[x].charge = me.charge
    BY <1>1, <2>1 DEF NewSession
  <2>5. i \in DOMAIN checkouts => me.charge = ToCharge(i)
    BY <2>1 DEF ChargeInv, RequestCharges
  <2> HIDE DEF q
  <2>6. RequestCharges(r)'
    BY <2>1, <2>2, <2>3, <2>4, <2>5 DEF RequestCharges, ToCharge
  <2> QED
    BY <1>2, <2>1, <2>3, <2>6, StripeKeepsCharges, StepKeepsChargeInv
<1>5. CASE ~Loads(r) /\ \A x \in Sessions : ~CreatesSession(r, x)
  BY <1>2, <1>5, OtherStepsCharge, StripeKeepsCharges, StepKeepsChargeInv
<1> QED
  BY <1>3, <1>4, <1>5

LEMMA NextKeepsChargeInv ==
  ASSUME FlowInv, FlowInv', ChargeInv, [FlowNext]_vars, InsertsFreshId
  PROVE  ChargeInv'
<1>1. ASSUME UNCHANGED request, ChargesStay PROVE ChargeInv'
  BY <1>1, NextKeepsRows, StepKeepsChargeInv
<1>2. CASE UNCHANGED vars
  BY <1>1, <1>2, StripeKeepsCharges DEF vars, flowVars
<1>3. ASSUME NEW w \in Workers, WorkerStep(w) PROVE ChargeInv'
  <2>1. UNCHANGED <<request, stripe>>
    <3>1. OnlyWorkers => UNCHANGED <<request, stripe>>
      BY DEF OnlyWorkers
    <3>2. \A x \in Sessions : FindsPaid(w, x) \/ FindsEnded(w, x) => OnlyWorkers
      BY DEF FindsPaid, FindsEnded
    <3>3. FulfillsSession(w) \/ CancelsEnded(w) => OnlyWorkers
      BY DEF FulfillsSession, CancelsEnded
    <3> QED
      BY <1>3, <3>1, <3>2, <3>3 DEF WorkerStep, WorkerFails
  <2> QED
    BY <1>1, <2>1, StripeKeepsCharges
<1>4. ASSUME NEW x \in Sessions, StripeStep(x) PROVE ChargeInv'
  <2>1. \E from, to : Becomes(x, from, to)
    BY <1>4 DEF StripeStep, CustomerPays, PaysLater, PaymentClears, PaymentFails, TimesOut
  <2>2. UNCHANGED request /\ \E to : stripe' = [stripe EXCEPT ![x].status = to]
    BY <2>1 DEF Becomes
  <2> QED
    BY <1>1, <2>2, StripeKeepsCharges
<1>5. CASE CustomerEditsCart
  BY <1>1, <1>5, StripeKeepsCharges DEF CustomerEditsCart, flowVars
<1>6. CASE ProcessStep
  <2>1. CASE Crash
    <3>1. UNCHANGED stripe /\ request' = [r \in Requests |-> IdleRequest]
      BY <2>1 DEF Crash
    <3>2. \A r \in Requests : RequestCharges(r)'
      BY <3>1 DEF RequestCharges, IdleRequest
    <3> QED
      BY <3>1, <3>2, StripeKeepsCharges, NextKeepsRows, StepKeepsChargeInv
  <2>2. CASE Starts \/ \E i \in CheckoutIds : StartupSweeps(i)
    BY <1>1, <2>2, StripeKeepsCharges DEF Starts, StartupSweeps, flowVars
  <2> QED
    BY <1>6, <2>1, <2>2 DEF ProcessStep
<1> QED
  BY <1>2, <1>3, <1>4, <1>5, <1>6, RequestKeepsChargeInv DEF FlowNext

LEMMA InitChargeInv == FlowInit => ChargeInv
BY DEF FlowInit, Init, IdleRequest, ChargeInv, RowsCharged, RequestCharges

LEMMA ChargeInvSells == FlowInv /\ ChargeInv => ChargedWhatSold
<1> SUFFICES ASSUME FlowInv, ChargeInv, NEW i \in DOMAIN sales
             PROVE  stripe[sales[i].session].charge
                      = [lines |-> sales[i].lines, terms |-> sales[i].terms]
  BY DEF ChargedWhatSold
<1>1. /\ i \in DOMAIN checkouts
      /\ sales[i].session = checkouts[i].session
      /\ sales[i].terms = checkouts[i].terms
      /\ sales[i].lines = checkouts[i].lines
  BY DEF FlowInv, Inv, SoldIffFulfilled
<1>2. sales[i].session # NoSession
  BY NullAssumption DEF FlowInv, Inv, TypeOK, Sale
<1> QED
  BY <1>1, <1>2 DEF ChargeInv, RowsCharged, ToCharge

\* Unless an insert reuses an id under a request that means to attach a
\* session to it, every sale records what its customer was charged, for any
\* number of requests, webhooks, crashes and faults.
THEOREM ChargedUnlessReused == FlowSpec /\ IdsNotReused => []ChargedWhatSold
<1>1. FlowInv /\ FlowInv' /\ ChargeInv /\ [FlowNext]_vars /\ [InsertsFreshId]_vars
        => ChargeInv'
  <2>1. UNCHANGED vars => InsertsFreshId
    BY DEF vars, storeVars, InsertsFreshId
  <2> QED
    BY <2>1, NextKeepsChargeInv
<1> QED
  BY <1>1, InitChargeInv, ChargeInvSells, FlowInvariant, PTL DEF FlowSpec, IdsNotReused

\* With one checkout request at a time, beside any number of webhooks and
\* return pages, that is always so.
THEOREM ChargedByLoneRequest ==
  ASSUME \A r, q \in Requests : r = q
  PROVE  FlowSpec => []ChargedWhatSold
<1>1. FlowInv /\ FlowInv' /\ ChargeInv /\ [FlowNext]_vars => ChargeInv'
  BY LoneRequestInsertsFresh, NextKeepsChargeInv
<1> QED
  BY <1>1, InitChargeInv, ChargeInvSells, FlowInvariant, PTL DEF FlowSpec

=============================================================================
