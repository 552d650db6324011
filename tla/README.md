# A formal model of the Oregon Dev Foundry shop

TLA+ specifications of this repository's shop, the TLC runs that check them on
small instances, and theorems about them whose proofs the TLA+ proof system
checks for every instance.

The core is what happens between a full cart and a delivered order: who holds a
reservation, which Stripe session belongs to which checkout, what is sold, and
whether Stripe, the database and the customer's mailbox end up agreeing. A dozen
handlers share that state, call Stripe and Mailgun between their database calls,
can fail between any two of them, and are called again by webhooks that arrive
late, twice and out of order. Around it stand the parts that feed it: the
customer's browser with its cookies, the accounts, the login form, and the
catalog with its three kinds of writers.

## Inventory of the system

| Component | Code | State it keeps | Modelled in |
| --- | --- | --- | --- |
| Commerce store | `internal/commerce/{cart,checkout,fulfillment}.go` | SKU inventory, carts and lines, checkouts with their snapshot and reservation, orders, subscriptions | `CheckoutStore`; abstractly `Shop` |
| Checkout requests | `internal/web/checkout.go` | what a request has read between two calls | `CheckoutFlow` |
| Webhooks and return page | `internal/web/checkout.go` | the same | `CheckoutFlow` (settling a session), `Delivery` (claims and mail) |
| Event claims, deliveries | `internal/commerce/{events,delivery}.go` | webhook events, confirmations and invitations with their leases | `Delivery` |
| Invitations | `internal/auth/store.go`, `internal/web/invitations.go` | token hash, used or not, mail status | `Delivery` (token and mail), `Accounts` (the profile form) |
| Stripe gateway | `internal/payment/stripe.go` | sessions, at Stripe | external half of `CheckoutFlow` and `AccountRemoval` |
| Account removal | `internal/web/accounts.go`, `internal/commerce/accounts.go` | the loop of `cancelAndDeleteUser` | `AccountRemoval` |
| Accounts, passwords, sessions | `internal/auth/store.go`, `internal/web/{handler,accounts}.go` | users, identities, sessions, versions | `Accounts` |
| User commands | `cmd/users` | nothing of its own | `Accounts` |
| Login limiter | `internal/web/login_limiter.go` | failures and blocks per key, slots | `LoginLimiter` |
| Cart pages, shipping choices | `internal/web/cart.go` | cookies, cart owner, cart lines | `Visits`; quantities and stock in `CheckoutStore` |
| Referrals | `internal/web/referrals.go`, `internal/commerce/events.go` | referral rows, a cookie, a user's referral | `Visits` |
| Catalog administration | `internal/commerce/catalog.go`, `internal/web/admin_*.go` | products, SKUs, shipping options | `Catalog`; as a checkout reads it in `CheckoutStore` |
| Catalog fixtures | `cmd/catalog`, `internal/commerce/fixture.go` | nothing of its own | `Catalog`; its sweep in `CheckoutFlow` |
| Images, signage | `internal/media`, `internal/commerce/{images,signage}.go` | files beside the rows that name them, the seed's tombstone | `Catalog` |
| Server process | `cmd/server`, `internal/commerce/store.go` | nothing of its own | crash, start and sweep in `CheckoutFlow`, seed in `Catalog` |
| Contact form, configuration, templates | `internal/{contact,config,templates}` | none | not modelled |

How they interact. A browser arrives from somewhere (referral cookie), fills a
cart (cart and shipping cookies, from several tabs), perhaps logs in, and posts
`/checkout`. The handler sweeps stale checkouts, inserts a checkout with its
reservation, creates a Stripe session, attaches it and renders the client
secret. Four calls, three of them to the database, nothing held across them. The
customer pays at Stripe. Stripe posts events to `/stripe/webhook`, the browser
loads `/checkout/return`; either fulfils the session, which may mark or create a
user, and mails the receipt and the invitation. Other tabs of the same cart,
other customers wanting the same units, administrators and a fixture command
editing the catalog, an account being removed or renamed, and the sweep at the
next start all touch the same rows meanwhile.

What makes each part correct:

* the store: units are neither made nor lost, a cart is sold once, a sale is one
  fulfilled checkout and final, a checkout's snapshot is the cart its customer
  sees; seen from far enough it is a shop of deals that are held, then released or sold;
* the handlers: nothing unpaid is sold, no payable session loses its checkout,
  what Stripe charges is what the sale records, every paid session is sold in
  the end and every dead one gives its units back;
* deliveries: Stripe is told "done" only when it is done, mail is repeated only
  after a failure, claims of dead handlers are taken over;
* account removal: a deleted account can be charged nothing any more, no payment
  loses its checkout to a removal, a subscription row says canceled only if it is;
* accounts: whoever has a password logs in with the username shown, a page
  writes only over the row it was made from, only the tool gives an
  administrator a password;
* the limiter: its table and slots stay bounded and none leaks, a block is lifted
  by its time or the right password only, failures per block are bounded, and
  blocks end;
* the catalog: a fixture run that says "applied" did apply, touched nothing it
  does not list and can be repeated, wherever an earlier run stopped; image rows
  name files that are there;
* visits: whoever comes from a page is credited to it, and every shipped product
  is charged an active option of its own that this browser chose.

`PROJECT.json` lists under `hazards` what is hard to test in all of this, each
at its line, with the properties that watch it or why none does.

## The modules

    CheckoutStore                    the tables and the methods on them, called by anyone
      ^        ^
      |        CheckoutShop ---> Shop     the store implements an abstract shop
    CheckoutFlow                     handlers, Stripe, crashes; refines CheckoutStore
      ^
    AccountRemoval                   CheckoutFlow with removals beside it

    Delivery        claims, mail and invitation of one paid session
    Accounts        users, identities, sessions, invited users, open pages
    LoginLimiter    the limiter and the login handler
    Catalog         catalog tables, image files, forms, fixture command, seed
    Visits          cookies, tabs, referrals, carts, what a checkout is charged with

An arrow points to the module that is extended or instantiated; `Totals`, which
adds up columns, is extended by `CheckoutStore`. The proofs about a module
are in a module of its name with `_proofs`, those about `Totals` and
`CheckoutShop` in `CheckoutStore_proofs`; `CheckoutFlow_proofs` builds on
`CheckoutStore_proofs` and `AccountRemoval_proofs` on `CheckoutFlow_proofs`. The modules whose names begin
with `MC` give the constants their values for TLC. Modules that are not composed
share tables in the code, and each says which: `Delivery` and `Accounts` meet in
the activation of an invitation, `Visits` and `CheckoutStore` in the cart, `Catalog`
and `CheckoutStore` in the inventory. What one module needs of the other is left
open there: any method may be called at any time.

### CheckoutStore

`inventory`, `forSale`, `cartStatus`, `cartLines`, `checkouts` and `sales` are
the tables; a table is a function from the row ids it holds to rows. The
database is opened with one connection (`SetMaxOpenConns(1)` in
`internal/auth/store.go`), so a method that is one statement or one transaction
is one step. A method that returns an error rolls back: it is the disabled
action. The module is an open system. Any method may be called at any time with
any argument, so what holds of it does not depend on any handler.

| Action | Method |
| --- | --- |
| `AddCartItem`, `AddCartSelection`, `UpdateCartItem`, `RemoveCartItem` | the same, with `ensureCartMutable` |
| `CreateCheckout`, `CreateSubscriptionCheckout` | `CreateCheckout` for a cart, and for a subscription |
| `AttachStripeSession` | the same |
| `CancelPendingCheckout`, `CancelExpiredCheckout` | `cancelCheckoutReservation` without and with a session |
| `Fulfill` | `Fulfill`, when it creates the sale |
| `UpdateSKU`, `SetSKUActive`, `SetProductActive` | catalog edits as a checkout sees them |
| `AbandonOpenCartsForUser`, `FinalizeUserDeletion` | the same, for any set of carts and checkouts |

A cancelled checkout's row is deleted, and SQLite gives the next row of a table
without `AUTOINCREMENT` the largest id plus one, so ids come back (`IsNextId`).
That is not a detail: it is what the finding of the run `reuse` rests on.

Abstractions: the kind and the product of a SKU do not change; a product's
active flag set through `UpdateProduct` is `SetProductActive`, deleting a SKU
takes it off sale; prices, buyer and shipping of a checkout are one value of
`Terms`; the reset of `user_id` and the later status of a subscription are not
part of a sale's record; `Total` adds up a column by counting the units it
stands for, which is a definition the proofs can work with.

### Shop and CheckoutShop

`Shop` is what the store promises without carts, sessions, rows and statuses: a
deal takes its units off the shelf (`Hold`) and is then released, which puts
exactly them back (`Release`), or sold for ever as it was made (`Sell`); a
basket is in at most one deal; goods can be counted anew (`Count`).
`CheckoutShop` maps the tables to it: a pending checkout is a held deal, a sale
with its checkout a sold one. The units a deal took are the column
`reserved_quantity`, not what was ordered, which is where the code has to be
careful when a SKU turns unlimited meanwhile.

### CheckoutFlow

Extends the store by `request` (checkout requests), `worker` (webhooks and
return pages), `stripe` (sessions: status, the checkout id in their metadata,
what they charge), `shown` (sessions whose client secret reached a browser),
`serverUp` and `faults`. A request's stage is the next call it makes; the fields
of its record are what it read earlier, whatever has become of the row since.

| Stages of a request | Code |
| --- | --- |
| `idle` → `cancel`, `get`, `drop` | `checkoutCart`, `resumeCartCheckout` |
| `sweep`, `sweeping` | `CancelStalePendingCheckouts`: one read, then one transaction per row |
| `sweeping` → `load` → `create` | `CreateCheckout`: the insert and the read-back are two calls |
| `create` → `attach` → `reload` | `startEmbeddedCheckout`, `AttachStripeSession` and its read-back |
| `undo` | `cancelUnattachedCheckout` |
| `expire`, `release` | `expireUnattachedStripeSession` |

`FindsPaid`/`FulfillsSession` are `fulfillSession`; `FindsEnded`/`CancelsEnded`
the expired and failed-payment branch of the webhook. Both look something up,
and act in a later step.

Abstractions: time is open: any unattached checkout may be past its lease when a
sweep looks. Event messages are not queued: a worker may take up a session in
its final status whenever it is idle, which covers late, repeated and reordered
events and reloads. The sweep of `commerce.New` may run at any time, as
`cmd/catalog` and `cmd/users` open the store beside a running server. A session
lives a day at Stripe, so it does not time out while the request that made it is
about to attach it. Nobody pays a session that was never shown. The lookup of
the cart and of its checkout in `checkoutCart` is one step. Account removal and
catalog edits are not among the steps of `FlowNext`: removals join them in
AccountRemoval, catalog edits are covered by the store alone.

### AccountRemoval

Extends CheckoutFlow by `account` (whether the user row exists), `removal` (the
requests that run `cancelAndDeleteUser`), `ended` (subscriptions Stripe has
canceled, named by the session that sold them) and `canceled` (subscription rows
with that status). All carts and checkouts of the model belong to the account.

| Action | Code |
| --- | --- |
| `BeginsRemoval` | `deleteAccount` or `deleteAdminUser` up to the call |
| `ListsTargets` | `CancellationTargetsForUser` |
| `ExpiresTarget`, `ExpiryFails` | `ExpireSession`; an error for a completed session ends the removal |
| `FindsCheckout`, `ReleasesCheckout` | `CancelExpiredCheckoutForUser`: a read, then `CancelExpiredCheckout` |
| `EndsSubscription`, `MarksCanceled` | `CancelSubscription`, `MarkSubscriptionCanceledForUser` |
| `AbandonsCarts` | `AbandonOpenCartsForUser`, a transaction of its own |
| `DeletesUser`, `Retries`, `FindsUserGone` | the three ends of `FinalizeUserDeletion` |
| `RemovalFails`, `RemovalLosesAnswer` | any call fails; Stripe acted but its answer was lost |
| `ShopStep` | a step of `FlowNext`; a new checkout must name an existing user (`NamesUser`), a crash ends the removals |

Abstractions: targets are handled in any order, sessions before subscriptions;
a payment gateway is configured; a cart the account may still create is one of
the open empty carts, so an abandonment may leave those open.

### Delivery

One paid session: Stripe's `Events` about it and the return page are handled by
`Handlers` that overlap. `event` and `mail` have a status and a lease (`fresh`);
`token` is the token whose hash the invitation row holds, `links` the tokens
that were mailed, in order.

| Action | Code |
| --- | --- |
| `TakesEvent`, `AnswersDuplicate` | `ClaimWebhookEvent` and its three answers |
| `OpensReturnPage` | `checkoutReturn` |
| `Fulfills` | `Fulfill` as the source of the invitation token |
| `ClaimsDelivery`, `FindsInProgress` | `claimDelivery` |
| `IssuesToken`, `IssueRefused` | `IssueClaimedInvitationToken` |
| `Sends`, `SendFails`, `MarksSent`, `GivesBack` | `deliverFulfillment` with Mailgun, `markDelivery`, `releaseDelivery` |
| `CompletesEvent`, `ReleasesEvent` | the end of the webhook |
| `ActivatesAccount` | `CompleteInvitationProfile` |

It models a guest's purchase that asks for an account for an address that has
none; a sale without an invitation takes the same steps without their second
half. A handler takes seconds and a lease five minutes, so a lease that ends
while its handler still works is counted as a fault.

### Accounts

`users`, `identities`, `sessions` and `invitations` are the tables, `pages` what
is kept outside them between two transactions: a login that has checked the
password and will insert its session, a password form that has read the session,
the administrators' form in a browser, the command-line tool that has read the
user it will update.

| Action | Code |
| --- | --- |
| `Creates`, `Removes` | `CreateUser` of form and tool; the deletion of a user with what cascades |
| `MarksPurchase`, `Invites` | `fulfillmentUser` for a buyer who is known, and for one who is not |
| `ChecksPassword`, `OpensSession`, `EndsSession` | `Authenticate`, `CreateSession`, `DeleteSession` or its end |
| `AsksToChange`, `ChangesPassword` | `requireAccount`, `ChangePassword` |
| `Activates` | `CompleteInvitationProfile`, and the session that follows |
| `Loads`, `Updates`, `Refused` | `UserByID`/the tool's look-up; `UpdateUser` with its version, unique and administrator rules; the form shown again with what was typed |
| `GivesUp` | the request ends |

Abstractions: a password stands for its hash; display names, expiry times,
cookies and CSRF tokens are left out; two sessions alike are one; of the roles
only the administrator's matters here. Two fields are no columns: `born` tells
two users apart who had the same id (ids come back here, too), `secret` of a
session is the password it was opened with. Whether an account may be removed is
AccountRemoval's business: here it may at any time.

### LoginLimiter

`attempts` is the table, `active` the number of slots taken, `requests` the
handlers. The limiter's mutex makes each method one step, but `begin` gives the
lock up before it takes its slot: `Admits` (or `Refuses`) and then `TakesSlot`
(or `FindsNoSlot`). The password check between lies open; `Fails`, `Succeeds` and
`CheckFails` are its outcomes with the call of the limiter each makes,
`Releases` the deferred release. `Tick` lets a unit of time pass.

Abstractions: an entry keeps how long it is still remembered and blocked instead
of two times of the clock; a count of failures stops at the limit, beyond which
the code does not look; `streak` is no field of the code but counts failures
since the key was last free, for `StreakBounded`.

### Catalog

`products`, `skus` and `options` are sequences of rows (nothing is ever deleted
from them, a deletion clears `active`), `images` and `files` the image rows and
the files in the media directory, `seeded` the tombstone of the signage seed.
`pending` is what a request will write once the product it has read allowed it:
that check and the write are two calls. `runs` is how far a run of the fixture
command has come.

| Action | Code |
| --- | --- |
| `SavesProduct`, `SetsProductActive`, `SetsSkuActive`, `DeletesOption` | the forms that are one statement |
| `AsksForSku`, `AsksForOption`, `WritesSku`, `WritesOption` | `CreateSKU`, `UpdateSKU`, `CreateShippingOption`, `UpdateShippingOption` |
| `AsksForImage`, `ImportsImage`, `SetsImage` | `adminCatalogImage`, `media.Import`, `SetProductImage` |
| `BeginsRun` … `EndsRun` | `ApplyProductFixture`, one step per statement |
| `Stops` | a failed call, the command's timeout, a crash: nothing is undone |
| `Seeds` | `EnsureSignageCatalog` |

Abstractions: slugs and codes stand for what `NOCASE` compares; `text` is every
column no rule looks at, inventory among them; the order in which a product's
options are read is left open; a file is the hash of its content. A run's
`asListed` and `undisturbed` are no state of the code: they remember, for the
properties, whether the file was applied at the start and whether anybody else
has written since.

### Visits

`jar` is the cookies of a browser, `tab` a request under way or its answer,
`page` what that request is about. A request carries the cookies of the moment
it is sent; what it sets arrives with its answer, or never. `referrals`, `carts`
(each with its checkout as `deal`), `credit` and `active` are tables.

| Action | Code |
| --- | --- |
| `Arrives`, `LooksUp`, `Inserts`, `LooksUp` again, `CaptureFails` | `captureReferral`, `FindOrCreateReferral` |
| `ArrivesWithToken` | a token of ours in the referring URL |
| `Receives`, `Leaves` | the answer arrives, or does not |
| `LogsIn`, `LogsOut` | `login` with `AssociateReferralWithUser`, `logout` |
| `OpensCart`, `AddsItem`, `RemovesItem` | `addCartItem` up to and after `openCart`, `removeCartItem` |
| `ChecksOut`, `Releases`, `Sells` | `checkoutCart`, the end of a checkout, `fulfillmentUser` as far as referrals go |
| `TurnsOption` | an administrator turns a shipping option on or off |

Abstractions: a cart is the set of its products; quantities, SKUs and stock are
CheckoutStore's. A checkout is made in one step here and in seven in
CheckoutFlow. `chosen` is no state of the code: it keeps every option a browser
ever chose, for `ShippingIsPaid`.

## What is checked

| Run | Distinct states | Shows |
| --- | --- | --- |
| `store` | 221,328 | `TypeOK`, `SoldIffFulfilled`, `CartSoldOnce`, `SnapshotMatchesCart`, `StockConserved`, `SaleIsFinal`, `AttachedSnapshotFixed` of the store, its methods called in any order; and `ImplementsShop`: to whoever looks at shelf, held and sold goods it is a `Shop` |
| `flow` | 628,809 | `SaleOnlyIfPaid`, `PayableSessionHasCheckout`, `LearnedStatusHolds`, and `ImplementsStore`: every step of the handlers is one method of the store or none |
| `live` | 41,582 | `ChargedWhatSold` while a cart's checkout requests do not overlap; `PaidIsSold`, `EndedIsReleased` under fairness |
| `removal` | 483,235 | `RemovalTypeOK`, `DeletedOwesNothing`, `CanceledIsEnded` beside two removals |
| `delivery` | 290,408 | `DeliveryTypeOK`, `AckedMeansDelivered`, `DuplicatesCostFaults`, `SentIsFinal`, and `EventsAreHandled` under fairness |
| `limiter` | 102,156 | `LimiterTypeOK`, `TableBounded`, `SlotsAreHeld`, `StreakBounded`, `BlockEndsWithTime`, and `BlocksEnd` under fairness |
| `accounts` | 410,161 | `AccountsTypeOK`, `LoginByUsername`, `AppliedOnWhatWasRead` |
| `catalog` | 1,308,703 | `CatalogTypeOK`, `AppliedAsListed`, `UnlistedUntouched`, `Idempotent`, `ImagesExist` |
| `visits` | 1,722,556 | `VisitsTypeOK`, `ArrivalsAreCredited`, `ShippingIsPaid` |
| `reuse` | violation | `ChargedWhatSold` fails when two requests of one cart overlap |
| `abandoned` | violation | `PaidIsSold` fails when a removal is tried and fails |
| `shipping` | violation | `CartCanBeCheckedOut` fails: a shipping choice outlives its product |

Every property of a passing run has a mutant in its module: a small, plausible
bug in one definition (a guard dropped, an error not looked at, an off-by-one)
under which TLC finds the property violated.

### The findings

`reuse` (16 states). Request A inserts checkout 1 and waits for Stripe. Request
B of the same cart, with another buyer or shipping choice, finds checkout 1
unattached, cancels it and inserts its own: id 1 again. A's session now carries
checkout id 1 in its metadata and A's old terms. A attaches it to B's checkout;
every later check compares ids and passes. The customer pays A's terms, the sale
records B's. `ChargedWhatSold` holds with one request (`live`), so it is the
overlap and nothing else.

`abandoned` (about 17 states). A removal lists its targets while a checkout still
waits for its Stripe session, and finds none. It abandons the cart, in a
transaction of its own. The session is attached, shown and paid.
`FinalizeUserDeletion` sees an attached checkout and refuses; the next round
tries to expire the session and fails, as it is complete. The removal is
reported as failed and the account stays, but the cart stays abandoned, and
`Fulfill` only sells open carts: every retry of the webhook fails, the customer
has paid and gets nothing, the units stay reserved. The transaction of
`FinalizeUserDeletion` abandons the carts itself and rolls that back when it
refuses, as its test requires; the separate call before it is what is not undone.
Without removals the same property holds (run `live`).

`shipping` (8 states). A customer puts two shipped products into the cart, each
with an option, and removes one. The choice stays in the cookie
`odf_cart_shipping`, which only `addCartItem` writes, and `CreateCheckout`
refuses a choice for a product that is not in the cart: the checkout of what is
left is refused, and so is that of the next cart, until the product is added
again or the cookie ends.

### What else does not hold

These are stated in the modules, and no run lists them; each is violated once
it is added to the configuration named.

* `OneOfEach` (`MCDelivery.cfg`): the mail goes out before it is noted, so a
  crash in between, or an answer that is lost, repeats it. `docs/stripe-test.md`
  says it must not. `DuplicatesCostFaults` bounds it: each mail too many costs a fault.
* `LastLinkIsGood` (`MCDelivery.cfg`; 16 states). Handler A fulfils and keeps
  token 1. Handler B claims the invitation, stores the hash of token 2, fails to
  send, gives its claim back. A claims, mails token 1 because it has one, and
  notes the invitation as sent. The customer's only link is dead and nobody
  mails another.
* `SessionsAreCurrent` (`MCAccounts.cfg` with two passwords and two pages): a login
  checks the old password, the password is changed and all sessions are revoked,
  then the login inserts its session. It lives on.
* `UpdatesWhomWasRead` (`MCAccounts.cfg`): a form made from a user who was
  deleted applies to the next one, who has the same id and the same version.
* `CanBeUpdated` (`MCAccounts.cfg` with `MaxVersion = 4`): an invited user who was given a password by
  an administrator has an identity named by that form's username; the activation
  adds one. `UpdateUser` renames both to one subject and the unique index refuses
  it: such a user can never be updated again.
* `PurchaseMarkSeen` (`MCAccounts.cfg`): a stale form is
  refused, shown again with what was typed and the new version; submitted once
  more it takes away the purchase mark nobody has seen on it.

`Wedged` in `Delivery` is not a property but an exception: when the customer
activates the account while the invitation is still noted as being sent (its
note failed), no claim of it succeeds and none is refused for good; the event's
retries all fail. `EventsAreHandled` excepts exactly this.

Smaller observations the models keep as the code has them: a fixture that lists
`Pickup` and `pickup` is applied once and refused afterwards; changing a product's
type leaves a subscription with the add-ons and options it had; `UpdateSKU`
moves a SKU to another product and leaves the image slots that name it; a SKU of
the signage that another product has keeps the server from starting; two tabs
that both open a cart leave one of them an orphan with its item in it; an option
that is turned off with a choice kept makes the checkout refuse; the last
referral a user logs in with wins, but the first a purchase brings stays.

### Bounds

* `store`: three SKUs: `print` with two units, the unlimited add-on `frame` of
  the same product, and the subscription `plan` with one; two carts, two
  sessions, two checkout ids, quantities to two. Two carts compete for the last
  units, ids are reused, and stock turns unlimited and back (`Restocks`).
* `flow`: one cart, two products with one unit each, quantities to two (which
  stock never covers), two overlapping requests, one worker, two sessions and one
  fault: every single failure in every interleaving of two tabs and a webhook.
* `live`: one cart with a print, one request, two workers, two terms, two
  sessions, one fault; no symmetry.
* `reuse`: two requests, two terms, no fault: the violation needs no failure.
* `removal`: one cart with a print with one unit, an unlimited subscription, one
  session, one request, one worker, two removals, one fault. `Rounds` is 2
  instead of the code's 3: one session can block one round. That a removal gives
  up after its last round needs more sessions; it then ends as after a failed
  call, which the run has, and the theorems hold for any number of both.
* `abandoned`: one session, one of everything, no fault: the violation needs none.
* `delivery`: two handlers, two events, one fault; no symmetry.
* `limiter`: two clients, two accounts, two handlers, one slot, a limit of two
  failures, a block of two units of time in a window of three, a table of two: a
  block lasts longer than a tick and ends while its failures still count, the
  third key finds the table full, the second handler finds no slot; no symmetry.
* `accounts`: two ids, three births, three versions, two usernames, one address, one
  password (its properties do not tell passwords apart), no administrators (nor
  roles, whose rules are `AdminPasswordsKept`, a theorem) and one page: what the
  properties fear between the reading and the writing of a page are purchases,
  creations and removals, which need no page, and ids that come back.
* `catalog`: one request and one fixture command, one file, two products, one
  SKU, two shipping options, with forms and signage chosen to collide with the
  fixture: its master SKU, its SKU code, its option in another case.
* `visits`: one browser with two tabs, one user, one source, a token of it, two
  shipped products with an option each, one cart, one failed statement.
* `shipping`: the same.

The hazards of this code are races of two actors over one row with at most one
failure in between, so two of each is where they appear; the theorems remove the
bounds for the safety properties. `faults` is bounded because each fault allows
a retry, and the number of retries is otherwise unlimited. `MaxCheckoutId` is no
restriction on how often a cart is checked out: ids are reused, and two are
enough for a row, its successor and a sold one beside it. `MaxVersion` and
`MaxBirths` of `Accounts` bound counters that only grow; when both are used up
nothing may be left to do, so `accounts` alone is checked without deadlocks.
In every other run a reachable state without a step would be reported.

Symmetry is used where no liveness is checked: over carts and sessions in
`store`, over requests, workers, sessions and terms in `flow` and `reuse`, over
sessions and removals in `removal`, over pages, passwords and usernames in
`accounts`, over the tabs and the pairs of a product and its option in `visits`.
SKUs and checkout ids are told apart.

### Fairness

`FairFlowSpec`: Stripe retries an event until it is answered with success, and
the handler answers with success only after it acted, so looking up a paid or
ended session is strongly fair per session (workers are also busy with others).
`ClaimWebhookEvent` refuses an event in progress with an error, hence with a
retry, and drops only completed ones. A handler that runs makes its next call
(weak), and a process that died is started again (weak: `docs/coolify-deploy.md`
runs it as a supervised container; at the latest an operator starts it). Nothing
is assumed of customers, of checkout requests or of time. Stripe gives up after
some days of failures; faults are finite in the model, so that does not arise.

`FairRemovalSpec` is `RemovalSpec` with the same fairness; nobody has to start a
removal or to go on with one.

`FairSpec` of `Delivery`: events are taken again until acknowledged, running
handlers go on, leases end. The customer owes nothing.

`FairLimiterSpec`: the clock ticks and handlers that were let in finish. Nobody
has to try again, and nobody has to stop: requests already past the check may
extend a block, but there are only so many of them.

There is no fairness that would release an *unattached* checkout: the code
sweeps only when somebody checks out or opens the store. `EndedIsReleased` is
therefore about checkouts with a session.

## What is proved

`tlapm` checks every proof to the last leaf. Assumptions are those named in the
modules: `CatalogAssumption`, `NullAssumption`, `BoundAssumption` (the bounds
are naturals, of any size), `FlowAssumption`, `DeliveryAssumption`,
`RoundsAssumption`, `KeyAssumption`, `LimitAssumption`, `AccountAssumption`,
`VisitsAssumption`. None bounds the number of carts, sessions, requests,
workers, handlers, events, faults, users, pages, keys, browsers, tabs, rows of
the catalog, fixture commands or entries of a file. `CatalogAssumption` says what
forms and files look like: a file's SKUs and options are sequences, and those of
the signage, which is a literal in the code (`signage.go:47`), differ
(`WellFormed`). A fixture need not be well-formed; the two properties that are
about well-formed ones say so.

| Theorem | Establishes |
| --- | --- |
| `StoreInvariant` | `Inv` is inductive: types, the two unique indexes, sales against fulfilled checkouts, carts against sales, snapshots against carts |
| `StoreTypeOK`, `CartsHaveOneCheckout`, `SessionsHaveOneCheckout`, `SalesAreFulfilledCheckouts`, `CartsSoldOnce`, `SnapshotsMatchCarts` | its parts |
| `StockIsConserved` | `StockConserved` |
| `SalesAreFinal`, `AttachedSnapshotsFixed` | the other two action properties |
| `StoreImplementsShop` | `CheckoutStore` implements `Shop` |
| `FlowInvariant` | `FlowInv` is inductive |
| `FlowTypes` | its types |
| `FlowImplementsStore`, `HandlersImplementShop` | `CheckoutFlow` implements `CheckoutStore`, and so `Shop` |
| `PaymentsKeepTheirCheckout`, `OnlyPaidIsSold`, `HandlersActOnTruth` | the safety properties of the run `flow` |
| `HandlersKeepTheStoresPromises` | a cart is sold once, sales are final and stock is conserved with the handlers at work: by refinement, without a second proof |
| `ChargedUnlessReused`, `ChargedByLoneRequest` | `ChargedWhatSold` while no insert takes an id a request has in its hands (`IdsNotReused`), and hence with one request at a time |
| `RemovalInvariant`, `RemovalTypes` | `RemovalInv` is inductive |
| `RemovalsImplementStore`, `RemovalsKeepTheStoresPromises` | `AccountRemoval` implements `CheckoutStore`; the store's promises hold beside removals too |
| `DeletedAccountsOweNothing`, `CanceledRowsAreTrue`, `PaymentsSurviveRemovals` | the safety properties of removals, and `PayableSessionHasCheckout` beside them |
| `DeliveryInvariant`, `DeliveryTypes`, `AcknowledgedIsDelivered`, `SentStaysSent`, `DuplicatesAreFaults` | the safety properties of `Delivery` |
| `LimiterInvariant`, `LimiterTypes`, `TableStaysBounded`, `NoSlotLeaks`, `StreaksAreBounded`, `BlocksEndWithTime` | the safety properties of `LoginLimiter` |
| `AccountInvariant`, `AccountTypes`, `EveryoneLogsInByUsername`, `StaleUpdatesRefused` | the safety properties of `Accounts` |
| `OnlyTheToolChangesAdmins` | `AdminPasswordsKept`, which no run lists: outside the tool no step replaces an administrator's password |
| `CatalogIsInvariant` | `CatalogInv` is inductive |
| `CatalogTypes`, `ImagesAreThere`, `AppliedIsListed`, `UnlistedStays`, `FixturesAreIdempotent` | the properties of `Catalog` |
| `VisitsInvariant`, `VisitsTypes`, `ArrivalsGetTheirReferral`, `ShippingPaid` | the safety properties of `Visits` |

The store. `CartSoldOnce` is not inductive alone: that a second sale of a cart
is impossible needs one checkout per cart, that a sold cart's checkout is not
deleted needs sales to be exactly the checkouts that are not pending, and the
snapshot must equal the cart for the cart methods to have no say. `Inv` is the
conjunction. The proofs group methods by their common effect: an insert, a
deletion of pending rows, an attachment, a sale, an edit of a free cart.

Stock. A column's sum is the number of units it stands for, so sums are
cardinalities: `TotalSplit` says that the sum over some rows and the sum over
the others make up the whole (their units are disjoint), `TotalOne` that one
row's is its number. An insert adds what it takes off the shelf; a deletion
returns the part that goes. Only `UpdateSKU`, which overwrites the count, is exempt.

The shop. The same grouping chooses the abstract step: an insert is `Hold`, a
deletion `Release` of the deals that go, a sale `Sell`, an edit of inventory
`Count`, and everything else leaves deals and shelf alone (`SameDeals`). `Inv` is
used for the two facts the shop insists on and the columns do not show: the
basket of a new deal is free, and a number is not that of a deal already made.

The handlers. `FlowInv` adds what a request's stage says of the session it
holds (`RequestInv`: the session it is about to attach names the checkout it
holds; one it is about to show is secured) and that a row carrying a session is
the row the session names (`RowsNamed`). The last is what survives id reuse: a
session may meet a *later* checkout with its id, but never a different id. A
session that may be paid keeps its row because a cancellation without a session
needs an unattached row and one with a session only happens once the session is
expired or failed, statuses that never change (`LearnedStatusHolds`). So each
step is safe for the sessions it does not touch and the store step is a method.

Charges. Stripe charges what the row said when it was loaded; the sale records
what the row says when it is paid. `ChargeInv` says that the two agree: for rows
that carry a session (`RowsCharged`), and for a request between loading a row and
attaching its session (`RequestCharges`), if the row is there. That condition is
where it can break: the row a request has loaded is deleted by another one, and
the next insert gets its id with other lines, which is the run `reuse`.
`IdsNotReused` says of the steps that this does not happen, and it is a
hypothesis of `ChargedUnlessReused`, not of the model. `ChargedByLoneRequest`
discharges it for one request at a time, whatever webhooks and return pages do:
a request inserts only when it has no loaded row.

Removals. `RemovalInv` adds to `FlowInv` that a removal about to release a
checkout holds an expired session, that its subscriptions are sold ones, and
that a deleted account has no pending checkout and no live subscription row.
The last is what the refusing `DELETE` establishes and the foreign key keeps:
without a new row, and with sales final, nothing pending can come back. From it
`DeletedOwesNothing` follows: a payable session is secured (`FlowInv`), so its
checkout is there, so it is a sale, so it was paid. What a step does to the
store and to Stripe is shown once, as `StepKept`, for handlers and removals alike;
`RemovalKept` keeps of it that the step was a step of the store.

Deliveries. `DeliveryInv` says what a handler has behind it at each stage: a
handler at the invitation has the receipt noted as sent, one that skips the
invitation found it sent, one that completes its event has both mails out. It
holds although leases may be outlived and claims released by others, because
notes are written only after a send and "sent" is never taken back.
`DuplicatesCostFaults` counts: `BudgetInv` says of each mail that what was sent,
plus the handlers that hold a claim under which they have not sent yet
(`Owing`), plus one if another claim can still be had (`Open`), is at most one
more than the faults. A claim turns the last one into the second, a send the
second into the first, and whatever opens a mail again, a lease outlived by a
crash or a note that failed after the send, is a fault or gives a claim back.

The limiter. `StreakBounded` speaks of keys while they are free and while they
are blocked, and a step that counts a failure moves between the two, so
`LimiterInv` says of every entry (`EntryOK`) that its block ends before it is
forgotten, that below the limit it is free with a streak no longer than its
count, and that while it is blocked the streak and the requests that may still
report a failure of it (`Engaged`) together stay below the bound. Each failure
takes its request out of `Engaged` as it lengthens the streak; nobody joins
`Engaged` of a blocked key. `BlocksEndWithTime` needs that a sweep and a forgotten
window drop only entries whose window is over, hence (`EntryOK`) not blocked.

Accounts. That a stale page is refused rests on versions, and versions compare
only within one life of an id: `ReadsAreOld` says that a page's row is no newer
than the user's if the user is still the same one, and that at equal versions
the two rows are equal. Every step makes a table that is later than the one
before (`Later`): rows are kept, or have a higher version, or a new birth. That
is shown once, and the actions need only show that they are such steps. Without
`born` the theorem would be false, which is `UpdatesWhomWasRead` above.

Visits. `ShippingIsPaid` looks at one step, but that the option charged was ever
chosen by this browser is a matter of its whole past: `ChoicesAreOwn` follows a
choice from the form through the answer under way into the cookie and out again
with the next request, whichever tab overwrites whose. `LosersFind` is its
counterpart for referrals: whoever looks a second time finds a row, unless a
statement has failed. Types do the rest: rows are only ever added, so an id that
was given out stays the id of a row.

The catalog. All three promises of the fixture command are about a run in whose
way nobody writes, and each needs to know what earlier statements of the run have
left behind, across a file of any length. `CatalogInv` says of such a run that
what it has read is still so (`ReadIsTrue`: the SKU it found has the code and the
product, the option names it read are those of its product's rows), that the
entries it has come past are there (`Progress`, `ListedSoFar`), and, if the file
was applied when it began, that the product it works on lists the file and every
option of it was read (`NothingToDo`). An entry is written over a row only if
that row has its code or name, so it overwrites an earlier entry only if the file
is not `WellFormed`. When there is nothing to do, the row found is the row
listed, because of the UNIQUE index for SKUs and of `NamesAreClear` for options,
whose names are matched in any case but unique only as written; so it is written
over itself. Other writers are dealt with once (`StandingBy`): each of their
steps leaves the tables alone or marks the run as disturbed. No induction over
the entries is needed, as each write extends `ListedSoFar` by one.

Only model-checked, because liveness and fairness are out of the prover's reach:
`PaidIsSold`, `EndedIsReleased`, `EventsAreHandled` and `BlocksEnd`. Every safety
property of a passing run has a theorem, `ChargedWhatSold` under the condition
above, without which it is false.

## Not modelled

* The contact form (one call that verifies, one mail), configuration (read once),
  rendering and templates (most of them generated): they keep no state.
* Cookie encoding, CSRF tokens, password hashing, image decoding, the signature
  check and the parameter encoding of the Stripe gateway: no two actors share
  anything in them. Prices and the arithmetic of money are pure and appear as
  `Terms`; no total of money is computed in the models.
* Event claims and deliveries are listed as partly modelled: one purchase is
  followed, and `IssueInvitationToken`, which no handler calls, is left out. The
  Stripe gateway and images are partly modelled for the reasons above.
* The sweep of a checkout nobody comes back for has no bound in time in the code,
  so none is stated.
* A crash of the machine that loses a committed transaction; SQLite promises
  otherwise.
