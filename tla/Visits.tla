-------------------------------- MODULE Visits --------------------------------
(***************************************************************************)
(* What a customer's browser carries from page to page, and what the shop  *)
(* makes of it: the cookies of the cart, of the shipping choices and of    *)
(* the referral (internal/web/cart.go, referrals.go), the referrals        *)
(* (internal/commerce/events.go), and whom and what a checkout is charged  *)
(* with (internal/commerce/checkout.go, fulfillment.go).                   *)
(*                                                                         *)
(* A browser has several tabs.  A request carries the cookies of the       *)
(* moment it is sent, and what it sets arrives with its answer, if that    *)
(* arrives.  Quantities, SKUs and stock are CheckoutStore's; here a cart   *)
(* is the set of its products.                                             *)
(***************************************************************************)
EXTENDS Naturals, Sequences

CONSTANTS
  Browsers, Tabs,
  Owner,         \* the browser of a tab
  Users, NoUser,
  Sources,       \* the pages elsewhere that link to the shop
  Tokens,        \* what ?ref= of such a page's URL may say
  Products,
  Options, NoOption,
  OptionsOf,     \* the shipping options of a product
  MaxCarts,      \* bound: the rows of commerce_carts
  MaxFaults      \* bound: the statements of captureReferral that fail

ASSUME VisitsAssumption ==
  /\ Owner \in [Tabs -> Browsers]
  /\ NoUser \notin Users
  /\ NoOption \notin Options
  /\ OptionsOf \in [Products -> SUBSET Options]
  /\ Tokens \subseteq Nat \ {0}
  /\ MaxFaults \in Nat

NoRow == 0

NoShip == [p \in Products |-> NoOption]
Ships == [Products -> Options \cup {NoOption}]

\* A checkout of a cart, and none.
NoDeal == [at |-> "none", user |-> NoUser, referral |-> NoRow, ship |-> NoShip]

EmptyJar == [user |-> NoUser, cart |-> NoRow, referral |-> NoRow, ship |-> NoShip]

Idle == [at |-> "idle", cart |-> NoRow, sent |-> NoShip, newCart |-> NoRow,
         newReferral |-> NoRow, newShip |-> NoShip]

\* A request that has its cart, and the choices it came with.
Adding(cart, new, ship) ==
  [Idle EXCEPT !.at = "add", !.cart = cart, !.newCart = new, !.sent = ship]

\* An answer under way, and the cookies it sets.
Answer(cart, referral, ship) ==
  [Idle EXCEPT !.at = "answer", !.newCart = cart, !.newReferral = referral,
               !.newShip = ship]

VARIABLES
  referrals,  \* commerce_referrals: the source of every row
  carts,      \* commerce_carts, each with its checkout
  credit,     \* commerce_user_referrals
  active,     \* the shipping options that are active
  jar,        \* the cookies of a browser
  tab,        \* the request of a tab, or its answer under way
  page,       \* what that request is about: a source, or a product and an option
  faults,     \* statements that have failed
  chosen      \* the options a browser has chosen, for good: no code reads it

vars == <<referrals, carts, credit, active, jar, tab, page, faults, chosen>>

Rows == 0..Len(referrals)
CartRows == 0..Len(carts)

\* The product is shipped: CreateCheckout counts its active options.
Shipped(p) == OptionsOf[p] \cap active # {}

RowsOf(s) == {i \in DOMAIN referrals : referrals[i] = s}

\* openCart finds the browser's cart and it is open.
HasCart(b) == jar[b].cart # NoRow /\ carts[jar[b].cart].status = "open"

\* ensureCartMutable and the status checks of the methods of a cart.
Mutable(c) == carts[c].status = "open" /\ carts[c].deal.at # "pending"

VisitsInit ==
  /\ referrals = <<>> /\ carts = <<>>
  /\ credit = [u \in Users |-> NoRow]
  /\ active = Options
  /\ jar = [b \in Browsers |-> EmptyJar]
  /\ tab = [t \in Tabs |-> Idle]
  /\ page = [t \in Tabs |-> <<>>]
  /\ faults = 0
  /\ chosen = [b \in Browsers |-> {}]

-----------------------------------------------------------------------------
(* Referrals: captureReferral and FindOrCreateReferral.                    *)

Capturing == {"look", "insert", "again"}

Answers(t, a) ==
  /\ tab' = [tab EXCEPT ![t] = a]
  /\ page' = [page EXCEPT ![t] = <<>>]

\* A visitor comes from another page and has no cookie of a referral yet.
Arrives(t, s) ==
  /\ tab[t].at = "idle" /\ jar[Owner[t]].referral = NoRow
  /\ tab' = [tab EXCEPT ![t].at = "look"]
  /\ page' = [page EXCEPT ![t] = <<s>>]
  /\ UNCHANGED <<referrals, carts, credit, active, jar, faults, chosen>>

\* That page's URL has a token of ours, or one that nobody knows.
ArrivesWithToken(t, token) ==
  /\ tab[t].at = "idle" /\ jar[Owner[t]].referral = NoRow
  /\ Answers(t, Answer(NoRow, IF token \in DOMAIN referrals THEN token ELSE NoRow, NoShip))
  /\ UNCHANGED <<referrals, carts, credit, active, jar, faults, chosen>>

\* ReferralByURLHost, before the insert or after one that failed.
LooksUp(t) ==
  /\ tab[t].at \in {"look", "again"}
  /\ \/ \E row \in RowsOf(page[t][1]) : Answers(t, Answer(NoRow, row, NoShip))
     \/ /\ RowsOf(page[t][1]) = {} /\ tab[t].at = "again"
        /\ Answers(t, Answer(NoRow, NoRow, NoShip))
     \/ /\ RowsOf(page[t][1]) = {} /\ tab[t].at = "look"
        /\ tab' = [tab EXCEPT ![t].at = "insert"]
        /\ UNCHANGED page
  /\ UNCHANGED <<referrals, carts, credit, active, jar, faults, chosen>>

\* Mistakes that the properties must show.  The loser of the unique index is
\* answered with the token it made up,
InsertsAnyway(t) ==
  /\ tab[t].at = "insert"
  /\ \/ /\ RowsOf(page[t][1]) = {}
        /\ referrals' = Append(referrals, page[t][1])
     \/ /\ RowsOf(page[t][1]) # {}
        /\ UNCHANGED referrals
  /\ Answers(t, Answer(NoRow, Len(referrals) + 1, NoShip))
  /\ UNCHANGED <<carts, credit, active, jar, faults, chosen>>

\* or does not look again.
InsertsOnce(t) ==
  /\ tab[t].at = "insert"
  /\ \/ /\ RowsOf(page[t][1]) = {}
        /\ referrals' = Append(referrals, page[t][1])
        /\ Answers(t, Answer(NoRow, Len(referrals) + 1, NoShip))
     \/ /\ RowsOf(page[t][1]) # {}
        /\ Answers(t, Answer(NoRow, NoRow, NoShip))
        /\ UNCHANGED referrals
  /\ UNCHANGED <<carts, credit, active, jar, faults, chosen>>

\* CreateReferral.  The unique index lets one row of a source in.
Inserts(t) ==
  /\ tab[t].at = "insert"
  /\ \/ /\ RowsOf(page[t][1]) = {}
        /\ referrals' = Append(referrals, page[t][1])
        /\ Answers(t, Answer(NoRow, Len(referrals) + 1, NoShip))
     \/ /\ RowsOf(page[t][1]) # {}
        /\ tab' = [tab EXCEPT ![t].at = "again"]
        /\ UNCHANGED <<referrals, page>>
  /\ UNCHANGED <<carts, credit, active, jar, faults, chosen>>

\* A statement fails for another reason: logged, and the page is shown.  A
\* failed insert is followed by the second look.
CaptureFails(t) ==
  /\ tab[t].at \in Capturing /\ faults < MaxFaults
  /\ faults' = faults + 1
  /\ \/ /\ tab[t].at = "insert"
        /\ tab' = [tab EXCEPT ![t].at = "again"]
        /\ UNCHANGED page
     \/ /\ tab[t].at # "insert"
        /\ Answers(t, Answer(NoRow, NoRow, NoShip))
  /\ UNCHANGED <<referrals, carts, credit, active, jar, chosen>>

-----------------------------------------------------------------------------
(* Answers, and who is logged in.                                          *)

\* The cookies of the browser with those that an answer sets.
Kept(cookies, answer) ==
  [cookies EXCEPT
     !.cart = IF answer.newCart # NoRow THEN answer.newCart ELSE @,
     !.referral = IF answer.newReferral # NoRow THEN answer.newReferral ELSE @,
     !.ship = IF answer.newShip # NoShip THEN answer.newShip ELSE @]

\* The answer arrives and the browser keeps what it sets.
Receives(t) ==
  /\ tab[t].at = "answer"
  /\ jar' = [jar EXCEPT ![Owner[t]] = Kept(jar[Owner[t]], tab[t])]
  /\ tab' = [tab EXCEPT ![t] = Idle]
  /\ UNCHANGED <<referrals, carts, credit, active, page, faults, chosen>>

\* The tab is closed before that.
Leaves(t) ==
  /\ tab[t].at = "answer"
  /\ tab' = [tab EXCEPT ![t] = Idle]
  /\ UNCHANGED <<referrals, carts, credit, active, jar, page, faults, chosen>>

\* login: the last referral a user logs in with is the user's.
LogsIn(b, u) ==
  /\ jar[b].user = NoUser
  /\ jar' = [jar EXCEPT ![b].user = u]
  /\ credit' = [credit EXCEPT ![u] =
                  IF jar[b].referral # NoRow THEN jar[b].referral ELSE @]
  /\ UNCHANGED <<referrals, carts, active, tab, page, faults, chosen>>

\* logout clears the cookie of the session and no other.
LogsOut(b) ==
  /\ jar[b].user # NoUser
  /\ jar' = [jar EXCEPT ![b].user = NoUser]
  /\ UNCHANGED <<referrals, carts, credit, active, tab, page, faults, chosen>>

-----------------------------------------------------------------------------
(* The cart: addCartItem, removeCartItem.                                  *)

Cart(b) ==
  [user |-> jar[b].user, referral |-> jar[b].referral, status |-> "open",
   lines |-> {}, deal |-> NoDeal]

\* What SetCartUser and SetCartReferral leave of the cart c.
Claimed(b, c) ==
  [carts[c] EXCEPT
     !.user = IF jar[b].user # NoUser THEN jar[b].user ELSE @,
     !.referral = IF jar[b].referral # NoRow THEN jar[b].referral ELSE @]

\* addCartItem up to openCart: a product and an active option of it, or none.
OpensCart(t, p, o) ==
  LET b == Owner[t] IN
  /\ tab[t].at = "idle"
  /\ o \in (OptionsOf[p] \cap active) \cup {NoOption}
  /\ \/ /\ HasCart(b)
        /\ carts' = [carts EXCEPT ![jar[b].cart] = Claimed(b, jar[b].cart)]
        /\ tab' = [tab EXCEPT ![t] = Adding(jar[b].cart, NoRow, jar[b].ship)]
     \/ /\ ~HasCart(b) /\ Len(carts) < MaxCarts
        /\ carts' = Append(carts, Cart(b))
        /\ tab' = [tab EXCEPT ![t] =
                     Adding(Len(carts) + 1, Len(carts) + 1, jar[b].ship)]
  /\ page' = [page EXCEPT ![t] = <<p, o>>]
  /\ UNCHANGED <<referrals, credit, active, jar, faults, chosen>>

\* setShippingSelections: the choices that came with the request, and this one.
Chosen(t) ==
  IF page[t][2] = NoOption THEN NoShip
  ELSE [tab[t].sent EXCEPT ![page[t][1]] = page[t][2]]

\* AddCartSelection, and the answer.
AddsItem(t) ==
  /\ tab[t].at = "add"
  /\ \/ /\ Mutable(tab[t].cart)
        /\ carts' = [carts EXCEPT ![tab[t].cart].lines = @ \cup {page[t][1]}]
        /\ Answers(t, Answer(tab[t].newCart, NoRow, Chosen(t)))
        /\ chosen' = [chosen EXCEPT ![Owner[t]] = @ \cup ({page[t][2]} \ {NoOption})]
     \/ /\ ~Mutable(tab[t].cart)
        /\ Answers(t, Answer(tab[t].newCart, NoRow, NoShip))
        /\ UNCHANGED <<carts, chosen>>
  /\ UNCHANGED <<referrals, credit, active, jar, faults>>

\* removeCartItem.  The choice for the product stays in its cookie.
RemovesItem(b, p) ==
  LET c == jar[b].cart IN
  /\ c # NoRow
  /\ Mutable(c) /\ p \in carts[c].lines
  /\ carts' = [carts EXCEPT ![c].lines = @ \ {p}]
  /\ UNCHANGED <<referrals, credit, active, jar, tab, page, faults, chosen>>

-----------------------------------------------------------------------------
(* The checkout of a cart, and its end.                                    *)

\* A mistake: CreateCheckout trusts the cookie and does not read the option again.
AcceptsAsChosen(lines, ship) ==
  /\ \A p \in lines : Shipped(p) => ship[p] # NoOption
  /\ \A p \in Products : ship[p] # NoOption => p \in lines

\* CreateCheckout takes the choices: one for every shipped product of the
\* cart, active and its own, and none for anything else.
Accepts(lines, ship) ==
  /\ \A p \in lines : Shipped(p) => ship[p] # NoOption
  /\ \A p \in Products : ship[p] # NoOption =>
       p \in lines /\ ship[p] \in OptionsOf[p] \cap active

\* checkoutCart: the request's user and referral come before the cart's.
ChecksOut(b) ==
  LET c == jar[b].cart IN
  /\ HasCart(b)
  /\ carts[c].lines # {} /\ carts[c].deal = NoDeal
  /\ Accepts(carts[c].lines, jar[b].ship)
  /\ carts' = [carts EXCEPT ![c].deal =
       [at |-> "pending",
        user |-> IF jar[b].user # NoUser THEN jar[b].user ELSE carts[c].user,
        referral |-> IF jar[b].referral # NoRow THEN jar[b].referral
                     ELSE carts[c].referral,
        ship |-> jar[b].ship]]
  /\ UNCHANGED <<referrals, credit, active, jar, tab, page, faults, chosen>>

\* The checkout is canceled or expires, and its row is deleted.
Releases(c) ==
  /\ carts[c].deal.at = "pending"
  /\ carts' = [carts EXCEPT ![c].deal = NoDeal]
  /\ UNCHANGED <<referrals, credit, active, jar, tab, page, faults, chosen>>

\* FulfillCheckout.  A guest who wants an account is u, found by the address
\* or invited; the first referral a purchase brings a user stays.
Sells(c, u) ==
  LET deal == carts[c].deal
      buyer == IF deal.user # NoUser THEN deal.user ELSE u IN
  /\ deal.at = "pending"
  /\ carts' = [carts EXCEPT ![c] =
       [carts[c] EXCEPT !.status = "checked_out",
                        !.deal = [deal EXCEPT !.at = "fulfilled"]]]
  /\ \/ /\ buyer \in Users /\ deal.referral # NoRow /\ credit[buyer] = NoRow
        /\ credit' = [credit EXCEPT ![buyer] = deal.referral]
     \/ /\ ~(buyer \in Users /\ deal.referral # NoRow /\ credit[buyer] = NoRow)
        /\ UNCHANGED credit
  /\ UNCHANGED <<referrals, active, jar, tab, page, faults, chosen>>

\* An administrator turns a shipping option on or off.
TurnsOption(o) ==
  /\ active' = IF o \in active THEN active \ {o} ELSE active \cup {o}
  /\ UNCHANGED <<referrals, carts, credit, jar, tab, page, faults, chosen>>

VisitsNext ==
  \/ \E t \in Tabs :
       \/ \E s \in Sources : Arrives(t, s)
       \/ \E token \in Tokens : ArrivesWithToken(t, token)
       \/ LooksUp(t) \/ Inserts(t) \/ CaptureFails(t)
       \/ Receives(t) \/ Leaves(t)
       \/ \E p \in Products, o \in Options \cup {NoOption} : OpensCart(t, p, o)
       \/ AddsItem(t)
  \/ \E b \in Browsers :
       \/ \E u \in Users : LogsIn(b, u)
       \/ LogsOut(b)
       \/ \E p \in Products : RemovesItem(b, p)
       \/ ChecksOut(b)
  \/ \E c \in DOMAIN carts :
       \/ Releases(c)
       \/ \E u \in Users \cup {NoUser} : Sells(c, u)
  \/ \E o \in Options : TurnsOption(o)

VisitsSpec == VisitsInit /\ [][VisitsNext]_vars

-----------------------------------------------------------------------------
(* The properties.                                                         *)

DealType ==
  [at : {"none", "pending", "fulfilled"}, user : Users \cup {NoUser},
   referral : Rows, ship : Ships]

CartType ==
  [user : Users \cup {NoUser}, referral : Rows, status : {"open", "checked_out"},
   lines : SUBSET Products, deal : DealType]

JarType ==
  [user : Users \cup {NoUser}, cart : CartRows, referral : Rows, ship : Ships]

TabType ==
  [at : {"idle", "add", "answer"} \cup Capturing, cart : CartRows, sent : Ships,
   newCart : CartRows, newReferral : Rows, newShip : Ships]

PageOK(t) ==
  /\ tab[t].at \in Capturing => \E s \in Sources : page[t] = <<s>>
  /\ tab[t].at = "add" =>
       /\ \E p \in Products, o \in Options \cup {NoOption} : page[t] = <<p, o>>
       /\ tab[t].cart # NoRow

\* Types.  Every id a cookie, a cart, a checkout or a user's credit holds is
\* that of a row: a token is given out only with its row.
VisitsTypeOK ==
  /\ referrals \in Seq(Sources)
  /\ carts \in Seq(CartType)
  /\ credit \in [Users -> Rows]
  /\ active \in SUBSET Options
  /\ jar \in [Browsers -> JarType]
  /\ tab \in [Tabs -> TabType]
  /\ DOMAIN page = Tabs /\ \A t \in Tabs : PageOK(t)
  /\ faults \in 0..MaxFaults
  /\ chosen \in [Browsers -> SUBSET Options]

\* Whoever comes from a page gets the referral of that page, also when others
\* come from it at that moment and one of them makes the row: the loser of
\* the unique index finds the winner's.  Only faults leave a visitor without:
\* of this statement, or of an insert that then has made no row.
ArrivalsAreCredited ==
  [][\A t \in Tabs :
       tab[t].at \in Capturing /\ tab'[t].at = "answer" /\ faults' = faults =>
         \/ /\ tab'[t].newReferral \in DOMAIN referrals'
            /\ referrals'[tab'[t].newReferral] = page[t][1]
         \/ faults > 0 /\ RowsOf(page[t][1]) = {}]_vars

\* A checkout charges, for every shipped product of its cart and for nothing
\* else, an option of that product which is active at that moment and which
\* this very browser has chosen: whatever its tabs have overwritten in each
\* other's cookies and whatever the administrators have turned off and on.
ShippingIsPaid ==
  [][\A c \in DOMAIN carts :
       carts[c].deal.at = "none" /\ carts'[c].deal.at = "pending" =>
         \E b \in Browsers :
           /\ jar[b].cart = c
           /\ \A p \in Products :
                IF p \in carts[c].lines /\ Shipped(p)
                THEN carts'[c].deal.ship[p] \in OptionsOf[p] \cap active \cap chosen[b]
                ELSE carts'[c].deal.ship[p] = NoOption]_vars

\* A cart whose products are all shipped as chosen can be checked out.  It does
\* not hold: a choice for a product that has left the cart, or was in the last
\* one, stays in the cookie, and CreateCheckout refuses it.
CartCanBeCheckedOut ==
  \A b \in Browsers : LET c == jar[b].cart IN
    HasCart(b) /\ carts[c].lines # {} /\ carts[c].deal = NoDeal
      /\ (\A p \in carts[c].lines : jar[b].ship[p] \in OptionsOf[p] \cap active)
    => Accepts(carts[c].lines, jar[b].ship)
=============================================================================
