---------------------------- MODULE Visits_proofs ----------------------------
(***************************************************************************)
(* Proofs about Visits, for any browsers, tabs, sources, products, options *)
(* and carts.                                                              *)
(***************************************************************************)
EXTENDS Visits, SequenceTheorems, TLAPS

\* Every choice in a cookie, on its way there or sent from there is one its
\* browser has made.
ChoicesAreOwn ==
  /\ \A b \in Browsers, p \in Products :
       jar[b].ship[p] # NoOption => jar[b].ship[p] \in chosen[b]
  /\ \A t \in Tabs, p \in Products :
       /\ tab[t].sent[p] # NoOption => tab[t].sent[p] \in chosen[Owner[t]]
       /\ tab[t].newShip[p] # NoOption => tab[t].newShip[p] \in chosen[Owner[t]]

\* Whoever looks a second time finds a row, unless a statement has failed.
LosersFind ==
  \A t \in Tabs : tab[t].at = "again" => faults > 0 \/ RowsOf(page[t][1]) # {}

VisitsInv == VisitsTypeOK /\ ChoicesAreOwn /\ LosersFind

-----------------------------------------------------------------------------
(* The types, when rows are added and when not.                            *)

\* Answers and the empty jar are of their types.
LEMMA Shapes ==
  ASSUME VisitsTypeOK
  PROVE  /\ NoShip \in Ships
         /\ NoDeal \in DealType
         /\ EmptyJar \in JarType
         /\ Idle \in TabType
         /\ \A c \in CartRows, r \in Rows, ship \in Ships :
              Answer(c, r, ship) \in TabType
<1>1. NoRow \in Rows /\ NoRow \in CartRows
  BY DEF VisitsTypeOK, Rows, CartRows, NoRow
<1>2. NoShip \in Ships
  BY DEF NoShip, Ships
<1>3. Idle \in TabType
  BY <1>1, <1>2 DEF Idle, TabType
<1>4. ASSUME NEW c \in CartRows, NEW r \in Rows, NEW ship \in Ships
      PROVE  Answer(c, r, ship) \in TabType
  BY <1>1, <1>2 DEF Answer, Idle, TabType
<1> QED
  BY <1>1, <1>2, <1>3, <1>4 DEF NoDeal, DealType, EmptyJar, JarType

\* What refers to rows still does when there are more.
LEMMA MoreRows ==
  ASSUME VisitsTypeOK, referrals' \in Seq(Sources), Len(referrals') >= Len(referrals)
  PROVE  Rows \subseteq Rows' /\ CartType \subseteq CartType'
<1>1. Rows \subseteq Rows'
  BY DEF VisitsTypeOK, Rows
<1>2. DealType \subseteq DealType'
  BY <1>1 DEF DealType
<1> QED
  BY <1>1, <1>2 DEF CartType

\* The types of cookies and requests grow with both tables.
LEMMA MoreOfBoth ==
  ASSUME Rows \subseteq Rows', CartRows \subseteq CartRows'
  PROVE  JarType \subseteq JarType' /\ TabType \subseteq TabType'
BY DEF JarType, TabType, Capturing

\* The tables are unchanged, and so is what is of their types.
LEMMA SameRows ==
  ASSUME UNCHANGED <<referrals, carts>>
  PROVE  /\ Rows' = Rows /\ CartRows' = CartRows /\ DealType' = DealType
         /\ CartType' = CartType /\ JarType' = JarType /\ TabType' = TabType
<1>1. Rows' = Rows /\ CartRows' = CartRows
  BY DEF Rows, CartRows
<1>2. DealType' = DealType
  BY <1>1 DEF DealType
<1> QED
  BY <1>1, <1>2 DEF CartType, JarType, TabType, Capturing

-----------------------------------------------------------------------------
(* One lemma for each kind of step.                                        *)

\* A request that is answered, with a cookie of a row there is.
LEMMA AnswerStep ==
  ASSUME VisitsInv, NEW t \in Tabs, NEW c \in CartRows, NEW r \in Rows,
         Answers(t, Answer(c, r, NoShip)),
         UNCHANGED <<referrals, carts, credit, active, jar, chosen>>,
         faults' \in 0..MaxFaults, faults' >= faults
  PROVE  VisitsInv'
<1>1. Answer(c, r, NoShip) \in TabType /\ TabType' = TabType /\ CartType' = CartType
      /\ JarType' = JarType /\ Rows' = Rows
  BY Shapes, SameRows DEF VisitsInv
<1>2. tab' = [tab EXCEPT ![t] = Answer(c, r, NoShip)] /\ page' = [page EXCEPT ![t] = <<>>]
  BY DEF Answers
<1>3. tab'[t] = Answer(c, r, NoShip) /\ \A x \in Tabs \ {t} : tab'[x] = tab[x] /\ page'[x] = page[x]
  BY <1>2 DEF VisitsInv, VisitsTypeOK
<1>4. tab'[t].at = "answer" /\ tab'[t].sent = NoShip /\ tab'[t].newShip = NoShip
  BY <1>3 DEF Answer, Idle
<1>5. tab' \in [Tabs -> TabType]
  BY <1>1, <1>2 DEF VisitsInv, VisitsTypeOK
<1>6. DOMAIN page' = Tabs /\ \A x \in Tabs : PageOK(x)'
  BY <1>2, <1>3, <1>4 DEF VisitsInv, VisitsTypeOK, PageOK, Capturing
<1>7. VisitsTypeOK'
  BY <1>1, <1>5, <1>6 DEF VisitsInv, VisitsTypeOK
<1>8. ChoicesAreOwn'
  <2>1. \A b \in Browsers, p \in Products :
          jar'[b].ship[p] # NoOption => jar'[b].ship[p] \in chosen'[b]
    BY DEF VisitsInv, ChoicesAreOwn
  <2>2. ASSUME NEW x \in Tabs, NEW p \in Products
        PROVE  /\ tab'[x].sent[p] # NoOption => tab'[x].sent[p] \in chosen'[Owner[x]]
               /\ tab'[x].newShip[p] # NoOption => tab'[x].newShip[p] \in chosen'[Owner[x]]
    BY <1>3, <1>4 DEF VisitsInv, ChoicesAreOwn, NoShip
  <2> QED
    BY <2>1, <2>2 DEF ChoicesAreOwn
<1>9. LosersFind'
  BY <1>3, <1>4 DEF VisitsInv, VisitsTypeOK, LosersFind, RowsOf
<1> QED
  BY <1>7, <1>8, <1>9 DEF VisitsInv

\* A request of a referral that goes from one statement to the next.
LEMMA CaptureStep ==
  ASSUME VisitsInv, NEW t \in Tabs, NEW at \in {"look", "insert", "again"},
         tab' = [tab EXCEPT ![t].at = at],
         \/ \E s \in Sources : page' = [page EXCEPT ![t] = <<s>>]
         \/ tab[t].at \in Capturing /\ page' = page,
         UNCHANGED <<referrals, carts, credit, active, jar, chosen>>,
         faults' \in 0..MaxFaults, faults' >= faults,
         at = "again" => faults' > 0 \/ RowsOf(page'[t][1]) # {}
  PROVE  VisitsInv'
<1>1. TabType' = TabType /\ CartType' = CartType /\ JarType' = JarType /\ Rows' = Rows
  BY SameRows
<1>2. /\ tab'[t] = [tab[t] EXCEPT !.at = at]
      /\ \A x \in Tabs \ {t} : tab'[x] = tab[x] /\ page'[x] = page[x]
  BY DEF VisitsInv, VisitsTypeOK
<1>3. tab[t] \in TabType
  BY DEF VisitsInv, VisitsTypeOK
<1>4. tab'[t] \in TabType /\ tab'[t].at = at /\ tab'[t].sent = tab[t].sent
      /\ tab'[t].newShip = tab[t].newShip
  BY <1>2, <1>3 DEF TabType, Capturing
<1>5. tab' \in [Tabs -> TabType]
  BY <1>2, <1>4 DEF VisitsInv, VisitsTypeOK
<1>6. DOMAIN page' = Tabs
  BY DEF VisitsInv, VisitsTypeOK
<1>7. \E s \in Sources : page'[t] = <<s>>
  BY DEF VisitsInv, VisitsTypeOK, PageOK
<1>8. ASSUME NEW x \in Tabs PROVE PageOK(x)'
  BY <1>2, <1>4, <1>7 DEF VisitsInv, VisitsTypeOK, PageOK, Capturing
<1>9. VisitsTypeOK'
  BY <1>1, <1>5, <1>6, <1>8 DEF VisitsInv, VisitsTypeOK
<1>10. ChoicesAreOwn'
  <2>1. \A b \in Browsers, p \in Products :
          jar'[b].ship[p] # NoOption => jar'[b].ship[p] \in chosen'[b]
    BY DEF VisitsInv, ChoicesAreOwn
  <2>2. ASSUME NEW x \in Tabs, NEW p \in Products
        PROVE  /\ tab'[x].sent[p] # NoOption => tab'[x].sent[p] \in chosen'[Owner[x]]
               /\ tab'[x].newShip[p] # NoOption => tab'[x].newShip[p] \in chosen'[Owner[x]]
    BY <1>2, <1>4 DEF VisitsInv, ChoicesAreOwn
  <2> QED
    BY <2>1, <2>2 DEF ChoicesAreOwn
<1>11. LosersFind'
  <2>1. ASSUME NEW x \in Tabs, tab'[x].at = "again"
        PROVE  faults' > 0 \/ RowsOf(page[x][1])' # {}
    BY <1>2, <1>4, <2>1 DEF VisitsInv, VisitsTypeOK, LosersFind, RowsOf
  <2> QED
    BY <2>1 DEF LosersFind
<1> QED
  BY <1>9, <1>10, <1>11 DEF VisitsInv

\* A request that is over; its cookies are in the jar or lost.
LEMMA EndStep ==
  ASSUME VisitsInv, NEW t \in Tabs, tab[t].at = "answer", Receives(t) \/ Leaves(t)
  PROVE  VisitsInv'
<1>1. TabType' = TabType /\ CartType' = CartType /\ JarType' = JarType /\ Rows' = Rows
  BY SameRows DEF Receives, Leaves
<1>2. Idle \in TabType
  BY Shapes DEF VisitsInv
<1>3. /\ tab' = [tab EXCEPT ![t] = Idle]
      /\ UNCHANGED <<referrals, carts, credit, active, page, faults, chosen>>
  BY DEF Receives, Leaves
<1>4. tab'[t] = Idle /\ \A x \in Tabs \ {t} : tab'[x] = tab[x]
  BY <1>3 DEF VisitsInv, VisitsTypeOK
<1>5. tab'[t].at = "idle" /\ tab'[t].sent = NoShip /\ tab'[t].newShip = NoShip
  BY <1>4 DEF Idle
<1>6. tab' \in [Tabs -> TabType]
  BY <1>2, <1>3 DEF VisitsInv, VisitsTypeOK
<1>7. \A x \in Tabs : PageOK(x)'
  BY <1>3, <1>4, <1>5 DEF VisitsInv, VisitsTypeOK, PageOK, Capturing
<1>8. tab[t] \in TabType /\ Owner[t] \in Browsers /\ jar[Owner[t]] \in JarType
  BY VisitsAssumption DEF VisitsInv, VisitsTypeOK
<1>9. /\ jar' \in [Browsers -> JarType]
      /\ \A b \in Browsers, p \in Products :
           jar'[b].ship[p] # NoOption => jar'[b].ship[p] \in chosen'[b]
  <2>1. CASE Leaves(t)
    BY <2>1 DEF Leaves, VisitsInv, VisitsTypeOK, ChoicesAreOwn
  <2>2. CASE Receives(t)
    <3> DEFINE b == Owner[t]
               kept == Kept(jar[b], tab[t])
    <3>1. kept \in JarType
      BY <1>8 DEF JarType, TabType, Kept
    <3>2. jar' = [jar EXCEPT ![b] = kept]
      BY <2>2 DEF Receives
    <3>3. jar' \in [Browsers -> JarType]
      BY <3>1, <3>2 DEF VisitsInv, VisitsTypeOK
    <3>4. jar'[b].ship = kept.ship /\ \A x \in Browsers \ {b} : jar'[x] = jar[x]
      BY <3>2, <1>8 DEF VisitsInv, VisitsTypeOK
    <3>5. kept.ship = tab[t].newShip \/ kept.ship = jar[b].ship
      BY <1>8 DEF Kept, JarType
    <3> QED
      BY <1>3, <1>8, <3>3, <3>4, <3>5 DEF VisitsInv, ChoicesAreOwn
  <2> QED
    BY <2>1, <2>2
<1>10. VisitsTypeOK'
  BY <1>1, <1>3, <1>6, <1>7, <1>9 DEF VisitsInv, VisitsTypeOK
<1>11. ChoicesAreOwn'
  <2>1. ASSUME NEW x \in Tabs, NEW p \in Products
        PROVE  /\ tab'[x].sent[p] # NoOption => tab'[x].sent[p] \in chosen'[Owner[x]]
               /\ tab'[x].newShip[p] # NoOption => tab'[x].newShip[p] \in chosen'[Owner[x]]
    BY <1>3, <1>4, <1>5 DEF VisitsInv, ChoicesAreOwn, NoShip
  <2> QED
    BY <1>9, <2>1 DEF ChoicesAreOwn
<1>12. LosersFind'
  BY <1>3, <1>4, <1>5 DEF VisitsInv, LosersFind, RowsOf
<1> QED
  BY <1>10, <1>11, <1>12 DEF VisitsInv

\* A referral is added, or was just added by somebody else.
LEMMA InsertStep ==
  ASSUME VisitsInv, NEW t \in Tabs, Inserts(t)
  PROVE  VisitsInv'
<1>1. CASE RowsOf(page[t][1]) # {}
  <2>1. /\ tab' = [tab EXCEPT ![t].at = "again"]
        /\ page' = page /\ tab[t].at \in Capturing
        /\ UNCHANGED <<referrals, carts, credit, active, jar, chosen>>
        /\ faults' \in 0..MaxFaults /\ faults' >= faults
    BY <1>1 DEF Inserts, Capturing, VisitsInv, VisitsTypeOK
  <2>2. RowsOf(page'[t][1]) # {}
    BY <1>1, <2>1
  <2> QED
    BY <2>1, <2>2, CaptureStep
<1>2. CASE RowsOf(page[t][1]) = {}
  <2> DEFINE row == Len(referrals) + 1
             answer == Answer(NoRow, row, NoShip)
  <2>1. /\ referrals' = Append(referrals, page[t][1])
        /\ tab' = [tab EXCEPT ![t] = answer] /\ page' = [page EXCEPT ![t] = <<>>]
        /\ UNCHANGED <<carts, credit, active, jar, faults, chosen>>
    BY <1>2 DEF Inserts, Answers
  <2>2. page[t][1] \in Sources
    BY DEF VisitsInv, VisitsTypeOK, PageOK, Inserts, Capturing
  <2>3. /\ referrals' \in Seq(Sources) /\ Len(referrals') = row
        /\ \A i \in 1..Len(referrals) : referrals'[i] = referrals[i]
    BY <2>1, <2>2 DEF VisitsInv, VisitsTypeOK
  <2>4. Len(referrals) \in Nat /\ Len(carts) \in Nat /\ carts \in Seq(CartType)
    BY DEF VisitsInv, VisitsTypeOK
  <2>5. Rows \subseteq Rows' /\ CartType \subseteq CartType'
    BY <2>3, <2>4, MoreRows DEF VisitsInv
  <2>6. CartRows' = CartRows
    BY <2>1 DEF CartRows
  <2>7. JarType \subseteq JarType' /\ TabType \subseteq TabType'
    BY <2>5, <2>6, MoreOfBoth
  <2>8. answer \in TabType'
    <3>1. row \in Rows' /\ NoRow \in Rows' /\ NoRow \in CartRows'
      BY <2>3, <2>4 DEF Rows, CartRows, NoRow
    <3>2. NoShip \in Ships
      BY DEF NoShip, Ships
    <3> QED
      BY <3>1, <3>2 DEF Answer, Idle, TabType
  <2>9. tab'[t] = answer /\ \A x \in Tabs \ {t} : tab'[x] = tab[x] /\ page'[x] = page[x]
    BY <2>1 DEF VisitsInv, VisitsTypeOK
  <2>10. tab'[t].at = "answer" /\ tab'[t].sent = NoShip /\ tab'[t].newShip = NoShip
    BY <2>9 DEF Answer, Idle
  <2>11. tab' \in [Tabs -> TabType']
    BY <2>1, <2>7, <2>8 DEF VisitsInv, VisitsTypeOK
  <2>12. carts' \in Seq(CartType')
    <3>1. carts \in [1..Len(carts) -> CartType']
      BY <2>4, <2>5
    <3> QED
      BY <2>1, <2>4, <3>1
  <2>13. DOMAIN page' = Tabs /\ \A x \in Tabs : PageOK(x)'
    BY <2>1, <2>9, <2>10 DEF VisitsInv, VisitsTypeOK, PageOK, Capturing
  <2>14. jar' \in [Browsers -> JarType'] /\ credit' \in [Users -> Rows']
    BY <2>1, <2>5, <2>7 DEF VisitsInv, VisitsTypeOK
  <2>15. VisitsTypeOK'
    BY <2>1, <2>3, <2>11, <2>12, <2>13, <2>14 DEF VisitsInv, VisitsTypeOK
  <2>16. ChoicesAreOwn'
    <3>1. \A b \in Browsers, p \in Products :
            jar'[b].ship[p] # NoOption => jar'[b].ship[p] \in chosen'[b]
      BY <2>1 DEF VisitsInv, ChoicesAreOwn
    <3>2. ASSUME NEW x \in Tabs, NEW p \in Products
          PROVE  /\ tab'[x].sent[p] # NoOption => tab'[x].sent[p] \in chosen'[Owner[x]]
                 /\ tab'[x].newShip[p] # NoOption => tab'[x].newShip[p] \in chosen'[Owner[x]]
      BY <2>1, <2>9, <2>10 DEF VisitsInv, ChoicesAreOwn, NoShip
    <3> QED
      BY <3>1, <3>2 DEF ChoicesAreOwn
  <2>17. LosersFind'
    <3>1. ASSUME NEW x \in Tabs, tab'[x].at = "again"
          PROVE  faults' > 0 \/ RowsOf(page[x][1])' # {}
      <4>1. x # t /\ tab[x].at = "again" /\ page'[x] = page[x]
        BY <2>9, <2>10, <3>1
      <4>2. faults > 0 \/ \E i \in 1..Len(referrals) : referrals[i] = page[x][1]
        BY <4>1 DEF VisitsInv, LosersFind, RowsOf, VisitsTypeOK
      <4>3. ASSUME NEW i \in 1..Len(referrals), referrals[i] = page[x][1]
            PROVE  i \in RowsOf(page[x][1])'
        BY <2>3, <2>4, <4>1, <4>3 DEF RowsOf
      <4> QED
        BY <2>1, <4>2, <4>3
    <3> QED
      BY <3>1 DEF LosersFind
  <2> QED
    BY <2>15, <2>16, <2>17 DEF VisitsInv
<1> QED
  BY <1>1, <1>2

\* Somebody logs in or out.
LEMMA LoginStep ==
  ASSUME VisitsInv, NEW b \in Browsers, (\E u \in Users : LogsIn(b, u)) \/ LogsOut(b)
  PROVE  VisitsInv'
<1>1. UNCHANGED <<referrals, carts, active, tab, page, faults, chosen>>
  BY DEF LogsIn, LogsOut
<1>2. PICK v \in Users \cup {NoUser} : jar' = [jar EXCEPT ![b].user = v]
  BY DEF LogsIn, LogsOut
<1>3. TabType' = TabType /\ CartType' = CartType /\ JarType' = JarType /\ Rows' = Rows
  BY <1>1, SameRows
<1>4. jar[b] \in JarType
  BY DEF VisitsInv, VisitsTypeOK
<1>5. jar' \in [Browsers -> JarType] /\ \A x \in Browsers : jar'[x].ship = jar[x].ship
  BY <1>2, <1>4 DEF VisitsInv, VisitsTypeOK, JarType
<1>6. credit' \in [Users -> Rows]
  BY <1>4 DEF LogsIn, LogsOut, VisitsInv, VisitsTypeOK, JarType
<1>7. \A x \in Tabs : PageOK(x)'
  BY <1>1 DEF VisitsInv, VisitsTypeOK, PageOK
<1>8. VisitsTypeOK'
  BY <1>1, <1>3, <1>5, <1>6, <1>7 DEF VisitsInv, VisitsTypeOK
<1>9. ChoicesAreOwn'
  BY <1>1, <1>5 DEF VisitsInv, ChoicesAreOwn
<1>10. LosersFind'
  BY <1>1 DEF VisitsInv, LosersFind, RowsOf
<1> QED
  BY <1>8, <1>9, <1>10 DEF VisitsInv

\* One cart changes and no request.
LEMMA CartStep ==
  ASSUME VisitsInv, NEW c \in DOMAIN carts, NEW cart \in CartType,
         carts' = [carts EXCEPT ![c] = cart], credit' \in [Users -> Rows],
         UNCHANGED <<referrals, active, jar, tab, page, faults, chosen>>
  PROVE  VisitsInv'
<1>1. carts \in Seq(CartType)
  BY DEF VisitsInv, VisitsTypeOK
<1>2. carts' \in Seq(CartType) /\ Len(carts') = Len(carts)
  BY <1>1
<1>3. Rows' = Rows /\ CartRows' = CartRows
  BY <1>2 DEF Rows, CartRows
<1>4. TabType' = TabType /\ CartType' = CartType /\ JarType' = JarType
  BY <1>3 DEF TabType, CartType, JarType, DealType, Capturing
<1>5. \A x \in Tabs : PageOK(x)'
  BY DEF VisitsInv, VisitsTypeOK, PageOK
<1>6. VisitsTypeOK'
  BY <1>2, <1>3, <1>4, <1>5 DEF VisitsInv, VisitsTypeOK
<1>7. ChoicesAreOwn' /\ LosersFind'
  BY DEF VisitsInv, ChoicesAreOwn, LosersFind, RowsOf
<1> QED
  BY <1>6, <1>7 DEF VisitsInv

\* A cart of which a column changes.
LEMMA CartColumns ==
  ASSUME NEW cart \in CartType, NEW lines \in SUBSET Products, NEW deal \in DealType
  PROVE  /\ [cart EXCEPT !.lines = lines] \in CartType
         /\ [cart EXCEPT !.deal = deal] \in CartType
         /\ [cart EXCEPT !.status = "checked_out", !.deal = deal] \in CartType
         /\ cart.deal \in DealType /\ [deal EXCEPT !.at = "fulfilled"] \in DealType
         /\ cart.lines \subseteq Products /\ cart.user \in Users \cup {NoUser}
         /\ cart.referral \in Rows
BY DEF CartType, DealType

\* removeCartItem, checkoutCart, and the end of a checkout.
LEMMA DealStep ==
  ASSUME VisitsInv,
         \/ \E b \in Browsers, p \in Products : RemovesItem(b, p)
         \/ \E b \in Browsers : ChecksOut(b)
         \/ \E c \in DOMAIN carts : Releases(c)
         \/ \E c \in DOMAIN carts, u \in Users \cup {NoUser} : Sells(c, u)
  PROVE  VisitsInv'
<1>1. carts \in Seq(CartType) /\ \A c \in DOMAIN carts : carts[c] \in CartType
  BY DEF VisitsInv, VisitsTypeOK
<1>2. credit \in [Users -> Rows] /\ NoDeal \in DealType
  BY Shapes DEF VisitsInv, VisitsTypeOK
<1>3. \A b \in Browsers : jar[b] \in JarType
        /\ (jar[b].cart # NoRow => jar[b].cart \in DOMAIN carts)
  <2>1. ASSUME NEW b \in Browsers PROVE jar[b] \in JarType
    BY DEF VisitsInv, VisitsTypeOK
  <2>2. ASSUME NEW b \in Browsers, jar[b].cart # NoRow
        PROVE  jar[b].cart \in DOMAIN carts
    BY <1>1, <2>1, <2>2 DEF JarType, CartRows, NoRow
  <2> QED
    BY <2>1, <2>2
<1>4. ASSUME NEW b \in Browsers, NEW p \in Products, RemovesItem(b, p)
      PROVE  VisitsInv'
  <2> DEFINE c == jar[b].cart
             cart == [carts[c] EXCEPT !.lines = @ \ {p}]
  <2>1. c \in DOMAIN carts
    BY <1>3, <1>4 DEF RemovesItem
  <2>2. cart \in CartType
    <3>1. carts[c] \in CartType /\ carts[c].lines \ {p} \in SUBSET Products
      BY <1>1, <2>1, <1>2, CartColumns
    <3> QED
      BY <1>2, <3>1, CartColumns
  <2>3. carts' = [carts EXCEPT ![c] = cart]
    BY <1>4 DEF RemovesItem
  <2> QED
    BY <1>2, <1>4, <2>1, <2>2, <2>3, CartStep DEF RemovesItem
<1>5. ASSUME NEW b \in Browsers, ChecksOut(b)
      PROVE  VisitsInv'
  <2> DEFINE c == jar[b].cart
             deal == [at |-> "pending",
                      user |-> IF jar[b].user # NoUser THEN jar[b].user ELSE carts[c].user,
                      referral |-> IF jar[b].referral # NoRow THEN jar[b].referral
                                   ELSE carts[c].referral,
                      ship |-> jar[b].ship]
             cart == [carts[c] EXCEPT !.deal = deal]
  <2>1. c \in DOMAIN carts
    BY <1>3, <1>5 DEF ChecksOut, HasCart
  <2>2. deal \in DealType
    <3>1. carts[c].user \in Users \cup {NoUser} /\ carts[c].referral \in Rows
      BY <1>1, <1>2, <2>1, CartColumns
    <3>2. jar[b].user \in Users \cup {NoUser} /\ jar[b].referral \in Rows
          /\ jar[b].ship \in Ships
      BY <1>3 DEF JarType
    <3> QED
      BY <3>1, <3>2 DEF DealType
  <2>3. carts' = [carts EXCEPT ![c] = cart]
    BY <1>5 DEF ChecksOut
  <2> HIDE DEF deal
  <2>4. cart \in CartType
    BY <1>1, <2>1, <2>2, CartColumns
  <2> QED
    BY <1>2, <1>5, <2>1, <2>3, <2>4, CartStep DEF ChecksOut
<1>6. ASSUME NEW c \in DOMAIN carts, Releases(c)
      PROVE  VisitsInv'
  <2> DEFINE cart == [carts[c] EXCEPT !.deal = NoDeal]
  <2>1. cart \in CartType
    BY <1>1, <1>2, CartColumns
  <2>2. carts' = [carts EXCEPT ![c] = cart]
    BY <1>6 DEF Releases
  <2> QED
    BY <1>2, <1>6, <2>1, <2>2, CartStep DEF Releases
<1>7. ASSUME NEW c \in DOMAIN carts, NEW u \in Users \cup {NoUser}, Sells(c, u)
      PROVE  VisitsInv'
  <2> DEFINE cart == [carts[c] EXCEPT !.status = "checked_out",
                                      !.deal = [carts[c].deal EXCEPT !.at = "fulfilled"]]
  <2>1. carts[c].deal \in DealType
    BY <1>1, <1>2, CartColumns
  <2>2. [carts[c].deal EXCEPT !.at = "fulfilled"] \in DealType
    BY <1>1, <2>1, CartColumns
  <2>3. cart \in CartType
    BY <1>1, <2>2, CartColumns
  <2>4. carts' = [carts EXCEPT ![c] = cart]
    BY <1>7 DEF Sells
  <2>5. credit' \in [Users -> Rows]
    BY <1>2, <1>7, <2>1 DEF Sells, DealType
  <2> QED
    BY <1>7, <2>3, <2>4, <2>5, CartStep DEF Sells
<1> QED
  BY <1>4, <1>5, <1>6, <1>7

\* addCartItem opens its cart: the cookies of its request go with it.
LEMMA OpenStep ==
  ASSUME VisitsInv, NEW t \in Tabs, NEW p \in Products,
         NEW o \in Options \cup {NoOption}, OpensCart(t, p, o)
  PROVE  VisitsInv'
<1> DEFINE b == Owner[t]
<1>1. b \in Browsers /\ jar[b] \in JarType /\ tab[t] \in TabType /\ Len(carts) \in Nat
      /\ carts \in Seq(CartType) /\ \A i \in DOMAIN carts : carts[i] \in CartType
  BY VisitsAssumption DEF VisitsInv, VisitsTypeOK
<1>2. /\ page' = [page EXCEPT ![t] = <<p, o>>]
      /\ UNCHANGED <<referrals, credit, active, jar, faults, chosen>>
  BY DEF OpensCart
<1>3. Rows' = Rows /\ DealType' = DealType /\ CartType' = CartType
  BY <1>2 DEF Rows, DealType, CartType
<1>4. PICK c \in Nat \ {0}, new \in Nat :
        /\ carts' \in Seq(CartType) /\ Len(carts') >= Len(carts)
        /\ c <= Len(carts') /\ new <= Len(carts')
        /\ tab' = [tab EXCEPT ![t] = Adding(c, new, jar[b].ship)]
  <2>1. CASE HasCart(b)
    <3> DEFINE k == jar[b].cart
    <3>1. k \in DOMAIN carts /\ k \in Nat \ {0} /\ k <= Len(carts)
      BY <1>1, <2>1 DEF HasCart, JarType, CartRows, NoRow
    <3>2. Claimed(b, k) \in CartType
      <4>1. jar[b].user \in Users \cup {NoUser} /\ jar[b].referral \in Rows
        BY <1>1 DEF JarType
      <4>2. carts[k] \in CartType
        BY <1>1, <3>1
      <4> HIDE DEF k
      <4> QED
        BY <4>1, <4>2 DEF Claimed, CartType
    <3>3. carts' = [carts EXCEPT ![k] = Claimed(b, k)]
          /\ tab' = [tab EXCEPT ![t] = Adding(k, NoRow, jar[b].ship)]
      BY <2>1 DEF OpensCart
    <3>4. carts' \in Seq(CartType) /\ Len(carts') = Len(carts)
      BY <1>1, <3>1, <3>2, <3>3
    <3>5. NoRow \in Nat /\ NoRow <= Len(carts)
      BY <1>1 DEF NoRow
    <3> HIDE DEF k
    <3>6. /\ Len(carts') >= Len(carts) /\ k <= Len(carts') /\ NoRow <= Len(carts')
      BY <1>1, <3>1, <3>4, <3>5
    <3> QED
      BY <3>1, <3>3, <3>4, <3>5, <3>6, Zenon
  <2>2. CASE ~HasCart(b)
    <3> DEFINE k == Len(carts) + 1
    <3>1. carts' = Append(carts, Cart(b))
          /\ tab' = [tab EXCEPT ![t] = Adding(k, k, jar[b].ship)]
      BY <2>2 DEF OpensCart
    <3>2. NoDeal \in DealType
      BY Shapes DEF VisitsInv
    <3>3. Cart(b) \in CartType
      BY <1>1, <3>2 DEF Cart, CartType, JarType
    <3>4. carts' \in Seq(CartType) /\ Len(carts') = k
      BY <1>1, <3>1, <3>3
    <3>5. k \in Nat \ {0} /\ k >= Len(carts)
      BY <1>1
    <3> HIDE DEF k
    <3>6. Len(carts') >= Len(carts) /\ k <= Len(carts') /\ k \in Nat
      BY <1>1, <3>4, <3>5
    <3> QED
      BY <3>1, <3>4, <3>5, <3>6, Zenon
  <2> QED
    BY <2>1, <2>2
<1>5. CartRows \subseteq CartRows' /\ c \in CartRows' /\ new \in CartRows'
  BY <1>1, <1>4 DEF CartRows
<1>6. JarType \subseteq JarType' /\ TabType \subseteq TabType'
  BY <1>3, <1>5, MoreOfBoth
<1>7. /\ tab'[t] = Adding(c, new, jar[b].ship)
      /\ \A x \in Tabs \ {t} : tab'[x] = tab[x] /\ page'[x] = page[x]
  BY <1>2, <1>4 DEF VisitsInv, VisitsTypeOK
<1>8. /\ tab'[t] \in TabType' /\ tab'[t].at = "add" /\ tab'[t].cart = c
      /\ tab'[t].sent = jar[b].ship /\ tab'[t].newShip = NoShip
  <2>1. jar[b].ship \in Ships /\ NoShip \in Ships /\ NoRow \in Rows'
    BY <1>1, <1>3, Shapes DEF JarType, VisitsInv, VisitsTypeOK, Rows, NoRow
  <2> QED
    BY <1>5, <1>7, <2>1 DEF TabType, Adding, Idle
<1>9. tab' \in [Tabs -> TabType']
  BY <1>4, <1>6, <1>7, <1>8 DEF VisitsInv, VisitsTypeOK
<1>10. DOMAIN page' = Tabs /\ page'[t] = <<p, o>>
  BY <1>2 DEF VisitsInv, VisitsTypeOK
<1>11. \A x \in Tabs : PageOK(x)'
  BY <1>4, <1>7, <1>8, <1>10 DEF VisitsInv, VisitsTypeOK, PageOK, Capturing, NoRow
<1>12. VisitsTypeOK'
  BY <1>2, <1>3, <1>4, <1>6, <1>9, <1>10, <1>11 DEF VisitsInv, VisitsTypeOK
<1>13. ChoicesAreOwn'
  <2>1. \A x \in Browsers, q \in Products :
          jar'[x].ship[q] # NoOption => jar'[x].ship[q] \in chosen'[x]
    BY <1>2 DEF VisitsInv, ChoicesAreOwn
  <2>2. ASSUME NEW x \in Tabs, NEW q \in Products
        PROVE  /\ tab'[x].sent[q] # NoOption => tab'[x].sent[q] \in chosen'[Owner[x]]
               /\ tab'[x].newShip[q] # NoOption => tab'[x].newShip[q] \in chosen'[Owner[x]]
    BY <1>1, <1>2, <1>7, <1>8 DEF VisitsInv, ChoicesAreOwn, NoShip
  <2> QED
    BY <2>1, <2>2 DEF ChoicesAreOwn
<1>14. LosersFind'
  <2>1. ASSUME NEW x \in Tabs, tab'[x].at = "again"
        PROVE  tab[x].at = "again" /\ page'[x] = page[x]
    BY <1>7, <1>8, <2>1
  <2> QED
    BY <1>2, <2>1 DEF VisitsInv, LosersFind, RowsOf
<1> QED
  BY <1>12, <1>13, <1>14 DEF VisitsInv

\* addCartItem adds its product and answers with the choice, or refuses.
LEMMA AddStep ==
  ASSUME VisitsInv, NEW t \in Tabs, AddsItem(t)
  PROVE  VisitsInv'
<1> DEFINE c == tab[t].cart
           b == Owner[t]
<1>1. b \in Browsers /\ tab[t] \in TabType /\ Len(carts) \in Nat /\ carts \in Seq(CartType)
      /\ \A i \in DOMAIN carts : carts[i] \in CartType
  BY VisitsAssumption DEF VisitsInv, VisitsTypeOK
<1>2. PICK p \in Products, o \in Options \cup {NoOption} : page[t] = <<p, o>>
  BY DEF AddsItem, VisitsInv, VisitsTypeOK, PageOK
<1>3. page[t][1] = p /\ page[t][2] = o
  BY <1>2
<1>4. tab[t].newCart \in CartRows /\ NoRow \in Rows /\ tab[t].sent \in Ships
      /\ c \in DOMAIN carts
  BY <1>1 DEF TabType, Rows, NoRow, CartRows, AddsItem, VisitsInv, VisitsTypeOK, PageOK
<1>5. CASE ~Mutable(c)
  <2>1. /\ Answers(t, Answer(tab[t].newCart, NoRow, NoShip))
        /\ UNCHANGED <<referrals, carts, credit, active, jar, chosen>>
        /\ faults' \in 0..MaxFaults /\ faults' >= faults
    BY <1>5 DEF AddsItem, VisitsInv, VisitsTypeOK
  <2> QED
    BY <1>4, <2>1, AnswerStep
<1>6. CASE Mutable(c)
  <2> DEFINE ship == Chosen(t)
             answer == Answer(tab[t].newCart, NoRow, ship)
             cart == [carts[c] EXCEPT !.lines = @ \cup {p}]
  <2>1. /\ carts' = [carts EXCEPT ![c] = cart]
        /\ tab' = [tab EXCEPT ![t] = answer] /\ page' = [page EXCEPT ![t] = <<>>]
        /\ chosen' = [chosen EXCEPT ![b] = @ \cup ({o} \ {NoOption})]
        /\ UNCHANGED <<referrals, credit, active, jar, faults>>
    BY <1>3, <1>6 DEF AddsItem, Answers
  <2>2. cart \in CartType
    <3>1. carts[c] \in CartType
      BY <1>1, <1>4
    <3>2. carts[c].lines \cup {p} \in SUBSET Products /\ carts[c].deal \in DealType
      BY <3>1 DEF CartType
    <3> QED
      BY <3>1, <3>2, CartColumns
  <2>3. carts' \in Seq(CartType) /\ Len(carts') = Len(carts)
    BY <1>1, <1>4, <2>1, <2>2
  <2>4. Rows' = Rows /\ CartRows' = CartRows
    BY <2>1, <2>3 DEF Rows, CartRows
  <2>5. TabType' = TabType /\ CartType' = CartType /\ JarType' = JarType
    BY <2>4 DEF TabType, CartType, JarType, DealType, Capturing
  <2>6. ship \in Ships /\ \A q \in Products : ship[q] # NoOption =>
          ship[q] = tab[t].sent[q] \/ ship[q] = o
    BY <1>3, <1>4 DEF Chosen, Ships, NoShip
  <2>7. answer \in TabType
    BY <1>4, <2>6, Shapes DEF VisitsInv
  <2>8. tab'[t] = answer /\ \A x \in Tabs \ {t} : tab'[x] = tab[x] /\ page'[x] = page[x]
    BY <2>1 DEF VisitsInv, VisitsTypeOK
  <2>9. tab'[t].at = "answer" /\ tab'[t].sent = NoShip /\ tab'[t].newShip = ship
    BY <2>8 DEF Answer, Idle
  <2>10. tab' \in [Tabs -> TabType]
    BY <2>1, <2>7 DEF VisitsInv, VisitsTypeOK
  <2>11. DOMAIN page' = Tabs /\ \A x \in Tabs : PageOK(x)'
    BY <2>1, <2>8, <2>9 DEF VisitsInv, VisitsTypeOK, PageOK, Capturing
  <2>12. chosen' \in [Browsers -> SUBSET Options]
         /\ (\A x \in Browsers : chosen[x] \subseteq chosen'[x])
         /\ (o # NoOption => o \in chosen'[b])
    BY <1>1, <2>1 DEF VisitsInv, VisitsTypeOK
  <2>13. VisitsTypeOK'
    BY <2>1, <2>3, <2>4, <2>5, <2>10, <2>11, <2>12 DEF VisitsInv, VisitsTypeOK
  <2> HIDE DEF ship
  <2>14. ChoicesAreOwn'
    <3>1. \A x \in Browsers, q \in Products :
            jar'[x].ship[q] # NoOption => jar'[x].ship[q] \in chosen'[x]
      BY <2>1, <2>12 DEF VisitsInv, ChoicesAreOwn
    <3>2. ASSUME NEW x \in Tabs \ {t}, NEW q \in Products
          PROVE  /\ tab'[x].sent[q] # NoOption => tab'[x].sent[q] \in chosen'[Owner[x]]
                 /\ tab'[x].newShip[q] # NoOption => tab'[x].newShip[q] \in chosen'[Owner[x]]
      BY <2>8, <2>12, VisitsAssumption DEF VisitsInv, ChoicesAreOwn
    <3>3. ASSUME NEW q \in Products
          PROVE  /\ tab'[t].sent[q] # NoOption => tab'[t].sent[q] \in chosen'[b]
                 /\ tab'[t].newShip[q] # NoOption => tab'[t].newShip[q] \in chosen'[b]
      <4>1. tab'[t].sent[q] = NoOption
        BY <2>9 DEF NoShip
      <4>2. ship[q] # NoOption => ship[q] \in chosen'[b]
        BY <1>1, <2>6, <2>12 DEF VisitsInv, ChoicesAreOwn
      <4> QED
        BY <2>9, <4>1, <4>2
    <3> QED
      BY <3>1, <3>2, <3>3 DEF ChoicesAreOwn
  <2>15. LosersFind'
    <3>1. ASSUME NEW x \in Tabs, tab'[x].at = "again"
          PROVE  tab[x].at = "again" /\ page'[x] = page[x]
      BY <2>8, <2>9, <3>1
    <3> QED
      BY <2>1, <3>1 DEF VisitsInv, LosersFind, RowsOf
  <2> QED
    BY <2>13, <2>14, <2>15 DEF VisitsInv
<1> QED
  BY <1>5, <1>6

-----------------------------------------------------------------------------
(* The invariant.                                                          *)

LEMMA VisitsInitial == ASSUME VisitsInit PROVE VisitsInv
<1>1. referrals = <<>> /\ carts = <<>> /\ Len(referrals) = 0 /\ Len(carts) = 0
  BY DEF VisitsInit
<1>2. Rows = {0} /\ CartRows = {0}
  BY <1>1 DEF Rows, CartRows
<1>3. NoShip \in Ships
  BY DEF NoShip, Ships
<1>4. EmptyJar \in JarType /\ Idle \in TabType
  BY <1>2, <1>3 DEF EmptyJar, JarType, Idle, TabType, NoRow
<1>5. VisitsTypeOK
  BY <1>1, <1>2, <1>4, VisitsAssumption
     DEF VisitsInit, VisitsTypeOK, PageOK, Idle, Capturing, NoRow
<1>6. ChoicesAreOwn
  BY DEF VisitsInit, ChoicesAreOwn, EmptyJar, Idle, NoShip
<1>7. LosersFind
  BY DEF VisitsInit, LosersFind, Idle
<1> QED
  BY <1>5, <1>6, <1>7 DEF VisitsInv

LEMMA VisitsStep == ASSUME VisitsInv, [VisitsNext]_vars PROVE VisitsInv'
<1>1. CASE UNCHANGED vars
  <2>1. TabType' = TabType /\ CartType' = CartType /\ JarType' = JarType /\ Rows' = Rows
    BY <1>1, SameRows DEF vars
  <2> QED
    BY <1>1, <2>1 DEF vars, VisitsInv, VisitsTypeOK, PageOK, ChoicesAreOwn, LosersFind,
       RowsOf
<1>2. ASSUME NEW t \in Tabs, NEW s \in Sources, Arrives(t, s) PROVE VisitsInv'
  <2>1. /\ tab' = [tab EXCEPT ![t].at = "look"] /\ page' = [page EXCEPT ![t] = <<s>>]
        /\ UNCHANGED <<referrals, carts, credit, active, jar, chosen>>
        /\ faults' \in 0..MaxFaults /\ faults' >= faults
    BY <1>2 DEF Arrives, VisitsInv, VisitsTypeOK
  <2> QED
    BY <2>1, CaptureStep
<1>3. ASSUME NEW t \in Tabs, NEW token \in Tokens, ArrivesWithToken(t, token)
      PROVE  VisitsInv'
  <2> DEFINE row == IF token \in DOMAIN referrals THEN token ELSE NoRow
  <2>1. row \in Rows /\ NoRow \in CartRows
    BY DEF VisitsInv, VisitsTypeOK, Rows, CartRows, NoRow
  <2>2. /\ Answers(t, Answer(NoRow, row, NoShip))
        /\ UNCHANGED <<referrals, carts, credit, active, jar, chosen>>
        /\ faults' \in 0..MaxFaults /\ faults' >= faults
    BY <1>3 DEF ArrivesWithToken, VisitsInv, VisitsTypeOK
  <2> HIDE DEF row
  <2> QED
    BY <2>1, <2>2, AnswerStep
<1>4. ASSUME NEW t \in Tabs, LooksUp(t) PROVE VisitsInv'
  <2>1. /\ UNCHANGED <<referrals, carts, credit, active, jar, chosen>>
        /\ faults' \in 0..MaxFaults /\ faults' >= faults
        /\ NoRow \in CartRows /\ NoRow \in Rows
    BY <1>4 DEF LooksUp, VisitsInv, VisitsTypeOK, Rows, CartRows, NoRow
  <2>2. ASSUME NEW row \in RowsOf(page[t][1]), Answers(t, Answer(NoRow, row, NoShip))
        PROVE  VisitsInv'
    <3>1. row \in Rows
      BY DEF RowsOf, VisitsInv, VisitsTypeOK, Rows
    <3> QED
      BY <2>1, <2>2, <3>1, AnswerStep
  <2>3. ASSUME Answers(t, Answer(NoRow, NoRow, NoShip)) PROVE VisitsInv'
    BY <2>1, <2>3, AnswerStep
  <2>4. ASSUME tab[t].at = "look", tab' = [tab EXCEPT ![t].at = "insert"], page' = page
        PROVE  VisitsInv'
    BY <2>1, <2>4, CaptureStep DEF Capturing
  <2> QED
    BY <1>4, <2>2, <2>3, <2>4 DEF LooksUp
<1>5. ASSUME NEW t \in Tabs, CaptureFails(t) PROVE VisitsInv'
  <2>1. /\ UNCHANGED <<referrals, carts, credit, active, jar, chosen>>
        /\ faults' \in 0..MaxFaults /\ faults' >= faults /\ faults' > 0
        /\ NoRow \in CartRows /\ NoRow \in Rows /\ tab[t].at \in Capturing
    BY <1>5, VisitsAssumption
       DEF CaptureFails, VisitsInv, VisitsTypeOK, Rows, CartRows, NoRow
  <2>2. ASSUME tab' = [tab EXCEPT ![t].at = "again"], page' = page PROVE VisitsInv'
    BY <2>1, <2>2, CaptureStep
  <2>3. ASSUME Answers(t, Answer(NoRow, NoRow, NoShip)) PROVE VisitsInv'
    BY <2>1, <2>3, AnswerStep
  <2> QED
    BY <1>5, <2>2, <2>3 DEF CaptureFails
<1>6. ASSUME NEW t \in Tabs, Receives(t) \/ Leaves(t) PROVE VisitsInv'
  BY <1>6, EndStep DEF Receives, Leaves
<1>7. ASSUME NEW o \in Options, TurnsOption(o) PROVE VisitsInv'
  <2>1. /\ active' \in SUBSET Options
        /\ UNCHANGED <<referrals, carts, credit, jar, tab, page, faults, chosen>>
    BY <1>7 DEF TurnsOption, VisitsInv, VisitsTypeOK
  <2>2. TabType' = TabType /\ CartType' = CartType /\ JarType' = JarType /\ Rows' = Rows
    BY <2>1, SameRows
  <2> QED
    BY <2>1, <2>2 DEF VisitsInv, VisitsTypeOK, PageOK, ChoicesAreOwn, LosersFind, RowsOf
<1> QED
  BY <1>1, <1>2, <1>3, <1>4, <1>5, <1>6, <1>7, InsertStep, OpenStep, AddStep, LoginStep,
     DealStep DEF VisitsNext

-----------------------------------------------------------------------------
(* The theorems.                                                           *)

\* The inductive invariant: types, the choices that are on their way, and the
\* row that a loser of the unique index will find.
THEOREM VisitsInvariant == VisitsSpec => []VisitsInv
<1>1. VisitsInit => VisitsInv
  BY VisitsInitial
<1>2. VisitsInv /\ [VisitsNext]_vars => VisitsInv'
  BY VisitsStep
<1> QED
  BY <1>1, <1>2, PTL DEF VisitsSpec

\* Every id in a cookie, a cart, a checkout or a user's credit is that of a row.
THEOREM VisitsTypes == VisitsSpec => []VisitsTypeOK
<1>1. VisitsInv => VisitsTypeOK
  BY DEF VisitsInv
<1> QED
  BY <1>1, VisitsInvariant, PTL

\* Whoever comes from a page gets its referral, however many come at once:
\* rows are never deleted, so the loser of the unique index finds the winner's.
THEOREM ArrivalsGetTheirReferral == VisitsSpec => ArrivalsAreCredited
<1>1. ASSUME VisitsInv, [VisitsNext]_vars, NEW t \in Tabs, tab[t].at \in Capturing,
             tab'[t].at = "answer", faults' = faults
      PROVE  \/ /\ tab'[t].newReferral \in DOMAIN referrals'
                /\ referrals'[tab'[t].newReferral] = page[t][1]
             \/ faults > 0 /\ RowsOf(page[t][1]) = {}
  <2>1. tab \in [Tabs -> TabType] /\ DOMAIN page = Tabs /\ referrals \in Seq(Sources)
        /\ PageOK(t)
    BY <1>1 DEF VisitsInv, VisitsTypeOK
  <2>2. tab[t].at # "answer" /\ tab[t].at # "idle" /\ tab[t].at # "add"
    BY <1>1 DEF Capturing
  <2>3. LooksUp(t) \/ Inserts(t)
    <3>1. tab'[t] # tab[t]
      BY <1>1, <2>2
    <3>2. VisitsNext
      BY <1>1, <3>1 DEF vars
    <3>3. PICK x \in Tabs :
            \/ \E s \in Sources : Arrives(x, s)
            \/ \E token \in Tokens : ArrivesWithToken(x, token)
            \/ LooksUp(x) \/ Inserts(x) \/ CaptureFails(x)
            \/ Receives(x) \/ Leaves(x)
            \/ \E p \in Products, o \in Options \cup {NoOption} : OpensCart(x, p, o)
            \/ AddsItem(x)
      BY <3>1, <3>2 DEF VisitsNext, LogsIn, LogsOut, RemovesItem, ChecksOut, Releases, Sells,
         TurnsOption
    <3>4. \E r : tab' = [tab EXCEPT ![x] = r]
      <4>1. CASE \E s \in Sources : Arrives(x, s)
        BY <4>1 DEF Arrives
      <4>2. CASE \E token \in Tokens : ArrivesWithToken(x, token)
        BY <4>2 DEF ArrivesWithToken, Answers
      <4>3. CASE LooksUp(x)
        BY <4>3 DEF LooksUp, Answers
      <4>4. CASE Inserts(x)
        BY <4>4 DEF Inserts, Answers
      <4>5. CASE CaptureFails(x)
        BY <4>5 DEF CaptureFails, Answers
      <4>6. CASE Receives(x) \/ Leaves(x)
        BY <4>6 DEF Receives, Leaves
      <4>7. CASE \E p \in Products, o \in Options \cup {NoOption} : OpensCart(x, p, o)
        BY <4>7 DEF OpensCart
      <4>8. CASE AddsItem(x)
        BY <4>8 DEF AddsItem, Answers
      <4> QED
        BY <3>3, <4>1, <4>2, <4>3, <4>4, <4>5, <4>6, <4>7, <4>8
    <3>5. x = t
      BY <2>1, <3>1, <3>4
    <3>6. ~CaptureFails(x)
      BY <1>1 DEF CaptureFails, VisitsInv, VisitsTypeOK
    <3> QED
      BY <2>2, <3>3, <3>5, <3>6 DEF Arrives, ArrivesWithToken, Receives, Leaves, OpensCart,
         AddsItem
  <2>4. \A r : (Answers(t, Answer(NoRow, r, NoShip)) => tab'[t].newReferral = r)
    BY <2>1 DEF Answers, Answer, Idle
  <2>5. CASE LooksUp(t)
    <3>1. referrals' = referrals
      BY <2>5 DEF LooksUp
    <3>2. ASSUME NEW row \in RowsOf(page[t][1]), Answers(t, Answer(NoRow, row, NoShip))
          PROVE  /\ tab'[t].newReferral \in DOMAIN referrals'
                 /\ referrals'[tab'[t].newReferral] = page[t][1]
      BY <2>4, <3>1, <3>2 DEF RowsOf
    <3>3. ASSUME RowsOf(page[t][1]) = {}, tab[t].at = "again"
          PROVE  faults > 0
      BY <1>1, <3>3 DEF VisitsInv, LosersFind
    <3>4. ASSUME tab' = [tab EXCEPT ![t].at = "insert"]
          PROVE  FALSE
      BY <1>1, <2>1, <3>4 DEF TabType
    <3> QED
      BY <2>5, <3>2, <3>3, <3>4 DEF LooksUp
  <2>6. CASE Inserts(t)
    <3>1. CASE RowsOf(page[t][1]) = {}
      <4>1. /\ referrals' = Append(referrals, page[t][1])
            /\ tab'[t].newReferral = Len(referrals) + 1
        BY <2>4, <2>6, <3>1 DEF Inserts
      <4>2. page[t][1] \in Sources
        BY <1>1, <2>1 DEF PageOK
      <4> QED
        BY <2>1, <4>1, <4>2
    <3>2. CASE RowsOf(page[t][1]) # {}
      <4>1. tab' = [tab EXCEPT ![t].at = "again"]
        BY <2>6, <3>2 DEF Inserts
      <4> QED
        BY <1>1, <2>1, <4>1 DEF TabType
    <3> QED
      BY <3>1, <3>2
  <2> QED
    BY <2>3, <2>5, <2>6
<1>2. VisitsInv /\ [VisitsNext]_vars =>
        [\A t \in Tabs :
           tab[t].at \in Capturing /\ tab'[t].at = "answer" /\ faults' = faults =>
             \/ /\ tab'[t].newReferral \in DOMAIN referrals'
                /\ referrals'[tab'[t].newReferral] = page[t][1]
             \/ faults > 0 /\ RowsOf(page[t][1]) = {}]_vars
  BY <1>1
<1> QED
  BY <1>2, VisitsInvariant, PTL DEF VisitsSpec, ArrivalsAreCredited

\* A checkout charges what its browser chose, for what is shipped of its cart.
THEOREM ShippingPaid == VisitsSpec => ShippingIsPaid
<1> DEFINE Paid(c, b) ==
      \A p \in Products :
        IF p \in carts[c].lines /\ Shipped(p)
        THEN carts'[c].deal.ship[p] \in OptionsOf[p] \cap active \cap chosen[b]
        ELSE carts'[c].deal.ship[p] = NoOption
<1>1. ASSUME VisitsInv, [VisitsNext]_vars, NEW c \in DOMAIN carts,
             carts[c].deal.at = "none", carts'[c].deal.at = "pending"
      PROVE  \E b \in Browsers : jar[b].cart = c /\ Paid(c, b)
  <2>1. carts \in Seq(CartType) /\ \A i \in DOMAIN carts : carts[i] \in CartType
    BY <1>1 DEF VisitsInv, VisitsTypeOK
  <2>2. PICK b \in Browsers : ChecksOut(b) /\ jar[b].cart = c
    <3>1. carts' # carts
      BY <1>1
    <3>2. VisitsNext
      BY <1>1, <3>1 DEF vars
    <3>3. ASSUME NEW t \in Tabs, NEW p \in Products, NEW o \in Options \cup {NoOption},
                 OpensCart(t, p, o)
          PROVE  carts'[c].deal = carts[c].deal
      <4>1. CASE carts' = Append(carts, Cart(Owner[t]))
        BY <2>1, <4>1
      <4>2. CASE carts' = [carts EXCEPT ![jar[Owner[t]].cart] =
                             Claimed(Owner[t], jar[Owner[t]].cart)]
        <5>1. CASE jar[Owner[t]].cart = c
          <6>1. carts'[c] = Claimed(Owner[t], c)
            BY <2>1, <4>2, <5>1
          <6> QED
            BY <2>1, <6>1 DEF Claimed, CartType
        <5>2. CASE jar[Owner[t]].cart # c
          BY <2>1, <4>2, <5>2
        <5> QED
          BY <5>1, <5>2
      <4> QED
        BY <3>3, <4>1, <4>2 DEF OpensCart
    <3>4. ASSUME NEW k, NEW lines, carts' = [carts EXCEPT ![k].lines = lines]
          PROVE  carts'[c].deal = carts[c].deal
      <4>1. carts'[c] = carts[c] \/ carts'[c] = [carts[c] EXCEPT !.lines = lines]
        BY <2>1, <3>4
      <4> QED
        BY <2>1, <4>1 DEF CartType
    <3>5. ASSUME NEW t \in Tabs, AddsItem(t)
          PROVE  carts'[c].deal = carts[c].deal
      BY <3>4, <3>5 DEF AddsItem
    <3>6. ASSUME NEW b \in Browsers, NEW p \in Products, RemovesItem(b, p)
          PROVE  carts'[c].deal = carts[c].deal
      BY <3>4, <3>6 DEF RemovesItem
    <3>7. ASSUME NEW k \in DOMAIN carts, Releases(k) \/ \E u \in Users \cup {NoUser} : Sells(k, u)
          PROVE  carts'[c].deal.at # "pending"
      <4>1. k # c => carts'[c] = carts[c]
        BY <2>1, <3>7 DEF Releases, Sells
      <4>2. k # c
        BY <1>1, <3>7 DEF Releases, Sells, NoDeal, CartType, DealType
      <4> QED
        BY <1>1, <4>1, <4>2
    <3>8. ASSUME NEW b \in Browsers, ChecksOut(b)
          PROVE  jar[b].cart = c
      BY <1>1, <2>1, <3>8 DEF ChecksOut
    <3> QED
      BY <1>1, <3>1, <3>2, <3>3, <3>5, <3>6, <3>7, <3>8
      DEF VisitsNext, Arrives, ArrivesWithToken, LooksUp, Inserts, CaptureFails, Receives,
          Leaves, LogsIn, LogsOut, TurnsOption
  <2>3. carts'[c].deal.ship = jar[b].ship
    <3> DEFINE deal == [at |-> "pending",
                 user |-> IF jar[b].user # NoUser THEN jar[b].user ELSE carts[c].user,
                 referral |-> IF jar[b].referral # NoRow THEN jar[b].referral
                              ELSE carts[c].referral,
                 ship |-> jar[b].ship]
    <3>1. carts'[c] = [carts[c] EXCEPT !.deal = deal]
      BY <2>1, <2>2 DEF ChecksOut
    <3>2. carts'[c].deal = deal
      BY <2>1, <3>1 DEF CartType
    <3> QED
      BY <3>2
  <2>4. Accepts(carts[c].lines, jar[b].ship) /\ jar[b].ship \in Ships
    BY <1>1, <2>2 DEF ChecksOut, VisitsInv, VisitsTypeOK, JarType
  <2>5. \A p \in Products : jar[b].ship[p] # NoOption => jar[b].ship[p] \in chosen[b]
    BY <1>1 DEF VisitsInv, ChoicesAreOwn
  <2>6. ASSUME NEW p \in Products
        PROVE  IF p \in carts[c].lines /\ Shipped(p)
               THEN jar[b].ship[p] \in OptionsOf[p] \cap active \cap chosen[b]
               ELSE jar[b].ship[p] = NoOption
    BY <2>4, <2>5 DEF Accepts, Shipped
  <2> QED
    BY <2>2, <2>3, <2>6
<1>2. VisitsInv /\ [VisitsNext]_vars =>
        [\A c \in DOMAIN carts :
           carts[c].deal.at = "none" /\ carts'[c].deal.at = "pending" =>
             \E b \in Browsers :
               /\ jar[b].cart = c
               /\ \A p \in Products :
                    IF p \in carts[c].lines /\ Shipped(p)
                    THEN carts'[c].deal.ship[p] \in OptionsOf[p] \cap active \cap chosen[b]
                    ELSE carts'[c].deal.ship[p] = NoOption]_vars
  BY <1>1
<1> QED
  BY <1>2, VisitsInvariant, PTL DEF VisitsSpec, ShippingIsPaid
=============================================================================
