--------------------------- MODULE Accounts_proofs ---------------------------
(* What Accounts promises, for any usernames, addresses and passwords and  *)
(* any number of users and of pages open at once.                          *)
EXTENDS Accounts, TLAPS

\* A page that was made from a row: when its user is still the one of us, the
\* row has only been written to by steps that raised its version.
OldRead(page, us, n) ==
  page.stage \in {"form", "tool"} =>
    /\ page.read.born <= n
    /\ (page.user \in DOMAIN us /\ us[page.user].born = page.read.born) =>
         /\ page.read.version <= us[page.user].version
         /\ us[page.user].version = page.read.version => us[page.user] = page.read

ReadsAreOld ==
  /\ \A id \in DOMAIN users : users[id].born <= births
  /\ \A p \in Pages : OldRead(pages[p], users, births)

AccountInv == AccountsTypeOK /\ LoginByUsername /\ ReadsAreOld

\* us comes after the table users: the rows of both are the same or later
\* ones, or have a new user in them.
Later(us) ==
  \A id \in DOMAIN us :
    \/ id \in DOMAIN users /\ us[id] = users[id]
    \/ /\ id \in DOMAIN users
       /\ us[id].born = users[id].born /\ users[id].version < us[id].version
    \/ us[id].born = births + 1 /\ births' = births + 1

-----------------------------------------------------------------------------
(* Pages and rows.                                                         *)

LEMMA PageKinds ==
  ASSUME AccountsTypeOK, NEW p \in Pages
  PROVE  /\ pages[p] \in Page
         /\ pages[p].stage = "opening" => pages[p].user \in Ids /\ pages[p].secret \in Secrets
         /\ pages[p].stage = "changing" => pages[p].user \in Ids
         /\ pages[p].stage \in {"form", "tool"} =>
              /\ pages[p].user \in Ids /\ pages[p].read \in User
              /\ pages[p].shown \in Fields /\ pages[p].unticked \in BOOLEAN
  <1>1. pages[p] \in Page
    BY DEF AccountsTypeOK
  <1> QED
    BY <1>1 DEF Page

LEMMA ClosedIsPage == Closed \in Page /\ Closed.stage = "none"
  BY DEF Closed, Page

\* A row is put into the table, or taken out.
LEMMA PutUser ==
  ASSUME AccountsTypeOK, NEW id, NEW row \in User, users' = Put(users, id, row)
  PROVE  /\ DOMAIN users' = DOMAIN users \cup {id}
         /\ users'[id] = row
         /\ \A i \in DOMAIN users : i # id => users'[i] = users[i]
         /\ users' \in [DOMAIN users' -> User]
  BY DEF Put, AccountsTypeOK

LEMMA PutInvitation ==
  ASSUME AccountsTypeOK, NEW id, invitations' = Put(invitations, id, FALSE)
  PROVE  /\ DOMAIN invitations' = DOMAIN invitations \cup {id}
         /\ invitations' \in [DOMAIN invitations' -> BOOLEAN]
  BY DEF Put, AccountsTypeOK

LEMMA WithoutUser ==
  ASSUME AccountsTypeOK, NEW id, users' = Without(users, id)
  PROVE  /\ DOMAIN users' = DOMAIN users \ {id}
         /\ \A i \in DOMAIN users' : users'[i] = users[i]
         /\ users' \in [DOMAIN users' -> User]
  BY DEF Without, AccountsTypeOK

LEMMA WithoutInvitation ==
  ASSUME AccountsTypeOK, NEW id, invitations' = Without(invitations, id)
  PROVE  /\ DOMAIN invitations' = DOMAIN invitations \ {id}
         /\ \A i \in DOMAIN invitations' : invitations'[i] = invitations[i]
         /\ invitations' \in [DOMAIN invitations' -> BOOLEAN]
  BY DEF Without, AccountsTypeOK

LEMMA RowType ==
  ASSUME AccountsTypeOK, NEW id \in DOMAIN users
  PROVE  /\ users[id] \in User /\ users[id].fields \in Fields
         /\ users[id].version \in 1..MaxVersion /\ users[id].born \in 1..MaxBirths
         /\ id \in Ids
  BY DEF AccountsTypeOK, User

\* A written row is a row, of the same user and with a higher version.
LEMMA WrittenRow ==
  ASSUME AccountsTypeOK, NEW id, Writable(id), NEW f \in Fields
  PROVE  /\ Written(users[id], f) \in User
         /\ Written(users[id], f).born = users[id].born
         /\ Written(users[id], f).fields = f
         /\ users[id].version < Written(users[id], f).version
  <1>1. /\ users[id] \in User /\ users[id].version \in 1..MaxVersion
        /\ users[id].version < MaxVersion
    BY RowType DEF Writable
  <1>2. users[id].version + 1 \in 1..MaxVersion /\ users[id].version < users[id].version + 1
    BY <1>1, AccountAssumption
  <1> QED
    BY <1>1, <1>2 DEF Written, User

LEMMA UnusedId ==
  ASSUME AccountsTypeOK, NEW id \in Ids, IsNext(id)
  PROVE  id \notin DOMAIN users
  BY AccountAssumption DEF IsNext, AccountsTypeOK, Ids

\* No step of the users' table makes an old page look new.
LEMMA LaterReads ==
  ASSUME AccountInv, AccountsTypeOK', Later(users'), births' \in {births, births + 1},
         NEW page, page \in Page, OldRead(page, users, births)
  PROVE  OldRead(page, users', births')
  <1> SUFFICES ASSUME page.stage \in {"form", "tool"}
               PROVE  OldRead(page, users', births')
    BY DEF OldRead
  <1>1. page.read \in User /\ page.user \in Ids
    BY DEF Page
  <1>2. page.read.born \in Nat /\ page.read.version \in Nat /\ births \in Nat
    BY <1>1, AccountAssumption DEF User, AccountInv, AccountsTypeOK
  <1>3. page.read.born <= births
    BY DEF OldRead
  <1>4. page.read.born <= births'
    BY <1>2, <1>3
  <1>5. ASSUME page.user \in DOMAIN users', users'[page.user].born = page.read.born
        PROVE  /\ page.read.version <= users'[page.user].version
               /\ users'[page.user].version = page.read.version => users'[page.user] = page.read
    <2> DEFINE u == page.user
    <2>1. CASE u \in DOMAIN users /\ users'[u] = users[u]
      BY <1>5, <2>1 DEF OldRead
    <2>2. CASE /\ u \in DOMAIN users
               /\ users'[u].born = users[u].born /\ users[u].version < users'[u].version
      <3>1. users[u].version \in Nat /\ users'[u].version \in Nat
        BY <1>5, <2>2 DEF AccountInv, AccountsTypeOK, User
      <3>2. page.read.version <= users[u].version
        BY <1>5, <2>2 DEF OldRead
      <3> QED
        BY <1>2, <2>2, <3>1, <3>2
    <2>3. CASE users'[u].born = births + 1
      BY <1>2, <1>3, <1>5, <2>3
    <2> QED
      BY <1>5, <2>1, <2>2, <2>3 DEF Later
  <1> QED
    BY <1>4, <1>5 DEF OldRead

\* One page changes to one that is as old as it should be, or none does.
LEMMA OldPages ==
  ASSUME AccountInv, AccountsTypeOK', Later(users'), births' \in {births, births + 1},
         \/ pages' = pages
         \/ \E p \in Pages, page \in Page :
              /\ pages' = [pages EXCEPT ![p] = page]
              /\ OldRead(page, users', births')
  PROVE  ReadsAreOld'
  <1>0. \A id \in DOMAIN users' : users'[id].born <= births'
    <2> SUFFICES ASSUME NEW id \in DOMAIN users' PROVE users'[id].born <= births'
      OBVIOUS
    <2>1. users'[id].born \in Nat /\ births \in Nat
      BY AccountAssumption DEF AccountInv, AccountsTypeOK, User
    <2>2. CASE id \in DOMAIN users /\ users'[id].born = users[id].born
      <3>1. users[id].born <= births
        BY <2>2 DEF AccountInv, ReadsAreOld
      <3> QED
        BY <2>1, <2>2, <3>1
    <2>3. CASE users'[id].born = births + 1 /\ births' = births + 1
      BY <2>1, <2>3
    <2> QED
      BY <2>2, <2>3 DEF Later
  <1>1. \A q \in Pages : OldRead(pages[q], users', births')
    BY LaterReads, PageKinds DEF AccountInv, ReadsAreOld
  <1>2. CASE pages' = pages
    BY <1>0, <1>1, <1>2 DEF ReadsAreOld
  <1>3. ASSUME NEW p \in Pages, NEW page \in Page,
               pages' = [pages EXCEPT ![p] = page], OldRead(page, users', births')
        PROVE  ReadsAreOld'
    <2>1. \A q \in Pages : pages'[q] = IF q = p THEN page ELSE pages[q]
      BY <1>3 DEF AccountInv, AccountsTypeOK
    <2> QED
      BY <1>0, <1>1, <1>3, <2>1 DEF ReadsAreOld
  <1> QED
    BY <1>2, <1>3

-----------------------------------------------------------------------------
(* Each action keeps the invariant.                                        *)

LEMMA PageStep ==
  ASSUME AccountsTypeOK, NEW p \in Pages, NEW page \in Page,
         pages' = [pages EXCEPT ![p] = page]
  PROVE  pages' \in [Pages -> Page]
  BY DEF AccountsTypeOK

\* Steps that leave the tables of users and identities alone.
LEMMA QuietStep ==
  ASSUME AccountInv, AccountsTypeOK', UNCHANGED <<users, identities, births>>,
         \/ pages' = pages
         \/ \E p \in Pages, page \in Page :
              /\ pages' = [pages EXCEPT ![p] = page]
              /\ OldRead(page, users, births)
  PROVE  AccountInv'
  <1>1. Later(users')
    BY DEF Later
  <1>2. ReadsAreOld'
    BY <1>1, OldPages
  <1>3. LoginByUsername'
    BY DEF AccountInv, LoginByUsername, Of
  <1> QED
    BY <1>2, <1>3 DEF AccountInv

LEMMA ClosedIsOld == \A us, n : OldRead(Closed, us, n)
  BY ClosedIsPage DEF OldRead

LEMMA CreatesInv ==
  ASSUME AccountInv, NEW id \in Ids, Creates(id)
  PROVE  AccountInv'
  <1>1. PICK f \in Fields, secret \in Secrets :
          /\ f.username \in Logins
          /\ Free(f, id)
          /\ Unclaimed(f.username, identities)
          /\ users' = Put(users, id, [fields |-> f, version |-> 1, born |-> births + 1])
          /\ identities' = identities \cup {[owner |-> id, subject |-> f.username, secret |-> secret]}
    BY DEF Creates
  <1>2. /\ births < MaxBirths /\ births' = births + 1
        /\ UNCHANGED <<sessions, invitations, pages>>
        /\ id \notin DOMAIN users
    BY UnusedId DEF Creates, AccountInv
  <1> DEFINE row == [fields |-> f, version |-> 1, born |-> births + 1]
             i == [owner |-> id, subject |-> f.username, secret |-> secret]
  <1>3. births + 1 \in 1..MaxBirths /\ 1 \in 1..MaxVersion
    BY <1>2, AccountAssumption DEF AccountInv, AccountsTypeOK, Creates
  <1>4. row \in User /\ i \in Identity /\ row.born = births + 1 /\ row.fields = f
    BY <1>1, <1>3 DEF User, Identity, Names, Fields
  <1> HIDE DEF row
  <1>5. /\ DOMAIN users' = DOMAIN users \cup {id} /\ users'[id] = row
        /\ \A j \in DOMAIN users : users'[j] = users[j]
        /\ users' \in [DOMAIN users' -> User]
    <2>1. users' = Put(users, id, row)
      BY <1>1 DEF row
    <2> QED
      BY <2>1, <1>2, <1>4, PutUser DEF AccountInv
  <1>6. AccountsTypeOK'
    <2>1. users' \in [DOMAIN users' -> User]
      BY <1>4, <1>5 DEF AccountInv, AccountsTypeOK
    <2> QED
      BY <2>1, <1>1, <1>2, <1>3, <1>4, <1>5, AccountAssumption DEF AccountInv, AccountsTypeOK
  <1>7. LoginByUsername'
    <2>1. \A j \in DOMAIN users : Of(j)' = Of(j) /\ users'[j] = users[j]
      BY <1>1, <1>2, <1>5 DEF Of
    <2>2. i \in Of(id)' /\ i.subject = users'[id].fields.username
      BY <1>1, <1>4, <1>5 DEF Of
    <2>3. \A a, b \in identities' : a.subject = b.subject => a = b
      BY <1>1 DEF AccountInv, LoginByUsername, Unclaimed
    <2> QED
      BY <2>1, <2>2, <2>3, <1>5 DEF AccountInv, LoginByUsername
  <1>8. Later(users')
    BY <1>2, <1>4, <1>5 DEF Later
  <1>9. ReadsAreOld'
    BY <1>2, <1>6, <1>8, OldPages
  <1> QED
    BY <1>6, <1>7, <1>9 DEF AccountInv

LEMMA InvitesInv ==
  ASSUME AccountInv, NEW id \in Ids, NEW mail \in Mails, Invites(id, mail)
  PROVE  AccountInv'
  <1> DEFINE fields == [username |-> mail, email |-> mail, role |-> "user", bought |-> TRUE]
             row == [fields |-> fields, version |-> 2, born |-> births + 1]
  <1>1. /\ births < MaxBirths /\ births' = births + 1 /\ MaxVersion > 1
        /\ users' = Put(users, id, row)
        /\ invitations' = Put(invitations, id, FALSE)
        /\ UNCHANGED <<identities, sessions, pages>>
        /\ id \notin DOMAIN users
    BY UnusedId DEF Invites, AccountInv
  <1>2. births + 1 \in 1..MaxBirths /\ 2 \in 1..MaxVersion
    BY <1>1, AccountAssumption DEF AccountInv, AccountsTypeOK
  <1>3. fields \in Fields
    BY AccountAssumption DEF Fields, Names, Addresses
  <1>5. row \in User /\ row.born = births + 1
    BY <1>2, <1>3 DEF User
  <1> HIDE DEF row
  <1>6. /\ DOMAIN users' = DOMAIN users \cup {id} /\ users'[id] = row
        /\ \A j \in DOMAIN users : users'[j] = users[j]
        /\ users' \in [DOMAIN users' -> User]
    BY <1>1, <1>5, PutUser DEF AccountInv
  <1>7. /\ DOMAIN invitations' = DOMAIN invitations \cup {id}
        /\ invitations' \in [DOMAIN invitations' -> BOOLEAN]
    BY <1>1, PutInvitation DEF AccountInv
  <1>8. AccountsTypeOK'
    <2>1. users' \in [DOMAIN users' -> User]
      BY <1>5, <1>6 DEF AccountInv, AccountsTypeOK
    <2>2. births' \in 0..MaxBirths /\ pages' \in [Pages -> Page]
      BY <1>1, <1>2, AccountAssumption DEF AccountInv, AccountsTypeOK
    <2>3. /\ \A j \in identities' : j \in Identity /\ j.owner \in DOMAIN users'
          /\ \A s \in sessions' : s \in Session /\ s.user \in DOMAIN users'
      BY <1>1, <1>6 DEF AccountInv, AccountsTypeOK
    <2>4. DOMAIN users' \subseteq Ids /\ DOMAIN invitations' \subseteq DOMAIN users'
      BY <1>1, <1>6, <1>7 DEF AccountInv, AccountsTypeOK
    <2> QED
      BY <2>1, <2>2, <2>3, <2>4, <1>7 DEF AccountsTypeOK
  <1>9. LoginByUsername'
    <2>1. \A j \in DOMAIN users : Of(j)' = Of(j) /\ users'[j] = users[j]
      BY <1>1, <1>6 DEF Of
    <2>2. Of(id)' = {}
      BY <1>1 DEF Of, AccountInv, AccountsTypeOK
    <2> QED
      BY <2>1, <2>2, <1>1, <1>6 DEF AccountInv, LoginByUsername
  <1>10. Later(users')
    BY <1>1, <1>5, <1>6 DEF Later
  <1>11. ReadsAreOld'
    BY <1>1, <1>8, <1>10, OldPages
  <1> QED
    BY <1>8, <1>9, <1>11 DEF AccountInv

LEMMA MarksPurchaseInv ==
  ASSUME AccountInv, NEW id \in Ids, MarksPurchase(id)
  PROVE  AccountInv'
  <1>1. /\ id \in DOMAIN users /\ Writable(id)
        /\ users' = [users EXCEPT ![id] = Marked(users[id])]
        /\ UNCHANGED <<identities, sessions, invitations, pages, births>>
    BY DEF MarksPurchase, Writable
  <1> DEFINE f == [users[id].fields EXCEPT !.bought = TRUE]
  <1>2. f \in Fields /\ f.username = users[id].fields.username
    BY <1>1, RowType DEF Fields, AccountInv
  <1>3. Marked(users[id]) = Written(users[id], f)
    BY DEF Marked
  <1> HIDE DEF f
  <1>4. /\ Written(users[id], f) \in User /\ Written(users[id], f).born = users[id].born
        /\ Written(users[id], f).fields = f
        /\ users[id].version < Written(users[id], f).version
    BY <1>1, <1>2, WrittenRow DEF AccountInv
  <1>5. /\ DOMAIN users' = DOMAIN users
        /\ users'[id] = Written(users[id], f)
        /\ \A j \in DOMAIN users : j # id => users'[j] = users[j]
    BY <1>1, <1>3 DEF AccountInv, AccountsTypeOK
  <1>6. AccountsTypeOK'
    <2>1. users' \in [DOMAIN users' -> User]
      BY <1>1, <1>3, <1>4, <1>5 DEF AccountInv, AccountsTypeOK
    <2> QED
      BY <2>1, <1>1, <1>5 DEF AccountInv, AccountsTypeOK
  <1>7. LoginByUsername'
    <2>1. \A j \in DOMAIN users :
            Of(j)' = Of(j) /\ users'[j].fields.username = users[j].fields.username
      BY <1>1, <1>2, <1>4, <1>5 DEF Of
    <2> QED
      BY <2>1, <1>1, <1>5 DEF AccountInv, LoginByUsername
  <1>8. Later(users')
    BY <1>4, <1>5 DEF Later
  <1>9. ReadsAreOld'
    BY <1>1, <1>6, <1>8, OldPages
  <1> QED
    BY <1>6, <1>7, <1>9 DEF AccountInv

LEMMA RemovesInv ==
  ASSUME AccountInv, NEW id \in Ids, Removes(id)
  PROVE  AccountInv'
  <1>1. /\ users' = Without(users, id) /\ identities' = Others(id)
        /\ sessions' = sessions \ SessionsOf(id)
        /\ invitations' = Without(invitations, id)
        /\ UNCHANGED <<pages, births>>
    BY DEF Removes
  <1>2. /\ DOMAIN users' = DOMAIN users \ {id}
        /\ \A j \in DOMAIN users' : users'[j] = users[j]
        /\ users' \in [DOMAIN users' -> User]
    BY <1>1, WithoutUser DEF AccountInv
  <1>3. /\ DOMAIN invitations' = DOMAIN invitations \ {id}
        /\ \A j \in DOMAIN invitations' : invitations'[j] = invitations[j]
        /\ invitations' \in [DOMAIN invitations' -> BOOLEAN]
    BY <1>1, WithoutInvitation DEF AccountInv
  <1>4. AccountsTypeOK'
    <2>1. users' \in [DOMAIN users' -> User]
      BY <1>2 DEF AccountInv, AccountsTypeOK
    <2>2. invitations' \in [DOMAIN invitations' -> BOOLEAN]
      BY <1>3 DEF AccountInv, AccountsTypeOK
    <2>3. \A j \in identities' : j \in identities /\ j.owner \in DOMAIN users'
      BY <1>1, <1>2 DEF Others, Of, AccountInv, AccountsTypeOK
    <2>4. \A s \in sessions' : s \in sessions /\ s.user \in DOMAIN users'
      BY <1>1, <1>2 DEF SessionsOf, AccountInv, AccountsTypeOK
    <2> QED
      BY <2>1, <2>2, <2>3, <2>4, <1>1, <1>2, <1>3 DEF AccountInv, AccountsTypeOK
  <1>5. LoginByUsername'
    <2>1. \A j \in DOMAIN users' : Of(j)' = Of(j) /\ users'[j] = users[j]
      BY <1>1, <1>2 DEF Of, Others
    <2>2. identities' \subseteq identities
      BY <1>1 DEF Others
    <2> QED
      BY <2>1, <2>2, <1>2 DEF AccountInv, LoginByUsername
  <1>6. Later(users')
    BY <1>2 DEF Later
  <1>7. ReadsAreOld'
    BY <1>1, <1>4, <1>6, OldPages
  <1> QED
    BY <1>4, <1>5, <1>7 DEF AccountInv

LEMMA ChecksPasswordInv ==
  ASSUME AccountInv, NEW p \in Pages, ChecksPassword(p)
  PROVE  AccountInv'
  <1>1. PICK i \in identities :
          pages' = [pages EXCEPT ![p] = [stage |-> "opening", user |-> i.owner, secret |-> i.secret]]
    BY DEF ChecksPassword
  <1> DEFINE page == [stage |-> "opening", user |-> i.owner, secret |-> i.secret]
  <1>2. page \in Page /\ OldRead(page, users, births)
    BY DEF Page, OldRead, AccountInv, AccountsTypeOK, Identity
  <1>3. AccountsTypeOK'
    BY <1>1, <1>2, PageStep DEF ChecksPassword, AccountInv, AccountsTypeOK
  <1> HIDE DEF page
  <1> QED
    BY <1>1, <1>2, <1>3, QuietStep DEF ChecksPassword, page

LEMMA OpensSessionInv ==
  ASSUME AccountInv, NEW p \in Pages, OpensSession(p)
  PROVE  AccountInv'
  <1>1. pages' = [pages EXCEPT ![p] = Closed] /\ OldRead(Closed, users, births)
    BY ClosedIsOld DEF OpensSession, Closes
  <1>2. \A s \in sessions' : s \in Session /\ s.user \in DOMAIN users
    BY PageKinds DEF OpensSession, AccountInv, AccountsTypeOK, Session
  <1>3. AccountsTypeOK'
    BY <1>1, <1>2, ClosedIsPage, PageStep DEF OpensSession, AccountInv, AccountsTypeOK
  <1> QED
    BY <1>1, <1>3, ClosedIsPage, QuietStep DEF OpensSession

LEMMA EndsSessionInv ==
  ASSUME AccountInv, NEW s, EndsSession(s)
  PROVE  AccountInv'
  <1>1. AccountsTypeOK'
    BY DEF EndsSession, AccountInv, AccountsTypeOK
  <1> QED
    BY <1>1, QuietStep DEF EndsSession

LEMMA AsksToChangeInv ==
  ASSUME AccountInv, NEW p \in Pages, AsksToChange(p)
  PROVE  AccountInv'
  <1>1. PICK s \in sessions :
          pages' = [pages EXCEPT ![p] = [stage |-> "changing", user |-> s.user]]
    BY DEF AsksToChange
  <1> DEFINE page == [stage |-> "changing", user |-> s.user]
  <1>2. page \in Page /\ OldRead(page, users, births)
    BY DEF Page, OldRead, AccountInv, AccountsTypeOK, Session
  <1>3. AccountsTypeOK'
    BY <1>1, <1>2, PageStep DEF AsksToChange, AccountInv, AccountsTypeOK
  <1> HIDE DEF page
  <1> QED
    BY <1>1, <1>2, <1>3, QuietStep DEF AsksToChange, page

LEMMA GivesUpInv ==
  ASSUME AccountInv, NEW p \in Pages, GivesUp(p)
  PROVE  AccountInv'
  <1>1. pages' = [pages EXCEPT ![p] = Closed] /\ OldRead(Closed, users, births)
    BY ClosedIsOld DEF GivesUp, Closes
  <1>2. AccountsTypeOK'
    BY <1>1, ClosedIsPage, PageStep DEF GivesUp, AccountInv, AccountsTypeOK
  <1> QED
    BY <1>1, <1>2, ClosedIsPage, QuietStep DEF GivesUp

\* A page that is made from the row the user has now.
LEMMA FreshRead ==
  ASSUME AccountInv, NEW id \in DOMAIN users, NEW stage \in {"form", "tool"},
         NEW shown \in Fields, NEW unticked \in BOOLEAN
  PROVE  /\ Reading(stage, id, shown, unticked) \in Page
         /\ OldRead(Reading(stage, id, shown, unticked), users, births)
  <1>1. /\ users[id] \in User /\ id \in Ids
        /\ users[id].version \in Nat /\ users[id].born <= births
    BY RowType DEF AccountInv, ReadsAreOld
  <1> QED
    BY <1>1 DEF Reading, Page, OldRead

LEMMA LoadsInv ==
  ASSUME AccountInv, NEW p \in Pages, Loads(p)
  PROVE  AccountInv'
  <1>1. PICK id \in DOMAIN users, stage \in {"form", "tool"} :
          pages' = [pages EXCEPT ![p] = Reading(stage, id, users[id].fields, FALSE)]
    BY DEF Loads
  <1>2. /\ Reading(stage, id, users[id].fields, FALSE) \in Page
        /\ OldRead(Reading(stage, id, users[id].fields, FALSE), users, births)
    BY RowType, FreshRead DEF AccountInv
  <1>3. AccountsTypeOK'
    BY <1>1, <1>2, PageStep DEF Loads, AccountInv, AccountsTypeOK
  <1> QED
    BY <1>1, <1>2, <1>3, QuietStep DEF Loads

LEMMA RefusedInv ==
  ASSUME AccountInv, NEW p \in Pages, NEW f \in Fields,
         NEW secret \in Secrets \cup {NoSecret}, Refused(p, f, secret)
  PROVE  AccountInv'
  <1> DEFINE shown == Reading("form", pages[p].user, f, pages[p].unticked \/ (pages[p].shown.bought /\ ~f.bought))
  <1>1. PICK page \in Page : pages' = [pages EXCEPT ![p] = page] /\ OldRead(page, users, births)
    <2>1. CASE pages[p].stage = "form" /\ pages[p].user \in DOMAIN users
      <3>1. shown \in Page /\ OldRead(shown, users, births)
        BY <2>1, FreshRead
      <3>2. pages' = [pages EXCEPT ![p] = shown]
        BY <2>1 DEF Refused
      <3> QED
        BY <3>1, <3>2
    <2>2. CASE ~(pages[p].stage = "form" /\ pages[p].user \in DOMAIN users)
      BY <2>2, ClosedIsPage, ClosedIsOld DEF Refused, Closes
    <2> QED
      BY <2>1, <2>2
  <1>2. AccountsTypeOK'
    BY <1>1, PageStep DEF Refused, AccountInv, AccountsTypeOK
  <1> QED
    BY <1>1, <1>2, QuietStep DEF Refused

LEMMA ChangesPasswordInv ==
  ASSUME AccountInv, NEW p \in Pages, ChangesPassword(p)
  PROVE  AccountInv'
  <1> DEFINE id == pages[p].user
  <1>1. PICK secret \in Secrets :
          identities' = Others(id) \cup {[i EXCEPT !.secret = secret] : i \in Of(id)}
    BY DEF ChangesPassword
  <1>2. /\ sessions' = sessions \ SessionsOf(id)
        /\ pages' = [pages EXCEPT ![p] = Closed]
        /\ UNCHANGED <<users, invitations, births>>
    BY DEF ChangesPassword, Closes
  <1>3. \A i \in identities : [i EXCEPT !.secret = secret] \in Identity
          /\ [i EXCEPT !.secret = secret].owner = i.owner
          /\ [i EXCEPT !.secret = secret].subject = i.subject
    BY DEF AccountInv, AccountsTypeOK, Identity
  <1>3a. \A a \in identities' : \E i \in identities :
          /\ i.subject = a.subject /\ i.owner = a.owner
          /\ a = IF i.owner = id THEN [i EXCEPT !.secret = secret] ELSE i
    BY <1>1, <1>3 DEF Of, Others
  <1>4. AccountsTypeOK'
    <2>1. \A j \in identities' : j \in Identity /\ j.owner \in DOMAIN users
      BY <1>1, <1>3 DEF Others, Of, AccountInv, AccountsTypeOK
    <2>2. \A s \in sessions' : s \in sessions
      BY <1>2
    <2>3. pages' \in [Pages -> Page]
      BY <1>2, ClosedIsPage, PageStep DEF AccountInv
    <2> QED
      BY <2>1, <2>2, <2>3, <1>2 DEF AccountInv, AccountsTypeOK
  <1>5. LoginByUsername'
    <2>1. ASSUME NEW u \in DOMAIN users
          PROVE  Of(u)' = {} \/ \E i \in Of(u)' : i.subject = users[u].fields.username
      <3>1. CASE Of(u) = {}
        BY <3>1, <1>3a DEF Of
      <3>2. ASSUME NEW i \in Of(u), i.subject = users[u].fields.username
            PROVE  \E j \in Of(u)' : j.subject = users[u].fields.username
        <4>1. CASE u = id
          <5>1. [i EXCEPT !.secret = secret] \in Of(u)'
            BY <4>1, <1>1, <1>3 DEF Of
          <5> QED
            BY <5>1, <3>2, <1>3 DEF Of
        <4>2. CASE u # id
          BY <4>2, <3>2, <1>1 DEF Of, Others
        <4> QED
          BY <4>1, <4>2
      <3> QED
        BY <3>1, <3>2 DEF AccountInv, LoginByUsername
    <2>2. \A a, b \in identities' : a.subject = b.subject => a = b
      BY <1>3a DEF AccountInv, LoginByUsername
    <2> QED
      BY <2>1, <2>2, <1>2 DEF LoginByUsername
  <1>6. Later(users')
    BY <1>2 DEF Later
  <1>7. ReadsAreOld'
    BY <1>2, <1>4, <1>6, ClosedIsPage, ClosedIsOld, OldPages
  <1> QED
    BY <1>4, <1>5, <1>7 DEF AccountInv

LEMMA ActivatesInv ==
  ASSUME AccountInv, NEW p \in Pages, Activates(p)
  PROVE  AccountInv'
  <1>1. PICK id \in DOMAIN invitations, username \in Logins, secret \in Secrets :
          LET fields == [users[id].fields EXCEPT !.username = username]
          IN  /\ ~invitations[id]
              /\ Writable(id)
              /\ Free([fields EXCEPT !.email = NoMail], id)
              /\ Unclaimed(username, identities)
              /\ users' = [users EXCEPT ![id] = Written(@, fields)]
              /\ invitations' = [invitations EXCEPT ![id] = TRUE]
              /\ identities' = identities \cup {[owner |-> id, subject |-> username, secret |-> secret]}
              /\ pages' = [pages EXCEPT ![p] = [stage |-> "opening", user |-> id, secret |-> secret]]
    BY DEF Activates
  <1> DEFINE f == [users[id].fields EXCEPT !.username = username]
             i == [owner |-> id, subject |-> username, secret |-> secret]
             page == [stage |-> "opening", user |-> id, secret |-> secret]
  <1>2. id \in DOMAIN users /\ UNCHANGED <<sessions, births>>
    BY DEF Activates, Writable, AccountInv, AccountsTypeOK
  <1>3. f \in Fields /\ f.username = username
    BY <1>2, RowType DEF Fields, Names, AccountInv
  <1>4. users' = [users EXCEPT ![id] = Written(users[id], f)] /\ Writable(id)
    BY <1>1, <1>2
  <1> HIDE DEF f
  <1>5. /\ Written(users[id], f) \in User /\ Written(users[id], f).born = users[id].born
        /\ Written(users[id], f).fields = f
        /\ users[id].version < Written(users[id], f).version
    BY <1>3, <1>4, WrittenRow DEF AccountInv
  <1>6. /\ DOMAIN users' = DOMAIN users
        /\ users'[id] = Written(users[id], f)
        /\ \A j \in DOMAIN users : j # id => users'[j] = users[j]
    BY <1>2, <1>4 DEF AccountInv, AccountsTypeOK
  <1>7. i \in Identity /\ i.owner = id /\ i.subject = username
    BY <1>2, RowType DEF Identity, Names, AccountInv
  <1>8. page \in Page /\ OldRead(page, users', births')
    BY <1>2, RowType DEF Page, OldRead, AccountInv
  <1>9. AccountsTypeOK'
    <2>1. users' \in [DOMAIN users' -> User]
      BY <1>4, <1>5, <1>6 DEF AccountInv, AccountsTypeOK
    <2>2. \A j \in identities' : j \in Identity /\ j.owner \in DOMAIN users'
      BY <1>1, <1>2, <1>6, <1>7 DEF AccountInv, AccountsTypeOK
    <2>3. DOMAIN invitations' = DOMAIN invitations /\ invitations' \in [DOMAIN invitations' -> BOOLEAN]
      BY <1>1 DEF AccountInv, AccountsTypeOK
    <2>4. pages' \in [Pages -> Page]
      BY <1>1, <1>8, PageStep DEF AccountInv
    <2> QED
      BY <2>1, <2>2, <2>3, <2>4, <1>2, <1>6 DEF AccountInv, AccountsTypeOK
  <1>10. LoginByUsername'
    <2>1. \A j \in DOMAIN users : j # id => Of(j)' = Of(j) /\ users'[j] = users[j]
      BY <1>1, <1>6 DEF Of
    <2>2. i \in Of(id)' /\ i.subject = users'[id].fields.username
      BY <1>1, <1>3, <1>5, <1>6 DEF Of
    <2>3. \A a, b \in identities' : a.subject = b.subject => a = b
      BY <1>1 DEF AccountInv, LoginByUsername, Unclaimed
    <2> QED
      BY <2>1, <2>2, <2>3, <1>6 DEF AccountInv, LoginByUsername
  <1>11. Later(users')
    BY <1>5, <1>6 DEF Later
  <1> HIDE DEF page
  <1>12. ReadsAreOld'
    <2>1. pages' = [pages EXCEPT ![p] = page]
      BY <1>1 DEF page
    <2> QED
      BY <2>1, <1>2, <1>8, <1>9, <1>11, OldPages
  <1> QED
    BY <1>9, <1>10, <1>12 DEF AccountInv

\* What an update makes of the identities of the user.
LEMMA RenamedIdentities ==
  ASSUME AccountInv, NEW id \in DOMAIN users, NEW f \in Fields, NEW secret \in Secrets \cup {NoSecret},
         \A i, j \in Of(id) : i = j,
         (Of(id) # {} \/ secret # NoSecret) => Unclaimed(f.username, Others(id)),
         identities' = Others(id) \cup Renamed(id, f.username, secret)
  PROVE  /\ \A i \in identities' : i \in Identity /\ i.owner \in DOMAIN users
         /\ \A j \in DOMAIN users : j # id => Of(j)' = Of(j)
         /\ Of(id)' = {} \/ \E i \in Of(id)' : i.subject = f.username
         /\ \A a, b \in identities' : a.subject = b.subject => a = b
  <1>1. \A i \in identities : i \in Identity /\ i.owner \in DOMAIN users /\ i.owner \in Ids
    BY DEF AccountInv, AccountsTypeOK, Identity
  <1>2. f.username \in Names /\ id \in Ids
    BY RowType DEF Fields, AccountInv
  <1>3. \A r \in Renamed(id, f.username, secret) :
          r \in Identity /\ r.owner = id /\ r.subject = f.username
    <2>1. CASE secret = NoSecret
      BY <2>1, <1>1, <1>2 DEF Renamed, Of, Identity
    <2>2. CASE secret # NoSecret
      BY <2>2, <1>2 DEF Renamed, Identity
    <2> QED
      BY <2>1, <2>2
  <1>4. \A a, b \in Renamed(id, f.username, secret) : a = b
    BY DEF Renamed
  <1>5. Renamed(id, f.username, secret) # {} => Unclaimed(f.username, Others(id))
    BY DEF Renamed
  <1>6. \A j : j # id => Of(j)' = Of(j)
    BY <1>3 DEF Of, Others
  <1>7. Of(id)' = Renamed(id, f.username, secret)
    BY <1>3 DEF Of, Others
  <1>8. \A a, b \in Others(id) : a.subject = b.subject => a = b
    BY DEF Others, AccountInv, LoginByUsername
  <1>9. \A a, b \in identities' : a.subject = b.subject => a = b
    BY <1>3, <1>4, <1>5, <1>8 DEF Unclaimed
  <1>10. \A i \in identities' : i \in Identity /\ i.owner \in DOMAIN users
    BY <1>1, <1>3 DEF Others
  <1> QED
    BY <1>3, <1>6, <1>7, <1>9, <1>10

LEMMA UpdatesInv ==
  ASSUME AccountInv, NEW p \in Pages, NEW f \in Fields,
         NEW secret \in Secrets \cup {NoSecret}, Updates(p, f, secret)
  PROVE  AccountInv'
  <1>0. PICK id : id = pages[p].user
    OBVIOUS
  <1>1. /\ id \in DOMAIN users /\ Writable(id)
        /\ \A i, j \in Of(id) : i = j
        /\ (Of(id) # {} \/ secret # NoSecret) => Unclaimed(f.username, Others(id))
        /\ users' = [users EXCEPT ![id] = Written(users[id], f)]
        /\ identities' = Others(id) \cup Renamed(id, f.username, secret)
        /\ sessions' \subseteq sessions
        /\ pages' = [pages EXCEPT ![p] = Closed]
        /\ UNCHANGED <<invitations, births>>
    BY <1>0 DEF Updates, Takes, Closes
  <1>2. /\ Written(users[id], f) \in User /\ Written(users[id], f).born = users[id].born
        /\ Written(users[id], f).fields = f
        /\ users[id].version < Written(users[id], f).version
    BY <1>1, WrittenRow DEF AccountInv
  <1>3. /\ DOMAIN users' = DOMAIN users
        /\ users'[id] = Written(users[id], f)
        /\ \A j \in DOMAIN users : j # id => users'[j] = users[j]
    BY <1>1 DEF AccountInv, AccountsTypeOK
  <1>4. /\ \A i \in identities' : i \in Identity /\ i.owner \in DOMAIN users
        /\ \A j \in DOMAIN users : j # id => Of(j)' = Of(j)
        /\ Of(id)' = {} \/ \E i \in Of(id)' : i.subject = f.username
        /\ \A a, b \in identities' : a.subject = b.subject => a = b
    BY <1>1, RenamedIdentities
  <1>5. AccountsTypeOK'
    <2>1. users' \in [DOMAIN users' -> User]
      BY <1>1, <1>2, <1>3 DEF AccountInv, AccountsTypeOK
    <2>2. pages' \in [Pages -> Page]
      BY <1>1, ClosedIsPage, PageStep DEF AccountInv
    <2> QED
      BY <2>1, <2>2, <1>1, <1>3, <1>4 DEF AccountInv, AccountsTypeOK
  <1>6. LoginByUsername'
    BY <1>2, <1>3, <1>4 DEF AccountInv, LoginByUsername
  <1>7. Later(users')
    BY <1>2, <1>3 DEF Later
  <1>8. ReadsAreOld'
    BY <1>1, <1>5, <1>7, ClosedIsPage, ClosedIsOld, OldPages
  <1> QED
    BY <1>5, <1>6, <1>8 DEF AccountInv

-----------------------------------------------------------------------------
(* The theorems.                                                           *)

LEMMA InitInv == AccountsInit => AccountInv
  <1> SUFFICES ASSUME AccountsInit PROVE AccountInv
    OBVIOUS
  <1>1. AccountsTypeOK
    BY AccountAssumption, ClosedIsPage DEF AccountsInit, AccountsTypeOK
  <1>2. LoginByUsername
    BY DEF AccountsInit, LoginByUsername
  <1>3. ReadsAreOld
    BY ClosedIsOld DEF AccountsInit, ReadsAreOld
  <1> QED
    BY <1>1, <1>2, <1>3 DEF AccountInv

LEMMA StepInv == AccountInv /\ [AccountsNext]_accountVars => AccountInv'
  <1> SUFFICES ASSUME AccountInv, [AccountsNext]_accountVars PROVE AccountInv'
    OBVIOUS
  <1>1. ASSUME NEW id \in Ids, Creates(id) PROVE AccountInv'
    BY <1>1, CreatesInv
  <1>2. ASSUME NEW id \in Ids, MarksPurchase(id) PROVE AccountInv'
    BY <1>2, MarksPurchaseInv
  <1>3. ASSUME NEW id \in Ids, Removes(id) PROVE AccountInv'
    BY <1>3, RemovesInv
  <1>4. ASSUME NEW id \in Ids, NEW mail \in Mails, Invites(id, mail) PROVE AccountInv'
    BY <1>4, InvitesInv
  <1>5. ASSUME NEW s, EndsSession(s) PROVE AccountInv'
    BY <1>5, EndsSessionInv
  <1>6. ASSUME NEW p \in Pages, ChecksPassword(p) \/ OpensSession(p) \/ AsksToChange(p) \/ GivesUp(p)
        PROVE  AccountInv'
    BY <1>6, ChecksPasswordInv, OpensSessionInv, AsksToChangeInv, GivesUpInv
  <1>7. ASSUME NEW p \in Pages, ChangesPassword(p) \/ Activates(p) \/ Loads(p)
        PROVE  AccountInv'
    BY <1>7, ChangesPasswordInv, ActivatesInv, LoadsInv
  <1>8. ASSUME NEW p \in Pages, Submits(p) PROVE AccountInv'
    BY <1>8, UpdatesInv, RefusedInv DEF Submits
  <1>9. CASE UNCHANGED accountVars
    <2>1. AccountsTypeOK'
      BY <1>9 DEF accountVars, AccountInv, AccountsTypeOK
    <2> QED
      BY <1>9, <2>1, QuietStep DEF accountVars
  <1> QED
    BY <1>1, <1>2, <1>3, <1>4, <1>5, <1>6, <1>7, <1>8, <1>9 DEF AccountsNext

\* Between the accounts' tables and the pages open on them nothing goes out of
\* step: internal/auth/store.go.
THEOREM AccountInvariant == AccountsSpec => []AccountInv
  BY InitInv, StepInv, PTL DEF AccountsSpec

\* Identities, sessions and invitations always belong to a user.
THEOREM AccountTypes == AccountsSpec => []AccountsTypeOK
  BY AccountInvariant, PTL DEF AccountInv

\* CreateUser, UpdateUser and CompleteInvitationProfile keep an identity with
\* the username of every user who has one, and no two with one subject.
THEOREM EveryoneLogsInByUsername == AccountsSpec => []LoginByUsername
  BY AccountInvariant, PTL DEF AccountInv

\* A step that writes a user while a page made for that user closes is the
\* update of that page.
LEMMA WriterOfPage ==
  ASSUME AccountInv, AccountsNext, NEW p \in Pages,
         pages[p].stage \in {"form", "tool"}, pages'[p] = Closed,
         UNCHANGED users => FALSE
  PROVE  \E f \in Fields, secret \in Secrets \cup {NoSecret} : Updates(p, f, secret)
  <1>1. pages[p] # Closed /\ pages[p].stage \notin {"opening", "changing", "none"}
    BY ClosedIsPage
  <1>2. \A q \in Pages : \A page : pages' = [pages EXCEPT ![q] = page] /\ q # p => FALSE
    BY <1>1 DEF AccountInv, AccountsTypeOK
  <1>3. pages' # pages
    BY <1>1
  <1>4. ASSUME NEW q \in Pages, NEW f \in Fields, NEW secret \in Secrets \cup {NoSecret},
               Updates(q, f, secret)
        PROVE  Updates(p, f, secret)
    BY <1>4, <1>2 DEF Updates, Closes
  <1>5. ASSUME NEW id \in Ids, Creates(id) \/ MarksPurchase(id) \/ Removes(id)
                                 \/ \E mail \in Mails : Invites(id, mail)
        PROVE  FALSE
    BY <1>5, <1>3 DEF Creates, MarksPurchase, Removes, Invites
  <1>6. ASSUME NEW q \in Pages, Activates(q)
        PROVE  FALSE
    <2>1. q = p
      BY <1>6, <1>2 DEF Activates
    <2> QED
      BY <2>1, <1>6, <1>1 DEF Activates
  <1>7. ASSUME NEW s, EndsSession(s) PROVE FALSE
    BY <1>7 DEF EndsSession
  <1>8. ASSUME NEW q \in Pages, ChecksPassword(q) \/ OpensSession(q) \/ AsksToChange(q)
                                  \/ ChangesPassword(q) \/ Loads(q) \/ GivesUp(q)
        PROVE  FALSE
    BY <1>8 DEF ChecksPassword, OpensSession, AsksToChange, ChangesPassword, Loads, GivesUp
  <1>9. ASSUME NEW q \in Pages, Submits(q)
        PROVE  \E f \in Fields, secret \in Secrets \cup {NoSecret} : Updates(q, f, secret)
    BY <1>9 DEF Submits, Refused
  <1> QED
    BY <1>4, <1>5, <1>6, <1>7, <1>8, <1>9 DEF AccountsNext

\* UpdateUser never overwrites a row that a purchase, an activation or another
\* update has written since the form was loaded or the tool has read it.
THEOREM StaleUpdatesRefused == AccountsSpec => AppliedOnWhatWasRead
  <1> DEFINE Fresh(p) ==
        (/\ pages[p].stage \in {"form", "tool"}
         /\ pages'[p] = Closed
         /\ Same(pages[p].user) /\ users'[pages[p].user] # users[pages[p].user]
         /\ users[pages[p].user].born = pages[p].read.born)
        => users[pages[p].user] = pages[p].read
  <1>1. AccountInv /\ [AccountsNext]_accountVars => [\A p \in Pages : Fresh(p)]_accountVars
    <2> SUFFICES ASSUME AccountInv, AccountsNext, NEW p \in Pages,
                        pages[p].stage \in {"form", "tool"}, pages'[p] = Closed,
                        Same(pages[p].user), users'[pages[p].user] # users[pages[p].user],
                        users[pages[p].user].born = pages[p].read.born
                 PROVE  users[pages[p].user] = pages[p].read
      OBVIOUS
    <2>1. PICK f \in Fields, secret \in Secrets \cup {NoSecret} : Updates(p, f, secret)
      BY WriterOfPage
    <2>2. /\ pages[p].user \in DOMAIN users
          /\ users[pages[p].user].version = pages[p].read.version
      BY <2>1 DEF Updates, Takes
    <2> QED
      BY <2>2 DEF AccountInv, ReadsAreOld, OldRead
  <1>2. AccountsSpec => [][\A p \in Pages : Fresh(p)]_accountVars
    BY <1>1, AccountInvariant, PTL DEF AccountsSpec
  <1> QED
    BY <1>2 DEF AppliedOnWhatWasRead

\* Only the tool replaces the password of an admin: ChangePassword and
\* UpdateUser look at the role again in their transactions.
THEOREM OnlyTheToolChangesAdmins == AccountsSpec => AdminPasswordsKept
  <1> DEFINE Kept(id) ==
        (Same(id) /\ "admin" \in {users[id].fields.role, users'[id].fields.role})
        => \/ Secret(id) \subseteq Secret(id)'
           \/ \E p \in Pages : pages[p].stage = "tool" /\ pages'[p] = Closed
  <1>1. AccountInv /\ [AccountsNext]_accountVars => [\A id \in DOMAIN users : Kept(id)]_accountVars
    <2> SUFFICES ASSUME AccountInv, AccountsNext, NEW id \in DOMAIN users,
                        Same(id), "admin" \in {users[id].fields.role, users'[id].fields.role}
                 PROVE  \/ Secret(id) \subseteq Secret(id)'
                        \/ \E p \in Pages : pages[p].stage = "tool" /\ pages'[p] = Closed
      OBVIOUS
    <2>1. CASE identities \subseteq identities'
      BY <2>1 DEF Secret, Of
    <2>2. ASSUME NEW other \in Ids, Removes(other)
          PROVE  Secret(id) \subseteq Secret(id)'
      <3>1. id # other
        BY <2>2, WithoutUser DEF Removes, Same, AccountInv
      <3>2. Of(id) \subseteq identities'
        BY <2>2, <3>1 DEF Removes, Of, Others
      <3> QED
        BY <3>2 DEF Secret, Of
    <2>3. ASSUME NEW p \in Pages, ChangesPassword(p)
          PROVE  Secret(id) \subseteq Secret(id)'
      <3>1. id # pages[p].user
        BY <2>3 DEF ChangesPassword, MayChange
      <3>2. Of(id) \subseteq identities'
        BY <2>3, <3>1 DEF ChangesPassword, Of, Others
      <3> QED
        BY <3>2 DEF Secret, Of
    <2>4. ASSUME NEW p \in Pages, NEW f \in Fields, NEW secret \in Secrets \cup {NoSecret},
                 Updates(p, f, secret), pages[p].stage = "form"
          PROVE  Secret(id) \subseteq Secret(id)'
      <3>1. CASE id # pages[p].user
        <4>1. Of(id) \subseteq identities'
          BY <2>4, <3>1 DEF Updates, Of, Others
        <4> QED
          BY <4>1 DEF Secret, Of
      <3>2. CASE id = pages[p].user
        <4>1. users'[id] = Written(users[id], f) /\ users'[id].fields = f
          <5>1. /\ users' = [users EXCEPT ![id] = Written(users[id], f)]
                /\ Writable(id)
            BY <2>4, <3>2 DEF Updates
          <5> QED
            BY <5>1, WrittenRow DEF AccountInv, AccountsTypeOK
        <4>2. secret = NoSecret
          BY <2>4, <3>2, <4>1 DEF Updates, Takes, Protected
        <4>3. identities' = Others(id) \cup {[i EXCEPT !.subject = f.username] : i \in Of(id)}
          BY <2>4, <3>2, <4>2 DEF Updates, Renamed
        <4>4. \A i \in Of(id) : /\ [i EXCEPT !.subject = f.username].owner = id
                               /\ [i EXCEPT !.subject = f.username].secret = i.secret
          BY DEF Of, AccountInv, AccountsTypeOK, Identity
        <4> QED
          BY <4>3, <4>4 DEF Secret, Of
      <3> QED
        BY <3>1, <3>2
    <2>5. ASSUME NEW p \in Pages, NEW f \in Fields, NEW secret \in Secrets \cup {NoSecret},
                 Updates(p, f, secret), pages[p].stage = "tool"
          PROVE  pages[p].stage = "tool" /\ pages'[p] = Closed
      BY <2>5 DEF Updates, Closes, AccountInv, AccountsTypeOK
    <2>6. ASSUME NEW p \in Pages, NEW f \in Fields, NEW secret \in Secrets \cup {NoSecret},
                 Updates(p, f, secret)
          PROVE  \/ Secret(id) \subseteq Secret(id)'
                 \/ \E q \in Pages : pages[q].stage = "tool" /\ pages'[q] = Closed
      BY <2>4, <2>5, <2>6 DEF Updates
    <2>7. ASSUME NEW p \in Pages, Submits(p)
          PROVE  \/ Secret(id) \subseteq Secret(id)'
                 \/ \E q \in Pages : pages[q].stage = "tool" /\ pages'[q] = Closed
      BY <2>1, <2>6, <2>7 DEF Submits, Refused
    <2>8. ASSUME NEW other \in Ids, Creates(other) \/ MarksPurchase(other)
                                     \/ \E mail \in Mails : Invites(other, mail)
          PROVE  identities \subseteq identities'
      BY <2>8 DEF Creates, MarksPurchase, Invites
    <2>9. ASSUME NEW p \in Pages, ChecksPassword(p) \/ OpensSession(p) \/ AsksToChange(p)
                                    \/ Activates(p) \/ Loads(p) \/ GivesUp(p)
          PROVE  identities \subseteq identities'
      BY <2>9 DEF ChecksPassword, OpensSession, AsksToChange, Activates, Loads, GivesUp
    <2>10. ASSUME NEW s, EndsSession(s)
           PROVE  identities \subseteq identities'
      BY <2>10 DEF EndsSession
    <2> QED
      BY <2>1, <2>2, <2>3, <2>7, <2>8, <2>9, <2>10 DEF AccountsNext
  <1>2. AccountsSpec => [][\A id \in DOMAIN users : Kept(id)]_accountVars
    BY <1>1, AccountInvariant, PTL DEF AccountsSpec
  <1> QED
    BY <1>2 DEF AdminPasswordsKept
=============================================================================
