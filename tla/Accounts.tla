------------------------------ MODULE Accounts ------------------------------
(***************************************************************************)
(* The accounts (internal/auth/store.go): users, the password identities   *)
(* they log in with, their sessions and the invitation of a user who was   *)
(* made by a purchase.  The writers are the login form, the password form  *)
(* of a user, the invitation page, the administrators' user form, the      *)
(* command-line tool and the fulfilment of a purchase.                     *)
(*                                                                         *)
(* One transaction is one step.  What a handler or a page keeps from one   *)
(* transaction to the next is in pages: a login that has checked the       *)
(* password, a password form that has read the session, a user form in a   *)
(* browser, a tool that has read the user it will update.                  *)
(*                                                                         *)
(* A password stands for its hash.  Display names and times are left out;  *)
(* the roles user and client are one, for no rule here tells them apart.   *)
(***************************************************************************)
EXTENDS Naturals

CONSTANTS
  MaxId,       \* bound: ids are 1..MaxId
  Logins,      \* usernames that validateUser takes
  Mails,       \* email addresses, no username that validateUser takes
  Secrets,     \* passwords
  NoSecret,    \* the password field left empty
  NoMail,      \* the email field left empty
  Roles,       \* what CHECK (role IN ...) allows
  Pages,       \* handlers, browser pages and tools that may be open at once
  MaxVersion,  \* bound: the versions of a user
  MaxBirths    \* bound: users ever inserted

Ids == 1..MaxId
Names == Logins \cup Mails
Addresses == Mails \cup {NoMail}

ASSUME AccountAssumption ==
  /\ MaxId \in Nat /\ MaxVersion \in Nat \ {0} /\ MaxBirths \in Nat
  /\ Logins \cap Mails = {} /\ NoMail \notin Names /\ NoSecret \notin Secrets
  /\ "user" \in Roles

VARIABLES
  users,        \* the rows of users, by id
  identities,   \* the rows of auth_identities with the password provider
  sessions,     \* the live rows of sessions; two alike count as one
  invitations,  \* the invited users: whether the invitation was used
  pages,        \* what each page or handler keeps
  births        \* how many users were inserted

accountVars == <<users, identities, sessions, invitations, pages, births>>

\* What the user form and the tool can write.
Fields == [username : Names, email : Addresses, role : Roles, bought : BOOLEAN]

\* born is no column: it tells two users apart that had the same id.
User ==
  [fields : Fields, version : 1..MaxVersion, born : 1..MaxBirths]

Identity == [owner : Ids, subject : Names, secret : Secrets]

\* secret is no column: it is the password the session was opened with.
Session == [user : Ids, secret : Secrets]

\* read is the row the page was made from, shown the fields it shows, and
\* unticked whether the purchase mark was taken away by hand on the page.
Page ==
  {[stage |-> "none"]}
    \cup [stage : {"opening"}, user : Ids, secret : Secrets]
    \cup [stage : {"changing"}, user : Ids]
    \cup [stage : {"form", "tool"}, user : Ids, read : User, shown : Fields, unticked : BOOLEAN]

Closed == [stage |-> "none"]

AccountsTypeOK ==
  /\ DOMAIN users \subseteq Ids
  /\ users \in [DOMAIN users -> User]
  /\ identities \subseteq Identity
  /\ \A i \in identities : i.owner \in DOMAIN users
  /\ sessions \subseteq Session
  /\ \A s \in sessions : s.user \in DOMAIN users
  /\ DOMAIN invitations \subseteq DOMAIN users
  /\ invitations \in [DOMAIN invitations -> BOOLEAN]
  /\ pages \in [Pages -> Page]
  /\ births \in 0..MaxBirths

AccountsInit ==
  /\ users = [id \in {} |-> 0]
  /\ identities = {}
  /\ sessions = {}
  /\ invitations = [id \in {} |-> FALSE]
  /\ pages = [p \in Pages |-> Closed]
  /\ births = 0

-----------------------------------------------------------------------------
(* The tables.                                                             *)

Of(id) == {i \in identities : i.owner = id}

Others(id) == identities \ Of(id)

\* No other user has the username or the email address.
Free(f, id) ==
  \A other \in DOMAIN users \ {id} :
    /\ users[other].fields.username # f.username
    /\ f.email = NoMail \/ users[other].fields.email # f.email

\* UNIQUE(provider, subject): no identity in I has the subject.
Unclaimed(subject, I) == \A i \in I : i.subject # subject

\* An INTEGER PRIMARY KEY gives the next row the largest id plus one.
IsNext(id) ==
  /\ \A other \in DOMAIN users : other < id
  /\ id = 1 \/ id - 1 \in DOMAIN users

Put(f, id, row) == [i \in DOMAIN f \cup {id} |-> IF i = id THEN row ELSE f[i]]

Without(f, id) == [i \in DOMAIN f \ {id} |-> f[i]]

\* A row that is written to has the next version.
Written(row, fields) == [row EXCEPT !.fields = fields, !.version = @ + 1]

Writable(id) == id \in DOMAIN users /\ users[id].version < MaxVersion

\* Mutant of SessionsOf: the sessions are left to run out.
NoSessions(id) == {}

SessionsOf(id) == {s \in sessions : s.user = id}

Closes(p) == pages' = [pages EXCEPT ![p] = Closed]

-----------------------------------------------------------------------------
(* Users come and go.                                                      *)

\* CreateUser, for the form and the tool: the user and the identity.
Creates(id) ==
  /\ IsNext(id) /\ births < MaxBirths
  /\ \E f \in Fields, secret \in Secrets :
       /\ f.username \in Logins
       /\ Free(f, id)
       /\ Unclaimed(f.username, identities)
       /\ users' = Put(users, id, [fields |-> f, version |-> 1, born |-> births + 1])
       /\ identities' = identities \cup {[owner |-> id, subject |-> f.username, secret |-> secret]}
  /\ births' = births + 1
  /\ UNCHANGED <<sessions, invitations, pages>>

\* The rows of users that a purchase with this address belongs to.
Buyers(mail) ==
  LET mailed == {id \in DOMAIN users : users[id].fields.email = mail}
      named  == {id \in DOMAIN users : users[id].fields.username = mail}
  IN  IF mailed # {} THEN mailed ELSE named

\* Mutant of Marked: the fulfilment leaves the version as it is.
MarkedOnly(row) == [row EXCEPT !.fields.bought = TRUE]

Marked(row) == Written(row, [row.fields EXCEPT !.bought = TRUE])

\* fulfillmentUser for a buyer who has a user already, found by the checkout's
\* user id or by the address.
MarksPurchase(id) ==
  /\ Writable(id)
  /\ users' = [users EXCEPT ![id] = Marked(@)]
  /\ UNCHANGED <<identities, sessions, invitations, pages, births>>

\* fulfillmentUser for an address nobody has: a user named by the address,
\* without an identity, inserted and marked, and an invitation.
Invites(id, mail) ==
  /\ Buyers(mail) = {}
  /\ IsNext(id) /\ births < MaxBirths /\ MaxVersion > 1
  /\ LET fields == [username |-> mail, email |-> mail, role |-> "user", bought |-> TRUE]
     IN  users' = Put(users, id, [fields |-> fields, version |-> 2, born |-> births + 1])
  /\ invitations' = Put(invitations, id, FALSE)
  /\ births' = births + 1
  /\ UNCHANGED <<identities, sessions, pages>>

\* The user's row is deleted: identities, sessions and invitation go with it.
Removes(id) ==
  /\ id \in DOMAIN users
  /\ users' = Without(users, id)
  /\ identities' = Others(id)
  /\ sessions' = sessions \ SessionsOf(id)
  /\ invitations' = Without(invitations, id)
  /\ UNCHANGED <<pages, births>>

-----------------------------------------------------------------------------
(* Logging in and out.                                                     *)

\* Authenticate: the identity with the subject has the password.
ChecksPassword(p) ==
  /\ pages[p] = Closed
  /\ \E i \in identities :
       pages' = [pages EXCEPT ![p] = [stage |-> "opening", user |-> i.owner, secret |-> i.secret]]
  /\ UNCHANGED <<users, identities, sessions, invitations, births>>

\* CreateSession, after a login or an activation; the foreign key fails when
\* the user is gone.
OpensSession(p) ==
  /\ pages[p].stage = "opening"
  /\ sessions' = sessions \cup
       {s \in {[user |-> pages[p].user, secret |-> pages[p].secret]} : s.user \in DOMAIN users}
  /\ Closes(p)
  /\ UNCHANGED <<users, identities, invitations, births>>

\* Logout, or the end of its lifetime.
EndsSession(s) ==
  /\ s \in sessions
  /\ sessions' = sessions \ {s}
  /\ UNCHANGED <<users, identities, invitations, pages, births>>

-----------------------------------------------------------------------------
(* A user changes the password.                                            *)

\* requireAccount and currentUser: the session's user, who is no admin.
AsksToChange(p) ==
  /\ pages[p] = Closed
  /\ \E s \in sessions :
       /\ users[s.user].fields.role # "admin"
       /\ pages' = [pages EXCEPT ![p] = [stage |-> "changing", user |-> s.user]]
  /\ UNCHANGED <<users, identities, sessions, invitations, births>>

MayChange(id) == id \in DOMAIN users /\ users[id].fields.role # "admin"

\* ChangePassword with the right current password: all identities of the
\* user, and all sessions are gone.
ChangesPassword(p) ==
  /\ pages[p].stage = "changing"
  /\ MayChange(pages[p].user)
  /\ Of(pages[p].user) # {}
  /\ \E secret \in Secrets :
       identities' = Others(pages[p].user) \cup {[i EXCEPT !.secret = secret] : i \in Of(pages[p].user)}
  /\ sessions' = sessions \ SessionsOf(pages[p].user)
  /\ Closes(p)
  /\ UNCHANGED <<users, invitations, births>>

\* The current password is wrong, the user is gone or is an admin by now; a
\* login or a form is given up.
GivesUp(p) ==
  /\ pages[p] # Closed
  /\ Closes(p)
  /\ UNCHANGED <<users, identities, sessions, invitations, births>>

-----------------------------------------------------------------------------
(* An invited user takes the account over.                                 *)

\* CompleteInvitationProfile: the invitation is used up, the user gets the
\* username and an identity of its own; a session follows.
Activates(p) ==
  /\ pages[p] = Closed
  /\ \E id \in DOMAIN invitations, username \in Logins, secret \in Secrets :
       LET fields == [users[id].fields EXCEPT !.username = username]
       IN  /\ ~invitations[id]
           /\ Writable(id)
           /\ Free([fields EXCEPT !.email = NoMail], id)
           /\ Unclaimed(username, identities)
           /\ users' = [users EXCEPT ![id] = Written(@, fields)]
           /\ invitations' = [invitations EXCEPT ![id] = TRUE]
           /\ identities' = identities \cup {[owner |-> id, subject |-> username, secret |-> secret]}
           /\ pages' = [pages EXCEPT ![p] = [stage |-> "opening", user |-> id, secret |-> secret]]
  /\ UNCHANGED <<sessions, births>>

-----------------------------------------------------------------------------
(* The administrators' form and the tool update a user.                    *)

Reading(stage, id, shown, unticked) ==
  [stage |-> stage, user |-> id, read |-> users[id], shown |-> shown, unticked |-> unticked]

\* The form is loaded, or the tool looks the user up by the username.
Loads(p) ==
  /\ pages[p] = Closed
  /\ \E id \in DOMAIN users, stage \in {"form", "tool"} :
       pages' = [pages EXCEPT ![p] = Reading(stage, id, users[id].fields, FALSE)]
  /\ UNCHANGED <<users, identities, sessions, invitations, births>>

\* Only the tool gives a password to an admin or to one who becomes an admin.
Protected(page, f, secret) ==
  /\ page.stage = "form" /\ secret # NoSecret
  /\ \/ users[page.user].fields.role = "admin"
     \/ f.role = "admin"

\* Whether UpdateUser takes the fields for the user at the version.  Of two
\* identities with one subject the second is refused by UNIQUE.
Takes(page, f, secret) ==
  /\ f.username \in Logins
  /\ page.user \in DOMAIN users
  /\ users[page.user].version = page.read.version
  /\ ~Protected(page, f, secret)
  /\ Free(f, page.user)
  /\ \A i, j \in Of(page.user) : i = j
  /\ (Of(page.user) # {} \/ secret # NoSecret) => Unclaimed(f.username, Others(page.user))

\* Mutant of Renamed: only a new password writes the identity.
RenamedLate(id, username, secret) ==
  IF secret = NoSecret THEN Of(id)
  ELSE {[owner |-> id, subject |-> username, secret |-> secret]}

\* The identity follows the username, and is made when it is missing and a
\* password is given.
Renamed(id, username, secret) ==
  IF secret = NoSecret THEN {[i EXCEPT !.subject = username] : i \in Of(id)}
  ELSE {[owner |-> id, subject |-> username, secret |-> secret]}

\* UpdateUser applies: user, identity and, with a password, the sessions.
Updates(p, f, secret) ==
  LET id == pages[p].user
  IN  /\ pages[p].stage \in {"form", "tool"}
      /\ Takes(pages[p], f, secret)
      /\ Writable(id)
      /\ users' = [users EXCEPT ![id] = Written(@, f)]
      /\ identities' = Others(id) \cup Renamed(id, f.username, secret)
      /\ sessions' = IF secret = NoSecret THEN sessions ELSE sessions \ SessionsOf(id)
      /\ Closes(p)
      /\ UNCHANGED <<invitations, births>>

\* UpdateUser refuses: the tool is over, the form is shown again with what was
\* typed and the version the user has now.
Refused(p, f, secret) ==
  LET id == pages[p].user
  IN  /\ pages[p].stage \in {"form", "tool"}
      /\ ~Takes(pages[p], f, secret)
      /\ IF pages[p].stage = "form" /\ id \in DOMAIN users
         THEN pages' = [pages EXCEPT ![p] =
                Reading("form", id, f, pages[p].unticked \/ (pages[p].shown.bought /\ ~f.bought))]
         ELSE Closes(p)
      /\ UNCHANGED <<users, identities, sessions, invitations, births>>

Submits(p) ==
  \E f \in Fields, secret \in Secrets \cup {NoSecret} : Updates(p, f, secret) \/ Refused(p, f, secret)

-----------------------------------------------------------------------------
AccountsNext ==
  \/ \E id \in Ids :
       \/ Creates(id) \/ MarksPurchase(id) \/ Removes(id)
       \/ \E mail \in Mails : Invites(id, mail)
  \/ \E s \in sessions : EndsSession(s)
  \/ \E p \in Pages :
       \/ ChecksPassword(p) \/ OpensSession(p)
       \/ AsksToChange(p) \/ ChangesPassword(p)
       \/ Activates(p)
       \/ Loads(p) \/ Submits(p)
       \/ GivesUp(p)

AccountsSpec == AccountsInit /\ [][AccountsNext]_accountVars

-----------------------------------------------------------------------------
(* Properties.                                                             *)

\* Whoever has a password can log in with the username shown for the account:
\* renaming by the form, the tool or the activation never leaves a user whose
\* identities all have another subject, and no two identities share one.
LoginByUsername ==
  /\ \A id \in DOMAIN users :
       Of(id) = {} \/ \E i \in Of(id) : i.subject = users[id].fields.username
  /\ \A i, j \in identities : i.subject = j.subject => i = j

Same(id) == id \in DOMAIN users /\ id \in DOMAIN users' /\ users[id].born = users'[id].born

\* A form or a tool that writes a user replaces the very row it was made from,
\* as long as it is still the same user: a purchase, an activation or another
\* update in between always turns it away.
AppliedOnWhatWasRead ==
  [][\A p \in Pages :
       LET id == pages[p].user
       IN  (/\ pages[p].stage \in {"form", "tool"}
            /\ pages'[p] = Closed
            /\ Same(id) /\ users'[id] # users[id]
            /\ users[id].born = pages[p].read.born)
           => users[id] = pages[p].read]_accountVars

Secret(id) == {i.secret : i \in Of(id)}

\* Outside the tool no step replaces the password of somebody who is an admin
\* before or after it, also when the role changes while the form is open.
AdminPasswordsKept ==
  [][\A id \in DOMAIN users :
       (Same(id) /\ "admin" \in {users[id].fields.role, users'[id].fields.role})
       => \/ Secret(id) \subseteq Secret(id)'
          \/ \E p \in Pages : pages[p].stage = "tool" /\ pages'[p] = Closed]_accountVars

-----------------------------------------------------------------------------
(* What the documents say and the code does not keep.                      *)

\* README.md:144, "Change a non-admin password after current-password
\* verification and revoke active sessions": every session of a user was
\* opened with a password the user still has.
SessionsAreCurrent ==
  \A s \in sessions : Of(s.user) = {} \/ s.secret \in Secret(s.user)

\* README.md:101, "The `users` recipe supports `list`, `show`, `create`,
\* `update`, and `delete`": a user with two identities can never be updated
\* again, whatever is typed.
CanBeUpdated ==
  \A i, j \in identities : i.owner = j.owner => i = j

\* internal/web/accounts.go:425, "This user changed while you were editing.
\* Reload and try again.": the purchase mark is only taken away by a page that
\* has shown it, now or before an earlier refusal.
PurchaseMarkSeen ==
  [][\A id \in DOMAIN users :
       (Same(id) /\ users[id].fields.bought /\ ~users'[id].fields.bought)
       => \E p \in Pages :
            /\ pages[p].stage \in {"form", "tool"} /\ pages'[p] = Closed
            /\ pages[p].shown.bought \/ pages[p].unticked]_accountVars

\* internal/auth/store_test.go:119, "stale update error": an update never
\* applies to another user than the one the page was made from.
UpdatesWhomWasRead ==
  [][\A p \in Pages :
       LET id == pages[p].user
       IN  (/\ pages[p].stage \in {"form", "tool"}
            /\ pages'[p] = Closed
            /\ Same(id) /\ users'[id] # users[id])
           => users[id].born = pages[p].read.born]_accountVars
=============================================================================
