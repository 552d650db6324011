------------------------------ MODULE Delivery ------------------------------
(***************************************************************************)
(* After the payment: Stripe's events of one paid session and the return   *)
(* page fulfil it, mail the receipt and the account invitation, and the    *)
(* customer activates the account (internal/web/checkout.go,               *)
(* internal/commerce/delivery.go and events.go, internal/auth).            *)
(*                                                                         *)
(* Webhook events and deliveries are claimed for five minutes.  A claim is *)
(* fresh until its lease is over.  Handlers take seconds, so the lease of  *)
(* a claim whose handler still works on it runs out only by a fault (a     *)
(* paused machine); when the handler is gone it runs out in time.          *)
(***************************************************************************)
EXTENDS Naturals, Sequences, FiniteSets

CONSTANTS
  Handlers,   \* webhook and return page requests in flight
  Events,     \* Stripe's events that report the payment of the session
  NoEvent,    \* the return page's
  MaxFaults   \* bound: failed calls, lost answers, outlived leases, crashes

ASSUME DeliveryAssumption ==
  /\ NoEvent \notin Events
  /\ MaxFaults \in Nat

VARIABLES
  event,      \* commerce_webhook_events; an event not seen yet is "failed"
  acked,      \* the events answered with 200: Stripe sends them no more
  sold,       \* whether Fulfill recorded the sale
  mail,       \* the delivery columns of the sale and of the invitation
  token,      \* whose hash the invitation row holds; tokens are numbered
  used,       \* commerce_invitations.used_at is set
  receipts,   \* how many receipts were mailed
  links,      \* the tokens mailed, in order
  handler,    \* what each handler does next, and what it has read
  faults      \* faults so far

vars == <<event, acked, sold, mail, token, used, receipts, links, handler, faults>>

NoToken == 0

Stages == {"idle", "fulfill", "claim", "issue", "send", "mark", "giveBack",
           "complete", "release"}

Mails == {"receipt", "invitation"}

\* invite: InvitedUserID is set and InvitationSent was not.
Handler ==
  [at     : Stages,
   event  : Events \cup {NoEvent},
   mail   : Mails,
   invite : BOOLEAN,
   token  : Nat]

Idle ==
  [at |-> "idle", event |-> NoEvent, mail |-> "receipt", invite |-> FALSE,
   token |-> NoToken]

DeliveryTypeOK ==
  /\ event \in [Events -> [status : {"processing", "failed", "completed"},
                           fresh : BOOLEAN]]
  /\ acked \subseteq Events
  /\ sold \in BOOLEAN
  /\ mail \in [Mails -> [status : {"pending", "sending", "sent"}, fresh : BOOLEAN]]
  /\ token \in Nat
  /\ used \in BOOLEAN
  /\ receipts \in Nat
  /\ links \in Seq(Nat)
  /\ handler \in [Handlers -> Handler]
  /\ faults \in 0..MaxFaults

Init ==
  /\ event = [e \in Events |-> [status |-> "failed", fresh |-> FALSE]]
  /\ acked = {}
  /\ sold = FALSE
  /\ mail = [m \in Mails |-> [status |-> "pending", fresh |-> FALSE]]
  /\ token = NoToken
  /\ used = FALSE
  /\ receipts = 0
  /\ links = <<>>
  /\ handler = [h \in Handlers |-> Idle]
  /\ faults = 0

-----------------------------------------------------------------------------

Fault ==
  /\ faults < MaxFaults
  /\ faults' = faults + 1

At(h, stage) == handler[h].at = stage

Goes(h, stage) == handler' = [handler EXCEPT ![h].at = stage]

Ends(h) == handler' = [handler EXCEPT ![h] = Idle]

\* deliverFulfillment returned: the webhook completes its event, or releases
\* it for a retry; the return page renders in either case.
Done(h) ==
  IF handler[h].event = NoEvent THEN Ends(h) ELSE Goes(h, "complete")

GivesUp(h) ==
  IF handler[h].event = NoEvent THEN Ends(h) ELSE Goes(h, "release")

-----------------------------------------------------------------------------
(* Events.                                                                 *)

\* Mutant of ClaimableEvent: a claim is kept by a handler that died.
UnclaimedEvent(e) == event[e].status = "failed"

ClaimableEvent(e) ==
  \/ event[e].status = "failed"
  \/ event[e].status = "processing" /\ ~event[e].fresh

\* Mutant of Known: an event in progress counts as handled.
Seen(e) == event[e].status \in {"processing", "completed"}

\* A duplicate that is answered without doing anything.
Known(e) == event[e].status = "completed"

\* ClaimWebhookEvent when it claims.  One that is in progress is answered
\* with an error and Stripe sends it again: that changes nothing here.
TakesEvent(h, e) ==
  /\ At(h, "idle")
  /\ e \notin acked
  /\ ClaimableEvent(e)
  /\ event' = [event EXCEPT ![e] = [status |-> "processing", fresh |-> TRUE]]
  /\ handler' = [handler EXCEPT ![h] = [Idle EXCEPT !.at = "fulfill", !.event = e]]
  /\ UNCHANGED <<acked, sold, mail, token, used, receipts, links, faults>>

AnswersDuplicate(e) ==
  /\ Known(e)
  /\ acked' = acked \cup {e}
  /\ UNCHANGED <<event, sold, mail, token, used, receipts, links, handler, faults>>

\* The customer opens or reloads the return page.
OpensReturnPage(h) ==
  /\ At(h, "idle")
  /\ handler' = [handler EXCEPT ![h] = [Idle EXCEPT !.at = "fulfill"]]
  /\ UNCHANGED <<event, acked, sold, mail, token, used, receipts, links, faults>>

\* CompleteWebhookEvent, and the answer to Stripe: 200 when the event is now
\* or was already completed, an error when the claim was given up meanwhile.
CompletesEvent(h) ==
  LET e == handler[h].event
  IN  /\ At(h, "complete")
      /\ IF event[e].status = "failed"
         THEN UNCHANGED <<event, acked>>
         ELSE /\ event' = [event EXCEPT ![e].status = "completed"]
              /\ acked' = acked \cup {e}
      /\ Ends(h)
      /\ UNCHANGED <<sold, mail, token, used, receipts, links, faults>>

\* ReleaseWebhookEvent releases whoever holds the claim by now.
ReleasesEvent(h) ==
  LET e == handler[h].event
  IN  /\ At(h, "release")
      /\ event' = [event EXCEPT ![e].status = IF @ = "processing" THEN "failed" ELSE @]
      /\ Ends(h)
      /\ UNCHANGED <<acked, sold, mail, token, used, receipts, links, faults>>

-----------------------------------------------------------------------------
(* Fulfillment.                                                            *)

\* Fulfill of a purchase by a guest who asks for an account.  The first
\* fulfilment inserts the sale and the invitation and hands its token to
\* the caller, a later one finds the sale and whether the invitation is sent.
Fulfills(h) ==
  /\ At(h, "fulfill")
  /\ sold' = TRUE
  /\ token' = IF sold THEN token ELSE 1
  /\ handler' = [handler EXCEPT
       ![h].at = "claim",
       ![h].invite = mail["invitation"].status # "sent",
       ![h].token = IF sold THEN NoToken ELSE 1]
  /\ UNCHANGED <<event, acked, mail, used, receipts, links, faults>>

-----------------------------------------------------------------------------
(* Deliveries: first the receipt, then the invitation.                     *)

\* Mutant of Claimable: the lease is not looked at.
ClaimableAnyway(m) ==
  /\ mail[m].status \in {"pending", "sending"}
  /\ m = "invitation" => ~used

\* Mutant of Claimable: only a delivery in progress is left alone.
ClaimableAgain(m) ==
  /\ ~(mail[m].status = "sending" /\ mail[m].fresh)
  /\ m = "invitation" => ~used

Claimable(m) ==
  /\ \/ mail[m].status = "pending"
     \/ mail[m].status = "sending" /\ ~mail[m].fresh
  /\ m = "invitation" => ~used

\* The receipt is behind this handler: the invitation is next, or nothing.
NextMail(h) ==
  IF handler[h].mail = "receipt" /\ handler[h].invite
  THEN handler' = [handler EXCEPT ![h].at = "claim", ![h].mail = "invitation"]
  ELSE Done(h)

\* claimDelivery claims; a claimed invitation needs a token to mail.
ClaimsDelivery(h) ==
  LET m == handler[h].mail
  IN  /\ At(h, "claim")
      /\ Claimable(m)
      /\ mail' = [mail EXCEPT ![m] = [status |-> "sending", fresh |-> TRUE]]
      /\ Goes(h, IF m = "invitation" /\ handler[h].token = NoToken
                 THEN "issue" ELSE "send")
      /\ UNCHANGED <<event, acked, sold, token, used, receipts, links, faults>>

\* It does not: another handler is sending, or there is nothing to send.
FindsInProgress(h) ==
  LET m == handler[h].mail
  IN  /\ At(h, "claim")
      /\ ~Claimable(m)
      /\ IF mail[m].status = "sending" THEN GivesUp(h) ELSE NextMail(h)
      /\ UNCHANGED <<event, acked, sold, mail, token, used, receipts, links, faults>>

\* IssueClaimedInvitationToken replaces the hash of the earlier token.
IssuesToken(h) ==
  /\ At(h, "issue")
  /\ ~used /\ mail["invitation"].status = "sending"
  /\ token' = token + 1
  /\ handler' = [handler EXCEPT ![h].at = "send", ![h].token = token + 1]
  /\ UNCHANGED <<event, acked, sold, mail, used, receipts, links, faults>>

IssueRefused(h) ==
  /\ At(h, "issue")
  /\ used \/ mail["invitation"].status # "sending"
  /\ GivesUp(h)
  /\ UNCHANGED <<event, acked, sold, mail, token, used, receipts, links, faults>>

\* Mailgun takes the mail.
Mailed(h) ==
  IF handler[h].mail = "receipt"
  THEN receipts' = receipts + 1 /\ UNCHANGED links
  ELSE links' = Append(links, handler[h].token) /\ UNCHANGED receipts

Sends(h) ==
  /\ At(h, "send")
  /\ Mailed(h)
  /\ Goes(h, "mark")
  /\ UNCHANGED <<event, acked, sold, mail, token, used, faults>>

\* Mailgun refuses, or takes the mail and its answer is lost: both are an
\* error to the handler, which gives the claim back.
SendFails(h) ==
  /\ At(h, "send")
  /\ Mailed(h) \/ UNCHANGED <<receipts, links>>
  /\ Goes(h, "giveBack")
  /\ Fault
  /\ UNCHANGED <<event, acked, sold, mail, token, used>>

\* MarkOrderEmailSent and its like take any delivery as sent.
MarksSent(h) ==
  /\ At(h, "mark")
  /\ mail' = [mail EXCEPT ![handler[h].mail].status = "sent"]
  /\ NextMail(h)
  /\ UNCHANGED <<event, acked, sold, token, used, receipts, links, faults>>

\* Mutant of Returned: the status a released webhook event gets.
ReturnedFailed(m) == IF mail[m].status = "sending" THEN "failed" ELSE mail[m].status

\* releaseDelivery only takes back a delivery in progress, whoever claimed it.
Returned(m) == IF mail[m].status = "sending" THEN "pending" ELSE mail[m].status

GivesBack(h) ==
  LET m == handler[h].mail
  IN  /\ At(h, "giveBack")
      /\ mail' = [mail EXCEPT ![m].status = Returned(m)]
      /\ GivesUp(h)
      /\ UNCHANGED <<event, acked, sold, token, used, receipts, links, faults>>

\* A store call fails: Stripe hung up and the context is cancelled, or the
\* database is busy.  The errors of the two releases are ignored, and so is
\* the outcome: the claim stays.
StoreFails(h) ==
  /\ handler[h].at \notin {"idle", "send"}
  /\ Fault
  /\ IF handler[h].at \in {"complete", "release"} THEN Ends(h) ELSE GivesUp(h)
  /\ UNCHANGED <<event, acked, sold, mail, token, used, receipts, links>>

-----------------------------------------------------------------------------
(* The customer, time and crashes.                                         *)

\* CompleteInvitationProfile: the mailed link is good if its token is the
\* one whose hash is stored, once.
ActivatesAccount ==
  /\ \E n \in 1..Len(links) : links[n] = token
  /\ ~used
  /\ used' = TRUE
  /\ UNCHANGED <<event, acked, sold, mail, token, receipts, links, handler, faults>>

WorksOnEvent(h, e) == handler[h].at # "idle" /\ handler[h].event = e

WorksOnMail(h, m) ==
  handler[h].at \in {"issue", "send", "mark", "giveBack"} /\ handler[h].mail = m

\* A lease is over: in time when nobody works under it, else by a fault.
LapsesUnless(busy) == IF busy THEN Fault ELSE UNCHANGED faults

EventLeaseEnds(e) ==
  /\ event[e].fresh
  /\ event' = [event EXCEPT ![e].fresh = FALSE]
  /\ LapsesUnless(\E h \in Handlers : WorksOnEvent(h, e))
  /\ UNCHANGED <<acked, sold, mail, token, used, receipts, links, handler>>

MailLeaseEnds(m) ==
  /\ mail[m].fresh
  /\ mail' = [mail EXCEPT ![m].fresh = FALSE]
  /\ LapsesUnless(\E h \in Handlers : WorksOnMail(h, m))
  /\ UNCHANGED <<event, acked, sold, token, used, receipts, links, handler>>

\* The process ends and starts again: its requests are gone.
Crash ==
  /\ Fault
  /\ handler' = [h \in Handlers |-> Idle]
  /\ UNCHANGED <<event, acked, sold, mail, token, used, receipts, links>>

-----------------------------------------------------------------------------

HandlerStep(h) ==
  \/ Fulfills(h) \/ ClaimsDelivery(h) \/ FindsInProgress(h)
  \/ IssuesToken(h) \/ IssueRefused(h) \/ Sends(h) \/ MarksSent(h)
  \/ GivesBack(h) \/ CompletesEvent(h) \/ ReleasesEvent(h)

Next ==
  \/ \E h \in Handlers :
       \/ \E e \in Events : TakesEvent(h, e)
       \/ OpensReturnPage(h)
       \/ HandlerStep(h)
       \/ SendFails(h)
       \/ StoreFails(h)
  \/ \E e \in Events : AnswersDuplicate(e) \/ EventLeaseEnds(e)
  \/ \E m \in Mails : MailLeaseEnds(m)
  \/ ActivatesAccount
  \/ Crash

Spec == Init /\ [][Next]_vars

\* Stripe sends an event again until it is acknowledged, handlers go on,
\* and time passes.
Fairness ==
  /\ \A e \in Events :
       /\ SF_vars(\E h \in Handlers : TakesEvent(h, e))
       /\ WF_vars(AnswersDuplicate(e))
       /\ WF_vars(EventLeaseEnds(e))
  /\ \A h \in Handlers : WF_vars(HandlerStep(h))
  /\ \A m \in Mails : WF_vars(MailLeaseEnds(m))

FairSpec == Spec /\ Fairness

-----------------------------------------------------------------------------
(* What it promises.                                                       *)

Delivered == sold /\ receipts > 0 /\ links # <<>>

\* Stripe is told that an event is handled only when the sale is recorded
\* and both mails are out: no failure, overlap with the return page, release
\* by another handler or duplicate makes it stop retrying too early.
AckedMeansDelivered == acked # {} => Delivered

\* The claims keep handlers from mailing twice: every mail too many is paid
\* for by a fault.
DuplicatesCostFaults == receipts <= 1 + faults /\ Len(links) <= 1 + faults

\* Sent stays sent: no late release makes a handler mail again, and an
\* event that is completed is not handled again.
StaysSent ==
  /\ \A m \in Mails : mail[m].status = "sent" => mail'[m].status = "sent"
  /\ \A e \in Events : event[e].status = "completed" => event'[e].status = "completed"

SentIsFinal == [][StaysSent]_vars

\* The customer used the link while its delivery was still noted as in
\* progress: no claim of it succeeds, and none is refused for good.
Wedged == used /\ mail["invitation"].status = "sending"

\* Every event is handled in the end, unless the invitation is wedged.
EventsAreHandled == \A e \in Events : <>(e \in acked \/ Wedged)

\* docs/stripe-test.md: refreshing the return page or receiving an event
\* again must not send a second confirmation or invitation.
OneOfEach == receipts <= 1 /\ Len(links) <= 1

\* The tests of internal/web take the link out of the invitation that was
\* mailed and activate the account with it: when the invitation is noted as
\* sent and no handler is at work on it, the last link mailed is good.
LastLinkIsGood ==
  (/\ mail["invitation"].status = "sent"
   /\ \A h \in Handlers : ~WorksOnMail(h, "invitation"))
    => used \/ links[Len(links)] = token

-----------------------------------------------------------------------------
(* The inductive invariant behind the safety properties.                   *)

\* A mail noted as sent was mailed, and so was a link that was used.
MailsOut ==
  /\ mail["receipt"].status = "sent" => receipts > 0
  /\ mail["invitation"].status = "sent" \/ used => links # <<>>

AtMail == {"claim", "issue", "send", "mark", "giveBack"}

\* A handler at work on a mail has the sale and the mails before it behind
\* it; one that skips the invitation found it sent; one that completes its
\* event has everything behind it.
HandlerInv(h) ==
  LET q == handler[h]
  IN  /\ q.at = "fulfill" => q.mail = "receipt"
      /\ q.at \in AtMail =>
           /\ sold
           /\ q.mail = "invitation" => mail["receipt"].status = "sent"
           /\ ~q.invite => mail["invitation"].status = "sent"
      /\ q.at = "mark" => IF q.mail = "receipt" THEN receipts > 0 ELSE links # <<>>
      /\ q.at \in {"complete", "release"} => q.event # NoEvent
      /\ q.at = "complete" => Delivered

DeliveryInv ==
  /\ DeliveryTypeOK
  /\ MailsOut
  /\ \A h \in Handlers : HandlerInv(h)
  /\ \A e \in Events : event[e].status = "completed" => Delivered
  /\ AckedMeansDelivered

-----------------------------------------------------------------------------
(* Behind DuplicatesCostFaults.                                            *)

Mailings(m) == IF m = "receipt" THEN receipts ELSE Len(links)

\* The handlers that hold a claim of m under which they have not mailed, or
\* that are about to give it back.
Owing(m) ==
  {h \in Handlers : handler[h].at \in {"issue", "send", "giveBack"} /\ handler[h].mail = m}

\* Another claim of m succeeds, now or, without a fault, in time.
Open(m) ==
  \/ mail[m].status = "pending"
  \/ /\ mail[m].status = "sending"
     /\ ~mail[m].fresh \/ ~\E h \in Handlers : WorksOnMail(h, m)

\* What was mailed, what may be mailed under the claims held, and a claim yet
\* to be made are at most one more than the faults so far.
WithinBudget(m) ==
  /\ IsFiniteSet(Owing(m))
  /\ Mailings(m) + Cardinality(Owing(m)) + (IF Open(m) THEN 1 ELSE 0) <= 1 + faults

BudgetInv == \A m \in Mails : WithinBudget(m)

=============================================================================
