-------------------------- MODULE Delivery_proofs --------------------------
(***************************************************************************)
(* Proofs about Delivery, for any number of handlers, events and faults.   *)
(* Each step is shown to keep what is behind a handler behind it (Grows),  *)
(* and to leave the handler that takes it with its own invariant.  The     *)
(* last part counts claims: a step mails no more than the claim it spends, *)
(* or a fault (BudgetInv).                                                 *)
(***************************************************************************)
EXTENDS Delivery, FiniteSetTheorems, TLAPS

\* What was sold or mailed stays so.
Grows ==
  /\ sold => sold'
  /\ receipts > 0 => receipts' > 0
  /\ links # <<>> => links' # <<>>
  /\ StaysSent

\* What a step owes for the invariant: types, growth, and the invariant of
\* whatever it changed.
StepOwes ==
  /\ DeliveryTypeOK'
  /\ Grows
  /\ MailsOut'
  /\ \A h \in Handlers : handler'[h] = handler[h] \/ HandlerInv(h)'
  /\ \A e \in Events :
       event'[e].status = "completed" => event[e].status = "completed" \/ Delivered
  /\ acked' # {} => acked # {} \/ Delivered

LEMMA OwedIsEnough ==
  ASSUME DeliveryInv, StepOwes
  PROVE  DeliveryInv' /\ StaysSent
<1>1. Delivered => Delivered'
  BY DEF StepOwes, Grows, Delivered
<1>2. ASSUME NEW h \in Handlers, handler'[h] = handler[h] PROVE HandlerInv(h)'
  <2>1. HandlerInv(h)
    BY DEF DeliveryInv
  <2>2. \A m \in Mails : mail[m].status = "sent" => mail'[m].status = "sent"
    BY DEF StepOwes, Grows, StaysSent
  <2>3. "receipt" \in Mails /\ "invitation" \in Mails
    BY DEF Mails
  <2> QED
    BY <1>1, <1>2, <2>1, <2>2, <2>3 DEF HandlerInv, StepOwes, Grows
<1>3. \A h \in Handlers : HandlerInv(h)'
  BY <1>2 DEF StepOwes
<1>4. \A e \in Events : event'[e].status = "completed" => Delivered'
  BY <1>1 DEF StepOwes, DeliveryInv
<1>5. AckedMeansDelivered'
  BY <1>1 DEF StepOwes, DeliveryInv, AckedMeansDelivered
<1> QED
  BY <1>3, <1>4, <1>5 DEF StepOwes, Grows, DeliveryInv

\* The parts of the type invariant that the proofs use.
LEMMA Types ==
  ASSUME DeliveryInv
  PROVE  /\ event \in [Events -> [status : {"processing", "failed", "completed"},
                                  fresh : BOOLEAN]]
         /\ acked \subseteq Events
         /\ sold \in BOOLEAN
         /\ mail \in [Mails -> [status : {"pending", "sending", "sent"}, fresh : BOOLEAN]]
         /\ token \in Nat
         /\ used \in BOOLEAN
         /\ receipts \in Nat
         /\ links \in Seq(Nat)
         /\ handler \in [Handlers -> Handler]
         /\ faults \in 0..MaxFaults
         /\ "receipt" \in Mails /\ "invitation" \in Mails
BY DEF DeliveryInv, DeliveryTypeOK, Mails

LEMMA FaultIsTyped == ASSUME DeliveryInv, Fault \/ UNCHANGED faults PROVE faults' \in 0..MaxFaults
BY Types, DeliveryAssumption DEF Fault

LEMMA IdleIsGood ==
  /\ Idle \in Handler
  /\ \A h \in Handlers : handler'[h] = Idle => HandlerInv(h)'
BY DEF Idle, Handler, Stages, Mails, NoToken, HandlerInv, AtMail

-----------------------------------------------------------------------------
(* How a handler moves on.                                                 *)

\* A step of handler h that leaves events, acknowledgements and mails alone
\* owes only the handler's own invariant.
LEMMA QuietMove ==
  ASSUME DeliveryInv, NEW h \in Handlers, NEW q \in Handler,
         handler' = [handler EXCEPT ![h] = q], HandlerInv(h)',
         Fault \/ UNCHANGED faults,
         UNCHANGED <<event, acked, sold, mail, token, used, receipts, links>>
  PROVE  StepOwes
<1>1. DeliveryTypeOK'
  BY Types, FaultIsTyped DEF DeliveryTypeOK
<1>2. Grows /\ MailsOut'
  BY DEF Grows, StaysSent, DeliveryInv, MailsOut
<1> QED
  BY <1>1, <1>2, Types DEF StepOwes

\* Giving up is right whatever the handler did before.
LEMMA GivingUp ==
  ASSUME DeliveryInv, NEW h \in Handlers, GivesUp(h)
  PROVE  /\ HandlerInv(h)'
         /\ \E q \in Handler : handler' = [handler EXCEPT ![h] = q]
<1>1. CASE handler[h].event = NoEvent
  BY <1>1, Types, IdleIsGood DEF GivesUp, Ends
<1>2. CASE handler[h].event # NoEvent
  <2> DEFINE q == [handler[h] EXCEPT !.at = "release"]
  <2>1. q \in Handler
    BY Types DEF Handler, Stages
  <2>2. handler' = [handler EXCEPT ![h] = q]
    BY <1>2, Types DEF GivesUp, Goes
  <2>3. HandlerInv(h)'
    BY <1>2, <2>1, <2>2, Types DEF HandlerInv, AtMail, Handler
  <2> QED
    BY <2>1, <2>2, <2>3
<1> QED
  BY <1>1, <1>2

\* A handler is done only when everything is delivered.
LEMMA BeingDone ==
  ASSUME DeliveryInv, NEW h \in Handlers, Done(h), Delivered'
  PROVE  /\ HandlerInv(h)'
         /\ \E q \in Handler : handler' = [handler EXCEPT ![h] = q]
<1>1. CASE handler[h].event = NoEvent
  BY <1>1, Types, IdleIsGood DEF Done, Ends
<1>2. CASE handler[h].event # NoEvent
  <2> DEFINE q == [handler[h] EXCEPT !.at = "complete"]
  <2>1. q \in Handler
    BY Types DEF Handler, Stages
  <2>2. handler' = [handler EXCEPT ![h] = q]
    BY <1>2, Types DEF Done, Goes
  <2>3. HandlerInv(h)'
    BY <1>2, <2>1, <2>2, Types DEF HandlerInv, AtMail, Handler
  <2> QED
    BY <2>1, <2>2, <2>3
<1> QED
  BY <1>1, <1>2

\* After a mail, with that mail sent (or of no more use): the invitation is
\* next, or everything is delivered.
LEMMA MovingOn ==
  ASSUME DeliveryInv, NEW h \in Handlers, handler[h].at \in AtMail, NextMail(h),
         Grows, MailsOut',
         IF handler[h].mail = "receipt" THEN mail'["receipt"].status = "sent"
         ELSE mail'["invitation"].status = "sent" \/ used'
  PROVE  /\ HandlerInv(h)'
         /\ \E q \in Handler : handler' = [handler EXCEPT ![h] = q]
<1>1. HandlerInv(h) /\ sold'
  BY DEF DeliveryInv, HandlerInv, Grows
<1>2. CASE handler[h].mail = "receipt" /\ handler[h].invite
  <2> DEFINE p == [handler[h] EXCEPT !.at = "claim"]
             q == [p EXCEPT !.mail = "invitation"]
  <2>a. p \in Handler
    BY Types DEF Handler, Stages
  <2>1. q \in Handler
    BY <2>a DEF Handler, Mails
  <2>2. handler' = [handler EXCEPT ![h] = q]
    BY <1>2, Types DEF NextMail
  <2>3. HandlerInv(h)'
    BY <1>1, <1>2, <2>1, <2>2, Types DEF HandlerInv, AtMail, Handler
  <2> QED
    BY <2>1, <2>2, <2>3
<1>3. CASE ~(handler[h].mail = "receipt" /\ handler[h].invite)
  <2>1. mail'["receipt"].status = "sent"
    BY <1>1, Types DEF HandlerInv, Grows, StaysSent, Handler, Mails
  <2>2. mail'["invitation"].status = "sent" \/ used'
    BY <1>1, <1>3, Types DEF HandlerInv, Grows, StaysSent, Handler, Mails
  <2>3. Delivered'
    BY <1>1, <2>1, <2>2 DEF MailsOut, Delivered
  <2> QED
    BY <1>3, <2>3, BeingDone DEF NextMail
<1> QED
  BY <1>2, <1>3

-----------------------------------------------------------------------------
(* One lemma per group of actions.                                         *)

\* The conjuncts of StepOwes for an action of handler h that changes mails.
LEMMA MailMove ==
  ASSUME DeliveryInv, NEW h \in Handlers,
         \E q \in Handler : handler' = [handler EXCEPT ![h] = q], HandlerInv(h)',
         mail' \in [Mails -> [status : {"pending", "sending", "sent"}, fresh : BOOLEAN]],
         \A m \in Mails : mail[m].status = "sent" => mail'[m].status = "sent",
         MailsOut', receipts' \in Nat, links' \in Seq(Nat),
         receipts > 0 => receipts' > 0, links # <<>> => links' # <<>>,
         Fault \/ UNCHANGED faults,
         UNCHANGED <<event, acked, sold, token, used>>
  PROVE  StepOwes
<1>1. DeliveryTypeOK'
  BY Types, FaultIsTyped DEF DeliveryTypeOK
<1>2. Grows
  BY DEF Grows, StaysSent
<1> QED
  BY <1>1, <1>2, Types DEF StepOwes

LEMMA EventStepsOwe ==
  ASSUME DeliveryInv, NEW h \in Handlers
  PROVE  /\ (\E e \in Events : TakesEvent(h, e)) => StepOwes
         /\ OpensReturnPage(h) => StepOwes
         /\ CompletesEvent(h) => StepOwes
         /\ ReleasesEvent(h) => StepOwes
<1> DEFINE me == handler[h]
<1>1. me \in Handler /\ HandlerInv(h)
  BY Types DEF DeliveryInv
<1>2. ASSUME NEW e \in Events, TakesEvent(h, e) PROVE StepOwes
  <2> DEFINE p == [Idle EXCEPT !.at = "fulfill"]
             q == [p EXCEPT !.event = e]
  <2>1. p \in Handler /\ p.at = "fulfill"
    BY IdleIsGood DEF Handler, Stages
  <2>2. q \in Handler /\ q.at = "fulfill"
    BY <2>1 DEF Handler
  <2>3. handler' = [handler EXCEPT ![h] = q] /\ handler'[h] = q
    BY <1>2, Types DEF TakesEvent
  <2>4. HandlerInv(h)'
    BY <2>2, <2>3 DEF HandlerInv, AtMail, Idle
  <2>5. /\ event' = [event EXCEPT ![e] = [status |-> "processing", fresh |-> TRUE]]
        /\ event[e].status # "completed"
        /\ UNCHANGED <<acked, sold, mail, token, used, receipts, links, faults>>
    BY <1>2 DEF TakesEvent, ClaimableEvent
  <2>6. DeliveryTypeOK'
    BY <2>2, <2>3, <2>5, Types DEF DeliveryTypeOK
  <2>7. Grows /\ MailsOut'
    BY <2>5, Types DEF Grows, StaysSent, DeliveryInv, MailsOut
  <2> QED
    BY <2>3, <2>4, <2>5, <2>6, <2>7, Types DEF StepOwes
<1>3. CASE OpensReturnPage(h)
  <2> DEFINE q == [Idle EXCEPT !.at = "fulfill"]
  <2>1. q \in Handler /\ q.at = "fulfill"
    BY IdleIsGood DEF Handler, Stages
  <2>2. handler' = [handler EXCEPT ![h] = q] /\ handler'[h] = q
    BY <1>3, Types DEF OpensReturnPage
  <2>3. HandlerInv(h)'
    BY <2>1, <2>2 DEF HandlerInv, AtMail, Idle
  <2> QED
    BY <1>3, <2>1, <2>2, <2>3, QuietMove DEF OpensReturnPage
<1>4. CASE CompletesEvent(h)
  <2>1. me.event \in Events /\ Delivered
    BY <1>1, <1>4 DEF CompletesEvent, At, HandlerInv, Handler
  <2>2. /\ handler' = [handler EXCEPT ![h] = Idle]
        /\ \/ UNCHANGED <<event, acked>>
           \/ /\ event' = [event EXCEPT ![me.event].status = "completed"]
              /\ acked' = acked \cup {me.event}
        /\ UNCHANGED <<sold, mail, token, used, receipts, links, faults>>
    BY <1>4 DEF CompletesEvent, Ends
  <2>a. HandlerInv(h)' /\ handler' \in [Handlers -> Handler]
    BY <2>2, IdleIsGood, Types
  <2>b. event' \in [Events -> [status : {"processing", "failed", "completed"},
                              fresh : BOOLEAN]]
    <3>1. event[me.event] \in [status : {"processing", "failed", "completed"},
                               fresh : BOOLEAN]
      BY <2>1, Types
    <3>2. [event[me.event] EXCEPT !.status = "completed"]
            \in [status : {"processing", "failed", "completed"}, fresh : BOOLEAN]
      BY <3>1
    <3> QED
      BY <2>1, <2>2, <3>2, Types
  <2>c. acked' \subseteq Events
    BY <2>1, <2>2, Types
  <2>3. DeliveryTypeOK'
    BY <2>2, <2>a, <2>b, <2>c, Types DEF DeliveryTypeOK
  <2>4. Grows /\ MailsOut'
    BY <2>1, <2>2, Types DEF Grows, StaysSent, DeliveryInv, MailsOut
  <2> QED
    BY <2>1, <2>2, <2>a, <2>3, <2>4, Types DEF StepOwes
<1>5. CASE ReleasesEvent(h)
  <2>1. me.event \in Events
    BY <1>1, <1>5 DEF ReleasesEvent, At, HandlerInv, Handler
  <2>2. /\ handler' = [handler EXCEPT ![h] = Idle]
        /\ event' = [event EXCEPT ![me.event].status = IF @ = "processing" THEN "failed" ELSE @]
        /\ UNCHANGED <<acked, sold, mail, token, used, receipts, links, faults>>
    BY <1>5 DEF ReleasesEvent, Ends
  <2>3. HandlerInv(h)' /\ DeliveryTypeOK'
    BY <2>1, <2>2, IdleIsGood, Types DEF DeliveryTypeOK
  <2>4. Grows /\ MailsOut'
    BY <2>1, <2>2, Types DEF Grows, StaysSent, DeliveryInv, MailsOut
  <2> QED
    BY <2>1, <2>2, <2>3, <2>4, Types DEF StepOwes
<1> QED
  BY <1>2, <1>3, <1>4, <1>5

LEMMA FulfillOwes ==
  ASSUME DeliveryInv, NEW h \in Handlers, Fulfills(h)
  PROVE  StepOwes
<1> DEFINE p == [handler[h] EXCEPT !.at = "claim"]
           i == mail["invitation"].status # "sent"
           q == [p EXCEPT !.invite = i]
           n == IF sold THEN NoToken ELSE 1
           z == [q EXCEPT !.token = n]
<1>1. p \in Handler /\ p.at = "claim" /\ p.mail = handler[h].mail
  BY Types DEF Handler, Stages
<1>2. q \in Handler /\ q.at = "claim" /\ q.mail = handler[h].mail /\ q.invite = i
  BY <1>1 DEF Handler
<1>3. n \in Nat
  BY DEF NoToken
<1>4. z \in Handler /\ z.at = "claim" /\ z.mail = handler[h].mail /\ z.invite = i
  BY <1>2, <1>3 DEF Handler
<1>5. handler' = [handler EXCEPT ![h] = z] /\ handler'[h] = z
  BY Types DEF Fulfills
<1>6. /\ sold' = TRUE /\ token' \in Nat
      /\ UNCHANGED <<event, acked, mail, used, receipts, links, faults>>
  BY Types DEF Fulfills
<1>7. handler[h].mail = "receipt"
  BY DEF Fulfills, At, DeliveryInv, HandlerInv
<1>8. HandlerInv(h)'
  BY <1>4, <1>5, <1>6, <1>7 DEF HandlerInv, AtMail
<1>9. DeliveryTypeOK'
  BY <1>4, <1>5, <1>6, Types DEF DeliveryTypeOK
<1>10. Grows /\ MailsOut'
  BY <1>6 DEF Grows, StaysSent, DeliveryInv, MailsOut
<1> QED
  BY <1>5, <1>6, <1>8, <1>9, <1>10, Types DEF StepOwes

LEMMA ClaimStepsOwe ==
  ASSUME DeliveryInv, NEW h \in Handlers
  PROVE  /\ ClaimsDelivery(h) => StepOwes
         /\ FindsInProgress(h) => StepOwes
         /\ IssuesToken(h) => StepOwes
         /\ IssueRefused(h) => StepOwes
         /\ StoreFails(h) => StepOwes
<1> DEFINE me == handler[h]
           m == me.mail
<1>1. me \in Handler /\ HandlerInv(h) /\ m \in Mails
  BY Types DEF DeliveryInv, Handler
<1>2. CASE ClaimsDelivery(h)
  <2> DEFINE stage == IF m = "invitation" /\ me.token = NoToken THEN "issue" ELSE "send"
             q == [me EXCEPT !.at = stage]
  <2>1. q \in Handler /\ q.at = stage /\ q.mail = m /\ q.invite = me.invite
    BY <1>1 DEF Handler, Stages
  <2>2. handler' = [handler EXCEPT ![h] = q] /\ handler'[h] = q
    BY <1>2, Types DEF ClaimsDelivery, Goes
  <2>3. /\ me.at = "claim" /\ mail[m].status # "sent"
        /\ mail' = [mail EXCEPT ![m] = [status |-> "sending", fresh |-> TRUE]]
        /\ UNCHANGED <<event, acked, sold, token, used, receipts, links, faults>>
    BY <1>2 DEF ClaimsDelivery, At, Claimable
  <2>4. /\ mail' \in [Mails -> [status : {"pending", "sending", "sent"}, fresh : BOOLEAN]]
        /\ \A k \in Mails : mail[k].status = "sent" <=> mail'[k].status = "sent"
    BY <1>1, <2>3, Types
  <2>5. HandlerInv(h)'
    BY <1>1, <2>1, <2>2, <2>3, <2>4, Types DEF HandlerInv, AtMail
  <2>6. MailsOut'
    BY <2>3, <2>4, Types DEF DeliveryInv, MailsOut
  <2> QED
    BY <2>1, <2>2, <2>3, <2>4, <2>5, <2>6, MailMove, Types
<1>3. CASE FindsInProgress(h)
  <2>1. /\ me.at = "claim" /\ ~Claimable(m)
        /\ UNCHANGED <<event, acked, sold, mail, token, used, receipts, links, faults>>
    BY <1>3 DEF FindsInProgress, At
  <2>2. CASE mail[m].status = "sending"
    BY <1>3, <2>1, <2>2, GivingUp, QuietMove DEF FindsInProgress
  <2>3. CASE mail[m].status # "sending"
    <3>1. NextMail(h)
      BY <1>3, <2>3 DEF FindsInProgress
    <3>2. mail[m].status = "sent" \/ (m = "invitation" /\ used)
      BY <1>1, <2>1, <2>3, Types DEF Claimable
    <3>3. Grows /\ MailsOut'
      BY <2>1 DEF Grows, StaysSent, DeliveryInv, MailsOut
    <3>4. /\ HandlerInv(h)'
          /\ \E q \in Handler : handler' = [handler EXCEPT ![h] = q]
      BY <1>1, <2>1, <3>1, <3>2, <3>3, MovingOn DEF AtMail, Mails
    <3> QED
      BY <2>1, <3>4, QuietMove
  <2> QED
    BY <2>2, <2>3
<1>4. CASE IssuesToken(h)
  <2> DEFINE n == token + 1
             p == [me EXCEPT !.at = "send"]
             q == [p EXCEPT !.token = n]
  <2>1. p \in Handler /\ p.at = "send" /\ p.mail = m /\ p.invite = me.invite
    BY <1>1 DEF Handler, Stages
  <2>2. n \in Nat
    BY Types
  <2>3. q \in Handler /\ q.at = "send" /\ q.mail = m /\ q.invite = me.invite
    BY <2>1, <2>2 DEF Handler
  <2>4. handler' = [handler EXCEPT ![h] = q] /\ handler'[h] = q
    BY <1>4, Types DEF IssuesToken
  <2>5. /\ me.at = "issue" /\ token' = n
        /\ UNCHANGED <<event, acked, sold, mail, used, receipts, links, faults>>
    BY <1>4 DEF IssuesToken, At
  <2>6. HandlerInv(h)'
    BY <1>1, <2>3, <2>4, <2>5 DEF HandlerInv, AtMail
  <2>7. DeliveryTypeOK'
    BY <2>2, <2>3, <2>4, <2>5, Types DEF DeliveryTypeOK
  <2>8. Grows /\ MailsOut'
    BY <2>5 DEF Grows, StaysSent, DeliveryInv, MailsOut
  <2> QED
    BY <2>4, <2>5, <2>6, <2>7, <2>8, Types DEF StepOwes
<1>5. CASE IssueRefused(h)
  BY <1>5, GivingUp, QuietMove DEF IssueRefused
<1>6. CASE StoreFails(h)
  <2>1. /\ Fault
        /\ UNCHANGED <<event, acked, sold, mail, token, used, receipts, links>>
        /\ handler' = [handler EXCEPT ![h] = Idle] \/ GivesUp(h)
    BY <1>6 DEF StoreFails, Ends
  <2>2. /\ HandlerInv(h)'
        /\ \E q \in Handler : handler' = [handler EXCEPT ![h] = q]
    BY <2>1, GivingUp, IdleIsGood, Types
  <2> QED
    BY <2>1, <2>2, QuietMove
<1> QED
  BY <1>2, <1>3, <1>4, <1>5, <1>6

LEMMA MailedIsOut ==
  ASSUME DeliveryInv, NEW h \in Handlers, Mailed(h)
  PROVE  /\ receipts' \in Nat /\ links' \in Seq(Nat)
         /\ receipts > 0 => receipts' > 0
         /\ links # <<>> => links' # <<>>
         /\ IF handler[h].mail = "receipt" THEN receipts' > 0 ELSE links' # <<>>
<1>1. handler[h] \in Handler /\ handler[h].token \in Nat
  BY Types DEF Handler
<1>2. CASE handler[h].mail = "receipt"
  BY <1>2, Types DEF Mailed
<1>3. CASE handler[h].mail # "receipt"
  <2>1. links' = Append(links, handler[h].token) /\ receipts' = receipts
    BY <1>3 DEF Mailed
  <2>2. links' \in Seq(Nat) /\ Len(links') = Len(links) + 1 /\ Len(links) \in Nat
    BY <1>1, <2>1, Types
  <2>3. links' # <<>>
    BY <2>2
  <2> QED
    BY <1>3, <2>1, <2>2, <2>3, Types
<1> QED
  BY <1>2, <1>3

LEMMA SendStepsOwe ==
  ASSUME DeliveryInv, NEW h \in Handlers
  PROVE  /\ Sends(h) => StepOwes
         /\ SendFails(h) => StepOwes
<1> DEFINE me == handler[h]
<1>1. me \in Handler /\ HandlerInv(h) /\ me.mail \in Mails
  BY Types DEF DeliveryInv, Handler
<1>2. ASSUME NEW stage \in {"mark", "giveBack"}, me.at = "send", Goes(h, stage),
             Mailed(h) \/ (stage = "giveBack" /\ UNCHANGED <<receipts, links>>),
             Fault \/ UNCHANGED faults,
             UNCHANGED <<event, acked, sold, mail, token, used>>
      PROVE  StepOwes
  <2> DEFINE q == [me EXCEPT !.at = stage]
  <2>1. q \in Handler /\ q.at = stage /\ q.mail = me.mail /\ q.invite = me.invite
    BY <1>1 DEF Handler, Stages
  <2>2. handler' = [handler EXCEPT ![h] = q] /\ handler'[h] = q
    BY <1>2, Types DEF Goes
  <2>3. /\ receipts' \in Nat /\ links' \in Seq(Nat)
        /\ receipts > 0 => receipts' > 0
        /\ links # <<>> => links' # <<>>
    BY <1>2, MailedIsOut, Types
  <2>4. stage = "mark" => IF me.mail = "receipt" THEN receipts' > 0 ELSE links' # <<>>
    BY <1>2, MailedIsOut
  <2>5. HandlerInv(h)'
    BY <1>1, <1>2, <2>1, <2>2, <2>4 DEF HandlerInv, AtMail
  <2>6. MailsOut'
    BY <1>2, <2>3 DEF DeliveryInv, MailsOut
  <2> QED
    BY <1>2, <2>1, <2>2, <2>3, <2>5, <2>6, MailMove, Types
<1>3. ASSUME Sends(h) PROVE StepOwes
  <2>1. /\ me.at = "send" /\ Goes(h, "mark") /\ Mailed(h)
        /\ UNCHANGED <<event, acked, sold, mail, token, used, faults>>
    BY <1>3 DEF Sends, At
  <2> QED
    BY <1>2, <2>1
<1>4. ASSUME SendFails(h) PROVE StepOwes
  <2>1. /\ me.at = "send" /\ Goes(h, "giveBack")
        /\ Mailed(h) \/ UNCHANGED <<receipts, links>>
        /\ Fault
        /\ UNCHANGED <<event, acked, sold, mail, token, used>>
    BY <1>4 DEF SendFails, At
  <2> QED
    BY <1>2, <2>1
<1> QED
  BY <1>3, <1>4

LEMMA NoteStepsOwe ==
  ASSUME DeliveryInv, NEW h \in Handlers
  PROVE  /\ MarksSent(h) => StepOwes
         /\ GivesBack(h) => StepOwes
<1> DEFINE me == handler[h]
           m == me.mail
<1>1. me \in Handler /\ HandlerInv(h) /\ m \in Mails /\ mail[m].status \in {"pending", "sending", "sent"}
  BY Types DEF DeliveryInv, Handler
\* Writing the status of a delivery, unless it takes back a sent one.
<1>2. ASSUME NEW status \in {"pending", "sending", "sent"},
             mail' = [mail EXCEPT ![m].status = status],
             mail[m].status = "sent" => status = "sent"
      PROVE  /\ mail' \in [Mails -> [status : {"pending", "sending", "sent"}, fresh : BOOLEAN]]
             /\ \A k \in Mails : mail[k].status = "sent" => mail'[k].status = "sent"
             /\ mail'[m].status = status
             /\ \A k \in Mails \ {m} : mail'[k] = mail[k]
  <2> DEFINE row == [mail[m] EXCEPT !.status = status]
  <2>1. row \in [status : {"pending", "sending", "sent"}, fresh : BOOLEAN] /\ row.status = status
    BY <1>1, <1>2, Types
  <2>2. mail' = [mail EXCEPT ![m] = row]
    BY <1>2
  <2> QED
    BY <1>1, <1>2, <2>1, <2>2, Types
<1>3. CASE MarksSent(h)
  <2>1. /\ me.at = "mark" /\ NextMail(h)
        /\ mail' = [mail EXCEPT ![m].status = "sent"]
        /\ UNCHANGED <<event, acked, sold, token, used, receipts, links, faults>>
    BY <1>3 DEF MarksSent, At
  <2>2. IF m = "receipt" THEN receipts > 0 ELSE links # <<>>
    BY <1>1, <2>1 DEF HandlerInv
  <2>3. MailsOut'
    BY <1>1, <1>2, <2>1, <2>2, Types DEF DeliveryInv, MailsOut, Mails
  <2>4. Grows
    BY <1>2, <2>1 DEF Grows, StaysSent
  <2>5. IF m = "receipt" THEN mail'["receipt"].status = "sent"
        ELSE mail'["invitation"].status = "sent" \/ used'
    BY <1>1, <1>2, <2>1 DEF Mails
  <2>6. me.at \in AtMail
    BY <2>1 DEF AtMail
  <2>7. /\ HandlerInv(h)'
        /\ \E q \in Handler : handler' = [handler EXCEPT ![h] = q]
    BY <2>1, <2>3, <2>4, <2>5, <2>6, MovingOn
  <2> QED
    BY <1>2, <2>1, <2>3, <2>7, MailMove, Types
<1>4. CASE GivesBack(h)
  <2>1. /\ GivesUp(h)
        /\ mail' = [mail EXCEPT ![m].status = Returned(m)]
        /\ UNCHANGED <<event, acked, sold, token, used, receipts, links, faults>>
    BY <1>4 DEF GivesBack
  <2>2. Returned(m) \in {"pending", "sending", "sent"} /\ (mail[m].status = "sent" <=> Returned(m) = "sent")
    BY <1>1 DEF Returned
  <2>3. MailsOut'
    BY <1>1, <1>2, <2>1, <2>2, Types DEF DeliveryInv, MailsOut, Mails
  <2>4. /\ HandlerInv(h)'
        /\ \E q \in Handler : handler' = [handler EXCEPT ![h] = q]
    BY <2>1, GivingUp
  <2> QED
    BY <1>2, <2>1, <2>2, <2>3, <2>4, MailMove, Types
<1> QED
  BY <1>3, <1>4

\* Stripe, the customer, time and crashes.
LEMMA WorldStepsOwe ==
  ASSUME DeliveryInv
  PROVE  /\ (\E e \in Events : AnswersDuplicate(e) \/ EventLeaseEnds(e)) => StepOwes
         /\ (\E m \in Mails : MailLeaseEnds(m)) => StepOwes
         /\ ActivatesAccount => StepOwes
         /\ Crash => StepOwes
         /\ UNCHANGED vars => StepOwes
<1>1. ASSUME NEW e \in Events, AnswersDuplicate(e) PROVE StepOwes
  <2>1. /\ Delivered /\ acked' = acked \cup {e}
        /\ UNCHANGED <<event, sold, mail, token, used, receipts, links, handler, faults>>
    BY <1>1 DEF AnswersDuplicate, Known, DeliveryInv
  <2>2. DeliveryTypeOK'
    BY <2>1, Types DEF DeliveryTypeOK
  <2> QED
    BY <2>1, <2>2 DEF StepOwes, Grows, StaysSent, DeliveryInv, MailsOut
<1>2. ASSUME NEW e \in Events, EventLeaseEnds(e) PROVE StepOwes
  <2>1. /\ event' = [event EXCEPT ![e].fresh = FALSE]
        /\ Fault \/ UNCHANGED faults
        /\ UNCHANGED <<acked, sold, mail, token, used, receipts, links, handler>>
    BY <1>2 DEF EventLeaseEnds, LapsesUnless
  <2>2. DeliveryTypeOK'
    BY <2>1, FaultIsTyped, Types DEF DeliveryTypeOK
  <2>3. \A d \in Events : event'[d].status = event[d].status
    BY <2>1, Types
  <2> QED
    BY <2>1, <2>2, <2>3 DEF StepOwes, Grows, StaysSent, DeliveryInv, MailsOut
<1>3. ASSUME NEW m \in Mails, MailLeaseEnds(m) PROVE StepOwes
  <2>1. /\ mail' = [mail EXCEPT ![m].fresh = FALSE]
        /\ Fault \/ UNCHANGED faults
        /\ UNCHANGED <<event, acked, sold, token, used, receipts, links, handler>>
    BY <1>3 DEF MailLeaseEnds, LapsesUnless
  <2>2. DeliveryTypeOK'
    BY <2>1, FaultIsTyped, Types DEF DeliveryTypeOK
  <2>3. \A k \in Mails : mail'[k].status = mail[k].status
    BY <2>1, Types
  <2>4. MailsOut'
    BY <2>1, <2>3, Types DEF DeliveryInv, MailsOut
  <2> QED
    BY <2>1, <2>2, <2>3, <2>4 DEF StepOwes, Grows, StaysSent
<1>4. CASE ActivatesAccount
  <2>1. /\ used' = TRUE
        /\ \E n \in 1..Len(links) : links[n] = token
        /\ UNCHANGED <<event, acked, sold, mail, token, receipts, links, handler, faults>>
    BY <1>4 DEF ActivatesAccount
  <2>2. links # <<>>
    BY <2>1
  <2>3. DeliveryTypeOK'
    BY <2>1, Types DEF DeliveryTypeOK
  <2> QED
    BY <2>1, <2>2, <2>3 DEF StepOwes, Grows, StaysSent, DeliveryInv, MailsOut
<1>5. CASE Crash
  <2>1. /\ Fault /\ handler' = [h \in Handlers |-> Idle]
        /\ UNCHANGED <<event, acked, sold, mail, token, used, receipts, links>>
    BY <1>5 DEF Crash
  <2>2. \A h \in Handlers : HandlerInv(h)'
    BY <2>1, IdleIsGood
  <2>3. DeliveryTypeOK'
    BY <2>1, FaultIsTyped, IdleIsGood, Types DEF DeliveryTypeOK
  <2> QED
    BY <2>1, <2>2, <2>3 DEF StepOwes, Grows, StaysSent, DeliveryInv, MailsOut
<1>6. CASE UNCHANGED vars
  <2>1. DeliveryTypeOK'
    BY <1>6, Types DEF vars, DeliveryTypeOK
  <2> QED
    BY <1>6, <2>1 DEF vars, StepOwes, Grows, StaysSent, DeliveryInv, MailsOut
<1> QED
  BY <1>1, <1>2, <1>3, <1>4, <1>5, <1>6

-----------------------------------------------------------------------------

LEMMA InitDeliveryInv == Init => DeliveryInv
<1> SUFFICES ASSUME Init PROVE DeliveryInv
  OBVIOUS
<1>1. DeliveryTypeOK
  <2>1. links \in Seq(Nat) /\ handler \in [Handlers -> Handler]
    BY IdleIsGood DEF Init
  <2>2. /\ event \in [Events -> [status : {"processing", "failed", "completed"},
                                fresh : BOOLEAN]]
        /\ mail \in [Mails -> [status : {"pending", "sending", "sent"}, fresh : BOOLEAN]]
    BY DEF Init
  <2>3. faults \in 0..MaxFaults
    BY DeliveryAssumption DEF Init
  <2>4. /\ acked \subseteq Events
        /\ sold \in BOOLEAN /\ used \in BOOLEAN
        /\ token \in Nat /\ receipts \in Nat
    BY DEF Init, NoToken
  <2> QED
    BY <2>1, <2>2, <2>3, <2>4 DEF DeliveryTypeOK
<1>2. \A h \in Handlers : HandlerInv(h)
  BY DEF Init, HandlerInv, Idle, AtMail
<1>3. MailsOut
  BY DEF Init, MailsOut, Mails
<1> QED
  BY <1>1, <1>2, <1>3 DEF Init, DeliveryInv, AckedMeansDelivered

LEMMA NextKeepsDeliveryInv == DeliveryInv /\ [Next]_vars => DeliveryInv' /\ StaysSent
<1> SUFFICES ASSUME DeliveryInv, [Next]_vars PROVE StepOwes
  BY OwedIsEnough
<1>1. ASSUME NEW h \in Handlers, HandlerStep(h) PROVE StepOwes
  BY <1>1, FulfillOwes, ClaimStepsOwe, SendStepsOwe, NoteStepsOwe, EventStepsOwe
  DEF HandlerStep
<1>2. ASSUME NEW h \in Handlers,
             (\E e \in Events : TakesEvent(h, e)) \/ OpensReturnPage(h)
               \/ SendFails(h) \/ StoreFails(h)
      PROVE  StepOwes
  BY <1>2, EventStepsOwe, SendStepsOwe, ClaimStepsOwe
<1> QED
  BY <1>1, <1>2, WorldStepsOwe DEF Next

\* The invariant of handlers, claims and mails, for any number of them.
THEOREM DeliveryInvariant == Spec => []DeliveryInv
BY InitDeliveryInv, NextKeepsDeliveryInv, PTL DEF Spec

\* Columns, claims and handlers keep their types: no release or note writes a
\* status the delivery columns do not have.
THEOREM DeliveryTypes == Spec => []DeliveryTypeOK
<1>1. DeliveryInv => DeliveryTypeOK
  BY DEF DeliveryInv
<1> QED
  BY <1>1, DeliveryInvariant, PTL

\* However handlers overlap, fail and crash, Stripe is answered with success
\* only when the sale is recorded and the receipt and the invitation are out.
THEOREM AcknowledgedIsDelivered == Spec => []AckedMeansDelivered
<1>1. DeliveryInv => AckedMeansDelivered
  BY DEF DeliveryInv
<1> QED
  BY <1>1, DeliveryInvariant, PTL

\* What is noted as sent or completed stays so, whoever releases late.
THEOREM SentStaysSent == Spec => SentIsFinal
BY DeliveryInvariant, NextKeepsDeliveryInv, PTL DEF Spec, SentIsFinal

-----------------------------------------------------------------------------
(* Mailing twice costs a fault: every claim is accounted for.              *)

Owes(q, m) == q.at \in {"issue", "send", "giveBack"} /\ q.mail = m

Works(q, m) == q.at \in {"issue", "send", "mark", "giveBack"} /\ q.mail = m

Cost(q, m) == IF Owes(q, m) THEN 1 ELSE 0

OpenCost(m) == IF Open(m) THEN 1 ELSE 0

LEMMA MailingsAreCounted ==
  ASSUME links \in Seq(Nat), receipts \in Nat
  PROVE  \A m \in Mails : Mailings(m) \in Nat
BY DEF Mailings

\* How the handlers that owe a mail change when handler h goes on to q.
LEMMA OwingMoves ==
  ASSUME DeliveryInv, NEW m \in Mails, IsFiniteSet(Owing(m)),
         NEW h \in Handlers, NEW q, handler' = [handler EXCEPT ![h] = q]
  PROVE  /\ IsFiniteSet(Owing(m)')
         /\ Cardinality(Owing(m)) \in Nat /\ Cardinality(Owing(m)') \in Nat
         /\ Cardinality(Owing(m)') + Cost(handler[h], m) = Cardinality(Owing(m)) + Cost(q, m)
<1>1. /\ handler'[h] = q
      /\ \A k \in Handlers \ {h} : handler'[k] = handler[k]
  BY Types
<1>2. Cardinality(Owing(m)) \in Nat
  BY FS_CardinalityType
<1>3. h \in Owing(m) <=> Owes(handler[h], m)
  BY DEF Owing, Owes
<1>4. CASE Owes(q, m)
  <2>1. Owing(m)' = Owing(m) \cup {h}
    BY <1>1, <1>4 DEF Owing, Owes
  <2>2. /\ IsFiniteSet(Owing(m)')
        /\ Cardinality(Owing(m)') = IF h \in Owing(m) THEN Cardinality(Owing(m))
                                    ELSE Cardinality(Owing(m)) + 1
    BY <2>1, FS_AddElement
  <2> QED
    BY <1>2, <1>3, <1>4, <2>2 DEF Cost
<1>5. CASE ~Owes(q, m)
  <2>1. Owing(m)' = Owing(m) \ {h}
    BY <1>1, <1>5 DEF Owing, Owes
  <2>2. /\ IsFiniteSet(Owing(m)')
        /\ Cardinality(Owing(m)') = IF h \in Owing(m) THEN Cardinality(Owing(m)) - 1
                                    ELSE Cardinality(Owing(m))
    BY <2>1, FS_RemoveElement
  <2>3. Cardinality(Owing(m)') \in Nat
    BY <2>2, FS_CardinalityType
  <2> QED
    BY <1>2, <1>3, <1>5, <2>2, <2>3 DEF Cost
<1> QED
  BY <1>4, <1>5

\* What is left to show of a step of handler h: it spends no more than it
\* had, or a fault.
LEMMA HandlerSpends ==
  ASSUME DeliveryInv, NEW m \in Mails, WithinBudget(m),
         NEW h \in Handlers, NEW q, handler' = [handler EXCEPT ![h] = q],
         links' \in Seq(Nat), receipts' \in Nat,
         NEW spent \in {0, 1}, faults' = faults + spent,
         Mailings(m)' + Cost(q, m) + OpenCost(m)'
           <= Mailings(m) + Cost(handler[h], m) + OpenCost(m) + spent
  PROVE  WithinBudget(m)'
<1> DEFINE n == Cardinality(Owing(m))
           k == Cardinality(Owing(m)')
           a == Cost(handler[h], m)
           c == Cost(q, m)
<1>1. /\ IsFiniteSet(Owing(m)') /\ n \in Nat /\ k \in Nat
      /\ k + a = n + c
  BY OwingMoves DEF WithinBudget
<1>2. Mailings(m) \in Nat /\ Mailings(m)' \in Nat /\ faults \in Nat
  BY Types, MailingsAreCounted DEF Mailings
<1>3. /\ a \in {0, 1} /\ c \in {0, 1}
      /\ OpenCost(m) \in {0, 1} /\ OpenCost(m)' \in {0, 1}
  BY DEF Cost, OpenCost
<1>4. Mailings(m) + n + OpenCost(m) <= 1 + faults
  BY DEF WithinBudget, OpenCost
<1>5. Mailings(m)' + c + OpenCost(m)' <= Mailings(m) + a + OpenCost(m) + spent
  OBVIOUS
<1> HIDE DEF n, k, a, c
<1>6. ASSUME NEW M \in Nat, NEW N \in Nat, NEW o \in {0, 1}, NEW p \in {0, 1},
             N + c + p <= M + a + o + spent, M + n + o <= 1 + faults
      PROVE  N + k + p <= 1 + (faults + spent)
  BY <1>1, <1>2, <1>3, <1>6
<1>7. Mailings(m)' + k + OpenCost(m)' <= 1 + faults'
  BY <1>2, <1>3, <1>4, <1>5, <1>6
<1> QED
  BY <1>1, <1>7 DEF k, WithinBudget, OpenCost

\* A mail whose row stays and that handler h does not stop working on opens
\* to no further claim.
LEMMA StaysClosed ==
  ASSUME DeliveryInv, NEW m \in Mails, mail'[m] = mail[m],
         NEW h \in Handlers, NEW q, handler' = [handler EXCEPT ![h] = q],
         Works(handler[h], m) => Works(q, m)
  PROVE  OpenCost(m)' <= OpenCost(m)
<1>1. /\ handler'[h] = q
      /\ \A k \in Handlers \ {h} : handler'[k] = handler[k]
  BY Types
<1>2. \A k \in Handlers : WorksOnMail(k, m) => WorksOnMail(k, m)'
  BY <1>1 DEF WorksOnMail, Works
<1>3. Open(m)' => Open(m)
  BY <1>2 DEF Open
<1> QED
  BY <1>3 DEF OpenCost

\* A handler that worked on no mail and works on none costs nothing; one that
\* stops working may leave its mail open, for what it owed or for a fault.
LEMMA StopsWorking ==
  ASSUME DeliveryInv, BudgetInv, NEW h \in Handlers, NEW q,
         handler' = [handler EXCEPT ![h] = q], \A m \in Mails : ~Works(q, m),
         UNCHANGED <<receipts, links>>,
         \A m \in Mails :
           IF Works(handler[h], m)
           THEN Owes(handler[h], m) \/ Fault \/ ~Open(m)'
           ELSE mail'[m] = mail[m],
         Fault \/ UNCHANGED faults
  PROVE  BudgetInv'
<1> SUFFICES ASSUME NEW m \in Mails PROVE WithinBudget(m)'
  BY DEF BudgetInv
<1> DEFINE c == Cost(handler[h], m)
<1>1. WithinBudget(m) /\ links' \in Seq(Nat) /\ receipts' \in Nat /\ faults \in Nat
  BY Types DEF BudgetInv
<1>2. Mailings(m) \in Nat /\ Mailings(m)' = Mailings(m)
  BY Types, MailingsAreCounted DEF Mailings
<1>3. /\ Cost(q, m) = 0 /\ c \in {0, 1}
      /\ OpenCost(m) \in {0, 1} /\ OpenCost(m)' \in {0, 1}
  BY DEF Cost, OpenCost, Owes, Works
<1>4. PICK spent \in {0, 1} : faults' = faults + spent /\ (Fault => spent = 1)
  BY <1>1 DEF Fault
<1>5. CASE Works(handler[h], m)
  <2>1. c = 1 \/ spent = 1 \/ OpenCost(m)' = 0
    BY <1>4, <1>5 DEF Cost, OpenCost
  <2> HIDE DEF c
  <2>2. Mailings(m)' + Cost(q, m) + OpenCost(m)' <= Mailings(m) + c + OpenCost(m) + spent
    BY <1>2, <1>3, <2>1
  <2> QED
    BY <1>1, <1>4, <2>2, HandlerSpends DEF c
<1>6. CASE ~Works(handler[h], m)
  <2>1. OpenCost(m)' <= OpenCost(m)
    BY <1>6, StaysClosed
  <2> HIDE DEF c
  <2>2. Mailings(m)' + Cost(q, m) + OpenCost(m)' <= Mailings(m) + c + OpenCost(m) + spent
    BY <1>2, <1>3, <2>1
  <2> QED
    BY <1>1, <1>4, <2>2, HandlerSpends DEF c
<1> QED
  BY <1>5, <1>6

\* Where a handler goes that gives up, is done or moves on to the next mail.
LEMMA LeavesMail ==
  ASSUME DeliveryInv, NEW h \in Handlers, GivesUp(h) \/ Done(h) \/ NextMail(h) \/ Ends(h)
  PROVE  \E q : handler' = [handler EXCEPT ![h] = q] /\ \A m \in Mails : ~Works(q, m)
<1>1. handler[h] \in Handler
  BY Types
<1>2. CASE Ends(h)
  <2>1. Idle.at = "idle"
    BY DEF Idle
  <2>2. handler' = [handler EXCEPT ![h] = Idle]
    BY <1>2 DEF Ends
  <2> QED
    BY <2>1, <2>2 DEF Works
<1>3. ASSUME NEW stage \in {"complete", "release"}, Goes(h, stage)
      PROVE  \E q : handler' = [handler EXCEPT ![h] = q] /\ \A m \in Mails : ~Works(q, m)
  <2> DEFINE q == [handler[h] EXCEPT !.at = stage]
  <2>1. q.at = stage
    BY <1>1 DEF Handler
  <2>2. handler' = [handler EXCEPT ![h] = q]
    BY <1>3 DEF Goes
  <2> QED
    BY <2>1, <2>2 DEF Works
<1>4. CASE handler' = [handler EXCEPT ![h].at = "claim", ![h].mail = "invitation"]
  <2> DEFINE p == [handler[h] EXCEPT !.at = "claim"]
             q == [p EXCEPT !.mail = "invitation"]
  <2>1. p \in Handler /\ p.at = "claim"
    BY <1>1 DEF Handler, Stages
  <2>2. q.at = "claim"
    BY <2>1 DEF Handler
  <2>3. handler' = [handler EXCEPT ![h] = q]
    BY <1>4, Types
  <2> QED
    BY <2>2, <2>3 DEF Works
<1>5. CASE GivesUp(h) \/ Done(h)
  <2>1. Ends(h) \/ Goes(h, "release") \/ Goes(h, "complete")
    BY <1>5 DEF GivesUp, Done
  <2> QED
    BY <1>2, <1>3, <2>1
<1>6. CASE NextMail(h)
  BY <1>4, <1>5, <1>6 DEF NextMail
<1> QED
  BY <1>2, <1>5, <1>6

\* Steps of a handler that works on no mail, before or after.
LEMMA IdleStepsKeepBudget ==
  ASSUME DeliveryInv, BudgetInv, NEW h \in Handlers,
         \/ \E e \in Events : TakesEvent(h, e)
         \/ OpensReturnPage(h) \/ Fulfills(h) \/ FindsInProgress(h)
         \/ CompletesEvent(h) \/ ReleasesEvent(h)
  PROVE  BudgetInv'
<1> DEFINE me == handler[h]
<1>1. me \in Handler
  BY Types
<1>2. /\ \A m \in Mails : ~Works(me, m)
      /\ UNCHANGED <<mail, receipts, links, faults>>
  <2>1. CASE (\E e \in Events : TakesEvent(h, e)) \/ OpensReturnPage(h)
    <3>1. me.at = "idle" /\ UNCHANGED <<mail, receipts, links, faults>>
      BY <2>1, Zenon DEF TakesEvent, OpensReturnPage, At
    <3> QED
      BY <3>1 DEF Works
  <2>2. CASE Fulfills(h)
    BY <2>2 DEF Fulfills, At, Works
  <2>3. CASE FindsInProgress(h)
    BY <2>3 DEF FindsInProgress, At, Works
  <2>4. CASE CompletesEvent(h) \/ ReleasesEvent(h)
    BY <2>4 DEF CompletesEvent, ReleasesEvent, At, Works
  <2> QED
    BY <2>1, <2>2, <2>3, <2>4
<1>3. \E q : handler' = [handler EXCEPT ![h] = q] /\ \A m \in Mails : ~Works(q, m)
  <2>1. ASSUME NEW e \in Events, TakesEvent(h, e)
        PROVE  \E q : handler' = [handler EXCEPT ![h] = q] /\ \A m \in Mails : ~Works(q, m)
    <3> DEFINE q == [Idle EXCEPT !.at = "fulfill", !.event = e]
    <3>1. q.at = "fulfill"
      BY DEF Idle
    <3>2. handler' = [handler EXCEPT ![h] = q]
      BY <2>1, Zenon DEF TakesEvent
    <3> HIDE DEF q
    <3> QED
      BY <3>1, <3>2 DEF Works
  <2>2. CASE OpensReturnPage(h)
    <3> DEFINE q == [Idle EXCEPT !.at = "fulfill"]
    <3>1. q.at = "fulfill" /\ handler' = [handler EXCEPT ![h] = q]
      BY <2>2 DEF OpensReturnPage, Idle
    <3> QED
      BY <3>1 DEF Works
  <2>3. CASE Fulfills(h)
    <3> DEFINE q == [me EXCEPT !.at = "claim", !.invite = mail["invitation"].status # "sent",
                       !.token = IF sold THEN NoToken ELSE 1]
    <3>1. q.at = "claim"
      BY <1>1 DEF Handler
    <3>2. handler' = [handler EXCEPT ![h] = q]
      BY <2>3, Types DEF Fulfills
    <3> QED
      BY <3>1, <3>2 DEF Works
  <2>4. CASE FindsInProgress(h)
    BY <2>4, LeavesMail DEF FindsInProgress
  <2>5. CASE CompletesEvent(h) \/ ReleasesEvent(h)
    BY <2>5, LeavesMail DEF CompletesEvent, ReleasesEvent
  <2> QED
    BY <2>1, <2>2, <2>3, <2>4, <2>5
<1> QED
  BY <1>2, <1>3, StopsWorking

\* Steps that end the work on a mail.
LEMMA LastStepsKeepBudget ==
  ASSUME DeliveryInv, BudgetInv, NEW h \in Handlers,
         IssueRefused(h) \/ GivesBack(h) \/ MarksSent(h) \/ StoreFails(h)
  PROVE  BudgetInv'
<1> DEFINE me == handler[h]
           n == me.mail
<1>1. me \in Handler /\ n \in Mails
  BY Types DEF Handler
<1>2. /\ UNCHANGED <<receipts, links>>
      /\ Fault \/ UNCHANGED faults
      /\ \A m \in Mails \ {n} : mail'[m] = mail[m]
  BY <1>1, Types DEF IssueRefused, GivesBack, MarksSent, StoreFails
<1>3. \E q : handler' = [handler EXCEPT ![h] = q] /\ \A m \in Mails : ~Works(q, m)
  BY LeavesMail DEF IssueRefused, GivesBack, MarksSent, StoreFails
<1>4. \A m \in Mails \ {n} : ~Works(me, m)
  BY DEF Works
<1>5. CASE IssueRefused(h) \/ GivesBack(h)
  <2>1. Owes(me, n)
    BY <1>5 DEF IssueRefused, GivesBack, At, Owes
  <2>2. \A m \in Mails : IF Works(me, m) THEN Owes(me, m) \/ Fault \/ ~Open(m)'
                          ELSE mail'[m] = mail[m]
    BY <1>2, <1>4, <2>1 DEF Works, Owes
  <2> HIDE DEF n
  <2> QED
    BY <1>2, <1>3, <2>2, StopsWorking
<1>6. CASE MarksSent(h)
  <2>1. mail'[n].status = "sent"
    BY <1>1, <1>6, Types DEF MarksSent
  <2>2. PICK o \in Mails : o = n
    BY <1>1
  <2>3. ~Open(o)'
    BY <2>1, <2>2 DEF Open
  <2>4. Works(me, o)
    BY <1>6, <2>2 DEF MarksSent, At, Works
  <2>5. \A m \in Mails : IF Works(me, m) THEN Owes(me, m) \/ Fault \/ ~Open(m)'
                          ELSE mail'[m] = mail[m]
    <3> SUFFICES ASSUME NEW m \in Mails
                 PROVE  IF Works(me, m) THEN Owes(me, m) \/ Fault \/ ~Open(m)'
                        ELSE mail'[m] = mail[m]
      OBVIOUS
    <3>1. CASE m = o
      BY <2>3, <2>4, <3>1
    <3>2. CASE m # o
      BY <1>2, <1>4, <2>2, <3>2
    <3> QED
      BY <3>1, <3>2
  <2> QED
    BY <1>2, <1>3, <2>5, StopsWorking
<1>7. CASE StoreFails(h)
  BY <1>2, <1>3, <1>7, StopsWorking DEF StoreFails
<1> QED
  BY <1>5, <1>6, <1>7

\* A claim is the one that was open: the handler owes the mail instead.
LEMMA ClaimKeepsBudget ==
  ASSUME DeliveryInv, BudgetInv, NEW h \in Handlers, ClaimsDelivery(h)
  PROVE  BudgetInv'
<1> DEFINE me == handler[h]
           stage == IF me.mail = "invitation" /\ me.token = NoToken THEN "issue" ELSE "send"
           q == [me EXCEPT !.at = stage]
<1>1. me \in Handler /\ me.at = "claim" /\ me.mail \in Mails
  BY Types DEF ClaimsDelivery, At, Handler
<1>2. q.at \in {"issue", "send"} /\ q.mail = me.mail
  BY <1>1 DEF Handler
<1>3. handler' = [handler EXCEPT ![h] = q] /\ handler'[h] = q
  BY Types DEF ClaimsDelivery, Goes
<1>4. UNCHANGED <<receipts, links, faults>>
  BY DEF ClaimsDelivery
<1> HIDE DEF q
<1> SUFFICES ASSUME NEW m \in Mails PROVE WithinBudget(m)'
  BY DEF BudgetInv
<1>5. /\ WithinBudget(m) /\ links' \in Seq(Nat) /\ receipts' \in Nat
      /\ faults \in Nat /\ faults' = faults + 0
  BY <1>4, Types DEF BudgetInv
<1>6. Mailings(m) \in Nat /\ Mailings(m)' = Mailings(m)
  BY <1>4, Types, MailingsAreCounted DEF Mailings
<1>7. Cost(me, m) = 0
  BY <1>1 DEF Cost, Owes
<1>8. CASE m = me.mail
  <2>1. Open(m) /\ mail'[m] = [status |-> "sending", fresh |-> TRUE]
    <3>1. Claimable(m)
      BY <1>8 DEF ClaimsDelivery
    <3>2. Open(m)
      BY <3>1 DEF Claimable, Open
    <3>3. mail'[m] = [status |-> "sending", fresh |-> TRUE]
      BY <1>8, Types DEF ClaimsDelivery
    <3> QED
      BY <3>2, <3>3
  <2>2. WorksOnMail(h, m)'
    BY <1>2, <1>3, <1>8 DEF WorksOnMail
  <2>3. ~Open(m)'
    BY <2>1, <2>2 DEF Open
  <2>4. Cost(q, m) = 1 /\ OpenCost(m) = 1 /\ OpenCost(m)' = 0
    BY <1>2, <1>8, <2>1, <2>3 DEF Cost, Owes, OpenCost
  <2>5. Mailings(m)' + Cost(q, m) + OpenCost(m)' <= Mailings(m) + Cost(me, m) + OpenCost(m) + 0
    BY <1>6, <1>7, <2>4
  <2> QED
    BY <1>3, <1>5, <2>5, HandlerSpends
<1>9. CASE m # me.mail
  <2>1. ~Works(me, m) /\ mail'[m] = mail[m]
    BY <1>9, <1>1, Types DEF ClaimsDelivery, Works
  <2>2. OpenCost(m)' <= OpenCost(m) /\ OpenCost(m) \in {0, 1} /\ OpenCost(m)' \in {0, 1}
    BY <1>3, <2>1, StaysClosed DEF OpenCost
  <2>3. Cost(q, m) = 0
    BY <1>2, <1>9 DEF Cost, Owes
  <2>4. Mailings(m)' + Cost(q, m) + OpenCost(m)' <= Mailings(m) + Cost(me, m) + OpenCost(m) + 0
    BY <1>6, <1>7, <2>2, <2>3
  <2> QED
    BY <1>3, <1>5, <2>4, HandlerSpends
<1> QED
  BY <1>8, <1>9

\* A handler that goes on working on its mail mails only what it owed; a
\* mail whose answer is lost is mailed by a fault.
LEMMA WorkStepsKeepBudget ==
  ASSUME DeliveryInv, BudgetInv, NEW h \in Handlers,
         IssuesToken(h) \/ Sends(h) \/ SendFails(h)
  PROVE  BudgetInv'
<1> DEFINE me == handler[h]
<1>0. PICK n \in Mails : n = me.mail
  BY Types DEF Handler
<1>1. me \in Handler /\ n = me.mail
  BY <1>0, Types
<1>2. Owes(me, n) /\ UNCHANGED mail
  BY <1>1 DEF IssuesToken, Sends, SendFails, At, Owes
<1>3. \E q : /\ handler' = [handler EXCEPT ![h] = q] /\ Works(q, n) /\ q.mail = n
             /\ ~Sends(h) => Owes(q, n)
             /\ Sends(h) => ~Owes(q, n)
  <2>1. CASE IssuesToken(h)
    <3> DEFINE p == [me EXCEPT !.at = "send"]
               q == [p EXCEPT !.token = token + 1]
    <3>1. p \in Handler /\ p.at = "send" /\ p.mail = n
      BY <1>1, Types DEF Handler, Stages
    <3>2. q.at = "send" /\ q.mail = n
      BY <3>1 DEF Handler
    <3>3. handler' = [handler EXCEPT ![h] = q]
      BY <2>1, Types DEF IssuesToken
    <3>4. ~Sends(h)
      BY <2>1 DEF IssuesToken, Sends, At
    <3> HIDE DEF q
    <3> QED
      BY <3>2, <3>3, <3>4 DEF Works, Owes
  <2>2. CASE Sends(h)
    <3> DEFINE q == [me EXCEPT !.at = "mark"]
    <3>1. q.at = "mark" /\ q.mail = n
      BY <1>1 DEF Handler
    <3>2. handler' = [handler EXCEPT ![h] = q]
      BY <2>2 DEF Sends, Goes
    <3> HIDE DEF q
    <3> QED
      BY <2>2, <3>1, <3>2 DEF Works, Owes
  <2>3. CASE SendFails(h)
    <3> DEFINE q == [me EXCEPT !.at = "giveBack"]
    <3>1. q.at = "giveBack" /\ q.mail = n
      BY <1>1 DEF Handler
    <3>2. handler' = [handler EXCEPT ![h] = q]
      BY <2>3 DEF SendFails, Goes
    <3>3. handler'[h].at = "giveBack"
      BY <3>1, <3>2, Types
    <3>4. ~Sends(h)
      <4>1. SUFFICES ASSUME Sends(h) PROVE FALSE
        OBVIOUS
      <4>2. handler'[h].at = "mark"
        BY <1>1, <4>1, Types DEF Sends, Goes, Handler
      <4> QED
        BY <3>3, <4>2
    <3> HIDE DEF q
    <3> QED
      BY <3>1, <3>2, <3>4 DEF Works, Owes
  <2> QED
    BY <2>1, <2>2, <2>3
<1>4. PICK q : /\ handler' = [handler EXCEPT ![h] = q] /\ Works(q, n) /\ q.mail = n
               /\ ~Sends(h) => Owes(q, n)
               /\ Sends(h) => ~Owes(q, n)
  BY <1>3
<1>5. PICK spent \in {0, 1} : faults' = faults + spent /\ (SendFails(h) => spent = 1)
  BY Types DEF IssuesToken, Sends, SendFails, Fault
<1>6. /\ links' \in Seq(Nat) /\ receipts' \in Nat
      /\ Mailings(n)' <= Mailings(n) + (IF IssuesToken(h) THEN 0 ELSE 1)
      /\ \A m \in Mails \ {n} : Mailings(m)' = Mailings(m)
  <2>1. me.token \in Nat
    BY <1>1 DEF Handler
  <2>2. CASE UNCHANGED <<receipts, links>>
    <3>1. \A m \in Mails : Mailings(m)' = Mailings(m) /\ Mailings(m) \in Nat
      BY <2>2, Types, MailingsAreCounted DEF Mailings
    <3> QED
      BY <2>2, <3>1, Types
  <2>3. CASE Mailed(h) /\ ~IssuesToken(h)
    <3>1. CASE n = "receipt"
      <4>1. receipts' = receipts + 1 /\ links' = links
        BY <1>1, <2>3, <3>1 DEF Mailed
      <4> QED
        BY <2>3, <3>1, <4>1, Types DEF Mailings
    <3>2. CASE n # "receipt"
      <4>1. receipts' = receipts /\ links' = Append(links, me.token)
        BY <1>1, <2>3, <3>2 DEF Mailed
      <4>2. links' \in Seq(Nat) /\ Len(links') = Len(links) + 1
        BY <2>1, <4>1, Types
      <4>3. \A m \in Mails \ {n} : m = "receipt"
        BY <3>2 DEF Mails
      <4> QED
        BY <2>3, <3>2, <4>1, <4>2, <4>3, Types DEF Mailings
    <3> QED
      BY <3>1, <3>2
  <2>4. CASE IssuesToken(h)
    BY <2>2, <2>4 DEF IssuesToken
  <2> QED
    BY <2>2, <2>3, <2>4 DEF Sends, SendFails
<1> SUFFICES ASSUME NEW m \in Mails PROVE WithinBudget(m)'
  BY DEF BudgetInv
<1>7. WithinBudget(m)
  BY DEF BudgetInv
<1>8. Mailings(m) \in Nat /\ Mailings(m)' \in Nat
  BY <1>6, Types DEF Mailings
<1>9. OpenCost(m)' <= OpenCost(m) /\ OpenCost(m) \in {0, 1} /\ OpenCost(m)' \in {0, 1}
  <2>1. Works(me, m) => Works(q, m)
    BY <1>1, <1>4 DEF Works
  <2> QED
    BY <1>2, <1>4, <2>1, StaysClosed DEF OpenCost
<1>10. Mailings(m)' + Cost(q, m) <= Mailings(m) + Cost(me, m) + spent
  <2>1. CASE m # n
    <3>1. Cost(q, m) = 0 /\ Cost(me, m) = 0
      BY <1>1, <1>4, <2>1 DEF Cost, Owes
    <3> QED
      BY <1>6, <1>8, <2>1, <3>1
  <2>2. CASE m = n /\ Sends(h)
    <3>1. Cost(q, m) = 0 /\ Cost(me, m) = 1
      BY <1>2, <1>4, <2>2 DEF Cost
    <3>2. Mailings(m)' <= Mailings(m) + 1
      BY <1>6, <1>8, <2>2
    <3> HIDE DEF me
    <3> QED
      BY <1>8, <3>1, <3>2
  <2>3. CASE m = n /\ ~Sends(h)
    <3>1. Cost(q, m) = 1 /\ Cost(me, m) = 1
      BY <1>2, <1>4, <2>3 DEF Cost
    <3>2. Mailings(m)' <= Mailings(m) + spent
      BY <1>5, <1>6, <1>8, <2>3
    <3> HIDE DEF me
    <3> QED
      BY <1>8, <3>1, <3>2
  <2> QED
    BY <2>1, <2>2, <2>3
<1>11. Cost(q, m) \in {0, 1} /\ Cost(me, m) \in {0, 1}
  BY DEF Cost
<1>12. Mailings(m)' + Cost(q, m) + OpenCost(m)' <= Mailings(m) + Cost(me, m) + OpenCost(m) + spent
  <2> HIDE DEF me
  <2> QED
    BY <1>8, <1>9, <1>10, <1>11
<1> QED
  BY <1>4, <1>5, <1>6, <1>7, <1>12, HandlerSpends

\* The process ends: nobody owes anything, and the fault pays for the claims
\* that are open for it.
LEMMA CrashKeepsBudget ==
  ASSUME DeliveryInv, BudgetInv, Crash
  PROVE  BudgetInv'
<1> SUFFICES ASSUME NEW m \in Mails PROVE WithinBudget(m)'
  BY DEF BudgetInv
<1>1. Owing(m)' = {}
  BY DEF Crash, Owing, Idle
<1>2. Mailings(m) \in Nat /\ Mailings(m)' = Mailings(m)
  BY Types, MailingsAreCounted DEF Mailings, Crash
<1>3. WithinBudget(m) /\ Cardinality(Owing(m)) \in Nat /\ OpenCost(m)' \in {0, 1}
  BY FS_CardinalityType DEF BudgetInv, WithinBudget, OpenCost
<1>4. Mailings(m) + Cardinality(Owing(m)) + OpenCost(m) <= 1 + faults
  BY <1>3 DEF WithinBudget, OpenCost
<1>5. faults \in Nat /\ faults' = faults + 1
  BY Types DEF Crash, Fault
<1>6. Mailings(m)' + 0 + OpenCost(m)' <= 1 + faults'
  <2>1. OpenCost(m) \in {0, 1}
    BY DEF OpenCost
  <2> QED
    BY <1>2, <1>3, <1>4, <1>5, <2>1
<1>7. IsFiniteSet(Owing(m)') /\ Cardinality(Owing(m)') = 0
  BY <1>1, FS_EmptySet
<1> QED
  BY <1>6, <1>7 DEF WithinBudget, OpenCost

\* A step that moves no handler: a mail may be open only as it was before or
\* for a fault.
LEMMA WorldStepsKeepBudget ==
  ASSUME DeliveryInv, BudgetInv,
         \/ \E e \in Events : AnswersDuplicate(e) \/ EventLeaseEnds(e)
         \/ \E m \in Mails : MailLeaseEnds(m)
         \/ ActivatesAccount \/ UNCHANGED vars
  PROVE  BudgetInv'
<1>1. /\ UNCHANGED <<receipts, links, handler>>
      /\ Fault \/ UNCHANGED faults
  <2>1. CASE \E e \in Events : AnswersDuplicate(e) \/ EventLeaseEnds(e)
    BY <2>1 DEF AnswersDuplicate, EventLeaseEnds, LapsesUnless
  <2>2. CASE \E m \in Mails : MailLeaseEnds(m)
    BY <2>2 DEF MailLeaseEnds, LapsesUnless
  <2>3. CASE ActivatesAccount \/ UNCHANGED vars
    BY <2>3 DEF ActivatesAccount, vars
  <2> QED
    BY <2>1, <2>2, <2>3
<1> SUFFICES ASSUME NEW m \in Mails PROVE WithinBudget(m)'
  BY DEF BudgetInv
<1>2. WithinBudget(m)
  BY DEF BudgetInv
<1>3. Owing(m)' = Owing(m) /\ Mailings(m)' = Mailings(m)
  BY <1>1 DEF Owing, Mailings
<1>4. Open(m)' => Open(m) \/ Fault
  <2>1. CASE mail'[m] = mail[m]
    BY <1>1, <2>1 DEF Open, WorksOnMail
  <2>2. CASE mail'[m] # mail[m]
    <3>1. MailLeaseEnds(m)
      <4>1. CASE \E e \in Events : AnswersDuplicate(e) \/ EventLeaseEnds(e)
        BY <2>2, <4>1 DEF AnswersDuplicate, EventLeaseEnds
      <4>2. CASE \E o \in Mails : MailLeaseEnds(o)
        <5>1. PICK o \in Mails : MailLeaseEnds(o)
          BY <4>2
        <5>2. mail' = [mail EXCEPT ![o].fresh = FALSE]
          BY <5>1 DEF MailLeaseEnds
        <5>3. m = o
          BY <2>2, <5>2, Types
        <5> QED
          BY <5>1, <5>3
      <4>3. CASE ActivatesAccount \/ UNCHANGED vars
        BY <2>2, <4>3 DEF ActivatesAccount, vars
      <4> QED
        BY <4>1, <4>2, <4>3
    <3>2. mail'[m].status = mail[m].status
      BY <3>1, Types DEF MailLeaseEnds
    <3> QED
      BY <3>1, <3>2 DEF Open, MailLeaseEnds, LapsesUnless
  <2> QED
    BY <2>1, <2>2
<1>5. Mailings(m) \in Nat /\ Cardinality(Owing(m)) \in Nat
  BY <1>2, Types, MailingsAreCounted, FS_CardinalityType DEF WithinBudget
<1>6. Mailings(m) + Cardinality(Owing(m)) + OpenCost(m) <= 1 + faults
  BY <1>2 DEF WithinBudget, OpenCost
<1>7. OpenCost(m)' <= OpenCost(m) \/ Fault
  BY <1>4 DEF OpenCost
<1>8. OpenCost(m) \in {0, 1} /\ OpenCost(m)' \in {0, 1}
  BY DEF OpenCost
<1>9. faults \in Nat /\ (faults' = faults + 1 \/ (faults' = faults /\ ~Fault))
  BY <1>1, Types DEF Fault
<1>10. Mailings(m) + Cardinality(Owing(m)) + OpenCost(m)' <= 1 + faults'
  BY <1>5, <1>6, <1>7, <1>8, <1>9
<1> QED
  BY <1>2, <1>3, <1>10 DEF WithinBudget, OpenCost

LEMMA InitBudgetInv == Init => BudgetInv
<1> SUFFICES ASSUME Init, NEW m \in Mails PROVE WithinBudget(m)
  BY DEF BudgetInv
<1>1. Owing(m) = {}
  BY DEF Init, Owing, Idle
<1>2. IsFiniteSet(Owing(m)) /\ Cardinality(Owing(m)) = 0
  BY <1>1, FS_EmptySet
<1>3. Mailings(m) = 0 /\ faults = 0
  BY DEF Init, Mailings
<1> QED
  BY <1>2, <1>3 DEF WithinBudget

LEMMA NextKeepsBudget == DeliveryInv /\ BudgetInv /\ [Next]_vars => BudgetInv'
<1> SUFFICES ASSUME DeliveryInv, BudgetInv, [Next]_vars PROVE BudgetInv'
  OBVIOUS
<1>1. ASSUME NEW h \in Handlers, HandlerStep(h) PROVE BudgetInv'
  BY <1>1, IdleStepsKeepBudget, LastStepsKeepBudget, ClaimKeepsBudget, WorkStepsKeepBudget
  DEF HandlerStep
<1> QED
  BY <1>1, IdleStepsKeepBudget, LastStepsKeepBudget, WorkStepsKeepBudget, CrashKeepsBudget,
     WorldStepsKeepBudget
  DEF Next

\* internal/commerce/delivery.go, claimDelivery: the claims keep handlers
\* from mailing twice.  Whatever events, return pages, releases and restarts
\* there are, every receipt and every link too many was paid for by a failed
\* call, a lost answer, a lease outlived by its handler or a crash.
THEOREM DuplicatesAreFaults == Spec => []DuplicatesCostFaults
<1>1. Spec => [](DeliveryInv /\ BudgetInv)
  BY InitDeliveryInv, InitBudgetInv, NextKeepsDeliveryInv, NextKeepsBudget, PTL DEF Spec
<1>2. DeliveryInv /\ BudgetInv => DuplicatesCostFaults
  <2> SUFFICES ASSUME DeliveryInv, BudgetInv PROVE DuplicatesCostFaults
    OBVIOUS
  <2>1. ASSUME NEW m \in Mails PROVE Mailings(m) <= 1 + faults
    <3>1. WithinBudget(m)
      BY DEF BudgetInv
    <3>2. Mailings(m) \in Nat /\ Cardinality(Owing(m)) \in Nat /\ faults \in Nat
      BY <3>1, Types, MailingsAreCounted, FS_CardinalityType DEF WithinBudget
    <3>3. Mailings(m) + Cardinality(Owing(m)) + OpenCost(m) <= 1 + faults
      BY <3>1 DEF WithinBudget, OpenCost
    <3>4. OpenCost(m) \in {0, 1}
      BY DEF OpenCost
    <3> QED
      BY <3>2, <3>3, <3>4
  <2> QED
    BY <2>1, Types DEF DuplicatesCostFaults, Mailings
<1> QED
  BY <1>1, <1>2, PTL

=============================================================================
