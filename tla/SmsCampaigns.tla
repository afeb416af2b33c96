---------------------------- MODULE SmsCampaigns ----------------------------
(***************************************************************************)
(* Paid SMS campaigns: the cost reserved from the customer's wallet, and   *)
(* the workers that take paid campaigns from the database and send them    *)
(* (apps/sms/services.py, process_sms_queue), beside transfers between the *)
(* same wallets (apps/wallet/core.py).  Each database statement of a       *)
(* worker commits by itself: a worker may stop between any two of them.    *)
(* Then the desk: how a campaign comes to be payable.                      *)
(***************************************************************************)
EXTENDS Integers, FiniteSetsExt

CONSTANTS
  Users,
  Campaigns,
  Owner,     \* Owner[c]: the user of campaign c
  Cost,      \* Cost[c]: estimated_cost, frozen when c is created
  Workers,   \* processes that run process_sms_queue
  Nothing,   \* what an idle worker works on
  Opening    \* Opening[u]: the wallet of u at the start

ASSUME SmsAssumption ==
  /\ IsFiniteSet(Users) /\ IsFiniteSet(Campaigns)
  /\ Owner \in [Campaigns -> Users]
  /\ Cost \in [Campaigns -> Nat]
  /\ Opening \in [Users -> Nat]
  /\ Nothing \notin Campaigns

VARIABLES
  campaign,   \* campaign[c]: the SmsCampaign row, with its recipients' status
  balance,    \* balance[u]: Wallet.balance
  worker,     \* worker[w]: where send_campaign is, and on which campaign
  delivered   \* delivered[c]: how often the provider sent c (external)

vars == <<campaign, balance, worker, delivered>>

CampaignStatus == {"absent", "waiting_approval", "ready_for_payment", "queued",
                   "sending", "sent", "failed"}
CampaignRow == [status: CampaignStatus, reserved: Nat, actual: Nat,
                recipients: {"pending", "sent"}]

(* "picked": the queue's query has returned the campaign; "claimed": it is *)
(* set to sending; "accepted" and "refused": what the provider's call came *)
(* to; "reported": the recipients are marked; "failing": the failure is    *)
(* recorded and not refunded yet.                                          *)
WorkerStep == {"idle", "picked", "claimed", "accepted", "reported", "refused",
               "failing"}

TypeOK ==
  /\ campaign \in [Campaigns -> CampaignRow]
  /\ balance \in [Users -> Nat]
  /\ worker \in [Workers -> [at: WorkerStep, on: Campaigns \cup {Nothing}]]
  /\ \A w \in Workers : worker[w].at = "idle" <=> worker[w].on = Nothing
  /\ delivered \in [Campaigns -> Nat]

NoCampaign == [status |-> "absent", reserved |-> 0, actual |-> 0,
               recipients |-> "pending"]
Idle == [at |-> "idle", on |-> Nothing]

Init ==
  /\ campaign = [c \in Campaigns |-> NoCampaign]
  /\ balance = Opening
  /\ worker = [w \in Workers |-> Idle]
  /\ delivered = [c \in Campaigns |-> 0]

----------------------------------------------------------------------------
(* The customer and the staff *)

(* CampaignListCreateView.post: with an approved template it can be paid   *)
(* for; with a text of its own it waits for the approval of that.          *)
CreateCampaign(c, approved) ==
  /\ campaign[c].status = "absent"
  /\ campaign' = [campaign EXCEPT
       ![c].status = IF approved THEN "ready_for_payment" ELSE "waiting_approval"]
  /\ UNCHANGED <<balance, worker, delivered>>

(* TemplateAdmin.approve_templates                                         *)
ApproveTemplate(c) ==
  /\ campaign[c].status = "waiting_approval"
  /\ campaign' = [campaign EXCEPT ![c].status = "ready_for_payment"]
  /\ UNCHANGED <<balance, worker, delivered>>

(* reserve_campaign *)
ReserveCampaign(c) ==
  /\ campaign[c].status = "ready_for_payment"
  /\ balance[Owner[c]] >= Cost[c]
  /\ balance' = [balance EXCEPT ![Owner[c]] = @ - Cost[c]]
  /\ campaign' = [campaign EXCEPT ![c].status = "queued", ![c].reserved = Cost[c]]
  /\ UNCHANGED <<worker, delivered>>

(* WalletCore.transaction, between the two locked wallets                  *)
Transfer(u, v, amount) ==
  /\ u # v /\ balance[u] >= amount
  /\ balance' = [balance EXCEPT ![u] = @ - amount, ![v] = @ + amount]
  /\ UNCHANGED <<campaign, worker, delivered>>

----------------------------------------------------------------------------
(* process_sms_queue and send_campaign *)

MoveTo(w, step) == worker' = [worker EXCEPT ![w].at = step]

(* The query of the queue, which locks nothing: a campaign without a       *)
(* schedule, or one whose time has come.                                   *)
PickCampaign(w, c) ==
  /\ worker[w] = Idle
  /\ campaign[c].status = "queued"
  /\ worker' = [worker EXCEPT ![w] = [at |-> "picked", on |-> c]]
  /\ UNCHANGED <<campaign, balance, delivered>>

(* Fault: the status is written without comparing it. *)
ClaimAnyway(w) ==
  /\ worker[w].at = "picked"
  /\ campaign' = [campaign EXCEPT ![worker[w].on].status = "sending"]
  /\ MoveTo(w, "claimed")
  /\ UNCHANGED <<balance, delivered>>

(* The conditional update: another worker may have been faster.            *)
Claim(w) ==
  LET c == worker[w].on
  IN /\ worker[w].at = "picked"
     /\ \/ /\ campaign[c].status = "queued"
           /\ campaign' = [campaign EXCEPT ![c].status = "sending"]
           /\ MoveTo(w, "claimed")
        \/ /\ campaign[c].status # "queued"
           /\ worker' = [worker EXCEPT ![w] = Idle]
           /\ UNCHANGED campaign
     /\ UNCHANGED <<balance, delivered>>

ProviderAccepts(w) ==
  /\ worker[w].at = "claimed"
  /\ delivered' = [delivered EXCEPT ![worker[w].on] = @ + 1]
  /\ MoveTo(w, "accepted")
  /\ UNCHANGED <<campaign, balance>>

(* Fault: any answer counts as a success. *)
AnyAnswerAccepted(w) ==
  /\ worker[w].at = "claimed"
  /\ MoveTo(w, "accepted")
  /\ UNCHANGED <<campaign, balance, delivered>>

ProviderRefuses(w) ==
  /\ worker[w].at = "claimed"
  /\ MoveTo(w, "refused")
  /\ UNCHANGED <<campaign, balance, delivered>>

(* The messages go out and the call raises: its answer timed out.          *)
AnswerIsLost(w) ==
  /\ worker[w].at = "claimed"
  /\ delivered' = [delivered EXCEPT ![worker[w].on] = @ + 1]
  /\ MoveTo(w, "refused")
  /\ UNCHANGED <<campaign, balance>>

MarkRecipients(w) ==
  /\ worker[w].at = "accepted"
  /\ campaign' = [campaign EXCEPT ![worker[w].on].recipients = "sent"]
  /\ MoveTo(w, "reported")
  /\ UNCHANGED <<balance, delivered>>

MarkSent(w) ==
  LET c == worker[w].on
  IN /\ worker[w].at = "reported"
     /\ campaign' = [campaign EXCEPT ![c].status = "sent", ![c].actual = Cost[c]]
     /\ worker' = [worker EXCEPT ![w] = Idle]
     /\ UNCHANGED <<balance, delivered>>

MarkFailed(w) ==
  /\ worker[w].at = "refused"
  /\ campaign' = [campaign EXCEPT ![worker[w].on].status = "failed"]
  /\ MoveTo(w, "failing")
  /\ UNCHANGED <<balance, delivered>>

(* Fault: what was given back stays reserved. *)
RefundAndKeep(w) ==
  LET c == worker[w].on
  IN /\ worker[w].at = "failing"
     /\ balance' = [balance EXCEPT
          ![Owner[c]] = @ + campaign[c].reserved - campaign[c].actual]
     /\ worker' = [worker EXCEPT ![w] = Idle]
     /\ UNCHANGED <<campaign, delivered>>

(* refund_campaign *)
Refund(w) ==
  LET c == worker[w].on
  IN /\ worker[w].at = "failing"
     /\ balance' = [balance EXCEPT
          ![Owner[c]] = @ + Max({0, campaign[c].reserved - campaign[c].actual})]
     /\ campaign' = [campaign EXCEPT ![c].reserved = campaign[c].actual]
     /\ worker' = [worker EXCEPT ![w] = Idle]
     /\ UNCHANGED delivered

WorkerDies(w) ==
  /\ worker[w] # Idle
  /\ worker' = [worker EXCEPT ![w] = Idle]
  /\ UNCHANGED <<campaign, balance, delivered>>

----------------------------------------------------------------------------
WorkerRuns(w) ==
  \/ \E c \in Campaigns : PickCampaign(w, c)
  \/ Claim(w)
  \/ ProviderAccepts(w) \/ ProviderRefuses(w) \/ AnswerIsLost(w)
  \/ MarkRecipients(w) \/ MarkSent(w)
  \/ MarkFailed(w) \/ Refund(w)

Next ==
  \/ \E c \in Campaigns : \/ \E approved \in BOOLEAN : CreateCampaign(c, approved)
                          \/ ApproveTemplate(c) \/ ReserveCampaign(c)
  \/ \E u, v \in Users : \E amount \in 1..balance[u] : Transfer(u, v, amount)
  \/ \E w \in Workers : WorkerRuns(w) \/ WorkerDies(w)

Spec == Init /\ [][Next]_vars

(* Workers are restarted and keep running; nothing else has to happen.     *)
WorkersRun == \A w \in Workers : WF_vars(WorkerRuns(w))

FairSpec == Spec /\ WorkersRun
----------------------------------------------------------------------------
(* The units of money that f has in the places S, each by itself.          *)
Coins(f, S) == UNION {{x} \X (1..f[x]) : x \in S}
Total(f, S) == Cardinality(Coins(f, S))

Reserved == [c \in Campaigns |-> campaign[c].reserved]

(* Every amount is in one wallet or reserved by one campaign, and none is  *)
(* negative, whatever workers race or stop half-way: no charge and no      *)
(* refund is made twice.                                                   *)
MoneyIsKept ==
  /\ \A u \in Users : balance[u] >= 0
  /\ Total(balance, Users) + Total(Reserved, Campaigns) = Total(Opening, Users)

(* A campaign goes out at most once, although any number of workers may    *)
(* have read it from the queue before one of them claims it.               *)
SentAtMostOnce == \A c \in Campaigns : delivered[c] <= 1

(* A campaign on its way has its cost reserved in full, one that is sent   *)
(* went out and cost that much, and one not yet paid for never goes out.   *)
(* Of a failed one nothing is said: a lost answer refunds what was sent,   *)
(* and a worker that dies before the refund keeps what was not.            *)
ChargedAsSent ==
  \A c \in Campaigns :
    LET r == campaign[c]
    IN /\ r.status = "sent" => /\ delivered[c] = 1 /\ r.recipients = "sent"
                               /\ r.reserved = Cost[c] /\ r.actual = Cost[c]
       /\ r.status \in {"queued", "sending"} => r.reserved = Cost[c] /\ r.actual = 0
       /\ r.status \in {"absent", "waiting_approval", "ready_for_payment"} =>
            r.reserved = 0 /\ r.actual = 0 /\ delivered[c] = 0

(* A campaign goes out once at most, and its row tells what became of it   *)
(* (send_campaign, refund_campaign).                                       *)
SendingAgrees == SentAtMostOnce /\ ChargedAsSent

(* A campaign that was paid for is processed: sent, or failed. The queue   *)
(* is said to be durable (process_sms_queue).                              *)
PaidIsProcessed ==
  \A c \in Campaigns :
    campaign[c].status = "queued" ~> campaign[c].status \in {"sent", "failed"}
----------------------------------------------------------------------------
(* The desk (apps/sms/views, admin.py): the lines and the texts the staff  *)
(* keep, the texts customers write, and the request for a campaign, which  *)
(* may be sent twice at once under one Idempotency-Key.  What a campaign   *)
(* says is copied when it is made.                                         *)

CONSTANTS
  Copies,   \* rows of Template
  Lines,
  Keys,     \* Idempotency-Keys of one customer: one campaign has each
  Attempts, \* requests for a campaign
  Words,    \* what a text may say
  NoText, NoKey

ASSUME DeskAssumption == NoText \notin Copies \cup Words /\ NoKey \notin Keys /\ Lines # {}

VARIABLES
  copy,     \* copy[x]: the Template row
  line,     \* line[n]: the Line row
  ordered,  \* ordered[k]: the SmsCampaign of key k
  attempt,  \* attempt[a]: a request being answered, in its transaction
  vetted,   \* history: vetted[x]: what x said when staff approved it, ever
  rewritten \* history: the texts whose words staff have changed

deskVars == <<copy, line, ordered, attempt, vetted, rewritten>>

Approval == {"open", "approved"}  \* open: pending, rejected or needs_editing
WordsOrNone == Words \cup {NoText}
CopyRow == [there: BOOLEAN, status: Approval, active: BOOLEAN, says: WordsOrNone]
NoCopy == [there |-> FALSE, status |-> "open", active |-> FALSE, says |-> NoText]
OwnCopy(w) == [there |-> TRUE, status |-> "open", active |-> TRUE, says |-> w]
LineStatus == {"none", "active", "inactive"}
(* message: what the customer wrote, which is what is sent; own: the text  *)
(* was inserted for it.                                                    *)
OrderedRow ==
  [status: {"none", "waiting_approval", "ready_for_payment"}, text: Copies \cup {NoText},
   message: WordsOrNone, own: BOOLEAN, line: Lines]
NotOrdered == [status |-> "none", text |-> NoText, message |-> NoText, own |-> FALSE,
               line |-> CHOOSE n \in Lines : TRUE]

(* "own": a text was inserted for it, which nobody else sees yet.          *)
AttemptRow == [step: {"none", "chosen", "own"}, key: Keys \cup {NoKey},
               text: Copies \cup {NoText}, message: WordsOrNone, line: Lines]
NoAttempt == [step |-> "none", key |-> NoKey, text |-> NoText, message |-> NoText,
              line |-> NotOrdered.line]

DeskTypeOK ==
  /\ copy \in [Copies -> CopyRow]
  /\ line \in [Lines -> LineStatus]
  /\ ordered \in [Keys -> OrderedRow]
  /\ attempt \in [Attempts -> AttemptRow]
  /\ vetted \in [Copies -> SUBSET Words]
  /\ rewritten \subseteq Copies

DeskInit ==
  /\ copy = [x \in Copies |-> NoCopy]
  /\ line = [n \in Lines |-> "none"]
  /\ ordered = [k \in Keys |-> NotOrdered]
  /\ attempt = [a \in Attempts |-> NoAttempt]
  /\ vetted = [x \in Copies |-> {}] /\ rewritten = {}

----------------------------------------------------------------------------
(* The staff *)

(* One that a campaign uses is not deleted: PROTECT.                       *)
LineInUse(n) == \E k \in Keys : ordered[k].status # "none" /\ ordered[k].line = n
TextInUse(x) == \E k \in Keys : ordered[k].status # "none" /\ ordered[k].text = x

SaveLine(n, status) ==
  /\ status = "none" => ~LineInUse(n)
  /\ line' = [line EXCEPT ![n] = status]
  /\ UNCHANGED <<copy, ordered, attempt, vetted, rewritten>>

Unused(x) == ~copy[x].there /\ \A a \in Attempts : attempt[a].text # x

(* The staff's API and form write every field of a text.                   *)
SaveText(x, row) ==
  /\ copy[x].there \/ Unused(x)
  /\ row.there /\ row.says # NoText
  /\ copy' = [copy EXCEPT ![x] = row]
  /\ vetted' = IF row.status = "approved"
               THEN [vetted EXCEPT ![x] = @ \cup {row.says}] ELSE vetted
  /\ rewritten' = IF copy[x].there /\ copy[x].says # row.says
                  THEN rewritten \cup {x} ELSE rewritten
  /\ UNCHANGED <<line, ordered, attempt>>

DeleteText(x) ==
  /\ copy[x].there /\ ~TextInUse(x)
  /\ copy' = [copy EXCEPT ![x] = NoCopy]
  /\ vetted' = [vetted EXCEPT ![x] = {}]
  /\ rewritten' = rewritten \ {x}
  /\ UNCHANGED <<line, ordered, attempt>>

(* Fault: every campaign that waits is let go. *)
AwaitingAny(X, k) == ordered[k].status = "waiting_approval"

(* The campaigns that wait for one of the texts can be paid for.           *)
Awaiting(X, k) == ordered[k].status = "waiting_approval" /\ ordered[k].text \in X

ApproveTexts(X) ==
  /\ \A x \in X : copy[x].there
  /\ copy' = [x \in Copies |->
       IF x \in X THEN [copy[x] EXCEPT !.status = "approved"] ELSE copy[x]]
  /\ ordered' = [k \in Keys |->
       IF Awaiting(X, k) THEN [ordered[k] EXCEPT !.status = "ready_for_payment"]
       ELSE ordered[k]]
  /\ vetted' = [x \in Copies |->
       IF x \in X THEN vetted[x] \cup {copy[x].says} ELSE vetted[x]]
  /\ UNCHANGED <<line, attempt, rewritten>>

(* What it was approved for goes on.                                       *)
RefuseText(x) ==
  /\ copy[x].there
  /\ copy' = [copy EXCEPT ![x].status = "open"]
  /\ UNCHANGED <<line, ordered, attempt, vetted, rewritten>>

----------------------------------------------------------------------------
(* The customer *)

WriteText(x, w) ==
  /\ Unused(x)
  /\ copy' = [copy EXCEPT ![x] = OwnCopy(w)]
  /\ UNCHANGED <<line, ordered, attempt, vetted, rewritten>>

(* Every text here is public or the customer's own.  The message that is   *)
(* sent along is not compared with it.                                     *)
ChooseText(a, k, n, x, w) ==
  /\ attempt[a] = NoAttempt
  /\ line[n] = "active"
  /\ copy[x].there /\ copy[x].active /\ copy[x].status = "approved"
  /\ attempt' = [attempt EXCEPT ![a] =
       [step |-> "chosen", key |-> k, text |-> x, message |-> w, line |-> n]]
  /\ UNCHANGED <<copy, line, ordered, vetted, rewritten>>

BringText(a, k, n, x, w) ==
  /\ attempt[a] = NoAttempt
  /\ line[n] = "active"
  /\ Unused(x)
  /\ attempt' = [attempt EXCEPT ![a] =
       [step |-> "own", key |-> k, text |-> x, message |-> w, line |-> n]]
  /\ UNCHANGED <<copy, line, ordered, vetted, rewritten>>

Committed(a) ==
  IF attempt[a].step = "own"
  THEN [copy EXCEPT ![attempt[a].text] = OwnCopy(attempt[a].message)] ELSE copy

Ends(a) == attempt' = [attempt EXCEPT ![a] = NoAttempt]

(* The key has a campaign, which is the answer; the text that was brought  *)
(* a second time stays, and waits for the staff with no campaign to it.    *)
AnswerExisting(a) ==
  LET k == attempt[a].key
  IN /\ attempt[a].step \in {"chosen", "own"}
     /\ ordered[k].status # "none"
     /\ copy' = Committed(a)
     /\ Ends(a)
     /\ UNCHANGED <<line, ordered, vetted, rewritten>>

(* Two attempts may both find none: the key is unique, and the later of    *)
(* them is rolled back; so is one whose line or text went meanwhile.       *)
MakeCampaign(a) ==
  LET r == attempt[a]
  IN /\ r.step \in {"chosen", "own"}
     /\ ordered[r.key].status = "none"
     /\ line[r.line] # "none" /\ (r.step = "chosen" => copy[r.text].there)
     /\ ordered' = [ordered EXCEPT ![r.key] =
          [status |-> IF r.step = "own" THEN "waiting_approval" ELSE "ready_for_payment",
           text |-> r.text, message |-> r.message, own |-> r.step = "own", line |-> r.line]]
     /\ copy' = Committed(a)
     /\ Ends(a)
     /\ UNCHANGED <<line, vetted, rewritten>>

RollBack(a) ==
  /\ attempt[a] # NoAttempt
  /\ Ends(a)
  /\ UNCHANGED <<copy, line, ordered, vetted, rewritten>>

DeskNext ==
  \/ \E n \in Lines, status \in LineStatus : SaveLine(n, status)
  \/ \E X \in SUBSET Copies : X # {} /\ ApproveTexts(X)
  \/ \E x \in Copies :
       \/ DeleteText(x) \/ RefuseText(x)
       \/ \E w \in Words : WriteText(x, w)
       \/ \E row \in CopyRow : SaveText(x, row)
  \/ \E a \in Attempts :
       \/ AnswerExisting(a) \/ MakeCampaign(a) \/ RollBack(a)
       \/ \E k \in Keys, n \in Lines, x \in Copies, w \in Words :
            ChooseText(a, k, n, x, w) \/ BringText(a, k, n, x, w)

DeskSpec == DeskInit /\ [][DeskNext]_deskVars

----------------------------------------------------------------------------
(* Properties *)

(* However requests are repeated, and texts and lines edited and deleted   *)
(* meanwhile, a campaign that can be paid for has a text and a line that   *)
(* are there, and staff approved the text at some time; a text the         *)
(* customer brought for it was approved as he brought it, unless staff     *)
(* changed its words, which the campaign does not follow.  Beside a chosen *)
(* text a message may say anything (CampaignListCreateView,                *)
(* TemplateAdmin.approve_templates).                                       *)
PayableIsApproved ==
  \A k \in Keys :
    LET r == ordered[k]
    IN r.status = "ready_for_payment" =>
         /\ copy[r.text].there /\ line[r.line] # "none"
         /\ vetted[r.text] # {}
         /\ r.own => r.message \in vetted[r.text] \/ r.text \in rewritten
=============================================================================
