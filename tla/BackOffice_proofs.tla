-------------------------- MODULE BackOffice_proofs -------------------------
(***************************************************************************)
(* Proofs about what runs behind a store's page, for every set of people,  *)
(* rows, requests and workers and every cost: the sending of campaigns,    *)
(* the desk that prepares them, the people who keep the store, support     *)
(* tickets, push notifications, sockets, the daily figures and the training *)
(* of models.  Each part has its own variables.                            *)
(***************************************************************************)
EXTENDS SmsCampaigns, Colleagues, SupportTickets,
  NotificationRouting, SocketTickets, Analytics, FiniteSetTheorems, TLAPS

----------------------------------------------------------------------------
(* Campaigns, once they are payable (SmsCampaigns)                         *)

SendTypes ==
  /\ campaign \in [Campaigns -> CampaignRow]
  /\ worker \in [Workers -> [at: WorkerStep, on: Campaigns \cup {Nothing}]]
  /\ \A w \in Workers : worker[w].at = "idle" <=> worker[w].on = Nothing
  /\ delivered \in [Campaigns -> Nat]

Busy(w) == worker[w].at \notin {"idle", "picked"}

(* The compare-and-set makes one worker the owner of a campaign. *)
OneSender ==
  \A w, v \in Workers : Busy(w) /\ Busy(v) /\ worker[w].on = worker[v].on => w = v

(* What a worker has done so far is what the rows and the provider show. *)
Progress ==
  \A w \in Workers :
    LET c == worker[w].on
    IN /\ Busy(w) => campaign[c].status =
                       IF worker[w].at = "failing" THEN "failed" ELSE "sending"
       /\ worker[w].at = "claimed" => delivered[c] = 0
       /\ worker[w].at \in {"accepted", "reported"} => delivered[c] = 1
       /\ worker[w].at = "reported" => campaign[c].recipients = "sent"

NotSentUnclaimed ==
  \A c \in Campaigns :
    campaign[c].status \notin {"sending", "sent", "failed"} => delivered[c] = 0

SendInv ==
  /\ SendTypes /\ OneSender /\ Progress /\ NotSentUnclaimed
  /\ SentAtMostOnce /\ ChargedAsSent

(* A step that leaves workers and the provider alone and moves a row that  *)
(* nobody sends.                                                           *)
LEMMA CustomerKeeps ==
  ASSUME SendInv, NEW c \in Campaigns, NEW r \in CampaignRow,
         UNCHANGED <<worker, delivered>>,
         campaign' = [campaign EXCEPT ![c] = r],
         campaign[c].status \notin {"sending", "sent", "failed"},
         r.actual = 0,
         \/ r.status \in {"waiting_approval", "ready_for_payment"} /\ r.reserved = 0
         \/ r.status = "queued" /\ r.reserved = Cost[c]
  PROVE  SendInv'
<1> USE DEF SendInv
<1>1. /\ campaign'[c] = r
      /\ \A d \in Campaigns \ {c} : campaign'[d] = campaign[d]
      /\ campaign' \in [Campaigns -> CampaignRow]
  BY DEF SendTypes
<1>2. \A w \in Workers : Busy(w) => worker[w].on \in Campaigns \ {c}
  BY DEF SendTypes, Busy, Progress, WorkerStep
<1>3. \A w \in Workers : Busy(w)' = Busy(w)
  BY DEF Busy
<1>4. SendTypes' /\ OneSender'
  BY <1>1, <1>3 DEF SendTypes, OneSender
<1>5. Progress'
  <2>1. ASSUME NEW w \in Workers, ~Busy(w) PROVE worker[w].at \in {"idle", "picked"}
    BY <2>1 DEF Busy
  <2>. QED BY <1>1, <1>2, <1>3, <2>1 DEF Progress
<1>6. NotSentUnclaimed' /\ SentAtMostOnce' /\ ChargedAsSent'
  BY <1>1 DEF NotSentUnclaimed, SentAtMostOnce, ChargedAsSent
<1>. QED BY <1>4, <1>5, <1>6

(* What a sender in state k knows of the row r that it sends and of the     *)
(* provider, and what such a row promises.                                 *)
Shows(k, r, n) ==
  /\ r.status = IF k.at = "failing" THEN "failed" ELSE "sending"
  /\ k.at = "claimed" => n = 0
  /\ k.at \in {"accepted", "reported"} => n = 1
  /\ k.at = "reported" => r.recipients = "sent"

RowHolds(c, r, n) ==
  /\ n <= 1
  /\ r.status \in {"sending", "sent", "failed"}
  /\ r.status = "sent" => /\ n = 1 /\ r.recipients = "sent"
                          /\ r.reserved = Cost[c] /\ r.actual = Cost[c]
  /\ r.status = "sending" => r.reserved = Cost[c] /\ r.actual = 0

(* A step of worker w on campaign c: nobody else sends c, so that only w's *)
(* own progress and c's own row have to be looked at.                      *)
LEMMA SenderKeeps ==
  ASSUME SendInv, NEW w \in Workers, NEW c \in Campaigns,
         worker[w].on = c, Busy(w),
         NEW k \in [at: WorkerStep, on: Campaigns \cup {Nothing}],
         k = Idle \/ (k.on = c /\ k.at \notin {"idle", "picked"}),
         NEW r \in CampaignRow, NEW n \in Nat,
         worker' = [worker EXCEPT ![w] = k],
         campaign' = [campaign EXCEPT ![c] = r],
         delivered' = [delivered EXCEPT ![c] = n],
         k # Idle => Shows(k, r, n),
         RowHolds(c, r, n)
  PROVE  SendInv'
<1> USE DEF SendInv
<1>1. /\ campaign'[c] = r /\ delivered'[c] = n
      /\ \A d \in Campaigns \ {c} : campaign'[d] = campaign[d] /\ delivered'[d] = delivered[d]
      /\ worker'[w] = k
      /\ \A v \in Workers \ {w} : worker'[v] = worker[v]
      /\ campaign' \in [Campaigns -> CampaignRow]
      /\ delivered' \in [Campaigns -> Nat]
      /\ worker' \in [Workers -> [at: WorkerStep, on: Campaigns \cup {Nothing}]]
  BY DEF SendTypes
<1>2. \A v \in Workers \ {w} : Busy(v) => worker[v].on # c /\ worker[v].on \in Campaigns
  BY DEF SendTypes, Busy, OneSender, WorkerStep
<1>3. \A v \in Workers \ {w} : Busy(v)' = Busy(v)
  BY <1>1 DEF Busy
<1>4. SendTypes'
  BY <1>1, SmsAssumption DEF SendTypes, Idle
<1>5. OneSender'
  <2>1. Busy(w)' => k.on = c
    BY <1>1 DEF Busy, Idle
  <2>. QED BY <1>1, <1>2, <1>3, <2>1 DEF OneSender
<1>6. Progress'
  <2>1. ASSUME NEW v \in Workers \ {w}, ~Busy(v) PROVE worker[v].at \in {"idle", "picked"}
    BY <2>1 DEF Busy
  <2>2. ASSUME NEW v \in Workers \ {w}
        PROVE  LET d == worker'[v].on
               IN /\ Busy(v)' => campaign'[d].status =
                       IF worker'[v].at = "failing" THEN "failed" ELSE "sending"
                  /\ worker'[v].at = "claimed" => delivered'[d] = 0
                  /\ worker'[v].at \in {"accepted", "reported"} => delivered'[d] = 1
                  /\ worker'[v].at = "reported" => campaign'[d].recipients = "sent"
    BY <1>1, <1>2, <1>3, <2>1, <2>2 DEF Progress
  <2>3. LET d == worker'[w].on
        IN /\ Busy(w)' => campaign'[d].status =
                IF worker'[w].at = "failing" THEN "failed" ELSE "sending"
           /\ worker'[w].at = "claimed" => delivered'[d] = 0
           /\ worker'[w].at \in {"accepted", "reported"} => delivered'[d] = 1
           /\ worker'[w].at = "reported" => campaign'[d].recipients = "sent"
    BY <1>1 DEF Busy, Idle, Shows
  <2>. QED BY <2>2, <2>3 DEF Progress
<1>7. NotSentUnclaimed' /\ SentAtMostOnce' /\ ChargedAsSent'
  BY <1>1 DEF NotSentUnclaimed, SentAtMostOnce, ChargedAsSent, RowHolds
<1>. QED BY <1>4, <1>5, <1>6, <1>7

(* A worker that stops, or has only read the queue, holds nothing. *)
LEMMA IdleKeeps ==
  ASSUME SendInv, NEW w \in Workers,
         NEW k \in [at: {"idle", "picked"}, on: Campaigns \cup {Nothing}],
         k.at = "idle" <=> k.on = Nothing,
         worker' = [worker EXCEPT ![w] = k],
         UNCHANGED <<campaign, delivered>>
  PROVE  SendInv'
<1> USE DEF SendInv
<1>1. /\ worker'[w] = k
      /\ \A v \in Workers \ {w} : worker'[v] = worker[v]
      /\ worker' \in [Workers -> [at: WorkerStep, on: Campaigns \cup {Nothing}]]
  BY DEF SendTypes, WorkerStep
<1>2. ~Busy(w)' /\ \A v \in Workers \ {w} : Busy(v)' = Busy(v)
  BY <1>1 DEF Busy
<1>3. SendTypes'
  BY <1>1 DEF SendTypes
<1>4. OneSender'
  BY <1>1, <1>2 DEF OneSender
<1>5. Progress'
  BY <1>1, <1>2 DEF Progress, Busy
<1>6. NotSentUnclaimed' /\ SentAtMostOnce' /\ ChargedAsSent'
  BY DEF NotSentUnclaimed, SentAtMostOnce, ChargedAsSent
<1>. QED BY <1>3, <1>4, <1>5, <1>6

(* The claim: the campaign was queued, so that no worker was sending it. *)
LEMMA ClaimKeeps ==
  ASSUME SendInv, NEW w \in Workers, NEW c \in Campaigns,
         worker[w].on = c, worker[w].at = "picked",
         campaign[c].status = "queued",
         campaign' = [campaign EXCEPT ![c].status = "sending"],
         MoveTo(w, "claimed"), UNCHANGED delivered
  PROVE  SendInv'
<1> USE DEF SendInv
<1>1. /\ campaign'[c] = [campaign[c] EXCEPT !.status = "sending"]
      /\ campaign'[c] \in CampaignRow
      /\ \A d \in Campaigns \ {c} : campaign'[d] = campaign[d]
      /\ campaign' \in [Campaigns -> CampaignRow]
  BY DEF SendTypes, CampaignRow, CampaignStatus
<1>2. /\ worker'[w].at = "claimed" /\ worker'[w].on = c
      /\ \A v \in Workers \ {w} : worker'[v] = worker[v]
      /\ worker' \in [Workers -> [at: WorkerStep, on: Campaigns \cup {Nothing}]]
  BY DEF SendTypes, MoveTo, WorkerStep
<1>3. \A v \in Workers : Busy(v) => worker[v].on \in Campaigns \ {c}
  BY DEF SendTypes, Busy, Progress, WorkerStep
<1>4. \A v \in Workers \ {w} : Busy(v)' = Busy(v)
  BY <1>2 DEF Busy
<1>5. campaign'[c].status = "sending" /\ campaign'[c].reserved = Cost[c]
        /\ campaign'[c].actual = 0 /\ delivered[c] = 0
  BY <1>1 DEF SendTypes, CampaignRow, ChargedAsSent, NotSentUnclaimed
<1>6. SendTypes'
  BY <1>1, <1>2, SmsAssumption DEF SendTypes
<1>7. OneSender'
  BY <1>2, <1>3, <1>4 DEF OneSender
<1>8. Progress'
  <2>1. ASSUME NEW v \in Workers, ~Busy(v) PROVE worker[v].at \in {"idle", "picked"}
    BY <2>1 DEF Busy
  <2>2. ASSUME NEW v \in Workers \ {w}
        PROVE  LET d == worker'[v].on
               IN /\ Busy(v)' => campaign'[d].status =
                       IF worker'[v].at = "failing" THEN "failed" ELSE "sending"
                  /\ worker'[v].at = "claimed" => delivered'[d] = 0
                  /\ worker'[v].at \in {"accepted", "reported"} => delivered'[d] = 1
                  /\ worker'[v].at = "reported" => campaign'[d].recipients = "sent"
    BY <1>1, <1>2, <1>3, <1>4, <2>1, <2>2 DEF Progress
  <2>. QED BY <1>2, <1>5, <2>2 DEF Progress
<1>9. NotSentUnclaimed' /\ SentAtMostOnce' /\ ChargedAsSent'
  BY <1>1, <1>5 DEF NotSentUnclaimed, SentAtMostOnce, ChargedAsSent
<1>. QED BY <1>6, <1>7, <1>8, <1>9

LEMMA WorkerKeeps ==
  ASSUME SendInv, NEW w \in Workers, WorkerRuns(w) \/ WorkerDies(w)
  PROVE  SendInv'
<1> USE DEF SendInv
<1> DEFINE c == worker[w].on
<1>0. /\ worker[w] \in [at: WorkerStep, on: Campaigns \cup {Nothing}]
      /\ worker[w].at # "idle" => c \in Campaigns
      /\ \A d \in Campaigns : campaign[d] \in CampaignRow /\ delivered[d] \in Nat
      /\ campaign = [campaign EXCEPT ![c] = campaign[c]]
      /\ delivered = [delivered EXCEPT ![c] = delivered[c]]
      /\ Idle \in [at: {"idle", "picked"}, on: Campaigns \cup {Nothing}]
      /\ Idle \in [at: WorkerStep, on: Campaigns \cup {Nothing}]
      /\ Idle.at = "idle" /\ Idle.on = Nothing
  BY DEF SendTypes, Idle, WorkerStep
<1>1. CASE WorkerDies(w)
  BY <1>0, <1>1, IdleKeeps DEF WorkerDies
<1>2. ASSUME NEW d \in Campaigns, PickCampaign(w, d) PROVE SendInv'
  <2>1. [at |-> "picked", on |-> d] \in [at: {"idle", "picked"}, on: Campaigns \cup {Nothing}]
    OBVIOUS
  <2>. QED BY <1>2, <2>1, IdleKeeps, SmsAssumption DEF PickCampaign
<1>3. CASE Claim(w)
  BY <1>0, <1>3, IdleKeeps, ClaimKeeps DEF Claim
(* The other steps are the sender's own. *)
<1> DEFINE At(step) == [worker[w] EXCEPT !.at = step]
<1>4. \A step \in WorkerStep \ {"idle", "picked"} :
        worker[w].at # "idle" =>
          /\ At(step) \in [at: WorkerStep, on: Campaigns \cup {Nothing}]
          /\ At(step).at = step /\ At(step).on = c /\ At(step) # Idle
          /\ MoveTo(w, step) => worker' = [worker EXCEPT ![w] = At(step)]
  BY <1>0 DEF MoveTo, Idle, SendTypes
<1> HIDE DEF At
<1>5. CASE ProviderAccepts(w) \/ ProviderRefuses(w) \/ AnswerIsLost(w)
  <2>1. /\ worker[w].at = "claimed" /\ Busy(w) /\ c \in Campaigns
        /\ campaign[c].status = "sending" /\ delivered[c] = 0
        /\ campaign[c].reserved = Cost[c] /\ campaign[c].actual = 0
    BY <1>0, <1>5 DEF ProviderAccepts, ProviderRefuses, AnswerIsLost, Busy, Progress,
                      ChargedAsSent
  <2>2. PICK n \in {0, 1}, step \in {"accepted", "refused"} :
          /\ delivered' = [delivered EXCEPT ![c] = n]
          /\ MoveTo(w, step) /\ UNCHANGED campaign
          /\ step = "accepted" => n = 1
    BY <1>0, <1>5, <2>1 DEF ProviderAccepts, ProviderRefuses, AnswerIsLost
  <2>3. step \in WorkerStep \ {"idle", "picked"}
    BY DEF WorkerStep
  <2>4. campaign' = [campaign EXCEPT ![c] = campaign[c]]
    BY <1>0, <2>2
  <2>5. /\ worker' = [worker EXCEPT ![w] = At(step)]
        /\ At(step) \in [at: WorkerStep, on: Campaigns \cup {Nothing}]
        /\ At(step).at = step /\ At(step).on = c /\ At(step) # Idle
    BY <1>4, <2>1, <2>2, <2>3
  <2>6. Shows(At(step), campaign[c], n) /\ RowHolds(c, campaign[c], n)
    BY <2>1, <2>2, <2>5 DEF Shows, RowHolds
  <2>7. delivered' = [delivered EXCEPT ![c] = n] /\ n \in Nat /\ campaign[c] \in CampaignRow
    BY <1>0, <2>1, <2>2
  <2>. QED BY <2>1, <2>4, <2>5, <2>6, <2>7, SenderKeeps
<1>6. CASE MarkRecipients(w)
  <2> DEFINE r == [campaign[c] EXCEPT !.recipients = "sent"]
  <2>1. /\ worker[w].at = "accepted" /\ Busy(w) /\ c \in Campaigns
        /\ campaign[c].status = "sending" /\ delivered[c] = 1
        /\ campaign[c].reserved = Cost[c] /\ campaign[c].actual = 0
    BY <1>0, <1>6 DEF MarkRecipients, Busy, Progress, ChargedAsSent
  <2>2. /\ campaign' = [campaign EXCEPT ![c] = r] /\ r \in CampaignRow
        /\ r.status = "sending" /\ r.recipients = "sent"
        /\ r.reserved = Cost[c] /\ r.actual = 0
    <3>1. r \in CampaignRow /\ r.status = "sending" /\ r.recipients = "sent"
            /\ r.reserved = Cost[c] /\ r.actual = 0
      BY <1>0, <2>1 DEF CampaignRow
    <3>2. campaign' = [campaign EXCEPT ![c] = r]
      BY <1>6 DEF MarkRecipients
    <3>. QED BY <3>1, <3>2
  <2>3. MoveTo(w, "reported") /\ UNCHANGED delivered
    BY <1>6 DEF MarkRecipients
  <2>4. "reported" \in WorkerStep \ {"idle", "picked"}
    BY DEF WorkerStep
  <2>5. /\ worker' = [worker EXCEPT ![w] = At("reported")]
        /\ At("reported") \in [at: WorkerStep, on: Campaigns \cup {Nothing}]
        /\ At("reported").at = "reported" /\ At("reported").on = c /\ At("reported") # Idle
    BY <1>4, <2>1, <2>3, <2>4
  <2>6. delivered' = [delivered EXCEPT ![c] = delivered[c]]
    BY <1>0, <2>3
  <2>. HIDE DEF r
  <2>7. Shows(At("reported"), r, delivered[c]) /\ RowHolds(c, r, delivered[c])
    BY <2>1, <2>2, <2>5 DEF Shows, RowHolds
  <2>. QED BY <1>0, <2>1, <2>2, <2>5, <2>6, <2>7, SenderKeeps
<1>7. CASE MarkSent(w)
  <2> DEFINE r == [campaign[c] EXCEPT !.status = "sent", !.actual = Cost[c]]
  <2>1. /\ worker[w].at = "reported" /\ Busy(w) /\ c \in Campaigns
        /\ delivered[c] = 1 /\ campaign[c].recipients = "sent"
        /\ campaign[c].reserved = Cost[c] /\ Cost[c] \in Nat
    BY <1>0, <1>7, SmsAssumption DEF MarkSent, Busy, Progress, ChargedAsSent
  <2>2. /\ campaign' = [campaign EXCEPT ![c] = r] /\ r \in CampaignRow
        /\ r.status = "sent" /\ r.recipients = "sent"
        /\ r.reserved = Cost[c] /\ r.actual = Cost[c]
    <3>1. /\ r \in CampaignRow /\ r.status = "sent" /\ r.recipients = "sent"
          /\ r.reserved = Cost[c] /\ r.actual = Cost[c]
      BY <1>0, <2>1 DEF CampaignRow, CampaignStatus
    <3>2. campaign' = [campaign EXCEPT ![c] = r]
      BY <1>7 DEF MarkSent
    <3>. QED BY <3>1, <3>2
  <2>3. worker' = [worker EXCEPT ![w] = Idle] /\ UNCHANGED delivered
    BY <1>7 DEF MarkSent
  <2>4. delivered' = [delivered EXCEPT ![c] = delivered[c]]
    BY <1>0, <2>3
  <2>. HIDE DEF r
  <2>5. RowHolds(c, r, delivered[c])
    BY <2>1, <2>2 DEF RowHolds
  <2>. QED BY <1>0, <2>1, <2>2, <2>3, <2>4, <2>5, SenderKeeps
<1>8. CASE MarkFailed(w)
  <2> DEFINE r == [campaign[c] EXCEPT !.status = "failed"]
  <2>1. worker[w].at = "refused" /\ Busy(w) /\ c \in Campaigns /\ delivered[c] <= 1
    BY <1>0, <1>8 DEF MarkFailed, Busy, SentAtMostOnce
  <2>2. campaign' = [campaign EXCEPT ![c] = r] /\ r \in CampaignRow /\ r.status = "failed"
    BY <1>0, <1>8, <2>1 DEF MarkFailed, CampaignRow, CampaignStatus
  <2>3. MoveTo(w, "failing") /\ UNCHANGED delivered
    BY <1>8 DEF MarkFailed
  <2>4. "failing" \in WorkerStep \ {"idle", "picked"}
    BY DEF WorkerStep
  <2>5. /\ worker' = [worker EXCEPT ![w] = At("failing")]
        /\ At("failing") \in [at: WorkerStep, on: Campaigns \cup {Nothing}]
        /\ At("failing").at = "failing" /\ At("failing").on = c /\ At("failing") # Idle
    BY <1>4, <2>1, <2>3, <2>4
  <2>6. delivered' = [delivered EXCEPT ![c] = delivered[c]]
    BY <1>0, <2>3
  <2>. HIDE DEF r
  <2>7. Shows(At("failing"), r, delivered[c]) /\ RowHolds(c, r, delivered[c])
    BY <2>1, <2>2, <2>5 DEF Shows, RowHolds
  <2>. QED BY <1>0, <2>1, <2>2, <2>5, <2>6, <2>7, SenderKeeps
<1>9. CASE Refund(w)
  <2> DEFINE r == [campaign[c] EXCEPT !.reserved = campaign[c].actual]
  <2>1. /\ worker[w].at = "failing" /\ Busy(w) /\ c \in Campaigns /\ delivered[c] <= 1
        /\ campaign[c].status = "failed"
    BY <1>0, <1>9 DEF Refund, Busy, SentAtMostOnce, Progress
  <2>2. campaign' = [campaign EXCEPT ![c] = r] /\ r \in CampaignRow /\ r.status = "failed"
    BY <1>0, <1>9, <2>1 DEF Refund, CampaignRow
  <2>3. worker' = [worker EXCEPT ![w] = Idle] /\ UNCHANGED delivered
    BY <1>9 DEF Refund
  <2>4. delivered' = [delivered EXCEPT ![c] = delivered[c]]
    BY <1>0, <2>3
  <2>. HIDE DEF r
  <2>5. RowHolds(c, r, delivered[c])
    BY <2>1, <2>2 DEF RowHolds
  <2>. QED BY <1>0, <2>1, <2>2, <2>3, <2>4, <2>5, SenderKeeps
<1>. QED BY <1>1, <1>2, <1>3, <1>5, <1>6, <1>7, <1>8, <1>9 DEF WorkerRuns

LEMMA SendInvariant == Spec => []SendInv
<1>1. Init => SendInv
  BY DEF Init, SendInv, SendTypes, OneSender, Progress, NotSentUnclaimed, Busy,
         SentAtMostOnce, ChargedAsSent, Idle, NoCampaign, CampaignRow, CampaignStatus,
         WorkerStep
<1>2. SendInv /\ [Next]_vars => SendInv'
  <2> SUFFICES ASSUME SendInv, [Next]_vars PROVE SendInv'
    OBVIOUS
  <2>0. \A c \in Campaigns : campaign[c] \in CampaignRow
    BY DEF SendInv, SendTypes
  <2>1. ASSUME NEW c \in Campaigns, NEW ready \in BOOLEAN, CreateCampaign(c, ready)
        PROVE  SendInv'
    <3> DEFINE r == [campaign[c] EXCEPT !.status =
                       IF ready THEN "ready_for_payment" ELSE "waiting_approval"]
    <3>1. /\ campaign' = [campaign EXCEPT ![c] = r] /\ r \in CampaignRow
          /\ r.status \in {"waiting_approval", "ready_for_payment"} /\ r.reserved = 0
          /\ r.actual = 0 /\ campaign[c].status = "absent" /\ UNCHANGED <<worker, delivered>>
      BY <2>0, <2>1 DEF CreateCampaign, CampaignRow, CampaignStatus, SendInv, ChargedAsSent
    <3>. HIDE DEF r
    <3>. QED BY <3>1, CustomerKeeps
  <2>2. ASSUME NEW c \in Campaigns, ApproveTemplate(c) PROVE SendInv'
    <3> DEFINE r == [campaign[c] EXCEPT !.status = "ready_for_payment"]
    <3>1. /\ campaign' = [campaign EXCEPT ![c] = r] /\ r \in CampaignRow
          /\ r.status = "ready_for_payment" /\ r.reserved = 0 /\ r.actual = 0
          /\ campaign[c].status = "waiting_approval" /\ UNCHANGED <<worker, delivered>>
      BY <2>0, <2>2 DEF ApproveTemplate, CampaignRow, CampaignStatus, SendInv, ChargedAsSent
    <3>. HIDE DEF r
    <3>. QED BY <3>1, CustomerKeeps
  <2>3. ASSUME NEW c \in Campaigns, ReserveCampaign(c) PROVE SendInv'
    <3> DEFINE r == [campaign[c] EXCEPT !.status = "queued", !.reserved = Cost[c]]
    <3>1. /\ campaign' = [campaign EXCEPT ![c] = r] /\ r \in CampaignRow
          /\ r.status = "queued" /\ r.reserved = Cost[c] /\ r.actual = 0
          /\ campaign[c].status = "ready_for_payment" /\ UNCHANGED <<worker, delivered>>
      BY <2>0, <2>3, SmsAssumption
         DEF ReserveCampaign, CampaignRow, CampaignStatus, SendInv, ChargedAsSent
    <3>. HIDE DEF r
    <3>. QED BY <3>1, CustomerKeeps
  <2>4. CASE UNCHANGED <<campaign, worker, delivered>>
    BY <2>4 DEF SendInv, SendTypes, OneSender, Progress, NotSentUnclaimed, Busy,
                SentAtMostOnce, ChargedAsSent
  <2>. QED BY <2>1, <2>2, <2>3, <2>4, WorkerKeeps DEF Next, Transfer, vars
<1>. QED BY <1>1, <1>2, PTL DEF Spec

(* No campaign goes out twice: however many workers have read it from the  *)
(* queue, the conditional update lets one of them send it; and what a row  *)
(* says about its cost and its recipients is what happened.                *)
THEOREM SendingAlwaysAgrees == Spec => []SendingAgrees
<1>1. SendInv => SendingAgrees
  BY DEF SendInv, SendingAgrees
<1>. QED BY <1>1, SendInvariant, PTL

(* Money by the unit: a place holds as many units as its amount, and a     *)
(* place that gets another amount changes the total by the difference.     *)
LEMMA UnitsOfPlace ==
  ASSUME NEW x, NEW n \in Nat
  PROVE  IsFiniteSet({x} \X (1..n)) /\ Cardinality({x} \X (1..n)) = n
<1>1. IsFiniteSet(1..n) /\ Cardinality(1..n) = n
  BY FS_Interval
<1>2. IsFiniteSet({x}) /\ Cardinality({x}) = 1
  BY FS_Singleton
<1>. QED BY <1>1, <1>2, FS_Product

LEMMA Apart ==
  ASSUME NEW A, NEW B, IsFiniteSet(A), IsFiniteSet(B), A \cap B = {}
  PROVE  IsFiniteSet(A \cup B) /\ Cardinality(A \cup B) = Cardinality(A) + Cardinality(B)
<1>1. Cardinality(A) \in Nat /\ Cardinality(B) \in Nat /\ Cardinality(A \cap B) = 0
  BY FS_CardinalityType, FS_EmptySet
<1>2. /\ IsFiniteSet(A \cup B)
      /\ Cardinality(A \cup B) = Cardinality(A) + Cardinality(B) - Cardinality(A \cap B)
  BY FS_Union, Zenon
<1>. QED BY <1>1, <1>2

LEMMA CoinsFinite ==
  ASSUME NEW S, IsFiniteSet(S), NEW f, \A x \in S : f[x] \in Nat
  PROVE  IsFiniteSet(Coins(f, S)) /\ Total(f, S) \in Nat
<1> DEFINE T == {{x} \X (1..f[x]) : x \in S}
           g == [x \in S |-> {x} \X (1..f[x])]
<1>1. g \in Surjection(S, T)
  BY DEF Surjection
<1>2. IsFiniteSet(T)
  <2>. HIDE DEF g, T
  <2>. QED BY <1>1, FS_Surjection
<1>3. ASSUME NEW t \in T PROVE IsFiniteSet(t)
  <2>1. PICK x \in S : t = {x} \X (1..f[x])
    OBVIOUS
  <2>. QED BY <2>1, UnitsOfPlace
<1>4. IsFiniteSet(UNION T)
  <2>. HIDE DEF T
  <2>. QED BY <1>2, <1>3, FS_UNION
<1>. QED BY <1>4, FS_CardinalityType DEF Coins, Total

LEMMA CoinsSplit ==
  ASSUME NEW S, IsFiniteSet(S), NEW f, \A x \in S : f[x] \in Nat, NEW x \in S
  PROVE  /\ Total(f, S) = Total(f, S \ {x}) + f[x]
         /\ Total(f, S \ {x}) \in Nat
<1> DEFINE own == {x} \X (1..f[x])
           others == Coins(f, S \ {x})
<1>1. IsFiniteSet(S \ {x}) /\ \A y \in S \ {x} : f[y] \in Nat
  BY FS_RemoveElement
<1>2. IsFiniteSet(others) /\ Total(f, S \ {x}) \in Nat
  BY <1>1, CoinsFinite
<1>3. IsFiniteSet(own) /\ Cardinality(own) = f[x]
  BY UnitsOfPlace
<1>4. Coins(f, S) = others \cup own
  BY DEF Coins
<1>5. others \cap own = {}
  BY DEF Coins
<1>6. Cardinality(others \cup own) = Cardinality(others) + Cardinality(own)
  <2>. HIDE DEF others, own
  <2>. QED BY <1>2, <1>3, <1>5, Apart
<1>. QED BY <1>2, <1>3, <1>4, <1>6 DEF Total

LEMMA TotalMoves ==
  ASSUME NEW S, IsFiniteSet(S), NEW f, \A x \in S : f[x] \in Nat, NEW g,
         NEW x \in S, g[x] \in Nat, \A y \in S \ {x} : g[y] = f[y]
  PROVE  Total(g, S) = Total(f, S) - f[x] + g[x]
<1>1. Coins(g, S \ {x}) = Coins(f, S \ {x})
  BY DEF Coins
<1>2. Total(g, S \ {x}) = Total(f, S \ {x})
  BY <1>1 DEF Total
<1>3. \A y \in S : g[y] \in Nat
  OBVIOUS
<1>4. Total(f, S) = Total(f, S \ {x}) + f[x] /\ Total(f, S \ {x}) \in Nat
  BY CoinsSplit
<1>5. Total(g, S) = Total(g, S \ {x}) + g[x]
  BY <1>3, CoinsSplit
<1>. QED BY <1>2, <1>4, <1>5

LEMMA TotalStays ==
  ASSUME NEW S, NEW f, NEW g, \A x \in S : g[x] = f[x]
  PROVE  Total(g, S) = Total(f, S)
BY DEF Total, Coins

(* Money: no campaign has cost more than it has reserved, so that what a   *)
(* refund gives back is what it takes from the campaign.                   *)
CostFits == \A c \in Campaigns : campaign[c].actual <= campaign[c].reserved

MoneyInv == SendInv /\ CostFits /\ balance \in [Users -> Nat] /\ MoneyIsKept

LEMMA MoneyFacts ==
  ASSUME MoneyInv
  PROVE  /\ IsFiniteSet(Users) /\ IsFiniteSet(Campaigns)
         /\ \A u \in Users : balance[u] \in Nat
         /\ \A c \in Campaigns : /\ campaign[c] \in CampaignRow
                                 /\ Reserved[c] = campaign[c].reserved
                                 /\ campaign[c].reserved \in Nat /\ campaign[c].actual \in Nat
                                 /\ campaign'[c].reserved = Reserved'[c]
         /\ Total(balance, Users) \in Nat /\ Total(Reserved, Campaigns) \in Nat
         /\ Total(Opening, Users) \in Nat
<1>1. /\ IsFiniteSet(Users) /\ IsFiniteSet(Campaigns)
      /\ \A u \in Users : balance[u] \in Nat /\ Opening[u] \in Nat
  BY SmsAssumption DEF MoneyInv
<1>2. \A c \in Campaigns : /\ campaign[c] \in CampaignRow
                           /\ Reserved[c] = campaign[c].reserved
                           /\ campaign[c].reserved \in Nat /\ campaign[c].actual \in Nat
                           /\ campaign'[c].reserved = Reserved'[c]
  BY DEF MoneyInv, SendInv, SendTypes, CampaignRow, Reserved
<1>3. /\ Total(balance, Users) \in Nat /\ Total(Reserved, Campaigns) \in Nat
      /\ Total(Opening, Users) \in Nat
  BY <1>1, <1>2, CoinsFinite
<1>. QED BY <1>1, <1>2, <1>3

(* An amount that goes from a wallet to a campaign, or back (by < 0).      *)
LEMMA CampaignPaid ==
  ASSUME MoneyInv, NEW c \in Campaigns, NEW u \in Users, NEW by \in Int,
         balance' \in [Users -> Nat], balance'[u] = balance[u] - by,
         \A v \in Users \ {u} : balance'[v] = balance[v],
         campaign'[c].reserved = campaign[c].reserved + by,
         campaign[c].reserved + by \in Nat,
         \A d \in Campaigns \ {c} : campaign'[d].reserved = campaign[d].reserved
  PROVE  MoneyIsKept'
<1>1. balance'[u] \in Nat
  OBVIOUS
<1>2. Total(balance', Users) = Total(balance, Users) - balance[u] + balance'[u]
  <2>1. IsFiniteSet(Users) /\ \A v \in Users : balance[v] \in Nat
    BY MoneyFacts
  <2>. QED BY <1>1, <2>1, TotalMoves
<1>3. /\ Reserved'[c] = Reserved[c] + by
      /\ \A d \in Campaigns \ {c} : Reserved'[d] = Reserved[d]
  BY MoneyFacts
<1>4. \A d \in Campaigns : Reserved[d] \in Nat
  BY MoneyFacts
<1>5. Reserved'[c] \in Nat
  BY <1>3, MoneyFacts
<1>6. Total(Reserved', Campaigns) = Total(Reserved, Campaigns) - Reserved[c] + Reserved'[c]
  BY <1>3, <1>4, <1>5, MoneyFacts, TotalMoves
<1>7. Total(balance', Users) + Total(Reserved', Campaigns) = Total(Opening, Users)
  BY <1>1, <1>2, <1>3, <1>4, <1>6, MoneyFacts DEF MoneyInv, MoneyIsKept
<1>8. Total(balance, Users)' = Total(balance', Users)
        /\ Total(Reserved, Campaigns)' = Total(Reserved', Campaigns)
        /\ Total(Opening, Users)' = Total(Opening, Users)
  BY DEF Total, Coins
<1>. QED BY <1>1, <1>7, <1>8 DEF MoneyIsKept

LEMMA MoneyStays ==
  ASSUME MoneyInv, UNCHANGED balance,
         \A d \in Campaigns : campaign'[d].reserved = campaign[d].reserved
  PROVE  balance' \in [Users -> Nat] /\ MoneyIsKept'
<1>1. \A d \in Campaigns : Reserved'[d] = Reserved[d]
  BY MoneyFacts
<1>2. Total(Reserved', Campaigns) = Total(Reserved, Campaigns)
  BY <1>1, TotalStays
<1>3. Total(balance, Users)' = Total(balance, Users)
        /\ Total(Reserved, Campaigns)' = Total(Reserved', Campaigns)
        /\ Total(Opening, Users)' = Total(Opening, Users)
  BY DEF Total, Coins
<1>. QED BY <1>2, <1>3 DEF MoneyInv, MoneyIsKept

LEMMA TransferKeeps ==
  ASSUME MoneyInv, NEW u \in Users, NEW v \in Users, NEW amount \in 1..balance[u],
         Transfer(u, v, amount)
  PROVE  MoneyInv'
<1> DEFINE between == [balance EXCEPT ![u] = balance[u] - amount]
<1>0. /\ u # v /\ balance[u] \in Nat /\ balance[v] \in Nat /\ amount \in Nat
      /\ balance[u] >= amount /\ DOMAIN balance = Users
  BY MoneyFacts DEF Transfer, MoneyInv
<1>1. /\ \A w \in Users : between[w] \in Nat /\ balance'[w] \in Nat
      /\ between[u] = balance[u] - amount /\ between[v] = balance[v]
      /\ \A w \in Users \ {u} : between[w] = balance[w]
      /\ balance'[v] = balance[v] + amount
      /\ \A w \in Users \ {v} : balance'[w] = between[w]
      /\ balance' \in [Users -> Nat]
  BY <1>0, MoneyFacts DEF Transfer
<1>. HIDE DEF between
<1>2. Total(between, Users) = Total(balance, Users) - balance[u] + between[u]
  BY <1>1, MoneyFacts, TotalMoves
<1>3. Total(balance', Users) = Total(between, Users) - between[v] + balance'[v]
  BY <1>1, MoneyFacts, TotalMoves
<1>4. Total(balance', Users) = Total(balance, Users)
  BY <1>0, <1>1, <1>2, <1>3, MoneyFacts
<1>5. UNCHANGED <<campaign, worker, delivered>>
  BY DEF Transfer
<1>6. Total(Reserved, Campaigns)' = Total(Reserved, Campaigns)
  BY <1>5 DEF Reserved, Total, Coins
<1>7. Total(balance, Users)' = Total(balance', Users)
        /\ Total(Opening, Users)' = Total(Opening, Users)
  BY DEF Total, Coins
<1>8. MoneyIsKept'
  BY <1>1, <1>4, <1>6, <1>7 DEF MoneyInv, MoneyIsKept
<1>9. CostFits' /\ SendInv'
  BY <1>5 DEF MoneyInv, CostFits, SendInv, SendTypes, OneSender, Progress, NotSentUnclaimed,
              Busy, SentAtMostOnce, ChargedAsSent
<1>. QED BY <1>1, <1>8, <1>9 DEF MoneyInv

LEMMA LargerOf ==
  ASSUME NEW n \in Nat
  PROVE  Max({0, n}) = n
<1>1. \A y \in {0, n} : n >= y
  OBVIOUS
<1>2. \A m \in {0, n} : (\A y \in {0, n} : m >= y) => m = n
  OBVIOUS
<1>. QED BY <1>1, <1>2 DEF Max

LEMMA RefundKeeps ==
  ASSUME MoneyInv, NEW w \in Workers, Refund(w)
  PROVE  CostFits' /\ balance' \in [Users -> Nat] /\ MoneyIsKept'
<1> DEFINE c == worker[w].on
           left == campaign[c].reserved - campaign[c].actual
           u == Owner[c]
<1>1. c \in Campaigns
  BY DEF MoneyInv, SendInv, SendTypes, Refund
<1>2. campaign[c].reserved \in Nat /\ campaign[c].actual \in Nat /\ u \in Users
  BY <1>1, MoneyFacts, SmsAssumption
<1>3. left \in Nat
  BY <1>1, <1>2 DEF MoneyInv, CostFits
<1>4. Max({0, left}) = left
  <2>. HIDE DEF left
  <2>. QED BY <1>3, LargerOf
<1>5. balance' = [balance EXCEPT ![u] = balance[u] + left]
  BY <1>4 DEF Refund
<1>6. /\ campaign'[c].reserved = campaign[c].actual /\ campaign'[c].actual = campaign[c].actual
      /\ \A d \in Campaigns \ {c} : campaign'[d] = campaign[d]
  BY <1>1, MoneyFacts DEF Refund, MoneyInv, SendInv, SendTypes, CampaignRow
<1>7. CostFits'
  BY <1>2, <1>6 DEF MoneyInv, CostFits
<1> DEFINE by == 0 - left
<1>8. /\ by \in Int /\ balance[u] - by = balance[u] + left /\ balance[u] - by \in Nat
      /\ campaign[c].reserved + by = campaign[c].actual
  BY <1>2, <1>3, MoneyFacts
<1>. HIDE DEF by, left, c, u
<1>9. /\ balance' \in [Users -> Nat] /\ balance'[u] = balance[u] - by
      /\ \A v \in Users \ {u} : balance'[v] = balance[v]
  BY <1>2, <1>5, <1>8, MoneyFacts DEF MoneyInv
<1>. QED BY <1>1, <1>2, <1>6, <1>7, <1>8, <1>9, CampaignPaid

LEMMA RunKeepsMoney ==
  ASSUME MoneyInv, NEW w \in Workers, WorkerRuns(w) \/ WorkerDies(w)
  PROVE  CostFits' /\ balance' \in [Users -> Nat] /\ MoneyIsKept'
<1> DEFINE c == worker[w].on
<1>1. CASE Refund(w)
  BY <1>1, RefundKeeps
<1>2. ASSUME UNCHANGED balance, \A d \in Campaigns : /\ campaign'[d].reserved = campaign[d].reserved
                                                     /\ campaign'[d].actual = campaign[d].actual
      PROVE  CostFits' /\ balance' \in [Users -> Nat] /\ MoneyIsKept'
  BY <1>2, MoneyStays DEF MoneyInv, CostFits
<1>3. CASE UNCHANGED <<balance, campaign>>
  BY <1>2, <1>3
<1>4. campaign \in [Campaigns -> CampaignRow]
  BY DEF MoneyInv, SendInv, SendTypes
<1>5. ASSUME \/ \E step \in CampaignStatus : campaign' = [campaign EXCEPT ![c].status = step]
             \/ campaign' = [campaign EXCEPT ![c].recipients = "sent"],
             UNCHANGED balance
      PROVE  CostFits' /\ balance' \in [Users -> Nat] /\ MoneyIsKept'
  <2>1. \A d \in Campaigns : /\ campaign'[d].reserved = campaign[d].reserved
                             /\ campaign'[d].actual = campaign[d].actual
    <3>1. CASE campaign' = [campaign EXCEPT ![c].recipients = "sent"]
      BY <1>4, <3>1 DEF CampaignRow
    <3>2. ASSUME NEW step \in CampaignStatus, campaign' = [campaign EXCEPT ![c].status = step]
          PROVE  \A d \in Campaigns : /\ campaign'[d].reserved = campaign[d].reserved
                                      /\ campaign'[d].actual = campaign[d].actual
      BY <1>4, <3>2 DEF CampaignRow
    <3>. QED BY <1>5, <3>1, <3>2
  <2>. QED BY <1>2, <1>5, <2>1
<1>6. CASE Claim(w)
  BY <1>3, <1>5, <1>6 DEF Claim, CampaignStatus
<1>7. CASE MarkRecipients(w)
  BY <1>5, <1>7 DEF MarkRecipients
<1>8. CASE MarkFailed(w)
  BY <1>5, <1>8 DEF MarkFailed, CampaignStatus
<1>9. CASE MarkSent(w)
  <2>1. c \in Campaigns /\ Busy(w) /\ worker[w].at = "reported"
    BY <1>9 DEF MoneyInv, SendInv, SendTypes, MarkSent, Busy
  <2>2. campaign[c].reserved = Cost[c] /\ Cost[c] \in Nat
    BY <2>1, SmsAssumption DEF MoneyInv, SendInv, Progress, ChargedAsSent
  <2>3. /\ campaign'[c].actual = Cost[c] /\ campaign'[c].reserved = campaign[c].reserved
        /\ \A d \in Campaigns \ {c} : campaign'[d] = campaign[d]
        /\ UNCHANGED balance
    BY <1>4, <1>9, <2>1 DEF MarkSent, CampaignRow
  <2>4. CostFits'
    BY <2>2, <2>3 DEF MoneyInv, CostFits
  <2>. QED BY <2>3, <2>4, MoneyStays
<1>. QED BY <1>1, <1>3, <1>6, <1>7, <1>8, <1>9
         DEF WorkerRuns, WorkerDies, PickCampaign, ProviderAccepts, ProviderRefuses, AnswerIsLost

LEMMA MoneyInvariant == Spec => []MoneyInv
<1>1. Init => MoneyInv
  <2> SUFFICES ASSUME Init PROVE MoneyInv
    OBVIOUS
  <2>1. SendInv
    BY DEF Init, SendInv, SendTypes, OneSender, Progress, NotSentUnclaimed, Busy,
           SentAtMostOnce, ChargedAsSent, Idle, NoCampaign, CampaignRow, CampaignStatus,
           WorkerStep
  <2>2. CostFits /\ balance \in [Users -> Nat] /\ balance = Opening
    BY SmsAssumption DEF Init, CostFits, NoCampaign
  <2>3. \A c \in Campaigns : Reserved[c] = 0
    BY DEF Init, NoCampaign, Reserved
  <2>4. Coins(Reserved, Campaigns) = {}
    <3>1. \A c \in Campaigns : {c} \X (1..Reserved[c]) = {}
      BY <2>3
    <3>. QED BY <3>1 DEF Coins
  <2>5. Total(Reserved, Campaigns) = 0
    BY <2>4, FS_EmptySet DEF Total
  <2>6. Total(Opening, Users) \in Nat
    BY SmsAssumption, CoinsFinite
  <2>. QED BY <2>1, <2>2, <2>5, <2>6 DEF MoneyInv, MoneyIsKept
<1>2. MoneyInv /\ SendInv' /\ [Next]_vars => MoneyInv'
  <2> SUFFICES ASSUME MoneyInv, SendInv', [Next]_vars PROVE MoneyInv'
    OBVIOUS
  <2>0. campaign \in [Campaigns -> CampaignRow]
    BY DEF MoneyInv, SendInv, SendTypes
  <2>1. ASSUME NEW c \in Campaigns, \/ \E ready \in BOOLEAN : CreateCampaign(c, ready)
                                    \/ ApproveTemplate(c)
        PROVE  MoneyInv'
    <3>1. UNCHANGED balance
      BY <2>1 DEF CreateCampaign, ApproveTemplate
    <3>2. PICK step \in CampaignStatus : campaign' = [campaign EXCEPT ![c].status = step]
      BY <2>1 DEF CreateCampaign, ApproveTemplate, CampaignStatus
    <3>3. \A d \in Campaigns : /\ campaign'[d].reserved = campaign[d].reserved
                               /\ campaign'[d].actual = campaign[d].actual
      BY <2>0, <3>2 DEF CampaignRow
    <3>. QED BY <3>1, <3>3, MoneyStays DEF MoneyInv, CostFits
  <2>2. ASSUME NEW c \in Campaigns, ReserveCampaign(c) PROVE MoneyInv'
    <3>1. /\ campaign[c].reserved = 0 /\ campaign[c].actual = 0
          /\ Owner[c] \in Users /\ Cost[c] \in Nat /\ balance[Owner[c]] >= Cost[c]
          /\ balance[Owner[c]] \in Nat
      BY <2>2, SmsAssumption, MoneyFacts DEF ReserveCampaign, MoneyInv, SendInv, ChargedAsSent
    <3>2. /\ campaign'[c].reserved = Cost[c] /\ campaign'[c].actual = campaign[c].actual
          /\ \A d \in Campaigns \ {c} : campaign'[d] = campaign[d]
      BY <2>0, <2>2 DEF ReserveCampaign, CampaignRow
    <3>3. /\ balance' \in [Users -> Nat] /\ balance'[Owner[c]] = balance[Owner[c]] - Cost[c]
          /\ \A v \in Users \ {Owner[c]} : balance'[v] = balance[v]
      BY <2>2, <3>1 DEF ReserveCampaign, MoneyInv
    <3>4. CostFits'
      BY <3>1, <3>2 DEF MoneyInv, CostFits
    <3>5. /\ balance[Owner[c]] - Cost[c] \in Nat /\ Cost[c] \in Int
          /\ campaign'[c].reserved = campaign[c].reserved + Cost[c]
          /\ campaign[c].reserved + Cost[c] \in Nat
      BY <3>1, <3>2
    <3>6. MoneyIsKept'
      BY <3>1, <3>2, <3>3, <3>5, CampaignPaid
    <3>. QED BY <3>3, <3>4, <3>6 DEF MoneyInv
  <2>3. ASSUME NEW w \in Workers, WorkerRuns(w) \/ WorkerDies(w) PROVE MoneyInv'
    BY <2>3, RunKeepsMoney DEF MoneyInv
  <2>4. CASE UNCHANGED vars
    BY <2>4, MoneyStays DEF vars, MoneyInv, CostFits
  <2>. QED BY <2>1, <2>2, <2>3, <2>4, TransferKeeps DEF Next
<1>. QED BY <1>1, <1>2, SendInvariant, PTL DEF Spec

(* What is in the wallets and what campaigns have reserved add up to what  *)
(* there was at the start, for any users, campaigns and workers: each      *)
(* charge and each refund is made once, wherever a worker stops.           *)
THEOREM MoneyAlwaysKept == Spec => []MoneyIsKept
<1>1. MoneyInv => MoneyIsKept
  BY DEF MoneyInv
<1>. QED BY <1>1, MoneyInvariant, PTL

----------------------------------------------------------------------------
(* The desk that prepares campaigns                                        *)

(* A text that a request has chosen was approved, unless it is gone; one   *)
(* that a request brings is its alone, and nobody else's row yet.          *)
Chosen ==
  \A a \in Attempts :
    LET r == attempt[a]
    IN /\ r = NoAttempt \/ (r.key \in Keys /\ r.text \in Copies)
       /\ r.step = "chosen" => vetted[r.text] # {} \/ ~copy[r.text].there
       /\ r.step = "own" => /\ ~copy[r.text].there /\ r.message \in Words
                            /\ \A b \in Attempts \ {a} : attempt[b].text # r.text

(* What an approved text says was approved. *)
ApprovedIsVetted ==
  \A x \in Copies :
    copy[x].there => /\ copy[x].says \in Words
                     /\ copy[x].status = "approved" => copy[x].says \in vetted[x]

(* What a campaign names is protected from deletion, and a text that was   *)
(* brought for it still says what the campaign does, or staff changed it.  *)
Protected ==
  \A k \in Keys :
    LET r == ordered[k]
    IN r.status # "none" =>
         /\ r.text \in Copies /\ copy[r.text].there
         /\ line[r.line] # "none"
         /\ r.own => copy[r.text].says = r.message \/ r.text \in rewritten

DeskInv == DeskTypeOK /\ Chosen /\ ApprovedIsVetted /\ Protected /\ PayableIsApproved

LEMMA DeskFacts ==
  /\ NoAttempt.step = "none" /\ NoAttempt.text = NoText /\ NoText \notin Copies
  /\ NoText \notin Words
  /\ NoAttempt \in AttemptRow /\ NotOrdered \in OrderedRow /\ NotOrdered.status = "none"
  /\ ~NoCopy.there /\ NoCopy \in CopyRow
  /\ \A w \in Words : /\ OwnCopy(w).there /\ OwnCopy(w).status # "approved"
                      /\ OwnCopy(w).says = w /\ OwnCopy(w) \in CopyRow
<1>1. NotOrdered.line \in Lines
  BY DeskAssumption DEF NotOrdered
<1>. QED BY <1>1, DeskAssumption
     DEF NoAttempt, AttemptRow, NotOrdered, OrderedRow, NoCopy, OwnCopy, CopyRow, Approval,
         WordsOrNone

LEMMA DeskTypes ==
  ASSUME DeskInv
  PROVE  /\ copy \in [Copies -> CopyRow] /\ line \in [Lines -> LineStatus]
         /\ ordered \in [Keys -> OrderedRow] /\ attempt \in [Attempts -> AttemptRow]
         /\ vetted \in [Copies -> SUBSET Words] /\ rewritten \subseteq Copies
         /\ \A k \in Keys : ordered[k].line \in Lines
         /\ \A a \in Attempts : attempt[a].line \in Lines
BY DEF DeskInv, DeskTypeOK, OrderedRow, AttemptRow

(* Nothing is taken away: texts stay and keep their approvals and, unless  *)
(* it is noted, their words; what is there anew was in no request's hands. *)
LEMMA TextsKeep ==
  ASSUME DeskInv, copy' \in [Copies -> CopyRow], vetted' \in [Copies -> SUBSET Words],
         \A x \in Copies : vetted[x] \subseteq vetted'[x],
         rewritten \subseteq rewritten', rewritten' \subseteq Copies,
         ApprovedIsVetted', UNCHANGED <<line, attempt>>,
         \A x \in Copies : copy[x].there =>
           copy'[x].there /\ (copy'[x].says = copy[x].says \/ x \in rewritten'),
         \A x \in Copies : copy'[x].there /\ ~copy[x].there => Unused(x),
         \/ ordered' = ordered
         \/ \E X \in SUBSET Copies :
              /\ \A x \in X : copy[x].says \in vetted'[x]
              /\ ordered' = [k \in Keys |->
                   IF Awaiting(X, k) THEN [ordered[k] EXCEPT !.status = "ready_for_payment"]
                   ELSE ordered[k]]
  PROVE  DeskInv'
<1>1. Chosen'
  BY DeskTypes, DeskFacts DEF DeskInv, Chosen, Unused, DeskTypeOK
<1>2. CASE ordered' = ordered
  <2>1. DeskTypeOK' /\ Protected'
    BY <1>2, DeskTypes DEF DeskInv, DeskTypeOK, Protected
  <2>2. PayableIsApproved'
    BY <1>2, DeskTypes DEF DeskInv, Protected, PayableIsApproved
  <2>. QED BY <1>1, <2>1, <2>2 DEF DeskInv
<1>3. ASSUME NEW X \in SUBSET Copies, \A x \in X : copy[x].says \in vetted'[x],
             ordered' = [k \in Keys |->
               IF Awaiting(X, k) THEN [ordered[k] EXCEPT !.status = "ready_for_payment"]
               ELSE ordered[k]]
      PROVE  DeskInv'
  <2>1. ASSUME NEW k \in Keys
        PROVE  /\ ordered'[k] \in OrderedRow
               /\ ordered'[k].text = ordered[k].text /\ ordered'[k].line = ordered[k].line
               /\ ordered'[k].own = ordered[k].own /\ ordered'[k].message = ordered[k].message
               /\ ordered'[k].status = "none" <=> ordered[k].status = "none"
               /\ ordered'[k].status = "ready_for_payment" =>
                    ordered[k].status = "ready_for_payment" \/ ordered[k].text \in X
    BY <1>3, DeskTypes DEF OrderedRow, Awaiting
  <2>2. DeskTypeOK'
    <3>1. ordered' \in [Keys -> OrderedRow]
      BY <1>3, <2>1
    <3>. QED BY <3>1, DeskTypes DEF DeskTypeOK
  <2>3. Protected'
    BY <2>1, DeskTypes DEF DeskInv, Protected
  <2>4. PayableIsApproved'
    <3> SUFFICES ASSUME NEW k \in Keys, ordered'[k].status = "ready_for_payment"
                 PROVE  LET r == ordered[k]
                        IN /\ copy'[r.text].there /\ line[r.line] # "none"
                           /\ vetted'[r.text] # {}
                           /\ r.own => r.message \in vetted'[r.text] \/ r.text \in rewritten'
      BY <2>1 DEF PayableIsApproved
    <3> DEFINE r == ordered[k]
    <3>1. r.status # "none" /\ r.text \in Copies /\ copy[r.text].there /\ line[r.line] # "none"
      BY <2>1 DEF DeskInv, Protected
    <3>2. CASE r.status = "ready_for_payment"
      BY <3>1, <3>2 DEF DeskInv, PayableIsApproved
    <3>3. CASE r.text \in X
      BY <1>3, <3>1, <3>3 DEF DeskInv, Protected
    <3>. QED BY <2>1, <3>2, <3>3
  <2>. QED BY <1>1, <2>2, <2>3, <2>4 DEF DeskInv
<1>. QED BY <1>2, <1>3

(* A request begins with a text that is approved, or that is new. *)
LEMMA RequestKeeps ==
  ASSUME DeskInv, NEW a \in Attempts, NEW r \in AttemptRow,
         attempt' = [attempt EXCEPT ![a] = r],
         UNCHANGED <<copy, line, ordered, vetted, rewritten>>,
         \/ r = NoAttempt
         \/ /\ r.key \in Keys /\ r.text \in Copies
            /\ \/ r.step = "chosen" /\ vetted[r.text] # {} /\ copy[r.text].there
               \/ r.step = "own" /\ Unused(r.text) /\ r.message \in Words
  PROVE  DeskInv'
<1>1. DeskTypeOK' /\ ApprovedIsVetted' /\ Protected' /\ PayableIsApproved'
  BY DeskTypes DEF DeskInv, DeskTypeOK, ApprovedIsVetted, Protected, PayableIsApproved
<1>2. \A b \in Attempts : attempt'[b] = IF b = a THEN r ELSE attempt[b]
  BY DeskTypes
<1>3. Chosen'
  <2> SUFFICES ASSUME NEW b \in Attempts
               PROVE  LET s == attempt'[b]
                      IN /\ s = NoAttempt \/ (s.key \in Keys /\ s.text \in Copies)
                         /\ s.step = "chosen" => vetted[s.text] # {} \/ ~copy[s.text].there
                         /\ s.step = "own" =>
                              /\ ~copy[s.text].there /\ s.message \in Words
                              /\ \A d \in Attempts \ {b} : attempt'[d].text # s.text
    BY DEF Chosen
  <2>1. CASE b = a
    BY <1>2, <2>1, DeskFacts DEF Unused
  <2>2. CASE b # a
    BY <1>2, <2>2, DeskFacts DEF DeskInv, Chosen, Unused
  <2>. QED BY <2>1, <2>2
<1>. QED BY <1>1, <1>3 DEF DeskInv

(* A request ends, and what it brought becomes a row. *)
LEMMA AnswerKeeps ==
  ASSUME DeskInv, NEW a \in Attempts, attempt[a] # NoAttempt,
         copy' = Committed(a), Ends(a), UNCHANGED <<line, vetted, rewritten>>,
         \/ ordered' = ordered
         \/ MakeCampaign(a)
  PROVE  DeskInv'
<1> DEFINE r == attempt[a]
<1>1. /\ r \in AttemptRow /\ r.key \in Keys /\ r.text \in Copies /\ r.line \in Lines
      /\ r.step = "own" => ~copy[r.text].there /\ r.message \in Words
  BY DeskTypes DEF DeskInv, Chosen
<1>2. \A b \in Attempts : attempt'[b] = IF b = a THEN NoAttempt ELSE attempt[b]
  BY DeskTypes DEF Ends
<1>3. \A x \in Copies :
        copy'[x] = IF r.step = "own" /\ x = r.text THEN OwnCopy(r.message) ELSE copy[x]
  BY DeskTypes DEF Committed
<1>4. copy' \in [Copies -> CopyRow] /\ attempt' \in [Attempts -> AttemptRow]
  BY <1>1, DeskTypes, DeskFacts DEF Committed, Ends
<1>5. Chosen'
  <2> SUFFICES ASSUME NEW b \in Attempts, attempt'[b] # NoAttempt
               PROVE  LET s == attempt'[b]
                      IN /\ s.key \in Keys /\ s.text \in Copies
                         /\ s.step = "chosen" => vetted[s.text] # {} \/ ~copy'[s.text].there
                         /\ s.step = "own" =>
                              /\ ~copy'[s.text].there /\ s.message \in Words
                              /\ \A d \in Attempts \ {b} : attempt'[d].text # s.text
    BY <1>2, DeskFacts DEF Chosen
  <2>1. b # a /\ attempt'[b] = attempt[b] /\ attempt[b] # NoAttempt
    BY <1>2
  <2>2. r.step = "own" => attempt[b].text # r.text
    BY <2>1 DEF DeskInv, Chosen
  <2>3. copy'[attempt[b].text] = copy[attempt[b].text]
    BY <1>3, <2>1, <2>2 DEF DeskInv, Chosen
  <2>. QED BY <1>2, <2>1, <2>3, DeskFacts DEF DeskInv, Chosen
<1>6. ApprovedIsVetted' /\ \A x \in Copies : copy[x].there => copy'[x] = copy[x]
  BY <1>1, <1>3, DeskFacts DEF DeskInv, ApprovedIsVetted
<1>7. CASE ordered' = ordered
  <2>1. DeskTypeOK' /\ Protected'
    BY <1>4, <1>6, <1>7, DeskTypes DEF DeskInv, DeskTypeOK, Protected
  <2>2. PayableIsApproved'
    BY <1>6, <1>7, DeskTypes DEF DeskInv, Protected, PayableIsApproved
  <2>. QED BY <1>5, <1>6, <2>1, <2>2 DEF DeskInv
<1>8. CASE MakeCampaign(a)
  <2>1. PICK k \in Keys, x \in Copies, n \in Lines, step \in {"chosen", "own"},
             w \in WordsOrNone :
          k = r.key /\ x = r.text /\ n = r.line /\ step = r.step /\ w = r.message
    BY <1>1, <1>8 DEF MakeCampaign, AttemptRow
  <2>2. PICK new \in OrderedRow :
          /\ ordered' = [ordered EXCEPT ![k] = new]
          /\ new.text = x /\ new.line = n /\ line[n] # "none" /\ new.message = w
          /\ step = "chosen" => copy[x].there
          /\ new.status = "ready_for_payment" => step = "chosen"
          /\ new.own <=> step = "own"
    <3>1. [status |-> IF step = "own" THEN "waiting_approval" ELSE "ready_for_payment",
           text |-> x, message |-> w, own |-> step = "own", line |-> n] \in OrderedRow
      BY DEF OrderedRow
    <3>. QED BY <1>8, <2>1, <3>1 DEF MakeCampaign
  <2>3. copy'[x].there /\ (step = "own" => copy'[x].says = w)
    BY <1>1, <1>3, <2>1, <2>2, DeskFacts
  <2>4. step = "chosen" => vetted[x] # {}
    BY <2>1, <2>2 DEF DeskInv, Chosen
  <2>5. \A j \in Keys : ordered'[j] = IF j = k THEN new ELSE ordered[j]
    BY <2>2, DeskTypes
  <2>6. DeskTypeOK'
    BY <1>4, <2>2, DeskTypes DEF DeskTypeOK
  <2>7. Protected'
    BY <1>6, <2>2, <2>3, <2>5 DEF DeskInv, Protected
  <2>8. PayableIsApproved'
    <3> SUFFICES ASSUME NEW j \in Keys, ordered'[j].status = "ready_for_payment"
                 PROVE  LET s == ordered'[j]
                        IN /\ copy'[s.text].there /\ line[s.line] # "none"
                           /\ vetted[s.text] # {}
                           /\ s.own => s.message \in vetted[s.text] \/ s.text \in rewritten
      BY DEF PayableIsApproved
    <3>1. CASE j = k
      BY <2>2, <2>3, <2>4, <2>5, <3>1
    <3>2. CASE j # k
      BY <1>6, <2>5, <3>2 DEF DeskInv, Protected, PayableIsApproved
    <3>. QED BY <3>1, <3>2
  <2>. QED BY <1>5, <1>6, <2>6, <2>7, <2>8 DEF DeskInv
<1>. QED BY <1>7, <1>8

LEMMA DeskInvHolds == DeskSpec => []DeskInv
<1>1. DeskInit => DeskInv
  BY DeskFacts DEF DeskInit, DeskInv, DeskTypeOK, Chosen, ApprovedIsVetted, Protected,
     PayableIsApproved, LineStatus
<1>2. DeskInv /\ [DeskNext]_deskVars => DeskInv'
  <2> SUFFICES ASSUME DeskInv, [DeskNext]_deskVars PROVE DeskInv'
    OBVIOUS
  <2>1. CASE UNCHANGED deskVars
    BY <2>1 DEF deskVars, DeskInv, DeskTypeOK, Chosen, ApprovedIsVetted, Protected,
                PayableIsApproved
  <2>2. ASSUME NEW n \in Lines, NEW status \in LineStatus, SaveLine(n, status) PROVE DeskInv'
    <3>1. /\ line' = [line EXCEPT ![n] = status]
          /\ UNCHANGED <<copy, ordered, attempt, vetted, rewritten>>
          /\ status = "none" => \A k \in Keys : ordered[k].status # "none" => ordered[k].line # n
      BY <2>2 DEF SaveLine, LineInUse
    <3>2. \A k \in Keys : ordered[k].status # "none" => line'[ordered[k].line] # "none"
      BY <3>1, DeskTypes DEF DeskInv, Protected
    <3>3. DeskTypeOK' /\ Chosen' /\ ApprovedIsVetted'
      BY <3>1, DeskTypes DEF DeskInv, DeskTypeOK, Chosen, ApprovedIsVetted
    <3>4. Protected' /\ PayableIsApproved'
      BY <3>1, <3>2 DEF DeskInv, Protected, PayableIsApproved
    <3>. QED BY <3>3, <3>4 DEF DeskInv
  <2>3. ASSUME NEW X \in SUBSET Copies, ApproveTexts(X) PROVE DeskInv'
    <3>1. \A x \in Copies :
            /\ copy'[x] = IF x \in X THEN [copy[x] EXCEPT !.status = "approved"] ELSE copy[x]
            /\ copy'[x] \in CopyRow /\ copy'[x].there = copy[x].there
            /\ copy'[x].says = copy[x].says
            /\ x \notin X => copy'[x].status = copy[x].status
      BY <2>3, DeskTypes DEF ApproveTexts, CopyRow, Approval
    <3>2. copy' \in [Copies -> CopyRow]
      <4>1. copy' = [x \in Copies |-> copy'[x]]
        BY <2>3 DEF ApproveTexts
      <4>. QED BY <3>1, <4>1
    <3>3. /\ \A x \in X : copy[x].there /\ copy[x].says \in Words
          /\ UNCHANGED <<line, attempt, rewritten>>
      BY <2>3 DEF ApproveTexts, DeskInv, ApprovedIsVetted
    <3>4. /\ vetted' \in [Copies -> SUBSET Words]
          /\ \A x \in Copies : vetted[x] \subseteq vetted'[x]
          /\ \A x \in X : copy[x].says \in vetted'[x]
      BY <2>3, <3>3, DeskTypes DEF ApproveTexts
    <3>5. ApprovedIsVetted'
      BY <3>1, <3>4 DEF DeskInv, ApprovedIsVetted
    <3>6. ordered' = [k \in Keys |->
            IF Awaiting(X, k) THEN [ordered[k] EXCEPT !.status = "ready_for_payment"]
            ELSE ordered[k]]
      BY <2>3 DEF ApproveTexts
    <3>. QED BY <3>1, <3>2, <3>3, <3>4, <3>5, <3>6, DeskTypes, TextsKeep
  <2>4. ASSUME NEW x \in Copies, DeleteText(x) PROVE DeskInv'
    <3>1. /\ copy' = [copy EXCEPT ![x] = NoCopy] /\ vetted' = [vetted EXCEPT ![x] = {}]
          /\ rewritten' = rewritten \ {x} /\ UNCHANGED <<line, ordered, attempt>>
          /\ \A k \in Keys : ordered[k].status # "none" => ordered[k].text # x
      BY <2>4 DEF DeleteText, TextInUse
    <3>2. \A y \in Copies : /\ copy'[y] = IF y = x THEN NoCopy ELSE copy[y]
                            /\ vetted'[y] = IF y = x THEN {} ELSE vetted[y]
                            /\ y # x => (y \in rewritten' <=> y \in rewritten)
      BY <3>1, DeskTypes
    <3>3. DeskTypeOK'
      BY <3>1, DeskTypes, DeskFacts DEF DeskTypeOK
    <3>4. Chosen'
      BY <3>1, <3>2, DeskFacts, DeskTypes DEF DeskInv, Chosen
    <3>5. ApprovedIsVetted'
      BY <3>1, <3>2, DeskFacts DEF DeskInv, ApprovedIsVetted
    <3>6. Protected'
      BY <3>1, <3>2 DEF DeskInv, Protected
    <3>7. PayableIsApproved'
      <4>1. \A k \in Keys : ordered[k].status = "ready_for_payment" =>
              ordered[k].text \in Copies \ {x}
        BY <3>1 DEF DeskInv, Protected
      <4>. QED BY <3>1, <3>2, <4>1 DEF DeskInv, PayableIsApproved
    <3>. QED BY <3>3, <3>4, <3>5, <3>6, <3>7 DEF DeskInv
  <2>5. ASSUME NEW x \in Copies, NEW w \in Words, WriteText(x, w) PROVE DeskInv'
    <3>1. /\ copy' = [copy EXCEPT ![x] = OwnCopy(w)] /\ Unused(x)
          /\ UNCHANGED <<line, ordered, attempt, vetted, rewritten>>
      BY <2>5 DEF WriteText
    <3>2. \A y \in Copies : copy'[y] = IF y = x THEN OwnCopy(w) ELSE copy[y]
      BY <3>1, DeskTypes
    <3>3. ApprovedIsVetted' /\ copy' \in [Copies -> CopyRow]
      BY <3>1, <3>2, DeskFacts, DeskTypes DEF DeskInv, ApprovedIsVetted
    <3>. QED BY <3>1, <3>2, <3>3, DeskFacts, DeskTypes, TextsKeep DEF Unused
  <2>6. ASSUME NEW x \in Copies, NEW row \in CopyRow, SaveText(x, row) PROVE DeskInv'
    <3>1. /\ copy' = [copy EXCEPT ![x] = row] /\ row.there /\ (copy[x].there \/ Unused(x))
          /\ row.says \in Words
          /\ vetted' = IF row.status = "approved"
                       THEN [vetted EXCEPT ![x] = @ \cup {row.says}] ELSE vetted
          /\ rewritten' = IF copy[x].there /\ copy[x].says # row.says
                          THEN rewritten \cup {x} ELSE rewritten
          /\ UNCHANGED <<line, ordered, attempt>>
      BY <2>6 DEF SaveText, CopyRow, WordsOrNone
    <3>2. \A y \in Copies : copy'[y] = IF y = x THEN row ELSE copy[y]
      BY <3>1, DeskTypes
    <3>3. /\ vetted' \in [Copies -> SUBSET Words]
          /\ \A y \in Copies : vetted[y] \subseteq vetted'[y]
          /\ row.status = "approved" => row.says \in vetted'[x]
          /\ rewritten \subseteq rewritten' /\ rewritten' \subseteq Copies
      BY <3>1, DeskTypes
    <3>4. ApprovedIsVetted'
      BY <3>1, <3>2, <3>3 DEF DeskInv, ApprovedIsVetted
    <3>5. copy' \in [Copies -> CopyRow]
      BY <3>1, DeskTypes
    <3>. QED BY <3>1, <3>2, <3>3, <3>4, <3>5, TextsKeep DEF Unused
  <2>7. ASSUME NEW x \in Copies, RefuseText(x) PROVE DeskInv'
    <3>1. copy' = [copy EXCEPT ![x].status = "open"]
          /\ UNCHANGED <<line, ordered, attempt, vetted, rewritten>>
      BY <2>7 DEF RefuseText
    <3>2. \A y \in Copies : /\ copy'[y].there = copy[y].there /\ copy'[y].says = copy[y].says
                            /\ y # x => copy'[y] = copy[y]
      BY <3>1, DeskTypes DEF CopyRow
    <3>3. copy'[x].status # "approved" /\ copy' \in [Copies -> CopyRow]
      BY <3>1, DeskTypes DEF CopyRow, Approval
    <3>4. ApprovedIsVetted'
      BY <3>1, <3>2, <3>3 DEF DeskInv, ApprovedIsVetted
    <3>. QED BY <3>1, <3>2, <3>3, <3>4, DeskTypes, TextsKeep
  <2>8. ASSUME NEW a \in Attempts, RollBack(a) PROVE DeskInv'
    BY <2>8, DeskFacts, RequestKeeps DEF RollBack, Ends
  <2>9. ASSUME NEW a \in Attempts, AnswerExisting(a) \/ MakeCampaign(a) PROVE DeskInv'
    <3>1. attempt[a] # NoAttempt
      BY <2>9, DeskFacts DEF AnswerExisting, MakeCampaign
    <3>. QED BY <2>9, <3>1, AnswerKeeps DEF AnswerExisting, MakeCampaign
  <2>10. ASSUME NEW a \in Attempts, NEW k \in Keys, NEW n \in Lines, NEW x \in Copies,
                NEW w \in Words, ChooseText(a, k, n, x, w) \/ BringText(a, k, n, x, w)
         PROVE  DeskInv'
    <3>1. PICK step \in {"chosen", "own"} :
            /\ attempt' = [attempt EXCEPT ![a] =
                 [step |-> step, key |-> k, text |-> x, message |-> w, line |-> n]]
            /\ UNCHANGED <<copy, line, ordered, vetted, rewritten>>
            /\ \/ step = "chosen" /\ copy[x].there /\ copy[x].status = "approved"
               \/ step = "own" /\ Unused(x)
      BY <2>10 DEF ChooseText, BringText
    <3> DEFINE r == [step |-> step, key |-> k, text |-> x, message |-> w, line |-> n]
    <3>2. r \in AttemptRow /\ r.key = k /\ r.text = x /\ r.step = step /\ r.message = w
      BY DEF AttemptRow, WordsOrNone
    <3>. HIDE DEF r
    <3>3. attempt' = [attempt EXCEPT ![a] = r]
      BY <3>1 DEF r
    <3>4. vetted[x] # {} \/ step = "own"
      BY <3>1 DEF DeskInv, ApprovedIsVetted
    <3>. QED BY <3>1, <3>2, <3>3, <3>4, RequestKeeps
  <2>. QED BY <2>1, <2>2, <2>3, <2>4, <2>5, <2>6, <2>7, <2>8, <2>9, <2>10 DEF DeskNext
<1>. QED BY <1>1, <1>2, PTL DEF DeskSpec

(* However requests are repeated and staff edit or delete meanwhile, a     *)
(* campaign that can be paid for has a line and a text that are there and  *)
(* that staff once approved; one whose text the customer brought says what *)
(* staff approved, unless they changed the text's words themselves.  What  *)
(* a message sent beside a chosen text says, nobody approves.              *)
THEOREM PayableAlwaysApproved == DeskSpec => []PayableIsApproved
<1>1. DeskInv => PayableIsApproved
  BY DEF DeskInv
<1>. QED BY <1>1, DeskInvHolds, PTL

----------------------------------------------------------------------------
(* The people who keep a store (Colleagues)                                *)

(* What an approval was read from may have changed since; that it was      *)
(* given has not.                                                          *)
Cleared ==
  /\ profile = Identified => "profile" \in approved
  /\ \A k \in Kinds : document[k] = "approved" => k \in approved
  /\ deciding # NotDeciding =>
       /\ deciding.role \in ColleagueRoles /\ Exists
       /\ deciding.step = "identified" => "profile" \in approved

Admitted ==
  /\ membership.active => membership.status = "active"
  /\ membership.status \in {"admin_review", "active"} =>
       /\ word = membership.role /\ membership.role \in ColleagueRoles
       /\ approved = Kinds \cup {"profile"}

ColleaguesInv == ColleaguesTypeOK /\ Cleared /\ Admitted

LEMMA ColleagueFacts ==
  ASSUME ColleaguesTypeOK
  PROVE  /\ profile = [status |-> profile.status, phone |-> profile.phone]
         /\ profile.status \in ProfileStatus /\ profile.phone \in PhoneStatus
         /\ membership.status \in MembershipStatus /\ membership.active \in BOOLEAN
         /\ membership.role \in ColleagueRoles \cup {"none"}
         /\ deciding = [step |-> deciding.step, role |-> deciding.role]
         /\ "no" \notin ColleagueRoles
         /\ "none" \notin ColleagueRoles
BY DEF ColleaguesTypeOK, ProfileRow, MembershipRow, Deciding, ColleagueRoles

(* What the user and the staff do to the profile and the documents. *)
LEMMA IdentityKeeps ==
  ASSUME ColleaguesInv, UNCHANGED storeSide,
         profile' \in ProfileRow, document' \in [Kinds -> DocumentStatus],
         submitting' \in BOOLEAN,
         approved \subseteq approved', approved' \subseteq Kinds \cup {"profile"},
         profile' = Identified => "profile" \in approved',
         \A k \in Kinds : document'[k] = "approved" => k \in approved'
  PROVE  ColleaguesInv'
<1>1. ColleaguesTypeOK' /\ Cleared'
  BY DEF ColleaguesInv, ColleaguesTypeOK, Cleared, storeSide, Exists
<1>2. approved = Kinds \cup {"profile"} => approved' = approved
  OBVIOUS
<1>3. Admitted'
  BY <1>2 DEF ColleaguesInv, Admitted, storeSide
<1>. QED BY <1>1, <1>3 DEF ColleaguesInv

(* What the owner does, and the staff's last word, to the membership. *)
LEMMA MembershipKeeps ==
  ASSUME ColleaguesInv, UNCHANGED <<identityVars, approved>>, deciding' = NotDeciding,
         NEW m \in MembershipRow, membership' = m, word' \in ColleagueRoles \cup {"no"},
         m.active => m.status = "active",
         m.status \in {"admin_review", "active"} =>
           /\ word' = m.role /\ m.role \in ColleagueRoles
           /\ approved = Kinds \cup {"profile"}
  PROVE  ColleaguesInv'
<1>1. NotDeciding \in Deciding
  BY DEF NotDeciding, Deciding
<1>. QED BY <1>1 DEF ColleaguesInv, ColleaguesTypeOK, Cleared, Admitted, identityVars

LEMMA ColleaguesInvHolds == ColleaguesSpec => []ColleaguesInv
<1>1. ColleaguesInit => ColleaguesInv
  <2>1. NoProfile \in ProfileRow /\ NoProfile # Identified
    BY DEF NoProfile, ProfileRow, ProfileStatus, PhoneStatus, Identified
  <2>2. NoMembership \in MembershipRow /\ ~NoMembership.active /\ NoMembership.status = "none"
    BY DEF NoMembership, MembershipRow, MembershipStatus
  <2>3. NotDeciding \in Deciding
    BY DEF NotDeciding, Deciding
  <2>. QED BY <2>1, <2>2, <2>3 DEF ColleaguesInit, ColleaguesInv, ColleaguesTypeOK, Cleared,
           Admitted, DocumentStatus
<1>2. ColleaguesInv /\ [ColleaguesNext]_colleagueVars => ColleaguesInv'
  <2> SUFFICES ASSUME ColleaguesInv, [ColleaguesNext]_colleagueVars PROVE ColleaguesInv'
    OBVIOUS
  <2>0. ColleaguesTypeOK /\ Cleared /\ Admitted
    BY DEF ColleaguesInv
  <2>1. CASE UNCHANGED colleagueVars
    BY <2>1 DEF colleagueVars, ColleaguesInv, ColleaguesTypeOK, Cleared, Admitted, Exists
  <2>2. CASE SaveProfile \/ BeginSubmit \/ AbortSubmit
    <3>1. /\ profile' \in ProfileRow /\ (profile' = Identified => profile = Identified)
          /\ submitting' \in BOOLEAN /\ UNCHANGED <<document, approved, storeSide>>
      <4>1. [profile EXCEPT !.status = "pending"] \in ProfileRow \ {Identified}
        BY <2>0 DEF ColleaguesTypeOK, ProfileRow, ProfileStatus, Identified
      <4>. QED BY <2>0, <2>2, <4>1
               DEF SaveProfile, BeginSubmit, AbortSubmit, ColleaguesTypeOK
    <3>. QED BY <2>0, <3>1, IdentityKeeps DEF ColleaguesTypeOK, Cleared
  <2>3. ASSUME NEW phone \in {"matched", "mismatched", "manual_review"}, EndSubmit(phone)
        PROVE  ColleaguesInv'
    <3>1. /\ profile' \in ProfileRow /\ profile' # Identified /\ submitting' \in BOOLEAN
          /\ UNCHANGED <<document, approved, storeSide>>
      BY <2>3 DEF EndSubmit, ProfileRow, ProfileStatus, PhoneStatus, Identified
    <3>. QED BY <2>0, <3>1, IdentityKeeps DEF ColleaguesTypeOK, Cleared
  <2>4. ASSUME NEW k \in Kinds, UploadDocument(k) PROVE ColleaguesInv'
    <3>1. profile' \in ProfileRow /\ (profile' = Identified => profile = Identified)
      BY <2>0, <2>4, ColleagueFacts
         DEF UploadDocument, ProfileRow, ProfileStatus, Identified, ColleaguesTypeOK
    <3>2. /\ document' = [document EXCEPT ![k] = "pending"]
          /\ UNCHANGED <<submitting, approved, storeSide>>
      BY <2>4 DEF UploadDocument
    <3>3. document' \in [Kinds -> DocumentStatus]
      BY <2>0, <3>2 DEF ColleaguesTypeOK, DocumentStatus
    <3>. QED BY <2>0, <3>1, <3>2, <3>3, IdentityKeeps DEF ColleaguesTypeOK, Cleared
  <2>5. ASSUME NEW k \in Kinds, DeleteDocument(k) \/ RefuseDocument(k) PROVE ColleaguesInv'
    <3>1. PICK status \in {"none", "rejected"} :
            /\ document' = [document EXCEPT ![k] = status]
            /\ UNCHANGED <<profile, submitting, approved, storeSide>>
      BY <2>5 DEF DeleteDocument, RefuseDocument
    <3>2. document' \in [Kinds -> DocumentStatus]
      BY <2>0, <3>1 DEF ColleaguesTypeOK, DocumentStatus
    <3>. QED BY <2>0, <3>1, <3>2, IdentityKeeps DEF ColleaguesTypeOK, Cleared
  <2>6. ASSUME NEW k \in Kinds, ApproveDocument(k) PROVE ColleaguesInv'
    <3>1. /\ document' = [document EXCEPT ![k] = "approved"] /\ approved' = approved \cup {k}
          /\ UNCHANGED <<profile, submitting, storeSide>>
      BY <2>6 DEF ApproveDocument
    <3>2. document' \in [Kinds -> DocumentStatus]
      BY <2>0, <3>1 DEF ColleaguesTypeOK, DocumentStatus
    <3>. QED BY <2>0, <3>1, <3>2, IdentityKeeps DEF ColleaguesTypeOK, Cleared
  <2>7. CASE ApproveProfile \/ \E row \in ProfileRow : SaveProfileForm(row)
    <3>1. /\ profile' \in ProfileRow /\ UNCHANGED <<document, submitting, storeSide>>
          /\ approved' = approved \/ approved' = approved \cup {"profile"}
          /\ profile' = Identified => "profile" \in approved'
      BY <2>7 DEF ApproveProfile, SaveProfileForm, Identified, ProfileRow, ProfileStatus,
                  PhoneStatus
    <3>. QED BY <2>0, <3>1, IdentityKeeps DEF ColleaguesTypeOK, Cleared
  <2>8. CASE ApproveMembership
    <3> DEFINE m == [membership EXCEPT !.status = "active", !.active = TRUE]
    <3>1. /\ membership.status = "admin_review" /\ membership' = m
          /\ deciding' = NotDeciding /\ word' = word
          /\ UNCHANGED <<identityVars, approved>>
      BY <2>8 DEF ApproveMembership
    <3>2. m \in MembershipRow /\ m.role = membership.role /\ m.status = "active"
      BY <2>0 DEF ColleaguesTypeOK, MembershipRow, MembershipStatus
    <3>. HIDE DEF m
    <3>. QED BY <2>0, <3>1, <3>2, MembershipKeeps DEF ColleaguesTypeOK, Admitted
  <2>9. ASSUME NEW role \in ColleagueRoles, Invite(role) \/ Dismiss(role) PROVE ColleaguesInv'
    <3>1. PICK m \in MembershipRow :
            /\ membership' = m /\ ~m.active /\ m.status \notin {"admin_review", "active"}
      <4>1. \A status \in MembershipStatus :
              [status |-> status, active |-> FALSE, role |-> role] \in MembershipRow
        BY DEF MembershipRow
      <4>. QED BY <2>9, <4>1 DEF Invite, Dismiss, MembershipStatus
    <3>2. word' = "no" /\ deciding' = NotDeciding /\ UNCHANGED <<identityVars, approved>>
      BY <2>9 DEF Invite, Dismiss
    <3>. QED BY <3>1, <3>2, MembershipKeeps
  <2>10. ASSUME NEW role \in ColleagueRoles, ChangeRole(role) PROVE ColleaguesInv'
    <3> DEFINE m == [membership EXCEPT !.role = role]
    <3>1. /\ membership' = m /\ deciding' = NotDeciding
          /\ word' = IF word = "no" THEN "no" ELSE role
          /\ UNCHANGED <<identityVars, approved>>
      BY <2>10 DEF ChangeRole
    <3>2. /\ m \in MembershipRow /\ m.role = role /\ m.status = membership.status
          /\ m.active = membership.active
      BY <2>0 DEF ColleaguesTypeOK, MembershipRow
    <3>. HIDE DEF m
    <3>3. m.status \in {"admin_review", "active"} => word # "no"
      BY <2>0, <3>2, ColleagueFacts DEF Admitted
    <3>. QED BY <2>0, <3>1, <3>2, <3>3, MembershipKeeps DEF Admitted
  <2>11. ASSUME NEW role \in ColleagueRoles, BeginAdmission(role) PROVE ColleaguesInv'
    <3>1. /\ deciding' = [role |-> role, step |->
               IF profile = Identified THEN "identified" ELSE "unknown"]
          /\ Exists /\ UNCHANGED <<identityVars, approved, membership, word>>
      BY <2>11 DEF BeginAdmission
    <3>2. deciding' \in Deciding /\ deciding'.role = role
          /\ (deciding'.step = "identified" => profile = Identified)
      BY <3>1 DEF Deciding
    <3>. QED BY <2>0, <3>1, <3>2
         DEF ColleaguesInv, ColleaguesTypeOK, Cleared, Admitted, identityVars, Exists
  <2>12. CASE EndAdmission
    <3>1. PICK status \in {"admin_review", "profile_incomplete"} :
            /\ membership' = [status |-> status, active |-> FALSE, role |-> deciding.role]
            /\ status = "admin_review" =>
                 /\ deciding.step = "identified"
                 /\ \A k \in Kinds : document[k] = "approved"
            /\ word' = deciding.role /\ deciding' = NotDeciding
            /\ UNCHANGED <<identityVars, approved>> /\ deciding # NotDeciding
      BY <2>12 DEF EndAdmission
    <3> DEFINE m == [status |-> status, active |-> FALSE, role |-> deciding.role]
    <3>2. /\ deciding.role \in ColleagueRoles
          /\ deciding.step = "identified" => "profile" \in approved
      BY <2>0, <3>1 DEF Cleared
    <3>3. m \in MembershipRow /\ m.status = status /\ ~m.active /\ m.role = deciding.role
      BY <3>2 DEF MembershipRow, MembershipStatus
    <3>4. membership' = m
      BY <3>1
    <3>. HIDE DEF m
    <3>5. status = "admin_review" => approved = Kinds \cup {"profile"}
      BY <2>0, <3>1, <3>2 DEF Cleared, ColleaguesTypeOK
    <3>. QED BY <3>1, <3>2, <3>3, <3>4, <3>5, MembershipKeeps
  <2>. QED BY <2>1, <2>2, <2>3, <2>4, <2>5, <2>6, <2>7, <2>8, <2>9, <2>10, <2>11, <2>12
       DEF ColleaguesNext
<1>. QED BY <1>1, <1>2, PTL DEF ColleaguesSpec

(* Whoever may read or write in another's store was admitted by its owner  *)
(* in a role that allows it, and staff approved his profile and each of    *)
(* his documents, whatever is edited between the statements that ask.      *)
THEOREM ActiveAlwaysVetted == ColleaguesSpec => []ActiveAreVetted
<1>1. ColleaguesInv => ActiveAreVetted
  BY DEF ColleaguesInv, Admitted, ActiveAreVetted, MayEnter, WriteRoles, ColleagueRoles
<1>. QED BY <1>1, ColleaguesInvHolds, PTL

----------------------------------------------------------------------------
(* Support tickets (SupportTickets)                                        *)

TicketInv ==
  /\ TicketTypeOK
  /\ members \subseteq {Customer} \cup appointed
  /\ \A s \in Staff : assigning[s] # Unassigned => assigning[s] \in appointed
  /\ AnswersAreAppointed

LEMMA TicketInvHolds == TicketSpec => []TicketInv
<1>1. TicketInit => TicketInv
  <2>1. NoTicket \in TicketRow
    BY DEF NoTicket, TicketRow, TicketStatus
  <2>2. NoMessage \in MessageRow /\ NoMessage.how = "none"
    BY DEF NoMessage, MessageRow
  <2>. QED BY <2>1, <2>2 DEF TicketInit, TicketInv, TicketTypeOK, AnswersAreAppointed
<1>2. TicketInv /\ [TicketNext]_ticketVars => TicketInv'
  <2> SUFFICES ASSUME TicketInv, [TicketNext]_ticketVars PROVE TicketInv'
    OBVIOUS
  <2> USE TicketAssumption DEF TicketInv, TicketTypeOK, AnswersAreAppointed
  <2>1. CASE UNCHANGED ticketVars
    BY <2>1 DEF ticketVars
  <2>2. CASE OpenTicket \/ DeleteTicket
    <3>1. NoTicket \in TicketRow /\ [NoTicket EXCEPT !.there = TRUE] \in TicketRow
      BY DEF NoTicket, TicketRow, TicketStatus
    <3>. QED BY <2>2, <3>1 DEF OpenTicket, DeleteTicket
  <2>3. ASSUME NEW e \in Edits, BeginEdit(e) PROVE TicketInv'
    BY <2>3 DEF BeginEdit
  <2>4. ASSUME NEW e \in Edits, NEW status \in TicketStatus, NEW p \in People \cup {Unassigned},
               EndEdit(e, status, p)
        PROVE  TicketInv'
    <3>1. ticket' \in TicketRow
      BY <2>4 DEF EndEdit, TicketRow
    <3>. QED BY <2>4, <3>1 DEF EndEdit
  <2>5. ASSUME NEW s \in Staff, NEW p \in People, WriteAssignee(s, p) PROVE TicketInv'
    <3>1. ticket' \in TicketRow
      BY <2>5 DEF WriteAssignee, TicketRow, TicketStatus
    <3>2. /\ assigning' = [assigning EXCEPT ![s] = p] /\ appointed' = appointed \cup {p}
          /\ UNCHANGED <<members, socket, edit, judging, message, answered>>
      BY <2>5 DEF WriteAssignee
    <3>. QED BY <3>1, <3>2
  <2>6. ASSUME NEW s \in Staff, AdmitAssignee(s) PROVE TicketInv'
    BY <2>6 DEF AdmitAssignee
  <2>7. ASSUME NEW s \in Staff, AssignmentDies(s) PROVE TicketInv'
    BY <2>7 DEF AssignmentDies
  <2>8. ASSUME NEW p \in People, Connect(p) \/ Disconnect(p) \/ BeginJudging(p)
        PROVE  TicketInv'
    BY <2>8 DEF Connect, Disconnect, BeginJudging
  <2>9. ASSUME NEW status \in TicketStatus, EndJudging(status) PROVE TicketInv'
    <3>1. ticket' \in TicketRow
      BY <2>9 DEF EndJudging, TicketRow
    <3>. QED BY <2>9, <3>1 DEF EndJudging
  <2>10. ASSUME NEW p \in People, Say(p) \/ PostMessage(p) \/ PutMessage(p)
         PROVE  TicketInv'
    <3>1. PICK how \in {"sent", "put"} : message' = [how |-> how, by |-> p]
      BY <2>10 DEF Say, PostMessage, PutMessage, Tells
    <3>2. message' \in MessageRow /\ message'.by = p
      BY <3>1 DEF MessageRow
    <3>3. p \in members
          /\ UNCHANGED <<ticket, members, socket, assigning, edit, judging, appointed, answered>>
      BY <2>10 DEF Say, PostMessage, PutMessage, Tells
    <3>. QED BY <3>2, <3>3
  <2>11. ASSUME MoveIn \/ \E p \in People : RemoveMessage(p) PROVE TicketInv'
    <3>1. message' \in MessageRow /\ message'.how \notin {"sent", "put"}
      BY <2>11 DEF MoveIn, RemoveMessage, NoMessage, MessageRow
    <3>2. UNCHANGED <<ticket, members, socket, assigning, edit, judging, appointed, answered>>
      BY <2>11 DEF MoveIn, RemoveMessage
    <3>. QED BY <3>1, <3>2
  <2>. QED BY <2>1, <2>2, <2>3, <2>4, <2>5, <2>6, <2>7, <2>8, <2>9, <2>10, <2>11
       DEF TicketNext
<1>. QED BY <1>1, <1>2, PTL DEF TicketSpec

(* However edits, assignments that die half-way, sockets and requests to   *)
(* the API cross, nobody but the customer and whom staff assigned sends    *)
(* into a ticket's room or puts what is in it, under whatever name; what   *)
(* else is there was moved in from another room.  And he of whom staff     *)
(* were told that the ticket is assigned to him can answer.                *)
THEOREM AnswersAlwaysAppointed == TicketSpec => []AnswersAreAppointed
<1>1. TicketInv => AnswersAreAppointed
  BY DEF TicketInv
<1>. QED BY <1>1, TicketInvHolds, PTL

----------------------------------------------------------------------------
(* Push notifications (NotificationRouting)                                *)

(* A registration that is sent to is of whoever registered the device last *)
(* and kept it.                                                            *)
CarriedByItsUser == \A d \in Devices : device[d].active => carrier[d] = device[d].of

(* A notification on its way was let through, also by its user's own clock *)
(* if that is UTC's; what the provider has read of its user's devices he   *)
(* has carried.                                                            *)
LetThrough ==
  \A n \in Pushes :
    /\ push[n].at \in {"accepted", "addressed"} => window[n].open /\ window[n].own
    /\ push[n].at = "addressed" => push[n].tokens \subseteq window[n].devices

WindowRow == [devices: SUBSET Devices, open: BOOLEAN, own: BOOLEAN]

(* The preferences let the topic through now, and by the user's own clock  *)
(* if they name no zone but UTC.                                           *)
Heeded(row, topic) ==
  LetsThrough(row, topic, hour) /\ (Abroad(row) \/ Welcome(row, topic, hour))

RoutingInv ==
  /\ RoutingTypeOK
  /\ window \in [Pushes -> WindowRow]
  /\ CarriedByItsUser /\ LetThrough /\ ShownToItsUser

(* Of two hours of a day, how long the one is after the other. *)
LEMMA HoursBetween ==
  ASSUME NEW h \in HoursOfDay, NEW from \in HoursOfDay
  PROVE  (h - from) % Clock = IF from <= h THEN h - from ELSE h - from + Clock
<1>1. Clock \in Nat \ {0} /\ h \in Int /\ from \in Int
  BY RoutingAssumption DEF HoursOfDay
<1>2. CASE from <= h
  <2>1. (h - from) \in 0..(Clock - 1)
    BY <1>1, <1>2 DEF HoursOfDay
  <2>. QED BY <1>1, <1>2, <2>1
<1>3. CASE h < from
  <2>1. (h - from + Clock) \in 0..(Clock - 1)
    BY <1>1, <1>3 DEF HoursOfDay
  <2>. QED BY <1>1, <1>3, <2>1
<1>. QED BY <1>1, <1>2, <1>3

(* The comparison of the code, whether or not the hours go past midnight,  *)
(* and what the user meant.                                                *)
LEMMA QuietIsBetween ==
  ASSUME NEW q \in Habits, NEW h \in HoursOfDay, ~IsQuiet(q, h)
  PROVE  ~Between(h, q.from, q.to)
<1>1. q.from \in HoursOfDay /\ q.to \in HoursOfDay /\ q # Always /\ Clock \in Nat \ {0}
  BY RoutingAssumption DEF HoursOfDay, Always
<1>2. /\ (h - q.from) % Clock = IF q.from <= h THEN h - q.from ELSE h - q.from + Clock
      /\ (q.to - q.from) % Clock = IF q.from <= q.to THEN q.to - q.from
                                   ELSE q.to - q.from + Clock
  BY <1>1, HoursBetween
<1>. QED BY <1>1, <1>2 DEF IsQuiet, Between, HoursOfDay

LEMMA SentIsHeeded ==
  ASSUME RoutingTypeOK, NEW row \in PreferenceRow, NEW topic, ShouldSend(row, topic)
  PROVE  /\ row # NoPreference => Heeded(row, topic)
         /\ row = Default => Heeded(NoPreference, topic)
<1>1. row.push /\ topic \notin row.muted /\ ~IsQuiet(row.quiet, hour)
  BY DEF ShouldSend
<1>2. row.quiet # Always => ~Between(hour, row.quiet.from, row.quiet.to)
  BY <1>1, QuietIsBetween DEF PreferenceRow, QuietHours, RoutingTypeOK
<1>3. Wanted(row, topic, hour)
  BY <1>1, <1>2 DEF Wanted
<1>4. hour % Clock = hour
  BY RoutingAssumption DEF RoutingTypeOK, HoursOfDay
<1>5. row.zone = 0 => OwnHour(row, hour) = hour
  BY <1>4, RoutingAssumption DEF OwnHour, RoutingTypeOK, HoursOfDay
<1>6. row.zone = 0 => Wanted(row, topic, OwnHour(row, hour))
  BY <1>3, <1>5
<1>. QED BY <1>3, <1>6 DEF Heeded, LetsThrough, Abroad, Welcome, Asked

(* What has been so since a notification was asked for stays so. *)
LEMMA WindowsGrow ==
  ASSUME RoutingInv, Watch
  PROVE  /\ window' \in [Pushes -> WindowRow]
         /\ \A n \in Pushes :
              /\ window[n].devices \subseteq window'[n].devices
              /\ window[n].open => window'[n].open
              /\ window[n].own => window'[n].own
              /\ push'[n].at # "none" =>
                   /\ \A d \in Devices : carrier'[d] = AddresseeOf[n] => d \in window'[n].devices
                   /\ push'[n].forced \/ Heeded(preference[AddresseeOf[n]], push'[n].topic)
                      => window'[n].open /\ window'[n].own
<1>1. ASSUME NEW n \in Pushes
      PROVE  /\ window'[n] \in WindowRow
             /\ window[n].devices \subseteq window'[n].devices
             /\ window[n].open => window'[n].open
             /\ window[n].own => window'[n].own
             /\ push'[n].at # "none" =>
                  /\ \A d \in Devices : carrier'[d] = AddresseeOf[n] => d \in window'[n].devices
                  /\ push'[n].forced \/ Heeded(preference[AddresseeOf[n]], push'[n].topic)
                     => window'[n].open /\ window'[n].own
  <2> DEFINE u == AddresseeOf[n]
             topic == push'[n].topic
             carried == window[n].devices \cup {d \in Devices : carrier'[d] = u}
             opened == \/ window[n].open \/ push'[n].forced
                       \/ LetsThrough(preference[u], topic, hour)
                       \/ LetsThrough(preference'[u], topic, hour')
             owned == \/ window[n].own \/ push'[n].forced
                      \/ Abroad(preference[u]) \/ Welcome(preference[u], topic, hour)
                      \/ Abroad(preference'[u]) \/ Welcome(preference'[u], topic, hour')
  <2>1. /\ window[n].devices \subseteq Devices
        /\ window[n].open \in BOOLEAN /\ window[n].own \in BOOLEAN
        /\ window[n] \in WindowRow
    BY DEF RoutingInv, WindowRow
  <2>2. CASE push'[n].at = "none"
    BY <2>1, <2>2 DEF Watch
  <2>3. CASE push'[n].at # "none"
    <3>1. window'[n] = [devices |-> carried, open |-> opened, own |-> owned]
      BY <2>3 DEF Watch
    <3>2. opened \in BOOLEAN /\ owned \in BOOLEAN /\ carried \in SUBSET Devices
      BY <2>1
    <3>3. /\ window[n].devices \subseteq carried
          /\ \A d \in Devices : carrier'[d] = u => d \in carried
          /\ window[n].open => opened
          /\ window[n].own => owned
      OBVIOUS
    <3>4. push'[n].forced \/ Heeded(preference[u], topic) => opened /\ owned
      BY DEF Heeded
    <3>. HIDE DEF carried, opened, owned
    <3>5. window'[n].devices = carried /\ window'[n].open = opened /\ window'[n].own = owned
      BY <3>1
    <3>6. window'[n] \in WindowRow
      BY <3>1, <3>2 DEF WindowRow
    <3>. QED BY <3>3, <3>4, <3>5, <3>6
  <2>. QED BY <2>2, <2>3
<1>2. window' = [n \in Pushes |-> window'[n]]
  BY DEF Watch
<1>. QED BY <1>1, <1>2

(* A step that keeps the rows and whose pushes were let through. *)
LEMMA RoutingKeeps ==
  ASSUME RoutingInv, RoutingTypeOK', Watch, CarriedByItsUser',
         \A s \in shown' \ shown :
           push[s.of].at = "addressed" /\ s.on \in push[s.of].tokens,
         \A n \in Pushes :
           \/ push'[n] = push[n]
           \/ push'[n].at \in {"creating", "over"}
           \/ push'[n].at = "accepted" /\
                \/ push'[n].forced
                \/ Heeded(preference[AddresseeOf[n]], push'[n].topic)
                \/ push[n].at = "addressed"
           \/ /\ push'[n].at = "addressed" /\ push[n].at = "accepted"
              /\ push'[n].tokens \subseteq Devices
              /\ \A d \in push'[n].tokens : carrier'[d] = AddresseeOf[n]
  PROVE  RoutingInv'
<1>1. \A n \in Pushes :
        /\ window[n].devices \subseteq window'[n].devices
        /\ window[n].open => window'[n].open
        /\ window[n].own => window'[n].own
        /\ push'[n].at # "none" =>
             /\ \A d \in Devices : carrier'[d] = AddresseeOf[n] => d \in window'[n].devices
             /\ push'[n].forced \/ Heeded(preference[AddresseeOf[n]], push'[n].topic)
                => window'[n].open /\ window'[n].own
  BY WindowsGrow
<1>2. ASSUME NEW n \in Pushes
      PROVE  /\ push'[n].at \in {"accepted", "addressed"} =>
                  window'[n].open /\ window'[n].own
             /\ push'[n].at = "addressed" => push'[n].tokens \subseteq window'[n].devices
  BY <1>1 DEF RoutingInv, LetThrough
<1>3. ShownToItsUser'
  <2> SUFFICES ASSUME NEW s \in shown'
               PROVE  /\ s.on \in window'[s.of].devices
                      /\ window'[s.of].open /\ window'[s.of].own
    BY DEF ShownToItsUser
  <2>1. s.of \in Pushes
    BY DEF RoutingTypeOK
  <2>2. s.on \in window[s.of].devices /\ window[s.of].open /\ window[s.of].own
    BY <2>1 DEF RoutingInv, ShownToItsUser, LetThrough
  <2>. QED BY <1>1, <2>1, <2>2
<1>. QED BY <1>2, <1>3, WindowsGrow DEF RoutingInv, LetThrough

LEMMA RoutingFacts ==
  /\ Default \in PreferenceRow /\ NoPreference \notin PreferenceRow /\ NoPreference # Default
  /\ NoPush.at = "none" /\ NoPush \in PushRow
  /\ NoDevice.active = FALSE /\ NoDevice.of = NoReader
  /\ [NoDevice EXCEPT !.active = FALSE] = NoDevice
<1>1. /\ Default.quiet = Always /\ Default \in PreferenceRow
  BY RoutingAssumption DEF Default, PreferenceRow, QuietHours
<1>2. NoPreference.quiet.from = -1
  BY DEF NoPreference, Default
<1>3. \A q \in QuietHours : q.from # -1
  BY RoutingAssumption DEF QuietHours, Always
<1>4. NoPreference \notin PreferenceRow
  BY <1>2, <1>3 DEF PreferenceRow
<1>5. NoPush.at = "none" /\ NoPush \in PushRow
  BY DEF NoPush, PushRow, PushStep
<1>6. NoDevice.active = FALSE /\ NoDevice.of = NoReader
  BY DEF NoDevice
<1>7. [NoDevice EXCEPT !.active = FALSE] = NoDevice
  <2>1. NoDevice \in [of: {NoReader}, active: BOOLEAN]
    BY DEF NoDevice
  <2>. QED BY <1>6, <2>1
<1>. QED BY <1>1, <1>4, <1>5, <1>6, <1>7

(* One push moves, and the preferences perhaps. *)
LEMMA PushKeeps ==
  ASSUME RoutingInv, Watch, NEW n \in Pushes, NEW r \in PushRow,
         push' = [push EXCEPT ![n] = r],
         UNCHANGED <<device, adjustment, hour, carrier, shown>>,
         preference' \in [Readers -> PreferenceRow \cup {NoPreference}],
         \/ r.at \in {"creating", "over"}
         \/ r.at = "accepted" /\
              \/ r.forced
              \/ Heeded(preference[AddresseeOf[n]], r.topic)
         \/ /\ r.at = "addressed" /\ push[n].at = "accepted"
            /\ \A d \in r.tokens : carrier[d] = AddresseeOf[n]
  PROVE  RoutingInv'
<1>1. push \in [Pushes -> PushRow]
  BY DEF RoutingInv, RoutingTypeOK
<1>2. RoutingTypeOK'
  BY <1>1 DEF RoutingInv, RoutingTypeOK
<1>3. CarriedByItsUser'
  BY DEF RoutingInv, CarriedByItsUser
<1>4. r.tokens \subseteq Devices
  BY DEF PushRow
<1>. QED BY <1>1, <1>2, <1>3, <1>4, RoutingKeeps

(* The rows of devices are written, by staff, users or the provider. *)
LEMMA DeviceKeeps ==
  ASSUME RoutingInv, Watch, UNCHANGED <<preference, adjustment, hour, push, shown>>,
         device' \in [Devices -> DeviceRow \cup {NoDevice}],
         carrier' \in [Devices -> Readers \cup {NoReader}], CarriedByItsUser'
  PROVE  RoutingInv'
<1>1. RoutingTypeOK'
  BY DEF RoutingInv, RoutingTypeOK
<1>. QED BY <1>1, RoutingKeeps

LEMMA PreferenceKeeps ==
  ASSUME RoutingInv, Watch, UNCHANGED <<device, push, carrier, shown>>,
         hour' \in HoursOfDay, adjustment' \subseteq Adjustments,
         preference' \in [Readers -> PreferenceRow \cup {NoPreference}]
  PROVE  RoutingInv'
<1>1. RoutingTypeOK' /\ CarriedByItsUser'
  BY DEF RoutingInv, RoutingTypeOK, CarriedByItsUser
<1>. QED BY <1>1, RoutingKeeps

LEMMA MulticastKeeps ==
  ASSUME RoutingInv, Watch, NEW n \in Pushes, NEW displayed \in SUBSET Devices,
         NEW unknown \in SUBSET Devices, Multicast(n, displayed, unknown)
  PROVE  RoutingInv'
<1>1. push \in [Pushes -> PushRow] /\ device \in [Devices -> DeviceRow \cup {NoDevice}]
  BY DEF RoutingInv, RoutingTypeOK
<1>2. /\ push[n].at = "addressed" /\ displayed \subseteq push[n].tokens
      /\ shown' = shown \cup {[of |-> n, on |-> d] : d \in displayed}
      /\ device' = [d \in Devices |->
           IF d \in unknown THEN [device[d] EXCEPT !.active = FALSE] ELSE device[d]]
      /\ UNCHANGED <<preference, adjustment, removal, hour, carrier>>
  BY DEF Multicast
<1>3. \A p \in Pushes : push'[p] \in PushRow /\
        (push'[p] = push[p] \/ push'[p].at = "over" \/
          (push'[p].at = "accepted" /\ push[p].at = "addressed"))
  BY <1>1 DEF Multicast, PushRow, PushStep
<1>4. push' \in [Pushes -> PushRow]
  <2>1. push' = [p \in Pushes |-> push'[p]]
    BY <1>1 DEF Multicast
  <2>. QED BY <1>3, <2>1
<1>5. \A d \in Devices : /\ device'[d] \in DeviceRow \cup {NoDevice}
                         /\ device'[d].active => device[d].active
                         /\ device'[d].of = device[d].of
  <2> SUFFICES ASSUME NEW d \in Devices
               PROVE  /\ device'[d] \in DeviceRow \cup {NoDevice}
                      /\ device'[d].active => device[d].active
                      /\ device'[d].of = device[d].of
    OBVIOUS
  <2>1. CASE device[d] \in DeviceRow
    BY <1>2, <2>1 DEF DeviceRow
  <2>2. CASE device[d] = NoDevice
    BY <1>2, <2>2, RoutingFacts
  <2>. QED BY <1>1, <2>1, <2>2
<1>6. CarriedByItsUser' /\ device' \in [Devices -> DeviceRow \cup {NoDevice}]
  BY <1>2, <1>5 DEF RoutingInv, CarriedByItsUser
<1>7. \A s \in shown' \ shown : s.of = n /\ s.on \in displayed
  BY <1>2
<1>8. RoutingTypeOK'
  BY <1>2, <1>4, <1>6, <1>7 DEF RoutingInv, RoutingTypeOK
<1>. QED BY <1>2, <1>3, <1>6, <1>7, <1>8, RoutingKeeps

LEMMA RequestsKeep ==
  ASSUME RoutingInv, Watch, NEW n \in Pushes,
         \/ \E topic \in Topics, forced \in BOOLEAN : Request(n, topic, forced)
         \/ CreatePreference(n) \/ Address(n)
  PROVE  RoutingInv'
<1>1. /\ push \in [Pushes -> PushRow] /\ AddresseeOf[n] \in Readers
      /\ preference \in [Readers -> PreferenceRow \cup {NoPreference}]
      /\ RoutingTypeOK
  BY RoutingAssumption DEF RoutingInv, RoutingTypeOK
<1> DEFINE u == AddresseeOf[n]
<1>2. ASSUME NEW topic \in Topics, NEW forced \in BOOLEAN, Request(n, topic, forced)
      PROVE  RoutingInv'
  <2>1. PICK step \in PushStep :
          /\ push' = [push EXCEPT ![n] = [at |-> step, topic |-> topic, forced |-> forced,
                                          tokens |-> {}]]
          /\ step = "accepted" => forced \/ ShouldSend(preference[u], topic)
          /\ step = "accepted" /\ ~forced => preference[u] # NoPreference
          /\ step \in {"accepted", "creating", "over"}
          /\ UNCHANGED <<preference, device, adjustment, removal, hour, carrier, shown>>
    BY <1>2 DEF Request, PushStep
  <2>2. step = "accepted" => forced \/ Heeded(preference[u], topic)
    BY <1>1, <2>1, SentIsHeeded
  <2> DEFINE r == [at |-> step, topic |-> topic, forced |-> forced, tokens |-> {}]
  <2>3. r \in PushRow /\ r.at = step /\ r.forced = forced /\ r.topic = topic
    BY DEF PushRow
  <2>4. push' = [push EXCEPT ![n] = r]
    BY <2>1
  <2>. HIDE DEF r
  <2>. QED BY <1>1, <2>1, <2>2, <2>3, <2>4, PushKeeps
<1>3. CASE CreatePreference(n)
  <2>1. PICK step \in {"accepted", "over"} :
          /\ push' = [push EXCEPT ![n].at = step]
          /\ step = "accepted" => /\ preference[u] = NoPreference
                                  /\ ShouldSend(Default, push[n].topic)
          /\ preference' = preference \/ preference' = [preference EXCEPT ![u] = Default]
          /\ UNCHANGED <<device, adjustment, removal, hour, carrier, shown>>
    BY <1>3 DEF CreatePreference, Decide
  <2>2. step = "accepted" => Heeded(preference[u], push[n].topic)
    BY <1>1, <2>1, SentIsHeeded, RoutingFacts
  <2> DEFINE r == [push[n] EXCEPT !.at = step]
  <2>3. r \in PushRow /\ r.at = step /\ r.topic = push[n].topic
    BY <1>1 DEF PushRow, PushStep
  <2>4. push' = [push EXCEPT ![n] = r]
    BY <2>1
  <2>. HIDE DEF r
  <2>5. preference' \in [Readers -> PreferenceRow \cup {NoPreference}]
    BY <1>1, <2>1, RoutingFacts
  <2>. QED BY <1>1, <2>1, <2>2, <2>3, <2>4, <2>5, PushKeeps
<1>4. CASE Address(n)
  <2> DEFINE tokens == RegistrationsOf(u)
             r == [push[n] EXCEPT !.at = IF tokens = {} THEN "over" ELSE "addressed",
                                  !.tokens = tokens]
  <2>1. /\ push[n].at = "accepted" /\ push' = [push EXCEPT ![n] = r]
        /\ UNCHANGED <<preference, device, adjustment, removal, hour, carrier, shown>>
    BY <1>1, <1>4 DEF Address
  <2>2. /\ tokens \subseteq Devices
        /\ \A d \in tokens : carrier[d] = u
    BY DEF RegistrationsOf, RoutingInv, CarriedByItsUser
  <2>. HIDE DEF tokens
  <2>3. r \in PushRow /\ r.at \in {"over", "addressed"} /\ r.tokens = tokens
    BY <1>1, <2>2 DEF PushRow, PushStep
  <2>. HIDE DEF r
  <2>. QED BY <1>1, <2>1, <2>2, <2>3, PushKeeps
<1>. QED BY <1>2, <1>3, <1>4

LEMMA RoutingInvHolds == RoutingSpec => []RoutingInv
<1>1. RoutingInit => RoutingInv
  <2>1. RoutingInit => RoutingTypeOK
    BY RoutingFacts, RoutingAssumption DEF RoutingInit, RoutingTypeOK, HoursOfDay
  <2>2. RoutingInit => CarriedByItsUser /\ LetThrough /\ ShownToItsUser
    BY RoutingFacts DEF RoutingInit, CarriedByItsUser, LetThrough, ShownToItsUser
  <2>. QED BY <2>1, <2>2 DEF RoutingInit, RoutingInv, WindowRow
<1>2. RoutingInv /\ [RoutingNext]_routingVars => RoutingInv'
  <2> SUFFICES ASSUME RoutingInv, [RoutingNext]_routingVars PROVE RoutingInv'
    OBVIOUS
  <2>0. /\ preference \in [Readers -> PreferenceRow \cup {NoPreference}]
        /\ device \in [Devices -> DeviceRow \cup {NoDevice}]
        /\ carrier \in [Devices -> Readers \cup {NoReader}]
        /\ \A e \in Adjustments : WriterOf[e] \in Readers
    BY RoutingAssumption DEF RoutingInv, RoutingTypeOK
  <2>1. CASE UNCHANGED routingVars
    BY <2>1 DEF routingVars, RoutingInv, RoutingTypeOK, CarriedByItsUser, LetThrough,
                ShownToItsUser
  <2>2. ASSUME Watch, NEW u \in Readers, NEW d \in Devices, Register(u, d) PROVE RoutingInv'
    <3>1. [of |-> u, active |-> TRUE] \in DeviceRow
      BY DEF DeviceRow
    <3>2. device' \in [Devices -> DeviceRow \cup {NoDevice}]
      BY <2>0, <2>2, <3>1 DEF Register
    <3>3. CarriedByItsUser'
      BY <2>0, <2>2 DEF Register, RoutingInv, CarriedByItsUser
    <3>4. carrier' \in [Devices -> Readers \cup {NoReader}]
      BY <2>0, <2>2 DEF Register
    <3>. QED BY <2>2, <3>2, <3>3, <3>4, DeviceKeeps DEF Register
  <2>3. ASSUME Watch, NEW u \in Readers, DeletePreference(u) PROVE RoutingInv'
    BY <2>0, <2>3, PreferenceKeeps DEF DeletePreference, RoutingInv, RoutingTypeOK
  <2>4. ASSUME Watch, NEW x \in Removals, NEW d \in Devices, BeginRemoval(x, d)
        PROVE  RoutingInv'
    BY <2>0, <2>4, DeviceKeeps DEF BeginRemoval, RoutingInv, CarriedByItsUser
  <2>5. ASSUME Watch, NEW x \in Removals, EndRemoval(x) PROVE RoutingInv'
    <3> DEFINE d == removal[x].on
    <3>1. /\ device' = [device EXCEPT ![d].active = FALSE]
          /\ carrier' \in [Devices -> Readers \cup {NoReader}]
          /\ \A y \in Devices \ {d} : carrier'[y] = carrier[y]
          /\ UNCHANGED <<preference, push, adjustment, hour, shown>>
      BY <2>0, <2>5 DEF EndRemoval
    <3>. HIDE DEF d
    <3>2. \A y \in Devices : /\ device'[y] \in DeviceRow \cup {NoDevice}
                             /\ y # d => device'[y] = device[y]
                             /\ y = d => ~device'[y].active
      <4> SUFFICES ASSUME NEW y \in Devices
                   PROVE  /\ device'[y] \in DeviceRow \cup {NoDevice}
                          /\ y # d => device'[y] = device[y]
                          /\ y = d => ~device'[y].active
        OBVIOUS
      <4>1. CASE y # d
        BY <2>0, <3>1, <4>1
      <4>2. CASE y = d /\ device[y] \in DeviceRow
        BY <2>0, <3>1, <4>2 DEF DeviceRow
      <4>3. CASE y = d /\ device[y] = NoDevice
        BY <2>0, <3>1, <4>3, RoutingFacts
      <4>. QED BY <2>0, <4>1, <4>2, <4>3
    <3>3. CarriedByItsUser' /\ device' \in [Devices -> DeviceRow \cup {NoDevice}]
      BY <2>0, <3>1, <3>2 DEF RoutingInv, CarriedByItsUser
    <3>. QED BY <2>5, <3>1, <3>3, DeviceKeeps
  <2>6. ASSUME Watch, NEW e \in Adjustments, BeginAdjustment(e) PROVE RoutingInv'
    <3>1. PICK r \in PreferenceRow : preference' = [preference EXCEPT ![WriterOf[e]] = r]
      BY <2>0, <2>6, RoutingFacts DEF BeginAdjustment
    <3>2. preference' \in [Readers -> PreferenceRow \cup {NoPreference}]
      BY <2>0, <3>1
    <3>. QED BY <2>6, <3>2, PreferenceKeeps DEF BeginAdjustment, RoutingInv, RoutingTypeOK
  <2>7. ASSUME Watch, NEW e \in Adjustments, EndAdjustment(e) PROVE RoutingInv'
    <3>1. PICK row \in PreferenceRow : preference' = [preference EXCEPT ![WriterOf[e]] = row]
      BY <2>7 DEF EndAdjustment
    <3>2. preference' \in [Readers -> PreferenceRow \cup {NoPreference}]
      BY <2>0, <3>1
    <3>. QED BY <2>7, <3>2, PreferenceKeeps DEF EndAdjustment, RoutingInv, RoutingTypeOK
  <2>8. ASSUME Watch, Tick PROVE RoutingInv'
    <3>1. hour' \in HoursOfDay
      BY <2>8, RoutingAssumption DEF Tick, RoutingInv, RoutingTypeOK, HoursOfDay
    <3>. QED BY <2>0, <2>8, <3>1, PreferenceKeeps DEF Tick, RoutingInv, RoutingTypeOK
  <2>. QED BY <2>1, <2>2, <2>3, <2>4, <2>5, <2>6, <2>7, <2>8, RequestsKeep, MulticastKeeps
       DEF RoutingNext
<1>. QED BY <1>1, <1>2, PTL DEF RoutingSpec

(* Whatever users, devices and quiet hours change while a notification is  *)
(* on its way, it is shown only to somebody who carried the device since   *)
(* it was asked for, and whose preferences let it through at some time     *)
(* since: by the hour in UTC, which is his own hour only if he named no    *)
(* other zone.                                                             *)
THEOREM AlwaysShownToItsUser == RoutingSpec => []ShownToItsUser
<1>1. RoutingInv => ShownToItsUser
  BY DEF RoutingInv
<1>. QED BY <1>1, RoutingInvHolds, PTL

----------------------------------------------------------------------------
(* The daily figures (Analytics)                                           *)

FigureOf(S, x, d, days) == Cardinality({o \in S : days[o] = d /\ Within(o, x)})

(* What a rebuild has counted of its day lies between what was paid when   *)
(* it began and what is paid; and what it will not write had no sale then. *)
RebuildFits(r, sold, days) ==
  LET counted(x, n) == /\ FigureOf(r.since, x, r.day, days) <= n
                       /\ n <= FigureOf(sold, x, r.day, days)
  IN /\ r.since \subseteq sold
     /\ r.step # "none" => r.day \in 1..r.last /\ r.last \in Dates
     /\ r.step \in {"next", "counted"} => r.drafts = NoDrafts
     /\ r.step = "counted" => counted(Platform, r.figure)
     /\ r.step = "rows" =>
          \A x \in Scopes :
            IF r.drafts[x] = NoRow
            THEN x \in r.due \/ FigureOf(r.since, x, r.day, days) = 0
            ELSE counted(x, r.drafts[x])

DayFits(m, began, d, sold, days) ==
  /\ began \subseteq sold
  /\ \A x \in Scopes : /\ Written(m[x]) <= FigureOf(sold, x, d, days)
                       /\ FigureOf(began, x, d, days) <= Written(m[x])

MetricsInv ==
  /\ MetricsTypeOK
  /\ \A o \in paid : begun[o] # 0
  /\ \A b \in Builders : RebuildFits(builder[b], paid, begun)
  /\ \A d \in Dates : DayFits(metric[d], asOf[d], d, paid, begun)

LEMMA FiguresGrow ==
  ASSUME NEW S, NEW T, S \subseteq T, T \subseteq Sales, NEW x, NEW d, NEW days
  PROVE  /\ FigureOf(S, x, d, days) \in Nat /\ FigureOf(T, x, d, days) \in Nat
         /\ FigureOf(S, x, d, days) <= FigureOf(T, x, d, days)
         /\ FigureOf(T, x, d, days) < NoRow /\ NoRow \in Nat
<1> DEFINE A == {o \in S : days[o] = d /\ Within(o, x)}
           B == {o \in T : days[o] = d /\ Within(o, x)}
<1>1. A \subseteq B /\ B \subseteq Sales /\ IsFiniteSet(Sales)
  BY MetricsAssumption
<1>2. FigureOf(S, x, d, days) = Cardinality(A) /\ FigureOf(T, x, d, days) = Cardinality(B)
  BY DEF FigureOf
<1>. HIDE DEF A, B
<1>3. IsFiniteSet(B) /\ Cardinality(B) <= Cardinality(Sales)
  BY <1>1, FS_Subset
<1>4. IsFiniteSet(A) /\ Cardinality(A) <= Cardinality(B)
  BY <1>1, <1>3, FS_Subset
<1>5. Cardinality(A) \in Nat /\ Cardinality(B) \in Nat /\ Cardinality(Sales) \in Nat
  BY <1>1, <1>3, <1>4, FS_CardinalityType
<1>. QED BY <1>2, <1>3, <1>4, <1>5 DEF NoRow

(* Orders are begun and paid: what was counted stays right. *)
LEMMA SalesGrow ==
  ASSUME NEW sold \in SUBSET Sales, NEW more \in SUBSET Sales, sold \subseteq more,
         NEW days, NEW later, \A o \in sold : later[o] = days[o]
  PROVE  /\ \A S \in SUBSET sold : \A x, d : FigureOf(S, x, d, later) = FigureOf(S, x, d, days)
         /\ \A x, d : FigureOf(sold, x, d, days) <= FigureOf(more, x, d, later)
         /\ \A r \in BuilderRow : RebuildFits(r, sold, days) => RebuildFits(r, more, later)
         /\ \A d \in Dates, began \in SUBSET Sales : \A m \in [Scopes -> Count] :
              DayFits(m, began, d, sold, days) => DayFits(m, began, d, more, later)
<1>1. ASSUME NEW S \in SUBSET sold, NEW x, NEW d
      PROVE  FigureOf(S, x, d, later) = FigureOf(S, x, d, days)
  <2>1. {o \in S : later[o] = d /\ Within(o, x)} = {o \in S : days[o] = d /\ Within(o, x)}
    OBVIOUS
  <2>. QED BY <2>1 DEF FigureOf
<1>2. ASSUME NEW x, NEW d
      PROVE  /\ FigureOf(sold, x, d, days) <= FigureOf(more, x, d, later)
             /\ FigureOf(sold, x, d, days) \in Nat /\ FigureOf(more, x, d, later) \in Nat
  <2>1. FigureOf(sold, x, d, later) = FigureOf(sold, x, d, days)
    BY <1>1
  <2>. QED BY <2>1, FiguresGrow
<1>3. ASSUME NEW r \in BuilderRow, RebuildFits(r, sold, days)
      PROVE  RebuildFits(r, more, later)
  <2>1. r.since \in SUBSET sold
    BY <1>3 DEF RebuildFits
  <2>2. \A x : FigureOf(r.since, x, r.day, later) = FigureOf(r.since, x, r.day, days)
    BY <1>1, <2>1
  <2>3. r.figure \in Nat /\ \A x \in Scopes : r.drafts[x] \in Nat
    BY FiguresGrow DEF BuilderRow, Count
  <2>4. \A n \in Nat : \A x :
          n <= FigureOf(sold, x, r.day, days) => n <= FigureOf(more, x, r.day, later)
    BY <1>2
  <2>. QED BY <1>3, <2>1, <2>2, <2>3, <2>4 DEF RebuildFits
<1>4. ASSUME NEW d \in Dates, NEW began \in SUBSET Sales, NEW m \in [Scopes -> Count],
             DayFits(m, began, d, sold, days)
      PROVE  DayFits(m, began, d, more, later)
  <2>1. began \in SUBSET sold
    BY <1>4 DEF DayFits
  <2>2. \A x \in Scopes : Written(m[x]) \in Nat
    BY FiguresGrow DEF Count, Written
  <2>. QED BY <1>1, <1>2, <1>4, <2>1, <2>2 DEF DayFits
<1>. QED BY <1>1, <1>2, <1>3, <1>4

(* One rebuild moves, and may commit its day. *)
LEMMA RebuildKeeps ==
  ASSUME MetricsInv, UNCHANGED <<today, begun, paid, viewed>>,
         NEW b \in Builders, NEW r \in BuilderRow, builder' = [builder EXCEPT ![b] = r],
         RebuildFits(r, paid, begun),
         metric' \in [Dates -> [Scopes -> Count]], asOf' \in [Dates -> SUBSET Sales],
         \A d \in Dates : \/ metric'[d] = metric[d] /\ asOf'[d] = asOf[d]
                          \/ DayFits(metric'[d], asOf'[d], d, paid, begun)
  PROVE  MetricsInv'
<1>1. builder' \in [Builders -> BuilderRow] /\ builder \in [Builders -> BuilderRow]
  BY DEF MetricsInv, MetricsTypeOK
<1>2. MetricsTypeOK'
  BY <1>1 DEF MetricsInv, MetricsTypeOK
<1>3. \A c \in Builders : RebuildFits(builder'[c], paid, begun)
  BY <1>1 DEF MetricsInv
<1>4. \A d \in Dates : DayFits(metric'[d], asOf'[d], d, paid, begun)
  BY DEF MetricsInv
<1>. QED BY <1>2, <1>3, <1>4 DEF MetricsInv

LEMMA MetricFacts ==
  /\ NoDrafts \in [Scopes -> Count] /\ \A x \in Scopes : NoDrafts[x] = NoRow
  /\ NoRow \in Count /\ NoRow \in Nat /\ 0 \in Count
  /\ Platform \in Scopes /\ LastDate \in Nat \ {0} /\ Window \in Nat \ {0}
  /\ Dates \subseteq 0..LastDate /\ 0 \in 0..LastDate
  /\ NoBuilder \in BuilderRow /\ NoBuilder.step = "none" /\ NoBuilder.drafts = NoDrafts
  /\ NoBuilder.since = {}
<1>1. NoRow \in Nat
  BY FiguresGrow
<1>2. NoRow \in Count /\ 0 \in Count /\ NoDrafts \in [Scopes -> Count]
  BY <1>1 DEF Count, NoDrafts
<1>3. 0 \in 0..LastDate /\ Dates \subseteq 0..LastDate
  BY MetricsAssumption DEF Dates
<1>. QED BY <1>1, <1>2, <1>3, MetricsAssumption DEF Scopes, NoDrafts, NoBuilder, BuilderRow

LEMMA MetricTypes ==
  ASSUME MetricsInv
  PROVE  /\ builder \in [Builders -> BuilderRow] /\ paid \subseteq Sales
         /\ metric \in [Dates -> [Scopes -> Count]] /\ asOf \in [Dates -> SUBSET Sales]
         /\ \A b \in Builders :
              LET r == builder[b]
              IN /\ r \in BuilderRow /\ RebuildFits(r, paid, begun)
                 /\ r.day \in 0..LastDate /\ r.last \in 0..LastDate /\ r.figure \in Count
                 /\ r.drafts \in [Scopes -> Count] /\ r.due \subseteq Scopes
                 /\ r.since \subseteq Sales
BY DEF MetricsInv, MetricsTypeOK, BuilderRow

LEMMA RebuildsKeep ==
  ASSUME MetricsInv, NEW b \in Builders, UNCHANGED <<today, begun, paid, viewed>>,
         \/ StartRebuild(b) \/ CountPlatform(b) \/ WritePlatform(b)
         \/ \E x \in Scopes : WriteRow(b, x)
         \/ BuilderDies(b)
  PROVE  MetricsInv'
<1> DEFINE old == builder[b]
<1>1. /\ old \in BuilderRow /\ RebuildFits(old, paid, begun)
      /\ old.day \in 0..LastDate /\ old.last \in 0..LastDate /\ old.figure \in Count
      /\ old.drafts \in [Scopes -> Count] /\ old.due \subseteq Scopes
      /\ old.since \subseteq Sales /\ paid \subseteq Sales
  BY MetricTypes
<1>2. ASSUME NEW r \in BuilderRow, builder' = [builder EXCEPT ![b] = r],
             RebuildFits(r, paid, begun), UNCHANGED <<metric, asOf>>
      PROVE  MetricsInv'
  BY <1>2, MetricTypes, RebuildKeeps
<1>3. \A x, d : /\ FigureOf(paid, x, d, begun) \in Nat
                /\ FigureOf(paid, x, d, begun) < NoRow
                /\ FigureOf(old.since, x, d, begun) <= FigureOf(paid, x, d, begun)
                /\ FigureOf(old.since, x, d, begun) \in Nat
                /\ Figure(paid, x, d) = FigureOf(paid, x, d, begun)
  <2>1. old.since \subseteq paid
    BY <1>1 DEF RebuildFits
  <2>2. \A x, d : Figure(paid, x, d) = FigureOf(paid, x, d, begun)
    BY DEF Figure, FigureOf
  <2>. QED BY <1>1, <2>1, <2>2, FiguresGrow
<1>4. CASE StartRebuild(b)
  <2> DEFINE r == [NoBuilder EXCEPT !.step = "next", !.last = today,
                     !.day = IF today < Window THEN 1 ELSE today - Window + 1]
  <2>1. builder' = [builder EXCEPT ![b] = r] /\ UNCHANGED <<metric, asOf>>
    BY <1>4 DEF StartRebuild
  <2>2. /\ r \in BuilderRow /\ r.since = {} /\ r.step = "next" /\ r.drafts = NoDrafts
        /\ r.last = today /\ r.day \in 1..today /\ today \in Dates
    <3>1. today \in Dates /\ today \in 0..LastDate
      BY MetricFacts DEF MetricsInv, MetricsTypeOK
    <3>2. PICK d \in 1..today :
            d = IF today < Window THEN 1 ELSE today - Window + 1
      <4>1. CASE today < Window
        BY <3>1, <4>1, MetricFacts DEF Dates
      <4>2. CASE ~(today < Window)
        <5>1. today - Window + 1 \in 1..today
          BY <3>1, <4>2, MetricFacts DEF Dates
        <5>. QED BY <4>2, <5>1
      <4>. QED BY <4>1, <4>2
    <3>3. d \in 0..LastDate
      BY <3>1, <3>2, MetricFacts DEF Dates
    <3>4. r = [NoBuilder EXCEPT !.step = "next", !.last = today, !.day = d]
      BY <3>2
    <3>. QED BY <3>1, <3>2, <3>3, <3>4, MetricFacts DEF BuilderRow
  <2>. HIDE DEF r
  <2>3. RebuildFits(r, paid, begun)
    BY <2>2 DEF RebuildFits
  <2>. QED BY <1>2, <2>1, <2>2, <2>3
<1>5. CASE CountPlatform(b)
  <2>1. PICK n \in Count : n = FigureOf(paid, Platform, old.day, begun)
    BY <1>3, MetricFacts DEF Count
  <2> DEFINE r == [old EXCEPT !.step = "counted", !.since = paid, !.figure = n]
  <2>2. builder' = [builder EXCEPT ![b] = r] /\ UNCHANGED <<metric, asOf>> /\ old.step = "next"
    BY <1>3, <1>5, <2>1, MetricTypes DEF CountPlatform
  <2>3. /\ r \in BuilderRow /\ r.since = paid /\ r.step = "counted" /\ r.figure = n
        /\ r.day = old.day /\ r.last = old.last /\ r.drafts = old.drafts
    BY <1>1, <2>1 DEF BuilderRow
  <2>. HIDE DEF r
  <2>4. RebuildFits(r, paid, begun)
    <3>1. n <= n
      BY <2>1, <1>3
    <3>. QED BY <1>1, <2>1, <2>2, <2>3, <3>1 DEF RebuildFits
  <2>. QED BY <1>2, <2>2, <2>3, <2>4
<1>6. CASE WritePlatform(b)
  <2> DEFINE drafts == [old.drafts EXCEPT ![Platform] = old.figure]
             due == WithRows(old.day)
             r == [old EXCEPT !.step = "rows", !.drafts = drafts, !.due = due]
  <2>1. builder' = [builder EXCEPT ![b] = r] /\ UNCHANGED <<metric, asOf>>
        /\ old.step = "counted"
    BY <1>6, MetricTypes DEF WritePlatform
  <2>2. /\ due \subseteq Scopes /\ old.drafts = NoDrafts
        /\ FigureOf(old.since, Platform, old.day, begun) <= old.figure
        /\ old.figure <= FigureOf(paid, Platform, old.day, begun)
    BY <1>1, <2>1 DEF WithRows, Scopes, Sellers, Goods, RebuildFits
  <2>3. /\ drafts \in [Scopes -> Count] /\ drafts[Platform] = old.figure
        /\ \A x \in Scopes \ {Platform} : drafts[x] = NoRow
    BY <1>1, <2>2, MetricFacts
  <2>4. ASSUME NEW x \in Scopes \ {Platform}, x \notin due
        PROVE  FigureOf(old.since, x, old.day, begun) = 0
    <3>1. {o \in old.since : begun[o] = old.day /\ Within(o, x)} = {}
      BY <1>1, <2>4 DEF RebuildFits, WithRows, Within
    <3>. QED BY <3>1, FS_EmptySet DEF FigureOf
  <2>. HIDE DEF drafts, due
  <2>5. /\ r \in BuilderRow /\ r.since = old.since /\ r.step = "rows" /\ r.drafts = drafts
        /\ r.day = old.day /\ r.last = old.last /\ r.due = due
    BY <1>1, <2>2, <2>3 DEF BuilderRow
  <2>. HIDE DEF r
  <2>6. old.figure # NoRow
    BY <1>1, <1>3, <2>2, MetricFacts DEF Count
  <2>7. RebuildFits(r, paid, begun)
    BY <1>1, <2>1, <2>2, <2>3, <2>4, <2>5, <2>6 DEF RebuildFits
  <2>. QED BY <1>2, <2>1, <2>5, <2>7
<1>7. ASSUME NEW x \in Scopes, WriteRow(b, x) PROVE MetricsInv'
  <2>1. PICK n \in Count : n = FigureOf(paid, x, old.day, begun)
    BY <1>3, MetricFacts DEF Count
  <2> DEFINE drafts == [old.drafts EXCEPT ![x] = n]
             r == [old EXCEPT !.due = old.due \ {x}, !.drafts = drafts]
  <2>2. builder' = [builder EXCEPT ![b] = r] /\ UNCHANGED <<metric, asOf>> /\ old.step = "rows"
    BY <1>3, <1>7, <2>1, MetricTypes DEF WriteRow
  <2>3. drafts \in [Scopes -> Count] /\ drafts[x] = n
        /\ \A y \in Scopes \ {x} : drafts[y] = old.drafts[y]
    BY <1>1
  <2>. HIDE DEF drafts
  <2>4. /\ r \in BuilderRow /\ r.since = old.since /\ r.step = old.step /\ r.drafts = drafts
        /\ r.day = old.day /\ r.last = old.last /\ r.due = old.due \ {x}
    BY <1>1, <2>3 DEF BuilderRow
  <2>. HIDE DEF r
  <2>5. n # NoRow /\ n <= n /\ FigureOf(old.since, x, old.day, begun) <= n
    BY <1>3, <2>1, MetricFacts
  <2>6. RebuildFits(r, paid, begun)
    BY <1>1, <2>1, <2>2, <2>3, <2>4, <2>5 DEF RebuildFits
  <2>. QED BY <1>2, <2>2, <2>4, <2>6
<1>8. CASE BuilderDies(b)
  <2>1. RebuildFits(NoBuilder, paid, begun)
    BY MetricFacts DEF RebuildFits
  <2>. QED BY <1>2, <1>8, <2>1, MetricFacts DEF BuilderDies
<1>. QED BY <1>4, <1>5, <1>6, <1>7, <1>8

LEMMA CommitKeeps ==
  ASSUME MetricsInv, NEW b \in Builders, CommitDay(b)
  PROVE  MetricsInv'
<1> DEFINE old == builder[b]
           day == old.day
           new == [x \in Scopes |-> IF old.drafts[x] = NoRow THEN metric[day][x]
                                    ELSE old.drafts[x]]
           next == IF day = old.last THEN NoBuilder
                   ELSE [NoBuilder EXCEPT !.step = "next", !.day = day + 1, !.last = old.last]
<1>1. /\ old \in BuilderRow /\ RebuildFits(old, paid, begun)
      /\ old.last \in 0..LastDate
      /\ old.drafts \in [Scopes -> Count]
      /\ old.since \subseteq Sales /\ paid \subseteq Sales
      /\ metric \in [Dates -> [Scopes -> Count]] /\ asOf \in [Dates -> SUBSET Sales]
  BY MetricTypes
<1>2. /\ old.step = "rows" /\ old.due = {}
      /\ metric' = [metric EXCEPT ![day] = new]
      /\ asOf' = [asOf EXCEPT ![day] = old.since]
      /\ builder' = [builder EXCEPT ![b] = next]
      /\ UNCHANGED <<today, begun, paid, viewed>>
  BY DEF CommitDay
<1>3. day \in 1..old.last /\ old.last \in Dates /\ day \in Dates
  BY <1>1, <1>2, MetricFacts DEF RebuildFits, Dates
<1>4. new \in [Scopes -> Count]
  BY <1>1, <1>3
<1>5. \A x \in Scopes : new[x] = IF old.drafts[x] = NoRow THEN metric[day][x] ELSE old.drafts[x]
  OBVIOUS
<1>6. next \in BuilderRow /\ RebuildFits(next, paid, begun)
  <2>1. CASE day = old.last
    BY <2>1, MetricFacts DEF RebuildFits
  <2>2. CASE day # old.last
    <3>1. day + 1 \in 1..old.last /\ day + 1 \in 0..LastDate
      BY <1>3, <2>2, MetricFacts DEF Dates
    <3>2. /\ next \in BuilderRow /\ next.step = "next" /\ next.day = day + 1
          /\ next.last = old.last /\ next.drafts = NoDrafts /\ next.since = {}
      BY <1>1, <2>2, <3>1, MetricFacts DEF BuilderRow
    <3>. HIDE DEF next
    <3>. QED BY <1>3, <3>1, <3>2 DEF RebuildFits
  <2>. QED BY <2>1, <2>2
<1>7. DayFits(new, old.since, day, paid, begun)
  <2>1. old.since \subseteq paid
    BY <1>1 DEF RebuildFits
  <2>2. ASSUME NEW x \in Scopes
        PROVE  /\ Written(new[x]) <= FigureOf(paid, x, day, begun)
               /\ FigureOf(old.since, x, day, begun) <= Written(new[x])
    <3>1. DayFits(metric[day], asOf[day], day, paid, begun)
      BY <1>3 DEF MetricsInv
    <3>2. CASE old.drafts[x] = NoRow
      <4>1. FigureOf(old.since, x, day, begun) = 0
        BY <1>1, <1>2, <3>2 DEF RebuildFits
      <4>2. new[x] = metric[day][x] /\ new[x] \in Count
        BY <1>1, <1>3, <3>2
      <4>3. Written(new[x]) \in Nat
        BY <4>2, MetricFacts DEF Written, Count
      <4>. QED BY <3>1, <4>1, <4>2, <4>3 DEF DayFits
    <3>3. CASE old.drafts[x] # NoRow
      <4>1. Written(new[x]) = old.drafts[x]
        BY <3>3 DEF Written
      <4>. QED BY <1>1, <1>2, <3>3, <4>1 DEF RebuildFits
    <3>. QED BY <3>2, <3>3
  <2>. QED BY <2>1, <2>2 DEF DayFits
<1>. HIDE DEF old, day, new, next
<1>8. metric' \in [Dates -> [Scopes -> Count]] /\ asOf' \in [Dates -> SUBSET Sales]
  BY <1>1, <1>2, <1>3, <1>4
<1>9. \A d \in Dates : \/ metric'[d] = metric[d] /\ asOf'[d] = asOf[d]
                       \/ DayFits(metric'[d], asOf'[d], d, paid, begun)
  BY <1>1, <1>2, <1>3, <1>7
<1>. QED BY <1>2, <1>6, <1>8, <1>9, RebuildKeeps

LEMMA MetricsInvHolds == MetricsSpec => []MetricsInv
<1>1. MetricsInit => MetricsInv
  <2> SUFFICES ASSUME MetricsInit PROVE MetricsInv
    OBVIOUS
  <2>1. MetricsTypeOK
    BY MetricFacts DEF MetricsInit, MetricsTypeOK, Dates
  <2>2. RebuildFits(NoBuilder, paid, begun)
    BY MetricFacts DEF RebuildFits
  <2>3. ASSUME NEW d \in Dates PROVE DayFits(metric[d], asOf[d], d, paid, begun)
    <3>1. \A x \in Scopes : metric[d][x] = NoRow /\ FigureOf({}, x, d, begun) = 0
      <4>1. \A x \in Scopes : {o \in {} : begun[o] = d /\ Within(o, x)} = {}
        OBVIOUS
      <4>. QED BY <2>3, <4>1, FS_EmptySet, MetricFacts DEF MetricsInit, FigureOf
    <3>2. asOf[d] = {} /\ paid = {}
      BY <2>3 DEF MetricsInit
    <3>. QED BY <3>1, <3>2 DEF DayFits, Written
  <2>. QED BY <2>1, <2>2, <2>3 DEF MetricsInit, MetricsInv
<1>2. MetricsInv /\ [MetricsNext]_metricVars => MetricsInv'
  <2> SUFFICES ASSUME MetricsInv, [MetricsNext]_metricVars PROVE MetricsInv'
    OBVIOUS
  <2>0. /\ paid \in SUBSET Sales /\ begun \in [Sales -> 0..LastDate] /\ today \in Dates
        /\ viewed \subseteq Goods \X Dates
        /\ metric \in [Dates -> [Scopes -> Count]] /\ asOf \in [Dates -> SUBSET Sales]
        /\ builder \in [Builders -> BuilderRow]
        /\ \A o \in paid : begun[o] # 0
    BY DEF MetricsInv, MetricsTypeOK
  <2>1. ASSUME UNCHANGED <<metric, builder, asOf>>, paid \subseteq paid', paid' \in SUBSET Sales,
               \A o \in paid : begun'[o] = begun[o], \A o \in paid' : begun'[o] # 0,
               begun' \in [Sales -> 0..LastDate], today' \in Dates,
               viewed' \subseteq Goods \X Dates
        PROVE  MetricsInv'
    <3>1. \A b \in Builders : RebuildFits(builder[b], paid', begun')
      BY <2>0, <2>1, SalesGrow DEF MetricsInv
    <3>2. \A d \in Dates : DayFits(metric[d], asOf[d], d, paid', begun')
      BY <2>0, <2>1, SalesGrow DEF MetricsInv
    <3>3. MetricsTypeOK'
      BY <2>1 DEF MetricsInv, MetricsTypeOK
    <3>. QED BY <2>1, <3>1, <3>2, <3>3 DEF MetricsInv
  <2>2. CASE UNCHANGED metricVars
    BY <2>0, <2>1, <2>2 DEF metricVars
  <2>3. CASE NextDay
    <3>1. today' \in Dates
      BY <2>0, <2>3, MetricFacts DEF NextDay, Dates
    <3>. QED BY <2>0, <2>1, <2>3, <3>1 DEF NextDay
  <2>4. ASSUME NEW o \in Sales, Begin(o) PROVE MetricsInv'
    <3>1. today \in 0..LastDate /\ today # 0
      BY <2>0 DEF Dates
    <3>2. o \notin paid
      BY <2>4 DEF Begin, MetricsInv
    <3>. QED BY <2>0, <2>1, <2>4, <3>1, <3>2 DEF Begin
  <2>5. ASSUME NEW o \in Sales, PayOrder(o) PROVE MetricsInv'
    BY <2>0, <2>1, <2>5 DEF PayOrder
  <2>6. ASSUME NEW g \in Goods, ViewProduct(g) PROVE MetricsInv'
    BY <2>0, <2>1, <2>6 DEF ViewProduct
  <2>7. ASSUME NEW b \in Builders,
               \/ StartRebuild(b) \/ CountPlatform(b) \/ WritePlatform(b)
               \/ \E x \in Scopes : WriteRow(b, x)
               \/ BuilderDies(b)
        PROVE  MetricsInv'
    BY <2>7, RebuildsKeep
       DEF StartRebuild, CountPlatform, WritePlatform, WriteRow, BuilderDies
  <2>. QED BY <2>2, <2>3, <2>4, <2>5, <2>6, <2>7, CommitKeeps DEF MetricsNext
<1>. QED BY <1>1, <1>2, PTL DEF MetricsSpec

(* However many rebuilds of a day overlap, are killed and start again      *)
(* while orders are begun and paid, its figures count at least what was    *)
(* paid when the last one began and nothing that is not paid, for any      *)
(* number of orders, stores, products and days.                            *)
THEOREM FiguresAlwaysSold == MetricsSpec => []FiguresAreSold
<1>1. MetricsInv => FiguresAreSold
  BY DEF MetricsInv, DayFits, FiguresAreSold, Figure, FigureOf
<1>. QED BY <1>1, MetricsInvHolds, PTL

----------------------------------------------------------------------------
(* The throttle and the tickets of sockets (SocketTickets)                 *)

After(s, m) == {k \in DOMAIN s : s[k] >= m}
Among(s, from, to) == {k \in DOMAIN s : s[k] >= from /\ s[k] < to}

(* A counter holds the requests of its window, which began with one; and   *)
(* less than the limit went through in the time of a window before it.     *)
CounterFits(r, s, most, at) ==
  /\ \A k \in DOMAIN s : s[k] < r.ends
  /\ \/ s = << >> /\ r.ends = 0
     \/ /\ r.since <= at /\ r.since + WindowTime <= r.ends
        /\ r.count = Cardinality(After(s, r.since)) /\ r.count <= most
        /\ \E k \in DOMAIN s : s[k] = r.since
        /\ Cardinality(Among(s, r.since + 1 - WindowTime, r.since)) < most

LEMMA RequestSets ==
  ASSUME NEW s \in Seq(Nat), NEW m \in Int, NEW n \in Int
  PROVE  /\ IsFiniteSet(After(s, m)) /\ Cardinality(After(s, m)) \in Nat
         /\ IsFiniteSet(Among(s, m, n)) /\ Cardinality(Among(s, m, n)) \in Nat
<1>1. DOMAIN s = 1..Len(s) /\ Len(s) \in Int
  OBVIOUS
<1>2. IsFiniteSet(DOMAIN s)
  BY <1>1, FS_Interval
<1>3. After(s, m) \in SUBSET DOMAIN s /\ Among(s, m, n) \in SUBSET DOMAIN s
  BY DEF After, Among
<1>4. IsFiniteSet(After(s, m)) /\ IsFiniteSet(Among(s, m, n))
  BY <1>2, <1>3, FS_Subset
<1>. QED BY <1>4, FS_CardinalityType

LEMMA OneMoreRequest ==
  ASSUME NEW s \in Seq(Nat), NEW at \in Nat, NEW m \in Int, m <= at
  PROVE  /\ Cardinality(After(Append(s, at), m)) = Cardinality(After(s, m)) + 1
         /\ \A n \in Int : n <= at => Among(Append(s, at), m, n) = Among(s, m, n)
<1> DEFINE t == Append(s, at)
<1>1. /\ DOMAIN s = 1..Len(s) /\ DOMAIN t = 1..(Len(s) + 1) /\ Len(s) \in Nat
      /\ t[Len(s) + 1] = at /\ \A k \in DOMAIN s : t[k] = s[k]
      /\ \A k \in DOMAIN s : s[k] \in Nat
  OBVIOUS
<1>. HIDE DEF t
<1>2. After(t, m) = After(s, m) \cup {Len(s) + 1}
  BY <1>1 DEF After
<1>3. (Len(s) + 1) \notin After(s, m)
  BY <1>1 DEF After
<1>4. Cardinality(After(s, m) \cup {Len(s) + 1}) = Cardinality(After(s, m)) + 1
  BY <1>3, RequestSets, FS_AddElement
<1>5. ASSUME NEW n \in Int, n <= at PROVE Among(t, m, n) = Among(s, m, n)
  BY <1>1, <1>5 DEF Among
<1>. QED BY <1>2, <1>4, <1>5 DEF t

LEMMA RequestAppended ==
  ASSUME NEW s \in Seq(Nat), NEW at \in Nat
  PROVE  LET t == Append(s, at)
         IN /\ DOMAIN t = DOMAIN s \cup {Len(s) + 1} /\ (Len(s) + 1) \notin DOMAIN s
            /\ t[Len(s) + 1] = at /\ \A k \in DOMAIN s : t[k] = s[k]
<1>1. DOMAIN s = 1..Len(s) /\ Len(s) \in Nat
  OBVIOUS
<1>2. DOMAIN Append(s, at) = 1..(Len(s) + 1)
  OBVIOUS
<1>3. Append(s, at)[Len(s) + 1] = at /\ \A k \in DOMAIN s : Append(s, at)[k] = s[k]
  OBVIOUS
<1>. QED BY <1>1, <1>2, <1>3

LEMMA StretchBound ==
  ASSUME NEW r \in Counter, NEW s \in Seq(Nat), NEW most \in Nat \ {0}, NEW at \in Nat,
         CounterFits(r, s, most, at)
  PROVE  /\ Cardinality(After(s, at + 1 - WindowTime)) < 2 * most
         /\ r.ends <= at => Cardinality(After(s, at + 1 - WindowTime)) < most
<1> DEFINE stretch == After(s, at + 1 - WindowTime)
           whole == After(s, r.since)
           before == Among(s, r.since + 1 - WindowTime, r.since)
<1>1. /\ WindowTime \in Nat \ {0} /\ r.since \in Nat /\ r.ends \in Nat /\ r.count \in Nat
      /\ \A k \in DOMAIN s : s[k] \in Nat
  BY TicketingAssumption DEF Counter, Moments
<1>2. /\ IsFiniteSet(stretch) /\ Cardinality(stretch) \in Nat
      /\ IsFiniteSet(whole) /\ Cardinality(whole) \in Nat
      /\ IsFiniteSet(before) /\ Cardinality(before) \in Nat
  <2>1. at + 1 - WindowTime \in Int /\ r.since \in Int /\ r.since + 1 - WindowTime \in Int
    BY <1>1
  <2>2. /\ IsFiniteSet(stretch) /\ Cardinality(stretch) \in Nat
        /\ IsFiniteSet(whole) /\ Cardinality(whole) \in Nat
    BY <2>1, RequestSets
  <2>3. IsFiniteSet(before) /\ Cardinality(before) \in Nat
    BY <2>1, RequestSets
  <2>. QED BY <2>2, <2>3
<1>3. CASE s = << >>
  <2>1. stretch = {}
    BY <1>3 DEF After
  <2>. HIDE DEF stretch
  <2>2. Cardinality(stretch) = 0
    BY <2>1, FS_EmptySet
  <2>3. Cardinality(stretch) < most /\ Cardinality(stretch) < 2 * most
    BY <2>2
  <2>. QED BY <2>3 DEF stretch
<1>4. CASE s # << >>
  <2>1. /\ r.since <= at /\ r.since + WindowTime <= r.ends
        /\ r.count = Cardinality(whole) /\ r.count <= most
        /\ Cardinality(before) < most
    BY <1>4 DEF CounterFits
  <2>2. PICK first \in DOMAIN s : s[first] = r.since
    BY <1>4 DEF CounterFits
  <2>3. stretch \subseteq whole \cup before
    BY <1>1, <2>1 DEF After, Among
  <2>4. r.ends <= at => stretch \subseteq whole \ {first} /\ first \in whole
    BY <1>1, <2>1, <2>2 DEF After
  <2>. HIDE DEF stretch, whole, before
  <2>5. Cardinality(stretch) <= Cardinality(whole) + Cardinality(before)
    <3>1. /\ IsFiniteSet(whole \cup before)
          /\ Cardinality(whole \cup before) =
               Cardinality(whole) + Cardinality(before) - Cardinality(whole \cap before)
      BY <1>2, FS_Union
    <3>2. IsFiniteSet(whole \cap before) /\ Cardinality(whole \cap before) \in Nat
      <4>1. whole \cap before \in SUBSET whole
        OBVIOUS
      <4>. QED BY <1>2, <4>1, FS_Subset, FS_CardinalityType
    <3>3. Cardinality(stretch) <= Cardinality(whole \cup before)
      BY <2>3, <3>1, FS_Subset
    <3>. QED BY <1>2, <3>1, <3>2, <3>3
  <2>6. ASSUME r.ends <= at PROVE Cardinality(stretch) < most
    <3>1. IsFiniteSet(whole \ {first}) /\ Cardinality(whole \ {first}) = Cardinality(whole) - 1
      BY <1>2, <2>4, <2>6, FS_RemoveElement
    <3>2. Cardinality(stretch) <= Cardinality(whole \ {first})
      BY <2>4, <2>6, <3>1, FS_Subset
    <3>. QED BY <1>1, <1>2, <2>1, <3>1, <3>2
  <2>7. Cardinality(stretch) < 2 * most
    BY <1>2, <2>1, <2>5
  <2>. QED BY <2>6, <2>7 DEF stretch
<1>. QED BY <1>3, <1>4

(* A request is counted, in the window or as the first of a new one. *)
LEMMA ChargeFits ==
  ASSUME NEW r \in Counter, NEW s \in Seq(Nat), NEW most \in Nat \ {0}, NEW at \in Nat,
         CounterFits(r, s, most, at), NEW n \in Counter,
         \/ /\ r.ends > at /\ r.count < most
            /\ n.count = r.count + 1 /\ n.since = r.since
            /\ (n.ends = r.ends \/ (n.ends = at + WindowTime /\ r.ends = at + 1))
         \/ r.ends <= at /\ n.count = 1 /\ n.since = at /\ n.ends = at + WindowTime
  PROVE  CounterFits(n, Append(s, at), most, at)
<1> DEFINE t == Append(s, at)
<1>1. /\ WindowTime \in Nat \ {0} /\ r.since \in Nat /\ r.ends \in Nat /\ r.count \in Nat
      /\ n.ends \in Nat /\ n.since \in Nat
      /\ \A k \in DOMAIN s : s[k] \in Nat
  BY TicketingAssumption DEF Counter, Moments
<1>2. /\ DOMAIN t = DOMAIN s \cup {Len(s) + 1}
      /\ t[Len(s) + 1] = at /\ \A k \in DOMAIN s : t[k] = s[k]
  BY RequestAppended
<1>3. \A k \in DOMAIN s : s[k] < r.ends
  BY DEF CounterFits
<1>4. CASE /\ r.ends > at /\ r.count < most
           /\ n.count = r.count + 1 /\ n.since = r.since
           /\ (n.ends = r.ends \/ (n.ends = at + WindowTime /\ r.ends = at + 1))
  <2>1. /\ r.since <= at /\ r.since + WindowTime <= r.ends
        /\ r.count = Cardinality(After(s, r.since))
        /\ \E k \in DOMAIN s : s[k] = r.since
        /\ Cardinality(Among(s, r.since + 1 - WindowTime, r.since)) < most
    BY <1>1, <1>4 DEF CounterFits
  <2>2. /\ Cardinality(After(t, r.since)) = r.count + 1
        /\ Among(t, r.since + 1 - WindowTime, r.since) =
             Among(s, r.since + 1 - WindowTime, r.since)
    BY <1>1, <2>1, OneMoreRequest
  <2>3. n.ends >= r.ends
    BY <1>1, <1>4
  <2>4. \A k \in DOMAIN t : t[k] < n.ends
    BY <1>1, <1>2, <1>3, <1>4, <2>3
  <2>. HIDE DEF t
  <2>5. \E k \in DOMAIN t : t[k] = n.since
    BY <1>2, <1>4, <2>1
  <2>6. n.since <= at /\ n.since + WindowTime <= n.ends /\ n.count <= most
    BY <1>1, <1>4, <2>1, <2>3
  <2>7. CounterFits(n, t, most, at)
    BY <1>4, <2>1, <2>2, <2>4, <2>5, <2>6 DEF CounterFits
  <2>. QED BY <2>7 DEF t
<1>5. CASE r.ends <= at /\ n.count = 1 /\ n.since = at /\ n.ends = at + WindowTime
  <2>1. Cardinality(After(s, at)) = 0
    <3>1. After(s, at) = {}
      BY <1>1, <1>3, <1>5 DEF After
    <3>. QED BY <3>1, FS_EmptySet
  <2>2. /\ Cardinality(After(t, at)) = 1
        /\ Among(t, at + 1 - WindowTime, at) = Among(s, at + 1 - WindowTime, at)
    BY <1>1, <2>1, OneMoreRequest
  <2>3. Cardinality(Among(s, at + 1 - WindowTime, at)) < most
    <3>1. Among(s, at + 1 - WindowTime, at) \in SUBSET After(s, at + 1 - WindowTime)
      BY DEF Among, After
    <3>. at + 1 - WindowTime \in Int /\ at \in Int
      BY <1>1
    <3>2. IsFiniteSet(After(s, at + 1 - WindowTime))
      BY RequestSets
    <3>3. /\ Cardinality(After(s, at + 1 - WindowTime)) \in Nat
          /\ Cardinality(Among(s, at + 1 - WindowTime, at)) \in Nat
      BY RequestSets
    <3>4. Cardinality(After(s, at + 1 - WindowTime)) < most
      BY <1>5, StretchBound
    <3>5. Cardinality(Among(s, at + 1 - WindowTime, at))
            <= Cardinality(After(s, at + 1 - WindowTime))
      BY <3>1, <3>2, FS_Subset
    <3>. QED BY <3>3, <3>4, <3>5
  <2>4. \A k \in DOMAIN t : t[k] < n.ends
    BY <1>1, <1>2, <1>3, <1>5
  <2>. HIDE DEF t
  <2>5. \E k \in DOMAIN t : t[k] = n.since
    BY <1>2, <1>5
  <2>6. CounterFits(n, t, most, at)
    BY <1>1, <1>5, <2>2, <2>3, <2>4, <2>5 DEF CounterFits
  <2>. QED BY <2>6 DEF t
<1>. QED BY <1>4, <1>5

(* A connection that holds a ticket took it: nobody finds it again. *)
Holds(k) == conn[k].at # "none" /\ conn[k].at # "anonymous"

TicketHeld(k) ==
  /\ conn[k].by \in Tickets /\ conn[k].by \notin stored /\ issued[conn[k].by] # NotIssued
  /\ conn[k].room = issued[conn[k].by].room /\ conn[k].when < issued[conn[k].by].ends

HeldByOne == \A k, j \in Connections : Holds(k) /\ Holds(j) /\ conn[k].by = conn[j].by => k = j

StoredIsIssued == \A t \in stored : issued[t] # NotIssued

Counted == \A i \in Counters : CounterFits(counter[i], charged[i], Limit[i], now)

TicketingInv ==
  /\ TicketingTypeOK
  /\ Counted
  /\ \A k \in Connections : Holds(k) => TicketHeld(k)
  /\ HeldByOne /\ StoredIsIssued

LEMMA TicketingInvInit == TicketingInit => TicketingInv
<1>. SUFFICES ASSUME TicketingInit PROVE TicketingInv
  OBVIOUS
<1>. USE TicketingAssumption DEF TicketingInit
<1>1. 0 \in Moments
  BY DEF Moments
<1>2. /\ NotCounted \in Counter /\ NotIssued \in Ticket /\ Asleep \in AskState
      /\ NoConn \in ConnState /\ << >> \in Seq(Moments)
  BY <1>1 DEF NotCounted, Counter, NotIssued, Ticket, Asleep, AskState, NoConn, ConnState
<1>3. TicketingTypeOK
  BY <1>1, <1>2 DEF TicketingTypeOK
<1>4. Counted
  BY DEF Counted, CounterFits, NotCounted
<1>5. \A k \in Connections : ~Holds(k)
  BY DEF Holds, NoConn
<1>. QED BY <1>3, <1>4, <1>5 DEF TicketingInv, HeldByOne, StoredIsIssued

(* What a counter reads as, and what it is counted up to. *)
LEMMA ChargeKeeps ==
  ASSUME TicketingInv, NEW c \in Callers, NEW rounds \in BOOLEAN, Charge(c, rounds)
  PROVE  /\ counter' \in [Counters -> Counter] /\ charged' \in [Counters -> Seq(Moments)]
         /\ \A i \in Counters : CounterFits(counter'[i], charged'[i], Limit[i], now)
<1>. USE TicketingAssumption
<1>1. /\ now \in Moments /\ counter \in [Counters -> Counter]
      /\ charged \in [Counters -> Seq(Moments)] /\ Counted
  BY DEF TicketingInv, TicketingTypeOK
<1>2. CASE OverLimit(c)
  BY <1>1, <1>2 DEF Charge, throttleVars, Counted
<1>3. CASE ~OverLimit(c)
  <2>1. counter' = [i \in Counters |-> IF i \in CountersOf[c] THEN Incremented(i, rounds)
                                       ELSE counter[i]]
    BY <1>3 DEF Charge
  <2>2. charged' = [i \in Counters |-> IF i \in CountersOf[c] THEN Append(charged[i], now)
                                       ELSE charged[i]]
    BY <1>3 DEF Charge
  <2>3. ASSUME NEW i \in Counters, i \in CountersOf[c]
        PROVE  /\ Incremented(i, rounds) \in Counter
               /\ CounterFits(Incremented(i, rounds), Append(charged[i], now), Limit[i], now)
    <3>1. /\ now \in Nat /\ WindowTime \in Nat \ {0} /\ Limit[i] \in Nat \ {0}
          /\ counter[i] \in Counter /\ charged[i] \in Seq(Nat)
          /\ CounterFits(counter[i], charged[i], Limit[i], now)
      BY <1>1 DEF Moments, Counted
    <3>2. CountOf(i) < Limit[i]
      <4>1. ~(CountOf(i) >= Limit[i])
        BY <1>3, <2>3 DEF OverLimit
      <4>2. CountOf(i) \in Nat
        BY <3>1 DEF CountOf, Counter
      <4>. QED BY <3>1, <4>1, <4>2
    <3>3. /\ counter[i].count \in Nat /\ counter[i].since \in Moments /\ counter[i].ends \in Nat
      BY <3>1 DEF Counter
    <3>4. CASE Alive(i)
      <4>1. PICK ends \in Nat :
              /\ Incremented(i, rounds) =
                   [count |-> counter[i].count + 1, since |-> counter[i].since, ends |-> ends]
              /\ \/ ends = counter[i].ends
                 \/ ends = now + WindowTime /\ counter[i].ends = now + 1
        BY <3>1, <3>3, <3>4 DEF Incremented, CountOf, EndOf
      <4>2. PICK n \in Counter :
              /\ n = Incremented(i, rounds) /\ n.count = counter[i].count + 1
              /\ n.since = counter[i].since /\ n.ends = ends
        BY <3>3, <4>1 DEF Counter
      <4>3. counter[i].ends > now /\ counter[i].count < Limit[i]
        BY <3>2, <3>4 DEF Alive, CountOf
      <4>4. CounterFits(n, Append(charged[i], now), Limit[i], now)
        BY <3>1, <4>1, <4>2, <4>3, ChargeFits
      <4>. QED BY <4>2, <4>4
    <3>5. CASE ~Alive(i)
      <4>1. Incremented(i, rounds) = [count |-> 1, since |-> now, ends |-> now + WindowTime]
        BY <3>5 DEF Incremented, CountOf, EndOf
      <4>2. PICK n \in Counter :
              /\ n = Incremented(i, rounds) /\ n.count = 1
              /\ n.since = now /\ n.ends = now + WindowTime
        <5>1. now + WindowTime \in Nat
          BY <3>1
        <5>2. [count |-> 1, since |-> now, ends |-> now + WindowTime] \in Counter
          BY <1>1, <5>1 DEF Counter
        <5>. QED BY <4>1, <5>2
      <4>3. counter[i].ends <= now
        BY <3>1, <3>3, <3>5 DEF Alive
      <4>4. CounterFits(n, Append(charged[i], now), Limit[i], now)
        BY <3>1, <4>2, <4>3, ChargeFits
      <4>. QED BY <4>2, <4>4
    <3>. QED BY <3>4, <3>5
  <2>4. counter' \in [Counters -> Counter]
    BY <1>1, <2>1, <2>3
  <2>5. charged' \in [Counters -> Seq(Moments)]
    BY <1>1, <2>2
  <2>6. \A i \in Counters : CounterFits(counter'[i], charged'[i], Limit[i], now)
    BY <1>1, <2>1, <2>2, <2>3 DEF Counted
  <2>. QED BY <2>4, <2>5, <2>6
<1>. QED BY <1>2, <1>3

LEMMA TicketsKept ==
  ASSUME TicketingInv, TicketingTypeOK', Counted', UNCHANGED <<issued, stored, conn>>
  PROVE  TicketingInv'
BY DEF TicketingInv, Holds, TicketHeld, HeldByOne, StoredIsIssued

LEMMA CountersKept ==
  ASSUME TicketingInv, UNCHANGED <<now, throttleVars>>
  PROVE  Counted'
BY DEF TicketingInv, Counted, throttleVars

(* Only a ticket's own connection changes: it takes it, or lets it go. *)
LEMMA TicketingStep == TicketingInv /\ [TicketingNext]_ticketingVars => TicketingInv'
<1>. SUFFICES ASSUME TicketingInv, [TicketingNext]_ticketingVars PROVE TicketingInv'
  OBVIOUS
<1>. USE TicketingAssumption
<1>1. TicketingTypeOK /\ Counted /\ HeldByOne /\ StoredIsIssued
  BY DEF TicketingInv
<1>2. \A k \in Connections : Holds(k) => TicketHeld(k)
  BY DEF TicketingInv
<1>3. ASSUME NEW c \in Callers, NEW p \in Rooms, NEW rounds \in BOOLEAN,
             AllowRequest(c, p, rounds)
      PROVE  TicketingInv'
  <2>1. Charge(c, rounds)
    BY <1>3 DEF AllowRequest
  <2>2. Counted'
    BY <1>3, <2>1, ChargeKeeps DEF Counted, AllowRequest
  <2>3. ask' \in [Askers -> AskState]
    <3>1. /\ ask \in [Askers -> AskState]
          /\ [at |-> "passed", room |-> p] \in AskState
      BY <1>1 DEF TicketingTypeOK, AskState
    <3>2. \/ ask' = ask
          \/ ask' = [ask EXCEPT ![c] = [at |-> "passed", room |-> p]]
      BY <1>3 DEF AllowRequest, Starts
    <3>. QED BY <3>1, <3>2
  <2>4. TicketingTypeOK'
    BY <1>1, <1>3, <2>1, <2>3, ChargeKeeps DEF AllowRequest, TicketingTypeOK, accessVars
  <2>. QED BY <1>3, <2>2, <2>4, TicketsKept DEF AllowRequest
<1>4. ASSUME NEW c \in Callers, NEW rounds \in BOOLEAN, CountedInVain(c, rounds)
      PROVE  TicketingInv'
  <2>1. Charge(c, rounds)
    BY <1>4 DEF CountedInVain
  <2>2. Counted'
    BY <1>4, <2>1, ChargeKeeps DEF Counted, CountedInVain
  <2>3. TicketingTypeOK'
    BY <1>1, <1>4, <2>1, ChargeKeeps DEF CountedInVain, TicketingTypeOK, accessVars, askVars
  <2>. QED BY <1>4, <2>2, <2>3, TicketsKept DEF CountedInVain, askVars
<1>5. ASSUME NEW c \in Askers, CheckMembership(c) \/ IssueFails(c) PROVE TicketingInv'
  <2>1. ask' \in [Askers -> AskState]
    <3>1. /\ ask \in [Askers -> AskState] /\ Asleep \in AskState
          /\ [ask[c] EXCEPT !.at = "checked"] \in AskState
      <4>1. ask \in [Askers -> AskState]
        BY <1>1 DEF TicketingTypeOK
      <4>2. ask[c] \in AskState
        BY <4>1
      <4>3. [ask[c] EXCEPT !.at = "checked"] \in AskState
        BY <4>2 DEF AskState
      <4>4. Asleep \in AskState
        BY DEF Asleep, AskState
      <4>. QED BY <4>1, <4>3, <4>4
    <3>2. PICK next \in AskState : ask' = [ask EXCEPT ![c] = next]
      BY <1>5, <3>1 DEF CheckMembership, IssueFails
    <3>. QED BY <3>1, <3>2
  <2>2. UNCHANGED <<now, reachable, outages, throttleVars, accessVars, issued, stored, conn>>
    BY <1>5 DEF CheckMembership, IssueFails
  <2>3. TicketingTypeOK'
    BY <1>1, <2>1, <2>2 DEF TicketingTypeOK, throttleVars, accessVars
  <2>. QED BY <2>2, <2>3, TicketsKept, CountersKept
<1>6. ASSUME NEW c \in Askers, Deactivate(c) \/ (\E p \in Rooms : LeaveRoom(c, p))
      PROVE  TicketingInv'
  <2>1. UNCHANGED <<now, reachable, outages, throttleVars, askVars, conn>>
    BY <1>6 DEF Deactivate, LeaveRoom
  <2>2. admitted' \in [Rooms -> SUBSET Askers] /\ usable' \subseteq Askers
    BY <1>1, <1>6 DEF Deactivate, LeaveRoom, TicketingTypeOK
  <2>3. TicketingTypeOK'
    BY <1>1, <2>1, <2>2 DEF TicketingTypeOK, throttleVars, askVars
  <2>. QED BY <2>1, <2>3, TicketsKept, CountersKept DEF askVars
<1>7. ASSUME NEW c \in Askers, NEW t \in Tickets, NEW lost \in BOOLEAN, Issue(c, t, lost)
      PROVE  TicketingInv'
  <2>1. /\ ask[c].at = "checked" /\ issued[t] = NotIssued
        /\ issued' = [issued EXCEPT ![t] =
                        [user |-> c, room |-> ask[c].room, ends |-> now + LifeTime]]
        /\ stored' \in {stored, stored \cup {t}}
        /\ ask' = [ask EXCEPT ![c] = Asleep]
        /\ UNCHANGED <<now, reachable, throttleVars, accessVars, conn>>
        /\ outages' \in {outages, outages + 1}
    BY <1>7 DEF Issue
  <2>2. ask' \in [Askers -> AskState]
    BY <1>1, <2>1 DEF TicketingTypeOK, AskState, Asleep
  <2>3. [user |-> c, room |-> ask[c].room, ends |-> now + LifeTime] \in Ticket
    BY <1>1 DEF TicketingTypeOK, Ticket, AskState, Moments
  <2>4. issued' \in [Tickets -> Ticket] /\ stored' \subseteq Tickets
    BY <1>1, <2>1, <2>3 DEF TicketingTypeOK
  <2>5. TicketingTypeOK'
    BY <1>1, <2>1, <2>2, <2>4 DEF TicketingTypeOK, throttleVars, accessVars
  <2>6. issued'[t] # NotIssued
    <3>1. issued'[t].user = c
      BY <1>1, <2>1 DEF TicketingTypeOK
    <3>. QED BY <3>1 DEF NotIssued
  <2>7. StoredIsIssued'
    BY <1>1, <2>1, <2>6 DEF StoredIsIssued, TicketingTypeOK
  <2>8. ASSUME NEW k \in Connections, Holds(k)' PROVE TicketHeld(k)'
    <3>1. conn' = conn /\ Holds(k) /\ TicketHeld(k)
      BY <1>2, <2>1, <2>8 DEF Holds
    <3>2. conn[k].by # t
      BY <2>1, <3>1 DEF TicketHeld
    <3>3. issued'[conn[k].by] = issued[conn[k].by] /\ conn[k].by \notin stored'
      BY <1>1, <2>1, <3>1, <3>2 DEF TicketHeld, TicketingTypeOK
    <3>. QED BY <3>1, <3>3 DEF TicketHeld
  <2>9. HeldByOne'
    BY <1>1, <2>1 DEF HeldByOne, Holds
  <2>. QED BY <2>1, <2>5, <2>7, <2>8, <2>9, CountersKept DEF TicketingInv
<1>8. ASSUME NEW k \in Connections, NEW t \in Tickets, NEW p \in Rooms, NEW lost \in BOOLEAN,
             PresentTicket(k, t, p, lost)
      PROVE  TicketingInv'
  <2>1. PICK at \in {"taken", "anonymous"} :
          /\ at = "taken" => t \in stored /\ issued[t].ends > now /\ issued[t].room = p
          /\ conn' = [conn EXCEPT ![k] = [at |-> at, room |-> p, by |-> t, when |-> now]]
    <3>1. CASE ~lost /\ Usable(t) /\ issued[t].room = p
      BY <1>8, <3>1 DEF PresentTicket, Connects, Usable
    <3>2. CASE ~(~lost /\ Usable(t) /\ issued[t].room = p)
      BY <1>8, <3>2 DEF PresentTicket, Connects
    <3>. QED BY <3>1, <3>2
  <2>2. /\ stored' = stored \ {t} /\ outages' \in {outages, outages + 1}
        /\ UNCHANGED <<now, reachable, throttleVars, accessVars, ask, issued>>
    BY <1>8 DEF PresentTicket, Take
  <2>3. conn' \in [Connections -> ConnState]
    BY <1>1, <2>1 DEF TicketingTypeOK, ConnState
  <2>4. TicketingTypeOK'
    BY <1>1, <2>2, <2>3 DEF TicketingTypeOK, throttleVars, accessVars
  <2>5. /\ conn'[k].at = at /\ conn'[k].room = p /\ conn'[k].by = t /\ conn'[k].when = now
        /\ \A j \in Connections : j # k => conn'[j] = conn[j]
    BY <1>1, <2>1 DEF TicketingTypeOK
  <2>6. ASSUME NEW j \in Connections, j # k, Holds(j)'
        PROVE  /\ TicketHeld(j)' /\ Holds(j)
               /\ at = "taken" => conn[j].by # t
    <3>1. conn'[j] = conn[j] /\ Holds(j) /\ TicketHeld(j)
      BY <1>2, <2>5, <2>6 DEF Holds
    <3>. QED BY <2>1, <2>2, <3>1 DEF TicketHeld
  <2>7. ASSUME Holds(k)' PROVE TicketHeld(k)' /\ at = "taken"
    <3>1. at = "taken"
      BY <2>1, <2>5, <2>7 DEF Holds
    <3>2. issued[t] # NotIssued /\ now < issued[t].ends
      BY <1>1, <2>1, <3>1 DEF StoredIsIssued, TicketingTypeOK, Ticket, Moments
    <3>. QED BY <2>1, <2>2, <2>5, <3>1, <3>2 DEF TicketHeld
  <2>8. HeldByOne'
    <3>. SUFFICES ASSUME NEW j \in Connections, NEW l \in Connections,
                         Holds(j)', Holds(l)', conn'[j].by = conn'[l].by
                  PROVE  j = l
      BY DEF HeldByOne
    <3>1. CASE j # k /\ l # k
      BY <1>1, <2>5, <2>6, <3>1 DEF HeldByOne
    <3>2. CASE j = k \/ l = k
      BY <2>5, <2>6, <2>7, <3>2
    <3>. QED BY <3>1, <3>2
  <2>9. StoredIsIssued'
    BY <1>1, <2>2 DEF StoredIsIssued
  <2>. QED BY <2>2, <2>4, <2>6, <2>7, <2>8, <2>9, CountersKept DEF TicketingInv
<1>9. ASSUME NEW k \in Connections, LookUpUser(k) PROVE TicketingInv'
  <2>1. PICK at \in {"open", "anonymous"} : conn' = [conn EXCEPT ![k] = [conn[k] EXCEPT !.at = at]]
    BY <1>9 DEF LookUpUser, Connects
  <2>2. /\ Holds(k)
        /\ UNCHANGED <<now, reachable, outages, throttleVars, accessVars, askVars>>
    BY <1>9 DEF LookUpUser, Holds
  <2>3. conn' \in [Connections -> ConnState]
    BY <1>1, <2>1 DEF TicketingTypeOK, ConnState
  <2>4. TicketingTypeOK'
    BY <1>1, <2>2, <2>3 DEF TicketingTypeOK, throttleVars, accessVars, askVars
  <2>5. /\ conn'[k].room = conn[k].room /\ conn'[k].by = conn[k].by
        /\ conn'[k].when = conn[k].when
        /\ \A j \in Connections : j # k => conn'[j] = conn[j]
    BY <1>1, <2>1 DEF TicketingTypeOK, ConnState
  <2>6. ASSUME NEW j \in Connections, Holds(j)'
        PROVE  Holds(j) /\ conn'[j].by = conn[j].by /\ TicketHeld(j)'
    <3>1. Holds(j) /\ TicketHeld(j)
      BY <1>2, <2>2, <2>5, <2>6 DEF Holds
    <3>2. conn'[j].room = conn[j].room /\ conn'[j].by = conn[j].by /\ conn'[j].when = conn[j].when
      BY <2>5
    <3>. QED BY <2>2, <3>1, <3>2 DEF TicketHeld, askVars
  <2>7. HeldByOne' /\ StoredIsIssued'
    BY <1>1, <2>2, <2>6 DEF HeldByOne, StoredIsIssued, askVars
  <2>. QED BY <2>2, <2>4, <2>6, <2>7, CountersKept DEF TicketingInv
<1>10. CASE TimePasses
  <2>1. /\ now' = now + 1 /\ now' \in Moments
        /\ UNCHANGED <<reachable, outages, throttleVars, accessVars, askVars, conn>>
    BY <1>1, <1>10 DEF TimePasses, TicketingTypeOK, Moments
  <2>2. TicketingTypeOK'
    BY <1>1, <2>1 DEF TicketingTypeOK, throttleVars, accessVars, askVars
  <2>3. ASSUME NEW i \in Counters PROVE CounterFits(counter[i], charged[i], Limit[i], now + 1)
    <3>1. CounterFits(counter[i], charged[i], Limit[i], now)
      BY <1>1 DEF Counted
    <3>2. counter[i].since \in Nat /\ now \in Nat
      BY <1>1 DEF TicketingTypeOK, Counter, Moments
    <3>3. counter[i].since <= now => counter[i].since <= now + 1
      BY <3>2
    <3>. QED BY <3>1, <3>3 DEF CounterFits
  <2>4. Counted'
    BY <2>1, <2>3 DEF Counted, throttleVars
  <2>. QED BY <2>1, <2>2, <2>4, TicketsKept DEF askVars
<1>11. CASE Outage \/ UNCHANGED ticketingVars
  <2>1. /\ reachable' \in BOOLEAN /\ outages' \in Nat
        /\ UNCHANGED <<now, throttleVars, accessVars, askVars, conn>>
    <3>1. CASE Outage
      <4>1. UNCHANGED <<now, throttleVars, accessVars, askVars, conn>>
        BY <3>1 DEF Outage
      <4>2. reachable' = ~reachable /\ outages' \in {outages, outages + 1}
        BY <3>1 DEF Outage
      <4>3. reachable' \in BOOLEAN /\ outages' \in Nat
        BY <1>1, <4>2 DEF TicketingTypeOK
      <4>. QED BY <4>1, <4>3
    <3>2. CASE UNCHANGED ticketingVars
      BY <1>1, <3>2 DEF ticketingVars, TicketingTypeOK
    <3>. QED BY <1>11, <3>1, <3>2
  <2>2. TicketingTypeOK'
    BY <1>1, <2>1 DEF TicketingTypeOK, throttleVars, accessVars, askVars
  <2>. QED BY <2>1, <2>2, TicketsKept, CountersKept DEF askVars
<1>. QED BY <1>3, <1>4, <1>5, <1>6, <1>7, <1>8, <1>9, <1>10, <1>11 DEF TicketingNext

LEMMA TicketingInvHolds == TicketingSpec => []TicketingInv
BY TicketingInvInit, TicketingStep, PTL DEF TicketingSpec

(* However windows are laid and rounded, less than twice the limit of an   *)
(* identity goes through in any stretch of a window's length, and a ticket *)
(* opens one socket, its user's, in its room and its time (the script of   *)
(* apps/core/rate_limit.py and the consumption of ws_tickets.py).          *)
THEOREM AccessAlwaysRationed == TicketingSpec => []AccessIsRationed
<1>1. TicketingInv => AccessIsRationed
  <2>. SUFFICES ASSUME TicketingInv PROVE AccessIsRationed
    OBVIOUS
  <2>1. TicketingTypeOK /\ Counted /\ HeldByOne
    BY DEF TicketingInv
  <2>2. ASSUME NEW i \in Counters
        PROVE  /\ CountOf(i) <= Limit[i]
               /\ Alive(i) => CountOf(i) = ChargedSince(i, counter[i].since)
               /\ ChargedSince(i, now + 1 - WindowTime) < 2 * Limit[i]
    <3>1. /\ counter[i] \in Counter /\ charged[i] \in Seq(Nat) /\ now \in Nat
          /\ Limit[i] \in Nat \ {0} /\ CounterFits(counter[i], charged[i], Limit[i], now)
      BY <2>1, TicketingAssumption DEF TicketingTypeOK, Moments, Counted
    <3>2. ASSUME NEW m \in Int PROVE ChargedSince(i, m) = Cardinality(After(charged[i], m))
      BY DEF ChargedSince, After
    <3>3. Cardinality(After(charged[i], now + 1 - WindowTime)) < 2 * Limit[i]
      BY <3>1, StretchBound
    <3>4. ChargedSince(i, now + 1 - WindowTime) < 2 * Limit[i]
      BY <3>3 DEF ChargedSince, After
    <3>5. CASE Alive(i)
      <4>1. counter[i].ends > now /\ counter[i].ends # 0
        BY <3>1, <3>5 DEF Alive
      <4>2. /\ counter[i].count = Cardinality(After(charged[i], counter[i].since))
            /\ counter[i].count <= Limit[i]
        BY <3>1, <4>1 DEF CounterFits
      <4>. QED BY <3>4, <3>5, <4>2 DEF CountOf, ChargedSince, After
    <3>6. CASE ~Alive(i)
      BY <3>1, <3>4, <3>6 DEF CountOf
    <3>. QED BY <3>5, <3>6
  <2>3. ASSUME NEW t \in Tickets
        PROVE  LET sockets == {k \in Connections : conn[k].by = t /\ conn[k].at \in {"taken", "open"}}
               IN /\ Cardinality(sockets) <= 1
                  /\ \A k \in sockets : conn[k].room = issued[t].room /\ conn[k].when < issued[t].ends
    <3> DEFINE sockets == {k \in Connections : conn[k].by = t /\ conn[k].at \in {"taken", "open"}}
    <3>1. \A k \in sockets : k \in Connections /\ Holds(k) /\ conn[k].by = t
      BY DEF Holds
    <3>2. \A k \in sockets : conn[k].room = issued[t].room /\ conn[k].when < issued[t].ends
      BY <3>1 DEF TicketingInv, TicketHeld
    <3>3. \A k, j \in sockets : k = j
      BY <2>1, <3>1 DEF HeldByOne
    <3>. HIDE DEF sockets
    <3>4. Cardinality(sockets) <= 1
      <4>1. CASE sockets = {}
        <5>1. Cardinality(sockets) = 0
          BY <4>1, FS_EmptySet
        <5>. QED BY <5>1
      <4>2. CASE sockets # {}
        <5>1. PICK one \in sockets : TRUE
          BY <4>2
        <5>2. sockets = {one}
          BY <3>3, <5>1
        <5>3. Cardinality(sockets) = 1
          BY <5>2, FS_Singleton
        <5>. QED BY <5>3
      <4>. QED BY <4>1, <4>2
    <3>. QED BY <3>2, <3>4 DEF sockets
  <2>4. CountersAgree
    BY <2>2 DEF CountersAgree
  <2>5. TicketsOpenOnce
    BY <2>3 DEF TicketsOpenOnce
  <2>. QED BY <2>4, <2>5 DEF AccessIsRationed
<1>. QED BY <1>1, TicketingInvHolds, PTL

----------------------------------------------------------------------------
(* The training of models (Analytics)                                      *)

(* The lock is deleted by the one that holds it and expires after it: a    *)
(* command that is at work holds it, and so is alone.                      *)
HoldsTheLock == \A t \in Trainers : trainer[t].step # "none" => lock = t

(* Nothing was activated since the models were compared. *)
StillBetter ==
  \A t \in Trainers :
    /\ trainer[t].step \in {"stored", "compared", "worse", "ended"} => trainer[t].error \in Errors
    /\ trainer[t].step = "compared" /\ trainer[t].choosy => IsBetter(t)

TrainingInv == TrainingTypeOK /\ HoldsTheLock /\ StillBetter

(* A step of the command that holds the lock, or takes it.                 *)
LEMMA TrainerKeeps ==
  ASSUME TrainingInv, NEW t \in Trainers, NEW row \in TrainerRow,
         trainer' = [trainer EXCEPT ![t] = row],
         \A s \in Trainers \ {t} : trainer[s].step = "none",
         lock' \in Trainers \cup {NoOne}, row.step # "none" => lock' = t,
         active' \in Errors \cup {NoModel},
         row.step \in {"stored", "compared", "worse", "ended"} => row.error \in Errors,
         row.step = "compared" /\ row.choosy => active' = NoModel \/ row.error < active'
  PROVE  TrainingInv'
<1>1. /\ trainer'[t] = row
      /\ \A s \in Trainers \ {t} : trainer'[s] = trainer[s]
      /\ trainer' \in [Trainers -> TrainerRow]
  BY DEF TrainingInv, TrainingTypeOK
<1>2. TrainingTypeOK' /\ HoldsTheLock'
  BY <1>1 DEF TrainingTypeOK, HoldsTheLock
<1>3. StillBetter'
  BY <1>1 DEF StillBetter, IsBetter
<1>. QED BY <1>2, <1>3 DEF TrainingInv

LEMMA OthersRest ==
  ASSUME TrainingInv, NEW t \in Trainers, trainer[t].step # "none" \/ lock = NoOne
  PROVE  \A s \in Trainers \ {t} : trainer[s].step = "none"
BY TrainingAssumption DEF TrainingInv, HoldsTheLock

LEMMA TrainingStep == TrainingInv /\ [TrainingNext]_trainingVars => TrainingInv'
<1> SUFFICES ASSUME TrainingInv, [TrainingNext]_trainingVars PROVE TrainingInv'
  OBVIOUS
<1>0. /\ \A t \in Trainers : trainer[t] \in TrainerRow
      /\ DOMAIN trainer = Trainers /\ NoTrainer \in TrainerRow /\ NoTrainer.step = "none"
      /\ lock \in Trainers \cup {NoOne} /\ active \in Errors \cup {NoModel}
  BY DEF TrainingInv, TrainingTypeOK, TrainerRow, TrainerStep, NoTrainer
<1>1. CASE LockExpires
  <2>1. UNCHANGED <<trainer, active>> /\ lock' = NoOne
    BY <1>1 DEF LockExpires
  <2>2. \A t \in Trainers : trainer[t].step = "none"
    BY <1>0, <1>1 DEF LockExpires, TrainingInv, HoldsTheLock
  <2>. QED BY <2>1, <2>2 DEF TrainingInv, TrainingTypeOK, HoldsTheLock, StillBetter, IsBetter
<1>2. ASSUME NEW t \in Trainers, NEW choosy \in BOOLEAN, AcquireLock(t, choosy)
      PROVE  TrainingInv'
  <2> DEFINE row == [step |-> "training", error |-> NoModel, choosy |-> choosy]
  <2>1. row \in TrainerRow /\ row.step = "training"
    BY DEF TrainerRow, TrainerStep
  <2>2. /\ trainer' = [trainer EXCEPT ![t] = row] /\ lock' = t /\ active' = active
        /\ lock = NoOne
    BY <1>2 DEF AcquireLock
  <2>. HIDE DEF row
  <2>. QED BY <1>0, <2>1, <2>2, OthersRest, TrainerKeeps
<1>3. ASSUME NEW t \in Trainers, NEW row \in TrainerRow, trainer[t].step # "none",
             trainer' = [trainer EXCEPT ![t] = row], UNCHANGED lock,
             active' \in Errors \cup {NoModel},
             row.step \in {"stored", "compared", "worse", "ended"} => row.error \in Errors,
             row.step = "compared" /\ row.choosy => active' = NoModel \/ row.error < active'
      PROVE  TrainingInv'
  <2>1. lock = t
    BY <1>3 DEF TrainingInv, HoldsTheLock
  <2>. QED BY <1>0, <1>3, <2>1, OthersRest, TrainerKeeps
<1>4. ASSUME NEW t \in Trainers, NEW error \in Errors, StoreModel(t, error)
      PROVE  TrainingInv'
  <2> DEFINE row == [trainer[t] EXCEPT !.step = "stored", !.error = error]
  <2>1. row \in TrainerRow /\ row.step = "stored" /\ row.error = error
    BY <1>0 DEF TrainerRow, TrainerStep
  <2>2. /\ trainer' = [trainer EXCEPT ![t] = row] /\ UNCHANGED <<lock, active>>
        /\ trainer[t].step # "none"
    BY <1>4 DEF StoreModel
  <2>. HIDE DEF row
  <2>. QED BY <1>0, <1>3, <2>1, <2>2
<1>5. ASSUME NEW t \in Trainers, CompareModel(t) PROVE TrainingInv'
  <2> DEFINE next == IF trainer[t].choosy /\ ~IsBetter(t) THEN "worse" ELSE "compared"
             row == [trainer[t] EXCEPT !.step = next]
  <2>1. next \in {"worse", "compared"} /\ (next = "compared" /\ trainer[t].choosy => IsBetter(t))
    OBVIOUS
  <2>2. /\ trainer' = [trainer EXCEPT ![t] = row] /\ UNCHANGED <<lock, active>>
        /\ trainer[t].step = "stored"
    BY <1>5 DEF CompareModel, Reach
  <2>. HIDE DEF next
  <2>3. /\ row \in TrainerRow /\ row.step = next /\ row.error = trainer[t].error
        /\ row.choosy = trainer[t].choosy
    BY <1>0, <2>1 DEF TrainerRow, TrainerStep
  <2>4. row.error \in Errors
    BY <2>2, <2>3 DEF TrainingInv, StillBetter
  <2>5. row.step = "compared" /\ row.choosy => active' = NoModel \/ row.error < active'
    BY <2>1, <2>2, <2>3 DEF IsBetter
  <2>. HIDE DEF row
  <2>. QED BY <1>0, <1>3, <2>2, <2>3, <2>4, <2>5
<1>6. ASSUME NEW t \in Trainers, ActivateModel(t) \/ KeepModel(t) PROVE TrainingInv'
  <2> DEFINE row == [trainer[t] EXCEPT !.step = "ended"]
  <2>1. /\ trainer' = [trainer EXCEPT ![t] = row] /\ UNCHANGED lock
        /\ trainer[t].step \in {"compared", "worse"}
        /\ active' \in {active, trainer[t].error}
    BY <1>6 DEF ActivateModel, KeepModel, Reach
  <2>2. row \in TrainerRow /\ row.step = "ended" /\ row.error = trainer[t].error
    BY <1>0 DEF TrainerRow, TrainerStep
  <2>3. trainer[t].error \in Errors
    BY <2>1 DEF TrainingInv, StillBetter
  <2>. HIDE DEF row
  <2>. QED BY <1>0, <1>3, <2>1, <2>2, <2>3
<1>7. ASSUME NEW t \in Trainers, TrainNext(t) PROVE TrainingInv'
  <2> DEFINE row == [trainer[t] EXCEPT !.step = "training", !.error = NoModel]
  <2>1. row \in TrainerRow /\ row.step = "training"
    BY <1>0 DEF TrainerRow, TrainerStep
  <2>2. /\ trainer' = [trainer EXCEPT ![t] = row] /\ UNCHANGED <<lock, active>>
        /\ trainer[t].step # "none"
    BY <1>7 DEF TrainNext
  <2>. HIDE DEF row
  <2>. QED BY <1>0, <1>3, <2>1, <2>2
<1>8. ASSUME NEW t \in Trainers, LookAtLock(t) PROVE TrainingInv'
  <2> DEFINE row == [trainer[t] EXCEPT !.step = "own"]
  <2>1. row \in TrainerRow /\ row.step = "own"
    BY <1>0 DEF TrainerRow, TrainerStep
  <2>2. lock = t
    BY <1>8 DEF LookAtLock, TrainingInv, HoldsTheLock
  <2>3. /\ trainer' = [trainer EXCEPT ![t] = row] /\ UNCHANGED <<lock, active>>
        /\ trainer[t].step # "none"
    BY <1>8, <2>2 DEF LookAtLock
  <2>. HIDE DEF row
  <2>. QED BY <1>0, <1>3, <2>1, <2>3
<1>9. ASSUME NEW t \in Trainers, DeleteLock(t) \/ TrainerDies(t) PROVE TrainingInv'
  <2>1. /\ trainer' = [trainer EXCEPT ![t] = NoTrainer] /\ lock' \in {lock, NoOne}
        /\ UNCHANGED active /\ trainer[t].step # "none"
    BY <1>9 DEF DeleteLock, TrainerDies
  <2>. QED BY <1>0, <2>1, OthersRest, TrainerKeeps
<1>10. CASE UNCHANGED trainingVars
  BY <1>10 DEF trainingVars, TrainingInv, TrainingTypeOK, HoldsTheLock, StillBetter, IsBetter
<1>. QED BY <1>1, <1>2, <1>4, <1>5, <1>6, <1>7, <1>8, <1>9, <1>10 DEF TrainingNext

(* However many are started, killed and started again, one after the       *)
(* other's lock has run out: a model that was to replace the active one    *)
(* only if it is better is compared with the one that it replaces          *)
(* (ModelTrainer._store, train_analytics_models).                          *)
THEOREM ModelsNeverWorse == TrainingSpec => ActiveNeverWorse
<1>1. TrainingInit => TrainingInv
  BY DEF TrainingInit, TrainingInv, TrainingTypeOK, HoldsTheLock, StillBetter, NoTrainer,
         TrainerRow, TrainerStep
<1>2. TrainingInv /\ [TrainingNext]_trainingVars =>
        [active' # active =>
           \E t \in Trainers :
             /\ trainer[t].step = "compared" /\ active' = trainer[t].error
             /\ trainer[t].choosy => active = NoModel \/ active' < active]_trainingVars
  <2> SUFFICES ASSUME TrainingInv, TrainingNext, active' # active
               PROVE  \E t \in Trainers :
                        /\ trainer[t].step = "compared" /\ active' = trainer[t].error
                        /\ trainer[t].choosy => active = NoModel \/ active' < active
    OBVIOUS
  <2>1. PICK t \in Trainers : ActivateModel(t)
    BY DEF TrainingNext, LockExpires, AcquireLock, StoreModel, CompareModel, KeepModel,
           TrainNext, LookAtLock, DeleteLock, TrainerDies
  <2>. QED BY <2>1 DEF ActivateModel, TrainingInv, StillBetter, IsBetter
<1>. QED BY <1>1, <1>2, TrainingStep, PTL DEF TrainingSpec, ActiveNeverWorse
=============================================================================
