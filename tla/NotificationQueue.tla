-------------------------- MODULE NotificationQueue --------------------------
(***************************************************************************)
(* Notifications and the queue that retries them (apps/notification): the  *)
(* request that sends one at once or schedules it, and the processes that  *)
(* run process_queue.  A process works on the copy of the notification it  *)
(* read; every statement of it commits by itself, so two processes may be  *)
(* anywhere in the same notification once a claim of the queue is stale.   *)
(***************************************************************************)
EXTENDS Naturals, FiniteSets

CONSTANTS
  Notifications,
  Workers,       \* processes that run NotificationQueueProcessor.process_queue
  Request,       \* the request that called send_notification
  Priority,      \* Priority[n]: the score its entry in the queue gets
  BatchSize,     \* of one run of process_queue
  MaxRetries,    \* Notification.max_retries
  MaxFaults      \* bound: processes that die, and workers that take so long
                 \* that their claim is stale before they are done

ASSUME QueueAssumption ==
  /\ IsFiniteSet(Workers) /\ Request \notin Workers
  /\ Priority \in [Notifications -> Nat]
  /\ BatchSize \in Nat \ {0} /\ MaxRetries \in Nat \ {0}
  /\ MaxFaults \in Nat

VARIABLES
  row,      \* row[n]: the Notification
  entry,    \* entry[n]: its NotificationQueue entry
  job,      \* job[p][n]: where process p is with n, and its copy of the row
  log,      \* log[n]: what happened to n so far (history)
  faults    \* how many faults there were

vars == <<row, entry, job, log, faults>>

Processes == Workers \cup {Request}

NotificationStatus == {"absent", "pending", "sent", "delivered", "read",
                       "failed", "deleted"}
(* scheduled: scheduled_at is not null *)
Copy == [status: NotificationStatus, retries: Nat, scheduled: BOOLEAN]
(* "due": its time has come; "stale": is_processing, and its               *)
(* processing_started_at is older than five minutes.                       *)
EntryState == {"none", "waiting", "due", "claimed", "stale"}
(* "loaded": the provider is not called yet; "sent", "refused", "raised":  *)
(* what its call came to; "counted": the retry is counted; "succeeded",    *)
(* "failed": what _process_notification returns; "queueing": the row is    *)
(* created and its queue entry is not.                                     *)
JobStep == {"none", "queueing", "loaded", "sent", "refused", "raised",
            "counted", "succeeded", "failed"}
Job == [at: JobStep, copy: Copy]
(* attempts: calls of the provider that failed; delivered: those it        *)
(* accepted; raised: one raised, slipped: after the message had left;      *)
(* excuses: stale claims taken over; seen: its user read it; accepted:     *)
(* send_notification returned True; cleaned: the row was cleaned up.       *)
History == [attempts: Nat, delivered: Nat, raised: BOOLEAN, slipped: BOOLEAN,
            excuses: Nat, seen: BOOLEAN, accepted: BOOLEAN, cleaned: BOOLEAN]

TypeOK ==
  /\ row \in [Notifications -> Copy]
  /\ entry \in [Notifications -> EntryState]
  /\ job \in [Processes -> [Notifications -> Job]]
  /\ log \in [Notifications -> History]
  /\ faults \in Nat

NoRow == [status |-> "absent", retries |-> 0, scheduled |-> FALSE]
NoJob == [at |-> "none", copy |-> NoRow]
NothingYet == [attempts |-> 0, delivered |-> 0, raised |-> FALSE, slipped |-> FALSE,
               excuses |-> 0, seen |-> FALSE, accepted |-> FALSE, cleaned |-> FALSE]

Init ==
  /\ row = [n \in Notifications |-> NoRow]
  /\ entry = [n \in Notifications |-> "none"]
  /\ job = [p \in Processes |-> [n \in Notifications |-> NoJob]]
  /\ log = [n \in Notifications |-> NothingYet]
  /\ faults = 0

(* Fault: the last attempt is not made. *)
CanRetryOnceLess(c) == c.retries + 1 < MaxRetries /\ c.status = "failed"

CanRetry(c) == c.retries < MaxRetries /\ c.status = "failed"
At(p, n) == job[p][n].at
CopyOf(p, n) == job[p][n].copy
Works(p, n, step, copy) ==
  job' = [job EXCEPT ![p] = [@ EXCEPT ![n] = [at |-> step, copy |-> copy]]]
Stops(p, n) == Works(p, n, "none", NoRow)
Exists(n) == row[n].status \notin {"absent", "deleted"}

----------------------------------------------------------------------------
(* send_notification, for the user's preferences allow it *)

Created(n, scheduled) ==
  [status |-> "pending", retries |-> 0, scheduled |-> scheduled]

(* Fault: what is sent at once is queued as well. *)
SendNowAndQueue(n) ==
  /\ row[n].status = "absent"
  /\ row' = [row EXCEPT ![n] = Created(n, FALSE)]
  /\ entry' = [entry EXCEPT ![n] = "waiting"]
  /\ Works(Request, n, "loaded", Created(n, FALSE))
  /\ UNCHANGED <<log, faults>>

SendNow(n) ==
  /\ row[n].status = "absent"
  /\ row' = [row EXCEPT ![n] = Created(n, FALSE)]
  /\ Works(Request, n, "loaded", Created(n, FALSE))
  /\ UNCHANGED <<entry, log, faults>>

Schedule(n) ==
  /\ row[n].status = "absent"
  /\ row' = [row EXCEPT ![n] = Created(n, TRUE)]
  /\ Works(Request, n, "queueing", Created(n, TRUE))
  /\ UNCHANGED <<entry, log, faults>>

(* _add_to_queue: of a scheduled one, and of one that failed and can be    *)
(* retried.                                                                *)
AddToQueue(n) ==
  /\ \/ At(Request, n) = "queueing"
     \/ At(Request, n) = "failed" /\ CanRetry(CopyOf(Request, n))
  /\ entry' = [entry EXCEPT ![n] = "waiting"]
  /\ log' = [log EXCEPT ![n].accepted = TRUE]
  /\ Stops(Request, n)
  /\ UNCHANGED <<row, faults>>

Answer(n) ==
  /\ \/ At(Request, n) = "succeeded"
     \/ At(Request, n) = "failed" /\ ~CanRetry(CopyOf(Request, n))
  /\ log' = [log EXCEPT ![n].accepted = At(Request, n) = "succeeded"]
  /\ Stops(Request, n)
  /\ UNCHANGED <<row, entry, faults>>

----------------------------------------------------------------------------
(* _process_notification, by the request or by a worker, which goes        *)
(* through its batch one after the other.                                  *)

ItsTurn(p, n) ==
  p \in Workers =>
    \A m \in Notifications \ {n} : At(p, m) \in {"none", "loaded"}

ProviderAccepts(p, n) ==
  /\ At(p, n) = "loaded" /\ ItsTurn(p, n)
  /\ log' = [log EXCEPT ![n].delivered = @ + 1]
  /\ Works(p, n, "sent", CopyOf(p, n))
  /\ UNCHANGED <<row, entry, faults>>

ProviderRefuses(p, n) ==
  /\ At(p, n) = "loaded" /\ ItsTurn(p, n)
  /\ log' = [log EXCEPT ![n].attempts = @ + 1]
  /\ Works(p, n, "refused", CopyOf(p, n))
  /\ UNCHANGED <<row, entry, faults>>

(* The call fails with an exception, before or after the message left: any *)
(* number of times, for no retry is counted.                               *)
ProviderRaises(p, n, left) ==
  /\ At(p, n) = "loaded" /\ ItsTurn(p, n)
  /\ log' = [log EXCEPT ![n].raised = TRUE, ![n].slipped = @ \/ left]
  /\ Works(p, n, "raised", CopyOf(p, n))
  /\ UNCHANGED <<row, entry, faults>>

MarkAsSent(p, n) ==
  /\ At(p, n) = "sent" /\ Exists(n)
  /\ row' = [row EXCEPT ![n].status = "sent"]
  /\ Works(p, n, "succeeded", [CopyOf(p, n) EXCEPT !.status = "sent"])
  /\ UNCHANGED <<entry, log, faults>>

(* increment_retry counts on the copy. *)
IncrementRetry(p, n) ==
  LET copy == [CopyOf(p, n) EXCEPT !.retries = @ + 1]
  IN /\ At(p, n) = "refused" /\ Exists(n)
     /\ row' = [row EXCEPT ![n].retries = copy.retries]
     /\ Works(p, n, "counted", copy)
     /\ UNCHANGED <<entry, log, faults>>

(* The whole copy is saved, with the time of the next attempt: a row that  *)
(* was cleaned up since its retry was counted is inserted again.           *)
Reschedule(p, n) ==
  LET copy == [CopyOf(p, n) EXCEPT !.scheduled = TRUE]
  IN /\ At(p, n) = "counted" /\ CanRetry(copy)
     /\ row' = [row EXCEPT ![n] = copy]
     /\ Works(p, n, "failed", copy)
     /\ UNCHANGED <<entry, log, faults>>

MarkAsFailed(p, n) ==
  /\ \/ At(p, n) = "raised"
     \/ At(p, n) = "counted" /\ ~CanRetry(CopyOf(p, n))
  /\ Exists(n)
  /\ row' = [row EXCEPT ![n].status = "failed"]
  /\ Works(p, n, "failed", [CopyOf(p, n) EXCEPT !.status = "failed"])
  /\ UNCHANGED <<entry, log, faults>>

----------------------------------------------------------------------------
(* process_queue *)

BecomesDue(n) ==
  /\ entry[n] = "waiting"
  /\ entry' = [entry EXCEPT ![n] = "due"]
  /\ UNCHANGED <<row, job, log, faults>>

Claimable == {n \in Notifications : entry[n] \in {"due", "stale"}}

(* No entry is left behind for one of a lower priority; of the same, any   *)
(* may have the earlier time.                                              *)
FirstOf(S, batch) ==
  /\ batch \subseteq S /\ Cardinality(batch) <= BatchSize
  /\ batch # S => Cardinality(batch) = BatchSize
  /\ \A n \in batch, m \in S \ batch : Priority[n] >= Priority[m]

Loaded(batch) ==
  [n \in Notifications |->
     IF n \in batch THEN [at |-> "loaded", copy |-> row[n]] ELSE NoJob]

(* Fault: the claim of a process that died is never taken over. *)
ClaimOnlyDue(w, batch) ==
  /\ \A n \in Notifications : At(w, n) = "none"
  /\ batch # {} /\ FirstOf({n \in Notifications : entry[n] = "due"}, batch)
  /\ entry' = [n \in Notifications |-> IF n \in batch THEN "claimed" ELSE entry[n]]
  /\ job' = [job EXCEPT ![w] = Loaded(batch)]
  /\ UNCHANGED <<row, log, faults>>

(* The transaction that claims what is due, under row locks. *)
Claim(w, batch) ==
  /\ \A n \in Notifications : At(w, n) = "none"
  /\ batch # {} /\ FirstOf(Claimable, batch)
  /\ entry' = [n \in Notifications |-> IF n \in batch THEN "claimed" ELSE entry[n]]
  /\ log' = [n \in Notifications |->
       IF n \in batch /\ entry[n] = "stale"
       THEN [log[n] EXCEPT !.excuses = @ + 1] ELSE log[n]]
  /\ job' = [job EXCEPT ![w] = Loaded(batch)]
  /\ UNCHANGED <<row, faults>>

(* After five minutes: most often of a process that died. *)
ClaimGetsStale(n) ==
  /\ entry[n] = "claimed"
  /\ entry' = [entry EXCEPT ![n] = "stale"]
  /\ \/ /\ \A w \in Workers : At(w, n) = "none"
        /\ UNCHANGED faults
     \/ /\ \E w \in Workers : At(w, n) # "none"
        /\ faults < MaxFaults
        /\ faults' = faults + 1
  /\ UNCHANGED <<row, job, log>>

(* The entry is deleted after a success, by whoever holds it now. *)
FinishSent(w, n) ==
  /\ At(w, n) = "succeeded"
  /\ entry' = [entry EXCEPT ![n] = "none"]
  /\ Stops(w, n)
  /\ UNCHANGED <<row, log, faults>>

(* After a failure the row is read again: the entry waits for the next     *)
(* attempt, unless it is gone or its row has no time for one (the save     *)
(* then fails, and the handler of that deletes the entry).                 *)
FinishFailed(w, n) ==
  /\ At(w, n) = "failed"
  /\ entry' = [entry EXCEPT
       ![n] = IF @ # "none" /\ CanRetry(row[n]) /\ row[n].scheduled
              THEN "waiting" ELSE "none"]
  /\ Stops(w, n)
  /\ UNCHANGED <<row, log, faults>>

(* The row was deleted: whatever the process saves of it raises, but for   *)
(* the whole copy.                                                         *)
FinishDeleted(w, n) ==
  /\ ~Exists(n)
  /\ \/ At(w, n) \in {"sent", "refused", "raised"}
     \/ At(w, n) = "counted" /\ ~CanRetry(CopyOf(w, n))
  /\ entry' = [entry EXCEPT ![n] = "none"]
  /\ Stops(w, n)
  /\ UNCHANGED <<row, log, faults>>

ProcessDies(p) ==
  /\ \E n \in Notifications : At(p, n) # "none"
  /\ faults < MaxFaults
  /\ faults' = faults + 1
  /\ job' = [job EXCEPT ![p] = [n \in Notifications |-> NoJob]]
  /\ UNCHANGED <<row, entry, log>>

----------------------------------------------------------------------------
(* The user, and the clean-up *)

(* The socket of the user got it and marks it, whatever its status is now. *)
MarkAsDelivered(n) ==
  /\ Exists(n) /\ (log[n].delivered > 0 \/ log[n].slipped)
  /\ row[n].status # "delivered"
  /\ row' = [row EXCEPT ![n].status = "delivered"]
  /\ UNCHANGED <<entry, job, log, faults>>

MarkAsRead(n) ==
  /\ Exists(n) /\ row[n].status # "read"
  /\ row' = [row EXCEPT ![n].status = "read"]
  /\ log' = [log EXCEPT ![n].seen = TRUE]
  /\ UNCHANGED <<entry, job, faults>>

MarkAllAsRead(all) ==
  /\ all = {n \in Notifications : row[n].status \in {"sent", "delivered"}}
  /\ all # {}
  /\ row' = [n \in Notifications |->
       IF n \in all THEN [row[n] EXCEPT !.status = "read"] ELSE row[n]]
  /\ log' = [n \in Notifications |->
       IF n \in all THEN [log[n] EXCEPT !.seen = TRUE] ELSE log[n]]
  /\ UNCHANGED <<entry, job, faults>>

(* A month later: its queue entry goes with it.  No request takes so long. *)
CleanUp(n) ==
  /\ row[n].status \in {"delivered", "read", "failed"}
  /\ At(Request, n) = "none"
  /\ row' = [row EXCEPT ![n].status = "deleted"]
  /\ entry' = [entry EXCEPT ![n] = "none"]
  /\ log' = [log EXCEPT ![n].cleaned = TRUE]
  /\ UNCHANGED <<job, faults>>

----------------------------------------------------------------------------
Process(p, n) ==
  \/ ProviderAccepts(p, n) \/ ProviderRefuses(p, n)
  \/ \E left \in BOOLEAN : ProviderRaises(p, n, left)
  \/ MarkAsSent(p, n) \/ IncrementRetry(p, n)
  \/ Reschedule(p, n) \/ MarkAsFailed(p, n)

WorkerRuns(w) ==
  \/ \E batch \in SUBSET Notifications : Claim(w, batch)
  \/ \E n \in Notifications :
       Process(w, n) \/ FinishSent(w, n) \/ FinishFailed(w, n) \/ FinishDeleted(w, n)

RequestRuns(n) ==
  SendNow(n) \/ Schedule(n) \/ Process(Request, n) \/ AddToQueue(n) \/ Answer(n)

UserActs ==
  \/ \E n \in Notifications : MarkAsDelivered(n) \/ MarkAsRead(n)
  \/ \E all \in SUBSET Notifications : MarkAllAsRead(all)

Next ==
  \/ \E w \in Workers : WorkerRuns(w)
  \/ \E n \in Notifications :
       RequestRuns(n) \/ BecomesDue(n) \/ ClaimGetsStale(n) \/ CleanUp(n)
  \/ \E p \in Processes : ProcessDies(p)
  \/ UserActs

Spec == Init /\ [][Next]_vars

(* process_appointment_tasks runs process_queue every minute in a service  *)
(* that is restarted (docker-compose.yml), and time passes.                *)
FairSpec ==
  /\ Spec
  /\ \A w \in Workers : WF_vars(WorkerRuns(w))
  /\ \A n \in Notifications : WF_vars(BecomesDue(n)) /\ WF_vars(ClaimGetsStale(n))
----------------------------------------------------------------------------
(* The provider accepts a notification once, and once more only for a      *)
(* stale claim that was taken over: neither the request and the queue nor  *)
(* two workers send the same one otherwise, although each works on a copy  *)
(* and a late worker may release an entry that another one holds.  What    *)
(* leaves in a call that raises is not answered for, and goes out again.   *)
SentOncePerClaim ==
  \A n \in Notifications : log[n].delivered <= 1 + log[n].excuses

(* What send_notification accepted stays in the queue until it went out,   *)
(* was read, was tried MaxRetries times, or its row was cleaned up. The    *)
(* exception is a call of the provider that raised: it is not counted, and *)
(* a notification without a time for the next attempt is dropped then.     *)
AcceptedIsKept ==
  \A n \in Notifications :
    log[n].accepted =>
      \/ entry[n] # "none" \/ log[n].cleaned
      \/ log[n].delivered > 0 \/ log[n].seen
      \/ log[n].attempts >= MaxRetries \/ log[n].raised

(* Neither once too often nor never (NotificationService).                 *)
DeliveryAgrees == SentOncePerClaim /\ AcceptedIsKept

NotBehind(n) == {m \in Notifications : Priority[m] >= Priority[n]}
Raises(n) == \E w \in Workers : At(w, n) = "raised"

(* An entry leaves the queue: what a dead worker held is taken over, and   *)
(* the retries come to an end, whatever copies are saved late.  Only the   *)
(* provider can hold it there for ever, by raising again and again for it  *)
(* or for one that is not behind it: that is no counted retry, and the     *)
(* entry, due at once, fills the next batch (process_queue).               *)
QueueDrains ==
  \A n \in Notifications :
    \/ entry[n] # "none" ~> entry[n] = "none"
    \/ \E m \in NotBehind(n) : []<>Raises(m)
=============================================================================
