--------------------------- MODULE Reconciliation --------------------------
(***************************************************************************)
(* The scheduled command that asks the gateway again about payments that   *)
(* nobody verified (reconcile_stale_payment_sessions of apps/payment/      *)
(* core.py, once a minute, one run at a time), beside the orders and the   *)
(* callbacks of OrderPayment.  A run takes the oldest pending sessions, a  *)
(* limited number of them; those that cannot be decided come back in every *)
(* run, and an exception that verify does not expect ends the run.         *)
(***************************************************************************)
EXTENDS OrderPayment, SequencesExt

CONSTANTS
  Others,     \* sessions for stores, appointments and cards, never decided
  BatchLimit  \* --limit, 100 in the crontab

ASSUME BatchAssumption == Others \cap Payments = {} /\ BatchLimit \in Nat \ {0}

VARIABLES
  born,   \* the sessions by their created_at
  stale,  \* how many of them are older than the payment TTL
  batch,  \* the sessions that the run under way has still to look at
  other   \* other[x]: the payment x of Others

runVars == <<born, stale, batch, other>>
allVars == <<vars, runVars>>

Sessions == Payments \cup Others

(* "lost": paid, and what it was for is gone, which verify answers with a  *)
(* refusal, or without an authority; "raising": paid, and the business     *)
(* card it was for is gone, which verify raises.  Sessions that end are    *)
(* like those of Payments.                                                 *)
OtherState == {"absent", "lost", "raising"}

RunTypeOK ==
  /\ born \in Seq(Sessions) /\ IsInjective(born)
  /\ stale \in 0..Len(born)
  /\ batch \in Seq(Sessions) /\ Len(batch) <= BatchLimit
  /\ other \in [Others -> OtherState]

RunInit ==
  /\ Init
  /\ born = <<>> /\ stale = 0 /\ batch = <<>>
  /\ other = [x \in Others |-> "absent"]

Pending(z) ==
  IF z \in Payments THEN payment[z].status = "pending"
  ELSE other[z] # "absent"

----------------------------------------------------------------------------
(* Everything but the run: customers, callbacks and other payments         *)

Beside ==
  /\ Next
  /\ born' = born \o SetToSeq({y \in Payments : payment[y].status = "absent"
                                                  /\ payment'[y].status # "absent"})
  /\ UNCHANGED <<stale, batch, other>>

OpenOther(x, state) ==
  /\ other[x] = "absent" /\ state # "absent"
  /\ other' = [other EXCEPT ![x] = state]
  /\ born' = Append(born, x)
  /\ UNCHANGED <<vars, stale, batch>>

(* A session grows older than the TTL; by then its gateway session and the *)
(* request that made it have ended.                                        *)
Closed(z) == z \in Payments => session[z] # "open" /\ worker[z] = "idle"

Age ==
  /\ stale < Len(born)
  /\ Closed(born[stale + 1])
  /\ stale' = stale + 1
  /\ UNCHANGED <<vars, born, batch, other>>

----------------------------------------------------------------------------
(* A run of the command *)

Waiting == SelectSeq(SubSeq(born, 1, stale), Pending)

(* Fault: the newest of them. *)
NewestWaiting ==
  SubSeq(Reverse(Waiting), 1, Min({Len(Waiting), BatchLimit}))

OldestWaiting == SubSeq(Waiting, 1, Min({Len(Waiting), BatchLimit}))

StartRun ==
  /\ batch = <<>>
  /\ OldestWaiting # <<>>
  /\ batch' = OldestWaiting
  /\ UNCHANGED <<vars, born, stale, other>>

Looking(z) == batch # <<>> /\ Head(batch) = z
Goes == batch' = Tail(batch) /\ UNCHANGED <<born, stale>>

(* The gateway answers, and its answer can be carried out.                 *)
Decides(y) ==
  /\ Looking(y) /\ Goes
  /\ PaymentCompleted(y) \/ PaymentRejected(y)
  /\ UNCHANGED other

(* Decided meanwhile, or without an authority to ask with.                 *)
PassesOver(y) ==
  /\ Looking(y) /\ Goes
  /\ ~Verifiable(y)
  /\ UNCHANGED <<vars, other>>

(* The gateway does not answer, or its answer is not carried out.          *)
LearnsNothing(y) ==
  /\ Looking(y) /\ Goes
  /\ Verifiable(y)
  /\ UNCHANGED vars \/ (VerifyInterrupted(y) /\ UNCHANGED <<cartVars, balance>>)
  /\ UNCHANGED other

KeepsLost(x) ==
  /\ Looking(x) /\ Goes
  /\ other[x] = "lost"
  /\ UNCHANGED <<vars, other>>

(* BusinessCardProfile.DoesNotExist is not among what verify expects.      *)
RunFails(x) ==
  /\ Looking(x)
  /\ other[x] = "raising"
  /\ batch' = <<>>
  /\ UNCHANGED <<vars, born, stale, other>>

(* The process is killed.                                                  *)
RunDies ==
  /\ batch # <<>>
  /\ batch' = <<>>
  /\ UNCHANGED <<vars, born, stale, other>>

LooksAt(z) ==
  \/ z \in Payments /\ (Decides(z) \/ PassesOver(z) \/ LearnsNothing(z))
  \/ z \in Others /\ (KeepsLost(z) \/ RunFails(z))

RunNext ==
  \/ Beside \/ Age \/ StartRun \/ RunDies
  \/ \E x \in Others, state \in OtherState : OpenOther(x, state)
  \/ \E z \in Sessions : LooksAt(z)

RunSpec == RunInit /\ [][RunNext]_allVars

RequestMoves(y) ==
  /\ \/ ProviderAnswers(y) \/ ProviderFails(y) \/ StoreAuthority(y) \/ Crash(y)
  /\ UNCHANGED <<cartVars, balance, runVars>>

(* The gateway closes its sessions, requests to it time out, and cron      *)
(* starts the next run, as time passes.  Neither is every run killed over  *)
(* the same session nor does the gateway for ever withhold its answer      *)
(* about one it is asked about again and again.  Nobody has to place, pay  *)
(* for or verify an order.                                                 *)
Fairness ==
  /\ \A y \in Payments :
       WF_allVars(SessionExpires(y) /\ UNCHANGED <<cartVars, balance, runVars>>)
  /\ \A y \in Payments : WF_allVars(RequestMoves(y))
  /\ WF_allVars(Age) /\ WF_allVars(StartRun)
  /\ \A z \in Sessions : SF_allVars(LooksAt(z))
  /\ \A y \in Payments : SF_allVars(Decides(y))

FairSpec == RunSpec /\ Fairness
----------------------------------------------------------------------------
(* What the runs reach *)

Before(z) ==
  {born[i] : i \in {j \in DOMAIN born : \E k \in DOMAIN born : j < k /\ born[k] = z}}

(* It stays pending and no run will ever decide it.                        *)
Undecidable(z) ==
  IF z \in Payments
  THEN Pending(z) /\ ~payment[z].authority /\ worker[z] = "idle"
  ELSE other[z] # "absent"

(* Older sessions take up every run's batch, or end it.                    *)
ShutOut(z) ==
  \/ \E x \in Before(z) \cap Others : other[x] = "raising"
  \/ Cardinality({x \in Before(z) : Undecidable(x)}) >= BatchLimit

Settled(y) ==
  IF session[y] \in {"captured", "verified"} THEN payment[y].status = "complete"
  ELSE payment[y].status # "pending"

(* What callbacks, crashes and lost answers left undone is finished: a      *)
(* session whose authority is known is settled in the end, money taken as a *)
(* completed order, unless a full batch of older sessions that nothing can  *)
(* decide shuts it out, or one whose verification raises                    *)
(* (reconcile_stale_payment_sessions).                                      *)
SessionsSettle ==
  \A y \in Payments : Verifiable(y) ~> Settled(y) \/ ShutOut(y)
=============================================================================
