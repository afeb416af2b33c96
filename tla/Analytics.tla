------------------------------ MODULE Analytics ------------------------------
(***************************************************************************)
(* The two commands of apps/analytics that the schedule runs and staff may *)
(* run beside it: one counts the figures of the last days again, the other *)
(* trains the models.                                                      *)
(***************************************************************************)
EXTENDS Naturals, FiniteSets

(***************************************************************************)
(* rebuild_analytics_daily_metrics: the rows of a day are counted again    *)
(* from its orders and events, the platform's first, then each store's and *)
(* each product's, in one transaction that sees what others commit         *)
(* meanwhile.  An order counts for the day it was begun, and once it is    *)
(* paid; one that is paid when its day has left the window is not counted. *)
(***************************************************************************)
CONSTANTS
  Sales,      \* orders, each of one item
  GoodOf,     \* GoodOf[o]: its product, the source of an affiliate listing
  SellerOf,   \* SellerOf[o]: the store of the product or of the listing
  Platform,   \* the scope of the whole platform
  Builders,
  Window,     \* --days
  LastDate    \* bound: the days looked at

ASSUME MetricsAssumption ==
  /\ IsFiniteSet(Sales)
  /\ DOMAIN GoodOf = Sales /\ DOMAIN SellerOf = Sales
  /\ \A o \in Sales : GoodOf[o] # Platform /\ SellerOf[o] # Platform
  /\ Window \in Nat \ {0} /\ LastDate \in Nat \ {0}

Goods == {GoodOf[o] : o \in Sales}
Sellers == {SellerOf[o] : o \in Sales}
Scopes == {Platform} \cup Sellers \cup Goods
Dates == 1..LastDate
NoRow == Cardinality(Sales) + 1
Count == 0..NoRow

VARIABLES
  today,
  begun,    \* begun[o]: the day the order was begun, or 0
  paid,     \* the orders that are paid
  viewed,   \* the days on which a product was looked at
  metric,   \* metric[d][x]: paid_orders of the row of day d and scope x
  builder,  \* builder[b]: the day it rebuilds and what it has written
  asOf      \* history: asOf[d]: what was paid when d's last rebuild began

metricVars == <<today, begun, paid, viewed, metric, builder, asOf>>

(* "counted": the platform is counted and not written yet.                 *)
BuilderRow == [step: {"none", "next", "counted", "rows"}, day: 0..LastDate, last: 0..LastDate,
               figure: Count, drafts: [Scopes -> Count], due: SUBSET Scopes, since: SUBSET Sales]
NoDrafts == [x \in Scopes |-> NoRow]
NoBuilder == [step |-> "none", day |-> 0, last |-> 0, figure |-> 0,
              drafts |-> NoDrafts, due |-> {}, since |-> {}]

MetricsTypeOK ==
  /\ today \in Dates
  /\ begun \in [Sales -> 0..LastDate]
  /\ paid \subseteq Sales
  /\ viewed \subseteq Goods \X Dates
  /\ metric \in [Dates -> [Scopes -> Count]]
  /\ builder \in [Builders -> BuilderRow]
  /\ asOf \in [Dates -> SUBSET Sales]

MetricsInit ==
  /\ today = 1
  /\ begun = [o \in Sales |-> 0]
  /\ paid = {}
  /\ viewed = {}
  /\ metric = [d \in Dates |-> NoDrafts]
  /\ builder = [b \in Builders |-> NoBuilder]
  /\ asOf = [d \in Dates |-> {}]

----------------------------------------------------------------------------
Begin(o) ==
  /\ begun[o] = 0
  /\ begun' = [begun EXCEPT ![o] = today]
  /\ UNCHANGED <<today, paid, viewed, metric, builder, asOf>>

PayOrder(o) ==
  /\ begun[o] # 0 /\ o \notin paid
  /\ paid' = paid \cup {o}
  /\ UNCHANGED <<today, begun, viewed, metric, builder, asOf>>

(* AnalyticsRecorder.record_request *)
ViewProduct(g) ==
  /\ viewed' = viewed \cup {<<g, today>>}
  /\ UNCHANGED <<today, begun, paid, metric, builder, asOf>>

NextDay ==
  /\ today < LastDate
  /\ today' = today + 1
  /\ UNCHANGED <<begun, paid, viewed, metric, builder, asOf>>

----------------------------------------------------------------------------
(* DailyMetricBuilder *)

Within(o, x) == x = Platform \/ x = SellerOf[o] \/ x = GoodOf[o]
Figure(S, x, d) == Cardinality({o \in S : begun[o] = d /\ Within(o, x)})

StartRebuild(b) ==
  /\ builder[b].step = "none"
  /\ builder' = [builder EXCEPT ![b] =
       [NoBuilder EXCEPT !.step = "next", !.last = today,
          !.day = IF today < Window THEN 1 ELSE today - Window + 1]]
  /\ UNCHANGED <<today, begun, paid, viewed, metric, asOf>>

CountPlatform(b) ==
  /\ builder[b].step = "next"
  /\ builder' = [builder EXCEPT ![b].step = "counted", ![b].since = paid,
       ![b].figure = Figure(paid, Platform, builder[b].day)]
  /\ UNCHANGED <<today, begun, paid, viewed, metric, asOf>>

DayFree(b) ==
  \A c \in Builders \ {b} : builder[c].step = "rows" => builder[c].day # builder[b].day

(* Fault: those that were looked at. *)
WithViews(d) == {g \in Goods : <<g, d>> \in viewed}

(* The stores and products that had a sale or were looked at: a row of its *)
(* own is written for each.                                                *)
WithRows(d) ==
  {SellerOf[o] : o \in {p \in paid : begun[p] = d}}
    \cup {GoodOf[o] : o \in {p \in paid : begun[p] = d}}
    \cup {g \in Goods : <<g, d>> \in viewed}

(* Its row waits for another rebuild of the day, and is what was counted.  *)
WritePlatform(b) ==
  /\ builder[b].step = "counted" /\ DayFree(b)
  /\ LET r == builder[b]
     IN builder' = [builder EXCEPT ![b] =
          [r EXCEPT !.step = "rows", !.drafts = [r.drafts EXCEPT ![Platform] = r.figure],
                    !.due = WithRows(r.day)]]
  /\ UNCHANGED <<today, begun, paid, viewed, metric, asOf>>

WriteRow(b, x) ==
  /\ builder[b].step = "rows" /\ x \in builder[b].due
  /\ LET r == builder[b]
     IN builder' = [builder EXCEPT ![b] =
          [r EXCEPT !.due = r.due \ {x},
                    !.drafts = [r.drafts EXCEPT ![x] = Figure(paid, x, r.day)]]]
  /\ UNCHANGED <<today, begun, paid, viewed, metric, asOf>>

CommitDay(b) ==
  LET r == builder[b]
  IN /\ r.step = "rows" /\ r.due = {}
     /\ metric' = [metric EXCEPT ![r.day] =
          [x \in Scopes |-> IF r.drafts[x] = NoRow THEN @[x] ELSE r.drafts[x]]]
     /\ asOf' = [asOf EXCEPT ![r.day] = r.since]
     /\ builder' = [builder EXCEPT ![b] =
          IF r.day = r.last THEN NoBuilder
          ELSE [NoBuilder EXCEPT !.step = "next", !.day = r.day + 1, !.last = r.last]]
     /\ UNCHANGED <<today, begun, paid, viewed>>

BuilderDies(b) ==
  /\ builder[b].step # "none"
  /\ builder' = [builder EXCEPT ![b] = NoBuilder]
  /\ UNCHANGED <<today, begun, paid, viewed, metric, asOf>>

MetricsNext ==
  \/ NextDay
  \/ \E o \in Sales : Begin(o) \/ PayOrder(o)
  \/ \E g \in Goods : ViewProduct(g)
  \/ \E b \in Builders :
       \/ StartRebuild(b) \/ CountPlatform(b) \/ WritePlatform(b)
       \/ \E x \in Scopes : WriteRow(b, x)
       \/ CommitDay(b) \/ BuilderDies(b)

MetricsSpec == MetricsInit /\ [][MetricsNext]_metricVars

(***************************************************************************)
(* train_analytics_models: a process takes the lock in the cache, trains a *)
(* model and stores it, and activates it, always or only when it is better *)
(* than the active one.  The lock runs out after four hours, which is      *)
(* taken to be longer than a training that is not killed; it is released   *)
(* in two calls.  One type of model; the error of a model stands for       *)
(* whichever figure its type is compared by.                               *)
(***************************************************************************)
CONSTANTS
  Trainers,  \* processes that run the command
  Errors,    \* how wrong a model may be
  NoOne, NoModel

ASSUME TrainingAssumption == Errors \subseteq Nat /\ NoOne \notin Trainers /\ NoModel \notin Errors

VARIABLES
  trainer,  \* trainer[t]: where the command is, and what it has trained
  lock,     \* whose token the cache holds
  active    \* the model that is active: its error

trainingVars == <<trainer, lock, active>>

(* "compared": found better, or activated anyway; "worse": it is not.      *)
(* "own": the lock was found to be its own.                                *)
TrainerStep == {"none", "training", "stored", "compared", "worse", "ended", "own"}
TrainerRow == [step: TrainerStep, error: Errors \cup {NoModel}, choosy: BOOLEAN]
NoTrainer == [step |-> "none", error |-> NoModel, choosy |-> FALSE]

TrainingTypeOK ==
  /\ trainer \in [Trainers -> TrainerRow]
  /\ lock \in Trainers \cup {NoOne}
  /\ active \in Errors \cup {NoModel}

TrainingInit ==
  /\ trainer = [t \in Trainers |-> NoTrainer]
  /\ lock = NoOne
  /\ active = NoModel

Reach(t, step) == trainer' = [trainer EXCEPT ![t].step = step]

(* Fault: set, whether it is there or not. *)
TakeLock(t, choosy) ==
  /\ trainer[t] = NoTrainer
  /\ lock' = t
  /\ trainer' = [trainer EXCEPT ![t] =
                   [step |-> "training", error |-> NoModel, choosy |-> choosy]]
  /\ UNCHANGED active

(* cache.add sets what is not there.                                       *)
AcquireLock(t, choosy) ==
  /\ trainer[t] = NoTrainer
  /\ lock = NoOne
  /\ lock' = t
  /\ trainer' = [trainer EXCEPT ![t] =
                   [step |-> "training", error |-> NoModel, choosy |-> choosy]]
  /\ UNCHANGED active

(* The file is written, and the row.                                       *)
StoreModel(t, error) ==
  /\ trainer[t].step = "training"
  /\ trainer' = [trainer EXCEPT ![t].step = "stored", ![t].error = error]
  /\ UNCHANGED <<lock, active>>

IsBetter(t) == active = NoModel \/ trainer[t].error < active

CompareModel(t) ==
  /\ trainer[t].step = "stored"
  /\ Reach(t, IF trainer[t].choosy /\ ~IsBetter(t) THEN "worse" ELSE "compared")
  /\ UNCHANGED <<lock, active>>

(* Whatever is active by now gives way to it.                              *)
ActivateModel(t) ==
  /\ trainer[t].step = "compared"
  /\ active' = trainer[t].error
  /\ Reach(t, "ended")
  /\ UNCHANGED lock

KeepModel(t) ==
  /\ trainer[t].step = "worse"
  /\ Reach(t, "ended")
  /\ UNCHANGED <<lock, active>>

(* The next type of model, under the same lock.                            *)
TrainNext(t) ==
  /\ trainer[t].step = "ended"
  /\ trainer' = [trainer EXCEPT ![t].step = "training", ![t].error = NoModel]
  /\ UNCHANGED <<lock, active>>

(* The training ended, or raised before its transaction was through.       *)
LookAtLock(t) ==
  /\ trainer[t].step \notin {"none", "own"}
  /\ trainer' = [trainer EXCEPT ![t] =
       IF lock = t THEN [@ EXCEPT !.step = "own"] ELSE NoTrainer]
  /\ UNCHANGED <<lock, active>>

DeleteLock(t) ==
  /\ trainer[t].step = "own"
  /\ lock' = NoOne
  /\ trainer' = [trainer EXCEPT ![t] = NoTrainer]
  /\ UNCHANGED active

TrainerDies(t) ==
  /\ trainer[t].step # "none"
  /\ trainer' = [trainer EXCEPT ![t] = NoTrainer]
  /\ UNCHANGED <<lock, active>>

LockExpires ==
  /\ lock # NoOne /\ trainer[lock] = NoTrainer
  /\ lock' = NoOne
  /\ UNCHANGED <<trainer, active>>

TrainingNext ==
  \/ LockExpires
  \/ \E t \in Trainers :
       \/ \E choosy \in BOOLEAN : AcquireLock(t, choosy)
       \/ \E error \in Errors : StoreModel(t, error)
       \/ CompareModel(t) \/ ActivateModel(t) \/ KeepModel(t) \/ TrainNext(t)
       \/ LookAtLock(t) \/ DeleteLock(t) \/ TrainerDies(t)

TrainingSpec == TrainingInit /\ [][TrainingNext]_trainingVars

----------------------------------------------------------------------------
(* Properties *)

Written(n) == IF n = NoRow THEN 0 ELSE n

(* Every figure of a day counts at least what was paid before the day's    *)
(* last rebuild began, and nothing that has not been paid, however often   *)
(* it is rebuilt, by whom, and however many were killed half-way           *)
(* (DailyMetricBuilder).                                                   *)
FiguresAreSold ==
  \A d \in Dates, x \in Scopes :
    /\ Written(metric[d][x]) <= Figure(paid, x, d)
    /\ Figure(asOf[d], x, d) <= Written(metric[d][x])

(* Of a process that was told to activate a model only if it is better,    *)
(* the active model never gets worse, however many are started, killed and *)
(* started again (CHAT_ANALYTICS_RUNBOOK.md; ModelTrainer._store).         *)
ActiveNeverWorse ==
  [][ active' # active =>
        \E t \in Trainers :
          /\ trainer[t].step = "compared" /\ active' = trainer[t].error
          /\ trainer[t].choosy => active = NoModel \/ active' < active ]_trainingVars
=============================================================================
