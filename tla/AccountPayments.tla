---------------------------- MODULE AccountPayments ----------------------------
(***************************************************************************)
(* What else is paid for at the gateway (apps/payment/core.py): money put  *)
(* into a wallet (apps/wallet), and the subscription of a business card    *)
(* (apps/market).  A session is opened under the lock of its target, and   *)
(* its amount and days are fixed then; staff change the tariff and write   *)
(* cards from forms that they opened earlier.                              *)
(***************************************************************************)
EXTENDS GatewaySession

CONSTANTS
  Holders,     \* users, each with one wallet
  Cards,       \* business cards
  HolderOf,    \* HolderOf[c]: who owns the card
  Moves,       \* bound: transfers and purchases
  Tariffs,     \* rows of BusinessCardTariff
  FeeOf, DaysOf,
  NoTariff,
  MaxBalance,  \* bound on a transfer or purchase: what a wallet may hold
  LastDay      \* bound: the clock stops there

ASSUME AccountAssumption ==
  /\ Targets = Holders \cup Cards /\ Holders \cap Cards = {}
  /\ IsFiniteSet(Moves) /\ Moves \cap Payments = {}
  /\ HolderOf \in [Cards -> Holders]
  /\ FeeOf \in [Tariffs -> Sums \ {0}] /\ DaysOf \in [Tariffs -> Nat]
  /\ NoTariff \notin Tariffs
  /\ MaxBalance \in Nat /\ LastDay \in Nat

VARIABLES
  wallet,   \* wallet[u]: the balance of u
  entry,    \* entry[i]: a row of Transaction, for the payment or move i
  card,     \* card[c]: a BusinessCardProfile
  tariff,   \* the newest active tariff, which is the one in force
  sheet,    \* sheet[c]: what the form that staff have open shows of the card
  today,
  bought    \* history: what a payment of a card was asked to buy and did buy

accountVars ==
  <<payment, worker, session, wallet, entry, card, tariff, sheet, today, bought>>
rowVars == <<wallet, entry, card, bought>>
deskVars == <<tariff, sheet, today>>

Entries == Payments \cup Moves
Action == {"none", "charge", "spend", "exchange"}
EntryRow == [action: Action, from: Holders \cup {NoTarget},
             to: Holders \cup {NoTarget}, amount: Nat]
NoEntry == [action |-> "none", from |-> NoTarget, to |-> NoTarget, amount |-> 0]

(* "private": draft, needs_editing and inactive, treated alike. *)
CardStatus == {"private", "queue", "published"}
NoDate == -1
(* complete: it has a contact and a location, which are rows of their own. *)
CardRow == [status: CardStatus, paid: BOOLEAN, end: Int, days: Nat, complete: BOOLEAN]
NewCard == [status |-> "private", paid |-> FALSE, end |-> NoDate, days |-> 0,
            complete |-> FALSE]
(* What the form keeps of a card while staff choose the rest.              *)
Sheet == [end: Int, days: Int]
NoSheet == [end |-> NoDate, days |-> -1]

(* written: staff saved an older form over the card while it was pending.  *)
Bought == [asked: Nat, given: Nat, written: BOOLEAN]

AccountTypeOK ==
  /\ GatewayTypeOK
  /\ wallet \in [Holders -> Nat]
  /\ entry \in [Entries -> EntryRow]
  /\ card \in [Cards -> CardRow] /\ sheet \in [Cards -> Sheet]
  /\ tariff \in Tariffs \cup {NoTariff}
  /\ today \in 0..LastDay
  /\ bought \in [Payments -> Bought]

AccountInit ==
  /\ GatewayInit
  /\ wallet = [u \in Holders |-> 0]
  /\ entry = [i \in Entries |-> NoEntry]
  /\ card = [c \in Cards |-> NewCard]
  /\ tariff = NoTariff
  /\ sheet = [c \in Cards |-> NoSheet]
  /\ today = 0
  /\ bought = [y \in Payments |-> [asked |-> 0, given |-> 0, written |-> FALSE]]

Subscribed(c) == card[c].paid /\ (card[c].end = NoDate \/ card[c].end > today)
Target(y) == payment[y].target
CardPayable(c) == ~Subscribed(c) /\ card[c].complete /\ tariff # NoTariff

----------------------------------------------------------------------------
(* Wallets (apps/wallet/core.py): one transaction under the locks of the   *)
(* user and of the wallets                                                 *)

IncreaseBalance(u, i, amount) ==
  /\ wallet' = [wallet EXCEPT ![u] = @ + amount]
  /\ entry' = [entry EXCEPT ![i] =
       [action |-> "charge", from |-> u, to |-> u, amount |-> amount]]

(* What is bought is left to the modules of orders and campaigns.          *)
DecreaseBalance(u, i, amount) ==
  /\ entry[i].action = "none"
  /\ wallet[u] >= amount
  /\ wallet' = [wallet EXCEPT ![u] = @ - amount]
  /\ entry' = [entry EXCEPT ![i] =
       [action |-> "spend", from |-> u, to |-> u, amount |-> amount]]
  /\ UNCHANGED <<payment, worker, session, card, bought, deskVars>>

Transfer(u, v, i, amount) ==
  /\ u # v /\ entry[i].action = "none"
  /\ wallet[u] >= amount
  /\ wallet' = [wallet EXCEPT ![u] = @ - amount, ![v] = @ + amount]
  /\ entry' = [entry EXCEPT ![i] =
       [action |-> "exchange", from |-> u, to |-> v, amount |-> amount]]
  /\ UNCHANGED <<payment, worker, session, card, bought, deskVars>>

----------------------------------------------------------------------------
(* Opening a session: the serializer reads the target and the amount       *)
(* before; what it read is compared with the rows under their locks.       *)

PayIntoWallet(u, y, amount) ==
  /\ ValidAmount(amount)
  /\ CreatePayment(y, u, amount)
  /\ UNCHANGED <<rowVars, deskVars>>

(* Fault: a session that is still pending is forgotten. *)
PayForCardAgain(c, y) ==
  /\ CardPayable(c)
  /\ CreatePayment(y, c, FeeOf[tariff])
  /\ card' = [card EXCEPT ![c].days = DaysOf[tariff]]
  /\ bought' = [bought EXCEPT ![y].asked = DaysOf[tariff]]
  /\ UNCHANGED <<wallet, entry, deskVars>>

(* One that is pending is returned instead, or asks for a reconciliation.  *)
PayForCard(c, y) ==
  /\ PendingFor(c) = {}
  /\ CardPayable(c)
  /\ CreatePayment(y, c, FeeOf[tariff])
  /\ card' = [card EXCEPT ![c].days = DaysOf[tariff]]
  /\ bought' = [bought EXCEPT ![y].asked = DaysOf[tariff]]
  /\ UNCHANGED <<wallet, entry, deskVars>>

----------------------------------------------------------------------------
(* What a verification does with the target, in its own transaction *)

ExtendSubscription(c, y) ==
  LET start == IF card[c].end > today THEN card[c].end ELSE today
      end   == start + card[c].days
  IN /\ card' = [card EXCEPT ![c] = [@ EXCEPT !.paid = TRUE, !.end = end]]
     /\ bought' = [bought EXCEPT ![y].given = end - start]

Fulfilled(y) ==
  \/ Target(y) \in Holders /\ IncreaseBalance(Target(y), y, payment[y].amount)
     /\ UNCHANGED <<card, bought>>
  \/ Target(y) \in Cards /\ ExtendSubscription(Target(y), y)
     /\ UNCHANGED <<wallet, entry>>

(* Fault: what was processed already is processed again. *)
AccountPaidAgain(y) ==
  /\ payment[y].authority /\ payment[y].status \in {"pending", "complete"}
  /\ session[y] \in {"captured", "verified"}
  /\ session' = [session EXCEPT ![y] = "verified"]
  /\ payment' = [payment EXCEPT ![y].status = "complete"]
  /\ UNCHANGED worker
  /\ Fulfilled(y) /\ UNCHANGED deskVars

AccountPaid(y) == VerifyPaid(y) /\ Fulfilled(y) /\ UNCHANGED deskVars

(* Nothing is held for these targets, so nothing is given back.            *)
AccountUnpaid(y) ==
  /\ AbandonPayment(y) \/ VerifyRejected(y) \/ CallbackCancels(y)
  /\ UNCHANGED <<rowVars, deskVars>>

----------------------------------------------------------------------------
(* The owner of a card *)

CompleteCard(c) ==
  /\ ~card[c].complete
  /\ card' = [card EXCEPT ![c].complete = TRUE]
  /\ UNCHANGED <<gatewayVars, wallet, entry, bought, deskVars>>

QueueCard(c) == Subscribed(c) /\ card[c].complete

CardLifecycle(c, status) ==
  /\ status = "queue" => QueueCard(c)
  /\ card' = [card EXCEPT ![c].status = status]
  /\ UNCHANGED <<gatewayVars, wallet, entry, bought, deskVars>>

----------------------------------------------------------------------------
(* Staff *)

DecideCard(c, status) ==
  /\ status = "published" => card[c].paid
  /\ card' = [card EXCEPT ![c].status = status]
  /\ UNCHANGED <<gatewayVars, wallet, entry, bought, deskVars>>

ChangeTariff(f) ==
  /\ tariff' = f /\ f # tariff
  /\ UNCHANGED <<gatewayVars, rowVars, sheet, today>>

OpenSheet(c) ==
  /\ sheet[c] = NoSheet
  /\ sheet' = [sheet EXCEPT ![c] = [end |-> card[c].end, days |-> card[c].days]]
  /\ UNCHANGED <<gatewayVars, rowVars, tariff, today>>

(* The whole row is saved as the form has it; staff may grant or take back *)
(* a subscription with it.                                                 *)
SaveSheet(c, status, paid) ==
  /\ sheet[c] # NoSheet
  /\ card' = [card EXCEPT ![c] =
       [status |-> status, paid |-> paid, end |-> sheet[c].end,
        days |-> sheet[c].days, complete |-> card[c].complete]]
  /\ sheet' = [sheet EXCEPT ![c] = NoSheet]
  /\ bought' = [y \in Payments |->
                  IF y \in PendingFor(c) /\ sheet[c].days # card[c].days
                  THEN [bought[y] EXCEPT !.written = TRUE] ELSE bought[y]]
  /\ UNCHANGED <<gatewayVars, wallet, entry, tariff, today>>

DayPasses ==
  /\ today < LastDay
  /\ today' = today + 1
  /\ UNCHANGED <<gatewayVars, rowVars, tariff, sheet>>

AccountNext ==
  \/ \E y \in Payments :
       \/ \E u \in Holders, amount \in Sums : PayIntoWallet(u, y, amount)
       \/ \E c \in Cards : PayForCard(c, y)
       \/ AccountPaid(y)
       \/ AccountUnpaid(y)
       \/ GatewayStep(y) /\ UNCHANGED <<rowVars, deskVars>>
  \/ \E i \in Moves, u \in Holders, amount \in 1..MaxBalance :
       \/ DecreaseBalance(u, i, amount)
       \/ \E v \in Holders : Transfer(u, v, i, amount)
  \/ \E c \in Cards :
       \/ CompleteCard(c)
       \/ \E status \in {"queue", "private"} : CardLifecycle(c, status)
       \/ \E status \in {"published", "private"} : DecideCard(c, status)
       \/ OpenSheet(c)
       \/ \E status \in CardStatus, paid \in BOOLEAN : SaveSheet(c, status, paid)
  \/ \E f \in Tariffs \cup {NoTariff} : ChangeTariff(f)
  \/ DayPasses

AccountSpec == AccountInit /\ [][AccountNext]_accountVars

----------------------------------------------------------------------------
(* Properties *)

(* The units of money that transactions have moved, each by itself. *)
UnitsOf(some) == UNION {{i} \X (1..entry[i].amount) : i \in some}
Entering(u) == {i \in Entries : entry[i].to = u /\ entry[i].action # "spend"}
Leaving(u) == {i \in Entries : entry[i].from = u /\ entry[i].action # "charge"}

(* What is in a wallet is what its transactions say, each completed        *)
(* top-up counts once, and no other payment does, however often it is      *)
(* verified (increase_balance, decrease_balance, transaction, verify).     *)
WalletsFollowLedger ==
  /\ \A u \in Holders :
       wallet[u] =
         Cardinality(UnitsOf(Entering(u))) - Cardinality(UnitsOf(Leaving(u)))
  /\ \A y \in Payments :
       entry[y] =
         IF payment[y].status = "complete" /\ Target(y) \in Holders
         THEN [action |-> "charge", from |-> Target(y), to |-> Target(y),
               amount |-> payment[y].amount]
         ELSE NoEntry

(* A card is given, on top of what is left of it, the days of the tariff   *)
(* that was charged, however late the payment is verified and whatever     *)
(* became of the tariff, unless staff saved other days over it meanwhile   *)
(* (PaymentCore.pay, PostPaymentCore.payment_process).                     *)
CardGetsWhatWasCharged ==
  \A y \in Payments :
    /\ payment[y].status = "complete" /\ Target(y) \in Cards
         => bought[y].written \/ bought[y].given = bought[y].asked
    /\ Target(y) \in Cards => Cardinality(PendingFor(Target(y))) <= 1
(* What is charged arrives, in the wallet or on the card (PaymentCore).    *)
ChargesArrive == WalletsFollowLedger /\ CardGetsWhatWasCharged
=============================================================================
