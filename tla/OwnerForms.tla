----------------------------- MODULE OwnerForms ------------------------------
(***************************************************************************)
(* Three forms that a store's owner fills in on several devices: the       *)
(* connection of a payment gateway and the pictures of the store's page    *)
(* (apps/market/views/owner_views.py), and bank details                    *)
(* (apps/users/views/user_views.py).  The first two save the row they read *)
(* without a lock, the last one locks it.  Staff have pages of their own,  *)
(* and save them as they were when they were opened.                       *)
(***************************************************************************)
EXTENDS Naturals

CONSTANTS
  Posts,        \* requests under way
  Codes,        \* user codes of personal gateways
  Sliders,      \* bound: the pictures, each once
  Pictures, Links,
  Accounts,     \* bound: the UserBankInfo rows, each once
  CardNumbers, Ibans

ASSUME OwnerFormsAssumption ==
  /\ Codes # {} /\ Pictures # {} /\ Links # {} /\ CardNumbers # {} /\ Ibans # {}
  /\ Sliders # {} /\ Accounts # {}

VARIABLES
  connection,  \* the MarketGatewayConnection, or NoConnection
  confirmed,   \* history: what staff have made active last
  slider,      \* slider[s]: the MarketSlider row
  dropped,     \* history: the pictures removed while no request had read them
  account,     \* account[b]: the UserBankInfo row
  told,        \* history: told[b]: what its user was told of it, until staff write
  submitted,   \* submitted[r]: the form of request r and what it has read
  opened       \* the page that staff have open

connectionVars == <<connection, confirmed>>
sliderVars == <<slider, dropped>>
bankVars == <<account, told>>
ownerFormsVars == <<connectionVars, sliderVars, bankVars, submitted, opened>>

GatewayType == {"asoud", "personal"}
NoCode == "none"
NoConnection == [type |-> "asoud", code |-> NoCode, status |-> "absent"]
ConnectionRow == [type: GatewayType, code: Codes \cup {NoCode},
                  status: {"absent", "pending", "active", "rejected"}]
Presence == {"new", "there", "gone"}
SliderRow == [at: Presence, picture: Pictures, link: Links]
AccountRow == [at: Presence, card: CardNumbers, iban: Ibans]
Untold == [at |-> "new", card |-> CHOOSE c \in CardNumbers : TRUE,
           iban |-> CHOOSE i \in Ibans : TRUE]
NoSlider == [at |-> "new", picture |-> CHOOSE p \in Pictures : TRUE,
             link |-> CHOOSE l \in Links : TRUE]

Idle == [form |-> "none"]
Forms ==
  {Idle}
  \cup [form: {"connection"}, read: ConnectionRow]
  \cup [form: {"slider"}, of: Sliders, read: SliderRow]
  \cup [form: {"account"}, of: Accounts, read: AccountRow]

OwnerFormsTypeOK ==
  /\ connection \in ConnectionRow /\ confirmed \in ConnectionRow
  /\ slider \in [Sliders -> SliderRow] /\ dropped \subseteq Sliders
  /\ account \in [Accounts -> AccountRow] /\ told \in [Accounts -> AccountRow]
  /\ submitted \in [Posts -> Forms] /\ opened \in Forms

OwnerFormsInit ==
  /\ connection = NoConnection /\ confirmed = NoConnection
  /\ slider = [s \in Sliders |-> NoSlider] /\ dropped = {}
  /\ account = [b \in Accounts |-> Untold] /\ told = [b \in Accounts |-> Untold]
  /\ submitted = [r \in Posts |-> Idle] /\ opened = Idle

----------------------------------------------------------------------------
(* The gateway connection *)

OpenConnection(r) ==
  /\ submitted[r] = Idle
  /\ submitted' = [submitted EXCEPT ![r] = [form |-> "connection", read |-> connection]]
  /\ UNCHANGED <<connectionVars, sliderVars, bankVars, opened>>

(* Fault: a connection that is known keeps its status. *)
StatusAsRead(row) == IF row = NoConnection THEN "pending" ELSE row.status

StatusOnSave(row) == "pending"

(* A personal gateway has a code, the one that was read unless another is  *)
(* given.  A second first request is refused by the database.              *)
SubmitConnection(r, type, given) ==
  LET read == submitted[r].read
      code == IF type = "asoud" THEN NoCode ELSE IF given = NoCode THEN read.code ELSE given
  IN /\ submitted[r].form = "connection"
     /\ type = "personal" => code # NoCode
     /\ connection' = IF read = NoConnection /\ connection # NoConnection THEN connection
                      ELSE [type |-> type, code |-> code, status |-> StatusOnSave(read)]
     /\ submitted' = [submitted EXCEPT ![r] = Idle]
     /\ UNCHANGED <<confirmed, sliderVars, bankVars, opened>>

(* Staff open the page of the store ... *)
OpenStore ==
  /\ opened = Idle /\ connection # NoConnection
  /\ opened' = [form |-> "connection", read |-> connection]
  /\ UNCHANGED <<connectionVars, sliderVars, bankVars, submitted>>

(* ... and decide on what it says: a newer request is undone.              *)
DecideConnection(status) ==
  /\ opened.form = "connection"
  /\ connection' = [opened.read EXCEPT !.status = status]
  /\ confirmed' = IF status = "active" THEN connection' ELSE confirmed
  /\ opened' = Idle
  /\ UNCHANGED <<sliderVars, bankVars, submitted>>

----------------------------------------------------------------------------
(* The pictures *)

AddSlider(s, picture, link) ==
  /\ slider[s].at = "new"
  /\ slider' = [slider EXCEPT ![s] = [at |-> "there", picture |-> picture, link |-> link]]
  /\ UNCHANGED <<dropped, connectionVars, bankVars, submitted, opened>>

(* Fault: a picture that is not there is made by its change. *)
AnySlider(s) == slider[s].at # "new"

KnownSlider(s) == slider[s].at = "there"

OpenSlider(r, s) ==
  /\ submitted[r] = Idle /\ KnownSlider(s)
  /\ submitted' = [submitted EXCEPT ![r] = [form |-> "slider", of |-> s, read |-> slider[s]]]
  /\ UNCHANGED <<connectionVars, sliderVars, bankVars, opened>>

(* The row is written as it was read but for what is given: a change made  *)
(* meanwhile is lost, and a removal undone.                                *)
SubmitSlider(r, picture, link) ==
  LET f == submitted[r]
  IN /\ f.form = "slider"
     /\ slider' = [slider EXCEPT ![f.of] = [at |-> "there", picture |-> picture, link |-> link]]
     /\ picture = f.read.picture \/ link = f.read.link
     /\ submitted' = [submitted EXCEPT ![r] = Idle]
     /\ UNCHANGED <<dropped, connectionVars, bankVars, opened>>

RemoveSlider(s) ==
  /\ KnownSlider(s)
  /\ slider' = [slider EXCEPT ![s] = [NoSlider EXCEPT !.at = "gone"]]
  /\ dropped' = IF \E r \in Posts : submitted[r].form = "slider" /\ submitted[r].of = s
                THEN dropped ELSE dropped \cup {s}
  /\ UNCHANGED <<connectionVars, bankVars, submitted, opened>>

----------------------------------------------------------------------------
(* Bank details *)

(* Fault: the row is read without a lock. *)
FreeAnyhow(b) == TRUE

AccountFree(b) ==
  \A r \in Posts : ~(submitted[r].form = "account" /\ submitted[r].of = b)

CardFree(b, card) ==
  \A c \in Accounts \ {b} : account[c].at = "there" => account[c].card # card

AddAccount(b, card, iban) ==
  /\ account[b].at = "new" /\ CardFree(b, card)
  /\ account' = [account EXCEPT ![b] = [at |-> "there", card |-> card, iban |-> iban]]
  /\ told' = [told EXCEPT ![b] = account'[b]]
  /\ UNCHANGED <<connectionVars, sliderVars, submitted, opened>>

OpenAccount(r, b) ==
  /\ submitted[r] = Idle /\ account[b].at = "there" /\ AccountFree(b)
  /\ submitted' = [submitted EXCEPT ![r] =
                    [form |-> "account", of |-> b, read |-> account[b]]]
  /\ UNCHANGED <<connectionVars, sliderVars, bankVars, opened>>

(* What is given is one of the two; a card of another is refused. *)
SubmitAccount(r, card, iban) ==
  LET f == submitted[r]
  IN /\ f.form = "account"
     /\ card = f.read.card \/ iban = f.read.iban
     /\ IF CardFree(f.of, card)
        THEN /\ account' = [account EXCEPT ![f.of] =
                             [at |-> @.at, card |-> card, iban |-> iban]]
             /\ told' = [told EXCEPT ![f.of] =
                  [at |-> @.at,
                   card |-> IF card = f.read.card THEN @.card ELSE card,
                   iban |-> IF iban = f.read.iban THEN @.iban ELSE iban]]
        ELSE UNCHANGED bankVars
     /\ submitted' = [submitted EXCEPT ![r] = Idle]
     /\ UNCHANGED <<connectionVars, sliderVars, opened>>

RemoveAccount(b) ==
  /\ account[b].at = "there" /\ AccountFree(b)
  /\ account' = [account EXCEPT ![b] = [Untold EXCEPT !.at = "gone"]]
  /\ told' = [told EXCEPT ![b] = Untold]
  /\ UNCHANGED <<connectionVars, sliderVars, submitted, opened>>

OpenSheetOf(b) ==
  /\ opened = Idle /\ account[b].at = "there"
  /\ opened' = [form |-> "account", of |-> b, read |-> account[b]]
  /\ UNCHANGED <<connectionVars, sliderVars, bankVars, submitted>>

SaveSheetOf ==
  LET b == opened.of
  IN /\ opened.form = "account" /\ AccountFree(b)
     /\ IF account[b].at = "there" /\ CardFree(b, opened.read.card)
        THEN /\ account' = [account EXCEPT ![b] = opened.read]
             /\ told' = [told EXCEPT ![b] = Untold]
        ELSE UNCHANGED bankVars
     /\ opened' = Idle
     /\ UNCHANGED <<connectionVars, sliderVars, submitted>>

----------------------------------------------------------------------------
ConnectionNext ==
  \/ OpenStore \/ \E status \in {"pending", "active", "rejected"} : DecideConnection(status)
  \/ \E r \in Posts : OpenConnection(r) \/ \E type \in GatewayType, code \in Codes \cup {NoCode} :
       SubmitConnection(r, type, code)

SlidersNext ==
  \/ \E s \in Sliders : RemoveSlider(s) \/ \E r \in Posts : OpenSlider(r, s)
  \/ \E picture \in Pictures, link \in Links :
       \/ \E s \in Sliders : AddSlider(s, picture, link)
       \/ \E r \in Posts : SubmitSlider(r, picture, link)

AccountsNext ==
  \/ SaveSheetOf
  \/ \E b \in Accounts :
       \/ RemoveAccount(b) \/ OpenSheetOf(b)
       \/ \E r \in Posts : OpenAccount(r, b)
  \/ \E card \in CardNumbers, iban \in Ibans :
       \/ \E b \in Accounts : AddAccount(b, card, iban)
       \/ \E r \in Posts : SubmitAccount(r, card, iban)

OwnerFormsSpec ==
  OwnerFormsInit /\ [][ConnectionNext \/ SlidersNext \/ AccountsNext]_ownerFormsVars
----------------------------------------------------------------------------
(* Properties *)

(* An active connection is one that staff have seen as it is, whatever was *)
(* submitted while they looked (MarketGatewayConnectionAPIView.post, the   *)
(* store's admin page).                                                    *)
ActiveIsReviewed == connection.status = "active" => connection = confirmed

(* A picture that no request had read when it was removed does not return, *)
(* although a change writes the whole row (MarketSliderAPIView).           *)
RemovedStays == \A s \in dropped : slider[s].at = "gone"

(* Of an account's fields, each is what its user was told last, however    *)
(* changes of the one and the other meet (BankInfoUpdateView); unless      *)
(* staff saved their sheet.                                                *)
AccountsStand == \A b \in Accounts : told[b].at = "there" => account[b] = told[b]

FormsStand == ActiveIsReviewed /\ RemovedStays /\ AccountsStand
----------------------------------------------------------------------------
(* Beside them one price inquiry (apps/price_inquiry): a customer writes   *)
(* it, sends it, and renews its expiry; store owners read it and answer    *)
(* with a price. Every change is made under the lock of the inquiry's row. *)
(* What it asks for, its images included, is its version.                  *)

CONSTANTS
  Answerers,   \* store owners
  MaxVersion   \* bound: how often it is edited

ASSUME InquiryAssumption == MaxVersion \in Nat \ {0}

VARIABLES
  inquiry,   \* the row
  read,      \* read[m]: the version m was shown, 0 = none
  answers    \* answers[m]: how many answers m has given

inquiryVars == <<inquiry, read, answers>>

InquiryRow == [version: 0..MaxVersion, sent: BOOLEAN, expired: BOOLEAN]
NoInquiry == [version |-> 0, sent |-> FALSE, expired |-> FALSE]

InquiryTypeOK ==
  /\ inquiry \in InquiryRow
  /\ read \in [Answerers -> 0..MaxVersion]
  /\ answers \in [Answerers -> Nat]

InquiryInit ==
  /\ inquiry = NoInquiry
  /\ read = [m \in Answerers |-> 0]
  /\ answers = [m \in Answerers |-> 0]

There == inquiry.version > 0
Asks(row) == inquiry' = row /\ UNCHANGED <<read, answers>>

----------------------------------------------------------------------------
(* The customer *)

(* An expiry is accepted only if it is still to come. *)
CreateInquiry ==
  /\ ~There
  /\ Asks([NoInquiry EXCEPT !.version = 1])

(* Fault: what was sent can still be edited. *)
UpdateAnytime ==
  /\ There /\ inquiry.version < MaxVersion
  /\ \E over \in {FALSE, inquiry.expired} :
       Asks([inquiry EXCEPT !.version = @ + 1, !.expired = over])

(* With or without a new expiry. *)
UpdateInquiry ==
  /\ There /\ ~inquiry.sent /\ inquiry.version < MaxVersion
  /\ \E over \in {FALSE, inquiry.expired} :
       Asks([inquiry EXCEPT !.version = @ + 1, !.expired = over])

UploadImages ==
  /\ There /\ ~inquiry.sent /\ inquiry.version < MaxVersion
  /\ Asks([inquiry EXCEPT !.version = @ + 1])

DeleteInquiry == There /\ ~inquiry.sent /\ Asks(NoInquiry)

(* Sending it again changes nothing. *)
SendInquiry ==
  /\ There /\ ~inquiry.expired
  /\ Asks([inquiry EXCEPT !.sent = TRUE])

(* Before and after it is sent. *)
RenewExpiry == There /\ Asks([inquiry EXCEPT !.expired = FALSE])

TimePasses == There /\ Asks([inquiry EXCEPT !.expired = TRUE])

----------------------------------------------------------------------------
(* Store owners *)

Active == There /\ inquiry.sent /\ ~inquiry.expired

ReadInquiry(m) ==
  /\ Active
  /\ read' = [read EXCEPT ![m] = inquiry.version]
  /\ UNCHANGED <<inquiry, answers>>

(* Under the row's lock, read or not: its id is also in the notice. *)
AnswerInquiry(m) ==
  /\ Active /\ answers[m] = 0
  /\ answers' = [answers EXCEPT ![m] = @ + 1]
  /\ UNCHANGED <<inquiry, read>>

----------------------------------------------------------------------------
InquiryNext ==
  \/ CreateInquiry \/ UpdateInquiry \/ UploadImages \/ DeleteInquiry
  \/ SendInquiry \/ RenewExpiry \/ TimePasses
  \/ \E m \in Answerers : ReadInquiry(m) \/ AnswerInquiry(m)

InquirySpec == InquiryInit /\ [][InquiryNext]_inquiryVars
----------------------------------------------------------------------------
(* An answer is to what is asked: the inquiry a store owner has read, and  *)
(* answers long after, is still there as it was, renewed or not; and each  *)
(* owner answers it once.                                                  *)
AnsweredAsAsked ==
  \A m \in Answerers :
    answers[m] > 0 =>
      answers[m] = 1 /\ There /\ read[m] \in {0, inquiry.version}
=============================================================================
