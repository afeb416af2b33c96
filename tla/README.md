# Asoud backend: a verification development

TLA+ models of the Asoud backend (`src/apps`, Django and PostgreSQL): of what moves
stock, promotion slots, appointment slots and money, and of where people and
processes meet on one row (publication, notifications, chat, sign-in, referrals,
the forms of owners and staff). TLC checks them on small instances, and TLAPS
proves every safety property the runs check for every instance; liveness is
model-checked only.

- [The system](#the-system) - components, state, interaction, what is hard
- [The modules](#the-modules) - what models what, and how state and actions correspond
- [The runs](#the-runs) - what each shows, its bounds, the fairness assumed
- [The proofs](#the-proofs) - what is proved, from what, and along which argument
- [What the runs found](#what-the-runs-found)
- [Abstractions and assumptions](#abstractions-and-assumptions)
- [What is not modelled, and the plan](#what-is-not-modelled-and-the-plan)

## The system

A marketplace: sellers publish *markets* with products and services, customers fill
carts, order, and pay through the Zarinpal gateway, from a wallet, or in cash;
other users resell products as *affiliates*; services are booked as appointments.
All state is in PostgreSQL, except the short-lived keys of a Redis cache. Web
workers, a WebSocket server and scheduled commands share it, and coordinate by row
locks (`select_for_update`) inside transactions. The provider calls (gateway, SMS,
push) are made outside the transactions, or, for `PaymentCore.verify`, inside one
that an exception rolls back.

| component | state it keeps | operations | correct when |
|---|---|---|---|
| carts and orders (`cart`) | `Order` (status, inventory status, frozen prices), `OrderItem` | add, update, remove, replace, checkout, place, delete; the seller verifies, rejects, accepts cash; fulfilment | a placed order never changes; a decided one stays decided; its bill adds up |
| inventory (`cart/services.py`) | `Product.stock`, an order's inventory status | reserve, release, confirm | every unit is in stock or held by exactly one order; no product is oversold |
| promotions (`discount`, `product`) | `reserved`, `consumed`, `users` of a code or group discount | the same three, validation at checkout and at reservation; create, switch, expire, delete a code | counters agree with the orders; limits hold; one use per buyer |
| payments (`payment/core.py`) | `Payment`, `Zarinpal` (authority) | pay (two transactions around a provider call), verify, reconcile (a batch of the oldest), wallet payment | at most one pending session locks an order; charged once, the frozen amount; captured money completes the order |
| wallets and business cards (`wallet`, `market`) | `Wallet.balance`, `Transaction`, `BusinessCardProfile` | increase, decrease, transfer, top up; subscribe a card | never overdrawn; the balance is what the entries add up to; a charge gives its days once |
| appointments (`reserve`) | `Reservation` (status, hold, paid, refunded); services, specialists, times, opening hours | hold, pay, move, cancel, confirm, close, sweep of stale holds; the set-up by the owner | never double-booked, charged once, refunded once; what was booked stands |
| catalogue (`product`) | `Product`, `ProductRevision`, `ProductTheme` | create, edit, submit and review a revision, publish; create, replace and remove a theme, place products in it | edits do not undo sales; what is sold was vetted; a placed product has a slot of an existing layout to itself |
| affiliates (`affiliate`) | `AffiliateProduct`, `AffiliateCommission`, `AffiliatePayout` | create, edit, submit, publish and delete a listing; accrue, schedule, release, reverse, request, pay out | a listing is sold as it was reviewed; each commission is paid at most once, and not after a return |
| referrals (`referral`) | `Referral`, `SignupInviteIntent`, `ReferralCommission`, `MarketInviteLink` | share a link, accept an invitation now or at a later sign-in, accrue on publication, switch levels | referrals never close a circle; the ledger follows the upline |
| markets (`market`) | `Market` (status, `is_paid`), `MarketRevision`, memberships, sliders, gateway connection, shipping methods | queue, pay, publish, revise, deactivate; forms that save the whole row; the business card, which writes at once; invite and admit colleagues | what is public was looked at, or is of a kind that nobody looks at; the subscription is charged once; who acts for a store was vetted |
| SMS campaigns (`sms`) | `Template`, `Line`, `SmsCampaign` (status, reserved and actual cost) | write, review, create, approve, reserve the cost, claim, send, refund | what is paid for was approved; sent at most once; money is kept |
| notifications (`notification`) | `Notification`, `NotificationQueue`, preferences, `DeviceInstallation` | send or schedule, claim, retry, take over a stale claim, mark, clean up; register and remove devices | sent once per claim; accepted ones are tried until sent or out of retries; shown to whom it is for |
| chat (`chat`) | `ChatRoom`, `ChatParticipant`, `ChatMessage`, `SupportTicket`, presence keys in the cache, sockets | create, add, remove, promote, transfer, leave, edit the settings; connect, ping, revoke; send, retry, look, edit, delete; assign and answer tickets | a living group has one owner; who was removed is evicted; one row per client id; answers come from those appointed |
| sign-in (`users`) | code, attempts, lock and marker keys in the cache, tokens; profiles, documents, bank details | request a code, verify it (one cache operation after another), log out; submit and review a profile | a code signs in once; guesses are bounded |
| throttle and socket tickets (`core`) | window counters and ticket keys in the cache | count a request, issue a ticket, consume it | the rate holds across windows; a ticket opens one socket |
| pages of a store (`flutter`, `comment`) | likes, bookmarks, reports, `Comment` | toggle, set, report; post, reply, moderate, list | a page agrees with itself; no reply is lost from view |
| analytics (`analytics`) | daily metric rows, model artifacts | rebuild the last days; train and activate | figures count what was sold; a worse model is not activated |
| price inquiries (`price_inquiry`) | `Inquiry`, `InquiryAnswer` | write, edit, send, renew, delete; read, answer | answers are to what was asked, one per store owner |

How they interact. A **checkout** freezes prices and picks promotions without
holding anything. A **payment** (gateway or wallet), or the seller's acceptance of
a cash order, *reserves*: it takes units and promotion slots under the rows'
locks, checking again what the checkout found. Success *confirms*, failure
*releases*. A gateway payment spreads this over several transactions, the
customer's browser, the gateway and a scheduled reconciliation that takes a limited
batch of the oldest sessions at a time; an appointment, a
store's subscription, a top-up and a business card are paid for with the same
sessions, an appointment while its hold runs out on a clock of its own. Delivery
and return of an order move the **commissions** of the affiliates; the publication
of a store those of its referrers. **Staff** review listings, stores, products,
campaigns and profiles from forms they opened earlier.

What is hard: orders of one or many customers racing for the last units or slots;
sessions that crash between their transactions; callbacks that come late, twice
or never; verifications whose answer is lost after the gateway has acted; the
seller deciding while the buyer pays; timeouts of different lengths for one
appointment; rows read without a lock and saved whole; a cache operation that was
the second of two. `PROJECT.json` lists each of these hazards at its line, with
the properties that cover it.

## The modules

| module | models | extends |
|---|---|---|
| `CartInventory` | orders, stock, promotions; `cart/services.py`, `cart/views` | |
| `GatewaySession` | one gateway payment: `Payment`/`Zarinpal` rows, the request handler between its transactions, the session at the gateway (external) | |
| `OrderPayment` | paying for orders, with the wallet; `payment/core.py` | both above |
| `Reconciliation` | the runs of the scheduled command beside all that, and the sessions it cannot decide | `OrderPayment` |
| `Settlement` | abstract: what paying for orders promises | |
| `PromotionCodes` | a discount code from its owner's form to its last use | |
| `OrderPricing` | the bill a checkout freezes, while prices and shipping methods change | |
| `ProductForms` | the forms, revisions and staff's page of one product, and the stock that an edit writes back | `OrderPayment` |
| `Reservations` | appointments, their holds, moves, cancellations and refunds | |
| `ReservationPayment` | paying for appointments | `Reservations`, `GatewaySession` |
| `AppointmentSetup` | services, specialists, fixed times, opening hours and days off under the bookings made from them | |
| `Storefront` | likes, bookmarks, reports and comments on the pages of a store | |
| `AffiliateCommissions` | what sales through affiliates earn: accrual, delivery, hold, return, payout requests | |
| `AffiliateListings` | an affiliate product: its seller's range, its reseller's edits, the staff's form, its sales | |
| `ProductShelf` | the themes of a store's page and the products placed in them | |
| `AccountPayments` | wallet top-ups and business cards through the gateway | `GatewaySession` |
| `OwnerForms` | gateway connection, page pictures and bank details; one price inquiry, its customer and the store owners who answer | |
| `SmsCampaigns` | texts, lines and the request that makes a campaign payable; paid campaigns and the workers that send them, with transfers between the wallets | |
| `Colleagues` | profiles, documents and the memberships of a store | |
| `SupportTickets` | one ticket, its room, its edits, its assignments and who wrote a message of it | |
| `NotificationRouting` | preferences, quiet hours, time zones and devices a push goes through | |
| `SocketTickets` | the throttle and the one-use tickets of sockets | |
| `Analytics` | the daily figures, and the training of models | |
| `NotificationQueue` | notifications by their priority, the request that sends one, and the queue's workers with their batches | |
| `ChatGroup` | the members of a group, its audit trail and its settings form | |
| `ChatSockets` | a room's sockets, the revocation, and the presence keys | |
| `ChatMessages` | one message, from the attempts to send it to its edits and its deletion | |
| `StorePublication` | a store's status, sections, business card, forms, revisions, reviews and subscription sessions | |
| `SignIn` | the one-time codes of a number and their concurrent verifications | |
| `Referrals` | share links, intents, referrals and their commissions | |
| `OrderPayment_proofs`, `Reservation_proofs`, `Affiliate_proofs`, `BackOffice_proofs`, `Stores_proofs`, `ChatGroup_proofs`, `NotificationQueue_proofs` | theorems | the modules of one run, TLAPS |
| `MC...` | the constants of small instances, and which part of the instance moves | the modules of one run |

`GatewaySession` ends with three lemmas about its own steps that the proofs of its
users cite.

**CartInventory.** `order[o]` is the order row with its items (`basket`), the
basket its prices were frozen for (`priced`), the frozen total (`payable`) and
the promotions it uses (`applied`); `stock`, `promotion` and `offered` are
`Product.stock`, the counters of `Discount` and group `ProductDiscount` rows, and
the listings that are published. Each handler runs in one transaction under the
locks it needs, so it is one action; a handler that refuses rolls back and is no
action. `reserve_order_inventory`, `release_order_inventory` and
`confirm_order_inventory` are called by several handlers, some of which call two
of them in one transaction (a cash acceptance reserves and confirms; a refused
wallet debit reserves and releases): they are operators on the value of `stock`
and `promotion` (`TakeUnits`, `ReturnUnits`, `TakeSlots`, `ReturnSlots`,
`SpendSlots`) that the actions compose. An order's demand for a product counts
the units it asks for through any listing, the product's own or an affiliate's:
`_locked_items` maps them to one row.

**GatewaySession.** `worker[y]` is where `PaymentCore.pay` is between its two
transactions: the provider is being called, has answered, or has raised; `Crash`
may stop it anywhere. `session[y]` is the gateway's own record. The browser's
callback and the scheduled reconciliation are the same handler, `verify`, so
`VerifyPaid`, `VerifyRejected` and `CallbackCancels` can happen at any time and
any number of times; `VerifyInterrupted` is a verification that the gateway has
made and whose transaction here did not commit. `CallbackCancels` is guarded by
`ReportedNotOK`, which is external: see the assumptions. The module knows nothing of what
is paid for: `OrderPayment`, `ReservationPayment` and `AccountPayments` conjoin the
effect on the target, which the code applies in the same transaction.

**OrderPayment.** `StartPayment` is the first transaction on an order,
`PaymentAbandoned` the exception handler's, `PaymentCompleted`, `PaymentRejected`
and `PaymentCanceled` the outcomes of `verify`, with `_release_order`'s
conditions in `ReleaseOrder`. `PayFromWallet` and `WalletDebitRefused` are
`wallet_process`.

**Reconciliation.** `born` is the sessions by `created_at`, `stale` how many of them are
older than the TTL, `batch` what the run under way has still to look at (`flock` keeps
runs apart): `StartRun` is the query, which takes the `BatchLimit` oldest that are
pending, and `LooksAt` one round of the loop, in which `verify` decides, passes over,
learns nothing, or raises and ends the run. `Others` are sessions for appointments,
stores and cards, kept only where they get in the way: paid for something that is
gone, which `verify` answers (`KeepsLost`) or does not expect (`RunFails`).

**Settlement** has no carts, sessions or promotions: an order is open, locked,
paid or closed, and goods leave when it is locked or bought and come back only if
it fails. `OrderPayment!Ledger` maps status to outcome and baskets to needs.

**ProductForms** is about what the forms of a product write, reduced to two prices that
depend on each other and the automatic discount: `BeginDraft`/`EndDraft` is the API's
read, check and full save, `Propose`, `Approve` and `Reject` the revision's life,
`OpenForm`/`SaveForm` the admin site. Its last part adds to `OrderPayment` the two
edits of a published product whose form carries the stock it was shown: staff
(`StaffReads`, `StaffSaves`: an unlocked read, and a full save in a later transaction)
and a seller's revision.

**PromotionCodes.** `coupon[c]` is the `Discount` row, `post[q]` a request of the
form between its look-up and its insert, `toggle[t]` a switch between its read and
its save of one field, `basket[o]` what an order holds of a code.

**OrderPricing.** `SnapshotOrder` is the whole of `snapshot_order`: which discount
wins, what a resale splits into, the shipping. Requests on shipping methods are
split where they read and write without a lock.

**Reservations / ReservationPayment.** `booking[r]` is a row, `credit[u]` what the
wallet of `u` was refunded, `now` a clock that ticks at any moment. `Swept` is
`expire_stale_holds`, which listings and every booking attempt run first.
`Occupied` is the query of `available_slots`, over all bookings of a specialist
that overlap, and `Hold`/`Reschedule` compare it with the capacity under the
specialist's row lock.

**AppointmentSetup.** A booking (`AskFor`, `LockSpecialist`, `LockService`,
`MakeVisit`) takes its locks one after the other; a keeper's change of a row waits
for whoever holds it. What may be booked how often is left to `Reservations`.

**Storefront.** `call[r]` is a request between its statements: a button that has
read the row it will write the opposite of, the bookmark's form that holds the
store's row (for whose lock the foreign key of an inserted row waits), a page that
has counted the likes. `reader` is a listing of comments, `form` the staff's page.

**AffiliateCommissions.** `parcel[o]` is the fulfilment of a paid order, `row[i]`
the commission of an item: the status of either `side` (`status` and
`seller_status`, which the code keeps apart) and its `hold` (`available_at` and
`seller_available_at`, which are always set together). `Released` is
`release_due_commissions`, called by looking at one's earnings and by each request;
it moves the caller's sides only. `RequestPayout` runs under the lock of the
caller's profile; `Greedy` says which commissions the loop over the oldest ones
takes without running it. Either side's "paid" status is missing because nothing
sets it: `AffiliatePayoutAdmin` inherits `BaseAdmin.fields`, all read-only, so
`save_model` never sees a payout become paid, approved or rejected.

**AffiliateListings.** `listing` is the `AffiliateProduct` row and `desk` the admin
form that staff have open: saving it writes back every field it shows, however old.
`Buyable` is `validate_catalog_target`, which adding to the cart, the checkout
(`Snapshot`) and the reservation ask again; the shares of the sale are frozen by
the checkout.

**ProductShelf.** `place[p]` is a product's theme and index. `PlaceProduct` holds the
locks of both rows; `OpenProduct`/`SaveProduct` (an unlocked read and a full save),
`ReadLayout`/`ReplaceLayout` and `ClearTheme`/`RemoveTheme` (one transaction whose
two statements see what was committed in between) do not, and the foreign key
and the constraint `uniq_product_theme_slot` are what stops them.

**AccountPayments.** `entry[i]` is the `Transaction` row of a payment or of a move
between wallets, `card[c]` a business card, `sheet[c]` what the staff's page still
shows of it. Amount and days are fixed when the session is opened; `bought` is
history.

**OwnerForms.** `submitted[r]` is a request and the row it has read; `opened` the page
of the staff. `confirmed`, `dropped` and `told` are history. `inquiry.version` counts
the edits of what is asked; `read[m]` is the version a store owner was shown.

**SmsCampaigns.** `campaign[c]` is the row with the status of its recipients,
`worker[w]` the place of `send_campaign` in a process of the queue. The reservation
and the refund are transactions; the claim, the recipients, the sent and the failed
status are statements that commit by themselves, so each is an action and
`WorkerDies` may come between any two. `delivered[c]` is the provider's side. The
desk is what happens before: `copy[x]` a `Template`, `ordered[k]` the campaign of an
Idempotency-Key, with the message of its own that goes out, `attempt[a]` a request for
it: `ChooseText` names a template that is there and brings any message beside it,
`BringText` makes a template of the message. `vetted` and `rewritten` are history.

**Colleagues.** The owner's decision reads the profile and the documents in two
statements (`deciding`); the submission of a profile holds the row while the identity
provider is asked (`submitting`).

**SupportTickets.** `assigning[s]` is an assignment between its two transactions,
`edit` the requests that have read the whole row, `socket` who was let in. `message` is
one message of the room: sent over a socket (`Say`) or the API (`PostMessage`), put by a
participant under any name (`PutMessage`), moved in from another room (`MoveIn`), or
deleted or moved away (`RemoveMessage`); `message.by` is who really wrote it.

**NotificationQueue, NotificationRouting.** `row` and `entry` are the two rows of a
notification; each process works on its own copy (`job`), so its save overwrites what
others saved. `Claim` takes a batch, the highest priorities first. A claim is taken over
after five minutes although its owner may still run. A call that raises
(`ProviderRaises`) spends no retry, and leaves the entry to be claimed again, without
a bound. The routing follows one call of the provider (`push[n]`): preferences are looked
at in one statement, registrations in another, and devices change hands between.
`hour` is UTC, the only clock that `_is_quiet_hours` reads; `OwnHour` is the hour of the
zone that the preferences name.

**SocketTickets.** `counter[i]` is the key of an identity, whose window starts with its
first request; `charged[i]` remembers when requests were counted. Redis may be out of
reach, and an answer may be lost after the key was changed.

**Analytics.** A builder counts and writes one scope of a day after another in one
transaction that sees what others commit meanwhile. A training takes the lock key,
compares its model with the active one, and switches.

**ChatGroup, ChatSockets, ChatMessages.** The handlers of the group run under the
room's lock and are one action each; the settings form reads without it and saves
the whole row. A consumer's connection, its frames and its end are sequences of
awaits, modelled step by step (`Handler`), beside the commit and the publication of a
revocation, which may be lost. A message is one row, and `Attempt` the steps of a
request that stores it, notifies and answers; `Look` is the lookup by `client_id`,
`draft` an edit between its read and its write.

**StorePublication.** Forms (`form`) hold the row they read, and are saved later; the
section forms decide by the status they read. `section[s]` is the contact, the location
and the theme, each reviewed or not for itself, and the images. Reviews run under the
row's lock, and so does the business card (`EditCard`), which writes the information,
the contact and the location of any store at once. `revision` rows are pending or
free, and several may be pending; a form that found one holds its row.

**SignIn.** `otp` holds the number's keys in the cache (the code, the count of attempts,
the issuer's lock), `consumed` the markers of used codes. Each cache operation of an
issuer (`issue[c]`) or of a verifier (`verify[r]`) is an action, so that any
interleaving happens; `signed` and `guesses` are history.

**Referrals.** `referral[u]` is who referred `u`, `invited[u]` the invitation kept with a
code and `intent[u]` the one that waits in the database, `link[l]` a share link;
`Upline` is the walk of
`accrue_store_publication_commissions` over the referrals, which `commissions` records.

**Composition of independent parts.** `MCCart`, `MCReservationPayment`,
`MCAffiliateCommissions`, `MCBackOffice`, `MCStores` and `MCChat` each check several
modules that share no variable in one run: `part` says which one a behaviour moves,
the others stay as they begin. Nothing interacts across parts; the run is the union
of its parts' state spaces, not their product. Modules that do interact
(`CartInventory` with `GatewaySession`, `Reservations` with it, `Reconciliation` and the
edits of the stock with both) are composed action by action. `MCNotification` and
`MCStores` also cut one module into two parts, whose instances differ in what may
happen: the table says how.

## The runs

| run | instance | shows |
|---|---|---|
| `gateway` (628k states) | 2 orders of 1 customer, 1 product with 2 units, up to 2 units per order, a discount code and a group discount with one slot, 2 payments, a wallet that may be short | `PromotionsAgree`, `PaymentsAgree` under crashes, lost answers, late and repeated callbacks; `ImplementsSettlement` |
| `gateway_live` (179k) | 2 orders of 1 customer, a unit for each, no promotions, 2 payments, 1 session that nothing decides or that raises, batches of 2 | with fairness `SessionsSettle`: every session whose authority is known is settled, unless older ones shut it out |
| `cart` (934k) | orders: 2, of 2 sellers, an affiliate listing that shares its source's stock, amounts 1 and 2, a wallet of 3, no gateway; codes: 2 requests of one form, 2 texts, 3 baskets of 2 buyers, 1 use; bills: 2 checkouts, a product and a listing of it, prices 2 and 3, percentages 0 and 50, shipping 0 or 1; forms: 2 prices, 1 edit | stock and wallets add up, codes count their orders, bills add up, what is sold was vetted |
| `catalog` (violation) | 2 orders for the last unit, a group discount, 2 payments, with edits | a stale edit restores stock that was sold |
| `reservation` (1.3M) | bookings: 2 of 1 customer, 1 specialist, a 2-hour service with a fee, confirmed by the owner, and a 1-hour free one, slots 2 and 3, hold 1, clock 0..3, 2 payments; set-up: 1 store, 2 services, 1 specialist, 1 fixed time, 1 booking, 3 hours; pages: 2 visitors, 2 requests, 2 marks, 2 comments | nobody is overbooked, one charge, one refund; what was booked stands; pages agree with themselves |
| `reservation_lost` (violation) | the same bookings with 1 payment | with fairness: captured money whose appointment is gone is never settled |
| `affiliate` (1.3M) | commissions: 3 items of 2 orders, 2 users who each sell what the other resells, shares 1 and 2, up to 3 payouts of 1 to 3; listing: prices 1 to 3, one order item; shelf: 2 themes and 2 products of one store, layouts of two slots (6, 7) and of one (9); inquiry: 2 store owners, 2 edits; accounts: 2 holders, 1 card, 2 tariffs, 2 payments, 1 transfer; forms: 2 requests, 2 pictures, 2 bank accounts | exact and disjoint payouts, nothing before the hold ends, returns reverse both sides; a listing sold as reviewed, a slot for every placed product, answers to what was asked, charges that arrive once, forms that keep what they promised |
| `back_office` (981k) | campaigns: 2 of one customer with money for one of them unless the other transfers his, 2 workers; desk: 2 texts, 1 key, 2 requests, 2 messages; colleagues: 2 kinds of documents, without the role of an editor (alike to a manager); ticket: 3 people, 1 edit, 1 message, two of the status (no step reads it); routing: 2 users, 1 device, 1 push, 3 hours of the day, 2 zones; sockets: 2 callers behind 2 identities, windows of 2 of 3 moments, 1 ticket, 2 connections, 1 outage; metrics: 1 order, 2 days, 2 builders; training: 2 commands, errors 1 to 3 | campaigns sent once, money kept, texts approved, colleagues vetted, tickets answered by whom they were given, pushes shown to whom they are for and when they let them, rates held, figures sold; no worse model is activated |
| `sms_stranded` (violation) | 1 campaign, 1 worker | with fairness: a claimed campaign whose worker stopped is never processed |
| `notification` (187k) | alone: 1 notification, 2 workers and the request; rivals: 2 notifications of different priority, 1 worker, batches of 1, users idle; 2 retries, 1 death or takeover, calls that raise without bound | sent once per claim, kept while it has retries (`DeliveryAgrees`), and with fairness the queue runs empty unless the provider raises for ever (`QueueDrains`) |
| `chat` (124k) | group: 3 users, limits 2 and 3, 1 settings form; sockets: 3 of one user, 1 lost revocation or dead process; message: 2 attempts, 1 reader, 1 text, 2 mishaps | one owner on record; with fairness the removed are evicted and presence ends (`SocketsSettle`), senders are answered with one row per client id, and what was deleted stays so (`MessagesAnswered`) |
| `stores` (2.4M) | review: a contact, a theme, 2 forms, 2 revisions, 1 session, edits once it is paid, no images, until more is approved than was seen; payment: the contact, images, 2 forms, 2 sessions, no revisions; sign-in: 2 codes of one number, 2 verifiers, 3 attempts; referrals: 3 people, 1 of them staff, 2 links, depth 2, levels {2} or {1, 2} | what is public was reviewed or is the card's, one charge, one sign-in per code, bounded guesses, referrers came first, the ledger follows the uplines |

Why the bounds are enough. The handlers touch one order (or booking) and the rows
it draws on, so two orders reach every pairwise race: for the last unit, for the
last slot, for the one use of a code by one buyer (hence one customer: the most
restrictive case), and two sessions reach a second payment for an order whose
first one failed as well as two sessions for two orders. Quantities up to two let
one order take all, half or none of the stock. In `reservation`, two lengths and
two slots give every overlap, and the horizon lets a hold run out before, while
and after its payment is verified; a set-up change races one booking at a time,
since bookings of different rows do not meet there; two requests and two visitors
give a button against the form and a count against a change of it. In `affiliate`,
two items of one order make the greedy choice miss or meet an amount, and the third
one puts both users on both sides; two sessions reach a second subscription of a
card whose first one is late. In the shelf a product of another store is left out
(the check of the store is a guard of both placements). In `back_office` a quiet
hour past midnight needs three hours of a day, a window's edge three moments, and
the second builder, worker or command is the one that overtakes. In `notification` the
second worker is the one that takes over a stale claim, and the request is a third
copy; one death is enough for each way to stop, and two priorities in batches of one
are what starves. In `gateway_live` two undecidable sessions fill a batch of two: the
one of `Others` and a payment without an authority. In `stores` the location is left
out, which the model treats as it treats the contact. Two codes let an old one be
verified while its successor is sent; three people are a chain with a circle to
close; three sockets are one that joins, one that is counted down, and one that
stays. Where an instance is symmetric in its requests, builders, payments, forms or
users (`Alike`), the cfg says so; no liveness is checked there. What the bounds
leave open for safety, the theorems below close.

`CHECK_DEADLOCK FALSE` is set for `cart`, `reservation`, `reservation_lost`,
`affiliate`, `back_office`, `notification`, `chat` and `stores`: there the clock,
bookings and payments, codes and texts, campaigns and money, retries, forms and
frames, links, or orders and payouts run out. In the others listings may always be
withdrawn and republished (in `sms_stranded` money may always be transferred).

Fairness. Only what the scheduler, the clock and the gateway do on their own is fair
(`Fairness` in `Reconciliation`): the crontab starts the next run of the command once
the last one is over (scripts/cron/asoud-production.cron.example:8), sessions grow
older than the TTL, requests to the gateway time out, and the gateway closes the
sessions nobody pays. Two assumptions are strong: a run that comes to look at a session
again and again is not killed each time before it has, and the gateway does not for
ever withhold its answer about one session. No payment's decision is fair by itself:
it has to get into a batch, and to its turn in it. Nobody has to order, pay, verify or
cancel; workers and callbacks may be lost for ever. `SessionsSettle` speaks of sessions
whose authority was stored (a crash before that leaves the order locked, as the
documentation says it does, until someone reconciles it by hand), and excepts those
that `ShutOut` names: a full batch of older ones that nothing decides, or an older one
whose verification raises. Both happen in the instance. `reservation_lost` has the
stronger `Fairness` of `ReservationPayment`, each verification tried again for ever,
under which its property fails all the same.

In `notification`, the queue's command runs again and again (`process_appointment_tasks`
calls it every minute, in a service that docker-compose.yml restarts), entries become
due, and claims get stale. A worker may die, and the provider may refuse or
raise whenever it is called. In `chat`, `SocketFairness` has
each handler run on, an open client send frames (it pings every few seconds), and a
key that no socket touches expire; `MessageFairness` has a request run on and a
client that got no answer try again. Nobody has to connect, leave or write.

In `sms_stranded` the workers are fair (`WorkersRun`: the deployment restarts them, and
they poll for ever); they may still stop at any statement.

Every property is paired in `PROJECT.json` with a fault of the code that breaks it
(the operators marked `Fault:` in the modules): a release that is not idempotent, a
check made at checkout only, an edit that ignores the status, a verification code
taken for a failure, a booking compared with its own slot only, and so on.

## The proofs

Every invariant of the passing runs is a theorem, as are the action property
`ActiveNeverWorse` and the refinement `ImplementsSettlement`: `PROJECT.json` lists them
under `theorems`, and each speaks of every value of the constants - any number of
orders, users, requests and workers, any prices, limits and clocks. They rest on the
named assumptions of the modules (finite sets, functions with the right ranges,
nothing about sizes) and on nothing else. Each proof has the same shape: an inductive
invariant that strengthens the property, a lemma for the initial states, lemmas that
classify the steps by what they do to the invariant, and a last step by PTL.
What follows is, for each theorem, what had to be added and why.

**Orders and money** (`OrderPayment_proofs`).

- `TypeCorrect`. The counters of promotions are naturals, so this includes that no
  release or confirmation takes a slot that is not there. `TypeInv` adds that a
  pending payment has an order for a target, which `ReleaseOrder` follows.
- `StockConserved`. A release is harmless only because an order that is being paid
  holds a reservation and a decided one holds none that can be returned:
  `StatusInventory` says so. Each step keeps the stock and its holders
  (`KeptStock`), takes an order's units (`TakenStock`) or returns them
  (`ReturnedStock`). Units are elements of a set, so that a quantity is a
  cardinality; all proofs about sums of money use the same device.
- `PromotionsAlwaysAgree`, by the same classification for slots: `SlotsCounted` states
  each counter as the cardinality of the orders that hold or spent a slot, and that
  the one use of a buyer is one of them.
- `PaymentsAlwaysAgree`. `SessionInv` says what a session can be at the gateway given
  how far its row and its request are: the authority is stored last, so that nobody
  pays for a row that was given up before. `OrdersOfPayments` ties each pending or
  complete payment to its own order, locked at its amount, and `PaidIsCompleted`
  excludes that a paid order is locked again.
- `WalletsAlwaysAdd`. An order joins those that were paid from the wallet only with
  the debit: whatever else marks an order as paid leaves it a cash order
  (`CashOnly`) or gives it a complete payment (`PaymentsInv`).
- `SettlementImplemented`. `LedgerStep` per action: a row moves along an edge of the
  abstract outcomes (`RowSteps`) and the goods that leave or come back are those of
  its need (`GoodsInLedger`), both from `StockInv`.
- `UsesAlwaysCounted` (`CodesInv`): an order's code is live, whatever its owner deletes,
  because the foreign key keeps a code that an order is priced with; what a switch has
  read cannot overwrite a counter because it writes one field.
- `BillAlwaysStands` (`BillsInv`): a discounted price is between nothing and what was
  asked because a percentage of a number is a part of it (`PartIsPart`), and a
  shipping method that an order named cannot go: the foreign key asks again when a
  deletion that had found no order comes to the row.
- `SoldAlwaysVetted` (`ProductFormsInv`): every draft under way holds coherent prices,
  and one that will publish is a staff member's.

**Appointments and pages** (`Reservation_proofs`).

- `NeverOverbookedAlways`. That each specialist's customers at an instant are within
  the capacity is not inductive: a customer who leaves may be the one whose large
  capacity covered the rest. `EachGroupFits` says it of every group of bookings that
  overlap one of them, and survives leaving, since a step removes bookings or adds
  one that was compared with all it overlaps (`FittedGroup`).
- `FeesAlwaysAgree`. `FeesPaid` ties a paid booking with a fee to the one payment that
  paid it; `Refunded` states refunds as a set of units of money, which a
  cancellation extends by those of one booking (`GivenBackRefunds`).
- `SetupAlwaysStands`. A booking is sure from the moment its service is locked, before
  its row exists (`Sure`): that is when the keeper's changes start to wait for it.
  `OffersFit` says that a specialist's services are of one store, which makes the
  locks that are taken the right ones.
- `PagesAlwaysAgree`. `MarksInv`: the form that found no row keeps others from making
  one while it holds the store, and a page whose count is steady counts the
  visitors that have the mark. The proof found a gap in the model: a form that lost
  the race for its row must also tell a third page that the row was written. For
  replies, `CommentsInv` says that made rows never change their root and that the
  root of whatever is there is there. The next comment takes the least free
  number; that there is one is `LeastNumber`, which stands in for induction.

**Stores, sign-in, referrals** (`Stores_proofs`).

- `PublicIsReviewedAlways` (`ReviewInv`): what a form holds was in the row, or asks for a
  review (`FormsSound`, `RowSound`), and neither is ever there before the required
  sections are (`Complete`), which nothing removes (`SectionsStay`). Most steps leave
  each section as it is or to the card (`SectionsKeep`). `ChargedOnceAlways`: one session locks a store
  (`OneSession`), unless a stale form forgot it.
- `OneSignInAlways` (`SignInv`): a verifier that is past the marker is the only one of its
  code (`OneConsumer`), nobody has signed in with it yet (`NotSignedYet`), and every
  code somebody signed in with has its marker (`SignedIsConsumed`).
- `GuessesAlwaysBounded` (`GuessInv`): the answers counted are those that read the code
  after its attempts were reset (`NewCodeCurrent`, `Unguessed`), so that whoever deletes
  the attempts deletes none of them; `LateReads` says of which codes there are such
  answers.
- `ReferrersAlwaysCameFirst` (`ReferralsInv`): links are made by users who have joined
  (`LinksOfUsers`), and an intent names a link whose maker joined before
  (`IntentsOfOlder`).
- `CommissionsAlwaysFollow` (`EarnedInv`). `Upline` is a recursive function; that a walk
  up the chain exists for every depth, goes one referrer further at each level and is
  not changed by referrals that are only added (`WalkIsWalk`, `WalkStays`) is again proved
  by the least level at which it would fail. That nobody earns from the own store
  follows from the order of the walk (`UplinesAreOlder`).

**Affiliates and the owner's forms** (`Affiliate_proofs`).

- `PayoutsAlwaysAgree`, `EarnedOnDeliveryAlways` (`LedgerInv`): a hold that ends makes a
  commission payable and must have begun with the delivery (`HoldAfterDelivery`).
  Disjoint payouts follow from the exclusion of commissions that an earlier request
  holds, exact ones from the test after the loop; neither needs to know which
  commissions the loop picked.
- `SoldAsReviewedAlways` is inductive with the types: only staff publish, and every edit
  of the reseller takes the listing back to a draft.
- `PlacedInLayoutAlways` (`ShelfInv`): a replacement keeps the number of slots it has read,
  which is still the theme's because every replacement does (`DrawnStill`); a place
  that an edit has read was a slot, and is one as long as its theme stands
  (`FitsAt`). That a place has no other product is the database's to look at.
- `AnsweredAsAskedAlways` (`InquiryInv`): what an owner has read of an inquiry that is still
  sent is its present version.
- `FormsAlwaysStand` (`FormsInv`): a dropped picture is in no request's hands
  (`DroppedUnread`), and a locked account is as it was read (`LockedAsRead`).
- `ChargesAlwaysArrive` (`AccountInv`): a payment has an entry exactly when it is complete
  (`PaymentEntries`), wallets are the units that entered less those that left
  (`WalletsAdd`), and a pending payment of a card is the only one, for the days the card
  still says, unless staff wrote over it (`CardsGiven`).

**The back office** (`BackOffice_proofs`).

- `SendingAlwaysAgrees` (`SendInv`): one worker at most is past the claim of a campaign
  (`OneSender`), and where it stands is what its row and the provider show
  (`Progress`). `MoneyAlwaysKept` (`MoneyInv`) adds that no campaign has cost more than it
  reserved (`CostFits`), so that what a refund gives back is what it takes away.
- `PayableAlwaysApproved` (`DeskInv`): what a request has chosen was approved or is gone
  (`Chosen`), what is approved is so in the words it has (`ApprovedIsVetted`), and what
  a campaign names cannot be deleted (`Protected`).
- `ActiveAlwaysVetted` (`ColleaguesInv`): what a decision was read from may have changed
  since, that it was given has not (`Cleared`, `Admitted`).
- `AnswersAlwaysAppointed` (`TicketInv`): members are the customer and those that an
  assignment under way, or an earlier one, appointed; every write of a message but the
  move from another room asks for a member.
- `AlwaysShownToItsUser` (`RoutingInv`): a registration is of whoever carries the device
  (`CarriedByItsUser`), and a push on its way was let through at some time since
  (`LetThrough`), by the hour in UTC, which is the user's own unless he named another
  zone. `QuietIsBetween` shows that the code's comparison of hours, past
  midnight or not, is the arc of the clock that the user meant.
- `FiguresAlwaysSold` (`MetricsInv`): what a rebuild has counted lies between what was paid
  when it began and what is paid (`RebuildFits`), and so does what it commits
  (`DayFits`), in whatever order builders end.
- `AccessAlwaysRationed` (`TicketingInv`): a sliding-window argument. `CounterFits` says of
  a counter that it counts the requests since its window began, which ends a
  window's length later; of any stretch of that length at most two windows are
  met, and `StretchBound` bounds what each admits in it. A connection that holds a
  ticket took it from the store (`TicketHeld`, `HeldByOne`).
- `ModelsNeverWorse` (`TrainingInv`): a command at work holds the lock (`HoldsTheLock`),
  which outlives it, so that nothing was activated since it compared
  (`StillBetter`).

**Notifications and chat.** `DeliveryAlwaysAgrees` (`NotificationQueue_proofs`) counts
tokens for each notification, whatever batches it comes in: an entry that waits, and each process that may still deliver or return it, is
worth one delivery; a claim takes the entry's token, a takeover is excused by the log,
and nothing else makes one (`TokensOK`). `RowOK` and `JobOK` say what the row and each
process's copy know, from which it follows why an accepted entry may leave the queue.
`OneOwnerAlways` (`ChatGroup_proofs`) states "one owner" without counting (`Owned`) beside the
agreement of the audit trail with the roles. `OneRowAlways` and `DeletedAlwaysStays`, the
safety part of `MessagesAnswered`, sort the steps on a message by what they do to its
row (`RowMoves`): with one row at most, all of them but a whole-row form keep the mark
of deletion or leave no row.

**What stays with TLC.** `SessionsSettle`, `QueueDrains`, `SocketsSettle` and
`MessagesAnswered` are, or contain, liveness under fairness, which is out of the prover's
reach, as is `ENABLED`. So are the three violations.
Induction over data is not available either (the library's induction theorems take
an operator as a parameter); where the model has a recursive walk or a chain of
rows, a least counterexample does its work.

## What the runs found

- `catalog`: docs/current/AUDIT.md:104 calls the locked transition of `cart/services.py`
  the inventory authority. `ProductUpdateAPIView` reads the product without a lock
  and `ProductUpdateSerializer.update` saves every field, so the stock a staff
  member was shown overwrites reservations made since; an approved revision does
  the same with the stock its author saw.
- `reservation_lost`: docs/current/NOTES.md:99 promises that paid sessions
  complete. An appointment is held for 10 minutes and a session lives for 30; once
  the hold is swept, or the customer has cancelled, `payment_process` raises
  `Reservation.DoesNotExist`, the verification rolls back and every
  reconciliation repeats it. The money is taken, nothing is booked or refunded.
- `sms_stranded`: `process_sms_queue` calls itself the processor of paid campaigns
  "from the durable database queue". `send_campaign` takes a campaign off that queue
  before it calls the provider; if the worker stops before the outcome is written,
  the campaign stays in `sending`, its cost reserved, and no command looks for it.

Reading the code for the models also showed what no property asks for; each is in the
model, and excepted by name where a property would meet it:

- `reconcile_stale_payment_sessions` does not reach every session: it takes the 100
  oldest that are pending, the ambiguous ones come back in each batch, and
  `BusinessCardProfile.DoesNotExist` (payment/core.py:551), which `verify` does not
  list, ends the run before the younger ones (`ShutOut`). docs/current/NOTES.md:97-101
  has the command ask for each and leave the ambiguous ones pending.
- A campaign that names an approved template goes out with the request's own `message`
  (sms/views/owner.py:184-206), which nobody compares with the template.
- A participant of a ticket's room may put any of its messages with another `sender`,
  or move a message into it from another of his rooms (chat/views.py:414,
  chat/serializers.py:266-281): who sent what is only known by who put it.
- Quiet hours have a `timezone` (notification/models.py:238), which `_is_quiet_hours`
  does not read: somebody in another zone is disturbed in his own quiet hours.
- A provider that raises spends no retry (notification/services.py:387), and its entry,
  due at once, comes back in the next batch: with a high priority it keeps others
  waiting for as long as it raises. `Reschedule` may save a row again that the clean-up
  deleted meanwhile.
- The business card writes the name, contact and location of a published store at once
  (market/serializers/business_card.py:98-128; market/tests.py:57 asserts it), while the
  forms of the same fields ask for a review; logo, background and slider
  (market/views/owner_views.py:986, :1082, :1236, :1335) go live without one.

## Abstractions and assumptions

Orders and money:

- In `CartInventory` prices, percentages and shipping are the frozen total of an order;
  `SnapshotChoices` keeps which promotions may end up on it, since slots depend on
  that. `OrderPricing` has the amounts, in thousandths, their quantum, and not the
  counters; names of shipping methods are left out.
- Orders whose total was never frozen (`payable_amount` empty, legacy rows) and
  sessions without the current `integrity_version` are not modelled; an item with
  quantity 0 (an update allows it) is an absent one, which checkout refuses too.
  Amounts stay below the limit of `validate_payment_amount`.
- The gateway, modelled as external: it closes an unpaid session before the
  reconciliation looks at it (`PAYMENT_SESSION_TTL_SECONDS`, 30 minutes), and money it
  took is not given back on its own.
- Callbacks are the gateway's: `verify` cancels on any Status but OK without asking
  (payment/core.py:400-404), and the models have it say so only of a session that was
  cancelled (`ReportedNotOK`). `PaymentsAgree` and `FeesAgree` rest on this.
- A customer reaches the payment page only through a stored authority.
- Each customer has one wallet; a transaction that refuses leaves no trace. Each
  module has the wallet of its own purchases: top-ups are in `AccountPayments`,
  orders in `OrderPayment`, campaigns in `SmsCampaigns`.
- In `Reconciliation` the sessions of stores, appointments and cards that end as they
  should are like those of orders, and only those in the way are kept.
- A discount code is for the whole store in `PromotionCodes`, and no text is drawn
  again once its row is deleted. A product row is two dependent prices there and in
  `ProductForms`.
- A business card is "private" while it is a draft, needs editing or is inactive; what
  the staff's page writes over a pending payment is recorded (`bought.written`) and
  excepted by name: nothing in the repository denies it.

Appointments and pages:

- `Fee` and `AsksOwner` are constants: the amount is a snapshot in the row, the
  owner's setting may be edited between a booking and its payment in the code, and
  no property here depends on which of the two values is used.
- Opening hours, days off and switched-off services only reduce the slots on offer.
  In `AppointmentSetup` one user keeps all the stores, time off is whole days, and the
  staff's forms, which check nothing, are left out.
- `is_public` and `is_removed` of a comment are never written by the code; the rows of
  `MarketView`, and the figures of a page other than its likes, are left out.

Affiliates and the owner's forms:

- The shares of a commission and the cost of a campaign are frozen when they are
  created: constants.
- What the staff's form of a listing holds is stood for by the price. Images are rows of
  their own: one that the reseller adds while the form is open is published unseen,
  and is not modelled. The platform's fee is inside the gross.
- The admin site may change any field of a theme or of an inquiry; only the forms
  that take part in a workflow are modelled. Staff's own edits and removals of a
  gateway connection and of sliders, and the insertion of a bank account again by a
  page whose row was deleted meanwhile, are left out.

The back office:

- What a failed campaign owes is not decided by the repository: a lost answer
  refunds messages that went out, a worker that stops before the refund keeps the
  cost of messages that did not. `SmsCampaigns` has both steps and no property
  takes a side. The same holds for a payout requested before its order came back.
- An outage of Redis makes it unreachable; its keys stay, and expire. Sockets that
  bring their token in a header are left out.
- A training takes less than the four hours of its lock. A metric row is its
  `paid_orders`; an order has one item.
- What is said in a ticket, and its time stamps, are left out; of its messages, one.
- The messages of campaigns are words that templates may have as well; links, variables
  and recipients are left out. A user's zone is some hours after UTC.

Stores, chat, sign-in, notifications, referrals:

- Stores: "editable" stands for draft, not published and needs editing; logo, background
  and slider are one part, which no property is about; the status of the business card
  itself, and what staff write to a store directly, are left out; staff who publish a store look at all of it,
  staff who approve a revision at its payload only; a failed or canceled session
  is none again, a decided revision's row is free again. What stale forms do to a
  published store (`late`, `republished`), what an approval publishes unseen
  (`unseen`) and a payment that a stale form forgets (`forgotten`) are recorded in
  history and excepted by name: nothing in the repository denies them.
- Sign-in: the issuer's lock expires only between its cache operations, the marker
  of a consumed code does not expire, the count of attempts may outlive its code;
  `GuessesBounded` excepts, by name, a count that another request overwrote.
- Chat: of the fields that the general form of a message writes, only the text is kept.
- Notifications: the time of an entry is waiting, due or past; of the same priority any
  may come first.
- Referrals: a store is none, hidden or published, one per user with one payment;
  the creation and the verification of a pin are one step there, and an invitation
  may be attributed long after. Amounts, and the decisions on a commission's
  status, are left out.
- Where two transactions lock rows in opposite orders, the database ends one of them,
  either of them, and its request fails with nothing done.

## What is not modelled, and the plan

What is left, most valuable first; each item names the module, its properties
and the theorem worth trying.

1. `FinancialLocks`: the row locks each financial handler takes, in order, to show
   which pairs of handlers can wait for each other (a hazard no property covers yet).
2. An abstract specification of `ReservationPayment` like `Settlement` (a slot is free,
   held, sold or over), and its refinement.
3. Images of affiliate products and media of products, beside the staff's forms that
   publish them.

Parts of modelled components that are left out: identity checks at the outside
service; reactions and searches of messages; templates and batches of notifications;
reminders of appointments; levels of referrals as staff edit them; the recording of
analytics events, which appends rows only; contacts and tariffs of SMS.

Left aside for good: caching and query helpers, advertisements (nothing sets
`is_paid`, the list is always empty), categories, regions and information pages,
sub-domains (no state that the properties could relate), serialisation, permissions
and wording.
