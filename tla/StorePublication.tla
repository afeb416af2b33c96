--------------------------- MODULE StorePublication ---------------------------
(***************************************************************************)
(* The publication of one store (apps/market): its owner's forms, its      *)
(* business card, staff who review it, and the payment of its              *)
(* subscription.  Staff, payments and the card lock the Market row; a form *)
(* of the owner reads the row, decides by what it read, and saves later,   *)
(* some forms the whole row.  What the store shows is modelled by whether  *)
(* staff have reviewed it.                                                 *)
(***************************************************************************)
EXTENDS Naturals, FiniteSets

CONSTANTS
  Sections,    \* contact, location and theme
  Required,    \* of them: contact and location, which the card shows as well
  Forms,       \* requests of the owner, or a staff member's reactivation
  Revisions,   \* rows of MarketRevision; a decided one is free again
  Sessions,    \* payments of the subscription
  NoRevision

ASSUME StoreAssumption ==
  /\ Required \subseteq Sections /\ {"info", "images"} \cap Sections = {}
  /\ IsFiniteSet(Sessions) /\ NoRevision \notin Revisions

VARIABLES
  market,    \* the Market row
  section,   \* section[s]: each of its sections, and its images
  revision,  \* revision[v]: a MarketRevision
  form,      \* form[f]: what request f read and is about to do
  session,   \* session[p]: a payment of the subscription
  history    \* what stale saves did

storeVars == <<market, section, revision, form, session, history>>

(* "editable": draft, not_published and needs_editing, treated alike.      *)
MarketStatus == {"editable", "queue", "published", "inactive"}
(* "card": written through the business card; "late": saved while the      *)
(* store was public, by a form that read it when it was not.               *)
Review == {"reviewed", "unreviewed", "card", "late"}
MarketRow == [status: MarketStatus, paid: BOOLEAN, info: Review]
(* What a revision may hold; the images are in none.                       *)
Parts == {"info"} \cup Sections
RevisionRow == [pending: BOOLEAN, payload: SUBSET Parts]
(* "row", "section", "status": what is saved next; "find", "write": the    *)
(* pending revision is looked up, written; row: the row as the form read   *)
(* it, or the status to save; public: the store was published then.        *)
FormState ==
  [next: {"none", "row", "section", "status", "find", "write"}, row: MarketRow,
   public: BOOLEAN, part: Parts \cup {"images"}, found: Revisions \cup {NoRevision},
   payload: SUBSET Parts]
(* "creating": the gateway is asked for a session.  One that failed or was *)
(* canceled is free again.                                                 *)
SessionState == {"none", "creating", "pending", "complete"}
(* forgotten: is_paid was written back to false; republished: published    *)
(* was written back; unseen: ever, a revision was approved while the store *)
(* held more that is not reviewed.                                         *)
History == [forgotten: BOOLEAN, republished: BOOLEAN, unseen: BOOLEAN]

Draft == [status |-> "editable", paid |-> FALSE, info |-> "unreviewed"]
NoForm == [next |-> "none", row |-> Draft, public |-> FALSE, part |-> "info",
           found |-> NoRevision, payload |-> {}]
NotPending == [pending |-> FALSE, payload |-> {}]

StoreTypeOK ==
  /\ market \in MarketRow
  /\ section \in [Sections \cup {"images"} -> Review \cup {"missing"}]
  /\ revision \in [Revisions -> RevisionRow]
  /\ form \in [Forms -> FormState]
  /\ session \in [Sessions -> SessionState]
  /\ history \in History

StoreInit ==
  /\ market = Draft
  /\ section = [s \in Sections \cup {"images"} |->
                  IF s = "images" THEN "unreviewed" ELSE "missing"]
  /\ revision = [v \in Revisions |-> NotPending]
  /\ form = [f \in Forms |-> NoForm]
  /\ session = [p \in Sessions |-> "none"]
  /\ history = [forgotten |-> FALSE, republished |-> FALSE, unseen |-> FALSE]

Idle(f) == form[f].next = "none"
Does(f, state) == form' = [form EXCEPT ![f] = state]
Ends(f) == Does(f, NoForm)
ReadsRow(part) == [NoForm EXCEPT !.next = "row", !.row = market, !.part = part]
Revises(part) == [NoForm EXCEPT !.next = "find", !.part = part]
SavesSection(s) ==
  [NoForm EXCEPT !.next = "section", !.part = s,
                 !.public = market.status = "published"]
SavesStatus(status) == [NoForm EXCEPT !.next = "status", !.row.status = status]
Pending == {v \in Revisions : revision[v].pending}
(* A form may still hold one that was decided meanwhile. *)
FreeRevisions == Revisions \ (Pending \cup {form[f].found : f \in Forms})
NewRevision == CHOOSE v \in FreeRevisions : TRUE

----------------------------------------------------------------------------
(* The owner's forms: what each reads and decides *)

(* A store has one location and one contact, which it must have to be      *)
(* queued, and at most one theme.                                          *)
Complete == \A s \in Required : section[s] # "missing"

CreateSection(s) ==
  /\ section[s] = "missing"
  /\ section' = [section EXCEPT ![s] = "unreviewed"]
  /\ UNCHANGED <<market, revision, form, session, history>>

EditInfo(f) ==
  /\ Idle(f)
  /\ Does(f, IF market.status = "published" THEN Revises("info")
             ELSE [ReadsRow("info") EXCEPT !.row.info = "unreviewed"])
  /\ UNCHANGED <<market, section, revision, session, history>>

(* Fault: the section is saved whatever the status of its store is. *)
EditSectionAtOnce(f, s) ==
  /\ Idle(f) /\ (s \in Required => section[s] # "missing")
  /\ Does(f, SavesSection(s))
  /\ UNCHANGED <<market, section, revision, session, history>>

(* The theme need not be there yet. *)
EditSection(f, s) ==
  /\ Idle(f) /\ (s \in Required => section[s] # "missing")
  /\ Does(f, IF market.status = "published" THEN Revises(s) ELSE SavesSection(s))
  /\ UNCHANGED <<market, section, revision, session, history>>

(* The logo and the background, public or not: the whole row is saved as   *)
(* it was read.                                                            *)
ChangeImage(f) ==
  /\ Idle(f)
  /\ Does(f, ReadsRow("images"))
  /\ UNCHANGED <<market, section, revision, session, history>>

(* The images of the slider are rows of their own.                         *)
ChangeSlider ==
  /\ section' = [section EXCEPT !["images"] = "unreviewed"]
  /\ UNCHANGED <<market, revision, form, session, history>>

(* The business card shows the name, the contact and the location of the   *)
(* store and writes them there, whatever the status of the store is, in    *)
(* one transaction that locks the card and the Market row; it creates what *)
(* is missing.                                                             *)
EditCard(parts) ==
  /\ parts # {}
  /\ market' = IF "info" \in parts THEN [market EXCEPT !.info = "card"] ELSE market
  /\ section' = [s \in DOMAIN section |-> IF s \in parts THEN "card" ELSE section[s]]
  /\ UNCHANGED <<revision, form, session, history>>

MayBecome(status) ==
  CASE status = "inactive" -> TRUE
    [] status = "queue" -> market.status = "editable" /\ market.paid /\ Complete
    [] status = "editable" -> market.status \in {"published", "inactive"}

(* Deactivate, queue and unpublish; and staff's reactivate. *)
ChangeStatus(f, status) ==
  /\ Idle(f) /\ MayBecome(status)
  /\ Does(f, SavesStatus(status))
  /\ UNCHANGED <<market, section, revision, session, history>>

----------------------------------------------------------------------------
(* ... and what it saves *)

SaveRow(f) ==
  LET row == form[f].row
  IN /\ form[f].next = "row"
     /\ market' = row
     /\ section' = IF form[f].part = "images"
                   THEN [section EXCEPT !["images"] = "unreviewed"] ELSE section
     /\ history' = [history EXCEPT
          !.forgotten = @ \/ (market.paid /\ ~row.paid),
          !.republished = @ \/
            (row.status = "published" /\ market.status # "published")]
     /\ Ends(f)
     /\ UNCHANGED <<revision, session>>

SaveSection(f) ==
  /\ form[f].next = "section"
  /\ section' = [section EXCEPT ![form[f].part] =
                    IF market.status = "published" /\ ~form[f].public
                    THEN "late" ELSE "unreviewed"]
  /\ Ends(f)
  /\ UNCHANGED <<market, revision, session, history>>

SaveStatus(f) ==
  /\ form[f].next = "status"
  /\ market' = [market EXCEPT !.status = form[f].row.status]
  /\ Ends(f)
  /\ UNCHANGED <<section, revision, session, history>>

(* The form of a published store asks for review: after its revision is    *)
(* written, the store's status is.                                         *)
ThenQueue == SavesStatus("queue")

(* save_pending_section: the section is added to what was pending. *)
FindForSection(f) ==
  LET s == form[f].part
  IN /\ form[f].next = "find" /\ s \in Sections
     /\ \/ /\ Pending = {}
           /\ Does(f, [form[f] EXCEPT !.next = "write", !.payload = {s}])
        \/ \E v \in Pending :
             Does(f, [form[f] EXCEPT !.next = "write", !.found = v,
                        !.payload = revision[v].payload \cup {s}])
     /\ UNCHANGED <<market, section, revision, session, history>>

(* update_or_create: the row found is locked and its payload replaced.     *)
FindForInfo(f) ==
  /\ form[f].next = "find" /\ form[f].part = "info"
  /\ \/ /\ Pending = {}
        /\ Does(f, [form[f] EXCEPT !.next = "write", !.payload = {"info"}])
        /\ UNCHANGED revision
     \/ \E v \in Pending :
          /\ Pending = {v}
          /\ revision' = [revision EXCEPT ![v].payload = {"info"}]
          /\ Does(f, ThenQueue)
     \/ Cardinality(Pending) > 1 /\ Ends(f) /\ UNCHANGED revision
  /\ UNCHANGED <<market, section, session, history>>

(* A revision decided meanwhile is written to without effect. *)
WriteRevision(f) ==
  /\ form[f].next = "write"
  /\ IF form[f].found = NoRevision
     THEN /\ FreeRevisions # {}
          /\ revision' = [revision EXCEPT ![NewRevision] =
                            [pending |-> TRUE, payload |-> form[f].payload]]
     ELSE revision' = IF form[f].found \in Pending
                      THEN [revision EXCEPT ![form[f].found].payload = form[f].payload]
                      ELSE revision
  /\ Does(f, ThenQueue)
  /\ UNCHANGED <<market, section, session, history>>

----------------------------------------------------------------------------
(* Staff *)

Unreviewed(part) ==
  (IF part = "info" THEN market.info ELSE section[part]) = "unreviewed"

Charged == {p \in Sessions : session[p] = "complete"}

(* Staff who publish a store look at all of it. *)
Published ==
  /\ section' = [s \in DOMAIN section |->
                   IF section[s] = "missing" THEN "missing" ELSE "reviewed"]
  /\ history' = [history EXCEPT !.republished = FALSE]

ApprovePublication ==
  /\ market.status = "queue" /\ Charged # {}
  /\ market' = [status |-> "published", paid |-> TRUE, info |-> "reviewed"]
  /\ Published
  /\ UNCHANGED <<revision, form, session>>

RefusePublication ==
  /\ market.status = "queue"
  /\ market' = [market EXCEPT !.status = "editable"]
  /\ UNCHANGED <<section, revision, form, session, history>>

(* Whatever the status of the store is now: staff saw the payload, and it  *)
(* is applied to what the owner may have edited since.                     *)
ApproveRevision(v) ==
  LET seen == revision[v].payload
  IN /\ v \in Pending
     /\ revision' = [revision EXCEPT ![v] = NotPending]
     /\ market' = [market EXCEPT !.status = "published",
                     !.info = IF "info" \in seen THEN "reviewed" ELSE @]
     /\ section' = [s \in DOMAIN section |->
                      IF s \in seen THEN "reviewed" ELSE section[s]]
     /\ history' = [history EXCEPT !.unseen = @ \/
          \E part \in Parts \ seen : Unreviewed(part)]
     /\ UNCHANGED <<form, session>>

RejectRevision(v) ==
  /\ v \in Pending
  /\ revision' = [revision EXCEPT ![v] = NotPending]
  /\ market' = [market EXCEPT !.status = "editable"]
  /\ UNCHANGED <<section, form, session, history>>

----------------------------------------------------------------------------
(* The subscription *)

Payable == market.status = "editable" /\ ~market.paid

NewSession == CHOOSE p \in Sessions : session[p] = "none"

(* Fault: a payment is begun although another one is pending. *)
PayAnyhow(p) ==
  /\ session[p] = "none" /\ p = NewSession
  /\ Payable
  /\ session' = [session EXCEPT ![p] = "creating"]
  /\ UNCHANGED <<market, section, revision, form, history>>

(* A pending payment is used again, or refused while it has no authority.  *)
Pay(p) ==
  /\ session[p] = "none" /\ p = NewSession
  /\ Payable
  /\ \A q \in Sessions : session[q] \notin {"creating", "pending"}
  /\ session' = [session EXCEPT ![p] = "creating"]
  /\ UNCHANGED <<market, section, revision, form, history>>

SessionOpens(p) ==
  /\ session[p] = "creating"
  /\ session' = [session EXCEPT ![p] = "pending"]
  /\ UNCHANGED <<market, section, revision, form, history>>

SessionEnds(p) ==
  /\ session[p] \in {"creating", "pending"}
  /\ session' = [session EXCEPT ![p] = "none"]
  /\ UNCHANGED <<market, section, revision, form, history>>

Verify(p) ==
  /\ session[p] = "pending"
  /\ session' = [session EXCEPT ![p] = "complete"]
  /\ market' = [market EXCEPT !.paid = TRUE]
  /\ UNCHANGED <<section, revision, form, history>>

----------------------------------------------------------------------------
Saves(f) ==
  \/ SaveRow(f) \/ SaveSection(f) \/ SaveStatus(f)
  \/ FindForSection(f) \/ FindForInfo(f) \/ WriteRevision(f)

StoreNext ==
  \/ \E f \in Forms :
       \/ EditInfo(f) \/ ChangeImage(f) \/ Saves(f)
       \/ \E s \in Sections : EditSection(f, s)
       \/ \E status \in {"inactive", "queue", "editable"} :
            ChangeStatus(f, status)
  \/ \E s \in Required : CreateSection(s)
  \/ ChangeSlider
  \/ \E parts \in SUBSET ({"info"} \cup Required) : EditCard(parts)
  \/ ApprovePublication
  \/ RefusePublication
  \/ \E v \in Revisions : ApproveRevision(v) \/ RejectRevision(v)
  \/ \E p \in Sessions : Pay(p) \/ SessionOpens(p) \/ SessionEnds(p) \/ Verify(p)

StoreSpec == StoreInit /\ [][StoreNext]_storeVars
----------------------------------------------------------------------------
(* What a published store shows went through staff: its information, its   *)
(* contact, its location and its theme, each for itself.  Two kinds of     *)
(* writes are not reviewed at all: those of the business card, and the     *)
(* images.  The other exceptions are races with a form that read the store *)
(* before: it was not public then, and a section it saved is; or it was,   *)
(* and the form's save of the whole row made it public again; and          *)
(* revisions that staff approve although the owner has edited the rest of  *)
(* the store while it was not public.                                      *)
PublicIsReviewed ==
  market.status = "published" /\ ~history.republished /\ ~history.unseen =>
    /\ market.info \in {"reviewed", "card"}
    /\ \A s \in Sections : \/ section[s] \in {"reviewed", "card", "late"}
                           \/ s \notin Required /\ section[s] = "missing"

(* The subscription is charged once, whatever is paid, cancelled, reviewed *)
(* and edited meanwhile; unless a form wrote back an is_paid that it read  *)
(* before the payment was verified.                                        *)
StoreChargedOnce == history.forgotten \/ Cardinality(Charged) <= 1
=============================================================================
