------------------------------ MODULE Colleagues ------------------------------
(***************************************************************************)
(* How a user becomes a colleague of a store (apps/market, apps/users):    *)
(* the store's owner invites and admits him, he proves who he is, staff    *)
(* approve his profile, each of his documents, and in the end the          *)
(* membership.  The owner's decision reads the profile and the documents   *)
(* in two statements, and the submission of a profile holds its lock       *)
(* while the identity provider is asked.                                   *)
(***************************************************************************)
EXTENDS FiniteSets

CONSTANTS Kinds  \* the types of document that are required

ASSUME ColleaguesAssumption == IsFiniteSet(Kinds) /\ "profile" \notin Kinds

VARIABLES
  profile,     \* the UserProfile row
  document,    \* document[k]: the UserDocument of a type
  submitting,  \* the submission holds the profile's row
  membership,  \* the MarketMembership row
  deciding,    \* the owner admits him: what was read of the profile
  approved,    \* history: what staff have approved, ever
  word         \* history: the owner's last word, the role or "no"

colleagueVars ==
  <<profile, document, submitting, membership, deciding, approved, word>>
identityVars == <<profile, document, submitting>>
storeSide == <<membership, deciding, word>>

ProfileStatus ==
  {"none", "pending", "needs_editing", "approved", "rejected", "inactive"}
(* possession_verified is always replaced by the provider's answer.        *)
PhoneStatus == {"unchecked", "matched", "mismatched", "manual_review"}
ProfileRow == [status: ProfileStatus, phone: PhoneStatus]
Identified == [status |-> "approved", phone |-> "matched"]
NoProfile == [status |-> "none", phone |-> "unchecked"]
DocumentStatus == {"none", "pending", "approved", "rejected"}

ColleagueRoles == {"manager", "editor", "viewer"}
WriteRoles == {"manager", "editor"}
MembershipStatus ==
  {"none", "profile_incomplete", "admin_review", "active", "owner_disabled"}
MembershipRow ==
  [status: MembershipStatus, active: BOOLEAN, role: ColleagueRoles \cup {"none"}]
NoMembership == [status |-> "none", active |-> FALSE, role |-> "none"]

(* "identified": the profile was approved when it was looked at.           *)
Deciding == [step: {"none", "identified", "unknown"}, role: ColleagueRoles \cup {"none"}]
NotDeciding == [step |-> "none", role |-> "none"]

ColleaguesTypeOK ==
  /\ profile \in ProfileRow
  /\ document \in [Kinds -> DocumentStatus]
  /\ submitting \in BOOLEAN
  /\ membership \in MembershipRow
  /\ deciding \in Deciding
  /\ approved \subseteq Kinds \cup {"profile"}
  /\ word \in ColleagueRoles \cup {"no"}

ColleaguesInit ==
  /\ profile = NoProfile
  /\ document = [k \in Kinds |-> "none"]
  /\ submitting = FALSE
  /\ membership = NoMembership
  /\ deciding = NotDeciding
  /\ approved = {}
  /\ word = "no"

Present == {k \in Kinds : document[k] # "none"}

----------------------------------------------------------------------------
(* The user *)

(* Its status stays what it is, whatever is changed.                       *)
SaveProfile ==
  /\ profile.status = "none"
  /\ profile' = [profile EXCEPT !.status = "pending"]
  /\ UNCHANGED <<document, submitting, approved, storeSide>>

(* A pending profile stays pending.                                        *)
UploadDocument(k) ==
  /\ ~submitting
  /\ document' = [document EXCEPT ![k] = "pending"]
  /\ profile' = IF profile.status \in {"none", "pending"} THEN profile
                ELSE [profile EXCEPT !.status = "needs_editing"]
  /\ UNCHANGED <<submitting, approved, storeSide>>

(* Whatever was approved with it; the profile is not touched.              *)
DeleteDocument(k) ==
  /\ k \in Present
  /\ document' = [document EXCEPT ![k] = "none"]
  /\ UNCHANGED <<profile, submitting, approved, storeSide>>

BeginSubmit ==
  /\ ~submitting
  /\ profile.status # "none" /\ Present = Kinds
  /\ submitting' = TRUE
  /\ UNCHANGED <<profile, document, approved, storeSide>>

(* The provider's answer, or "manual_review" for lack of one.              *)
EndSubmit(phone) ==
  /\ submitting
  /\ profile' = [status |-> "pending", phone |-> phone]
  /\ submitting' = FALSE
  /\ UNCHANGED <<document, approved, storeSide>>

(* The process dies: the transaction is rolled back.                       *)
AbortSubmit ==
  /\ submitting
  /\ submitting' = FALSE
  /\ UNCHANGED <<profile, document, approved, storeSide>>

----------------------------------------------------------------------------
(* Staff: their actions, and the admin forms, which write any status       *)

ApproveProfile ==
  /\ profile.status # "none" /\ ~submitting
  /\ profile' = Identified
  /\ approved' = approved \cup {"profile"}
  /\ UNCHANGED <<document, submitting, storeSide>>

(* The form holds the whole row, and may be an old one.                    *)
SaveProfileForm(row) ==
  /\ profile.status # "none" /\ ~submitting
  /\ row.status # "none"
  /\ profile' = row
  /\ approved' = IF row = Identified THEN approved \cup {"profile"} ELSE approved
  /\ UNCHANGED <<document, submitting, storeSide>>

ApproveDocument(k) ==
  /\ k \in Present
  /\ document' = [document EXCEPT ![k] = "approved"]
  /\ approved' = approved \cup {k}
  /\ UNCHANGED <<profile, submitting, storeSide>>

RefuseDocument(k) ==
  /\ k \in Present
  /\ document' = [document EXCEPT ![k] = "rejected"]
  /\ UNCHANGED <<profile, submitting, approved, storeSide>>

(* Only one that waits for it.                                             *)
ApproveMembership ==
  /\ deciding = NotDeciding
  /\ membership.status = "admin_review"
  /\ membership' = [membership EXCEPT !.status = "active", !.active = TRUE]
  /\ UNCHANGED <<identityVars, approved, deciding, word>>

----------------------------------------------------------------------------
(* The owner of the store: each under the membership's lock *)

(* A second invitation starts again, whatever came of the first.           *)
Invite(role) ==
  /\ deciding = NotDeciding
  /\ membership' = [status |-> "profile_incomplete", active |-> FALSE, role |-> role]
  /\ word' = "no"
  /\ UNCHANGED <<identityVars, approved, deciding>>

Exists == membership.status # "none"

(* Without a decision: only his role changes.                              *)
ChangeRole(role) ==
  /\ Exists /\ deciding = NotDeciding
  /\ membership' = [membership EXCEPT !.role = role]
  /\ word' = IF word = "no" THEN "no" ELSE role
  /\ UNCHANGED <<identityVars, approved, deciding>>

(* is_active: the profile is read, then the documents.                     *)
BeginAdmission(role) ==
  /\ Exists /\ deciding = NotDeciding
  /\ deciding' = [role |-> role, step |->
       IF profile = Identified THEN "identified" ELSE "unknown"]
  /\ UNCHANGED <<identityVars, approved, membership, word>>

(* Fault: a document that was never handed in is not missed. *)
EndAdmissionOfPresent ==
  LET passes == /\ deciding.step = "identified"
                /\ \A k \in Present : document[k] = "approved"
  IN /\ deciding # NotDeciding
     /\ membership' =
          [status |-> IF passes THEN "admin_review" ELSE "profile_incomplete",
           active |-> FALSE, role |-> deciding.role]
     /\ word' = deciding.role
     /\ deciding' = NotDeciding
     /\ UNCHANGED <<identityVars, approved>>

EndAdmission ==
  LET passes == /\ deciding.step = "identified"
                /\ \A k \in Kinds : document[k] = "approved"
  IN /\ deciding # NotDeciding
     /\ membership' =
          [status |-> IF passes THEN "admin_review" ELSE "profile_incomplete",
           active |-> FALSE, role |-> deciding.role]
     /\ word' = deciding.role
     /\ deciding' = NotDeciding
     /\ UNCHANGED <<identityVars, approved>>

(* Deleted, or is_active set to false with any role.                       *)
Dismiss(role) ==
  /\ Exists /\ deciding = NotDeciding
  /\ membership' = [status |-> "owner_disabled", active |-> FALSE, role |-> role]
  /\ word' = "no"
  /\ UNCHANGED <<identityVars, approved, deciding>>

ColleaguesNext ==
  \/ SaveProfile \/ BeginSubmit \/ AbortSubmit
  \/ \E phone \in {"matched", "mismatched", "manual_review"} : EndSubmit(phone)
  \/ \E k \in Kinds :
       \/ UploadDocument(k) \/ DeleteDocument(k)
       \/ ApproveDocument(k) \/ RefuseDocument(k)
  \/ ApproveProfile
  \/ \E row \in ProfileRow : SaveProfileForm(row)
  \/ ApproveMembership
  \/ \E role \in ColleagueRoles :
       Invite(role) \/ ChangeRole(role) \/ BeginAdmission(role) \/ Dismiss(role)
  \/ EndAdmission

ColleaguesSpec == ColleaguesInit /\ [][ColleaguesNext]_colleagueVars

----------------------------------------------------------------------------
(* Properties *)

(* accessible_markets *)
MayEnter(write) ==
  /\ membership.active
  /\ membership.role \in IF write THEN WriteRoles ELSE ColleagueRoles

(* Who may read or write in another's store was admitted by its owner, in  *)
(* a role that allows it, and not dismissed or invited anew since, and     *)
(* staff have approved his profile and each of his documents               *)
(* (market/views/membership.py, MarketMembershipAdmin).                    *)
ActiveAreVetted ==
  \A write \in BOOLEAN :
    MayEnter(write) =>
      /\ word \in IF write THEN WriteRoles ELSE ColleagueRoles
      /\ approved = Kinds \cup {"profile"}
=============================================================================
