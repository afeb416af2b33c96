------------------------------- MODULE Referrals -------------------------------
(***************************************************************************)
(* Who referred whom, and who earns from it (apps/referral, with the       *)
(* invitation's part of the sign-in in apps/users): a store's share links, *)
(* the invitation kept with a code, the intent kept with a new user, and   *)
(* the commissions of a store's publication.  Each user has one store, of  *)
(* which StorePublication tells more, and one payment of it.  The access   *)
(* to a store that a link gives is not modelled.                           *)
(***************************************************************************)
EXTENDS Naturals

CONSTANTS
  People,    \* mobile numbers; those that signed up are users
  Nobody,
  Staff,     \* the users on the platform's staff
  Links,     \* rows of MarketInviteLink
  NoLink,
  Depth,     \* the levels of commission, seven in the code
  LevelSets  \* the sets of levels that staff may have set active

ASSUME ReferralsAssumption ==
  /\ Nobody \notin People /\ Staff \subseteq People
  /\ NoLink \notin Links
  /\ Depth \in Nat \ {0} /\ LevelSets \subseteq SUBSET (1..Depth)

VARIABLES
  joined,      \* joined[u]: when u signed up, 0 if not (User.date_joined)
  latest,      \* when the newest user did
  invited,     \* invited[u]: the invitation kept with the code of u
  intent,      \* intent[u]: the link of u's SignupInviteIntent until consumed
  referral,    \* referral[u]: the referred_by of u's Referral
  link,        \* link[l]: a MarketInviteLink
  store,       \* store[u]: the store of u; "none" until it is published
  commissions  \* rows of ReferralCommission

referralVars == <<joined, latest, invited, intent, referral, link, store, commissions>>

(* by: created_by; of: the market's owner, Nobody while there is no row.   *)
LinkRow == [by: People \cup {Nobody}, of: People \cup {Nobody}, live: BOOLEAN]
NoRow == [by |-> Nobody, of |-> Nobody, live |-> FALSE]
StoreState == {"none", "hidden", "published"}
(* A payment is named by the store it is for. *)
Commission == [payment: People, beneficiary: People, level: 1..Depth]

ReferralsTypeOK ==
  /\ joined \in [People -> Nat]
  /\ latest \in Nat
  /\ invited \in [People -> Links \cup {NoLink}]
  /\ intent \in [People -> Links \cup {NoLink}]
  /\ referral \in [People -> People \cup {Nobody}]
  /\ link \in [Links -> LinkRow]
  /\ store \in [People -> StoreState]
  /\ commissions \subseteq Commission

(* The staff are there before anyone else. *)
ReferralsInit ==
  /\ joined = [u \in People |-> IF u \in Staff THEN 1 ELSE 0]
  /\ latest = 1
  /\ invited = [u \in People |-> NoLink]
  /\ intent = [u \in People |-> NoLink]
  /\ referral = [u \in People |-> Nobody]
  /\ link = [l \in Links |-> NoRow]
  /\ store = [u \in People |-> "none"]
  /\ commissions = {}

IsUser(u) == joined[u] > 0

(* get_valid_invite *)
Valid(l) == link[l].live /\ store[link[l].of] = "published"

----------------------------------------------------------------------------
(* Signing in *)

(* A code is sent, and a number that is not known yet becomes a user.      *)
RequestCode(u, l) ==
  /\ l \in Links => Valid(l)
  /\ invited' = [invited EXCEPT ![u] = l]
  /\ IF IsUser(u)
     THEN UNCHANGED <<joined, latest, intent>>
     ELSE /\ latest' = latest + 1
          /\ joined' = [joined EXCEPT ![u] = latest + 1]
          /\ intent' = [intent EXCEPT ![u] = l]
  /\ UNCHANGED <<referral, link, store, commissions>>

(* accept_store_invite: a user is referred once. *)
Referred(u, l, attributed) ==
  IF attributed /\ link[l].by # u /\ referral[u] = Nobody
  THEN [referral EXCEPT ![u] = link[l].by] ELSE referral

(* The intent may be older than the code: it waits for the first code that *)
(* was requested with the same invitation.                                 *)
SignsIn(u) ==
  LET l == invited[u]
  IN /\ IsUser(u)
     /\ invited' = [invited EXCEPT ![u] = NoLink]
     /\ IF l \in Links /\ Valid(l)
        THEN /\ referral' = Referred(u, l, intent[u] = l)
             /\ intent' = IF intent[u] = l THEN [intent EXCEPT ![u] = NoLink] ELSE intent
        ELSE UNCHANGED <<referral, intent>>
     /\ UNCHANGED <<joined, latest, link, store, commissions>>

InvitationExpires(u) ==
  /\ invited[u] # NoLink
  /\ invited' = [invited EXCEPT ![u] = NoLink]
  /\ UNCHANGED <<joined, latest, intent, referral, link, store, commissions>>

----------------------------------------------------------------------------
(* Links *)

NewLink == CHOOSE l \in Links : link[l] = NoRow

MakesLink(u, owner) ==
  /\ \E l \in Links : link[l] = NoRow
  /\ IsUser(u)
  /\ u = owner \/ u \in Staff
  /\ store[owner] = "published"
  /\ link' = [link EXCEPT ![NewLink] = [by |-> u, of |-> owner, live |-> TRUE]]
  /\ UNCHANGED <<joined, latest, invited, intent, referral, store, commissions>>

(* It expires, or is_active is cleared. *)
LinkEnds(l) ==
  /\ link[l].live
  /\ link' = [link EXCEPT ![l].live = FALSE]
  /\ UNCHANGED <<joined, latest, invited, intent, referral, store, commissions>>

(* Fault: a code that a user of old applies refers the user. *)
AppliesLinkReferred(u, l) ==
  /\ IsUser(u) /\ Valid(l) /\ link[l].by # u
  /\ referral' = Referred(u, l, TRUE)
  /\ UNCHANGED <<joined, latest, invited, intent, link, store, commissions>>

(* ReferalCreateView: the link gives access to the store and no more.      *)
AppliesLink(u, l) ==
  /\ IsUser(u) /\ Valid(l) /\ link[l].by # u
  /\ referral' = Referred(u, l, FALSE)
  /\ UNCHANGED <<joined, latest, invited, intent, link, store, commissions>>

----------------------------------------------------------------------------
(* Stores, and the commissions of their publication *)

StoreBecomes(u, state) == store' = [store EXCEPT ![u] = state]

(* The uplines of u: u, the one who referred u, ... *)
Walk(refs, u) ==
  LET up[n \in 0..Depth] ==
        IF n = 0 THEN u
        ELSE IF up[n - 1] = Nobody THEN Nobody ELSE refs[up[n - 1]]
  IN up

Upline(u) == Walk(referral, u)

(* Fault: the walk never leaves the one who referred the owner. *)
EarnedAtOnce(u, levels) ==
  {[payment |-> u, beneficiary |-> Upline(u)[1], level |-> n] :
     n \in {x \in levels : Upline(u)[1] # Nobody}}

(* accrue_store_publication_commissions, of the levels that staff have set *)
(* active by now; rows that are there already stay.                        *)
Earned(u, levels) ==
  {[payment |-> u, beneficiary |-> Upline(u)[n], level |-> n] :
     n \in {x \in levels : Upline(u)[x] # Nobody}}

(* Staff approve the store for the first time, or once more. *)
Publishes(u, levels) ==
  /\ IsUser(u)
  /\ StoreBecomes(u, "published")
  /\ commissions' = commissions \cup Earned(u, levels)
  /\ UNCHANGED <<joined, latest, invited, intent, referral, link>>

Hides(u) ==
  /\ store[u] = "published"
  /\ StoreBecomes(u, "hidden")
  /\ UNCHANGED <<joined, latest, invited, intent, referral, link, commissions>>

(* Staff approve a revision. *)
ShowsAgain(u) ==
  /\ store[u] = "hidden"
  /\ StoreBecomes(u, "published")
  /\ UNCHANGED <<joined, latest, invited, intent, referral, link, commissions>>

----------------------------------------------------------------------------
ReferralsNext ==
  \/ \E u \in People :
       \/ \E l \in Links \cup {NoLink} : RequestCode(u, l)
       \/ SignsIn(u) \/ InvitationExpires(u)
       \/ \E owner \in People : MakesLink(u, owner)
       \/ \E l \in Links : AppliesLink(u, l)
       \/ Hides(u) \/ ShowsAgain(u)
       \/ \E levels \in LevelSets : Publishes(u, levels)
  \/ \E l \in Links : LinkEnds(l)

ReferralsSpec == ReferralsInit /\ [][ReferralsNext]_referralVars
----------------------------------------------------------------------------
(* Whoever referred a user was a user before: a late sign-in with an old   *)
(* invitation, or a code applied later, never makes someone the referrer   *)
(* of an older user, and nobody is among their own uplines.                *)
ReferrersCameFirst ==
  \A u \in People : referral[u] # Nobody =>
    joined[referral[u]] > 0 /\ joined[referral[u]] < joined[u]

(* However often a store is approved again, while its owner and the users  *)
(* above are referred late: who earns at a level is the upline at that     *)
(* level, and nobody earns from the own store.                             *)
CommissionsFollowUplines ==
  \A c \in commissions :
    c.beneficiary = Upline(c.payment)[c.level] /\ c.beneficiary # c.payment
=============================================================================
