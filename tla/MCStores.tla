------------------------------ MODULE MCStores ------------------------------
(***************************************************************************)
(* A store's publication, the codes of a number and the referrals share no *)
(* variable: a behaviour of this module moves one of them, and the others  *)
(* stay as they begin.                                                     *)
(***************************************************************************)
EXTENDS StorePublication, SignIn, Referrals, TLC

CONSTANTS f1, f2, w1, w2, w3

Alike == Permutations({f1, f2}) \cup Permutations({w2, w3})

VARIABLE part   \* the part that moves

vars == <<part, storeVars, signInVars, referralVars>>

Init ==
  /\ part \in {"review", "payment", "sign-in", "referrals"}
  /\ StoreInit /\ SignInInit /\ ReferralsInit

(* Reviewed once it is paid, without images and until more is approved     *)
(* than was seen; or paid again and again, its images changed, but nothing *)
(* revised and no theme.                                                   *)
ReviewOnly ==
  /\ ~market.paid => form' = form
  /\ ~history'.unseen
  /\ \A f \in Forms : form'[f].part # "images"
  /\ section'["images"] = "unreviewed" => section["images"] = "unreviewed"
  /\ Cardinality({p \in Sessions : session'[p] # "none"}) <= 1

PaymentOnly == revision' = revision /\ section'["theme"] = "missing"

Next ==
  /\ part' = part
  /\ part \notin {"review", "payment"} => UNCHANGED storeVars
  /\ part # "sign-in" => UNCHANGED signInVars
  /\ part # "referrals" => UNCHANGED referralVars
  /\ \/ part = "review" /\ StoreNext /\ ReviewOnly
     \/ part = "payment" /\ StoreNext /\ PaymentOnly
     \/ part = "sign-in" /\ SignInNext
     \/ part = "referrals" /\ ReferralsNext

Spec == Init /\ [][Next]_vars
=============================================================================
