-------------------------------- MODULE SignIn --------------------------------
(***************************************************************************)
(* The one-time codes of one mobile number (apps/users): the requests that *)
(* issue them and those that verify them share nothing but keys of the     *)
(* cache, which each reads and writes one at a time.  A request ends       *)
(* before the marker of a consumed code expires, which is not modelled.    *)
(***************************************************************************)
EXTENDS Naturals

CONSTANTS
  Codes,        \* the codes issued, one by each request for a code
  NoCode,
  Verifiers,    \* requests that verify a code
  MaxAttempts   \* OTP_MAX_ATTEMPTS

ASSUME SignInAssumption ==
  NoCode \notin Codes /\ MaxAttempts \in Nat \ {0, 1}

VARIABLES
  otp,        \* the keys of the number in the cache
  consumed,   \* the codes with a marker otp-consumed
  issue,      \* issue[c]: where the request that issues c is
  verify,     \* verify[r]: where request r is, and the code it has read
  account,    \* the user exists
  token,      \* the user has a token
  signed,     \* signed[c]: the tokens made with code c
  guesses     \* the answers to the code in the cache

signInVars == <<otp, consumed, issue, verify, account, token, signed, guesses>>

Absent == MaxAttempts + 1     \* no key of attempts; counts stop below it
Otp == [code: Codes \cup {NoCode}, attempts: 0..Absent, issuing: BOOLEAN]
(* "reset": the code is set and its attempts not yet; "check": the code is *)
(* read back; "send": the provider is called.                              *)
IssueState == {"none", "reset", "check", "send", "done", "failed"}
VerifyState ==
  [at: {"none", "add", "incr", "one", "kill", "consume", "clear", "token"},
   code: Codes \cup {NoCode}, late: BOOLEAN]
(* wrong: wrong answers to the code, read after its attempts were reset,   *)
(* that were refused; overwritten: their count was put back to one.        *)
Guesses == [wrong: Nat, overwritten: BOOLEAN]
NoGuesses == [wrong |-> 0, overwritten |-> FALSE]

Waiting == [at |-> "none", code |-> NoCode, late |-> FALSE]

SignInTypeOK ==
  /\ otp \in Otp
  /\ consumed \subseteq Codes
  /\ issue \in [Codes -> IssueState]
  /\ verify \in [Verifiers -> VerifyState]
  /\ account \in BOOLEAN
  /\ token \in BOOLEAN
  /\ signed \in [Codes -> Nat]
  /\ guesses \in Guesses

SignInInit ==
  /\ otp = [code |-> NoCode, attempts |-> Absent, issuing |-> FALSE]
  /\ consumed = {}
  /\ issue = [c \in Codes |-> "none"]
  /\ verify = [r \in Verifiers |-> Waiting]
  /\ account = FALSE
  /\ token = FALSE
  /\ signed = [c \in Codes |-> 0]
  /\ guesses = NoGuesses

----------------------------------------------------------------------------
(* A request for a code.  Its lock is never released, it expires. *)

DeleteCode == otp' = [otp EXCEPT !.code = NoCode] /\ guesses' = NoGuesses
Goes(c, state) == issue' = [issue EXCEPT ![c] = state]

NewCode == CHOOSE c \in Codes : issue[c] = "none"

SetCode(c) ==
  /\ issue[c] = "none" /\ c = NewCode /\ ~otp.issuing
  /\ otp' = [otp EXCEPT !.code = c, !.issuing = TRUE]
  /\ guesses' = NoGuesses
  /\ Goes(c, "reset")
  /\ UNCHANGED <<consumed, verify, account, token, signed>>

ResetAttempts(c) ==
  /\ issue[c] = "reset"
  /\ otp' = [otp EXCEPT !.attempts = Absent]
  /\ Goes(c, "check")
  /\ UNCHANGED <<consumed, verify, account, token, guesses, signed>>

CheckCode(c) ==
  /\ issue[c] = "check"
  /\ IF otp.code = c
     THEN Goes(c, "send") /\ UNCHANGED <<otp, guesses>>
     ELSE Goes(c, "failed") /\ DeleteCode
  /\ UNCHANGED <<consumed, verify, account, token, signed>>

(* The user is made only after the message was sent. *)
CodeSent(c) ==
  /\ issue[c] = "send"
  /\ Goes(c, "done")
  /\ account' = TRUE
  /\ UNCHANGED <<otp, consumed, verify, token, guesses, signed>>

(* Whatever code the key holds by now is deleted. *)
CodeNotSent(c) ==
  /\ issue[c] = "send"
  /\ Goes(c, "failed")
  /\ DeleteCode
  /\ UNCHANGED <<consumed, verify, account, token, signed>>

----------------------------------------------------------------------------
(* A request that verifies a code *)

Moves(r, at) == verify' = [verify EXCEPT ![r].at = at]

ReadCode(r) ==
  /\ verify[r].at = "none"
  /\ \E right \in BOOLEAN :
       /\ right => otp.code # NoCode
       /\ verify' = [verify EXCEPT ![r] =
            [at |-> IF right THEN "consume" ELSE "add", code |-> otp.code,
             late |-> otp.code # NoCode /\ issue[otp.code] # "reset"]]
  /\ UNCHANGED <<otp, consumed, issue, account, token, guesses, signed>>

Refused(r) ==
  /\ verify' = [verify EXCEPT ![r] = Waiting]
  /\ guesses' = IF verify[r].late /\ verify[r].code = otp.code
                THEN [guesses EXCEPT !.wrong = @ + 1] ELSE guesses

AddAttempts(r) ==
  /\ verify[r].at = "add"
  /\ otp' = [otp EXCEPT !.attempts = IF @ = Absent THEN 0 ELSE @]
  /\ Moves(r, "incr")
  /\ UNCHANGED <<consumed, issue, account, token, guesses, signed>>

(* Fault: the attempt that reaches the limit is let pass. *)
CountAttemptPastLimit(r) ==
  /\ verify[r].at = "incr"
  /\ IF otp.attempts = Absent
     THEN Moves(r, "one") /\ UNCHANGED <<otp, guesses>>
     ELSE /\ otp' = [otp EXCEPT !.attempts = IF @ < MaxAttempts THEN @ + 1 ELSE @]
          /\ IF otp.attempts + 1 > MaxAttempts
             THEN Moves(r, "kill") /\ UNCHANGED guesses ELSE Refused(r)
  /\ UNCHANGED <<consumed, issue, account, token, signed>>

CountAttempt(r) ==
  /\ verify[r].at = "incr"
  /\ IF otp.attempts = Absent
     THEN Moves(r, "one") /\ UNCHANGED <<otp, guesses>>
     ELSE /\ otp' = [otp EXCEPT !.attempts = IF @ < MaxAttempts THEN @ + 1 ELSE @]
          /\ IF otp.attempts + 1 >= MaxAttempts
             THEN Moves(r, "kill") /\ UNCHANGED guesses ELSE Refused(r)
  /\ UNCHANGED <<consumed, issue, account, token, signed>>

(* The key was deleted or had expired since AddAttempts: the count begins  *)
(* again at one, over what others have counted meanwhile.                  *)
SetOneAttempt(r) ==
  /\ verify[r].at = "one"
  /\ otp' = [otp EXCEPT !.attempts = 1]
  /\ verify' = [verify EXCEPT ![r] = Waiting]
  /\ guesses' =
       [wrong |-> IF verify[r].late /\ verify[r].code = otp.code
                  THEN guesses.wrong + 1 ELSE guesses.wrong,
        overwritten |-> guesses.overwritten \/ otp.attempts # Absent]
  /\ UNCHANGED <<consumed, issue, account, token, signed>>

KillCode(r) ==
  /\ verify[r].at = "kill"
  /\ DeleteCode
  /\ verify' = [verify EXCEPT ![r] = Waiting]
  /\ UNCHANGED <<consumed, issue, account, token, signed>>

(* Fault: the code is consumed without a look at the marker. *)
ConsumeUnmarked(r) ==
  /\ verify[r].at = "consume"
  /\ consumed' = consumed \cup {verify[r].code}
  /\ Moves(r, "clear")
  /\ UNCHANGED <<otp, issue, account, token, guesses, signed>>

Consume(r) ==
  /\ verify[r].at = "consume"
  /\ IF verify[r].code \in consumed
     THEN verify' = [verify EXCEPT ![r] = Waiting] /\ UNCHANGED consumed
     ELSE /\ consumed' = consumed \cup {verify[r].code}
          /\ Moves(r, "clear")
  /\ UNCHANGED <<otp, issue, account, token, guesses, signed>>

(* delete_many, whatever code the key holds by now. *)
ClearKeys(r) ==
  /\ verify[r].at = "clear"
  /\ otp' = [otp EXCEPT !.code = NoCode, !.attempts = Absent]
  /\ Moves(r, "token")
  /\ guesses' = NoGuesses
  /\ UNCHANGED <<consumed, issue, account, token, signed>>

(* The user's old token is replaced; without a user, or with an inactive   *)
(* one, there is none.                                                     *)
MakeToken(r) ==
  /\ verify[r].at = "token"
  /\ verify' = [verify EXCEPT ![r] = Waiting]
  /\ \/ /\ account
        /\ token' = TRUE
        /\ signed' = [signed EXCEPT ![verify[r].code] = @ + 1]
     \/ UNCHANGED <<token, signed>>
  /\ UNCHANGED <<otp, consumed, issue, account, guesses>>

Logout ==
  /\ token
  /\ token' = FALSE
  /\ UNCHANGED <<otp, consumed, issue, verify, account, guesses, signed>>

----------------------------------------------------------------------------
(* Time *)

(* The lock lasts longer than the cache takes, the provider may take longer. *)
LockExpires ==
  /\ otp.issuing
  /\ \A c \in Codes : issue[c] \notin {"reset", "check"}
  /\ otp' = [otp EXCEPT !.issuing = FALSE]
  /\ UNCHANGED <<consumed, issue, verify, account, token, guesses, signed>>

CodeExpires ==
  /\ otp.code # NoCode
  /\ DeleteCode
  /\ UNCHANGED <<consumed, issue, verify, account, token, signed>>

(* The attempts live as long as the code and are set after it, unless the  *)
(* request that set the code has yet to reset them.                        *)
AttemptsExpire ==
  /\ otp.attempts # Absent
  /\ otp.code # NoCode => issue[otp.code] = "reset"
  /\ otp' = [otp EXCEPT !.attempts = Absent]
  /\ UNCHANGED <<consumed, issue, verify, account, token, guesses, signed>>

----------------------------------------------------------------------------
Issues(c) ==
  SetCode(c) \/ ResetAttempts(c) \/ CheckCode(c) \/ CodeSent(c) \/ CodeNotSent(c)

Verifies(r) ==
  \/ ReadCode(r) \/ AddAttempts(r) \/ CountAttempt(r) \/ SetOneAttempt(r)
  \/ KillCode(r) \/ Consume(r) \/ ClearKeys(r) \/ MakeToken(r)

SignInNext ==
  \/ \E c \in Codes : Issues(c)
  \/ \E r \in Verifiers : Verifies(r)
  \/ Logout \/ LockExpires \/ CodeExpires \/ AttemptsExpire

SignInSpec == SignInInit /\ [][SignInNext]_signInVars
----------------------------------------------------------------------------
(* A code signs its user in once, however many requests have read it       *)
(* before the first of them deletes it.                                    *)
OneSignInPerCode == \A c \in Codes : signed[c] <= 1

(* A code that was answered wrongly MaxAttempts times is gone, whatever    *)
(* requests for and answers to other codes of the number do meanwhile;     *)
(* unless an answer that began before the code put its count back to one.  *)
GuessesBounded == guesses.overwritten \/ guesses.wrong < MaxAttempts
=============================================================================
