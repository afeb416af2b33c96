--------------------------- MODULE MCNotification ---------------------------
(***************************************************************************)
(* Small instances of the queue: either one notification that two workers  *)
(* and its user work on ("alone"), or two of different priorities that one *)
(* worker takes from the queue, their users idle ("rivals").               *)
(***************************************************************************)
EXTENDS NotificationQueue

CONSTANTS n1, n2, w1

MCPriority == [n \in Notifications |-> IF n = n1 THEN 2 ELSE 1]

VARIABLE part   \* the instance

mcVars == <<part, vars>>

MCInit == Init /\ part \in {"alone", "rivals"}

MCNext ==
  /\ Next /\ part' = part
  /\ part = "alone" => row'[n2] = NoRow
  /\ part = "rivals" =>
       /\ \A w \in Workers \ {w1} : job'[w] = job[w]
       /\ \A n \in Notifications : row'[n].status \notin {"delivered", "read", "deleted"}

(* FairSpec of the queue, whose fair steps both instances allow. *)
MCSpec ==
  /\ MCInit /\ [][MCNext]_mcVars
  /\ WF_vars(WorkerRuns(w1))
  /\ \A w \in Workers : WF_vars(part = "alone" /\ WorkerRuns(w))
  /\ \A n \in Notifications : WF_vars(BecomesDue(n)) /\ WF_vars(ClaimGetsStale(n))
=============================================================================
