----------------------- MODULE NotificationQueue_proofs -----------------------
(***************************************************************************)
(* Proofs about NotificationQueue for every set of notifications, workers  *)
(* and priorities, every batch size, any number of retries and of faults.  *)
(***************************************************************************)
EXTENDS NotificationQueue, FiniteSetTheorems, TLAPS

(* Who may still deliver n, or let it be claimed again.  Each of them, and *)
(* an entry that waits, is worth one delivery: a claim takes the entry's,  *)
(* and one that takes over another claim is excused.                       *)
Hopeful(step) ==
  step \in {"queueing", "loaded", "refused", "raised", "counted", "failed"}

Holders(n) == {p \in Processes : Hopeful(At(p, n))}

Waits(n) == entry[n] \in {"waiting", "due"}

Tokens(n) == Cardinality(Holders(n)) + (IF Waits(n) THEN 1 ELSE 0)

TokensOK(n) == Tokens(n) + log[n].delivered <= 1 + log[n].excuses

(* Nothing happens to a notification before it has a row.                  *)
Untouched(n) ==
  row[n].status = "absent" =>
    /\ entry[n] = "none" /\ log[n].delivered = 0
    /\ \A p \in Processes : At(p, n) = "none"

(* Why an accepted notification may leave the queue.                       *)
Excused(n) ==
  \/ log[n].cleaned \/ log[n].delivered > 0 \/ log[n].seen
  \/ log[n].attempts >= MaxRetries \/ log[n].raised

RowOK(n) ==
  /\ row[n].retries <= log[n].attempts
  /\ row[n].status \notin {"absent", "pending", "failed"} => Excused(n)
  /\ log[n].slipped => log[n].raised
  /\ entry[n] # "none" /\ row[n].status = "pending" => row[n].scheduled
  /\ log[n].accepted => entry[n] # "none" \/ Excused(n)

(* What a process knows of n.  A worker that fails leaves a time for the   *)
(* next attempt, unless it copied a row that had failed and counts now its *)
(* last retry.                                                             *)
JobOK(p, n) ==
  /\ At(p, n) # "none" => CopyOf(p, n).retries <= log[n].attempts
  /\ At(p, n) = "refused" => CopyOf(p, n).retries < log[n].attempts
  /\ At(p, n) = "sent" \/ At(p, n) = "succeeded" => log[n].delivered > 0
  /\ At(p, n) = "raised" => log[n].raised
  /\ At(p, n) = "failed" => row[n].status # "pending"
  /\ At(p, n) = "queueing" => row[n].scheduled
  /\ p \in Workers =>
       /\ At(p, n) = "loaded" \/ At(p, n) = "refused" \/ At(p, n) = "counted" =>
            CopyOf(p, n).status = "failed" \/ row[n].scheduled \/ Excused(n)
       /\ At(p, n) = "failed" => row[n].scheduled \/ Excused(n)

JobsOK(n) == \A p \in Processes : JobOK(p, n)

Fine(n) == TokensOK(n) /\ Untouched(n) /\ RowOK(n) /\ JobsOK(n)

QueueInv == TypeOK /\ \A n \in Notifications : Fine(n)

----------------------------------------------------------------------------
(* Rows, jobs and holders *)

LEMMA ProcessesFinite == IsFiniteSet(Processes)
BY QueueAssumption, FS_AddElement DEF Processes

LEMMA QueueTypes ==
  ASSUME TypeOK, NEW n \in Notifications
  PROVE  /\ row[n] \in Copy /\ row[n].retries \in Nat
         /\ row[n].status \in NotificationStatus /\ row[n].scheduled \in BOOLEAN
         /\ log[n] \in History /\ log[n].attempts \in Nat /\ log[n].raised \in BOOLEAN
         /\ log[n].slipped \in BOOLEAN /\ log[n].cleaned \in BOOLEAN
         /\ log[n].delivered \in Nat /\ log[n].excuses \in Nat
         /\ log[n].seen \in BOOLEAN /\ log[n].accepted \in BOOLEAN
         /\ entry[n] \in EntryState
         /\ \A p \in Processes : /\ job[p][n] \in Job /\ At(p, n) \in JobStep
                                 /\ CopyOf(p, n) \in Copy
                                 /\ CopyOf(p, n).retries \in Nat
                                 /\ CopyOf(p, n).status \in NotificationStatus
BY DEF TypeOK, Copy, History, Job, At, CopyOf

LEMMA WorksMoves ==
  ASSUME TypeOK, NEW p \in Processes, NEW n \in Notifications, NEW s \in JobStep,
         NEW c \in Copy, Works(p, n, s, c)
  PROVE  /\ job' \in [Processes -> [Notifications -> Job]]
         /\ At(p, n)' = s /\ CopyOf(p, n)' = c
         /\ \A q \in Processes \ {p} : job'[q][n] = job[q][n]
         /\ \A q \in Processes, m \in Notifications \ {n} : job'[q][m] = job[q][m]
<1> DEFINE j == [at |-> s, copy |-> c]
<1>1. j \in Job /\ j.at = s /\ j.copy = c
  BY DEF Job
<1>. HIDE DEF j
<1>2. job' = [job EXCEPT ![p] = [@ EXCEPT ![n] = j]]
  BY DEF Works, j
<1>3. job \in [Processes -> [Notifications -> Job]]
  BY DEF TypeOK
<1>. QED BY <1>1, <1>2, <1>3 DEF At, CopyOf

LEMMA NoRowType == NoRow \in Copy /\ "none" \in JobStep /\ NoJob \in Job
                   /\ NoRow.status = "absent" /\ NoJob.at = "none"
BY DEF NoRow, NoJob, Copy, JobStep, Job, NotificationStatus

LEMMA HoldersFinite ==
  ASSUME NEW n
  PROVE  /\ IsFiniteSet(Holders(n)) /\ Cardinality(Holders(n)) \in Nat
         /\ IsFiniteSet(Holders(n)') /\ Cardinality(Holders(n)') \in Nat
<1>1. Holders(n) \subseteq Processes /\ Holders(n)' \subseteq Processes
  BY DEF Holders
<1>. QED BY <1>1, ProcessesFinite, FS_Subset, FS_CardinalityType

LEMMA HoldersShrink ==
  ASSUME NEW n, Holders(n)' \subseteq Holders(n)
  PROVE  Cardinality(Holders(n)') <= Cardinality(Holders(n))
BY HoldersFinite, FS_Subset

LEMMA HolderJoins ==
  ASSUME NEW n, NEW p \in Processes, Holders(n)' \subseteq Holders(n) \cup {p}
  PROVE  Cardinality(Holders(n)') <= Cardinality(Holders(n)) + 1
<1>1. /\ IsFiniteSet(Holders(n) \cup {p}) /\ Cardinality(Holders(n) \cup {p}) \in Nat
      /\ Cardinality(Holders(n) \cup {p}) <= Cardinality(Holders(n)) + 1
  <2>1. CASE p \in Holders(n)
    <3>1. Holders(n) \cup {p} = Holders(n)
      BY <2>1
    <3>. QED BY <3>1, HoldersFinite
  <2>2. CASE p \notin Holders(n)
    <3>1. Cardinality(Holders(n) \cup {p}) = Cardinality(Holders(n)) + 1
          /\ IsFiniteSet(Holders(n) \cup {p})
      BY <2>2, HoldersFinite, FS_AddElement
    <3>. QED BY <3>1, HoldersFinite
  <2>. QED BY <2>1, <2>2
<1>. QED BY <1>1, HoldersFinite, FS_Subset

LEMMA HolderLeaves ==
  ASSUME NEW n, NEW p \in Holders(n), Holders(n)' \subseteq Holders(n) \ {p}
  PROVE  Cardinality(Holders(n)') + 1 <= Cardinality(Holders(n))
<1>1. /\ IsFiniteSet(Holders(n) \ {p})
      /\ Cardinality(Holders(n) \ {p}) = Cardinality(Holders(n)) - 1
  BY HoldersFinite, FS_RemoveElement
<1>2. Cardinality(Holders(n)') <= Cardinality(Holders(n) \ {p})
  BY <1>1, FS_Subset
<1>. QED BY <1>1, <1>2, HoldersFinite

----------------------------------------------------------------------------
(* What no step undoes *)

Grows(n) ==
  /\ log'[n].attempts >= log[n].attempts
  /\ log[n].raised => log'[n].raised
  /\ log[n].cleaned => log'[n].cleaned
  /\ log'[n].delivered >= log[n].delivered
  /\ log[n].seen => log'[n].seen
  /\ row[n].scheduled => row'[n].scheduled
  /\ row[n].status # "pending" => row'[n].status # "pending"

LEMMA ExcuseStays ==
  ASSUME TypeOK, TypeOK', NEW n \in Notifications, Grows(n), Excused(n)
  PROVE  Excused(n)'
BY QueueTypes, QueueAssumption DEF Excused, Grows, TypeOK, History

LEMMA JobStays ==
  ASSUME TypeOK, TypeOK', NEW n \in Notifications, Grows(n), NEW q \in Processes,
         JobOK(q, n), job'[q][n] = job[q][n] \/ At(q, n)' = "none"
  PROVE  JobOK(q, n)'
<1>1. CASE At(q, n)' = "none"
  BY <1>1 DEF JobOK
<1>2. CASE job'[q][n] = job[q][n]
  <2>1. At(q, n)' = At(q, n) /\ CopyOf(q, n)' = CopyOf(q, n)
    BY <1>2 DEF At, CopyOf
  <2>2. /\ log[n].attempts \in Nat /\ log'[n].attempts \in Nat
        /\ log[n].raised \in BOOLEAN /\ log'[n].raised \in BOOLEAN
        /\ log[n].delivered \in Nat /\ log'[n].delivered \in Nat
        /\ CopyOf(q, n).retries \in Nat
    BY QueueTypes DEF TypeOK, History
  <2>. QED BY <2>1, <2>2, ExcuseStays DEF JobOK, Grows
<1>. QED BY <1>1, <1>2

(* A notification that a step leaves alone, but for processes that forget  *)
(* it.                                                                     *)
LEMMA QuietKeeps ==
  ASSUME TypeOK, TypeOK', NEW n \in Notifications, Fine(n),
         row'[n] = row[n], entry'[n] = entry[n], log'[n] = log[n],
         \A q \in Processes : job'[q][n] = job[q][n] \/ At(q, n)' = "none"
  PROVE  Fine(n)'
<1>1. Grows(n)
  BY QueueTypes DEF Grows
<1>2. JobsOK(n)'
  BY <1>1, JobStays DEF Fine, JobsOK
<1>3. RowOK(n)'
  BY <1>1, ExcuseStays DEF Fine, RowOK
<1>4. Untouched(n)'
  BY DEF Fine, Untouched, At
<1>5. Holders(n)' \subseteq Holders(n)
  BY DEF Holders, At, Hopeful
<1>6. TokensOK(n)'
  BY <1>5, HoldersShrink, HoldersFinite, QueueTypes DEF Fine, TokensOK, Tokens, Waits
<1>. QED BY <1>2, <1>3, <1>4, <1>6 DEF Fine

(* A step of one process with n: what it has to show.                      *)
OnlyMoves(p, n) == \A q \in Processes \ {p} : job'[q][n] = job[q][n]

LEMMA MoveKeeps ==
  ASSUME TypeOK, TypeOK', NEW n \in Notifications, Fine(n), NEW p \in Processes,
         OnlyMoves(p, n), Grows(n), JobOK(p, n)', RowOK(n)', TokensOK(n)',
         row'[n].status # "absent"
  PROVE  Fine(n)'
<1>1. JobsOK(n)'
  BY JobStays DEF Fine, JobsOK, OnlyMoves
<1>. QED BY <1>1 DEF Fine, Untouched

LEMMA TokensKept ==
  ASSUME TypeOK, TypeOK', NEW n \in Notifications, TokensOK(n), NEW p \in Processes,
         OnlyMoves(p, n), Hopeful(At(p, n)') => Hopeful(At(p, n)),
         Waits(n)' => Waits(n),
         \/ log'[n].delivered = log[n].delivered /\ log'[n].excuses = log[n].excuses
         \/ /\ log'[n].delivered = log[n].delivered + 1
            /\ log'[n].excuses = log[n].excuses + 1
  PROVE  TokensOK(n)'
<1>1. Holders(n)' \subseteq Holders(n)
  BY DEF Holders, At, OnlyMoves
<1>. QED BY <1>1, HoldersShrink, HoldersFinite, QueueTypes DEF TokensOK, Tokens, Waits

(* A hope is given up for one delivery, or for an entry that waits.        *)
LEMMA TokenSpent ==
  ASSUME TypeOK, TypeOK', NEW n \in Notifications, TokensOK(n), NEW p \in Processes,
         OnlyMoves(p, n), Hopeful(At(p, n)), ~Hopeful(At(p, n)'),
         log'[n].excuses = log[n].excuses,
         \/ log'[n].delivered = log[n].delivered
         \/ log'[n].delivered = log[n].delivered + 1 /\ entry'[n] = entry[n]
  PROVE  TokensOK(n)'
<1>1. p \in Holders(n) /\ Holders(n)' \subseteq Holders(n) \ {p}
  BY DEF Holders, At, OnlyMoves
<1>2. Cardinality(Holders(n)') + 1 <= Cardinality(Holders(n))
  BY <1>1, HolderLeaves
<1>. QED BY <1>2, HoldersFinite, QueueTypes DEF TokensOK, Tokens, Waits

----------------------------------------------------------------------------
(* _process_notification *)

(* The other notifications, when one process moves with one of them.       *)
LEMMA ElsewhereQuiet ==
  ASSUME TypeOK, TypeOK', NEW p \in Processes, NEW n \in Notifications,
         \A m \in Notifications : Fine(m), Fine(n)',
         \A q \in Processes, m \in Notifications \ {n} : job'[q][m] = job[q][m],
         \A m \in Notifications \ {n} :
           row'[m] = row[m] /\ entry'[m] = entry[m] /\ log'[m] = log[m]
  PROVE  QueueInv'
<1>1. \A m \in Notifications \ {n} : Fine(m)'
  BY QuietKeeps
<1>. QED BY <1>1 DEF QueueInv

LEMMA LogMoves ==
  ASSUME TypeOK, NEW n \in Notifications, NEW l \in History, log' = [log EXCEPT ![n] = l]
  PROVE  /\ log' \in [Notifications -> History] /\ log'[n] = l
         /\ \A m \in Notifications \ {n} : log'[m] = log[m]
BY DEF TypeOK

LEMMA RowMoves ==
  ASSUME TypeOK, NEW n \in Notifications, NEW c \in Copy, row' = [row EXCEPT ![n] = c]
  PROVE  /\ row' \in [Notifications -> Copy] /\ row'[n] = c
         /\ \A m \in Notifications \ {n} : row'[m] = row[m]
BY DEF TypeOK

LEMMA EntryMoves ==
  ASSUME TypeOK, NEW n \in Notifications, NEW e \in EntryState,
         entry' = [entry EXCEPT ![n] = e]
  PROVE  /\ entry' \in [Notifications -> EntryState] /\ entry'[n] = e
         /\ \A m \in Notifications \ {n} : entry'[m] = entry[m]
BY DEF TypeOK

(* A process that has n has read its row. *)
LEMMA BusyHasRow ==
  ASSUME NEW n \in Notifications, Fine(n), NEW p \in Processes, At(p, n) # "none"
  PROVE  row[n].status # "absent"
BY DEF Fine, Untouched

LEMMA AcceptsKeeps ==
  ASSUME QueueInv, NEW p \in Processes, NEW n \in Notifications, ProviderAccepts(p, n)
  PROVE  QueueInv'
<1> DEFINE l == [log[n] EXCEPT !.delivered = @ + 1]
           c == CopyOf(p, n)
<1>0. TypeOK /\ Fine(n) /\ \A m \in Notifications : Fine(m)
  BY DEF QueueInv
<1>1. /\ l \in History /\ l.delivered = log[n].delivered + 1
      /\ l.attempts = log[n].attempts /\ l.raised = log[n].raised
      /\ l.slipped = log[n].slipped /\ l.cleaned = log[n].cleaned
      /\ l.seen = log[n].seen /\ l.accepted = log[n].accepted /\ l.excuses = log[n].excuses
  BY <1>0, QueueTypes DEF History
<1>2. /\ At(p, n) = "loaded" /\ log' = [log EXCEPT ![n] = l] /\ Works(p, n, "sent", c)
      /\ row' = row /\ entry' = entry /\ faults' = faults
  BY <1>0 DEF ProviderAccepts, TypeOK
<1>3. c \in Copy /\ c.retries <= log[n].attempts
  BY <1>0, <1>2, QueueTypes DEF Fine, JobsOK, JobOK
<1>. HIDE DEF l, c
<1>4. /\ job' \in [Processes -> [Notifications -> Job]]
      /\ At(p, n)' = "sent" /\ CopyOf(p, n)' = c /\ OnlyMoves(p, n)
      /\ \A q \in Processes, m \in Notifications \ {n} : job'[q][m] = job[q][m]
  BY <1>0, <1>2, <1>3, WorksMoves DEF JobStep, OnlyMoves
<1>5. /\ log' \in [Notifications -> History] /\ log'[n] = l
      /\ \A m \in Notifications \ {n} : log'[m] = log[m]
  BY <1>0, <1>1, <1>2, LogMoves
<1>6. TypeOK'
  BY <1>0, <1>2, <1>4, <1>5 DEF TypeOK
<1>7. log[n].delivered \in Nat /\ log[n].attempts \in Nat /\ log[n].raised \in BOOLEAN
  BY <1>0, QueueTypes
<1>8. Grows(n)
  BY <1>1, <1>2, <1>5, <1>7 DEF Grows
<1>9. JobOK(p, n)'
  BY <1>1, <1>3, <1>4, <1>5, <1>7 DEF JobOK
<1>10. RowOK(n)' /\ row'[n].status # "absent"
  <2>1. Excused(n)'
    BY <1>1, <1>5, <1>7 DEF Excused
  <2>. QED BY <1>0, <1>1, <1>2, <1>5, <1>7, <2>1, BusyHasRow DEF RowOK, Fine
<1>11. TokensOK(n)'
  BY <1>0, <1>1, <1>2, <1>4, <1>5, <1>6, TokenSpent DEF Hopeful, Fine
<1>12. Fine(n)'
  BY <1>0, <1>4, <1>6, <1>8, <1>9, <1>10, <1>11, MoveKeeps
<1>. QED BY <1>0, <1>2, <1>4, <1>5, <1>6, <1>12, ElsewhereQuiet

LEMMA RefusesKeeps ==
  ASSUME QueueInv, NEW p \in Processes, NEW n \in Notifications,
         ProviderRefuses(p, n) \/ \E left \in BOOLEAN : ProviderRaises(p, n, left)
  PROVE  QueueInv'
<1> DEFINE c == CopyOf(p, n)
<1>0. TypeOK /\ Fine(n) /\ \A m \in Notifications : Fine(m)
  BY DEF QueueInv
<1>1. PICK l \in History, s \in JobStep :
        /\ l.seen = log[n].seen /\ l.accepted = log[n].accepted
        /\ l.cleaned = log[n].cleaned
        /\ l.delivered = log[n].delivered /\ l.excuses = log[n].excuses
        /\ \/ /\ s = "refused" /\ l.attempts = log[n].attempts + 1
              /\ l.raised = log[n].raised /\ l.slipped = log[n].slipped
           \/ s = "raised" /\ l.attempts = log[n].attempts /\ l.raised
        /\ log' = [log EXCEPT ![n] = l] /\ Works(p, n, s, c)
  <2>1. CASE ProviderRefuses(p, n)
    <3> DEFINE l == [log[n] EXCEPT !.attempts = @ + 1]
    <3>1. /\ l \in History /\ l.attempts = log[n].attempts + 1
          /\ l.seen = log[n].seen /\ l.accepted = log[n].accepted
          /\ l.raised = log[n].raised /\ l.slipped = log[n].slipped
          /\ l.cleaned = log[n].cleaned /\ l.delivered = log[n].delivered
          /\ l.excuses = log[n].excuses
      BY <1>0, QueueTypes DEF History
    <3>2. log' = [log EXCEPT ![n] = l] /\ Works(p, n, "refused", c)
      BY <1>0, <2>1 DEF ProviderRefuses, TypeOK
    <3>. HIDE DEF l, c
    <3>. QED BY <3>1, <3>2 DEF JobStep
  <2>2. ASSUME NEW left \in BOOLEAN, ProviderRaises(p, n, left)
        PROVE  \E l \in History :
                 /\ l.seen = log[n].seen /\ l.accepted = log[n].accepted
                 /\ l.cleaned = log[n].cleaned
                 /\ l.delivered = log[n].delivered /\ l.excuses = log[n].excuses
                 /\ l.attempts = log[n].attempts /\ l.raised
                 /\ log' = [log EXCEPT ![n] = l] /\ Works(p, n, "raised", c)
    <3> DEFINE d == log[n].slipped \/ left
               l1 == [log[n] EXCEPT !.raised = TRUE]
               l == [l1 EXCEPT !.slipped = d]
    <3>0. log[n] \in History /\ d \in BOOLEAN
      BY <1>0, QueueTypes
    <3>1. log' = [log EXCEPT ![n] = l] /\ Works(p, n, "raised", c)
      BY <1>0, <2>2 DEF ProviderRaises, TypeOK
    <3>. HIDE DEF d
    <3>2. /\ l \in History /\ l.attempts = log[n].attempts /\ l.raised
          /\ l.delivered = log[n].delivered /\ l.excuses = log[n].excuses
          /\ l.seen = log[n].seen /\ l.accepted = log[n].accepted
          /\ l.cleaned = log[n].cleaned
      BY <3>0 DEF History
    <3>. HIDE DEF l, c
    <3>. QED BY <3>1, <3>2
  <2>. HIDE DEF c
  <2>3. "raised" \in JobStep
    BY DEF JobStep
  <2>. QED BY <2>1, <2>2, <2>3
<1>2. At(p, n) = "loaded" /\ row' = row /\ entry' = entry /\ faults' = faults
  BY DEF ProviderRefuses, ProviderRaises
<1>3. c \in Copy /\ c.retries <= log[n].attempts
  BY <1>0, <1>2, QueueTypes DEF Fine, JobsOK, JobOK
<1>. HIDE DEF c
<1>4. /\ job' \in [Processes -> [Notifications -> Job]]
      /\ At(p, n)' = s /\ CopyOf(p, n)' = c /\ OnlyMoves(p, n)
      /\ \A q \in Processes, m \in Notifications \ {n} : job'[q][m] = job[q][m]
  BY <1>0, <1>1, <1>3, WorksMoves DEF OnlyMoves
<1>5. /\ log' \in [Notifications -> History] /\ log'[n] = l
      /\ \A m \in Notifications \ {n} : log'[m] = log[m]
  BY <1>0, <1>1, LogMoves
<1>6. TypeOK'
  BY <1>0, <1>2, <1>4, <1>5 DEF TypeOK
<1>7. /\ log[n].delivered \in Nat /\ log[n].attempts \in Nat /\ log[n].raised \in BOOLEAN
      /\ c.retries \in Nat /\ row[n].retries \in Nat
  BY <1>0, <1>3, QueueTypes DEF Copy
<1>8. Grows(n)
  BY <1>1, <1>2, <1>5, <1>7 DEF Grows
<1>9. JobOK(p, n)'
  <2>1. p \in Workers => c.status = "failed" \/ row[n].scheduled \/ Excused(n)
    BY <1>0, <1>2 DEF Fine, JobsOK, JobOK, c
  <2>2. Excused(n) => Excused(n)'
    BY <1>0, <1>6, <1>8, ExcuseStays
  <2>. QED BY <1>1, <1>2, <1>3, <1>4, <1>5, <1>7, <2>1, <2>2 DEF JobOK
<1>10. RowOK(n)' /\ row'[n].status # "absent"
  <2>1. Excused(n) => Excused(n)'
    BY <1>0, <1>6, <1>8, ExcuseStays
  <2>. QED BY <1>0, <1>1, <1>2, <1>5, <1>7, <2>1, BusyHasRow DEF RowOK, Fine
<1>11. TokensOK(n)'
  BY <1>0, <1>1, <1>2, <1>4, <1>5, <1>6, TokensKept DEF Hopeful, Fine, Waits
<1>12. Fine(n)'
  BY <1>0, <1>4, <1>6, <1>8, <1>9, <1>10, <1>11, MoveKeeps
<1>. QED BY <1>0, <1>2, <1>4, <1>5, <1>6, <1>12, ElsewhereQuiet

(* What a process saves in the row of n, and what it is about to do next.  *)
LEMMA SaveKeeps ==
  ASSUME QueueInv, NEW p \in Processes, NEW n \in Notifications,
         NEW s \in JobStep, NEW c \in Copy, NEW x \in Copy,
         Works(p, n, s, c), row' = [row EXCEPT ![n] = x],
         entry' = entry, log' = log, faults' = faults,
         At(p, n) # "none", s # "none", s # "queueing", s # "loaded",
         Hopeful(s) => Hopeful(At(p, n)),
         x.retries <= log[n].attempts, c.retries <= log[n].attempts,
         row[n].scheduled => x.scheduled,
         \/ x.status = row[n].status \/ x.status = "failed"
         \/ x.status = "sent" /\ log[n].delivered > 0,
         s # "refused", s # "sent", s # "raised",
         s = "succeeded" => log[n].delivered > 0,
         s = "failed" => x.status = "failed",
         p \in Workers => /\ s = "counted" => c.status = "failed" \/ row[n].scheduled
                                                \/ Excused(n)
                          /\ s = "failed" => x.scheduled \/ Excused(n)
  PROVE  QueueInv'
<1>0. TypeOK /\ Fine(n) /\ \A m \in Notifications : Fine(m)
  BY DEF QueueInv
<1>1. /\ job' \in [Processes -> [Notifications -> Job]]
      /\ At(p, n)' = s /\ CopyOf(p, n)' = c /\ OnlyMoves(p, n)
      /\ \A q \in Processes, m \in Notifications \ {n} : job'[q][m] = job[q][m]
  BY <1>0, WorksMoves DEF OnlyMoves
<1>2. /\ row' \in [Notifications -> Copy] /\ row'[n] = x
      /\ \A m \in Notifications \ {n} : row'[m] = row[m]
  BY <1>0, RowMoves
<1>3. TypeOK'
  BY <1>0, <1>1, <1>2 DEF TypeOK
<1>4. x.status # "absent" /\ row[n].status # "absent"
  BY <1>0, BusyHasRow
<1>5. Grows(n)
  BY <1>0, <1>2, <1>4, QueueTypes DEF Grows
<1>6. Excused(n) => Excused(n)'
  BY <1>0, <1>3, <1>5, ExcuseStays
<1>7. JobOK(p, n)'
  BY <1>1, <1>2, <1>6 DEF JobOK
<1>8. RowOK(n)'
  <2>1. x.status \notin {"absent", "pending", "failed"} => Excused(n)
    BY <1>0 DEF Fine, RowOK, Excused
  <2>. QED BY <1>0, <1>2, <1>4, <1>6, <2>1 DEF RowOK, Fine
<1>9. TokensOK(n)'
  BY <1>0, <1>1, <1>3, TokensKept DEF Fine, Waits
<1>10. Fine(n)'
  BY <1>0, <1>1, <1>2, <1>3, <1>4, <1>5, <1>7, <1>8, <1>9, MoveKeeps
<1>. QED BY <1>0, <1>1, <1>2, <1>3, <1>10, ElsewhereQuiet

LEMMA StepNames ==
  /\ \A s \in {"sent", "refused", "raised", "counted", "succeeded", "failed", "loaded",
               "none", "queueing"} : s \in JobStep
  /\ \A s \in {"sent", "failed", "pending"} : s \in NotificationStatus
BY DEF JobStep, NotificationStatus

LEMMA MarkAsSentKeeps ==
  ASSUME QueueInv, NEW p \in Processes, NEW n \in Notifications, MarkAsSent(p, n)
  PROVE  QueueInv'
<1> DEFINE x == [row[n] EXCEPT !.status = "sent"]
           c == [CopyOf(p, n) EXCEPT !.status = "sent"]
<1>0. TypeOK /\ RowOK(n) /\ JobOK(p, n)
  BY DEF QueueInv, Fine, JobsOK
<1>1. /\ x \in Copy /\ x.status = "sent" /\ x.retries = row[n].retries
      /\ x.scheduled = row[n].scheduled
      /\ c \in Copy /\ c.retries = CopyOf(p, n).retries
  BY <1>0, QueueTypes, StepNames DEF Copy
<1>2. /\ At(p, n) = "sent" /\ Exists(n) /\ row' = [row EXCEPT ![n] = x]
      /\ Works(p, n, "succeeded", c) /\ entry' = entry /\ log' = log /\ faults' = faults
  BY <1>0 DEF MarkAsSent, TypeOK
<1>. HIDE DEF x, c
<1>3. log[n].delivered > 0 /\ CopyOf(p, n).retries <= log[n].attempts
      /\ row[n].retries <= log[n].attempts
  BY <1>0, <1>2 DEF JobOK, RowOK
<1>. QED BY <1>1, <1>2, <1>3, SaveKeeps, StepNames DEF Hopeful

LEMMA IncrementKeeps ==
  ASSUME QueueInv, NEW p \in Processes, NEW n \in Notifications, IncrementRetry(p, n)
  PROVE  QueueInv'
<1> DEFINE c == [CopyOf(p, n) EXCEPT !.retries = @ + 1]
           x == [row[n] EXCEPT !.retries = c.retries]
<1>0. TypeOK /\ RowOK(n) /\ JobOK(p, n)
  BY DEF QueueInv, Fine, JobsOK
<1>1. /\ c \in Copy /\ c.retries = CopyOf(p, n).retries + 1
      /\ c.status = CopyOf(p, n).status
  BY <1>0, QueueTypes DEF Copy
<1>2. /\ At(p, n) = "refused" /\ Exists(n) /\ row' = [row EXCEPT ![n] = x]
      /\ Works(p, n, "counted", c) /\ entry' = entry /\ log' = log /\ faults' = faults
  BY <1>0 DEF IncrementRetry, TypeOK
<1>. HIDE DEF c
<1>3. /\ x \in Copy /\ x.status = row[n].status /\ x.retries = c.retries
      /\ x.scheduled = row[n].scheduled
  BY <1>0, <1>1, QueueTypes DEF Copy
<1>. HIDE DEF x
<1>4. /\ c.retries <= log[n].attempts
      /\ p \in Workers => c.status = "failed" \/ row[n].scheduled \/ Excused(n)
  BY <1>0, <1>1, <1>2, QueueTypes DEF JobOK
<1>. QED BY <1>1, <1>2, <1>3, <1>4, SaveKeeps, StepNames DEF Hopeful

LEMMA RescheduleKeeps ==
  ASSUME QueueInv, NEW p \in Processes, NEW n \in Notifications, Reschedule(p, n)
  PROVE  QueueInv'
<1> DEFINE c == [CopyOf(p, n) EXCEPT !.scheduled = TRUE]
<1>0. TypeOK /\ RowOK(n) /\ JobOK(p, n)
  BY DEF QueueInv, Fine, JobsOK
<1>1. /\ c \in Copy /\ c.retries = CopyOf(p, n).retries /\ c.scheduled
      /\ c.status = CopyOf(p, n).status
  BY <1>0, QueueTypes DEF Copy
<1>2. /\ At(p, n) = "counted" /\ row' = [row EXCEPT ![n] = c]
      /\ Works(p, n, "failed", c) /\ entry' = entry /\ log' = log /\ faults' = faults
      /\ c.status = "failed"
  BY <1>0 DEF Reschedule, TypeOK, CanRetry
<1>. HIDE DEF c
<1>3. c.retries <= log[n].attempts
  BY <1>0, <1>1, <1>2 DEF JobOK
<1>. QED BY <1>1, <1>2, <1>3, SaveKeeps, StepNames DEF Hopeful

LEMMA MarkAsFailedKeeps ==
  ASSUME QueueInv, NEW p \in Processes, NEW n \in Notifications, MarkAsFailed(p, n)
  PROVE  QueueInv'
<1> DEFINE x == [row[n] EXCEPT !.status = "failed"]
           c == [CopyOf(p, n) EXCEPT !.status = "failed"]
<1>0. TypeOK /\ RowOK(n) /\ JobOK(p, n)
  BY DEF QueueInv, Fine, JobsOK
<1>1. /\ x \in Copy /\ x.status = "failed" /\ x.retries = row[n].retries
      /\ x.scheduled = row[n].scheduled
      /\ c \in Copy /\ c.retries = CopyOf(p, n).retries
  BY <1>0, QueueTypes, StepNames DEF Copy
<1>2. /\ Exists(n) /\ row' = [row EXCEPT ![n] = x]
      /\ Works(p, n, "failed", c) /\ entry' = entry /\ log' = log /\ faults' = faults
      /\ \/ At(p, n) = "raised"
         \/ At(p, n) = "counted" /\ ~CanRetry(CopyOf(p, n))
  BY <1>0 DEF MarkAsFailed, TypeOK
<1>. HIDE DEF x, c
<1>3. CopyOf(p, n).retries <= log[n].attempts /\ row[n].retries <= log[n].attempts
  BY <1>0, <1>2 DEF JobOK, RowOK
<1>4. p \in Workers => row[n].scheduled \/ Excused(n)
  <2>1. CASE At(p, n) = "raised"
    BY <1>0, <2>1 DEF JobOK, Excused
  <2>2. CASE At(p, n) = "counted" /\ CopyOf(p, n).status = "failed"
    <3>1. CopyOf(p, n).retries >= MaxRetries
      BY <1>0, <1>2, <2>2, QueueTypes, QueueAssumption DEF CanRetry
    <3>. QED BY <1>0, <1>3, <3>1, QueueTypes, QueueAssumption DEF Excused
  <2>3. CASE At(p, n) = "counted" /\ CopyOf(p, n).status # "failed"
    BY <1>0, <2>3 DEF JobOK
  <2>. QED BY <1>2, <2>1, <2>2, <2>3
<1>. QED BY <1>1, <1>2, <1>3, <1>4, SaveKeeps, StepNames DEF Hopeful

----------------------------------------------------------------------------
(* Requests and the queue *)

LEMMA CreateKeeps ==
  ASSUME QueueInv, NEW n \in Notifications, SendNow(n) \/ Schedule(n)
  PROVE  QueueInv'
<1>0. TypeOK /\ Fine(n) /\ \A m \in Notifications : Fine(m)
  BY DEF QueueInv
<1>1. PICK c \in Copy, s \in JobStep :
        /\ c.status = "pending" /\ c.retries = 0
        /\ s = "loaded" \/ (s = "queueing" /\ c.scheduled)
        /\ row' = [row EXCEPT ![n] = c] /\ Works(Request, n, s, c)
  <2>1. \A b \in BOOLEAN : /\ Created(n, b) \in Copy /\ Created(n, b).status = "pending"
                           /\ Created(n, b).retries = 0 /\ Created(n, b).scheduled = b
    BY StepNames DEF Created, Copy
  <2>2. CASE SendNow(n)
    BY <2>1, <2>2, StepNames DEF SendNow
  <2>3. CASE Schedule(n)
    BY <2>1, <2>3, StepNames DEF Schedule
  <2>. QED BY <2>2, <2>3
<1>2. row[n].status = "absent" /\ entry' = entry /\ log' = log /\ faults' = faults
  BY DEF SendNow, Schedule
<1>3. Request \in Processes /\ Request \notin Workers
  BY QueueAssumption DEF Processes
<1>4. /\ job' \in [Processes -> [Notifications -> Job]]
      /\ At(Request, n)' = s /\ CopyOf(Request, n)' = c /\ OnlyMoves(Request, n)
      /\ \A q \in Processes, m \in Notifications \ {n} : job'[q][m] = job[q][m]
  BY <1>0, <1>1, <1>3, WorksMoves DEF OnlyMoves
<1>5. /\ row' \in [Notifications -> Copy] /\ row'[n] = c
      /\ \A m \in Notifications \ {n} : row'[m] = row[m]
  BY <1>0, <1>1, RowMoves
<1>6. TypeOK'
  BY <1>0, <1>2, <1>4, <1>5 DEF TypeOK
<1>7. /\ entry[n] = "none" /\ log[n].delivered = 0
      /\ \A q \in Processes : At(q, n) = "none"
  BY <1>0, <1>2 DEF Fine, Untouched
<1>8. \A q \in Processes \ {Request} : At(q, n)' = "none"
  BY <1>4, <1>7 DEF OnlyMoves, At
<1>9. JobsOK(n)'
  <2>1. JobOK(Request, n)'
    BY <1>0, <1>1, <1>2, <1>3, <1>4, <1>5, QueueTypes DEF JobOK
  <2>2. ASSUME NEW q \in Processes \ {Request} PROVE JobOK(q, n)'
    BY <1>8, <2>2 DEF JobOK
  <2>. QED BY <2>1, <2>2 DEF JobsOK
<1>10. RowOK(n)'
  <2>1. Excused(n) => Excused(n)'
    BY <1>2 DEF Excused
  <2>. QED BY <1>0, <1>1, <1>2, <1>5, <1>7, <2>1, QueueTypes DEF RowOK, Fine
<1>11. TokensOK(n)'
  <2>1. Holders(n) = {}
    BY <1>7 DEF Holders, Hopeful
  <2>2. Holders(n)' \subseteq Holders(n) \cup {Request}
    BY <1>8 DEF Holders, Hopeful
  <2>3. Cardinality(Holders(n)') <= 1
    BY <1>3, <2>1, <2>2, HolderJoins, HoldersFinite, FS_EmptySet
  <2>. QED BY <1>0, <1>2, <1>7, <2>3, HoldersFinite, QueueTypes DEF TokensOK, Tokens, Waits
<1>12. Fine(n)'
  BY <1>1, <1>5, <1>9, <1>10, <1>11 DEF Fine, Untouched
<1>. QED BY <1>0, <1>2, <1>3, <1>4, <1>5, <1>6, <1>12, ElsewhereQuiet

(* A process leaves n: its entry may wait again only for a hope given up.  *)
LEMMA StopKeeps ==
  ASSUME QueueInv, NEW p \in Processes, NEW n \in Notifications, At(p, n) # "none",
         Stops(p, n), NEW e \in EntryState, NEW l \in History,
         entry' = [entry EXCEPT ![n] = e], log' = [log EXCEPT ![n] = l],
         row' = row, faults' = faults,
         l.attempts = log[n].attempts, l.raised = log[n].raised,
         l.slipped = log[n].slipped, l.cleaned = log[n].cleaned,
         l.delivered = log[n].delivered, l.excuses = log[n].excuses,
         l.seen = log[n].seen,
         Hopeful(At(p, n)) \/ e \notin {"waiting", "due"} \/ e = entry[n],
         e # "none" => ~(row[n].status = "pending") \/ row[n].scheduled,
         l.accepted => e # "none" \/ Excused(n)
  PROVE  QueueInv'
<1>0. TypeOK /\ Fine(n) /\ \A m \in Notifications : Fine(m)
  BY DEF QueueInv
<1>1. /\ job' \in [Processes -> [Notifications -> Job]]
      /\ At(p, n)' = "none" /\ OnlyMoves(p, n)
      /\ \A q \in Processes, m \in Notifications \ {n} : job'[q][m] = job[q][m]
  BY <1>0, NoRowType, WorksMoves DEF OnlyMoves, Stops
<1>2. /\ entry' \in [Notifications -> EntryState] /\ entry'[n] = e
      /\ \A m \in Notifications \ {n} : entry'[m] = entry[m]
  BY <1>0, EntryMoves
<1>3. /\ log' \in [Notifications -> History] /\ log'[n] = l
      /\ \A m \in Notifications \ {n} : log'[m] = log[m]
  BY <1>0, LogMoves
<1>4. TypeOK'
  BY <1>0, <1>1, <1>2, <1>3 DEF TypeOK
<1>5. Grows(n)
  BY <1>0, <1>3, QueueTypes DEF Grows
<1>6. Excused(n) => Excused(n)'
  BY <1>0, <1>4, <1>5, ExcuseStays
<1>7. JobOK(p, n)'
  BY <1>1 DEF JobOK
<1>8. RowOK(n)'
  BY <1>0, <1>2, <1>3, <1>6 DEF RowOK, Fine
<1>9. TokensOK(n)'
  <2>1. CASE e \notin {"waiting", "due"} \/ e = entry[n]
    BY <1>0, <1>1, <1>2, <1>3, <1>4, <2>1, TokensKept DEF Fine, Hopeful, Waits
  <2>2. CASE Hopeful(At(p, n))
    BY <1>0, <1>1, <1>3, <1>4, <2>2, TokenSpent DEF Fine, Hopeful
  <2>. QED BY <2>1, <2>2
<1>10. row'[n].status # "absent"
  BY <1>0, BusyHasRow
<1>11. Fine(n)'
  BY <1>0, <1>1, <1>4, <1>5, <1>7, <1>8, <1>9, <1>10, MoveKeeps
<1>. QED BY <1>0, <1>1, <1>2, <1>3, <1>4, <1>11, ElsewhereQuiet

LEMMA AnswerKeeps ==
  ASSUME QueueInv, NEW n \in Notifications, AddToQueue(n) \/ Answer(n)
  PROVE  QueueInv'
<1>0. /\ TypeOK /\ RowOK(n) /\ JobOK(Request, n) /\ Request \in Processes
      /\ log[n] \in History /\ entry[n] \in EntryState
  BY QueueTypes, QueueAssumption DEF QueueInv, Fine, JobsOK, Processes
<1>1. ASSUME NEW b \in BOOLEAN
      PROVE  LET l == [log[n] EXCEPT !.accepted = b]
             IN /\ l \in History /\ l.attempts = log[n].attempts
                /\ l.raised = log[n].raised /\ l.slipped = log[n].slipped
                /\ l.cleaned = log[n].cleaned /\ l.delivered = log[n].delivered
                /\ l.excuses = log[n].excuses /\ l.seen = log[n].seen /\ l.accepted = b
  BY <1>0 DEF History
<1>2. CASE AddToQueue(n)
  <2> DEFINE l == [log[n] EXCEPT !.accepted = TRUE]
  <2>1. /\ l \in History /\ l.attempts = log[n].attempts
        /\ l.raised = log[n].raised /\ l.slipped = log[n].slipped
        /\ l.cleaned = log[n].cleaned /\ l.delivered = log[n].delivered
        /\ l.excuses = log[n].excuses /\ l.seen = log[n].seen
    BY <1>1
  <2>2. /\ At(Request, n) = "queueing" \/ At(Request, n) = "failed"
        /\ Stops(Request, n) /\ entry' = [entry EXCEPT ![n] = "waiting"]
        /\ log' = [log EXCEPT ![n] = l] /\ row' = row /\ faults' = faults
    BY <1>0, <1>2 DEF AddToQueue, TypeOK
  <2>3. ~(row[n].status = "pending") \/ row[n].scheduled
    BY <1>0, <2>2 DEF JobOK
  <2>4. "waiting" \in EntryState
    BY DEF EntryState
  <2>. HIDE DEF l
  <2>. QED BY <1>0, <2>1, <2>2, <2>3, <2>4, StopKeeps DEF Hopeful
<1>3. CASE Answer(n)
  <2> DEFINE b == At(Request, n) = "succeeded"
             l == [log[n] EXCEPT !.accepted = b]
  <2>1. /\ l \in History /\ l.attempts = log[n].attempts
        /\ l.raised = log[n].raised /\ l.slipped = log[n].slipped
        /\ l.cleaned = log[n].cleaned /\ l.delivered = log[n].delivered
        /\ l.excuses = log[n].excuses /\ l.seen = log[n].seen /\ l.accepted = b
    <3>1. b \in BOOLEAN
      OBVIOUS
    <3>. HIDE DEF b
    <3>. QED BY <1>1, <3>1
  <2>2. /\ At(Request, n) # "none" /\ Stops(Request, n)
        /\ log' = [log EXCEPT ![n] = l] /\ row' = row /\ faults' = faults
        /\ entry' = [entry EXCEPT ![n] = entry[n]]
    BY <1>0, <1>3 DEF Answer, TypeOK
  <2>3. b => Excused(n)
    BY <1>0 DEF JobOK, Excused
  <2>. HIDE DEF l
  <2>4. l.accepted => entry[n] # "none" \/ Excused(n)
    BY <2>1, <2>3, Zenon
  <2>5. entry[n] # "none" => ~(row[n].status = "pending") \/ row[n].scheduled
    BY <1>0 DEF RowOK
  <2>. HIDE DEF b
  <2>. QED BY <1>0, <2>1, <2>2, <2>4, <2>5, StopKeeps
<1>. QED BY <1>2, <1>3

LEMMA FinishKeeps ==
  ASSUME QueueInv, NEW w \in Workers, NEW n \in Notifications,
         FinishSent(w, n) \/ FinishFailed(w, n) \/ FinishDeleted(w, n)
  PROVE  QueueInv'
<1>0. /\ TypeOK /\ RowOK(n) /\ JobOK(w, n) /\ w \in Processes
      /\ log[n] \in History
  BY QueueTypes DEF QueueInv, Fine, JobsOK, Processes
<1>1. /\ At(w, n) # "none" /\ Stops(w, n) /\ row' = row /\ faults' = faults
      /\ log' = [log EXCEPT ![n] = log[n]]
  BY <1>0 DEF FinishSent, FinishFailed, FinishDeleted, TypeOK
<1>2. "none" \in EntryState /\ "waiting" \in EntryState
  BY DEF EntryState
<1>3. CASE FinishSent(w, n) \/ FinishDeleted(w, n)
  <2>1. entry' = [entry EXCEPT ![n] = "none"]
    BY <1>3 DEF FinishSent, FinishDeleted
  <2>2. Excused(n)
    <3>1. row[n].status # "absent"
      BY <1>1, BusyHasRow, <1>0 DEF QueueInv
    <3>. QED BY <1>0, <1>3, <3>1 DEF FinishSent, FinishDeleted, JobOK, RowOK, Exists, Excused
  <2>. QED BY <1>0, <1>1, <1>2, <2>1, <2>2, StopKeeps
<1>4. CASE FinishFailed(w, n)
  <2> DEFINE again == entry[n] # "none" /\ CanRetry(row[n]) /\ row[n].scheduled
             e == IF again THEN "waiting" ELSE "none"
  <2>1. entry' = [entry EXCEPT ![n] = e] /\ At(w, n) = "failed"
    BY <1>0, <1>4 DEF FinishFailed, TypeOK
  <2>2. e \in EntryState /\ (e = "waiting" \/ e = "none")
    BY <1>2
  <2>3. ASSUME log[n].accepted, ~again PROVE Excused(n)
    <3>1. row[n].status # "absent" /\ row[n].status # "pending"
      BY <1>0, <1>1, <2>1, BusyHasRow DEF QueueInv, JobOK
    <3>2. row[n].scheduled \/ Excused(n)
      BY <1>0, <2>1 DEF JobOK
    <3>3. entry[n] # "none" \/ Excused(n)
      BY <1>0, <2>3 DEF RowOK
    <3>4. CASE ~CanRetry(row[n])
      <4>1. CASE row[n].status = "failed"
        <5>1. row[n].retries >= MaxRetries
          BY <1>0, <3>4, <4>1, QueueTypes, QueueAssumption DEF CanRetry
        <5>. QED BY <1>0, <5>1, QueueTypes, QueueAssumption DEF RowOK, Excused
      <4>2. CASE row[n].status # "failed"
        BY <1>0, <3>1, <4>2 DEF RowOK
      <4>. QED BY <4>1, <4>2
    <3>. QED BY <2>3, <3>2, <3>3, <3>4
  <2>4. e # "none" => row[n].scheduled
    OBVIOUS
  <2>5. log[n].accepted => e # "none" \/ Excused(n)
    BY <2>3
  <2>. HIDE DEF e
  <2>. QED BY <1>0, <1>1, <2>1, <2>2, <2>4, <2>5, StopKeeps DEF Hopeful
<1>. QED BY <1>3, <1>4

LEMMA ClaimKeeps ==
  ASSUME QueueInv, NEW w \in Workers, NEW batch \in SUBSET Notifications, Claim(w, batch)
  PROVE  QueueInv'
<1>0. TypeOK /\ w \in Processes /\ \A n \in Notifications : Fine(n)
  BY DEF QueueInv, Processes
<1>1. ASSUME NEW n \in Notifications
      PROVE  /\ At(w, n) = "none"
             /\ n \in batch => entry[n] = "due" \/ entry[n] = "stale"
             /\ entry'[n] = IF n \in batch THEN "claimed" ELSE entry[n]
             /\ log'[n] \in History /\ log'[n].attempts = log[n].attempts
             /\ log'[n].raised = log[n].raised /\ log'[n].delivered = log[n].delivered
             /\ log'[n].slipped = log[n].slipped /\ log'[n].cleaned = log[n].cleaned
             /\ log'[n].seen = log[n].seen /\ log'[n].accepted = log[n].accepted
             /\ log'[n].excuses = IF n \in batch /\ entry[n] = "stale"
                                  THEN log[n].excuses + 1 ELSE log[n].excuses
             /\ n \notin batch => log'[n] = log[n]
  BY <1>0, QueueTypes DEF Claim, Claimable, FirstOf, History
<1>2. /\ row' = row /\ faults' = faults
      /\ \A n \in Notifications : job'[w][n] =
           IF n \in batch THEN [at |-> "loaded", copy |-> row[n]] ELSE NoJob
      /\ \A q \in Processes \ {w} : job'[q] = job[q]
  BY <1>0 DEF Claim, Loaded, TypeOK
<1>3. TypeOK'
  <2>1. \A n \in Notifications : IF n \in batch
          THEN [at |-> "loaded", copy |-> row[n]] \in Job ELSE NoJob \in Job
    BY <1>0, NoRowType, QueueTypes, StepNames DEF Job
  <2>2. job' \in [Processes -> [Notifications -> Job]]
    BY <1>0, <2>1 DEF Claim, Loaded, TypeOK
  <2>3. entry' \in [Notifications -> EntryState]
    BY <1>0 DEF Claim, TypeOK, EntryState
  <2>4. log' \in [Notifications -> History]
    <3>1. log' = [n \in Notifications |-> log'[n]]
      BY DEF Claim
    <3>. QED BY <1>1, <3>1
  <2>. QED BY <1>0, <1>2, <2>2, <2>3, <2>4 DEF TypeOK
<1>4. ASSUME NEW n \in Notifications \ batch
      PROVE  Fine(n)'
  <2>1. \A q \in Processes : job'[q][n] = job[q][n] \/ At(q, n)' = "none"
    BY <1>2, NoRowType DEF At
  <2>. QED BY <1>0, <1>1, <1>2, <1>3, <2>1, QuietKeeps
<1>5. ASSUME NEW n \in batch
      PROVE  Fine(n)'
  <2>0. n \in Notifications /\ Fine(n)
    BY <1>0
  <2>1. At(w, n)' = "loaded" /\ CopyOf(w, n)' = row[n] /\ OnlyMoves(w, n)
    <3> DEFINE j == [at |-> "loaded", copy |-> row[n]]
    <3>1. job'[w][n] = j
      BY <1>2, <2>0
    <3>2. j.at = "loaded" /\ j.copy = row[n]
      OBVIOUS
    <3>. HIDE DEF j
    <3>3. At(w, n)' = "loaded" /\ CopyOf(w, n)' = row[n]
      BY <3>1, <3>2 DEF At, CopyOf
    <3>. QED BY <1>2, <3>3 DEF OnlyMoves
  <2>2. /\ log'[n].attempts = log[n].attempts /\ log'[n].raised = log[n].raised
        /\ log'[n].slipped = log[n].slipped /\ log'[n].cleaned = log[n].cleaned
        /\ log'[n].delivered = log[n].delivered /\ log'[n].seen = log[n].seen
        /\ log'[n].accepted = log[n].accepted /\ row'[n] = row[n]
        /\ entry[n] # "none" /\ entry'[n] = "claimed"
    BY <1>1, <1>2, <2>0
  <2>3. Grows(n) /\ (Excused(n) => Excused(n)')
    BY <1>0, <2>0, <2>2, QueueTypes DEF Grows, Excused
  <2>4. row[n].status # "absent"
    BY <2>0, <2>2 DEF Fine, Untouched
  <2>5. JobOK(w, n)'
    <3>1. row[n].status = "failed" \/ row[n].scheduled \/ Excused(n)
      BY <1>0, <2>0, <2>2, <2>4 DEF Fine, RowOK
    <3>2. row[n].retries <= log[n].attempts
      BY <2>0 DEF Fine, RowOK
    <3>. QED BY <2>1, <2>2, <2>3, <3>1, <3>2 DEF JobOK
  <2>6. RowOK(n)'
    BY <2>0, <2>2, <2>3 DEF Fine, RowOK
  <2>7. TokensOK(n)'
    <3>1. Holders(n)' \subseteq Holders(n) \cup {w}
      BY <2>1 DEF Holders, At, OnlyMoves
    <3>2. Cardinality(Holders(n)') <= Cardinality(Holders(n)) + 1
      BY <1>0, <3>1, HolderJoins
    <3>3. Cardinality(Holders(n)) \in Nat /\ Cardinality(Holders(n)') \in Nat
          /\ log[n].delivered \in Nat /\ log[n].excuses \in Nat
      BY <1>0, <2>0, HoldersFinite, QueueTypes
    <3>4. Cardinality(Holders(n)) + (IF entry[n] = "due" THEN 1 ELSE 0)
            + log[n].delivered <= 1 + log[n].excuses
      BY <1>1, <2>0 DEF Fine, TokensOK, Tokens, Waits
    <3>5. \/ entry[n] = "due" /\ log'[n].excuses = log[n].excuses
          \/ entry[n] = "stale" /\ log'[n].excuses = log[n].excuses + 1
      BY <1>1, <2>0
    <3>6. Cardinality(Holders(n)') + 0 + log'[n].delivered <= 1 + log'[n].excuses
      BY <2>2, <3>2, <3>3, <3>4, <3>5
    <3>. QED BY <2>2, <3>6 DEF TokensOK, Tokens, Waits
  <2>. QED BY <1>0, <1>3, <2>0, <2>1, <2>2, <2>3, <2>4, <2>5, <2>6, <2>7, MoveKeeps
<1>. QED BY <1>3, <1>4, <1>5 DEF QueueInv

----------------------------------------------------------------------------
(* Time, faults, the user and the clean-up: no process moves but one that  *)
(* dies.                                                                   *)

LEMMA DiesKeeps ==
  ASSUME QueueInv, NEW p \in Processes, ProcessDies(p)
  PROVE  QueueInv'
<1>0. TypeOK /\ \A n \in Notifications : Fine(n)
  BY DEF QueueInv
<1>1. /\ row' = row /\ entry' = entry /\ log' = log /\ faults' = faults + 1
      /\ job' = [job EXCEPT ![p] = [n \in Notifications |-> NoJob]]
  BY DEF ProcessDies
<1>2. /\ job' \in [Processes -> [Notifications -> Job]]
      /\ \A n \in Notifications, q \in Processes :
           job'[q][n] = job[q][n] \/ At(q, n)' = "none"
  BY <1>0, <1>1, NoRowType DEF TypeOK, At
<1>3. TypeOK'
  BY <1>0, <1>1, <1>2 DEF TypeOK
<1>. QED BY <1>0, <1>1, <1>2, <1>3, QuietKeeps DEF QueueInv

(* A step that leaves the jobs alone. *)
LEMMA JobsStill ==
  ASSUME TypeOK, TypeOK', NEW n \in Notifications, Fine(n), Grows(n), job' = job,
         log'[n].delivered = log[n].delivered, log'[n].excuses = log[n].excuses,
         Waits(n)' => Waits(n),
         row[n].status = "absent" => row'[n] = row[n] /\ entry'[n] = entry[n],
         row'[n].status = "absent" => row[n].status = "absent", RowOK(n)'
  PROVE  Fine(n)'
<1>1. JobsOK(n)'
  BY JobStays DEF Fine, JobsOK
<1>2. Holders(n)' = Holders(n)
  BY DEF Holders, At
<1>3. TokensOK(n)'
  BY <1>2, HoldersFinite, QueueTypes DEF Fine, TokensOK, Tokens, Waits
<1>4. Untouched(n)'
  BY DEF Fine, Untouched, At
<1>. QED BY <1>1, <1>3, <1>4 DEF Fine

LEMMA OthersStill ==
  ASSUME TypeOK, TypeOK', \A m \in Notifications : Fine(m), NEW n \in Notifications, Fine(n)',
         job' = job,
         \A m \in Notifications \ {n} :
           row'[m] = row[m] /\ entry'[m] = entry[m] /\ log'[m] = log[m]
  PROVE  QueueInv'
<1>1. \A m \in Notifications \ {n} : Fine(m)'
  BY QuietKeeps
<1>. QED BY <1>1 DEF QueueInv

LEMMA StaleKeeps ==
  ASSUME QueueInv, NEW n \in Notifications, BecomesDue(n) \/ ClaimGetsStale(n)
  PROVE  QueueInv'
<1>0. TypeOK /\ Fine(n) /\ \A m \in Notifications : Fine(m)
  BY DEF QueueInv
<1>1. PICK e \in EntryState :
        /\ entry' = [entry EXCEPT ![n] = e] /\ entry[n] # "none" /\ e # "none"
        /\ e \in {"waiting", "due"} => Waits(n)
  BY DEF BecomesDue, ClaimGetsStale, EntryState, Waits
<1>2. row' = row /\ job' = job /\ log' = log /\ faults' \in Nat
  BY <1>0 DEF BecomesDue, ClaimGetsStale, TypeOK
<1>3. /\ entry' \in [Notifications -> EntryState] /\ entry'[n] = e
      /\ \A m \in Notifications \ {n} : entry'[m] = entry[m]
  BY <1>0, <1>1, EntryMoves
<1>4. TypeOK'
  BY <1>0, <1>1, <1>2, <1>3 DEF TypeOK
<1>5. Grows(n) /\ (Excused(n) => Excused(n)') /\ row[n].status # "absent"
  BY <1>0, <1>1, <1>2, QueueTypes DEF Grows, Excused, Fine, Untouched
<1>6. RowOK(n)'
  BY <1>0, <1>1, <1>2, <1>3, <1>5 DEF Fine, RowOK
<1>7. Fine(n)'
  BY <1>0, <1>1, <1>2, <1>3, <1>4, <1>5, <1>6, JobsStill DEF Waits
<1>. QED BY <1>0, <1>1, <1>2, <1>3, <1>4, <1>7, OthersStill

LEMMA DeliveredKeeps ==
  ASSUME QueueInv, NEW n \in Notifications, MarkAsDelivered(n)
  PROVE  QueueInv'
<1> DEFINE x == [row[n] EXCEPT !.status = "delivered"]
<1>0. TypeOK /\ Fine(n) /\ \A m \in Notifications : Fine(m)
  BY DEF QueueInv
<1>1. /\ x \in Copy /\ x.status = "delivered" /\ x.retries = row[n].retries
      /\ x.scheduled = row[n].scheduled
  BY <1>0, QueueTypes DEF Copy, NotificationStatus
<1>2. /\ row' = [row EXCEPT ![n] = x] /\ Exists(n)
      /\ log[n].delivered > 0 \/ log[n].slipped
      /\ entry' = entry /\ job' = job /\ log' = log /\ faults' = faults
  BY <1>0 DEF MarkAsDelivered, TypeOK
<1>. HIDE DEF x
<1>3. /\ row' \in [Notifications -> Copy] /\ row'[n] = x
      /\ \A m \in Notifications \ {n} : row'[m] = row[m]
  BY <1>0, <1>1, <1>2, RowMoves
<1>4. TypeOK'
  BY <1>0, <1>2, <1>3 DEF TypeOK
<1>5. Grows(n) /\ (Excused(n) => Excused(n)')
      /\ row[n].status # "absent" /\ row'[n].status # "absent"
  BY <1>0, <1>1, <1>2, <1>3, QueueTypes DEF Grows, Excused, Exists
<1>6. RowOK(n)'
  <2>1. Excused(n)
    BY <1>0, <1>2, QueueTypes DEF Fine, RowOK, Excused
  <2>. QED BY <1>0, <1>1, <1>2, <1>3, <1>5, <2>1 DEF Fine, RowOK
<1>7. Fine(n)'
  BY <1>0, <1>2, <1>3, <1>4, <1>5, <1>6, JobsStill DEF Waits
<1>. QED BY <1>0, <1>2, <1>3, <1>4, <1>7, OthersStill

LEMMA CleanUpKeeps ==
  ASSUME QueueInv, NEW n \in Notifications, CleanUp(n)
  PROVE  QueueInv'
<1> DEFINE x == [row[n] EXCEPT !.status = "deleted"]
           l == [log[n] EXCEPT !.cleaned = TRUE]
<1>0. TypeOK /\ Fine(n) /\ \A m \in Notifications : Fine(m)
  BY DEF QueueInv
<1>1. /\ x \in Copy /\ x.status = "deleted" /\ x.retries = row[n].retries
      /\ x.scheduled = row[n].scheduled
      /\ l \in History /\ l.attempts = log[n].attempts /\ l.raised = log[n].raised
      /\ l.slipped = log[n].slipped /\ l.delivered = log[n].delivered
      /\ l.excuses = log[n].excuses /\ l.seen = log[n].seen
      /\ l.accepted = log[n].accepted /\ l.cleaned
  BY <1>0, QueueTypes DEF Copy, NotificationStatus, History
<1>2. /\ row' = [row EXCEPT ![n] = x] /\ row[n].status # "absent"
      /\ entry' = [entry EXCEPT ![n] = "none"]
      /\ job' = job /\ log' = [log EXCEPT ![n] = l] /\ faults' = faults
  BY <1>0 DEF CleanUp, TypeOK
<1>. HIDE DEF x, l
<1>3. /\ row' \in [Notifications -> Copy] /\ row'[n] = x
      /\ \A m \in Notifications \ {n} : row'[m] = row[m]
  BY <1>0, <1>1, <1>2, RowMoves
<1>4. /\ entry' \in [Notifications -> EntryState] /\ entry'[n] = "none"
      /\ \A m \in Notifications \ {n} : entry'[m] = entry[m]
  BY <1>0, <1>2, EntryMoves DEF EntryState
<1>5. /\ log' \in [Notifications -> History] /\ log'[n] = l
      /\ \A m \in Notifications \ {n} : log'[m] = log[m]
  BY <1>0, <1>1, <1>2, LogMoves
<1>6. TypeOK'
  BY <1>0, <1>2, <1>3, <1>4, <1>5 DEF TypeOK
<1>7. Grows(n) /\ Excused(n)' /\ row'[n].status # "absent"
  BY <1>0, <1>1, <1>2, <1>3, <1>5, QueueTypes DEF Grows, Excused
<1>8. RowOK(n)'
  BY <1>0, <1>1, <1>2, <1>3, <1>4, <1>5, <1>7 DEF Fine, RowOK, Excused
<1>9. Fine(n)'
  BY <1>0, <1>2, <1>3, <1>4, <1>5, <1>6, <1>7, <1>1, <1>8, JobsStill DEF Waits
<1>. QED BY <1>0, <1>2, <1>3, <1>4, <1>5, <1>6, <1>9, OthersStill

(* Reading one notification, or all. *)
LEMMA ReadRow ==
  ASSUME TypeOK, NEW n \in Notifications
  PROVE  LET x == [row[n] EXCEPT !.status = "read"]
             l == [log[n] EXCEPT !.seen = TRUE]
         IN /\ x \in Copy /\ x.status = "read" /\ x.retries = row[n].retries
            /\ x.scheduled = row[n].scheduled
            /\ l \in History /\ l.attempts = log[n].attempts /\ l.raised = log[n].raised
            /\ l.slipped = log[n].slipped /\ l.cleaned = log[n].cleaned
            /\ l.delivered = log[n].delivered /\ l.excuses = log[n].excuses
            /\ l.seen /\ l.accepted = log[n].accepted
BY QueueTypes DEF Copy, NotificationStatus, History

LEMMA ReadKeeps ==
  ASSUME QueueInv,
         \/ \E n \in Notifications : MarkAsRead(n)
         \/ \E all \in SUBSET Notifications : MarkAllAsRead(all)
  PROVE  QueueInv'
<1>0. TypeOK /\ \A m \in Notifications : Fine(m)
  BY DEF QueueInv
<1>1. PICK all \in SUBSET Notifications :
        /\ \A n \in all : row[n].status # "absent" /\ row[n].status # "deleted"
        /\ row' = [n \in Notifications |->
             IF n \in all THEN [row[n] EXCEPT !.status = "read"] ELSE row[n]]
        /\ log' = [n \in Notifications |->
             IF n \in all THEN [log[n] EXCEPT !.seen = TRUE] ELSE log[n]]
  <2>1. ASSUME NEW n \in Notifications, MarkAsRead(n)
        PROVE  /\ \A m \in {n} : row[m].status # "absent" /\ row[m].status # "deleted"
               /\ row' = [m \in Notifications |->
                    IF m \in {n} THEN [row[m] EXCEPT !.status = "read"] ELSE row[m]]
               /\ log' = [m \in Notifications |->
                    IF m \in {n} THEN [log[m] EXCEPT !.seen = TRUE] ELSE log[m]]
    <3>1. \A m \in {n} : row[m].status # "absent" /\ row[m].status # "deleted"
      BY <2>1 DEF MarkAsRead, Exists
    <3>2. row' = [m \in Notifications |->
                    IF m \in {n} THEN [row[m] EXCEPT !.status = "read"] ELSE row[m]]
      BY <1>0, <2>1 DEF MarkAsRead, TypeOK
    <3>3. log' = [m \in Notifications |->
                    IF m \in {n} THEN [log[m] EXCEPT !.seen = TRUE] ELSE log[m]]
      BY <1>0, <2>1 DEF MarkAsRead, TypeOK
    <3>. QED BY <3>1, <3>2, <3>3
  <2>2. ASSUME NEW all \in SUBSET Notifications, MarkAllAsRead(all)
        PROVE  \A n \in all : row[n].status # "absent" /\ row[n].status # "deleted"
    BY <2>2 DEF MarkAllAsRead
  <2>3. \A n \in Notifications : {n} \in SUBSET Notifications
    OBVIOUS
  <2>. QED BY <2>1, <2>2, <2>3 DEF MarkAllAsRead
<1>2. entry' = entry /\ job' = job /\ faults' = faults
  BY DEF MarkAsRead, MarkAllAsRead
<1>3. TypeOK'
  <2>1. row' \in [Notifications -> Copy]
    BY <1>0, <1>1, ReadRow DEF TypeOK
  <2>2. log' \in [Notifications -> History]
    BY <1>0, <1>1, ReadRow DEF TypeOK
  <2>. QED BY <1>0, <1>2, <2>1, <2>2 DEF TypeOK
<1>4. ASSUME NEW n \in Notifications \ all
      PROVE  Fine(n)'
  BY <1>0, <1>1, <1>2, <1>3, QuietKeeps
<1>5. ASSUME NEW n \in all
      PROVE  Fine(n)'
  <2>0. n \in Notifications /\ Fine(n)
    BY <1>0
  <2>1. /\ row'[n].status = "read" /\ row'[n].retries = row[n].retries
        /\ row'[n].scheduled = row[n].scheduled
        /\ log'[n].attempts = log[n].attempts /\ log'[n].raised = log[n].raised
        /\ log'[n].slipped = log[n].slipped /\ log'[n].cleaned = log[n].cleaned
        /\ log'[n].delivered = log[n].delivered /\ log'[n].excuses = log[n].excuses
        /\ log'[n].seen /\ log'[n].accepted = log[n].accepted
    BY <1>0, <1>1, <2>0, ReadRow
  <2>2. Grows(n) /\ Excused(n)'
    BY <1>0, <1>1, <2>0, <2>1, QueueTypes DEF Grows, Excused
  <2>3. RowOK(n)'
    BY <1>2, <2>0, <2>1, <2>2 DEF Fine, RowOK
  <2>. QED BY <1>0, <1>1, <1>2, <1>3, <2>0, <2>1, <2>2, <2>3, JobsStill DEF Waits
<1>. QED BY <1>3, <1>4, <1>5 DEF QueueInv

----------------------------------------------------------------------------
LEMMA QueueStarts == Init => QueueInv
<1> SUFFICES ASSUME Init PROVE QueueInv
  OBVIOUS
<1>1. TypeOK
  BY NoRowType DEF Init, TypeOK, EntryState, History, NothingYet
<1>2. ASSUME NEW n \in Notifications
      PROVE  Fine(n)
  <2>1. /\ row[n] = NoRow /\ entry[n] = "none" /\ log[n] = NothingYet
        /\ \A p \in Processes : At(p, n) = "none"
    BY NoRowType DEF Init, At
  <2>2. Holders(n) = {}
    BY <2>1 DEF Holders, Hopeful
  <2>3. TokensOK(n)
    BY <2>1, <2>2, FS_EmptySet DEF TokensOK, Tokens, Waits, NothingYet
  <2>. QED BY <2>1, <2>3 DEF Fine, Untouched, RowOK, JobsOK, JobOK, NoRow, NothingYet
<1>. QED BY <1>1, <1>2 DEF QueueInv

LEMMA QueueStep == QueueInv /\ [Next]_vars => QueueInv'
<1> SUFFICES ASSUME QueueInv, [Next]_vars PROVE QueueInv'
  OBVIOUS
<1>1. CASE UNCHANGED vars
  <2>1. TypeOK'
    BY <1>1 DEF vars, QueueInv, TypeOK
  <2>. QED BY <1>1, <2>1, QuietKeeps DEF vars, QueueInv
<1>2. ASSUME NEW p \in Processes, NEW n \in Notifications, Process(p, n)
      PROVE  QueueInv'
  BY <1>2, AcceptsKeeps, RefusesKeeps, MarkAsSentKeeps, IncrementKeeps, RescheduleKeeps,
     MarkAsFailedKeeps DEF Process
<1>3. ASSUME NEW w \in Workers, WorkerRuns(w)
      PROVE  QueueInv'
  BY <1>2, <1>3, ClaimKeeps, FinishKeeps DEF WorkerRuns, Processes
<1>4. ASSUME NEW n \in Notifications, RequestRuns(n)
      PROVE  QueueInv'
  BY <1>2, <1>4, CreateKeeps, AnswerKeeps DEF RequestRuns, Processes
<1>5. CASE UserActs
  BY <1>5, DeliveredKeeps, ReadKeeps DEF UserActs
<1>. QED BY <1>1, <1>3, <1>4, <1>5, StaleKeeps, CleanUpKeeps, DiesKeeps DEF Next

(* The rows, the entries and the copies keep their types, for any number   *)
(* of processes (apps/notification).                                       *)
THEOREM QueueTypesAlways == Spec => []TypeOK
<1>1. QueueInv => TypeOK
  BY DEF QueueInv
<1>. QED BY <1>1, QueueStarts, QueueStep, PTL DEF Spec

(* The provider accepts a notification once, and once more only for a claim *)
(* taken over; one that was accepted is not dropped before it went out, was *)
(* read, was tried MaxRetries times or was cleaned up, unless a call of the *)
(* provider raised: such a call is not answered for (process_queue).        *)
THEOREM DeliveryAlwaysAgrees == Spec => []DeliveryAgrees
<1>1. QueueInv => DeliveryAgrees
  <2> SUFFICES ASSUME QueueInv PROVE DeliveryAgrees
    OBVIOUS
  <2>1. ASSUME NEW n \in Notifications
        PROVE  log[n].delivered <= 1 + log[n].excuses
    <3>1. TypeOK /\ TokensOK(n)
      BY DEF QueueInv, Fine
    <3>. QED BY <3>1, HoldersFinite, QueueTypes DEF TokensOK, Tokens, Waits
  <2>2. AcceptedIsKept
    BY DEF QueueInv, Fine, RowOK, Excused, AcceptedIsKept
  <2>. QED BY <2>1, <2>2 DEF DeliveryAgrees, SentOncePerClaim
<1>. QED BY <1>1, QueueStarts, QueueStep, PTL DEF Spec
=============================================================================
