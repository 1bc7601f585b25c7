------------------------------ MODULE MailOutbox -----------------------------
(***************************************************************************)
(* One mail of the outbox: sent by several workers under leases, with      *)
(* retries, crashes, answers that are lost and batches that outlast their  *)
(* lease.                                                                  *)
(* backend/src/modules/notifications/mailer.js, run by worker.js.          *)
(*                                                                         *)
(* Mails touch one another in one way: a mail waits its turn in a worker's *)
(* batch. Here that is time passing between Lease and HandOver. Time is    *)
(* relative: a mail counts down to its next attempt, a batch counts up     *)
(* from the moment its worker read the clock.                              *)
(***************************************************************************)
EXTENDS Naturals

CONSTANTS
  Worker,        \* worker processes
  LeaseMinutes, MaxAttempts,
  MaxDelay,      \* the longest wait for a retry
  MaxMishaps     \* bound: crashes, lost answers, and times the failed mail is queued again

ASSUME OutboxAssumption ==
  {LeaseMinutes, MaxAttempts, MaxDelay, MaxMishaps} \subseteq Nat /\ LeaseMinutes > 0 /\ MaxAttempts > 0

VARIABLES
  status, attempts,
  wait,       \* minutes until next_attempt_at
  batch,      \* what a worker has of the mail: whether it holds it, the batch's age, the attempts it read
  delivered,  \* how often the mail server took the mail
  excused,    \* how often it was bound to be sent again (see AtMostOnce)
  mishaps

row == <<status, attempts, wait>>
mailVars == <<row, batch, delivered, excused, mishaps>>

NoBatch == [holds |-> "NOTHING", age |-> 0, attempts |-> 0]

\* A mail is queued due at once.
MailInit ==
  /\ status = "PENDING" /\ attempts = 0 /\ wait = 0
  /\ batch = [w \in Worker |-> NoBatch] /\ delivered = 0 /\ excused = 0 /\ mishaps = 0

Least(a, b) == IF a < b THEN a ELSE b
Minus(a, b) == IF a < b THEN 0 ELSE a - b

-----------------------------------------------------------------------------
(* Leases *)

Due(w) == batch[w] = NoBatch /\ status = "PENDING" /\ wait = 0

\* A batch as old as its lease still has the mail: it is taken a second time.
Outlasted == \E w \in Worker : batch[w] # NoBatch /\ batch[w].age >= LeaseMinutes

\* Broken variant: the rows are read, and next_attempt_at is left as it was.
LeaseUnmarked(w) ==
  /\ Due(w)
  /\ batch' = [batch EXCEPT ![w] = [holds |-> "MAIL", age |-> 0, attempts |-> attempts]]
  /\ excused' = (IF Outlasted THEN excused + 1 ELSE excused)
  /\ UNCHANGED <<row, delivered, mishaps>>

\* UPDATE ... FOR UPDATE SKIP LOCKED: one statement reads the due rows and pushes their next attempt.
Lease(w) ==
  /\ Due(w)
  /\ wait' = LeaseMinutes
  /\ batch' = [batch EXCEPT ![w] = [holds |-> "MAIL", age |-> 0, attempts |-> attempts]]
  /\ excused' = (IF Outlasted THEN excused + 1 ELSE excused)
  /\ UNCHANGED <<status, attempts, delivered, mishaps>>

-----------------------------------------------------------------------------
(* Sending *)

\* The mail server takes the mail; the row does not say so yet.
HandOver(w) ==
  /\ batch[w].holds = "MAIL"
  /\ batch' = [batch EXCEPT ![w].holds = "SENT_MAIL"]
  /\ delivered' = delivered + 1
  /\ UNCHANGED <<row, excused, mishaps>>

\* Nothing reads the attempts and the next attempt of a sent mail: they are left out.
RecordSent(w) ==
  /\ batch[w].holds = "SENT_MAIL"
  /\ status' = "SENT" /\ attempts' = 0 /\ wait' = 0
  /\ batch' = [batch EXCEPT ![w] = NoBatch]
  /\ UNCHANGED <<delivered, excused, mishaps>>

\* Growing delays, counted from the moment the batch began.
Retry(w, tried) == wait' = Minus(Least(2^tried, MaxDelay), batch[w].age)

\* Broken variant: a failed attempt is not counted.
RecordFailureUncounted(w) == status' = "PENDING" /\ attempts' = batch[w].attempts /\ Retry(w, attempts')

\* The row is written whatever became of it since, from the attempts read with the lease.
RecordFailure(w) ==
  /\ attempts' = batch[w].attempts + 1
  /\ status' = IF attempts' >= MaxAttempts THEN "FAILED" ELSE "PENDING"
  /\ Retry(w, attempts')

\* The mail server refuses the mail, or its attachment cannot be rendered.
SendFails(w) ==
  /\ batch[w].holds = "MAIL"
  /\ RecordFailure(w)
  /\ batch' = [batch EXCEPT ![w] = NoBatch]
  /\ UNCHANGED <<delivered, excused, mishaps>>

\* The answer of the mail server is lost, or the update that records it fails.
AnswerLost(w) ==
  /\ batch[w].holds = "SENT_MAIL" /\ mishaps < MaxMishaps
  /\ mishaps' = mishaps + 1
  /\ RecordFailure(w)
  /\ batch' = [batch EXCEPT ![w] = NoBatch] /\ excused' = excused + 1
  /\ UNCHANGED delivered

\* The worker stops, or cannot record a failure either: the mail waits for the lease to end.
CrashSending(w) ==
  /\ batch[w] # NoBatch /\ mishaps < MaxMishaps
  /\ mishaps' = mishaps + 1
  /\ batch' = [batch EXCEPT ![w] = NoBatch]
  /\ excused' = (IF batch[w].holds = "SENT_MAIL" THEN excused + 1 ELSE excused)
  /\ UNCHANGED <<row, delivered>>

\* retryFailedMail: an administrator queues the failed mail again.
RetryFailedMail ==
  /\ status = "FAILED" /\ mishaps < MaxMishaps
  /\ status' = "PENDING" /\ attempts' = 0 /\ wait' = 0
  /\ mishaps' = mishaps + 1
  /\ UNCHANGED <<batch, delivered, excused>>

\* A batch older than the lease and every delay need not be told apart from a yet older one.
OldestBatch == IF LeaseMinutes < MaxDelay THEN MaxDelay ELSE LeaseMinutes

Minute ==
  /\ wait' = Minus(wait, 1)
  /\ batch' = [w \in Worker |-> IF batch[w] = NoBatch THEN NoBatch ELSE [batch[w] EXCEPT !.age = Least(@ + 1, OldestBatch)]]
  /\ UNCHANGED <<status, attempts, delivered, excused, mishaps>>

Send(w) == HandOver(w) \/ RecordSent(w) \/ SendFails(w)

MailNext ==
  \/ \E w \in Worker : Lease(w) \/ Send(w) \/ AnswerLost(w) \/ CrashSending(w)
  \/ RetryFailedMail \/ Minute

\* Time passes, mailTick runs every 30 seconds, and handing a mail to the mail server returns.
MailFairness == WF_mailVars(Minute) /\ \A w \in Worker : WF_mailVars(Lease(w)) /\ WF_mailVars(Send(w))

MailSpec == MailInit /\ [][MailNext]_mailVars /\ MailFairness

-----------------------------------------------------------------------------
(* What the outbox promises *)

OutboxTypeOK ==
  /\ status \in {"PENDING", "SENT", "FAILED"} /\ {attempts, delivered, excused} \subseteq Nat
  /\ wait \in 0..OldestBatch /\ mishaps \in 0..MaxMishaps
  /\ batch \in [Worker -> [holds : {"NOTHING", "MAIL", "SENT_MAIL"}, age : 0..OldestBatch, attempts : 0..MaxAttempts]]

\* A mail goes out once more only for a crash or a lost answer between sending and recording it, or for
\* a batch that outlasted its lease, never because several workers run (sendPendingMail); and a mail
\* marked SENT was sent, although a slow worker writes over what another one recorded.
AtMostOnce ==
  /\ OutboxTypeOK
  /\ delivered <= 1 + excused
  /\ status = "SENT" => delivered > 0

\* The mail ends up sent or marked FAILED and stays so: it is not retried for ever, although late
\* workers write old attempt counts over newer ones and put settled mail back to PENDING.
MailSettles == <>[](status \in {"SENT", "FAILED"})

-----------------------------------------------------------------------------
(* What a comment says of the program and the code does not do *)

\* mailer.js:35: "Rows are leased ... so several workers never send the same mail twice". A batch that
\* outlasts its lease is taken a second time.
NeverTwice == delivered <= 1
=============================================================================
