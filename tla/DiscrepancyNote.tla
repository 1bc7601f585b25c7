-------------------------- MODULE DiscrepancyNote --------------------------
(***************************************************************************)
(* One defect notification (DN) of a lot: the IQC In-Charge edits it and   *)
(* submits the vendor's CAPA, the IQC Head closes it or asks for another,  *)
(* files come and go, the worker reminds of an overdue CAPA, and an admin  *)
(* sets the DN back at the request of whoever took its last steps.         *)
(* backend/src/modules/dn/dn.service.js; for records of type DN,           *)
(* modules/workflow/reversal.service.js; for its files, removeAttachment   *)
(* of modules/imir/attachments.service.js.                                 *)
(*                                                                         *)
(* act, update and the reversal lock the DN's row and are one action each. *)
(* An upload computes the CAPA cycle of its file before it locks the DN, a *)
(* removal checks and never locks it, and the worker reads which DNs are   *)
(* overdue before it locks one: these are two steps.                       *)
(*                                                                         *)
(* The history holds the DN's own rows. DN_RAISE, which has no snapshot    *)
(* and so cannot be undone, is left out.                                   *)
(***************************************************************************)
EXTENDS ReversalRules, FiniteSets

CONSTANTS
  InCharge, IqcHead, Admin,   \* users with dn.manage, dn.approve_capa, workflow.reverse
  Worker,     \* instances of the worker
  File,       \* files somebody uploads as CAPA documents, each once
  MaxFiles,   \* MAX_CAPA_FILES
  MaxSteps    \* bound: history rows

None == "-"
User == InCharge \cup IqcHead

ASSUME NoteAssumption ==
  /\ None \notin User \cup Admin
  /\ MaxFiles \in Nat /\ MaxSteps \in Nat

VARIABLES
  dn,        \* status, and whether a CAPA applies
  capas,     \* the review decision of each CAPA cycle
  late,      \* whether three days have passed since dn_date
  reminded,  \* whether the last reminder is less than two days old
  page,      \* per user: the DN as last loaded, and whether its row_version is still the row's
  files,     \* per file: the CAPA cycle in its row, 0 before it is uploaded and after it is removed
  pending,   \* per file: the upload or removal under way
  reading,   \* the workers that have read the DN as overdue and not yet handled it
  history,   \* the DN's steps
  request    \* the pending reversal request

timeVars == <<late, reminded, reading>>
fileVars == <<files, pending>>
vars == <<dn, capas, page, history, request, timeVars, fileVars>>

NoRequest == [by |-> None, status |-> None]
NoPage == [status |-> None, applicable |-> FALSE, cycles |-> 0, fresh |-> FALSE]
NotAsked == [op |-> "ADD", cycle |-> 0]     \* before the upload
AtRest == [op |-> None, cycle |-> 0]

NextCycle == Len(capas) + 1
LatestOf(c) == IF c = <<>> THEN None ELSE c[Len(c)]

\* capa_due_at is set, to dn_date + 3 days, exactly while a CAPA applies.
Overdue == dn.status = "OPEN" /\ dn.applicable /\ late /\ ~reminded

\* Every update of the row bumps row_version.
Touched == page' = [u \in User |-> [page[u] EXCEPT !.fresh = FALSE]]

Logged(action, actor, to) ==
  /\ Len(history) < MaxSteps
  /\ history' = Append(history, [action |-> action, actor |-> actor, to |-> to, undone |-> 0,
       before |-> [status |-> dn.status, cycles |-> Len(capas), latest |-> LatestOf(capas)]])

\* The reminder's row. No rule tells one from several in a row, nor misses the last at the bound.
LoggedReminder ==
  IF Len(history) = MaxSteps \/ (history # <<>> /\ history[Len(history)].action = "CAPA_REMINDER")
  THEN UNCHANGED history
  ELSE Logged("CAPA_REMINDER", Timer, None)

Init ==
  /\ dn = [status |-> "OPEN", applicable |-> TRUE]
  /\ capas = <<>> /\ history = <<>>
  /\ late = FALSE /\ reminded = FALSE /\ reading = {}
  /\ page = [u \in User |-> NoPage]
  /\ files = [f \in File |-> 0] /\ pending = [f \in File |-> NotAsked]
  /\ request = NoRequest

-----------------------------------------------------------------------------
(* The In-Charge and the IQC Head *)

LoadPage(u) ==
  /\ page' = [page EXCEPT ![u] = [status |-> dn.status, applicable |-> dn.applicable,
                                  cycles |-> Len(capas), fresh |-> TRUE]]
  /\ UNCHANGED <<dn, capas, history, request, timeVars, fileVars>>

\* update: no step of the history. Texts and quantities change nothing that is looked at here.
Update(u, applicable) ==
  /\ u \in InCharge /\ dn.status = "OPEN" /\ page[u].fresh
  /\ dn' = [dn EXCEPT !.applicable = applicable]
  /\ Touched
  /\ UNCHANGED <<capas, history, request, timeVars, fileVars>>

\* Broken variant: the row_version of the page is not looked at.
ActOnAnyPage(u, from, who) == dn.status = from /\ u \in who

\* What act asks of every action.
MayAct(u, from, who) == dn.status = from /\ u \in who /\ page[u].fresh

SubmitCapa(u) ==
  /\ MayAct(u, "OPEN", InCharge)
  /\ dn' = [dn EXCEPT !.status = "CAPA_SUBMITTED"]
  /\ capas' = IF dn.applicable THEN Append(capas, None) ELSE capas
  /\ Logged("DN_SUBMIT_CAPA", u, "CAPA_SUBMITTED")
  /\ Touched
  /\ UNCHANGED <<request, timeVars, fileVars>>

\* reviewLatest: a cycle that has been reviewed, or none, is left alone.
ReviewLatest(decision) ==
  capas' = IF Len(capas) > 0 /\ LatestOf(capas) = None
           THEN [capas EXCEPT ![Len(capas)] = decision] ELSE capas

ApproveCapa(u) ==
  /\ MayAct(u, "CAPA_SUBMITTED", IqcHead)
  /\ ReviewLatest("APPROVED")
  /\ dn' = [dn EXCEPT !.status = "CLOSED"]
  /\ Logged("DN_CLOSE", u, "CLOSED")
  /\ Touched
  /\ UNCHANGED <<request, timeVars, fileVars>>

Resubmit(u) ==
  /\ MayAct(u, "CAPA_SUBMITTED", IqcHead)
  /\ ReviewLatest("RESUBMIT")
  /\ dn' = [dn EXCEPT !.status = "OPEN"]
  /\ Logged("DN_RESUBMIT", u, "OPEN")
  /\ Touched
  /\ UNCHANGED <<request, timeVars, fileVars>>

-----------------------------------------------------------------------------
(* CAPA files *)

AskAdd(f) ==
  /\ pending[f] = NotAsked /\ dn.status = "OPEN"
  /\ Cardinality({g \in File : files[g] = NextCycle}) < MaxFiles
  /\ pending' = [pending EXCEPT ![f].cycle = NextCycle]
  /\ UNCHANGED <<dn, capas, page, history, request, timeVars, files>>

\* The file is stored; now the DN is locked and must be open, else the request is refused. The cycle
\* is the one computed before.
AddFile(f) ==
  /\ pending[f].op = "ADD" /\ pending[f].cycle # 0
  /\ files' = IF dn.status = "OPEN" THEN [files EXCEPT ![f] = pending[f].cycle] ELSE files
  /\ pending' = [pending EXCEPT ![f] = AtRest]
  /\ UNCHANGED <<dn, capas, page, history, request, timeVars>>

\* assertCanRemoveFile: only of the cycle not yet sent.
AskRemove(f) ==
  /\ pending[f] = AtRest /\ dn.status = "OPEN" /\ files[f] = NextCycle
  /\ pending' = [pending EXCEPT ![f] = [op |-> "REMOVE", cycle |-> files[f]]]
  /\ UNCHANGED <<dn, capas, page, history, request, timeVars, files>>

RemoveFile(f) ==
  /\ pending[f].op = "REMOVE"
  /\ files' = [files EXCEPT ![f] = 0]
  /\ pending' = [pending EXCEPT ![f] = AtRest]
  /\ UNCHANGED <<dn, capas, page, history, request, timeVars>>

-----------------------------------------------------------------------------
(* Time and the worker *)

ThreeDaysPass == ~late /\ late' = TRUE /\ UNCHANGED <<dn, capas, page, history, request, reminded, reading, fileVars>>

TwoDaysPass == reminded /\ reminded' = FALSE /\ UNCHANGED <<dn, capas, page, history, request, late, reading, fileVars>>

\* Broken variant: only before the CAPA is due.
ReadDue(w) ==
  /\ w \notin reading /\ dn.status = "OPEN" /\ dn.applicable /\ ~late /\ ~reminded
  /\ reading' = reading \cup {w}
  /\ UNCHANGED <<dn, capas, page, history, request, late, reminded, fileVars>>

ReadOverdue(w) ==
  /\ w \notin reading /\ Overdue
  /\ reading' = reading \cup {w}
  /\ UNCHANGED <<dn, capas, page, history, request, late, reminded, fileVars>>

\* Under the lock only the status is looked at again.
Remind(w) ==
  /\ w \in reading /\ reading' = reading \ {w}
  /\ IF dn.status = "OPEN"
     THEN reminded' = TRUE /\ Touched /\ LoggedReminder
     ELSE UNCHANGED <<reminded, page, history>>
  /\ UNCHANGED <<dn, capas, request, late, fileVars>>

-----------------------------------------------------------------------------
(* Reversal *)

\* Broken variant: steps others have acted after.
OptionsOfAllSteps(u) == {s \in AllStepsOf(history, u) : history[s].action # "CAPA_REMINDER"}

\* Reminders keep no snapshot.
Options(u) == {s \in OwnSteps(history, u) : history[s].action # "CAPA_REMINDER"}

Request(u) ==
  /\ request = NoRequest /\ Options(u) # {}
  /\ request' = [by |-> u, status |-> dn.status]
  /\ UNCHANGED <<dn, capas, page, history, timeVars, fileVars>>

CloseRequest ==
  /\ request # NoRequest /\ request' = NoRequest
  /\ UNCHANGED <<dn, capas, page, history, timeVars, fileVars>>

\* Broken variant: the review of the latest cycle is not taken back.
RestoreStatus(b) ==
  /\ capas' = SubSeq(capas, 1, b.cycles)
  /\ dn' = [dn EXCEPT !.status = b.status]

\* Cycles submitted since are deleted; capa_applicable is not in the snapshot.
RestoreDn(b) ==
  /\ capas' = [c \in 1..b.cycles |-> IF c = b.cycles THEN b.latest ELSE capas[c]]
  /\ dn' = [dn EXCEPT !.status = b.status]

ApproveReversal(admin, step) ==
  /\ request # NoRequest /\ dn.status = request.status
  /\ step \in Options(request.by)
  /\ RestoreDn(history[step].before)
  /\ Len(history) < MaxSteps
  /\ history' = Append(history, [action |-> "REVERSED", actor |-> admin, to |-> dn'.status,
                                 undone |-> step, before |-> history[step].before])
  /\ request' = NoRequest
  /\ Touched
  /\ UNCHANGED <<timeVars, fileVars>>

-----------------------------------------------------------------------------
UserNext ==
  \E u \in User :
    \/ LoadPage(u) \/ SubmitCapa(u) \/ ApproveCapa(u) \/ Resubmit(u)
    \/ \E applicable \in BOOLEAN : Update(u, applicable)

FileNext == \E f \in File : AskAdd(f) \/ AddFile(f) \/ AskRemove(f) \/ RemoveFile(f)

WorkerNext == ThreeDaysPass \/ TwoDaysPass \/ \E w \in Worker : ReadOverdue(w) \/ Remind(w)

ReversalNext ==
  \/ \E u \in User : Request(u)
  \/ CloseRequest
  \/ \E admin \in Admin, step \in DOMAIN history : ApproveReversal(admin, step)

Next == UserNext \/ FileNext \/ WorkerNext \/ ReversalNext

\* The worker's timers run every five minutes.
WorkerFairness ==
  /\ WF_vars(ThreeDaysPass) /\ WF_vars(TwoDaysPass)
  /\ \A w \in Worker : WF_vars(ReadOverdue(w)) /\ WF_vars(Remind(w))

Spec == Init /\ [][Next]_vars /\ WorkerFairness

-----------------------------------------------------------------------------
(* What the DN promises *)

Status == {"OPEN", "CAPA_SUBMITTED", "CLOSED"}
Review == {None, "APPROVED", "RESUBMIT"}

\* Every column and request holds a value the code can put there.
DnTypeOK ==
  /\ dn \in [status : Status, applicable : BOOLEAN]
  /\ capas \in Seq(Review) /\ Len(capas) <= MaxSteps
  /\ late \in BOOLEAN /\ reminded \in BOOLEAN /\ reading \subseteq Worker
  /\ \A u \in User : page[u] \in [status : Status \cup {None}, applicable : BOOLEAN, cycles : 0..MaxSteps, fresh : BOOLEAN]
  /\ files \in [File -> 0..MaxSteps + 1]
  /\ pending \in [File -> [op : {None, "ADD", "REMOVE"}, cycle : 0..MaxSteps + 1]]
  /\ Len(history) <= MaxSteps
  /\ request \in [by : User, status : Status] \cup {NoRequest}

\* Whatever was submitted, sent back, undone and redone: a CAPA cycle awaits its review only while
\* it is the latest and the DN is with the IQC Head, and is approved only as the latest of a closed
\* DN (act, reviewLatest, restoreDn).
ReviewsFollowStatus ==
  /\ DnTypeOK
  /\ \A c \in DOMAIN capas :
       /\ capas[c] = None => c = Len(capas) /\ dn.status = "CAPA_SUBMITTED"
       /\ capas[c] = "APPROVED" => c = Len(capas) /\ dn.status = "CLOSED"

\* Whoever closes the DN or sends it back had its present cycles on the page, although the CAPA may
\* have been sent back, changed and submitted again, or undone, since somebody loaded it (rowVersion).
InformedCapaReview ==
  [][\A u \in IqcHead : ApproveCapa(u) \/ Resubmit(u) =>
       page[u].status = dn.status /\ page[u].applicable = dn.applicable /\ page[u].cycles = Len(capas)]_vars

\* A reversal takes back submissions and reviews of the user who asked for it and of nobody else,
\* although others may have sent back, submitted again or closed between the request and its approval
\* and the DN be in the same status again; the worker's reminders do not stand in its way
\* (ownOptions, read again at the approval).
OthersStepsStand ==
  [][\A s \in EffectiveSteps(history) \ EffectiveSteps(history') :
        history[s].actor \in {Timer, request.by}]_vars

\* An overdue CAPA is reminded of, again every two days, unless it is submitted or does not apply
\* any more; whatever the worker had read before (runCapaReminders).
OverdueCapaReminded == Overdue ~> ~Overdue

-----------------------------------------------------------------------------
(* What a comment says of the program and the code does not do *)

\* "the record is set back to its state just before the chosen step": a DN was sent to the IQC Head
\* with a CAPA if one applies, and is closed with an approved one.
CapaWhereItApplies ==
  /\ dn.status # "OPEN" /\ dn.applicable => capas # <<>>
  /\ dn.status = "CLOSED" /\ dn.applicable => LatestOf(capas) = "APPROVED"

\* "Safe to run on several instances": a DN is not reminded of again within two days.
RemindersTwoDaysApart ==
  [][\A w \in Worker : Remind(w) /\ dn.status = "OPEN" => ~reminded]_vars

\* "part of a submitted CAPA and is kept as evidence": the files of a submitted cycle stay.
SubmittedEvidenceKept ==
  [][\A f \in File : files[f] \in 1..Len(capas) => files'[f] = files[f]]_vars

\* "CAPA documents (photos or PDF, for the next CAPA cycle)": an upload that began before the DN was
\* submitted and ends when it is open again joins the cycle already reviewed.
FilesJoinTheNextCycle ==
  [][\A f \in File : files[f] = 0 /\ files'[f] # 0 => files'[f] = NextCycle]_vars

\* "At most MAX_CAPA_FILES CAPA files per submission": uploads at the same moment all count the files
\* before any of them is added.
AtMostMaxFiles ==
  \A c \in 1..MaxSteps : Cardinality({f \in File : files[f] = c}) <= MaxFiles
=============================================================================
