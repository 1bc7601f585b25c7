------------------------ MODULE DiscrepancyNoteProofs ------------------------
(***************************************************************************)
(* Theorems of DiscrepancyNote, for any users, workers, files and bounds   *)
(* on files and steps.                                                     *)
(*                                                                         *)
(* That reviews follow the status is not inductive: a reversal takes the   *)
(* DN back to what a row of the history has kept of it. HistoryInv says of *)
(* every row that what it kept was in order, and of the steps in effect    *)
(* that later ones were taken with no fewer CAPA cycles: all of a row's    *)
(* cycles are then still there, and the ones before its last were sent     *)
(* back, as the present ones are.                                          *)
(***************************************************************************)
EXTENDS DiscrepancyNote, ReversalRulesProofs

-----------------------------------------------------------------------------
(* The inductive invariant *)

Snapshot == [status : Status, cycles : Nat, latest : Review]

NoteRow ==
  [action : {"DN_SUBMIT_CAPA", "DN_CLOSE", "DN_RESUBMIT", "CAPA_REMINDER", "REVERSED"},
   actor : User \cup Admin \cup {Timer}, to : Status \cup {None}, undone : Nat, before : Snapshot]

\* The last of some cycles is under review or approved with the DN only.
LatestFollows(status, cycles, latest) ==
  cycles > 0 =>
    /\ latest = None => status = "CAPA_SUBMITTED"
    /\ latest = "APPROVED" => status = "CLOSED"

SentBackBefore(c) == \A n \in DOMAIN c : n < Len(c) => c[n] = "RESUBMIT"

CapaInv ==
  /\ dn \in [status : Status, applicable : BOOLEAN] /\ capas \in Seq(Review)
  /\ SentBackBefore(capas) /\ LatestFollows(dn.status, Len(capas), LatestOf(capas))

CyclesGrow(h, steps) == \A s, t \in steps : s <= t => h[s].before.cycles <= h[t].before.cycles

HistoryInv ==
  /\ history \in Seq(NoteRow) /\ Len(capas) <= Len(history) /\ Len(history) <= MaxSteps
  /\ \A s \in DOMAIN history :
       LET b == history[s].before IN LatestFollows(b.status, b.cycles, b.latest)
  /\ \A s \in EffectiveSteps(history) : history[s].before.cycles <= Len(capas)
  /\ CyclesGrow(history, EffectiveSteps(history))

\* A page whose row_version is still the row's shows the DN as it is.
FreshPageIsCurrent ==
  \A u \in User :
    page[u].fresh => page[u].status = dn.status /\ page[u].applicable = dn.applicable /\ page[u].cycles = Len(capas)

PageState ==
  [status : Status \cup {None}, applicable : BOOLEAN, cycles : 0..MaxSteps, fresh : BOOLEAN]

\* The rest of the row, the requests and the worker.
RestInv ==
  /\ late \in BOOLEAN /\ reminded \in BOOLEAN /\ reading \subseteq Worker
  /\ page \in [User -> PageState] /\ FreshPageIsCurrent
  /\ files \in [File -> 0..MaxSteps + 1]
  /\ pending \in [File -> [op : {None, "ADD", "REMOVE"}, cycle : 0..MaxSteps + 1]]
  /\ request \in [by : User, status : Status] \cup {NoRequest}

NoteInv == CapaInv /\ HistoryInv /\ RestInv

-----------------------------------------------------------------------------
(* CAPA cycles and history *)

LEMMA LatestIsAReview ==
  ASSUME NEW c \in Seq(Review)
  PROVE  /\ LatestOf(c) \in Review
         /\ Len(c) > 0 => LatestOf(c) = c[Len(c)]
  BY DEF LatestOf, Review

\* A row that is appended keeps the DN as it is; the step it stands for deletes no cycle.
LEMMA LoggedKeeps ==
  ASSUME CapaInv, HistoryInv, NEW action, NEW actor \in User \cup {Timer}, NEW to \in Status \cup {None},
         action \in {"DN_SUBMIT_CAPA", "DN_CLOSE", "DN_RESUBMIT", "CAPA_REMINDER"},
         Logged(action, actor, to), Len(capas') \in Len(capas)..(Len(capas) + 1)
  PROVE  HistoryInv'
<1> DEFINE b == [status |-> dn.status, cycles |-> Len(capas), latest |-> LatestOf(capas)]
           row == [action |-> action, actor |-> actor, to |-> to, undone |-> 0, before |-> b]
           steps == EffectiveSteps(history)
           last == Len(history) + 1
<1>1. b \in Snapshot /\ LatestFollows(b.status, b.cycles, b.latest)
  BY LatestIsAReview DEF CapaInv, Snapshot
<1>2. row \in NoteRow /\ row.action # "REVERSED" /\ row.before = b
  <2> HIDE DEF b
  <2> QED BY <1>1 DEF NoteRow
<1>3. /\ history \in Seq(NoteRow) /\ history' = Append(history, row) /\ Len(history) < MaxSteps
      /\ Len(history) \in Nat /\ Len(capas) \in Nat /\ Len(capas) <= Len(history)
  BY DEF HistoryInv, Logged, CapaInv
<1>4. b.cycles = Len(capas)
  OBVIOUS
<1> HIDE DEF row, b
<1>5. /\ history' \in Seq(NoteRow) /\ Len(history') = last /\ DOMAIN history' = DOMAIN history \cup {last}
      /\ history'[last] = row /\ \A s \in DOMAIN history : history'[s] = history[s] /\ s < last
  BY <1>2, <1>3
<1>6. EffectiveSteps(history') = steps \cup {last} /\ steps \subseteq DOMAIN history
  BY <1>2, <1>3, EffectiveAfterStep, EffectiveAreSteps
<1> HIDE DEF steps
<1>7. \A s \in steps : history[s].before.cycles <= Len(capas)
  BY DEF HistoryInv, steps
<1>8. ASSUME NEW s \in DOMAIN history PROVE history[s].before.cycles \in Nat
  <2>1. history[s] \in NoteRow
    BY <1>3
  <2> QED BY <2>1 DEF NoteRow, Snapshot
<1>9. \A s \in steps \cup {last} : history'[s].before.cycles <= Len(capas')
  BY <1>2, <1>3, <1>4, <1>5, <1>6, <1>7, <1>8
<1>10. CyclesGrow(history', steps \cup {last})
  <2>1. CyclesGrow(history, steps)
    BY DEF HistoryInv, steps
  <2> QED BY <1>2, <1>3, <1>4, <1>5, <1>6, <1>7, <2>1 DEF CyclesGrow
<1>11. ASSUME NEW s \in DOMAIN history'
       PROVE  LET a == history'[s].before IN LatestFollows(a.status, a.cycles, a.latest)
  BY <1>1, <1>2, <1>5 DEF HistoryInv
<1>12. Len(capas') <= last /\ last <= MaxSteps
  BY <1>3, NoteAssumption
<1> QED BY <1>5, <1>6, <1>9, <1>10, <1>11, <1>12 DEF HistoryInv

LEMMA SubmitKeeps ==
  ASSUME CapaInv, HistoryInv, NEW u \in User, SubmitCapa(u)
  PROVE  CapaInv' /\ HistoryInv'
<1>1. /\ dn.status = "OPEN" /\ dn' = [dn EXCEPT !.status = "CAPA_SUBMITTED"]
      /\ Logged("DN_SUBMIT_CAPA", u, "CAPA_SUBMITTED")
      /\ capas' = Append(capas, None) \/ capas' = capas
  BY DEF SubmitCapa, MayAct
<1>2. capas \in Seq(Review) /\ Len(capas) \in Nat /\ None \in Review
  BY DEF CapaInv, Review
<1>3. \A n \in DOMAIN capas : capas[n] = "RESUBMIT"
  <2>1. Len(capas) > 0 => LatestOf(capas) = "RESUBMIT"
    BY <1>1, <1>2, LatestIsAReview DEF CapaInv, LatestFollows, Review
  <2> QED BY <1>2, <2>1, LatestIsAReview DEF CapaInv, SentBackBefore
<1>4. /\ dn' \in [status : Status, applicable : BOOLEAN] /\ dn'.status = "CAPA_SUBMITTED"
  BY <1>1 DEF CapaInv, Status
<1>5. capas' \in Seq(Review) /\ Len(capas') \in Len(capas)..(Len(capas) + 1)
  <2> HIDE DEF Review
  <2> QED BY <1>1, <1>2
<1>6. SentBackBefore(capas')
  BY <1>1, <1>2, <1>3 DEF SentBackBefore
<1>7. LatestOf(capas') # "APPROVED"
  BY <1>1, <1>2, <1>3, <1>5, LatestIsAReview DEF LatestOf, None
<1>8. CapaInv'
  BY <1>4, <1>5, <1>6, <1>7 DEF CapaInv, LatestFollows
<1>9. HistoryInv'
  BY <1>1, <1>5, LoggedKeeps DEF Status
<1> QED BY <1>8, <1>9

\* What a review makes of the cycles of a DN that is with the IQC Head.
LEMMA ReviewKeeps ==
  ASSUME CapaInv, HistoryInv, NEW u \in User,
         dn.status = "CAPA_SUBMITTED",
         NEW decision, NEW action, NEW to,
         \/ decision = "APPROVED" /\ action = "DN_CLOSE" /\ to = "CLOSED"
         \/ decision = "RESUBMIT" /\ action = "DN_RESUBMIT" /\ to = "OPEN",
         ReviewLatest(decision), dn' = [dn EXCEPT !.status = to], Logged(action, u, to)
  PROVE  CapaInv' /\ HistoryInv'
<1>1. capas \in Seq(Review) /\ Len(capas) \in Nat /\ decision \in Review /\ to \in Status
  BY DEF CapaInv, Review, Status
<1>2. dn' \in [status : Status, applicable : BOOLEAN] /\ dn'.status = to
  BY <1>1 DEF CapaInv
<1>3. /\ capas' \in Seq(Review) /\ Len(capas') = Len(capas) /\ DOMAIN capas' = DOMAIN capas
      /\ \A n \in DOMAIN capas : n < Len(capas) => capas'[n] = capas[n]
      /\ Len(capas) > 0 => LatestOf(capas') \in {"RESUBMIT", decision}
  <2>1. CASE Len(capas) > 0 /\ LatestOf(capas) = None
    <3>1. capas' = [capas EXCEPT ![Len(capas)] = decision]
      BY <2>1 DEF ReviewLatest
    <3>2. /\ capas' \in Seq(Review) /\ Len(capas') = Len(capas) /\ DOMAIN capas' = DOMAIN capas
          /\ \A n \in DOMAIN capas : n < Len(capas) => capas'[n] = capas[n]
          /\ capas'[Len(capas)] = decision
      <4> HIDE DEF Review
      <4> QED BY <1>1, <2>1, <3>1
    <3> QED BY <2>1, <3>2, LatestIsAReview
  <2>2. CASE ~(Len(capas) > 0 /\ LatestOf(capas) = None)
    <3>1. capas' = capas
      BY <2>2 DEF ReviewLatest
    <3>2. Len(capas) > 0 => LatestOf(capas) = "RESUBMIT"
      BY <1>1, <2>2, LatestIsAReview DEF CapaInv, LatestFollows, Review
    <3> QED BY <1>1, <3>1, <3>2
  <2> QED BY <2>1, <2>2
<1>4. CapaInv'
  BY <1>2, <1>3 DEF CapaInv, SentBackBefore, LatestFollows, None
<1>5. HistoryInv'
  BY <1>1, <1>3, LoggedKeeps
<1> QED BY <1>4, <1>5

\* The cycles of the row's snapshot are all there, and all but its last were sent back.
LEMMA ReversalKeeps ==
  ASSUME CapaInv, HistoryInv, NEW admin \in Admin, NEW step \in DOMAIN history, ApproveReversal(admin, step)
  PROVE  CapaInv' /\ HistoryInv'
<1> DEFINE b == history[step].before
           row == [action |-> "REVERSED", actor |-> admin, to |-> dn'.status, undone |-> step, before |-> b]
           steps == EffectiveSteps(history)
           kept == {s \in steps : s < step}
<1>1. /\ step \in steps /\ Len(history) < MaxSteps /\ history' = Append(history, row)
      /\ dn' = [dn EXCEPT !.status = b.status]
      /\ capas' = [c \in 1..b.cycles |-> IF c = b.cycles THEN b.latest ELSE capas[c]]
  BY DEF ApproveReversal, Options, OwnSteps, RestoreDn
<1>2. /\ history \in Seq(NoteRow) /\ capas \in Seq(Review) /\ Len(capas) \in Nat /\ Len(history) \in Nat
      /\ Len(capas) <= Len(history)
      /\ LatestFollows(b.status, b.cycles, b.latest) /\ b.cycles <= Len(capas)
      /\ \A s \in kept : history[s].before.cycles <= b.cycles
  BY <1>1, EffectiveAreSteps DEF HistoryInv, CapaInv, CyclesGrow
<1>3. b \in Snapshot
  <2>1. history[step] \in NoteRow
    BY <1>2
  <2> QED BY <2>1 DEF NoteRow
<1> HIDE DEF b
<1>4. b.cycles \in Nat /\ b.latest \in Review /\ b.status \in Status
  BY <1>3 DEF Snapshot
<1>5. dn' \in [status : Status, applicable : BOOLEAN] /\ dn'.status = b.status
  BY <1>1, <1>4 DEF CapaInv
<1>6. /\ capas' \in Seq(Review) /\ Len(capas') = b.cycles /\ SentBackBefore(capas')
      /\ b.cycles > 0 => LatestOf(capas') = b.latest
  <2>1. \A c \in 1..b.cycles : c < b.cycles => capas[c] = "RESUBMIT"
    BY <1>2, <1>4 DEF CapaInv, SentBackBefore
  <2>2. "RESUBMIT" \in Review
    BY DEF Review
  <2>3. /\ capas' \in Seq(Review) /\ Len(capas') = b.cycles
        /\ b.cycles > 0 => capas'[b.cycles] = b.latest
    <3>1. capas' \in [1..b.cycles -> Review]
      BY <1>1, <1>4, <2>1, <2>2
    <3>2. capas' \in Seq(Review) /\ DOMAIN capas' = 1..b.cycles
      <4> HIDE DEF Review
      <4> QED BY <1>4, <3>1
    <3>3. Len(capas') \in Nat /\ 1..Len(capas') = 1..b.cycles
      <4> HIDE DEF Review
      <4> QED BY <3>2
    <3>4. Len(capas') = b.cycles
      BY <1>4, <3>3
    <3> QED BY <1>1, <1>4, <3>2, <3>4
  <2>4. SentBackBefore(capas')
    BY <1>1, <1>4, <2>1, <2>3 DEF SentBackBefore
  <2> QED BY <2>3, <2>4, LatestIsAReview
<1>7. CapaInv'
  BY <1>2, <1>4, <1>5, <1>6 DEF CapaInv, LatestFollows
<1>8. row \in NoteRow /\ row.action = "REVERSED" /\ row.undone = step /\ row.before = b
  BY <1>2, <1>3, <1>4, <1>5 DEF NoteRow
<1> HIDE DEF row
<1>9. EffectiveSteps(history') = kept
  BY <1>1, <1>2, <1>8, EffectiveAfterReversal
<1>10. /\ history' \in Seq(NoteRow) /\ Len(history') = Len(history) + 1
       /\ DOMAIN history' = DOMAIN history \cup {Len(history) + 1}
       /\ history'[Len(history) + 1] = row /\ \A s \in DOMAIN history : history'[s] = history[s]
  BY <1>1, <1>2, <1>8
<1>11. \A s \in kept : s \in DOMAIN history
  BY <1>2, EffectiveAreSteps
<1>12. \A s \in kept : history'[s].before.cycles <= Len(capas')
  BY <1>2, <1>6, <1>10, <1>11
<1>13. CyclesGrow(history', kept)
  BY <1>10, <1>11 DEF HistoryInv, CyclesGrow
<1>14. ASSUME NEW s \in DOMAIN history'
       PROVE  LET a == history'[s].before IN LatestFollows(a.status, a.cycles, a.latest)
  BY <1>2, <1>8, <1>10 DEF HistoryInv
<1> HIDE DEF kept
<1>15. Len(capas') <= Len(history') /\ Len(history') <= MaxSteps
  BY <1>1, <1>2, <1>4, <1>6, <1>10, NoteAssumption
<1>16. HistoryInv'
  BY <1>9, <1>10, <1>12, <1>13, <1>14, <1>15 DEF HistoryInv
<1> QED BY <1>7, <1>16

-----------------------------------------------------------------------------
(* Pages, files, worker and requests *)

LEMMA TouchedPages ==
  ASSUME page \in [User -> PageState], Touched
  PROVE  page' \in [User -> PageState] /\ FreshPageIsCurrent'
  BY DEF Touched, PageState, FreshPageIsCurrent

LEMMA RestKept ==
  ASSUME CapaInv, HistoryInv, RestInv, [Next]_vars
  PROVE  RestInv'
<1> USE DEF timeVars, fileVars
<1>0. /\ page \in [User -> PageState] /\ Len(capas) \in 0..MaxSteps /\ NextCycle \in 0..MaxSteps + 1
      /\ dn.status \in Status /\ dn.applicable \in BOOLEAN
      /\ files \in [File -> 0..MaxSteps + 1]
      /\ pending \in [File -> [op : {None, "ADD", "REMOVE"}, cycle : 0..MaxSteps + 1]]
  BY NoteAssumption DEF RestInv, CapaInv, HistoryInv, NextCycle
<1>1. ASSUME page' = page, dn' = dn, capas' = capas PROVE page' \in [User -> PageState] /\ FreshPageIsCurrent'
  BY <1>1 DEF RestInv, FreshPageIsCurrent
<1>2. CASE UNCHANGED vars
  BY <1>1, <1>2 DEF vars, RestInv
<1>3. ASSUME NEW u \in User, LoadPage(u) PROVE RestInv'
  <2>1. [status |-> dn.status, applicable |-> dn.applicable, cycles |-> Len(capas), fresh |-> TRUE] \in PageState
    BY <1>0 DEF PageState
  <2>2. page' \in [User -> PageState]
    <3> HIDE DEF PageState
    <3> QED BY <1>0, <1>3, <2>1 DEF LoadPage
  <2>3. FreshPageIsCurrent'
    BY <1>0, <1>3 DEF LoadPage, RestInv, FreshPageIsCurrent
  <2> QED BY <1>3, <2>2, <2>3 DEF LoadPage, RestInv
<1>4. ASSUME NEW u \in User, SubmitCapa(u) \/ ApproveCapa(u) \/ Resubmit(u) \/ \E on \in BOOLEAN : Update(u, on)
      PROVE  RestInv'
  BY <1>0, <1>4, TouchedPages DEF SubmitCapa, ApproveCapa, Resubmit, Update, RestInv
<1>5. ASSUME NEW f \in File, AskAdd(f) \/ AddFile(f) \/ AskRemove(f) \/ RemoveFile(f) PROVE RestInv'
  <2>1. UNCHANGED <<page, dn, capas, request, late, reminded, reading>>
    BY <1>5 DEF AskAdd, AddFile, AskRemove, RemoveFile
  <2>2. files' \in [File -> 0..MaxSteps + 1]
    <3>1. files' \in {files, [files EXCEPT ![f] = 0], [files EXCEPT ![f] = pending[f].cycle]}
      BY <1>5 DEF AskAdd, AddFile, AskRemove, RemoveFile
    <3>2. pending[f].cycle \in 0..MaxSteps + 1 /\ 0 \in 0..MaxSteps + 1
      BY <1>0, NoteAssumption
    <3> QED BY <1>0, <3>1, <3>2
  <2>3. pending' \in [File -> [op : {None, "ADD", "REMOVE"}, cycle : 0..MaxSteps + 1]]
    <3>1. \/ pending' = [pending EXCEPT ![f].cycle = NextCycle]
          \/ pending' = [pending EXCEPT ![f] = AtRest]
          \/ pending' = [pending EXCEPT ![f] = [op |-> "REMOVE", cycle |-> files[f]]]
      BY <1>5 DEF AskAdd, AddFile, AskRemove, RemoveFile
    <3>2. files[f] \in 0..MaxSteps + 1 /\ 0 \in 0..MaxSteps + 1
      BY <1>0, NoteAssumption
    <3>3. CASE pending' = [pending EXCEPT ![f].cycle = NextCycle]
      BY <1>0, <3>3
    <3>4. ASSUME NEW op \in {None, "REMOVE"}, NEW cycle \in {0, files[f]},
                 pending' = [pending EXCEPT ![f] = [op |-> op, cycle |-> cycle]]
          PROVE  pending' \in [File -> [op : {None, "ADD", "REMOVE"}, cycle : 0..MaxSteps + 1]]
      BY <1>0, <3>2, <3>4
    <3> QED BY <3>1, <3>3, <3>4 DEF AtRest
  <2> QED BY <1>1, <2>1, <2>2, <2>3 DEF RestInv
<1>6. CASE ThreeDaysPass \/ TwoDaysPass \/ \E w \in Worker : ReadOverdue(w)
  BY <1>1, <1>6 DEF ThreeDaysPass, TwoDaysPass, ReadOverdue, RestInv
<1>7. ASSUME NEW w \in Worker, Remind(w) PROVE RestInv'
  <2>1. page' \in [User -> PageState] /\ FreshPageIsCurrent'
    BY <1>0, <1>1, <1>7, TouchedPages DEF Remind
  <2> QED BY <1>7, <2>1 DEF Remind, RestInv
<1>8. ASSUME NEW u \in User, Request(u) PROVE RestInv'
  BY <1>0, <1>1, <1>8 DEF Request, RestInv
<1>9. CASE CloseRequest
  BY <1>1, <1>9 DEF CloseRequest, RestInv
<1>10. ASSUME NEW admin \in Admin, NEW step \in DOMAIN history, ApproveReversal(admin, step) PROVE RestInv'
  BY <1>0, <1>10, TouchedPages DEF ApproveReversal, RestInv
<1> QED
  BY <1>2, <1>3, <1>4, <1>5, <1>6, <1>7, <1>8, <1>9, <1>10
  DEF Next, UserNext, FileNext, WorkerNext, ReversalNext

-----------------------------------------------------------------------------
(* The invariant is established and kept *)

LEMMA NoteInit == Init => NoteInv
<1> SUFFICES ASSUME Init PROVE NoteInv
  OBVIOUS
<1>1. CapaInv
  BY DEF Init, CapaInv, Status, SentBackBefore, LatestFollows
<1>2. HistoryInv
  BY EffectiveOfNone, NoteAssumption DEF Init, HistoryInv, CyclesGrow
<1>3. NoPage \in PageState /\ NoPage.fresh = FALSE
  BY NoteAssumption DEF PageState, NoPage
<1>4. NotAsked \in [op : {None, "ADD", "REMOVE"}, cycle : 0..MaxSteps + 1] /\ 0 \in 0..MaxSteps + 1
  BY NoteAssumption DEF NotAsked
<1>5. RestInv
  BY <1>3, <1>4 DEF Init, RestInv, FreshPageIsCurrent
<1> QED BY <1>1, <1>2, <1>5 DEF NoteInv

\* Steps that log nothing leave the CAPA cycles and the status.
LEMMA UnloggedKeeps ==
  ASSUME CapaInv, HistoryInv, UNCHANGED <<capas, history>>,
         dn' = dn \/ \E applicable \in BOOLEAN : dn' = [dn EXCEPT !.applicable = applicable]
  PROVE  CapaInv' /\ HistoryInv'
  BY DEF CapaInv, HistoryInv, LatestFollows, LatestOf, SentBackBefore, CyclesGrow

LEMMA NoteStep == NoteInv /\ [Next]_vars => NoteInv'
<1> SUFFICES ASSUME CapaInv, HistoryInv, RestInv, [Next]_vars PROVE CapaInv' /\ HistoryInv'
  BY RestKept DEF NoteInv
<1>1. ASSUME NEW u \in User, SubmitCapa(u) PROVE CapaInv' /\ HistoryInv'
  BY <1>1, SubmitKeeps
<1>2. ASSUME NEW u \in User, ApproveCapa(u) PROVE CapaInv' /\ HistoryInv'
  BY <1>2, ReviewKeeps DEF ApproveCapa, MayAct
<1>3. ASSUME NEW u \in User, Resubmit(u) PROVE CapaInv' /\ HistoryInv'
  BY <1>3, ReviewKeeps DEF Resubmit, MayAct
<1>4. ASSUME NEW w \in Worker, Remind(w) PROVE CapaInv' /\ HistoryInv'
  <2>1. UNCHANGED <<dn, capas>> /\ (UNCHANGED history \/ Logged("CAPA_REMINDER", Timer, None))
    BY <1>4 DEF Remind, LoggedReminder
  <2>2. CASE Logged("CAPA_REMINDER", Timer, None)
    <3>1. Len(capas') \in Len(capas)..(Len(capas) + 1)
      BY <2>1 DEF CapaInv
    <3>2. CapaInv'
      BY <2>1 DEF CapaInv, LatestFollows, LatestOf, SentBackBefore
    <3> QED BY <2>2, <3>1, <3>2, LoggedKeeps
  <2> QED BY <2>1, <2>2, UnloggedKeeps
<1>5. ASSUME NEW admin \in Admin, NEW step \in DOMAIN history, ApproveReversal(admin, step)
      PROVE  CapaInv' /\ HistoryInv'
  BY <1>5, ReversalKeeps
<1>6. ASSUME UNCHANGED <<capas, history>>,
             dn' = dn \/ \E applicable \in BOOLEAN : dn' = [dn EXCEPT !.applicable = applicable]
      PROVE  CapaInv' /\ HistoryInv'
  BY <1>6, UnloggedKeeps
<1>7. \/ \E u \in User : SubmitCapa(u) \/ ApproveCapa(u) \/ Resubmit(u)
      \/ \E w \in Worker : Remind(w)
      \/ \E admin \in Admin, step \in DOMAIN history : ApproveReversal(admin, step)
      \/ /\ UNCHANGED <<capas, history>>
         /\ dn' = dn \/ \E applicable \in BOOLEAN : dn' = [dn EXCEPT !.applicable = applicable]
  BY DEF Next, UserNext, FileNext, WorkerNext, ReversalNext, LoadPage, Update, AskAdd, AddFile, AskRemove,
    RemoveFile, ThreeDaysPass, TwoDaysPass, ReadOverdue, Request, CloseRequest, vars
<1> QED BY <1>1, <1>2, <1>3, <1>4, <1>5, <1>6, <1>7

LEMMA NoteInvariance == Spec => []NoteInv
  BY NoteInit, NoteStep, PTL DEF Spec

-----------------------------------------------------------------------------
(* The theorems *)

\* Through submissions, reviews and reversals, a CAPA cycle awaits its review only while the DN is
\* with the IQC Head, and is approved only as the last of a closed DN (act, restoreDn).
THEOREM ReviewsAreOfTheStatus == Spec => []ReviewsFollowStatus
<1>1. NoteInv => ReviewsFollowStatus
  <2> SUFFICES ASSUME NoteInv PROVE ReviewsFollowStatus
    OBVIOUS
  <2>1. DnTypeOK
    BY NoteAssumption DEF NoteInv, CapaInv, HistoryInv, RestInv, DnTypeOK, PageState
  <2>2. ASSUME NEW c \in DOMAIN capas
        PROVE  /\ capas[c] = None => c = Len(capas) /\ dn.status = "CAPA_SUBMITTED"
               /\ capas[c] = "APPROVED" => c = Len(capas) /\ dn.status = "CLOSED"
    <3>1. c \in 1..Len(capas) /\ Len(capas) \in Nat /\ capas \in Seq(Review)
      BY DEF NoteInv, CapaInv
    <3>2. CASE c < Len(capas)
      BY <3>2 DEF NoteInv, CapaInv, SentBackBefore, None
    <3>3. CASE c = Len(capas)
      BY <3>1, <3>3, LatestIsAReview DEF NoteInv, CapaInv, LatestFollows
    <3> QED BY <3>1, <3>2, <3>3
  <2> QED BY <2>1, <2>2 DEF ReviewsFollowStatus
<1> QED BY <1>1, NoteInvariance, PTL

\* A page loaded before the CAPA was sent back, changed, submitted again or undone closes nothing
\* and sends nothing back (rowVersion in act).
THEOREM CapaReviewIsInformed == Spec => InformedCapaReview
<1>1. NoteInv /\ [Next]_vars =>
        [\A u \in IqcHead : ApproveCapa(u) \/ Resubmit(u) =>
           page[u].status = dn.status /\ page[u].applicable = dn.applicable /\ page[u].cycles = Len(capas)]_vars
  BY DEF NoteInv, RestInv, FreshPageIsCurrent, User, ApproveCapa, Resubmit, MayAct
<1> QED BY <1>1, NoteInvariance, PTL DEF Spec, InformedCapaReview

\* A reversal takes back submissions and reviews of the user who asked for it and of nobody else,
\* although others may have acted between the request and its approval (ownOptions).
THEOREM OnlyTheAskersNoteStepsGo == Spec => OthersStepsStand
<1> DEFINE Own == \A s \in EffectiveSteps(history) \ EffectiveSteps(history') :
                    history[s].actor \in {Timer, request.by}
<1>1. NoteInv /\ [Next]_vars => [Own]_vars
  <2> SUFFICES ASSUME NoteInv, Next, NEW s \in EffectiveSteps(history) \ EffectiveSteps(history')
               PROVE  history[s].actor \in {Timer, request.by}
    OBVIOUS
  <2>1. history \in Seq(NoteRow) /\ history' # history
    BY DEF NoteInv, HistoryInv
  <2>2. ASSUME NEW action, NEW actor, NEW to, action # "REVERSED", Logged(action, actor, to) PROVE FALSE
    <3>1. PICK row : history' = Append(history, row) /\ row.action # "REVERSED"
      BY <2>2 DEF Logged
    <3>2. history \in Seq(NoteRow \cup {row}) /\ row \in NoteRow \cup {row}
      BY <2>1
    <3>3. EffectiveSteps(history') = EffectiveSteps(history) \cup {Len(history) + 1}
      <4> HIDE DEF NoteRow
      <4> QED BY <3>1, <3>2, EffectiveAfterStep
    <3> QED BY <3>3
  <2>3. PICK admin \in Admin, step \in DOMAIN history : ApproveReversal(admin, step)
    <3>1. \A u \in User : ~SubmitCapa(u) /\ ~ApproveCapa(u) /\ ~Resubmit(u)
      BY <2>2 DEF SubmitCapa, ApproveCapa, Resubmit
    <3>2. \A w \in Worker : ~Remind(w)
      BY <2>1, <2>2 DEF Remind, LoggedReminder
    <3> QED BY <2>1, <3>1, <3>2 DEF Next, UserNext, FileNext, WorkerNext, ReversalNext, LoadPage, Update, AskAdd,
          AddFile, AskRemove, RemoveFile, ThreeDaysPass, TwoDaysPass, ReadOverdue, Request, CloseRequest, vars
  <2>4. PICK row : /\ history' = Append(history, row) /\ row.action = "REVERSED" /\ row.undone = step
                   /\ step \in OwnSteps(history, request.by)
    BY <2>3 DEF ApproveReversal, Options
  <2>5. history \in Seq(NoteRow \cup {row}) /\ row \in NoteRow \cup {row}
    BY <2>1
  <2> HIDE DEF NoteRow
  <2> QED BY <2>4, <2>5, OwnStepsUndoOwnSteps
<1> QED BY <1>1, NoteInvariance, PTL DEF Spec, OthersStepsStand
=============================================================================
