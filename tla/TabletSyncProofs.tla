--------------------------- MODULE TabletSyncProofs ---------------------------
(***************************************************************************)
(* Theorems of TabletSync: what becomes of the entries recorded offline,   *)
(* for any inspectors, values and number of entries, any number of pushes  *)
(* under way at once and any number of lost connections and restarts.      *)
(*                                                                         *)
(* An entry is followed from the store of the tablet over the batch of a   *)
(* run and the operations of a push to its stored outcome: SentInv says    *)
(* that none falls between two of these, OrderInv that an earlier entry of *)
(* the same inspector is never behind a later one.                         *)
(***************************************************************************)
EXTENDS TabletSync, InspectionProofs, ReversalRulesProofs

-----------------------------------------------------------------------------
(* The inductive invariant *)

SaveEntry == [type : {"SAVE"}, by : Inspector, cell : Sample, value : Value]
SubmitEntry == [type : {"SUBMIT"}, by : Inspector, cell : {None}, value : {None}]

Outcome == {None, "ACCEPTED", "REFUSED"}

PushState ==
  [step : {"NONE", "LOOKUP", "APPLY", "RECORD"}, ops : SUBSET DOMAIN recorded, user : Inspector \cup {None},
   refused : BOOLEAN, kept : SUBSET DOMAIN recorded, touched : BOOLEAN, outcome : Outcome]

SyncState ==
  [step : {"IDLE", "LISTED", "SENT", "ANSWERED", "LOT"}, batch : SUBSET DOMAIN recorded,
   place : Request \cup {None}, refused : BOOLEAN, kept : SUBSET DOMAIN recorded,
   lot : {None, "KEEP", "DROP"}]

AppliedRow == [id : DOMAIN recorded, by : Inspector]

\* What the store, the run and the pushes hold.
StoreInv ==
  /\ active \in BOOLEAN /\ user \in Inspector
  /\ bundle \in BundleState /\ (~bundle.held => bundle = NoBundle)
  /\ recorded \in Seq(SaveEntry \cup SubmitEntry) /\ Len(recorded) <= MaxEntries
  /\ queue \subseteq DOMAIN recorded
  /\ screen \in SaveEntry \cup SubmitEntry \cup {NoOp}
  /\ screen # NoOp => Len(recorded) < MaxEntries
  /\ sync \in SyncState
  /\ request \in [Request -> PushState]
  /\ received \in [Ids -> Outcome]
  /\ applied \in Seq(AppliedRow)

\* No entry falls between the tablet and its outcome.
SentInv ==
  /\ \A id \in DOMAIN recorded : id \in queue \/ received[id] # None
  /\ sync.step = "SENT" =>
       /\ sync.place \in Request
       /\ \A id \in sync.batch :
            id \in request[sync.place].ops \cup request[sync.place].kept \/ received[id] # None
  /\ sync.step = "ANSWERED" => \A id \in sync.batch : id \in sync.kept \/ received[id] # None

TookEffect(id) == \E n \in DOMAIN applied : applied[n].id = id

\* Between two of its steps a push holds an operation of its own user, and what it calls accepted
\* has taken effect.
Working(p) ==
  /\ p.step \in {"APPLY", "RECORD"} => p.ops # {} /\ ForRecorder(NextOp(p), p)
  /\ p.step = "RECORD" => p.outcome # None /\ (p.outcome = "ACCEPTED" => TookEffect(NextOp(p)))

PushInv ==
  /\ \A r \in Request : Working(request[r])
  /\ AcceptedTookEffect /\ CreditedToRecorder

\* An earlier entry of the same inspector is decided, or in the same batch or push.
OrderInv ==
  /\ sync.step = "LISTED" =>
       \A id \in sync.batch : \A earlier \in 1..(id - 1) :
         recorded[earlier].by = recorded[id].by => earlier \in sync.batch \/ received[earlier] # None
  /\ \A r \in Request :
       \A id \in request[r].ops : \A earlier \in 1..(id - 1) :
         recorded[earlier].by = recorded[id].by /\ recorded[id].by = request[r].user =>
           earlier \in request[r].ops \/ received[earlier] # None

SyncInv == StoreInv /\ SentInv /\ PushInv /\ OrderInv

-----------------------------------------------------------------------------
(* The operation a push is at *)

LEMMA NextIsLeast ==
  ASSUME StoreInv, NEW r \in Request, request[r].ops # {}
  PROVE  LET id == NextOp(request[r]) IN
           /\ id \in request[r].ops /\ id \in DOMAIN recorded /\ id \in Ids
           /\ \A other \in request[r].ops : id <= other
<1> DEFINE ops == request[r].ops
<1>1. ops \in SUBSET DOMAIN recorded
  BY DEF StoreInv, PushState
<1>2. DOMAIN recorded = 1..Len(recorded) /\ Len(recorded) \in Nat /\ Len(recorded) <= MaxEntries /\ MaxEntries \in Nat
  BY TabletAssumption DEF StoreInv
<1>3. PICK least \in ops : \A other \in ops : least <= other
  <2>1. ops \in SUBSET Nat /\ ops # {}
    BY <1>1, <1>2
  <2> HIDE DEF ops
  <2> QED BY <2>1, LeastNatural
<1>4. NextOp(request[r]) \in ops /\ \A other \in ops : NextOp(request[r]) <= other
  BY <1>3 DEF NextOp
<1> QED BY <1>1, <1>2, <1>4 DEF Ids

\* An operation that may be applied is a step of the inspection.
LEMMA AppliedIsAStep ==
  ASSUME TypeOK, StoreInv, PushInv, NEW r \in Request, PushApplies(r)
  PROVE  [Next]_inspectionVars
<1> DEFINE p == request[r]  id == NextOp(p)  op == recorded[id]
<1>1. id \in DOMAIN recorded /\ op \in SaveEntry \cup SubmitEntry
  BY NextIsLeast DEF PushApplies, PushInv, Working, StoreInv
<1>2. CASE ~Allowed(op, p.user)
  BY <1>2 DEF PushApplies
<1>3. CASE Allowed(op, p.user)
  <2>1. p.user \in Inspector /\ Tablet \in Device \cup {None}
    BY <1>3, TabletAssumption DEF Allowed, MayRecord
  <2>2. CASE op.type = "SUBMIT"
    BY <1>3, <2>1, <2>2 DEF PushApplies, Next, InspectNext
  <2>3. CASE op.type # "SUBMIT"
    <3>1. op.cell \in Sample /\ op.value \in Reading
      BY <1>1, <2>3, TabletAssumption DEF SaveEntry, SubmitEntry
    <3>2. [readings EXCEPT ![op.cell] = op.value] \in [Sample -> Reading]
      BY <3>1 DEF TypeOK
    <3>3. Save(p.user, Tablet, [readings EXCEPT ![op.cell] = op.value])
      BY <1>3, <2>3 DEF PushApplies
    <3> QED BY <2>1, <3>2, <3>3 DEF Next, InspectNext
  <2> QED BY <2>2, <2>3
<1> QED BY <1>2, <1>3

\* Whatever the tablet, the server and the web do is a step of the inspection or leaves it alone.
LEMMA StepsAreTheInspections ==
  ASSUME TypeOK, StoreInv, PushInv, [SyncNext]_syncVars
  PROVE  [Next]_inspectionVars
<1>1. CASE UNCHANGED inspectionVars
  BY <1>1
<1>2. CASE UNCHANGED syncVars
  BY <1>2 DEF syncVars
<1>3. Tablet \in Device /\ WebInspector \subseteq Inspector /\ WebValue \subseteq Reading /\ Value \subseteq Reading
  BY TabletAssumption
<1>4. CASE Checkout \/ TakeBundle \/ Release
  BY <1>3, <1>4 DEF Checkout, TakeBundle, StoreInv, Next, TabletNext
<1>5. CASE OthersNext
  <2>1. /\ \A rd \in [Sample -> WebValue] : rd \in [Sample -> Reading]
        /\ (Device \ {Tablet}) \cup {None} \subseteq Device \cup {None}
    BY <1>3
  <2> QED BY <1>3, <1>5, <2>1 DEF OthersNext, Next, InspectNext, TabletNext
<1>6. CASE \E r \in Request : PushRuns(r)
  BY <1>1, <1>6, AppliedIsAStep DEF PushRuns, PushLooksUp, PushRecords, PushAnswers
<1>7. CASE ScreenNext
  BY <1>1, <1>4, <1>7 DEF ScreenNext, SignIn, GiveBack, RecordSave, RecordSubmit, QueueEntry
<1>8. CASE SyncRuns \/ FailureNext
  BY <1>1, <1>8 DEF SyncRuns, SyncLists, SyncRefused, SyncTakesAnswer, SyncRefreshesLot, SyncSends,
    FailureNext, ConnectionLost, ServerRestarts, TabletRestarts
<1>9. CASE \E on \in BOOLEAN : SetActive(on)
  BY <1>1, <1>4, <1>9 DEF SetActive
<1> QED BY <1>2, <1>5, <1>6, <1>7, <1>8, <1>9 DEF SyncNext

-----------------------------------------------------------------------------
(* The invariant is established and kept *)

LEMMA SyncInitInv == SyncInit => SyncInv
<1> SUFFICES ASSUME SyncInit PROVE SyncInv
  OBVIOUS
<1> USE DEF SyncInit
<1>1. StoreInv
  <2>1. sync \in SyncState
    BY DEF SyncState, IdleSync
  <2>2. NoPush \in PushState
    BY DEF PushState, NoPush, Outcome
  <2>3. received \in [Ids -> Outcome]
    BY DEF Outcome, Ids
  <2>4. bundle \in BundleState
    BY DEF BundleState, NoBundle, Reading
  <2>5. recorded \in Seq(SaveEntry \cup SubmitEntry) /\ Len(recorded) = 0
    OBVIOUS
  <2>6. request \in [Request -> PushState]
    BY <2>2
  <2>7. applied \in Seq(AppliedRow)
    OBVIOUS
  <2> QED BY <2>1, <2>3, <2>4, <2>5, <2>6, <2>7, TabletAssumption DEF StoreInv
<1>2. SentInv
  BY DEF SentInv, IdleSync
<1>3. PushInv
  BY DEF PushInv, Working, NoPush, AcceptedTookEffect, CreditedToRecorder, None, Ids
<1>4. OrderInv
  BY DEF OrderInv, IdleSync, NoPush
<1> QED BY <1>1, <1>2, <1>3, <1>4 DEF SyncInv

\* What a step has no part in: the entries and where they are.
Entries == <<recorded, queue, sync, request, received, applied>>

LEMMA EntriesKept ==
  ASSUME SyncInv, UNCHANGED Entries,
         active' \in BOOLEAN, user' \in Inspector,
         bundle' \in BundleState, ~bundle'.held => bundle' = NoBundle,
         screen' \in SaveEntry \cup SubmitEntry \cup {NoOp},
         screen' # NoOp => Len(recorded) < MaxEntries
  PROVE  SyncInv'
<1>1. StoreInv'
  BY DEF SyncInv, Entries, StoreInv, PushState, SyncState, AppliedRow
<1>2. SentInv' /\ OrderInv'
  BY DEF SyncInv, Entries, SentInv, OrderInv
<1>3. PushInv'
  BY DEF SyncInv, Entries, PushInv, Working, ForRecorder, NextOp, TookEffect, AcceptedTookEffect, CreditedToRecorder
<1> QED BY <1>1, <1>2, <1>3 DEF SyncInv

LEMMA ScreenKeeps ==
  ASSUME SyncInv, TypeOK,
         \/ \E u \in Inspector : SignIn(u)
         \/ Checkout \/ TakeBundle
         \/ \E online \in BOOLEAN : GiveBack(online)
         \/ \E s \in Sample, v \in Value : RecordSave(s, v)
         \/ RecordSubmit
         \/ \E on \in BOOLEAN : SetActive(on)
         \/ OthersNext
         \/ UNCHANGED syncVars
  PROVE  SyncInv'
<1> USE DEF Entries, serverState, tabletState
<1>0. StoreInv /\ readings \in [Sample -> Reading] /\ NoBundle \in BundleState
  BY DEF SyncInv, TypeOK, NoBundle, BundleState, Reading
<1>1. ASSUME NEW u \in Inspector, SignIn(u) PROVE SyncInv'
  BY <1>0, <1>1, EntriesKept DEF SignIn, StoreInv
<1>2. CASE Checkout
  BY <1>0, <1>2, EntriesKept DEF Checkout, StoreInv
<1>3. CASE TakeBundle
  <2>1. bundle' \in BundleState /\ bundle'.held
    BY <1>0, <1>3 DEF TakeBundle, BundleState
  <2> QED BY <1>0, <1>3, <2>1, EntriesKept DEF TakeBundle, StoreInv
<1>4. ASSUME NEW online \in BOOLEAN, GiveBack(online) PROVE SyncInv'
  BY <1>0, <1>4, EntriesKept DEF GiveBack, StoreInv
<1>5. ASSUME NEW s \in Sample, NEW v \in Value, RecordSave(s, v) PROVE SyncInv'
  <2>1. bundle' \in BundleState /\ bundle'.held
    BY <1>0, <1>5, TabletAssumption DEF RecordSave, StoreInv, BundleState
  <2>2. screen' \in SaveEntry
    BY <1>0, <1>5 DEF RecordSave, StoreInv, SaveOp, SaveEntry
  <2> QED BY <1>0, <1>5, <2>1, <2>2, EntriesKept DEF RecordSave, StoreInv
<1>6. CASE RecordSubmit
  <2>1. bundle' \in BundleState /\ bundle'.held
    BY <1>0, <1>6 DEF RecordSubmit, StoreInv, BundleState
  <2>2. screen' \in SubmitEntry
    BY <1>0, <1>6 DEF RecordSubmit, StoreInv, SubmitOp, SubmitEntry
  <2> QED BY <1>0, <1>6, <2>1, <2>2, EntriesKept DEF RecordSubmit, StoreInv
<1>7. ASSUME NEW on \in BOOLEAN, SetActive(on) PROVE SyncInv'
  BY <1>0, <1>7, EntriesKept DEF SetActive, StoreInv
<1>8. CASE OthersNext
  BY <1>0, <1>8, EntriesKept DEF OthersNext, StoreInv
<1>9. CASE UNCHANGED syncVars
  BY <1>0, <1>9, EntriesKept DEF syncVars, StoreInv
<1> QED BY <1>1, <1>2, <1>3, <1>4, <1>5, <1>6, <1>7, <1>8, <1>9

\* A new entry is the last one.
LEMMA QueueEntryKeeps ==
  ASSUME SyncInv, QueueEntry
  PROVE  SyncInv'
<1> USE DEF serverState
<1>0. StoreInv
  BY DEF SyncInv
<1>1. /\ screen \in SaveEntry \cup SubmitEntry /\ Len(recorded) < MaxEntries
      /\ recorded' = Append(recorded, screen) /\ recorded' \in Seq(SaveEntry \cup SubmitEntry)
      /\ Len(recorded') = Len(recorded) + 1
      /\ Len(recorded) \in Nat /\ MaxEntries \in Nat
      /\ DOMAIN recorded = 1..Len(recorded) /\ DOMAIN recorded' = 1..(Len(recorded) + 1)
      /\ \A id \in DOMAIN recorded : recorded'[id] = recorded[id]
  BY <1>0, TabletAssumption DEF StoreInv, QueueEntry
<1>2. /\ UNCHANGED <<active, user, bundle, sync, request, received, applied>> /\ screen' = NoOp
      /\ queue' = queue \cup {Len(recorded')}
  BY DEF QueueEntry
<1>3. DOMAIN recorded \subseteq DOMAIN recorded'
  BY <1>1
<1>4. \A r \in Request : /\ request[r].ops \subseteq DOMAIN recorded
                         /\ request[r].step \in {"APPLY", "RECORD"} => NextOp(request[r]) \in DOMAIN recorded
  BY <1>0, NextIsLeast DEF StoreInv, PushState, SyncInv, PushInv, Working
<1>5. SyncState \subseteq SyncState' /\ PushState \subseteq PushState'
  BY <1>3 DEF SyncState, PushState
<1>6. StoreInv'
  <2>1. sync' \in SyncState'
    BY <1>0, <1>2, <1>5 DEF StoreInv
  <2>2. request' \in [Request -> PushState']
    <3> HIDE DEF PushState
    <3> QED BY <1>0, <1>2, <1>5 DEF StoreInv
  <2>3. applied' \in Seq(AppliedRow)'
    <3>1. AppliedRow \subseteq AppliedRow'
      BY <1>3 DEF AppliedRow
    <3> HIDE DEF AppliedRow
    <3> QED BY <1>0, <1>2, <3>1 DEF StoreInv
  <2>4. queue' \subseteq DOMAIN recorded'
    BY <1>0, <1>1, <1>2 DEF StoreInv
  <2> QED BY <1>0, <1>1, <1>2, <2>1, <2>2, <2>3, <2>4 DEF StoreInv
<1>7. SentInv'
  BY <1>1, <1>2 DEF SyncInv, SentInv
<1>8. PushInv'
  <2>1. ASSUME NEW n \in DOMAIN applied PROVE applied[n].id \in DOMAIN recorded
    <3>1. applied[n] \in AppliedRow
      BY <1>0 DEF StoreInv
    <3> QED BY <3>1 DEF AppliedRow
  <2>2. AcceptedTookEffect' /\ CreditedToRecorder'
    BY <1>1, <1>2, <2>1 DEF SyncInv, PushInv, Working, AcceptedTookEffect, CreditedToRecorder
  <2>3. ASSUME NEW r \in Request, request[r].step \in {"APPLY", "RECORD"}
        PROVE  ForRecorder(NextOp(request[r]), request[r])'
    <3> DEFINE p == request[r]
    <3>1. p' = p /\ NextOp(p)' = NextOp(p)
      BY <1>2 DEF NextOp
    <3>2. recorded'[NextOp(p)] = recorded[NextOp(p)] /\ recorded[NextOp(p)].by = p.user
      BY <1>1, <1>4, <2>3 DEF SyncInv, PushInv, Working, ForRecorder
    <3> QED BY <3>1, <3>2 DEF ForRecorder
  <2> QED BY <1>2, <2>2, <2>3 DEF SyncInv, PushInv, Working, TookEffect, NextOp
<1>9. OrderInv'
  <2>1. \A id \in DOMAIN recorded : id \in DOMAIN recorded /\ 1..(id - 1) \subseteq DOMAIN recorded
    BY <1>1
  <2>2. sync.batch \subseteq DOMAIN recorded
    BY <1>0 DEF StoreInv, SyncState
  <2>3. ASSUME NEW ids \in SUBSET DOMAIN recorded, NEW id \in ids, NEW earlier \in 1..(id - 1)
        PROVE  recorded'[earlier] = recorded[earlier] /\ recorded'[id] = recorded[id]
    BY <1>1, <2>1
  <2>4. sync'.step = "LISTED" =>
          \A id \in sync'.batch : \A earlier \in 1..(id - 1) :
            recorded'[earlier].by = recorded'[id].by => earlier \in sync'.batch \/ received'[earlier] # None
    BY <1>2, <2>2, <2>3 DEF SyncInv, OrderInv
  <2>5. \A r \in Request :
          \A id \in request[r].ops : \A earlier \in 1..(id - 1) :
            recorded'[earlier].by = recorded'[id].by /\ recorded'[id].by = request[r].user =>
              earlier \in request[r].ops \/ received[earlier] # None
    BY <1>4, <2>3 DEF SyncInv, OrderInv
  <2> QED BY <1>2, <2>4, <2>5 DEF OrderInv
<1> QED BY <1>6, <1>7, <1>8, <1>9 DEF SyncInv

\* A run takes every entry of the user that is signed in.
LEMMA SyncListsKeeps ==
  ASSUME SyncInv, SyncLists
  PROVE  SyncInv'
<1> USE DEF serverState
<1>0. StoreInv
  BY DEF SyncInv
<1>1. /\ UNCHANGED <<active, user, bundle, recorded, queue, screen, request, received, applied>>
      /\ sync' = [sync EXCEPT !.step = "LISTED", !.batch = Mine]
  BY DEF SyncLists
<1>2. sync \in SyncState /\ Mine \in SUBSET DOMAIN recorded
  BY <1>0 DEF StoreInv, Mine
<1>3. sync'.step = "LISTED" /\ sync'.batch = Mine /\ sync' \in SyncState
  BY <1>1, <1>2 DEF SyncState
<1>4. StoreInv'
  BY <1>0, <1>1, <1>3 DEF StoreInv, PushState, SyncState, AppliedRow
<1>5. SentInv'
  BY <1>1, <1>3 DEF SyncInv, SentInv
<1>6. PushInv'
  BY <1>1 DEF SyncInv, PushInv, Working, ForRecorder, NextOp, TookEffect, AcceptedTookEffect, CreditedToRecorder
<1>7. OrderInv'
  <2>1. ASSUME NEW id \in Mine, NEW earlier \in 1..(id - 1), recorded[earlier].by = recorded[id].by
        PROVE  earlier \in Mine \/ received[earlier] # None
    <3>1. earlier \in DOMAIN recorded
      BY <1>0, <1>2 DEF StoreInv
    <3>2. earlier \in queue \/ received[earlier] # None
      BY <3>1 DEF SyncInv, SentInv
    <3> QED BY <2>1, <3>2 DEF Mine
  <2> QED BY <1>1, <1>3, <2>1 DEF SyncInv, OrderInv
<1> QED BY <1>4, <1>5, <1>6, <1>7 DEF SyncInv

LEMMA SyncSendsKeeps ==
  ASSUME SyncInv, NEW r \in Request, SyncSends(r)
  PROVE  SyncInv'
<1> DEFINE p == [NoPush EXCEPT !.step = "LOOKUP", !.ops = sync.batch, !.user = user]
<1>0. StoreInv
  BY DEF SyncInv
<1>1. /\ UNCHANGED <<active, user, bundle, recorded, queue, screen, received, applied>>
      /\ sync.step = "LISTED" /\ sync' = [sync EXCEPT !.step = "SENT", !.place = r]
      /\ request' = [request EXCEPT ![r] = p]
  BY DEF SyncSends
<1>2. sync \in SyncState /\ request \in [Request -> PushState] /\ user \in Inspector
  BY <1>0 DEF StoreInv
<1>3. p \in PushState /\ p.step = "LOOKUP" /\ p.ops = sync.batch
  BY <1>2 DEF PushState, SyncState, NoPush, Outcome
<1>4. /\ sync' \in SyncState /\ sync'.step = "SENT" /\ sync'.place = r /\ sync'.batch = sync.batch
  BY <1>1, <1>2 DEF SyncState
<1>5. /\ request' \in [Request -> PushState] /\ request'[r] = p
      /\ \A q \in Request : q # r => request'[q] = request[q]
  <2> HIDE DEF p, PushState
  <2> QED BY <1>1, <1>2, <1>3
<1> HIDE DEF p
<1>6. StoreInv'
  BY <1>0, <1>1, <1>4, <1>5 DEF StoreInv, PushState, SyncState, AppliedRow
<1>7. SentInv'
  BY <1>1, <1>3, <1>4, <1>5 DEF SyncInv, SentInv
<1>8. PushInv'
  <2>1. AcceptedTookEffect' /\ CreditedToRecorder'
    BY <1>1 DEF SyncInv, PushInv, Working, AcceptedTookEffect, CreditedToRecorder
  <2>2. ASSUME NEW q \in Request, request'[q].step \in {"APPLY", "RECORD"} PROVE request'[q] = request[q]
    BY <1>3, <1>5, <2>2
  <2> QED BY <1>1, <2>1, <2>2 DEF SyncInv, PushInv, Working, ForRecorder, NextOp, TookEffect
<1>9. OrderInv'
  BY <1>1, <1>3, <1>4, <1>5 DEF SyncInv, OrderInv
<1> QED BY <1>6, <1>7, <1>8, <1>9 DEF SyncInv

\* What leaves the queue has its outcome stored.
LEMMA SyncTakesAnswerKeeps ==
  ASSUME SyncInv, SyncTakesAnswer
  PROVE  SyncInv'
<1> USE DEF serverState
<1>0. StoreInv
  BY DEF SyncInv
<1>1. /\ UNCHANGED <<active, user, recorded, screen, request, received, applied>>
      /\ sync.step = "ANSWERED" /\ queue' = StillQueued
      /\ sync' = IdleSync \/ sync' = [sync EXCEPT !.step = "LOT"]
      /\ bundle' = bundle \/ (bundle.held /\ bundle' = [bundle EXCEPT !.submitting = FALSE])
  BY DEF SyncTakesAnswer
<1>2. sync' \in SyncState /\ sync'.step \in {"IDLE", "LOT"}
  <2>1. CASE sync' = IdleSync
    BY <2>1 DEF SyncState, IdleSync
  <2>2. CASE sync' = [sync EXCEPT !.step = "LOT"]
    BY <1>0, <2>2 DEF StoreInv, SyncState
  <2> QED BY <1>1, <2>1, <2>2
<1>3. bundle' \in BundleState /\ (~bundle'.held => bundle' = NoBundle)
  BY <1>0, <1>1 DEF StoreInv, BundleState
<1>4. StoreInv'
  BY <1>0, <1>1, <1>2, <1>3 DEF StoreInv, PushState, SyncState, AppliedRow, StillQueued
<1>5. SentInv'
  BY <1>1, <1>2 DEF SyncInv, SentInv, StillQueued
<1>6. PushInv'
  BY <1>1 DEF SyncInv, PushInv, Working, ForRecorder, NextOp, TookEffect, AcceptedTookEffect, CreditedToRecorder
<1>7. OrderInv'
  BY <1>1, <1>2 DEF SyncInv, OrderInv
<1> QED BY <1>4, <1>5, <1>6, <1>7 DEF SyncInv

\* A run that ends, or is given up, leaves every entry where it is.
LEMMA SyncEndsKeeps ==
  ASSUME SyncInv, SyncRefused \/ SyncRefreshesLot \/ ConnectionLost \/ TabletRestarts
  PROVE  SyncInv'
<1> USE DEF serverState
<1>0. StoreInv
  BY DEF SyncInv
<1>1. /\ UNCHANGED <<active, user, recorded, queue, request, received, applied>> /\ sync' = IdleSync
      /\ screen' \in {screen, NoOp} /\ bundle' \in {bundle, NoBundle}
  BY DEF SyncRefused, SyncRefreshesLot, ConnectionLost, TabletRestarts
<1>2. sync' \in SyncState /\ sync'.step = "IDLE"
  BY <1>1 DEF SyncState, IdleSync
<1>3. bundle' \in BundleState /\ (~bundle'.held => bundle' = NoBundle)
  <2>1. NoBundle \in BundleState
    BY DEF BundleState, NoBundle, Reading
  <2> QED BY <1>0, <1>1, <2>1 DEF StoreInv
<1>4. StoreInv'
  BY <1>0, <1>1, <1>2, <1>3 DEF StoreInv, PushState, SyncState, AppliedRow
<1>5. SentInv' /\ OrderInv'
  BY <1>1, <1>2 DEF SyncInv, SentInv, OrderInv
<1>6. PushInv'
  BY <1>1 DEF SyncInv, PushInv, Working, ForRecorder, NextOp, TookEffect, AcceptedTookEffect, CreditedToRecorder
<1> QED BY <1>4, <1>5, <1>6 DEF SyncInv

LEMMA ServerRestartsKeeps ==
  ASSUME SyncInv, ServerRestarts
  PROVE  SyncInv'
<1>0. StoreInv
  BY DEF SyncInv
<1>1. /\ UNCHANGED <<active, user, bundle, recorded, queue, screen, received, applied>>
      /\ request' = [r \in Request |-> NoPush]
      /\ sync' = IF sync.step = "SENT" THEN IdleSync ELSE sync
  BY DEF ServerRestarts
<1>2. sync' \in SyncState /\ sync'.step # "SENT" /\ (sync'.step # "IDLE" => sync' = sync)
  BY <1>0, <1>1 DEF StoreInv, SyncState, IdleSync
<1>3. NoPush \in PushState /\ NoPush.step = "NONE" /\ NoPush.ops = {}
  BY DEF NoPush, PushState, Outcome
<1>4. request' \in [Request -> PushState]
  BY <1>1, <1>3
<1>5. StoreInv'
  BY <1>0, <1>1, <1>2, <1>4 DEF StoreInv, PushState, SyncState, AppliedRow
<1>6. SentInv' /\ OrderInv'
  BY <1>1, <1>2, <1>3 DEF SyncInv, SentInv, OrderInv
<1>7. PushInv'
  BY <1>1, <1>3 DEF SyncInv, PushInv, Working, TookEffect, AcceptedTookEffect, CreditedToRecorder
<1> QED BY <1>5, <1>6, <1>7 DEF SyncInv

\* A push only hands on what is decided, or what it may not decide.
LEMMA PushLooksUpKeeps ==
  ASSUME SyncInv, NEW r \in Request, PushLooksUp(r)
  PROVE  SyncInv'
<1> DEFINE p == request[r]
           id == NextOp(p)
           Answered == [p EXCEPT !.ops = @ \ {id}, !.refused = @ \/ received[id] = "REFUSED"]
           Left == [p EXCEPT !.ops = @ \ {id}, !.kept = @ \cup {id}]
           Begun == [p EXCEPT !.step = "APPLY"]
           q == request'[r]
<1> USE DEF tabletState
<1>0. StoreInv /\ p \in PushState
  BY DEF SyncInv, StoreInv
<1>1. /\ UNCHANGED <<active, user, bundle, recorded, queue, screen, sync, received, applied>>
      /\ p.step = "LOOKUP" /\ p.ops # {}
  BY DEF PushLooksUp
<1>2. id \in p.ops /\ id \in DOMAIN recorded
  BY <1>0, <1>1, NextIsLeast
<1>3. /\ \A other \in Request : other # r => request'[other] = request[other]
      /\ \/ received[id] # None /\ q = Answered
         \/ received[id] = None /\ ~ForRecorder(id, p) /\ q = Left
         \/ received[id] = None /\ ForRecorder(id, p) /\ q = Begun
      /\ DOMAIN request' = Request /\ request' = [request EXCEPT ![r] = q]
  BY <1>0 DEF PushLooksUp, StoreInv
<1>4. q \in PushState /\ q.user = p.user /\ q.step \in {"LOOKUP", "APPLY"}
  <2>1. CASE q = Answered
    BY <1>0, <1>1, <2>1 DEF PushState
  <2>2. CASE q = Left
    <3>1. p.ops \ {id} \in SUBSET DOMAIN recorded /\ p.kept \cup {id} \in SUBSET DOMAIN recorded
      BY <1>0, <1>2 DEF PushState
    <3> HIDE DEF id
    <3> QED BY <1>0, <1>1, <2>2, <3>1 DEF PushState
  <2>3. CASE q = Begun
    BY <1>0, <1>1, <2>3 DEF PushState
  <2> HIDE DEF q, Answered, Left, Begun
  <2> QED BY <1>3, <2>1, <2>2, <2>3
<1>5. \/ received[id] # None /\ q.step = "LOOKUP" /\ q.ops = p.ops \ {id} /\ q.kept = p.kept
      \/ recorded[id].by # p.user /\ q.step = "LOOKUP" /\ q.ops = p.ops \ {id} /\ q.kept = p.kept \cup {id}
      \/ recorded[id].by = p.user /\ q.step = "APPLY" /\ q.ops = p.ops /\ q.kept = p.kept
  <2>1. p.ops \in SUBSET DOMAIN recorded /\ p = [p EXCEPT !.step = "LOOKUP"]
    BY <1>0, <1>1 DEF PushState
  <2>2. CASE received[id] # None /\ q = Answered
    BY <1>0, <1>1, <2>2 DEF PushState
  <2>3. CASE ~ForRecorder(id, p) /\ q = Left
    BY <1>0, <1>1, <2>3 DEF PushState, ForRecorder
  <2>4. CASE ForRecorder(id, p) /\ q = Begun
    BY <1>0, <1>1, <2>4 DEF PushState, ForRecorder
  <2> HIDE DEF q, Answered, Left, Begun
  <2> QED BY <1>3, <2>2, <2>3, <2>4
<1> HIDE DEF q, Answered, Left, Begun
<1>6. StoreInv'
  <2>1. request' \in [Request -> PushState]
    <3> HIDE DEF PushState
    <3> QED BY <1>0, <1>3, <1>4 DEF StoreInv
  <2> QED BY <1>0, <1>1, <2>1 DEF StoreInv, PushState, SyncState, AppliedRow
<1>7. SentInv'
  <2>1. ASSUME sync.step = "SENT", NEW entry \in sync.batch
        PROVE  \/ entry \in request'[sync.place].ops \cup request'[sync.place].kept
               \/ received[entry] # None
    <3>1. /\ sync.place \in Request
          /\ entry \in request[sync.place].ops \cup request[sync.place].kept \/ received[entry] # None
      BY <2>1 DEF SyncInv, SentInv
    <3>2. CASE sync.place # r
      BY <1>3, <3>1, <3>2
    <3>3. CASE sync.place = r
      BY <1>5, <3>1, <3>3 DEF q
    <3> QED BY <3>2, <3>3
  <2> QED BY <1>1, <2>1 DEF SyncInv, SentInv
<1>8. PushInv'
  <2>1. AcceptedTookEffect' /\ CreditedToRecorder'
    BY <1>1 DEF SyncInv, PushInv, Working, AcceptedTookEffect, CreditedToRecorder
  <2>2. q.step = "APPLY" => q.ops # {} /\ NextOp(q) = id /\ recorded[id].by = q.user
    BY <1>2, <1>4, <1>5 DEF NextOp
  <2>3. ASSUME NEW other \in Request PROVE Working(request[other])'
    <3>1. CASE other # r
      <4>1. request'[other] = request[other] /\ recorded' = recorded /\ applied' = applied
        BY <1>1, <1>3, <3>1
      <4>2. Working(request[other])
        BY DEF SyncInv, PushInv
      <4> QED BY <4>1, <4>2 DEF Working, ForRecorder, TookEffect, NextOp
    <3>2. CASE other = r
      BY <1>1, <1>4, <2>2, <3>2 DEF Working, ForRecorder, NextOp, q
    <3> QED BY <3>1, <3>2
  <2> QED BY <2>1, <2>3 DEF PushInv
<1>9. OrderInv'
  <2>1. ASSUME NEW other \in Request, NEW later \in request'[other].ops, NEW earlier \in 1..(later - 1),
               recorded[earlier].by = recorded[later].by, recorded[later].by = request'[other].user
        PROVE  earlier \in request'[other].ops \/ received[earlier] # None
    <3>1. CASE other # r
      BY <1>3, <2>1, <3>1 DEF SyncInv, OrderInv
    <3>2. CASE other = r
      <4>1. later \in p.ops /\ recorded[later].by = p.user
        BY <1>4, <1>5, <2>1, <3>2 DEF q
      <4>2. earlier \in p.ops \/ received[earlier] # None
        BY <2>1, <4>1 DEF SyncInv, OrderInv
      <4> QED BY <1>5, <2>1, <3>2, <4>1, <4>2 DEF q
    <3> QED BY <3>1, <3>2
  <2> QED BY <1>1, <2>1 DEF SyncInv, OrderInv
<1> QED BY <1>6, <1>7, <1>8, <1>9 DEF SyncInv

\* What is applied is the push's own user's, and the first of what the push has left.
LEMMA PushAppliesKeeps ==
  ASSUME SyncInv, NEW r \in Request, PushApplies(r)
  PROVE  SyncInv'
<1> DEFINE p == request[r]
           id == NextOp(p)
           outcome == OutcomeOf(recorded[id], p.user)
           q == request'[r]
           row == [id |-> id, by |-> p.user]
<1> USE DEF tabletState
<1>0. StoreInv /\ p \in PushState
  BY DEF SyncInv, StoreInv
<1>1. /\ UNCHANGED <<active, user, bundle, recorded, queue, screen, sync, received>>
      /\ p.step = "APPLY" /\ p.ops # {} /\ recorded[id].by = p.user
      /\ DOMAIN request' = Request /\ \A other \in Request : other # r => request'[other] = request[other]
  BY <1>0 DEF PushApplies, SyncInv, PushInv, Working, ForRecorder, StoreInv
<1>2. id \in p.ops /\ id \in DOMAIN recorded
  BY <1>0, <1>1, NextIsLeast
<1>3. /\ q = [p EXCEPT !.step = "RECORD", !.outcome = outcome,
                      !.touched = @ \/ outcome = "ACCEPTED", !.refused = @ \/ outcome = "REFUSED"]
      /\ request' = [request EXCEPT ![r] = q]
  BY <1>0 DEF PushApplies, StoreInv
<1>4. outcome \in {"ACCEPTED", "REFUSED"} /\ (outcome = "ACCEPTED" <=> Allowed(recorded[id], p.user))
  BY DEF OutcomeOf
<1>5. \/ outcome = "ACCEPTED" /\ p.user \in Inspector /\ applied' = Append(applied, row)
      \/ outcome = "REFUSED" /\ applied' = applied
  BY <1>4 DEF PushApplies, Allowed, MayRecord
<1> HIDE DEF id, outcome
<1>6. /\ q \in PushState /\ q.user = p.user /\ q.step = "RECORD"
      /\ q.ops = p.ops /\ q.kept = p.kept /\ q.outcome = outcome
  BY <1>0, <1>3, <1>4 DEF PushState, Outcome
<1> HIDE DEF q
<1>7. row \in [id : DOMAIN recorded, by : {p.user}]
  BY <1>2
<1>8. applied \in Seq(AppliedRow) /\ applied' \in Seq(AppliedRow)
  <2>1. applied \in Seq(AppliedRow)
    BY <1>0 DEF StoreInv
  <2>2. p.user \in Inspector => row \in AppliedRow
    BY <1>7 DEF AppliedRow
  <2> HIDE DEF AppliedRow, row
  <2> QED BY <1>5, <2>1, <2>2
<1>9. /\ DOMAIN applied \subseteq DOMAIN applied' /\ \A n \in DOMAIN applied : applied'[n] = applied[n]
      /\ \A n \in DOMAIN applied' : n \in DOMAIN applied \/ applied'[n] = row
      /\ outcome = "ACCEPTED" => \E n \in DOMAIN applied' : applied'[n] = row
  <2> HIDE DEF AppliedRow, row
  <2>1. Len(applied) \in Nat /\ DOMAIN applied = 1..Len(applied)
    BY <1>8
  <2>2. CASE applied' = applied /\ outcome = "REFUSED"
    BY <2>2
  <2>3. CASE applied' = Append(applied, row)
    <3>1. /\ DOMAIN applied' = 1..(Len(applied) + 1) /\ applied'[Len(applied) + 1] = row
          /\ \A n \in 1..Len(applied) : applied'[n] = applied[n]
      BY <1>8, <2>1, <2>3
    <3> QED BY <2>1, <3>1
  <2> QED BY <1>5, <2>2, <2>3
<1>10. StoreInv'
  <2>1. request' \in [Request -> PushState]
    <3> HIDE DEF PushState
    <3> QED BY <1>0, <1>3, <1>6 DEF StoreInv
  <2>2. applied' \in Seq(AppliedRow)'
    BY <1>1, <1>8 DEF AppliedRow
  <2> QED BY <1>0, <1>1, <2>1, <2>2 DEF StoreInv, PushState, SyncState
<1>11. SentInv'
  <2>1. ASSUME NEW other \in Request
        PROVE  request'[other].ops = request[other].ops /\ request'[other].kept = request[other].kept
    BY <1>1, <1>6 DEF q
  <2> QED BY <1>1, <2>1 DEF SyncInv, SentInv
<1>12. PushInv'
  <2>1. \A entry : TookEffect(entry) => TookEffect(entry)'
    BY <1>9 DEF TookEffect
  <2>2. AcceptedTookEffect'
    BY <1>1, <2>1 DEF SyncInv, PushInv, AcceptedTookEffect, TookEffect
  <2>3. CreditedToRecorder'
    BY <1>1, <1>9 DEF SyncInv, PushInv, CreditedToRecorder
  <2>4. ASSUME NEW other \in Request PROVE Working(request[other])'
    <3>1. CASE other # r
      <4>1. request'[other] = request[other] /\ recorded' = recorded
        BY <1>1, <3>1
      <4>2. Working(request[other])
        BY DEF SyncInv, PushInv
      <4>3. NextOp(request[other])' = NextOp(request[other])
        BY <4>1 DEF NextOp
      <4> QED BY <2>1, <4>1, <4>2, <4>3 DEF Working, ForRecorder
    <3>2. CASE other = r
      <4>1. NextOp(request[other])' = id /\ request'[other] = q
        BY <1>6, <3>2 DEF NextOp, id, q
      <4>2. outcome = "ACCEPTED" => \E n \in DOMAIN applied' : applied'[n].id = id
        BY <1>9
      <4>3. TookEffect(NextOp(request[other]))' <=> \E n \in DOMAIN applied' : applied'[n].id = id
        BY <4>1 DEF TookEffect
      <4> QED BY <1>1, <1>4, <1>6, <4>1, <4>2, <4>3 DEF Working, ForRecorder, None
    <3> QED BY <3>1, <3>2
  <2> QED BY <2>2, <2>3, <2>4 DEF PushInv
<1>13. OrderInv'
  <2>1. ASSUME NEW other \in Request
        PROVE  request'[other].ops = request[other].ops /\ request'[other].user = request[other].user
    BY <1>1, <1>6 DEF q
  <2> QED BY <1>1, <2>1 DEF SyncInv, OrderInv
<1> QED BY <1>10, <1>11, <1>12, <1>13 DEF SyncInv

\* An operation leaves a push with its outcome.
LEMMA PushRecordsKeeps ==
  ASSUME SyncInv, NEW r \in Request, PushRecords(r)
  PROVE  SyncInv'
<1> DEFINE p == request[r]
           id == NextOp(p)
           q == request'[r]
<1> USE DEF tabletState
<1>0. StoreInv /\ p \in PushState
  BY DEF SyncInv, StoreInv
<1>1. /\ UNCHANGED <<active, user, bundle, recorded, queue, screen, sync, applied>>
      /\ p.step = "RECORD" /\ p.ops # {} /\ p.outcome # None
      /\ p.outcome = "ACCEPTED" => TookEffect(id)
      /\ DOMAIN request' = Request /\ \A other \in Request : other # r => request'[other] = request[other]
  BY <1>0 DEF PushRecords, SyncInv, PushInv, Working, StoreInv
<1>2. id \in p.ops /\ id \in DOMAIN recorded /\ id \in Ids
  BY <1>0, <1>1, NextIsLeast
<1>3. /\ q = [p EXCEPT !.step = "LOOKUP", !.ops = @ \ {id}, !.outcome = None]
      /\ request' = [request EXCEPT ![r] = q]
      /\ received' = [received EXCEPT ![id] = IF @ = None THEN p.outcome ELSE @]
  BY <1>0 DEF PushRecords, StoreInv
<1> HIDE DEF id
<1>4. /\ q \in PushState /\ q.user = p.user /\ q.step = "LOOKUP"
      /\ q.ops = p.ops \ {id} /\ q.kept = p.kept
  BY <1>0, <1>3 DEF PushState, Outcome
<1>5. /\ received' \in [Ids -> Outcome] /\ received'[id] # None
      /\ received'[id] = "ACCEPTED" => received[id] = "ACCEPTED" \/ p.outcome = "ACCEPTED"
      /\ \A entry \in Ids : entry # id => received'[entry] = received[entry]
      /\ \A entry : received[entry] # None => received'[entry] # None
  BY <1>0, <1>1, <1>2, <1>3 DEF StoreInv, PushState
<1> HIDE DEF q
<1>6. StoreInv'
  <2>1. request' \in [Request -> PushState]
    <3> HIDE DEF PushState
    <3> QED BY <1>0, <1>3, <1>4 DEF StoreInv
  <2> QED BY <1>0, <1>1, <1>5, <2>1 DEF StoreInv, PushState, SyncState, AppliedRow
<1>7. SentInv'
  <2>1. ASSUME NEW other \in Request, NEW entry
        PROVE  /\ request'[other].kept = request[other].kept
               /\ entry \in request[other].ops => entry \in request'[other].ops \/ received'[entry] # None
    BY <1>1, <1>4, <1>5 DEF q
  <2> QED BY <1>1, <1>5, <2>1 DEF SyncInv, SentInv
<1>8. PushInv'
  <2>1. AcceptedTookEffect'
    BY <1>1, <1>2, <1>5 DEF SyncInv, PushInv, AcceptedTookEffect, TookEffect
  <2>2. CreditedToRecorder'
    BY <1>1 DEF SyncInv, PushInv, CreditedToRecorder
  <2>3. ASSUME NEW other \in Request PROVE Working(request[other])'
    <3>1. CASE other # r
      <4>1. request'[other] = request[other] /\ recorded' = recorded /\ applied' = applied
        BY <1>1, <3>1
      <4>2. Working(request[other])
        BY DEF SyncInv, PushInv
      <4> QED BY <4>1, <4>2 DEF Working, ForRecorder, TookEffect, NextOp
    <3>2. CASE other = r
      BY <1>4, <3>2 DEF Working, q
    <3> QED BY <3>1, <3>2
  <2> QED BY <2>1, <2>2, <2>3 DEF PushInv
<1>9. OrderInv'
  <2>1. ASSUME NEW other \in Request
        PROVE  /\ request'[other].ops \subseteq request[other].ops /\ request'[other].user = request[other].user
               /\ \A entry \in request[other].ops : entry \in request'[other].ops \/ received'[entry] # None
    BY <1>1, <1>4, <1>5 DEF q
  <2> QED BY <1>1, <1>5, <2>1 DEF SyncInv, OrderInv
<1> QED BY <1>6, <1>7, <1>8, <1>9 DEF SyncInv

\* A push that has nothing left has decided its batch, or kept it.
LEMMA PushAnswersKeeps ==
  ASSUME SyncInv, NEW r \in Request, PushAnswers(r)
  PROVE  SyncInv'
<1> DEFINE p == request[r]
<1>0. StoreInv /\ p \in PushState
  BY DEF SyncInv, StoreInv
<1>1. /\ UNCHANGED <<active, user, bundle, recorded, queue, screen, received, applied>>
      /\ p.ops = {} /\ request' = [request EXCEPT ![r] = NoPush]
      /\ \/ sync.step = "SENT" /\ sync.place = r
            /\ \E lt \in {None, "KEEP", "DROP"} :
                 sync' = [sync EXCEPT !.step = "ANSWERED", !.refused = p.refused, !.kept = p.kept, !.lot = lt]
         \/ ~(sync.step = "SENT" /\ sync.place = r) /\ sync' = sync
  BY DEF PushAnswers
<1>2. NoPush \in PushState /\ NoPush.step = "NONE" /\ NoPush.ops = {}
  BY DEF NoPush, PushState, Outcome
<1>3. /\ request' \in [Request -> PushState] /\ request'[r] = NoPush
      /\ \A other \in Request : other # r => request'[other] = request[other]
  <2> HIDE DEF PushState
  <2> QED BY <1>0, <1>1, <1>2 DEF StoreInv
<1>4. /\ sync' \in SyncState
      /\ \/ /\ sync.step = "SENT" /\ sync.place = r
            /\ sync'.step = "ANSWERED" /\ sync'.batch = sync.batch /\ sync'.kept = p.kept
         \/ ~(sync.step = "SENT" /\ sync.place = r) /\ sync' = sync
  BY <1>0, <1>1 DEF StoreInv, SyncState, PushState
<1>5. StoreInv'
  BY <1>0, <1>1, <1>3, <1>4 DEF StoreInv, PushState, SyncState, AppliedRow
<1>6. SentInv'
  BY <1>1, <1>3, <1>4 DEF SyncInv, SentInv
<1>7. PushInv'
  <2>1. AcceptedTookEffect' /\ CreditedToRecorder'
    BY <1>1 DEF SyncInv, PushInv, AcceptedTookEffect, CreditedToRecorder
  <2>2. ASSUME NEW other \in Request PROVE Working(request[other])'
    <3>1. CASE other # r
      <4>1. request'[other] = request[other] /\ recorded' = recorded /\ applied' = applied
        BY <1>1, <1>3, <3>1
      <4>2. Working(request[other])
        BY DEF SyncInv, PushInv
      <4> QED BY <4>1, <4>2 DEF Working, ForRecorder, TookEffect, NextOp
    <3>2. CASE other = r
      BY <1>2, <1>3, <3>2 DEF Working
    <3> QED BY <3>1, <3>2
  <2> QED BY <2>1, <2>2 DEF PushInv
<1>8. OrderInv'
  BY <1>1, <1>2, <1>3, <1>4 DEF SyncInv, OrderInv
<1> QED BY <1>5, <1>6, <1>7, <1>8 DEF SyncInv

LEMMA SyncStepInv ==
  ASSUME TypeOK, SyncInv, [SyncNext]_syncVars
  PROVE  SyncInv'
<1>1. ASSUME NEW r \in Request, PushRuns(r) PROVE SyncInv'
  BY <1>1, PushLooksUpKeeps, PushAppliesKeeps, PushRecordsKeeps, PushAnswersKeeps DEF PushRuns
<1>2. CASE SyncRuns
  BY <1>2, SyncListsKeeps, SyncSendsKeeps, SyncTakesAnswerKeeps, SyncEndsKeeps DEF SyncRuns
<1>3. CASE FailureNext
  BY <1>3, SyncEndsKeeps, ServerRestartsKeeps DEF FailureNext
<1>4. CASE ScreenNext
  BY <1>4, ScreenKeeps, QueueEntryKeeps DEF ScreenNext
<1>5. CASE OthersNext \/ (\E on \in BOOLEAN : SetActive(on)) \/ UNCHANGED syncVars
  BY <1>5, ScreenKeeps
<1> QED BY <1>1, <1>2, <1>3, <1>4, <1>5 DEF SyncNext

LEMMA SyncInvariance == SyncSpec => [](IInv /\ SyncInv)
<1>1. SyncInit => IInv /\ SyncInv
  BY InitInv, SyncInitInv DEF SyncInit
<1>2. IInv /\ SyncInv /\ [SyncNext]_syncVars => (IInv /\ SyncInv)'
  <2> SUFFICES ASSUME IInv, SyncInv, [SyncNext]_syncVars PROVE IInv' /\ SyncInv'
    OBVIOUS
  <2>1. TypeOK
    BY DEF IInv
  <2>2. [Next]_inspectionVars
    BY <2>1, StepsAreTheInspections DEF SyncInv
  <2> QED BY <2>1, <2>2, StepInv, SyncStepInv
<1> QED BY <1>1, <1>2, PTL DEF SyncSpec

-----------------------------------------------------------------------------
(* The theorems *)

\* Whatever happens offline, in a run and in a push, the lot goes through an inspection (push calls
\* saveProgress and submit): what is proved of Inspection holds with tablets that record offline.
THEOREM OfflineIsAnInspection == SyncSpec => Spec
<1>1. SyncInit => Init
  BY DEF SyncInit
<1>2. IInv /\ SyncInv /\ [SyncNext]_syncVars => [Next]_inspectionVars
  BY StepsAreTheInspections DEF IInv, SyncInv
<1> QED BY <1>1, <1>2, SyncInvariance, PTL DEF SyncSpec, Spec

\* Among it: the result of a submitted lot is that of its readings, and the lot is a card that is
\* filled in, handed in and decided on.
COROLLARY OfflineKeepsTheInspection ==
  SyncSpec => []SubmittedResultIsOfReadings /\ ImplementsLotCard
  BY OfflineIsAnInspection, ResultIsOfReadings, InspectionIsACard

\* No entry disappears: it is on the tablet, or its outcome is stored (syncNow, push).
THEOREM NoEntryLost == SyncSpec => []EntriesAccountedFor
<1>1. SyncInv => EntriesAccountedFor
  <2> SUFFICES ASSUME SyncInv PROVE EntriesAccountedFor
    OBVIOUS
  <2>1. SaveEntry \cup SubmitEntry \subseteq Op /\ NoOp \in Op
    BY DEF SaveEntry, SubmitEntry, Op, NoOp, SubmitOp
  <2>2. recorded \in Seq(Op) /\ screen \in Op
    <3> HIDE DEF SaveEntry, SubmitEntry, Op
    <3> QED BY <2>1 DEF SyncInv, StoreInv
  <2> QED BY <2>2 DEF SyncInv, StoreInv, SentInv, EntriesAccountedFor, SyncTypeOK, SyncState, PushState, Outcome
<1> QED BY <1>1, SyncInvariance, PTL

\* What the server calls accepted took effect on the lot, whatever stops it between the two (push).
THEOREM AcceptedIsApplied == SyncSpec => []AcceptedTookEffect
<1>1. SyncInv => AcceptedTookEffect
  BY DEF SyncInv, PushInv
<1> QED BY <1>1, SyncInvariance, PTL

\* An operation takes effect in the name of the inspector who recorded it (mine, WRONG_USER).
THEOREM RecorderIsCredited == SyncSpec => []CreditedToRecorder
<1>1. SyncInv => CreditedToRecorder
  BY DEF SyncInv, PushInv
<1> QED BY <1>1, SyncInvariance, PTL

-----------------------------------------------------------------------------
(* The order of the effects *)

\* Where the entries and their outcomes change.
LEMMA EntriesChange ==
  ASSUME SyncInv, [SyncNext]_syncVars
  PROVE  \/ UNCHANGED <<recorded, received, applied>>
         \/ QueueEntry
         \/ \E r \in Request : PushApplies(r) \/ PushRecords(r)
<1> USE DEF serverState, tabletState
<1>1. CASE ScreenNext
  BY <1>1 DEF ScreenNext, SignIn, Checkout, TakeBundle, GiveBack, RecordSave, RecordSubmit
<1>2. CASE SyncRuns
  BY <1>2 DEF SyncRuns, SyncLists, SyncRefused, SyncTakesAnswer, SyncRefreshesLot, SyncSends
<1>3. CASE FailureNext
  BY <1>3 DEF FailureNext, ConnectionLost, ServerRestarts, TabletRestarts
<1>4. CASE \E r \in Request : PushRuns(r)
  BY <1>4 DEF PushRuns, PushLooksUp, PushAnswers
<1>5. CASE OthersNext \/ (\E on \in BOOLEAN : SetActive(on)) \/ UNCHANGED syncVars
  BY <1>5 DEF OthersNext, SetActive, syncVars
<1> QED BY <1>1, <1>2, <1>3, <1>4, <1>5 DEF SyncNext

\* A push applies the first of its operations, which its user recorded; the earlier entries of that
\* user are decided.
LEMMA ApplyingTakesTheFirst ==
  ASSUME SyncInv, NEW r \in Request, PushApplies(r)
  PROVE  LET p == request[r]  id == NextOp(p) IN
           /\ recorded' = recorded /\ received' = received
           /\ id \in DOMAIN recorded /\ recorded[id].by = p.user
           /\ \A earlier \in 1..(id - 1) : recorded[earlier].by = p.user => received[earlier] # None
           /\ \A n \in DOMAIN applied : n \in DOMAIN applied' /\ applied'[n] = applied[n]
           /\ \A n \in DOMAIN applied' \ DOMAIN applied : applied'[n].id = id /\ applied'[n].by = p.user
<1> DEFINE p == request[r]  id == NextOp(p)
<1>1. p.ops # {} /\ recorded[id].by = p.user /\ recorded' = recorded /\ received' = received
  BY DEF PushApplies, SyncInv, PushInv, Working, ForRecorder, tabletState
<1>2. id \in p.ops /\ id \in DOMAIN recorded /\ id \in Ids /\ \A other \in p.ops : id <= other
  BY <1>1, NextIsLeast DEF SyncInv
<1>3. ASSUME NEW earlier \in 1..(id - 1), recorded[earlier].by = p.user
      PROVE  received[earlier] # None
  <2>1. earlier \in p.ops \/ received[earlier] # None
    BY <1>1, <1>2, <1>3 DEF SyncInv, OrderInv
  <2>2. id \in Nat
    BY <1>2 DEF Ids
  <2> QED BY <1>2, <2>1, <2>2
<1>4. applied' = applied \/ applied' = Append(applied, [id |-> id, by |-> p.user])
  BY DEF PushApplies
<1>5. applied \in Seq(AppliedRow)
  BY DEF SyncInv, StoreInv
<1>6. /\ \A n \in DOMAIN applied : n \in DOMAIN applied' /\ applied'[n] = applied[n]
      /\ \A n \in DOMAIN applied' \ DOMAIN applied : applied'[n].id = id /\ applied'[n].by = p.user
  <2> HIDE DEF id, p, AppliedRow
  <2> QED BY <1>4, <1>5
<1> QED BY <1>1, <1>2, <1>3, <1>6

\* An outcome once stored stays stored.
LEMMA OutcomesStay ==
  ASSUME SyncInv, NEW r \in Request, PushRecords(r), NEW id \in Ids, received[id] # None
  PROVE  received'[id] # None
<1>1. received \in [Ids -> Outcome]
  BY DEF SyncInv, StoreInv
<1> QED BY <1>1 DEF PushRecords

\* What came before an entry that took effect is decided.
DecidedBefore ==
  \A m \in DOMAIN applied : \A earlier \in 1..(applied[m].id - 1) :
    recorded[earlier].by = applied[m].by => received[earlier] # None

LEMMA RowsAreOfEntries ==
  ASSUME SyncInv, NEW m \in DOMAIN applied, NEW earlier \in 1..(applied[m].id - 1)
  PROVE  earlier \in DOMAIN recorded /\ earlier \in Ids
<1>1. applied[m] \in AppliedRow
  BY DEF SyncInv, StoreInv
<1>2. applied[m].id \in 1..Len(recorded) /\ Len(recorded) \in Nat /\ Len(recorded) <= MaxEntries /\ MaxEntries \in Nat
  BY <1>1, TabletAssumption DEF SyncInv, StoreInv, AppliedRow
<1>3. DOMAIN recorded = 1..Len(recorded)
  BY DEF SyncInv, StoreInv
<1> QED BY <1>2, <1>3 DEF Ids

LEMMA DecidedBeforeStep ==
  ASSUME SyncInv, DecidedBefore, [SyncNext]_syncVars
  PROVE  DecidedBefore'
<1>1. CASE UNCHANGED <<recorded, received, applied>>
  BY <1>1 DEF DecidedBefore
<1>2. CASE QueueEntry
  <2>1. received' = received /\ applied' = applied
    BY <1>2 DEF QueueEntry, serverState
  <2>2. \A id \in DOMAIN recorded : recorded'[id] = recorded[id]
    BY <1>2 DEF QueueEntry, SyncInv, StoreInv
  <2> QED BY <2>1, <2>2, RowsAreOfEntries DEF DecidedBefore
<1>3. ASSUME NEW r \in Request, PushRecords(r) PROVE DecidedBefore'
  <2>1. recorded' = recorded /\ applied' = applied
    BY <1>3 DEF PushRecords, tabletState
  <2> QED BY <1>3, <2>1, RowsAreOfEntries, OutcomesStay DEF DecidedBefore
<1>4. ASSUME NEW r \in Request, PushApplies(r) PROVE DecidedBefore'
  <2> DEFINE p == request[r]  id == NextOp(p)
  <2>1. /\ recorded' = recorded /\ received' = received
        /\ \A earlier \in 1..(id - 1) : recorded[earlier].by = p.user => received[earlier] # None
        /\ \A n \in DOMAIN applied : n \in DOMAIN applied' /\ applied'[n] = applied[n]
        /\ \A n \in DOMAIN applied' \ DOMAIN applied : applied'[n].id = id /\ applied'[n].by = p.user
    BY <1>4, ApplyingTakesTheFirst
  <2> QED BY <2>1 DEF DecidedBefore
<1> QED BY <1>1, <1>2, <1>3, <1>4, EntriesChange

\* With several pushes of one tablet under way, an inspector's entries are first decided in the order
\* they were recorded; only an entry whose outcome is stored takes effect again after later ones
\* (push).
THEOREM FirstDecidedInOrder == SyncSpec => DecidedInOrder
<1>1. SyncInit => DecidedBefore
  BY DEF SyncInit, DecidedBefore
<1>2. SyncInv /\ DecidedBefore /\ [SyncNext]_syncVars => DecidedBefore'
  BY DecidedBeforeStep
<1>3. SyncInv /\ DecidedBefore /\ [SyncNext]_syncVars =>
        [\A n \in DOMAIN applied' \ DOMAIN applied :
           LET id == applied'[n].id
               later == {m \in DOMAIN applied : applied[m].id > id /\ applied[m].by = applied'[n].by}
           IN  /\ \A earlier \in 1..(id - 1) :
                    recorded[earlier].by = recorded[id].by => received[earlier] # None
               /\ later # {} => received[id] # None]_syncVars
  <2> SUFFICES ASSUME SyncInv, DecidedBefore, [SyncNext]_syncVars, NEW n \in DOMAIN applied' \ DOMAIN applied
               PROVE  /\ \A earlier \in 1..(applied'[n].id - 1) :
                           recorded[earlier].by = recorded[applied'[n].id].by => received[earlier] # None
                      /\ \A m \in DOMAIN applied :
                           applied[m].id > applied'[n].id /\ applied[m].by = applied'[n].by =>
                             received[applied'[n].id] # None
    OBVIOUS
  <2>1. PICK r \in Request : PushApplies(r)
    <3>1. applied' # applied
      OBVIOUS
    <3> QED BY <3>1, EntriesChange DEF QueueEntry, PushRecords, serverState
  <2> DEFINE p == request[r]  id == NextOp(p)
  <2>2. /\ applied'[n].id = id /\ applied'[n].by = p.user
        /\ id \in DOMAIN recorded /\ recorded[id].by = p.user
        /\ \A earlier \in 1..(id - 1) : recorded[earlier].by = p.user => received[earlier] # None
    BY <2>1, ApplyingTakesTheFirst
  <2>3. ASSUME NEW m \in DOMAIN applied, applied[m].id > id, applied[m].by = p.user
        PROVE  received[id] # None
    <3>1. applied[m] \in AppliedRow
      BY DEF SyncInv, StoreInv
    <3>2. id \in 1..(applied[m].id - 1)
      BY <2>2, <2>3, <3>1 DEF SyncInv, StoreInv, AppliedRow
    <3> QED BY <2>2, <2>3, <3>2 DEF DecidedBefore
  <2> QED BY <2>2, <2>3
<1> QED BY <1>1, <1>2, <1>3, SyncInvariance, PTL DEF SyncSpec, DecidedInOrder

-----------------------------------------------------------------------------
(* The lot on the tablet *)

LEMMA LotStaysStep ==
  ASSUME IInv, SyncInv, LotStaysAsTaken, [SyncNext]_syncVars
  PROVE  LotStaysAsTaken'
<1> USE DEF serverState, tabletState
<1> DEFINE Kept(s) == readings[s] = bundle.readings[s] \/ s \in bundle.entered
           OfTablet(s) == \E id \in DOMAIN recorded : recorded[id].cell = s
<1>0. StoreInv /\ TypeOK /\ Tablet \in Device /\ None \notin Device
  BY TabletAssumption, InspectionAssumption DEF SyncInv, IInv
<1>1. CASE UNCHANGED <<readings, bundle, recorded>> /\ checkout'.device \in {checkout.device, None}
  BY <1>0, <1>1 DEF LotStaysAsTaken
<1>2. CASE Checkout \/ (\E u \in Inspector : SignIn(u)) \/ (\E on \in BOOLEAN : SetActive(on))
           \/ FailureNext \/ UNCHANGED syncVars
  <2>1. UNCHANGED <<readings, bundle, recorded>> /\ checkout'.device \in {checkout.device, None}
    BY <1>2 DEF Checkout, CheckoutReads, SignIn, SetActive, Release, FailureNext, ConnectionLost, ServerRestarts,
      TabletRestarts, syncVars, inspectionVars, lotVars, NoCheckout
  <2> QED BY <1>1, <2>1
<1>3. CASE TakeBundle
  <2>1. readings' = readings /\ bundle'.readings = readings
    BY <1>3 DEF TakeBundle, CheckoutInserts, NoBundle
  <2> QED BY <2>1 DEF LotStaysAsTaken
<1>4. ASSUME NEW online \in BOOLEAN, GiveBack(online) PROVE LotStaysAsTaken'
  BY <1>4 DEF GiveBack, NoBundle, LotStaysAsTaken
<1>5. ASSUME NEW s \in Sample, NEW v \in Value, RecordSave(s, v) PROVE LotStaysAsTaken'
  <2>1. /\ bundle.held /\ UNCHANGED <<readings, recorded, checkout>>
        /\ bundle'.entered = bundle.entered \cup {s}
        /\ \A c \in Sample : c # s => bundle'.readings[c] = bundle.readings[c]
    BY <1>0, <1>5 DEF RecordSave, StoreInv, BundleState, inspectionVars
  <2> QED BY <2>1 DEF LotStaysAsTaken
<1>6. CASE RecordSubmit
  <2>1. /\ bundle.held /\ UNCHANGED <<readings, recorded, checkout>>
        /\ bundle'.readings = bundle.readings /\ bundle'.entered = bundle.entered
    BY <1>0, <1>6 DEF RecordSubmit, StoreInv, BundleState, inspectionVars
  <2> QED BY <2>1 DEF LotStaysAsTaken
<1>7. CASE QueueEntry
  <2>1. UNCHANGED <<readings, checkout, bundle>>
    BY <1>7 DEF QueueEntry, inspectionVars
  <2>2. \A id \in DOMAIN recorded : id \in DOMAIN recorded' /\ recorded'[id] = recorded[id]
    BY <1>0, <1>7 DEF QueueEntry, StoreInv
  <2> QED BY <2>1, <2>2 DEF LotStaysAsTaken
<1>8. CASE SyncRuns
  <2>1. UNCHANGED <<readings, checkout, recorded>>
    BY <1>8 DEF SyncRuns, SyncLists, SyncRefused, SyncTakesAnswer, SyncRefreshesLot, SyncSends, inspectionVars
  <2>2. \/ bundle' = bundle \/ bundle' = NoBundle
        \/ bundle.held /\ bundle' = [bundle EXCEPT !.submitting = FALSE]
    BY <1>8 DEF SyncRuns, SyncLists, SyncRefused, SyncTakesAnswer, SyncRefreshesLot, SyncSends
  <2>3. bundle'.held => bundle.held /\ bundle'.readings = bundle.readings /\ bundle'.entered = bundle.entered
    BY <1>0, <2>2 DEF NoBundle, StoreInv, BundleState
  <2> QED BY <2>1, <2>3 DEF LotStaysAsTaken
<1>9. ASSUME NEW r \in Request, PushApplies(r) PROVE LotStaysAsTaken'
  <2> DEFINE p == request[r]  id == NextOp(p)  op == recorded[id]
  <2>1. UNCHANGED <<bundle, recorded>> /\ id \in DOMAIN recorded
    BY <1>9, ApplyingTakesTheFirst DEF PushApplies
  <2>2. CASE UNCHANGED inspectionVars
    BY <1>1, <2>1, <2>2 DEF inspectionVars
  <2>3. CASE Submit(p.user, Tablet)
    BY <1>0, <2>3 DEF Submit, NoCheckout, LotStaysAsTaken
  <2>4. CASE Save(p.user, Tablet, [readings EXCEPT ![op.cell] = op.value])
    <3>1. checkout' = checkout /\ \A c \in Sample : c # op.cell => readings'[c] = readings[c]
      BY <1>0, <2>4 DEF Save, TypeOK
    <3> HIDE DEF op, id
    <3>2. \A c \in Sample : c = op.cell => OfTablet(c)
      BY <2>1 DEF op
    <3> QED BY <2>1, <3>1, <3>2 DEF LotStaysAsTaken
  <2> QED BY <1>9, <2>2, <2>3, <2>4 DEF PushApplies
<1>10. ASSUME NEW r \in Request, PushLooksUp(r) \/ PushRecords(r) \/ PushAnswers(r) PROVE LotStaysAsTaken'
  BY <1>1, <1>10 DEF PushLooksUp, PushRecords, PushAnswers, inspectionVars
<1>11. CASE OthersNext
  <2>1. UNCHANGED <<bundle, recorded>>
    BY <1>11 DEF OthersNext
  <2>2. ASSUME NEW u \in WebInspector, NEW d \in (Device \ {Tablet}) \cup {None},
               Submit(u, d) \/ \E rd \in [Sample -> WebValue] : Save(u, d, rd)
        PROVE  checkout'.device # Tablet
    BY <1>0, <2>2 DEF Submit, Save, MayRecord, NoCheckout
  <2>3. CASE (\E u \in WebInspector : TakeOver(u)) \/ ClaimLapses \/ Release
    <3>1. readings' = readings /\ checkout'.device \in {checkout.device, None}
      BY <2>3 DEF TakeOver, ClaimLapses, Release, NoCheckout
    <3> QED BY <1>1, <2>1, <3>1
  <2> QED BY <1>11, <2>2, <2>3 DEF OthersNext, LotStaysAsTaken
<1> QED BY <1>2, <1>3, <1>4, <1>5, <1>6, <1>7, <1>8, <1>9, <1>10, <1>11 DEF SyncNext, ScreenNext, PushRuns

\* While a lot is on the tablet nothing recorded elsewhere gets into it, through releases, checkouts
\* taken again and pushes that come late, for any number of tablets (mayRecord, checkout).
THEOREM NothingFromElsewhere == SyncSpec => []LotStaysAsTaken
<1>1. SyncInit => LotStaysAsTaken
  BY DEF SyncInit, NoBundle, LotStaysAsTaken
<1>2. IInv /\ SyncInv /\ LotStaysAsTaken /\ [SyncNext]_syncVars => LotStaysAsTaken'
  BY LotStaysStep
<1> QED BY <1>1, <1>2, SyncInvariance, PTL DEF SyncSpec
=============================================================================
