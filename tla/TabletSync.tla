----------------------------- MODULE TabletSync -----------------------------
(***************************************************************************)
(* The offline engine of one tablet against the server: what is recorded   *)
(* on the tablet is applied to its copy of the lot, queued, and pushed     *)
(* when there is a network. frontend/src/offline/engine.js and             *)
(* backend/src/modules/sync/sync.service.js, over the lot of Inspection.   *)
(*                                                                         *)
(* Recording (screen) and synchronising (sync) run beside each other, each *)
(* in several awaits. A push works on the server operation by operation    *)
(* (look up, apply, record the outcome) and goes on when the tablet has    *)
(* lost the connection: a request and its retry can be under way together. *)
(* The saves and submissions of the web and of other tablets are actions   *)
(* of Inspection. Reading and putting back the tablet's copy of the lot is *)
(* one step here: what comes between touches the copy and never the queue. *)
(***************************************************************************)
EXTENDS Inspection

CONSTANTS
  Tablet,       \* the tablet whose engine this is
  WebInspector, \* bound: the inspectors who also use the web or another tablet
  Value,        \* bound: the readings entered, on this tablet and elsewhere
  WebValue,
  Request,      \* bound: places for pushes under way on the server, the first free one is taken
  MaxEntries,   \* bound: entries recorded on the tablet
  MaxLosses     \* bound: lost connections, restarts of the server or the tablet, deactivations

ASSUME TabletAssumption ==
  /\ Tablet \in Device /\ WebInspector \subseteq Inspector
  /\ Value \subseteq Reading /\ WebValue \subseteq Reading
  /\ Request \subseteq Nat /\ MaxEntries \in Nat /\ MaxLosses \in Nat

VARIABLES
  active,     \* core.device.is_active
  user,       \* who is signed in on the tablet
  bundle,     \* the tablet's copy of the lot; of its history, the cells entered since it was taken
  recorded,   \* every operation queued so far; its place is its opId
  queue,      \* opIds not yet sent (the store lists them by their place)
  screen,     \* an operation applied to the copy and not yet queued
  sync,       \* the run of syncNow between its awaits
  request,    \* the server's end of each push
  received,   \* sync.client_op: the outcome stored for an opId
  applied,    \* operations that took effect on the lot, in order, and in whose name
  losses

tabletState == <<active, user, bundle, recorded, queue, screen, sync>>
serverState == <<request, received, applied>>
syncVars == <<inspectionVars, tabletState, serverState, losses>>

NoBundle ==
  [held |-> FALSE, readings |-> [s \in Sample |-> "EMPTY"], submitting |-> FALSE, entered |-> {}]
SaveOp(u, s, v) == [type |-> "SAVE", by |-> u, cell |-> s, value |-> v]
SubmitOp(u) == [type |-> "SUBMIT", by |-> u, cell |-> None, value |-> None]

NoOp == SubmitOp(None)
IdleSync == [step |-> "IDLE", batch |-> {}, place |-> None, refused |-> FALSE, kept |-> {}, lot |-> None]
NoPush == [step |-> "NONE", ops |-> {}, user |-> None, refused |-> FALSE, kept |-> {},
           touched |-> FALSE, outcome |-> None]

SyncInit ==
  /\ Init
  /\ active = TRUE /\ user \in Inspector
  /\ bundle = NoBundle
  /\ recorded = <<>> /\ queue = {}
  /\ screen = NoOp /\ sync = IdleSync
  /\ request = [r \in Request |-> NoPush]
  /\ received = [id \in 1..MaxEntries |-> None] /\ applied = <<>>
  /\ losses = 0

-----------------------------------------------------------------------------
(* The tablet in somebody's hands *)

\* setCurrentUser; a page is left before another user signs in.
SignIn(u) ==
  /\ screen = NoOp /\ u # user /\ user' = u
  /\ UNCHANGED <<inspectionVars, active, bundle, recorded, queue, screen, sync, serverState, losses>>

\* The page offers the lots that are not on this tablet.
Checkout ==
  /\ active /\ ~bundle.held /\ CheckoutReads(user, Tablet)
  /\ UNCHANGED <<tabletState, serverState, losses>>

\* The answer is the lot as read after the row was inserted.
TakeBundle ==
  /\ CheckoutInserts(Tablet)
  /\ bundle' = [NoBundle EXCEPT !.held = TRUE, !.readings = readings]
  /\ UNCHANGED <<active, user, recorded, queue, screen, sync, serverState, losses>>

\* release: without a network the server is not told.
GiveBack(online) ==
  /\ bundle.held /\ queue = {}
  /\ bundle' = NoBundle
  /\ IF online /\ checkout.device = Tablet THEN Release ELSE UNCHANGED inspectionVars
  /\ UNCHANGED <<active, user, recorded, queue, screen, sync, serverState, losses>>

\* recordSave and recordSubmit change the copy, and then queue the operation.
RecordSave(s, v) ==
  /\ screen = NoOp /\ bundle.held /\ ~bundle.submitting
  /\ Len(recorded) < MaxEntries
  /\ bundle' = [bundle EXCEPT !.readings[s] = v, !.entered = @ \cup {s}]
  /\ screen' = SaveOp(user, s, v)
  /\ UNCHANGED <<inspectionVars, active, user, recorded, queue, sync, serverState, losses>>

RecordSubmit ==
  /\ screen = NoOp /\ bundle.held
  /\ Missing(bundle.readings) = {} /\ Len(recorded) < MaxEntries
  /\ bundle' = [bundle EXCEPT !.submitting = TRUE]
  /\ screen' = SubmitOp(user)
  /\ UNCHANGED <<inspectionVars, active, user, recorded, queue, sync, serverState, losses>>

QueueEntry ==
  /\ screen # NoOp
  /\ recorded' = Append(recorded, screen)
  /\ queue' = queue \cup {Len(recorded')}
  /\ screen' = NoOp
  /\ UNCHANGED <<inspectionVars, active, user, bundle, sync, serverState, losses>>

-----------------------------------------------------------------------------
(* syncNow *)

Mine == {id \in queue : recorded[id].by = user}

SyncLists ==
  /\ sync.step = "IDLE" /\ Mine # {}
  /\ sync' = [sync EXCEPT !.step = "LISTED", !.batch = Mine]
  /\ UNCHANGED <<inspectionVars, active, user, bundle, recorded, queue, screen, serverState, losses>>

\* The request carries the session of whoever is signed in by now; a deactivated tablet is refused.
SyncSends(r) ==
  /\ sync.step = "LISTED" /\ active
  /\ request[r] = NoPush /\ \A q \in Request : q < r => request[q] # NoPush
  /\ request' = [request EXCEPT ![r] = [NoPush EXCEPT !.step = "LOOKUP", !.ops = sync.batch, !.user = user]]
  /\ sync' = [sync EXCEPT !.step = "SENT", !.place = r]
  /\ UNCHANGED <<inspectionVars, active, user, bundle, recorded, queue, screen, received, applied, losses>>

SyncRefused ==
  /\ sync.step = "LISTED" /\ ~active
  /\ sync' = IdleSync
  /\ UNCHANGED <<inspectionVars, active, user, bundle, recorded, queue, screen, serverState, losses>>

\* Broken variants: an entry the server left to its recorder goes with the batch; a batch with a
\* refused entry is sent again.
DeleteWholeBatch == queue \ sync.batch
KeepWithRefused == IF sync.refused THEN queue ELSE queue \ (sync.batch \ sync.kept)

StillQueued == queue \ (sync.batch \ sync.kept)

\* markAttention for a refusal, which lets the lot be changed again, then deleteOps.
SyncTakesAnswer ==
  /\ sync.step = "ANSWERED"
  /\ bundle' = IF sync.refused /\ bundle.held THEN [bundle EXCEPT !.submitting = FALSE] ELSE bundle
  /\ queue' = StillQueued
  /\ sync' = IF sync.lot = None THEN IdleSync ELSE [sync EXCEPT !.step = "LOT"]
  /\ UNCHANGED <<inspectionVars, active, user, recorded, screen, serverState, losses>>

\* A lot that is submitted or was released elsewhere leaves the tablet.
SyncRefreshesLot ==
  /\ sync.step = "LOT" /\ sync' = IdleSync
  /\ bundle' = IF sync.lot = "KEEP" THEN bundle ELSE NoBundle
  /\ UNCHANGED <<inspectionVars, active, user, recorded, queue, screen, serverState, losses>>

-----------------------------------------------------------------------------
(* push *)

\* Broken variant: the operation is taken out of its order.
LastOp(p) == CHOOSE id \in p.ops : \A other \in p.ops : other <= id

\* The operations are worked off in the order they were queued.
NextOp(p) == CHOOSE id \in p.ops : \A other \in p.ops : id <= other

\* Broken variant: an operation is applied for whoever sends it.
ForSender(id, p) == TRUE

ForRecorder(id, p) == recorded[id].by = p.user

\* An outcome already stored is answered again; another inspector's operation stays with the tablet.
PushLooksUp(r) ==
  LET p == request[r]  id == NextOp(p) IN
    /\ p.step = "LOOKUP" /\ p.ops # {}
    /\ request' = [request EXCEPT ![r] =
         CASE received[id] # None -> [p EXCEPT !.ops = @ \ {id}, !.refused = @ \/ received[id] = "REFUSED"]
           [] received[id] = None /\ ~ForRecorder(id, p) -> [p EXCEPT !.ops = @ \ {id}, !.kept = @ \cup {id}]
           [] OTHER -> [p EXCEPT !.step = "APPLY"]]
    /\ UNCHANGED <<inspectionVars, tabletState, received, applied, losses>>

Allowed(op, u) ==
  /\ MayRecord(u, Tablet)
  /\ op.type = "SUBMIT" => Missing(readings) = {} /\ Len(history) < MaxSteps

\* Broken variant: a refused operation is answered as accepted.
AlwaysAccepted(op, u) == "ACCEPTED"

OutcomeOf(op, u) == IF Allowed(op, u) THEN "ACCEPTED" ELSE "REFUSED"

\* saveProgress or submit in a transaction of its own; a refusal changes nothing.
PushApplies(r) ==
  LET p == request[r]  id == NextOp(p)  op == recorded[id]  outcome == OutcomeOf(op, p.user) IN
    /\ p.step = "APPLY"
    /\ request' = [request EXCEPT ![r] = [p EXCEPT !.step = "RECORD", !.outcome = outcome,
                      !.touched = @ \/ outcome = "ACCEPTED", !.refused = @ \/ outcome = "REFUSED"]]
    /\ IF Allowed(op, p.user)
       THEN /\ IF op.type = "SUBMIT" THEN Submit(p.user, Tablet)
               ELSE Save(p.user, Tablet, [readings EXCEPT ![op.cell] = op.value])
            /\ applied' = Append(applied, [id |-> id, by |-> p.user])
       ELSE UNCHANGED <<inspectionVars, applied>>
    /\ UNCHANGED <<tabletState, received, losses>>

\* INSERT ... ON CONFLICT (op_id) DO NOTHING, in no transaction with the above.
PushRecords(r) ==
  LET p == request[r]  id == NextOp(p) IN
    /\ p.step = "RECORD"
    /\ received' = [received EXCEPT ![id] = IF @ = None THEN p.outcome ELSE @]
    /\ request' = [request EXCEPT ![r] = [p EXCEPT !.step = "LOOKUP", !.ops = @ \ {id}, !.outcome = None]]
    /\ UNCHANGED <<inspectionVars, tabletState, applied, losses>>

\* Only a lot this push touched is reported with its state; nobody may be waiting any more.
PushAnswers(r) ==
  LET p == request[r] IN
    /\ p.step = "LOOKUP" /\ p.ops = {}
    /\ sync' = IF sync.step = "SENT" /\ sync.place = r
               THEN [sync EXCEPT !.step = "ANSWERED", !.refused = p.refused, !.kept = p.kept,
                       !.lot = CASE ~p.touched -> None
                                 [] p.touched /\ lot.status # "SUBMITTED" /\ checkout.device = Tablet -> "KEEP"
                                 [] OTHER -> "DROP"]
               ELSE sync
    /\ request' = [request EXCEPT ![r] = NoPush]
    /\ UNCHANGED <<inspectionVars, active, user, bundle, recorded, queue, screen, received, applied, losses>>

-----------------------------------------------------------------------------
(* What goes wrong, and the In-Charge *)

\* The push goes on without the tablet.
ConnectionLost ==
  /\ sync.step = "SENT" /\ losses < MaxLosses
  /\ sync' = IdleSync /\ losses' = losses + 1
  /\ UNCHANGED <<inspectionVars, active, user, bundle, recorded, queue, screen, serverState>>

ServerRestarts ==
  /\ \E r \in Request : request[r] # NoPush
  /\ losses < MaxLosses /\ losses' = losses + 1
  /\ request' = [r \in Request |-> NoPush]
  /\ sync' = IF sync.step = "SENT" THEN IdleSync ELSE sync
  /\ UNCHANGED <<inspectionVars, active, user, bundle, recorded, queue, screen, received, applied>>

\* The page is closed or reloaded; the store survives.
TabletRestarts ==
  /\ sync # IdleSync \/ screen # NoOp
  /\ losses < MaxLosses /\ losses' = losses + 1
  /\ sync' = IdleSync /\ screen' = NoOp
  /\ UNCHANGED <<inspectionVars, active, user, bundle, recorded, queue, serverState>>

\* updateDevice: a deactivated tablet loses its checkouts.
SetActive(on) ==
  /\ active # on /\ active' = on
  /\ IF ~on /\ checkout.device = Tablet THEN Release ELSE UNCHANGED inspectionVars
  /\ losses' = (IF on THEN losses ELSE losses + 1) /\ losses' <= MaxLosses
  /\ UNCHANGED <<user, bundle, recorded, queue, screen, sync, serverState>>

\* The web, and what other tablets send of a lot they had until it was released or, after two
\* checkouts at the same moment, were told they have. Their own checkouts are left out.
OthersNext ==
  /\ \/ \E u \in WebInspector, d \in (Device \ {Tablet}) \cup {None} :
          Submit(u, d) \/ \E rd \in [Sample -> WebValue] : Save(u, d, rd)
     \/ \E u \in WebInspector : TakeOver(u)
     \/ ClaimLapses
     \/ Release
  /\ UNCHANGED <<tabletState, serverState, losses>>

-----------------------------------------------------------------------------
ScreenNext ==
  \/ \E u \in Inspector : SignIn(u)
  \/ Checkout \/ TakeBundle
  \/ \E online \in BOOLEAN : GiveBack(online)
  \/ \E s \in Sample, v \in Value : RecordSave(s, v)
  \/ RecordSubmit \/ QueueEntry

SyncRuns ==
  \/ SyncLists \/ SyncRefused \/ SyncTakesAnswer \/ SyncRefreshesLot
  \/ \E r \in Request : SyncSends(r)

PushRuns(r) == PushLooksUp(r) \/ PushApplies(r) \/ PushRecords(r) \/ PushAnswers(r)

FailureNext == ConnectionLost \/ ServerRestarts \/ TabletRestarts

SyncNext ==
  \/ ScreenNext \/ SyncRuns \/ FailureNext \/ OthersNext
  \/ \E r \in Request : PushRuns(r)
  \/ \E on \in BOOLEAN : SetActive(on)

\* syncNow is tried every minute and carries on with what it has begun; the server works off what it
\* has accepted. Nobody is assumed to record, sign in or release anything.
SyncFairness == WF_syncVars(SyncRuns) /\ \A r \in Request : WF_syncVars(PushRuns(r))

SyncSpec == SyncInit /\ [][SyncNext]_syncVars /\ SyncFairness

-----------------------------------------------------------------------------
(* What the tablet promises *)

Ids == 1..MaxEntries
Op == [type : {"SAVE", "SUBMIT"}, by : Inspector \cup {None}, cell : Sample \cup {None}, value : Value \cup {None}]
BundleState ==
  [held : BOOLEAN, readings : [Sample -> Reading], submitting : BOOLEAN, entered : SUBSET Sample]

\* The store of the tablet and the requests hold what the code can put there; a push has asked only
\* for operations that were recorded.
SyncTypeOK ==
  /\ active \in BOOLEAN /\ user \in Inspector
  /\ bundle \in BundleState /\ (~bundle.held => bundle = NoBundle)
  /\ recorded \in Seq(Op) /\ Len(recorded) <= MaxEntries
  /\ queue \subseteq DOMAIN recorded
  /\ screen \in Op
  /\ sync.step \in {"IDLE", "LISTED", "SENT", "ANSWERED", "LOT"}
  /\ \A r \in Request : request[r].ops \subseteq DOMAIN recorded
  /\ received \in [Ids -> {None, "ACCEPTED", "REFUSED"}]

\* Nothing queued disappears: an entry is on the tablet or the server has its outcome, whatever is
\* lost, repeated or interrupted, and whoever signs in between listing and sending (syncNow, push).
EntriesAccountedFor ==
  /\ SyncTypeOK
  /\ \A id \in DOMAIN recorded : id \in queue \/ received[id] # None

\* An entry the server calls accepted took effect on the lot (push, its crash between two steps and
\* a second push of the same entry).
AcceptedTookEffect ==
  \A id \in Ids : received[id] = "ACCEPTED" => \E n \in DOMAIN applied : applied[n].id = id

\* What is recorded offline is credited to the inspector who recorded it, whoever is signed in when
\* it is sent (mine, WRONG_USER).
CreditedToRecorder ==
  \A n \in DOMAIN applied : applied[n].by = recorded[applied[n].id].by

\* An inspector's entries are decided for the first time in the order they were recorded: none takes
\* effect while an earlier one has no outcome, and one that takes effect after a later one had its
\* outcome stored before, which only the push that looked it up earlier does not know of (push). Such
\* a repetition does come after later entries: see EffectsInOrder.
DecidedInOrder ==
  [][\A n \in DOMAIN applied' \ DOMAIN applied :
       LET id == applied'[n].id
           later == {m \in DOMAIN applied : applied[m].id > id /\ applied[m].by = applied'[n].by}
       IN  /\ \A earlier \in 1..(id - 1) :
                recorded[earlier].by = recorded[id].by => received[earlier] # None
           /\ later # {} => received[id] # None]_syncVars

\* Two tablets never record the same lot (the constraint of core.checkout): while the lot is on this
\* tablet nothing recorded elsewhere gets into it. A reading that is not as the tablet took it was
\* entered here, whatever was released, deactivated, taken over, taken again or pushed late
\* (mayRecord, checkout).
LotStaysAsTaken ==
  bundle.held /\ checkout.device = Tablet =>
    \A s \in Sample :
      \/ readings[s] = bundle.readings[s]
      \/ s \in bundle.entered
      \/ \E id \in DOMAIN recorded : recorded[id].cell = s

\* While its recorder stays signed in on an active tablet, a queued entry is sent and answered.
EntriesGetSent ==
  \A id \in Ids :
    (active /\ id \in queue /\ recorded[id].by = user)
      ~> (~active \/ id \notin queue \/ recorded[id].by # user)

-----------------------------------------------------------------------------
(* What a comment says of the program and the code does not do *)

\* sync.service.js:124: "The server applies each operation once ... a retry after a dropped connection
\* is harmless". A second push can look an entry up before the first has stored its outcome.
AppliedOnce ==
  \A m, n \in DOMAIN applied : applied[m].id = applied[n].id => m = n

\* sync.service.js:122: "Applies operations recorded offline, in order". The repetition of an entry
\* can come after a later one (1, 2, 1), and put back a reading that was corrected.
EffectsInOrder ==
  \A m, n \in DOMAIN applied :
    m < n /\ applied[m].by = applied[n].by => applied[m].id <= applied[n].id

\* The stored outcome is what became of the entry. One push can refuse it and store that while the
\* other, asking later, applies it.
RefusedHasNoEffect ==
  \A n \in DOMAIN applied : received[applied[n].id] # "REFUSED"
=============================================================================
