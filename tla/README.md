# QMAS: specifications, model checks and proofs

QMAS runs incoming quality control of a manufacturer. A delivered lot gets an
inspection report (IMIR); inspectors record readings on the web or on a tablet that
works offline; the IQC In-Charge and the IQC Head review it; a lot that fails may be
held, which opens a *deviation* that a department, the IQC Head and, if asked, senior
authorities decide; a *defect notification* (DN) asks the vendor for corrective action
(CAPA). An admin can reverse somebody's last decisions. A worker process runs timers,
the SAP pull and the mail outbox.

This directory holds TLA+ modules for that life from SAP to the last DN, for the tablet,
the formats, the sign-ins and the mails around it, the TLC configurations that check
them, and TLAPS proofs of every safety property for any number of users, rounds, samples,
tablets, versions and requests.
`PROJECT.json` lists, per definition, the source lines it stands for.

    tlc -workers 2 -config MCDeviation.cfg MCDeviation      # a run
    tlapm DeviationProofs.tla                               # a proof

## 1. Inventory of the system

How the code runs decides what an action is. Each API request is handled by an Express
process; a handler that changes something runs in one PostgreSQL transaction
(`withTransaction`, READ COMMITTED). It first locks its record with `SELECT ... FOR
UPDATE`, checks the rules on the locked row, changes it and appends to the history
(`logAction`). Two such handlers on one record are therefore serialised: **one action per
handler**. What happens *outside* the lock is a step of its own:

| outside the lock | where | modelled as |
|---|---|---|
| the ids a timer reads before locking each record | `deviation.service.js:310, 337` | `ReadOverdueRounds`, `ReadOverdueQuantities` |
| `now()`, which is the start of the transaction, before it waits for the lock | decision times of overrides | `AskOverride` |
| the lots a tablet's checkout reads without a lock | `sync.service.js:80` | `CheckoutReads` |
| a pushed operation: looked up, applied and recorded in three transactions | `sync.service.js:129-170` | `PushLooksUp`, `PushApplies`, `PushRecords` |
| the tablet's awaits between its store, its screen and the server | `engine.js`, `store.js` | the steps of `sync`, `screen` |
| the CAPA cycle of a file, computed before the DN is locked | `dn.service.js:217` | `AskAdd`, `AddFile` |
| the DNs the worker reads as overdue | `dn.service.js:323` | `ReadOverdue`, `Remind` |
| what an approval reads of waiting lots, a pull of the format, before either commits | `imir.service.js:87` | `BeginApproval`, `StoreLot` |
| the rows a statement finds and those it then locks, one by one | `sessions.js`, `auth.service.js` | every step of `Sessions` |
| a mail between its lease, the mail server and its row | `mailer.js:39-78` | `Lease`, `HandOver`, `RecordSent` |
| the lot a photo's request reads before the file is stored | `attachments.service.js:20` | `AskAdd`, `AskRemove` |
| the page a reviewer has open (guarded by its `rowVersion`) | `review.service.js:30` | `OpenPage` |
| the request an admin approves later | `reversal.service.js:304` | `Request` |

### Components

| component | state | operations | talks to | what is hard | correct when |
|---|---|---|---|---|---|
| Inspection (`imir.service`) | lot row, readings, claim | open, save, take over, submit | checkout, formats, numbering, history | several inspectors, lapsing claims, tablets | result = result of the stored readings; each decision on the readings the page showed |
| Review (`review.service`) | lot status, deviation | approve, send back, escalate, head approve, hold | deviation, history | decisions on stale pages | the decision was made on the present readings |
| Photos (`attachments.service`) | attachment rows, object store | add, remove, open | inspection, DN | status read before a slow upload | photos of a submitted lot are fixed |
| Escalation rules (`logic/escalation`) | none (pure) | resolve, time out | deviation | rank, PDC/CQA pair, timeouts and overrides in any order | rules 1 to 4; a round never waits for nobody |
| Deviation (`deviation.service`) | deviation row, rounds, steps, decisions | accept, form, department and IQC Head decisions, escalate, senior decisions, override, quantities, two timers | lot status, history | long loops back, timers racing people | closed only as endorsed; closed is final; the waits that have a timer end |
| Workflow rules (`workflow/rules`) | none | roles, stages, blocks | everyone | same rule for button and handler | see deviation, review |
| Reversal (`workflow/reversal`, `history`) | requests, history with snapshots | request, withdraw, reject, approve | lot, deviation, DN | reversals of reversals, others acting meanwhile | only own last steps undone, record consistent with what is left |
| DN and CAPA (`dn.service`) | DN row, lines, CAPA cycles, files | raise, edit, send, CAPA, review, reminders | lot, history, mail | review cycles, reminders, stale files | one open cycle; accepted CAPA closes |
| Numbering | sequence per type, plant, period | issue a number | lots, deviations, DNs | pattern changes, reuse | no number twice |
| Tablet sync (`sync.service`) | devices, checkouts, received operations | register, checkout, release, push | inspection | retries after lost answers | no operation without an outcome; first effects in order; nothing from elsewhere into a lot on a tablet |
| Offline engine (`frontend/src/offline`) | queue, cached lots, backup | record, sync, import, export | tablet sync | two tabs, lost answers, refused operations | nothing recorded is lost; credited to its recorder |
| Formats | versions, drafts, checkpoints | draft, submit, approve, merge, restore | inspection (opens waiting lots) | drafts on old bases | one current version; no approved change taken back unseen |
| Sampling, readings, limits | tables | pure | inspection | boundaries | agrees with the tables |
| Sessions and sign-in | users, sessions, refresh tokens | login, refresh, revoke, reset | all requests | reuse of a token, caches | revoked means revoked; one family per sign-in |
| Notifications and mail | notification rows, outbox | queue, lease, send, retry | history | crash between send and mark | sent again only when unavoidable; bounded retries |
| SAP pull (`sapSync`) | cursor, runs, staging rows | one run | lots, numbering | failed lines, cursor | no lot skipped; one bad lot blocks no other |
| Worker | timers | ticks | all of the above | jobs failing, several instances | ticks go on |
| Access, roles, users, masters, support, system | single rows | administration | | | out of the lot's life |
| Reports, search, tasks, audit; screens | none | queries | | | not modelled |

Every hazard of this code that a test would hardly reach is in `PROJECT.json` under
`hazards`, with the property that catches it or the reason it is still open.

## 2. Modules

| module | stands for | role |
|---|---|---|
| `Escalation` | `packages/shared/src/logic/escalation.js` | operators on one round |
| `Deviation` | `deviation.service.js`, deviation part of `workflow/rules.js` | state machine of one deviation, EXTENDS Escalation |
| `DeviationCase` | | abstract: what a deviation promises; `Deviation` implements it |
| `Inspection` | `imir.service.js`, `review.service.js`, checkouts of `sync.service.js` | state machine of one lot up to its first decision |
| `LotCard` | | abstract: what an inspection promises; `Inspection` implements it |
| `LotPhotos` | `attachments.service.js` | Inspection composed with the photos |
| `TabletSync` | `frontend/src/offline`, `push` of `sync.service.js` | Inspection composed with one tablet's queue and its pushes |
| `ReversalRules` | `effectiveSteps`, `ownOptions` of `reversal.service.js` | operators on a history |
| `LotReversal` | `reversal.service.js`, `history.js` for lots | Inspection composed with reversal |
| `DeviationReversal` | `reversal.service.js` for deviations | Deviation composed with reversal |
| `DiscrepancyNote` | `dn.service.js`, files of `attachments.service.js`, reversal for DNs | state machine of one DN |
| `Formats` | `formats.service.js`, `logic/formats.js` | the versions of one item's format |
| `LotIntake` | `sapSync.service.js`, `integrations/sap`, opening of lots in `imir.service.js` | lots from SAP to OPEN |
| `Sessions` | `auth.service.js`, `sessions.js`, force-outs of `users.service.js` | one user's sign-ins, row lock by row lock |
| `MailOutbox` | `mailer.js` | one mail among several workers |
| `MCDeviation`, `MCInspection`, `MCDeviationReversal`, `MCFormats` | | instances with a cast of users or with symmetry; the other modules are instantiated by their `.cfg` |
| `InspectionProofs`, `TabletSyncProofs`, `LotReversalProofs`, `DiscrepancyNoteProofs`, `FormatsProofs` | | theorems of the module of that name |
| `DeviationProofs` | | theorems of `Escalation`, `Deviation` and `DeviationReversal` |
| `ReversalRulesProofs` | | what `ReversalRules` computes, used by the three proofs about histories; its `LeastNatural` by two more |
| `ServiceProofs` | | theorems of `LotIntake`, `MailOutbox` and `Sessions` |

How they compose: `LotIntake` ends where `Inspection` begins (an open lot), `Inspection`
where `Deviation` begins (a held lot, status DEPT_REVIEW) and where a DN is raised; the
reversal modules run beside each of the three records and share `ReversalRules`.

### Deviation

One deviation and its lot. `dev` is the row (`stage`, `dept` = department, `acceptedBy`
= the user of the ACCEPT step in the history (no column), `initiator` = initiator_id,
`form` = a form revision exists, `deptOutcome`, `senior` = senior_effective, `final`,
`due` = qty_due_at, `qty`, `outcome`); `imir` the status of the lot; `round` the last
escalation round with its steps and decisions; `worker` what a timer has read and not
yet handled; `clock` and `asked` the starts of override transactions. Every handler of
`HANDLERS` is an action of the same name; `Move` is `move()`, which keeps the lot's status
in step; `Settle` is `settleRound`, called at the end of every senior action and timeout,
so it is part of those actions.

Data left out: texts, quantities (only whether they were entered), severity, form
revisions beyond the first. Clocks have two values, running and past, which is all that
is ever compared. `rowVersion` is optional on these requests and only refuses what the
client may send again after reading, so it restricts no behaviour. `setInchargeRemark`
writes a text no rule reads, and a history row (`INCHARGE_REMARK`) that could only stand in
the way of a reversal. Several workers read the same ids and find the record
handled under the lock: the single stale read already covers that.

### Inspection

One lot with a set of readings (`Sample`: each EMPTY, OK or NOK). `claim` is claimed_by
with whether the last save is recent; `checkout` the imir_checkout row; `taking` a
checkout between its read and its insert; `granted` the tablets that were answered with
the lot; `page` what each reviewer has loaded and whether the row version is still that
one (every UPDATE of the row bumps it: `Touched`); `history` the rows of imir_action that
reversal reads, with the snapshot (`before`). A save writes any set of cells, so `Save`
has the new readings as its input.

Left out: the reliability log, remarks and lot details (a lot detail or reliability test
judged NOK fails the lot like a NOK reading with no tolerance; with AcceptNo = 0, the
default, the two are the same); `rowVersion` of a web submission, which again the client
may refresh; TAKE_OVER rows of the history, which no rule reads. Deactivating a tablet
deletes its checkouts: `Release` here, `SetActive` in `TabletSync`.

### Refinements

`DeviationCase` says in six actions what the department is told: somebody's answer
stands, the seniors may replace it, handing back wipes it out, and the IQC Head closes the
case as the standing answer says. `Deviation` maps its stage to `phase`, the department's
or seniors' outcome to `answer` (`ImplementsDeviationCase`); forms, rounds, timers and
overrides in an open round are stutters. `LotCard` is one person's card: filled in, judged
when handed in, untouched while it is decided on. `Inspection` maps status, readings and
result (`ImplementsLotCard`); claims, checkouts, pages and who does what are stutters.
TLC checks both step by step in `deviation` and `inspection`, TLAPS proves both.
`TabletSync` is an `Inspection` on the server's side, which TLAPS proves
(`OfflineIsAnInspection`).

### Reversals: ReversalRules, LotReversal, DeviationReversal, DiscrepancyNote

A history is a sequence of rows; `EffectiveSteps` is `effectiveSteps` as a recursive
function over it, `OwnSteps` the part of `ownOptions` all records share. `LotReversal`
adds the pending request, whether a DN exists, and of the deviation only whether it
exists and whether somebody has taken it up, which is what `restoreImir` looks at; two
statuses stand for all those a deviation gives the lot (`Track`). `DeviationReversal`
conjoins every action of `Deviation` with the row it logs (snapshot or not) and adds
request, withdrawal and approval; `RestoreDeviation` puts back the row, gives the lot its
status and ends an open round. `revisions` says that a form was stored, which no reversal
removes.

`DiscrepancyNote`: `dn` is status and whether a CAPA applies, `capas` the review of each
cycle, `page` what each user has loaded, `files` and `pending` the CAPA files with the
upload or removal under way, `late`, `reminded`, `reading` what the worker compares and
what it has read. Texts, lines, quantities and the PDF are left out. A run of reminders is
one row of the history, since no rule tells one from several.

### TabletSync

`recorded` is every operation ever queued (its place is its opId), `queue` those still on
the tablet (sets of opIds, sent in their order), `bundle` its copy of the lot, `screen` an operation applied to the copy and not
yet queued, `sync` the run of `syncNow` between its awaits, `request` the server's end of
each push (it lives on when the tablet has lost the connection), `received` the rows of
sync.client_op, `applied` what took effect, in order. A bundle's `entered` holds the cells
written on this tablet since the lot was taken. `OthersNext` has the saves, submissions and
take-overs of the web and the late saves of other tablets, which are `Inspection`'s own
actions; another tablet's checkouts are left out here and are in `inspection`. Lost
connections, restarts of server and tablet, and deactivations are actions bounded by
`MaxLosses`. Left out: backup files, photos in the queue, entries queued before the store
kept their recorder (`recordedBy` null).

### Formats, LotIntake

`Formats`: `versions` are the format_version rows, each with a status, its base, a content
(checkpoint to value or `Absent`), and the history variable `edited`: the checkpoints
somebody chose in this version. A checkpoint has one field, for which the merge of fields
and the merge of presence are one rule. The header, whose fields merge in the same way, is
left out. A save may add checkpoints with uids nobody has, as the page does; the handler
would take any. Every handler locks its version and the format, so it is one action; the
approval's `discardStaleEmptyDrafts` writes other drafts without locking them first, and a
save of one that commits while it waits is not followed.

`LotIntake`: `date` is what SAP has posted, `pull` the running `runSapSync` with what its
batch and look-up read, `imir` the stored lots, `approval` an approval between its read of
the waiting lots and its commit. A lot is stored in two steps, reading what it needs
(`StoreLot`) and committing. Failing lots, crashes and lots posted late are actions; that none is
posted more than the overlap late is assumed of SAP (`PostLot`). The cursor is that of the API
adapter, the one that asks by date.

### Sessions, MailOutbox

`Sessions`: rows of user_session and refresh_token of one user; `holder` who has which row
lock; `req` a request between its statements. A statement finds its rows in a snapshot,
locks them one by one and looks again; what it changed is seen at commit. `Deadlock` ends a
transaction of a waiting cycle, as PostgreSQL does. SINGLE_SESSION is on, its default.
Left out: passwords and the failed-login counter, the cache of session checks (it only
delays the end of a session), links to reset a password, expiry, tokens from before there
were sessions, and the share lock a new token takes on its user's row.

`MailOutbox`: one row; the others only make it wait in a batch, which is time passing
between `Lease` and `HandOver`. `delivered` counts how often the mail server took it,
`excused` how often a crash, a lost answer or an outlasted lease made a repetition
unavoidable.

## 3. Runs

| run | distinct states | what it shows |
|---|---|---|
| `deviation` | 837,385 | nine properties of the deviation and its refinement of `DeviationCase` |
| `inspection` | 410,361 | results, informed reviews, refinement of `LotCard` |
| `lot_reversal` | 365,131 | reversal undoes what it may and nothing else, and leaves no trace |
| `deviation_reversal` | 710,532 | after any reversals lot, round and row agree, and endorsement still holds |
| `discrepancy_note` | 1,389,036 | CAPA cycles, informed reviews, reminders and reversals of a DN |
| `tablet_sync` | 1,254,818 | nothing recorded offline is lost or misattributed; first effects come in order; nothing from elsewhere gets into a lot on the tablet |
| `formats` | 1,685,235 | one approved version, released content final, no approved change taken back |
| `lot_intake` | 316,533 | no lot slips past the cursor; every storable lot arrives |
| `sessions` | 243,911 | one sign-in, ended is ended, every request ends |
| `mail_outbox` | 211,218 | at most once but for the unavoidable; a mail settles |
| `photo_race` | violated | a photo reaches a lot that has been submitted |
| `stranded_lot` | violated | a lot with nothing missing any more keeps waiting |

The two violated properties state what the source says of the program; `findings` quotes
each line and the code that does otherwise.

### Properties

Each component's type invariant is a conjunct of its first safety invariant, except in
`Deviation` and `Inspection`, where it is `TypeOK`.

Deviation:
- `AcceptedLotIsEndorsed`, `RejectedLotIsEndorsed`: however the deviation reached its end
  (sent back, changed in type, escalated twice, overridden), acceptance rests on a form
  and on a department's or the seniors' approval and never stands against a senior
  rejection; rejection rests on a senior rejection or on a department's refusal no
  senior lifted. Violating one needs a field left over from an earlier loop.
- `SeniorOutcomeIsTheRounds`: the deviation's row and the round agree. They are written
  by different handlers (settle, override after the round).
- `OpenRoundWaitsForSomeone`: no interleaving of decisions and timeouts leaves an open
  round nobody can close.
- `HighestAuthorityPrevails`: rules 1 to 3 restated on a closed round, independently of
  the resolution's own computation.
- `DecisionsStand`, `ClosedStaysClosed`: a timer that read a round or a deviation as due
  changes nothing that was decided or closed meanwhile.
- `TimedWaitsEnd`: with the worker running, the two waits that have a timer end: for the
  Operations Head's decision, and for the quantities, returned ones included. The other waits
  (for a department, the IQC Head, other seniors, the In-Charge's check of the quantities)
  have none and may last for ever, in the code too.

Inspection:
- `SubmittedResultIsOfReadings`: from submission on, the stored result is that of the
  stored readings, all of them present.
- `InformedReview`: whoever takes a lot out of review had its readings on the page.

Reversal:
- `StatusIsOfTheHistory`: the lot is where the last step in effect took it.
- `DeviationIffHeld`: it has a deviation, and a status of the deviation's, exactly while
  its hold is in effect.
- `OnlyOwnStepsUndone`, `OthersDecisionsStand`: a reversal removes no step of anybody but
  the requester (and timers), though others may act, and bring the record back to the
  same status, between request and approval.
- `LotAndRoundFollow`: lot status, stage and open round stay together across reversals.
- `ClosuresEndorsed`: the endorsement rules of `Deviation`, with decisions undone and made
  again on the way.

DN:
- `ReviewsFollowStatus`: a cycle awaits its review only as the latest of a DN with the
  head, and is approved only as the latest of a closed one, reversals included.
- `InformedCapaReview`: nobody closes or sends back a DN on an old page.
- `OthersStepsStand`: a reversal takes back nobody else's submissions and reviews, though the
  DN may have come to the same status again between request and approval.
- `OverdueCapaReminded`: an overdue CAPA is reminded of.

Tablet:
- `EntriesAccountedFor`: an entry is on the tablet or the server has its outcome.
- `AcceptedTookEffect`: what the server calls accepted took effect.
- `CreditedToRecorder`: work is credited to its recorder, whoever signs in between listing
  and sending.
- `DecidedInOrder`: with a lost push still running beside its retry, no entry takes effect
  while an earlier one of its recorder is undecided, and one that takes effect after a later
  one had its outcome before: only repetitions come out of order (`EffectsInOrder` below).
- `LotStaysAsTaken`: while the lot is on this tablet, a reading that differs from the
  tablet's copy was entered on this tablet; releases, take-overs, deactivations and the late
  pushes of another tablet that had the lot before bring nothing else in.
- `EntriesGetSent`: while its recorder stays signed in, an entry is sent and answered.

Formats and intake:
- `OneApprovedVersion`, `ReleasedContentStays`: whatever is approved, merged, replaced or
  resolved late.
- `OnlyEditedChecksChange`: an approval changes a checkpoint only if somebody chose its
  value in that draft; no older draft takes back a newer approved change.
- `NothingSlipsPast`: the next pull asks for every posted lot that is not stored,
  whatever failed or crashed, as long as SAP posts no lot later than the overlap.
- `LotsArrive`: one lot that keeps failing does not stop the others.

Sign-ins and mail:
- `OneSignIn`, `EndedStaysEnded`: one open session and one live token each; an ended session
  gets no token, not even from a refresh under way.
- `RequestsEnd`: no way out of a request leaves its transaction and its locks open. The lock
  orders of sign-in, refresh and force-out differ; the circles they form are broken by
  PostgreSQL, whatever the orders, so this is no statement on them.
- `AtMostOnce`: two deliveries of a mail always have one of the three unavoidable causes.
- `MailSettles`: late workers write old attempt counts over newer ones, and still the mail
  ends SENT or FAILED.

Each property has a *mutant*, an operator marked "Broken variant" just above the
definition it would replace: a plausible slip (a forgotten guard, a missing reset, a
timer that trusts its stale read) with which TLC finds that property violated.

### What the source says of itself and does not do

These statements are definitions at the end of the modules, under the header "What a
comment says ...". The last two have runs. For the others TLC finds a counterexample when
the name is put into the module's `.cfg`, for `LatestOverrideIsFinal` with
`MaxOverrides = 2`, for `RemindersTwoDaysApart` with two workers and for `AtMostMaxFiles` with
`MaxFiles = 1`.

| property (module) | what the source says, and what happens |
|---|---|
| `LatestOverrideIsFinal` (Deviation) | overrides take the lock in another order than they began; the row keeps the one begun earlier |
| `AccepterMayAct` (Deviation) | an admin who stands in for the accepter once becomes the initiator, and the accepter is locked out |
| `HeldLotIsNotTaken` (Inspection) | `sync.service.js:81` refuses a lot another inspector holds; it reads the claim without a lock, and the lot is taken although somebody began to hold it meanwhile |
| `TakenLotIsTheTablets` (Inspection) | two checkouts that read before either inserted are both told the lot is theirs |
| `SubmittedResultIsOfReadings` (in LotReversal) | a reversed sending back brings the old result back over readings saved since |
| `DnLotIsEscalated` (LotReversal) | a DN can be raised on an escalation that was undone |
| `AppliedOnce` (TabletSync) | a crash, or a second push, between applying and recording applies an operation twice |
| `EffectsInOrder` (TabletSync) | `sync.service.js:122` "in order"; a push beside its retry applies 1, 2 and 1 again, which puts back a reading that was corrected |
| `RefusedHasNoEffect` (TabletSync) | one of two pushes is refused the entry and stores that, the other applies it |
| `FilesJoinTheNextCycle` (DiscrepancyNote) | an upload that began before a submission and ends when the DN is open again joins the cycle already reviewed |
| `AtMostMaxFiles` (DiscrepancyNote) | uploads at the same moment all count the files before any is added |
| `CapaWhereItApplies` (DiscrepancyNote) | a DN submitted without a CAPA is sent back, edited so that one applies, and the sending back is undone: the DN is in review without a cycle |
| `RemindersTwoDaysApart` (DiscrepancyNote) | two workers that read before either reminded both remind |
| `SubmittedEvidenceKept` (DiscrepancyNote) | a removal checked before the DN was submitted removes the file afterwards |
| `GivenBackIsNotTakenUp` (DeviationReversal) | an undone acceptance leaves form revisions and rounds, so the hold cannot be undone |
| `OutcomeIsTheRounds` (DeviationReversal) | undoing an override restores the row's outcome and not the round's |
| `ConflictHasAClash` (Formats) | a late resolution may find no clash left; the draft stays in CONFLICT with nothing to resolve |
| `NeverTwice` (MailOutbox) | `mailer.js:35` "several workers never send the same mail twice"; a batch that outlasts its lease is taken again |
| `PhotosOnlyWhileInspected` (LotPhotos) | run `photo_race` |
| `WaitingLotOpens` (LotIntake) | run `stranded_lot` |

One more was seen and is not modelled: `ensureAnotherAdmin` (`users.service.js:185`)
"refuses a change that would leave no active System Admin", but locks only its target; two
admins who deactivate each other at once each count the other.

### Bounds, and why they are enough

- `deviation`: `MaxRounds = 2`: everything a round carries over to the next (outcome,
  number, the worker's stale id) shows with two. `MaxOverrides = 1`; the proofs lift both.
  `Selectable` = PDC, CQA and Operations: the three with special rules; the other two differ
  only by rank, and the proofs cover all five. `FormAction` = UAI and REWORK: SEGREGATION
  takes the same branch as REWORK. Six users: each role that interacts has a holder, and
  a System Admin stands in for all.
- `inspection`: two inspectors and two tablets contend, the head is an In-Charge too;
  two samples tell complete from incomplete and a partial save from a full one;
  `AcceptNo = 0` is the default plan. `MaxSteps = 4` history rows allow submit,
  sending back, second submit and a decision, which is what a stale page needs.
- `lot_reversal`: six history rows, one sample, no tablets (their contention is checked in
  `inspection`): a step, its reversal, the step again and a second reversal with
  others' steps between.
- `deviation_reversal`: three users, seven history rows, one selectable authority, two
  rounds: enough to escalate, undo, and escalate again with an override in flight. The
  rules of one round are checked, and proved, in `Deviation`.
- `discrepancy_note`: five rows (two cycles and a reversal), two files with room for both,
  one worker (a second one only repeats reminders).
- `tablet_sync`: two inspectors share the tablet, one of them also works on the web and on a
  second tablet, whose saves may arrive at any time; two entries (an order, a save before a
  submission), two pushes at once (the first one lost, its retry), one fault.
- `formats`: four versions, two of them open at once, two checkpoints and two values: two
  sides change the same or different checkpoints, and a third version is approved while a
  conflict waits.
- `lot_intake`: three lots, one readable only after its plant is known, one unreadable,
  one plain; four days with an overlap of one; two faults; one approval beside the pull.
- `sessions`: three requests at the same time on a user with an open session, a rotated and
  a live token; three lock orders exist (user first, sessions first, token first), so
  three requests reach every cycle of waiting.
- `mail_outbox`: two workers, three attempts, a lease of three minutes and delays of two and
  four: as with the code's 5 minutes and delays of 2, 4, 8 ..., the first retry falls within
  another worker's lease and a later one after it.
- Symmetry: `MCInspection` (inspectors, tablets) and `MCFormats` (checkpoints, values), whose
  properties are invariants and action properties; no operator distinguishes the
  permuted values.
- Deadlock is checked in `lot_intake`. Elsewhere the record stops when it is closed, or
  the bounds stop it.

### Fairness

No user is assumed ever to act; only what runs by itself is fair.

- `Deviation`, `DiscrepancyNote` (`WorkerFairness`): weak fairness on time passing, on the
  worker's reads and on the handling of what was read: `worker.js` runs its timers every
  five minutes, logs a failed job and carries on, and is restarted as a service. A handler
  that keeps failing is not in the model (a hazard: one failing round stops the ones after
  it in that tick).
- `TabletSync`: `syncNow` is tried every minute and when the network is back, and the server
  works off a push it has accepted (`SyncRuns`, each `PushRuns(r)`). Faults are bounded, so
  there is a time after the last.
- `LotIntake`: the pull goes on (`PullNext`) and a transaction of an approval ends; that SAP
  posts, or anybody adds a plant or a series, is not assumed.
- `Sessions`: each request's next statement (`Step(p)`) runs once its rows are free.
- `MailOutbox`: minutes pass, `mailTick` runs, and handing a mail over returns.

## 4. Proofs

Every invariant, action property and refinement that a passing run checks is also proved,
for all values of the constants: any users, roles, samples, tablets, checkpoints, workers
and requests, histories of any length. TLC found the properties true on the instances of
section 3 first, and most of the invariants below as well.

| module | theorems | assumptions |
|---|---|---|
| `ReversalRulesProofs` | `EffectiveIsNotUndone`, `OwnStepsUndoOwnSteps` | none |
| `DeviationProofs` | rules of a round: `AllDecidedIsComplete`, `SettledFollowsTheRanks`; deviation: `TypeCorrect`, `AcceptanceEndorsed`, `RejectionEndorsed`, `SeniorOutcomeAgrees`, `NoStuckRound`, `HighestPrevails`, `ClosedIsFinal`, `RecordedDecisionsStand`, `DeviationIsACase`; with reversals: `LotAndRoundAlwaysFollow`, `ClosuresStayEndorsed`, `OnlyTheAskersDecisionsGo` | `ConstantsAssumption`: roles are a function on users, bounds are naturals; `ReversalAssumption`: None is no admin |
| `InspectionProofs` | `TypeCorrect`, `ResultIsOfReadings`, `ReviewIsInformed`, `InspectionIsACard` | `InspectionAssumption`: at least one sample, finitely many, None is no user or tablet |
| `LotReversalProofs` | `StatusFollowsTheHistory`, `HeldWithItsDeviation`, `OnlyTheAskersStepsGo` | the same, and `AdminAssumption`: None is no admin |
| `TabletSyncProofs` | `OfflineIsAnInspection`, `NoEntryLost`, `AcceptedIsApplied`, `RecorderIsCredited`, `FirstDecidedInOrder`, `NothingFromElsewhere` | the same as `Inspection`, and `TabletAssumption` |
| `DiscrepancyNoteProofs` | `ReviewsAreOfTheStatus`, `CapaReviewIsInformed`, `OnlyTheAskersNoteStepsGo` | `NoteAssumption`: distinct names, bounds are naturals |
| `FormatsProofs` | `OneVersionIsApproved`, `ReleasedStays`, `OnlyEditsReachTheApproved` | `FormatsAssumption`: Absent is no value, bounds are naturals |
| `ServiceProofs` | `NoLotSlipsPast`, `MailGoesOutOnce`, `OneSignInAtATime`, `EndedForGood` | `IntakeAssumption`, `OutboxAssumption`, `SessionsAssumption`: bounds are naturals, the lease is positive, Nobody is no request |

Each theorem about a run follows one pattern: the initial states satisfy the inductive
invariant, each action keeps it (one lemma or step per action, one conjunct a step below),
and the property follows from it, for an action property with one more case per action.

**Deviation.** The properties are not inductive: that the final rejection is endorsed
depends on which outcomes the row can hold in each stage, and that nobody is stuck on
what a step's status says about the recorded decisions. The invariant has two parts:

    TrackInv == TypeOK /\ LotFollows /\ StageInv(dev) /\ RoundFollows
    IInv     == TrackInv /\ OutcomeInv

`LotFollows`: the lot's status is that of the stage. `StageInv`: which columns hold what in
each stage, in particular that no old senior outcome survives a return to the department.
`RoundFollows`: the deviation is at the seniors exactly while the round is open, and in an
open round recorded decisions agree with the steps, nobody has overridden it, the rules
have no answer yet and somebody is still asked. `OutcomeInv`: the senior outcome is the last
round's, which obeys the rules. Senior actions and the timeout share lemmas on `Settle`,
which rest on `AllDecidedIsComplete` and `SettledFollowsTheRanks`. The action properties and
the refinement of `DeviationCase` follow from `IInv`: `StageInv` is what makes the mapped
`answer` change only where `DeviationCase` lets it.

**Deviation with reversals.** `ReversalInv` is `TrackInv` of the deviation and of every row
the history has kept (`Sound`): restoring one is then as good as never having left it.
`OutcomeInv` is not kept, and the code does not keep it: a reversal that takes back an
override restores the row's outcome and not the round's (`OutcomeIsTheRounds` in section 3).
Every handler is therefore proved to keep `TrackInv` alone, and `OutcomeInv` where it held.

**Inspection.** `IInv == TypeOK /\ SubmittedResultIsOfReadings /\ FreshPageIsCurrent`: a
page whose row version still matches shows the present readings and result. That part is
needed because a review reads the page, not the row. The refinement of `LotCard` needs the
first two parts: the verdict handed in is the judgement of the card.

**The rules of reversal.** `effectiveSteps` is a loop over the history, here a recursive
function. `EffectiveIsNotUndone` gives its meaning without a loop, for every history: a step is
in effect exactly if no later reversal goes back to it or before it. An induction over
histories is out of the provers' reach; in its place `LeastNatural` (every non-empty set of
naturals has a least element, from the well-foundedness of strict inclusion on finite
sets) names the first place at which two functions obeying the same equation would
differ. The record's proofs use it as lemmas on the row a step appends.

**Lot reversal.** `EffectInv`: each step in effect was taken where the steps before it, still
in effect, had left the lot, and nothing follows a hold. A reversal keeps a beginning of the
steps in effect, so the row it restores is the one those steps led to. Only with that is
"the lot is where the last step in effect took it" inductive.

**Discrepancy note.** `HistoryInv`: what a row kept of the DN was in order, and later rows in
effect were taken with no fewer CAPA cycles, so a restored DN still has the cycles it had,
and those before its last one were sent back. Without the second half a reversal could
restore a status to other cycles than it belonged to. `OthersStepsStand` rests on
`OwnStepsUndoOwnSteps` at the moment of approval, not of the request.

**Tablet.** `OfflineIsAnInspection` shows step by step that what tablets record offline, push,
push again and lose the answer of is a behaviour of `Inspection`; its corollary carries
`Inspection`'s theorems over. `SentInv` follows an entry from the tablet's store over the batch
of a run and the operations of a push to its stored outcome, so that none falls between
two of them; `PushInv` says what a push holds between its transactions, `OrderInv` that an
earlier entry of the same inspector is decided or in the same batch or push. `DecidedInOrder`
needs one invariant more, `DecidedBefore`: whatever came before an entry that took effect has
its outcome, so an entry that takes effect after a later one is a repetition.
`LotStaysAsTaken` is inductive with `OfflineIsAnInspection`'s facts: a save is let in only
from whoever may record, which while the lot is checked out is this tablet alone.

**Formats.** `NumberInv`: one version is approved, its number is above all others and is the
count of released versions. `DraftInv`: an open version differs from its base only in what
was edited in it; with bases released, hence never written again, an approval moves a
checkpoint of the approved version only where somebody edited it.

**SAP pull.** `CatchInv`: every posted lot that is not stored is in the batch being worked
on or dated at or after the day the next pull starts from, should this one end as it
stands. What it needs of the batch is `AheadInv`: lots not yet looked at are not earlier than
where a failure goes back to. A crash leaves the old cursor, of which the same holds.

**Mail.** A mail is delivered at most once more than was excused. `CountInv` counts the workers
holding it with the deliveries, and says when one more is to spare; where none is, some
worker holds the mail and it comes due again only after that worker's lease has run out,
which is what excuses a repetition.

**Sign-ins.** The invariant says what each request relies on under the locks it holds
(`HeldInv`), and of a sign-in that it holds the user's row from before it looks for earlier
sessions until it commits, so that the open sessions are among those it found or will end
(`LoginInv`). `OthersKeepTheirs` is the heart of it: sessions and tokens change only under the
row locks of the request that changes them, so what the others have read stays true.
Aborting a request in a deadlock keeps it trivially, whichever request is chosen.

**Only model-checked.** Liveness, which rests on fairness: `TimedWaitsEnd`,
`OverdueCapaReminded`, `EntriesGetSent`, `LotsArrive`, `RequestsEnd` and `MailSettles`. The two
violated properties have counterexamples and no theorem.

## 5. Not modelled, and why

- Screens, reports, search, task lists and the audit pages change no state; the services
  enforce again every rule a screen shows.
- Administration of users, roles, networks and masters, support and system pages: edits of
  single rows outside the lot's life (but see the last admin above).
- Document numbering: a counter under a row lock and a unique key; patterns are formatting.
- Limits of a reading, sampling tables, reliability dates: tables and arithmetic on one lot,
  covered by the repository's unit tests; the model takes a reading as OK or NOK.
- Parsing of spreadsheets and of SAP fields, the PDF, texts of notifications and who gets
  them.
- The cache of session checks, the failed-login counter, reset links, backup files of the
  tablet.
- A deadlock between transactions of the workflow aborts one of them as a whole, which
  equals its not having run; in `Sessions`, where the lock orders differ, it is modelled.

## 6. Plan

Modelled and checked: all of section 2. Proved: every safety and action property and both
refinements. Open, in this order:

1. The reverse of what reversal may: that a reversal approved at once restores the record
   exactly, as theorems of `LotReversal` and `DeviationReversal`.
2. `DeviationReversal` without reversals is `Deviation`: every step that undoes nothing maps to
   a step or a stutter, so `DeviationCase` holds up to the first reversal.
3. The bounds of `LotIntake` and `MailOutbox` as lemmas on their operators (`From`, `Retry`), stated
   for any overlap and delay.
4. The hazards of `PROJECT.json` that have a note and no property.
