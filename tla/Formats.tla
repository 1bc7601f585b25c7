------------------------------ MODULE Formats ------------------------------
(***************************************************************************)
(* The versions of one item's inspection format: drafts started, edited,   *)
(* submitted, rejected, discarded, imported, approved by fast-forward,     *)
(* merge or replacement, and their conflicts resolved.                     *)
(* backend/src/modules/formats/formats.service.js, with the three-way      *)
(* merge of packages/shared/src/logic/formats.js.                          *)
(*                                                                         *)
(* The content of a version gives each checkpoint (a uid) a value, or      *)
(* Absent. A checkpoint has one field here, for which the merge of fields  *)
(* and of presence is one rule. The header, whose fields merge like those  *)
(* of a checkpoint and which a blank draft copies from the current version,*)
(* is left out. Every handler locks its version, and the format before it  *)
(* compares the version's base with the current one: one action each.      *)
(* Who may do what, and the refusal of a page's old rowVersion, are left   *)
(* out: they only make steps rarer.                                        *)
(***************************************************************************)
EXTENDS Naturals, Sequences, FiniteSets

CONSTANTS
  Check,         \* checkpoint uids
  Value,         \* what a checkpoint may ask for
  Absent,        \* the checkpoint is not in the version
  MaxVersions,   \* bound: versions of the format
  MaxOpen        \* bound: versions open at the same time

ASSUME FormatsAssumption == Absent \notin Value /\ MaxVersions \in Nat /\ MaxOpen \in Nat

VARIABLES
  versions,   \* format_version rows in order of creation; a row's id is its place
  current     \* format.current_version_id, 0 if no version was approved yet

vars == <<versions, current>>

Version == DOMAIN versions
Content == [Check -> Value \cup {Absent}]
Empty == [c \in Check |-> Absent]

\* EMPTY stands for the content of a base that does not exist.
ContentOf(v) == IF v = 0 THEN Empty ELSE versions[v].content

Editable == {"DRAFT", "REJECTED"}
Open == {"DRAFT", "REJECTED", "PENDING_APPROVAL", "CONFLICT"}
Released == {"APPROVED", "SUPERSEDED"}

ChecksIn(content) == {c \in Check : content[c] # Absent}
Unused == {c \in Check : \A v \in Version : c \notin ChecksIn(versions[v].content)}

-----------------------------------------------------------------------------
(* mergeVersions *)

\* A checkpoint the base does not have is taken from the draft if the draft has it.
Pick(base, theirs, mine) ==
  CASE base = Absent -> IF mine # Absent THEN mine ELSE theirs
    [] mine = base   -> theirs
    [] OTHER         -> mine

Clashes(base, theirs, mine) ==
  {c \in Check : base[c] # Absent /\ Cardinality({base[c], theirs[c], mine[c]}) = 3}

\* Where both sides changed a field differently, the choice decides.
Merged(base, theirs, mine, choice) ==
  [c \in Check |-> IF c \in Clashes(base, theirs, mine) THEN choice[c] ELSE Pick(base[c], theirs[c], mine[c])]

MergeOntoCurrent(v, choice) == Merged(ContentOf(versions[v].base), ContentOf(current), ContentOf(v), choice)
ClashesOf(v) == Clashes(ContentOf(versions[v].base), ContentOf(current), ContentOf(v))

-----------------------------------------------------------------------------
(* Drafts *)

\* edited: the checkpoints somebody chose the value of in this version. clash, against: the open
\* conflicts and the version they were computed with.
NewVersion(status, base, content) ==
  [status |-> status, base |-> base, content |-> content, no |-> 0, clash |-> {}, against |-> 0,
   edited |-> {c \in Check : content[c] # ContentOf(base)[c]}]

Init == versions = <<>> /\ current = 0

\* A draft starts blank, as a copy of a released version, or with checkpoints from elsewhere, which
\* get new uids.
CreateDraft(content) ==
  /\ Len(versions) < MaxVersions /\ Cardinality({v \in Version : versions[v].status \in Open}) < MaxOpen
  /\ \/ ChecksIn(content) \subseteq Unused
     \/ \E v \in Version : versions[v].status \in Released /\ content = ContentOf(v)
  /\ versions' = Append(versions, NewVersion("DRAFT", current, content))
  /\ UNCHANGED current

\* Broken variant: the version may have been submitted or released since the page was opened.
SaveDraftUnchecked(v, content) ==
  /\ versions' = [versions EXCEPT ![v].content = content,
                                  ![v].edited = @ \cup {c \in Check : content[c] # versions[v].content[c]}]
  /\ UNCHANGED current

\* The whole content is replaced. A checkpoint that is added brings no uid and gets a new one: the
\* handler would take any, the page sends only those of the draft.
SaveDraft(v, content) ==
  /\ versions[v].status \in Editable
  /\ ChecksIn(content) \subseteq ChecksIn(ContentOf(v)) \cup Unused
  /\ versions' = [versions EXCEPT ![v].status = "DRAFT", ![v].content = content,
                                  ![v].edited = @ \cup {c \in Check : content[c] # versions[v].content[c]}]
  /\ UNCHANGED current

Submit(v) ==
  /\ versions[v].status \in Editable /\ versions[v].content # Empty
  /\ versions' = [versions EXCEPT ![v].status = "PENDING_APPROVAL"]
  /\ UNCHANGED current

Discard(v) ==
  /\ versions[v].status \in Open
  /\ versions' = [versions EXCEPT ![v].status = "DISCARDED"]
  /\ UNCHANGED current

Reject(v) ==
  /\ versions[v].status \in {"PENDING_APPROVAL", "CONFLICT"}
  /\ versions' = [versions EXCEPT ![v].status = "REJECTED"]
  /\ UNCHANGED current

-----------------------------------------------------------------------------
(* Approval *)

VersionNos == {versions[x].no : x \in Version}
NextVersionNo == 1 + CHOOSE n \in VersionNos : \A m \in VersionNos : m <= n

\* discardStaleEmptyDrafts, part of the approval: one statement on rows that are not locked before.
\* A save of such a draft that commits while the statement waits for its row is not followed.
StaleEmpty(x, v) ==
  /\ x # v /\ versions[x].status = "DRAFT"
  /\ versions[x].base # v /\ versions[x].content = Empty

\* Broken variant: the version it replaces stays approved.
FastForwardBeside(v, content, edited) ==
  /\ versions' = [versions EXCEPT ![v] = [@ EXCEPT !.status = "APPROVED", !.content = content, !.base = current,
                                                   !.no = NextVersionNo, !.edited = edited]]
  /\ current' = v

\* The version is the approved one from now on; the one it replaces is superseded.
FastForward(v, content, edited) ==
  /\ versions' =
       [x \in Version |->
          IF x = v THEN [versions[x] EXCEPT !.status = "APPROVED", !.content = content, !.base = current,
                                            !.no = NextVersionNo, !.edited = edited]
          ELSE IF x = current THEN [versions[x] EXCEPT !.status = "SUPERSEDED"]
          ELSE IF StaleEmpty(x, v) THEN [versions[x] EXCEPT !.status = "DISCARDED"]
          ELSE versions[x]]
  /\ current' = v

Approve(v) ==
  /\ versions[v].status = "PENDING_APPROVAL" /\ versions[v].base = current
  /\ FastForward(v, ContentOf(v), versions[v].edited)

\* A draft older than the first version, with the approver's mode REPLACE.
ApproveAsReplacement(v) ==
  /\ versions[v].status = "PENDING_APPROVAL" /\ versions[v].base = 0 /\ current # 0
  /\ FastForward(v, ContentOf(v), Check)

ApproveMerged(v) ==
  /\ versions[v].status = "PENDING_APPROVAL" /\ versions[v].base \notin {0, current}
  /\ ClashesOf(v) = {}
  /\ FastForward(v, MergeOntoCurrent(v, Empty), versions[v].edited)

ApproveClashing(v) ==
  /\ versions[v].status = "PENDING_APPROVAL" /\ versions[v].base \notin {0, current}
  /\ ClashesOf(v) # {}
  /\ versions' = [versions EXCEPT ![v].status = "CONFLICT", ![v].clash = ClashesOf(v), ![v].against = current]
  /\ UNCHANGED current

\* openConflicts: without an open conflict there is no version they were computed with.
Against(v) == IF versions[v].clash = {} THEN 0 ELSE versions[v].against

\* Broken variant: the draft is put on the new base with the content it had.
ResolveKeepingMine(v, choice) ==
  /\ versions[v].status = "CONFLICT" /\ Against(v) = current
  /\ versions' = [versions EXCEPT ![v].status = "PENDING_APPROVAL", ![v].base = current, ![v].clash = {},
                                  ![v].content = [c \in Check |-> IF c \in versions[v].clash THEN choice[c] ELSE @[c]]]
  /\ UNCHANGED current

\* Every conflict gets a value (theirs, mine or another); the draft is on the new base.
Resolve(v, choice) ==
  /\ versions[v].status = "CONFLICT" /\ Against(v) = current
  /\ versions' = [versions EXCEPT ![v].status = "PENDING_APPROVAL", ![v].base = current, ![v].clash = {},
                                  ![v].content = MergeOntoCurrent(v, choice),
                                  ![v].edited = @ \cup versions[v].clash]
  /\ UNCHANGED current

\* Another version was approved meanwhile: the conflicts are computed again.
ResolveLate(v) ==
  /\ versions[v].status = "CONFLICT" /\ Against(v) # current
  /\ versions' = [versions EXCEPT ![v].clash = ClashesOf(v), ![v].against = current]
  /\ UNCHANGED current

\* The spreadsheet import approves a first version directly.
Import(content) ==
  /\ current = 0 /\ Len(versions) < MaxVersions
  /\ content # Empty /\ ChecksIn(content) \subseteq Unused
  /\ versions' =
       Append([x \in Version |-> IF StaleEmpty(x, 0) THEN [versions[x] EXCEPT !.status = "DISCARDED"] ELSE versions[x]],
              [NewVersion("APPROVED", 0, content) EXCEPT !.no = 1])
  /\ current' = Len(versions) + 1

DraftNext ==
  \/ \E content \in Content : CreateDraft(content)
  \/ \E v \in Version, content \in Content : SaveDraft(v, content)
  \/ \E v \in Version : Submit(v) \/ Discard(v) \/ Reject(v)

ApprovalNext ==
  \/ \E v \in Version :
       Approve(v) \/ ApproveAsReplacement(v) \/ ApproveMerged(v) \/ ApproveClashing(v) \/ ResolveLate(v)
  \/ \E v \in Version, choice \in Content : Resolve(v, choice)
  \/ \E content \in Content : Import(content)

Next == DraftNext \/ ApprovalNext

Spec == Init /\ [][Next]_vars

-----------------------------------------------------------------------------
(* What the format promises *)

VersionRow ==
  [status : Open \cup Released \cup {"DISCARDED"}, base : 0..MaxVersions, content : Content,
   no : 0..MaxVersions, clash : SUBSET Check, against : 0..MaxVersions, edited : SUBSET Check]

\* The rows keep their types, and the format's approved version is the only one: the latest number,
\* which the database's unique indexes would otherwise refuse (fastForward, the import).
OneApprovedVersion ==
  /\ versions \in Seq(VersionRow) /\ current \in 0..Len(versions)
  /\ {v \in Version : versions[v].status = "APPROVED"} = {current} \ {0}
  /\ \A v \in Version : versions[v].no # 0 <=> versions[v].status \in Released
  /\ \A v \in Version \ {current} : current # 0 => versions[v].no < versions[current].no

\* A version keeps its content once it is approved, also after it is superseded: lots are inspected
\* against the version they were opened with (saveDraft, merges and resolutions of later drafts).
ReleasedContentStays ==
  [][\A v \in Version : versions[v].status \in Released => versions'[v].content = versions[v].content]_vars

\* An approval changes a checkpoint of the approved version only if somebody chose its value in the
\* approved draft: nobody's approved change is taken back by a draft that is merely older, through
\* merges, conflicts and their resolution (approve, resolveConflicts).
OnlyEditedChecksChange ==
  [][current # 0 /\ current' # current =>
       \A c \in Check : versions'[current'].content[c] # versions[current].content[c] =>
         c \in versions'[current'].edited]_vars

-----------------------------------------------------------------------------
(* What the code says of itself and does not do *)

\* "clashes put the draft in CONFLICT for someone to resolve": there is a clash to resolve.
ConflictHasAClash == \A v \in Version : versions[v].status = "CONFLICT" => versions[v].clash # {}
=============================================================================
