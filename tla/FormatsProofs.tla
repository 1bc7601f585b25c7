---------------------------- MODULE FormatsProofs ----------------------------
(***************************************************************************)
(* Theorems of Formats, for any checkpoints and values and any number of   *)
(* versions.                                                               *)
(*                                                                         *)
(* An approval moves a checkpoint only where somebody edited the draft     *)
(* because of DraftInv: an open version differs from the base it is        *)
(* compared with only in what was edited, and that base is released, so    *)
(* its content stays. NumberInv counts: the last version number is the     *)
(* number of versions released so far.                                     *)
(***************************************************************************)
EXTENDS Formats, FiniteSetTheorems, TLAPS

-----------------------------------------------------------------------------
(* The inductive invariant *)

ReleasedVersions == {v \in Version : versions[v].status \in Released}

RowInv ==
  /\ versions \in Seq(VersionRow) /\ Len(versions) <= MaxVersions
  /\ current \in 0..Len(versions)

NumberInv ==
  /\ {v \in Version : versions[v].status = "APPROVED"} = {current} \ {0}
  /\ \A v \in Version : versions[v].no # 0 <=> versions[v].status \in Released
  /\ current = 0 => \A v \in Version : versions[v].no = 0
  /\ current # 0 =>
       /\ \A v \in Version \ {current} : versions[v].no < versions[current].no
       /\ versions[current].no = Cardinality(ReleasedVersions)

\* A base is a released version, if there is one.
BaseInv == \A v \in Version : versions[v].base \in {0} \cup ReleasedVersions

BaseContent(rows, base) == IF base = 0 THEN Empty ELSE rows[base].content

DiffersInEdited(row, base) == \A c \in Check : row.content[c] # base[c] => c \in row.edited

DraftInv ==
  \A v \in Version : versions[v].status \in Open => DiffersInEdited(versions[v], BaseContent(versions, versions[v].base))

FormatInv == RowInv /\ NumberInv /\ BaseInv /\ DraftInv

LEMMA Statuses ==
  /\ Open \cap Released = {} /\ "DISCARDED" \notin Open \cup Released
  /\ "APPROVED" \in Released /\ "SUPERSEDED" \in Released
  BY DEF Open, Released

LEMMA Bounds ==
  ASSUME RowInv
  PROVE  /\ Len(versions) \in Nat /\ MaxVersions \in Nat /\ Version = 1..Len(versions)
         /\ Version \subseteq 0..MaxVersions /\ current \in 0..MaxVersions
         /\ \A v \in Version : versions[v] \in VersionRow
         /\ current # 0 => current \in Version
  BY FormatsAssumption DEF RowInv, Version

LEMMA ContentType ==
  ASSUME RowInv, NEW v \in {0} \cup Version
  PROVE  ContentOf(v) \in Content
<1>1. Empty \in Content
  BY DEF Empty, Content
<1>2. ASSUME v # 0 PROVE versions[v].content \in Content
  BY <1>2, Bounds DEF VersionRow
<1> QED BY <1>1, <1>2 DEF ContentOf

\* The approved version, and every released one, is one that is not open.
LEMMA CurrentIsReleased ==
  ASSUME RowInv, NumberInv, current # 0
  PROVE  current \in ReleasedVersions
  BY Bounds, Statuses DEF NumberInv, ReleasedVersions

-----------------------------------------------------------------------------
(* A step of one open version *)

LEMMA OpenVersionKeeps ==
  ASSUME FormatInv, NEW v \in Version, versions[v].status \in Open, UNCHANGED current,
         NEW row \in VersionRow, versions' = [versions EXCEPT ![v] = row],
         row.status \in Open \cup {"DISCARDED"}, row.no = versions[v].no,
         row.base \in {0} \cup ReleasedVersions,
         row.status \in Open => DiffersInEdited(row, BaseContent(versions, row.base))
  PROVE  FormatInv'
<1> USE DEF FormatInv
<1>1. /\ versions' \in Seq(VersionRow) /\ Len(versions') = Len(versions) /\ Version' = Version
      /\ versions'[v] = row /\ \A x \in Version \ {v} : versions'[x] = versions[x]
  <2>1. versions \in Seq(VersionRow) /\ v \in 1..Len(versions)
    BY Bounds DEF RowInv
  <2> HIDE DEF FormatInv, VersionRow
  <2> QED BY <2>1 DEF Version
<1>2. RowInv'
  BY <1>1 DEF RowInv
<1>3. v \notin ReleasedVersions /\ versions'[v].status \notin Released /\ versions[v].no = 0
  BY <1>1, Statuses DEF ReleasedVersions, NumberInv
<1>4. ReleasedVersions' = ReleasedVersions
  BY <1>1, <1>3 DEF ReleasedVersions
<1>5. NumberInv'
  <2>1. {x \in Version' : versions'[x].status = "APPROVED"} = {x \in Version : versions[x].status = "APPROVED"}
    BY <1>1, <1>3, Statuses DEF ReleasedVersions
  <2>2. \A x \in Version : versions'[x].no = versions[x].no
    BY <1>1
  <2>3. \A x \in Version' : versions'[x].no # 0 <=> versions'[x].status \in Released
    BY <1>1, <1>3 DEF NumberInv
  <2> QED BY <1>1, <1>4, <2>1, <2>2, <2>3, CurrentIsReleased, Bounds DEF NumberInv
<1>6. BaseInv'
  BY <1>1, <1>4 DEF BaseInv
<1>7. \A b \in {0} \cup ReleasedVersions : BaseContent(versions', b) = BaseContent(versions, b)
  BY <1>1, <1>3 DEF BaseContent, ReleasedVersions
<1>8. DraftInv'
  <2>1. ASSUME NEW x \in Version, versions'[x].status \in Open
        PROVE  DiffersInEdited(versions'[x], BaseContent(versions', versions'[x].base))
    <3>1. versions'[x].base \in {0} \cup ReleasedVersions
      BY <1>1 DEF BaseInv
    <3>2. DiffersInEdited(versions'[x], BaseContent(versions, versions'[x].base))
      BY <1>1, <2>1 DEF DraftInv
    <3> QED BY <1>7, <3>1, <3>2
  <2> QED BY <1>1, <2>1 DEF DraftInv
<1> QED BY <1>2, <1>5, <1>6, <1>8

\* A merge, whatever is chosen where both sides changed, moves a checkpoint away from theirs only
\* where mine differs from the base.
LEMMA MergeTakesMyChanges ==
  ASSUME NEW base \in Content, NEW theirs \in Content, NEW mine \in Content, NEW choice \in Content
  PROVE  /\ Merged(base, theirs, mine, choice) \in Content
         /\ \A c \in Check : Merged(base, theirs, mine, choice)[c] # theirs[c] => mine[c] # base[c]
<1>1. ASSUME NEW c \in Check
      PROVE  /\ Pick(base[c], theirs[c], mine[c]) \in Value \cup {Absent}
             /\ Pick(base[c], theirs[c], mine[c]) # theirs[c] => mine[c] # base[c]
  BY DEF Pick, Content
<1>2. ASSUME NEW c \in Clashes(base, theirs, mine) PROVE mine[c] # base[c]
  <2>1. c \in Check /\ Cardinality({base[c], theirs[c], mine[c]}) = 3
    BY DEF Clashes
  <2>2. SUFFICES ASSUME mine[c] = base[c] PROVE FALSE
    OBVIOUS
  <2>3. {base[c], theirs[c], mine[c]} = {base[c]} \cup {theirs[c]}
    BY <2>2
  <2>4. ASSUME NEW a, NEW b PROVE Cardinality({a} \cup {b}) <= 2
    <3>1. IsFiniteSet({a}) /\ Cardinality({a}) = 1
      BY FS_Singleton
    <3>2. Cardinality({a} \cup {b}) = IF b \in {a} THEN Cardinality({a}) ELSE Cardinality({a}) + 1
      BY <3>1, FS_AddElement
    <3> QED BY <3>1, <3>2
  <2>5. Cardinality({base[c]} \cup {theirs[c]}) = 3
    BY <2>1, <2>3, Zenon
  <2>6. Cardinality({base[c]} \cup {theirs[c]}) <= 2
    BY <2>4
  <2> QED BY <2>5, <2>6
<1>3. ASSUME NEW c \in Check
      PROVE  /\ Merged(base, theirs, mine, choice)[c] \in Value \cup {Absent}
             /\ Merged(base, theirs, mine, choice)[c] # theirs[c] => mine[c] # base[c]
  BY <1>1, <1>2 DEF Merged, Content
<1> QED BY <1>3 DEF Merged, Content

LEMMA OpenSteps ==
  ASSUME FormatInv, NEW v \in Version,
         \/ \E content \in Content : SaveDraft(v, content)
         \/ Submit(v) \/ Discard(v) \/ Reject(v)
         \/ ApproveClashing(v) \/ ResolveLate(v)
         \/ \E choice \in Content : Resolve(v, choice)
  PROVE  FormatInv'
<1> DEFINE old == versions[v]
<1>0. /\ old \in VersionRow /\ current \in 0..MaxVersions /\ Version = 1..Len(versions)
      /\ old.base \in {0} \cup ReleasedVersions /\ ReleasedVersions \subseteq Version
      /\ old.status \in Open => DiffersInEdited(old, BaseContent(versions, old.base))
      /\ versions \in Seq(VersionRow)
  BY Bounds DEF FormatInv, BaseInv, DraftInv, RowInv, ReleasedVersions
<1>1. ASSUME NEW content \in Content, SaveDraft(v, content) PROVE FormatInv'
  <2> DEFINE row == [old EXCEPT !.status = "DRAFT", !.content = content,
                                !.edited = @ \cup {c \in Check : content[c] # old.content[c]}]
  <2>1. versions' = [versions EXCEPT ![v] = row] /\ old.status \in Open /\ UNCHANGED current
    BY <1>0, <1>1 DEF SaveDraft, Editable, Open
  <2>2. row \in VersionRow /\ row.status \in Open /\ row.no = old.no /\ row.base = old.base
    BY <1>0 DEF VersionRow, Open
  <2>3. DiffersInEdited(row, BaseContent(versions, row.base))
    BY <1>0, <2>1 DEF DiffersInEdited, VersionRow
  <2> HIDE DEF row
  <2> QED BY <1>0, <2>1, <2>2, <2>3, OpenVersionKeeps
<1>2. ASSUME NEW to \in Open \cup {"DISCARDED"}, old.status \in Open, UNCHANGED current,
             versions' = [versions EXCEPT ![v].status = to]
      PROVE  FormatInv'
  <2> DEFINE row == [old EXCEPT !.status = to]
  <2>1. versions' = [versions EXCEPT ![v] = row]
    BY <1>2
  <2>2. row \in VersionRow /\ row.status = to /\ row.no = old.no /\ row.base = old.base
    BY <1>0 DEF VersionRow
  <2>3. DiffersInEdited(row, BaseContent(versions, row.base))
    BY <1>0, <1>2 DEF DiffersInEdited, VersionRow
  <2> HIDE DEF row
  <2> QED BY <1>0, <1>2, <2>1, <2>2, <2>3, OpenVersionKeeps
<1>3. CASE Submit(v) \/ Discard(v) \/ Reject(v)
  BY <1>2, <1>3 DEF Submit, Discard, Reject, Editable, Open
<1>4. ASSUME NEW status \in Open, old.status \in Open, UNCHANGED current,
             versions' = [versions EXCEPT ![v].status = status, ![v].clash = ClashesOf(v), ![v].against = current]
      PROVE  FormatInv'
  <2> DEFINE row == [old EXCEPT !.status = status, !.clash = ClashesOf(v), !.against = current]
  <2>1. versions' = [versions EXCEPT ![v] = row]
    BY <1>4
  <2>2. ClashesOf(v) \subseteq Check
    BY DEF ClashesOf, Clashes
  <2>3. row \in VersionRow /\ row.status \in Open /\ row.no = old.no /\ row.base = old.base
    BY <1>0, <1>4, <2>2 DEF VersionRow
  <2>4. DiffersInEdited(row, BaseContent(versions, row.base))
    BY <1>0, <1>4 DEF DiffersInEdited, VersionRow
  <2> HIDE DEF row
  <2> QED BY <1>0, <1>4, <2>1, <2>3, <2>4, OpenVersionKeeps
<1>5. CASE ApproveClashing(v)
  BY <1>4, <1>5 DEF ApproveClashing, Open
<1>6. CASE ResolveLate(v)
  <2>1. old.status = "CONFLICT" /\ UNCHANGED current
    BY <1>6 DEF ResolveLate
  <2>2. versions' = [versions EXCEPT ![v].status = "CONFLICT", ![v].clash = ClashesOf(v), ![v].against = current]
    BY <1>0, <1>6, <2>1 DEF ResolveLate, VersionRow
  <2> QED BY <1>4, <2>1, <2>2 DEF Open
<1>7. ASSUME NEW choice \in Content, Resolve(v, choice) PROVE FormatInv'
  <2> DEFINE merged == MergeOntoCurrent(v, choice)
             row == [old EXCEPT !.status = "PENDING_APPROVAL", !.base = current, !.clash = {},
                                !.content = merged, !.edited = @ \cup old.clash]
  <2>1. versions' = [versions EXCEPT ![v] = row] /\ old.status \in Open /\ UNCHANGED current
    BY <1>7 DEF Resolve, Open
  <2>2. /\ ContentOf(old.base) \in Content /\ ContentOf(current) \in Content /\ ContentOf(v) \in Content
        /\ ContentOf(v) = old.content /\ ContentOf(old.base) = BaseContent(versions, old.base)
        /\ ContentOf(current) = BaseContent(versions, current)
    <3>1. RowInv /\ current \in {0} \cup Version /\ old.base \in {0} \cup Version /\ v # 0
      <4>1. RowInv
        BY DEF FormatInv
      <4>2. Len(versions) \in Nat /\ (current # 0 => current \in Version)
        BY <4>1, Bounds
      <4>3. v # 0
        BY <1>0, <4>2
      <4> HIDE DEF old
      <4> QED BY <1>0, <4>1, <4>2, <4>3
    <3>2. ContentOf(old.base) \in Content /\ ContentOf(current) \in Content /\ ContentOf(v) \in Content
      BY <3>1, ContentType
    <3> QED BY <3>1, <3>2 DEF ContentOf, BaseContent
  <2>3. merged \in Content /\ \A c \in Check : merged[c] # ContentOf(current)[c] => c \in old.edited
    BY <1>0, <2>1, <2>2, MergeTakesMyChanges DEF MergeOntoCurrent, DiffersInEdited
  <2> HIDE DEF merged
  <2>4. /\ row \in VersionRow /\ row.status = "PENDING_APPROVAL" /\ row.no = old.no /\ row.base = current
        /\ row.content = merged /\ old.edited \subseteq row.edited
    BY <1>0, <2>3 DEF VersionRow, Open
  <2>5. DiffersInEdited(row, BaseContent(versions, row.base))
    BY <2>2, <2>3, <2>4 DEF DiffersInEdited
  <2>6. row.base \in {0} \cup ReleasedVersions
    BY <2>4, CurrentIsReleased DEF FormatInv
  <2> HIDE DEF row
  <2> QED BY <1>0, <2>1, <2>4, <2>5, <2>6, OpenVersionKeeps DEF Open
<1> QED BY <1>1, <1>3, <1>5, <1>6, <1>7

-----------------------------------------------------------------------------
(* A new draft *)

LEMMA NewVersionType ==
  ASSUME RowInv, NEW content \in Content, NEW status \in {"DRAFT", "APPROVED"}, NEW base \in {0, current}
  PROVE  LET row == NewVersion(status, base, content) IN
           /\ row \in VersionRow /\ row.status = status /\ row.no = 0 /\ row.base = base
           /\ DiffersInEdited(row, BaseContent(versions, base))
<1> DEFINE row == NewVersion(status, base, content)
           edited == {c \in Check : content[c] # ContentOf(base)[c]}
<1>1. row = [status |-> status, base |-> base, content |-> content, no |-> 0, clash |-> {}, against |-> 0,
             edited |-> edited]
  BY DEF NewVersion
<1>2. edited \subseteq Check
  OBVIOUS
<1>3. 0 \in 0..MaxVersions /\ base \in 0..MaxVersions
  BY Bounds
<1>4. ContentOf(base) = BaseContent(versions, base)
  BY DEF ContentOf, BaseContent
<1>5. \A c \in Check : content[c] # BaseContent(versions, base)[c] => c \in edited
  BY <1>4
<1> HIDE DEF row, edited
<1>6. row \in VersionRow
  BY <1>1, <1>2, <1>3 DEF VersionRow, Open, Released
<1> QED BY <1>1, <1>5, <1>6 DEF DiffersInEdited, row

LEMMA CreateKeeps ==
  ASSUME FormatInv, NEW content \in Content, CreateDraft(content)
  PROVE  FormatInv'
<1> DEFINE row == NewVersion("DRAFT", current, content)
           new == Len(versions) + 1
<1> USE DEF FormatInv
<1>1. /\ row \in VersionRow /\ row.status = "DRAFT" /\ row.no = 0 /\ row.base = current
      /\ DiffersInEdited(row, BaseContent(versions, current))
  BY NewVersionType
<1> HIDE DEF row
<1>2. /\ versions' = Append(versions, row) /\ UNCHANGED current /\ Len(versions) < MaxVersions
      /\ versions \in Seq(VersionRow) /\ Len(versions) \in Nat /\ Version = 1..Len(versions) /\ MaxVersions \in Nat
  BY Bounds DEF CreateDraft, RowInv, row
<1>3. /\ versions' \in Seq(VersionRow) /\ Len(versions') = new /\ Version' = Version \cup {new}
      /\ versions'[new] = row /\ new \notin Version /\ \A x \in Version : versions'[x] = versions[x]
  <2> HIDE DEF VersionRow, FormatInv
  <2> QED BY <1>1, <1>2 DEF Version
<1> HIDE DEF new
<1>4. RowInv'
  <2>1. new \in Nat /\ new <= MaxVersions /\ current \in 0..new
    BY <1>2 DEF new, RowInv
  <2> QED BY <1>2, <1>3, <2>1 DEF RowInv
<1>5. ReleasedVersions' = ReleasedVersions
  BY <1>1, <1>3 DEF ReleasedVersions, Released
<1>6. NumberInv'
  <2>1. {x \in Version' : versions'[x].status = "APPROVED"} = {x \in Version : versions[x].status = "APPROVED"}
    BY <1>1, <1>3
  <2>2. \A x \in Version : versions'[x].no = versions[x].no
    BY <1>3
  <2>3. \A x \in Version' : versions'[x].no # 0 <=> versions'[x].status \in Released
    BY <1>1, <1>3 DEF NumberInv, Released
  <2>4. current # 0 => current \in Version /\ versions[current].no \in Nat /\ versions[current].no > 0
    <3>1. ASSUME current # 0 PROVE current \in ReleasedVersions /\ current \in Version
      BY <3>1, CurrentIsReleased, Bounds
    <3>2. ASSUME current # 0 PROVE versions[current].no \in Nat /\ versions[current].no # 0
      BY <3>1, <3>2, Bounds DEF NumberInv, ReleasedVersions, VersionRow
    <3> QED BY <3>1, <3>2
  <2> QED BY <1>1, <1>2, <1>3, <1>5, <2>1, <2>2, <2>3, <2>4 DEF NumberInv
<1>7. current \in {0} \cup ReleasedVersions
  BY CurrentIsReleased
<1>8. BaseInv'
  BY <1>1, <1>3, <1>5, <1>7 DEF BaseInv
<1>9. \A b \in {0} \cup ReleasedVersions : BaseContent(versions', b) = BaseContent(versions, b)
  BY <1>3 DEF BaseContent, ReleasedVersions
<1>10. DraftInv'
  <2>1. ASSUME NEW x \in Version', versions'[x].status \in Open
        PROVE  DiffersInEdited(versions'[x], BaseContent(versions', versions'[x].base))
    <3>1. DiffersInEdited(versions'[x], BaseContent(versions, versions'[x].base))
      BY <1>1, <1>3, <2>1 DEF DraftInv
    <3>2. versions'[x].base \in {0} \cup ReleasedVersions
      BY <1>1, <1>3, <1>7 DEF BaseInv
    <3> QED BY <1>9, <3>1, <3>2
  <2> QED BY <2>1 DEF DraftInv
<1> QED BY <1>4, <1>6, <1>8, <1>10

-----------------------------------------------------------------------------
(* A version that is approved *)

\* The next number is one more than that of the version approved last.
LEMMA NextNo ==
  ASSUME FormatInv, Version # {}
  PROVE  NextVersionNo = 1 + (IF current = 0 THEN 0 ELSE versions[current].no)
<1> DEFINE last == IF current = 0 THEN 0 ELSE versions[current].no
<1>1. VersionNos \in SUBSET Nat /\ VersionNos # {}
  BY Bounds DEF FormatInv, VersionNos, VersionRow
<1>2. last \in VersionNos /\ \A m \in VersionNos : m <= last
  <2>1. CASE current = 0
    BY <2>1 DEF FormatInv, NumberInv, VersionNos
  <2>2. CASE current # 0
    <3>1. current \in Version /\ versions[current].no \in Nat
      BY <2>2, Bounds DEF FormatInv, VersionRow
    <3> QED BY <1>1, <2>2, <3>1 DEF FormatInv, NumberInv, VersionNos
  <2> QED BY <2>1, <2>2
<1> HIDE DEF last
<1>3. \A n \in VersionNos : (\A m \in VersionNos : m <= n) => n = last
  BY <1>1, <1>2
<1>4. (CHOOSE n \in VersionNos : \A m \in VersionNos : m <= n) = last
  BY <1>2, <1>3
<1> QED BY <1>4 DEF NextVersionNo, last

LEMMA FastForwardKeeps ==
  ASSUME FormatInv, NEW v \in Version, versions[v].status = "PENDING_APPROVAL",
         NEW content \in Content, NEW edited \in SUBSET Check, FastForward(v, content, edited)
  PROVE  FormatInv'
<1> DEFINE no == NextVersionNo
           last == IF current = 0 THEN 0 ELSE versions[current].no
           row == [versions[v] EXCEPT !.status = "APPROVED", !.content = content, !.base = current,
                                      !.no = no, !.edited = edited]
<1> USE DEF FormatInv
<1>0. /\ versions \in Seq(VersionRow) /\ Len(versions) \in Nat /\ Version = 1..Len(versions) /\ MaxVersions \in Nat
      /\ Len(versions) <= MaxVersions /\ current \in 0..MaxVersions /\ v # 0 /\ current' = v
      /\ \A x \in Version : versions[x] \in VersionRow
      /\ v \notin ReleasedVersions /\ v # current /\ versions[v].no = 0
  <2>1. v \notin ReleasedVersions /\ versions[v].no = 0
    BY Statuses DEF ReleasedVersions, NumberInv, Open, Released
  <2>2. v # current
    BY <2>1, CurrentIsReleased, Bounds
  <2>3. RowInv
    OBVIOUS
  <2>4. /\ Len(versions) \in Nat /\ MaxVersions \in Nat /\ Version = 1..Len(versions)
        /\ current \in 0..MaxVersions /\ \A x \in Version : versions[x] \in VersionRow
    BY <2>3, Bounds
  <2>5. versions \in Seq(VersionRow) /\ Len(versions) <= MaxVersions
    BY <2>3 DEF RowInv
  <2>6. current' = v
    BY DEF FastForward
  <2>7. v # 0
    BY <2>4
  <2> HIDE DEF FormatInv
  <2> QED BY <2>1, <2>2, <2>4, <2>5, <2>6, <2>7
<1>1. IsFiniteSet(Version) /\ Cardinality(Version) = Len(versions) /\ ReleasedVersions \in SUBSET Version
  <2>1. IsFiniteSet(1..Len(versions)) /\ Cardinality(1..Len(versions)) = Len(versions)
    <3>1. ASSUME NEW n \in Nat PROVE IsFiniteSet(1..n) /\ Cardinality(1..n) = n
      BY FS_Interval
    <3>2. Len(versions) \in Nat
      BY <1>0
    <3> QED BY <3>1, <3>2, Zenon
  <2>2. Version = 1..Len(versions) /\ ReleasedVersions \in SUBSET Version
    BY <1>0 DEF ReleasedVersions
  <2> HIDE DEF FormatInv
  <2> QED BY <2>1, <2>2
<1>2. /\ IsFiniteSet(ReleasedVersions)
      /\ Cardinality(ReleasedVersions \cup {v}) = Cardinality(ReleasedVersions) + 1
      /\ Cardinality(ReleasedVersions \cup {v}) <= Len(versions)
      /\ Cardinality(ReleasedVersions) \in Nat
  <2>1. IsFiniteSet(ReleasedVersions)
    BY <1>1, FS_Subset
  <2>2. Cardinality(ReleasedVersions \cup {v}) = Cardinality(ReleasedVersions) + 1
    BY <1>0, <2>1, FS_AddElement
  <2>3. ReleasedVersions \cup {v} \in SUBSET Version
    BY <1>1
  <2>4. Cardinality(ReleasedVersions \cup {v}) <= Cardinality(Version)
    BY <1>1, <2>3, FS_Subset
  <2> QED BY <1>1, <2>1, <2>2, <2>4, FS_CardinalityType
<1>3. last = Cardinality(ReleasedVersions) /\ no = last + 1
  <2>1. ASSUME current = 0 PROVE ReleasedVersions = {}
    BY <2>1 DEF NumberInv, ReleasedVersions
  <2> QED BY <1>2, <2>1, NextNo, FS_EmptySet DEF NumberInv
<1>4. no \in 0..MaxVersions /\ no # 0
  BY <1>0, <1>2, <1>3
<1>5. DOMAIN versions' = Version /\ versions'[v] = row
  BY DEF FastForward, Version
<1> HIDE DEF no, last
<1>6. /\ row \in VersionRow /\ row.status = "APPROVED" /\ row.no = no /\ row.base = current
      /\ row.content = content /\ row.edited = edited
  BY <1>0, <1>4 DEF VersionRow, Released
<1> HIDE DEF row
<1>7. ASSUME NEW x \in Version \ {v}
      PROVE  /\ versions'[x] \in VersionRow /\ versions'[x].no = versions[x].no
             /\ versions'[x].base = versions[x].base /\ versions'[x].content = versions[x].content
             /\ versions'[x].status = IF x = current THEN "SUPERSEDED"
                                      ELSE IF StaleEmpty(x, v) THEN "DISCARDED" ELSE versions[x].status
             /\ versions'[x].status \in Open => versions'[x] = versions[x]
  <2>0. versions[x] \in VersionRow
    BY <1>0
  <2>1. CASE x = current
    <3>1. versions'[x] = [versions[x] EXCEPT !.status = "SUPERSEDED"]
      BY <2>1 DEF FastForward
    <3> QED BY <2>0, <2>1, <3>1 DEF VersionRow, Released, Open
  <2>2. CASE x # current /\ StaleEmpty(x, v)
    <3>1. versions'[x] = [versions[x] EXCEPT !.status = "DISCARDED"]
      BY <2>2 DEF FastForward
    <3> QED BY <2>0, <2>2, <3>1 DEF VersionRow, Open
  <2>3. CASE x # current /\ ~StaleEmpty(x, v)
    <3>1. versions'[x] = versions[x]
      BY <2>3 DEF FastForward
    <3> QED BY <2>0, <2>3, <3>1
  <2> QED BY <2>1, <2>2, <2>3
<1>8. /\ versions' \in Seq(VersionRow) /\ Len(versions') = Len(versions) /\ Version' = Version
  <2>1. versions' \in [1..Len(versions) -> VersionRow]
    <3>1. \A x \in Version : versions'[x] \in VersionRow
      BY <1>5, <1>6, <1>7
    <3> HIDE DEF VersionRow
    <3> QED BY <1>0, <1>5, <3>1 DEF FastForward
  <2>2. versions' \in Seq(VersionRow) /\ DOMAIN versions' = 1..Len(versions)
    <3> HIDE DEF VersionRow
    <3> QED BY <1>0, <2>1
  <2>3. Len(versions') \in Nat /\ 1..Len(versions') = 1..Len(versions)
    <3> HIDE DEF VersionRow
    <3> QED BY <2>2
  <2>4. Len(versions') = Len(versions)
    BY <1>0, <2>3
  <2> QED BY <1>5, <2>2, <2>4 DEF Version
<1>9. RowInv'
  BY <1>0, <1>8 DEF RowInv
<1>10. ReleasedVersions' = ReleasedVersions \cup {v}
  <2>1. ASSUME NEW x \in Version \ {v}
        PROVE  versions'[x].status \in Released <=> versions[x].status \in Released
    <3>1. x = current => versions[x].status \in Released
      BY <1>0, Bounds, CurrentIsReleased DEF ReleasedVersions
    <3>2. StaleEmpty(x, v) => versions[x].status \notin Released
      BY DEF StaleEmpty, Released
    <3> QED BY <1>7, <3>1, <3>2 DEF Released
  <2>2. versions'[v].status \in Released
    BY <1>5, <1>6, Statuses
  <2> QED BY <1>1, <1>8, <2>1, <2>2 DEF ReleasedVersions
<1>11. NumberInv'
  <2>1. ASSUME NEW x \in Version \ {v} PROVE versions'[x].status # "APPROVED"
    <3>1. versions[x].status = "APPROVED" => x = current
      BY DEF NumberInv
    <3> QED BY <1>7, <3>1
  <2>2. {x \in Version' : versions'[x].status = "APPROVED"} = {current'} \ {0}
    BY <1>0, <1>5, <1>6, <1>8, <2>1
  <2>3. ASSUME NEW x \in Version PROVE versions'[x].no # 0 <=> versions'[x].status \in Released
    <3>1. CASE x = v
      BY <1>4, <1>5, <1>6, <3>1, Statuses
    <3>2. CASE x # v
      <4>1. versions[x].no # 0 <=> versions[x].status \in Released
        BY DEF NumberInv
      <4>2. x \in ReleasedVersions' <=> x \in ReleasedVersions
        BY <1>10, <3>2
      <4> QED BY <1>7, <1>8, <3>2, <4>1, <4>2 DEF ReleasedVersions
    <3> QED BY <3>1, <3>2
  <2>4. ASSUME NEW x \in Version \ {v} PROVE versions'[x].no < no
    <3>0. versions[x] \in VersionRow
      BY <1>0
    <3>1. versions[x].no \in Nat /\ last \in Nat
      BY <1>2, <1>3, <3>0 DEF VersionRow
    <3>2. versions[x].no <= last
      BY <3>1 DEF NumberInv, last
    <3> QED BY <1>3, <1>7, <3>1, <3>2
  <2>5. versions'[v].no = Cardinality(ReleasedVersions')
    BY <1>2, <1>3, <1>5, <1>6, <1>10
  <2> QED BY <1>0, <1>5, <1>6, <1>8, <2>2, <2>3, <2>4, <2>5 DEF NumberInv
<1>12. current \in {0} \cup ReleasedVersions
  BY CurrentIsReleased
<1>13. BaseInv'
  <2>1. ASSUME NEW x \in Version PROVE versions'[x].base \in {0} \cup ReleasedVersions
    BY <1>5, <1>6, <1>7, <1>12 DEF BaseInv
  <2> QED BY <1>8, <1>10, <2>1 DEF BaseInv
<1>14. \A b \in {0} \cup ReleasedVersions : BaseContent(versions', b) = BaseContent(versions, b)
  BY <1>0, <1>1, <1>7 DEF BaseContent
<1>15. DraftInv'
  <2>1. ASSUME NEW x \in Version, versions'[x].status \in Open
        PROVE  DiffersInEdited(versions'[x], BaseContent(versions', versions'[x].base))
    <3>1. x # v
      BY <1>5, <1>6, <2>1 DEF Open
    <3>2. versions'[x] = versions[x]
      BY <1>7, <2>1, <3>1
    <3>3. DiffersInEdited(versions[x], BaseContent(versions, versions[x].base))
      BY <2>1, <3>2 DEF DraftInv
    <3>4. versions[x].base \in {0} \cup ReleasedVersions
      BY DEF BaseInv
    <3> QED BY <1>14, <3>2, <3>3, <3>4
  <2> QED BY <1>8, <2>1 DEF DraftInv
<1> QED BY <1>9, <1>11, <1>13, <1>15

\* The import is the first release: nothing was approved before it, so every draft starts from nothing.
LEMMA ImportKeeps ==
  ASSUME FormatInv, NEW content \in Content, Import(content)
  PROVE  FormatInv'
<1> DEFINE new == Len(versions) + 1
           first == NewVersion("APPROVED", 0, content)
           row == [first EXCEPT !.no = 1]
           old == [x \in Version |-> IF StaleEmpty(x, 0) THEN [versions[x] EXCEPT !.status = "DISCARDED"] ELSE versions[x]]
<1>1. RowInv /\ NumberInv /\ BaseInv /\ DraftInv
  BY DEF FormatInv
<1>2. /\ versions' = Append(old, row) /\ current = 0 /\ current' = new /\ Len(versions) < MaxVersions
  BY DEF Import
<1>3. /\ Len(versions) \in Nat /\ MaxVersions \in Nat /\ Version = 1..Len(versions)
      /\ \A x \in Version : versions[x] \in VersionRow
  BY <1>1, Bounds
<1>4. /\ row \in VersionRow /\ row.status = "APPROVED" /\ row.no = 1 /\ row.base = 0
  <2>1. first \in VersionRow /\ first.status = "APPROVED" /\ first.base = 0
    BY <1>1, NewVersionType
  <2>2. 1 \in 0..MaxVersions
    BY <1>2, <1>3
  <2> HIDE DEF first
  <2> QED BY <2>1, <2>2 DEF VersionRow
<1> HIDE DEF row
<1>5. /\ old \in [Version -> VersionRow]
      /\ \A x \in Version : /\ old[x].no = versions[x].no /\ old[x].base = versions[x].base
                            /\ old[x].status \in Released <=> versions[x].status \in Released
                            /\ old[x].status = "APPROVED" => versions[x].status = "APPROVED"
                            /\ old[x].status \in Open => old[x] = versions[x]
  <2>1. ASSUME NEW x \in Version, StaleEmpty(x, 0)
        PROVE  /\ old[x] = [versions[x] EXCEPT !.status = "DISCARDED"]
               /\ versions[x].status = "DRAFT" /\ versions[x] \in VersionRow
    BY <1>3, <2>1 DEF StaleEmpty
  <2>2. ASSUME NEW x \in Version, ~StaleEmpty(x, 0)
        PROVE  old[x] = versions[x] /\ versions[x] \in VersionRow
    BY <1>3, <2>2
  <2>3. ASSUME NEW x \in Version
        PROVE  /\ old[x] \in VersionRow
               /\ old[x].no = versions[x].no /\ old[x].base = versions[x].base
               /\ old[x].status \in Released <=> versions[x].status \in Released
               /\ old[x].status = "APPROVED" => versions[x].status = "APPROVED"
               /\ old[x].status \in Open => old[x] = versions[x]
    <3>1. CASE StaleEmpty(x, 0)
      <4> HIDE DEF old
      <4> QED BY <2>1, <3>1 DEF VersionRow, Open, Released
    <3>2. CASE ~StaleEmpty(x, 0)
      <4> HIDE DEF old
      <4> QED BY <2>2, <3>2
    <3> QED BY <3>1, <3>2
  <2>4. old \in [Version -> VersionRow]
    BY <2>3
  <2> HIDE DEF old
  <2> QED BY <2>3, <2>4
<1> HIDE DEF old
<1>6. old \in Seq(VersionRow) /\ Len(old) = Len(versions) /\ DOMAIN old = Version
  <2>1. old \in Seq(VersionRow) /\ DOMAIN old = 1..Len(versions)
    <3> HIDE DEF VersionRow
    <3> QED BY <1>3, <1>5
  <2>2. Len(old) \in Nat /\ 1..Len(old) = 1..Len(versions)
    <3> HIDE DEF VersionRow
    <3> QED BY <2>1
  <2>3. Len(old) = Len(versions)
    BY <1>3, <2>2
  <2> QED BY <1>3, <2>1, <2>3
<1>7. /\ versions' \in Seq(VersionRow) /\ Len(versions') = new /\ Version' = Version \cup {new}
      /\ versions'[new] = row /\ new \notin Version /\ \A x \in Version : versions'[x] = old[x]
  <2> HIDE DEF VersionRow
  <2> QED BY <1>2, <1>3, <1>4, <1>6 DEF Version
<1>8. new \in Nat /\ new <= MaxVersions /\ new # 0 /\ new \in 0..new
  BY <1>2, <1>3
<1> HIDE DEF new
<1>9. RowInv'
  BY <1>2, <1>7, <1>8 DEF RowInv
<1>10. \A x \in Version : versions[x].status \notin Released /\ versions[x].no = 0 /\ versions[x].base = 0
  BY <1>1, <1>2 DEF NumberInv, BaseInv, ReleasedVersions
<1>11. ReleasedVersions' = {new}
  BY <1>4, <1>5, <1>7, <1>10, Statuses DEF ReleasedVersions
<1>12. NumberInv'
  <2>1. Cardinality({new}) = 1
    BY FS_Singleton
  <2>2. {x \in Version' : versions'[x].status = "APPROVED"} = {current'} \ {0}
    BY <1>2, <1>4, <1>5, <1>7, <1>8, <1>10, Statuses
  <2>3. \A x \in Version' : versions'[x].no # 0 <=> versions'[x].status \in Released
    BY <1>4, <1>5, <1>7, <1>10, Statuses
  <2>4. \A x \in Version' \ {new} : versions'[x].no < versions'[new].no
    BY <1>4, <1>5, <1>7, <1>10
  <2> QED BY <1>2, <1>4, <1>7, <1>8, <1>11, <2>1, <2>2, <2>3, <2>4 DEF NumberInv
<1>13. BaseInv'
  BY <1>4, <1>5, <1>7, <1>10 DEF BaseInv
<1>14. DraftInv'
  <2>1. ASSUME NEW x \in Version', versions'[x].status \in Open
        PROVE  DiffersInEdited(versions'[x], BaseContent(versions', versions'[x].base))
    <3>1. x \in Version /\ versions'[x] = versions[x]
      BY <1>4, <1>5, <1>7, <2>1 DEF Open
    <3>2. DiffersInEdited(versions[x], BaseContent(versions, versions[x].base)) /\ versions[x].base = 0
      BY <1>1, <1>10, <2>1, <3>1 DEF DraftInv
    <3> QED BY <3>1, <3>2 DEF BaseContent
  <2> QED BY <2>1 DEF DraftInv
<1> QED BY <1>9, <1>12, <1>13, <1>14 DEF FormatInv

-----------------------------------------------------------------------------
(* The invariant *)

\* What a version is merged with is of the right type.
LEMMA ApprovedContents ==
  ASSUME FormatInv, NEW v \in Version
  PROVE  /\ ContentOf(versions[v].base) \in Content /\ ContentOf(current) \in Content /\ ContentOf(v) \in Content
         /\ ContentOf(v) = versions[v].content
         /\ versions[v].edited \in SUBSET Check /\ Check \in SUBSET Check
<1>1. RowInv
  BY DEF FormatInv
<1>2. versions[v].base \in {0} \cup Version
  BY DEF FormatInv, BaseInv, ReleasedVersions
<1>3. current \in {0} \cup Version
  BY <1>1, Bounds
<1>4. v # 0 /\ versions[v].edited \in SUBSET Check
  BY <1>1, Bounds DEF VersionRow
<1>5. ContentOf(v) = versions[v].content
  BY <1>4 DEF ContentOf
<1> QED BY <1>1, <1>2, <1>3, <1>4, <1>5, ContentType

LEMMA NothingChosen == Empty \in Content
  BY DEF Empty, Content

LEMMA FormatInit == Init => FormatInv
<1> SUFFICES ASSUME Init PROVE FormatInv
  OBVIOUS
<1>1. versions = <<>> /\ current = 0
  BY DEF Init
<1>2. versions \in Seq(VersionRow) /\ Len(versions) = 0 /\ Version = {}
  <2> HIDE DEF VersionRow
  <2> QED BY <1>1 DEF Version
<1>3. RowInv
  BY <1>1, <1>2, FormatsAssumption DEF RowInv
<1>4. NumberInv
  BY <1>1, <1>2 DEF NumberInv
<1>5. BaseInv /\ DraftInv
  BY <1>2 DEF BaseInv, DraftInv
<1> QED BY <1>3, <1>4, <1>5 DEF FormatInv

LEMMA FormatStep == FormatInv /\ [Next]_vars => FormatInv'
<1> SUFFICES ASSUME FormatInv, [Next]_vars PROVE FormatInv'
  OBVIOUS
<1>1. ASSUME NEW content \in Content, CreateDraft(content) PROVE FormatInv'
  BY <1>1, CreateKeeps
<1>2. ASSUME NEW v \in Version,
             \/ \E content \in Content : SaveDraft(v, content)
             \/ Submit(v) \/ Discard(v) \/ Reject(v)
             \/ ApproveClashing(v) \/ ResolveLate(v)
             \/ \E choice \in Content : Resolve(v, choice)
      PROVE  FormatInv'
  BY <1>2, OpenSteps
<1>3. ASSUME NEW v \in Version, Approve(v) PROVE FormatInv'
  BY <1>3, ApprovedContents, FastForwardKeeps DEF Approve
<1>4. ASSUME NEW v \in Version, ApproveAsReplacement(v) PROVE FormatInv'
  BY <1>4, ApprovedContents, FastForwardKeeps DEF ApproveAsReplacement
<1>5. ASSUME NEW v \in Version, ApproveMerged(v) PROVE FormatInv'
  <2>1. MergeOntoCurrent(v, Empty) \in Content
    BY ApprovedContents, NothingChosen, MergeTakesMyChanges DEF MergeOntoCurrent
  <2> QED BY <1>5, <2>1, ApprovedContents, FastForwardKeeps DEF ApproveMerged
<1>6. ASSUME NEW content \in Content, Import(content) PROVE FormatInv'
  BY <1>6, ImportKeeps
<1>7. CASE UNCHANGED vars
  BY <1>7 DEF vars, FormatInv, RowInv, NumberInv, BaseInv, DraftInv, ReleasedVersions, Version, BaseContent
<1>8. CASE DraftNext
  BY <1>1, <1>2, <1>8 DEF DraftNext
<1>9. CASE ApprovalNext
  BY <1>2, <1>3, <1>4, <1>5, <1>6, <1>9 DEF ApprovalNext
<1> QED BY <1>7, <1>8, <1>9 DEF Next

LEMMA FormatInvariance == Spec => []FormatInv
  BY FormatInit, FormatStep, PTL DEF Spec

\* The format has one approved version, the one approved last, whatever approvals, imports and
\* conflicts came before: its number is above that of every other (fastForward, importFormat).
THEOREM OneVersionIsApproved == Spec => []OneApprovedVersion
<1>1. FormatInv => OneApprovedVersion
  BY DEF FormatInv, RowInv, NumberInv, OneApprovedVersion
<1> QED BY <1>1, FormatInvariance, PTL

-----------------------------------------------------------------------------
(* Steps *)

\* No save, merge, resolution or approval of a later version writes the content of a version that was
\* approved, so the readings of a lot stay readings of the sheet they were taken on (saveDraft,
\* resolveConflicts, fastForward).
THEOREM ReleasedStays == Spec => ReleasedContentStays
<1> DEFINE Stays == \A v \in Version : versions[v].status \in Released => versions'[v].content = versions[v].content
<1>1. FormatInv /\ [Next]_vars => Stays \/ UNCHANGED vars
  <2> SUFFICES ASSUME FormatInv, Next, NEW x \in Version, versions[x].status \in Released
               PROVE  versions'[x].content = versions[x].content
    BY DEF vars
  <2>0. Version = DOMAIN versions
    BY DEF Version
  <2>2. ASSUME NEW v \in Version,
               \/ \E content \in Content : SaveDraft(v, content)
               \/ Submit(v) \/ Discard(v) \/ Reject(v)
               \/ ApproveClashing(v) \/ ResolveLate(v)
               \/ \E choice \in Content : Resolve(v, choice)
        PROVE  versions'[x].content = versions[x].content
    <3>1. versions[v].status \in Open
      BY <2>2 DEF SaveDraft, Submit, Discard, Reject, ApproveClashing, ResolveLate, Resolve, Editable, Open
    <3>2. v # x
      BY <3>1, Statuses
    <3> QED BY <2>0, <2>2, <3>2 DEF SaveDraft, Submit, Discard, Reject, ApproveClashing, ResolveLate, Resolve
  <2>3. ASSUME NEW v \in Version, NEW content, NEW edited, FastForward(v, content, edited),
               versions[v].status = "PENDING_APPROVAL"
        PROVE  versions'[x].content = versions[x].content
    <3>1. x # v
      BY <2>3, Statuses DEF Open
    <3>2. versions[x] \in VersionRow
      BY Bounds DEF FormatInv
    <3> QED BY <2>3, <3>1, <3>2 DEF FastForward, VersionRow
  <2>4. ASSUME NEW content \in Content, CreateDraft(content) PROVE versions'[x].content = versions[x].content
    <3>1. versions \in Seq(VersionRow) /\ x \in 1..Len(versions)
      BY Bounds DEF FormatInv, RowInv
    <3> DEFINE row == NewVersion("DRAFT", current, content)
    <3>2. versions' = Append(versions, row)
      BY <2>4 DEF CreateDraft
    <3> HIDE DEF row
    <3> QED
      <4> HIDE DEF VersionRow
      <4> QED BY <3>1, <3>2
  <2>5. ASSUME NEW content \in Content, Import(content) PROVE FALSE
    BY <2>5 DEF Import, FormatInv, NumberInv
  <2>6. CASE DraftNext
    BY <2>2, <2>4, <2>6 DEF DraftNext
  <2>7. CASE ApprovalNext
    BY <2>2, <2>3, <2>5, <2>7 DEF ApprovalNext, Approve, ApproveAsReplacement, ApproveMerged
  <2> QED BY <2>6, <2>7 DEF Next
<1>2. [Next]_vars /\ FormatInv => [Stays]_vars
  BY <1>1
<1> QED BY <1>2, FormatInvariance, PTL DEF Spec, ReleasedContentStays

\* Whoever's approved change an approval takes back asked for it: a checkpoint of the approved version
\* that changes was edited in the draft, however old the draft's base was and however often it was
\* merged and its conflicts resolved (approve, resolveConflicts, mergeVersions).
THEOREM OnlyEditsReachTheApproved == Spec => OnlyEditedChecksChange
<1> DEFINE Edited == current # 0 /\ current' # current =>
                       \A c \in Check : versions'[current'].content[c] # versions[current].content[c] =>
                         c \in versions'[current'].edited
<1>1. FormatInv /\ [Next]_vars => Edited \/ UNCHANGED vars
  <2> SUFFICES ASSUME FormatInv, Next, current # 0, current' # current,
                      NEW c \in Check, versions'[current'].content[c] # versions[current].content[c]
               PROVE  c \in versions'[current'].edited
    BY DEF vars
  <2>1. ASSUME NEW v \in Version, NEW content, NEW edited, FastForward(v, content, edited),
               content[c] # ContentOf(current)[c] => c \in edited
        PROVE  c \in versions'[current'].edited
    <3>1. versions[v] \in VersionRow
      BY Bounds DEF FormatInv
    <3>2. current' = v /\ versions'[v].content = content /\ versions'[v].edited = edited
      BY <2>1, <3>1 DEF FastForward, VersionRow
    <3> QED BY <2>1, <3>2 DEF ContentOf
  <2>2. ASSUME NEW v \in Version, versions[v].status = "PENDING_APPROVAL"
        PROVE  \A d \in Check : versions[v].content[d] # ContentOf(versions[v].base)[d] => d \in versions[v].edited
    <3>1. DiffersInEdited(versions[v], BaseContent(versions, versions[v].base))
      BY <2>2 DEF FormatInv, DraftInv, Open
    <3> QED BY <3>1 DEF DiffersInEdited, BaseContent, ContentOf
  <2>3. ASSUME NEW v \in Version, Approve(v) PROVE c \in versions'[current'].edited
    BY <2>1, <2>2, <2>3, ApprovedContents DEF Approve
  <2>4. ASSUME NEW v \in Version, ApproveAsReplacement(v) PROVE c \in versions'[current'].edited
    BY <2>1, <2>4 DEF ApproveAsReplacement
  <2>5. ASSUME NEW v \in Version, ApproveMerged(v) PROVE c \in versions'[current'].edited
    <3> DEFINE merged == MergeOntoCurrent(v, Empty)
    <3>1. FastForward(v, merged, versions[v].edited)
      BY <2>5 DEF ApproveMerged
    <3>2. merged[c] # ContentOf(current)[c] => c \in versions[v].edited
      BY <2>2, <2>5, ApprovedContents, NothingChosen, MergeTakesMyChanges DEF ApproveMerged, MergeOntoCurrent
    <3> HIDE DEF merged
    <3> QED BY <2>1, <3>1, <3>2
  <2>6. CASE DraftNext
    BY <2>6 DEF DraftNext, CreateDraft, SaveDraft, Submit, Discard, Reject
  <2>7. CASE ApprovalNext
    BY <2>3, <2>4, <2>5, <2>7 DEF ApprovalNext, ApproveClashing, ResolveLate, Resolve, Import
  <2> QED BY <2>6, <2>7 DEF Next
<1>2. [Next]_vars /\ FormatInv => [Edited]_vars
  BY <1>1
<1> QED BY <1>2, FormatInvariance, PTL DEF Spec, OnlyEditedChecksChange
=============================================================================
