---------------------------- MODULE ServiceProofs ----------------------------
(***************************************************************************)
(* Theorems of the services around an inspection: LotIntake, MailOutbox    *)
(* and Sessions, for any lots, workers and requests and any bounds.        *)
(*                                                                         *)
(* What each argument turns on:                                            *)
(*   - the pull catches up because of CatchInv: for a missing lot there is *)
(*     a date not later than its own from which some pull, this one or the *)
(*     next, still asks;                                                   *)
(*   - a mail goes out once more only at the expense of a mishap: CountInv *)
(*     counts the workers that still hold it against the mishaps seen;     *)
(*   - one sign-in is open because a sign-in holds the user's row from     *)
(*     before it looks for earlier sessions until it commits (LoginInv).   *)
(* The first date a pull asks for is found with LeastNatural.              *)
(***************************************************************************)
EXTENDS LotIntake, MailOutbox, Sessions, ReversalRulesProofs

-----------------------------------------------------------------------------
(* The pull from SAP: the inductive invariant *)

Missing == {l \in Posted \ Unreadable : imir[l] = "NONE"}

\* A date up to which the pull can have asked: SAP has posted a lot of that date or a later one.
Reached(d) == d = 0 \/ \E l \in Posted : d <= date[l]

DateInv == Reached(cursor) /\ Reached(pull.next) /\ Reached(pull.position) /\ Reached(pull.retryFrom)

\* The lots of the batch not yet looked at are ahead of where a failure would go back to.
AheadInv ==
  /\ pull.position <= pull.next
  /\ \A l \in pull.rest : date[l] <= pull.next /\ date[l] >= From(pull.position)
  /\ pull.failed => \A l \in pull.rest : date[l] >= From(pull.retryFrom)

LookupInv ==
  /\ pull.rest \subseteq Posted
  /\ \A l \in pull.rest \ pull.seen : imir[l] = "NONE"
  /\ \A l \in pull.seen \cup approval.opens : imir[l] # "NONE"
  /\ pull.lot # NoLot =>
       /\ pull.lot \in pull.rest /\ Storable(pull.lot) /\ pull.status # "NONE"
       /\ \A m \in pull.rest : date[pull.lot] <= date[m]

\* Where the next pull asks from if this one ends as it stands.
NextCursor == IF pull.failed THEN pull.retryFrom ELSE pull.next

CatchInv ==
  /\ \A l \in Missing : date[l] >= From(cursor)
  /\ pull.on => \A l \in Missing : l \in pull.rest \/ date[l] >= From(NextCursor)

IntakeInv == IntakeTypeOK /\ (~pull.on => pull = NoPull) /\ DateInv /\ AheadInv /\ LookupInv /\ CatchInv

LEMMA IntakeBounds ==
  ASSUME IntakeTypeOK
  PROVE  /\ NumLots \in Nat /\ Overlap \in Nat /\ MaxDate \in Nat /\ MaxFaults \in Nat /\ MaxApprovals \in Nat
         /\ cursor \in Nat /\ pull.next \in Nat /\ pull.position \in Nat /\ pull.retryFrom \in Nat
         /\ \A l \in Lot : date[l] \in Nat /\ date[l] <= MaxDate
         /\ pull.rest \subseteq Lot /\ Posted \subseteq Lot /\ NoLot \notin Lot /\ Lot \subseteq Nat
         /\ pull.failed \in BOOLEAN /\ pull.on \in BOOLEAN
<1>1. NumLots \in Nat /\ Overlap \in Nat /\ MaxDate \in Nat /\ MaxFaults \in Nat /\ MaxApprovals \in Nat
  BY IntakeAssumption
<1>2. date \in [Lot -> 0..MaxDate] /\ cursor \in 0..MaxDate /\ pull \in PullRow
  BY DEF IntakeTypeOK
<1>3. /\ pull.next \in 0..MaxDate /\ pull.position \in 0..MaxDate /\ pull.retryFrom \in 0..MaxDate
      /\ pull.rest \subseteq Lot /\ pull.failed \in BOOLEAN /\ pull.on \in BOOLEAN
  BY <1>2 DEF PullRow
<1>4. Lot \subseteq Nat /\ NoLot \notin Lot
  BY <1>1 DEF Lot, NoLot
<1> QED BY <1>1, <1>2, <1>3, <1>4 DEF Posted

LEMMA FromIsEarlier ==
  ASSUME NEW c \in Nat, NEW d \in Nat, Overlap \in Nat
  PROVE  /\ From(c) \in Nat /\ From(c) <= c
         /\ c <= d => From(c) <= From(d)
         /\ c <= d + Overlap => From(c) <= d
BY DEF From

\* The dates of some lots have a last one.
LEMMA LastDateIsLast ==
  ASSUME IntakeTypeOK, NEW lots \in SUBSET Lot, NEW default \in 0..MaxDate
  PROVE  /\ LastDate(lots, default) \in 0..MaxDate
         /\ lots = {} => LastDate(lots, default) = default
         /\ lots # {} => \E l \in lots : date[l] = LastDate(lots, default)
         /\ \A l \in lots : date[l] <= LastDate(lots, default)
<1> DEFINE dates == {date[l] : l \in lots}
           before == {MaxDate - d : d \in dates}
<1>0. MaxDate \in Nat /\ \A l \in lots : date[l] \in Nat /\ date[l] <= MaxDate
  BY IntakeBounds
<1>1. CASE lots = {}
  BY <1>1 DEF LastDate
<1>2. CASE lots # {}
  <2>1. before \in SUBSET Nat /\ before # {}
    BY <1>0, <1>2
  <2>2. PICK m \in before : \A k \in before : m <= k
    <3> HIDE DEF before
    <3> QED BY <2>1, LeastNatural
  <2>3. PICK d \in dates : m = MaxDate - d
    BY <2>2
  <2>4. ASSUME NEW l \in lots PROVE date[l] <= d
    <3>1. m <= MaxDate - date[l]
      BY <2>2
    <3> QED BY <1>0, <2>3, <3>1
  <2>5. d \in dates /\ \A l \in lots : date[l] <= d
    BY <2>4
  <2>6. LastDate(lots, default) = CHOOSE x \in dates : \A l \in lots : date[l] <= x
    BY <1>2 DEF LastDate
  <2>7. LastDate(lots, default) \in dates /\ \A l \in lots : date[l] <= LastDate(lots, default)
    <3> HIDE DEF dates
    <3> QED BY <2>5, <2>6
  <2> QED BY <1>0, <1>2, <2>7
<1> QED BY <1>1, <1>2

\* What SAP posts is after every date the pull has reached, less the days it asks back for.
LEMMA PostedLateIsAskedFor ==
  ASSUME IntakeTypeOK, NEW c \in 0..MaxDate, Reached(c), NEW l \in Lot, NEW d \in 1..MaxDate, PostLot(l, d)
  PROVE  d >= From(c)
<1>1. Posted \in SUBSET Lot /\ 0 \in 0..MaxDate /\ MaxDate \in Nat /\ Overlap \in Nat
  BY IntakeBounds
<1>2. \A m \in Posted : date[m] <= LastDate(Posted, 0) /\ date[m] \in Nat
  BY <1>1, LastDateIsLast, IntakeBounds
<1>3. LastDate(Posted, 0) \in 0..MaxDate
  BY <1>1, LastDateIsLast
<1>4. c <= d + Overlap
  BY <1>1, <1>2, <1>3 DEF Reached, PostLot
<1> QED BY <1>1, <1>4, FromIsEarlier

-----------------------------------------------------------------------------
(* The pull from SAP: its steps *)

LEMMA PostKeeps ==
  ASSUME IntakeInv, NEW l \in Lot, NEW d \in 1..MaxDate, PostLot(l, d)
  PROVE  IntakeInv'
<1>0. /\ IntakeTypeOK /\ (~pull.on => pull = NoPull) /\ DateInv /\ AheadInv /\ LookupInv /\ CatchInv
  BY DEF IntakeInv
<1>1. /\ date' = [date EXCEPT ![l] = d] /\ date[l] = 0 /\ date \in [Lot -> 0..MaxDate] /\ MaxDate \in Nat /\ d \in 0..MaxDate
      /\ UNCHANGED <<plantKnown, imir, cursor, pull, format, series, approval, approvals, faults>>
  BY <1>0, IntakeBounds DEF PostLot, IntakeTypeOK, intake
<1>2. /\ date' \in [Lot -> 0..MaxDate] /\ date'[l] = d /\ d # 0 /\ \A m \in Lot \ {l} : date'[m] = date[m]
  BY <1>1
<1>3. Posted' = Posted \cup {l} /\ l \notin Posted /\ \A m \in Posted : date'[m] = date[m]
  BY <1>1, <1>2 DEF Posted
<1>4. IntakeTypeOK'
  BY <1>0, <1>1, <1>2, <1>3 DEF IntakeTypeOK
<1>5. \A c : Reached(c) => Reached(c)'
  BY <1>1, <1>3 DEF Reached
<1>6. DateInv'
  BY <1>0, <1>1, <1>5 DEF DateInv, Reached
<1>7. pull.rest \subseteq Posted /\ Storable(pull.lot)' = Storable(pull.lot)
  BY <1>0, <1>1 DEF LookupInv, Storable
<1>8. AheadInv'
  BY <1>0, <1>1, <1>3, <1>7 DEF AheadInv, From
<1>9. LookupInv'
  BY <1>0, <1>1, <1>3, <1>7 DEF LookupInv
<1>10. CatchInv'
  <2>1. cursor \in 0..MaxDate /\ NextCursor \in 0..MaxDate /\ Reached(NextCursor)
    BY <1>0 DEF IntakeTypeOK, PullRow, NextCursor, DateInv
  <2>2. d >= From(cursor) /\ d >= From(NextCursor)
    BY <1>0, <2>1, PostedLateIsAskedFor DEF DateInv
  <2>3. NextCursor' = NextCursor /\ From(cursor)' = From(cursor) /\ From(NextCursor)' = From(NextCursor)
    BY <1>1 DEF NextCursor, From
  <2>4. Missing' \subseteq Missing \cup {l}
    BY <1>1, <1>3 DEF Missing
  <2>5. \A m \in Missing : m \in Posted
    BY DEF Missing
  <2> QED BY <1>0, <1>1, <1>2, <1>3, <2>2, <2>3, <2>4, <2>5 DEF CatchInv
<1> QED BY <1>0, <1>1, <1>4, <1>6, <1>8, <1>9, <1>10 DEF IntakeInv

LEMMA StartKeeps == ASSUME IntakeInv, StartPull PROVE IntakeInv'
<1> DEFINE fetched == {l \in Posted : date[l] >= From(cursor)}
           seen == {l \in fetched : imir[l] # "NONE"}
           last == LastDate(fetched, cursor)
<1>0. /\ IntakeTypeOK /\ DateInv /\ CatchInv /\ LookupInv
  BY DEF IntakeInv
<1>1. /\ pull' = [NoPull EXCEPT !.on = TRUE, !.rest = fetched, !.seen = seen, !.next = last, !.position = cursor]
      /\ UNCHANGED <<date, plantKnown, imir, cursor, format, series, approval, approvals, faults>>
  BY DEF StartPull
<1>2. fetched \subseteq Posted /\ fetched \in SUBSET Lot /\ seen \in SUBSET Lot /\ cursor \in 0..MaxDate
  BY <1>0 DEF Posted, IntakeTypeOK
<1>3. /\ last \in 0..MaxDate
      /\ fetched = {} => last = cursor
      /\ fetched # {} => \E l \in fetched : date[l] = last
      /\ \A l \in fetched : date[l] <= last
  <2> HIDE DEF fetched
  <2> QED BY <1>0, <1>2, LastDateIsLast
<1>4. MaxDate \in Nat /\ Overlap \in Nat /\ \A l \in Posted : date[l] \in Nat
  BY <1>0, IntakeBounds
<1>5. \A l \in fetched : date[l] >= From(cursor)
  OBVIOUS
<1>6. \A l \in Posted : date[l] >= cursor => l \in fetched
  BY <1>2, <1>4, FromIsEarlier
<1>7. \A l \in fetched \ seen : imir[l] = "NONE"
  OBVIOUS
<1>8. \A l \in seen : imir[l] # "NONE"
  OBVIOUS
<1>9. \A l \in Missing : l \in fetched
  BY <1>0 DEF CatchInv, Missing
<1> HIDE DEF fetched, seen, last
<1>10. pull' = [on |-> TRUE, rest |-> fetched, seen |-> seen, next |-> last, position |-> cursor, failed |-> FALSE,
                retryFrom |-> 0, lot |-> NoLot, status |-> "NONE"]
  BY <1>1 DEF NoPull
<1>11. /\ pull' \in PullRow
       /\ pull'.on /\ pull'.rest = fetched /\ pull'.seen = seen /\ pull'.next = last /\ pull'.position = cursor
       /\ pull'.failed = FALSE /\ pull'.retryFrom = 0 /\ pull'.lot = NoLot
  BY <1>2, <1>3, <1>4, <1>10 DEF PullRow
<1>12. IntakeTypeOK'
  BY <1>0, <1>1, <1>10, <1>11 DEF IntakeTypeOK, Posted
<1>13. cursor <= last
  <2>1. cursor \in Nat /\ last \in Nat /\ Reached(cursor)
    BY <1>0, <1>2, <1>3, <1>4 DEF DateInv
  <2>2. ASSUME NEW l \in Posted, cursor <= date[l] PROVE cursor <= last
    BY <1>3, <1>4, <1>6, <2>1, <2>2
  <2> QED BY <2>1, <2>2 DEF Reached
<1>14. Posted' = Posted /\ Missing' = Missing
  BY <1>1 DEF Posted, Missing
<1>15. DateInv'
  <2>1. Reached(last)
    BY <1>0, <1>2, <1>3, <1>4 DEF DateInv, Reached
  <2> QED BY <1>0, <1>1, <1>11, <1>14, <2>1 DEF DateInv, Reached
<1>16. AheadInv'
  BY <1>1, <1>3, <1>5, <1>11, <1>13 DEF AheadInv, From
<1>17. LookupInv'
  BY <1>0, <1>1, <1>2, <1>7, <1>8, <1>11, <1>14 DEF LookupInv
<1>18. CatchInv'
  BY <1>0, <1>1, <1>9, <1>11, <1>14 DEF CatchInv, From
<1> QED BY <1>11, <1>12, <1>15, <1>16, <1>17, <1>18 DEF IntakeInv

\* The pull is done with a lot: it is stored now, or it need not be asked for again, or the pull has
\* noted where to ask from.
LEMMA PastKeeps ==
  ASSUME IntakeInv, NEW l \in Lot, l \in pull.rest, \A m \in pull.rest : date[l] <= date[m],
         UNCHANGED <<date, plantKnown, cursor, format, series, approval, approvals>>, faults' \in 0..MaxFaults,
         \/ pull' = Past(l) /\ imir'[l] # "NONE" /\ l \notin Unreadable
         \/ pull' = Past(l) /\ imir' = imir /\ (l \in Unreadable \/ imir[l] # "NONE")
         \/ Failed(l) /\ imir' = imir,
         imir' \in [Lot -> {"NONE", "AWAITING_FORMAT", "OPEN"}],
         \A m \in Lot \ {l} : imir'[m] = imir[m],
         imir[l] # "NONE" => imir'[l] # "NONE"
  PROVE  IntakeInv'
<1> DEFINE noted == IF pull.failed THEN pull.retryFrom ELSE pull.position
           goesBack == Failed(l) /\ imir' = imir
<1>0. /\ IntakeTypeOK /\ (~pull.on => pull = NoPull) /\ DateInv /\ AheadInv /\ LookupInv /\ CatchInv
  BY DEF IntakeInv
<1>1. /\ pull \in PullRow /\ date \in [Lot -> 0..MaxDate] /\ l \in Posted /\ date[l] # 0 /\ pull.on
  BY <1>0 DEF IntakeTypeOK, LookupInv, Posted, NoPull
<1>2. /\ pull'.on /\ pull'.rest = pull.rest \ {l} /\ pull'.seen = pull.seen /\ pull'.next = pull.next
      /\ pull'.position = date[l] /\ pull'.lot = NoLot /\ pull' \in PullRow
      /\ goesBack => pull'.failed = TRUE /\ pull'.retryFrom = noted
      /\ ~goesBack => pull'.failed = pull.failed /\ pull'.retryFrom = pull.retryFrom
  <2>1. /\ Past(l) \in PullRow /\ Past(l).on = pull.on /\ Past(l).rest = pull.rest \ {l} /\ Past(l).seen = pull.seen
        /\ Past(l).next = pull.next /\ Past(l).position = date[l] /\ Past(l).lot = NoLot
        /\ Past(l).failed = pull.failed /\ Past(l).retryFrom = pull.retryFrom
    BY <1>1 DEF Past, PullRow
  <2>2. ASSUME goesBack PROVE pull' = [Past(l) EXCEPT !.failed = TRUE, !.retryFrom = noted]
    <3> HIDE DEF goesBack
    <3>1. Failed(l)
      BY <2>2 DEF goesBack
    <3> QED BY <2>1, <3>1 DEF Failed
  <2>3. noted \in 0..MaxDate
    BY <1>1 DEF PullRow
  <2>4. ~goesBack => pull' = Past(l)
    OBVIOUS
  <2> HIDE DEF goesBack, noted
  <2> QED BY <1>1, <2>1, <2>2, <2>3, <2>4 DEF PullRow
<1>3. Posted' = Posted /\ {m \in Lot : imir'[m] # "NONE"} \subseteq Posted \ Unreadable
  BY <1>0, <1>1 DEF Posted, IntakeTypeOK
<1>4. IntakeTypeOK'
  BY <1>0, <1>2, <1>3 DEF IntakeTypeOK
<1>5. /\ Overlap \in Nat /\ pull.position \in Nat /\ pull.next \in Nat /\ pull.retryFrom \in Nat /\ date[l] \in Nat
      /\ \A m \in Lot : date[m] \in Nat
      /\ pull.rest \subseteq Lot /\ pull.failed \in BOOLEAN
  BY <1>0, IntakeBounds
<1>6. \A c : Reached(c) => Reached(c)'
  BY <1>3 DEF Reached
<1>7. DateInv'
  <2>1. Reached(date[l]) /\ Reached(noted)
    BY <1>0, <1>1, <1>5 DEF DateInv, Reached
  <2> HIDE DEF goesBack, noted
  <2>2. Reached(cursor)' /\ Reached(pull.next)' /\ Reached(pull.position)' /\ Reached(pull.retryFrom)'
    <3>1. ASSUME NEW c, Reached(c), NEW d, d = c PROVE (d = 0 \/ \E m \in Posted' : d <= date'[m])
      BY <1>3, <3>1 DEF Reached
    <3> QED BY <1>0, <1>2, <2>1, <3>1 DEF DateInv, Reached
  <2> QED BY <2>2 DEF DateInv
<1>8. /\ date[l] <= pull.next /\ pull.position <= pull.next
      /\ \A m \in pull.rest : date[m] <= pull.next /\ date[m] >= From(pull.position) /\ date[l] <= date[m]
      /\ \A m \in pull.rest : date[m] >= From(noted)
  BY <1>0, <1>5 DEF AheadInv
<1>9. From(date[l]) <= date[l] /\ From(date[l]) \in Nat
  BY <1>5, FromIsEarlier
<1>10. \A c : From(c)' = From(c)
  BY DEF From
<1> HIDE DEF noted, goesBack
<1>11. AheadInv'
  <2>1. \A m \in pull.rest : date[m] >= From(date[l])
    BY <1>5, <1>8, <1>9
  <2>2. pull'.failed => \A m \in pull.rest : date[m] >= From(pull'.retryFrom)
    BY <1>0, <1>2, <1>8 DEF AheadInv
  <2> QED BY <1>2, <1>8, <1>10, <2>1, <2>2 DEF AheadInv, From
<1>12. LookupInv'
  <2>1. \A m \in pull.rest \ {l} : m \notin pull.seen => imir'[m] = "NONE"
    BY <1>0, <1>5 DEF LookupInv
  <2>2. \A m \in pull.seen \cup approval.opens : imir'[m] # "NONE"
    <3>1. pull.seen \subseteq Lot /\ approval.opens \subseteq Lot
      BY <1>0 DEF IntakeTypeOK, PullRow
    <3> QED BY <1>0, <3>1 DEF LookupInv
  <2> QED BY <1>0, <1>2, <1>3, <2>1, <2>2 DEF LookupInv
<1>13. CatchInv'
  <2>1. \A m \in Missing' : m \in Missing /\ m \in Lot
    BY <1>0, <1>1, <1>3 DEF Missing, Posted
  <2>2. ~goesBack => l \notin Missing'
    BY <1>2 DEF Missing, goesBack
  <2>3. \A m \in Missing : date[m] >= From(cursor) /\ (m \in pull.rest \/ date[m] >= From(NextCursor))
    BY <1>0, <1>1 DEF CatchInv
  <2>4. CASE goesBack
    <3>1. From(pull.position) <= From(pull.next) /\ From(pull.position) \in Nat /\ From(pull.next) \in Nat
      BY <1>5, <1>8, FromIsEarlier
    <3>2. \A m \in Missing : m \notin pull.rest => date[m] >= From(noted)
      BY <1>5, <2>1, <2>3, <3>1 DEF NextCursor, noted, Missing, Posted
    <3>3. NextCursor' = noted
      BY <1>2, <2>4 DEF NextCursor
    <3>4. \A m \in Missing : date[m] >= From(noted)
      BY <1>8, <3>2
    <3> QED BY <1>10, <2>1, <2>3, <3>3, <3>4 DEF CatchInv, From
  <2>5. CASE ~goesBack
    <3>1. NextCursor' = NextCursor
      BY <1>2, <2>5 DEF NextCursor
    <3> QED BY <1>2, <2>1, <2>2, <2>3, <2>5, <3>1 DEF CatchInv, From
  <2> QED BY <2>4, <2>5
<1> QED BY <1>2, <1>4, <1>7, <1>11, <1>12, <1>13 DEF IntakeInv

\* A step that leaves SAP, the pull and the stored lots alone, but for lots that open, keeps it.
LEMMA OthersKeep ==
  ASSUME IntakeInv, UNCHANGED <<date, cursor, pull, faults>>,
         plantKnown' \in BOOLEAN, format' \in BOOLEAN, series' \in BOOLEAN,
         approval' \in [on : BOOLEAN, opens : SUBSET Lot], approvals' \in 0..MaxApprovals,
         imir' \in [Lot -> {"NONE", "AWAITING_FORMAT", "OPEN"}],
         \A l \in Lot : imir'[l] = "NONE" <=> imir[l] = "NONE",
         \A l \in approval'.opens : imir[l] # "NONE"
  PROVE  IntakeInv'
<1>0. /\ IntakeTypeOK /\ (~pull.on => pull = NoPull) /\ DateInv /\ AheadInv /\ LookupInv /\ CatchInv
  BY DEF IntakeInv
<1>1. Posted' = Posted /\ Posted \subseteq Lot /\ pull.rest \subseteq Lot /\ pull.seen \subseteq Lot
  BY <1>0 DEF Posted, IntakeTypeOK, PullRow
<1>2. IntakeTypeOK'
  <2>1. pull.lot # NoLot => pull.lot \in Lot
    BY <1>0, <1>1 DEF LookupInv
  <2> QED BY <1>0, <1>1, <2>1 DEF IntakeTypeOK
<1>3. DateInv'
  BY <1>0, <1>1 DEF DateInv, Reached
<1>4. AheadInv'
  BY <1>0 DEF AheadInv, From
<1>5. LookupInv'
  <2>1. approval'.opens \subseteq Lot
    OBVIOUS
  <2> QED BY <1>0, <1>1, <2>1 DEF LookupInv, Storable
<1>6. CatchInv'
  <2>1. Missing' = Missing
    BY <1>1 DEF Missing
  <2> QED BY <1>0, <2>1 DEF CatchInv, NextCursor, From
<1> QED BY <1>0, <1>2, <1>3, <1>4, <1>5, <1>6 DEF IntakeInv

LEMMA StoreKeeps == ASSUME IntakeInv, NEW l \in Lot, StoreLot(l) PROVE IntakeInv'
<1>0. /\ IntakeTypeOK /\ (~pull.on => pull = NoPull) /\ DateInv /\ AheadInv /\ LookupInv /\ CatchInv
  BY DEF IntakeInv
<1>1. /\ l \in pull.rest /\ Storable(l) /\ pull.lot = NoLot
      /\ UNCHANGED <<date, plantKnown, imir, cursor, format, series, approval, approvals, faults>>
      /\ pull \in PullRow
  BY <1>0 DEF StoreLot, IsNext, IntakeTypeOK
<1>2. \A m \in pull.rest : date[l] <= date[m]
  BY <1>0, IntakeBounds DEF StoreLot, IsNext
<1>3. PICK s \in {"OPEN", "AWAITING_FORMAT"} : pull' = [pull EXCEPT !.lot = l, !.status = s]
  BY DEF StoreLot
<1>4. /\ pull' \in PullRow /\ pull'.lot = l /\ pull'.on = pull.on /\ pull'.rest = pull.rest /\ pull'.seen = pull.seen
      /\ pull'.next = pull.next /\ pull'.position = pull.position /\ pull'.failed = pull.failed
      /\ pull'.retryFrom = pull.retryFrom /\ pull'.status # "NONE"
  BY <1>1, <1>3 DEF PullRow
<1>5. imir[l] = "NONE" /\ pull.on
  BY <1>0, <1>1 DEF LookupInv, Storable, NoPull
<1>6. IntakeTypeOK'
  BY <1>0, <1>1, <1>4, <1>5 DEF IntakeTypeOK, Posted
<1>7. DateInv' /\ AheadInv' /\ CatchInv'
  BY <1>0, <1>1, <1>4 DEF DateInv, AheadInv, CatchInv, NextCursor, Missing, Posted, Reached, From
<1>8. LookupInv'
  BY <1>0, <1>1, <1>2, <1>4 DEF LookupInv, Storable, Posted
<1> QED BY <1>4, <1>5, <1>6, <1>7, <1>8 DEF IntakeInv

LEMMA FinishKeeps == ASSUME IntakeInv, FinishPull PROVE IntakeInv'
<1>0. /\ IntakeTypeOK /\ DateInv /\ AheadInv /\ LookupInv /\ CatchInv
  BY DEF IntakeInv
<1>1. /\ pull.on /\ pull.rest = {} /\ cursor' = NextCursor /\ pull' = NoPull
      /\ UNCHANGED <<date, plantKnown, imir, format, series, approval, approvals, faults>>
  BY DEF FinishPull, NextCursor
<1>2. NextCursor \in 0..MaxDate /\ NoPull \in PullRow /\ MaxDate \in Nat
  <2>1. 0 \in 0..MaxDate /\ MaxDate \in Nat
    BY <1>0, IntakeBounds
  <2> QED BY <1>0, <2>1 DEF NextCursor, IntakeTypeOK, PullRow, NoPull
<1>3. /\ NoPull.on = FALSE /\ NoPull.rest = {} /\ NoPull.seen = {} /\ NoPull.next = 0 /\ NoPull.position = 0
      /\ NoPull.failed = FALSE /\ NoPull.retryFrom = 0 /\ NoPull.lot = NoLot
  BY DEF NoPull
<1>4. IntakeTypeOK'
  BY <1>0, <1>1, <1>2, <1>3 DEF IntakeTypeOK, Posted
<1>5. DateInv'
  BY <1>0, <1>1, <1>3 DEF DateInv, Reached, NextCursor, Posted
<1>6. AheadInv' /\ LookupInv'
  BY <1>0, <1>1, <1>3 DEF AheadInv, LookupInv
<1>7. CatchInv'
  BY <1>0, <1>1, <1>3 DEF CatchInv, Missing, Posted, From
<1> QED BY <1>1, <1>4, <1>5, <1>6, <1>7 DEF IntakeInv

LEMMA CrashKeeps == ASSUME IntakeInv, Crash PROVE IntakeInv'
<1>0. /\ IntakeTypeOK /\ DateInv /\ AheadInv /\ LookupInv /\ CatchInv
  BY DEF IntakeInv
<1>1. /\ pull' = NoPull /\ faults' \in 0..MaxFaults
      /\ UNCHANGED <<date, plantKnown, imir, cursor, format, series, approval, approvals>>
  BY <1>0, IntakeBounds DEF Crash, IntakeTypeOK
<1>2. /\ NoPull.on = FALSE /\ NoPull.rest = {} /\ NoPull.seen = {} /\ NoPull.next = 0 /\ NoPull.position = 0
      /\ NoPull.failed = FALSE /\ NoPull.retryFrom = 0 /\ NoPull.lot = NoLot
  BY DEF NoPull
<1>3. NoPull \in PullRow
  <2>1. 0 \in 0..MaxDate
    BY <1>0, IntakeBounds
  <2> QED BY <2>1 DEF PullRow, NoPull
<1>4. IntakeTypeOK'
  BY <1>0, <1>1, <1>2, <1>3 DEF IntakeTypeOK, Posted
<1>5. DateInv'
  BY <1>0, <1>1, <1>2 DEF DateInv, Reached, Posted
<1>6. AheadInv' /\ LookupInv'
  BY <1>0, <1>1, <1>2 DEF AheadInv, LookupInv
<1>7. CatchInv'
  BY <1>0, <1>1, <1>2 DEF CatchInv, Missing, Posted, From
<1> QED BY <1>1, <1>4, <1>5, <1>6, <1>7 DEF IntakeInv

LEMMA IntakeStarts == IntakeInit => IntakeInv
<1> SUFFICES ASSUME IntakeInit PROVE IntakeInv
  OBVIOUS
<1>1. /\ NoPull.on = FALSE /\ NoPull.rest = {} /\ NoPull.seen = {} /\ NoPull.next = 0 /\ NoPull.position = 0
      /\ NoPull.failed = FALSE /\ NoPull.retryFrom = 0 /\ NoPull.lot = NoLot
      /\ NoApproval.on = FALSE /\ NoApproval.opens = {} /\ NoApproval \in [on : BOOLEAN, opens : SUBSET Lot]
  BY DEF NoPull, NoApproval
<1>2. 0 \in 0..MaxDate /\ 0 \in 0..MaxFaults /\ 0 \in 0..MaxApprovals
  BY IntakeAssumption
<1>3. NoPull \in PullRow
  BY <1>2 DEF PullRow, NoPull
<1>4. /\ date \in [Lot -> 0..MaxDate] /\ imir \in [Lot -> {"NONE", "AWAITING_FORMAT", "OPEN"}] /\ Posted = {}
      /\ \A l \in Lot : imir[l] = "NONE"
  BY <1>2 DEF IntakeInit, Posted
<1>5. IntakeTypeOK
  BY <1>1, <1>2, <1>3, <1>4 DEF IntakeTypeOK, IntakeInit
<1>6. DateInv /\ AheadInv /\ LookupInv
  BY <1>1, <1>4 DEF IntakeInit, DateInv, Reached, AheadInv, LookupInv
<1>7. CatchInv
  BY <1>1, <1>4 DEF IntakeInit, CatchInv, Missing
<1> QED BY <1>5, <1>6, <1>7 DEF IntakeInv, IntakeInit

LEMMA IntakeStep == IntakeInv /\ [IntakeNext]_intakeVars => IntakeInv'
<1> SUFFICES ASSUME IntakeInv, [IntakeNext]_intakeVars PROVE IntakeInv'
  OBVIOUS
<1>0. /\ IntakeTypeOK /\ LookupInv /\ imir \in [Lot -> {"NONE", "AWAITING_FORMAT", "OPEN"}]
      /\ MaxFaults \in Nat /\ MaxApprovals \in Nat /\ faults \in 0..MaxFaults /\ approvals \in 0..MaxApprovals
      /\ approval \in [on : BOOLEAN, opens : SUBSET Lot] /\ plantKnown \in BOOLEAN /\ format \in BOOLEAN /\ series \in BOOLEAN
      /\ pull \in PullRow
  BY IntakeBounds DEF IntakeInv, IntakeTypeOK
<1>1. CASE SapNext
  BY <1>1, PostKeeps DEF SapNext
<1>2. CASE MasterNext
  <2>1. /\ UNCHANGED <<date, cursor, pull, faults, imir, approval, approvals, format>>
        /\ plantKnown' \in BOOLEAN /\ series' \in BOOLEAN
    BY <1>0, <1>2 DEF MasterNext, AddPlant, AddSeries, intake
  <2>2. \A l \in approval.opens : imir[l] # "NONE"
    BY <1>0 DEF LookupInv
  <2> QED BY <1>0, <2>1, <2>2, OthersKeep
<1>3. CASE PullNext
  <2>1. ASSUME NEW l \in Lot, PassOver(l) PROVE IntakeInv'
    <3>1. l \in pull.rest /\ \A m \in pull.rest : date[l] <= date[m]
      BY <1>0, <2>1, IntakeBounds DEF PassOver, IsNext
    <3>2. l \in Unreadable \/ imir[l] # "NONE"
      BY <1>0, <2>1 DEF PassOver, LookupInv
    <3> QED BY <1>0, <2>1, <3>1, <3>2, PastKeeps DEF PassOver
  <2>2. ASSUME NEW l \in Lot, RefuseLot(l) PROVE IntakeInv'
    <3>1. l \in pull.rest /\ \A m \in pull.rest : date[l] <= date[m]
      BY <1>0, <2>2, IntakeBounds DEF RefuseLot, IsNext
    <3> QED BY <1>0, <2>2, <3>1, PastKeeps DEF RefuseLot
  <2>3. ASSUME NEW l \in Lot, CommitLot(l) PROVE IntakeInv'
    <3>1. /\ l \in pull.rest /\ \A m \in pull.rest : date[l] <= date[m]
          /\ l \notin Unreadable
      BY <1>0, <2>3 DEF CommitLot, LookupInv, Storable, Lot, NoLot
    <3>2. pull.status \in {"OPEN", "AWAITING_FORMAT"}
      BY <1>0, <2>3 DEF CommitLot, LookupInv, Lot, NoLot, PullRow
    <3> QED BY <1>0, <2>3, <3>1, <3>2, PastKeeps DEF CommitLot
  <2> QED BY <1>3, <2>1, <2>2, <2>3, StartKeeps, StoreKeeps, FinishKeeps DEF PullNext
<1>4. CASE FaultNext
  <2>1. ASSUME NEW l \in Lot, LotFails(l) PROVE IntakeInv'
    <3>1. l \in pull.rest /\ \A m \in pull.rest : date[l] <= date[m]
      BY <1>0, <2>1 DEF LotFails, LookupInv, Lot, NoLot
    <3>2. faults' \in 0..MaxFaults
      BY <1>0, <2>1 DEF LotFails
    <3> QED BY <1>0, <2>1, <3>1, <3>2, PastKeeps DEF LotFails
  <2> QED BY <1>4, <2>1, CrashKeeps DEF FaultNext
<1>5. CASE ApprovalNext
  <2>1. CASE BeginApproval
    <3> DEFINE opens == {l \in Lot : imir[l] = "AWAITING_FORMAT" /\ series}
    <3>1. approval' = [on |-> TRUE, opens |-> opens] /\ approvals' \in 0..MaxApprovals
      BY <1>0, <2>1 DEF BeginApproval
    <3>2. opens \in SUBSET Lot /\ \A l \in opens : imir[l] # "NONE"
      OBVIOUS
    <3> HIDE DEF opens
    <3>3. UNCHANGED <<date, cursor, pull, faults, imir, plantKnown, format, series>>
      BY <2>1 DEF BeginApproval, intake
    <3> QED BY <1>0, <3>1, <3>2, <3>3, OthersKeep
  <2>2. CASE CommitApproval
    <3>1. NoApproval \in [on : BOOLEAN, opens : SUBSET Lot] /\ NoApproval.opens = {}
      BY DEF NoApproval
    <3>2. /\ UNCHANGED <<date, cursor, pull, faults, approvals, plantKnown, series>>
          /\ format' = TRUE /\ approval' = NoApproval
      BY <2>2 DEF CommitApproval
    <3>3. /\ imir' \in [Lot -> {"NONE", "AWAITING_FORMAT", "OPEN"}]
          /\ \A l \in Lot : imir'[l] = "NONE" <=> imir[l] = "NONE"
      BY <1>0, <2>2 DEF CommitApproval, LookupInv
    <3> QED BY <1>0, <3>1, <3>2, <3>3, OthersKeep
  <2> QED BY <1>5, <2>1, <2>2 DEF ApprovalNext
<1>6. CASE UNCHANGED intakeVars
  <2>1. UNCHANGED <<date, cursor, pull, faults, imir, approval, approvals, plantKnown, format, series>>
    BY <1>6 DEF intakeVars, intake
  <2>2. \A l \in approval.opens : imir[l] # "NONE"
    BY <1>0 DEF LookupInv
  <2> QED BY <1>0, <2>1, <2>2, OthersKeep
<1> QED BY <1>1, <1>2, <1>3, <1>4, <1>5, <1>6 DEF IntakeNext

LEMMA IntakeInvariance == IntakeSpec => []IntakeInv
  BY IntakeStarts, IntakeStep, PTL DEF IntakeSpec

\* Whatever fails, crashes, is refused or is posted late, for any overlap: the next pull asks SAP for
\* every lot that was posted and is not stored (runSapSync, overlapFrom).
THEOREM NoLotSlipsPast == IntakeSpec => []NothingSlipsPast
<1>1. IntakeInv => NothingSlipsPast
  BY DEF IntakeInv, CatchInv, Missing, NothingSlipsPast
<1> QED BY <1>1, IntakeInvariance, PTL

-----------------------------------------------------------------------------
(* The mail outbox *)

\* The workers that will hand the mail over, if they get to it.
Unsent == {w \in Worker : batch[w].holds = "MAIL"}

\* The mail may go out once more although nothing excuses it.
Spare == delivered + Cardinality(Unsent) <= excused

BatchInv ==
  /\ status = "PENDING" => attempts < MaxAttempts
  /\ \A w \in Worker : batch[w].attempts < MaxAttempts /\ (batch[w].holds = "NOTHING" => batch[w] = NoBatch)

\* When nothing is to spare, the mail is settled, or no worker can have it again before the lease of
\* one that holds it has run out.
CountInv ==
  /\ IsFiniteSet(Unsent) /\ delivered + Cardinality(Unsent) <= 1 + excused
  /\ status = "FAILED" => Spare
  /\ status = "PENDING" =>
       Spare \/ \E w \in Worker : batch[w].holds # "NOTHING" /\ wait + batch[w].age >= LeaseMinutes

SentInv == (status = "SENT" \/ \E w \in Worker : batch[w].holds = "SENT_MAIL") => delivered > 0

MailInv == OutboxTypeOK /\ BatchInv /\ CountInv /\ SentInv

MailBatch == [holds : {"NOTHING", "MAIL", "SENT_MAIL"}, age : 0..OldestBatch, attempts : 0..MaxAttempts]

LEMMA PowerOfTwo == ASSUME NEW n \in Nat PROVE 2^n \in Nat
<1>1. IsFiniteSet(1..n) /\ Cardinality(1..n) = n
  BY FS_Interval
<1>2. IsFiniteSet(SUBSET (1..n)) /\ Cardinality(SUBSET (1..n)) = 2^n
  BY <1>1, FS_SUBSET
<1> QED BY <1>2, FS_CardinalityType

LEMMA OutboxBounds ==
  ASSUME OutboxTypeOK
  PROVE  /\ LeaseMinutes \in Nat /\ MaxAttempts \in Nat /\ MaxDelay \in Nat /\ MaxMishaps \in Nat
         /\ LeaseMinutes > 0 /\ MaxAttempts > 0 /\ OldestBatch \in Nat
         /\ LeaseMinutes <= OldestBatch /\ MaxDelay <= OldestBatch
         /\ attempts \in Nat /\ delivered \in Nat /\ excused \in Nat /\ wait \in Nat /\ wait <= OldestBatch
         /\ \A w \in Worker : batch[w] \in MailBatch
         /\ \A w \in Worker : batch[w].age \in Nat /\ batch[w].age <= OldestBatch /\ batch[w].attempts \in Nat
<1>1. LeaseMinutes \in Nat /\ MaxAttempts \in Nat /\ MaxDelay \in Nat /\ MaxMishaps \in Nat /\ LeaseMinutes > 0 /\ MaxAttempts > 0
  BY OutboxAssumption
<1>2. OldestBatch \in Nat /\ LeaseMinutes <= OldestBatch /\ MaxDelay <= OldestBatch
  BY <1>1 DEF OldestBatch
<1>3. attempts \in Nat /\ delivered \in Nat /\ excused \in Nat /\ wait \in Nat /\ wait <= OldestBatch
  BY <1>2 DEF OutboxTypeOK
<1>4. \A w \in Worker : batch[w] \in MailBatch
  BY DEF OutboxTypeOK, MailBatch
<1>5. \A w \in Worker : batch[w].age \in Nat /\ batch[w].age <= OldestBatch /\ batch[w].attempts \in Nat
  <2>1. ASSUME NEW b \in MailBatch PROVE b.age \in 0..OldestBatch /\ b.attempts \in 0..MaxAttempts
    BY DEF MailBatch
  <2>2. \A n \in 0..OldestBatch : n \in Nat /\ n <= OldestBatch
    BY <1>2
  <2>3. \A n \in 0..MaxAttempts : n \in Nat
    BY <1>1
  <2> QED BY <1>4, <2>1, <2>2, <2>3
<1> QED BY <1>1, <1>2, <1>3, <1>4, <1>5

\* A retry is at most the longest delay away.
LEMMA RetryWaits ==
  ASSUME OutboxTypeOK, NEW w \in Worker, NEW tried \in Nat, Retry(w, tried)
  PROVE  wait' \in 0..OldestBatch
<1>1. 2^tried \in Nat
  BY PowerOfTwo
<1>2. Least(2^tried, MaxDelay) \in Nat /\ Least(2^tried, MaxDelay) <= MaxDelay
  BY <1>1, OutboxBounds DEF Least
<1> QED BY <1>2, OutboxBounds DEF Retry, Minus

\* How the workers about to send change when one worker's batch does.
LEMMA UnsentChanges ==
  ASSUME OutboxTypeOK, IsFiniteSet(Unsent), NEW w \in Worker, NEW b \in MailBatch, batch' = [batch EXCEPT ![w] = b]
  PROVE  /\ IsFiniteSet(Unsent') /\ Cardinality(Unsent) \in Nat /\ Cardinality(Unsent') \in Nat
         /\ b.holds = "MAIL" /\ batch[w].holds # "MAIL" => Cardinality(Unsent') = Cardinality(Unsent) + 1
         /\ b.holds # "MAIL" /\ batch[w].holds = "MAIL" => Cardinality(Unsent') = Cardinality(Unsent) - 1
         /\ (b.holds = "MAIL" <=> batch[w].holds = "MAIL") => Cardinality(Unsent') = Cardinality(Unsent)
<1>1. /\ batch'[w] = b /\ \A v \in Worker \ {w} : batch'[v] = batch[v]
  BY DEF OutboxTypeOK
<1>2. Cardinality(Unsent) \in Nat
  BY FS_CardinalityType
<1>3. CASE b.holds = "MAIL" /\ batch[w].holds # "MAIL"
  <2>1. Unsent' = Unsent \cup {w} /\ w \notin Unsent
    BY <1>1, <1>3 DEF Unsent
  <2>2. IsFiniteSet(Unsent \cup {w}) /\ Cardinality(Unsent \cup {w}) = Cardinality(Unsent) + 1
    BY <2>1, FS_AddElement
  <2> QED BY <1>2, <1>3, <2>1, <2>2
<1>4. CASE b.holds # "MAIL" /\ batch[w].holds = "MAIL"
  <2>1. Unsent' = Unsent \ {w} /\ w \in Unsent
    BY <1>1, <1>4 DEF Unsent
  <2>2. IsFiniteSet(Unsent \ {w}) /\ Cardinality(Unsent \ {w}) = Cardinality(Unsent) - 1
    BY <2>1, FS_RemoveElement
  <2>3. Cardinality(Unsent \ {w}) \in Nat
    BY <2>2, FS_CardinalityType
  <2> QED BY <1>2, <1>4, <2>1, <2>2, <2>3
<1>5. CASE b.holds = "MAIL" <=> batch[w].holds = "MAIL"
  <2>1. Unsent' = Unsent
    BY <1>1, <1>5 DEF Unsent
  <2> QED BY <1>2, <1>5, <2>1
<1> QED BY <1>3, <1>4, <1>5

LEMMA MailStarts == MailInit => MailInv
<1> SUFFICES ASSUME MailInit PROVE MailInv
  OBVIOUS
<1>1. LeaseMinutes \in Nat /\ MaxAttempts \in Nat /\ MaxDelay \in Nat /\ MaxMishaps \in Nat /\ MaxAttempts > 0
  BY OutboxAssumption
<1>2. OldestBatch \in Nat
  BY <1>1 DEF OldestBatch
<1>3. NoBatch \in MailBatch /\ NoBatch.holds = "NOTHING" /\ NoBatch.attempts = 0
  BY <1>1, <1>2 DEF NoBatch, MailBatch
<1>4. OutboxTypeOK
  BY <1>1, <1>2, <1>3 DEF MailInit, OutboxTypeOK, MailBatch
<1>5. BatchInv /\ SentInv
  BY <1>1, <1>3 DEF MailInit, BatchInv, SentInv
<1>6. Unsent = {}
  BY <1>3 DEF MailInit, Unsent
<1>7. IsFiniteSet(Unsent) /\ Cardinality(Unsent) = 0
  BY <1>6, FS_EmptySet
<1>8. CountInv
  BY <1>7 DEF MailInit, CountInv, Spare
<1> QED BY <1>4, <1>5, <1>8 DEF MailInv

LEMMA LeaseKeeps == ASSUME MailInv, NEW w \in Worker, Lease(w) PROVE MailInv'
<1> DEFINE b == [holds |-> "MAIL", age |-> 0, attempts |-> attempts]
<1>0. OutboxTypeOK /\ BatchInv /\ CountInv /\ SentInv
  BY DEF MailInv
<1>1. /\ batch[w] = NoBatch /\ status = "PENDING" /\ wait = 0 /\ wait' = LeaseMinutes
      /\ batch' = [batch EXCEPT ![w] = b]
      /\ UNCHANGED <<status, attempts, delivered, mishaps>>
  BY DEF Lease, Due
<1>2. b \in MailBatch /\ b.holds = "MAIL" /\ b.age = 0 /\ b.attempts = attempts /\ attempts < MaxAttempts
  BY <1>0, <1>1, OutboxBounds DEF MailBatch, BatchInv
<1> HIDE DEF b
<1>3. batch[w].holds = "NOTHING"
  BY <1>1 DEF NoBatch
<1>4. IsFiniteSet(Unsent') /\ Cardinality(Unsent') = Cardinality(Unsent) + 1 /\ Cardinality(Unsent) \in Nat
  BY <1>0, <1>1, <1>2, <1>3, UnsentChanges DEF CountInv
<1>5. batch'[w] = b /\ batch' \in [Worker -> MailBatch] /\ \A v \in Worker \ {w} : batch'[v] = batch[v]
  BY <1>0, <1>1, <1>2 DEF OutboxTypeOK, MailBatch
<1>6. excused' \in Nat /\ excused' = IF Outlasted THEN excused + 1 ELSE excused
  BY <1>0, OutboxBounds DEF Lease
<1>7. OutboxTypeOK'
  BY <1>0, <1>1, <1>5, <1>6, OutboxBounds DEF OutboxTypeOK, OldestBatch, MailBatch
<1>8. BatchInv'
  BY <1>0, <1>1, <1>2, <1>5 DEF BatchInv
<1>9. SentInv'
  BY <1>0, <1>1, <1>2, <1>5 DEF SentInv
<1>10. Spare \/ Outlasted
  <2>1. ASSUME NEW v \in Worker, batch[v].holds # "NOTHING", wait + batch[v].age >= LeaseMinutes PROVE Outlasted
    <3>1. batch[v] # NoBatch
      BY <2>1 DEF NoBatch
    <3>2. batch[v].age >= LeaseMinutes
      BY <1>0, <1>1, <2>1, OutboxBounds
    <3> QED BY <3>1, <3>2 DEF Outlasted
  <2> QED BY <1>0, <1>1, <2>1 DEF CountInv
<1>11. CountInv'
  <2>1. delivered' + Cardinality(Unsent') <= 1 + excused'
    BY <1>0, <1>1, <1>4, <1>6, <1>10, OutboxBounds DEF CountInv, Spare
  <2>2. batch'[w].holds # "NOTHING" /\ wait' + batch'[w].age >= LeaseMinutes
    BY <1>0, <1>1, <1>2, <1>5, OutboxBounds
  <2> QED BY <1>1, <1>4, <2>1, <2>2 DEF CountInv
<1> QED BY <1>7, <1>8, <1>9, <1>11 DEF MailInv

LEMMA HandOverKeeps == ASSUME MailInv, NEW w \in Worker, HandOver(w) PROVE MailInv'
<1> DEFINE b == [batch[w] EXCEPT !.holds = "SENT_MAIL"]
<1>0. OutboxTypeOK /\ BatchInv /\ CountInv /\ SentInv /\ batch[w] \in MailBatch
  BY OutboxBounds DEF MailInv
<1>1. /\ batch[w].holds = "MAIL" /\ batch' = [batch EXCEPT ![w] = b] /\ delivered' = delivered + 1
      /\ UNCHANGED <<status, attempts, wait, excused, mishaps>>
  BY DEF HandOver, row
<1>2. b \in MailBatch /\ b.holds = "SENT_MAIL" /\ b.age = batch[w].age /\ b.attempts = batch[w].attempts
  BY <1>0 DEF MailBatch
<1> HIDE DEF b
<1>3. /\ IsFiniteSet(Unsent') /\ Cardinality(Unsent') = Cardinality(Unsent) - 1
      /\ Cardinality(Unsent) \in Nat /\ Cardinality(Unsent') \in Nat
  BY <1>0, <1>1, <1>2, UnsentChanges DEF CountInv
<1>4. batch'[w] = b /\ batch' \in [Worker -> MailBatch] /\ \A v \in Worker \ {w} : batch'[v] = batch[v]
  BY <1>0, <1>1, <1>2 DEF OutboxTypeOK, MailBatch
<1>5. OutboxTypeOK'
  BY <1>0, <1>1, <1>4, OutboxBounds DEF OutboxTypeOK, OldestBatch, MailBatch
<1>6. BatchInv' /\ SentInv'
  BY <1>0, <1>1, <1>2, <1>4, OutboxBounds DEF BatchInv, SentInv
<1>7. delivered' + Cardinality(Unsent') = delivered + Cardinality(Unsent)
  BY <1>0, <1>1, <1>3, OutboxBounds
<1>8. \A v \in Worker : (batch[v].holds # "NOTHING" => batch'[v].holds # "NOTHING") /\ batch'[v].age = batch[v].age
  BY <1>1, <1>2, <1>4
<1>9. CountInv'
  BY <1>0, <1>1, <1>3, <1>7, <1>8 DEF CountInv, Spare
<1> QED BY <1>5, <1>6, <1>9 DEF MailInv

\* A worker gives the mail up: what it did or did not deliver is settled, so there is one to spare.
LEMMA GivenUpKeeps ==
  ASSUME MailInv, NEW w \in Worker, batch' = [batch EXCEPT ![w] = NoBatch],
         \/ batch[w].holds = "MAIL" /\ excused' = excused
         \/ batch[w].holds = "SENT_MAIL" /\ excused' = excused + 1,
         delivered' = delivered, mishaps' \in 0..MaxMishaps, wait' \in 0..OldestBatch, attempts' \in Nat,
         status' \in {"PENDING", "SENT", "FAILED"}, status' = "PENDING" => attempts' < MaxAttempts,
         status' = "SENT" => status = "SENT"
  PROVE  MailInv'
<1>0. OutboxTypeOK /\ BatchInv /\ CountInv /\ SentInv /\ batch[w] \in MailBatch
  BY OutboxBounds DEF MailInv
<1>1. NoBatch \in MailBatch /\ NoBatch.holds = "NOTHING" /\ NoBatch.attempts = 0
  BY <1>0, OutboxBounds DEF NoBatch, MailBatch
<1>2. /\ IsFiniteSet(Unsent') /\ Cardinality(Unsent) \in Nat /\ Cardinality(Unsent') \in Nat
      /\ batch[w].holds = "MAIL" => Cardinality(Unsent') = Cardinality(Unsent) - 1
      /\ batch[w].holds = "SENT_MAIL" => Cardinality(Unsent') = Cardinality(Unsent)
  BY <1>0, <1>1, UnsentChanges DEF CountInv
<1>3. batch'[w] = NoBatch /\ batch' \in [Worker -> MailBatch] /\ \A v \in Worker \ {w} : batch'[v] = batch[v]
  BY <1>0, <1>1 DEF OutboxTypeOK, MailBatch
<1>4. excused' \in Nat /\ delivered' \in Nat
  BY <1>0, OutboxBounds
<1>5. OutboxTypeOK'
  BY <1>0, <1>3, <1>4 DEF OutboxTypeOK, OldestBatch, MailBatch
<1>6. BatchInv' /\ SentInv'
  BY <1>0, <1>1, <1>3, OutboxBounds DEF BatchInv, SentInv
<1>7. Spare'
  BY <1>0, <1>2, OutboxBounds DEF Spare, CountInv
<1>8. CountInv'
  BY <1>2, <1>4, <1>7 DEF CountInv, Spare
<1> QED BY <1>5, <1>6, <1>8 DEF MailInv

LEMMA RecordSentKeeps == ASSUME MailInv, NEW w \in Worker, RecordSent(w) PROVE MailInv'
<1>0. OutboxTypeOK /\ BatchInv /\ CountInv /\ SentInv /\ batch[w] \in MailBatch
  BY OutboxBounds DEF MailInv
<1>1. /\ batch[w].holds = "SENT_MAIL" /\ status' = "SENT" /\ attempts' = 0 /\ wait' = 0
      /\ batch' = [batch EXCEPT ![w] = NoBatch] /\ UNCHANGED <<delivered, excused, mishaps>>
  BY DEF RecordSent
<1>2. NoBatch \in MailBatch /\ NoBatch.holds = "NOTHING" /\ NoBatch.attempts = 0
  BY <1>0, OutboxBounds DEF NoBatch, MailBatch
<1>3. IsFiniteSet(Unsent') /\ Cardinality(Unsent') = Cardinality(Unsent) /\ Cardinality(Unsent) \in Nat
  BY <1>0, <1>1, <1>2, UnsentChanges DEF CountInv
<1>4. batch'[w] = NoBatch /\ batch' \in [Worker -> MailBatch] /\ \A v \in Worker \ {w} : batch'[v] = batch[v]
  BY <1>0, <1>1, <1>2 DEF OutboxTypeOK, MailBatch
<1>5. OutboxTypeOK'
  BY <1>0, <1>1, <1>4, OutboxBounds DEF OutboxTypeOK, OldestBatch, MailBatch
<1>6. BatchInv' /\ SentInv'
  BY <1>0, <1>1, <1>2, <1>4, OutboxBounds DEF BatchInv, SentInv
<1>7. CountInv'
  BY <1>0, <1>1, <1>3 DEF CountInv
<1> QED BY <1>5, <1>6, <1>7 DEF MailInv

\* A failure is recorded from what was read with the lease: never more attempts than there may be.
LEMMA FailureIsRecorded ==
  ASSUME MailInv, NEW w \in Worker, RecordFailure(w)
  PROVE  /\ attempts' \in Nat /\ status' \in {"PENDING", "FAILED"} /\ wait' \in 0..OldestBatch
         /\ status' = "PENDING" => attempts' < MaxAttempts
<1>1. OutboxTypeOK
  BY DEF MailInv
<1>2. attempts' = batch[w].attempts + 1 /\ attempts' \in Nat
  BY <1>1, OutboxBounds DEF RecordFailure
<1>3. wait' \in 0..OldestBatch
  BY <1>1, <1>2, RetryWaits DEF RecordFailure
<1> QED BY <1>1, <1>2, <1>3, OutboxBounds DEF RecordFailure

LEMMA MinuteKeeps == ASSUME MailInv, Minute PROVE MailInv'
<1>0. OutboxTypeOK /\ BatchInv /\ CountInv /\ SentInv
  BY DEF MailInv
<1>1. wait' = Minus(wait, 1) /\ UNCHANGED <<status, attempts, delivered, excused, mishaps>>
  BY DEF Minute
<1>2. wait' \in 0..OldestBatch /\ wait' + 1 >= wait
  BY <1>0, <1>1, OutboxBounds DEF Minus
<1>3. ASSUME NEW w \in Worker
      PROVE  /\ batch[w] = NoBatch => batch'[w] = NoBatch
             /\ batch'[w] \in MailBatch /\ batch'[w].holds = batch[w].holds /\ batch'[w].attempts = batch[w].attempts
             /\ batch[w].holds # "NOTHING" =>
                  batch'[w].age = IF batch[w].age + 1 < OldestBatch THEN batch[w].age + 1 ELSE OldestBatch
  <2>1. batch[w] \in MailBatch /\ batch[w].age \in 0..OldestBatch /\ OldestBatch \in Nat
    BY <1>0, OutboxBounds
  <2>2. CASE batch[w] = NoBatch
    <3>1. batch'[w] = NoBatch
      BY <2>2 DEF Minute
    <3>2. NoBatch.holds = "NOTHING"
      BY DEF NoBatch
    <3> QED BY <2>1, <2>2, <3>1, <3>2
  <2>3. CASE batch[w] # NoBatch
    <3>1. batch'[w] = [batch[w] EXCEPT !.age = Least(batch[w].age + 1, OldestBatch)]
      BY <2>3 DEF Minute
    <3>2. Least(batch[w].age + 1, OldestBatch) \in 0..OldestBatch
      BY <2>1 DEF Least
    <3>3. Least(batch[w].age + 1, OldestBatch) = IF batch[w].age + 1 < OldestBatch THEN batch[w].age + 1 ELSE OldestBatch
      BY DEF Least
    <3>4. batch'[w] \in MailBatch /\ batch'[w].holds = batch[w].holds /\ batch'[w].attempts = batch[w].attempts
      BY <2>1, <3>1, <3>2 DEF MailBatch
    <3>5. batch'[w].age = Least(batch[w].age + 1, OldestBatch)
      BY <2>1, <3>1 DEF MailBatch
    <3> QED BY <2>3, <3>3, <3>4, <3>5
  <2> QED BY <2>2, <2>3
<1>4. batch' \in [Worker -> MailBatch]
  <2>1. batch' = [w \in Worker |-> batch'[w]]
    BY DEF Minute
  <2> QED BY <1>3, <2>1
<1>5. OutboxTypeOK'
  BY <1>0, <1>1, <1>2, <1>4 DEF OutboxTypeOK, OldestBatch, MailBatch
<1>6. BatchInv' /\ SentInv'
  BY <1>0, <1>1, <1>3 DEF BatchInv, SentInv
<1>7. Unsent' = Unsent
  BY <1>3 DEF Unsent
<1>8. ASSUME NEW w \in Worker, batch[w].holds # "NOTHING", wait + batch[w].age >= LeaseMinutes
      PROVE  batch'[w].holds # "NOTHING" /\ wait' + batch'[w].age >= LeaseMinutes
  <2>1. wait' \in Nat /\ wait \in Nat /\ batch[w].age \in Nat /\ LeaseMinutes \in Nat /\ OldestBatch \in Nat /\ LeaseMinutes <= OldestBatch
    BY <1>0, <1>2, OutboxBounds
  <2> DEFINE age == batch[w].age
  <2>2. batch'[w].holds # "NOTHING" /\ batch'[w].age = IF age + 1 < OldestBatch THEN age + 1 ELSE OldestBatch
    BY <1>3, <1>8
  <2>3. wait + age >= LeaseMinutes /\ age \in Nat /\ wait' + 1 >= wait
    BY <1>2, <1>8, <2>1
  <2>4. /\ wait' \in Nat /\ wait \in Nat /\ LeaseMinutes \in Nat /\ OldestBatch \in Nat /\ LeaseMinutes <= OldestBatch
    BY <2>1
  <2> HIDE DEF age
  <2>5. CASE age + 1 < OldestBatch
    <3>1. batch'[w].age = age + 1
      BY <2>2, <2>5
    <3>2. wait' + (age + 1) >= LeaseMinutes
      <4>1. ASSUME NEW a \in Nat, NEW b \in Nat, NEW c \in Nat, NEW d \in Nat, a + b >= c, d + 1 >= a
            PROVE  d + (b + 1) >= c
        BY <4>1
      <4> QED BY <2>3, <2>4, <4>1
    <3>3. batch'[w].holds # "NOTHING"
      BY <2>2
    <3> QED BY <3>1, <3>2, <3>3
  <2>6. CASE ~(age + 1 < OldestBatch)
    <3>1. batch'[w].age = OldestBatch /\ batch'[w].holds # "NOTHING"
      BY <2>2, <2>6
    <3>2. ASSUME NEW a \in Nat, NEW b \in Nat, NEW c \in Nat, c <= b PROVE a + b >= c
      BY <3>2
    <3>3. wait' + OldestBatch >= LeaseMinutes
      BY <2>4, <3>2
    <3> QED BY <3>1, <3>3
  <2> QED BY <2>5, <2>6
<1>9. CountInv'
  BY <1>0, <1>1, <1>7, <1>8 DEF CountInv, Spare
<1> QED BY <1>5, <1>6, <1>9 DEF MailInv

LEMMA MailStep == MailInv /\ [MailNext]_mailVars => MailInv'
<1> SUFFICES ASSUME MailInv, [MailNext]_mailVars PROVE MailInv'
  OBVIOUS
<1>0. OutboxTypeOK /\ mishaps \in 0..MaxMishaps /\ MaxMishaps \in Nat
  BY OutboxBounds DEF MailInv, OutboxTypeOK
<1>1. ASSUME NEW w \in Worker, SendFails(w) PROVE MailInv'
  <2>1. /\ RecordFailure(w) /\ batch[w].holds = "MAIL" /\ batch' = [batch EXCEPT ![w] = NoBatch]
        /\ UNCHANGED <<delivered, excused, mishaps>>
    BY <1>1 DEF SendFails
  <2>2. /\ attempts' \in Nat /\ status' \in {"PENDING", "FAILED"} /\ wait' \in 0..OldestBatch
        /\ status' = "PENDING" => attempts' < MaxAttempts
    BY <2>1, FailureIsRecorded
  <2>3. mishaps' \in 0..MaxMishaps /\ status' \in {"PENDING", "SENT", "FAILED"} /\ status' # "SENT"
    BY <1>0, <2>1, <2>2
  <2> QED BY <2>1, <2>2, <2>3, GivenUpKeeps
<1>2. ASSUME NEW w \in Worker, AnswerLost(w) PROVE MailInv'
  <2>1. /\ RecordFailure(w) /\ batch[w].holds = "SENT_MAIL" /\ batch' = [batch EXCEPT ![w] = NoBatch]
        /\ excused' = excused + 1 /\ UNCHANGED delivered
    BY <1>2 DEF AnswerLost
  <2>2. /\ attempts' \in Nat /\ status' \in {"PENDING", "FAILED"} /\ wait' \in 0..OldestBatch
        /\ status' = "PENDING" => attempts' < MaxAttempts
    BY <2>1, FailureIsRecorded
  <2>3. mishaps' \in 0..MaxMishaps /\ status' \in {"PENDING", "SENT", "FAILED"} /\ status' # "SENT"
    BY <1>0, <1>2, <2>2 DEF AnswerLost
  <2> QED BY <2>1, <2>2, <2>3, GivenUpKeeps
<1>3. ASSUME NEW w \in Worker, CrashSending(w) PROVE MailInv'
  <2>1. UNCHANGED <<status, attempts, wait, delivered>> /\ batch' = [batch EXCEPT ![w] = NoBatch] /\ mishaps' \in 0..MaxMishaps
    BY <1>0, <1>3 DEF CrashSending, row
  <2>2. /\ attempts \in Nat /\ wait \in 0..OldestBatch /\ status \in {"PENDING", "SENT", "FAILED"}
        /\ status = "PENDING" => attempts < MaxAttempts
    BY DEF MailInv, OutboxTypeOK, BatchInv
  <2>3. batch[w].holds \in {"MAIL", "SENT_MAIL"}
    <3>1. batch[w].holds \in {"NOTHING", "MAIL", "SENT_MAIL"}
      BY <1>0, OutboxBounds DEF MailBatch
    <3> QED BY <1>3, <3>1 DEF MailInv, BatchInv, CrashSending
  <2>4. excused' = IF batch[w].holds = "SENT_MAIL" THEN excused + 1 ELSE excused
    BY <1>3 DEF CrashSending
  <2>5. \/ batch[w].holds = "MAIL" /\ excused' = excused
        \/ batch[w].holds = "SENT_MAIL" /\ excused' = excused + 1
    BY <2>3, <2>4
  <2> QED BY <2>1, <2>2, <2>5, GivenUpKeeps
<1>4. CASE RetryFailedMail
  <2>1. /\ status = "FAILED" /\ status' = "PENDING" /\ attempts' = 0 /\ wait' = 0 /\ UNCHANGED <<batch, delivered, excused>>
        /\ mishaps' \in 0..MaxMishaps
    BY <1>0, <1>4 DEF RetryFailedMail
  <2>2. Unsent' = Unsent
    BY <2>1 DEF Unsent
  <2>3. 0 \in 0..OldestBatch /\ MaxAttempts > 0
    BY <1>0, OutboxBounds
  <2>4. OutboxTypeOK'
    BY <1>0, <2>1, <2>3 DEF OutboxTypeOK, OldestBatch
  <2> QED BY <2>1, <2>2, <2>3, <2>4 DEF MailInv, BatchInv, SentInv, CountInv, Spare
<1>5. CASE UNCHANGED mailVars
  BY <1>5 DEF mailVars, row, MailInv, OutboxTypeOK, OldestBatch, BatchInv, SentInv, CountInv, Spare, Unsent
<1> QED BY <1>1, <1>2, <1>3, <1>4, <1>5, LeaseKeeps, HandOverKeeps, RecordSentKeeps, MinuteKeeps DEF MailNext, Send

LEMMA MailInvariance == MailSpec => []MailInv
<1>1. MailSpec => MailInit /\ [][MailNext]_mailVars
  BY DEF MailSpec
<1> QED BY <1>1, MailStarts, MailStep, PTL

\* For any number of workers, leases, attempts and delays: every delivery but the first is excused by
\* a crash or lost answer after sending or by a batch that outlasted its lease, and a mail is marked
\* SENT only after a delivery (sendPendingMail).
THEOREM MailGoesOutOnce == MailSpec => []AtMostOnce
<1>1. MailInv => AtMostOnce
  <2> SUFFICES ASSUME MailInv PROVE AtMostOnce
    OBVIOUS
  <2>1. OutboxTypeOK /\ IsFiniteSet(Unsent) /\ delivered + Cardinality(Unsent) <= 1 + excused
    BY DEF MailInv, CountInv
  <2>2. Cardinality(Unsent) \in Nat
    BY <2>1, FS_CardinalityType
  <2>3. delivered <= 1 + excused
    BY <2>1, <2>2, OutboxBounds
  <2> QED BY <2>1, <2>3 DEF AtMostOnce, MailInv, SentInv
<1> QED BY <1>1, MailInvariance, PTL

-----------------------------------------------------------------------------
(* Sign-ins *)

Busy == {p \in Proc : req[p] # Idle}

TokenRecord == [family : Id, state : {"LIVE", "ROTATED", "REVOKED"}]

\* There is room for what the requests under way may still insert.
RoomInv ==
  /\ IsFiniteSet(Busy)
  /\ Len(session) + Cardinality(Busy) <= requests + 2 /\ Len(token) + Cardinality(Busy) <= requests + 2

OpenInv == \A s, t \in OpenSessions : s = t

IsLive(t) == token[t].state = "LIVE"

FamilyInv ==
  /\ \A t \in DOMAIN token : token[t].family \in DOMAIN session
  /\ \A t, u \in DOMAIN token : IsLive(t) /\ IsLive(u) /\ token[t].family = token[u].family => t = u

\* What a request has found and read is under the locks it holds. A sign-in holds the user's row while
\* it ends the earlier sessions, so the open ones are those it still has to look at or will end.
ReadInv(r) ==
  /\ r.kind \in {"REFRESH", "LOGOUT", "END_ONE"} => r.token \in DOMAIN token
  /\ r.step \in {"TOKEN", "SESSION", "FAMILY", "ROTATE"} => r.kind = "REFRESH"
  /\ r.step = "USER" => r.kind \in {"LOGIN", "CLOSE", "FORCE"}

HeldInv(p) ==
  /\ \A s \in req[p].ending : holder[SessionRow(s)] = p
  /\ \A t \in req[p].revoking : holder[TokenRow(t)] = p
  /\ req[p].kind = "LOGOUT" /\ req[p].step \in {"END", "SESSIONS"} => req[p].revoking = {}
  /\ req[p].step \in {"SESSION", "ROTATE"} => holder[TokenRow(req[p].token)] = p /\ IsLive(req[p].token)
  /\ req[p].step = "ROTATE" => holder[SessionRow(FamilyOf(p))] = p /\ session[FamilyOf(p)] = "OPEN"

LoginInv(p) ==
  req[p].kind = "LOGIN" =>
    /\ req[p].step \in {"END", "SESSIONS", "FIND", "TOKENS", "COMMIT"} => holder[UserRow] = p
    /\ req[p].step = "SESSIONS" => OpenSessions \subseteq req[p].targets \cup req[p].ending
    /\ req[p].step \in {"FIND", "TOKENS", "COMMIT"} => OpenSessions \subseteq req[p].ending

SessionsInv ==
  /\ SessionsTypeOK /\ RoomInv /\ OpenInv /\ FamilyInv
  /\ \A p \in Proc : ReadInv(req[p]) /\ HeldInv(p) /\ LoginInv(p)

LEMMA SessionBounds ==
  ASSUME SessionsTypeOK
  PROVE  /\ MaxRequests \in Nat /\ requests \in Nat /\ requests <= MaxRequests
         /\ Len(session) \in Nat /\ Len(token) \in Nat
         /\ DOMAIN session = 1..Len(session) /\ DOMAIN token = 1..Len(token)
         /\ DOMAIN session \subseteq Id /\ DOMAIN token \subseteq Id /\ OpenSessions \subseteq DOMAIN session
         /\ \A t \in DOMAIN token : token[t] \in TokenRecord
         /\ \A s \in DOMAIN session : session[s] \in {"OPEN", "ENDED"}
         /\ \A p \in Proc : req[p] \in Request
<1>1. MaxRequests \in Nat /\ requests \in Nat /\ requests <= MaxRequests
  BY SessionsAssumption DEF SessionsTypeOK
<1>2. session \in Seq({"OPEN", "ENDED"}) /\ token \in Seq(TokenRecord) /\ Len(session) \in Id /\ Len(token) \in Id
  BY DEF SessionsTypeOK, TokenRecord
<1>3. /\ Len(session) \in Nat /\ Len(token) \in Nat
      /\ DOMAIN session = 1..Len(session) /\ DOMAIN token = 1..Len(token)
      /\ \A t \in DOMAIN token : token[t] \in TokenRecord
      /\ \A s \in DOMAIN session : session[s] \in {"OPEN", "ENDED"}
  <2> HIDE DEF TokenRecord
  <2> QED BY <1>2
<1>4. 1..Len(session) \subseteq Id /\ 1..Len(token) \subseteq Id
  BY <1>1, <1>2 DEF Id
<1> QED BY <1>1, <1>3, <1>4 DEF OpenSessions, SessionsTypeOK

\* The rows are different.
LEMMA RowsDiffer ==
  ASSUME NEW s \in Id, NEW t \in Id
  PROVE  /\ SessionRow(s) \in Row /\ TokenRow(t) \in Row /\ UserRow \in Row
         /\ SessionRow(s) # TokenRow(t) /\ SessionRow(s) # UserRow /\ TokenRow(t) # UserRow
BY DEF SessionRow, TokenRow, UserRow, Row

LEMMA BusyChanges ==
  ASSUME req \in [Proc -> Request], IsFiniteSet(Busy), NEW p \in Proc, NEW r, req' = [req EXCEPT ![p] = r]
  PROVE  /\ IsFiniteSet(Busy') /\ Cardinality(Busy) \in Nat /\ Cardinality(Busy') \in Nat
         /\ req[p] # Idle /\ r # Idle => Cardinality(Busy') = Cardinality(Busy)
         /\ req[p] # Idle /\ r = Idle => Cardinality(Busy') = Cardinality(Busy) - 1
         /\ req[p] = Idle /\ r # Idle => Cardinality(Busy') = Cardinality(Busy) + 1
<1>1. req'[p] = r /\ \A q \in Proc \ {p} : req'[q] = req[q]
  OBVIOUS
<1>2. Cardinality(Busy) \in Nat
  BY FS_CardinalityType
<1>3. CASE req[p] # Idle /\ r # Idle
  <2>1. Busy' = Busy
    BY <1>1, <1>3 DEF Busy
  <2> QED BY <1>2, <1>3, <2>1
<1>4. CASE req[p] # Idle /\ r = Idle
  <2>1. Busy' = Busy \ {p} /\ p \in Busy
    BY <1>1, <1>4 DEF Busy, Idle
  <2>2. IsFiniteSet(Busy \ {p}) /\ Cardinality(Busy \ {p}) = Cardinality(Busy) - 1
    BY <2>1, FS_RemoveElement
  <2>3. Cardinality(Busy \ {p}) \in Nat
    BY <2>2, FS_CardinalityType
  <2> QED BY <1>2, <1>4, <2>1, <2>2, <2>3
<1>5. CASE req[p] = Idle /\ r # Idle
  <2>1. Busy' = Busy \cup {p} /\ p \notin Busy
    BY <1>1, <1>5 DEF Busy, Idle
  <2>2. IsFiniteSet(Busy \cup {p}) /\ Cardinality(Busy \cup {p}) = Cardinality(Busy) + 1
    BY <2>1, FS_AddElement
  <2> QED BY <1>2, <1>5, <2>1, <2>2
<1>6. CASE req[p] = Idle /\ r = Idle
  <2>1. Busy' = Busy
    BY <1>1, <1>6 DEF Busy, Idle
  <2> QED BY <1>2, <1>6, <2>1
<1> QED BY <1>3, <1>4, <1>5, <1>6

-----------------------------------------------------------------------------
(* Sign-ins: what a step of one request leaves the others *)

OthersHold(p) == \A x \in Row, q \in Proc \ {p} : holder[x] = q => holder'[x] = q

KeepsItsLocks(p) == \A x \in Row : holder[x] = p => holder'[x] = p

LEMMA LockIsTaken ==
  ASSUME SessionsTypeOK, NEW p \in Proc, NEW x \in Row, Free(p, x), Lock(p, x)
  PROVE  holder' \in [Row -> Proc \cup {Nobody}] /\ OthersHold(p) /\ KeepsItsLocks(p) /\ holder'[x] = p
BY SessionsAssumption DEF SessionsTypeOK, Free, Lock, OthersHold, KeepsItsLocks

LEMMA LocksAreReleased ==
  ASSUME SessionsTypeOK, NEW p \in Proc, holder' = [r \in Row |-> IF holder[r] = p THEN Nobody ELSE holder[r]]
  PROVE  holder' \in [Row -> Proc \cup {Nobody}] /\ OthersHold(p)
BY DEF SessionsTypeOK, OthersHold

LEMMA LocksAreKept ==
  ASSUME SessionsTypeOK, NEW p \in Proc, UNCHANGED holder
  PROVE  holder' \in [Row -> Proc \cup {Nobody}] /\ OthersHold(p) /\ KeepsItsLocks(p)
BY DEF SessionsTypeOK, OthersHold, KeepsItsLocks

\* Sessions and tokens change under the locks of the request that changes them, and a session is opened
\* under the lock of the user's row: what the others have found and read stays true.
LEMMA OthersKeepTheirs ==
  ASSUME SessionsInv, NEW p \in Proc, NEW r, req' = [req EXCEPT ![p] = r], OthersHold(p),
         DOMAIN session \subseteq DOMAIN session', DOMAIN token \subseteq DOMAIN token',
         \A s \in DOMAIN session : session'[s] = session[s] \/ holder[SessionRow(s)] = p,
         \A t \in DOMAIN token : /\ token'[t].family = token[t].family
                                 /\ token'[t].state = token[t].state \/ holder[TokenRow(t)] = p,
         OpenSessions' \subseteq OpenSessions \/ holder[UserRow] = p,
         NEW q \in Proc \ {p}
  PROVE  ReadInv(req[q])' /\ HeldInv(q)' /\ LoginInv(q)'
<1>0. /\ SessionsTypeOK /\ FamilyInv /\ ReadInv(req[q]) /\ HeldInv(q) /\ LoginInv(q) /\ req[q] \in Request
  BY SessionBounds DEF SessionsInv
<1>1. req'[q] = req[q]
  BY <1>0 DEF SessionsTypeOK
<1>2. \A x \in Row : holder[x] = q => holder'[x] = q
  BY DEF OthersHold
<1>3. ReadInv(req[q])'
  BY <1>0, <1>1 DEF ReadInv
<1>4. HeldInv(q)'
  <2> DEFINE tok == req[q].token
             fam == token[tok].family
  <2>1. req[q].ending \subseteq Id /\ req[q].revoking \subseteq Id
    BY <1>0 DEF Request
  <2>2. \A s \in req[q].ending : holder'[SessionRow(s)] = q
    BY <1>0, <1>2, <2>1, RowsDiffer DEF HeldInv
  <2>3. \A t \in req[q].revoking : holder'[TokenRow(t)] = q
    BY <1>0, <1>2, <2>1, RowsDiffer DEF HeldInv
  <2>4. ASSUME req[q].step \in {"SESSION", "ROTATE"}
        PROVE  /\ tok \in DOMAIN token /\ token'[tok].family = fam
               /\ holder'[TokenRow(tok)] = q /\ token'[tok].state = "LIVE"
    <3>1. tok \in DOMAIN token /\ tok \in Id
      BY <1>0, <2>4, SessionBounds DEF ReadInv
    <3>2. holder[TokenRow(tok)] = q /\ token[tok].state = "LIVE"
      BY <1>0, <2>4 DEF HeldInv, IsLive
    <3>3. TokenRow(tok) \in Row
      BY <3>1, RowsDiffer
    <3>4. token'[tok].state = token[tok].state /\ token'[tok].family = fam
      BY <3>1, <3>2
    <3>5. holder'[TokenRow(tok)] = q
      BY <1>2, <3>2, <3>3
    <3> HIDE DEF tok, fam
    <3> QED BY <3>1, <3>2, <3>4, <3>5
  <2>5. ASSUME req[q].step = "ROTATE"
        PROVE  holder'[SessionRow(fam)] = q /\ session'[fam] = "OPEN"
    <3>1. holder[SessionRow(fam)] = q /\ session[fam] = "OPEN"
      BY <1>0, <2>5 DEF HeldInv, FamilyOf
    <3>2. fam \in DOMAIN session /\ fam \in Id
      BY <1>0, <2>4, <2>5, SessionBounds DEF FamilyInv
    <3>3. SessionRow(fam) \in Row
      BY <3>2, RowsDiffer
    <3> HIDE DEF fam
    <3> QED BY <1>2, <3>1, <3>2, <3>3
  <2>6. req[q].kind = "LOGOUT" /\ req[q].step \in {"END", "SESSIONS"} => req[q].revoking = {}
    BY <1>0 DEF HeldInv
  <2>7. req[q].step = "ROTATE" => FamilyOf(q)' = fam
    BY <1>1, <2>4 DEF FamilyOf
  <2>8. req[q].step \in {"SESSION", "ROTATE"} => IsLive(req[q].token)'
    BY <1>1, <2>4 DEF IsLive
  <2>9. req[q].step = "ROTATE" => holder'[SessionRow(FamilyOf(q)')] = q /\ session'[FamilyOf(q)'] = "OPEN"
    BY <2>5, <2>7
  <2> HIDE DEF fam
  <2> QED BY <1>1, <2>2, <2>3, <2>4, <2>6, <2>8, <2>9 DEF HeldInv
<1>5. LoginInv(q)'
  <2>1. holder[UserRow] = q => holder'[UserRow] = q /\ OpenSessions' \subseteq OpenSessions
    BY <1>2 DEF Row
  <2> QED BY <1>0, <1>1, <2>1 DEF LoginInv
<1> QED BY <1>3, <1>4, <1>5

\* A step that changes no session and no token.
LEMMA RequestStep ==
  ASSUME SessionsInv, NEW p \in Proc, req[p] # Idle, NEW r \in Request, req' = [req EXCEPT ![p] = r],
         holder' \in [Row -> Proc \cup {Nobody}], OthersHold(p), UNCHANGED <<session, token, requests>>,
         ReadInv(r), HeldInv(p)', LoginInv(p)'
  PROVE  SessionsInv'
<1>0. /\ SessionsTypeOK /\ RoomInv /\ OpenInv /\ FamilyInv /\ req \in [Proc -> Request]
  BY DEF SessionsInv, SessionsTypeOK
<1>1. req' \in [Proc -> Request] /\ req'[p] = r
  BY <1>0
<1>2. OpenSessions' = OpenSessions
  BY DEF OpenSessions
<1>3. SessionsTypeOK'
  BY <1>0, <1>1 DEF SessionsTypeOK
<1>4. RoomInv'
  <2>1. /\ IsFiniteSet(Busy') /\ Cardinality(Busy) \in Nat /\ Cardinality(Busy') \in Nat
        /\ r # Idle => Cardinality(Busy') = Cardinality(Busy)
        /\ r = Idle => Cardinality(Busy') = Cardinality(Busy) - 1
    BY <1>0, BusyChanges DEF RoomInv
  <2>2. Cardinality(Busy') <= Cardinality(Busy)
    BY <2>1
  <2>3. Len(session) \in Nat /\ Len(token) \in Nat /\ requests \in Nat
    BY <1>0, SessionBounds
  <2>4. Len(session) + Cardinality(Busy) <= requests + 2 /\ Len(token) + Cardinality(Busy) <= requests + 2
    BY <1>0 DEF RoomInv
  <2> QED BY <2>1, <2>2, <2>3, <2>4 DEF RoomInv
<1>5. OpenInv' /\ FamilyInv'
  BY <1>0, <1>2 DEF OpenInv, FamilyInv, IsLive
<1>6. ASSUME NEW q \in Proc PROVE ReadInv(req[q])' /\ HeldInv(q)' /\ LoginInv(q)'
  <2>1. CASE q = p
    BY <1>1, <2>1 DEF ReadInv
  <2>2. CASE q # p
    BY <1>2, <2>2, OthersKeepTheirs
  <2> QED BY <2>1, <2>2
<1> QED BY <1>3, <1>4, <1>5, <1>6 DEF SessionsInv

LEMMA AboutTheRequest ==
  ASSUME SessionsInv, NEW p \in Proc
  PROVE  /\ SessionsTypeOK /\ RoomInv /\ OpenInv /\ FamilyInv
         /\ req \in [Proc -> Request] /\ req[p] \in Request
         /\ ReadInv(req[p]) /\ HeldInv(p) /\ LoginInv(p)
BY DEF SessionsInv, SessionsTypeOK

LEMMA RequestEnds ==
  ASSUME SessionsInv, NEW p \in Proc, req[p] # Idle, Done(p), UNCHANGED <<session, token, requests>>
  PROVE  SessionsInv'
<1>1. Idle \in Request /\ ReadInv(Idle)
  BY DEF Idle, Request, ReadInv
<1>2. req' = [req EXCEPT ![p] = Idle] /\ req'[p] = Idle
  BY AboutTheRequest DEF Done
<1>3. holder' \in [Row -> Proc \cup {Nobody}] /\ OthersHold(p)
  BY AboutTheRequest, LocksAreReleased DEF Done
<1>4. HeldInv(p)' /\ LoginInv(p)'
  BY <1>2 DEF HeldInv, LoginInv, Idle
<1> QED BY <1>1, <1>2, <1>3, <1>4, RequestStep

-----------------------------------------------------------------------------
(* Sign-ins: the steps of a request *)

LEMMA UserWritten ==
  ASSUME SessionsInv, NEW p \in Proc, WriteUser(p)
  PROVE  SessionsInv'
<1> DEFINE step == IF req[p].kind = "FORCE" THEN "COMMIT" ELSE "END"
           r == [req[p] EXCEPT !.step = step]
<1>0. /\ SessionsTypeOK /\ req \in [Proc -> Request] /\ req[p] \in Request
      /\ ReadInv(req[p]) /\ HeldInv(p) /\ LoginInv(p)
  BY AboutTheRequest
<1>1. req' = [req EXCEPT ![p] = r] /\ req'[p] = r /\ req[p] # Idle
  BY <1>0 DEF WriteUser, GoTo, Idle
<1>2. /\ r \in Request /\ r.kind = req[p].kind /\ r.token = req[p].token /\ r.step \in {"COMMIT", "END"}
      /\ r.ending = req[p].ending /\ r.revoking = req[p].revoking /\ r.targets = req[p].targets
      /\ r.step = "COMMIT" => r.kind = "FORCE"
      /\ r.kind \in {"LOGIN", "CLOSE", "FORCE"}
  BY <1>0 DEF Request, WriteUser, ReadInv
<1> HIDE DEF r
<1>3. /\ holder' \in [Row -> Proc \cup {Nobody}] /\ OthersHold(p) /\ KeepsItsLocks(p) /\ holder'[UserRow] = p
      /\ UNCHANGED <<session, token, requests>>
  BY <1>0, LockIsTaken DEF WriteUser, Row
<1>4. HeldInv(p)'
  <2>1. r.ending \subseteq Id /\ r.revoking \subseteq Id
    BY <1>2 DEF Request
  <2> QED BY <1>0, <1>1, <1>2, <1>3, <2>1, RowsDiffer DEF HeldInv, KeepsItsLocks
<1>5. LoginInv(p)' /\ ReadInv(r)
  BY <1>0, <1>1, <1>2, <1>3 DEF LoginInv, ReadInv
<1> QED BY <1>1, <1>2, <1>3, <1>4, <1>5, RequestStep

LEMMA SessionsFound ==
  ASSUME SessionsInv, NEW p \in Proc, FindSessions(p)
  PROVE  SessionsInv'
<1> DEFINE found == IF OfOneSession(p) THEN OpenSessions \cap {FamilyOf(p)} ELSE OpenSessions
           r == [req[p] EXCEPT !.step = "SESSIONS", !.targets = found]
<1>0. /\ SessionsTypeOK /\ req \in [Proc -> Request] /\ req[p] \in Request
      /\ ReadInv(req[p]) /\ HeldInv(p) /\ LoginInv(p)
  BY AboutTheRequest
<1>1. req' = [req EXCEPT ![p] = r] /\ req'[p] = r /\ req[p] # Idle
  <2>1. req' = [req EXCEPT ![p].step = "SESSIONS", ![p].targets = found]
    BY DEF FindSessions
  <2>2. req[p] # Idle
    BY DEF FindSessions, Idle
  <2> HIDE DEF found
  <2> QED BY <1>0, <2>1, <2>2
<1>2. found \subseteq Id /\ (req[p].kind = "LOGIN" => found = OpenSessions)
  BY <1>0, SessionBounds DEF OfOneSession
<1>3. /\ r \in Request /\ r.kind = req[p].kind /\ r.token = req[p].token /\ r.step = "SESSIONS"
      /\ r.ending = req[p].ending /\ r.revoking = req[p].revoking /\ r.targets = found
  <2> HIDE DEF found
  <2> QED BY <1>0, <1>2 DEF Request
<1> HIDE DEF r, found
<1>4. /\ holder' \in [Row -> Proc \cup {Nobody}] /\ OthersHold(p) /\ KeepsItsLocks(p)
      /\ UNCHANGED <<session, token, requests>> /\ OpenSessions' = OpenSessions /\ req[p].step = "END"
      /\ UNCHANGED holder
  BY <1>0, LocksAreKept DEF FindSessions, OpenSessions
<1>5. HeldInv(p)'
  BY <1>0, <1>1, <1>3, <1>4 DEF HeldInv
<1>6. LoginInv(p)' /\ ReadInv(r)
  BY <1>0, <1>1, <1>2, <1>3, <1>4 DEF LoginInv, ReadInv
<1> QED BY <1>1, <1>3, <1>4, <1>5, <1>6, RequestStep

LEMMA SessionEnded ==
  ASSUME SessionsInv, NEW p \in Proc, NEW s \in DOMAIN session, EndSession(p, s)
  PROVE  SessionsInv'
<1> DEFINE ending == IF session[s] = "OPEN" THEN req[p].ending \cup {s} ELSE req[p].ending
           r == [req[p] EXCEPT !.targets = req[p].targets \ {s}, !.ending = ending]
<1>0. /\ SessionsTypeOK /\ req \in [Proc -> Request] /\ req[p] \in Request
      /\ ReadInv(req[p]) /\ HeldInv(p) /\ LoginInv(p)
  BY AboutTheRequest
<1>1. req' = [req EXCEPT ![p] = r] /\ req'[p] = r /\ req[p] # Idle
  <2>1. req' = [req EXCEPT ![p].targets = req[p].targets \ {s}, ![p].ending = ending]
    BY DEF EndSession
  <2>2. req[p] # Idle
    BY DEF EndSession, Idle
  <2> HIDE DEF ending
  <2> QED BY <1>0, <2>1, <2>2
<1>2. s \in Id /\ SessionRow(s) \in Row /\ req[p].targets \subseteq Id /\ req[p].ending \subseteq Id
  BY <1>0, SessionBounds, RowsDiffer DEF Request
<1>3. /\ r \in Request /\ r.kind = req[p].kind /\ r.token = req[p].token /\ r.step = "SESSIONS"
      /\ r.ending = ending /\ r.revoking = req[p].revoking /\ r.targets = req[p].targets \ {s}
      /\ ending \subseteq req[p].ending \cup {s} /\ ending \subseteq Id /\ r.revoking \subseteq Id
      /\ OpenSessions \cap (req[p].targets \cup req[p].ending) \subseteq r.targets \cup r.ending
  <2>1. req[p].ending \subseteq ending /\ ending \subseteq req[p].ending \cup {s} /\ (session[s] = "OPEN" => s \in ending)
    OBVIOUS
  <2> HIDE DEF ending
  <2> QED BY <1>0, <1>2, <2>1 DEF Request, EndSession, OpenSessions
<1> HIDE DEF r, ending
<1>4. /\ holder' \in [Row -> Proc \cup {Nobody}] /\ OthersHold(p) /\ KeepsItsLocks(p) /\ holder'[SessionRow(s)] = p
      /\ UNCHANGED <<session, token, requests>> /\ OpenSessions' = OpenSessions /\ req[p].step = "SESSIONS"
  BY <1>0, <1>2, LockIsTaken DEF EndSession, OpenSessions
<1>5. HeldInv(p)'
  <2>1. \A x \in r.ending : holder'[SessionRow(x)] = p
    BY <1>0, <1>2, <1>3, <1>4, RowsDiffer DEF HeldInv, KeepsItsLocks
  <2>2. \A t \in r.revoking : holder'[TokenRow(t)] = p
    BY <1>0, <1>2, <1>3, <1>4, RowsDiffer DEF HeldInv, KeepsItsLocks
  <2> QED BY <1>0, <1>1, <1>3, <1>4, <2>1, <2>2 DEF HeldInv
<1>6. LoginInv(p)' /\ ReadInv(r)
  <2>1. holder[UserRow] = p => holder'[UserRow] = p
    BY <1>4 DEF KeepsItsLocks, Row
  <2> QED BY <1>0, <1>1, <1>3, <1>4, <2>1 DEF LoginInv, ReadInv
<1> QED BY <1>1, <1>3, <1>4, <1>5, <1>6, RequestStep

LEMMA SessionsDone ==
  ASSUME SessionsInv, NEW p \in Proc, SessionsEnded(p), req[p].kind # "LOGOUT"
  PROVE  SessionsInv'
<1> DEFINE r == [req[p] EXCEPT !.step = "FIND"]
<1>0. /\ SessionsTypeOK /\ req \in [Proc -> Request] /\ req[p] \in Request
      /\ ReadInv(req[p]) /\ HeldInv(p) /\ LoginInv(p)
  BY AboutTheRequest
<1>1. req' = [req EXCEPT ![p] = r] /\ req'[p] = r /\ req[p] # Idle
  BY <1>0 DEF SessionsEnded, GoTo, Idle
<1>2. /\ r \in Request /\ r.kind = req[p].kind /\ r.token = req[p].token /\ r.step = "FIND"
      /\ r.ending = req[p].ending /\ r.revoking = req[p].revoking
  BY <1>0 DEF Request
<1> HIDE DEF r
<1>3. /\ holder' \in [Row -> Proc \cup {Nobody}] /\ OthersHold(p) /\ UNCHANGED holder
      /\ UNCHANGED <<session, token, requests>> /\ OpenSessions' = OpenSessions
      /\ req[p].step = "SESSIONS" /\ req[p].targets = {}
  BY <1>0, LocksAreKept DEF SessionsEnded, OpenSessions
<1>4. HeldInv(p)'
  BY <1>0, <1>1, <1>2, <1>3 DEF HeldInv
<1>5. LoginInv(p)' /\ ReadInv(r)
  BY <1>0, <1>1, <1>2, <1>3 DEF LoginInv, ReadInv
<1> QED BY <1>1, <1>2, <1>3, <1>4, <1>5, RequestStep

LEMMA TokensFound ==
  ASSUME SessionsInv, NEW p \in Proc, FindTokens(p)
  PROVE  SessionsInv'
<1> DEFINE found == TokensToRevoke(p)
           r == [req[p] EXCEPT !.step = "TOKENS", !.targets = found]
<1>0. /\ SessionsTypeOK /\ req \in [Proc -> Request] /\ req[p] \in Request
      /\ ReadInv(req[p]) /\ HeldInv(p) /\ LoginInv(p)
  BY AboutTheRequest
<1>1. req' = [req EXCEPT ![p] = r] /\ req'[p] = r /\ req[p] # Idle
  <2>1. req' = [req EXCEPT ![p].step = "TOKENS", ![p].targets = found]
    BY DEF FindTokens
  <2>2. req[p] # Idle
    BY DEF FindTokens, Idle
  <2> HIDE DEF found
  <2> QED BY <1>0, <2>1, <2>2
<1>2. found \subseteq Id
  BY <1>0, SessionBounds DEF LiveTokens, TokensToRevoke
<1>3. /\ r \in Request /\ r.kind = req[p].kind /\ r.token = req[p].token /\ r.step = "TOKENS"
      /\ r.ending = req[p].ending /\ r.revoking = req[p].revoking
  <2> HIDE DEF found
  <2> QED BY <1>0, <1>2 DEF Request
<1> HIDE DEF r, found
<1>4. /\ holder' \in [Row -> Proc \cup {Nobody}] /\ OthersHold(p) /\ UNCHANGED holder
      /\ UNCHANGED <<session, token, requests>> /\ OpenSessions' = OpenSessions /\ req[p].step = "FIND"
  BY <1>0, LocksAreKept DEF FindTokens, OpenSessions
<1>5. HeldInv(p)'
  BY <1>0, <1>1, <1>3, <1>4 DEF HeldInv
<1>6. LoginInv(p)' /\ ReadInv(r)
  BY <1>0, <1>1, <1>3, <1>4 DEF LoginInv, ReadInv
<1> QED BY <1>1, <1>3, <1>4, <1>5, <1>6, RequestStep

LEMMA TokenRevoked ==
  ASSUME SessionsInv, NEW p \in Proc, NEW t \in DOMAIN token, RevokeToken(p, t)
  PROVE  SessionsInv'
<1> DEFINE revoking == IF token[t].state = "LIVE" THEN req[p].revoking \cup {t} ELSE req[p].revoking
           r == [req[p] EXCEPT !.targets = req[p].targets \ {t}, !.revoking = revoking]
<1>0. /\ SessionsTypeOK /\ req \in [Proc -> Request] /\ req[p] \in Request
      /\ ReadInv(req[p]) /\ HeldInv(p) /\ LoginInv(p)
  BY AboutTheRequest
<1>1. req' = [req EXCEPT ![p] = r] /\ req'[p] = r /\ req[p] # Idle
  <2>1. req' = [req EXCEPT ![p].targets = req[p].targets \ {t}, ![p].revoking = revoking]
    BY DEF RevokeToken
  <2>2. req[p] # Idle
    BY DEF RevokeToken, Idle
  <2> HIDE DEF revoking
  <2> QED BY <1>0, <2>1, <2>2
<1>2. t \in Id /\ TokenRow(t) \in Row /\ req[p].ending \subseteq Id /\ req[p].revoking \subseteq Id
  BY <1>0, SessionBounds, RowsDiffer DEF Request
<1>3. /\ r \in Request /\ r.kind = req[p].kind /\ r.token = req[p].token /\ r.step = "TOKENS"
      /\ r.ending = req[p].ending /\ r.revoking = revoking
      /\ revoking \subseteq req[p].revoking \cup {t} /\ revoking \subseteq Id
  <2>1. revoking \subseteq req[p].revoking \cup {t}
    OBVIOUS
  <2> HIDE DEF revoking
  <2> QED BY <1>0, <1>2, <2>1 DEF Request, RevokeToken
<1> HIDE DEF r, revoking
<1>4. /\ holder' \in [Row -> Proc \cup {Nobody}] /\ OthersHold(p) /\ KeepsItsLocks(p) /\ holder'[TokenRow(t)] = p
      /\ UNCHANGED <<session, token, requests>> /\ OpenSessions' = OpenSessions /\ req[p].step = "TOKENS"
  BY <1>0, <1>2, LockIsTaken DEF RevokeToken, OpenSessions
<1>5. HeldInv(p)'
  <2>1. \A x \in r.ending : holder'[SessionRow(x)] = p
    BY <1>0, <1>2, <1>3, <1>4, RowsDiffer DEF HeldInv, KeepsItsLocks
  <2>2. \A x \in r.revoking : holder'[TokenRow(x)] = p
    BY <1>0, <1>2, <1>3, <1>4, RowsDiffer DEF HeldInv, KeepsItsLocks
  <2> QED BY <1>0, <1>1, <1>3, <1>4, <2>1, <2>2 DEF HeldInv
<1>6. LoginInv(p)' /\ ReadInv(r)
  <2>1. holder[UserRow] = p => holder'[UserRow] = p
    BY <1>4 DEF KeepsItsLocks, Row
  <2> QED BY <1>0, <1>1, <1>3, <1>4, <2>1 DEF LoginInv, ReadInv
<1> QED BY <1>1, <1>3, <1>4, <1>5, <1>6, RequestStep

LEMMA TokensDone ==
  ASSUME SessionsInv, NEW p \in Proc, TokensRevoked(p)
  PROVE  SessionsInv'
<1>0. /\ SessionsTypeOK /\ req \in [Proc -> Request] /\ req[p] \in Request
      /\ ReadInv(req[p]) /\ HeldInv(p) /\ LoginInv(p)
  BY AboutTheRequest
<1>1. PICK step : /\ step \in {"USER", "FAMILY", "COMMIT"} /\ GoTo(p, step)
                  /\ step = "USER" => req[p].kind = "FORCE"
                  /\ step = "FAMILY" => req[p].kind = "REFRESH"
  BY DEF TokensRevoked
<1> DEFINE r == [req[p] EXCEPT !.step = step]
<1>2. req' = [req EXCEPT ![p] = r] /\ req'[p] = r /\ req[p] # Idle
  <2>1. req[p].step = "TOKENS"
    BY DEF TokensRevoked
  <2> QED BY <1>0, <1>1, <2>1 DEF GoTo, Idle
<1>3. /\ r \in Request /\ r.kind = req[p].kind /\ r.token = req[p].token /\ r.step = step
      /\ r.ending = req[p].ending /\ r.revoking = req[p].revoking
  BY <1>0, <1>1 DEF Request
<1> HIDE DEF r
<1>4. /\ holder' \in [Row -> Proc \cup {Nobody}] /\ OthersHold(p) /\ UNCHANGED holder
      /\ UNCHANGED <<session, token, requests>> /\ OpenSessions' = OpenSessions /\ req[p].step = "TOKENS"
  BY <1>0, LocksAreKept DEF TokensRevoked, OpenSessions
<1>5. HeldInv(p)'
  BY <1>0, <1>1, <1>2, <1>3, <1>4 DEF HeldInv
<1>6. LoginInv(p)' /\ ReadInv(r)
  BY <1>0, <1>1, <1>2, <1>3, <1>4 DEF LoginInv, ReadInv
<1> QED BY <1>2, <1>3, <1>4, <1>5, <1>6, RequestStep

LEMMA FamilyEnded ==
  ASSUME SessionsInv, NEW p \in Proc, EndFamily(p)
  PROVE  SessionsInv'
<1> DEFINE family == FamilyOf(p)
           ending == {family} \cap OpenSessions
           r == [req[p] EXCEPT !.step = "COMMIT", !.ending = ending]
<1>0. /\ SessionsTypeOK /\ FamilyInv /\ req \in [Proc -> Request] /\ req[p] \in Request
      /\ ReadInv(req[p]) /\ HeldInv(p) /\ LoginInv(p)
  BY AboutTheRequest
<1>1. req' = [req EXCEPT ![p] = r] /\ req'[p] = r /\ req[p] # Idle
  <2>1. req' = [req EXCEPT ![p].step = "COMMIT", ![p].ending = ending]
    BY DEF EndFamily
  <2>2. req[p] # Idle
    BY DEF EndFamily, Idle
  <2> HIDE DEF ending
  <2> QED BY <1>0, <2>1, <2>2
<1>2. req[p].kind = "REFRESH" /\ req[p].token \in DOMAIN token
  BY <1>0 DEF EndFamily, ReadInv
<1>3. family \in DOMAIN session /\ family \in Id /\ SessionRow(family) \in Row
  BY <1>0, <1>2, SessionBounds, RowsDiffer DEF FamilyInv, FamilyOf
<1>4. /\ r \in Request /\ r.kind = "REFRESH" /\ r.token = req[p].token /\ r.step = "COMMIT"
      /\ r.ending \subseteq {family} /\ r.revoking = req[p].revoking
  <2>1. ending \subseteq Id /\ ending \subseteq {family}
    BY <1>3
  <2> HIDE DEF ending, family
  <2> QED BY <1>0, <1>2, <2>1 DEF Request
<1> HIDE DEF r, family
<1>5. Free(p, SessionRow(family)) /\ Lock(p, SessionRow(family)) /\ UNCHANGED <<session, token, requests>>
  BY DEF EndFamily, family
<1>6. /\ holder' \in [Row -> Proc \cup {Nobody}] /\ OthersHold(p) /\ KeepsItsLocks(p)
      /\ holder'[SessionRow(family)] = p
  BY <1>0, <1>3, <1>5, LockIsTaken
<1>7. HeldInv(p)'
  <2>1. \A t \in r.revoking : holder'[TokenRow(t)] = p
    <3>1. r.revoking \subseteq Id
      BY <1>4 DEF Request
    <3> QED BY <1>0, <1>3, <1>4, <1>6, <3>1, RowsDiffer DEF HeldInv, KeepsItsLocks
  <2> QED BY <1>1, <1>4, <1>6, <2>1 DEF HeldInv
<1>8. LoginInv(p)' /\ ReadInv(r)
  BY <1>1, <1>2, <1>4 DEF LoginInv, ReadInv
<1> QED BY <1>1, <1>4, <1>5, <1>6, <1>7, <1>8, RequestStep

LEMMA RequestBegins ==
  ASSUME SessionsInv, NEW p \in Proc, NEW kind \in {"LOGIN", "CLOSE", "FORCE", "END_ONE", "LOGOUT", "REFRESH"},
         NEW step \in {"USER", "END", "TOKEN"}, NEW t \in {0} \cup DOMAIN token, Begin(p, kind, step, t),
         kind \in {"END_ONE", "LOGOUT", "REFRESH"} => t \in DOMAIN token,
         step = "TOKEN" => kind = "REFRESH",
         step = "USER" => kind \in {"LOGIN", "CLOSE", "FORCE"},
         step = "END" => kind # "LOGIN"
  PROVE  SessionsInv'
<1> DEFINE r == [Idle EXCEPT !.kind = kind, !.step = step, !.token = t]
<1>0. /\ SessionsTypeOK /\ RoomInv /\ OpenInv /\ FamilyInv /\ req \in [Proc -> Request]
  BY AboutTheRequest
<1>1. /\ req' = [req EXCEPT ![p] = r] /\ req[p] = Idle
      /\ UNCHANGED <<session, token, holder>> /\ requests < MaxRequests /\ requests' = requests + 1
  BY DEF Begin
<1>2. /\ r \in Request /\ r # Idle /\ r.kind = kind /\ r.step = step /\ r.token = t
      /\ r.targets = {} /\ r.ending = {} /\ r.revoking = {}
  <2>1. t \in {0} \cup Id
    BY <1>0, SessionBounds
  <2> QED BY <2>1 DEF Request, Idle
<1> HIDE DEF r
<1>3. req' \in [Proc -> Request] /\ req'[p] = r
  BY <1>0, <1>1, <1>2
<1>4. SessionsTypeOK'
  <2>1. requests' \in 0..MaxRequests
    BY <1>0, <1>1, SessionBounds
  <2> QED BY <1>0, <1>1, <1>3, <2>1 DEF SessionsTypeOK
<1>5. RoomInv'
  <2>1. IsFiniteSet(Busy') /\ Cardinality(Busy) \in Nat /\ Cardinality(Busy') = Cardinality(Busy) + 1
    BY <1>0, <1>1, <1>2, BusyChanges DEF RoomInv
  <2>2. Len(session) \in Nat /\ Len(token) \in Nat /\ requests \in Nat
    BY <1>0, SessionBounds
  <2> QED BY <1>0, <1>1, <2>1, <2>2 DEF RoomInv
<1>6. OpenInv' /\ FamilyInv' /\ OpenSessions' = OpenSessions
  BY <1>0, <1>1 DEF OpenInv, FamilyInv, IsLive, OpenSessions
<1>7. OthersHold(p)
  BY <1>0, <1>1, LocksAreKept
<1>8. ASSUME NEW q \in Proc PROVE ReadInv(req[q])' /\ HeldInv(q)' /\ LoginInv(q)'
  <2>1. CASE q = p
    BY <1>1, <1>2, <1>3, <2>1 DEF ReadInv, HeldInv, LoginInv
  <2>2. CASE q # p
    BY <1>1, <1>6, <1>7, <2>2, OthersKeepTheirs
  <2> QED BY <2>1, <2>2
<1> QED BY <1>4, <1>5, <1>6, <1>8 DEF SessionsInv

LEMMA TokenRead ==
  ASSUME SessionsInv, NEW p \in Proc, ReadToken(p)
  PROVE  SessionsInv'
<1> DEFINE tok == req[p].token
<1>0. /\ SessionsTypeOK /\ FamilyInv /\ req \in [Proc -> Request] /\ req[p] \in Request
      /\ ReadInv(req[p]) /\ HeldInv(p) /\ LoginInv(p)
  BY AboutTheRequest
<1>1. req[p].step = "TOKEN" /\ Free(p, TokenRow(tok)) /\ UNCHANGED <<session, token, requests>>
  BY DEF ReadToken
<1>2. req[p] # Idle /\ req[p].kind = "REFRESH" /\ tok \in DOMAIN token
  BY <1>0, <1>1 DEF ReadInv, Idle
<1>3. tok \in Id /\ TokenRow(tok) \in Row
  BY <1>0, <1>2, SessionBounds, RowsDiffer
<1>4. CASE Done(p)
  BY <1>1, <1>2, <1>4, RequestEnds
<1>5. ASSUME Lock(p, TokenRow(tok)), NEW r \in Request, req' = [req EXCEPT ![p] = r],
             r.kind = "REFRESH", r.token = tok, r.ending = req[p].ending, r.revoking = req[p].revoking,
             r.step \in {"SESSION", "FAMILY", "TOKENS"}, r.step = "SESSION" => token[tok].state = "LIVE"
      PROVE  SessionsInv'
  <2>1. /\ holder' \in [Row -> Proc \cup {Nobody}] /\ OthersHold(p) /\ KeepsItsLocks(p)
        /\ holder'[TokenRow(tok)] = p
    BY <1>0, <1>1, <1>3, <1>5, LockIsTaken
  <2>2. req'[p] = r /\ r.ending \subseteq Id /\ r.revoking \subseteq Id
    BY <1>0, <1>5 DEF Request
  <2>3. HeldInv(p)'
    <3>1. \A s \in r.ending : holder'[SessionRow(s)] = p
      BY <1>0, <1>3, <1>5, <2>1, <2>2, RowsDiffer DEF HeldInv, KeepsItsLocks
    <3>2. \A t \in r.revoking : holder'[TokenRow(t)] = p
      BY <1>0, <1>3, <1>5, <2>1, <2>2, RowsDiffer DEF HeldInv, KeepsItsLocks
    <3>3. r.step = "SESSION" => holder'[TokenRow(r.token)] = p /\ token'[r.token].state = "LIVE"
      BY <1>1, <1>5, <2>1
    <3> QED BY <1>5, <2>2, <3>1, <3>2, <3>3 DEF HeldInv, IsLive
  <2>4. LoginInv(p)' /\ ReadInv(r)
    BY <1>2, <1>5, <2>2 DEF LoginInv, ReadInv
  <2> QED BY <1>1, <1>2, <1>5, <2>1, <2>3, <2>4, RequestStep
<1>6. ASSUME token[tok].state = "LIVE", Lock(p, TokenRow(tok)), NEW step \in {"SESSION", "FAMILY"}, GoTo(p, step)
      PROVE  SessionsInv'
  <2> DEFINE r == [req[p] EXCEPT !.step = step]
  <2>1. req' = [req EXCEPT ![p] = r]
    BY <1>0, <1>6 DEF GoTo
  <2>2. /\ r \in Request /\ r.kind = "REFRESH" /\ r.token = tok /\ r.step = step
        /\ r.ending = req[p].ending /\ r.revoking = req[p].revoking
    BY <1>0, <1>2 DEF Request
  <2> HIDE DEF r, tok
  <2> QED BY <1>5, <1>6, <2>1, <2>2
<1>7. ASSUME Lock(p, TokenRow(tok)),
             req' = [req EXCEPT ![p].step = "TOKENS", ![p].targets = LiveTokens({FamilyOf(p)})]
      PROVE  SessionsInv'
  <2> DEFINE found == LiveTokens({FamilyOf(p)})
             r == [req[p] EXCEPT !.step = "TOKENS", !.targets = found]
  <2>0. found \subseteq Id
    BY <1>0, SessionBounds DEF LiveTokens
  <2> HIDE DEF found
  <2>1. req' = [req EXCEPT ![p] = r]
    <3>1. req' = [req EXCEPT ![p].step = "TOKENS", ![p].targets = found]
      BY <1>7 DEF found
    <3> QED BY <1>0, <3>1
  <2>2. /\ r \in Request /\ r.kind = "REFRESH" /\ r.token = tok /\ r.step = "TOKENS"
        /\ r.ending = req[p].ending /\ r.revoking = req[p].revoking
    BY <1>0, <1>2, <2>0 DEF Request
  <2> HIDE DEF r, tok
  <2> QED BY <1>5, <1>7, <2>1, <2>2
<1> QED BY <1>4, <1>6, <1>7 DEF ReadToken

LEMMA SessionRefreshed ==
  ASSUME SessionsInv, NEW p \in Proc, RefreshSession(p)
  PROVE  SessionsInv'
<1> DEFINE tok == req[p].token
           family == FamilyOf(p)
<1>0. /\ SessionsTypeOK /\ FamilyInv /\ req \in [Proc -> Request] /\ req[p] \in Request
      /\ ReadInv(req[p]) /\ HeldInv(p) /\ LoginInv(p)
  BY AboutTheRequest
<1>1. req[p].step = "SESSION" /\ Free(p, SessionRow(family)) /\ UNCHANGED <<session, token, requests>>
  BY DEF RefreshSession
<1>2. req[p] # Idle /\ req[p].kind = "REFRESH" /\ tok \in DOMAIN token
  BY <1>0, <1>1 DEF ReadInv, Idle
<1>3. /\ tok \in Id /\ TokenRow(tok) \in Row /\ holder[TokenRow(tok)] = p /\ IsLive(tok)
      /\ family \in Id /\ SessionRow(family) \in Row
  BY <1>0, <1>1, <1>2, SessionBounds, RowsDiffer DEF HeldInv, FamilyInv, FamilyOf
<1>4. CASE Done(p)
  BY <1>1, <1>2, <1>4, RequestEnds
<1>5. ASSUME session[family] = "OPEN", Lock(p, SessionRow(family)),
             NEW r \in Request, req' = [req EXCEPT ![p] = r], r.kind = "REFRESH", r.token = tok,
             \/ r.step = "ROTATE" /\ r.ending = req[p].ending /\ r.revoking = req[p].revoking
             \/ r.step = "COMMIT" /\ r.ending = {family} /\ r.revoking = {tok}
      PROVE  SessionsInv'
  <2>1. /\ holder' \in [Row -> Proc \cup {Nobody}] /\ OthersHold(p) /\ KeepsItsLocks(p)
        /\ holder'[SessionRow(family)] = p /\ holder'[TokenRow(tok)] = p
    <3> HIDE DEF family, tok
    <3>1. /\ holder' \in [Row -> Proc \cup {Nobody}] /\ OthersHold(p) /\ KeepsItsLocks(p)
          /\ holder'[SessionRow(family)] = p
      BY <1>0, <1>1, <1>3, <1>5, LockIsTaken
    <3> QED BY <1>3, <3>1 DEF KeepsItsLocks
  <2>2. req'[p] = r /\ req[p].ending \subseteq Id /\ req[p].revoking \subseteq Id
    BY <1>0, <1>5 DEF Request
  <2>3. HeldInv(p)'
    <3>1. \A s \in req[p].ending : holder'[SessionRow(s)] = p
      BY <1>0, <2>1, <2>2, RowsDiffer DEF HeldInv, KeepsItsLocks
    <3>2. \A t \in req[p].revoking : holder'[TokenRow(t)] = p
      BY <1>0, <2>1, <2>2, RowsDiffer DEF HeldInv, KeepsItsLocks
    <3>3. FamilyOf(p)' = family
      BY <1>1, <1>5, <2>2 DEF FamilyOf
    <3>4. IsLive(r.token)'
      BY <1>1, <1>3, <1>5, <2>2 DEF IsLive
    <3> HIDE DEF family, tok
    <3>5. (\A s \in r.ending : holder'[SessionRow(s)] = p) /\ (\A t \in r.revoking : holder'[TokenRow(t)] = p)
      BY <1>5, <2>1, <3>1, <3>2
    <3> QED BY <1>1, <1>5, <2>1, <2>2, <3>3, <3>4, <3>5 DEF HeldInv
  <2>4. LoginInv(p)' /\ ReadInv(r)
    BY <1>2, <1>5, <2>2 DEF LoginInv, ReadInv
  <2> QED BY <1>1, <1>2, <1>5, <2>1, <2>3, <2>4, RequestStep
<1>6. ASSUME session[family] = "OPEN", Lock(p, SessionRow(family)), GoTo(p, "ROTATE")
      PROVE  SessionsInv'
  <2> DEFINE r == [req[p] EXCEPT !.step = "ROTATE"]
  <2>1. req' = [req EXCEPT ![p] = r]
    BY <1>0, <1>6 DEF GoTo
  <2>2. /\ r \in Request /\ r.kind = "REFRESH" /\ r.token = tok /\ r.step = "ROTATE"
        /\ r.ending = req[p].ending /\ r.revoking = req[p].revoking
    BY <1>0, <1>2 DEF Request
  <2> HIDE DEF r, tok, family
  <2> QED BY <1>5, <1>6, <2>1, <2>2
<1>7. ASSUME session[family] = "OPEN", Lock(p, SessionRow(family)),
             req' = [req EXCEPT ![p].step = "COMMIT", ![p].ending = {family}, ![p].revoking = {tok}]
      PROVE  SessionsInv'
  <2> DEFINE r == [req[p] EXCEPT !.step = "COMMIT", !.ending = {family}, !.revoking = {tok}]
  <2> HIDE DEF family
  <2>1. req' = [req EXCEPT ![p] = r]
    BY <1>0, <1>7
  <2>2. /\ r \in Request /\ r.kind = "REFRESH" /\ r.token = tok /\ r.step = "COMMIT"
        /\ r.ending = {family} /\ r.revoking = {tok}
    BY <1>0, <1>2, <1>3 DEF Request
  <2> HIDE DEF r, tok
  <2> QED BY <1>5, <1>7, <2>1, <2>2
<1> QED BY <1>4, <1>6, <1>7 DEF RefreshSession

-----------------------------------------------------------------------------
(* Sign-ins: what a request writes *)

LEMMA RowsWritten ==
  ASSUME SessionsInv, NEW p \in Proc, req[p] # Idle, NEW r \in Request, req' = [req EXCEPT ![p] = r],
         holder' \in [Row -> Proc \cup {Nobody}], OthersHold(p), UNCHANGED requests,
         session' \in Seq({"OPEN", "ENDED"}), token' \in Seq(TokenRecord),
         Len(session') = Len(session) \/ (r = Idle /\ Len(session') = Len(session) + 1),
         Len(token') = Len(token) \/ (r = Idle /\ Len(token') = Len(token) + 1),
         \A s \in DOMAIN session : session'[s] = session[s] \/ holder[SessionRow(s)] = p,
         \A t \in DOMAIN token : /\ token'[t].family = token[t].family
                                 /\ token'[t].state = token[t].state \/ holder[TokenRow(t)] = p,
         OpenSessions' \subseteq OpenSessions \/ holder[UserRow] = p,
         OpenInv', FamilyInv', ReadInv(r)', HeldInv(p)', LoginInv(p)'
  PROVE  SessionsInv'
<1>0. /\ SessionsTypeOK /\ RoomInv /\ req \in [Proc -> Request]
      /\ MaxRequests \in Nat /\ requests \in Nat /\ requests <= MaxRequests
      /\ Len(session) \in Nat /\ Len(token) \in Nat
      /\ DOMAIN session = 1..Len(session) /\ DOMAIN token = 1..Len(token)
      /\ {Len(session), Len(token)} \subseteq Id
  BY AboutTheRequest, SessionBounds DEF SessionsTypeOK
<1>1. req' \in [Proc -> Request] /\ req'[p] = r
  BY <1>0
<1>2. /\ IsFiniteSet(Busy') /\ Cardinality(Busy) \in Nat /\ Cardinality(Busy') \in Nat
      /\ r # Idle => Cardinality(Busy') = Cardinality(Busy)
      /\ r = Idle => Cardinality(Busy') = Cardinality(Busy) - 1
  BY <1>0, BusyChanges DEF RoomInv
<1>3. Len(session) + Cardinality(Busy) <= requests + 2 /\ Len(token) + Cardinality(Busy) <= requests + 2
  BY <1>0 DEF RoomInv
<1>4. RoomInv'
  <2>1. ASSUME NEW old \in Nat, NEW new, old + Cardinality(Busy) <= requests + 2,
               new = old \/ (r = Idle /\ new = old + 1)
        PROVE  new + Cardinality(Busy') <= requests + 2
    BY <1>0, <1>2, <2>1
  <2>2. Len(session') + Cardinality(Busy') <= requests + 2 /\ Len(token') + Cardinality(Busy') <= requests + 2
    BY <1>0, <1>3, <2>1
  <2> QED BY <1>2, <2>2 DEF RoomInv
<1>5. Len(session') \in Nat /\ DOMAIN session' = 1..Len(session')
  OBVIOUS
<1>6. Len(token') \in Nat /\ DOMAIN token' = 1..Len(token')
  <2> HIDE DEF TokenRecord
  <2> QED OBVIOUS
<1>7. SessionsTypeOK'
  <2>1. ASSUME NEW old \in Id, NEW new \in Nat, old + Cardinality(Busy) <= requests + 2,
               new = old \/ (r = Idle /\ new = old + 1)
        PROVE  new \in Id
    <3>1. CASE new = old
      BY <2>1, <3>1
    <3>2. CASE r = Idle /\ new = old + 1
      <4>1. 1 <= Cardinality(Busy)
        BY <1>2, <3>2
      <4> QED BY <1>0, <1>2, <2>1, <3>2, <4>1 DEF Id
    <3> QED BY <2>1, <3>1, <3>2
  <2>2. {Len(session'), Len(token')} \subseteq Id
    BY <1>0, <1>3, <1>5, <1>6, <2>1
  <2> QED BY <1>0, <1>1, <2>2 DEF SessionsTypeOK, TokenRecord
<1>8. DOMAIN session \subseteq DOMAIN session' /\ DOMAIN token \subseteq DOMAIN token'
  <2>1. \A a, b \in Nat : a <= b => 1..a \subseteq 1..b
    OBVIOUS
  <2>2. ASSUME NEW old \in Nat, NEW new \in Nat, new = old \/ (r = Idle /\ new = old + 1)
        PROVE  old <= new
    BY <2>2
  <2>3. Len(session) <= Len(session') /\ Len(token) <= Len(token')
    BY <1>0, <1>5, <1>6, <2>2
  <2> QED BY <1>0, <1>5, <1>6, <2>1, <2>3
<1>9. ASSUME NEW q \in Proc PROVE ReadInv(req[q])' /\ HeldInv(q)' /\ LoginInv(q)'
  <2>1. CASE q = p
    <3>1. ReadInv(req[p])'
      BY <1>1 DEF ReadInv
    <3> QED BY <2>1, <3>1
  <2>2. CASE q # p
    BY <1>8, <2>2, OthersKeepTheirs
  <2> QED BY <2>1, <2>2
<1> QED BY <1>4, <1>7, <1>9 DEF SessionsInv

\* Families and the live tokens in them when tokens only lose their state and one may be inserted.
LEMMA FamiliesKept ==
  ASSUME FamilyInv, DOMAIN session \subseteq DOMAIN session',
         NEW new, NEW family, new # 0 => family \in DOMAIN session', DOMAIN token' \subseteq DOMAIN token \cup {new},
         \A t \in DOMAIN token : /\ token'[t].family = token[t].family
                                 /\ IsLive(t)' => IsLive(t) /\ (new \in DOMAIN token' => token[t].family # family),
         new \in DOMAIN token' => new \notin DOMAIN token /\ new # 0 /\ token'[new].family = family
  PROVE  FamilyInv'
<1>1. ASSUME NEW t \in DOMAIN token' PROVE token'[t].family \in DOMAIN session'
  BY <1>1 DEF FamilyInv
<1>2. ASSUME NEW t \in DOMAIN token', NEW u \in DOMAIN token', IsLive(t)', IsLive(u)',
             token'[t].family = token'[u].family
      PROVE  t = u
  <2>1. CASE t \in DOMAIN token /\ u \in DOMAIN token
    BY <1>2, <2>1 DEF FamilyInv
  <2>2. CASE t \notin DOMAIN token /\ u \in DOMAIN token
    BY <1>2, <2>2
  <2>3. CASE t \in DOMAIN token /\ u \notin DOMAIN token
    BY <1>2, <2>3
  <2>4. CASE t \notin DOMAIN token /\ u \notin DOMAIN token
    BY <2>4
  <2> QED BY <2>1, <2>2, <2>3, <2>4
<1> QED BY <1>1, <1>2 DEF FamilyInv

LEMMA EndedRows ==
  ASSUME SessionsInv, NEW p \in Proc
  PROVE  /\ Ended(p) \in Seq({"OPEN", "ENDED"}) /\ Len(Ended(p)) = Len(session)
         /\ \A s \in DOMAIN session :
              /\ Ended(p)[s] = session[s] \/ holder[SessionRow(s)] = p
              /\ Ended(p)[s] = "OPEN" => s \in OpenSessions \ req[p].ending
<1>0. /\ Len(session) \in Nat /\ DOMAIN session = 1..Len(session) /\ HeldInv(p)
      /\ \A s \in DOMAIN session : session[s] \in {"OPEN", "ENDED"}
  BY AboutTheRequest, SessionBounds
<1>1. \A s \in DOMAIN session :
        /\ Ended(p)[s] = session[s] \/ holder[SessionRow(s)] = p
        /\ Ended(p)[s] = "OPEN" => s \in OpenSessions \ req[p].ending
  BY <1>0 DEF Ended, HeldInv, OpenSessions
<1>2. Ended(p) \in [1..Len(session) -> {"OPEN", "ENDED"}]
  BY <1>0 DEF Ended
<1>3. Ended(p) \in Seq({"OPEN", "ENDED"}) /\ Len(Ended(p)) = Len(session)
  BY <1>0, <1>2
<1> QED BY <1>1, <1>3

LEMMA RevokedRows ==
  ASSUME SessionsInv, NEW p \in Proc
  PROVE  /\ Revoked(p) \in Seq(TokenRecord) /\ Len(Revoked(p)) = Len(token)
         /\ \A t \in DOMAIN token :
              /\ Revoked(p)[t].family = token[t].family
              /\ Revoked(p)[t].state = token[t].state \/ holder[TokenRow(t)] = p
              /\ Revoked(p)[t].state = "LIVE" => token[t].state = "LIVE"
<1>0. /\ Len(token) \in Nat /\ DOMAIN token = 1..Len(token) /\ HeldInv(p)
      /\ \A t \in DOMAIN token : token[t] \in TokenRecord
  BY AboutTheRequest, SessionBounds
<1>1. ASSUME NEW t \in DOMAIN token
      PROVE  /\ Revoked(p)[t] \in TokenRecord
             /\ Revoked(p)[t].family = token[t].family
             /\ Revoked(p)[t].state = token[t].state \/ holder[TokenRow(t)] = p
             /\ Revoked(p)[t].state = "LIVE" => token[t].state = "LIVE"
  <2>1. token[t] \in TokenRecord
    BY <1>0
  <2> QED BY <1>0, <2>1 DEF Revoked, HeldInv, TokenRecord
<1>2. Revoked(p) \in [1..Len(token) -> TokenRecord]
  <2> HIDE DEF TokenRecord
  <2> QED BY <1>0, <1>1 DEF Revoked
<1>3. Revoked(p) \in Seq(TokenRecord) /\ Len(Revoked(p)) = Len(token)
  <2> DEFINE rows == Revoked(p)
  <2>1. rows \in [1..Len(token) -> TokenRecord]
    BY <1>2
  <2> HIDE DEF rows, TokenRecord
  <2>2. rows \in Seq(TokenRecord) /\ Len(rows) = Len(token)
    BY <1>0, <2>1
  <2> QED BY <2>2 DEF rows
<1> QED BY <1>1, <1>3

\* At a sign-out: the statement that ended the sessions commits.
LEMMA SignedOut ==
  ASSUME SessionsInv, NEW p \in Proc, SessionsEnded(p), req[p].kind = "LOGOUT"
  PROVE  SessionsInv'
<1>0. /\ SessionsTypeOK /\ OpenInv /\ FamilyInv /\ req \in [Proc -> Request] /\ req[p] \in Request
      /\ ReadInv(req[p]) /\ HeldInv(p) /\ LoginInv(p) /\ req[p].step = "SESSIONS"
  BY AboutTheRequest DEF SessionsEnded
<1>a. PICK r \in Request :
        /\ req' = [req EXCEPT ![p] = r]
        /\ r.kind = "LOGOUT" /\ r.token = req[p].token /\ r.step = "FIND" /\ r.ending = {} /\ r.revoking = {}
  <2> DEFINE x == [req[p] EXCEPT !.step = "FIND", !.ending = {}]
  <2>1. req' = [req EXCEPT ![p].step = "FIND", ![p].ending = {}]
    BY DEF SessionsEnded
  <2>2. req' = [req EXCEPT ![p] = x]
    BY <1>0, <2>1
  <2>3. /\ x \in Request /\ x.kind = "LOGOUT" /\ x.token = req[p].token /\ x.step = "FIND"
        /\ x.ending = {} /\ x.revoking = {}
    BY <1>0 DEF Request, HeldInv
  <2> HIDE DEF x
  <2> QED BY <2>2, <2>3
<1>1. /\ req' = [req EXCEPT ![p] = r] /\ req'[p] = r /\ req[p] # Idle /\ session' = Ended(p)
      /\ UNCHANGED <<token, requests>>
      /\ holder' = [x \in Row |-> IF holder[x] = p THEN Nobody ELSE holder[x]]
  <2>1. req'[p] = r
    BY <1>0, <1>a
  <2> QED BY <1>0, <1>a, <2>1 DEF SessionsEnded, Idle
<1>2. /\ r \in Request /\ r.kind = "LOGOUT" /\ r.token = req[p].token /\ r.step = "FIND"
      /\ r.ending = {} /\ r.revoking = {} /\ r # Idle
  BY <1>a DEF Idle
<1>3. holder' \in [Row -> Proc \cup {Nobody}] /\ OthersHold(p)
  BY <1>0, <1>1, LocksAreReleased
<1>4. /\ session' \in Seq({"OPEN", "ENDED"}) /\ Len(session') = Len(session)
      /\ \A s \in DOMAIN session : /\ session'[s] = session[s] \/ holder[SessionRow(s)] = p
                                   /\ session'[s] = "OPEN" => s \in OpenSessions
  BY <1>1, EndedRows
<1>5. DOMAIN session' = DOMAIN session /\ OpenSessions' \subseteq OpenSessions
  BY <1>0, <1>4, SessionBounds DEF OpenSessions
<1>6. OpenInv' /\ FamilyInv'
  BY <1>0, <1>1, <1>5 DEF OpenInv, FamilyInv, IsLive
<1>7. token' \in Seq(TokenRecord) /\ Len(token') = Len(token)
  BY <1>0, <1>1 DEF SessionsTypeOK, TokenRecord
<1>8. ReadInv(r)' /\ HeldInv(p)' /\ LoginInv(p)'
  BY <1>0, <1>1, <1>2 DEF ReadInv, HeldInv, LoginInv
<1>9. \A t \in DOMAIN token : /\ token'[t].family = token[t].family
                              /\ token'[t].state = token[t].state \/ holder[TokenRow(t)] = p
  BY <1>1
<1> QED BY <1>1, <1>2, <1>3, <1>4, <1>5, <1>6, <1>7, <1>8, <1>9, RowsWritten

\* What a request leaves when it is over.
LEMMA NothingIsLeft ==
  ASSUME SessionsInv, NEW p \in Proc, Done(p)
  PROVE  /\ Idle \in Request /\ req' = [req EXCEPT ![p] = Idle]
         /\ holder' \in [Row -> Proc \cup {Nobody}] /\ OthersHold(p)
         /\ ReadInv(Idle)' /\ HeldInv(p)' /\ LoginInv(p)'
<1>1. Idle \in Request /\ ReadInv(Idle)'
  BY DEF Idle, Request, ReadInv
<1>2. req' = [req EXCEPT ![p] = Idle] /\ req'[p] = Idle
  BY AboutTheRequest DEF Done
<1>3. holder' \in [Row -> Proc \cup {Nobody}] /\ OthersHold(p)
  BY AboutTheRequest, LocksAreReleased DEF Done
<1>4. HeldInv(p)' /\ LoginInv(p)'
  BY <1>2 DEF HeldInv, LoginInv, Idle
<1> QED BY <1>1, <1>2, <1>3, <1>4

\* A sign-in holds the user's row, and every open session is one it ends: its own is the only open one.
LEMMA RequestCommits ==
  ASSUME SessionsInv, NEW p \in Proc, Commit(p)
  PROVE  SessionsInv'
<1>0. /\ SessionsTypeOK /\ OpenInv /\ FamilyInv /\ ReadInv(req[p]) /\ HeldInv(p) /\ LoginInv(p)
      /\ Len(session) \in Nat /\ Len(token) \in Nat
      /\ DOMAIN session = 1..Len(session) /\ DOMAIN token = 1..Len(token)
  BY AboutTheRequest, SessionBounds
<1>1. req[p].step = "COMMIT" /\ req[p] # Idle /\ Done(p) /\ UNCHANGED requests
  BY DEF Commit, Idle
<1>2. /\ Idle \in Request /\ req' = [req EXCEPT ![p] = Idle]
      /\ holder' \in [Row -> Proc \cup {Nobody}] /\ OthersHold(p)
      /\ ReadInv(Idle)' /\ HeldInv(p)' /\ LoginInv(p)'
  BY <1>1, NothingIsLeft
<1> DEFINE ended == Ended(p)
           revoked == Revoked(p)
<1>3. /\ ended \in Seq({"OPEN", "ENDED"}) /\ Len(ended) = Len(session) /\ DOMAIN ended = DOMAIN session
      /\ \A s \in DOMAIN session : /\ ended[s] = session[s] \/ holder[SessionRow(s)] = p
                                   /\ ended[s] = "OPEN" => s \in OpenSessions \ req[p].ending
  BY <1>0, EndedRows
<1>4. /\ revoked \in Seq(TokenRecord) /\ Len(revoked) = Len(token) /\ DOMAIN revoked = DOMAIN token
      /\ \A t \in DOMAIN token : /\ revoked[t].family = token[t].family
                                 /\ revoked[t].state = token[t].state \/ holder[TokenRow(t)] = p
                                 /\ revoked[t].state = "LIVE" => token[t].state = "LIVE"
  BY <1>0, RevokedRows
<1>5. CASE req[p].kind = "LOGIN"
  <2> DEFINE new == [family |-> Len(session) + 1, state |-> "LIVE"]
  <2>1. session' = Append(ended, "OPEN") /\ token' = Append(revoked, new)
    BY <1>5 DEF Commit
  <2>2. holder[UserRow] = p /\ OpenSessions \subseteq req[p].ending
    BY <1>0, <1>1, <1>5 DEF LoginInv
  <2>3. Len(session) + 1 \in Id
    <3>1. /\ IsFiniteSet(Busy') /\ Cardinality(Busy) \in Nat /\ Cardinality(Busy') \in Nat
          /\ Cardinality(Busy') = Cardinality(Busy) - 1
      BY <1>1, <1>2, AboutTheRequest, BusyChanges DEF RoomInv
    <3>2. 1 <= Cardinality(Busy)
      BY <3>1
    <3>3. Len(session) + Cardinality(Busy) <= requests + 2
      BY AboutTheRequest DEF RoomInv
    <3> QED BY <1>0, <3>1, <3>2, <3>3, SessionBounds DEF Id
  <2>4. new \in TokenRecord
    BY <2>3 DEF TokenRecord
  <2> HIDE DEF ended, revoked
  <2>5. /\ session' \in Seq({"OPEN", "ENDED"}) /\ Len(session') = Len(session) + 1
        /\ DOMAIN session' = 1..(Len(session) + 1) /\ session'[Len(session) + 1] = "OPEN"
        /\ \A s \in DOMAIN session : session'[s] = ended[s]
    BY <1>0, <1>3, <2>1
  <2>6. /\ token' \in Seq(TokenRecord) /\ Len(token') = Len(token) + 1
        /\ DOMAIN token' = 1..(Len(token) + 1) /\ token'[Len(token) + 1] = new
        /\ \A t \in DOMAIN token : token'[t] = revoked[t]
    <3> HIDE DEF new, TokenRecord
    <3> QED BY <1>0, <1>4, <2>1, <2>4
  <2>7. OpenSessions' = {Len(session) + 1}
    <3>1. \A s \in DOMAIN session : session'[s] # "OPEN"
      BY <1>3, <2>2, <2>5
    <3>2. DOMAIN session' = DOMAIN session \cup {Len(session) + 1}
      BY <1>0, <2>5
    <3> QED BY <2>5, <3>1, <3>2 DEF OpenSessions
  <2>8. OpenInv'
    BY <2>7 DEF OpenInv
  <2>9. FamilyInv'
    <3>1. Len(session) + 1 \notin DOMAIN session /\ DOMAIN session \subseteq DOMAIN session'
          /\ Len(session) + 1 \in DOMAIN session'
      BY <1>0, <2>5
    <3>2. /\ Len(token) + 1 \notin DOMAIN token /\ DOMAIN token' \subseteq DOMAIN token \cup {Len(token) + 1}
          /\ Len(token) + 1 # 0
      BY <1>0, <2>6
    <3>3. token'[Len(token) + 1].family = Len(session) + 1
      BY <2>6
    <3>4. \A t \in DOMAIN token : /\ token'[t].family = token[t].family
                                  /\ IsLive(t)' => IsLive(t)
                                  /\ token[t].family # Len(session) + 1
      BY <1>0, <1>4, <2>6, <3>1 DEF FamilyInv, IsLive
    <3> QED BY <1>0, <3>1, <3>2, <3>3, <3>4, FamiliesKept
  <2>10. /\ \A s \in DOMAIN session : session'[s] = session[s] \/ holder[SessionRow(s)] = p
         /\ \A t \in DOMAIN token : /\ token'[t].family = token[t].family
                                    /\ token'[t].state = token[t].state \/ holder[TokenRow(t)] = p
    BY <1>3, <1>4, <2>5, <2>6
  <2> QED BY <1>1, <1>2, <2>2, <2>5, <2>6, <2>8, <2>9, <2>10, RowsWritten
<1>6. CASE req[p].kind # "LOGIN"
  <2>1. session' = ended /\ token' = revoked
    BY <1>6 DEF Commit
  <2> HIDE DEF ended, revoked
  <2>2. OpenSessions' \subseteq OpenSessions
    BY <1>3, <2>1 DEF OpenSessions
  <2>3. OpenInv'
    BY <1>0, <2>2 DEF OpenInv
  <2>4. FamilyInv'
    BY <1>0, <1>3, <1>4, <2>1 DEF FamilyInv, IsLive
  <2> QED BY <1>1, <1>2, <1>3, <1>4, <2>1, <2>2, <2>3, <2>4, RowsWritten
<1> QED BY <1>5, <1>6

\* The token that is rotated was the family's only live one.
LEMMA TokenRotated ==
  ASSUME SessionsInv, NEW p \in Proc, Rotate(p)
  PROVE  SessionsInv'
<1> DEFINE tok == req[p].token
           family == FamilyOf(p)
           new == [family |-> family, state |-> "LIVE"]
           rotated == [token EXCEPT ![tok].state = "ROTATED"]
<1>0. /\ SessionsTypeOK /\ OpenInv /\ FamilyInv /\ ReadInv(req[p]) /\ HeldInv(p)
      /\ Len(session) \in Nat /\ Len(token) \in Nat /\ token \in Seq(TokenRecord)
      /\ DOMAIN session = 1..Len(session) /\ DOMAIN token = 1..Len(token)
      /\ \A t \in DOMAIN token : token[t] \in TokenRecord
  BY AboutTheRequest, SessionBounds DEF SessionsTypeOK, TokenRecord
<1>1. /\ req[p].step = "ROTATE" /\ req[p] # Idle /\ Done(p) /\ UNCHANGED <<session, requests>>
      /\ token' = Append(rotated, new)
  BY DEF Rotate, Idle
<1>2. /\ Idle \in Request /\ req' = [req EXCEPT ![p] = Idle]
      /\ holder' \in [Row -> Proc \cup {Nobody}] /\ OthersHold(p)
      /\ ReadInv(Idle)' /\ HeldInv(p)' /\ LoginInv(p)'
  BY <1>1, NothingIsLeft
<1>3. /\ tok \in DOMAIN token /\ holder[TokenRow(tok)] = p /\ IsLive(tok)
      /\ family \in DOMAIN session /\ token[tok].family = family /\ family \in Id
  BY <1>0, <1>1, SessionBounds DEF ReadInv, HeldInv, FamilyInv, FamilyOf
<1> HIDE DEF tok, family
<1>4. new \in TokenRecord
  BY <1>3 DEF TokenRecord
<1>5. ASSUME NEW t \in DOMAIN token
      PROVE  /\ rotated[t] \in TokenRecord /\ rotated[t].family = token[t].family
             /\ rotated[t].state = "LIVE" => token[t].state = "LIVE" /\ t # tok
             /\ rotated[t].state = token[t].state \/ t = tok
  <2>1. token[t] \in TokenRecord
    BY <1>0
  <2>2. rotated[t] = IF t = tok THEN [token[t] EXCEPT !.state = "ROTATED"] ELSE token[t]
    BY <1>3
  <2> HIDE DEF rotated
  <2> QED BY <2>1, <2>2 DEF TokenRecord
<1>6. rotated \in Seq(TokenRecord) /\ Len(rotated) = Len(token)
  <2>1. DOMAIN rotated = 1..Len(token) /\ rotated = [t \in 1..Len(token) |-> rotated[t]]
    BY <1>0
  <2> HIDE DEF rotated, TokenRecord
  <2>2. rotated \in [1..Len(token) -> TokenRecord]
    BY <1>0, <1>5, <2>1
  <2> QED BY <1>0, <2>2
<1> HIDE DEF rotated
<1>7. /\ token' \in Seq(TokenRecord) /\ Len(token') = Len(token) + 1
      /\ DOMAIN token' = 1..(Len(token) + 1) /\ token'[Len(token) + 1] = new
      /\ \A t \in DOMAIN token : token'[t] = rotated[t]
  <2> HIDE DEF new, TokenRecord
  <2> QED BY <1>0, <1>1, <1>4, <1>6
<1>8. OpenSessions' = OpenSessions /\ OpenInv'
  BY <1>0, <1>1 DEF OpenSessions, OpenInv
<1>9. FamilyInv'
  <2>1. /\ Len(token) + 1 \notin DOMAIN token /\ DOMAIN token' \subseteq DOMAIN token \cup {Len(token) + 1}
        /\ Len(token) + 1 # 0
    BY <1>0, <1>7
  <2>2. token'[Len(token) + 1].family = family
    BY <1>7
  <2>3. \A t \in DOMAIN token : /\ token'[t].family = token[t].family
                                /\ IsLive(t)' => IsLive(t) /\ t # tok
    BY <1>5, <1>7 DEF IsLive
  <2>5. \A t \in DOMAIN token : IsLive(t)' => token[t].family # family
    BY <1>0, <1>3, <2>3 DEF FamilyInv
  <2>4. family \in DOMAIN session' /\ DOMAIN session \subseteq DOMAIN session'
    BY <1>1, <1>3
  <2> QED BY <1>0, <2>1, <2>2, <2>3, <2>4, <2>5, FamiliesKept
<1>10. /\ session' \in Seq({"OPEN", "ENDED"}) /\ Len(session') = Len(session)
       /\ \A s \in DOMAIN session : session'[s] = session[s]
       /\ \A t \in DOMAIN token : /\ token'[t].family = token[t].family
                                  /\ token'[t].state = token[t].state \/ holder[TokenRow(t)] = p
  BY <1>0, <1>1, <1>3, <1>5, <1>7 DEF SessionsTypeOK
<1> QED BY <1>1, <1>2, <1>7, <1>8, <1>9, <1>10, RowsWritten

-----------------------------------------------------------------------------
(* Sign-ins: the invariant and what follows from it *)

LEMMA SessionsStart == SessionsInit => SessionsInv
<1> SUFFICES ASSUME SessionsInit PROVE SessionsInv
  OBVIOUS
<1>1. MaxRequests \in Nat /\ {1, 2} \subseteq Id
  BY SessionsAssumption DEF Id
<1>2. session = <<"OPEN">> /\ Len(session) = 1 /\ DOMAIN session = {1} /\ session[1] = "OPEN"
  BY DEF SessionsInit
<1>3. /\ Len(token) = 2 /\ DOMAIN token = {1, 2} /\ token[1].family = 1 /\ token[2].family = 1
      /\ token[1].state = "ROTATED" /\ token[2].state = "LIVE"
  BY DEF SessionsInit
<1>4. Idle \in Request
  BY DEF Idle, Request
<1>5. SessionsTypeOK
  <2>1. token \in Seq([family : Id, state : {"LIVE", "ROTATED", "REVOKED"}])
    BY <1>1 DEF SessionsInit
  <2>2. session \in Seq({"OPEN", "ENDED"}) /\ {Len(session), Len(token)} \subseteq Id
    BY <1>1, <1>2, <1>3
  <2>3. holder \in [Row -> Proc \cup {Nobody}] /\ req \in [Proc -> Request] /\ requests \in 0..MaxRequests
    BY <1>1, <1>4 DEF SessionsInit
  <2> QED BY <2>1, <2>2, <2>3 DEF SessionsTypeOK
<1>6. RoomInv
  <2>1. Busy = {}
    BY DEF Busy, SessionsInit
  <2>2. IsFiniteSet(Busy) /\ Cardinality(Busy) = 0
    BY <2>1, FS_EmptySet
  <2> QED BY <1>2, <1>3, <2>2 DEF RoomInv, SessionsInit
<1>7. OpenInv
  BY <1>2 DEF OpenInv, OpenSessions
<1>8. FamilyInv
  BY <1>2, <1>3 DEF FamilyInv, IsLive
<1>9. ASSUME NEW p \in Proc PROVE ReadInv(req[p]) /\ HeldInv(p) /\ LoginInv(p)
  <2>1. req[p] = Idle
    BY DEF SessionsInit
  <2> QED BY <2>1 DEF ReadInv, HeldInv, LoginInv, Idle
<1> QED BY <1>5, <1>6, <1>7, <1>8, <1>9 DEF SessionsInv

LEMMA SessionsUnchanged == SessionsInv /\ UNCHANGED sessionVars => SessionsInv'
<1> SUFFICES ASSUME SessionsInv, UNCHANGED sessionVars PROVE SessionsInv'
  OBVIOUS
<1>1. SessionsTypeOK' /\ RoomInv' /\ OpenInv' /\ FamilyInv'
  BY DEF sessionVars, SessionsInv, SessionsTypeOK, RoomInv, Busy, OpenInv, OpenSessions, FamilyInv, IsLive
<1>2. \A p \in Proc : (ReadInv(req[p]) /\ HeldInv(p) /\ LoginInv(p))'
  BY DEF sessionVars, SessionsInv, ReadInv, HeldInv, LoginInv, OpenSessions, IsLive, FamilyOf
<1> QED BY <1>1, <1>2 DEF SessionsInv

LEMMA SessionsStep == SessionsInv /\ [SessionsNext]_sessionVars => SessionsInv'
<1> SUFFICES ASSUME SessionsInv, [SessionsNext]_sessionVars PROVE SessionsInv'
  OBVIOUS
<1>1. CASE UNCHANGED sessionVars
  BY <1>1, SessionsUnchanged
<1>2. ASSUME NEW p \in Proc, Start(p) PROVE SessionsInv'
  <2>1. CASE Login(p)
    BY <2>1, RequestBegins DEF Login
  <2>2. CASE CloseAccount(p)
    BY <2>2, RequestBegins DEF CloseAccount
  <2>3. CASE ForceLogout(p)
    BY <2>3, RequestBegins DEF ForceLogout
  <2>4. ASSUME NEW t \in DOMAIN token, EndOne(p, t) \/ Logout(p, t) \/ Refresh(p, t) PROVE SessionsInv'
    BY <2>4, RequestBegins DEF EndOne, Logout, Refresh
  <2> QED BY <1>2, <2>1, <2>2, <2>3, <2>4 DEF Start
<1>3. ASSUME NEW p \in Proc, Step(p) PROVE SessionsInv'
  <2>1. CASE SessionsEnded(p)
    BY <2>1, SessionsDone, SignedOut
  <2>2. CASE WriteUser(p) \/ FindSessions(p) \/ FindTokens(p) \/ TokensRevoked(p) \/ Commit(p)
    BY <2>2, UserWritten, SessionsFound, TokensFound, TokensDone, RequestCommits
  <2>3. CASE (\E s \in DOMAIN session : EndSession(p, s)) \/ (\E t \in DOMAIN token : RevokeToken(p, t))
    BY <2>3, SessionEnded, TokenRevoked
  <2>4. CASE ReadToken(p) \/ EndFamily(p) \/ RefreshSession(p) \/ Rotate(p)
    BY <2>4, TokenRead, FamilyEnded, SessionRefreshed, TokenRotated
  <2>5. CASE Deadlock(p)
    <3>1. req[p] # Idle
      <4>1. Wanted(p) # {}
        BY <2>5 DEF Deadlock, Deadlocked, WaitsFor
      <4> QED BY <4>1 DEF Wanted, Idle
    <3> QED BY <2>5, <3>1, RequestEnds DEF Deadlock
  <2> QED BY <1>3, <2>1, <2>2, <2>3, <2>4, <2>5 DEF Step
<1> QED BY <1>1, <1>2, <1>3 DEF SessionsNext

LEMMA SessionsInvariance == SessionsSpec => []SessionsInv
<1>1. SessionsInit => SessionsInv
  BY SessionsStart
<1>2. SessionsInv /\ [SessionsNext]_sessionVars => SessionsInv'
  BY SessionsStep
<1> QED BY <1>1, <1>2, PTL DEF SessionsSpec

LEMMA AtMostOneElement ==
  ASSUME NEW S, \A x, y \in S : x = y
  PROVE  Cardinality(S) <= 1
<1>1. CASE S = {}
  BY <1>1, FS_EmptySet
<1>2. ASSUME NEW x \in S PROVE Cardinality(S) <= 1
  <2>1. S = {x}
    BY <1>2
  <2> QED BY <2>1, FS_Singleton
<1> QED BY <1>1, <1>2

\* However sign-ins, refreshes, sign-outs and an administrator's steps overlap, and whichever of them
\* a deadlock ends, one session of the user is open and a session has one live refresh token.
THEOREM OneSignInAtATime == SessionsSpec => []OneSignIn
<1>1. SessionsInv => OneSignIn
  <2> SUFFICES ASSUME SessionsInv PROVE OneSignIn
    OBVIOUS
  <2>1. SessionsTypeOK /\ OpenInv /\ FamilyInv
    BY DEF SessionsInv
  <2>2. Cardinality(OpenSessions) <= 1
    BY <2>1, AtMostOneElement DEF OpenInv
  <2>3. ASSUME NEW s \in DOMAIN session PROVE Cardinality(LiveTokens({s})) <= 1
    <3>1. \A t, u \in LiveTokens({s}) : t = u
      BY <2>1 DEF LiveTokens, FamilyInv, IsLive
    <3> QED BY <3>1, AtMostOneElement
  <2> QED BY <2>1, <2>2, <2>3 DEF OneSignIn
<1> QED BY <1>1, SessionsInvariance, PTL

\* What a step does to the sessions that have ended, and in which families it inserts a token.
EndedStays ==
  \A s \in DOMAIN session : session[s] = "ENDED" =>
    /\ session'[s] = "ENDED"
    /\ \A t \in DOMAIN token' \ DOMAIN token : token'[t].family # s

LEMMA EndedAtCommit ==
  ASSUME SessionsInv, NEW p \in Proc, Commit(p)
  PROVE  EndedStays
<1>0. /\ Len(session) \in Nat /\ Len(token) \in Nat
      /\ DOMAIN session = 1..Len(session) /\ DOMAIN token = 1..Len(token)
  BY AboutTheRequest, SessionBounds
<1> DEFINE ended == Ended(p)
           revoked == Revoked(p)
<1>1. /\ ended \in Seq({"OPEN", "ENDED"}) /\ Len(ended) = Len(session)
      /\ \A s \in DOMAIN session : session[s] = "ENDED" => ended[s] = "ENDED"
  BY EndedRows DEF Ended
<1>2. revoked \in Seq(TokenRecord) /\ Len(revoked) = Len(token) /\ DOMAIN revoked = DOMAIN token
  BY RevokedRows DEF Revoked
<1>3. CASE req[p].kind = "LOGIN"
  <2> DEFINE new == [family |-> Len(session) + 1, state |-> "LIVE"]
  <2>1. session' = Append(ended, "OPEN") /\ token' = Append(revoked, new)
    BY <1>3 DEF Commit
  <2> HIDE DEF ended, revoked
  <2>2. \A s \in DOMAIN session : session'[s] = ended[s]
    BY <1>0, <1>1, <2>1
  <2>3. DOMAIN token' = 1..(Len(token) + 1) /\ token'[Len(token) + 1] = new
    <3> HIDE DEF new, TokenRecord
    <3> QED BY <1>0, <1>2, <2>1
  <2>4. \A t \in DOMAIN token' \ DOMAIN token : token'[t].family = Len(session) + 1
    BY <1>0, <2>3
  <2>5. Len(session) + 1 \notin DOMAIN session
    BY <1>0
  <2> QED BY <1>1, <2>2, <2>4, <2>5 DEF EndedStays
<1>4. CASE req[p].kind # "LOGIN"
  BY <1>1, <1>2, <1>4 DEF EndedStays, Commit
<1> QED BY <1>3, <1>4

\* A refresh inserts its token while it holds the row of a session that is open.
LEMMA EndedAtRotation ==
  ASSUME SessionsInv, NEW p \in Proc, Rotate(p)
  PROVE  EndedStays
<1> DEFINE family == FamilyOf(p)
           new == [family |-> family, state |-> "LIVE"]
           rotated == [token EXCEPT ![req[p].token].state = "ROTATED"]
<1>0. /\ SessionsTypeOK /\ HeldInv(p) /\ Len(token) \in Nat /\ DOMAIN token = 1..Len(token)
  BY AboutTheRequest, SessionBounds
<1>1. session[family] = "OPEN" /\ UNCHANGED session /\ token' = Append(rotated, new)
  BY <1>0 DEF Rotate, HeldInv
<1>2. DOMAIN rotated = 1..Len(token)
  BY <1>0
<1> HIDE DEF family, rotated
<1>3. DOMAIN token' = 1..(Len(token) + 1) /\ token'[Len(token) + 1] = new
  <2>1. Len(rotated) = Len(token)
    BY <1>0, <1>2
  <2> HIDE DEF new
  <2> QED BY <1>0, <1>1, <1>2, <2>1
<1>4. \A t \in DOMAIN token' \ DOMAIN token : token'[t].family = family
  BY <1>0, <1>3
<1> QED BY <1>1, <1>4 DEF EndedStays

\* A session that ended never opens again, and no request that was under way when it ended gives it a
\* new refresh token.
THEOREM EndedForGood == SessionsSpec => EndedStaysEnded
<1>1. SessionsInv /\ [SessionsNext]_sessionVars => [EndedStays]_sessionVars
  <2> SUFFICES ASSUME SessionsInv, SessionsNext PROVE EndedStays
    BY DEF sessionVars
  <2>1. ASSUME NEW p \in Proc, Start(p) PROVE EndedStays
    BY <2>1 DEF Start, Login, CloseAccount, ForceLogout, EndOne, Logout, Refresh, Begin, EndedStays
  <2>2. ASSUME NEW p \in Proc, Step(p) PROVE EndedStays
    <3>1. CASE SessionsEnded(p)
      <4>1. session' = session \/ session' = Ended(p)
        BY <3>1 DEF SessionsEnded
      <4>2. UNCHANGED token
        BY <3>1 DEF SessionsEnded
      <4> QED BY <4>1, <4>2 DEF EndedStays, Ended
    <3>2. CASE Commit(p)
      BY <3>2, EndedAtCommit
    <3>3. CASE Rotate(p)
      BY <3>3, EndedAtRotation
    <3>4. CASE UNCHANGED <<session, token>>
      BY <3>4 DEF EndedStays
    <3>5. CASE WriteUser(p) \/ FindSessions(p) \/ FindTokens(p) \/ TokensRevoked(p)
      BY <3>4, <3>5 DEF WriteUser, FindSessions, FindTokens, TokensRevoked
    <3>6. CASE (\E s \in DOMAIN session : EndSession(p, s)) \/ (\E t \in DOMAIN token : RevokeToken(p, t))
      BY <3>4, <3>6 DEF EndSession, RevokeToken
    <3>7. CASE ReadToken(p) \/ EndFamily(p) \/ RefreshSession(p) \/ Deadlock(p)
      BY <3>4, <3>7 DEF ReadToken, EndFamily, RefreshSession, Deadlock
    <3> QED BY <2>2, <3>1, <3>2, <3>3, <3>5, <3>6, <3>7 DEF Step
  <2> QED BY <2>1, <2>2 DEF SessionsNext
<1> QED BY <1>1, SessionsInvariance, PTL DEF SessionsSpec, EndedStaysEnded, EndedStays
==============================================================================
