----------------------------- MODULE LotPhotos -----------------------------
(***************************************************************************)
(* The photos of an inspection lot: a request reads the lot, stores or     *)
(* finds the file, and adds or removes the attachment in a transaction     *)
(* that does not look at the lot again.                                    *)
(* backend/src/modules/imir/attachments.service.js                         *)
(***************************************************************************)
EXTENDS Inspection

CONSTANT MaxPhotos   \* MAX_PER_CELL


VARIABLES
  photos,   \* attachments of the lot
  asked     \* per user: the request that has read the lot and not yet changed the attachments

photoVars == <<photos, asked>>

PhotosInit == Init /\ photos = 0 /\ asked = [u \in Inspector |-> None]

\* allowedActions of detail() has "inspect".
SeenInspectable(u) == u \in Inspector /\ lot.status \in Editable /\ (checkout = NoCheckout => ~HeldByOther(u))

AskAdd(u, d) ==
  /\ asked[u] = None /\ SeenInspectable(u)
  /\ checkout.device \in {None, d} /\ photos < MaxPhotos
  /\ asked' = [asked EXCEPT ![u] = "ADD"]
  /\ UNCHANGED <<photos, inspectionVars>>

AddObservationAttachment(u) ==
  /\ asked[u] = "ADD"
  /\ photos' = photos + 1 /\ asked' = [asked EXCEPT ![u] = None]
  /\ UNCHANGED inspectionVars

AskRemove(u) ==
  /\ asked[u] = None /\ SeenInspectable(u) /\ photos > 0
  /\ asked' = [asked EXCEPT ![u] = "REMOVE"]
  /\ UNCHANGED <<photos, inspectionVars>>

\* Of two removals of the same file the second changes nothing: the count stays above zero.
RemoveAttachment(u) ==
  /\ asked[u] = "REMOVE"
  /\ photos' = IF photos > 0 THEN photos - 1 ELSE 0
  /\ asked' = [asked EXCEPT ![u] = None]
  /\ UNCHANGED inspectionVars

PhotosNext ==
  \/ Next /\ UNCHANGED photoVars
  \/ \E u \in Inspector :
       \/ AddObservationAttachment(u) \/ AskRemove(u) \/ RemoveAttachment(u)
       \/ \E d \in Device \cup {None} : AskAdd(u, d)

PhotosSpec == PhotosInit /\ [][PhotosNext]_<<inspectionVars, photoVars>>

-----------------------------------------------------------------------------
(* What a comment says of the program and the code does not do *)

\* "Only while the IMIR is being inspected": the photos of a submitted lot do not change.
PhotosOnlyWhileInspected ==
  [][photos' # photos => lot.status \in Editable]_<<inspectionVars, photoVars>>
=============================================================================
