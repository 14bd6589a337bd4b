--------------------------- MODULE OwnerRegistry ---------------------------
(***************************************************************************)
(* What the grant services promise about the owners of a workspace: the    *)
(* set of owners changes one step at a time, a step removes at most one    *)
(* owner and never the last one, and only the deletion of an account may   *)
(* leave a workspace without an owner.  No transactions, locks or rows.    *)
(***************************************************************************)
CONSTANTS Users, Founder, CoOwners

VARIABLES owners, lost

Init == owners = {Founder} \cup CoOwners /\ lost = FALSE

(* A grant of the owner role to one user, or a boot projecting several. *)
Appoint(new) == owners' = owners \cup new /\ UNCHANGED lost

(* A revoke or a removal: with no account deleted, somebody must remain. *)
Dismiss(u) ==
  /\ owners' = owners \ {u}
  /\ lost \/ owners' # {}
  /\ UNCHANGED lost

(* The account itself is deleted: nothing keeps its owner grant. *)
Vanish(u) ==
  /\ owners' = owners \ {u}
  /\ lost' = (lost \/ u \in owners)

Next ==
  \/ \E new \in SUBSET Users : Appoint(new)
  \/ \E u \in Users : Dismiss(u) \/ Vanish(u)

Spec == Init /\ [][Next]_<<owners, lost>>
=============================================================================
