--------------------------- MODULE ProfileLifecycle ---------------------------
(***************************************************************************)
(* What the profile API promises about one profile, whatever requests run  *)
(* at once: it comes into being once (POST /profiles, /profiles/bulk), may *)
(* be soft-deleted, which hides it from reads and lists, and may be        *)
(* erased by a hard delete, live or soft-deleted.  Nothing brings a        *)
(* deleted or erased profile back, and nothing un-creates a created one.   *)
(* Edits of a profile's fields are not transitions of its lifecycle and    *)
(* are stuttering steps here.                                              *)
(***************************************************************************)
CONSTANTS Profiles

VARIABLES state   \* per profile: "absent", "live", "deleted" or "erased"

(* The moves a profile's lifecycle allows, as a relation on states.        *)
Moves == {<<"absent", "live">>, <<"live", "deleted">>,
          <<"live", "erased">>, <<"deleted", "erased">>}

Init == state = [p \in Profiles |-> "absent"]

(* Any set of profiles may move at once: a bulk call is one statement.     *)
Step ==
    /\ state' \in [Profiles -> {"absent", "live", "deleted", "erased"}]
    /\ \E p \in Profiles : state'[p] # state[p]
    /\ \A p \in Profiles :
         state'[p] = state[p] \/ <<state[p], state'[p]>> \in Moves

Spec == Init /\ [][Step]_state

=============================================================================
