---------------------------- MODULE TitleLibrary ----------------------------
(***************************************************************************)
(* What "5: SD Card install" promises, with no NCM in it: the library of   *)
(* titles a console can start changes only by gaining, in one step, all    *)
(* the titles of the package being received, and success is reported only  *)
(* afterwards.                                                             *)
(***************************************************************************)
CONSTANTS
    Titles,          \* what can be installed
    Offers,          \* the packages
    TitlesOf(_),     \* the titles of a package
    Nobody           \* no package

VARIABLES
    library,         \* the titles that can be started
    offer,           \* the package of the current or last transfer
    verdict          \* what the sender was told about it

vars == <<library, offer, verdict>>

Init ==
    /\ library = {}
    /\ offer = Nobody
    /\ verdict = "none"

(* A package is offered; it may be turned down at once. *)
Begin(p) ==
    /\ verdict # "receiving"
    /\ offer' = p
    /\ verdict' \in {"receiving", "failed"}
    /\ UNCHANGED library

(* The commit point: all the titles of the package, or none. *)
Install ==
    /\ verdict = "receiving"
    /\ library' = library \cup TitlesOf(offer)
    /\ UNCHANGED <<offer, verdict>>

Report ==
    /\ verdict = "receiving"
    /\ TitlesOf(offer) \subseteq library
    /\ verdict' = "ok"
    /\ UNCHANGED <<library, offer>>

(* Refused, cancelled or cut off by a crash: the library stays as it is. *)
GiveUp ==
    /\ verdict = "receiving"
    /\ verdict' \in {"failed", "crashed"}
    /\ UNCHANGED <<library, offer>>

Next == (\E p \in Offers : Begin(p)) \/ Install \/ Report \/ GiveUp

Spec == Init /\ [][Next]_vars
=============================================================================
