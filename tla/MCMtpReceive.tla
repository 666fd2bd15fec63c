---------------------------- MODULE MCMtpReceive ----------------------------
(***************************************************************************)
(* MtpReceive with objects of none to three blocks: i0 and i3 go to the      *)
(* Inbox, p1, p2 and u3 to the install storage, u3 without a size.         *)
(***************************************************************************)
EXTENDS MtpReceive, TLC

CONSTANTS i0, i3, p1, p2, u3

MCObjects == {i0, i3, p1, p2, u3}
Of(storage, blocks, sized) == [storage |-> storage, blocks |-> blocks, sized |-> sized]
MCObject ==
    i0 :> Of("inbox", 0, TRUE) @@ i3 :> Of("inbox", 3, TRUE)
    @@ p1 :> Of("install", 1, TRUE) @@ p2 :> Of("install", 2, TRUE)
    @@ u3 :> Of("install", 3, FALSE)

(* Hosts that copy to one storage, and a host that copies to both. *)
MCInboxHost == {{i0, i3}}
MCInstallHost == {{p2, u3}, {p1, p2}}
MCOneStorageHosts == MCInboxHost \cup MCInstallHost
MCBothStorages == {{i3, u3}}

MCFallibleCalls == FallibleCalls
MCNothingFails == {}
MCSinkWriteFails == {"SinkWrite"}
=============================================================================
