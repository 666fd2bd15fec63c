--------------------------- MODULE MCObjectDatabase ---------------------------
(***************************************************************************)
(* ObjectDatabase on an SD card with the Inbox in it, one mounted save and *)
(* the four kinds of storages.                                             *)
(***************************************************************************)
EXTENDS ObjectDatabase

CONSTANTS root, inbox, staging, kept, folder, inner, package, save, slot,
          sd, safeInbox, install, saves

MCPaths == {root, inbox, staging, kept, folder, inner, package, save, slot}
MCUp ==
    [p \in MCPaths |->
        CASE p \in {root, save} -> NoPath
          [] p \in {inbox, package} -> root
          [] p \in {staging, kept, folder} -> inbox
          [] p = inner -> folder
          [] p = slot -> save]
MCDisk ==
    [p \in MCPaths |->
        CASE p \in {root, inbox, staging, save} -> Directory
          [] p = kept -> File(1)
          [] p = slot -> File(2)
          [] OTHER -> Missing]
MCStorages == {sd, safeInbox, install, saves}
MCStorage ==
    [s \in MCStorages |->
        [path |-> CASE s \in {sd, install} -> root [] s = safeInbox -> inbox
                    [] s = saves -> NoPath,
         writable |-> s \in {safeInbox, install},
         virtual_root |-> s = saves,
         action |-> s = install]]
MCSeeds == {[storage |-> saves, path |-> save]}
MCSendable ==
    {[path |-> folder, dir |-> TRUE, size |-> 0], [path |-> inner, dir |-> FALSE, size |-> 3],
     [path |-> kept, dir |-> FALSE, size |-> 2], [path |-> package, dir |-> FALSE, size |-> 3]}
MCFrozen == {slot}
MCFallible == FallibleCalls
=============================================================================
