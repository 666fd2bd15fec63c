------------------------- MODULE SdInstallRefinement -------------------------
(***************************************************************************)
(* SdInstall as an implementation of TitleLibrary.  A title can be started *)
(* when its ContentMeta is committed, its NCAs are registered and its      *)
(* ApplicationRecord is published.                                         *)
(***************************************************************************)
EXTENDS SdInstall

KeysOf(p) ==
    {Cnmt[Package[p].entries[n].id].key :
        n \in {m \in 1..Len(Package[p].entries) : Package[p].entries[m].kind = "cnmt"}}

Startable ==
    {k \in records : metaDisk[k] # NoMeta /\ Complete(metaDisk[k])}

Library == INSTANCE TitleLibrary
    WITH Titles <- Keys, Offers <- Packages, TitlesOf <- KeysOf, Nobody <- NoPackage,
         library <- Startable, offer <- pkg, verdict <- outcome

(* Receiving a package is atomic for the titles on the card: no intermediate *)
(* state of the stream, of finish() or of rollback() is visible, a crash     *)
(* included, and "ok" is reported only for a startable title.  It is checked *)
(* for packages of one CNMT and an NS that accepts the ApplicationRecord;    *)
(* rollback is not atomic beyond that.                                       *)
InstallIsAtomic == Library!Spec
=============================================================================
