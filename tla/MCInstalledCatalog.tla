-------------------------- MODULE MCInstalledCatalog --------------------------
(***************************************************************************)
(* InstalledCatalog with up to four titles listed two at a time: lists that *)
(* end inside a batch, with a full batch, and that lose their first record. *)
(***************************************************************************)
EXTENDS InstalledCatalog

CONSTANTS a, b, c, d

MCApps == {a, b, c, d}
MCWithIcon == {a, c}
MCUntitled == {b}
MCLists == {<<>>, <<a, b, c>>, <<b, c>>, <<d, c, b, a>>}
=============================================================================
