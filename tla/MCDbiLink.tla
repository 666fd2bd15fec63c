----------------------------- MODULE MCDbiLink -----------------------------
(***************************************************************************)
(* Two files of up to three bytes in chunks of two, so that a range is one *)
(* or two chunks and ranges nest, touch and overlap; a catalogue of two    *)
(* names does not fit; the console makes three requests and the person     *)
(* starts two servers, so that each request may meet a server that is new, *)
(* that has stopped or that lost the device.                               *)
(***************************************************************************)
EXTENDS DbiLink

CONSTANTS FileA, FileB

MCFiles == {FileA, FileB}

\* The probe's first byte, all of a file, the middle and the end.
MCRanges == {[offset |-> 0, size |-> 1], [offset |-> 0, size |-> 3],
             [offset |-> 1, size |-> 1], [offset |-> 1, size |-> 2]}
=============================================================================
