---------------------------- MODULE MCAppSession ----------------------------
(***************************************************************************)
(* AppSession with a list of saves that holds a repeated one, one that is  *)
(* not an account's, and more than may be mounted.                         *)
(***************************************************************************)
EXTENDS AppSession

Save(key, account) == [key |-> key, account |-> account]
MCSaves == <<Save(1, TRUE), Save(2, FALSE), Save(1, TRUE), Save(3, TRUE), Save(4, TRUE)>>
=============================================================================
