----------------------------- MODULE MCRequestBody -----------------------------
(***************************************************************************)
(* Small instances of RequestBody for TLC.                                 *)
(***************************************************************************)
EXTENDS RequestBody

\* Every header of up to four characters: zeros, digits around those of the
\* maximum 12, and a character that is no digit.
MCHeaders == UNION {[1 .. n -> {0, 1, 2, 3, 10}] : n \in 0 .. 4}
MCMaximum == <<1, 2>>
=============================================================================
