--------------------------- MODULE MCServiceDesk ---------------------------
(***************************************************************************)
(* Small instances of ServiceDesk for TLC.                                 *)
(***************************************************************************)
EXTENDS ServiceDesk, TLC

\* No action or invariant tells two clients or two workers apart.
ClientSymmetry == Permutations(Clients) \cup Permutations(Workers)
=============================================================================
