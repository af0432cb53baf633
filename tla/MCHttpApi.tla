----------------------------- MODULE MCHttpApi -----------------------------
(***************************************************************************)
(* HttpApi for TLC. No request and no password is distinguished from the   *)
(* others, and every property is an invariant: permuting them is sound.    *)
(***************************************************************************)
EXTENDS HttpApi, TLC

Symmetry == Permutations(Requests) \cup Permutations(Passwords)
=============================================================================
