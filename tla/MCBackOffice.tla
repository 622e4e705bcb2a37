---------------------------- MODULE MCBackOffice ----------------------------
(***************************************************************************)
(* The administrator of the seed data and a second user, two calls at a    *)
(* time, two locations and one label.                                      *)
(***************************************************************************)
EXTENDS BackOffice, TLC

CONSTANT alice, bob

Symmetric ==
  Permutations(Sessions) \union Permutations(Calls)
    \union Permutations(LocationIds) \union Permutations(Codes)
=============================================================================
