----------------------------- MODULE MCCatalog -----------------------------
(***************************************************************************)
(* Two requests over a Spectrum-managed item, a local one and one that is  *)
(* still to be created.                                                    *)
(***************************************************************************)
EXTENDS Catalog, TLC

CONSTANTS pipe, glove, tape, r1, r2

MCItems == {pipe, glove, tape}
MCSpectrumItems == {pipe}
MCLocalItems == {glove}
MCRequestIds == {r1, r2}

Symmetric == Permutations(MCRequestIds)
=============================================================================
