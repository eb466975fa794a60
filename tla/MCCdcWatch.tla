----------------------------- MODULE MCCdcWatch -----------------------------
(***************************************************************************)
(* Instances of CdcWatch for TLC: one table or two, two pages, and the     *)
(* environments named in the configurations.                               *)
(***************************************************************************)
EXTENDS CdcWatch, TLC

CONSTANTS A, B

OneTable  == <<A>>
TwoTables == <<A, B>>

KeySymmetry == Permutations(Keys)

=============================================================================
