--------------------------- MODULE MCParts_proofs ----------------------------
(***************************************************************************)
(* The parts of MCParts side by side: each of them goes its own way, so    *)
(* what is proved of one alone is true of it among the others.             *)
(***************************************************************************)
EXTENDS MCParts, FlatPk_proofs, SnapFile_proofs, Parts_proofs

LEMMA EachBegins ==
  PartsInit => FlatInit /\ SnapInit /\ SqzInit /\ WireInit /\ FragInit /\ SchemaInit /\ MigInit
BY DEF PartsInit

\* A step is one of a part, and for every other part a stutter.
LEMMA OneGoes ==
  [PartsNext]_partsVars =>
    /\ [FlatNext]_flatVars /\ [SnapNext]_snapVars /\ [SqzNext]_sqzVars /\ [WireNext]_wireVars
    /\ [FragNext]_fragVars /\ [SchemaNext]_schemaVars /\ [MigNext]_migVars
BY DEF PartsNext, partsVars

LEMMA PartsAreSpecified ==
  PartsSpec => /\ FlatSpec /\ SnapSpec /\ SqzSpec /\ WireSpec
               /\ FragSpec /\ SchemaSpec /\ MigSpec
BY EachBegins, OneGoes, PTL
   DEF PartsSpec, FlatSpec, SnapSpec, SqzSpec, WireSpec, FragSpec, SchemaSpec, MigSpec

(***************************************************************************)
(* Every part keeps the types of its state, whichever of them runs and for *)
(* all values of the constants: bodies longer than a length field, power   *)
(* cuts, collected fragments and every kind of ALTER TABLE included.       *)
(***************************************************************************)
THEOREM PartsTypeCorrect == PartsSpec => []PartsTypeOK
<1>1. PartsSpec => []FlatTypeOK /\ []SnapTypeOK /\ []SqzTypeOK /\ []WireTypeOK
  BY PartsAreSpecified, FlatTypeCorrect, SnapTypeCorrect, SqzTypeCorrect, WireTypeCorrect
<1>2. PartsSpec => []FragTypeOK /\ []SchemaTypeOK /\ []MigTypeOK
  BY PartsAreSpecified, FragTypeCorrect, SchemaTypeCorrect, MigTypeCorrect
<1> QED
  BY <1>1, <1>2, PTL DEF PartsTypeOK

=============================================================================
