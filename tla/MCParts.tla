------------------------------- MODULE MCParts --------------------------------
(***************************************************************************)
(* Instances for TLC of the parts that have no state in common: key        *)
(* arrays, snapshot file, decompressor, wire, fragments, altered tables,   *)
(* migration.  A behaviour is one of the part named by `part`, while the   *)
(* others rest where they start.                                           *)
(***************************************************************************)
EXTENDS FlatPk, SnapFile, Sqz, Wire, Fragments, SchemaSync, Migrate

CONSTANT Parts       \* the parts that are run

VARIABLE part

partsVars == <<part, flatVars, snapVars, sqzVars, wireVars, fragVars, schemaVars, migVars>>

ThreeTables == <<"A", "B", "C">>

FlatRest == flat = [j \in {} |-> 0] /\ stride = Min(Strides) /\ sought = Min(PkValues)
SnapRest == keyLength = [t \in SnapTables |-> 0] /\ name = CHOOSE t \in SnapTables : TRUE
SqzRest  == segs = <<>>
WireRest == request = [op |-> 1, version |-> 1, ups |-> <<>>, dels |-> <<>>, ends |-> <<2>>] /\ rest = <<>>

PartsInit ==
  /\ part \in Parts
  /\ (part = "keys" \/ FlatRest) /\ FlatInit
  /\ (part = "snapshots" \/ SnapRest) /\ SnapInit
  /\ (part = "records" \/ SqzRest) /\ SqzInit
  /\ (part = "wire" \/ WireRest) /\ WireInit
  /\ FragInit
  /\ SchemaInit
  /\ MigInit

PartsNext ==
  /\ UNCHANGED part
  /\ \/ part = "keys" /\ FlatNext
        /\ UNCHANGED <<snapVars, sqzVars, wireVars, fragVars, schemaVars, migVars>>
     \/ part = "snapshots" /\ SnapNext
        /\ UNCHANGED <<flatVars, sqzVars, wireVars, fragVars, schemaVars, migVars>>
     \/ part = "records" /\ SqzNext
        /\ UNCHANGED <<flatVars, snapVars, wireVars, fragVars, schemaVars, migVars>>
     \/ part = "wire" /\ WireNext
        /\ UNCHANGED <<flatVars, snapVars, sqzVars, fragVars, schemaVars, migVars>>
     \/ part = "fragments" /\ FragNext
        /\ UNCHANGED <<flatVars, snapVars, sqzVars, wireVars, schemaVars, migVars>>
     \/ part = "schema" /\ SchemaNext
        /\ UNCHANGED <<flatVars, snapVars, sqzVars, wireVars, fragVars, migVars>>
     \/ part = "migration" /\ MigNext
        /\ UNCHANGED <<flatVars, snapVars, sqzVars, wireVars, fragVars, schemaVars>>

(***************************************************************************)
(* Every part keeps the types of its state.                                *)
(***************************************************************************)
PartsTypeOK ==
  FlatTypeOK /\ SnapTypeOK /\ SqzTypeOK /\ WireTypeOK /\ FragTypeOK /\ SchemaTypeOK /\ MigTypeOK

PartsSpec == PartsInit /\ [][PartsNext]_partsVars

=============================================================================
