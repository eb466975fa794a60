------------------------------- MODULE Mirror --------------------------------
(***************************************************************************)
(* What change capture promises the readers of the replica: a table there  *)
(* is at every moment what the table in Firebird is or once was, as a      *)
(* whole, and only ever moves on to a later state.  README.md:60 gives the *)
(* reason ("Deltas are applied to PostgreSQL in a single transaction").    *)
(* The loop in cdc.rs is CdcWatch, which implements this specification.    *)
(* Nothing is promised between two tables.                                 *)
(***************************************************************************)
CONSTANTS Tables, Contents

VARIABLES
  source,      \* the rows of each table in Firebird
  shown        \* the rows of each table in the replica

vars == <<source, shown>>

Init == source \in [Tables -> Contents] /\ shown = source

\* Firebird commits changes.
Change == source' \in [Tables -> Contents] /\ UNCHANGED shown

\* One delta: the readers see t as it is now.
Refresh(t) == shown' = [shown EXCEPT ![t] = source[t]] /\ UNCHANGED source

Next == Change \/ \E t \in Tables : Refresh(t)

Spec == Init /\ [][Next]_vars

=============================================================================
