------------------------------ MODULE Replica -------------------------------
(***************************************************************************)
(* What push replication promises the readers of a replicated table: after *)
(* the first load there is always a table, each of its rows is in a state  *)
(* that the source has had, no row goes back to an earlier state, and what *)
(* was confirmed to the agent stays.  README.md and deploy/DEPLOY.md say   *)
(* so ("the target table is never observed empty"); the gateway's code     *)
(* (bin/ingest.rs) is in Ingest, which implements this specification.      *)
(*                                                                         *)
(* The state of a row is known by its version: a number that grows with    *)
(* every insert, update and delete of the row.                             *)
(***************************************************************************)
EXTENDS Integers

CONSTANTS Keys, None

VARIABLES
  source,      \* version of each row in Firebird
  shown,       \* version of each row in the replica, or None: no table yet
  confirmed    \* version of each row the agent was told is in the replica

vars == <<source, shown, confirmed>>

Versions == [Keys -> Nat]

Init ==
  /\ source \in Versions
  /\ shown = None
  /\ confirmed = [k \in Keys |-> 0]

\* Firebird commits changes.
Change ==
  /\ source' \in Versions
  /\ \A k \in Keys : source'[k] >= source[k]
  /\ UNCHANGED <<shown, confirmed>>

\* In one step the readers see a dump or a delta, as a whole.
Publish ==
  /\ shown' \in Versions
  /\ \A k \in Keys : shown'[k] \in 1..source[k]
  /\ shown # None => \A k \in Keys : shown'[k] >= shown[k]
  /\ UNCHANGED <<source, confirmed>>

\* The agent learns that something is in the replica.
Confirm ==
  /\ shown # None
  /\ confirmed' \in Versions
  /\ \A k \in Keys : confirmed'[k] \in confirmed[k]..shown[k]
  /\ UNCHANGED <<source, shown>>

Next == Change \/ Publish \/ Confirm

Spec == Init /\ [][Next]_vars

=============================================================================
