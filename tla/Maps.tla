--------------------------------- MODULE Maps ---------------------------------
(***************************************************************************)
(* The hash maps of the source, as functions.  (TLC's :> and @@ say the    *)
(* same, but the proof system cannot expand them.)                         *)
(***************************************************************************)

\* m with value v at key x, whatever was there before.
Put(m, x, v) == [y \in DOMAIN m \cup {x} |-> IF y = x THEN v ELSE m[y]]

\* The keys of both; the first one counts where they overlap.
Overlay(m, n) == [y \in DOMAIN m \cup DOMAIN n |-> IF y \in DOMAIN m THEN m[y] ELSE n[y]]

=============================================================================
