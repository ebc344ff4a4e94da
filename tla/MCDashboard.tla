---------------------------- MODULE MCDashboard ----------------------------
(* Instances of Dashboard for TLC. *)
EXTENDS Dashboard

CONSTANTS a, b, c

\* A seed product and two that are not there yet get a new price.
AllEdits == {[id |-> i, price |-> 2] : i \in {a, b, c}}
AllPanels == {"products", "cluster", "paging"}
=============================================================================
