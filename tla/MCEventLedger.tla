---------------------------- MODULE MCEventLedger ----------------------------
(* EventLedger for two agents and four events. *)
EXTENDS EventLedger, TLC

CONSTANTS lock, child, audit, start

\* child and start name the tip they were prepared at; the id of the audit event
\* ends with that of the child event, after a dash.
MCNeeds == (lock :> {}) @@ (child :> {lock}) @@ (audit :> {lock}) @@ (start :> {child})
MCTipBound == {child, start}
MCEndsWith == {<<e, e>> : e \in Events} \cup {<<audit, child>>}
=============================================================================
