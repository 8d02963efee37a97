---------------------------- MODULE EffectJournal ----------------------------
(***************************************************************************)
(* What the Tool effect journal promises about one idempotency key, whoever *)
(* writes it: the record is opened once, every write advances its version   *)
(* by one, a failed or compensated effect is final, and a committed one     *)
(* keeps its result until an undo is claimed.                               *)
(***************************************************************************)
EXTENDS Naturals

VARIABLES status, version, result

Init == status = "none" /\ version = 0 /\ result = "none"

Write(from, to) == status \in from /\ status' \in to /\ version' = version + 1

Open == Write({"none"}, {"executing"}) /\ result' = "none"

\* The attempt records evidence, settles, or becomes uncertain.
Attempt ==
  \/ Write({"executing"}, {"executing", "failed", "needs_reconciliation"})
  \/ Write({"executing"}, {"committed"}) /\ result' # "none"

Uncertain == Write({"needs_reconciliation"}, {"needs_reconciliation"}) /\ UNCHANGED result

\* A callback is claimed for an uncertain effect, or to undo a committed one.
Claim == Write({"needs_reconciliation", "committed"}, {"reconciling"}) /\ UNCHANGED result

\* The operator decides, or the claimed callback ended.
Reconcile ==
  \/ /\ Write({"needs_reconciliation", "reconciling"}, {"needs_reconciliation", "reconciling"})
     /\ UNCHANGED result
  \/ Write({"needs_reconciliation", "reconciling"}, {"committed"}) /\ result' # "none"
  \/ Write({"needs_reconciliation", "reconciling"}, {"failed", "compensated"}) /\ result' = "none"

Next == Open \/ Attempt \/ Uncertain \/ Claim \/ Reconcile

Spec == Init /\ [][Next]_<<status, version, result>>
==============================================================================
