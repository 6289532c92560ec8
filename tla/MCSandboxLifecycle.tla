--------------------------- MODULE MCSandboxLifecycle ---------------------------
(* Instances of SandboxLifecycle for TLC; the .cfg files give the bounds.      *)
(* Startup claims are numbers, so that the CHOOSE of a fresh one picks the     *)
(* same claim wherever the same ones are in use: equal states stay equal       *)
(* whatever happened before them.                                              *)
EXTENDS LifecycleRefinement

\* One per place that can keep a claim (a row, a startup operation, the row the
\* reaper holds), and a fresh one.
OneProcessClaims == 1..3
TwoProcessClaims == 1..4
NoClaimYet == 0

\* The Pod and one kind of object it depends on.  Secret, Service and
\* NetworkPolicy differ from the ConfigMap only in name and order.
PodAndConfig == {"Pod", "ConfigMap"}

\* A second process starts Runs beside the one that reaps.  While it does, the
\* instance is kept narrow: a short fence, one creation or one disturbance, and
\* nothing that a slow deletion, a Pod's end or a given up request left behind.
\* What one process does alone is not narrowed.
AlonePart == \A p \in Procs \ Reapers, r \in Runs : op[p][r] = IdleOp
NarrowPart ==
    /\ \A r \in Runs : run[r].token <= 3
    /\ nextUid = 1 \/ (nextUid = 2 /\ faults = 0)
    /\ lost = {} /\ \A k \in Kinds : cluster[k].status # "failed" /\ ~cluster[k].terminating
    /\ \A e \in inflight : \E p \in Procs : op[p][e.run].pc = "sent"
OverlapBound == AlonePart \/ NarrowPart

\* A second Run is followed until it is claimed for its cleanup, after a
\* disturbance until it ends: what the first left behind has met it by then.
SuccessionBound == \A r \in Runs \ {1} : run[r].token + faults <= 2
=============================================================================
