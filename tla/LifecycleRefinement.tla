-------------------------- MODULE LifecycleRefinement --------------------------
(* The startup operations and the reaper implement the Run contract. *)
EXTENDS SandboxLifecycle

StageOf(row) ==
    IF row.state \in {"release_requested", "failed"} THEN "doomed" ELSE row.state

Contract == INSTANCE RunContract WITH
    MaxRuns <- MaxRuns,
    stage   <- [r \in Runs |-> StageOf(run[r])],
    present <- {r \in Runs : OwnedBy(cluster, r) # {}},
    settled <- settled

\* Whatever the interleaving of startups, reaper, requests, crashes and failed
\* calls, what can be seen of the Runs is a behaviour of the contract.
ImplementsContract == Contract!Spec
=============================================================================
