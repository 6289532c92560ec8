------------------------------ MODULE RunContract ------------------------------
(***************************************************************************)
(* What the Sandbox Runs of one Task promise, without fences, claims,      *)
(* leases, deadlines, processes or Kubernetes calls.  A Run is given to a  *)
(* Task that has none, becomes active or is given up, is released once it  *)
(* has no object left in Kubernetes, and is settled in that step.  Nothing *)
(* of a released Run comes back.                                           *)
(***************************************************************************)
EXTENDS Integers

CONSTANTS MaxRuns

Runs == 1..MaxRuns

VARIABLES
    stage,      \* what the Task's user may know of each Run
    present,    \* the Runs that own an object in Kubernetes
    settled     \* how often each Run was settled

vars == <<stage, present, settled>>

Stages == {"unborn", "starting", "active", "doomed", "released"}

TypeOK ==
    /\ stage \in [Runs -> Stages]
    /\ present \subseteq Runs
    /\ settled \in [Runs -> Nat]

Init ==
    /\ stage = [r \in Runs |-> "unborn"]
    /\ present = {}
    /\ settled = [r \in Runs |-> 0]

Becomes(r, next) == stage' = [stage EXCEPT ![r] = next]

Admit(r) ==
    /\ stage[r] = "unborn"
    /\ \A s \in Runs : s < r => stage[s] = "released"
    /\ Becomes(r, "starting")
    /\ UNCHANGED <<present, settled>>

\* Only a Run that has its objects becomes active.
Activate(r) ==
    /\ stage[r] = "starting" /\ r \in present
    /\ Becomes(r, "active")
    /\ UNCHANGED <<present, settled>>

Doom(r) ==
    /\ stage[r] \in {"starting", "active"}
    /\ Becomes(r, "doomed")
    /\ UNCHANGED <<present, settled>>

\* A startup that got stuck is released without having been doomed first.
Release(r) ==
    /\ stage[r] \in {"starting", "doomed"} /\ r \notin present
    /\ Becomes(r, "released")
    /\ settled' = [settled EXCEPT ![r] = @ + 1]
    /\ UNCHANGED present

\* The first object appears, also while a doomed Run's last request is served.
Appear(r) ==
    /\ stage[r] \in {"starting", "doomed"} /\ r \notin present
    /\ present' = present \cup {r}
    /\ UNCHANGED <<stage, settled>>

Vanish(r) ==
    /\ r \in present /\ stage[r] \in {"starting", "doomed"}
    /\ present' = present \ {r}
    /\ UNCHANGED <<stage, settled>>

Next ==
    \E r \in Runs :
        Admit(r) \/ Activate(r) \/ Doom(r) \/ Release(r) \/ Appear(r) \/ Vanish(r)

Spec == Init /\ [][Next]_vars

\* At most one Run of the Task is alive.
OneAlive ==
    \A r, s \in Runs :
        stage[r] \notin {"unborn", "released"} /\ stage[s] \notin {"unborn", "released"} => r = s

\* What is in Kubernetes belongs to the Run that is alive.
NothingComesBack == \A r \in present : stage[r] \notin {"unborn", "released"}

SettledExactlyOnce ==
    \A r \in Runs : settled[r] = IF stage[r] = "released" THEN 1 ELSE 0
=============================================================================
