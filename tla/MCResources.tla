------------------------------ MODULE MCResources ------------------------------
(* One instance each of FileLibraryDeletion, ProviderUsage and TaskCommands    *)
(* for TLC.  They share no variable: a behaviour is one of one of them, chosen *)
(* in its first state, while the others stay in one initial state of theirs.   *)
(* What is checked of one is so checked as in a run of its own.  The fairness  *)
(* is that of the deletion: the other two state safety properties only.        *)
EXTENDS FileLibraryDeletion, ProviderUsage, TaskCommands

CONSTANTS k1, k2, t1, t2, p1, p2

VARIABLE part   \* the module whose behaviour this is

\* Two Projects of one Task each, which share the namespace; one Task is to be
\* created, the other has been used before.
OwnProjects == {[t \in Tasks |-> IF t = t1 THEN p1 ELSE p2]}
OnePost == {<<t2, k1>>}
TwoStarts == {<<t2, k1>>, <<t2, k2>>}
TwoCommands == {[posts |-> OnePost, starts |-> {<<t2, k1>>}], [posts |-> {}, starts |-> TwoStarts]}

resourceVars == <<part, deletionVars, providerVars, commandVars>>

ResourcesInit ==
    /\ part \in {"deletion", "provider", "commands"}
    /\ DeletionInit /\ (part # "deletion" => library.row = "never")
    /\ ProviderInit
    /\ CommandsInit
    /\ part # "commands" => \A p \in Projects, n \in SandboxLimits : 
         sandboxLimit[p] <= n /\ offered.posts = {}

ResourcesNext ==
    \/ /\ part = "deletion" /\ DeletionNext
       /\ UNCHANGED <<part, providerVars, commandVars>>
    \/ /\ part = "provider" /\ ProviderNext
       /\ UNCHANGED <<part, deletionVars, commandVars>>
    \/ /\ part = "commands" /\ CommandsNext
       /\ UNCHANGED <<part, deletionVars, providerVars>>

ResourcesSpec == ResourcesInit /\ [][ResourcesNext]_resourceVars /\ DeletionFairness
=============================================================================
