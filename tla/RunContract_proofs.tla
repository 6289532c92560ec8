--------------------------- MODULE RunContract_proofs ---------------------------
(***************************************************************************)
(* The Run contract keeps what it promises, for any number of Runs.  The   *)
(* three promises hold together: that at most one Run is alive rests on a  *)
(* Run's predecessors being released, which is Successive.                 *)
(***************************************************************************)
EXTENDS RunContract, TLAPS

\* A Run that was ever admitted has no predecessor that is alive.
Successive ==
    \A r, s \in Runs : s < r /\ stage[r] # "unborn" => stage[s] = "released"

Promises == TypeOK /\ Successive /\ NothingComesBack /\ SettledExactlyOnce

\* The promises hold before the first Run is admitted.
LEMMA PromisesInit == Init => Promises
  BY SMT DEF Init, Promises, TypeOK, Stages, Successive, NothingComesBack, SettledExactlyOnce

\* Every step of the contract keeps them: only a Run without objects is
\* released, in the step that settles it, and only then is another admitted.
LEMMA PromisesStep == Promises /\ [Next]_vars => Promises'
<1> SUFFICES ASSUME Promises, [Next]_vars PROVE Promises'
  OBVIOUS
<1> USE DEF Promises, TypeOK, Stages, Successive, NothingComesBack, SettledExactlyOnce
<1>0. \A r, s \in Runs : r \in Int /\ s \in Int /\ (r = s \/ r < s \/ s < r)
  BY SMT DEF Runs
<1>1. ASSUME NEW r \in Runs, Admit(r) PROVE Promises'
  BY <1>0, <1>1, SMT DEF Admit, Becomes
<1>2. ASSUME NEW r \in Runs, Activate(r) PROVE Promises'
  BY <1>0, <1>2, SMT DEF Activate, Becomes
<1>3. ASSUME NEW r \in Runs, Doom(r) PROVE Promises'
  BY <1>0, <1>3, SMT DEF Doom, Becomes
<1>4. ASSUME NEW r \in Runs, Release(r) PROVE Promises'
  BY <1>0, <1>4, SMT DEF Release, Becomes
<1>5. ASSUME NEW r \in Runs, Appear(r) PROVE Promises'
  BY <1>0, <1>5, SMT DEF Appear
<1>6. ASSUME NEW r \in Runs, Vanish(r) PROVE Promises'
  BY <1>0, <1>6, SMT DEF Vanish
<1>7. CASE UNCHANGED vars
  BY <1>7, SMT DEF vars
<1> QED
  BY <1>1, <1>2, <1>3, <1>4, <1>5, <1>6, <1>7 DEF Next

\* Of two different Runs the later one waited until the earlier was released.
LEMMA SuccessiveOneAlive == Promises => OneAlive
<1> SUFFICES ASSUME Promises PROVE OneAlive
  OBVIOUS
<1>1. \A r, s \in Runs : r = s \/ r < s \/ s < r
  BY SMT DEF Runs
<1> QED
  BY <1>1 DEF Promises, Successive, OneAlive

\* Whoever implements the contract has at most one Run alive, keeps nothing of
\* a released Run in Kubernetes and settles every Run exactly once.
THEOREM ContractKeepsPromises == Spec => [](OneAlive /\ NothingComesBack /\ SettledExactlyOnce)
<1>1. Promises => OneAlive /\ NothingComesBack /\ SettledExactlyOnce
  BY SuccessiveOneAlive DEF Promises
<1> QED
  BY PromisesInit, PromisesStep, <1>1, PTL DEF Spec
=============================================================================
