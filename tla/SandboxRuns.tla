----------------------------- MODULE SandboxRuns -----------------------------
(***************************************************************************)
(* One row of sandbox_runs and the store transactions that change it:      *)
(* packages/adapters-postgres/src/postgresProductStore.ts, with the same   *)
(* rules as its in-memory twin.  Every transaction is a pair, a guard      *)
(* "CanX" (the conditions under which the code does not return null,       *)
(* "stale" or "conflict") and an effect "X" (the row it then writes).      *)
(* A transaction locks the Task row and the Run row, so a guard and its    *)
(* effect are one atomic step of the modules that use them.                *)
(*                                                                         *)
(* Instants (startupLeaseExpiresAt, startupActionDeadlineAt and the end of *)
(* the two-minute life of cleanupClaimedAt) are kept as the time left      *)
(* until them: Unset for null, 0 once the instant has passed.              *)
(*                                                                         *)
(* An operator called "...Mutant" is a plausible mistake in the operator   *)
(* that follows it; it shows that some property notices that mistake.      *)
(***************************************************************************)
EXTENDS Integers

CONSTANTS
    Claims,         \* startup claim tokens, newId("startup_claim")
    NoClaim,        \* null in startupClaimToken
    MaxToken,       \* bound on fencing tokens
    MaxUid,         \* bound on Kubernetes UIDs
    StartupLease,   \* life of a startup lease, in ticks
    ActionTimeout,  \* time an external action may take, in ticks
    CleanupTtl      \* age at which a cleanup claim may be taken over, in ticks

ASSUME RunConstants ==
    /\ NoClaim \notin Claims
    /\ MaxToken \in Nat \ {0} /\ MaxUid \in Nat
    /\ StartupLease \in Nat \ {0}
    /\ ActionTimeout \in Nat \ {0}
    /\ CleanupTtl \in Nat \ {0}

Unset == -1
NoPod == 0
Uids == 1..MaxUid

RunStates == {"unborn", "starting", "active", "release_requested", "failed", "released"}
Reasons == {"none", "requested", "failed", "cleanup"}

Timer(max) == -1..max
IsSet(t) == t # Unset
Open(t) == t > 0
Passed(t) == t = 0
Ticked(t) == IF t > 0 THEN t - 1 ELSE t

\* "unborn" stands for a row not inserted yet; the other states are the code's.
RunType ==
    [ state    : RunStates,
      token    : 0..MaxToken,          \* fencingToken
      ready    : BOOLEAN,              \* startupReadyAt is not null
      config   : BOOLEAN,              \* startupConfigMapName/Hash are recorded
      pod      : {NoPod} \cup Uids,    \* startupPodUid
      claim    : Claims \cup {NoClaim},
      lease    : Timer(StartupLease),
      deadline : Timer(ActionTimeout),
      cleanup  : Timer(CleanupTtl),    \* cleanupClaimedAt
      reason   : Reasons ]             \* releaseReason

BlankRun ==
    [ state |-> "unborn", token |-> 0, ready |-> FALSE, config |-> FALSE,
      pod |-> NoPod, claim |-> NoClaim, lease |-> Unset, deadline |-> Unset,
      cleanup |-> Unset, reason |-> "none" ]

\* buildLiveSandboxRun: a restart inserts the Run ready, a Task creation does not.
AdmittedRun(isReady) ==
    [BlankRun EXCEPT !.state = "starting", !.token = 1, !.ready = isReady]

Unreleased(r) == r.state \notin {"unborn", "released"}
Startable(r) == r.state \in {"starting", "active"}
HasRoom(r) == r.token < MaxToken

-----------------------------------------------------------------------------
(* The startup operation's transactions: none of them moves the token.     *)

CanMarkReady(r, token) == r.state = "starting" /\ r.token = token
MarkReady(r) == [r EXCEPT !.ready = TRUE]

\* claimSandboxStartup.  Stale: another token or no longer starting.
StartupStale(r, token) == r.state # "starting" \/ r.token # token
StartupInProgress(r, claim) ==
    \/ IsSet(r.deadline)
    \/ r.claim # NoClaim /\ r.claim # claim /\ Open(r.lease)
CanClaimStartup(r, token, claim) ==
    /\ ~StartupStale(r, token)
    /\ r.ready
    /\ ~StartupInProgress(r, claim)
ClaimStartup(r, claim) == [r EXCEPT !.claim = claim, !.lease = StartupLease]

OwnsStartup(r, token, claim) ==
    r.state = "starting" /\ r.token = token /\ r.claim = claim

InitConfig(r) == [r EXCEPT !.config = TRUE]

CanBeginAction(r, token, claim) == OwnsStartup(r, token, claim) /\ ~IsSet(r.deadline)
BeginActionMutant(r) == r                         \* the deadline is not persisted
BeginActionTooLongMutant(r) == [r EXCEPT !.deadline = ActionTimeout + 1]
BeginAction(r) == [r EXCEPT !.deadline = ActionTimeout]

OwnsAction(r, token, claim, left) == OwnsStartup(r, token, claim) /\ r.deadline = left
CompleteAction(r) == [r EXCEPT !.deadline = Unset, !.lease = StartupLease]
RecoverAction(r) == [r EXCEPT !.claim = NoClaim, !.lease = Unset, !.deadline = Unset]

CanRecordPod(r, token, claim, uid) ==
    OwnsStartup(r, token, claim) /\ r.config /\ r.pod \in {NoPod, uid}
RecordPod(r, uid) == [r EXCEPT !.pod = uid]

-----------------------------------------------------------------------------
(* The transactions that change the state or the owner: each moves the     *)
(* token, so that every snapshot taken before it is recognised as stale.   *)

Bump(r) == [r EXCEPT !.token = @ + 1]
EndStartup(r) == [r EXCEPT !.claim = NoClaim, !.lease = Unset, !.deadline = Unset]

\* activateTaskSandboxRun; "inTime" is activatedAt <= the action deadline.
CanActivate(r, token, claim, left, inTime, uid) ==
    OwnsAction(r, token, claim, left) /\ inTime /\ r.config /\ r.pod = uid
ActivateMutant(r) == [EndStartup(r) EXCEPT !.state = "active"] \* the fence stays
Activate(r) == Bump([EndStartup(r) EXCEPT !.state = "active"])

CanFail(r, token) == Startable(r) /\ r.token = token
Fail(r) ==
    Bump([EndStartup(r) EXCEPT !.state = "failed", !.reason = "failed", !.cleanup = Unset])

CanRequestReleaseMutant(r, token) == r.state # "unborn" /\ r.token = token \* released too
CanRequestRelease(r, token) == Unreleased(r) /\ r.token = token
RequestReleaseMutant(r) ==                        \* an open deadline is dropped
    Bump([EndStartup(r) EXCEPT !.state = "release_requested", !.cleanup = Unset,
             !.reason = IF r.state = "failed" THEN "failed" ELSE "requested"])
RequestRelease(r) ==
    LET barrier == IF IsSet(r.deadline) THEN r ELSE EndStartup(r) IN
    Bump([barrier EXCEPT !.state = "release_requested", !.cleanup = Unset,
             !.reason = IF r.reason # "none" THEN r.reason
                        ELSE IF r.state = "failed" THEN "failed" ELSE "requested"])

\* claimForCleanup
CleanupState(r) == r.state \in {"release_requested", "failed"}
DrainEligibleMutant(r) == r.state = "starting" /\ Passed(r.deadline) /\ r.claim = NoClaim
DrainEligible(r) == r.state = "starting" /\ Passed(r.deadline)
CanClaimCleanupMutant(r, token) ==                \* a dead reaper's claim stays
    /\ r.token = token /\ ~Open(r.deadline) /\ ~IsSet(r.cleanup)
    /\ CleanupState(r) \/ DrainEligible(r)
CanClaimCleanup(r, token) ==
    /\ r.token = token
    /\ CleanupState(r) \/ DrainEligible(r)
    /\ Passed(r.deadline) \/ ~Open(r.lease)
    /\ ~Open(r.deadline)
    /\ ~Open(r.cleanup)
ClaimCleanup(r) == Bump([r EXCEPT !.cleanup = CleanupTtl])

\* updateWithFencing as the reaper uses it: the whole row it holds is
\* written back, its claim cleared.
CanUpdateMutant(r, held) == Unreleased(r)         \* written back without the fence
CanUpdate(r, held) == r.token = held.token
ClearCleanup(held) == Bump([held EXCEPT !.cleanup = Unset])

CanDrain(r, held) ==
    /\ held.claim # NoClaim /\ IsSet(held.deadline)
    /\ OwnsAction(r, held.token, held.claim, held.deadline)
    /\ Passed(r.deadline) /\ IsSet(r.cleanup)

\* completeSandboxRunRelease
CanCompleteRelease(r, held) ==
    /\ Unreleased(r) /\ ~Open(r.deadline) /\ r.token = held.token
CompleteRelease(held) ==
    Bump([EndStartup(held) EXCEPT !.state = "released", !.cleanup = Unset,
             !.reason = IF held.reason # "none" THEN held.reason
                        ELSE IF held.state = "failed" THEN "failed" ELSE "cleanup"])
=============================================================================
