--------------------------- MODULE SandboxLifecycle ---------------------------
(***************************************************************************)
(* The life of the Sandbox Runs of one Task: the startup operations and    *)
(* the reaper of the API processes, the store they share, the Kubernetes   *)
(* objects of the Task and the requests still on their way to Kubernetes.  *)
(*   store       run, current, settled      (SandboxRuns: transactions)    *)
(*   Kubernetes  cluster, inflight, nextUid, lost                          *)
(*   process p   op[p][r]   startLiveSandbox of Run r, with its locals     *)
(*               reap[p]    the runtime loop, with its locals: a failed    *)
(*                          preparation, or one reapSandboxRunsOnce call   *)
(* A process that crashes loses op and reap; nothing else is lost.         *)
(***************************************************************************)
EXTENDS SandboxRuns, FiniteSets

CONSTANTS
    Procs,          \* API processes
    Reapers,        \* those whose runtime loop runs
    MaxRuns,        \* Runs the Task may be given, one after the other
    Kinds,          \* kinds of owned objects: "Pod" and the kinds it needs
    FaultKinds,     \* the disturbances that may happen ...
    MaxFaults,      \* ... and how many of them
    SlowDelete      \* a deleted object may linger with a deletionTimestamp

ASSUME LifecycleConstants ==
    /\ Reapers \subseteq Procs
    /\ MaxRuns \in Nat \ {0} /\ MaxFaults \in Nat
    /\ {"Pod", "ConfigMap"} \subseteq Kinds
    /\ FaultKinds \subseteq
          {"crash",       \* a process stops
           "call",        \* a call to Kubernetes, Botified or the store fails
           "unowned",     \* so does a startup's claim, or a Task's preparation
           "lost_answer", \* a POST fails at its caller and may be served later
           "pod",         \* a Pod fails or is lost
           "repeat"}      \* a request is repeated while the first is in progress
    /\ SlowDelete \in BOOLEAN

Runs == 1..MaxRuns
NoRun == 0

VARIABLES run, current, settled, cluster, inflight, nextUid, lost, op, reap, faults

store == <<run, current, settled>>
kube  == <<cluster, inflight, nextUid, lost>>
vars  == <<run, current, settled, cluster, inflight, nextUid, lost, op, reap, faults>>

-----------------------------------------------------------------------------
(* Kubernetes: the Runs of a Task share object names, so there is at most  *)
(* one object per kind; labels say which Run it belongs to.                *)

ObjType == [run : Runs, uid : Uids, status : {"pending", "ready", "failed"},
            terminating : BOOLEAN]
NoObj == [run |-> NoRun, uid |-> 0, status |-> "none", terminating |-> FALSE]
Present(k) == cluster[k] # NoObj
OwnedBy(view, r) == {k \in Kinds : view[k].run = r}

CreateType == [run : Runs, kind : Kinds, left : 1..ActionTimeout]

\* CREATE_ORDER: the Pod comes last.
NextToCreate(todo) == IF todo = {"Pod"} THEN todo ELSE todo \ {"Pod"}

-----------------------------------------------------------------------------
(* The locals of a process.                                                *)

OpLabels ==
    {"idle", "claim", "prepare", "config", "observe", "begin", "act", "sent", "unknown",
     "recover", "complete", "identify", "record", "activate", "fail", "failing"}
OpType ==
    [ pc     : OpLabels,
      phase  : {"apply", "ready", "open"}, \* the external action under way
      tok    : 0..MaxToken,                \* run.fencingToken as last read
      claim  : Claims \cup {NoClaim},      \* startupClaimToken
      pod    : {NoPod} \cup Uids,          \* the Pod UID last observed
      left   : Timer(ActionTimeout),       \* actionDeadlineAt
      todo   : SUBSET Kinds,               \* objects still to apply
      inTime : BOOLEAN ]                   \* the sampled instant is before the deadline

IdleOp == [ pc |-> "idle", phase |-> "apply", tok |-> 0, claim |-> NoClaim, pod |-> NoPod,
            left |-> Unset, todo |-> {}, inTime |-> FALSE ]

ReapLabels ==
    {"idle", "doubt", "observe", "plan", "reload", "claim", "delete", "inspect", "drain",
     "clear", "inventory", "complete", "unclaim"}
ReapType ==
    [ pc      : ReapLabels,           \* "doubt": a preparation failed
      held    : RunType,              \* the row as last read, or as claimed
      target  : Runs \cup {NoRun},    \* the Run of that row
      drain   : Runs \cup {NoRun},    \* startupDrainRunIds
      view    : [Kinds -> ObjType \cup {NoObj}], \* what was read of Kubernetes
      todo    : SUBSET Kinds,         \* reads or deletions still to issue
      broken  : SUBSET Kinds ]        \* deletions that failed

IdleReap == [ pc |-> "idle", held |-> BlankRun, target |-> NoRun, drain |-> NoRun,
              view |-> [k \in Kinds |-> NoObj], todo |-> {}, broken |-> {} ]

LocalOp(p, r) == op[p][r].pc # "idle"   \* hasLocalStartupOperation

\* newId("startup_claim"): a token that means nothing to anyone yet.
IsFresh(c) ==
    /\ c \in Claims
    /\ \A r \in Runs : c # run[r].claim
    /\ \A p \in Procs : c # reap[p].held.claim /\ \A r \in Runs : c # op[p][r].claim
FreshClaim == CHOOSE c \in Claims : IsFresh(c)

Init ==
    /\ run = [r \in Runs |-> BlankRun]
    /\ current = NoRun
    /\ settled = [r \in Runs |-> 0]
    /\ cluster = [k \in Kinds |-> NoObj]
    /\ inflight = {}
    /\ nextUid = 1
    /\ lost = {}
    /\ op = [p \in Procs |-> [r \in Runs |-> IdleOp]]
    /\ reap = [p \in Procs |-> IdleReap]
    /\ faults = 0

Fault(kind) == kind \in FaultKinds /\ faults < MaxFaults /\ faults' = faults + 1
SetRun(r, row) == run' = [run EXCEPT ![r] = row]
SetOp(p, r, o) == op' = [op EXCEPT ![p][r] = o]
OpGoto(p, r, label) == SetOp(p, r, [op[p][r] EXCEPT !.pc = label])
OpEnd(p, r) == SetOp(p, r, IdleOp)
SetReap(p, q) == reap' = [reap EXCEPT ![p] = q]
ReapGoto(p, label) == SetReap(p, [reap[p] EXCEPT !.pc = label])
ReapEnd(p) == SetReap(p, IdleReap)

-----------------------------------------------------------------------------
(* Admission, preparation and the user's requests.                         *)

\* A Run is admitted for a Task with no Run or whose current Run is released.
AdmitMutant(isReady) ==                           \* a failed Run makes way
    /\ current < MaxRuns
    /\ current # NoRun => run[current].state \in {"released", "failed"}
    /\ current' = current + 1
    /\ SetRun(current + 1, AdmittedRun(isReady))
    /\ UNCHANGED <<settled, kube, op, reap, faults>>
Admit(isReady) ==
    /\ current < MaxRuns
    /\ current # NoRun => run[current].state = "released"
    /\ current' = current + 1
    /\ SetRun(current + 1, AdmittedRun(isReady))
    /\ UNCHANGED <<settled, kube, op, reap, faults>>

\* The workspace of a created Task is promoted; only then may startup claim.
Prepared(r) ==
    /\ ~run[r].ready
    /\ CanMarkReady(run[r], run[r].token)
    /\ SetRun(r, MarkReady(run[r]))
    /\ UNCHANGED <<current, settled, kube, op, reap, faults>>

\* persistRuntimeIdentityFailure: the runtime of an active Run has become
\* another's.  Active under one token is active: the row needs one look only.
RunFails(r) ==
    /\ run[r].state = "active" /\ HasRoom(run[r])
    /\ Fault("call")
    /\ SetRun(r, Fail(run[r]))
    /\ UNCHANGED <<current, settled, kube, op, reap>>

\* A repeated request moves the fence again: those are budgeted.
RequestTaskSandboxRelease(r) ==
    /\ r = current
    /\ CanRequestRelease(run[r], run[r].token) /\ HasRoom(run[r])
    /\ IF run[r].state = "release_requested" THEN Fault("repeat") ELSE UNCHANGED faults
    /\ SetRun(r, RequestRelease(run[r]))
    /\ UNCHANGED <<current, settled, kube, op, reap>>

-----------------------------------------------------------------------------
(* The startup operation of Run r in process p.                            *)

\* beginSandboxStartupOperation: at most one per Run and process.  One begun
\* behind the deadline of another is budgeted: it ends at its claim, but while
\* it lives the reaper of its process gives a claim for the drain back.
OpStart(p, r) ==
    /\ ~LocalOp(p, r)
    /\ r = current /\ run[r].state = "starting"
    /\ IF IsSet(run[r].deadline) THEN Fault("repeat") ELSE UNCHANGED faults
    /\ SetOp(p, r, [IdleOp EXCEPT !.pc = "claim", !.tok = run[r].token])
    /\ UNCHANGED <<store, kube, reap>>

\* A claim that is refused ends the operation.  One that fails leads, like any
\* other error, to OpFail, although this operation owns nothing of the Run.
OpClaim(p, r) ==
    LET o == op[p][r]
        claim == FreshClaim IN
    /\ o.pc = "claim"
    /\ \/ /\ CanClaimStartup(run[r], o.tok, claim) /\ IsFresh(claim)
          /\ SetRun(r, ClaimStartup(run[r], claim))
          /\ SetOp(p, r, [o EXCEPT !.pc = "prepare", !.claim = claim])
          /\ UNCHANGED faults
       \/ /\ StartupStale(run[r], o.tok)
          /\ OpGoto(p, r, "fail")
          /\ UNCHANGED <<run, faults>>
       \/ /\ ~StartupStale(run[r], o.tok) /\ ~CanClaimStartup(run[r], o.tok, claim)
          /\ OpEnd(p, r)
          /\ UNCHANGED <<run, faults>>
       \/ Fault("unowned") /\ OpGoto(p, r, "fail") /\ UNCHANGED run
    /\ UNCHANGED <<current, settled, kube, reap>>

\* Endpoint, keys and directories, then the row is read again: the token it
\* carries now is the one the operation goes on with.
OpPrepare(p, r) ==
    LET o == op[p][r] IN
    /\ o.pc = "prepare"
    /\ \/ /\ run[r].state = "starting"
          /\ SetOp(p, r, [o EXCEPT !.pc = "config", !.tok = run[r].token])
       \/ /\ run[r].state # "starting"
          /\ OpGoto(p, r, "fail")
    /\ UNCHANGED <<store, kube, reap, faults>>

\* initializeTaskSandboxStartupConfig
OpConfig(p, r) ==
    LET o == op[p][r] IN
    /\ o.pc = "config"
    /\ \/ /\ OwnsStartup(run[r], o.tok, o.claim)
          /\ SetRun(r, InitConfig(run[r]))
          /\ SetOp(p, r, [o EXCEPT !.pc = "observe", !.pod = run[r].pod])
       \/ /\ ~OwnsStartup(run[r], o.tok, o.claim)
          /\ OpGoto(p, r, "fail")
          /\ UNCHANGED run
    /\ UNCHANGED <<current, settled, kube, reap, faults>>

\* observeSandboxStartupIdentity: null while an object is missing, an error
\* when one is another Run's, the Pod was replaced or the Pod has failed.
Identity(r, uid) ==
    LET pod == cluster["Pod"]
        config == cluster["ConfigMap"] IN
    CASE pod = NoObj -> "missing"
      [] pod # NoObj /\ (pod.run # r \/ uid \notin {NoPod, pod.uid} \/ pod.status = "failed") -> "error"
      [] OTHER -> IF config = NoObj THEN "missing" ELSE IF config.run # r THEN "error" ELSE "known"

\* The same read with requireReady.
ReadyPod(r, uid) == cluster["Pod"].run = r /\ cluster["Pod"].uid = uid /\ cluster["Pod"].status = "ready"
ReadyIdentity(r, uid) == Identity(r, uid) = "known" /\ ReadyPod(r, uid)

\* A recorded Pod must be there.  Otherwise the inventory is reconciled and
\* what is missing is applied, unless the Pod has failed (then nothing is).
OpObserve(p, r) ==
    LET o == op[p][r]
        seen == Identity(r, o.pod)
        missing == Kinds \ OwnedBy(cluster, r) IN
    /\ o.pc = "observe"
    /\ \/ /\ seen = "error" \/ (o.pod # NoPod /\ seen = "missing")
          /\ OpGoto(p, r, "fail")
       \/ /\ o.pod # NoPod /\ seen = "known"
          /\ SetOp(p, r, [o EXCEPT !.pc = "begin", !.phase = "ready"])
       \/ /\ o.pod = NoPod /\ seen # "error" /\ missing # {}
          /\ SetOp(p, r, [o EXCEPT !.pc = "begin", !.phase = "apply", !.todo = missing])
       \/ /\ o.pod = NoPod /\ seen # "error" /\ missing = {}
          /\ OpGoto(p, r, "identify")
    /\ UNCHANGED <<store, kube, reap, faults>>

\* beginSandboxStartupExternalAction: the deadline is persisted first.
OpBegin(p, r) ==
    LET o == op[p][r] IN
    /\ o.pc = "begin"
    /\ \/ /\ CanBeginAction(run[r], o.tok, o.claim)
          /\ SetRun(r, BeginAction(run[r]))
          /\ SetOp(p, r, [o EXCEPT !.pc = "act", !.left = ActionTimeout])
       \/ /\ ~CanBeginAction(run[r], o.tok, o.claim)
          /\ OpGoto(p, r, "fail")
          /\ UNCHANGED run
    /\ UNCHANGED <<current, settled, kube, reap, faults>>

\* applyResource: GET, then PATCH what carries the Run's labels, refuse what
\* does not, POST what is absent.  PATCH changes nothing that matters here.
OpApply(p, r) ==
    LET o == op[p][r] IN
    /\ o.pc = "act" /\ o.phase = "apply" /\ o.todo # {} /\ Open(o.left)
    /\ \E k \in NextToCreate(o.todo) :
        \/ /\ cluster[k].run = r
           /\ SetOp(p, r, [o EXCEPT !.todo = @ \ {k}])
           /\ UNCHANGED inflight
        \/ /\ Present(k) /\ cluster[k].run # r
           /\ OpGoto(p, r, "fail")
           /\ UNCHANGED inflight
        \/ /\ ~Present(k)
           /\ inflight' = inflight \cup {[run |-> r, kind |-> k, left |-> o.left]}
           /\ OpGoto(p, r, "sent")
    /\ UNCHANGED <<store, cluster, nextUid, lost, reap, faults>>

\* Kubernetes serves a POST: the object is created, or the name is taken
\* (409).  An operation that still waits for the answer gets it.
Waiting(p, e) ==
    LET o == op[p][e.run] IN o.pc = "sent" /\ e.kind \in NextToCreate(o.todo) /\ o.left = e.left
Land(e) ==
    /\ e \in inflight
    /\ inflight' = inflight \ {e}
    /\ \/ /\ ~Present(e.kind) /\ nextUid <= MaxUid
          /\ cluster' = [cluster EXCEPT ![e.kind] =
                [run |-> e.run, uid |-> nextUid, status |-> "pending", terminating |-> FALSE]]
          /\ nextUid' = nextUid + 1
          /\ op' = [p \in Procs |-> IF Waiting(p, e)
                        THEN [op[p] EXCEPT ![e.run].pc = "act", ![e.run].todo = @ \ {e.kind}]
                        ELSE op[p]]
       \/ /\ Present(e.kind)
          /\ UNCHANGED <<cluster, nextUid>>
          /\ op' = [p \in Procs |-> IF Waiting(p, e)
                        THEN [op[p] EXCEPT ![e.run].pc = "fail"] ELSE op[p]]
    /\ UNCHANGED <<store, lost, reap, faults>>

\* The action succeeds: every object applied, the recorded Pod ready, or
\* Botified answering and the identity, read again, still ready.
ActionDone(r, o) ==
    \/ o.phase = "apply" /\ o.todo = {}
    \/ o.phase = "ready" /\ ReadyPod(r, o.pod)
    \/ o.phase = "open" /\ ReadyIdentity(r, o.pod)
OpActionDone(p, r) ==
    LET o == op[p][r] IN
    /\ o.pc = "act" /\ ActionDone(r, o) /\ ~Passed(o.left)
    /\ SetOp(p, r, [o EXCEPT !.pc = IF o.phase = "open" THEN "record" ELSE "complete",
                             !.inTime = TRUE])
    /\ UNCHANGED <<store, kube, reap, faults>>

\* An answer that settles it: the Pod failed, was replaced or never became
\* ready in time; or the user's Release aborted the operation.
OpActionFails(p, r) ==
    LET o == op[p][r] IN
    /\ o.pc \in {"act", "sent"}
    /\ \/ o.pc = "act" /\ o.phase # "apply"
       \/ run[r].state \in {"release_requested", "released"}
    /\ OpGoto(p, r, "fail")
    /\ UNCHANGED <<store, kube, reap, faults>>

\* No answer: the deadline passed, or the connection failed, with or without
\* a POST on its way (readiness polls survive a failed connection).
OpActionUnknown(p, r) ==
    LET o == op[p][r] IN
    /\ \/ o.pc \in {"act", "sent"} /\ Passed(o.left) /\ UNCHANGED faults
       \/ o.pc = "act" /\ o.phase # "ready" /\ ~Passed(o.left) /\ Fault("call")
       \/ o.pc = "sent" /\ ~Passed(o.left) /\ Fault("lost_answer")
    /\ OpGoto(p, r, "unknown")
    /\ UNCHANGED <<store, kube, reap>>

\* reconcileUnknown reads Kubernetes again: nothing is left to create, or the
\* Pod has an IP (it may have one before it is ready).  Then the action is
\* completed after all; else it is recovered.
ApplyConverged(r) == OwnedBy(cluster, r) = Kinds \/ (cluster["Pod"].run = r /\ cluster["Pod"].status = "failed")
OpReconcile(p, r) ==
    LET o == op[p][r]
        seen == Identity(r, o.pod)
        resolvable == IF o.phase = "apply" THEN ApplyConverged(r) ELSE seen = "known"
        certain == o.phase = "apply" \/ ReadyPod(r, o.pod) IN
    /\ o.pc = "unknown" /\ o.phase # "open"
    /\ \/ /\ resolvable
          /\ SetOp(p, r, [o EXCEPT !.pc = "complete", !.inTime = Open(o.left)])
       \/ /\ ~(resolvable /\ certain) /\ (o.phase = "apply" \/ seen # "error")
          /\ OpGoto(p, r, "recover")
       \/ /\ o.phase = "ready" /\ seen = "error"
          /\ OpGoto(p, r, "fail")
    /\ UNCHANGED <<store, kube, reap, faults>>

\* After an open without an answer the identity must still be ready.  A
\* failed connection is recovered; a passed deadline is left to the reaper.
OpReconcileOpen(p, r) ==
    LET o == op[p][r] IN
    /\ o.pc = "unknown" /\ o.phase = "open"
    /\ \/ /\ ReadyIdentity(r, o.pod)
          /\ IF Passed(o.left) THEN OpEnd(p, r) ELSE OpGoto(p, r, "recover")
       \/ /\ ~ReadyIdentity(r, o.pod)
          /\ OpGoto(p, r, "fail")
    /\ UNCHANGED <<store, kube, reap, faults>>

\* The claim, the lease and the deadline are dropped at once and the
\* operation ends with sandbox_startup_unknown_result.
OpRecover(p, r) ==
    LET o == op[p][r] IN
    /\ o.pc = "recover"
    /\ IF OwnsAction(run[r], o.tok, o.claim, o.left)
       THEN SetRun(r, RecoverAction(run[r])) ELSE UNCHANGED run
    /\ OpEnd(p, r)
    /\ UNCHANGED <<current, settled, kube, reap, faults>>

OpComplete(p, r) ==
    LET o == op[p][r] IN
    /\ o.pc = "complete"
    /\ \/ /\ OwnsAction(run[r], o.tok, o.claim, o.left) /\ o.inTime
          /\ SetRun(r, CompleteAction(run[r]))
          /\ SetOp(p, r, [o EXCEPT !.left = Unset,
                                   !.pc = IF o.phase = "apply" THEN "identify" ELSE "record"])
       \/ /\ ~(OwnsAction(run[r], o.tok, o.claim, o.left) /\ o.inTime)
          /\ OpGoto(p, r, "fail")
          /\ UNCHANGED run
    /\ UNCHANGED <<current, settled, kube, reap, faults>>

\* After the apply the identity is read again; still incomplete is unknown.
OpIdentify(p, r) ==
    LET o == op[p][r] IN
    /\ o.pc = "identify"
    /\ \/ /\ Identity(r, NoPod) = "known"
          /\ SetOp(p, r, [o EXCEPT !.pc = "record", !.pod = cluster["Pod"].uid])
       \/ Identity(r, NoPod) = "missing" /\ OpEnd(p, r)
       \/ Identity(r, NoPod) = "error" /\ OpGoto(p, r, "fail")
    /\ UNCHANGED <<store, kube, reap, faults>>

\* recordTaskSandboxStartupPod, after the apply, after readiness and before
\* activation; the instant of the activation is sampled after the last one.
OpRecord(p, r) ==
    LET o == op[p][r] IN
    /\ o.pc = "record"
    /\ \/ /\ CanRecordPod(run[r], o.tok, o.claim, o.pod)
          /\ SetRun(r, RecordPod(run[r], o.pod))
          /\ SetOp(p, r,
                CASE o.phase = "apply" -> [o EXCEPT !.pc = "begin", !.phase = "ready"]
                  [] o.phase = "ready" -> [o EXCEPT !.pc = "begin", !.phase = "open"]
                  [] OTHER -> [o EXCEPT !.pc = "activate", !.inTime = ~Passed(o.left)])
       \/ /\ ~CanRecordPod(run[r], o.tok, o.claim, o.pod)
          /\ OpGoto(p, r, "fail")
          /\ UNCHANGED run
    /\ UNCHANGED <<current, settled, kube, reap, faults>>

OpActivate(p, r) ==
    LET o == op[p][r] IN
    /\ o.pc = "activate" /\ HasRoom(run[r])
    /\ \/ /\ CanActivate(run[r], o.tok, o.claim, o.left, o.inTime, o.pod)
          /\ SetRun(r, Activate(run[r]))
          /\ OpEnd(p, r)
       \/ /\ ~CanActivate(run[r], o.tok, o.claim, o.left, o.inTime, o.pod)
          /\ OpGoto(p, r, "fail")
          /\ UNCHANGED run
    /\ UNCHANGED <<current, settled, kube, reap, faults>>

\* persistStartingRunFailureOrAdopt reads the row as it is now, with
\* whatever token and claim it carries, and fails exactly that row.  For a
\* terminal start the row must carry a claim.
OpFail(p, r) ==
    LET o == op[p][r] IN
    /\ o.pc = "fail"
    /\ \/ /\ run[r].state = "starting"
          /\ SetOp(p, r, [o EXCEPT !.pc = "failing", !.tok = run[r].token, !.claim = run[r].claim])
       \/ /\ run[r].state = "starting" => run[r].claim = NoClaim
          /\ OpEnd(p, r)
    /\ UNCHANGED <<store, kube, reap, faults>>

OpFailing(p, r) ==
    LET o == op[p][r]
        matches == CanFail(run[r], o.tok) /\ o.claim \in {NoClaim, run[r].claim} IN
    /\ o.pc = "failing" /\ HasRoom(run[r])
    /\ IF matches THEN SetRun(r, Fail(run[r])) ELSE UNCHANGED run
    /\ OpEnd(p, r)
    /\ UNCHANGED <<current, settled, kube, reap, faults>>

\* Any other call fails: to the store, to Kubernetes outside an action, to the
\* endpoint (or its answer has changed).  The catch of startReservedSandbox
\* records the failure; when that fails too, the operation just ends.
OpCallFails(p, r) ==
    LET label == op[p][r].pc IN
    /\ Fault("call")
    /\ \/ /\ label \in {"prepare", "config", "observe", "begin", "unknown", "recover",
                        "complete", "identify", "record", "activate"}
          /\ OpGoto(p, r, "fail")
       \/ label \in {"fail", "failing"} /\ OpEnd(p, r)
    /\ UNCHANGED <<store, kube, reap>>

-----------------------------------------------------------------------------
(* The runtime loop of process p: first the preparations of created Tasks. *)

CurrentTarget == IF current # NoRun /\ Unreleased(run[current]) THEN current ELSE NoRun

\* reconcileTaskPreparations: a recovery failed, and the Run, read again, is
\* not ready.
PreparationFails(p) ==
    LET t == CurrentTarget IN
    /\ reap[p].pc = "idle"
    /\ t # NoRun /\ run[t].state = "starting" /\ ~run[t].ready
    /\ Fault("unowned")
    /\ SetReap(p, [IdleReap EXCEPT !.pc = "doubt", !.target = t, !.held = run[t]])
    /\ UNCHANGED <<store, kube, op>>

\* The Run is failed later, in a transaction that knows only the token.
FailUnprepared(p) ==
    LET t == reap[p].target IN
    /\ reap[p].pc = "doubt"
    /\ IF CanFail(run[t], reap[p].held.token)
       THEN HasRoom(run[t]) /\ SetRun(t, Fail(run[t])) ELSE UNCHANGED run
    /\ ReapEnd(p)
    /\ UNCHANGED <<current, settled, kube, op, faults>>

-----------------------------------------------------------------------------
(* Then one reapSandboxRunsOnce.                                           *)

DrainNow(p, r, row) == DrainEligible(row) /\ ~LocalOp(p, r)
Reading(q, label) == [q EXCEPT !.pc = label, !.todo = Kinds]
RowOf(r) == IF r = NoRun THEN BlankRun ELSE run[r]

\* loadRuns, and the Runs whose startup action is already past its deadline.
ReapLoad(p) ==
    LET t == CurrentTarget IN
    /\ reap[p].pc = "idle"
    /\ SetReap(p, Reading([IdleReap EXCEPT !.target = t, !.held = RowOf(t),
             !.drain = IF t # NoRun /\ DrainNow(p, t, run[t]) THEN t ELSE NoRun], "observe"))
    /\ UNCHANGED <<store, kube, op, faults>>

\* listManagedResources and the exact reads ask for one kind after the other.
ReapLook(p) ==
    LET q == reap[p] IN
    /\ q.pc \in {"observe", "inspect", "inventory"} /\ q.todo # {}
    /\ \E k \in NextToCreate(q.todo) :
        SetReap(p, [q EXCEPT !.view[k] = cluster[k], !.todo = @ \ {k}])
    /\ UNCHANGED <<store, kube, op, faults>>

ReapObserved(p) ==
    /\ reap[p].pc = "observe" /\ reap[p].todo = {}
    /\ ReapGoto(p, "plan")
    /\ UNCHANGED <<store, kube, op, faults>>

\* persistCleanupObservationFailure
ReapObservationFails(p) ==
    LET q == reap[p] IN
    /\ q.pc = "observe" /\ q.todo # {}
    /\ Fault("call")
    /\ IF q.target # NoRun /\ CleanupState(q.held) /\ CanUpdate(run[q.target], q.held)
       THEN HasRoom(q.held) /\ SetRun(q.target, ClearCleanup(q.held)) ELSE UNCHANGED run
    /\ ReapEnd(p)
    /\ UNCHANGED <<current, settled, kube, op>>

\* The first plan only records failures: the Pod failed, or the recorded Pod
\* is missing or was replaced.  The row is read again and failed as it is.
PodGone(q) ==
    LET pod == q.view["Pod"] IN
    IF pod.run = q.target THEN pod.status = "failed" \/ q.held.pod \notin {NoPod, pod.uid}
                          ELSE q.held.pod # NoPod
ReapPlan(p) ==
    LET q == reap[p] IN
    /\ q.pc = "plan"
    /\ \/ /\ q.target # NoRun
          /\ Startable(q.held) /\ ~DrainNow(p, q.target, q.held) /\ PodGone(q)
          /\ Startable(run[q.target]) /\ HasRoom(run[q.target])
          /\ SetRun(q.target, Fail(run[q.target]))
       \/ /\ q.target # NoRun => \/ ~Startable(q.held) \/ DrainNow(p, q.target, q.held)
                                 \/ ~PodGone(q) \/ ~Startable(run[q.target])
          /\ UNCHANGED run
    /\ ReapGoto(p, "reload")
    /\ UNCHANGED <<current, settled, kube, op, faults>>

\* The rows are loaded again and planned against the same observation.
ReapReload(p) ==
    LET t == CurrentTarget
        doomed == t # NoRun /\ (CleanupState(run[t]) \/ DrainNow(p, t, run[t])) IN
    /\ reap[p].pc = "reload"
    /\ SetReap(p, [reap[p] EXCEPT !.pc = "claim",
             !.target = IF doomed THEN t ELSE NoRun, !.held = IF doomed THEN run[t] ELSE BlankRun])
    /\ UNCHANGED <<store, kube, op, faults>>

\* DELETE_ORDER within a Run, the claimed Run before the orphans.
NextToDelete(q) ==
    LET own == {k \in q.todo : q.view[k].run = q.target}
        first == IF own # {} THEN own ELSE q.todo IN
    IF "Pod" \in first THEN {"Pod"} ELSE first
AfterDeletes(q) ==
    IF q.todo # {} THEN q ELSE IF q.target = NoRun THEN IdleReap ELSE Reading(q, "inspect")

\* What is observed of Runs that are not persisted as unreleased is an orphan.
OrphansMutant(q) == {k \in Kinds : q.view[k] # NoObj /\ q.view[k].run # q.target}
Orphans(q) == {k \in Kinds : q.view[k] # NoObj /\ ~Unreleased(run[q.view[k].run])}

\* validateInventoryPodFences, then claimRunsBeforeDestructiveCleanup.
FenceMismatch(row, r, view) ==
    view["Pod"] # NoObj /\ (view["Pod"].run # r \/ row.pod \notin {NoPod, view["Pod"].uid})
ReapClaim(p) ==
    LET q == reap[p]
        t == q.target
        orphans == Orphans(q)
        own == {k \in Kinds : q.view[k].run = t /\ ~q.view[k].terminating}
        rejected == AfterDeletes([q EXCEPT !.pc = "delete", !.target = NoRun,
                                           !.held = BlankRun, !.todo = orphans])
        mismatch == t # NoRun /\ FenceMismatch(q.held, t, q.view)
        granted == t # NoRun /\ ~LocalOp(p, t) /\ CanClaimCleanup(run[t], q.held.token) IN
    /\ q.pc = "claim"
    /\ \/ /\ mismatch
          /\ IF CanUpdate(run[t], q.held) THEN HasRoom(q.held) /\ SetRun(t, ClearCleanup(q.held))
                                          ELSE UNCHANGED run
          /\ SetReap(p, rejected)
       \/ /\ ~mismatch /\ granted /\ HasRoom(run[t])
          /\ SetRun(t, ClaimCleanup(run[t]))
          /\ SetReap(p, AfterDeletes([q EXCEPT !.pc = "delete", !.held = ClaimCleanup(run[t]),
                                               !.todo = own \cup orphans]))
       \/ /\ ~mismatch /\ ~granted
          /\ SetReap(p, rejected)
          /\ UNCHANGED run
    /\ UNCHANGED <<current, settled, kube, op, faults>>

\* deleteResource with a UID precondition.  After a failure nothing more is
\* deleted of the same Run in this call.
Removed(k) ==
    \/ cluster' = [cluster EXCEPT ![k] = NoObj]
    \/ SlowDelete /\ cluster' = [cluster EXCEPT ![k].terminating = TRUE]
ReapDelete(p) ==
    LET q == reap[p] IN
    /\ q.pc = "delete" /\ q.todo # {}
    /\ \E k \in NextToDelete(q) :
        LET same == Present(k) /\ cluster[k].uid = q.view[k].uid
            given == {j \in q.todo : q.view[j].run = q.view[k].run} IN
        \/ /\ IF same THEN Removed(k) ELSE ~Present(k) /\ UNCHANGED cluster
           /\ SetReap(p, AfterDeletes([q EXCEPT !.todo = @ \ {k}]))
           /\ UNCHANGED faults
        \/ /\ \/ Present(k) /\ ~same /\ UNCHANGED <<cluster, faults>>
              \/ Fault("call") /\ UNCHANGED cluster
              \/ Fault("call") /\ same /\ Removed(k)
           /\ SetReap(p, AfterDeletes([q EXCEPT !.todo = @ \ given, !.broken = @ \cup {k}]))
    /\ UNCHANGED <<store, inflight, nextUid, lost, op>>

\* The exact reads are judged: a foreign or replaced object, a deletion that
\* failed and did not happen or a fence that moved gives the claim back.
ReapInspected(p) ==
    LET q == reap[p]
        t == q.target
        fenced == \E k \in Kinds : q.view[k] # NoObj /\
            (q.view[k].run # t \/ (k = "Pod" /\ q.held.pod \notin {NoPod, q.view[k].uid}))
        unresolved == \E k \in q.broken : q.view[k].run = t /\ ~q.view[k].terminating
        planned == CleanupState(run[t]) \/ DrainNow(p, t, run[t])
        blocked == fenced \/ unresolved \/ run[t].token # q.held.token \/ ~planned
        gone == \A k \in Kinds : q.view[k] = NoObj IN
    /\ q.pc = "inspect" /\ q.todo = {}
    /\ \/ blocked /\ ReapGoto(p, "unclaim")
       \/ ~blocked /\ ~gone /\ ReapGoto(p, "clear")
       \/ ~blocked /\ gone /\ q.drain = t /\ ReapGoto(p, "drain")
       \/ ~blocked /\ gone /\ q.drain # t /\ SetReap(p, Reading(q, "inventory"))
    /\ UNCHANGED <<store, kube, op, faults>>

\* A read or a transaction behind the claim fails: the claim is given back.
ReapCallFails(p) ==
    /\ reap[p].pc \in {"inspect", "drain", "inventory", "clear"}
    /\ Fault("call")
    /\ ReapGoto(p, "unclaim")
    /\ UNCHANGED <<store, kube, op>>

\* A call to the store fails where nothing catches it: the tick is over, and
\* a claim that was taken stays until it is old.
ReapAborts(p) ==
    /\ reap[p].pc \in {"doubt", "observe", "reload", "claim", "unclaim"}
    /\ Fault("call")
    /\ ReapEnd(p)
    /\ UNCHANGED <<store, kube, op>>

\* drainSandboxStartupAction
ReapDrain(p) ==
    LET q == reap[p] IN
    /\ q.pc = "drain"
    /\ \/ /\ CanDrain(run[q.target], q.held) /\ HasRoom(q.held)
          /\ SetRun(q.target, Fail(run[q.target]))
          /\ ReapEnd(p)
       \/ /\ ~CanDrain(run[q.target], q.held)
          /\ ReapGoto(p, "unclaim")
          /\ UNCHANGED run
    /\ UNCHANGED <<current, settled, kube, op, faults>>

\* loadFinalManagedInventory: an object that carries the Run's labels puts
\* the release off to the next call.
ReapInventoried(p) ==
    LET q == reap[p] IN
    /\ q.pc = "inventory" /\ q.todo = {}
    /\ ReapGoto(p, IF OwnedBy(q.view, q.target) # {} THEN "clear" ELSE "complete")
    /\ UNCHANGED <<store, kube, op, faults>>

\* completeSandboxRunRelease: the row and its settlement are one transaction.
ReapComplete(p) ==
    LET q == reap[p]
        t == q.target IN
    /\ q.pc = "complete"
    /\ \/ /\ CanCompleteRelease(run[t], q.held) /\ HasRoom(q.held)
          /\ SetRun(t, CompleteRelease(q.held))
          /\ settled' = [settled EXCEPT ![t] = @ + 1]
          /\ ReapEnd(p)
          /\ UNCHANGED faults
       \/ /\ \/ ~CanCompleteRelease(run[t], q.held) /\ UNCHANGED faults
             \/ Fault("call")
          /\ ReapGoto(p, "unclaim")
          /\ UNCHANGED <<run, settled>>
    /\ UNCHANGED <<current, kube, op>>

\* clearSuccessfulCleanupClaim, releaseBlockedCleanupClaims and
\* resolveCleanupCasConflict write the held row back if its fence still holds.
ReapUnclaim(p) ==
    LET q == reap[p] IN
    /\ q.pc \in {"clear", "unclaim"}
    /\ IF CanUpdate(run[q.target], q.held)
       THEN HasRoom(q.held) /\ SetRun(q.target, ClearCleanup(q.held)) ELSE UNCHANGED run
    /\ ReapEnd(p)
    /\ UNCHANGED <<current, settled, kube, op, faults>>

-----------------------------------------------------------------------------
(* Kubernetes, time and crashes.                                           *)

PodReady ==
    /\ cluster["Pod"].status = "pending"
    /\ cluster' = [cluster EXCEPT !["Pod"].status = "ready"]
    /\ UNCHANGED <<store, inflight, nextUid, lost, op, reap, faults>>

PodFails ==
    /\ cluster["Pod"].status \in {"pending", "ready"}
    /\ Fault("pod")
    /\ cluster' = [cluster EXCEPT !["Pod"].status = "failed"]
    /\ UNCHANGED <<store, inflight, nextUid, lost, op, reap>>

\* A node is drained: the Pod disappears without AgentSmith's doing.
PodLost ==
    /\ Present("Pod")
    /\ Fault("pod")
    /\ cluster' = [cluster EXCEPT !["Pod"] = NoObj]
    /\ lost' = lost \cup {cluster["Pod"].uid}
    /\ UNCHANGED <<store, inflight, nextUid, op, reap>>

Terminated(k) ==
    /\ cluster[k].terminating
    /\ cluster' = [cluster EXCEPT ![k] = NoObj]
    /\ UNCHANGED <<store, inflight, nextUid, lost, op, reap, faults>>

\* Time passes for every instant that is kept.  Each request to Kubernetes
\* has a hard deadline no later than the persisted one, so none outlives it.
RowTicked(r) ==
    [r EXCEPT !.lease = Ticked(@), !.deadline = Ticked(@), !.cleanup = Ticked(@)]
Timers == {run[r].lease : r \in Runs} \cup {run[r].deadline : r \in Runs}
             \cup {run[r].cleanup : r \in Runs}
             \cup {op[p][r].left : p \in Procs, r \in Runs} \cup {e.left : e \in inflight}
Tick ==
    /\ \E t \in Timers : Open(t)
    /\ run' = [r \in Runs |-> RowTicked(run[r])]
    /\ op' = [p \in Procs |-> [r \in Runs |-> [op[p][r] EXCEPT !.left = Ticked(@)]]]
    /\ reap' = [p \in Procs |-> [reap[p] EXCEPT !.held = RowTicked(@)]]
    /\ inflight' = {[e EXCEPT !.left = @ - 1] : e \in {f \in inflight : f.left > 1}}
    /\ UNCHANGED <<current, settled, cluster, nextUid, lost, faults>>

\* The process and its replacement have nothing of what it held in memory.
Crash(p) ==
    /\ Fault("crash")
    /\ op' = [op EXCEPT ![p] = [r \in Runs |-> IdleOp]]
    /\ reap' = [reap EXCEPT ![p] = IdleReap]
    /\ UNCHANGED <<store, kube>>

-----------------------------------------------------------------------------

OpStep(p, r) ==
    \/ OpClaim(p, r) \/ OpPrepare(p, r) \/ OpConfig(p, r) \/ OpObserve(p, r)
    \/ OpBegin(p, r) \/ OpApply(p, r) \/ OpActionDone(p, r) \/ OpActionFails(p, r)
    \/ OpActionUnknown(p, r) \/ OpReconcile(p, r) \/ OpReconcileOpen(p, r)
    \/ OpRecover(p, r) \/ OpComplete(p, r) \/ OpIdentify(p, r) \/ OpRecord(p, r)
    \/ OpActivate(p, r) \/ OpFail(p, r) \/ OpFailing(p, r) \/ OpCallFails(p, r)

ReapStep(p) ==
    \/ FailUnprepared(p) \/ ReapLoad(p) \/ ReapLook(p) \/ ReapObserved(p) \/ ReapObservationFails(p)
    \/ ReapPlan(p) \/ ReapReload(p) \/ ReapClaim(p) \/ ReapDelete(p)
    \/ ReapInspected(p) \/ ReapCallFails(p) \/ ReapDrain(p) \/ ReapInventoried(p)
    \/ ReapComplete(p) \/ ReapUnclaim(p) \/ ReapAborts(p)

Environment ==
    \/ \E e \in inflight : Land(e)
    \/ PodReady \/ PodFails \/ PodLost
    \/ \E k \in Kinds : Terminated(k)
    \/ Tick
    \/ \E p \in Procs : Crash(p)

Next ==
    \/ \E isReady \in BOOLEAN : Admit(isReady)
    \/ \E r \in Runs : Prepared(r) \/ RunFails(r) \/ RequestTaskSandboxRelease(r)
    \/ \E p \in Procs, r \in Runs : OpStart(p, r) \/ OpStep(p, r)
    \/ \E p \in Reapers : PreparationFails(p) \/ ReapStep(p)
    \/ Environment

\* The runtime loop calls the reaper again and again, a started operation
\* goes on, time passes and Kubernetes finishes what it began.  Nobody has to
\* ask for a Run, prepare it, start it or release it.
Fairness ==
    /\ \A p \in Reapers : WF_vars(ReapStep(p))
    /\ \A p \in Procs, r \in Runs : WF_vars(OpStep(p, r))
    /\ WF_vars(Tick)
    /\ \A k \in Kinds : WF_vars(Terminated(k))

Spec == Init /\ [][Next]_vars
FairSpec == Spec /\ Fairness

-----------------------------------------------------------------------------
(* Properties.                                                             *)

\* Every variable holds what the code's types allow: rows, objects, requests
\* and the locals of the startup operations and of the reaper.
TypeOK ==
    /\ run \in [Runs -> RunType]
    /\ current \in Runs \cup {NoRun}
    /\ settled \in [Runs -> Nat]
    /\ cluster \in [Kinds -> ObjType \cup {NoObj}]
    /\ inflight \subseteq CreateType
    /\ nextUid \in 1..(MaxUid + 1)
    /\ lost \subseteq Uids
    /\ op \in [Procs -> [Runs -> OpType]]
    /\ reap \in [Procs -> ReapType]
    /\ faults \in 0..MaxFaults

\* A Task never has two unreleased Runs, and it names the newest one
\* (agent_tasks.current_run_id), whatever operation or reaper is still busy
\* with an older Run.
OneUnreleasedRun ==
    \A r \in Runs :
        /\ r < current => run[r].state = "released"
        /\ r = current => run[r].state # "unborn"
        /\ r > current => run[r].state = "unborn"

\* A Run is settled exactly when it is released, and never twice, although
\* the release is retried by every reaper until one of them commits it.
SettledOnce ==
    \A r \in Runs : settled[r] = IF run[r].state = "released" THEN 1 ELSE 0

\* Nothing AgentSmith does takes the recorded Pod of an active Run away: it is
\* there and not being deleted, unless it was lost by no doing of AgentSmith.
ActivePodKept ==
    \A r \in Runs : run[r].state = "active" =>
        \/ run[r].pod \in lost
        \/ cluster["Pod"].uid = run[r].pod /\ ~cluster["Pod"].terminating

\* What the reaper holds of a row is never newer than the row, and while the
\* fence has not moved the row is still in the state the reaper saw: only so may
\* it write that row back.
SnapshotFenced ==
    \A p \in Procs :
        LET held == reap[p].held
            row == run[reap[p].target] IN
        reap[p].target # NoRun =>
            /\ held.token <= row.token
            /\ held.token = row.token => held.state = row.state

\* Every request that may still create an object is covered by the deadline
\* its Run carries in the store: this is what the drain and the release wait for.
BarrierCoversRequests ==
    \A e \in inflight : run[e.run].deadline >= e.left

\* A late apply cannot recreate what a released Run had.
ReleasedIsClean ==
    \A r \in Runs : run[r].state = "released" => OwnedBy(cluster, r) = {}

\* Two processes never have an external action of one Run under way, before
\* its deadline, at the same time.
OneActionPerRun ==
    \A r \in Runs, p, q \in Procs :
        LET Acting(s) == op[s][r].pc \in {"act", "sent"} /\ Open(op[s][r].left) IN
        Acting(p) /\ Acting(q) => p = q

\* AgentSmith deletes only what belongs to a Run that is released, is to be
\* released, or whose startup is stuck behind a deadline that has passed; and
\* never while an action of that Run may still be under way.
DeletesOnlyDoomed ==
    [][\A k \in Kinds :
        /\ Present(k) /\ ~cluster[k].terminating
        /\ cluster'[k] = NoObj \/ cluster'[k].terminating
        /\ lost' = lost
        => LET row == run[cluster[k].run] IN
           /\ row.state \in {"release_requested", "failed", "released"} \/ DrainEligible(row)
           /\ ~Open(row.deadline)]_vars

\* A change of state always moves the fence by one, and the fence never goes
\* back: an answer to an older snapshot can be told from an answer to this one.
FenceMoves ==
    [][\A r \in Runs :
        /\ run'[r].token \in {run[r].token, run[r].token + 1}
        /\ run'[r].state # run[r].state => run'[r].token = run[r].token + 1]_vars

\* The reaper writes whole rows back.  A write that moves the fence without
\* changing the state never undoes what a startup transaction stored.
WriteBackLosesNothing ==
    [][\A r \in Runs :
        run'[r].token # run[r].token /\ run'[r].state = run[r].state
        => run'[r] = [run[r] EXCEPT !.token = @ + 1, !.cleanup = run'[r].cleanup]]_vars

\* "Release begins only from a user-confirmed request or a failed/deleted Run
\* cleanup intent."
ReleasedOnlyAfterIntent ==
    [][\A r \in Runs : run[r].state # "released" /\ run'[r].state = "released"
        => run[r].state \in {"release_requested", "failed"}]_vars

\* A Run that is to be released is released: the reaper gets there in spite
\* of crashes, failed reads and deletions, and of a startup still running.
ReleaseCompletes ==
    \A r \in Runs :
        (run[r].state \in {"release_requested", "failed"}) ~> (run[r].state = "released")

\* A startup action whose deadline has passed does not block its Run for ever.
DeadlineResolved ==
    \A r \in Runs :
        (run[r].state = "starting" /\ Passed(run[r].deadline))
            ~> (run[r].state # "starting" \/ ~IsSet(run[r].deadline))
=============================================================================
