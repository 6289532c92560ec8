------------------------- MODULE SandboxRelease_proofs -------------------------
(***************************************************************************)
(* What holds because one process runs at a time (OneProcess): a row the   *)
(* reaper writes back loses nothing.  And what holds as long as, besides,  *)
(* no POST is given up while it is on its way, no Pod fails and no failure *)
(* is recorded by code that does not hold the startup (NoStrays): the      *)
(* stored deadline covers every request, a released Run is clean, and the  *)
(* lifecycle implements the Run contract.  Crashes, every other failed     *)
(* call and repeated requests are allowed throughout.                      *)
(***************************************************************************)
EXTENDS SandboxOwnership_proofs, LifecycleRefinement

\* The deployment replaces its single API process, it does not scale it.
OneProcess == \A p, q \in Procs : p = q

\* Without these three an open deadline is dropped only by its own startup:
\* the runs UnknownResult, StaleObservation and UnownedFailure each show one of
\* them dropping it, in their order here.
NoStrays == FaultKinds \cap {"lost_answer", "pod", "unowned"} = {}

-----------------------------------------------------------------------------
(* Every change of a row is one store transaction ...                      *)

\* ... of a startup operation;
RowStarts(r) ==
    LET o == run[r]
        n == run'[r] IN
    \E p \in Procs :
        LET a == op[p][r] IN
        \/ a.pc = "claim" /\ \E c : CanClaimStartup(o, a.tok, c) /\ n = ClaimStartup(o, c)
        \/ a.pc = "config" /\ OwnsStartup(o, a.tok, a.claim) /\ n = InitConfig(o)
        \/ a.pc = "begin" /\ CanBeginAction(o, a.tok, a.claim) /\ n = BeginAction(o)
        \/ /\ a.pc \in {"complete", "recover"} /\ OwnsAction(o, a.tok, a.claim, a.left)
           /\ n = CompleteAction(o) \/ n = RecoverAction(o)
        \/ a.pc = "record" /\ CanRecordPod(o, a.tok, a.claim, a.pod) /\ n = RecordPod(o, a.pod)
        \/ /\ a.pc = "activate" /\ CanActivate(o, a.tok, a.claim, a.left, a.inTime, a.pod)
           /\ n = Activate(o)
        \/ a.pc = "failing" /\ CanFail(o, a.tok) /\ n = Fail(o)

\* ... of a request, of the preparation or of the sync;
RowRequested(r) ==
    LET o == run[r]
        n == run'[r] IN
    \/ o.state = "starting" /\ ~o.ready /\ n = MarkReady(o)
    \/ o.state = "active" /\ n = Fail(o)
    \/ Unreleased(o) /\ n = RequestRelease(o)
    \/ o.state = "unborn" /\ \E isReady \in BOOLEAN : n = AdmittedRun(isReady)

\* ... or of a reaper.
RowByReaper(r) ==
    LET o == run[r]
        n == run'[r] IN
    \E p \in Procs :
        LET q == reap[p] IN
        /\ q.target = r
        /\ \/ /\ q.pc = "plan" /\ Startable(q.held) /\ ~DrainNow(p, r, q.held) /\ PodGone(q)
              /\ Startable(o) /\ n = Fail(o)
           \/ q.pc = "doubt" /\ CanFail(o, q.held.token) /\ n = Fail(o)
           \/ q.pc = "drain" /\ CanDrain(o, q.held) /\ n = Fail(o)
           \/ q.pc = "claim" /\ CanClaimCleanup(o, q.held.token) /\ n = ClaimCleanup(o)
           \/ /\ CanUpdate(o, q.held) /\ (q.pc \in Late \/ CleanupState(q.held))
              /\ n = ClearCleanup(q.held)
           \/ q.pc = "complete" /\ CanCompleteRelease(o, q.held) /\ n = CompleteRelease(q.held)

RowForm(r) == run'[r] = run[r] \/ RowStarts(r) \/ RowRequested(r) \/ RowByReaper(r)

\* A row that is written, and one that is not.
LEMMA RowSet ==
    ASSUME TypeOK, NEW r \in Runs, NEW row, SetRun(r, row)
    PROVE  run'[r] = row /\ \A s \in Runs : s # r => run'[s] = run[s]
BY DEF SetRun, TypeOK

\* The transactions of startLiveSandbox.
LEMMA OpRowForms ==
    ASSUME TypeOK, NEW p \in Procs, NEW s \in Runs, OpStart(p, s) \/ OpStep(p, s), NEW r \in Runs
    PROVE  RowForm(r)
<1>1. CASE UNCHANGED run
    BY <1>1 DEF RowForm
<1>2. CASE OpClaim(p, s)
    <2> DEFINE claim == FreshClaim
    <2> HIDE DEF claim
    <2>1. \/ UNCHANGED run
          \/ /\ op[p][s].pc = "claim" /\ CanClaimStartup(run[s], op[p][s].tok, claim)
             /\ SetRun(s, ClaimStartup(run[s], claim))
        BY <1>2 DEF OpClaim, claim
    <2>2. QED BY <2>1, RowSet DEF RowForm, RowStarts
<1>3. CASE OpConfig(p, s)
    BY <1>3, RowSet DEF OpConfig, RowForm, RowStarts
<1>4. CASE OpBegin(p, s)
    BY <1>4, RowSet DEF OpBegin, RowForm, RowStarts
<1>5. CASE OpRecover(p, s) \/ OpComplete(p, s)
    <2>1. \/ UNCHANGED run
          \/ /\ op[p][s].pc \in {"complete", "recover"}
             /\ OwnsAction(run[s], op[p][s].tok, op[p][s].claim, op[p][s].left)
             /\ SetRun(s, CompleteAction(run[s])) \/ SetRun(s, RecoverAction(run[s]))
        BY <1>5 DEF OpRecover, OpComplete
    <2>2. QED BY <2>1, RowSet DEF RowForm, RowStarts
<1>6. CASE OpRecord(p, s)
    BY <1>6, RowSet DEF OpRecord, RowForm, RowStarts
<1>7. CASE OpActivate(p, s)
    BY <1>7, RowSet DEF OpActivate, RowForm, RowStarts
<1>8. CASE OpFailing(p, s)
    BY <1>8, RowSet DEF OpFailing, RowForm, RowStarts
<1>9. CASE \/ OpStart(p, s) \/ OpPrepare(p, s) \/ OpObserve(p, s) \/ OpApply(p, s)
           \/ OpActionDone(p, s) \/ OpActionFails(p, s) \/ OpActionUnknown(p, s)
           \/ OpReconcile(p, s) \/ OpReconcileOpen(p, s) \/ OpIdentify(p, s) \/ OpFail(p, s)
           \/ OpCallFails(p, s)
    BY <1>1, <1>9 DEF OpStart, OpPrepare, OpObserve, OpApply, OpActionDone, OpActionFails,
                      OpActionUnknown, OpReconcile, OpReconcileOpen, OpIdentify, OpFail, OpCallFails, store
<1>10. QED BY <1>2, <1>3, <1>4, <1>5, <1>6, <1>7, <1>8, <1>9 DEF OpStep

\* The transactions of reapSandboxRunsOnce.
LEMMA ReapRowForms ==
    ASSUME TypeOK, SnapshotLive, NEW p \in Procs, ReapStep(p), NEW r \in Runs
    PROVE  RowForm(r)
<1> DEFINE q == reap[p]
           t == q.target
<1>0. t \in Runs \/ t = NoRun
    BY DEF TypeOK, ReapType
<1>1. CASE UNCHANGED run
    BY <1>1 DEF RowForm
<1>2. ASSUME NEW row, SetRun(t, row), run'[t] = row => RowByReaper(t)
      PROVE  RowForm(r)
    <2>1. CASE t \in Runs
        BY <1>2, <2>1, RowSet DEF RowForm
    <2>2. CASE t = NoRun
        BY <1>2, <2>2 DEF SetRun, TypeOK, RowForm, NoRun, Runs
    <2>3. QED BY <1>0, <2>1, <2>2
<1>3. CASE ReapObservationFails(p)
    BY <1>1, <1>2, <1>3 DEF ReapObservationFails, RowByReaper
<1>4. CASE ReapPlan(p)
    BY <1>1, <1>2, <1>4 DEF ReapPlan, RowByReaper
<1>5. CASE ReapClaim(p)
    <2>1. \/ UNCHANGED run
          \/ CanUpdate(run[t], q.held) /\ q.pc \in Late /\ SetRun(t, ClearCleanup(q.held))
          \/ q.pc = "claim" /\ CanClaimCleanup(run[t], q.held.token) /\ SetRun(t, ClaimCleanup(run[t]))
        BY <1>5 DEF ReapClaim, Late
    <2>2. QED BY <1>1, <1>2, <2>1 DEF RowByReaper
<1>6. CASE ReapDrain(p)
    BY <1>1, <1>2, <1>6 DEF ReapDrain, RowByReaper
<1>7. CASE ReapComplete(p)
    BY <1>1, <1>2, <1>7 DEF ReapComplete, RowByReaper
<1>8. CASE ReapUnclaim(p)
    BY <1>1, <1>2, <1>8 DEF ReapUnclaim, RowByReaper, Late
<1>9. CASE \/ ReapLoad(p) \/ ReapLook(p) \/ ReapObserved(p) \/ ReapReload(p) \/ ReapDelete(p)
           \/ ReapInspected(p) \/ ReapCallFails(p) \/ ReapInventoried(p) \/ ReapAborts(p)
    BY <1>1, <1>9 DEF ReapLoad, ReapLook, ReapObserved, ReapReload, ReapDelete, ReapInspected,
                      ReapCallFails, ReapInventoried, ReapAborts, store
<1>10. CASE FailUnprepared(p)
    BY <1>1, <1>2, <1>10 DEF FailUnprepared, RowByReaper
<1>11. QED BY <1>10, <1>3, <1>4, <1>5, <1>6, <1>7, <1>8, <1>9 DEF ReapStep

\* And the others.
LEMMA RowForms ==
    ASSUME IInv, [Next]_vars, ~Tick, NEW r \in Runs
    PROVE  RowForm(r)
<1>0. TypeOK /\ SnapshotLive /\ OneUnreleasedRun
    BY DEF IInv
<1>1. CASE UNCHANGED run
    BY <1>1 DEF RowForm
<1>2. ASSUME NEW isReady \in BOOLEAN, Admit(isReady) PROVE RowForm(r)
    <2>1. current + 1 \in Runs /\ run[current + 1].state = "unborn"
        BY <1>0, <1>2, LifecycleConstants DEF Admit, TypeOK, Runs, NoRun, LifecycleConstants,
                                              OneUnreleasedRun
    <2>2. QED BY <1>0, <1>2, <2>1, RowSet DEF Admit, RowForm, RowRequested
<1>3. ASSUME NEW s \in Runs, Prepared(s) \/ RunFails(s) \/ RequestTaskSandboxRelease(s)
      PROVE  RowForm(r)
    BY <1>0, <1>3, RowSet DEF Prepared, RunFails, RequestTaskSandboxRelease, RowForm, RowRequested,
                              CanMarkReady, CanFail, CanRequestRelease
<1>4. CASE \E p \in Procs, s \in Runs : OpStart(p, s) \/ OpStep(p, s)
    BY <1>0, <1>4, OpRowForms
<1>5. CASE \E p \in Reapers : PreparationFails(p) \/ ReapStep(p)
    BY <1>0, <1>1, <1>5, ReapRowForms, LifecycleConstants
       DEF LifecycleConstants, PreparationFails, store
<1>6. CASE \/ PodReady \/ PodFails \/ PodLost \/ (\E k \in Kinds : Terminated(k)) \/ UNCHANGED vars
           \/ (\E e \in inflight : Land(e)) \/ (\E p \in Procs : Crash(p))
    BY <1>1, <1>6 DEF PodReady, PodFails, PodLost, Terminated, vars, store, Land, Crash
<1>7. QED BY <1>2, <1>3, <1>4, <1>5, <1>6 DEF Next, Environment

-----------------------------------------------------------------------------
(* What a step does with a startup operation, label by label.              *)

\* Before the apply an operation is in its first phase.
ApplyLabels == {"claim", "prepare", "config", "observe", "identify"}
PhaseTold ==
    \A p \in Procs, r \in Runs : op[p][r].pc \in ApplyLabels => op[p][r].phase = "apply"

\* It begins with the fence as it is; it leaves its claim only for a row
\* without a deadline, a stale one, or when the call fails; what fails is a
\* row that starts.
OpBegins(p, r) ==
    LET o == op[p][r]
        n == op'[p][r] IN
    /\ o.pc = "idle" => n.pc \in {"idle", "claim"}
    /\ n.pc = "claim" => \/ o.pc = "claim" /\ n.tok = o.tok
                         \/ o.pc = "idle" /\ n.tok = run[r].token /\ UNCHANGED run
    /\ o.pc = "claim" => \/ n.pc \in {"idle", "claim"}
                         \/ n.pc = "prepare" /\ run[r].deadline = Unset
                         \/ /\ n.pc = "fail" /\ UNCHANGED run
                            /\ StartupStale(run[r], o.tok) \/ "unowned" \in FaultKinds
    /\ o.pc = "fail" => \/ n.pc \in {"idle", "fail"}
                        \/ n.pc = "failing" /\ run[r].state = "starting" /\ UNCHANGED run
    /\ o.pc = "failing" => n.pc \in {"idle", "failing"}

\* It waits for the answer to a POST until it crashes, the Run is to be
\* released, the deadline passes or the POST is served; or it gives up.
OpWaits(p, r) ==
    LET o == op[p][r]
        n == op'[p][r] IN
    /\ n.pc = "sent" => o.pc \in {"act", "sent"} /\ n.left = o.left
    /\ o.pc = "sent" => \/ n.pc = "idle"
                        \/ n.pc = "sent" /\ n.left = o.left
                        \/ /\ n.pc = "fail" /\ run[r].state \in {"release_requested", "released"}
                           /\ UNCHANGED run
                        \/ Passed(o.left)
                        \/ "lost_answer" \in FaultKinds
                        \/ \E e \in inflight : /\ e.run = r /\ e.left = o.left
                                               /\ inflight' = inflight \ {e}

\* The Pod it goes on with is one it has just seen.
OpPods(p, r) ==
    LET o == op[p][r]
        n == op'[p][r] IN
    /\ n.pc \in ApplyLabels => n.phase = "apply"
    /\ n.pc # "idle" /\ (n.phase # "apply" \/ n.pc = "record") =>
        \/ o.pc # "idle" /\ (o.phase # "apply" \/ o.pc = "record") /\ n.pod = o.pod
        \/ /\ cluster["Pod"].run = r /\ cluster["Pod"].uid = n.pod
           /\ UNCHANGED <<cluster, lost>>

OpForm(p, r) == OpBegins(p, r) /\ OpWaits(p, r) /\ OpPods(p, r)

\* An operation that nothing happens to, or that ends.
LEMMA OpFormSame ==
    ASSUME PhaseTold, NEW p \in Procs, NEW r \in Runs,
           op'[p][r] = op[p][r] \/ op'[p][r].pc = "idle"
    PROVE  OpForm(p, r)
BY DEF PhaseTold, OpForm, OpBegins, OpWaits, OpPods, ApplyLabels

\* An operation that fails, but from where it waits or claims.
LEMMA OpFormFails ==
    ASSUME TypeOK, PhaseTold, NEW p \in Procs, NEW r \in Runs, OpGoto(p, r, "fail"),
           op[p][r].pc \notin {"idle", "claim", "sent", "fail", "failing"}
    PROVE  OpForm(p, r)
BY OpWent DEF OpForm, OpBegins, OpWaits, OpPods, ApplyLabels

\* The other operations are left alone.
LEMMA OpFormAlone ==
    ASSUME PhaseTold, NEW p \in Procs, NEW r \in Runs, OpForm(p, r),
           \A q \in Procs, s \in Runs : q # p \/ s # r => op'[q][s] = op[q][s]
    PROVE  \A q \in Procs, s \in Runs : OpForm(q, s)
BY OpFormSame

\* Where a startup begins.
LEMMA OpStartForm ==
    ASSUME TypeOK, PhaseTold, NEW p \in Procs, NEW r \in Runs, OpStart(p, r)
    PROVE  OpForm(p, r)
<1>1. /\ op'[p][r] = [IdleOp EXCEPT !.pc = "claim", !.tok = run[r].token]
      /\ op[p][r].pc = "idle" /\ UNCHANGED run
    BY OpSet DEF OpStart, LocalOp, store
<1>2. op'[p][r].pc = "claim" /\ op'[p][r].tok = run[r].token /\ op'[p][r].phase = "apply"
    BY <1>1 DEF IdleOp
<1>3. QED BY <1>1, <1>2 DEF OpForm, OpBegins, OpWaits, OpPods, ApplyLabels

\* Claim, preparation, configuration.
LEMMA OpClaimForm ==
    ASSUME TypeOK, PhaseTold, NEW p \in Procs, NEW r \in Runs,
           OpClaim(p, r) \/ OpPrepare(p, r) \/ OpConfig(p, r)
    PROVE  OpForm(p, r)
<1> DEFINE o == op[p][r]
           claim == FreshClaim
<1> HIDE DEF claim
<1>0. o \in OpType
    BY DEF TypeOK
<1>1. CASE OpClaim(p, r)
    <2>1. o.pc = "claim" /\ o.phase = "apply"
        BY <1>1 DEF OpClaim, PhaseTold, ApplyLabels
    <2>2. CASE /\ CanClaimStartup(run[r], o.tok, claim)
               /\ SetOp(p, r, [o EXCEPT !.pc = "prepare", !.claim = claim])
        <3>1. op'[p][r] = [o EXCEPT !.pc = "prepare", !.claim = claim]
            BY <2>2, OpSet
        <3>2. op'[p][r].pc = "prepare" /\ op'[p][r].phase = "apply"
            BY <1>0, <2>1, <3>1 DEF OpType
        <3>3. run[r].deadline = Unset
            BY <2>2 DEF CanClaimStartup, StartupInProgress, IsSet
        <3>4. QED BY <2>1, <3>2, <3>3 DEF OpForm, OpBegins, OpWaits, OpPods, ApplyLabels
    <2>3. CASE /\ StartupStale(run[r], o.tok) \/ "unowned" \in FaultKinds
               /\ OpGoto(p, r, "fail") /\ UNCHANGED run
        BY <2>1, <2>3, OpWent DEF OpForm, OpBegins, OpWaits, OpPods, ApplyLabels
    <2>4. CASE OpEnd(p, r)
        BY <2>4, OpEnded, OpFormSame
    <2>5. QED BY <1>1, <2>2, <2>3, <2>4 DEF OpClaim, claim, Fault
<1>2. CASE OpPrepare(p, r)
    <2>1. o.pc = "prepare" /\ o.phase = "apply"
        BY <1>2 DEF OpPrepare, PhaseTold, ApplyLabels
    <2>2. CASE SetOp(p, r, [o EXCEPT !.pc = "config", !.tok = run[r].token])
        <3>1. op'[p][r] = [o EXCEPT !.pc = "config", !.tok = run[r].token]
            BY <2>2, OpSet
        <3>2. op'[p][r].pc = "config" /\ op'[p][r].phase = "apply"
            BY <1>0, <2>1, <3>1 DEF OpType
        <3>3. QED BY <2>1, <3>2 DEF OpForm, OpBegins, OpWaits, OpPods, ApplyLabels
    <2>3. CASE OpGoto(p, r, "fail")
        BY <2>1, <2>3, OpFormFails
    <2>4. QED BY <1>2, <2>2, <2>3 DEF OpPrepare
<1>3. CASE OpConfig(p, r)
    <2>1. o.pc = "config" /\ o.phase = "apply"
        BY <1>3 DEF OpConfig, PhaseTold, ApplyLabels
    <2>2. CASE SetOp(p, r, [o EXCEPT !.pc = "observe", !.pod = run[r].pod])
        <3>1. op'[p][r] = [o EXCEPT !.pc = "observe", !.pod = run[r].pod]
            BY <2>2, OpSet
        <3>2. op'[p][r].pc = "observe" /\ op'[p][r].phase = "apply"
            BY <1>0, <2>1, <3>1 DEF OpType
        <3>3. QED BY <2>1, <3>2 DEF OpForm, OpBegins, OpWaits, OpPods, ApplyLabels
    <2>3. CASE OpGoto(p, r, "fail")
        BY <2>1, <2>3, OpFormFails
    <2>4. QED BY <1>3, <2>2, <2>3 DEF OpConfig
<1>4. QED BY <1>1, <1>2, <1>3

\* A Pod whose identity is known is the Run's.
LEMMA KnownPod ==
    ASSUME NEW r \in Runs, NEW uid, Identity(r, uid) = "known"
    PROVE  /\ cluster["Pod"].run = r /\ cluster["Pod"] # NoObj
           /\ uid \in {NoPod, cluster["Pod"].uid}
BY DEF Identity

\* Observation and beginning of an action.
LEMMA OpObserveForm ==
    ASSUME TypeOK, PhaseTold, NEW p \in Procs, NEW r \in Runs, OpObserve(p, r) \/ OpBegin(p, r)
    PROVE  OpForm(p, r)
<1> DEFINE o == op[p][r]
<1>0. o \in OpType
    BY DEF TypeOK
<1>1. CASE OpObserve(p, r)
    <2>1. o.pc = "observe" /\ o.phase = "apply" /\ UNCHANGED <<cluster, lost>>
        BY <1>1 DEF OpObserve, PhaseTold, ApplyLabels, kube
    <2>2. CASE /\ o.pod # NoPod /\ Identity(r, o.pod) = "known"
               /\ SetOp(p, r, [o EXCEPT !.pc = "begin", !.phase = "ready"])
        <3>0. op'[p][r] = [o EXCEPT !.pc = "begin", !.phase = "ready"]
            BY <2>2, OpSet
        <3>1. op'[p][r].pc = "begin" /\ op'[p][r].pod = o.pod
            BY <1>0, <3>0 DEF OpType
        <3>2. cluster["Pod"].run = r /\ cluster["Pod"].uid = o.pod
            BY <2>2, KnownPod
        <3>3. QED BY <2>1, <3>1, <3>2 DEF OpForm, OpBegins, OpWaits, OpPods, ApplyLabels
    <2>3. ASSUME NEW todo, SetOp(p, r, [o EXCEPT !.pc = "begin", !.phase = "apply", !.todo = todo])
          PROVE  OpForm(p, r)
        <3>1. op'[p][r] = [o EXCEPT !.pc = "begin", !.phase = "apply", !.todo = todo]
            BY <2>3, OpSet
        <3>2. op'[p][r].pc = "begin" /\ op'[p][r].phase = "apply"
            BY <1>0, <3>1 DEF OpType
        <3>3. QED BY <2>1, <3>2 DEF OpForm, OpBegins, OpWaits, OpPods, ApplyLabels
    <2>4. CASE OpGoto(p, r, "fail")
        BY <2>1, <2>4, OpFormFails
    <2>5. CASE OpGoto(p, r, "identify")
        BY <2>1, <2>5, OpWent DEF OpForm, OpBegins, OpWaits, OpPods, ApplyLabels
    <2>6. QED BY <1>1, <2>2, <2>3, <2>4, <2>5 DEF OpObserve
<1>2. CASE OpBegin(p, r)
    <2>1. o.pc = "begin"
        BY <1>2 DEF OpBegin
    <2>2. CASE SetOp(p, r, [o EXCEPT !.pc = "act", !.left = ActionTimeout])
        <3>1. op'[p][r] = [o EXCEPT !.pc = "act", !.left = ActionTimeout]
            BY <2>2, OpSet
        <3>2. op'[p][r].pc = "act" /\ op'[p][r].phase = o.phase /\ op'[p][r].pod = o.pod
            BY <1>0, <3>1 DEF OpType
        <3>3. QED BY <2>1, <3>2 DEF OpForm, OpBegins, OpWaits, OpPods, ApplyLabels
    <2>3. CASE OpGoto(p, r, "fail")
        BY <2>1, <2>3, OpFormFails
    <2>4. QED BY <1>2, <2>2, <2>3 DEF OpBegin
<1>3. QED BY <1>1, <1>2

\* An action under way.
LEMMA OpActForm ==
    ASSUME TypeOK, PhaseTold, NEW p \in Procs, NEW r \in Runs,
           OpApply(p, r) \/ OpActionDone(p, r) \/ OpActionFails(p, r) \/ OpActionUnknown(p, r)
    PROVE  OpForm(p, r)
<1> DEFINE o == op[p][r]
<1>0. o \in OpType
    BY DEF TypeOK
<1>1. CASE OpApply(p, r)
    <2>1. o.pc = "act" /\ o.phase = "apply"
        BY <1>1 DEF OpApply
    <2>2. \/ \E k : SetOp(p, r, [o EXCEPT !.todo = o.todo \ {k}])
          \/ OpGoto(p, r, "fail")
          \/ OpGoto(p, r, "sent")
        BY <1>1 DEF OpApply
    <2>3. ASSUME NEW k, SetOp(p, r, [o EXCEPT !.todo = o.todo \ {k}])
          PROVE  OpForm(p, r)
        <3>1. op'[p][r] = [o EXCEPT !.todo = o.todo \ {k}]
            BY <2>3, OpSet
        <3>2. op'[p][r].pc = "act" /\ op'[p][r].phase = "apply"
            BY <1>0, <2>1, <3>1 DEF OpType
        <3>3. QED BY <2>1, <3>2 DEF OpForm, OpBegins, OpWaits, OpPods, ApplyLabels
    <2>4. CASE OpGoto(p, r, "sent")
        BY <2>1, <2>4, OpWent DEF OpForm, OpBegins, OpWaits, OpPods, ApplyLabels
    <2>5. QED BY <2>1, <2>2, <2>3, <2>4, OpFormFails
<1>2. CASE OpActionDone(p, r)
    <2>1. o.pc = "act"
        BY <1>2 DEF OpActionDone
    <2>2. op'[p][r] = [o EXCEPT !.pc = IF o.phase = "open" THEN "record" ELSE "complete",
                                !.inTime = TRUE]
        BY <1>2, OpSet DEF OpActionDone
    <2>3. /\ op'[p][r].pc = IF o.phase = "open" THEN "record" ELSE "complete"
          /\ op'[p][r].phase = o.phase /\ op'[p][r].pod = o.pod
        BY <1>0, <2>2 DEF OpType
    <2>4. QED BY <2>1, <2>3 DEF OpForm, OpBegins, OpWaits, OpPods, ApplyLabels
<1>3. CASE OpActionFails(p, r)
    <2>1. /\ OpGoto(p, r, "fail") /\ UNCHANGED run
          /\ \/ o.pc = "act"
             \/ o.pc = "sent" /\ run[r].state \in {"release_requested", "released"}
        BY <1>3 DEF OpActionFails, store
    <2>2. QED BY <2>1, OpWent DEF OpForm, OpBegins, OpWaits, OpPods, ApplyLabels
<1>4. CASE OpActionUnknown(p, r)
    <2>1. /\ OpGoto(p, r, "unknown")
          /\ \/ o.pc = "act"
             \/ o.pc = "sent" /\ (Passed(o.left) \/ "lost_answer" \in FaultKinds)
        BY <1>4 DEF OpActionUnknown, Fault
    <2>2. QED BY <2>1, OpWent DEF OpForm, OpBegins, OpWaits, OpPods, ApplyLabels
<1>5. QED BY <1>1, <1>2, <1>3, <1>4

\* Reconciliation, recovery and completion.
LEMMA OpReconcileForm ==
    ASSUME TypeOK, PhaseTold, NEW p \in Procs, NEW r \in Runs,
           OpReconcile(p, r) \/ OpReconcileOpen(p, r) \/ OpRecover(p, r) \/ OpComplete(p, r)
    PROVE  OpForm(p, r)
<1> DEFINE o == op[p][r]
<1>0. o \in OpType
    BY DEF TypeOK
<1>1. o.pc \in {"unknown", "recover", "complete"}
    BY DEF OpReconcile, OpReconcileOpen, OpRecover, OpComplete
<1>2. \/ OpGoto(p, r, "fail") \/ OpGoto(p, r, "recover") \/ OpEnd(p, r)
      \/ SetOp(p, r, [o EXCEPT !.pc = "complete", !.inTime = Open(o.left)])
      \/ SetOp(p, r, [o EXCEPT !.left = Unset,
                               !.pc = IF o.phase = "apply" THEN "identify" ELSE "record"])
    BY DEF OpReconcile, OpReconcileOpen, OpRecover, OpComplete
<1>3. CASE OpGoto(p, r, "recover")
    BY <1>1, <1>3, OpWent DEF OpForm, OpBegins, OpWaits, OpPods, ApplyLabels
<1>4. CASE SetOp(p, r, [o EXCEPT !.pc = "complete", !.inTime = Open(o.left)])
    <2>1. op'[p][r] = [o EXCEPT !.pc = "complete", !.inTime = Open(o.left)]
        BY <1>4, OpSet
    <2>2. op'[p][r].pc = "complete" /\ op'[p][r].phase = o.phase /\ op'[p][r].pod = o.pod
        BY <1>0, <2>1 DEF OpType
    <2>3. QED BY <1>1, <2>2 DEF OpForm, OpBegins, OpWaits, OpPods, ApplyLabels
<1>5. CASE SetOp(p, r, [o EXCEPT !.left = Unset,
                                 !.pc = IF o.phase = "apply" THEN "identify" ELSE "record"])
    <2>1. op'[p][r] = [o EXCEPT !.left = Unset,
                                !.pc = IF o.phase = "apply" THEN "identify" ELSE "record"]
        BY <1>5, OpSet
    <2>2. /\ op'[p][r].pc = IF o.phase = "apply" THEN "identify" ELSE "record"
          /\ op'[p][r].phase = o.phase /\ op'[p][r].pod = o.pod
        BY <1>0, <2>1 DEF OpType
    <2>3. QED BY <1>1, <2>2 DEF OpForm, OpBegins, OpWaits, OpPods, ApplyLabels
<1>6. QED BY <1>1, <1>2, <1>3, <1>4, <1>5, OpFormFails, OpFormSame, OpEnded

\* Identification, recording, activation and failure.
LEMMA OpRecordForm ==
    ASSUME TypeOK, PhaseTold, NEW p \in Procs, NEW r \in Runs,
           OpIdentify(p, r) \/ OpRecord(p, r) \/ OpActivate(p, r) \/ OpFail(p, r) \/ OpFailing(p, r)
    PROVE  OpForm(p, r)
<1> DEFINE o == op[p][r]
<1>0. o \in OpType
    BY DEF TypeOK
<1>1. CASE OpIdentify(p, r)
    <2>1. o.pc = "identify" /\ UNCHANGED <<cluster, lost>>
        BY <1>1 DEF OpIdentify, kube
    <2>2. CASE /\ Identity(r, NoPod) = "known"
               /\ SetOp(p, r, [o EXCEPT !.pc = "record", !.pod = cluster["Pod"].uid])
        <3>1. op'[p][r] = [o EXCEPT !.pc = "record", !.pod = cluster["Pod"].uid]
            BY <2>2, OpSet
        <3>2. op'[p][r].pc = "record" /\ op'[p][r].pod = cluster["Pod"].uid
            BY <1>0, <3>1 DEF OpType
        <3>3. cluster["Pod"].run = r
            BY <2>2, KnownPod
        <3>4. QED BY <2>1, <3>2, <3>3 DEF OpForm, OpBegins, OpWaits, OpPods, ApplyLabels
    <2>3. QED BY <1>1, <2>1, <2>2, OpFormFails, OpFormSame, OpEnded DEF OpIdentify
<1>2. CASE OpRecord(p, r)
    <2>1. o.pc = "record"
        BY <1>2 DEF OpRecord
    <2>2. \/ OpGoto(p, r, "fail")
          \/ op'[p][r] = [o EXCEPT !.pc = "begin", !.phase = "ready"]
          \/ op'[p][r] = [o EXCEPT !.pc = "begin", !.phase = "open"]
          \/ op'[p][r] = [o EXCEPT !.pc = "activate", !.inTime = ~Passed(o.left)]
        BY <1>2, OpSet DEF OpRecord
    <2>3. CASE ~OpGoto(p, r, "fail")
        <3>1. op'[p][r].pc \in {"begin", "activate"} /\ op'[p][r].pod = o.pod
            BY <1>0, <2>2, <2>3 DEF OpType
        <3>2. QED BY <2>1, <3>1 DEF OpForm, OpBegins, OpWaits, OpPods, ApplyLabels
    <2>4. QED BY <2>1, <2>3, OpFormFails
<1>3. CASE OpActivate(p, r)
    BY <1>3, OpFormFails, OpFormSame, OpEnded DEF OpActivate
<1>4. CASE OpFail(p, r)
    <2>1. o.pc = "fail" /\ UNCHANGED run
        BY <1>4 DEF OpFail, store
    <2>2. CASE /\ run[r].state = "starting"
               /\ SetOp(p, r, [o EXCEPT !.pc = "failing", !.tok = run[r].token, !.claim = run[r].claim])
        <3>1. op'[p][r] = [o EXCEPT !.pc = "failing", !.tok = run[r].token, !.claim = run[r].claim]
            BY <2>2, OpSet
        <3>2. /\ op'[p][r].pc = "failing" /\ op'[p][r].phase = o.phase /\ op'[p][r].pod = o.pod
            BY <1>0, <3>1 DEF OpType
        <3>3. QED BY <2>1, <2>2, <3>2 DEF OpForm, OpBegins, OpWaits, OpPods, ApplyLabels
    <2>3. QED BY <1>4, <2>2, OpFormSame, OpEnded DEF OpFail
<1>5. CASE OpFailing(p, r)
    BY <1>5, OpFormSame, OpEnded DEF OpFailing
<1>6. QED BY <1>1, <1>2, <1>3, <1>4, <1>5

\* A call that fails.
LEMMA OpCallFailsForm ==
    ASSUME TypeOK, PhaseTold, NEW p \in Procs, NEW r \in Runs, OpCallFails(p, r)
    PROVE  OpForm(p, r)
<1>1. \/ OpEnd(p, r)
      \/ /\ op[p][r].pc \notin {"idle", "claim", "sent", "fail", "failing"}
         /\ OpGoto(p, r, "fail")
    BY DEF OpCallFails
<1>2. QED BY <1>1, OpFormFails, OpFormSame, OpEnded

\* Every step of every operation, but for the clock.
LEMMA OpForms ==
    ASSUME IInv, PhaseTold, [Next]_vars, ~Tick
    PROVE  \A p \in Procs, r \in Runs : OpForm(p, r)
<1>0. TypeOK
    BY DEF IInv
<1>1. CASE UNCHANGED op
    BY <1>1, OpFormSame
<1>2. ASSUME NEW p \in Procs, NEW r \in Runs, OpStart(p, r) \/ OpStep(p, r)
      PROVE  \A q \in Procs, s \in Runs : OpForm(q, s)
    <2>1. OpForm(p, r)
        BY <1>0, <1>2, OpStartForm, OpClaimForm, OpObserveForm, OpActForm, OpReconcileForm,
           OpRecordForm, OpCallFailsForm DEF OpStep
    <2>2. \A q \in Procs, s \in Runs : q # p \/ s # r => op'[q][s] = op[q][s]
        BY <1>0, <1>2, OpAlone
    <2>3. QED BY <2>1, <2>2, OpFormAlone
<1>3. ASSUME NEW e \in inflight, Land(e)
      PROVE  \A p \in Procs, r \in Runs : OpForm(p, r)
    <2> SUFFICES ASSUME NEW p \in Procs, NEW r \in Runs PROVE OpForm(p, r)
        OBVIOUS
    <2>0. e.run \in Runs /\ op[p] \in [Runs -> OpType] /\ op[p][r] \in OpType
        BY <1>0, <1>3 DEF TypeOK, CreateType
    <2>1. CASE ~Waiting(p, e) \/ r # e.run
        <3>1. op'[p][r] = op[p][r]
            BY <1>3, <2>0, <2>1 DEF Land
        <3>2. QED BY <3>1, OpFormSame
    <2>2. CASE Waiting(p, e) /\ r = e.run
        <3>1. op[p][r].pc = "sent" /\ e.left = op[p][r].left /\ inflight' = inflight \ {e}
            BY <1>3, <2>2 DEF Waiting, Land
        <3>2. \/ op'[p] = [op[p] EXCEPT ![r].pc = "act", ![r].todo = @ \ {e.kind}]
              \/ op'[p] = [op[p] EXCEPT ![r].pc = "fail"]
            BY <1>3, <2>2 DEF Land
        <3>3. /\ op'[p][r].pc \in {"act", "fail"} /\ op'[p][r].phase = op[p][r].phase
              /\ op'[p][r].pod = op[p][r].pod
            BY <2>0, <3>2 DEF OpType
        <3>4. QED BY <1>3, <2>2, <3>1, <3>3 DEF OpForm, OpBegins, OpWaits, OpPods, ApplyLabels
    <2>3. QED BY <2>1, <2>2
<1>4. ASSUME NEW p \in Procs, Crash(p)
      PROVE  \A q \in Procs, r \in Runs : OpForm(q, r)
    <2>1. \A q \in Procs, r \in Runs : op'[q][r] = op[q][r] \/ op'[q][r].pc = "idle"
        BY <1>0, <1>4 DEF Crash, TypeOK, IdleOp
    <2>2. QED BY <2>1, OpFormSame
<1>5. CASE \/ (\E isReady \in BOOLEAN : Admit(isReady)) \/ UNCHANGED vars
           \/ (\E r \in Runs : Prepared(r) \/ RunFails(r) \/ RequestTaskSandboxRelease(r))
           \/ PodReady \/ PodFails \/ PodLost \/ (\E k \in Kinds : Terminated(k))
    BY <1>1, <1>5 DEF Admit, Prepared, RunFails, RequestTaskSandboxRelease, PodReady, PodFails,
                      PodLost, Terminated, vars
<1>6. CASE \E p \in Reapers : PreparationFails(p) \/ ReapStep(p)
    <2>1. UNCHANGED op
        BY <1>6 DEF PreparationFails, ReapStep, FailUnprepared, ReapLoad, ReapLook, ReapObserved,
                    ReapObservationFails, ReapPlan, ReapReload, ReapClaim, ReapDelete,
                    ReapInspected, ReapCallFails, ReapAborts, ReapDrain, ReapInventoried,
                    ReapComplete, ReapUnclaim
    <2>2. QED BY <1>1, <2>1
<1>7. QED BY <1>2, <1>3, <1>4, <1>5, <1>6 DEF Next, Environment

-----------------------------------------------------------------------------
(* What a step does with a reaper, label by label.                         *)

\* Labels at which the reaper has claimed the row it holds.
Claimed == {"delete", "inspect", "drain", "inventory", "complete"}

\* What it holds after its decision is the row as it was decided on, or as it
\* is stored now; no operation of its own process is at work on a startup.
HeldForm(p) ==
    LET q == reap[p]
        n == reap'[p] IN
    n.pc \in Late /\ n.target # NoRun =>
        \/ q.pc \in Late /\ n.target = q.target /\ n.held = q.held
        \/ /\ n.held = run'[n.target] /\ UNCHANGED op
           /\ CleanupState(n.held) \/ op[p][n.target].pc = "idle"

\* It plans with a row read before the Pod.
PlanForm(p) ==
    LET q == reap[p]
        n == reap'[p] IN
    n.pc \in {"observe", "plan"} /\ n.target # NoRun =>
        \/ /\ q.pc \in {"observe", "plan"} /\ n.target = q.target /\ n.held = q.held
           /\ "Pod" \notin n.todo =>
                \/ "Pod" \notin q.todo /\ n.view["Pod"] = q.view["Pod"]
                \/ n.view["Pod"] = cluster["Pod"] /\ UNCHANGED <<run, cluster, lost>>
           /\ n.pc = "plan" => n = q \/ n.todo = {}
        \/ n.pc = "observe" /\ n.todo = Kinds /\ n.held = run[n.target] /\ UNCHANGED run

\* It deletes, reads and decides under a claim.
ClaimForm(p) ==
    LET q == reap[p]
        n == reap'[p] IN
    n.pc \in Claimed /\ n.target # NoRun =>
        \/ q.pc \in Claimed /\ n.target = q.target
        \/ /\ CanClaimCleanup(run[n.target], q.held.token)
           /\ run'[n.target] = ClaimCleanup(run[n.target])

\* It releases what it did not find in its final inventory.
CleanForm(p) ==
    LET q == reap[p]
        n == reap'[p] IN
    n.pc \in {"inventory", "complete"} =>
        /\ \A k \in Kinds : k \notin n.todo =>
              \/ /\ q.pc \in {"inventory", "complete"} /\ q.target = n.target
                 /\ k \notin q.todo /\ n.view[k] = q.view[k]
              \/ n.view[k] = cluster[k] /\ UNCHANGED cluster
        /\ n.pc = "complete" => n = q \/ (n.todo = {} /\ OwnedBy(n.view, n.target) = {})

\* It doubts a Run only after an unowned failure.
ReapForm(p) ==
    /\ HeldForm(p) /\ PlanForm(p) /\ ClaimForm(p) /\ CleanForm(p)
    /\ reap'[p].pc = "doubt" => reap[p].pc = "doubt" \/ "unowned" \in FaultKinds

\* A reaper that nothing happens to, or that stops.
LEMMA ReapFormSame ==
    ASSUME NEW p \in Procs, reap'[p] = reap[p] \/ reap'[p].pc \in {"idle", "reload"}
    PROVE  ReapForm(p)
BY DEF ReapForm, HeldForm, PlanForm, ClaimForm, CleanForm, Late, Claimed

\* A reaper that only goes on to a label.
LEMMA ReapFormGoto ==
    ASSUME TypeOK, NEW p \in Procs, NEW label, ReapGoto(p, label),
           \/ label = "plan" /\ reap[p].pc = "observe" /\ reap[p].todo = {}
           \/ label = "reload"
           \/ label \in {"unclaim", "clear"} /\ reap[p].pc \in Late
           \/ label = "drain" /\ reap[p].pc = "inspect"
           \/ /\ label = "complete" /\ reap[p].pc = "inventory" /\ reap[p].todo = {}
              /\ OwnedBy(reap[p].view, reap[p].target) = {}
    PROVE  ReapForm(p)
<1>1. reap[p] \in ReapType /\ reap'[p] = [reap[p] EXCEPT !.pc = label]
    BY DEF TypeOK, ReapGoto, SetReap
<1>2. /\ reap'[p].pc = label /\ reap'[p].target = reap[p].target /\ reap'[p].held = reap[p].held
      /\ reap'[p].todo = reap[p].todo /\ reap'[p].view = reap[p].view
    BY <1>1 DEF ReapType
<1>3. QED BY <1>2 DEF ReapForm, HeldForm, PlanForm, ClaimForm, CleanForm, Late, Claimed

\* Loading and reading.
LEMMA ReapReadForm ==
    ASSUME TypeOK, NEW p \in Procs, ReapLoad(p) \/ ReapLook(p) \/ ReapReload(p)
    PROVE  ReapForm(p)
<1> DEFINE q == reap[p]
           t == CurrentTarget
           doomed == t # NoRun /\ (CleanupState(run[t]) \/ DrainNow(p, t, run[t]))
<1>0. q \in ReapType /\ UNCHANGED <<run, op, cluster, lost>>
    BY DEF TypeOK, ReapLoad, ReapLook, ReapReload, store, kube
<1>1. CASE ReapLoad(p)
    <2>1. PICK d \in Runs \cup {NoRun} :
             reap'[p] = Reading([IdleReap EXCEPT !.target = t, !.held = RowOf(t), !.drain = d],
                                "observe")
        <3>1. t \in Runs \cup {NoRun}
            BY DEF TypeOK, CurrentTarget
        <3>2. QED BY <1>1, <3>1 DEF ReapLoad, SetReap, TypeOK
    <2>2. /\ reap'[p].pc = "observe" /\ reap'[p].target = t /\ reap'[p].held = RowOf(t)
          /\ reap'[p].todo = Kinds
        BY <2>1 DEF Reading, IdleReap
    <2>3. QED BY <1>0, <2>2
              DEF ReapForm, HeldForm, PlanForm, ClaimForm, CleanForm, Late, Claimed, RowOf
<1>2. CASE ReapLook(p)
    <2>1. PICK k \in Kinds : SetReap(p, [q EXCEPT !.view[k] = cluster[k], !.todo = @ \ {k}])
        BY <1>0, <1>2 DEF ReapLook, NextToCreate, ReapType
    <2>2. reap'[p] = [q EXCEPT !.view[k] = cluster[k], !.todo = q.todo \ {k}]
        BY <2>1 DEF SetReap, TypeOK
    <2>3. /\ reap'[p].pc = q.pc /\ reap'[p].target = q.target /\ reap'[p].held = q.held
          /\ reap'[p].todo = q.todo \ {k} /\ reap'[p].view = [q.view EXCEPT ![k] = cluster[k]]
        BY <1>0, <2>2 DEF ReapType
    <2>4. \A j \in Kinds : reap'[p].view[j] = IF j = k THEN cluster[k] ELSE q.view[j]
        BY <1>0, <2>3 DEF ReapType
    <2>5. q.pc \in {"observe", "inspect", "inventory"} /\ "Pod" \in Kinds
        BY <1>2, LifecycleConstants DEF ReapLook, LifecycleConstants
    <2>6. QED BY <1>0, <2>3, <2>4, <2>5
              DEF ReapForm, HeldForm, PlanForm, ClaimForm, CleanForm, Late, Claimed
<1>3. CASE ReapReload(p)
    <2>1. reap'[p] = [q EXCEPT !.pc = "claim", !.target = IF doomed THEN t ELSE NoRun,
                               !.held = IF doomed THEN run[t] ELSE BlankRun]
        BY <1>3 DEF ReapReload, SetReap, TypeOK
    <2>2. /\ reap'[p].pc = "claim" /\ reap'[p].target = (IF doomed THEN t ELSE NoRun)
          /\ reap'[p].held = IF doomed THEN run[t] ELSE BlankRun
        BY <1>0, <2>1 DEF ReapType
    <2>3. reap'[p].target # NoRun => reap'[p].held = run[t] /\ reap'[p].target = t
                                     /\ (CleanupState(run[t]) \/ op[p][t].pc = "idle")
        BY <2>2 DEF DrainNow, LocalOp
    <2>4. QED BY <1>0, <2>2, <2>3
              DEF ReapForm, HeldForm, PlanForm, ClaimForm, CleanForm, Late, Claimed
<1>4. QED BY <1>1, <1>2, <1>3

\* After its deletions the reaper reads what it claimed, or stops.
LEMMA AfterDeletesForm ==
    ASSUME NEW q \in ReapType, q.pc = "delete"
    PROVE  LET n == AfterDeletes(q) IN
           \/ n.pc = "idle"
           \/ n.pc \in {"delete", "inspect"} /\ n.target = q.target /\ n.held = q.held
<1>1. CASE q.todo # {}
    BY <1>1 DEF AfterDeletes
<1>2. CASE q.todo = {} /\ q.target = NoRun
    BY <1>2 DEF AfterDeletes, IdleReap
<1>3. CASE q.todo = {} /\ q.target # NoRun
    <2>1. AfterDeletes(q) = [q EXCEPT !.pc = "inspect", !.todo = Kinds]
        BY <1>3 DEF AfterDeletes, Reading
    <2>2. QED BY <2>1 DEF ReapType
<1>4. QED BY <1>1, <1>2, <1>3

\* A reaper that deletes: what it holds it held, or has claimed in this step.
LEMMA ReapFormDelete ==
    ASSUME TypeOK, NEW p \in Procs, NEW q \in ReapType, q.pc = "delete",
           SetReap(p, AfterDeletes(q)), UNCHANGED op,
           \/ q.target = NoRun
           \/ reap[p].pc = "delete" /\ q.target = reap[p].target /\ q.held = reap[p].held
           \/ /\ CanClaimCleanup(run[q.target], reap[p].held.token)
              /\ run'[q.target] = ClaimCleanup(run[q.target]) /\ q.held = run'[q.target]
              /\ CleanupState(q.held) \/ op[p][q.target].pc = "idle"
    PROVE  ReapForm(p)
<1>1. reap'[p] = AfterDeletes(q)
    BY DEF SetReap, TypeOK
<1>2. CASE reap'[p].pc = "idle"
    BY <1>2, ReapFormSame
<1>3. CASE reap'[p].pc \in {"delete", "inspect"} /\ reap'[p].target = q.target /\ reap'[p].held = q.held
    BY <1>3 DEF ReapForm, HeldForm, PlanForm, ClaimForm, CleanForm, Late, Claimed
<1>4. QED BY <1>1, <1>2, <1>3, AfterDeletesForm

\* A reaper that stops.
LEMMA ReapFormEnds ==
    ASSUME TypeOK, NEW p \in Procs, ReapEnd(p)
    PROVE  ReapForm(p)
<1>1. reap'[p].pc = "idle"
    BY DEF ReapEnd, SetReap, TypeOK, IdleReap
<1>2. QED BY <1>1, ReapFormSame

\* A preparation that failed.
LEMMA PreparationForm ==
    ASSUME TypeOK, NEW p \in Procs, PreparationFails(p)
    PROVE  ReapForm(p)
<1>1. reap'[p].pc = "doubt" /\ "unowned" \in FaultKinds
    BY DEF PreparationFails, SetReap, TypeOK, IdleReap, Fault
<1>2. QED BY <1>1 DEF ReapForm, HeldForm, PlanForm, ClaimForm, CleanForm, Late, Claimed

\* Steps of the reaper that only go on, or stop.
LEMMA ReapOnForm ==
    ASSUME TypeOK, NEW p \in Procs,
           \/ ReapObserved(p) \/ ReapObservationFails(p) \/ ReapPlan(p) \/ ReapCallFails(p)
           \/ ReapDrain(p) \/ ReapInventoried(p) \/ ReapComplete(p) \/ ReapUnclaim(p)
           \/ FailUnprepared(p) \/ ReapAborts(p)
    PROVE  ReapForm(p)
<1>1. CASE ReapObserved(p) \/ ReapPlan(p)
    BY <1>1, ReapFormGoto DEF ReapObserved, ReapPlan
<1>2. CASE ReapObservationFails(p) \/ ReapUnclaim(p) \/ FailUnprepared(p) \/ ReapAborts(p)
    BY <1>2, ReapFormEnds DEF ReapObservationFails, ReapUnclaim, FailUnprepared, ReapAborts
<1>3. CASE ReapCallFails(p)
    <2>1. reap[p].pc \in Late /\ ReapGoto(p, "unclaim")
        BY <1>3 DEF ReapCallFails, Late
    <2>2. QED BY <2>1, ReapFormGoto
<1>4. CASE ReapDrain(p) \/ ReapComplete(p)
    <2>1. reap[p].pc \in Late /\ (ReapGoto(p, "unclaim") \/ ReapEnd(p))
        BY <1>4 DEF ReapDrain, ReapComplete, Late
    <2>2. QED BY <2>1, ReapFormGoto, ReapFormEnds
<1>5. CASE ReapInventoried(p)
    <2>1. /\ reap[p].pc = "inventory" /\ reap[p].todo = {}
          /\ \/ ReapGoto(p, "clear")
             \/ ReapGoto(p, "complete") /\ OwnedBy(reap[p].view, reap[p].target) = {}
        BY <1>5 DEF ReapInventoried
    <2>2. reap[p].pc \in Late
        BY <2>1 DEF Late
    <2>3. CASE ReapGoto(p, "clear")
        BY <2>2, <2>3, ReapFormGoto
    <2>4. CASE ReapGoto(p, "complete") /\ OwnedBy(reap[p].view, reap[p].target) = {}
        BY <2>1, <2>4, ReapFormGoto
    <2>5. QED BY <2>1, <2>3, <2>4
<1>6. QED BY <1>1, <1>2, <1>3, <1>4, <1>5

\* The judgement of the exact reads.
LEMMA ReapInspectedForm ==
    ASSUME TypeOK, NEW p \in Procs, ReapInspected(p)
    PROVE  ReapForm(p)
<1>1. reap[p].pc = "inspect" /\ reap[p].pc \in Late /\ reap[p] \in ReapType
    BY DEF ReapInspected, Late, TypeOK
<1>2. \/ ReapGoto(p, "unclaim") \/ ReapGoto(p, "clear") \/ ReapGoto(p, "drain")
      \/ SetReap(p, Reading(reap[p], "inventory"))
    BY DEF ReapInspected
<1>3. CASE SetReap(p, Reading(reap[p], "inventory"))
    <2>1. reap'[p] = [reap[p] EXCEPT !.pc = "inventory", !.todo = Kinds]
        BY <1>3 DEF SetReap, TypeOK, Reading
    <2>2. /\ reap'[p].pc = "inventory" /\ reap'[p].target = reap[p].target
          /\ reap'[p].held = reap[p].held /\ reap'[p].todo = Kinds
        BY <1>1, <2>1 DEF ReapType
    <2>3. QED BY <1>1, <2>2 DEF ReapForm, HeldForm, PlanForm, ClaimForm, CleanForm, Late, Claimed
<1>4. QED BY <1>1, <1>2, <1>3, ReapFormGoto

\* The claim.
LEMMA ReapClaimForm ==
    ASSUME TypeOK, NEW p \in Procs, ReapClaim(p)
    PROVE  ReapForm(p)
<1> DEFINE t == reap[p].target
           own == {k \in Kinds : reap[p].view[k].run = t /\ ~reap[p].view[k].terminating}
           first == [reap[p] EXCEPT !.pc = "delete", !.target = NoRun, !.held = BlankRun,
                                    !.todo = Orphans(reap[p])]
           second == [reap[p] EXCEPT !.pc = "delete", !.held = ClaimCleanup(run[t]),
                                     !.todo = own \cup Orphans(reap[p])]
<1>0. /\ reap[p] \in ReapType /\ reap[p].pc = "claim" /\ UNCHANGED op /\ "delete" \in ReapLabels
      /\ t \in Runs \cup {NoRun}
    BY DEF TypeOK, ReapClaim, kube, ReapLabels, ReapType
<1>1. Orphans(reap[p]) \in SUBSET Kinds /\ own \cup Orphans(reap[p]) \in SUBSET Kinds
    BY DEF Orphans
<1>2. CASE SetReap(p, AfterDeletes(first))
    <2>1. first \in ReapType /\ first.pc = "delete" /\ first.target = NoRun
        BY <1>0, <1>1, NewRowType DEF ReapType
    <2>2. PICK q \in ReapType : q = first
        BY <2>1
    <2>3. QED BY <1>0, <1>2, <2>1, <2>2, ReapFormDelete
<1>3. CASE /\ t # NoRun /\ ~LocalOp(p, t) /\ CanClaimCleanup(run[t], reap[p].held.token)
           /\ SetRun(t, ClaimCleanup(run[t])) /\ HasRoom(run[t])
           /\ SetReap(p, AfterDeletes(second))
    <2>1. run'[t] = ClaimCleanup(run[t])
        BY <1>0, <1>3, ClaimReaps
    <2>2. ClaimCleanup(run[t]) \in RunType
        <3>1. run[t] \in RunType /\ Unreleased(run[t])
            BY <1>0, <1>3 DEF TypeOK, CanClaimCleanup, CleanupState, DrainEligible, Unreleased
        <3>2. QED BY <1>3, <3>1, FencedRowType
    <2>3. /\ second \in ReapType /\ second.pc = "delete"
          /\ second.target = t /\ second.held = ClaimCleanup(run[t])
        BY <1>0, <1>1, <2>2 DEF ReapType
    <2>4. op[p][t].pc = "idle"
        BY <1>3 DEF LocalOp
    <2>5. PICK q \in ReapType : q = second
        BY <2>3
    <2>6. QED BY <1>0, <1>3, <2>1, <2>3, <2>4, <2>5, ReapFormDelete
<1>4. QED BY <1>2, <1>3 DEF ReapClaim

\* A deletion.
LEMMA ReapDeleteForm ==
    ASSUME TypeOK, NEW p \in Procs, ReapDelete(p)
    PROVE  ReapForm(p)
<1>0. reap[p] \in ReapType /\ reap[p].pc = "delete" /\ UNCHANGED <<run, op>>
    BY DEF TypeOK, ReapDelete, store
<1>1. PICK todo \in SUBSET Kinds, broken \in SUBSET Kinds :
        SetReap(p, AfterDeletes([reap[p] EXCEPT !.todo = todo, !.broken = broken]))
    BY ReapDeletes
<1> DEFINE n == [reap[p] EXCEPT !.todo = todo, !.broken = broken]
<1>2. n \in ReapType /\ n.pc = "delete" /\ n.target = reap[p].target /\ n.held = reap[p].held
    BY <1>0 DEF ReapType
<1>3. PICK q \in ReapType : q = n
    BY <1>2
<1>4. QED BY <1>0, <1>1, <1>2, <1>3, ReapFormDelete

\* A startup operation changes no reaper, and nothing that is in Kubernetes.
LEMMA OpKept ==
    ASSUME NEW p \in Procs, NEW r \in Runs, OpStart(p, r) \/ OpStep(p, r)
    PROVE  UNCHANGED <<reap, current, settled, cluster, nextUid, lost>>
<1>1. CASE \/ OpStart(p, r) \/ OpPrepare(p, r) \/ OpObserve(p, r) \/ OpActionDone(p, r)
           \/ OpActionFails(p, r) \/ OpActionUnknown(p, r) \/ OpReconcile(p, r)
           \/ OpReconcileOpen(p, r) \/ OpIdentify(p, r) \/ OpFail(p, r) \/ OpCallFails(p, r)
    BY <1>1 DEF OpStart, OpPrepare, OpObserve, OpActionDone, OpActionFails, OpActionUnknown,
                OpReconcile, OpReconcileOpen, OpIdentify, OpFail, OpCallFails, store, kube
<1>2. CASE OpApply(p, r)
    BY <1>2 DEF OpApply, store
<1>3. CASE \/ OpClaim(p, r) \/ OpConfig(p, r) \/ OpBegin(p, r) \/ OpRecover(p, r)
           \/ OpComplete(p, r) \/ OpRecord(p, r) \/ OpActivate(p, r) \/ OpFailing(p, r)
    BY <1>3 DEF OpClaim, OpConfig, OpBegin, OpRecover, OpComplete, OpRecord, OpActivate,
                OpFailing, kube
<1>4. QED BY <1>1, <1>2, <1>3 DEF OpStep

\* Every step of every reaper, but for the clock.
LEMMA ReapForms ==
    ASSUME TypeOK, [Next]_vars, ~Tick
    PROVE  \A p \in Procs : ReapForm(p)
<1>1. CASE UNCHANGED reap
    BY <1>1, ReapFormSame
<1>2. CASE \E p \in Reapers : PreparationFails(p) \/ ReapStep(p)
    <2>1. PICK p \in Procs : PreparationFails(p) \/ ReapStep(p)
        BY <1>2, LifecycleConstants DEF LifecycleConstants
    <2>2. ReapForm(p)
        BY <2>1, PreparationForm, ReapReadForm, ReapOnForm, ReapInspectedForm, ReapClaimForm,
           ReapDeleteForm DEF ReapStep
    <2>3. \A q \in Procs : q # p => reap'[q] = reap[q]
        <3>1. \E n : SetReap(p, n)
            BY <2>1 DEF PreparationFails, ReapStep, FailUnprepared, ReapLoad, ReapLook,
                        ReapObserved, ReapObservationFails, ReapPlan, ReapReload, ReapClaim,
                        ReapDelete, ReapInspected, ReapCallFails, ReapAborts, ReapDrain,
                        ReapInventoried, ReapComplete, ReapUnclaim, ReapGoto, ReapEnd
        <3>2. QED BY <3>1 DEF SetReap, TypeOK
    <2>4. QED BY <2>2, <2>3, ReapFormSame
<1>3. CASE \E p \in Procs : Crash(p)
    <2>1. \A p \in Procs : reap'[p] = reap[p] \/ reap'[p].pc = "idle"
        BY <1>3 DEF Crash, TypeOK, IdleReap
    <2>2. QED BY <2>1, ReapFormSame
<1>4. CASE \/ (\E isReady \in BOOLEAN : Admit(isReady)) \/ UNCHANGED vars
           \/ (\E r \in Runs : Prepared(r) \/ RunFails(r) \/ RequestTaskSandboxRelease(r))
           \/ (\E e \in inflight : Land(e))
           \/ PodReady \/ PodFails \/ PodLost \/ (\E k \in Kinds : Terminated(k))
    BY <1>1, <1>4 DEF Admit, Prepared, RunFails, RequestTaskSandboxRelease, PodReady, PodFails,
                      PodLost, Terminated, vars, Land
<1>5. ASSUME NEW p \in Procs, NEW r \in Runs, OpStart(p, r) \/ OpStep(p, r)
      PROVE  UNCHANGED reap
    BY <1>5, OpKept
<1>6. QED BY <1>1, <1>2, <1>3, <1>4, <1>5 DEF Next, Environment

-----------------------------------------------------------------------------
(* What the reaper writes back is what it read.                            *)

\* Nothing is claimed or begun before the workspace is ready.
ReadyFirst ==
    \A r \in Runs : run[r].state = "starting" /\ ~run[r].ready =>
        run[r].claim = NoClaim /\ run[r].deadline = Unset

\* A second request finds a row it need not change.
RequestedKeeps ==
    \A r \in Runs : run[r].state = "release_requested" =>
        /\ run[r].reason # "none"
        /\ run[r].deadline = Unset => run[r].claim = NoClaim /\ run[r].lease = Unset

\* While the reaper holds the row of a stuck startup as it is stored, no
\* operation is at work on that startup: its own process has none, and there
\* is no other.
Waits == {"idle", "claim", "fail", "failing"}
HeldAlone ==
    \A p \in Procs :
        LET t == reap[p].target IN
        /\ reap[p].pc \in Late /\ t # NoRun /\ run[t].state = "starting"
        /\ reap[p].held.token = run[t].token
        => /\ reap[p].held = run[t]
           /\ \A q \in Procs : op[q][t].pc \in Waits

SoloInv == DoomInv /\ PhaseTold /\ ReadyFirst /\ RequestedKeeps /\ HeldAlone

\* A row that may be written back is the stored one.
LEMMA HeldIsRow ==
    ASSUME SoloInv, NEW p \in Procs, NEW r \in Runs, reap[p].target = r,
           CanUpdate(run[r], reap[p].held), reap[p].pc \in Late \/ CleanupState(reap[p].held)
    PROVE  reap[p].held = run[r]
<1>1. SnapshotFenced /\ HeldSame /\ HeldAlone
    BY DEF SoloInv, DoomInv, OwnInv, IInv, Ownership
<1>2. r # NoRun
    BY DEF Runs, NoRun
<1>3. reap[p].held.token = run[r].token /\ reap[p].held.state = run[r].state
    BY <1>1, <1>2 DEF CanUpdate, SnapshotFenced
<1>4. CASE run[r].state = "starting"
    BY <1>1, <1>2, <1>3, <1>4 DEF HeldAlone, CleanupState
<1>5. CASE run[r].state # "starting"
    BY <1>1, <1>2, <1>3, <1>5 DEF HeldSame
<1>6. QED BY <1>4, <1>5

(* The row before and after a step, as far as any proof below needs it.    *)

\* A transaction of a startup, which keeps the fence, ...
RowWorked(r) ==
    LET o == run[r]
        n == run'[r] IN
    /\ o.state = "starting" /\ n.state = "starting" /\ n.token = o.token /\ o.ready /\ n.ready
    /\ \E p \in Procs :
        LET a == op[p][r] IN
        \/ /\ a.pc = "claim" /\ a.tok = o.token /\ o.deadline = Unset
           /\ n.deadline = Unset /\ n.pod = o.pod
        \/ /\ Owns(p, r)
           /\ \/ a.pc = "config" /\ n.deadline = o.deadline /\ n.pod = o.pod
              \/ a.pc = "begin" /\ o.deadline = Unset /\ n.deadline = ActionTimeout /\ n.pod = o.pod
              \/ /\ a.pc \in {"complete", "recover"} /\ o.deadline = a.left
                 /\ n.deadline = Unset /\ n.pod = o.pod
              \/ /\ a.pc = "record" /\ o.pod \in {NoPod, a.pod}
                 /\ n.deadline = o.deadline /\ n.pod = a.pod

\* ... the preparation, ...
RowReadied(r) ==
    LET o == run[r]
        n == run'[r] IN
    /\ o.state = "starting" /\ ~o.ready
    /\ n.state = "starting" /\ n.ready /\ n.token = o.token
    /\ n.claim = o.claim /\ n.deadline = o.deadline /\ n.pod = o.pod

\* ... the activation, ...
RowActivated(r) ==
    LET o == run[r]
        n == run'[r] IN
    /\ o.state = "starting" /\ n.state = "active" /\ n.token = o.token + 1
    /\ n.deadline = Unset /\ n.pod = o.pod
    /\ \E p \in Procs : Owns(p, r) /\ op[p][r].pc = "activate" /\ op[p][r].pod = o.pod

\* ... a failure, ...
RowFailed(r) ==
    LET o == run[r]
        n == run'[r] IN
    /\ Startable(o) /\ n.state = "failed" /\ n.token = o.token + 1
    /\ n.deadline = Unset /\ n.pod = o.pod
    /\ \/ o.state = "active"
       \/ \E p \in Procs : reap[p].pc = "doubt"
       \/ \E p \in Procs : op[p][r].pc = "failing" /\ op[p][r].tok = o.token
       \/ \E p \in Procs : /\ reap[p].target = r /\ reap[p].pc = "plan" /\ Startable(reap[p].held)
                           /\ ~DrainNow(p, r, reap[p].held) /\ PodGone(reap[p])
       \/ o.state = "starting" /\ Passed(o.deadline)

\* ... a request to release, ...
RowWanted(r) ==
    LET o == run[r]
        n == run'[r] IN
    /\ Unreleased(o) /\ n.state = "release_requested" /\ n.token = o.token + 1
    /\ n.reason # "none" /\ n.pod = o.pod /\ n.deadline = o.deadline
    /\ n.deadline = Unset => n.claim = NoClaim /\ n.lease = Unset
    /\ o.state = "release_requested" => n = [o EXCEPT !.token = @ + 1, !.cleanup = n.cleanup]

\* ... the reaper's claim, taken or given back, ...
RowHandled(r) ==
    LET o == run[r]
        n == run'[r] IN
    /\ CleanupState(o) \/ DrainEligible(o)
    /\ n = [o EXCEPT !.token = @ + 1, !.cleanup = n.cleanup]
    /\ n.token = o.token + 1 /\ n.state = o.state /\ n.ready = o.ready /\ n.reason = o.reason
    /\ n.claim = o.claim /\ n.lease = o.lease /\ n.deadline = o.deadline /\ n.pod = o.pod

\* ... and the release.
RowReleased(r) ==
    LET o == run[r]
        n == run'[r] IN
    /\ Unreleased(o) /\ ~Open(o.deadline)
    /\ n.state = "released" /\ n.token = o.token + 1 /\ n.deadline = Unset
    /\ \E p \in Procs : reap[p].target = r /\ reap[p].pc = "complete"

RowChange(r) ==
    \/ run'[r] = run[r] \/ RowWorked(r) \/ RowReadied(r) \/ RowActivated(r) \/ RowFailed(r)
    \/ RowWanted(r) \/ RowHandled(r) \/ RowReleased(r) \/ RowAdmitted(r)

\* What fails.
LEMMA FailRow ==
    ASSUME NEW o \in RunType
    PROVE  /\ Fail(o).state = "failed" /\ Fail(o).token = o.token + 1
           /\ Fail(o).deadline = Unset /\ Fail(o).pod = o.pod
BY DEF Fail, Bump, EndStartup, RunType

\* What the reaper claims or gives back.
LEMMA CleanupRows ==
    ASSUME NEW o \in RunType, NEW n, n = ClaimCleanup(o) \/ n = ClearCleanup(o)
    PROVE  /\ n = [o EXCEPT !.token = @ + 1, !.cleanup = n.cleanup]
           /\ n.token = o.token + 1 /\ n.state = o.state /\ n.ready = o.ready
           /\ n.reason = o.reason /\ n.claim = o.claim /\ n.lease = o.lease
           /\ n.deadline = o.deadline /\ n.pod = o.pod
BY DEF ClaimCleanup, ClearCleanup, Bump, RunType

\* What is requested again.
LEMMA RepeatedRow ==
    ASSUME NEW o \in RunType, NEW n, n = RequestRelease(o),
           o.state = "release_requested", o.reason # "none",
           o.deadline = Unset => o.claim = NoClaim /\ o.lease = Unset
    PROVE  n = [o EXCEPT !.token = @ + 1, !.cleanup = n.cleanup]
<1>1. CASE IsSet(o.deadline)
    BY <1>1 DEF RequestRelease, Bump, IsSet, RunType
<1>2. CASE ~IsSet(o.deadline)
    BY <1>2 DEF RequestRelease, Bump, EndStartup, IsSet, RunType
<1>3. QED BY <1>1, <1>2

\* The transactions of a startup.
LEMMA StartsChange ==
    ASSUME SoloInv, NEW r \in Runs, RowStarts(r)
    PROVE  RowChange(r)
<1> DEFINE o == run[r]
           n == run'[r]
<1>0. o \in RunType /\ TypeOK
    BY DEF SoloInv, DoomInv, OwnInv, IInv, TypeOK
<1>1. PICK p \in Procs :
        LET a == op[p][r] IN
        \/ a.pc = "claim" /\ \E c : CanClaimStartup(o, a.tok, c) /\ n = ClaimStartup(o, c)
        \/ a.pc = "config" /\ OwnsStartup(o, a.tok, a.claim) /\ n = InitConfig(o)
        \/ a.pc = "begin" /\ CanBeginAction(o, a.tok, a.claim) /\ n = BeginAction(o)
        \/ /\ a.pc \in {"complete", "recover"} /\ OwnsAction(o, a.tok, a.claim, a.left)
           /\ n = CompleteAction(o) \/ n = RecoverAction(o)
        \/ a.pc = "record" /\ CanRecordPod(o, a.tok, a.claim, a.pod) /\ n = RecordPod(o, a.pod)
        \/ /\ a.pc = "activate" /\ CanActivate(o, a.tok, a.claim, a.left, a.inTime, a.pod)
           /\ n = Activate(o)
        \/ a.pc = "failing" /\ CanFail(o, a.tok) /\ n = Fail(o)
    BY DEF RowStarts
<1> DEFINE a == op[p][r]
<1>2. ASSUME a.pc \in Owning, OwnsStartup(o, a.tok, a.claim)
      PROVE  Owns(p, r) /\ o.ready /\ o.state = "starting"
    <2>1. a.claim \in Claims
        BY <1>2 DEF SoloInv, DoomInv, OwnInv, Ownership, ClaimsUnique, Holding
    <2>2. o.claim # NoClaim
        BY <1>2, <2>1, RunConstants DEF OwnsStartup, RunConstants
    <2>3. QED BY <1>0, <1>2, <2>2 DEF SoloInv, ReadyFirst, RunType, OwnsStartup, Owns
<1>3. CASE a.pc = "claim"
    <2>1. PICK c : CanClaimStartup(o, a.tok, c) /\ n = ClaimStartup(o, c)
        BY <1>1, <1>3
    <2>2. /\ o.state = "starting" /\ a.tok = o.token /\ o.ready /\ o.deadline = Unset
        BY <2>1 DEF CanClaimStartup, StartupStale, StartupInProgress, IsSet
    <2>3. /\ n.state = o.state /\ n.token = o.token /\ n.ready = o.ready
          /\ n.deadline = o.deadline /\ n.pod = o.pod
        BY <1>0, <2>1 DEF ClaimStartup, RunType
    <2>4. QED BY <1>3, <2>2, <2>3 DEF RowChange, RowWorked
<1>4. CASE a.pc = "config"
    <2>1. OwnsStartup(o, a.tok, a.claim) /\ n = InitConfig(o)
        BY <1>1, <1>4
    <2>2. /\ n.state = o.state /\ n.token = o.token /\ n.ready = o.ready
          /\ n.deadline = o.deadline /\ n.pod = o.pod
        BY <1>0, <2>1 DEF InitConfig, RunType
    <2>3. Owns(p, r) /\ o.ready /\ o.state = "starting"
        BY <1>2, <1>4, <2>1 DEF Owning
    <2>4. QED BY <1>4, <2>2, <2>3 DEF RowChange, RowWorked
<1>5. CASE a.pc = "begin"
    <2>1. CanBeginAction(o, a.tok, a.claim) /\ n = BeginAction(o)
        BY <1>1, <1>5
    <2>2. /\ n.state = o.state /\ n.token = o.token /\ n.ready = o.ready
          /\ n.deadline = ActionTimeout /\ n.pod = o.pod
        BY <1>0, <2>1 DEF BeginAction, RunType
    <2>3. Owns(p, r) /\ o.ready /\ o.state = "starting" /\ o.deadline = Unset
        BY <1>2, <1>5, <2>1 DEF Owning, CanBeginAction, IsSet
    <2>4. QED BY <1>5, <2>2, <2>3 DEF RowChange, RowWorked
<1>6. CASE a.pc \in {"complete", "recover"}
    <2>1. OwnsAction(o, a.tok, a.claim, a.left) /\ (n = CompleteAction(o) \/ n = RecoverAction(o))
        BY <1>1, <1>6
    <2>2. /\ n.state = o.state /\ n.token = o.token /\ n.ready = o.ready
          /\ n.deadline = Unset /\ n.pod = o.pod
        BY <1>0, <2>1 DEF CompleteAction, RecoverAction, RunType
    <2>3. Owns(p, r) /\ o.ready /\ o.state = "starting" /\ o.deadline = a.left
        BY <1>2, <1>6, <2>1 DEF Owning, OwnsAction
    <2>4. QED BY <1>6, <2>2, <2>3 DEF RowChange, RowWorked
<1>7. CASE a.pc = "record"
    <2>1. CanRecordPod(o, a.tok, a.claim, a.pod) /\ n = RecordPod(o, a.pod)
        BY <1>1, <1>7
    <2>2. /\ n.state = o.state /\ n.token = o.token /\ n.ready = o.ready
          /\ n.deadline = o.deadline /\ n.pod = a.pod
        BY <1>0, <2>1 DEF RecordPod, RunType
    <2>3. Owns(p, r) /\ o.ready /\ o.state = "starting" /\ o.pod \in {NoPod, a.pod}
        BY <1>2, <1>7, <2>1 DEF Owning, CanRecordPod
    <2>4. QED BY <1>7, <2>2, <2>3 DEF RowChange, RowWorked
<1>8. CASE a.pc = "activate"
    <2>1. CanActivate(o, a.tok, a.claim, a.left, a.inTime, a.pod) /\ n = Activate(o)
        BY <1>1, <1>8
    <2>2. /\ n.state = "active" /\ n.token = o.token + 1
          /\ n.deadline = Unset /\ n.pod = o.pod
        BY <1>0, <2>1 DEF Activate, Bump, EndStartup, RunType
    <2>3. Owns(p, r) /\ o.ready /\ o.state = "starting" /\ a.pod = o.pod
        BY <1>2, <1>8, <2>1 DEF Owning, CanActivate, OwnsAction
    <2>4. QED BY <1>8, <2>2, <2>3 DEF RowChange, RowActivated
<1>9. CASE a.pc = "failing"
    BY <1>0, <1>1, <1>9, FailRow DEF RowChange, RowFailed, CanFail
<1>10. QED BY <1>1, <1>3, <1>4, <1>5, <1>6, <1>7, <1>8, <1>9

\* The requests and the preparation.
LEMMA RequestsChange ==
    ASSUME SoloInv, NEW r \in Runs, RowRequested(r)
    PROVE  RowChange(r)
<1> DEFINE o == run[r]
           n == run'[r]
<1>0. o \in RunType
    BY DEF SoloInv, DoomInv, OwnInv, IInv, TypeOK
<1>1. CASE o.state = "starting" /\ ~o.ready /\ n = MarkReady(o)
    <2>1. /\ n.state = "starting" /\ n.ready /\ n.token = o.token
          /\ n.claim = o.claim /\ n.deadline = o.deadline /\ n.pod = o.pod
        BY <1>0, <1>1 DEF MarkReady, RunType
    <2>2. QED BY <1>1, <2>1 DEF RowChange, RowReadied
<1>2. CASE o.state = "active" /\ n = Fail(o)
    BY <1>0, <1>2, FailRow DEF RowChange, RowFailed, Startable
<1>3. CASE Unreleased(o) /\ n = RequestRelease(o)
    <2>1. o.state = "release_requested" => n = [o EXCEPT !.token = @ + 1, !.cleanup = n.cleanup]
        BY <1>0, <1>3, RepeatedRow DEF SoloInv, RequestedKeeps
    <2>2. CASE IsSet(o.deadline)
        <3>1. /\ n.state = "release_requested" /\ n.token = o.token + 1 /\ n.reason # "none"
              /\ n.pod = o.pod /\ n.deadline = o.deadline /\ n.deadline # Unset
            BY <1>0, <1>3, <2>2 DEF RequestRelease, Bump, IsSet, RunType
        <3>2. QED BY <1>3, <2>1, <3>1 DEF RowChange, RowWanted
    <2>3. CASE ~IsSet(o.deadline)
        <3>1. /\ n.state = "release_requested" /\ n.token = o.token + 1 /\ n.reason # "none"
              /\ n.pod = o.pod /\ n.deadline = o.deadline
              /\ n.claim = NoClaim /\ n.lease = Unset
            BY <1>0, <1>3, <2>3 DEF RequestRelease, Bump, EndStartup, IsSet, RunType
        <3>2. QED BY <1>3, <2>1, <3>1 DEF RowChange, RowWanted
    <2>4. QED BY <2>2, <2>3
<1>4. CASE o.state = "unborn" /\ \E isReady \in BOOLEAN : n = AdmittedRun(isReady)
    BY <1>4 DEF RowChange, RowAdmitted
<1>5. QED BY <1>1, <1>2, <1>3, <1>4 DEF RowRequested

\* The transactions of a reaper.
LEMMA ReaperChanges ==
    ASSUME SoloInv, NEW r \in Runs, RowByReaper(r)
    PROVE  RowChange(r)
<1> DEFINE o == run[r]
           n == run'[r]
<1>0. o \in RunType /\ r # NoRun
    BY DEF SoloInv, DoomInv, OwnInv, IInv, TypeOK, Runs, NoRun
<1>1. PICK p \in Procs :
        LET q == reap[p] IN
        /\ q.target = r
        /\ \/ /\ q.pc = "plan" /\ Startable(q.held) /\ ~DrainNow(p, r, q.held) /\ PodGone(q)
              /\ Startable(o) /\ n = Fail(o)
           \/ q.pc = "doubt" /\ CanFail(o, q.held.token) /\ n = Fail(o)
           \/ q.pc = "drain" /\ CanDrain(o, q.held) /\ n = Fail(o)
           \/ q.pc = "claim" /\ CanClaimCleanup(o, q.held.token) /\ n = ClaimCleanup(o)
           \/ /\ CanUpdate(o, q.held) /\ (q.pc \in Late \/ CleanupState(q.held))
              /\ n = ClearCleanup(q.held)
           \/ q.pc = "complete" /\ CanCompleteRelease(o, q.held) /\ n = CompleteRelease(q.held)
    BY DEF RowByReaper
<1> DEFINE q == reap[p]
<1>2. ASSUME CleanupState(o) \/ DrainEligible(o), n = ClaimCleanup(o) \/ n = ClearCleanup(o)
      PROVE  RowHandled(r)
    <2>1. /\ n = [o EXCEPT !.token = @ + 1, !.cleanup = n.cleanup]
          /\ n.token = o.token + 1 /\ n.state = o.state /\ n.ready = o.ready
          /\ n.reason = o.reason /\ n.claim = o.claim /\ n.lease = o.lease
          /\ n.deadline = o.deadline /\ n.pod = o.pod
        BY <1>0, <1>2, CleanupRows
    <2>2. QED BY <1>2, <2>1 DEF RowHandled
<1>3. CASE q.pc = "plan" /\ Startable(q.held) /\ ~DrainNow(p, r, q.held) /\ PodGone(q)
           /\ Startable(o) /\ n = Fail(o)
    BY <1>0, <1>1, <1>3, FailRow DEF RowChange, RowFailed
<1>4. CASE q.pc = "drain" /\ CanDrain(o, q.held) /\ n = Fail(o)
    <2>1. Passed(o.deadline) /\ o.state = "starting"
        BY <1>4 DEF CanDrain, OwnsAction, OwnsStartup
    <2>2. QED BY <1>0, <1>4, <2>1, FailRow DEF RowChange, RowFailed, Startable
<1>5. CASE q.pc = "claim" /\ CanClaimCleanup(o, q.held.token) /\ n = ClaimCleanup(o)
    BY <1>2, <1>5 DEF RowChange, CanClaimCleanup
<1>6. CASE /\ CanUpdate(o, q.held) /\ (q.pc \in Late \/ CleanupState(q.held))
           /\ n = ClearCleanup(q.held)
    <2>1. q.held = o
        BY <1>1, <1>6, HeldIsRow
    <2>2. CleanupState(o) \/ DrainEligible(o)
        BY <1>0, <1>1, <1>6, <2>1 DEF SoloInv, DoomInv, OwnInv, Ownership, HeldDoomed
    <2>3. QED BY <1>2, <1>6, <2>1, <2>2 DEF RowChange
<1>7. CASE q.pc = "complete" /\ CanCompleteRelease(o, q.held) /\ n = CompleteRelease(q.held)
    <2>1. q.held \in RunType /\ Unreleased(o) /\ ~Open(o.deadline) /\ o.token = q.held.token
        BY <1>7 DEF SoloInv, DoomInv, OwnInv, IInv, TypeOK, ReapType, CanCompleteRelease
    <2>2. n.state = "released" /\ n.token = q.held.token + 1 /\ n.deadline = Unset
        BY <1>7, <2>1 DEF CompleteRelease, Bump, EndStartup, RunType
    <2>3. QED BY <1>1, <1>7, <2>1, <2>2 DEF RowChange, RowReleased
<1>8. CASE q.pc = "doubt" /\ CanFail(o, q.held.token) /\ n = Fail(o)
    BY <1>0, <1>8, FailRow DEF RowChange, RowFailed, CanFail
<1>9. QED BY <1>1, <1>3, <1>4, <1>5, <1>6, <1>7, <1>8

\* The invariant before a step, and what is kept of it already.
SoloMoved == SoloInv /\ DoomInv' /\ [Next]_vars

\* What a step that is not a tick does.
LEMMA SoloForms ==
    ASSUME SoloMoved, ~Tick
    PROVE  /\ Stepped
           /\ \A r \in Runs : RowForm(r)
           /\ \A r \in Runs : RowChange(r)
           /\ \A p \in Procs, r \in Runs : OpForm(p, r)
           /\ \A p \in Procs : ReapForm(p)
<1>1. IInv /\ PhaseTold /\ TypeOK /\ HeldDoomed /\ HeldSame /\ Phases /\ Ownership /\ IInv'
    BY DEF SoloMoved, SoloInv, DoomInv, OwnInv, Ownership, IInv
<1>2. Stepped
    BY <1>1, StepShapes DEF SoloMoved, Stepped
<1>3. \A r \in Runs : RowForm(r)
    BY <1>1, RowForms DEF SoloMoved
<1>4. \A r \in Runs : RowChange(r)
    BY <1>3, StartsChange, RequestsChange, ReaperChanges DEF SoloMoved, RowForm, RowChange
<1>5. QED BY <1>1, <1>2, <1>3, <1>4, OpForms, ReapForms DEF SoloMoved

\* What a tick does with a row.
LEMMA RowTicks ==
    ASSUME TypeOK, Tick, NEW r \in Runs
    PROVE  /\ run'[r].state = run[r].state /\ run'[r].token = run[r].token
           /\ run'[r].ready = run[r].ready /\ run'[r].reason = run[r].reason
           /\ run'[r].claim = run[r].claim /\ run'[r].pod = run[r].pod
           /\ run'[r].lease = Ticked(run[r].lease)
           /\ run'[r].deadline = Ticked(run[r].deadline)
           /\ run'[r].deadline = Unset <=> run[r].deadline = Unset
           /\ run[r].lease = Unset => run'[r].lease = Unset
<1>1. run[r] \in RunType /\ run'[r] = RowTicked(run[r])
    BY DEF TypeOK, Tick
<1>2. run[r].deadline \in Int /\ run[r].lease \in Int
    BY <1>1, RunConstants DEF RunType, Timer, RunConstants
<1>3. Ticked(run[r].deadline) = Unset <=> run[r].deadline = Unset
    BY <1>2, TickedDeadline DEF IsSet
<1>4. Ticked(Unset) = Unset
    BY DEF Ticked, Unset
<1>5. QED BY <1>1, <1>3, <1>4 DEF RowTicked, RunType

\* ReadyFirst is kept.
LEMMA ReadyFirstKept ==
    ASSUME SoloMoved
    PROVE  ReadyFirst'
<1>0. TypeOK /\ ReadyFirst
    BY DEF SoloMoved, SoloInv, DoomInv, OwnInv, IInv
<1>1. ASSUME NEW r \in Runs, run'[r].state = "starting", ~run'[r].ready
      PROVE  run'[r].claim = NoClaim /\ run'[r].deadline = Unset
    <2>1. CASE Tick
        BY <1>0, <1>1, <2>1, RowTicks DEF ReadyFirst
    <2>2. CASE RowAdmitted(r)
        BY <2>2 DEF RowAdmitted, AdmittedRun, BlankRun
    <2>3. QED BY <1>0, <1>1, <2>1, <2>2, SoloForms
              DEF ReadyFirst, RowChange, RowWorked, RowReadied, RowActivated, RowFailed, RowWanted,
                  RowHandled, RowReleased
<1>2. QED BY <1>1 DEF ReadyFirst

\* RequestedKeeps is kept.
LEMMA RequestedKept ==
    ASSUME SoloMoved
    PROVE  RequestedKeeps'
<1>0. TypeOK /\ RequestedKeeps
    BY DEF SoloMoved, SoloInv, DoomInv, OwnInv, IInv
<1>1. ASSUME NEW r \in Runs, run'[r].state = "release_requested"
      PROVE  /\ run'[r].reason # "none"
             /\ run'[r].deadline = Unset => run'[r].claim = NoClaim /\ run'[r].lease = Unset
    <2>1. CASE Tick
        BY <1>0, <1>1, <2>1, RowTicks DEF RequestedKeeps
    <2>2. CASE RowAdmitted(r)
        BY <1>1, <2>2 DEF RowAdmitted, AdmittedRun, BlankRun
    <2>3. QED BY <1>0, <1>1, <2>1, <2>2, SoloForms
              DEF RequestedKeeps, RowChange, RowWorked, RowReadied, RowActivated, RowFailed,
                  RowWanted, RowHandled, RowReleased
<1>2. QED BY <1>1 DEF RequestedKeeps

\* PhaseTold is kept.
LEMMA PhaseToldKept ==
    ASSUME SoloMoved
    PROVE  PhaseTold'
<1>1. CASE Tick
    BY <1>1, TickFacts DEF SoloMoved, SoloInv, DoomInv, OwnInv, IInv, PhaseTold
<1>2. CASE ~Tick
    BY <1>2, SoloForms DEF OpForm, OpPods, PhaseTold
<1>3. QED BY <1>1, <1>2

\* A row behind its deadline, without an operation at work on it, changes
\* only together with its fence.
LEMMA StuckRowKept ==
    ASSUME SoloMoved, ~Tick, NEW r \in Runs, run[r].state = "starting", Passed(run[r].deadline),
           \A q \in Procs : op[q][r].pc \in Waits, run'[r].token = run[r].token
    PROVE  /\ run'[r] = run[r]
           /\ \A q \in Procs : op'[q][r].pc \in Waits
<1>0. /\ run[r].ready \in BOOLEAN /\ run[r].token \in Nat /\ run[r].deadline # Unset
    BY RowValues DEF SoloMoved, SoloInv, DoomInv, OwnInv, IInv, TypeOK, Passed, Unset, RunType
<1>1. run[r].ready
    BY <1>0 DEF SoloMoved, SoloInv, ReadyFirst
<1>2. ~RowWorked(r)
    BY <1>0 DEF RowWorked, Owns, Waits, Owning
<1>3. run'[r] = run[r]
    <2>1. RowChange(r)
        BY SoloForms
    <2>2. ~RowReadied(r) /\ ~RowAdmitted(r)
        BY <1>1 DEF RowReadied, RowAdmitted
    <2>3. ~RowActivated(r) /\ ~RowFailed(r) /\ ~RowWanted(r) /\ ~RowHandled(r) /\ ~RowReleased(r)
        BY <1>0 DEF RowActivated, RowFailed, RowWanted, RowHandled, RowReleased
    <2>4. QED BY <1>2, <2>1, <2>2, <2>3 DEF RowChange
<1>4. ASSUME NEW q \in Procs PROVE op'[q][r].pc \in Waits
    <2>1. OpBegins(q, r)
        BY SoloForms DEF OpForm
    <2>2. QED BY <1>0, <2>1 DEF OpBegins, Waits
<1>5. QED BY <1>3, <1>4

\* HeldAlone is kept.
LEMMA HeldAloneKept ==
    ASSUME SoloMoved, OneProcess
    PROVE  HeldAlone'
<1>0. TypeOK /\ TypeOK' /\ HeldAlone /\ SnapshotFenced /\ HeldDoomed
    BY DEF SoloMoved, SoloInv, DoomInv, OwnInv, Ownership, IInv
<1>1. ASSUME NEW p \in Procs, NEW t \in Runs, reap'[p].pc \in Late, t = reap'[p].target,
             run'[t].state = "starting", reap'[p].held.token = run'[t].token
      PROVE  reap'[p].held = run'[t] /\ \A q \in Procs : op'[q][t].pc \in Waits
    <2>0. t # NoRun
        BY DEF Runs, NoRun
    <2>1. CASE Tick
        BY <1>0, <1>1, <2>0, <2>1, TickFacts DEF HeldAlone
    <2>2. CASE ~Tick /\ reap[p].pc \in Late /\ t = reap[p].target /\ reap'[p].held = reap[p].held
        <3>1. /\ Stepped /\ run[t].token \in Nat /\ run'[t].token \in Nat
              /\ reap[p].held.token \in Nat
            BY <2>2, SoloForms, RowValues DEF Stepped, IInv, TypeOK, RunType, ReapType
        <3>2. run[t].token <= run'[t].token /\ run[t].state \in {"unborn", "starting"}
            BY <1>1, <3>1, RowGrows
        <3>3. reap[p].held.token <= run[t].token
            BY <1>0, <2>0, <2>2 DEF SnapshotFenced
        <3>4. run'[t].token = run[t].token /\ reap[p].held.token = run[t].token
            BY <1>1, <2>2, <3>1, <3>2, <3>3
        <3>5. run[t].state = "starting"
            <4>1. reap[p].held.state = run[t].state
                BY <1>0, <2>0, <2>2, <3>4 DEF SnapshotFenced
            <4>2. reap[p].held.state # "unborn"
                BY <1>0, <2>0, <2>2 DEF HeldDoomed, CleanupState, DrainEligible
            <4>3. QED BY <3>2, <4>1, <4>2
        <3>6. reap[p].held = run[t] /\ \A q \in Procs : op[q][t].pc \in Waits
            BY <1>0, <2>0, <2>2, <3>4, <3>5 DEF HeldAlone
        <3>7. Passed(run[t].deadline)
            BY <1>0, <2>0, <2>2, <3>5, <3>6 DEF HeldDoomed, CleanupState, DrainEligible
        <3>8. QED BY <2>2, <3>4, <3>5, <3>6, <3>7, StuckRowKept
    <2>3. CASE ~Tick /\ reap'[p].held = run'[t] /\ UNCHANGED op
               /\ (CleanupState(reap'[p].held) \/ op[p][t].pc = "idle")
        <3>1. op[p][t].pc = "idle"
            BY <1>1, <2>3 DEF CleanupState
        <3>2. \A q \in Procs : q = p
            BY DEF OneProcess
        <3>3. QED BY <2>3, <3>1, <3>2 DEF Waits
    <2>4. CASE ~Tick
        <3>1. HeldForm(p)
            BY <2>4, SoloForms DEF ReapForm
        <3>2. QED BY <1>1, <2>0, <2>2, <2>3, <2>4, <3>1 DEF HeldForm
    <2>5. QED BY <2>1, <2>4
<1>2. \A p \in Procs : reap'[p].target \in Runs \cup {NoRun}
    BY <1>0 DEF TypeOK, ReapType
<1>3. QED BY <1>1, <1>2 DEF HeldAlone

\* Before the Task has a Run there is nothing to hold.
LEMMA InitSolo == Init => SoloInv
<1> SUFFICES ASSUME Init PROVE SoloInv
    OBVIOUS
<1>1. DoomInv
    BY InitDoom
<1>2. /\ \A r \in Runs : run[r].state = "unborn"
      /\ \A p \in Procs, r \in Runs : op[p][r].pc = "idle"
      /\ \A p \in Procs : reap[p].pc = "idle"
    BY DEF Init, IdleOp, IdleReap, BlankRun
<1>3. QED BY <1>1, <1>2
          DEF SoloInv, PhaseTold, ApplyLabels, ReadyFirst, RequestedKeeps, HeldAlone, Late

\* Every step keeps the invariant.
LEMMA StepSolo == OneProcess /\ SoloInv /\ [Next]_vars => SoloInv'
<1> SUFFICES ASSUME OneProcess, SoloInv, [Next]_vars PROVE SoloInv'
    OBVIOUS
<1>1. SoloMoved
    BY StepDoom DEF SoloMoved, SoloInv
<1>2. QED BY <1>1, ReadyFirstKept, RequestedKept, PhaseToldKept, HeldAloneKept
          DEF SoloInv, SoloMoved

\* So the invariant holds always.
LEMMA SoloAlways ==
    ASSUME OneProcess
    PROVE  Spec => []SoloInv
<1>1. SoloInv /\ [Next]_vars => SoloInv'
    BY StepSolo
<1>2. QED BY <1>1, InitSolo, PTL DEF Spec

\* The whole row the reaper writes back (updateWithFencing) differs from the
\* stored one in the fence and the cleanup claim only: with one process no
\* startup transaction falls between what it read and what it writes.
THEOREM NothingIsWrittenBackOver ==
    ASSUME OneProcess
    PROVE  Spec => WriteBackLosesNothing
<1> DEFINE Kept ==
        \A r \in Runs :
            run'[r].token # run[r].token /\ run'[r].state = run[r].state
            => run'[r] = [run[r] EXCEPT !.token = @ + 1, !.cleanup = run'[r].cleanup]
<1>1. ASSUME SoloInv, Next PROVE Kept
    <2> SUFFICES ASSUME NEW r \in Runs, run'[r].token # run[r].token, run'[r].state = run[r].state
                 PROVE  run'[r] = [run[r] EXCEPT !.token = @ + 1, !.cleanup = run'[r].cleanup]
        OBVIOUS
    <2>1. SoloMoved /\ TypeOK
        BY <1>1, StepDoom DEF SoloMoved, SoloInv, DoomInv, OwnInv, IInv
    <2>2. ~Tick
        BY <2>1, RowTicks
    <2>3. ~RowAdmitted(r)
        BY DEF RowAdmitted, AdmittedRun, BlankRun
    <2>4. RowWanted(r) \/ RowHandled(r)
        BY <2>1, <2>2, <2>3, SoloForms
           DEF RowChange, RowWorked, RowReadied, RowActivated, RowFailed, RowReleased, Startable,
               Unreleased
    <2>5. QED BY <2>4 DEF RowWanted, RowHandled
<1>2. SoloInv /\ [Next]_vars => [Kept]_vars
    BY <1>1
<1>3. QED BY <1>2, SoloAlways, PTL DEF Spec, WriteBackLosesNothing

-----------------------------------------------------------------------------
(* Every request is covered by the deadline its Run carries.               *)

\* A Run that has activated, or failed, waits for nothing.
EndsUnset == \A r \in Runs : run[r].state \in {"active", "failed"} => run[r].deadline = Unset

\* The Pod an operation has seen, and the one its row records, is intact
\* unless the Run is doomed.
OpPodIntact ==
    \A p \in Procs, r \in Runs :
        op[p][r].pc # "idle" /\ (op[p][r].phase # "apply" \/ op[p][r].pc = "record") =>
            Doomed(r) \/ Intact(r, op[p][r].pod)
RecordedIntact ==
    \A r \in Runs : run[r].state = "starting" /\ run[r].pod # NoPod =>
        Doomed(r) \/ Intact(r, run[r].pod)

NoPodFails ==
    /\ lost = {} /\ cluster["Pod"].status # "failed"
    /\ \A p \in Procs : reap[p].view["Pod"].status # "failed"

\* No process doubts a Run whose preparation failed.
NoDoubt == \A p \in Procs : reap[p].pc # "doubt"

\* A reaper that plans has read the Pod, after the row it plans with: the
\* Pod recorded in that row was there.
PlanRead ==
    \A p \in Procs : reap[p].pc = "plan" /\ reap[p].target # NoRun => reap[p].todo = {}
PlanView ==
    \A p \in Procs :
        LET q == reap[p]
            t == q.target IN
        /\ t # NoRun /\ q.pc \in {"observe", "plan"} /\ q.held.pod # NoPod
        /\ run[t].state = "starting" /\ ~Doomed(t)
        => /\ run[t].pod = q.held.pod
           /\ "Pod" \notin q.todo => q.view["Pod"].run = t /\ q.view["Pod"].uid = q.held.pod

\* An action under way is covered by the deadline of its row ...
ActCovered == \A p \in Procs, r \in Runs : Acting(p, r) => run[r].deadline = op[p][r].left

\* ... and so is a request, the only one of its Run.  Its operation waits for
\* the answer or has given up for good.
Requests ==
    \A e \in inflight :
        LET r == e.run IN
        /\ run[r].deadline = e.left
        /\ \A f \in inflight : f.run = r => f = e
        /\ \A p \in Procs :
              \/ op[p][r].pc = "idle"
              \/ op[p][r].pc = "claim" /\ (run[r].state = "starting" => op[p][r].tok = run[r].token)
              \/ op[p][r].pc = "sent" /\ op[p][r].left = e.left
              \/ op[p][r].pc = "fail" /\ run[r].state # "starting"

ClearInv ==
    /\ SoloInv /\ EndsUnset /\ OpPodIntact /\ RecordedIntact
    /\ NoPodFails /\ NoDoubt /\ PlanRead /\ PlanView /\ ActCovered /\ Requests

\* The invariant before a step, and what is kept of it already.
ClearMoved == ClearInv /\ SoloInv' /\ [Next]_vars

\* The parts of ClearMoved by their names.
LEMMA ClearMoves ==
    ASSUME ClearMoved
    PROVE  /\ SoloMoved /\ Moved /\ IInv /\ IInv' /\ TypeOK /\ TypeOK' /\ "Pod" \in Kinds
           /\ \A r \in Runs : run[r].token \in Nat /\ run[r].deadline \in Int
<1>1. SoloMoved /\ OwnInv /\ OwnInv' /\ KubeInv
    BY DEF ClearMoved, ClearInv, SoloMoved, SoloInv, DoomInv
<1>2. IInv /\ IInv' /\ TypeOK /\ TypeOK' /\ "Pod" \in Kinds
    BY <1>1, LifecycleConstants DEF OwnInv, IInv, LifecycleConstants
<1>3. Moved
    BY <1>1, <1>2, KubeSteps DEF Moved, SoloMoved
<1>4. QED BY <1>1, <1>2, <1>3, RowValues

\* EndsUnset is kept.
LEMMA EndsUnsetKept ==
    ASSUME ClearMoved
    PROVE  EndsUnset'
<1>0. SoloMoved /\ TypeOK /\ EndsUnset
    BY ClearMoves DEF ClearMoved, ClearInv
<1>1. ASSUME NEW r \in Runs, run'[r].state \in {"active", "failed"}
      PROVE  run'[r].deadline = Unset
    <2>1. CASE Tick
        BY <1>0, <1>1, <2>1, RowTicks DEF EndsUnset
    <2>2. CASE ~Tick
        <3>1. RowChange(r) /\ ~RowAdmitted(r)
            BY <1>0, <1>1, <2>2, SoloForms DEF RowAdmitted, AdmittedRun, BlankRun
        <3>2. QED BY <1>0, <1>1, <3>1
                  DEF EndsUnset, RowChange, RowWorked, RowReadied, RowActivated, RowFailed,
                      RowWanted, RowHandled, RowReleased
    <2>3. QED BY <2>1, <2>2
<1>2. QED BY <1>1 DEF EndsUnset

\* A Pod stays intact, or its Run is doomed.
LEMMA IntactOrDoomed ==
    ASSUME Moved, NEW r \in Runs, NEW u, Doomed(r) \/ Intact(r, u)
    PROVE  Doomed(r)' \/ Intact(r, u)'
BY DoomedForever, IntactStays DEF Moved

\* What is seen of a Pod in this step is intact.
LEMMA SeenIntact ==
    ASSUME Moved, NEW r \in Runs, cluster["Pod"].run = r
    PROVE  Doomed(r) \/ Intact(r, cluster["Pod"].uid)
BY LifecycleConstants DEF Moved, KubeInv, TermDoomed, LifecycleConstants, Intact

\* OpPodIntact is kept.
LEMMA OpPodKept ==
    ASSUME ClearMoved
    PROVE  OpPodIntact'
<1>0. SoloMoved /\ Moved /\ TypeOK /\ OpPodIntact
    BY ClearMoves DEF ClearMoved, ClearInv
<1>1. ASSUME NEW p \in Procs, NEW r \in Runs, op'[p][r].pc # "idle",
             op'[p][r].phase # "apply" \/ op'[p][r].pc = "record",
             NEW u, u = op'[p][r].pod
      PROVE  Doomed(r)' \/ Intact(r, u)'
    <2>1. CASE /\ op[p][r].pc # "idle" /\ (op[p][r].phase # "apply" \/ op[p][r].pc = "record")
               /\ op'[p][r].pod = op[p][r].pod
        <3>1. Doomed(r) \/ Intact(r, u)
            BY <1>0, <1>1, <2>1 DEF OpPodIntact
        <3>2. QED BY <1>0, <3>1, IntactOrDoomed
    <2>2. CASE /\ cluster["Pod"].run = r /\ cluster["Pod"].uid = op'[p][r].pod
               /\ UNCHANGED <<cluster, lost>>
        <3>1. Doomed(r) \/ Intact(r, u)
            BY <1>0, <1>1, <2>2, SeenIntact
        <3>2. QED BY <1>0, <3>1, IntactOrDoomed
    <2>3. CASE Tick
        BY <1>0, <1>1, <2>1, <2>3, TickFacts
    <2>4. CASE ~Tick
        <3>1. OpPods(p, r)
            BY <1>0, <2>4, SoloForms DEF OpForm
        <3>2. QED BY <1>1, <2>1, <2>2, <3>1 DEF OpPods
    <2>5. QED BY <2>3, <2>4
<1>2. ASSUME NEW p \in Procs, NEW r \in Runs, op'[p][r].pc # "idle",
             op'[p][r].phase # "apply" \/ op'[p][r].pc = "record"
      PROVE  Doomed(r)' \/ Intact(r, op[p][r].pod)'
    <2>1. PICK u : u = op'[p][r].pod
        OBVIOUS
    <2>2. Doomed(r)' \/ Intact(r, u)'
        BY <1>1, <1>2, <2>1
    <2>3. QED BY <2>1, <2>2 DEF Intact
<1>3. QED BY <1>2 DEF OpPodIntact

\* A recorded Pod stays recorded while its Run starts.
LEMMA PodStays ==
    ASSUME SoloMoved, ~Tick, NEW r \in Runs, run[r].state # "unborn", run'[r].state = "starting"
    PROVE  /\ run[r].state = "starting"
           /\ \/ run'[r].pod = run[r].pod
              \/ /\ run[r].pod \in {NoPod, run'[r].pod}
                 /\ \E p \in Procs : op[p][r].pc = "record" /\ run'[r].pod = op[p][r].pod
<1>1. RowChange(r) /\ ~RowAdmitted(r)
    BY SoloForms DEF RowAdmitted
<1>2. QED BY <1>1 DEF RowChange, RowWorked, RowReadied, RowActivated, RowFailed, RowWanted,
                      RowHandled, RowReleased

\* RecordedIntact is kept.
LEMMA RecordedKept ==
    ASSUME ClearMoved
    PROVE  RecordedIntact'
<1>0. SoloMoved /\ Moved /\ TypeOK /\ OpPodIntact /\ RecordedIntact
    BY ClearMoves DEF ClearMoved, ClearInv
<1>1. ASSUME NEW r \in Runs, run'[r].state = "starting", run'[r].pod # NoPod,
             NEW u, u = run'[r].pod
      PROVE  Doomed(r) \/ Intact(r, u)
    <2>1. CASE run[r].state = "starting" /\ run'[r].pod = run[r].pod
        BY <1>0, <1>1, <2>1 DEF RecordedIntact
    <2>2. CASE Tick
        BY <1>0, <1>1, <2>1, <2>2, TickFacts
    <2>3. CASE ~Tick /\ run[r].state = "unborn"
        <3>1. RowAdmitted(r)
            BY <1>0, <1>1, <2>3, SoloForms
               DEF RowChange, RowWorked, RowReadied, RowActivated, RowFailed, RowWanted,
                   RowHandled, RowReleased
        <3>2. QED BY <1>1, <3>1 DEF RowAdmitted, AdmittedRun, BlankRun
    <2>4. CASE ~Tick /\ run[r].state # "unborn"
        <3>1. ASSUME NEW p \in Procs, op[p][r].pc = "record", u = op[p][r].pod
              PROVE  Doomed(r) \/ Intact(r, u)
            BY <1>0, <3>1 DEF OpPodIntact
        <3>2. QED BY <1>0, <1>1, <2>1, <2>4, <3>1, PodStays
    <2>5. QED BY <2>2, <2>3, <2>4
<1>2. ASSUME NEW r \in Runs, run'[r].state = "starting", run'[r].pod # NoPod
      PROVE  Doomed(r)' \/ Intact(r, run[r].pod)'
    <2>1. PICK u : u = run'[r].pod
        OBVIOUS
    <2>2. Doomed(r)' \/ Intact(r, u)'
        BY <1>0, <1>1, <1>2, <2>1, IntactOrDoomed
    <2>3. QED BY <2>1, <2>2 DEF Intact
<1>3. QED BY <1>2 DEF RecordedIntact

\* NoPodFails is kept: only a disturbance that NoStrays rules out fails a Pod
\* or loses it.
LEMMA PodFailsKept ==
    ASSUME ClearMoved, NoStrays
    PROVE  NoPodFails'
<1>0. /\ TypeOK /\ Moved /\ NoPodFails /\ cluster \in [Kinds -> ObjType \cup {NoObj}]
      /\ "Pod" \in Kinds
    BY ClearMoves DEF ClearMoved, ClearInv, TypeOK
<1>1. UNCHANGED lost /\ cluster'["Pod"].status # "failed"
    <2>1. CASE UNCHANGED <<cluster, lost>>
        BY <1>0, <2>1 DEF NoPodFails
    <2>2. ASSUME NEW e \in inflight, Land(e)
          PROVE  UNCHANGED lost /\ cluster'["Pod"].status # "failed"
        <3> DEFINE new == [run |-> e.run, uid |-> nextUid, status |-> "pending",
                           terminating |-> FALSE]
        <3>1. UNCHANGED lost /\ (UNCHANGED cluster \/ cluster' = [cluster EXCEPT ![e.kind] = new])
            BY <2>2 DEF Land
        <3>2. cluster'["Pod"] = cluster["Pod"] \/ cluster'["Pod"] = new
            BY <1>0, <3>1
        <3>3. QED BY <1>0, <3>1, <3>2 DEF NoPodFails
    <2>3. CASE PodReady
        BY <1>0, <2>3 DEF PodReady, NoPodFails, ObjType, NoObj
    <2>4. ASSUME NEW k \in Kinds, Terminated(k) \/ Removed(k), UNCHANGED lost
          PROVE  cluster'["Pod"].status # "failed"
        <3>1. \/ cluster' = [cluster EXCEPT ![k] = NoObj]
              \/ cluster' = [cluster EXCEPT ![k].terminating = TRUE]
            BY <2>4 DEF Terminated, Removed
        <3>2. \/ cluster'["Pod"] = cluster["Pod"] \/ cluster'["Pod"] = NoObj
              \/ cluster'["Pod"] = [cluster["Pod"] EXCEPT !.terminating = TRUE]
            BY <1>0, <3>1
        <3>3. cluster["Pod"] = NoObj \/ cluster["Pod"] \in ObjType
            BY <1>0
        <3>4. [NoObj EXCEPT !.terminating = TRUE].status = "none" /\ NoObj.status = "none"
            BY DEF NoObj
        <3>5. cluster["Pod"] \in ObjType =>
                 [cluster["Pod"] EXCEPT !.terminating = TRUE].status = cluster["Pod"].status
            BY DEF ObjType
        <3>6. QED BY <1>0, <3>2, <3>3, <3>4, <3>5 DEF NoPodFails
    <2>5. ASSUME NEW p \in Procs, ReapStep(p)
          PROVE  UNCHANGED lost /\ cluster'["Pod"].status # "failed"
        <3>1. CASE ReapDelete(p)
            <4>1. UNCHANGED lost /\ (UNCHANGED cluster \/ \E k \in NextToDelete(reap[p]) : Removed(k))
                BY <3>1 DEF ReapDelete
            <4>2. NextToDelete(reap[p]) \subseteq Kinds
                BY <1>0 DEF NextToDelete, TypeOK, ReapType
            <4>3. QED BY <2>1, <2>4, <4>1, <4>2
        <3>2. CASE ~ReapDelete(p)
            <4>1. UNCHANGED kube
                BY <2>5, <3>2
                   DEF ReapStep, ReapLoad, ReapLook, ReapObserved, ReapObservationFails, ReapPlan,
                       ReapReload, ReapClaim, ReapInspected, ReapCallFails, ReapAborts, ReapDrain,
                       ReapInventoried, ReapComplete, ReapUnclaim, FailUnprepared
            <4>2. QED BY <2>1, <4>1 DEF kube
        <3>3. QED BY <3>1, <3>2
    <2>6. ~PodFails /\ ~PodLost /\ \A p \in Procs : ~PreparationFails(p)
        BY DEF NoStrays, PodFails, PodLost, PreparationFails, Fault
    <2>7. CASE \/ \E isReady \in BOOLEAN : Admit(isReady)
               \/ \E r \in Runs : Prepared(r) \/ RunFails(r) \/ RequestTaskSandboxRelease(r)
               \/ UNCHANGED vars \/ Tick \/ \E p \in Procs : Crash(p)
        BY <2>1, <2>7 DEF Admit, Prepared, RunFails, RequestTaskSandboxRelease, vars, kube, Tick,
                          Crash
    <2>8. CASE \E p \in Procs, r \in Runs : OpStart(p, r) \/ OpStep(p, r)
        BY <2>1, <2>8, OpKept
    <2>9. CASE \E k \in Kinds : Terminated(k)
        <3>1. UNCHANGED lost
            BY <2>9 DEF Terminated
        <3>2. QED BY <2>4, <2>9, <3>1
    <2>10. CASE PodReady \/ \E e \in inflight : Land(e)
        <3>1. PodReady => UNCHANGED lost
            BY DEF PodReady
        <3>2. QED BY <2>2, <2>3, <2>10, <3>1
    <2>11. CASE \E p \in Reapers : PreparationFails(p) \/ ReapStep(p)
        BY <2>5, <2>6, <2>11, LifecycleConstants DEF LifecycleConstants
    <2>12. QED BY <2>6, <2>7, <2>8, <2>9, <2>10, <2>11
               DEF Next, Environment, ClearMoved
<1>2. ASSUME NEW p \in Procs PROVE reap'[p].view["Pod"].status # "failed"
    <2>1. NoObj.status # "failed"
        BY DEF NoObj
    <2>2. QED BY <1>0, <2>1 DEF Moved, KubeStep, ViewStep, NoPodFails
<1>3. QED BY <1>0, <1>1, <1>2 DEF NoPodFails

\* NoDoubt is kept.
LEMMA NoDoubtKept ==
    ASSUME ClearMoved, NoStrays
    PROVE  NoDoubt'
<1>0. SoloMoved /\ TypeOK /\ NoDoubt
    BY ClearMoves DEF ClearMoved, ClearInv
<1>1. ASSUME NEW p \in Procs PROVE reap'[p].pc # "doubt"
    <2>1. CASE Tick
        BY <1>0, <2>1, TickFacts DEF NoDoubt
    <2>2. CASE ~Tick
        BY <1>0, <2>2, SoloForms DEF ReapForm, NoDoubt, NoStrays
    <2>3. QED BY <2>1, <2>2
<1>2. QED BY <1>1 DEF NoDoubt

\* PlanRead is kept.
LEMMA PlanReadKept ==
    ASSUME ClearMoved
    PROVE  PlanRead'
<1>0. SoloMoved /\ TypeOK /\ PlanRead
    BY ClearMoves DEF ClearMoved, ClearInv
<1>1. ASSUME NEW p \in Procs, reap'[p].pc = "plan", reap'[p].target # NoRun
      PROVE  reap'[p].todo = {}
    <2>1. CASE Tick
        BY <1>0, <1>1, <2>1, TickFacts DEF PlanRead
    <2>2. CASE ~Tick
        <3>1. PlanForm(p)
            BY <1>0, <2>2, SoloForms DEF ReapForm
        <3>2. QED BY <1>0, <1>1, <3>1 DEF PlanForm, PlanRead
    <2>3. QED BY <2>1, <2>2
<1>2. QED BY <1>1 DEF PlanRead

\* A row the reaper holds was that of a Run that exists.
LEMMA HeldBorn ==
    ASSUME IInv, NEW p \in Procs, NEW t \in Runs, reap[p].target = t
    PROVE  run[t].state # "unborn"
<1>0. t # NoRun /\ reap[p].held.token \in Nat
    BY LocalValues DEF Runs, NoRun
<1>1. SUFFICES ASSUME run[t].state = "unborn" PROVE FALSE
    OBVIOUS
<1>2. run[t].token = 0
    BY <1>1 DEF IInv, UnbornBlank
<1>3. reap[p].held.token = run[t].token /\ reap[p].held.state = "unborn"
    BY <1>0, <1>1, <1>2 DEF IInv, SnapshotFenced
<1>4. QED BY <1>0, <1>3 DEF IInv, SnapshotLive, HeldLive, Unreleased

\* PlanView is kept.
LEMMA PlanViewKept ==
    ASSUME ClearMoved
    PROVE  PlanView'
<1>0. /\ SoloMoved /\ Moved /\ TypeOK /\ TypeOK' /\ IInv /\ PlanView /\ RecordedIntact
      /\ NoPodFails /\ "Pod" \in Kinds
    BY ClearMoves DEF ClearMoved, ClearInv
<1>1. ASSUME NEW p \in Procs, NEW t \in Runs, t = reap'[p].target,
             reap'[p].pc \in {"observe", "plan"}, reap'[p].held.pod # NoPod,
             run'[t].state = "starting", ~Doomed(t)'
      PROVE  /\ run'[t].pod = reap'[p].held.pod
             /\ "Pod" \notin reap'[p].todo =>
                   reap'[p].view["Pod"].run = t /\ reap'[p].view["Pod"].uid = reap'[p].held.pod
    <2>0. t # NoRun /\ ~Doomed(t)
        BY <1>0, <1>1, DoomedForever DEF Runs, NoRun, Moved
    <2>1. CASE Tick
        <3>1. reap[p].held \in RunType /\ reap'[p].held = RowTicked(reap[p].held)
            BY <1>0, <2>1, TickFacts DEF TypeOK, ReapType
        <3>2. reap'[p].held.pod = reap[p].held.pod
            BY <3>1 DEF RowTicked, RunType
        <3>3. QED BY <1>0, <1>1, <2>0, <2>1, <3>2, TickFacts DEF PlanView
    <2>2. CASE ~Tick /\ reap[p].pc \in {"observe", "plan"} /\ reap[p].target = t
               /\ reap'[p].held = reap[p].held
               /\ ("Pod" \notin reap'[p].todo =>
                     \/ "Pod" \notin reap[p].todo /\ reap'[p].view["Pod"] = reap[p].view["Pod"]
                     \/ reap'[p].view["Pod"] = cluster["Pod"] /\ UNCHANGED <<run, cluster, lost>>)
        <3>1. /\ run[t].state = "starting"
              /\ run'[t].pod = run[t].pod \/ run[t].pod \in {NoPod, run'[t].pod}
            BY <1>0, <1>1, <2>2, HeldBorn, PodStays
        <3>2. /\ run[t].pod = reap[p].held.pod
              /\ "Pod" \notin reap[p].todo =>
                    reap[p].view["Pod"].run = t /\ reap[p].view["Pod"].uid = reap[p].held.pod
            BY <1>0, <1>1, <2>0, <2>2, <3>1 DEF PlanView
        <3>3. run'[t].pod = reap[p].held.pod
            BY <1>1, <2>2, <3>1, <3>2
        <3>4. cluster["Pod"].run = t /\ cluster["Pod"].uid = reap[p].held.pod
            <4>1. Intact(t, run[t].pod)
                BY <1>0, <1>1, <2>0, <2>2, <3>1, <3>2 DEF RecordedIntact
            <4>2. QED BY <1>0, <3>2, <4>1 DEF Intact, NoPodFails
        <3>5. QED BY <2>2, <3>2, <3>3, <3>4
    <2>3. CASE ~Tick /\ reap'[p].todo = Kinds /\ reap'[p].held = run[t] /\ UNCHANGED run
        BY <1>0, <2>3
    <2>4. CASE ~Tick
        <3>1. PlanForm(p)
            BY <1>0, <2>4, SoloForms DEF ReapForm
        <3>2. QED BY <1>1, <2>0, <2>2, <2>3, <2>4, <3>1 DEF PlanForm
    <2>5. QED BY <2>1, <2>4
<1>2. \A p \in Procs : reap'[p].target \in Runs \cup {NoRun}
    BY <1>0 DEF TypeOK, ReapType
<1>3. ASSUME NEW p \in Procs, reap'[p].target # NoRun, reap'[p].pc \in {"observe", "plan"},
             reap'[p].held.pod # NoPod, run'[reap'[p].target].state = "starting",
             ~Doomed(reap[p].target)'
      PROVE  /\ run'[reap'[p].target].pod = reap'[p].held.pod
             /\ "Pod" \notin reap'[p].todo =>
                   /\ reap'[p].view["Pod"].run = reap'[p].target
                   /\ reap'[p].view["Pod"].uid = reap'[p].held.pod
    <2>1. PICK t \in Runs : t = reap'[p].target
        BY <1>2, <1>3
    <2>2. ~Doomed(t)'
        BY <1>3, <2>1 DEF Doomed, Stuck, NoOwner
    <2>3. QED BY <1>1, <1>3, <2>1, <2>2
<1>4. QED BY <1>3 DEF PlanView

\* No reaper that plans finds the Pod gone while an action is under way.
LEMMA PodNotGone ==
    ASSUME ClearMoved, NEW p \in Procs, NEW r \in Runs, reap[p].target = r, reap[p].pc = "plan",
           run[r].state = "starting", Open(run[r].deadline)
    PROVE  ~PodGone(reap[p])
<1>1. r # NoRun /\ ~Doomed(r) /\ "Pod" \in Kinds
    BY ClearMoves DEF Runs, NoRun, Doomed
<1>2. reap[p].todo = {}
    BY <1>1 DEF ClearMoved, ClearInv, PlanRead
<1>3. reap[p].held.pod # NoPod =>
         reap[p].view["Pod"].run = r /\ reap[p].view["Pod"].uid = reap[p].held.pod
    BY <1>1, <1>2 DEF ClearMoved, ClearInv, PlanView
<1>4. reap[p].view["Pod"].status # "failed"
    BY DEF ClearMoved, ClearInv, NoPodFails
<1>5. QED BY <1>3, <1>4 DEF PodGone

\* Labels at which an operation leaves an open deadline alone.
Patient == {"idle", "claim", "act", "sent", "fail"}

\* An open deadline stays: neither the operations that wait, nor a reaper,
\* nor a request to release drop it.
LEMMA OpenStays ==
    ASSUME ClearMoved, ~Tick, NEW r \in Runs, Open(run[r].deadline), run[r].state # "unborn",
           \A p \in Procs : op[p][r].pc \in Patient
    PROVE  /\ run'[r].deadline = run[r].deadline
           /\ run'[r].state = "starting" =>
                 run[r].state = "starting" /\ run'[r].token = run[r].token
<1>0. /\ run[r].deadline # Unset /\ ~Passed(run[r].deadline)
      /\ EndsUnset
    BY ClearMoves DEF ClearMoved, ClearInv, Open, Unset, Passed
<1>1. RowChange(r) /\ ~RowAdmitted(r)
    BY ClearMoves, SoloForms DEF RowAdmitted
<1>2. ~RowWorked(r)
    BY <1>0 DEF RowWorked, Patient
<1>3. ~RowActivated(r)
    BY DEF RowActivated, Patient
<1>4. ~RowFailed(r)
    <2>1. \A p \in Procs : reap[p].pc # "doubt"
        BY DEF ClearMoved, ClearInv, NoDoubt
    <2>2. Startable(run[r]) => run[r].state = "starting"
        BY <1>0 DEF EndsUnset, Startable
    <2>3. ASSUME NEW p \in Procs, reap[p].target = r, reap[p].pc = "plan", Startable(run[r])
          PROVE  ~PodGone(reap[p])
        BY <2>2, <2>3, PodNotGone
    <2>4. QED BY <1>0, <2>1, <2>2, <2>3 DEF RowFailed, Patient
<1>5. CASE RowHandled(r)
    BY <1>0, <1>5 DEF RowHandled, DrainEligible, CleanupState
<1>6. CASE run'[r] = run[r] \/ RowReadied(r) \/ RowWanted(r)
    BY <1>6 DEF RowReadied, RowWanted
<1>7. ~RowReleased(r)
    BY DEF RowReleased
<1>8. QED BY <1>1, <1>2, <1>3, <1>4, <1>5, <1>6, <1>7 DEF RowChange

\* ActCovered is kept.
LEMMA ActCoveredKept ==
    ASSUME ClearMoved, OneProcess
    PROVE  ActCovered'
<1>0. SoloMoved /\ IInv /\ TypeOK /\ ActCovered /\ OpBehind
    BY ClearMoves DEF ClearMoved, ClearInv, SoloInv, DoomInv, OwnInv, Ownership
<1>1. ASSUME NEW p \in Procs, NEW r \in Runs, op'[p][r].pc \in {"act", "sent"},
             Open(op'[p][r].left)
      PROVE  run'[r].deadline = op'[p][r].left
    <2>1. CASE Tick
        <3>1. /\ op[p][r].pc \in {"act", "sent"} /\ op'[p][r].left = Ticked(op[p][r].left)
              /\ op[p][r].left \in Int
            BY <1>0, <1>1, <2>1, TickFacts, LocalValues
        <3>2. Open(op[p][r].left)
            BY <1>1, <3>1, TickedDeadline
        <3>3. QED BY <1>0, <2>1, <3>1, <3>2, TickFacts DEF ActCovered, Acting
    <2>2. CASE ~Tick /\ op[p][r].pc \in {"act", "sent"} /\ op'[p][r].left = op[p][r].left
        <3>1. run[r].deadline = op[p][r].left /\ run[r].state # "unborn"
            BY <1>0, <1>1, <2>2 DEF ActCovered, Acting, OpBehind
        <3>2. \A q \in Procs : op[q][r].pc \in Patient
            BY <2>2 DEF OneProcess, Patient
        <3>3. QED BY <1>1, <2>2, <3>1, <3>2, OpenStays
    <2>3. CASE ~Tick /\ run'[r] = BeginAction(run[r]) /\ op'[p][r].left = ActionTimeout
        <3>1. run[r] \in RunType
            BY <1>0 DEF TypeOK
        <3>2. QED BY <2>3, <3>1 DEF BeginAction, RunType
    <2>4. CASE ~Tick
        <3>1. OpActs(p, r)
            BY <1>0, <2>4, SoloForms DEF Stepped, OpsStep, OpSteps
        <3>2. QED BY <1>1, <2>2, <2>3, <2>4, <3>1 DEF OpActs
    <2>5. QED BY <2>1, <2>4
<1>2. QED BY <1>1 DEF ActCovered, Acting

\* A request is sent by the operation that acts, in time, and its operation
\* waits for the answer.
RequestSent(e) ==
    \E p \in Procs :
        LET o == op[p][e.run]
            n == op'[p][e.run] IN
        /\ o.pc = "act" /\ Open(o.left) /\ e.left = o.left
        /\ n.pc = "sent" /\ n.left = o.left
        /\ UNCHANGED run /\ inflight' = inflight \cup {e}

\* A request under way was on its way already or has just been sent.
LEMMA RequestForms ==
    ASSUME TypeOK, [Next]_vars, ~Tick, NEW e \in inflight'
    PROVE  e \in inflight \/ RequestSent(e)
<1>1. CASE inflight' \subseteq inflight
    BY <1>1
<1>2. ASSUME NEW p \in Procs, NEW r \in Runs, OpApply(p, r), e \notin inflight
      PROVE  RequestSent(e)
    <2>1. PICK k \in NextToCreate(op[p][r].todo) :
            /\ inflight' = inflight \cup {[run |-> r, kind |-> k, left |-> op[p][r].left]}
            /\ OpGoto(p, r, "sent")
        BY <1>2 DEF OpApply
    <2>2. e = [run |-> r, kind |-> k, left |-> op[p][r].left]
        BY <1>2, <2>1
    <2>3. op'[p][r].pc = "sent" /\ op'[p][r].left = op[p][r].left
        BY <2>1, OpWent
    <2>4. e.run = r /\ e.left = op[p][r].left /\ inflight' = inflight \cup {e}
        BY <2>1, <2>2
    <2>5. op[p][r].pc = "act" /\ Open(op[p][r].left) /\ UNCHANGED run
        BY <1>2 DEF OpApply, store
    <2>6. QED BY <2>3, <2>4, <2>5 DEF RequestSent
<1>3. CASE \E p \in Procs, r \in Runs : OpStart(p, r) \/ OpStep(p, r)
    <2>1. PICK p \in Procs, r \in Runs : OpStart(p, r) \/ OpStep(p, r)
        BY <1>3
    <2>2. CASE OpApply(p, r)
        BY <1>2, <2>2
    <2>3. CASE ~OpApply(p, r)
        <3>1. UNCHANGED inflight
            BY <2>1, <2>3 DEF OpStep, OpStart, OpClaim, OpPrepare, OpConfig, OpObserve, OpBegin,
               OpActionDone, OpActionFails, OpActionUnknown, OpReconcile, OpReconcileOpen,
               OpRecover, OpComplete, OpIdentify, OpRecord, OpActivate, OpFail, OpFailing, OpCallFails,
               kube
        <3>2. QED BY <3>1
    <2>4. QED BY <2>2, <2>3
<1>4. CASE \E p \in Reapers : PreparationFails(p) \/ ReapStep(p)
    <2>1. UNCHANGED inflight
        BY <1>4 DEF PreparationFails, ReapStep, FailUnprepared, ReapLoad, ReapLook, ReapObserved,
                    ReapObservationFails, ReapPlan, ReapReload, ReapClaim, ReapDelete,
                    ReapInspected, ReapCallFails, ReapAborts, ReapDrain, ReapInventoried,
                    ReapComplete, ReapUnclaim, kube
    <2>2. QED BY <2>1
<1>5. CASE \/ \E isReady \in BOOLEAN : Admit(isReady)
           \/ \E r \in Runs : Prepared(r) \/ RunFails(r) \/ RequestTaskSandboxRelease(r)
           \/ UNCHANGED vars \/ PodReady \/ PodFails \/ PodLost \/ (\E k \in Kinds : Terminated(k))
           \/ \E p \in Procs : Crash(p)
    <2>1. UNCHANGED inflight
        BY <1>5 DEF Admit, Prepared, RunFails, RequestTaskSandboxRelease, vars, kube, PodReady,
                    PodFails, PodLost, Terminated, Crash
    <2>2. QED BY <2>1
<1>6. CASE \E f \in inflight : Land(f)
    BY <1>1, <1>6 DEF Land
<1>7. QED BY <1>3, <1>4, <1>5, <1>6 DEF Next, Environment

\* A request that is still on its way: its row, and its operation.
LEMMA RequestStays ==
    ASSUME ClearMoved, NoStrays, ~Tick, NEW e \in inflight, e \in inflight'
    PROVE  /\ run'[e.run].deadline = e.left
           /\ \A p \in Procs :
                \/ op'[p][e.run].pc = "idle"
                \/ /\ op'[p][e.run].pc = "claim"
                   /\ run'[e.run].state = "starting" => op'[p][e.run].tok = run'[e.run].token
                \/ op'[p][e.run].pc = "sent" /\ op'[p][e.run].left = e.left
                \/ op'[p][e.run].pc = "fail" /\ run'[e.run].state # "starting"
<1>1. PICK r \in Runs : r = e.run
    BY ClearMoves DEF TypeOK, CreateType
<1>2. /\ run[r].deadline = e.left
      /\ \A f \in inflight : f.run = r => f = e
      /\ \A p \in Procs :
            \/ op[p][r].pc = "idle"
            \/ op[p][r].pc = "claim" /\ (run[r].state = "starting" => op[p][r].tok = run[r].token)
            \/ op[p][r].pc = "sent" /\ op[p][r].left = e.left
            \/ op[p][r].pc = "fail" /\ run[r].state # "starting"
    BY <1>1 DEF ClearMoved, ClearInv, Requests
<1>3. Open(e.left) /\ run[r].state # "unborn" /\ ~Passed(e.left) /\ e.left # Unset
    BY <1>1, ClearMoves DEF TypeOK, CreateType, Open, Passed, Unset, Moved, KubeInv, NamesKnown,
                            Born
<1>4. \A p \in Procs : op[p][r].pc \in Patient
    BY <1>2 DEF Patient
<1>5. /\ run'[r].deadline = e.left
      /\ run'[r].state = "starting" => run[r].state = "starting" /\ run'[r].token = run[r].token
    BY <1>2, <1>3, <1>4, OpenStays
<1>6. ASSUME NEW p \in Procs
      PROVE  \/ op'[p][r].pc = "idle"
             \/ op'[p][r].pc = "claim" /\ (run'[r].state = "starting" => op'[p][r].tok = run'[r].token)
             \/ op'[p][r].pc = "sent" /\ op'[p][r].left = e.left
             \/ op'[p][r].pc = "fail" /\ run'[r].state # "starting"
    <2>1. OpBegins(p, r) /\ OpWaits(p, r)
        BY ClearMoves, SoloForms DEF OpForm
    <2>2. CASE op[p][r].pc = "idle"
        BY <2>1, <2>2 DEF OpBegins
    <2>3. CASE op[p][r].pc = "claim"
        <3>1. run[r].state = "starting" => op[p][r].tok = run[r].token
            BY <1>2, <2>3
        <3>2. \/ op'[p][r].pc = "idle"
              \/ op'[p][r].pc = "claim" /\ op'[p][r].tok = op[p][r].tok
              \/ op'[p][r].pc = "fail" /\ StartupStale(run[r], op[p][r].tok)
            BY <1>2, <1>3, <2>1, <2>3 DEF OpBegins, NoStrays
        <3>3. QED BY <1>5, <3>1, <3>2 DEF StartupStale
    <2>4. CASE op[p][r].pc = "sent"
        <3>1. op[p][r].left = e.left
            BY <1>2, <2>4
        <3>2. ~(\E f \in inflight : /\ f.run = r /\ f.left = op[p][r].left
                                    /\ inflight' = inflight \ {f})
            BY <1>2
        <3>3. QED BY <1>3, <1>5, <2>1, <2>4, <3>1, <3>2 DEF OpWaits, NoStrays
    <2>5. CASE op[p][r].pc = "fail"
        BY <1>2, <1>5, <2>1, <2>5 DEF OpBegins
    <2>6. QED BY <1>2, <2>2, <2>3, <2>4, <2>5
<1>7. QED BY <1>1, <1>5, <1>6

\* Requests is kept by every step but a tick.
LEMMA RequestsKeptByStep ==
    ASSUME ClearMoved, OneProcess, NoStrays, ~Tick
    PROVE  Requests'
<1>0. TypeOK /\ TypeOK' /\ IInv /\ Requests /\ ActCovered
    BY ClearMoves DEF ClearMoved, ClearInv
<1>1. \A e \in inflight' : e \in inflight \/ RequestSent(e)
    BY <1>0, RequestForms DEF ClearMoved
<1>2. ASSUME NEW e \in inflight, NEW p \in Procs PROVE op[p][e.run].pc # "act"
    BY <1>0, <1>2 DEF Requests
<1>3. ASSUME NEW e \in inflight', NEW f \in inflight', f.run = e.run PROVE f = e
    <2>1. CASE e \in inflight /\ f \in inflight
        BY <1>0, <1>3, <2>1 DEF Requests
    <2>2. CASE e \in inflight /\ RequestSent(f)
        BY <1>2, <1>3, <2>2 DEF RequestSent
    <2>3. CASE f \in inflight /\ RequestSent(e)
        BY <1>2, <1>3, <2>3 DEF RequestSent
    <2>4. CASE e \notin inflight /\ f \notin inflight
        BY <1>1, <2>4 DEF RequestSent
    <2>5. QED BY <1>1, <2>1, <2>2, <2>3, <2>4
<1>4. ASSUME NEW e \in inflight'
      PROVE  /\ run'[e.run].deadline = e.left
             /\ \A p \in Procs :
                  \/ op'[p][e.run].pc = "idle"
                  \/ /\ op'[p][e.run].pc = "claim"
                     /\ run'[e.run].state = "starting" => op'[p][e.run].tok = run'[e.run].token
                  \/ op'[p][e.run].pc = "sent" /\ op'[p][e.run].left = e.left
                  \/ op'[p][e.run].pc = "fail" /\ run'[e.run].state # "starting"
    <2>1. CASE e \in inflight
        BY <2>1, RequestStays
    <2>2. CASE RequestSent(e)
        <3>1. PICK p \in Procs :
                /\ op[p][e.run].pc = "act" /\ Open(op[p][e.run].left) /\ e.left = op[p][e.run].left
                /\ op'[p][e.run].pc = "sent" /\ op'[p][e.run].left = op[p][e.run].left
                /\ UNCHANGED run
            BY <2>2 DEF RequestSent
        <3>2. e.run \in Runs
            BY <1>0 DEF TypeOK, CreateType
        <3>3. run[e.run].deadline = e.left
            BY <1>0, <3>1, <3>2 DEF ActCovered, Acting
        <3>4. \A q \in Procs : q = p
            BY DEF OneProcess
        <3>5. QED BY <3>1, <3>3, <3>4
    <2>3. QED BY <1>1, <2>1, <2>2
<1>5. QED BY <1>3, <1>4 DEF Requests

\* And by a tick: what has no time left is dropped, the rest gets closer
\* together with its row and its operation.
LEMMA RequestsKeptByTick ==
    ASSUME ClearMoved, Tick
    PROVE  Requests'
<1>0. TypeOK /\ Requests
    BY ClearMoves DEF ClearMoved, ClearInv
<1>1. ASSUME NEW e \in inflight'
      PROVE  \E f \in inflight : /\ e = [f EXCEPT !.left = f.left - 1] /\ f.left > 1
                                 /\ e.run = f.run /\ e.left = f.left - 1
                                 /\ f.run \in Runs /\ e.left = Ticked(f.left)
    <2>1. PICK f \in inflight : e = [f EXCEPT !.left = f.left - 1] /\ f.left > 1
        BY <1>1 DEF Tick
    <2>2. f \in CreateType
        BY <1>0 DEF TypeOK
    <2>3. f.run \in Runs /\ e.run = f.run /\ e.left = f.left - 1 /\ f.left \in Int
        BY <2>1, <2>2 DEF CreateType
    <2>4. e.left = Ticked(f.left)
        BY <2>1, <2>3 DEF Ticked
    <2>5. QED BY <2>1, <2>3, <2>4
<1>2. ASSUME NEW e \in inflight', NEW d \in inflight', d.run = e.run PROVE d = e
    <2>1. PICK f \in inflight : e = [f EXCEPT !.left = f.left - 1] /\ e.run = f.run
        BY <1>1
    <2>2. PICK g \in inflight : d = [g EXCEPT !.left = g.left - 1] /\ d.run = g.run
        BY <1>1
    <2>3. f = g
        BY <1>0, <1>2, <2>1, <2>2 DEF Requests
    <2>4. QED BY <2>1, <2>2, <2>3
<1>3. ASSUME NEW e \in inflight'
      PROVE  /\ run'[e.run].deadline = e.left
             /\ \A p \in Procs :
                  \/ op'[p][e.run].pc = "idle"
                  \/ /\ op'[p][e.run].pc = "claim"
                     /\ run'[e.run].state = "starting" => op'[p][e.run].tok = run'[e.run].token
                  \/ op'[p][e.run].pc = "sent" /\ op'[p][e.run].left = e.left
                  \/ op'[p][e.run].pc = "fail" /\ run'[e.run].state # "starting"
    <2>1. PICK f \in inflight : e.run = f.run /\ f.run \in Runs /\ e.left = Ticked(f.left)
        BY <1>1
    <2>2. QED BY <1>0, <2>1, TickFacts DEF Requests
<1>4. QED BY <1>2, <1>3 DEF Requests

\* Before the Task has a Run nothing is under way.
LEMMA InitClear == Init => ClearInv
<1> SUFFICES ASSUME Init PROVE ClearInv
    OBVIOUS
<1>1. SoloInv
    BY InitSolo
<1>2. /\ \A r \in Runs : run[r].state = "unborn"
      /\ \A p \in Procs, r \in Runs : op[p][r].pc = "idle"
      /\ \A p \in Procs : reap[p].pc = "idle" /\ reap[p].view = [k \in Kinds |-> NoObj]
      /\ \A k \in Kinds : cluster[k] = NoObj
      /\ inflight = {} /\ lost = {}
    BY DEF Init, IdleOp, IdleReap, BlankRun
<1>3. "Pod" \in Kinds /\ NoObj.status # "failed"
    BY LifecycleConstants DEF LifecycleConstants, NoObj
<1>4. NoPodFails
    BY <1>2, <1>3 DEF NoPodFails
<1>5. QED BY <1>1, <1>2, <1>4
          DEF ClearInv, NoDoubt, EndsUnset, OpPodIntact, RecordedIntact, PlanRead, PlanView, ActCovered,
              Acting, Requests

\* Every step keeps the invariant.
LEMMA StepClear == OneProcess /\ NoStrays /\ ClearInv /\ [Next]_vars => ClearInv'
<1> SUFFICES ASSUME OneProcess, NoStrays, ClearInv, [Next]_vars PROVE ClearInv'
    OBVIOUS
<1>1. ClearMoved
    BY StepSolo DEF ClearMoved, ClearInv
<1>2. Requests'
    BY <1>1, RequestsKeptByStep, RequestsKeptByTick
<1>3. QED BY <1>1, <1>2, EndsUnsetKept, OpPodKept, RecordedKept, PodFailsKept, NoDoubtKept,
             PlanReadKept, PlanViewKept, ActCoveredKept DEF ClearInv, ClearMoved

\* So the invariant holds always.
LEMMA ClearAlways ==
    ASSUME OneProcess, NoStrays
    PROVE  Spec => []ClearInv
<1>1. ClearInv /\ [Next]_vars => ClearInv'
    BY StepClear
<1>2. QED BY <1>1, InitClear, PTL DEF Spec

\* A request that may still create an object is covered by the deadline its
\* Run carries in the store (startupActionDeadlineAt): what drains or releases
\* the Run waits for it.  So it is through crashes, requests to release and
\* failed calls, as long as no failure is recorded by code that does not hold
\* the startup, no answer is lost and no Pod fails.
THEOREM BarrierIsKept ==
    ASSUME OneProcess, NoStrays
    PROVE  Spec => []BarrierCoversRequests
<1>1. ClearInv => BarrierCoversRequests
    <2> SUFFICES ASSUME ClearInv, NEW e \in inflight PROVE run[e.run].deadline >= e.left
        BY DEF BarrierCoversRequests
    <2>1. run[e.run].deadline = e.left
        BY DEF ClearInv, Requests
    <2>2. e.left \in Int
        BY DEF ClearInv, SoloInv, DoomInv, OwnInv, IInv, TypeOK, CreateType
    <2>3. QED BY <2>1, <2>2
<1>2. QED BY <1>1, ClearAlways, PTL

-----------------------------------------------------------------------------
(* A released Run is clean.                                                *)

\* What the reaper has claimed is doomed.
ClaimedDoomed ==
    \A p \in Procs :
        reap[p].pc \in Claimed /\ reap[p].target # NoRun => Doomed(reap[p].target)

\* What it has not found in its final inventory is not there, and it releases
\* only after it found nothing.
InventoryClean ==
    \A p \in Procs, k \in Kinds :
        /\ reap[p].pc \in {"inventory", "complete"} /\ k \notin reap[p].todo
        /\ reap[p].view[k].run # reap[p].target
        => cluster[k].run # reap[p].target
CompleteClean ==
    \A p \in Procs : reap[p].pc = "complete" =>
        reap[p].todo = {} /\ OwnedBy(reap[p].view, reap[p].target) = {}

CleanInv == ClearInv /\ ClaimedDoomed /\ InventoryClean /\ CompleteClean /\ ReleasedIsClean

\* The invariant before a step, and what is kept of it already.
CleanMoved == CleanInv /\ ClearInv' /\ [Next]_vars

\* The parts of CleanMoved by their names.
LEMMA CleanMoves ==
    ASSUME CleanMoved
    PROVE  /\ ClearMoved /\ SoloMoved /\ Moved /\ TypeOK /\ TypeOK' /\ SnapshotLive'
           /\ \A p \in Procs : reap[p].target \in Runs \cup {NoRun}
           /\ \A p \in Procs : reap'[p].target \in Runs \cup {NoRun}
<1>1. ClearMoved
    BY DEF CleanMoved, CleanInv, ClearInv, ClearMoved
<1>2. SoloMoved /\ Moved /\ TypeOK /\ TypeOK' /\ IInv'
    BY <1>1, ClearMoves
<1>3. QED BY <1>1, <1>2 DEF TypeOK, ReapType, IInv

\* Nothing of a Run appears once its deadline has passed.
LEMMA NothingAppears ==
    ASSUME ClearMoved, NEW r \in Runs, ~Open(run[r].deadline), NEW k \in Kinds,
           cluster[k].run # r
    PROVE  cluster'[k].run # r
<1>1. ObjectShape(k) /\ r # NoRun
    BY ClearMoves DEF Moved, KubeStep, ClusterStep, Runs, NoRun
<1>2. ASSUME NEW e \in inflight PROVE e.run # r
    <2>1. Open(e.left)
        BY ClearMoves DEF TypeOK, CreateType, Open
    <2>2. run[e.run].deadline = e.left
        BY DEF ClearMoved, ClearInv, Requests
    <2>3. QED BY <2>1, <2>2
<1>3. QED BY <1>1, <1>2 DEF ObjectShape, NoObj

\* ClaimedDoomed is kept.
LEMMA ClaimedKept ==
    ASSUME CleanMoved
    PROVE  ClaimedDoomed'
<1>0. Moved /\ SoloMoved /\ TypeOK /\ ClaimedDoomed
    BY CleanMoves DEF CleanMoved, CleanInv
<1>1. ASSUME NEW p \in Procs, NEW t \in Runs, reap'[p].pc \in Claimed, t = reap'[p].target
      PROVE  Doomed(t)'
    <2>0. t # NoRun
        BY DEF Runs, NoRun
    <2>1. CASE reap[p].pc \in Claimed /\ reap[p].target = t
        <3>1. Doomed(t)
            BY <1>0, <2>0, <2>1 DEF ClaimedDoomed
        <3>2. QED BY <1>0, <3>1, DoomedForever DEF Moved
    <2>2. CASE CanClaimCleanup(run[t], reap[p].held.token) /\ run'[t] = ClaimCleanup(run[t])
        BY <1>0, <2>2, ClaimDooms
    <2>3. CASE Tick
        BY <1>0, <1>1, <2>1, <2>3, TickFacts
    <2>4. CASE ~Tick
        <3>1. ClaimForm(p)
            BY <1>0, <2>4, SoloForms DEF ReapForm
        <3>2. QED BY <1>1, <2>0, <2>1, <2>2, <3>1 DEF ClaimForm
    <2>5. QED BY <2>3, <2>4
<1>2. ASSUME NEW p \in Procs, reap'[p].pc \in Claimed, reap'[p].target # NoRun
      PROVE  Doomed(reap[p].target)'
    <2>1. PICK t \in Runs : t = reap'[p].target
        BY <1>2, CleanMoves
    <2>2. Doomed(t)'
        BY <1>1, <1>2, <2>1
    <2>3. QED BY <2>1, <2>2 DEF Doomed, Stuck, NoOwner
<1>3. QED BY <1>2 DEF ClaimedDoomed

\* InventoryClean is kept.
LEMMA InventoryKept ==
    ASSUME CleanMoved
    PROVE  InventoryClean'
<1>0. SoloMoved /\ ClearMoved /\ TypeOK /\ SnapshotLive' /\ ClaimedDoomed /\ InventoryClean
    BY CleanMoves DEF CleanMoved, CleanInv
<1>1. ASSUME NEW p \in Procs, NEW k \in Kinds, reap'[p].pc \in {"inventory", "complete"},
             k \notin reap'[p].todo, reap'[p].view[k].run # reap'[p].target
      PROVE  cluster'[k].run # reap'[p].target
    <2>0. PICK t \in Runs : t = reap'[p].target /\ t # NoRun
        BY <1>0, <1>1, CleanMoves DEF SnapshotLive, HeldLive
    <2>1. CASE Tick
        <3>1. UNCHANGED cluster
            BY <2>1 DEF Tick
        <3>2. QED BY <1>0, <1>1, <2>1, <3>1, TickFacts DEF InventoryClean
    <2>2. CASE /\ reap[p].pc \in {"inventory", "complete"} /\ reap[p].target = t
               /\ k \notin reap[p].todo /\ reap'[p].view[k] = reap[p].view[k]
        <3>1. cluster[k].run # t
            BY <1>0, <1>1, <2>0, <2>2 DEF InventoryClean
        <3>2. ~Open(run[t].deadline)
            BY <1>0, <2>0, <2>2 DEF ClaimedDoomed, Claimed, Doomed
        <3>3. QED BY <1>0, <2>0, <3>1, <3>2, NothingAppears
    <2>3. CASE reap'[p].view[k] = cluster[k] /\ UNCHANGED cluster
        BY <1>1, <2>3
    <2>4. CASE ~Tick
        <3>1. CleanForm(p)
            BY <1>0, <2>4, SoloForms DEF ReapForm
        <3>2. QED BY <1>1, <2>0, <2>2, <2>3, <3>1 DEF CleanForm
    <2>5. QED BY <2>1, <2>4
<1>2. QED BY <1>1 DEF InventoryClean

\* CompleteClean is kept.
LEMMA CompleteKept ==
    ASSUME CleanMoved
    PROVE  CompleteClean'
<1>0. SoloMoved /\ TypeOK /\ CompleteClean
    BY CleanMoves DEF CleanMoved, CleanInv
<1>1. ASSUME NEW p \in Procs, reap'[p].pc = "complete"
      PROVE  reap'[p].todo = {} /\ OwnedBy(reap'[p].view, reap'[p].target) = {}
    <2>1. CASE Tick
        BY <1>0, <1>1, <2>1, TickFacts DEF CompleteClean
    <2>2. CASE ~Tick
        <3>1. CleanForm(p)
            BY <1>0, <2>2, SoloForms DEF ReapForm
        <3>2. QED BY <1>0, <1>1, <3>1 DEF CleanForm, CompleteClean
    <2>3. QED BY <2>1, <2>2
<1>2. QED BY <1>1 DEF CompleteClean, OwnedBy

\* What the reaper is about to release has no object and gets none.
LEMMA CompletesClean ==
    ASSUME CleanMoved, NEW p \in Procs, NEW r \in Runs, reap[p].pc = "complete",
           reap[p].target = r
    PROVE  /\ Doomed(r) /\ OwnedBy(cluster, r) = {}
<1>1. /\ ClaimedDoomed /\ InventoryClean /\ CompleteClean /\ r # NoRun
    BY DEF CleanMoved, CleanInv, Runs, NoRun
<1>2. Doomed(r)
    BY <1>1 DEF ClaimedDoomed, Claimed
<1>3. \A k \in Kinds : k \notin reap[p].todo /\ reap[p].view[k].run # r
    BY <1>1 DEF CompleteClean, OwnedBy
<1>4. \A k \in Kinds : cluster[k].run # r
    BY <1>1, <1>3 DEF InventoryClean
<1>5. QED BY <1>2, <1>4 DEF OwnedBy

\* ReleasedIsClean is kept.
LEMMA ReleasedCleanKept ==
    ASSUME CleanMoved
    PROVE  ReleasedIsClean'
<1>0. SoloMoved /\ ClearMoved /\ Moved /\ TypeOK /\ ReleasedIsClean
    BY CleanMoves DEF CleanMoved, CleanInv
<1>1. ASSUME NEW r \in Runs, run'[r].state = "released"
      PROVE  \A k \in Kinds : cluster'[k].run # r
    <2>1. ~Open(run[r].deadline) /\ OwnedBy(cluster, r) = {}
        <3>1. CASE run[r].state = "released"
            BY <1>0, <3>1 DEF ReleasedIsClean, Moved, KubeInv, ReleasedDone, Open, Unset
        <3>2. CASE run[r].state # "released"
            <4>1. ~Tick
                BY <1>0, <1>1, <3>2, TickFacts
            <4>2. RowChange(r) /\ ~RowAdmitted(r)
                BY <1>0, <1>1, <4>1, SoloForms DEF RowAdmitted, AdmittedRun, BlankRun
            <4>3. RowReleased(r)
                BY <1>1, <3>2, <4>2
                   DEF RowChange, RowWorked, RowReadied, RowActivated, RowFailed, RowWanted,
                       RowHandled
            <4>4. QED BY <4>3, CompletesClean DEF RowReleased
        <3>3. QED BY <3>1, <3>2
    <2>2. QED BY <1>0, <2>1, NothingAppears DEF OwnedBy
<1>2. QED BY <1>1 DEF ReleasedIsClean, OwnedBy

\* Before the Task has a Run nothing is claimed.
LEMMA InitClean == Init => CleanInv
<1> SUFFICES ASSUME Init PROVE CleanInv
    OBVIOUS
<1>1. ClearInv
    BY InitClear
<1>2. /\ \A p \in Procs : reap[p].pc = "idle"
      /\ \A r \in Runs : run[r].state = "unborn"
    BY DEF Init, IdleReap, BlankRun
<1>3. QED BY <1>1, <1>2
          DEF CleanInv, ClaimedDoomed, Claimed, InventoryClean, CompleteClean, ReleasedIsClean

\* Every step keeps the invariant.
LEMMA StepClean == OneProcess /\ NoStrays /\ CleanInv /\ [Next]_vars => CleanInv'
<1> SUFFICES ASSUME OneProcess, NoStrays, CleanInv, [Next]_vars PROVE CleanInv'
    OBVIOUS
<1>1. CleanMoved
    BY StepClear DEF CleanMoved, CleanInv
<1>2. QED BY <1>1, ClaimedKept, InventoryKept, CompleteKept, ReleasedCleanKept
          DEF CleanInv, CleanMoved

\* So the invariant holds always.
LEMMA CleanAlways ==
    ASSUME OneProcess, NoStrays
    PROVE  Spec => []CleanInv
<1>1. CleanInv /\ [Next]_vars => CleanInv'
    BY StepClean
<1>2. QED BY <1>1, InitClean, PTL DEF Spec

\* A released Run has no object in Kubernetes and never gets one again: the
\* final inventory comes after every request was served or dropped, and a late
\* apply cannot recreate what the reaper has deleted.  It needs the barrier,
\* and so the same hypotheses.
THEOREM ReleasedStaysClean ==
    ASSUME OneProcess, NoStrays
    PROVE  Spec => []ReleasedIsClean
<1>1. CleanInv => ReleasedIsClean
    BY DEF CleanInv
<1>2. QED BY <1>1, CleanAlways, PTL

-----------------------------------------------------------------------------
(* The lifecycle implements the Run contract.                              *)

\* A step changes one row and no object, or one object and no row.
RowAlone ==
    /\ UNCHANGED cluster
    /\ \E r \in Runs : \A s \in Runs : s # r => run'[s] = run[s]
ObjectAlone ==
    /\ UNCHANGED run
    /\ \E k \in Kinds : \A j \in Kinds : j # k => cluster'[j] = cluster[j]

\* A row that is written, whether or not there is such a Run.
LEMMA RowSetAlone ==
    ASSUME TypeOK, UNCHANGED cluster,
           UNCHANGED run \/ \E r \in Runs \cup {NoRun} : \E row : SetRun(r, row)
    PROVE  RowAlone
<1>1. 1 \in Runs
    BY LifecycleConstants DEF LifecycleConstants, Runs
<1>2. CASE UNCHANGED run
    BY <1>1, <1>2 DEF RowAlone
<1>3. ASSUME NEW r \in Runs \cup {NoRun}, NEW row, SetRun(r, row) PROVE RowAlone
    <2>1. CASE r \in Runs
        BY <1>3, <2>1, RowSet DEF RowAlone
    <2>2. CASE r \notin Runs
        BY <1>1, <1>3, <2>2 DEF SetRun, TypeOK, RowAlone
    <2>3. QED BY <2>1, <2>2
<1>4. QED BY <1>2, <1>3

\* A reaper writes its row or deletes an object.
LEMMA ReapAlone ==
    ASSUME TypeOK, NEW p \in Procs, ReapStep(p)
    PROVE  RowAlone \/ ObjectAlone
<1>1. reap[p].target \in Runs \cup {NoRun}
    BY DEF TypeOK, ReapType
<1>2. CASE ReapDelete(p)
    <2>1. UNCHANGED run
        BY <1>2 DEF ReapDelete, store
    <2>2. PICK k \in NextToDelete(reap[p]) : UNCHANGED cluster \/ Removed(k)
        BY <1>2 DEF ReapDelete
    <2>3. \A j \in Kinds : j # k => cluster'[j] = cluster[j]
        BY <2>2 DEF Removed, TypeOK
    <2>4. k \in Kinds
        BY <1>2, LifecycleConstants
           DEF NextToDelete, TypeOK, ReapType, LifecycleConstants
    <2>5. QED BY <2>1, <2>3, <2>4 DEF ObjectAlone
<1>3. CASE ~ReapDelete(p)
    <2>1. UNCHANGED cluster
        BY <1>3 DEF ReapStep, FailUnprepared, ReapLoad, ReapLook, ReapObserved,
           ReapObservationFails, ReapPlan, ReapReload, ReapClaim, ReapInspected, ReapCallFails,
           ReapAborts, ReapDrain, ReapInventoried, ReapComplete, ReapUnclaim, kube
    <2>2. UNCHANGED run \/ \E row : SetRun(reap[p].target, row)
        BY <1>3 DEF ReapStep, FailUnprepared, ReapLoad, ReapLook, ReapObserved,
           ReapObservationFails, ReapPlan, ReapReload, ReapClaim, ReapInspected, ReapCallFails,
           ReapAborts, ReapDrain, ReapInventoried, ReapComplete, ReapUnclaim, store
    <2>3. QED BY <1>1, <2>1, <2>2, RowSetAlone
<1>4. QED BY <1>2, <1>3

\* So does every step but a tick.
LEMMA OneThing ==
    ASSUME TypeOK, OneUnreleasedRun, [Next]_vars, ~Tick
    PROVE  RowAlone \/ ObjectAlone
<1>1. "Pod" \in Kinds
    BY LifecycleConstants DEF LifecycleConstants
<1>2. ASSUME NEW isReady \in BOOLEAN, Admit(isReady) PROVE RowAlone
    <2>1. current + 1 \in Runs
        BY <1>2, LifecycleConstants DEF Admit, TypeOK, Runs, NoRun, LifecycleConstants
    <2>2. QED BY <1>2, <2>1, RowSetAlone DEF Admit, kube
<1>3. ASSUME NEW r \in Runs, Prepared(r) \/ RunFails(r) \/ RequestTaskSandboxRelease(r)
      PROVE  RowAlone
    BY <1>3, RowSetAlone DEF Prepared, RunFails, RequestTaskSandboxRelease, kube
<1>4. ASSUME NEW p \in Procs, NEW r \in Runs, OpStart(p, r) \/ OpStep(p, r) PROVE RowAlone
    <2>1. UNCHANGED cluster
        BY <1>4 DEF OpStep, OpStart, OpClaim, OpPrepare, OpConfig, OpObserve, OpBegin, OpApply,
           OpActionDone, OpActionFails, OpActionUnknown, OpReconcile, OpReconcileOpen, OpRecover,
           OpComplete, OpIdentify, OpRecord, OpActivate, OpFail, OpFailing, OpCallFails, kube
    <2>2. \A s \in Runs : s # r => run'[s] = run[s]
        BY <1>4, OpAlone
    <2>3. QED BY <2>1, <2>2 DEF RowAlone
<1>5. ASSUME NEW p \in Reapers, PreparationFails(p) \/ ReapStep(p)
      PROVE  RowAlone \/ ObjectAlone
    <2>1. CASE PreparationFails(p)
        BY <2>1, RowSetAlone DEF PreparationFails, store, kube
    <2>2. QED BY <1>5, <2>1, ReapAlone, LifecycleConstants DEF LifecycleConstants
<1>6. ASSUME NEW e \in inflight, Land(e) PROVE ObjectAlone
    <2>1. e.kind \in Kinds /\ UNCHANGED run
        BY <1>6 DEF Land, TypeOK, CreateType, store
    <2>2. \A j \in Kinds : j # e.kind => cluster'[j] = cluster[j]
        BY <1>6 DEF Land, TypeOK
    <2>3. QED BY <2>1, <2>2 DEF ObjectAlone
<1>7. CASE PodReady \/ PodFails \/ PodLost
    <2>1. UNCHANGED run
        BY <1>7 DEF PodReady, PodFails, PodLost, store
    <2>2. \A j \in Kinds : j # "Pod" => cluster'[j] = cluster[j]
        BY <1>7 DEF PodReady, PodFails, PodLost, TypeOK
    <2>3. QED BY <1>1, <2>1, <2>2 DEF ObjectAlone
<1>8. ASSUME NEW k \in Kinds, Terminated(k) PROVE ObjectAlone
    BY <1>8 DEF Terminated, TypeOK, store, ObjectAlone
<1>9. CASE UNCHANGED vars \/ \E p \in Procs : Crash(p)
    <2>1. UNCHANGED <<cluster, run>>
        BY <1>9 DEF vars, Crash, store, kube
    <2>2. QED BY <2>1, RowSetAlone
<1>10. QED BY <1>2, <1>3, <1>4, <1>5, <1>6, <1>7, <1>8, <1>9 DEF Next, Environment

\* What the contract sees of a step that changes one row at most.
LEMMA StageMoves ==
    ASSUME TypeOK, NEW r \in Runs, \A s \in Runs : s # r => run'[s] = run[s]
    PROVE  /\ \A next : StageOf(run'[r]) = next => Contract!Becomes(r, next)
           /\ StageOf(run'[r]) = StageOf(run[r]) =>
                 UNCHANGED [s \in Runs |-> StageOf(run[s])]
BY DEF Contract!Becomes

\* A Run is settled in the step that releases it, and in no other.
LEMMA SettledMoves ==
    ASSUME TypeOK, TypeOK', SettledOnce, SettledOnce', NEW r \in Runs,
           \A s \in Runs : s # r => run'[s] = run[s]
    PROVE  /\ (run'[r].state = "released" <=> run[r].state = "released") => UNCHANGED settled
           /\ run[r].state # "released" /\ run'[r].state = "released" =>
                 settled' = [settled EXCEPT ![r] = @ + 1]
<1>1. settled \in [Runs -> Nat] /\ settled' \in [Runs -> Nat]
    BY DEF TypeOK
<1>2. \A s \in Runs : /\ settled[s] = IF run[s].state = "released" THEN 1 ELSE 0
                      /\ settled'[s] = IF run'[s].state = "released" THEN 1 ELSE 0
    BY DEF SettledOnce
<1>3. QED BY <1>1, <1>2

\* What the contract sees of Kubernetes.
LEMMA PresentMoves ==
    ASSUME NEW k \in Kinds, \A j \in Kinds : j # k => cluster'[j] = cluster[j],
           NEW s \in Runs, cluster'[k].run = s <=> cluster[k].run = s
    PROVE  OwnedBy(cluster', s) = OwnedBy(cluster, s)
BY DEF OwnedBy

\* A step that the contract describes, or that it does not see.
ContractStep == Contract!Next \/ UNCHANGED Contract!vars

\* The invariant before and after a step.
BothClean == CleanInv /\ CleanInv' /\ [Next]_vars /\ ~Tick

\* What is used of it.
LEMMA BothMove ==
    ASSUME BothClean
    PROVE  /\ CleanMoved /\ ClearMoved /\ SoloMoved /\ Moved /\ TypeOK /\ TypeOK'
           /\ SettledOnce /\ SettledOnce' /\ OneUnreleasedRun /\ OneUnreleasedRun'
           /\ ActiveIntact /\ ActiveIntact' /\ lost = {} /\ lost' = {} /\ NamesKnown
           /\ ReleasedDone /\ EndsUnset /\ Requests /\ ReleasedIsClean /\ "Pod" \in Kinds
           /\ \A r \in Runs : RowChange(r)
<1>1. CleanMoved
    BY DEF BothClean, CleanMoved, CleanInv
<1>2. CleanMoved /\ ClearMoved /\ SoloMoved /\ Moved
    BY <1>1, CleanMoves
<1>3. \A r \in Runs : RowChange(r)
    BY <1>2, SoloForms DEF BothClean
<1>4. IInv /\ IInv' /\ KubeInv /\ KubeInv' /\ "Pod" \in Kinds
    BY <1>2, ClearMoves DEF Moved, BothClean, CleanInv, ClearInv, SoloInv, DoomInv
<1>5. lost = {} /\ lost' = {} /\ EndsUnset /\ Requests /\ ReleasedIsClean
    BY DEF BothClean, CleanInv, ClearInv, NoPodFails
<1>6. QED BY <1>2, <1>3, <1>4, <1>5 DEF IInv, KubeInv

\* The startup that activates a Run owns it, so its Pod is there.
LEMMA ActivatedPresent ==
    ASSUME BothClean, NEW r \in Runs, RowActivated(r)
    PROVE  OwnedBy(cluster, r) # {}
<1>1. PICK p \in Procs : Owns(p, r) /\ op[p][r].pc = "activate"
    BY DEF RowActivated
<1>2. ~Doomed(r)
    <2>1. run[r].token \in Nat /\ op[p][r].tok = run[r].token
        BY <1>1, BothMove, ClearMoves DEF Owns
    <2>2. ~NoOwner(r)
        BY <1>1, <2>1 DEF NoOwner, Owns
    <2>3. QED BY <2>2 DEF RowActivated, Doomed, Stuck
<1>3. op[p][r].phase = "open" /\ RecordIntact
    BY <1>1, BothMove DEF Moved, OwnInv, Ownership, Phases, KubeInv
<1>4. Intact(r, op[p][r].pod)
    BY <1>1, <1>2, <1>3 DEF RecordIntact
<1>5. QED BY <1>4, BothMove DEF Intact, OwnedBy

\* A row that changes is admitted, activated, given up or released, or the
\* change is none of the contract's concern.
LEMMA RowImplements ==
    ASSUME BothClean, RowAlone
    PROVE  ContractStep
<1>1. PICK r \in Runs : \A s \in Runs : s # r => run'[s] = run[s]
    BY DEF RowAlone
<1>2. UNCHANGED {s \in Runs : OwnedBy(cluster, s) # {}}
    BY DEF RowAlone
<1>3. RowChange(r) /\ TypeOK /\ TypeOK' /\ run[r] \in RunType /\ run'[r] \in RunType
    BY BothMove DEF TypeOK
<1>4. ASSUME NEW next, StageOf(run'[r]) = next PROVE Contract!Becomes(r, next)
    BY <1>1, <1>3, <1>4, StageMoves
<1>5. CASE StageOf(run'[r]) = StageOf(run[r])
    <2>1. UNCHANGED [s \in Runs |-> StageOf(run[s])]
        BY <1>1, <1>3, <1>5, StageMoves
    <2>2. run'[r].state = "released" <=> run[r].state = "released"
        BY <1>5 DEF StageOf
    <2>3. UNCHANGED settled
        BY <1>1, <2>2, BothMove, SettledMoves
    <2>4. QED BY <1>2, <2>1, <2>3 DEF ContractStep, Contract!vars
<1>6. ASSUME run'[r].state # "released", run[r].state # "released"
      PROVE  UNCHANGED settled
    BY <1>1, <1>6, BothMove, SettledMoves
<1>7. CASE RowAdmitted(r)
    <2>1. run[r].state = "unborn" /\ run'[r].state = "starting"
        BY <1>7 DEF RowAdmitted, AdmittedRun, BlankRun
    <2>2. r \in Int /\ current' \in Int /\ \A s \in Runs : s \in Int
        BY <1>3 DEF TypeOK, Runs, NoRun
    <2>3. r = current'
        BY <2>1, <2>2, BothMove DEF OneUnreleasedRun
    <2>4. \A s \in Runs : s < r => run[s].state = "released"
        BY <1>1, <2>2, <2>3, BothMove DEF OneUnreleasedRun
    <2>5. UNCHANGED settled /\ Contract!Becomes(r, "starting")
        BY <1>4, <1>6, <2>1 DEF StageOf
    <2>6. StageOf(run[r]) = "unborn" /\ \A s \in Runs : s < r => StageOf(run[s]) = "released"
        BY <2>1, <2>4 DEF StageOf
    <2>7. Contract!Admit(r)
        BY <1>2, <2>5, <2>6 DEF Contract!Admit, Contract!Runs, Runs
    <2>8. QED BY <2>7 DEF ContractStep, Contract!Next, Contract!Runs, Runs
<1>8. CASE RowActivated(r)
    <2>1. run[r].state = "starting" /\ run'[r].state = "active"
        BY <1>8 DEF RowActivated
    <2>2. UNCHANGED settled /\ Contract!Becomes(r, "active")
        BY <1>4, <1>6, <2>1 DEF StageOf
    <2>3. StageOf(run[r]) = "starting" /\ OwnedBy(cluster, r) # {}
        BY <1>8, <2>1, ActivatedPresent DEF StageOf
    <2>4. Contract!Activate(r)
        BY <1>2, <2>2, <2>3 DEF Contract!Activate
    <2>5. QED BY <2>4 DEF ContractStep, Contract!Next, Contract!Runs, Runs
<1>9. CASE /\ run[r].state \in {"starting", "active"}
           /\ run'[r].state \in {"failed", "release_requested"}
    <2>1. UNCHANGED settled /\ Contract!Becomes(r, "doomed")
        BY <1>4, <1>6, <1>9 DEF StageOf
    <2>2. StageOf(run[r]) \in {"starting", "active"}
        BY <1>9 DEF StageOf
    <2>3. Contract!Doom(r)
        BY <1>2, <2>1, <2>2 DEF Contract!Doom
    <2>4. QED BY <2>3 DEF ContractStep, Contract!Next, Contract!Runs, Runs
<1>10. CASE RowReleased(r)
    <2>1. PICK p \in Procs : reap[p].target = r /\ reap[p].pc = "complete"
        BY <1>10 DEF RowReleased
    <2>2. Doomed(r) /\ OwnedBy(cluster, r) = {}
        BY <2>1, BothMove, CompletesClean
    <2>3. /\ run[r].state \in {"starting", "release_requested", "failed"}
          /\ run'[r].state = "released"
        BY <1>10, <2>2 DEF RowReleased, Doomed, Stuck, Unreleased
    <2>4. settled' = [settled EXCEPT ![r] = @ + 1]
        BY <1>1, <2>3, BothMove, SettledMoves
    <2>5. Contract!Becomes(r, "released") /\ StageOf(run[r]) \in {"starting", "doomed"}
        BY <1>4, <2>3 DEF StageOf
    <2>6. Contract!Release(r)
        BY <1>2, <2>2, <2>4, <2>5 DEF Contract!Release
    <2>7. QED BY <2>6 DEF ContractStep, Contract!Next, Contract!Runs, Runs
<1>11. CASE run'[r] = run[r] \/ RowWorked(r) \/ RowReadied(r) \/ RowHandled(r)
    BY <1>5, <1>11 DEF RowWorked, RowReadied, RowHandled, StageOf
<1>12. CASE RowFailed(r)
    BY <1>9, <1>12 DEF RowFailed, Startable
<1>13. CASE RowWanted(r)
    BY <1>3, <1>5, <1>9, <1>13 DEF RowWanted, Unreleased, RunType, RunStates, StageOf
<1>14. QED BY <1>3, <1>7, <1>8, <1>10, <1>11, <1>12, <1>13 DEF RowChange

\* An object appears only where a request is on its way: its Run has a deadline.
LEMMA AppearsWhere ==
    ASSUME BothClean, NEW e \in inflight
    PROVE  run[e.run].state \in {"starting", "release_requested"}
<1>1. e.run \in Runs /\ e.left \in 1..ActionTimeout /\ run[e.run] \in RunType
    BY BothMove DEF TypeOK, CreateType
<1>2. run[e.run].deadline = e.left /\ Born(e.run)
    BY BothMove DEF Requests, NamesKnown
<1>3. run[e.run].deadline # Unset
    BY <1>1, <1>2, RunConstants DEF Unset, RunConstants
<1>4. run[e.run].state \notin {"unborn", "active", "failed", "released"}
    BY <1>1, <1>2, <1>3, BothMove DEF Born, EndsUnset, ReleasedDone
<1>5. QED BY <1>1, <1>4 DEF RunType, RunStates

\* The last object of an active Run does not vanish: its Pod is kept.
LEMMA VanishesWhere ==
    ASSUME BothClean, UNCHANGED run, NEW r \in Runs,
           OwnedBy(cluster, r) # {}, OwnedBy(cluster', r) = {}
    PROVE  run[r].state \in {"starting", "release_requested", "failed"}
<1>1. run[r] \in RunType /\ r # NoRun
    BY BothMove DEF TypeOK, Runs, NoRun
<1>2. run[r].state # "unborn"
    <2>1. PICK k \in Kinds : cluster[k].run = r
        BY DEF OwnedBy
    <2>2. Present(k)
        BY <1>1, <2>1 DEF Present, NoObj
    <2>3. QED BY <2>1, <2>2, BothMove DEF NamesKnown, Born
<1>3. run[r].state # "released"
    BY BothMove DEF ReleasedIsClean
<1>4. run[r].state # "active"
    <2>1. ASSUME run[r].state = "active" PROVE cluster'["Pod"].run = r
        BY <2>1, BothMove DEF ActiveIntact, Intact
    <2>2. cluster'["Pod"].run # r
        BY BothMove DEF OwnedBy
    <2>3. QED BY <2>1, <2>2
<1>5. QED BY <1>1, <1>2, <1>3, <1>4 DEF RunType, RunStates

\* What a Run owns changes: its first object appears, or its last one vanishes.
LEMMA OwnerImplements ==
    ASSUME BothClean, UNCHANGED run, NEW r \in Runs,
           OwnedBy(cluster, r) = {} => \E e \in inflight : e.run = r,
           \A s \in Runs : s # r => OwnedBy(cluster', s) = OwnedBy(cluster, s)
    PROVE  ContractStep
<1>1. UNCHANGED settled /\ UNCHANGED [s \in Runs |-> StageOf(run[s])]
    <2>1. UNCHANGED settled
        BY BothMove, SettledMoves
    <2>2. QED BY <2>1
<1> DEFINE before == {s \in Runs : OwnedBy(cluster, s) # {}}
           after == {s \in Runs : OwnedBy(cluster', s) # {}}
<1>2. before' = after
    BY DEF OwnedBy
<1>3. CASE OwnedBy(cluster, r) = {} /\ OwnedBy(cluster', r) # {}
    <2>1. after = before \cup {r} /\ r \notin before
        BY <1>3
    <2>2. StageOf(run[r]) \in {"starting", "doomed"}
        BY <1>3, AppearsWhere DEF StageOf
    <2>3. Contract!Appear(r)
        BY <1>1, <1>2, <2>1, <2>2 DEF Contract!Appear
    <2>4. QED BY <2>3 DEF ContractStep, Contract!Next, Contract!Runs, Runs
<1>4. CASE OwnedBy(cluster, r) # {} /\ OwnedBy(cluster', r) = {}
    <2>1. after = before \ {r} /\ r \in before
        BY <1>4
    <2>2. StageOf(run[r]) \in {"starting", "doomed"}
        BY <1>4, VanishesWhere DEF StageOf
    <2>3. Contract!Vanish(r)
        BY <1>1, <1>2, <2>1, <2>2 DEF Contract!Vanish
    <2>4. QED BY <2>3 DEF ContractStep, Contract!Next, Contract!Runs, Runs
<1>5. CASE OwnedBy(cluster, r) = {} <=> OwnedBy(cluster', r) = {}
    <2>1. after = before
        BY <1>5
    <2>2. QED BY <1>1, <1>2, <2>1 DEF ContractStep, Contract!vars
<1>6. QED BY <1>3, <1>4, <1>5

\* An object that changes is the first of its Run, the last, or none of the
\* contract's concern.
LEMMA ObjectImplements ==
    ASSUME BothClean, ObjectAlone
    PROVE  ContractStep
<1>1. PICK k \in Kinds : \A j \in Kinds : j # k => cluster'[j] = cluster[j]
    BY DEF ObjectAlone
<1>2. UNCHANGED run /\ ObjectShape(k) /\ NoRun \notin Runs /\ NoObj.run = NoRun /\ 1 \in Runs
    BY BothMove, LifecycleConstants
       DEF ObjectAlone, Moved, KubeStep, ClusterStep, Runs, NoRun, NoObj, LifecycleConstants
<1>3. ASSUME NEW s \in Runs, cluster'[k].run = s <=> cluster[k].run = s
      PROVE  OwnedBy(cluster', s) = OwnedBy(cluster, s)
    BY <1>1, <1>3, PresentMoves
<1>4. CASE cluster'[k].run = cluster[k].run
    <2>1. \A s \in Runs : OwnedBy(cluster', s) = OwnedBy(cluster, s)
        BY <1>3, <1>4
    <2>2. UNCHANGED {s \in Runs : OwnedBy(cluster, s) # {}}
        BY <2>1 DEF OwnedBy
    <2>3. UNCHANGED settled
        BY <1>2, BothMove, SettledMoves
    <2>4. QED BY <1>2, <2>2, <2>3 DEF ContractStep, Contract!vars
<1>5. CASE cluster'[k] = NoObj /\ cluster[k] # NoObj
    <2>1. PICK r \in Runs : r = cluster[k].run
        BY <1>5, BothMove, ObjectTypes DEF Present
    <2>2. \A s \in Runs : s # r => OwnedBy(cluster', s) = OwnedBy(cluster, s)
        BY <1>2, <1>3, <1>5, <2>1
    <2>3. OwnedBy(cluster, r) # {}
        BY <2>1 DEF OwnedBy
    <2>4. QED BY <1>2, <2>2, <2>3, OwnerImplements
<1>6. CASE cluster[k] = NoObj /\ \E e \in inflight : cluster'[k].run = e.run
    <2>1. PICK e \in inflight : cluster'[k].run = e.run
        BY <1>6
    <2>2. e.run \in Runs
        BY BothMove DEF TypeOK, CreateType
    <2>3. \A s \in Runs : s # e.run => OwnedBy(cluster', s) = OwnedBy(cluster, s)
        BY <1>2, <1>3, <1>6, <2>1
    <2>4. QED BY <1>2, <2>2, <2>3, OwnerImplements
<1>7. QED BY <1>2, <1>4, <1>5, <1>6 DEF ObjectShape

\* Time passes without the contract seeing it.
LEMMA TickImplements ==
    ASSUME TypeOK, Tick
    PROVE  ContractStep
<1>1. UNCHANGED <<cluster, settled>>
    BY DEF Tick
<1>2. \A r \in Runs : StageOf(run'[r]) = StageOf(run[r])
    BY RowTicks DEF StageOf
<1>3. UNCHANGED [r \in Runs |-> StageOf(run[r])]
    BY <1>2
<1>4. UNCHANGED {r \in Runs : OwnedBy(cluster, r) # {}}
    BY <1>1
<1>5. QED BY <1>1, <1>3, <1>4 DEF ContractStep, Contract!vars

\* Every step is a step of the contract, or one it does not see.
LEMMA StepImplements == CleanInv /\ CleanInv' /\ [Next]_vars => ContractStep
<1> SUFFICES ASSUME CleanInv, CleanInv', [Next]_vars PROVE ContractStep
    OBVIOUS
<1>1. IInv
    BY DEF CleanInv, ClearInv, SoloInv, DoomInv, OwnInv
<1>2. CASE Tick
    BY <1>1, <1>2, TickImplements DEF IInv
<1>3. CASE ~Tick
    <2>1. RowAlone \/ ObjectAlone
        BY <1>1, <1>3, OneThing DEF IInv
    <2>2. QED BY <1>3, <2>1, RowImplements, ObjectImplements DEF BothClean
<1>4. QED BY <1>2, <1>3

\* Before the Task has a Run the contract has not begun either.
LEMMA InitImplements == Init => Contract!Init
<1> SUFFICES ASSUME Init PROVE Contract!Init
    OBVIOUS
<1>1. \A r \in Runs : StageOf(run[r]) = "unborn"
    BY DEF Init, BlankRun, StageOf
<1>2. \A r \in Runs : OwnedBy(cluster, r) = {}
    BY DEF Init, OwnedBy, NoObj, Runs, NoRun
<1>3. settled = [r \in Runs |-> 0]
    BY DEF Init
<1>4. QED BY <1>1, <1>2, <1>3 DEF Contract!Init, Contract!Runs, Runs

\* What can be seen of the Runs of a Task, whatever the interleaving of its
\* startups, the reaper, requests, crashes and the failed calls NoStrays
\* leaves, is a behaviour of the Run contract: only a Run that has its Pod
\* becomes active, what is given up stays so, only a Run without objects is
\* released, and nothing of it comes back.
THEOREM LifecycleImplementsContract ==
    ASSUME OneProcess, NoStrays
    PROVE  Spec => ImplementsContract
<1>1. CleanInv /\ CleanInv' /\ [Next]_vars => [Contract!Next]_(Contract!vars)
    BY StepImplements DEF ContractStep
<1>2. QED BY <1>1, CleanAlways, InitImplements, PTL DEF Spec, ImplementsContract, Contract!Spec
=============================================================================
