------------------------ MODULE SandboxLifecycle_proofs ------------------------
(***************************************************************************)
(* Type correctness of SandboxLifecycle, and what fencing gives: for any   *)
(* number of processes, Runs, kinds of objects and disturbances.           *)
(***************************************************************************)
EXTENDS SandboxLifecycle, TLAPS

-----------------------------------------------------------------------------
(* What the store transactions of SandboxRuns make of a row: it stays a    *)
(* row, a transaction that changes its state moves its fence by one, and   *)
(* the others leave both alone.                                            *)

\* The instants a transaction writes are timers: null, or a full lease,
\* timeout or claim life from now (deadlineIso).
LEMMA TimerFacts ==
    /\ \A max \in {StartupLease, ActionTimeout, CleanupTtl} :
           Unset \in Timer(max) /\ max \in Timer(max)
    /\ \A max \in {StartupLease, ActionTimeout, CleanupTtl} :
           \A t \in Timer(max) : Ticked(t) \in Timer(max)
BY RunConstants DEF RunConstants, Timer, Unset, Ticked

\* A row as it is inserted is a row (buildLiveSandboxRun).
LEMMA NewRowType ==
    /\ BlankRun \in RunType
    /\ \A b \in BOOLEAN : AdmittedRun(b) \in RunType
    /\ BlankRun.state = "unborn" /\ BlankRun.token = 0
    /\ \A b : AdmittedRun(b).state = "starting" /\ AdmittedRun(b).token = 1
<1>1. "unborn" \in RunStates /\ "starting" \in RunStates /\ "none" \in Reasons
    BY DEF RunStates, Reasons
<1>2. 0 \in 0..MaxToken /\ 1 \in 0..MaxToken
    BY RunConstants DEF RunConstants
<1>3. BlankRun \in RunType
    BY <1>1, <1>2, TimerFacts DEF BlankRun, RunType
<1>4. \A b \in BOOLEAN : AdmittedRun(b) \in RunType
    BY <1>1, <1>2, <1>3 DEF AdmittedRun, RunType
<1>5. QED
    BY <1>3, <1>4 DEF BlankRun, AdmittedRun

\* The transactions of a startup keep the row a row; none moves the fence or
\* changes the state.
LEMMA StartupRowType ==
    ASSUME NEW r \in RunType, NEW c \in Claims, NEW uid \in {NoPod} \cup Uids
    PROVE  /\ MarkReady(r) \in RunType
           /\ ClaimStartup(r, c) \in RunType
           /\ InitConfig(r) \in RunType
           /\ BeginAction(r) \in RunType
           /\ CompleteAction(r) \in RunType
           /\ RecoverAction(r) \in RunType
           /\ RecordPod(r, uid) \in RunType
<1>1. MarkReady(r) \in RunType        BY DEF MarkReady, RunType
<1>2. ClaimStartup(r, c) \in RunType  BY TimerFacts DEF ClaimStartup, RunType
<1>3. InitConfig(r) \in RunType       BY DEF InitConfig, RunType
<1>4. BeginAction(r) \in RunType      BY TimerFacts DEF BeginAction, RunType
<1>5. CompleteAction(r) \in RunType   BY TimerFacts DEF CompleteAction, RunType
<1>6. RecoverAction(r) \in RunType    BY TimerFacts DEF RecoverAction, RunType
<1>7. RecordPod(r, uid) \in RunType   BY DEF RecordPod, RunType
<1>8. QED BY <1>1, <1>2, <1>3, <1>4, <1>5, <1>6, <1>7

\* ... and leave its state and its fence as they are.
LEMMA StartupKeepsFence ==
    ASSUME NEW r \in RunType, NEW c, NEW uid
    PROVE  /\ MarkReady(r).state = r.state /\ MarkReady(r).token = r.token
           /\ ClaimStartup(r, c).state = r.state /\ ClaimStartup(r, c).token = r.token
           /\ InitConfig(r).state = r.state /\ InitConfig(r).token = r.token
           /\ BeginAction(r).state = r.state /\ BeginAction(r).token = r.token
           /\ CompleteAction(r).state = r.state /\ CompleteAction(r).token = r.token
           /\ RecoverAction(r).state = r.state /\ RecoverAction(r).token = r.token
           /\ RecordPod(r, uid).state = r.state /\ RecordPod(r, uid).token = r.token
BY DEF RunType, MarkReady, ClaimStartup, InitConfig, BeginAction, CompleteAction,
       RecoverAction, RecordPod

\* The transactions that change the state or the owner keep the row a row.
LEMMA FencedRowType ==
    ASSUME NEW r \in RunType, HasRoom(r)
    PROVE  /\ Activate(r) \in RunType
           /\ Fail(r) \in RunType
           /\ RequestRelease(r) \in RunType
           /\ ClaimCleanup(r) \in RunType
           /\ ClearCleanup(r) \in RunType
           /\ CompleteRelease(r) \in RunType
<1>1. /\ {"active", "failed", "release_requested", "released"} \subseteq RunStates
      /\ {"none", "failed", "requested", "cleanup"} \subseteq Reasons
    BY DEF RunStates, Reasons
<1>2. ASSUME NEW s \in RunType, s.token = r.token
      PROVE  Bump(s) \in RunType
    <2>1. s.token + 1 \in 0..MaxToken
        BY <1>2, RunConstants DEF RunConstants, RunType, HasRoom
    <2>2. QED BY <2>1 DEF Bump, RunType
<1>3. EndStartup(r) \in RunType /\ EndStartup(r).token = r.token
    BY TimerFacts DEF EndStartup, RunType
<1>4. Activate(r) \in RunType
    <2>1. [EndStartup(r) EXCEPT !.state = "active"] \in RunType
        BY <1>1, <1>3 DEF RunType
    <2>2. QED BY <1>2, <1>3, <2>1 DEF Activate, RunType
<1>5. Fail(r) \in RunType
    <2> DEFINE s == [EndStartup(r) EXCEPT !.state = "failed", !.reason = "failed", !.cleanup = Unset]
    <2>1. s \in RunType /\ s.token = r.token
        BY <1>1, <1>3, TimerFacts DEF RunType
    <2>2. QED BY <1>2, <2>1 DEF Fail
<1>6. RequestRelease(r) \in RunType
    <2> DEFINE barrier == IF IsSet(r.deadline) THEN r ELSE EndStartup(r)
               reason == IF r.reason # "none" THEN r.reason
                         ELSE IF r.state = "failed" THEN "failed" ELSE "requested"
               s == [barrier EXCEPT !.state = "release_requested", !.cleanup = Unset,
                                    !.reason = reason]
    <2>1. barrier \in RunType /\ barrier.token = r.token
        BY <1>3
    <2>2. reason \in Reasons
        BY <1>1 DEF RunType
    <2> HIDE DEF barrier, reason
    <2>3. s \in RunType /\ s.token = r.token
        BY <1>1, <2>1, <2>2, TimerFacts DEF RunType
    <2>4. QED BY <1>2, <2>3 DEF RequestRelease, barrier, reason
<1>7. ClaimCleanup(r) \in RunType
    <2>1. [r EXCEPT !.cleanup = CleanupTtl] \in RunType
        BY TimerFacts DEF RunType
    <2>2. QED BY <1>2, <2>1 DEF ClaimCleanup, RunType
<1>8. ClearCleanup(r) \in RunType
    <2>1. [r EXCEPT !.cleanup = Unset] \in RunType
        BY TimerFacts DEF RunType
    <2>2. QED BY <1>2, <2>1 DEF ClearCleanup, RunType
<1>9. CompleteRelease(r) \in RunType
    <2> DEFINE reason == IF r.reason # "none" THEN r.reason
                         ELSE IF r.state = "failed" THEN "failed" ELSE "cleanup"
               s == [EndStartup(r) EXCEPT !.state = "released", !.cleanup = Unset,
                                          !.reason = reason]
    <2>1. reason \in Reasons
        BY <1>1 DEF RunType
    <2> HIDE DEF reason
    <2>2. s \in RunType /\ s.token = r.token
        BY <1>1, <1>3, <2>1, TimerFacts DEF RunType
    <2>3. QED BY <1>2, <2>2 DEF CompleteRelease, reason
<1>10. QED BY <1>4, <1>5, <1>6, <1>7, <1>8, <1>9

\* ... and each moves the fence by exactly one, to the state it is named for.
LEMMA FencedMovesFence ==
    ASSUME NEW r \in RunType
    PROVE  /\ Activate(r).token = r.token + 1 /\ Activate(r).state = "active"
           /\ Fail(r).token = r.token + 1 /\ Fail(r).state = "failed"
           /\ RequestRelease(r).token = r.token + 1
           /\ RequestRelease(r).state = "release_requested"
           /\ ClaimCleanup(r).token = r.token + 1 /\ ClaimCleanup(r).state = r.state
           /\ ClearCleanup(r).token = r.token + 1 /\ ClearCleanup(r).state = r.state
           /\ CompleteRelease(r).token = r.token + 1 /\ CompleteRelease(r).state = "released"
<1>1. EndStartup(r).token = r.token /\ EndStartup(r) \in RunType
    BY TimerFacts DEF EndStartup, RunType
<1>2. Activate(r).token = r.token + 1 /\ Activate(r).state = "active"
    BY DEF Activate, Bump, EndStartup, RunType
<1>3. Fail(r).token = r.token + 1 /\ Fail(r).state = "failed"
    BY DEF Fail, Bump, EndStartup, RunType
<1>4. /\ RequestRelease(r).token = r.token + 1
      /\ RequestRelease(r).state = "release_requested"
    BY <1>1 DEF RequestRelease, Bump, RunType
<1>5. /\ ClaimCleanup(r).token = r.token + 1 /\ ClaimCleanup(r).state = r.state
      /\ ClearCleanup(r).token = r.token + 1 /\ ClearCleanup(r).state = r.state
    BY DEF ClaimCleanup, ClearCleanup, Bump, RunType
<1>6. CompleteRelease(r).token = r.token + 1 /\ CompleteRelease(r).state = "released"
    BY DEF CompleteRelease, Bump, EndStartup, RunType
<1>7. QED BY <1>2, <1>3, <1>4, <1>5, <1>6

-----------------------------------------------------------------------------
(* Changing one row, one operation or one reaper.                          *)

\* Writing one row leaves the rows well typed and the others alone (one
\* locked sandbox_runs row per transaction).
LEMMA SetRunType ==
    ASSUME run \in [Runs -> RunType], NEW r \in Runs, NEW row \in RunType, SetRun(r, row)
    PROVE  /\ run' \in [Runs -> RunType]
           /\ run'[r] = row
           /\ \A s \in Runs \ {r} : run'[s] = run[s]
BY DEF SetRun

\* Changing one startup operation keeps all of them well typed.
LEMMA SetOpType ==
    ASSUME op \in [Procs -> [Runs -> OpType]], NEW p \in Procs, NEW r \in Runs,
           NEW o \in OpType, SetOp(p, r, o)
    PROVE  op' \in [Procs -> [Runs -> OpType]]
BY DEF SetOp

\* Changing one reaper keeps it well typed and leaves the others alone.
LEMMA SetReapType ==
    ASSUME reap \in [Procs -> ReapType], NEW p \in Procs, NEW q \in ReapType, SetReap(p, q)
    PROVE  /\ reap' \in [Procs -> ReapType]
           /\ reap'[p] = q
           /\ \A s \in Procs \ {p} : reap'[s] = reap[s]
BY DEF SetReap

\* A process that has just started, or crashed, has well-typed locals.
LEMMA IdleTypes == IdleOp \in OpType /\ IdleReap \in ReapType
<1>1. IdleOp \in OpType
    <2>1. 0 \in 0..MaxToken BY RunConstants DEF RunConstants
    <2>2. "idle" \in OpLabels BY DEF OpLabels
    <2>3. QED BY <2>1, <2>2, TimerFacts DEF IdleOp, OpType
<1>2. IdleReap \in ReapType
    <2>1. "idle" \in ReapLabels BY DEF ReapLabels
    <2>2. BlankRun \in RunType BY NewRowType
    <2>3. [k \in Kinds |-> NoObj] \in [Kinds -> ObjType \cup {NoObj}] OBVIOUS
    <2>4. QED BY <2>1, <2>2, <2>3 DEF IdleReap, ReapType
<1>3. QED BY <1>1, <1>2

\* Going on to another label keeps the startup operations well typed.
LEMMA OpGotoType ==
    ASSUME op \in [Procs -> [Runs -> OpType]], NEW p \in Procs, NEW r \in Runs,
           NEW label \in OpLabels, OpGoto(p, r, label)
    PROVE  op' \in [Procs -> [Runs -> OpType]]
<1>1. op[p][r] \in OpType OBVIOUS
<1>2. [op[p][r] EXCEPT !.pc = label] \in OpType BY <1>1 DEF OpType
<1>3. QED BY <1>2, SetOpType DEF OpGoto

\* Ending a startup operation keeps the others well typed.
LEMMA OpEndType ==
    ASSUME op \in [Procs -> [Runs -> OpType]], NEW p \in Procs, NEW r \in Runs, OpEnd(p, r)
    PROVE  op' \in [Procs -> [Runs -> OpType]]
BY IdleTypes, SetOpType DEF OpEnd

\* Going on to another label keeps the row the reaper holds.
LEMMA ReapGotoType ==
    ASSUME reap \in [Procs -> ReapType], NEW p \in Procs, NEW label \in ReapLabels,
           ReapGoto(p, label)
    PROVE  /\ reap' \in [Procs -> ReapType]
           /\ reap'[p].target = reap[p].target /\ reap'[p].held = reap[p].held
           /\ \A s \in Procs \ {p} : reap'[s] = reap[s]
<1>1. reap[p] \in ReapType OBVIOUS
<1>2. [reap[p] EXCEPT !.pc = label] \in ReapType BY <1>1 DEF ReapType
<1>3. QED BY <1>1, <1>2, SetReapType DEF ReapGoto, ReapType

\* A reaper call that ends holds no row any more.
LEMMA ReapEndType ==
    ASSUME reap \in [Procs -> ReapType], NEW p \in Procs, ReapEnd(p)
    PROVE  /\ reap' \in [Procs -> ReapType]
           /\ reap'[p].target = NoRun
           /\ \A s \in Procs \ {p} : reap'[s] = reap[s]
BY IdleTypes, SetReapType DEF ReapEnd, IdleReap

\* A disturbance is counted within its bound.
LEMMA FaultType ==
    ASSUME faults \in 0..MaxFaults, NEW kind, Fault(kind)
    PROVE  faults' \in 0..MaxFaults
BY LifecycleConstants DEF LifecycleConstants, Fault

-----------------------------------------------------------------------------
(* What a step that admits no Run does with the rows.                      *)

\* The fence moves by at most one, and does move when the state changes; a row
\* that is released, or not inserted, stays as it is; a row is settled exactly
\* when it becomes released.
RowMoves(r) ==
    /\ run'[r].token \in {run[r].token, run[r].token + 1}
    /\ run'[r].state # run[r].state =>
          run'[r].token = run[r].token + 1 /\ run'[r].state # "unborn"
    /\ ~Unreleased(run[r]) => run'[r].token = run[r].token
    /\ settled'[r] = IF run'[r].state = "released" /\ run[r].state # "released"
                     THEN settled[r] + 1 ELSE settled[r]
RowsMove == \A r \in Runs : RowMoves(r)

\* The reaper drops the row it holds, keeps it, or holds the row as it is now.
HeldMoves(p) ==
    LET q == reap[p]
        n == reap'[p] IN
    \/ n.target = NoRun
    \/ n.target = q.target /\ n.held.token = q.held.token /\ n.held.state = q.held.state
    \/ n.held.token = run'[n.target].token /\ n.held.state = run'[n.target].state

\* A step that writes no row moves none.
LEMMA RowsKept ==
    ASSUME TypeOK, UNCHANGED <<run, settled>>
    PROVE  run' \in [Runs -> RunType] /\ RowsMove
BY DEF TypeOK, RowsMove, RowMoves

\* A transaction of a startup.
LEMMA RowStarted ==
    ASSUME TypeOK, UNCHANGED settled, NEW r \in Runs, NEW row \in RunType, SetRun(r, row),
           row.state = run[r].state, row.token = run[r].token
    PROVE  run' \in [Runs -> RunType] /\ RowsMove
<1>1. /\ run' \in [Runs -> RunType] /\ run'[r] = row
      /\ \A s \in Runs \ {r} : run'[s] = run[s]
    BY SetRunType DEF TypeOK
<1>2. ASSUME NEW s \in Runs PROVE RowMoves(s)
    BY <1>1 DEF RowMoves
<1>3. QED BY <1>1, <1>2 DEF RowsMove

\* A transaction that moves the fence, short of the release.
LEMMA RowFenced ==
    ASSUME TypeOK, UNCHANGED settled, NEW r \in Runs, NEW row \in RunType, SetRun(r, row),
           Unreleased(run[r]), Unreleased(row), row.token = run[r].token + 1
    PROVE  run' \in [Runs -> RunType] /\ RowsMove
<1>1. /\ run' \in [Runs -> RunType] /\ run'[r] = row
      /\ \A s \in Runs \ {r} : run'[s] = run[s]
    BY SetRunType DEF TypeOK
<1>2. ASSUME NEW s \in Runs PROVE RowMoves(s)
    BY <1>1 DEF RowMoves, Unreleased
<1>3. QED BY <1>1, <1>2 DEF RowsMove

-----------------------------------------------------------------------------
(* The startup operation.                                                  *)

\* What a step of a startup operation leaves alone stays well typed.
LEMMA OpFrame ==
    ASSUME TypeOK, run' \in [Runs -> RunType], op' \in [Procs -> [Runs -> OpType]],
           inflight' \subseteq CreateType, faults' \in 0..MaxFaults,
           UNCHANGED <<current, settled, cluster, nextUid, lost, reap>>
    PROVE  TypeOK'
BY DEF TypeOK

\* beginSandboxStartupOperation reads the row and writes none.
LEMMA OpStartMoves ==
    ASSUME TypeOK, NEW p \in Procs, NEW r \in Runs, OpStart(p, r)
    PROVE  TypeOK' /\ RowsMove
<1>1. [IdleOp EXCEPT !.pc = "claim", !.tok = run[r].token] \in OpType
    <2>1. run[r].token \in 0..MaxToken BY DEF TypeOK, RunType
    <2>2. "claim" \in OpLabels BY DEF OpLabels
    <2>3. QED BY <2>1, <2>2, IdleTypes DEF OpType
<1>2. op' \in [Procs -> [Runs -> OpType]]
    BY <1>1, SetOpType DEF OpStart, TypeOK
<1>3. faults' \in 0..MaxFaults
    BY FaultType DEF OpStart, TypeOK
<1>4. run' \in [Runs -> RunType] /\ RowsMove
    BY RowsKept DEF OpStart, store
<1>5. QED BY <1>2, <1>3, <1>4, OpFrame DEF OpStart, store, kube, TypeOK

\* A step of the operation that writes no row and sends nothing.
LEMMA OpLocal ==
    ASSUME TypeOK, op' \in [Procs -> [Runs -> OpType]], faults' \in 0..MaxFaults,
           UNCHANGED <<store, kube, reap>>
    PROVE  TypeOK' /\ RowsMove
<1>1. run' \in [Runs -> RunType] /\ RowsMove
    BY RowsKept DEF store
<1>2. QED BY <1>1, OpFrame DEF store, kube, TypeOK

\* claimSandboxStartup stores a claim and a lease, or nothing, and may fail.
LEMMA OpClaimMoves ==
    ASSUME TypeOK, NEW p \in Procs, NEW r \in Runs, OpClaim(p, r)
    PROVE  TypeOK' /\ RowsMove
<1> DEFINE claim == FreshClaim
           o == op[p][r]
<1> HIDE DEF claim
<1>0. o \in OpType /\ run[r] \in RunType
    BY DEF TypeOK
<1>1. faults' \in 0..MaxFaults
    BY FaultType DEF OpClaim, TypeOK
<1>2. CASE /\ claim \in Claims
           /\ SetRun(r, ClaimStartup(run[r], claim))
           /\ SetOp(p, r, [o EXCEPT !.pc = "prepare", !.claim = claim])
    <2>1. [o EXCEPT !.pc = "prepare", !.claim = claim] \in OpType
        BY <1>0, <1>2 DEF OpType, OpLabels
    <2>2. op' \in [Procs -> [Runs -> OpType]]
        BY <1>2, <2>1, SetOpType DEF TypeOK
    <2>3. run' \in [Runs -> RunType] /\ RowsMove
        BY <1>0, <1>2, RowStarted, StartupRowType, StartupKeepsFence DEF OpClaim
    <2>4. QED BY <1>1, <2>2, <2>3, OpFrame DEF OpClaim, kube, TypeOK
<1>3. CASE (OpGoto(p, r, "fail") \/ OpEnd(p, r)) /\ UNCHANGED run
    <2>1. op' \in [Procs -> [Runs -> OpType]]
        BY <1>3, OpGotoType, OpEndType DEF TypeOK, OpLabels
    <2>2. QED BY <1>1, <1>3, <2>1, OpLocal DEF OpClaim, store
<1>4. QED BY <1>2, <1>3 DEF OpClaim, IsFresh, claim

\* The row is read again after the preparation; none is written.
LEMMA OpPrepareMoves ==
    ASSUME TypeOK, NEW p \in Procs, NEW r \in Runs, OpPrepare(p, r)
    PROVE  TypeOK' /\ RowsMove
<1> DEFINE o == [op[p][r] EXCEPT !.pc = "config", !.tok = run[r].token]
<1>0. op[p][r] \in OpType /\ run[r].token \in 0..MaxToken
    BY DEF TypeOK, RunType
<1>1. o \in OpType
    BY <1>0 DEF OpType, OpLabels
<1>2. op' \in [Procs -> [Runs -> OpType]]
    BY <1>1, SetOpType, OpGotoType DEF OpPrepare, TypeOK, OpLabels
<1>3. QED BY <1>2, OpLocal DEF OpPrepare, TypeOK

\* initializeTaskSandboxStartupConfig keeps state and fence.
LEMMA OpConfigMoves ==
    ASSUME TypeOK, NEW p \in Procs, NEW r \in Runs, OpConfig(p, r)
    PROVE  TypeOK' /\ RowsMove
<1> DEFINE o == [op[p][r] EXCEPT !.pc = "observe", !.pod = run[r].pod]
<1>0. run[r] \in RunType /\ o \in OpType
    <2>1. run[r] \in RunType /\ op[p][r] \in OpType BY DEF TypeOK
    <2>2. run[r].pod \in {NoPod} \cup Uids BY <2>1 DEF RunType
    <2>3. QED BY <2>1, <2>2 DEF OpType, OpLabels
<1>1. op' \in [Procs -> [Runs -> OpType]]
    BY <1>0, SetOpType, OpGotoType DEF OpConfig, TypeOK, OpLabels
<1>2. InitConfig(run[r]) \in RunType /\ InitConfig(run[r]).state = run[r].state
      /\ InitConfig(run[r]).token = run[r].token
    BY <1>0 DEF InitConfig, RunType
<1>3. run' \in [Runs -> RunType] /\ RowsMove
    BY <1>2, RowStarted, RowsKept DEF OpConfig
<1>4. QED BY <1>1, <1>3, OpFrame DEF OpConfig, kube, TypeOK

\* The first observation of the identity writes no row.
LEMMA OpObserveMoves ==
    ASSUME TypeOK, NEW p \in Procs, NEW r \in Runs, OpObserve(p, r)
    PROVE  TypeOK' /\ RowsMove
<1> DEFINE missing == Kinds \ OwnedBy(cluster, r)
           ready == [op[p][r] EXCEPT !.pc = "begin", !.phase = "ready"]
           apply == [op[p][r] EXCEPT !.pc = "begin", !.phase = "apply", !.todo = missing]
<1>0. op[p][r] \in OpType /\ missing \in SUBSET Kinds
    BY DEF TypeOK
<1>1. ready \in OpType /\ apply \in OpType
    BY <1>0 DEF OpType, OpLabels
<1>2. op' \in [Procs -> [Runs -> OpType]]
    BY <1>1, SetOpType, OpGotoType DEF OpObserve, TypeOK, OpLabels
<1>3. QED BY <1>2, OpLocal DEF OpObserve, TypeOK

\* beginTaskSandboxStartupAction stores a deadline, in its range.
LEMMA OpBeginMoves ==
    ASSUME TypeOK, NEW p \in Procs, NEW r \in Runs, OpBegin(p, r)
    PROVE  TypeOK' /\ RowsMove
<1> DEFINE o == [op[p][r] EXCEPT !.pc = "act", !.left = ActionTimeout]
<1>0. run[r] \in RunType /\ o \in OpType
    <2>1. run[r] \in RunType /\ op[p][r] \in OpType BY DEF TypeOK
    <2>2. QED BY <2>1, TimerFacts DEF OpType, OpLabels
<1>1. op' \in [Procs -> [Runs -> OpType]]
    BY <1>0, SetOpType, OpGotoType DEF OpBegin, TypeOK, OpLabels
<1>2. BeginAction(run[r]) \in RunType /\ BeginAction(run[r]).state = run[r].state
      /\ BeginAction(run[r]).token = run[r].token
    BY <1>0, TimerFacts DEF BeginAction, RunType
<1>3. run' \in [Runs -> RunType] /\ RowsMove
    BY <1>2, RowStarted, RowsKept DEF OpBegin
<1>4. QED BY <1>1, <1>3, OpFrame DEF OpBegin, kube, TypeOK

\* applyResource sends at most one request and writes no row.
LEMMA OpApplyMoves ==
    ASSUME TypeOK, NEW p \in Procs, NEW r \in Runs, OpApply(p, r)
    PROVE  TypeOK' /\ RowsMove
<1>1. PICK k \in NextToCreate(op[p][r].todo) :
        \/ /\ SetOp(p, r, [op[p][r] EXCEPT !.todo = op[p][r].todo \ {k}])
           /\ UNCHANGED inflight
        \/ /\ OpGoto(p, r, "fail")
           /\ UNCHANGED inflight
        \/ /\ inflight' = inflight \cup {[run |-> r, kind |-> k, left |-> op[p][r].left]}
           /\ OpGoto(p, r, "sent")
    BY DEF OpApply
<1>2. op[p][r] \in OpType /\ k \in Kinds
    BY <1>1 DEF TypeOK, OpType, NextToCreate
<1>3. [op[p][r] EXCEPT !.todo = op[p][r].todo \ {k}] \in OpType
    BY <1>2 DEF OpType
<1>4. op' \in [Procs -> [Runs -> OpType]]
    BY <1>1, <1>3, SetOpType, OpGotoType DEF TypeOK, OpLabels
<1>5. op[p][r].left \in 1..ActionTimeout
    BY <1>2, RunConstants DEF OpApply, OpType, Timer, Open, Unset, RunConstants
<1>6. inflight' \subseteq CreateType
    BY <1>1, <1>2, <1>5 DEF TypeOK, CreateType
<1>7. run' \in [Runs -> RunType] /\ RowsMove
    BY RowsKept DEF OpApply, store
<1>8. QED BY <1>4, <1>6, <1>7, OpFrame DEF OpApply, store, TypeOK

\* An action that succeeds writes no row yet.
LEMMA OpActionDoneMoves ==
    ASSUME TypeOK, NEW p \in Procs, NEW r \in Runs, OpActionDone(p, r)
    PROVE  TypeOK' /\ RowsMove
<1> DEFINE next == IF op[p][r].phase = "open" THEN "record" ELSE "complete"
           o == [op[p][r] EXCEPT !.pc = next, !.inTime = TRUE]
<1>1. op[p][r] \in OpType /\ next \in OpLabels
    BY DEF TypeOK, OpLabels
<1> HIDE DEF next
<1>2. o \in OpType
    BY <1>1 DEF OpType
<1>3. op' \in [Procs -> [Runs -> OpType]]
    BY <1>2, SetOpType DEF OpActionDone, TypeOK, next
<1>4. QED BY <1>3, OpLocal DEF OpActionDone, TypeOK

\* The steps that only move the operation on, or end it.
LEMMA OpMovesOn ==
    ASSUME TypeOK, NEW p \in Procs, NEW r \in Runs,
           \/ OpActionFails(p, r) \/ OpActionUnknown(p, r) \/ OpReconcileOpen(p, r)
           \/ OpCallFails(p, r)
    PROVE  TypeOK' /\ RowsMove
<1>1. CASE OpActionFails(p, r)
    <2>1. op' \in [Procs -> [Runs -> OpType]]
        BY <1>1, OpGotoType DEF OpActionFails, TypeOK, OpLabels
    <2>2. QED BY <1>1, <2>1, OpLocal DEF OpActionFails, TypeOK
<1>2. CASE OpActionUnknown(p, r)
    <2>1. op' \in [Procs -> [Runs -> OpType]]
        BY <1>2, OpGotoType DEF OpActionUnknown, TypeOK, OpLabels
    <2>2. faults' \in 0..MaxFaults
        BY <1>2, FaultType DEF OpActionUnknown, TypeOK
    <2>3. QED BY <1>2, <2>1, <2>2, OpLocal DEF OpActionUnknown
<1>3. CASE OpReconcileOpen(p, r)
    <2>1. op' \in [Procs -> [Runs -> OpType]]
        BY <1>3, OpGotoType, OpEndType DEF OpReconcileOpen, TypeOK, OpLabels
    <2>2. QED BY <1>3, <2>1, OpLocal DEF OpReconcileOpen, TypeOK
<1>4. CASE OpCallFails(p, r)
    <2>1. op' \in [Procs -> [Runs -> OpType]]
        BY <1>4, OpGotoType, OpEndType DEF OpCallFails, TypeOK, OpLabels
    <2>2. faults' \in 0..MaxFaults
        BY <1>4, FaultType DEF OpCallFails, TypeOK
    <2>3. QED BY <1>4, <2>1, <2>2, OpLocal DEF OpCallFails
<1>5. QED BY <1>1, <1>2, <1>3, <1>4

\* reconcileUnknown reads Kubernetes and writes no row.
LEMMA OpReconcileMoves ==
    ASSUME TypeOK, NEW p \in Procs, NEW r \in Runs, OpReconcile(p, r)
    PROVE  TypeOK' /\ RowsMove
<1> DEFINE done == [op[p][r] EXCEPT !.pc = "complete", !.inTime = Open(op[p][r].left)]
<1>1. op[p][r] \in OpType /\ Open(op[p][r].left) \in BOOLEAN
    BY DEF TypeOK, Open
<1>2. done \in OpType
    BY <1>1 DEF OpType, OpLabels
<1>3. op' \in [Procs -> [Runs -> OpType]]
    BY <1>2, SetOpType, OpGotoType DEF OpReconcile, TypeOK, OpLabels
<1>4. QED BY <1>3, OpLocal DEF OpReconcile, TypeOK

\* recoverSandboxStartupAction drops claim, lease and deadline only.
LEMMA OpRecoverMoves ==
    ASSUME TypeOK, NEW p \in Procs, NEW r \in Runs, OpRecover(p, r)
    PROVE  TypeOK' /\ RowsMove
<1>1. op' \in [Procs -> [Runs -> OpType]]
    BY OpEndType DEF OpRecover, TypeOK
<1>2. run[r] \in RunType
    BY DEF TypeOK
<1>3. RecoverAction(run[r]) \in RunType /\ RecoverAction(run[r]).state = run[r].state
      /\ RecoverAction(run[r]).token = run[r].token
    BY <1>2, TimerFacts DEF RecoverAction, RunType
<1>4. run' \in [Runs -> RunType] /\ RowsMove
    BY <1>3, RowStarted, RowsKept DEF OpRecover
<1>5. QED BY <1>1, <1>4, OpFrame DEF OpRecover, kube, TypeOK

\* completeTaskSandboxStartupAction renews the lease, in its range.
LEMMA OpCompleteMoves ==
    ASSUME TypeOK, NEW p \in Procs, NEW r \in Runs, OpComplete(p, r)
    PROVE  TypeOK' /\ RowsMove
<1> DEFINE next == IF op[p][r].phase = "apply" THEN "identify" ELSE "record"
           o == [op[p][r] EXCEPT !.left = Unset, !.pc = next]
<1>1. op[p][r] \in OpType /\ run[r] \in RunType /\ next \in OpLabels
    BY DEF TypeOK, OpLabels
<1> HIDE DEF next
<1>2. o \in OpType
    BY <1>1, TimerFacts DEF OpType
<1>3. op' \in [Procs -> [Runs -> OpType]]
    BY <1>2, SetOpType, OpGotoType DEF OpComplete, TypeOK, OpLabels, next
<1>4. CompleteAction(run[r]) \in RunType /\ CompleteAction(run[r]).state = run[r].state
      /\ CompleteAction(run[r]).token = run[r].token
    BY <1>1, TimerFacts DEF CompleteAction, RunType
<1>5. run' \in [Runs -> RunType] /\ RowsMove
    BY <1>4, RowStarted, RowsKept DEF OpComplete
<1>6. QED BY <1>3, <1>5, OpFrame DEF OpComplete, kube, TypeOK

\* The identity read after the apply gives a UID of an existing Pod.
LEMMA OpIdentifyMoves ==
    ASSUME TypeOK, NEW p \in Procs, NEW r \in Runs, OpIdentify(p, r)
    PROVE  TypeOK' /\ RowsMove
<1> DEFINE o == [op[p][r] EXCEPT !.pc = "record", !.pod = cluster["Pod"].uid]
<1>1. ASSUME Identity(r, NoPod) = "known"
      PROVE  o \in OpType
    <2>1. cluster["Pod"] # NoObj
        BY <1>1 DEF Identity
    <2>2. cluster["Pod"] \in ObjType
        BY <2>1, LifecycleConstants DEF TypeOK, LifecycleConstants
    <2>3. cluster["Pod"].uid \in Uids /\ op[p][r] \in OpType
        BY <2>2 DEF ObjType, TypeOK
    <2>4. QED BY <2>3 DEF OpType, OpLabels
<1>2. op' \in [Procs -> [Runs -> OpType]]
    BY <1>1, SetOpType, OpGotoType, OpEndType DEF OpIdentify, TypeOK, OpLabels
<1>3. QED BY <1>2, OpLocal DEF OpIdentify, TypeOK

\* recordTaskSandboxStartupPod keeps state and fence.
LEMMA OpRecordMoves ==
    ASSUME TypeOK, NEW p \in Procs, NEW r \in Runs, OpRecord(p, r)
    PROVE  TypeOK' /\ RowsMove
<1> DEFINE ready == [op[p][r] EXCEPT !.pc = "begin", !.phase = "ready"]
           open  == [op[p][r] EXCEPT !.pc = "begin", !.phase = "open"]
           last  == [op[p][r] EXCEPT !.pc = "activate", !.inTime = ~Passed(op[p][r].left)]
<1>1. op[p][r] \in OpType /\ run[r] \in RunType /\ (~Passed(op[p][r].left)) \in BOOLEAN
    BY DEF TypeOK
<1>2. ready \in OpType /\ open \in OpType /\ last \in OpType
    BY <1>1 DEF OpType, OpLabels
<1>3. \/ SetOp(p, r, ready) \/ SetOp(p, r, open) \/ SetOp(p, r, last) \/ OpGoto(p, r, "fail")
    BY DEF OpRecord
<1>4. op' \in [Procs -> [Runs -> OpType]]
    BY <1>2, <1>3, SetOpType, OpGotoType DEF TypeOK, OpLabels
<1>5. RecordPod(run[r], op[p][r].pod) \in RunType
      /\ RecordPod(run[r], op[p][r].pod).state = run[r].state
      /\ RecordPod(run[r], op[p][r].pod).token = run[r].token
    <2>1. op[p][r].pod \in {NoPod} \cup Uids BY <1>1 DEF OpType
    <2>2. QED BY <1>1, <2>1 DEF RecordPod, RunType
<1>6. run' \in [Runs -> RunType] /\ RowsMove
    BY <1>5, RowStarted, RowsKept DEF OpRecord
<1>7. QED BY <1>4, <1>6, OpFrame DEF OpRecord, kube, TypeOK

\* activateTaskSandboxRun changes the state and moves the fence with it.
LEMMA OpActivateMoves ==
    ASSUME TypeOK, NEW p \in Procs, NEW r \in Runs, OpActivate(p, r)
    PROVE  TypeOK' /\ RowsMove
<1>1. op' \in [Procs -> [Runs -> OpType]]
    BY OpGotoType, OpEndType DEF OpActivate, TypeOK, OpLabels
<1>2. CASE UNCHANGED run
    BY <1>1, <1>2, OpLocal DEF OpActivate, store, TypeOK
<1>3. CASE /\ CanActivate(run[r], op[p][r].tok, op[p][r].claim, op[p][r].left,
                          op[p][r].inTime, op[p][r].pod)
           /\ SetRun(r, Activate(run[r]))
    <2>1. run[r] \in RunType /\ HasRoom(run[r]) /\ run[r].state = "starting"
        BY <1>3 DEF OpActivate, TypeOK, CanActivate, OwnsAction, OwnsStartup
    <2>2. /\ Activate(run[r]) \in RunType /\ Activate(run[r]).token = run[r].token + 1
          /\ Unreleased(Activate(run[r])) /\ Unreleased(run[r])
        BY <2>1, FencedRowType, FencedMovesFence DEF Unreleased
    <2>3. run' \in [Runs -> RunType] /\ RowsMove
        BY <1>3, <2>2, RowFenced DEF OpActivate
    <2>4. QED BY <1>1, <2>3, OpFrame DEF OpActivate, kube, TypeOK
<1>4. QED BY <1>2, <1>3 DEF OpActivate

\* persistStartingRunFailureOrAdopt reads the row before it fails it.
LEMMA OpFailMoves ==
    ASSUME TypeOK, NEW p \in Procs, NEW r \in Runs, OpFail(p, r)
    PROVE  TypeOK' /\ RowsMove
<1> DEFINE o == [op[p][r] EXCEPT !.pc = "failing", !.tok = run[r].token, !.claim = run[r].claim]
<1>1. /\ op[p][r] \in OpType
      /\ run[r].token \in 0..MaxToken /\ run[r].claim \in Claims \cup {NoClaim}
    BY DEF TypeOK, RunType
<1>2. o \in OpType
    BY <1>1 DEF OpType, OpLabels
<1>3. op' \in [Procs -> [Runs -> OpType]]
    BY <1>2, SetOpType, OpEndType DEF OpFail, TypeOK
<1>4. QED BY <1>3, OpLocal DEF OpFail, TypeOK

\* failSandboxRun and the drain change the state and move the fence with it.
LEMMA FailMoves ==
    ASSUME TypeOK, NEW r \in Runs, Startable(run[r]), HasRoom(run[r]),
           SetRun(r, Fail(run[r])), UNCHANGED settled
    PROVE  run' \in [Runs -> RunType] /\ RowsMove
<1>1. run[r] \in RunType
    BY DEF TypeOK
<1>2. /\ Fail(run[r]) \in RunType /\ Fail(run[r]).token = run[r].token + 1
      /\ Unreleased(Fail(run[r])) /\ Unreleased(run[r])
    BY <1>1, FencedRowType, FencedMovesFence DEF Unreleased, Startable
<1>3. QED BY <1>2, RowFenced

\* failTaskSandboxStartupAtomically fails the row it read, or writes none.
LEMMA OpFailingMoves ==
    ASSUME TypeOK, NEW p \in Procs, NEW r \in Runs, OpFailing(p, r)
    PROVE  TypeOK' /\ RowsMove
<1>1. op' \in [Procs -> [Runs -> OpType]]
    BY OpEndType DEF OpFailing, TypeOK
<1>2. run' \in [Runs -> RunType] /\ RowsMove
    BY FailMoves, RowsKept DEF OpFailing, CanFail
<1>3. QED BY <1>1, <1>2, OpFrame DEF OpFailing, kube, TypeOK

\* Every step of a startup operation moves the rows as RowsMove allows.
LEMMA OpStepMoves ==
    ASSUME TypeOK, NEW p \in Procs, NEW r \in Runs, OpStep(p, r)
    PROVE  TypeOK' /\ RowsMove
BY OpClaimMoves, OpPrepareMoves, OpConfigMoves, OpObserveMoves, OpBeginMoves, OpApplyMoves,
   OpActionDoneMoves, OpMovesOn, OpReconcileMoves, OpRecoverMoves, OpCompleteMoves,
   OpIdentifyMoves, OpRecordMoves, OpActivateMoves, OpFailMoves, OpFailingMoves
   DEF OpStep

\* No step of an operation touches the reaper or the Task's current Run.
LEMMA OpStepKeeps ==
    ASSUME NEW p \in Procs, NEW r \in Runs, OpStart(p, r) \/ OpStep(p, r)
    PROVE  UNCHANGED <<reap, current>>
BY DEF OpStep, OpStart, OpClaim, OpPrepare, OpConfig, OpObserve, OpBegin, OpApply,
   OpActionDone, OpActionFails, OpActionUnknown, OpReconcile, OpReconcileOpen, OpRecover,
   OpComplete, OpIdentify, OpRecord, OpActivate, OpFail, OpFailing, OpCallFails, store

-----------------------------------------------------------------------------
(* The reaper.                                                             *)

\* While the reaper is past its claim, or doubts a preparation, it works on a
\* Run, and the row it holds was never that of a released Run.
HeldLive(p) ==
    /\ reap[p].target # NoRun => Unreleased(reap[p].held)
    /\ reap[p].pc \in {"doubt", "inspect", "drain", "clear", "inventory", "complete", "unclaim"}
          => reap[p].target # NoRun
SnapshotLive == \A p \in Procs : HeldLive(p)

\* What every step of the reaper of process p does.
ReapMoves(p) ==
    /\ TypeOK'
    /\ RowsMove
    /\ HeldMoves(p) /\ HeldLive(p)'
    /\ \A s \in Procs \ {p} : reap'[s] = reap[s]

\* What a step of the reaper leaves alone stays well typed.
LEMMA ReapFrame ==
    ASSUME TypeOK, run' \in [Runs -> RunType], settled' \in [Runs -> Nat],
           cluster' \in [Kinds -> ObjType \cup {NoObj}], reap' \in [Procs -> ReapType],
           faults' \in 0..MaxFaults, UNCHANGED <<current, inflight, nextUid, lost, op>>
    PROVE  TypeOK'
BY DEF TypeOK

\* The reaper goes on to another label with the row it holds, or stops.
LEMMA ReapGoesOn ==
    ASSUME TypeOK, SnapshotLive, NEW p \in Procs,
           \/ ReapEnd(p)
           \/ \E label \in ReapLabels : ReapGoto(p, label) /\ reap[p].target # NoRun
           \/ \E label \in {"observe", "plan", "reload", "claim", "delete"} : ReapGoto(p, label)
    PROVE  /\ reap' \in [Procs -> ReapType]
           /\ HeldMoves(p) /\ HeldLive(p)'
           /\ \A s \in Procs \ {p} : reap'[s] = reap[s]
<1>0. reap \in [Procs -> ReapType] /\ reap[p] \in ReapType
    BY DEF TypeOK
<1>1. CASE ReapEnd(p)
    <2>1. /\ reap' \in [Procs -> ReapType] /\ reap'[p] = IdleReap
          /\ \A s \in Procs \ {p} : reap'[s] = reap[s]
        BY <1>0, <1>1, IdleTypes, SetReapType DEF ReapEnd
    <2>2. QED BY <2>1 DEF HeldMoves, HeldLive, IdleReap
<1>2. ASSUME NEW label \in ReapLabels, ReapGoto(p, label),
             \/ reap[p].target # NoRun
             \/ label \in {"observe", "plan", "reload", "claim", "delete"}
      PROVE  /\ reap' \in [Procs -> ReapType]
             /\ HeldMoves(p) /\ HeldLive(p)'
             /\ \A s \in Procs \ {p} : reap'[s] = reap[s]
    <2>1. /\ reap' \in [Procs -> ReapType]
          /\ reap'[p].target = reap[p].target /\ reap'[p].held = reap[p].held
          /\ \A s \in Procs \ {p} : reap'[s] = reap[s]
        BY <1>0, <1>2, ReapGotoType
    <2>2. reap'[p] = [reap[p] EXCEPT !.pc = label]
        BY <1>0, <1>2 DEF ReapGoto, SetReap
    <2>3. reap'[p].pc = label
        BY <1>0, <2>2 DEF ReapType
    <2>4. HeldMoves(p)
        BY <2>1 DEF HeldMoves
    <2>5. HeldLive(p)'
        BY <1>2, <2>1, <2>3 DEF SnapshotLive, HeldLive
    <2>6. QED BY <2>1, <2>4, <2>5
<1>3. {"observe", "plan", "reload", "claim", "delete"} \subseteq ReapLabels
    BY DEF ReapLabels
<1>4. QED BY <1>1, <1>2, <1>3

\* A step that only changes what the reaper remembers.
LEMMA ReapLocal ==
    ASSUME TypeOK, NEW p \in Procs, reap' \in [Procs -> ReapType], faults' \in 0..MaxFaults,
           HeldMoves(p), HeldLive(p)', \A s \in Procs \ {p} : reap'[s] = reap[s],
           UNCHANGED <<store, kube, op>>
    PROVE  ReapMoves(p)
<1>1. run' \in [Runs -> RunType] /\ RowsMove
    BY RowsKept DEF store
<1>2. TypeOK'
    BY <1>1, ReapFrame DEF store, kube, TypeOK
<1>3. QED BY <1>1, <1>2 DEF ReapMoves

\* The row that is held is written back with its claim cleared: the fence says
\* that the row did not change its state since.
LEMMA WriteBackMoves ==
    ASSUME TypeOK, SnapshotFenced, SnapshotLive, NEW p \in Procs, reap[p].target # NoRun,
           CanUpdate(run[reap[p].target], reap[p].held), HasRoom(reap[p].held),
           SetRun(reap[p].target, ClearCleanup(reap[p].held)), UNCHANGED settled
    PROVE  run' \in [Runs -> RunType] /\ RowsMove
<1> DEFINE t == reap[p].target
           held == reap[p].held
<1>1. t \in Runs /\ held \in RunType /\ run[t] \in RunType
    BY DEF TypeOK, ReapType
<1>2. run[t].token = held.token /\ run[t].state = held.state /\ Unreleased(held)
    BY DEF CanUpdate, SnapshotFenced, SnapshotLive, HeldLive
<1>3. /\ ClearCleanup(held) \in RunType
      /\ ClearCleanup(held).token = held.token + 1 /\ ClearCleanup(held).state = held.state
    BY <1>1, FencedRowType, FencedMovesFence
<1>4. Unreleased(run[t]) /\ Unreleased(ClearCleanup(held))
    BY <1>2, <1>3 DEF Unreleased
<1>5. QED BY <1>1, <1>2, <1>3, <1>4, RowFenced

\* The Run a reaper call takes up is stored and unreleased.
LEMMA TargetType ==
    ASSUME TypeOK, CurrentTarget # NoRun
    PROVE  /\ CurrentTarget \in Runs
           /\ run[CurrentTarget] \in RunType /\ Unreleased(run[CurrentTarget])
BY DEF CurrentTarget, TypeOK

\* A preparation that failed leaves a row unready: it is held as it is stored.
LEMMA PreparationFailsMoves ==
    ASSUME TypeOK, NEW p \in Procs, PreparationFails(p)
    PROVE  ReapMoves(p)
<1> DEFINE t == CurrentTarget
           q == [IdleReap EXCEPT !.pc = "doubt", !.target = t, !.held = run[t]]
<1>1. t # NoRun /\ t \in Runs /\ run[t] \in RunType /\ Unreleased(run[t])
    BY TargetType DEF PreparationFails
<1>2. SetReap(p, q)
    BY DEF PreparationFails
<1> HIDE DEF t
<1>3. q \in ReapType /\ q.pc = "doubt" /\ q.target = t /\ q.held = run[t]
    <2>1. IdleReap \in ReapType /\ "doubt" \in ReapLabels BY IdleTypes DEF ReapLabels
    <2>2. QED BY <1>1, <2>1 DEF ReapType
<1> HIDE DEF q
<1>4. /\ reap' \in [Procs -> ReapType] /\ reap'[p] = q
      /\ \A s \in Procs \ {p} : reap'[s] = reap[s]
    BY <1>2, <1>3, SetReapType DEF TypeOK
<1>5. HeldMoves(p) /\ HeldLive(p)'
    BY <1>1, <1>3, <1>4 DEF HeldMoves, HeldLive, PreparationFails, store
<1>6. faults' \in 0..MaxFaults
    BY FaultType DEF PreparationFails, TypeOK
<1>7. QED BY <1>4, <1>5, <1>6, ReapLocal DEF PreparationFails

\* failSandboxRun fails the row under the fence that was read, or writes none.
LEMMA FailUnpreparedMoves ==
    ASSUME TypeOK, SnapshotLive, NEW p \in Procs, FailUnprepared(p)
    PROVE  ReapMoves(p)
<1>1. /\ reap' \in [Procs -> ReapType] /\ HeldMoves(p) /\ HeldLive(p)'
      /\ \A s \in Procs \ {p} : reap'[s] = reap[s]
    BY ReapGoesOn DEF FailUnprepared
<1>2. reap[p].target \in Runs
    BY DEF FailUnprepared, SnapshotLive, HeldLive, TypeOK, ReapType
<1>3. run' \in [Runs -> RunType] /\ RowsMove
    BY <1>2, FailMoves, RowsKept DEF FailUnprepared, CanFail
<1>4. TypeOK'
    BY <1>1, <1>3, ReapFrame DEF FailUnprepared, kube, TypeOK
<1>5. QED BY <1>1, <1>3, <1>4 DEF ReapMoves

\* loadRuns: the row that is held is the stored one, and unreleased.
LEMMA ReapLoadMoves ==
    ASSUME TypeOK, NEW p \in Procs, ReapLoad(p)
    PROVE  ReapMoves(p)
<1> DEFINE t == CurrentTarget
           d == IF t # NoRun /\ DrainNow(p, t, run[t]) THEN t ELSE NoRun
           q == Reading([IdleReap EXCEPT !.target = t, !.held = RowOf(t), !.drain = d], "observe")
<1>1. t \in Runs \cup {NoRun} /\ RowOf(t) \in RunType /\ (t # NoRun => Unreleased(RowOf(t)))
    BY TargetType, NewRowType DEF RowOf
<1>2. d \in Runs \cup {NoRun}
    BY <1>1
<1> HIDE DEF t, d
<1>3. q \in ReapType /\ q.pc = "observe" /\ q.target = t /\ q.held = RowOf(t)
    <2>1. IdleReap \in ReapType /\ "observe" \in ReapLabels BY IdleTypes DEF ReapLabels
    <2>2. QED BY <1>1, <1>2, <2>1 DEF Reading, ReapType
<1>4. SetReap(p, q)
    BY DEF ReapLoad, t, d
<1> HIDE DEF q
<1>5. /\ reap' \in [Procs -> ReapType] /\ reap'[p] = q
      /\ \A s \in Procs \ {p} : reap'[s] = reap[s]
    BY <1>3, <1>4, SetReapType DEF TypeOK
<1>6. HeldMoves(p) /\ HeldLive(p)'
    BY <1>1, <1>3, <1>5 DEF HeldMoves, HeldLive, RowOf, ReapLoad, store
<1>7. QED BY <1>5, <1>6, ReapLocal DEF ReapLoad, TypeOK

\* A read of Kubernetes changes only what the reaper saw.
LEMMA ReapLookMoves ==
    ASSUME TypeOK, SnapshotLive, NEW p \in Procs, ReapLook(p)
    PROVE  ReapMoves(p)
<1>1. PICK k \in NextToCreate(reap[p].todo) :
        SetReap(p, [reap[p] EXCEPT !.view[k] = cluster[k], !.todo = reap[p].todo \ {k}])
    BY DEF ReapLook
<1> DEFINE view == [reap[p].view EXCEPT ![k] = cluster[k]]
           q == [reap[p] EXCEPT !.view = view, !.todo = reap[p].todo \ {k}]
<1>2. reap[p] \in ReapType /\ k \in Kinds /\ cluster[k] \in ObjType \cup {NoObj}
    BY <1>1 DEF TypeOK, ReapType, NextToCreate
<1>3. view \in [Kinds -> ObjType \cup {NoObj}]
    BY <1>2 DEF ReapType
<1>4. SetReap(p, q)
    BY <1>1
<1> HIDE DEF view
<1>5. /\ q \in ReapType
      /\ q.pc = reap[p].pc /\ q.target = reap[p].target /\ q.held = reap[p].held
    BY <1>2, <1>3 DEF ReapType
<1> HIDE DEF q
<1>6. /\ reap' \in [Procs -> ReapType] /\ reap'[p] = q
      /\ \A s \in Procs \ {p} : reap'[s] = reap[s]
    BY <1>4, <1>5, SetReapType DEF TypeOK
<1>7. HeldMoves(p) /\ HeldLive(p)'
    BY <1>5, <1>6 DEF HeldMoves, HeldLive, SnapshotLive
<1>8. QED BY <1>6, <1>7, ReapLocal DEF ReapLook, TypeOK

\* With the inventory complete the reaper goes on to the plan.
LEMMA ReapObservedMoves ==
    ASSUME TypeOK, SnapshotLive, NEW p \in Procs, ReapObserved(p)
    PROVE  ReapMoves(p)
<1>1. /\ reap' \in [Procs -> ReapType] /\ HeldMoves(p) /\ HeldLive(p)'
      /\ \A s \in Procs \ {p} : reap'[s] = reap[s]
    BY ReapGoesOn DEF ReapObserved
<1>2. QED BY <1>1, ReapLocal DEF ReapObserved, TypeOK

\* After a failed inventory only the cleanup claim is written back.
LEMMA ReapObservationFailsMoves ==
    ASSUME TypeOK, SnapshotFenced, SnapshotLive, NEW p \in Procs, ReapObservationFails(p)
    PROVE  ReapMoves(p)
<1>1. /\ reap' \in [Procs -> ReapType] /\ HeldMoves(p) /\ HeldLive(p)'
      /\ \A s \in Procs \ {p} : reap'[s] = reap[s]
    BY ReapGoesOn DEF ReapObservationFails
<1>2. run' \in [Runs -> RunType] /\ RowsMove
    BY WriteBackMoves, RowsKept DEF ReapObservationFails
<1>3. faults' \in 0..MaxFaults
    BY FaultType DEF ReapObservationFails, TypeOK
<1>4. TypeOK'
    BY <1>1, <1>2, <1>3, ReapFrame DEF ReapObservationFails, kube, TypeOK
<1>5. QED BY <1>1, <1>2, <1>4 DEF ReapMoves

\* A terminal failure moves the fence of the row as it is stored now.
LEMMA ReapPlanMoves ==
    ASSUME TypeOK, SnapshotLive, NEW p \in Procs, ReapPlan(p)
    PROVE  ReapMoves(p)
<1>1. /\ reap' \in [Procs -> ReapType] /\ HeldMoves(p) /\ HeldLive(p)'
      /\ \A s \in Procs \ {p} : reap'[s] = reap[s]
    BY ReapGoesOn DEF ReapPlan
<1>2. reap[p].target \in Runs \cup {NoRun}
    BY DEF TypeOK, ReapType
<1>3. run' \in [Runs -> RunType] /\ RowsMove
    BY <1>2, FailMoves, RowsKept DEF ReapPlan
<1>4. TypeOK'
    BY <1>1, <1>3, ReapFrame DEF ReapPlan, kube, TypeOK
<1>5. QED BY <1>1, <1>3, <1>4 DEF ReapMoves

\* The second load holds the stored row again, and only a doomed one.
LEMMA ReapReloadMoves ==
    ASSUME TypeOK, NEW p \in Procs, ReapReload(p)
    PROVE  ReapMoves(p)
<1> DEFINE doomed == /\ CurrentTarget # NoRun
                     /\ CleanupState(run[CurrentTarget])
                          \/ DrainNow(p, CurrentTarget, run[CurrentTarget])
           t == IF doomed THEN CurrentTarget ELSE NoRun
           row == IF doomed THEN run[CurrentTarget] ELSE BlankRun
           q == [reap[p] EXCEPT !.pc = "claim", !.target = t, !.held = row]
<1>1. t \in Runs \cup {NoRun} /\ row \in RunType
    BY TargetType, NewRowType
<1>2. t # NoRun => row = run[t] /\ Unreleased(row)
    BY TargetType
<1>3. SetReap(p, q)
    BY DEF ReapReload
<1> HIDE DEF doomed, t, row
<1>4. q \in ReapType /\ q.pc = "claim" /\ q.target = t /\ q.held = row
    <2>1. reap[p] \in ReapType /\ "claim" \in ReapLabels BY DEF TypeOK, ReapLabels
    <2>2. QED BY <1>1, <2>1 DEF ReapType
<1> HIDE DEF q
<1>5. /\ reap' \in [Procs -> ReapType] /\ reap'[p] = q
      /\ \A s \in Procs \ {p} : reap'[s] = reap[s]
    BY <1>3, <1>4, SetReapType DEF TypeOK
<1>6. HeldMoves(p) /\ HeldLive(p)'
    BY <1>2, <1>4, <1>5 DEF HeldMoves, HeldLive, ReapReload, store
<1>7. QED BY <1>5, <1>6, ReapLocal DEF ReapReload, TypeOK

\* The end of the deletions leaves well-typed locals and the row held.
LEMMA AfterDeletesType ==
    ASSUME NEW q \in ReapType, q.pc = "delete"
    PROVE  /\ AfterDeletes(q) \in ReapType
           /\ AfterDeletes(q).pc \in {"delete", "inspect", "idle"}
           /\ AfterDeletes(q).pc = "inspect" => AfterDeletes(q).target # NoRun
           /\ \/ AfterDeletes(q).target = NoRun
              \/ AfterDeletes(q).target = q.target /\ AfterDeletes(q).held = q.held
<1>1. CASE q.todo # {}
    BY <1>1 DEF AfterDeletes
<1>2. CASE q.todo = {} /\ q.target = NoRun
    BY <1>2, IdleTypes DEF AfterDeletes, IdleReap
<1>3. CASE q.todo = {} /\ q.target # NoRun
    <2>1. "inspect" \in ReapLabels BY DEF ReapLabels
    <2>2. QED BY <1>3, <2>1 DEF AfterDeletes, Reading, ReapType
<1>4. QED BY <1>1, <1>2, <1>3

\* claimForCleanup moves the fence, and the reaper holds the claimed row;
\* a rejected Run is no longer held.
LEMMA ReapClaimMoves ==
    ASSUME TypeOK, SnapshotFenced, SnapshotLive, NEW p \in Procs, ReapClaim(p)
    PROVE  ReapMoves(p)
<1> DEFINE t == reap[p].target
           own == {k \in Kinds : reap[p].view[k].run = t /\ ~reap[p].view[k].terminating}
           first == [reap[p] EXCEPT !.pc = "delete", !.target = NoRun, !.held = BlankRun,
                                    !.todo = Orphans(reap[p])]
           second == [reap[p] EXCEPT !.pc = "delete", !.held = ClaimCleanup(run[t]),
                                     !.todo = own \cup Orphans(reap[p])]
<1>1. reap[p] \in ReapType /\ t \in Runs \cup {NoRun} /\ "delete" \in ReapLabels
    BY DEF TypeOK, ReapType, ReapLabels
<1>2. Orphans(reap[p]) \in SUBSET Kinds /\ own \cup Orphans(reap[p]) \in SUBSET Kinds
    BY DEF Orphans
<1>3. CASE /\ \/ UNCHANGED run
              \/ /\ t # NoRun /\ CanUpdate(run[t], reap[p].held) /\ HasRoom(reap[p].held)
                 /\ SetRun(t, ClearCleanup(reap[p].held))
           /\ SetReap(p, AfterDeletes(first))
    <2>1. first \in ReapType /\ first.pc = "delete" /\ first.target = NoRun
        BY <1>1, <1>2, NewRowType DEF ReapType
    <2>2. /\ AfterDeletes(first) \in ReapType
          /\ AfterDeletes(first).pc \in {"delete", "inspect", "idle"}
          /\ AfterDeletes(first).pc # "inspect" /\ AfterDeletes(first).target = NoRun
        BY <2>1, AfterDeletesType
    <2> HIDE DEF first
    <2>3. /\ reap' \in [Procs -> ReapType] /\ reap'[p] = AfterDeletes(first)
          /\ \A s \in Procs \ {p} : reap'[s] = reap[s]
        BY <1>3, <2>2, SetReapType DEF TypeOK
    <2>4. run' \in [Runs -> RunType] /\ RowsMove
        BY <1>3, WriteBackMoves, RowsKept DEF ReapClaim
    <2>5. HeldMoves(p) /\ HeldLive(p)'
        BY <2>2, <2>3 DEF HeldMoves, HeldLive
    <2>6. TypeOK'
        BY <2>3, <2>4, ReapFrame DEF ReapClaim, kube, TypeOK
    <2>7. QED BY <2>3, <2>4, <2>5, <2>6 DEF ReapMoves
<1>4. CASE /\ t # NoRun /\ CanClaimCleanup(run[t], reap[p].held.token) /\ HasRoom(run[t])
           /\ SetRun(t, ClaimCleanup(run[t]))
           /\ SetReap(p, AfterDeletes(second))
    <2>1. t \in Runs /\ run[t] \in RunType
        BY <1>1, <1>4 DEF TypeOK
    <2>2. Unreleased(run[t])
        BY <1>4 DEF CanClaimCleanup, CleanupState, DrainEligible, Unreleased
    <2>3. /\ ClaimCleanup(run[t]) \in RunType /\ Unreleased(ClaimCleanup(run[t]))
          /\ ClaimCleanup(run[t]).token = run[t].token + 1
        BY <1>4, <2>1, <2>2, FencedRowType, FencedMovesFence DEF Unreleased
    <2>4. run' \in [Runs -> RunType] /\ RowsMove /\ run'[t] = ClaimCleanup(run[t])
        BY <1>4, <2>1, <2>2, <2>3, RowFenced, SetRunType DEF ReapClaim, TypeOK
    <2>5. /\ second \in ReapType /\ second.pc = "delete"
          /\ second.target = t /\ second.held = ClaimCleanup(run[t])
        BY <1>1, <1>2, <2>3 DEF ReapType
    <2> HIDE DEF second
    <2>6. /\ AfterDeletes(second) \in ReapType
          /\ AfterDeletes(second).pc \in {"delete", "inspect", "idle"}
          /\ AfterDeletes(second).pc = "inspect" => AfterDeletes(second).target # NoRun
          /\ \/ AfterDeletes(second).target = NoRun
             \/ AfterDeletes(second).target = t /\ AfterDeletes(second).held = ClaimCleanup(run[t])
        BY <2>5, AfterDeletesType
    <2>7. /\ reap' \in [Procs -> ReapType] /\ reap'[p] = AfterDeletes(second)
          /\ \A s \in Procs \ {p} : reap'[s] = reap[s]
        BY <1>4, <2>6, SetReapType DEF TypeOK
    <2> HIDE DEF t
    <2>8. HeldMoves(p) /\ HeldLive(p)'
        BY <2>3, <2>4, <2>6, <2>7 DEF HeldMoves, HeldLive
    <2>9. TypeOK'
        BY <2>4, <2>7, ReapFrame DEF ReapClaim, kube, TypeOK
    <2>10. QED BY <2>4, <2>7, <2>8, <2>9 DEF ReapMoves
<1>5. QED BY <1>3, <1>4 DEF ReapClaim

\* A deletion changes Kubernetes and what is left to delete.
LEMMA ReapDeleteMoves ==
    ASSUME TypeOK, SnapshotLive, NEW p \in Procs, ReapDelete(p)
    PROVE  ReapMoves(p)
<1>1. PICK k \in NextToDelete(reap[p]), given \in SUBSET Kinds :
        /\ \/ SetReap(p, AfterDeletes([reap[p] EXCEPT !.todo = reap[p].todo \ {k}]))
           \/ SetReap(p, AfterDeletes([reap[p] EXCEPT !.todo = reap[p].todo \ given,
                                                      !.broken = reap[p].broken \cup {k}]))
        /\ UNCHANGED cluster \/ (Present(k) /\ Removed(k))
        /\ UNCHANGED faults \/ Fault("call")
    <2> DEFINE given(k) == {j \in reap[p].todo : reap[p].view[j].run = reap[p].view[k].run}
    <2>1. reap[p].todo \subseteq Kinds BY DEF TypeOK, ReapType
    <2>2. \A k : given(k) \in SUBSET Kinds BY <2>1
    <2>3. QED BY <2>2 DEF ReapDelete
<1>2. reap[p] \in ReapType /\ k \in Kinds /\ reap[p].pc = "delete"
    BY <1>1 DEF TypeOK, ReapType, NextToDelete, ReapDelete
<1> DEFINE one == [reap[p] EXCEPT !.todo = reap[p].todo \ {k}]
           rest == [reap[p] EXCEPT !.todo = reap[p].todo \ given,
                                   !.broken = reap[p].broken \cup {k}]
<1>3. /\ one \in ReapType /\ one.pc = "delete"
      /\ one.target = reap[p].target /\ one.held = reap[p].held
    BY <1>2 DEF ReapType
<1>4. /\ rest \in ReapType /\ rest.pc = "delete"
      /\ rest.target = reap[p].target /\ rest.held = reap[p].held
    BY <1>2 DEF ReapType
<1>5. PICK q \in ReapType : /\ SetReap(p, AfterDeletes(q)) /\ q.pc = "delete"
                            /\ q.target = reap[p].target /\ q.held = reap[p].held
    BY <1>1, <1>3, <1>4
<1>6. /\ AfterDeletes(q) \in ReapType
      /\ AfterDeletes(q).pc \in {"delete", "inspect", "idle"}
      /\ AfterDeletes(q).pc = "inspect" => AfterDeletes(q).target # NoRun
      /\ \/ AfterDeletes(q).target = NoRun
         \/ AfterDeletes(q).target = q.target /\ AfterDeletes(q).held = q.held
    BY <1>5, AfterDeletesType
<1>7. /\ reap' \in [Procs -> ReapType] /\ reap'[p] = AfterDeletes(q)
      /\ \A s \in Procs \ {p} : reap'[s] = reap[s]
    BY <1>5, <1>6, SetReapType DEF TypeOK
<1>8. HeldMoves(p) /\ HeldLive(p)'
    BY <1>5, <1>6, <1>7 DEF HeldMoves, HeldLive, SnapshotLive
<1>9. cluster' \in [Kinds -> ObjType \cup {NoObj}]
    <2>1. cluster \in [Kinds -> ObjType \cup {NoObj}]
        BY DEF TypeOK
    <2>2. ASSUME Present(k), Removed(k)
          PROVE  cluster' \in [Kinds -> ObjType \cup {NoObj}]
        <3>1. cluster[k] \in ObjType
            BY <1>2, <2>1, <2>2 DEF Present
        <3>2. [cluster[k] EXCEPT !.terminating = TRUE] \in ObjType
            BY <3>1 DEF ObjType
        <3>3. QED BY <1>2, <2>1, <2>2, <3>2 DEF Removed
    <2>3. QED BY <1>1, <2>1, <2>2
<1>10. faults' \in 0..MaxFaults
    BY <1>1, FaultType DEF TypeOK
<1>11. run' \in [Runs -> RunType] /\ RowsMove
    BY RowsKept DEF ReapDelete, store
<1>12. TypeOK'
    BY <1>7, <1>9, <1>10, <1>11, ReapFrame DEF ReapDelete, store, TypeOK
<1>13. QED BY <1>7, <1>8, <1>11, <1>12 DEF ReapMoves

\* The exact reads decide how the reaper goes on; nothing is written.
LEMMA ReapInspectedMoves ==
    ASSUME TypeOK, SnapshotLive, NEW p \in Procs, ReapInspected(p)
    PROVE  ReapMoves(p)
<1>1. reap[p].target # NoRun /\ reap[p] \in ReapType
    BY DEF ReapInspected, SnapshotLive, HeldLive, TypeOK
<1>2. /\ reap' \in [Procs -> ReapType] /\ HeldMoves(p) /\ HeldLive(p)'
      /\ \A s \in Procs \ {p} : reap'[s] = reap[s]
    <2>1. CASE \E label \in ReapLabels : ReapGoto(p, label)
        BY <1>1, <2>1, ReapGoesOn
    <2>2. CASE SetReap(p, Reading(reap[p], "inventory"))
        <3>1. /\ Reading(reap[p], "inventory") \in ReapType
              /\ Reading(reap[p], "inventory").target = reap[p].target
              /\ Reading(reap[p], "inventory").held = reap[p].held
            BY <1>1 DEF Reading, ReapType, ReapLabels
        <3>2. /\ reap' \in [Procs -> ReapType] /\ reap'[p] = Reading(reap[p], "inventory")
              /\ \A s \in Procs \ {p} : reap'[s] = reap[s]
            BY <2>2, <3>1, SetReapType DEF TypeOK
        <3>3. HeldMoves(p) /\ HeldLive(p)'
            BY <1>1, <3>1, <3>2 DEF HeldMoves, HeldLive, SnapshotLive
        <3>4. QED BY <3>2, <3>3
    <2>3. {"unclaim", "clear", "drain"} \subseteq ReapLabels
        BY DEF ReapLabels
    <2>4. QED BY <2>1, <2>2, <2>3 DEF ReapInspected
<1>3. QED BY <1>2, ReapLocal DEF ReapInspected, TypeOK

\* A call that fails makes the reaper give its claim back.
LEMMA ReapCallFailsMoves ==
    ASSUME TypeOK, SnapshotLive, NEW p \in Procs, ReapCallFails(p)
    PROVE  ReapMoves(p)
<1>1. reap[p].target # NoRun /\ "unclaim" \in ReapLabels
    BY DEF ReapCallFails, SnapshotLive, HeldLive, ReapLabels
<1>2. /\ reap' \in [Procs -> ReapType] /\ HeldMoves(p) /\ HeldLive(p)'
      /\ \A s \in Procs \ {p} : reap'[s] = reap[s]
    BY <1>1, ReapGoesOn DEF ReapCallFails
<1>3. faults' \in 0..MaxFaults
    BY FaultType DEF ReapCallFails, TypeOK
<1>4. QED BY <1>2, <1>3, ReapLocal DEF ReapCallFails

\* A call that fails where nothing catches it ends the tick.
LEMMA ReapAbortsMoves ==
    ASSUME TypeOK, SnapshotLive, NEW p \in Procs, ReapAborts(p)
    PROVE  ReapMoves(p)
<1>1. /\ reap' \in [Procs -> ReapType] /\ HeldMoves(p) /\ HeldLive(p)'
      /\ \A s \in Procs \ {p} : reap'[s] = reap[s]
    BY ReapGoesOn DEF ReapAborts
<1>2. faults' \in 0..MaxFaults
    BY FaultType DEF ReapAborts, TypeOK
<1>3. QED BY <1>1, <1>2, ReapLocal DEF ReapAborts

\* drainSandboxStartupAction fails the row and moves its fence.
LEMMA ReapDrainMoves ==
    ASSUME TypeOK, SnapshotFenced, SnapshotLive, NEW p \in Procs, ReapDrain(p)
    PROVE  ReapMoves(p)
<1>1. /\ reap[p].target \in Runs /\ reap[p].target # NoRun
      /\ {"unclaim", "clear"} \subseteq ReapLabels
    BY DEF ReapDrain, SnapshotLive, HeldLive, TypeOK, ReapType, ReapLabels
<1>2. /\ reap' \in [Procs -> ReapType] /\ HeldMoves(p) /\ HeldLive(p)'
      /\ \A s \in Procs \ {p} : reap'[s] = reap[s]
    BY <1>1, ReapGoesOn DEF ReapDrain
<1>3. run' \in [Runs -> RunType] /\ RowsMove
    <2>1. CASE /\ CanDrain(run[reap[p].target], reap[p].held) /\ HasRoom(reap[p].held)
               /\ SetRun(reap[p].target, Fail(run[reap[p].target]))
        <3>1. Startable(run[reap[p].target]) /\ HasRoom(run[reap[p].target])
            BY <2>1 DEF CanDrain, OwnsAction, OwnsStartup, Startable, HasRoom
        <3>2. QED BY <1>1, <2>1, <3>1, FailMoves DEF ReapDrain
    <2>2. CASE UNCHANGED run
        BY <2>2, RowsKept DEF ReapDrain
    <2>3. QED BY <2>1, <2>2 DEF ReapDrain
<1>4. TypeOK'
    BY <1>2, <1>3, ReapFrame DEF ReapDrain, kube, TypeOK
<1>5. QED BY <1>2, <1>3, <1>4 DEF ReapMoves

\* The final inventory decides between release and another call.
LEMMA ReapInventoriedMoves ==
    ASSUME TypeOK, SnapshotLive, NEW p \in Procs, ReapInventoried(p)
    PROVE  ReapMoves(p)
<1> DEFINE next == IF OwnedBy(reap[p].view, reap[p].target) # {} THEN "clear" ELSE "complete"
<1>1. reap[p].target # NoRun /\ next \in ReapLabels
    BY DEF ReapInventoried, SnapshotLive, HeldLive, ReapLabels
<1>2. ReapGoto(p, next)
    BY DEF ReapInventoried
<1> HIDE DEF next
<1>3. /\ reap' \in [Procs -> ReapType] /\ HeldMoves(p) /\ HeldLive(p)'
      /\ \A s \in Procs \ {p} : reap'[s] = reap[s]
    BY <1>1, <1>2, ReapGoesOn
<1>4. QED BY <1>3, ReapLocal DEF ReapInventoried, TypeOK

\* The release and its settlement are one step.
LEMMA ReapCompleteMoves ==
    ASSUME TypeOK, SnapshotFenced, SnapshotLive, NEW p \in Procs, ReapComplete(p)
    PROVE  ReapMoves(p)
<1> DEFINE t == reap[p].target
           held == reap[p].held
<1>1. /\ t \in Runs /\ t # NoRun /\ "unclaim" \in ReapLabels
      /\ held \in RunType /\ run[t] \in RunType
    BY DEF ReapComplete, SnapshotLive, HeldLive, TypeOK, ReapType, ReapLabels
<1>2. /\ reap' \in [Procs -> ReapType] /\ HeldMoves(p) /\ HeldLive(p)'
      /\ \A s \in Procs \ {p} : reap'[s] = reap[s]
    BY <1>1, ReapGoesOn DEF ReapComplete
<1>3. run' \in [Runs -> RunType] /\ RowsMove /\ settled' \in [Runs -> Nat]
    <2>1. CASE /\ CanCompleteRelease(run[t], held) /\ HasRoom(held)
               /\ SetRun(t, CompleteRelease(held))
               /\ settled' = [settled EXCEPT ![t] = settled[t] + 1]
        <3>1. /\ CompleteRelease(held) \in RunType
              /\ CompleteRelease(held).token = held.token + 1
              /\ CompleteRelease(held).state = "released"
            BY <1>1, <2>1, FencedRowType, FencedMovesFence
        <3>2. Unreleased(run[t]) /\ run[t].token = held.token
            BY <2>1 DEF CanCompleteRelease
        <3>3. /\ run' \in [Runs -> RunType] /\ run'[t] = CompleteRelease(held)
              /\ \A s \in Runs \ {t} : run'[s] = run[s]
            BY <1>1, <2>1, <3>1, SetRunType DEF TypeOK
        <3>4. /\ settled' \in [Runs -> Nat] /\ settled'[t] = settled[t] + 1
              /\ \A s \in Runs \ {t} : settled'[s] = settled[s]
            BY <1>1, <2>1 DEF TypeOK
        <3>5. ASSUME NEW s \in Runs PROVE RowMoves(s)
            <4>1. CASE s = t
                BY <3>1, <3>2, <3>3, <3>4, <4>1 DEF RowMoves, Unreleased
            <4>2. CASE s # t
                BY <3>3, <3>4, <4>2 DEF RowMoves
            <4>3. QED BY <4>1, <4>2
        <3>6. QED BY <3>3, <3>4, <3>5 DEF RowsMove
    <2>2. CASE UNCHANGED <<run, settled>>
        BY <2>2, RowsKept DEF TypeOK
    <2>3. QED BY <2>1, <2>2 DEF ReapComplete
<1>4. faults' \in 0..MaxFaults
    BY FaultType DEF ReapComplete, TypeOK
<1>5. TypeOK'
    BY <1>2, <1>3, <1>4, ReapFrame DEF ReapComplete, kube, TypeOK
<1>6. QED BY <1>2, <1>3, <1>5 DEF ReapMoves

\* The row is written back only under the fence it was read with.
LEMMA ReapUnclaimMoves ==
    ASSUME TypeOK, SnapshotFenced, SnapshotLive, NEW p \in Procs, ReapUnclaim(p)
    PROVE  ReapMoves(p)
<1>1. reap[p].target # NoRun
    BY DEF ReapUnclaim, SnapshotLive, HeldLive
<1>2. /\ reap' \in [Procs -> ReapType] /\ HeldMoves(p) /\ HeldLive(p)'
      /\ \A s \in Procs \ {p} : reap'[s] = reap[s]
    BY ReapGoesOn DEF ReapUnclaim
<1>3. run' \in [Runs -> RunType] /\ RowsMove
    BY <1>1, WriteBackMoves, RowsKept DEF ReapUnclaim
<1>4. TypeOK'
    BY <1>2, <1>3, ReapFrame DEF ReapUnclaim, kube, TypeOK
<1>5. QED BY <1>2, <1>3, <1>4 DEF ReapMoves

\* Every step of the reaper does what ReapMoves says.
LEMMA ReapStepMoves ==
    ASSUME TypeOK, SnapshotFenced, SnapshotLive, NEW p \in Procs, ReapStep(p)
    PROVE  ReapMoves(p)
BY FailUnpreparedMoves, ReapAbortsMoves,
   ReapLoadMoves, ReapLookMoves, ReapObservedMoves, ReapObservationFailsMoves, ReapPlanMoves,
   ReapReloadMoves, ReapClaimMoves, ReapDeleteMoves, ReapInspectedMoves, ReapCallFailsMoves,
   ReapDrainMoves, ReapInventoriedMoves, ReapCompleteMoves, ReapUnclaimMoves
   DEF ReapStep

\* The reaper never gives the Task another Run.
LEMMA ReapStepKeeps ==
    ASSUME NEW p \in Procs, ReapStep(p)
    PROVE  UNCHANGED current
BY DEF ReapStep, ReapLoad, ReapLook, ReapObserved, ReapObservationFails, ReapPlan, ReapReload,
   ReapClaim, ReapDelete, ReapInspected, ReapCallFails, ReapDrain, ReapInventoried,
   ReapComplete, ReapUnclaim, FailUnprepared, ReapAborts, store

-----------------------------------------------------------------------------
(* Requests, Kubernetes, time and crashes.                                 *)

HeldAllMove == \A p \in Procs : HeldMoves(p) /\ HeldLive(p)'

\* Where no reaper moves, what they hold is kept.
LEMMA HeldKept ==
    ASSUME SnapshotLive, UNCHANGED reap
    PROVE  HeldAllMove
BY DEF SnapshotLive, HeldAllMove, HeldMoves, HeldLive

\* Preparation, failure and release requests move the rows as RowsMove
\* allows and leave the reapers alone.
LEMMA RequestMoves ==
    ASSUME TypeOK, NEW r \in Runs, Prepared(r) \/ RunFails(r) \/ RequestTaskSandboxRelease(r)
    PROVE  TypeOK' /\ RowsMove /\ UNCHANGED <<reap, current>>
<1>0. run[r] \in RunType
    BY DEF TypeOK
<1>1. run' \in [Runs -> RunType] /\ RowsMove
    <2>1. CASE Prepared(r)
        <3>1. MarkReady(run[r]) \in RunType /\ MarkReady(run[r]).state = run[r].state
              /\ MarkReady(run[r]).token = run[r].token
            BY <1>0 DEF MarkReady, RunType
        <3>2. QED BY <2>1, <3>1, RowStarted DEF Prepared
    <2>2. CASE RunFails(r)
        BY <2>2, FailMoves DEF RunFails, Startable
    <2>3. CASE RequestTaskSandboxRelease(r)
        <3>1. HasRoom(run[r]) /\ Unreleased(run[r])
            BY <2>3 DEF RequestTaskSandboxRelease, CanRequestRelease
        <3>2. /\ RequestRelease(run[r]) \in RunType
              /\ RequestRelease(run[r]).token = run[r].token + 1
              /\ Unreleased(RequestRelease(run[r]))
            BY <1>0, <3>1, FencedRowType, FencedMovesFence DEF Unreleased
        <3>3. QED BY <2>3, <3>1, <3>2, RowFenced DEF RequestTaskSandboxRelease
    <2>4. QED BY <2>1, <2>2, <2>3
<1>2. faults' \in 0..MaxFaults
    BY FaultType DEF Prepared, RunFails, RequestTaskSandboxRelease, TypeOK
<1>3. /\ UNCHANGED <<current, settled, kube, op, reap>>
    BY DEF Prepared, RunFails, RequestTaskSandboxRelease
<1>4. QED BY <1>1, <1>2, <1>3 DEF TypeOK, kube

\* A served request creates at most one well-typed object.
LEMMA LandMoves ==
    ASSUME TypeOK, NEW e \in inflight, Land(e)
    PROVE  TypeOK' /\ RowsMove /\ UNCHANGED <<reap, current>>
<1>1. /\ e.run \in Runs /\ e.kind \in Kinds /\ inflight' \subseteq CreateType
    BY DEF TypeOK, CreateType, Land
<1>2. ASSUME NEW p \in Procs
      PROVE  /\ [op[p] EXCEPT ![e.run].pc = "act", ![e.run].todo = @ \ {e.kind}]
                    \in [Runs -> OpType]
             /\ [op[p] EXCEPT ![e.run].pc = "fail"] \in [Runs -> OpType]
    <2>1. op[p] \in [Runs -> OpType] /\ op[p][e.run] \in OpType
        BY <1>1 DEF TypeOK
    <2>2. /\ [op[p][e.run] EXCEPT !.pc = "act", !.todo = @ \ {e.kind}] \in OpType
          /\ [op[p][e.run] EXCEPT !.pc = "fail"] \in OpType
        BY <2>1 DEF OpType, OpLabels
    <2>3. QED BY <1>1, <2>1, <2>2
<1>3. op' \in [Procs -> [Runs -> OpType]]
    <2>1. CASE /\ \A p \in Procs : op[p] \in [Runs -> OpType]
               /\ op' = [p \in Procs |-> IF Waiting(p, e)
                     THEN [op[p] EXCEPT ![e.run].pc = "act", ![e.run].todo = @ \ {e.kind}]
                     ELSE op[p]]
        BY <1>2, <2>1
    <2>2. CASE /\ \A p \in Procs : op[p] \in [Runs -> OpType]
               /\ op' = [p \in Procs |-> IF Waiting(p, e)
                     THEN [op[p] EXCEPT ![e.run].pc = "fail"] ELSE op[p]]
        BY <1>2, <2>2
    <2>3. \A p \in Procs : op[p] \in [Runs -> OpType]
        BY DEF TypeOK
    <2>4. QED BY <2>1, <2>2, <2>3 DEF Land
<1>4. /\ cluster' \in [Kinds -> ObjType \cup {NoObj}]
      /\ nextUid' \in 1..(MaxUid + 1)
    <2>1. CASE UNCHANGED <<cluster, nextUid>>
        BY <2>1 DEF TypeOK
    <2> DEFINE obj == [run |-> e.run, uid |-> nextUid, status |-> "pending", terminating |-> FALSE]
    <2>2. CASE /\ nextUid <= MaxUid
               /\ cluster' = [cluster EXCEPT ![e.kind] = obj]
               /\ nextUid' = nextUid + 1
        <3>1. nextUid \in Uids /\ nextUid' \in 1..(MaxUid + 1)
            BY <2>2, RunConstants DEF TypeOK, Uids, RunConstants
        <3>2. obj \in ObjType
            BY <1>1, <3>1 DEF ObjType
        <3>3. QED BY <1>1, <2>2, <3>1, <3>2 DEF TypeOK
    <2>3. QED BY <2>1, <2>2 DEF Land
<1>5. run' \in [Runs -> RunType] /\ RowsMove
    BY RowsKept DEF Land, store
<1>6. QED BY <1>1, <1>3, <1>4, <1>5 DEF Land, TypeOK, store

\* What Kubernetes does by itself touches neither rows nor processes.
LEMMA PodMoves ==
    ASSUME TypeOK, PodReady \/ PodFails \/ PodLost \/ (\E k \in Kinds : Terminated(k))
    PROVE  TypeOK' /\ RowsMove /\ UNCHANGED <<reap, current>>
<1>1. cluster \in [Kinds -> ObjType \cup {NoObj}] /\ "Pod" \in Kinds
    BY LifecycleConstants DEF TypeOK, LifecycleConstants
<1>2. faults' \in 0..MaxFaults
    BY FaultType DEF PodReady, PodFails, PodLost, Terminated, TypeOK
<1>3. cluster' \in [Kinds -> ObjType \cup {NoObj}]
    <2>1. CASE PodReady \/ PodFails
        <3>1. cluster["Pod"] \in ObjType
            BY <1>1, <2>1 DEF PodReady, PodFails, NoObj
        <3>2. /\ [cluster["Pod"] EXCEPT !.status = "ready"] \in ObjType
              /\ [cluster["Pod"] EXCEPT !.status = "failed"] \in ObjType
            BY <3>1 DEF ObjType
        <3>3. QED BY <1>1, <2>1, <3>2 DEF PodReady, PodFails
    <2>2. CASE PodLost \/ (\E k \in Kinds : Terminated(k))
        BY <1>1, <2>2 DEF PodLost, Terminated
    <2>3. QED BY <2>1, <2>2
<1>4. lost' \subseteq Uids
    <2>1. CASE PodLost
        <3>1. cluster["Pod"] \in ObjType
            BY <1>1, <2>1 DEF PodLost, Present
        <3>2. QED BY <2>1, <3>1 DEF PodLost, ObjType, TypeOK
    <2>2. QED BY <2>1 DEF PodReady, PodFails, Terminated, TypeOK
<1>5. UNCHANGED <<store, inflight, nextUid, op, reap>>
    BY DEF PodReady, PodFails, PodLost, Terminated
<1>6. run' \in [Runs -> RunType] /\ RowsMove
    BY <1>5, RowsKept DEF store
<1>7. QED BY <1>2, <1>3, <1>4, <1>5, <1>6 DEF TypeOK, store

\* Time touches only timers, which stay in their ranges.
LEMMA TickMoves ==
    ASSUME TypeOK, SnapshotLive, Tick
    PROVE  TypeOK' /\ RowsMove /\ HeldAllMove /\ UNCHANGED current
<1>1. ASSUME NEW r \in RunType
      PROVE  /\ RowTicked(r) \in RunType
             /\ RowTicked(r).state = r.state /\ RowTicked(r).token = r.token
    <2>1. /\ Ticked(r.lease) \in Timer(StartupLease)
          /\ Ticked(r.deadline) \in Timer(ActionTimeout)
          /\ Ticked(r.cleanup) \in Timer(CleanupTtl)
        BY TimerFacts DEF RunType
    <2>2. QED BY <2>1 DEF RowTicked, RunType
<1>2. run' \in [Runs -> RunType] /\ RowsMove
    <2>1. run' \in [Runs -> RunType]
        BY <1>1 DEF Tick, TypeOK
    <2>2. ASSUME NEW r \in Runs PROVE RowMoves(r)
        <3>1. /\ run'[r].state = run[r].state /\ run'[r].token = run[r].token
              /\ settled'[r] = settled[r]
            BY <1>1 DEF Tick, TypeOK
        <3>2. QED BY <3>1 DEF RowMoves
    <2>3. QED BY <2>1, <2>2 DEF RowsMove
<1>3. op' \in [Procs -> [Runs -> OpType]]
    <2>1. ASSUME NEW o \in OpType
          PROVE  [o EXCEPT !.left = Ticked(o.left)] \in OpType
        <3>1. Ticked(o.left) \in Timer(ActionTimeout) BY TimerFacts DEF OpType
        <3>2. QED BY <3>1 DEF OpType
    <2>2. \A p \in Procs, r \in Runs : op[p][r] \in OpType
        BY DEF TypeOK
    <2>3. \A p \in Procs, r \in Runs : [op[p][r] EXCEPT !.left = Ticked(op[p][r].left)] \in OpType
        BY <2>1, <2>2
    <2>4. QED BY <2>3 DEF Tick
<1>4. ASSUME NEW p \in Procs
      PROVE  /\ [reap[p] EXCEPT !.held = RowTicked(reap[p].held)] \in ReapType
             /\ reap'[p] = [reap[p] EXCEPT !.held = RowTicked(reap[p].held)]
             /\ HeldMoves(p) /\ HeldLive(p)'
    <2>1. reap[p] \in ReapType /\ reap[p].held \in RunType
        BY DEF TypeOK, ReapType
    <2>2. RowTicked(reap[p].held) \in RunType
        BY <1>1, <2>1
    <2>3. [reap[p] EXCEPT !.held = RowTicked(reap[p].held)] \in ReapType
        BY <2>1, <2>2 DEF ReapType
    <2>4. reap'[p] = [reap[p] EXCEPT !.held = RowTicked(reap[p].held)]
        BY DEF Tick
    <2>5. /\ reap'[p].target = reap[p].target /\ reap'[p].pc = reap[p].pc
          /\ reap'[p].held = RowTicked(reap[p].held)
        BY <2>1, <2>4 DEF ReapType
    <2>6. HeldMoves(p)
        BY <1>1, <2>1, <2>5 DEF HeldMoves
    <2>7. HeldLive(p)'
        BY <1>1, <2>1, <2>5 DEF HeldLive, SnapshotLive, Unreleased
    <2>8. QED BY <2>3, <2>4, <2>6, <2>7
<1>5. reap' \in [Procs -> ReapType]
    BY <1>4 DEF Tick
<1>6. inflight' \subseteq CreateType
    <2>1. ASSUME NEW e \in inflight, e.left > 1
          PROVE  [e EXCEPT !.left = e.left - 1] \in CreateType
        <3>1. e \in CreateType BY DEF TypeOK
        <3>2. e.left - 1 \in 1..ActionTimeout
            BY <2>1, <3>1, RunConstants DEF CreateType, RunConstants
        <3>3. QED BY <3>1, <3>2 DEF CreateType
    <2>2. QED BY <2>1 DEF Tick
<1>7. TypeOK'
    BY <1>2, <1>3, <1>5, <1>6 DEF Tick, TypeOK
<1>8. QED BY <1>2, <1>4, <1>7 DEF HeldAllMove, Tick

\* A crash empties the locals of one process and writes no row.
LEMMA CrashMoves ==
    ASSUME TypeOK, SnapshotLive, NEW p \in Procs, Crash(p)
    PROVE  TypeOK' /\ RowsMove /\ HeldAllMove /\ UNCHANGED current
<1>1. op' \in [Procs -> [Runs -> OpType]]
    BY IdleTypes DEF Crash, TypeOK
<1>2. /\ reap' \in [Procs -> ReapType] /\ reap'[p] = IdleReap
      /\ \A s \in Procs \ {p} : reap'[s] = reap[s]
    BY IdleTypes DEF Crash, TypeOK
<1>3. HeldAllMove
    <2>1. HeldMoves(p) /\ HeldLive(p)'
        BY <1>2 DEF HeldMoves, HeldLive, IdleReap
    <2>2. \A s \in Procs \ {p} : HeldMoves(s) /\ HeldLive(s)'
        BY <1>2 DEF HeldMoves, HeldLive, SnapshotLive
    <2>3. QED BY <2>1, <2>2 DEF HeldAllMove
<1>4. run' \in [Runs -> RunType] /\ RowsMove
    BY RowsKept DEF Crash, store
<1>5. faults' \in 0..MaxFaults
    BY FaultType DEF Crash, TypeOK
<1>6. QED BY <1>1, <1>2, <1>3, <1>4, <1>5 DEF Crash, TypeOK, store, kube

-----------------------------------------------------------------------------
(* The inductive invariant, and what follows from it.                      *)

\* A row that is not inserted has no fence yet.
UnbornBlank == \A r \in Runs : run[r].state = "unborn" => run[r].token = 0

IInv ==
    /\ TypeOK
    /\ OneUnreleasedRun
    /\ SettledOnce
    /\ SnapshotFenced
    /\ SnapshotLive
    /\ UnbornBlank

\* What is true of the rows stays true when they move as above.
LEMMA RowsMoveKeeps ==
    ASSUME IInv, TypeOK', RowsMove, UNCHANGED current
    PROVE  (OneUnreleasedRun /\ SettledOnce /\ UnbornBlank)'
<1>0. /\ current \in Runs \cup {NoRun}
      /\ \A r \in Runs : /\ run[r].token \in Nat /\ run'[r].token \in Nat
                         /\ settled[r] \in Nat
    BY RunConstants DEF IInv, TypeOK, RunType, RunConstants
<1>1. ASSUME NEW r \in Runs
      PROVE  /\ run[r].state \in {"unborn", "released"} => run'[r].state = run[r].state
             /\ run[r].state # "unborn" => run'[r].state # "unborn"
             /\ run'[r].state = "unborn" => run'[r].token = run[r].token
    BY <1>0 DEF RowsMove, RowMoves, Unreleased
<1>2. OneUnreleasedRun'
    BY <1>0, <1>1 DEF IInv, OneUnreleasedRun
<1>3. SettledOnce'
    BY <1>0, <1>1 DEF IInv, SettledOnce, RowsMove, RowMoves
<1>4. UnbornBlank'
    BY <1>1 DEF IInv, UnbornBlank
<1>5. QED BY <1>2, <1>3, <1>4

\* Whatever the rows do, and whatever the reapers take from them, a snapshot
\* with the current fence has the current state.
LEMMA SnapshotsStayFenced ==
    ASSUME IInv, TypeOK', RowsMove, HeldAllMove
    PROVE  (SnapshotFenced /\ SnapshotLive)'
<1>1. SnapshotLive'
    BY DEF HeldAllMove, SnapshotLive
<1>2. ASSUME NEW p \in Procs, reap'[p].target # NoRun
      PROVE  LET held == reap'[p].held
                 row == run'[reap'[p].target] IN
             held.token <= row.token /\ (held.token = row.token => held.state = row.state)
    <2>1. reap'[p].target \in Runs /\ reap'[p].held.token \in Nat
        BY <1>2, RunConstants DEF TypeOK, ReapType, RunType, RunConstants
    <2>2. run'[reap'[p].target].token \in Nat /\ run[reap'[p].target].token \in Nat
        BY <2>1, RunConstants DEF IInv, TypeOK, RunType, RunConstants
    <2>3. CASE /\ reap'[p].target = reap[p].target
               /\ reap'[p].held.token = reap[p].held.token
               /\ reap'[p].held.state = reap[p].held.state
        <3>1. /\ reap[p].held.token <= run[reap[p].target].token
              /\ reap[p].held.token = run[reap[p].target].token
                    => reap[p].held.state = run[reap[p].target].state
            BY <1>2, <2>3 DEF IInv, SnapshotFenced
        <3>2. RowMoves(reap'[p].target)
            BY <2>1 DEF RowsMove
        <3>3. QED BY <2>1, <2>2, <2>3, <3>1, <3>2 DEF RowMoves
    <2>4. CASE /\ reap'[p].held.token = run'[reap'[p].target].token
               /\ reap'[p].held.state = run'[reap'[p].target].state
        BY <2>2, <2>4
    <2>5. QED BY <1>2, <2>3, <2>4 DEF HeldAllMove, HeldMoves
<1>3. SnapshotFenced'
    BY <1>2 DEF SnapshotFenced
<1>4. QED BY <1>1, <1>3

\* Admission inserts a row that nobody holds, above a released one.
LEMMA AdmitKeeps ==
    ASSUME IInv, NEW isReady \in BOOLEAN, Admit(isReady)
    PROVE  IInv'
<1> DEFINE n == current + 1
<1>1. n \in Runs /\ current \in Runs \cup {NoRun} /\ n > current
    BY LifecycleConstants DEF Admit, IInv, TypeOK, Runs, NoRun, LifecycleConstants
<1>2. /\ AdmittedRun(isReady) \in RunType
      /\ AdmittedRun(isReady).state = "starting" /\ AdmittedRun(isReady).token = 1
    BY NewRowType
<1>3. /\ run' \in [Runs -> RunType] /\ run'[n] = AdmittedRun(isReady)
      /\ \A s \in Runs \ {n} : run'[s] = run[s]
    BY <1>1, <1>2, SetRunType DEF Admit, IInv, TypeOK
<1>4. current' = n /\ UNCHANGED <<settled, kube, op, reap, faults>>
    BY DEF Admit
<1>5. run[n].state = "unborn" /\ run[n].token = 0
    BY <1>1 DEF IInv, OneUnreleasedRun, UnbornBlank
<1>6. TypeOK'
    BY <1>1, <1>3, <1>4 DEF IInv, TypeOK, kube
<1>7. OneUnreleasedRun'
    <2>1. ASSUME NEW r \in Runs
          PROVE  /\ r < n => run'[r].state = "released"
                 /\ r = n => run'[r].state # "unborn"
                 /\ r > n => run'[r].state = "unborn"
        <3>1. CASE r = n
            <4>1. ~(r < n) /\ ~(r > n)
                BY <1>1, <3>1, LifecycleConstants DEF Runs, LifecycleConstants
            <4>2. QED BY <1>1, <1>2, <1>3, <3>1, <4>1
        <3>2. CASE r = current
            <4>1. r # NoRun /\ r < n /\ r # n /\ ~(r > n)
                BY <3>2, LifecycleConstants DEF Runs, NoRun, LifecycleConstants
            <4>2. run[r].state = "released"
                BY <3>2, <4>1 DEF Admit
            <4>3. run'[r] = run[r]
                BY <1>3, <4>1
            <4>4. QED BY <4>1, <4>2, <4>3
        <3>3. CASE r # n /\ r # current
            <4>1. run'[r] = run[r] /\ (r < n => r < current) /\ (r > n => r > current)
                BY <1>1, <1>3, <3>3 DEF Runs, NoRun
            <4>2. r < n \/ r > n
                BY <1>1, <3>3 DEF Runs, NoRun
            <4>3. /\ r < current => run[r].state = "released"
                  /\ r > current => run[r].state = "unborn"
                BY DEF IInv, OneUnreleasedRun
            <4>4. QED BY <1>1, <3>3, <4>1, <4>2, <4>3 DEF Runs
        <3>4. QED BY <3>1, <3>2, <3>3
    <2>2. QED BY <1>4, <2>1 DEF OneUnreleasedRun
<1>8. SettledOnce' /\ UnbornBlank'
    BY <1>2, <1>3, <1>4, <1>5 DEF IInv, SettledOnce, UnbornBlank
<1>9. SnapshotFenced' /\ SnapshotLive'
    <2>1. SnapshotLive'
        BY <1>4 DEF IInv, SnapshotLive, HeldLive
    <2>2. ASSUME NEW p \in Procs, reap[p].target # NoRun
          PROVE  run'[reap[p].target] = run[reap[p].target]
        <3>1. Unreleased(reap[p].held) /\ reap[p].target \in Runs
            BY <2>2 DEF IInv, SnapshotLive, HeldLive, TypeOK, ReapType
        <3>2. reap[p].target # n
            <4>1. CASE reap[p].target = n
                <5>1. reap[p].held.token <= 0
                    BY <1>5, <2>2, <4>1 DEF IInv, SnapshotFenced
                <5>2. reap[p].held.token \in Nat
                    BY RunConstants DEF IInv, TypeOK, ReapType, RunType, RunConstants
                <5>3. reap[p].held.state = "unborn"
                    BY <1>5, <2>2, <4>1, <5>1, <5>2 DEF IInv, SnapshotFenced
                <5>4. QED BY <3>1, <5>3 DEF Unreleased
            <4>2. QED BY <4>1
        <3>3. QED BY <1>3, <3>1, <3>2
    <2>3. SnapshotFenced'
        BY <1>4, <2>2 DEF IInv, SnapshotFenced
    <2>4. QED BY <2>1, <2>3
<1>10. QED BY <1>6, <1>7, <1>8, <1>9 DEF IInv

\* Every other step moves the rows and the snapshots as described.
LEMMA OtherStepsMove ==
    ASSUME IInv, [Next]_vars, ~(\E isReady \in BOOLEAN : Admit(isReady))
    PROVE  TypeOK' /\ RowsMove /\ HeldAllMove /\ UNCHANGED current
<1>0. TypeOK /\ SnapshotFenced /\ SnapshotLive
    BY DEF IInv
<1>1. CASE \E r \in Runs : Prepared(r) \/ RunFails(r) \/ RequestTaskSandboxRelease(r)
    BY <1>0, <1>1, RequestMoves, HeldKept
<1>2. CASE \E p \in Procs, r \in Runs : OpStart(p, r) \/ OpStep(p, r)
    BY <1>0, <1>2, OpStartMoves, OpStepMoves, OpStepKeeps, HeldKept
<1>3. CASE \E p \in Reapers : PreparationFails(p) \/ ReapStep(p)
    <2>1. PICK p \in Procs : PreparationFails(p) \/ ReapStep(p)
        BY <1>3, LifecycleConstants DEF LifecycleConstants
    <2>2. ReapMoves(p) /\ UNCHANGED current
        BY <1>0, <2>1, PreparationFailsMoves, ReapStepMoves, ReapStepKeeps
           DEF PreparationFails, store
    <2>3. \A s \in Procs \ {p} : HeldMoves(s) /\ HeldLive(s)'
        BY <1>0, <2>2 DEF ReapMoves, HeldMoves, HeldLive, SnapshotLive
    <2>4. QED BY <2>2, <2>3 DEF ReapMoves, HeldAllMove
<1>4. CASE Environment
    BY <1>0, <1>4, LandMoves, PodMoves, TickMoves, CrashMoves, HeldKept DEF Environment
<1>5. CASE UNCHANGED vars
    <2>1. UNCHANGED <<run, settled, reap, current>> /\ TypeOK'
        BY <1>0, <1>5 DEF vars, TypeOK
    <2>2. QED BY <1>0, <2>1, RowsKept, HeldKept
<1>6. QED BY <1>1, <1>2, <1>3, <1>4, <1>5 DEF Next

\* The invariant holds before the Task has a Run.
LEMMA InitInv == Init => IInv
<1> SUFFICES ASSUME Init PROVE IInv
    OBVIOUS
<1>1. TypeOK
    BY NewRowType, IdleTypes, RunConstants, LifecycleConstants
       DEF Init, TypeOK, RunConstants, LifecycleConstants, CreateType
<1>2. OneUnreleasedRun /\ SettledOnce /\ UnbornBlank
    BY NewRowType DEF Init, OneUnreleasedRun, SettledOnce, UnbornBlank, Runs, NoRun
<1>3. SnapshotFenced /\ SnapshotLive
    BY DEF Init, SnapshotFenced, SnapshotLive, HeldLive, IdleReap
<1>4. QED BY <1>1, <1>2, <1>3 DEF IInv

\* Every step keeps the invariant.
LEMMA StepInv == IInv /\ [Next]_vars => IInv'
<1> SUFFICES ASSUME IInv, [Next]_vars PROVE IInv'
    OBVIOUS
<1>1. CASE \E isReady \in BOOLEAN : Admit(isReady)
    BY <1>1, AdmitKeeps
<1>2. CASE ~(\E isReady \in BOOLEAN : Admit(isReady))
    BY <1>2, OtherStepsMove, RowsMoveKeeps, SnapshotsStayFenced DEF IInv
<1>3. QED BY <1>1, <1>2

\* So the invariant holds always; the theorems below are its parts.
LEMMA InductiveInvariant == Spec => []IInv
BY InitInv, StepInv, PTL DEF Spec

\* Type correctness: rows, objects, requests and locals are always what the
\* code's types allow, and no fence, UID or timer leaves its range.
THEOREM TypeCorrect == Spec => []TypeOK
<1>1. IInv => TypeOK BY DEF IInv
<1>2. QED BY <1>1, InductiveInvariant, PTL

\* A Task never has two unreleased Runs (admitSandboxRun and the fence).
THEOREM NeverTwoRuns == Spec => []OneUnreleasedRun
<1>1. IInv => OneUnreleasedRun BY DEF IInv
<1>2. QED BY <1>1, InductiveInvariant, PTL

\* A Run is settled exactly when it is released, and once
\* (completeSandboxRunRelease), whatever reapers retry or crash.
THEOREM NeverSettledTwice == Spec => []SettledOnce
<1>1. IInv => SettledOnce BY DEF IInv
<1>2. QED BY <1>1, InductiveInvariant, PTL

\* The row a reaper holds has the state of the stored row as long as the fence
\* has not moved, so that writing it back changes no state.
THEOREM SnapshotsAreFenced == Spec => []SnapshotFenced
<1>1. IInv => SnapshotFenced BY DEF IInv
<1>2. QED BY <1>1, InductiveInvariant, PTL

\* No step changes the state of a Run without moving its fence by one, and no
\* step moves a fence back.
THEOREM FenceNeverGoesBack == Spec => FenceMoves
<1> DEFINE Moves ==
        \A r \in Runs :
            /\ run'[r].token \in {run[r].token, run[r].token + 1}
            /\ run'[r].state # run[r].state => run'[r].token = run[r].token + 1
<1>1. ASSUME IInv, Next PROVE Moves
    <2>1. CASE \E isReady \in BOOLEAN : Admit(isReady)
        <3>1. PICK isReady \in BOOLEAN : Admit(isReady)
            BY <2>1
        <3>2. current + 1 \in Runs /\ current + 1 > current
            BY <1>1, <3>1, LifecycleConstants DEF Admit, IInv, TypeOK, Runs, NoRun, LifecycleConstants
        <3>3. run[current + 1].token = 0
            BY <1>1, <3>2 DEF IInv, OneUnreleasedRun, UnbornBlank
        <3>4. /\ run'[current + 1].token = 1
              /\ \A s \in Runs \ {current + 1} : run'[s] = run[s]
            BY <1>1, <3>1, <3>2, NewRowType, SetRunType DEF Admit, IInv, TypeOK
        <3>5. QED BY <3>3, <3>4
    <2>2. CASE ~(\E isReady \in BOOLEAN : Admit(isReady))
        BY <1>1, <2>2, OtherStepsMove DEF RowsMove, RowMoves
    <2>3. QED BY <2>1, <2>2
<1>2. IInv /\ [Next]_vars => [Moves]_vars
    BY <1>1
<1>3. QED BY <1>2, InductiveInvariant, PTL DEF Spec, FenceMoves
=============================================================================
