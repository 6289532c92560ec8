------------------------ MODULE SandboxOwnership_proofs ------------------------
(***************************************************************************)
(* Who may act for a Run.  A startup is owned through its claim, its fence *)
(* and its deadline; a Run that is doomed stays doomed and nobody owns it. *)
(* From these: one external action per Run, deletions only of what is      *)
(* doomed, and the Pod of an active Run is kept.  All of it for any number *)
(* of processes, reapers and disturbances of every kind.                   *)
(***************************************************************************)
EXTENDS SandboxLifecycle_proofs

-----------------------------------------------------------------------------
(* Ownership.                                                              *)

\* Labels at which a startup operation acts under its claim, and those at
\* which it has one.
Owning == {"config", "observe", "begin", "act", "sent", "unknown", "recover", "complete",
           "identify", "record", "activate"}
Holding == Owning \cup {"prepare"}

\* The operation that the store lets write the row.
Owns(p, r) ==
    op[p][r].pc \in Owning /\ op[p][r].claim = run[r].claim /\ op[p][r].tok = run[r].token
Acting(p, r) == op[p][r].pc \in {"act", "sent"} /\ Open(op[p][r].left)

\* No operation has both the claim and the fence of the row.
NoOwner(r) ==
    \A p \in Procs :
        op[p][r].pc \in Owning /\ op[p][r].claim = run[r].claim => op[p][r].tok < run[r].token
Stuck(r) == run[r].state = "starting" /\ IsSet(run[r].deadline) /\ NoOwner(r)

\* What the reaper waits for before it deletes: the Run ends, or its startup
\* is stuck, and no action can still be under way.
Doomed(r) ==
    /\ run[r].state \in {"release_requested", "failed", "released"} \/ Stuck(r)
    /\ ~Open(run[r].deadline)

\* Labels of the reaper after it decided on the row it holds.
Late == {"claim", "delete", "inspect", "drain", "clear", "inventory", "complete", "unclaim"}

-----------------------------------------------------------------------------
(* The invariant.                                                          *)

\* An operation was started for a Run that exists, with a fence it had.
OpBehind ==
    \A p \in Procs, r \in Runs : op[p][r].pc # "idle" =>
        run[r].state # "unborn" /\ op[p][r].tok <= run[r].token

\* Two operations of a Run never have the same claim (newId).
ClaimsUnique ==
    \A p \in Procs, r \in Runs : op[p][r].pc \in Holding =>
        /\ op[p][r].claim \in Claims
        /\ \A q \in Procs :
              op[q][r].pc \in Holding /\ op[q][r].claim = op[p][r].claim => p = q

\* Nothing was begun under a claim whose operation still prepares.
PrepareFree ==
    \A p \in Procs, r \in Runs : op[p][r].pc = "prepare" =>
        /\ run[r].claim = op[p][r].claim => run[r].deadline = Unset
        /\ \A q \in Procs :
              reap[q].target = r /\ reap[q].held.claim = op[p][r].claim
                  => reap[q].held.deadline = Unset

\* The reaper decides only on a row that ends or is past its deadline.
HeldDoomed ==
    \A p \in Procs : reap[p].pc \in Late /\ reap[p].target # NoRun =>
        CleanupState(reap[p].held) \/ DrainEligible(reap[p].held)

\* Once a startup is over, a row changes only together with its fence.
HeldSame ==
    \A p \in Procs :
        LET t == reap[p].target IN
        t # NoRun /\ reap[p].held.token = run[t].token /\ run[t].state # "starting"
            => reap[p].held = run[t]

\* An action under way is covered by the row, as long as the Run starts.
ActingOwns ==
    \A p \in Procs, r \in Runs :
        Acting(p, r) /\ run[r].state = "starting" =>
            Stuck(r) \/ (Owns(p, r) /\ run[r].deadline = op[p][r].left)

\* The apply and the readiness wait are completed by a transaction of their
\* own, the opening by the activation.
Early == {"claim", "prepare", "config", "observe", "complete", "identify"}
Phases ==
    \A p \in Procs, r \in Runs :
        /\ op[p][r].pc \in Early => op[p][r].phase # "open"
        /\ op[p][r].pc = "activate" => op[p][r].phase = "open"

Ownership ==
    /\ OpBehind /\ ClaimsUnique /\ PrepareFree /\ HeldDoomed /\ HeldSame
    /\ ActingOwns /\ OneActionPerRun /\ Phases

-----------------------------------------------------------------------------
(* What a step that is not a tick of the clock does with an operation ...  *)

\* It ends or has not claimed; it keeps claim and fence; it reads the row
\* again after its preparation; or it claims the startup.
OpShape(p, r) ==
    LET o == op[p][r]
        n == op'[p][r] IN
    \/ n.pc \notin Holding
    \/ /\ (o.pc \in Owning /\ n.pc \in Owning) \/ (o.pc = "prepare" /\ n.pc = "prepare")
       /\ n.claim = o.claim /\ n.tok = o.tok
    \/ /\ o.pc = "prepare" /\ n.pc = "config"
       /\ n.claim = o.claim /\ n.tok = run[r].token /\ run' = run
    \/ /\ o.pc = "claim" /\ n.pc = "prepare" /\ n.tok = o.tok
       /\ IsFresh(n.claim) /\ run'[r].deadline = Unset
       /\ \A q \in Procs : q # p => op'[q][r] = op[q][r]
       /\ UNCHANGED reap

\* What it knows of the fence it read.
OpReads(p, r) ==
    op'[p][r].pc # "idle" =>
        \/ op[p][r].pc # "idle" /\ op'[p][r].tok = op[p][r].tok
        \/ run[r].state # "unborn" /\ op'[p][r].tok = run[r].token

\* An action goes on, or is begun with a deadline of its own.
OpActs(p, r) ==
    LET o == op[p][r]
        n == op'[p][r] IN
    n.pc \in {"act", "sent"} =>
        \/ o.pc \in {"act", "sent"} /\ n.left = o.left
        \/ /\ o.pc = "begin" /\ CanBeginAction(run[r], o.tok, o.claim)
           /\ run'[r] = BeginAction(run[r])
           /\ n.left = ActionTimeout /\ n.tok = o.tok /\ n.claim = o.claim
           /\ \A q \in Procs : q # p => op'[q][r] = op[q][r]

OpPhases(p, r) ==
    /\ op'[p][r].pc \in Early => op'[p][r].phase # "open"
    /\ op'[p][r].pc = "activate" => op'[p][r].phase = "open"

\* After the opening the operation has just seen its Pod ready.
OpSees(p, r) ==
    LET o == op[p][r]
        n == op'[p][r] IN
    n.pc \in {"record", "activate"} /\ n.phase = "open" =>
        \/ o.pc \in {"record", "activate"} /\ o.phase = "open" /\ n.pod = o.pod
        \/ ReadyIdentity(r, n.pod) /\ UNCHANGED <<cluster, lost>>

OpSteps(p, r) ==
    OpShape(p, r) /\ OpReads(p, r) /\ OpActs(p, r) /\ OpPhases(p, r) /\ OpSees(p, r)

(* ... and with a row.                                                     *)

\* A startup transaction of the operation that owns the row.
RowOwned(r) ==
    LET o == run[r]
        n == run'[r] IN
    /\ o.state = "starting" /\ n.state = "starting" /\ n.token = o.token
    /\ \E p \in Procs :
        /\ Owns(p, r)
        /\ \/ op[p][r].pc = "begin" /\ o.deadline = Unset /\ n.claim = o.claim
           \/ /\ op[p][r].pc \in {"complete", "recover"} /\ n.deadline = Unset
              /\ n.claim \in {o.claim, NoClaim}

\* The row stays as it is, but for what nobody is fenced by.
RowKept(r) ==
    LET o == run[r]
        n == run'[r] IN
    \/ n = o
    \/ /\ o.state = "starting" /\ n.state = "starting" /\ n.token = o.token
       /\ n.claim = o.claim /\ n.deadline = o.deadline

\* claimSandboxStartup
RowClaimed(r) ==
    LET o == run[r]
        n == run'[r] IN
    /\ o.state = "starting" /\ n.state = "starting" /\ n.token = o.token
    /\ o.deadline = Unset /\ n.deadline = Unset /\ IsFresh(n.claim)

\* The startup ends: the Run is active, doomed or released.
RowEnds(r) ==
    LET o == run[r]
        n == run'[r] IN
    /\ n.token = o.token + 1 /\ Unreleased(o)
    /\ \/ /\ n.state = "active" /\ o.state = "starting" /\ n.deadline = Unset
          /\ \E p \in Procs : Owns(p, r) /\ op[p][r].pc = "activate" /\ n.pod = op[p][r].pod
       \/ /\ n.state \in {"failed", "release_requested"}
          /\ n.deadline = Unset \/ (n.deadline = o.deadline /\ n.claim = o.claim)
       \/ n.state = "released" /\ n.deadline = Unset

\* The reaper claims the row or gives its claim back.
RowReaped(r) ==
    LET o == run[r]
        n == run'[r] IN
    /\ n.token = o.token + 1 /\ n.state = o.state
    /\ o.state = "starting" => Passed(n.deadline)
    /\ o.state # "starting" => CleanupState(o) /\ n.deadline = o.deadline
    /\ \/ n.claim = o.claim /\ n.deadline = o.deadline
       \/ \E p \in Procs :
            /\ reap[p].target = r
            /\ n.claim = reap[p].held.claim /\ n.deadline = reap[p].held.deadline

\* A Run is admitted.
RowAdmitted(r) ==
    run[r].state = "unborn" /\ \E isReady \in BOOLEAN : run'[r] = AdmittedRun(isReady)

RowShape(r) ==
    RowKept(r) \/ RowClaimed(r) \/ RowOwned(r) \/ RowEnds(r) \/ RowReaped(r) \/ RowAdmitted(r)

OpsStep == \A p \in Procs, r \in Runs : OpSteps(p, r)
RowsStep == \A r \in Runs : RowShape(r)

(* ... and with what a reaper holds.                                       *)

\* The reaper drops the row it holds; keeps it, at a later label only if it
\* decided on it; or holds the row as it is stored now.
HeldShape(p) ==
    LET q == reap[p]
        n == reap'[p] IN
    \/ n.target = NoRun
    \/ n.target = q.target /\ n.held = q.held /\ (n.pc \in Late => q.pc \in Late)
    \/ /\ n.held = run'[n.target]
       /\ n.pc \in Late => CleanupState(n.held) \/ DrainEligible(n.held)
HeldStep == \A p \in Procs : HeldShape(p)

-----------------------------------------------------------------------------
(* Every step of a startup operation is of these shapes.                   *)

\* Changing one operation leaves the others alone.
LEMMA OpSet ==
    ASSUME TypeOK, NEW p \in Procs, NEW r \in Runs, NEW o, SetOp(p, r, o)
    PROVE  /\ op'[p][r] = o
           /\ \A q \in Procs, s \in Runs : q # p \/ s # r => op'[q][s] = op[q][s]
BY DEF SetOp, TypeOK

\* An operation that only goes on to a label.
LEMMA OpWent ==
    ASSUME TypeOK, NEW p \in Procs, NEW r \in Runs, NEW label, OpGoto(p, r, label)
    PROVE  /\ op'[p][r].pc = label
           /\ op'[p][r].tok = op[p][r].tok /\ op'[p][r].claim = op[p][r].claim
           /\ op'[p][r].left = op[p][r].left /\ op'[p][r].phase = op[p][r].phase
           /\ op'[p][r].pod = op[p][r].pod
           /\ \A q \in Procs, s \in Runs : q # p \/ s # r => op'[q][s] = op[q][s]
<1>1. op[p][r] \in OpType BY DEF TypeOK
<1>2. QED BY <1>1, OpSet DEF OpGoto, OpType

\* An operation that ends.
LEMMA OpEnded ==
    ASSUME TypeOK, NEW p \in Procs, NEW r \in Runs, OpEnd(p, r)
    PROVE  /\ op'[p][r] = IdleOp /\ op'[p][r].pc = "idle"
           /\ \A q \in Procs, s \in Runs : q # p \/ s # r => op'[q][s] = op[q][s]
BY OpSet DEF OpEnd, IdleOp

\* An operation that ends, fails or only goes on.
LEMMA OpEndsOrFails ==
    ASSUME TypeOK, NEW p \in Procs, NEW r \in Runs, OpEnd(p, r) \/ OpGoto(p, r, "fail"),
           op[p][r].pc # "idle"
    PROVE  OpSteps(p, r)
BY OpWent, OpEnded DEF OpSteps, OpShape, OpReads, OpActs, OpPhases, OpSees, Holding, Owning,
                              Early

\* A call that fails: its operation ends, or fails and writes no row.
LEMMA OpCallFailsShape ==
    ASSUME TypeOK, NEW p \in Procs, NEW r \in Runs, OpCallFails(p, r)
    PROVE  OpSteps(p, r) /\ RowShape(r)
<1>1. /\ OpEnd(p, r) \/ OpGoto(p, r, "fail")
      /\ op[p][r].pc # "idle" /\ UNCHANGED run
    BY DEF OpCallFails, store
<1>2. QED BY <1>1, OpEndsOrFails DEF RowShape, RowKept

\* claimSandboxStartup
LEMMA OpClaimShape ==
    ASSUME TypeOK, Phases, NEW p \in Procs, NEW r \in Runs, OpClaim(p, r)
    PROVE  OpSteps(p, r) /\ RowShape(r)
<1> DEFINE claim == FreshClaim
           o == op[p][r]
<1> HIDE DEF claim
<1>0. o \in OpType /\ run[r] \in RunType /\ o.pc = "claim"
    BY DEF TypeOK, OpClaim
<1>1. CASE /\ CanClaimStartup(run[r], o.tok, claim) /\ IsFresh(claim)
           /\ SetRun(r, ClaimStartup(run[r], claim))
           /\ SetOp(p, r, [o EXCEPT !.pc = "prepare", !.claim = claim])
    <2>1. /\ run[r].state = "starting" /\ run[r].deadline = Unset
        BY <1>1 DEF CanClaimStartup, StartupStale, StartupInProgress, IsSet
    <2>2. run'[r] = ClaimStartup(run[r], claim)
        BY <1>1 DEF SetRun, TypeOK
    <2>3. /\ run'[r].state = "starting" /\ run'[r].token = run[r].token
          /\ run'[r].deadline = Unset /\ run'[r].claim = claim
        BY <1>0, <2>1, <2>2 DEF ClaimStartup, RunType
    <2>4. RowShape(r)
        BY <1>1, <2>1, <2>3 DEF RowShape, RowClaimed
    <2>5. /\ op'[p][r] = [o EXCEPT !.pc = "prepare", !.claim = claim]
          /\ \A q \in Procs : q # p => op'[q][r] = op[q][r]
        BY <1>1, OpSet
    <2>6. /\ op'[p][r].pc = "prepare" /\ op'[p][r].tok = o.tok /\ op'[p][r].claim = claim
          /\ op'[p][r].phase = o.phase
        BY <1>0, <2>5 DEF OpType
    <2>7. OpSteps(p, r)
        BY <1>0, <1>1, <2>3, <2>5, <2>6
           DEF OpSteps, OpShape, OpReads, OpActs, OpPhases, OpSees, OpClaim, Phases, Early
    <2>8. QED BY <2>4, <2>7
<1>2. CASE (OpGoto(p, r, "fail") \/ OpEnd(p, r)) /\ UNCHANGED run
    BY <1>0, <1>2, OpEndsOrFails DEF RowShape, RowKept
<1>3. QED BY <1>1, <1>2 DEF OpClaim, claim

\* An operation that keeps claim and fence.
LEMMA OpGoesOn ==
    ASSUME NEW p \in Procs, NEW r \in Runs, op[p][r].pc \in Owning, op'[p][r].pc \in Owning,
           op'[p][r].claim = op[p][r].claim, op'[p][r].tok = op[p][r].tok
    PROVE  OpShape(p, r) /\ OpReads(p, r)
BY DEF OpShape, OpReads, Owning

\* Endpoint, keys and directories; then the row is read again.
LEMMA OpPrepareShape ==
    ASSUME TypeOK, Phases, NEW p \in Procs, NEW r \in Runs, OpPrepare(p, r)
    PROVE  OpSteps(p, r) /\ RowShape(r)
<1> DEFINE o == op[p][r]
<1>0. o \in OpType /\ run[r] \in RunType /\ o.pc = "prepare" /\ UNCHANGED run
    BY DEF TypeOK, OpPrepare, store
<1>1. CASE /\ run[r].state = "starting"
           /\ SetOp(p, r, [o EXCEPT !.pc = "config", !.tok = run[r].token])
    <2>1. op'[p][r] = [o EXCEPT !.pc = "config", !.tok = run[r].token]
        BY <1>1, OpSet
    <2>2. /\ op'[p][r].pc = "config" /\ op'[p][r].tok = run[r].token
          /\ op'[p][r].claim = o.claim /\ op'[p][r].phase = o.phase
        BY <1>0, <2>1 DEF OpType
    <2>3. QED BY <1>0, <1>1, <2>2
           DEF OpSteps, OpShape, OpReads, OpActs, OpPhases, OpSees, RowShape, RowKept, Phases, Early
<1>2. CASE OpGoto(p, r, "fail")
    BY <1>0, <1>2, OpEndsOrFails DEF RowShape, RowKept
<1>3. QED BY <1>1, <1>2 DEF OpPrepare

\* initializeTaskSandboxStartupConfig
LEMMA OpConfigShape ==
    ASSUME TypeOK, Phases, NEW p \in Procs, NEW r \in Runs, OpConfig(p, r)
    PROVE  OpSteps(p, r) /\ RowShape(r)
<1> DEFINE o == op[p][r]
<1>0. o \in OpType /\ run[r] \in RunType /\ o.pc = "config"
    BY DEF TypeOK, OpConfig
<1>1. CASE /\ OwnsStartup(run[r], o.tok, o.claim)
           /\ SetRun(r, InitConfig(run[r]))
           /\ SetOp(p, r, [o EXCEPT !.pc = "observe", !.pod = run[r].pod])
    <2>1. op'[p][r] = [o EXCEPT !.pc = "observe", !.pod = run[r].pod]
        BY <1>1, OpSet
    <2>2. /\ op'[p][r].pc = "observe" /\ op'[p][r].tok = o.tok
          /\ op'[p][r].claim = o.claim /\ op'[p][r].phase = o.phase
        BY <1>0, <2>1 DEF OpType
    <2>3. run'[r] = InitConfig(run[r])
        BY <1>1 DEF SetRun, TypeOK
    <2>4. RowShape(r)
        BY <1>0, <1>1, <2>3 DEF OwnsStartup, InitConfig, RunType, RowShape, RowKept
    <2>5. OpSteps(p, r)
        BY <1>0, <2>2, OpGoesOn DEF OpSteps, OpActs, OpPhases, OpSees, Owning, Phases, Early
    <2>6. QED BY <2>4, <2>5
<1>2. CASE OpGoto(p, r, "fail") /\ UNCHANGED run
    BY <1>0, <1>2, OpEndsOrFails DEF RowShape, RowKept
<1>3. QED BY <1>1, <1>2 DEF OpConfig

\* The first observation of the identity.
LEMMA OpObserveShape ==
    ASSUME TypeOK, Phases, NEW p \in Procs, NEW r \in Runs, OpObserve(p, r)
    PROVE  OpSteps(p, r) /\ RowShape(r)
<1> DEFINE missing == Kinds \ OwnedBy(cluster, r)
           ready == [op[p][r] EXCEPT !.pc = "begin", !.phase = "ready"]
           apply == [op[p][r] EXCEPT !.pc = "begin", !.phase = "apply", !.todo = missing]
<1>0. op[p][r] \in OpType /\ op[p][r].pc = "observe" /\ UNCHANGED run
    BY DEF TypeOK, OpObserve, store
<1>1. SetOp(p, r, ready) \/ SetOp(p, r, apply) \/ OpGoto(p, r, "identify") \/ OpGoto(p, r, "fail")
    BY DEF OpObserve
<1>2. CASE OpGoto(p, r, "fail")
    BY <1>0, <1>2, OpEndsOrFails DEF RowShape, RowKept
<1>3. CASE SetOp(p, r, ready) \/ SetOp(p, r, apply)
    <2>1. op'[p][r] = ready \/ op'[p][r] = apply
        BY <1>3, OpSet
    <2>2. /\ op'[p][r].pc = "begin" /\ op'[p][r].tok = op[p][r].tok
          /\ op'[p][r].claim = op[p][r].claim
        BY <1>0, <2>1 DEF OpType
    <2>3. QED BY <1>0, <2>2, OpGoesOn
              DEF OpSteps, OpActs, OpPhases, OpSees, Owning, RowShape, RowKept, Early
<1>4. CASE OpGoto(p, r, "identify")
    <2>1. OpShape(p, r) /\ OpReads(p, r)
        BY <1>0, <1>4, OpWent, OpGoesOn DEF Owning
    <2>2. QED BY <1>0, <1>4, <2>1, OpWent
              DEF OpSteps, OpActs, OpPhases, OpSees, RowShape, RowKept, Phases, Early
<1>5. QED BY <1>1, <1>2, <1>3, <1>4

\* An operation that goes on under its claim to a label of no consequence, and
\* writes no row.
LEMMA OpPasses ==
    ASSUME NEW p \in Procs, NEW r \in Runs, op[p][r].pc \in Owning,
           op'[p][r].pc \in {"begin", "unknown", "recover"},
           op'[p][r].claim = op[p][r].claim, op'[p][r].tok = op[p][r].tok
    PROVE  OpSteps(p, r)
BY OpGoesOn DEF OpSteps, OpActs, OpPhases, OpSees, Owning, Early

\* beginSandboxStartupOperation
LEMMA OpStartShape ==
    ASSUME TypeOK, NEW p \in Procs, NEW r \in Runs, OpStart(p, r)
    PROVE  OpSteps(p, r) /\ RowShape(r)
<1>1. /\ run[r].state = "starting" /\ UNCHANGED run
      /\ SetOp(p, r, [IdleOp EXCEPT !.pc = "claim", !.tok = run[r].token])
    BY DEF OpStart, store
<1>2. op'[p][r] = [IdleOp EXCEPT !.pc = "claim", !.tok = run[r].token]
    BY <1>1, OpSet
<1>3. op'[p][r].pc = "claim" /\ op'[p][r].tok = run[r].token /\ op'[p][r].phase = "apply"
    BY <1>2 DEF IdleOp
<1>4. QED BY <1>1, <1>3 DEF OpSteps, OpShape, OpReads, OpActs, OpPhases, OpSees, Holding,
                            Owning, Early, RowShape, RowKept

\* beginSandboxStartupExternalAction
LEMMA OpBeginShape ==
    ASSUME TypeOK, NEW p \in Procs, NEW r \in Runs, OpBegin(p, r)
    PROVE  OpSteps(p, r) /\ RowShape(r)
<1> DEFINE o == op[p][r]
<1>0. o \in OpType /\ run[r] \in RunType /\ o.pc = "begin"
    BY DEF TypeOK, OpBegin
<1>1. CASE /\ CanBeginAction(run[r], o.tok, o.claim)
           /\ SetRun(r, BeginAction(run[r]))
           /\ SetOp(p, r, [o EXCEPT !.pc = "act", !.left = ActionTimeout])
    <2>1. /\ op'[p][r] = [o EXCEPT !.pc = "act", !.left = ActionTimeout]
          /\ \A q \in Procs : q # p => op'[q][r] = op[q][r]
        BY <1>1, OpSet
    <2>2. /\ op'[p][r].pc = "act" /\ op'[p][r].tok = o.tok
          /\ op'[p][r].claim = o.claim /\ op'[p][r].left = ActionTimeout
        BY <1>0, <2>1 DEF OpType
    <2>3. run'[r] = BeginAction(run[r])
        BY <1>1 DEF SetRun, TypeOK
    <2>4. RowShape(r)
        <3>1. /\ run'[r].state = run[r].state /\ run'[r].token = run[r].token
              /\ run'[r].claim = run[r].claim
            BY <1>0, <2>3 DEF BeginAction, RunType
        <3>2. /\ run[r].state = "starting" /\ run[r].token = o.tok /\ run[r].claim = o.claim
              /\ run[r].deadline = Unset
            BY <1>1 DEF CanBeginAction, OwnsStartup, IsSet
        <3>3. Owns(p, r)
            BY <1>0, <3>2 DEF Owns, Owning
        <3>4. QED BY <1>0, <3>1, <3>2, <3>3 DEF RowShape, RowOwned
    <2>5. OpSteps(p, r)
        BY <1>0, <1>1, <2>1, <2>2, <2>3, OpGoesOn
           DEF OpSteps, OpActs, OpPhases, OpSees, Owning, Early
    <2>6. QED BY <2>4, <2>5
<1>2. CASE OpGoto(p, r, "fail") /\ UNCHANGED run
    BY <1>0, <1>2, OpEndsOrFails DEF RowShape, RowKept
<1>3. QED BY <1>1, <1>2 DEF OpBegin

\* applyResource
LEMMA OpApplyShape ==
    ASSUME TypeOK, NEW p \in Procs, NEW r \in Runs, OpApply(p, r)
    PROVE  OpSteps(p, r) /\ RowShape(r)
<1> DEFINE o == op[p][r]
<1>0. o \in OpType /\ o.pc = "act" /\ UNCHANGED run
    BY DEF TypeOK, OpApply, store
<1>1. PICK k \in Kinds : SetOp(p, r, [o EXCEPT !.todo = @ \ {k}]) \/ OpGoto(p, r, "fail")
                         \/ OpGoto(p, r, "sent")
    BY <1>0 DEF OpApply, NextToCreate, OpType
<1>2. CASE OpGoto(p, r, "fail")
    BY <1>0, <1>2, OpEndsOrFails DEF RowShape, RowKept
<1>3. CASE SetOp(p, r, [o EXCEPT !.todo = @ \ {k}]) \/ OpGoto(p, r, "sent")
    <2>1. op'[p][r] = [o EXCEPT !.todo = o.todo \ {k}] \/ op'[p][r] = [o EXCEPT !.pc = "sent"]
        BY <1>3, OpSet DEF OpGoto
    <2>2. /\ op'[p][r].pc \in {"act", "sent"} /\ op'[p][r].tok = o.tok
          /\ op'[p][r].claim = o.claim /\ op'[p][r].left = o.left
        BY <1>0, <2>1 DEF OpType
    <2>3. QED BY <1>0, <2>2, OpGoesOn DEF OpSteps, OpActs, OpPhases, OpSees, Owning, Early,
                                          RowShape, RowKept
<1>4. QED BY <1>1, <1>2, <1>3

\* The action succeeds.
LEMMA OpActionDoneShape ==
    ASSUME TypeOK, NEW p \in Procs, NEW r \in Runs, OpActionDone(p, r)
    PROVE  OpSteps(p, r) /\ RowShape(r)
<1> DEFINE o == op[p][r]
           label == IF o.phase = "open" THEN "record" ELSE "complete"
<1>0. /\ o \in OpType /\ o.pc = "act" /\ UNCHANGED <<run, cluster, lost>> /\ ActionDone(r, o)
      /\ SetOp(p, r, [o EXCEPT !.pc = label, !.inTime = TRUE])
    BY DEF TypeOK, OpActionDone, store, kube
<1>1. op'[p][r] = [o EXCEPT !.pc = label, !.inTime = TRUE]
    BY <1>0, OpSet
<1>2. /\ op'[p][r].pc = label /\ op'[p][r].tok = o.tok /\ op'[p][r].claim = o.claim
      /\ op'[p][r].phase = o.phase /\ op'[p][r].pod = o.pod
    BY <1>0, <1>1 DEF OpType
<1>3. o.phase = "open" => ReadyIdentity(r, o.pod)
    BY <1>0 DEF ActionDone
<1>4. OpShape(p, r) /\ OpReads(p, r)
    BY <1>0, <1>2, OpGoesOn DEF Owning
<1>5. QED BY <1>0, <1>2, <1>3, <1>4
             DEF OpSteps, OpActs, OpPhases, OpSees, Early, RowShape, RowKept

\* The action fails, or has no answer.
LEMMA OpActionEndsShape ==
    ASSUME TypeOK, NEW p \in Procs, NEW r \in Runs, OpActionFails(p, r) \/ OpActionUnknown(p, r)
    PROVE  OpSteps(p, r) /\ RowShape(r)
<1>1. /\ op[p][r].pc \in {"act", "sent"} /\ UNCHANGED run
      /\ OpGoto(p, r, "fail") \/ OpGoto(p, r, "unknown")
    BY DEF OpActionFails, OpActionUnknown, store
<1>2. QED BY <1>1, OpWent, OpEndsOrFails, OpPasses DEF RowShape, RowKept, Owning

\* reconcileUnknown
LEMMA OpReconcileShape ==
    ASSUME TypeOK, NEW p \in Procs, NEW r \in Runs, OpReconcile(p, r) \/ OpReconcileOpen(p, r)
    PROVE  OpSteps(p, r) /\ RowShape(r)
<1> DEFINE o == op[p][r]
           done == [o EXCEPT !.pc = "complete", !.inTime = Open(o.left)]
<1>0. o \in OpType /\ o.pc = "unknown" /\ UNCHANGED run
    BY DEF TypeOK, OpReconcile, OpReconcileOpen, store
<1>1. \/ o.phase # "open" /\ SetOp(p, r, done)
      \/ OpGoto(p, r, "recover") \/ OpGoto(p, r, "fail") \/ OpEnd(p, r)
    BY DEF OpReconcile, OpReconcileOpen
<1>2. CASE OpGoto(p, r, "recover") \/ OpGoto(p, r, "fail") \/ OpEnd(p, r)
    BY <1>0, <1>2, OpWent, OpEndsOrFails, OpPasses DEF RowShape, RowKept, Owning
<1>3. CASE o.phase # "open" /\ SetOp(p, r, done)
    <2>1. op'[p][r] = done
        BY <1>3, OpSet
    <2>2. /\ op'[p][r].pc = "complete" /\ op'[p][r].tok = o.tok
          /\ op'[p][r].claim = o.claim /\ op'[p][r].phase = o.phase
        BY <1>0, <2>1 DEF OpType
    <2>3. QED BY <1>0, <1>3, <2>2, OpGoesOn DEF OpSteps, OpActs, OpPhases, OpSees, Owning,
                                                Early, RowShape, RowKept
<1>4. QED BY <1>1, <1>2, <1>3

\* recoverSandboxStartupExternalAction
LEMMA OpRecoverShape ==
    ASSUME TypeOK, NEW p \in Procs, NEW r \in Runs, OpRecover(p, r)
    PROVE  OpSteps(p, r) /\ RowShape(r)
<1> DEFINE o == op[p][r]
<1>0. o \in OpType /\ run[r] \in RunType /\ o.pc = "recover" /\ OpEnd(p, r)
    BY DEF TypeOK, OpRecover
<1>1. OpSteps(p, r)
    BY <1>0, OpEndsOrFails
<1>2. CASE OwnsAction(run[r], o.tok, o.claim, o.left) /\ SetRun(r, RecoverAction(run[r]))
    <2>1. run'[r] = RecoverAction(run[r])
        BY <1>2 DEF SetRun, TypeOK
    <2>2. /\ run'[r].state = run[r].state /\ run'[r].token = run[r].token
          /\ run'[r].claim = NoClaim /\ run'[r].deadline = Unset
        BY <1>0, <2>1 DEF RecoverAction, RunType
    <2>3. run[r].state = "starting" /\ Owns(p, r)
        BY <1>0, <1>2 DEF OwnsAction, OwnsStartup, Owns, Owning
    <2>4. QED BY <1>0, <1>1, <2>2, <2>3 DEF RowShape, RowOwned
<1>3. CASE UNCHANGED run
    BY <1>1, <1>3 DEF RowShape, RowKept
<1>4. QED BY <1>2, <1>3 DEF OpRecover

\* completeSandboxStartupExternalAction
LEMMA OpCompleteShape ==
    ASSUME TypeOK, Phases, NEW p \in Procs, NEW r \in Runs, OpComplete(p, r)
    PROVE  OpSteps(p, r) /\ RowShape(r)
<1> DEFINE o == op[p][r]
           label == IF o.phase = "apply" THEN "identify" ELSE "record"
<1>0. o \in OpType /\ run[r] \in RunType /\ o.pc = "complete" /\ o.phase # "open"
    BY DEF TypeOK, OpComplete, Phases, Early
<1>1. CASE /\ OwnsAction(run[r], o.tok, o.claim, o.left)
           /\ SetRun(r, CompleteAction(run[r]))
           /\ SetOp(p, r, [o EXCEPT !.left = Unset, !.pc = label])
    <2>1. op'[p][r] = [o EXCEPT !.left = Unset, !.pc = label]
        BY <1>1, OpSet
    <2>2. /\ op'[p][r].pc = label /\ op'[p][r].tok = o.tok
          /\ op'[p][r].claim = o.claim /\ op'[p][r].phase = o.phase
        BY <1>0, <2>1 DEF OpType
    <2>3. OpShape(p, r) /\ OpReads(p, r)
        BY <1>0, <2>2, OpGoesOn DEF Owning
    <2>4. OpSteps(p, r)
        BY <1>0, <2>2, <2>3 DEF OpSteps, OpActs, OpPhases, OpSees, Early
    <2>5. run'[r] = CompleteAction(run[r])
        BY <1>1 DEF SetRun, TypeOK
    <2>6. /\ run'[r].state = run[r].state /\ run'[r].token = run[r].token
          /\ run'[r].claim = run[r].claim /\ run'[r].deadline = Unset
        BY <1>0, <2>5 DEF CompleteAction, RunType
    <2>7. run[r].state = "starting" /\ Owns(p, r)
        BY <1>0, <1>1 DEF OwnsAction, OwnsStartup, Owns, Owning
    <2>8. QED BY <1>0, <2>4, <2>6, <2>7 DEF RowShape, RowOwned
<1>2. CASE OpGoto(p, r, "fail") /\ UNCHANGED run
    BY <1>0, <1>2, OpEndsOrFails DEF RowShape, RowKept
<1>3. QED BY <1>1, <1>2 DEF OpComplete

\* The identity is read after the apply.
LEMMA OpIdentifyShape ==
    ASSUME TypeOK, Phases, NEW p \in Procs, NEW r \in Runs, OpIdentify(p, r)
    PROVE  OpSteps(p, r) /\ RowShape(r)
<1> DEFINE o == op[p][r]
<1>0. o \in OpType /\ o.pc = "identify" /\ UNCHANGED run /\ o.phase # "open"
    BY DEF TypeOK, OpIdentify, store, Phases, Early
<1>1. CASE SetOp(p, r, [o EXCEPT !.pc = "record", !.pod = cluster["Pod"].uid])
    <2>1. op'[p][r] = [o EXCEPT !.pc = "record", !.pod = cluster["Pod"].uid]
        BY <1>1, OpSet
    <2>2. /\ op'[p][r].pc = "record" /\ op'[p][r].tok = o.tok
          /\ op'[p][r].claim = o.claim /\ op'[p][r].phase = o.phase
        BY <1>0, <2>1 DEF OpType
    <2>3. OpShape(p, r) /\ OpReads(p, r)
        BY <1>0, <2>2, OpGoesOn DEF Owning
    <2>4. QED BY <1>0, <2>2, <2>3 DEF OpSteps, OpActs, OpPhases, OpSees, Early, RowShape, RowKept
<1>2. CASE OpGoto(p, r, "fail") \/ OpEnd(p, r)
    BY <1>0, <1>2, OpEndsOrFails DEF RowShape, RowKept
<1>3. QED BY <1>1, <1>2 DEF OpIdentify

\* recordTaskSandboxStartupPod
LEMMA OpRecordShape ==
    ASSUME TypeOK, NEW p \in Procs, NEW r \in Runs, OpRecord(p, r)
    PROVE  OpSteps(p, r) /\ RowShape(r)
<1> DEFINE o == op[p][r]
           next == CASE o.phase = "apply" -> [o EXCEPT !.pc = "begin", !.phase = "ready"]
                     [] o.phase = "ready" -> [o EXCEPT !.pc = "begin", !.phase = "open"]
                     [] OTHER -> [o EXCEPT !.pc = "activate", !.inTime = ~Passed(o.left)]
<1>0. o \in OpType /\ run[r] \in RunType /\ o.pc = "record"
    BY DEF TypeOK, OpRecord
<1>1. CASE /\ CanRecordPod(run[r], o.tok, o.claim, o.pod)
           /\ SetRun(r, RecordPod(run[r], o.pod))
           /\ SetOp(p, r, next)
    <2>1. op'[p][r] = next
        BY <1>1, OpSet
    <2>2. ASSUME o.phase \in {"apply", "ready"} PROVE OpSteps(p, r)
        <3>1. /\ op'[p][r].pc = "begin" /\ op'[p][r].tok = o.tok
              /\ op'[p][r].claim = o.claim
            BY <1>0, <2>1, <2>2 DEF OpType
        <3>2. QED BY <1>0, <3>1, OpPasses DEF Owning
    <2>3. ASSUME o.phase = "open" PROVE OpSteps(p, r)
        <3>1. op'[p][r] = [o EXCEPT !.pc = "activate", !.inTime = ~Passed(o.left)]
            BY <2>1, <2>3
        <3>2. /\ op'[p][r].pc = "activate" /\ op'[p][r].tok = o.tok /\ op'[p][r].claim = o.claim
              /\ op'[p][r].phase = "open" /\ op'[p][r].pod = o.pod
            BY <1>0, <2>3, <3>1 DEF OpType
        <3>3. OpShape(p, r) /\ OpReads(p, r)
            BY <1>0, <3>2, OpGoesOn DEF Owning
        <3>4. QED BY <1>0, <2>3, <3>2, <3>3 DEF OpSteps, OpActs, OpPhases, OpSees, Early
    <2>4. OpSteps(p, r)
        BY <1>0, <2>2, <2>3 DEF OpType
    <2>5. run'[r] = RecordPod(run[r], o.pod)
        BY <1>1 DEF SetRun, TypeOK
    <2>6. /\ run'[r].state = run[r].state /\ run'[r].token = run[r].token
          /\ run'[r].claim = run[r].claim /\ run'[r].deadline = run[r].deadline
          /\ run[r].state = "starting"
        BY <1>0, <1>1, <2>5 DEF RecordPod, RunType, CanRecordPod, OwnsStartup
    <2>7. QED BY <2>4, <2>6 DEF RowShape, RowKept
<1>2. CASE OpGoto(p, r, "fail") /\ UNCHANGED run
    BY <1>0, <1>2, OpEndsOrFails DEF RowShape, RowKept
<1>3. QED BY <1>1, <1>2 DEF OpRecord

\* activateTaskSandboxRun
LEMMA OpActivateShape ==
    ASSUME TypeOK, NEW p \in Procs, NEW r \in Runs, OpActivate(p, r)
    PROVE  OpSteps(p, r) /\ RowShape(r)
<1> DEFINE o == op[p][r]
<1>0. /\ o \in OpType /\ run[r] \in RunType /\ o.pc = "activate"
      /\ OpGoto(p, r, "fail") \/ OpEnd(p, r)
    BY DEF TypeOK, OpActivate
<1>1. OpSteps(p, r)
    BY <1>0, OpEndsOrFails
<1>2. CASE /\ CanActivate(run[r], o.tok, o.claim, o.left, o.inTime, o.pod)
           /\ SetRun(r, Activate(run[r]))
    <2>1. run'[r] = Activate(run[r])
        BY <1>2 DEF SetRun, TypeOK
    <2>2. /\ run'[r].state = "active" /\ run'[r].token = run[r].token + 1
          /\ run'[r].deadline = Unset /\ run'[r].pod = run[r].pod
        BY <1>0, <2>1 DEF Activate, Bump, EndStartup, RunType
    <2>3. run[r].state = "starting" /\ Owns(p, r) /\ run[r].pod = o.pod
        BY <1>0, <1>2 DEF CanActivate, OwnsAction, OwnsStartup, Owns, Owning
    <2>4. QED BY <1>0, <1>1, <2>2, <2>3 DEF RowShape, RowEnds, Unreleased
<1>3. CASE UNCHANGED run
    BY <1>1, <1>3 DEF RowShape, RowKept
<1>4. QED BY <1>2, <1>3 DEF OpActivate

\* Failing a Run ends its startup.
LEMMA FailEnds ==
    ASSUME TypeOK, NEW r \in Runs, Startable(run[r]), SetRun(r, Fail(run[r]))
    PROVE  RowEnds(r)
<1>1. run'[r] = Fail(run[r]) /\ run[r] \in RunType
    BY DEF SetRun, TypeOK
<1>2. run'[r].state = "failed" /\ run'[r].token = run[r].token + 1 /\ run'[r].deadline = Unset
    BY <1>1 DEF Fail, Bump, EndStartup, RunType
<1>3. QED BY <1>2 DEF RowEnds, Startable, Unreleased

\* persistStartingRunFailureOrAdopt
LEMMA OpFailShape ==
    ASSUME TypeOK, NEW p \in Procs, NEW r \in Runs, OpFail(p, r) \/ OpFailing(p, r)
    PROVE  OpSteps(p, r) /\ RowShape(r)
<1> DEFINE o == op[p][r]
           failing == [o EXCEPT !.pc = "failing", !.tok = run[r].token, !.claim = run[r].claim]
<1>0. o \in OpType /\ o.pc \in {"fail", "failing"}
    BY DEF TypeOK, OpFail, OpFailing
<1>1. CASE UNCHANGED run /\ run[r].state = "starting" /\ SetOp(p, r, failing)
    <2>1. op'[p][r] = failing
        BY <1>1, OpSet
    <2>2. op'[p][r].pc = "failing" /\ op'[p][r].tok = run[r].token
        BY <1>0, <2>1 DEF OpType
    <2>3. QED BY <1>1, <2>2 DEF OpSteps, OpShape, OpReads, OpActs, OpPhases, OpSees, Holding,
                                Owning, Early, RowShape, RowKept
<1>2. CASE OpEnd(p, r) /\ UNCHANGED run
    BY <1>0, <1>2, OpEndsOrFails DEF RowShape, RowKept
<1>3. CASE OpEnd(p, r) /\ Startable(run[r]) /\ SetRun(r, Fail(run[r]))
    BY <1>0, <1>3, OpEndsOrFails, FailEnds DEF RowShape
<1>4. QED BY <1>1, <1>2, <1>3 DEF OpFail, OpFailing, CanFail, store

\* A step of an operation touches one operation and one row.
LEMMA OpAlone ==
    ASSUME TypeOK, NEW p \in Procs, NEW r \in Runs, OpStart(p, r) \/ OpStep(p, r)
    PROVE  /\ \A q \in Procs, s \in Runs : q # p \/ s # r => op'[q][s] = op[q][s]
           /\ \A s \in Runs : s # r => run'[s] = run[s]
<1>1. ASSUME NEW row, SetRun(r, row), NEW s \in Runs, s # r PROVE run'[s] = run[s]
    BY <1>1 DEF SetRun, TypeOK
<1>2. \A s \in Runs : s # r => run'[s] = run[s]
    BY <1>1 DEF OpStep, OpStart, OpClaim, OpPrepare, OpConfig, OpObserve, OpBegin, OpApply,
   OpActionDone, OpActionFails, OpActionUnknown, OpReconcile, OpReconcileOpen, OpRecover,
   OpComplete, OpIdentify, OpRecord, OpActivate, OpFail, OpFailing, OpCallFails, store
<1>3. ASSUME NEW o, SetOp(p, r, o), NEW q \in Procs, NEW s \in Runs, q # p \/ s # r
      PROVE  op'[q][s] = op[q][s]
    BY <1>3, OpSet
<1>4. \A q \in Procs, s \in Runs : q # p \/ s # r => op'[q][s] = op[q][s]
    BY <1>3 DEF OpStep, OpStart, OpClaim, OpPrepare, OpConfig, OpObserve, OpBegin, OpApply,
   OpActionDone, OpActionFails, OpActionUnknown, OpReconcile, OpReconcileOpen, OpRecover,
   OpComplete, OpIdentify, OpRecord, OpActivate, OpFail, OpFailing, OpCallFails, store, OpGoto, OpEnd
<1>5. QED BY <1>2, <1>4

\* What is not touched is of these shapes too.
LEMMA OpUntouched ==
    ASSUME Phases, NEW p \in Procs, NEW r \in Runs, op'[p][r] = op[p][r]
    PROVE  OpSteps(p, r)
BY DEF OpSteps, OpShape, OpReads, OpActs, OpPhases, OpSees, Phases, Holding

\* A step that touches no operation and no row.
LEMMA Untouched ==
    ASSUME Phases
    PROVE  /\ UNCHANGED op => OpsStep
           /\ UNCHANGED run => RowsStep
           /\ UNCHANGED reap => HeldStep
<1>1. UNCHANGED op => OpsStep
    BY OpUntouched DEF OpsStep
<1>2. UNCHANGED run => RowsStep
    BY DEF RowsStep, RowShape, RowKept
<1>3. UNCHANGED reap => HeldStep
    BY DEF HeldStep, HeldShape
<1>4. QED BY <1>1, <1>2, <1>3

\* Every step of a startup operation is of these shapes.
LEMMA OpStepShapes ==
    ASSUME TypeOK, Phases, NEW p \in Procs, NEW r \in Runs, OpStart(p, r) \/ OpStep(p, r)
    PROVE  OpsStep /\ RowsStep /\ HeldStep
<1>1. OpSteps(p, r) /\ RowShape(r)
    BY OpStartShape, OpClaimShape, OpPrepareShape, OpConfigShape, OpObserveShape, OpBeginShape,
       OpApplyShape, OpActionDoneShape, OpActionEndsShape, OpReconcileShape, OpRecoverShape,
       OpCompleteShape, OpIdentifyShape, OpRecordShape, OpActivateShape, OpFailShape,
       OpCallFailsShape DEF OpStep
<1>2. ASSUME NEW q \in Procs, NEW s \in Runs PROVE OpSteps(q, s)
    BY <1>1, OpAlone, OpUntouched
<1>3. ASSUME NEW s \in Runs PROVE RowShape(s)
    BY <1>1, OpAlone DEF RowShape, RowKept
<1>4. HeldStep
    BY OpStepKeeps, Untouched
<1>5. QED BY <1>2, <1>3, <1>4 DEF OpsStep, RowsStep

-----------------------------------------------------------------------------
(* So is every step of the reaper.                                         *)

\* The reaper goes on to another label, decided or not, or stops.
LEMMA ReapPasses ==
    ASSUME TypeOK, NEW p \in Procs,
           \/ ReapEnd(p)
           \/ ReapGoto(p, "plan") \/ ReapGoto(p, "reload")
           \/ reap[p].pc \in Late /\ \E label \in ReapLabels : ReapGoto(p, label)
    PROVE  HeldStep
<1>0. reap \in [Procs -> ReapType] /\ reap[p] \in ReapType
    BY DEF TypeOK
<1>1. CASE ReapEnd(p)
    <2>1. reap'[p] = IdleReap /\ \A s \in Procs \ {p} : reap'[s] = reap[s]
        BY <1>0, <1>1 DEF ReapEnd, SetReap
    <2>2. QED BY <2>1 DEF HeldStep, HeldShape, IdleReap
<1>2. ASSUME NEW label, ReapGoto(p, label), reap[p].pc \in Late \/ label \notin Late
      PROVE  HeldStep
    <2>1. /\ reap'[p] = [reap[p] EXCEPT !.pc = label]
          /\ \A s \in Procs \ {p} : reap'[s] = reap[s]
        BY <1>0, <1>2 DEF ReapGoto, SetReap
    <2>2. /\ reap'[p].pc = label
          /\ reap'[p].target = reap[p].target /\ reap'[p].held = reap[p].held
        BY <1>0, <2>1 DEF ReapType
    <2>3. HeldShape(p)
        BY <1>2, <2>2 DEF HeldShape
    <2>4. QED BY <2>1, <2>3 DEF HeldStep, HeldShape
<1>3. QED BY <1>1, <1>2 DEF Late

\* The reaper writes the row it holds back.
LEMMA WriteBackReaps ==
    ASSUME TypeOK, SnapshotFenced, SnapshotLive, HeldSame, NEW p \in Procs, reap[p].target # NoRun,
           CleanupState(reap[p].held) \/ DrainEligible(reap[p].held),
           CanUpdate(run[reap[p].target], reap[p].held),
           SetRun(reap[p].target, ClearCleanup(reap[p].held))
    PROVE  RowsStep
<1> DEFINE t == reap[p].target
           held == reap[p].held
<1>1. t \in Runs /\ held \in RunType /\ run[t] \in RunType
    BY DEF TypeOK, ReapType
<1>2. run[t].token = held.token /\ run[t].state = held.state
    BY DEF CanUpdate, SnapshotFenced
<1>3. run'[t] = ClearCleanup(held) /\ \A s \in Runs : s # t => run'[s] = run[s]
    BY <1>1 DEF SetRun, TypeOK
<1>4. /\ run'[t].token = run[t].token + 1 /\ run'[t].state = run[t].state
      /\ run'[t].claim = held.claim /\ run'[t].deadline = held.deadline
    BY <1>1, <1>2, <1>3 DEF ClearCleanup, Bump, RunType
<1>5. CASE run[t].state = "starting"
    <2>1. Passed(held.deadline)
        BY <1>2, <1>5 DEF CleanupState, DrainEligible
    <2>2. RowReaped(t)
        BY <1>4, <1>5, <2>1 DEF RowReaped
    <2>3. QED BY <1>1, <1>3, <2>2 DEF RowsStep, RowShape, RowKept
<1>6. CASE run[t].state # "starting"
    <2>1. held = run[t]
        BY <1>2, <1>6 DEF HeldSame
    <2>2. RowReaped(t)
        BY <1>2, <1>4, <1>6, <2>1 DEF RowReaped, DrainEligible
    <2>3. QED BY <1>1, <1>3, <2>2 DEF RowsStep, RowShape, RowKept
<1>7. QED BY <1>5, <1>6

\* loadRuns and the second load: what is held is the stored row.
LEMMA ReapLoadShape ==
    ASSUME TypeOK, Phases, NEW p \in Procs, ReapLoad(p) \/ ReapReload(p)
    PROVE  OpsStep /\ RowsStep /\ HeldStep
<1> DEFINE t == CurrentTarget
           doomed == t # NoRun /\ (CleanupState(run[t]) \/ DrainNow(p, t, run[t]))
<1>0. reap[p] \in ReapType /\ UNCHANGED <<run, op>>
    BY DEF TypeOK, ReapLoad, ReapReload, store
<1>1. \A s \in Procs : s # p => reap'[s] = reap[s]
    BY DEF ReapLoad, ReapReload, SetReap, TypeOK
<1>2. ASSUME ReapLoad(p) PROVE HeldShape(p)
    <2>1. PICK d \in Runs \cup {NoRun} :
             reap'[p] = Reading([IdleReap EXCEPT !.target = t, !.held = RowOf(t), !.drain = d],
                                "observe")
        <3>1. t \in Runs \cup {NoRun}
            BY DEF TypeOK, CurrentTarget
        <3>2. QED BY <1>2, <3>1 DEF ReapLoad, SetReap, TypeOK
    <2>2. /\ reap'[p].pc = "observe" /\ reap'[p].target = t /\ reap'[p].held = RowOf(t)
        BY <2>1 DEF Reading, IdleReap
    <2>3. QED BY <1>0, <2>2 DEF HeldShape, RowOf, Late
<1>3. ASSUME ReapReload(p) PROVE HeldShape(p)
    <2>1. reap'[p] = [reap[p] EXCEPT !.pc = "claim", !.target = IF doomed THEN t ELSE NoRun,
                                     !.held = IF doomed THEN run[t] ELSE BlankRun]
        BY <1>3 DEF ReapReload, SetReap, TypeOK
    <2>2. /\ reap'[p].target = IF doomed THEN t ELSE NoRun
          /\ reap'[p].held = IF doomed THEN run[t] ELSE BlankRun
        BY <1>0, <2>1 DEF ReapType
    <2>3. QED BY <1>0, <2>2 DEF HeldShape, DrainNow
<1>4. HeldStep
    BY <1>1, <1>2, <1>3 DEF HeldStep, HeldShape
<1>5. QED BY <1>0, <1>4, Untouched

\* A preparation fails: what is held is the stored row, and nothing is decided.
LEMMA PreparationFailsShape ==
    ASSUME TypeOK, Phases, NEW p \in Procs, PreparationFails(p)
    PROVE  OpsStep /\ RowsStep /\ HeldStep
<1> DEFINE t == CurrentTarget
<1>0. UNCHANGED <<run, op>>
    BY DEF PreparationFails, store
<1>1. /\ reap'[p] = [IdleReap EXCEPT !.pc = "doubt", !.target = t, !.held = run[t]]
      /\ \A s \in Procs : s # p => reap'[s] = reap[s]
    BY DEF PreparationFails, SetReap, TypeOK
<1>2. reap'[p].pc = "doubt" /\ reap'[p].target = t /\ reap'[p].held = run[t]
    BY <1>1 DEF IdleReap
<1>3. HeldShape(p)
    BY <1>0, <1>2 DEF HeldShape, Late
<1>4. HeldStep
    BY <1>1, <1>3 DEF HeldStep, HeldShape
<1>5. QED BY <1>0, <1>4, Untouched

\* Reading and judging what was read.
LEMMA ReapReadShape ==
    ASSUME TypeOK, Phases, NEW p \in Procs,
           ReapLook(p) \/ ReapObserved(p) \/ ReapInspected(p) \/ ReapCallFails(p)
           \/ ReapInventoried(p) \/ ReapAborts(p)
    PROVE  OpsStep /\ RowsStep /\ HeldStep
<1>0. reap \in [Procs -> ReapType] /\ reap[p] \in ReapType /\ UNCHANGED <<run, op>>
    BY DEF TypeOK, ReapLook, ReapObserved, ReapInspected, ReapCallFails, ReapInventoried,
           ReapAborts, store
<1>1. CASE ReapLook(p)
    <2>1. PICK k \in Kinds :
             SetReap(p, [reap[p] EXCEPT !.view[k] = cluster[k], !.todo = @ \ {k}])
        BY <1>0, <1>1 DEF ReapLook, NextToCreate, ReapType
    <2>2. /\ reap'[p] = [reap[p] EXCEPT !.view[k] = cluster[k], !.todo = reap[p].todo \ {k}]
          /\ \A s \in Procs : s # p => reap'[s] = reap[s]
        BY <1>0, <2>1 DEF SetReap
    <2>3. /\ reap'[p].target = reap[p].target /\ reap'[p].held = reap[p].held
          /\ reap'[p].pc = reap[p].pc
        BY <1>0, <2>2 DEF ReapType
    <2>4. HeldStep
        BY <2>2, <2>3 DEF HeldStep, HeldShape
    <2>5. QED BY <1>0, <2>4, Untouched
<1>2. CASE ReapObserved(p) \/ ReapCallFails(p) \/ ReapInventoried(p)
    <2>1. /\ "unclaim" \in ReapLabels /\ "clear" \in ReapLabels /\ "complete" \in ReapLabels
        BY DEF ReapLabels
    <2>2. \/ ReapGoto(p, "plan")
          \/ reap[p].pc \in Late /\ \E label \in ReapLabels : ReapGoto(p, label)
        BY <1>2, <2>1 DEF ReapObserved, ReapCallFails, ReapInventoried, Late
    <2>3. QED BY <1>0, <2>2, ReapPasses, Untouched
<1>3. CASE ReapInspected(p)
    <2>1. reap[p].pc \in Late /\ "unclaim" \in ReapLabels /\ "clear" \in ReapLabels
          /\ "drain" \in ReapLabels
        BY <1>3 DEF ReapInspected, Late, ReapLabels
    <2>2. CASE \E label \in ReapLabels : ReapGoto(p, label)
        BY <1>0, <2>1, <2>2, ReapPasses, Untouched
    <2>3. CASE SetReap(p, Reading(reap[p], "inventory"))
        <3>1. /\ reap'[p] = [reap[p] EXCEPT !.pc = "inventory", !.todo = Kinds]
              /\ \A s \in Procs : s # p => reap'[s] = reap[s]
            BY <1>0, <2>3 DEF SetReap, Reading
        <3>2. reap'[p].target = reap[p].target /\ reap'[p].held = reap[p].held
            BY <1>0, <3>1 DEF ReapType
        <3>3. HeldStep
            BY <2>1, <3>1, <3>2 DEF HeldStep, HeldShape
        <3>4. QED BY <1>0, <3>3, Untouched
    <2>4. QED BY <1>3, <2>1, <2>2, <2>3 DEF ReapInspected
<1>4. CASE ReapAborts(p)
    BY <1>0, <1>4, ReapPasses, Untouched DEF ReapAborts
<1>5. QED BY <1>1, <1>2, <1>3, <1>4

\* persistCleanupObservationFailure and the end of a call: the held row may be
\* written back.
LEMMA ReapUnclaimShape ==
    ASSUME TypeOK, SnapshotFenced, SnapshotLive, HeldDoomed, HeldSame, Phases, NEW p \in Procs,
           ReapObservationFails(p) \/ ReapUnclaim(p)
    PROVE  OpsStep /\ RowsStep /\ HeldStep
<1>0. ReapEnd(p) /\ UNCHANGED op
    BY DEF ReapObservationFails, ReapUnclaim, kube
<1>1. HeldStep /\ OpsStep
    BY <1>0, ReapPasses, Untouched
<1>2. RowsStep
    <2>1. CASE UNCHANGED run
        BY <2>1, Untouched
    <2>2. CASE /\ reap[p].target # NoRun
               /\ CleanupState(reap[p].held) \/ DrainEligible(reap[p].held)
               /\ CanUpdate(run[reap[p].target], reap[p].held)
               /\ SetRun(reap[p].target, ClearCleanup(reap[p].held))
        BY <2>2, WriteBackReaps
    <2>3. CASE ReapUnclaim(p)
        <3>1. reap[p].target # NoRun
            BY <2>3 DEF ReapUnclaim, SnapshotLive, HeldLive
        <3>2. CleanupState(reap[p].held) \/ DrainEligible(reap[p].held)
            BY <2>3, <3>1 DEF ReapUnclaim, HeldDoomed, Late
        <3>3. QED BY <2>1, <2>2, <2>3, <3>1, <3>2 DEF ReapUnclaim
    <2>4. QED BY <2>1, <2>2, <2>3 DEF ReapObservationFails
<1>3. QED BY <1>1, <1>2

\* A preparation, the first plan and the drain fail the Run.
LEMMA ReapFailsShape ==
    ASSUME TypeOK, SnapshotLive, Phases, NEW p \in Procs,
           FailUnprepared(p) \/ ReapPlan(p) \/ ReapDrain(p)
    PROVE  OpsStep /\ RowsStep /\ HeldStep
<1> DEFINE t == reap[p].target
<1>0. UNCHANGED op /\ (UNCHANGED run \/ (t # NoRun /\ Startable(run[t]) /\ SetRun(t, Fail(run[t]))))
    <2>1. FailUnprepared(p) \/ ReapDrain(p) => t # NoRun
        BY DEF FailUnprepared, ReapDrain, SnapshotLive, HeldLive
    <2>2. CanDrain(run[t], reap[p].held) => Startable(run[t])
        BY DEF CanDrain, OwnsAction, OwnsStartup, Startable
    <2>3. QED BY <2>1, <2>2 DEF FailUnprepared, CanFail, ReapPlan, ReapDrain, kube
<1>1. RowsStep
    <2>1. CASE t # NoRun /\ Startable(run[t]) /\ SetRun(t, Fail(run[t]))
        <3>1. t \in Runs /\ \A s \in Runs : s # t => run'[s] = run[s]
            BY <2>1 DEF TypeOK, ReapType, SetRun
        <3>2. RowEnds(t)
            BY <2>1, <3>1, FailEnds
        <3>3. QED BY <3>1, <3>2 DEF RowsStep, RowShape, RowKept
    <2>2. QED BY <1>0, <2>1, Untouched
<1>2. HeldStep
    <2>1. \/ ReapEnd(p) \/ ReapGoto(p, "reload")
          \/ reap[p].pc \in Late /\ "unclaim" \in ReapLabels /\ ReapGoto(p, "unclaim")
        BY DEF FailUnprepared, ReapPlan, ReapDrain, Late, ReapLabels
    <2>2. QED BY <2>1, ReapPasses
<1>3. QED BY <1>0, <1>1, <1>2, Untouched

\* completeSandboxRunRelease
LEMMA ReapCompleteShape ==
    ASSUME TypeOK, SnapshotLive, Phases, NEW p \in Procs, ReapComplete(p)
    PROVE  OpsStep /\ RowsStep /\ HeldStep
<1> DEFINE t == reap[p].target
           held == reap[p].held
<1>0. /\ UNCHANGED op /\ t \in Runs /\ held \in RunType /\ run[t] \in RunType
    BY DEF ReapComplete, SnapshotLive, HeldLive, TypeOK, ReapType, kube
<1>1. HeldStep
    <2>1. \/ ReapEnd(p)
          \/ reap[p].pc \in Late /\ "unclaim" \in ReapLabels /\ ReapGoto(p, "unclaim")
        BY DEF ReapComplete, Late, ReapLabels
    <2>2. QED BY <2>1, ReapPasses
<1>2. CASE UNCHANGED run
    BY <1>0, <1>1, <1>2, Untouched
<1>3. CASE CanCompleteRelease(run[t], held) /\ SetRun(t, CompleteRelease(held))
    <2>1. run'[t] = CompleteRelease(held) /\ \A s \in Runs : s # t => run'[s] = run[s]
        BY <1>0, <1>3 DEF SetRun, TypeOK
    <2>2. /\ run'[t].state = "released" /\ run'[t].token = run[t].token + 1
          /\ run'[t].deadline = Unset /\ Unreleased(run[t])
        BY <1>0, <1>3, <2>1 DEF CanCompleteRelease, CompleteRelease, Bump, EndStartup, RunType
    <2>3. RowEnds(t)
        BY <2>2 DEF RowEnds
    <2>4. RowsStep
        BY <2>1, <2>3 DEF RowsStep, RowShape, RowKept
    <2>5. QED BY <1>0, <1>1, <2>4, Untouched
<1>4. QED BY <1>2, <1>3 DEF ReapComplete

\* A deletion takes from what is still to be deleted.
LEMMA ReapDeletes ==
    ASSUME TypeOK, NEW p \in Procs, ReapDelete(p)
    PROVE  \E todo \in SUBSET Kinds, broken \in SUBSET Kinds :
             SetReap(p, AfterDeletes([reap[p] EXCEPT !.todo = todo, !.broken = broken]))
<1>0. reap[p] \in ReapType
    BY DEF TypeOK
<1>1. reap[p].todo \subseteq Kinds /\ reap[p].broken \subseteq Kinds
    BY <1>0 DEF ReapType
<1>2. PICK k \in NextToDelete(reap[p]), given \in SUBSET Kinds :
         \/ SetReap(p, AfterDeletes([reap[p] EXCEPT !.todo = reap[p].todo \ {k}]))
         \/ SetReap(p, AfterDeletes([reap[p] EXCEPT !.todo = reap[p].todo \ given,
                                                    !.broken = reap[p].broken \cup {k}]))
    <2> DEFINE given(k) == {j \in reap[p].todo : reap[p].view[j].run = reap[p].view[k].run}
    <2>1. \A k : given(k) \in SUBSET Kinds BY <1>1
    <2>2. QED BY <2>1 DEF ReapDelete
<1>3. k \in Kinds
    BY <1>1 DEF NextToDelete
<1>4. [reap[p] EXCEPT !.todo = reap[p].todo \ {k}]
          = [reap[p] EXCEPT !.todo = reap[p].todo \ {k}, !.broken = reap[p].broken]
    BY <1>0 DEF ReapType
<1>5. QED BY <1>1, <1>2, <1>3, <1>4

\* A deletion writes no row.
LEMMA ReapDeleteShape ==
    ASSUME TypeOK, Phases, NEW p \in Procs, ReapDelete(p)
    PROVE  OpsStep /\ RowsStep /\ HeldStep
<1>0. reap[p] \in ReapType /\ reap[p].pc = "delete" /\ UNCHANGED <<run, op>>
    BY DEF TypeOK, ReapDelete, store
<1>1. PICK todo \in SUBSET Kinds, broken \in SUBSET Kinds :
        SetReap(p, AfterDeletes([reap[p] EXCEPT !.todo = todo, !.broken = broken]))
    BY ReapDeletes
<1> DEFINE q == [reap[p] EXCEPT !.todo = todo, !.broken = broken]
<1>2. q \in ReapType /\ q.pc = "delete" /\ q.target = reap[p].target /\ q.held = reap[p].held
    BY <1>0 DEF ReapType
<1> HIDE DEF q
<1>3. reap'[p] = AfterDeletes(q) /\ \A s \in Procs : s # p => reap'[s] = reap[s]
    BY <1>1 DEF SetReap, TypeOK, q
<1>4. HeldShape(p)
    BY <1>0, <1>2, <1>3, AfterDeletesType DEF HeldShape, Late
<1>5. HeldStep
    BY <1>3, <1>4 DEF HeldStep, HeldShape
<1>6. QED BY <1>0, <1>5, Untouched

\* claimForCleanup takes a row that ends or is past its deadline.
LEMMA ClaimReaps ==
    ASSUME TypeOK, NEW t \in Runs, NEW token, CanClaimCleanup(run[t], token),
           SetRun(t, ClaimCleanup(run[t]))
    PROVE  /\ run'[t] = ClaimCleanup(run[t])
           /\ run'[t].token = run[t].token + 1 /\ run'[t].state = run[t].state
           /\ run'[t].claim = run[t].claim /\ run'[t].deadline = run[t].deadline
           /\ CleanupState(run'[t]) \/ DrainEligible(run'[t])
           /\ RowsStep
<1>0. run[t] \in RunType
    BY DEF TypeOK
<1>1. run'[t] = ClaimCleanup(run[t]) /\ \A s \in Runs : s # t => run'[s] = run[s]
    BY DEF SetRun, TypeOK
<1>2. /\ run'[t].token = run[t].token + 1 /\ run'[t].state = run[t].state
      /\ run'[t].claim = run[t].claim /\ run'[t].deadline = run[t].deadline
    BY <1>0, <1>1 DEF ClaimCleanup, Bump, RunType
<1>3. CleanupState(run[t]) \/ DrainEligible(run[t])
    BY DEF CanClaimCleanup
<1>4. RowReaped(t)
    BY <1>2, <1>3 DEF RowReaped, CleanupState, DrainEligible
<1>5. CleanupState(run'[t]) \/ DrainEligible(run'[t])
    BY <1>2, <1>3 DEF CleanupState, DrainEligible
<1>6. QED BY <1>1, <1>2, <1>4, <1>5 DEF RowsStep, RowShape, RowKept

\* claimRunsBeforeDestructiveCleanup: a rejected Run is no longer held, a
\* claimed one is held as it was claimed.
LEMMA ReapClaimShape ==
    ASSUME TypeOK, SnapshotFenced, SnapshotLive, HeldDoomed, HeldSame, Phases, NEW p \in Procs,
           ReapClaim(p)
    PROVE  OpsStep /\ RowsStep /\ HeldStep
<1> DEFINE t == reap[p].target
           own == {k \in Kinds : reap[p].view[k].run = t /\ ~reap[p].view[k].terminating}
           first == [reap[p] EXCEPT !.pc = "delete", !.target = NoRun, !.held = BlankRun,
                                    !.todo = Orphans(reap[p])]
           second == [reap[p] EXCEPT !.pc = "delete", !.held = ClaimCleanup(run[t]),
                                     !.todo = own \cup Orphans(reap[p])]
<1>0. /\ reap[p] \in ReapType /\ reap[p].pc = "claim" /\ UNCHANGED op /\ "delete" \in ReapLabels
      /\ t \in Runs \cup {NoRun}
    BY DEF TypeOK, ReapClaim, kube, ReapLabels, ReapType
<1>1. Orphans(reap[p]) \in SUBSET Kinds /\ own \cup Orphans(reap[p]) \in SUBSET Kinds
    BY DEF Orphans
<1>2. CASE /\ \/ UNCHANGED run
              \/ /\ t # NoRun /\ CanUpdate(run[t], reap[p].held)
                 /\ SetRun(t, ClearCleanup(reap[p].held))
           /\ SetReap(p, AfterDeletes(first))
    <2>1. first \in ReapType /\ first.pc = "delete" /\ first.target = NoRun
        BY <1>0, <1>1, NewRowType DEF ReapType
    <2>2. AfterDeletes(first).target = NoRun
        BY <2>1, AfterDeletesType
    <2> HIDE DEF first
    <2>3. reap'[p].target = NoRun /\ \A s \in Procs : s # p => reap'[s] = reap[s]
        BY <1>2, <2>2 DEF SetReap, TypeOK
    <2>4. HeldStep
        BY <2>3 DEF HeldStep, HeldShape
    <2>5. RowsStep
        <3>1. CASE UNCHANGED run
            BY <3>1, Untouched
        <3>2. t # NoRun => CleanupState(reap[p].held) \/ DrainEligible(reap[p].held)
            BY <1>0 DEF HeldDoomed, Late
        <3>3. QED BY <1>2, <3>1, <3>2, WriteBackReaps
    <2>6. QED BY <1>0, <2>4, <2>5, Untouched
<1>3. CASE /\ t # NoRun /\ CanClaimCleanup(run[t], reap[p].held.token)
           /\ SetRun(t, ClaimCleanup(run[t]))
           /\ SetReap(p, AfterDeletes(second))
           /\ HasRoom(run[t])
    <2>1. /\ run'[t] = ClaimCleanup(run[t])
          /\ CleanupState(run'[t]) \/ DrainEligible(run'[t])
          /\ RowsStep
        BY <1>0, <1>3, ClaimReaps
    <2>2. ClaimCleanup(run[t]) \in RunType
        <3>1. run[t] \in RunType /\ Unreleased(run[t])
            BY <1>0, <1>3 DEF TypeOK, CanClaimCleanup, CleanupState, DrainEligible, Unreleased
        <3>2. QED BY <1>3, <3>1, FencedRowType
    <2>3. /\ second \in ReapType /\ second.pc = "delete"
          /\ second.target = t /\ second.held = ClaimCleanup(run[t])
        BY <1>0, <1>1, <2>2 DEF ReapType
    <2> HIDE DEF second
    <2>4. \/ AfterDeletes(second).target = NoRun
          \/ AfterDeletes(second).target = t /\ AfterDeletes(second).held = ClaimCleanup(run[t])
        BY <2>3, AfterDeletesType
    <2>5. reap'[p] = AfterDeletes(second) /\ \A s \in Procs : s # p => reap'[s] = reap[s]
        BY <1>3 DEF SetReap, TypeOK
    <2>6. HeldShape(p)
        BY <2>1, <2>4, <2>5 DEF HeldShape
    <2>7. HeldStep
        BY <2>5, <2>6 DEF HeldStep, HeldShape
    <2>8. QED BY <1>0, <2>1, <2>7, Untouched
<1>4. QED BY <1>2, <1>3 DEF ReapClaim

\* Every step of the reaper is of these shapes.
LEMMA ReapStepShapes ==
    ASSUME TypeOK, SnapshotFenced, SnapshotLive, HeldDoomed, HeldSame, Phases, NEW p \in Procs,
           ReapStep(p)
    PROVE  OpsStep /\ RowsStep /\ HeldStep
BY ReapLoadShape, ReapReadShape, ReapUnclaimShape, ReapFailsShape, ReapCompleteShape,
   ReapDeleteShape, ReapClaimShape DEF ReapStep

-----------------------------------------------------------------------------
(* And every other step, but for the clock.                                *)

\* Admission, preparation and the user's requests.
LEMMA RequestShapes ==
    ASSUME IInv, Phases, NEW r \in Runs,
           \/ Prepared(r) \/ RunFails(r) \/ RequestTaskSandboxRelease(r)
           \/ \E isReady \in BOOLEAN : Admit(isReady) /\ r = current + 1
    PROVE  OpsStep /\ RowsStep /\ HeldStep
<1>0. run[r] \in RunType /\ TypeOK /\ UNCHANGED <<op, reap>>
    BY DEF IInv, TypeOK, Prepared, RunFails, RequestTaskSandboxRelease, Admit
<1>1. \A s \in Runs : s # r => run'[s] = run[s]
    BY DEF IInv, TypeOK, Prepared, RunFails, RequestTaskSandboxRelease, Admit, SetRun
<1>2. CASE Prepared(r)
    <2>1. run'[r] = MarkReady(run[r]) /\ run[r].state = "starting"
        BY <1>0, <1>2 DEF Prepared, SetRun, TypeOK, CanMarkReady
    <2>2. RowKept(r)
        BY <1>0, <2>1 DEF MarkReady, RunType, RowKept
    <2>3. QED BY <1>0, <1>1, <2>2, Untouched DEF RowsStep, RowShape, RowKept
<1>3. CASE RunFails(r)
    <2>1. RowEnds(r)
        BY <1>0, <1>3, FailEnds DEF RunFails, Startable
    <2>2. QED BY <1>0, <1>1, <2>1, Untouched DEF RowsStep, RowShape, RowKept
<1>4. CASE RequestTaskSandboxRelease(r)
    <2>1. run'[r] = RequestRelease(run[r]) /\ Unreleased(run[r])
        BY <1>0, <1>4 DEF RequestTaskSandboxRelease, SetRun, TypeOK, CanRequestRelease
    <2>2. /\ run'[r].state = "release_requested" /\ run'[r].token = run[r].token + 1
          /\ \/ run'[r].deadline = Unset
             \/ run'[r].deadline = run[r].deadline /\ run'[r].claim = run[r].claim
        BY <1>0, <2>1 DEF RequestRelease, Bump, EndStartup, RunType
    <2>3. RowEnds(r)
        BY <2>1, <2>2 DEF RowEnds
    <2>4. QED BY <1>0, <1>1, <2>3, Untouched DEF RowsStep, RowShape, RowKept
<1>5. CASE \E isReady \in BOOLEAN : Admit(isReady) /\ r = current + 1
    <2>1. PICK isReady \in BOOLEAN : Admit(isReady) /\ r = current + 1
        BY <1>5
    <2>2. run'[r] = AdmittedRun(isReady)
        BY <1>0, <2>1 DEF Admit, SetRun, TypeOK
    <2>3. run[r].state = "unborn"
        BY <2>1, LifecycleConstants DEF IInv, OneUnreleasedRun, TypeOK, Runs, NoRun,
                                        LifecycleConstants
    <2>4. RowAdmitted(r)
        BY <2>2, <2>3 DEF RowAdmitted
    <2>5. QED BY <1>0, <1>1, <2>4, Untouched DEF RowsStep, RowShape, RowKept
<1>6. QED BY <1>2, <1>3, <1>4, <1>5

\* A request is served.
LEMMA LandShapes ==
    ASSUME TypeOK, Phases, NEW e \in inflight, Land(e)
    PROVE  OpsStep /\ RowsStep /\ HeldStep
<1>0. UNCHANGED <<run, reap>> /\ e.run \in Runs
    BY DEF Land, store, TypeOK, CreateType
<1>1. ASSUME NEW p \in Procs, NEW r \in Runs PROVE OpSteps(p, r)
    <2>1. op[p] \in [Runs -> OpType] /\ op[p][r] \in OpType /\ op[p][e.run] \in OpType
        BY <1>0 DEF TypeOK
    <2>2. CASE ~Waiting(p, e) \/ r # e.run
        <3>1. op'[p][r] = op[p][r]
            BY <1>0, <2>1, <2>2 DEF Land
        <3>2. QED BY <3>1, OpUntouched
    <2>3. CASE Waiting(p, e) /\ r = e.run
        <3>1. op[p][r].pc = "sent"
            BY <2>3 DEF Waiting
        <3>2. /\ op'[p][r].pc \in {"act", "fail"} /\ op'[p][r].tok = op[p][r].tok
              /\ op'[p][r].claim = op[p][r].claim /\ op'[p][r].left = op[p][r].left
            <4>1. \/ op'[p] = [op[p] EXCEPT ![r].pc = "act", ![r].todo = @ \ {e.kind}]
                  \/ op'[p] = [op[p] EXCEPT ![r].pc = "fail"]
                BY <2>3 DEF Land
            <4>2. CASE op'[p] = [op[p] EXCEPT ![r].pc = "act", ![r].todo = @ \ {e.kind}]
                <5>1. op'[p][r] = [op[p][r] EXCEPT !.pc = "act", !.todo = @ \ {e.kind}]
                    BY <2>1, <4>2
                <5>2. QED BY <2>1, <5>1 DEF OpType
            <4>3. CASE op'[p] = [op[p] EXCEPT ![r].pc = "fail"]
                <5>1. op'[p][r] = [op[p][r] EXCEPT !.pc = "fail"]
                    BY <2>1, <4>3
                <5>2. QED BY <2>1, <5>1 DEF OpType
            <4>4. QED BY <4>1, <4>2, <4>3
        <3>3. QED BY <3>1, <3>2 DEF OpSteps, OpShape, OpReads, OpActs, OpPhases, OpSees,
                                    Holding, Owning, Early
    <2>4. QED BY <2>2, <2>3
<1>2. QED BY <1>0, <1>1, Untouched DEF OpsStep

\* A process crashes.
LEMMA CrashShapes ==
    ASSUME TypeOK, Phases, NEW p \in Procs, Crash(p)
    PROVE  OpsStep /\ RowsStep /\ HeldStep
<1>0. /\ UNCHANGED run
      /\ \A r \in Runs : op'[p][r] = IdleOp
      /\ \A q \in Procs : q # p => op'[q] = op[q] /\ reap'[q] = reap[q]
      /\ reap'[p] = IdleReap
    BY DEF Crash, TypeOK, store
<1>1. ASSUME NEW q \in Procs, NEW r \in Runs PROVE OpSteps(q, r)
    <2>1. CASE q = p
        <3>1. op'[q][r].pc = "idle"
            BY <1>0, <2>1 DEF IdleOp
        <3>2. QED BY <3>1 DEF OpSteps, OpShape, OpReads, OpActs, OpPhases, OpSees, Holding,
                              Owning, Early
    <2>2. CASE q # p
        BY <1>0, <2>2, OpUntouched
    <2>3. QED BY <2>1, <2>2
<1>2. HeldStep
    BY <1>0 DEF HeldStep, HeldShape, IdleReap
<1>3. QED BY <1>0, <1>1, <1>2, Untouched DEF OpsStep

\* Every step that is not a tick of the clock is of these shapes.
LEMMA StepShapes ==
    ASSUME IInv, HeldDoomed, HeldSame, Phases, [Next]_vars, ~Tick
    PROVE  OpsStep /\ RowsStep /\ HeldStep
<1>0. TypeOK /\ SnapshotFenced /\ SnapshotLive
    BY DEF IInv
<1>1. CASE \E isReady \in BOOLEAN : Admit(isReady)
    <2>1. current + 1 \in Runs
        BY <1>0, <1>1, LifecycleConstants DEF Admit, TypeOK, Runs, NoRun, LifecycleConstants
    <2>2. QED BY <1>1, <2>1, RequestShapes
<1>2. CASE \E r \in Runs : Prepared(r) \/ RunFails(r) \/ RequestTaskSandboxRelease(r)
    BY <1>2, RequestShapes
<1>3. CASE \E p \in Procs, r \in Runs : OpStart(p, r) \/ OpStep(p, r)
    BY <1>0, <1>3, OpStepShapes
<1>4. CASE \E p \in Reapers : PreparationFails(p) \/ ReapStep(p)
    BY <1>0, <1>4, PreparationFailsShape, ReapStepShapes, LifecycleConstants
       DEF LifecycleConstants
<1>5. CASE PodReady \/ PodFails \/ PodLost \/ (\E k \in Kinds : Terminated(k)) \/ UNCHANGED vars
    <2>1. UNCHANGED <<run, op, reap>>
        BY <1>5 DEF PodReady, PodFails, PodLost, Terminated, vars, store
    <2>2. QED BY <2>1, Untouched
<1>6. CASE (\E e \in inflight : Land(e)) \/ (\E p \in Procs : Crash(p))
    BY <1>0, <1>6, LandShapes, CrashShapes
<1>7. QED BY <1>1, <1>2, <1>3, <1>4, <1>5, <1>6 DEF Next, Environment

-----------------------------------------------------------------------------
(* These shapes keep the invariant.                                        *)

\* What every step but a tick does, from a state of the invariant to another.
Stepped == IInv /\ Ownership /\ IInv' /\ OpsStep /\ RowsStep /\ HeldStep

\* The values the fences and deadlines take.
LEMMA RowValues ==
    ASSUME IInv, NEW r \in Runs
    PROVE  /\ run[r].token \in Nat /\ run[r].deadline \in Int
           /\ run[r].state = "unborn" => run[r].token = 0
BY RunConstants DEF IInv, TypeOK, RunType, RunConstants, Timer, UnbornBlank

\* The fence of an operation and that of a held row are numbers.
LEMMA LocalValues ==
    ASSUME IInv, NEW p \in Procs, NEW r \in Runs
    PROVE  op[p][r].tok \in Nat /\ op[p][r].left \in Int /\ reap[p].held.token \in Nat
BY RunConstants DEF IInv, TypeOK, OpType, ReapType, RunType, RunConstants, Timer

\* The fence never goes back, and a Run that exists goes on existing.
LEMMA RowGrows ==
    ASSUME Stepped, NEW r \in Runs
    PROVE  /\ run[r].token <= run'[r].token
           /\ run[r].state # "unborn" => run'[r].state # "unborn"
           /\ run'[r].state = "starting" => run[r].state \in {"unborn", "starting"}
           /\ run'[r].token = run[r].token /\ run'[r].state # "starting" => run'[r] = run[r]
<1>1. run[r].token \in Nat /\ run'[r].token \in Nat /\ (run[r].state = "unborn" => run[r].token = 0)
    BY RowValues DEF Stepped, IInv, TypeOK, RunType
<1>2. CASE RowAdmitted(r)
    <2>1. run'[r].token = 1 /\ run'[r].state = "starting"
        BY <1>2 DEF RowAdmitted, AdmittedRun, BlankRun
    <2>2. QED BY <1>1, <1>2, <2>1 DEF RowAdmitted
<1>3. CASE RowKept(r) \/ RowClaimed(r) \/ RowOwned(r) \/ RowEnds(r) \/ RowReaped(r)
    BY <1>1, <1>3 DEF RowKept, RowClaimed, RowOwned, RowEnds, RowReaped, Unreleased
<1>4. QED BY <1>2, <1>3 DEF Stepped, RowsStep, RowShape

\* An operation knows no fence newer than the one its row had.
LEMMA OpTokens ==
    ASSUME Stepped, NEW p \in Procs, NEW r \in Runs, op'[p][r].pc # "idle"
    PROVE  run[r].state # "unborn" /\ op'[p][r].tok <= run[r].token
<1>1. OpReads(p, r) /\ run[r].token \in Nat
    BY RowValues DEF Stepped, OpsStep, OpSteps
<1>2. QED BY <1>1 DEF OpReads, Stepped, Ownership, OpBehind

\* OpBehind is kept.
LEMMA OpBehindKept ==
    ASSUME Stepped
    PROVE  OpBehind'
<1>1. ASSUME NEW p \in Procs, NEW r \in Runs, op'[p][r].pc # "idle"
      PROVE  run'[r].state # "unborn" /\ op'[p][r].tok <= run'[r].token
    <2>1. /\ run[r].token \in Nat /\ run'[r].token \in Nat /\ op'[p][r].tok \in Nat
        BY RunConstants DEF Stepped, IInv, TypeOK, RunType, OpType, RunConstants
    <2>2. QED BY <1>1, <2>1, OpTokens, RowGrows
<1>2. QED BY <1>1 DEF OpBehind

\* ClaimsUnique is kept: a claim that is new is nobody's.
LEMMA ClaimsUniqueKept ==
    ASSUME Stepped
    PROVE  ClaimsUnique'
<1>1. ASSUME NEW p \in Procs, NEW r \in Runs, op'[p][r].pc \in Holding
      PROVE  \/ op[p][r].pc \in Holding /\ op'[p][r].claim = op[p][r].claim
             \/ /\ op[p][r].pc = "claim" /\ IsFresh(op'[p][r].claim)
                /\ \A q \in Procs : q # p => op'[q][r] = op[q][r]
    <2>1. OpShape(p, r)
        BY DEF Stepped, OpsStep, OpSteps
    <2>2. QED BY <1>1, <2>1 DEF OpShape, Holding
<1>2. ASSUME NEW p \in Procs, NEW r \in Runs, op'[p][r].pc \in Holding
      PROVE  op'[p][r].claim \in Claims
    <2>1. op[p][r].pc \in Holding => op[p][r].claim \in Claims
        BY DEF Stepped, Ownership, ClaimsUnique
    <2>2. QED BY <1>1, <1>2, <2>1 DEF IsFresh
<1>3. ASSUME NEW p \in Procs, NEW q \in Procs, NEW r \in Runs,
             op'[p][r].pc \in Holding, op'[q][r].pc \in Holding,
             op'[q][r].claim = op'[p][r].claim
      PROVE  p = q
    <2>1. CASE /\ op[p][r].pc \in Holding /\ op'[p][r].claim = op[p][r].claim
               /\ op[q][r].pc \in Holding /\ op'[q][r].claim = op[q][r].claim
        BY <1>3, <2>1 DEF Stepped, Ownership, ClaimsUnique
    <2>2. ASSUME NEW s \in Procs, NEW u \in Procs, IsFresh(op'[s][r].claim),
                 \A v \in Procs : v # s => op'[v][r] = op[v][r],
                 op'[u][r].claim = op'[s][r].claim
          PROVE  s = u
        BY <2>2 DEF IsFresh
    <2>3. QED BY <1>1, <1>3, <2>1, <2>2
<1>4. QED BY <1>2, <1>3 DEF ClaimsUnique

\* PrepareFree is kept: only the operation that owns a row sets its deadline.
LEMMA PrepareFreeKept ==
    ASSUME Stepped
    PROVE  PrepareFree'
<1>1. ASSUME NEW p \in Procs, NEW r \in Runs, op'[p][r].pc = "prepare"
      PROVE  /\ run'[r].claim = op'[p][r].claim => run'[r].deadline = Unset
             /\ \A q \in Procs : reap'[q].target = r /\ reap'[q].held.claim = op'[p][r].claim
                                    => reap'[q].held.deadline = Unset
    <2>1. \/ op[p][r].pc = "prepare" /\ op'[p][r].claim = op[p][r].claim
          \/ IsFresh(op'[p][r].claim) /\ run'[r].deadline = Unset /\ UNCHANGED reap
        BY <1>1 DEF Stepped, OpsStep, OpSteps, OpShape, Holding, Owning
    <2>2. CASE IsFresh(op'[p][r].claim) /\ run'[r].deadline = Unset /\ UNCHANGED reap
        BY <2>2 DEF IsFresh
    <2>3. CASE op[p][r].pc = "prepare" /\ op'[p][r].claim = op[p][r].claim
        <3>1. /\ run[r].claim = op[p][r].claim => run[r].deadline = Unset
              /\ \A q \in Procs : reap[q].target = r /\ reap[q].held.claim = op[p][r].claim
                                    => reap[q].held.deadline = Unset
            BY <2>3 DEF Stepped, Ownership, PrepareFree
        <3>2. ASSUME run'[r].claim = op[p][r].claim PROVE run'[r].deadline = Unset
            <4>1. CASE RowKept(r) \/ RowClaimed(r) \/ RowEnds(r) \/ RowReaped(r)
                BY <3>1, <3>2, <4>1 DEF RowKept, RowClaimed, RowEnds, RowReaped
            <4>2. CASE RowAdmitted(r)
                BY <4>2 DEF RowAdmitted, AdmittedRun, BlankRun
            <4>3. CASE RowOwned(r)
                <5>1. PICK q \in Procs :
                    /\ Owns(q, r)
                    /\ \/ op[q][r].pc = "begin" /\ run'[r].claim = run[r].claim
                       \/ op[q][r].pc \in {"complete", "recover"} /\ run'[r].deadline = Unset
                    BY <4>3 DEF RowOwned
                <5>2. CASE op[q][r].pc = "begin" /\ run'[r].claim = run[r].claim
                    <6>1. op[q][r].claim = op[p][r].claim /\ op[q][r].pc \in Holding
                        BY <3>2, <5>1, <5>2 DEF Owns, Holding
                    <6>2. op[p][r].pc \in Holding
                        BY <2>3 DEF Holding
                    <6>3. p = q
                        BY <6>1, <6>2 DEF Stepped, Ownership, ClaimsUnique
                    <6>4. QED BY <2>3, <5>2, <6>3
                <5>3. QED BY <5>1, <5>2
            <4>4. QED BY <4>1, <4>2, <4>3 DEF Stepped, RowsStep, RowShape
        <3>3. ASSUME NEW q \in Procs, reap'[q].target = r, reap'[q].held.claim = op[p][r].claim
              PROVE  reap'[q].held.deadline = Unset
            <4>1. HeldShape(q) /\ reap'[q].target # NoRun
                BY <3>3 DEF Stepped, HeldStep, Runs, NoRun
            <4>2. QED BY <3>1, <3>2, <3>3, <4>1 DEF HeldShape
        <3>4. QED BY <2>3, <3>2, <3>3
    <2>4. QED BY <2>1, <2>2, <2>3
<1>2. QED BY <1>1 DEF PrepareFree

\* HeldDoomed and HeldSame are kept.
LEMMA HeldInvKept ==
    ASSUME Stepped
    PROVE  HeldDoomed' /\ HeldSame'
<1>1. HeldDoomed'
    BY DEF Stepped, HeldStep, HeldShape, Ownership, HeldDoomed
<1>2. ASSUME NEW p \in Procs, reap'[p].target # NoRun,
             reap'[p].held.token = run'[reap'[p].target].token,
             run'[reap'[p].target].state # "starting"
      PROVE  reap'[p].held = run'[reap'[p].target]
    <2> DEFINE t == reap'[p].target
    <2>1. t \in Runs
        BY <1>2 DEF Stepped, IInv, TypeOK, ReapType
    <2>2. CASE t = reap[p].target /\ reap'[p].held = reap[p].held
        <3>1. /\ run[t].token \in Nat /\ run'[t].token \in Nat /\ reap[p].held.token \in Nat
            BY <2>1, RowValues, LocalValues DEF Stepped, IInv, TypeOK, RunType
        <3>2. reap[p].held.token <= run[t].token /\ run[t].token <= run'[t].token
            BY <1>2, <2>1, <2>2, RowGrows DEF Stepped, IInv, SnapshotFenced
        <3>3. run'[t].token = run[t].token
            BY <1>2, <2>2, <3>1, <3>2
        <3>4. run'[t] = run[t]
            BY <1>2, <2>1, <3>3, RowGrows
        <3>5. reap[p].held = run[t]
            BY <1>2, <2>2, <3>3, <3>4 DEF Stepped, Ownership, HeldSame
        <3>6. QED BY <2>2, <3>4, <3>5
    <2>3. QED BY <1>2, <2>2 DEF Stepped, HeldStep, HeldShape
<1>3. QED BY <1>1, <1>2 DEF HeldSame

\* A claim of the reaper leaves no operation with claim and fence.
LEMMA ReapedHasNoOwner ==
    ASSUME Stepped, NEW r \in Runs, run'[r].token = run[r].token + 1
    PROVE  NoOwner(r)'
<1>1. ASSUME NEW p \in Procs, op'[p][r].pc \in Owning
      PROVE  op'[p][r].tok < run'[r].token
    <2>1. op'[p][r].tok \in Nat /\ run[r].token \in Nat
        BY RunConstants DEF Stepped, IInv, TypeOK, RunType, OpType, RunConstants
    <2>2. op'[p][r].pc # "idle"
        BY <1>1 DEF Owning
    <2>3. QED BY <2>1, <2>2, OpTokens
<1>2. QED BY <1>1 DEF NoOwner

\* A startup that is stuck stays so until it ends: nobody gets the claim and
\* the fence of its row together again.
LEMMA StuckStays ==
    ASSUME Stepped, NEW r \in Runs, Stuck(r), run'[r].state = "starting"
    PROVE  Stuck(r)' /\ (run'[r].deadline = run[r].deadline \/ Passed(run'[r].deadline))
<1>0. run[r].state = "starting" /\ IsSet(run[r].deadline) /\ NoOwner(r)
    BY DEF Stuck
<1>1. CASE RowKept(r)
    <2>1. /\ run'[r].claim = run[r].claim /\ run'[r].token = run[r].token
          /\ run'[r].deadline = run[r].deadline
        BY <1>1 DEF RowKept
    <2>2. ASSUME NEW p \in Procs, op'[p][r].pc \in Owning, op'[p][r].claim = run[r].claim
          PROVE  op'[p][r].tok < run[r].token
        <3>1. \/ /\ op[p][r].pc \in Owning
                 /\ op'[p][r].claim = op[p][r].claim /\ op'[p][r].tok = op[p][r].tok
              \/ op[p][r].pc = "prepare" /\ op'[p][r].claim = op[p][r].claim
            BY <2>2 DEF Stepped, OpsStep, OpSteps, OpShape, Holding, Owning
        <3>2. CASE op[p][r].pc = "prepare" /\ op'[p][r].claim = op[p][r].claim
            <4>1. run[r].deadline = Unset
                BY <2>2, <3>2 DEF Stepped, Ownership, PrepareFree
            <4>2. QED BY <1>0, <4>1 DEF IsSet
        <3>3. QED BY <1>0, <2>2, <3>1, <3>2 DEF NoOwner
    <2>3. QED BY <1>0, <2>1, <2>2 DEF Stuck, NoOwner, IsSet
<1>2. CASE RowReaped(r)
    <2>1. Passed(run'[r].deadline) /\ NoOwner(r)'
        BY <1>0, <1>2, ReapedHasNoOwner DEF RowReaped
    <2>2. QED BY <2>1 DEF Stuck, Passed, IsSet, Unset
<1>3. CASE RowOwned(r)
    <2>1. PICK p \in Procs : Owns(p, r)
        BY <1>3 DEF RowOwned
    <2>2. run[r].token \in Nat
        BY RowValues DEF Stepped
    <2>3. QED BY <1>0, <2>1, <2>2 DEF Owns, NoOwner
<1>4. CASE RowClaimed(r) \/ RowEnds(r) \/ RowAdmitted(r)
    BY <1>0, <1>4 DEF RowClaimed, RowEnds, RowAdmitted, IsSet
<1>5. QED BY <1>1, <1>2, <1>3, <1>4 DEF Stepped, RowsStep, RowShape

\* The operation that acts goes on, or has begun in this step.
LEMMA ActingSteps ==
    ASSUME Stepped, NEW p \in Procs, NEW r \in Runs, Acting(p, r)'
    PROVE  \/ /\ Acting(p, r) /\ op'[p][r].left = op[p][r].left
              /\ op'[p][r].claim = op[p][r].claim /\ op'[p][r].tok = op[p][r].tok
              /\ run[r].state # "unborn"
           \/ /\ op[p][r].pc = "begin" /\ CanBeginAction(run[r], op[p][r].tok, op[p][r].claim)
              /\ run'[r] = BeginAction(run[r]) /\ op'[p][r].left = ActionTimeout
              /\ op'[p][r].tok = op[p][r].tok /\ op'[p][r].claim = op[p][r].claim
              /\ \A q \in Procs : q # p => op'[q][r] = op[q][r]
<1>1. op'[p][r].pc \in {"act", "sent"} /\ Open(op'[p][r].left)
    BY DEF Acting
<1>2. CASE op[p][r].pc \in {"act", "sent"} /\ op'[p][r].left = op[p][r].left
    <2>1. op'[p][r].claim = op[p][r].claim /\ op'[p][r].tok = op[p][r].tok
        BY <1>1, <1>2 DEF Stepped, OpsStep, OpSteps, OpShape, Holding, Owning
    <2>2. run[r].state # "unborn"
        BY <1>2 DEF Stepped, Ownership, OpBehind
    <2>3. QED BY <1>1, <1>2, <2>1, <2>2 DEF Acting
<1>3. QED BY <1>1, <1>2 DEF Stepped, OpsStep, OpSteps, OpActs

\* ActingOwns is kept.
LEMMA ActingOwnsKept ==
    ASSUME Stepped
    PROVE  ActingOwns'
<1>1. ASSUME NEW p \in Procs, NEW r \in Runs, Acting(p, r)', run'[r].state = "starting"
      PROVE  Stuck(r)' \/ (Owns(p, r)' /\ run'[r].deadline = op'[p][r].left)
    <2>0. op'[p][r].pc \in Owning /\ run[r] \in RunType /\ run'[r] \in RunType
        BY <1>1 DEF Acting, Owning, Stepped, IInv, TypeOK
    <2>1. CASE /\ op[p][r].pc = "begin" /\ CanBeginAction(run[r], op[p][r].tok, op[p][r].claim)
               /\ run'[r] = BeginAction(run[r]) /\ op'[p][r].left = ActionTimeout
               /\ op'[p][r].tok = op[p][r].tok /\ op'[p][r].claim = op[p][r].claim
        <3>1. /\ run'[r].token = run[r].token /\ run'[r].claim = run[r].claim
              /\ run'[r].deadline = ActionTimeout
            BY <2>0, <2>1 DEF BeginAction, RunType
        <3>2. QED BY <2>0, <2>1, <3>1 DEF Owns, CanBeginAction, OwnsStartup
    <2>2. CASE /\ Acting(p, r) /\ op'[p][r].left = op[p][r].left
               /\ op'[p][r].claim = op[p][r].claim /\ op'[p][r].tok = op[p][r].tok
               /\ run[r].state # "unborn"
        <3>1. run[r].state = "starting"
            BY <1>1, <2>2, RowGrows
        <3>2. CASE Stuck(r)
            BY <1>1, <3>2, StuckStays
        <3>3. CASE Owns(p, r) /\ run[r].deadline = op[p][r].left
            <4>1. IsSet(run[r].deadline)
                BY <2>2, <3>3 DEF Acting, Open, IsSet, Unset
            <4>2. CASE RowKept(r)
                <5>1. /\ run'[r].claim = run[r].claim /\ run'[r].token = run[r].token
                      /\ run'[r].deadline = run[r].deadline
                    BY <4>2 DEF RowKept
                <5>2. QED BY <2>0, <2>2, <3>3, <5>1 DEF Owns
            <4>3. CASE RowReaped(r)
                <5>1. Passed(run'[r].deadline) /\ NoOwner(r)'
                    BY <3>1, <4>3, ReapedHasNoOwner DEF RowReaped
                <5>2. QED BY <1>1, <5>1 DEF Stuck, Passed, IsSet, Unset
            <4>4. CASE RowOwned(r)
                <5>1. PICK q \in Procs : Owns(q, r) /\ op[q][r].pc \in {"begin", "complete", "recover"}
                    BY <4>4 DEF RowOwned
                <5>2. op[p][r].pc \in {"act", "sent"} /\ op[p][r].pc \in Holding
                    BY <2>2 DEF Acting, Holding, Owning
                <5>3. op[q][r].claim = op[p][r].claim /\ op[q][r].pc \in Holding
                    BY <3>3, <5>1 DEF Owns, Holding
                <5>4. p = q
                    BY <5>2, <5>3 DEF Stepped, Ownership, ClaimsUnique
                <5>5. QED BY <5>1, <5>2, <5>4
            <4>5. CASE RowClaimed(r) \/ RowEnds(r) \/ RowAdmitted(r)
                BY <1>1, <3>1, <4>1, <4>5 DEF RowClaimed, RowEnds, RowAdmitted, IsSet
            <4>6. QED BY <4>2, <4>3, <4>4, <4>5 DEF Stepped, RowsStep, RowShape
        <3>4. QED BY <2>2, <3>1, <3>2, <3>3 DEF Stepped, Ownership, ActingOwns
    <2>3. QED BY <1>1, <2>1, <2>2, ActingSteps
<1>2. QED BY <1>1 DEF ActingOwns

\* An action is not begun while another of its Run is under way.
LEMMA OneActionKept ==
    ASSUME Stepped
    PROVE  OneActionPerRun'
<1>1. ASSUME NEW p \in Procs, NEW q \in Procs, NEW r \in Runs,
             Acting(p, r)', CanBeginAction(run[r], op[p][r].tok, op[p][r].claim),
             \A s \in Procs : s # p => op'[s][r] = op[s][r], Acting(q, r)'
      PROVE  p = q
    <2>1. SUFFICES ASSUME q # p PROVE FALSE
        OBVIOUS
    <2>2. Acting(q, r)
        BY <1>1, <2>1 DEF Acting
    <2>3. run[r].state = "starting" /\ ~IsSet(run[r].deadline)
        BY <1>1 DEF CanBeginAction, OwnsStartup
    <2>4. Stuck(r) \/ run[r].deadline = op[q][r].left
        BY <2>2, <2>3 DEF Stepped, Ownership, ActingOwns
    <2>5. QED BY <2>2, <2>3, <2>4 DEF Stuck, Acting, Open, IsSet, Unset
<1>2. ASSUME NEW p \in Procs, NEW q \in Procs, NEW r \in Runs, Acting(p, r)', Acting(q, r)'
      PROVE  p = q
    <2>1. CASE Acting(p, r) /\ Acting(q, r)
        BY <2>1 DEF Stepped, Ownership, OneActionPerRun, Acting
    <2>2. QED BY <1>1, <1>2, <2>1, ActingSteps
<1>3. QED BY <1>2 DEF OneActionPerRun, Acting

\* The invariant is kept by every step but a tick.
LEMMA SteppedKeeps ==
    ASSUME Stepped
    PROVE  Ownership'
<1>1. Phases'
    BY DEF Stepped, OpsStep, OpSteps, OpPhases, Phases
<1>2. QED BY <1>1, OpBehindKept, ClaimsUniqueKept, PrepareFreeKept, HeldInvKept, ActingOwnsKept,
             OneActionKept DEF Ownership

-----------------------------------------------------------------------------
(* A tick of the clock.                                                    *)

\* What a tick leaves alone, and what it does with the deadlines.
LEMMA TickFacts ==
    ASSUME TypeOK, Tick
    PROVE  /\ \A r \in Runs :
                /\ run'[r].state = run[r].state /\ run'[r].token = run[r].token
                /\ run'[r].claim = run[r].claim /\ run'[r].deadline = Ticked(run[r].deadline)
                /\ run'[r].pod = run[r].pod /\ run'[r] = RowTicked(run[r])
           /\ \A p \in Procs, r \in Runs :
                /\ op'[p][r].pc = op[p][r].pc /\ op'[p][r].tok = op[p][r].tok
                /\ op'[p][r].claim = op[p][r].claim /\ op'[p][r].phase = op[p][r].phase
                /\ op'[p][r].pod = op[p][r].pod /\ op'[p][r].todo = op[p][r].todo
                /\ op'[p][r].left = Ticked(op[p][r].left)
           /\ \A p \in Procs :
                /\ reap'[p].pc = reap[p].pc /\ reap'[p].target = reap[p].target
                /\ reap'[p].view = reap[p].view /\ reap'[p].todo = reap[p].todo
                /\ reap'[p].held = RowTicked(reap[p].held)
                /\ reap'[p].held.state = reap[p].held.state
                /\ reap'[p].held.token = reap[p].held.token
                /\ reap'[p].held.claim = reap[p].held.claim
                /\ reap'[p].held.deadline = Ticked(reap[p].held.deadline)
<1>1. ASSUME NEW row \in RunType
      PROVE  /\ RowTicked(row).state = row.state /\ RowTicked(row).token = row.token
             /\ RowTicked(row).claim = row.claim /\ RowTicked(row).pod = row.pod
             /\ RowTicked(row).deadline = Ticked(row.deadline)
    BY DEF RowTicked, RunType
<1>2. ASSUME NEW r \in Runs PROVE run[r] \in RunType /\ run'[r] = RowTicked(run[r])
    BY DEF TypeOK, Tick
<1>3. ASSUME NEW p \in Procs, NEW r \in Runs
      PROVE  /\ op'[p][r].pc = op[p][r].pc /\ op'[p][r].tok = op[p][r].tok
             /\ op'[p][r].claim = op[p][r].claim /\ op'[p][r].phase = op[p][r].phase
             /\ op'[p][r].pod = op[p][r].pod /\ op'[p][r].todo = op[p][r].todo
             /\ op'[p][r].left = Ticked(op[p][r].left)
    <2>1. op[p][r] \in OpType /\ op'[p][r] = [op[p][r] EXCEPT !.left = Ticked(op[p][r].left)]
        BY DEF TypeOK, Tick
    <2>2. QED BY <2>1 DEF OpType
<1>4. ASSUME NEW p \in Procs
      PROVE  /\ reap'[p].pc = reap[p].pc /\ reap'[p].target = reap[p].target
             /\ reap'[p].view = reap[p].view /\ reap'[p].todo = reap[p].todo
             /\ reap'[p].held = RowTicked(reap[p].held) /\ reap[p].held \in RunType
    <2>1. /\ reap[p] \in ReapType
          /\ reap'[p] = [reap[p] EXCEPT !.held = RowTicked(reap[p].held)]
        BY DEF TypeOK, Tick
    <2>2. QED BY <2>1 DEF ReapType
<1>5. QED BY <1>1, <1>2, <1>3, <1>4

\* A tick closes deadlines but opens, sets and unsets none.
LEMMA TickedDeadline ==
    ASSUME NEW t \in Int
    PROVE  /\ Ticked(t) \in Int
           /\ Open(Ticked(t)) => Open(t)
           /\ IsSet(Ticked(t)) <=> IsSet(t)
           /\ Passed(t) => Passed(Ticked(t))
           /\ t = Unset => Ticked(t) = Unset
BY DEF Ticked, Open, IsSet, Passed, Unset

\* The invariant is kept by a tick.
LEMMA TickKeeps ==
    ASSUME IInv, Ownership, Tick
    PROVE  Ownership'
<1>0. TypeOK
    BY DEF IInv
<1>1. ASSUME NEW p \in Procs, NEW r \in Runs, Acting(p, r)'
      PROVE  Acting(p, r)
    <2>1. op[p][r].left \in Int
        BY LocalValues
    <2>2. QED BY <1>0, <1>1, <2>1, TickFacts, TickedDeadline DEF Acting
<1>2. ASSUME NEW r \in Runs, Stuck(r) PROVE Stuck(r)'
    <2>1. run[r].deadline \in Int
        BY RowValues
    <2>2. QED BY <1>0, <1>2, <2>1, TickFacts, TickedDeadline DEF Stuck, NoOwner
<1>3. OpBehind' /\ ClaimsUnique' /\ Phases'
    BY <1>0, TickFacts DEF Ownership, OpBehind, ClaimsUnique, Phases
<1>4. PrepareFree'
    <2>1. \A p \in Procs : reap[p].held.deadline \in Int
        BY <1>0 DEF TypeOK, ReapType, RunType, Timer
    <2>2. \A r \in Runs : run[r].deadline \in Int
        BY RowValues
    <2>3. QED BY <1>0, <2>1, <2>2, TickFacts, TickedDeadline DEF Ownership, PrepareFree
<1>5. HeldDoomed'
    <2>1. \A p \in Procs : reap[p].held.deadline \in Int
        BY <1>0 DEF TypeOK, ReapType, RunType, Timer
    <2>2. QED BY <1>0, <2>1, TickFacts, TickedDeadline
              DEF Ownership, HeldDoomed, CleanupState, DrainEligible
<1>6. HeldSame'
    <2>1. \A p \in Procs : reap[p].target \in Runs \cup {NoRun}
        BY <1>0 DEF TypeOK, ReapType
    <2>2. QED BY <1>0, <2>1, TickFacts DEF Ownership, HeldSame
<1>7. ActingOwns'
    <2>1. ASSUME NEW p \in Procs, NEW r \in Runs, Acting(p, r)', run'[r].state = "starting"
          PROVE  Stuck(r)' \/ (Owns(p, r)' /\ run'[r].deadline = op'[p][r].left)
        <3>1. Stuck(r) \/ (Owns(p, r) /\ run[r].deadline = op[p][r].left)
            BY <1>0, <1>1, <2>1, TickFacts DEF Ownership, ActingOwns
        <3>2. QED BY <1>0, <1>2, <3>1, TickFacts DEF Owns
    <2>2. QED BY <2>1 DEF ActingOwns
<1>8. OneActionPerRun'
    BY <1>1 DEF Ownership, OneActionPerRun, Acting
<1>9. QED BY <1>3, <1>4, <1>5, <1>6, <1>7, <1>8 DEF Ownership

-----------------------------------------------------------------------------
(* One external action per Run.                                            *)

OwnInv == IInv /\ Ownership

\* Nobody owns anything before the Task has a Run.
LEMMA InitOwns == Init => OwnInv
<1> SUFFICES ASSUME Init PROVE OwnInv
    OBVIOUS
<1>1. IInv
    BY InitInv
<1>2. \A p \in Procs, r \in Runs : op[p][r].pc = "idle"
    BY DEF Init, IdleOp
<1>3. \A p \in Procs : reap[p].pc = "idle" /\ reap[p].target = NoRun
    BY DEF Init, IdleReap
<1>4. QED BY <1>1, <1>2, <1>3
          DEF OwnInv, Ownership, OpBehind, ClaimsUnique, PrepareFree, HeldDoomed, HeldSame,
              ActingOwns, OneActionPerRun, Phases, Acting, Holding, Owning, Late, Early

\* Every step keeps the ownership.
LEMMA StepOwns == OwnInv /\ [Next]_vars => OwnInv'
<1> SUFFICES ASSUME OwnInv, [Next]_vars PROVE OwnInv'
    OBVIOUS
<1>1. IInv'
    BY StepInv DEF OwnInv
<1>2. CASE Tick
    BY <1>1, <1>2, TickKeeps DEF OwnInv
<1>3. CASE ~Tick
    <2>1. Stepped
        BY <1>1, <1>3, StepShapes DEF Stepped, OwnInv, Ownership
    <2>2. QED BY <1>1, <2>1, SteppedKeeps DEF OwnInv
<1>4. QED BY <1>2, <1>3

\* So ownership holds always.
LEMMA OwnershipAlways == Spec => []OwnInv
BY InitOwns, StepOwns, PTL DEF Spec

\* Two processes never have an external action of one Run under way before its
\* deadline, whatever crashes, repeated starts, lost answers and drains happen:
\* startLiveSandbox persists claim, fence and deadline before it acts.
THEOREM OneActionAtATime == Spec => []OneActionPerRun
<1>1. OwnInv => OneActionPerRun BY DEF OwnInv, Ownership
<1>2. QED BY <1>1, OwnershipAlways, PTL

-----------------------------------------------------------------------------
(* Kubernetes: what is deleted is doomed.                                  *)

Born(r) == run[r].state # "unborn"

\* The Pod u of Run r is there and not being deleted, or was lost.
Intact(r, u) ==
    u \in lost \/ (cluster["Pod"].uid = u /\ cluster["Pod"].run = r /\ ~cluster["Pod"].terminating)

\* Requests, objects and what was read of them belong to Runs that exist.
NamesKnown ==
    /\ \A e \in inflight : Born(e.run)
    /\ \A k \in Kinds : Present(k) => Born(cluster[k].run)
    /\ \A p \in Procs, k \in Kinds : reap[p].view[k] # NoObj => Born(reap[p].view[k].run)

\* A UID is given once: an object with the UID that was read is the one that
\* was read.
UidsKnown ==
    /\ \A k \in Kinds : Present(k) => cluster[k].uid < nextUid
    /\ Present("Pod") => cluster["Pod"].uid \notin lost
    /\ \A u \in lost : u < nextUid
    /\ \A p \in Procs, k \in Kinds : reap[p].view[k] # NoObj =>
        /\ reap[p].view[k].uid < nextUid
        /\ Present(k) /\ cluster[k].uid = reap[p].view[k].uid
              => cluster[k].run = reap[p].view[k].run

\* A released Run has no deadline.
ReleasedDone == \A r \in Runs : run[r].state = "released" => run[r].deadline = Unset

\* The reaper is about to delete objects of doomed Runs only.
DeleteDoomed ==
    \A p \in Procs, k \in Kinds : reap[p].pc = "delete" /\ k \in reap[p].todo =>
        reap[p].view[k] # NoObj /\ Doomed(reap[p].view[k].run)

\* So is what is being deleted.
TermDoomed == \A k \in Kinds : cluster[k].terminating => Doomed(cluster[k].run)

\* The Pod an operation saw ready before it activates is intact, unless the
\* Run is doomed in the meantime; then the activation is refused.
RecordIntact ==
    \A p \in Procs, r \in Runs :
        op[p][r].pc \in {"record", "activate"} /\ op[p][r].phase = "open" =>
            Doomed(r) \/ Intact(r, op[p][r].pod)
ActiveIntact == \A r \in Runs : run[r].state = "active" => Intact(r, run[r].pod)

KubeInv ==
    /\ NamesKnown /\ UidsKnown /\ ReleasedDone /\ DeleteDoomed /\ TermDoomed
    /\ RecordIntact /\ ActiveIntact

(* What a step does with Kubernetes and what was read of it.               *)

\* An object stays, is changed, disappears or is created.
ObjectShape(k) ==
    LET o == cluster[k]
        n == cluster'[k] IN
    \/ n = o
    \/ n = NoObj
    \/ o # NoObj /\ n # NoObj /\ n.run = o.run /\ n.uid = o.uid
    \/ /\ o = NoObj /\ n.uid = nextUid /\ nextUid' = nextUid + 1 /\ ~n.terminating
       /\ UNCHANGED lost
       /\ \E e \in inflight : n.run = e.run

\* Only a doomed object is deleted, and only a Pod is lost.
ObjectEnds(k) ==
    LET o == cluster[k]
        n == cluster'[k] IN
    /\ n.terminating => n.run = o.run /\ (o.terminating \/ Doomed(o.run))
    /\ Present(k) /\ ~o.terminating =>
        \/ n # NoObj /\ n.run = o.run /\ n.uid = o.uid /\ ~n.terminating
        \/ k = "Pod" /\ o.uid \in lost'
        \/ Doomed(o.run)

ClusterStep ==
    /\ \A k \in Kinds : ObjectShape(k) /\ ObjectEnds(k)
    /\ nextUid <= nextUid'
    /\ \/ UNCHANGED lost
       \/ Present("Pod") /\ cluster'["Pod"] = NoObj /\ lost' = lost \cup {cluster["Pod"].uid}

\* A request is sent by an operation that acts.
RequestStep ==
    \A e \in inflight' :
        (\E f \in inflight : f.run = e.run) \/ (\E p \in Procs : op[p][e.run].pc = "act")

\* The reaper reads what is there.
ViewStep ==
    \A p \in Procs, k \in Kinds :
        \/ reap'[p].view[k] \in {reap[p].view[k], NoObj}
        \/ reap'[p].view[k] = cluster[k] /\ UNCHANGED <<cluster, nextUid>>

\* It plans to delete what belongs to a Run that is released, or that it
\* claims in the same step.
TodoStep ==
    \A p \in Procs, k \in Kinds : reap'[p].pc = "delete" /\ k \in reap'[p].todo =>
        /\ reap'[p].view[k] = reap[p].view[k]
        /\ \/ reap[p].pc = "delete" /\ k \in reap[p].todo
           \/ reap[p].view[k] # NoObj /\ ~Unreleased(run[reap[p].view[k].run])
           \/ LET t == reap[p].view[k].run IN
              /\ t \in Runs /\ CanClaimCleanup(run[t], reap[p].held.token)
              /\ SetRun(t, ClaimCleanup(run[t]))

KubeStep == ClusterStep /\ RequestStep /\ ViewStep /\ TodoStep

-----------------------------------------------------------------------------
(* Every step is of these shapes.                                          *)

\* What is not touched.
LEMMA KubeUntouched ==
    ASSUME TypeOK
    PROVE  /\ UNCHANGED <<cluster, nextUid, lost>> => ClusterStep
           /\ UNCHANGED inflight => RequestStep
           /\ UNCHANGED reap => ViewStep /\ TodoStep
<1>1. nextUid \in Int
    BY DEF TypeOK
<1>2. ASSUME UNCHANGED <<cluster, nextUid, lost>> PROVE ClusterStep
    BY <1>1, <1>2 DEF ClusterStep, ObjectShape, ObjectEnds, Present
<1>3. ASSUME UNCHANGED inflight PROVE RequestStep
    BY <1>3 DEF RequestStep
<1>4. ASSUME UNCHANGED reap PROVE ViewStep /\ TodoStep
    BY <1>4 DEF ViewStep, TodoStep
<1>5. QED BY <1>2, <1>3, <1>4

\* Where the reaper of one process stops deleting, or goes on reading.
LEMMA ReapUntouched ==
    ASSUME TypeOK, NEW p \in Procs, \A q \in Procs : q # p => reap'[q] = reap[q],
           \A k \in Kinds : \/ reap'[p].view[k] \in {reap[p].view[k], NoObj}
                            \/ reap'[p].view[k] = cluster[k] /\ UNCHANGED <<cluster, nextUid>>,
           reap'[p].pc # "delete"
    PROVE  ViewStep /\ TodoStep
<1>1. ViewStep
    BY DEF ViewStep
<1>2. TodoStep
    BY DEF TodoStep
<1>3. QED BY <1>1, <1>2

\* applyResource sends a request.
LEMMA OpKube ==
    ASSUME TypeOK, NEW p \in Procs, NEW r \in Runs, OpStart(p, r) \/ OpStep(p, r)
    PROVE  KubeStep
<1>1. UNCHANGED <<cluster, nextUid, lost, reap>>
    BY DEF OpStep, OpStart, OpClaim, OpPrepare, OpConfig, OpObserve, OpBegin, OpApply,
   OpActionDone, OpActionFails, OpActionUnknown, OpReconcile, OpReconcileOpen, OpRecover,
   OpComplete, OpIdentify, OpRecord, OpActivate, OpFail, OpFailing, OpCallFails, kube
<1>2. RequestStep
    <2>1. CASE OpApply(p, r)
        BY <2>1 DEF OpApply, RequestStep
    <2>2. CASE ~OpApply(p, r)
        <3>1. UNCHANGED inflight
            BY <2>2 DEF OpStep, OpStart, OpClaim, OpPrepare, OpConfig, OpObserve, OpBegin,
   OpActionDone, OpActionFails, OpActionUnknown, OpReconcile, OpReconcileOpen, OpRecover,
   OpComplete, OpIdentify, OpRecord, OpActivate, OpFail, OpFailing, OpCallFails, kube
        <3>2. QED BY <3>1, KubeUntouched
    <2>3. QED BY <2>1, <2>2
<1>3. QED BY <1>1, <1>2, KubeUntouched DEF KubeStep

\* Requests served, Pods ready, failed or lost, deletions finished.
LEMMA EnvironmentKube ==
    ASSUME TypeOK, TermDoomed,
           (\E e \in inflight : Land(e)) \/ PodReady \/ PodFails \/ PodLost
           \/ (\E k \in Kinds : Terminated(k))
    PROVE  KubeStep
<1>0. /\ cluster \in [Kinds -> ObjType \cup {NoObj}] /\ nextUid \in Int /\ "Pod" \in Kinds
      /\ UNCHANGED reap
    <2>1. UNCHANGED reap
        BY DEF Land, PodReady, PodFails, PodLost, Terminated
    <2>2. QED BY <2>1, LifecycleConstants DEF TypeOK, LifecycleConstants
<1>1. ASSUME NEW k \in Kinds
      PROVE  /\ cluster[k].terminating \in BOOLEAN
             /\ cluster[k] # NoObj => cluster[k] \in ObjType
    <2>1. cluster[k] \in ObjType \/ cluster[k] = NoObj
        BY <1>0
    <2>2. NoObj.terminating = FALSE
        BY DEF NoObj
    <2>3. QED BY <2>1, <2>2 DEF ObjType
<1>2. RequestStep
    BY DEF RequestStep, Land, PodReady, PodFails, PodLost, Terminated
<1>3. ViewStep /\ TodoStep
    BY <1>0, KubeUntouched
<1>4. CASE \E e \in inflight : Land(e)
    <2>1. PICK e \in inflight : Land(e)
        BY <1>4
    <2>2. CASE UNCHANGED <<cluster, nextUid>>
        BY <1>2, <1>3, <2>1, <2>2, KubeUntouched DEF Land, KubeStep
    <2> DEFINE new == [run |-> e.run, uid |-> nextUid, status |-> "pending", terminating |-> FALSE]
    <2>3. CASE ~Present(e.kind) /\ cluster' = [cluster EXCEPT ![e.kind] = new] /\ nextUid' = nextUid + 1
        <3>1. e.kind \in Kinds
            BY DEF TypeOK, CreateType
        <3>2. /\ \A k \in Kinds : k # e.kind => cluster'[k] = cluster[k]
              /\ cluster'[e.kind] = new /\ UNCHANGED lost
            BY <1>0, <2>1, <2>3, <3>1 DEF Land
        <3>3. ASSUME NEW k \in Kinds PROVE ObjectShape(k) /\ ObjectEnds(k)
            <4>1. CASE k = e.kind
                <5>1. cluster[k] = NoObj
                    BY <2>3, <4>1 DEF Present
                <5>2. ObjectShape(k)
                    BY <2>3, <3>2, <4>1, <5>1 DEF ObjectShape
                <5>3. ObjectEnds(k)
                    BY <2>3, <3>2, <4>1, <5>1 DEF ObjectEnds, Present
                <5>4. QED BY <5>2, <5>3
            <4>2. CASE k # e.kind
                BY <3>2, <4>2 DEF ObjectShape, ObjectEnds, Present
            <4>3. QED BY <4>1, <4>2
        <3>4. ClusterStep
            BY <1>0, <2>3, <3>2, <3>3 DEF ClusterStep
        <3>5. QED BY <1>2, <1>3, <3>4 DEF KubeStep
    <2>4. QED BY <2>1, <2>2, <2>3 DEF Land
<1>5. CASE PodReady \/ PodFails
    <2>1. /\ cluster["Pod"] # NoObj
          /\ \/ cluster' = [cluster EXCEPT !["Pod"].status = "ready"]
             \/ cluster' = [cluster EXCEPT !["Pod"].status = "failed"]
          /\ UNCHANGED <<nextUid, lost>>
        BY <1>5 DEF PodReady, PodFails, NoObj
    <2>2. /\ \A k \in Kinds : k # "Pod" => cluster'[k] = cluster[k]
          /\ cluster'["Pod"].run = cluster["Pod"].run /\ cluster'["Pod"].uid = cluster["Pod"].uid
          /\ cluster'["Pod"].terminating = cluster["Pod"].terminating
          /\ cluster'["Pod"].status # "none"
        BY <1>0, <1>1, <2>1 DEF ObjType
    <2>3. cluster'["Pod"] # NoObj
        BY <2>2 DEF NoObj
    <2>4. ASSUME NEW k \in Kinds PROVE ObjectShape(k) /\ ObjectEnds(k)
        BY <2>1, <2>2, <2>3 DEF ObjectShape, ObjectEnds, Present
    <2>5. QED BY <1>0, <1>2, <1>3, <2>1, <2>4 DEF ClusterStep, KubeStep
<1>6. CASE PodLost \/ (\E k \in Kinds : Terminated(k))
    <2>1. PICK j \in Kinds :
            /\ cluster' = [cluster EXCEPT ![j] = NoObj] /\ UNCHANGED nextUid
            /\ \/ j = "Pod" /\ Present("Pod") /\ lost' = lost \cup {cluster["Pod"].uid}
               \/ cluster[j].terminating /\ UNCHANGED lost
        BY <1>0, <1>6 DEF PodLost, Terminated
    <2>2. cluster'[j] = NoObj /\ \A k \in Kinds : k # j => cluster'[k] = cluster[k]
        BY <1>0, <2>1
    <2>3. ASSUME NEW k \in Kinds PROVE ObjectShape(k) /\ ObjectEnds(k)
        BY <2>1, <2>2 DEF ObjectShape, ObjectEnds, Present, NoObj
    <2>4. QED BY <1>0, <1>2, <1>3, <2>1, <2>2, <2>3 DEF ClusterStep, KubeStep
<1>7. QED BY <1>4, <1>5, <1>6

\* A reaper that reads, judges, writes back or stops deletes nothing.
LEMMA ReapReadKube ==
    ASSUME TypeOK, NEW p \in Procs, PreparationFails(p) \/ ReapStep(p),
           ~ReapDelete(p), ~ReapClaim(p)
    PROVE  KubeStep
<1>0. /\ reap \in [Procs -> ReapType] /\ reap[p] \in ReapType /\ UNCHANGED kube
      /\ reap[p].view \in [Kinds -> ObjType \cup {NoObj}]
    BY DEF TypeOK, ReapType, ReapStep, ReapLoad, ReapLook, ReapObserved, ReapObservationFails,
           ReapPlan, ReapReload, ReapInspected, ReapCallFails, ReapDrain, ReapInventoried,
           ReapComplete, ReapUnclaim, PreparationFails, FailUnprepared, ReapAborts
<1>1. ClusterStep /\ RequestStep /\ UNCHANGED <<cluster, nextUid>>
    BY <1>0, KubeUntouched DEF kube
<1>2. ASSUME NEW label, label # "delete", ReapGoto(p, label)
      PROVE  ViewStep /\ TodoStep
    <2>1. /\ reap'[p] = [reap[p] EXCEPT !.pc = label]
          /\ \A q \in Procs : q # p => reap'[q] = reap[q]
        BY <1>0, <1>2 DEF ReapGoto, SetReap
    <2>2. reap'[p].pc = label /\ reap'[p].view = reap[p].view
        BY <1>0, <2>1 DEF ReapType
    <2>3. QED BY <1>2, <2>1, <2>2, ReapUntouched
<1>3. ASSUME ReapEnd(p)
      PROVE  ViewStep /\ TodoStep
    <2>1. reap'[p] = IdleReap /\ \A q \in Procs : q # p => reap'[q] = reap[q]
        BY <1>0, <1>3 DEF ReapEnd, SetReap
    <2>2. reap'[p].pc = "idle" /\ \A k \in Kinds : reap'[p].view[k] = NoObj
        BY <2>1 DEF IdleReap
    <2>3. QED BY <2>1, <2>2, ReapUntouched
<1>4. ASSUME ReapLoad(p) PROVE ViewStep /\ TodoStep
    <2>1. PICK t, held, drain :
             /\ reap'[p] = Reading([IdleReap EXCEPT !.target = t, !.held = held, !.drain = drain],
                                   "observe")
             /\ \A q \in Procs : q # p => reap'[q] = reap[q]
        BY <1>0, <1>4 DEF ReapLoad, SetReap
    <2>2. reap'[p].pc = "observe" /\ \A k \in Kinds : reap'[p].view[k] = NoObj
        BY <2>1 DEF Reading, IdleReap
    <2>3. QED BY <2>1, <2>2, ReapUntouched
<1>5. ASSUME ReapLook(p) PROVE ViewStep /\ TodoStep
    <2>1. PICK k \in Kinds :
             SetReap(p, [reap[p] EXCEPT !.view[k] = cluster[k], !.todo = @ \ {k}])
        BY <1>0, <1>5 DEF ReapLook, NextToCreate, ReapType
    <2>2. /\ reap'[p] = [reap[p] EXCEPT !.view[k] = cluster[k], !.todo = reap[p].todo \ {k}]
          /\ \A q \in Procs : q # p => reap'[q] = reap[q]
        BY <1>0, <2>1 DEF SetReap
    <2>3. /\ reap'[p].pc = reap[p].pc
          /\ reap'[p].view = [reap[p].view EXCEPT ![k] = cluster[k]]
        BY <1>0, <2>2 DEF ReapType
    <2>4. reap[p].pc # "delete"
        BY <1>5 DEF ReapLook
    <2>5. \A j \in Kinds : reap'[p].view[j] = reap[p].view[j] \/ reap'[p].view[j] = cluster[j]
        BY <1>0, <2>3
    <2>6. QED BY <1>1, <2>2, <2>3, <2>4, <2>5, ReapUntouched
<1>6. ASSUME ReapReload(p) PROVE ViewStep /\ TodoStep
    <2>1. PICK t, held :
             /\ reap'[p] = [reap[p] EXCEPT !.pc = "claim", !.target = t, !.held = held]
             /\ \A q \in Procs : q # p => reap'[q] = reap[q]
        BY <1>0, <1>6 DEF ReapReload, SetReap
    <2>2. reap'[p].pc = "claim" /\ reap'[p].view = reap[p].view
        BY <1>0, <2>1 DEF ReapType
    <2>3. QED BY <2>1, <2>2, ReapUntouched
<1>7. ASSUME SetReap(p, Reading(reap[p], "inventory")) PROVE ViewStep /\ TodoStep
    <2>1. /\ reap'[p] = [reap[p] EXCEPT !.pc = "inventory", !.todo = Kinds]
          /\ \A q \in Procs : q # p => reap'[q] = reap[q]
        BY <1>0, <1>7 DEF SetReap, Reading
    <2>2. reap'[p].pc = "inventory" /\ reap'[p].view = reap[p].view
        BY <1>0, <2>1 DEF ReapType
    <2>3. QED BY <2>1, <2>2, ReapUntouched
<1>8. ASSUME PreparationFails(p) PROVE ViewStep /\ TodoStep
    <2>1. PICK t, held :
             /\ reap'[p] = [IdleReap EXCEPT !.pc = "doubt", !.target = t, !.held = held]
             /\ \A q \in Procs : q # p => reap'[q] = reap[q]
        BY <1>0, <1>8 DEF PreparationFails, SetReap
    <2>2. reap'[p].pc = "doubt" /\ \A k \in Kinds : reap'[p].view[k] = NoObj
        BY <2>1 DEF IdleReap
    <2>3. QED BY <2>1, <2>2, ReapUntouched
<1>9. \/ PreparationFails(p)
      \/ ReapLoad(p) \/ ReapLook(p) \/ ReapReload(p) \/ ReapEnd(p)
      \/ \E label \in ReapLabels \ {"delete"} : ReapGoto(p, label)
      \/ SetReap(p, Reading(reap[p], "inventory"))
    BY DEF ReapStep, ReapObserved, ReapObservationFails, ReapPlan, ReapInspected, ReapCallFails,
           ReapDrain, ReapInventoried, ReapComplete, ReapUnclaim, FailUnprepared, ReapAborts,
           ReapLabels
<1>10. QED BY <1>1, <1>2, <1>3, <1>4, <1>5, <1>6, <1>7, <1>8, <1>9 DEF KubeStep

\* After its deletions the reaper keeps nothing to delete.
LEMMA AfterDeletesView ==
    ASSUME NEW q \in ReapType, q.pc = "delete"
    PROVE  /\ AfterDeletes(q).pc = "delete" => AfterDeletes(q) = q
           /\ \A k \in Kinds : AfterDeletes(q).view[k] \in {q.view[k], NoObj}
<1>1. CASE q.todo # {}
    BY <1>1 DEF AfterDeletes
<1>2. CASE q.todo = {} /\ q.target = NoRun
    BY <1>2 DEF AfterDeletes, IdleReap
<1>3. CASE q.todo = {} /\ q.target # NoRun
    <2>1. AfterDeletes(q) = [q EXCEPT !.pc = "inspect", !.todo = Kinds]
        BY <1>3 DEF AfterDeletes, Reading
    <2>2. AfterDeletes(q).pc = "inspect" /\ AfterDeletes(q).view = q.view
        BY <2>1 DEF ReapType
    <2>3. QED BY <2>2
<1>4. QED BY <1>1, <1>2, <1>3

\* What the reaper claims, and what belongs to no unreleased Run, is to be
\* deleted.
LEMMA ReapClaimKube ==
    ASSUME TypeOK, NEW p \in Procs, ReapClaim(p)
    PROVE  KubeStep
<1> DEFINE t == reap[p].target
           own == {k \in Kinds : reap[p].view[k].run = t /\ ~reap[p].view[k].terminating}
           first == [reap[p] EXCEPT !.pc = "delete", !.target = NoRun, !.held = BlankRun,
                                    !.todo = Orphans(reap[p])]
           second == [reap[p] EXCEPT !.pc = "delete", !.held = ClaimCleanup(run[t]),
                                     !.todo = own \cup Orphans(reap[p])]
<1>0. /\ reap[p] \in ReapType /\ reap[p].pc = "claim" /\ "delete" \in ReapLabels
      /\ t \in Runs \cup {NoRun} /\ UNCHANGED kube
    BY DEF TypeOK, ReapClaim, ReapLabels, ReapType
<1>1. ClusterStep /\ RequestStep
    BY <1>0, KubeUntouched DEF kube
<1>2. Orphans(reap[p]) \in SUBSET Kinds /\ own \cup Orphans(reap[p]) \in SUBSET Kinds
    BY DEF Orphans
<1>3. ASSUME NEW q \in ReapType, q.pc = "delete", q.view = reap[p].view,
             SetReap(p, AfterDeletes(q)),
             \A k \in q.todo :
                \/ reap[p].view[k] # NoObj /\ ~Unreleased(run[reap[p].view[k].run])
                \/ LET s == reap[p].view[k].run IN
                   /\ s \in Runs /\ CanClaimCleanup(run[s], reap[p].held.token)
                   /\ SetRun(s, ClaimCleanup(run[s]))
      PROVE  ViewStep /\ TodoStep
    <2>1. reap'[p] = AfterDeletes(q) /\ \A s \in Procs : s # p => reap'[s] = reap[s]
        BY <1>3 DEF SetReap, TypeOK
    <2>2. /\ reap'[p].pc = "delete" => reap'[p] = q
          /\ \A k \in Kinds : reap'[p].view[k] \in {reap[p].view[k], NoObj}
        BY <1>3, <2>1, AfterDeletesView
    <2>3. ViewStep
        BY <2>1, <2>2 DEF ViewStep
    <2>4. TodoStep
        BY <1>3, <2>1, <2>2 DEF TodoStep
    <2>5. QED BY <2>3, <2>4
<1>4. CASE SetReap(p, AfterDeletes(first))
    <2>1. /\ first \in ReapType /\ first.pc = "delete" /\ first.view = reap[p].view
          /\ first.todo = Orphans(reap[p])
        BY <1>0, <1>2, NewRowType DEF ReapType
    <2>2. \A k \in Orphans(reap[p]) :
             reap[p].view[k] # NoObj /\ ~Unreleased(run[reap[p].view[k].run])
        BY DEF Orphans
    <2> HIDE DEF first
    <2>3. ViewStep /\ TodoStep
        BY <1>3, <1>4, <2>1, <2>2
    <2>4. QED BY <1>1, <2>3 DEF KubeStep
<1>5. CASE /\ t # NoRun /\ CanClaimCleanup(run[t], reap[p].held.token) /\ HasRoom(run[t])
           /\ SetRun(t, ClaimCleanup(run[t]))
           /\ SetReap(p, AfterDeletes(second))
    <2>1. ClaimCleanup(run[t]) \in RunType
        <3>1. run[t] \in RunType /\ Unreleased(run[t])
            BY <1>0, <1>5 DEF TypeOK, CanClaimCleanup, CleanupState, DrainEligible, Unreleased
        <3>2. QED BY <1>5, <3>1, FencedRowType
    <2>2. /\ second \in ReapType /\ second.pc = "delete" /\ second.view = reap[p].view
          /\ second.todo = own \cup Orphans(reap[p])
        BY <1>0, <1>2, <2>1 DEF ReapType
    <2>3. \A k \in Orphans(reap[p]) :
             reap[p].view[k] # NoObj /\ ~Unreleased(run[reap[p].view[k].run])
        BY DEF Orphans
    <2> HIDE DEF second
    <2>4. ViewStep /\ TodoStep
        BY <1>0, <1>3, <1>5, <2>2, <2>3
    <2>5. QED BY <1>1, <2>4 DEF KubeStep
<1>6. QED BY <1>4, <1>5 DEF ReapClaim

\* deleteResource with a UID precondition deletes the object that was read.
LEMMA ReapDeleteKube ==
    ASSUME TypeOK, UidsKnown, DeleteDoomed, TermDoomed, NEW p \in Procs, ReapDelete(p)
    PROVE  KubeStep
<1>0. /\ reap[p] \in ReapType /\ reap[p].pc = "delete" /\ UNCHANGED <<inflight, nextUid, lost>>
      /\ reap[p].todo \subseteq Kinds /\ cluster \in [Kinds -> ObjType \cup {NoObj}]
      /\ nextUid \in Int
    BY DEF TypeOK, ReapDelete, ReapType
<1>1. PICK k \in NextToDelete(reap[p]), given \in SUBSET Kinds :
        /\ \/ SetReap(p, AfterDeletes([reap[p] EXCEPT !.todo = reap[p].todo \ {k}]))
           \/ SetReap(p, AfterDeletes([reap[p] EXCEPT !.todo = reap[p].todo \ given,
                                                      !.broken = reap[p].broken \cup {k}]))
        /\ \/ UNCHANGED cluster
           \/ Present(k) /\ cluster[k].uid = reap[p].view[k].uid /\ Removed(k)
    <2> DEFINE given(k) == {j \in reap[p].todo : reap[p].view[j].run = reap[p].view[k].run}
    <2>1. \A k : given(k) \in SUBSET Kinds BY <1>0
    <2>2. QED BY <2>1 DEF ReapDelete
<1>2. k \in reap[p].todo /\ k \in Kinds
    BY <1>0 DEF NextToDelete
<1> DEFINE one == [reap[p] EXCEPT !.todo = reap[p].todo \ {k}]
           rest == [reap[p] EXCEPT !.todo = reap[p].todo \ given,
                                   !.broken = reap[p].broken \cup {k}]
<1>3. /\ one \in ReapType /\ one.pc = "delete" /\ one.view = reap[p].view
      /\ one.todo \subseteq reap[p].todo
    BY <1>0, <1>2 DEF ReapType
<1>4. /\ rest \in ReapType /\ rest.pc = "delete" /\ rest.view = reap[p].view
      /\ rest.todo \subseteq reap[p].todo
    BY <1>0, <1>2 DEF ReapType
<1>5. PICK q \in ReapType : /\ SetReap(p, AfterDeletes(q)) /\ q.pc = "delete"
                            /\ q.view = reap[p].view /\ q.todo \subseteq reap[p].todo
    BY <1>1, <1>3, <1>4
<1>6. reap'[p] = AfterDeletes(q) /\ \A s \in Procs : s # p => reap'[s] = reap[s]
    BY <1>5 DEF SetReap, TypeOK
<1>7. /\ reap'[p].pc = "delete" => reap'[p] = q
      /\ \A j \in Kinds : reap'[p].view[j] \in {reap[p].view[j], NoObj}
    BY <1>5, <1>6, AfterDeletesView
<1>8. ViewStep /\ TodoStep
    <2>1. ViewStep
        BY <1>6, <1>7 DEF ViewStep
    <2>2. TodoStep
        BY <1>0, <1>5, <1>6, <1>7 DEF TodoStep
    <2>3. QED BY <2>1, <2>2
<1>9. RequestStep
    BY <1>0, KubeUntouched
<1>10. CASE UNCHANGED cluster
    BY <1>0, <1>8, <1>9, <1>10, KubeUntouched DEF KubeStep
<1>11. CASE Present(k) /\ cluster[k].uid = reap[p].view[k].uid /\ Removed(k)
    <2>1. reap[p].view[k] # NoObj /\ Doomed(reap[p].view[k].run)
        BY <1>0, <1>2 DEF DeleteDoomed
    <2>2. cluster[k].run = reap[p].view[k].run
        BY <1>2, <1>11, <2>1 DEF UidsKnown
    <2>3. Doomed(cluster[k].run) /\ cluster[k] \in ObjType
        BY <1>0, <1>2, <1>11, <2>1, <2>2 DEF Present
    <2>4. /\ \A j \in Kinds : j # k => cluster'[j] = cluster[j]
          /\ cluster'[k] = NoObj \/ cluster'[k] = [cluster[k] EXCEPT !.terminating = TRUE]
        BY <1>0, <1>2, <1>11 DEF Removed
    <2>5. ObjectShape(k) /\ ObjectEnds(k)
        <3>1. CASE cluster'[k] = NoObj
            BY <2>3, <3>1 DEF ObjectShape, ObjectEnds, NoObj
        <3>2. CASE cluster'[k] = [cluster[k] EXCEPT !.terminating = TRUE]
            <4>1. /\ cluster'[k].run = cluster[k].run /\ cluster'[k].uid = cluster[k].uid
                  /\ cluster'[k].terminating = TRUE
                BY <2>3, <3>2 DEF ObjType
            <4>2. cluster'[k] # NoObj
                BY <4>1 DEF NoObj
            <4>3. QED BY <1>11, <2>3, <4>1, <4>2 DEF ObjectShape, ObjectEnds, Present
        <3>3. QED BY <2>4, <3>1, <3>2
    <2>6. ASSUME NEW j \in Kinds PROVE ObjectShape(j) /\ ObjectEnds(j)
        <3>1. CASE j # k
            BY <2>4, <3>1 DEF ObjectShape, ObjectEnds, Present
        <3>2. QED BY <2>5, <3>1
    <2>7. ClusterStep
        BY <1>0, <2>6 DEF ClusterStep
    <2>8. QED BY <1>8, <1>9, <2>7 DEF KubeStep
<1>12. QED BY <1>1, <1>10, <1>11

\* A tick drops what nobody waits for any more, a crash what was read.
LEMMA TickCrashKube ==
    ASSUME TypeOK, Tick \/ (\E p \in Procs : Crash(p))
    PROVE  KubeStep
<1>1. CASE Tick
    <2>1. UNCHANGED <<cluster, nextUid, lost>>
        BY <1>1 DEF Tick
    <2>2. ASSUME NEW e \in inflight' PROVE \E f \in inflight : f.run = e.run
        <3>1. PICK f \in inflight : e = [f EXCEPT !.left = f.left - 1]
            BY <1>1, <2>2 DEF Tick
        <3>2. f \in CreateType
            BY DEF TypeOK
        <3>3. QED BY <3>1, <3>2 DEF CreateType
    <2>3. RequestStep
        BY <2>2 DEF RequestStep
    <2>4. \A p \in Procs : /\ reap'[p].pc = reap[p].pc /\ reap'[p].view = reap[p].view
                           /\ reap'[p].todo = reap[p].todo
        BY <1>1, TickFacts
    <2>5. ViewStep
        BY <2>4 DEF ViewStep
    <2>6. TodoStep
        BY <2>4 DEF TodoStep
    <2>7. QED BY <2>1, <2>3, <2>5, <2>6, KubeUntouched DEF KubeStep
<1>2. CASE \E p \in Procs : Crash(p)
    <2>1. PICK p \in Procs : Crash(p)
        BY <1>2
    <2>2. /\ UNCHANGED kube /\ reap'[p] = IdleReap
          /\ \A q \in Procs : q # p => reap'[q] = reap[q]
        BY <2>1 DEF Crash, TypeOK
    <2>3. reap'[p].pc = "idle" /\ \A k \in Kinds : reap'[p].view[k] = NoObj
        BY <2>2 DEF IdleReap
    <2>4. ViewStep /\ TodoStep
        BY <2>2, <2>3, ReapUntouched
    <2>5. QED BY <2>2, <2>4, KubeUntouched DEF KubeStep, kube
<1>3. QED BY <1>1, <1>2

\* Every step is of these shapes.
LEMMA KubeSteps ==
    ASSUME TypeOK, KubeInv, [Next]_vars
    PROVE  KubeStep
<1>1. CASE \/ \E isReady \in BOOLEAN : Admit(isReady)
           \/ \E r \in Runs : Prepared(r) \/ RunFails(r) \/ RequestTaskSandboxRelease(r)
           \/ UNCHANGED vars
    <2>1. UNCHANGED <<cluster, inflight, nextUid, lost, reap>>
        BY <1>1 DEF Admit, Prepared, RunFails, RequestTaskSandboxRelease, vars, kube
    <2>2. QED BY <2>1, KubeUntouched DEF KubeStep
<1>2. CASE \E p \in Procs, r \in Runs : OpStart(p, r) \/ OpStep(p, r)
    BY <1>2, OpKube
<1>3. CASE \E p \in Reapers : PreparationFails(p) \/ ReapStep(p)
    <2>1. PICK p \in Procs : PreparationFails(p) \/ ReapStep(p)
        BY <1>3, LifecycleConstants DEF LifecycleConstants
    <2>2. CASE ReapDelete(p) \/ ReapClaim(p)
        BY <2>2, ReapDeleteKube, ReapClaimKube DEF KubeInv
    <2>3. QED BY <2>1, <2>2, ReapReadKube
<1>4. CASE Environment
    BY <1>4, EnvironmentKube, TickCrashKube DEF Environment, KubeInv
<1>5. QED BY <1>1, <1>2, <1>3, <1>4 DEF Next

-----------------------------------------------------------------------------
(* Doom is for ever, and the invariant is kept.                            *)

Moved == OwnInv /\ KubeInv /\ OwnInv' /\ KubeStep /\ [Next]_vars

\* A Run that is doomed stays doomed: its startup does not come back and no
\* deadline is opened again.
LEMMA DoomedForever ==
    ASSUME OwnInv, OwnInv', [Next]_vars, NEW r \in Runs, Doomed(r)
    PROVE  Doomed(r)'
<1>0. TypeOK /\ run[r].deadline \in Int
    BY RowValues DEF OwnInv, IInv
<1>1. CASE Tick
    <2>1. Stuck(r) => Stuck(r)'
        BY <1>0, <1>1, TickFacts, TickedDeadline DEF Stuck, NoOwner
    <2>2. QED BY <1>0, <1>1, <2>1, TickFacts, TickedDeadline DEF Doomed
<1>2. CASE ~Tick
    <2>0. Stepped
        BY <1>2, StepShapes DEF Stepped, OwnInv, Ownership
    <2>1. CASE Stuck(r) /\ run'[r].state = "starting"
        BY <2>0, <2>1, StuckStays DEF Doomed, Open, Passed
    <2>2. CASE Stuck(r) /\ run'[r].state # "starting"
        <3>1. run[r].state = "starting" /\ NoOwner(r) /\ run[r].token \in Nat
            BY <2>2, RowValues DEF Stuck, OwnInv
        <3>2. \A p \in Procs : ~Owns(p, r)
            BY <3>1 DEF Owns, NoOwner
        <3>3. RowEnds(r)
            BY <2>0, <2>2, <3>1
               DEF Stepped, RowsStep, RowShape, RowKept, RowClaimed, RowOwned, RowReaped, RowAdmitted
        <3>4. QED BY <3>2, <3>3 DEF RowEnds, Doomed, Open, Unset
    <2>3. CASE run[r].state \in {"release_requested", "failed", "released"}
        <3>1. CASE RowKept(r) \/ RowReaped(r) \/ RowEnds(r)
            BY <2>3, <3>1 DEF RowKept, RowReaped, RowEnds, Doomed, Open, Unset
        <3>2. QED BY <2>0, <2>3, <3>1
                  DEF Stepped, RowsStep, RowShape, RowClaimed, RowOwned, RowAdmitted
    <2>4. QED BY <2>1, <2>2, <2>3 DEF Doomed
<1>3. QED BY <1>1, <1>2

\* A Run that exists goes on existing.
LEMMA BornStays ==
    ASSUME OwnInv, OwnInv', [Next]_vars, NEW r \in Runs, Born(r)
    PROVE  Born(r)'
<1>1. CASE Tick
    BY <1>1, TickFacts DEF OwnInv, IInv, Born
<1>2. CASE ~Tick
    <2>1. Stepped
        BY <1>2, StepShapes DEF Stepped, OwnInv, Ownership
    <2>2. QED BY <2>1, RowGrows DEF Born
<1>3. QED BY <1>1, <1>2

\* The types of objects and of what was read of them.
LEMMA ObjectTypes ==
    ASSUME TypeOK, NEW k \in Kinds
    PROVE  /\ Present(k) => cluster[k].run \in Runs /\ cluster[k].uid \in Uids
           /\ ~Present(k) => cluster[k].run = NoRun /\ cluster[k].uid = 0 /\ ~cluster[k].terminating
           /\ \A p \in Procs : reap[p].view[k] # NoObj =>
                 reap[p].view[k].run \in Runs /\ reap[p].view[k].uid \in Uids
           /\ nextUid \in Int /\ \A u \in Uids : u \in Int /\ u # 0
<1>1. cluster[k] \in ObjType \/ cluster[k] = NoObj
    BY DEF TypeOK
<1>2. ASSUME NEW p \in Procs, reap[p].view[k] # NoObj PROVE reap[p].view[k] \in ObjType
    BY <1>2 DEF TypeOK, ReapType
<1>3. nextUid \in Int /\ \A u \in Uids : u \in Int /\ u # 0
    BY DEF TypeOK, Uids
<1>4. Present(k) => cluster[k].run \in Runs /\ cluster[k].uid \in Uids
    BY <1>1 DEF Present, ObjType
<1>5. ~Present(k) => cluster[k].run = NoRun /\ cluster[k].uid = 0 /\ ~cluster[k].terminating
    BY DEF Present, NoObj
<1>6. QED BY <1>2, <1>3, <1>4, <1>5 DEF ObjType

\* NamesKnown is kept.
LEMMA NamesKept ==
    ASSUME Moved
    PROVE  NamesKnown'
<1>0. TypeOK /\ TypeOK' /\ OpBehind /\ NamesKnown
    BY DEF Moved, OwnInv, IInv, Ownership, KubeInv
<1>1. ASSUME NEW r \in Runs, Born(r) PROVE run'[r].state # "unborn"
    BY <1>1, BornStays DEF Moved, Born
<1>2. ASSUME NEW e \in inflight' PROVE run'[e.run].state # "unborn"
    <2>1. e.run \in Runs
        BY <1>0 DEF TypeOK, CreateType
    <2>2. Born(e.run)
        BY <1>0, <1>2, <2>1 DEF Moved, KubeStep, RequestStep, NamesKnown, OpBehind, Born
    <2>3. QED BY <1>1, <2>1, <2>2
<1>3. ASSUME NEW k \in Kinds, Present(k)' PROVE run'[cluster'[k].run].state # "unborn"
    <2>1. cluster'[k].run \in Runs
        BY <1>0, <1>3 DEF TypeOK, ObjType, Present
    <2>2. Born(cluster'[k].run)
        BY <1>0, <1>3 DEF Moved, KubeStep, ClusterStep, ObjectShape, NamesKnown, Present
    <2>3. QED BY <1>1, <2>1, <2>2
<1>4. ASSUME NEW p \in Procs, NEW k \in Kinds, reap'[p].view[k] # NoObj
      PROVE  run'[reap'[p].view[k].run].state # "unborn"
    <2>1. reap'[p].view[k].run \in Runs
        BY <1>0, <1>4 DEF TypeOK, ReapType, ObjType
    <2>2. Born(reap'[p].view[k].run)
        BY <1>0, <1>4 DEF Moved, KubeStep, ViewStep, NamesKnown, Present
    <2>3. QED BY <1>1, <2>1, <2>2
<1>5. QED BY <1>2, <1>3, <1>4 DEF NamesKnown, Born, Present

\* UidsKnown is kept: a new object has a UID that nothing has.
LEMMA UidsKept ==
    ASSUME Moved
    PROVE  UidsKnown'
<1>0. TypeOK /\ TypeOK' /\ UidsKnown /\ ClusterStep /\ ViewStep /\ "Pod" \in Kinds
    BY LifecycleConstants DEF Moved, OwnInv, IInv, KubeInv, KubeStep, LifecycleConstants
<1>1. nextUid \in Int /\ nextUid' \in Int /\ nextUid <= nextUid'
    BY <1>0 DEF TypeOK, ClusterStep
<1>2. ASSUME NEW k \in Kinds, Present(k)' PROVE cluster'[k].uid < nextUid'
    <2>1. /\ Present(k) => cluster[k].uid < nextUid /\ cluster[k].uid \in Int
        BY <1>0, ObjectTypes DEF UidsKnown
    <2>2. QED BY <1>0, <1>1, <1>2, <2>1 DEF ClusterStep, ObjectShape, Present
<1>3. \A u \in lost' : u < nextUid'
    <2>1. \A u \in lost : u \in Int
        BY <1>0 DEF TypeOK, Uids
    <2>2. Present("Pod") => cluster["Pod"].uid < nextUid /\ cluster["Pod"].uid \in Int
        BY <1>0, ObjectTypes DEF UidsKnown
    <2>3. \A u \in lost : u < nextUid
        BY <1>0 DEF UidsKnown
    <2>4. ASSUME NEW u \in lost' PROVE u \in Int /\ u < nextUid
        BY <1>0, <2>1, <2>2, <2>3 DEF ClusterStep
    <2>5. QED BY <1>1, <2>4
<1>4. Present("Pod")' => cluster'["Pod"].uid \notin lost'
    <2>1. SUFFICES ASSUME Present("Pod")' PROVE cluster'["Pod"].uid \notin lost'
        OBVIOUS
    <2>2. UNCHANGED lost
        BY <1>0, <2>1 DEF ClusterStep, Present
    <2>3. \/ Present("Pod") /\ cluster'["Pod"].uid = cluster["Pod"].uid
          \/ cluster'["Pod"].uid = nextUid
        BY <1>0, <2>1 DEF ClusterStep, ObjectShape, Present
    <2>4. \A u \in lost : u < nextUid
        BY <1>0 DEF UidsKnown
    <2>5. QED BY <1>0, <1>1, <2>2, <2>3, <2>4 DEF UidsKnown
<1>5. ASSUME NEW p \in Procs, NEW k \in Kinds, reap'[p].view[k] # NoObj
      PROVE  /\ reap'[p].view[k].uid < nextUid'
             /\ Present(k)' /\ cluster'[k].uid = reap'[p].view[k].uid
                   => cluster'[k].run = reap'[p].view[k].run
    <2>1. CASE reap'[p].view[k] = cluster[k] /\ UNCHANGED <<cluster, nextUid>>
        BY <1>0, <1>5, <2>1 DEF UidsKnown, Present
    <2>2. CASE reap'[p].view[k] = reap[p].view[k]
        <3>1. /\ reap[p].view[k].uid < nextUid /\ reap[p].view[k].uid \in Int
              /\ Present(k) /\ cluster[k].uid = reap[p].view[k].uid
                    => cluster[k].run = reap[p].view[k].run
            BY <1>0, <1>5, <2>2, ObjectTypes DEF UidsKnown
        <3>2. Present(k)' => \/ cluster'[k].uid = nextUid
                             \/ /\ Present(k) /\ cluster'[k].uid = cluster[k].uid
                                /\ cluster'[k].run = cluster[k].run
            BY <1>0 DEF ClusterStep, ObjectShape, Present
        <3>3. QED BY <1>1, <2>2, <3>1, <3>2
    <2>3. QED BY <1>0, <1>5, <2>1, <2>2 DEF ViewStep
<1>6. QED BY <1>2, <1>3, <1>4, <1>5 DEF UidsKnown

\* What a step does with a row, but for a tick, and that a tick is harmless.
LEMMA RowSteps ==
    ASSUME Moved, NEW r \in Runs
    PROVE  \/ /\ run'[r].state = run[r].state /\ run'[r].pod = run[r].pod
              /\ run'[r].deadline = Ticked(run[r].deadline) /\ UNCHANGED <<cluster, lost>>
           \/ RowShape(r)
<1>1. CASE Tick
    <2>1. UNCHANGED <<cluster, lost>>
        BY <1>1 DEF Tick
    <2>2. QED BY <1>1, <2>1, TickFacts DEF Moved, OwnInv, IInv
<1>2. CASE ~Tick
    BY <1>2, StepShapes DEF Moved, OwnInv, Ownership, RowsStep
<1>3. QED BY <1>1, <1>2

\* A released Run keeps no deadline.
LEMMA ReleasedKept ==
    ASSUME Moved
    PROVE  ReleasedDone'
<1>1. ASSUME NEW r \in Runs, run'[r].state = "released" PROVE run'[r].deadline = Unset
    <2>1. run[r].state = "released" => run[r].deadline = Unset
        BY DEF Moved, KubeInv, ReleasedDone
    <2>2. Ticked(Unset) = Unset
        BY DEF Ticked, Unset
    <2>3. CASE RowShape(r)
        <3>1. CASE RowAdmitted(r)
            BY <1>1, <3>1 DEF RowAdmitted, AdmittedRun, BlankRun
        <3>2. CASE RowKept(r) \/ RowClaimed(r) \/ RowOwned(r) \/ RowEnds(r) \/ RowReaped(r)
            BY <1>1, <2>1, <3>2 DEF RowKept, RowClaimed, RowOwned, RowEnds, RowReaped, CleanupState
        <3>3. QED BY <2>3, <3>1, <3>2 DEF RowShape
    <2>4. QED BY <1>1, <2>1, <2>2, <2>3, RowSteps
<1>2. QED BY <1>1 DEF ReleasedDone

\* A Run that is claimed ends or is stuck: the claim moves the fence.
LEMMA ClaimDooms ==
    ASSUME Moved, NEW r \in Runs, NEW token, CanClaimCleanup(run[r], token),
           run'[r] = ClaimCleanup(run[r])
    PROVE  Doomed(r)'
<1>0. TypeOK /\ run[r] \in RunType
    BY DEF Moved, OwnInv, IInv, TypeOK
<1>1. /\ run'[r].token = run[r].token + 1 /\ run'[r].state = run[r].state
      /\ run'[r].deadline = run[r].deadline
    BY <1>0 DEF ClaimCleanup, Bump, RunType
<1>2. /\ CleanupState(run[r]) \/ DrainEligible(run[r])
      /\ ~Open(run[r].deadline)
    BY DEF CanClaimCleanup
<1>3. CASE CleanupState(run[r])
    BY <1>1, <1>2, <1>3 DEF CleanupState, Doomed
<1>4. CASE DrainEligible(run[r])
    <2>1. ~Tick
        <3>1. Tick => run'[r].token = run[r].token
            BY <1>0, TickFacts
        <3>2. QED BY <1>1, <3>1, RowValues DEF Moved, OwnInv
    <2>2. Stepped
        BY <2>1, StepShapes DEF Stepped, Moved, OwnInv, Ownership
    <2>3. NoOwner(r)'
        BY <1>1, <2>2, ReapedHasNoOwner
    <2>4. QED BY <1>1, <1>2, <1>4, <2>3
              DEF DrainEligible, Doomed, Stuck, Passed, IsSet, Unset
<1>5. QED BY <1>2, <1>3, <1>4

\* DeleteDoomed is kept: an orphan's Run is released, a claimed Run ends or is
\* stuck, for its claim moved the fence.
LEMMA DeleteKept ==
    ASSUME Moved
    PROVE  DeleteDoomed'
<1>0. /\ TypeOK /\ TypeOK' /\ IInv /\ IInv'
      /\ NamesKnown /\ ReleasedDone /\ DeleteDoomed /\ TodoStep
    BY DEF Moved, OwnInv, IInv, KubeInv, KubeStep
<1>1. ASSUME NEW p \in Procs, NEW k \in Kinds, reap'[p].pc = "delete", k \in reap'[p].todo,
             NEW r \in Runs, r = reap[p].view[k].run
      PROVE  Doomed(r)'
    <2>1. CASE reap[p].pc = "delete" /\ k \in reap[p].todo
        <3>1. Doomed(r)
            BY <1>0, <1>1, <2>1 DEF DeleteDoomed
        <3>2. QED BY <3>1, DoomedForever DEF Moved
    <2>2. CASE reap[p].view[k] # NoObj /\ ~Unreleased(run[r])
        <3>1. run[r].state = "released"
            BY <1>0, <1>1, <2>2 DEF NamesKnown, Born, Unreleased
        <3>2. Doomed(r)
            BY <1>0, <3>1 DEF ReleasedDone, Doomed, Open, Unset
        <3>3. QED BY <3>2, DoomedForever DEF Moved
    <2>3. CASE /\ CanClaimCleanup(run[r], reap[p].held.token)
               /\ SetRun(r, ClaimCleanup(run[r]))
        <3>1. run'[r] = ClaimCleanup(run[r])
            BY <1>0, <2>3, ClaimReaps
        <3>2. QED BY <2>3, <3>1, ClaimDooms
    <2>4. QED BY <1>0, <1>1, <2>1, <2>2, <2>3 DEF TodoStep
<1>2. ASSUME NEW p \in Procs, NEW k \in Kinds, reap'[p].pc = "delete", k \in reap'[p].todo
      PROVE  reap'[p].view[k] # NoObj /\ reap'[p].view[k] = reap[p].view[k]
             /\ reap[p].view[k].run \in Runs
    <2>1. reap'[p].view[k] = reap[p].view[k]
        BY <1>0, <1>2 DEF TodoStep
    <2>2. reap[p].view[k] # NoObj
        <3>1. CASE reap[p].view[k].run \in Runs
            BY <3>1 DEF NoObj, NoRun, Runs
        <3>2. QED BY <1>0, <1>2, <3>1 DEF TodoStep, DeleteDoomed
    <2>3. QED BY <1>0, <2>1, <2>2, ObjectTypes
<1>3. ASSUME NEW p \in Procs, NEW k \in Kinds, reap'[p].pc = "delete", k \in reap'[p].todo
      PROVE  reap'[p].view[k] # NoObj /\ Doomed(reap[p].view[k].run)'
    <2>1. PICK r \in Runs : r = reap[p].view[k].run
        BY <1>2, <1>3
    <2>2. Doomed(r)' /\ reap'[p].view[k] # NoObj /\ r = reap'[p].view[k].run
        BY <1>1, <1>2, <1>3, <2>1
    <2>3. QED BY <2>2 DEF Doomed, Stuck, NoOwner
<1>4. QED BY <1>3 DEF DeleteDoomed

\* TermDoomed is kept.
LEMMA TermKept ==
    ASSUME Moved
    PROVE  TermDoomed'
<1>1. ASSUME NEW k \in Kinds, cluster'[k].terminating
      PROVE  Doomed(cluster[k].run)'
    <2>1. cluster'[k].run = cluster[k].run /\ Doomed(cluster[k].run)
        BY <1>1 DEF Moved, KubeStep, ClusterStep, ObjectEnds, KubeInv, TermDoomed
    <2>2. TypeOK' /\ cluster'[k] # NoObj
        BY <1>1 DEF Moved, OwnInv, IInv, NoObj
    <2>3. cluster'[k].run \in Runs
        BY <2>2 DEF TypeOK, ObjType
    <2>4. PICK r \in Runs : r = cluster'[k].run
        BY <2>3
    <2>5. Doomed(r)
        BY <2>1, <2>4
    <2>6. Doomed(r)'
        BY <2>5, DoomedForever DEF Moved
    <2>7. QED BY <2>4, <2>6 DEF Doomed, Stuck, NoOwner
<1>2. QED BY <1>1 DEF TermDoomed

\* A Pod stays intact unless its Run is doomed.
LEMMA IntactStays ==
    ASSUME Moved, NEW r \in Runs, NEW u, Intact(r, u), ~Doomed(r)
    PROVE  Intact(r, u)'
<1>1. lost \subseteq lost' /\ "Pod" \in Kinds
    BY LifecycleConstants DEF Moved, KubeStep, ClusterStep, LifecycleConstants
<1>2. CASE u \in lost
    BY <1>1, <1>2 DEF Intact
<1>3. CASE cluster["Pod"].uid = u /\ cluster["Pod"].run = r /\ ~cluster["Pod"].terminating
    <2>1. Present("Pod")
        BY <1>3 DEF Present, NoObj, NoRun, Runs
    <2>2. QED BY <1>1, <1>3, <2>1 DEF Moved, KubeStep, ClusterStep, ObjectEnds, Intact
<1>4. QED BY <1>2, <1>3 DEF Intact

\* RecordIntact is kept.
LEMMA RecordKept ==
    ASSUME Moved
    PROVE  RecordIntact'
<1>1. ASSUME NEW p \in Procs, NEW r \in Runs,
             op'[p][r].pc \in {"record", "activate"}, op'[p][r].phase = "open"
      PROVE  Doomed(r)' \/ Intact(r, op[p][r].pod)'
    <2>1. Doomed(r) => Doomed(r)'
        BY DoomedForever DEF Moved
    <2>2. CASE /\ op[p][r].pc \in {"record", "activate"} /\ op[p][r].phase = "open"
               /\ op'[p][r].pod = op[p][r].pod
        <3>1. Doomed(r) \/ Intact(r, op[p][r].pod)
            BY <2>2 DEF Moved, KubeInv, RecordIntact
        <3>2. PICK u : u = op'[p][r].pod
            OBVIOUS
        <3>3. ~Doomed(r) => Intact(r, u)'
            BY <2>2, <3>1, <3>2, IntactStays
        <3>4. QED BY <2>1, <3>2, <3>3 DEF Intact
    <2>3. CASE ReadyIdentity(r, op'[p][r].pod) /\ UNCHANGED <<cluster, lost>>
        <3>1. cluster["Pod"].run = r /\ cluster["Pod"].uid = op'[p][r].pod
            BY <2>3 DEF ReadyIdentity, ReadyPod
        <3>2. CASE cluster["Pod"].terminating
            <4>1. Doomed(r)
                BY <3>1, <3>2, LifecycleConstants DEF Moved, KubeInv, TermDoomed, LifecycleConstants
            <4>2. QED BY <2>1, <4>1
        <3>3. CASE ~cluster["Pod"].terminating
            BY <2>3, <3>1, <3>3 DEF Intact
        <3>4. QED BY <3>2, <3>3
    <2>4. CASE Tick
        BY <1>1, <2>2, <2>4, TickFacts DEF Moved, OwnInv, IInv
    <2>5. CASE ~Tick
        <3>1. OpSees(p, r)
            BY <2>5, StepShapes DEF Moved, OwnInv, Ownership, OpsStep, OpSteps
        <3>2. QED BY <1>1, <2>2, <2>3, <3>1 DEF OpSees
    <2>6. QED BY <2>4, <2>5
<1>2. QED BY <1>1 DEF RecordIntact

\* ActiveIntact is kept: only the operation that owns the row activates it.
LEMMA ActiveKept ==
    ASSUME Moved
    PROVE  ActiveIntact'
<1>1. ASSUME NEW r \in Runs, run'[r].state = "active"
      PROVE  Intact(r, run[r].pod)'
    <2>1. CASE run[r].state = "active" /\ run'[r].pod = run[r].pod
        <3>1. Intact(r, run[r].pod) /\ ~Doomed(r)
            BY <2>1 DEF Moved, KubeInv, ActiveIntact, Doomed, Stuck
        <3>2. PICK u : u = run'[r].pod
            OBVIOUS
        <3>3. Intact(r, u)'
            BY <2>1, <3>1, <3>2, IntactStays
        <3>4. QED BY <3>2, <3>3 DEF Intact
    <2>2. CASE RowEnds(r)
        <3>1. PICK p \in Procs : /\ Owns(p, r) /\ op[p][r].pc = "activate"
                                 /\ run'[r].pod = op[p][r].pod /\ run[r].state = "starting"
            BY <1>1, <2>2 DEF RowEnds
        <3>2. op[p][r].phase = "open"
            BY <3>1 DEF Moved, OwnInv, Ownership, Phases
        <3>3. ~Doomed(r)
            <4>1. run[r].token \in Nat
                BY RowValues DEF Moved, OwnInv
            <4>2. QED BY <3>1, <4>1 DEF Doomed, Stuck, NoOwner, Owns
        <3>4. PICK u : u = op[p][r].pod
            OBVIOUS
        <3>5. Intact(r, u)
            BY <3>1, <3>2, <3>3, <3>4 DEF Moved, KubeInv, RecordIntact
        <3>6. Intact(r, u)'
            BY <3>3, <3>5, IntactStays
        <3>7. QED BY <3>1, <3>4, <3>6 DEF Intact
    <2>3. CASE RowKept(r) \/ RowClaimed(r) \/ RowOwned(r) \/ RowReaped(r) \/ RowAdmitted(r)
        BY <1>1, <2>1, <2>3 DEF RowKept, RowClaimed, RowOwned, RowReaped, RowAdmitted, AdmittedRun,
                                BlankRun, CleanupState
    <2>4. QED BY <1>1, <2>1, <2>2, <2>3, RowSteps DEF RowShape
<1>2. QED BY <1>1 DEF ActiveIntact

-----------------------------------------------------------------------------
(* The invariant holds, and what follows from it.                          *)

DoomInv == OwnInv /\ KubeInv

\* Nothing is in Kubernetes before the Task has a Run.
LEMMA InitDoom == Init => DoomInv
<1> SUFFICES ASSUME Init PROVE DoomInv
    OBVIOUS
<1>1. OwnInv
    BY InitOwns
<1>2. /\ \A k \in Kinds : cluster[k] = NoObj
      /\ inflight = {} /\ lost = {}
      /\ \A r \in Runs : run[r].state = "unborn"
      /\ \A p \in Procs, r \in Runs : op[p][r].pc = "idle"
      /\ \A p \in Procs : reap[p].pc = "idle" /\ \A k \in Kinds : reap[p].view[k] = NoObj
    BY DEF Init, IdleOp, IdleReap, BlankRun
<1>3. "Pod" \in Kinds /\ NoObj.terminating = FALSE
    BY LifecycleConstants DEF LifecycleConstants, NoObj
<1>4. NamesKnown /\ UidsKnown
    BY <1>2, <1>3 DEF NamesKnown, UidsKnown, Present
<1>5. ReleasedDone /\ DeleteDoomed /\ TermDoomed /\ RecordIntact /\ ActiveIntact
    BY <1>2, <1>3 DEF ReleasedDone, DeleteDoomed, TermDoomed, RecordIntact, ActiveIntact
<1>6. QED BY <1>1, <1>4, <1>5 DEF DoomInv, KubeInv

\* Every step keeps the invariant.
LEMMA StepDoom == DoomInv /\ [Next]_vars => DoomInv'
<1> SUFFICES ASSUME DoomInv, [Next]_vars PROVE DoomInv'
    OBVIOUS
<1>1. OwnInv'
    BY StepOwns DEF DoomInv
<1>2. Moved
    BY <1>1, KubeSteps DEF DoomInv, OwnInv, IInv, Moved
<1>3. QED BY <1>1, <1>2, NamesKept, UidsKept, ReleasedKept, DeleteKept, TermKept, RecordKept,
             ActiveKept DEF DoomInv, KubeInv

\* So the invariant holds always.
LEMMA DoomAlways == Spec => []DoomInv
BY InitDoom, StepDoom, PTL DEF Spec

\* Nothing AgentSmith does takes the recorded Pod of an active Run away: no
\* reaper deletes it, not with an observation from before the activation, and
\* no startup that lost its row activates the Run without it.
THEOREM ActivePodsAreKept == Spec => []ActivePodKept
<1>1. DoomInv => ActivePodKept
    BY DEF DoomInv, KubeInv, ActiveIntact, Intact, ActivePodKept
<1>2. QED BY <1>1, DoomAlways, PTL

\* AgentSmith deletes only what belongs to a Run that is released, is to be
\* released, or is stuck behind a deadline that has passed (reapSandboxRunsOnce
\* with its UID preconditions), whoever else works on the Run meanwhile.
THEOREM OnlyDoomedIsDeleted == Spec => DeletesOnlyDoomed
<1> DEFINE Deletes ==
        \A k \in Kinds :
            /\ Present(k) /\ ~cluster[k].terminating
            /\ cluster'[k] = NoObj \/ cluster'[k].terminating
            /\ lost' = lost
            => LET row == run[cluster[k].run] IN
               /\ row.state \in {"release_requested", "failed", "released"} \/ DrainEligible(row)
               /\ ~Open(row.deadline)
<1>1. ASSUME DoomInv, Next PROVE Deletes
    <2>1. KubeStep
        BY <1>1, KubeSteps DEF DoomInv, OwnInv, IInv
    <2>2. ASSUME NEW k \in Kinds, Present(k), ~cluster[k].terminating,
                 cluster'[k] = NoObj \/ cluster'[k].terminating, lost' = lost
          PROVE  LET row == run[cluster[k].run] IN
                 /\ row.state \in {"release_requested", "failed", "released"} \/ DrainEligible(row)
                 /\ ~Open(row.deadline)
        <3>1. ~(k = "Pod" /\ cluster[k].uid \in lost')
            BY <1>1, <2>2 DEF DoomInv, KubeInv, UidsKnown
        <3>2. Doomed(cluster[k].run)
            BY <2>1, <2>2, <3>1 DEF KubeStep, ClusterStep, ObjectEnds
        <3>3. cluster[k].run \in Runs
            BY <1>1, <2>2, ObjectTypes DEF DoomInv, OwnInv, IInv
        <3>4. run[cluster[k].run].deadline \in Timer(ActionTimeout)
            BY <1>1, <3>3 DEF DoomInv, OwnInv, IInv, TypeOK, RunType
        <3>5. QED BY <3>2, <3>4, RunConstants
                  DEF Doomed, Stuck, DrainEligible, Passed, Open, IsSet, Unset, Timer, RunConstants
    <2>3. QED BY <2>2
<1>2. DoomInv /\ [Next]_vars => [Deletes]_vars
    BY <1>1
<1>3. QED BY <1>2, DoomAlways, PTL DEF Spec, DeletesOnlyDoomed
=============================================================================
