-------------------------- MODULE TaskCommands_proofs --------------------------
(***************************************************************************)
(* What holds of the commands of Tasks for any number of Tasks, Projects,  *)
(* keys and database sessions: admissions keep the limits, receipts say    *)
(* what happened, and waiting transactions form no circle but a known one. *)
(***************************************************************************)
EXTENDS TaskCommands, FiniteSetTheorems, TLAPS

RunsOfTasks == [n: Nat, state: {"absent", "released"} \cup Occupying]
CommandKeys == {k[2] : k \in Posts \cup TerminalStarts} \cup {NoKey}
OpenTransactions ==
    [kind: Kinds, task: Tasks, key: CommandKeys, seen: RunsOfTasks, step: 0..3, room: Rooms]

\* The type invariant but for the bound on admissions (see CommandsTypeCorrect).
Typed ==
    /\ home \in [Tasks -> Projects]
    /\ offered.posts \subseteq Posts /\ offered.starts \subseteq TerminalStarts
    /\ taskRun \in [Tasks -> RunsOfTasks] /\ ran \in [Tasks -> SUBSET Nat]
    /\ sandboxLimit \in [Projects -> Nat]
    /\ session \in [Sessions -> OpenTransactions \cup {NoTransaction}]

Depth(kind) == CASE kind \in {"create", "restart", "terminal"} -> 4
                 [] kind \in {"post", "finish"} -> 3
                 [] kind = "drain" -> 2
                 [] kind \in {"activate", "fail", "limit", "reject"} -> 1

\* A transaction is of a command there is, has a lock to take, and was opened for
\* a Run in a state that calls for it.
WellOpened ==
    \A s \in Sessions : Busy(s) =>
        LET x == session[s]
        IN  /\ x.kind \in {"post", "restart", "reject"} => Command(s) \in Posts
            /\ x.kind = "terminal" => Command(s) \in TerminalStarts
            /\ x.step < Depth(x.kind)
            /\ x.kind = "restart" => x.seen.state = "released"
            /\ x.kind \in {"activate", "fail", "drain", "finish"} => x.seen.state \in Occupying

\* No lock is held twice.
Exclusion == \A s, u \in Sessions : s # u => Held(s) \cap Held(u) = {}

Base == Typed /\ WellOpened /\ Exclusion

-----------------------------------------------------------------------------
(* Locks.                                                                    *)

\* The list of a transaction's locks is as long as Depth says.
LEMMA LocksDepth ==
    ASSUME NEW x, x.kind \in Kinds PROVE Len(Locks(x)) = Depth(x.kind)
<1>1. CASE x.kind \in {"create", "restart", "terminal"}
  BY <1>1 DEF Locks, Depth
<1>2. CASE x.kind \in {"post", "finish"}
  BY <1>2 DEF Locks, Depth
<1>3. CASE x.kind \in {"drain", "activate", "fail", "limit", "reject"}
  BY <1>3 DEF Locks, Depth
<1> QED
  BY <1>1, <1>2, <1>3 DEF Kinds

\* The locks a transaction may rely on.
LEMMA CountingHolds ==
    ASSUME Typed, NEW s \in Sessions, Busy(s),
           \/ session[s].kind = "create" /\ session[s].step = 3
           \/ session[s].kind \in {"restart", "terminal"} /\ session[s].step \in 2..3
    PROVE  /\ <<"namespace", "all">> \in Held(s)
           /\ <<"project", home[session[s].task]>> \in Held(s)
<1> DEFINE x == session[s]
<1>1. CASE x.kind = "create" /\ x.step = 3
  <2>1. /\ Locks(x)[2] = <<"namespace", "all">>
        /\ Locks(x)[3] = <<"project", home[x.task]>>
    BY <1>1 DEF Locks
  <2> QED
    BY <1>1, <2>1 DEF Held
<1>2. CASE x.kind \in {"restart", "terminal"} /\ x.step \in 2..3
  <2>1. /\ Locks(x)[1] = <<"namespace", "all">>
        /\ Locks(x)[2] = <<"project", home[x.task]>>
    BY <1>2 DEF Locks
  <2>2. 1 \in 1..x.step /\ 2 \in 1..x.step
    BY <1>2
  <2> QED
    BY <2>1, <2>2 DEF Held
<1> QED
  BY <1>1, <1>2

\* A busy session has an open transaction of some kind.
LEMMA BusyTyped ==
    ASSUME Typed, NEW s \in Sessions
    PROVE  /\ Busy(s) => session[s] \in OpenTransactions
           /\ Busy(s) <=> session[s].kind # "none"
BY DEF Typed, Busy, NoTransaction, OpenTransactions, Kinds

\* What an Acquire does to the session.
LEMMA Acquired ==
    ASSUME Typed, NEW s \in Sessions, Acquire(s)
    PROVE  /\ session' \in [Sessions -> OpenTransactions \cup {NoTransaction}]
           /\ session[s] \in OpenTransactions /\ session'[s] \in OpenTransactions
           /\ session'[s].kind = session[s].kind /\ session'[s].task = session[s].task
           /\ session'[s].key = session[s].key /\ session'[s].seen = session[s].seen
           /\ session'[s].step = session[s].step + 1
           /\ \A u \in Sessions : u # s => session'[u] = session[u]
           /\ session[s].step + 1 < Depth(session[s].kind) /\ Busy(s)'
<1> DEFINE x == session[s]
<1>1. x \in OpenTransactions /\ x.kind \in Kinds /\ x.step \in 0..3
  BY BusyTyped DEF Acquire, OpenTransactions
<1>2. x.step + 1 < Depth(x.kind)
  BY <1>1, LocksDepth DEF Acquire
<1>3. x.step + 1 \in 0..3
  BY <1>1, <1>2 DEF Depth, Kinds
<1>4. PICK room : session' = [session EXCEPT ![s].step = @ + 1, ![s].room = room]
                  /\ room \in Rooms
  <2>1. \A p : Room(p) \in Rooms
    BY DEF Room, Rooms
  <2> QED
    BY <1>1, <2>1 DEF Acquire, OpenTransactions
<1>5. [x EXCEPT !.step = x.step + 1, !.room = room] \in OpenTransactions
  BY <1>1, <1>3, <1>4 DEF OpenTransactions
<1>6. session'[s] = [x EXCEPT !.step = x.step + 1, !.room = room]
  BY <1>4 DEF Typed
<1>7. session'[s].kind = x.kind /\ session'[s].task = x.task /\ session'[s].key = x.key
      /\ session'[s].seen = x.seen /\ session'[s].step = x.step + 1
  BY <1>1, <1>6 DEF OpenTransactions
<1>8. \A u \in Sessions : u # s => session'[u] = session[u]
  BY <1>4 DEF Typed
<1>9. session' \in [Sessions -> OpenTransactions \cup {NoTransaction}]
  BY <1>4, <1>5 DEF Typed
<1>10. Busy(s)'
  BY <1>1, <1>7 DEF Busy, NoTransaction, Kinds
<1> QED
  BY <1>1, <1>2, <1>5, <1>6, <1>7, <1>8, <1>9, <1>10

\* What a session that does nothing holds does not change.
LEMMA HeldStays ==
    ASSUME NEW u \in Sessions, UNCHANGED home, session'[u] = session[u]
    PROVE  Held(u)' = Held(u)
BY DEF Held, Busy, Locks

\* A session without a transaction, or one that has just begun, holds nothing.
LEMMA HeldNone ==
    ASSUME NEW s \in Sessions, session'[s] = NoTransaction \/ session'[s].step = 0
    PROVE  Held(s)' = {}
BY DEF Held, Busy

\* A session that lets its locks go keeps no other from its own.
LEMMA ExclusionLetGo ==
    ASSUME Exclusion, NEW s \in Sessions, UNCHANGED home,
           \A u \in Sessions : u # s => session'[u] = session[u],
           session'[s] = NoTransaction \/ session'[s].step = 0
    PROVE  Exclusion'
BY HeldStays, HeldNone DEF Exclusion

\* A lock is taken only when nobody holds it.
LEMMA ExclusionAcquire ==
    ASSUME Base, NEW s \in Sessions, Acquire(s) PROVE Exclusion'
<1> DEFINE x == session[s]
           l == Locks(x)[x.step + 1]
<1>1. /\ session'[s].kind = x.kind /\ session'[s].task = x.task /\ session'[s].key = x.key
      /\ session'[s].step = x.step + 1 /\ session'[s] # NoTransaction
      /\ \A u \in Sessions : u # s => session'[u] = session[u]
      /\ UNCHANGED home /\ x.step \in Nat /\ Busy(s)
  <2>1. UNCHANGED home /\ Busy(s)
    BY DEF Acquire
  <2> QED
    BY <2>1, Acquired DEF Base, Busy, OpenTransactions
<1>2. Held(s)' = Held(s) \cup {l}
  <2>1. Locks(session[s])' = Locks(x)
    BY <1>1 DEF Locks, Operation
  <2> HIDE DEF x
  <2> QED
    BY <1>1, <2>1 DEF Held, Busy, x
<1>3. \A u \in Sessions : u # s => l \notin Held(u)
  BY <1>1 DEF Acquire, Free, WaitsFor
<1>4. \A u \in Sessions : u # s => Held(u)' = Held(u)
  BY <1>1, HeldStays
<1> HIDE DEF l, x
<1> QED
  BY <1>2, <1>3, <1>4 DEF Exclusion, Base

-----------------------------------------------------------------------------
(* Types, openings and locks stay in order.                                  *)

Rows == /\ taskRun \in [Tasks -> RunsOfTasks] /\ ran \in [Tasks -> SUBSET Nat]
        /\ sandboxLimit \in [Projects -> Nat]

\* A session that opens a transaction, or puts another in the place of its own.
LEMMA BaseOpen ==
    ASSUME Base, NEW s \in Sessions, NEW x \in OpenTransactions, x.step = 0,
           session' = [session EXCEPT ![s] = x],
           x.kind \in {"post", "restart", "reject"} => <<x.task, x.key>> \in Posts,
           x.kind = "terminal" => <<x.task, x.key>> \in TerminalStarts,
           x.kind = "restart" => x.seen.state = "released",
           x.kind \in {"activate", "fail", "drain", "finish"} => x.seen.state \in Occupying,
           UNCHANGED <<home, offered, taskRun, ran, sandboxLimit>>
    PROVE  Base'
<1>1. session'[s] = x /\ \A u \in Sessions : u # s => session'[u] = session[u]
  BY DEF Base, Typed
<1>2. Typed'
  BY DEF Base, Typed
<1>3. 0 < Depth(x.kind)
  BY DEF Depth, OpenTransactions, Kinds
<1>4. WellOpened'
  BY <1>1, <1>3 DEF Base, WellOpened, Busy, Command
<1>5. Exclusion'
  BY <1>1, ExclusionLetGo DEF Base
<1> QED
  BY <1>2, <1>4, <1>5 DEF Base

\* A transaction that ends lets its locks go and disturbs no other.
LEMMA BaseClose ==
    ASSUME Base, NEW s \in Sessions, Close(s), Rows', UNCHANGED <<home, offered>>
    PROVE  Base'
<1>1. session'[s] = NoTransaction /\ \A u \in Sessions : u # s => session'[u] = session[u]
  BY DEF Base, Typed, Close
<1>2. Typed'
  BY DEF Base, Typed, Close, Rows
<1>3. WellOpened'
  BY <1>1 DEF Base, WellOpened, Busy, Command
<1>4. Exclusion'
  BY <1>1, ExclusionLetGo DEF Base
<1> QED
  BY <1>2, <1>3, <1>4 DEF Base

\* A conflict turns into a transaction that holds nothing yet.
LEMMA BaseConflict ==
    ASSUME Base, NEW s \in Sessions, Busy(s), session[s].kind \in {"post", "restart"}, Conflict(s),
           UNCHANGED <<home, offered, taskRun, ran, sandboxLimit>>
    PROVE  Base'
<1> DEFINE x == [session[s] EXCEPT !.kind = "reject", !.step = 0]
<1>1. session[s] \in OpenTransactions
  BY BusyTyped DEF Base
<1>2. /\ x \in OpenTransactions /\ x.step = 0 /\ x.kind = "reject"
      /\ x.task = session[s].task /\ x.key = session[s].key
  <2>1. 0 \in 0..3 /\ "reject" \in Kinds
    BY DEF Kinds
  <2> QED
    BY <1>1, <2>1 DEF OpenTransactions
<1>3. session' = [session EXCEPT ![s] = x]
  BY DEF Conflict, Base, Typed
<1>4. <<x.task, x.key>> \in Posts
  <2>1. session[s].kind \in {"post", "restart", "reject"} => Command(s) \in Posts
    BY DEF Base, WellOpened
  <2> QED
    BY <1>2, <2>1 DEF Command
<1> HIDE DEF x
<1> QED
  BY <1>2, <1>3, <1>4, BaseOpen

\* Taking a lock keeps the transactions well formed and apart.
LEMMA BaseAcquire == ASSUME Base, NEW s \in Sessions, Acquire(s) PROVE Base'
<1>1. UNCHANGED <<home, offered, taskRun, ran, sandboxLimit>> /\ Busy(s)
  BY DEF Acquire
<1>2. Typed'
  BY <1>1, Acquired DEF Base, Typed
<1>3. WellOpened'
  <2> SUFFICES ASSUME NEW u \in Sessions, Busy(u)'
               PROVE  LET x == session'[u]
                      IN  /\ x.kind \in {"post", "restart", "reject"} => Command(u)' \in Posts
                          /\ x.kind = "terminal" => Command(u)' \in TerminalStarts
                          /\ x.step < Depth(x.kind)
                          /\ x.kind = "restart" => x.seen.state = "released"
                          /\ x.kind \in {"activate", "fail", "drain", "finish"} => x.seen.state \in Occupying
    BY DEF WellOpened
  <2>1. CASE u = s
    BY <1>1, <2>1, Acquired DEF Base, WellOpened, Command
  <2>2. CASE u # s
    BY <2>2, Acquired DEF Base, WellOpened, Command, Busy
  <2> QED
    BY <2>1, <2>2
<1> QED
  BY <1>2, <1>3, ExclusionAcquire DEF Base

\* A transaction opened for a command or a Task that fits it is well formed.
LEMMA Opened ==
    ASSUME Base, NEW s \in Sessions, NEW kind \in Kinds, NEW t \in Tasks, NEW k \in CommandKeys,
           Open(s, kind, t, k),
           kind \in {"post", "restart", "reject"} => <<t, k>> \in Posts,
           kind = "terminal" => <<t, k>> \in TerminalStarts,
           kind = "restart" => RunState(t) = "released",
           kind \in {"activate", "fail", "drain", "finish"} => RunState(t) \in Occupying
    PROVE  Base'
<1> DEFINE x == [kind |-> kind, task |-> t, key |-> k, seen |-> Observed(kind, t), step |-> 0,
                 room |-> "free"]
<1>1. Observed(kind, t) \in RunsOfTasks
  BY DEF Observed, Unseen, RunsOfTasks, Base, Typed
<1>2. kind \in {"restart", "activate", "fail", "drain", "finish"} => Observed(kind, t).state = RunState(t)
  BY DEF Observed, RunState
<1>3. x \in OpenTransactions
  BY <1>1 DEF OpenTransactions, Rooms
<1>4. session' = [session EXCEPT ![s] = x] /\ UNCHANGED <<home, offered, taskRun, ran, sandboxLimit>>
  BY DEF Open
<1>5. x.kind = kind /\ x.task = t /\ x.key = k /\ x.seen = Observed(kind, t) /\ x.step = 0
  OBVIOUS
<1> HIDE DEF x
<1> QED
  BY <1>2, <1>3, <1>4, <1>5, BaseOpen

\* A post or terminal start as a Task and a key.
LEMMA Keyed ==
    /\ \A k \in Posts : <<k[1], k[2]>> = k /\ k[1] \in Tasks /\ k[2] \in CommandKeys
    /\ \A k \in TerminalStarts : <<k[1], k[2]>> = k /\ k[1] \in Tasks /\ k[2] \in CommandKeys
BY CommandConstants DEF CommandKeys

\* Every opening is one of those.
LEMMA BaseOpenings ==
    ASSUME Base, NEW s \in Sessions,
           \/ \E k \in offered.posts : OpenPost(s, k)
           \/ \E k \in offered.starts : OpenTerminal(s, k)
           \/ \E t \in Tasks : OpenOther(s, t)
    PROVE  Base'
<1>1. ASSUME NEW k \in Posts, OpenPost(s, k) PROVE Base'
  <2>1. PICK kind \in {"post", "restart"} :
          Open(s, kind, k[1], k[2]) /\ (kind = "restart" => RunState(k[1]) = "released")
    BY <1>1 DEF OpenPost
  <2> QED
    BY <2>1, Keyed, Opened DEF Kinds
<1>2. ASSUME NEW k \in TerminalStarts, OpenTerminal(s, k) PROVE Base'
  BY <1>2, Keyed, Opened DEF Kinds, OpenTerminal
<1>3. ASSUME NEW t \in Tasks, OpenOther(s, t) PROVE Base'
  <2>1. PICK kind \in {"create", "activate", "drain", "fail", "finish", "limit"} :
          /\ Open(s, kind, t, NoKey)
          /\ kind \in {"activate", "fail", "drain", "finish"} => RunState(t) \in Occupying
    BY <1>3 DEF OpenOther, Occupying
  <2> QED
    BY <2>1, Opened DEF Kinds, CommandKeys
<1> QED
  BY <1>1, <1>2, <1>3 DEF Base, Typed

\* What commits leave of the rows is rows.
LEMMA AdmitTyped ==
    ASSUME Typed, NEW t \in Tasks, Admit(t) PROVE taskRun' \in [Tasks -> RunsOfTasks]
BY DEF Typed, Admit, RunsOfTasks, Occupying

\* A Run that changes its state keeps its type.
LEMMA ToTyped ==
    ASSUME Typed, NEW t \in Tasks, NEW state \in {"active", "ending", "released"}, To(t, state)
    PROVE  taskRun' \in [Tasks -> RunsOfTasks]
BY DEF Typed, To, RunsOfTasks, Occupying

\* Every end of a transaction keeps Base.
LEMMA BaseCommits ==
    ASSUME Base, NEW s \in Sessions,
           \/ CommitCreate(s) \/ CommitPost(s) \/ CommitRestart(s) \/ CommitReject(s)
           \/ CommitTerminal(s) \/ CommitActivate(s) \/ CommitEnd(s) \/ CommitFinish(s)
           \/ CommitLimit(s) \/ ReturnEarly(s) \/ Abort(s)
    PROVE  Base'
<1> DEFINE t == session[s].task
<1>0. Busy(s) /\ session[s] \in OpenTransactions /\ t \in Tasks
  <2>1. Busy(s)
    BY DEF CommitCreate, CommitPost, CommitRestart, CommitReject, CommitTerminal, CommitActivate,
           CommitEnd, CommitFinish, CommitLimit, ReturnEarly, Abort, Ready
  <2> QED
    BY <2>1, BusyTyped DEF Base, OpenTransactions
<1>1. Rows
  BY DEF Base, Typed, Rows
<1>2. CASE CommitCreate(s) \/ CommitTerminal(s)
  <2>1. (Admit(t) \/ UNCHANGED taskRun) /\ Close(s) /\ UNCHANGED <<home, offered, ran, sandboxLimit>>
    BY <1>2 DEF CommitCreate, CommitTerminal
  <2> QED
    BY <1>0, <1>1, <2>1, AdmitTyped, BaseClose DEF Base, Rows
<1>3. CASE CommitPost(s) \/ CommitRestart(s)
  <2>1. /\ Admit(t) \/ UNCHANGED taskRun
        /\ Close(s) \/ (Conflict(s) /\ UNCHANGED taskRun)
        /\ UNCHANGED <<home, offered, ran, sandboxLimit>>
        /\ session[s].kind \in {"post", "restart"}
    BY <1>3 DEF CommitPost, CommitRestart, CreateMessage, Ready
  <2> QED
    BY <1>0, <1>1, <2>1, AdmitTyped, BaseClose, BaseConflict DEF Base, Rows
<1>4. CASE CommitReject(s) \/ ReturnEarly(s) \/ Abort(s)
  BY <1>1, <1>4, BaseClose DEF CommitReject, ReturnEarly, Abort, Rows
<1>5. CASE CommitActivate(s)
  <2>1. /\ (To(t, "active") /\ ran' = [ran EXCEPT ![t] = @ \cup {taskRun[t].n}]) \/ UNCHANGED <<taskRun, ran>>
        /\ Close(s) /\ UNCHANGED <<home, offered, sandboxLimit>>
    BY <1>5 DEF CommitActivate
  <2>2. taskRun[t].n \in Nat
    BY <1>0 DEF Base, Typed, RunsOfTasks
  <2>3. taskRun' \in [Tasks -> RunsOfTasks] /\ ran' \in [Tasks -> SUBSET Nat]
    BY <1>0, <2>1, <2>2, ToTyped DEF Base, Typed
  <2> QED
    BY <1>1, <2>1, <2>3, BaseClose DEF Rows
<1>6. CASE CommitEnd(s) \/ CommitFinish(s)
  <2>1. /\ To(t, "ending") \/ To(t, "released") \/ UNCHANGED taskRun
        /\ Close(s) /\ UNCHANGED <<home, offered, ran, sandboxLimit>>
    BY <1>6 DEF CommitEnd, CommitFinish
  <2>2. taskRun' \in [Tasks -> RunsOfTasks]
    BY <1>0, <2>1, ToTyped DEF Base, Typed
  <2> QED
    BY <1>1, <2>1, <2>2, BaseClose DEF Rows
<1>7. CASE CommitLimit(s)
  <2>1. sandboxLimit' \in [Projects -> Nat]
    BY <1>7, CommandConstants DEF CommitLimit, Base, Typed
  <2> QED
    BY <1>1, <1>7, <2>1, BaseClose DEF CommitLimit, Rows
<1> QED
  BY <1>2, <1>3, <1>4, <1>5, <1>6, <1>7

\* Base is inductive.
LEMMA BaseStep == ASSUME Base, [CommandsNext]_commandVars PROVE Base'
<1>1. CASE UNCHANGED <<home, offered, taskRun, ran, sandboxLimit, session>>
  <2>1. Typed' /\ WellOpened'
    BY <1>1 DEF Base, Typed, WellOpened, Busy, Command
  <2>2. Exclusion'
    BY <1>1, HeldStays DEF Base, Exclusion
  <2> QED
    BY <2>1, <2>2 DEF Base
<1>2. ASSUME NEW k \in Posts, ExpirePost(k) PROVE Base'
  BY <1>1, <1>2 DEF ExpirePost
<1>3. CASE UNCHANGED commandVars
  BY <1>1, <1>3 DEF commandVars
<1> QED
  BY <1>2, <1>3, BaseOpenings, BaseAcquire, BaseCommits DEF CommandsNext

\* Base holds in the beginning.
LEMMA BaseInit == ASSUME CommandsInit PROVE Base
<1>1. \A s \in Sessions : ~Busy(s)
  BY DEF CommandsInit, Busy
<1>2. Typed
  BY CommandConstants DEF CommandsInit, Typed, RunsOfTasks
<1> QED
  BY <1>1, <1>2 DEF Base, WellOpened, Exclusion, Held

-----------------------------------------------------------------------------
(* Capacity.                                                                 *)

Running == {t \in Tasks : RunState(t) \in Occupying}
RunningIn(p) == {t \in Tasks : home[t] = p /\ RunState(t) \in Occupying}

\* A transaction that has counted the Runs.
Counting(s) ==
    /\ Busy(s)
    /\ \/ session[s].kind = "create" /\ session[s].step = 3
       \/ session[s].kind \in {"restart", "terminal"} /\ session[s].step \in 2..3

\* What it counted is still so: whoever could change it waits for its locks.
RoomStays ==
    \A s \in Sessions :
        Counting(s) /\ session[s].room = "free" =>
            /\ NamespaceRuns < NamespaceLimit
            /\ Unreleased(home[session[s].task]) < sandboxLimit[home[session[s].task]]

CountsRight ==
    /\ NamespaceRuns <= NamespaceLimit
    /\ \A p \in Projects : activeTasks[p] = Unreleased(p)

CapacityInv == Base /\ RoomStays /\ CountsRight

\* What is counted is finite, and the counts are cardinalities.
LEMMA CountTypes ==
    ASSUME NEW p
    PROVE  /\ IsFiniteSet(Running) /\ NamespaceRuns = Cardinality(Running) /\ NamespaceRuns \in Nat
           /\ IsFiniteSet(RunningIn(p)) /\ Unreleased(p) = Cardinality(RunningIn(p))
           /\ Unreleased(p) \in Nat
<1>1. IsFiniteSet(Running) /\ IsFiniteSet(RunningIn(p))
  BY CommandConstants, FS_Subset DEF Running, RunningIn
<1> QED
  BY <1>1, FS_CardinalityType DEF NamespaceRuns, Unreleased, Running, RunningIn

\* The same of the state after a step.
LEMMA CountTypesNext ==
    ASSUME NEW p
    PROVE  /\ IsFiniteSet(Running') /\ NamespaceRuns' = Cardinality(Running') /\ NamespaceRuns' \in Nat
           /\ IsFiniteSet(RunningIn(p)') /\ Unreleased(p)' = Cardinality(RunningIn(p)')
           /\ Unreleased(p)' \in Nat
<1>1. IsFiniteSet(Running') /\ IsFiniteSet(RunningIn(p)')
  BY CommandConstants, FS_Subset DEF Running, RunningIn
<1> QED
  BY <1>1, FS_CardinalityType DEF NamespaceRuns, Unreleased, Running, RunningIn

\* A Run that is admitted counts for one in its Project and in the namespace.
LEMMA AdmitCounts ==
    ASSUME Typed, UNCHANGED home, NEW t \in Tasks, RunState(t) \notin Occupying, Admit(t),
           NEW p
    PROVE  /\ NamespaceRuns' = NamespaceRuns + 1
           /\ Unreleased(p)' = IF p = home[t] THEN Unreleased(p) + 1 ELSE Unreleased(p)
<1>1. \A u \in Tasks : RunState(u)' = IF u = t THEN "starting" ELSE RunState(u)
  BY DEF Admit, RunState, Typed, RunsOfTasks
<1>2. Running' = Running \cup {t} /\ t \notin Running
  BY <1>1 DEF Running, Occupying
<1>3. RunningIn(p)' = IF p = home[t] THEN RunningIn(p) \cup {t} ELSE RunningIn(p)
  BY <1>1 DEF RunningIn, Occupying
<1>4. t \notin RunningIn(p)
  BY DEF RunningIn
<1>5. Cardinality(Running \cup {t}) = Cardinality(Running) + 1
  BY <1>2, CountTypes, FS_AddElement
<1>6. Cardinality(RunningIn(p) \cup {t}) = Cardinality(RunningIn(p)) + 1
  BY <1>4, CountTypes, FS_AddElement
<1> QED
  BY <1>2, <1>3, <1>5, <1>6, CountTypes, CountTypesNext

\* A Run that is not admitted does not count for more.
LEMMA OthersCountDown ==
    ASSUME UNCHANGED home, \A u \in Tasks : RunState(u)' \in Occupying => RunState(u) \in Occupying,
           NEW p
    PROVE  NamespaceRuns' <= NamespaceRuns /\ Unreleased(p)' <= Unreleased(p)
<1>1. Running' \subseteq Running /\ RunningIn(p)' \subseteq RunningIn(p)
  BY DEF Running, RunningIn
<1>2. Cardinality(Running') <= Cardinality(Running)
  BY <1>1, CountTypes, FS_Subset
<1>3. Cardinality(RunningIn(p)') <= Cardinality(RunningIn(p))
  BY <1>1, CountTypes, FS_Subset
<1> QED
  BY <1>2, <1>3, CountTypes, CountTypesNext

\* Counts stay as long as no Run begins or stops to occupy its place.
LEMMA SameCounts ==
    ASSUME UNCHANGED home, \A u \in Tasks : RunState(u)' \in Occupying <=> RunState(u) \in Occupying,
           NEW p
    PROVE  NamespaceRuns' = NamespaceRuns /\ Unreleased(p)' = Unreleased(p)
<1>1. Running' = Running /\ RunningIn(p)' = RunningIn(p)
  BY DEF Running, RunningIn
<1> QED
  BY <1>1, CountTypes, CountTypesNext

\* The steps, by what they do to Runs and usage.
Admission(s) ==
    /\ Counting(s) /\ session[s].room = "free" /\ session'[s] = NoTransaction
    /\ RunState(session[s].task) \notin Occupying /\ Admit(session[s].task)
Keeping ==
    /\ \A u \in Tasks : RunState(u)' \in Occupying <=> RunState(u) \in Occupying
    /\ UNCHANGED activeTasks
Releasing(t) == To(t, "released") /\ SetUsage(home[t])

\* Every step admits a Run, releases one, or leaves the counts as they are.
LEMMA RunSteps ==
    ASSUME Base, [CommandsNext]_commandVars
    PROVE  /\ UNCHANGED home
           /\ \/ \E s \in Sessions : Admission(s) /\ UNCHANGED sandboxLimit
              \/ \E t \in Tasks : Releasing(t) /\ UNCHANGED sandboxLimit
              \/ Keeping
<1>1. UNCHANGED <<taskRun, activeTasks>> => Keeping
  BY DEF Keeping, RunState
<1>2. ASSUME NEW s \in Sessions, Ready(s, "create") \/ Ready(s, "restart") \/ Ready(s, "terminal")
      PROVE  Counting(s) /\ session[s].task \in Tasks
  <2>1. session[s] \in OpenTransactions /\ Busy(s)
    BY <1>2, BusyTyped DEF Ready, Base
  <2>2. session[s].step + 1 = Depth(session[s].kind)
    BY <1>2, <2>1, LocksDepth DEF Ready, OpenTransactions
  <2> QED
    BY <1>2, <2>1, <2>2 DEF Ready, Counting, Depth, OpenTransactions
<1>3. ASSUME NEW s \in Sessions, Close(s) PROVE session'[s] = NoTransaction
  BY <1>3 DEF Close, Base, Typed
<1>4. ASSUME NEW s \in Sessions, CommitCreate(s) \/ CommitRestart(s) \/ CommitTerminal(s)
      PROVE  UNCHANGED <<home, sandboxLimit>> /\ (Admission(s) \/ Keeping)
  <2>1. CASE UNCHANGED <<taskRun, activeTasks>>
    BY <1>1, <1>4, <2>1 DEF CommitCreate, CommitRestart, CommitTerminal
  <2>2. CASE ~UNCHANGED <<taskRun, activeTasks>>
    <3>1. CASE CommitCreate(s)
      BY <1>2, <1>3, <2>2, <3>1 DEF CommitCreate, Admission, Occupying
    <3>2. CASE CommitRestart(s)
      <4>1. session[s].seen.state = "released"
        BY <3>2 DEF CommitRestart, Ready, Base, WellOpened
      <4> QED
        BY <1>2, <1>3, <2>2, <3>2, <4>1
           DEF CommitRestart, CreateMessage, Admission, Occupying, RunState
    <3>3. CASE CommitTerminal(s)
      BY <1>2, <1>3, <2>2, <3>3 DEF CommitTerminal, Admission, Occupying, RunState
    <3> QED
      BY <1>4, <3>1, <3>2, <3>3
  <2> QED
    BY <2>1, <2>2
<1>5. ASSUME NEW s \in Sessions, CommitActivate(s) \/ CommitEnd(s)
      PROVE  UNCHANGED home /\ Keeping
  <2>1. CASE UNCHANGED <<taskRun, activeTasks>>
    BY <1>1, <1>5, <2>1 DEF CommitActivate, CommitEnd
  <2>2. CASE ~UNCHANGED <<taskRun, activeTasks>>
    <3> DEFINE t == session[s].task
    <3>1. /\ (To(t, "active") \/ To(t, "ending"))
          /\ taskRun[t] = session[s].seen /\ UNCHANGED <<home, activeTasks>>
          /\ Busy(s) /\ session[s].kind \in {"activate", "fail", "drain"}
      BY <1>5, <2>2 DEF CommitActivate, CommitEnd, Ready
    <3>2. RunState(t) \in Occupying
      <4>1. session[s].seen.state \in Occupying
        BY <3>1 DEF Base, WellOpened
      <4> QED
        BY <3>1, <4>1 DEF RunState
    <3>3. \A u \in Tasks : u # t => taskRun'[u] = taskRun[u]
      BY <3>1 DEF To, Base, Typed
    <3>4. t \in Tasks => taskRun'[t].state \in Occupying
      <4>1. PICK state \in {"active", "ending"} : taskRun' = [taskRun EXCEPT ![t].state = state]
        BY <3>1 DEF To
      <4> HIDE DEF t
      <4> QED
        BY <4>1 DEF Base, Typed, RunsOfTasks, Occupying
    <3> HIDE DEF t
    <3> QED
      BY <3>1, <3>2, <3>3, <3>4 DEF Keeping, RunState
  <2> QED
    BY <2>1, <2>2
<1>6. ASSUME NEW s \in Sessions, CommitFinish(s)
      PROVE  UNCHANGED <<home, sandboxLimit>> /\ ((\E t \in Tasks : Releasing(t)) \/ Keeping)
  <2>1. session[s].task \in Tasks
    BY <1>6, BusyTyped DEF CommitFinish, Ready, Base, OpenTransactions
  <2> QED
    BY <1>1, <1>6, <2>1 DEF CommitFinish, Releasing
<1>7. ASSUME NEW s \in Sessions,
             \/ Acquire(s) \/ ReturnEarly(s) \/ Abort(s) \/ CommitPost(s) \/ CommitReject(s)
             \/ CommitLimit(s)
      PROVE  UNCHANGED home /\ Keeping
  BY <1>1, <1>7 DEF Acquire, ReturnEarly, Abort, CommitPost, CommitReject, CommitLimit
<1>8. ASSUME NEW s \in Sessions,
             \/ \E k \in offered.posts : OpenPost(s, k)
             \/ \E k \in offered.starts : OpenTerminal(s, k)
             \/ \E t \in Tasks : OpenOther(s, t)
      PROVE  UNCHANGED home /\ Keeping
  BY <1>1, <1>8 DEF OpenPost, OpenTerminal, OpenOther, Open
<1>9. ASSUME NEW k \in Posts, ExpirePost(k) PROVE UNCHANGED home /\ Keeping
  BY <1>1, <1>9 DEF ExpirePost
<1>10. CASE UNCHANGED commandVars
  BY <1>1, <1>10 DEF commandVars
<1> QED
  BY <1>4, <1>5, <1>6, <1>7, <1>8, <1>9, <1>10 DEF CommandsNext

\* A limit changes only under the lock of its Project.
LEMMA LimitSteps ==
    ASSUME Base, [CommandsNext]_commandVars, sandboxLimit' # sandboxLimit
    PROVE  \E s \in Sessions : CommitLimit(s)
<1>1. ASSUME NEW s \in Sessions,
             \/ \E k \in offered.posts : OpenPost(s, k)
             \/ \E k \in offered.starts : OpenTerminal(s, k)
             \/ \E t \in Tasks : OpenOther(s, t)
      PROVE  UNCHANGED sandboxLimit
  BY <1>1 DEF OpenPost, OpenTerminal, OpenOther, Open
<1>2. ASSUME NEW s \in Sessions, Acquire(s) \/ ReturnEarly(s) \/ Abort(s)
      PROVE  UNCHANGED sandboxLimit
  BY <1>2 DEF Acquire, ReturnEarly, Abort
<1>3. ASSUME NEW s \in Sessions,
             \/ CommitCreate(s) \/ CommitPost(s) \/ CommitRestart(s) \/ CommitReject(s)
             \/ CommitTerminal(s) \/ CommitActivate(s) \/ CommitEnd(s) \/ CommitFinish(s)
      PROVE  UNCHANGED sandboxLimit
  BY <1>3 DEF CommitCreate, CommitPost, CommitRestart, CommitReject, CommitTerminal, CommitActivate,
              CommitEnd, CommitFinish
<1>4. ASSUME NEW k \in Posts, ExpirePost(k) PROVE UNCHANGED sandboxLimit
  BY <1>4 DEF ExpirePost
<1> QED
  BY <1>1, <1>2, <1>3, <1>4 DEF CommandsNext, commandVars

\* Whoever counts holds the Project, so that its limit stays.
LEMMA LimitKept ==
    ASSUME Base, [CommandsNext]_commandVars, NEW u \in Sessions, Counting(u)
    PROVE  sandboxLimit'[home[session[u].task]] = sandboxLimit[home[session[u].task]]
<1>1. CASE sandboxLimit' = sandboxLimit
  BY <1>1
<1>2. CASE sandboxLimit' # sandboxLimit
  <2>1. PICK s \in Sessions : CommitLimit(s)
    BY <1>2, LimitSteps
  <2> DEFINE p == home[session[s].task]
             q == home[session[u].task]
  <2>2. /\ Busy(s) /\ session[s].kind = "limit" /\ session[s].step = 0 /\ Free(s)
        /\ session[s].task \in Tasks
    <3>1. session[s] \in OpenTransactions /\ Busy(s) /\ session[s].kind = "limit" /\ Free(s)
      BY <2>1, BusyTyped DEF CommitLimit, Ready, Base
    <3>2. session[s].step < Depth("limit")
      BY <3>1 DEF Base, WellOpened
    <3> QED
      BY <3>1, <3>2 DEF OpenTransactions, Depth
  <2>3. Locks(session[s])[session[s].step + 1] = <<"project", p>>
    BY <2>2 DEF Locks
  <2>4. <<"project", q>> \in Held(u)
    BY CountingHolds DEF Counting, Base
  <2>5. s # u
    BY <2>2 DEF Counting
  <2>6. p # q
    BY <2>2, <2>3, <2>4, <2>5 DEF Free, WaitsFor
  <2>7. PICK n : sandboxLimit' = [sandboxLimit EXCEPT ![p] = n]
    BY <2>1 DEF CommitLimit
  <2>8. q \in Projects
    BY BusyTyped DEF Counting, Base, Typed, OpenTransactions
  <2> HIDE DEF p, q
  <2>9. sandboxLimit'[q] = sandboxLimit[q]
    BY <2>6, <2>7, <2>8 DEF Base, Typed
  <2> QED
    BY <2>9 DEF q
<1> QED
  BY <1>1, <1>2

\* A transaction with locks has just acquired one, or is as it was.
LEMMA Stepped ==
    ASSUME Base, [CommandsNext]_commandVars, NEW u \in Sessions, Busy(u)', session'[u].step # 0
    PROVE  session'[u] = session[u] \/ Acquire(u)
<1>1. ASSUME NEW s \in Sessions, s # u, Acquire(s) PROVE session'[u] = session[u]
  BY <1>1, Acquired DEF Base
<1>2. ASSUME NEW s \in Sessions, NEW x, session' = [session EXCEPT ![s] = x], x = NoTransaction \/ x.step = 0
      PROVE  session'[u] = session[u]
  BY <1>2 DEF Busy, Base, Typed
<1>3. ASSUME NEW s \in Sessions, Close(s) PROVE session'[u] = session[u]
  BY <1>2, <1>3 DEF Close
<1>4. ASSUME NEW s \in Sessions, Busy(s), Conflict(s) PROVE session'[u] = session[u]
  <2> DEFINE x == [session[s] EXCEPT !.kind = "reject", !.step = 0]
  <2>1. session[s] \in OpenTransactions
    BY <1>4, BusyTyped DEF Base
  <2>2. x.step = 0
    BY <2>1 DEF OpenTransactions
  <2>3. session' = [session EXCEPT ![s] = x]
    BY <1>4 DEF Conflict, Base, Typed
  <2> HIDE DEF x
  <2> QED
    BY <1>2, <2>2, <2>3
<1>5. ASSUME NEW s \in Sessions, NEW kind, NEW t, NEW k, Open(s, kind, t, k) PROVE session'[u] = session[u]
  <2> DEFINE x == [kind |-> kind, task |-> t, key |-> k, seen |-> Observed(kind, t), step |-> 0,
                   room |-> "free"]
  <2>1. session' = [session EXCEPT ![s] = x] /\ x.step = 0
    BY <1>5 DEF Open
  <2> HIDE DEF x
  <2> QED
    BY <1>2, <2>1
<1>6. ASSUME NEW s \in Sessions, OpenOther(s, session'[u].task) \/ (\E t \in Tasks : OpenOther(s, t))
      PROVE  session'[u] = session[u]
  BY <1>5, <1>6 DEF OpenOther
<1>7. ASSUME NEW s \in Sessions, CommitPost(s) \/ CommitRestart(s) PROVE session'[u] = session[u]
  BY <1>3, <1>4, <1>7 DEF CommitPost, CommitRestart, CreateMessage, Ready
<1>8. ASSUME NEW s \in Sessions,
              \/ CommitCreate(s) \/ CommitReject(s) \/ CommitTerminal(s) \/ CommitActivate(s)
              \/ CommitEnd(s) \/ CommitFinish(s) \/ CommitLimit(s) \/ ReturnEarly(s) \/ Abort(s)
       PROVE  session'[u] = session[u]
  BY <1>3, <1>8 DEF CommitCreate, CommitReject, CommitTerminal, CommitActivate, CommitEnd, CommitFinish,
                     CommitLimit, ReturnEarly, Abort
<1>9. ASSUME NEW s \in Sessions,
              (\E k \in offered.posts : OpenPost(s, k)) \/ (\E k \in offered.starts : OpenTerminal(s, k))
       PROVE  session'[u] = session[u]
  BY <1>5, <1>9 DEF OpenPost, OpenTerminal
<1> QED
  BY <1>1, <1>6, <1>7, <1>8, <1>9 DEF CommandsNext, ExpirePost, commandVars

\* Who counts after a step counted before, unless this is the step that counts.
LEMMA CountingSteps ==
    ASSUME Base, [CommandsNext]_commandVars, NEW u \in Sessions, Counting(u)'
    PROVE  \/ Counting(u) /\ session'[u] = session[u]
           \/ Acquire(u)
<1>1. session'[u] = session[u] \/ Acquire(u)
  BY Stepped DEF Counting
<1>2. session'[u] = session[u] => Counting(u)
  BY DEF Counting, Busy
<1> QED
  BY <1>1, <1>2

\* The step that counts finds room.
LEMMA CountsWhenAcquired ==
    ASSUME Base, NEW u \in Sessions, Acquire(u), Counting(u)', session'[u].room = "free",
           CapacityInv
    PROVE  /\ NamespaceRuns < NamespaceLimit
           /\ Unreleased(home[session[u].task]) < sandboxLimit[home[session[u].task]]
<1> DEFINE x == session[u]
           p == home[x.task]
<1>1. /\ x \in OpenTransactions /\ Busy(u) /\ session'[u].kind = x.kind
      /\ session'[u].step = x.step + 1
  BY Acquired DEF Base, Acquire
<1>2. CASE Counting(u)
  <2>1. session'[u].room = x.room
    <3>1. Locks(x)[x.step + 1] # <<"project", p>>
      <4>1. /\ x.kind \in {"restart", "terminal"} /\ x.step = 2
        BY <1>1, <1>2 DEF Counting, OpenTransactions
      <4> QED
        BY <4>1 DEF Locks, Operation
    <3> QED
      BY <1>1, <3>1 DEF Acquire, Base, Typed, OpenTransactions
  <2> QED
    BY <1>2, <2>1 DEF CapacityInv, RoomStays
<1>3. CASE ~Counting(u)
  <2>1. /\ x.kind \in {"create", "restart", "terminal"}
        /\ x.step = IF x.kind = "create" THEN 2 ELSE 1
    BY <1>1, <1>3 DEF Counting, OpenTransactions, Busy
  <2>2. Locks(x)[x.step + 1] = <<"project", p>>
    BY <2>1 DEF Locks
  <2>3. session' = [session EXCEPT ![u].step = @ + 1, ![u].room = Room(p)]
    BY <2>1, <2>2 DEF Acquire
  <2>4. session'[u].room = Room(p)
    BY <1>1, <2>3 DEF Base, Typed, OpenTransactions
  <2>5. p \in Projects
    BY <1>1 DEF Base, Typed, OpenTransactions
  <2>6. ~(Unreleased(p) >= sandboxLimit[p]) /\ ~(NamespaceRuns >= NamespaceLimit)
    BY <2>4 DEF Room
  <2>7. Unreleased(p) \in Nat /\ NamespaceRuns \in Nat /\ sandboxLimit[p] \in Nat /\ NamespaceLimit \in Nat
    BY <2>5, CountTypes, CommandConstants DEF Base, Typed
  <2> HIDE DEF p
  <2>8. NamespaceRuns < NamespaceLimit /\ Unreleased(p) < sandboxLimit[p]
    BY <2>6, <2>7
  <2> QED
    BY <2>8 DEF p
<1> QED
  BY <1>2, <1>3

\* The capacity invariant holds in the beginning.
LEMMA CapacityInit == CommandsInit => CapacityInv
<1> SUFFICES ASSUME CommandsInit PROVE CapacityInv
  OBVIOUS
<1>1. Base
  BY BaseInit
<1>2. RoomStays
  BY DEF CommandsInit, RoomStays, Counting, Busy
<1>3. Running = {} /\ \A p : RunningIn(p) = {}
  BY DEF CommandsInit, Running, RunningIn, RunState, Occupying
<1>4. NamespaceRuns = 0 /\ \A p : Unreleased(p) = 0
  BY <1>3, CountTypes, FS_EmptySet
<1>5. CountsRight
  BY <1>4, CommandConstants DEF CountsRight, CommandsInit
<1> QED
  BY <1>1, <1>2, <1>5 DEF CapacityInv

\* What a step does to the counts.
LEMMA CountSteps ==
    ASSUME CapacityInv, [CommandsNext]_commandVars
    PROVE  /\ CountsRight'
           /\ \A p \in Projects : Unreleased(p)' > Unreleased(p) => Unreleased(p)' <= sandboxLimit'[p]
<1>0. UNCHANGED home
  BY RunSteps DEF CapacityInv
<1>1. ASSUME NEW s \in Sessions, Admission(s), UNCHANGED sandboxLimit
      PROVE  /\ CountsRight'
             /\ \A p \in Projects : Unreleased(p)' > Unreleased(p) => Unreleased(p)' <= sandboxLimit'[p]
  <2> DEFINE t == session[s].task
  <2>1. t \in Tasks /\ home[t] \in Projects
    BY <1>1, BusyTyped DEF Admission, Counting, CapacityInv, Base, Typed, OpenTransactions
  <2>2. /\ NamespaceRuns < NamespaceLimit /\ Unreleased(home[t]) < sandboxLimit[home[t]]
        /\ RunState(t) \notin Occupying /\ Admit(t)
    BY <1>1 DEF Admission, CapacityInv, RoomStays
  <2> HIDE DEF t
  <2>3. \A p : /\ NamespaceRuns' = NamespaceRuns + 1
               /\ Unreleased(p)' = IF p = home[t] THEN Unreleased(p) + 1 ELSE Unreleased(p)
    BY <1>0, <2>1, <2>2, AdmitCounts DEF CapacityInv, Base
  <2>4. NamespaceRuns' <= NamespaceLimit
    BY <2>2, <2>3, CountTypes, CommandConstants
  <2>5. \A p \in Projects : activeTasks'[p] = Unreleased(p)'
    BY <2>2, <2>3 DEF Admit, SetUsage, CapacityInv, CountsRight
  <2>6. ASSUME NEW p \in Projects, Unreleased(p)' > Unreleased(p) PROVE Unreleased(p)' <= sandboxLimit'[p]
    <3>1. Unreleased(p) \in Nat /\ sandboxLimit[p] \in Nat
      BY CountTypes DEF CapacityInv, Base, Typed
    <3>2. p = home[t]
      BY <2>3, <2>6, <3>1
    <3> QED
      BY <1>1, <2>2, <2>3, <3>1, <3>2
  <2> QED
    BY <2>4, <2>5, <2>6 DEF CountsRight
<1>2. ASSUME \A u \in Tasks : RunState(u)' \in Occupying => RunState(u) \in Occupying
      PROVE  /\ NamespaceRuns' <= NamespaceLimit
             /\ \A p \in Projects : ~(Unreleased(p)' > Unreleased(p))
  <2>1. \A p : NamespaceRuns' <= NamespaceRuns /\ Unreleased(p)' <= Unreleased(p)
    BY <1>0, <1>2, OthersCountDown
  <2>2. \A p : /\ NamespaceRuns \in Nat /\ NamespaceRuns' \in Nat
               /\ Unreleased(p) \in Nat /\ Unreleased(p)' \in Nat
    BY CountTypes, CountTypesNext
  <2>3. NamespaceRuns <= NamespaceLimit
    BY DEF CapacityInv, CountsRight
  <2> QED
    BY <2>1, <2>2, <2>3, CommandConstants
<1>3. ASSUME NEW t \in Tasks, Releasing(t)
      PROVE  /\ CountsRight'
             /\ \A p \in Projects : Unreleased(p)' > Unreleased(p) => Unreleased(p)' <= sandboxLimit'[p]
  <2>1. \A u \in Tasks : RunState(u)' = IF u = t THEN "released" ELSE RunState(u)
    BY <1>3 DEF Releasing, To, RunState, CapacityInv, Base, Typed, RunsOfTasks
  <2>2. \A u \in Tasks : RunState(u)' \in Occupying => RunState(u) \in Occupying
    BY <2>1 DEF Occupying
  <2>3. ASSUME NEW p \in Projects PROVE activeTasks'[p] = Unreleased(p)'
    <3>1. CASE p = home[t]
      BY <1>3, <3>1 DEF Releasing, SetUsage
    <3>2. CASE p # home[t]
      <4>1. RunningIn(p)' = RunningIn(p)
        BY <1>0, <2>1, <3>2 DEF RunningIn
      <4>2. Unreleased(p)' = Unreleased(p)
        BY <4>1, CountTypes, CountTypesNext
      <4> QED
        BY <1>3, <3>2, <4>2 DEF Releasing, SetUsage, CapacityInv, CountsRight
    <3> QED
      BY <3>1, <3>2
  <2> QED
    BY <1>2, <2>2, <2>3 DEF CountsRight
<1>4. ASSUME Keeping
      PROVE  /\ CountsRight'
             /\ \A p \in Projects : Unreleased(p)' > Unreleased(p) => Unreleased(p)' <= sandboxLimit'[p]
  <2>1. \A p : Unreleased(p)' = Unreleased(p)
    BY <1>0, <1>4, SameCounts DEF Keeping
  <2>2. \A p \in Projects : activeTasks'[p] = Unreleased(p)'
    BY <1>4, <2>1 DEF Keeping, CapacityInv, CountsRight
  <2> QED
    BY <1>2, <1>4, <2>2 DEF CountsRight, Keeping
<1> QED
  BY <1>1, <1>3, <1>4, RunSteps DEF CapacityInv

\* Two sessions never hold the namespace together.
LEMMA OneCounts ==
    ASSUME Base, NEW s \in Sessions, NEW u \in Sessions, Counting(s), Counting(u) PROVE s = u
<1>1. <<"namespace", "all">> \in Held(s) \cap Held(u)
  BY CountingHolds DEF Base, Counting
<1> QED
  BY <1>1 DEF Base, Exclusion

\* Room that was counted is still there after any step of another session.
LEMMA RoomStep ==
    ASSUME CapacityInv, [CommandsNext]_commandVars PROVE RoomStays'
<1> SUFFICES ASSUME NEW u \in Sessions, Counting(u)', session'[u].room = "free"
             PROVE  /\ NamespaceRuns' < NamespaceLimit
                    /\ Unreleased(home[session[u].task])' < sandboxLimit[home[session[u].task]]'
  BY DEF RoomStays
<1> PICK p : p = home[session[u].task]
  OBVIOUS
<1>0. Base /\ UNCHANGED home
  BY RunSteps DEF CapacityInv
<1>1. /\ NamespaceRuns < NamespaceLimit /\ Unreleased(p) < sandboxLimit[p]
      /\ session'[u].task = session[u].task /\ p \in Projects
      /\ \/ Counting(u) /\ session'[u] = session[u]
         \/ Acquire(u)
  <2>1. CASE Acquire(u)
    BY <1>0, <2>1, CountsWhenAcquired, Acquired DEF Base, Typed, OpenTransactions
  <2>2. CASE Counting(u) /\ session'[u] = session[u]
    BY <1>0, <2>2, BusyTyped DEF Counting, CapacityInv, RoomStays, Base, Typed, OpenTransactions
  <2> QED
    BY <1>0, <2>1, <2>2, CountingSteps
<1>2. home[session[u].task]' = p
  BY <1>0, <1>1
<1>3. sandboxLimit'[p] = sandboxLimit[p]
  <2>1. CASE Acquire(u)
    BY <2>1 DEF Acquire
  <2>2. CASE Counting(u)
    BY <1>0, <2>2, LimitKept
  <2> QED
    BY <1>1, <2>1, <2>2
<1>4. NamespaceRuns' <= NamespaceRuns /\ Unreleased(p)' <= Unreleased(p)
  <2>1. CASE \E s \in Sessions : Admission(s)
    <3>1. PICK s \in Sessions : Admission(s)
      BY <2>1
    <3>2. s # u
      BY <3>1 DEF Admission, Counting, Busy
    <3>3. ~Counting(u)
      BY <1>0, <3>1, <3>2, OneCounts DEF Admission
    <3>4. Acquire(u)
      BY <1>1, <3>3
    <3>5. session'[s] = session[s]
      BY <1>0, <3>2, <3>4, Acquired DEF Base
    <3> QED
      BY <3>1, <3>5 DEF Admission, Counting, Busy
  <2>2. CASE \E t \in Tasks : Releasing(t)
    <3>1. \A v \in Tasks : RunState(v)' \in Occupying => RunState(v) \in Occupying
      BY <1>0, <2>2 DEF Releasing, To, RunState, Base, Typed, RunsOfTasks, Occupying
    <3> QED
      BY <1>0, <3>1, OthersCountDown
  <2>3. CASE Keeping
    BY <1>0, <2>3, OthersCountDown DEF Keeping
  <2> QED
    BY <1>0, <2>1, <2>2, <2>3, RunSteps
<1>5. /\ NamespaceRuns \in Nat /\ NamespaceRuns' \in Nat
      /\ Unreleased(p) \in Nat /\ Unreleased(p)' \in Nat
      /\ NamespaceLimit \in Nat /\ sandboxLimit[p] \in Nat
  BY <1>0, <1>1, CountTypes, CountTypesNext, CommandConstants DEF Base, Typed
<1>6. NamespaceRuns' < NamespaceLimit /\ Unreleased(p)' < sandboxLimit'[p]
  BY <1>1, <1>3, <1>4, <1>5
<1>7. Unreleased(home[session[u].task])' = Unreleased(p)'
  BY <1>0, <1>2 DEF Unreleased
<1> QED
  BY <1>2, <1>6, <1>7

\* The capacity invariant is inductive.
LEMMA CapacityStep == CapacityInv /\ [CommandsNext]_commandVars => CapacityInv'
BY BaseStep, CountSteps, RoomStep DEF CapacityInv

\* No Run is admitted beyond the limit its Project has when it is admitted, or
\* beyond the namespace's, and the usage of a Project stays the number of its Runs
\* that are not released, whatever commands run at the same time
\* (lockSandboxAdmissionWithClient counts under both locks, admitSandboxRunWithClient
\* inserts under them).
THEOREM CapacityHeld == CommandsSpec => CapacityKept
<1>1. CapacityInv /\ [CommandsNext]_commandVars
      => [/\ NamespaceRuns' <= NamespaceLimit
          /\ \A p \in Projects : /\ activeTasks'[p] = Unreleased(p)'
                                 /\ Unreleased(p)' > Unreleased(p) =>
                                      Unreleased(p)' <= sandboxLimit'[p]]_commandVars
  BY CountSteps DEF CountsRight
<1> QED
  BY <1>1, CapacityInit, CapacityStep, PTL DEF CommandsSpec, CapacityKept

-----------------------------------------------------------------------------
(* Receipts.                                                                 *)

PostRows == posts \in [Posts -> [status: {"none", "claimed", "created", "refused"},
                                 claim: Sessions \cup {NoSession}, live: BOOLEAN]]
StartRows == starts \in [TerminalStarts ->
                            [status: {"none", "in_progress", "started", "failed", "refused"}, bound: Nat]]

Answered(k) == posts[k].status \in {"created", "refused"}

\* A post that holds its receipt and went on has found it unanswered, and nobody
\* answers it meanwhile.
PostUnanswered ==
    \A s \in Sessions : Busy(s) /\ session[s].kind = "post" /\ session[s].step = 2 => ~Answered(Command(s))

ActiveRan == \A t \in Tasks : RunState(t) = "active" => taskRun[t].n \in ran[t]

PostsTell == messages \subseteq Posts /\ \A k \in Posts : posts[k].status = "created" <=> k \in messages

StartTells(k) ==
    /\ starts[k].status = "in_progress" =>
         /\ taskRun[k[1]] = [n |-> starts[k].bound, state |-> "starting"]
         /\ \A j \in TerminalStarts : j[1] = k[1] /\ starts[j].status = "in_progress" => j = k
    /\ starts[k].status = "started" => starts[k].bound \in ran[k[1]]
StartsTell == \A k \in TerminalStarts : StartTells(k)

PostsInv == PostUnanswered /\ PostsTell
StartsInv == ActiveRan /\ StartsTell
ReceiptsInv == Base /\ PostRows /\ StartRows /\ PostsInv /\ StartsInv

\* The invariant of the receipts holds in the beginning.
LEMMA ReceiptsInit == CommandsInit => ReceiptsInv
<1> SUFFICES ASSUME CommandsInit PROVE ReceiptsInv
  OBVIOUS
<1>1. PostRows /\ StartRows
  BY DEF CommandsInit, PostRows, StartRows, NoPost, NoStart
<1>2. PostsInv
  BY DEF CommandsInit, PostsInv, PostUnanswered, PostsTell, NoPost, Busy
<1>3. StartsInv
  <2>1. \A t \in Tasks : RunState(t) # "active"
    BY DEF CommandsInit, RunState
  <2>2. \A k \in TerminalStarts : starts[k].status = "none"
    BY DEF CommandsInit, NoStart
  <2> QED
    BY <2>1, <2>2 DEF StartsInv, ActiveRan, StartsTell, StartTells
<1> QED
  BY <1>1, <1>2, <1>3, BaseInit DEF ReceiptsInv

-----------------------------------------------------------------------------
(* Posts.                                                                    *)

\* What a step does to the receipts of posts: it answers one that is not answered,
\* whose lock the session has, or answers none.
Answering(s, status) ==
    /\ Busy(s) /\ session[s].kind \in {"post", "restart", "reject"} /\ Free(s)
    /\ session[s].step + 1 = Depth(session[s].kind)
    /\ ~Answered(Command(s)) /\ AnswerPost(Command(s), status)
    /\ messages' = IF status = "created" THEN messages \cup {Command(s)} ELSE messages
    /\ Close(s)
Unanswering == (\A k \in Posts : posts'[k].status = posts[k].status) /\ UNCHANGED messages
Claiming(s) ==
    /\ Busy(s) /\ ~Answered(Command(s)) /\ UNCHANGED messages
    /\ posts' = [posts EXCEPT ![Command(s)] = [status |-> "claimed", claim |-> s, live |-> TRUE]]

\* A receipt that can be claimed has no answer.
LEMMA ClaimableUnanswered == ASSUME NEW s, Claimable(s) PROVE ~Answered(Command(s))
BY DEF Claimable, Answered

\* The transaction of a post works for a post.
LEMMA CommandPosted ==
    ASSUME Base, NEW s \in Sessions, Busy(s), session[s].kind \in {"post", "restart", "reject"}
    PROVE  Command(s) \in Posts
BY DEF Base, WellOpened

\* Every step answers one receipt of a post, claims one, or answers none.
LEMMA PostSteps ==
    ASSUME ReceiptsInv, [CommandsNext]_commandVars
    PROVE  /\ PostRows'
           /\ \/ \E s \in Sessions, status \in {"created", "refused"} : Answering(s, status)
              \/ \E s \in Sessions : Claiming(s) /\ session[s].kind \in {"post", "restart"}
              \/ Unanswering
<1> DEFINE Goal == /\ PostRows'
                   /\ \/ \E s \in Sessions, status \in {"created", "refused"} : Answering(s, status)
                      \/ \E s \in Sessions : Claiming(s) /\ session[s].kind \in {"post", "restart"}
                      \/ Unanswering
<1>0. PostRows /\ Base
  BY DEF ReceiptsInv
<1>1. UNCHANGED <<posts, messages>> => Goal
  BY <1>0 DEF Unanswering, PostRows
<1>2. ASSUME NEW s \in Sessions, NEW status \in {"created", "refused"}, Answering(s, status) PROVE Goal
  <2>1. PostRows'
    BY <1>0, <1>2, CommandPosted DEF Answering, AnswerPost, NoPost, PostRows
  <2> QED
    BY <1>2, <2>1
<1>3. ASSUME NEW s \in Sessions, Claiming(s), session[s].kind \in {"post", "restart"} PROVE Goal
  <2>1. PostRows'
    BY <1>0, <1>3, CommandPosted DEF Claiming, PostRows
  <2> QED
    BY <1>3, <2>1
<1>4. ASSUME NEW s \in Sessions, CommitPost(s) PROVE Goal
  <2>1. Busy(s) /\ Free(s) /\ session[s].kind = "post" /\ session[s].step + 1 = Depth("post")
    BY <1>0, <1>4, BusyTyped, LocksDepth DEF CommitPost, Ready, Base, OpenTransactions
  <2>2. session[s].step = 2
    BY <1>0, <2>1, BusyTyped DEF Depth, Base, OpenTransactions
  <2>3. ~Answered(Command(s))
    BY <2>1, <2>2 DEF ReceiptsInv, PostsInv, PostUnanswered
  <2>4. CASE CreateMessage(s)
    <3>1. Answering(s, "created")
      BY <2>1, <2>3, <2>4 DEF CreateMessage, Answering
    <3> QED
      BY <1>2, <3>1
  <2>5. CASE Conflict(s)
    <3>1. Claiming(s)
      BY <2>1, <2>3, <2>5 DEF Claiming, Conflict
    <3> QED
      BY <1>3, <2>1, <3>1
  <2> QED
    BY <1>4, <2>4, <2>5 DEF CommitPost
<1>5. ASSUME NEW s \in Sessions, CommitRestart(s) PROVE Goal
  <2>1. Busy(s) /\ Free(s) /\ session[s].kind = "restart" /\ session[s].step + 1 = Depth("restart")
    BY <1>0, <1>5, BusyTyped, LocksDepth DEF CommitRestart, Ready, Base, OpenTransactions
  <2>2. CASE ~Claimable(s)
    BY <1>1, <1>5, <2>2 DEF CommitRestart
  <2>3. CASE Claimable(s) /\ CreateMessage(s)
    <3>1. Answering(s, "created")
      BY <2>1, <2>3, ClaimableUnanswered DEF CreateMessage, Answering
    <3> QED
      BY <1>2, <3>1
  <2>4. CASE Claimable(s) /\ Conflict(s)
    <3>1. Claiming(s)
      BY <2>1, <2>4, ClaimableUnanswered DEF Claiming, Conflict
    <3> QED
      BY <1>3, <2>1, <3>1
  <2>5. CASE Claimable(s) /\ AnswerPost(Command(s), "refused") /\ Close(s) /\ UNCHANGED messages
    <3>1. Answering(s, "refused")
      BY <2>1, <2>5, ClaimableUnanswered DEF Answering
    <3> QED
      BY <1>2, <3>1
  <2> QED
    BY <1>5, <2>2, <2>3, <2>4, <2>5 DEF CommitRestart
<1>6. ASSUME NEW s \in Sessions, CommitReject(s) PROVE Goal
  <2>1. Busy(s) /\ Free(s) /\ session[s].kind = "reject" /\ session[s].step + 1 = Depth("reject")
    BY <1>0, <1>6, BusyTyped, LocksDepth DEF CommitReject, Ready, Base, OpenTransactions
  <2>2. CASE Claimable(s)
    <3>1. Answering(s, "refused")
      BY <1>6, <2>1, <2>2, ClaimableUnanswered DEF Answering, CommitReject
    <3> QED
      BY <1>2, <3>1
  <2> QED
    BY <1>1, <1>6, <2>2 DEF CommitReject
<1>7. ASSUME NEW s \in Sessions, Abort(s) PROVE Goal
  <2>1. PostRows' /\ \A k \in Posts : posts'[k].status = posts[k].status
    BY <1>0, <1>7 DEF Abort, PostRows
  <2> QED
    BY <1>7, <2>1 DEF Abort, Unanswering
<1>8. ASSUME NEW k \in Posts, ExpirePost(k) PROVE Goal
  <2>1. PostRows' /\ \A j \in Posts : posts'[j].status = posts[j].status
    BY <1>0, <1>8 DEF ExpirePost, PostRows
  <2> QED
    BY <1>8, <2>1 DEF ExpirePost, Unanswering
<1>9. ASSUME NEW s \in Sessions, NEW k \in offered.posts, OpenPost(s, k) PROVE Goal
  <2>1. k \in Posts
    BY <1>0 DEF Base, Typed
  <2>2. UNCHANGED posts \/ posts' = [posts EXCEPT ![k].claim = s, ![k].live = TRUE]
    BY <1>9 DEF OpenPost
  <2>3. PostRows' /\ \A j \in Posts : posts'[j].status = posts[j].status
    BY <1>0, <2>1, <2>2 DEF PostRows
  <2>4. UNCHANGED messages
    BY <1>9 DEF OpenPost, Open
  <2> QED
    BY <2>3, <2>4 DEF Unanswering
<1>10. ASSUME NEW s \in Sessions,
              \/ \E k \in offered.starts : OpenTerminal(s, k)
              \/ \E t \in Tasks : OpenOther(s, t)
       PROVE  Goal
  BY <1>1, <1>10 DEF OpenTerminal, OpenOther, Open
<1>11. ASSUME NEW s \in Sessions,
              \/ Acquire(s) \/ ReturnEarly(s) \/ CommitCreate(s) \/ CommitTerminal(s)
              \/ CommitActivate(s) \/ CommitEnd(s) \/ CommitFinish(s) \/ CommitLimit(s)
       PROVE  Goal
  BY <1>1, <1>11 DEF Acquire, ReturnEarly, CommitCreate, CommitTerminal, CommitActivate, CommitEnd,
                     CommitFinish, CommitLimit
<1>12. CASE UNCHANGED commandVars
  BY <1>1, <1>12 DEF commandVars
<1>13. Goal
  BY <1>4, <1>5, <1>6, <1>7, <1>8, <1>9, <1>10, <1>11, <1>12 DEF CommandsNext
<1> QED
  BY <1>13

\* What is said of the receipts of posts is inductive.
LEMMA PostsStep == ASSUME ReceiptsInv, [CommandsNext]_commandVars PROVE PostsInv'
<1>0. Base /\ PostRows /\ PostUnanswered /\ PostsTell /\ UNCHANGED home
  BY RunSteps DEF ReceiptsInv, PostsInv
<1>1. PostsTell'
  <2>1. ASSUME NEW s \in Sessions, NEW status \in {"created", "refused"}, Answering(s, status)
        PROVE  PostsTell'
    <3>1. Command(s) \in Posts
      BY <1>0, <2>1, CommandPosted DEF Answering
    <3>2. \A k \in Posts : posts'[k].status = IF k = Command(s) THEN status ELSE posts[k].status
      BY <1>0, <2>1, <3>1 DEF Answering, AnswerPost, NoPost, PostRows
    <3>3. Command(s) \notin messages
      BY <1>0, <2>1, <3>1 DEF PostsTell, Answering, Answered
    <3>4. messages' = IF status = "created" THEN messages \cup {Command(s)} ELSE messages
      BY <2>1 DEF Answering
    <3> QED
      BY <1>0, <3>1, <3>2, <3>3, <3>4 DEF PostsTell
  <2>2. ASSUME NEW s \in Sessions, Claiming(s), session[s].kind \in {"post", "restart"}
        PROVE  PostsTell'
    <3>1. Command(s) \in Posts
      BY <1>0, <2>2, CommandPosted DEF Claiming
    <3>2. \A k \in Posts : posts'[k].status = IF k = Command(s) THEN "claimed" ELSE posts[k].status
      BY <1>0, <2>2, <3>1 DEF Claiming, PostRows
    <3>3. Command(s) \notin messages
      BY <1>0, <2>2, <3>1 DEF PostsTell, Claiming, Answered
    <3> QED
      BY <1>0, <2>2, <3>1, <3>2, <3>3 DEF PostsTell, Claiming
  <2>3. CASE Unanswering
    BY <1>0, <2>3 DEF PostsTell, Unanswering
  <2> QED
    BY <2>1, <2>2, <2>3, PostSteps
<1>2. ASSUME NEW u \in Sessions, Busy(u)', session'[u].kind = "post", session'[u].step = 2
      PROVE  ~Answered(Command(u))'
  <2> PICK k : k = Command(u)
    OBVIOUS
  <2>1. CASE Acquire(u)
    <3>1. session[u].kind = "post" /\ session[u].step = 1 /\ Command(u)' = Command(u)
      BY <1>0, <1>2, <2>1, Acquired DEF Base, OpenTransactions, Command
    <3>2. Claimable(u) /\ UNCHANGED posts
      BY <2>1, <3>1 DEF Acquire
    <3> QED
      BY <3>1, <3>2, ClaimableUnanswered DEF Answered
  <2>2. CASE session'[u] = session[u]
    <3>1. /\ Busy(u) /\ session[u].kind = "post" /\ session[u].step = 2 /\ Command(u)' = k
          /\ k \in Posts /\ ~Answered(k)
      BY <1>0, <1>2, <2>2, CommandPosted DEF Busy, Command, PostUnanswered
    <3>2. <<"message", session[u].task, session[u].key>> \in Held(u)
      <4>1. Locks(session[u])[1] = <<"message", session[u].task, session[u].key>>
        BY <3>1 DEF Locks, Operation
      <4> QED
        BY <3>1, <4>1 DEF Held
    <3>3. ASSUME NEW s \in Sessions, NEW status \in {"created", "refused"}, Answering(s, status)
          PROVE  Command(s) # k
      <4> SUFFICES ASSUME Command(s) = k PROVE FALSE
        OBVIOUS
      <4>0. session[s].task = session[u].task /\ session[s].key = session[u].key
        BY DEF Command
      <4>1. s # u
        <5>1. session'[s] = NoTransaction
          BY <1>0, <3>3 DEF Answering, Close, Base, Typed
        <5> QED
          BY <2>2, <3>1, <5>1 DEF Busy
      <4>2. /\ Busy(s) /\ Free(s) /\ session[s].step + 1 = Depth(session[s].kind)
            /\ session[s].step \in Nat
        BY <1>0, <3>3, BusyTyped DEF Answering, Base, OpenTransactions
      <4>3. CASE session[s].kind = "post"
        <5>1. session[s].step = 2 /\ Locks(session[s])[1] = <<"message", session[u].task, session[u].key>>
          BY <4>0, <4>2, <4>3 DEF Depth, Locks, Operation
        <5>2. <<"message", session[u].task, session[u].key>> \in Held(s)
          BY <4>2, <5>1 DEF Held
        <5> QED
          BY <1>0, <3>2, <4>1, <5>2 DEF Base, Exclusion
      <4>4. CASE session[s].kind \in {"restart", "reject"}
        <5>1. Locks(session[s])[session[s].step + 1] = <<"message", session[u].task, session[u].key>>
          <6>1. CASE session[s].kind = "restart"
            <7>1. session[s].step + 1 = 4
              BY <4>2, <6>1 DEF Depth
            <7> QED
              BY <4>0, <6>1, <7>1 DEF Locks, Operation
          <6>2. CASE session[s].kind = "reject"
            <7>1. session[s].step + 1 = 1
              BY <4>2, <6>2 DEF Depth
            <7> QED
              BY <4>0, <6>2, <7>1 DEF Locks, Operation
          <6> QED
            BY <4>4, <6>1, <6>2
        <5> QED
          BY <3>2, <4>1, <4>2, <5>1 DEF Free, WaitsFor
      <4> QED
        BY <3>3, <4>3, <4>4 DEF Answering
    <3>4. ~(posts'[k].status \in {"created", "refused"})
      <4>1. ASSUME NEW s \in Sessions, NEW status \in {"created", "refused"}, Answering(s, status)
            PROVE  posts'[k].status = posts[k].status
        BY <1>0, <3>1, <3>3, <4>1 DEF Answering, AnswerPost, PostRows
      <4>2. ASSUME NEW s \in Sessions, Claiming(s)
            PROVE  posts'[k].status \in {"claimed", posts[k].status}
        BY <1>0, <3>1, <4>2 DEF Claiming, PostRows
      <4>3. Unanswering => posts'[k].status = posts[k].status
        BY <3>1 DEF Unanswering
      <4> QED
        BY <3>1, <4>1, <4>2, <4>3, PostSteps DEF Answered
    <3> QED
      BY <3>1, <3>4 DEF Answered
  <2> QED
    BY <1>0, <1>2, <2>1, <2>2, Stepped
<1> QED
  BY <1>1, <1>2 DEF PostsInv, PostUnanswered

-----------------------------------------------------------------------------
(* Terminal starts.                                                          *)

\* A terminal start belongs to a Task.
LEMMA StartKeys == \A k \in TerminalStarts : k[1] \in Tasks
BY CommandConstants

\* A step on one Task need only be looked at there.
LEMMA StartsAt ==
    ASSUME ReceiptsInv, NEW t \in Tasks,
           \A u \in Tasks : u # t => taskRun'[u] = taskRun[u],
           \A u \in Tasks : ran[u] \subseteq ran'[u],
           \A k \in TerminalStarts : k[1] # t => starts'[k] = starts[k],
           \A k \in TerminalStarts : k[1] = t => StartTells(k)',
           RunState(t)' = "active" => taskRun'[t].n \in ran'[t]
    PROVE  StartsInv'
<1>1. ActiveRan'
  BY DEF ActiveRan, RunState, ReceiptsInv, StartsInv
<1>2. ASSUME NEW k \in TerminalStarts PROVE StartTells(k)'
  <2>1. CASE k[1] = t
    BY <2>1
  <2>2. CASE k[1] # t
    <3>1. StartTells(k) /\ starts'[k] = starts[k] /\ taskRun'[k[1]] = taskRun[k[1]]
          /\ ran[k[1]] \subseteq ran'[k[1]]
      BY <2>2, StartKeys DEF ReceiptsInv, StartsInv, StartsTell
    <3>2. \A j \in TerminalStarts : j[1] = k[1] => starts'[j] = starts[j]
      BY <2>2
    <3> QED
      BY <3>1, <3>2 DEF StartTells
  <2> QED
    BY <2>1, <2>2
<1> QED
  BY <1>1, <1>2 DEF StartsInv, StartsTell

\* A Task with a released Sandbox has no terminal start in progress.
LEMMA StartsAdmit ==
    ASSUME ReceiptsInv, NEW t \in Tasks, RunState(t) \notin Occupying, Admit(t), UNCHANGED <<starts, ran>>
    PROVE  StartsInv'
<1>1. /\ taskRun'[t].state = "starting"
      /\ \A u \in Tasks : u # t => taskRun'[u] = taskRun[u]
  BY DEF Admit, ReceiptsInv, Base, Typed, RunsOfTasks
<1>2. ASSUME NEW k \in TerminalStarts, k[1] = t PROVE StartTells(k)'
  <2>1. StartTells(k)
    BY DEF ReceiptsInv, StartsInv, StartsTell
  <2>2. starts[k].status # "in_progress"
    BY <1>2, <2>1 DEF StartTells, RunState, Occupying
  <2> QED
    BY <2>1, <2>2 DEF StartTells
<1> QED
  BY <1>1, <1>2, StartsAt DEF RunState

\* An answer to a terminal start.
LEMMA StartsPut ==
    ASSUME ReceiptsInv, NEW c \in TerminalStarts, NEW status, NEW n, UNCHANGED ran,
           starts' = [starts EXCEPT ![c] = [status |-> status, bound |-> n]],
           \A u \in Tasks : u # c[1] => taskRun'[u] = taskRun[u],
           \/ taskRun'[c[1]] = taskRun[c[1]]
           \/ /\ taskRun'[c[1]].state = "starting"
              /\ \A k \in TerminalStarts : k[1] = c[1] => starts[k].status # "in_progress",
           status = "in_progress" =>
             /\ taskRun'[c[1]] = [n |-> n, state |-> "starting"]
             /\ \A k \in TerminalStarts : k[1] = c[1] /\ k # c => starts[k].status # "in_progress",
           status = "started" => n \in ran[c[1]]
    PROVE  StartsInv'
<1>1. /\ starts'[c] = [status |-> status, bound |-> n]
      /\ \A k \in TerminalStarts : k # c => starts'[k] = starts[k]
  BY DEF ReceiptsInv, StartRows
<1>2. ASSUME NEW k \in TerminalStarts, k[1] = c[1] PROVE StartTells(k)'
  <2>1. CASE k = c
    BY <1>1, <2>1 DEF StartTells
  <2>2. CASE k # c
    <3>1. StartTells(k) /\ starts'[k] = starts[k]
      BY <1>1, <2>2 DEF ReceiptsInv, StartsInv, StartsTell
    <3>2. CASE starts[k].status = "in_progress"
      <4>1. taskRun'[k[1]] = taskRun[k[1]] /\ status # "in_progress"
        BY <1>2, <2>2, <3>2
      <4> QED
        BY <1>1, <3>1, <3>2, <4>1 DEF StartTells
    <3> QED
      BY <3>1, <3>2 DEF StartTells
  <2> QED
    BY <2>1, <2>2
<1>3. RunState(c[1])' = "active" => taskRun'[c[1]].n \in ran'[c[1]]
  BY StartKeys DEF ReceiptsInv, StartsInv, ActiveRan, RunState
<1> QED
  BY <1>1, <1>2, <1>3, StartKeys, StartsAt

\* The transaction of a terminal start keeps the receipts of starts true.
LEMMA StartsTerminal ==
    ASSUME ReceiptsInv, NEW s \in Sessions, CommitTerminal(s) PROVE StartsInv'
<1> DEFINE x == session[s]
           t == x.task
           c == Command(s)
           r == starts[c]
<1>0. /\ c \in TerminalStarts /\ c[1] = t /\ t \in Tasks /\ UNCHANGED ran
      /\ x.seen \in RunsOfTasks
  <2>1. Busy(s) /\ x.kind = "terminal" /\ UNCHANGED ran
    BY DEF CommitTerminal, Ready
  <2>2. x \in OpenTransactions
    BY <2>1, BusyTyped DEF ReceiptsInv, Base
  <2> QED
    BY <2>1, <2>2 DEF ReceiptsInv, Base, WellOpened, Command, OpenTransactions
<1>1. CASE UNCHANGED <<taskRun, starts>>
  <2> HIDE DEF x, t, c, r
  <2> QED
    BY <1>0, <1>1 DEF ReceiptsInv, StartsInv, ActiveRan, StartsTell, StartTells, RunState
<1> DEFINE owned == \E k \in TerminalStarts : k[1] = t /\ starts[k].status = "in_progress"
           Put(status, n) == starts' = [starts EXCEPT ![c] = [status |-> status, bound |-> n]]
           Join(n) == /\ IF taskRun[t].n = n /\ RunState(t) = "starting"
                         THEN Put("in_progress", n) ELSE Put(BoundAnswer(t, n), n)
                      /\ UNCHANGED taskRun
<1>2. ASSUME NEW n \in Nat, Join(n), r.status = "in_progress" \/ ~owned PROVE StartsInv'
  <2>1. \A k \in TerminalStarts : k[1] = t /\ k # c => starts[k].status # "in_progress"
    BY <1>0, <1>2 DEF ReceiptsInv, StartsInv, StartsTell, StartTells
  <2>2. CASE taskRun[t].n = n /\ RunState(t) = "starting"
    <3>1. taskRun[t] = [n |-> n, state |-> "starting"]
      BY <1>0, <2>2 DEF RunState, ReceiptsInv, Base, Typed, RunsOfTasks
    <3>2. Put("in_progress", n) /\ UNCHANGED taskRun
      BY <1>2, <2>2
    <3> HIDE DEF c, t, x
    <3> QED
      BY <1>0, <2>1, <3>1, <3>2, StartsPut
  <2>3. CASE ~(taskRun[t].n = n /\ RunState(t) = "starting")
    <3>1. Put(BoundAnswer(t, n), n) /\ UNCHANGED taskRun
      BY <1>2, <2>3
    <3>2. BoundAnswer(t, n) # "in_progress" /\ (BoundAnswer(t, n) = "started" => n \in ran[t])
      BY <1>0 DEF BoundAnswer, ReceiptsInv, StartsInv, ActiveRan
    <3> HIDE DEF c, t, x
    <3> QED
      BY <1>0, <3>1, <3>2, StartsPut
  <2> QED
    BY <2>2, <2>3
<1>3. ASSUME Put("refused", 0), UNCHANGED taskRun PROVE StartsInv'
  <2> HIDE DEF c, t, x
  <2> QED
    BY <1>0, <1>3, StartsPut
<1>4. ASSUME ~owned, taskRun[t] = x.seen, Admit(t), Put("in_progress", x.seen.n + 1) PROVE StartsInv'
  <2>1. /\ taskRun'[t] = [n |-> x.seen.n + 1, state |-> "starting"]
        /\ \A u \in Tasks : u # t => taskRun'[u] = taskRun[u]
    BY <1>0, <1>4 DEF Admit, ReceiptsInv, Base, Typed, RunsOfTasks
  <2> PICK n : n = x.seen.n + 1
    OBVIOUS
  <2>2. taskRun'[t] = [n |-> n, state |-> "starting"] /\ Put("in_progress", n)
    BY <1>4, <2>1
  <2>3. taskRun'[t].state = "starting"
    BY <2>2
  <2>4. \A k \in TerminalStarts : k[1] = t => starts[k].status # "in_progress"
    BY <1>4
  <2> HIDE DEF c, t, x
  <2> QED
    BY <1>0, <2>1, <2>2, <2>3, <2>4, StartsPut
<1>5. x.seen.n \in Nat /\ (r.status = "in_progress" => r.bound \in Nat)
  BY <1>0 DEF RunsOfTasks, ReceiptsInv, StartRows
<1>6. \/ UNCHANGED <<taskRun, starts>>
      \/ r.status = "in_progress" /\ Join(r.bound)
      \/ Put("refused", 0) /\ UNCHANGED taskRun
      \/ ~owned /\ Join(x.seen.n)
      \/ ~owned /\ taskRun[t] = x.seen /\ Admit(t) /\ Put("in_progress", x.seen.n + 1)
  BY DEF CommitTerminal
<1> HIDE DEF Join, Put, owned, x, c, t, r
<1> QED
  BY <1>1, <1>2, <1>3, <1>4, <1>5, <1>6

\* What ends the startup of a Run answers its terminal start.
LEMMA StartsEnd ==
    ASSUME ReceiptsInv, NEW t \in Tasks, NEW state \in {"active", "ending", "released"}, To(t, state),
           NEW answer \in {"started", "failed"}, Terminalize(t, answer),
           \A u \in Tasks : ran[u] \subseteq ran'[u],
           state = "active" \/ answer = "started" => taskRun[t].n \in ran'[t]
    PROVE  StartsInv'
<1>1. /\ taskRun'[t].state = state /\ taskRun'[t].n = taskRun[t].n
      /\ \A u \in Tasks : u # t => taskRun'[u] = taskRun[u]
  BY DEF To, ReceiptsInv, Base, Typed, RunsOfTasks
<1>2. \A k \in TerminalStarts :
         starts'[k] = IF k[1] = t /\ starts[k].status = "in_progress" /\ starts[k].bound = taskRun[t].n
                      THEN [starts[k] EXCEPT !.status = answer] ELSE starts[k]
  BY DEF Terminalize
<1>3. ASSUME NEW k \in TerminalStarts, k[1] = t PROVE StartTells(k)'
  <2>1. /\ StartTells(k)
        /\ starts[k] \in [status: {"none", "in_progress", "started", "failed", "refused"}, bound: Nat]
    BY DEF ReceiptsInv, StartRows, StartsInv, StartsTell
  <2>2. CASE starts[k].status = "in_progress"
    <3>1. starts[k].bound = taskRun[t].n
      BY <1>3, <2>1, <2>2 DEF StartTells
    <3>2. starts'[k].status = answer /\ starts'[k].bound = taskRun[t].n
      BY <1>2, <1>3, <2>1, <2>2, <3>1
    <3> QED
      BY <1>3, <3>2 DEF StartTells
  <2>3. CASE starts[k].status # "in_progress"
    <3>1. starts'[k] = starts[k] /\ ran[k[1]] \subseteq ran'[k[1]]
      BY <1>2, <1>3, <2>3
    <3> QED
      BY <2>1, <2>3, <3>1 DEF StartTells
  <2> QED
    BY <2>2, <2>3
<1>4. \A k \in TerminalStarts : k[1] # t => starts'[k] = starts[k]
  BY <1>2
<1> QED
  BY <1>1, <1>3, <1>4, StartsAt DEF RunState

\* What is said of the receipts of terminal starts is inductive.
LEMMA StartsStep == ASSUME ReceiptsInv, [CommandsNext]_commandVars PROVE StartsInv'
<1>0. ASSUME UNCHANGED <<taskRun, ran, starts>> PROVE StartsInv'
  BY <1>0 DEF ReceiptsInv, StartsInv, ActiveRan, StartsTell, StartTells, RunState
<1>1. ASSUME NEW s \in Sessions, CommitCreate(s) \/ CommitRestart(s) PROVE StartsInv'
  <2> DEFINE t == session[s].task
  <2>1. t \in Tasks /\ UNCHANGED <<starts, ran>>
    BY <1>1, BusyTyped
       DEF CommitCreate, CommitRestart, Ready, ReceiptsInv, Base, OpenTransactions
  <2>2. UNCHANGED taskRun \/ (Admit(t) /\ RunState(t) \notin Occupying)
    <3>1. CASE CommitCreate(s)
      BY <3>1 DEF CommitCreate, Occupying
    <3>2. CASE CommitRestart(s)
      <4>1. session[s].seen.state = "released"
        BY <3>2 DEF CommitRestart, Ready, ReceiptsInv, Base, WellOpened
      <4> QED
        BY <3>2, <4>1 DEF CommitRestart, Occupying, RunState
    <3> QED
      BY <1>1, <3>1, <3>2
  <2> HIDE DEF t
  <2> QED
    BY <1>0, <2>1, <2>2, StartsAdmit
<1>2. ASSUME NEW s \in Sessions, CommitActivate(s) PROVE StartsInv'
  <2> DEFINE t == session[s].task
  <2>1. t \in Tasks
    BY <1>2, BusyTyped DEF CommitActivate, Ready, ReceiptsInv, Base, OpenTransactions
  <2>2. CASE UNCHANGED <<taskRun, starts, ran>>
    BY <1>0, <2>2
  <2>3. CASE /\ To(t, "active") /\ Terminalize(t, "started")
             /\ ran' = [ran EXCEPT ![t] = @ \cup {taskRun[t].n}]
    <3> HIDE DEF t
    <3>1. (\A u \in Tasks : ran[u] \subseteq ran'[u]) /\ taskRun[t].n \in ran'[t]
      BY <2>1, <2>3 DEF ReceiptsInv, Base, Typed
    <3> QED
      BY <2>1, <2>3, <3>1, StartsEnd
  <2> QED
    BY <1>2, <2>2, <2>3 DEF CommitActivate
<1>3. ASSUME NEW s \in Sessions, CommitEnd(s) \/ CommitFinish(s) PROVE StartsInv'
  <2> DEFINE t == session[s].task
  <2>1. t \in Tasks /\ UNCHANGED ran
    BY <1>3, BusyTyped DEF CommitEnd, CommitFinish, Ready, ReceiptsInv, Base, OpenTransactions
  <2>2. \/ UNCHANGED <<taskRun, starts>>
        \/ \E state \in {"ending", "released"} : To(t, state) /\ Terminalize(t, "failed")
    BY <1>3 DEF CommitEnd, CommitFinish
  <2> HIDE DEF t
  <2> QED
    BY <1>0, <2>1, <2>2, StartsEnd
<1>4. ASSUME NEW s \in Sessions,
             \/ \E k \in offered.posts : OpenPost(s, k)
             \/ \E k \in offered.starts : OpenTerminal(s, k)
             \/ \E t \in Tasks : OpenOther(s, t)
      PROVE  StartsInv'
  BY <1>0, <1>4 DEF OpenPost, OpenTerminal, OpenOther, Open
<1>5. ASSUME NEW s \in Sessions,
             \/ Acquire(s) \/ ReturnEarly(s) \/ Abort(s) \/ CommitPost(s) \/ CommitReject(s)
             \/ CommitLimit(s)
      PROVE  StartsInv'
  BY <1>0, <1>5 DEF Acquire, ReturnEarly, Abort, CommitPost, CommitReject, CommitLimit
<1>6. ASSUME NEW k \in Posts, ExpirePost(k) PROVE StartsInv'
  BY <1>0, <1>6 DEF ExpirePost
<1>7. CASE UNCHANGED commandVars
  BY <1>0, <1>7 DEF commandVars
<1> QED
  BY <1>1, <1>2, <1>3, <1>4, <1>5, <1>6, <1>7, StartsTerminal DEF CommandsNext

\* Receipts of terminal starts keep their form.
LEMMA StartRowsStep == ASSUME ReceiptsInv, [CommandsNext]_commandVars PROVE StartRows'
<1>0. ASSUME UNCHANGED starts PROVE StartRows'
  BY <1>0 DEF ReceiptsInv, StartRows
<1>1. ASSUME NEW s \in Sessions, CommitTerminal(s) PROVE StartRows'
  <2> DEFINE t == session[s].task
  <2>1. Command(s) \in TerminalStarts /\ session[s].seen.n \in Nat /\ t \in Tasks
    <3>1. Busy(s) /\ session[s].kind = "terminal"
      BY <1>1 DEF CommitTerminal, Ready
    <3>2. session[s] \in OpenTransactions
      BY <3>1, BusyTyped DEF ReceiptsInv, Base
    <3> QED
      BY <3>1, <3>2 DEF ReceiptsInv, Base, WellOpened, OpenTransactions, RunsOfTasks
  <2>2. \A n : BoundAnswer(t, n) \in {"started", "failed"}
    BY DEF BoundAnswer
  <2>3. \/ UNCHANGED starts
        \/ \E status \in {"in_progress", "started", "failed", "refused"} :
             \E n \in {0, session[s].seen.n, session[s].seen.n + 1, starts[Command(s)].bound} :
               starts' = [starts EXCEPT ![Command(s)] = [status |-> status, bound |-> n]]
    BY <1>1, <2>2 DEF CommitTerminal
  <2>4. starts[Command(s)].bound \in Nat
    BY <2>1 DEF ReceiptsInv, StartRows
  <2> QED
    BY <1>0, <2>1, <2>3, <2>4 DEF ReceiptsInv, StartRows
<1>2. ASSUME NEW s \in Sessions, CommitActivate(s) \/ CommitEnd(s) \/ CommitFinish(s) PROVE StartRows'
  <2>1. \/ UNCHANGED starts
        \/ \E t : \E answer \in {"started", "failed"} : Terminalize(t, answer)
    BY <1>2 DEF CommitActivate, CommitEnd, CommitFinish
  <2> QED
    BY <1>0, <2>1 DEF ReceiptsInv, StartRows, Terminalize
<1>3. ASSUME NEW s \in Sessions,
             \/ \E k \in offered.posts : OpenPost(s, k)
             \/ \E k \in offered.starts : OpenTerminal(s, k)
             \/ \E t \in Tasks : OpenOther(s, t)
      PROVE  StartRows'
  BY <1>0, <1>3 DEF OpenPost, OpenTerminal, OpenOther, Open
<1>4. ASSUME NEW s \in Sessions,
             \/ Acquire(s) \/ ReturnEarly(s) \/ Abort(s) \/ CommitPost(s) \/ CommitReject(s)
             \/ CommitLimit(s) \/ CommitCreate(s) \/ CommitRestart(s)
      PROVE  StartRows'
  BY <1>0, <1>4 DEF Acquire, ReturnEarly, Abort, CommitPost, CommitReject, CommitLimit, CommitCreate,
                    CommitRestart
<1>5. ASSUME NEW k \in Posts, ExpirePost(k) PROVE StartRows'
  BY <1>0, <1>5 DEF ExpirePost
<1>6. CASE UNCHANGED commandVars
  BY <1>0, <1>6 DEF commandVars
<1> QED
  BY <1>1, <1>2, <1>3, <1>4, <1>5, <1>6 DEF CommandsNext

\* What the receipt of a post or of a terminal start says is so, whoever took it
\* over and whatever ended the startup (createTaskMessageAtomically,
\* completeRejectedTaskMessage, beginTerminalStart,
\* terminalizeTerminalStartOwnerWithClient).
THEOREM ReceiptsTrue == CommandsSpec => []ReceiptsTell
<1>1. ReceiptsInv /\ [CommandsNext]_commandVars => ReceiptsInv'
  BY BaseStep, PostSteps, PostsStep, StartsStep, StartRowsStep DEF ReceiptsInv
<1>2. ReceiptsInv => ReceiptsTell
  BY DEF ReceiptsInv, PostsInv, PostsTell, StartsInv, StartsTell, StartTells, ReceiptsTell
<1> QED
  BY <1>1, <1>2, ReceiptsInit, PTL DEF CommandsSpec

-----------------------------------------------------------------------------
(* The order of the locks.                                                   *)

Classes(kind) ==
    CASE kind = "create" -> <<"create", "namespace", "project", "library">>
      [] kind = "post" -> <<"message", "project", "task">>
      [] kind = "restart" -> <<"namespace", "project", "task", "message">>
      [] kind = "terminal" -> <<"namespace", "project", "task", "terminal-start">>
      [] kind \in {"activate", "fail"} -> <<"task">>
      [] kind = "drain" -> <<"project", "task">>
      [] kind = "finish" -> <<"namespace", "project", "task">>
      [] kind = "limit" -> <<"project">>
      [] kind = "reject" -> <<"message">>

Rank(class) == CASE class = "create" -> 0 [] class = "namespace" -> 1 [] class = "project" -> 2
                 [] class \in {"task", "library"} -> 3 [] class \in {"message", "terminal-start"} -> 4

\* The classes of a transaction's locks, in the order they are taken.
LEMMA LockClass ==
    ASSUME NEW x, x.kind \in Kinds, NEW i \in 1..Depth(x.kind)
    PROVE  Locks(x)[i][1] = Classes(x.kind)[i]
<1>1. CASE x.kind = "create"
  <2>1. i \in 1..4
    BY <1>1 DEF Depth
  <2> QED
    BY <1>1, <2>1 DEF Locks, Classes, Operation
<1>2. CASE x.kind = "post"
  <2>1. i \in 1..3
    BY <1>2 DEF Depth
  <2> QED
    BY <1>2, <2>1 DEF Locks, Classes, Operation
<1>3. CASE x.kind = "restart"
  <2>1. i \in 1..4
    BY <1>3 DEF Depth
  <2> QED
    BY <1>3, <2>1 DEF Locks, Classes, Operation
<1>4. CASE x.kind = "terminal"
  <2>1. i \in 1..4
    BY <1>4 DEF Depth
  <2> QED
    BY <1>4, <2>1 DEF Locks, Classes, Operation
<1>5. CASE x.kind = "reject"
  BY <1>5 DEF Locks, Classes, Depth, Operation
<1>6. CASE x.kind \in {"drain", "finish"}
  BY <1>6 DEF Locks, Classes, Depth
<1>7. CASE x.kind \in {"activate", "fail", "limit"}
  BY <1>7 DEF Locks, Classes, Depth
<1> QED
  BY <1>1, <1>2, <1>3, <1>4, <1>5, <1>6, <1>7 DEF Kinds

\* Every command takes its locks upwards, but a post whose receipt comes first.
LEMMA Upwards ==
    ASSUME NEW kind \in Kinds, NEW i \in 1..Depth(kind), NEW j \in 1..Depth(kind), i < j,
           Classes(kind)[i] # "message"
    PROVE  Rank(Classes(kind)[i]) < Rank(Classes(kind)[j])
<1>1. CASE kind = "create"
  BY <1>1 DEF Classes, Rank, Depth
<1>2. CASE kind = "post"
  BY <1>2 DEF Classes, Rank, Depth
<1>3. CASE kind = "restart"
  BY <1>3 DEF Classes, Rank, Depth
<1>4. CASE kind = "terminal"
  BY <1>4 DEF Classes, Rank, Depth
<1>5. CASE kind = "finish"
  BY <1>5 DEF Classes, Rank, Depth
<1>6. CASE kind = "drain"
  BY <1>6 DEF Classes, Rank, Depth
<1>7. CASE kind \in {"activate", "fail", "limit", "reject"}
  BY <1>7 DEF Depth
<1> QED
  BY <1>1, <1>2, <1>3, <1>4, <1>5, <1>6, <1>7 DEF Kinds

\* The class of the lock a session wants, and how high it is: a receipt that is
\* wanted first is wanted by nobody who keeps others waiting.
Wants(s) == Classes(session[s].kind)[session[s].step + 1]
Height(s) == IF Wants(s) = "message" /\ session[s].step = 0 THEN 0 ELSE Rank(Wants(s))

\* The height of a waiting session is a rank.
LEMMA Heights ==
    ASSUME Base, NEW s \in Sessions, Busy(s)
    PROVE  /\ Height(s) \in 0..4
           /\ session[s] \in OpenTransactions /\ session[s].step + 1 \in 1..Depth(session[s].kind)
<1>1. session[s] \in OpenTransactions /\ session[s].step < Depth(session[s].kind)
  BY BusyTyped DEF Base, WellOpened
<1>2. session[s].step + 1 \in 1..Depth(session[s].kind)
  BY <1>1 DEF OpenTransactions, Depth, Kinds
<1>3. ASSUME NEW kind \in Kinds, NEW i \in 1..Depth(kind) PROVE Rank(Classes(kind)[i]) \in 0..4
  <2>1. Classes(kind)[i] \in {"create", "message", "terminal-start", "namespace", "project", "task", "library"}
    <3>1. CASE kind \in {"create", "post", "finish"}
      BY <3>1 DEF Classes, Depth
    <3>2. CASE kind \in {"restart", "terminal"}
      BY <3>2 DEF Classes, Depth
    <3>3. CASE kind \in {"drain", "activate", "fail", "limit", "reject"}
      BY <3>3 DEF Classes, Depth
    <3> QED
      BY <3>1, <3>2, <3>3 DEF Kinds
  <2> QED
    BY <2>1 DEF Rank
<1> QED
  BY <1>1, <1>2, <1>3 DEF Height, Wants, OpenTransactions

\* A session waits for a higher one, except two posts under one key.
LEMMA WaitsUp ==
    ASSUME Base, NEW s \in Sessions, NEW u \in Sessions, WaitsFor(s, u), Busy(u)
    PROVE  RepeatedPosts(u, s) \/ Height(s) < Height(u)
<1> DEFINE x == session[s]
           y == session[u]
           l == Locks(x)[x.step + 1]
<1>1. Busy(s)
  BY DEF WaitsFor
<1>2. /\ x \in OpenTransactions /\ x.step + 1 \in 1..Depth(x.kind) /\ x.kind \in Kinds
      /\ y \in OpenTransactions /\ y.step + 1 \in 1..Depth(y.kind) /\ y.kind \in Kinds
      /\ x.step \in 0..3 /\ y.step \in 0..3
  BY <1>1, Heights DEF OpenTransactions
<1>3. PICK i \in 1..y.step : l = Locks(y)[i]
  BY DEF WaitsFor, Held
<1>4. Depth(y.kind) \in Nat
  BY <1>2 DEF Depth, Kinds
<1>5. i \in 1..Depth(y.kind) /\ i < y.step + 1 /\ y.step # 0
  BY <1>2, <1>3, <1>4
<1>6. Wants(s) = Classes(y.kind)[i] /\ l[1] = Wants(s)
  BY <1>2, <1>3, <1>5, LockClass DEF Wants
<1>7. CASE Wants(s) # "message"
  <2>1. Rank(Wants(s)) < Rank(Wants(u))
    BY <1>2, <1>5, <1>6, <1>7, Upwards DEF Wants
  <2> QED
    BY <1>5, <1>7, <2>1 DEF Height
<1>8. CASE Wants(s) = "message"
  <2>1. y.kind = "post" /\ i = 1
    <3>1. CASE y.kind = "restart"
      BY <1>2, <1>3, <1>6, <1>8, <3>1 DEF Classes, Depth
    <3>2. CASE y.kind \in {"drain", "activate", "fail", "limit", "reject"}
      BY <1>2, <1>3, <1>6, <1>8, <3>2 DEF Classes, Depth
    <3>3. CASE y.kind \in {"create", "terminal", "finish"}
      BY <1>2, <1>3, <1>6, <1>8, <3>3 DEF Classes, Depth
    <3>4. CASE y.kind = "post"
      BY <1>2, <1>3, <1>6, <1>8, <3>4 DEF Classes, Depth
    <3> QED
      BY <1>2, <3>1, <3>2, <3>3, <3>4 DEF Kinds
  <2>2. Height(u) >= 2
    BY <1>2, <1>5, <2>1 DEF Height, Wants, Classes, Rank, Depth
  <2>3. CASE x.step = 0
    <3>1. Height(s) = 0
      BY <1>8, <2>3 DEF Height
    <3> QED
      BY <1>1, <2>2, <3>1, Heights
  <2>4. CASE x.step # 0
    <3>1. x.kind = "restart" /\ x.step = 3
      <4>1. CASE x.kind \in {"restart", "post", "finish"}
        BY <1>2, <1>8, <2>4, <4>1 DEF Wants, Classes, Depth
      <4>2. CASE x.kind \in {"create", "terminal"}
        BY <1>2, <1>8, <2>4, <4>2 DEF Wants, Classes, Depth
      <4>3. CASE x.kind \in {"drain", "activate", "fail", "limit", "reject"}
        BY <1>2, <1>8, <2>4, <4>3 DEF Wants, Classes, Depth
      <4> QED
        BY <1>2, <4>1, <4>2, <4>3 DEF Kinds
    <3>2. l = <<"message", x.task, x.key>>
      BY <3>1 DEF Locks, Operation
    <3>3. l = <<"message", y.task, y.key>>
      BY <1>3, <2>1 DEF Locks, Operation
    <3>4. x.task = y.task /\ x.key = y.key
      BY <3>2, <3>3
    <3> QED
      BY <2>1, <3>1, <3>4 DEF RepeatedPosts, Command
  <2> QED
    BY <2>3, <2>4
<1> QED
  BY <1>7, <1>8

\* Sessions that wait for each other in a circle are two posts under one key, one
\* with and one without a restart; any other commands, on any number of Tasks and
\* Projects, never deadlock (the order of the locks in createTaskAtomically,
\* createTaskMessageAtomically, beginTerminalStart and the Run transactions).
THEOREM NoOtherDeadlock == CommandsSpec => []OnlyRepeatedPosts
<1>1. Base => OnlyRepeatedPosts
  <2> SUFFICES ASSUME Base, NEW circle \in (SUBSET Sessions) \ {{}},
                      \A s \in circle : \E u \in circle : WaitsFor(s, u),
                      \A s, u \in circle : ~RepeatedPosts(s, u)
               PROVE  FALSE
    BY DEF OnlyRepeatedPosts
  <2>1. ASSUME NEW s \in circle PROVE \E u \in circle : Height(s) < Height(u)
    <3>1. PICK u \in circle : WaitsFor(s, u)
      OBVIOUS
    <3>2. Busy(u)
      BY DEF WaitsFor
    <3> QED
      BY <3>1, <3>2, WaitsUp
  <2>2. \A s \in circle : Height(s) \in 0..4
    BY Heights DEF WaitsFor
  <2>3. ASSUME NEW n \in 1..5, \A s \in circle : Height(s) < n
        PROVE  \A s \in circle : Height(s) < n - 1
    <3> TAKE s \in circle
    <3>1. PICK u \in circle : Height(s) < Height(u)
      BY <2>1
    <3>2. Height(s) \in 0..4 /\ Height(u) \in 0..4 /\ Height(u) < n
      BY <2>2, <2>3
    <3> QED
      BY <3>1, <3>2
  <2>4. \A s \in circle : Height(s) < 5
    BY <2>2
  <2>5. \A s \in circle : Height(s) < 4
    BY <2>3, <2>4
  <2>6. \A s \in circle : Height(s) < 3
    BY <2>3, <2>5
  <2>7. \A s \in circle : Height(s) < 2
    BY <2>3, <2>6
  <2>8. \A s \in circle : Height(s) < 1
    BY <2>3, <2>7
  <2>9. \A s \in circle : Height(s) < 0
    BY <2>3, <2>8
  <2> QED
    BY <2>2, <2>9
<1>2. CommandsInit => Base
  BY BaseInit
<1>3. Base /\ [CommandsNext]_commandVars => Base'
  BY BaseStep
<1> QED
  BY <1>1, <1>2, <1>3, PTL DEF CommandsSpec

-----------------------------------------------------------------------------
(* The types, with the bound on admissions.                                  *)

\* A Run in use has a number, and no number passes the bound.
NumbersBounded ==
    /\ \A t \in Tasks : /\ taskRun[t].n <= MaxAdmissions
                        /\ RunState(t) \in Occupying => taskRun[t].n >= 1
    /\ \A s \in Sessions : Busy(s) => session[s].seen.n <= MaxAdmissions
    /\ ran \in [Tasks -> SUBSET (1..MaxAdmissions)]
    /\ \A k \in TerminalStarts : starts[k].bound <= MaxAdmissions
LimitsTyped ==
    /\ offered \in Offers /\ sandboxLimit \in [Projects -> SandboxLimits]
    /\ activeTasks \in [Projects -> Nat]

\* Only a claimed receipt has a claim or a lease.
ClaimsClaimed ==
    \A k \in Posts : posts[k].status # "claimed" => posts[k].claim = NoSession /\ ~posts[k].live

CommandsTyped == ReceiptsInv /\ NumbersBounded /\ LimitsTyped /\ ClaimsClaimed

\* A Task that has been given MaxAdmissions Runs leaves room for none.
LEMMA AdmissionsLeft ==
    ASSUME Typed, NEW t \in Tasks, Cardinality(Admitted) < MaxAdmissions
    PROVE  taskRun[t].n < MaxAdmissions
<1> DEFINE All == {t} \X (1..MaxAdmissions)
<1>1. taskRun[t].n \in Nat /\ MaxAdmissions \in Nat
  BY CommandConstants DEF Typed, RunsOfTasks
<1>2. SUFFICES ASSUME MaxAdmissions <= taskRun[t].n PROVE FALSE
  BY <1>1
<1>3. IsFiniteSet(1..MaxAdmissions) /\ Cardinality(1..MaxAdmissions) = MaxAdmissions
  BY <1>1, FS_Interval
<1>4. IsFiniteSet(Tasks \X (1..MaxAdmissions))
  BY <1>3, CommandConstants, FS_Product
<1>5. IsFiniteSet({t}) /\ Cardinality({t}) = 1
  BY FS_Singleton
<1>6. Cardinality(All) = MaxAdmissions
  <2>1. Cardinality(All) = Cardinality({t}) * Cardinality(1..MaxAdmissions)
    BY <1>3, <1>5, FS_Product
  <2> QED
    BY <1>1, <1>3, <1>5, <2>1
<1>7. All \subseteq Admitted
  <2> SUFFICES ASSUME NEW i \in 1..MaxAdmissions PROVE <<t, i>> \in Admitted
    OBVIOUS
  <2> QED
    BY <1>1, <1>2 DEF Admitted
<1>8. IsFiniteSet(Admitted) /\ Cardinality(All) <= Cardinality(Admitted)
  <2>1. IsFiniteSet(Admitted)
    BY <1>4, FS_Subset DEF Admitted
  <2> HIDE DEF All
  <2> QED
    BY <1>7, <2>1, FS_Subset
<1>9. Cardinality(Admitted) \in Nat
  BY <1>8, FS_CardinalityType
<1> QED
  BY <1>1, <1>6, <1>8, <1>9

\* What a step does to the numbers of Runs.
LEMMA NumbersMove ==
    ASSUME Base, NumbersBounded, [CommandsNext]_commandVars
    PROVE  \/ UNCHANGED taskRun
           \/ \E t \in Tasks : Admit(t)
           \/ \E t \in Tasks, state \in {"active", "ending", "released"} :
                To(t, state) /\ RunState(t) \in Occupying
<1>1. ASSUME NEW s \in Sessions, Busy(s)
      PROVE  session[s].task \in Tasks
  BY <1>1, BusyTyped DEF Base, OpenTransactions
<1>2. ASSUME NEW s \in Sessions, CommitCreate(s) \/ CommitRestart(s) \/ CommitTerminal(s)
      PROVE  UNCHANGED taskRun \/ Admit(session[s].task)
  BY <1>2 DEF CommitCreate, CommitRestart, CommitTerminal
<1>3. ASSUME NEW s \in Sessions, CommitActivate(s) \/ CommitEnd(s) \/ CommitFinish(s)
      PROVE  \/ UNCHANGED taskRun
             \/ \E state \in {"active", "ending", "released"} :
                  To(session[s].task, state) /\ RunState(session[s].task) \in Occupying
  <2>1. Busy(s) /\ session[s].kind \in {"activate", "fail", "drain", "finish"}
    BY <1>3 DEF CommitActivate, CommitEnd, CommitFinish, Ready
  <2>2. session[s].seen.state \in Occupying
    BY <2>1 DEF Base, WellOpened
  <2> QED
    BY <1>3, <2>2 DEF CommitActivate, CommitEnd, CommitFinish, RunState
<1>4. ASSUME NEW s \in Sessions,
             CommitCreate(s) \/ CommitRestart(s) \/ CommitTerminal(s)
             \/ CommitActivate(s) \/ CommitEnd(s) \/ CommitFinish(s)
      PROVE  Busy(s)
  BY <1>4 DEF CommitCreate, CommitRestart, CommitTerminal, CommitActivate, CommitEnd, CommitFinish, Ready
<1>5. ASSUME NEW s \in Sessions,
             \/ \E k \in offered.posts : OpenPost(s, k)
             \/ \E k \in offered.starts : OpenTerminal(s, k)
             \/ \E t \in Tasks : OpenOther(s, t)
      PROVE  UNCHANGED taskRun
  BY <1>5 DEF OpenPost, OpenTerminal, OpenOther, Open
<1>6. ASSUME NEW s \in Sessions,
             \/ Acquire(s) \/ ReturnEarly(s) \/ Abort(s) \/ CommitPost(s) \/ CommitReject(s)
             \/ CommitLimit(s)
      PROVE  UNCHANGED taskRun
  BY <1>6 DEF Acquire, ReturnEarly, Abort, CommitPost, CommitReject, CommitLimit
<1>7. ASSUME NEW k \in Posts, ExpirePost(k) PROVE UNCHANGED taskRun
  BY <1>7 DEF ExpirePost
<1>8. CASE UNCHANGED commandVars
  BY <1>8 DEF commandVars
<1> QED
  BY <1>1, <1>2, <1>3, <1>4, <1>5, <1>6, <1>7, <1>8 DEF CommandsNext

\* Numbers of Runs stay within the bound.
LEMMA RunNumbersStep ==
    ASSUME Base, NumbersBounded, [CommandsNext]_commandVars, NEW u \in Tasks
    PROVE  /\ taskRun'[u].n <= MaxAdmissions
           /\ RunState(u)' \in Occupying => taskRun'[u].n >= 1
<1>0. taskRun[u] \in RunsOfTasks /\ MaxAdmissions \in Nat /\ taskRun[u].n <= MaxAdmissions
      /\ (RunState(u) \in Occupying => taskRun[u].n >= 1)
  BY CommandConstants DEF Base, Typed, NumbersBounded
<1>1. CASE UNCHANGED taskRun
  BY <1>0, <1>1 DEF RunState
<1>2. ASSUME NEW t \in Tasks, Admit(t)
      PROVE  /\ taskRun'[u].n <= MaxAdmissions
             /\ RunState(u)' \in Occupying => taskRun'[u].n >= 1
  <2>1. taskRun[t].n < MaxAdmissions /\ taskRun[t].n \in Nat
    BY <1>2, AdmissionsLeft DEF Admit, Base, Typed, RunsOfTasks
  <2>2. taskRun' = [taskRun EXCEPT ![t] = [n |-> taskRun[t].n + 1, state |-> "starting"]]
    BY <1>2 DEF Admit
  <2> QED
    BY <1>0, <2>1, <2>2 DEF Base, Typed, RunState
<1>3. ASSUME NEW t \in Tasks, NEW state \in {"active", "ending", "released"},
             To(t, state), RunState(t) \in Occupying
      PROVE  /\ taskRun'[u].n <= MaxAdmissions
             /\ RunState(u)' \in Occupying => taskRun'[u].n >= 1
  BY <1>0, <1>3 DEF To, Base, Typed, RunState, RunsOfTasks
<1> QED
  BY <1>1, <1>2, <1>3, NumbersMove

\* What a transaction has seen, and what became active, are numbers of Runs.
LEMMA SeenNumbersStep ==
    ASSUME Base, Base', NumbersBounded, [CommandsNext]_commandVars
    PROVE  \A s \in Sessions : Busy(s)' => session'[s].seen.n <= MaxAdmissions
<1> DEFINE Good(u) == Busy(u)' => session'[u].seen.n <= MaxAdmissions
<1>0. \A u \in Sessions : session'[u] = session[u] => Good(u)
  BY DEF NumbersBounded, Busy
<1>1. ASSUME NEW s \in Sessions, NEW kind, NEW t \in Tasks, NEW k, Open(s, kind, t, k),
             NEW u \in Sessions
      PROVE  Good(u)
  <2>1. Observed(kind, t).n <= MaxAdmissions
    BY CommandConstants DEF Observed, Unseen, NumbersBounded
  <2>2. session' = [session EXCEPT ![s] = [kind |-> kind, task |-> t, key |-> k,
                      seen |-> Observed(kind, t), step |-> 0, room |-> "free"]]
    BY <1>1 DEF Open
  <2> QED
    BY <1>0, <2>1, <2>2 DEF Base, Typed
<1>2. ASSUME NEW s \in Sessions,
             \/ \E k \in offered.posts : OpenPost(s, k)
             \/ \E k \in offered.starts : OpenTerminal(s, k)
             \/ \E t \in Tasks : OpenOther(s, t)
      PROVE  \E t \in Tasks : \E kind, k : Open(s, kind, t, k)
  <2>1. ASSUME NEW k \in offered.posts, OpenPost(s, k)
        PROVE  \E t \in Tasks : \E kind, j : Open(s, kind, t, j)
    <3>1. k[1] \in Tasks /\ \E kind : Open(s, kind, k[1], k[2])
      BY <2>1, Keyed DEF OpenPost, Base, Typed
    <3> QED
      BY <3>1
  <2>2. ASSUME NEW k \in offered.starts, OpenTerminal(s, k)
        PROVE  \E t \in Tasks : \E kind, j : Open(s, kind, t, j)
    <3>1. k[1] \in Tasks /\ \E kind : Open(s, kind, k[1], k[2])
      BY <2>2, Keyed DEF OpenTerminal, Base, Typed
    <3> QED
      BY <3>1
  <2>3. ASSUME NEW t \in Tasks, OpenOther(s, t)
        PROVE  \E kind, j : Open(s, kind, t, j)
    BY <2>3 DEF OpenOther
  <2> QED
    BY <1>2, <2>1, <2>2, <2>3
<1>3. ASSUME NEW s \in Sessions, Acquire(s), NEW u \in Sessions PROVE Good(u)
  BY <1>0, <1>3, Acquired DEF NumbersBounded, Base, Acquire
<1>4. ASSUME NEW s \in Sessions, Close(s), NEW u \in Sessions PROVE Good(u)
  BY <1>0, <1>4 DEF Close, Base, Typed, Busy
<1>5. ASSUME NEW s \in Sessions, Busy(s), Conflict(s), NEW u \in Sessions PROVE Good(u)
  <2>1. session[s] \in OpenTransactions /\ session[s].seen.n <= MaxAdmissions
    BY <1>5, BusyTyped DEF Base, NumbersBounded
  <2>2. session' = [session EXCEPT ![s] = [session[s] EXCEPT !.kind = "reject", !.step = 0]]
    BY <1>5 DEF Conflict, Base, Typed
  <2>3. u = s => session'[u].seen = session[s].seen
    BY <2>1, <2>2 DEF Base, Typed, OpenTransactions
  <2> QED
    BY <1>0, <2>1, <2>2, <2>3 DEF Base, Typed
<1>6. ASSUME NEW s \in Sessions,
             \/ CommitCreate(s) \/ CommitReject(s) \/ CommitTerminal(s) \/ CommitActivate(s)
             \/ CommitEnd(s) \/ CommitFinish(s) \/ CommitLimit(s) \/ ReturnEarly(s) \/ Abort(s)
      PROVE  Close(s)
  BY <1>6 DEF CommitCreate, CommitReject, CommitTerminal, CommitActivate, CommitEnd, CommitFinish,
              CommitLimit, ReturnEarly, Abort
<1>7. ASSUME NEW s \in Sessions, CommitPost(s) \/ CommitRestart(s)
      PROVE  Close(s) \/ (Busy(s) /\ Conflict(s))
  BY <1>7 DEF CommitPost, CommitRestart, CreateMessage, Ready
<1>8. ASSUME NEW k \in Posts, ExpirePost(k), NEW u \in Sessions PROVE Good(u)
  BY <1>0, <1>8 DEF ExpirePost
<1>9. ASSUME UNCHANGED commandVars, NEW u \in Sessions PROVE Good(u)
  BY <1>0, <1>9 DEF commandVars
<1> HIDE DEF Good
<1>10. ASSUME NEW u \in Sessions PROVE Good(u)
  <2>1. CASE UNCHANGED commandVars
    BY <1>9, <2>1
  <2>2. ASSUME NEW k \in Posts, ExpirePost(k) PROVE Good(u)
    BY <1>8, <2>2
  <2>3. ASSUME NEW s \in Sessions,
             \/ \E k \in offered.posts : OpenPost(s, k)
             \/ \E k \in offered.starts : OpenTerminal(s, k)
             \/ \E t \in Tasks : OpenOther(s, t)
        PROVE Good(u)
    BY <1>1, <1>2, <2>3
  <2>4. ASSUME NEW s \in Sessions,
             \/ CommitCreate(s) \/ CommitReject(s) \/ CommitTerminal(s) \/ CommitActivate(s)
             \/ CommitEnd(s) \/ CommitFinish(s) \/ CommitLimit(s) \/ ReturnEarly(s) \/ Abort(s)
        PROVE Good(u)
    BY <1>4, <1>6, <2>4
  <2>5. ASSUME NEW s \in Sessions, CommitPost(s) \/ CommitRestart(s) PROVE Good(u)
    BY <1>4, <1>5, <1>7, <2>5
  <2> QED
    BY <1>3, <2>1, <2>2, <2>3, <2>4, <2>5 DEF CommandsNext
<1> QED
  BY <1>10 DEF Good

\* So are the numbers of what became active and what terminal starts are bound to.
LEMMA HistoryNumbersStep ==
    ASSUME ReceiptsInv, NumbersBounded, [CommandsNext]_commandVars
    PROVE  /\ ran' \in [Tasks -> SUBSET (1..MaxAdmissions)]
           /\ \A k \in TerminalStarts : starts'[k].bound <= MaxAdmissions
<1> DEFINE Good == /\ ran' \in [Tasks -> SUBSET (1..MaxAdmissions)]
                   /\ \A k \in TerminalStarts : starts'[k].bound <= MaxAdmissions
<1>0. Base /\ StartRows /\ MaxAdmissions \in Nat
  BY CommandConstants DEF ReceiptsInv
<1>1. ASSUME UNCHANGED <<ran, starts>> PROVE Good
  BY <1>1 DEF NumbersBounded
<1>2. ASSUME NEW s \in Sessions, CommitTerminal(s) PROVE Good
  <2> DEFINE t == session[s].task
  <2>1. /\ Command(s) \in TerminalStarts /\ t \in Tasks /\ session[s].seen \in RunsOfTasks
        /\ session[s].seen.n <= MaxAdmissions
    <3>1. Busy(s) /\ session[s].kind = "terminal"
      BY <1>2 DEF CommitTerminal, Ready
    <3>2. session[s] \in OpenTransactions
      BY <1>0, <3>1, BusyTyped DEF Base
    <3> QED
      BY <1>0, <3>1, <3>2 DEF Base, WellOpened, OpenTransactions, NumbersBounded
  <2>2. \/ UNCHANGED starts
        \/ \E status, n : /\ starts' = [starts EXCEPT ![Command(s)] = [status |-> status, bound |-> n]]
                          /\ \/ n \in {0, session[s].seen.n, starts[Command(s)].bound}
                             \/ taskRun[t] = session[s].seen /\ Admit(t) /\ n = session[s].seen.n + 1
    BY <1>2 DEF CommitTerminal
  <2>3. ASSUME taskRun[t] = session[s].seen, Admit(t) PROVE session[s].seen.n + 1 <= MaxAdmissions
    <3>1. taskRun[t].n < MaxAdmissions
      BY <1>0, <2>1, <2>3, AdmissionsLeft DEF Admit, Base
    <3> QED
      BY <1>0, <2>1, <2>3, <3>1 DEF RunsOfTasks
  <2>4. starts[Command(s)].bound <= MaxAdmissions
    BY <2>1 DEF NumbersBounded
  <2>5. CASE UNCHANGED starts
    BY <1>1, <1>2, <2>5 DEF CommitTerminal
  <2>6. ASSUME NEW status, NEW n, n <= MaxAdmissions,
               starts' = [starts EXCEPT ![Command(s)] = [status |-> status, bound |-> n]]
        PROVE  \A k \in TerminalStarts : starts'[k].bound <= MaxAdmissions
    BY <1>0, <2>1, <2>6 DEF StartRows, NumbersBounded
  <2>7. ran' = ran /\ ran \in [Tasks -> SUBSET (1..MaxAdmissions)]
    BY <1>2 DEF CommitTerminal, NumbersBounded
  <2> QED
    BY <1>0, <2>1, <2>2, <2>3, <2>4, <2>5, <2>6, <2>7
<1>3. ASSUME NEW s \in Sessions, CommitActivate(s) \/ CommitEnd(s) \/ CommitFinish(s) PROVE Good
  <2>1. UNCHANGED starts \/ \E t, answer : Terminalize(t, answer)
    BY <1>3 DEF CommitActivate, CommitEnd, CommitFinish
  <2>2. \A k \in TerminalStarts : starts'[k].bound <= MaxAdmissions
    BY <1>0, <2>1 DEF StartRows, Terminalize, NumbersBounded
  <2>3. \/ UNCHANGED ran
        \/ /\ ran' = [ran EXCEPT ![session[s].task] = @ \cup {taskRun[session[s].task].n}]
           /\ session[s].kind = "activate" /\ Busy(s) /\ taskRun[session[s].task] = session[s].seen
    BY <1>3 DEF CommitActivate, CommitEnd, CommitFinish, Ready
  <2>4. CASE UNCHANGED ran
    BY <2>2, <2>4 DEF NumbersBounded
  <2>5. ASSUME session[s].kind = "activate", Busy(s), taskRun[session[s].task] = session[s].seen
        PROVE  session[s].task \in Tasks /\ taskRun[session[s].task].n \in 1..MaxAdmissions
    <3>1. session[s].task \in Tasks
      BY <1>0, <2>5, BusyTyped DEF Base, OpenTransactions
    <3>2. RunState(session[s].task) \in Occupying
      BY <1>0, <2>5 DEF Base, WellOpened, RunState
    <3> QED
      BY <1>0, <3>1, <3>2 DEF NumbersBounded, Base, Typed, RunsOfTasks
  <2> QED
    BY <2>2, <2>3, <2>4, <2>5 DEF NumbersBounded
<1>4. ASSUME NEW s \in Sessions,
             \/ \E k \in offered.posts : OpenPost(s, k)
             \/ \E k \in offered.starts : OpenTerminal(s, k)
             \/ \E t \in Tasks : OpenOther(s, t)
      PROVE  Good
  BY <1>1, <1>4 DEF OpenPost, OpenTerminal, OpenOther, Open
<1>5. ASSUME NEW s \in Sessions,
             \/ Acquire(s) \/ ReturnEarly(s) \/ Abort(s) \/ CommitPost(s) \/ CommitReject(s)
             \/ CommitLimit(s) \/ CommitCreate(s) \/ CommitRestart(s)
      PROVE  Good
  BY <1>1, <1>5 DEF Acquire, ReturnEarly, Abort, CommitPost, CommitReject, CommitLimit, CommitCreate,
                    CommitRestart
<1>6. ASSUME NEW k \in Posts, ExpirePost(k) PROVE Good
  BY <1>1, <1>6 DEF ExpirePost
<1>7. ASSUME UNCHANGED commandVars PROVE Good
  BY <1>1, <1>7 DEF commandVars
<1> HIDE DEF Good
<1>8. Good
  BY <1>2, <1>3, <1>4, <1>5, <1>6, <1>7 DEF CommandsNext
<1> QED
  BY <1>8 DEF Good

\* What is offered does not change, limits are those one may set, usage is counted.
LEMMA LimitsTypedStep ==
    ASSUME Base, LimitsTyped, [CommandsNext]_commandVars PROVE LimitsTyped'
<1>1. UNCHANGED <<offered, sandboxLimit, activeTasks>> => LimitsTyped'
  BY DEF LimitsTyped
<1>2. ASSUME NEW p, SetUsage(p) PROVE activeTasks' \in [Projects -> Nat]
  BY <1>2, CountTypesNext DEF SetUsage, LimitsTyped
<1>3. ASSUME NEW s \in Sessions, CommitCreate(s) \/ CommitRestart(s) \/ CommitTerminal(s) \/ CommitFinish(s)
      PROVE  UNCHANGED <<offered, sandboxLimit>> /\ (UNCHANGED activeTasks \/ \E p : SetUsage(p))
  BY <1>3 DEF CommitCreate, CommitRestart, CommitTerminal, CommitFinish, Admit, CreateMessage
<1>4. ASSUME NEW s \in Sessions, CommitLimit(s) PROVE LimitsTyped'
  BY <1>4 DEF CommitLimit, LimitsTyped
<1>5. ASSUME NEW s \in Sessions,
             \/ \E k \in offered.posts : OpenPost(s, k)
             \/ \E k \in offered.starts : OpenTerminal(s, k)
             \/ \E t \in Tasks : OpenOther(s, t)
      PROVE  LimitsTyped'
  BY <1>1, <1>5 DEF OpenPost, OpenTerminal, OpenOther, Open
<1>6. ASSUME NEW s \in Sessions,
             \/ Acquire(s) \/ ReturnEarly(s) \/ Abort(s) \/ CommitPost(s) \/ CommitReject(s)
             \/ CommitActivate(s) \/ CommitEnd(s)
      PROVE  LimitsTyped'
  BY <1>1, <1>6 DEF Acquire, ReturnEarly, Abort, CommitPost, CommitReject, CommitActivate, CommitEnd
<1>7. ASSUME NEW k \in Posts, ExpirePost(k) PROVE LimitsTyped'
  BY <1>1, <1>7 DEF ExpirePost
<1>8. CASE UNCHANGED commandVars
  BY <1>1, <1>8 DEF commandVars
<1>9. ASSUME NEW s \in Sessions, CommitCreate(s) \/ CommitRestart(s) \/ CommitTerminal(s) \/ CommitFinish(s)
      PROVE  LimitsTyped'
  BY <1>2, <1>3, <1>9 DEF LimitsTyped
<1> QED
  BY <1>4, <1>5, <1>6, <1>7, <1>8, <1>9 DEF CommandsNext

\* An answer clears the claim, and only claimed receipts lose one.
LEMMA ClaimsClaimedStep ==
    ASSUME ReceiptsInv, ClaimsClaimed, [CommandsNext]_commandVars PROVE ClaimsClaimed'
<1>0. PostRows /\ Base
  BY DEF ReceiptsInv
<1>1. UNCHANGED posts => ClaimsClaimed'
  BY DEF ClaimsClaimed
<1>2. ASSUME NEW k, NEW status, AnswerPost(k, status) PROVE ClaimsClaimed'
  BY <1>0, <1>2 DEF AnswerPost, NoPost, ClaimsClaimed, PostRows
<1>3. ASSUME NEW s, Conflict(s) PROVE ClaimsClaimed'
  BY <1>0, <1>3 DEF Conflict, ClaimsClaimed, PostRows
<1>4. ASSUME NEW s \in Sessions, CommitPost(s) \/ CommitRestart(s) \/ CommitReject(s) PROVE ClaimsClaimed'
  <2>1. UNCHANGED posts \/ Conflict(s) \/ \E status : AnswerPost(Command(s), status)
    BY <1>4 DEF CommitPost, CommitRestart, CommitReject, CreateMessage
  <2> QED
    BY <1>1, <1>2, <1>3, <2>1
<1>5. ASSUME NEW s \in Sessions, Abort(s) PROVE ClaimsClaimed'
  BY <1>0, <1>5 DEF Abort, ClaimsClaimed, PostRows
<1>6. ASSUME NEW k \in Posts, ExpirePost(k) PROVE ClaimsClaimed'
  BY <1>0, <1>6 DEF ExpirePost, ClaimsClaimed, PostRows
<1>7. ASSUME NEW s \in Sessions, NEW k \in offered.posts, OpenPost(s, k) PROVE ClaimsClaimed'
  <2>1. \/ UNCHANGED posts
        \/ posts[k].status = "claimed" /\ posts' = [posts EXCEPT ![k].claim = s, ![k].live = TRUE]
    BY <1>7 DEF OpenPost
  <2> QED
    BY <1>0, <1>1, <2>1 DEF ClaimsClaimed, PostRows
<1>8. ASSUME NEW s \in Sessions,
             \/ \E k \in offered.starts : OpenTerminal(s, k)
             \/ \E t \in Tasks : OpenOther(s, t)
      PROVE  ClaimsClaimed'
  BY <1>1, <1>8 DEF OpenTerminal, OpenOther, Open
<1>9. ASSUME NEW s \in Sessions,
             \/ Acquire(s) \/ ReturnEarly(s) \/ CommitCreate(s) \/ CommitTerminal(s)
             \/ CommitActivate(s) \/ CommitEnd(s) \/ CommitFinish(s) \/ CommitLimit(s)
      PROVE  ClaimsClaimed'
  BY <1>1, <1>9 DEF Acquire, ReturnEarly, CommitCreate, CommitTerminal, CommitActivate, CommitEnd,
                    CommitFinish, CommitLimit
<1>10. CASE UNCHANGED commandVars
  BY <1>1, <1>10 DEF commandVars
<1> QED
  BY <1>4, <1>5, <1>6, <1>7, <1>8, <1>9, <1>10 DEF CommandsNext

\* All of it holds in the beginning.
LEMMA CommandsTypedInit == CommandsInit => CommandsTyped
<1> SUFFICES ASSUME CommandsInit PROVE CommandsTyped
  OBVIOUS
<1>1. NumbersBounded
  BY CommandConstants DEF CommandsInit, NumbersBounded, RunState, Occupying, Busy, NoStart
<1>2. LimitsTyped
  BY DEF CommandsInit, LimitsTyped
<1>3. ClaimsClaimed
  BY DEF CommandsInit, ClaimsClaimed, NoPost
<1> QED
  BY <1>1, <1>2, <1>3, ReceiptsInit DEF CommandsTyped

\* Runs, receipts, usage and transactions keep their types: no number of a Run
\* passes the Runs admitted, no Project's usage goes below zero, and only a claimed
\* receipt has a claim (claimTaskIdempotencyWithClient, admitSandboxRunWithClient).
THEOREM CommandsTypeCorrect == CommandsSpec => []CommandsTypeOK
<1>1. CommandsTyped /\ [CommandsNext]_commandVars => CommandsTyped'
  <2> SUFFICES ASSUME CommandsTyped, [CommandsNext]_commandVars PROVE CommandsTyped'
    OBVIOUS
  <2>1. Base /\ ReceiptsInv /\ NumbersBounded /\ LimitsTyped /\ ClaimsClaimed
    BY DEF CommandsTyped, ReceiptsInv
  <2>2. ReceiptsInv' /\ Base'
    BY <2>1, BaseStep, PostSteps, PostsStep, StartsStep, StartRowsStep DEF ReceiptsInv
  <2>3. NumbersBounded'
    BY <2>1, <2>2, RunNumbersStep, SeenNumbersStep, HistoryNumbersStep DEF NumbersBounded
  <2> QED
    BY <2>1, <2>2, <2>3, LimitsTypedStep, ClaimsClaimedStep DEF CommandsTyped
<1>2. CommandsTyped => CommandsTypeOK
  <2> SUFFICES ASSUME CommandsTyped PROVE CommandsTypeOK
    OBVIOUS
  <2>1. Base /\ Typed /\ PostRows /\ StartRows /\ NumbersBounded /\ LimitsTyped /\ ClaimsClaimed
        /\ messages \subseteq Posts /\ MaxAdmissions \in Nat
    BY CommandConstants DEF CommandsTyped, ReceiptsInv, Base, PostsInv, PostsTell
  <2>2. \A n \in Nat : n <= MaxAdmissions => n \in 0..MaxAdmissions
    BY <2>1
  <2>3. taskRun \in [Tasks -> TaskRuns]
    BY <2>1, <2>2 DEF Typed, NumbersBounded, RunsOfTasks, TaskRuns
  <2>4. session \in [Sessions -> Transactions \cup {NoTransaction}]
    <3> SUFFICES ASSUME NEW s \in Sessions, session[s] # NoTransaction
                 PROVE  session[s] \in Transactions
      BY <2>1 DEF Typed
    <3>1. session[s] \in OpenTransactions /\ session[s].seen.n <= MaxAdmissions
      BY <2>1 DEF Typed, NumbersBounded, Busy
    <3>2. session[s].seen \in TaskRuns
      BY <2>2, <3>1 DEF OpenTransactions, RunsOfTasks, TaskRuns
    <3> QED
      BY <3>1, <3>2 DEF OpenTransactions, Transactions, CommandKeys
  <2>5. posts \in [Posts -> PostReceipts]
    BY <2>1 DEF PostRows, ClaimsClaimed, PostReceipts
  <2>6. starts \in [TerminalStarts -> StartReceipts]
    BY <2>1, <2>2 DEF StartRows, NumbersBounded, StartReceipts
  <2>7. /\ home \in [Tasks -> Projects] /\ offered \in Offers
        /\ ran \in [Tasks -> SUBSET (1..MaxAdmissions)]
        /\ sandboxLimit \in [Projects -> SandboxLimits] /\ activeTasks \in [Projects -> Nat]
    BY <2>1 DEF Typed, NumbersBounded, LimitsTyped
  <2> QED
    BY <2>1, <2>3, <2>4, <2>5, <2>6, <2>7 DEF CommandsTypeOK
<1> QED
  BY <1>1, <1>2, CommandsTypedInit, PTL DEF CommandsSpec
=============================================================================
