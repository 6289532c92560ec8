----------------------------- MODULE TaskCommands -----------------------------
(***************************************************************************)
(* The store transactions behind the commands of Tasks that start, use and *)
(* end Sandbox Runs, at the grain of the locks they take                   *)
(* (packages/adapters-postgres/src/postgresProductStore.ts, called from    *)
(* taskService.ts): creating a Task, posting a message with and without a  *)
(* restart of its Sandbox, starting a terminal, activation, failure, drain *)
(* and release of a Run, and a change of the Project's Sandbox limit.      *)
(*                                                                         *)
(* A database session runs one transaction at a time.  What a request read *)
(* before it opened the transaction is in "seen"; the transaction takes    *)
(* its locks one by one, in the order of the code's statements, and waits  *)
(* for those another session holds.  With the last lock nothing keeps it   *)
(* waiting any more, and what it writes and its commit are one step with   *)
(* that lock.  It may end at any time before without effect: a lost        *)
(* connection, a crash, or the database's answer to a deadlock.  policy    *)
(* and usage rows are locked only behind their Project's, a Run and its    *)
(* owner receipt only behind their Task's.                                 *)
(*                                                                         *)
(* A Task is reserved by one create command.  Projects are active, a Run's *)
(* other states and fields are those of SandboxRuns, "failed" and          *)
(* "release_requested" being one state here, and request hashes match.     *)
(*                                                                         *)
(* An operator called "...Mutant" is a plausible mistake in the operator   *)
(* that follows it; it shows that some property notices that mistake.      *)
(***************************************************************************)
EXTENDS Integers, Sequences, FiniteSets

CONSTANTS
    Tasks, Projects,
    NewTasks,           \* the Tasks that are not created yet
    Homes,              \* the ways to place the Tasks in the Projects
    Posts,              \* the posts users make: a Task and an Idempotency-Key
    TerminalStarts,     \* and the terminal starts
    Offers,             \* the sets of them that users may make in one behaviour
    Sessions,           \* database sessions
    SandboxLimits,      \* values of a Project's active_tasks_limit
    NamespaceLimit,     \* the substrate's limit of Runs
    MaxAdmissions       \* bound on the Runs admitted

NoSession == "no session"
NoKey == "no key"

ASSUME CommandConstants ==
    /\ IsFiniteSet(Tasks) /\ NewTasks \subseteq Tasks /\ Homes \subseteq [Tasks -> Projects]
    /\ \A k \in Posts \cup TerminalStarts : k = <<k[1], k[2]>> /\ k[1] \in Tasks
    /\ SandboxLimits \subseteq Nat
    /\ Offers \subseteq [posts: SUBSET Posts, starts: SUBSET TerminalStarts]
    /\ NamespaceLimit \in Nat /\ MaxAdmissions \in Nat
    /\ NoSession \notin Sessions

VARIABLES
    home,          \* the Project of each Task
    offered,       \* the posts and terminal starts of this behaviour
    taskRun,       \* the current Run of each Task: its number and state
    ran,           \* history: the Runs that became active
    sandboxLimit,  \* project_resource_policies.active_tasks_limit
    activeTasks,   \* project_resource_usage.active_tasks
    posts,         \* receipts of posts: task_idempotency_records, operation 'message'
    messages,      \* task_messages, by the post that created them
    starts,        \* receipts of terminal starts, operation 'terminal-start'
    session        \* the transaction of each session

commandVars == <<home, offered, taskRun, ran, sandboxLimit, activeTasks, posts, messages, starts, session>>

Occupying == {"starting", "active", "ending"}
TaskRuns == [n: 0..MaxAdmissions, state: {"absent", "released"} \cup Occupying]

PostReceipts == {r \in [status: {"none", "claimed", "created", "refused"},
                        claim: Sessions \cup {NoSession}, live: BOOLEAN] :
                   r.status # "claimed" => r.claim = NoSession /\ ~r.live}
StartReceipts == [status: {"none", "in_progress", "started", "failed", "refused"},
                  bound: 0..MaxAdmissions]

Kinds == {"create", "post", "restart", "terminal", "activate", "fail", "drain", "finish",
          "limit", "reject"}
Rooms == {"free", "project", "namespace"}
NoTransaction == [kind |-> "none", step |-> 0]
Transactions ==
    [kind: Kinds, task: Tasks, key: {k[2] : k \in Posts \cup TerminalStarts} \cup {NoKey},
     seen: TaskRuns, step: 0..3, room: Rooms]

CommandsTypeOK ==
    /\ home \in [Tasks -> Projects] /\ offered \in Offers
    /\ taskRun \in [Tasks -> TaskRuns] /\ ran \in [Tasks -> SUBSET (1..MaxAdmissions)]
    /\ sandboxLimit \in [Projects -> SandboxLimits] /\ activeTasks \in [Projects -> Nat]
    /\ posts \in [Posts -> PostReceipts] /\ messages \subseteq Posts
    /\ starts \in [TerminalStarts -> StartReceipts]
    /\ session \in [Sessions -> Transactions \cup {NoTransaction}]

NoPost == [status |-> "none", claim |-> NoSession, live |-> FALSE]
NoStart == [status |-> "none", bound |-> 0]

CommandsInit ==
    /\ home \in Homes /\ offered \in Offers
    /\ taskRun = [t \in Tasks |->
                    [n |-> 0, state |-> IF t \in NewTasks THEN "absent" ELSE "released"]]
    /\ ran = [t \in Tasks |-> {}]
    /\ \E n \in SandboxLimits : sandboxLimit = [p \in Projects |-> n]
    /\ activeTasks = [p \in Projects |-> 0]
    /\ posts = [k \in Posts |-> NoPost] /\ messages = {}
    /\ starts = [k \in TerminalStarts |-> NoStart]
    /\ session = [s \in Sessions |-> NoTransaction]

-----------------------------------------------------------------------------
RunState(t) == taskRun[t].state
Unreleased(p) == Cardinality({t \in Tasks : home[t] = p /\ RunState(t) \in Occupying})
NamespaceRuns == Cardinality({t \in Tasks : RunState(t) \in Occupying})

Busy(s) == session[s] # NoTransaction
Command(s) == <<session[s].task, session[s].key>>

\* The operation of the receipt a transaction claims.
Operation(kind) == IF kind = "create" THEN "create"
                   ELSE IF kind = "terminal" THEN "terminal-start" ELSE "message"

\* A new terminal start goes to the Project's row without the namespace lock.
LocksNoNamespaceMutant(x) ==
    LET namespace == <<"namespace", "all">>
        project == <<"project", home[x.task]>>
        task == <<"task", x.task>>
        receipt == <<Operation(x.kind), x.task, x.key>>
    IN  CASE x.kind = "create" -> <<receipt, namespace, project, <<"library", x.task>>>>
          [] x.kind = "post" -> <<receipt, project, task>>
          [] x.kind = "restart" -> <<namespace, project, task, receipt>>
          [] x.kind = "terminal" -> <<project, task, receipt>>
          [] x.kind \in {"activate", "fail"} -> <<task>>
          [] x.kind = "drain" -> <<project, task>>
          [] x.kind = "finish" -> <<namespace, project, task>>
          [] x.kind = "limit" -> <<project>>
          [] x.kind = "reject" -> <<receipt>>

\* The release takes the namespace lock when it comes to count.
LocksReversedMutant(x) ==
    LET namespace == <<"namespace", "all">>
        project == <<"project", home[x.task]>>
        task == <<"task", x.task>>
        receipt == <<Operation(x.kind), x.task, x.key>>
    IN  CASE x.kind = "create" -> <<receipt, namespace, project, <<"library", x.task>>>>
          [] x.kind = "post" -> <<receipt, project, task>>
          [] x.kind \in {"restart", "terminal"} -> <<namespace, project, task, receipt>>
          [] x.kind \in {"activate", "fail"} -> <<task>>
          [] x.kind = "drain" -> <<project, task>>
          [] x.kind = "finish" -> <<project, task, namespace>>
          [] x.kind = "limit" -> <<project>>
          [] x.kind = "reject" -> <<receipt>>

\* The locks of a transaction in the order of its statements.
Locks(x) ==
    LET namespace == <<"namespace", "all">>
        project == <<"project", home[x.task]>>
        task == <<"task", x.task>>
        receipt == <<Operation(x.kind), x.task, x.key>>
    IN  CASE x.kind = "create" -> <<receipt, namespace, project, <<"library", x.task>>>>
          [] x.kind = "post" -> <<receipt, project, task>>
          [] x.kind \in {"restart", "terminal"} -> <<namespace, project, task, receipt>>
          [] x.kind \in {"activate", "fail"} -> <<task>>
          [] x.kind = "drain" -> <<project, task>>
          [] x.kind = "finish" -> <<namespace, project, task>>
          [] x.kind = "limit" -> <<project>>
          [] x.kind = "reject" -> <<receipt>>

Held(s) == IF Busy(s) THEN {Locks(session[s])[i] : i \in 1..session[s].step} ELSE {}
WaitsFor(s, u) ==
    s # u /\ Busy(s) /\ Locks(session[s])[session[s].step + 1] \in Held(u)
Free(s) == \A u \in Sessions : ~WaitsFor(s, u)

\* With its last lock a transaction waits for nobody any more: it commits at once.
Ready(s, kind) ==
    /\ Busy(s) /\ session[s].kind = kind /\ session[s].step + 1 = Len(Locks(session[s]))
    /\ Free(s)

\* claimTaskIdempotencyWithClient: a new receipt, one's own, or one whose lease is over.
Claimable(s) ==
    LET r == posts[Command(s)]
    IN  r.status = "none" \/ (r.status = "claimed" /\ (r.claim = s \/ ~r.live))

Unseen == [n |-> 0, state |-> "absent"]
Observed(kind, t) == IF kind \in {"create", "post", "limit"} THEN Unseen ELSE taskRun[t]

\* The request reads the Task without a lock and opens its transaction.
Open(s, kind, t, k) ==
    /\ ~Busy(s)
    /\ session' = [session EXCEPT ![s] = [kind |-> kind, task |-> t, key |-> k,
                                          seen |-> Observed(kind, t), step |-> 0, room |-> "free"]]
    /\ UNCHANGED <<home, offered, taskRun, ran, sandboxLimit, activeTasks, messages, starts>>

\* sendTaskMessage: a claim left behind is taken over, in a transaction of its own.
OpenPost(s, k) ==
    /\ \/ RunState(k[1]) \in {"starting", "active"} /\ Open(s, "post", k[1], k[2])
       \/ RunState(k[1]) = "released" /\ Open(s, "restart", k[1], k[2])
    /\ \/ posts[k].status = "none" /\ UNCHANGED posts
       \/ /\ posts[k].status = "claimed" /\ ~posts[k].live
          /\ \A u \in Sessions : <<"message", k[1], k[2]>> \notin Held(u)
          /\ posts' = [posts EXCEPT ![k].claim = s, ![k].live = TRUE]

\* startTaskTerminal: under a receipt in progress the request is for its Run.
OpenTerminal(s, k) ==
    /\ \/ starts[k].status = "none" /\ RunState(k[1]) \in {"starting", "released"}
       \/ starts[k].status = "in_progress"
    /\ Open(s, "terminal", k[1], k[2])
    /\ UNCHANGED posts

OpenOther(s, t) ==
    /\ \/ RunState(t) = "absent" /\ Open(s, "create", t, NoKey)
       \/ RunState(t) = "starting" /\ \E kind \in {"activate", "drain"} : Open(s, kind, t, NoKey)
       \/ RunState(t) \in {"starting", "active"} /\ Open(s, "fail", t, NoKey)
       \/ RunState(t) = "ending" /\ Open(s, "finish", t, NoKey)
       \/ /\ t = CHOOSE u \in Tasks : home[u] = home[t]   \* the request is for a Project
          /\ Open(s, "limit", t, NoKey)
    /\ UNCHANGED posts

Room(p) == IF Unreleased(p) >= sandboxLimit[p] THEN "project"
           ELSE IF NamespaceRuns >= NamespaceLimit THEN "namespace" ELSE "free"

\* The next lock, when nobody holds it.  lockSandboxAdmissionWithClient counts
\* when it has the namespace and the Project.
Acquire(s) ==
    /\ Busy(s) /\ session[s].step + 1 < Len(Locks(session[s])) /\ Free(s)
    /\ session[s].kind = "post" /\ session[s].step = 1 => Claimable(s)
    /\ LET x == session[s]
           counts == x.kind \in {"create", "restart", "terminal"}
                     /\ Locks(x)[x.step + 1] = <<"project", home[x.task]>>
       IN  session' = [session EXCEPT
             ![s].step = @ + 1, ![s].room = IF counts THEN Room(home[x.task]) ELSE @]
    /\ UNCHANGED <<home, offered, taskRun, ran, sandboxLimit, activeTasks, posts, messages, starts>>

Close(s) == session' = [session EXCEPT ![s] = NoTransaction]

\* A post whose receipt is answered or claimed by another returns at once.
ReturnEarly(s) ==
    /\ Busy(s) /\ session[s].kind = "post" /\ session[s].step = 1 /\ ~Claimable(s)
    /\ Close(s)
    /\ UNCHANGED <<home, offered, taskRun, ran, sandboxLimit, activeTasks, posts, messages, starts>>

\* The claim stays in the receipt, with nobody to answer it.
Abort(s) ==
    /\ Busy(s) /\ Close(s)
    /\ posts' = [k \in Posts |-> IF posts[k].claim = s
                                        THEN [posts[k] EXCEPT !.claim = NoSession] ELSE posts[k]]
    /\ UNCHANGED <<home, offered, taskRun, ran, sandboxLimit, activeTasks, messages, starts>>

ExpirePost(k) ==
    /\ posts[k].live
    /\ posts' = [posts EXCEPT ![k].live = FALSE]
    /\ UNCHANGED <<home, offered, taskRun, ran, sandboxLimit, activeTasks, messages, starts, session>>

\* setAuthoritativeActiveTaskUsageWithClient.
SetUsage(p) ==
    /\ UNCHANGED home
    /\ activeTasks' = [q \in Projects |-> IF q = p THEN Unreleased(q)' ELSE activeTasks[q]]

\* The Runs admitted so far, by Task and number.
Admitted == {r \in Tasks \X (1..MaxAdmissions) : r[2] <= taskRun[r[1]].n}

\* admitSandboxRunWithClient inserts the Run it found room for.
Admit(t) ==
    /\ Cardinality(Admitted) < MaxAdmissions
    /\ taskRun' = [taskRun EXCEPT ![t] = [n |-> @.n + 1, state |-> "starting"]]
    /\ SetUsage(home[t])

CommitCreate(s) ==
    /\ Ready(s, "create") /\ Close(s)
    /\ LET x == session[s]
           admitted == RunState(x.task) = "absent" /\ x.room = "free"
       IN  IF admitted THEN Admit(x.task) ELSE UNCHANGED <<taskRun, activeTasks>>
    /\ UNCHANGED <<home, offered, ran, sandboxLimit, posts, messages, starts>>

\* The receipt is answered and its claim forgotten to be cleared.
AnswerPostMutant(k, status) == posts' = [posts EXCEPT ![k].status = status]

AnswerPost(k, status) == posts' = [posts EXCEPT ![k] = [NoPost EXCEPT !.status = status]]

CreateMessage(s) == messages' = messages \cup {Command(s)} /\ AnswerPost(Command(s), "created") /\ Close(s)

\* A conflict commits the claim; the request then refuses its receipt.
Conflict(s) ==
    /\ posts' = [posts EXCEPT ![Command(s)] = [status |-> "claimed", claim |-> s, live |-> TRUE]]
    /\ session' = [session EXCEPT ![s].kind = "reject", ![s].step = 0]
    /\ UNCHANGED messages

\* createTaskMessageAtomically without a restart ...
CommitPost(s) ==
    /\ Ready(s, "post")
    /\ IF RunState(session[s].task) \in {"starting", "active"}
       THEN CreateMessage(s) ELSE Conflict(s)
    /\ UNCHANGED <<home, offered, taskRun, ran, sandboxLimit, activeTasks, starts>>

\* ... and with one, unless the Sandbox was restarted meanwhile.
CommitRestart(s) ==
    /\ Ready(s, "restart")
    /\ LET x == session[s]
           t == x.task
       IN  \/ /\ ~Claimable(s) /\ Close(s)
              /\ UNCHANGED <<taskRun, activeTasks, posts, messages>>
           \/ /\ Claimable(s) /\ RunState(t) \in {"starting", "active"}
              /\ CreateMessage(s) /\ UNCHANGED <<taskRun, activeTasks>>
           \/ /\ Claimable(s) /\ RunState(t) \notin {"starting", "active"} /\ taskRun[t] # x.seen
              /\ Conflict(s) /\ UNCHANGED <<taskRun, activeTasks>>
           \/ /\ Claimable(s) /\ taskRun[t] = x.seen
              /\ IF x.room = "free"
                 THEN Admit(t) /\ CreateMessage(s)
                 ELSE /\ AnswerPost(Command(s), "refused") /\ Close(s)
                      /\ UNCHANGED <<taskRun, activeTasks, messages>>
    /\ UNCHANGED <<home, offered, ran, sandboxLimit, starts>>

\* completeRejectedTaskMessage.
CommitReject(s) ==
    /\ Ready(s, "reject") /\ Close(s)
    /\ IF Claimable(s) THEN AnswerPost(Command(s), "refused") ELSE UNCHANGED posts
    /\ UNCHANGED <<home, offered, taskRun, ran, sandboxLimit, activeTasks, messages, starts>>

\* terminalBoundRunReceipt.
BoundAnswer(t, n) ==
    IF taskRun[t].n = n /\ RunState(t) = "active" THEN "started" ELSE "failed"

\* beginTerminalStart.
CommitTerminal(s) ==
    /\ Ready(s, "terminal") /\ Close(s)
    /\ LET x == session[s]
           t == x.task
           r == starts[Command(s)]
           owned == \E k \in TerminalStarts : k[1] = t /\ starts[k].status = "in_progress"
           Put(status, n) == starts' = [starts EXCEPT ![Command(s)] = [status |-> status, bound |-> n]]
           Join(n) == /\ IF taskRun[t].n = n /\ RunState(t) = "starting"
                         THEN Put("in_progress", n) ELSE Put(BoundAnswer(t, n), n)
                      /\ UNCHANGED <<taskRun, activeTasks>>
       IN  \/ /\ r.status \notin {"none", "in_progress"}
              /\ UNCHANGED <<starts, taskRun, activeTasks>>
           \/ r.status = "in_progress" /\ Join(r.bound)
           \/ /\ r.status = "none" /\ owned
              /\ Put("refused", 0) /\ UNCHANGED <<taskRun, activeTasks>>
           \/ r.status = "none" /\ ~owned /\ x.seen.state # "released" /\ Join(x.seen.n)
           \/ /\ r.status = "none" /\ ~owned /\ x.seen.state = "released"
              /\ IF taskRun[t] = x.seen /\ x.room = "free"
                 THEN Admit(t) /\ Put("in_progress", x.seen.n + 1)
                 ELSE Put("refused", 0) /\ UNCHANGED <<taskRun, activeTasks>>
    /\ UNCHANGED <<home, offered, ran, sandboxLimit, posts, messages>>

\* terminalizeTerminalStartOwnerWithClient, for the current Run of t.
Terminalize(t, answer) ==
    starts' = [k \in TerminalStarts |->
      IF k[1] = t /\ starts[k].status = "in_progress" /\ starts[k].bound = taskRun[t].n
      THEN [starts[k] EXCEPT !.status = answer] ELSE starts[k]]

To(t, state) == taskRun' = [taskRun EXCEPT ![t].state = state]

\* activateTaskSandboxRun; another attempt may have ended the Run meanwhile.
CommitActivate(s) ==
    /\ Ready(s, "activate") /\ Close(s)
    /\ LET t == session[s].task
       IN  IF taskRun[t] = session[s].seen
           THEN /\ To(t, "active") /\ Terminalize(t, "started")
                /\ ran' = [ran EXCEPT ![t] = @ \cup {taskRun[t].n}]
           ELSE UNCHANGED <<taskRun, starts, ran>>
    /\ UNCHANGED <<home, offered, sandboxLimit, activeTasks, posts, messages>>

\* A Run that never became active is ended and its terminal start forgotten.
CommitEndMutant(s) ==
    /\ (Ready(s, "fail") \/ Ready(s, "drain")) /\ Close(s)
    /\ LET t == session[s].task
       IN  IF taskRun[t] = session[s].seen
           THEN To(t, "ending") /\ UNCHANGED starts
           ELSE UNCHANGED <<taskRun, starts>>
    /\ UNCHANGED <<home, offered, ran, sandboxLimit, activeTasks, posts, messages>>

\* failTaskSandboxStartupAtomically, failSandboxRun, requestTaskSandboxRelease
\* and drainSandboxStartupAction.
CommitEnd(s) ==
    /\ (Ready(s, "fail") \/ Ready(s, "drain")) /\ Close(s)
    /\ LET t == session[s].task
       IN  IF taskRun[t] = session[s].seen
           THEN To(t, "ending") /\ Terminalize(t, "failed")
           ELSE UNCHANGED <<taskRun, starts>>
    /\ UNCHANGED <<home, offered, ran, sandboxLimit, activeTasks, posts, messages>>

\* completeSandboxRunRelease.
CommitFinish(s) ==
    /\ Ready(s, "finish") /\ Close(s)
    /\ LET t == session[s].task
       IN  IF taskRun[t] = session[s].seen
           THEN To(t, "released") /\ SetUsage(home[t]) /\ Terminalize(t, "failed")
           ELSE UNCHANGED <<taskRun, activeTasks, starts>>
    /\ UNCHANGED <<home, offered, ran, sandboxLimit, posts, messages>>

\* patchProjectResourcePolicy.
CommitLimit(s) ==
    /\ Ready(s, "limit") /\ Close(s)
    /\ \E n \in SandboxLimits : sandboxLimit' = [sandboxLimit EXCEPT ![home[session[s].task]] = n]
    /\ UNCHANGED <<home, offered, taskRun, ran, activeTasks, posts, messages, starts>>

CommandsNext ==
    \/ \E s \in Sessions :
         \/ \E k \in offered.posts : OpenPost(s, k)
         \/ \E k \in offered.starts : OpenTerminal(s, k)
         \/ \E t \in Tasks : OpenOther(s, t)
         \/ Acquire(s) \/ ReturnEarly(s) \/ Abort(s)
         \/ CommitCreate(s) \/ CommitPost(s) \/ CommitRestart(s) \/ CommitReject(s)
         \/ CommitTerminal(s) \/ CommitActivate(s) \/ CommitEnd(s) \/ CommitFinish(s)
         \/ CommitLimit(s)
    \/ \E k \in Posts : ExpirePost(k)

CommandsSpec == CommandsInit /\ [][CommandsNext]_commandVars

-----------------------------------------------------------------------------
\* Concurrent creates, restarts and terminal starts at the last free slot admit
\* one: no Run is admitted beyond the Project's limit as it then is, or beyond
\* the namespace's, and after every step the Project's usage is the number of its
\* Runs that are not released (admitSandboxRunWithClient, completeSandboxRunRelease).
CapacityKept ==
    [][/\ NamespaceRuns' <= NamespaceLimit
       /\ \A p \in Projects : /\ activeTasks'[p] = Unreleased(p)'
                              /\ Unreleased(p)' > Unreleased(p) =>
                                   Unreleased(p)' <= sandboxLimit'[p]]_commandVars

\* What a receipt says is so.  A Task has one terminal start in progress at most,
\* for its current Run, which is starting: whatever ends the startup answers it.
\* One answered "started" had an active Run.  A post is answered "created" when
\* its message was created, once, and never both refused and delivered, whoever
\* took its receipt over.
ReceiptsTell ==
    /\ \A k \in TerminalStarts :
         /\ starts[k].status = "in_progress" =>
              /\ taskRun[k[1]] = [n |-> starts[k].bound, state |-> "starting"]
              /\ \A j \in TerminalStarts :
                   j[1] = k[1] /\ starts[j].status = "in_progress" => j = k
         /\ starts[k].status = "started" => starts[k].bound \in ran[k[1]]
    /\ \A k \in Posts : posts[k].status = "created" <=> k \in messages

\* No sessions wait for each other in a circle, but for two posts under one key
\* of which one restarts the Sandbox and the other does not: they take the
\* receipt and the Project in opposite orders.  The database ends one of them.
RepeatedPosts(s, u) == /\ session[s].kind = "post" /\ session[u].kind = "restart"
                       /\ Command(s) = Command(u)
OnlyRepeatedPosts ==
    \A circle \in (SUBSET Sessions) \ {{}} :
      (\A s \in circle : \E u \in circle : WaitsFor(s, u))
      => \E s, u \in circle : RepeatedPosts(s, u)
=============================================================================
