---------------------------- MODULE MessageDelivery ----------------------------
(***************************************************************************)
(* How the messages of one Task reach Botified, the agent runtime in the   *)
(* Pod of the Task's Sandbox Run (packages/application/src/taskService.ts  *)
(* and the store transactions it calls).                                   *)
(*                                                                         *)
(* Users create, edit and delete messages.  The runtime loop of the API    *)
(* process copies Botified's timeline into the Task, decides whether the   *)
(* message that owns the Run is settled, and, once Botified is quiescent,  *)
(* claims the first pending message, which then owns the Run, and posts    *)
(* it.  Requests of users copy the timeline too, between any two steps of  *)
(* the loop.  A Run ends and another starts underneath: SandboxLifecycle   *)
(* says how; here a Run is starting, active, ending or released.           *)
(*                                                                         *)
(* The deployment runs one API process and stops it before it starts the   *)
(* next (replicas 1, Recreate), so there is one loop.  Audit events,       *)
(* receipts and the projection of the timeline for the screen are left     *)
(* out; so is a timeline whose beginning has expired (history "gap").      *)
(*                                                                         *)
(* An operator called "...Mutant" is a plausible mistake in the operator   *)
(* that follows it; it shows that some property notices that mistake.      *)
(***************************************************************************)
EXTENDS Integers, Sequences

CONSTANTS
    MaxMsgs,     \* bound on the messages of the Task
    MaxContent,  \* bound on the edits of a message: contents are 0..MaxContent
    MaxRuns,     \* bound on the Runs of the Task
    FaultKinds,  \* the disturbances that may happen: "crash", "call", "late"
    MaxFaults    \* bound on the disturbances

ASSUME DeliveryConstants ==
    /\ MaxMsgs \in Nat \ {0} /\ MaxContent \in Nat
    /\ MaxRuns \in Nat \ {0} /\ MaxFaults \in Nat
    /\ FaultKinds \subseteq {"crash", "call", "late"}

VARIABLES
    message,   \* the rows of task_messages, in the order of (created_at, id)
    run,       \* the Task's current Run: number, state and currentLlmMessageId
    cursor,    \* agent_tasks.interaction_source_cursor
    loop,      \* where the runtime loop stands, and what it has read
    sync,      \* the one syncTaskTimeline under way
    posts,     \* POST /v1/messages not yet answered
    queue,     \* Botified: inputs it has not finished, with the Run they came on
    timeline,  \* Botified: its timeline, kept in the Task's data directory
    ran,       \* Botified: the text it took for a message, NoText before
    posted,    \* history: how often each message was posted
    faults     \* disturbances so far

botified == <<queue, timeline, ran>>
vars == <<message, run, cursor, loop, sync, posts, botified, posted, faults>>

Msgs == 1..MaxMsgs
Texts == 0..MaxContent
NoText == -1
NoMsg == 0

Statuses == {"absent", "pending", "dispatching", "accepted", "failed"}
Rows == [status: Statuses, claimed: BOOLEAN, lease: {"none", "live", "expired"},
         content: Texts, deleted: BOOLEAN]

\* A lease says how long the delivery under way may take; a claim is never undone.
Messages == {r \in Rows : /\ (r.lease # "none") <=> (r.status = "dispatching")
                          /\ r.claimed <=> (r.status \notin {"absent", "pending"})}

Runs == [id: 1..MaxRuns, state: {"starting", "active", "ending", "released"},
         owner: Msgs \cup {NoMsg}]
LoopPcs == {"idle", "sync", "judge", "settle", "pick", "check", "quiet", "claim",
            "post", "wait", "accept", "after"}
Loops == [pc: LoopPcs, run: 0..MaxRuns, to: Nat, inputs: SUBSET Msgs,
          idle: BOOLEAN, at: Nat, msg: Msgs \cup {NoMsg}, observed: BOOLEAN,
          text: Texts \cup {NoText}]
Syncs == [by: {"nobody", "loop", "api"}, pc: {"open", "read", "persist", "state"},
          run: 0..MaxRuns, from: Nat, to: Nat, inputs: SUBSET Msgs]
Posts == [msg: Msgs, text: Texts, run: 1..MaxRuns, state: {"sent", "served"}]
Events == [kind: {"input", "done"}, msg: Msgs]

Input(m) == [kind |-> "input", msg |-> m]
Done(m) == [kind |-> "done", msg |-> m]

\* Botified has taken message m: input.accepted or input.queued is in its timeline.
Taken(m) == \E i \in 1..Len(timeline) : timeline[i] = Input(m)

Active == run.state = "active"

\* The Pod of Run r answers while the Run is active and, until it is deleted, after.
\* Each Run has a service key of its own, which its Pod alone knows.
Answers(r) == run.id = r /\ run.state \in {"active", "ending"}

Idle == [pc |-> "idle", run |-> 0, to |-> 0, inputs |-> {}, idle |-> FALSE, at |-> 0,
         msg |-> NoMsg, observed |-> FALSE, text |-> NoText]
NoSync == [by |-> "nobody", pc |-> "open", run |-> 0, from |-> 0, to |-> 0, inputs |-> {}]
NewMessage == [status |-> "pending", claimed |-> FALSE, lease |-> "none",
               content |-> 0, deleted |-> FALSE]
Absent == [NewMessage EXCEPT !.status = "absent"]

\* m is the first of a set of messages, in the order of creation.
IsFirst(m, S) == m \in S /\ \A n \in S : m <= n

Listed == {m \in Msgs : message[m].status # "absent" /\ ~message[m].deleted}
Pending == {m \in Listed : message[m].status = "pending"}
Waiting == {m \in Listed : message[m].status \in {"pending", "dispatching"}}

\* A Task is created together with its first message and its first Run.
Init ==
    /\ message = [m \in Msgs |-> IF m = 1 THEN NewMessage ELSE Absent]
    /\ run = [id |-> 1, state |-> "starting", owner |-> NoMsg]
    /\ cursor = 0
    /\ loop = Idle /\ sync = NoSync /\ posts = {}
    /\ queue = <<>> /\ timeline = <<>> /\ ran = [m \in Msgs |-> NoText]
    /\ posted = [m \in Msgs |-> 0]
    /\ faults = 0

MayFault(kind) ==
    /\ kind \in FaultKinds /\ faults < MaxFaults
    /\ faults' = faults + 1

-----------------------------------------------------------------------------
(* Users.                                                                    *)

NextRun == [id |-> run.id + 1, state |-> "starting", owner |-> NoMsg]

\* The order of messages is the order of the timestamps their requests took, not
\* of the transactions that store them: an older message may appear after a
\* younger one was delivered.
CreateMessage(m) ==
    /\ message[m].status = "absent"
    /\ \/ run.state \in {"starting", "active"} /\ UNCHANGED run
       \/ run.state = "released" /\ run.id < MaxRuns /\ run' = NextRun
    /\ message' = [message EXCEPT ![m] = NewMessage]
    /\ UNCHANGED <<cursor, loop, sync, posts, botified, posted, faults>>

\* The update compares updated_at with the row the text was prepared from, so that
\* the reads before it and the update are one step.
EditMessage(m) ==
    /\ m \in Pending
    /\ message[m].content < MaxContent
    /\ message' = [message EXCEPT ![m].content = @ + 1]
    /\ UNCHANGED <<run, cursor, loop, sync, posts, botified, posted, faults>>

DeletableMutant == {"pending", "dispatching", "failed"}

Deletable == {"pending", "failed"}

DeleteMessage(m) ==
    /\ m \in Listed /\ message[m].status \in Deletable
    /\ message' = [message EXCEPT ![m].deleted = TRUE]
    /\ UNCHANGED <<run, cursor, loop, sync, posts, botified, posted, faults>>

-----------------------------------------------------------------------------
(* The Run underneath.                                                       *)

\* A new Run without a message: the start of a terminal.
StartRun ==
    /\ run.state = "released" /\ run.id < MaxRuns
    /\ run' = NextRun
    /\ UNCHANGED <<message, cursor, loop, sync, posts, botified, posted, faults>>

\* The Pod is up.  Botified takes up what an earlier Run left in its queue, or drops it.
RunActivates ==
    /\ run.state = "starting"
    /\ run' = [run EXCEPT !.state = "active"]
    /\ queue' \in {queue, <<>>}
    /\ UNCHANGED <<message, cursor, loop, sync, posts, timeline, ran, posted, faults>>

FailOwned(m) ==
    IF m # NoMsg /\ m \in Listed /\ message[m].status = "dispatching"
    THEN [message EXCEPT ![m].status = "failed", ![m].lease = "none"]
    ELSE message

\* A failure, a request for release or the drain of the Run.
RunEnds ==
    /\ run.state \in {"starting", "active"}
    /\ message' = FailOwned(run.owner)
    /\ run' = [run EXCEPT !.state = "ending", !.owner = NoMsg]
    /\ UNCHANGED <<cursor, loop, sync, posts, botified, posted, faults>>

RunReleased ==
    /\ run.state = "ending"
    /\ run' = [run EXCEPT !.state = "released"]
    /\ UNCHANGED <<message, cursor, loop, sync, posts, botified, posted, faults>>

-----------------------------------------------------------------------------
(* Copying the timeline: syncTaskTimeline, one at a time in the process.     *)

SyncBy(who, r) == [NoSync EXCEPT !.by = who, !.run = r]

\* A request of a user for the conversation.
ApiSync ==
    /\ Active /\ sync.by = "nobody"
    /\ sync' = SyncBy("api", run.id)
    /\ UNCHANGED <<message, run, cursor, loop, posts, botified, posted, faults>>

\* The loop visits the Task; it comes back for a second copy after a delivery.
LoopTick ==
    /\ loop.pc = "idle" /\ Active /\ sync.by = "nobody"
    /\ sync' = SyncBy("loop", run.id)
    /\ loop' = [Idle EXCEPT !.pc = "sync"]
    /\ UNCHANGED <<message, run, cursor, posts, botified, posted, faults>>

LoopSyncAgain ==
    /\ loop.pc = "after" /\ sync.by = "nobody"
    /\ sync' = SyncBy("loop", loop.run)
    /\ UNCHANGED <<message, run, cursor, loop, posts, botified, posted, faults>>

\* The Task's snapshot, with the cursor up to which the timeline is stored.
SyncOpen ==
    /\ sync.by # "nobody" /\ sync.pc = "open"
    /\ sync' = [sync EXCEPT !.pc = "read", !.from = cursor]
    /\ UNCHANGED <<message, run, cursor, loop, posts, botified, posted, faults>>

\* Reads the timeline from there to its end.
SyncRead ==
    /\ sync.pc = "read" /\ Answers(sync.run)
    /\ sync' = [sync EXCEPT !.pc = "persist", !.to = Len(timeline),
                    !.inputs = {m \in Msgs : \E i \in (sync.from + 1)..Len(timeline) :
                                                 timeline[i] = Input(m)}]
    /\ UNCHANGED <<message, run, cursor, loop, posts, botified, posted, faults>>

KeepsLeaseMutant(inputs) ==
    [m \in Msgs |-> IF m \in inputs \cap Listed /\ message[m].status # "accepted"
                    THEN [message[m] EXCEPT !.status = "accepted"]
                    ELSE message[m]]

AcceptInputsMutant(inputs) ==
    [m \in Msgs |-> IF m \in inputs \cap Listed /\ message[m].status = "dispatching"
                    THEN [message[m] EXCEPT !.status = "accepted", !.lease = "none"]
                    ELSE message[m]]

AcceptInputs(inputs) ==
    [m \in Msgs |-> IF m \in inputs \cap Listed /\ message[m].status # "accepted"
                    THEN [message[m] EXCEPT !.status = "accepted", !.lease = "none"]
                    ELSE message[m]]

\* One transaction: the cursor, if nobody moved it, and the messages seen taken.
SyncPersist ==
    /\ sync.pc = "persist" /\ cursor = sync.from
    /\ cursor' = sync.to
    /\ message' = AcceptInputs(sync.inputs)
    /\ sync' = [sync EXCEPT !.pc = "state"]
    /\ UNCHANGED <<run, loop, posts, botified, posted, faults>>

\* Botified's state is read once more.  The loop judges by it after its first copy,
\* and has finished with the Task after its second.
SyncState ==
    /\ sync.pc = "state" /\ Answers(sync.run)
    /\ loop' = CASE sync.by = "api" -> loop
                 [] sync.by # "api" /\ loop.pc = "after" -> Idle
                 [] OTHER -> [loop EXCEPT !.pc = "judge", !.run = run.id, !.to = sync.to,
                                          !.inputs = sync.inputs,
                                          !.idle = (queue = <<>>), !.at = Len(timeline)]
    /\ sync' = NoSync
    /\ UNCHANGED <<message, run, cursor, posts, botified, posted, faults>>

\* A call of the copy fails: always when the Pod is gone, else as a disturbance.
SyncFails ==
    /\ sync.pc \in {"read", "persist", "state"}
    /\ \/ ~Answers(sync.run) /\ UNCHANGED faults
       \/ MayFault("call")
    /\ loop' = IF sync.by = "loop" THEN Idle ELSE loop
    /\ sync' = NoSync
    /\ UNCHANGED <<message, run, cursor, posts, botified, posted>>

-----------------------------------------------------------------------------
(* The loop: is the owner settled, and may the next message go?              *)

QuiescentMutant == TRUE

\* The state read last is idle and not ahead of the timeline that was stored.
Quiescent == loop.idle /\ loop.at = loop.to

\* Nothing more is done for the Task in this visit.
LeaveTask == loop' = Idle

OverdueMutant(m) == message[m].lease = "live"

\* A message whose delivery nobody saw is given up once its lease has passed.
Overdue(m) == message[m].lease = "expired"

LoopJudge ==
    /\ loop.pc = "judge"
    /\ LET m == run.owner
           observed == m \in loop.inputs \/ message[m].status = "accepted"
       IN  IF ~(Quiescent /\ Active /\ run.id = loop.run) THEN LeaveTask
           ELSE IF m = NoMsg THEN loop' = [loop EXCEPT !.pc = "pick"]
           ELSE IF observed \/ Overdue(m)
                THEN loop' = [loop EXCEPT !.pc = "settle", !.msg = m, !.observed = observed]
                ELSE LeaveTask
    /\ UNCHANGED <<message, run, cursor, sync, posts, botified, posted, faults>>

SettledAcceptsMutant(m, observed) ==
    [message[m] EXCEPT !.status = "accepted", !.lease = "none"]

SettledRetriesMutant(m, observed) ==
    IF observed THEN [message[m] EXCEPT !.status = "accepted", !.lease = "none"]
    ELSE [message[m] EXCEPT !.status = IF @ = "dispatching" THEN "pending" ELSE @,
                            !.claimed = FALSE, !.lease = "none"]

Settled(m, observed) ==
    IF observed THEN [message[m] EXCEPT !.status = "accepted", !.lease = "none"]
    ELSE [message[m] EXCEPT !.status = IF @ = "dispatching" THEN "failed" ELSE @,
                            !.lease = "none"]

LoopSettle ==
    /\ loop.pc = "settle"
    /\ IF Active /\ run.id = loop.run /\ run.owner = loop.msg /\ loop.msg \in Listed
       THEN /\ message' = [message EXCEPT ![loop.msg] = Settled(loop.msg, loop.observed)]
            /\ run' = [run EXCEPT !.owner = NoMsg]
            /\ loop' = [loop EXCEPT !.pc = "pick", !.msg = NoMsg]
       ELSE LeaveTask /\ UNCHANGED <<message, run>>
    /\ UNCHANGED <<cursor, sync, posts, botified, posted, faults>>

\* The first pending message, if no message before it is on its way.
LoopPick ==
    /\ loop.pc = "pick"
    /\ \/ \E m \in Pending :
             /\ IsFirst(m, Waiting)
             /\ loop' = [Idle EXCEPT !.pc = "check", !.msg = m, !.text = message[m].content]
       \/ LeaveTask /\ \A m \in Pending : ~IsFirst(m, Waiting)
    /\ UNCHANGED <<message, run, cursor, sync, posts, botified, posted, faults>>

\* Botified's state once more, on the Task's Run of now.
LoopCheck ==
    /\ loop.pc = "check"
    /\ IF Active
       THEN loop' = [loop EXCEPT !.pc = "quiet", !.run = run.id,
                                 !.idle = (queue = <<>>), !.at = Len(timeline)]
       ELSE LeaveTask
    /\ UNCHANGED <<message, run, cursor, sync, posts, botified, posted, faults>>

\* Against the cursor that is stored by then.
LoopQuiet ==
    /\ loop.pc = "quiet"
    /\ IF loop.idle /\ loop.at = cursor
       THEN loop' = [loop EXCEPT !.pc = "claim"]
       ELSE LeaveTask
    /\ UNCHANGED <<message, run, cursor, sync, posts, botified, posted, faults>>

-----------------------------------------------------------------------------
(* The loop: the delivery.                                                   *)

ClaimableMutant(m) == message[m].status = "pending" /\ ~message[m].claimed

Claimable(m) ==
    /\ m \in Pending /\ ~message[m].claimed
    /\ IsFirst(m, Waiting)

ClaimedTextMutant(m) == loop.text

\* The claim returns the row it claimed: the text is the one of now.
ClaimedText(m) == message[m].content

LoopClaim ==
    /\ loop.pc = "claim"
    /\ LET m == loop.msg
       IN  IF Active /\ run.id = loop.run /\ run.owner = NoMsg /\ Claimable(m)
           THEN /\ message' = [message EXCEPT ![m].status = "dispatching",
                                              ![m].claimed = TRUE, ![m].lease = "live"]
                /\ run' = [run EXCEPT !.owner = m]
                /\ loop' = [loop EXCEPT !.pc = "post", !.text = ClaimedText(m)]
           ELSE LeaveTask /\ UNCHANGED <<message, run>>
    /\ UNCHANGED <<cursor, sync, posts, botified, posted, faults>>

LoopPost ==
    /\ loop.pc = "post"
    /\ posts' = posts \cup {[msg |-> loop.msg, text |-> loop.text, run |-> loop.run,
                              state |-> "sent"]}
    /\ posted' = [posted EXCEPT ![loop.msg] = @ + 1]
    /\ loop' = [loop EXCEPT !.pc = "wait"]
    /\ UNCHANGED <<message, run, cursor, sync, botified, faults>>

Awaited(x) == loop.pc = "wait" /\ x.msg = loop.msg

LoopAnswer(x) ==
    /\ Awaited(x) /\ x.state = "served"
    /\ posts' = posts \ {x}
    /\ loop' = [loop EXCEPT !.pc = "accept"]
    /\ UNCHANGED <<message, run, cursor, sync, botified, posted, faults>>

\* No answer: the connection fails, before or after Botified took the message, or the
\* caller's ten seconds pass.  The message stays "dispatching".  "late": the request
\* is served after its caller gave up.
LoopGivesUp(x) ==
    /\ Awaited(x)
    /\ \/ posts' = posts \ {x}
          /\ \/ MayFault("call")
             \/ ~Answers(x.run) /\ UNCHANGED faults
       \/ x.state = "sent" /\ MayFault("late") /\ UNCHANGED posts
    /\ LeaveTask
    /\ UNCHANGED <<message, run, cursor, sync, botified, posted>>

LoopAccept ==
    /\ loop.pc = "accept"
    /\ LET m == loop.msg
       IN  IF Active /\ run.id = loop.run /\ run.owner = m
              /\ m \in Listed /\ message[m].status = "dispatching"
           THEN /\ message' = [message EXCEPT ![m].status = "accepted", ![m].lease = "none"]
                /\ loop' = [Idle EXCEPT !.pc = "after", !.run = loop.run]
           ELSE LeaveTask /\ UNCHANGED message
    /\ UNCHANGED <<run, cursor, sync, posts, botified, posted, faults>>

-----------------------------------------------------------------------------
(* Time, the process and Botified.                                           *)

LeaseExpires(m) ==
    /\ message[m].lease = "live"
    /\ message' = [message EXCEPT ![m].lease = "expired"]
    /\ UNCHANGED <<run, cursor, loop, sync, posts, botified, posted, faults>>

\* The process stops and starts again.  A request it had under way is served before
\* that or never.
Crash ==
    /\ MayFault("crash")
    /\ loop' = Idle /\ sync' = NoSync /\ posts' = {}
    /\ UNCHANGED <<message, run, cursor, botified, posted>>

\* Botified takes a message; a second one with the same client_message_id is answered
\* as a duplicate.
BotifiedServes(x) ==
    /\ x.state = "sent" /\ Answers(x.run)
    /\ posts' = (posts \ {x}) \cup
                 (IF Awaited(x) THEN {[x EXCEPT !.state = "served"]} ELSE {})
    /\ IF Taken(x.msg)
       THEN UNCHANGED botified
       ELSE /\ timeline' = Append(timeline, Input(x.msg))
            /\ queue' = Append(queue, [msg |-> x.msg, run |-> x.run])
            /\ ran' = [ran EXCEPT ![x.msg] = x.text]
    /\ UNCHANGED <<message, run, cursor, loop, sync, posted, faults>>

BotifiedFinishes ==
    /\ Answers(run.id) /\ queue # <<>>
    /\ timeline' = Append(timeline, Done(Head(queue).msg))
    /\ queue' = Tail(queue)
    /\ UNCHANGED <<message, run, cursor, loop, sync, posts, ran, posted, faults>>

-----------------------------------------------------------------------------
LoopSteps ==
    \/ LoopJudge \/ LoopSettle \/ LoopPick \/ LoopCheck \/ LoopQuiet
    \/ LoopClaim \/ LoopPost \/ LoopAccept
    \/ \E x \in posts : LoopAnswer(x) \/ LoopGivesUp(x)

SyncSteps == SyncOpen \/ SyncRead \/ SyncPersist \/ SyncState \/ SyncFails

Users ==
    \/ \E m \in Msgs : CreateMessage(m) \/ EditMessage(m) \/ DeleteMessage(m)
    \/ ApiSync

RunSteps == StartRun \/ RunActivates \/ RunEnds \/ RunReleased

BotifiedSteps == (\E x \in posts : BotifiedServes(x)) \/ BotifiedFinishes

Next ==
    \/ Users \/ RunSteps \/ BotifiedSteps
    \/ LoopTick \/ LoopSyncAgain \/ LoopSteps \/ SyncSteps
    \/ \E m \in Msgs : LeaseExpires(m)
    \/ Crash

Spec == Init /\ [][Next]_vars

(***************************************************************************)
(* The loop and a copy that has started take their steps.  Copies queue in *)
(* the order they were asked for, so that the loop's turn comes however    *)
(* many requests there are: strong fairness.  Leases pass by the clock.    *)
(* Botified answers and ends its turns.  Nothing is assumed of users, of   *)
(* the Runs or of the disturbances.                                        *)
(***************************************************************************)
FairSpec ==
    /\ Spec
    /\ WF_vars(LoopSteps) /\ WF_vars(SyncSteps)
    /\ SF_vars(LoopTick) /\ SF_vars(LoopSyncAgain)
    /\ \A m \in Msgs : WF_vars(LeaseExpires(m))
    /\ WF_vars(BotifiedSteps)

-----------------------------------------------------------------------------
TypeOK ==
    /\ message \in [Msgs -> Messages]
    /\ run \in Runs
    /\ cursor \in 0..Len(timeline)
    /\ loop \in Loops /\ sync \in Syncs /\ posts \subseteq Posts
    /\ timeline \in Seq(Events) /\ queue \in Seq([msg: Msgs, run: 1..MaxRuns])
    /\ ran \in [Msgs -> Texts \cup {NoText}]
    /\ posted \in [Msgs -> Nat] /\ faults \in 0..MaxFaults

\* A message is posted at most once, whatever becomes of the answer, of the process
\* or of the Run ("never posted again").
PostedOnce == \A m \in Msgs : posted[m] <= 1

\* Whoever owns a Run can be settled: a Run whose owner were deleted or failed would
\* wait for it forever, since settleTaskRunLlmOwner no longer finds it.
OwnerCanSettle ==
    run.owner # NoMsg => /\ Active /\ run.owner \in Listed
                         /\ message[run.owner].status \in {"dispatching", "accepted"}

\* What is accepted was taken by Botified: the loop never takes a lost POST for a
\* delivery.
AcceptedWasTaken == \A m \in Msgs : message[m].status = "accepted" => Taken(m)

\* A stored cursor leaves no message behind: one whose input lies before it is
\* accepted, also when it had been given up as failed, unless its user deleted it.
CursorLeavesNoneBehind ==
    \A i \in 1..cursor : timeline[i].kind = "input" =>
        \/ message[timeline[i].msg].status = "accepted"
        \/ message[timeline[i].msg].deleted

\* A message deleted while it waited is never taken, not even when the loop had
\* already chosen it; and none is deleted between its claim and its settlement.
DeletedStaysOut ==
    \A m \in Msgs : message[m].deleted =>
        /\ message[m].status \in {"pending", "failed"}
        /\ message[m].status = "pending" => ~Taken(m)

\* Botified runs the text that is stored, also when the message was edited while the
\* loop was about to deliver it.
RanAsStored == \A m \in Msgs : ran[m] # NoText => ran[m] = message[m].content

\* Whatever Botified works on for an active Run owns that Run, so that the broker lets
\* its model calls through: one message at a time.
OwnerRuns ==
    Active => \A i \in 1..Len(queue) : queue[i].run = run.id => queue[i].msg = run.owner

\* The queue does not get stuck: behind a message whose answer was lost, or a crash,
\* a pending message is delivered, deleted, or the Run ends.
PendingMovesOn ==
    \A m \in Msgs : (m \in Pending /\ Active) ~> (m \notin Pending \/ ~Active)

\* The user learns of a message that Botified took, if its answer was lost or it was
\* given up as failed, while its Run lasts.
TakenIsLearnt ==
    \A m \in Msgs : (Taken(m) /\ Active)
        ~> (message[m].status = "accepted" \/ message[m].deleted \/ ~Active)
=============================================================================
