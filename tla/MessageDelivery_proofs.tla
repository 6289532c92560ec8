------------------------ MODULE MessageDelivery_proofs ------------------------
(***************************************************************************)
(* What holds of the delivery of messages for any number of messages,      *)
(* edits, Runs and disturbances: at most one POST per message, with the    *)
(* text that is stored, never of a deleted one; an owner that can always   *)
(* be settled; acceptance of exactly what Botified is seen to have taken.  *)
(***************************************************************************)
EXTENDS MessageDelivery, TLAPS

\* What the loop is about to post, or has posted, is a text of a message.
DeliveryTyped ==
    loop.pc \in {"post", "wait", "accept"} =>
        loop.msg \in Msgs /\ loop.text \in Texts /\ loop.run \in 1..MaxRuns

\* A copy under way ends no later than the timeline does.
CopyBehind == sync.to <= Len(timeline)

\* What a copy is about to store accounts for every input it has passed.
CopyCovers ==
    sync.pc = "persist" =>
        \A i \in (sync.from + 1)..sync.to :
            timeline[i].kind = "input" => timeline[i].msg \in sync.inputs

\* What is about to be posted was never posted: it was claimed for this one POST.
PostedFresh ==
    /\ \A m \in Msgs : ~message[m].claimed => posted[m] = 0
    /\ loop.pc = "post" => posted[loop.msg] = 0

\* Only what was claimed gets to Botified, with the text that is stored.
OnlyClaimed ==
    /\ \A m \in Msgs : Taken(m) \/ ran[m] # NoText => message[m].claimed
    /\ \A x \in posts : message[x.msg].claimed /\ x.text = message[x.msg].content
    /\ loop.pc = "post" => /\ message[loop.msg].claimed
                           /\ loop.text = message[loop.msg].content

\* Whatever the process believes taken was taken: the inputs it has read, the answer
\* it waits for, the observation it settles by.
TakenKnown ==
    /\ \A m \in sync.inputs \cup loop.inputs : Taken(m)
    /\ \A x \in posts : x.state = "served" => Taken(x.msg)
    /\ loop.pc = "settle" /\ loop.observed => Taken(loop.msg)
    /\ loop.pc = "accept" => Taken(loop.msg)

\* The inductive invariant.
IInv ==
    /\ TypeOK /\ DeliveryTyped /\ CopyBehind
    /\ PostedOnce /\ PostedFresh /\ OnlyClaimed /\ RanAsStored
    /\ OwnerCanSettle
    /\ AcceptedWasTaken /\ TakenKnown
    /\ DeletedStaysOut
    /\ CopyCovers /\ CursorLeavesNoneBehind

-----------------------------------------------------------------------------
(* Which steps write which variable.                                         *)

\* The task_messages rows: users, the end of a Run, and the five store calls.
LEMMA MessageWriters ==
    ASSUME Next
    PROVE  \/ UNCHANGED message
           \/ \E m \in Msgs : CreateMessage(m) \/ EditMessage(m) \/ DeleteMessage(m)
           \/ \E m \in Msgs : LeaseExpires(m)
           \/ RunEnds \/ LoopSettle \/ LoopClaim \/ LoopAccept \/ SyncPersist
BY DEF Next, Users, RunSteps, BotifiedSteps, LoopSteps, SyncSteps, ApiSync, StartRun,
   RunActivates, RunReleased, BotifiedServes, BotifiedFinishes, LoopTick, LoopSyncAgain,
   LoopJudge, LoopPick, LoopCheck, LoopQuiet, LoopPost, LoopAnswer, LoopGivesUp,
   SyncOpen, SyncRead, SyncState, SyncFails, Crash, LeaveTask, botified

\* The Run row.
LEMMA RunWriters ==
    ASSUME Next
    PROVE  \/ UNCHANGED run
           \/ \E m \in Msgs : CreateMessage(m)
           \/ StartRun \/ RunActivates \/ RunEnds \/ RunReleased \/ LoopSettle
           \/ LoopClaim
BY DEF Next, Users, RunSteps, BotifiedSteps, LoopSteps, SyncSteps, EditMessage,
   DeleteMessage, ApiSync, BotifiedServes, BotifiedFinishes, LoopTick, LoopSyncAgain,
   LoopJudge, LoopPick, LoopCheck, LoopQuiet, LoopPost, LoopAccept, LoopAnswer,
   LoopGivesUp, SyncOpen, SyncRead, SyncPersist, SyncState, SyncFails, LeaseExpires,
   Crash, LeaveTask, botified

\* The loop.
LEMMA LoopWriters ==
    ASSUME Next
    PROVE  \/ UNCHANGED loop
           \/ \E x \in posts : LoopAnswer(x) \/ LoopGivesUp(x)
           \/ LoopTick \/ LoopJudge \/ LoopSettle \/ LoopPick \/ LoopCheck
           \/ LoopQuiet \/ LoopClaim \/ LoopPost \/ LoopAccept \/ SyncState
           \/ SyncFails \/ Crash
BY DEF Next, Users, RunSteps, BotifiedSteps, LoopSteps, SyncSteps, CreateMessage,
   EditMessage, DeleteMessage, ApiSync, StartRun, RunActivates, RunEnds, RunReleased,
   BotifiedServes, BotifiedFinishes, LoopSyncAgain, SyncOpen, SyncRead, SyncPersist,
   LeaseExpires, LeaveTask, botified

\* The copy of the timeline.
LEMMA SyncWriters ==
    ASSUME Next
    PROVE  \/ UNCHANGED sync
           \/ ApiSync \/ LoopTick \/ LoopSyncAgain \/ SyncOpen \/ SyncRead
           \/ SyncPersist \/ SyncState \/ SyncFails \/ Crash
BY DEF Next, Users, RunSteps, BotifiedSteps, LoopSteps, SyncSteps, CreateMessage,
   EditMessage, DeleteMessage, StartRun, RunActivates, RunEnds, RunReleased,
   BotifiedServes, BotifiedFinishes, LoopJudge, LoopSettle, LoopPick, LoopCheck,
   LoopQuiet, LoopClaim, LoopPost, LoopAccept, LoopAnswer, LoopGivesUp, LeaseExpires,
   LeaveTask, botified

\* The requests to Botified.
LEMMA PostsWriters ==
    ASSUME Next
    PROVE  \/ UNCHANGED posts
           \/ \E x \in posts : BotifiedServes(x) \/ LoopAnswer(x) \/ LoopGivesUp(x)
           \/ LoopPost \/ Crash
BY DEF Next, Users, RunSteps, BotifiedSteps, LoopSteps, SyncSteps, CreateMessage,
   EditMessage, DeleteMessage, ApiSync, StartRun, RunActivates, RunEnds, RunReleased,
   BotifiedFinishes, LoopTick, LoopSyncAgain, LoopJudge, LoopSettle, LoopPick,
   LoopCheck, LoopQuiet, LoopClaim, LoopAccept, SyncOpen, SyncRead, SyncPersist,
   SyncState, SyncFails, LeaseExpires, LeaveTask, botified

\* Botified itself.
LEMMA BotifiedWriters ==
    ASSUME Next
    PROVE  \/ UNCHANGED botified
           \/ \E x \in posts : BotifiedServes(x)
           \/ RunActivates \/ BotifiedFinishes
BY DEF Next, Users, RunSteps, BotifiedSteps, LoopSteps, SyncSteps, CreateMessage,
   EditMessage, DeleteMessage, ApiSync, StartRun, RunEnds, RunReleased, LoopTick,
   LoopSyncAgain, LoopJudge, LoopSettle, LoopPick, LoopCheck, LoopQuiet, LoopClaim,
   LoopPost, LoopAccept, LoopAnswer, LoopGivesUp, SyncOpen, SyncRead, SyncPersist,
   SyncState, SyncFails, LeaseExpires, Crash, LeaveTask

\* Only a POST counts as one.
LEMMA PostedWriters ==
    ASSUME Next
    PROVE  \/ UNCHANGED posted
           \/ LoopPost
BY DEF Next, Users, RunSteps, BotifiedSteps, LoopSteps, SyncSteps, CreateMessage,
   EditMessage, DeleteMessage, ApiSync, StartRun, RunActivates, RunEnds, RunReleased,
   BotifiedServes, BotifiedFinishes, LoopTick, LoopSyncAgain, LoopJudge, LoopSettle,
   LoopPick, LoopCheck, LoopQuiet, LoopClaim, LoopAccept, LoopAnswer, LoopGivesUp,
   SyncOpen, SyncRead, SyncPersist, SyncState, SyncFails, LeaseExpires, Crash,
   LeaveTask, botified

\* Only a copy moves the cursor.
LEMMA CursorWriters ==
    ASSUME Next
    PROVE  \/ UNCHANGED cursor
           \/ SyncPersist
BY DEF Next, Users, RunSteps, BotifiedSteps, LoopSteps, SyncSteps, CreateMessage,
   EditMessage, DeleteMessage, ApiSync, StartRun, RunActivates, RunEnds, RunReleased,
   BotifiedServes, BotifiedFinishes, LoopTick, LoopSyncAgain, LoopJudge, LoopSettle,
   LoopPick, LoopCheck, LoopQuiet, LoopClaim, LoopPost, LoopAccept, LoopAnswer,
   LoopGivesUp, SyncOpen, SyncRead, SyncState, SyncFails, LeaseExpires, Crash,
   LeaveTask, botified

\* The disturbances.
LEMMA FaultsWriters ==
    ASSUME Next
    PROVE  \/ UNCHANGED faults
           \/ \E x \in posts : LoopGivesUp(x)
           \/ SyncFails \/ Crash
BY DEF Next, Users, RunSteps, BotifiedSteps, LoopSteps, SyncSteps, CreateMessage,
   EditMessage, DeleteMessage, ApiSync, StartRun, RunActivates, RunEnds, RunReleased,
   BotifiedServes, BotifiedFinishes, LoopTick, LoopSyncAgain, LoopJudge, LoopSettle,
   LoopPick, LoopCheck, LoopQuiet, LoopClaim, LoopPost, LoopAccept, LoopAnswer,
   SyncOpen, SyncRead, SyncPersist, SyncState, LeaseExpires, LeaveTask, botified

-----------------------------------------------------------------------------
(* Types.                                                                    *)

\* The new values of a message's row are rows again, with a lease exactly while the
\* message is being delivered.
LEMMA RowUpdates ==
    ASSUME NEW r \in Messages
    PROVE  /\ NewMessage \in Messages
           /\ r.status = "pending" /\ r.content < MaxContent =>
                  [r EXCEPT !.content = @ + 1] \in Messages
           /\ [r EXCEPT !.deleted = TRUE] \in Messages
           /\ r.lease = "live" => [r EXCEPT !.lease = "expired"] \in Messages
           /\ r.status = "pending" =>
                  [r EXCEPT !.status = "dispatching", !.claimed = TRUE, !.lease = "live"]
                      \in Messages
           /\ r.claimed => [r EXCEPT !.status = "accepted", !.lease = "none"] \in Messages
           /\ r.status = "dispatching" =>
                  [r EXCEPT !.status = "failed", !.lease = "none"] \in Messages
<1>1. r \in Rows BY DEF Messages
<1>2. 0 \in Texts /\ Texts \subseteq Int BY DeliveryConstants DEF DeliveryConstants, Texts
<1>3. r.content < MaxContent => r.content + 1 \in Texts
    BY <1>1, <1>2, DeliveryConstants DEF DeliveryConstants, Texts, Rows
<1>4. NewMessage \in Messages BY <1>2 DEF NewMessage, Messages, Rows, Statuses
<1>5. r.status = "pending" /\ r.content < MaxContent =>
          [r EXCEPT !.content = @ + 1] \in Messages
    BY <1>1, <1>3 DEF Messages, Rows
<1>6. [r EXCEPT !.deleted = TRUE] \in Messages BY <1>1 DEF Messages, Rows
<1>7. r.lease = "live" => [r EXCEPT !.lease = "expired"] \in Messages
    BY <1>1 DEF Messages, Rows
<1>8. r.status = "pending" =>
          [r EXCEPT !.status = "dispatching", !.claimed = TRUE, !.lease = "live"] \in Messages
    BY <1>1 DEF Messages, Rows, Statuses
<1>9. r.claimed => [r EXCEPT !.status = "accepted", !.lease = "none"] \in Messages
    BY <1>1 DEF Messages, Rows, Statuses
<1>10. r.status = "dispatching" =>
          [r EXCEPT !.status = "failed", !.lease = "none"] \in Messages
    BY <1>1 DEF Messages, Rows, Statuses
<1>11. QED BY <1>4, <1>5, <1>6, <1>7, <1>8, <1>9, <1>10

\* A row goes only forward: what is claimed stays claimed with its text, what is
\* accepted stays accepted, what is deleted stays deleted.
Forward(r, s) ==
    /\ r.claimed => s.claimed /\ s.content = r.content
    /\ r.status = "accepted" => s.status = "accepted"
    /\ r.deleted => s.deleted

MessageForward ==
    /\ message' \in [Msgs -> Messages]
    /\ \A m \in Msgs : Forward(message[m], message'[m])

\* Writing one row, forward, keeps all rows well typed.
LEMMA WriteRow ==
    ASSUME message \in [Msgs -> Messages], NEW m \in Msgs, NEW r \in Messages,
           Forward(message[m], r), message' = [message EXCEPT ![m] = r]
    PROVE  MessageForward
BY DEF MessageForward, Forward

\* Every step keeps the rows well typed and moves them only forward.
LEMMA MessageTyped == ASSUME IInv, Next PROVE MessageForward
<1>0. message \in [Msgs -> Messages] BY DEF IInv, TypeOK
<1>1. CASE UNCHANGED message BY <1>0, <1>1 DEF MessageForward, Forward
<1>2. ASSUME NEW m \in Msgs, CreateMessage(m) \/ EditMessage(m) \/ DeleteMessage(m)
                             \/ LeaseExpires(m)
      PROVE  MessageForward
    <2>1. message[m] \in Messages BY <1>0
    <2>2. CASE CreateMessage(m)
        <3>1. ~message[m].claimed BY <2>1, <2>2 DEF CreateMessage, Messages
        <3>2. ~message[m].deleted BY <2>2 DEF CreateMessage, IInv, DeletedStaysOut
        <3>3. Forward(message[m], NewMessage)
            BY <2>2, <3>1, <3>2 DEF CreateMessage, Forward
        <3>4. QED BY <1>0, <2>1, <2>2, <3>3, RowUpdates, WriteRow DEF CreateMessage
    <2>3. CASE EditMessage(m)
        <3>1. /\ message[m].status = "pending" /\ ~message[m].claimed
              /\ message[m].content < MaxContent
            BY <2>1, <2>3 DEF EditMessage, Pending, Messages
        <3> DEFINE r == [message[m] EXCEPT !.content = @ + 1]
        <3>2. r \in Messages BY <2>1, <3>1, RowUpdates
        <3>3. Forward(message[m], r) BY <2>1, <3>1 DEF Forward, Messages, Rows
        <3>4. message' = [message EXCEPT ![m] = r] BY <2>3 DEF EditMessage
        <3>5. QED BY ONLY <1>0, <3>2, <3>3, <3>4, WriteRow
    <2>4. CASE DeleteMessage(m)
        <3> DEFINE r == [message[m] EXCEPT !.deleted = TRUE]
        <3>1. r \in Messages BY <2>1, RowUpdates
        <3>2. Forward(message[m], r) BY <2>1 DEF Forward, Messages, Rows
        <3>3. message' = [message EXCEPT ![m] = r] BY <2>4 DEF DeleteMessage
        <3>4. QED BY ONLY <1>0, <3>1, <3>2, <3>3, WriteRow
    <2>5. CASE LeaseExpires(m)
        <3> DEFINE r == [message[m] EXCEPT !.lease = "expired"]
        <3>1. r \in Messages BY <2>1, <2>5, RowUpdates DEF LeaseExpires
        <3>2. Forward(message[m], r) BY <2>1 DEF Forward, Messages, Rows
        <3>3. message' = [message EXCEPT ![m] = r] BY <2>5 DEF LeaseExpires
        <3>4. QED BY ONLY <1>0, <3>1, <3>2, <3>3, WriteRow
    <2>6. QED BY <1>2, <2>2, <2>3, <2>4, <2>5
<1>3. CASE RunEnds
    <2>1. ASSUME NEW m, m = run.owner, m # NoMsg, m \in Listed,
                 message[m].status = "dispatching"
          PROVE  MessageForward
        <3>1. m \in Msgs /\ message[m] \in Messages BY <1>0, <2>1 DEF Listed
        <3> DEFINE r == [message[m] EXCEPT !.status = "failed", !.lease = "none"]
        <3>2. r \in Messages BY <2>1, <3>1, RowUpdates
        <3>3. Forward(message[m], r) BY <2>1, <3>1 DEF Forward, Messages, Rows
        <3>4. message' = [message EXCEPT ![m] = r]
            BY <1>0, <1>3, <2>1, <3>1 DEF RunEnds, FailOwned, Messages, Rows
        <3>5. QED BY ONLY <1>0, <3>1, <3>2, <3>3, <3>4, WriteRow
    <2>2. CASE message' = message BY <1>0, <2>2 DEF MessageForward, Forward
    <2>3. QED BY <1>3, <2>1, <2>2 DEF RunEnds, FailOwned
<1>4. CASE LoopSettle
    <2>1. ASSUME loop.msg \in Listed, run.owner = loop.msg,
                 message' = [message EXCEPT ![loop.msg] = Settled(loop.msg, loop.observed)]
          PROVE  MessageForward
        <3>1. loop.msg \in Msgs /\ message[loop.msg] \in Messages BY <1>0, <2>1 DEF Listed
        <3>2. message[loop.msg].status \in {"dispatching", "accepted"}
            BY <2>1, <3>1, DeliveryConstants
            DEF IInv, OwnerCanSettle, NoMsg, Msgs, DeliveryConstants
        <3>3. message[loop.msg].claimed BY <3>1, <3>2 DEF Messages
        <3>4. Settled(loop.msg, loop.observed) \in Messages
            <4>1. CASE loop.observed BY <3>1, <3>3, <4>1, RowUpdates DEF Settled
            <4>2. CASE ~loop.observed /\ message[loop.msg].status = "dispatching"
                <5>1. Settled(loop.msg, loop.observed) =
                          [message[loop.msg] EXCEPT !.status = "failed", !.lease = "none"]
                    BY <3>1, <4>2 DEF Settled, Messages, Rows
                <5>2. QED BY <3>1, <4>2, <5>1, RowUpdates
            <4>3. CASE ~loop.observed /\ message[loop.msg].status = "accepted"
                <5>1. Settled(loop.msg, loop.observed) =
                          [message[loop.msg] EXCEPT !.status = "accepted", !.lease = "none"]
                    BY <3>1, <4>3 DEF Settled, Messages, Rows
                <5>2. QED BY <3>1, <3>3, <5>1, RowUpdates
            <4>4. QED BY <3>2, <4>1, <4>2, <4>3
        <3>5. Forward(message[loop.msg], Settled(loop.msg, loop.observed))
            <4>1. message[loop.msg] \in Rows BY <3>1 DEF Messages
            <4>2. CASE loop.observed BY <4>1, <4>2 DEF Forward, Settled, Rows
            <4>3. CASE ~loop.observed BY <3>2, <4>1, <4>3 DEF Forward, Settled, Rows
            <4>4. QED BY <4>2, <4>3
        <3>6. QED BY ONLY <1>0, <2>1, <3>1, <3>4, <3>5, WriteRow
    <2>2. CASE message' = message BY <1>0, <2>2 DEF MessageForward, Forward
    <2>3. QED BY <1>4, <2>1, <2>2 DEF LoopSettle
<1>5. CASE LoopClaim
    <2>1. ASSUME Claimable(loop.msg),
                 message' = [message EXCEPT ![loop.msg].status = "dispatching",
                                 ![loop.msg].claimed = TRUE, ![loop.msg].lease = "live"]
          PROVE  MessageForward
        <3>1. /\ loop.msg \in Msgs /\ message[loop.msg] \in Messages
              /\ message[loop.msg].status = "pending" /\ ~message[loop.msg].claimed
            BY <1>0, <2>1 DEF Claimable, Pending, Listed
        <3> DEFINE r == [message[loop.msg] EXCEPT !.status = "dispatching",
                                                  !.claimed = TRUE, !.lease = "live"]
        <3>2. r \in Messages BY <3>1, RowUpdates
        <3>3. Forward(message[loop.msg], r) BY <3>1 DEF Forward, Messages, Rows
        <3>4. message' = [message EXCEPT ![loop.msg] = r]
            BY <1>0, <2>1, <3>1 DEF Messages, Rows
        <3>5. QED BY ONLY <1>0, <3>1, <3>2, <3>3, <3>4, WriteRow
    <2>2. CASE message' = message BY <1>0, <2>2 DEF MessageForward, Forward
    <2>3. QED BY <1>5, <2>1, <2>2 DEF LoopClaim
<1>6. CASE LoopAccept
    <2>1. ASSUME loop.msg \in Listed, message[loop.msg].status = "dispatching",
                 message' = [message EXCEPT ![loop.msg].status = "accepted",
                                            ![loop.msg].lease = "none"]
          PROVE  MessageForward
        <3>1. loop.msg \in Msgs /\ message[loop.msg] \in Messages BY <1>0, <2>1 DEF Listed
        <3> DEFINE r == [message[loop.msg] EXCEPT !.status = "accepted", !.lease = "none"]
        <3>2. message[loop.msg].claimed BY <2>1, <3>1 DEF Messages
        <3>3. r \in Messages BY <3>1, <3>2, RowUpdates
        <3>4. Forward(message[loop.msg], r) BY <3>1 DEF Forward, Messages, Rows
        <3>5. message' = [message EXCEPT ![loop.msg] = r]
            BY <1>0, <2>1, <3>1 DEF Messages, Rows
        <3>6. QED BY ONLY <1>0, <3>1, <3>3, <3>4, <3>5, WriteRow
    <2>2. CASE message' = message BY <1>0, <2>2 DEF MessageForward, Forward
    <2>3. QED BY <1>6, <2>1, <2>2 DEF LoopAccept
<1>7. CASE SyncPersist
    <2>1. ASSUME NEW m \in Msgs
          PROVE  /\ AcceptInputs(sync.inputs)[m] \in Messages
                 /\ Forward(message[m], AcceptInputs(sync.inputs)[m])
        <3>1. message[m] \in Messages BY <1>0
        <3>2. m \in sync.inputs => message[m].claimed
            BY DEF IInv, TakenKnown, OnlyClaimed
        <3>3. CASE AcceptInputs(sync.inputs)[m] = message[m]
            BY <3>1, <3>3 DEF Forward
        <3>4. ASSUME m \in sync.inputs,
                     AcceptInputs(sync.inputs)[m]
                         = [message[m] EXCEPT !.status = "accepted", !.lease = "none"]
              PROVE  /\ AcceptInputs(sync.inputs)[m] \in Messages
                     /\ Forward(message[m], AcceptInputs(sync.inputs)[m])
            <4> DEFINE r == [message[m] EXCEPT !.status = "accepted", !.lease = "none"]
            <4>1. message[m].claimed BY <3>2, <3>4
            <4>2. r \in Messages BY <3>1, <4>1, RowUpdates
            <4>3. Forward(message[m], r) BY <3>1 DEF Forward, Messages, Rows
            <4>4. QED BY ONLY <3>4, <4>2, <4>3
        <3>5. QED BY <2>1, <3>3, <3>4 DEF AcceptInputs
    <2>2. QED BY <1>7, <2>1 DEF SyncPersist, AcceptInputs, MessageForward
<1>8. QED BY <1>1, <1>2, <1>3, <1>4, <1>5, <1>6, <1>7, MessageWriters

\* The Run row.
LEMMA RunTyped == ASSUME IInv, Next PROVE run' \in Runs
<1>1. run \in Runs BY DEF IInv, TypeOK
<1>2. run' = run => run' \in Runs BY <1>1
<1>3. NextRun \in Runs \/ run.id >= MaxRuns
    BY <1>1, DeliveryConstants DEF NextRun, Runs, DeliveryConstants
<1>4. \A m \in Msgs : CreateMessage(m) => run' \in Runs
    BY <1>1, <1>3, DeliveryConstants DEF CreateMessage, Runs, DeliveryConstants
<1>5. StartRun => run' \in Runs
    BY <1>1, <1>3, DeliveryConstants DEF StartRun, Runs, DeliveryConstants
<1>6. RunActivates \/ RunEnds \/ RunReleased \/ LoopSettle => run' \in Runs
    BY <1>1 DEF RunActivates, RunEnds, RunReleased, LoopSettle, Runs
<1>7. LoopClaim => run' \in Runs
    BY <1>1 DEF LoopClaim, Claimable, Pending, Listed, Runs
<1>8. QED BY <1>2, <1>4, <1>5, <1>6, <1>7, RunWriters

\* A queue that is not empty has a first element and a rest.
LEMMA HeadTail ==
    ASSUME NEW S, NEW q \in Seq(S), q # <<>>
    PROVE  Head(q) \in S /\ Tail(q) \in Seq(S)
OBVIOUS

\* What Botified keeps; its timeline only grows.
LEMMA BotifiedTyped ==
    ASSUME IInv, Next
    PROVE  /\ timeline' \in Seq(Events) /\ queue' \in Seq([msg: Msgs, run: 1..MaxRuns])
           /\ ran' \in [Msgs -> Texts \cup {NoText}]
           /\ Len(timeline') >= Len(timeline)
           /\ \A i \in 1..Len(timeline) : timeline'[i] = timeline[i]
<1>1. /\ timeline \in Seq(Events) /\ queue \in Seq([msg: Msgs, run: 1..MaxRuns])
      /\ ran \in [Msgs -> Texts \cup {NoText}] /\ posts \subseteq Posts
    BY DEF IInv, TypeOK
<1>0. Len(timeline) \in Nat BY <1>1
<1>2. CASE UNCHANGED botified BY <1>0, <1>1, <1>2 DEF botified
<1>3. ASSUME NEW x \in posts, BotifiedServes(x)
      PROVE  /\ timeline' \in Seq(Events) /\ queue' \in Seq([msg: Msgs, run: 1..MaxRuns])
             /\ ran' \in [Msgs -> Texts \cup {NoText}]
             /\ Len(timeline') >= Len(timeline)
             /\ \A i \in 1..Len(timeline) : timeline'[i] = timeline[i]
    <2>1. CASE UNCHANGED botified BY <1>0, <1>1, <2>1 DEF botified
    <2>2. CASE ~UNCHANGED botified
        <3>1. x \in Posts BY <1>1, <1>3
        <3>2. /\ Input(x.msg) \in Events
              /\ [msg |-> x.msg, run |-> x.run] \in [msg: Msgs, run: 1..MaxRuns]
            BY <3>1 DEF Input, Events, Posts
        <3>3. /\ timeline' = Append(timeline, Input(x.msg))
              /\ queue' = Append(queue, [msg |-> x.msg, run |-> x.run])
              /\ ran' = [ran EXCEPT ![x.msg] = x.text]
            BY <1>3, <2>2 DEF BotifiedServes
        <3>4. QED BY <1>1, <3>1, <3>2, <3>3 DEF Posts
    <2>3. QED BY <2>1, <2>2
<1>4. CASE BotifiedFinishes
    <2>1. /\ Head(queue) \in [msg: Msgs, run: 1..MaxRuns]
          /\ Tail(queue) \in Seq([msg: Msgs, run: 1..MaxRuns])
        BY <1>1, <1>4, HeadTail DEF BotifiedFinishes
    <2>2. Done(Head(queue).msg) \in Events BY <2>1 DEF Done, Events
    <2>3. /\ timeline' = Append(timeline, Done(Head(queue).msg))
          /\ queue' = Tail(queue) /\ ran' = ran
        BY <1>4 DEF BotifiedFinishes
    <2>4. /\ timeline' \in Seq(Events) /\ Len(timeline') = Len(timeline) + 1
          /\ \A i \in 1..Len(timeline) : timeline'[i] = timeline[i]
        BY ONLY <1>1, <2>2, <2>3
    <2>5. QED BY <1>0, <1>1, <2>1, <2>3, <2>4
<1>5. CASE RunActivates
    <2>1. queue' \in {queue, <<>>} /\ timeline' = timeline /\ ran' = ran
        BY <1>5 DEF RunActivates
    <2>2. queue' \in Seq([msg: Msgs, run: 1..MaxRuns])
        <3>1. CASE queue' = queue BY <1>1, <3>1
        <3>2. CASE queue' = <<>> BY <3>2
        <3>3. QED BY <2>1, <3>1, <3>2
    <2>3. QED BY <1>0, <1>1, <2>1, <2>2
<1>6. QED BY <1>2, <1>3, <1>4, <1>5, BotifiedWriters

\* What an appended timeline holds was in it or is what was appended.
LEMMA AppendedOnly ==
    ASSUME NEW S, NEW s \in Seq(S), NEW e
    PROVE  \A i \in 1..Len(Append(s, e)) :
               Append(s, e)[i] = e \/ (i \in 1..Len(s) /\ Append(s, e)[i] = s[i])
OBVIOUS

\* What is taken stays taken.
LEMMA TakenStays == ASSUME IInv, Next, NEW m, Taken(m) PROVE Taken(m)'
<1>1. PICK i \in 1..Len(timeline) : timeline[i] = Input(m) BY DEF Taken
<1>2. i \in 1..Len(timeline') /\ timeline'[i] = Input(m) BY <1>1, BotifiedTyped
<1>3. QED BY <1>2 DEF Taken, Input

-----------------------------------------------------------------------------
(* The loop, the copy and the requests.                                      *)

\* The loop's locals.
LEMMA LoopTyped == ASSUME IInv, Next PROVE loop' \in Loops /\ DeliveryTyped'
<1>1. /\ loop \in Loops /\ sync \in Syncs /\ run \in Runs
      /\ message \in [Msgs -> Messages] /\ DeliveryTyped
      /\ Len(timeline) \in Nat /\ posts \subseteq Posts
    BY DEF IInv, TypeOK
<1>2. Idle \in Loops /\ Idle.pc = "idle"
    BY DeliveryConstants DEF DeliveryConstants, Idle, Loops, LoopPcs
<1>3. CASE UNCHANGED loop BY <1>1, <1>3 DEF DeliveryTyped
<1>4. CASE LeaveTask BY <1>2, <1>4 DEF LeaveTask, DeliveryTyped
<1>5. ASSUME NEW x \in posts, LoopAnswer(x) \/ LoopGivesUp(x)
      PROVE  loop' \in Loops /\ DeliveryTyped'
    <2>1. CASE LoopAnswer(x)
        <3>1. loop.pc = "wait" /\ loop' = [loop EXCEPT !.pc = "accept"]
            BY <2>1 DEF LoopAnswer, Awaited
        <3>2. QED BY <1>1, <3>1 DEF Loops, LoopPcs, DeliveryTyped
    <2>2. CASE LoopGivesUp(x) BY <1>4, <2>2 DEF LoopGivesUp
    <2>3. QED BY <1>5, <2>1, <2>2
<1>6. CASE LoopTick
    <2>1. loop' = [Idle EXCEPT !.pc = "sync"] BY <1>6 DEF LoopTick
    <2>2. QED BY <1>2, <2>1 DEF Loops, LoopPcs, DeliveryTyped
<1>7. CASE LoopJudge
    <2>1. \/ LeaveTask
          \/ loop' = [loop EXCEPT !.pc = "pick"]
          \/ \E b \in BOOLEAN : run.owner # NoMsg /\
                loop' = [loop EXCEPT !.pc = "settle", !.msg = run.owner, !.observed = b]
        <3>1. (run.owner \in loop.inputs \/ message[run.owner].status = "accepted") \in BOOLEAN
            OBVIOUS
        <3>2. QED BY <1>7, <3>1 DEF LoopJudge
    <2>2. CASE loop' = [loop EXCEPT !.pc = "pick"]
        BY <1>1, <2>2 DEF Loops, LoopPcs, DeliveryTyped
    <2>3. ASSUME NEW b \in BOOLEAN,
                 loop' = [loop EXCEPT !.pc = "settle", !.msg = run.owner, !.observed = b]
          PROVE  loop' \in Loops /\ DeliveryTyped'
        <3>1. run.owner \in Msgs \cup {NoMsg} BY <1>1 DEF Runs
        <3>2. QED BY <1>1, <2>3, <3>1 DEF Loops, LoopPcs, DeliveryTyped
    <2>4. QED BY <1>4, <2>1, <2>2, <2>3
<1>8. CASE LoopSettle
    <2>1. LeaveTask \/ loop' = [loop EXCEPT !.pc = "pick", !.msg = NoMsg]
        BY <1>8 DEF LoopSettle
    <2>2. CASE loop' = [loop EXCEPT !.pc = "pick", !.msg = NoMsg]
        BY <1>1, <2>2 DEF Loops, LoopPcs, DeliveryTyped
    <2>3. QED BY <1>4, <2>1, <2>2
<1>9. CASE LoopPick
    <2>1. LeaveTask \/ \E m \in Msgs :
              loop' = [Idle EXCEPT !.pc = "check", !.msg = m, !.text = message[m].content]
        BY <1>9 DEF LoopPick, Pending, Listed
    <2>2. ASSUME NEW m \in Msgs,
                 loop' = [Idle EXCEPT !.pc = "check", !.msg = m, !.text = message[m].content]
          PROVE  loop' \in Loops /\ DeliveryTyped'
        <3>1. message[m].content \in Texts BY <1>1 DEF Messages, Rows
        <3>2. QED BY <1>2, <2>2, <3>1 DEF Loops, LoopPcs, DeliveryTyped
    <2>3. QED BY <1>4, <2>1, <2>2
<1>10. CASE LoopCheck \/ LoopQuiet
    <2>1. \/ LeaveTask
          \/ loop' = [loop EXCEPT !.pc = "claim"]
          \/ loop' = [loop EXCEPT !.pc = "quiet", !.run = run.id,
                                  !.idle = (queue = <<>>), !.at = Len(timeline)]
        BY <1>10 DEF LoopCheck, LoopQuiet
    <2>2. run.id \in 0..MaxRuns BY <1>1 DEF Runs
    <2>3. (queue = <<>>) \in BOOLEAN OBVIOUS
    <2>4. CASE loop' = [loop EXCEPT !.pc = "claim"]
        BY <1>1, <2>4 DEF Loops, LoopPcs, DeliveryTyped
    <2>5. CASE loop' = [loop EXCEPT !.pc = "quiet", !.run = run.id,
                                    !.idle = (queue = <<>>), !.at = Len(timeline)]
        BY <1>1, <2>2, <2>3, <2>5 DEF Loops, LoopPcs, DeliveryTyped
    <2>6. QED BY <1>4, <2>1, <2>4, <2>5
<1>11. CASE LoopClaim
    <2>1. \/ LeaveTask
          \/ /\ loop.msg \in Msgs /\ loop.run = run.id
             /\ loop' = [loop EXCEPT !.pc = "post", !.text = message[loop.msg].content]
        BY <1>11 DEF LoopClaim, Claimable, ClaimedText, Pending, Listed
    <2>2. loop.msg \in Msgs => message[loop.msg].content \in Texts
        BY <1>1 DEF Messages, Rows
    <2>3. CASE /\ loop.msg \in Msgs /\ loop.run = run.id
               /\ loop' = [loop EXCEPT !.pc = "post", !.text = message[loop.msg].content]
        <3>1. run.id \in 1..MaxRuns BY <1>1 DEF Runs
        <3>2. QED BY <1>1, <2>2, <2>3, <3>1 DEF Loops, LoopPcs, DeliveryTyped
    <2>4. QED BY <1>4, <2>1, <2>3
<1>12. CASE LoopPost
    <2>1. loop.pc = "post" /\ loop' = [loop EXCEPT !.pc = "wait"] BY <1>12 DEF LoopPost
    <2>2. QED BY <1>1, <2>1 DEF Loops, LoopPcs, DeliveryTyped
<1>13. CASE LoopAccept
    <2>1. LeaveTask \/ loop' = [Idle EXCEPT !.pc = "after", !.run = loop.run]
        BY <1>13 DEF LoopAccept
    <2>2. QED BY <1>1, <1>2, <1>4, <2>1 DEF Loops, LoopPcs, DeliveryTyped
<1>14. CASE SyncState
    <2>1. \/ loop' = loop \/ loop' = Idle
          \/ loop' = [loop EXCEPT !.pc = "judge", !.run = run.id, !.to = sync.to,
                                  !.inputs = sync.inputs,
                                  !.idle = (queue = <<>>), !.at = Len(timeline)]
        BY <1>14 DEF SyncState
    <2>2. run.id \in 0..MaxRuns /\ sync.to \in Nat /\ sync.inputs \in SUBSET Msgs
        BY <1>1 DEF Runs, Syncs
    <2>3. (queue = <<>>) \in BOOLEAN OBVIOUS
    <2>4. CASE loop' = [loop EXCEPT !.pc = "judge", !.run = run.id, !.to = sync.to,
                                    !.inputs = sync.inputs,
                                    !.idle = (queue = <<>>), !.at = Len(timeline)]
        BY <1>1, <2>2, <2>3, <2>4 DEF Loops, LoopPcs, DeliveryTyped
    <2>5. QED BY <1>3, <1>4, <2>1, <2>4 DEF LeaveTask
<1>15. CASE SyncFails \/ Crash BY <1>3, <1>4, <1>15 DEF SyncFails, Crash, LeaveTask
<1>16. QED BY <1>3, <1>5, <1>6, <1>7, <1>8, <1>9, <1>10, <1>11, <1>12, <1>13, <1>14,
              <1>15, LoopWriters

\* The copy under way, and what it has read.
LEMMA SyncTyped == ASSUME IInv, Next PROVE sync' \in Syncs /\ CopyBehind' /\ CopyCovers'
<1>1. /\ sync \in Syncs /\ CopyBehind /\ CopyCovers /\ cursor \in 0..Len(timeline)
      /\ Len(timeline) \in Nat /\ timeline \in Seq(Events)
    BY DEF IInv, TypeOK
<1>2. /\ Len(timeline') \in Nat /\ Len(timeline') >= Len(timeline)
      /\ \A i \in 1..Len(timeline) : timeline'[i] = timeline[i]
    BY BotifiedTyped
<1>3. CASE UNCHANGED sync
    <2>1. CopyBehind' BY <1>1, <1>2, <1>3 DEF CopyBehind, Syncs
    <2>2. CopyCovers'
        <3>1. ASSUME sync.pc = "persist", NEW i \in (sync.from + 1)..sync.to,
                     timeline'[i].kind = "input"
              PROVE  timeline'[i].msg \in sync.inputs
            <4>1. i \in 1..Len(timeline) BY <1>1, <3>1 DEF CopyBehind, Syncs
            <4>2. QED BY <1>1, <1>2, <3>1, <4>1 DEF CopyCovers
        <3>2. QED BY <1>3, <3>1 DEF CopyCovers
    <2>3. QED BY <1>1, <1>3, <2>1, <2>2
<1>4. NoSync \in Syncs /\ NoSync.to = 0 /\ NoSync.pc = "open"
    BY DeliveryConstants DEF DeliveryConstants, NoSync, Syncs
<1>5. CASE sync' = NoSync BY <1>2, <1>4, <1>5 DEF CopyBehind, CopyCovers
<1>6. ASSUME NEW who \in {"api", "loop"}, NEW r \in 0..MaxRuns, sync' = SyncBy(who, r)
      PROVE  sync' \in Syncs /\ CopyBehind' /\ CopyCovers'
    <2>1. sync' \in Syncs BY <1>4, <1>6 DEF SyncBy, Syncs
    <2>2. sync'.to = 0 /\ sync'.pc = "open" BY <1>4, <1>6 DEF SyncBy, Syncs
    <2>3. QED BY <1>2, <2>1, <2>2 DEF CopyBehind, CopyCovers
<1>7. CASE SyncOpen
    <2>1. sync' = [sync EXCEPT !.pc = "read", !.from = cursor] BY <1>7 DEF SyncOpen
    <2>2. cursor \in Nat BY <1>1
    <2>3. sync' \in Syncs /\ sync'.to = sync.to /\ sync'.pc = "read"
        BY <1>1, <2>1, <2>2 DEF Syncs
    <2>4. QED BY <1>1, <1>2, <2>3 DEF Syncs, CopyBehind, CopyCovers
<1>8. CASE SyncRead
    <2> DEFINE inputs == {m \in Msgs : \E i \in (sync.from + 1)..Len(timeline) :
                                           timeline[i] = Input(m)}
    <2>1. /\ sync' = [sync EXCEPT !.pc = "persist", !.to = Len(timeline), !.inputs = inputs]
          /\ timeline' = timeline
        BY <1>8 DEF SyncRead, botified
    <2>2. inputs \in SUBSET Msgs OBVIOUS
    <2>3. ASSUME NEW i \in (sync.from + 1)..Len(timeline), timeline[i].kind = "input"
          PROVE  timeline[i].msg \in inputs
        <3>1. i \in 1..Len(timeline) BY <1>1, <2>3 DEF Syncs
        <3>2. timeline[i] \in Events BY <1>1, <3>1
        <3>3. timeline[i] = Input(timeline[i].msg) BY <2>3, <3>2 DEF Events, Input
        <3>4. QED BY <2>3, <3>2, <3>3 DEF Events
    <2> HIDE DEF inputs
    <2>4. sync' \in Syncs BY <1>1, <2>1, <2>2 DEF Syncs
    <2>5. /\ sync'.to = Len(timeline) /\ sync'.inputs = inputs
          /\ sync'.from = sync.from
        BY <1>1, <2>1 DEF Syncs
    <2>6. QED BY <1>1, <2>1, <2>3, <2>4, <2>5 DEF CopyBehind, CopyCovers
<1>9. CASE SyncPersist
    <2>1. sync' = [sync EXCEPT !.pc = "state"] BY <1>9 DEF SyncPersist
    <2>2. QED BY <1>1, <1>2, <2>1 DEF Syncs, CopyBehind, CopyCovers
<1>10. run.id \in 0..MaxRuns /\ loop.run \in 0..MaxRuns BY DEF IInv, TypeOK, Runs, Loops
<1>11. QED BY <1>3, <1>5, <1>6, <1>7, <1>8, <1>9, <1>10, SyncWriters
           DEF ApiSync, LoopTick, LoopSyncAgain, SyncState, SyncFails, Crash

\* The requests under way, and where each new one comes from.
LEMMA PostsTyped ==
    ASSUME IInv, Next
    PROVE  /\ posts' \subseteq Posts
           /\ \A y \in posts' :
                  \/ \E x \in posts : y.msg = x.msg /\ y.text = x.text
                  \/ LoopPost /\ y.msg = loop.msg /\ y.text = loop.text /\ y.state = "sent"
<1>1. posts \subseteq Posts BY DEF IInv, TypeOK
<1>2. CASE posts' \subseteq posts BY <1>1, <1>2
<1>3. ASSUME NEW x \in posts, BotifiedServes(x)
      PROVE  /\ posts' \subseteq Posts
             /\ \A y \in posts' : \E z \in posts : y.msg = z.msg /\ y.text = z.text
    <2>1. x \in Posts BY <1>1
    <2>2. posts' \subseteq posts \cup {[x EXCEPT !.state = "served"]}
        BY <1>3 DEF BotifiedServes
    <2>3. [x EXCEPT !.state = "served"] \in Posts BY <2>1 DEF Posts
    <2>4. /\ [x EXCEPT !.state = "served"].msg = x.msg
          /\ [x EXCEPT !.state = "served"].text = x.text
        BY <2>1 DEF Posts
    <2>5. QED BY <1>1, <2>2, <2>3, <2>4
<1>4. CASE LoopPost
    <2>1. loop.msg \in Msgs /\ loop.text \in Texts /\ loop.run \in 1..MaxRuns
        BY <1>4 DEF LoopPost, IInv, DeliveryTyped
    <2>2. posts' = posts \cup {[msg |-> loop.msg, text |-> loop.text, run |-> loop.run,
                                state |-> "sent"]}
        BY <1>4 DEF LoopPost
    <2>3. QED BY <1>1, <1>4, <2>1, <2>2 DEF Posts
<1>5. QED BY <1>2, <1>3, <1>4, PostsWriters DEF LoopAnswer, LoopGivesUp, Crash

-----------------------------------------------------------------------------
(* The invariants, one by one.                                               *)

\* A message is posted once: a POST follows a claim, and a claim is never undone.
LEMMA PostedStep ==
    ASSUME IInv, Next
    PROVE  posted' \in [Msgs -> Nat] /\ PostedOnce' /\ PostedFresh'
<1>1. /\ posted \in [Msgs -> Nat] /\ message \in [Msgs -> Messages] /\ loop \in Loops
      /\ PostedOnce /\ PostedFresh /\ OnlyClaimed /\ DeliveryTyped
    BY DEF IInv, TypeOK
<1>2. \A m \in Msgs : message[m].claimed => message'[m].claimed
    BY MessageTyped DEF MessageForward, Forward
<1>3. CASE LoopPost
    <2>1. /\ loop.msg \in Msgs /\ posted[loop.msg] = 0 /\ message[loop.msg].claimed
          /\ posted' = [posted EXCEPT ![loop.msg] = @ + 1]
          /\ message' = message /\ loop' = [loop EXCEPT !.pc = "wait"]
        BY <1>1, <1>3 DEF LoopPost, DeliveryTyped, PostedFresh, OnlyClaimed
    <2>2. QED BY <1>1, <2>1 DEF PostedOnce, PostedFresh, Loops
<1>4. CASE LoopClaim /\ loop'.pc = "post"
    <2>1. posted' = posted BY <1>4 DEF LoopClaim
    <2>2. loop.msg \in Msgs /\ ~message[loop.msg].claimed /\ loop'.msg = loop.msg
        <3>1. ~LeaveTask BY <1>4 DEF LeaveTask, Idle
        <3>2. Claimable(loop.msg) /\ loop' = [loop EXCEPT !.pc = "post",
                                                          !.text = ClaimedText(loop.msg)]
            BY <1>4, <3>1 DEF LoopClaim
        <3>3. QED BY <1>1, <3>2 DEF Claimable, Pending, Listed, Loops
    <2>3. QED BY <1>1, <1>2, <2>1, <2>2 DEF PostedOnce, PostedFresh
<1>5. CASE UNCHANGED posted /\ (UNCHANGED loop \/ loop'.pc # "post")
    BY <1>1, <1>2, <1>5 DEF PostedOnce, PostedFresh
<1>6. UNCHANGED loop \/ loop'.pc # "post" \/ LoopClaim
    <2>1. Idle.pc # "post" BY DEF Idle
    <2>2. QED BY <1>1, <2>1, LoopWriters
          DEF LoopAnswer, LoopGivesUp, LoopTick, LoopJudge, LoopSettle, LoopPick, LoopCheck,
              LoopQuiet, LoopPost, LoopAccept, SyncState, SyncFails, Crash, LeaveTask, Loops, Idle
<1>7. QED BY <1>3, <1>4, <1>5, <1>6, PostedWriters DEF LoopClaim, LoopPost

\* Only claimed messages reach Botified, and with the text that is stored.
LEMMA ClaimedStep == ASSUME IInv, Next PROVE OnlyClaimed' /\ RanAsStored'
<1>1. /\ message \in [Msgs -> Messages] /\ loop \in Loops /\ posts \subseteq Posts
      /\ ran \in [Msgs -> Texts \cup {NoText}]
      /\ OnlyClaimed /\ RanAsStored /\ DeliveryTyped
    BY DEF IInv, TypeOK
<1>2. \A m \in Msgs : message[m].claimed =>
          message'[m].claimed /\ message'[m].content = message[m].content
    BY MessageTyped DEF MessageForward, Forward
<1>3. \A y \in posts' : message'[y.msg].claimed /\ y.text = message'[y.msg].content
    <2>1. TAKE y \in posts'
    <2>2. CASE \E x \in posts : y.msg = x.msg /\ y.text = x.text
        BY <1>1, <1>2, <2>2 DEF OnlyClaimed, Posts
    <2>3. CASE LoopPost /\ y.msg = loop.msg /\ y.text = loop.text
        BY <1>1, <1>2, <2>3 DEF LoopPost, OnlyClaimed, DeliveryTyped
    <2>4. QED BY <2>2, <2>3, PostsTyped
<1>4. loop'.pc = "post" => /\ message'[loop'.msg].claimed
                           /\ loop'.text = message'[loop'.msg].content
    <2>1. CASE UNCHANGED loop BY <1>1, <1>2, <2>1 DEF OnlyClaimed, DeliveryTyped
    <2>2. CASE LoopClaim
        <3>1. CASE LeaveTask BY <3>1 DEF LeaveTask, Idle
        <3>2. CASE ~LeaveTask
            <4>1. /\ loop.msg \in Msgs
                  /\ message' = [message EXCEPT ![loop.msg].status = "dispatching",
                                     ![loop.msg].claimed = TRUE, ![loop.msg].lease = "live"]
                  /\ loop' = [loop EXCEPT !.pc = "post", !.text = message[loop.msg].content]
                BY <2>2, <3>2 DEF LoopClaim, Claimable, ClaimedText, Pending, Listed
            <4>2. QED BY <1>1, <4>1 DEF Loops, Messages, Rows
        <3>3. QED BY <3>1, <3>2
    <2>3. CASE loop'.pc # "post" BY <2>3
    <2>4. Idle.pc # "post" BY DEF Idle
    <2>5. QED BY <1>1, <2>1, <2>2, <2>3, <2>4, LoopWriters
          DEF LoopAnswer, LoopGivesUp, LoopTick, LoopJudge, LoopSettle, LoopPick, LoopCheck,
              LoopQuiet, LoopPost, LoopAccept, SyncState, SyncFails, Crash, LeaveTask, Loops, Idle
<1>5. \A m \in Msgs : Taken(m)' \/ ran'[m] # NoText =>
          /\ message'[m].claimed
          /\ ran'[m] # NoText => ran'[m] = message'[m].content
    <2>1. TAKE m \in Msgs
    <2>2. CASE (Taken(m)' => Taken(m)) /\ ran'[m] = ran[m]
        BY <1>1, <1>2, <2>2 DEF OnlyClaimed, RanAsStored
    <2>3. CASE \E x \in posts : BotifiedServes(x) /\ x.msg = m
        <3>1. PICK x \in posts : BotifiedServes(x) /\ x.msg = m BY <2>3
        <3>2. message'[m].claimed /\ x.text = message'[m].content
            BY <1>1, <1>2, <3>1 DEF OnlyClaimed
        <3>3. ran'[m] = ran[m] \/ ran'[m] = x.text
            BY <1>1, <3>1 DEF BotifiedServes, botified
        <3>4. QED BY <1>1, <1>2, <3>2, <3>3 DEF RanAsStored, OnlyClaimed
    <2>4. CASE UNCHANGED botified \/ RunActivates
        BY <2>2, <2>4 DEF botified, RunActivates, Taken
    <2>5. CASE BotifiedFinishes
        <3>1. timeline' = Append(timeline, Done(Head(queue).msg)) /\ ran' = ran
            BY <2>5 DEF BotifiedFinishes
        <3>3. timeline \in Seq(Events) BY DEF IInv, TypeOK
        <3>4. Done(Head(queue).msg) # Input(m) BY DEF Done, Input
        <3>5. Taken(m)' => Taken(m)
            BY <3>1, <3>3, <3>4, AppendedOnly DEF Taken, Input
        <3>6. QED BY <2>2, <3>1, <3>5
    <2>6. CASE \E x \in posts : BotifiedServes(x) /\ x.msg # m
        <3>1. PICK x \in posts : BotifiedServes(x) /\ x.msg # m BY <2>6
        <3>2. CASE UNCHANGED botified BY <2>2, <3>2 DEF botified, Taken
        <3>3. CASE ~UNCHANGED botified
            <4>1. /\ timeline' = Append(timeline, Input(x.msg))
                  /\ ran' = [ran EXCEPT ![x.msg] = x.text]
                BY <3>1, <3>3 DEF BotifiedServes
            <4>2. timeline \in Seq(Events) BY DEF IInv, TypeOK
            <4>3. Input(x.msg) # Input(m) BY <3>1 DEF Input
            <4>4. Taken(m)' => Taken(m)
                BY <4>1, <4>2, <4>3, AppendedOnly DEF Taken, Input
            <4>5. QED BY <1>1, <2>2, <3>1, <4>1, <4>4
        <3>4. QED BY <3>2, <3>3
    <2>7. QED BY <2>3, <2>4, <2>5, <2>6, BotifiedWriters
<1>6. QED BY <1>3, <1>4, <1>5 DEF OnlyClaimed, RanAsStored

\* The owner of a Run can always be settled.
LEMMA OwnerStep == ASSUME IInv, Next PROVE OwnerCanSettle'
<1>1. /\ message \in [Msgs -> Messages] /\ run \in Runs /\ OwnerCanSettle
    BY DEF IInv, TypeOK
<1>2. 0 \notin Msgs BY DeliveryConstants DEF Msgs, DeliveryConstants
<1>3. CASE run'.owner = NoMsg BY <1>3 DEF OwnerCanSettle
<1>4. CASE /\ run'.owner = run.owner /\ run.owner # NoMsg /\ run'.state = run.state
           /\ message'[run.owner].deleted = message[run.owner].deleted
           /\ message'[run.owner].status \in {"dispatching", "accepted"}
    <2>1. run.owner \in Msgs /\ run.owner \in Listed BY <1>1, <1>4 DEF OwnerCanSettle, Runs
    <2>2. QED BY <1>1, <1>4, <2>1 DEF OwnerCanSettle, Listed, Active
<1>5. CASE UNCHANGED <<message, run>> BY <1>1, <1>5 DEF OwnerCanSettle, Listed, Active
<1>6. ASSUME NEW m \in Msgs,
             CreateMessage(m) \/ EditMessage(m) \/ DeleteMessage(m) \/ LeaseExpires(m)
      PROVE  OwnerCanSettle'
    <2>1. CASE run.owner = NoMsg
        BY <1>3, <1>6, <2>1
        DEF CreateMessage, EditMessage, DeleteMessage, LeaseExpires, NextRun
    <2>2. CASE run.owner # NoMsg /\ CreateMessage(m)
        <3>1. run' = run /\ run.owner # m
            BY <1>1, <2>2 DEF CreateMessage, OwnerCanSettle, Active
        <3>2. message'[run.owner] = message[run.owner] BY <1>1, <2>2, <3>1 DEF CreateMessage
        <3>3. QED BY <1>1, <1>4, <2>2, <3>1, <3>2 DEF OwnerCanSettle
    <2>3. CASE run.owner # NoMsg /\ (EditMessage(m) \/ DeleteMessage(m))
        <3>1. run' = run /\ run.owner # m
            BY <1>1, <2>3
            DEF EditMessage, DeleteMessage, OwnerCanSettle, Pending, Deletable
        <3>2. message'[run.owner] = message[run.owner]
            BY <1>1, <2>3, <3>1 DEF EditMessage, DeleteMessage, OwnerCanSettle, Listed
        <3>3. QED BY <1>1, <1>4, <2>3, <3>1, <3>2 DEF OwnerCanSettle
    <2>4. CASE run.owner # NoMsg /\ LeaseExpires(m)
        <3>1. /\ message'[run.owner].deleted = message[run.owner].deleted
              /\ message'[run.owner].status = message[run.owner].status
            BY <1>1, <2>4 DEF LeaseExpires, OwnerCanSettle, Listed, Messages, Rows
        <3>2. QED BY <1>1, <1>4, <2>4, <3>1 DEF LeaseExpires, OwnerCanSettle
    <2>5. QED BY <1>6, <2>1, <2>2, <2>3, <2>4
<1>7. CASE StartRun \/ RunEnds
    <2>1. CASE StartRun BY <1>3, <2>1 DEF StartRun, NextRun
    <2>2. CASE RunEnds
        <3>1. run' = [run EXCEPT !.state = "ending", !.owner = NoMsg] BY <2>2 DEF RunEnds
        <3>2. QED BY <1>1, <1>3, <3>1 DEF Runs
    <2>3. QED BY <1>7, <2>1, <2>2
<1>8. CASE RunActivates \/ RunReleased
    <2>1. run.owner = NoMsg BY <1>1, <1>8 DEF RunActivates, RunReleased, OwnerCanSettle, Active
    <2>2. QED BY <1>1, <1>3, <1>8, <2>1 DEF RunActivates, RunReleased, Runs
<1>9. CASE LoopSettle
    <2>1. CASE UNCHANGED <<message, run>> BY <1>5, <2>1
    <2>2. CASE run' = [run EXCEPT !.owner = NoMsg] BY <1>1, <1>3, <2>2 DEF Runs
    <2>3. QED BY <1>9, <2>1, <2>2 DEF LoopSettle
<1>10. CASE LoopClaim
    <2>1. CASE UNCHANGED <<message, run>> BY <1>5, <2>1
    <2>2. CASE ~UNCHANGED <<message, run>>
        <3>1. /\ loop.msg \in Msgs /\ loop.msg \in Listed /\ Active
              /\ run' = [run EXCEPT !.owner = loop.msg]
              /\ message' = [message EXCEPT ![loop.msg].status = "dispatching",
                                 ![loop.msg].claimed = TRUE, ![loop.msg].lease = "live"]
            BY <1>10, <2>2 DEF LoopClaim, Claimable, Pending, Listed
        <3>2. QED BY <1>1, <3>1 DEF OwnerCanSettle, Listed, Active, Messages, Rows, Runs
    <2>3. QED BY <2>1, <2>2
<1>11. CASE LoopAccept
    <2>1. CASE UNCHANGED <<message, run>> BY <1>5, <2>1
    <2>2. CASE ~UNCHANGED <<message, run>>
        <3>1. /\ loop.msg \in Msgs /\ run' = run /\ run.owner = loop.msg
              /\ message' = [message EXCEPT ![loop.msg].status = "accepted",
                                            ![loop.msg].lease = "none"]
            BY <1>11, <2>2 DEF LoopAccept, Listed
        <3>2. /\ message'[loop.msg].deleted = message[loop.msg].deleted
              /\ message'[loop.msg].status = "accepted"
            BY <1>1, <3>1 DEF Messages, Rows
        <3>3. QED BY <1>2, <1>4, <3>1, <3>2 DEF NoMsg
    <2>3. QED BY <2>1, <2>2
<1>12. CASE SyncPersist
    <2>1. CASE run.owner = NoMsg BY <1>3, <1>12, <2>1 DEF SyncPersist
    <2>2. CASE run.owner # NoMsg
        <3>1. run.owner \in Msgs BY <1>1, <2>2 DEF Runs
        <3>2. message[run.owner] \in Messages BY <1>1, <3>1
        <3>3. message'[run.owner] = AcceptInputs(sync.inputs)[run.owner] /\ run' = run
            BY <1>12 DEF SyncPersist
        <3>4. /\ message'[run.owner].deleted = message[run.owner].deleted
              /\ message'[run.owner].status \in {message[run.owner].status, "accepted"}
            <4>1. message[run.owner] \in Rows BY <3>2 DEF Messages
            <4>2. message'[run.owner] \in
                      {message[run.owner],
                       [message[run.owner] EXCEPT !.status = "accepted", !.lease = "none"]}
                BY <3>1, <3>3 DEF AcceptInputs
            <4>3. QED BY ONLY <4>1, <4>2 DEF Rows
        <3>5. QED BY <1>1, <1>4, <2>2, <3>3, <3>4 DEF OwnerCanSettle
    <2>3. QED BY <2>1, <2>2
<1>13. QED BY <1>5, <1>6, <1>7, <1>8, <1>9, <1>10, <1>11, <1>12, RunWriters, MessageWriters

\* What is deleted was waiting or given up, and what was waiting is never taken.
LEMMA DeletedStep == ASSUME IInv, Next PROVE DeletedStaysOut'
<1>1. message \in [Msgs -> Messages] /\ DeletedStaysOut /\ OwnerCanSettle
    BY DEF IInv, TypeOK
<1>2. message' \in [Msgs -> Messages] /\ OnlyClaimed'
    BY MessageTyped, ClaimedStep DEF MessageForward
<1>3. \A m \in Msgs : message'[m].status = "pending" => ~Taken(m)'
    BY <1>2 DEF OnlyClaimed, Messages
<1>4. ASSUME NEW m \in Msgs, message'[m].deleted
      PROVE  message'[m].status \in {"pending", "failed"}
    <2>1. CASE message'[m] = message[m] BY <1>1, <1>4, <2>1 DEF DeletedStaysOut
    <2>2. CASE CreateMessage(m) \/ EditMessage(m) \/ DeleteMessage(m)
        BY <1>1, <1>4, <2>2
        DEF CreateMessage, NewMessage, EditMessage, DeleteMessage, Deletable, Pending, Messages,
            Rows
    <2>3. CASE LeaseExpires(m)
        BY <1>1, <1>4, <2>3 DEF LeaseExpires, DeletedStaysOut, Messages, Rows
    <2>4. ASSUME NEW n \in Msgs, n # m, CreateMessage(n) \/ EditMessage(n)
                                        \/ DeleteMessage(n) \/ LeaseExpires(n)
          PROVE  message'[m] = message[m]
        BY <1>1, <2>4 DEF CreateMessage, EditMessage, DeleteMessage, LeaseExpires
    <2>5. ASSUME m \in Listed PROVE ~message[m].deleted BY <2>5 DEF Listed
    <2>6. CASE RunEnds
        <3>1. CASE m # run.owner BY <1>1, <2>1, <2>6, <3>1 DEF RunEnds, FailOwned
        <3>2. CASE m = run.owner
            BY <1>1, <1>4, <2>1, <2>5, <2>6, <3>2 DEF RunEnds, FailOwned, Messages, Rows
        <3>3. QED BY <3>1, <3>2
    <2>7. CASE LoopSettle
        <3>1. CASE UNCHANGED message \/ m # loop.msg
            BY <1>1, <2>1, <2>7, <3>1 DEF LoopSettle
        <3>2. CASE m = loop.msg /\ ~UNCHANGED message
            <4>1. m \in Listed /\ message' = [message EXCEPT ![m] = Settled(m, loop.observed)]
                BY <2>7, <3>2 DEF LoopSettle
            <4>2. Settled(m, loop.observed).deleted = message[m].deleted
                BY <1>1 DEF Settled, Messages, Rows
            <4>3. QED BY <1>1, <1>4, <2>5, <4>1, <4>2
        <3>3. QED BY <3>1, <3>2
    <2>8. CASE LoopClaim
        BY <1>1, <1>4, <2>1, <2>5, <2>8 DEF LoopClaim, Claimable, Pending, Messages, Rows
    <2>9. CASE LoopAccept
        BY <1>1, <1>4, <2>1, <2>5, <2>9 DEF LoopAccept, Messages, Rows
    <2>10. CASE SyncPersist
        BY <1>1, <1>4, <2>1, <2>5, <2>10 DEF SyncPersist, AcceptInputs, Messages, Rows
    <2>11. QED BY <2>1, <2>2, <2>3, <2>4, <2>6, <2>7, <2>8, <2>9, <2>10, MessageWriters
<1>5. QED BY <1>3, <1>4 DEF DeletedStaysOut

\* What the process believes taken was taken.
LEMMA KnownStep == ASSUME IInv, Next PROVE TakenKnown'
<1>1. /\ loop \in Loops /\ sync \in Syncs /\ posts \subseteq Posts
      /\ timeline \in Seq(Events) /\ AcceptedWasTaken /\ TakenKnown
      /\ run \in Runs /\ message \in [Msgs -> Messages]
    BY DEF IInv, TypeOK
<1> DEFINE TakenThen(m) == \E i \in 1..Len(timeline') : timeline'[i] = Input(m)
<1>2. \A m : Taken(m) => TakenThen(m) BY TakenStays DEF Taken, Input
<1>3. \A m \in sync'.inputs : TakenThen(m)
    <2>1. CASE SyncRead
        <3> DEFINE inputs == {m \in Msgs : \E i \in (sync.from + 1)..Len(timeline) :
                                               timeline[i] = Input(m)}
        <3>1. sync'.inputs = inputs BY <1>1, <2>1 DEF SyncRead, Syncs
        <3>2. \A m \in inputs : Taken(m)
            <4>1. SUFFICES ASSUME NEW m \in inputs PROVE Taken(m) OBVIOUS
            <4>2. PICK i \in (sync.from + 1)..Len(timeline) : timeline[i] = Input(m) OBVIOUS
            <4>3. i \in 1..Len(timeline) BY <1>1 DEF Syncs
            <4>4. QED BY <4>2, <4>3 DEF Taken
        <3>3. QED BY <1>2, <3>1, <3>2
    <2>2. CASE sync'.inputs \subseteq sync.inputs BY <1>1, <1>2, <2>2 DEF TakenKnown
    <2>3. NoSync.inputs = {} BY DEF NoSync
    <2>4. SyncRead \/ sync'.inputs = sync.inputs \/ sync'.inputs = {}
        BY <1>1, <2>3, SyncWriters
        DEF ApiSync, LoopTick, LoopSyncAgain, SyncBy, SyncOpen, SyncPersist, SyncState, SyncFails,
            Crash, Syncs, NoSync
    <2>5. QED BY <2>1, <2>2, <2>4
<1>4. Idle.inputs = {} /\ Idle.pc = "idle" BY DEF Idle
<1>5. \A m \in loop'.inputs : TakenThen(m)
    <2>1. CASE loop'.inputs \subseteq loop.inputs \cup sync.inputs
        BY <1>1, <1>2, <2>1 DEF TakenKnown
    <2>2. CASE SyncState \/ SyncFails \/ Crash \/ LoopTick
        BY <1>1, <1>4, <2>1, <2>2 DEF SyncState, SyncFails, Crash, LoopTick, Loops, Idle
    <2>3. CASE LoopJudge \/ LoopSettle \/ LoopPick \/ LoopCheck \/ LoopQuiet
        <3>1. LoopJudge \/ LoopSettle => loop'.inputs \in {loop.inputs, {}}
            BY <1>1, <1>4 DEF LoopJudge, LoopSettle, LeaveTask, Loops
        <3>2. LoopPick => loop'.inputs \in {loop.inputs, {}}
            BY <1>4 DEF LoopPick, LeaveTask, Idle
        <3>3. LoopCheck \/ LoopQuiet => loop'.inputs \in {loop.inputs, {}}
            BY <1>1, <1>4 DEF LoopCheck, LoopQuiet, LeaveTask, Loops
        <3>4. QED BY <2>1, <2>3, <3>1, <3>2, <3>3
    <2>4. CASE LoopClaim \/ LoopPost \/ LoopAccept
        <3>1. LoopClaim \/ LoopPost => loop'.inputs \in {loop.inputs, {}}
            BY <1>1, <1>4 DEF LoopClaim, LoopPost, LeaveTask, Loops
        <3>2. LoopAccept => loop'.inputs \in {loop.inputs, {}}
            BY <1>4 DEF LoopAccept, LeaveTask, Idle
        <3>3. QED BY <2>1, <2>4, <3>1, <3>2
    <2>5. ASSUME NEW x \in posts, LoopAnswer(x) \/ LoopGivesUp(x)
          PROVE  \A m \in loop'.inputs : TakenThen(m)
        BY <1>1, <1>4, <2>1, <2>5 DEF LoopAnswer, LoopGivesUp, LeaveTask, Loops
    <2>6. QED BY <2>1, <2>2, <2>3, <2>4, <2>5, LoopWriters
<1>6. \A x \in posts' : x.state = "served" => TakenThen(x.msg)
    <2>1. CASE posts' \subseteq posts BY <1>1, <1>2, <2>1 DEF TakenKnown
    <2>2. CASE LoopPost BY <1>1, <1>2, <2>2 DEF LoopPost, TakenKnown
    <2>3. ASSUME NEW x \in posts, BotifiedServes(x)
          PROVE  \A y \in posts' : y.state = "served" => TakenThen(y.msg)
        <3>1. TakenThen(x.msg)
            <4>1. CASE Taken(x.msg) BY <1>2, <4>1
            <4>2. CASE ~Taken(x.msg)
                <5>1. timeline' = Append(timeline, Input(x.msg))
                    BY <2>3, <4>2 DEF BotifiedServes
                <5>2. /\ Len(timeline') \in 1..Len(timeline')
                      /\ timeline'[Len(timeline')] = Input(x.msg)
                    BY <1>1, <5>1
                <5>3. QED BY <5>2
            <4>3. QED BY <4>1, <4>2
        <3>2. posts' \subseteq posts \cup {[x EXCEPT !.state = "served"]}
            BY <2>3 DEF BotifiedServes
        <3>3. [x EXCEPT !.state = "served"].msg = x.msg BY <1>1 DEF Posts
        <3>4. QED BY <1>1, <1>2, <3>1, <3>2, <3>3 DEF TakenKnown
    <2>4. QED BY <2>1, <2>2, <2>3, PostsWriters DEF LoopAnswer, LoopGivesUp, Crash
<1>7. loop'.pc = "settle" /\ loop'.observed => TakenThen(loop'.msg)
    <2>1. CASE UNCHANGED loop BY <1>1, <1>2, <2>1 DEF TakenKnown
    <2>2. CASE LoopJudge /\ loop'.pc = "settle"
        <3>1. /\ loop'.msg = run.owner /\ run.owner \in Msgs
              /\ loop'.observed <=> \/ run.owner \in loop.inputs
                                    \/ message[run.owner].status = "accepted"
            BY <1>1, <1>4, <2>2 DEF LoopJudge, LeaveTask, Loops, Runs
        <3>2. loop'.observed => Taken(run.owner)
            BY <1>1, <3>1 DEF AcceptedWasTaken, TakenKnown
        <3>3. QED BY <1>2, <3>1, <3>2
    <2>3. UNCHANGED loop \/ loop'.pc # "settle" \/ LoopJudge
        <3>1. SyncState \/ SyncFails \/ Crash \/ LoopTick => UNCHANGED loop \/ loop'.pc # "settle"
            BY <1>1, <1>4 DEF SyncState, SyncFails, Crash, LoopTick, Loops, Idle
        <3>2. LoopSettle \/ LoopPick \/ LoopCheck \/ LoopQuiet => loop'.pc # "settle"
            BY <1>1, <1>4 DEF LoopSettle, LoopPick, LoopCheck, LoopQuiet, LeaveTask, Loops, Idle
        <3>3. LoopClaim \/ LoopPost \/ LoopAccept => loop'.pc # "settle"
            BY <1>1, <1>4 DEF LoopClaim, LoopPost, LoopAccept, LeaveTask, Loops, Idle
        <3>4. \A x \in posts : LoopAnswer(x) \/ LoopGivesUp(x) => loop'.pc # "settle"
            BY <1>1, <1>4 DEF LoopAnswer, LoopGivesUp, LeaveTask, Loops
        <3>5. QED BY <3>1, <3>2, <3>3, <3>4, LoopWriters
    <2>4. QED BY <2>1, <2>2, <2>3
<1>8. loop'.pc = "accept" => TakenThen(loop'.msg)
    <2>1. CASE UNCHANGED loop BY <1>1, <1>2, <2>1 DEF TakenKnown
    <2>2. ASSUME NEW x \in posts, LoopAnswer(x) PROVE TakenThen(loop'.msg)
        BY <1>1, <1>2, <2>2 DEF LoopAnswer, Awaited, TakenKnown, Loops
    <2>3. \/ UNCHANGED loop \/ loop'.pc # "accept"
          \/ \E x \in posts : LoopAnswer(x)
        <3>1. SyncState \/ SyncFails \/ Crash \/ LoopTick => UNCHANGED loop \/ loop'.pc # "accept"
            BY <1>1, <1>4 DEF SyncState, SyncFails, Crash, LoopTick, Loops, Idle
        <3>2. LoopJudge \/ LoopSettle \/ LoopPick => loop'.pc # "accept"
            BY <1>1, <1>4 DEF LoopJudge, LoopSettle, LoopPick, LeaveTask, Loops, Idle
        <3>3. LoopCheck \/ LoopQuiet => loop'.pc # "accept"
            BY <1>1, <1>4 DEF LoopCheck, LoopQuiet, LeaveTask, Loops
        <3>4. LoopClaim \/ LoopPost \/ LoopAccept => loop'.pc # "accept"
            BY <1>1, <1>4 DEF LoopClaim, LoopPost, LoopAccept, LeaveTask, Loops, Idle
        <3>5. \A x \in posts : LoopGivesUp(x) => loop'.pc # "accept"
            BY <1>1, <1>4 DEF LoopGivesUp, LeaveTask
        <3>6. QED BY <3>1, <3>2, <3>3, <3>4, <3>5, LoopWriters
    <2>4. QED BY <2>1, <2>2, <2>3
<1> HIDE DEF TakenThen
<1>9. QED BY <1>3, <1>5, <1>6, <1>7, <1>8 DEF TakenKnown, TakenThen, Taken, Input

\* What is accepted was taken.
LEMMA AcceptedStep == ASSUME IInv, Next PROVE AcceptedWasTaken'
<1>1. /\ message \in [Msgs -> Messages] /\ loop \in Loops
      /\ AcceptedWasTaken /\ TakenKnown
    BY DEF IInv, TypeOK
<1>2. SUFFICES ASSUME NEW m \in Msgs, message'[m].status = "accepted" PROVE Taken(m)
    BY TakenStays DEF AcceptedWasTaken
<1>3. CASE message[m].status = "accepted" BY <1>1, <1>3 DEF AcceptedWasTaken
<1>4. CASE UNCHANGED message BY <1>2, <1>3, <1>4
<1>5. ASSUME NEW n \in Msgs, CreateMessage(n) \/ EditMessage(n) \/ DeleteMessage(n)
                             \/ LeaseExpires(n)
      PROVE  Taken(m)
    <2>1. CASE CreateMessage(n)
        BY <1>1, <1>2, <1>3, <2>1 DEF CreateMessage, NewMessage
    <2>2. CASE EditMessage(n) \/ DeleteMessage(n) \/ LeaseExpires(n)
        BY <1>1, <1>2, <1>3, <2>2 DEF EditMessage, DeleteMessage, LeaseExpires, Messages, Rows
    <2>3. QED BY <1>5, <2>1, <2>2
<1>6. CASE RunEnds \/ LoopClaim
    BY <1>1, <1>2, <1>3, <1>6 DEF RunEnds, FailOwned, LoopClaim, Messages, Rows
<1>7. CASE LoopSettle
    <2>1. CASE m # loop.msg \/ UNCHANGED message BY <1>1, <1>2, <1>3, <1>7, <2>1 DEF LoopSettle
    <2>2. CASE m = loop.msg /\ ~UNCHANGED message
        <3>1. message'[m] = Settled(m, loop.observed) /\ loop.pc = "settle"
            BY <1>1, <1>7, <2>2 DEF LoopSettle
        <3>2. CASE loop.observed BY <1>1, <2>2, <3>1, <3>2 DEF TakenKnown
        <3>3. CASE ~loop.observed
            BY <1>1, <1>2, <1>3, <3>1, <3>3 DEF Settled, Messages, Rows
        <3>4. QED BY <3>2, <3>3
    <2>3. QED BY <2>1, <2>2
<1>8. CASE LoopAccept
    <2>1. CASE m = loop.msg BY <1>1, <1>8, <2>1 DEF LoopAccept, TakenKnown
    <2>2. CASE m # loop.msg BY <1>1, <1>2, <1>3, <1>8, <2>2 DEF LoopAccept
    <2>3. QED BY <2>1, <2>2
<1>9. CASE SyncPersist
    <2>1. CASE m \in sync.inputs BY <1>1, <2>1 DEF TakenKnown
    <2>2. CASE m \notin sync.inputs
        BY <1>2, <1>3, <1>9, <2>2 DEF SyncPersist, AcceptInputs
    <2>3. QED BY <2>1, <2>2
<1>10. QED BY <1>4, <1>5, <1>6, <1>7, <1>8, <1>9, MessageWriters

\* Every input before the stored cursor is accounted for.
LEMMA CursorStep == ASSUME IInv, Next PROVE cursor' \in 0..Len(timeline') /\ CursorLeavesNoneBehind'
<1>1. /\ cursor \in 0..Len(timeline) /\ sync \in Syncs /\ timeline \in Seq(Events)
      /\ CopyBehind /\ CopyCovers /\ CursorLeavesNoneBehind /\ TakenKnown /\ OnlyClaimed
      /\ message \in [Msgs -> Messages] /\ Len(timeline) \in Nat
    BY DEF IInv, TypeOK
<1>2. /\ Len(timeline') \in Nat /\ Len(timeline') >= Len(timeline)
      /\ \A i \in 1..Len(timeline) : timeline'[i] = timeline[i]
    BY BotifiedTyped
<1>3. \A m \in Msgs : Forward(message[m], message'[m]) BY MessageTyped DEF MessageForward
<1>4. ASSUME NEW i \in 1..cursor, timeline'[i].kind = "input"
      PROVE  \/ message'[timeline'[i].msg].status = "accepted"
             \/ message'[timeline'[i].msg].deleted
    <2>1. i \in 1..Len(timeline) /\ timeline'[i] = timeline[i] BY <1>1, <1>2
    <2>2. timeline[i] \in Events BY <1>1, <2>1
    <2>3. timeline[i].msg \in Msgs BY <2>2 DEF Events
    <2>4. QED BY <1>1, <1>3, <1>4, <2>1, <2>3 DEF CursorLeavesNoneBehind, Forward
<1>5. CASE UNCHANGED cursor BY <1>1, <1>2, <1>4, <1>5 DEF CursorLeavesNoneBehind
<1>6. CASE SyncPersist
    <2>1. /\ cursor' = sync.to /\ cursor = sync.from /\ sync.pc = "persist"
          /\ message' = AcceptInputs(sync.inputs) /\ timeline' = timeline
        BY <1>6 DEF SyncPersist, botified
    <2>2. ASSUME NEW i \in 1..cursor', timeline[i].kind = "input"
          PROVE  \/ message'[timeline[i].msg].status = "accepted"
                 \/ message'[timeline[i].msg].deleted
        <3>1. i \in 1..Len(timeline) BY <1>1, <2>1 DEF CopyBehind, Syncs
        <3> DEFINE m == timeline[i].msg
        <3>2. m \in Msgs /\ timeline[i] = Input(m)
            <4>1. timeline[i] \in Events BY <1>1, <3>1
            <4>2. QED BY <2>2, <4>1 DEF Events, Input
        <3>3. CASE i \in 1..cursor BY <1>4, <2>1, <2>2, <3>3
        <3>4. CASE i \notin 1..cursor
            <4>1. m \in sync.inputs
                BY <1>1, <2>1, <2>2, <3>4 DEF CopyCovers, Syncs
            <4>2. message[m].claimed BY <3>1, <3>2, <1>1 DEF OnlyClaimed, Taken
            <4>3. message[m].status # "absent" BY <1>1, <3>2, <4>2 DEF Messages
            <4>4. m \in Listed \/ message[m].deleted BY <3>2, <4>3 DEF Listed
            <4>5. QED BY <1>1, <2>1, <3>2, <4>1, <4>4 DEF AcceptInputs, Messages, Rows
        <3>5. QED BY <3>3, <3>4
    <2>3. cursor' \in 0..Len(timeline') BY <1>1, <2>1 DEF CopyBehind, Syncs
    <2>4. QED BY <2>1, <2>2, <2>3 DEF CursorLeavesNoneBehind
<1>7. QED BY <1>5, <1>6, CursorWriters

-----------------------------------------------------------------------------
(* The inductive invariant, and what follows from it.                        *)

\* The disturbances stay within their budget.
LEMMA FaultsStep == ASSUME IInv, Next PROVE faults' \in 0..MaxFaults
<1>1. faults \in 0..MaxFaults BY DEF IInv, TypeOK
<1>2. ASSUME NEW kind, MayFault(kind) PROVE faults' \in 0..MaxFaults
    BY <1>1, <1>2, DeliveryConstants DEF MayFault, DeliveryConstants
<1>3. QED BY <1>1, <1>2, FaultsWriters DEF LoopGivesUp, SyncFails, Crash

\* It holds when the Task is created.
LEMMA Initially == Init => IInv
<1> SUFFICES ASSUME Init PROVE IInv OBVIOUS
<1>1. 1 \in Msgs /\ 0 \in Texts /\ 0 \in 0..MaxFaults /\ 1 \in 1..MaxRuns /\ 0 \in 0..MaxRuns
    BY DeliveryConstants DEF DeliveryConstants, Msgs, Texts
<1>2. NewMessage \in Messages /\ Absent \in Messages
    BY <1>1 DEF NewMessage, Absent, Messages, Rows, Statuses
<1>3. message \in [Msgs -> Messages] BY <1>2 DEF Init
<1>4. run \in Runs BY <1>1 DEF Init, Runs
<1>5. loop \in Loops /\ sync \in Syncs BY <1>1 DEF Init, Idle, NoSync, Loops, LoopPcs, Syncs
<1>6. /\ posts \subseteq Posts /\ posted \in [Msgs -> Nat] /\ faults \in 0..MaxFaults
      /\ ran \in [Msgs -> Texts \cup {NoText}]
    BY <1>1 DEF Init
<1>7. /\ timeline = <<>> /\ timeline \in Seq(Events) /\ Len(timeline) = 0 /\ cursor = 0
      /\ queue \in Seq([msg: Msgs, run: 1..MaxRuns])
    BY DEF Init
<1>8. TypeOK BY <1>3, <1>4, <1>5, <1>6, <1>7 DEF TypeOK
<1>9. \A m \in Msgs : ~Taken(m) BY <1>7 DEF Taken
<1>10. DeliveryTyped /\ CopyBehind /\ CopyCovers /\ OwnerCanSettle /\ CursorLeavesNoneBehind
    BY <1>7 DEF Init, Idle, NoSync, DeliveryTyped, CopyBehind, CopyCovers, OwnerCanSettle,
                CursorLeavesNoneBehind
<1>11. PostedOnce /\ PostedFresh /\ OnlyClaimed /\ RanAsStored
    BY <1>9 DEF Init, Idle, PostedOnce, PostedFresh, OnlyClaimed, RanAsStored
<1>12. TakenKnown BY DEF Init, Idle, NoSync, TakenKnown
<1>13. AcceptedWasTaken /\ DeletedStaysOut
    BY DEF Init, NewMessage, Absent, AcceptedWasTaken, DeletedStaysOut
<1>14. QED BY <1>8, <1>10, <1>11, <1>12, <1>13 DEF IInv

\* Every step keeps it.
LEMMA Inductive == IInv /\ [Next]_vars => IInv'
<1> SUFFICES ASSUME IInv, [Next]_vars PROVE IInv' OBVIOUS
<1>1. CASE Next
    <2>1. TypeOK'
        BY <1>1, MessageTyped, RunTyped, LoopTyped, SyncTyped, PostsTyped, BotifiedTyped,
           PostedStep, CursorStep, FaultsStep DEF TypeOK, MessageForward
    <2>2. QED BY <1>1, <2>1, LoopTyped, SyncTyped, PostedStep, ClaimedStep, OwnerStep,
                 DeletedStep, KnownStep, AcceptedStep, CursorStep DEF IInv
<1>2. CASE UNCHANGED vars
    BY <1>2 DEF vars, botified, IInv, TypeOK, DeliveryTyped, CopyBehind, CopyCovers, PostedOnce,
                PostedFresh, OnlyClaimed, RanAsStored, OwnerCanSettle, AcceptedWasTaken,
                TakenKnown, DeletedStaysOut, CursorLeavesNoneBehind, Taken, Listed, Active
<1>3. QED BY <1>1, <1>2

\* It holds in every state of every behaviour.
LEMMA Invariance == Spec => []IInv
BY Initially, Inductive, PTL DEF Spec

\* Every variable keeps its type.
THEOREM DeliveryTypeCorrect == Spec => []TypeOK
<1>1. IInv => TypeOK BY DEF IInv
<1>2. QED BY <1>1, Invariance, PTL

\* No message is ever posted twice (dispatchTaskMessageExclusive posts only what it
\* has just claimed, and claimTaskMessage claims only what has no claim token).
THEOREM NeverPostedTwice == Spec => []PostedOnce
<1>1. IInv => PostedOnce BY DEF IInv
<1>2. QED BY <1>1, Invariance, PTL

\* The owner of an active Run is there to be settled.
THEOREM OwnersCanSettle == Spec => []OwnerCanSettle
<1>1. IInv => OwnerCanSettle BY DEF IInv
<1>2. QED BY <1>1, Invariance, PTL

\* Acceptance is only of what Botified took.
THEOREM AcceptedOnlyIfTaken == Spec => []AcceptedWasTaken
<1>1. IInv => AcceptedWasTaken BY DEF IInv
<1>2. QED BY <1>1, Invariance, PTL

\* A stored cursor has left no taken message behind.
THEOREM CursorNeverLeavesBehind == Spec => []CursorLeavesNoneBehind
<1>1. IInv => CursorLeavesNoneBehind BY DEF IInv
<1>2. QED BY <1>1, Invariance, PTL

\* A message deleted while it waited never reaches Botified.
THEOREM DeletedNeverTaken == Spec => []DeletedStaysOut
<1>1. IInv => DeletedStaysOut BY DEF IInv
<1>2. QED BY <1>1, Invariance, PTL

\* Botified works on the text that is stored.
THEOREM RunsWhatIsStored == Spec => []RanAsStored
<1>1. IInv => RanAsStored BY DEF IInv
<1>2. QED BY <1>1, Invariance, PTL

-----------------------------------------------------------------------------
(* One message at a time, when no request is served after its caller gave it *)
(* up.                                                                       *)

\* A copy under way is somebody's, and the loop's is one the loop waits for.
SyncOfLoop ==
    /\ sync.by = "nobody" => sync.pc = "open"
    /\ sync.by = "loop" => loop.pc \in {"sync", "after"}

\* The only request under way is the one the loop waits for.
OnePost ==
    \A x \in posts :
        posts = {x} /\ loop.pc = "wait" /\ x.msg = loop.msg /\ x.run = loop.run

\* While the loop delivers a message to the Run that is active, that message owns it.
DeliversOwner ==
    loop.pc \in {"post", "wait"} =>
        /\ loop.run <= run.id
        /\ loop.run = run.id => run.state # "starting" /\ (Active => run.owner = loop.msg)

\* While the loop decides on what it read, and it read that Botified is idle, Botified
\* is idle: nothing is on its way to it.
SeenIdle ==
    /\ loop.pc \in {"judge", "settle"} /\ loop.idle => queue = <<>>
    /\ loop.pc = "settle" => loop.idle

\* An input came on a Run that was up.
QueueOfRuns ==
    \A i \in 1..Len(queue) :
        /\ queue[i].run <= run.id
        /\ queue[i].run = run.id => run.state # "starting"

\* The inductive invariant of this part.
OwnerInv == SyncOfLoop /\ OnePost /\ DeliversOwner /\ SeenIdle /\ QueueOfRuns /\ OwnerRuns

\* Where the Run goes: on, up, down or to the next; the loop alone changes the owner of
\* an active Run.
LEMMA RunMoves ==
    ASSUME IInv, Next
    PROVE  \/ UNCHANGED run
           \/ run'.id = run.id + 1 /\ run'.state = "starting"
           \/ run'.id = run.id /\ run'.state \in {"ending", "released"}
           \/ run'.id = run.id /\ run.state = "starting" /\ run'.state = "active" /\ RunActivates
           \/ run'.id = run.id /\ run'.state = run.state /\ (LoopSettle \/ LoopClaim)
<1>1. run \in Runs BY DEF IInv, TypeOK
<1>2. ASSUME NEW m \in Msgs, CreateMessage(m)
      PROVE  \/ UNCHANGED run
             \/ run'.id = run.id + 1 /\ run'.state = "starting"
    BY <1>2 DEF CreateMessage, NextRun
<1>3. CASE StartRun BY <1>3 DEF StartRun, NextRun
<1>4. CASE RunActivates BY <1>1, <1>4 DEF RunActivates, Runs
<1>5. CASE RunEnds BY <1>1, <1>5 DEF RunEnds, Runs
<1>6. CASE RunReleased BY <1>1, <1>6 DEF RunReleased, Runs
<1>7. CASE LoopSettle BY <1>1, <1>7 DEF LoopSettle, Runs
<1>8. CASE LoopClaim BY <1>1, <1>8 DEF LoopClaim, Runs
<1>9. QED BY <1>2, <1>3, <1>4, <1>5, <1>6, <1>7, <1>8, RunWriters

\* Where the loop goes from where it is.
LEMMA LoopMoves ==
    ASSUME IInv, OwnerInv, Next
    PROVE  \/ UNCHANGED loop
           \/ loop' = Idle
           \/ LoopTick /\ loop'.pc = "sync"
           \/ loop.pc = "sync" /\ sync.by = "loop" /\ SyncState /\ loop'.pc = "judge"
              /\ (loop'.idle => queue = <<>>)
           \/ /\ loop.pc = "judge" /\ LoopJudge /\ loop'.pc \in {"settle", "pick"}
              /\ loop'.pc = "settle" => loop.idle /\ loop'.idle
           \/ loop.pc \in {"settle", "pick", "check", "quiet"} /\ loop'.pc \in {"pick", "check", "quiet", "claim"}
           \/ LoopClaim /\ loop.pc = "claim" /\ loop'.pc = "post" /\ Active
              /\ loop'.run = run.id /\ run' = [run EXCEPT !.owner = loop'.msg] /\ run.owner = NoMsg
           \/ LoopPost /\ loop.pc = "post" /\ loop' = [loop EXCEPT !.pc = "wait"]
           \/ \E x \in posts : LoopAnswer(x) /\ loop'.pc = "accept"
           \/ LoopAccept /\ loop.pc = "accept" /\ loop'.pc = "after"
<1>1. loop \in Loops BY DEF IInv, TypeOK
<1>2. CASE LoopTick BY <1>2 DEF LoopTick, Idle
<1>3. CASE SyncState
    <2>1. CASE sync.by = "api" BY <1>3, <2>1 DEF SyncState
    <2>2. CASE sync.by # "api" /\ loop.pc = "after" BY <1>3, <2>2 DEF SyncState
    <2>3. CASE sync.by # "api" /\ loop.pc # "after"
        <3>1. sync.by = "loop"
            <4>1. sync.by \in {"nobody", "loop", "api"} BY DEF IInv, TypeOK, Syncs
            <4>2. sync.by # "nobody" BY <1>3 DEF SyncState, OwnerInv, SyncOfLoop
            <4>3. QED BY <2>3, <4>1, <4>2
        <3>2. loop.pc = "sync" BY <2>3, <3>1 DEF OwnerInv, SyncOfLoop
        <3>3. loop' = [loop EXCEPT !.pc = "judge", !.run = run.id, !.to = sync.to,
                                   !.inputs = sync.inputs,
                                   !.idle = (queue = <<>>), !.at = Len(timeline)]
            BY <1>3, <2>3 DEF SyncState
        <3>4. loop'.pc = "judge" /\ (loop'.idle => queue = <<>>) BY <1>1, <3>3 DEF Loops
        <3>5. QED BY <1>3, <3>1, <3>2, <3>4
    <2>4. QED BY <2>1, <2>2, <2>3
<1>4. CASE SyncFails BY <1>4 DEF SyncFails
<1>5. CASE LoopJudge BY <1>1, <1>5 DEF LoopJudge, LeaveTask, Quiescent, Loops
<1>6. CASE LoopSettle BY <1>1, <1>6 DEF LoopSettle, LeaveTask, Loops
<1>7. CASE LoopPick BY <1>7 DEF LoopPick, LeaveTask, Idle
<1>8. CASE LoopCheck \/ LoopQuiet
    BY <1>1, <1>8 DEF LoopCheck, LoopQuiet, LeaveTask, Loops
<1>9. CASE LoopClaim BY <1>1, <1>9 DEF LoopClaim, LeaveTask, Loops
<1>10. CASE LoopPost BY <1>10 DEF LoopPost
<1>11. ASSUME NEW x \in posts, LoopAnswer(x) PROVE loop'.pc = "accept"
    BY <1>1, <1>11 DEF LoopAnswer, Loops
<1>12. ASSUME NEW x \in posts, LoopGivesUp(x) PROVE loop' = Idle
    BY <1>12 DEF LoopGivesUp, LeaveTask
<1>13. CASE LoopAccept BY <1>13 DEF LoopAccept, LeaveTask, Idle
<1>14. CASE Crash BY <1>14 DEF Crash
<1>15. QED
    BY <1>2, <1>3, <1>4, <1>5, <1>6, <1>7, <1>8, <1>9, <1>10, <1>11, <1>12, <1>13, <1>14, LoopWriters

\* Copies of the loop are made one by one.
LEMMA SyncOfLoopStep == ASSUME IInv, OwnerInv, Next PROVE SyncOfLoop'
<1>1. loop \in Loops /\ sync \in Syncs /\ SyncOfLoop BY DEF IInv, TypeOK, OwnerInv
<1>2. \/ sync'.by = sync.by /\ (sync'.pc = sync.pc \/ sync.by # "nobody")
      \/ sync'.by = "api" \/ sync' = NoSync
      \/ LoopTick \/ LoopSyncAgain
    <2>1. \/ UNCHANGED sync
          \/ ApiSync \/ LoopTick \/ LoopSyncAgain \/ SyncOpen \/ SyncRead
          \/ SyncPersist \/ SyncState \/ SyncFails \/ Crash
        BY SyncWriters
    <2>2. CASE SyncOpen \/ SyncRead \/ SyncPersist
        BY <1>1, <2>2 DEF SyncOpen, SyncRead, SyncPersist, SyncOfLoop, Syncs
    <2>3. CASE ApiSync BY <2>3 DEF ApiSync, SyncBy, NoSync
    <2>4. CASE SyncState \/ SyncFails \/ Crash BY <2>4 DEF SyncState, SyncFails, Crash
    <2>5. QED BY <2>1, <2>2, <2>3, <2>4
<1>3. CASE LoopTick
    BY <1>3 DEF LoopTick, SyncBy, NoSync, SyncOfLoop, Idle
<1>4. CASE LoopSyncAgain
    BY <1>4 DEF LoopSyncAgain, SyncBy, NoSync, SyncOfLoop
<1>5. CASE sync' = NoSync BY <1>5 DEF SyncOfLoop, NoSync
<1>6. CASE sync'.by = "api" BY <1>6 DEF SyncOfLoop
<1>7. CASE sync'.by = sync.by /\ (sync'.pc = sync.pc \/ sync.by # "nobody") /\ sync' # NoSync
    <2>1. sync'.by = "nobody" => sync'.pc = "open" BY <1>1, <1>7 DEF SyncOfLoop
    <2>2. ASSUME sync'.by = "loop" PROVE loop'.pc \in {"sync", "after"}
        <3>1. sync.by = "loop" /\ loop.pc \in {"sync", "after"} BY <1>1, <1>7, <2>2 DEF SyncOfLoop
        <3>2. ~LoopTick /\ ~SyncState /\ ~SyncFails /\ ~Crash
            BY <1>7, <3>1 DEF LoopTick, SyncState, SyncFails, Crash
        <3>3. ASSUME NEW x \in posts PROVE ~LoopAnswer(x) /\ ~LoopGivesUp(x)
            BY <3>1 DEF LoopAnswer, LoopGivesUp, Awaited
        <3>4. UNCHANGED loop
            BY <3>1, <3>2, <3>3, LoopWriters
            DEF LoopJudge, LoopSettle, LoopPick, LoopCheck, LoopQuiet, LoopClaim, LoopPost, LoopAccept
        <3>5. QED BY <3>1, <3>4
    <2>3. QED BY <2>1, <2>2 DEF SyncOfLoop
<1>8. QED BY <1>2, <1>3, <1>4, <1>5, <1>6, <1>7

\* The loop posts when nothing is posted, and waits until nothing is.
LEMMA OnePostStep ==
    ASSUME "late" \notin FaultKinds, IInv, OwnerInv, Next PROVE OnePost'
<1>1. loop \in Loops /\ OnePost BY DEF IInv, TypeOK, OwnerInv
<1>2. CASE LoopPost
    <2>1. posts = {} BY <1>1, <1>2 DEF LoopPost, OnePost
    <2>2. posts' = {[msg |-> loop.msg, text |-> loop.text, run |-> loop.run, state |-> "sent"]}
          /\ loop' = [loop EXCEPT !.pc = "wait"]
        BY <1>2, <2>1 DEF LoopPost
    <2>3. QED BY <1>1, <2>2 DEF OnePost, Loops
<1>3. CASE posts' = {} BY <1>3 DEF OnePost
<1>4. ASSUME NEW x \in posts, LoopAnswer(x) \/ LoopGivesUp(x) PROVE posts' = {}
    <2>1. x.state = "sent" => ~(MayFault("late")) BY DEF MayFault
    <2>2. posts' = posts \ {x} BY <1>4, <2>1 DEF LoopAnswer, LoopGivesUp
    <2>3. posts = {x} BY <1>1 DEF OnePost
    <2>4. QED BY <2>2, <2>3
<1>5. ASSUME NEW x \in posts, ~LoopPost, ~Crash,
             \A y \in posts : ~LoopAnswer(y) /\ ~LoopGivesUp(y)
      PROVE  UNCHANGED loop
    <2>1. loop.pc = "wait" /\ sync.by # "loop" BY <1>1, <1>5 DEF OnePost, OwnerInv, SyncOfLoop
    <2>2. CASE SyncState
        <3>1. sync.by = "api"
            BY <2>1, <2>2 DEF SyncState, OwnerInv, SyncOfLoop, IInv, TypeOK, Syncs
        <3>2. QED BY <2>2, <3>1 DEF SyncState
    <2>3. CASE SyncFails BY <2>1, <2>3 DEF SyncFails
    <2>4. QED
        BY <1>5, <2>1, <2>2, <2>3, LoopWriters
        DEF LoopTick, LoopJudge, LoopSettle, LoopPick, LoopCheck, LoopQuiet, LoopClaim, LoopAccept
<1>6. ASSUME ~LoopPost, ~Crash, \A y \in posts : ~LoopAnswer(y) /\ ~LoopGivesUp(y)
      PROVE  OnePost'
    <2>1. CASE posts' = posts
        BY <1>1, <1>5, <1>6, <2>1 DEF OnePost
    <2>2. ASSUME NEW x \in posts, BotifiedServes(x) PROVE OnePost'
        <3>1. posts = {x} /\ UNCHANGED loop /\ Awaited(x)
            BY <1>1, <1>5, <1>6 DEF OnePost, Awaited
        <3>2. posts' = {[x EXCEPT !.state = "served"]}
            BY <2>2, <3>1 DEF BotifiedServes
        <3>3. x \in Posts BY DEF IInv, TypeOK
        <3>4. QED BY <1>1, <3>1, <3>2, <3>3 DEF OnePost, Posts
    <2>3. QED BY <1>6, <2>1, <2>2, PostsWriters
<1>7. QED BY <1>2, <1>3, <1>4, <1>6 DEF Crash

\* What Botified has to do comes of the one request under way.
LEMMA QueueMoves ==
    ASSUME IInv, OwnerInv, Next
    PROVE  \/ UNCHANGED queue
           \/ queue' = <<>> /\ UNCHANGED <<loop, run.id, run.owner>>
           \/ /\ queue # <<>> /\ queue' = Tail(queue) /\ UNCHANGED <<run, loop>>
           \/ \E x \in posts :
                /\ queue' = Append(queue, [msg |-> x.msg, run |-> x.run])
                /\ Answers(x.run) /\ UNCHANGED <<run, loop>>
<1>1. CASE UNCHANGED botified BY <1>1 DEF botified
<1>2. ASSUME NEW x \in posts, BotifiedServes(x)
      PROVE  \/ UNCHANGED queue
             \/ /\ queue' = Append(queue, [msg |-> x.msg, run |-> x.run])
                /\ Answers(x.run) /\ UNCHANGED <<run, loop>>
    BY <1>2 DEF BotifiedServes, botified
<1>3. CASE RunActivates
    <2>1. run \in Runs BY DEF IInv, TypeOK
    <2>2. QED BY <1>3, <2>1 DEF RunActivates, Runs
<1>4. CASE BotifiedFinishes BY <1>4 DEF BotifiedFinishes
<1>5. QED BY <1>1, <1>2, <1>3, <1>4, BotifiedWriters

\* A claim is for the Run that is active, which keeps its owner while it is.
LEMMA DeliversOwnerStep ==
    ASSUME IInv, OwnerInv, Next PROVE DeliversOwner'
<1>1. /\ loop \in Loops /\ run \in Runs /\ DeliversOwner
      /\ run.id \in Nat /\ loop.run \in Nat
    BY DeliveryConstants DEF IInv, TypeOK, OwnerInv, Loops, Runs
<1>2. CASE loop.pc \in {"post", "wait"} /\ loop'.pc \in {"post", "wait"} /\ loop'.run = loop.run /\ loop'.msg = loop.msg
    <2>1. ~LoopSettle /\ ~LoopClaim BY <1>2 DEF LoopSettle, LoopClaim
    <2>2. CASE UNCHANGED run BY <1>1, <1>2, <2>2 DEF DeliversOwner, Active
    <2>3. CASE run'.id = run.id + 1 /\ run'.state = "starting"
        BY <1>1, <1>2, <2>3 DEF DeliversOwner, Active
    <2>4. CASE run'.id = run.id /\ run'.state \in {"ending", "released"}
        BY <1>1, <1>2, <2>4 DEF DeliversOwner, Active
    <2>5. CASE run'.id = run.id /\ run.state = "starting"
        BY <1>1, <1>2, <2>5 DEF DeliversOwner, Active
    <2>6. QED BY <2>1, <2>2, <2>3, <2>4, <2>5, RunMoves
<1>3. CASE loop'.pc \notin {"post", "wait"} BY <1>3 DEF DeliversOwner
<1>4. CASE /\ LoopClaim /\ Active /\ loop'.run = run.id
           /\ run' = [run EXCEPT !.owner = loop'.msg]
    BY <1>1, <1>4 DEF DeliversOwner, Active, Runs
<1>5. CASE UNCHANGED loop /\ loop.pc \in {"post", "wait"} BY <1>2, <1>5
<1>6. CASE loop.pc = "post" /\ loop' = [loop EXCEPT !.pc = "wait"]
    BY <1>1, <1>2, <1>6 DEF Loops
<1>7. QED BY <1>3, <1>4, <1>5, <1>6, LoopMoves DEF Idle

\* What was read as idle stays so: a request is under way only while the loop waits.
LEMMA SeenIdleStep == ASSUME IInv, OwnerInv, Next PROVE SeenIdle'
<1>1. SeenIdle /\ OnePost BY DEF OwnerInv
<1>2. loop'.pc = "settle" => loop'.idle
    <2>1. ASSUME loop'.pc = "settle" PROVE loop'.idle
        <3>1. CASE UNCHANGED loop BY <1>1, <2>1, <3>1 DEF SeenIdle
        <3>2. CASE loop.pc = "judge" /\ loop'.idle BY <3>2
        <3>3. CASE loop' = Idle BY <2>1, <3>3 DEF Idle
        <3>4. CASE \E x \in posts : LoopAnswer(x) /\ loop'.pc = "accept" BY <2>1, <3>4
        <3>5. CASE loop' = [loop EXCEPT !.pc = "wait"]
            <4>1. loop'.pc = "wait" BY <3>5 DEF IInv, TypeOK, Loops
            <4>2. QED BY <2>1, <4>1
        <3>6. CASE loop'.pc # "settle" BY <2>1, <3>6
        <3>7. QED BY <2>1, <3>1, <3>2, <3>3, <3>4, <3>5, <3>6, LoopMoves
    <2>2. QED BY <2>1
<1>3. ASSUME loop'.pc \in {"judge", "settle"}, loop'.idle PROVE queue' = <<>>
    <2>1. \/ queue = <<>> /\ loop.pc = "sync" /\ SyncState
          \/ loop.pc \in {"judge", "settle"} /\ loop.idle
        <3>1. CASE UNCHANGED loop BY <1>3, <3>1
        <3>2. CASE loop.pc = "judge" /\ loop'.pc = "settle" /\ loop.idle BY <3>2
        <3>3. CASE loop.pc = "sync" /\ SyncState /\ (loop'.idle => queue = <<>>) BY <1>3, <3>3
        <3>4. CASE loop' = Idle BY <1>3, <3>4 DEF Idle
        <3>5. CASE \E x \in posts : LoopAnswer(x) /\ loop'.pc = "accept" BY <1>3, <3>5
        <3>6. CASE loop' = [loop EXCEPT !.pc = "wait"]
            <4>1. loop'.pc = "wait" BY <3>6 DEF IInv, TypeOK, Loops
            <4>2. QED BY <1>3, <4>1
        <3>7. CASE loop'.pc \notin {"judge", "settle"} BY <1>3, <3>7
        <3>8. QED BY <1>3, <3>1, <3>2, <3>3, <3>4, <3>5, <3>6, <3>7, LoopMoves
    <2>2. queue = <<>> BY <1>1, <2>1 DEF SeenIdle
    <2>3. posts = {} BY <1>1, <2>1 DEF OnePost
    <2>4. QED BY <2>2, <2>3, QueueMoves
<1>4. QED BY <1>2, <1>3 DEF SeenIdle

\* An input comes on the Run of now, once it is up.
LEMMA QueueOfRunsStep == ASSUME IInv, OwnerInv, Next PROVE QueueOfRuns'
<1>1. /\ queue \in Seq([msg: Msgs, run: 1..MaxRuns]) /\ run \in Runs /\ posts \subseteq Posts
      /\ QueueOfRuns /\ run.id \in Nat
    BY DeliveryConstants DEF IInv, TypeOK, OwnerInv, Runs
<1>2. \A i \in 1..Len(queue) : queue[i].run \in Nat
    <2>1. \A S : queue \in Seq(S) => \A i \in 1..Len(queue) : queue[i] \in S OBVIOUS
    <2>2. \A i \in 1..Len(queue) : queue[i] \in [msg: Msgs, run: 1..MaxRuns]
        BY <1>1, <2>1, Zenon
    <2>3. 1..MaxRuns \subseteq Nat BY DeliveryConstants
    <2>4. QED BY <2>2, <2>3
<1>3. CASE UNCHANGED run
    <2>1. CASE UNCHANGED queue BY <1>1, <1>3, <2>1 DEF QueueOfRuns
    <2>2. CASE queue' = <<>> BY <2>2 DEF QueueOfRuns
    <2>3. CASE queue # <<>> /\ queue' = Tail(queue)
        BY <1>1, <1>3, <2>3 DEF QueueOfRuns
    <2>4. ASSUME NEW x \in posts, Answers(x.run),
                 queue' = Append(queue, [msg |-> x.msg, run |-> x.run])
          PROVE  QueueOfRuns'
        <3>1. [msg |-> x.msg, run |-> x.run].run = run.id /\ run.state # "starting"
            BY <2>4 DEF Answers
        <3>2. ASSUME NEW i \in 1..Len(queue')
              PROVE  \/ queue'[i].run = run.id
                     \/ i \in 1..Len(queue) /\ queue'[i] = queue[i]
            BY <1>1, <2>4, <3>1, <3>2, AppendedOnly
        <3>3. QED BY <1>1, <1>3, <3>1, <3>2 DEF QueueOfRuns
    <2>5. QED BY <2>1, <2>2, <2>3, <2>4, QueueMoves
<1>4. CASE run' # run
    <2>1. queue' \in {queue, <<>>}
        <3>1. run.id = run.id BY <1>1
        <3>2. QED BY <1>4, QueueMoves
    <2>2. \/ run'.id = run.id + 1 /\ run'.state = "starting"
          \/ run'.id = run.id /\ (run.state = "starting" \/ run'.state # "starting")
        <3>1. LoopSettle \/ LoopClaim => Active \/ run' = run
            BY DEF LoopSettle, LoopClaim
        <3>2. QED BY <1>4, <3>1, RunMoves DEF Active
    <2>3. QED BY <1>1, <1>2, <2>1, <2>2 DEF QueueOfRuns
<1>5. QED BY <1>3, <1>4

\* What Botified works on for the active Run owns it: a claim finds nothing under way,
\* a request is of the owner, and an owner is settled when Botified is idle.
LEMMA OwnerRunsStep == ASSUME IInv, OwnerInv, Next PROVE OwnerRuns'
<1>1. /\ queue \in Seq([msg: Msgs, run: 1..MaxRuns]) /\ run \in Runs /\ run.id \in Nat
      /\ OwnerRuns /\ QueueOfRuns /\ OnePost /\ SeenIdle /\ DeliversOwner
    BY DeliveryConstants DEF IInv, TypeOK, OwnerInv, Runs
<1>2. \A i \in 1..Len(queue) : queue[i].msg \in Msgs /\ queue[i].run \in Nat
    <2>1. \A S : queue \in Seq(S) => \A i \in 1..Len(queue) : queue[i] \in S OBVIOUS
    <2>2. \A i \in 1..Len(queue) : queue[i] \in [msg: Msgs, run: 1..MaxRuns]
        BY <1>1, <2>1, Zenon
    <2>3. 1..MaxRuns \subseteq Nat BY DeliveryConstants
    <2>4. QED BY <2>2, <2>3
<1>3. CASE UNCHANGED run
    <2>1. CASE UNCHANGED queue BY <1>1, <1>3, <2>1 DEF OwnerRuns, Active
    <2>2. CASE queue' = <<>> BY <2>2 DEF OwnerRuns
    <2>3. CASE queue # <<>> /\ queue' = Tail(queue)
        <3>1. \A i \in 1..Len(queue') : i + 1 \in 1..Len(queue) /\ queue'[i] = queue[i + 1]
            BY <1>1, <2>3
        <3>2. QED BY <1>1, <1>3, <3>1 DEF OwnerRuns, Active
    <2>4. ASSUME NEW x \in posts, Answers(x.run),
                 queue' = Append(queue, [msg |-> x.msg, run |-> x.run])
          PROVE  OwnerRuns'
        <3>1. CASE ~Active BY <1>3, <3>1 DEF OwnerRuns, Active
        <3>2. CASE Active
            <4>1. x.run = loop.run /\ x.msg = loop.msg /\ loop.pc = "wait" /\ x.run = run.id
                BY <1>1, <2>4 DEF OnePost, Answers
            <4>2. run.owner = x.msg BY <1>1, <3>2, <4>1 DEF DeliversOwner
            <4>3. ASSUME NEW i \in 1..Len(queue')
                  PROVE  \/ queue'[i] = [msg |-> x.msg, run |-> x.run]
                         \/ i \in 1..Len(queue) /\ queue'[i] = queue[i]
                BY <1>1, <2>4, <4>3, AppendedOnly
            <4>4. QED BY <1>1, <1>3, <3>2, <4>2, <4>3 DEF OwnerRuns, Active
        <3>3. QED BY <3>1, <3>2
    <2>5. QED BY <2>1, <2>2, <2>3, <2>4, QueueMoves
<1>4. CASE run' # run
    <2>1. queue' \in {queue, <<>>} BY <1>4, QueueMoves
    <2>2. CASE queue' = <<>> BY <2>2 DEF OwnerRuns
    <2>3. CASE queue' = queue /\ run'.state # "active" BY <2>3 DEF OwnerRuns, Active
    <2>4. CASE queue' = queue /\ run'.id = run.id /\ run.state = "starting"
        BY <1>1, <2>4 DEF OwnerRuns, QueueOfRuns
    <2>5. CASE queue' = queue /\ LoopSettle
        <3>1. loop.pc = "settle" BY <2>5 DEF LoopSettle
        <3>2. queue = <<>> BY <1>1, <3>1 DEF SeenIdle
        <3>3. QED BY <2>5, <3>2 DEF OwnerRuns
    <2>6. CASE queue' = queue /\ LoopClaim
        <3>1. run.owner = NoMsg /\ Active /\ run'.id = run.id
            BY <1>1, <1>4, <2>6 DEF LoopClaim, Runs
        <3>2. \A i \in 1..Len(queue) : queue[i].run # run.id
            BY <1>1, <1>2, <3>1 DEF OwnerRuns, NoMsg, Msgs
        <3>3. QED BY <2>6, <3>1, <3>2 DEF OwnerRuns
    <2>7. QED BY <1>4, <2>1, <2>2, <2>3, <2>4, <2>5, <2>6, RunMoves
<1>5. QED BY <1>3, <1>4

\* At the beginning nothing is under way.
LEMMA OwnerInitially == ASSUME Init PROVE OwnerInv
BY DEF Init, OwnerInv, SyncOfLoop, OnePost, DeliversOwner, SeenIdle, QueueOfRuns, OwnerRuns, NoSync,
       Idle, Active

\* Every step keeps this.
LEMMA OwnerInductive ==
    ASSUME "late" \notin FaultKinds, IInv, OwnerInv, [Next]_vars PROVE OwnerInv'
<1>1. CASE Next
    BY <1>1, SyncOfLoopStep, OnePostStep, DeliversOwnerStep, SeenIdleStep, QueueOfRunsStep,
       OwnerRunsStep DEF OwnerInv
<1>2. CASE UNCHANGED vars
    BY <1>2 DEF vars, botified, OwnerInv, SyncOfLoop, OnePost, DeliversOwner, SeenIdle, QueueOfRuns,
                OwnerRuns, Active
<1>3. QED BY <1>1, <1>2

\* Where Botified serves no request after its caller gave it up, it works, for the
\* active Run, on the message that owns the Run alone, and the broker lets that
\* message's model calls through: for any number of messages, Runs, crashes and
\* failed calls.
THEOREM OwnerRunsAlone ==
    ASSUME "late" \notin FaultKinds PROVE Spec => []OwnerRuns
<1>1. Init => OwnerInv BY OwnerInitially
<1>2. IInv /\ OwnerInv /\ [Next]_vars => OwnerInv' BY OwnerInductive
<1>3. OwnerInv => OwnerRuns BY DEF OwnerInv
<1>4. QED BY <1>1, <1>2, <1>3, Invariance, PTL DEF Spec
=============================================================================
