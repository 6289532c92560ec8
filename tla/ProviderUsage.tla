----------------------------- MODULE ProviderUsage -----------------------------
(***************************************************************************)
(* The calls of one Project to model providers, what the Project is        *)
(* charged for them, and the deletion of the Project                       *)
(* (packages/application/src/openAIProviderBroker.ts,                      *)
(* projectPolicyService.ts, deletionService.ts, and the store transactions *)
(* they call).                                                             *)
(*                                                                         *)
(* A call reserves a request and an estimate of tokens against the limits  *)
(* of the Project and the rolling window of its endpoint, marks the        *)
(* reservation dispatched, calls the provider, and settles what the        *)
(* provider measured.  Meanwhile the runtime loop expires reservations     *)
(* that are five minutes old, whatever their call is doing, and deletes    *)
(* old rows.  Only a call that was certainly not sent is refunded.         *)
(*                                                                         *)
(* All calls are of one actor to one endpoint; cost is accounted like      *)
(* tokens and left out, as are the alerts and the audit.  A limit of null  *)
(* is a limit that is not reached.  The Project's Sandbox Runs, which also *)
(* hold its deletion up, are taken to be released.                         *)
(*                                                                         *)
(* An operator called "...Mutant" is a plausible mistake in the operator   *)
(* that follows it; it shows that some property notices that mistake.      *)
(***************************************************************************)
EXTENDS Integers, FiniteSets, FiniteSetsExt

CONSTANTS
    Calls,              \* calls users and agents make
    Amounts,            \* tokens a call may estimate or turn out to use
    RequestLimit,       \* the Project's provider_requests_limit
    TokenLimit,         \* the Project's provider_tokens_limit
    WindowLimit,        \* requests allowed in the endpoint's rolling window
    MaxProviderFaults   \* bound on crashes and lost answers of the store

ASSUME ProviderConstants ==
    /\ IsFiniteSet(Calls) /\ Amounts \subseteq Nat
    /\ RequestLimit \in Nat /\ TokenLimit \in Nat /\ WindowLimit \in Nat
    /\ MaxProviderFaults \in Nat

VARIABLES
    settlement,      \* project_provider_settlements: one row per call
    usage,           \* project_resource_usage: provider_requests and provider_tokens
    pruned,          \* history: what rows deleted for their age were charged
    call,            \* settledCall of each call
    project,         \* the Project's lifecycle
    files,           \* is the Project's directory tree there?
    deletion,        \* deleteProject of the Project
    providerFaults   \* disturbances so far

providerVars == <<settlement, usage, pruned, call, project, files, deletion, providerFaults>>

Unmeasured == -1

Statuses == {"absent", "reserved", "dispatched", "delivered", "settled", "unknown", "failed"}
SettlementRows == [status: Statuses, reserved: Amounts \cup {0},
                   measured: Amounts \cup {Unmeasured},
                   overdue: BOOLEAN,   \* its five minutes are over
                   recent: BOOLEAN]    \* it is in the endpoint's rolling window
Settlements == {r \in SettlementRows : r.measured # Unmeasured => r.status = "settled"}
CallPcs == {"start", "dispatch", "call", "answer", "deliver", "settle", "unknown", "fail", "end"}
CallStates == [pc: CallPcs, measured: Amounts \cup {Unmeasured}, sent: BOOLEAN]

ProviderTypeOK ==
    /\ settlement \in [Calls -> Settlements] /\ call \in [Calls -> CallStates]
    /\ usage \in [requests: Nat, tokens: Nat] /\ pruned \in [requests: Nat, tokens: Nat]
    /\ project \in {"active", "deleting", "deleted"} /\ files \in BOOLEAN
    /\ deletion \in {"idle", "erase", "finalize"}
    /\ providerFaults \in 0..MaxProviderFaults

NoSettlement == [status |-> "absent", reserved |-> 0, measured |-> Unmeasured,
                 overdue |-> FALSE, recent |-> FALSE]
NoUsage == [requests |-> 0, tokens |-> 0]
Ended == [pc |-> "end", measured |-> Unmeasured, sent |-> FALSE]

ProviderInit ==
    /\ settlement = [c \in Calls |-> NoSettlement]
    /\ usage = NoUsage /\ pruned = NoUsage
    /\ call = [c \in Calls |-> [pc |-> "start", measured |-> Unmeasured, sent |-> FALSE]]
    /\ project = "active" /\ files = TRUE /\ deletion = "idle"
    /\ providerFaults = 0

-----------------------------------------------------------------------------
Status(c) == settlement[c].status
CallAt(c, pc) == call[c].pc = pc
CallTo(c, pc) == call' = [call EXCEPT ![c] = IF pc = "end" THEN Ended ELSE [@ EXCEPT !.pc = pc]]
Mark(c, status) == settlement' = [settlement EXCEPT ![c].status = status]

AtLeastZero(n) == IF n < 0 THEN 0 ELSE n

Charged(c) == Status(c) \notin {"absent", "failed"}
Tokens(r) == IF r.measured # Unmeasured THEN r.measured ELSE r.reserved
TokensOf(S) == MapThenSumSet(LAMBDA c : Tokens(settlement[c]), S)

\* Reservations that hold up the deletion of the Project.
LiveReservations == {c \in Calls : Status(c) \in {"reserved", "dispatched", "delivered"}}

\* measured over the window: failed rows do not count.
WindowUse == Cardinality({c \in Calls : Charged(c) /\ settlement[c].recent})

\* The limit is compared with what is used already.
CanReserveOneOverMutant(t) ==
    /\ project = "active"
    /\ WindowUse <= WindowLimit
    /\ usage.requests + 1 <= RequestLimit /\ usage.tokens + t <= TokenLimit

\* The Project's lifecycle is not looked at under its lock.
CanReserveMutant(t) ==
    /\ project # "deleted"
    /\ WindowUse + 1 <= WindowLimit
    /\ usage.requests + 1 <= RequestLimit /\ usage.tokens + t <= TokenLimit

CanReserve(t) ==
    /\ project = "active"
    /\ WindowUse + 1 <= WindowLimit
    /\ usage.requests + 1 <= RequestLimit /\ usage.tokens + t <= TokenLimit

\* reserveProjectProviderSettlement.
Reserve(c, t) ==
    /\ CallAt(c, "start")
    /\ \/ /\ CanReserve(t)
          /\ settlement' = [settlement EXCEPT
               ![c] = [NoSettlement EXCEPT !.status = "reserved", !.reserved = t, !.recent = TRUE]]
          /\ usage' = [requests |-> usage.requests + 1, tokens |-> usage.tokens + t]
          /\ CallTo(c, "dispatch")
       \/ /\ ~CanReserve(t)
          /\ CallTo(c, "end")
          /\ UNCHANGED <<settlement, usage>>
    /\ UNCHANGED <<pruned, project, files, deletion, providerFaults>>

\* The call goes on although its reservation was not found.
DispatchMutant(c) ==
    /\ CallAt(c, "dispatch") /\ CallTo(c, "call")
    /\ \/ Status(c) = "reserved" /\ Mark(c, "dispatched")
       \/ Status(c) # "reserved" /\ UNCHANGED settlement
    /\ UNCHANGED <<usage, pruned, project, files, deletion, providerFaults>>

\* markProviderDispatched: a reservation that expired meanwhile is not found.
Dispatch(c) ==
    /\ CallAt(c, "dispatch")
    /\ \/ Status(c) = "reserved" /\ Mark(c, "dispatched") /\ CallTo(c, "call")
       \/ Status(c) # "reserved" /\ CallTo(c, "fail") /\ UNCHANGED settlement
    /\ UNCHANGED <<usage, pruned, project, files, deletion, providerFaults>>

\* failProvider: what was not dispatched is refunded.
Fail(c) ==
    /\ CallAt(c, "fail")
    /\ \/ /\ Status(c) = "reserved"
          /\ Mark(c, "failed")
          /\ usage' = [requests |-> AtLeastZero(usage.requests - 1),
                       tokens |-> AtLeastZero(usage.tokens - settlement[c].reserved)]
       \/ Status(c) \in {"dispatched", "delivered"} /\ Mark(c, "unknown") /\ UNCHANGED usage
       \/ Status(c) \notin {"reserved", "dispatched", "delivered"} /\ UNCHANGED <<settlement, usage>>
    /\ CallTo(c, "end")
    /\ UNCHANGED <<pruned, project, files, deletion, providerFaults>>

\* The request goes to the provider ...
Send(c) ==
    /\ CallAt(c, "call")
    /\ call' = [call EXCEPT ![c].pc = "answer", ![c].sent = TRUE]
    /\ UNCHANGED <<settlement, usage, pruned, project, files, deletion, providerFaults>>

\* ... which answers, at any later time, with or without a measure, or fails.
Answer(c) ==
    /\ CallAt(c, "answer")
    /\ \/ \E n \in Amounts \cup {Unmeasured} :
            call' = [call EXCEPT ![c].pc = "deliver", ![c].measured = n]
       \/ CallTo(c, "unknown")
    /\ UNCHANGED <<settlement, usage, pruned, project, files, deletion, providerFaults>>

\* markProviderDelivered: an answer after the expiry is still an answer.
Deliver(c) ==
    /\ CallAt(c, "deliver")
    /\ \/ /\ Status(c) \in {"dispatched", "unknown", "delivered"}
          /\ Mark(c, "delivered")
          /\ CallTo(c, IF call[c].measured = Unmeasured THEN "unknown" ELSE "settle")
       \/ /\ Status(c) \notin {"dispatched", "unknown", "delivered"}
          /\ CallTo(c, "unknown") /\ UNCHANGED settlement
    /\ UNCHANGED <<usage, pruned, project, files, deletion, providerFaults>>

\* The row keeps its status, and the usage can be settled again.
SettleMutant(c) ==
    /\ CallAt(c, "settle")
    /\ Status(c) \in {"dispatched", "delivered", "unknown"}
    /\ settlement' = [settlement EXCEPT ![c].measured = call[c].measured]
    /\ usage' = [usage EXCEPT
         !.tokens = AtLeastZero(@ + call[c].measured - settlement[c].reserved)]
    /\ CallTo(c, "end")
    /\ UNCHANGED <<pruned, project, files, deletion, providerFaults>>

\* settleProvider: the estimate is replaced by the measure.  The evaluation of
\* alert rules that follows may fail, and the call is then marked unknown too.
Settle(c) ==
    /\ CallAt(c, "settle")
    /\ LET r == settlement[c]
           delta == call[c].measured - r.reserved
       IN  \/ /\ r.status \in {"dispatched", "delivered", "unknown"}
              /\ settlement' = [settlement EXCEPT ![c].status = "settled",
                                                  ![c].measured = call[c].measured]
              /\ usage' = [usage EXCEPT !.tokens = AtLeastZero(@ + delta)]
              /\ \E pc \in {"end", "unknown"} : CallTo(c, pc)
           \/ /\ r.status \notin {"dispatched", "delivered", "unknown"}
              /\ CallTo(c, IF r.status = "settled" THEN "end" ELSE "unknown")
              /\ UNCHANGED <<settlement, usage>>
    /\ UNCHANGED <<pruned, project, files, deletion, providerFaults>>

\* markProviderUnknown.
MarkUnknown(c) ==
    /\ CallAt(c, "unknown")
    /\ \/ Status(c) \in {"dispatched", "delivered"} /\ Mark(c, "unknown")
       \/ Status(c) \notin {"dispatched", "delivered"} /\ UNCHANGED settlement
    /\ CallTo(c, "end")
    /\ UNCHANGED <<usage, pruned, project, files, deletion, providerFaults>>

DisturbProvider ==
    providerFaults < MaxProviderFaults /\ providerFaults' = providerFaults + 1

\* The store marks the reservation dispatched and its answer is lost.
DispatchLost(c) ==
    /\ CallAt(c, "dispatch") /\ Status(c) = "reserved" /\ DisturbProvider
    /\ Mark(c, "dispatched") /\ CallTo(c, "fail")
    /\ UNCHANGED <<usage, pruned, project, files, deletion>>

\* The process ends: its calls and its deletion of the Project stop where they are.
ProviderCrash ==
    /\ DisturbProvider
    /\ call' = [c \in Calls |-> IF CallAt(c, "start") THEN call[c] ELSE Ended]
    /\ deletion' = "idle"
    /\ UNCHANGED <<settlement, usage, pruned, project, files>>

\* Five minutes pass over a reservation; its endpoint's window passes it by.
Overdue(c) ==
    /\ Status(c) # "absent" /\ ~settlement[c].overdue
    /\ settlement' = [settlement EXCEPT ![c].overdue = TRUE]
    /\ UNCHANGED <<usage, pruned, call, project, files, deletion, providerFaults>>

LeaveWindow(c) ==
    /\ settlement[c].overdue /\ settlement[c].recent
    /\ settlement' = [settlement EXCEPT ![c].recent = FALSE]
    /\ UNCHANGED <<usage, pruned, call, project, files, deletion, providerFaults>>

\* Every expired reservation is refunded, one whose call was sent too.
ExpireMutant ==
    LET due == {c \in LiveReservations : settlement[c].overdue}
    IN  /\ due # {}
        /\ settlement' = [c \in Calls |->
             IF c \in due
             THEN [settlement[c] EXCEPT !.status = IF @ = "reserved" THEN "failed" ELSE "unknown"]
             ELSE settlement[c]]
        /\ usage' = [requests |-> AtLeastZero(usage.requests - Cardinality(due)),
                     tokens |-> AtLeastZero(usage.tokens - TokensOf(due))]
        /\ UNCHANGED <<pruned, call, project, files, deletion, providerFaults>>

\* expireProjectProviderSettlements, of every overdue row at once.
Expire ==
    LET due == {c \in LiveReservations : settlement[c].overdue}
        unsent == {c \in due : Status(c) = "reserved"}
    IN  /\ due # {}
        /\ settlement' = [c \in Calls |->
             IF c \in due
             THEN [settlement[c] EXCEPT !.status = IF c \in unsent THEN "failed" ELSE "unknown"]
             ELSE settlement[c]]
        /\ usage' = [requests |-> AtLeastZero(usage.requests - Cardinality(unsent)),
                     tokens |-> AtLeastZero(usage.tokens - TokensOf(unsent))]
        /\ UNCHANGED <<pruned, call, project, files, deletion, providerFaults>>

\* pruneProjectProviderSettlements: thirty days, the longest window, are over.
Prune(c) ==
    /\ Status(c) \in {"settled", "unknown", "failed"}
    /\ CallAt(c, "end") /\ ~settlement[c].recent
    /\ settlement' = [settlement EXCEPT ![c] = NoSettlement]
    /\ pruned' = IF Charged(c)
                 THEN [requests |-> pruned.requests + 1,
                       tokens |-> pruned.tokens + Tokens(settlement[c])]
                 ELSE pruned
    /\ UNCHANGED <<usage, call, project, files, deletion, providerFaults>>

\* beginProjectDeletion: refused while reservations are live, and then a
\* deletion begun before is taken back.
BeginDeletion ==
    /\ deletion = "idle" /\ project # "deleted"
    /\ \/ LiveReservations # {} /\ project' = "active" /\ UNCHANGED deletion
       \/ LiveReservations = {} /\ project' = "deleting" /\ deletion' = "erase"
    /\ UNCHANGED <<settlement, usage, pruned, call, files, providerFaults>>

\* finishProject removes the tree ...
EraseProject ==
    /\ deletion = "erase"
    /\ files' = FALSE /\ deletion' = "finalize"
    /\ UNCHANGED <<settlement, usage, pruned, call, project, providerFaults>>

\* ... and then finalizeProjectDeletion the rows, unless it finds the Project not ready.
FinalizeProject ==
    /\ deletion = "finalize"
    /\ \/ /\ project = "deleting" /\ LiveReservations = {}
          /\ project' = "deleted"
          /\ settlement' = [c \in Calls |-> NoSettlement]
          /\ usage' = NoUsage /\ pruned' = NoUsage
       \/ /\ ~(project = "deleting" /\ LiveReservations = {})
          /\ UNCHANGED <<project, settlement, usage, pruned>>
    /\ deletion' = "idle"
    /\ UNCHANGED <<call, files, providerFaults>>

SettledCall(c) == (\E t \in Amounts : Reserve(c, t)) \/ Dispatch(c) \/ Fail(c) \/ Send(c)
                  \/ Answer(c) \/ Deliver(c) \/ Settle(c) \/ MarkUnknown(c)

ProviderNext ==
    \/ \E c \in Calls : SettledCall(c) \/ DispatchLost(c) \/ Overdue(c) \/ LeaveWindow(c) \/ Prune(c)
    \/ Expire \/ ProviderCrash
    \/ BeginDeletion \/ EraseProject \/ FinalizeProject

ProviderSpec == ProviderInit /\ [][ProviderNext]_providerVars

-----------------------------------------------------------------------------
ChargedCalls == {c \in Calls : Charged(c)}

\* The Project is charged each call once: its usage is what its rows, and those
\* deleted for their age, reserved or measured, whatever order expiry, late
\* answers, failures and crashes took; and no refund is cut off at zero.
UsageIsSum ==
    usage = [requests |-> Cardinality(ChargedCalls) + pruned.requests,
             tokens |-> TokensOf(ChargedCalls) + pruned.tokens]

\* A call reaches the provider only while it is charged, and stays charged: its
\* reservation is neither missing nor refunded, even if it expired under way.
SentIsCharged ==
    project # "deleted" =>
      \A c \in Calls : call[c].sent =>
        Status(c) \in {"dispatched", "delivered", "settled", "unknown"}

\* No order of reservations, refunds and expiries lets the Project make more
\* requests than its limit, or the endpoint's window hold more than its own.
WithinLimits == usage.requests <= RequestLimit /\ WindowUse <= WindowLimit

\* No request is under way in the books of a Project that is being deleted: one
\* is refused while the other has begun (reserveProjectProviderSettlement against
\* beginProjectDeletion).  A late answer may still find its row.
DeletionWaits ==
    project # "active" => \A c \in Calls : Status(c) \notin {"reserved", "dispatched"}

\* What an interrupted deletion leaves: a Project that users may work in has its files.
ActiveHasFiles == project = "active" => files
=============================================================================
