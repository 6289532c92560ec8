-------------------------- MODULE FileLibraryDeletion --------------------------
(***************************************************************************)
(* The deletion of one File Library                                        *)
(* (packages/application/src/fileLibraryService.ts, the recursive deletion *)
(* of its tree in recursiveDeletionService.ts, and the store transactions  *)
(* they call).                                                             *)
(*                                                                         *)
(* A request takes a receipt for its Idempotency-Key and marks the row     *)
(* deleting; the attempt that follows leases the physical deletion, moves  *)
(* the tree into a quarantine directory, takes its bytes off the Project,  *)
(* erases it, and removes the row.  Each step leaves something on disk or  *)
(* in the row that a later attempt goes on from.  An attempt may fail or   *)
(* die anywhere, and one that has lost its lease goes on until its next    *)
(* checkpoint.  Nothing but a further request resumes a deletion.          *)
(*                                                                         *)
(* Workers are API processes: locks in memory keep the attempts of one     *)
(* process apart, so a worker makes one attempt at a time.  Contents,      *)
(* inodes, authorization and audit events are left out.                    *)
(*                                                                         *)
(* An operator called "...Mutant" is a plausible mistake in the operator   *)
(* that follows it; it shows that some property notices that mistake.      *)
(***************************************************************************)
EXTENDS Naturals

CONSTANTS
    Workers,            \* API processes
    Keys,               \* Idempotency-Keys users send
    MaxDeletionFaults   \* bound on I/O errors, crashes and stalled heartbeats

VARIABLES
    library,        \* the row of file_libraries and whether a Task is bound to it
    disk,           \* where the tree is, and what the quarantine directory holds
    counted,        \* do the Project's accounted file bytes include the library?
    receipts,       \* task_idempotency_records of the requests
    attempt,        \* per worker: the request it serves
    deletionFaults  \* disturbances so far

deletionVars == <<library, disk, counted, receipts, attempt, deletionFaults>>

Nobody == "nobody"
Orphan == "orphan"   \* the token of an attempt that ended without releasing it

ASSUME DeletionConstants ==
    /\ MaxDeletionFaults \in Nat
    /\ Nobody \notin Workers \cup Keys /\ Orphan \notin Workers

\* "never" and "deleted" are both the absence of the row.
LibraryRows == [row: {"never", "active", "deleting", "deleted"}, bound: BOOLEAN,
                phase: {"none", "isolated", "removed"},
                claim: Workers \cup {Nobody, Orphan}, live: BOOLEAN]
Libraries == {l \in LibraryRows :
                /\ l.live => l.claim # Nobody
                /\ l.claim # Nobody \/ l.phase # "none" => l.row = "deleting"}

\* The quarantine holds the marker, its pending copy, and the tree as "entry".
Disks == {d \in [tree: {"home", "entry", "partly", "gone"}, dir: BOOLEAN,
                 pending: BOOLEAN, marker: BOOLEAN] :
            d.pending \/ d.marker \/ d.tree \in {"entry", "partly"} => d.dir}

Answers == {"none", "deleted", "bound", "missing"}
Receipts == {r \in [status: {"none", "in_progress", "completed"}, answer: Answers, live: BOOLEAN] :
               /\ r.live => r.status = "in_progress"
               /\ r.answer # "none" <=> r.status = "completed"}

DeletionPcs == {"claim", "find", "look", "mark", "pend", "publish", "rename", "measure",
                "account", "reopen", "erase", "removed", "unmark", "rmdir", "finalize"}
\* An attempt holds the claim of the receipt of its key until a later one takes it over.
Attempts == [pc: DeletionPcs \cup {"idle", "bound", "missing"},
             key: Keys \cup {Nobody}, lost: BOOLEAN]

Idle == [pc |-> "idle", key |-> Nobody, lost |-> FALSE]
NoReceipt == [status |-> "none", answer |-> "none", live |-> FALSE]

DeletionTypeOK ==
    /\ library \in Libraries /\ disk \in Disks /\ counted \in BOOLEAN
    /\ receipts \in [Keys -> Receipts] /\ attempt \in [Workers -> Attempts]
    /\ deletionFaults \in 0..MaxDeletionFaults

DeletionInit ==
    /\ library \in {[row |-> r, bound |-> FALSE, phase |-> "none", claim |-> Nobody,
                     live |-> FALSE] : r \in {"active", "never"}}
    /\ disk = [tree |-> IF library.row = "active" THEN "home" ELSE "gone",
               dir |-> FALSE, pending |-> FALSE, marker |-> FALSE]
    /\ counted = (library.row = "active")
    /\ receipts = [k \in Keys |-> NoReceipt]
    /\ attempt = [w \in Workers |-> Idle]
    /\ deletionFaults = 0

-----------------------------------------------------------------------------
Rowless == library.row \in {"never", "deleted"}
Owns(w) == library.row = "deleting" /\ library.claim = w
Holds(w) == Owns(w) /\ library.live
Entry == disk.tree \in {"entry", "partly"}
Exact == disk.dir /\ disk.marker /\ ~disk.pending

At(w, pc) == attempt[w].pc = pc
Goto(w, pc) == attempt' = [attempt EXCEPT ![w].pc = pc]

\* The release clears the token and leaves the lease.
AbandonMutant(w) ==
    /\ attempt' = [attempt EXCEPT ![w] = Idle]
    /\ library' = IF Owns(w) THEN [library EXCEPT !.claim = Nobody] ELSE library
    /\ UNCHANGED <<disk, counted, receipts, deletionFaults>>

\* The catch and finally of remove: the attempt ends and gives its claim back.
\* The release itself may fail, and the claim then waits for its lease to end.
Abandon(w) ==
    /\ attempt' = [attempt EXCEPT ![w] = Idle]
    /\ library' = IF Owns(w) THEN [library EXCEPT !.claim = Nobody, !.live = FALSE]
                  ELSE library
    /\ UNCHANGED <<disk, counted, receipts, deletionFaults>>

\* A step that either does what it says or ends the attempt.
Step(w, pc, possible, action) ==
    /\ At(w, pc)
    /\ \/ possible /\ action
       \/ ~possible /\ Abandon(w)

\* A Task may take a library whose deletion has begun.
BindMutant ==
    /\ library.row \in {"active", "deleting"} /\ ~library.bound
    /\ library' = [library EXCEPT !.bound = TRUE]
    /\ UNCHANGED <<disk, counted, receipts, attempt, deletionFaults>>

\* createTaskAtomically on this library, and the purge of the bound Task.
Bind ==
    /\ library.row = "active" /\ ~library.bound
    /\ library' = [library EXCEPT !.bound = TRUE]
    /\ UNCHANGED <<disk, counted, receipts, attempt, deletionFaults>>

Unbind ==
    /\ library.bound
    /\ library' = [library EXCEPT !.bound = FALSE]
    /\ UNCHANGED <<disk, counted, receipts, attempt, deletionFaults>>

Claimed == [status |-> "in_progress", answer |-> "none", live |-> TRUE]
Completed(answer) == [status |-> "completed", answer |-> answer, live |-> FALSE]

\* The attempt of w takes the receipt of k over from whoever held it.
Begin(w, k, pc) ==
    attempt' = [v \in Workers |-> IF v = w THEN [pc |-> pc, key |-> k, lost |-> FALSE]
                                  ELSE IF attempt[v].key = k THEN [attempt[v] EXCEPT !.key = Nobody]
                                  ELSE attempt[v]]

\* A library that is gone is not found, whoever deleted it.
RequestMutant(w, k) ==
    /\ At(w, "idle")
    /\ receipts[k].status # "completed" /\ ~receipts[k].live
    /\ LET pc == IF Rowless THEN "missing" ELSE IF library.bound THEN "bound" ELSE "claim"
       IN  /\ receipts' = [receipts EXCEPT ![k] = Claimed]
           /\ Begin(w, k, pc)
           /\ library' = IF pc = "claim" THEN [library EXCEPT !.row = "deleting"] ELSE library
    /\ UNCHANGED <<disk, counted, deletionFaults>>

\* beginFileLibraryDeletion.  A completed receipt is replayed and a live one of
\* another request refused; neither changes anything.
Request(w, k) ==
    /\ At(w, "idle")
    /\ receipts[k].status # "completed" /\ ~receipts[k].live
    /\ LET tombstone == \E j \in Keys : receipts[j].answer = "deleted"
           pc == IF Rowless THEN "missing" ELSE IF library.bound THEN "bound" ELSE "claim"
       IN  IF Rowless /\ tombstone
           THEN /\ receipts' = [receipts EXCEPT ![k] = Completed("deleted")]
                /\ UNCHANGED <<library, attempt>>
           ELSE /\ receipts' = [receipts EXCEPT ![k] = Claimed]
                /\ Begin(w, k, pc)
                /\ library' = IF pc = "claim" THEN [library EXCEPT !.row = "deleting"]
                              ELSE library
    /\ UNCHANGED <<disk, counted, deletionFaults>>

\* completeDeletionReceipt for an answer of 409 or 404.
Reject(w) ==
    /\ attempt[w].pc \in {"bound", "missing"}
    /\ LET k == attempt[w].key
       IN  receipts' = IF k # Nobody /\ receipts[k].status = "in_progress"
                       THEN [receipts EXCEPT ![k] = Completed(attempt[w].pc)]
                       ELSE receipts
    /\ attempt' = [attempt EXCEPT ![w] = Idle]
    /\ UNCHANGED <<library, disk, counted, deletionFaults>>

\* A claim left behind is never taken over.
ClaimPhysicalMutant(w) ==
    Step(w, "claim", library.row = "deleting" /\ library.claim = Nobody,
         /\ library' = [library EXCEPT !.claim = w, !.live = TRUE]
         /\ Goto(w, "find")
         /\ UNCHANGED <<disk, counted, receipts, deletionFaults>>)

\* claimFileLibraryDeletionOperation.
ClaimPhysical(w) ==
    Step(w, "claim", library.row = "deleting" /\ ~(library.claim # Nobody /\ library.live),
         /\ library' = [library EXCEPT !.claim = w, !.live = TRUE]
         /\ Goto(w, "find")
         /\ UNCHANGED <<disk, counted, receipts, deletionFaults>>)

\* A deletion found isolated goes straight to the removal.
FindMutant(w) ==
    /\ At(w, "find")
    /\ Goto(w, IF Owns(w) /\ library.phase # "none" THEN "reopen" ELSE "look")
    /\ UNCHANGED <<library, disk, counted, receipts, deletionFaults>>

\* isolate: findFileLibraryDeletionOperation reads the phase under our token only.
Find(w) ==
    /\ At(w, "find")
    /\ Goto(w, IF Owns(w) /\ library.phase # "none" THEN "account" ELSE "look")
    /\ UNCHANGED <<library, disk, counted, receipts, deletionFaults>>

\* openQuarantine without create, and then the source.
Look(w) ==
    Step(w, "look",
         /\ ~attempt[w].lost
         /\ disk.dir => ~(disk.marker /\ disk.pending) /\ (Entry => disk.marker)
         /\ Entry \/ disk.tree = "home",
         /\ Goto(w, IF Entry THEN "measure" ELSE "mark")
         /\ UNCHANGED <<library, disk, counted, receipts, deletionFaults>>)

\* openQuarantine with create: the directory, and the state of its marker.
MakeQuarantine(w) ==
    Step(w, "mark", (~disk.marker \/ ~disk.pending) /\ (Entry => disk.marker),
         /\ disk' = [disk EXCEPT !.dir = TRUE]
         /\ Goto(w, IF Entry THEN "measure" ELSE IF disk.marker THEN "rename" ELSE "pend")
         /\ UNCHANGED <<library, counted, receipts, deletionFaults>>)

\* publishOperationMarker writes the pending marker (a stale one is unlinked) ...
WritePending(w) ==
    Step(w, "pend", disk.dir,
         /\ disk' = [disk EXCEPT !.pending = TRUE]
         /\ Goto(w, "publish")
         /\ UNCHANGED <<library, counted, receipts, deletionFaults>>)

\* ... and renames it to the marker.
Publish(w) ==
    Step(w, "publish", disk.dir /\ disk.pending,
         /\ disk' = [disk EXCEPT !.pending = FALSE, !.marker = TRUE]
         /\ Goto(w, IF Entry THEN "measure" ELSE "rename")
         /\ UNCHANGED <<library, counted, receipts, deletionFaults>>)

Rename(w) ==
    Step(w, "rename", ~attempt[w].lost /\ disk.dir /\ disk.tree = "home",
         /\ disk' = [disk EXCEPT !.tree = "entry"]
         /\ Goto(w, "measure")
         /\ UNCHANGED <<library, counted, receipts, deletionFaults>>)

\* persistQuarantinedState: measure the entry, and persist the phase while the
\* claim is held; a size that changed since an earlier persist is refused.
PersistIsolated(w) ==
    Step(w, "measure",
         /\ ~attempt[w].lost /\ Entry /\ Holds(w)
         /\ library.phase = "none" \/ (library.phase = "isolated" /\ disk.tree = "entry"),
         /\ library' = [library EXCEPT !.phase = "isolated"]
         /\ Goto(w, "account")
         /\ UNCHANGED <<disk, counted, receipts, deletionFaults>>)

\* afterIsolation: the Project's bytes become what its active libraries hold.
Reconcile(w) ==
    Step(w, "account", ~attempt[w].lost,
         /\ counted' = FALSE
         /\ Goto(w, "reopen")
         /\ UNCHANGED <<library, disk, receipts, deletionFaults>>)

\* removeIsolated: read the phase again and open the quarantine.
Reopen(w) ==
    Step(w, "reopen",
         /\ ~attempt[w].lost /\ Owns(w)
         /\ \/ library.phase = "isolated" /\ Exact
            \/ /\ library.phase = "removed"
               /\ disk.dir => ~(disk.marker /\ disk.pending) /\ (Entry => disk.marker),
         /\ Goto(w, IF library.phase = "isolated"
                    THEN IF Entry THEN "erase" ELSE "removed"
                    ELSE IF disk.dir THEN "unmark" ELSE "rmdir")
         /\ UNCHANGED <<library, disk, counted, receipts, deletionFaults>>)

\* removeEntry: child by child, a checkpoint before each, the tree's root last.
Erase(w) ==
    Step(w, "erase", ~attempt[w].lost /\ Entry,
         /\ disk' = [disk EXCEPT !.tree = IF @ = "entry" THEN "partly" ELSE "gone"]
         /\ Goto(w, IF disk.tree = "entry" THEN "erase" ELSE "removed")
         /\ UNCHANGED <<library, counted, receipts, deletionFaults>>)

PersistRemoved(w) ==
    Step(w, "removed", ~attempt[w].lost /\ Holds(w) /\ library.phase # "none",
         /\ library' = [library EXCEPT !.phase = "removed"]
         /\ Goto(w, "unmark")
         /\ UNCHANGED <<disk, counted, receipts, deletionFaults>>)

RemoveMarker(w) ==
    Step(w, "unmark", ~attempt[w].lost,
         /\ disk' = [disk EXCEPT !.marker = FALSE, !.pending = FALSE]
         /\ Goto(w, "rmdir")
         /\ UNCHANGED <<library, counted, receipts, deletionFaults>>)

\* removeEmptyOperationDirectory.
RemoveDir(w) ==
    Step(w, "rmdir", disk.dir => ~disk.marker /\ ~disk.pending /\ ~Entry,
         /\ disk' = [disk EXCEPT !.dir = FALSE]
         /\ Goto(w, "finalize")
         /\ UNCHANGED <<library, counted, receipts, deletionFaults>>)

\* Every receipt of the library is completed, the answered ones too.
FinalizeMutant(w) ==
    Step(w, "finalize",
         ~attempt[w].lost /\ Holds(w) /\ library.phase = "removed" /\ ~library.bound,
         /\ library' = [library EXCEPT !.row = "deleted", !.phase = "none",
                                       !.claim = Nobody, !.live = FALSE]
         /\ receipts' = [k \in Keys |-> IF receipts[k].status # "none"
                                        THEN Completed("deleted")
                                        ELSE receipts[k]]
         /\ attempt' = [attempt EXCEPT ![w] = Idle]
         /\ UNCHANGED <<disk, counted, deletionFaults>>)

\* The heartbeat's finalize and finalizeFileLibraryDeletion: the row goes, and
\* every request that still waits for this library is answered.
Finalize(w) ==
    Step(w, "finalize",
         ~attempt[w].lost /\ Holds(w) /\ library.phase = "removed" /\ ~library.bound,
         /\ library' = [library EXCEPT !.row = "deleted", !.phase = "none",
                                       !.claim = Nobody, !.live = FALSE]
         /\ receipts' = [k \in Keys |-> IF receipts[k].status = "in_progress"
                                        THEN Completed("deleted")
                                        ELSE receipts[k]]
         /\ attempt' = [attempt EXCEPT ![w] = Idle]
         /\ UNCHANGED <<disk, counted, deletionFaults>>)

Working(w) == ~At(w, "idle")

\* renewOnce finds the claim gone or expired; the next checkpoint throws.
NoticeLoss(w) ==
    /\ Working(w) /\ ~attempt[w].lost
    /\ attempt[w].pc \notin {"bound", "missing", "claim"}
    /\ ~Holds(w)
    /\ attempt' = [attempt EXCEPT ![w].lost = TRUE]
    /\ UNCHANGED <<library, disk, counted, receipts, deletionFaults>>

Disturb == deletionFaults < MaxDeletionFaults /\ deletionFaults' = deletionFaults + 1

\* An error of the file system or the store, the release's included, or the end
\* of the process: the claim stays behind with nobody to give it back.
Die(w) ==
    /\ Working(w) /\ Disturb
    /\ attempt' = [attempt EXCEPT ![w] = Idle]
    /\ library' = IF Owns(w) THEN [library EXCEPT !.claim = Orphan] ELSE library
    /\ UNCHANGED <<disk, counted, receipts>>

\* The lease ends while its owner works: its heartbeats stalled.
Stall ==
    /\ library.claim \in Workers /\ library.live /\ Disturb
    /\ library' = [library EXCEPT !.live = FALSE]
    /\ UNCHANGED <<disk, counted, receipts, attempt>>

ExpireOrphan ==
    /\ library.claim = Orphan /\ library.live
    /\ library' = [library EXCEPT !.live = FALSE]
    /\ UNCHANGED <<disk, counted, receipts, attempt, deletionFaults>>

\* A receipt's 30 seconds are over; nothing renews them while the attempt works.
ExpireReceipt(k) ==
    /\ receipts[k].status = "in_progress" /\ receipts[k].live
    /\ receipts' = [receipts EXCEPT ![k].live = FALSE]
    /\ UNCHANGED <<library, disk, counted, attempt, deletionFaults>>

Isolate(w) == Find(w) \/ Look(w) \/ MakeQuarantine(w) \/ WritePending(w)
              \/ Publish(w) \/ Rename(w) \/ PersistIsolated(w)
RemoveIsolated(w) == Reopen(w) \/ Erase(w) \/ PersistRemoved(w)
                     \/ RemoveMarker(w) \/ RemoveDir(w)
Proceed(w) == Reject(w) \/ ClaimPhysical(w) \/ Isolate(w) \/ Reconcile(w)
              \/ RemoveIsolated(w) \/ Finalize(w)

DeletionNext ==
    \/ Bind \/ Unbind \/ Stall \/ ExpireOrphan
    \/ \E w \in Workers : Proceed(w) \/ NoticeLoss(w) \/ Die(w)
                          \/ \E k \in Keys : Request(w, k)
    \/ \E k \in Keys : ExpireReceipt(k)

DeletionSpec == DeletionInit /\ [][DeletionNext]_deletionVars

-----------------------------------------------------------------------------
\* A Task whose files a library holds keeps them: while a Task is bound, the
\* library is active and its tree untouched, whatever a deletion that started
\* before, or is served meanwhile, is doing (createTaskAtomically against
\* beginFileLibraryDeletion).
BoundLibraryIntact == library.bound => library.row = "active" /\ disk.tree = "home"

\* The row goes last: no step of an attempt, resumed or stale, touches the tree
\* before the row says deleting, and when the row is gone the tree is erased and
\* its bytes are off the Project's account (finalizeFileLibraryDeletion).
FinalizedIsClean ==
    /\ library.row = "active" => disk.tree = "home"
    /\ library.row = "deleted" => disk.tree = "gone" /\ ~counted

\* What a request was told is true: deleted means the row is gone, and a user
\* whose library was deleted is never told that it does not exist, however his
\* request, its retries and its receipt interleaved with the deletion.
AnswersTrue ==
    \A k \in Keys : /\ receipts[k].answer = "deleted" => library.row = "deleted"
                    /\ receipts[k].answer = "missing" => library.row = "never"

\* A receipt is answered once: no later attempt under its key, and no deletion
\* that ends after it, changes what it replays.
AnswerKept ==
    [][\A k \in Keys : receipts[k].status = "completed" => receipts'[k] = receipts[k]]_deletionVars

\* Both copies of the marker: every attempt from here on refuses the directory.
TwoMarkers == disk.marker /\ disk.pending

\* A deletion that is begun is finished, whatever attempt it is resumed from,
\* while its request is retried.  The one way out is TwoMarkers, which takes two
\* processes that publish the marker at once and the end of one between.
DeletionEnds == (library.row = "deleting") ~> (library.row = "deleted" \/ TwoMarkers)

\* Users go on repeating a request that is not answered, under one key or another;
\* each process runs; leases end.  An attempt need not notice that it lost its own.
DeletionFairness ==
    /\ \A w \in Workers : WF_deletionVars(Proceed(w))
    /\ WF_deletionVars(\E w \in Workers, k \in Keys : Request(w, k))
    /\ WF_deletionVars(\E k \in Keys : ExpireReceipt(k))
    /\ WF_deletionVars(ExpireOrphan)

DeletionFairSpec == DeletionSpec /\ DeletionFairness
=============================================================================
