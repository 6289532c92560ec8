----------------------- MODULE FileLibraryDeletion_proofs -----------------------
(***************************************************************************)
(* What holds of the deletion of a File Library for any number of API      *)
(* processes, Idempotency-Keys and disturbances.                           *)
(***************************************************************************)
EXTENDS FileLibraryDeletion, TLAPS

\* An attempt works on a library whose deletion has begun.
WorkNeedsDeleting ==
    \A w \in Workers : attempt[w].pc \in DeletionPcs => library.row \in {"deleting", "deleted"}

\* What the row says of the tree is so, and what an attempt is about to make it say.
PhaseTells ==
    /\ library.phase # "none" => disk.tree # "home"
    /\ library.phase = "removed" => disk.tree = "gone"
    /\ \A w \in Workers : attempt[w].pc = "removed" => disk.tree = "gone"

\* Past the reconciliation the library's bytes are off the Project's account.
AccountedFirst ==
    \A w \in Workers :
        attempt[w].pc \in {"reopen", "erase", "removed", "unmark", "rmdir", "finalize"} => ~counted

\* A deletion under way has a receipt that nobody is about to answer otherwise,
\* so that its end leaves an answer behind.
Awaited ==
    library.row = "deleting" =>
        \E k \in Keys : /\ receipts[k].status = "in_progress"
                        /\ \A w \in Workers :
                             attempt[w].key = k => attempt[w].pc \notin {"bound", "missing"}

Remembered == library.row = "deleted" => \E k \in Keys : receipts[k].answer = "deleted"

MissingIsNever == \A w \in Workers : attempt[w].pc = "missing" => library.row = "never"

\* The inductive invariant.
DeletionInv ==
    /\ DeletionTypeOK
    /\ WorkNeedsDeleting /\ BoundLibraryIntact
    /\ PhaseTells /\ AccountedFirst /\ FinalizedIsClean
    /\ Awaited /\ Remembered /\ MissingIsNever /\ AnswersTrue

\* The invariant holds in the beginning.
LEMMA DeletionInvInit == ASSUME DeletionInit PROVE DeletionInv
<1>1. library \in Libraries /\ disk \in Disks /\ counted \in BOOLEAN
  <2>1. PICK r \in {"active", "never"} :
          library = [row |-> r, bound |-> FALSE, phase |-> "none", claim |-> Nobody, live |-> FALSE]
    BY DEF DeletionInit
  <2>2. library \in Libraries
    BY <2>1 DEF Libraries, LibraryRows
  <2>3. disk \in Disks /\ counted \in BOOLEAN
    BY <2>1 DEF DeletionInit, Disks
  <2> QED
    BY <2>2, <2>3
<1>2. receipts \in [Keys -> Receipts] /\ attempt \in [Workers -> Attempts]
  BY DEF DeletionInit, Receipts, Answers, NoReceipt, Attempts, Idle
<1>3. deletionFaults \in 0..MaxDeletionFaults
  BY DeletionConstants DEF DeletionInit
<1>4. /\ library.row # "deleted" /\ library.row # "deleting"
      /\ library.row = "active" => disk.tree = "home"
      /\ library.phase = "none" /\ ~library.bound
  BY DEF DeletionInit
<1>5. /\ \A w \in Workers : attempt[w].pc = "idle"
      /\ \A k \in Keys : receipts[k].answer = "none"
  BY DEF DeletionInit, Idle, NoReceipt
<1> QED
  BY <1>1, <1>2, <1>3, <1>4, <1>5
     DEF DeletionInv, DeletionTypeOK, WorkNeedsDeleting, BoundLibraryIntact, PhaseTells, DeletionPcs,
         AccountedFirst, FinalizedIsClean, Awaited, Remembered, MissingIsNever, AnswersTrue

-----------------------------------------------------------------------------
(* The type invariant.                                                       *)

\* A failed attempt that gives its claim back keeps the types.
LEMMA AbandonTyped == ASSUME DeletionTypeOK, NEW w \in Workers, Abandon(w) PROVE DeletionTypeOK'
BY DeletionConstants
   DEF Abandon, Owns, DeletionTypeOK, Libraries, LibraryRows, Attempts, Idle, DeletionPcs

\* So does going on to another label.
LEMMA GotoTyped ==
    ASSUME DeletionTypeOK, NEW w \in Workers, NEW pc \in DeletionPcs, Goto(w, pc)
    PROVE  attempt' \in [Workers -> Attempts]
BY DEF Goto, DeletionTypeOK, Attempts

\* The types are inductive.
LEMMA DeletionTypeStep == ASSUME DeletionTypeOK, [DeletionNext]_deletionVars PROVE DeletionTypeOK'
<1> USE DEF DeletionTypeOK
<1>1. CASE UNCHANGED deletionVars
  BY <1>1 DEF deletionVars
<1>2. CASE Bind \/ Unbind \/ ExpireOrphan
  BY <1>2 DEF Bind, Unbind, ExpireOrphan, Libraries, LibraryRows
<1>12. CASE Stall
  <2>1. library' \in Libraries
    BY <1>12 DEF Stall, Libraries, LibraryRows
  <2>2. deletionFaults' \in 0..MaxDeletionFaults
    BY <1>12, DeletionConstants DEF Stall, Disturb
  <2> QED
    BY <1>12, <2>1, <2>2 DEF Stall
<1>3. ASSUME NEW k \in Keys, ExpireReceipt(k) PROVE DeletionTypeOK'
  BY <1>3 DEF ExpireReceipt, Receipts
<1>4. ASSUME NEW w \in Workers, NEW k \in Keys, Request(w, k) PROVE DeletionTypeOK'
  <2>1. attempt' \in [Workers -> Attempts]
    <3>1. ASSUME NEW pc \in DeletionPcs \cup {"bound", "missing"}, Begin(w, k, pc)
          PROVE  attempt' \in [Workers -> Attempts]
      BY <3>1 DEF Begin, Attempts
    <3> QED
      BY <1>4, <3>1 DEF Request, DeletionPcs
  <2>2. receipts' \in [Keys -> Receipts]
    <3>1. Claimed \in Receipts /\ Completed("deleted") \in Receipts
      BY DEF Claimed, Completed, Receipts, Answers
    <3> QED
      BY <1>4, <3>1 DEF Request
  <2>3. library' \in Libraries
    BY <1>4 DEF Request, Rowless, Libraries, LibraryRows
  <2> QED
    BY <1>4, <2>1, <2>2, <2>3 DEF Request
<1>5. ASSUME NEW w \in Workers, Reject(w) PROVE DeletionTypeOK'
  BY <1>5 DEF Reject, Completed, Receipts, Answers, Attempts, Idle
<1>6. ASSUME NEW w \in Workers, NoticeLoss(w) PROVE DeletionTypeOK'
  BY <1>6 DEF NoticeLoss, Attempts
<1>13. ASSUME NEW w \in Workers, Die(w) PROVE DeletionTypeOK'
  <2>1. library' \in Libraries
    BY <1>13 DEF Die, Owns, Libraries, LibraryRows, Orphan, Nobody
  <2>2. deletionFaults' \in 0..MaxDeletionFaults
    BY <1>13, DeletionConstants DEF Die, Disturb
  <2> QED
    BY <1>13, <2>1, <2>2 DEF Die, Attempts, Idle
<1>7. ASSUME NEW w \in Workers, ClaimPhysical(w) PROVE DeletionTypeOK'
  <2>1. CASE Abandon(w)
    BY <2>1, AbandonTyped
  <2>2. CASE /\ library.row = "deleting" /\ Goto(w, "find")
             /\ library' = [library EXCEPT !.claim = w, !.live = TRUE]
             /\ UNCHANGED <<disk, counted, receipts, deletionFaults>>
    <3>1. library' \in Libraries
      BY <2>2, DeletionConstants DEF Libraries, LibraryRows
    <3> QED
      BY <2>2, <3>1, GotoTyped DEF DeletionPcs
  <2> QED
    BY <1>7, <2>1, <2>2 DEF ClaimPhysical, Step
<1>14. ASSUME NEW w \in Workers, Find(w) \/ Look(w) PROVE DeletionTypeOK'
  BY <1>14, AbandonTyped, GotoTyped DEF Find, Look, Step, DeletionPcs
<1>8. ASSUME NEW w \in Workers, MakeQuarantine(w) \/ WritePending(w) \/ Publish(w) \/ Rename(w)
      PROVE  DeletionTypeOK'
  BY <1>8, AbandonTyped, GotoTyped
     DEF MakeQuarantine, WritePending, Publish, Rename, Step, DeletionPcs, Disks
<1>9. ASSUME NEW w \in Workers, PersistIsolated(w) \/ Reconcile(w) \/ Reopen(w) \/ PersistRemoved(w)
      PROVE  DeletionTypeOK'
  BY <1>9, AbandonTyped, GotoTyped, DeletionConstants
     DEF PersistIsolated, Reconcile, Reopen, PersistRemoved, Step, Holds, Owns, DeletionPcs,
         Libraries, LibraryRows
<1>10. ASSUME NEW w \in Workers, Erase(w) \/ RemoveMarker(w) \/ RemoveDir(w) PROVE DeletionTypeOK'
  BY <1>10, AbandonTyped, GotoTyped
     DEF Erase, RemoveMarker, RemoveDir, Step, Entry, DeletionPcs, Disks
<1>11. ASSUME NEW w \in Workers, Finalize(w) PROVE DeletionTypeOK'
  <2>1. CASE Abandon(w)
    BY <2>1, AbandonTyped
  <2>2. CASE ~Abandon(w)
    <3>1. Completed("deleted") \in Receipts /\ Idle \in Attempts
      BY DEF Completed, Receipts, Answers, Attempts, Idle
    <3>2. library' \in Libraries
      BY <1>11, <2>2 DEF Finalize, Step, Libraries, LibraryRows
    <3> QED
      BY <1>11, <2>2, <3>1, <3>2 DEF Finalize, Step
  <2> QED
    BY <2>1, <2>2
<1> QED
  BY <1>1, <1>2, <1>3, <1>4, <1>5, <1>6, <1>7, <1>8, <1>9, <1>10, <1>11, <1>12,
     <1>13, <1>14
     DEF DeletionNext, Proceed, Isolate, RemoveIsolated

\* Rows, directories, receipts and attempts stay what their types say.
THEOREM DeletionTyped == DeletionSpec => []DeletionTypeOK
<1>1. DeletionInit => DeletionTypeOK
  BY DeletionInvInit DEF DeletionInv
<1> QED
  BY <1>1, DeletionTypeStep, PTL DEF DeletionSpec

-----------------------------------------------------------------------------
(* The inductive invariant: what an attempt's steps have in common.          *)

\* A failed attempt that gives its claim back keeps the invariant.
LEMMA AbandonKeeps == ASSUME DeletionInv, NEW w \in Workers, Abandon(w) PROVE DeletionInv'
<1>1. DeletionTypeOK'
  BY AbandonTyped DEF DeletionInv
<1>2. /\ library'.row = library.row /\ library'.bound = library.bound
      /\ library'.phase = library.phase
  BY DEF Abandon, DeletionInv, DeletionTypeOK, Libraries, LibraryRows
<1>3. /\ attempt'[w] = Idle
      /\ \A v \in Workers : v # w => attempt'[v] = attempt[v]
  BY DEF Abandon, DeletionInv, DeletionTypeOK
<1>4. Awaited'
  <2> SUFFICES ASSUME library.row = "deleting" PROVE Awaited'
    BY <1>2 DEF Awaited
  <2>1. PICK k \in Keys : /\ receipts[k].status = "in_progress"
                          /\ \A v \in Workers :
                               attempt[v].key = k => attempt[v].pc \notin {"bound", "missing"}
    BY DEF DeletionInv, Awaited
  <2> QED
    BY <2>1, <1>3 DEF Awaited, Abandon, Idle
<1>5. WorkNeedsDeleting' /\ MissingIsNever' /\ AccountedFirst' /\ PhaseTells'
  BY <1>2, <1>3 DEF Abandon, DeletionInv, WorkNeedsDeleting, MissingIsNever, AccountedFirst,
                    PhaseTells, Idle, DeletionPcs
<1>6. BoundLibraryIntact' /\ FinalizedIsClean' /\ Remembered' /\ AnswersTrue'
  BY <1>2 DEF Abandon, DeletionInv, BoundLibraryIntact, FinalizedIsClean, Remembered, AnswersTrue
<1> QED
  BY <1>1, <1>4, <1>5, <1>6 DEF DeletionInv

\* An attempt that goes on leaves row, binding and receipts alone.
LEMMA GoingOn ==
    ASSUME DeletionInv, NEW w \in Workers, NEW pc \in DeletionPcs,
           attempt[w].pc \in DeletionPcs, Goto(w, pc), receipts' = receipts,
           library'.row = library.row, library'.bound = library.bound
    PROVE  WorkNeedsDeleting' /\ Awaited' /\ Remembered' /\ MissingIsNever' /\ AnswersTrue'
<1>1. /\ attempt'[w].pc = pc /\ attempt'[w].key = attempt[w].key
      /\ \A v \in Workers : v # w => attempt'[v] = attempt[v]
  BY DEF Goto, DeletionInv, DeletionTypeOK, Attempts
<1>2. pc \notin {"bound", "missing"}
  BY DEF DeletionPcs
<1>3. Awaited'
  <2> SUFFICES ASSUME library.row = "deleting" PROVE Awaited'
    BY DEF Awaited
  <2>1. PICK k \in Keys : /\ receipts[k].status = "in_progress"
                          /\ \A v \in Workers :
                               attempt[v].key = k => attempt[v].pc \notin {"bound", "missing"}
    BY DEF DeletionInv, Awaited
  <2> QED
    BY <2>1, <1>1, <1>2 DEF Awaited
<1> QED
  BY <1>1, <1>2, <1>3 DEF DeletionInv, WorkNeedsDeleting, Remembered, MissingIsNever, AnswersTrue

\* ... and what it knows of tree and account it may rely on.
LEMMA Knowing ==
    ASSUME DeletionInv, DeletionTypeOK', NEW w \in Workers, NEW pc \in DeletionPcs,
           attempt[w].pc \in DeletionPcs, Goto(w, pc), receipts' = receipts,
           library'.row = library.row, library'.bound = library.bound,
           disk'.tree = disk.tree, counted' = counted,
           library'.phase = library.phase,
           pc = "removed" => disk.tree = "gone",
           pc \in {"reopen", "erase", "removed", "unmark", "rmdir", "finalize"} => ~counted
    PROVE  DeletionInv'
<1>1. /\ attempt'[w].pc = pc
      /\ \A v \in Workers : v # w => attempt'[v] = attempt[v]
  BY DEF Goto, DeletionInv, DeletionTypeOK, Attempts
<1>2. PhaseTells' /\ AccountedFirst'
  BY <1>1 DEF DeletionInv, PhaseTells, AccountedFirst
<1>3. BoundLibraryIntact' /\ FinalizedIsClean'
  BY DEF DeletionInv, BoundLibraryIntact, FinalizedIsClean
<1> QED
  BY <1>2, <1>3, GoingOn DEF DeletionInv

-----------------------------------------------------------------------------
(* The inductive invariant: the steps.                                       *)

\* The steps of an attempt that move neither the tree nor its bytes nor the phase.
LEMMA Preparing ==
    ASSUME DeletionInv, NEW w \in Workers,
           \/ ClaimPhysical(w) \/ Find(w) \/ Look(w) \/ MakeQuarantine(w)
           \/ WritePending(w) \/ Publish(w) \/ Reopen(w) \/ RemoveMarker(w) \/ RemoveDir(w)
    PROVE  DeletionInv'
<1>1. CASE Abandon(w)
  BY <1>1, AbandonKeeps
<1>2. CASE ~Abandon(w)
  <2>1. DeletionTypeOK'
    BY DeletionTypeStep DEF DeletionInv, DeletionNext, Proceed, Isolate, RemoveIsolated
  <2>2. ASSUME NEW pc \in DeletionPcs, Goto(w, pc), attempt[w].pc \in DeletionPcs, receipts' = receipts,
               library'.row = library.row, library'.bound = library.bound,
               library'.phase = library.phase,
               disk'.tree = disk.tree, counted' = counted,
               pc = "removed" => disk.tree = "gone",
               pc \in {"reopen", "erase", "removed", "unmark", "rmdir", "finalize"} => ~counted
        PROVE  DeletionInv'
    BY <2>1, <2>2, Knowing
  <2>3. /\ [library EXCEPT !.claim = w, !.live = TRUE].row = library.row
        /\ [library EXCEPT !.claim = w, !.live = TRUE].bound = library.bound
        /\ [library EXCEPT !.claim = w, !.live = TRUE].phase = library.phase
    BY DEF DeletionInv, DeletionTypeOK, Libraries, LibraryRows
  <2>4. /\ [disk EXCEPT !.dir = TRUE].tree = disk.tree
        /\ [disk EXCEPT !.dir = FALSE].tree = disk.tree
        /\ [disk EXCEPT !.pending = TRUE].tree = disk.tree
        /\ [disk EXCEPT !.pending = FALSE, !.marker = TRUE].tree = disk.tree
        /\ [disk EXCEPT !.marker = FALSE, !.pending = FALSE].tree = disk.tree
    BY DEF DeletionInv, DeletionTypeOK, Disks
  <2>5. CASE ClaimPhysical(w) \/ Find(w) \/ Look(w)
    BY <1>2, <2>2, <2>3, <2>5 DEF ClaimPhysical, Find, Look, Step, At, DeletionPcs
  <2>6. CASE MakeQuarantine(w) \/ WritePending(w) \/ Publish(w)
    BY <1>2, <2>2, <2>4, <2>6 DEF MakeQuarantine, WritePending, Publish, Step, At, DeletionPcs
  <2>7. CASE RemoveMarker(w) \/ RemoveDir(w)
    <3>1. ~counted
      BY <1>2, <2>7 DEF DeletionInv, AccountedFirst, RemoveMarker, RemoveDir, Step, At
    <3> QED
      BY <1>2, <2>2, <2>4, <2>7, <3>1 DEF RemoveMarker, RemoveDir, Step, At, DeletionPcs
  <2>8. CASE Reopen(w)
    <3>1. ~counted
      BY <1>2, <2>8 DEF DeletionInv, AccountedFirst, Reopen, Step, At
    <3>2. library.phase = "isolated" /\ ~Entry => disk.tree = "gone"
      BY DEF DeletionInv, PhaseTells, Entry, DeletionTypeOK, Disks
    <3> QED
      BY <1>2, <2>2, <2>8, <3>1, <3>2 DEF Reopen, Step, At, DeletionPcs
  <2> QED
    BY <2>5, <2>6, <2>7, <2>8
<1> QED
  BY <1>1, <1>2

\* The steps that do.
LEMMA Doing ==
    ASSUME DeletionInv, NEW w \in Workers,
           Rename(w) \/ PersistIsolated(w) \/ Reconcile(w) \/ Erase(w) \/ PersistRemoved(w)
    PROVE  DeletionInv'
<1>1. CASE Abandon(w)
  BY <1>1, AbandonKeeps
<1>2. CASE ~Abandon(w)
  <2> USE <1>2
  <2>1. DeletionTypeOK'
    BY DeletionTypeStep DEF DeletionInv, DeletionNext, Proceed, Isolate, RemoveIsolated
  <2>2. ASSUME NEW pc \in DeletionPcs, Goto(w, pc), attempt[w].pc \in DeletionPcs, receipts' = receipts,
               library'.row = library.row, library'.bound = library.bound,
               PhaseTells', AccountedFirst', BoundLibraryIntact', FinalizedIsClean'
        PROVE  DeletionInv'
    BY <2>1, <2>2, GoingOn DEF DeletionInv
  <2>3. ASSUME NEW pc \in DeletionPcs, Goto(w, pc)
        PROVE  /\ attempt'[w].pc = pc
               /\ \A v \in Workers : v # w => attempt'[v] = attempt[v]
    BY <2>3 DEF Goto, DeletionInv, DeletionTypeOK, Attempts
  <2>4. CASE Rename(w)
    <3>1. /\ disk.tree = "home" /\ disk'.tree = "entry"
          /\ UNCHANGED <<library, counted, receipts>> /\ Goto(w, "measure")
          /\ attempt[w].pc = "rename"
      BY <2>4 DEF Rename, Step, At, DeletionInv, DeletionTypeOK, Disks
    <3>2. library.row \in {"deleting", "deleted"}
      BY <3>1 DEF DeletionInv, WorkNeedsDeleting, DeletionPcs
    <3>3. PhaseTells' /\ AccountedFirst'
      BY <3>1, <2>3 DEF DeletionInv, PhaseTells, AccountedFirst, DeletionPcs
    <3>4. BoundLibraryIntact' /\ FinalizedIsClean'
      BY <3>1, <3>2 DEF DeletionInv, BoundLibraryIntact, FinalizedIsClean
    <3> QED
      BY <3>1, <3>3, <3>4, <2>2 DEF DeletionPcs
  <2>5. CASE PersistIsolated(w)
    <3>1. /\ Entry /\ library' = [library EXCEPT !.phase = "isolated"]
          /\ UNCHANGED <<disk, counted, receipts>> /\ Goto(w, "account")
          /\ attempt[w].pc = "measure"
      BY <2>5 DEF PersistIsolated, Step, At
    <3>2. /\ library'.row = library.row /\ library'.bound = library.bound
          /\ library'.phase = "isolated"
      BY <3>1 DEF DeletionInv, DeletionTypeOK, Libraries, LibraryRows
    <3>3. PhaseTells' /\ AccountedFirst'
      BY <3>1, <3>2, <2>3 DEF DeletionInv, PhaseTells, AccountedFirst, DeletionPcs, Entry
    <3>4. BoundLibraryIntact' /\ FinalizedIsClean'
      BY <3>1, <3>2 DEF DeletionInv, BoundLibraryIntact, FinalizedIsClean
    <3> QED
      BY <3>1, <3>2, <3>3, <3>4, <2>2 DEF DeletionPcs
  <2>6. CASE Reconcile(w)
    <3>1. /\ ~counted' /\ UNCHANGED <<library, disk, receipts>> /\ Goto(w, "reopen")
          /\ attempt[w].pc = "account"
      BY <2>6 DEF Reconcile, Step, At
    <3>2. PhaseTells' /\ AccountedFirst' /\ BoundLibraryIntact' /\ FinalizedIsClean'
      BY <3>1, <2>3 DEF DeletionInv, PhaseTells, AccountedFirst, BoundLibraryIntact,
                        FinalizedIsClean, DeletionPcs
    <3> QED
      BY <3>1, <3>2, <2>2 DEF DeletionPcs
  <2>7. CASE Erase(w)
    <3>1. /\ disk.tree \in {"entry", "partly"} /\ disk'.tree \in {"partly", "gone"}
          /\ UNCHANGED <<library, counted, receipts>> /\ attempt[w].pc = "erase"
      BY <2>7 DEF Erase, Step, At, Entry, DeletionInv, DeletionTypeOK, Disks
    <3>2. PICK pc \in {"erase", "removed"} :
            Goto(w, pc) /\ (pc = "removed" => disk'.tree = "gone")
      BY <2>7 DEF Erase, Step, Entry, DeletionInv, DeletionTypeOK, Disks
    <3>3. library.row \in {"deleting", "deleted"} /\ ~counted
      BY <3>1 DEF DeletionInv, WorkNeedsDeleting, AccountedFirst, DeletionPcs
    <3>4. PhaseTells' /\ AccountedFirst'
      BY <3>1, <3>2, <3>3, <2>3 DEF DeletionInv, PhaseTells, AccountedFirst, DeletionPcs
    <3>5. BoundLibraryIntact' /\ FinalizedIsClean'
      BY <3>1, <3>3 DEF DeletionInv, BoundLibraryIntact, FinalizedIsClean
    <3> QED
      BY <3>1, <3>2, <3>4, <3>5, <2>2 DEF DeletionPcs
  <2>8. CASE PersistRemoved(w)
    <3>1. /\ library' = [library EXCEPT !.phase = "removed"] /\ attempt[w].pc = "removed"
          /\ UNCHANGED <<disk, counted, receipts>> /\ Goto(w, "unmark")
      BY <2>8 DEF PersistRemoved, Step, At
    <3>2. /\ library'.row = library.row /\ library'.bound = library.bound
          /\ library'.phase = "removed"
      BY <3>1 DEF DeletionInv, DeletionTypeOK, Libraries, LibraryRows
    <3>3. disk.tree = "gone" /\ ~counted
      BY <3>1 DEF DeletionInv, PhaseTells, AccountedFirst
    <3>4. PhaseTells' /\ AccountedFirst'
      BY <3>1, <3>2, <3>3, <2>3 DEF DeletionInv, PhaseTells, AccountedFirst, DeletionPcs
    <3>5. BoundLibraryIntact' /\ FinalizedIsClean'
      BY <3>1, <3>2 DEF DeletionInv, BoundLibraryIntact, FinalizedIsClean
    <3> QED
      BY <3>1, <3>2, <3>4, <3>5, <2>2 DEF DeletionPcs
  <2> QED
    BY <2>4, <2>5, <2>6, <2>7, <2>8
<1> QED
  BY <1>1, <1>2

\* The end of a deletion answers whoever awaits it.
LEMMA Finalizing == ASSUME DeletionInv, NEW w \in Workers, Finalize(w) PROVE DeletionInv'
<1>1. CASE Abandon(w)
  BY <1>1, AbandonKeeps
<1>2. CASE ~Abandon(w)
  <2>1. DeletionTypeOK'
    BY DeletionTypeStep DEF DeletionInv, DeletionNext, Proceed
  <2>2. /\ attempt[w].pc = "finalize" /\ library.row = "deleting"
        /\ library.phase = "removed" /\ ~library.bound
        /\ receipts' = [k \in Keys |-> IF receipts[k].status = "in_progress"
                                       THEN Completed("deleted") ELSE receipts[k]]
        /\ attempt' = [attempt EXCEPT ![w] = Idle]
        /\ UNCHANGED <<disk, counted>>
    BY <1>2 DEF Finalize, Step, At, Holds, Owns
  <2>3. library'.row = "deleted" /\ ~library'.bound /\ library'.phase = "none"
    BY <1>2, <2>2 DEF Finalize, Step, DeletionInv, DeletionTypeOK, Libraries, LibraryRows
  <2>4. disk.tree = "gone" /\ ~counted
    BY <2>2 DEF DeletionInv, PhaseTells, AccountedFirst
  <2>5. /\ attempt'[w] = Idle /\ \A v \in Workers : v # w => attempt'[v] = attempt[v]
        /\ \A k \in Keys : receipts'[k] = IF receipts[k].status = "in_progress"
                                       THEN Completed("deleted") ELSE receipts[k]
    BY <2>2 DEF DeletionInv, DeletionTypeOK
  <2>6. WorkNeedsDeleting' /\ BoundLibraryIntact' /\ Awaited' /\ FinalizedIsClean'
    BY <2>2, <2>3, <2>4 DEF WorkNeedsDeleting, BoundLibraryIntact, Awaited, FinalizedIsClean
  <2>7. PhaseTells' /\ AccountedFirst'
    BY <2>2, <2>3, <2>4, <2>5 DEF PhaseTells, AccountedFirst
  <2>8. Remembered'
    BY <2>2, <2>5 DEF DeletionInv, Awaited, Remembered, Completed
  <2>9. MissingIsNever'
    BY <2>2, <2>5 DEF DeletionInv, MissingIsNever, Idle
  <2>10. AnswersTrue'
    BY <2>2, <2>3, <2>5 DEF DeletionInv, AnswersTrue, Completed
  <2> QED
    BY <2>1, <2>6, <2>7, <2>8, <2>9, <2>10 DEF DeletionInv
<1> QED
  BY <1>1, <1>2

\* The requests and their answers.
LEMMA Requesting == ASSUME DeletionInv, NEW w \in Workers, NEW k \in Keys, Request(w, k) PROVE DeletionInv'
<1>1. DeletionTypeOK'
  BY DeletionTypeStep DEF DeletionInv, DeletionNext
<1>2. receipts[k].status # "completed" /\ UNCHANGED <<disk, counted, deletionFaults>>
  BY DEF Request
<1>3. CASE Rowless /\ \E j \in Keys : receipts[j].answer = "deleted"
  <2>1. receipts' = [receipts EXCEPT ![k] = Completed("deleted")] /\ UNCHANGED <<library, attempt>>
    BY <1>3 DEF Request
  <2>2. /\ receipts'[k].answer = "deleted" /\ library.row = "deleted"
        /\ \A j \in Keys : j # k => receipts'[j] = receipts[j]
    BY <1>3, <2>1 DEF Completed, DeletionInv, DeletionTypeOK, AnswersTrue
  <2>3. Awaited' /\ Remembered' /\ AnswersTrue'
    BY <2>1, <2>2 DEF DeletionInv, Awaited, Remembered, AnswersTrue
  <2> QED
    BY <1>1, <1>2, <2>1, <2>3
       DEF DeletionInv, WorkNeedsDeleting, BoundLibraryIntact, PhaseTells, AccountedFirst,
           FinalizedIsClean, MissingIsNever
<1>4. CASE ~(Rowless /\ \E j \in Keys : receipts[j].answer = "deleted")
  <2> DEFINE pc == IF Rowless THEN "missing" ELSE IF library.bound THEN "bound" ELSE "claim"
  <2>1. /\ receipts' = [receipts EXCEPT ![k] = Claimed] /\ Begin(w, k, pc)
        /\ library' = IF pc = "claim" THEN [library EXCEPT !.row = "deleting"] ELSE library
    BY <1>4 DEF Request
  <2>2. /\ receipts'[k].status = "in_progress" /\ receipts'[k].answer = "none"
        /\ \A j \in Keys : j # k => receipts'[j] = receipts[j]
    BY <2>1 DEF Claimed, DeletionInv, DeletionTypeOK
  <2>3. /\ attempt'[w].pc = pc /\ attempt'[w].key = k
        /\ \A v \in Workers : v # w => attempt'[v].pc = attempt[v].pc
        /\ \A v \in Workers : v # w => attempt'[v].key \in {attempt[v].key, Nobody} /\ attempt'[v].key # k
    BY <2>1, DeletionConstants DEF Begin, DeletionInv, DeletionTypeOK, Attempts
  <2>4. /\ library'.bound = library.bound /\ library'.phase = library.phase
        /\ library'.row = IF pc = "claim" THEN "deleting" ELSE library.row
        /\ pc = "claim" => ~library.bound /\ library.row \in {"active", "deleting"}
        /\ pc \in {"claim", "bound", "missing"}
    BY <2>1 DEF Rowless, DeletionInv, DeletionTypeOK, Libraries, LibraryRows
  <2>5. WorkNeedsDeleting' /\ BoundLibraryIntact' /\ PhaseTells' /\ AccountedFirst' /\ FinalizedIsClean'
    BY <1>2, <2>3, <2>4
       DEF DeletionInv, WorkNeedsDeleting, BoundLibraryIntact, PhaseTells, AccountedFirst,
           FinalizedIsClean, DeletionPcs
  <2>6. Awaited'
    <3>1. CASE pc = "claim"
      BY <2>2, <2>3, <3>1 DEF Awaited
    <3>2. CASE pc # "claim"
      <4> SUFFICES ASSUME library.row = "deleting" PROVE FALSE
        BY <2>4, <3>2 DEF Awaited
      <4> QED
        BY <3>2 DEF DeletionInv, BoundLibraryIntact, Rowless
    <3> QED
      BY <3>1, <3>2
  <2>7. Remembered'
    <3>1. library.row = "deleted" => FALSE
      BY <1>4 DEF DeletionInv, Remembered, Rowless
    <3> QED
      BY <2>4, <3>1 DEF Remembered
  <2>8. MissingIsNever'
    <3>1. pc = "missing" => library.row = "never"
      BY <1>4 DEF DeletionInv, Remembered, Rowless
    <3>2. pc = "claim" => \A v \in Workers : attempt[v].pc # "missing"
      BY DEF DeletionInv, MissingIsNever, Rowless
    <3> QED
      BY <2>3, <2>4, <3>1, <3>2 DEF DeletionInv, MissingIsNever
  <2>9. AnswersTrue'
    <3>1. pc = "claim" => \A j \in Keys : receipts[j].answer \notin {"deleted", "missing"}
      BY DEF DeletionInv, AnswersTrue, Rowless
    <3> QED
      BY <2>2, <2>4, <3>1 DEF DeletionInv, AnswersTrue
  <2> QED
    BY <1>1, <2>5, <2>6, <2>7, <2>8, <2>9 DEF DeletionInv
<1> QED
  BY <1>3, <1>4

\* So does one that answers its request without touching row or disk.
LEMMA Answering ==
    ASSUME DeletionInv, DeletionTypeOK', UNCHANGED <<library, disk, counted>>,
           NEW w \in Workers, Reject(w) \/ NoticeLoss(w)
    PROVE  DeletionInv'
<1>1. /\ \A v \in Workers : attempt'[v].pc \in {attempt[v].pc, "idle"}
      /\ \A v \in Workers : attempt'[v].pc = attempt[v].pc => attempt'[v].key = attempt[v].key
      /\ \A v \in Workers : attempt'[v].key \in {attempt[v].key, Nobody}
  BY DEF Reject, NoticeLoss, DeletionInv, DeletionTypeOK, Attempts, Idle
<1>2. \A k \in Keys :
        \/ receipts'[k].status = receipts[k].status /\ receipts'[k].answer = receipts[k].answer
        \/ /\ attempt[w].key = k /\ attempt[w].pc \in {"bound", "missing"}
           /\ receipts[k].status = "in_progress" /\ receipts'[k].answer = attempt[w].pc
  BY DEF NoticeLoss, Reject, Completed, DeletionInv, DeletionTypeOK, Receipts
<1>3. Awaited'
  <2> SUFFICES ASSUME library.row = "deleting" PROVE Awaited'
    BY DEF Awaited
  <2>1. PICK k \in Keys : /\ receipts[k].status = "in_progress"
                          /\ \A v \in Workers :
                               attempt[v].key = k => attempt[v].pc \notin {"bound", "missing"}
    BY DEF DeletionInv, Awaited
  <2> QED
    BY <2>1, <1>1, <1>2, DeletionConstants DEF Awaited
<1>4. Remembered'
  BY <1>2 DEF DeletionInv, DeletionTypeOK, Receipts, Remembered
<1>5. AnswersTrue'
  BY <1>2 DEF DeletionInv, AnswersTrue, MissingIsNever
<1> QED
  BY <1>1, <1>3, <1>4, <1>5
     DEF DeletionInv, WorkNeedsDeleting, BoundLibraryIntact, PhaseTells, AccountedFirst,
         FinalizedIsClean, MissingIsNever, DeletionPcs

\* Whatever happens to claims and leases.
LEMMA Lapsing ==
    ASSUME DeletionInv, DeletionTypeOK', UNCHANGED <<disk, counted, attempt>>,
           library'.row = library.row, library'.bound = library.bound,
           library'.phase = library.phase,
           \A k \in Keys : /\ receipts'[k].status = receipts[k].status
                           /\ receipts'[k].answer = receipts[k].answer
    PROVE  DeletionInv'
BY DEF DeletionInv, WorkNeedsDeleting, BoundLibraryIntact, PhaseTells, AccountedFirst,
       FinalizedIsClean, Awaited, Remembered, MissingIsNever, AnswersTrue

\* So does the death of a process.
LEMMA Dying == ASSUME DeletionInv, NEW w \in Workers, Die(w) PROVE DeletionInv'
<1>1. DeletionTypeOK'
  BY DeletionTypeStep DEF DeletionInv, DeletionNext
<1>2. /\ library'.row = library.row /\ library'.bound = library.bound
      /\ library'.phase = library.phase /\ UNCHANGED <<disk, counted, receipts>>
  BY DEF Die, DeletionInv, DeletionTypeOK, Libraries, LibraryRows
<1>3. attempt'[w] = Idle /\ \A v \in Workers : v # w => attempt'[v] = attempt[v]
  BY DEF Die, DeletionInv, DeletionTypeOK
<1>4. Awaited'
  <2> SUFFICES ASSUME library.row = "deleting" PROVE Awaited'
    BY <1>2 DEF Awaited
  <2>1. PICK k \in Keys : /\ receipts[k].status = "in_progress"
                          /\ \A v \in Workers :
                               attempt[v].key = k => attempt[v].pc \notin {"bound", "missing"}
    BY DEF DeletionInv, Awaited
  <2> QED
    BY <2>1, <1>2, <1>3 DEF Awaited, Idle
<1> QED
  BY <1>1, <1>2, <1>3, <1>4
     DEF DeletionInv, WorkNeedsDeleting, BoundLibraryIntact, PhaseTells, AccountedFirst, DeletionPcs,
         FinalizedIsClean, Remembered, MissingIsNever, AnswersTrue, Idle

\* The invariant is inductive.
LEMMA DeletionInvStep == ASSUME DeletionInv, [DeletionNext]_deletionVars PROVE DeletionInv'
<1>1. DeletionTypeOK'
  BY DeletionTypeStep DEF DeletionInv
<1>2. CASE UNCHANGED deletionVars
  BY <1>1, <1>2, Lapsing DEF deletionVars
<1>3. CASE Bind \/ Unbind
  <2>1. /\ library'.row = library.row /\ library'.phase = library.phase
        /\ library'.bound => library.row = "active"
        /\ UNCHANGED <<disk, counted, receipts, attempt>>
    BY <1>3 DEF Bind, Unbind, DeletionInv, DeletionTypeOK, Libraries, LibraryRows
  <2> QED
    BY <1>1, <2>1
       DEF DeletionInv, WorkNeedsDeleting, BoundLibraryIntact, PhaseTells, AccountedFirst,
           FinalizedIsClean, Awaited, Remembered, MissingIsNever, AnswersTrue
<1>4. CASE Stall \/ ExpireOrphan
  <2>1. /\ library'.row = library.row /\ library'.bound = library.bound
        /\ library'.phase = library.phase
        /\ UNCHANGED <<disk, counted, attempt, receipts>>
    BY <1>4 DEF Stall, ExpireOrphan, DeletionInv, DeletionTypeOK, Libraries, LibraryRows
  <2> QED
    BY <1>1, <2>1, Lapsing
<1>5. ASSUME NEW k \in Keys, ExpireReceipt(k) PROVE DeletionInv'
  <2>1. \A j \in Keys : /\ receipts'[j].status = receipts[j].status
                        /\ receipts'[j].answer = receipts[j].answer
    BY <1>5 DEF ExpireReceipt, DeletionInv, DeletionTypeOK, Receipts
  <2> QED
    BY <1>1, <1>5, <2>1, Lapsing DEF ExpireReceipt
<1>6. ASSUME NEW w \in Workers, NoticeLoss(w) \/ Reject(w) PROVE DeletionInv'
  BY <1>1, <1>6, Answering DEF NoticeLoss, Reject
<1>7. ASSUME NEW w \in Workers, NEW k \in Keys, Request(w, k) PROVE DeletionInv'
  BY <1>7, Requesting
<1>8. ASSUME NEW w \in Workers, Die(w) \/ Finalize(w) PROVE DeletionInv'
  BY <1>8, Dying, Finalizing
<1>9. ASSUME NEW w \in Workers, Proceed(w) PROVE DeletionInv'
  BY <1>6, <1>8, <1>9, Preparing, Doing DEF Proceed, Isolate, RemoveIsolated
<1> QED
  BY <1>2, <1>3, <1>4, <1>5, <1>6, <1>7, <1>8, <1>9 DEF DeletionNext

\* The invariant holds in every behaviour.
LEMMA DeletionInvariant == DeletionSpec => []DeletionInv
BY DeletionInvInit, DeletionInvStep, PTL DEF DeletionSpec

-----------------------------------------------------------------------------
(* The theorems.                                                             *)

\* A Task's library keeps its row and its tree, whatever any attempt to delete
\* it does, in whichever process and however late.
THEOREM BoundLibrarySafe == DeletionSpec => []BoundLibraryIntact
BY DeletionInvariant, PTL DEF DeletionInv

\* No attempt touches the tree before the row says deleting, and the row goes
\* only when tree and accounted bytes are gone, for any number of crashes,
\* stalls and resumptions.
THEOREM FinalizedClean == DeletionSpec => []FinalizedIsClean
BY DeletionInvariant, PTL DEF DeletionInv

\* Requests for the deletion are answered truly: every deletion leaves a receipt
\* that says deleted, which later requests are answered from.
THEOREM DeletionAnswersTrue == DeletionSpec => []AnswersTrue
BY DeletionInvariant, PTL DEF DeletionInv

\* A completed receipt never changes again.
THEOREM DeletionAnswerKept == DeletionSpec => AnswerKept
<1>1. ASSUME DeletionTypeOK, [DeletionNext]_deletionVars, NEW k \in Keys,
             receipts[k].status = "completed"
      PROVE  receipts'[k] = receipts[k]
  <2>1. CASE UNCHANGED receipts
    BY <2>1
  <2>2. ASSUME NEW w \in Workers, NEW j \in Keys, Request(w, j) PROVE receipts'[k] = receipts[k]
    BY <1>1, <2>2 DEF Request, DeletionTypeOK
  <2>3. ASSUME NEW w \in Workers, Reject(w) PROVE receipts'[k] = receipts[k]
    BY <1>1, <2>3 DEF Reject, DeletionTypeOK
  <2>4. ASSUME NEW w \in Workers, Finalize(w) PROVE receipts'[k] = receipts[k]
    BY <1>1, <2>4 DEF Finalize, Step, Abandon, DeletionTypeOK
  <2>5. ASSUME NEW j \in Keys, ExpireReceipt(j) PROVE receipts'[k] = receipts[k]
    BY <1>1, <2>5 DEF ExpireReceipt, DeletionTypeOK
  <2> QED
    BY <1>1, <2>1, <2>2, <2>3, <2>4, <2>5
       DEF DeletionNext, deletionVars, Proceed, Isolate, RemoveIsolated, Bind, Unbind, Stall,
           ExpireOrphan, NoticeLoss, Die, ClaimPhysical, Find, Look, MakeQuarantine, WritePending,
           Publish, Rename, PersistIsolated, Reconcile, Reopen, Erase, PersistRemoved,
           RemoveMarker, RemoveDir, Step, Abandon
<1>2. ASSUME DeletionTypeOK, [DeletionNext]_deletionVars
      PROVE  [\A k \in Keys : receipts[k].status = "completed"
                               => receipts'[k] = receipts[k]]_deletionVars
  BY <1>1, <1>2
<1> QED
  BY <1>2, DeletionTyped, PTL DEF DeletionSpec, AnswerKept
=============================================================================
