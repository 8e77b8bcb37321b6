---------------------------- MODULE LibraryHead ----------------------------
(***************************************************************************)
(* The HEAD of a library and the handlers that move it.  A worker serves   *)
(* one request: it checks the file locks, reads HEAD, computes a new tree  *)
(* (module LibraryTree), publishes it with a compare-and-set on            *)
(* libraries.head_commit_id, tries again when it lost, and then maintains  *)
(* the lock rows (module FileLocks).  The answer of the compare-and-set    *)
(* may be lost, reads may fail, and a worker may die anywhere.             *)
(*                                                                         *)
(* Commit ids are unique, so a library is the sequence of its published    *)
(* commits and the compare-and-set compares its length.  Staging of blocks *)
(* is module BlockPublish; storage counters, tags, projections of HEAD and *)
(* the texts of answers are left out.                                      *)
(***************************************************************************)
EXTENDS LibraryTree, FileLocks, TLC

CONSTANTS
    Workers,      \* processes serving requests
    Libs,         \* libraries
    Requests,     \* the requests that may arrive
    Trees,        \* the tree of every library at the start
    Locks,        \* the lock rows of every library at the start
    MaxAttempts,  \* libraryHeadMutationRetryAttempts
    LockAttempts  \* acquireFileLockMaxAttempts

BatchOps == {"batchMove", "batchCopy", "asyncMove", "asyncCopy"}
Ops == BatchOps \cup {"lock", "unlock", "CreateDirectory", "CreateFile", "RenameDirectory", "RenameFile", "DeleteDirectory",
                      "DeleteFile", "BatchDeleteItems", "UploadFile", "MoveFile", "CopyFile", "copyBatch", "RevertFile",
                      "RevertDirectory", "RestoreTrashItem", "RevertDirents"}

\* The root has no name to act on; a batch alone may go from one library to another.
IsRequest(r) ==
    /\ r.op \in Ops /\ r.lib \in Libs /\ r.dlib \in Libs /\ (r.op \notin BatchOps => r.dlib = r.lib)
    /\ r.items \in Seq(Paths \ {<<>>}) /\ r.items # <<>> /\ r.dst \in Paths /\ r.name \in Names
HeadAssumption ==
    /\ MaxAttempts \in Nat \ {0} /\ LockAttempts \in Nat \ {0}
    /\ \A r \in Requests : IsRequest(r)
    /\ \A l \in Libs : IsTree(Trees[l]) /\ DOMAIN Trees[l] \subseteq Paths
    /\ Locks = [l \in Libs |-> Locks[l]]

VARIABLES
    hist,   \* hist[l]: the published commits of l, [t, by]; the last one is HEAD
    rows,   \* rows[l]: the lock rows of l
    wk,     \* wk[w]: the worker's registers
    held    \* held[w]: <<l, p, u>> locked by others without a break since w's request began (history)

vars == <<hist, rows, wk, held>>

Tree(l) == Last(hist[l]).t
NoRequest == [op |-> "none"]

Idle == [pc |-> "idle", r |-> NoRequest, i |-> 1, att |-> 1, snap |-> 0, src |-> <<>>, stage |-> "dst",
         res |-> Err, todo |-> {}, out |-> "none"]

Init ==
    /\ hist = [l \in Libs |-> <<[t |-> Trees[l], by |-> <<>>]>>]
    /\ rows = Locks
    /\ wk = [w \in Workers |-> Idle]
    /\ held = [w \in Workers |-> {}]

-----------------------------------------------------------------------------
R(w) == wk[w].r
Item(w) == R(w).items[wk[w].i]

MoveOps == {"MoveFile", "batchMove", "asyncMove"}
TwoLibs(r) == r.op \in BatchOps /\ r.lib # r.dlib
SameRepoMove(r) == r.op \in MoveOps /\ ~TwoLibs(r)
FromSource(r) == r.op \in BatchOps /\ ~SameRepoMove(r)
\* The library whose HEAD the worker moves now.
Target(w) == IF wk[w].stage = "src" THEN R(w).lib ELSE R(w).dlib

Held(S) == [w \in Workers |-> {h \in held[w] : h[2] \in DOMAIN S[h[1]] /\ S[h[1]][h[2]] = h[3]}]
SetRows(l, new) ==
    LET S == [rows EXCEPT ![l] = new]
    IN rows' = S /\ held' = Held(S)

\* A request arrives and is not refused for its form, permissions, decrypt session, quota or
\* storage class; a refused one changes nothing.  The older commit a revert names is in the history.
Begin(w, r) ==
    /\ wk[w].pc = "idle" /\ r.old \in DOMAIN hist[r.lib]
    /\ wk' = [wk EXCEPT ![w].r = r, ![w].pc = IF r.op \in {"lock", "unlock"} THEN r.op ELSE "check"]
    /\ held' = [held EXCEPT ![w] = UNION {{<<l, p, rows[l][p]>> : p \in {q \in DOMAIN rows[l] : rows[l][q] # r.user}} : l \in Libs}]
    /\ UNCHANGED <<hist, rows>>

Finish(w, out) == [wk EXCEPT ![w].pc = "done", ![w].out = out]

\* The next item of a batch: a synchronous batch stops at the first error.
nextItem(w, ok) ==
    IF wk[w].i < Len(R(w).items) /\ R(w).op # "BatchDeleteItems" /\ (ok \/ R(w).op \in {"asyncMove", "asyncCopy", "RevertDirents"})
    THEN [wk EXCEPT ![w] = [Idle EXCEPT !.pc = "check", !.r = R(w), !.i = wk[w].i + 1]]
    ELSE Finish(w, IF ok THEN "ok" ELSE "error")

-----------------------------------------------------------------------------
(***************************************************************************)
(* The lock check.  It reads once, before the first snapshot; a read that  *)
(* fails refuses the item.                                                 *)
(***************************************************************************)
requireSubtreeNotLockedByOther(l, p, u) == ~SubtreeLockedByOther(rows[l], p, u)
requireFileNotLockedByOther(l, p, u) == ~FileLockedByOther(rows[l], p, u)

checkBatchLocks(r, p) ==
    /\ r.op \in MoveOps => requireSubtreeNotLockedByOther(r.lib, p, r.user)
    /\ r.policy = "replace" => requireSubtreeNotLockedByOther(r.dlib, Append(r.dst, Last(p)), r.user)

checkCopyReplaceDestLocked(r, p) ==
    r.policy = "replace" => requireSubtreeNotLockedByOther(r.lib, Append(r.dst, Last(p)), r.user)

checkConflictsFree(r) ==
    r.policy = "" /\ ~(SameRepoMove(r) /\ r.dst = Front(r.items[1]))
        => \A p \in Range(r.items) : ~(Found(Tree(r.dlib), r.dst) /\ Last(p) \in Entries(Tree(r.dlib), r.dst))

\* A mutant that checks the path and not what is beneath it.
PathAllows(r, p) == requireFileNotLockedByOther(r.lib, p, r.user)
LocksAllow(r, p) ==
    CASE r.op \in {"RenameDirectory", "RenameFile", "DeleteDirectory", "DeleteFile"} -> requireSubtreeNotLockedByOther(r.lib, p, r.user)
      [] r.op = "BatchDeleteItems" -> \A x \in Range(r.items) : requireSubtreeNotLockedByOther(r.lib, x, r.user)
      [] r.op \in BatchOps \cup MoveOps -> checkBatchLocks(r, p)
      [] r.op \in {"CopyFile", "copyBatch"} -> checkCopyReplaceDestLocked(r, p)
      [] r.op \in {"UploadFile", "RevertFile"} /\ r.policy = "replace" -> requireFileNotLockedByOther(r.lib, p, r.user)
      [] r.op = "RevertDirectory" /\ r.policy = "replace" -> requireSubtreeNotLockedByOther(r.lib, p, r.user)
      [] OTHER -> TRUE

CheckLocks(w) ==
    /\ wk[w].pc = "check"
    /\ \/ /\ LocksAllow(R(w), Item(w))
          /\ R(w).op \in BatchOps /\ wk[w].i = 1 => checkConflictsFree(R(w))
          /\ wk' = [wk EXCEPT ![w].pc = IF FromSource(R(w)) THEN "source" ELSE "mutate"]
       \/ wk' = nextItem(w, FALSE)
    /\ UNCHANGED <<hist, rows, held>>

-----------------------------------------------------------------------------
\* The source entry of a copy or move by batch is read from a snapshot of its own.
ReadSource(w) ==
    /\ wk[w].pc = "source"
    /\ wk' = IF Found(Tree(R(w).lib), Item(w))
             THEN [wk EXCEPT ![w].pc = "mutate", ![w].src = Sub(Tree(R(w).lib), Item(w))]
             ELSE nextItem(w, FALSE)
    /\ UNCHANGED <<hist, rows, held>>

OldTree(r) == hist[r.lib][r.old].t

\* What one attempt computes from the tree t; old is the tree of the commit a revert names.
Mutation(t, old, r, p, src, stage) ==
    CASE stage = "src" -> removeMovedSource(t, p, src)
      [] FromSource(r) /\ stage = "dst" -> copyToDestination(t, src, r, p)
      [] r.op = "MoveFile" -> MoveFile(t, r, p)
      [] SameRepoMove(r) -> processSameRepoMove(t, r, p)
      [] r.op = "CreateDirectory" -> CreateDirectory(t, r, p)
      [] r.op = "RenameDirectory" -> RenameDirectory(t, r, p)
      [] r.op = "RenameFile" -> RenameFile(t, r, p)
      [] r.op = "CreateFile" -> CreateFile(t, r, p)
      [] r.op = "DeleteDirectory" -> DeleteDirectory(t, r, p)
      [] r.op = "DeleteFile" -> DeleteFile(t, r, p)
      [] r.op = "BatchDeleteItems" -> BatchDeleteItems(t, r, p)
      [] r.op = "UploadFile" -> UploadFile(t, r, p)
      [] r.op = "CopyFile" -> CopyFile(t, r, p)
      [] r.op = "copyBatch" -> copyItemWithinRepo(t, r, p)
      [] r.op = "RevertFile" -> RevertFile(t, old, r, p)
      [] r.op = "RevertDirectory" -> RevertDirectory(t, old, r, p)
      [] r.op = "RestoreTrashItem" -> RestoreTrashItem(t, old, r, p)
      [] r.op = "RevertDirents" -> RevertDirents(t, old, r, p)

Effect(w) == Mutation(Tree(Target(w)), OldTree(R(w)), R(w), Item(w), wk[w].src, wk[w].stage)

\* A batch copy passes over an item whose source is gone or whose name is taken.
copyBatchSkips(w) == R(w).op = "copyBatch" /\ Effect(w).k = "err" /\ Found(Tree(R(w).lib), R(w).dst)

\* One attempt: GetLibraryHeadSnapshot, the traversal, the rebuilt path and the new commit.
Mutate(w) ==
    /\ wk[w].pc = "mutate"
    /\ \/ /\ Effect(w).k = "new"
          /\ wk' = [wk EXCEPT ![w].pc = "cas", ![w].snap = Len(hist[Target(w)]), ![w].res = Effect(w)]
       \/ Effect(w).k = "noop" /\ wk' = nextItem(w, TRUE)
       \/ copyBatchSkips(w) /\ wk' = nextItem(w, TRUE)
       \/ wk' = nextItem(w, FALSE)          \* refused, or a read or write failed
    /\ UNCHANGED <<hist, rows, held>>

Publish(w) ==
    hist' = [hist EXCEPT ![Target(w)] = Append(@, [t |-> wk[w].res.t, by |-> <<w, wk[w].i, wk[w].stage>>])]

\* After HEAD moved: the second half of a move between libraries, the lock rows, or the next item.
LockWork(w) ==
    LET r == R(w) IN
    CASE r.op \in {"RenameDirectory", "RenameFile", "DeleteDirectory", "DeleteFile", "MoveFile"} -> {Item(w)}
      [] r.op \in BatchOps /\ SameRepoMove(r) -> {Item(w)}
      [] r.op = "BatchDeleteItems" -> Range(r.items) \cap DOMAIN hist[r.lib][wk[w].snap].t
      [] OTHER -> {}
AfterHead(w) ==
    IF TwoLibs(R(w)) /\ R(w).op \in MoveOps /\ wk[w].stage = "dst"
    THEN [wk EXCEPT ![w].pc = "mutate", ![w].stage = "src", ![w].att = 1]
    ELSE IF LockWork(w) # {} THEN [wk EXCEPT ![w].pc = "listlocks"]
    ELSE nextItem(w, TRUE)

UpdateApplied(w) ==
    /\ wk[w].pc = "cas"
    /\ Len(hist[Target(w)]) = wk[w].snap
    /\ Publish(w)
    /\ wk' = AfterHead(w)
    /\ UNCHANGED <<rows, held>>

\* A mutant without the condition on head_commit_id.
UpdateUnconditional(w) ==
    /\ wk[w].pc = "cas"
    /\ Publish(w)
    /\ wk' = AfterHead(w)
    /\ UNCHANGED <<rows, held>>
UpdateLibraryHead(w) == UpdateApplied(w)

\* ErrLibraryHeadConflict: the whole attempt is run again, up to MaxAttempts times.
retryLibraryHeadMutation(w) ==
    /\ wk[w].pc = "cas"
    /\ Len(hist[Target(w)]) # wk[w].snap
    /\ wk' = IF wk[w].att < MaxAttempts
             THEN [wk EXCEPT ![w].att = @ + 1,
                             ![w].pc = IF FromSource(R(w)) /\ wk[w].stage = "dst" THEN "source" ELSE "mutate"]
             ELSE nextItem(w, FALSE)
    /\ UNCHANGED <<hist, rows, held>>

\* The answer of the compare-and-set is lost; it was applied or not.
UpdateAmbiguous(w) ==
    /\ wk[w].pc = "cas"
    /\ \/ Len(hist[Target(w)]) = wk[w].snap /\ Publish(w)
       \/ UNCHANGED hist
    /\ wk' = [wk EXCEPT ![w].pc = "confirm"]
    /\ UNCHANGED <<rows, held>>

\* One serial read tells: HEAD is this commit, or the attempt fails.  It is not run again: HEAD
resolveLibraryHeadUpdateError(w) ==
    /\ wk[w].pc = "confirm"
    /\ \/ Last(hist[Target(w)]).by = <<w, wk[w].i, wk[w].stage>> /\ wk' = AfterHead(w)
       \/ Last(hist[Target(w)]).by # <<w, wk[w].i, wk[w].stage>> /\ wk' = nextItem(w, FALSE)
       \/ wk' = nextItem(w, FALSE)          \* ErrLibraryHeadPublicationUnknown
    /\ UNCHANGED <<hist, rows, held>>

-----------------------------------------------------------------------------
(***************************************************************************)
(* The lock rows after a delete, rename or move: one scan, then one        *)
(* conditional statement per row of the operator's own.  Best effort.      *)
(***************************************************************************)
ListLocks(w) ==
    /\ wk[w].pc = "listlocks"
    /\ LET own == {q \in UNION {listLocksUnder(rows[R(w).lib], root) : root \in LockWork(w)} : rows[R(w).lib][q] = R(w).user}
       IN \/ own # {} /\ wk' = [wk EXCEPT ![w].pc = "lockrow", ![w].todo = own]
          \/ wk' = nextItem(w, TRUE)       \* none, or the scan failed
    /\ UNCHANGED <<hist, rows, held>>

RowDone(w, q) ==
    \/ wk[w].todo # {q} /\ wk' = [wk EXCEPT ![w].todo = @ \ {q}]
    \/ wk' = nextItem(w, TRUE)             \* the last one, or the statement failed

RelocateLocksUnder(w) ==
    /\ wk[w].pc = "lockrow" /\ R(w).op \in {"RenameDirectory", "RenameFile"}
    /\ \E q \in wk[w].todo :
          /\ SetRows(R(w).lib, relocateLockRow(rows[R(w).lib], q, rewriteLockedPath(Item(w), Append(Front(Item(w)), R(w).name), q), R(w).user))
          /\ RowDone(w, q)
    /\ UNCHANGED hist

ClearLocksUnder(w) ==
    /\ wk[w].pc = "lockrow" /\ R(w).op \notin {"RenameDirectory", "RenameFile"}
    /\ \E q \in wk[w].todo :
          /\ SetRows(R(w).lib, deleteLock(rows[R(w).lib], q, R(w).user))
          /\ RowDone(w, q)
    /\ UNCHANGED hist

-----------------------------------------------------------------------------
(***************************************************************************)
(* LockFile: a lock is taken on an entry of HEAD that is no directory,     *)
(* with an insert, or a refresh when the row is the user's own.            *)
(***************************************************************************)
LockTarget(w) ==
    /\ wk[w].pc = "lock"
    /\ \/ /\ Found(Tree(R(w).lib), Item(w)) /\ Tree(R(w).lib)[Item(w)][1] = "f"
          /\ wk' = [wk EXCEPT ![w].pc = "insert"]
       \/ wk' = Finish(w, "error")
    /\ UNCHANGED <<hist, rows, held>>

AcquireFileLock(w) ==
    /\ wk[w].pc = "insert"
    /\ LET l == R(w).lib  p == Item(w)  u == R(w).user
       IN \/ /\ SetRows(l, insertLock(rows[l], p, u))
             /\ wk' = IF p \notin DOMAIN rows[l] THEN Finish(w, "ok")
                      ELSE IF rows[l][p] # u THEN Finish(w, "error")
                      ELSE [wk EXCEPT ![w].pc = "refresh"]
          \/ wk' = Finish(w, "error") /\ UNCHANGED <<rows, held>>
    /\ UNCHANGED hist

RefreshFileLock(w) ==
    /\ wk[w].pc = "refresh"
    /\ LET l == R(w).lib  p == Item(w)
       IN wk' = IF p \in DOMAIN rows[l]
                THEN Finish(w, IF rows[l][p] = R(w).user THEN "ok" ELSE "error")
                ELSE IF wk[w].att < LockAttempts THEN [wk EXCEPT ![w].pc = "insert", ![w].att = @ + 1]
                ELSE Finish(w, "error")
    /\ UNCHANGED <<hist, rows, held>>

ReleaseFileLock(w) ==
    /\ wk[w].pc = "unlock"
    /\ SetRows(R(w).lib, deleteLock(rows[R(w).lib], Item(w), R(w).user))
    /\ wk' = Finish(w, "ok")
    /\ UNCHANGED hist

\* The process of a worker dies; what it published and deleted stays.
Crash(w) ==
    /\ wk[w].pc \notin {"idle", "done"}
    /\ wk' = Finish(w, "crash")
    /\ UNCHANGED <<hist, rows, held>>

-----------------------------------------------------------------------------
Step(w) ==
    \/ \E r \in Requests : Begin(w, r)
    \/ CheckLocks(w) \/ ReadSource(w) \/ Mutate(w)
    \/ UpdateLibraryHead(w) \/ retryLibraryHeadMutation(w) \/ UpdateAmbiguous(w) \/ resolveLibraryHeadUpdateError(w)
    \/ ListLocks(w) \/ RelocateLocksUnder(w) \/ ClearLocksUnder(w)
    \/ LockTarget(w) \/ AcquireFileLock(w) \/ RefreshFileLock(w) \/ ReleaseFileLock(w)
    \/ Crash(w)

\* Every worker has served its request.
Served == (\A w \in Workers : wk[w].pc = "done") /\ UNCHANGED vars

Next == (\E w \in Workers : Step(w)) \/ Served

Spec == Init /\ [][Next]_vars

-----------------------------------------------------------------------------
TypeOK ==
    /\ \A l \in Libs : hist[l] # <<>> /\ \A k \in DOMAIN hist[l] : IsTree(hist[l][k].t)
    /\ \A w \in Workers : wk[w].att <= Smallest({x \in {MaxAttempts, LockAttempts} : x >= MaxAttempts /\ x >= LockAttempts})

\* No update is lost and none is applied to a tree it was not computed for: every published
\* commit is its request's effect on the commit below it, though the effect was computed from an
\* earlier read of HEAD (retryLibraryHeadMutation, the condition on head_commit_id).
SerialHistory ==
    \A l \in Libs : \A k \in 2 .. Len(hist[l]) :
        LET e == hist[l][k]  r == wk[e.by[1]].r  p == r.items[e.by[2]] IN
        \E v \in 1 .. Len(hist[r.lib]) :
            LET s == hist[r.lib][v].t IN
            /\ FromSource(r) => Found(s, p)
            /\ Mutation(hist[l][k - 1].t, OldTree(r), r, p, IF FromSource(r) THEN Sub(s, p) ELSE <<>>, e.by[3]) = New(e.t)

\* A request is applied at most once, though the answer of its compare-and-set may be lost and HEAD
\* may have moved on when it asks (resolveLibraryHeadUpdateError does not run the attempt again).
AppliedOnce ==
    \A l \in Libs : \A j, k \in 2 .. Len(hist[l]) : hist[l][j].by = hist[l][k].by => j = k

\* A move between libraries never destroys a file: what it removes at the source is what it
\* published at the destination before, even when another writer replaced the source in between
\* (processSingleItem, shouldSkipSourceRemovalAfterMove).
MovedNotLost ==
    \A l \in Libs : \A k \in 2 .. Len(hist[l]) :
        LET e == hist[l][k]  r == wk[e.by[1]].r  p == r.items[e.by[2]] IN
        e.by[3] = "src" =>
            \E m \in 2 .. Len(hist[r.dlib]) :
                LET d == hist[r.dlib][m] IN
                /\ d.by = <<e.by[1], e.by[2], "dst">>
                /\ \E n \in Entries(d.t, r.dst) : SameID(Sub(d.t, Append(r.dst, n)), Sub(hist[l][k - 1].t, p))

\* A lock disappears, moves or changes hands only by a request of its holder, though deletes and
\* renames list the rows first and change them later (ClearLocksUnder, RelocateLocksUnder).
HolderTouchesLock ==
    \A l \in Libs : \A p \in DOMAIN rows[l] :
        (p \notin DOMAIN rows'[l] \/ rows'[l][p] # rows[l][p])
            => \E w \in Workers : wk'[w] # wk[w] /\ wk[w].r # NoRequest /\ wk[w].r.user = rows[l][p]

Publishes(l, w) == Len(hist'[l]) > Len(hist[l]) /\ Last(hist'[l]).by[1] = w
KeepsEntry(l, p) == p \in DOMAIN Tree(l) => p \in DOMAIN Last(hist'[l]).t /\ Last(hist'[l]).t[p] = Tree(l)[p]

\* The list of entries a request adds to.
PutsInto(r, p) == IF r.op \in BatchOps \cup MoveOps \cup {"CopyFile", "copyBatch"} THEN r.dst ELSE Front(p)

\* A file that somebody locked before a request began, and kept locked, is not removed, moved or
\* overwritten by another user's delete, rename, move, copy or upload of that name (files.go:60,
\* batch_operations.go:562).  Trash restores, uploads over a folder, and requests that name the file as
\* the folder to put something into (FilesAreFiles, below) are not among them.
LockedFileKept ==
    \A l \in Libs, w \in Workers :
        Publishes(l, w) /\ R(w).op \notin {"RestoreTrashItem", "RevertDirents"}
            => \A h \in held[w] :
                  h[1] = l /\ h[2] # PutsInto(R(w), Item(w)) /\ (R(w).op \in {"UploadFile", "RevertFile"} => h[2] = Item(w))
                      => KeepsEntry(l, h[2])

\* Not kept by the code (README, section 5):
\* The holder of a lock is the only one who changes the file (db/file_locks.go:19): the same for
\* every handler.
LockedFileKeptByAll ==
    [][\A l \in Libs, w \in Workers : Publishes(l, w) => \A h \in held[w] : h[1] = l => KeepsEntry(l, h[2])]_vars

\* Not kept by the code (README, section 5):
\* RestoreTrashItem restores the item it is asked for (trash.go:328): after it, the path is there
\* again whenever its directory still exists.
RestoredInPlace ==
    [][\A l \in Libs, w \in Workers :
          Publishes(l, w) /\ R(w).op = "RestoreTrashItem" /\ Found(Tree(l), Front(Item(w)))
              => Found(Last(hist'[l]).t, Item(w))]_vars

\* Not kept by the code (README, section 5):
\* A path through a file is no path (fs_helpers.go:356): an entry of file mode never names a
\* directory object.
FilesAreFiles ==
    \A l \in Libs : \A p \in DOMAIN Tree(l) : (Tree(l)[p][1] = "d") = (Tree(l)[p][2] = DirObj)
=============================================================================
