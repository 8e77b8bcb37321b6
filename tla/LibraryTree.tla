---------------------------- MODULE LibraryTree ----------------------------
(***************************************************************************)
(* What the file handlers of a library do to its tree.  A handler reads    *)
(* the tree at HEAD, computes a new one, and publishes it with a           *)
(* compare-and-set (module LibraryHead); this module is the middle part,   *)
(* one operator per handler (api/v2/files.go, batch_operations.go,         *)
(* trash.go, fs_helpers.go).                                               *)
(*                                                                         *)
(* A name is a sequence: a base and the numbers GenerateUniqueName put     *)
(* behind it.  A path is a sequence of names.  A tree maps its paths to    *)
(* entries <<mode, object>>: the mode is in the parent's entry list, the   *)
(* object is what the fs_id names, a content or the mark of a directory    *)
(* object.  The two can disagree, and some handlers make them.             *)
(***************************************************************************)
EXTENDS Integers, Sequences, SequencesExt, FiniteSetsExt, Functions

DirObj == "dir"
Dir == <<"d", DirObj>>
File(c) == <<"f", c>>
EmptyDir == [s \in {<<>>} |-> Dir]

Names == Seq(STRING \cup Nat)
Paths == Seq(Names)
\* Every path has the directories that lead to it.
IsTree(t) ==
    /\ t = [q \in DOMAIN t |-> t[q]] /\ IsFiniteSet(DOMAIN t)
    /\ <<>> \in DOMAIN t /\ \A q \in DOMAIN t : \A k \in 0 .. Len(q) : SubSeq(q, 1, k) \in DOMAIN t

Under(t, p) == {q \in DOMAIN t : IsPrefix(p, q)}
Without(t, p) == Restrict(t, DOMAIN t \ Under(t, p))
Sub(t, p) == [s \in {SubSeq(q, Len(p) + 1, Len(q)) : q \in Under(t, p)} |-> t[p \o s]]

\* Two entries have the same fs_id: the same object, whatever their modes say.
SameID(a, b) == DOMAIN a = DOMAIN b /\ a[<<>>][2] = b[<<>>][2] /\ \A s \in DOMAIN a \ {<<>>} : a[s] = b[s]

Err == [k |-> "err"]
Noop == [k |-> "noop"]
New(t) == [k |-> "new", t |-> t]

-----------------------------------------------------------------------------
\* Every component but the last must be an entry of directory mode.
Reaches(t, p) == \A i \in 0 .. Len(p) - 1 : SubSeq(p, 1, i) \in DOMAIN t /\ t[SubSeq(p, 1, i)][1] = "d"
Found(t, p) == Reaches(t, p) /\ p \in DOMAIN t

\* GetDirectoryEntries of the object at d: none when the object is a file.
Entries(t, d) == {q[Len(q)] : q \in {x \in DOMAIN t : Len(x) = Len(d) + 1 /\ IsPrefix(d, x)}}

\* The entry list of d with n bound to the subtree s.  The new directory object is bound to d's
\* entry by its fs_id alone: the mode of that entry stays.
Put(t, d, n, s) ==
    LET p == Append(d, n)
        u == Without(t, p)
    IN [q \in DOMAIN u \cup {p \o x : x \in DOMAIN s} |->
          IF IsPrefix(p, q) THEN s[SubSeq(q, Len(p) + 1, Len(q))]
          ELSE IF q = d THEN <<u[q][1], DirObj>> ELSE u[q]]

Smallest(S) == CHOOSE k \in S : \A j \in S : k <= j
GenerateUniqueName(E, n) ==
    IF n \notin E THEN n
    ELSE Append(n, Smallest({k \in 1 .. Cardinality(E) + 1 : Append(n, k) \notin E}))

\* The conflict policies shared by copy, move and revert.
Place(t, d, n, s, policy) ==
    IF n \notin Entries(t, d) THEN New(Put(t, d, n, s))
    ELSE CASE policy = "replace" -> New(Put(t, d, n, s))
           [] policy = "autorename" -> New(Put(t, d, GenerateUniqueName(Entries(t, d), n), s))
           [] policy = "skip" -> Noop
           [] OTHER -> Err

-----------------------------------------------------------------------------
(***************************************************************************)
(* The handlers.  r is the request, p the item it is about, t the tree of  *)
(* the snapshot.                                                           *)
(***************************************************************************)
CreateDirectory(t, r, p) ==
    IF ~Found(t, Front(p)) \/ Last(p) \in Entries(t, Front(p)) THEN Err
    ELSE New(Put(t, Front(p), Last(p), EmptyDir))

RenameTo(t, r, p) ==
    IF ~Found(t, p) \/ r.name \in Entries(t, Front(p)) THEN Err
    ELSE New(Put(Without(t, p), Front(p), r.name, Sub(t, p)))

RenameDirectory(t, r, p) == RenameTo(t, r, p)
RenameFile(t, r, p) == RenameTo(t, r, p)

CreateFile(t, r, p) ==
    IF ~Found(t, Front(p)) \/ Last(p) \in Entries(t, Front(p)) THEN Err
    ELSE New(Put(t, Front(p), Last(p), [s \in {<<>>} |-> File(r.content)]))

DeleteEntryOnly(t, r, p) == IF Found(t, p) THEN New(Restrict(t, DOMAIN t \ {p})) ELSE Err    \* a mutant
DeleteDirectory(t, r, p) ==
    IF Found(t, p) /\ t[p][1] = "d" THEN New(Without(t, p)) ELSE Err

DeleteFile(t, r, p) ==
    IF Found(t, p) /\ t[p][1] = "f" THEN New(Without(t, p)) ELSE Err

\* The items are names of one directory; the ones that are gone are left out.
BatchDeleteItems(t, r, p) ==
    LET gone == {x \in Range(r.items) : x \in DOMAIN t}
    IN IF ~Found(t, Front(p)) THEN Err
       ELSE IF gone = {} THEN Noop
       ELSE New(Restrict(t, DOMAIN t \ UNION {Under(t, x) : x \in gone}))

\* An upload overwrites whatever has the name, or takes a fresh name.
finalizeStoredUploadMetadataOnce(t, r, p) ==
    LET d == Front(p)
    IN IF ~Found(t, d) THEN Err
       ELSE New(Put(t, d, IF r.policy = "replace" THEN Last(p) ELSE GenerateUniqueName(Entries(t, d), Last(p)),
                    [s \in {<<>>} |-> File(r.content)]))

UploadFile(t, r, p) == finalizeStoredUploadMetadataOnce(t, r, p)

copyItemWithinRepo(t, r, p) ==
    IF ~Found(t, p) \/ ~Found(t, r.dst) THEN Err
    ELSE Place(t, r.dst, Last(p), Sub(t, p), r.policy)

CopyFile(t, r, p) == copyItemWithinRepo(t, r, p)

processSameRepoMove(t, r, p) ==
    LET u == Without(t, p)
    IN IF ~Found(t, p) THEN Err
       ELSE IF r.dst = Front(p) THEN Noop
       ELSE IF t[p][1] = "d" /\ IsPrefix(p, r.dst) THEN Err
       ELSE IF ~Found(u, r.dst) \/ u[r.dst][1] # "d" THEN Err
       ELSE Place(u, r.dst, Last(p), Sub(t, p), r.policy)

\* The single-item endpoint moves within one library only.
MoveFile(t, r, p) == processSameRepoMove(t, r, p)

\* s is the entry read from the source library, u the tree of the destination.
copyToDestination(u, s, r, p) ==
    IF ~Found(u, r.dst) THEN Err ELSE Place(u, r.dst, Last(p), s, r.policy)

\* A moved source is removed only while it still names what was copied.
skipSourceRemovalWhenGone(t, p, s) == ~Found(t, p)       \* a mutant
shouldSkipSourceRemovalAfterMove(t, p, s) == ~Found(t, p) \/ ~SameID(Sub(t, p), s)
removeMovedSource(t, p, s) ==
    IF shouldSkipSourceRemovalAfterMove(t, p, s) THEN Noop ELSE New(Without(t, p))

-----------------------------------------------------------------------------
(***************************************************************************)
(* Handlers that bring back an entry of an older commit, whose tree is old.*)
(***************************************************************************)
\* An entry that already has the old object is left alone.
Revert(t, old, r, p) ==
    LET d == Front(p)
    IN IF ~Found(t, d) THEN Err
       ELSE IF Last(p) \in Entries(t, d) /\ SameID(Sub(t, p), Sub(old, p)) THEN Noop
       ELSE Place(t, d, Last(p), Sub(old, p), r.policy)

RevertFile(t, old, r, p) == IF Found(old, p) THEN Revert(t, old, r, p) ELSE Err

RevertDirectory(t, old, r, p) == IF Found(old, p) /\ old[p][1] = "d" THEN Revert(t, old, r, p) ELSE Err

\* The entry list the trash handlers extend is the one the traversal to the parent returns: for a
\* parent that is not the root this is the list that NAMES the parent.  Unreachable parents fall
\* back to the root.  Whatever has the name there is replaced.
trashTarget(t, p) ==
    LET d == Front(p)
    IN IF d # <<>> /\ Reaches(t, d) THEN Front(d) ELSE <<>>
RestoreTrashItem(t, old, r, p) ==
    IF Found(old, p) THEN New(Put(t, trashTarget(t, p), Last(p), Sub(old, p))) ELSE Err
RevertDirents(t, old, r, p) ==
    IF Found(old, p) THEN New(Put(t, trashTarget(t, p), Last(p), Sub(old, p))) ELSE Err
=============================================================================
