----------------------------- MODULE SyncMerge -----------------------------
(***************************************************************************)
(* The three-way merge of directory trees by which the sync protocol       *)
(* accepts a commit whose parent is no longer HEAD.  A directory is a      *)
(* function from the names in it to entries; an entry is a file with its   *)
(* content or a directory with its own function.  The id of an object is   *)
(* the hash of its content, so equal ids are equal values.  An optional    *)
(* entry is a set with at most one member, and so is an optional result.   *)
(***************************************************************************)
EXTENDS Naturals, Sequences, TLC

File(c) == [dir |-> FALSE, id |-> c]
Dir(t) == [dir |-> TRUE, id |-> t]
Conflict == {}

EntryOf(t, n) == IF n \in DOMAIN t THEN {t[n]} ELSE {}
IsDir(e) == \A x \in e : x.dir
\* The tree under an optional directory entry; a missing base is the empty tree.
Under(e) == IF e = {} THEN <<>> ELSE (CHOOSE x \in e : TRUE).id

RECURSIVE mergeSyncDirectoryTrees(_, _, _)

\* A mutant: a name the target removed goes although HEAD has changed it since.
mergeRemovedWins(base, current, target) ==
    IF target = {} THEN {{}}
    ELSE IF current = target THEN {current}
    ELSE IF current = base THEN {target}
    ELSE IF target = base THEN {current}
    ELSE IF current # {} /\ IsDir(current) /\ IsDir(target) /\ IsDir(base)
         THEN {{Dir(t)} : t \in mergeSyncDirectoryTrees(Under(base), Under(current), Under(target))}
         ELSE Conflict

(***************************************************************************)
(* mergeSyncDirectoryEntry: a side that equals the base yields to the      *)
(* other, equal sides agree, directories on both sides (and in the base,   *)
(* if it has the name) are merged, anything else is a conflict.  The       *)
(* result is the set of the possible entries: one optional entry, or none. *)
(***************************************************************************)
mergeSyncDirectoryEntry(base, current, target) ==
    IF current = target THEN {current}
    ELSE IF current = base THEN {target}
    ELSE IF target = base THEN {current}
    ELSE IF current # {} /\ target # {} /\ IsDir(current) /\ IsDir(target) /\ IsDir(base)
         THEN {{Dir(t)} : t \in mergeSyncDirectoryTrees(Under(base), Under(current), Under(target))}
         ELSE Conflict

\* mergeSyncDirectoryTrees: name by name; one conflict refuses the whole merge.
mergeSyncDirectoryTrees(base, current, target) ==
    LET names == DOMAIN base \cup DOMAIN current \cup DOMAIN target
        merged == [n \in names |-> mergeSyncDirectoryEntry(EntryOf(base, n), EntryOf(current, n), EntryOf(target, n))]
        kept == {n \in names : \E e \in merged[n] : e # {}}
    IN  IF \E n \in names : merged[n] = Conflict
        THEN Conflict
        ELSE {[n \in kept |-> CHOOSE x \in CHOOSE e \in merged[n] : TRUE : TRUE]}

RECURSIVE collectSyncReachableFiles(_)
\* Every object a tree is made of, the directory itself included: what a walk from the root loads.
collectSyncReachableFiles(t) ==
    {Dir(t)} \cup UNION {IF t[n].dir THEN collectSyncReachableFiles(t[n].id) ELSE {t[n]} : n \in DOMAIN t}

RECURSIVE PathsOf(_)
\* The paths of a tree.
PathsOf(t) ==
    UNION {{<<n>>} \cup (IF t[n].dir THEN {<<n>> \o p : p \in PathsOf(t[n].id)} ELSE {}) : n \in DOMAIN t}

RECURSIVE At(_, _)
\* What a tree has at a path: a file with its content, a directory, or nothing.
At(t, p) ==
    IF Head(p) \notin DOMAIN t THEN {}
    ELSE LET e == t[Head(p)]
         IN  IF Len(p) = 1 THEN {IF e.dir THEN Dir(<<>>) ELSE e}
             ELSE IF e.dir THEN At(e.id, Tail(p)) ELSE {}

\* The paths at which two trees differ.
Changes(s, t) == {p \in PathsOf(s) \cup PathsOf(t) : At(s, p) # At(t, p)}
=============================================================================
