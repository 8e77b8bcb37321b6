----------------------------- MODULE FileLocks -----------------------------
(***************************************************************************)
(* The rows of locked_files of one library (db/file_locks.go): a function  *)
(* from locked paths to their holders.  Each operator is one conditional   *)
(* statement of Cassandra or one scan; module LibraryHead interleaves them.*)
(***************************************************************************)
EXTENDS Integers, Sequences, SequencesExt, Functions

FileLockedByOther(rows, p, u) == p \in DOMAIN rows /\ rows[p] # u

SubtreeLockedByOther(rows, p, u) == \E q \in DOMAIN rows : IsPrefix(p, q) /\ rows[q] # u

listLocksUnder(rows, root) == {q \in DOMAIN rows : IsPrefix(root, q)}

\* INSERT ... IF NOT EXISTS
insertLock(rows, p, u) == IF p \in DOMAIN rows THEN rows ELSE [q \in DOMAIN rows \cup {p} |-> IF q = p THEN u ELSE rows[q]]

deleteLock(rows, p, u) == IF p \in DOMAIN rows /\ rows[p] = u THEN Restrict(rows, DOMAIN rows \ {p}) ELSE rows

rewriteLockedPath(oldRoot, newRoot, p) == newRoot \o SubSeq(p, Len(oldRoot) + 1, Len(p))

\* Insert at the new path and delete at the old one in a conditional batch: both or neither.
relocateLockRow(rows, p, np, u) ==
    IF p \in DOMAIN rows /\ rows[p] = u /\ np \notin DOMAIN rows
    THEN insertLock(deleteLock(rows, p, u), np, u)
    ELSE rows
=============================================================================
