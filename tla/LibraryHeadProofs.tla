------------------------- MODULE LibraryHeadProofs -------------------------
(***************************************************************************)
(* What the file handlers do to the histories of the libraries, for any    *)
(* number of workers, libraries and attempts and for any requests, trees   *)
(* and lock rows (LibraryHead).  First what an operation makes of a tree;  *)
(* then the invariant HeadInv, one step of a worker after another; then    *)
(* the locks, with the invariant HeldInv; the theorems are at the end.     *)
(***************************************************************************)
EXTENDS LibraryHead, FiniteSetTheorems, SequenceTheorems, WellFoundedInduction, TLAPS

-----------------------------------------------------------------------------
(* Paths *)

LEMMA PathSub ==
    ASSUME NEW p \in Paths, NEW k \in 0 .. Len(p)
    PROVE  /\ SubSeq(p, 1, k) \in Paths /\ Len(SubSeq(p, 1, k)) = k
           /\ \A i \in 1 .. k : SubSeq(p, 1, k)[i] = p[i]
  BY DEF Paths

LEMMA PathEqual ==
    ASSUME NEW p \in Paths, NEW q \in Paths, Len(p) = Len(q), \A i \in 1 .. Len(p) : p[i] = q[i]
    PROVE  p = q
  BY SeqEqual DEF Paths

LEMMA PrefixIndex ==
    ASSUME NEW p \in Paths, NEW q \in Paths
    PROVE  IsPrefix(p, q) <=> Len(p) <= Len(q) /\ \A i \in 1 .. Len(p) : p[i] = q[i]
<1>1. Len(p) \in Nat /\ Len(q) \in Nat
  BY DEF Paths
<1>2. SubSeq(p, 1, Len(p)) = p
  BY SubSeqFull DEF Paths
<1>3. CASE Len(p) <= Len(q)
  <2>1. SubSeq(q, 1, Len(p)) \in Paths /\ Len(SubSeq(q, 1, Len(p))) = Len(p)
        /\ \A i \in 1 .. Len(p) : SubSeq(q, 1, Len(p))[i] = q[i]
    BY <1>1, <1>3, PathSub
  <2>2. (\A i \in 1 .. Len(p) : p[i] = q[i]) => p = SubSeq(q, 1, Len(p))
    BY <2>1, PathEqual
  <2> QED
    BY <1>2, <1>3, <2>1, <2>2 DEF IsPrefix
<1>4. CASE ~(Len(p) <= Len(q))
  BY <1>4 DEF IsPrefix
<1> QED
  BY <1>3, <1>4

LEMMA PathAppend ==
    ASSUME NEW d \in Paths, NEW n \in Names
    PROVE  /\ Append(d, n) \in Paths /\ Len(Append(d, n)) = Len(d) + 1 /\ Append(d, n) # <<>>
           /\ Append(d, n)[Len(d) + 1] = n /\ \A i \in 1 .. Len(d) : Append(d, n)[i] = d[i]
           /\ Last(Append(d, n)) = n
  BY DEF Paths, Last

LEMMA PathFront ==
    ASSUME NEW p \in Paths, p # <<>>
    PROVE  /\ Front(p) \in Paths /\ Len(Front(p)) = Len(p) - 1 /\ Len(p) \in Nat \ {0}
           /\ Last(p) \in Names /\ Append(Front(p), Last(p)) = p
           /\ \A i \in 1 .. Len(p) - 1 : Front(p)[i] = p[i]
<1>1. Len(p) \in Nat \ {0}
  BY EmptySeq DEF Paths
<1>2. Front(p) \in Paths /\ Len(Front(p)) = Len(p) - 1 /\ \A i \in 1 .. Len(p) - 1 : Front(p)[i] = p[i]
  <2> DEFINE k == Len(p) - 1
  <2>1. k \in 0 .. Len(p)
    BY <1>1
  <2>2. /\ SubSeq(p, 1, k) \in Paths /\ Len(SubSeq(p, 1, k)) = k
        /\ \A i \in 1 .. k : SubSeq(p, 1, k)[i] = p[i]
    BY <2>1, PathSub
  <2> QED
    BY <2>2 DEF Front
<1>3. Last(p) \in Names
  BY <1>1 DEF Last, Paths
<1>4. Append(Front(p), Last(p)) = p
  <2>1. /\ Append(Front(p), Last(p)) \in Paths /\ Len(Append(Front(p), Last(p))) = Len(p)
        /\ Append(Front(p), Last(p))[Len(p)] = Last(p)
        /\ \A i \in 1 .. Len(p) - 1 : Append(Front(p), Last(p))[i] = Front(p)[i]
    BY <1>1, <1>2, <1>3, PathAppend
  <2>2. \A i \in 1 .. Len(p) : Append(Front(p), Last(p))[i] = p[i]
    BY <1>1, <1>2, <2>1 DEF Last
  <2> QED
    BY <2>1, <2>2, PathEqual
<1> QED
  BY <1>1, <1>2, <1>3, <1>4

LEMMA PathConcat ==
    ASSUME NEW p \in Paths, NEW x \in Paths
    PROVE  /\ p \o x \in Paths /\ Len(p \o x) = Len(p) + Len(x) /\ IsPrefix(p, p \o x)
           /\ SubSeq(p \o x, Len(p) + 1, Len(p \o x)) = x
<1>1. /\ p \o x \in Paths /\ Len(p \o x) = Len(p) + Len(x)
      /\ \A i \in 1 .. Len(p) + Len(x) : (p \o x)[i] = IF i <= Len(p) THEN p[i] ELSE x[i - Len(p)]
  BY ConcatProperties DEF Paths
<1>2. Len(p) \in Nat /\ Len(x) \in Nat
  BY DEF Paths
<1>3. IsPrefix(p, p \o x)
  <2>1. Len(p) <= Len(p \o x) /\ \A i \in 1 .. Len(p) : p[i] = (p \o x)[i]
    BY <1>1, <1>2
  <2> QED
    BY <1>1, <2>1, PrefixIndex
<1>4. SubSeq(p \o x, Len(p) + 1, Len(p \o x)) = x
  <2> DEFINE y == SubSeq(p \o x, Len(p) + 1, Len(p \o x))
  <2>1. \A i \in Len(p) + 1 .. Len(p) + Len(x) : (p \o x)[i] \in Names
    BY <1>1, <1>2 DEF Paths
  <2>2. /\ y \in Paths /\ Len(y) = Len(x) /\ \A i \in 1 .. Len(x) : y[i] = (p \o x)[Len(p) + i]
    <3>1. /\ y \in Seq(Names) /\ Len(y) = IF Len(p) + 1 <= Len(p) + Len(x) THEN Len(p) + Len(x) - (Len(p) + 1) + 1 ELSE 0
          /\ \A i \in 1 .. Len(p) + Len(x) - (Len(p) + 1) + 1 : y[i] = (p \o x)[Len(p) + 1 + i - 1]
      BY <1>1, <1>2, <2>1, SubSeqProperties
    <3>2. Len(y) = Len(x)
      BY <3>1, <1>2
    <3>3. \A i \in 1 .. Len(x) : y[i] = (p \o x)[Len(p) + i]
      BY <3>1, <1>2
    <3> QED
      BY <3>1, <3>2, <3>3 DEF Paths
  <2>3. \A i \in 1 .. Len(x) : y[i] = x[i]
    BY <1>1, <1>2, <2>2
  <2> QED
    BY <2>2, <2>3, PathEqual
<1> QED
  BY <1>1, <1>3, <1>4

\* The parts of a concatenation.
LEMMA ConcatPart ==
    ASSUME NEW p \in Paths, NEW x \in Paths, NEW k \in 0 .. Len(x)
    PROVE  SubSeq(p \o x, 1, Len(p) + k) = p \o SubSeq(x, 1, k)
<1>0. Len(p) \in Nat /\ Len(x) \in Nat
  BY DEF Paths
<1>1. SubSeq(x, 1, k) \in Paths /\ Len(SubSeq(x, 1, k)) = k /\ \A i \in 1 .. k : SubSeq(x, 1, k)[i] = x[i]
  BY PathSub
<1>2. /\ p \o x \in Paths /\ Len(p \o x) = Len(p) + Len(x)
      /\ \A i \in 1 .. Len(p) + Len(x) : (p \o x)[i] = IF i <= Len(p) THEN p[i] ELSE x[i - Len(p)]
  BY ConcatProperties DEF Paths
<1>3. /\ p \o SubSeq(x, 1, k) \in Paths /\ Len(p \o SubSeq(x, 1, k)) = Len(p) + k
      /\ \A i \in 1 .. Len(p) + k : (p \o SubSeq(x, 1, k))[i] = IF i <= Len(p) THEN p[i] ELSE SubSeq(x, 1, k)[i - Len(p)]
  BY <1>1, ConcatProperties DEF Paths
<1>4. Len(p) + k \in 0 .. Len(p \o x)
  BY <1>0, <1>2
<1>5. /\ SubSeq(p \o x, 1, Len(p) + k) \in Paths /\ Len(SubSeq(p \o x, 1, Len(p) + k)) = Len(p) + k
      /\ \A i \in 1 .. Len(p) + k : SubSeq(p \o x, 1, Len(p) + k)[i] = (p \o x)[i]
  BY <1>2, <1>4, PathSub
<1>6. \A i \in 1 .. Len(p) + k : SubSeq(p \o x, 1, Len(p) + k)[i] = (p \o SubSeq(x, 1, k))[i]
  BY <1>0, <1>1, <1>2, <1>3, <1>5
<1> QED
  BY <1>3, <1>5, <1>6, PathEqual

LEMMA ConcatHead ==
    ASSUME NEW d \in Paths, NEW n \in Names, NEW x \in Paths, NEW k \in 0 .. Len(d)
    PROVE  SubSeq(Append(d, n) \o x, 1, k) = SubSeq(d, 1, k)
<1> DEFINE p == Append(d, n)
<1>0. Len(d) \in Nat /\ Len(x) \in Nat
  BY DEF Paths
<1>1. p \in Paths /\ Len(p) = Len(d) + 1 /\ \A i \in 1 .. Len(d) : p[i] = d[i]
  BY PathAppend
<1> HIDE DEF p
<1>2. /\ p \o x \in Paths /\ Len(p \o x) = Len(p) + Len(x)
      /\ \A i \in 1 .. Len(p) + Len(x) : (p \o x)[i] = IF i <= Len(p) THEN p[i] ELSE x[i - Len(p)]
  BY <1>1, ConcatProperties DEF Paths
<1>3. k \in 0 .. Len(p \o x)
  BY <1>0, <1>1, <1>2
<1>4. /\ SubSeq(p \o x, 1, k) \in Paths /\ Len(SubSeq(p \o x, 1, k)) = k
      /\ \A i \in 1 .. k : SubSeq(p \o x, 1, k)[i] = (p \o x)[i]
  BY <1>2, <1>3, PathSub
<1>5. SubSeq(d, 1, k) \in Paths /\ Len(SubSeq(d, 1, k)) = k /\ \A i \in 1 .. k : SubSeq(d, 1, k)[i] = d[i]
  BY PathSub
<1>6. \A i \in 1 .. k : SubSeq(p \o x, 1, k)[i] = SubSeq(d, 1, k)[i]
  BY <1>0, <1>1, <1>2, <1>4, <1>5
<1>7. SubSeq(p \o x, 1, k) = SubSeq(d, 1, k)
  BY <1>4, <1>5, <1>6, PathEqual
<1> QED
  BY <1>7 DEF p

LEMMA PathSplit ==
    ASSUME NEW p \in Paths, NEW q \in Paths, IsPrefix(p, q)
    PROVE  /\ SubSeq(q, Len(p) + 1, Len(q)) \in Paths
           /\ q = p \o SubSeq(q, Len(p) + 1, Len(q))
<1> DEFINE y == SubSeq(q, Len(p) + 1, Len(q))
<1>1. Len(p) \in Nat /\ Len(q) \in Nat /\ Len(p) <= Len(q) /\ \A i \in 1 .. Len(p) : p[i] = q[i]
  BY PrefixIndex DEF Paths
<1>2. \A i \in Len(p) + 1 .. Len(q) : q[i] \in Names
  BY <1>1 DEF Paths
<1>3. /\ y \in Seq(Names) /\ Len(y) = (IF Len(p) + 1 <= Len(q) THEN Len(q) - (Len(p) + 1) + 1 ELSE 0)
      /\ \A i \in 1 .. Len(q) - (Len(p) + 1) + 1 : y[i] = q[Len(p) + 1 + i - 1]
  BY <1>1, <1>2, SubSeqProperties
<1>4. Len(y) = Len(q) - Len(p) /\ \A i \in 1 .. Len(q) - Len(p) : y[i] = q[Len(p) + i]
  BY <1>1, <1>3
<1>5. /\ p \o y \in Paths /\ Len(p \o y) = Len(q)
      /\ \A i \in 1 .. Len(q) : (p \o y)[i] = IF i <= Len(p) THEN p[i] ELSE y[i - Len(p)]
  <2>1. p \in Seq(Names) /\ y \in Seq(Names)
    BY <1>3 DEF Paths
  <2>2. /\ p \o y \in Seq(Names) /\ Len(p \o y) = Len(p) + Len(y)
        /\ \A i \in 1 .. Len(p) + Len(y) : (p \o y)[i] = IF i <= Len(p) THEN p[i] ELSE y[i - Len(p)]
    BY <2>1, ConcatProperties
  <2> QED
    BY <1>1, <1>4, <2>2 DEF Paths
<1>6. \A i \in 1 .. Len(q) : (p \o y)[i] = q[i]
  BY <1>1, <1>4, <1>5
<1> QED
  BY <1>3, <1>5, <1>6, PathEqual DEF Paths

LEMMA PrefixOfPart ==
    ASSUME NEW p \in Paths, NEW q \in Paths, NEW k \in 0 .. Len(q)
    PROVE  IsPrefix(p, SubSeq(q, 1, k)) <=> IsPrefix(p, q) /\ Len(p) <= k
<1>1. SubSeq(q, 1, k) \in Paths /\ Len(SubSeq(q, 1, k)) = k /\ \A i \in 1 .. k : SubSeq(q, 1, k)[i] = q[i]
  BY PathSub
<1>2. Len(p) \in Nat /\ Len(q) \in Nat
  BY DEF Paths
<1>3. IsPrefix(p, SubSeq(q, 1, k)) <=> Len(p) <= k /\ \A i \in 1 .. Len(p) : p[i] = SubSeq(q, 1, k)[i]
  BY <1>1, PrefixIndex
<1>4. IsPrefix(p, q) <=> Len(p) <= Len(q) /\ \A i \in 1 .. Len(p) : p[i] = q[i]
  BY PrefixIndex
<1> QED
  BY <1>1, <1>2, <1>3, <1>4

\* What is above a path is not beneath it.
LEMMA NotUnder ==
    ASSUME NEW p \in Paths, NEW q \in Paths, Len(q) < Len(p)
    PROVE  ~IsPrefix(p, q)
  BY DEF IsPrefix, Paths

-----------------------------------------------------------------------------
(* Trees *)

\* A tree whose paths are made of names.
TreeOK(t) == IsTree(t) /\ DOMAIN t \subseteq Paths

LEMMA RestrictTree ==
    ASSUME NEW t, TreeOK(t), NEW S \in SUBSET DOMAIN t, <<>> \in S,
           \A q \in S : \A k \in 0 .. Len(q) : SubSeq(q, 1, k) \in S
    PROVE  TreeOK(Restrict(t, S)) /\ DOMAIN Restrict(t, S) = S /\ \A q \in S : Restrict(t, S)[q] = t[q]
<1>1. IsFiniteSet(S)
  BY FS_Subset DEF TreeOK, IsTree
<1> QED
  BY <1>1 DEF TreeOK, IsTree, Restrict

\* The domain without what is beneath the paths of X is a tree, when the root is not in X.
LEMMA WithoutAll ==
    ASSUME NEW t, TreeOK(t), NEW X \in SUBSET (Paths \ {<<>>})
    PROVE  LET S == DOMAIN t \ UNION {Under(t, x) : x \in X}
           IN  TreeOK(Restrict(t, S)) /\ DOMAIN Restrict(t, S) = S /\ \A q \in S : Restrict(t, S)[q] = t[q]
<1> DEFINE S == DOMAIN t \ UNION {Under(t, x) : x \in X}
<1>1. <<>> \in S
  <2>1. <<>> \in DOMAIN t /\ <<>> \in Paths /\ Len(<<>>) = 0
    BY EmptySeq DEF TreeOK, IsTree, Paths
  <2>2. \A x \in X : Len(x) > 0
    BY EmptySeq DEF Paths
  <2>3. \A x \in X : ~IsPrefix(x, <<>>)
    BY <2>1, <2>2, NotUnder
  <2> QED
    BY <2>1, <2>3 DEF Under
<1>2. ASSUME NEW q \in S, NEW k \in 0 .. Len(q)
      PROVE  SubSeq(q, 1, k) \in S
  <2>1. q \in Paths /\ q \in DOMAIN t /\ SubSeq(q, 1, k) \in DOMAIN t
    BY <1>2 DEF TreeOK, IsTree
  <2>2. \A x \in X : ~IsPrefix(x, SubSeq(q, 1, k))
    BY <1>2, <2>1, PrefixOfPart DEF Under
  <2> QED
    BY <2>1, <2>2 DEF Under
<1> QED
  BY <1>1, <1>2, RestrictTree

LEMMA WithoutTree ==
    ASSUME NEW t, TreeOK(t), NEW p \in Paths, p # <<>>
    PROVE  /\ TreeOK(Without(t, p))
           /\ DOMAIN Without(t, p) = {q \in DOMAIN t : ~IsPrefix(p, q)}
           /\ \A q \in DOMAIN Without(t, p) : Without(t, p)[q] = t[q]
<1> DEFINE S == DOMAIN t \ Under(t, p)
<1>1. {p} \in SUBSET (Paths \ {<<>>}) /\ UNION {Under(t, x) : x \in {p}} = Under(t, p)
  OBVIOUS
<1>2. TreeOK(Restrict(t, S)) /\ DOMAIN Restrict(t, S) = S /\ \A q \in S : Restrict(t, S)[q] = t[q]
  BY <1>1, WithoutAll
<1> QED
  BY <1>2 DEF Without, Under

LEMMA SubTree ==
    ASSUME NEW t, TreeOK(t), NEW p \in DOMAIN t
    PROVE  /\ TreeOK(Sub(t, p)) /\ DOMAIN Sub(t, p) = {x \in Paths : p \o x \in DOMAIN t}
           /\ \A x \in DOMAIN Sub(t, p) : Sub(t, p)[x] = t[p \o x]
<1> DEFINE suffix == [q \in Under(t, p) |-> SubSeq(q, Len(p) + 1, Len(q))]
           D == {SubSeq(q, Len(p) + 1, Len(q)) : q \in Under(t, p)}
<1>0. p \in Paths /\ DOMAIN t \subseteq Paths /\ Under(t, p) \subseteq DOMAIN t /\ Len(p) \in Nat
  BY DEF TreeOK, Under, Paths
<1>1. D = {x \in Paths : p \o x \in DOMAIN t}
  <2>1. ASSUME NEW q \in Under(t, p)
        PROVE  SubSeq(q, Len(p) + 1, Len(q)) \in Paths /\ p \o SubSeq(q, Len(p) + 1, Len(q)) \in DOMAIN t
    <3>1. IsPrefix(p, q) /\ q \in Paths /\ q \in DOMAIN t
      BY <1>0 DEF Under
    <3> QED
      BY <1>0, <3>1, PathSplit
  <2>2. ASSUME NEW x \in Paths, p \o x \in DOMAIN t
        PROVE  p \o x \in Under(t, p) /\ SubSeq(p \o x, Len(p) + 1, Len(p \o x)) = x
    BY <1>0, <2>2, PathConcat DEF Under
  <2> QED
    BY <2>1, <2>2
<1>2. IsFiniteSet(D)
  <2>1. IsFiniteSet(Under(t, p))
    BY <1>0, FS_Subset DEF TreeOK, IsTree
  <2>2. suffix \in Surjection(Under(t, p), D)
    BY DEF Surjection
  <2> QED
    BY <2>1, <2>2, FS_Surjection
<1>3. <<>> \in D
  <2>1. <<>> \in Paths /\ p \o <<>> = p
    BY <1>0, EmptySeq, ConcatEmptySeq DEF Paths
  <2> QED
    BY <1>1, <2>1
<1>4. ASSUME NEW x \in D, NEW k \in 0 .. Len(x)
      PROVE  SubSeq(x, 1, k) \in D
  <2>1. x \in Paths /\ p \o x \in DOMAIN t /\ Len(x) \in Nat
    BY <1>1, <1>4 DEF Paths
  <2>2. SubSeq(x, 1, k) \in Paths /\ Len(SubSeq(x, 1, k)) = k /\ \A i \in 1 .. k : SubSeq(x, 1, k)[i] = x[i]
    BY <2>1, PathSub
  <2>3. SubSeq(p \o x, 1, Len(p) + k) = p \o SubSeq(x, 1, k)
    BY <1>0, <2>1, ConcatPart
  <2>4. Len(p) + k \in 0 .. Len(p \o x)
    BY <1>0, <2>1, PathConcat
  <2>5. SubSeq(p \o x, 1, Len(p) + k) \in DOMAIN t
    BY <2>1, <2>4 DEF TreeOK, IsTree
  <2> QED
    BY <1>1, <2>2, <2>3, <2>5
<1>5. Sub(t, p) = [s \in D |-> t[p \o s]]
  BY DEF Sub
<1> QED
  BY <1>1, <1>2, <1>3, <1>4, <1>5 DEF TreeOK, IsTree

LEMMA EntriesSpec ==
    ASSUME NEW t, TreeOK(t), NEW d \in Paths
    PROVE  /\ Entries(t, d) = {n \in Names : Append(d, n) \in DOMAIN t}
           /\ IsFiniteSet(Entries(t, d))
<1> DEFINE X == {x \in DOMAIN t : Len(x) = Len(d) + 1 /\ IsPrefix(d, x)}
           name == [q \in X |-> q[Len(q)]]
<1>1. Entries(t, d) = {q[Len(q)] : q \in X}
  BY DEF Entries
<1>2. IsFiniteSet(Entries(t, d))
  <2>1. IsFiniteSet(X)
    BY FS_Subset DEF TreeOK, IsTree
  <2>2. name \in Surjection(X, Entries(t, d))
    BY <1>1 DEF Surjection
  <2> QED
    BY <2>1, <2>2, FS_Surjection
<1>3. ASSUME NEW q \in X
      PROVE  q[Len(q)] \in Names /\ Append(d, q[Len(q)]) \in DOMAIN t
  <2>1. q \in Paths /\ Len(q) = Len(d) + 1 /\ Len(d) \in Nat /\ q \in DOMAIN t /\ IsPrefix(d, q)
    BY DEF TreeOK, Paths
  <2>2. q[Len(q)] \in Names
    BY <2>1 DEF Paths
  <2>3. \A i \in 1 .. Len(d) : d[i] = q[i]
    BY <2>1, PrefixIndex
  <2>4. /\ Append(d, q[Len(q)]) \in Paths /\ Len(Append(d, q[Len(q)])) = Len(d) + 1
        /\ Append(d, q[Len(q)])[Len(d) + 1] = q[Len(q)] /\ \A i \in 1 .. Len(d) : Append(d, q[Len(q)])[i] = d[i]
    BY <2>2, PathAppend
  <2>5. \A i \in 1 .. Len(q) : Append(d, q[Len(q)])[i] = q[i]
    BY <2>1, <2>3, <2>4
  <2>6. Append(d, q[Len(q)]) = q
    BY <2>1, <2>4, <2>5, PathEqual
  <2> QED
    BY <2>1, <2>2, <2>6
<1>4. ASSUME NEW n \in Names, Append(d, n) \in DOMAIN t
      PROVE  n \in Entries(t, d)
  <2>1. /\ Append(d, n) \in Paths /\ Len(Append(d, n)) = Len(d) + 1 /\ Append(d, n)[Len(d) + 1] = n
        /\ \A i \in 1 .. Len(d) : Append(d, n)[i] = d[i]
    BY PathAppend DEF Paths
  <2>2. Len(d) \in Nat
    BY DEF Paths
  <2>3. IsPrefix(d, Append(d, n))
    <3>1. Len(d) <= Len(Append(d, n)) /\ \A i \in 1 .. Len(d) : d[i] = Append(d, n)[i]
      BY <2>1, <2>2
    <3> QED
      BY <2>1, <3>1, PrefixIndex
  <2>4. Append(d, n) \in X /\ Append(d, n)[Len(Append(d, n))] = n
    BY <1>4, <2>1, <2>3
  <2> QED
    BY <1>1, <2>4
<1> QED
  BY <1>1, <1>2, <1>3, <1>4

\* A name that is not in the list of d has nothing beneath it.
LEMMA NoEntry ==
    ASSUME NEW t, TreeOK(t), NEW d \in Paths, NEW n \in Names, n \notin Entries(t, d), NEW q \in DOMAIN t
    PROVE  ~IsPrefix(Append(d, n), q)
<1> SUFFICES ASSUME IsPrefix(Append(d, n), q) PROVE FALSE
  OBVIOUS
<1>1. Append(d, n) \in Paths /\ Len(Append(d, n)) = Len(d) + 1 /\ q \in Paths /\ Len(d) \in Nat
  BY PathAppend DEF TreeOK, Paths
<1>2. Len(d) + 1 \in 0 .. Len(q) /\ \A i \in 1 .. Len(d) + 1 : Append(d, n)[i] = q[i]
  <2>1. Len(Append(d, n)) <= Len(q) /\ \A i \in 1 .. Len(Append(d, n)) : Append(d, n)[i] = q[i]
    BY <1>1, PrefixIndex
  <2>2. Len(q) \in Nat
    BY <1>1 DEF Paths
  <2> QED
    BY <1>1, <2>1, <2>2
<1>3. SubSeq(q, 1, Len(d) + 1) \in DOMAIN t
  BY <1>2 DEF TreeOK, IsTree
<1>4. SubSeq(q, 1, Len(d) + 1) = Append(d, n)
  <2>1. /\ SubSeq(q, 1, Len(d) + 1) \in Paths /\ Len(SubSeq(q, 1, Len(d) + 1)) = Len(d) + 1
        /\ \A i \in 1 .. Len(d) + 1 : SubSeq(q, 1, Len(d) + 1)[i] = q[i]
    BY <1>1, <1>2, PathSub
  <2> QED
    BY <1>1, <1>2, <2>1, PathEqual
<1>5. Append(d, n) \in DOMAIN t
  BY <1>3, <1>4
<1> QED
  BY <1>5, EntriesSpec

LEMMA LeastNumber ==
    ASSUME NEW S \in SUBSET Nat, S # {}
    PROVE  \E k \in S : \A j \in S : k <= j
<1>1. PICK k \in S : \A j \in S : <<j, k>> \notin OpToRel(<, Nat)
  BY NatLessThanWellFounded, WFMin, Zenon
<1>2. \A j \in S : ~(j < k)
  BY <1>1 DEF OpToRel
<1> QED
  BY <1>2

LEMMA Collision ==
    ASSUME NEW S, NEW E, NEW f \in [S -> E], IsFiniteSet(S), IsFiniteSet(E), Cardinality(E) < Cardinality(S)
    PROVE  \E x, y \in S : x # y /\ f[x] = f[y]
  BY FS_PigeonHole

\* The unique name is not in the list (GenerateUniqueName): one of Cardinality(E) + 1 numbers is free.
LEMMA FreshName ==
    ASSUME NEW E, IsFiniteSet(E), NEW n \in Names
    PROVE  GenerateUniqueName(E, n) \in Names \ E
<1> DEFINE c == Cardinality(E)
           f == [k \in 1 .. c + 1 |-> Append(n, k)]
           Free == {k \in 1 .. c + 1 : Append(n, k) \notin E}
<1>1. c \in Nat
  BY FS_CardinalityType
<1>8. IsFiniteSet(1 .. c + 1) /\ Cardinality(1 .. c + 1) = c + 1
  <2> HIDE DEF c
  <2>1. 1 \in Int /\ c + 1 \in Int /\ c + 1 - 1 + 1 = c + 1 /\ ~(1 > c + 1)
    BY <1>1
  <2> QED
    BY <2>1, FS_Interval
<1>2. \A k \in Nat : Append(n, k) \in Names /\ Append(n, k)[Len(n) + 1] = k
  BY DEF Names
<1>3. Free # {}
  <2> SUFFICES ASSUME Free = {} PROVE FALSE
    OBVIOUS
  <2>1. f \in [1 .. c + 1 -> E]
    OBVIOUS
  <2>2. Cardinality(E) < Cardinality(1 .. c + 1)
    BY <1>1, <1>8
  <2>3. \E x, y \in 1 .. c + 1 : x # y /\ f[x] = f[y]
    <3> HIDE DEF c, f, Free
    <3> QED
      BY <1>8, <2>1, <2>2, Collision
  <2>4. PICK x, y \in 1 .. c + 1 : x # y /\ Append(n, x) = Append(n, y)
    BY <2>3
  <2> QED
    BY <1>1, <1>2, <2>4
<1>4. Free \subseteq Nat
  BY <1>1
<1>5. \E k \in Free : \A j \in Free : k <= j
  BY <1>3, <1>4, LeastNumber
<1>6. Smallest(Free) \in Free
  BY <1>5 DEF Smallest
<1>7. CASE n \in E
  BY <1>2, <1>4, <1>6, <1>7 DEF GenerateUniqueName
<1> QED
  BY <1>7 DEF GenerateUniqueName

\* Put binds a name of d to s and leaves every other path with its entry, d itself aside.
LEMMA PutTree ==
    ASSUME NEW t, TreeOK(t), NEW s, TreeOK(s), NEW d \in DOMAIN t, NEW n \in Names
    PROVE  LET T == Put(t, d, n, s)  p == Append(d, n)
           IN  /\ TreeOK(T)
               /\ p \in DOMAIN T /\ Sub(T, p) = s
               /\ \A q \in DOMAIN t : ~IsPrefix(p, q) => q \in DOMAIN T /\ (q # d => T[q] = t[q])
<1> DEFINE T == Put(t, d, n, s)
           p == Append(d, n)
           u == Without(t, p)
           image == [x \in DOMAIN s |-> p \o x]
           N == {p \o x : x \in DOMAIN s}
<1>0. /\ d \in Paths /\ Len(d) \in Nat /\ p \in Paths /\ Len(p) = Len(d) + 1 /\ p # <<>>
      /\ DOMAIN t \subseteq Paths /\ DOMAIN s \subseteq Paths
  BY PathAppend DEF TreeOK, Paths
<1>1. /\ TreeOK(u) /\ DOMAIN u = {q \in DOMAIN t : ~IsPrefix(p, q)}
      /\ \A q \in DOMAIN u : u[q] = t[q]
  BY <1>0, WithoutTree
<1>2. T = [q \in DOMAIN u \cup N |->
             IF IsPrefix(p, q) THEN s[SubSeq(q, Len(p) + 1, Len(q))]
             ELSE IF q = d THEN <<u[q][1], DirObj>> ELSE u[q]]
  BY DEF Put
<1> HIDE DEF T, p, u
<1>3. DOMAIN T = DOMAIN u \cup N /\ T = [q \in DOMAIN T |-> T[q]]
  BY <1>2
<1>4. \A x \in DOMAIN s : p \o x \in Paths /\ IsPrefix(p, p \o x) /\ SubSeq(p \o x, Len(p) + 1, Len(p \o x)) = x
  BY <1>0, PathConcat
<1>5. IsFiniteSet(DOMAIN T)
  <2>1. IsFiniteSet(DOMAIN s) /\ IsFiniteSet(DOMAIN u)
    BY <1>1 DEF TreeOK, IsTree
  <2>2. image \in Surjection(DOMAIN s, N)
    BY DEF Surjection
  <2>3. IsFiniteSet(N)
    BY <2>1, <2>2, FS_Surjection
  <2> HIDE DEF N
  <2>4. IsFiniteSet(DOMAIN u \cup N)
    BY <2>1, <2>3, FS_Union
  <2> QED
    BY <1>3, <2>4
<1>6. ASSUME NEW q \in DOMAIN T, NEW k \in 0 .. Len(q)
      PROVE  SubSeq(q, 1, k) \in DOMAIN T
  <2>1. CASE q \in DOMAIN u
    BY <1>1, <1>3, <1>6, <2>1 DEF TreeOK, IsTree
  <2>2. CASE q \in N
    <3>1. PICK x \in DOMAIN s : q = p \o x
      BY <2>2
    <3>2. x \in Paths /\ Len(x) \in Nat /\ Len(q) = Len(p) + Len(x)
      <4>1. x \in Paths
        BY <1>0
      <4>2. Len(p \o x) = Len(p) + Len(x)
        BY <1>0, <4>1, PathConcat
      <4> QED
        BY <3>1, <4>1, <4>2 DEF Paths
    <3>3. CASE k <= Len(d)
      <4>1. SubSeq(q, 1, k) = SubSeq(d, 1, k) /\ k \in 0 .. Len(d)
        BY <1>0, <1>6, <3>1, <3>2, <3>3, ConcatHead DEF p
      <4>2. SubSeq(d, 1, k) \in DOMAIN t /\ SubSeq(d, 1, k) \in Paths /\ Len(SubSeq(d, 1, k)) = k
        BY <1>0, <4>1, PathSub DEF TreeOK, IsTree
      <4>3. ~IsPrefix(p, SubSeq(d, 1, k))
        <5>1. Len(SubSeq(d, 1, k)) < Len(p)
          BY <1>0, <3>3, <4>1, <4>2
        <5> QED
          BY <1>0, <4>2, <5>1, NotUnder
      <4> QED
        BY <1>1, <1>3, <4>1, <4>2, <4>3
    <3>4. CASE ~(k <= Len(d))
      <4> DEFINE j == k - Len(p)
      <4>1. j \in 0 .. Len(x) /\ k = Len(p) + j
        BY <1>0, <1>6, <3>2, <3>4
      <4> HIDE DEF j
      <4>2. SubSeq(q, 1, k) = p \o SubSeq(x, 1, j)
        BY <1>0, <3>1, <3>2, <4>1, ConcatPart
      <4>3. SubSeq(x, 1, j) \in DOMAIN s
        BY <4>1 DEF TreeOK, IsTree
      <4> QED
        BY <1>3, <4>2, <4>3
    <3> QED
      BY <3>3, <3>4
  <2> QED
    BY <1>3, <2>1, <2>2
<1>7. TreeOK(T)
  <2>1. <<>> \in DOMAIN T
    BY <1>1, <1>3 DEF TreeOK, IsTree
  <2>2. DOMAIN T \subseteq Paths
    <3>1. N \subseteq Paths
      BY <1>4
    <3>2. DOMAIN u \subseteq Paths
      BY <1>0, <1>1
    <3> HIDE DEF N
    <3> QED
      BY <1>3, <3>1, <3>2
  <2> QED
    BY <1>3, <1>5, <1>6, <2>1, <2>2 DEF TreeOK, IsTree
<1>8. p \in DOMAIN T
  <2>1. <<>> \in DOMAIN s /\ p \o <<>> = p
    BY <1>0, ConcatEmptySeq DEF TreeOK, IsTree, Paths
  <2> QED
    BY <1>3, <2>1
<1>9. Sub(T, p) = s
  <2>1. /\ TreeOK(Sub(T, p)) /\ DOMAIN Sub(T, p) = {x \in Paths : p \o x \in DOMAIN T}
        /\ \A x \in DOMAIN Sub(T, p) : Sub(T, p)[x] = T[p \o x]
    BY <1>7, <1>8, SubTree
  <2>2. \A x \in DOMAIN s : p \o x \in DOMAIN T /\ T[p \o x] = s[x]
    BY <1>2, <1>3, <1>4
  <2>3. ASSUME NEW x \in Paths, p \o x \in DOMAIN T
        PROVE  x \in DOMAIN s
    <3>1. IsPrefix(p, p \o x) /\ SubSeq(p \o x, Len(p) + 1, Len(p \o x)) = x
      BY <1>0, PathConcat
    <3>2. p \o x \in N
      BY <1>1, <1>3, <2>3, <3>1
    <3> QED
      BY <1>4, <3>1, <3>2
  <2>4. DOMAIN Sub(T, p) = DOMAIN s
    BY <1>0, <2>1, <2>2, <2>3
  <2>5. Sub(T, p) = [x \in DOMAIN s |-> Sub(T, p)[x]] /\ s = [x \in DOMAIN s |-> s[x]]
    BY <2>1, <2>4 DEF TreeOK, IsTree
  <2>6. \A x \in DOMAIN s : Sub(T, p)[x] = s[x]
    BY <2>1, <2>2, <2>4
  <2> QED
    BY <2>5, <2>6
<1>10. \A q \in DOMAIN t : ~IsPrefix(p, q) => q \in DOMAIN T /\ (q # d => T[q] = t[q])
  BY <1>1, <1>2, <1>3
<1> QED
  BY <1>7, <1>8, <1>9, <1>10 DEF T, p
-----------------------------------------------------------------------------
(* The inductive invariant *)

\* The registers of a worker, and where it may be while it edits a tree.
Fields == {"pc", "r", "i", "att", "snap", "src", "stage", "res", "todo", "out"}
Editing == {"check", "source", "mutate", "cas", "confirm", "listlocks", "lockrow"}
IsSeq(s) == s \in Seq({s[k] : k \in DOMAIN s})

\* Every history starts with the first commit and goes on with commits of workers, trees all of them.
Histories ==
    /\ hist = [l \in Libs |-> hist[l]]
    /\ \A l \in Libs :
         /\ IsSeq(hist[l]) /\ Len(hist[l]) \in Nat \ {0} /\ DOMAIN hist[l] = 1 .. Len(hist[l])
         /\ \A k \in 1 .. Len(hist[l]) : TreeOK(hist[l][k].t)
         /\ hist[l][1].by = <<>>
         /\ \A k \in 2 .. Len(hist[l]) : \E w \in Workers, j \in Nat, st \in {"dst", "src"} : hist[l][k].by = <<w, j, st>>

\* Where a worker is tells which request it serves, and which stage of it.
Registers(w) ==
    /\ wk[w] = [f \in Fields |-> wk[w][f]]
    /\ wk[w].att \in Nat /\ (wk[w].att <= MaxAttempts \/ wk[w].att <= LockAttempts)
    /\ wk[w].stage \in {"dst", "src"}
    /\ wk[w].pc = "idle" => wk[w] = Idle
    /\ wk[w].pc # "idle" => R(w) \in Requests /\ R(w).old \in 1 .. Len(hist[R(w).lib]) /\ wk[w].i \in 1 .. Len(R(w).items)
    /\ wk[w].pc \in Editing => R(w).op \notin {"lock", "unlock"}
    /\ wk[w].pc \in {"check", "source"} => wk[w].stage = "dst"
    /\ wk[w].pc = "source" => FromSource(R(w))
    /\ wk[w].stage = "src" => TwoLibs(R(w)) /\ R(w).op \in MoveOps

\* What a copy or move by batch read is an entry of a commit of the source library.
Source(w) ==
    /\ ~FromSource(R(w)) => wk[w].src = <<>>
    /\ FromSource(R(w)) /\ wk[w].pc \in {"mutate", "cas", "confirm"}
         => \E v \in 1 .. Len(hist[R(w).lib]) :
               Found(hist[R(w).lib][v].t, Item(w)) /\ wk[w].src = Sub(hist[R(w).lib][v].t, Item(w))

\* A worker at the compare-and-set holds what its request makes of the commit it has read; one whose
\* answer was lost has published that, or nothing.
EffectOn(w, t) == Mutation(t, OldTree(R(w)), R(w), Item(w), wk[w].src, wk[w].stage)
Mark(w) == <<w, wk[w].i, wk[w].stage>>
Attempt(w) ==
    /\ wk[w].pc = "cas" =>
         /\ wk[w].snap \in 1 .. Len(hist[Target(w)])
         /\ wk[w].res = EffectOn(w, hist[Target(w)][wk[w].snap].t) /\ wk[w].res.k = "new"
    /\ wk[w].pc = "confirm" =>
         \A k \in 2 .. Len(hist[Target(w)]) :
            hist[Target(w)][k].by = Mark(w) => EffectOn(w, hist[Target(w)][k - 1].t) = New(hist[Target(w)][k].t)
\* The second half of a move between libraries: the destination has had what was read.
Placed(w) ==
    wk[w].stage = "src" =>
        \E m \in 2 .. Len(hist[R(w).dlib]) :
            LET d == hist[R(w).dlib][m] IN
            /\ d.by = <<w, wk[w].i, "dst">>
            /\ \E n \in Entries(d.t, R(w).dst) : Sub(d.t, Append(R(w).dst, n)) = wk[w].src
\* What a worker has published lies behind it: it is never about to publish a stage of an item again.
Spent(w) ==
    \A l \in Libs : \A k \in 2 .. Len(hist[l]) :
        LET by == hist[l][k].by IN
        by[1] = w =>
            /\ wk[w].pc # "idle" /\ by[2] \in 1 .. wk[w].i
            /\ by[2] = wk[w].i =>
                 /\ by[3] = "src" => wk[w].stage = "src"
                 /\ by[3] = wk[w].stage => wk[w].pc \in {"confirm", "listlocks", "lockrow", "done"}

WorkerInv(w) == Registers(w) /\ Source(w) /\ Attempt(w) /\ Placed(w) /\ Spent(w)
HeadInv ==
    /\ Histories /\ wk = [w \in Workers |-> wk[w]]
    /\ \A w \in Workers : WorkerInv(w)
    /\ SerialHistory /\ AppliedOnce /\ MovedNotLost

\* No lock of another user covers what the request is about.
Spared(r, p, l, q) ==
    /\ r.op \in {"RenameDirectory", "RenameFile", "DeleteDirectory", "DeleteFile"} => ~IsPrefix(p, q)
    /\ r.op = "BatchDeleteItems" => \A x \in Range(r.items) : ~IsPrefix(x, q)
    /\ r.op \in MoveOps /\ l = r.lib => ~IsPrefix(p, q)
    /\ r.op \in BatchOps \cup MoveOps \cup {"CopyFile", "copyBatch"} /\ r.policy = "replace" /\ l = r.dlib
         => ~IsPrefix(Append(r.dst, Last(p)), q)
    /\ r.op \in {"UploadFile", "RevertFile"} /\ r.policy = "replace" => q # p
    /\ r.op = "RevertDirectory" /\ r.policy = "replace" => ~IsPrefix(p, q)

\* A lock held since the request began is another user's, and the lock check, once passed, has seen it.
Checked == {"source", "mutate", "cas", "confirm"}
HeldInv ==
    /\ rows = [l \in Libs |-> rows[l]] /\ held = [w \in Workers |-> held[w]]
    /\ \A w \in Workers : \A h \in held[w] :
         /\ h[1] \in Libs /\ h[2] \in DOMAIN rows[h[1]] /\ rows[h[1]][h[2]] = h[3]
         /\ wk[w].pc # "idle" => h[3] # R(w).user
         /\ wk[w].pc \in Checked /\ h[1] \in {R(w).lib, R(w).dlib} => Spared(R(w), Item(w), h[1], h[2])
-----------------------------------------------------------------------------
(* What a handler makes of a tree *)

\* The entries of t the request r about p in l leaves alone, as its lock check covers what it changes.
Safe(r, p, l, q) ==
    /\ Spared(r, p, l, q) /\ q # PutsInto(r, p)
    /\ r.op \in {"UploadFile", "RevertFile"} => q = p
    /\ r.op \notin {"RestoreTrashItem", "RevertDirents"}
Keeps(r, p, l, t, u) == \A q \in DOMAIN t : Safe(r, p, l, q) => q \in DOMAIN u /\ u[q] = t[q]
Outcome(M, r, p, l, t) == M = Err \/ M = Noop \/ \E u : M = New(u) /\ TreeOK(u) /\ Keeps(r, p, l, t, u)

LEMMA NewOutcome ==
    ASSUME NEW M, NEW r, NEW p, NEW l, NEW t, Outcome(M, r, p, l, t), M.k = "new"
    PROVE  M = New(M.t) /\ TreeOK(M.t) /\ Keeps(r, p, l, t, M.t)
<1>1. PICK u : M = New(u) /\ TreeOK(u) /\ Keeps(r, p, l, t, u)
  BY DEF Outcome, Err, Noop
<1>2. M.t = u
  BY <1>1 DEF New
<1> QED
  BY <1>1, <1>2

LEMMA OneNode ==
    ASSUME NEW e
    PROVE  TreeOK([s \in {<<>>} |-> e])
<1> DEFINE t == [s \in {<<>>} |-> e]
<1>1. DOMAIN t = {<<>>} /\ t = [s \in DOMAIN t |-> t[s]] /\ IsFiniteSet({<<>>})
  BY FS_Singleton
<1>2. <<>> \in Paths /\ Len(<<>>) = 0 /\ SubSeq(<<>>, 1, 0) = <<>>
  BY EmptySeq DEF Paths
<1>3. \A q \in DOMAIN t : \A k \in 0 .. Len(q) : SubSeq(q, 1, k) \in DOMAIN t
  BY <1>1, <1>2
<1> HIDE DEF t
<1>4. TreeOK(t)
  BY <1>1, <1>2, <1>3 DEF TreeOK, IsTree
<1> QED
  BY <1>4 DEF t

LEMMA PutOutcome ==
    ASSUME NEW t, TreeOK(t), NEW s, TreeOK(s), NEW d \in DOMAIN t, NEW m \in Names, NEW r, NEW p, NEW l,
           \A q \in DOMAIN t : Safe(r, p, l, q) => q # d /\ ~IsPrefix(Append(d, m), q)
    PROVE  Outcome(New(Put(t, d, m, s)), r, p, l, t)
<1>1. TreeOK(Put(t, d, m, s))
  BY PutTree
<1>2. \A q \in DOMAIN t : ~IsPrefix(Append(d, m), q) => q \in DOMAIN Put(t, d, m, s) /\ (q # d => Put(t, d, m, s)[q] = t[q])
  BY PutTree
<1> QED
  BY <1>1, <1>2 DEF Outcome, Keeps

LEMMA PlaceOutcome ==
    ASSUME NEW t, TreeOK(t), NEW s, TreeOK(s), NEW d \in DOMAIN t, NEW n \in Names, NEW policy, NEW r, NEW p, NEW l,
           \A q \in DOMAIN t : Safe(r, p, l, q) => q # d /\ (policy = "replace" => ~IsPrefix(Append(d, n), q))
    PROVE  Outcome(Place(t, d, n, s, policy), r, p, l, t)
<1>0. d \in Paths /\ IsFiniteSet(Entries(t, d))
  BY EntriesSpec DEF TreeOK
<1>1. CASE n \notin Entries(t, d)
  <2>1. \A q \in DOMAIN t : ~IsPrefix(Append(d, n), q)
    BY <1>0, <1>1, NoEntry
  <2>2. Outcome(New(Put(t, d, n, s)), r, p, l, t)
    BY <2>1, PutOutcome
  <2> QED
    BY <1>1, <2>2 DEF Place
<1>2. CASE n \in Entries(t, d) /\ policy = "replace"
  <2>1. Outcome(New(Put(t, d, n, s)), r, p, l, t)
    BY <1>2, PutOutcome
  <2> QED
    BY <1>2, <2>1 DEF Place
<1>3. CASE n \in Entries(t, d) /\ policy = "autorename"
  <2> DEFINE m == GenerateUniqueName(Entries(t, d), n)
  <2>1. m \in Names /\ m \notin Entries(t, d)
    BY <1>0, FreshName
  <2> HIDE DEF m
  <2>2. \A q \in DOMAIN t : ~IsPrefix(Append(d, m), q)
    BY <1>0, <2>1, NoEntry
  <2>3. Outcome(New(Put(t, d, m, s)), r, p, l, t)
    BY <2>1, <2>2, PutOutcome
  <2> QED
    BY <1>3, <2>3 DEF Place, m
<1>4. CASE n \in Entries(t, d) /\ policy # "replace" /\ policy # "autorename"
  BY <1>4 DEF Place, Outcome
<1> QED
  BY <1>1, <1>2, <1>3, <1>4

\* A request that takes p away first.
LEMMA OutcomeAfterRemoval ==
    ASSUME NEW t, TreeOK(t), NEW p \in Paths, p # <<>>, NEW r, NEW l, NEW M,
           Outcome(M, r, p, l, Without(t, p)), \A q \in DOMAIN t : Safe(r, p, l, q) => ~IsPrefix(p, q)
    PROVE  Outcome(M, r, p, l, t)
  BY WithoutTree DEF Outcome, Keeps

LEMMA RemovalOutcome ==
    ASSUME NEW t, TreeOK(t), NEW p \in Paths, p # <<>>, NEW r, NEW l,
           \A q \in DOMAIN t : Safe(r, p, l, q) => ~IsPrefix(p, q)
    PROVE  Outcome(New(Without(t, p)), r, p, l, t)
<1>1. /\ TreeOK(Without(t, p)) /\ DOMAIN Without(t, p) = {q \in DOMAIN t : ~IsPrefix(p, q)}
      /\ \A q \in DOMAIN Without(t, p) : Without(t, p)[q] = t[q]
  BY WithoutTree
<1>2. Keeps(r, p, l, t, Without(t, p))
  BY <1>1 DEF Keeps
<1> QED
  BY <1>1, <1>2 DEF Outcome

\* The directory of an entry is there.
LEMMA ParentIn ==
    ASSUME NEW t, TreeOK(t), NEW p \in DOMAIN t, p # <<>>
    PROVE  Front(p) \in DOMAIN t /\ Front(p) \in DOMAIN Without(t, p)
<1>1. p \in Paths
  BY DEF TreeOK
<1>2. Len(p) \in Nat \ {0} /\ Front(p) \in Paths /\ Len(Front(p)) = Len(p) - 1
  BY <1>1, PathFront
<1>3. SubSeq(p, 1, Len(p) - 1) \in DOMAIN t
  BY <1>2 DEF TreeOK, IsTree
<1>4. ~IsPrefix(p, Front(p))
  BY <1>1, <1>2, NotUnder
<1> QED
  BY <1>1, <1>3, <1>4, WithoutTree DEF Front

LEMMA CreateOutcome ==
    ASSUME NEW t, TreeOK(t), NEW p \in Paths, p # <<>>, NEW r, NEW l, r.op \in {"CreateDirectory", "CreateFile"}
    PROVE  Outcome(CreateDirectory(t, r, p), r, p, l, t) /\ Outcome(CreateFile(t, r, p), r, p, l, t)
<1>1. CASE Found(t, Front(p)) /\ Last(p) \notin Entries(t, Front(p))
  <2>1. Front(p) \in DOMAIN t /\ Front(p) \in Paths /\ Last(p) \in Names
    BY <1>1, PathFront DEF Found
  <2>2. \A q \in DOMAIN t : ~IsPrefix(Append(Front(p), Last(p)), q)
    BY <1>1, <2>1, NoEntry
  <2>3. \A q \in DOMAIN t : Safe(r, p, l, q) => q # Front(p)
    BY DEF Safe, PutsInto, BatchOps, MoveOps
  <2>4. TreeOK(EmptyDir) /\ TreeOK([s \in {<<>>} |-> File(r.content)])
    BY OneNode DEF EmptyDir
  <2>5. Outcome(New(Put(t, Front(p), Last(p), EmptyDir)), r, p, l, t)
    BY <2>1, <2>2, <2>3, <2>4, PutOutcome
  <2>6. Outcome(New(Put(t, Front(p), Last(p), [s \in {<<>>} |-> File(r.content)])), r, p, l, t)
    BY <2>1, <2>2, <2>3, <2>4, PutOutcome
  <2> QED
    BY <1>1, <2>5, <2>6 DEF CreateDirectory, CreateFile
<1>2. CASE ~Found(t, Front(p)) \/ Last(p) \in Entries(t, Front(p))
  BY <1>2 DEF CreateDirectory, CreateFile, Outcome
<1> QED
  BY <1>1, <1>2

LEMMA RenameOutcome ==
    ASSUME NEW t, TreeOK(t), NEW p \in Paths, p # <<>>, NEW r, NEW l, r.op \in {"RenameDirectory", "RenameFile"}, r.name \in Names
    PROVE  Outcome(RenameTo(t, r, p), r, p, l, t)
<1>1. CASE Found(t, p) /\ r.name \notin Entries(t, Front(p))
  <2> DEFINE u == Without(t, p)
  <2>1. p \in DOMAIN t
    BY <1>1 DEF Found
  <2>2. Front(p) \in DOMAIN u /\ Front(p) \in Paths /\ Front(p) \in DOMAIN t
    BY <2>1, ParentIn, PathFront
  <2>3. TreeOK(u) /\ DOMAIN u \subseteq DOMAIN t /\ TreeOK(Sub(t, p))
    <3>1. TreeOK(u) /\ DOMAIN u = {q \in DOMAIN t : ~IsPrefix(p, q)}
      BY WithoutTree
    <3>2. TreeOK(Sub(t, p))
      BY <2>1, SubTree
    <3> HIDE DEF u
    <3> QED
      BY <3>1, <3>2
  <2>4. \A q \in DOMAIN t : Safe(r, p, l, q) => q # Front(p) /\ ~IsPrefix(p, q)
    BY DEF Safe, Spared, PutsInto, BatchOps, MoveOps
  <2>5. \A q \in DOMAIN t : ~IsPrefix(Append(Front(p), r.name), q)
    BY <1>1, <2>2, NoEntry
  <2> HIDE DEF u
  <2>6. Outcome(New(Put(u, Front(p), r.name, Sub(t, p))), r, p, l, u)
    BY <2>2, <2>3, <2>4, <2>5, PutOutcome
  <2>7. Outcome(New(Put(u, Front(p), r.name, Sub(t, p))), r, p, l, t)
    BY <2>4, <2>6, OutcomeAfterRemoval DEF u
  <2> QED
    BY <1>1, <2>7 DEF RenameTo, u
<1>2. CASE ~Found(t, p) \/ r.name \in Entries(t, Front(p))
  BY <1>2 DEF RenameTo, Outcome
<1> QED
  BY <1>1, <1>2

LEMMA DeleteOutcome ==
    ASSUME NEW t, TreeOK(t), NEW p \in Paths, p # <<>>, NEW r, NEW l, r.op \in {"DeleteDirectory", "DeleteFile"}
    PROVE  Outcome(DeleteDirectory(t, r, p), r, p, l, t) /\ Outcome(DeleteFile(t, r, p), r, p, l, t)
<1>1. \A q \in DOMAIN t : Safe(r, p, l, q) => ~IsPrefix(p, q)
  BY DEF Safe, Spared
<1>2. Outcome(New(Without(t, p)), r, p, l, t)
  BY <1>1, RemovalOutcome
<1>3. Outcome(Err, r, p, l, t)
  BY DEF Outcome
<1> QED
  BY <1>2, <1>3 DEF DeleteDirectory, DeleteFile

LEMMA BatchDeleteOutcome ==
    ASSUME NEW t, TreeOK(t), NEW p, NEW r, NEW l, r.op = "BatchDeleteItems", Range(r.items) \subseteq Paths \ {<<>>}
    PROVE  Outcome(BatchDeleteItems(t, r, p), r, p, l, t)
<1> DEFINE gone == {x \in Range(r.items) : x \in DOMAIN t}
           S == DOMAIN t \ UNION {Under(t, x) : x \in gone}
<1>1. gone \in SUBSET (Paths \ {<<>>})
  OBVIOUS
<1>2. \A q \in DOMAIN t : Safe(r, p, l, q) => q \in S
  BY DEF Safe, Spared, Under
<1>3. TreeOK(Restrict(t, S)) /\ DOMAIN Restrict(t, S) = S /\ \A q \in S : Restrict(t, S)[q] = t[q]
  <2> HIDE DEF gone
  <2> QED
    BY <1>1, WithoutAll
<1>4. BatchDeleteItems(t, r, p) \in {Err, Noop, New(Restrict(t, S))}
  BY DEF BatchDeleteItems
<1> HIDE DEF S
<1>5. Keeps(r, p, l, t, Restrict(t, S))
  BY <1>2, <1>3 DEF Keeps
<1> QED
  BY <1>3, <1>4, <1>5 DEF Outcome

LEMMA UploadOutcome ==
    ASSUME NEW t, TreeOK(t), NEW p \in Paths, p # <<>>, NEW r, NEW l, r.op = "UploadFile"
    PROVE  Outcome(UploadFile(t, r, p), r, p, l, t)
<1> DEFINE d == Front(p)
           f == [s \in {<<>>} |-> File(r.content)]
           m == IF r.policy = "replace" THEN Last(p) ELSE GenerateUniqueName(Entries(t, d), Last(p))
<1>1. CASE Found(t, d)
  <2>1. d \in DOMAIN t /\ d \in Paths /\ Last(p) \in Names /\ TreeOK(f) /\ IsFiniteSet(Entries(t, d)) /\ Append(d, Last(p)) = p
    BY <1>1, PathFront, OneNode, EntriesSpec DEF Found
  <2>2. \A q \in DOMAIN t : Safe(r, p, l, q) => q # d /\ q = p /\ r.policy # "replace"
    BY DEF Safe, Spared, PutsInto, BatchOps, MoveOps
  <2>3. m \in Names /\ (r.policy # "replace" => m \notin Entries(t, d))
    BY <2>1, FreshName
  <2> HIDE DEF m, d, f
  <2>4. r.policy # "replace" => \A q \in DOMAIN t : ~IsPrefix(Append(d, m), q)
    BY <2>1, <2>3, NoEntry
  <2>5. Outcome(New(Put(t, d, m, f)), r, p, l, t)
    BY <2>1, <2>2, <2>3, <2>4, PutOutcome
  <2> QED
    BY <1>1, <2>5 DEF UploadFile, finalizeStoredUploadMetadataOnce, m, d, f
<1>2. CASE ~Found(t, d)
  BY <1>2 DEF UploadFile, finalizeStoredUploadMetadataOnce, Outcome
<1> QED
  BY <1>1, <1>2

LEMMA CopyOutcome ==
    ASSUME NEW t, TreeOK(t), NEW p \in Paths, p # <<>>, NEW r, NEW l, r.op \in {"CopyFile", "copyBatch"}, l = r.dlib
    PROVE  Outcome(copyItemWithinRepo(t, r, p), r, p, l, t)
<1>1. CASE Found(t, p) /\ Found(t, r.dst)
  <2>1. p \in DOMAIN t /\ r.dst \in DOMAIN t /\ Last(p) \in Names
    BY <1>1, PathFront DEF Found
  <2>2. TreeOK(Sub(t, p))
    BY <2>1, SubTree
  <2>3. \A q \in DOMAIN t : Safe(r, p, l, q) => q # r.dst /\ (r.policy = "replace" => ~IsPrefix(Append(r.dst, Last(p)), q))
    BY DEF Safe, Spared, PutsInto
  <2>4. Outcome(Place(t, r.dst, Last(p), Sub(t, p), r.policy), r, p, l, t)
    BY <2>1, <2>2, <2>3, PlaceOutcome
  <2> QED
    BY <1>1, <2>4 DEF copyItemWithinRepo
<1>2. CASE ~(Found(t, p) /\ Found(t, r.dst))
  BY <1>2 DEF copyItemWithinRepo, Outcome
<1> QED
  BY <1>1, <1>2

LEMMA MoveOutcome ==
    ASSUME NEW t, TreeOK(t), NEW p \in Paths, p # <<>>, NEW r, NEW l, r.op \in MoveOps, l = r.lib, l = r.dlib
    PROVE  Outcome(processSameRepoMove(t, r, p), r, p, l, t)
<1> DEFINE u == Without(t, p)
<1>1. CASE Found(t, p) /\ Found(u, r.dst)
  <2>1. p \in DOMAIN t /\ r.dst \in DOMAIN u /\ Last(p) \in Names
    BY <1>1, PathFront DEF Found
  <2>2. TreeOK(Sub(t, p)) /\ TreeOK(u) /\ DOMAIN u \subseteq DOMAIN t
    BY <2>1, SubTree, WithoutTree
  <2>3. \A q : Safe(r, p, l, q) => q # r.dst /\ (r.policy = "replace" => ~IsPrefix(Append(r.dst, Last(p)), q)) /\ ~IsPrefix(p, q)
    BY DEF Safe, Spared, PutsInto
  <2> HIDE DEF u
  <2>4. Outcome(Place(u, r.dst, Last(p), Sub(t, p), r.policy), r, p, l, u)
    BY <2>1, <2>2, <2>3, PlaceOutcome
  <2>5. Outcome(Place(u, r.dst, Last(p), Sub(t, p), r.policy), r, p, l, t)
    BY <2>3, <2>4, OutcomeAfterRemoval DEF u
  <2>6. processSameRepoMove(t, r, p) \in {Err, Noop, Place(u, r.dst, Last(p), Sub(t, p), r.policy)}
    BY DEF processSameRepoMove, u
  <2> QED
    BY <2>5, <2>6 DEF Outcome
<1>2. CASE ~(Found(t, p) /\ Found(u, r.dst))
  BY <1>2 DEF processSameRepoMove, Outcome
<1> QED
  BY <1>1, <1>2

LEMMA CopyToOutcome ==
    ASSUME NEW t, TreeOK(t), NEW s, TreeOK(s), NEW p \in Paths, p # <<>>, NEW r, NEW l, r.op \in BatchOps, l = r.dlib
    PROVE  Outcome(copyToDestination(t, s, r, p), r, p, l, t)
<1>1. CASE Found(t, r.dst)
  <2>1. r.dst \in DOMAIN t /\ Last(p) \in Names
    BY <1>1, PathFront DEF Found
  <2>2. \A q \in DOMAIN t : Safe(r, p, l, q) => q # r.dst /\ (r.policy = "replace" => ~IsPrefix(Append(r.dst, Last(p)), q))
    BY DEF Safe, Spared, PutsInto
  <2>3. Outcome(Place(t, r.dst, Last(p), s, r.policy), r, p, l, t)
    BY <2>1, <2>2, PlaceOutcome
  <2> QED
    BY <1>1, <2>3 DEF copyToDestination
<1>2. CASE ~Found(t, r.dst)
  BY <1>2 DEF copyToDestination, Outcome
<1> QED
  BY <1>1, <1>2

LEMMA RemoveMovedOutcome ==
    ASSUME NEW t, TreeOK(t), NEW s, NEW p \in Paths, p # <<>>, NEW r, NEW l, r.op \in MoveOps, l = r.lib
    PROVE  Outcome(removeMovedSource(t, p, s), r, p, l, t)
<1>1. \A q \in DOMAIN t : Safe(r, p, l, q) => ~IsPrefix(p, q)
  BY DEF Safe, Spared
<1>2. Outcome(New(Without(t, p)), r, p, l, t)
  BY <1>1, RemovalOutcome
<1> QED
  BY <1>2 DEF removeMovedSource, Outcome

LEMMA RevertOutcome ==
    ASSUME NEW t, TreeOK(t), NEW old, TreeOK(old), NEW p \in Paths, p # <<>>, NEW r, NEW l, r.op \in {"RevertFile", "RevertDirectory"}
    PROVE  Outcome(RevertFile(t, old, r, p), r, p, l, t) /\ Outcome(RevertDirectory(t, old, r, p), r, p, l, t)
<1> DEFINE d == Front(p)
<1>0. Append(d, Last(p)) = p /\ Last(p) \in Names
  BY PathFront
<1>1. \A q \in DOMAIN t : Safe(r, p, l, q) => q # d /\ (r.policy = "replace" => ~IsPrefix(Append(d, Last(p)), q))
  BY <1>0 DEF Safe, Spared, PutsInto, BatchOps, MoveOps
<1>2. Outcome(Err, r, p, l, t) /\ Outcome(Noop, r, p, l, t)
  BY DEF Outcome
<1>3. CASE Found(old, p) /\ Found(t, d)
  <2>1. d \in DOMAIN t /\ TreeOK(Sub(old, p))
    BY <1>3, SubTree DEF Found
  <2>2. Outcome(Place(t, d, Last(p), Sub(old, p), r.policy), r, p, l, t)
    BY <1>0, <1>1, <2>1, PlaceOutcome
  <2>3. Outcome(Revert(t, old, r, p), r, p, l, t)
    BY <1>2, <2>2 DEF Revert
  <2> QED
    BY <1>2, <2>3 DEF RevertFile, RevertDirectory
<1>4. CASE ~(Found(old, p) /\ Found(t, d))
  BY <1>2, <1>4 DEF RevertFile, RevertDirectory, Revert
<1> QED
  BY <1>3, <1>4

LEMMA RestoreOutcome ==
    ASSUME NEW t, TreeOK(t), NEW old, TreeOK(old), NEW p \in Paths, p # <<>>, NEW r, NEW l, r.op \in {"RestoreTrashItem", "RevertDirents"}
    PROVE  Outcome(RestoreTrashItem(t, old, r, p), r, p, l, t) /\ Outcome(RevertDirents(t, old, r, p), r, p, l, t)
<1> DEFINE d == Front(p)
<1>1. trashTarget(t, p) \in DOMAIN t
  <2>1. <<>> \in DOMAIN t
    BY DEF TreeOK, IsTree
  <2>2. CASE d # <<>> /\ Reaches(t, d)
    <3>1. d \in Paths
      BY PathFront
    <3>2. Len(d) - 1 \in 0 .. Len(d) - 1
      BY <2>2, <3>1, PathFront
    <3>3. SubSeq(d, 1, Len(d) - 1) \in DOMAIN t
      BY <2>2, <3>2 DEF Reaches
    <3> QED
      BY <2>2, <3>3 DEF trashTarget, Front
  <2> QED
    BY <2>1, <2>2 DEF trashTarget
<1>2. CASE Found(old, p)
  <2>1. TreeOK(Sub(old, p)) /\ Last(p) \in Names
    BY <1>2, SubTree, PathFront DEF Found
  <2>2. \A q : ~Safe(r, p, l, q)
    BY DEF Safe
  <2>3. Outcome(New(Put(t, trashTarget(t, p), Last(p), Sub(old, p))), r, p, l, t)
    BY <1>1, <2>1, <2>2, PutOutcome
  <2> QED
    BY <1>2, <2>3 DEF RestoreTrashItem, RevertDirents
<1>3. CASE ~Found(old, p)
  BY <1>3 DEF RestoreTrashItem, RevertDirents, Outcome
<1> QED
  BY <1>2, <1>3
-----------------------------------------------------------------------------
LEMMA MutationOutcome ==
    ASSUME NEW t, TreeOK(t), NEW r, IsRequest(r), r.op \notin {"lock", "unlock"}, NEW p \in Paths, p # <<>>,
           NEW src, FromSource(r) => TreeOK(src), NEW stage \in {"dst", "src"}, stage = "src" => TwoLibs(r) /\ r.op \in MoveOps,
           NEW l, l = (IF stage = "src" THEN r.lib ELSE r.dlib), NEW old, TreeOK(old)
    PROVE  Outcome(Mutation(t, old, r, p, src, stage), r, p, l, t)
<1> DEFINE M == Mutation(t, old, r, p, src, stage)
<1>0. r.name \in Names /\ (r.op \notin BatchOps => r.dlib = r.lib) /\ Range(r.items) \subseteq Paths \ {<<>>}
  BY DEF IsRequest, Range
<1>1. CASE stage = "src"
  <2>1. M = removeMovedSource(t, p, src)
    <3>1. r.op \in {"batchMove", "asyncMove"} /\ ~SameRepoMove(r) /\ stage # "dst"
      BY <1>1 DEF TwoLibs, SameRepoMove, BatchOps, MoveOps
    <3> QED
      BY <1>1, <3>1 DEF Mutation
  <2> QED
    BY <1>1, <2>1, RemoveMovedOutcome
<1>2. CASE stage = "dst" /\ FromSource(r)
  <2>1. M = copyToDestination(t, src, r, p)
    <3>1. r.op \in BatchOps /\ ~SameRepoMove(r)
      BY <1>2 DEF FromSource
    <3> QED
      BY <1>2, <3>1 DEF Mutation, BatchOps
  <2>2. r.op \in BatchOps
    BY <1>2 DEF FromSource
  <2> QED
    BY <1>2, <2>1, <2>2, CopyToOutcome
<1>3. CASE stage = "dst" /\ ~FromSource(r) /\ SameRepoMove(r)
  <2>1. M = processSameRepoMove(t, r, p)
    <3>1. r.op \in MoveOps
      BY <1>3 DEF SameRepoMove
    <3> QED
      BY <1>3, <3>1 DEF Mutation, MoveFile, MoveOps
  <2>2. r.op \in MoveOps /\ r.lib = r.dlib
    BY <1>0, <1>3 DEF SameRepoMove, TwoLibs
  <2> QED
    BY <1>3, <2>1, <2>2, MoveOutcome
<1>4. CASE stage = "dst" /\ ~FromSource(r) /\ ~SameRepoMove(r)
  <2>0. r.op \in Ops \ (BatchOps \cup MoveOps \cup {"lock", "unlock"})
    BY <1>4 DEF SameRepoMove, FromSource, TwoLibs, IsRequest, Ops, BatchOps, MoveOps
  <2>1. CASE r.op = "CreateDirectory"
    <3>1. M = CreateDirectory(t, r, p)
      BY <1>4, <2>1 DEF Mutation
    <3> QED
      BY <2>1, <3>1, CreateOutcome
  <2>2. CASE r.op = "CreateFile"
    <3>1. M = CreateFile(t, r, p)
      BY <1>4, <2>2 DEF Mutation
    <3> QED
      BY <2>2, <3>1, CreateOutcome
  <2>3. CASE r.op \in {"RenameDirectory", "RenameFile"}
    <3>1. M = RenameTo(t, r, p)
      BY <1>4, <2>3 DEF Mutation, RenameDirectory, RenameFile
    <3> QED
      BY <1>0, <2>3, <3>1, RenameOutcome
  <2>4. CASE r.op = "DeleteDirectory"
    <3>1. M = DeleteDirectory(t, r, p)
      BY <1>4, <2>4 DEF Mutation
    <3> QED
      BY <2>4, <3>1, DeleteOutcome
  <2>5. CASE r.op = "DeleteFile"
    <3>1. M = DeleteFile(t, r, p)
      BY <1>4, <2>5 DEF Mutation
    <3> QED
      BY <2>5, <3>1, DeleteOutcome
  <2>6. CASE r.op = "BatchDeleteItems"
    <3>1. M = BatchDeleteItems(t, r, p)
      BY <1>4, <2>6 DEF Mutation
    <3> QED
      BY <1>0, <2>6, <3>1, BatchDeleteOutcome
  <2>7. CASE r.op = "UploadFile"
    <3>1. M = UploadFile(t, r, p)
      BY <1>4, <2>7 DEF Mutation
    <3> QED
      BY <2>7, <3>1, UploadOutcome
  <2>8. CASE r.op \in {"CopyFile", "copyBatch"}
    <3>1. M = copyItemWithinRepo(t, r, p)
      BY <1>4, <2>8 DEF Mutation, CopyFile
    <3> QED
      BY <1>4, <2>8, <3>1, CopyOutcome
  <2>9. CASE r.op = "RevertFile"
    <3>1. M = RevertFile(t, old, r, p)
      BY <1>4, <2>9 DEF Mutation
    <3> QED
      BY <2>9, <3>1, RevertOutcome
  <2>10. CASE r.op = "RevertDirectory"
    <3>1. M = RevertDirectory(t, old, r, p)
      BY <1>4, <2>10 DEF Mutation
    <3> QED
      BY <2>10, <3>1, RevertOutcome
  <2>11. CASE r.op = "RestoreTrashItem"
    <3>1. M = RestoreTrashItem(t, old, r, p)
      BY <1>4, <2>11 DEF Mutation
    <3> QED
      BY <2>11, <3>1, RestoreOutcome
  <2>12. CASE r.op = "RevertDirents"
    <3>1. M = RevertDirents(t, old, r, p)
      BY <1>4, <2>12 DEF Mutation
    <3> QED
      BY <2>12, <3>1, RestoreOutcome
  <2> QED
    BY <2>0, <2>1, <2>2, <2>3, <2>4, <2>5, <2>6, <2>7, <2>8, <2>9, <2>10, <2>11, <2>12 DEF Ops, MoveOps
<1> QED
  BY <1>1, <1>2, <1>3, <1>4

\* What a copy publishes at the destination holds the entry that was read at the source.
LEMMA CopyLands ==
    ASSUME NEW t, TreeOK(t), NEW s, TreeOK(s), NEW p \in Paths, p # <<>>, NEW r, NEW u, copyToDestination(t, s, r, p) = New(u)
    PROVE  \E n \in Entries(u, r.dst) : Sub(u, Append(r.dst, n)) = s
<1>1. Found(t, r.dst) /\ Place(t, r.dst, Last(p), s, r.policy) = New(u)
  BY DEF copyToDestination, Err, New
<1>2. r.dst \in DOMAIN t /\ r.dst \in Paths /\ Last(p) \in Names
  BY <1>1, PathFront DEF Found, TreeOK
<1>3. PICK n \in Names : u = Put(t, r.dst, n, s)
  <2>1. GenerateUniqueName(Entries(t, r.dst), Last(p)) \in Names
    BY <1>2, EntriesSpec, FreshName
  <2>2. \A a, b : New(a) = New(b) => a = b
    BY DEF New
  <2>3. New(u) # Err /\ New(u) # Noop
    BY DEF New, Err, Noop
  <2>4. \/ New(u) = New(Put(t, r.dst, Last(p), s))
        \/ New(u) = New(Put(t, r.dst, GenerateUniqueName(Entries(t, r.dst), Last(p)), s))
    BY <1>1, <2>3, Zenon DEF Place
  <2> QED
    BY <1>2, <2>1, <2>2, <2>4
<1>4. TreeOK(u) /\ Append(r.dst, n) \in DOMAIN u /\ Sub(u, Append(r.dst, n)) = s
  BY <1>2, <1>3, PutTree
<1> QED
  BY <1>2, <1>4, EntriesSpec
-----------------------------------------------------------------------------
(* Steps of the histories *)

LEMMA SeqAppend ==
    ASSUME NEW s, IsSeq(s), NEW e
    PROVE  /\ Len(s) \in Nat /\ DOMAIN s = 1 .. Len(s)
           /\ IsSeq(Append(s, e)) /\ Len(Append(s, e)) = Len(s) + 1 /\ DOMAIN Append(s, e) = 1 .. Len(s) + 1
           /\ \A k \in 1 .. Len(s) : Append(s, e)[k] = s[k]
           /\ Append(s, e)[Len(s) + 1] = e
<1> DEFINE S == {s[k] : k \in DOMAIN s} \cup {e}
           a == Append(s, e)
<1>1. s \in Seq(S) /\ e \in S
  BY DEF IsSeq
<1> HIDE DEF S
<1>2. Len(s) \in Nat /\ DOMAIN s = 1 .. Len(s)
  BY <1>1
<1>3. /\ a \in Seq(S) /\ Len(a) = Len(s) + 1 /\ DOMAIN a = 1 .. Len(s) + 1
      /\ (\A k \in 1 .. Len(s) : a[k] = s[k]) /\ a[Len(s) + 1] = e
  BY <1>1
<1> HIDE DEF a
<1>4. a \in Seq({a[k] : k \in DOMAIN a})
  <2>1. a = [k \in 1 .. Len(a) |-> a[k]] /\ Len(a) \in Nat
    BY <1>2, <1>3
  <2>2. \A k \in 1 .. Len(a) : a[k] \in {a[j] : j \in DOMAIN a}
    BY <1>2, <1>3
  <2> DEFINE X == {a[k] : k \in DOMAIN a}
  <2> HIDE DEF X
  <2>3. a \in [1 .. Len(a) -> X]
    BY <2>1, <2>2 DEF X
  <2>4. a \in Seq(X)
    BY <2>1, <2>3
  <2> QED
    BY <2>4 DEF X
<1>5. IsSeq(a)
  BY <1>4 DEF IsSeq
<1> QED
  BY <1>2, <1>3, <1>5 DEF a

\* What the request of a worker is.
LEMMA RequestOf ==
    ASSUME HeadAssumption, Histories, NEW w \in Workers, Registers(w), wk[w].pc # "idle"
    PROVE  /\ IsRequest(R(w)) /\ R(w) \in Requests /\ R(w).lib \in Libs /\ R(w).dlib \in Libs /\ Target(w) \in Libs
           /\ Item(w) \in Paths /\ Item(w) # <<>> /\ TreeOK(OldTree(R(w)))
           /\ R(w).old \in 1 .. Len(hist[R(w).lib]) /\ R(w).old \in Nat
           /\ wk[w].i \in 1 .. Len(R(w).items) /\ wk[w].i \in Nat /\ Len(R(w).items) \in Nat
<1>1. R(w) \in Requests /\ IsRequest(R(w)) /\ R(w).old \in 1 .. Len(hist[R(w).lib]) /\ wk[w].i \in 1 .. Len(R(w).items)
  BY DEF Registers, HeadAssumption
<1>2. R(w).lib \in Libs /\ R(w).dlib \in Libs /\ R(w).items \in Seq(Paths \ {<<>>})
  BY <1>1 DEF IsRequest
<1>3. Item(w) \in Paths \ {<<>>} /\ Len(R(w).items) \in Nat
  BY <1>1, <1>2 DEF Item
<1>4. TreeOK(OldTree(R(w))) /\ R(w).old \in Nat
  BY <1>1, <1>2 DEF Histories, OldTree
<1> QED
  BY <1>1, <1>2, <1>3, <1>4 DEF Target

\* One attempt gives a tree, or no change.
LEMMA EffectOutcome ==
    ASSUME HeadAssumption, Histories, NEW w \in Workers, Registers(w), Source(w), wk[w].pc \in {"mutate", "cas", "confirm"},
           NEW t, TreeOK(t)
    PROVE  /\ Outcome(EffectOn(w, t), R(w), Item(w), Target(w), t)
           /\ FromSource(R(w)) => TreeOK(wk[w].src)
<1>1. wk[w].pc # "idle" /\ R(w).op \notin {"lock", "unlock"}
  BY DEF Registers, Editing
<1>2. /\ IsRequest(R(w)) /\ Item(w) \in Paths /\ Item(w) # <<>> /\ TreeOK(OldTree(R(w))) /\ R(w).lib \in Libs
  BY <1>1, RequestOf
<1>3. FromSource(R(w)) => TreeOK(wk[w].src)
  <2> SUFFICES ASSUME FromSource(R(w)) PROVE TreeOK(wk[w].src)
    OBVIOUS
  <2>1. PICK v \in 1 .. Len(hist[R(w).lib]) :
             Found(hist[R(w).lib][v].t, Item(w)) /\ wk[w].src = Sub(hist[R(w).lib][v].t, Item(w))
    BY DEF Source
  <2>2. TreeOK(hist[R(w).lib][v].t)
    BY <1>2 DEF Histories
  <2>3. Item(w) \in DOMAIN hist[R(w).lib][v].t
    BY <2>1 DEF Found
  <2> QED
    BY <2>1, <2>2, <2>3, SubTree
<1>4. wk[w].stage \in {"dst", "src"} /\ (wk[w].stage = "src" => TwoLibs(R(w)) /\ R(w).op \in MoveOps)
  BY DEF Registers
<1>5. Target(w) = IF wk[w].stage = "src" THEN R(w).lib ELSE R(w).dlib
  BY DEF Target
<1>6. Outcome(EffectOn(w, t), R(w), Item(w), Target(w), t)
  BY <1>1, <1>2, <1>3, <1>4, <1>5, MutationOutcome DEF EffectOn
<1> QED
  BY <1>3, <1>6

\* The histories only grow, and by what w has computed from the last commit.
Extends(w) ==
    \A l \in Libs :
        /\ Len(hist'[l]) \in Nat /\ Len(hist[l]) <= Len(hist'[l])
        /\ \A k \in 1 .. Len(hist[l]) : hist'[l][k] = hist[l][k]
        /\ \A k \in 1 .. Len(hist'[l]) : k > Len(hist[l]) =>
             /\ wk[w].pc = "cas" /\ l = Target(w) /\ k = Len(hist[l]) + 1 /\ wk[w].snap = Len(hist[l])
             /\ hist'[l][k].t = wk[w].res.t /\ hist'[l][k].by = Mark(w)

LEMMA StayExtends ==
    ASSUME Histories, NEW w \in Workers, hist' = hist
    PROVE  Extends(w) /\ Histories'
<1>1. Histories'
  BY DEF Histories, TreeOK
<1> QED
  BY <1>1 DEF Extends, Histories

LEMMA PublishExtends ==
    ASSUME HeadAssumption, Histories, NEW w \in Workers, WorkerInv(w), wk[w].pc = "cas",
           Len(hist[Target(w)]) = wk[w].snap, Publish(w)
    PROVE  /\ Extends(w) /\ Histories' /\ Len(hist'[Target(w)]) = wk[w].snap + 1
           /\ wk[w].res = New(wk[w].res.t) /\ wk[w].res = EffectOn(w, hist[Target(w)][wk[w].snap].t)
<1> DEFINE T == Target(w)
           e == [t |-> wk[w].res.t, by |-> <<w, wk[w].i, wk[w].stage>>]
<1>0. Registers(w) /\ Source(w) /\ Attempt(w)
  BY DEF WorkerInv
<1>1. T \in Libs /\ wk[w].i \in Nat /\ wk[w].stage \in {"dst", "src"}
  BY <1>0, RequestOf DEF Registers
<1>2. wk[w].snap \in 1 .. Len(hist[T]) /\ wk[w].res = EffectOn(w, hist[T][wk[w].snap].t) /\ wk[w].res.k = "new"
  BY <1>0 DEF Attempt
<1>4. wk[w].res = New(wk[w].res.t) /\ TreeOK(wk[w].res.t)
  <2>1. TreeOK(hist[T][wk[w].snap].t)
    BY <1>1, <1>2 DEF Histories
  <2>2. Outcome(wk[w].res, R(w), Item(w), T, hist[T][wk[w].snap].t)
    BY <1>0, <1>2, <2>1, EffectOutcome
  <2> QED
    BY <1>2, <2>2, NewOutcome
<1>5. hist' = [hist EXCEPT ![T] = Append(hist[T], e)]
  BY DEF Publish
<1>6. hist = [l \in Libs |-> hist[l]] /\ IsSeq(hist[T]) /\ Len(hist[T]) \in Nat \ {0}
  BY <1>1 DEF Histories
<1> HIDE DEF T, e
<1>7. /\ IsSeq(hist'[T]) /\ Len(hist'[T]) = Len(hist[T]) + 1 /\ DOMAIN hist'[T] = 1 .. Len(hist[T]) + 1
      /\ \A k \in 1 .. Len(hist[T]) : hist'[T][k] = hist[T][k]
      /\ hist'[T][Len(hist[T]) + 1] = e
  <2>1. hist'[T] = Append(hist[T], e)
    BY <1>1, <1>5, <1>6
  <2> QED
    BY <1>6, <2>1, SeqAppend
<1>8. hist' = [l \in Libs |-> hist'[l]] /\ \A l \in Libs : l # T => hist'[l] = hist[l]
  BY <1>1, <1>5, <1>6
<1>9. Extends(w)
  <2> SUFFICES ASSUME NEW l \in Libs
               PROVE  /\ Len(hist'[l]) \in Nat /\ Len(hist[l]) <= Len(hist'[l])
                      /\ \A k \in 1 .. Len(hist[l]) : hist'[l][k] = hist[l][k]
                      /\ \A k \in 1 .. Len(hist'[l]) : k > Len(hist[l]) =>
                           /\ wk[w].pc = "cas" /\ l = Target(w) /\ k = Len(hist[l]) + 1 /\ wk[w].snap = Len(hist[l])
                           /\ hist'[l][k].t = wk[w].res.t /\ hist'[l][k].by = Mark(w)
    BY DEF Extends
  <2>1. CASE l = T
    BY <1>6, <1>7, <2>1 DEF T, e, Mark
  <2>2. CASE l # T
    BY <1>8, <2>2 DEF Histories
  <2> QED
    BY <2>1, <2>2
<1>10. Histories'
  <2>1. ASSUME NEW l \in Libs
        PROVE  /\ IsSeq(hist'[l]) /\ Len(hist'[l]) \in Nat \ {0} /\ DOMAIN hist'[l] = 1 .. Len(hist'[l])
               /\ \A k \in 1 .. Len(hist'[l]) : TreeOK(hist'[l][k].t)
               /\ hist'[l][1].by = <<>>
               /\ \A k \in 2 .. Len(hist'[l]) : \E v \in Workers, j \in Nat, st \in {"dst", "src"} : hist'[l][k].by = <<v, j, st>>
    <3>1. CASE l = T
      <4>1. e.t = wk[w].res.t /\ e.by = <<w, wk[w].i, wk[w].stage>>
        BY DEF e
      <4>2. \A k \in 1 .. Len(hist'[l]) : k \in 1 .. Len(hist[l]) \/ k = Len(hist[l]) + 1
        BY <1>6, <1>7, <3>1
      <4>3. \A k \in 1 .. Len(hist'[l]) : TreeOK(hist'[l][k].t)
        BY <1>4, <1>7, <3>1, <4>1, <4>2 DEF Histories
      <4>4. hist'[l][1].by = <<>>
        BY <1>6, <1>7, <3>1 DEF Histories
      <4>5. \A k \in 2 .. Len(hist'[l]) : \E v \in Workers, j \in Nat, st \in {"dst", "src"} : hist'[l][k].by = <<v, j, st>>
        <5> SUFFICES ASSUME NEW k \in 2 .. Len(hist'[l])
                     PROVE  \E v \in Workers, j \in Nat, st \in {"dst", "src"} : hist'[l][k].by = <<v, j, st>>
          OBVIOUS
        <5>1. CASE k \in 2 .. Len(hist[l])
          <6>1. hist'[l][k] = hist[l][k]
            BY <1>6, <1>7, <3>1, <5>1
          <6> QED
            BY <5>1, <6>1 DEF Histories
        <5>2. CASE k = Len(hist[l]) + 1
          BY <1>1, <1>7, <3>1, <4>1, <5>2
        <5> QED
          BY <1>6, <1>7, <3>1, <5>1, <5>2
      <4> QED
        BY <1>6, <1>7, <3>1, <4>3, <4>4, <4>5
    <3>2. CASE l # T
      BY <1>8, <3>2 DEF Histories
    <3> QED
      BY <3>1, <3>2
  <2>2. hist' = [l \in Libs |-> hist'[l]]
    BY <1>8
  <2> QED
    BY <2>1, <2>2 DEF Histories, TreeOK, IsTree, IsSeq
<1> QED
  BY <1>2, <1>4, <1>7, <1>9, <1>10 DEF T
-----------------------------------------------------------------------------
\* Commits stay.
LEMMA CommitStays ==
    ASSUME Histories, NEW w \in Workers, Extends(w), NEW l \in Libs, NEW k \in 1 .. Len(hist[l])
    PROVE  k \in 1 .. Len(hist'[l]) /\ hist'[l][k] = hist[l][k]
  BY DEF Extends, Histories

\* What a worker read, and what it placed, stays while it keeps its item.
LEMMA SourceStays ==
    ASSUME Histories, NEW w \in Workers, Extends(w), NEW v \in Workers, Source(v), FromSource(R(v)) => R(v).lib \in Libs,
           wk'[v].r = wk[v].r, wk'[v].i = wk[v].i, wk'[v].src = wk[v].src,
           FromSource(R(v)) /\ wk'[v].pc \in {"mutate", "cas", "confirm"} => wk[v].pc \in {"mutate", "cas", "confirm"}
    PROVE  Source(v)'
<1>1. R(v)' = R(v) /\ Item(v)' = Item(v)
  BY DEF R, Item
<1>2. ASSUME FromSource(R(v)), wk'[v].pc \in {"mutate", "cas", "confirm"}
      PROVE  \E x \in 1 .. Len(hist'[R(v).lib]) :
                Found(hist'[R(v).lib][x].t, Item(v)) /\ wk[v].src = Sub(hist'[R(v).lib][x].t, Item(v))
  <2>1. PICK x \in 1 .. Len(hist[R(v).lib]) :
             Found(hist[R(v).lib][x].t, Item(v)) /\ wk[v].src = Sub(hist[R(v).lib][x].t, Item(v))
    BY <1>2 DEF Source
  <2>2. x \in 1 .. Len(hist'[R(v).lib]) /\ hist'[R(v).lib][x] = hist[R(v).lib][x]
    BY <1>2, CommitStays
  <2> QED
    BY <2>1, <2>2
<1> QED
  BY <1>1, <1>2 DEF Source

LEMMA PlacedStays ==
    ASSUME Histories, NEW w \in Workers, Extends(w), NEW v \in Workers, Placed(v), wk[v].stage = "src" => R(v).dlib \in Libs,
           wk'[v].r = wk[v].r, wk'[v].i = wk[v].i, wk'[v].src = wk[v].src, wk'[v].stage = wk[v].stage
    PROVE  Placed(v)'
<1>1. R(v)' = R(v)
  BY DEF R
<1>2. ASSUME wk[v].stage = "src"
      PROVE  \E m \in 2 .. Len(hist'[R(v).dlib]) :
                /\ hist'[R(v).dlib][m].by = <<v, wk[v].i, "dst">>
                /\ \E n \in Entries(hist'[R(v).dlib][m].t, R(v).dst) : Sub(hist'[R(v).dlib][m].t, Append(R(v).dst, n)) = wk[v].src
  <2>1. PICK m \in 2 .. Len(hist[R(v).dlib]) :
             /\ hist[R(v).dlib][m].by = <<v, wk[v].i, "dst">>
             /\ \E n \in Entries(hist[R(v).dlib][m].t, R(v).dst) : Sub(hist[R(v).dlib][m].t, Append(R(v).dst, n)) = wk[v].src
    BY <1>2 DEF Placed
  <2>2. Len(hist[R(v).dlib]) \in Nat
    BY <1>2 DEF Histories
  <2>3. m \in 1 .. Len(hist[R(v).dlib]) /\ m >= 2
    BY <2>2
  <2>4. m \in 1 .. Len(hist'[R(v).dlib]) /\ hist'[R(v).dlib][m] = hist[R(v).dlib][m]
    BY <1>2, <2>3, CommitStays
  <2>5. m \in 2 .. Len(hist'[R(v).dlib])
    BY <2>3, <2>4
  <2> QED
    BY <2>1, <2>4, <2>5
<1> QED
  BY <1>1, <1>2 DEF Placed

\* The other workers keep their invariant while w moves.
LEMMA OthersKeep ==
    ASSUME HeadAssumption, Histories, NEW w \in Workers, Extends(w), WorkerInv(w), NEW v \in Workers, v # w, WorkerInv(v),
           wk'[v] = wk[v]
    PROVE  WorkerInv(v)'
<1>0. Registers(v) /\ Source(v) /\ Attempt(v) /\ Placed(v) /\ Spent(v)
  BY DEF WorkerInv
<1>1. R(v)' = R(v) /\ Item(v)' = Item(v) /\ Target(v)' = Target(v) /\ Mark(v)' = Mark(v)
  BY DEF R, Item, Target, Mark
<1>2. wk[v].pc # "idle" =>
        /\ R(v).lib \in Libs /\ R(v).dlib \in Libs /\ Target(v) \in Libs /\ R(v).old \in 1 .. Len(hist[R(v).lib])
  BY <1>0, RequestOf
<1>3. wk[v].pc # "idle" => OldTree(R(v))' = OldTree(R(v)) /\ R(v).old \in 1 .. Len(hist'[R(v).lib])
  BY <1>1, <1>2 DEF OldTree, Extends, Histories
<1>4. Registers(v)'
  BY <1>0, <1>1, <1>3 DEF Registers
<1>5. wk[v].pc = "idle" => wk[v].stage = "dst" /\ ~FromSource(R(v))
  BY <1>0 DEF Registers, Idle, NoRequest, R, FromSource, BatchOps
<1>6. Source(v)'
  BY <1>0, <1>2, <1>5, SourceStays
<1>7. Placed(v)'
  BY <1>0, <1>2, <1>5, PlacedStays
<1>8. \A l \in Libs : \A k \in 2 .. Len(hist'[l]) : hist'[l][k].by[1] = v => k \in 2 .. Len(hist[l]) /\ hist'[l][k] = hist[l][k]
  <2> SUFFICES ASSUME NEW l \in Libs, NEW k \in 2 .. Len(hist'[l]), hist'[l][k].by[1] = v
               PROVE  k \in 2 .. Len(hist[l]) /\ hist'[l][k] = hist[l][k]
    OBVIOUS
  <2>1. k \in 1 .. Len(hist'[l]) /\ Len(hist[l]) \in Nat
    BY DEF Extends, Histories
  <2>2. CASE k > Len(hist[l])
    <3>1. hist'[l][k].by = <<w, wk[w].i, wk[w].stage>>
      BY <2>1, <2>2 DEF Extends, Mark
    <3> QED
      BY <3>1
  <2>3. CASE ~(k > Len(hist[l]))
    BY <2>1, <2>3 DEF Extends
  <2> QED
    BY <2>2, <2>3
<1>9. Spent(v)'
  BY <1>0, <1>8 DEF Spent
<1>10. Attempt(v)'
  <2>1. CASE wk[v].pc = "cas"
    <3>1. /\ wk[v].snap \in 1 .. Len(hist[Target(v)])
          /\ wk[v].res = EffectOn(v, hist[Target(v)][wk[v].snap].t) /\ wk[v].res.k = "new"
      BY <1>0, <2>1 DEF Attempt
    <3>2. wk[v].snap \in 1 .. Len(hist'[Target(v)]) /\ hist'[Target(v)][wk[v].snap] = hist[Target(v)][wk[v].snap]
      BY <1>2, <2>1, <3>1 DEF Extends, Histories
    <3> QED
      BY <1>1, <1>3, <2>1, <3>1, <3>2 DEF Attempt, EffectOn
  <2>2. CASE wk[v].pc = "confirm"
    <3>1. \A k \in 2 .. Len(hist'[Target(v)]) : hist'[Target(v)][k].by = Mark(v) =>
              /\ k \in 2 .. Len(hist[Target(v)]) /\ hist'[Target(v)][k] = hist[Target(v)][k]
              /\ hist'[Target(v)][k - 1] = hist[Target(v)][k - 1]
      <4> SUFFICES ASSUME NEW k \in 2 .. Len(hist'[Target(v)]), hist'[Target(v)][k].by = Mark(v)
                   PROVE  /\ k \in 2 .. Len(hist[Target(v)]) /\ hist'[Target(v)][k] = hist[Target(v)][k]
                          /\ hist'[Target(v)][k - 1] = hist[Target(v)][k - 1]
        OBVIOUS
      <4>1. Target(v) \in Libs /\ hist'[Target(v)][k].by[1] = v
        BY <1>2, <2>2 DEF Mark
      <4>2. k \in 2 .. Len(hist[Target(v)]) /\ hist'[Target(v)][k] = hist[Target(v)][k]
        BY <1>8, <4>1
      <4>3. Len(hist[Target(v)]) \in Nat
        BY <4>1 DEF Histories
      <4>4. k - 1 \in 1 .. Len(hist[Target(v)])
        BY <4>2, <4>3
      <4> QED
        BY <4>1, <4>2, <4>4 DEF Extends
    <3> QED
      BY <1>0, <1>1, <1>3, <2>2, <3>1 DEF Attempt, EffectOn
  <2>3. CASE wk[v].pc \notin {"cas", "confirm"}
    BY <2>3 DEF Attempt
  <2> QED
    BY <2>1, <2>2, <2>3
<1> QED
  BY <1>4, <1>6, <1>7, <1>9, <1>10 DEF WorkerInv

\* The histories stay serial, and what a move removed stays published elsewhere.
LEMMA SerialKeep ==
    ASSUME HeadAssumption, HeadInv, NEW w \in Workers, Extends(w), Histories',
           \A v \in Workers : wk[v].pc # "idle" => wk'[v].r = wk[v].r
    PROVE  SerialHistory' /\ AppliedOnce' /\ MovedNotLost'
<1>0. Histories /\ (\A v \in Workers : WorkerInv(v)) /\ SerialHistory /\ AppliedOnce /\ MovedNotLost
  BY DEF HeadInv
<1>1. ASSUME NEW l \in Libs, NEW k \in 2 .. Len(hist[l])
      PROVE  /\ hist'[l][k] = hist[l][k] /\ hist'[l][k - 1] = hist[l][k - 1] /\ hist[l][k].by[1] \in Workers
             /\ wk'[hist[l][k].by[1]].r = wk[hist[l][k].by[1]].r
             /\ wk[hist[l][k].by[1]].r \in Requests /\ IsRequest(wk[hist[l][k].by[1]].r)
             /\ LET r == wk[hist[l][k].by[1]].r IN hist'[r.lib][r.old] = hist[r.lib][r.old]
  <2>1. hist'[l][k] = hist[l][k] /\ hist'[l][k - 1] = hist[l][k - 1]
    <3>1. Len(hist[l]) \in Nat
      BY <1>0 DEF Histories
    <3>2. k \in 1 .. Len(hist[l]) /\ k - 1 \in 1 .. Len(hist[l])
      BY <1>1, <3>1
    <3> QED
      BY <3>2 DEF Extends
  <2>2. PICK v \in Workers, j \in Nat, st \in {"dst", "src"} : hist[l][k].by = <<v, j, st>>
    BY <1>0, <1>1 DEF Histories
  <2>3. wk[v].pc # "idle"
    BY <1>0, <1>1, <2>2 DEF WorkerInv, Spent
  <2>4. /\ IsRequest(R(v)) /\ R(v) \in Requests /\ R(v).lib \in Libs /\ R(v).old \in 1 .. Len(hist[R(v).lib])
    BY <1>0, <2>3, RequestOf DEF WorkerInv
  <2>5. hist'[R(v).lib][R(v).old] = hist[R(v).lib][R(v).old] /\ wk'[v].r = wk[v].r
    BY <2>3, <2>4 DEF Extends
  <2>6. hist[l][k].by[1] = v
    BY <2>2
  <2> QED
    BY <2>1, <2>4, <2>5, <2>6 DEF R
<1>2. ASSUME NEW l \in Libs, NEW k \in 2 .. Len(hist'[l]), k \notin 2 .. Len(hist[l])
      PROVE  /\ wk[w].pc = "cas" /\ l = Target(w) /\ k = Len(hist[l]) + 1 /\ wk[w].snap = Len(hist[l])
             /\ hist'[l][k].t = wk[w].res.t /\ hist'[l][k].by = Mark(w)
             /\ hist'[l][k - 1] = hist[l][k - 1] /\ Len(hist[l]) \in Nat \ {0} /\ k - 1 = Len(hist[l])
             /\ wk'[w].r = R(w) /\ wk[w].res = New(wk[w].res.t)
             /\ wk[w].res = EffectOn(w, hist[l][Len(hist[l])].t)
             /\ R(w).lib \in Libs /\ R(w).dlib \in Libs /\ hist'[R(w).lib][R(w).old] = hist[R(w).lib][R(w).old]
  <2>1. /\ wk[w].pc = "cas" /\ l = Target(w) /\ k = Len(hist[l]) + 1 /\ wk[w].snap = Len(hist[l])
        /\ hist'[l][k].t = wk[w].res.t /\ hist'[l][k].by = Mark(w) /\ Len(hist[l]) \in Nat \ {0} /\ k - 1 = Len(hist[l])
    BY <1>0, <1>2 DEF Extends, Histories
  <2>2. hist'[l][k - 1] = hist[l][k - 1]
    BY <2>1 DEF Extends
  <2>3. Registers(w) /\ Source(w) /\ Attempt(w)
    BY <1>0 DEF WorkerInv
  <2>4. /\ R(w).lib \in Libs /\ R(w).dlib \in Libs /\ R(w).old \in 1 .. Len(hist[R(w).lib])
    BY <1>0, <2>1, <2>3, RequestOf
  <2>5. hist'[R(w).lib][R(w).old] = hist[R(w).lib][R(w).old] /\ wk'[w].r = R(w)
    BY <2>1, <2>4 DEF Extends, R
  <2>6. wk[w].res = EffectOn(w, hist[l][Len(hist[l])].t) /\ wk[w].res.k = "new"
    BY <2>1, <2>3 DEF Attempt
  <2>7. TreeOK(hist[l][Len(hist[l])].t)
    BY <1>0, <2>1 DEF Histories
  <2>8. Outcome(wk[w].res, R(w), Item(w), Target(w), hist[l][Len(hist[l])].t)
    BY <1>0, <2>1, <2>3, <2>6, <2>7, EffectOutcome
  <2>9. wk[w].res = New(wk[w].res.t)
    BY <2>6, <2>8, NewOutcome
  <2> QED
    BY <2>1, <2>2, <2>4, <2>5, <2>6, <2>9
<1>20. ASSUME NEW l \in Libs, NEW k \in 2 .. Len(hist'[l]), k \notin 2 .. Len(hist[l])
       PROVE  LET e == hist'[l][k]  r == wk'[e.by[1]].r IN
              /\ wk[w].pc = "cas" /\ e.t = wk[w].res.t /\ e.by = <<w, wk[w].i, wk[w].stage>>
              /\ hist'[l][k - 1] = hist[l][Len(hist[l])] /\ r = R(w) /\ r.items[e.by[2]] = Item(w)
              /\ New(e.t) = EffectOn(w, hist[l][Len(hist[l])].t)
  <2>1. /\ wk[w].pc = "cas" /\ hist'[l][k].t = wk[w].res.t /\ hist'[l][k].by = Mark(w)
        /\ hist'[l][k - 1] = hist[l][Len(hist[l])] /\ wk'[w].r = R(w)
        /\ New(wk[w].res.t) = EffectOn(w, hist[l][Len(hist[l])].t)
    BY <1>2, <1>20
  <2>2. hist'[l][k].by = <<w, wk[w].i, wk[w].stage>>
    BY <2>1 DEF Mark
  <2>3. hist'[l][k].by[1] = w /\ hist'[l][k].by[2] = wk[w].i
    BY <2>2
  <2>4. wk'[hist'[l][k].by[1]].r = R(w)
    BY <2>1, <2>3
  <2>5. wk'[hist'[l][k].by[1]].r.items[hist'[l][k].by[2]] = Item(w)
    BY <2>3, <2>4 DEF Item
  <2> QED
    BY <2>1, <2>2, <2>4, <2>5
<1>3. SerialHistory'
  <2> SUFFICES ASSUME NEW l \in Libs, NEW k \in 2 .. Len(hist'[l])
               PROVE  LET e == hist'[l][k]  r == wk'[e.by[1]].r  p == r.items[e.by[2]] IN
                      \E v \in 1 .. Len(hist'[r.lib]) :
                          LET s == hist'[r.lib][v].t IN
                          /\ FromSource(r) => Found(s, p)
                          /\ Mutation(hist'[l][k - 1].t, hist'[r.lib][r.old].t, r, p, IF FromSource(r) THEN Sub(s, p) ELSE <<>>, e.by[3]) = New(e.t)
    BY DEF SerialHistory, OldTree
  <2> DEFINE e == hist'[l][k]
             r == wk'[e.by[1]].r
             p == r.items[e.by[2]]
  <2>1. CASE k \in 2 .. Len(hist[l])
    <3>1. /\ e = hist[l][k] /\ hist'[l][k - 1] = hist[l][k - 1] /\ r = wk[hist[l][k].by[1]].r /\ IsRequest(r)
          /\ hist'[r.lib][r.old] = hist[r.lib][r.old]
      <4>1. /\ hist'[l][k] = hist[l][k] /\ hist'[l][k - 1] = hist[l][k - 1]
            /\ wk'[hist[l][k].by[1]].r = wk[hist[l][k].by[1]].r /\ IsRequest(wk[hist[l][k].by[1]].r)
            /\ LET q == wk[hist[l][k].by[1]].r IN hist'[q.lib][q.old] = hist[q.lib][q.old]
        BY <1>1, <2>1
      <4> QED
        BY <4>1
    <3>2. PICK v \in 1 .. Len(hist[r.lib]) :
             /\ FromSource(r) => Found(hist[r.lib][v].t, p)
             /\ Mutation(hist[l][k - 1].t, hist[r.lib][r.old].t, r, p, IF FromSource(r) THEN Sub(hist[r.lib][v].t, p) ELSE <<>>, e.by[3]) = New(e.t)
      <4>1. SerialHistory
        BY <1>0
      <4>2. \E v \in 1 .. Len(hist[wk[hist[l][k].by[1]].r.lib]) :
               LET q == wk[hist[l][k].by[1]].r  x == q.items[hist[l][k].by[2]] IN
               /\ FromSource(q) => Found(hist[q.lib][v].t, x)
               /\ Mutation(hist[l][k - 1].t, hist[q.lib][q.old].t, q, x, IF FromSource(q) THEN Sub(hist[q.lib][v].t, x) ELSE <<>>, hist[l][k].by[3]) = New(hist[l][k].t)
        BY <2>1, <4>1 DEF SerialHistory, OldTree
      <4> QED
        BY <3>1, <4>2
    <3>3. v \in 1 .. Len(hist'[r.lib]) /\ hist'[r.lib][v] = hist[r.lib][v]
      <4>1. r.lib \in Libs
        BY <3>1 DEF IsRequest
      <4> HIDE DEF r
      <4> QED
        BY <1>0, <4>1 DEF Extends, Histories
    <3> QED
      BY <3>1, <3>2, <3>3
  <2>2. CASE k \notin 2 .. Len(hist[l])
    <3>1. /\ wk[w].pc = "cas" /\ e.t = wk[w].res.t /\ e.by = <<w, wk[w].i, wk[w].stage>>
          /\ hist'[l][k - 1] = hist[l][Len(hist[l])] /\ r = R(w) /\ New(e.t) = EffectOn(w, hist[l][Len(hist[l])].t)
          /\ R(w).lib \in Libs /\ hist'[R(w).lib][R(w).old] = hist[R(w).lib][R(w).old] /\ p = Item(w)
      <4>1. R(w).lib \in Libs /\ hist'[R(w).lib][R(w).old] = hist[R(w).lib][R(w).old]
        BY <1>2, <2>2
      <4> QED
        BY <1>20, <2>2, <4>1
    <3>2. hist'[r.lib][r.old].t = OldTree(R(w))
      BY <3>1 DEF OldTree
    <3>3. Source(w) /\ Registers(w)
      BY <1>0 DEF WorkerInv
    <3>4. PICK v \in 1 .. Len(hist[R(w).lib]) :
             /\ FromSource(R(w)) => Found(hist[R(w).lib][v].t, Item(w))
             /\ wk[w].src = IF FromSource(R(w)) THEN Sub(hist[R(w).lib][v].t, Item(w)) ELSE <<>>
      <4>1. Len(hist[R(w).lib]) \in Nat \ {0}
        BY <1>0, <3>1 DEF Histories
      <4>2. 1 \in 1 .. Len(hist[R(w).lib])
        BY <4>1
      <4> QED
        BY <3>1, <3>3, <4>2 DEF Source
    <3>5. v \in 1 .. Len(hist'[R(w).lib]) /\ hist'[R(w).lib][v] = hist[R(w).lib][v]
      BY <1>0, <3>1, CommitStays
    <3>6. Mutation(hist[l][Len(hist[l])].t, OldTree(R(w)), R(w), Item(w), IF FromSource(R(w)) THEN Sub(hist[R(w).lib][v].t, Item(w)) ELSE <<>>, wk[w].stage) = New(e.t)
      BY <3>1, <3>4 DEF EffectOn
    <3> HIDE DEF e, r, p
    <3>7. e.by[3] = wk[w].stage
      BY <3>1
    <3> QED
      BY <3>1, <3>2, <3>4, <3>5, <3>6, <3>7 DEF e, r, p
  <2> QED
    BY <2>1, <2>2
<1>4. AppliedOnce'
  <2> SUFFICES ASSUME NEW l \in Libs, NEW j \in 2 .. Len(hist'[l]), NEW k \in 2 .. Len(hist'[l]), hist'[l][j].by = hist'[l][k].by,
                      j \in 2 .. Len(hist[l]) \/ k \notin 2 .. Len(hist[l])
               PROVE  j = k
    BY DEF AppliedOnce
  <2>1. CASE j \in 2 .. Len(hist[l]) /\ k \in 2 .. Len(hist[l])
    <3>1. hist'[l][j] = hist[l][j] /\ hist'[l][k] = hist[l][k]
      BY <1>1, <2>1
    <3> QED
      BY <1>0, <2>1, <3>1 DEF AppliedOnce
  <2>2. CASE j \notin 2 .. Len(hist[l]) /\ k \notin 2 .. Len(hist[l])
    BY <1>2, <2>2
  <2>3. CASE j \in 2 .. Len(hist[l]) /\ k \notin 2 .. Len(hist[l])
    <3>1. wk[w].pc = "cas" /\ hist[l][j].by = <<w, wk[w].i, wk[w].stage>>
      BY <1>1, <1>2, <2>3 DEF Mark
    <3> QED
      BY <1>0, <2>3, <3>1 DEF WorkerInv, Spent
  <2> QED
    BY <2>1, <2>2, <2>3
<1>5. MovedNotLost'
  <2> SUFFICES ASSUME NEW l \in Libs, NEW k \in 2 .. Len(hist'[l]), hist'[l][k].by[3] = "src"
               PROVE  LET e == hist'[l][k]  r == wk'[e.by[1]].r  p == r.items[e.by[2]] IN
                      \E m \in 2 .. Len(hist'[r.dlib]) :
                          LET d == hist'[r.dlib][m] IN
                          /\ d.by = <<e.by[1], e.by[2], "dst">>
                          /\ \E n \in Entries(d.t, r.dst) : SameID(Sub(d.t, Append(r.dst, n)), Sub(hist'[l][k - 1].t, p))
    BY DEF MovedNotLost
  <2> DEFINE e == hist'[l][k]
             r == wk'[e.by[1]].r
             p == r.items[e.by[2]]
  <2>1. CASE k \in 2 .. Len(hist[l])
    <3>1. e = hist[l][k] /\ hist'[l][k - 1] = hist[l][k - 1] /\ r = wk[hist[l][k].by[1]].r /\ IsRequest(r)
      <4>1. /\ hist'[l][k] = hist[l][k] /\ hist'[l][k - 1] = hist[l][k - 1]
            /\ wk'[hist[l][k].by[1]].r = wk[hist[l][k].by[1]].r /\ IsRequest(wk[hist[l][k].by[1]].r)
        BY <1>1, <2>1
      <4> QED
        BY <4>1
    <3>2. PICK m \in 2 .. Len(hist[r.dlib]) :
             /\ hist[r.dlib][m].by = <<e.by[1], e.by[2], "dst">>
             /\ \E n \in Entries(hist[r.dlib][m].t, r.dst) : SameID(Sub(hist[r.dlib][m].t, Append(r.dst, n)), Sub(hist[l][k - 1].t, p))
      BY <1>0, <2>1, <3>1 DEF MovedNotLost
    <3>3. m \in 2 .. Len(hist'[r.dlib]) /\ hist'[r.dlib][m] = hist[r.dlib][m]
      <4>1. r.dlib \in Libs
        BY <3>1 DEF IsRequest
      <4> HIDE DEF r
      <4>2. Len(hist[r.dlib]) \in Nat /\ Len(hist'[r.dlib]) \in Nat /\ Len(hist[r.dlib]) <= Len(hist'[r.dlib])
        BY <1>0, <4>1 DEF Extends, Histories
      <4>3. m \in 1 .. Len(hist[r.dlib]) /\ m \in 2 .. Len(hist'[r.dlib])
        BY <4>2
      <4> QED
        BY <4>1, <4>3 DEF Extends
    <3> QED
      BY <3>1, <3>2, <3>3
  <2>2. CASE k \notin 2 .. Len(hist[l])
    <3>1. /\ wk[w].pc = "cas" /\ e.t = wk[w].res.t /\ e.by = <<w, wk[w].i, wk[w].stage>> /\ wk[w].stage = "src"
          /\ hist'[l][k - 1] = hist[l][Len(hist[l])] /\ r = R(w) /\ p = Item(w)
          /\ New(e.t) = EffectOn(w, hist[l][Len(hist[l])].t) /\ R(w).dlib \in Libs
      <4>1. R(w).dlib \in Libs
        BY <1>2, <2>2
      <4>2. /\ wk[w].pc = "cas" /\ e.t = wk[w].res.t /\ e.by = <<w, wk[w].i, wk[w].stage>>
            /\ hist'[l][k - 1] = hist[l][Len(hist[l])] /\ r = R(w) /\ p = Item(w)
            /\ New(e.t) = EffectOn(w, hist[l][Len(hist[l])].t)
        BY <1>20, <2>2
      <4>3. e.by[3] = "src"
        OBVIOUS
      <4> HIDE DEF e, r, p
      <4>4. wk[w].stage = "src"
        BY <4>2, <4>3
      <4> QED
        BY <4>1, <4>2, <4>4
    <3>2. Placed(w) /\ Registers(w)
      BY <1>0 DEF WorkerInv
    <3>4. \E m \in 2 .. Len(hist'[R(w).dlib]) :
             /\ hist'[R(w).dlib][m].by = <<w, wk[w].i, "dst">>
             /\ \E n \in Entries(hist'[R(w).dlib][m].t, R(w).dst) : Sub(hist'[R(w).dlib][m].t, Append(R(w).dst, n)) = wk[w].src
      <4>1. PICK m \in 2 .. Len(hist[R(w).dlib]) :
               /\ hist[R(w).dlib][m].by = <<w, wk[w].i, "dst">>
               /\ \E n \in Entries(hist[R(w).dlib][m].t, R(w).dst) : Sub(hist[R(w).dlib][m].t, Append(R(w).dst, n)) = wk[w].src
        BY <3>1, <3>2 DEF Placed
      <4>2. Len(hist[R(w).dlib]) \in Nat
        BY <1>0, <3>1 DEF Histories
      <4>3. m \in 1 .. Len(hist[R(w).dlib]) /\ m >= 2
        BY <4>2
      <4>4. m \in 1 .. Len(hist'[R(w).dlib]) /\ hist'[R(w).dlib][m] = hist[R(w).dlib][m]
        BY <1>0, <3>1, <4>3, CommitStays
      <4>5. m \in 2 .. Len(hist'[R(w).dlib])
        BY <4>3, <4>4
      <4> QED
        BY <4>1, <4>4, <4>5
    <3>5. SameID(wk[w].src, Sub(hist[l][Len(hist[l])].t, Item(w)))
      <4>1. TwoLibs(R(w)) /\ R(w).op \in MoveOps
        BY <3>1, <3>2 DEF Registers
      <4>2. EffectOn(w, hist[l][Len(hist[l])].t) = removeMovedSource(hist[l][Len(hist[l])].t, Item(w), wk[w].src)
        <5>1. R(w).op \in {"batchMove", "asyncMove"} /\ ~SameRepoMove(R(w)) /\ wk[w].stage # "dst"
          BY <3>1, <4>1 DEF TwoLibs, SameRepoMove, BatchOps, MoveOps
        <5> QED
          BY <3>1, <5>1 DEF EffectOn, Mutation
      <4>3. ~shouldSkipSourceRemovalAfterMove(hist[l][Len(hist[l])].t, Item(w), wk[w].src)
        BY <3>1, <4>2 DEF removeMovedSource, New, Noop
      <4> QED
        BY <4>3 DEF shouldSkipSourceRemovalAfterMove, SameID
    <3> HIDE DEF e, r, p
    <3>6. e.by[1] = w /\ e.by[2] = wk[w].i
      BY <3>1
    <3>7. \E m \in 2 .. Len(hist'[R(w).dlib]) :
             /\ hist'[R(w).dlib][m].by = <<w, wk[w].i, "dst">>
             /\ \E n \in Entries(hist'[R(w).dlib][m].t, R(w).dst) :
                   SameID(Sub(hist'[R(w).dlib][m].t, Append(R(w).dst, n)), Sub(hist[l][Len(hist[l])].t, Item(w)))
      BY <3>4, <3>5
    <3> QED
      <4>1. \E m \in 2 .. Len(hist'[r.dlib]) :
               /\ hist'[r.dlib][m].by = <<e.by[1], e.by[2], "dst">>
               /\ \E n \in Entries(hist'[r.dlib][m].t, r.dst) :
                     SameID(Sub(hist'[r.dlib][m].t, Append(r.dst, n)), Sub(hist'[l][k - 1].t, p))
        <5>1. r.dlib = R(w).dlib /\ r.dst = R(w).dst /\ p = Item(w) /\ hist'[l][k - 1].t = hist[l][Len(hist[l])].t
          BY <3>1
        <5>2. PICK m \in 2 .. Len(hist'[R(w).dlib]) :
                /\ hist'[R(w).dlib][m].by = <<w, wk[w].i, "dst">>
                /\ \E n \in Entries(hist'[R(w).dlib][m].t, R(w).dst) :
                      SameID(Sub(hist'[R(w).dlib][m].t, Append(R(w).dst, n)), Sub(hist[l][Len(hist[l])].t, Item(w)))
          BY <3>7
        <5>3. m \in 2 .. Len(hist'[r.dlib]) /\ hist'[r.dlib][m].by = <<e.by[1], e.by[2], "dst">>
          BY <3>6, <5>1, <5>2
        <5>4. \E n \in Entries(hist'[r.dlib][m].t, r.dst) :
                 SameID(Sub(hist'[r.dlib][m].t, Append(r.dst, n)), Sub(hist'[l][k - 1].t, p))
          BY <5>1, <5>2
        <5> QED
          BY <5>3, <5>4
      <4> QED
        BY <4>1 DEF e, r, p
  <2> QED
    BY <2>1, <2>2
<1> QED
  BY <1>3, <1>4, <1>5
-----------------------------------------------------------------------------
(* Steps of a worker *)

Moved(w) == wk' = [v \in Workers |-> IF v = w THEN wk'[w] ELSE wk[v]]

LEMMA StepKeeps ==
    ASSUME HeadAssumption, HeadInv, NEW w \in Workers, Extends(w), Histories', Moved(w), WorkerInv(w)',
           wk[w].pc # "idle" => wk'[w].r = wk[w].r
    PROVE  HeadInv'
<1>1. Histories /\ \A v \in Workers : WorkerInv(v)
  BY DEF HeadInv
<1>2. \A v \in Workers : v # w => wk'[v] = wk[v]
  BY DEF Moved
<1>3. wk' = [v \in Workers |-> wk'[v]]
  BY DEF Moved
<1>4. \A v \in Workers : v # w => WorkerInv(v)'
  BY <1>1, <1>2, OthersKeep
<1>5. \A v \in Workers : wk[v].pc # "idle" => wk'[v].r = wk[v].r
  BY <1>2
<1>6. SerialHistory' /\ AppliedOnce' /\ MovedNotLost'
  BY <1>5, SerialKeep
<1>7. \A v \in Workers : WorkerInv(v)'
  BY <1>4
<1> QED
  BY <1>3, <1>6, <1>7 DEF HeadInv

\* What the commits of w are after a step of w.
LEMMA OwnCommits ==
    ASSUME Histories, NEW w \in Workers, Extends(w), Spent(w), NEW l \in Libs, NEW k \in 2 .. Len(hist'[l]), hist'[l][k].by[1] = w
    PROVE  \/ /\ k \in 2 .. Len(hist[l]) /\ hist'[l][k] = hist[l][k]
              /\ wk[w].pc # "idle" /\ hist[l][k].by[2] \in 1 .. wk[w].i
              /\ hist[l][k].by[2] = wk[w].i =>
                   /\ hist[l][k].by[3] = "src" => wk[w].stage = "src"
                   /\ hist[l][k].by[3] = wk[w].stage => wk[w].pc \in {"confirm", "listlocks", "lockrow", "done"}
           \/ /\ wk[w].pc = "cas" /\ hist'[l][k].by[2] = wk[w].i /\ hist'[l][k].by[3] = wk[w].stage
<1>1. Len(hist[l]) \in Nat /\ Len(hist'[l]) \in Nat
  BY DEF Histories, Extends
<1>2. CASE k \in 2 .. Len(hist[l])
  <2>1. k \in 1 .. Len(hist[l])
    BY <1>1, <1>2
  <2>2. hist'[l][k] = hist[l][k]
    BY <2>1, CommitStays
  <2> QED
    BY <1>2, <2>2 DEF Spent
<1>3. CASE k \notin 2 .. Len(hist[l])
  <2>1. wk[w].pc = "cas" /\ hist'[l][k].by = <<w, wk[w].i, wk[w].stage>>
    BY <1>1, <1>3 DEF Extends, Mark
  <2> QED
    BY <2>1
<1> QED
  BY <1>2, <1>3

\* A worker that keeps its request and does not look at HEAD.
LEMMA QuietKeeps ==
    ASSUME HeadAssumption, Histories, NEW w \in Workers, WorkerInv(w), Extends(w), wk[w].pc # "idle",
           wk'[w] = [f \in Fields |-> wk'[w][f]], wk'[w].r = wk[w].r, wk'[w].i = wk[w].i, wk'[w].stage = wk[w].stage,
           wk'[w].src = wk[w].src, wk'[w].att \in Nat, wk'[w].att <= MaxAttempts \/ wk'[w].att <= LockAttempts,
           wk'[w].pc \in {"listlocks", "lockrow", "done", "insert", "refresh"},
           wk'[w].pc \in {"listlocks", "lockrow"} => wk[w].pc \in Editing,
           wk'[w].pc \in {"insert", "refresh"} => wk[w].pc \in {"lock", "insert", "refresh"}
    PROVE  WorkerInv(w)'
<1>0. Registers(w) /\ Source(w) /\ Placed(w) /\ Spent(w)
  BY DEF WorkerInv
<1>1. R(w)' = R(w) /\ Item(w)' = Item(w)
  BY DEF R, Item
<1>2. R(w).lib \in Libs /\ R(w).dlib \in Libs /\ R(w).old \in 1 .. Len(hist[R(w).lib]) /\ wk[w].i \in Nat
  BY <1>0, RequestOf
<1>3. R(w).old \in 1 .. Len(hist'[R(w).lib])
  BY <1>2, CommitStays
<1>4. Registers(w)'
  BY <1>0, <1>1, <1>3 DEF Registers, Editing
<1>5. Source(w)'
  BY <1>0, <1>1 DEF Source
<1>6. Attempt(w)'
  BY DEF Attempt
<1>7. Placed(w)'
  BY <1>0, <1>2, PlacedStays
<1>8. Spent(w)'
  <2> SUFFICES ASSUME NEW l \in Libs, NEW k \in 2 .. Len(hist'[l]), hist'[l][k].by[1] = w
               PROVE  /\ wk'[w].pc # "idle" /\ hist'[l][k].by[2] \in 1 .. wk'[w].i
                      /\ hist'[l][k].by[2] = wk'[w].i =>
                           /\ hist'[l][k].by[3] = "src" => wk'[w].stage = "src"
                           /\ hist'[l][k].by[3] = wk'[w].stage => wk'[w].pc \in {"confirm", "listlocks", "lockrow", "done"}
    BY DEF Spent
  <2>1. wk[w].i \in 1 .. wk[w].i
    BY <1>0, RequestOf
  <2>2. CASE /\ hist'[l][k] = hist[l][k] /\ wk[w].pc # "idle" /\ hist[l][k].by[2] \in 1 .. wk[w].i
             /\ hist[l][k].by[2] = wk[w].i =>
                  /\ hist[l][k].by[3] = "src" => wk[w].stage = "src"
                  /\ hist[l][k].by[3] = wk[w].stage => wk[w].pc \in {"confirm", "listlocks", "lockrow", "done"}
    BY <2>2
  <2>3. CASE wk[w].pc = "cas" /\ hist'[l][k].by[2] = wk[w].i /\ hist'[l][k].by[3] = wk[w].stage
    BY <2>1, <2>3
  <2> QED
    BY <1>0, <2>2, <2>3, OwnCommits
<1> QED
  BY <1>4, <1>5, <1>6, <1>7, <1>8 DEF WorkerInv

\* The next item of a batch.
LEMMA NextKeeps ==
    ASSUME HeadAssumption, Histories, NEW w \in Workers, WorkerInv(w), Extends(w), wk[w].pc \in Editing,
           wk[w].i < Len(R(w).items), wk'[w] = [Idle EXCEPT !.pc = "check", !.r = R(w), !.i = wk[w].i + 1]
    PROVE  WorkerInv(w)' /\ wk'[w].r = wk[w].r
<1>0. Registers(w) /\ Spent(w) /\ wk[w].pc # "idle"
  BY DEF WorkerInv, Editing
<1>1. /\ wk'[w] = [f \in Fields |-> wk'[w][f]] /\ wk'[w].pc = "check" /\ wk'[w].r = R(w) /\ wk'[w].i = wk[w].i + 1
      /\ wk'[w].att = 1 /\ wk'[w].stage = "dst" /\ wk'[w].src = <<>>
  BY DEF Idle, Fields
<1>2. R(w)' = R(w)
  BY <1>1 DEF R
<1>3. /\ R(w) \in Requests /\ R(w).lib \in Libs /\ R(w).old \in 1 .. Len(hist[R(w).lib])
      /\ wk[w].i \in Nat \ {0} /\ Len(R(w).items) \in Nat
  BY <1>0, RequestOf
<1>4. R(w).old \in 1 .. Len(hist'[R(w).lib])
  BY <1>3, CommitStays
<1>5. wk[w].i + 1 \in 1 .. Len(R(w).items) /\ 1 <= MaxAttempts
  BY <1>3 DEF HeadAssumption
<1>6. R(w).op \notin {"lock", "unlock"}
  BY <1>0 DEF Registers
<1>7. Registers(w)'
  <2>1. R(w)' \in Requests /\ R(w)'.old \in 1 .. Len(hist'[R(w)'.lib]) /\ wk'[w].i \in 1 .. Len(R(w)'.items)
    BY <1>1, <1>2, <1>3, <1>4, <1>5
  <2>2. R(w)'.op \notin {"lock", "unlock"}
    BY <1>2, <1>6
  <2>3. wk'[w].att \in Nat /\ wk'[w].att <= MaxAttempts
    BY <1>1, <1>5
  <2> QED
    BY <1>1, <2>1, <2>2, <2>3 DEF Registers
<1>8. Source(w)' /\ Attempt(w)' /\ Placed(w)'
  BY <1>1 DEF Source, Attempt, Placed
<1>9. Spent(w)'
  <2> SUFFICES ASSUME NEW l \in Libs, NEW k \in 2 .. Len(hist'[l]), hist'[l][k].by[1] = w
               PROVE  hist'[l][k].by[2] \in 1 .. wk'[w].i /\ hist'[l][k].by[2] # wk'[w].i
    BY <1>1 DEF Spent
  <2>1. hist'[l][k].by[2] \in 1 .. wk[w].i
    BY <1>0, <1>3, OwnCommits
  <2> QED
    BY <1>1, <1>3, <2>1
<1> QED
  BY <1>1, <1>7, <1>8, <1>9 DEF WorkerInv, R

\* The worker ends its request.
LEMMA FinishKeeps ==
    ASSUME HeadAssumption, HeadInv, NEW w \in Workers, Extends(w), Histories', wk[w].pc # "idle", NEW out, wk' = Finish(w, out)
    PROVE  HeadInv'
<1>0. Histories /\ WorkerInv(w) /\ wk = [v \in Workers |-> wk[v]] /\ Registers(w)
  BY DEF HeadInv, WorkerInv
<1>1. wk[w] = [f \in Fields |-> wk[w][f]] /\ wk[w].att \in Nat /\ (wk[w].att <= MaxAttempts \/ wk[w].att <= LockAttempts)
  BY <1>0 DEF Registers
<1>2. wk'[w] = [wk[w] EXCEPT !.pc = "done", !.out = out] /\ Moved(w)
  BY <1>0 DEF Finish, Moved
<1>3. /\ wk'[w] = [f \in Fields |-> wk'[w][f]] /\ wk'[w].r = wk[w].r /\ wk'[w].i = wk[w].i /\ wk'[w].stage = wk[w].stage
      /\ wk'[w].src = wk[w].src /\ wk'[w].att = wk[w].att /\ wk'[w].pc = "done"
  BY <1>1, <1>2 DEF Fields
<1>4. WorkerInv(w)'
  BY <1>0, <1>1, <1>3, QuietKeeps
<1> QED
  BY <1>2, <1>3, <1>4, StepKeeps

\* The worker ends with one item.
LEMMA NextItemKeeps ==
    ASSUME HeadAssumption, HeadInv, NEW w \in Workers, Extends(w), Histories', wk[w].pc \in Editing, NEW ok, wk' = nextItem(w, ok)
    PROVE  HeadInv'
<1>0. Histories /\ WorkerInv(w) /\ wk = [v \in Workers |-> wk[v]] /\ wk[w].pc # "idle"
  BY DEF HeadInv, Editing
<1>1. CASE wk' = Finish(w, IF ok THEN "ok" ELSE "error")
  BY <1>0, <1>1, FinishKeeps
<1>2. CASE wk' = [wk EXCEPT ![w] = [Idle EXCEPT !.pc = "check", !.r = R(w), !.i = wk[w].i + 1]] /\ wk[w].i < Len(R(w).items)
  <2>1. wk'[w] = [Idle EXCEPT !.pc = "check", !.r = R(w), !.i = wk[w].i + 1] /\ Moved(w)
    BY <1>0, <1>2 DEF Moved
  <2>2. WorkerInv(w)' /\ wk'[w].r = wk[w].r
    BY <1>0, <1>2, <2>1, NextKeeps
  <2> QED
    BY <2>1, <2>2, StepKeeps
<1> QED
  BY <1>1, <1>2 DEF nextItem

\* A worker on its way to the compare-and-set.
LEMMA AdvanceKeeps ==
    ASSUME HeadAssumption, HeadInv, NEW w \in Workers, hist' = hist, Moved(w),
           wk[w].pc \in {"check", "source", "mutate", "cas"}, wk'[w].pc \in {"source", "mutate", "cas"},
           wk'[w] = [f \in Fields |-> wk'[w][f]], wk'[w].r = wk[w].r, wk'[w].i = wk[w].i, wk'[w].stage = wk[w].stage,
           wk'[w].att \in Nat, wk'[w].att <= MaxAttempts \/ wk'[w].att <= LockAttempts,
           wk'[w].pc = "source" => wk[w].stage = "dst" /\ FromSource(R(w)),
           wk'[w].src = wk[w].src \/ wk[w].stage = "dst", Source(w)', Attempt(w)'
    PROVE  HeadInv'
<1>0. Histories /\ WorkerInv(w) /\ Registers(w) /\ Placed(w) /\ Spent(w) /\ wk[w].pc # "idle"
  BY DEF HeadInv, WorkerInv
<1>1. R(w)' = R(w)
  BY DEF R
<1>2. Extends(w) /\ Histories'
  BY <1>0, StayExtends
<1>3. R(w).dlib \in Libs
  BY <1>0, RequestOf
<1>4. Registers(w)'
  BY <1>0, <1>1 DEF Registers, Editing
<1>5. Spent(w)'
  BY <1>0 DEF Spent
<1>6. Placed(w)'
  <2>1. CASE wk[w].stage = "dst"
    BY <2>1 DEF Placed
  <2>2. CASE wk[w].src = wk'[w].src
    BY <1>0, <1>2, <1>3, <2>2, PlacedStays
  <2> QED
    BY <2>1, <2>2
<1> QED
  BY <1>0, <1>2, <1>4, <1>5, <1>6, StepKeeps DEF WorkerInv

LEMMA BeginKeeps ==
    ASSUME HeadAssumption, HeadInv, NEW w \in Workers, NEW r \in Requests, Begin(w, r)
    PROVE  HeadInv'
<1>0. Histories /\ WorkerInv(w) /\ Registers(w) /\ Spent(w) /\ wk = [v \in Workers |-> wk[v]]
  BY DEF HeadInv, WorkerInv
<1>1. wk[w].pc = "idle" /\ wk[w] = Idle /\ hist' = hist /\ r.old \in DOMAIN hist[r.lib]
  BY <1>0 DEF Begin, Registers
<1>2. IsRequest(r)
  BY DEF HeadAssumption
<1>3. r.lib \in Libs /\ r.items \in Seq(Paths \ {<<>>}) /\ r.items # <<>>
  BY <1>2 DEF IsRequest
<1>4. r.old \in 1 .. Len(hist[r.lib]) /\ 1 \in 1 .. Len(r.items)
  <2>1. DOMAIN hist[r.lib] = 1 .. Len(hist[r.lib])
    BY <1>0, <1>3 DEF Histories
  <2>2. Len(r.items) \in Nat \ {0}
    BY <1>3, EmptySeq
  <2> QED
    BY <1>1, <2>1, <2>2
<1>5. Moved(w) /\ wk'[w] = [Idle EXCEPT !.r = r, !.pc = IF r.op \in {"lock", "unlock"} THEN r.op ELSE "check"]
  BY <1>0, <1>1 DEF Begin, Moved
<1>6. /\ wk'[w] = [f \in Fields |-> wk'[w][f]] /\ wk'[w].r = r /\ wk'[w].i = 1 /\ wk'[w].att = 1 /\ wk'[w].stage = "dst"
      /\ wk'[w].src = <<>> /\ wk'[w].pc = IF r.op \in {"lock", "unlock"} THEN r.op ELSE "check"
  BY <1>5 DEF Idle, Fields
<1>7. wk'[w].pc \in {"lock", "unlock", "check"} /\ (wk'[w].pc = "check" <=> r.op \notin {"lock", "unlock"})
  BY <1>6
<1>8. R(w)' = r
  BY <1>6 DEF R
<1>9. Registers(w)'
  <2>1. 1 \in Nat /\ 1 <= MaxAttempts
    BY DEF HeadAssumption
  <2> QED
    BY <1>1, <1>4, <1>6, <1>7, <1>8, <2>1 DEF Registers, Editing
<1>10. Source(w)' /\ Attempt(w)' /\ Placed(w)'
  BY <1>6, <1>7 DEF Source, Attempt, Placed
<1>11. Spent(w)'
  BY <1>0, <1>1 DEF Spent
<1>12. Extends(w) /\ Histories'
  BY <1>0, <1>1, StayExtends
<1> QED
  BY <1>1, <1>5, <1>9, <1>10, <1>11, <1>12, StepKeeps DEF WorkerInv

LEMMA CheckLocksKeeps ==
    ASSUME HeadAssumption, HeadInv, NEW w \in Workers, CheckLocks(w)
    PROVE  HeadInv'
<1>0. Histories /\ WorkerInv(w) /\ Registers(w) /\ Source(w) /\ wk = [v \in Workers |-> wk[v]]
  BY DEF HeadInv, WorkerInv
<1>1. wk[w].pc = "check" /\ hist' = hist
  BY DEF CheckLocks
<1>2. Extends(w) /\ Histories'
  BY <1>0, <1>1, StayExtends
<1>3. CASE wk' = nextItem(w, FALSE)
  BY <1>1, <1>2, <1>3, NextItemKeeps DEF Editing
<1>4. CASE wk' = [wk EXCEPT ![w].pc = IF FromSource(R(w)) THEN "source" ELSE "mutate"]
  <2>0. wk[w] = [f \in Fields |-> wk[w][f]] /\ wk[w].att \in Nat /\ (wk[w].att <= MaxAttempts \/ wk[w].att <= LockAttempts)
        /\ wk[w].stage = "dst"
    BY <1>0, <1>1 DEF Registers
  <2>1. Moved(w) /\ wk'[w] = [wk[w] EXCEPT !.pc = IF FromSource(R(w)) THEN "source" ELSE "mutate"]
    BY <1>0, <1>4 DEF Moved
  <2>2. /\ wk'[w] = [f \in Fields |-> wk'[w][f]] /\ wk'[w].r = wk[w].r /\ wk'[w].i = wk[w].i /\ wk'[w].stage = wk[w].stage
        /\ wk'[w].src = wk[w].src /\ wk'[w].att = wk[w].att /\ wk'[w].pc = IF FromSource(R(w)) THEN "source" ELSE "mutate"
    BY <2>0, <2>1 DEF Fields
  <2>3. R(w)' = R(w) /\ wk'[w].pc \in {"source", "mutate"} /\ (wk'[w].pc = "source" <=> FromSource(R(w)))
    BY <2>2 DEF R
  <2>4. Source(w)' /\ Attempt(w)'
    BY <1>0, <2>2, <2>3 DEF Source, Attempt
  <2> QED
    BY <1>1, <2>0, <2>1, <2>2, <2>3, <2>4, AdvanceKeeps
<1> QED
  BY <1>3, <1>4 DEF CheckLocks

LEMMA ReadSourceKeeps ==
    ASSUME HeadAssumption, HeadInv, NEW w \in Workers, ReadSource(w)
    PROVE  HeadInv'
<1>0. Histories /\ WorkerInv(w) /\ Registers(w) /\ Source(w) /\ wk = [v \in Workers |-> wk[v]]
  BY DEF HeadInv, WorkerInv
<1>1. wk[w].pc = "source" /\ hist' = hist
  BY DEF ReadSource
<1>2. Extends(w) /\ Histories'
  BY <1>0, <1>1, StayExtends
<1>3. CASE wk' = nextItem(w, FALSE)
  BY <1>1, <1>2, <1>3, NextItemKeeps DEF Editing
<1>4. CASE /\ Found(Tree(R(w).lib), Item(w))
           /\ wk' = [wk EXCEPT ![w].pc = "mutate", ![w].src = Sub(Tree(R(w).lib), Item(w))]
  <2>0. wk[w] = [f \in Fields |-> wk[w][f]] /\ wk[w].att \in Nat /\ (wk[w].att <= MaxAttempts \/ wk[w].att <= LockAttempts)
        /\ wk[w].stage = "dst" /\ FromSource(R(w))
    BY <1>0, <1>1 DEF Registers
  <2>1. Moved(w) /\ wk'[w] = [wk[w] EXCEPT !.pc = "mutate", !.src = Sub(Tree(R(w).lib), Item(w))]
    BY <1>0, <1>4 DEF Moved
  <2>2. /\ wk'[w] = [f \in Fields |-> wk'[w][f]] /\ wk'[w].r = wk[w].r /\ wk'[w].i = wk[w].i /\ wk'[w].stage = wk[w].stage
        /\ wk'[w].att = wk[w].att /\ wk'[w].pc = "mutate" /\ wk'[w].src = Sub(Tree(R(w).lib), Item(w))
    BY <2>0, <2>1 DEF Fields
  <2>3. R(w)' = R(w) /\ Item(w)' = Item(w) /\ R(w).lib \in Libs
    BY <1>0, <1>1, <2>2, RequestOf DEF R, Item
  <2>4. Len(hist[R(w).lib]) \in 1 .. Len(hist[R(w).lib]) /\ Tree(R(w).lib) = hist[R(w).lib][Len(hist[R(w).lib])].t
    BY <1>0, <2>3 DEF Histories, Tree, Last
  <2>5. Source(w)'
    <3>1. \E x \in 1 .. Len(hist'[R(w).lib]) :
             Found(hist'[R(w).lib][x].t, Item(w)) /\ wk'[w].src = Sub(hist'[R(w).lib][x].t, Item(w))
      BY <1>1, <1>4, <2>2, <2>4
    <3> QED
      BY <2>0, <2>3, <3>1 DEF Source
  <2>6. Attempt(w)'
    BY <2>2 DEF Attempt
  <2> QED
    BY <1>1, <2>0, <2>1, <2>2, <2>5, <2>6, AdvanceKeeps
<1> QED
  BY <1>3, <1>4 DEF ReadSource

LEMMA MutateKeeps ==
    ASSUME HeadAssumption, HeadInv, NEW w \in Workers, Mutate(w)
    PROVE  HeadInv'
<1>0. Histories /\ WorkerInv(w) /\ Registers(w) /\ Source(w) /\ wk = [v \in Workers |-> wk[v]]
  BY DEF HeadInv, WorkerInv
<1>1. wk[w].pc = "mutate" /\ hist' = hist
  BY DEF Mutate
<1>2. Extends(w) /\ Histories'
  BY <1>0, <1>1, StayExtends
<1>3. ASSUME NEW ok, wk' = nextItem(w, ok) PROVE HeadInv'
  BY <1>1, <1>2, <1>3, NextItemKeeps DEF Editing
<1>4. CASE Effect(w).k = "new" /\ wk' = [wk EXCEPT ![w].pc = "cas", ![w].snap = Len(hist[Target(w)]), ![w].res = Effect(w)]
  <2>0. wk[w] = [f \in Fields |-> wk[w][f]] /\ wk[w].att \in Nat /\ (wk[w].att <= MaxAttempts \/ wk[w].att <= LockAttempts)
    BY <1>0 DEF Registers
  <2>1. Moved(w) /\ wk'[w] = [wk[w] EXCEPT !.pc = "cas", !.snap = Len(hist[Target(w)]), !.res = Effect(w)]
    BY <1>0, <1>4 DEF Moved
  <2>2. /\ wk'[w] = [f \in Fields |-> wk'[w][f]] /\ wk'[w].r = wk[w].r /\ wk'[w].i = wk[w].i /\ wk'[w].stage = wk[w].stage
        /\ wk'[w].src = wk[w].src /\ wk'[w].att = wk[w].att /\ wk'[w].pc = "cas"
        /\ wk'[w].snap = Len(hist[Target(w)]) /\ wk'[w].res = Effect(w)
    BY <2>0, <2>1 DEF Fields
  <2>3. R(w)' = R(w) /\ Item(w)' = Item(w) /\ Target(w)' = Target(w) /\ Target(w) \in Libs /\ R(w).lib \in Libs
    BY <1>0, <1>1, <2>2, RequestOf DEF R, Item, Target
  <2>4. Len(hist[Target(w)]) \in 1 .. Len(hist[Target(w)]) /\ Tree(Target(w)) = hist[Target(w)][Len(hist[Target(w)])].t
    BY <1>0, <2>3 DEF Histories, Tree, Last
  <2>5. Source(w)'
    BY <1>0, <1>1, <1>2, <2>2, <2>3, SourceStays
  <2>6. Attempt(w)'
    <3>1. OldTree(R(w))' = OldTree(R(w))
      BY <1>1, <2>3 DEF OldTree
    <3> QED
      BY <1>1, <1>4, <2>2, <2>3, <2>4, <3>1 DEF Attempt, Effect, EffectOn
  <2> QED
    BY <1>1, <2>0, <2>1, <2>2, <2>5, <2>6, AdvanceKeeps
<1> QED
  BY <1>3, <1>4 DEF Mutate

LEMMA RetryKeeps ==
    ASSUME HeadAssumption, HeadInv, NEW w \in Workers, retryLibraryHeadMutation(w)
    PROVE  HeadInv'
<1> DEFINE to == IF FromSource(R(w)) /\ wk[w].stage = "dst" THEN "source" ELSE "mutate"
<1>0. Histories /\ WorkerInv(w) /\ Registers(w) /\ Source(w) /\ wk = [v \in Workers |-> wk[v]]
  BY DEF HeadInv, WorkerInv
<1>1. wk[w].pc = "cas" /\ hist' = hist
  BY DEF retryLibraryHeadMutation
<1>2. Extends(w) /\ Histories'
  BY <1>0, <1>1, StayExtends
<1>3. CASE wk' = nextItem(w, FALSE)
  BY <1>1, <1>2, <1>3, NextItemKeeps DEF Editing
<1>4. CASE wk[w].att < MaxAttempts /\ wk' = [wk EXCEPT ![w].att = @ + 1, ![w].pc = to]
  <2>0. wk[w] = [f \in Fields |-> wk[w][f]] /\ wk[w].att \in Nat /\ MaxAttempts \in Nat
    BY <1>0 DEF Registers, HeadAssumption
  <2>1. Moved(w) /\ wk'[w] = [wk[w] EXCEPT !.att = wk[w].att + 1, !.pc = to]
    BY <1>0, <1>4 DEF Moved
  <2>2. /\ wk'[w] = [f \in Fields |-> wk'[w][f]] /\ wk'[w].r = wk[w].r /\ wk'[w].i = wk[w].i /\ wk'[w].stage = wk[w].stage
        /\ wk'[w].src = wk[w].src /\ wk'[w].att = wk[w].att + 1 /\ wk'[w].pc = to
    BY <2>0, <2>1 DEF Fields
  <2>3. R(w)' = R(w) /\ R(w).lib \in Libs /\ wk'[w].att \in Nat /\ wk'[w].att <= MaxAttempts
    BY <1>0, <1>1, <1>4, <2>0, <2>2, RequestOf DEF R
  <2>4. Source(w)'
    BY <1>0, <1>1, <1>2, <2>2, <2>3, SourceStays
  <2>5. wk'[w].pc \in {"source", "mutate"} /\ (wk'[w].pc = "source" => FromSource(R(w)) /\ wk[w].stage = "dst")
    BY <2>2
  <2>6. Attempt(w)'
    BY <2>5 DEF Attempt
  <2> QED
    BY <1>1, <2>1, <2>2, <2>3, <2>4, <2>5, <2>6, AdvanceKeeps
<1> QED
  BY <1>3, <1>4 DEF retryLibraryHeadMutation

\* HEAD has moved to the commit of w.
LEMMA AfterHeadKeeps ==
    ASSUME HeadAssumption, HeadInv, NEW w \in Workers, Extends(w), Histories', wk[w].pc \in {"cas", "confirm"}, wk' = AfterHead(w),
           NEW k \in 2 .. Len(hist'[Target(w)]), hist'[Target(w)][k].by = Mark(w),
           New(hist'[Target(w)][k].t) = EffectOn(w, hist'[Target(w)][k - 1].t)
    PROVE  HeadInv'
<1> DEFINE T == Target(w)
<1>0. Histories /\ WorkerInv(w) /\ Registers(w) /\ Source(w) /\ Spent(w) /\ wk = [v \in Workers |-> wk[v]] /\ wk[w].pc # "idle"
  BY DEF HeadInv, WorkerInv
<1>1. wk[w] = [f \in Fields |-> wk[w][f]] /\ wk[w].att \in Nat /\ (wk[w].att <= MaxAttempts \/ wk[w].att <= LockAttempts)
  BY <1>0 DEF Registers
<1>2. /\ R(w) \in Requests /\ R(w).lib \in Libs /\ R(w).dlib \in Libs /\ T \in Libs /\ Item(w) \in Paths /\ Item(w) # <<>>
      /\ R(w).old \in 1 .. Len(hist[R(w).lib]) /\ wk[w].i \in 1 .. Len(R(w).items) /\ wk[w].i \in 1 .. wk[w].i
  BY <1>0, RequestOf
<1>3. CASE wk' = nextItem(w, TRUE)
  BY <1>3, NextItemKeeps DEF Editing
<1>4. CASE wk' = [wk EXCEPT ![w].pc = "listlocks"]
  <2>1. Moved(w) /\ wk'[w] = [wk[w] EXCEPT !.pc = "listlocks"]
    BY <1>0, <1>4 DEF Moved
  <2>2. /\ wk'[w] = [f \in Fields |-> wk'[w][f]] /\ wk'[w].r = wk[w].r /\ wk'[w].i = wk[w].i /\ wk'[w].stage = wk[w].stage
        /\ wk'[w].src = wk[w].src /\ wk'[w].att = wk[w].att /\ wk'[w].pc = "listlocks"
    BY <1>1, <2>1 DEF Fields
  <2>3. WorkerInv(w)'
    BY <1>0, <1>1, <2>2, QuietKeeps DEF Editing
  <2> QED
    BY <2>1, <2>2, <2>3, StepKeeps
<1>5. CASE /\ TwoLibs(R(w)) /\ R(w).op \in MoveOps /\ wk[w].stage = "dst"
           /\ wk' = [wk EXCEPT ![w].pc = "mutate", ![w].stage = "src", ![w].att = 1]
  <2>1. Moved(w) /\ wk'[w] = [wk[w] EXCEPT !.pc = "mutate", !.stage = "src", !.att = 1]
    BY <1>0, <1>5 DEF Moved
  <2>2. /\ wk'[w] = [f \in Fields |-> wk'[w][f]] /\ wk'[w].r = wk[w].r /\ wk'[w].i = wk[w].i /\ wk'[w].stage = "src"
        /\ wk'[w].src = wk[w].src /\ wk'[w].att = 1 /\ wk'[w].pc = "mutate"
    BY <1>1, <2>1 DEF Fields
  <2>3. R(w)' = R(w) /\ Item(w)' = Item(w)
    BY <2>2 DEF R, Item
  <2>4. R(w).old \in 1 .. Len(hist'[R(w).lib])
    BY <1>0, <1>2, CommitStays
  <2>5. Registers(w)'
    <3>1. 1 \in Nat /\ 1 <= MaxAttempts
      BY DEF HeadAssumption
    <3>2. R(w).op \notin {"lock", "unlock"}
      BY <1>5 DEF MoveOps
    <3>3. R(w)' \in Requests /\ R(w)'.old \in 1 .. Len(hist'[R(w)'.lib]) /\ wk'[w].i \in 1 .. Len(R(w)'.items)
      BY <1>2, <2>2, <2>3, <2>4
    <3> QED
      BY <1>5, <2>2, <2>3, <3>1, <3>2, <3>3 DEF Registers
  <2>6. Source(w)'
    BY <1>0, <1>2, <2>2, SourceStays
  <2>7. Attempt(w)'
    BY <2>2 DEF Attempt
  <2>8. Spent(w)'
    <3> SUFFICES ASSUME NEW l \in Libs, NEW j \in 2 .. Len(hist'[l]), hist'[l][j].by[1] = w
                 PROVE  /\ hist'[l][j].by[2] \in 1 .. wk[w].i
                        /\ hist'[l][j].by[2] = wk[w].i => hist'[l][j].by[3] # "src"
      BY <2>2 DEF Spent
    <3>1. CASE /\ hist'[l][j] = hist[l][j] /\ hist[l][j].by[2] \in 1 .. wk[w].i
               /\ hist[l][j].by[2] = wk[w].i => (hist[l][j].by[3] = "src" => wk[w].stage = "src")
      BY <1>5, <3>1
    <3>2. CASE hist'[l][j].by[2] = wk[w].i /\ hist'[l][j].by[3] = wk[w].stage
      BY <1>2, <1>5, <3>2
    <3> QED
      BY <1>0, <3>1, <3>2, OwnCommits
  <2>9. Placed(w)'
    <3>1. FromSource(R(w)) /\ ~SameRepoMove(R(w)) /\ R(w).op \in BatchOps /\ R(w).op # "MoveFile"
      BY <1>5 DEF FromSource, SameRepoMove, TwoLibs, BatchOps
    <3>2. T = R(w).dlib
      BY <1>5 DEF Target
    <3>3. EffectOn(w, hist'[T][k - 1].t) = copyToDestination(hist'[T][k - 1].t, wk[w].src, R(w), Item(w))
      BY <1>5, <3>1 DEF EffectOn, Mutation, BatchOps
    <3>4. TreeOK(wk[w].src)
      <4>1. PICK x \in 1 .. Len(hist[R(w).lib]) :
                 Found(hist[R(w).lib][x].t, Item(w)) /\ wk[w].src = Sub(hist[R(w).lib][x].t, Item(w))
        BY <1>0, <3>1 DEF Source
      <4>2. TreeOK(hist[R(w).lib][x].t) /\ Item(w) \in DOMAIN hist[R(w).lib][x].t
        BY <1>0, <1>2, <4>1 DEF Histories, Found
      <4> QED
        BY <4>1, <4>2, SubTree
    <3>5. TreeOK(hist'[T][k - 1].t)
      <4>1. Len(hist'[T]) \in Nat /\ \A j \in 1 .. Len(hist'[T]) : TreeOK(hist'[T][j].t)
        BY <1>2 DEF Histories
      <4>2. k - 1 \in 1 .. Len(hist'[T])
        BY <4>1
      <4> QED
        BY <4>1, <4>2
    <3>6. \E n \in Entries(hist'[T][k].t, R(w).dst) : Sub(hist'[T][k].t, Append(R(w).dst, n)) = wk[w].src
      BY <1>2, <3>3, <3>4, <3>5, CopyLands
    <3>7. hist'[T][k].by = <<w, wk[w].i, "dst">>
      BY <1>5 DEF Mark
    <3>8. \E m \in 2 .. Len(hist'[R(w).dlib]) :
             /\ hist'[R(w).dlib][m].by = <<w, wk[w].i, "dst">>
             /\ \E n \in Entries(hist'[R(w).dlib][m].t, R(w).dst) : Sub(hist'[R(w).dlib][m].t, Append(R(w).dst, n)) = wk[w].src
      <4> HIDE DEF T
      <4> QED
        BY <3>2, <3>6, <3>7 DEF T
    <3>9. /\ R(w)'.dlib = R(w).dlib /\ R(w)'.dst = R(w).dst /\ wk'[w].i = wk[w].i /\ wk'[w].src = wk[w].src
      BY <2>2, <2>3
    <3> QED
      BY <3>8, <3>9 DEF Placed
  <2>10. WorkerInv(w)'
    BY <2>5, <2>6, <2>7, <2>8, <2>9 DEF WorkerInv
  <2> QED
    BY <2>1, <2>2, <2>10, StepKeeps
<1> QED
  BY <1>3, <1>4, <1>5 DEF AfterHead

LEMMA AppliedKeeps ==
    ASSUME HeadAssumption, HeadInv, NEW w \in Workers, UpdateLibraryHead(w)
    PROVE  HeadInv'
<1> DEFINE T == Target(w)
<1>0. Histories /\ WorkerInv(w) /\ Registers(w) /\ Attempt(w)
  BY DEF HeadInv, WorkerInv
<1>1. wk[w].pc = "cas" /\ Len(hist[T]) = wk[w].snap /\ Publish(w) /\ wk' = AfterHead(w)
  BY DEF UpdateLibraryHead, UpdateApplied
<1>2. /\ Extends(w) /\ Histories' /\ Len(hist'[T]) = wk[w].snap + 1
      /\ wk[w].res = New(wk[w].res.t) /\ wk[w].res = EffectOn(w, hist[T][wk[w].snap].t)
  BY <1>0, <1>1, PublishExtends
<1>3. T \in Libs /\ Len(hist[T]) \in Nat \ {0}
  BY <1>0, <1>1, RequestOf DEF Histories
<1>4. /\ wk[w].snap + 1 \in 2 .. Len(hist'[T]) /\ wk[w].snap + 1 \in 1 .. Len(hist'[T]) /\ wk[w].snap + 1 > Len(hist[T])
      /\ wk[w].snap + 1 - 1 = wk[w].snap /\ wk[w].snap \in 1 .. Len(hist[T])
  BY <1>1, <1>2, <1>3
<1>5. hist'[T][wk[w].snap + 1].t = wk[w].res.t /\ hist'[T][wk[w].snap + 1].by = Mark(w) /\ hist'[T][wk[w].snap] = hist[T][wk[w].snap]
  BY <1>2, <1>3, <1>4 DEF Extends
<1> DEFINE k == wk[w].snap + 1
<1>6. k \in 2 .. Len(hist'[T]) /\ hist'[T][k].by = Mark(w) /\ hist'[T][k].t = wk[w].res.t /\ k - 1 = wk[w].snap
  BY <1>4, <1>5
<1> HIDE DEF k, T
<1>7. New(hist'[T][k].t) = EffectOn(w, hist'[T][k - 1].t)
  BY <1>2, <1>5, <1>6
<1> QED
  BY <1>1, <1>2, <1>6, <1>7, AfterHeadKeeps DEF T

LEMMA ResolveKeeps ==
    ASSUME HeadAssumption, HeadInv, NEW w \in Workers, resolveLibraryHeadUpdateError(w)
    PROVE  HeadInv'
<1> DEFINE T == Target(w)
           k == Len(hist[T])
<1>0. Histories /\ WorkerInv(w) /\ Registers(w) /\ Attempt(w)
  BY DEF HeadInv, WorkerInv
<1>1. wk[w].pc = "confirm" /\ hist' = hist
  BY DEF resolveLibraryHeadUpdateError
<1>2. Extends(w) /\ Histories'
  BY <1>0, <1>1, StayExtends
<1>3. CASE wk' = nextItem(w, FALSE)
  BY <1>1, <1>2, <1>3, NextItemKeeps DEF Editing
<1>4. CASE Last(hist[T]).by = <<w, wk[w].i, wk[w].stage>> /\ wk' = AfterHead(w)
  <2>1. T \in Libs /\ k \in Nat \ {0} /\ hist[T][1].by = <<>>
    BY <1>0, <1>1, RequestOf DEF Histories
  <2>2. hist[T][k].by = Mark(w)
    BY <1>4 DEF Last, Mark
  <2>3. k # 1
    <3>1. Mark(w) # <<>>
      BY DEF Mark
    <3> QED
      BY <2>1, <2>2, <3>1
  <2>4. k \in 2 .. Len(hist'[T]) /\ k \in 2 .. Len(hist[T])
    <3>1. k \in 2 .. k
      <4> HIDE DEF k
      <4> QED
        BY <2>1, <2>3
    <3> QED
      BY <1>1, <3>1
  <2>5. EffectOn(w, hist[T][k - 1].t) = New(hist[T][k].t)
    BY <1>0, <1>1, <2>2, <2>4 DEF Attempt
  <2>6. hist'[T][k].by = Mark(w) /\ New(hist'[T][k].t) = EffectOn(w, hist'[T][k - 1].t)
    BY <1>1, <2>2, <2>5
  <2> HIDE DEF T, k
  <2> QED
    BY <1>1, <1>2, <1>4, <2>4, <2>6, AfterHeadKeeps DEF T
<1> QED
  BY <1>3, <1>4 DEF resolveLibraryHeadUpdateError

LEMMA AmbiguousKeeps ==
    ASSUME HeadAssumption, HeadInv, NEW w \in Workers, UpdateAmbiguous(w)
    PROVE  HeadInv'
<1> DEFINE T == Target(w)
<1>0. Histories /\ WorkerInv(w) /\ Registers(w) /\ Source(w) /\ Attempt(w) /\ Placed(w) /\ Spent(w) /\ wk = [v \in Workers |-> wk[v]]
  BY DEF HeadInv, WorkerInv
<1>1. wk[w].pc = "cas" /\ wk' = [wk EXCEPT ![w].pc = "confirm"]
  BY DEF UpdateAmbiguous
<1>2. Extends(w) /\ Histories'
  <2>1. CASE Len(hist[T]) = wk[w].snap /\ Publish(w)
    BY <1>0, <1>1, <2>1, PublishExtends
  <2>2. CASE hist' = hist
    BY <1>0, <2>2, StayExtends
  <2> QED
    BY <2>1, <2>2 DEF UpdateAmbiguous
<1>3. wk[w] = [f \in Fields |-> wk[w][f]] /\ wk[w].att \in Nat /\ (wk[w].att <= MaxAttempts \/ wk[w].att <= LockAttempts)
  BY <1>0 DEF Registers
<1>4. Moved(w) /\ wk'[w] = [wk[w] EXCEPT !.pc = "confirm"]
  BY <1>0, <1>1 DEF Moved
<1>5. /\ wk'[w] = [f \in Fields |-> wk'[w][f]] /\ wk'[w].r = wk[w].r /\ wk'[w].i = wk[w].i /\ wk'[w].stage = wk[w].stage
      /\ wk'[w].src = wk[w].src /\ wk'[w].att = wk[w].att /\ wk'[w].pc = "confirm"
  BY <1>3, <1>4 DEF Fields
<1>6. R(w)' = R(w) /\ Item(w)' = Item(w) /\ Target(w)' = T /\ Mark(w)' = Mark(w)
  BY <1>5 DEF R, Item, Target, Mark
<1>7. /\ R(w) \in Requests /\ R(w).lib \in Libs /\ R(w).dlib \in Libs /\ T \in Libs
      /\ R(w).old \in 1 .. Len(hist[R(w).lib]) /\ wk[w].i \in 1 .. Len(R(w).items) /\ wk[w].i \in 1 .. wk[w].i
  BY <1>0, <1>1, RequestOf
<1>8. R(w).old \in 1 .. Len(hist'[R(w).lib]) /\ OldTree(R(w))' = OldTree(R(w))
  BY <1>0, <1>2, <1>6, <1>7, CommitStays DEF OldTree
<1>9. Registers(w)'
  BY <1>0, <1>1, <1>3, <1>5, <1>6, <1>7, <1>8 DEF Registers, Editing
<1>10. Source(w)' /\ Placed(w)'
  BY <1>0, <1>1, <1>2, <1>5, <1>7, SourceStays, PlacedStays
<1>11. Spent(w)'
  <2> SUFFICES ASSUME NEW l \in Libs, NEW j \in 2 .. Len(hist'[l]), hist'[l][j].by[1] = w
               PROVE  /\ hist'[l][j].by[2] \in 1 .. wk[w].i
                      /\ hist'[l][j].by[2] = wk[w].i => (hist'[l][j].by[3] = "src" => wk[w].stage = "src")
    BY <1>5 DEF Spent
  <2> QED
    BY <1>0, <1>2, <1>7, OwnCommits
<1>12. Attempt(w)'
  <2> SUFFICES ASSUME NEW k \in 2 .. Len(hist'[T]), hist'[T][k].by = Mark(w)
               PROVE  EffectOn(w, hist'[T][k - 1].t) = New(hist'[T][k].t)
    BY <1>5, <1>6, <1>8 DEF Attempt, EffectOn
  <2>1. Len(hist[T]) \in Nat \ {0} /\ Len(hist'[T]) \in Nat
    BY <1>0, <1>2, <1>7 DEF Histories, Extends
  <2>2. k \notin 2 .. Len(hist[T])
    <3>1. hist'[T][k].by[1] = w /\ hist'[T][k].by[2] = wk[w].i /\ hist'[T][k].by[3] = wk[w].stage
      BY DEF Mark
    <3> SUFFICES ASSUME k \in 2 .. Len(hist[T]) PROVE FALSE
      OBVIOUS
    <3>2. k \in 1 .. Len(hist[T])
      BY <2>1
    <3>3. hist'[T][k] = hist[T][k]
      BY <1>0, <1>2, <1>7, <3>2, CommitStays
    <3> QED
      BY <1>0, <1>1, <1>7, <3>1, <3>3 DEF Spent
  <2>3. /\ k = Len(hist[T]) + 1 /\ wk[w].snap = Len(hist[T]) /\ hist'[T][k].t = wk[w].res.t
    BY <1>2, <1>7, <2>1, <2>2 DEF Extends
  <2>4. k - 1 = wk[w].snap /\ wk[w].snap \in 1 .. Len(hist[T])
    BY <2>1, <2>3
  <2>5. hist'[T][k - 1] = hist[T][wk[w].snap]
    BY <1>0, <1>2, <1>7, <2>4, CommitStays
  <2>6. wk[w].res = EffectOn(w, hist[T][wk[w].snap].t) /\ wk[w].res.k = "new" /\ TreeOK(hist[T][wk[w].snap].t)
    BY <1>0, <1>1, <1>7, <2>4 DEF Attempt, Histories
  <2>7. wk[w].res = New(wk[w].res.t)
    <3>1. Outcome(wk[w].res, R(w), Item(w), T, hist[T][wk[w].snap].t)
      BY <1>0, <1>1, <2>6, EffectOutcome
    <3> QED
      BY <2>6, <3>1, NewOutcome
  <2> QED
    BY <2>3, <2>5, <2>6, <2>7
<1>13. WorkerInv(w)'
  BY <1>9, <1>10, <1>11, <1>12 DEF WorkerInv
<1> QED
  BY <1>2, <1>4, <1>5, <1>13, StepKeeps

\* A worker between its statements on lock rows.
LEMMA LockStepKeeps ==
    ASSUME HeadAssumption, HeadInv, NEW w \in Workers, hist' = hist, wk[w].pc # "idle", NEW to, NEW todo, NEW att,
           wk'[w] = [wk[w] EXCEPT !.pc = to, !.todo = todo, !.att = att], Moved(w), to \in {"lockrow", "insert", "refresh"},
           att \in Nat, att <= MaxAttempts \/ att <= LockAttempts,
           to = "lockrow" => wk[w].pc \in {"listlocks", "lockrow"},
           to \in {"insert", "refresh"} => wk[w].pc \in {"lock", "insert", "refresh"}
    PROVE  HeadInv'
<1>0. Histories /\ WorkerInv(w) /\ Registers(w)
  BY DEF HeadInv, WorkerInv
<1>1. wk[w] = [f \in Fields |-> wk[w][f]]
  BY <1>0 DEF Registers
<1>2. Extends(w) /\ Histories'
  BY <1>0, StayExtends
<1>3. /\ wk'[w] = [f \in Fields |-> wk'[w][f]] /\ wk'[w].r = wk[w].r /\ wk'[w].i = wk[w].i /\ wk'[w].stage = wk[w].stage
      /\ wk'[w].src = wk[w].src /\ wk'[w].att = att /\ wk'[w].pc = to
  BY <1>1 DEF Fields
<1>4. WorkerInv(w)'
  BY <1>0, <1>2, <1>3, QuietKeeps DEF Editing
<1> QED
  BY <1>2, <1>3, <1>4, StepKeeps

LEMMA LocksKeep ==
    ASSUME HeadAssumption, HeadInv, NEW w \in Workers,
           \/ ListLocks(w) \/ RelocateLocksUnder(w) \/ ClearLocksUnder(w) \/ LockTarget(w) \/ AcquireFileLock(w)
           \/ RefreshFileLock(w) \/ ReleaseFileLock(w) \/ Crash(w)
    PROVE  HeadInv'
<1>0. Histories /\ WorkerInv(w) /\ Registers(w) /\ wk = [v \in Workers |-> wk[v]]
  BY DEF HeadInv, WorkerInv
<1>1. /\ wk[w] = [f \in Fields |-> wk[w][f]] /\ wk[w].att \in Nat /\ (wk[w].att <= MaxAttempts \/ wk[w].att <= LockAttempts)
      /\ LockAttempts \in Nat
  BY <1>0 DEF Registers, HeadAssumption
<1>2. hist' = hist
  BY DEF ListLocks, RelocateLocksUnder, ClearLocksUnder, LockTarget, AcquireFileLock, RefreshFileLock, ReleaseFileLock, Crash
<1>3. Extends(w) /\ Histories'
  BY <1>0, <1>2, StayExtends
<1>4. ASSUME NEW out, wk' = Finish(w, out), wk[w].pc # "idle" PROVE HeadInv'
  BY <1>3, <1>4, FinishKeeps
<1>5. ASSUME NEW ok, wk' = nextItem(w, ok), wk[w].pc \in Editing PROVE HeadInv'
  BY <1>3, <1>5, NextItemKeeps
<1>6. CASE ListLocks(w)
  <2>1. CASE \E own : wk' = [wk EXCEPT ![w].pc = "lockrow", ![w].todo = own]
    <3>1. PICK own : wk' = [wk EXCEPT ![w].pc = "lockrow", ![w].todo = own]
      BY <2>1
    <3>2. wk'[w] = [wk[w] EXCEPT !.pc = "lockrow", !.todo = own, !.att = wk[w].att] /\ Moved(w) /\ wk[w].pc = "listlocks"
      BY <1>0, <1>1, <1>6, <3>1 DEF Moved, Fields, ListLocks
    <3> QED
      BY <1>1, <1>2, <3>2, LockStepKeeps
  <2>2. CASE wk' = nextItem(w, TRUE)
    BY <1>5, <1>6, <2>2 DEF ListLocks, Editing
  <2> QED
    BY <1>6, <2>1, <2>2 DEF ListLocks
<1>7. CASE RelocateLocksUnder(w) \/ ClearLocksUnder(w)
  <2>1. wk[w].pc = "lockrow" /\ \E q \in wk[w].todo : RowDone(w, q)
    BY <1>7 DEF RelocateLocksUnder, ClearLocksUnder
  <2>2. CASE wk' = nextItem(w, TRUE)
    BY <1>5, <2>1, <2>2 DEF Editing
  <2>3. CASE \E q : wk' = [wk EXCEPT ![w].todo = @ \ {q}]
    <3>1. PICK q : wk' = [wk EXCEPT ![w].todo = @ \ {q}]
      BY <2>3
    <3>2. wk'[w] = [wk[w] EXCEPT !.pc = "lockrow", !.todo = wk[w].todo \ {q}, !.att = wk[w].att] /\ Moved(w)
      BY <1>0, <1>1, <2>1, <3>1 DEF Moved, Fields
    <3> QED
      BY <1>1, <1>2, <2>1, <3>2, LockStepKeeps
  <2> QED
    BY <2>1, <2>2, <2>3 DEF RowDone
<1>8. CASE LockTarget(w) \/ AcquireFileLock(w) \/ RefreshFileLock(w)
  <2>1. CASE \E out : wk' = Finish(w, out)
    BY <1>4, <1>8, <2>1 DEF LockTarget, AcquireFileLock, RefreshFileLock
  <2>2. CASE wk' = [wk EXCEPT ![w].pc = "insert"] /\ wk[w].pc = "lock"
    <3>1. wk'[w] = [wk[w] EXCEPT !.pc = "insert", !.todo = wk[w].todo, !.att = wk[w].att] /\ Moved(w)
      BY <1>0, <1>1, <2>2 DEF Moved, Fields
    <3> QED
      BY <1>1, <1>2, <2>2, <3>1, LockStepKeeps
  <2>3. CASE wk' = [wk EXCEPT ![w].pc = "refresh"] /\ wk[w].pc = "insert"
    <3>1. wk'[w] = [wk[w] EXCEPT !.pc = "refresh", !.todo = wk[w].todo, !.att = wk[w].att] /\ Moved(w)
      BY <1>0, <1>1, <2>3 DEF Moved, Fields
    <3> QED
      BY <1>1, <1>2, <2>3, <3>1, LockStepKeeps
  <2>4. CASE wk' = [wk EXCEPT ![w].pc = "insert", ![w].att = @ + 1] /\ wk[w].pc = "refresh" /\ wk[w].att < LockAttempts
    <3>1. wk'[w] = [wk[w] EXCEPT !.pc = "insert", !.todo = wk[w].todo, !.att = wk[w].att + 1] /\ Moved(w)
      BY <1>0, <1>1, <2>4 DEF Moved, Fields
    <3>2. wk[w].att + 1 \in Nat /\ wk[w].att + 1 <= LockAttempts
      BY <1>1, <2>4
    <3> QED
      BY <1>1, <1>2, <2>4, <3>1, <3>2, LockStepKeeps
  <2>5. CASE LockTarget(w)
    BY <2>1, <2>2, <2>5 DEF LockTarget
  <2>6. CASE AcquireFileLock(w)
    BY <2>1, <2>3, <2>6 DEF AcquireFileLock
  <2>7. CASE RefreshFileLock(w)
    BY <2>1, <2>4, <2>7 DEF RefreshFileLock
  <2> QED
    BY <1>8, <2>5, <2>6, <2>7
<1>9. CASE ReleaseFileLock(w) \/ Crash(w)
  BY <1>4, <1>9 DEF ReleaseFileLock, Crash
<1> QED
  BY <1>6, <1>7, <1>8, <1>9

LEMMA HeadInvStep ==
    ASSUME HeadAssumption, HeadInv, [Next]_vars
    PROVE  HeadInv'
<1>1. CASE UNCHANGED vars
  <2>1. hist' = hist /\ wk' = wk
    BY <1>1 DEF vars
  <2>2. Histories' /\ wk' = [w \in Workers |-> wk'[w]]
    <3>1. Histories'
      BY <2>1 DEF HeadInv, Histories
    <3> QED
      BY <2>1, <3>1 DEF HeadInv
  <2>3. ASSUME NEW w \in Workers PROVE WorkerInv(w)'
    <3>0. Registers(w) /\ Source(w) /\ Attempt(w) /\ Placed(w) /\ Spent(w)
      BY DEF HeadInv, WorkerInv
    <3>1. R(w)' = R(w) /\ Item(w)' = Item(w) /\ Target(w)' = Target(w) /\ Mark(w)' = Mark(w)
      BY <2>1 DEF R, Item, Target, Mark
    <3>2. Registers(w)'
      BY <2>1, <3>0, <3>1 DEF Registers
    <3>3. Source(w)'
      BY <2>1, <3>0, <3>1 DEF Source
    <3>4. Attempt(w)'
      BY <2>1, <3>0, <3>1 DEF Attempt, EffectOn, OldTree
    <3>5. Placed(w)' /\ Spent(w)'
      BY <2>1, <3>0, <3>1 DEF Placed, Spent
    <3> QED
      BY <3>2, <3>3, <3>4, <3>5 DEF WorkerInv
  <2>4. SerialHistory' /\ AppliedOnce' /\ MovedNotLost'
    <3>1. CASE Workers = {}
      <4>1. \A l \in Libs : 2 .. Len(hist'[l]) = {}
        BY <2>2, <3>1 DEF Histories
      <4> QED
        BY <4>1 DEF SerialHistory, AppliedOnce, MovedNotLost
    <3>2. CASE Workers # {}
      <4>1. PICK w \in Workers : TRUE
        BY <3>2
      <4>2. Histories /\ Extends(w) /\ \A v \in Workers : wk[v].pc # "idle" => wk'[v].r = wk[v].r
        <5>1. Histories
          BY DEF HeadInv
        <5> QED
          BY <2>1, <5>1, StayExtends
      <4> QED
        BY <2>2, <4>2, SerialKeep
    <3> QED
      BY <3>1, <3>2
  <2> QED
    BY <2>2, <2>3, <2>4 DEF HeadInv
<1>2. ASSUME NEW w \in Workers, Step(w) PROVE HeadInv'
  BY <1>2, BeginKeeps, CheckLocksKeeps, ReadSourceKeeps, MutateKeeps, AppliedKeeps, RetryKeeps, AmbiguousKeeps, ResolveKeeps, LocksKeep
     DEF Step
<1> QED
  BY <1>1, <1>2 DEF Next, Served

LEMMA HeadInvInit ==
    ASSUME HeadAssumption, Init
    PROVE  HeadInv
<1>1. \A l \in Libs : hist[l] = <<[t |-> Trees[l], by |-> <<>>]>>
  BY DEF Init
<1>2. \A w \in Workers : wk[w] = Idle
  BY DEF Init
<1>3. Histories
  <2>1. hist = [l \in Libs |-> hist[l]]
    BY DEF Init
  <2>2. ASSUME NEW l \in Libs
        PROVE  /\ IsSeq(hist[l]) /\ Len(hist[l]) = 1 /\ DOMAIN hist[l] = 1 .. 1
               /\ TreeOK(hist[l][1].t) /\ hist[l][1].by = <<>>
    <3>1. hist[l] = <<[t |-> Trees[l], by |-> <<>>]>>
      BY <1>1
    <3>2. hist[l] \in Seq({hist[l][k] : k \in DOMAIN hist[l]})
      BY <3>1
    <3>3. TreeOK(Trees[l])
      BY DEF HeadAssumption, TreeOK
    <3> QED
      BY <3>1, <3>2, <3>3 DEF IsSeq
  <2>3. ASSUME NEW l \in Libs
        PROVE  /\ Len(hist[l]) \in Nat \ {0} /\ DOMAIN hist[l] = 1 .. Len(hist[l])
               /\ (\A k \in 1 .. Len(hist[l]) : k = 1) /\ 2 .. Len(hist[l]) = {}
    <3>1. Len(hist[l]) = 1
      BY <2>2
    <3>2. DOMAIN hist[l] = 1 .. Len(hist[l])
      BY <2>2, <3>1
    <3>3. (\A k \in 1 .. 1 : k = 1) /\ 2 .. 1 = {}
      OBVIOUS
    <3> QED
      BY <3>1, <3>2, <3>3
  <2>4. ASSUME NEW l \in Libs
        PROVE  /\ (\A k \in 1 .. Len(hist[l]) : TreeOK(hist[l][k].t))
               /\ \A k \in 2 .. Len(hist[l]) :
                     \E w \in Workers, j \in Nat, st \in {"dst", "src"} : hist[l][k].by = <<w, j, st>>
    BY <2>2, <2>3
  <2> QED
    BY <2>1, <2>2, <2>3, <2>4 DEF Histories
<1>4. ASSUME NEW l \in Libs PROVE Len(hist[l]) = 1 /\ 2 .. Len(hist[l]) = {}
  <2>1. hist[l] = <<[t |-> Trees[l], by |-> <<>>]>>
    BY <1>1
  <2>2. Len(hist[l]) = 1
    BY <2>1
  <2> QED
    BY <2>2
<1>5. ASSUME NEW w \in Workers PROVE WorkerInv(w)
  <2>1. /\ wk[w] = Idle /\ wk[w] = [f \in Fields |-> wk[w][f]] /\ wk[w].att = 1 /\ wk[w].stage = "dst" /\ wk[w].pc = "idle"
        /\ wk[w].src = <<>> /\ R(w) = NoRequest
    <3>1. wk[w] = Idle
      BY <1>2
    <3>2. Idle = [f \in Fields |-> Idle[f]] /\ Idle.att = 1 /\ Idle.stage = "dst" /\ Idle.pc = "idle"
          /\ Idle.src = <<>> /\ Idle.r = NoRequest
      BY DEF Idle, Fields
    <3> QED
      BY <3>1, <3>2 DEF R
  <2>2. Registers(w)
    <3>1. 1 \in Nat /\ 1 <= MaxAttempts
      BY DEF HeadAssumption
    <3> QED
      BY <2>1, <3>1 DEF Registers, Editing
  <2>3. Source(w) /\ Attempt(w) /\ Placed(w)
    BY <2>1 DEF Source, Attempt, Placed
  <2>4. Spent(w)
    BY <1>4 DEF Spent
  <2> QED
    BY <2>2, <2>3, <2>4 DEF WorkerInv
<1>6. SerialHistory /\ AppliedOnce /\ MovedNotLost
  BY <1>4 DEF SerialHistory, AppliedOnce, MovedNotLost
<1>7. wk = [w \in Workers |-> wk[w]]
  BY DEF Init
<1> QED
  BY <1>3, <1>5, <1>6, <1>7 DEF HeadInv

LEMMA HeadInvHolds == HeadAssumption => (Spec => []HeadInv)
<1> SUFFICES ASSUME HeadAssumption PROVE Spec => []HeadInv
  OBVIOUS
<1>1. Init => HeadInv
  BY HeadInvInit
<1>2. HeadInv /\ [Next]_vars => HeadInv'
  BY HeadInvStep
<1> QED
  BY <1>1, <1>2, PTL DEF Spec

-----------------------------------------------------------------------------
(* The locks *)

\* What passes the lock check touches no lock of another user.
LEMMA CheckSpares ==
    ASSUME NEW r, IsRequest(r), NEW p, LocksAllow(r, p), NEW l \in {r.lib, r.dlib}, NEW q \in DOMAIN rows[l], rows[l][q] # r.user
    PROVE  Spared(r, p, l, q)
<1> DEFINE A == r.op \in {"RenameDirectory", "RenameFile", "DeleteDirectory", "DeleteFile"}
           B == r.op = "BatchDeleteItems"
           C == r.op \in BatchOps \cup MoveOps
           D == r.op \in {"CopyFile", "copyBatch"}
           E == r.op \in {"UploadFile", "RevertFile"} /\ r.policy = "replace"
           F == r.op = "RevertDirectory" /\ r.policy = "replace"
           LA == requireSubtreeNotLockedByOther(r.lib, p, r.user)
           LB == \A x \in Range(r.items) : requireSubtreeNotLockedByOther(r.lib, x, r.user)
           LE == requireFileNotLockedByOther(r.lib, p, r.user)
<1>1. LocksAllow(r, p) = CASE A -> LA [] B -> LB [] C -> checkBatchLocks(r, p) [] D -> checkCopyReplaceDestLocked(r, p)
                           [] E -> LE [] F -> LA [] OTHER -> TRUE
  BY Zenon DEF LocksAllow
<1>2. /\ A => ~B /\ ~C /\ ~D /\ ~E /\ ~F
      /\ B => ~A /\ ~C /\ ~D /\ ~E /\ ~F
      /\ C => ~A /\ ~B /\ ~D /\ ~E /\ ~F
      /\ D => ~A /\ ~B /\ ~C /\ ~E /\ ~F
      /\ E => ~A /\ ~B /\ ~C /\ ~D /\ ~F
      /\ F => ~A /\ ~B /\ ~C /\ ~D /\ ~E
  BY DEF BatchOps, MoveOps
<1>3. r.op \notin BatchOps => l = r.lib
  BY DEF IsRequest
<1>4. /\ A => r.op \notin BatchOps
      /\ B => r.op \notin BatchOps
      /\ D => r.op \notin BatchOps
      /\ E => r.op \notin BatchOps
      /\ F => r.op \notin BatchOps
  BY DEF BatchOps
<1>5. Spared(r, p, l, q) =
        /\ A => ~IsPrefix(p, q)
        /\ B => \A x \in Range(r.items) : ~IsPrefix(x, q)
        /\ r.op \in MoveOps /\ l = r.lib => ~IsPrefix(p, q)
        /\ r.op \in BatchOps \cup MoveOps \cup {"CopyFile", "copyBatch"} /\ r.policy = "replace" /\ l = r.dlib
             => ~IsPrefix(Append(r.dst, Last(p)), q)
        /\ E => q # p
        /\ F => ~IsPrefix(p, q)
  BY DEF Spared
<1>6. /\ C => r.op \in BatchOps \cup MoveOps
      /\ D => r.op \in {"CopyFile", "copyBatch"} /\ r.op \notin MoveOps
      /\ r.op \in MoveOps => C
      /\ r.op \in BatchOps \cup MoveOps \cup {"CopyFile", "copyBatch"} => C \/ D
      /\ r.op \in BatchOps \/ r.dlib = r.lib
  BY DEF IsRequest, BatchOps, MoveOps
<1>7. ASSUME NEW x, l = r.lib, requireSubtreeNotLockedByOther(r.lib, x, r.user) PROVE ~IsPrefix(x, q)
  BY <1>7 DEF requireSubtreeNotLockedByOther, SubtreeLockedByOther
<1>8. ASSUME NEW x, l = r.dlib, requireSubtreeNotLockedByOther(r.dlib, x, r.user) PROVE ~IsPrefix(x, q)
  BY <1>8 DEF requireSubtreeNotLockedByOther, SubtreeLockedByOther
<1>9. l = r.lib /\ LE => q # p
  BY DEF requireFileNotLockedByOther, FileLockedByOther
<1>10. C /\ checkBatchLocks(r, p) =>
         /\ r.op \in MoveOps /\ l = r.lib => ~IsPrefix(p, q)
         /\ r.policy = "replace" /\ l = r.dlib => ~IsPrefix(Append(r.dst, Last(p)), q)
  BY <1>7, <1>8 DEF checkBatchLocks
<1>11. D /\ checkCopyReplaceDestLocked(r, p) => (r.policy = "replace" => ~IsPrefix(Append(r.dst, Last(p)), q))
  BY <1>3, <1>4, <1>7 DEF checkCopyReplaceDestLocked
<1> HIDE DEF A, B, C, D, E, F, LA, LB, LE
<1>12. (A => LA) /\ (B => LB) /\ (C => checkBatchLocks(r, p)) /\ (D => checkCopyReplaceDestLocked(r, p)) /\ (E => LE) /\ (F => LA)
  BY <1>1, <1>2, Zenon
<1>13. A \/ F => ~IsPrefix(p, q)
  BY <1>3, <1>4, <1>7, <1>12 DEF LA
<1>14. B => \A x \in Range(r.items) : ~IsPrefix(x, q)
  BY <1>3, <1>4, <1>7, <1>12 DEF LB
<1> QED
  BY <1>2, <1>3, <1>4, <1>5, <1>6, <1>9, <1>10, <1>11, <1>12, <1>13, <1>14

\* What a worker that serves a request does to its registers.
Serves(w) ==
    /\ wk[w].pc # "idle" /\ Moved(w) /\ wk'[w].r = wk[w].r
    /\ wk'[w].pc \in Checked =>
         wk'[w].i = wk[w].i /\ (wk[w].pc \in Checked \/ (wk[w].pc = "check" /\ LocksAllow(R(w), Item(w))))

LEMMA FinishServes ==
    ASSUME HeadInv, NEW w \in Workers, wk[w].pc # "idle", NEW out, wk' = Finish(w, out)
    PROVE  Serves(w) /\ wk'[w].pc = "done"
<1>1. wk = [v \in Workers |-> wk[v]] /\ wk[w] = [f \in Fields |-> wk[w][f]]
  BY DEF HeadInv, WorkerInv, Registers
<1>2. wk'[w] = [wk[w] EXCEPT !.pc = "done", !.out = out] /\ Moved(w)
  BY <1>1 DEF Finish, Moved
<1>3. wk'[w].r = wk[w].r /\ wk'[w].pc = "done"
  BY <1>1, <1>2 DEF Fields
<1> QED
  BY <1>2, <1>3 DEF Serves, Checked

LEMMA NextItemServes ==
    ASSUME HeadInv, NEW w \in Workers, wk[w].pc # "idle", NEW ok, wk' = nextItem(w, ok)
    PROVE  Serves(w) /\ wk'[w].pc \in {"check", "done"}
<1>1. wk = [v \in Workers |-> wk[v]]
  BY DEF HeadInv
<1>2. CASE wk' = Finish(w, IF ok THEN "ok" ELSE "error")
  BY <1>2, FinishServes
<1>3. CASE wk' = [wk EXCEPT ![w] = [Idle EXCEPT !.pc = "check", !.r = R(w), !.i = wk[w].i + 1]]
  <2>1. wk'[w] = [Idle EXCEPT !.pc = "check", !.r = R(w), !.i = wk[w].i + 1] /\ Moved(w)
    BY <1>1, <1>3 DEF Moved
  <2>2. wk'[w].r = R(w) /\ wk'[w].pc = "check"
    BY <2>1 DEF Idle
  <2> QED
    BY <2>1, <2>2 DEF Serves, Checked, R
<1> QED
  BY <1>2, <1>3 DEF nextItem

\* One register after another is set.
LEMMA SetServes ==
    ASSUME HeadInv, NEW w \in Workers, wk[w].pc # "idle", NEW x, wk' = [wk EXCEPT ![w] = x], x.r = wk[w].r, x.i = wk[w].i,
           \/ x.pc \notin Checked
           \/ wk[w].pc \in Checked
           \/ wk[w].pc = "check" /\ LocksAllow(R(w), Item(w))
    PROVE  Serves(w) /\ wk'[w].pc = x.pc
<1>1. wk = [v \in Workers |-> wk[v]]
  BY DEF HeadInv
<1>2. wk'[w] = x /\ Moved(w)
  BY <1>1 DEF Moved
<1>3. wk'[w].r = wk[w].r /\ wk'[w].i = wk[w].i /\ wk'[w].pc = x.pc
  BY <1>2
<1>4. wk'[w].pc \in Checked => wk[w].pc \in Checked \/ (wk[w].pc = "check" /\ LocksAllow(R(w), Item(w)))
  <2>1. CASE x.pc \notin Checked
    BY <1>3, <2>1
  <2>2. CASE wk[w].pc \in Checked \/ (wk[w].pc = "check" /\ LocksAllow(R(w), Item(w)))
    BY <2>2
  <2> QED
    BY <2>1, <2>2
<1> QED
  BY <1>2, <1>3, <1>4, Zenon DEF Serves

LEMMA AfterHeadServes ==
    ASSUME HeadInv, NEW w \in Workers, wk[w].pc \in {"cas", "confirm"}, wk' = AfterHead(w)
    PROVE  Serves(w)
<1>0. wk = [v \in Workers |-> wk[v]] /\ wk[w] = [f \in Fields |-> wk[w][f]]
  BY DEF HeadInv, WorkerInv, Registers
<1>1. CASE wk' = [wk EXCEPT ![w].pc = "mutate", ![w].stage = "src", ![w].att = 1]
  <2> DEFINE x == [wk[w] EXCEPT !.pc = "mutate", !.stage = "src", !.att = 1]
  <2>1. wk' = [wk EXCEPT ![w] = x] /\ x.r = wk[w].r /\ x.i = wk[w].i /\ x.pc = "mutate"
    BY <1>0, <1>1 DEF Fields
  <2> HIDE DEF x
  <2> QED
    BY <2>1, SetServes DEF Checked
<1>2. CASE wk' = [wk EXCEPT ![w].pc = "listlocks"]
  <2> DEFINE x == [wk[w] EXCEPT !.pc = "listlocks"]
  <2>1. wk' = [wk EXCEPT ![w] = x] /\ x.r = wk[w].r /\ x.i = wk[w].i /\ x.pc = "listlocks"
    BY <1>0, <1>2 DEF Fields
  <2> HIDE DEF x
  <2> QED
    BY <2>1, SetServes DEF Checked
<1>3. CASE wk' = nextItem(w, TRUE)
  BY <1>3, NextItemServes
<1> QED
  BY <1>1, <1>2, <1>3 DEF AfterHead

\* Every step of a worker that serves a request.
LEMMA StepServes ==
    ASSUME HeadAssumption, HeadInv, NEW w \in Workers, Step(w)
    PROVE  \/ \E r \in Requests : Begin(w, r)
           \/ Serves(w) /\ UNCHANGED <<rows, held>>
           \/ Serves(w) /\ wk'[w].pc \notin Checked /\ \E l \in Libs : \E new : SetRows(l, new)
<1>0. /\ wk = [v \in Workers |-> wk[v]] /\ wk[w] = [f \in Fields |-> wk[w][f]] /\ Histories /\ Registers(w)
      /\ wk[w].pc # "idle" => R(w).lib \in Libs
  <2>1. Histories /\ Registers(w) /\ wk = [v \in Workers |-> wk[v]] /\ wk[w] = [f \in Fields |-> wk[w][f]]
    BY DEF HeadInv, WorkerInv, Registers
  <2> QED
    BY <2>1, RequestOf
<1>1. ASSUME wk[w].pc # "idle", NEW ok, wk' = nextItem(w, ok) PROVE Serves(w) /\ wk'[w].pc \notin Checked
  BY <1>1, NextItemServes DEF Checked
<1>2. ASSUME wk[w].pc # "idle", NEW out, wk' = Finish(w, out) PROVE Serves(w) /\ wk'[w].pc \notin Checked
  BY <1>2, FinishServes DEF Checked
<1>3. ASSUME wk[w].pc # "idle", NEW p, wk' = [wk EXCEPT ![w].pc = p],
             p \notin Checked \/ wk[w].pc \in Checked \/ (wk[w].pc = "check" /\ LocksAllow(R(w), Item(w)))
      PROVE  Serves(w) /\ wk'[w].pc = p
  <2> DEFINE x == [wk[w] EXCEPT !.pc = p]
  <2>1. wk' = [wk EXCEPT ![w] = x] /\ x.r = wk[w].r /\ x.i = wk[w].i /\ x.pc = p
    BY <1>0, <1>3 DEF Fields
  <2> HIDE DEF x
  <2> QED
    BY <1>3, <2>1, SetServes
<1>4. CASE CheckLocks(w)
  <2>0. wk[w].pc = "check" /\ UNCHANGED <<rows, held>>
    BY <1>4 DEF CheckLocks
  <2>1. CASE LocksAllow(R(w), Item(w)) /\ wk' = [wk EXCEPT ![w].pc = IF FromSource(R(w)) THEN "source" ELSE "mutate"]
    BY <1>3, <2>0, <2>1
  <2> QED
    BY <1>1, <1>4, <2>0, <2>1 DEF CheckLocks
<1>5. CASE ReadSource(w)
  <2>0. wk[w].pc = "source" /\ UNCHANGED <<rows, held>>
    BY <1>5 DEF ReadSource
  <2>1. ASSUME NEW y, wk' = [wk EXCEPT ![w].pc = "mutate", ![w].src = y] PROVE Serves(w)
    <3> DEFINE x == [wk[w] EXCEPT !.pc = "mutate", !.src = y]
    <3>1. wk' = [wk EXCEPT ![w] = x] /\ x.r = wk[w].r /\ x.i = wk[w].i /\ x.pc = "mutate"
      BY <1>0, <2>1 DEF Fields
    <3> HIDE DEF x
    <3> QED
      BY <2>0, <3>1, SetServes DEF Checked
  <2> QED
    BY <1>1, <1>5, <2>0, <2>1 DEF ReadSource
<1>6. CASE Mutate(w)
  <2>0. wk[w].pc = "mutate" /\ UNCHANGED <<rows, held>>
    BY <1>6 DEF Mutate
  <2>1. ASSUME NEW y, NEW z, wk' = [wk EXCEPT ![w].pc = "cas", ![w].snap = y, ![w].res = z] PROVE Serves(w)
    <3> DEFINE x == [wk[w] EXCEPT !.pc = "cas", !.snap = y, !.res = z]
    <3>1. wk' = [wk EXCEPT ![w] = x] /\ x.r = wk[w].r /\ x.i = wk[w].i /\ x.pc = "cas"
      BY <1>0, <2>1 DEF Fields
    <3> HIDE DEF x
    <3> QED
      BY <2>0, <3>1, SetServes DEF Checked
  <2> QED
    BY <1>1, <1>6, <2>0, <2>1 DEF Mutate
<1>7. CASE UpdateLibraryHead(w)
  BY <1>7, AfterHeadServes DEF UpdateLibraryHead, UpdateApplied
<1>8. CASE retryLibraryHeadMutation(w)
  <2>0. wk[w].pc = "cas" /\ UNCHANGED <<rows, held>>
    BY <1>8 DEF retryLibraryHeadMutation
  <2>1. ASSUME NEW y, wk' = [wk EXCEPT ![w].att = @ + 1, ![w].pc = y] PROVE Serves(w)
    <3> DEFINE x == [wk[w] EXCEPT !.att = @ + 1, !.pc = y]
    <3>1. wk' = [wk EXCEPT ![w] = x] /\ x.r = wk[w].r /\ x.i = wk[w].i /\ x.pc = y
      BY <1>0, <2>1 DEF Fields
    <3> HIDE DEF x
    <3> QED
      BY <2>0, <3>1, SetServes DEF Checked
  <2> QED
    BY <1>1, <1>8, <2>0, <2>1 DEF retryLibraryHeadMutation
<1>9. CASE UpdateAmbiguous(w)
  <2>1. wk[w].pc = "cas" /\ wk' = [wk EXCEPT ![w].pc = "confirm"] /\ UNCHANGED <<rows, held>>
    BY <1>9 DEF UpdateAmbiguous
  <2>2. wk[w].pc \in Checked /\ wk[w].pc # "idle"
    BY <2>1 DEF Checked
  <2> QED
    BY <1>3, <2>1, <2>2, Zenon
<1>10. CASE resolveLibraryHeadUpdateError(w)
  <2>0. wk[w].pc = "confirm" /\ UNCHANGED <<rows, held>>
    BY <1>10 DEF resolveLibraryHeadUpdateError
  <2> QED
    BY <1>1, <1>10, <2>0, AfterHeadServes DEF resolveLibraryHeadUpdateError
<1>11. ASSUME NEW y, wk' = [wk EXCEPT ![w].pc = "lockrow", ![w].todo = y] \/ wk' = [wk EXCEPT ![w].todo = y], wk[w].pc \in {"listlocks", "lockrow"}
       PROVE  Serves(w) /\ wk'[w].pc \notin Checked
  <2> DEFINE x == [wk[w] EXCEPT !.pc = "lockrow", !.todo = y]
             z == [wk[w] EXCEPT !.todo = y]
  <2>1. \/ wk' = [wk EXCEPT ![w] = x] /\ x.r = wk[w].r /\ x.i = wk[w].i /\ x.pc = "lockrow"
        \/ wk' = [wk EXCEPT ![w] = z] /\ z.r = wk[w].r /\ z.i = wk[w].i /\ z.pc = wk[w].pc
    BY <1>0, <1>11 DEF Fields
  <2> HIDE DEF x, z
  <2> QED
    BY <1>11, <2>1, SetServes DEF Checked
<1>12. CASE ListLocks(w)
  <2>0. wk[w].pc = "listlocks" /\ UNCHANGED <<rows, held>>
    BY <1>12 DEF ListLocks
  <2> QED
    BY <1>1, <1>11, <1>12, <2>0 DEF ListLocks
<1>13. CASE RelocateLocksUnder(w) \/ ClearLocksUnder(w)
  <2>1. wk[w].pc = "lockrow" /\ R(w).lib \in Libs
    BY <1>0, <1>13 DEF RelocateLocksUnder, ClearLocksUnder
  <2>2. PICK q, new : SetRows(R(w).lib, new) /\ RowDone(w, q)
    BY <1>13 DEF RelocateLocksUnder, ClearLocksUnder
  <2>3. Serves(w) /\ wk'[w].pc \notin Checked
    <3>1. CASE wk' = nextItem(w, TRUE)
      BY <1>1, <2>1, <3>1
    <3>2. CASE wk' = [wk EXCEPT ![w].todo = @ \ {q}]
      <4>1. wk' = [wk EXCEPT ![w].todo = wk[w].todo \ {q}]
        BY <3>2
      <4> QED
        BY <1>11, <2>1, <4>1
    <3> QED
      BY <2>2, <3>1, <3>2 DEF RowDone
  <2> QED
    BY <2>1, <2>2, <2>3
<1>14. CASE LockTarget(w)
  <2>1. wk[w].pc # "idle" /\ UNCHANGED <<rows, held>> /\ "insert" \notin Checked
    BY <1>14 DEF LockTarget, Checked
  <2>2. wk' = [wk EXCEPT ![w].pc = "insert"] \/ wk' = Finish(w, "error")
    BY <1>14 DEF LockTarget
  <2> QED
    BY <1>2, <1>3, <2>1, <2>2, Zenon
<1>15. CASE AcquireFileLock(w)
  <2>0. wk[w].pc = "insert" /\ R(w).lib \in Libs
    BY <1>0, <1>15 DEF AcquireFileLock
  <2>1. Serves(w) /\ wk'[w].pc \notin Checked
    <3>1. wk' = Finish(w, "ok") \/ wk' = Finish(w, "error") \/ wk' = [wk EXCEPT ![w].pc = "refresh"]
      BY <1>15 DEF AcquireFileLock
    <3>2. "refresh" \notin Checked /\ wk[w].pc # "idle"
      BY <2>0 DEF Checked
    <3>3. CASE wk' = [wk EXCEPT ![w].pc = "refresh"]
      BY <1>3, <3>2, <3>3, Zenon
    <3> QED
      BY <1>2, <3>1, <3>2, <3>3, Zenon
  <2>2. UNCHANGED <<rows, held>> \/ SetRows(R(w).lib, insertLock(rows[R(w).lib], Item(w), R(w).user))
    BY <1>15 DEF AcquireFileLock
  <2> QED
    BY <2>0, <2>1, <2>2
<1>16. CASE RefreshFileLock(w)
  <2>0. wk[w].pc = "refresh" /\ UNCHANGED <<rows, held>>
    BY <1>16 DEF RefreshFileLock
  <2>1. CASE wk' = [wk EXCEPT ![w].pc = "insert", ![w].att = @ + 1]
    <3> DEFINE x == [wk[w] EXCEPT !.pc = "insert", !.att = @ + 1]
    <3>1. wk' = [wk EXCEPT ![w] = x] /\ x.r = wk[w].r /\ x.i = wk[w].i /\ x.pc = "insert"
      BY <1>0, <2>1 DEF Fields
    <3> HIDE DEF x
    <3> QED
      BY <2>0, <3>1, SetServes DEF Checked
  <2> QED
    BY <1>2, <1>16, <2>0, <2>1 DEF RefreshFileLock
<1>17. CASE ReleaseFileLock(w)
  <2>0. wk[w].pc = "unlock" /\ R(w).lib \in Libs /\ wk' = Finish(w, "ok")
    BY <1>0, <1>17 DEF ReleaseFileLock
  <2> QED
    BY <1>2, <1>17, <2>0 DEF ReleaseFileLock
<1>18. CASE Crash(w)
  BY <1>2, <1>18 DEF Crash
<1> QED
  BY <1>4, <1>5, <1>6, <1>7, <1>8, <1>9, <1>10, <1>12, <1>13, <1>14, <1>15, <1>16, <1>17, <1>18 DEF Step

\* A change of the rows of one library: what is still held is still locked.
LEMMA SetRowsHolds ==
    ASSUME HeldInv, NEW l \in Libs, NEW new, SetRows(l, new)
    PROVE  /\ rows' = [m \in Libs |-> rows'[m]] /\ held' = [v \in Workers |-> held'[v]]
           /\ \A v \in Workers : \A h \in held'[v] :
                h \in held[v] /\ h[2] \in DOMAIN rows'[h[1]] /\ rows'[h[1]][h[2]] = h[3]
<1>1. rows' = [rows EXCEPT ![l] = new] /\ held' = Held(rows')
  BY DEF SetRows
<1>2. rows = [m \in Libs |-> rows[m]]
  BY DEF HeldInv
<1>3. \A v \in Workers : held'[v] = {h \in held[v] : h[2] \in DOMAIN rows'[h[1]] /\ rows'[h[1]][h[2]] = h[3]}
  BY <1>1 DEF Held
<1>4. held' = [v \in Workers |-> held'[v]]
  BY <1>1 DEF Held
<1>5. rows' = [m \in Libs |-> rows'[m]]
  BY <1>1, <1>2
<1> QED
  BY <1>3, <1>4, <1>5

LEMMA HeldInvStep ==
    ASSUME HeadAssumption, HeadInv, HeldInv, [Next]_vars
    PROVE  HeldInv'
<1> DEFINE Locked(v, h) == h[1] \in Libs /\ h[2] \in DOMAIN rows[h[1]] /\ rows[h[1]][h[2]] = h[3]
           Foreign(v, h) == wk[v].pc # "idle" => h[3] # R(v).user
           Cleared(v, h) == wk[v].pc \in Checked /\ h[1] \in {R(v).lib, R(v).dlib} => Spared(R(v), Item(v), h[1], h[2])
<1>0. \A v \in Workers : \A h \in held[v] : Locked(v, h) /\ Foreign(v, h) /\ Cleared(v, h)
  BY DEF HeldInv
<1>1. CASE UNCHANGED vars
  <2>1. rows' = rows /\ held' = held /\ wk' = wk
    BY <1>1 DEF vars
  <2>2. \A v \in Workers : R(v)' = R(v) /\ Item(v)' = Item(v)
    BY <2>1 DEF R, Item
  <2> QED
    BY <2>1, <2>2 DEF HeldInv
<1>2. ASSUME NEW w \in Workers, Step(w) PROVE HeldInv'
  <2>0. Histories /\ Registers(w)
    BY DEF HeadInv, WorkerInv
  <2>1. CASE \E r \in Requests : Begin(w, r)
    <3>1. PICK r \in Requests : Begin(w, r)
      BY <2>1
    <3>2. wk = [v \in Workers |-> wk[v]] /\ wk[w] = Idle /\ wk[w].pc = "idle" /\ rows' = rows
      BY <3>1 DEF HeadInv, WorkerInv, Registers, Begin
    <3>3. wk'[w].r = r /\ wk'[w].pc \in {"lock", "unlock", "check"} /\ \A v \in Workers : v # w => wk'[v] = wk[v]
      <4>1. wk' = [wk EXCEPT ![w].r = r, ![w].pc = IF r.op \in {"lock", "unlock"} THEN r.op ELSE "check"]
        BY <3>1 DEF Begin
      <4> QED
        BY <3>2, <4>1 DEF Idle
    <3>4. held' = [held EXCEPT ![w] = UNION {{<<l, p, rows[l][p]>> : p \in {q \in DOMAIN rows[l] : rows[l][q] # r.user}} : l \in Libs}]
      BY <3>1 DEF Begin
    <3>5. held = [v \in Workers |-> held[v]] /\ rows = [l \in Libs |-> rows[l]]
      BY DEF HeldInv
    <3>6. held' = [v \in Workers |-> held'[v]] /\ rows' = [l \in Libs |-> rows'[l]]
      BY <3>2, <3>4, <3>5
    <3>7. ASSUME NEW h \in held'[w] PROVE h[1] \in Libs /\ h[2] \in DOMAIN rows[h[1]] /\ rows[h[1]][h[2]] = h[3] /\ h[3] # r.user
      <4>1. h \in UNION {{<<l, p, rows[l][p]>> : p \in {q \in DOMAIN rows[l] : rows[l][q] # r.user}} : l \in Libs}
        BY <3>4, <3>5, <3>7
      <4>2. PICK l \in Libs : h \in {<<l, p, rows[l][p]>> : p \in {q \in DOMAIN rows[l] : rows[l][q] # r.user}}
        BY <4>1
      <4>3. PICK p \in DOMAIN rows[l] : h = <<l, p, rows[l][p]>> /\ rows[l][p] # r.user
        BY <4>2
      <4> QED
        BY <4>3
    <3>8. ASSUME NEW v \in Workers, v # w, NEW h \in held'[v] PROVE (Locked(v, h) /\ Foreign(v, h) /\ Cleared(v, h))'
      <4>1. h \in held[v] /\ wk'[v] = wk[v]
        BY <3>3, <3>4, <3>5, <3>8
      <4>2. R(v)' = R(v) /\ Item(v)' = Item(v)
        BY <4>1 DEF R, Item
      <4> QED
        BY <1>0, <3>2, <4>1, <4>2
    <3>9. ASSUME NEW h \in held'[w] PROVE (Locked(w, h) /\ Foreign(w, h) /\ Cleared(w, h))'
      BY <3>2, <3>3, <3>7 DEF R, Checked
    <3> QED
      BY <3>6, <3>8, <3>9 DEF HeldInv
  <2>2. CASE Serves(w)
    <3>1. /\ rows' = [l \in Libs |-> rows'[l]] /\ held' = [v \in Workers |-> held'[v]]
          /\ \A v \in Workers : \A h \in held'[v] :
               h \in held[v] /\ h[2] \in DOMAIN rows'[h[1]] /\ rows'[h[1]][h[2]] = h[3]
      <4>1. CASE UNCHANGED <<rows, held>>
        BY <1>0, <4>1 DEF HeldInv
      <4>2. CASE \E l \in Libs : \E new : SetRows(l, new)
        BY <4>2, SetRowsHolds
      <4>3. ~ \E r \in Requests : Begin(w, r)
        BY <2>2 DEF Begin, Serves
      <4> QED
        BY <1>2, <4>1, <4>2, <4>3, StepServes
    <3>2. ASSUME NEW v \in Workers, v # w, NEW h \in held'[v] PROVE (Locked(v, h) /\ Foreign(v, h) /\ Cleared(v, h))'
      <4>1. h \in held[v] /\ wk'[v] = wk[v]
        BY <2>2, <3>1, <3>2 DEF Serves, Moved
      <4>2. R(v)' = R(v) /\ Item(v)' = Item(v)
        BY <4>1 DEF R, Item
      <4> QED
        BY <1>0, <3>1, <4>1, <4>2
    <3>3. ASSUME NEW h \in held'[w] PROVE (Locked(w, h) /\ Foreign(w, h) /\ Cleared(w, h))'
      <4>1. h \in held[w] /\ R(w)' = R(w) /\ wk[w].pc # "idle"
        BY <2>2, <3>1 DEF Serves, R
      <4>2. Locked(w, h) /\ Foreign(w, h) /\ Cleared(w, h)
        BY <1>0, <4>1
      <4>3. h[3] # R(w).user /\ IsRequest(R(w))
        BY <2>0, <4>1, <4>2, RequestOf
      <4>4. Locked(w, h)' /\ Foreign(w, h)'
        BY <3>1, <4>1, <4>2, <4>3
      <4>5. ASSUME wk'[w].pc \in Checked, h[1] \in {R(w).lib, R(w).dlib} PROVE Spared(R(w), Item(w), h[1], h[2]) /\ Item(w)' = Item(w)
        <5>1. Item(w)' = Item(w)
          BY <2>2, <4>5 DEF Serves, Item, R
        <5>2. CASE wk[w].pc \in Checked
          BY <4>2, <4>5, <5>1, <5>2
        <5>3. CASE LocksAllow(R(w), Item(w))
          BY <4>2, <4>3, <4>5, <5>1, <5>3, CheckSpares
        <5> QED
          BY <2>2, <4>5, <5>2, <5>3 DEF Serves
      <4>6. Cleared(w, h)'
        BY <4>1, <4>5
      <4> QED
        BY <4>4, <4>6
    <3> QED
      BY <3>1, <3>2, <3>3 DEF HeldInv
  <2> QED
    BY <1>2, <2>1, <2>2, StepServes
<1> QED
  BY <1>1, <1>2 DEF Next, Served

LEMMA HeldInvHolds == HeadAssumption => (Spec => []HeldInv)
<1> SUFFICES ASSUME HeadAssumption PROVE Spec => []HeldInv
  OBVIOUS
<1>1. Init => HeldInv
  BY DEF Init, HeldInv, HeadAssumption
<1>2. HeadInv /\ HeldInv /\ [Next]_vars => HeldInv'
  BY HeldInvStep
<1> QED
  BY <1>1, <1>2, HeadInvHolds, PTL DEF Spec

LEMMA KeptStep ==
    ASSUME HeadAssumption, HeadInv, HeldInv, [Next]_vars
    PROVE  LockedFileKept
<1>0. SUFFICES ASSUME NEW l \in Libs, NEW w \in Workers, Publishes(l, w), R(w).op \notin {"RestoreTrashItem", "RevertDirents"},
                      NEW h \in held[w], h[1] = l, h[2] # PutsInto(R(w), Item(w)),
                      R(w).op \in {"UploadFile", "RevertFile"} => h[2] = Item(w), h[2] \in DOMAIN Tree(l)
               PROVE  h[2] \in DOMAIN Last(hist'[l]).t /\ Last(hist'[l]).t[h[2]] = Tree(l)[h[2]]
  BY DEF LockedFileKept, KeepsEntry
<1>1. hist' # hist /\ Len(hist[l]) \in Nat \ {0} /\ Histories
  BY <1>0 DEF Publishes, HeadInv, Histories
<1>2. PICK v \in Workers : wk[v].pc = "cas" /\ Len(hist[Target(v)]) = wk[v].snap /\ Publish(v)
  <2>1. PICK v \in Workers : Step(v)
    BY <1>1 DEF Next, Served, vars
  <2>2. \/ wk[v].pc = "cas" /\ Len(hist[Target(v)]) = wk[v].snap /\ Publish(v)
        \/ hist' = hist
    BY <2>1 DEF Step, Begin, CheckLocks, ReadSource, Mutate, UpdateLibraryHead, UpdateApplied, retryLibraryHeadMutation, UpdateAmbiguous,
                resolveLibraryHeadUpdateError, ListLocks, RelocateLocksUnder, ClearLocksUnder, LockTarget, AcquireFileLock,
                RefreshFileLock, ReleaseFileLock, Crash
  <2> QED
    BY <1>1, <2>2
<1>3. WorkerInv(v) /\ Registers(v) /\ Source(v)
  BY DEF HeadInv, WorkerInv
<1>4. /\ Extends(v) /\ Len(hist'[Target(v)]) = wk[v].snap + 1
      /\ wk[v].res = New(wk[v].res.t) /\ wk[v].res = EffectOn(v, hist[Target(v)][wk[v].snap].t)
  BY <1>1, <1>2, <1>3, PublishExtends
<1>5. /\ l = Target(v) /\ Len(hist'[l]) = Len(hist[l]) + 1 /\ Last(hist'[l]).t = wk[v].res.t /\ Last(hist'[l]).by = Mark(v)
  <2>1. Len(hist'[l]) \in 1 .. Len(hist'[l]) /\ Len(hist'[l]) > Len(hist[l])
    BY <1>0, <1>1, <1>4 DEF Publishes, Extends
  <2> QED
    BY <1>4, <2>1 DEF Extends, Last
<1>6. w = v
  BY <1>0, <1>5 DEF Publishes, Mark
<1>7. Tree(l) = hist[Target(w)][wk[w].snap].t /\ TreeOK(Tree(l))
  BY <1>1, <1>2, <1>5, <1>6 DEF Tree, Last, Histories
<1>8. Outcome(EffectOn(w, Tree(l)), R(w), Item(w), Target(w), Tree(l))
  BY <1>1, <1>2, <1>3, <1>6, <1>7, EffectOutcome
<1>9. wk[w].res = EffectOn(w, Tree(l)) /\ wk[w].res.k = "new"
  BY <1>2, <1>3, <1>4, <1>6, <1>7 DEF WorkerInv, Attempt
<1>10. Keeps(R(w), Item(w), l, Tree(l), wk[w].res.t)
  BY <1>5, <1>6, <1>8, <1>9, NewOutcome
<1>11. Spared(R(w), Item(w), l, h[2])
  BY <1>0, <1>2, <1>5, <1>6 DEF HeldInv, Checked, Target
<1>12. Safe(R(w), Item(w), l, h[2])
  BY <1>0, <1>11 DEF Safe
<1> QED
  BY <1>0, <1>5, <1>6, <1>10, <1>12 DEF Keeps

\* Each statement on a lock row touches rows of the user alone.
LEMMA RowsOfUser ==
    ASSUME NEW S, NEW q, NEW n, NEW u, NEW p \in DOMAIN S, S[p] # u
    PROVE  /\ p \in DOMAIN deleteLock(S, q, u) /\ deleteLock(S, q, u)[p] = S[p]
           /\ p \in DOMAIN insertLock(S, q, u) /\ insertLock(S, q, u)[p] = S[p]
           /\ p \in DOMAIN relocateLockRow(S, q, n, u) /\ relocateLockRow(S, q, n, u)[p] = S[p]
<1>1. ASSUME NEW T, p \in DOMAIN T, NEW x PROVE p \in DOMAIN insertLock(T, x, u) /\ insertLock(T, x, u)[p] = T[p]
  BY <1>1 DEF insertLock
<1>2. p \in DOMAIN deleteLock(S, q, u) /\ deleteLock(S, q, u)[p] = S[p]
  BY DEF deleteLock, Restrict
<1> QED
  BY <1>1, <1>2 DEF relocateLockRow

\* Each statement on a lock row is a step of a worker that serves the user of that row.
LEMMA HolderStep ==
    ASSUME HeadAssumption, HeadInv, HeldInv, [Next]_vars
    PROVE  HolderTouchesLock
<1>0. SUFFICES ASSUME NEW l \in Libs, NEW p \in DOMAIN rows[l], p \notin DOMAIN rows'[l] \/ rows'[l][p] # rows[l][p]
               PROVE  \E w \in Workers : wk'[w] # wk[w] /\ wk[w].r # NoRequest /\ wk[w].r.user = rows[l][p]
  BY DEF HolderTouchesLock
<1>1. rows' # rows
  BY <1>0
<1>2. PICK w \in Workers : Step(w)
  BY <1>1 DEF Next, Served, vars
<1>3. Histories /\ Registers(w) /\ wk[w] = [f \in Fields |-> wk[w][f]] /\ wk = [v \in Workers |-> wk[v]] /\ rows = [m \in Libs |-> rows[m]]
  BY DEF HeadInv, WorkerInv, Registers, HeldInv
<1> DEFINE S == rows[R(w).lib]
           u == R(w).user
<1>4. \/ RelocateLocksUnder(w) \/ ClearLocksUnder(w)
      \/ AcquireFileLock(w) /\ SetRows(R(w).lib, insertLock(S, Item(w), u))
      \/ ReleaseFileLock(w)
  BY <1>1, <1>2 DEF Step, Begin, CheckLocks, ReadSource, Mutate, UpdateLibraryHead, UpdateApplied, retryLibraryHeadMutation,
                    UpdateAmbiguous, resolveLibraryHeadUpdateError, ListLocks, LockTarget, AcquireFileLock, RefreshFileLock, Crash
<1>5. wk[w].pc \in {"lockrow", "insert", "unlock"}
  BY <1>4 DEF RelocateLocksUnder, ClearLocksUnder, AcquireFileLock, ReleaseFileLock
<1>6. wk[w].r # NoRequest /\ R(w).lib \in Libs
  <2>1. IsRequest(R(w)) /\ R(w).lib \in Libs
    BY <1>3, <1>5, RequestOf
  <2>2. R(w).op \in Ops /\ NoRequest.op \notin Ops
    BY <2>1 DEF IsRequest, NoRequest, Ops, BatchOps
  <2> QED
    BY <2>1, <2>2 DEF R
<1>7. \E q, n : SetRows(R(w).lib, deleteLock(S, q, u)) \/ SetRows(R(w).lib, insertLock(S, q, u)) \/ SetRows(R(w).lib, relocateLockRow(S, q, n, u))
  BY <1>4 DEF RelocateLocksUnder, ClearLocksUnder, ReleaseFileLock
<1>8. wk[w].r.user = rows[l][p]
  <2> SUFFICES ASSUME rows[l][p] # u PROVE FALSE
    BY DEF R
  <2>1. PICK new : rows' = [rows EXCEPT ![R(w).lib] = new] /\ \E q, n : new = deleteLock(S, q, u) \/ new = insertLock(S, q, u) \/ new = relocateLockRow(S, q, n, u)
    BY <1>7 DEF SetRows
  <2>2. CASE l # R(w).lib
    BY <1>0, <1>3, <1>6, <2>1, <2>2
  <2>3. CASE l = R(w).lib
    <3>1. rows'[l] = new
      BY <1>3, <1>6, <2>1, <2>3
    <3>2. p \in DOMAIN S /\ S[p] # u
      BY <2>3
    <3>3. p \in DOMAIN new /\ new[p] = S[p]
      BY <2>1, <3>2, RowsOfUser
    <3> QED
      BY <1>0, <2>3, <3>1, <3>3
  <2> QED
    BY <2>2, <2>3
<1>9. wk'[w] # wk[w]
  <2>1. CASE wk[w].pc = "lockrow"
    <3>1. PICK q \in wk[w].todo : RowDone(w, q)
      BY <1>4, <2>1 DEF RelocateLocksUnder, ClearLocksUnder, AcquireFileLock, ReleaseFileLock
    <3>2. CASE wk' = [wk EXCEPT ![w].todo = @ \ {q}]
      <4>1. wk'[w].todo = wk[w].todo \ {q}
        BY <1>3, <3>2 DEF Fields
      <4> QED
        BY <3>1, <4>1
    <3>3. CASE wk' = nextItem(w, TRUE)
      <4>1. wk'[w].pc \in {"check", "done"}
        BY <2>1, <3>3, NextItemServes
      <4> QED
        BY <2>1, <4>1
    <3> QED
      BY <3>1, <3>2, <3>3 DEF RowDone
  <2>2. CASE wk[w].pc = "unlock"
    <3>1. wk' = Finish(w, "ok")
      BY <1>4, <2>2 DEF RelocateLocksUnder, ClearLocksUnder, AcquireFileLock, ReleaseFileLock
    <3>2. wk'[w].pc = "done"
      BY <2>2, <3>1, FinishServes
    <3> QED
      BY <2>2, <3>2
  <2>3. CASE wk[w].pc = "insert"
    <3>1. SetRows(R(w).lib, insertLock(S, Item(w), u))
      BY <1>4, <2>3 DEF RelocateLocksUnder, ClearLocksUnder, ReleaseFileLock
    <3>2. rows' = [rows EXCEPT ![R(w).lib] = insertLock(S, Item(w), u)]
      BY <3>1 DEF SetRows
    <3>3. p \in DOMAIN S => p \in DOMAIN insertLock(S, Item(w), u) /\ insertLock(S, Item(w), u)[p] = S[p]
      BY DEF insertLock
    <3> QED
      BY <1>0, <1>3, <1>6, <3>2, <3>3
  <2> QED
    BY <1>5, <2>1, <2>2, <2>3
<1> QED
  BY <1>6, <1>8, <1>9

-----------------------------------------------------------------------------
(* The theorems *)

\* Every published tree is a tree and no worker tries more often than it may (fs_helpers.go:
\* retryLibraryHeadMutation; file_locks.go: AcquireFileLock), whatever the requests are.
THEOREM HeadTypes == HeadAssumption => (Spec => []TypeOK)
<1> SUFFICES ASSUME HeadAssumption PROVE Spec => []TypeOK
  OBVIOUS
<1>1. HeadInv => TypeOK
  <2> SUFFICES ASSUME HeadInv PROVE TypeOK
    OBVIOUS
  <2> DEFINE S == {x \in {MaxAttempts, LockAttempts} : x >= MaxAttempts /\ x >= LockAttempts}
  <2>1. \A l \in Libs : hist[l] # <<>> /\ \A k \in DOMAIN hist[l] : IsTree(hist[l][k].t)
    BY DEF HeadInv, Histories, TreeOK
  <2>2. MaxAttempts \in Nat /\ LockAttempts \in Nat
    BY DEF HeadAssumption
  <2>3. PICK k \in S : \A j \in S : k <= j
    BY <2>2
  <2>4. Smallest(S) \in S
    BY <2>3 DEF Smallest
  <2>5. ASSUME NEW w \in Workers PROVE wk[w].att <= Smallest(S)
    <3>1. wk[w].att \in Nat /\ (wk[w].att <= MaxAttempts \/ wk[w].att <= LockAttempts)
      BY DEF HeadInv, WorkerInv, Registers
    <3>2. Smallest(S) \in Nat /\ Smallest(S) >= MaxAttempts /\ Smallest(S) >= LockAttempts
      BY <2>2, <2>4
    <3> QED
      BY <2>2, <3>1, <3>2
  <2> QED
    BY <2>1, <2>5 DEF TypeOK
<1> QED
  BY <1>1, HeadInvHolds, PTL

\* The history of every library is serial and no request is in it twice, for any number of workers,
\* libraries and requests (fs_helpers.go: UpdateLibraryHead, retryLibraryHeadMutation,
\* resolveLibraryHeadUpdateError): HeadInv is the strengthening, whose parts say what a worker has
\* computed, from which commit, and which of its commits are in the histories.
THEOREM HistoryIsSerial == HeadAssumption => (Spec => [](SerialHistory /\ AppliedOnce))
<1> SUFFICES ASSUME HeadAssumption PROVE Spec => [](SerialHistory /\ AppliedOnce)
  OBVIOUS
<1>1. HeadInv => SerialHistory /\ AppliedOnce
  BY DEF HeadInv
<1> QED
  BY <1>1, HeadInvHolds, PTL

\* A move between libraries never destroys a file (batch_operations.go: processSingleItem,
\* shouldSkipSourceRemovalAfterMove): what it removes at the source was published at the destination.
THEOREM MovesLoseNothing == HeadAssumption => (Spec => []MovedNotLost)
<1> SUFFICES ASSUME HeadAssumption PROVE Spec => []MovedNotLost
  OBVIOUS
<1>1. HeadInv => MovedNotLost
  BY DEF HeadInv
<1> QED
  BY <1>1, HeadInvHolds, PTL

\* A file locked by another user before a request began, and still locked, is kept by it (files.go: the
\* lock checks of the handlers): HeldInv says what the passed check tells of the locks still held.
THEOREM LocksKeepFiles == HeadAssumption => (Spec => [][LockedFileKept]_vars)
<1> SUFFICES ASSUME HeadAssumption PROVE Spec => [][LockedFileKept]_vars
  OBVIOUS
<1>1. HeadInv /\ HeldInv /\ [Next]_vars => [LockedFileKept]_vars
  BY KeptStep
<1> QED
  BY <1>1, HeadInvHolds, HeldInvHolds, PTL DEF Spec

\* A lock disappears, moves or changes hands only by a request of its holder (file_locks.go:
\* ReleaseFileLock, ClearLocksUnder, RelocateLocksUnder).
THEOREM HoldersKeepLocks == HeadAssumption => (Spec => [][HolderTouchesLock]_vars)
<1> SUFFICES ASSUME HeadAssumption PROVE Spec => [][HolderTouchesLock]_vars
  OBVIOUS
<1>1. HeadInv /\ HeldInv /\ [Next]_vars => [HolderTouchesLock]_vars
  BY HolderStep
<1> QED
  BY <1>1, HeadInvHolds, HeldInvHolds, PTL DEF Spec
=============================================================================
