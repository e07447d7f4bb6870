--------------------------- MODULE RevisionProofs ---------------------------
(***************************************************************************)
(* For any controllers, branches and requests: the store is complete, what  *)
(* was reported done stays in the log of its branch, the search for a merge *)
(* base finds the whole history, and a merge holds the three-way merge of   *)
(* its second parent and a revision in the log of its first.  And what a    *)
(* clean three-way merge is made of, for any specs.                         *)
(***************************************************************************)
EXTENDS RevisionControl, FiniteSetTheorems, TLAPS

(* An update that expects a head makes that head its first parent.          *)
BuildsOnSeen ==
    \A c \in Controllers :
        task[c].at \in {"save", "set"} /\ task[c].seen # <<>> =>
            /\ task[c].draft.parents # <<>>
            /\ task[c].draft.parents[1] = task[c].seen[1]

RevisionInv == TypeOK /\ BuildsOnSeen /\ CommitsStay

-----------------------------------------------------------------------------
(* The merge.                                                               *)

(* What a value holds under key k, an atom standing for itself.             *)
Leaf(v, k) == IF v \in Objects THEN v[k] ELSE v

LEMMA SettleKeepsBoth ==
    ASSUME NEW base, NEW ours, NEW theirs, Settled(base, ours, theirs)
    PROVE  /\ theirs = base => Settle(base, ours, theirs) = ours
           /\ ours = base => Settle(base, ours, theirs) = theirs
  BY DEF Settled, Settle

(* MergeKeepsBothSides: in a clean merge whatever one branch left alone is  *)
(* as the other branch has it, down to the keys of objects (merge_value).   *)
THEOREM MergeKeepsBothSides ==
    ASSUME NEW base \in Atoms \cup Objects, NEW ours \in Atoms \cup Objects,
           NEW theirs \in Atoms \cup Objects, NEW k \in Keys,
           Mergeable(base, ours, theirs)
    PROVE  LET merged == MergeValue(base, ours, theirs)
           IN  /\ merged \in Atoms \cup Objects
               /\ Leaf(theirs, k) = Leaf(base, k) => Leaf(merged, k) = Leaf(ours, k)
               /\ Leaf(ours, k) = Leaf(base, k) => Leaf(merged, k) = Leaf(theirs, k)
<1>1. CASE Settled(base, ours, theirs)
  <2>1. ours = theirs \/ ours = base \/ theirs = base
    BY <1>1 DEF Settled
  <2>2. MergeValue(base, ours, theirs) = IF ours = base THEN theirs ELSE ours
    BY <1>1 DEF MergeValue, Settle
  <2> QED BY <2>1, <2>2
<1>2. CASE ~ Settled(base, ours, theirs)
  <2>1. base \in Objects /\ ours \in Objects /\ theirs \in Objects
    BY <1>2 DEF Mergeable
  <2>2. \A j \in Keys : Settled(base[j], ours[j], theirs[j])
    BY <1>2 DEF Mergeable
  <2> DEFINE merged == [j \in Keys |-> Settle(base[j], ours[j], theirs[j])]
  <2>3. MergeValue(base, ours, theirs) = merged
    BY <1>2 DEF MergeValue
  <2>4. merged \in Objects
    BY <2>1 DEF Objects, Settle
  <2>5. merged[k] = Settle(base[k], ours[k], theirs[k])
    OBVIOUS
  <2> HIDE DEF merged
  <2>6. Settled(base[k], ours[k], theirs[k])
    BY <2>2
  <2> QED BY <2>1, <2>3, <2>4, <2>5, <2>6, SettleKeepsBoth DEF Leaf
<1> QED BY <1>1, <1>2

(* MergeIsSymmetric: which branch is merged into which makes no difference  *)
(* to the outcome, conflict or spec.                                        *)
THEOREM MergeIsSymmetric ==
    ASSUME NEW base \in Specs, NEW ours \in Specs, NEW theirs \in Specs
    PROVE  /\ Clean(base, ours, theirs) <=> Clean(base, theirs, ours)
           /\ Clean(base, ours, theirs) =>
                  MergeSpecs(base, ours, theirs) = MergeSpecs(base, theirs, ours)
<1>1. ASSUME NEW b, NEW o, NEW t PROVE Settled(b, o, t) <=> Settled(b, t, o)
  BY DEF Settled
<1>2. ASSUME NEW b, NEW o, NEW t, Settled(b, o, t) PROVE Settle(b, o, t) = Settle(b, t, o)
  BY <1>2 DEF Settled, Settle
<1>3. ASSUME NEW b, NEW o, NEW t PROVE Mergeable(b, o, t) <=> Mergeable(b, t, o)
  BY <1>1 DEF Mergeable
<1>4. ASSUME NEW b, NEW o, NEW t, Mergeable(b, o, t)
      PROVE  MergeValue(b, o, t) = MergeValue(b, t, o)
  <2>1. CASE Settled(b, o, t)
    BY <2>1, <1>1, <1>2 DEF MergeValue
  <2>2. CASE ~ Settled(b, o, t)
    <3>1. \A j \in Keys : Settle(b[j], o[j], t[j]) = Settle(b[j], t[j], o[j])
      BY <1>4, <2>2, <1>2 DEF Mergeable
    <3> QED BY <2>2, <1>1, <3>1 DEF MergeValue
  <2> QED BY <2>1, <2>2
<1>5. Clean(base, ours, theirs) <=> Clean(base, theirs, ours)
  BY <1>3 DEF Clean
<1>6. ASSUME Clean(base, ours, theirs)
      PROVE  MergeSpecs(base, ours, theirs) = MergeSpecs(base, theirs, ours)
  <2>1. \A f \in Fields : MergeValue(base[f], ours[f], theirs[f]) = MergeValue(base[f], theirs[f], ours[f])
    BY <1>6, <1>4 DEF Clean
  <2> QED BY <2>1 DEF MergeSpecs
<1> QED BY <1>5, <1>6
-----------------------------------------------------------------------------
(* History.                                                                 *)

(* Induction up to n, over a set.                                           *)
LEMMA UpTo ==
    ASSUME NEW n \in Nat, NEW S, 0 \in S, \A k \in 0..(n - 1) : k \in S => k + 1 \in S
    PROVE  \A k \in 0..n : k \in S
<1> DEFINE T == (0..n) \ S
<1> SUFFICES ASSUME T # {} PROVE FALSE
  OBVIOUS
<1>1. T \subseteq Nat
  OBVIOUS
<1>2. \E x \in T : \A y \in T : ~(<<y, x>> \in OpToRel(<, Nat))
  BY <1>1, WFMin, NatLessThanWellFounded
<1>3. PICK x \in T : \A y \in T : ~(<<y, x>> \in OpToRel(<, Nat))
  BY <1>2
<1>4. x \in 1..n /\ x - 1 \in 0..(n - 1) /\ (x - 1) + 1 = x
  OBVIOUS
<1>5. x - 1 \in T
  BY <1>4
<1>6. <<x - 1, x>> \in OpToRel(<, Nat)
  BY <1>1, <1>4 DEF OpToRel
<1> QED BY <1>3, <1>5, <1>6

(* The recursion of Search has a solution.                                  *)
LEMMA SearchIs ==
    ASSUME NEW r, NEW limit \in Nat
    PROVE  /\ Search(r, limit)[0] = {r}
           /\ \A n \in 1..limit :
                  Search(r, limit)[n] = UNION {Parents(x) : x \in Search(r, limit)[n - 1]}
<1> DEFINE At(f, n) == IF n = 0 THEN {r} ELSE UNION {Parents(x) : x \in f[n - 1]}
           Solved   == {m \in 0..limit : \E f : f = [n \in 0..m |-> At(f, n)]}
<1>1. 0 \in Solved
  <2> DEFINE f == [n \in 0..0 |-> {r}]
  <2>1. f = [n \in 0..0 |-> At(f, n)]
    <3>1. \A n \in 0..0 : At(f, n) = {r}
      OBVIOUS
    <3> HIDE DEF At
    <3> QED BY <3>1
  <2>2. \E g : g = [n \in 0..0 |-> At(g, n)]
    <3> WITNESS f
    <3> QED BY <2>1
  <2> HIDE DEF At
  <2> QED BY <2>2
<1>2. ASSUME NEW m \in 0..(limit - 1), m \in Solved
      PROVE  m + 1 \in Solved
  <2>1. PICK f : f = [n \in 0..m |-> At(f, n)]
    BY <1>2
  <2> DEFINE g == [n \in 0..(m + 1) |-> IF n \in 0..m THEN f[n] ELSE At(f, n)]
  <2>2. ASSUME NEW n \in 0..(m + 1) PROVE g[n] = At(g, n)
    <3>1. n \in 0..m => f[n] = At(f, n)
      <4> HIDE DEF At
      <4> QED BY <2>1
    <3>2. g[n] = At(f, n)
      <4> HIDE DEF At
      <4> QED BY <3>1
    <3>3. n # 0 => g[n - 1] = f[n - 1]
      <4>1. n # 0 => n - 1 \in 0..m /\ n - 1 \in 0..(m + 1)
        OBVIOUS
      <4> HIDE DEF At
      <4> QED BY <4>1
    <3>4. At(g, n) = At(f, n)
      <4> HIDE DEF g
      <4> QED BY <3>3
    <3> QED BY <3>2, <3>4
  <2>3. g = [n \in 0..(m + 1) |-> At(g, n)]
    <3>1. g = [n \in 0..(m + 1) |-> g[n]]
      OBVIOUS
    <3> HIDE DEF At, g
    <3> QED BY <2>2, <3>1
  <2>4. m + 1 \in 0..limit
    OBVIOUS
  <2>5. \E h : h = [n \in 0..(m + 1) |-> At(h, n)]
    <3> WITNESS g
    <3> QED BY <2>3
  <2> HIDE DEF At
  <2> QED BY <2>4, <2>5
<1>3. limit \in Solved
  <2> HIDE DEF Solved
  <2> QED BY <1>1, <1>2, UpTo
<1>4. \E f : f = [n \in 0..limit |-> At(f, n)]
  <2> HIDE DEF At
  <2> QED BY <1>3
<1> DEFINE f == CHOOSE f : f = [n \in 0..limit |-> At(f, n)]
<1>5. f = [n \in 0..limit |-> At(f, n)]
  <2> HIDE DEF At
  <2> QED BY <1>4
<1>6. Search(r, limit) = f
  BY DEF Search
<1> HIDE DEF f
<1>7. \A n \in 0..limit : f[n] = At(f, n)
  <2> HIDE DEF At
  <2> QED BY <1>5
<1>8. At(f, 0) = {r} /\ \A n \in 1..limit : At(f, n) = UNION {Parents(x) : x \in f[n - 1]}
  OBVIOUS
<1>9. 0 \in 0..limit /\ \A n \in 1..limit : n \in 0..limit
  OBVIOUS
<1> HIDE DEF At
<1> QED BY <1>6, <1>7, <1>8, <1>9

(* How far a search may go makes no difference to what it finds on the way. *)
LEMMA SearchGrows ==
    ASSUME NEW r, NEW m \in Nat, NEW n \in Nat, m <= n
    PROVE  \A k \in 0..m : Search(r, m)[k] = Search(r, n)[k]
<1> DEFINE Same == {k \in 0..m : Search(r, m)[k] = Search(r, n)[k]}
<1>1. 0 \in Same
  <2>1. Search(r, m)[0] = {r} /\ Search(r, n)[0] = {r}
    BY SearchIs
  <2> QED BY <2>1
<1>2. ASSUME NEW k \in 0..(m - 1), k \in Same PROVE k + 1 \in Same
  <2>1. k + 1 \in 1..m /\ k + 1 \in 1..n /\ (k + 1) - 1 = k /\ k + 1 \in 0..m
    OBVIOUS
  <2>2. Search(r, m)[k + 1] = UNION {Parents(x) : x \in Search(r, m)[k]}
    BY <2>1, SearchIs
  <2>3. Search(r, n)[k + 1] = UNION {Parents(x) : x \in Search(r, n)[k]}
    BY <2>1, SearchIs
  <2> QED BY <1>2, <2>1, <2>2, <2>3
<1> HIDE DEF Same
<1>3. \A k \in 0..m : k \in Same
  BY <1>1, <1>2, UpTo
<1> QED BY <1>3 DEF Same

(* A rank of the revisions in S: S has the parents of its members, and they *)
(* rank lower.                                                              *)
Ranks(rank, S) ==
    /\ rank \in [S -> Nat]
    /\ \A x \in S : \A p \in Parents(x) : p \in S /\ rank[p] < rank[x]

LEMMA SearchDescends ==
    ASSUME NEW S, NEW rank, Ranks(rank, S), NEW r \in S, NEW limit \in Nat
    PROVE  \A n \in 0..limit : \A x \in Search(r, limit)[n] : x \in S /\ rank[x] + n <= rank[r]
<1> DEFINE Lower(n) == \A x \in Search(r, limit)[n] : x \in S /\ rank[x] + n <= rank[r]
           Deep     == {n \in 0..limit : Lower(n)}
<1>1. \A x \in S : rank[x] \in Nat
  BY DEF Ranks
<1>2. 0 \in Deep
  <2>1. Search(r, limit)[0] = {r}
    BY SearchIs
  <2> QED BY <1>1, <2>1
<1>3. ASSUME NEW n \in 0..(limit - 1), n \in Deep PROVE n + 1 \in Deep
  <2>1. n + 1 \in 1..limit /\ n + 1 \in 0..limit /\ (n + 1) - 1 = n
    OBVIOUS
  <2>2. Search(r, limit)[n + 1] = UNION {Parents(x) : x \in Search(r, limit)[n]}
    BY <2>1, SearchIs
  <2>3. ASSUME NEW p \in Search(r, limit)[n + 1] PROVE p \in S /\ rank[p] + (n + 1) <= rank[r]
    <3>1. PICK x \in Search(r, limit)[n] : p \in Parents(x)
      BY <2>2
    <3>2. x \in S /\ rank[x] + n <= rank[r]
      BY <1>3
    <3>3. p \in S /\ rank[p] < rank[x]
      BY <3>1, <3>2 DEF Ranks
    <3> QED BY <1>1, <3>2, <3>3
  <2> QED BY <2>1, <2>3
<1> HIDE DEF Deep
<1>4. \A n \in 0..limit : n \in Deep
  BY <1>2, <1>3, UpTo
<1> QED BY <1>4 DEF Deep

-----------------------------------------------------------------------------
(* The store is finite, and no chain of parents is longer than it has       *)
(* revisions.                                                               *)
Bounded(rank) == Ranks(rank, objects) /\ \A x \in objects : rank[x] < Cardinality(objects)

HistoryInv == IsFiniteSet(objects) /\ \E rank : Bounded(rank)

LEMMA SizeType == ASSUME HistoryInv PROVE Cardinality(objects) \in Nat
  BY FS_CardinalityType DEF HistoryInv

(* SearchIsComplete: the search for a merge base finds all revisions that   *)
(* lead to r, and no others (collect_ancestors).                            *)
SearchIsComplete ==
    \A r \in objects :
        /\ r \in Ancestors(r)
        /\ \A x \in Ancestors(r) : Parents(x) \subseteq Ancestors(r)
        /\ \A S : r \in S /\ (\A x \in S : Parents(x) \subseteq S) => Ancestors(r) \subseteq S

LEMMA HistoryComplete == ASSUME HistoryInv PROVE SearchIsComplete
<1> SUFFICES ASSUME NEW r \in objects
             PROVE  /\ r \in Ancestors(r)
                    /\ \A x \in Ancestors(r) : Parents(x) \subseteq Ancestors(r)
                    /\ \A S : r \in S /\ (\A x \in S : Parents(x) \subseteq S) => Ancestors(r) \subseteq S
  BY DEF SearchIsComplete
<1> DEFINE size == Cardinality(objects)
           up   == Search(r, size)
<1>1. size \in Nat
  BY SizeType
<1>2. PICK rank : Bounded(rank)
  BY DEF HistoryInv
<1> HIDE DEF size
<1>3. up[0] = {r} /\ \A n \in 1..size : up[n] = UNION {Parents(x) : x \in up[n - 1]}
  BY <1>1, SearchIs
<1>4. \A n \in 0..size : \A x \in up[n] : x \in objects /\ rank[x] + n <= rank[r]
  BY <1>1, <1>2, SearchDescends DEF Bounded
<1>5. \A x \in objects : rank[x] \in Nat /\ rank[x] < size
  BY <1>2 DEF Bounded, Ranks, size
<1> HIDE DEF up
<1>6. \A a : a \in Ancestors(r) <=> \E n \in 0..size : a \in up[n]
  BY DEF Ancestors, Generation, size, up
<1>7. r \in Ancestors(r)
  BY <1>1, <1>3, <1>6
<1>8. ASSUME NEW x \in Ancestors(r), NEW p \in Parents(x) PROVE p \in Ancestors(r)
  <2>1. PICK n \in 0..size : x \in up[n]
    BY <1>6
  <2>2. n < size
    BY <1>1, <1>4, <1>5, <2>1
  <2>3. n + 1 \in 1..size /\ (n + 1) - 1 = n /\ n + 1 \in 0..size
    BY <1>1, <2>2
  <2>4. p \in up[n + 1]
    BY <1>3, <2>1, <2>3
  <2> QED BY <1>6, <2>3, <2>4
<1>9. ASSUME NEW S, r \in S, \A x \in S : Parents(x) \subseteq S
      PROVE  Ancestors(r) \subseteq S
  <2> DEFINE Inside == {n \in 0..size : up[n] \subseteq S}
  <2>1. 0 \in Inside
    BY <1>1, <1>3, <1>9
  <2>2. ASSUME NEW n \in 0..(size - 1), n \in Inside PROVE n + 1 \in Inside
    <3>1. n + 1 \in 1..size /\ (n + 1) - 1 = n /\ n + 1 \in 0..size
      BY <1>1
    <3>2. up[n + 1] = UNION {Parents(x) : x \in up[n]}
      BY <1>3, <3>1
    <3> QED BY <1>9, <2>2, <3>1, <3>2
  <2> HIDE DEF Inside
  <2>3. \A n \in 0..size : n \in Inside
    BY <1>1, <2>1, <2>2, UpTo
  <2> QED BY <1>6, <2>3 DEF Inside
<1> QED BY <1>7, <1>8, <1>9

(* What is known of the ancestors of a stored revision does not change when *)
(* revisions are added.                                                     *)
LEMMA HistoryStays ==
    ASSUME HistoryInv, HistoryInv', objects \subseteq objects', NEW r \in objects
    PROVE  /\ Ancestors(r)' = Ancestors(r)
           /\ \A a \in Ancestors(r) : a \in objects /\ Distance(r, a)' = Distance(r, a)
<1> DEFINE size == Cardinality(objects)
           more == Cardinality(objects')
<1>1. size \in Nat /\ more \in Nat /\ size <= more
  <2>1. size \in Nat /\ more \in Nat
    BY FS_CardinalityType DEF HistoryInv
  <2>2. size <= more
    BY FS_Subset DEF HistoryInv
  <2> QED BY <2>1, <2>2
<1>2. PICK rank : Bounded(rank)
  BY DEF HistoryInv
<1>3. \A n \in 0..size : Search(r, size)[n] = Search(r, more)[n]
  BY <1>1, SearchGrows
<1>4. \A x \in objects : rank[x] \in Nat /\ rank[x] < size
  BY <1>2 DEF Bounded, Ranks
<1>5. \A n \in 0..more : \A x \in Search(r, more)[n] : x \in objects /\ n \in 0..size
  <2>1. \A n \in 0..more : \A x \in Search(r, more)[n] : x \in objects /\ rank[x] + n <= rank[r]
    BY <1>1, <1>2, SearchDescends DEF Bounded
  <2> QED BY <1>1, <1>4, <2>1
<1>6. Generation(r) = Search(r, size) /\ Generation(r)' = Search(r, more)
  BY DEF Generation
<1> HIDE DEF size, more
<1>7. \A n \in 0..size : n \in 0..more
  BY <1>1
<1>8. Ancestors(r) = UNION {Search(r, size)[n] : n \in 0..size}
  BY <1>6 DEF Ancestors, size
<1>9. Ancestors(r)' = UNION {Search(r, more)[n] : n \in 0..more}
  BY <1>6 DEF Ancestors, more
<1>10. Ancestors(r)' = Ancestors(r)
  BY <1>3, <1>5, <1>7, <1>8, <1>9
<1>11. ASSUME NEW a \in Ancestors(r) PROVE a \in objects /\ Distance(r, a)' = Distance(r, a)
  <2> DEFINE First(f, n) == a \in f[n] /\ \A m \in 0..(n - 1) : a \notin f[m]
  <2>1. a \in objects
    BY <1>3, <1>5, <1>7, <1>8
  <2>2. Distance(r, a) = CHOOSE n \in 0..size : First(Search(r, size), n)
    BY <1>6 DEF Distance, size
  <2>3. Distance(r, a)' = CHOOSE n \in 0..more : First(Search(r, more), n)
    BY <1>6 DEF Distance, more
  <2>4. \A n : n \in 0..size /\ First(Search(r, size), n) <=> n \in 0..more /\ First(Search(r, more), n)
    <3>1. ASSUME NEW n \in 0..size PROVE First(Search(r, size), n) <=> First(Search(r, more), n)
      <4>1. \A m \in 0..(n - 1) : m \in 0..size
        BY <1>1
      <4> QED BY <1>3, <4>1
    <3>2. \A n \in 0..more : First(Search(r, more), n) => n \in 0..size
      BY <1>5
    <3> HIDE DEF First
    <3> QED BY <1>7, <3>1, <3>2
  <2> HIDE DEF First
  <2> QED BY <2>1, <2>2, <2>3, <2>4
<1> QED BY <1>10, <1>11

(* Induction over the history: what holds of a revision if it holds of its  *)
(* parents, holds of all.                                                   *)
LEMMA ByHistory ==
    ASSUME HistoryInv, NEW S, \A r \in objects : Parents(r) \subseteq S => r \in S
    PROVE  objects \subseteq S
<1> DEFINE T == objects \ S
<1>1. PICK rank : Bounded(rank)
  BY DEF HistoryInv
<1> SUFFICES ASSUME T # {} PROVE FALSE
  OBVIOUS
<1> DEFINE R == {rank[x] : x \in T}
<1>2. R \subseteq Nat /\ R # {}
  BY <1>1 DEF Bounded, Ranks
<1> HIDE DEF R
<1>3. \E n \in R : \A m \in R : ~(<<m, n>> \in OpToRel(<, Nat))
  BY <1>2, WFMin, NatLessThanWellFounded
<1>4. PICK n \in R : \A m \in R : ~(<<m, n>> \in OpToRel(<, Nat))
  BY <1>3
<1>5. PICK r \in T : n = rank[r]
  BY DEF R
<1>6. PICK p \in Parents(r) : p \notin S
  BY <1>5
<1>7. p \in T /\ rank[p] < rank[r]
  BY <1>1, <1>5, <1>6 DEF Bounded, Ranks
<1>8. rank[p] \in R /\ <<rank[p], n>> \in OpToRel(<, Nat)
  BY <1>2, <1>5, <1>7 DEF R, OpToRel
<1> QED BY <1>4, <1>8

(* A search from r goes on as one from its parents.                         *)
LEMMA SearchByParents ==
    ASSUME NEW r, NEW limit \in Nat
    PROVE  \A n \in 0..(limit - 1) :
               Search(r, limit)[n + 1] = UNION {Search(p, limit)[n] : p \in Parents(r)}
<1> DEFINE Split == {n \in 0..(limit - 1) :
                        Search(r, limit)[n + 1] = UNION {Search(p, limit)[n] : p \in Parents(r)}}
<1> SUFFICES ASSUME limit > 0 PROVE \A n \in 0..(limit - 1) : n \in Split
  OBVIOUS
<1>1. 0 \in Split
  <2>1. 0 \in 0..(limit - 1) /\ 0 + 1 \in 1..limit /\ (0 + 1) - 1 = 0
    OBVIOUS
  <2>2. Search(r, limit)[0 + 1] = UNION {Parents(x) : x \in Search(r, limit)[0]}
    BY <2>1, SearchIs
  <2>3. Search(r, limit)[0] = {r} /\ \A p : Search(p, limit)[0] = {p}
    BY SearchIs
  <2> QED BY <2>1, <2>2, <2>3
<1>2. ASSUME NEW n \in 0..((limit - 1) - 1), n \in Split PROVE n + 1 \in Split
  <2>1. /\ n + 1 \in 0..(limit - 1) /\ (n + 1) + 1 \in 1..limit /\ ((n + 1) + 1) - 1 = n + 1
        /\ n + 1 \in 1..limit /\ (n + 1) - 1 = n
    OBVIOUS
  <2>2. Search(r, limit)[(n + 1) + 1] = UNION {Parents(x) : x \in Search(r, limit)[n + 1]}
    BY <2>1, SearchIs
  <2>3. \A p : Search(p, limit)[n + 1] = UNION {Parents(x) : x \in Search(p, limit)[n]}
    BY <2>1, SearchIs
  <2>4. Search(r, limit)[n + 1] = UNION {Search(p, limit)[n] : p \in Parents(r)}
    BY <1>2
  <2>5. Search(r, limit)[(n + 1) + 1] = UNION {Search(p, limit)[n + 1] : p \in Parents(r)}
    BY <2>2, <2>3, <2>4
  <2> QED BY <2>1, <2>5
<1> HIDE DEF Split
<1> QED BY <1>1, <1>2, UpTo

LEMMA DistanceIs ==
    ASSUME HistoryInv, NEW r \in objects, NEW a \in Ancestors(r)
    PROVE  /\ Distance(r, a) \in 0..Cardinality(objects)
           /\ a \in Generation(r)[Distance(r, a)]
           /\ \A m \in 0..Cardinality(objects) : a \in Generation(r)[m] => Distance(r, a) <= m
<1> DEFINE size     == Cardinality(objects)
           Found    == {n \in 0..size : a \in Generation(r)[n]}
           First(n) == a \in Generation(r)[n] /\ \A m \in 0..(n - 1) : a \notin Generation(r)[m]
<1>1. size \in Nat
  BY SizeType
<1>2. Distance(r, a) = CHOOSE n \in 0..size : First(n)
  BY DEF Distance
<1> HIDE DEF size
<1>3. Found # {} /\ Found \subseteq Nat
  BY <1>1 DEF Ancestors, size
<1>4. \E n \in Found : \A m \in Found : ~(<<m, n>> \in OpToRel(<, Nat))
  <2> HIDE DEF Found
  <2> QED BY <1>3, WFMin, NatLessThanWellFounded
<1>5. PICK n \in Found : \A m \in Found : ~(<<m, n>> \in OpToRel(<, Nat))
  BY <1>4
<1>6. ASSUME NEW m \in 0..(n - 1) PROVE a \notin Generation(r)[m]
  <2>1. m \in 0..size /\ <<m, n>> \in OpToRel(<, Nat)
    BY <1>1 DEF OpToRel
  <2> QED BY <1>5, <2>1
<1>7. n \in 0..size /\ First(n)
  BY <1>6
<1>8. Distance(r, a) \in 0..size /\ First(Distance(r, a))
  <2> HIDE DEF First
  <2> QED BY <1>2, <1>7
<1>9. ASSUME NEW m \in 0..size, a \in Generation(r)[m] PROVE Distance(r, a) <= m
  BY <1>1, <1>8, <1>9
<1> QED BY <1>8, <1>9 DEF size

LEMMA DistanceByParents ==
    ASSUME HistoryInv, NEW r \in objects
    PROVE  /\ r \in Ancestors(r) /\ Distance(r, r) = 0
           /\ \A p \in Parents(r) :
                  /\ p \in objects /\ r \notin Ancestors(p)
                  /\ \A a \in Ancestors(p) : a \in Ancestors(r) /\ Distance(r, a) <= Distance(p, a) + 1
           /\ \A a \in Ancestors(r) \ {r} :
                  \E p \in Parents(r) : a \in Ancestors(p) /\ Distance(p, a) + 1 <= Distance(r, a)
<1> DEFINE size == Cardinality(objects)
<1>1. size \in Nat
  BY SizeType
<1>2. PICK rank : Bounded(rank)
  BY DEF HistoryInv
<1>3. \A x \in objects : rank[x] \in Nat /\ rank[x] < size
  BY <1>2 DEF Bounded, Ranks
<1>4. \A x \in objects : \A n \in 0..size : \A a \in Generation(x)[n] : a \in objects /\ rank[a] + n <= rank[x]
  BY <1>1, <1>2, SearchDescends DEF Bounded, Generation
<1>5. \A x \in objects : \A p \in Parents(x) : p \in objects /\ rank[p] < rank[x]
  BY <1>2 DEF Bounded, Ranks
<1>6. \A n \in 0..(size - 1) : Generation(r)[n + 1] = UNION {Generation(p)[n] : p \in Parents(r)}
  BY <1>1, SearchByParents DEF Generation
<1>7. Generation(r)[0] = {r}
  BY <1>1, SearchIs DEF Generation
<1> HIDE DEF size
<1>8. \A x : \A a : a \in Ancestors(x) <=> \E n \in 0..size : a \in Generation(x)[n]
  BY DEF Ancestors, size
<1>9. r \in Ancestors(r) /\ Distance(r, r) = 0
  <2>1. 0 \in 0..size /\ r \in Generation(r)[0]
    BY <1>1, <1>7
  <2>2. r \in Ancestors(r)
    BY <1>8, <2>1
  <2> QED BY <1>1, <2>1, <2>2, DistanceIs DEF size
<1>10. ASSUME NEW p \in Parents(r) PROVE p \in objects /\ r \notin Ancestors(p)
  <2>1. p \in objects /\ rank[p] < rank[r]
    BY <1>5
  <2>2. ASSUME r \in Ancestors(p) PROVE FALSE
    <3>1. PICK n \in 0..size : r \in Generation(p)[n]
      BY <1>8, <2>2
    <3>2. rank[r] + n <= rank[p]
      BY <1>4, <2>1, <3>1
    <3> QED BY <1>1, <1>3, <2>1, <3>2
  <2> QED BY <2>1, <2>2
<1>11. ASSUME NEW p \in Parents(r), NEW a \in Ancestors(p)
       PROVE  a \in Ancestors(r) /\ Distance(r, a) <= Distance(p, a) + 1
  <2> DEFINE n == Distance(p, a)
  <2>1. p \in objects /\ rank[p] < rank[r]
    BY <1>5
  <2>2. n \in 0..size /\ a \in Generation(p)[n]
    BY <2>1, DistanceIs DEF size
  <2> HIDE DEF n
  <2>3. a \in objects /\ rank[a] + n <= rank[p]
    BY <1>4, <2>1, <2>2
  <2>4. n \in 0..(size - 1) /\ n + 1 \in 0..size
    BY <1>1, <1>3, <2>1, <2>2, <2>3
  <2>5. a \in Generation(r)[n + 1]
    BY <1>6, <2>2, <2>4
  <2>6. a \in Ancestors(r)
    BY <1>8, <2>4, <2>5
  <2>7. Distance(r, a) <= n + 1
    BY <2>4, <2>5, <2>6, DistanceIs DEF size
  <2> QED BY <2>6, <2>7 DEF n
<1>12. ASSUME NEW a \in Ancestors(r), a # r
       PROVE  \E p \in Parents(r) : a \in Ancestors(p) /\ Distance(p, a) + 1 <= Distance(r, a)
  <2> DEFINE n == Distance(r, a)
  <2>1. n \in 0..size /\ a \in Generation(r)[n]
    BY DistanceIs DEF size
  <2> HIDE DEF n
  <2>2. n # 0
    BY <1>7, <1>12, <2>1
  <2>3. n - 1 \in 0..(size - 1) /\ (n - 1) + 1 = n /\ n - 1 \in 0..size
    BY <1>1, <2>1, <2>2
  <2>4. PICK p \in Parents(r) : a \in Generation(p)[n - 1]
    BY <1>6, <2>1, <2>3
  <2>5. p \in objects /\ a \in Ancestors(p)
    BY <1>5, <1>8, <2>3, <2>4
  <2>6. Distance(p, a) <= n - 1 /\ Distance(p, a) \in 0..size
    BY <2>3, <2>4, <2>5, DistanceIs DEF size
  <2>7. Distance(p, a) + 1 <= n
    BY <1>1, <2>1, <2>6
  <2> QED BY <2>5, <2>7 DEF n
<1> QED BY <1>9, <1>10, <1>11, <1>12

(* Ancestors of ancestors are ancestors, and no two are each other's.       *)
LEMMA HistoryIsOrder ==
    ASSUME HistoryInv, NEW r \in objects
    PROVE  /\ Ancestors(r) \subseteq objects
           /\ \A a \in Ancestors(r) : Ancestors(a) \subseteq Ancestors(r)
           /\ \A a \in Ancestors(r) : r \in Ancestors(a) => a = r
<1> DEFINE Holds == {x \in objects :
                        /\ Ancestors(x) \subseteq objects
                        /\ \A a \in Ancestors(x) : Ancestors(a) \subseteq Ancestors(x)}
<1>1. ASSUME NEW x \in objects, Parents(x) \subseteq Holds PROVE x \in Holds
  <2>1. ASSUME NEW a \in Ancestors(x) PROVE a \in objects /\ Ancestors(a) \subseteq Ancestors(x)
    <3>1. CASE a = x
      BY <3>1
    <3>2. CASE a # x
      <4>1. PICK p \in Parents(x) : a \in Ancestors(p)
        BY <3>2, DistanceByParents
      <4>2. Ancestors(p) \subseteq Ancestors(x)
        BY DistanceByParents
      <4> QED BY <1>1, <4>1, <4>2
    <3> QED BY <3>1, <3>2
  <2> QED BY <2>1
<1> HIDE DEF Holds
<1>2. objects \subseteq Holds
  BY <1>1, ByHistory
<1>3. \A x \in objects : Ancestors(x) \subseteq objects /\ \A a \in Ancestors(x) : Ancestors(a) \subseteq Ancestors(x)
  BY <1>2 DEF Holds
<1>4. ASSUME NEW a \in Ancestors(r), r \in Ancestors(a), a # r PROVE FALSE
  <2>1. PICK p \in Parents(r) : a \in Ancestors(p)
    BY <1>4, DistanceByParents
  <2>2. p \in objects /\ r \notin Ancestors(p)
    BY DistanceByParents
  <2> QED BY <1>3, <1>4, <2>1, <2>2
<1> QED BY <1>3, <1>4

-----------------------------------------------------------------------------
(* Steps.                                                                   *)

USE DEF Becomes

(* A step that only ends operations, or starts what holds no draft.         *)
LEMMA QuietKeeps ==
    ASSUME RevisionInv, NEW c \in Controllers, NEW next,
           next \in Tasks, next.at \notin {"save", "set"},
           Becomes(c, next), asked' \subseteq Controllers \X Requests,
           UNCHANGED <<objects, head, acked>>
    PROVE  RevisionInv'
<1>1. TypeOK'
  BY DEF RevisionInv, TypeOK, Tasks, Options, Drafts
<1>2. BuildsOnSeen'
  BY DEF RevisionInv, TypeOK, BuildsOnSeen
<1>3. CommitsStay'
  BY DEF RevisionInv, CommitsStay, InLog
<1> QED BY <1>1, <1>2, <1>3 DEF RevisionInv

(* A step that makes a draft on top of the head it expects, if there is one. *)
LEMMA DraftKeeps ==
    ASSUME RevisionInv, NEW c \in Controllers, NEW next,
           next \in Tasks, next.at \in {"save", "set"},
           next.seen # <<>> => /\ next.draft.parents # <<>>
                               /\ next.draft.parents[1] = next.seen[1],
           Becomes(c, next), asked' \subseteq Controllers \X Requests,
           UNCHANGED <<objects, head, acked>>
    PROVE  RevisionInv'
<1>1. TypeOK'
  BY DEF RevisionInv, TypeOK, Tasks, Options, Drafts
<1>2. BuildsOnSeen'
  BY DEF RevisionInv, TypeOK, BuildsOnSeen
<1>3. CommitsStay'
  BY DEF RevisionInv, CommitsStay, InLog
<1> QED BY <1>1, <1>2, <1>3 DEF RevisionInv

LEMMA AskKeepsType ==
    ASSUME RevisionInv, NEW c \in Controllers, NEW q \in Asks[c], NEW kind, Ask(c, kind, q)
    PROVE  /\ q \in Requests
           /\ q.kind = kind
           /\ asked' \subseteq Controllers \X Requests
  BY AsksOk DEF RevisionInv, TypeOK, Ask

(* What an Option holds.                                                    *)
LEMMA HeadIsStored ==
    ASSUME TypeOK, NEW b \in Branches, head[b] # <<>>
    PROVE  head[b][1] \in objects /\ head[b] = <<head[b][1]>>
  BY DEF TypeOK, Options

LEMMA CommitKeeps ==
    ASSUME RevisionInv, NEW c \in Controllers, NEW q \in Asks[c], Commit(c, q)
    PROVE  RevisionInv'
<1> DEFINE draft == [parents |-> head[q.branch], spec |-> q.spec, message |-> q.message]
           next  == [at |-> "save", branch |-> q.branch, seen |-> head[q.branch], draft |-> draft]
<1>1. q \in Requests /\ q.kind = "commit" /\ asked' \subseteq Controllers \X Requests
  BY AskKeepsType DEF Commit
<1>2. q.branch \in Branches /\ q.spec \in Specs /\ q.message \in Messages
  BY <1>1 DEF Requests
<1>3. head[q.branch] \in Options
  BY <1>2 DEF RevisionInv, TypeOK
<1>4. next \in Tasks
  BY <1>2, <1>3 DEF Tasks, Drafts
<1> QED BY <1>1, <1>4, DraftKeeps DEF Commit

LEMMA CreateBranchKeeps ==
    ASSUME RevisionInv, NEW c \in Controllers, NEW q \in Asks[c], CreateBranch(c, q)
    PROVE  RevisionInv'
<1> DEFINE next == [at |-> "target", branch |-> q.branch, draft |-> head[q.source][1]]
<1>1. q \in Requests /\ q.kind = "branch" /\ asked' \subseteq Controllers \X Requests
  BY AskKeepsType DEF CreateBranch
<1>2. q.branch \in Branches /\ q.source \in Branches
  BY <1>1 DEF Requests
<1>3. next \in Tasks
  BY <1>2, HeadIsStored DEF Tasks, CreateBranch, RevisionInv
<1> QED BY <1>1, <1>3, QuietKeeps DEF CreateBranch

LEMMA MergeKeeps ==
    ASSUME RevisionInv, NEW c \in Controllers, NEW q \in Asks[c], Merge(c, q)
    PROVE  RevisionInv'
<1> DEFINE next == [at |-> "prepare", branch |-> q.branch, theirs |-> head[q.source][1],
                    message |-> q.message]
<1>1. q \in Requests /\ q.kind = "merge" /\ asked' \subseteq Controllers \X Requests
  BY AskKeepsType DEF Merge
<1>2. q.branch \in Branches /\ q.source \in Branches /\ q.message \in Messages
  BY <1>1 DEF Requests
<1>3. next \in Tasks
  BY <1>2, HeadIsStored DEF Tasks, Merge, RevisionInv
<1> QED BY <1>1, <1>3, QuietKeeps DEF Merge

LEMMA BranchNotFoundKeeps ==
    ASSUME RevisionInv, NEW c \in Controllers, NEW q \in Asks[c], BranchNotFound(c, q)
    PROVE  RevisionInv'
<1>1. asked' \subseteq Controllers \X Requests
  BY AskKeepsType DEF BranchNotFound
<1> QED BY <1>1 DEF BranchNotFound, RevisionInv, TypeOK, Tasks, Options, Drafts,
                    BuildsOnSeen, CommitsStay, InLog

LEMMA MergedIsSpec ==
    ASSUME NEW base, NEW ours \in Specs, NEW theirs \in Specs, Clean(base, ours, theirs)
    PROVE  MergeSpecs(base, ours, theirs) \in Specs
<1>1. ASSUME NEW f \in Fields
      PROVE  MergeValue(base[f], ours[f], theirs[f]) \in Atoms \cup Objects
  <2>1. ours[f] \in Atoms \cup Objects /\ theirs[f] \in Atoms \cup Objects
    BY DEF Specs
  <2>2. CASE Settled(base[f], ours[f], theirs[f])
    BY <2>1, <2>2 DEF MergeValue, Settle
  <2>3. CASE ~ Settled(base[f], ours[f], theirs[f])
    <3>1. ours[f] \in Objects /\ theirs[f] \in Objects
      BY <2>3 DEF Clean, Mergeable
    <3> QED BY <2>3, <3>1 DEF MergeValue, Settle, Objects
  <2> QED BY <2>2, <2>3
<1> QED BY <1>1 DEF MergeSpecs, Specs

LEMMA FindNoTargetKeeps ==
    ASSUME RevisionInv, NEW c \in Controllers, FindNoTarget(c) PROVE RevisionInv'
<1> DEFINE next == [at |-> "set", branch |-> task[c].branch, seen |-> <<>>,
                    draft |-> task[c].draft]
<1>1. task[c].branch \in Branches /\ task[c].draft \in objects
  BY DEF RevisionInv, TypeOK, Tasks, Idle, FindNoTarget
<1>2. next \in Tasks
  BY <1>1 DEF Tasks, Options
<1>3. asked' \subseteq Controllers \X Requests
  BY DEF RevisionInv, TypeOK, FindNoTarget
<1> QED BY <1>2, <1>3, DraftKeeps DEF FindNoTarget

LEMMA PrepareMergeKeeps ==
    ASSUME RevisionInv, NEW c \in Controllers, PrepareMerge(c) PROVE RevisionInv'
<1>1. /\ task[c].branch \in Branches /\ task[c].theirs \in objects
      /\ task[c].message \in Messages
  BY DEF RevisionInv, TypeOK, Tasks, Idle, PrepareMerge
<1> DEFINE ours == head[task[c].branch][1]
           theirs == task[c].theirs
<1>2. ours \in objects
  BY <1>1, HeadIsStored DEF RevisionInv, PrepareMerge
<1>3. PICK base : /\ Clean(base.spec, ours.spec, theirs.spec)
                  /\ Becomes(c, [at |-> "reread", branch |-> task[c].branch,
                                 theirs |-> theirs, message |-> task[c].message,
                                 spec |-> MergeSpecs(base.spec, ours.spec, theirs.spec)])
  BY DEF PrepareMerge
<1>4. ours.spec \in Specs /\ theirs.spec \in Specs
  BY <1>1, <1>2 DEF RevisionInv, TypeOK, Drafts
<1> DEFINE spec == MergeSpecs(base.spec, ours.spec, theirs.spec)
           next == [at |-> "reread", branch |-> task[c].branch, theirs |-> theirs,
                    message |-> task[c].message, spec |-> spec]
<1>5. spec \in Specs
  BY <1>3, <1>4, MergedIsSpec
<1>6. next \in Tasks
  <2> HIDE DEF spec
  <2> QED BY <1>1, <1>5 DEF Tasks
<1>7. asked' \subseteq Controllers \X Requests
  BY DEF RevisionInv, TypeOK, PrepareMerge
<1>8. Becomes(c, next) /\ next.at = "reread"
  BY <1>3
<1> HIDE DEF next
<1> QED BY <1>6, <1>7, <1>8, QuietKeeps DEF PrepareMerge

LEMMA CommitMergeKeeps ==
    ASSUME RevisionInv, NEW c \in Controllers, CommitMerge(c) PROVE RevisionInv'
<1>1. /\ task[c].branch \in Branches /\ task[c].theirs \in objects
      /\ task[c].message \in Messages /\ task[c].spec \in Specs
  BY DEF RevisionInv, TypeOK, Tasks, Idle, CommitMerge
<1> DEFINE ours == head[task[c].branch][1]
           next == [at |-> "save", branch |-> task[c].branch, seen |-> head[task[c].branch],
                    draft |-> [parents |-> <<ours, task[c].theirs>>,
                               spec |-> task[c].spec, message |-> task[c].message]]
<1>2. ours \in objects /\ head[task[c].branch] = <<ours>>
  BY <1>1, HeadIsStored DEF RevisionInv, CommitMerge
<1>5. next.draft \in Drafts
  BY <1>1, <1>2 DEF Drafts
<1>6. next.seen \in Options
  BY <1>2 DEF Options
<1>7. next \in Tasks
  BY <1>1, <1>5, <1>6 DEF Tasks
<1>8. next.draft.parents # <<>> /\ next.draft.parents[1] = next.seen[1]
  BY <1>2
<1>9. asked' \subseteq Controllers \X Requests
  BY DEF RevisionInv, TypeOK, CommitMerge
<1> QED BY <1>7, <1>8, <1>9, DraftKeeps DEF CommitMerge

LEMMA EndKeeps ==
    ASSUME RevisionInv, NEW c \in Controllers, Refuse(c) \/ Lose(c) PROVE RevisionInv'
<1>1. Idle \in Tasks /\ Idle.at \notin {"save", "set"}
  BY DEF Tasks, Idle
<1>2. asked' \subseteq Controllers \X Requests
  BY DEF RevisionInv, TypeOK, Refuse, Lose
<1> QED BY <1>1, <1>2, QuietKeeps DEF Refuse, Lose

-----------------------------------------------------------------------------
(* The steps that change the store.                                         *)

(* A revision that is stored later changes no log.                          *)
LEMMA LogStays ==
    ASSUME RevisionInv, objects \subseteq objects',
           NEW r \in objects, NEW h \in objects, InLog(r, h)
    PROVE  InLog(r, h)'
<1> SUFFICES ASSUME NEW S \in SUBSET objects', h \in S, LogClosed(S) PROVE r \in S
  BY DEF InLog, LogClosed
<1> DEFINE T == S \cap objects
<1>1. ASSUME NEW x \in T, x.parents # <<>> PROVE x.parents[1] \in T
  <2>1. x \in Drafts
    BY DEF RevisionInv, TypeOK
  <2>2. x.parents[1] \in objects
    BY <1>1, <2>1 DEF Drafts, Options
  <2> QED BY <1>1, <2>2 DEF LogClosed
<1>2. T \in SUBSET objects /\ h \in T /\ LogClosed(T)
  BY <1>1 DEF LogClosed
<1> QED BY <1>2 DEF InLog

LEMMA SaveKeeps ==
    ASSUME RevisionInv, NEW c \in Controllers, Save(c) PROVE RevisionInv'
<1> DEFINE draft == task[c].draft
<1>1. draft \in Drafts /\ task[c] \in [at : {"save"}, branch : Branches, seen : Options, draft : Drafts]
  BY DEF RevisionInv, TypeOK, Tasks, Idle, Save
<1>2. objects \subseteq objects' /\ draft \in objects' /\ objects' \subseteq objects \cup {draft}
  BY DEF Save, StoreWith
<1>3. Options \subseteq Options' /\ Drafts \subseteq Drafts'
  BY <1>2 DEF Options, Drafts
<1>4. Tasks \subseteq Tasks'
  BY <1>2, <1>3 DEF Tasks
<1>5. task'[c] \in Tasks'
  <2>1. task'[c] = [at |-> "set", branch |-> task[c].branch, seen |-> task[c].seen, draft |-> draft]
    BY <1>1 DEF Save, RevisionInv, TypeOK
  <2>2. task'[c] \in [at : {"set"}, branch : Branches, seen : Options', draft : objects']
    BY <1>1, <1>2, <1>3, <2>1
  <2> QED BY <2>2 DEF Tasks
<1>6. TypeOK'
  <2>1. objects' \subseteq Drafts'
    BY <1>1, <1>2, <1>3 DEF RevisionInv, TypeOK
  <2>2. head' \in [Branches -> Options']
    BY <1>3 DEF RevisionInv, TypeOK, Save
  <2>3. task' \in [Controllers -> Tasks']
    BY <1>4, <1>5 DEF RevisionInv, TypeOK, Save
  <2>4. asked' \subseteq Controllers \X Requests /\ acked' \subseteq [branch : Branches, revision : objects']
    BY <1>2 DEF RevisionInv, TypeOK, Save
  <2> QED BY <2>1, <2>2, <2>3, <2>4 DEF TypeOK
<1>7. BuildsOnSeen'
  BY <1>1 DEF RevisionInv, TypeOK, BuildsOnSeen, Save
<1>8. ASSUME NEW r \in objects, NEW h \in objects, InLog(r, h) PROVE InLog(r, h)'
  BY <1>2, <1>8, LogStays
<1>9. CommitsStay'
  <2> SUFFICES ASSUME NEW a \in acked
               PROVE  head[a.branch] # <<>> /\ InLog(a.revision, head[a.branch][1])'
    BY DEF CommitsStay, Save
  <2>1. head[a.branch] # <<>> /\ InLog(a.revision, head[a.branch][1])
    BY DEF RevisionInv, CommitsStay
  <2>2. a.branch \in Branches /\ a.revision \in objects
    BY DEF RevisionInv, TypeOK
  <2>3. head[a.branch][1] \in objects
    BY <2>1, <2>2, HeadIsStored DEF RevisionInv
  <2>4. InLog(a.revision, head[a.branch][1])'
    BY <1>8, <2>1, <2>2, <2>3 DEF Save, InLog, LogClosed
  <2> QED BY <2>1, <2>4 DEF Save
<1> QED BY <1>6, <1>7, <1>9 DEF RevisionInv

LEMMA AdvanceKeeps ==
    ASSUME RevisionInv, NEW c \in Controllers, Advance(c) PROVE RevisionInv'
<1> DEFINE b == task[c].branch
           d == task[c].draft
<1>1. b \in Branches /\ d \in objects /\ task[c].seen \in Options
  BY DEF RevisionInv, TypeOK, Tasks, Idle, Advance
<1>2. TypeOK'
  <2>1. <<d>> \in Options /\ Idle \in Tasks
    BY <1>1 DEF Options, Tasks
  <2>2. [branch |-> b, revision |-> d] \in [branch : Branches, revision : objects]
    BY <1>1
  <2> QED BY <2>1, <2>2 DEF RevisionInv, TypeOK, Advance, Options, Drafts, Tasks
<1>3. BuildsOnSeen'
  BY DEF RevisionInv, TypeOK, BuildsOnSeen, Advance, Idle
<1>4. head' = [head EXCEPT ![b] = <<d>>] /\ head'[b] = <<d>> /\ objects' = objects
  BY <1>1 DEF Advance, RevisionInv, TypeOK
<1>5. InLog(d, d)
  BY DEF InLog
<1>6. ASSUME NEW a \in acked, a.branch = b PROVE InLog(a.revision, d)
  <2>1. head[b] # <<>> /\ InLog(a.revision, head[b][1])
    BY <1>6 DEF RevisionInv, CommitsStay
  <2>2. task[c].seen = head[b]
    BY DEF Advance, Current
  <2>3. d.parents # <<>> /\ d.parents[1] = head[b][1]
    BY <2>1, <2>2 DEF RevisionInv, BuildsOnSeen, Advance
  <2> QED BY <2>1, <2>3 DEF InLog, LogClosed
<1>7. CommitsStay'
  <2> SUFFICES ASSUME NEW a \in acked'
               PROVE  head'[a.branch] # <<>> /\ InLog(a.revision, head'[a.branch][1])
    BY <1>4 DEF CommitsStay, InLog, LogClosed
  <2>1. CASE a = [branch |-> b, revision |-> d]
    BY <2>1, <1>4, <1>5
  <2>2. CASE a \in acked /\ a.branch = b
    BY <2>2, <1>4, <1>6
  <2>3. CASE a \in acked /\ a.branch # b
    <3>1. head'[a.branch] = head[a.branch]
      BY <2>3, <1>4 DEF RevisionInv, TypeOK
    <3> QED BY <2>3, <3>1 DEF RevisionInv, CommitsStay
  <2> QED BY <2>1, <2>2, <2>3 DEF Advance
<1> QED BY <1>2, <1>3, <1>7 DEF RevisionInv

-----------------------------------------------------------------------------
(* Theorems.                                                                *)

LEMMA NextKeeps == RevisionInv /\ [Next]_vars => RevisionInv'
<1> SUFFICES ASSUME RevisionInv, [Next]_vars PROVE RevisionInv'
  OBVIOUS
<1>1. ASSUME NEW c \in Controllers, Begin(c) PROVE RevisionInv'
  BY <1>1, CommitKeeps, CreateBranchKeeps, MergeKeeps, BranchNotFoundKeeps DEF Begin
<1>2. ASSUME NEW c \in Controllers, Step(c) PROVE RevisionInv'
  BY <1>2, FindNoTargetKeeps, PrepareMergeKeeps, CommitMergeKeeps, SaveKeeps, AdvanceKeeps,
     EndKeeps DEF Step
<1>3. ASSUME NEW c \in Controllers, Lose(c) PROVE RevisionInv'
  BY <1>3, EndKeeps
<1>4. CASE UNCHANGED vars
  BY <1>4 DEF vars, RevisionInv, TypeOK, Tasks, Options, Drafts, BuildsOnSeen, CommitsStay,
              InLog, LogClosed
<1> QED BY <1>1, <1>2, <1>3, <1>4 DEF Next

LEMMA InitHolds == Init => RevisionInv
  BY DEF Init, RevisionInv, TypeOK, Tasks, Idle, Options, BuildsOnSeen, CommitsStay

(* StoreComplete: heads, parents and what operations have read are stored   *)
(* revisions, wherever a controller stops between its calls of the store.   *)
THEOREM StoreComplete == Spec => []TypeOK
<1>1. RevisionInv => TypeOK
  BY DEF RevisionInv
<1> QED BY <1>1, InitHolds, NextKeeps, PTL DEF Spec

(* BranchesKeepCommits: what commit, merge or create_branch reported done   *)
(* stays in the log of its branch, for any number of contending operations. *)
THEOREM BranchesKeepCommits == Spec => []CommitsStay
<1>1. RevisionInv => CommitsStay
  BY DEF RevisionInv
<1> QED BY <1>1, InitHolds, NextKeeps, PTL DEF Spec

-----------------------------------------------------------------------------
(* The history of the store, step by step.                                  *)

LEMMA HistoryStep == ASSUME RevisionInv, HistoryInv, [Next]_vars PROVE HistoryInv'
<1>1. ASSUME NEW c \in Controllers, Save(c) PROVE HistoryInv'
  <2> DEFINE d == task[c].draft
             size == Cardinality(objects)
  <2>1. d \in Drafts /\ objects' = objects \cup {d}
    BY <1>1 DEF RevisionInv, TypeOK, Tasks, Idle, Save, StoreWith
  <2>2. Parents(d) \subseteq objects
    BY <2>1 DEF Drafts, Options, Parents
  <2>3. PICK rank : Bounded(rank)
    BY DEF HistoryInv
  <2>4. IsFiniteSet(objects') /\ Cardinality(objects') = IF d \in objects THEN size ELSE size + 1
    BY <2>1, FS_AddElement DEF HistoryInv
  <2>5. CASE d \in objects
    <3>1. objects' = objects
      BY <2>1, <2>5
    <3> QED BY <3>1, <2>3 DEF HistoryInv, Bounded
  <2>6. CASE d \notin objects
    <3> DEFINE more == [x \in objects' |-> IF x = d THEN size ELSE rank[x]]
    <3>1. size \in Nat /\ Cardinality(objects') = size + 1
      BY <2>4, <2>6, SizeType
    <3> HIDE DEF d, size
    <3>2. \A x \in objects : rank[x] \in Nat /\ rank[x] < size
      BY <2>3 DEF Bounded, Ranks, size
    <3>3. \A x \in objects : more[x] = rank[x]
      BY <2>1, <2>6
    <3>4. more[d] = size /\ more \in [objects' -> Nat]
      BY <2>1, <3>1, <3>2
    <3> HIDE DEF more
    <3>5. ASSUME NEW x \in objects', NEW p \in Parents(x) PROVE p \in objects' /\ more[p] < more[x]
      <4>1. CASE x = d
        BY <2>1, <2>2, <3>2, <3>3, <3>4, <3>5, <4>1
      <4>2. CASE x \in objects
        <5>1. p \in objects /\ rank[p] < rank[x]
          BY <2>3, <3>5, <4>2 DEF Bounded, Ranks
        <5> QED BY <2>1, <3>3, <4>2, <5>1
      <4> QED BY <2>1, <4>1, <4>2
    <3>6. \A x \in objects' : more[x] < Cardinality(objects')
      BY <2>1, <3>1, <3>2, <3>3, <3>4
    <3>7. Ranks(more, objects')
      BY <3>4, <3>5 DEF Ranks
    <3> QED BY <2>4, <3>6, <3>7 DEF HistoryInv, Bounded
  <2> QED BY <2>5, <2>6
<1>2. ASSUME UNCHANGED objects PROVE HistoryInv'
  BY <1>2 DEF HistoryInv, Bounded
<1> QED BY <1>1, <1>2 DEF Next, Begin, Commit, CreateBranch, Merge, BranchNotFound, Step,
                          FindNoTarget, PrepareMerge, CommitMerge, Advance, Refuse, Lose, vars

LEMMA InitHistory == Init => HistoryInv
<1>1. ASSUME objects = {} PROVE HistoryInv
  <2>1. IsFiniteSet(objects)
    BY <1>1, FS_EmptySet
  <2>2. Bounded([x \in {} |-> 0])
    BY <1>1 DEF Bounded, Ranks
  <2> QED BY <2>1, <2>2 DEF HistoryInv
<1> QED BY <1>1 DEF Init

(* SearchFindsHistory: in every state the search that merge makes finds the *)
(* whole history of a revision, and nothing else, although it is cut at the *)
(* size of the store.                                                       *)
THEOREM SearchFindsHistory == Spec => []SearchIsComplete
<1>1. RevisionInv /\ HistoryInv /\ [Next]_vars => RevisionInv' /\ HistoryInv'
  BY NextKeeps, HistoryStep
<1>2. HistoryInv => SearchIsComplete
  BY HistoryComplete
<1> QED BY <1>1, <1>2, InitHistory, InitHolds, PTL DEF Spec

-----------------------------------------------------------------------------
(* Merges.                                                                  *)

(* The target of a merge has one owner: only the controller that is asked   *)
(* to merge into a branch is asked for anything else on it.                 *)
OwnedTargets ==
    \A c, d \in Controllers : \A q \in Asks[c], r \in Asks[d] :
        q.kind = "merge" /\ c # d => r.branch # q.branch

MergedOverBase(spec, ours, theirs) ==
    MergedCleanly(spec, MergeBases(ours, theirs), ours, theirs)

(* An operation goes on with what it was asked for.                         *)
TasksAsked ==
    \A c \in Controllers :
        task[c] # Idle =>
            \E q \in Asks[c] : /\ q.branch = task[c].branch
                               /\ task[c].at \in {"prepare", "reread"} => q.kind = "merge"

(* spec was merged from theirs and the head that was read of a branch whose *)
(* head is h now: a revision in its log, h itself if nobody else moves it.  *)
ReadOf(spec, h, theirs) ==
    \E ours \in objects : /\ InLog(ours, h)
                          /\ OwnedTargets => ours = h
                          /\ MergedOverBase(spec, ours, theirs)

(* What was merged was merged from its second parent and what was read of   *)
(* the branch of its first, or of what will be the two.                     *)
StoredMerges ==
    \A m \in objects :
        Len(m.parents) = 2 => ReadOf(m.spec, m.parents[1], m.parents[2])
DraftedMerges ==
    \A c \in Controllers :
        task[c].at = "save" /\ Len(task[c].draft.parents) = 2 =>
            ReadOf(task[c].draft.spec, task[c].draft.parents[1], task[c].draft.parents[2])
PreparedMerges ==
    \A c \in Controllers :
        task[c].at = "reread" =>
            /\ head[task[c].branch] # <<>>
            /\ ReadOf(task[c].spec, head[task[c].branch][1], task[c].theirs)

MergeInv == TasksAsked /\ StoredMerges /\ DraftedMerges /\ PreparedMerges

LEMMA BasesStay ==
    ASSUME HistoryInv, HistoryInv', objects \subseteq objects', NEW ours \in objects, NEW theirs \in objects,
           NEW spec, MergedOverBase(spec, ours, theirs)
    PROVE  MergedOverBase(spec, ours, theirs)'
<1>1. Ancestors(ours)' = Ancestors(ours) /\ Ancestors(theirs)' = Ancestors(theirs)
  BY HistoryStays
<1> DEFINE common    == Ancestors(ours) \cap Ancestors(theirs)
           detour(a) == Distance(ours, a) + Distance(theirs, a)
<1>2. \A a \in common : detour(a)' = detour(a)
  BY HistoryStays
<1>3. MergeBases(ours, theirs) = {a \in common : \A b \in common : detour(a) <= detour(b)}
  BY DEF MergeBases, CommonAncestors
<1>4. MergeBases(ours, theirs)' = {a \in common : \A b \in common : detour(a)' <= detour(b)'}
  BY <1>1 DEF MergeBases, CommonAncestors
<1>5. MergeBases(ours, theirs)' = MergeBases(ours, theirs)
  <2> HIDE DEF detour, common
  <2> QED BY <1>2, <1>3, <1>4
<1> QED BY <1>5 DEF MergedOverBase, MergedCleanly

LEMMA ReadStays ==
    ASSUME RevisionInv, HistoryInv, HistoryInv', objects \subseteq objects', NEW spec,
           NEW h \in objects, NEW theirs \in objects, ReadOf(spec, h, theirs)
    PROVE  ReadOf(spec, h, theirs)'
<1>1. SUFFICES ASSUME NEW ours \in objects, InLog(ours, h), OwnedTargets => ours = h,
                      MergedOverBase(spec, ours, theirs)
               PROVE  ReadOf(spec, h, theirs)'
  BY DEF ReadOf
<1>2. InLog(ours, h)'
  BY <1>1, LogStays
<1>3. MergedOverBase(spec, ours, theirs)'
  BY <1>1, BasesStay
<1>4. (OwnedTargets => ours = h)' /\ ours \in objects'
  BY <1>1 DEF OwnedTargets
<1> QED BY <1>2, <1>3, <1>4 DEF ReadOf

(* What a controller's step does to the others, and to its own request.     *)
LEMMA OthersStay ==
    ASSUME RevisionInv, NEW c \in Controllers, Begin(c) \/ Step(c) \/ Lose(c)
    PROVE  /\ objects \subseteq objects'
           /\ \A d \in Controllers : d # c => task'[d] = task[d]
           /\ \A b \in Branches : head'[b] = head[b] \/ (task[c] # Idle /\ b = task[c].branch /\ task'[c] = Idle)
<1>1. task \in [Controllers -> Tasks] /\ head \in [Branches -> Options]
  BY DEF RevisionInv, TypeOK
<1>2. Idle.at = "idle"
  BY DEF Idle
<1>3. CASE Begin(c)
  BY <1>1, <1>3 DEF Begin, Commit, CreateBranch, Merge, BranchNotFound
<1>4. CASE Advance(c)
  BY <1>1, <1>2, <1>4 DEF Advance
<1>5. CASE Save(c)
  BY <1>1, <1>5 DEF Save, StoreWith
<1>6. CASE FindNoTarget(c) \/ PrepareMerge(c) \/ CommitMerge(c) \/ Refuse(c) \/ Lose(c)
  BY <1>1, <1>6 DEF FindNoTarget, PrepareMerge, CommitMerge, Refuse, Lose
<1> QED BY <1>3, <1>4, <1>5, <1>6 DEF Step

LEMMA AskedStep ==
    ASSUME RevisionInv, TasksAsked, NEW c \in Controllers, Begin(c) \/ Step(c) \/ Lose(c)
    PROVE  TasksAsked'
<1>1. task \in [Controllers -> Tasks] /\ Idle.at = "idle"
  BY DEF RevisionInv, TypeOK, Idle
<1>2. SUFFICES ASSUME task'[c] # Idle
               PROVE  \E q \in Asks[c] :
                          /\ q.branch = task'[c].branch
                          /\ task'[c].at \in {"prepare", "reread"} => q.kind = "merge"
  BY OthersStay DEF TasksAsked
<1>3. ASSUME NEW q \in Asks[c], Commit(c, q) \/ CreateBranch(c, q) \/ Merge(c, q)
      PROVE  /\ q.branch = task'[c].branch
             /\ task'[c].at \in {"prepare", "reread"} => q.kind = "merge"
  BY <1>1, <1>3 DEF Commit, CreateBranch, Merge, Ask
<1>4. ASSUME NEW q \in Asks[c], BranchNotFound(c, q) PROVE task'[c] = task[c]
  BY <1>4 DEF BranchNotFound
<1>5. CASE Begin(c)
  BY <1>2, <1>3, <1>4, <1>5 DEF Begin, TasksAsked
<1>6. ASSUME Step(c) \/ Lose(c)
      PROVE  /\ task[c] # Idle /\ task'[c].branch = task[c].branch
             /\ task'[c].at \in {"prepare", "reread"} => task[c].at = "prepare"
  <2>1. CASE FindNoTarget(c)
    BY <1>1, <2>1 DEF FindNoTarget
  <2>2. CASE PrepareMerge(c)
    BY <1>1, <2>2 DEF PrepareMerge
  <2>3. CASE CommitMerge(c)
    BY <1>1, <2>3 DEF CommitMerge
  <2>4. CASE Save(c)
    BY <1>1, <2>4 DEF Save, Tasks, Idle
  <2>5. CASE Advance(c) \/ Refuse(c) \/ Lose(c)
    BY <1>1, <1>2, <2>5 DEF Advance, Refuse, Lose
  <2> QED BY <1>6, <2>1, <2>2, <2>3, <2>4, <2>5 DEF Step
<1> QED BY <1>5, <1>6 DEF TasksAsked

(* A draft with two parents is one that commit_merge makes.                 *)
LEMMA DraftedStep ==
    ASSUME RevisionInv, HistoryInv, HistoryInv', MergeInv,
           NEW c \in Controllers, Begin(c) \/ Step(c) \/ Lose(c)
    PROVE  DraftedMerges'
<1>1. task \in [Controllers -> Tasks] /\ head \in [Branches -> Options] /\ Idle.at = "idle"
  BY DEF RevisionInv, TypeOK, Idle
<1>2. SUFFICES ASSUME NEW d \in Controllers, NEW m,
                      task'[d].at = "save", m = task'[d].draft, Len(m.parents) = 2
               PROVE  ReadOf(m.spec, m.parents[1], m.parents[2])'
  BY DEF DraftedMerges
<1>3. CASE task'[d] = task[d]
  <2>1. ReadOf(m.spec, m.parents[1], m.parents[2])
    BY <1>2, <1>3 DEF MergeInv, DraftedMerges
  <2>2. m \in Drafts
    BY <1>1, <1>2, <1>3 DEF Tasks, Idle
  <2>3. m.parents[1] \in objects /\ m.parents[2] \in objects
    BY <1>2, <2>2 DEF Drafts, Options
  <2> QED BY <2>1, <2>3, ReadStays, OthersStay
<1>4. CASE d = c /\ CommitMerge(c)
  <2> DEFINE ours == head[task[c].branch][1]
             theirs == task[c].theirs
  <2>1. task[c].branch \in Branches /\ theirs \in objects
    BY <1>1, <1>4 DEF CommitMerge, Tasks, Idle
  <2>2. ours \in objects
    BY <1>4, <2>1, HeadIsStored DEF RevisionInv, CommitMerge
  <2>3. ReadOf(task[c].spec, ours, theirs)
    BY <1>4 DEF MergeInv, PreparedMerges, CommitMerge
  <2>4. task'[c] = [at |-> "save", branch |-> task[c].branch, seen |-> head[task[c].branch],
                    draft |-> [parents |-> <<ours, theirs>>, spec |-> task[c].spec,
                               message |-> task[c].message]]
    BY <1>1, <1>4 DEF CommitMerge
  <2>5. m.spec = task[c].spec /\ m.parents = <<ours, theirs>>
    BY <1>2, <1>4, <2>4
  <2>6. m.parents[1] = ours /\ m.parents[2] = theirs
    BY <2>5
  <2> HIDE DEF ours, theirs
  <2>7. ReadOf(m.spec, m.parents[1], m.parents[2])
    BY <2>3, <2>5, <2>6
  <2> QED BY <2>1, <2>2, <2>6, <2>7, ReadStays, OthersStay
<1>5. CASE d = c /\ ~CommitMerge(c) /\ task'[c] # task[c]
  <2>1. ASSUME NEW q \in Asks[c], Commit(c, q) PROVE FALSE
    <3>1. q.branch \in Branches
      BY <2>1, AskKeepsType DEF Commit, Requests
    <3>2. m.parents = head[q.branch] /\ head[q.branch] \in Options
      BY <1>1, <1>2, <1>5, <2>1, <3>1 DEF Commit
    <3> QED BY <1>2, <3>2 DEF Options
  <2>2. CASE Begin(c)
    BY <1>1, <1>2, <1>5, <2>1, <2>2 DEF Begin, CreateBranch, Merge, BranchNotFound
  <2>3. CASE Save(c)
    BY <1>1, <1>2, <1>5, <2>3 DEF Save, Tasks, Idle
  <2>4. CASE FindNoTarget(c) \/ PrepareMerge(c) \/ Advance(c) \/ Refuse(c) \/ Lose(c)
    BY <1>1, <1>2, <1>5, <2>4 DEF FindNoTarget, PrepareMerge, Advance, Refuse, Lose
  <2> QED BY <1>5, <2>2, <2>3, <2>4 DEF Step
<1> QED BY <1>3, <1>4, <1>5, OthersStay

LEMMA StoredStep ==
    ASSUME RevisionInv, HistoryInv, HistoryInv', MergeInv,
           NEW c \in Controllers, Begin(c) \/ Step(c) \/ Lose(c)
    PROVE  StoredMerges'
<1>1. SUFFICES ASSUME NEW m \in objects', Len(m.parents) = 2
               PROVE  ReadOf(m.spec, m.parents[1], m.parents[2])'
  BY DEF StoredMerges
<1>2. CASE m \in objects \/ (Save(c) /\ m = task[c].draft)
  <2>1. ReadOf(m.spec, m.parents[1], m.parents[2])
    BY <1>1, <1>2 DEF MergeInv, StoredMerges, DraftedMerges, Save
  <2>2. m \in Drafts
    BY <1>2 DEF RevisionInv, TypeOK, Tasks, Idle, Save
  <2>3. m.parents[1] \in objects /\ m.parents[2] \in objects
    BY <1>1, <2>2 DEF Drafts, Options
  <2> QED BY <2>1, <2>3, ReadStays, OthersStay
<1>3. CASE Save(c)
  BY <1>2, <1>3 DEF Save, StoreWith
<1>4. ASSUME ~Save(c) PROVE objects' = objects
  BY <1>4 DEF Begin, Commit, CreateBranch, Merge, BranchNotFound, Step, FindNoTarget,
              PrepareMerge, CommitMerge, Advance, Refuse, Lose
<1> QED BY <1>2, <1>3, <1>4

(* A head never leaves the log of its branch, and one that nobody else may  *)
(* move stays what it is while its controller has a merge under way.        *)
LEMMA HeadGrows ==
    ASSUME RevisionInv, NEW c \in Controllers, Begin(c) \/ Step(c) \/ Lose(c),
           NEW b \in Branches, head[b] # <<>>, NEW h, h = head[b][1], NEW k, k = head'[b][1],
           NEW r \in objects, InLog(r, h)
    PROVE  head'[b] # <<>> /\ k \in objects' /\ InLog(r, k)'
<1>1. task \in [Controllers -> Tasks] /\ head \in [Branches -> Options] /\ Idle.at = "idle"
  BY DEF RevisionInv, TypeOK, Idle
<1>2. h \in objects /\ objects \subseteq objects'
  BY HeadIsStored, OthersStay DEF RevisionInv
<1>3. CASE head'[b] = head[b]
  <2>1. k = h
    BY <1>3
  <2>2. InLog(r, h)'
    BY <1>2, LogStays
  <2> QED BY <1>2, <1>3, <2>1, <2>2
<1>4. CASE Advance(c) /\ b = task[c].branch
  <2>1. PICK d : d = task[c].draft
    OBVIOUS
  <2>2. d \in objects /\ task[c].seen = head[b]
    BY <1>1, <1>4, <2>1 DEF Advance, Current, Tasks, Idle
  <2>3. d.parents # <<>> /\ d.parents[1] = h
    BY <1>4, <2>1, <2>2 DEF RevisionInv, BuildsOnSeen, Advance
  <2>4. head'[b] = <<d>> /\ k = d /\ objects' = objects
    BY <1>1, <1>4, <2>1 DEF Advance
  <2>5. InLog(r, d)
    BY <2>2, <2>3 DEF InLog, LogClosed
  <2>6. InLog(r, d)'
    BY <2>2, <2>4, <2>5, LogStays
  <2> QED BY <2>2, <2>4, <2>6
<1>5. CASE ~Advance(c) \/ b # task[c].branch
  <2>1. head'[b] = head[b]
    BY <1>1, <1>5 DEF Begin, Commit, CreateBranch, Merge, BranchNotFound, Step, FindNoTarget,
                      PrepareMerge, CommitMerge, Save, Advance, Refuse, Lose
  <2> QED BY <1>3, <2>1
<1> QED BY <1>4, <1>5

LEMMA PreparedStep ==
    ASSUME RevisionInv, HistoryInv, HistoryInv', MergeInv,
           NEW c \in Controllers, Begin(c) \/ Step(c) \/ Lose(c)
    PROVE  PreparedMerges'
<1>1. task \in [Controllers -> Tasks] /\ head \in [Branches -> Options] /\ Idle.at = "idle"
  BY DEF RevisionInv, TypeOK, Idle
<1>2. SUFFICES ASSUME NEW d \in Controllers, task'[d].at = "reread", NEW m, NEW h,
                      m = task'[d], h = head'[m.branch]
               PROVE  h # <<>> /\ ReadOf(m.spec, h[1], m.theirs)'
  BY DEF PreparedMerges
<1>3. ASSUME NEW spec, NEW ours \in objects, NEW theirs \in objects, ReadOf(spec, ours, theirs)
      PROVE  ReadOf(spec, ours, theirs)'
  BY <1>3, ReadStays, OthersStay
<1>4. CASE d = c
  <2>1. ASSUME NEW q \in Asks[c], BranchNotFound(c, q) PROVE UNCHANGED <<task, head, objects>>
    BY <2>1 DEF BranchNotFound
  <2>2. PrepareMerge(c) \/ (task[c].at = "reread" /\ UNCHANGED <<task, head, objects>>)
    BY <1>1, <1>2, <1>4, <2>1 DEF Begin, Commit, CreateBranch, Merge, Step, FindNoTarget, CommitMerge,
                           Save, Advance, Refuse, Lose, Tasks, Idle
  <2>3. CASE PrepareMerge(c)
    <3> DEFINE ours == head[task[c].branch][1]
               theirs == task[c].theirs
    <3>1. task[c].branch \in Branches /\ theirs \in objects
      BY <1>1, <2>3 DEF PrepareMerge, Tasks, Idle
    <3>2. ours \in objects
      BY <2>3, <3>1, HeadIsStored DEF RevisionInv, PrepareMerge
    <3>3. head'[task[c].branch] = head[task[c].branch] /\ head[task[c].branch] # <<>>
      BY <2>3 DEF PrepareMerge
    <3>4. PICK base \in MergeBases(ours, theirs) :
              /\ Clean(base.spec, ours.spec, theirs.spec)
              /\ Becomes(c, [at |-> "reread", branch |-> task[c].branch,
                             theirs |-> theirs, message |-> task[c].message,
                             spec |-> MergeSpecs(base.spec, ours.spec, theirs.spec)])
      BY <2>3 DEF PrepareMerge
    <3> DEFINE spec == MergeSpecs(base.spec, ours.spec, theirs.spec)
    <3> HIDE DEF spec
    <3>5. task'[c] = [at |-> "reread", branch |-> task[c].branch, theirs |-> theirs,
                      message |-> task[c].message, spec |-> spec]
      BY <1>1, <3>4 DEF spec
    <3>6. ReadOf(spec, ours, theirs)
      <4>1. MergedOverBase(spec, ours, theirs)
        BY <3>4 DEF MergedOverBase, MergedCleanly, spec
      <4>2. InLog(ours, ours)
        BY DEF InLog
      <4> QED BY <3>2, <4>1, <4>2 DEF ReadOf
    <3>7. m.spec = spec /\ m.theirs = theirs /\ m.branch = task[c].branch
      BY <1>2, <1>4, <3>5
    <3>8. h # <<>> /\ h[1] = ours
      BY <1>2, <3>3, <3>7
    <3> QED BY <1>3, <3>1, <3>2, <3>6, <3>7, <3>8
  <2>4. CASE task[c].at = "reread" /\ UNCHANGED <<task, head, objects>>
    <3>1. task[c].branch \in Branches /\ task[c].theirs \in objects
      BY <1>1, <2>4 DEF Tasks, Idle
    <3>2. head[task[c].branch] # <<>> /\ ReadOf(task[c].spec, head[task[c].branch][1], task[c].theirs)
      BY <2>4 DEF MergeInv, PreparedMerges
    <3>3. head[task[c].branch][1] \in objects
      BY <3>1, <3>2, HeadIsStored DEF RevisionInv
    <3>4. m = task[c] /\ h = head[task[c].branch]
      BY <1>2, <1>4, <2>4
    <3> QED BY <1>3, <3>1, <3>2, <3>3, <3>4
  <2> QED BY <2>2, <2>3, <2>4
<1>5. CASE d # c
  <2> DEFINE b == task[d].branch
  <2>1. task'[d] = task[d] /\ task[d].at = "reread"
    BY <1>2, <1>5, OthersStay
  <2>2. b \in Branches /\ task[d].theirs \in objects
    BY <1>1, <2>1 DEF Tasks, Idle
  <2>3. head[b] # <<>> /\ ReadOf(task[d].spec, head[b][1], task[d].theirs)
    BY <2>1 DEF MergeInv, PreparedMerges
  <2>4. PICK ours \in objects : /\ InLog(ours, head[b][1])
                                /\ OwnedTargets => ours = head[b][1]
                                /\ MergedOverBase(task[d].spec, ours, task[d].theirs)
    BY <2>3 DEF ReadOf
  <2>5. PICK q \in Asks[d] : q.branch = b /\ q.kind = "merge"
    BY <1>1, <2>1 DEF MergeInv, TasksAsked
  <2>6. ASSUME OwnedTargets, task[c] # Idle PROVE task[c].branch # b
    <3>1. PICK r \in Asks[c] : r.branch = task[c].branch
      BY <2>6 DEF MergeInv, TasksAsked
    <3> QED BY <1>5, <2>5, <2>6, <3>1 DEF OwnedTargets
  <2>7. OwnedTargets => head'[b] = head[b]
    BY <2>2, <2>6, OthersStay
  <2>8. m = task[d] /\ h = head'[b]
    BY <1>2, <2>1
  <2>9. PICK k, spec, theirs : k = h[1] /\ spec = m.spec /\ theirs = m.theirs
    OBVIOUS
  <2>10. h # <<>> /\ k \in objects' /\ InLog(ours, k)'
    <3>1. PICK old : old = head[b][1]
      OBVIOUS
    <3> QED BY <2>2, <2>3, <2>4, <2>8, <2>9, <3>1, HeadGrows
  <2>11. MergedOverBase(spec, ours, theirs)' /\ ours \in objects'
    <3>1. MergedOverBase(spec, ours, theirs) /\ theirs \in objects
      BY <2>2, <2>4, <2>8, <2>9
    <3> QED BY <3>1, BasesStay, OthersStay
  <2>12. OwnedTargets => ours = k
    BY <2>4, <2>7, <2>8, <2>9
  <2>13. ReadOf(spec, k, theirs)'
    BY <2>10, <2>11, <2>12 DEF ReadOf, OwnedTargets
  <2> QED BY <2>9, <2>10, <2>13
<1> QED BY <1>4, <1>5

LEMMA MergeStep ==
    ASSUME RevisionInv, HistoryInv, HistoryInv', MergeInv, [Next]_vars
    PROVE  MergeInv'
<1>1. ASSUME NEW c \in Controllers, Begin(c) \/ Step(c) \/ Lose(c) PROVE MergeInv'
  BY <1>1, AskedStep, StoredStep, DraftedStep, PreparedStep DEF MergeInv
<1>2. CASE UNCHANGED vars
  <2>1. ASSUME NEW spec, NEW ours, NEW theirs
        PROVE  ReadOf(spec, ours, theirs)' <=> ReadOf(spec, ours, theirs)
    BY <1>2 DEF vars, ReadOf, OwnedTargets, InLog, LogClosed, MergedOverBase, MergedCleanly,
                MergeBases, CommonAncestors, Ancestors, Generation, Distance
  <2> QED BY <1>2, <2>1 DEF vars, MergeInv, TasksAsked, StoredMerges, DraftedMerges, PreparedMerges
<1> QED BY <1>1, <1>2 DEF Next

LEMMA InitMerges == Init => MergeInv
  BY DEF Init, MergeInv, TasksAsked, StoredMerges, DraftedMerges, PreparedMerges, Idle

LEMMA MergesInductive ==
    RevisionInv /\ HistoryInv /\ MergeInv /\ [Next]_vars => (RevisionInv /\ HistoryInv /\ MergeInv)'
  BY NextKeeps, HistoryStep, MergeStep

-----------------------------------------------------------------------------
(* A history that other histories follow.                                   *)

(* r was reached by commits alone.                                          *)
Linear(r) == \A x \in Ancestors(r) : Len(x.parents) < 2

(* The merges that r's history has and s's has not are merges of revisions  *)
(* of s's history, each at least as far in it as what it was merged into.   *)
Follows(r, s) ==
    \A x \in Ancestors(r) \ Ancestors(s) :
        Len(x.parents) = 2 =>
            /\ x.parents[2] \in Ancestors(s)
            /\ Ancestors(x.parents[1]) \cap Ancestors(s) \subseteq Ancestors(x.parents[2])

Upstream(s, r) == Linear(s) /\ Follows(r, s)

(* Going up a linear history every step counts.                             *)
LEMMA LinearDistance ==
    ASSUME RevisionInv, HistoryInv, NEW s \in objects, Linear(s),
           NEW b \in Ancestors(s), NEW a \in Ancestors(b), a # b
    PROVE  Distance(s, b) < Distance(s, a)
<1> DEFINE Counts(x) == \A u \in Ancestors(x) : \A v \in Ancestors(u) :
                            v # u => Distance(x, u) < Distance(x, v)
           Holds     == {x \in objects : Linear(x) => Counts(x)}
<1>1. ASSUME NEW x \in objects, Parents(x) \subseteq Holds, Linear(x),
             NEW u \in Ancestors(x), NEW v \in Ancestors(u), v # u
      PROVE  Distance(x, u) < Distance(x, v)
  <2>1. v \in Ancestors(x)
    BY HistoryIsOrder
  <2>2. v # x
    BY <1>1, HistoryIsOrder
  <2>3. Distance(x, u) \in Nat /\ Distance(x, v) \in Nat
    BY <2>1, DistanceIs
  <2>4. PICK p \in Parents(x) : v \in Ancestors(p) /\ Distance(p, v) + 1 <= Distance(x, v)
    BY <2>1, <2>2, DistanceByParents
  <2>5. p \in objects /\ Distance(p, v) \in Nat
    BY <2>4, DistanceByParents, DistanceIs
  <2>6. CASE u = x
    BY <2>3, <2>4, <2>5, <2>6, DistanceByParents
  <2>7. CASE u # x
    <3>1. PICK q \in Parents(x) : u \in Ancestors(q)
      BY <2>7, DistanceByParents
    <3>2. q = p
      <4>1. x \in Drafts /\ Len(x.parents) < 2
        BY <1>1, DistanceByParents DEF RevisionInv, TypeOK, Linear
      <4>2. x.parents = <<>> \/ \E y : x.parents = <<y>>
        BY <4>1 DEF Drafts, Options
      <4> QED BY <2>4, <3>1, <4>2 DEF Parents
    <3>3. Linear(p)
      BY <1>1, DistanceByParents DEF Linear
    <3>4. Distance(p, u) < Distance(p, v)
      BY <1>1, <3>1, <3>2, <3>3
    <3>5. Distance(x, u) <= Distance(p, u) + 1 /\ Distance(p, u) \in Nat
      BY <2>5, <3>1, <3>2, DistanceByParents, DistanceIs
    <3> QED BY <2>3, <2>4, <2>5, <3>4, <3>5
  <2> QED BY <2>6, <2>7
<1>2. \A x \in objects : Parents(x) \subseteq Holds => x \in Holds
  BY <1>1
<1> HIDE DEF Holds
<1>3. objects \subseteq Holds
  BY <1>2, ByHistory
<1> QED BY <1>3 DEF Holds

(* Of what a follower has of the history it follows one revision is the     *)
(* latest, and none is nearer to it.                                        *)
LEMMA FollowerHasLatest ==
    ASSUME RevisionInv, HistoryInv, NEW s \in objects, NEW r \in objects, Follows(r, s),
           CommonAncestors(r, s) # {}
    PROVE  \E b \in CommonAncestors(r, s) :
               \A a \in CommonAncestors(r, s) : a \in Ancestors(b) /\ Distance(r, b) <= Distance(r, a)
<1> DEFINE Leads(x, b) == \A a \in CommonAncestors(x, s) :
                              a \in Ancestors(b) /\ Distance(x, b) <= Distance(x, a)
           Holds == {x \in objects : Follows(x, s) /\ CommonAncestors(x, s) # {} =>
                                         \E b \in CommonAncestors(x, s) : Leads(x, b)}
<1>1. ASSUME NEW x \in objects, Parents(x) \subseteq Holds, Follows(x, s), CommonAncestors(x, s) # {}
      PROVE  \E b \in CommonAncestors(x, s) : Leads(x, b)
  <2>1. CASE x \in Ancestors(s)
    <3>1. x \in CommonAncestors(x, s) /\ Distance(x, x) = 0
      BY <2>1, DistanceByParents DEF CommonAncestors
    <3>2. \A a \in CommonAncestors(x, s) : a \in Ancestors(x) /\ Distance(x, a) >= 0
      BY DistanceIs DEF CommonAncestors
    <3> QED BY <3>1, <3>2
  <2>2. CASE x \notin Ancestors(s)
    <3>1. PICK c \in CommonAncestors(x, s) : TRUE
      BY <1>1
    <3>2. PICK p \in Parents(x) : c \in Ancestors(p)
      BY <2>2, <3>1, DistanceByParents DEF CommonAncestors
    <3>3. x \in Drafts
      BY DEF RevisionInv, TypeOK
    <3>4. x.parents = <<p>> \/ \E y, z : x.parents = <<y, z>>
      BY <3>2, <3>3 DEF Drafts, Options, Parents
    <3>5. ASSUME NEW a \in CommonAncestors(x, s)
          PROVE  \E q \in Parents(x) : /\ q \in objects /\ a \in CommonAncestors(q, s)
                                       /\ Distance(q, a) + 1 <= Distance(x, a)
                                       /\ Distance(q, a) \in Nat /\ Distance(x, a) \in Nat
      <4>1. a \in Ancestors(x) /\ a \in Ancestors(s) /\ a # x
        BY <2>2 DEF CommonAncestors
      <4>2. PICK q \in Parents(x) : a \in Ancestors(q) /\ Distance(q, a) + 1 <= Distance(x, a)
        BY <4>1, DistanceByParents
      <4>3. q \in objects
        BY DistanceByParents
      <4> QED BY <4>1, <4>2, <4>3, DistanceIs DEF CommonAncestors
    <3>6. CASE x.parents = <<p>>
      <4>1. Parents(x) = {p} /\ p \in objects /\ Ancestors(p) \subseteq Ancestors(x)
        BY <3>6, DistanceByParents DEF Parents
      <4>2. Follows(p, s) /\ CommonAncestors(p, s) # {}
        BY <1>1, <3>1, <3>2, <4>1 DEF Follows, CommonAncestors
      <4>3. PICK b \in CommonAncestors(p, s) : Leads(p, b)
        BY <1>1, <4>1, <4>2
      <4>4. b \in CommonAncestors(x, s) /\ Distance(x, b) <= Distance(p, b) + 1
        BY <4>1, <4>3, DistanceByParents DEF CommonAncestors
      <4>5. Distance(x, b) \in Nat /\ Distance(p, b) \in Nat
        BY <4>1, <4>3, <4>4, DistanceIs DEF CommonAncestors
      <4>6. Leads(x, b)
        BY <3>5, <4>1, <4>3, <4>4, <4>5
      <4> QED BY <4>4, <4>6
    <3>7. ASSUME NEW y, NEW z, x.parents = <<y, z>> PROVE \E b \in CommonAncestors(x, s) : Leads(x, b)
      <4>1. Parents(x) = {y, z} /\ Len(x.parents) = 2 /\ x.parents[1] = y /\ x.parents[2] = z
        BY <3>7 DEF Parents
      <4>2. z \in Ancestors(s) /\ CommonAncestors(y, s) \subseteq Ancestors(z)
        BY <1>1, <2>2, <4>1, DistanceByParents DEF Follows, CommonAncestors
      <4>3. z \in objects /\ z \in Ancestors(z) /\ Distance(z, z) = 0
        BY <4>1, DistanceByParents
      <4>4. z \in CommonAncestors(x, s) /\ Distance(x, z) <= 1
        BY <4>1, <4>2, <4>3, DistanceByParents DEF CommonAncestors
      <4>5. Distance(x, z) \in Nat
        BY <4>4, DistanceIs DEF CommonAncestors
      <4>6. Leads(x, z)
        BY <3>5, <4>1, <4>2, <4>4, <4>5 DEF CommonAncestors
      <4> QED BY <4>4, <4>6
    <3> QED BY <3>4, <3>6, <3>7
  <2> QED BY <2>1, <2>2
<1>2. \A x \in objects : Parents(x) \subseteq Holds => x \in Holds
  BY <1>1
<1> HIDE DEF Holds
<1>3. objects \subseteq Holds
  BY <1>2, ByHistory
<1> QED BY <1>3 DEF Holds

LEMMA UpstreamBase ==
    ASSUME RevisionInv, HistoryInv, NEW s \in objects, NEW r \in objects, Upstream(s, r),
           NEW a \in MergeBases(r, s)
    PROVE  a \in LatestCommon(r, s)
<1> DEFINE common == CommonAncestors(r, s)
<1>1. a \in common /\ \A c \in common : Distance(r, a) + Distance(s, a) <= Distance(r, c) + Distance(s, c)
  BY DEF MergeBases
<1>2. PICK b \in common : \A c \in common : c \in Ancestors(b) /\ Distance(r, b) <= Distance(r, c)
  BY <1>1, FollowerHasLatest DEF Upstream
<1>3. /\ Distance(r, a) \in Nat /\ Distance(s, a) \in Nat
      /\ Distance(r, b) \in Nat /\ Distance(s, b) \in Nat
  BY <1>1, DistanceIs DEF CommonAncestors
<1>4. a = b
  <2> SUFFICES ASSUME a # b PROVE FALSE
    OBVIOUS
  <2>1. Distance(s, b) < Distance(s, a)
    BY <1>1, <1>2, LinearDistance DEF Upstream, CommonAncestors
  <2> QED BY <1>1, <1>2, <1>3, <2>1
<1>5. ASSUME NEW c \in common, a \in Ancestors(c) PROVE a = c
  <2>1. c \in Ancestors(a) /\ a \in objects
    BY <1>1, <1>2, <1>4, HistoryIsOrder DEF CommonAncestors
  <2> QED BY <1>5, <2>1, HistoryIsOrder
<1> QED BY <1>1, <1>5 DEF LatestCommon

(* Which of the two is merged into the other makes no difference.           *)
LEMMA BasesCommute ==
    ASSUME HistoryInv, NEW r \in objects, NEW s \in objects
    PROVE  MergeBases(r, s) = MergeBases(s, r) /\ LatestCommon(r, s) = LatestCommon(s, r)
<1>1. CommonAncestors(r, s) = CommonAncestors(s, r)
  BY DEF CommonAncestors
<1>2. \A a \in CommonAncestors(r, s) : Distance(r, a) \in Nat /\ Distance(s, a) \in Nat
  BY DistanceIs DEF CommonAncestors
<1>3. \A a, b \in CommonAncestors(r, s) :
          /\ Distance(r, a) + Distance(s, a) = Distance(s, a) + Distance(r, a)
          /\ Distance(r, b) + Distance(s, b) = Distance(s, b) + Distance(r, b)
  BY <1>2
<1>4. MergeBases(r, s) = MergeBases(s, r)
  BY <1>1, <1>3 DEF MergeBases
<1> QED BY <1>1, <1>4 DEF LatestCommon

(* Where one side was reached by commits alone and the other took from it   *)
(* by catching up, the base found is a latest common ancestor.              *)
LEMMA FollowersBase ==
    ASSUME RevisionInv, HistoryInv, NEW ours \in objects, NEW theirs \in objects,
           Upstream(ours, theirs) \/ Upstream(theirs, ours)
    PROVE  MergeBases(ours, theirs) \subseteq LatestCommon(ours, theirs)
<1>1. CASE Upstream(theirs, ours)
  BY <1>1, UpstreamBase
<1>2. CASE Upstream(ours, theirs)
  BY <1>2, UpstreamBase, BasesCommute
<1> QED BY <1>1, <1>2

(* MergesAreOfTheLog: a merge that was reported done holds the clean        *)
(* three-way merge of its second parent and a revision in the log of its    *)
(* first, over a base the search finds for these two; over a latest common  *)
(* ancestor of theirs if one of them was reached by commits alone and the   *)
(* other took from it by catching up.                                       *)
MergesAreOfTheLog ==
    \A a \in acked :
        LET m      == a.revision
            theirs == m.parents[2]
        IN  Len(m.parents) = 2 =>
                \E ours \in objects :
                    /\ InLog(ours, m.parents[1])
                    /\ MergedCleanly(m.spec, MergeBases(ours, theirs), ours, theirs)
                    /\ Upstream(ours, theirs) \/ Upstream(theirs, ours) =>
                           MergedCleanly(m.spec, LatestCommon(ours, theirs), ours, theirs)

(* MergesFollowTheLog: whoever else moves the branches and wherever         *)
(* operations are lost, a merge never mixes in a side that is not in its    *)
(* history, never decides a conflict between the two it merged, and what it *)
(* can miss of its target is only what landed there after the first of the  *)
(* two reads (prepare_merge and commit_merge).                              *)
THEOREM MergesFollowTheLog == Spec => []MergesAreOfTheLog
<1>1. ASSUME RevisionInv, HistoryInv, MergeInv PROVE MergesAreOfTheLog
  <2>0. SUFFICES ASSUME NEW m \in objects, NEW theirs, theirs = m.parents[2], Len(m.parents) = 2
                PROVE  \E ours \in objects :
                          /\ InLog(ours, m.parents[1])
                          /\ MergedCleanly(m.spec, MergeBases(ours, theirs), ours, theirs)
                          /\ Upstream(ours, theirs) \/ Upstream(theirs, ours) =>
                                 MergedCleanly(m.spec, LatestCommon(ours, theirs), ours, theirs)
    BY <1>1 DEF RevisionInv, TypeOK, MergesAreOfTheLog
  <2>1. m.parents[1] \in objects /\ theirs \in objects
    <3>1. m.parents \in Options \cup {<<p, q>> : p \in objects, q \in objects}
      BY <1>1 DEF RevisionInv, TypeOK, Drafts
    <3>2. PICK p \in objects, q \in objects : m.parents = <<p, q>>
      BY <2>0, <3>1 DEF Options
    <3> QED BY <2>0, <3>2
  <2>2. PICK ours \in objects : /\ InLog(ours, m.parents[1])
                                /\ MergedCleanly(m.spec, MergeBases(ours, theirs), ours, theirs)
    BY <1>1, <2>0 DEF MergeInv, StoredMerges, ReadOf, MergedOverBase
  <2>3. ASSUME Upstream(ours, theirs) \/ Upstream(theirs, ours)
        PROVE  MergedCleanly(m.spec, LatestCommon(ours, theirs), ours, theirs)
    <3>1. MergeBases(ours, theirs) \subseteq LatestCommon(ours, theirs)
      BY <1>1, <2>1, <2>3, FollowersBase
    <3> QED BY <2>2, <3>1 DEF MergedCleanly
  <2> QED BY <2>2, <2>3
<1> QED BY <1>1, InitHolds, InitHistory, InitMerges, MergesInductive, PTL DEF Spec

(* FollowedMergesAreThreeWay: a merge that was reported done, and where one *)
(* side was reached by commits alone and the other took from it by catching *)
(* up, holds the clean three-way merge of its own two parents over a latest *)
(* common ancestor of theirs.                                               *)
FollowedMergesAreThreeWay ==
    \A a \in acked :
        LET m      == a.revision
            ours   == m.parents[1]
            theirs == m.parents[2]
        IN  Len(m.parents) = 2 /\ (Upstream(ours, theirs) \/ Upstream(theirs, ours)) =>
                MergedCleanly(m.spec, LatestCommon(ours, theirs), ours, theirs)

(* FollowersMergeThreeWay: if the target of every merge has one owner, merge *)
(* is right wherever a branch keeps up with a linear one and is merged back, *)
(* whatever the other branches have been through (choose_merge_base).        *)
THEOREM FollowersMergeThreeWay ==
    ASSUME OwnedTargets
    PROVE  Spec => []FollowedMergesAreThreeWay
<1>1. ASSUME RevisionInv, HistoryInv, MergeInv PROVE FollowedMergesAreThreeWay
  <2> SUFFICES ASSUME NEW m \in objects, NEW ours, NEW theirs, ours = m.parents[1], theirs = m.parents[2],
                      Len(m.parents) = 2, Upstream(ours, theirs) \/ Upstream(theirs, ours)
               PROVE  MergedCleanly(m.spec, LatestCommon(ours, theirs), ours, theirs)
    BY <1>1 DEF RevisionInv, TypeOK, FollowedMergesAreThreeWay
  <2>1. ours \in objects /\ theirs \in objects
    BY <1>1 DEF RevisionInv, TypeOK, Drafts, Options
  <2>2. MergedCleanly(m.spec, MergeBases(ours, theirs), ours, theirs)
    BY <1>1 DEF MergeInv, StoredMerges, ReadOf, MergedOverBase
  <2>3. MergeBases(ours, theirs) \subseteq LatestCommon(ours, theirs)
    BY <1>1, <2>1, FollowersBase
  <2> QED BY <2>2, <2>3 DEF MergedCleanly
<1> QED BY <1>1, InitHolds, InitHistory, InitMerges, MergesInductive, PTL DEF Spec
=============================================================================
