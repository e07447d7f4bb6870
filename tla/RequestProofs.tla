---------------------------- MODULE RequestProofs ----------------------------
(***************************************************************************)
(* Theorems about ModelRequest, for any settings: what is sent fits into    *)
(* the window and is the whole conversation, and what comes back is what    *)
(* the provider answered, shown once.                                       *)
(***************************************************************************)
EXTENDS RequestInv, FiniteSetTheorems, SequenceTheorems, WellFoundedInduction, TLAPS

-----------------------------------------------------------------------------
(* Numbers and finite sets of them.                                         *)

LEMMA Least ==
  ASSUME NEW S \in SUBSET Nat, S # {}
  PROVE  \E x \in S : \A y \in S : x <= y
<1>1. PICK x \in S : \A y \in S : ~(<<y, x>> \in OpToRel(<, Nat))
  BY WFMin, NatLessThanWellFounded
<1>2. ASSUME NEW y \in S, y < x PROVE FALSE
  <2>1. <<y, x>> \in OpToRel(<, Nat)
    BY <1>2 DEF OpToRel
  <2> QED BY <1>1, <2>1
<1> QED BY <1>2

LEMMA MinIs ==
  ASSUME NEW S \in SUBSET Nat, S # {}
  PROVE  Min(S) \in S /\ \A y \in S : Min(S) <= y
<1>1. \E x \in S : \A y \in S : x =< y
  BY Least
<1> QED BY <1>1 DEF Min

LEMMA MaxIs ==
  ASSUME NEW n \in Nat, NEW S \in SUBSET 1..n, S # {}
  PROVE  Max(S) \in S /\ \A y \in S : y <= Max(S)
<1> DEFINE T == {m \in 0..n : \A y \in S : y <= m}
<1>1. n \in T /\ T \in SUBSET Nat
  OBVIOUS
<1>2. PICK m \in T : \A k \in T : m <= k
  BY <1>1, Least
<1>3. m \in S
  <2> SUFFICES ASSUME m \notin S PROVE FALSE
    OBVIOUS
  <2>1. \A y \in S : y <= m - 1 /\ m - 1 \in 0..n
    OBVIOUS
  <2>2. m - 1 \in T
    BY <2>1
  <2> QED BY <1>2, <2>2
<1>4. \E x \in S : \A y \in S : x >= y
  BY <1>3
<1> QED BY <1>4 DEF Max

(* What fails for a finite set fails for one of which it holds when any     *)
(* element is taken away.                                                   *)
LEMMA Smallest ==
  ASSUME NEW S, IsFiniteSet(S), NEW B \in SUBSET SUBSET S, B # {}
  PROVE  \E b \in B : IsFiniteSet(b) /\ \A x \in b : b \ {x} \notin B
<1> DEFINE N == {Cardinality(b) : b \in B}
<1>1. \A b \in B : IsFiniteSet(b) /\ Cardinality(b) \in Nat
  BY FS_Subset, FS_CardinalityType
<1>2. N \in SUBSET Nat /\ N # {}
  BY <1>1
<1>3. PICK n \in N : \A k \in N : n <= k
  BY <1>2, Least
<1>4. PICK b \in B : n = Cardinality(b)
  OBVIOUS
<1>5. ASSUME NEW x \in b, b \ {x} \in B PROVE FALSE
  <2>1. Cardinality(b \ {x}) = Cardinality(b) - 1
    BY <1>1, FS_RemoveElement
  <2> QED BY <1>1, <1>3, <1>4, <1>5, <2>1
<1> QED BY <1>1, <1>5

-----------------------------------------------------------------------------
(* Estimates.  The fold that adds the sizes has a solution, which gives the *)
(* same sum whichever message is taken first.                               *)

LEMMA SumExists ==
  ASSUME NEW ms, NEW S, IsFiniteSet(S)
  PROVE  \E sum :
            /\ sum = [s \in SUBSET S |->
                        IF s = {} THEN 0
                        ELSE ms[CHOOSE x \in s : TRUE].size + sum[s \ {CHOOSE x \in s : TRUE}]]
            /\ Estimate(ms, S) = sum[S]
<1> DEFINE n        == Cardinality(S)
           At(f, s) == IF s = {} THEN 0
                       ELSE ms[CHOOSE x \in s : TRUE].size + f[s \ {CHOOSE x \in s : TRUE}]
           Small(m) == {s \in SUBSET S : Cardinality(s) <= m}
           Good     == {m \in 0..n : \E f : f = [s \in Small(m) |-> At(f, s)]}
<1>1. n \in Nat /\ \A s \in SUBSET S : Cardinality(s) \in 0..n /\ IsFiniteSet(s)
  BY FS_CardinalityType, FS_Subset
<1>2. 0 \in Good
  <2> DEFINE f == [s \in Small(0) |-> 0]
  <2>1. \A s \in Small(0) : s = {}
    BY <1>1, FS_EmptySet
  <2>2. f = [s \in Small(0) |-> At(f, s)]
    <3>1. \A s \in Small(0) : At(f, s) = 0
      BY <2>1
    <3> HIDE DEF At, Small
    <3> QED BY <3>1
  <2>3. \E g : g = [s \in Small(0) |-> At(g, s)]
    <3> WITNESS f
    <3> QED BY <2>2
  <2> HIDE DEF At, Small
  <2> QED BY <1>1, <2>3
<1>3. ASSUME NEW m \in 0..(n - 1), m \in Good
      PROVE  m + 1 \in Good
  <2>1. PICK f : f = [s \in Small(m) |-> At(f, s)]
    BY <1>3
  <2> DEFINE g == [s \in Small(m + 1) |-> IF s \in Small(m) THEN f[s] ELSE At(f, s)]
  <2>2. ASSUME NEW s \in Small(m + 1) PROVE g[s] = At(g, s)
    <3> DEFINE x == CHOOSE y \in s : TRUE
               r == s \ {x}
    <3>1. CASE s = {}
      <4>1. At(f, s) = 0 /\ At(g, s) = 0
        BY <3>1
      <4>2. s \in Small(m)
        BY <3>1, FS_EmptySet
      <4>3. f[s] = At(f, s)
        <5> HIDE DEF At, Small
        <5> QED BY <2>1, <4>2
      <4> HIDE DEF At, Small
      <4> QED BY <4>1, <4>2, <4>3
    <3>2. CASE s # {}
      <4>1. x \in s
        BY <3>2
      <4>2. Cardinality(r) = Cardinality(s) - 1
        BY <1>1, <4>1, FS_RemoveElement
      <4>3. r \in Small(m)
        BY <1>1, <4>2
      <4>4. r \in Small(m + 1)
        BY <1>1, <4>3
      <4>5. g[r] = f[r]
        <5> HIDE DEF At, Small, r
        <5> QED BY <4>3, <4>4
      <4>6. At(g, s) = ms[x].size + g[r]
        <5> HIDE DEF g
        <5> QED BY <3>2
      <4>7. At(f, s) = ms[x].size + f[r]
        BY <3>2
      <4>8. s \in Small(m) => f[s] = At(f, s)
        <5> HIDE DEF At, Small
        <5> QED BY <2>1
      <4>9. g[s] = At(f, s)
        <5> HIDE DEF At, Small
        <5> QED BY <4>8
      <4> HIDE DEF At, g
      <4> QED BY <4>5, <4>6, <4>7, <4>9
    <3> QED BY <3>1, <3>2
  <2>3. g = [s \in Small(m + 1) |-> At(g, s)]
    <3>1. g = [s \in Small(m + 1) |-> g[s]]
      OBVIOUS
    <3> HIDE DEF At, g, Small
    <3> QED BY <2>2, <3>1
  <2>4. m + 1 \in 0..n
    BY <1>1
  <2>5. \E h : h = [s \in Small(m + 1) |-> At(h, s)]
    <3> WITNESS g
    <3> QED BY <2>3
  <2> HIDE DEF At, Small
  <2> QED BY <2>4, <2>5
<1>4. n \in Good
  <2> SUFFICES ASSUME n \notin Good PROVE FALSE
    OBVIOUS
  <2> DEFINE T == (0..n) \ Good
  <2> HIDE DEF Good, n
  <2>1. T \in SUBSET Nat /\ n \in T
    BY <1>1
  <2>2. PICK m \in T : \A k \in T : m <= k
    BY <2>1, Least
  <2>3. m # 0 /\ m - 1 \in 0..(n - 1) /\ m - 1 \notin T
    BY <1>1, <1>2, <2>2
  <2>4. m - 1 \in Good /\ (m - 1) + 1 = m
    BY <1>1, <2>3
  <2> QED BY <1>3, <2>3, <2>4
<1>5. Small(n) = SUBSET S
  BY <1>1
<1>6. \E f : f = [s \in SUBSET S |-> At(f, s)]
  <2> HIDE DEF At, Small
  <2> QED BY <1>4, <1>5
<1> DEFINE sum == CHOOSE f : f = [s \in SUBSET S |-> At(f, s)]
<1>7. sum = [s \in SUBSET S |-> At(sum, s)]
  <2> HIDE DEF At
  <2> QED BY <1>6
<1>8. Estimate(ms, S) = sum[S]
  BY DEF Estimate, MapThenSumSet, MapThenFoldSet
<1> HIDE DEF sum
<1> QED BY <1>7, <1>8

SizesIn(ms, S) == \A i \in S : ms[i].size \in Nat

Sums(sum, ms, S) ==
    /\ sum[{}] = 0
    /\ \A T \in SUBSET S : /\ sum[T] \in Nat /\ Estimate(ms, T) = sum[T]
                           /\ \A x \in T : sum[T] = ms[x].size + sum[T \ {x}]

LEMMA SumsAgree ==
  ASSUME NEW ms, NEW S, IsFiniteSet(S), SizesIn(ms, S)
  PROVE  \E sum : Sums(sum, ms, S)
<1> DEFINE Pick(s)  == CHOOSE x \in s : TRUE
           At(f, s) == IF s = {} THEN 0 ELSE ms[Pick(s)].size + f[s \ {Pick(s)}]
<1>1. ASSUME NEW T \in SUBSET S
      PROVE  \E f : f = [s \in SUBSET T |-> At(f, s)] /\ Estimate(ms, T) = f[T]
  BY FS_Subset, SumExists
<1>2. PICK sum : sum = [s \in SUBSET S |-> At(sum, s)]
  <2>1. S \in SUBSET S
    OBVIOUS
  <2> HIDE DEF At
  <2> QED BY <1>1, <2>1
<1>3. \A s \in SUBSET S : sum[s] = At(sum, s)
  <2> HIDE DEF At
  <2> QED BY <1>2
<1>4. sum[{}] = 0
  BY <1>3
<1>5. \A s \in SUBSET S : s # {} =>
         Pick(s) \in s /\ sum[s] = ms[Pick(s)].size + sum[s \ {Pick(s)}]
  BY <1>3
<1> HIDE DEF Pick
<1>6. ASSUME NEW T \in SUBSET S
      PROVE  sum[T] \in Nat
  <2> DEFINE B == {s \in SUBSET S : sum[s] \notin Nat}
  <2> SUFFICES ASSUME B # {} PROVE FALSE
    OBVIOUS
  <2>1. PICK s \in B : \A x \in s : s \ {x} \notin B
    BY Smallest
  <2>2. s # {}
    BY <1>4, <2>1
  <2>3. Pick(s) \in s /\ sum[s] = ms[Pick(s)].size + sum[s \ {Pick(s)}]
    BY <1>5, <2>2
  <2>4. sum[s \ {Pick(s)}] \in Nat
    BY <2>1, <2>3
  <2> QED BY <2>1, <2>3, <2>4 DEF SizesIn
<1>7. ASSUME NEW T \in SUBSET S
      PROVE  Estimate(ms, T) = sum[T]
  <2>1. PICK f : f = [s \in SUBSET T |-> At(f, s)] /\ Estimate(ms, T) = f[T]
    BY <1>1
  <2>2. \A s \in SUBSET T : f[s] = At(f, s)
    <3> HIDE DEF At
    <3> QED BY <2>1
  <2> DEFINE B == {s \in SUBSET T : f[s] # sum[s]}
  <2> SUFFICES ASSUME B # {} PROVE FALSE
    BY <2>1
  <2>3. IsFiniteSet(T)
    BY FS_Subset
  <2>4. PICK s \in B : \A x \in s : s \ {x} \notin B
    BY <2>3, Smallest
  <2>5. s # {}
    BY <1>4, <2>2, <2>4
  <2>6. Pick(s) \in s /\ s \in SUBSET S /\ sum[s] = ms[Pick(s)].size + sum[s \ {Pick(s)}]
    BY <1>5, <2>4, <2>5
  <2>7. f[s \ {Pick(s)}] = sum[s \ {Pick(s)}]
    BY <2>4, <2>6
  <2>8. f[s] = ms[Pick(s)].size + f[s \ {Pick(s)}]
    BY <2>2, <2>4, <2>5
  <2> QED BY <2>4, <2>6, <2>7, <2>8
<1>8. ASSUME NEW T \in SUBSET S, NEW x \in T
      PROVE  sum[T] = ms[x].size + sum[T \ {x}]
  <2> DEFINE B == {s \in SUBSET S : \E y \in s : sum[s] # ms[y].size + sum[s \ {y}]}
  <2> SUFFICES ASSUME B # {} PROVE FALSE
    OBVIOUS
  <2>1. PICK s \in B : \A y \in s : s \ {y} \notin B
    BY Smallest
  <2>2. PICK y \in s : sum[s] # ms[y].size + sum[s \ {y}]
    BY <2>1
  <2> DEFINE z == Pick(s)
  <2>3. z \in s /\ sum[s] = ms[z].size + sum[s \ {z}]
    BY <1>5, <2>1, <2>2
  <2>4. z # y
    BY <2>2, <2>3
  <2>5. s \ {z} \in SUBSET S /\ s \ {y} \in SUBSET S /\ y \in s \ {z} /\ z \in s \ {y}
    BY <2>1, <2>2, <2>3, <2>4
  <2>6. sum[s \ {z}] = ms[y].size + sum[(s \ {z}) \ {y}]
    BY <2>1, <2>3, <2>5
  <2>7. sum[s \ {y}] = ms[z].size + sum[(s \ {y}) \ {z}]
    BY <2>1, <2>2, <2>5
  <2>8. (s \ {z}) \ {y} = (s \ {y}) \ {z}
    OBVIOUS
  <2>9. /\ ms[y].size \in Nat /\ ms[z].size \in Nat /\ sum[(s \ {y}) \ {z}] \in Nat
        /\ sum[s \ {z}] \in Nat /\ sum[s \ {y}] \in Nat
    BY <1>6, <2>1, <2>3, <2>5 DEF SizesIn
  <2> HIDE DEF z, B
  <2>10. sum[s] = ms[y].size + sum[s \ {y}]
    BY <2>3, <2>6, <2>7, <2>8, <2>9
  <2> QED BY <2>2, <2>10
<1> QED BY <1>4, <1>6, <1>7, <1>8 DEF Sums

LEMMA EstimateOne ==
  ASSUME NEW ms, NEW S, IsFiniteSet(S), SizesIn(ms, S)
  PROVE  /\ Estimate(ms, S) \in Nat
         /\ S = {} => Estimate(ms, S) = 0
         /\ \A x \in S : Estimate(ms, S) = ms[x].size + Estimate(ms, S \ {x})
<1>1. PICK sum : Sums(sum, ms, S)
  BY SumsAgree
<1>2. S \in SUBSET S /\ \A x \in S : S \ {x} \in SUBSET S
  OBVIOUS
<1> QED BY <1>1, <1>2 DEF Sums

(* More messages cost no less.                                              *)
LEMMA EstimateGrows ==
  ASSUME NEW ms, NEW more, NEW S, NEW T \in SUBSET S, IsFiniteSet(S),
         SizesIn(more, S), \A i \in T : more[i].size = ms[i].size
  PROVE  Estimate(ms, T) <= Estimate(more, S)
<1>1. SizesIn(ms, T)
  BY DEF SizesIn
<1> DEFINE B == {b \in SUBSET T : ~(Estimate(ms, b) <= Estimate(more, b \cup (S \ T)))}
<1> SUFFICES ASSUME B # {} PROVE FALSE
  <2>1. T \cup (S \ T) = S /\ T \in SUBSET T
    OBVIOUS
  <2> QED BY <2>1
<1>2. IsFiniteSet(T)
  BY FS_Subset
<1>3. PICK b \in B : IsFiniteSet(b) /\ \A x \in b : b \ {x} \notin B
  BY <1>2, Smallest
<1> DEFINE c == b \cup (S \ T)
<1>4. /\ IsFiniteSet(c) /\ SizesIn(more, c) /\ SizesIn(ms, b)
  <2>1. c \in SUBSET S
    BY <1>3
  <2> QED BY <1>1, <1>3, <2>1, FS_Subset DEF SizesIn
<1>5. b # {}
  <2> SUFFICES ASSUME b = {} PROVE FALSE
    OBVIOUS
  <2>1. Estimate(ms, b) = 0 /\ Estimate(more, c) \in Nat
    BY <1>4, <1>3, EstimateOne
  <2> QED BY <1>3, <2>1
<1>6. PICK x \in b : TRUE
  BY <1>5
<1>7. Estimate(ms, b \ {x}) <= Estimate(more, (b \ {x}) \cup (S \ T))
  BY <1>3
<1>8. (b \ {x}) \cup (S \ T) = c \ {x} /\ x \in c
  BY <1>3
<1>9. /\ Estimate(ms, b) = ms[x].size + Estimate(ms, b \ {x})
      /\ Estimate(more, c) = more[x].size + Estimate(more, c \ {x})
  BY <1>3, <1>4, <1>8, EstimateOne
<1>10. /\ Estimate(ms, b \ {x}) \in Nat /\ Estimate(more, c \ {x}) \in Nat
       /\ ms[x].size = more[x].size /\ ms[x].size \in Nat
  <2>1. IsFiniteSet(b \ {x}) /\ IsFiniteSet(c \ {x})
    BY <1>3, <1>4, FS_RemoveElement
  <2>2. SizesIn(ms, b \ {x}) /\ SizesIn(more, c \ {x})
    BY <1>4 DEF SizesIn
  <2> QED BY <1>1, <1>3, <2>1, <2>2, EstimateOne DEF SizesIn
<1>11. Estimate(ms, b) <= Estimate(more, c)
  <2> HIDE DEF c
  <2> QED BY <1>7, <1>8, <1>9, <1>10
<1> QED BY <1>3, <1>11

-----------------------------------------------------------------------------
(* Conversations: blocks, and what more messages change of them.            *)

LEMMA Concatenated ==
  ASSUME NEW ms \in Conversation, NEW more \in Conversation
  PROVE  /\ ms \o more \in Conversation
         /\ Len(ms) \in Nat /\ Len(more) \in Nat /\ Len(ms \o more) = Len(ms) + Len(more)
         /\ DOMAIN ms = 1..Len(ms) /\ DOMAIN more = 1..Len(more)
         /\ DOMAIN (ms \o more) = 1..(Len(ms) + Len(more))
         /\ \A i \in 1..Len(ms) : (ms \o more)[i] = ms[i]
         /\ \A i \in DOMAIN more : (ms \o more)[Len(ms) + i] = more[i]
         /\ ms = <<>> <=> Len(ms) = 0
         /\ \A i \in 1..Len(ms) : ms[i] \in MessageType
  BY DEF Conversation

LEMMA Blocks ==
  ASSUME NEW ms \in Conversation, ms # <<>>
  PROVE  /\ Starts(ms) \in SUBSET 1..Len(ms) /\ Newest(ms) \in Starts(ms)
         /\ \A i \in Starts(ms) : i <= Newest(ms)
<1>1. Len(ms) \in Nat /\ DOMAIN ms = 1..Len(ms) /\ 1 \in 1..Len(ms)
  BY DEF Conversation
<1>2. Starts(ms) \in SUBSET 1..Len(ms)
  BY <1>1 DEF Starts
<1>3. 1 \in Starts(ms)
  BY <1>1 DEF Starts, StartsBlock
<1> QED BY <1>1, <1>2, <1>3, MaxIs DEF Newest

LEMMA Places ==
  ASSUME NEW ms \in Conversation, ms # <<>>
  PROVE  /\ Newest(ms) \in Starts(ms) /\ Newest(ms) \in 1..Len(ms)
         /\ \A i \in Starts(ms) : i \in 1..Len(ms) /\ i <= Newest(ms)
<1>1. /\ Starts(ms) \in SUBSET 1..Len(ms) /\ Newest(ms) \in Starts(ms)
      /\ \A i \in Starts(ms) : i <= Newest(ms)
  BY Blocks
<1> QED BY <1>1

(* What was said keeps its blocks, and costs more the more follows it.      *)
LEMMA BlocksStay ==
  ASSUME NEW ms \in Conversation, ms # <<>>, NEW more \in Conversation
  PROVE  /\ Starts(ms \o more) \cap 1..Len(ms) = Starts(ms)
         /\ Newest(ms) <= Newest(ms \o more)
         /\ \A i \in 1..Len(ms) : Estimate(ms, Onward(ms, i))
                                    <= Estimate(ms \o more, Onward(ms \o more, i))
<1> DEFINE all == ms \o more
           n   == Len(ms)
<1>1. /\ all \in Conversation /\ n \in Nat /\ DOMAIN ms = 1..n /\ 1..n \subseteq DOMAIN all
      /\ \A i \in 1..n : all[i] = ms[i]
      /\ Len(all) \in Nat /\ n <= Len(all) /\ all # <<>>
  <2>1. /\ all \in Conversation /\ n \in Nat /\ Len(more) \in Nat /\ n # 0
        /\ Len(all) = n + Len(more) /\ DOMAIN ms = 1..n /\ DOMAIN all = 1..(n + Len(more))
        /\ \A i \in 1..n : all[i] = ms[i]
    BY Concatenated, Zenon
  <2>2. Len(all) # 0
    BY <2>1
  <2>3. <<>> \in Conversation => all # <<>>
    BY <2>1, <2>2
  <2>4. 1..n \subseteq DOMAIN all /\ Len(all) \in Nat /\ n <= Len(all)
    <3> HIDE DEF n, all
    <3> QED BY <2>1
  <2>5. all # <<>>
    BY <2>2
  <2> QED BY <2>1, <2>4, <2>5
<1> HIDE DEF all, n
<1>2. \A i \in 1..n : StartsBlock(all, i) <=> StartsBlock(ms, i)
  <2> SUFFICES ASSUME NEW i \in 1..n PROVE StartsBlock(all, i) <=> StartsBlock(ms, i)
    OBVIOUS
  <2>1. \A j \in 1..(i - 1) : j \in 1..n /\ \A k \in (j + 1)..i : k \in 1..n
    BY <1>1
  <2> QED BY <1>1, <2>1 DEF StartsBlock
<1>3. Starts(all) \cap 1..n = Starts(ms)
  BY <1>1, <1>2 DEF Starts
<1>4. Newest(ms) <= Newest(all)
  BY <1>1, <1>3, Blocks
<1>5. ASSUME NEW i \in 1..n
      PROVE  Estimate(ms, Onward(ms, i)) <= Estimate(all, Onward(all, i))
  <2>1. Onward(ms, i) \in SUBSET Onward(all, i) /\ Onward(ms, i) \in SUBSET 1..n
    BY <1>1 DEF Onward, n
  <2>2. IsFiniteSet(Onward(all, i))
    BY <1>1, FS_Interval DEF Onward
  <2>3. SizesIn(all, Onward(all, i))
    <3> SUFFICES ASSUME NEW k \in i..Len(all) PROVE all[k].size \in Nat
      BY DEF SizesIn, Onward
    <3>1. k \in 1..Len(all)
      BY <1>1
    <3>2. all[k] \in MessageType
      BY <1>1, <3>1, Concatenated
    <3> QED BY <3>2 DEF MessageType
  <2> QED BY <1>1, <2>1, <2>2, <2>3, EstimateGrows
<1> QED BY <1>3, <1>4, <1>5 DEF all, n

LEMMA RootedStays ==
  ASSUME NEW ms \in Conversation, NEW more \in Conversation, Rooted(ms),
         \/ \A i \in DOMAIN more : more[i].kind # "tool"
         \/ Calling(ms) /\ \A i \in DOMAIN more : more[i].kind = "tool"
  PROVE  Rooted(ms \o more)
<1> DEFINE all == ms \o more
           n   == Len(ms)
<1>1. /\ n \in Nat /\ Len(more) \in Nat /\ DOMAIN ms = 1..n /\ DOMAIN all = 1..(n + Len(more))
      /\ \A i \in 1..n : all[i] = ms[i]
      /\ \A i \in DOMAIN more : all[n + i] = more[i]
      /\ DOMAIN more = 1..Len(more)
      /\ ms = <<>> <=> n = 0
  <2>1. /\ n \in Nat /\ Len(more) \in Nat /\ DOMAIN ms = 1..n
        /\ DOMAIN all = 1..(n + Len(more)) /\ DOMAIN more = 1..Len(more)
    BY Concatenated, Zenon
  <2>2. \A i \in 1..n : all[i] = ms[i]
    BY Concatenated, Zenon
  <2>3. \A i \in DOMAIN more : all[n + i] = more[i]
    BY Concatenated, Zenon
  <2>4. ms = <<>> <=> n = 0
    BY Concatenated, Zenon
  <2> QED BY <2>1, <2>2, <2>3, <2>4
<1>2. SUFFICES ASSUME NEW i \in DOMAIN all, all[i].kind = "tool"
               PROVE  \E j \in 1..(i - 1) : /\ all[j].kind = "call"
                                            /\ \A k \in (j + 1)..i : all[k].kind = "tool"
  BY DEF Rooted
<1> HIDE DEF all, n
<1>3. CASE i \in 1..n
  <2>1. PICK j \in 1..(i - 1) : /\ ms[j].kind = "call"
                                /\ \A k \in (j + 1)..i : ms[k].kind = "tool"
    BY <1>1, <1>2, <1>3 DEF Rooted
  <2>2. j \in 1..n /\ \A k \in (j + 1)..i : k \in 1..n
    BY <1>1, <1>3
  <2> QED BY <1>1, <2>1, <2>2
<1>4. CASE i \notin 1..n
  <2>1. i - n \in DOMAIN more /\ i = n + (i - n) /\ i > n
    BY <1>1, <1>2, <1>4
  <2>2. more[i - n].kind = "tool"
    BY <1>1, <1>2, <2>1
  <2>3. Calling(ms) /\ \A k \in DOMAIN more : more[k].kind = "tool"
    BY <2>1, <2>2
  <2>4. n \in 1..n /\ all[n].kind \in {"call", "tool"}
    BY <1>1, <2>3 DEF Calling, n
  <2>5. \A k \in (n + 1)..i : all[k].kind = "tool"
    <3> SUFFICES ASSUME NEW k \in (n + 1)..i PROVE all[k].kind = "tool"
      OBVIOUS
    <3>1. k - n \in DOMAIN more /\ k = n + (k - n)
      BY <1>1, <1>2
    <3> QED BY <1>1, <2>3, <3>1
  <2>6. CASE all[n].kind = "call"
    <3>1. n \in 1..(i - 1)
      BY <1>1, <2>1, <2>4
    <3> QED BY <2>5, <2>6, <3>1
  <2>7. CASE all[n].kind = "tool"
    <3>1. ms[n].kind = "tool"
      BY <1>1, <2>4, <2>7
    <3>2. PICK j \in 1..(n - 1) : /\ ms[j].kind = "call"
                                  /\ \A k \in (j + 1)..n : ms[k].kind = "tool"
      BY <1>1, <2>4, <3>1 DEF Rooted
    <3>3. j \in 1..(i - 1) /\ j \in 1..n
      BY <1>1, <2>1
    <3>4. \A k \in (j + 1)..i : all[k].kind = "tool"
      <4> SUFFICES ASSUME NEW k \in (j + 1)..i PROVE all[k].kind = "tool"
        OBVIOUS
      <4>1. k \in (j + 1)..n \/ k \in (n + 1)..i
        BY <1>1, <1>2, <3>3
      <4>2. k \in (j + 1)..n => k \in 1..n
        BY <3>3
      <4> QED BY <1>1, <2>5, <3>2, <4>1, <4>2
    <3> QED BY <1>1, <3>2, <3>3, <3>4
  <2> QED BY <2>4, <2>6, <2>7
<1> QED BY <1>3, <1>4

(* From the start of a block on, no output is without its call.             *)
LEMMA WholeFrom ==
  ASSUME NEW ms \in Conversation, Rooted(ms), NEW from \in Starts(ms),
         NEW i \in from..Len(ms), ms[i].kind = "tool"
  PROVE  \E j \in from..(i - 1) : ms[j].kind = "call"
<1>1. Len(ms) \in Nat /\ DOMAIN ms = 1..Len(ms) /\ from \in 1..Len(ms) /\ StartsBlock(ms, from)
  BY DEF Starts, Conversation
<1>2. i \in 1..Len(ms)
  BY <1>1
<1>3. PICK j \in 1..(i - 1) : /\ ms[j].kind = "call"
                              /\ \A k \in (j + 1)..i : ms[k].kind = "tool"
  BY <1>1, <1>2 DEF Rooted
<1>4. j >= from
  <2> SUFFICES ASSUME j < from PROVE FALSE
    BY <1>1, <1>3
  <2>1. j \in 1..(from - 1) /\ \A k \in (j + 1)..from : k \in (j + 1)..i
    BY <1>1, <1>2
  <2> QED BY <1>1, <1>3, <2>1 DEF StartsBlock
<1> QED BY <1>1, <1>2, <1>3, <1>4

-----------------------------------------------------------------------------
(* Budgets, and what build selects.                                         *)

IsConfig(c) == c.max \in Nat /\ c.summary \in Nat /\ c.compacts \in BOOLEAN

LEMMA MinOfTwo ==
  ASSUME NEW a \in Int, NEW b \in Int
  PROVE  Min({a, b}) = IF a <= b THEN a ELSE b
<1> DEFINE m == IF a <= b THEN a ELSE b
<1>1. m \in {a, b} /\ \A y \in {a, b} : m =< y
  OBVIOUS
<1>2. \A x \in {a, b} : (\A y \in {a, b} : x =< y) => x = m
  OBVIOUS
<1> HIDE DEF m
<1>3. Min({a, b}) = m
  BY <1>1, <1>2 DEF Min
<1> QED BY <1>3 DEF m

LEMMA Budgets ==
  ASSUME NEW c, IsConfig(c)
  PROVE  /\ Budget(c) \in Int /\ SummaryBudget(c) \in Int /\ HistoryBudget(c) \in Int
         /\ Budget(c) = c.max - SystemSize /\ SystemSize \in Nat
         /\ HistoryBudget(c) + SummaryBudget(c) = Budget(c)
         /\ SystemSize < c.max =>
               /\ Budget(c) \in Nat /\ SummaryBudget(c) \in Nat /\ HistoryBudget(c) \in Nat
<1>1. SystemSize \in Nat
  BY SizesAssumption
<1>2. Budget(c) \in Int /\ Budget(c) = c.max - SystemSize
  BY <1>1 DEF IsConfig, Budget
<1>3. Min({c.summary, Budget(c)}) = IF c.summary <= Budget(c) THEN c.summary ELSE Budget(c)
  BY <1>2, MinOfTwo DEF IsConfig
<1> QED BY <1>1, <1>2, <1>3 DEF IsConfig, SummaryBudget, HistoryBudget

LEMMA Estimates ==
  ASSUME NEW ms \in Conversation, NEW i \in 1..Len(ms)
  PROVE  Estimate(ms, Onward(ms, i)) \in Nat /\ Estimate(Elided(ms), Onward(ms, i)) \in Nat
<1>1. Len(ms) \in Nat /\ DOMAIN ms = 1..Len(ms) /\ \A k \in 1..Len(ms) : ms[k] \in MessageType
  BY Concatenated
<1>2. IsFiniteSet(Onward(ms, i)) /\ Onward(ms, i) \in SUBSET 1..Len(ms)
  BY <1>1, FS_Interval DEF Onward
<1>3. SizesIn(ms, Onward(ms, i))
  BY <1>1, <1>2 DEF SizesIn, MessageType
<1>4. SizesIn(Elided(ms), Onward(ms, i))
  <2> SUFFICES ASSUME NEW k \in 1..Len(ms) PROVE Elided(ms)[k].size \in Nat
    BY <1>2 DEF SizesIn
  <2>1. Elided(ms)[k] = IF ms[k].kind = "tool" THEN [ms[k] EXCEPT !.size = ElidedSize] ELSE ms[k]
    BY <1>1 DEF Elided
  <2> QED BY <1>1, <2>1, SizesAssumption DEF MessageType
<1> QED BY <1>2, <1>3, <1>4, EstimateOne

LEMMA Selected ==
  ASSUME NEW c, IsConfig(c), NEW ms \in Conversation, ms # <<>>, ~Refuses(c, ms)
  PROVE  Selects(c, ms, Selection(c, ms)) /\ SystemSize < c.max
<1>1. /\ Budget(c) \in Nat /\ HistoryBudget(c) \in Nat /\ HistoryBudget(c) <= Budget(c)
      /\ SystemSize < c.max
  BY Budgets DEF Refuses, IsConfig
<1>2. /\ Starts(ms) \in SUBSET 1..Len(ms) /\ Len(ms) \in Nat /\ Newest(ms) \in Starts(ms)
      /\ \A i \in Starts(ms) : i <= Newest(ms)
  BY Blocks, Concatenated
<1>3. \A i \in Starts(ms) : Estimate(ms, Onward(ms, i)) \in Nat
  BY <1>2, Estimates
<1> DEFINE fitting == {i \in Starts(ms) : Fits(c, ms, i)}
<1>4. \A i \in Starts(ms) : i \notin fitting /\ i # Newest(ms) =>
                               Estimate(ms, Onward(ms, i)) > HistoryBudget(c)
  BY <1>1, <1>3 DEF Fits
<1>5. CASE fitting = {}
  <2>1. Selection(c, ms) = Reduced(c, ms)
    BY <1>5 DEF Selection
  <2>2. /\ Reduced(c, ms).from = Newest(ms)
        /\ Reduced(c, ms).size \in Nat /\ Reduced(c, ms).size <= Budget(c)
    BY <1>1, <1>2, Estimates, SizesAssumption DEF Reduced
  <2>3. \A i \in Starts(ms) : i < Newest(ms) => Estimate(ms, Onward(ms, i)) > HistoryBudget(c)
    BY <1>2, <1>4, <1>5
  <2> QED BY <1>1, <1>2, <2>1, <2>2, <2>3 DEF Selects
<1>6. CASE fitting # {}
  <2>1. fitting \in SUBSET Nat
    BY <1>2
  <2> DEFINE from == Min(fitting)
  <2>2. from \in fitting /\ \A i \in fitting : from <= i
    BY <1>6, <2>1, MinIs
  <2>3. Selection(c, ms).from = from
        /\ Selection(c, ms).size = Estimate(ms, Onward(ms, from))
    BY <1>6 DEF Selection
  <2> HIDE DEF from
  <2>4. \A i \in Starts(ms) : i < from => i \notin fitting /\ i # Newest(ms)
    BY <1>2, <2>1, <2>2
  <2>5. /\ Estimate(ms, Onward(ms, from)) \in Nat
        /\ Estimate(ms, Onward(ms, from)) <= Budget(c)
        /\ from # Newest(ms) => Estimate(ms, Onward(ms, from)) <= HistoryBudget(c)
    BY <1>1, <1>3, <2>2 DEF Fits
  <2> QED BY <1>1, <1>4, <2>2, <2>3, <2>4, <2>5 DEF Selects
<1> QED BY <1>5, <1>6

-----------------------------------------------------------------------------
(* The context invariant.                                                   *)

LEMMA Configured ==
  ASSUME setting \in Settings, NEW c \in setting.configs
  PROVE  IsConfig(c)
BY SettingsAssumption DEF IsConfig

LEMMA NothingSaid ==
  /\ <<>> \in Conversation /\ Rooted(<<>>) /\ Len(<<>>) = 0
  /\ \A ms \in Conversation : ms \o <<>> = ms
BY DEF Conversation, Rooted

LEMMA ContextStarts == Init => ContextInv
<1> SUFFICES ASSUME Init PROVE ContextInv
  OBVIOUS
<1> USE DEF Init
<1>1. messages = <<>> /\ thread \in [life : Nat, revision : Nat, messages : Conversation]
  BY NothingSaid DEF messages, Fresh
<1>2. Talking
  BY <1>1, NothingSaid DEF Talking
<1>3. Resting
  BY <1>1, NothingSaid DEF Resting, NotBuilt
<1>4. Summarizing
  BY DEF Summarizing, NoCache, NotBuilt
<1>5. IsContext(built)
  BY DEF IsContext, NotBuilt
<1> QED BY <1>2, <1>3, <1>4, <1>5 DEF ContextInv, Phases

(* The thread is found to be deleted.                                       *)
LEMMA GoneKeeps ==
  ASSUME ContextInv, Gone, phase' = "idle", deleted' = FALSE, built' = NotBuilt,
         cache' \in {cache, NoCache}, exceptions = {} => cache' = NoCache,
         UNCHANGED <<setting, config, exceptions>>
  PROVE  ContextInv'
<1>1. messages' = <<>> /\ thread' \in [life : Nat, revision : Nat, messages : Conversation]
  BY NothingSaid DEF ContextInv, Talking, Gone, messages, Fresh
<1>2. Talking'
  <2>1. Rooted(messages')
    BY <1>1, NothingSaid
  <2> QED BY <1>1, <2>1 DEF Talking, Gone
<1>3. Resting'
  BY <1>1, NothingSaid DEF Resting, NotBuilt
<1>4. Summarizing'
  BY DEF Summarizing, NoCache, NotBuilt, ContextInv
<1>5. IsContext(built)'
  BY DEF IsContext, NotBuilt
<1> QED BY <1>2, <1>3, <1>4, <1>5 DEF ContextInv, Phases

(* An operation that ends leaves what it built, but no context.             *)
LEMMA LeavesKeeps ==
  ASSUME ContextInv, NEW context, Leaves(context),
         IsContext(context), context.status # "built", context.from \in 1..(Len(messages) + 1),
         context.start = 0, context.status = "refused" => context.from = Newest(messages)
  PROVE  ContextInv'
<1>1. CASE deleted
  BY <1>1, GoneKeeps DEF Leaves, ContextInv, Summarizing
<1>2. CASE ~deleted
  <2>1. /\ UNCHANGED <<thread, open, setting, cache, config, exceptions>>
        /\ phase' = "idle" /\ deleted' = FALSE /\ built' = context /\ messages' = messages
    BY <1>2 DEF Leaves, messages
  <2>2. Talking'
    BY <2>1 DEF ContextInv, Talking
  <2>3. Resting'
    BY <2>1 DEF Resting
  <2>4. Covers(cache) => Covers(cache)'
    BY <2>1 DEF Covers, Ids
  <2>5. Summarizing'
    BY <2>1, <2>4 DEF Summarizing, ContextInv
  <2>6. IsContext(built)'
    BY <2>1 DEF IsContext
  <2> QED BY <2>1, <2>2, <2>3, <2>5, <2>6 DEF ContextInv, Phases
<1> QED BY <1>1, <1>2

(* A summary covers what it covered when more was said.                     *)
LEMMA CoversStill ==
  ASSUME ContextInv, NEW summary, Covers(summary), NEW more \in Conversation,
         messages' = messages \o more, thread'.life = thread.life,
         UNCHANGED <<setting, config>>
  PROVE  Covers(summary)'
<1>1. messages \in Conversation /\ Len(messages) \in Nat
      /\ Len(messages') \in Nat /\ Len(messages) <= Len(messages')
      /\ messages # <<>>
  <2>1. messages \in Conversation
    BY DEF ContextInv, Talking, messages
  <2>2. /\ Len(messages) \in Nat /\ Len(more) \in Nat
        /\ Len(messages') = Len(messages) + Len(more)
        /\ messages = <<>> <=> Len(messages) = 0
    BY <2>1, Concatenated, Zenon
  <2>3. summary.covered \in 1..Len(messages)
    BY DEF Covers
  <2> HIDE DEF messages
  <2> QED BY <2>1, <2>2, <2>3
<1> HIDE DEF messages
<1>2. /\ Starts(messages') \cap 1..Len(messages) = Starts(messages)
      /\ Newest(messages) <= Newest(messages')
      /\ \A i \in 1..Len(messages) : Estimate(messages, Onward(messages, i))
                                       <= Estimate(messages', Onward(messages', i))
  BY <1>1, BlocksStay
<1>3. messages' \in Conversation /\ messages' # <<>>
  <2>1. messages' \in Conversation /\ (messages' = <<>> <=> Len(messages') = 0)
    BY <1>1, Concatenated, NothingSaid, Zenon
  <2> QED BY <1>1, <2>1
<1>4. /\ summary.covered \in 1..Len(messages) /\ summary.covered < Newest(messages)
  BY DEF Covers
<1>5. Newest(messages) \in 1..Len(messages) /\ Newest(messages') \in 1..Len(messages')
  BY <1>1, <1>3, Places
<1>6. PICK old \in setting.configs :
         /\ old.id = summary.by
         /\ \A i \in Starts(messages) : i <= summary.covered =>
               Estimate(messages, Onward(messages, i)) > HistoryBudget(old)
         /\ config.version = summary.version => HistoryBudget(config) <= HistoryBudget(old)
  BY DEF Covers
<1>7. HistoryBudget(old) \in Int
  BY Configured, Budgets DEF ContextInv
<1>8. ASSUME NEW i \in Starts(messages'), i <= summary.covered
      PROVE  Estimate(messages', Onward(messages', i)) > HistoryBudget(old)
  <2>1. i \in 1..Len(messages') /\ i \in 1..Len(messages)
    <3>1. i \in 1..Len(messages')
      BY <1>3, Places
    <3> QED BY <1>1, <1>4, <1>8, <3>1
  <2>2. i \in Starts(messages)
    BY <1>2, <2>1, <1>8
  <2>3. Estimate(messages, Onward(messages, i)) > HistoryBudget(old)
    BY <1>6, <1>8, <2>2
  <2>4. /\ Estimate(messages, Onward(messages, i)) \in Nat
        /\ Estimate(messages', Onward(messages', i)) \in Nat
    BY <1>1, <1>3, <2>1, Estimates
  <2> QED BY <1>2, <1>7, <2>1, <2>3, <2>4
<1>9. summary.about = Ids(1, summary.covered)'
  BY DEF Covers, Ids
<1>10. summary.covered \in 1..Len(messages') /\ summary.covered < Newest(messages')
  BY <1>1, <1>2, <1>4, <1>5
<1> QED BY <1>6, <1>8, <1>9, <1>10 DEF Covers

(* A commit adds to the conversation, or not even that.                     *)
LEMMA CommitsKeeps ==
  ASSUME ContextInv, NEW more \in Conversation, NEW committed, NEW next,
         Commits(committed, next),
         committed \in [life : Nat, revision : Nat, messages : Conversation],
         committed.life = thread.life, committed.messages = messages \o more,
         Rooted(messages \o more), next \in {"idle", "ready", "tools"},
         messages \o more # <<>>, next = "tools" => Calling(messages \o more)
  PROVE  ContextInv'
<1>1. CASE deleted
  BY <1>1, GoneKeeps DEF Commits, ContextInv, Summarizing
<1>2. CASE ~deleted
  <2>1. /\ UNCHANGED <<setting, cache, config, exceptions>> /\ thread' = committed
        /\ phase' = next /\ deleted' = FALSE /\ built' = NotBuilt
        /\ messages' = messages \o more /\ open' = (next # "idle")
    BY <1>2 DEF Commits, messages
  <2>2. Talking'
    BY <2>1 DEF Talking
  <2>3. Len(messages') \in Nat
    BY <2>1 DEF Conversation, messages
  <2>4. Resting'
    BY <2>1, <2>3 DEF Resting, NotBuilt
  <2>5. Covers(cache) => Covers(cache)'
    BY <2>1, CoversStill
  <2>6. Summarizing'
    BY <2>1, <2>5 DEF Summarizing, ContextInv, NotBuilt
  <2>7. IsContext(built)'
    BY <2>1 DEF IsContext, NotBuilt
  <2> QED BY <2>1, <2>2, <2>4, <2>6, <2>7 DEF ContextInv, Phases
<1> QED BY <1>1, <1>2

(* What the conversation grows by.                                          *)
LEMMA Saying ==
  ASSUME ContextInv
  PROVE  /\ messages \in Conversation /\ thread.life \in Nat /\ thread.revision \in Nat
         /\ \A more \in Conversation, commits \in Nat :
               /\ With(more, commits) \in [life : Nat, revision : Nat, messages : Conversation]
               /\ With(more, commits).life = thread.life
               /\ With(more, commits).messages = messages \o more
<1>1. thread \in [life : Nat, revision : Nat, messages : Conversation]
  BY DEF ContextInv, Talking
<1>2. messages \in Conversation /\ messages = thread.messages
  BY <1>1 DEF messages
<1> SUFFICES ASSUME NEW more \in Conversation, NEW commits \in Nat
             PROVE  /\ With(more, commits) \in [life : Nat, revision : Nat, messages : Conversation]
                    /\ With(more, commits).life = thread.life
                    /\ With(more, commits).messages = messages \o more
  BY <1>1, <1>2
<1>3. thread.messages \o more \in Conversation
  BY <1>2, Concatenated, Zenon
<1> HIDE DEF messages
<1> DEFINE one == [thread EXCEPT !.messages = thread.messages \o more]
<1>4. /\ one \in [life : Nat, revision : Nat, messages : Conversation]
      /\ one.life = thread.life /\ one.messages = thread.messages \o more
      /\ one.revision = thread.revision
  BY <1>1, <1>3
<1>5. With(more, commits) = [one EXCEPT !.revision = thread.revision + commits]
  BY Zenon DEF With, one
<1> HIDE DEF one
<1>6. thread.revision + commits \in Nat
  BY <1>1
<1>7. /\ With(more, commits) \in [life : Nat, revision : Nat, messages : Conversation]
      /\ With(more, commits).life = one.life
      /\ With(more, commits).messages = one.messages
  BY <1>4, <1>5, <1>6
<1> QED BY <1>2, <1>4, <1>7

LEMMA OneMore ==
  ASSUME NEW ms \in Conversation, NEW m \in MessageType
  PROVE  /\ <<m>> \in Conversation /\ ms \o <<m>> # <<>>
         /\ DOMAIN <<m>> = {1} /\ <<m>>[1] = m
         /\ (ms \o <<m>>)[Len(ms \o <<m>>)] = m
<1>1. <<m>> \in Conversation /\ Len(<<m>>) = 1 /\ <<m>>[1] = m /\ DOMAIN <<m>> = {1}
  BY DEF Conversation
<1> DEFINE all == ms \o <<m>>
<1>2. /\ Len(ms) \in Nat /\ Len(all) = Len(ms) + Len(<<m>>)
      /\ \A i \in DOMAIN <<m>> : all[Len(ms) + i] = <<m>>[i]
      /\ all \in Conversation
  BY <1>1, Concatenated, Zenon
<1>3. Len(all) # 0
  <2> HIDE DEF all
  <2> QED BY <1>1, <1>2
<1>4. all # <<>>
  BY <1>3
<1>5. all[Len(all)] = m
  <2> HIDE DEF all
  <2> QED BY <1>1, <1>2
<1> QED BY <1>1, <1>4, <1>5

LEMMA UnansweredIs ==
  ASSUME ContextInv
  PROVE  Unanswered \in Int /\ (Unanswered > 0 => Calling(messages))
<1> DEFINE calling == {i \in DOMAIN messages : messages[i].kind = "call"}
           after   == {i \in DOMAIN messages : \A j \in calling : j < i}
           n       == Len(messages)
<1>1. /\ messages \in Conversation /\ n \in Nat /\ DOMAIN messages = 1..n
      /\ \A i \in 1..n : messages[i] \in MessageType
      /\ messages = <<>> <=> n = 0
  BY Saying, Concatenated
<1> HIDE DEF messages
<1>2. CASE calling = {} \/ \E i \in after : messages[i].kind # "tool"
  BY <1>2 DEF Unanswered
<1>3. CASE calling # {} /\ \A i \in after : messages[i].kind = "tool"
  <2>1. calling \in SUBSET 1..n
    BY <1>1
  <2>2. Max(calling) \in calling /\ \A j \in calling : j <= Max(calling)
    BY <1>1, <1>3, <2>1, MaxIs
  <2>3. Cardinality(after) \in Nat
    <3>1. after \in SUBSET 1..n /\ IsFiniteSet(1..n)
      BY <1>1, FS_Interval
    <3> QED BY <3>1, FS_Subset, FS_CardinalityType
  <2>4. Unanswered = messages[Max(calling)].calls - Cardinality(after)
    BY <1>3 DEF Unanswered
  <2>5. messages[Max(calling)].calls \in Nat
    BY <1>1, <2>2 DEF MessageType
  <2>6. Calling(messages)
    <3>1. n \in 1..n
      BY <1>1, <1>3
    <3>2. n \in after \/ messages[n].kind = "call"
      BY <1>1, <2>1, <3>1
    <3> QED BY <1>1, <1>3, <3>1, <3>2 DEF Calling
  <2> QED BY <2>3, <2>4, <2>5, <2>6
<1> QED BY <1>2, <1>3

LEMMA UserSaysKeeps == ContextInv /\ UserSays => ContextInv'
<1> SUFFICES ASSUME ContextInv, UserSays PROVE ContextInv'
  OBVIOUS
<1>1. PICK size \in setting.sizes : Commits(With(<<Message("user", size, 0)>>, 1), "ready")
  BY DEF UserSays
<1> DEFINE m == Message("user", size, 0)
<1>2. m \in MessageType /\ m.kind = "user"
  BY SettingsAssumption DEF ContextInv, Message, MessageType, Kinds
<1>3. messages \in Conversation /\ Rooted(messages)
  BY Saying DEF ContextInv, Talking
<1> HIDE DEF m, messages
<1>4. <<m>> \in Conversation /\ messages \o <<m>> # <<>> /\ DOMAIN <<m>> = {1} /\ <<m>>[1] = m
  BY <1>2, <1>3, OneMore
<1>5. Rooted(messages \o <<m>>)
  <2>1. \A i \in DOMAIN <<m>> : <<m>>[i].kind # "tool"
    BY <1>2, <1>4
  <2> QED BY <1>3, <1>4, <2>1, RootedStays
<1>6. Commits(With(<<m>>, 1), "ready")
  BY <1>1 DEF m
<1> QED BY <1>4, <1>5, <1>6, Saying, CommitsKeeps

LEMMA RecoversKeeps == ContextInv /\ Recovers => ContextInv'
<1> SUFFICES ASSUME ContextInv, Recovers PROVE ContextInv'
  OBVIOUS
<1>1. /\ UNCHANGED <<setting, thread, deleted, open, cache, config, exceptions>>
      /\ built' = NotBuilt /\ messages' = messages /\ phase' \in {"tools", "ready"}
      /\ phase' = "tools" => Unanswered > 0
  BY DEF Recovers, messages
<1>2. Talking'
  BY <1>1, UnansweredIs DEF ContextInv, Talking, Recovers
<1>3. Len(messages') \in Nat
  BY <1>1, Saying, Concatenated
<1>4. Resting'
  BY <1>1, <1>3 DEF Resting, NotBuilt
<1>5. IsContext(built)'
  BY <1>1 DEF IsContext, NotBuilt
<1>6. Covers(cache) => Covers(cache)'
  BY <1>1 DEF Covers, Ids
<1>7. Summarizing'
  BY <1>1, <1>6 DEF Summarizing, ContextInv, NotBuilt
<1> QED BY <1>1, <1>2, <1>4, <1>5, <1>7 DEF ContextInv, Phases

-----------------------------------------------------------------------------
(* Building a context.                                                      *)

(* Where a build begins: with the blocks it selects.                        *)
LEMMA From ==
  ASSUME ContextInv, messages # <<>>, NEW s, Selects(config, messages, s)
  PROVE  /\ s.from \in 1..Len(messages) /\ s.from <= Newest(messages)
         /\ Newest(messages) \in 1..Len(messages) /\ Len(messages) \in Nat
<1>1. messages \in Conversation /\ Len(messages) \in Nat
  BY Saying, Concatenated
<1>2. s.from \in Starts(messages)
  BY DEF Selects
<1> QED BY <1>1, <1>2, Places

(* A build omits all that a summary of its version is about.                *)
LEMMA OmitsNoLess ==
  ASSUME ContextInv, messages # <<>>, NEW s, Selects(config, messages, s),
         exceptions = {}, SameVersion(cache, config)
  PROVE  cache.covered <= s.from - 1
<1>1. Covers(cache)
  BY DEF SameVersion, ContextInv, Summarizing
<1>2. PICK old \in setting.configs :
         /\ \A i \in Starts(messages) : i <= cache.covered =>
               Estimate(messages, Onward(messages, i)) > HistoryBudget(old)
         /\ config.version = cache.version => HistoryBudget(config) <= HistoryBudget(old)
  BY <1>1 DEF Covers
<1>3. HistoryBudget(old) \in Int /\ HistoryBudget(config) \in Int
  BY Configured, Budgets DEF ContextInv
<1>4. HistoryBudget(config) <= HistoryBudget(old)
  BY <1>2 DEF SameVersion
<1>5. cache.covered \in 1..Len(messages) /\ cache.covered < Newest(messages)
  BY <1>1 DEF Covers
<1>6. /\ s.from \in 1..Len(messages) /\ Newest(messages) \in 1..Len(messages)
      /\ Len(messages) \in Nat
  BY From
<1> SUFFICES ASSUME s.from <= cache.covered PROVE FALSE
  BY <1>5, <1>6
<1>7. s.from # Newest(messages)
  BY <1>5, <1>6
<1>8. s.size \in Nat /\ s.size = Estimate(messages, Onward(messages, s.from))
      /\ s.size <= HistoryBudget(config) /\ s.from \in Starts(messages)
  BY <1>7 DEF Selects
<1>9. s.size > HistoryBudget(old)
  BY <1>2, <1>8
<1> QED BY <1>3, <1>4, <1>8, <1>9

LEMMA StartIs ==
  ASSUME NEW omitted \in Nat, cache.covered \in Nat
  PROVE  /\ Start(cache, config, omitted) \in 0..omitted
         /\ SameVersion(cache, config) /\ cache.covered <= omitted =>
               Start(cache, config, omitted) = cache.covered
         /\ ~SameVersion(cache, config) => Start(cache, config, omitted) = 0
<1>1. Min({cache.covered, omitted}) = IF cache.covered <= omitted THEN cache.covered ELSE omitted
  BY MinOfTwo
<1> QED BY <1>1 DEF Start

LEMMA EmptyContext ==
  /\ IsContext(NotBuilt) /\ NotBuilt.status = "none" /\ NotBuilt.from = 1 /\ NotBuilt.start = 0
  /\ NotBuilt.size = 0 /\ NotBuilt.cached = NoCache /\ NotBuilt.summary = NoCache
  /\ NoCache.size = 0 /\ NoCache.covered = 0 /\ NoCache.about = {}
BY DEF IsContext, NotBuilt, NoCache

(* A summary is accepted if it fits beside what was selected.               *)
LEMMA SummarizedKeeps ==
  ASSUME ContextInv, phase \in {"ready", "compacting"}, messages # <<>>,
         NEW context, NEW size \in Nat, NEW about, Summarized(context, size, about),
         IsContext(context), SystemSize < config.max,
         Selects(config, messages, context), context.from > 1, context.start = 0,
         exceptions = {} => about = Ids(1, context.from - 1)
  PROVE  ContextInv'
<1>1. /\ context.from \in 1..Len(messages) /\ context.from <= Newest(messages)
      /\ Len(messages) \in Nat
  BY From
<1>2. /\ Budget(config) \in Int /\ SummaryBudget(config) \in Int /\ HistoryBudget(config) \in Int
      /\ Budget(config) = config.max - SystemSize /\ SystemSize \in Nat /\ config.max \in Nat
      /\ HistoryBudget(config) + SummaryBudget(config) = Budget(config)
  BY Configured, Budgets DEF ContextInv, IsConfig
<1>3. /\ context.size \in Nat
      /\ context.from # Newest(messages) => context.size <= HistoryBudget(config)
  BY DEF Selects
<1>4. CASE SummaryAccepted(config, context.size, size)
  <2> DEFINE summary == [revision |-> thread.revision, version |-> config.version,
                         covered |-> context.from - 1, size |-> size,
                         about |-> about, by |-> config.id]
  <2>1. /\ built' = [context EXCEPT !.status = "built", !.summary = summary]
        /\ phase' = "saving"
        /\ UNCHANGED <<setting, thread, deleted, open, cache, config, exceptions>>
        /\ messages' = messages
    BY <1>4 DEF Summarized, messages
  <2>2. built' = [status |-> "built", from |-> context.from, newest |-> context.newest,
                  size |-> context.size, start |-> context.start, cached |-> context.cached,
                  summary |-> summary]
    <3> HIDE DEF summary
    <3> QED BY <2>1 DEF IsContext
  <2>3. IsContext(built)'
    <3> HIDE DEF summary
    <3> QED BY <2>2 DEF IsContext
  <2>4. /\ built'.status = "built" /\ built'.from = context.from /\ built'.size = context.size
        /\ built'.start = 0 /\ built'.summary = summary
    <3> HIDE DEF summary
    <3> QED BY <2>2
  <2>5. /\ summary.size = size /\ summary.covered = context.from - 1
        /\ summary.about = about /\ summary.by = config.id
    OBVIOUS
  <2> HIDE DEF summary
  <2>6. Selects(config, messages, built)'
    BY <2>1, <2>4 DEF Selects
  <2>7. SystemSize + size + context.size <= config.max
    BY <1>2, <1>3, <1>4 DEF SummaryAccepted
  <2>8. Selecting'
    BY <1>1, <2>1, <2>4, <2>5, <2>6, <2>7 DEF Selecting
  <2>9. Talking'
    BY <2>1 DEF ContextInv, Talking
  <2>10. Covers(cache) => Covers(cache)'
    BY <2>1 DEF Covers, Ids
  <2>11. Ids(1, context.from - 1)' = Ids(1, context.from - 1)
    BY <2>1 DEF Ids
  <2>12. Summarizing'
    BY <2>1, <2>4, <2>5, <2>10, <2>11 DEF Summarizing, ContextInv, Ids
  <2> QED BY <2>1, <2>3, <2>8, <2>9, <2>12 DEF ContextInv, Phases
<1>5. CASE ~SummaryAccepted(config, context.size, size)
  <2> DEFINE status == IF size > SummaryBudget(config) THEN "violated" ELSE "refused"
             left   == [NotBuilt EXCEPT !.status = status, !.from = context.from]
  <2>1. Leaves(left)
    BY <1>5 DEF Summarized
  <2>2. /\ IsContext(left) /\ left.from = context.from /\ left.start = 0
        /\ left.status = status
    <3>1. left = [NotBuilt EXCEPT !.status = status, !.from = context.from]
      OBVIOUS
    <3> HIDE DEF left, status
    <3>2. left = [status |-> status, from |-> context.from, newest |-> NotBuilt.newest,
                  size |-> NotBuilt.size, start |-> NotBuilt.start,
                  cached |-> NotBuilt.cached, summary |-> NotBuilt.summary]
      BY <3>1, EmptyContext DEF IsContext
    <3> QED BY <3>2, EmptyContext DEF IsContext
  <2> HIDE DEF left
  <2>3. left.status = "refused" => context.from = Newest(messages)
    BY <1>2, <1>3, <1>5, <2>2 DEF SummaryAccepted
  <2> QED BY <1>1, <2>1, <2>2, <2>3, LeavesKeeps
<1> QED BY <1>4, <1>5

(* A context without a summary, or with one to be asked for.                *)
LEMMA SelectedKeeps ==
  ASSUME ContextInv, messages # <<>>, SystemSize < config.max,
         UNCHANGED <<setting, thread, deleted, open, cache, config, exceptions>>,
         IsContext(built'), Selects(config, messages, built'),
         \/ /\ phase' = "sending" /\ built'.status = "built" /\ built'.start = 0
            /\ built'.summary = NoCache /\ (built'.from > 1 => ~config.compacts)
         \/ /\ phase' = "compacting" /\ built'.status = "none" /\ config.compacts
            /\ built'.from > 1 /\ built'.start \in 0..(built'.from - 1)
            /\ exceptions = {} => built'.cached.about = Ids(1, built'.start)
  PROVE  ContextInv'
<1>1. messages' = messages
  BY DEF messages
<1>2. /\ built'.from \in 1..Len(messages) /\ Len(messages) \in Nat
  BY From
<1>3. /\ built'.size \in Nat /\ built'.size <= config.max - SystemSize
      /\ SystemSize \in Nat /\ config.max \in Nat
  BY Configured, Budgets DEF Selects, ContextInv, IsConfig
<1>4. Selects(config, messages, built)'
  BY <1>1 DEF Selects
<1>5. Talking'
  BY <1>1 DEF Talking, ContextInv
<1>6. Covers(cache) => Covers(cache)'
  BY <1>1 DEF Covers, Ids
<1>7. Ids(1, built'.start) = Ids(1, built.start)'
  BY DEF Ids
<1>8. Selecting'
  BY <1>2, <1>3, <1>4, EmptyContext DEF Selecting
<1>9. Summarizing'
  <2>1. CASE phase' = "sending"
    BY <1>6, <2>1 DEF Summarizing, ContextInv
  <2>2. CASE phase' = "compacting"
    BY <1>6, <1>7, <2>2 DEF Summarizing, ContextInv
  <2> QED BY <2>1, <2>2
<1>10. IsContext(built)'
  BY DEF IsContext
<1> QED BY <1>5, <1>8, <1>9, <1>10 DEF ContextInv, Phases

LEMMA BuildsKeeps == ContextInv /\ Builds => ContextInv'
<1> SUFFICES ASSUME ContextInv, Builds PROVE ContextInv'
  OBVIOUS
<1>1. /\ messages \in Conversation /\ messages # <<>> /\ phase = "ready"
      /\ config \in setting.configs /\ IsConfig(config)
  BY Saying, Configured DEF Builds, ContextInv, Talking
<1>2. Newest(messages) \in 1..Len(messages) /\ Len(messages) \in Nat
  BY <1>1, Places, Concatenated
<1>3. CASE Refuses(config, messages)
  <2> DEFINE left == [NotBuilt EXCEPT !.status = "refused", !.from = Newest(messages)]
  <2>1. Leaves(left)
    BY <1>3 DEF Builds
  <2>2. left = [NotBuilt EXCEPT !.status = "refused", !.from = Newest(messages)]
    OBVIOUS
  <2> HIDE DEF left
  <2>3. /\ IsContext(left) /\ left.status = "refused" /\ left.from = Newest(messages)
        /\ left.start = 0
    <3>1. left = [status |-> "refused", from |-> Newest(messages), newest |-> NotBuilt.newest,
                  size |-> NotBuilt.size, start |-> NotBuilt.start,
                  cached |-> NotBuilt.cached, summary |-> NotBuilt.summary]
      BY <2>2, EmptyContext DEF IsContext
    <3> QED BY <3>1, EmptyContext DEF IsContext
  <2> QED BY <1>2, <2>1, <2>3, LeavesKeeps
<1>4. CASE ~Refuses(config, messages)
  <2> DEFINE s       == Selection(config, messages)
             omitted == s.from - 1
             context == [NotBuilt EXCEPT !.from = s.from, !.newest = s.newest, !.size = s.size]
  <2>1. Selects(config, messages, s) /\ SystemSize < config.max
    BY <1>1, <1>4, Selected
  <2>2. IF omitted > 0 /\ CacheIsCurrent(cache, thread.revision, config, omitted)
        THEN Summarized(context, cache.size, cache.about)
        ELSE /\ IF omitted > 0 /\ config.compacts
                THEN /\ phase' = "compacting"
                     /\ built' = [context EXCEPT
                            !.start  = Start(cache, config, omitted),
                            !.cached = IF Continues(cache, config, omitted)
                                       THEN cache ELSE NoCache]
                ELSE /\ phase' = "sending"
                     /\ built' = [context EXCEPT !.status = "built"]
             /\ UNCHANGED <<setting, streamVars, thread, deleted, open,
                            cache, config, exceptions>>
    BY <1>4 DEF Builds
  <2>3. context = [NotBuilt EXCEPT !.from = s.from, !.newest = s.newest, !.size = s.size]
    OBVIOUS
  <2> HIDE DEF s, context
  <2>4. /\ IsContext(context) /\ context.status = "none" /\ context.from = s.from
        /\ context.size = s.size /\ context.start = 0 /\ context.summary = NoCache
    <3>1. context = [status |-> NotBuilt.status, from |-> s.from, newest |-> s.newest,
                     size |-> s.size, start |-> NotBuilt.start, cached |-> NotBuilt.cached,
                     summary |-> NotBuilt.summary]
      BY <2>3, EmptyContext DEF IsContext
    <3> QED BY <3>1, EmptyContext DEF IsContext
  <2>5. Selects(config, messages, context)
    BY <2>1, <2>4 DEF Selects
  <2>6. context.from \in 1..Len(messages) /\ omitted \in Nat
    BY <1>1, <1>2, <2>4, <2>5, From
  <2>7. cache.size \in Nat /\ cache.covered \in Nat
    BY DEF ContextInv, Summarizing
  <2>8. CASE omitted > 0 /\ CacheIsCurrent(cache, thread.revision, config, omitted)
    <3>1. Summarized(context, cache.size, cache.about)
      BY <2>2, <2>8
    <3>2. exceptions = {} => cache.about = Ids(1, context.from - 1)
      BY <2>4, <2>8 DEF CacheIsCurrent, ContextInv, Summarizing, Covers
    <3> QED BY <1>1, <2>1, <2>4, <2>5, <2>6, <2>7, <2>8, <3>1, <3>2, SummarizedKeeps
  <2>9. CASE /\ ~(omitted > 0 /\ CacheIsCurrent(cache, thread.revision, config, omitted))
             /\ omitted > 0 /\ config.compacts
    <3> DEFINE start  == Start(cache, config, omitted)
               cached == IF Continues(cache, config, omitted) THEN cache ELSE NoCache
    <3>1. /\ phase' = "compacting"
          /\ built' = [context EXCEPT !.start = start, !.cached = cached]
          /\ UNCHANGED <<setting, thread, deleted, open, cache, config, exceptions>>
      BY <2>2, <2>9
    <3>2. start \in 0..omitted
      BY <2>6, <2>7, StartIs
    <3>3. exceptions = {} => cached.about = Ids(1, start)
      <4>1. CASE exceptions = {} /\ SameVersion(cache, config)
        <5>1. cache.covered <= omitted
          BY <1>1, <2>1, <4>1, OmitsNoLess
        <5>2. cached = cache /\ start = cache.covered
          BY <2>6, <2>7, <4>1, <5>1, StartIs DEF Continues
        <5> QED BY <4>1, <5>2 DEF SameVersion, ContextInv, Summarizing, Covers
      <4>2. CASE ~SameVersion(cache, config)
        <5>1. cached = NoCache /\ start = 0
          BY <2>6, <2>7, <4>2, StartIs DEF Continues
        <5>2. Ids(1, 0) = {}
          BY DEF Ids
        <5> QED BY <5>1, <5>2, EmptyContext
      <4> QED BY <4>1, <4>2
    <3> HIDE DEF start, cached, omitted
    <3>4. /\ IsContext(built') /\ built'.status = "none" /\ built'.from = s.from
          /\ built'.size = s.size /\ built'.start = start /\ built'.cached = cached
      <4>1. built' = [status |-> context.status, from |-> context.from,
                      newest |-> context.newest, size |-> context.size,
                      start |-> start, cached |-> cached, summary |-> context.summary]
        BY <2>4, <3>1 DEF IsContext
      <4> QED BY <2>4, <4>1 DEF IsContext
    <3>5. Selects(config, messages, built')
      BY <2>1, <3>4 DEF Selects
    <3>6. built'.from > 1 /\ start \in 0..(built'.from - 1)
      BY <2>4, <2>6, <2>9, <3>2, <3>4 DEF omitted
    <3> QED BY <1>1, <2>1, <2>9, <3>1, <3>3, <3>4, <3>5, <3>6, SelectedKeeps
  <2>10. CASE /\ ~(omitted > 0 /\ CacheIsCurrent(cache, thread.revision, config, omitted))
              /\ ~(omitted > 0 /\ config.compacts)
    <3>1. /\ phase' = "sending" /\ built' = [context EXCEPT !.status = "built"]
          /\ UNCHANGED <<setting, thread, deleted, open, cache, config, exceptions>>
      BY <2>2, <2>10
    <3>2. /\ IsContext(built') /\ built'.status = "built" /\ built'.from = s.from
          /\ built'.size = s.size /\ built'.start = 0 /\ built'.summary = NoCache
      <4>1. built' = [status |-> "built", from |-> context.from, newest |-> context.newest,
                      size |-> context.size, start |-> context.start,
                      cached |-> context.cached, summary |-> context.summary]
        BY <2>4, <3>1 DEF IsContext
      <4> QED BY <2>4, <4>1 DEF IsContext
    <3>3. Selects(config, messages, built')
      BY <2>1, <3>2 DEF Selects
    <3>4. built'.from > 1 => ~config.compacts
      BY <2>4, <2>6, <2>10, <3>2
    <3> QED BY <1>1, <2>1, <3>1, <3>2, <3>3, <3>4, SelectedKeeps
  <2> QED BY <2>8, <2>9, <2>10
<1> QED BY <1>3, <1>4

LEMMA CompactedKeeps == ContextInv /\ Compacted => ContextInv'
<1> SUFFICES ASSUME ContextInv, Compacted PROVE ContextInv'
  OBVIOUS
<1> DEFINE context == [built EXCEPT !.start = 0, !.cached = NoCache]
           about   == built.cached.about \cup Ids(built.start + 1, built.from - 1)
<1>1. PICK size \in setting.summaries : Summarized(context, size, about)
  BY DEF Compacted
<1>2. phase = "compacting" /\ messages # <<>> /\ IsContext(built) /\ Selecting
  BY DEF Compacted, ContextInv, Talking
<1>3. size \in Nat
  BY SettingsAssumption DEF ContextInv
<1>4. /\ SystemSize < config.max /\ Selects(config, messages, built) /\ built.from > 1
      /\ built.start \in 0..(built.from - 1)
  BY <1>2 DEF Selecting
<1>5. /\ IsContext(context) /\ context.from = built.from /\ context.size = built.size
      /\ context.start = 0
  <2>1. context = [built EXCEPT !.start = 0, !.cached = NoCache]
    OBVIOUS
  <2> HIDE DEF context, about
  <2>2. context = [status |-> built.status, from |-> built.from, newest |-> built.newest,
                   size |-> built.size, start |-> 0, cached |-> NoCache,
                   summary |-> built.summary]
    BY <1>2, <2>1 DEF IsContext
  <2> QED BY <2>2 DEF IsContext
<1> HIDE DEF context
<1>6. Selects(config, messages, context)
  BY <1>4, <1>5 DEF Selects
<1>7. exceptions = {} => about = Ids(1, context.from - 1)
  <2> SUFFICES ASSUME exceptions = {} PROVE about = Ids(1, built.from - 1)
    BY <1>5
  <2>1. built.cached.about = Ids(1, built.start)
    BY <1>2 DEF ContextInv, Summarizing
  <2>2. built.from \in Nat
    BY <1>2, <1>4, From
  <2>3. 1..(built.from - 1) = (1..built.start) \cup ((built.start + 1)..(built.from - 1))
    BY <1>4, <2>2
  <2>4. /\ Ids(1, built.start) = {<<thread.life, i>> : i \in 1..built.start}
        /\ Ids(built.start + 1, built.from - 1)
             = {<<thread.life, i>> : i \in (built.start + 1)..(built.from - 1)}
        /\ Ids(1, built.from - 1) = {<<thread.life, i>> : i \in 1..(built.from - 1)}
    BY DEF Ids
  <2> QED BY <2>1, <2>3, <2>4
<1> HIDE DEF about
<1> QED BY <1>1, <1>2, <1>3, <1>4, <1>5, <1>6, <1>7, SummarizedKeeps

(* An operation that leaves without a context.                              *)
LEMMA LeavesEmpty == ContextInv /\ Leaves(NotBuilt) => ContextInv'
<1> SUFFICES ASSUME ContextInv, Leaves(NotBuilt) PROVE ContextInv'
  OBVIOUS
<1>1. Len(messages) \in Nat
  BY Saying, Concatenated
<1>2. 1 \in 1..(Len(messages) + 1)
  BY <1>1
<1> QED BY <1>2, EmptyContext, LeavesKeeps

LEMMA SavesCacheKeeps == ContextInv /\ SavesCache => ContextInv'
<1> SUFFICES ASSUME ContextInv, SavesCache PROVE ContextInv'
  OBVIOUS
<1>1. /\ phase = "saving" /\ cache' = built.summary /\ phase' = "sending"
      /\ UNCHANGED <<setting, thread, deleted, open, config, built>> /\ messages' = messages
      /\ exceptions' = {} => exceptions = {} /\ ~deleted
  BY DEF SavesCache, messages
<1>2. Selecting /\ messages # <<>>
  BY <1>1 DEF ContextInv, Talking
<1>3. Selecting'
  BY <1>1, <1>2 DEF Selecting, Selects
<1>4. Talking'
  BY <1>1 DEF ContextInv, Talking
<1>5. IsContext(built)'
  BY <1>1 DEF IsContext, ContextInv
<1>6. ASSUME exceptions' = {}
      PROVE  Covers(cache)' /\ ~deleted'
  <2>1. /\ built.summary.about = Ids(1, built.from - 1) /\ built.summary.by = config.id
        /\ built.summary.covered = built.from - 1 /\ built.from > 1
        /\ Selects(config, messages, built)
    BY <1>1, <1>2, <1>6 DEF ContextInv, Summarizing, Selecting
  <2>2. built.from \in 1..Len(messages) /\ built.from <= Newest(messages)
        /\ Newest(messages) \in 1..Len(messages) /\ Len(messages) \in Nat
    BY <1>2, <2>1, From
  <2>3. built.summary.covered \in 1..Len(messages) /\ built.summary.covered < Newest(messages)
    BY <2>1, <2>2
  <2>4. ASSUME NEW i \in Starts(messages), i <= built.summary.covered
        PROVE  Estimate(messages, Onward(messages, i)) > HistoryBudget(config)
    <3>1. i \in 1..Len(messages)
      BY <1>2, Saying, Places
    <3>2. i < built.from
      BY <2>1, <2>2, <2>4, <3>1
    <3> QED BY <2>1, <3>2 DEF Selects
  <2>5. HistoryBudget(config) <= HistoryBudget(config)
    BY Configured, Budgets DEF ContextInv
  <2>6. config \in setting.configs
    BY DEF ContextInv
  <2>7. Covers(built.summary)
    BY <2>1, <2>3, <2>4, <2>5, <2>6 DEF Covers
  <2>8. Covers(cache)'
    BY <1>1, <2>7 DEF Covers, Ids
  <2> QED BY <1>1, <1>6, <2>8
<1>7. Ids(1, built.from - 1)' = Ids(1, built.from - 1)
  BY <1>1 DEF Ids
<1>8. Summarizing'
  BY <1>1, <1>2, <1>6, <1>7 DEF Summarizing, ContextInv, Selecting
<1> QED BY <1>1, <1>3, <1>4, <1>5, <1>8 DEF ContextInv, Phases

LEMMA StreamsKeeps == ContextInv /\ Streams /\ UNCHANGED contextVars => ContextInv'
<1> SUFFICES ASSUME ContextInv, Streams, UNCHANGED contextVars PROVE ContextInv'
  OBVIOUS
<1>1. /\ phase \in {"sending", "streaming"} /\ setting' = setting
      /\ phase' \in {"sending", "streaming", "answered", "failed"}
  BY DEF Streams, Opens, FailsForNow, FailsForGood, TextDelta, CallDelta, ItemAdded, ItemDone,
         ArgumentsDone, NextEvent, Completed, Closed, Broken
<1>2. /\ UNCHANGED <<thread, deleted, open, cache, config, built, exceptions>>
      /\ messages' = messages
  BY DEF contextVars, messages
<1>3. Selecting'
  BY <1>1, <1>2 DEF ContextInv, Selecting, Selects
<1>4. Talking'
  BY <1>1, <1>2 DEF ContextInv, Talking
<1>5. Covers(cache) => Covers(cache)'
  BY <1>1, <1>2 DEF Covers, Ids
<1>6. Summarizing'
  BY <1>1, <1>2, <1>5 DEF Summarizing, ContextInv, Ids
<1>7. IsContext(built)'
  BY <1>2 DEF IsContext, ContextInv
<1> QED BY <1>1, <1>2, <1>3, <1>4, <1>6, <1>7 DEF ContextInv, Phases

LEMMA MarkedKeeps == ContextInv /\ Commits(Marked, "idle") /\ phase # "idle" => ContextInv'
<1> SUFFICES ASSUME ContextInv, Commits(Marked, "idle"), phase # "idle" PROVE ContextInv'
  OBVIOUS
<1>1. /\ messages \in Conversation /\ messages # <<>> /\ Rooted(messages)
      /\ thread \in [life : Nat, revision : Nat, messages : Conversation]
  BY Saying DEF ContextInv, Talking
<1>2. messages \o <<>> = messages /\ <<>> \in Conversation
  BY <1>1, NothingSaid
<1>3. /\ Marked \in [life : Nat, revision : Nat, messages : Conversation]
      /\ Marked.life = thread.life /\ Marked.messages = messages
  BY <1>1 DEF Marked, messages
<1> HIDE DEF messages
<1> QED BY <1>1, <1>2, <1>3, CommitsKeeps

(* One message more.                                                        *)
LEMMA MessageKeeps ==
  ASSUME ContextInv, NEW m \in MessageType, NEW commits \in Nat, NEW next,
         Commits(With(<<m>>, commits), next), next \in {"idle", "ready", "tools"},
         m.kind # "tool" \/ Calling(messages),
         next = "tools" => m.kind \in {"call", "tool"}
  PROVE  ContextInv'
<1>1. messages \in Conversation /\ Rooted(messages)
  BY Saying DEF ContextInv, Talking
<1> HIDE DEF messages
<1> DEFINE all == messages \o <<m>>
<1>2. /\ <<m>> \in Conversation /\ all # <<>> /\ DOMAIN <<m>> = {1} /\ <<m>>[1] = m
      /\ all[Len(all)] = m
  BY <1>1, OneMore
<1>3. Rooted(all)
  <2>1. \/ \A i \in DOMAIN <<m>> : <<m>>[i].kind # "tool"
        \/ Calling(messages) /\ \A i \in DOMAIN <<m>> : <<m>>[i].kind = "tool"
    BY <1>2
  <2> QED BY <1>1, <1>2, <2>1, RootedStays
<1>4. next = "tools" => Calling(all)
  <2> HIDE DEF all
  <2> QED BY <1>2 DEF Calling
<1> QED BY <1>2, <1>3, <1>4, Saying, CommitsKeeps

LEMMA AnsweredKeeps ==
  ASSUME ContextInv, Answered, Len(result.calls) \in Nat
  PROVE  ContextInv'
<1>1. phase = "answered"
  BY DEF Answered
<1>2. CASE result.calls # <<>>
  <2> DEFINE m == Message("call", 1, Len(result.calls))
  <2>1. Commits(With(<<m>>, 1), "tools")
    BY <1>2 DEF Answered
  <2>2. m \in MessageType /\ m.kind = "call"
    BY DEF Message, MessageType, Kinds
  <2> HIDE DEF m
  <2> QED BY <2>1, <2>2, MessageKeeps
<1>3. CASE result.calls = <<>> /\ result.text # <<>>
  <2> DEFINE m == Message("assistant", 1, 0)
  <2>1. Commits(With(<<m>>, 1), "idle")
    BY <1>3 DEF Answered
  <2>2. m \in MessageType /\ m.kind = "assistant"
    BY DEF Message, MessageType, Kinds
  <2> HIDE DEF m
  <2> QED BY <2>1, <2>2, MessageKeeps
<1>4. CASE result.calls = <<>> /\ result.text = <<>>
  BY <1>1, <1>4, MarkedKeeps DEF Answered
<1> QED BY <1>2, <1>3, <1>4

LEMMA ToolAnswersKeeps == ContextInv /\ ToolAnswers => ContextInv'
<1> SUFFICES ASSUME ContextInv, ToolAnswers PROVE ContextInv'
  OBVIOUS
<1> DEFINE next == IF Unanswered > 1 THEN "tools" ELSE "ready"
<1>1. PICK size \in setting.sizes : Commits(With(<<Message("tool", size, 0)>>, 2), next)
  BY DEF ToolAnswers
<1> DEFINE m == Message("tool", size, 0)
<1>2. m \in MessageType /\ m.kind = "tool"
  BY SettingsAssumption DEF ContextInv, Message, MessageType, Kinds
<1>3. Calling(messages)
  BY DEF ToolAnswers, ContextInv, Talking
<1>4. Commits(With(<<m>>, 2), next) /\ next \in {"tools", "ready"}
  BY <1>1
<1> HIDE DEF m, next
<1> QED BY <1>2, <1>3, <1>4, MessageKeeps

LEMMA AbortedKeeps == ContextInv /\ Aborted => ContextInv'
<1> SUFFICES ASSUME ContextInv, Aborted PROVE ContextInv'
  OBVIOUS
<1> DEFINE n    == IF phase = "tools" THEN Unanswered ELSE 0
           more == [k \in 1..n |-> Message("tool", 1, 0)]
<1>1. Commits(With(more, 1), "idle") /\ phase # "idle"
  BY DEF Aborted
<1>2. /\ messages \in Conversation /\ messages # <<>> /\ Rooted(messages)
      /\ phase = "tools" => Calling(messages)
  BY <1>1, Saying DEF ContextInv, Talking
<1>3. n \in Int
  BY UnansweredIs
<1> HIDE DEF messages
<1>4. more \in Conversation /\ \A k \in DOMAIN more : more[k].kind = "tool"
  <2> DEFINE m == Message("tool", 1, 0)
  <2>1. m \in MessageType /\ m.kind = "tool"
    BY DEF Message, MessageType, Kinds
  <2> HIDE DEF m, n, MessageType
  <2>2. CASE n > 0
    <3>1. n \in Nat /\ more \in [1..n -> MessageType]
      BY <1>3, <2>1, <2>2 DEF m
    <3> QED BY <2>1, <3>1 DEF Conversation, m
  <2>3. CASE ~(n > 0)
    <3>1. 1..n = {} /\ 1..0 = {}
      BY <1>3, <2>3
    <3>2. more \in [1..0 -> MessageType] /\ DOMAIN more = {}
      BY <3>1
    <3> HIDE DEF more
    <3> QED BY <3>2 DEF Conversation
  <2> QED BY <2>2, <2>3
<1>5. phase # "tools" => \A k \in DOMAIN more : more[k].kind # "tool"
  <2> SUFFICES ASSUME n = 0 PROVE DOMAIN more = {}
    OBVIOUS
  <2> HIDE DEF n
  <2> QED OBVIOUS
<1> HIDE DEF more
<1>6. Rooted(messages \o more)
  BY <1>2, <1>4, <1>5, RootedStays
<1>7. messages \o more # <<>>
  <2>1. /\ Len(messages) \in Nat /\ Len(more) \in Nat
        /\ Len(messages \o more) = Len(messages) + Len(more)
        /\ messages = <<>> <=> Len(messages) = 0
    BY <1>2, <1>4, Concatenated, Zenon
  <2> DEFINE all == messages \o more
  <2>2. Len(all) # 0
    <3> HIDE DEF all
    <3> QED BY <1>2, <2>1 DEF all
  <2> QED BY <2>2
<1> QED BY <1>1, <1>4, <1>6, <1>7, Saying, CommitsKeeps

LEMMA DeleteKeeps == ContextInv /\ Delete => ContextInv'
<1> SUFFICES ASSUME ContextInv, Delete PROVE ContextInv'
  OBVIOUS
<1>1. CASE phase = "idle"
  <2>1. /\ Gone /\ phase' = "idle" /\ deleted' = FALSE /\ built' = NotBuilt /\ cache' = NoCache
        /\ UNCHANGED <<setting, config, exceptions>>
    BY <1>1 DEF Delete, ContextInv, Talking
  <2> QED BY <2>1, GoneKeeps
<1>2. CASE phase # "idle"
  <2>1. /\ cache' = NoCache /\ deleted' = TRUE /\ messages' = messages
        /\ UNCHANGED <<thread, open, built, setting, phase, config, exceptions>>
    BY <1>2 DEF Delete, messages
  <2>2. Talking'
    BY <2>1 DEF ContextInv, Talking
  <2>3. IF phase \in {"idle", "ready", "tools"} THEN Resting' ELSE Selecting'
    BY <2>1 DEF ContextInv, Resting, Selecting, Selects
  <2>4. Summarizing'
    BY <2>1, EmptyContext DEF ContextInv, Summarizing, Ids
  <2>5. IsContext(built)'
    BY <2>1 DEF ContextInv, IsContext
  <2> QED BY <2>1, <2>2, <2>3, <2>4, <2>5 DEF ContextInv
<1> QED BY <1>1, <1>2

LEMMA ReconfiguresKeeps == ContextInv /\ Reconfigures => ContextInv'
<1> SUFFICES ASSUME ContextInv, Reconfigures PROVE ContextInv'
  OBVIOUS
<1>1. /\ phase = "idle" /\ config' \in setting.configs /\ built' = NotBuilt
      /\ UNCHANGED <<setting, phase, thread, deleted, open, cache>> /\ messages' = messages
  BY DEF Reconfigures, messages
<1>2. Talking'
  BY <1>1 DEF ContextInv, Talking
<1>3. Len(messages) \in Nat
  BY Saying, Concatenated
<1>4. Resting'
  BY <1>1, <1>3, EmptyContext DEF Resting
<1>5. IsContext(built)'
  BY <1>1, EmptyContext DEF IsContext
<1>6. ASSUME exceptions' = {}, cache # NoCache
      PROVE  Covers(cache)'
  <2>1. /\ exceptions = {}
        /\ \A old \in setting.configs : ~(/\ old.id = cache.by
                                          /\ config'.version = cache.version
                                          /\ Wider(config', old))
    BY <1>6 DEF Reconfigures
  <2>2. Covers(cache)
    BY <1>6, <2>1 DEF ContextInv, Summarizing
  <2>3. PICK old \in setting.configs :
           /\ old.id = cache.by
           /\ \A i \in Starts(messages) : i <= cache.covered =>
                 Estimate(messages, Onward(messages, i)) > HistoryBudget(old)
    BY <2>2 DEF Covers
  <2>4. HistoryBudget(old) \in Int /\ HistoryBudget(config') \in Int
    BY <1>1, Configured, Budgets DEF ContextInv
  <2>5. config'.version = cache.version => HistoryBudget(config') <= HistoryBudget(old)
    BY <2>1, <2>3, <2>4 DEF Wider
  <2>6. /\ cache.about = Ids(1, cache.covered)' /\ cache.covered \in 1..Len(messages)
        /\ cache.covered < Newest(messages)
    BY <1>1, <2>2 DEF Covers, Ids
  <2> QED BY <1>1, <2>3, <2>5, <2>6 DEF Covers
<1>7. Summarizing'
  BY <1>1, <1>6, EmptyContext DEF ContextInv, Summarizing, Reconfigures
<1> QED BY <1>1, <1>2, <1>4, <1>5, <1>7 DEF ContextInv

LEMMA ContextStep ==
  ASSUME ContextInv, phase = "answered" => Len(result.calls) \in Nat, [Next]_vars
  PROVE  ContextInv'
<1>1. CASE UserSays
  BY <1>1, UserSaysKeeps
<1>2. CASE Recovers
  BY <1>2, RecoversKeeps
<1>3. CASE Builds
  BY <1>3, BuildsKeeps
<1>4. CASE Compacted
  BY <1>4, CompactedKeeps
<1>5. CASE CompactorFails
  BY <1>5, LeavesEmpty DEF CompactorFails
<1>6. CASE SavesCache
  BY <1>6, SavesCacheKeeps
<1>7. CASE Streams /\ UNCHANGED contextVars
  BY <1>7, StreamsKeeps
<1>8. CASE Answered
  BY <1>8, AnsweredKeeps DEF Answered
<1>9. CASE Failed
  BY <1>9, MarkedKeeps DEF Failed
<1>10. CASE Aborted
  BY <1>10, AbortedKeeps
<1>11. CASE ToolAnswers
  BY <1>11, ToolAnswersKeeps
<1>12. CASE OutOfIterations
  BY <1>12, MarkedKeeps DEF OutOfIterations
<1>13. CASE Crash
  BY <1>13, LeavesEmpty DEF Crash
<1>14. CASE Delete
  BY <1>14, DeleteKeeps
<1>15. CASE Reconfigures
  BY <1>15, ReconfiguresKeeps
<1>16. CASE UNCHANGED vars
  BY <1>16 DEF vars, contextVars, ContextInv, Talking, Resting, Selecting, Selects, Summarizing,
               Covers, Ids, IsContext, messages
<1> QED BY <1>1, <1>2, <1>3, <1>4, <1>5, <1>6, <1>7, <1>8, <1>9, <1>10, <1>11, <1>12, <1>13,
           <1>14, <1>15, <1>16 DEF Next

(* What the invariant says of a built context.                              *)
LEMMA ContextSound == ContextInv => TypeOK /\ WindowIsKept /\ NothingIsLost
<1> SUFFICES ASSUME ContextInv PROVE TypeOK /\ WindowIsKept /\ NothingIsLost
  OBVIOUS
<1>1. /\ messages \in Conversation /\ Len(messages) \in Nat /\ DOMAIN messages = 1..Len(messages)
      /\ \A i \in 1..Len(messages) : messages[i] \in MessageType
  BY Saying, Concatenated
<1>2. phase \in {"idle", "ready", "tools"} => Resting
  BY DEF ContextInv
<1>3. phase \notin {"idle", "ready", "tools"} => Selecting /\ messages # <<>>
  BY DEF ContextInv, Talking
<1>4. Selecting /\ messages # <<>> =>
         /\ built.from \in 1..Len(messages) /\ built.start <= built.from - 1
         /\ built.from \in Starts(messages) /\ HistoryBudget(config) \in Nat
  <2> SUFFICES ASSUME Selecting, messages # <<>>
               PROVE  /\ built.from \in 1..Len(messages) /\ built.start <= built.from - 1
                      /\ built.from \in Starts(messages) /\ HistoryBudget(config) \in Nat
    OBVIOUS
  <2>1. Selects(config, messages, built) /\ built.start \in 0..(built.from - 1)
        /\ SystemSize < config.max
    BY DEF Selecting
  <2>2. built.from \in 1..Len(messages)
    BY <2>1, From
  <2>3. HistoryBudget(config) \in Nat
    BY <2>1, Configured, Budgets DEF ContextInv
  <2>4. built.from \in Starts(messages)
    BY <2>1 DEF Selects
  <2>5. built.start <= built.from - 1
    BY <1>1, <2>1, <2>2
  <2> QED BY <2>2, <2>3, <2>4, <2>5
<1>5. TypeOK
  <2>1. \A i \in DOMAIN messages : messages[i].kind \in Kinds /\ messages[i].size \in Nat
    BY <1>1 DEF MessageType
  <2>2. built.status = "built" => HistoryBudget(config) \in Nat
    BY <1>2, <1>3, <1>4 DEF Resting
  <2>3. built.start <= built.from - 1 /\ built.from \in 1..(Len(messages) + 1)
    BY <1>1, <1>2, <1>3, <1>4 DEF Resting
  <2> QED BY <2>1, <2>2, <2>3 DEF TypeOK, ContextInv, Talking, Phases
<1>6. WindowIsKept
  BY <1>2, <1>3 DEF WindowIsKept, Resting, Selecting
<1>7. NothingIsLost
  <2> SUFFICES ASSUME built.status = "built"
               PROVE  /\ \A i \in built.from..Len(messages) :
                             messages[i].kind = "tool" =>
                                 \E j \in built.from..(i - 1) : messages[j].kind = "call"
                      /\ (built.from > 1 /\ config.compacts /\ exceptions = {}) =>
                             built.summary.about = Ids(1, built.from - 1)
    BY DEF NothingIsLost
  <2>1. Selecting /\ messages # <<>>
    BY <1>2, <1>3 DEF Resting
  <2>2. Rooted(messages) /\ built.from \in Starts(messages)
    BY <1>4, <2>1 DEF ContextInv, Talking
  <2>3. \A i \in built.from..Len(messages) :
           messages[i].kind = "tool" => \E j \in built.from..(i - 1) : messages[j].kind = "call"
    BY <1>1, <2>2, WholeFrom
  <2>4. built.from > 1 /\ config.compacts /\ exceptions = {} =>
           built.summary.about = Ids(1, built.from - 1)
    BY DEF ContextInv, Summarizing
  <2> QED BY <2>3, <2>4
<1> QED BY <1>5, <1>6, <1>7

-----------------------------------------------------------------------------
(* Items in their order.                                                    *)

Below(S, x) == {y \in S : y < x}
Rank(S, x)  == Cardinality(Below(S, x))

LEMMA Ranks ==
  ASSUME NEW n \in Nat, NEW S \in SUBSET 1..n
  PROVE  /\ Cardinality(S) \in Nat
         /\ \A x \in S : Rank(S, x) \in Nat
         /\ \A x, z \in S : x < z => Rank(S, x) < Rank(S, z)
         /\ \A k \in 1..Cardinality(S) : \E x \in S : Rank(S, x) = k - 1
<1>0. \A x \in S : x \in Nat
  OBVIOUS
<1>1. IsFiniteSet(S)
  <2>1. IsFiniteSet(1..n)
    BY FS_Interval
  <2> QED BY <2>1, FS_Subset
<1>2. Cardinality(S) \in Nat
  BY <1>1, FS_CardinalityType
<1>3. \A x \in S : Rank(S, x) \in Nat /\ IsFiniteSet(Below(S, x))
  <2> SUFFICES ASSUME NEW x \in S PROVE Rank(S, x) \in Nat /\ IsFiniteSet(Below(S, x))
    OBVIOUS
  <2>1. Below(S, x) \in SUBSET S
    BY DEF Below
  <2>2. IsFiniteSet(Below(S, x))
    BY <1>1, <2>1, FS_Subset
  <2> QED BY <2>2, FS_CardinalityType DEF Rank
<1>4. ASSUME NEW x \in S, NEW z \in S, x < z
      PROVE  Rank(S, x) < Rank(S, z)
  <2> DEFINE B == Below(S, x) \cup {x}
  <2>1. x \notin Below(S, x) /\ B \in SUBSET Below(S, z)
    <3>1. \A y \in S : y < x => y < z
      BY <1>0, <1>4
    <3>2. ~(x < x)
      BY <1>0
    <3> QED BY <1>4, <3>1, <3>2, Zenon DEF Below
  <2>2. Cardinality(B) = Rank(S, x) + 1
    BY <1>3, <2>1, FS_AddElement DEF Rank
  <2>3. Cardinality(B) <= Cardinality(Below(S, z))
    BY <1>3, <2>1, FS_Subset
  <2> QED BY <1>3, <2>2, <2>3 DEF Rank
<1>5. ASSUME NEW k \in 1..Cardinality(S)
      PROVE  \E x \in S : Rank(S, x) = k - 1
  <2> DEFINE T == {j \in 1..Cardinality(S) : \A x \in S : Rank(S, x) # j - 1}
  <2> SUFFICES ASSUME T # {} PROVE FALSE
    OBVIOUS
  <2>1. T \in SUBSET Nat
    BY <1>2
  <2>2. PICK j \in T : \A i \in T : j <= i
    BY <2>1, Least
  <2>3. j \in 1..Cardinality(S) /\ \A x \in S : Rank(S, x) # j - 1
    OBVIOUS
  <2>4. CASE j = 1
    <3>1. S # {}
      BY <1>2, <2>3, FS_EmptySet
    <3>2. PICK x \in S : \A y \in S : x <= y
      BY <3>1, Least
    <3>3. Below(S, x) = {}
      <4>1. \A y \in S : ~(y < x)
        BY <1>0, <3>2
      <4> QED BY <4>1, Zenon DEF Below
    <3>4. Rank(S, x) = 0
      BY <3>3, FS_EmptySet DEF Rank
    <3> QED BY <2>3, <2>4, <3>4
  <2>5. CASE j # 1
    <3>1. j - 1 \in 1..Cardinality(S) /\ j - 1 \notin T
      BY <1>2, <2>2, <2>3, <2>5
    <3>2. PICK x \in S : Rank(S, x) = (j - 1) - 1
      BY <3>1
    <3> DEFINE B     == Below(S, x) \cup {x}
               above == S \ B
    <3>3. Cardinality(B) = j - 1
      <4>1. x \notin Below(S, x)
        BY DEF Below
      <4>2. Cardinality(B) = Rank(S, x) + 1
        BY <1>3, <4>1, FS_AddElement DEF Rank
      <4> HIDE DEF B
      <4> QED BY <2>3, <3>2, <4>2
    <3>4. above # {}
      <4> SUFFICES ASSUME above = {} PROVE FALSE
        OBVIOUS
      <4>1. S = B
        BY DEF Below
      <4>2. Cardinality(S) = j - 1
        BY <3>3, <4>1
      <4> QED BY <1>2, <2>3, <4>2
    <3>5. above \in SUBSET Nat
      BY <1>0, Zenon
    <3>6. PICK z \in above : \A y \in above : z <= y
      BY <3>4, <3>5, Least
    <3>7. Below(S, z) = B
      <4>1. \A y \in S : y \in B <=> y <= x
        <5>1. \A y \in S : y <= x <=> y < x \/ y = x
          BY <1>0
        <5> QED BY <5>1, Zenon DEF Below
      <4>2. \A y \in S : y <= x => y < z
        <5>1. x < z
          BY <1>0, <3>6, <4>1
        <5> QED BY <1>0, <3>6, <5>1
      <4>3. \A y \in S : y < z => y <= x
        BY <1>0, <3>6, <4>1
      <4>4. \A y : y \in Below(S, z) <=> y \in B
        BY <4>1, <4>2, <4>3, Zenon DEF Below
      <4> HIDE DEF B
      <4> QED BY <4>4, Zenon
    <3>8. Rank(S, z) = j - 1 /\ z \in S
      BY <3>3, <3>7 DEF Rank
    <3> QED BY <2>3, <3>8
  <2> QED BY <2>4, <2>5
<1> QED BY <1>2, <1>3, <1>4, <1>5

LEMMA InOrderIs ==
  ASSUME NEW n \in Nat, NEW f, DOMAIN f \in SUBSET 1..n
  PROVE  /\ Cardinality(DOMAIN f) \in Nat
         /\ DOMAIN InOrder(f) = 1..Cardinality(DOMAIN f)
         /\ InOrder(f) = [k \in 1..Cardinality(DOMAIN f) |-> InOrder(f)[k]]
         /\ \A k \in 1..Cardinality(DOMAIN f) :
               \E x \in DOMAIN f : Rank(DOMAIN f, x) = k - 1 /\ InOrder(f)[k] = f[x]
<1> DEFINE S == DOMAIN f
<1>1. Cardinality(S) \in Nat /\ \A k \in 1..Cardinality(S) : \E x \in S : Rank(S, x) = k - 1
  <2>1. S \in SUBSET 1..n
    OBVIOUS
  <2> HIDE DEF S
  <2> QED BY <2>1, Ranks, Zenon
<1>2. InOrder(f) = [k \in 1..Cardinality(S) |-> f[CHOOSE x \in S : Rank(S, x) = k - 1]]
  BY DEF InOrder, Rank, Below
<1> HIDE DEF S
<1>3. ASSUME NEW k \in 1..Cardinality(S)
      PROVE  \E x \in S : Rank(S, x) = k - 1 /\ InOrder(f)[k] = f[x]
  <2> DEFINE x == CHOOSE x \in S : Rank(S, x) = k - 1
  <2>1. x \in S /\ Rank(S, x) = k - 1
    BY <1>1
  <2>2. InOrder(f)[k] = f[x]
    BY <1>2
  <2> HIDE DEF x
  <2> QED BY <2>1, <2>2
<1>4. DOMAIN InOrder(f) = 1..Cardinality(S)
  BY <1>2
<1>5. InOrder(f) = [k \in 1..Cardinality(S) |-> InOrder(f)[k]]
  BY <1>2
<1> QED BY <1>1, <1>3, <1>4, <1>5 DEF S

(* An order is known by what has which rank.                                *)
LEMMA RankOnce ==
  ASSUME NEW n \in Nat, NEW S \in SUBSET 1..n, NEW x \in S, NEW z \in S,
         Rank(S, x) = Rank(S, z)
  PROVE  x = z
<1>1. /\ Rank(S, x) \in Nat /\ Rank(S, z) \in Nat
      /\ x < z => Rank(S, x) < Rank(S, z)
      /\ z < x => Rank(S, z) < Rank(S, x)
  BY Ranks, Zenon
<1>2. x \in Nat /\ z \in Nat
  OBVIOUS
<1> QED BY <1>1, <1>2

LEMMA InOrderAll ==
  ASSUME NEW n \in Nat
  PROVE  InOrder([i \in 1..n |-> i]) = [i \in 1..n |-> i]
<1> DEFINE f == [i \in 1..n |-> i]
<1>1. Cardinality(1..n) = n
  BY FS_Interval
<1>2. DOMAIN f = 1..n
  OBVIOUS
<1>3. ASSUME NEW i \in 1..n PROVE InOrder(f)[i] = i
  <2>1. PICK x \in 1..n : Rank(1..n, x) = i - 1 /\ InOrder(f)[i] = f[x]
    <3>1. DOMAIN f \in SUBSET 1..n
      BY <1>2
    <3> HIDE DEF f
    <3>2. \A k \in 1..Cardinality(DOMAIN f) :
             \E x \in DOMAIN f : Rank(DOMAIN f, x) = k - 1 /\ InOrder(f)[k] = f[x]
      BY <3>1, InOrderIs, Zenon
    <3> QED BY <1>1, <1>2, <3>2
  <2>2. Below(1..n, x) = 1..(x - 1)
    BY DEF Below
  <2>3. Rank(1..n, x) = x - 1
    BY <2>2, FS_Interval DEF Rank
  <2>4. x = i
    BY <2>1, <2>3
  <2> QED BY <2>1, <2>4
<1>4. InOrder(f) = [i \in 1..n |-> InOrder(f)[i]]
  <2>1. DOMAIN f \in SUBSET 1..n
    BY <1>2
  <2> HIDE DEF f
  <2>2. InOrder(f) = [k \in 1..Cardinality(DOMAIN f) |-> InOrder(f)[k]]
    BY <2>1, InOrderIs, Zenon
  <2> QED BY <1>1, <1>2, <2>2
<1> HIDE DEF f
<1>5. InOrder(f) = [i \in 1..n |-> i]
  BY <1>3, <1>4
<1> QED BY <1>5 DEF f

LEMMA PrefixIs ==
  ASSUME NEW T, NEW s \in Seq(T), NEW t \in Seq(T), Len(s) <= Len(t),
         \A k \in 1..Len(s) : s[k] = t[k]
  PROVE  IsPrefix(s, t)
BY DEF IsPrefix

LEMMA IsSequence ==
  ASSUME NEW T, NEW n \in Nat, NEW s \in [1..n -> T]
  PROVE  s \in Seq(T) /\ Len(s) = n
OBVIOUS

(* The first calls, in their order, begin all of them in theirs.            *)
LEMMA InOrderSome ==
  ASSUME NEW n \in Nat, NEW S \in SUBSET 1..n, NEW m \in Nat,
         NEW D, D = {x \in S : x <= m}
  PROVE  /\ InOrder([x \in D |-> x]) \in Seq(1..n)
         /\ InOrder([x \in S |-> x]) \in Seq(1..n)
         /\ IsPrefix(InOrder([x \in D |-> x]), InOrder([x \in S |-> x]))
<1> DEFINE f == [x \in D |-> x]
           g == [x \in S |-> x]
           c == Cardinality(D)
           d == Cardinality(S)
<1>1. /\ DOMAIN f = D /\ DOMAIN g = S /\ D \in SUBSET 1..n /\ D \in SUBSET S
      /\ S \in SUBSET 1..n /\ DOMAIN f \in SUBSET 1..n /\ DOMAIN g \in SUBSET 1..n
  OBVIOUS
<1>2. (\A x \in D : f[x] = x) /\ (\A x \in S : g[x] = x)
  OBVIOUS
<1> HIDE DEF f, g
<1> DEFINE Enumerates(s, h, S0) ==
             /\ Cardinality(S0) \in Nat /\ DOMAIN s = 1..Cardinality(S0)
             /\ s = [k \in 1..Cardinality(S0) |-> s[k]]
             /\ \A k \in 1..Cardinality(S0) : \E x \in S0 : Rank(S0, x) = k - 1 /\ s[k] = h[x]
<1>a. Enumerates(InOrder(f), f, DOMAIN f) /\ Enumerates(InOrder(g), g, DOMAIN g)
  BY <1>1, InOrderIs, Zenon
<1>3. /\ c \in Nat /\ InOrder(f) = [k \in 1..c |-> InOrder(f)[k]] /\ DOMAIN InOrder(f) = 1..c
      /\ \A k \in 1..c : \E x \in D : Rank(D, x) = k - 1 /\ InOrder(f)[k] = f[x]
  BY <1>1, <1>a
<1>4. /\ d \in Nat /\ InOrder(g) = [k \in 1..d |-> InOrder(g)[k]] /\ DOMAIN InOrder(g) = 1..d
      /\ \A k \in 1..d : \E x \in S : Rank(S, x) = k - 1 /\ InOrder(g)[k] = g[x]
  BY <1>1, <1>a
<1>5. c <= d
  <2>1. IsFiniteSet(1..n)
    BY FS_Interval
  <2>2. IsFiniteSet(S)
    BY <1>1, <2>1, FS_Subset
  <2> QED BY <1>1, <2>2, FS_Subset
<1> HIDE DEF c, d
<1>6. InOrder(f) \in Seq(1..n) /\ Len(InOrder(f)) = c
  <2>1. InOrder(f) \in [1..c -> 1..n]
    BY <1>1, <1>2, <1>3
  <2> QED BY <1>3, <2>1, IsSequence
<1>7. InOrder(g) \in Seq(1..n) /\ Len(InOrder(g)) = d
  <2>1. InOrder(g) \in [1..d -> 1..n]
    BY <1>1, <1>2, <1>4
  <2> QED BY <1>4, <2>1, IsSequence
<1>8. ASSUME NEW k \in 1..c PROVE InOrder(f)[k] = InOrder(g)[k]
  <2>1. PICK x \in D : Rank(D, x) = k - 1 /\ InOrder(f)[k] = x
    BY <1>2, <1>3
  <2>2. PICK z \in S : Rank(S, z) = k - 1 /\ InOrder(g)[k] = z
    BY <1>2, <1>3, <1>4, <1>5
  <2>3. Below(D, x) = Below(S, x)
    <3>1. \A y \in S : y < x => y <= m
      BY <1>1
    <3>2. \A y : y \in D <=> y \in S /\ y <= m
      OBVIOUS
    <3>3. \A y : y \in Below(D, x) <=> y \in Below(S, x)
      BY <3>1, <3>2, Zenon DEF Below
    <3> QED BY <3>3, Zenon DEF Below
  <2>4. Rank(S, x) = Rank(S, z)
    BY <2>1, <2>2, <2>3 DEF Rank
  <2>5. x \in S
    BY <1>1
  <2>6. x = z
    BY <2>4, <2>5, RankOnce
  <2> QED BY <2>1, <2>2, <2>6
<1>9. IsPrefix(InOrder(f), InOrder(g))
  BY <1>5, <1>6, <1>7, <1>8, PrefixIs
<1> QED BY <1>6, <1>7, <1>9 DEF f, g

-----------------------------------------------------------------------------
(* Texts, one after the other.                                              *)

LEMMA Joined ==
  ASSUME NEW T, NEW s \in Seq(T), NEW t \in Seq(T)
  PROVE  /\ s \o t \in Seq(T) /\ s \o <<>> = s /\ <<>> \o t = t
         /\ \A e : e \in ToSet(s \o t) <=> e \in ToSet(s) \/ e \in ToSet(t)
<1>1. s \o t \in Seq(T) /\ s \o <<>> = s /\ <<>> \o t = t
  OBVIOUS
<1>2. /\ Len(s) \in Nat /\ Len(t) \in Nat /\ DOMAIN s = 1..Len(s) /\ DOMAIN t = 1..Len(t)
      /\ DOMAIN (s \o t) = 1..(Len(s) + Len(t))
      /\ \A i \in 1..Len(s) : (s \o t)[i] = s[i]
      /\ \A i \in 1..Len(t) : (s \o t)[Len(s) + i] = t[i]
  OBVIOUS
<1> DEFINE st == s \o t
<1> HIDE DEF st
<1>3. /\ DOMAIN st = 1..(Len(s) + Len(t))
      /\ \A i \in 1..Len(s) : st[i] = s[i] /\ i \in DOMAIN st
      /\ \A i \in 1..Len(t) : st[Len(s) + i] = t[i] /\ Len(s) + i \in DOMAIN st
  BY <1>2 DEF st
<1>4. ASSUME NEW e, e \in ToSet(st) PROVE e \in ToSet(s) \/ e \in ToSet(t)
  <2>1. PICK i \in DOMAIN st : st[i] = e
    BY <1>4 DEF ToSet
  <2>2. CASE i \in 1..Len(s)
    BY <1>2, <1>3, <2>1, <2>2 DEF ToSet
  <2>3. CASE i \notin 1..Len(s)
    <3>1. i - Len(s) \in 1..Len(t) /\ i = Len(s) + (i - Len(s))
      BY <1>2, <1>3, <2>3
    <3>2. t[i - Len(s)] = e
      BY <1>3, <2>1, <3>1
    <3> QED BY <1>2, <3>1, <3>2 DEF ToSet
  <2> QED BY <2>2, <2>3
<1>5. ASSUME NEW e, e \in ToSet(s) PROVE e \in ToSet(st)
  BY <1>2, <1>3, <1>5 DEF ToSet
<1>6. ASSUME NEW e, e \in ToSet(t) PROVE e \in ToSet(st)
  <2>1. PICK i \in 1..Len(t) : t[i] = e
    BY <1>2, <1>6 DEF ToSet
  <2>2. st[Len(s) + i] = e /\ Len(s) + i \in DOMAIN st
    BY <1>3, <2>1
  <2> QED BY <2>2 DEF ToSet
<1> QED BY <1>1, <1>4, <1>5, <1>6 DEF st

Chained(f, seqs, n) ==
    /\ f[1] = seqs[1]
    /\ \A i \in 2..n : f[i] = f[i - 1] \o seqs[i]
    /\ FlattenSeq(seqs) = f[n]

LEMMA ChainExists ==
  ASSUME NEW T, NEW n \in Nat, n > 0, NEW seqs \in [1..n -> T]
  PROVE  \E f : Chained(f, seqs, n)
<1> DEFINE At(f, i) == IF i = 1 THEN seqs[i] ELSE f[i - 1] \o seqs[i]
           Good     == {m \in 1..n : \E f : f = [i \in 1..m |-> At(f, i)]}
<1>1. 1 \in Good
  <2> DEFINE f == [i \in 1..1 |-> seqs[i]]
  <2>1. f = [i \in 1..1 |-> At(f, i)]
    <3>1. \A i \in 1..1 : At(f, i) = seqs[i]
      OBVIOUS
    <3> HIDE DEF At
    <3> QED BY <3>1
  <2>2. \E g : g = [i \in 1..1 |-> At(g, i)]
    <3> WITNESS f
    <3> QED BY <2>1
  <2> HIDE DEF At
  <2> QED BY <2>2
<1>2. ASSUME NEW m \in 1..(n - 1), m \in Good
      PROVE  m + 1 \in Good
  <2>1. PICK f : f = [i \in 1..m |-> At(f, i)]
    BY <1>2
  <2> DEFINE g == [i \in 1..(m + 1) |-> IF i \in 1..m THEN f[i] ELSE At(f, i)]
  <2>2. ASSUME NEW i \in 1..(m + 1) PROVE g[i] = At(g, i)
    <3>1. i \in 1..m => f[i] = At(f, i)
      <4> HIDE DEF At
      <4> QED BY <2>1
    <3>2. g[i] = At(f, i)
      <4> HIDE DEF At
      <4> QED BY <3>1
    <3>3. i # 1 => g[i - 1] = f[i - 1]
      <4>1. i # 1 => i - 1 \in 1..m /\ i - 1 \in 1..(m + 1)
        OBVIOUS
      <4> HIDE DEF At
      <4> QED BY <4>1
    <3>4. At(g, i) = At(f, i)
      <4> HIDE DEF g
      <4> QED BY <3>3
    <3> QED BY <3>2, <3>4
  <2>3. g = [i \in 1..(m + 1) |-> At(g, i)]
    <3>1. g = [i \in 1..(m + 1) |-> g[i]]
      OBVIOUS
    <3> HIDE DEF At, g
    <3> QED BY <2>2, <3>1
  <2>4. m + 1 \in 1..n
    OBVIOUS
  <2>5. \E h : h = [i \in 1..(m + 1) |-> At(h, i)]
    <3> WITNESS g
    <3> QED BY <2>3
  <2> HIDE DEF At
  <2> QED BY <2>4, <2>5
<1>3. n \in Good
  <2> SUFFICES ASSUME n \notin Good PROVE FALSE
    OBVIOUS
  <2> DEFINE B == (1..n) \ Good
  <2> HIDE DEF Good
  <2>1. B \in SUBSET Nat /\ n \in B
    OBVIOUS
  <2>2. PICK m \in B : \A k \in B : m <= k
    BY <2>1, Least
  <2>3. m # 1 /\ m - 1 \in 1..(n - 1) /\ m - 1 \notin B
    BY <1>1, <2>2
  <2>4. m - 1 \in Good /\ (m - 1) + 1 = m
    BY <2>3
  <2> QED BY <1>2, <2>3, <2>4
<1>4. \E f : f = [i \in 1..n |-> At(f, i)]
  <2> HIDE DEF At
  <2> QED BY <1>3
<1> DEFINE f == CHOOSE f : f = [i \in 1..n |-> At(f, i)]
<1>5. f = [i \in 1..n |-> At(f, i)]
  <2> HIDE DEF At
  <2> QED BY <1>4
<1>6. FlattenSeq(seqs) = f[n]
  <2>1. Len(seqs) = n
    OBVIOUS
  <2> QED BY <2>1 DEF FlattenSeq
<1> HIDE DEF f
<1>7. \A i \in 1..n : f[i] = At(f, i)
  <2> HIDE DEF At
  <2> QED BY <1>5
<1>8. f[1] = seqs[1]
  <2>1. 1 \in 1..n /\ At(f, 1) = seqs[1]
    OBVIOUS
  <2> HIDE DEF At
  <2> QED BY <1>7, <2>1
<1>9. ASSUME NEW i \in 2..n PROVE f[i] = f[i - 1] \o seqs[i]
  <2>1. i \in 1..n /\ i # 1
    OBVIOUS
  <2>2. At(f, i) = f[i - 1] \o seqs[i]
    BY <2>1
  <2> HIDE DEF At
  <2> QED BY <1>7, <2>1, <2>2
<1>10. Chained(f, seqs, n)
  BY <1>6, <1>8, <1>9, Zenon DEF Chained
<1> QED BY <1>10, Zenon

(* Everything in one of the sequences is in all of them together.           *)
LEMMA FlatRange ==
  ASSUME NEW T, NEW n \in Nat, NEW seqs \in [1..n -> Seq(T)]
  PROVE  /\ FlattenSeq(seqs) \in Seq(T)
         /\ \A e : e \in ToSet(FlattenSeq(seqs)) <=> \E i \in 1..n : e \in ToSet(seqs[i])
<1>1. CASE n = 0
  <2>1. Len(seqs) = 0 /\ seqs \in Seq(T) /\ DOMAIN seqs = {}
    <3>1. seqs \in Seq(Seq(T)) /\ Len(seqs) = 0 /\ DOMAIN seqs = 1..0
      BY <1>1, IsSequence
    <3>2. seqs = <<>>
      BY <3>1
    <3> QED BY <3>1, <3>2
  <2>2. FlattenSeq(seqs) = seqs
    BY <2>1 DEF FlattenSeq
  <2> QED BY <1>1, <2>1, <2>2 DEF ToSet
<1>2. CASE n > 0
  <2>1. PICK f : Chained(f, seqs, n)
    BY <1>2, ChainExists
  <2> DEFINE Tells(i) == /\ f[i] \in Seq(T)
                         /\ \A e : e \in ToSet(f[i]) <=> \E j \in 1..i : e \in ToSet(seqs[j])
             B        == {i \in 1..n : ~Tells(i)}
  <2>2. Tells(1)
    BY <1>2, <2>1 DEF Chained
  <2>3. ASSUME NEW i \in 2..n, Tells(i - 1)
        PROVE  Tells(i)
    <3>1. f[i] = f[i - 1] \o seqs[i] /\ seqs[i] \in Seq(T) /\ f[i - 1] \in Seq(T)
      <4>1. i \in 1..n
        OBVIOUS
      <4>2. f[i] = f[i - 1] \o seqs[i]
        BY <2>1, Zenon DEF Chained
      <4>3. seqs[i] \in Seq(T)
        BY <4>1, Zenon
      <4> QED BY <2>3, <4>2, <4>3, Zenon
    <3>2. /\ f[i] \in Seq(T)
          /\ \A e : e \in ToSet(f[i]) <=> e \in ToSet(f[i - 1]) \/ e \in ToSet(seqs[i])
      <4> DEFINE a == f[i - 1]
                 b == seqs[i]
      <4>1. a \in Seq(T) /\ b \in Seq(T) /\ f[i] = a \o b
        BY <3>1
      <4> HIDE DEF a, b
      <4>2. a \o b \in Seq(T) /\ \A e : e \in ToSet(a \o b) <=> e \in ToSet(a) \/ e \in ToSet(b)
        BY <4>1, Joined, Zenon
      <4> QED BY <4>1, <4>2, Zenon DEF a, b
    <3>3. \A j : j \in 1..i <=> j \in 1..(i - 1) \/ j = i
      OBVIOUS
    <3> QED BY <2>3, <3>2, <3>3
  <2>4. B = {}
    <3> SUFFICES ASSUME B # {} PROVE FALSE
      OBVIOUS
    <3> HIDE DEF Tells
    <3>1. B \in SUBSET Nat
      OBVIOUS
    <3>2. PICK i \in B : \A k \in B : i <= k
      BY <3>1, Least
    <3>3. i # 1 /\ i \in 2..n /\ i - 1 \in 1..n /\ i - 1 \notin B
      BY <2>2, <3>2
    <3> QED BY <2>3, <3>3
  <2>5. Tells(n)
    <3> HIDE DEF Tells
    <3> QED BY <1>2, <2>4
  <2> QED BY <2>1, <2>5 DEF Chained
<1> QED BY <1>1, <1>2

(* If all but one are empty, there is nothing else.                         *)
LEMMA FlatOne ==
  ASSUME NEW T, NEW n \in Nat, NEW seqs \in [1..n -> Seq(T)], NEW t \in Nat,
         \A i \in 1..n : i # t => seqs[i] = <<>>
  PROVE  /\ t \in 1..n => FlattenSeq(seqs) = seqs[t]
         /\ t \notin 1..n => FlattenSeq(seqs) = <<>>
<1>1. CASE n = 0
  <2>1. seqs = <<>> /\ Len(seqs) = 0 /\ t \notin 1..n
    <3>1. seqs \in Seq(Seq(T)) /\ Len(seqs) = 0
      BY <1>1, IsSequence
    <3> QED BY <1>1, <3>1
  <2> QED BY <2>1 DEF FlattenSeq
<1>2. CASE n > 0
  <2>1. PICK f : Chained(f, seqs, n)
    BY <1>2, ChainExists
  <2> DEFINE Tells(i) == /\ t \in 1..i => f[i] = seqs[t]
                         /\ t \notin 1..i => f[i] = <<>>
             B        == {i \in 1..n : ~Tells(i)}
  <2>2. Tells(1)
    <3>1. f[1] = seqs[1] /\ 1 \in 1..n /\ (t \in 1..1 <=> t = 1)
      BY <1>2, <2>1 DEF Chained
    <3> QED BY <3>1
  <2>3. ASSUME NEW i \in 2..n, Tells(i - 1)
        PROVE  Tells(i)
    <3>1. f[i] = f[i - 1] \o seqs[i] /\ seqs[i] \in Seq(T)
      <4>1. i \in 1..n
        OBVIOUS
      <4>2. f[i] = f[i - 1] \o seqs[i]
        BY <2>1, Zenon DEF Chained
      <4>3. seqs[i] \in Seq(T)
        BY <4>1, Zenon
      <4> QED BY <4>2, <4>3
    <3>2. CASE t \in 1..(i - 1)
      <4>1. f[i - 1] = seqs[t] /\ seqs[i] = <<>> /\ seqs[t] \in Seq(T) /\ t \in 1..i
        BY <2>3, <3>2
      <4> QED BY <3>1, <4>1, Joined, Zenon
    <3>3. CASE t = i
      <4>1. f[i - 1] = <<>>
        BY <2>3, <3>3
      <4>2. f[i] = seqs[i]
        BY <3>1, <4>1, Joined, Zenon
      <4> QED BY <3>3, <4>2
    <3>4. CASE t \notin 1..i
      <4>1. f[i - 1] = <<>> /\ seqs[i] = <<>>
        BY <2>3, <3>4
      <4>2. f[i] = <<>>
        BY <3>1, <4>1, Joined, Zenon
      <4> QED BY <3>4, <4>2
    <3> QED BY <3>2, <3>3, <3>4
  <2>4. B = {}
    <3> SUFFICES ASSUME B # {} PROVE FALSE
      OBVIOUS
    <3> HIDE DEF Tells
    <3>1. B \in SUBSET Nat
      OBVIOUS
    <3>2. PICK i \in B : \A k \in B : i <= k
      BY <3>1, Least
    <3>3. i # 1 /\ i \in 2..n /\ i - 1 \in 1..n /\ i - 1 \notin B
      BY <2>2, <3>2
    <3> QED BY <2>3, <3>3
  <2>5. Tells(n)
    <3> HIDE DEF Tells
    <3> QED BY <1>2, <2>4
  <2> QED BY <2>1, <2>5 DEF Chained
<1> QED BY <1>1, <1>2

-----------------------------------------------------------------------------
(* The events of an item.                                                   *)

LEMMA Providers ==
  ASSUME setting \in Settings, provider \in setting.providers
  PROVE  /\ style \in Styles /\ answer \in Seq(ItemKinds) /\ Conforms(style, answer)
         /\ Len(answer) \in Nat /\ DOMAIN answer = 1..Len(answer)
         /\ \A i \in DOMAIN answer : i \in Nat /\ (answer[i] = "text" \/ answer[i] = "call")
<1>1. style \in Styles /\ answer \in Seq(ItemKinds) /\ Conforms(style, answer)
  BY ProvidersAssumption DEF style, answer
<1>2. Len(answer) \in Nat /\ DOMAIN answer = 1..Len(answer)
  BY <1>1
<1>3. \A i \in DOMAIN answer : i \in Nat /\ answer[i] \in ItemKinds
  BY <1>1
<1> QED BY <1>1, <1>2, <1>3 DEF ItemKinds

Follows(s, a, b) ==
    /\ Len(s) = Len(a) + Len(b)
    /\ \A n \in 1..Len(a) : s[n] = a[n]
    /\ \A n \in 1..Len(b) : s[Len(a) + n] = b[n]

LEMMA Two ==
  ASSUME NEW T, NEW a \in Seq(T), NEW b \in Seq(T)
  PROVE  Len(a) \in Nat /\ Len(b) \in Nat /\ a \o b \in Seq(T) /\ Follows(a \o b, a, b)
BY DEF Follows

Follow(s, a, b, c, d) ==
    /\ Len(s) = Len(a) + Len(b) + Len(c) + Len(d)
    /\ \A n \in 1..Len(a) : s[n] = a[n]
    /\ \A n \in 1..Len(b) : s[Len(a) + n] = b[n]
    /\ \A n \in 1..Len(c) : s[Len(a) + Len(b) + n] = c[n]
    /\ \A n \in 1..Len(d) : s[Len(a) + Len(b) + Len(c) + n] = d[n]

LEMMA Four ==
  ASSUME NEW T, NEW a \in Seq(T), NEW b \in Seq(T), NEW c \in Seq(T), NEW d \in Seq(T)
  PROVE  /\ Len(a) \in Nat /\ Len(b) \in Nat /\ Len(c) \in Nat /\ Len(d) \in Nat
         /\ Follow(((a \o b) \o c) \o d, a, b, c, d)
<1> DEFINE ab  == a \o b
           abc == ab \o c
           s   == abc \o d
<1>1. Len(a) \in Nat /\ Len(b) \in Nat /\ ab \in Seq(T) /\ Follows(ab, a, b)
  BY Two, Zenon
<1> HIDE DEF ab
<1>2. Len(ab) \in Nat /\ Len(c) \in Nat /\ abc \in Seq(T) /\ Follows(abc, ab, c)
  BY <1>1, Two, Zenon
<1> HIDE DEF abc
<1>3. Len(abc) \in Nat /\ Len(d) \in Nat /\ s \in Seq(T) /\ Follows(s, abc, d)
  BY <1>2, Two, Zenon
<1> HIDE DEF s
<1>4. /\ Len(abc) = Len(a) + Len(b) + Len(c) /\ Len(ab) = Len(a) + Len(b)
      /\ Len(s) = Len(a) + Len(b) + Len(c) + Len(d)
  BY <1>1, <1>2, <1>3 DEF Follows
<1>5. ASSUME NEW n \in 1..Len(a) PROVE s[n] = a[n]
  <2>1. n \in 1..Len(ab) /\ n \in 1..Len(abc)
    BY <1>1, <1>2, <1>3, <1>4
  <2> QED BY <1>1, <1>2, <1>3, <2>1, Zenon DEF Follows
<1>6. ASSUME NEW n \in 1..Len(b) PROVE s[Len(a) + n] = b[n]
  <2>1. Len(a) + n \in 1..Len(ab) /\ Len(a) + n \in 1..Len(abc)
    BY <1>1, <1>2, <1>3, <1>4
  <2> QED BY <1>1, <1>2, <1>3, <2>1, Zenon DEF Follows
<1>7. ASSUME NEW n \in 1..Len(c) PROVE s[Len(a) + Len(b) + n] = c[n]
  <2>1. Len(ab) + n \in 1..Len(abc)
    BY <1>1, <1>2, <1>3, <1>4
  <2> QED BY <1>2, <1>3, <1>4, <2>1, Zenon DEF Follows
<1>8. \A n \in 1..Len(d) : s[Len(a) + Len(b) + Len(c) + n] = d[n]
  BY <1>3, <1>4, Zenon DEF Follows
<1>9. Follow(s, a, b, c, d)
  BY <1>4, <1>5, <1>6, <1>7, <1>8, Zenon DEF Follow
<1> QED BY <1>1, <1>2, <1>3, <1>9 DEF s, abc, ab

LEMMA IfIs ==
  ASSUME NEW T, NEW e \in T, NEW condition
  PROVE  /\ If(condition, e) \in Seq(T)
         /\ Len(If(condition, e)) = (IF condition THEN 1 ELSE 0)
         /\ \A n \in 1..Len(If(condition, e)) : If(condition, e)[n] = e
BY DEF If

(* Which event of an item is the next, by how many were sent before.        *)
EventAt(i, n) ==
    LET event == Script(i)[n + 1] IN
    /\ event = "added" <=> style.added /\ n = 0
    /\ event = "delta" <=> style.deltas /\ n \in First..(First + 1)
    /\ event = "arguments" =>
           /\ answer[i] = "call" /\ n >= First /\ style.arguments
           /\ style.deltas => n >= First + 2
    /\ event = "done" =>
           /\ style.done # {} /\ n >= First
           /\ style.deltas => n >= First + 2
    /\ style.done # {} /\ n + 1 = Len(Script(i)) => event = "done"

LEMMA Scripts ==
  ASSUME style \in Styles, NEW i, answer[i] \in ItemKinds
  PROVE  /\ Len(Script(i)) \in Nat
         /\ style.added => Len(Script(i)) > 0
         /\ style.deltas => Len(Script(i)) >= First + 2
         /\ style.done # {} => Len(Script(i)) > First
         /\ ~style.added /\ ~style.deltas /\ ~style.arguments => Len(Script(i)) < 2
         /\ style.deltas /\ ~style.added /\ ~style.arguments /\ style.done = {} =>
                Len(Script(i)) = 2
         /\ \A n \in 0..(Len(Script(i)) - 1) : EventAt(i, n)
<1> DEFINE a == If(style.added, "added")
           b == IF style.deltas THEN [n \in 1..Fragments |-> "delta"] ELSE <<>>
           c == If(style.arguments /\ answer[i] = "call", "arguments")
           d == If(answer[i] \in style.done, "done")
           s == Script(i)
           Events == {"added", "delta", "arguments", "done"}
<1>0. /\ style.added \in BOOLEAN /\ style.deltas \in BOOLEAN /\ style.arguments \in BOOLEAN
      /\ style.done = {} \/ style.done = ItemKinds
  BY DEF Styles
<1>e. /\ "added" \in Events /\ "delta" \in Events /\ "arguments" \in Events /\ "done" \in Events
      /\ (answer[i] \in style.done <=> style.done # {})
  BY <1>0
<1>1. /\ a \in Seq(Events) /\ Len(a) = (IF style.added THEN 1 ELSE 0)
      /\ \A n \in 1..Len(a) : a[n] = "added"
  <2> HIDE DEF Events
  <2> QED BY <1>e, IfIs, Zenon
<1>2. /\ b \in Seq(Events) /\ Len(b) = (IF style.deltas THEN 2 ELSE 0)
      /\ \A n \in 1..Len(b) : b[n] = "delta"
  <2> HIDE DEF Events
  <2>1. [n \in 1..2 |-> "delta"] \in [1..2 -> Events]
    BY <1>e
  <2>2. [n \in 1..2 |-> "delta"] \in Seq(Events) /\ Len([n \in 1..2 |-> "delta"]) = 2
    BY <2>1, IsSequence
  <2>3. <<>> \in Seq(Events) /\ Len(<<>>) = 0
    OBVIOUS
  <2>4. \A n \in 1..2 : [m \in 1..2 |-> "delta"][n] = "delta"
    OBVIOUS
  <2>5. CASE style.deltas
    BY <2>2, <2>4, <2>5 DEF Fragments
  <2>6. CASE ~style.deltas
    BY <2>3, <2>6
  <2> QED BY <2>5, <2>6
<1>3. /\ c \in Seq(Events) /\ Len(c) = (IF style.arguments /\ answer[i] = "call" THEN 1 ELSE 0)
      /\ \A n \in 1..Len(c) : c[n] = "arguments"
  <2> HIDE DEF Events
  <2> QED BY <1>e, IfIs, Zenon
<1>4. /\ d \in Seq(Events) /\ Len(d) = (IF style.done # {} THEN 1 ELSE 0)
      /\ \A n \in 1..Len(d) : d[n] = "done"
  <2> HIDE DEF Events
  <2>1. /\ d \in Seq(Events) /\ Len(d) = (IF answer[i] \in style.done THEN 1 ELSE 0)
        /\ \A n \in 1..Len(d) : d[n] = "done"
    BY <1>e, IfIs, Zenon
  <2> HIDE DEF d
  <2> QED BY <1>e, <2>1
<1>5. s = ((a \o b) \o c) \o d
  BY DEF Script
<1>f. First = (IF style.added THEN 1 ELSE 0)
  BY DEF First
<1> HIDE DEF a, b, c, d, s, Events
<1>6. /\ Len(a) \in Nat /\ Len(b) \in Nat /\ Len(c) \in Nat /\ Len(d) \in Nat
      /\ Follow(s, a, b, c, d)
  BY <1>1, <1>2, <1>3, <1>4, <1>5, Four
<1> DEFINE la == Len(a)
           lb == Len(b)
           lc == Len(c)
           ld == Len(d)
           N  == Len(s)
<1>g. /\ la = (IF style.added THEN 1 ELSE 0) /\ lb = (IF style.deltas THEN 2 ELSE 0)
      /\ lc = (IF style.arguments /\ answer[i] = "call" THEN 1 ELSE 0)
      /\ ld = (IF style.done # {} THEN 1 ELSE 0)
      /\ N = la + lb + lc + ld /\ la \in Nat /\ lb \in Nat /\ lc \in Nat /\ ld \in Nat
  BY <1>1, <1>2, <1>3, <1>4, <1>6, Zenon DEF Follow
<1> HIDE DEF la, lb, lc, ld, N
<1>7. /\ N \in Nat
      /\ style.added => N > 0
      /\ style.deltas => N >= First + 2
      /\ style.done # {} => N > First
      /\ ~style.added /\ ~style.deltas /\ ~style.arguments => N < 2
      /\ style.deltas /\ ~style.added /\ ~style.arguments /\ style.done = {} => N = 2
  BY <1>0, <1>f, <1>g
<1>8. ASSUME NEW n \in 0..(N - 1)
      PROVE  EventAt(i, n)
  <2> DEFINE event == s[n + 1]
  <2>0. /\ n + 1 \in 1..la => event = "added"
        /\ n + 1 - la \in 1..lb => event = "delta"
        /\ n + 1 - la - lb \in 1..lc => event = "arguments"
        /\ n + 1 - la - lb - lc \in 1..ld => event = "done"
    <3>1. /\ n + 1 = la + (n + 1 - la) /\ n + 1 = la + lb + (n + 1 - la - lb)
          /\ n + 1 = la + lb + lc + (n + 1 - la - lb - lc)
      BY <1>g
    <3>2. n + 1 \in 1..la => event = "added"
      BY <1>1, <1>6, Zenon DEF Follow, la
    <3>3. n + 1 - la \in 1..lb => event = "delta"
      BY <1>2, <1>6, <3>1, Zenon DEF Follow, la, lb
    <3>4. n + 1 - la - lb \in 1..lc => event = "arguments"
      BY <1>3, <1>6, <3>1, Zenon DEF Follow, la, lb, lc
    <3>5. n + 1 - la - lb - lc \in 1..ld => event = "done"
      BY <1>4, <1>6, <3>1, Zenon DEF Follow, la, lb, lc, ld
    <3> QED BY <3>2, <3>3, <3>4, <3>5
  <2> HIDE DEF event
  <2>1. \/ n + 1 \in 1..la \/ n + 1 - la \in 1..lb \/ n + 1 - la - lb \in 1..lc
        \/ n + 1 - la - lb - lc \in 1..ld
    BY <1>g
  <2>2. n + 1 \in 1..la => /\ style.added /\ n = 0 /\ n \notin First..(First + 1)
                           /\ style.done # {} => n + 1 # N
    BY <1>f, <1>g
  <2>3. n + 1 - la \in 1..lb => /\ style.deltas /\ n \in First..(First + 1)
                                /\ ~(style.added /\ n = 0)
                                /\ style.done # {} => n + 1 # N
    BY <1>f, <1>g
  <2>4. n + 1 - la - lb \in 1..lc =>
            /\ style.arguments /\ answer[i] = "call" /\ n >= First /\ ~(style.added /\ n = 0)
            /\ style.deltas => n >= First + 2 /\ n \notin First..(First + 1)
            /\ style.done # {} => n + 1 # N
    BY <1>0, <1>f, <1>g
  <2>5. n + 1 - la - lb - lc \in 1..ld =>
            /\ style.done # {} /\ n >= First /\ ~(style.added /\ n = 0)
            /\ style.deltas => n >= First + 2 /\ n \notin First..(First + 1)
    BY <1>f, <1>g
  <2>6. event = Script(i)[n + 1]
    BY DEF event, s
  <2>7. N = Len(Script(i))
    BY DEF N, s
  <2> HIDE DEF N
  <2> QED BY <2>0, <2>1, <2>2, <2>3, <2>4, <2>5, <2>6, <2>7 DEF EventAt
<1> QED BY <1>7, <1>8 DEF N, s

LEMMA Same ==
  ASSUME UNCHANGED provider
  PROVE  /\ style' = style /\ answer' = answer /\ (IsChat <=> IsChat') /\ First' = First
         /\ Texts' = Texts /\ Calls' = Calls /\ (Placed <=> Placed') /\ Whole' = Whole
         /\ \A i : Script(i)' = Script(i)
<1>1. style' = style /\ answer' = answer
  BY DEF style, answer
<1>2. First' = First /\ (IsChat <=> IsChat') /\ Texts' = Texts /\ Calls' = Calls
  BY <1>1 DEF First, IsChat, Texts, Calls
<1>3. (Placed <=> Placed') /\ Whole' = Whole
  BY <1>1 DEF Placed, Whole, Said
<1>4. \A i : Script(i)' = Script(i)
  BY <1>1 DEF Script
<1> QED BY <1>1, <1>2, <1>3, <1>4

LEMMA Streaming ==
  ASSUME StreamInv, phase = "streaming"
  PROVE  /\ setting \in Settings /\ provider \in setting.providers /\ Conversing
         /\ style \in Styles /\ Conforms(style, answer) /\ answer \in Seq(ItemKinds)
         /\ Len(answer) \in Nat /\ DOMAIN answer = 1..Len(answer) /\ DOMAIN wire = DOMAIN answer
         /\ First \in 0..1 /\ (style.added => First = 1) /\ (~style.added => First = 0)
         /\ \A i \in DOMAIN answer :
               /\ i \in Nat /\ answer[i] \in ItemKinds
               /\ wire[i] \in Nat /\ Len(Script(i)) \in Nat /\ wire[i] <= Len(Script(i))
<1>1. setting \in Settings /\ Conversing
  BY DEF StreamInv
<1>2. provider \in setting.providers /\ wire \in [DOMAIN answer -> Nat]
      /\ \A i \in DOMAIN answer : wire[i] <= Len(Script(i))
  BY <1>1 DEF Conversing
<1>3. /\ style \in Styles /\ answer \in Seq(ItemKinds) /\ Conforms(style, answer)
      /\ Len(answer) \in Nat /\ DOMAIN answer = 1..Len(answer)
      /\ \A i \in DOMAIN answer : i \in Nat /\ answer[i] \in ItemKinds
  BY <1>1, <1>2, Providers DEF ItemKinds
<1>4. \A i \in DOMAIN answer : Len(Script(i)) \in Nat
  BY <1>3, Scripts
<1>5. First \in 0..1 /\ (style.added => First = 1) /\ (~style.added => First = 0)
  BY <1>3 DEF First, Styles
<1>6. DOMAIN wire = DOMAIN answer /\ \A i \in DOMAIN answer : wire[i] \in Nat
  BY <1>2
<1> QED BY <1>1, <1>2, <1>3, <1>4, <1>5, <1>6

(* What an event changes of what was sent.                                  *)
Sent(i) ==
    /\ i \in DOMAIN answer /\ ~IsSent(i) /\ EventAt(i, wire[i])
    /\ wire' \in [DOMAIN answer -> Nat] /\ wire'[i] = wire[i] + 1
    /\ \A j \in DOMAIN answer : j # i => wire'[j] = wire[j]

LEMMA Advances ==
  ASSUME StreamInv, phase = "streaming", NEW i \in DOMAIN wire, NEW event, NextEvent(i, event)
  PROVE  /\ Sent(i) /\ Script(i)[wire[i] + 1] = event
         /\ UNCHANGED <<setting, requests, provider, result>>
         /\ provider' \in setting'.providers /\ InTurn'
         /\ \A j \in DOMAIN answer' : wire'[j] <= Len(Script(j))'
<1>1. /\ i \in DOMAIN answer /\ ~IsSent(i) /\ Script(i)[wire[i] + 1] = event
      /\ wire' = [wire EXCEPT ![i] = @ + 1] /\ UNCHANGED <<setting, requests, provider, result>>
      /\ \A j \in 1..(i - 1) : wire[j] > 0 \/ IsSent(j)
  BY Streaming DEF NextEvent
<1>2. /\ wire' \in [DOMAIN answer -> Nat] /\ wire'[i] = wire[i] + 1
      /\ \A j \in DOMAIN answer : j # i => wire'[j] = wire[j]
  <2>1. wire \in [DOMAIN answer -> Nat]
    BY Streaming DEF Conversing
  <2> QED BY <1>1, <2>1
<1>3. wire[i] \in 0..(Len(Script(i)) - 1)
  BY <1>1, Streaming DEF IsSent
<1>4. EventAt(i, wire[i])
  BY <1>1, <1>3, Streaming, Scripts
<1>5. /\ answer' = answer /\ \A j : Script(j)' = Script(j)
  BY <1>1, Same
<1>6. \A j \in DOMAIN answer' : wire'[j] <= Len(Script(j))'
  BY <1>1, <1>2, <1>3, <1>5, Streaming
<1>7. InTurn'
  <2> SUFFICES ASSUME NEW k \in DOMAIN answer, NEW j \in DOMAIN answer, j < k, wire'[k] > 0
               PROVE  wire'[j] > 0 \/ wire'[j] = Len(Script(j))
    BY <1>5 DEF InTurn, Begun, IsSent
  <2>1. CASE j = i
    BY <1>1, <1>2, <2>1, Streaming
  <2>2. CASE j # i /\ k = i
    BY <1>1, <1>2, <2>2, Streaming DEF IsSent
  <2>3. CASE j # i /\ k # i
    <3>1. wire[k] > 0
      BY <1>2, <2>3
    <3>2. wire[j] > 0 \/ IsSent(j)
      BY <3>1, Streaming DEF Conversing, InTurn, Begun
    <3> QED BY <1>2, <2>3, <3>2 DEF IsSent
  <2> QED BY <2>1, <2>2, <2>3
<1> QED BY <1>1, <1>2, <1>4, <1>6, <1>7, Streaming DEF Sent

LEMMA StaysStreaming ==
  ASSUME StreamInv, phase = "streaming", NEW i \in DOMAIN wire, NEW event, NextEvent(i, event),
         phase' \in {"streaming", "failed"}, IsInjective(shown'),
         phase' = "streaming" => /\ shown' \in Seq(Nat \X Nat)
                                 /\ IF IsChat THEN Collected' ELSE Decoded'
  PROVE  StreamInv'
<1>1. /\ Sent(i) /\ UNCHANGED <<setting, requests, provider, result>>
      /\ provider' \in setting'.providers /\ InTurn'
      /\ \A j \in DOMAIN answer' : wire'[j] <= Len(Script(j))'
  BY Advances
<1>2. wire' \in [DOMAIN answer' -> Nat] /\ (IsChat <=> IsChat')
  BY <1>1, Same DEF Sent
<1>3. setting' \in Settings /\ requests' \in 0..(setting'.retries + 1)
  BY <1>1 DEF StreamInv
<1>4. ShownOnce'
  BY <1>1, <1>3, SettingsAssumption DEF ShownOnce
<1>5. phase' = "streaming" => Conversing'
  BY <1>1, <1>2 DEF Conversing
<1> QED BY <1>3, <1>4, <1>5 DEF StreamInv, AnswerIsFaithful, Phases

-----------------------------------------------------------------------------
(* A chat stream.                                                           *)

LEMMA Appended ==
  ASSUME NEW T, NEW p \in Seq(T), NEW e \in T, NEW n \in Nat, Len(p) = n
  PROVE  /\ Append(p, e) = [k \in 1..(n + 1) |-> IF k = n + 1 THEN e ELSE p[k]]
         /\ Append(p, e) \in Seq(T)
<1> DEFINE q == Append(p, e)
<1>1. /\ q \in Seq(T) /\ Len(q) = n + 1
      /\ \A k \in 1..n : q[k] = p[k]
      /\ q[n + 1] = e
  <2>1. /\ q \in Seq(T) /\ Len(q) = Len(p) + 1
        /\ \A k \in 1..Len(p) : q[k] = p[k]
        /\ q[Len(p) + 1] = e
    <3> HIDE DEF q
    <3>1. q = Append(p, e)
      BY DEF q
    <3> QED BY <3>1, AppendProperties, Zenon
  <2> QED BY <2>1, Zenon
<1> HIDE DEF q
<1>2. q = [k \in 1..(n + 1) |-> q[k]]
  BY <1>1
<1>3. \A k \in 1..(n + 1) : q[k] = (IF k = n + 1 THEN e ELSE p[k])
  BY <1>1
<1>4. q = [k \in 1..(n + 1) |-> IF k = n + 1 THEN e ELSE p[k]]
  BY <1>2, <1>3
<1> QED BY <1>1, <1>4 DEF q

Pieces(i, n) == [k \in 1..n |-> <<i, k>>]

LEMMA PiecesAre ==
  ASSUME NEW i \in Nat, NEW n \in Nat
  PROVE  /\ Pieces(i, n) \in Seq(Nat \X Nat) /\ Len(Pieces(i, n)) = n
         /\ Append(Pieces(i, n), <<i, n + 1>>) = Pieces(i, n + 1)
         /\ Pieces(i, 0) = <<>>
         /\ IsInjective(Pieces(i, n))
         /\ ToSet(Pieces(i, n)) = {i} \X (1..n)
<1>1. Pieces(i, n) \in [1..n -> Nat \X Nat]
  BY DEF Pieces
<1>2. Pieces(i, n) \in Seq(Nat \X Nat) /\ Len(Pieces(i, n)) = n
  BY <1>1, IsSequence
<1>3. Append(Pieces(i, n), <<i, n + 1>>) = Pieces(i, n + 1)
  <2> DEFINE p == Pieces(i, n)
             e == <<i, n + 1>>
  <2>1. /\ Append(p, e) = [k \in 1..(n + 1) |-> IF k = n + 1 THEN e ELSE p[k]]
    <3>1. p \in Seq(Nat \X Nat) /\ Len(p) = n /\ e \in Nat \X Nat
      BY <1>2
    <3> HIDE DEF p, e
    <3> QED BY <3>1, Appended
  <2>2. \A k \in 1..(n + 1) : (IF k = n + 1 THEN e ELSE p[k]) = <<i, k>>
    BY DEF Pieces
  <2> HIDE DEF p, e
  <2>3. Append(p, e) = [k \in 1..(n + 1) |-> <<i, k>>]
    BY <2>1, <2>2
  <2> QED BY <2>3 DEF p, e, Pieces
<1>4. Pieces(i, 0) = <<>>
  BY DEF Pieces
<1>5. IsInjective(Pieces(i, n))
  <2>1. \A a, b \in 1..n : <<i, a>> = <<i, b>> => a = b
    OBVIOUS
  <2>2. DOMAIN Pieces(i, n) = 1..n /\ \A k \in 1..n : Pieces(i, n)[k] = <<i, k>>
    BY DEF Pieces
  <2> QED BY <2>1, <2>2, Zenon DEF IsInjective
<1>6. ToSet(Pieces(i, n)) = {i} \X (1..n)
  <2>1. DOMAIN Pieces(i, n) = 1..n /\ \A k \in 1..n : Pieces(i, n)[k] = <<i, k>>
    BY DEF Pieces
  <2>2. \A e : e \in ToSet(Pieces(i, n)) <=> \E k \in 1..n : e = <<i, k>>
    BY <2>1, Zenon DEF ToSet
  <2>3. \A e : e \in {i} \X (1..n) <=> \E k \in 1..n : e = <<i, k>>
    OBVIOUS
  <2> QED BY <2>2, <2>3, Zenon
<1> QED BY <1>2, <1>3, <1>4, <1>5, <1>6

LEMMA ChatStyle ==
  ASSUME StreamInv, phase = "streaming", IsChat
  PROVE  /\ style.deltas /\ ~style.added /\ ~style.arguments /\ style.done = {} /\ First = 0
         /\ \A i \in DOMAIN answer : Len(Script(i)) = 2
         /\ \A i, j \in Texts : i = j
         /\ Collected
<1>1. style.deltas /\ ~style.added /\ ~style.arguments /\ style.done = {} /\ First = 0
  BY Streaming DEF IsChat, Conforms
<1>2. \A i \in DOMAIN answer : Len(Script(i)) = 2
  BY <1>1, Streaming, Scripts
<1>3. \A i, j \in Texts : i = j
  BY Streaming DEF IsChat, Conforms, Texts
<1> QED BY <1>1, <1>2, <1>3, Streaming DEF Conversing

LEMMA ChatText ==
  ASSUME StreamInv, phase = "streaming", IsChat, NEW i \in DOMAIN wire, TextDelta(i)
  PROVE  StreamInv'
<1>1. /\ NextEvent(i, "delta") /\ i \in Texts /\ UNCHANGED <<phase, decoderVars>>
      /\ shown' = Append(shown, Contents(i)[wire[i] + 1 - Len(If(style.added, "added"))])
  BY Streaming DEF TextDelta, Texts
<1>2. /\ Sent(i) /\ Texts' = Texts /\ Calls' = Calls /\ (IsChat <=> IsChat')
  BY <1>1, Advances, Same
<1>3. wire[i] \in 0..1 /\ i \in Nat /\ i \notin Calls
  <2>1. i \in DOMAIN answer /\ answer[i] = "text" /\ i \notin Calls
    BY <1>1 DEF Texts, Calls
  <2>2. Len(Script(i)) = 2
    BY <2>1, ChatStyle
  <2>3. wire[i] # 2
    BY <1>2, <2>2 DEF Sent, IsSent
  <2>4. i \in Nat /\ wire[i] \in Nat /\ wire[i] <= 2
    BY <2>1, <2>2, Streaming
  <2> QED BY <2>1, <2>3, <2>4
<1>4. Contents(i)[wire[i] + 1 - Len(If(style.added, "added"))] = <<i, wire[i] + 1>>
  <2>1. Len(If(style.added, "added")) = 0
    BY ChatStyle DEF If
  <2> QED BY <1>3, <2>1 DEF Contents, Fragments
<1>5. shown = Pieces(i, wire[i])
  BY <1>1, ChatStyle DEF Collected, Pieces
<1>6. shown' = Pieces(i, wire[i] + 1)
  <2>1. wire[i] \in Nat
    BY <1>3
  <2>2. Append(Pieces(i, wire[i]), <<i, wire[i] + 1>>) = Pieces(i, wire[i] + 1)
    BY <1>3, <2>1, PiecesAre, Zenon
  <2> QED BY <1>1, <1>4, <1>5, <2>2, Zenon
<1>7. shown' \in Seq(Nat \X Nat) /\ IsInjective(shown')
  <2>1. wire[i] + 1 \in Nat
    BY <1>3
  <2> QED BY <1>3, <1>6, <2>1, PiecesAre, Zenon
<1>8. Collected'
  <2>1. added' = Empty /\ done' = Empty /\ partial' = partial
    BY <1>1, ChatStyle DEF Collected, decoderVars
  <2>2. \A c \in Calls : wire'[c] = wire[c]
    BY <1>2, <1>3 DEF Sent, Calls
  <2>3. {c \in Calls : wire'[c] > 0} = {c \in Calls : wire[c] > 0}
    BY <2>2
  <2>4. [j \in {c \in Calls : wire'[c] > 0} |-> Pieces(j, wire'[j])]
           = [j \in {c \in Calls : wire[c] > 0} |-> Pieces(j, wire[j])]
    BY <2>2, <2>3
  <2>5. partial' = [j \in {c \in Calls : wire'[c] > 0} |-> Pieces(j, wire'[j])]
    BY <2>1, <2>4, ChatStyle DEF Collected, Pieces, Begun
  <2>6. \A t \in Texts : shown' = Pieces(t, wire'[t])
    BY <1>1, <1>2, <1>6, ChatStyle DEF Sent
  <2> QED BY <1>1, <1>2, <2>1, <2>5, <2>6 DEF Collected, Begun, Pieces
<1> QED BY <1>1, <1>7, <1>8, StaysStreaming

LEMMA ChatCall ==
  ASSUME StreamInv, phase = "streaming", IsChat, NEW i \in DOMAIN wire, CallDelta(i)
  PROVE  StreamInv'
<1> DEFINE begun == {c \in Calls : wire[c] > 0}
           more  == {c \in Calls : wire'[c] > 0}
           slot  == IF i \in DOMAIN partial THEN partial[i] ELSE <<>>
<1>1. /\ NextEvent(i, "delta") /\ answer[i] = "call" /\ UNCHANGED <<phase, added, done, shown>>
      /\ partial' = Put(partial, i, Append(slot, Contents(i)[wire[i] + 1]))
  BY DEF CallDelta
<1>2. /\ Sent(i) /\ Texts' = Texts /\ Calls' = Calls /\ (IsChat <=> IsChat')
  BY <1>1, Advances, Same
<1>3. wire[i] \in 0..1 /\ i \in Nat /\ i \in Calls
  <2>1. i \in DOMAIN answer /\ i \in Calls
    BY <1>1, <1>2 DEF Calls, Sent
  <2>2. Len(Script(i)) = 2
    BY <2>1, ChatStyle
  <2>3. wire[i] # 2
    BY <1>2, <2>2 DEF Sent, IsSent
  <2>4. i \in Nat /\ wire[i] \in Nat /\ wire[i] <= 2
    BY <2>1, <2>2, Streaming
  <2> QED BY <2>1, <2>3, <2>4
<1>4. /\ added = Empty /\ done = Empty
      /\ partial = [j \in begun |-> Pieces(j, wire[j])]
      /\ \A t \in Texts : shown = Pieces(t, wire[t])
      /\ Texts = {} => shown = <<>>
  BY ChatStyle, Zenon DEF Collected, Pieces, Begun
<1>5. Append(slot, Contents(i)[wire[i] + 1]) = Pieces(i, wire'[i])
  <2>1. Contents(i)[wire[i] + 1] = <<i, wire[i] + 1>>
    BY <1>3 DEF Contents, Fragments
  <2>2. slot = Pieces(i, wire[i])
    <3>1. CASE wire[i] = 0
      BY <1>3, <1>4, <3>1, PiecesAre
    <3>2. CASE wire[i] # 0
      <4>1. i \in begun
        BY <1>3, <3>2
      <4> HIDE DEF begun
      <4> QED BY <1>4, <4>1
    <3> QED BY <3>1, <3>2
  <2>3. wire[i] \in Nat
    BY <1>3
  <2>4. Append(Pieces(i, wire[i]), <<i, wire[i] + 1>>) = Pieces(i, wire[i] + 1)
    BY <1>3, <2>3, PiecesAre, Zenon
  <2> QED BY <1>2, <2>1, <2>2, <2>4, Zenon DEF Sent
<1>6. more = begun \cup {i} /\ \A j \in begun : j # i => wire'[j] = wire[j]
  <2>1. \A c \in Calls : c # i => wire'[c] = wire[c]
    BY <1>2 DEF Sent, Calls
  <2>2. wire'[i] > 0
    BY <1>2, <1>3 DEF Sent
  <2> QED BY <1>3, <2>1, <2>2
<1>7. partial' = [j \in more |-> Pieces(j, wire'[j])]
  <2> HIDE DEF begun, more, slot
  <2>1. DOMAIN partial = begun
    BY <1>4
  <2>2. partial' = [j \in more |-> IF j = i THEN Pieces(i, wire'[i]) ELSE partial[j]]
    BY <1>1, <1>5, <1>6, <2>1 DEF Put
  <2>3. \A j \in more : (IF j = i THEN Pieces(i, wire'[i]) ELSE partial[j]) = Pieces(j, wire'[j])
    BY <1>4, <1>6
  <2> QED BY <2>2, <2>3
<1>8. \A t \in Texts : wire'[t] = wire[t]
  <2>1. \A t \in Texts : t # i /\ t \in DOMAIN answer
    BY <1>1 DEF Texts
  <2> QED BY <1>2, <2>1 DEF Sent
<1>9. Collected'
  <2>1. \A t \in Texts : shown' = Pieces(t, wire'[t])
    BY <1>1, <1>4, <1>8
  <2>2. Texts = {} => shown' = <<>>
    BY <1>1, <1>4
  <2>3. added' = Empty /\ done' = Empty
    BY <1>1, <1>4
  <2> QED BY <1>2, <1>7, <2>1, <2>2, <2>3, Zenon DEF Collected, Begun, Pieces
<1>10. shown' \in Seq(Nat \X Nat) /\ IsInjective(shown')
  BY <1>1, Streaming DEF Conversing, StreamInv, ShownOnce
<1> QED BY <1>1, <1>9, <1>10, StaysStreaming

LEMMA ChatDeltas ==
  ASSUME StreamInv, phase = "streaming", IsChat, NEW i \in DOMAIN wire
  PROVE  ~ItemAdded(i) /\ ~ItemDone(i) /\ ~ArgumentsDone(i)
<1> SUFFICES ASSUME NEW event \in {"added", "done", "arguments"}, NextEvent(i, event)
             PROVE  FALSE
  BY DEF ItemAdded, ItemDone, ArgumentsDone
<1>1. Script(i)[wire[i] + 1] = event /\ EventAt(i, wire[i])
  BY Advances DEF Sent
<1> QED BY <1>1, ChatStyle DEF EventAt

(* What is there of a chat stream at its end.                               *)
LEMMA WholeIs ==
  ASSUME answer \in Seq(ItemKinds)
  PROVE  /\ Whole = [text |-> Whole.text, calls |-> Whole.calls]
         /\ Whole.text = FlattenSeq([n \in DOMAIN answer |->
                             IF n \in Texts THEN Contents(n) ELSE <<>>])
         /\ Whole.calls = InOrder([n \in Calls |-> n])
<1> DEFINE w == [i \in DOMAIN answer |-> i]
<1>1. DOMAIN w = DOMAIN answer /\ \A n \in DOMAIN answer : w[n] = n
  OBVIOUS
<1>2. Whole = Said(w)
  BY DEF Whole
<1> HIDE DEF w
<1>3. [n \in DOMAIN w |-> IF answer[w[n]] = "text" THEN Contents(w[n]) ELSE <<>>]
         = [n \in DOMAIN answer |-> IF n \in Texts THEN Contents(n) ELSE <<>>]
  BY <1>1 DEF Texts
<1>4. {m \in DOMAIN w : answer[w[m]] = "call"} = Calls
  BY <1>1 DEF Calls
<1>5. [n \in Calls |-> w[n]] = [n \in Calls |-> n]
  BY <1>1 DEF Calls
<1> QED BY <1>2, <1>3, <1>4, <1>5 DEF Said

LEMMA ChatWhole ==
  ASSUME StreamInv, phase = "streaming", IsChat
  PROVE  /\ \A t \in Texts : Whole.text = Pieces(t, 2)
         /\ Texts = {} => Whole.text = <<>>
<1> DEFINE n    == Len(answer)
           seqs == [i \in 1..n |-> IF i \in Texts THEN Contents(i) ELSE <<>>]
<1>1. n \in Nat /\ DOMAIN answer = 1..n /\ Texts \in SUBSET 1..n
  BY Streaming DEF Texts
<1>2. Whole.text = FlattenSeq(seqs)
  BY <1>1, Streaming, WholeIs
<1>3. \A i \in 1..n : Contents(i) = Pieces(i, 2) /\ Contents(i) \in Seq(Nat \X Nat)
  BY PiecesAre DEF Contents, Pieces, Fragments
<1>4. \A i \in 1..n : seqs[i] = (IF i \in Texts THEN Contents(i) ELSE <<>>)
  OBVIOUS
<1>5. seqs \in [1..n -> Seq(Nat \X Nat)]
  <2>1. <<>> \in Seq(Nat \X Nat)
    OBVIOUS
  <2> QED BY <1>3, <2>1
<1> HIDE DEF seqs, n
<1>6. ASSUME NEW t \in Texts PROVE Whole.text = Pieces(t, 2)
  <2>1. \A i \in 1..n : i # t => seqs[i] = <<>>
    BY <1>1, <1>4, <1>6, ChatStyle
  <2>2. t \in 1..n /\ t \in Nat
    BY <1>1
  <2>3. FlattenSeq(seqs) = seqs[t]
    BY <1>1, <1>5, <2>1, <2>2, FlatOne, Zenon
  <2> QED BY <1>2, <1>3, <1>4, <2>2, <2>3
<1>7. ASSUME Texts = {} PROVE Whole.text = <<>>
  <2>1. \A i \in 1..n : i # 0 => seqs[i] = <<>>
    BY <1>4, <1>7
  <2>2. 0 \notin 1..n /\ 0 \in Nat
    BY <1>1
  <2>3. FlattenSeq(seqs) = <<>>
    BY <1>1, <1>5, <2>1, <2>2, FlatOne, Zenon
  <2> QED BY <1>2, <2>3
<1> QED BY <1>6, <1>7

(* The items that began are the first ones.                                 *)
LEMMA FirstBegun ==
  ASSUME StreamInv, phase = "streaming", \A i \in DOMAIN answer : IsSent(i) => Begun(i)
  PROVE  \E m \in Nat : {i \in DOMAIN answer : Begun(i)} = {i \in DOMAIN answer : i <= m}
<1> DEFINE B == {i \in DOMAIN answer : Begun(i)}
           n == Len(answer)
<1>1. n \in Nat /\ DOMAIN answer = 1..n
  BY Streaming
<1>2. \A i, j \in DOMAIN answer : j < i /\ Begun(i) => Begun(j)
  BY Streaming DEF Conversing, InTurn
<1>3. CASE B = {}
  <2>1. {i \in DOMAIN answer : i <= 0} = {}
    BY <1>1
  <2> HIDE DEF B
  <2> QED BY <1>3, <2>1 DEF B
<1>4. CASE B # {}
  <2>1. B \in SUBSET 1..n
    BY <1>1
  <2>2. Max(B) \in B /\ \A i \in B : i <= Max(B)
    BY <1>1, <1>4, <2>1, MaxIs, Zenon
  <2> DEFINE m == Max(B)
  <2>3. m \in Nat /\ m \in DOMAIN answer /\ Begun(m)
    BY <1>1, <2>2
  <2>4. \A i \in DOMAIN answer : i \in B => i <= m
    BY <2>2
  <2> HIDE DEF m
  <2>5. \A i \in DOMAIN answer : i <= m => Begun(i)
    BY <1>1, <1>2, <2>3
  <2>6. B = {i \in DOMAIN answer : i <= m}
    BY <2>4, <2>5
  <2> QED BY <2>3, <2>6
<1> QED BY <1>3, <1>4

LEMMA ChatCalls ==
  ASSUME StreamInv, phase = "streaming", IsChat
  PROVE  LET some == InOrder([x \in DOMAIN partial |-> x])
         IN  /\ Len(some) \in Nat
             /\ IsPrefix(some, Whole.calls)
             /\ (\A i \in DOMAIN answer : IsSent(i)) => some = Whole.calls
<1> DEFINE D    == DOMAIN partial
           some == InOrder([x \in D |-> x])
           n    == Len(answer)
<1>1. n \in Nat /\ DOMAIN answer = 1..n /\ Calls \in SUBSET 1..n
  BY Streaming DEF Calls
<1>2. D = {c \in Calls : Begun(c)}
  BY ChatStyle DEF Collected
<1>3. \A i \in DOMAIN answer : IsSent(i) => Begun(i)
  BY ChatStyle DEF IsSent, Begun
<1>4. PICK m \in Nat : {i \in DOMAIN answer : Begun(i)} = {i \in DOMAIN answer : i <= m}
  BY <1>3, FirstBegun
<1>5. D = {x \in Calls : x <= m}
  BY <1>1, <1>2, <1>4
<1>6. Whole.calls = InOrder([x \in Calls |-> x])
  BY Streaming, WholeIs
<1> HIDE DEF D
<1>7. /\ some \in Seq(1..n) /\ IsPrefix(some, InOrder([x \in Calls |-> x]))
  BY <1>1, <1>5, InOrderSome, Zenon
<1>8. ASSUME \A i \in DOMAIN answer : IsSent(i)
      PROVE  some = Whole.calls
  <2>1. D = Calls
    BY <1>1, <1>2, <1>3, <1>8
  <2> QED BY <1>6, <2>1
<1>9. Len(some) \in Nat
  <2> HIDE DEF some
  <2> QED BY <1>7
<1> HIDE DEF some
<1>10. Len(some) \in Nat /\ IsPrefix(some, Whole.calls)
       /\ ((\A i \in DOMAIN answer : IsSent(i)) => some = Whole.calls)
  BY <1>6, <1>7, <1>8, <1>9
<1> QED BY <1>10 DEF some, D

LEMMA ChatTexts ==
  ASSUME StreamInv, phase = "streaming", IsChat
  PROVE  /\ IsPrefix(shown, Whole.text)
         /\ (\A i \in DOMAIN answer : IsSent(i)) => shown = Whole.text
<1>1. CASE Texts = {}
  <2>1. shown = <<>> /\ Whole.text = <<>>
    BY <1>1, ChatStyle, ChatWhole DEF Collected
  <2>2. Pieces(0, 0) \in Seq(Nat \X Nat) /\ Len(Pieces(0, 0)) = 0 /\ Pieces(0, 0) = <<>>
    BY PiecesAre
  <2>3. IsPrefix(Pieces(0, 0), Pieces(0, 0))
    <3> DEFINE p == Pieces(0, 0)
    <3>1. p \in Seq(Nat \X Nat) /\ Len(p) <= Len(p)
      BY <2>2
    <3> HIDE DEF p
    <3>2. IsPrefix(p, p)
      BY <3>1, PrefixIs, Zenon
    <3> QED BY <3>2 DEF p
  <2> QED BY <2>1, <2>2, <2>3
<1>2. CASE Texts # {}
  <2>1. PICK t \in Texts : TRUE
    BY <1>2
  <2>2. t \in DOMAIN answer /\ t \in Nat /\ wire[t] \in 0..2 /\ (IsSent(t) => wire[t] = 2)
    <3>1. t \in DOMAIN answer
      BY DEF Texts
    <3>2. Len(Script(t)) = 2
      BY <3>1, ChatStyle
    <3>3. t \in Nat /\ wire[t] \in Nat /\ wire[t] <= 2
      BY <3>1, <3>2, Streaming
    <3>4. IsSent(t) => wire[t] = 2
      BY <3>2 DEF IsSent
    <3> QED BY <3>1, <3>3, <3>4
  <2>3. shown = Pieces(t, wire[t]) /\ Whole.text = Pieces(t, 2)
    BY <2>1, ChatStyle, ChatWhole DEF Collected, Pieces
  <2>4. IsPrefix(Pieces(t, wire[t]), Pieces(t, 2))
    <3>1. wire[t] \in Nat /\ wire[t] <= 2 /\ 2 \in Nat
      BY <2>2
    <3>2. /\ Pieces(t, wire[t]) \in Seq(Nat \X Nat) /\ Len(Pieces(t, wire[t])) = wire[t]
          /\ Pieces(t, 2) \in Seq(Nat \X Nat) /\ Len(Pieces(t, 2)) = 2
      BY <2>2, <3>1, PiecesAre, Zenon
    <3>3. \A k \in 1..wire[t] : Pieces(t, wire[t])[k] = Pieces(t, 2)[k]
      BY <2>2 DEF Pieces
    <3>4. Len(Pieces(t, wire[t])) <= Len(Pieces(t, 2))
      BY <3>1, <3>2
    <3>5. \A k \in 1..Len(Pieces(t, wire[t])) : Pieces(t, wire[t])[k] = Pieces(t, 2)[k]
      BY <3>2, <3>3, Zenon
    <3> QED BY <3>2, <3>4, <3>5, PrefixIs, Zenon
  <2>5. (\A i \in DOMAIN answer : IsSent(i)) => shown = Whole.text
    BY <2>2, <2>3
  <2> QED BY <2>3, <2>4, <2>5
<1> QED BY <1>1, <1>2

LEMMA ChatCloses ==
  ASSUME StreamInv, phase = "streaming", IsChat, Closed
  PROVE  StreamInv'
<1> DEFINE some == InOrder([x \in DOMAIN partial |-> x])
<1>1. UNCHANGED <<setting, requests, provider, wire, decoderVars, shown>>
  BY DEF Closed
<1>2. \/ phase' = "failed"
      \/ phase' = "answered" /\ result' = [text |-> shown, calls |-> some]
  BY DEF Closed
<1>3. setting' \in Settings /\ requests' \in 0..(setting'.retries + 1) /\ phase' \in Phases
  BY <1>1, <1>2 DEF StreamInv, Phases
<1>4. phase' = "answered" => Len(result'.calls) \in Nat
  BY <1>2, ChatCalls
<1>5. ShownOnce'
  <2>1. requests' <= setting'.retries + 1 /\ IsInjective(shown')
    BY <1>1 DEF StreamInv, ShownOnce
  <2>2. phase' = "answered" => ToSet(shown') = ToSet(result'.text)
    BY <1>1, <1>2
  <2> QED BY <2>1, <2>2 DEF ShownOnce
<1>6. AnswerIsFaithful'
  <2> SUFFICES ASSUME phase' = "answered" PROVE AnswerIsFaithful'
    BY DEF AnswerIsFaithful
  <2>1. result'.text = shown /\ result'.calls = some /\ result' = [text |-> shown, calls |-> some]
    BY <1>2
  <2> HIDE DEF some
  <2>2. Whole' = Whole /\ IsChat' /\ answer' = answer /\ \A i : IsSent(i)' <=> IsSent(i)
    BY <1>1, Same DEF IsSent
  <2>0. ~TakenAtItsWord'
    BY <2>2 DEF TakenAtItsWord
  <2>3. IsPrefix(some, Whole.calls) /\ IsPrefix(shown, Whole.text)
    BY ChatCalls, ChatTexts DEF some
  <2>4. (\A i \in DOMAIN answer : IsSent(i)) => some = Whole.calls /\ shown = Whole.text
    BY ChatCalls, ChatTexts DEF some
  <2>5. (\A i \in DOMAIN answer : IsSent(i)) => result' = Whole
    BY <2>1, <2>4, Streaming, WholeIs
  <2> QED BY <2>0, <2>1, <2>2, <2>3, <2>5 DEF AnswerIsFaithful
<1> QED BY <1>2, <1>3, <1>4, <1>5, <1>6 DEF StreamInv

LEMMA FailsKeeps ==
  ASSUME StreamInv, phase = "streaming", phase' = "failed",
         UNCHANGED <<setting, requests, provider, wire, decoderVars, shown, result>>
  PROVE  StreamInv'
BY DEF StreamInv, Phases, AnswerIsFaithful, ShownOnce

-----------------------------------------------------------------------------
(* A Responses stream.                                                      *)

LEMMA ToldOthers ==
  ASSUME StreamInv, phase = "streaming", NEW i \in DOMAIN wire, NEW event, NextEvent(i, event),
         event # "delta" \/ i \notin Texts
  PROVE  Told' = Told
<1>1. /\ Sent(i) /\ Script(i)[wire[i] + 1] = event /\ UNCHANGED provider
  BY Advances
<1>2. Told' = {f \in Texts \X (1..Fragments) : style.deltas /\ First + f[2] <= wire'[f[1]]}
  BY <1>1, Same DEF Told
<1>3. ASSUME NEW t \in Texts, NEW k \in 1..2, style.deltas
      PROVE  First + k <= wire'[t] <=> First + k <= wire[t]
  <2>1. t \in DOMAIN answer /\ wire[t] \in Nat /\ First \in 0..1
    BY Streaming DEF Texts
  <2>2. CASE t # i
    BY <1>1, <2>1, <2>2 DEF Sent
  <2>3. CASE t = i
    <3>1. ~(wire[i] \in First..(First + 1)) /\ wire'[i] = wire[i] + 1
      BY <1>1, <1>3, <2>3 DEF Sent, EventAt
    <3> QED BY <2>1, <2>3, <3>1
  <2> QED BY <2>2, <2>3
<1>4. \A f \in Texts \X (1..Fragments) :
         style.deltas /\ First + f[2] <= wire'[f[1]] <=> style.deltas /\ First + f[2] <= wire[f[1]]
  <2> SUFFICES ASSUME NEW f \in Texts \X (1..Fragments), style.deltas
               PROVE  First + f[2] <= wire'[f[1]] <=> First + f[2] <= wire[f[1]]
    OBVIOUS
  <2>1. f[1] \in Texts /\ f[2] \in 1..2
    BY DEF Fragments
  <2> QED BY <1>3, <2>1
<1> QED BY <1>2, <1>4 DEF Told

LEMMA ToldOne ==
  ASSUME StreamInv, phase = "streaming", NEW i \in DOMAIN wire, NextEvent(i, "delta"), i \in Texts
  PROVE  /\ Told' = Told \cup {<<i, wire[i] + 1 - First>>}
         /\ <<i, wire[i] + 1 - First>> \notin Told
         /\ <<i, wire[i] + 1 - First>> \in Nat \X Nat
         /\ Contents(i)[wire[i] + 1 - Len(If(style.added, "added"))] = <<i, wire[i] + 1 - First>>
<1> DEFINE e == <<i, wire[i] + 1 - First>>
<1>1. /\ Sent(i) /\ Script(i)[wire[i] + 1] = "delta" /\ UNCHANGED provider
  BY Advances
<1>2. Told' = {f \in Texts \X (1..Fragments) : style.deltas /\ First + f[2] <= wire'[f[1]]}
  BY <1>1, Same DEF Told
<1>3. style.deltas /\ wire[i] \in First..(First + 1) /\ First \in 0..1 /\ wire[i] \in Nat
      /\ i \in Nat /\ wire'[i] = wire[i] + 1
  BY <1>1, Streaming DEF Sent, EventAt
<1>4. wire[i] + 1 - First \in 1..2 /\ Fragments = 2
  BY <1>3 DEF Fragments
<1>5. e \in Texts \X (1..2) /\ e[1] = i /\ e[2] = wire[i] + 1 - First
  BY <1>4
<1>6. e \notin Told
  BY <1>3, <1>5 DEF Told
<1>7. Told' = Told \cup {e}
  <2>1. ASSUME NEW f \in Texts \X (1..2)
        PROVE  First + f[2] <= wire'[f[1]] <=> First + f[2] <= wire[f[1]] \/ f = e
    <3>1. /\ f[1] \in Texts /\ f[2] \in 1..2 /\ f = <<f[1], f[2]>>
          /\ f[1] \in DOMAIN answer /\ wire[f[1]] \in Nat
      BY Streaming DEF Texts
    <3>2. CASE f[1] # i
      <4>1. wire'[f[1]] = wire[f[1]] /\ f # e
        BY <1>1, <1>5, <3>1, <3>2 DEF Sent
      <4> QED BY <4>1
    <3>3. CASE f[1] = i
      <4>1. f = e <=> f[2] = wire[i] + 1 - First
        BY <1>5, <3>1, <3>3
      <4>2. First + f[2] <= wire[i] + 1 <=> First + f[2] <= wire[i] \/ f[2] = wire[i] + 1 - First
        BY <1>3, <3>1
      <4> QED BY <1>3, <3>3, <4>1, <4>2
    <3> QED BY <3>2, <3>3
  <2>2. \A f : f \in Told' <=> f \in Told \/ f = e
    BY <1>2, <1>3, <1>4, <1>5, <2>1 DEF Told
  <2> HIDE DEF e
  <2>3. \A f : f \in Told' <=> f \in Told \cup {e}
    BY <2>2, Zenon
  <2> QED BY <2>3, Zenon
<1>8. Len(If(style.added, "added")) = First
  BY Streaming DEF If, First
<1>9. Contents(i)[wire[i] + 1 - First] = e
  BY <1>4 DEF Contents
<1> QED BY <1>3, <1>4, <1>6, <1>7, <1>8, <1>9

LEMMA AppendOne ==
  ASSUME NEW T, NEW s \in Seq(T), NEW e \in T, e \notin ToSet(s), IsInjective(s)
  PROVE  /\ Append(s, e) \in Seq(T) /\ IsInjective(Append(s, e))
         /\ ToSet(Append(s, e)) = ToSet(s) \cup {e}
<1> DEFINE q == Append(s, e)
           n == Len(s)
<1>0. n \in Nat /\ Len(s) = n
  OBVIOUS
<1> HIDE DEF n
<1>1. q \in Seq(T) /\ Len(q) = n + 1 /\ (\A k \in 1..n : q[k] = s[k]) /\ q[n + 1] = e
  <2>1. /\ q = [k \in 1..(n + 1) |-> IF k = n + 1 THEN e ELSE s[k]]
        /\ q \in Seq(T)
    BY <1>0, Appended
  <2> HIDE DEF q
  <2>2. Len(q) = n + 1
    BY <1>0, <2>1, LenProperties
  <2> QED BY <1>0, <2>1, <2>2
<1> HIDE DEF q
<1>2. n \in Nat /\ DOMAIN s = 1..n /\ DOMAIN q = 1..(n + 1)
  BY <1>0, <1>1
<1>3. \A k : k \in DOMAIN q <=> k \in DOMAIN s \/ k = n + 1
  BY <1>2
<1>4. \A k \in DOMAIN s : q[k] = s[k] /\ q[k] # e
  <2>1. \A k \in DOMAIN s : s[k] \in ToSet(s)
    BY DEF ToSet
  <2> QED BY <1>1, <1>2, <2>1
<1>5. IsInjective(q)
  <2> SUFFICES ASSUME NEW a \in DOMAIN q, NEW b \in DOMAIN q, q[a] = q[b] PROVE a = b
    BY DEF IsInjective
  <2> QED BY <1>1, <1>3, <1>4, Zenon DEF IsInjective
<1>6. ToSet(q) = ToSet(s) \cup {e}
  <2>1. \A x : x \in ToSet(q) <=> \E k \in DOMAIN q : q[k] = x
    BY Zenon DEF ToSet
  <2>2. \A x : x \in ToSet(s) <=> \E k \in DOMAIN s : s[k] = x
    BY Zenon DEF ToSet
  <2>3. \A x : x \in ToSet(q) <=> x \in ToSet(s) \/ x = e
    BY <1>1, <1>3, <1>4, <2>1, <2>2, Zenon
  <2> QED BY <2>3
<1> QED BY <1>1, <1>5, <1>6 DEF q

(* What an event shows of the answer.                                       *)
Shows(i, event) ==
    shown' = IF event = "delta" /\ i \in Texts
             THEN Append(shown, Contents(i)[wire[i] + 1 - Len(If(style.added, "added"))])
             ELSE shown

LEMMA ShowsTold ==
  ASSUME StreamInv, phase = "streaming", ~IsChat, NEW i \in DOMAIN wire, NEW event,
         NextEvent(i, event), Shows(i, event)
  PROVE  shown' \in Seq(Nat \X Nat) /\ IsInjective(shown') /\ ToSet(shown') = Told'
<1>1. shown \in Seq(Nat \X Nat) /\ IsInjective(shown) /\ ToSet(shown) = Told
  BY Streaming DEF Conversing, Decoded, StreamInv, ShownOnce
<1>2. CASE event = "delta" /\ i \in Texts
  <2> DEFINE e == <<i, wire[i] + 1 - First>>
  <2>1. Told' = Told \cup {e} /\ e \notin Told /\ e \in Nat \X Nat
    BY <1>2, ToldOne
  <2>2. shown' = Append(shown, e)
    BY <1>2, ToldOne DEF Shows
  <2> HIDE DEF e
  <2>3. e \notin ToSet(shown)
    BY <1>1, <2>1
  <2>4. /\ Append(shown, e) \in Seq(Nat \X Nat) /\ IsInjective(Append(shown, e))
        /\ ToSet(Append(shown, e)) = ToSet(shown) \cup {e}
    BY <1>1, <2>1, <2>3, AppendOne, Zenon
  <2> QED BY <1>1, <2>1, <2>2, <2>4
<1>3. CASE ~(event = "delta" /\ i \in Texts)
  BY <1>1, <1>3, ToldOthers DEF Shows
<1> QED BY <1>2, <1>3

LEMMA DecoderKeeps ==
  ASSUME StreamInv, phase = "streaming", ~IsChat, NEW i \in DOMAIN wire, NEW event,
         NextEvent(i, event), Shows(i, event), UNCHANGED partial,
         phase' \in {"streaming", "failed"},
         phase' = "streaming" => /\ added' = [x \in DOMAIN added' |-> added'[x]]
                                 /\ done' = [x \in DOMAIN done' |-> done'[x]]
                                 /\ IF Placed THEN InPlace' ELSE Displaced'
  PROVE  StreamInv'
<1>1. shown' \in Seq(Nat \X Nat) /\ IsInjective(shown') /\ ToSet(shown') = Told'
  BY ShowsTold
<1>2. partial' = Empty /\ (Placed <=> Placed')
  BY Streaming, Advances, Same DEF Conversing, Decoded
<1>3. phase' = "streaming" => Decoded'
  BY <1>1, <1>2 DEF Decoded
<1> QED BY <1>1, <1>3, StaysStreaming

(* Places do not change by what is neither an item's first event nor the    *)
(* one that ends it.                                                        *)
LEMMA PlacesStay ==
  ASSUME StreamInv, phase = "streaming", ~IsChat, NEW i \in DOMAIN wire, NEW event,
         NextEvent(i, event), event \notin {"added", "done"}, UNCHANGED <<added, done>>
  PROVE  /\ added' = [x \in DOMAIN added' |-> added'[x]]
         /\ done' = [x \in DOMAIN done' |-> done'[x]]
         /\ IF Placed THEN InPlace' ELSE Displaced'
<1>1. /\ Sent(i) /\ Script(i)[wire[i] + 1] = event /\ UNCHANGED provider
  BY Advances
<1>2. answer' = answer /\ style' = style /\ \A j : Script(j)' = Script(j)
  BY <1>1, Same
<1>3. Decoded
  BY Streaming DEF Conversing
<1>4. style.added => wire[i] > 0
  BY <1>1, Streaming DEF Sent, EventAt
<1>5. style.done # {} => wire[i] + 1 # Len(Script(i))
  BY <1>1, Streaming DEF Sent, EventAt
<1>6. \A j \in DOMAIN answer : Begun(j) => Begun(j)'
  BY <1>1, Streaming DEF Begun, Sent
<1>7. \A j \in DOMAIN answer : style.added /\ Begun(j)' => Begun(j)
  BY <1>1, <1>4, Streaming DEF Begun, Sent
<1>8. \A j \in DOMAIN answer : style.done # {} /\ IsSent(j)' => IsSent(j)
  BY <1>1, <1>2, <1>5, Streaming DEF IsSent, Sent
<1>9. CASE Placed
  <2>1. InPlace
    BY <1>3, <1>9 DEF Decoded
  <2>2. InPlace'
    BY <1>2, <1>6, <1>7, <1>8, <2>1 DEF InPlace
  <2> QED BY <1>3, <1>9, <2>2 DEF Decoded
<1>10. CASE ~Placed
  <2>1. Displaced /\ style.added
    BY <1>3, <1>10 DEF Decoded, Placed
  <2>2. Displaced'
    BY <1>2, <1>7, <2>1 DEF Displaced, Taken
  <2> QED BY <1>3, <1>10, <2>2 DEF Decoded
<1> QED BY <1>9, <1>10

LEMMA DeltaKeeps ==
  ASSUME StreamInv, phase = "streaming", ~IsChat, NEW i \in DOMAIN wire,
         TextDelta(i) \/ CallDelta(i)
  PROVE  StreamInv'
<1>1. NextEvent(i, "delta") /\ UNCHANGED <<phase, added, done, partial>>
  BY DEF TextDelta, CallDelta, decoderVars
<1>2. i \in DOMAIN answer
  BY Streaming
<1>3. Shows(i, "delta")
  BY <1>2 DEF TextDelta, CallDelta, Shows, Texts
<1> QED BY <1>1, <1>3, PlacesStay, DecoderKeeps

LEMMA ArgumentsKeeps ==
  ASSUME StreamInv, phase = "streaming", ~IsChat, NEW i \in DOMAIN wire, ArgumentsDone(i)
  PROVE  StreamInv'
<1> DEFINE at == IF style.indexed THEN {i} \cap DOMAIN added ELSE Holds(added, i)
<1>1. /\ NextEvent(i, "arguments") /\ UNCHANGED <<phase, added, partial, shown>>
      /\ done' = [x \in DOMAIN done \cup at |-> IF x \in at THEN added[x] ELSE done[x]]
  BY DEF ArgumentsDone
<1>2. Shows(i, "arguments")
  BY <1>1 DEF Shows
<1>3. Decoded /\ i \in DOMAIN answer /\ \A j \in DOMAIN answer : j \in Nat
  BY Streaming DEF Conversing
<1>4. CASE at = {}
  <2>1. done' = [x \in DOMAIN done |-> done[x]]
    BY <1>1, <1>4
  <2>2. done' = done
    BY <1>3, <2>1 DEF Decoded
  <2> QED BY <1>1, <1>2, <2>2, PlacesStay, DecoderKeeps
<1>5. CASE at # {}
  <2>1. Placed
    BY <1>5 DEF Holds, Placed
  <2>2. InPlace
    BY <1>3, <2>1 DEF Decoded
  <2>3. at = {i} /\ i \in DOMAIN added /\ added[i] = i
    BY <1>5, <2>2 DEF InPlace, Holds
  <2> HIDE DEF at
  <2>4. done' = [x \in DOMAIN done \cup {i} |-> IF x = i THEN i ELSE done[x]]
    BY <1>1, <2>3
  <2>5. /\ Sent(i) /\ Script(i)[wire[i] + 1] = "arguments" /\ UNCHANGED provider
    BY <1>1, Advances
  <2>6. answer' = answer /\ style' = style /\ \A j : Script(j)' = Script(j)
    BY <2>5, Same
  <2>7. style.done # {} => wire[i] + 1 # Len(Script(i))
    BY <2>5, Streaming DEF Sent, EventAt
  <2>8. \A j \in DOMAIN answer : (Begun(j) => Begun(j)') /\ (style.added /\ Begun(j)' => Begun(j))
    <3>1. style.added => wire[i] > 0
      BY <2>5, Streaming DEF Sent, EventAt
    <3> QED BY <2>5, <3>1, Streaming DEF Begun, Sent
  <2>9. \A j \in DOMAIN answer : style.done # {} /\ IsSent(j)' => IsSent(j)
    BY <2>5, <2>6, <2>7, Streaming DEF IsSent, Sent
  <2>10. Begun(i)' /\ style.added
    BY <2>2, <2>3, <2>5, Streaming DEF InPlace, Begun, Sent
  <2>11. InPlace'
    <3>1. DOMAIN done' = DOMAIN done \cup {i} /\ \A x \in DOMAIN done' : done'[x] = x
      BY <2>2, <2>4 DEF InPlace
    <3>2. DOMAIN added' = {j \in DOMAIN answer : style.added /\ Begun(j)'}
      BY <1>1, <2>2, <2>8 DEF InPlace
    <3>3. DOMAIN done' \subseteq {j \in DOMAIN answer : Begun(j)'}
      BY <1>3, <2>2, <2>8, <2>10, <3>1 DEF InPlace
    <3>4. \A j \in DOMAIN answer : style.done # {} /\ IsSent(j)' => j \in DOMAIN done'
      BY <2>2, <2>9, <3>1 DEF InPlace
    <3>5. \A x \in DOMAIN added' : added'[x] = x
      BY <1>1, <2>2 DEF InPlace
    <3> QED BY <2>6, <2>10, <3>1, <3>2, <3>3, <3>4, <3>5 DEF InPlace
  <2>12. /\ added' = [x \in DOMAIN added' |-> added'[x]]
         /\ done' = [x \in DOMAIN done' |-> done'[x]]
    BY <1>1, <1>3, <2>4 DEF Decoded
  <2> QED BY <1>1, <1>2, <2>1, <2>11, <2>12, DecoderKeeps
<1> QED BY <1>4, <1>5

LEMMA NextIndex ==
  ASSUME NEW n \in Nat
  PROVE  Max((1..n) \cup {0}) = n
<1> DEFINE S == (1..n) \cup {0}
<1>1. n \in S /\ \A y \in S : n >= y
  OBVIOUS
<1>2. \A x \in S : x >= n => x = n
  OBVIOUS
<1> HIDE DEF S
<1>3. Max(S) \in S /\ \A y \in S : Max(S) >= y
  BY <1>1 DEF Max
<1> QED BY <1>1, <1>2, <1>3 DEF S

LEMMA FreePlace ==
  ASSUME StreamInv, phase = "streaming", ~IsChat, InPlace, NEW i \in DOMAIN wire,
         NEW event \in {"added", "done"}, NextEvent(i, event), ~style.indexed, wire[i] = 0
  PROVE  ItemIndexById(i) = i
<1>1. /\ Sent(i) /\ Script(i)[wire[i] + 1] = event
  BY Advances
<1>2. /\ i \in DOMAIN answer /\ i \in Nat /\ i > 0 /\ Len(answer) \in Nat
      /\ DOMAIN answer = 1..Len(answer)
  BY Streaming
<1>3. ASSUME NEW j \in DOMAIN answer PROVE Begun(j) \/ IsSent(j) => Begun(j) /\ j \in Taken
  <2>1. /\ wire[j] \in Nat /\ Len(Script(j)) \in Nat /\ answer[j] \in ItemKinds
        /\ wire[j] <= Len(Script(j)) /\ style \in Styles
    BY Streaming
  <2>2. CASE style.added
    <3>1. Len(Script(j)) > 0
      BY <2>1, <2>2, Scripts
    <3> QED BY <2>1, <2>2, <3>1 DEF InPlace, Taken, Begun, IsSent
  <2>3. CASE ~style.added
    <3>1. style.done # {}
      BY <1>1, <2>3 DEF EventAt, Sent
    <3>2. ~style.deltas /\ ~style.arguments
      BY <2>1, <2>3, <3>1, Streaming DEF Conforms, IsChat, Styles
    <3>3. Len(Script(j)) < 2 /\ Len(Script(j)) > First
      BY <2>1, <2>3, <3>1, <3>2, Scripts
    <3>4. First = 0
      BY <2>3, Streaming
    <3>5. Len(Script(j)) = 1
      <4> DEFINE l == Len(Script(j))
      <4>1. l \in Nat /\ l < 2 /\ l > 0
        BY <2>1, <3>3, <3>4
      <4> HIDE DEF l
      <4>2. l = 1
        BY <4>1
      <4> QED BY <4>2 DEF l
    <3>6. IsSent(j) => Begun(j) /\ j \in Taken
      BY <3>1, <3>5 DEF InPlace, Taken, Begun, IsSent
    <3>7. Begun(j) => IsSent(j)
      BY <2>1, <3>5 DEF Begun, IsSent
    <3> QED BY <3>6, <3>7
  <2> QED BY <2>2, <2>3
<1>4. ~Begun(i) /\ ~IsSent(i)
  BY <1>1 DEF Begun, Sent
<1>5. \A j \in 1..(i - 1) : j \in Taken
  <2> SUFFICES ASSUME NEW j \in 1..(i - 1) PROVE j \in Taken
    OBVIOUS
  <2>1. Begun(j) \/ IsSent(j)
    BY DEF NextEvent, Begun
  <2>2. j \in DOMAIN answer
    BY <1>2
  <2> QED BY <1>3, <2>1, <2>2
<1>6. \A k \in Taken : k \in DOMAIN answer /\ Begun(k)
  BY DEF InPlace, Taken
<1>7. \A k \in Taken : k \in 1..(i - 1)
  <2> SUFFICES ASSUME NEW k \in Taken PROVE k \in 1..(i - 1)
    OBVIOUS
  <2>1. k \in DOMAIN answer /\ Begun(k)
    BY <1>6
  <2>2. ~(i < k)
    BY <1>2, <1>4, <2>1, Streaming DEF Conversing, InTurn
  <2>3. k # i
    BY <1>4, <2>1
  <2> QED BY <1>2, <2>1, <2>2, <2>3
<1>8. Taken = 1..(i - 1)
  BY <1>5, <1>7
<1>9. Max(Taken \cup {0}) = i - 1
  <2>1. i - 1 \in Nat
    BY <1>2
  <2> QED BY <1>8, <2>1, NextIndex
<1>10. Holds(added, i) \cup Holds(done, i) = {}
  <2>1. i \notin Taken
    BY <1>4, <1>6
  <2> QED BY <2>1 DEF Holds, InPlace, Taken
<1> QED BY <1>2, <1>9, <1>10 DEF ItemIndexById, Taken

(* Out of place, an item gets the next index.                               *)
LEMMA NextPlace ==
  ASSUME Displaced, ~Placed, NEW i
  PROVE  /\ ItemIndex(i) = Cardinality(Taken) + 1 /\ Cardinality(Taken) \in Nat
         /\ ItemIndex(i) \notin Taken
         /\ Taken \cup {ItemIndex(i)} = 1..(Cardinality(Taken) + 1)
<1> DEFINE n == Cardinality(Taken)
<1>1. Taken = 1..n /\ n \in Nat
  BY FS_CardinalityType DEF Displaced
<1>2. Holds(added, i) \cup Holds(done, i) = {} /\ ~style.indexed
  BY DEF Holds, Placed
<1> HIDE DEF n
<1>3. Max(Taken \cup {0}) = n
  BY <1>1, NextIndex
<1>4. ItemIndex(i) = n + 1
  BY <1>2, <1>3 DEF ItemIndex, ItemIndexById, Taken
<1>5. n + 1 \notin Taken /\ Taken \cup {n + 1} = 1..(n + 1)
  BY <1>1
<1> QED BY <1>1, <1>4, <1>5 DEF n

LEMMA AddedKeeps ==
  ASSUME StreamInv, phase = "streaming", ~IsChat, NEW i \in DOMAIN wire, ItemAdded(i)
  PROVE  StreamInv'
<1> DEFINE x == ItemIndex(i)
<1>1. /\ NextEvent(i, "added") /\ UNCHANGED <<phase, done, partial, shown>>
      /\ added' = [y \in DOMAIN added \cup {x} |-> IF y = x THEN i ELSE added[y]]
  BY DEF ItemAdded, Put
<1> HIDE DEF x
<1>2. /\ Sent(i) /\ Script(i)[wire[i] + 1] = "added" /\ UNCHANGED provider
  BY <1>1, Advances
<1>3. answer' = answer /\ style' = style /\ \A j : Script(j)' = Script(j)
  BY <1>2, Same
<1>4. /\ wire[i] = 0 /\ style.added /\ i \in DOMAIN answer
      /\ style.done # {} => wire[i] + 1 # Len(Script(i))
  BY <1>2, Streaming DEF Sent, EventAt
<1>5. \A j \in DOMAIN answer : Begun(j)' <=> Begun(j) \/ j = i
  BY <1>2, <1>4, Streaming DEF Begun, Sent
<1>6. \A j \in DOMAIN answer : style.done # {} /\ IsSent(j)' => IsSent(j)
  BY <1>2, <1>3, <1>4, Streaming DEF IsSent, Sent
<1>7. Decoded
  BY Streaming DEF Conversing
<1>8. /\ added' = [y \in DOMAIN added' |-> added'[y]]
      /\ done' = [y \in DOMAIN done' |-> done'[y]]
      /\ DOMAIN added' = DOMAIN added \cup {x} /\ added'[x] = i
      /\ \A y \in DOMAIN added : y # x => added'[y] = added[y]
  BY <1>1, <1>7 DEF Decoded
<1>9. CASE Placed
  <2>1. InPlace
    BY <1>7, <1>9 DEF Decoded
  <2>2. x = i
    BY <1>1, <1>4, <2>1, FreePlace DEF x, ItemIndex
  <2>3. DOMAIN added' = {j \in DOMAIN answer : style.added /\ Begun(j)'}
    BY <1>4, <1>5, <1>8, <2>1, <2>2 DEF InPlace
  <2>4. \A y \in DOMAIN added' : added'[y] = y
    BY <1>8, <2>1, <2>2 DEF InPlace
  <2>5. InPlace'
    BY <1>1, <1>3, <1>4, <1>5, <1>6, <2>1, <2>3, <2>4 DEF InPlace
  <2> QED BY <1>1, <1>8, <1>9, <2>5, DecoderKeeps DEF Shows
<1>10. CASE ~Placed
  <2>1. Displaced
    BY <1>7, <1>10 DEF Decoded
  <2> DEFINE n == Cardinality(Taken)
  <2>2. x \notin Taken /\ Taken \cup {x} = 1..(n + 1) /\ n \in Nat
    BY <1>10, <2>1, NextPlace DEF x
  <2> HIDE DEF n
  <2>3. Taken' = 1..(n + 1)
    BY <1>1, <1>8, <2>2 DEF Taken
  <2>4. IsFiniteSet(Taken') /\ Taken' = 1..Cardinality(Taken')
    <3>1. n + 1 \in Nat
      BY <2>2
    <3>2. IsFiniteSet(1..(n + 1)) /\ Cardinality(1..(n + 1)) = n + 1
      BY <3>1, FS_Interval
    <3> QED BY <2>3, <3>2
  <2>5. DOMAIN added' \cap DOMAIN done' = {} /\ DOMAIN added' # {}
    BY <1>1, <1>8, <2>1, <2>2 DEF Displaced, Taken
  <2>6. Displaced'
    BY <2>4, <2>5 DEF Displaced
  <2> QED BY <1>1, <1>8, <1>10, <2>6, DecoderKeeps DEF Shows
<1> QED BY <1>9, <1>10

LEMMA DoneKeeps ==
  ASSUME StreamInv, phase = "streaming", ~IsChat, NEW i \in DOMAIN wire, ItemDone(i)
  PROVE  StreamInv'
<1> DEFINE x == ItemIndex(i)
<1>1. /\ NextEvent(i, "done") /\ UNCHANGED <<added, partial, shown>>
      /\ IF x \in DOMAIN added /\ Conflict(added[x], i)
         THEN phase' = "failed" /\ UNCHANGED done
         ELSE /\ done' = [y \in DOMAIN done \cup {x} |-> IF y = x THEN i ELSE done[y]]
              /\ UNCHANGED phase
  BY DEF ItemDone, Put
<1> HIDE DEF x
<1>2. /\ Sent(i) /\ Script(i)[wire[i] + 1] = "done" /\ UNCHANGED provider
  BY <1>1, Advances
<1>3. answer' = answer /\ style' = style /\ \A j : Script(j)' = Script(j)
  BY <1>2, Same
<1>4. /\ style.done # {} /\ i \in DOMAIN answer /\ wire[i] >= First /\ wire[i] \in Nat
      /\ style.added => Begun(i)
  BY <1>2, Streaming DEF Sent, EventAt, Begun
<1>5. \A j \in DOMAIN answer : Begun(j)' <=> Begun(j) \/ j = i
  BY <1>2, <1>4, Streaming DEF Begun, Sent
<1>6. \A j \in DOMAIN answer : IsSent(j)' => IsSent(j) \/ j = i
  BY <1>2, <1>3, <1>4, Streaming DEF IsSent, Sent
<1>7. Decoded
  BY Streaming DEF Conversing
<1>8. phase' \in {"streaming", "failed"} /\ Shows(i, "done")
  BY <1>1 DEF Shows
<1>9. CASE phase' = "failed"
  BY <1>1, <1>8, <1>9, DecoderKeeps
<1>10. CASE phase' = "streaming"
  <2>1. /\ added' = [y \in DOMAIN added' |-> added'[y]]
        /\ done' = [y \in DOMAIN done' |-> done'[y]]
        /\ DOMAIN done' = DOMAIN done \cup {x} /\ done'[x] = i
        /\ \A y \in DOMAIN done : y # x => done'[y] = done[y]
    BY <1>1, <1>7, <1>10 DEF Decoded
  <2>2. CASE Placed
    <3>1. InPlace
      BY <1>7, <2>2 DEF Decoded
    <3>2. x = i
      <4>1. CASE style.indexed
        BY <4>1 DEF x, ItemIndex
      <4>2. CASE ~style.indexed /\ style.added
        <5>1. i \in DOMAIN added /\ added[i] = i /\ style.ids
          BY <1>4, <2>2, <3>1, <4>2 DEF InPlace, Placed
        <5>2. Holds(added, i) \cup Holds(done, i) = {i}
          BY <3>1, <5>1 DEF InPlace, Holds
        <5> QED BY <4>2, <5>2 DEF x, ItemIndex, ItemIndexById
      <4>3. CASE ~style.indexed /\ ~style.added
        <5>1. ~style.deltas /\ ~style.arguments /\ First = 0
          BY <1>4, <4>3, Streaming DEF Conforms, IsChat, Styles
        <5>2. Len(Script(i)) < 2
          BY <1>4, <4>3, <5>1, Streaming, Scripts
        <5>3. wire[i] = 0
          BY <1>2, <1>4, <5>2, Streaming DEF Sent, IsSent
        <5> QED BY <1>1, <3>1, <4>3, <5>3, FreePlace DEF x, ItemIndex
      <4> QED BY <4>1, <4>2, <4>3
    <3>3. DOMAIN added' = {j \in DOMAIN answer : style.added /\ Begun(j)'}
      BY <1>1, <1>4, <1>5, <3>1 DEF InPlace
    <3>4. \A y \in DOMAIN done' : done'[y] = y
      BY <2>1, <3>1, <3>2 DEF InPlace
    <3>5. DOMAIN done' \subseteq {j \in DOMAIN answer : Begun(j)'}
      BY <1>4, <1>5, <2>1, <3>1, <3>2 DEF InPlace
    <3>6. \A j \in DOMAIN answer : style.done # {} /\ IsSent(j)' => j \in DOMAIN done'
      BY <1>6, <2>1, <3>1, <3>2 DEF InPlace
    <3>7. InPlace'
      BY <1>1, <1>3, <1>4, <3>1, <3>3, <3>4, <3>5, <3>6 DEF InPlace
    <3> QED BY <1>1, <1>8, <2>1, <2>2, <3>7, DecoderKeeps
  <2>3. CASE ~Placed
    <3>1. Displaced /\ style.added
      BY <1>7, <2>3 DEF Decoded, Placed
    <3> DEFINE n == Cardinality(Taken)
    <3>2. x \notin Taken /\ Taken \cup {x} = 1..(n + 1) /\ n \in Nat
      BY <2>3, <3>1, NextPlace DEF x
    <3> HIDE DEF n
    <3>3. Taken' = 1..(n + 1)
      BY <1>1, <2>1, <3>2 DEF Taken
    <3>4. IsFiniteSet(Taken') /\ Taken' = 1..Cardinality(Taken')
      <4>1. n + 1 \in Nat
        BY <3>2
      <4>2. IsFiniteSet(1..(n + 1)) /\ Cardinality(1..(n + 1)) = n + 1
        BY <4>1, FS_Interval
      <4> QED BY <3>3, <4>2
    <3>5. DOMAIN added' \cap DOMAIN done' = {} /\ DOMAIN added' # {}
      BY <1>1, <1>4, <2>1, <3>1, <3>2 DEF Displaced, Taken
    <3>6. Displaced'
      BY <3>4, <3>5 DEF Displaced
    <3> QED BY <1>1, <1>8, <2>1, <2>3, <3>6, DecoderKeeps
  <2> QED BY <2>2, <2>3
<1> QED BY <1>8, <1>9, <1>10

(* When every event of a Responses stream was sent.                         *)
LEMMA AllDone ==
  ASSUME StreamInv, phase = "streaming", ~IsChat, \A i \in DOMAIN answer : IsSent(i),
         done # Empty, AllFinished
  PROVE  done = [i \in 1..Len(answer) |-> i]
<1>1. Decoded /\ DOMAIN answer = 1..Len(answer) /\ Len(answer) \in Nat
  BY Streaming DEF Conversing
<1>2. DOMAIN done # {}
  <2> SUFFICES ASSUME DOMAIN done = {} PROVE FALSE
    OBVIOUS
  <2>1. done = [x \in {} |-> done[x]]
    BY <1>1 DEF Decoded
  <2> QED BY <2>1 DEF Empty
<1>3. Placed
  <2> SUFFICES ASSUME ~Placed PROVE FALSE
    OBVIOUS
  <2>1. Displaced
    BY <1>1 DEF Decoded
  <2> QED BY <1>2, <2>1 DEF Displaced, AllFinished
<1>4. InPlace
  BY <1>1, <1>3 DEF Decoded
<1>5. \A i \in DOMAIN answer : i \in DOMAIN done
  <2>1. CASE style.done # {}
    BY <1>4, <2>1 DEF InPlace
  <2>2. CASE style.done = {}
    <3>1. style.added
      BY <1>2, <1>4, <2>2 DEF InPlace
    <3>2. \A i \in DOMAIN answer : Len(Script(i)) > 0 /\ Len(Script(i)) \in Nat
      BY <3>1, Streaming, Scripts
    <3>3. \A i \in DOMAIN answer : Begun(i)
      BY <3>2 DEF IsSent, Begun
    <3> QED BY <1>4, <3>1, <3>3 DEF InPlace, AllFinished
  <2> QED BY <2>1, <2>2
<1>6. DOMAIN done = 1..Len(answer)
  BY <1>1, <1>4, <1>5 DEF InPlace
<1>7. \A i \in DOMAIN done : done[i] = i
  BY <1>4 DEF InPlace
<1> QED BY <1>1, <1>6, <1>7 DEF Decoded

LEMMA WholeTold ==
  ASSUME StreamInv, phase = "streaming", ~IsChat, \A i \in DOMAIN answer : IsSent(i),
         shown # <<>>
  PROVE  ToSet(shown) = ToSet(Whole.text)
<1> DEFINE n    == Len(answer)
           seqs == [i \in 1..n |-> IF i \in Texts THEN Contents(i) ELSE <<>>]
<1>1. n \in Nat /\ DOMAIN answer = 1..n /\ Texts \in SUBSET 1..n
  BY Streaming DEF Texts
<1>2. Whole.text = FlattenSeq(seqs)
  BY <1>1, Streaming, WholeIs
<1>3. \A i \in 1..n : seqs[i] \in Seq(Nat \X Nat) /\
         ToSet(seqs[i]) = (IF i \in Texts THEN {i} \X (1..Fragments) ELSE {})
  <2> SUFFICES ASSUME NEW i \in 1..n
               PROVE  /\ seqs[i] \in Seq(Nat \X Nat)
                      /\ ToSet(seqs[i]) = (IF i \in Texts THEN {i} \X (1..Fragments) ELSE {})
    OBVIOUS
  <2>1. CASE i \in Texts
    <3>1. seqs[i] = Pieces(i, Fragments)
      BY <2>1 DEF Contents, Pieces
    <3>2. i \in Nat /\ Fragments \in Nat
      BY DEF Fragments
    <3> HIDE DEF seqs
    <3> QED BY <2>1, <3>1, <3>2, PiecesAre
  <2>2. CASE i \notin Texts
    <3>1. seqs[i] = <<>>
      BY <2>2
    <3> QED BY <2>2, <3>1 DEF ToSet
  <2> QED BY <2>1, <2>2
<1>4. seqs \in [1..n -> Seq(Nat \X Nat)]
  BY <1>3
<1> HIDE DEF seqs, n
<1>5. \A e : e \in ToSet(Whole.text) <=> \E i \in 1..n : e \in ToSet(seqs[i])
  BY <1>1, <1>2, <1>4, FlatRange, Zenon
<1>6. ToSet(Whole.text) = Texts \X (1..Fragments)
  <2>1. \A e : e \in ToSet(Whole.text) <=> \E i \in Texts : e \in {i} \X (1..Fragments)
    BY <1>1, <1>3, <1>5
  <2>2. \A e : e \in Texts \X (1..Fragments) <=> \E i \in Texts : e \in {i} \X (1..Fragments)
    OBVIOUS
  <2> QED BY <2>1, <2>2, Zenon
<1>7. shown \in Seq(Nat \X Nat) /\ ToSet(shown) = Told
  BY Streaming DEF Conversing, Decoded
<1>8. style.deltas
  <2>1. shown[1] \in ToSet(shown)
    BY <1>7 DEF ToSet
  <2> QED BY <1>7, <2>1 DEF Told
<1>9. \A t \in Texts : wire[t] >= First + 2 /\ wire[t] \in Nat
  <2> SUFFICES ASSUME NEW t \in Texts PROVE wire[t] >= First + 2 /\ wire[t] \in Nat
    OBVIOUS
  <2>1. t \in DOMAIN answer /\ IsSent(t)
    BY DEF Texts
  <2>2. Len(Script(t)) >= First + 2
    BY <1>8, <2>1, Streaming, Scripts
  <2> QED BY <2>1, <2>2, Streaming DEF IsSent
<1>10. \A f \in Texts \X (1..Fragments) : First + f[2] <= wire[f[1]]
  <2> SUFFICES ASSUME NEW f \in Texts \X (1..Fragments) PROVE First + f[2] <= wire[f[1]]
    OBVIOUS
  <2>1. f[1] \in Texts /\ f[2] \in 1..2 /\ First \in 0..1
    BY Streaming DEF Fragments
  <2> QED BY <1>9, <2>1
<1> QED BY <1>6, <1>7, <1>8, <1>10 DEF Told

LEMMA CompletedKeeps ==
  ASSUME StreamInv, phase = "streaming", Completed
  PROVE  StreamInv'
<1>1. /\ ~IsChat /\ \A i \in DOMAIN answer : IsSent(i)
      /\ UNCHANGED <<setting, requests, provider, wire, decoderVars, shown>>
      /\ phase' \in {"failed", "answered"} /\ (phase' = "failed" => UNCHANGED result)
  BY DEF Completed
<1>2. CASE phase' = "failed"
  BY <1>1, <1>2, FailsKeeps
<1>3. CASE phase' = "answered" /\ done = Empty /\ style.output = "empty"
  <2>1. result' = NoResult
    BY <1>3 DEF Completed
  <2>2. TakenAtItsWord' /\ ~IsChat'
    BY <1>1, <1>3, Same DEF TakenAtItsWord, decoderVars, style
  <2>3. AnswerIsFaithful'
    BY <2>1, <2>2 DEF AnswerIsFaithful, NoResult
  <2>4. ShownOnce'
    BY <1>1, <2>2 DEF StreamInv, ShownOnce
  <2>5. Len(result'.calls) \in Nat
    BY <2>1 DEF NoResult
  <2>6. setting' \in Settings /\ requests' \in 0..(setting'.retries + 1)
    BY <1>1 DEF StreamInv
  <2> QED BY <1>3, <2>3, <2>4, <2>5, <2>6 DEF StreamInv, Phases
<1>4. CASE phase' = "answered" /\ ~(done = Empty /\ style.output = "empty")
  <2>0. ~TakenAtItsWord'
    BY <1>1, <1>4 DEF TakenAtItsWord, decoderVars, style
  <2>1. result' = Whole
    <3>1. CASE done # Empty
      <4>1. AllFinished /\ result' = Said(InOrder(done))
        BY <1>4, <3>1 DEF Completed
      <4> DEFINE n == Len(answer)
      <4>2. n \in Nat /\ DOMAIN answer = 1..n
        BY Streaming
      <4>3. done = [i \in 1..n |-> i]
        BY <1>1, <3>1, <4>1, AllDone
      <4> HIDE DEF n
      <4>4. InOrder(done) = [i \in DOMAIN answer |-> i]
        BY <4>2, <4>3, InOrderAll
      <4> QED BY <4>1, <4>4 DEF Whole
    <3>2. CASE done = Empty
      <4>1. style.output \in Outputs
        BY Streaming DEF Styles
      <4> QED BY <1>4, <3>2, <4>1 DEF Completed, Outputs
    <3> QED BY <3>1, <3>2
  <2>2. Whole' = Whole /\ (IsChat <=> IsChat') /\ answer' = answer
    BY <1>1, Same
  <2>3. AnswerIsFaithful'
    BY <1>1, <2>0, <2>1, <2>2 DEF AnswerIsFaithful
  <2>4. Len(Whole.calls) \in Nat
    <3>1. Calls \in SUBSET 1..Len(answer) /\ Len(answer) \in Nat
      BY Streaming DEF Calls
    <3>2. Calls = {x \in Calls : x <= Len(answer)}
      <4>1. \A x \in Calls : x <= Len(answer)
        BY <3>1
      <4> QED BY <4>1
    <3> DEFINE whole == InOrder([x \in Calls |-> x])
    <3>3. whole \in Seq(1..Len(answer))
      BY <3>1, <3>2, InOrderSome, Zenon
    <3> HIDE DEF whole
    <3>4. Len(whole) \in Nat
      BY <3>3
    <3> QED BY <3>4, Streaming, WholeIs DEF whole
  <2>5. ShownOnce'
    <3>1. requests' <= setting'.retries + 1 /\ IsInjective(shown')
      BY <1>1 DEF StreamInv, ShownOnce
    <3>2. shown' # <<>> => ToSet(shown') = ToSet(result'.text)
      BY <1>1, <2>1, WholeTold
    <3> QED BY <3>1, <3>2 DEF ShownOnce
  <2>6. setting' \in Settings /\ requests' \in 0..(setting'.retries + 1)
    BY <1>1 DEF StreamInv
  <2> QED BY <1>4, <2>1, <2>3, <2>4, <2>5, <2>6 DEF StreamInv, Phases
<1> QED BY <1>1, <1>2, <1>3, <1>4

-----------------------------------------------------------------------------
(* Requests.                                                                *)

LEMMA ScriptsLast ==
  style \in Styles =>
      \A i : answer[i] \in ItemKinds =>
          /\ Len(Script(i)) \in Nat
          /\ style.done # {} => Len(Script(i)) > 0
<1> SUFFICES ASSUME style \in Styles, NEW i, answer[i] \in ItemKinds
             PROVE  /\ Len(Script(i)) \in Nat
                    /\ style.done # {} => Len(Script(i)) > 0
  OBVIOUS
<1>1. First \in 0..1
  BY DEF First
<1> QED BY <1>1, Scripts

LEMMA ScriptsLastNext ==
  (style \in Styles =>
      \A i : answer[i] \in ItemKinds =>
          /\ Len(Script(i)) \in Nat
          /\ style.done # {} => Len(Script(i)) > 0)'
BY ScriptsLast, PTL

LEMMA OpensKeeps ==
  ASSUME StreamInv, phase = "sending", Opens
  PROVE  StreamInv'
<1>1. /\ provider' \in setting.providers /\ wire' = [i \in DOMAIN answer' |-> 0]
      /\ phase' = "streaming" /\ requests' = requests + 1
      /\ UNCHANGED <<setting, decoderVars, shown, result>>
  BY DEF Opens, answer
<1>2. /\ setting \in Settings /\ setting.retries \in Nat /\ requests \in 0..(setting.retries + 1)
      /\ Silent /\ requests <= setting.retries
  BY SettingsAssumption DEF StreamInv
<1>3. /\ style' \in Styles /\ answer' \in Seq(ItemKinds)
      /\ Len(answer') \in Nat /\ DOMAIN answer' = 1..Len(answer')
      /\ \A i \in DOMAIN answer' : i \in Nat /\ answer'[i] \in ItemKinds
  BY <1>1, <1>2, ProvidersAssumption DEF style, answer
<1>4. \A i \in DOMAIN answer' :
         /\ Len(Script(i))' \in Nat
         /\ style'.done # {} => Len(Script(i))' > 0
  BY <1>3, ScriptsLastNext
<1>5. \A i \in DOMAIN answer' : wire'[i] = 0 /\ ~Begun(i)'
  BY <1>1 DEF Begun
<1>6. ShownOnce' /\ requests' \in 0..(setting'.retries + 1)
  BY <1>1, <1>2 DEF StreamInv, ShownOnce
<1>7. Silent /\ shown' = <<>> /\ added' = Empty /\ done' = Empty /\ partial' = Empty
  BY <1>1, <1>2 DEF Silent, decoderVars
<1>8. wire' \in [DOMAIN answer' -> Nat] /\ \A i \in DOMAIN answer' : wire'[i] <= Len(Script(i))'
  BY <1>1, <1>4
<1>9. shown' \in Seq(Nat \X Nat) /\ InTurn'
  BY <1>5, <1>7 DEF InTurn
<1>10. Collected'
  <2>1. {c \in Calls : Begun(c)}' = {}
    BY <1>5 DEF Calls
  <2>2. partial' = [i \in {c \in Calls : Begun(c)} |-> [k \in 1..wire[i] |-> <<i, k>>]]'
    BY <1>7, <2>1 DEF Empty
  <2>3. (\A t \in Texts : shown = [k \in 1..wire[t] |-> <<t, k>>])'
    <3>1. \A t \in Texts' : wire'[t] = 0
      BY <1>5 DEF Texts
    <3>2. \A t : [k \in 1..0 |-> <<t, k>>] = <<>>
      OBVIOUS
    <3> QED BY <1>7, <3>1, <3>2
  <2> QED BY <1>7, <2>2, <2>3 DEF Collected
<1>11. Decoded'
  <2>1. DOMAIN added' = {} /\ DOMAIN done' = {} /\ added' = <<>> /\ done' = <<>>
    BY <1>7 DEF Empty
  <2>2. added' = [x \in DOMAIN added' |-> added'[x]] /\ done' = [x \in DOMAIN done' |-> done'[x]]
    BY <2>1
  <2>3. Told' = {}
    <3>1. \A t \in Texts', k \in 1..2 : ~(First' + k <= wire'[t])
      BY <1>5 DEF Texts, First
    <3>2. \A f \in Texts' \X (1..2) : f[1] \in Texts' /\ f[2] \in 1..2
      OBVIOUS
    <3> QED BY <3>1, <3>2 DEF Told, Fragments
  <2>4. ToSet(shown') = {}
    BY <1>7 DEF ToSet
  <2>5. InPlace'
    <3>1. \A i \in DOMAIN answer' : ~(style'.done # {} /\ IsSent(i)')
      BY <1>4, <1>5 DEF IsSent
    <3> QED BY <1>5, <2>1, <3>1 DEF InPlace
  <2>6. Displaced'
    <3>1. Taken' = {}
      BY <2>1 DEF Taken
    <3>2. IsFiniteSet({}) /\ Cardinality({}) = 0
      BY FS_EmptySet
    <3> QED BY <1>5, <2>1, <3>1, <3>2 DEF Displaced
  <2> QED BY <1>7, <2>2, <2>3, <2>4, <2>5, <2>6 DEF Decoded
<1>12. Conversing'
  BY <1>1, <1>8, <1>9, <1>10, <1>11 DEF Conversing
<1> QED BY <1>1, <1>2, <1>6, <1>12 DEF StreamInv, Phases, AnswerIsFaithful

LEMMA RequestKeeps ==
  ASSUME StreamInv, phase = "sending", FailsForNow \/ FailsForGood
  PROVE  StreamInv'
<1>1. /\ setting \in Settings /\ setting.retries \in Nat
      /\ Silent /\ requests <= setting.retries /\ requests \in Nat
  BY SettingsAssumption DEF StreamInv
<1>2. /\ requests' = requests + 1 /\ phase' \in {"failed", "sending"}
      /\ phase' = "sending" => requests # setting.retries
      /\ UNCHANGED <<setting, provider, wire, decoderVars, shown, result>>
  BY DEF FailsForNow, FailsForGood
<1>3. Silent'
  BY <1>1, <1>2 DEF Silent, decoderVars
<1>4. ShownOnce'
  BY <1>1, <1>2 DEF StreamInv, ShownOnce
<1>5. phase' = "sending" => requests' <= setting'.retries
  BY <1>1, <1>2
<1> QED BY <1>1, <1>2, <1>3, <1>4, <1>5 DEF StreamInv, Phases, AnswerIsFaithful

LEMMA StreamsStep == StreamInv /\ Streams => StreamInv'
<1> SUFFICES ASSUME StreamInv, Streams PROVE StreamInv'
  OBVIOUS
<1>1. CASE Opens
  BY <1>1, OpensKeeps DEF Opens
<1>2. CASE FailsForNow \/ FailsForGood
  BY <1>2, RequestKeeps DEF FailsForNow, FailsForGood
<1>3. ASSUME NEW i \in DOMAIN wire,
             TextDelta(i) \/ CallDelta(i) \/ ItemAdded(i) \/ ItemDone(i) \/ ArgumentsDone(i)
      PROVE  StreamInv'
  <2>1. phase = "streaming"
    BY <1>3 DEF TextDelta, CallDelta, ItemAdded, ItemDone, ArgumentsDone, NextEvent
  <2>2. CASE IsChat
    BY <1>3, <2>1, <2>2, ChatText, ChatCall, ChatDeltas
  <2>3. CASE ~IsChat
    BY <1>3, <2>1, <2>3, DeltaKeeps, AddedKeeps, DoneKeeps, ArgumentsKeeps
  <2> QED BY <2>2, <2>3
<1>4. CASE Completed
  BY <1>4, CompletedKeeps DEF Completed
<1>5. CASE Closed
  <2>1. phase = "streaming"
    BY <1>5 DEF Closed
  <2>2. CASE IsChat
    BY <1>5, <2>1, <2>2, ChatCloses
  <2>3. CASE ~IsChat
    <3>1. /\ phase' = "failed"
          /\ UNCHANGED <<setting, requests, provider, wire, decoderVars, shown, result>>
      BY <1>5, <2>3 DEF Closed
    <3> QED BY <2>1, <3>1, FailsKeeps
  <2> QED BY <2>2, <2>3
<1>6. CASE Broken
  BY <1>6, FailsKeeps DEF Broken
<1> QED BY <1>1, <1>2, <1>3, <1>4, <1>5, <1>6 DEF Streams

-----------------------------------------------------------------------------
(* Every other step leaves the stream alone, or ends its operation.         *)

LEMMA StreamReset ==
  ASSUME StreamInv, Resets, UNCHANGED setting, phase' \in {"idle", "ready", "tools"}
  PROVE  StreamInv'
<1>1. setting' \in Settings /\ setting'.retries \in Nat /\ requests' = 0
  BY SettingsAssumption DEF StreamInv, Resets
<1>2. Silent'
  BY DEF Resets, Silent
<1>3. ShownOnce'
  <2>1. DOMAIN shown' = {}
    BY DEF Resets
  <2>2. IsInjective(shown')
    BY <2>1 DEF IsInjective
  <2>3. shown' = <<>>
    BY DEF Resets
  <2> QED BY <1>1, <2>2, <2>3 DEF ShownOnce
<1> QED BY <1>1, <1>2, <1>3 DEF StreamInv, Phases, AnswerIsFaithful

LEMMA StreamQuiet ==
  ASSUME StreamInv, UNCHANGED <<setting, streamVars>>,
         phase \in {"idle", "ready", "compacting", "saving"},
         phase' \in {"ready", "compacting", "saving", "sending", "tools"}
  PROVE  StreamInv'
<1>1. /\ setting' = setting /\ requests' = requests /\ provider' = provider /\ shown' = shown
      /\ added' = added /\ done' = done /\ partial' = partial
  BY DEF streamVars, decoderVars
<1>2. setting \in Settings /\ setting.retries \in Nat /\ requests = 0 /\ Silent /\ ShownOnce
  BY SettingsAssumption DEF StreamInv
<1>3. Silent'
  BY <1>1, <1>2 DEF Silent
<1>4. ShownOnce'
  BY <1>1, <1>2 DEF ShownOnce
<1> QED BY <1>1, <1>2, <1>3, <1>4 DEF StreamInv, Phases, AnswerIsFaithful

LEMMA StreamStays ==
  ASSUME StreamInv, UNCHANGED <<setting, phase, streamVars>>
  PROVE  StreamInv'
<1>1. /\ setting' = setting /\ phase' = phase /\ requests' = requests /\ provider' = provider
      /\ wire' = wire /\ shown' = shown /\ result' = result
      /\ added' = added /\ done' = done /\ partial' = partial
  BY DEF streamVars, decoderVars
<1>2. /\ style' = style /\ answer' = answer /\ (IsChat <=> IsChat') /\ First' = First
      /\ Texts' = Texts /\ Calls' = Calls /\ (Placed <=> Placed') /\ Whole' = Whole
      /\ \A i : Script(i)' = Script(i)
  BY <1>1, Same
<1>3. Silent' <=> Silent
  BY <1>1 DEF Silent
<1>4. \A i : (Begun(i)' <=> Begun(i)) /\ (IsSent(i)' <=> IsSent(i))
  BY <1>1, <1>2 DEF Begun, IsSent
<1>5. (InTurn' <=> InTurn) /\ Told' = Told /\ Taken' = Taken
  BY <1>1, <1>2, <1>4 DEF InTurn, Told, Taken
<1>6. Collected => Collected'
  BY <1>1, <1>2, <1>4 DEF Collected
<1>7. Decoded => Decoded'
  <2>1. InPlace => InPlace'
    BY <1>1, <1>2, <1>4 DEF InPlace
  <2>2. Displaced => Displaced'
    BY <1>1, <1>2, <1>4, <1>5 DEF Displaced
  <2> QED BY <1>1, <1>2, <1>5, <2>1, <2>2 DEF Decoded
<1>8. Conversing => Conversing'
  BY <1>1, <1>2, <1>5, <1>6, <1>7 DEF Conversing
<1>9. TakenAtItsWord <=> TakenAtItsWord'
  BY <1>1, <1>2 DEF TakenAtItsWord, style
<1>10. AnswerIsFaithful'
  BY <1>1, <1>2, <1>4, <1>9 DEF StreamInv, AnswerIsFaithful
<1>11. ShownOnce'
  BY <1>1, <1>9 DEF StreamInv, ShownOnce
<1> QED BY <1>1, <1>3, <1>8, <1>10, <1>11 DEF StreamInv

LEMMA StreamStarts == Init => StreamInv
<1> SUFFICES ASSUME Init PROVE StreamInv
  OBVIOUS
<1>1. setting \in Settings /\ setting.retries \in Nat /\ requests = 0 /\ phase = "idle"
  BY SettingsAssumption DEF Init, StreamInit
<1>2. Silent
  BY DEF Init, StreamInit, Silent
<1>3. ShownOnce
  <2>1. shown = <<>> /\ DOMAIN shown = {}
    BY DEF Init, StreamInit
  <2>2. IsInjective(shown)
    BY <2>1 DEF IsInjective
  <2> QED BY <1>1, <2>1, <2>2 DEF ShownOnce
<1> QED BY <1>1, <1>2, <1>3 DEF StreamInv, Phases, AnswerIsFaithful

LEMMA StreamStep == StreamInv /\ [Next]_vars => StreamInv'
<1> SUFFICES ASSUME StreamInv, [Next]_vars PROVE StreamInv'
  OBVIOUS
<1>1. \A context : Leaves(context) => StreamInv'
  BY StreamReset DEF Leaves
<1>2. \A committed, next : next \in {"idle", "ready", "tools"} /\ Commits(committed, next)
                              => StreamInv'
  BY StreamReset DEF Commits
<1>3. \A context, size, about :
         Summarized(context, size, about) /\ phase \in {"ready", "compacting"} => StreamInv'
  BY <1>1, StreamQuiet DEF Summarized
<1>4. CASE UserSays
  BY <1>2, <1>4 DEF UserSays
<1>5. CASE Recovers
  BY <1>5, StreamQuiet DEF Recovers
<1>6. CASE Builds
  <2>1. phase = "ready"
    BY <1>6 DEF Builds
  <2>2. CASE UNCHANGED <<setting, streamVars>> /\ phase' \in {"compacting", "sending"}
    BY <2>1, <2>2, StreamQuiet
  <2>3. CASE ~(UNCHANGED <<setting, streamVars>> /\ phase' \in {"compacting", "sending"})
    BY <1>1, <1>3, <1>6, <2>1, <2>3, Zenon DEF Builds
  <2> QED BY <2>2, <2>3
<1>7. CASE Compacted
  BY <1>3, <1>7 DEF Compacted
<1>8. CASE CompactorFails
  BY <1>1, <1>8 DEF CompactorFails
<1>9. CASE SavesCache
  BY <1>9, StreamQuiet DEF SavesCache
<1>10. CASE Streams /\ UNCHANGED contextVars
  BY <1>10, StreamsStep
<1>11. CASE Answered
  BY <1>2, <1>11 DEF Answered
<1>12. CASE Failed
  BY <1>2, <1>12 DEF Failed
<1>13. CASE Aborted
  BY <1>2, <1>13 DEF Aborted
<1>14. CASE ToolAnswers
  BY <1>2, <1>14 DEF ToolAnswers
<1>15. CASE OutOfIterations
  BY <1>2, <1>15 DEF OutOfIterations
<1>16. CASE Crash
  BY <1>1, <1>16 DEF Crash
<1>17. CASE Delete
  BY <1>17, StreamStays DEF Delete
<1>18. CASE Reconfigures
  BY <1>18, StreamStays DEF Reconfigures
<1>19. CASE UNCHANGED vars
  BY <1>19, StreamStays DEF vars
<1> QED BY <1>4, <1>5, <1>6, <1>7, <1>8, <1>9, <1>10, <1>11, <1>12, <1>13, <1>14, <1>15,
           <1>16, <1>17, <1>18, <1>19 DEF Next

-----------------------------------------------------------------------------
(* Theorems.                                                                *)

(* The invariant holds in every state: the context that was built, what the *)
(* stored summary is about, and what was collected of a stream, are what    *)
(* ContextInv and StreamInv say, whatever the settings.                     *)
THEOREM RequestInductive == Spec => []RequestInv
<1>1. Init => RequestInv
  BY ContextStarts, StreamStarts DEF RequestInv
<1>2. RequestInv /\ [Next]_vars => RequestInv'
  BY ContextStep, StreamStep DEF RequestInv, StreamInv
<1> QED BY <1>1, <1>2, PTL DEF Spec

(* build_model_request never slices outside of the conversation, and its    *)
(* budgets do not underflow.                                                *)
THEOREM TypeCorrect == Spec => []TypeOK
<1>1. RequestInv => TypeOK
  BY ContextSound DEF RequestInv
<1> QED BY <1>1, RequestInductive, PTL

(* What is sent fits into the window the configuration gives, and a build   *)
(* is refused only when the newest block leaves no room.                    *)
THEOREM WindowKept == Spec => []WindowIsKept
<1>1. RequestInv => WindowIsKept
  BY ContextSound DEF RequestInv
<1> QED BY <1>1, RequestInductive, PTL

(* The messages that are omitted are those the summary that is sent is      *)
(* about, and no output is sent without its call.                           *)
THEOREM NothingLost == Spec => []NothingIsLost
<1>1. RequestInv => NothingIsLost
  BY ContextSound DEF RequestInv
<1> QED BY <1>1, RequestInductive, PTL

(* A success is the provider's answer, for every style that conforms and an *)
(* answer of any length.  A chat stream that ended early yields a beginning *)
(* of it; a Responses stream that finished no item and completed with an    *)
(* empty output yields nothing.                                             *)
THEOREM Faithful == Spec => []AnswerIsFaithful
<1>1. RequestInv => AnswerIsFaithful
  BY DEF RequestInv, StreamInv
<1> QED BY <1>1, RequestInductive, PTL

(* No text is shown twice, no request is sent more often than its retries   *)
(* allow, and the response has the texts that were shown, but for a stream  *)
(* that completed with an empty output and no finished item.                *)
THEOREM Shown == Spec => []ShownOnce
<1>1. RequestInv => ShownOnce
  BY DEF RequestInv, StreamInv
<1> QED BY <1>1, RequestInductive, PTL
=============================================================================
