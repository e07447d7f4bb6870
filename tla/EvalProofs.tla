----------------------------- MODULE EvalProofs ------------------------------
(***************************************************************************)
(* Theorems about EvalRunner, for any tasks, decisions, realizations and   *)
(* limits: what the trajectory tells, what the ledger of constraints holds *)
(* and what the policy is shown.                                           *)
(***************************************************************************)
EXTENDS EvalRunner, FiniteSetTheorems, SequenceTheorems, WellFoundedInduction, TLAPS

(* Induction up to n, over a set: what holds of nothing and, with k, of     *)
(* k + 1, holds of all.                                                    *)
LEMMA UpTo ==
  ASSUME NEW n \in Nat, NEW S, 0 \in S, \A k \in 0..(n - 1) : k \in S => k + 1 \in S
  PROVE  \A k \in 0..n : k \in S
<1> DEFINE T == (0..n) \ S
<1> SUFFICES ASSUME T # {} PROVE FALSE
  OBVIOUS
<1>1. T \subseteq Nat
  OBVIOUS
<1>2. \E x \in T : \A y \in T : ~(<<y, x>> \in OpToRel(<, Nat))
  BY <1>1, WFMin, NatLessThanWellFounded
<1>3. PICK x \in T : \A y \in T : ~(<<y, x>> \in OpToRel(<, Nat))
  BY <1>2
<1>4. x # 0 /\ x \in 1..n
  OBVIOUS
<1>5. x - 1 \in 0..(n - 1)
  BY <1>4
<1>6. x - 1 \notin S
  BY <1>4, <1>5
<1>7. x - 1 \in T
  BY <1>5, <1>6
<1>8. <<x - 1, x>> \in OpToRel(<, Nat)
  BY <1>1, <1>4, <1>5 DEF OpToRel
<1> QED BY <1>3, <1>7, <1>8

-----------------------------------------------------------------------------
(* The operations of a node, one after the other: the recursion of Applying *)
(* has a solution, of which it is the last value.                          *)
LEMMA ApplyingIsLast ==
  ASSUME NEW c, NEW e, NEW id, IsList(Node(c, id).constraints)
  PROVE  \E after :
            /\ after[0] = [ok |-> TRUE, env |-> e]
            /\ \A k \in 1..Len(Node(c, id).constraints) :
                  after[k] = Applied(after[k - 1], id, Node(c, id).constraints[k])
            /\ after[Len(Node(c, id).constraints)] = Applying(c, e, id)
<1> DEFINE deltas   == Node(c, id).constraints
           n        == Len(deltas)
           At(f, k) == IF k = 0 THEN [ok |-> TRUE, env |-> e]
                       ELSE Applied(f[k - 1], id, deltas[k])
           Good     == {m \in 0..n : \E f : f = [k \in 0..m |-> At(f, k)]}
<1>1. n \in Nat
  BY DEF IsList
<1>2. 0 \in Good
  <2> DEFINE f == [k \in 0..0 |-> [ok |-> TRUE, env |-> e]]
  <2>1. f = [k \in 0..0 |-> At(f, k)]
    OBVIOUS
  <2>2. \E g : g = [k \in 0..0 |-> At(g, k)]
    <3> WITNESS f
    <3> QED BY <2>1
  <2> HIDE DEF At
  <2> QED BY <1>1, <2>2
<1>3. ASSUME NEW m \in 0..(n - 1), m \in Good
      PROVE  m + 1 \in Good
  <2>1. PICK f : f = [k \in 0..m |-> At(f, k)]
    BY <1>3
  <2> DEFINE g == [k \in 0..(m + 1) |-> IF k = m + 1 THEN At(f, k) ELSE f[k]]
  <2>2. \A k \in 0..(m + 1) : g[k] = At(g, k)
    <3> SUFFICES ASSUME NEW k \in 0..(m + 1) PROVE g[k] = At(g, k)
      OBVIOUS
    <3>1. k # 0 => k - 1 \in 0..m /\ g[k - 1] = f[k - 1]
      BY <1>1
    <3>2. At(g, k) = At(f, k)
      BY <3>1
    <3>3. k # m + 1 => f[k] = At(f, k)
      <4>1. k # m + 1 => k \in 0..m
        BY <1>1
      <4> HIDE DEF At
      <4> QED BY <2>1, <4>1
    <3> QED BY <3>2, <3>3
  <2>3. g = [k \in 0..(m + 1) |-> At(g, k)]
    <3>1. g = [k \in 0..(m + 1) |-> g[k]]
      OBVIOUS
    <3> HIDE DEF At, g
    <3> QED BY <2>2, <3>1
  <2>4. m + 1 \in 0..n
    BY <1>1
  <2>5. \E h : h = [k \in 0..(m + 1) |-> At(h, k)]
    <3> WITNESS g
    <3> QED BY <2>3
  <2> HIDE DEF At
  <2> QED BY <2>4, <2>5
<1>4. n \in Good
  <2> HIDE DEF Good, n
  <2>1. \A k \in 0..n : k \in Good
    BY <1>1, <1>2, <1>3, UpTo
  <2> QED BY <1>1, <2>1
<1> DEFINE after == CHOOSE f : f = [k \in 0..n |-> At(f, k)]
<1>5. after = [k \in 0..n |-> At(after, k)]
  BY <1>4
<1>6. Applying(c, e, id) = after[n]
  BY DEF Applying
<1> HIDE DEF after
<1>7. after[0] = [ok |-> TRUE, env |-> e]
  BY <1>1, <1>5
<1>8. ASSUME NEW k \in 1..n
      PROVE  after[k] = Applied(after[k - 1], id, deltas[k])
  <2>1. k \in 0..n /\ k # 0
    BY <1>1
  <2>2. after[k] = At(after, k)
    <3> HIDE DEF At
    <3> QED BY <1>5, <2>1
  <2> QED BY <2>1, <2>2
<1> QED BY <1>6, <1>7, <1>8

(* What is due after an event: the same recursion over the trajectory, its  *)
(* solution, and the step from one event to the next.                      *)
Entering(c, due, event) ==
    IF event.kind = "transition" THEN due \o Node(c, event.to).constraints ELSE due

LEMMA DueIsLast ==
  ASSUME NEW c, NEW events, IsList(events)
  PROVE  \E due :
            /\ due[0] = Node(c, c.start).constraints
            /\ \A k \in 1..Len(events) : due[k] = Entering(c, due[k - 1], events[k].event)
            /\ due[Len(events)] = Due(c, events)
<1> DEFINE n        == Len(events)
           At(f, k) == IF k = 0 THEN Node(c, c.start).constraints
                       ELSE IF events[k].event.kind = "transition"
                       THEN f[k - 1] \o Node(c, events[k].event.to).constraints
                       ELSE f[k - 1]
           Good     == {m \in 0..n : \E f : f = [k \in 0..m |-> At(f, k)]}
<1>1. n \in Nat
  BY DEF IsList
<1>2. 0 \in Good
  <2> DEFINE f == [k \in 0..0 |-> Node(c, c.start).constraints]
  <2>1. f = [k \in 0..0 |-> At(f, k)]
    OBVIOUS
  <2>2. \E g : g = [k \in 0..0 |-> At(g, k)]
    <3> WITNESS f
    <3> QED BY <2>1
  <2> HIDE DEF At
  <2> QED BY <1>1, <2>2
<1>3. ASSUME NEW m \in 0..(n - 1), m \in Good
      PROVE  m + 1 \in Good
  <2>1. PICK f : f = [k \in 0..m |-> At(f, k)]
    BY <1>3
  <2> DEFINE g == [k \in 0..(m + 1) |-> IF k = m + 1 THEN At(f, k) ELSE f[k]]
  <2>2. \A k \in 0..(m + 1) : g[k] = At(g, k)
    <3> SUFFICES ASSUME NEW k \in 0..(m + 1) PROVE g[k] = At(g, k)
      OBVIOUS
    <3>1. k # 0 => k - 1 \in 0..m /\ g[k - 1] = f[k - 1]
      BY <1>1
    <3>2. At(g, k) = At(f, k)
      BY <3>1
    <3>3. k # m + 1 => f[k] = At(f, k)
      <4>1. k # m + 1 => k \in 0..m
        BY <1>1
      <4> HIDE DEF At
      <4> QED BY <2>1, <4>1
    <3> QED BY <3>2, <3>3
  <2>3. g = [k \in 0..(m + 1) |-> At(g, k)]
    <3>1. g = [k \in 0..(m + 1) |-> g[k]]
      OBVIOUS
    <3> HIDE DEF At, g
    <3> QED BY <2>2, <3>1
  <2>4. m + 1 \in 0..n
    BY <1>1
  <2>5. \E h : h = [k \in 0..(m + 1) |-> At(h, k)]
    <3> WITNESS g
    <3> QED BY <2>3
  <2> HIDE DEF At
  <2> QED BY <2>4, <2>5
<1>4. n \in Good
  <2> HIDE DEF Good, n
  <2>1. \A k \in 0..n : k \in Good
    BY <1>1, <1>2, <1>3, UpTo
  <2> QED BY <1>1, <2>1
<1> DEFINE due == CHOOSE f : f = [k \in 0..n |-> At(f, k)]
<1>5. due = [k \in 0..n |-> At(due, k)]
  BY <1>4
<1>6. Due(c, events) = due[n]
  BY DEF Due
<1> HIDE DEF due
<1>7. due[0] = Node(c, c.start).constraints
  BY <1>1, <1>5
<1>8. ASSUME NEW k \in 1..n
      PROVE  due[k] = Entering(c, due[k - 1], events[k].event)
  <2>1. k \in 0..n /\ k # 0
    BY <1>1
  <2>2. due[k] = At(due, k)
    <3> HIDE DEF At
    <3> QED BY <1>5, <2>1
  <2> QED BY <2>1, <2>2 DEF Entering
<1> QED BY <1>6, <1>7, <1>8

(* Appending: a list grows by one, and keeps what it has.                   *)
LEMMA AppendGrows ==
  ASSUME NEW s, IsList(s), NEW x
  PROVE  /\ IsList(Append(s, x)) /\ Len(Append(s, x)) = Len(s) + 1
         /\ Len(s) \in Nat /\ DOMAIN s = 1..Len(s)
         /\ DOMAIN Append(s, x) = 1..(Len(s) + 1)
         /\ \A k \in 1..Len(s) : Append(s, x)[k] = s[k]
         /\ Append(s, x)[Len(s) + 1] = x
<1> DEFINE R == Range(s) \cup {x}
<1>1. s \in Seq(R) /\ x \in R
  BY DEF IsList
<1> HIDE DEF R
<1> DEFINE t == Append(s, x)
<1>2. /\ t \in Seq(R) /\ Len(t) = Len(s) + 1 /\ Len(s) \in Nat /\ DOMAIN s = 1..Len(s)
      /\ DOMAIN t = 1..(Len(s) + 1)
      /\ \A k \in 1..Len(s) : t[k] = s[k]
      /\ t[Len(s) + 1] = x
  BY <1>1
<1> HIDE DEF t
<1>3. IsList(t)
  <2>1. t \in [1..Len(t) -> Range(t)]
    BY <1>2 DEF Range
  <2> QED BY <1>2, <2>1 DEF IsList
<1> QED BY <1>2, <1>3 DEF t

LEMMA DueAtFirst ==
  ASSUME NEW c
  PROVE  Due(c, <<>>) = Node(c, c.start).constraints
<1>1. IsList(<<>>) /\ Len(<<>>) = 0
  BY DEF IsList, Range
<1> QED BY <1>1, DueIsLast

LEMMA DueNext ==
  ASSUME NEW c, NEW s, IsList(s), NEW x
  PROVE  Due(c, Append(s, x)) = Entering(c, Due(c, s), x.event)
<1> DEFINE t == Append(s, x)
           n == Len(s)
<1>1. /\ IsList(t) /\ Len(t) = n + 1 /\ n \in Nat
      /\ \A k \in 1..n : t[k] = s[k]
      /\ t[n + 1] = x
  BY AppendGrows
<1>2. PICK f : /\ f[0] = Node(c, c.start).constraints
               /\ \A k \in 1..n : f[k] = Entering(c, f[k - 1], s[k].event)
               /\ f[n] = Due(c, s)
  BY DueIsLast
<1>3. PICK g : /\ g[0] = Node(c, c.start).constraints
               /\ \A k \in 1..(n + 1) : g[k] = Entering(c, g[k - 1], t[k].event)
               /\ g[n + 1] = Due(c, t)
  <2> HIDE DEF t, n
  <2>1. \E g : /\ g[0] = Node(c, c.start).constraints
               /\ \A k \in 1..Len(t) : g[k] = Entering(c, g[k - 1], t[k].event)
               /\ g[Len(t)] = Due(c, t)
    BY <1>1, DueIsLast
  <2> QED BY <1>1, <2>1
<1> HIDE DEF t, n
<1> DEFINE Same == {k \in 0..n : f[k] = g[k]}
<1>4. 0 \in Same
  BY <1>1, <1>2, <1>3
<1>5. ASSUME NEW k \in 0..(n - 1), k \in Same
      PROVE  k + 1 \in Same
  <2>1. k + 1 \in 1..n /\ k + 1 \in 0..n /\ k + 1 \in 1..(n + 1) /\ (k + 1) - 1 = k
    BY <1>1
  <2>2. f[k + 1] = Entering(c, f[k], s[k + 1].event)
    BY <1>2, <2>1
  <2>3. g[k + 1] = Entering(c, g[k], t[k + 1].event)
    BY <1>3, <2>1
  <2> QED BY <1>1, <1>5, <2>1, <2>2, <2>3
<1>6. n \in Same
  <2> HIDE DEF Same
  <2> QED BY <1>1, <1>4, <1>5, UpTo
<1>7. n + 1 \in 1..(n + 1) /\ (n + 1) - 1 = n
  BY <1>1
<1>8. g[n + 1] = Entering(c, g[n], t[n + 1].event)
  BY <1>3, <1>7
<1> QED BY <1>1, <1>2, <1>3, <1>6, <1>8 DEF t

-----------------------------------------------------------------------------
(* What is in force, one operation after the other.                         *)
LEMMA LatestNext ==
  ASSUME NEW d, IsList(d), NEW x, NEW id
  PROVE  Latest(Append(d, x), id) =
            (IF Targets(x, id) THEN {} ELSE Latest(d, id))
              \cup (IF Declares(x, id) THEN {Len(d) + 1} ELSE {})
<1> DEFINE t == Append(d, x)
           n == Len(d)
<1>1. /\ Len(t) = n + 1 /\ n \in Nat /\ DOMAIN d = 1..n /\ DOMAIN t = 1..(n + 1)
      /\ \A k \in 1..n : t[k] = d[k]
      /\ t[n + 1] = x
  BY AppendGrows
<1> HIDE DEF t, n
<1>2. ASSUME NEW k \in 1..n
      PROVE  k \in Latest(t, id) <=> k \in Latest(d, id) /\ ~Targets(x, id)
  <2>1. t[k] = d[k] /\ k \in DOMAIN d /\ k \in DOMAIN t
    BY <1>1
  <2>2. (\A j \in (k + 1)..Len(t) : ~Targets(t[j], id))
          <=> (\A j \in (k + 1)..n : ~Targets(d[j], id)) /\ ~Targets(x, id)
    <3>1. \A j \in (k + 1)..(n + 1) : j \in (k + 1)..n \/ j = n + 1
      BY <1>1
    <3>2. n + 1 \in (k + 1)..(n + 1) /\ \A j \in (k + 1)..n : j \in 1..n /\ j \in (k + 1)..(n + 1)
      BY <1>1
    <3> QED BY <1>1, <3>1, <3>2
  <2> QED BY <2>1, <2>2 DEF Latest, n
<1>3. n + 1 \in Latest(t, id) <=> Declares(x, id)
  BY <1>1 DEF Latest
<1>4. Latest(t, id) \subseteq 1..(n + 1) /\ Latest(d, id) \subseteq 1..n
  BY <1>1 DEF Latest
<1>5. \A k : k \in 1..(n + 1) <=> k \in 1..n \/ k = n + 1
  BY <1>1
<1>6. n + 1 \notin 1..n
  BY <1>1
<1> QED BY <1>2, <1>3, <1>4, <1>5, <1>6 DEF t, n

(* What an operation makes of the active constraints.                       *)
LEMMA ActiveNext ==
  ASSUME NEW e, NEW delta, delta.op \in {"add", "replace", "remove"}, Applicable(e, delta)
  PROVE  /\ \A id : id \in DOMAIN ActiveAfter(e, delta) <=>
                      \/ Declares(delta, id)
                      \/ id \in DOMAIN e.active /\ ~Targets(delta, id)
         /\ \A id \in DOMAIN ActiveAfter(e, delta) :
               ActiveAfter(e, delta)[id] =
                  IF Declares(delta, id) THEN delta.value ELSE e.active[id]
<1>1. CASE delta.op = "add"
  BY <1>1 DEF ActiveAfter, Put, Declares, Targets
<1>2. CASE delta.op = "remove"
  BY <1>2 DEF ActiveAfter, Without, Restrict, Declares, Targets
<1>3. CASE delta.op = "replace"
  BY <1>3 DEF ActiveAfter, Put, Without, Restrict, Declares, Targets
<1> QED BY <1>1, <1>2, <1>3

LEMMA InForceNext ==
  ASSUME NEW e, NEW d, IsList(d), NEW delta, delta.op \in {"add", "replace", "remove"},
         Applicable(e, delta), InForce(d, e.active)
  PROVE  InForce(Append(d, delta), ActiveAfter(e, delta))
<1> DEFINE t == Append(d, delta)
           n == Len(d)
           b == ActiveAfter(e, delta)
<1>1. /\ n \in Nat /\ DOMAIN d = 1..n /\ DOMAIN t = 1..(n + 1)
      /\ \A k \in 1..n : t[k] = d[k]
      /\ t[n + 1] = delta
  BY AppendGrows
<1>2. \A id : Latest(t, id) = (IF Targets(delta, id) THEN {} ELSE Latest(d, id))
                                \cup (IF Declares(delta, id) THEN {n + 1} ELSE {})
  BY LatestNext
<1>3. \A id : id \in DOMAIN b <=> \/ Declares(delta, id)
                                  \/ id \in DOMAIN e.active /\ ~Targets(delta, id)
  BY ActiveNext
<1>4. \A id \in DOMAIN b : b[id] = IF Declares(delta, id) THEN delta.value ELSE e.active[id]
  BY ActiveNext
<1> HIDE DEF t, n, b
<1>5. \A id : Latest(d, id) \subseteq 1..n
  BY <1>1 DEF Latest
<1>6. ASSUME NEW k \in DOMAIN t, t[k].op # "remove"
      PROVE  t[k].id \in DOMAIN b <=> Latest(t, t[k].id) # {}
  <2> DEFINE id == t[k].id
  <2>1. CASE k = n + 1
    <3>1. Declares(delta, id)
      BY <1>1, <1>6, <2>1 DEF Declares
    <3> HIDE DEF id
    <3> QED BY <3>1, <1>2, <1>3 DEF id
  <2>2. CASE k \in 1..n
    <3>1. id \in DOMAIN e.active <=> Latest(d, id) # {}
      BY <1>1, <1>6, <2>2 DEF InForce
    <3> HIDE DEF id
    <3>2. id \in DOMAIN b <=> Latest(t, id) # {}
      BY <3>1, <1>2, <1>3
    <3> QED BY <3>2 DEF id
  <2> QED BY <1>1, <2>1, <2>2
<1>7. ASSUME NEW id \in DOMAIN b
      PROVE  \E k \in Latest(t, id) : b[id] = t[k].value
  <2>1. CASE Declares(delta, id)
    BY <1>1, <1>2, <1>4, <2>1
  <2>2. CASE ~Declares(delta, id)
    <3>1. id \in DOMAIN e.active /\ ~Targets(delta, id) /\ b[id] = e.active[id]
      BY <1>3, <1>4, <1>7, <2>2
    <3>2. PICK k \in Latest(d, id) : e.active[id] = d[k].value
      BY <3>1 DEF InForce
    <3>3. k \in 1..n /\ k \in Latest(t, id)
      BY <1>2, <1>5, <3>1, <3>2
    <3> QED BY <1>1, <3>1, <3>2, <3>3
  <2> QED BY <2>1, <2>2
<1> QED BY <1>6, <1>7 DEF InForce, t, b

-----------------------------------------------------------------------------
(* The environment: its type, and what its operations leave alone.          *)
EnvType(e) ==
    /\ e = [status |-> e.status, node |-> e.node, active |-> e.active,
            applied |-> e.applied, exposures |-> e.exposures, step |-> e.step,
            events |-> e.events]
    /\ e.status \in {"notStarted", "running", "terminated"}
    /\ IsList(e.events) /\ IsList(e.applied)
    /\ e.step = Len(e.events)

Deltas(e) == [k \in DOMAIN e.applied |-> e.applied[k].delta]

(* f is e, but for the constraints.                                         *)
Beside(e, f) ==
    /\ f.status = e.status /\ f.node = e.node /\ f.exposures = e.exposures
    /\ f.step = e.step /\ f.events = e.events

(* Every active constraint has a value under which the task declares it.    *)
DeclaredAs(c, id, value) ==
    \E n \in DOMAIN c.nodes : \E i \in DOMAIN c.nodes[n].constraints :
        /\ Declares(c.nodes[n].constraints[i], id)
        /\ c.nodes[n].constraints[i].value = value
Valued(c, active) == \A id \in DOMAIN active : DeclaredAs(c, id, active[id])

LEMMA DeltasAreList ==
  ASSUME NEW e, EnvType(e)
  PROVE  IsList(Deltas(e)) /\ DOMAIN Deltas(e) = 1..Len(e.applied) /\ Len(e.applied) \in Nat
         /\ Len(Deltas(e)) = Len(e.applied)
<1> DEFINE d == Deltas(e)
           n == Len(e.applied)
<1>1. n \in Nat /\ DOMAIN e.applied = 1..n
  BY DEF EnvType, IsList
<1> HIDE DEF n
<1>2. d = [k \in 1..n |-> e.applied[k].delta]
  BY <1>1 DEF Deltas
<1>3. d \in [1..n -> Range(d)]
  BY <1>2 DEF Range
<1>4. d \in Seq(Range(d)) /\ Len(d) = n
  <2> HIDE DEF d
  <2> QED BY <1>1, <1>3
<1> QED BY <1>1, <1>2, <1>4 DEF IsList, n

LEMMA OneConstraint ==
  ASSUME NEW e, EnvType(e), NEW node, NEW delta, delta.op \in {"add", "replace", "remove"},
         Applicable(e, delta), InForce(Deltas(e), e.active),
         NEW f, f = ApplyConstraint(e, node, delta)
  PROVE  /\ EnvType(f) /\ Beside(e, f)
         /\ Deltas(f) = Append(Deltas(e), delta) /\ InForce(Deltas(f), f.active)
         /\ \A id \in DOMAIN f.active :
               \/ Declares(delta, id) /\ f.active[id] = delta.value
               \/ id \in DOMAIN e.active /\ f.active[id] = e.active[id]
<1> DEFINE entry  == [node |-> node, delta |-> delta]
           more   == Append(e.applied, entry)
           active == ActiveAfter(e, delta)
           n      == Len(e.applied)
<1>1. f = [e EXCEPT !.active = active, !.applied = more]
  BY DEF ApplyConstraint
<1>2. /\ IsList(e.applied) /\ n \in Nat /\ DOMAIN e.applied = 1..n
      /\ IsList(more) /\ Len(more) = n + 1 /\ DOMAIN more = 1..(n + 1)
      /\ \A k \in 1..n : more[k] = e.applied[k]
      /\ more[n + 1] = entry
  BY AppendGrows DEF EnvType
<1>3. entry.delta = delta
  OBVIOUS
<1> HIDE DEF entry, more, active, n
<1>4. EnvType(f) /\ Beside(e, f) /\ f.applied = more /\ f.active = active
  BY <1>1, <1>2 DEF EnvType, Beside
<1>5. IsList(Deltas(e)) /\ Len(Deltas(e)) = n /\ DOMAIN Deltas(e) = 1..n
  BY DeltasAreList DEF n
<1>6. Deltas(f) = Append(Deltas(e), delta)
  <2> DEFINE t == Append(Deltas(e), delta)
             g == Deltas(f)
  <2>1. /\ DOMAIN t = 1..(n + 1) /\ IsList(t)
        /\ \A k \in 1..n : t[k] = Deltas(e)[k]
        /\ t[n + 1] = delta
    BY <1>5, AppendGrows
  <2>2. g = [k \in 1..(n + 1) |-> more[k].delta]
    BY <1>2, <1>4 DEF Deltas
  <2>3. \A k \in 1..n : Deltas(e)[k] = e.applied[k].delta
    BY <1>2 DEF Deltas
  <2>4. t \in Seq(Range(t))
    BY <2>1 DEF IsList
  <2> HIDE DEF t, g
  <2>5. \A k \in 1..(n + 1) : g[k] = t[k]
    <3> SUFFICES ASSUME NEW k \in 1..(n + 1) PROVE g[k] = t[k]
      OBVIOUS
    <3>1. CASE k = n + 1
      BY <1>2, <1>3, <2>1, <2>2, <3>1
    <3>2. CASE k \in 1..n
      BY <1>2, <2>1, <2>2, <2>3, <3>2
    <3> QED BY <1>2, <3>1, <3>2
  <2>6. t = [k \in 1..(n + 1) |-> t[k]]
    BY <2>1, <2>4
  <2> QED BY <2>2, <2>5, <2>6 DEF g, t
<1>7. InForce(Append(Deltas(e), delta), active)
  BY <1>5, InForceNext DEF active
<1>8. \A id \in DOMAIN active :
        \/ Declares(delta, id) /\ active[id] = delta.value
        \/ id \in DOMAIN e.active /\ active[id] = e.active[id]
  BY ActiveNext DEF active
<1> QED BY <1>4, <1>6, <1>7, <1>8

(* A node is one of the task's.                                             *)
LEMMA NodeIsOne ==
  ASSUME NEW c, IsCase(c), NEW id, HasNode(c, id)
  PROVE  \E n \in DOMAIN c.nodes :
            /\ Node(c, id) = c.nodes[n] /\ IsList(c.nodes[n].constraints)
            /\ \A i \in DOMAIN c.nodes[n].constraints :
                  c.nodes[n].constraints[i].op \in {"add", "replace", "remove"}
<1>1. PICK n \in DOMAIN c.nodes : c.nodes[n].id = id
  BY DEF HasNode
<1> DEFINE m == CHOOSE k \in DOMAIN c.nodes : c.nodes[k].id = id
<1>2. m \in DOMAIN c.nodes
  BY <1>1
<1>3. Node(c, id) = c.nodes[m]
  BY DEF Node
<1> HIDE DEF m
<1> QED BY <1>2, <1>3 DEF IsCase

(* apply_node: when every operation applied, the ledger has them all in     *)
(* their order and nothing else changed; otherwise nothing did.             *)
Gathered(c, e, deltas, f, k) ==
    /\ EnvType(f) /\ Beside(e, f) /\ InForce(Deltas(f), f.active) /\ Valued(c, f.active)
    /\ Len(Deltas(f)) = Len(Deltas(e)) + k
    /\ \A j \in 1..Len(Deltas(e)) : Deltas(f)[j] = Deltas(e)[j]
    /\ \A j \in 1..k : Deltas(f)[Len(Deltas(e)) + j] = deltas[j]

LEMMA GatheredNext ==
  ASSUME NEW c, NEW e, EnvType(e), NEW deltas, IsList(deltas), NEW k \in Nat,
         k + 1 \in DOMAIN deltas, deltas[k + 1].op \in {"add", "replace", "remove"},
         \A id : Declares(deltas[k + 1], id) => DeclaredAs(c, id, deltas[k + 1].value),
         NEW f, Gathered(c, e, deltas, f, k), Applicable(f, deltas[k + 1]), NEW node
  PROVE  Gathered(c, e, deltas, ApplyConstraint(f, node, deltas[k + 1]), k + 1)
<1> DEFINE g == ApplyConstraint(f, node, deltas[k + 1])
           x == deltas[k + 1]
           n == Len(Deltas(e))
<1>1. /\ EnvType(f) /\ Beside(e, f) /\ InForce(Deltas(f), f.active) /\ Valued(c, f.active)
      /\ Len(Deltas(f)) = n + k /\ n \in Nat
      /\ \A j \in 1..n : Deltas(f)[j] = Deltas(e)[j]
      /\ \A j \in 1..k : Deltas(f)[n + j] = deltas[j]
      /\ Applicable(f, x) /\ x.op \in {"add", "replace", "remove"}
      /\ \A id : Declares(x, id) => DeclaredAs(c, id, x.value)
  BY DeltasAreList DEF Gathered
<1>2. g = ApplyConstraint(f, node, x)
  OBVIOUS
<1> HIDE DEF g, x, n
<1>3. /\ EnvType(g) /\ Beside(f, g)
      /\ Deltas(g) = Append(Deltas(f), x) /\ InForce(Deltas(g), g.active)
      /\ \A id \in DOMAIN g.active :
            \/ Declares(x, id) /\ g.active[id] = x.value
            \/ id \in DOMAIN f.active /\ g.active[id] = f.active[id]
  BY <1>1, <1>2, OneConstraint
<1>4. Beside(e, g)
  BY <1>1, <1>3 DEF Beside
<1>5. Valued(c, g.active)
  BY <1>1, <1>3 DEF Valued
<1>6. /\ Len(Append(Deltas(f), x)) = n + k + 1
      /\ \A j \in 1..(n + k) : Append(Deltas(f), x)[j] = Deltas(f)[j]
      /\ Append(Deltas(f), x)[n + k + 1] = x
  BY <1>1, DeltasAreList, AppendGrows
<1>7. \A j \in 1..n : j \in 1..(n + k)
  BY <1>1
<1>8. \A j \in 1..(k + 1) : j = k + 1 \/ (j \in 1..k /\ n + j \in 1..(n + k))
  BY <1>1
<1>9. \A j \in 1..n : Deltas(g)[j] = Deltas(e)[j]
  BY <1>1, <1>3, <1>6, <1>7
<1>10. \A j \in 1..(k + 1) : Deltas(g)[n + j] = deltas[j]
  <2> SUFFICES ASSUME NEW j \in 1..(k + 1) PROVE Deltas(g)[n + j] = deltas[j]
    OBVIOUS
  <2>1. CASE j = k + 1
    <3>1. n + j = n + k + 1
      BY <1>1, <2>1
    <3> QED BY <1>3, <1>6, <2>1, <3>1 DEF x
  <2>2. CASE j \in 1..k
    BY <1>1, <1>3, <1>6, <1>8, <2>2
  <2> QED BY <1>8, <2>1, <2>2
<1>11. Len(Deltas(g)) = n + (k + 1)
  BY <1>1, <1>3, <1>6
<1> QED BY <1>3, <1>4, <1>5, <1>9, <1>10, <1>11 DEF Gathered, g, n

LEMMA NodeApplied ==
  ASSUME NEW c, IsCase(c), NEW id, HasNode(c, id), NEW e, EnvType(e),
         InForce(Deltas(e), e.active), Valued(c, e.active)
  PROVE  LET r == ApplyNode(c, e, id)
         IN  /\ ~r.ok => r.env = e
             /\ r.ok => Gathered(c, e, Node(c, id).constraints, r.env,
                                 Len(Node(c, id).constraints))
<1> DEFINE deltas == Node(c, id).constraints
           n      == Len(deltas)
<1>1. PICK m \in DOMAIN c.nodes :
        /\ Node(c, id) = c.nodes[m] /\ IsList(c.nodes[m].constraints)
        /\ \A i \in DOMAIN c.nodes[m].constraints :
              c.nodes[m].constraints[i].op \in {"add", "replace", "remove"}
  BY NodeIsOne
<1>2. /\ IsList(deltas) /\ n \in Nat /\ DOMAIN deltas = 1..n
      /\ \A i \in DOMAIN deltas : deltas[i].op \in {"add", "replace", "remove"}
      /\ \A i \in DOMAIN deltas : \A x :
            Declares(deltas[i], x) => DeclaredAs(c, x, deltas[i].value)
  BY <1>1 DEF IsList, DeclaredAs
<1>3. PICK after :
        /\ after[0] = [ok |-> TRUE, env |-> e]
        /\ \A k \in 1..n : after[k] = Applied(after[k - 1], id, deltas[k])
        /\ after[n] = Applying(c, e, id)
  BY <1>2, ApplyingIsLast
<1> HIDE DEF deltas, n
<1> DEFINE Good == {k \in 0..n : after[k].ok => Gathered(c, e, deltas, after[k].env, k)}
<1>4. 0 \in Good
  <2>1. Gathered(c, e, deltas, e, 0)
    BY DeltasAreList DEF Gathered, Beside
  <2> QED BY <1>2, <1>3, <2>1
<1>5. ASSUME NEW k \in 0..(n - 1), k \in Good
      PROVE  k + 1 \in Good
  <2>1. k + 1 \in 1..n /\ k + 1 \in 0..n /\ (k + 1) - 1 = k /\ k \in Nat
    BY <1>2
  <2>2. after[k + 1] = Applied(after[k], id, deltas[k + 1])
    BY <1>3, <2>1
  <2>3. ASSUME after[k + 1].ok
        PROVE  Gathered(c, e, deltas, after[k + 1].env, k + 1)
    <3>1. /\ after[k].ok /\ Applicable(after[k].env, deltas[k + 1])
          /\ after[k + 1].env = ApplyConstraint(after[k].env, id, deltas[k + 1])
      BY <2>2, <2>3 DEF Applied
    <3>2. Gathered(c, e, deltas, after[k].env, k)
      BY <1>5, <3>1
    <3> QED BY <1>2, <2>1, <3>1, <3>2, GatheredNext
  <2> QED BY <2>1, <2>3
<1>6. n \in Good
  <2> HIDE DEF Good
  <2>1. \A k \in 0..n : k \in Good
    BY <1>2, <1>4, <1>5, UpTo
  <2> QED BY <1>2, <2>1
<1> QED BY <1>3, <1>6 DEF ApplyNode, deltas, n

-----------------------------------------------------------------------------
(* The trajectory as a list: whom an event may follow, and what the list    *)
(* tells so far of where the task stands and of what the policy has seen.   *)
KindAt(s, k)        == s[k].event.kind
LastKind(s)         == KindAt(s, Len(s))
Kinds(s, kind)      == {k \in DOMAIN s : KindAt(s, k) = kind}
May(s, event)       == s = <<>> \/ event.kind \in Follows[LastKind(s)]
Along(c, event)     == \E t \in Range(c.transitions) : t.from = event.from /\ t.to = event.to
ConstraintsOf(list) == {x.constraint : x \in Range(list)}
SeenBy(s, k)        == UNION {ConstraintsOf(s[j].event.exposures) :
                                j \in {i \in Kinds(s, "observation") : i < k}}

Told(c, s, node) ==
    /\ \A k \in DOMAIN s : s[k].sequence = k
    /\ \A k \in 1..(Len(s) - 1) : KindAt(s, k + 1) \in Follows[KindAt(s, k)]
    /\ \A k \in Kinds(s, "transition") :
          StoodAt(c, s, k, s[k].event.from) /\ Along(c, s[k].event)
    /\ StoodAt(c, s, Len(s) + 1, node)

(* An observation, when what was exposed before it is known.                *)
Grounds(event, before) ==
    \A x \in DOMAIN event.exposures :
        LET exposure == event.exposures[x]
            earlier  == {event.exposures[y].constraint : y \in 1..(x - 1)} \cup before
        IN  /\ exposure.constraint \in DOMAIN event.visible \ earlier
            /\ exposure.how = "derive" =>
                  /\ exposure.inputs # {}
                  /\ exposure.inputs \subseteq earlier \cap DOMAIN event.visible
Shows(c, event, before) ==
    \A id \in DOMAIN event.visible :
        /\ id \in before \cup ConstraintsOf(event.exposures)
        /\ DeclaredAs(c, id, event.visible[id])

Seen(c, s, exposed) ==
    /\ \A k \in Kinds(s, "observation") :
          Grounds(s[k].event, SeenBy(s, k)) /\ Shows(c, s[k].event, SeenBy(s, k))
    /\ exposed = SeenBy(s, Len(s) + 1)

(* The environment of a case: its trajectory and its ledger.                *)
Story(c, e) ==
    /\ EnvType(e)
    /\ Told(c, e.events, e.node)
    /\ Seen(c, e.events, DOMAIN e.exposures)
Ledger(c, e) ==
    /\ Deltas(e) = Due(c, e.events)
    /\ InForce(Deltas(e), e.active)
    /\ Valued(c, e.active)

(* Where the run is, and what that says of the environment and the sink.    *)
Actions == Kinds(env.events, "action")
Before(kinds) == LastKind(env.events) \in kinds
PlaceInv ==
    /\ pc \in {"rejected", "built"} => env.events = <<>>
    /\ pc = "built" => env.status = "notStarted" /\ steps = 0
    /\ pc \in {"looping", "acting", "judging", "realizing"} => env.status = "running"
    /\ pc = "realizing" => Before({"started", "transition", "decision"})
    /\ pc \in {"looping", "acting"} => Before({"observation"})
    /\ pc = "judging" => Before({"action"})
    /\ pc = "scoring" => env.status = "terminated"
StepInv ==
    /\ Cardinality(Actions) <= MaxSteps
    /\ pc \in {"looping", "acting"} => steps = Cardinality(Actions)
    /\ pc = "acting" => steps < MaxSteps
    /\ pc = "judging" => Cardinality(Actions) = steps + 1
    /\ pc = "realizing" =>
          Cardinality(Actions) = IF InStep(env) THEN steps + 1 ELSE steps
SinkInv ==
    /\ sink \in {{}} \cup {{d} : d \in Decisions}
    /\ submitted \in Seq(Decisions)
    /\ pc = "judging" => sink = IF submitted = <<>> THEN {} ELSE {submitted[1]}
RunInv ==
    /\ case \in Cases /\ pc \in Places /\ suspended \in BOOLEAN
    /\ steps \in 0..MaxSteps /\ runs \in 1..MaxRuns
EvalInv ==
    /\ RunInv
    /\ Story(case, env)
    /\ pc # "rejected" => Compiles(case) /\ Ledger(case, env)
    /\ PlaceInv /\ StepInv /\ SinkInv

-----------------------------------------------------------------------------
(* One event more.                                                          *)
Entry(s, event) == [sequence |-> Len(s) + 1, event |-> event]
Longer(s, event) == Append(s, Entry(s, event))

LEMMA EmptyList ==
  ASSUME NEW s, IsList(s)
  PROVE  s = <<>> <=> Len(s) = 0
BY DEF IsList

LEMMA OneMore ==
  ASSUME NEW s, IsList(s), NEW x
  PROVE  /\ IsList(Longer(s, x)) /\ Len(Longer(s, x)) = Len(s) + 1
         /\ Len(s) \in Nat /\ DOMAIN s = 1..Len(s)
         /\ DOMAIN Longer(s, x) = 1..(Len(s) + 1)
         /\ \A k \in 1..Len(s) : Longer(s, x)[k] = s[k]
         /\ Longer(s, x)[Len(s) + 1].sequence = Len(s) + 1
         /\ Longer(s, x)[Len(s) + 1].event = x
         /\ LastKind(Longer(s, x)) = x.kind
<1> DEFINE y == Entry(s, x)
           t == Longer(s, x)
           n == Len(s)
<1>1. y.sequence = n + 1 /\ y.event = x /\ t = Append(s, y)
  BY DEF Entry, Longer
<1> HIDE DEF y
<1>2. /\ IsList(Append(s, y)) /\ Len(Append(s, y)) = n + 1
      /\ n \in Nat /\ DOMAIN s = 1..n
      /\ DOMAIN Append(s, y) = 1..(n + 1)
      /\ \A k \in 1..n : Append(s, y)[k] = s[k]
      /\ Append(s, y)[n + 1] = y
  BY AppendGrows
<1> HIDE DEF t, n
<1>3. t[n + 1].event.kind = x.kind
  BY <1>1, <1>2
<1>4. LastKind(t) = x.kind
  BY <1>1, <1>2, <1>3 DEF LastKind, KindAt
<1> QED BY <1>1, <1>2, <1>4 DEF t, n

LEMMA LongerIsList ==
  ASSUME NEW s, IsList(s), NEW x
  PROVE  IsList(Longer(s, x))
BY OneMore

LEMMA KindsNext ==
  ASSUME NEW s, IsList(s), NEW x, NEW kind
  PROVE  /\ Kinds(s, kind) \subseteq 1..Len(s)
         /\ Kinds(Longer(s, x), kind) =
               Kinds(s, kind) \cup (IF x.kind = kind THEN {Len(s) + 1} ELSE {})
<1> DEFINE t == Longer(s, x)
           n == Len(s)
<1>1. /\ n \in Nat /\ DOMAIN s = 1..n /\ DOMAIN t = 1..(n + 1)
      /\ \A k \in 1..n : t[k] = s[k]
      /\ t[n + 1].event = x
  BY OneMore
<1> HIDE DEF t, n
<1>2. Kinds(s, kind) = {k \in 1..n : s[k].event.kind = kind}
  BY <1>1 DEF Kinds, KindAt
<1>3. Kinds(t, kind) = {k \in 1..(n + 1) : t[k].event.kind = kind}
  BY <1>1 DEF Kinds, KindAt
<1>4. \A k : k \in 1..(n + 1) <=> k \in 1..n \/ k = n + 1
  BY <1>1
<1>5. n + 1 \notin 1..n
  BY <1>1
<1> QED BY <1>1, <1>2, <1>3, <1>4, <1>5 DEF t, n

(* Where the task stood does not depend on what came later.                 *)
LEMMA StoodNext ==
  ASSUME NEW c, NEW s, IsList(s), NEW x, NEW node
  PROVE  /\ \A k \in 1..(Len(s) + 1) :
               StoodAt(c, Longer(s, x), k, node) <=> StoodAt(c, s, k, node)
         /\ x.kind # "transition" =>
               (StoodAt(c, Longer(s, x), Len(s) + 2, node) <=> StoodAt(c, s, Len(s) + 1, node))
         /\ x.kind = "transition" => StoodAt(c, Longer(s, x), Len(s) + 2, x.to)
<1> DEFINE t == Longer(s, x)
           n == Len(s)
           Moves(r, k) == {j \in 1..(k - 1) : r[j].event.kind = "transition"}
<1>1. /\ n \in Nat /\ \A k \in 1..n : t[k] = s[k]
      /\ t[n + 1].event = x
  BY OneMore
<1> HIDE DEF t, n
<1>2. \A r, k, m : StoodAt(c, r, k, m) <=>
        \/ Moves(r, k) = {} /\ m = c.start
        \/ \E j \in Moves(r, k) : m = r[j].event.to /\ \A i \in Moves(r, k) : i <= j
  BY DEF StoodAt
<1>3. ASSUME NEW k \in 1..(n + 1)
      PROVE  StoodAt(c, t, k, node) <=> StoodAt(c, s, k, node)
  <2>1. \A j \in 1..(k - 1) : t[j] = s[j]
    BY <1>1
  <2>2. Moves(t, k) = Moves(s, k)
    BY <2>1
  <2>3. \A j \in Moves(s, k) : t[j] = s[j]
    BY <2>1
  <2> HIDE DEF Moves
  <2> QED BY <1>2, <2>2, <2>3
<1>4. Moves(t, n + 2) = Moves(t, n + 1) \cup (IF x.kind = "transition" THEN {n + 1} ELSE {})
  <2>1. \A j : j \in 1..((n + 2) - 1) <=> j \in 1..((n + 1) - 1) \/ j = n + 1
    BY <1>1
  <2> QED BY <1>1, <2>1
<1>5. ASSUME x.kind # "transition"
      PROVE  StoodAt(c, t, n + 2, node) <=> StoodAt(c, s, n + 1, node)
  <2>1. Moves(t, n + 2) = Moves(t, n + 1)
    BY <1>4, <1>5
  <2> HIDE DEF Moves
  <2>2. StoodAt(c, t, n + 2, node) <=> StoodAt(c, t, n + 1, node)
    BY <1>2, <2>1
  <2>3. n + 1 \in 1..(n + 1)
    BY <1>1
  <2> QED BY <1>3, <2>2, <2>3
<1>6. ASSUME x.kind = "transition"
      PROVE  StoodAt(c, t, n + 2, x.to)
  <2>1. n + 1 \in Moves(t, n + 2)
    BY <1>4, <1>6
  <2>2. \A i \in Moves(t, n + 2) : i <= n + 1
    BY <1>1
  <2> HIDE DEF Moves
  <2> QED BY <1>1, <1>2, <2>1, <2>2
<1> QED BY <1>3, <1>5, <1>6 DEF t, n

LEMMA ToldNext ==
  ASSUME NEW c, NEW s, IsList(s), NEW node, Told(c, s, node), NEW x, May(s, x), NEW after,
         x.kind # "transition" => after = node,
         x.kind = "transition" => x.from = node /\ Along(c, x) /\ after = x.to
  PROVE  Told(c, Longer(s, x), after)
<1> DEFINE t == Longer(s, x)
           n == Len(s)
<1>1. /\ Len(t) = n + 1 /\ n \in Nat /\ DOMAIN s = 1..n /\ DOMAIN t = 1..(n + 1)
      /\ \A k \in 1..n : t[k] = s[k]
      /\ t[n + 1].sequence = n + 1 /\ t[n + 1].event = x
  BY OneMore
<1>2. s = <<>> <=> n = 0
  BY EmptyList
<1>3. \A kind : /\ Kinds(s, kind) \subseteq 1..n
                 /\ Kinds(t, kind) =
                       Kinds(s, kind) \cup (IF x.kind = kind THEN {n + 1} ELSE {})
  BY KindsNext
<1>4. /\ \A m : \A k \in 1..(n + 1) : StoodAt(c, t, k, m) <=> StoodAt(c, s, k, m)
      /\ \A m : x.kind # "transition" => (StoodAt(c, t, n + 2, m) <=> StoodAt(c, s, n + 1, m))
      /\ x.kind = "transition" => StoodAt(c, t, n + 2, x.to)
  BY StoodNext
<1> HIDE DEF t, n
<1>5. \A k \in 1..(n + 1) : k \in 1..n \/ k = n + 1
  BY <1>1
<1>6. \A k \in DOMAIN t : t[k].sequence = k
  BY <1>1, <1>5 DEF Told
<1>7. ASSUME NEW k \in 1..(Len(t) - 1)
      PROVE  KindAt(t, k + 1) \in Follows[KindAt(t, k)]
  <2>1. k \in 1..n /\ t[k] = s[k]
    BY <1>1
  <2>2. CASE k = n
    <3>1. KindAt(t, k) = LastKind(s) /\ KindAt(t, k + 1) = x.kind
      BY <1>1, <2>1, <2>2 DEF KindAt, LastKind, n
    <3>2. s # <<>>
      BY <1>1, <1>2, <2>1
    <3> QED BY <3>1, <3>2 DEF May
  <2>3. CASE k # n
    <3>1. k \in 1..(n - 1) /\ k + 1 \in 1..n
      BY <1>1, <2>1, <2>3
    <3>2. KindAt(t, k) = KindAt(s, k) /\ KindAt(t, k + 1) = KindAt(s, k + 1)
      BY <1>1, <2>1, <3>1 DEF KindAt
    <3> QED BY <3>1, <3>2 DEF Told, n
  <2> QED BY <2>2, <2>3
<1>8. StoodAt(c, s, n + 1, node)
  BY DEF Told, n
<1>9. n + 1 \in 1..(n + 1) /\ n + 1 + 1 = n + 2
  BY <1>1
<1>10. ASSUME NEW k \in Kinds(t, "transition")
      PROVE  StoodAt(c, t, k, t[k].event.from) /\ Along(c, t[k].event)
  <2>1. CASE k \in Kinds(s, "transition")
    <3>1. t[k] = s[k] /\ k \in 1..(n + 1)
      BY <1>1, <1>3, <2>1
    <3>2. StoodAt(c, s, k, s[k].event.from) /\ Along(c, s[k].event)
      BY <2>1 DEF Told
    <3> QED BY <1>4, <3>1, <3>2
  <2>2. CASE x.kind = "transition" /\ k = n + 1
    <3>1. StoodAt(c, t, n + 1, node)
      BY <1>4, <1>8, <1>9
    <3> QED BY <1>1, <2>2, <3>1
  <2> QED BY <1>3, <2>1, <2>2
<1>11. StoodAt(c, t, Len(t) + 1, after)
  <2>1. CASE x.kind = "transition"
    BY <1>1, <1>4, <1>9, <2>1
  <2>2. CASE x.kind # "transition"
    BY <1>1, <1>4, <1>8, <1>9, <2>2
  <2> QED BY <2>1, <2>2
<1> QED BY <1>6, <1>7, <1>10, <1>11 DEF Told, t

(* What the policy has seen: only an observation adds to it.                *)
LEMMA SeenByNext ==
  ASSUME NEW s, IsList(s), NEW x
  PROVE  /\ \A k \in 1..(Len(s) + 1) : SeenBy(Longer(s, x), k) = SeenBy(s, k)
         /\ SeenBy(Longer(s, x), Len(s) + 2) =
               SeenBy(s, Len(s) + 1)
                 \cup (IF x.kind = "observation" THEN ConstraintsOf(x.exposures) ELSE {})
<1> DEFINE t == Longer(s, x)
           n == Len(s)
           Of(r, k) == {i \in Kinds(r, "observation") : i < k}
           Here(r, j) == ConstraintsOf(r[j].event.exposures)
<1>1. /\ n \in Nat /\ \A k \in 1..n : t[k] = s[k]
      /\ t[n + 1].event = x
  BY OneMore
<1>2. \A kind : /\ Kinds(s, kind) \subseteq 1..n
                /\ Kinds(t, kind) =
                      Kinds(s, kind) \cup (IF x.kind = kind THEN {n + 1} ELSE {})
  BY KindsNext
<1> HIDE DEF t, n
<1>3. \A r, k : SeenBy(r, k) = UNION {Here(r, j) : j \in Of(r, k)}
  BY DEF SeenBy
<1>4. \A k \in 1..(n + 1) : Of(t, k) = Of(s, k)
  <2> SUFFICES ASSUME NEW k \in 1..(n + 1) PROVE Of(t, k) = Of(s, k)
    OBVIOUS
  <2>1. ~(n + 1 < k)
    BY <1>1
  <2> QED BY <1>2, <2>1
<1>5. Of(t, n + 2) = Of(s, n + 1) \cup (IF x.kind = "observation" THEN {n + 1} ELSE {})
  <2>1. \A i \in 1..n : i < n + 1 /\ i < n + 2
    BY <1>1
  <2>2. n + 1 < n + 2
    BY <1>1
  <2> QED BY <1>2, <2>1, <2>2
<1>6. \A k : \A j \in Of(s, k) : Here(t, j) = Here(s, j)
  BY <1>1, <1>2
<1>7. Here(t, n + 1) = ConstraintsOf(x.exposures)
  BY <1>1
<1> HIDE DEF Of, Here
<1>8. \A k \in 1..(n + 1) : SeenBy(t, k) = SeenBy(s, k)
  BY <1>3, <1>4, <1>6
<1>9. CASE x.kind = "observation"
  BY <1>3, <1>5, <1>6, <1>7, <1>8, <1>9 DEF t, n
<1>10. CASE x.kind # "observation"
  BY <1>3, <1>5, <1>6, <1>8, <1>10 DEF t, n
<1> QED BY <1>9, <1>10

LEMMA SeenNext ==
  ASSUME NEW c, NEW s, IsList(s), NEW exposed, Seen(c, s, exposed), NEW x,
         x.kind = "observation" => Grounds(x, exposed) /\ Shows(c, x, exposed)
  PROVE  Seen(c, Longer(s, x),
              exposed \cup (IF x.kind = "observation" THEN ConstraintsOf(x.exposures) ELSE {}))
<1> DEFINE t == Longer(s, x)
           n == Len(s)
           more == exposed \cup (IF x.kind = "observation" THEN ConstraintsOf(x.exposures) ELSE {})
<1>1. /\ n \in Nat /\ Len(t) = n + 1 /\ \A k \in 1..n : t[k] = s[k]
      /\ t[n + 1].event = x
  BY OneMore
<1>2. \A kind : /\ Kinds(s, kind) \subseteq 1..n
                /\ Kinds(t, kind) =
                      Kinds(s, kind) \cup (IF x.kind = kind THEN {n + 1} ELSE {})
  BY KindsNext
<1>3. \A k \in 1..(n + 1) : SeenBy(t, k) = SeenBy(s, k)
  BY SeenByNext
<1>4. SeenBy(t, n + 2) = more
  BY SeenByNext DEF Seen
<1>5. SeenBy(s, n + 1) = exposed
  BY DEF Seen
<1> HIDE DEF t, n, more
<1>6. ASSUME NEW k \in Kinds(t, "observation")
      PROVE  Grounds(t[k].event, SeenBy(t, k)) /\ Shows(c, t[k].event, SeenBy(t, k))
  <2>1. CASE k \in Kinds(s, "observation")
    <3>1. t[k] = s[k] /\ SeenBy(t, k) = SeenBy(s, k)
      BY <1>1, <1>2, <1>3, <2>1
    <3> QED BY <2>1, <3>1 DEF Seen
  <2>2. CASE x.kind = "observation" /\ k = n + 1
    <3>1. SeenBy(t, k) = exposed
      BY <1>1, <1>3, <1>5, <2>2
    <3> QED BY <1>1, <2>2, <3>1
  <2> QED BY <1>2, <2>1, <2>2
<1>7. more = SeenBy(t, Len(t) + 1)
  <2>1. Len(t) + 1 = n + 2
    BY <1>1
  <2> QED BY <1>4, <2>1
<1> QED BY <1>6, <1>7 DEF Seen, t, more

(* How many actions there were.                                             *)
LEMMA ActionsNext ==
  ASSUME NEW s, IsList(s), NEW x
  PROVE  /\ Cardinality(Kinds(s, "action")) \in Nat
         /\ x.kind # "action" => Kinds(Longer(s, x), "action") = Kinds(s, "action")
         /\ x.kind = "action" =>
               Cardinality(Kinds(Longer(s, x), "action")) = Cardinality(Kinds(s, "action")) + 1
<1> DEFINE S == Kinds(s, "action")
           n == Len(s)
<1>1. \A kind : /\ Kinds(s, kind) \subseteq 1..n
                /\ Kinds(Longer(s, x), kind) =
                      Kinds(s, kind) \cup (IF x.kind = kind THEN {n + 1} ELSE {})
  BY KindsNext
<1>2. n \in Nat
  BY OneMore
<1>3. S \subseteq 1..n /\ n + 1 \notin S
  <2>1. S \subseteq 1..n
    BY <1>1
  <2> HIDE DEF S
  <2> QED BY <1>2, <2>1
<1>4. IsFiniteSet(S)
  <2>1. IsFiniteSet(1..n)
    BY <1>2, FS_Interval
  <2> QED BY <1>3, <2>1, FS_Subset
<1>5. Cardinality(S) \in Nat
  BY <1>4, FS_CardinalityType
<1>6. Cardinality(S \cup {n + 1}) = Cardinality(S) + 1
  BY <1>3, <1>4, FS_AddElement
<1>7. x.kind # "action" => Kinds(Longer(s, x), "action") = S
  BY <1>1
<1>8. x.kind = "action" => Kinds(Longer(s, x), "action") = S \cup {n + 1}
  BY <1>1
<1> QED BY <1>5, <1>6, <1>7, <1>8

-----------------------------------------------------------------------------
(* The operations of the environment keep its story and its ledger.         *)
LEMMA FollowsAre ==
  /\ "observation" \in Follows["started"] /\ "terminated" \in Follows["started"]
  /\ "action" \in Follows["observation"] /\ "decision" \in Follows["action"]
  /\ "observation" \in Follows["transition"] /\ "terminated" \in Follows["transition"]
  /\ "transition" \in Follows["decision"] /\ "observation" \in Follows["decision"]
  /\ "terminated" \in Follows["decision"]
BY DEF Follows

LEMMA RecordIs ==
  ASSUME NEW e, EnvType(e), NEW x, NEW f, f = Record(e, x)
  PROVE  /\ EnvType(f)
         /\ f.status = e.status /\ f.node = e.node /\ f.active = e.active
         /\ f.applied = e.applied /\ f.exposures = e.exposures
         /\ f.events = Longer(e.events, x) /\ Deltas(f) = Deltas(e)
<1> DEFINE more == Longer(e.events, x)
           n    == Len(e.events)
<1>1. e.step = n
  BY DEF EnvType
<1>2. IsList(e.events)
  BY DEF EnvType
<1>3. IsList(more) /\ Len(more) = n + 1 /\ n \in Nat
  BY <1>2, OneMore
<1>4. Append(e.events, [sequence |-> e.step + 1, event |-> x]) = more
  BY <1>1 DEF Longer, Entry
<1> HIDE DEF more, n
<1>5. f = [e EXCEPT !.step = n + 1, !.events = more]
  BY <1>1, <1>4 DEF Record
<1>6. /\ f.status = e.status /\ f.node = e.node /\ f.active = e.active
      /\ f.applied = e.applied /\ f.exposures = e.exposures
      /\ f.events = more /\ f.step = n + 1
  BY <1>5 DEF EnvType
<1>7. EnvType(f)
  BY <1>3, <1>5, <1>6 DEF EnvType
<1>8. Deltas(f) = Deltas(e)
  BY <1>6 DEF Deltas
<1> QED BY <1>6, <1>7, <1>8 DEF more

LEMMA Restatused ==
  ASSUME NEW c, NEW e, Story(c, e), NEW status \in {"notStarted", "running", "terminated"},
         NEW f, f = [e EXCEPT !.status = status]
  PROVE  /\ Story(c, f)
         /\ Ledger(c, e) => Ledger(c, f)
         /\ f.status = status /\ f.node = e.node /\ f.events = e.events
<1>1. EnvType(e)
  BY DEF Story
<1>2. /\ f.status = status /\ f.node = e.node /\ f.active = e.active
      /\ f.applied = e.applied /\ f.exposures = e.exposures
      /\ f.events = e.events /\ f.step = e.step
  BY <1>1 DEF EnvType
<1>3. EnvType(f)
  BY <1>1, <1>2 DEF EnvType
<1>4. Story(c, f)
  BY <1>2, <1>3 DEF Story
<1>5. Ledger(c, e) => Ledger(c, f)
  BY <1>2 DEF Ledger, Deltas
<1> QED BY <1>2, <1>4, <1>5

LEMMA Recorded ==
  ASSUME NEW c, NEW e, Story(c, e), NEW x, May(e.events, x),
         x.kind \notin {"transition", "observation"}, NEW f, f = Record(e, x)
  PROVE  /\ Story(c, f)
         /\ Ledger(c, e) => Ledger(c, f)
         /\ f.status = e.status /\ f.node = e.node
         /\ f.events = Longer(e.events, x)
<1>1. EnvType(e) /\ IsList(e.events) /\ Told(c, e.events, e.node)
      /\ Seen(c, e.events, DOMAIN e.exposures)
  BY DEF Story, EnvType
<1>2. /\ EnvType(f)
      /\ f.status = e.status /\ f.node = e.node /\ f.active = e.active
      /\ f.exposures = e.exposures
      /\ f.events = Longer(e.events, x) /\ Deltas(f) = Deltas(e)
  BY <1>1, RecordIs
<1>3. Told(c, f.events, f.node)
  <2>1. Told(c, Longer(e.events, x), e.node)
    BY <1>1, ToldNext
  <2> QED BY <1>2, <2>1
<1>4. Seen(c, f.events, DOMAIN f.exposures)
  <2> DEFINE exposed == DOMAIN e.exposures
  <2>1. Seen(c, Longer(e.events, x),
             exposed \cup (IF x.kind = "observation" THEN ConstraintsOf(x.exposures) ELSE {}))
    BY <1>1, SeenNext
  <2>2. exposed \cup (IF x.kind = "observation" THEN ConstraintsOf(x.exposures) ELSE {})
          = exposed
    OBVIOUS
  <2> HIDE DEF exposed
  <2> QED BY <1>2, <2>1, <2>2 DEF exposed
<1>5. Due(c, f.events) = Due(c, e.events)
  <2> DEFINE y == Entry(e.events, x)
  <2>1. y.event = x
    BY DEF Entry
  <2>2. f.events = Append(e.events, y)
    BY <1>2 DEF Longer
  <2> HIDE DEF y
  <2>3. Due(c, Append(e.events, y)) = Entering(c, Due(c, e.events), y.event)
    BY <1>1, DueNext
  <2> QED BY <2>1, <2>2, <2>3 DEF Entering
<1>6. Ledger(c, e) => Ledger(c, f)
  BY <1>2, <1>5 DEF Ledger
<1> QED BY <1>2, <1>3, <1>4, <1>6 DEF Story

LEMMA Terminated ==
  ASSUME NEW c, NEW e, Story(c, e), May(e.events, [kind |-> "terminated"])
  PROVE  /\ Story(c, Terminate(e))
         /\ Ledger(c, e) => Ledger(c, Terminate(e))
         /\ Terminate(e).status = "terminated" /\ Terminate(e).node = e.node
         /\ Terminate(e).events = Longer(e.events, [kind |-> "terminated"])
<1> DEFINE x == [kind |-> "terminated"]
           g == [e EXCEPT !.status = "terminated"]
           f == Terminate(e)
<1>1. x.kind = "terminated"
  OBVIOUS
<1>2. f = Record(g, x)
  BY DEF Terminate
<1>3. /\ Story(c, g)
      /\ Ledger(c, e) => Ledger(c, g)
      /\ g.status = "terminated" /\ g.node = e.node /\ g.events = e.events
  <2> HIDE DEF x, f
  <2> QED BY Restatused
<1>4. May(g.events, x)
  BY <1>3
<1> HIDE DEF x, g, f
<1>5. /\ Story(c, f)
      /\ Ledger(c, g) => Ledger(c, f)
      /\ f.status = g.status /\ f.node = g.node /\ f.events = Longer(g.events, x)
  BY <1>1, <1>2, <1>3, <1>4, Recorded
<1> QED BY <1>3, <1>5 DEF x, f

(* What was gathered is what there was and then all of the node's.          *)
LEMMA GatheredAll ==
  ASSUME NEW c, NEW e, EnvType(e), NEW deltas, IsList(deltas), NEW f,
         Gathered(c, e, deltas, f, Len(deltas))
  PROVE  Deltas(f) = Deltas(e) \o deltas
<1> DEFINE a == Deltas(e)
           b == Deltas(f)
           n == Len(a)
           m == Len(deltas)
           R == Range(a) \cup Range(deltas)
<1>1. EnvType(f)
  BY DEF Gathered
<1>2. IsList(a) /\ IsList(b)
  BY <1>1, DeltasAreList
<1>3. /\ Len(b) = n + m
      /\ \A j \in 1..n : b[j] = a[j]
      /\ \A j \in 1..m : b[n + j] = deltas[j]
  BY DEF Gathered
<1>4. a \in Seq(R) /\ deltas \in Seq(R)
  BY <1>2 DEF IsList
<1> HIDE DEF a, b, R
<1>5. n \in Nat /\ m \in Nat
  BY <1>4
<1>6. b = [j \in 1..Len(b) |-> b[j]]
  BY <1>2 DEF IsList
<1>7. a \o deltas = [j \in 1..(n + m) |-> IF j <= n THEN a[j] ELSE deltas[j - n]]
  <2> DEFINE d == a \o deltas
  <2>1. /\ d \in Seq(R) /\ Len(d) = n + m
        /\ \A j \in 1..(n + m) : d[j] = IF j <= n THEN a[j] ELSE deltas[j - n]
    BY <1>4, ConcatProperties
  <2> HIDE DEF d
  <2>2. d = [j \in 1..(n + m) |-> d[j]]
    BY <2>1
  <2> QED BY <2>1, <2>2 DEF d
<1> HIDE DEF n, m
<1>8. ASSUME NEW j \in 1..(n + m)
      PROVE  b[j] = IF j <= n THEN a[j] ELSE deltas[j - n]
  <2>1. CASE j <= n
    BY <1>3, <1>5, <2>1
  <2>2. CASE ~(j <= n)
    <3>1. j - n \in 1..m /\ n + (j - n) = j
      BY <1>5, <2>2
    <3> QED BY <1>3, <2>2, <3>1
  <2> QED BY <2>1, <2>2
<1>9. b = a \o deltas
  BY <1>3, <1>6, <1>7, <1>8
<1> QED BY <1>9 DEF a, b

LEMMA FreshIs ==
  ASSUME NEW c, NEW e, e = Fresh(c)
  PROVE  /\ Story(c, e) /\ e.events = <<>> /\ e.status = "notStarted" /\ e.node = c.start
         /\ Deltas(e) = <<>> /\ InForce(Deltas(e), e.active) /\ Valued(c, e.active)
<1>1. IsList(<<>>) /\ Len(<<>>) = 0 /\ DOMAIN <<>> = {}
  BY DEF IsList, Range
<1>2. DOMAIN Empty = {}
  BY DEF Empty
<1>3. /\ e.status = "notStarted" /\ e.node = c.start /\ e.active = Empty
      /\ e.applied = <<>> /\ e.exposures = Empty /\ e.step = 0 /\ e.events = <<>>
  BY DEF Fresh
<1>4. EnvType(e)
  <2>1. e = [status |-> e.status, node |-> e.node, active |-> e.active,
             applied |-> e.applied, exposures |-> e.exposures, step |-> e.step,
             events |-> e.events]
    BY DEF Fresh
  <2> QED BY <1>1, <1>3, <2>1 DEF EnvType
<1>5. \A kind : Kinds(<<>>, kind) = {}
  BY <1>1 DEF Kinds
<1>6. StoodAt(c, <<>>, 1, c.start)
  BY DEF StoodAt
<1>7. Told(c, e.events, e.node)
  BY <1>1, <1>3, <1>5, <1>6 DEF Told
<1>8. SeenBy(<<>>, 1) = {}
  BY <1>5 DEF SeenBy
<1>9. Seen(c, e.events, DOMAIN e.exposures)
  BY <1>1, <1>2, <1>3, <1>5, <1>8 DEF Seen
<1>10. Deltas(e) = <<>>
  <2>1. e.applied = <<>> /\ DOMAIN e.applied = {}
    BY <1>1, <1>3
  <2>2. Deltas(e) = [k \in {} |-> e.applied[k].delta]
    BY <2>1 DEF Deltas
  <2> QED BY <2>2, <1>1
<1>11. InForce(Deltas(e), e.active) /\ Valued(c, e.active)
  BY <1>1, <1>2, <1>3, <1>10 DEF InForce, Valued
<1> QED BY <1>3, <1>4, <1>7, <1>9, <1>10, <1>11 DEF Story

LEMMA OpenedIs ==
  ASSUME NEW c, IsCase(c)
  PROVE  /\ Story(c, Opened(c)) /\ Opened(c).events = <<>> /\ Opened(c).status = "notStarted"
         /\ Built(c) => Compiles(c) /\ Ledger(c, Opened(c))
<1> DEFINE e == Fresh(c)
           deltas == Node(c, c.start).constraints
           r == ApplyNode(c, e, c.start)
           f == Opened(c)
<1>1. /\ Story(c, e) /\ e.events = <<>> /\ e.status = "notStarted" /\ e.node = c.start
      /\ Deltas(e) = <<>> /\ InForce(Deltas(e), e.active) /\ Valued(c, e.active)
  BY FreshIs
<1>2. f = IF Built(c) THEN r.env ELSE e
  BY DEF Opened, New
<1>3. Built(c) <=> Compiles(c) /\ r.ok
  BY DEF Built, New
<1> HIDE DEF e, f
<1>4. EnvType(e)
  BY <1>1 DEF Story
<1>5. CASE ~Built(c)
  BY <1>1, <1>2, <1>5 DEF f
<1>6. CASE Built(c)
  <2>1. HasNode(c, c.start)
    BY <1>3, <1>6 DEF Compiles
  <2>2. Gathered(c, e, deltas, f, Len(deltas))
    <3>1. r.ok => Gathered(c, e, deltas, r.env, Len(deltas))
      BY <1>1, <1>4, <2>1, NodeApplied
    <3> QED BY <1>2, <1>3, <1>6, <3>1
  <2>3. IsList(deltas)
    BY <2>1, NodeIsOne
  <2> HIDE DEF deltas
  <2>4. Deltas(f) = Deltas(e) \o deltas
    BY <1>4, <2>2, <2>3, GatheredAll
  <2>5. <<>> \o deltas = deltas
    BY <2>3 DEF IsList
  <2>6. EnvType(f) /\ Beside(e, f) /\ InForce(Deltas(f), f.active) /\ Valued(c, f.active)
    BY <2>2 DEF Gathered
  <2>7. f.events = <<>> /\ f.status = "notStarted"
    BY <1>1, <2>6 DEF Beside
  <2>8. Story(c, f)
    BY <1>1, <2>6 DEF Story, Beside
  <2>9. Due(c, f.events) = Deltas(f)
    BY <1>1, <2>4, <2>5, <2>7, DueAtFirst DEF deltas
  <2> QED BY <1>3, <1>6, <2>6, <2>7, <2>8, <2>9 DEF Ledger, f
<1> QED BY <1>5, <1>6

LEMMA StartedIs ==
  ASSUME NEW c, NEW e, Story(c, e), e.events = <<>>, NEW f, f = Started(c, e)
  PROVE  /\ Story(c, f)
         /\ Ledger(c, e) => Ledger(c, f)
         /\ f.status \in {"running", "terminated"}
         /\ f.events # <<>> /\ KindAt(f.events, 1) = "started"
         /\ f.status = "running" => LastKind(f.events) = "started"
         /\ Kinds(f.events, "action") = {}
<1> DEFINE x == [kind |-> "started"]
           y == [kind |-> "terminated"]
           g == [e EXCEPT !.status = "running"]
           h == Record(g, x)
<1>1. x.kind = "started" /\ y.kind = "terminated"
  OBVIOUS
<1>2. f = IF Node(c, e.node).terminal THEN Terminate(h) ELSE h
  BY DEF Started
<1>3. /\ Story(c, g)
      /\ Ledger(c, e) => Ledger(c, g)
      /\ g.status = "running" /\ g.node = e.node /\ g.events = e.events
  <2> HIDE DEF x, y, h
  <2> QED BY Restatused
<1>4. May(g.events, x)
  BY <1>3 DEF May
<1>5. h = Record(g, x)
  OBVIOUS
<1> HIDE DEF g, h, x
<1>6. /\ Story(c, h)
      /\ Ledger(c, g) => Ledger(c, h)
      /\ h.status = "running" /\ h.events = Longer(<<>>, x)
  BY <1>1, <1>3, <1>4, <1>5, Recorded
<1>7. IsList(<<>>) /\ Len(<<>>) = 0 /\ \A kind : Kinds(<<>>, kind) = {}
  BY DEF IsList, Range, Kinds
<1> DEFINE s == h.events
<1>8. /\ IsList(s) /\ Len(s) = 1 /\ s[1].event = x /\ s # <<>> /\ LastKind(s) = "started"
      /\ DOMAIN s = 1..1
  <2> DEFINE w == <<>>
  <2>1. IsList(w) /\ Len(w) = 0 /\ s = Longer(w, x)
    BY <1>6, <1>7
  <2> HIDE DEF w, s
  <2> DEFINE l == Longer(w, x)
  <2>2. /\ IsList(l) /\ Len(l) = Len(w) + 1 /\ l[Len(w) + 1].event = x
        /\ LastKind(l) = x.kind /\ DOMAIN l = 1..(Len(w) + 1)
    BY <2>1, OneMore
  <2> HIDE DEF l
  <2>3. s = l
    BY <2>1 DEF l
  <2> QED BY <1>1, <2>1, <2>2, <2>3, EmptyList
<1>9. Kinds(s, "action") = {}
  BY <1>1, <1>6, <1>7, ActionsNext
<1> HIDE DEF s
<1>10. CASE ~Node(c, e.node).terminal
  BY <1>1, <1>2, <1>3, <1>6, <1>8, <1>9, <1>10 DEF s, KindAt
<1>11. CASE Node(c, e.node).terminal
  <2>1. May(s, y)
    BY <1>1, <1>8, FollowsAre DEF May
  <2>2. /\ Story(c, f)
        /\ Ledger(c, h) => Ledger(c, f)
        /\ f.status = "terminated" /\ f.events = Longer(s, y)
    BY <1>2, <1>6, <1>11, <2>1, Terminated DEF s
  <2> HIDE DEF y
  <2>3. f.events[1] = s[1] /\ f.events # <<>>
    <3> DEFINE l == Longer(s, y)
    <3>1. /\ IsList(l) /\ Len(l) = Len(s) + 1
          /\ \A k \in 1..Len(s) : l[k] = s[k]
      <4>1. IsList(s)
        BY <1>8
      <4>2. IsList(l)
        BY <4>1, LongerIsList
      <4>3. Len(l) = Len(s) + 1
        BY <4>1, OneMore
      <4>4. \A k \in 1..Len(s) : l[k] = s[k]
        BY <4>1, OneMore
      <4> QED BY <4>2, <4>3, <4>4
    <3> HIDE DEF l
    <3>2. f.events = l
      BY <2>2 DEF l
    <3>3. l # <<>>
      <4>1. IsList(l) /\ Len(l) # 0
        BY <1>8, <3>1
      <4> QED BY <4>1, EmptyList
    <3>4. l[1] = s[1]
      BY <1>8, <3>1
    <3> QED BY <3>2, <3>3, <3>4
  <2>4. Kinds(f.events, "action") = {}
    BY <1>1, <1>8, <1>9, <2>2, ActionsNext
  <2> QED BY <1>1, <1>3, <1>6, <1>8, <2>2, <2>3, <2>4 DEF KindAt
<1> QED BY <1>10, <1>11

(* emit_observation: what it may show is in force and already exposed.      *)
LEMMA Emitted ==
  ASSUME NEW c, NEW e, Story(c, e), Ledger(c, e),
         "observation" \in Follows[LastKind(e.events)],
         NEW exposures, IsList(exposures), NEW r, r = EmitObservation(e, exposures)
  PROVE  /\ ~r.ok => r.env = e
         /\ r.ok => /\ Story(c, r.env) /\ Ledger(c, r.env)
                    /\ r.env.status = e.status
                    /\ \E x : x.kind = "observation" /\ r.env.events = Longer(e.events, x)
<1> DEFINE with    == ExposuresWith(e, exposures)
           shown   == [e EXCEPT !.exposures = with]
           visible == VisibleState(shown)
           x       == [kind |-> "observation", exposures |-> exposures, visible |-> visible]
           f       == Record(shown, x)
           known   == DOMAIN e.exposures
           now     == ConstraintsOf(exposures)
<1>1. ~r.ok => r.env = e
  BY DEF EmitObservation
<1>2. SUFFICES ASSUME r.ok
               PROVE  /\ Story(c, r.env) /\ Ledger(c, r.env)
                      /\ r.env.status = e.status
                      /\ r.env.events = Longer(e.events, x)
  <2>1. x.kind = "observation"
    OBVIOUS
  <2> HIDE DEF x
  <2> QED BY <1>1, <1>2, <2>1
<1>3. AllExposable(e, exposures) /\ r.env = f
  BY <1>2 DEF EmitObservation
<1>4. x.kind = "observation" /\ x.exposures = exposures /\ x.visible = visible
  OBVIOUS
<1>5. EnvType(e) /\ IsList(e.events) /\ Told(c, e.events, e.node) /\ Seen(c, e.events, known)
  BY DEF Story, EnvType
<1>6. DOMAIN with = known \cup now
  BY DEF ExposuresWith, ConstraintsOf, Range
<1>7. f = Record(shown, x)
  OBVIOUS
<1> HIDE DEF x, f, with
<1>8. /\ shown.status = e.status /\ shown.node = e.node /\ shown.active = e.active
      /\ shown.applied = e.applied /\ shown.exposures = with
      /\ shown.events = e.events /\ shown.step = e.step
  BY <1>5 DEF EnvType
<1>9. EnvType(shown)
  BY <1>5, <1>8 DEF EnvType
<1> HIDE DEF shown
<1>10. DOMAIN visible = DOMAIN e.active \cap (known \cup now)
       /\ \A id \in DOMAIN visible : visible[id] = e.active[id]
  BY <1>6, <1>8 DEF VisibleState, Restrict
<1> HIDE DEF visible
<1>11. Grounds(x, known)
  <2> SUFFICES ASSUME NEW k \in DOMAIN exposures
               PROVE  LET earlier == {exposures[y].constraint : y \in 1..(k - 1)} \cup known
                      IN  /\ exposures[k].constraint \in DOMAIN visible \ earlier
                          /\ exposures[k].how = "derive" =>
                                /\ exposures[k].inputs # {}
                                /\ exposures[k].inputs \subseteq earlier \cap DOMAIN visible
    BY <1>4 DEF Grounds
  <2> DEFINE earlier == {exposures[y].constraint : y \in 1..(k - 1)} \cup known
  <2>1. ExposedBefore(e, exposures, k) = earlier
    BY DEF ExposedBefore
  <2>2. /\ exposures[k].constraint \in DOMAIN e.active
        /\ exposures[k].constraint \notin earlier
        /\ exposures[k].how = "derive" =>
              /\ exposures[k].inputs # {}
              /\ exposures[k].inputs \subseteq DOMAIN e.active \cap earlier
    BY <1>3, <2>1 DEF AllExposable, Exposable
  <2>3. exposures[k].constraint \in now
    BY DEF ConstraintsOf, Range
  <2>4. exposures[k].how = "derive" => exposures[k].inputs \subseteq DOMAIN visible
    <3> SUFFICES ASSUME exposures[k].how = "derive", NEW i \in exposures[k].inputs
                 PROVE  i \in known \cup now
      BY <1>10, <2>2
    <3>1. i \in earlier
      BY <2>2
    <3>2. CASE i \in known
      BY <3>2
    <3>3. CASE i \notin known
      <4>1. PICK y \in 1..(k - 1) : i = exposures[y].constraint
        BY <3>1, <3>3
      <4>2. y \in DOMAIN exposures
        <5>1. Len(exposures) \in Nat /\ DOMAIN exposures = 1..Len(exposures)
          BY DEF IsList
        <5> QED BY <5>1
      <4> QED BY <4>1, <4>2 DEF ConstraintsOf, Range
    <3> QED BY <3>2, <3>3
  <2> HIDE DEF earlier
  <2> QED BY <1>10, <2>2, <2>3, <2>4 DEF earlier
<1>12. Shows(c, x, known)
  BY <1>4, <1>10 DEF Shows, Ledger, Valued
<1>13. /\ EnvType(f)
       /\ f.status = e.status /\ f.node = e.node /\ f.active = e.active
       /\ f.exposures = with
       /\ f.events = Longer(e.events, x) /\ Deltas(f) = Deltas(e)
  <2>1. Deltas(shown) = Deltas(e)
    BY <1>8 DEF Deltas
  <2> QED BY <1>7, <1>8, <1>9, <2>1, RecordIs
<1>14. Told(c, f.events, f.node)
  <2>1. May(e.events, x)
    BY <1>4 DEF May
  <2>2. Told(c, Longer(e.events, x), e.node)
    BY <1>4, <1>5, <2>1, ToldNext
  <2> QED BY <1>13, <2>2
<1>15. Seen(c, f.events, DOMAIN f.exposures)
  <2>1. Seen(c, Longer(e.events, x),
             known \cup (IF x.kind = "observation" THEN ConstraintsOf(x.exposures) ELSE {}))
    BY <1>5, <1>11, <1>12, SeenNext
  <2> QED BY <1>4, <1>6, <1>13, <2>1
<1>16. Due(c, f.events) = Due(c, e.events)
  <2> DEFINE y == Entry(e.events, x)
  <2>1. y.event = x /\ f.events = Append(e.events, y)
    BY <1>13 DEF Entry, Longer
  <2> HIDE DEF y
  <2>2. Due(c, Append(e.events, y)) = Entering(c, Due(c, e.events), y.event)
    BY <1>5, DueNext
  <2> QED BY <1>4, <2>1, <2>2 DEF Entering
<1> QED BY <1>3, <1>13, <1>14, <1>15, <1>16 DEF Story, Ledger

(* apply_decision: a node entered is one more chapter, its operations the   *)
(* next of the ledger; one that cannot be entered leaves all as it was.     *)
Prefix(s, t) == /\ IsList(s) /\ IsList(t) /\ Len(s) <= Len(t)
                /\ \A k \in 1..Len(s) : t[k] = s[k]

LEMMA LongerPrefix ==
  ASSUME NEW s, IsList(s), NEW x
  PROVE  Prefix(s, Longer(s, x))
<1>1. IsList(Longer(s, x))
  BY LongerIsList
<1>2. Len(s) \in Nat /\ Len(Longer(s, x)) = Len(s) + 1
  BY OneMore
<1>3. \A k \in 1..Len(s) : Longer(s, x)[k] = s[k]
  BY OneMore
<1>4. Len(s) <= Len(Longer(s, x))
  BY <1>2
<1> QED BY <1>1, <1>3, <1>4 DEF Prefix

LEMMA PrefixPrefix ==
  ASSUME NEW r, NEW s, NEW t, Prefix(r, s), Prefix(s, t)
  PROVE  Prefix(r, t)
<1>1. /\ Len(r) \in Nat /\ Len(s) \in Nat /\ Len(t) \in Nat
      /\ Len(r) <= Len(s) /\ Len(s) <= Len(t)
  BY DEF Prefix, IsList
<1>2. Len(r) <= Len(t)
  BY <1>1
<1>3. ASSUME NEW k \in 1..Len(r)
      PROVE  t[k] = r[k]
  <2>1. k \in 1..Len(s)
    BY <1>1
  <2> QED BY <2>1 DEF Prefix
<1> QED BY <1>2, <1>3 DEF Prefix

Entered(a, node) == [a EXCEPT !.node = node]
Enters(c, e, node, a) ==
    /\ EnvType(a) /\ Beside(e, a) /\ InForce(Deltas(a), a.active) /\ Valued(c, a.active)
    /\ Deltas(a) = Deltas(e) \o Node(c, node).constraints

LEMMA Moved ==
  ASSUME NEW c, NEW e, Story(c, e), Ledger(c, e),
         "transition" \in Follows[LastKind(e.events)],
         NEW x, x.kind = "transition", x.from = e.node, Along(c, x),
         NEW a, Enters(c, e, x.to, a),
         NEW f, f = Record(Entered(a, x.to), x)
  PROVE  /\ Story(c, f) /\ Ledger(c, f)
         /\ f.status = e.status /\ f.events = Longer(e.events, x)
<1> DEFINE g == Entered(a, x.to)
           y == Entry(e.events, x)
<1>1. EnvType(e) /\ IsList(e.events) /\ Told(c, e.events, e.node)
      /\ Seen(c, e.events, DOMAIN e.exposures)
  BY DEF Story, EnvType
<1>2. /\ EnvType(a) /\ Beside(e, a) /\ InForce(Deltas(a), a.active) /\ Valued(c, a.active)
       /\ Deltas(a) = Deltas(e) \o Node(c, x.to).constraints
  BY DEF Enters
<1>3. /\ g.status = e.status /\ g.node = x.to /\ g.active = a.active
      /\ g.applied = a.applied /\ g.exposures = e.exposures
      /\ g.events = e.events /\ g.step = a.step
  BY <1>2 DEF EnvType, Beside, Entered
<1>4. EnvType(g)
  <2>1. /\ g.status = a.status /\ IsList(g.events) /\ IsList(g.applied)
        /\ g.step = Len(g.events) /\ a.status \in {"notStarted", "running", "terminated"}
    BY <1>3, <1>2 DEF EnvType, Beside
  <2>2. a = [status |-> a.status, node |-> a.node, active |-> a.active,
             applied |-> a.applied, exposures |-> a.exposures, step |-> a.step,
             events |-> a.events]
    BY <1>2 DEF EnvType
  <2>3. g = [status |-> g.status, node |-> g.node, active |-> g.active,
             applied |-> g.applied, exposures |-> g.exposures, step |-> g.step,
             events |-> g.events]
    BY <2>2 DEF Entered
  <2> HIDE DEF g
  <2> QED BY <2>1, <2>3 DEF EnvType
<1>5. f = Record(g, x)
  OBVIOUS
<1> HIDE DEF g
<1>6. Deltas(g) = Deltas(a)
  BY <1>3 DEF Deltas
<1>7. /\ EnvType(f)
      /\ f.status = e.status /\ f.node = x.to /\ f.active = a.active
      /\ f.exposures = e.exposures
      /\ f.events = Longer(e.events, x) /\ Deltas(f) = Deltas(a)
  <2>1. /\ EnvType(f)
        /\ f.status = g.status /\ f.node = g.node /\ f.active = g.active
        /\ f.exposures = g.exposures
        /\ f.events = Longer(g.events, x) /\ Deltas(f) = Deltas(g)
    BY <1>4, <1>5, RecordIs
  <2> QED BY <1>3, <1>6, <2>1
<1>8. Told(c, f.events, f.node)
  <2>1. May(e.events, x)
    BY DEF May
  <2>2. Told(c, Longer(e.events, x), x.to)
    BY <1>1, <2>1, ToldNext
  <2> QED BY <1>7, <2>2
<1>9. Seen(c, f.events, DOMAIN f.exposures)
  <2> DEFINE exposed == DOMAIN e.exposures
  <2>1. Seen(c, Longer(e.events, x),
             exposed \cup (IF x.kind = "observation" THEN ConstraintsOf(x.exposures) ELSE {}))
    BY <1>1, SeenNext
  <2>2. exposed \cup (IF x.kind = "observation" THEN ConstraintsOf(x.exposures) ELSE {})
          = exposed
    OBVIOUS
  <2> HIDE DEF exposed
  <2> QED BY <1>7, <2>1, <2>2 DEF exposed
<1>10. Due(c, f.events) = Due(c, e.events) \o Node(c, x.to).constraints
  <2>1. y.event = x /\ f.events = Append(e.events, y)
    BY <1>7 DEF Entry, Longer
  <2> HIDE DEF y
  <2>2. Due(c, Append(e.events, y)) = Entering(c, Due(c, e.events), y.event)
    BY <1>1, DueNext
  <2> QED BY <2>1, <2>2 DEF Entering
<1>11. Due(c, e.events) = Deltas(e)
  BY DEF Ledger
<1> QED BY <1>7, <1>8, <1>9, <1>10, <1>11, <1>2 DEF Story, Ledger

LEMMA Advanced ==
  ASSUME NEW c, IsCase(c), Compiles(c), NEW e, Story(c, e), Ledger(c, e),
         "transition" \in Follows[LastKind(e.events)],
         NEW t \in Range(c.transitions), t.from = e.node, NEW r, r = Advance(c, e, t)
  PROVE  /\ ~r.ok => r.env = e
         /\ r.ok => /\ Story(c, r.env) /\ Ledger(c, r.env)
                    /\ Prefix(e.events, r.env.events)
                    /\ Kinds(r.env.events, "action") = Kinds(e.events, "action")
                    /\ \/ r.env.status = e.status /\ LastKind(r.env.events) = "transition"
                       \/ r.env.status = "terminated"
<1> DEFINE applied == ApplyNode(c, e, t.to)
           deltas  == Node(c, t.to).constraints
           x       == [kind |-> "transition", from |-> e.node, to |-> t.to]
           y       == [kind |-> "terminated"]
           moved   == Record(Entered(applied.env, t.to), x)
<1>1. EnvType(e) /\ IsList(e.events)
  BY DEF Story, EnvType
<1>2. HasNode(c, t.to)
  BY DEF Compiles, Range
<1>3. /\ ~applied.ok => applied.env = e
      /\ applied.ok => Gathered(c, e, deltas, applied.env, Len(deltas))
  BY <1>1, <1>2, NodeApplied DEF Ledger
<1>4. IsList(deltas)
  BY <1>2, NodeIsOne
<1>5. /\ ~applied.ok => r = applied
      /\ applied.ok => /\ r.ok
                       /\ r.env = IF Node(c, t.to).terminal THEN Terminate(moved) ELSE moved
  BY DEF Advance, Entered
<1>6. x.kind = "transition" /\ x.from = e.node /\ x.to = t.to /\ Along(c, x)
      /\ y.kind = "terminated"
  BY DEF Along
<1> HIDE DEF x, applied, deltas
<1>7. CASE ~applied.ok
  BY <1>3, <1>5, <1>7
<1>8. CASE applied.ok
  <2> DEFINE a == applied.env
  <2>1. Gathered(c, e, deltas, a, Len(deltas))
    BY <1>3, <1>8
  <2>2. EnvType(a) /\ Beside(e, a) /\ InForce(Deltas(a), a.active) /\ Valued(c, a.active)
    BY <2>1 DEF Gathered
  <2>3. Deltas(a) = Deltas(e) \o deltas
    <3> HIDE DEF a
    <3> QED BY <1>1, <1>4, <2>1, GatheredAll
  <2>4. deltas = Node(c, x.to).constraints
    BY <1>6 DEF deltas
  <2>5. moved = Record(Entered(a, x.to), x)
    BY <1>6
  <2> HIDE DEF a, moved, y
  <2>6. Enters(c, e, x.to, a)
    BY <2>2, <2>3, <2>4 DEF Enters
  <2>7. x.kind = "transition" /\ x.from = e.node /\ Along(c, x)
    BY <1>6
  <2>8. /\ Story(c, moved) /\ Ledger(c, moved)
        /\ moved.status = e.status /\ moved.events = Longer(e.events, x)
    BY <2>5, <2>6, <2>7, Moved
  <2> DEFINE s == Longer(e.events, x)
  <2>9. LastKind(s) = "transition"
    BY <1>1, <2>7, OneMore
  <2>10. Kinds(s, "action") = Kinds(e.events, "action")
    BY <1>1, <1>6, ActionsNext
  <2>11. Prefix(e.events, s)
    BY <1>1, LongerPrefix
  <2>12. IsList(s)
    BY <1>1, LongerIsList
  <2> HIDE DEF s
  <2>13. moved.events = s
    BY <2>8 DEF s
  <2>14. CASE ~Node(c, t.to).terminal
    BY <1>5, <1>8, <2>8, <2>9, <2>10, <2>11, <2>13, <2>14
  <2>15. CASE Node(c, t.to).terminal
    <3>1. May(moved.events, y)
      BY <1>6, <2>9, <2>13, FollowsAre DEF May
    <3>2. /\ Story(c, Terminate(moved))
          /\ Ledger(c, Terminate(moved))
          /\ Terminate(moved).status = "terminated"
          /\ Terminate(moved).events = Longer(s, y)
      BY <2>8, <2>13, <3>1, Terminated DEF y
    <3>3. Kinds(Longer(s, y), "action") = Kinds(s, "action")
      BY <1>6, <2>12, ActionsNext
    <3>4. Prefix(s, Longer(s, y))
      BY <2>12, LongerPrefix
    <3>5. Prefix(e.events, Longer(s, y))
      BY <2>11, <3>4, PrefixPrefix
    <3> QED BY <1>5, <1>8, <2>10, <2>15, <3>2, <3>3, <3>5
  <2> QED BY <2>14, <2>15
<1> QED BY <1>7, <1>8

LEMMA Decided ==
  ASSUME NEW c, IsCase(c), Compiles(c), NEW e, Story(c, e), Ledger(c, e),
         LastKind(e.events) = "decision", e.status = "running",
         NEW decision, NEW r, r = ApplyDecision(c, e, decision)
  PROVE  /\ Story(c, r.env) /\ Ledger(c, r.env)
         /\ Prefix(e.events, r.env.events)
         /\ Kinds(r.env.events, "action") = Kinds(e.events, "action")
         /\ r.ok => \/ /\ r.env.status = "running"
                       /\ LastKind(r.env.events) \in {"transition", "decision"}
                    \/ r.env.status = "terminated"
<1>1. EnvType(e) /\ IsList(e.events)
  BY DEF Story, EnvType
<1>2. Prefix(e.events, e.events)
  BY <1>1 DEF Prefix, IsList
<1>3. CASE r.env = e
  BY <1>2, <1>3
<1>4. CASE r = [ok |-> TRUE, env |-> Terminate(e)]
  <2> DEFINE y == [kind |-> "terminated"]
  <2>1. y.kind = "terminated" /\ May(e.events, y)
    BY FollowsAre DEF May
  <2>2. /\ Story(c, Terminate(e)) /\ Ledger(c, Terminate(e))
        /\ Terminate(e).status = "terminated"
        /\ Terminate(e).events = Longer(e.events, y)
    BY <2>1, Terminated
  <2> HIDE DEF y
  <2>3. Kinds(Longer(e.events, y), "action") = Kinds(e.events, "action")
    BY <1>1, <2>1, ActionsNext
  <2>4. Prefix(e.events, Longer(e.events, y))
    BY <1>1, LongerPrefix
  <2>5. r.env = Terminate(e)
    BY <1>4
  <2> QED BY <2>2, <2>3, <2>4, <2>5
<1>5. ASSUME NEW t \in Range(c.transitions), t.from = e.node, r = Advance(c, e, t)
      PROVE  /\ ~r.ok => r.env = e
             /\ r.ok => /\ Story(c, r.env) /\ Ledger(c, r.env)
                        /\ Prefix(e.events, r.env.events)
                        /\ Kinds(r.env.events, "action") = Kinds(e.events, "action")
                        /\ \/ r.env.status = "running" /\ LastKind(r.env.events) = "transition"
                           \/ r.env.status = "terminated"
  <2>1. "transition" \in Follows[LastKind(e.events)]
    BY FollowsAre
  <2> QED BY <1>5, <2>1, Advanced
<1>6. \/ r.env = e
      \/ r = [ok |-> TRUE, env |-> Terminate(e)]
      \/ \E t \in Range(c.transitions) : t.from = e.node /\ r = Advance(c, e, t)
  <2> DEFINE leaving == {t \in Transition(c, decision.transition) : t.from = e.node}
  <2>1. leaving # {} => (CHOOSE t \in leaving : TRUE) \in leaving
    OBVIOUS
  <2>2. leaving \subseteq {t \in Range(c.transitions) : t.from = e.node}
    BY DEF Transition, Range
  <2> HIDE DEF leaving
  <2>3. r = IF decision.kind = "retry" THEN [ok |-> TRUE, env |-> e]
            ELSE IF decision.kind = "terminate" THEN [ok |-> TRUE, env |-> Terminate(e)]
            ELSE IF leaving = {} THEN [ok |-> FALSE, env |-> e]
            ELSE Advance(c, e, CHOOSE t \in leaving : TRUE)
    BY DEF ApplyDecision, leaving
  <2>4. CASE decision.kind \in {"retry", "terminate"} \/ leaving = {}
    BY <2>3, <2>4
  <2>5. CASE decision.kind \notin {"retry", "terminate"} /\ leaving # {}
    BY <2>1, <2>2, <2>3, <2>5
  <2> QED BY <2>4, <2>5
<1>7. CASE \E t \in Range(c.transitions) : t.from = e.node /\ r = Advance(c, e, t)
  BY <1>3, <1>5, <1>7
<1> QED BY <1>3, <1>4, <1>6, <1>7

-----------------------------------------------------------------------------
(* The invariant holds when an evaluation is set up...                      *)
SetUp ==
    /\ case \in Cases /\ env = Opened(case)
    /\ pc = IF Built(case) THEN "built" ELSE "rejected"
    /\ steps = 0 /\ submitted = <<>> /\ runs \in 1..MaxRuns
    /\ sink \in {{}} \cup {{d} : d \in Decisions} /\ suspended \in BOOLEAN

LEMMA SetUpIsSound == SetUp => EvalInv
<1> SUFFICES ASSUME SetUp PROVE EvalInv
  OBVIOUS
<1>1. case \in Cases /\ env = Opened(case) /\ IsCase(case)
  BY CasesAssumption DEF SetUp
<1>2. /\ Story(case, env) /\ env.events = <<>> /\ env.status = "notStarted"
      /\ Built(case) => Compiles(case) /\ Ledger(case, env)
  BY <1>1, OpenedIs
<1>3. pc \in {"built", "rejected"} /\ (pc # "rejected" => Built(case)) /\ steps = 0
  BY DEF SetUp
<1>4. RunInv
  <2>1. suspended \in BOOLEAN
    BY DEF SetUp
  <2>2. steps \in 0..MaxSteps /\ runs \in 1..MaxRuns
    BY BoundsAssumption DEF SetUp
  <2>3. pc \in Places
    BY <1>3 DEF Places, Stopped
  <2> QED BY <1>1, <2>1, <2>2, <2>3 DEF RunInv
<1>5. PlaceInv
  BY <1>2, <1>3 DEF PlaceInv
<1>6. Cardinality(Actions) = 0
  <2>1. Kinds(<<>>, "action") = {}
    BY DEF Kinds
  <2> QED BY <1>2, <2>1, FS_EmptySet DEF Actions
<1>7. StepInv
  BY <1>3, <1>6, BoundsAssumption DEF StepInv
<1>8. SinkInv
  <2>1. <<>> \in Seq(Decisions)
    OBVIOUS
  <2> QED BY <1>3, <2>1 DEF SetUp, SinkInv
<1> QED BY <1>2, <1>3, <1>4, <1>5, <1>7, <1>8 DEF EvalInv

LEMMA InitIsSound == Init => EvalInv
<1> SUFFICES ASSUME Init PROVE SetUp
  BY SetUpIsSound
<1>1. suspended \in BOOLEAN
  BY DEF Init
<1>2. runs \in 1..MaxRuns
  BY BoundsAssumption DEF Init
<1> QED BY <1>1, <1>2 DEF Init, SetUp

LEMMA EvaluateIsSound ==
  ASSUME EvalInv, NEW c \in Cases, Evaluate(c)
  PROVE  EvalInv'
<1>1. SetUp'
  <2>1. suspended' \in BOOLEAN
    BY DEF Evaluate, EvalInv, RunInv
  <2>2. runs' \in 1..MaxRuns
    BY BoundsAssumption DEF Evaluate, EvalInv, RunInv
  <2>3. sink' \in {{}} \cup {{d} : d \in Decisions}
    BY DEF Evaluate, EvalInv, SinkInv
  <2> QED BY <2>1, <2>2, <2>3 DEF Evaluate, SetUp
<1>2. SetUp' => EvalInv'
  BY SetUpIsSound, PTL
<1> QED BY <1>1, <1>2

(* ... and a step keeps it.                                                 *)
LEMMA EndIsSound ==
  ASSUME EvalInv, pc # "rejected", pc' \in {"failed", "scored"},
         UNCHANGED <<case, env, steps, sink, suspended, submitted, runs>>
  PROVE  EvalInv'
<1>1. RunInv'
  BY DEF EvalInv, RunInv, Places, Stopped
<1>2. Story(case, env)' /\ Compiles(case)' /\ Ledger(case, env)'
  BY DEF EvalInv
<1>3. PlaceInv'
  BY DEF PlaceInv
<1>4. StepInv'
  BY DEF EvalInv, StepInv, Actions
<1>5. SinkInv'
  BY DEF EvalInv, SinkInv
<1> QED BY <1>1, <1>2, <1>3, <1>4, <1>5 DEF EvalInv

LEMMA ResetIsSound ==
  ASSUME EvalInv, Reset
  PROVE  EvalInv' /\ env.events = <<>> /\ KindAt(env'.events, 1) = "started"
<1>1. /\ pc = "built" /\ env' = Started(case, env)
      /\ pc' = IF env'.status = "running" THEN "realizing" ELSE "scoring"
      /\ UNCHANGED <<case, steps, sink, suspended, submitted, runs>>
  BY DEF Reset
<1>2. Story(case, env) /\ Ledger(case, env) /\ Compiles(case) /\ env.events = <<>> /\ steps = 0
  BY <1>1 DEF EvalInv, PlaceInv
<1>3. /\ Story(case, env')
      /\ Ledger(case, env) => Ledger(case, env')
      /\ env'.status \in {"running", "terminated"}
      /\ KindAt(env'.events, 1) = "started"
      /\ env'.status = "running" => LastKind(env'.events) = "started"
      /\ Kinds(env'.events, "action") = {}
  BY <1>1, <1>2, StartedIs
<1>4. RunInv'
  BY <1>1 DEF EvalInv, RunInv, Places
<1>5. PlaceInv'
  BY <1>1, <1>3 DEF PlaceInv, Before
<1>6. Cardinality(Actions)' = 0
  BY <1>3, FS_EmptySet DEF Actions
<1>7. pc' = "realizing" => ~InStep(env)'
  BY <1>1, <1>3 DEF InStep, LastKind, KindAt
<1>8. StepInv'
  BY <1>1, <1>2, <1>6, <1>7, BoundsAssumption DEF StepInv
<1>9. SinkInv'
  BY <1>1 DEF EvalInv, SinkInv
<1> QED BY <1>1, <1>2, <1>3, <1>4, <1>5, <1>8, <1>9 DEF EvalInv

LEMMA RealizeIsSound ==
  ASSUME EvalInv, NEW exposures \in Realizations, Realize(exposures)
  PROVE  /\ EvalInv'
         /\ \/ env' = env
            \/ \E x : x.kind = "observation" /\ env'.events = Longer(env.events, x)
<1> DEFINE r == EmitObservation(env, exposures)
<1>1. /\ pc = "realizing" /\ env' = r.env
      /\ pc' = IF r.ok THEN "looping" ELSE "failed"
      /\ steps' = IF r.ok /\ InStep(env) THEN steps + 1 ELSE steps
      /\ UNCHANGED <<case, sink, suspended, submitted, runs>>
  BY DEF Realize
<1>2. /\ Story(case, env) /\ Ledger(case, env) /\ Compiles(case) /\ env.status = "running"
      /\ LastKind(env.events) \in {"started", "transition", "decision"}
  BY <1>1 DEF EvalInv, PlaceInv, Before
<1>3. "observation" \in Follows[LastKind(env.events)] /\ IsList(exposures)
  BY <1>2, FollowsAre, RealizationsAssumption
<1>4. /\ ~r.ok => r.env = env
      /\ r.ok => /\ Story(case, r.env) /\ Ledger(case, r.env)
                 /\ r.env.status = env.status
                 /\ \E x : x.kind = "observation" /\ r.env.events = Longer(env.events, x)
  BY <1>2, <1>3, Emitted
<1> HIDE DEF r
<1>5. CASE ~r.ok
  <2>1. pc # "rejected" /\ pc' = "failed"
        /\ UNCHANGED <<case, env, steps, sink, suspended, submitted, runs>>
    BY <1>1, <1>4, <1>5
  <2>2. EvalInv'
    BY <2>1, EndIsSound
  <2> QED BY <2>1, <2>2
<1>6. CASE r.ok
  <2>1. PICK x : x.kind = "observation" /\ env'.events = Longer(env.events, x)
    BY <1>1, <1>4, <1>6
  <2>2. IsList(env.events)
    BY <1>2 DEF Story, EnvType
  <2>3. LastKind(Longer(env.events, x)) = "observation"
    BY <2>1, <2>2, OneMore
  <2>4. Kinds(Longer(env.events, x), "action") = Kinds(env.events, "action")
    BY <2>1, <2>2, ActionsNext
  <2>5. Cardinality(Actions)' = Cardinality(Actions) /\ LastKind(env'.events) = "observation"
    BY <2>1, <2>3, <2>4 DEF Actions
  <2>6. Cardinality(Actions) = steps' /\ Cardinality(Actions) <= MaxSteps
    BY <1>1, <1>6 DEF EvalInv, StepInv
  <2>7. Cardinality(Actions) \in Nat
    BY <2>2, ActionsNext DEF Actions
  <2>8. RunInv'
    BY <1>1, <1>6, <2>6, <2>7, BoundsAssumption DEF EvalInv, RunInv, Places
  <2>9. PlaceInv'
    BY <1>1, <1>2, <1>4, <1>6, <2>5 DEF PlaceInv, Before
  <2>10. StepInv'
    BY <1>1, <1>6, <2>5, <2>6 DEF StepInv
  <2>11. SinkInv'
    BY <1>1, <1>6 DEF EvalInv, SinkInv
  <2>12. EvalInv'
    BY <1>1, <1>2, <1>4, <1>6, <2>8, <2>9, <2>10, <2>11 DEF EvalInv
  <2> QED BY <2>1, <2>12
<1> QED BY <1>5, <1>6

LEMMA GoesOnIsSound ==
  ASSUME EvalInv, LoopGoesOn
  PROVE  EvalInv'
<1>1. /\ pc = "looping" /\ ~(steps >= MaxSteps) /\ pc' = "acting"
      /\ UNCHANGED <<case, env, steps, sink, suspended, submitted, runs>>
  BY DEF LoopGoesOn, LimitReached
<1>2. steps \in 0..MaxSteps
  BY DEF EvalInv, RunInv
<1>3. steps < MaxSteps
  BY <1>1, <1>2, BoundsAssumption
<1>4. RunInv'
  BY <1>1 DEF EvalInv, RunInv, Places
<1>5. Story(case, env)' /\ Compiles(case)' /\ Ledger(case, env)'
  BY <1>1 DEF EvalInv
<1>6. PlaceInv'
  BY <1>1 DEF EvalInv, PlaceInv, Before
<1>7. StepInv'
  BY <1>1, <1>3 DEF EvalInv, StepInv, Actions
<1>8. SinkInv'
  BY <1>1 DEF EvalInv, SinkInv
<1> QED BY <1>4, <1>5, <1>6, <1>7, <1>8 DEF EvalInv

LEMMA PolicyActsIsSound ==
  ASSUME EvalInv, NEW suspends \in BOOLEAN, PolicyActs(suspends)
  PROVE  EvalInv' /\ env'.events = Longer(env.events, [kind |-> "action"])
<1> DEFINE x == [kind |-> "action"]
<1>1. /\ pc = "acting" /\ env' = Record(env, x) /\ suspended' = suspends
      /\ sink' = {} /\ submitted' = <<>> /\ pc' \in {"failed", "judging"}
      /\ UNCHANGED <<case, steps, runs>>
  BY DEF PolicyActs, StaleDecision
<1>2. x.kind = "action"
  OBVIOUS
<1> HIDE DEF x
<1>3. /\ Story(case, env) /\ Ledger(case, env) /\ Compiles(case) /\ env.status = "running"
      /\ LastKind(env.events) = "observation"
  BY <1>1 DEF EvalInv, PlaceInv, Before
<1>4. May(env.events, x)
  BY <1>2, <1>3, FollowsAre DEF May
<1>5. /\ Story(case, env')
      /\ Ledger(case, env) => Ledger(case, env')
      /\ env'.status = env.status
      /\ env'.events = Longer(env.events, x)
  BY <1>1, <1>2, <1>3, <1>4, Recorded
<1>6. IsList(env.events)
  BY <1>3 DEF Story, EnvType
<1>7. LastKind(Longer(env.events, x)) = "action"
  BY <1>2, <1>6, OneMore
<1>8. /\ Cardinality(Kinds(Longer(env.events, x), "action"))
            = Cardinality(Kinds(env.events, "action")) + 1
      /\ Cardinality(Kinds(env.events, "action")) \in Nat
  BY <1>2, <1>6, ActionsNext
<1>9. Cardinality(Actions)' = steps + 1 /\ steps < MaxSteps
  BY <1>1, <1>5, <1>8 DEF EvalInv, StepInv, Actions
<1>10. steps \in 0..MaxSteps
  BY DEF EvalInv, RunInv
<1>11. StepInv'
  BY <1>1, <1>9, <1>10, BoundsAssumption DEF StepInv
<1>12. RunInv'
  <2>1. suspended' \in BOOLEAN
    BY <1>1
  <2>2. pc' \in Places
    BY <1>1 DEF Places, Stopped
  <2> QED BY <1>1, <2>1, <2>2 DEF EvalInv, RunInv
<1>13. PlaceInv'
  BY <1>1, <1>3, <1>5, <1>7 DEF PlaceInv, Before
<1>14. SinkInv'
  <2>1. <<>> \in Seq(Decisions)
    OBVIOUS
  <2> QED BY <1>1, <2>1 DEF SinkInv
<1>15. EvalInv'
  BY <1>1, <1>3, <1>5, <1>11, <1>12, <1>13, <1>14 DEF EvalInv
<1> QED BY <1>5, <1>15 DEF x

LEMMA SubmitIsSound ==
  ASSUME EvalInv, NEW decision \in Decisions, Submit(decision)
  PROVE  EvalInv'
<1>1. /\ pc = "judging" /\ submitted' = Append(submitted, decision)
      /\ sink' = IF sink = {} THEN {decision} ELSE sink
      /\ UNCHANGED <<case, env, pc, steps, suspended, runs>>
  BY DEF Submit, Accepts
<1>2. /\ sink \in {{}} \cup {{d} : d \in Decisions} /\ submitted \in Seq(Decisions)
      /\ sink = IF submitted = <<>> THEN {} ELSE {submitted[1]}
  BY <1>1 DEF EvalInv, SinkInv
<1>3. submitted' \in Seq(Decisions)
  BY <1>1, <1>2
<1>4. sink' \in {{}} \cup {{d} : d \in Decisions}
  BY <1>1, <1>2
<1>5. CASE submitted = <<>>
  <2>1. submitted' # <<>> /\ submitted'[1] = decision
    BY <1>1, <1>5
  <2>2. SinkInv'
    BY <1>1, <1>2, <1>3, <1>4, <1>5, <2>1 DEF SinkInv
  <2> QED BY <1>1, <2>2 DEF EvalInv, RunInv, PlaceInv, StepInv, Actions, Before, Story, Ledger
<1>6. CASE submitted # <<>>
  <2>1. submitted' # <<>> /\ submitted'[1] = submitted[1]
    BY <1>1, <1>2, <1>6
  <2>2. SinkInv'
    BY <1>1, <1>2, <1>3, <1>4, <1>6, <2>1 DEF SinkInv
  <2> QED BY <1>1, <2>2 DEF EvalInv, RunInv, PlaceInv, StepInv, Actions, Before, Story, Ledger
<1> QED BY <1>5, <1>6

LEMMA DecideIsSound ==
  ASSUME EvalInv, NEW decision \in Decisions, Decide(decision)
  PROVE  /\ EvalInv'
         /\ Prefix(Longer(env.events, [kind |-> "decision", decision |-> decision]), env'.events)
<1> DEFINE x       == [kind |-> "decision", decision |-> decision]
           made    == Record(env, x)
           applied == ApplyDecision(case, made, decision)
<1>1. /\ pc = "judging" /\ sink' = {} /\ env' = applied.env
      /\ pc' = IF ~applied.ok THEN "failed"
               ELSE IF applied.env.status = "running" THEN "realizing" ELSE "scoring"
      /\ UNCHANGED <<case, steps, suspended, submitted, runs>>
  BY DEF Decide
<1>2. x.kind = "decision"
  OBVIOUS
<1> HIDE DEF x
<1>3. /\ Story(case, env) /\ Ledger(case, env) /\ Compiles(case) /\ env.status = "running"
      /\ LastKind(env.events) = "action"
  BY <1>1 DEF EvalInv, PlaceInv, Before
<1>4. May(env.events, x)
  BY <1>2, <1>3, FollowsAre DEF May
<1>5. /\ Story(case, made)
      /\ Ledger(case, env) => Ledger(case, made)
      /\ made.status = env.status
      /\ made.events = Longer(env.events, x)
  BY <1>2, <1>3, <1>4, Recorded
<1>6. IsList(env.events)
  BY <1>3 DEF Story, EnvType
<1>7. LastKind(Longer(env.events, x)) = "decision"
  BY <1>2, <1>6, OneMore
<1>8. Kinds(Longer(env.events, x), "action") = Kinds(env.events, "action")
  BY <1>2, <1>6, ActionsNext
<1>9. IsCase(case)
  BY CasesAssumption DEF EvalInv, RunInv
<1>10. applied = ApplyDecision(case, made, decision)
  OBVIOUS
<1> HIDE DEF made, applied
<1>11. Ledger(case, made) /\ LastKind(made.events) = "decision" /\ made.status = "running"
  BY <1>3, <1>5, <1>7
<1>12. /\ Story(case, applied.env) /\ Ledger(case, applied.env)
       /\ Prefix(made.events, applied.env.events)
       /\ Kinds(applied.env.events, "action") = Kinds(made.events, "action")
       /\ applied.ok => \/ /\ applied.env.status = "running"
                           /\ LastKind(applied.env.events) \in {"transition", "decision"}
                        \/ applied.env.status = "terminated"
  BY <1>3, <1>5, <1>9, <1>10, <1>11, Decided
<1>13. Cardinality(Actions)' = Cardinality(Actions)
  BY <1>1, <1>5, <1>8, <1>12 DEF Actions
<1>14. Cardinality(Actions) = steps + 1 /\ Cardinality(Actions) <= MaxSteps
  BY <1>1 DEF EvalInv, StepInv
<1>15. pc' = "realizing" => InStep(env)'
  BY <1>1, <1>12 DEF InStep, LastKind, KindAt
<1>16. pc' \in {"failed", "realizing", "scoring"}
  BY <1>1
<1>17. StepInv'
  BY <1>1, <1>13, <1>14, <1>15, <1>16 DEF StepInv
<1>18. RunInv'
  BY <1>1, <1>16 DEF EvalInv, RunInv, Places, Stopped
<1>19. PlaceInv'
  BY <1>1, <1>12 DEF PlaceInv, Before
<1>20. SinkInv'
  BY <1>1, <1>16 DEF EvalInv, SinkInv
<1>21. EvalInv'
  BY <1>1, <1>3, <1>12, <1>17, <1>18, <1>19, <1>20 DEF EvalInv
<1> QED BY <1>1, <1>5, <1>12, <1>21 DEF x

-----------------------------------------------------------------------------
(* The theorems.                                                            *)

(* What no action can disturb by ending the run, or by doing nothing.       *)
Ends ==
    /\ pc # "rejected" /\ pc' \in {"failed", "scored"}
    /\ UNCHANGED <<case, env, steps, sink, suspended, submitted, runs>>

LEMMA NextIs ==
  ASSUME Next
  PROVE  \/ Ends \/ Reset \/ LoopGoesOn
         \/ \E exposures \in Realizations : Realize(exposures)
         \/ \E suspends \in BOOLEAN : PolicyActs(suspends)
         \/ \E decision \in Decisions : Submit(decision) \/ Decide(decision)
         \/ \E c \in Cases : Evaluate(c)
<1>1. CASE RealizerFails
  BY <1>1 DEF RealizerFails, Fail, Ends
<1>2. CASE LoopStops
  BY <1>2 DEF LoopStops, Fail, Ends
<1>3. CASE PolicyFails
  BY <1>3 DEF PolicyFails, Fail, Ends
<1>4. CASE TurnFails
  BY <1>4 DEF TurnFails, Fail, Ends
<1>5. CASE NothingDecided
  BY <1>5 DEF NothingDecided, Fail, Ends
<1>6. CASE RefereeScores
  BY <1>6 DEF RefereeScores, Ends
<1>7. CASE RefereeFails
  BY <1>7 DEF RefereeFails, Fail, Ends
<1>8. CASE ResetRefused
  BY <1>8 DEF ResetRefused, Ends
<1> QED BY <1>1, <1>2, <1>3, <1>4, <1>5, <1>6, <1>7, <1>8 DEF Next, Run

(* Every action keeps the invariant.                                        *)
LEMMA StepIsSound == EvalInv /\ [Next]_vars => EvalInv'
<1> SUFFICES ASSUME EvalInv, [Next]_vars PROVE EvalInv'
  OBVIOUS
<1>1. CASE UNCHANGED vars
  BY <1>1 DEF vars, EvalInv, RunInv, PlaceInv, StepInv, SinkInv, Actions, Before
<1>2. CASE Ends
  BY <1>2, EndIsSound DEF Ends
<1>3. CASE Reset
  BY <1>3, ResetIsSound
<1>4. CASE LoopGoesOn
  BY <1>4, GoesOnIsSound
<1>5. ASSUME NEW exposures \in Realizations, Realize(exposures) PROVE EvalInv'
  BY <1>5, RealizeIsSound
<1>6. ASSUME NEW suspends \in BOOLEAN, PolicyActs(suspends) PROVE EvalInv'
  BY <1>6, PolicyActsIsSound
<1>7. ASSUME NEW decision \in Decisions, Submit(decision) PROVE EvalInv'
  BY <1>7, SubmitIsSound
<1>8. ASSUME NEW decision \in Decisions, Decide(decision) PROVE EvalInv'
  BY <1>8, DecideIsSound
<1>9. ASSUME NEW c \in Cases, Evaluate(c) PROVE EvalInv'
  BY <1>9, EvaluateIsSound
<1> QED BY <1>1, <1>2, <1>3, <1>4, <1>5, <1>6, <1>7, <1>8, <1>9, NextIs

(* The inductive invariant: in every state of every evaluation the          *)
(* trajectory is a story of the task, the ledger is what that story applied, *)
(* and the place of the run agrees with both.                              *)
THEOREM EvalInductive == Spec => []EvalInv
<1>1. Init => EvalInv
  BY InitIsSound
<1>2. EvalInv /\ [Next]_vars => EvalInv'
  BY StepIsSound
<1> QED BY <1>1, <1>2, PTL DEF Spec

(* Every variable of an evaluation keeps its type; the counters stay within *)
(* their limits (EvalRunner::run, GraphEnvironment).                       *)
THEOREM EvalTypeCorrect == Spec => []TypeOK
<1>1. EvalInv => TypeOK
  <2> SUFFICES ASSUME EvalInv PROVE TypeOK
    OBVIOUS
  <2>1. env.status \in {"notStarted", "running", "terminated"} /\ env.step \in Nat
    BY DEF EvalInv, Story, EnvType, IsList
  <2> QED BY <2>1 DEF EvalInv, RunInv, SinkInv, TypeOK
<1> QED BY <1>1, EvalInductive, PTL

(* The step limit is exact for any limit: no action beyond it, steps counts *)
(* the actions, and what the referee scores has ended (EvalRunner::run).   *)
THEOREM StepLimit == Spec => []LimitIsExact
<1>1. EvalInv => LimitIsExact
  <2> SUFFICES ASSUME EvalInv PROVE LimitIsExact
    OBVIOUS
  <2>1. Events("action") = Actions
    BY DEF Events, Actions, Kinds, KindAt
  <2> QED BY <2>1 DEF EvalInv, StepInv, PlaceInv, LimitIsExact
<1> QED BY <1>1, EvalInductive, PTL

(* The trajectory of any task is gapless, in the order the runner allows,   *)
(* and every move in it follows an edge of the task from where the run     *)
(* stood (record_event, apply_decision).                                   *)
THEOREM TrajectoryTold == Spec => []TrajectoryIsFactual
<1>1. EvalInv => TrajectoryIsFactual
  <2> SUFFICES ASSUME EvalInv PROVE TrajectoryIsFactual
    OBVIOUS
  <2>1. Told(case, env.events, env.node) /\ env.step = Len(env.events)
    BY DEF EvalInv, Story, EnvType
  <2>2. Events("transition") = Kinds(env.events, "transition")
    BY DEF Events, Kinds, KindAt
  <2> QED BY <2>1, <2>2 DEF Told, TrajectoryIsFactual, EventAt, KindAt, Along
<1> QED BY <1>1, EvalInductive, PTL

(* The ledger of constraints is what the path through any task applied, and *)
(* what is active is what it left in force (apply_node, apply_constraint). *)
THEOREM LedgerTold == Spec => []LedgerFollowsPath
<1>1. EvalInv => LedgerFollowsPath
  <2> SUFFICES ASSUME EvalInv, pc # "rejected" PROVE LedgerFollowsPath
    BY DEF LedgerFollowsPath
  <2>1. Told(case, env.events, env.node) /\ Ledger(case, env)
    BY DEF EvalInv, Story
  <2> QED BY <2>1 DEF Told, Ledger, Deltas, LedgerFollowsPath
<1> QED BY <1>1, EvalInductive, PTL

(* An exposure is always new, of something active, and derived only from    *)
(* what the policy already knows (prepare_exposure_records).               *)
THEOREM ExposuresGrounded == Spec => []ExposuresAreGrounded
<1>1. EvalInv => ExposuresAreGrounded
  <2> SUFFICES ASSUME EvalInv PROVE ExposuresAreGrounded
    OBVIOUS
  <2>1. Seen(case, env.events, DOMAIN env.exposures)
    BY DEF EvalInv, Story
  <2>2. Events("observation") = Kinds(env.events, "observation")
    BY DEF Events, Kinds, KindAt
  <2>3. ASSUME NEW k \in Events("observation")
        PROVE  Grounds(env.events[k].event, SeenBy(env.events, k))
    BY <2>1, <2>2 DEF Seen
  <2> QED BY <2>2, <2>3
        DEF ExposuresAreGrounded, Grounds, SeenBy, ConstraintsOf, EventAt
<1> QED BY <1>1, EvalInductive, PTL

(* A constraint is declared once in a case that compiles, with one value.   *)
LEMMA DeclaredOnce ==
  ASSUME NEW c, Compiles(c), NEW id, NEW v, NEW w, DeclaredAs(c, id, v), DeclaredAs(c, id, w)
  PROVE  v = w
<1> DEFINE At(n, i) == c.nodes[n].constraints[i]
<1>1. PICK n \in DOMAIN c.nodes : \E i \in DOMAIN c.nodes[n].constraints :
                Declares(At(n, i), id) /\ At(n, i).value = v
  BY DEF DeclaredAs
<1>2. PICK i \in DOMAIN c.nodes[n].constraints : Declares(At(n, i), id) /\ At(n, i).value = v
  BY <1>1
<1>3. PICK m \in DOMAIN c.nodes : \E j \in DOMAIN c.nodes[m].constraints :
                Declares(At(m, j), id) /\ At(m, j).value = w
  BY DEF DeclaredAs
<1>4. PICK j \in DOMAIN c.nodes[m].constraints : Declares(At(m, j), id) /\ At(m, j).value = w
  BY <1>3
<1>5. At(n, i).op # "remove" /\ At(n, i).id = id
  BY <1>2 DEF Declares
<1>6. Declarations(c, id) = {<<n, i>>}
  BY <1>5 DEF Compiles, ValidConstraintIds
<1>7. <<m, j>> \in Declarations(c, id)
  BY <1>4 DEF Declarations
<1>8. m = n /\ j = i
  BY <1>6, <1>7
<1> QED BY <1>2, <1>4, <1>8

(* Whatever the policy is shown was exposed to it, under its id and with    *)
(* that value, now or before, whatever became of the constraint in between *)
(* (visible_state, emit_observation).                                      *)
THEOREM ShownWasExposed == Spec => []VisibleValuesWereExposed
<1>1. EvalInv => VisibleValuesWereExposed
  <2> DEFINE s == env.events
             Obs == Kinds(s, "observation")
  <2> SUFFICES ASSUME EvalInv, NEW k \in Obs, NEW id \in DOMAIN s[k].event.visible
               PROVE  \E j \in Obs :
                        /\ j <= k
                        /\ \E x \in Range(s[j].event.exposures) : x.constraint = id
                        /\ id \in DOMAIN s[j].event.visible
                        /\ s[j].event.visible[id] = s[k].event.visible[id]
    BY DEF VisibleValuesWereExposed, Events, EventAt, Kinds, KindAt
  <2>1. Seen(case, s, DOMAIN env.exposures) /\ IsList(s)
    BY DEF EvalInv, Story, EnvType
  <2>2. pc # "rejected"
    <3>1. CASE env.events = <<>>
      BY <3>1 DEF Kinds
    <3>2. CASE env.events # <<>>
      BY <3>2 DEF EvalInv, PlaceInv
    <3> QED BY <3>1, <3>2
  <2>3. Compiles(case)
    BY <2>2 DEF EvalInv
  <2>4. Obs \subseteq Nat
    BY <2>1 DEF IsList, Kinds
  <2> HIDE DEF s
  <2>5. \A j \in Obs : Grounds(s[j].event, SeenBy(s, j)) /\ Shows(case, s[j].event, SeenBy(s, j))
    BY <2>1 DEF Seen
  <2>6. id \in SeenBy(s, k) \cup ConstraintsOf(s[k].event.exposures)
        /\ DeclaredAs(case, id, s[k].event.visible[id])
    BY <2>5 DEF Shows
  <2>7. PICK j \in Obs : j <= k /\ id \in ConstraintsOf(s[j].event.exposures)
    <3>1. CASE id \in ConstraintsOf(s[k].event.exposures)
      BY <2>4, <3>1
    <3>2. CASE id \in SeenBy(s, k)
      <4>1. PICK j \in {i \in Obs : i < k} : id \in ConstraintsOf(s[j].event.exposures)
        BY <3>2 DEF SeenBy
      <4> QED BY <2>4, <4>1
    <3> QED BY <2>6, <3>1, <3>2
  <2>8. PICK y \in DOMAIN s[j].event.exposures : s[j].event.exposures[y].constraint = id
    BY <2>7 DEF ConstraintsOf, Range
  <2>9. id \in DOMAIN s[j].event.visible
    BY <2>5, <2>8 DEF Grounds
  <2>10. DeclaredAs(case, id, s[j].event.visible[id])
    BY <2>5, <2>9 DEF Shows
  <2>11. s[j].event.visible[id] = s[k].event.visible[id]
    BY <2>3, <2>6, <2>10, DeclaredOnce
  <2>12. \E x \in Range(s[j].event.exposures) : x.constraint = id
    BY <2>8 DEF Range
  <2> QED BY <2>7, <2>9, <2>11, <2>12
<1> QED BY <1>1, EvalInductive, PTL

(* A decision that is recorded was submitted in answer to this very action, *)
(* the first of its turn, and never one that an earlier turn, or an earlier *)
(* evaluation, left in the sink (EnvironmentDecisionSink, LlmController).  *)
THEOREM DecisionFresh == Spec => DecisionsAreFresh
<1> DEFINE k     == Len(env.events) + 1
           Grown == Len(env'.events) > Len(env.events)
           Answer == /\ submitted # <<>>
                     /\ env'.events[k].event.decision = submitted[1]
           Honest == Grown => (env'.events[k].event.kind = "decision" => Answer)
<1>1. EvalInv /\ [Next]_vars => [Honest]_vars
  <2> SUFFICES ASSUME EvalInv, Next PROVE Honest
    OBVIOUS
  <2>1. IsList(env.events) /\ Len(env.events) \in Nat
    BY DEF EvalInv, Story, EnvType, IsList
  <2>2. CASE env' = env
    BY <2>1, <2>2
  <2>3. CASE Reset
    <3>1. env.events = <<>> /\ KindAt(env'.events, 1) = "started"
      BY <2>3, ResetIsSound
    <3>2. k = 1
      BY <3>1
    <3> HIDE DEF k
    <3> QED BY <3>1, <3>2 DEF KindAt
  <2>4. ASSUME NEW x, x.kind # "decision", env'.events = Longer(env.events, x)
        PROVE  Honest
    <3>1. Longer(env.events, x)[k].event = x
      BY <2>1, OneMore
    <3> QED BY <2>4, <3>1
  <2>5. ASSUME NEW exposures \in Realizations, Realize(exposures) PROVE Honest
    <3>1. \/ env' = env
          \/ \E x : x.kind = "observation" /\ env'.events = Longer(env.events, x)
      BY <2>5, RealizeIsSound
    <3>2. CASE \E x : x.kind = "observation" /\ env'.events = Longer(env.events, x)
      <4>1. PICK x : x.kind = "observation" /\ env'.events = Longer(env.events, x)
        BY <3>2
      <4> HIDE DEF Honest
      <4> QED BY <2>4, <4>1
    <3> QED BY <2>2, <3>1, <3>2
  <2>6. ASSUME NEW suspends \in BOOLEAN, PolicyActs(suspends) PROVE Honest
    <3> DEFINE x == [kind |-> "action"]
    <3>1. env'.events = Longer(env.events, x)
      BY <2>6, PolicyActsIsSound
    <3>2. x.kind # "decision"
      OBVIOUS
    <3> HIDE DEF x, Honest
    <3> QED BY <2>4, <3>1, <3>2
  <2>7. ASSUME NEW decision \in Decisions, Submit(decision) PROVE Honest
    <3>1. env' = env
      BY <2>7 DEF Submit
    <3> QED BY <2>2, <3>1
  <2>8. ASSUME NEW decision \in Decisions, Decide(decision) PROVE Honest
    <3> DEFINE x == [kind |-> "decision", decision |-> decision]
    <3>1. Prefix(Longer(env.events, x), env'.events)
      BY <2>8, DecideIsSound
    <3>2. x.decision = decision
      OBVIOUS
    <3>3. pc = "judging" /\ sink = {decision}
      BY <2>8 DEF Decide
    <3>4. {decision} = IF submitted = <<>> THEN {} ELSE {submitted[1]}
      BY <3>3 DEF EvalInv, SinkInv
    <3>5. submitted # <<>> /\ submitted[1] = decision
      BY <3>4
    <3> HIDE DEF x
    <3>6. Longer(env.events, x)[k].event = x /\ Len(Longer(env.events, x)) = k
      BY <2>1, OneMore
    <3>7. k \in 1..k
      BY <2>1
    <3> HIDE DEF k
    <3>8. env'.events[k] = Longer(env.events, x)[k]
      BY <3>1, <3>6, <3>7 DEF Prefix
    <3> QED BY <3>2, <3>5, <3>6, <3>8
  <2>9. ASSUME NEW c \in Cases, Evaluate(c) PROVE Honest
    <3>1. env' = Opened(c) /\ IsCase(c)
      BY <2>9, CasesAssumption DEF Evaluate
    <3>2. env'.events = <<>>
      BY <3>1, OpenedIs
    <3>3. Len(env'.events) = 0
      BY <3>2
    <3> QED BY <2>1, <3>3
  <2>10. CASE Ends
    BY <2>2, <2>10 DEF Ends
  <2>11. CASE LoopGoesOn
    BY <2>2, <2>11 DEF LoopGoesOn
  <2> HIDE DEF Honest
  <2> QED BY <2>3, <2>5, <2>6, <2>7, <2>8, <2>9, <2>10, <2>11, NextIs
<1>2. [Honest]_vars => [Len(env'.events) > Len(env.events) =>
                          LET k1 == Len(env.events) + 1
                          IN  env'.events[k1].event.kind = "decision" =>
                                 /\ submitted # <<>>
                                 /\ env'.events[k1].event.decision = submitted[1]]_vars
  OBVIOUS
<1> QED BY <1>1, <1>2, EvalInductive, PTL DEF Spec, DecisionsAreFresh
=============================================================================
