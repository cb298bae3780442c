---------------------------- MODULE StorageProofs ----------------------------
(***************************************************************************)
(* Safety of the shared client, of versioned records, of transactions and  *)
(* migrations, of the in-memory graph and of paging, for all clients,      *)
(* records, scripts and either datastore, and of the clauses built from    *)
(* filters, for all filters.                                               *)
(***************************************************************************)
EXTENDS Storage, Integers, FiniteSetTheorems, WellFoundedInduction, TLAPS

-----------------------------------------------------------------------------
(* Induction.  Least members of sets of naturals give induction about sets, *)
(* and with it the functions that recursive definitions describe: over the  *)
(* prefixes of a sequence, and over the nodes of filters by their depth.    *)

\* Every nonempty set of naturals has a least member.
LEMMA Least ==
  ASSUME NEW T, T \subseteq Nat, T # {}
  PROVE  \E x \in T : \A y \in T : ~ (y < x)
  <1>1. \E x \in T : \A y \in T : <<y, x>> \notin OpToRel(<, Nat)
    BY WFMin, NatLessThanWellFounded, Zenon
  <1> QED
    BY <1>1 DEF OpToRel

\* Induction, about sets instead of predicates.
LEMMA SetInduction ==
  ASSUME NEW T, 0 \in T, \A k \in Nat : k \in T => k + 1 \in T
  PROVE  \A k \in Nat : k \in T
  <1> SUFFICES ASSUME Nat \ T # {} PROVE FALSE
    OBVIOUS
  <1>1. PICK x \in Nat \ T : \A y \in Nat \ T : ~ (y < x)
    BY Least
  <1>2. x # 0 /\ x - 1 \in Nat
    BY <1>1
  <1>3. x - 1 \in T
    BY <1>1, <1>2
  <1> QED
    BY <1>1, <1>2, <1>3

\* What the k-th of n elements adds.
Steps(n, S) == [(1..n) \X S -> S]

Unfolds(g, n, s0, step) == g[0] = s0 /\ \A k \in 1..n : g[k] = step[<<k, g[k - 1]>>]

\* A function on the prefixes of a sequence is given by what each element adds.
LEMMA PrefixRecursion ==
  ASSUME NEW n \in Nat, NEW S, NEW s0 \in S, NEW step \in Steps(n, S)
  PROVE  \E g \in [0..n -> S] : Unfolds(g, n, s0, step)
  <1> USE DEF Steps, Unfolds
  <1> DEFINE Upto(m) ==
                 {g \in [0..n -> S] : /\ g[0] = s0
                                      /\ \A k \in 1..n : k <= m => g[k] = step[<<k, g[k - 1]>>]}
             T == {m \in Nat : Upto(m) # {}}
  <1>1. 0 \in T
    <2>1. [k \in 0..n |-> s0] \in Upto(0)
      OBVIOUS
    <2> QED
      BY <2>1
  <1>2. ASSUME NEW m \in Nat, m \in T
        PROVE  m + 1 \in T
    <2>1. PICK g \in Upto(m) : TRUE
      BY <1>2
    <2>2. CASE m + 1 \in 1..n
      <3> DEFINE h == [g EXCEPT ![m + 1] = step[<<m + 1, g[m]>>]]
      <3>1. g[m] \in S /\ step[<<m + 1, g[m]>>] \in S
        BY <2>1, <2>2
      <3>2. h \in [0..n -> S] /\ h[0] = s0 /\ h[m + 1] = step[<<m + 1, g[m]>>] /\ h[m] = g[m]
        BY <2>1, <2>2, <3>1
      <3>3. ASSUME NEW k \in 1..n, k <= m + 1
            PROVE  h[k] = step[<<k, h[k - 1]>>]
        <4>1. CASE k = m + 1
          BY <3>2, <4>1
        <4>2. CASE k # m + 1
          <5>1. h[k] = g[k] /\ h[k - 1] = g[k - 1] /\ k <= m
            BY <2>1, <3>3, <4>2
          <5> QED
            BY <2>1, <5>1
        <4> QED
          BY <4>1, <4>2
      <3>4. h \in Upto(m + 1)
        BY <3>2, <3>3
      <3> HIDE DEF h, Upto
      <3> QED
        BY <3>4
    <2>3. CASE m + 1 \notin 1..n
      <3>1. g \in Upto(m + 1)
        BY <2>1, <2>3
      <3> QED
        BY <3>1
    <2> QED
      BY <2>2, <2>3
  <1>3. n \in T
    <2> HIDE DEF T
    <2> QED
      BY <1>1, <1>2, SetInduction
  <1> QED
    BY <1>3

\* What a node is given, from the node and a function on the nodes.
NodeSteps(S) == [Nodes \X [Nodes -> S] -> S]

\* Two functions agree below a node.
Agree(n, g, h) == \A m \in Nodes : Depth[m] < Depth[n] => g[m] = h[m]

\* Only what is below a node counts.
Local(S, step) ==
    \A n \in Nodes : \A g, h \in [Nodes -> S] : Agree(n, g, h) => step[<<n, g>>] = step[<<n, h>>]

UnfoldsAll(g, step) == \A n \in Nodes : g[n] = step[<<n, g>>]

\* A function on the nodes is given by what each makes of those below it.
LEMMA DepthRecursion ==
  ASSUME NEW S, S # {}, NEW step \in NodeSteps(S), Local(S, step)
  PROVE  \E g \in [Nodes -> S] : UnfoldsAll(g, step)
  <1> USE DEF NodeSteps, Agree, Local, UnfoldsAll
  <1> DEFINE Upto(k) ==
                 {g \in [Nodes -> S] : \A n \in Nodes : Depth[n] < k => g[n] = step[<<n, g>>]}
             T == {k \in Nat : Upto(k) # {}}
  <1>0. Depth \in [Nodes -> Nat]
    BY NodesAssumption
  <1>1. 0 \in T
    <2>1. PICK s \in S : TRUE
      OBVIOUS
    <2>2. [n \in Nodes |-> s] \in Upto(0)
      BY <1>0, <2>1
    <2> QED
      BY <2>2
  <1>2. ASSUME NEW k \in Nat, k \in T
        PROVE  k + 1 \in T
    <2>1. PICK g \in Upto(k) : TRUE
      BY <1>2
    <2> DEFINE h == [n \in Nodes |-> IF Depth[n] < k THEN g[n] ELSE step[<<n, g>>]]
    <2>2. h \in [Nodes -> S]
      BY <2>1
    <2>3. ASSUME NEW n \in Nodes, Depth[n] < k + 1
          PROVE  h[n] = step[<<n, h>>]
      <3>1. h[n] = step[<<n, g>>]
        BY <2>1
      <3>2. \A m \in Nodes : Depth[m] < Depth[n] => g[m] = h[m]
        BY <1>0, <2>3
      <3>3. g \in [Nodes -> S]
        BY <2>1
      <3> HIDE DEF h
      <3> QED
        BY <2>2, <3>1, <3>2, <3>3
    <2>4. h \in Upto(k + 1)
      BY <2>2, <2>3
    <2> HIDE DEF h, Upto
    <2> QED
      BY <2>4
  <1>3. \A k \in Nat : Upto(k) # {}
    <2>1. \A k \in Nat : k \in T
      <3> HIDE DEF T
      <3> QED
        BY <1>1, <1>2, SetInduction
    <2> QED
      BY <2>1
  <1>4. ASSUME NEW j \in Nat, NEW k \in Nat, j <= k, NEW g \in Upto(j), NEW h \in Upto(k),
               NEW n \in Nodes, Depth[n] < j
        PROVE  g[n] = h[n]
    <2> DEFINE U == {d \in Nat : \E m \in Nodes : Depth[m] = d /\ d < j /\ g[m] # h[m]}
    <2>1. U = {}
      <3> SUFFICES ASSUME U # {} PROVE FALSE
        OBVIOUS
      <3>1. PICK d \in U : \A e \in U : ~ (e < d)
        <4> HIDE DEF U
        <4>1. U \subseteq Nat
          BY DEF U
        <4> QED
          BY <4>1, Least
      <3>2. PICK m \in Nodes : Depth[m] = d /\ d < j /\ g[m] # h[m]
        BY <3>1
      <3>3. ASSUME NEW l \in Nodes, Depth[l] < Depth[m]
            PROVE  g[l] = h[l]
        <4>1. Depth[l] \in Nat /\ Depth[l] < j /\ Depth[l] < d
          BY <1>0, <3>1, <3>2, <3>3
        <4> QED
          BY <3>1, <4>1
      <3>4. step[<<m, g>>] = step[<<m, h>>]
        BY <3>3
      <3>5. g[m] = step[<<m, g>>] /\ h[m] = step[<<m, h>>]
        <4>1. Depth[m] \in Nat /\ Depth[m] < j /\ Depth[m] < k
          BY <1>0, <1>4, <3>2
        <4>2. /\ \A x \in Nodes : Depth[x] < j => g[x] = step[<<x, g>>]
              /\ \A x \in Nodes : Depth[x] < k => h[x] = step[<<x, h>>]
          OBVIOUS
        <4> QED
          BY <4>1, <4>2
      <3> QED
        BY <3>2, <3>4, <3>5
    <2> QED
      BY <1>0, <1>4, <2>1
  <1> DEFINE Of(n) == CHOOSE g \in Upto(Depth[n] + 1) : TRUE
             f == [n \in Nodes |-> Of(n)[n]]
  <1>5. ASSUME NEW n \in Nodes
        PROVE  Of(n) \in Upto(Depth[n] + 1)
    <2>1. Depth[n] + 1 \in Nat
      BY <1>0
    <2> HIDE DEF Upto
    <2> QED
      BY <1>3, <2>1
  <1>6. f \in [Nodes -> S]
    <2>1. \A n \in Nodes : Of(n) \in [Nodes -> S]
      BY <1>5
    <2> HIDE DEF Of
    <2> QED
      BY <2>1
  <1>7. ASSUME NEW n \in Nodes
        PROVE  f[n] = step[<<n, f>>]
    <2>1. f[n] = Of(n)[n]
      OBVIOUS
    <2>2. Of(n) \in [Nodes -> S] /\ Of(n)[n] = step[<<n, Of(n)>>]
      <3>1. Depth[n] \in Nat /\ Depth[n] < Depth[n] + 1
        BY <1>0
      <3>2. Of(n) \in Upto(Depth[n] + 1)
        BY <1>5
      <3> HIDE DEF Of
      <3> QED
        BY <3>1, <3>2
    <2>3. ASSUME NEW m \in Nodes, Depth[m] < Depth[n]
          PROVE  Of(n)[m] = f[m]
      <3>1. f[m] = Of(m)[m] /\ Depth[m] + 1 <= Depth[n] + 1 /\ Depth[m] < Depth[m] + 1
            /\ Depth[m] + 1 \in Nat /\ Depth[n] + 1 \in Nat
        BY <1>0, <2>3
      <3>2. Of(m) \in Upto(Depth[m] + 1) /\ Of(n) \in Upto(Depth[n] + 1)
        BY <1>5
      <3> HIDE DEF Of, Upto, f
      <3>3. Of(m)[m] = Of(n)[m]
        BY <1>4, <3>1, <3>2
      <3> QED
        BY <3>1, <3>3
    <2> HIDE DEF f, Of
    <2> QED
      BY <1>6, <2>1, <2>2, <2>3
  <1> HIDE DEF f
  <1> QED
    BY <1>6, <1>7

\* And what agrees at each node if it does below it agrees everywhere.
LEMMA DepthInduction ==
  ASSUME NEW g, NEW h, \A n \in Nodes : Agree(n, g, h) => g[n] = h[n]
  PROVE  \A n \in Nodes : g[n] = h[n]
  <1> DEFINE U == {d \in Nat : \E m \in Nodes : Depth[m] = d /\ g[m] # h[m]}
  <1>0. Depth \in [Nodes -> Nat]
    BY NodesAssumption
  <1>1. U = {}
    <2> SUFFICES ASSUME U # {} PROVE FALSE
      OBVIOUS
    <2>1. PICK d \in U : \A e \in U : ~ (e < d)
      <3> HIDE DEF U
      <3>1. U \subseteq Nat
        BY DEF U
      <3> QED
        BY <3>1, Least
    <2>2. PICK m \in Nodes : Depth[m] = d /\ g[m] # h[m]
      BY <2>1
    <2>3. Agree(m, g, h)
      BY <1>0, <2>1, <2>2 DEF Agree
    <2> QED
      BY <2>2, <2>3
  <1> QED
    BY <1>0, <1>1

-----------------------------------------------------------------------------
(* What the recursive definitions of StorageFilter are: functions, typed,   *)
(* that satisfy their equations.                                            *)

\* What a clause is, and the clauses of the members so far.
Says == {"yes", "no", "none", "blank"}
Results == [ok : BOOLEAN, says : Says, params : Params]
Sofars == [ok : BOOLEAN, parts : Seq(Says), params : Params]
Start(start) == [ok |-> TRUE, parts |-> <<>>, params |-> start]
Then(w, c) == [ok |-> w.ok /\ c.ok, parts |-> Append(w.parts, c.says), params |-> c.params]
On(asked, params) == [asked EXCEPT !.start = params]

\* The two kinds of nodes.
LEMMA NodesAre ==
  ASSUME NEW n \in Nodes
  PROVE  /\ n.key = "val" => n.tests \in Seq(STRING \X Operands)
         /\ n.key # "val" => /\ n.of \in Seq(Nodes)
                             /\ n.key \in {"object", "$and", "$or", "$not"}
                             /\ \A k \in 1..Len(n.of) : /\ n.of[k] \in Nodes
                                                        /\ Depth[n.of[k]] < Depth[n]
         /\ Depth[n] \in Nat
  <1>1. \/ n \in [key : {"val"}, tests : Seq(STRING \X Operands)]
        \/ /\ n \in [key : {"object", "$and", "$or", "$not"}, of : Seq(Nodes)]
           /\ \A k \in DOMAIN n.of : Depth[n.of[k]] < Depth[n]
    BY NodesAssumption, Zenon
  <1>2. Depth[n] \in Nat
    BY NodesAssumption
  <1> QED
    BY <1>1, <1>2

\* Two functions that agree below a node agree on its children.
LEMMA AgreeBelow ==
  ASSUME NEW n \in Nodes, NEW g, NEW h, Agree(n, g, h), n.key # "val"
  PROVE  \A k \in DOMAIN n.of : g[n.of[k]] = h[n.of[k]]
  <1>1. DOMAIN n.of = 1..Len(n.of)
    <2>1. n.of \in Seq(Nodes)
      BY NodesAre
    <2> QED
      BY <2>1
  <1>2. \A k \in 1..Len(n.of) : n.of[k] \in Nodes /\ Depth[n.of[k]] < Depth[n]
    BY NodesAre
  <1> QED
    BY <1>1, <1>2, Zenon DEF Agree

LEMMA FieldTyped ==
  ASSUME NEW tests \in Seq(STRING \X Operands), NEW a \in Asked
  PROVE  FieldClause(tests, a) \in Results
  <1> DEFINE c == FieldClause(tests, a)
  <1>1. c.ok \in BOOLEAN /\ c.says \in Says
    BY DEF FieldClause, Verdict, Says
  <1>2. [i \in DOMAIN tests |-> tests[i][2]] \in Seq(Operands)
    OBVIOUS
  <1>3. c.params \in Params
    BY <1>2 DEF FieldClause, Params, Asked
  <1>4. c = [ok |-> c.ok, says |-> c.says, params |-> c.params]
    BY DEF FieldClause
  <1> HIDE DEF c
  <1>5. c \in Results
    BY <1>1, <1>3, <1>4 DEF Results
  <1> QED
    BY <1>5 DEF c

LEMMA JoinedTyped ==
  ASSUME NEW key, NEW w \in Sofars
  PROVE  Joined(key, w) \in Results
  <1> DEFINE c == Joined(key, w)
  <1>1. c.ok \in BOOLEAN /\ c.says \in Says
    BY DEF Joined, Verdict, Says, Sofars
  <1>3. c.params \in Params
    BY DEF Joined, Sofars
  <1>4. c = [ok |-> c.ok, says |-> c.says, params |-> c.params]
    BY DEF Joined
  <1> HIDE DEF c
  <1>5. c \in Results
    BY <1>1, <1>3, <1>4 DEF Results
  <1> QED
    BY <1>5 DEF c

LEMMA ThenIs ==
  ASSUME NEW w, NEW c
  PROVE  /\ Then(w, c).ok <=> w.ok /\ c.ok
         /\ Then(w, c).params = c.params
         /\ Then(w, c).parts = Append(w.parts, c.says)
  BY DEF Then

LEMMA ThenTyped ==
  ASSUME NEW w \in Sofars, NEW c \in Results
  PROVE  Then(w, c) \in Sofars
  BY DEF Then, Sofars, Results

LEMMA OnTyped ==
  ASSUME NEW a \in Asked, NEW params \in Params
  PROVE  /\ On(a, params) \in Asked
         /\ On(a, params) = [value |-> a.value, start |-> params, bound |-> a.bound]
  BY DEF On, Asked

\* The clauses of the members, by prefix recursion.
LEMMA ClausesAre ==
  ASSUME NEW members \in Seq(Nodes), NEW a \in Asked, NEW g,
         \A k \in 1..Len(members) : g[members[k]] \in [Asked -> Results]
  PROVE  LET w == Clauses(members, g, a) IN
         /\ w \in [0..Len(members) -> Sofars]
         /\ w[0] = Start(a.start)
         /\ \A k \in 1..Len(members) : w[k] = Then(w[k - 1], g[members[k]][On(a, w[k - 1].params)])
  <1> DEFINE len == Len(members)
             step == [ks \in (1..len) \X Sofars |->
                        Then(ks[2], g[members[ks[1]]][On(a, ks[2].params)])]
  <1>0. len \in Nat /\ \A k \in 1..len : g[members[k]] \in [Asked -> Results]
    OBVIOUS
  <1> HIDE DEF len
  <1>1. Start(a.start) \in Sofars
    BY DEF Start, Sofars, Asked
  <1>2. ASSUME NEW k \in 1..len, NEW w \in Sofars
        PROVE  g[members[k]][On(a, w.params)] \in Results
    <2>1. w.params \in Params /\ g[members[k]] \in [Asked -> Results]
      BY <1>0 DEF Sofars
    <2> QED
      BY <2>1, OnTyped
  <1>3. step \in [(1..len) \X Sofars -> Sofars]
    <2>1. ASSUME NEW ks \in (1..len) \X Sofars
          PROVE  Then(ks[2], g[members[ks[1]]][On(a, ks[2].params)]) \in Sofars
      <3>1. ks[1] \in 1..len /\ ks[2] \in Sofars
        OBVIOUS
      <3> QED
        BY <1>2, <3>1, ThenTyped
    <2> QED
      BY <2>1
  <1>4. PICK h \in [0..len -> Sofars] : /\ h[0] = Start(a.start)
                                        /\ \A k \in 1..len : h[k] = step[<<k, h[k - 1]>>]
    <2> DEFINE s0 == Start(a.start)
    <2>1. s0 \in Sofars
      BY <1>1
    <2>3. step \in Steps(len, Sofars)
      BY <1>3 DEF Steps
    <2> HIDE DEF step, s0
    <2>0. len \in Nat
      BY <1>0
    <2>2. \E h \in [0..len -> Sofars] : Unfolds(h, len, s0, step)
      BY <2>0, <2>1, <2>3, PrefixRecursion
    <2> QED
      BY <2>2 DEF s0, Unfolds
  <1>5. \A k \in 1..len : h[k] = Then(h[k - 1], g[members[k]][On(a, h[k - 1].params)])
    <2> SUFFICES ASSUME NEW k \in 1..len
                 PROVE  h[k] = Then(h[k - 1], g[members[k]][On(a, h[k - 1].params)])
      OBVIOUS
    <2>1. k - 1 \in 0..len
      BY <1>0
    <2>2. h[k - 1] \in Sofars
      BY <1>4, <2>1
    <2>3. <<k, h[k - 1]>> \in (1..len) \X Sofars
      BY <2>2
    <2> QED
      BY <1>4, <2>3
  <1> DEFINE Body(s, k) == IF k = 0 THEN Start(a.start)
                          ELSE Then(s[k - 1], g[members[k]][On(a, s[k - 1].params)])
  <1>6. h = [k \in 0..len |-> Body(h, k)]
    <2>1. \A k \in 0..len : h[k] = Body(h, k)
      BY <1>0, <1>4, <1>5
    <2> HIDE DEF Body
    <2> QED
      BY <1>4, <2>1
  <1> DEFINE w == Clauses(members, g, a)
  <1>7. w = [k \in 0..len |-> Body(w, k)]
    BY <1>6, Zenon DEF Clauses, len, Start, Then, On
  <1> HIDE DEF w
  <1>8. w[0] = Start(a.start)
        /\ \A k \in 1..len : w[k] = Then(w[k - 1], g[members[k]][On(a, w[k - 1].params)])
    <2>1. \A k \in 0..len : w[k] = Body(w, k)
      <3> HIDE DEF Body
      <3> QED
        BY <1>7
    <2>2. w[0] = Start(a.start)
      BY <1>0, <2>1
    <2>3. ASSUME NEW k \in 1..len
          PROVE  w[k] = Then(w[k - 1], g[members[k]][On(a, w[k - 1].params)])
      BY <1>0, <2>1
    <2> QED
      BY <2>2, <2>3
  <1>9. w \in [0..len -> Sofars]
    <2> DEFINE T == {k \in Nat : k <= len => w[k] \in Sofars}
    <2>2. 0 \in T
      BY <1>1, <1>8
    <2>3. ASSUME NEW k \in Nat, k \in T
          PROVE  k + 1 \in T
      <3> SUFFICES ASSUME k + 1 <= len PROVE w[k + 1] \in Sofars
        OBVIOUS
      <3>1. k + 1 \in 1..len /\ (k + 1) - 1 = k /\ w[k] \in Sofars
        BY <1>0, <2>3
      <3>2. w[k + 1] = Then(w[k], g[members[k + 1]][On(a, w[k].params)])
        BY <1>8, <3>1
      <3> QED
        BY <1>2, <3>1, <3>2, ThenTyped
    <2>4. \A k \in Nat : k \in T
      <3> HIDE DEF T
      <3> QED
        BY <2>2, <2>3, SetInduction
    <2>5. \A k \in 0..len : w[k] \in Sofars
      BY <1>0, <2>4
    <2> HIDE DEF Body
    <2> QED
      BY <1>7, <2>5
  <1> QED
    BY <1>8, <1>9 DEF w, len

Readings == [Asked -> Results]

\* They depend on what the members are given only.
LEMMA ClausesLocal ==
  ASSUME NEW members \in Seq(Nodes), NEW a \in Asked, NEW g, NEW h,
         \A k \in 1..Len(members) : g[members[k]] \in Readings /\ g[members[k]] = h[members[k]]
  PROVE  Clauses(members, g, a)[Len(members)] = Clauses(members, h, a)[Len(members)]
  <1> DEFINE len == Len(members)
             w == Clauses(members, g, a)
             x == Clauses(members, h, a)
             T == {k \in Nat : k <= len => w[k] = x[k]}
  <1>1. /\ w[0] = x[0]
        /\ \A k \in 1..len : w[k] = Then(w[k - 1], g[members[k]][On(a, w[k - 1].params)])
        /\ \A k \in 1..len : x[k] = Then(x[k - 1], h[members[k]][On(a, x[k - 1].params)])
        /\ len \in Nat
    BY ClausesAre DEF Readings
  <1> HIDE DEF w, x, len
  <1>2. 0 \in T
    BY <1>1
  <1>3. ASSUME NEW k \in Nat, k \in T
        PROVE  k + 1 \in T
    <2> SUFFICES ASSUME k + 1 <= len PROVE w[k + 1] = x[k + 1]
      OBVIOUS
    <2>0. len \in Nat
      BY <1>1
    <2>1. k + 1 \in 1..len /\ (k + 1) - 1 = k /\ w[k] = x[k]
      BY <1>3, <2>0
    <2>2. g[members[k + 1]] = h[members[k + 1]]
      BY <2>1 DEF len
    <2>3. /\ w[k + 1] = Then(w[k], g[members[k + 1]][On(a, w[k].params)])
          /\ x[k + 1] = Then(x[k], h[members[k + 1]][On(a, x[k].params)])
      BY <1>1, <2>1
    <2> QED
      BY <2>1, <2>2, <2>3
  <1>4. \A k \in Nat : k \in T
    <2> HIDE DEF T
    <2> QED
      BY <1>2, <1>3, SetInduction
  <1>5. w[len] = x[len]
    BY <1>1, <1>4
  <1> QED
    BY <1>5 DEF w, x, len

\* The right-hand side of Clause.
ClauseOf(n, g) ==
    [asked \in Asked |-> IF n.key = "val" THEN FieldClause(n.tests, asked)
                         ELSE Joined(n.key, Clauses(n.of, g, asked)[Len(n.of)])]

LEMMA ClauseOfLocal ==
  ASSUME NEW n \in Nodes, NEW g \in [Nodes -> Readings], NEW h, Agree(n, g, h)
  PROVE  ClauseOf(n, g) = ClauseOf(n, h)
  <1> SUFFICES ASSUME n.key # "val", NEW a \in Asked
               PROVE  Clauses(n.of, g, a)[Len(n.of)] = Clauses(n.of, h, a)[Len(n.of)]
    BY DEF ClauseOf
  <1>1. /\ n.of \in Seq(Nodes)
        /\ \A k \in 1..Len(n.of) : n.of[k] \in Nodes /\ Depth[n.of[k]] < Depth[n]
    BY NodesAre
  <1>2. \A k \in 1..Len(n.of) : g[n.of[k]] \in Readings /\ g[n.of[k]] = h[n.of[k]]
    BY <1>1 DEF Agree
  <1> QED
    BY <1>1, <1>2, ClausesLocal

LEMMA ClauseOfTyped ==
  ASSUME NEW n \in Nodes, NEW g \in [Nodes -> Readings]
  PROVE  ClauseOf(n, g) \in Readings
  <1> SUFFICES ASSUME NEW a \in Asked
               PROVE  (IF n.key = "val" THEN FieldClause(n.tests, a)
                       ELSE Joined(n.key, Clauses(n.of, g, a)[Len(n.of)])) \in Results
    BY DEF ClauseOf, Readings
  <1>1. CASE n.key = "val"
    BY <1>1, NodesAre, FieldTyped
  <1>2. CASE n.key # "val"
    <2>1. n.of \in Seq(Nodes) /\ Len(n.of) \in 0..Len(n.of)
      BY <1>2, NodesAre
    <2>2. \A k \in 1..Len(n.of) : g[n.of[k]] \in [Asked -> Results]
      BY <2>1 DEF Readings
    <2>3. Clauses(n.of, g, a)[Len(n.of)] \in Sofars
      BY <2>1, <2>2, ClausesAre
    <2> QED
      BY <1>2, <2>3, JoinedTyped
  <1> QED
    BY <1>1, <1>2

\* Clause is the one function that satisfies its equation.
LEMMA ClauseIs ==
  /\ Clause \in [Nodes -> Readings]
  /\ \A n \in Nodes : Clause[n] = ClauseOf(n, Clause)
  <1> DEFINE step == [ng \in Nodes \X [Nodes -> Readings] |-> ClauseOf(ng[1], ng[2])]
  <1>1. step \in NodeSteps(Readings)
    <2>1. \A ng \in Nodes \X [Nodes -> Readings] : ClauseOf(ng[1], ng[2]) \in Readings
      BY ClauseOfTyped
    <2> QED
      BY <2>1 DEF NodeSteps
  <1>2. \A n \in Nodes : \A g \in [Nodes -> Readings] : step[<<n, g>>] = ClauseOf(n, g)
    OBVIOUS
  <1> HIDE DEF step
  <1>3. Local(Readings, step)
    BY <1>2, ClauseOfLocal DEF Local
  <1>4. Readings # {}
    <2>1. [ok |-> TRUE, says |-> "none", params |-> <<>>] \in Results
      BY DEF Results, Says, Params
    <2>2. [asked \in Asked |-> [ok |-> TRUE, says |-> "none", params |-> <<>>]] \in Readings
      BY <2>1 DEF Readings
    <2> QED
      BY <2>2
  <1>5. PICK f \in [Nodes -> Readings] : UnfoldsAll(f, step)
    BY <1>1, <1>3, <1>4, DepthRecursion
  <1>6. \A n \in Nodes : f[n] = ClauseOf(n, f)
    BY <1>2, <1>5 DEF UnfoldsAll
  <1>7. f = [n \in Nodes |-> ClauseOf(n, f)]
    BY <1>6
  <1>8. Clause = [n \in Nodes |-> ClauseOf(n, Clause)]
    BY <1>7, ZenonT(40) DEF Clause, ClauseOf
  <1>9. \A n \in Nodes : f[n] = Clause[n]
    <2>1. ASSUME NEW n \in Nodes, Agree(n, f, Clause)
          PROVE  f[n] = Clause[n]
      BY <1>6, <1>8, <2>1, ClauseOfLocal
    <2> QED
      BY <2>1, DepthInduction
  <1>10. Clause = f
    BY <1>7, <1>8, <1>9
  <1> QED
    BY <1>6, <1>10

\* The same for Means, Solid and Clear.
Answers == [Values -> BOOLEAN]

MeansOf(n, g) ==
    [v \in Values |->
        CASE n.key = "val" -> \A i \in DOMAIN n.tests : Compares(n.tests[i][1], v, n.tests[i][2])
          [] n.key = "$or" -> \E k \in DOMAIN n.of : g[n.of[k]][v]
          [] n.key = "$not" -> \A k \in DOMAIN n.of : ~g[n.of[k]][v]
          [] OTHER -> \A k \in DOMAIN n.of : g[n.of[k]][v]]

LEMMA MeansOfLocal ==
  ASSUME NEW n \in Nodes, NEW g, NEW h, Agree(n, g, h)
  PROVE  MeansOf(n, g) = MeansOf(n, h)
  <1>1. CASE n.key = "val"
    BY <1>1 DEF MeansOf
  <1>2. CASE n.key # "val"
    <2>1. \A k \in DOMAIN n.of : g[n.of[k]] = h[n.of[k]]
      BY <1>2, AgreeBelow
    <2> QED
      BY <1>2, <2>1 DEF MeansOf
  <1> QED
    BY <1>1, <1>2

LEMMA MeansOfTyped ==
  ASSUME NEW n \in Nodes, NEW g \in [Nodes -> Answers]
  PROVE  MeansOf(n, g) \in Answers
  <1> SUFFICES ASSUME NEW v \in Values
               PROVE  MeansOf(n, g)[v] \in BOOLEAN
    BY DEF MeansOf, Answers
  <1>1. CASE n.key = "val"
    BY <1>1 DEF MeansOf
  <1>2. CASE n.key = "$or"
    BY <1>2 DEF MeansOf
  <1>3. CASE n.key = "$not"
    BY <1>3 DEF MeansOf
  <1>4. CASE n.key \notin {"val", "$or", "$not"}
    BY <1>4 DEF MeansOf
  <1> QED
    BY <1>1, <1>2, <1>3, <1>4

LEMMA MeansIs ==
  /\ Means \in [Nodes -> Answers]
  /\ \A n \in Nodes : Means[n] = MeansOf(n, Means)
  <1> DEFINE step == [ng \in Nodes \X [Nodes -> Answers] |-> MeansOf(ng[1], ng[2])]
  <1>1. step \in NodeSteps(Answers)
    <2>1. \A ng \in Nodes \X [Nodes -> Answers] : MeansOf(ng[1], ng[2]) \in Answers
      BY MeansOfTyped
    <2> QED
      BY <2>1 DEF NodeSteps
  <1>2. \A n \in Nodes : \A g \in [Nodes -> Answers] : step[<<n, g>>] = MeansOf(n, g)
    OBVIOUS
  <1> HIDE DEF step
  <1>3. Local(Answers, step)
    BY <1>2, MeansOfLocal DEF Local
  <1>4. Answers # {}
    <2>1. [v \in Values |-> TRUE] \in Answers
      BY DEF Answers
    <2> QED
      BY <2>1
  <1>5. PICK f \in [Nodes -> Answers] : UnfoldsAll(f, step)
    BY <1>1, <1>3, <1>4, DepthRecursion
  <1>6. \A n \in Nodes : f[n] = MeansOf(n, f)
    BY <1>2, <1>5 DEF UnfoldsAll
  <1>7. f = [n \in Nodes |-> MeansOf(n, f)]
    BY <1>6
  <1>8. Means = [n \in Nodes |-> MeansOf(n, Means)]
    BY <1>7, ZenonT(40) DEF Means, MeansOf
  <1>9. \A n \in Nodes : f[n] = Means[n]
    <2>1. ASSUME NEW n \in Nodes, Agree(n, f, Means)
          PROVE  f[n] = Means[n]
      BY <1>6, <1>8, <2>1, MeansOfLocal
    <2> QED
      BY <2>1, DepthInduction
  <1>10. Means = f
    BY <1>7, <1>8, <1>9
  <1> QED
    BY <1>6, <1>10

SolidOf(n, g) ==
    IF n.key = "val" THEN n.tests # <<>>
    ELSE n.of # <<>> /\ \A k \in DOMAIN n.of : g[n.of[k]]

LEMMA SolidIs ==
  /\ Solid \in [Nodes -> BOOLEAN]
  /\ \A n \in Nodes : Solid[n] = SolidOf(n, Solid)
  <1>0. ASSUME NEW n \in Nodes, NEW g, NEW h, Agree(n, g, h)
        PROVE  SolidOf(n, g) = SolidOf(n, h)
    <2>1. CASE n.key = "val"
      BY <2>1 DEF SolidOf
    <2>2. CASE n.key # "val"
      <3>1. \A k \in DOMAIN n.of : g[n.of[k]] = h[n.of[k]]
        BY <1>0, <2>2, AgreeBelow
      <3> QED
        BY <2>2, <3>1 DEF SolidOf
    <2> QED
      BY <2>1, <2>2
  <1> DEFINE step == [ng \in Nodes \X [Nodes -> BOOLEAN] |-> SolidOf(ng[1], ng[2])]
  <1>1. step \in NodeSteps(BOOLEAN)
    <2>1. \A ng \in Nodes \X [Nodes -> BOOLEAN] : SolidOf(ng[1], ng[2]) \in BOOLEAN
      BY DEF SolidOf
    <2> QED
      BY <2>1 DEF NodeSteps
  <1>2. \A n \in Nodes : \A g \in [Nodes -> BOOLEAN] : step[<<n, g>>] = SolidOf(n, g)
    OBVIOUS
  <1> HIDE DEF step
  <1>3. Local(BOOLEAN, step)
    BY <1>0, <1>2 DEF Local
  <1>5. PICK f \in [Nodes -> BOOLEAN] : UnfoldsAll(f, step)
    BY <1>1, <1>3, DepthRecursion
  <1>6. \A n \in Nodes : f[n] = SolidOf(n, f)
    BY <1>2, <1>5 DEF UnfoldsAll
  <1>7. f = [n \in Nodes |-> SolidOf(n, f)]
    BY <1>6
  <1>8. Solid = [n \in Nodes |-> SolidOf(n, Solid)]
    BY <1>7, ZenonT(40) DEF Solid, SolidOf
  <1>9. \A n \in Nodes : f[n] = Solid[n]
    <2>1. ASSUME NEW n \in Nodes, Agree(n, f, Solid)
          PROVE  f[n] = Solid[n]
      BY <1>0, <1>6, <1>8, <2>1
    <2> QED
      BY <2>1, DepthInduction
  <1>10. Solid = f
    BY <1>7, <1>8, <1>9
  <1> QED
    BY <1>6, <1>10

ClearOf(n, g) ==
    \/ n.key = "val"
    \/ n.key \in {"$or", "$not"} /\ Solid[n]
    \/ n.key \in {"object", "$and"} /\ \A k \in DOMAIN n.of : g[n.of[k]]

LEMMA ClearIs ==
  /\ Clear \in [Nodes -> BOOLEAN]
  /\ \A n \in Nodes : Clear[n] = ClearOf(n, Clear)
  <1>0. ASSUME NEW n \in Nodes, NEW g, NEW h, Agree(n, g, h)
        PROVE  ClearOf(n, g) = ClearOf(n, h)
    <2>1. CASE n.key = "val"
      BY <2>1 DEF ClearOf
    <2>2. CASE n.key # "val"
      <3>1. \A k \in DOMAIN n.of : g[n.of[k]] = h[n.of[k]]
        BY <1>0, <2>2, AgreeBelow
      <3> QED
        BY <2>2, <3>1 DEF ClearOf
    <2> QED
      BY <2>1, <2>2
  <1> DEFINE step == [ng \in Nodes \X [Nodes -> BOOLEAN] |-> ClearOf(ng[1], ng[2])]
  <1>1. step \in NodeSteps(BOOLEAN)
    <2>1. \A ng \in Nodes \X [Nodes -> BOOLEAN] : ClearOf(ng[1], ng[2]) \in BOOLEAN
      BY DEF ClearOf
    <2> QED
      BY <2>1 DEF NodeSteps
  <1>2. \A n \in Nodes : \A g \in [Nodes -> BOOLEAN] : step[<<n, g>>] = ClearOf(n, g)
    OBVIOUS
  <1> HIDE DEF step
  <1>3. Local(BOOLEAN, step)
    BY <1>0, <1>2 DEF Local
  <1>5. PICK f \in [Nodes -> BOOLEAN] : UnfoldsAll(f, step)
    BY <1>1, <1>3, DepthRecursion
  <1>6. \A n \in Nodes : f[n] = ClearOf(n, f)
    BY <1>2, <1>5 DEF UnfoldsAll
  <1>7. f = [n \in Nodes |-> ClearOf(n, f)]
    BY <1>6
  <1>8. Clear = [n \in Nodes |-> ClearOf(n, Clear)]
    BY <1>7, ZenonT(40) DEF Clear, ClearOf
  <1>9. \A n \in Nodes : f[n] = Clear[n]
    <2>1. ASSUME NEW n \in Nodes, Agree(n, f, Clear)
          PROVE  f[n] = Clear[n]
      BY <1>0, <1>6, <1>8, <2>1
    <2> QED
      BY <2>1, DepthInduction
  <1>10. Clear = f
    BY <1>7, <1>8, <1>9
  <1> QED
    BY <1>6, <1>10

-----------------------------------------------------------------------------
(* The clause of a filter means what the filter means.                      *)

\* Induction on the depth of nodes, about sets.
LEMMA NodeInduction ==
  ASSUME NEW T, \A n \in Nodes : (\A m \in Nodes : Depth[m] < Depth[n] => m \in T) => n \in T
  PROVE  \A n \in Nodes : n \in T
  <1> DEFINE g == [n \in Nodes |-> n \in T]
             h == [n \in Nodes |-> TRUE]
  <1>1. \A n \in Nodes : Agree(n, g, h) => g[n] = h[n]
    BY DEF Agree
  <1>2. \A n \in Nodes : g[n] = h[n]
    <2> HIDE DEF g, h
    <2> QED
      BY <1>1, DepthInduction
  <1> QED
    BY <1>2

\* What of a clause does not depend on the values it is asked with.
Alike(c, d) == /\ c.ok = d.ok /\ c.params = d.params
               /\ c.says = "none" <=> d.says = "none"
               /\ c.says = "blank" <=> d.says = "blank"

AlikeAt(n) == \A a, b \in Asked : a.start = b.start => Alike(Clause[n][a], Clause[n][b])

\* And of the clauses of members.
AlikeParts(w, x, k) ==
    /\ w.ok = x.ok /\ w.params = x.params
    /\ Len(w.parts) = k /\ Len(x.parts) = k
    /\ \A i \in 1..k : /\ w.parts[i] = "none" <=> x.parts[i] = "none"
                       /\ w.parts[i] = "blank" <=> x.parts[i] = "blank"

LEMMA FieldAlike ==
  ASSUME NEW tests, NEW a \in Asked, NEW b \in Asked, a.start = b.start
  PROVE  Alike(FieldClause(tests, a), FieldClause(tests, b))
  BY DEF FieldClause, Alike, Verdict

LEMMA JoinedAlike ==
  ASSUME NEW key, NEW w \in Sofars, NEW x \in Sofars, NEW k \in Nat, AlikeParts(w, x, k)
  PROVE  Alike(Joined(key, w), Joined(key, x))
  <1> DEFINE said(y) == {i \in DOMAIN y.parts : y.parts[i] # "none"}
             blank(y) == {i \in said(y) : y.parts[i] = "blank"}
  <1>1. said(w) = said(x) /\ blank(w) = blank(x)
    BY DEF AlikeParts, Sofars
  <1>2. \A y \in {w, x} : /\ Joined(key, y).ok <=> y.ok /\ \A i \in blank(y) : said(y) = {i}
                          /\ Joined(key, y).ok \in BOOLEAN
                          /\ Joined(key, y).says = "none" <=> said(y) = blank(y)
                          /\ Joined(key, y).says # "blank"
                          /\ Joined(key, y).params = y.params
    BY DEF Joined, Verdict
  <1> HIDE DEF said, blank
  <1> QED
    BY <1>1, <1>2 DEF AlikeParts, Alike

LEMMA ThenAlike ==
  ASSUME NEW w \in Sofars, NEW x \in Sofars, NEW k \in Nat, AlikeParts(w, x, k),
         NEW c \in Results, NEW d \in Results, Alike(c, d)
  PROVE  AlikeParts(Then(w, c), Then(x, d), k + 1)
  <1>1. w.parts \in Seq(Says) /\ x.parts \in Seq(Says) /\ c.says \in Says /\ d.says \in Says
    BY DEF Sofars, Results
  <1>2. Then(w, c).parts = Append(w.parts, c.says) /\ Then(x, d).parts = Append(x.parts, d.says)
    BY DEF Then
  <1>3. Len(Append(w.parts, c.says)) = k + 1 /\ Len(Append(x.parts, d.says)) = k + 1
    BY <1>1 DEF AlikeParts
  <1>4. ASSUME NEW i \in 1..(k + 1)
        PROVE  LET p == Append(w.parts, c.says) q == Append(x.parts, d.says) IN
               (p[i] = "none" <=> q[i] = "none") /\ (p[i] = "blank" <=> q[i] = "blank")
    BY <1>1 DEF AlikeParts, Alike
  <1> QED
    BY <1>2, <1>3, <1>4 DEF AlikeParts, Alike, Then

LEMMA ClauseAlike == \A n \in Nodes : AlikeAt(n)
  <1> DEFINE T == {n \in Nodes : AlikeAt(n)}
  <1>1. ASSUME NEW n \in Nodes, \A m \in Nodes : Depth[m] < Depth[n] => m \in T
        PROVE  n \in T
    <2> SUFFICES ASSUME NEW a \in Asked, NEW b \in Asked, a.start = b.start
                 PROVE  Alike(Clause[n][a], Clause[n][b])
      BY DEF AlikeAt
    <2>0. Clause[n] = ClauseOf(n, Clause)
      BY ClauseIs
    <2>1. CASE n.key = "val"
      <3>1. Clause[n][a] = FieldClause(n.tests, a) /\ Clause[n][b] = FieldClause(n.tests, b)
        BY <2>0, <2>1 DEF ClauseOf
      <3> QED
        BY <3>1, FieldAlike
    <2>2. CASE n.key # "val"
      <3> DEFINE of == n.of
                 len == Len(of)
                 w == Clauses(of, Clause, a)
                 x == Clauses(of, Clause, b)
                 U == {k \in Nat : k <= len => AlikeParts(w[k], x[k], k)}
      <3>1. /\ of \in Seq(Nodes) /\ len \in Nat
            /\ \A k \in 1..len : of[k] \in Nodes /\ AlikeAt(of[k]) /\ Clause[of[k]] \in Readings
        BY <1>1, <2>2, NodesAre, ClauseIs
      <3>2. /\ w \in [0..len -> Sofars] /\ w[0] = Start(a.start)
            /\ \A k \in 1..len : w[k] = Then(w[k - 1], Clause[of[k]][On(a, w[k - 1].params)])
            /\ x \in [0..len -> Sofars] /\ x[0] = Start(b.start)
            /\ \A k \in 1..len : x[k] = Then(x[k - 1], Clause[of[k]][On(b, x[k - 1].params)])
        <4> HIDE DEF of
        <4> QED
          BY <3>1, ClausesAre DEF Readings
      <3>3. Clause[n][a] = Joined(n.key, w[len]) /\ Clause[n][b] = Joined(n.key, x[len])
        BY <2>0, <2>2 DEF ClauseOf
      <3> HIDE DEF of, len, w, x
      <3>4. 0 \in U
        BY <3>2 DEF Start, AlikeParts
      <3>5. ASSUME NEW k \in Nat, k \in U
            PROVE  k + 1 \in U
        <4> SUFFICES ASSUME k + 1 <= len PROVE AlikeParts(w[k + 1], x[k + 1], k + 1)
          OBVIOUS
        <4>1. k + 1 \in 1..len /\ (k + 1) - 1 = k /\ k \in 0..len /\ AlikeParts(w[k], x[k], k)
          BY <3>1, <3>5
        <4>2. w[k] \in Sofars /\ x[k] \in Sofars
          BY <3>2, <4>1
        <4>3. /\ w[k].params \in Params /\ x[k].params = w[k].params
          BY <4>1, <4>2 DEF Sofars, AlikeParts
        <4> DEFINE c == Clause[of[k + 1]][On(a, w[k].params)]
                   d == Clause[of[k + 1]][On(b, x[k].params)]
        <4>4. /\ On(a, w[k].params) \in Asked /\ On(b, x[k].params) \in Asked
              /\ On(a, w[k].params).start = On(b, x[k].params).start
          BY <4>3, OnTyped
        <4>5. c \in Results /\ d \in Results /\ Alike(c, d)
          BY <3>1, <4>1, <4>4 DEF AlikeAt, Readings
        <4>6. w[k + 1] = Then(w[k], c) /\ x[k + 1] = Then(x[k], d)
          BY <3>2, <4>1
        <4> HIDE DEF c, d
        <4> QED
          BY <4>1, <4>2, <4>5, <4>6, ThenAlike
      <3>6. \A k \in Nat : k \in U
        <4> HIDE DEF U
        <4> QED
          BY <3>4, <3>5, SetInduction
      <3>7. AlikeParts(w[len], x[len], len) /\ w[len] \in Sofars /\ x[len] \in Sofars
        BY <3>1, <3>2, <3>6
      <3> QED
        BY <3>1, <3>3, <3>7, JoinedAlike
    <2> QED
      BY <2>1, <2>2
  <1>2. \A n \in Nodes : n \in T
    <2> HIDE DEF T
    <2> QED
      BY <1>1, NodeInduction
  <1> QED
    BY <1>2

\* One sequence is the beginning of another.
Begins(s, t) == Len(s) <= Len(t) /\ \A i \in 1..Len(s) : t[i] = s[i]

LEMMA BeginsOn ==
  ASSUME NEW s \in Params, NEW t \in Params, NEW u \in Params, Begins(s, t), Begins(t, u)
  PROVE  Begins(s, u)
  BY DEF Begins, Params

\* What a clause says is what its node means.
Right(n, says, v) ==
    /\ Clear[n] => (says = "no" <=> ~Means[n][v])
    /\ Solid[n] => says \in {"yes", "no"} /\ (says = "no" <=> ~Means[n][v])

\* A clause built after start, whose parameters are bound.
RightFor(n, a, c) ==
    /\ Begins(a.start, c.params)
    /\ Begins(c.params, a.bound) => Right(n, c.says, a.value)

RightAt(n) == \A a \in Asked : Clause[n][a].ok => RightFor(n, a, Clause[n][a])

LEMMA OperandsJoined ==
  ASSUME NEW s \in Seq(Operands), NEW t \in Seq(Operands)
  PROVE  /\ Len(s \o t) = Len(s) + Len(t)
         /\ \A i \in 1..Len(s) : (s \o t)[i] = s[i]
         /\ \A i \in 1..Len(t) : (s \o t)[Len(s) + i] = t[i]
  OBVIOUS

\* A field looks for its operands where they have been bound.
LEMMA FieldRight ==
  ASSUME NEW n \in Nodes, n.key = "val"
  PROVE  RightAt(n)
  <1> SUFFICES ASSUME NEW a \in Asked
               PROVE  RightFor(n, a, FieldClause(n.tests, a))
    BY ClauseIs DEF RightAt, ClauseOf
  <1> DEFINE tests == n.tests
             s == a.start
             operands == [i \in DOMAIN tests |-> tests[i][2]]
             c == FieldClause(tests, a)
             v == a.value
  <1>1. tests \in Seq(STRING \X Operands)
    BY NodesAre
  <1>2. operands \in Seq(Operands) /\ Len(operands) = Len(tests)
        /\ \A i \in 1..Len(tests) : operands[i] = tests[i][2]
    <2> HIDE DEF tests
    <2>1. DOMAIN tests = 1..Len(tests) /\ Len(tests) \in Nat
      BY <1>1
    <2>2. \A i \in 1..Len(tests) : tests[i][2] \in Operands
      BY <1>1
    <2>3. operands = [i \in 1..Len(tests) |-> tests[i][2]]
      BY <2>1
    <2>4. operands \in [1..Len(tests) -> Operands]
      BY <2>2, <2>3
    <2> HIDE DEF operands
    <2>5. operands \in Seq(Operands) /\ Len(operands) = Len(tests)
      BY <2>1, <2>4
    <2> QED
      BY <2>3, <2>5
  <1>3. s \in Seq(Operands) /\ a.bound \in Seq(Operands) /\ v \in Values
    BY DEF Asked, Params
  <1>4. c.params = s \o operands
    BY DEF FieldClause
  <1>5. /\ Len(s \o operands) = Len(s) + Len(tests)
        /\ \A i \in 1..Len(s) : (s \o operands)[i] = s[i]
        /\ \A i \in 1..Len(tests) : (s \o operands)[Len(s) + i] = tests[i][2]
    <2> HIDE DEF operands, s, tests
    <2>1. /\ Len(s \o operands) = Len(s) + Len(operands)
          /\ \A i \in 1..Len(s) : (s \o operands)[i] = s[i]
          /\ \A i \in 1..Len(operands) : (s \o operands)[Len(s) + i] = operands[i]
      BY <1>2, <1>3, OperandsJoined
    <2> QED
      BY <1>2, <2>1
  <1>6. Begins(s, c.params)
    BY <1>1, <1>3, <1>4, <1>5 DEF Begins
  <1>7. ASSUME Begins(c.params, a.bound)
        PROVE  Right(n, c.says, v)
    <2>1. ASSUME NEW i \in DOMAIN tests
          PROVE  Len(s) + i \in DOMAIN a.bound /\ a.bound[Len(s) + i] = tests[i][2]
      <3> HIDE DEF s, operands
      <3>1. i \in 1..Len(tests) /\ Len(s) \in Nat /\ Len(tests) \in Nat
        BY <1>1, <1>3, <2>1
      <3>2. Len(s) + i \in 1..Len(s \o operands)
        BY <1>5, <3>1
      <3>3. Len(s) + i \in 1..Len(a.bound) /\ a.bound[Len(s) + i] = (s \o operands)[Len(s) + i]
        BY <1>3, <1>4, <1>5, <1>7, <3>1, <3>2 DEF Begins
      <3> QED
        BY <1>3, <1>5, <3>1, <3>3
    <2> DEFINE holds == \A i \in DOMAIN tests : Compares(tests[i][1], v, tests[i][2])
    <2>2. c.says = IF tests = <<>> THEN "blank" ELSE Verdict(holds)
      <3>1. (\A i \in DOMAIN tests : /\ Number(s, i) \in DOMAIN a.bound
                                    /\ Compares(tests[i][1], v, a.bound[Number(s, i)])) <=> holds
        BY <2>1 DEF Number
      <3>2. c.says = IF tests = <<>> THEN "blank"
                     ELSE Verdict(\A i \in DOMAIN tests : /\ Number(s, i) \in DOMAIN a.bound
                                    /\ Compares(tests[i][1], v, a.bound[Number(s, i)]))
        BY DEF FieldClause
      <3> HIDE DEF c, holds, tests
      <3> QED
        BY <3>1, <3>2 DEF Verdict
    <2>3. Means[n][v] <=> holds
      <3>1. Means[n][v] = MeansOf(n, Means)[v]
        BY MeansIs
      <3> QED
        BY <1>3, <3>1 DEF MeansOf
    <2>4. Solid[n] <=> tests # <<>>
      BY SolidIs DEF SolidOf
    <2>5. tests = <<>> => holds
      OBVIOUS
    <2> HIDE DEF c, holds, tests, v
    <2> QED
      BY <2>2, <2>3, <2>4, <2>5 DEF Right, Verdict
  <1> HIDE DEF c
  <1>8. RightFor(n, a, c)
    BY <1>6, <1>7 DEF RightFor
  <1> QED
    BY <1>8 DEF c

\* A group's clause, from those of its members: m says what they mean.
Combined(key, len, m) ==
    CASE key = "$or" -> \E k \in 1..len : m[k]
      [] key = "$not" -> \A k \in 1..len : ~m[k]
      [] OTHER -> \A k \in 1..len : m[k]

LEMMA JoinedRight ==
  ASSUME NEW key, NEW w \in Sofars, Joined(key, w).ok, NEW len \in Nat, Len(w.parts) = len,
         NEW m \in [1..len -> BOOLEAN],
         \A k \in 1..len : w.parts[k] = "no" <=> ~m[k]
  PROVE  /\ key \notin {"$or", "$not"} => (Joined(key, w).says = "no" <=> ~Combined(key, len, m))
         /\ len # 0 /\ (\A k \in 1..len : w.parts[k] \in {"yes", "no"})
            => /\ Joined(key, w).says \in {"yes", "no"}
               /\ Joined(key, w).says = "no" <=> ~Combined(key, len, m)
  <1> DEFINE p == w.parts
             said == {k \in 1..len : p[k] # "none"}
             blank == {k \in said : p[k] = "blank"}
             j == Joined(key, w)
             holds == CASE key = "$or" -> \E k \in said : p[k] = "yes"
                        [] key = "$not" -> \A k \in said : p[k] = "no"
                        [] OTHER -> \A k \in said : p[k] = "yes"
  <1>0. DOMAIN p = 1..len /\ \A k \in 1..len : p[k] \in Says
    BY DEF Sofars
  <1>1. (\A k \in blank : said = {k}) /\ j.says = IF said = blank THEN "none" ELSE Verdict(holds)
    BY <1>0 DEF Joined
  <1> HIDE DEF p, j
  <1>2. CASE said = blank
    <2>1. \A k \in 1..len : p[k] \in {"none", "blank"} /\ m[k]
      BY <1>0, <1>2 DEF p
    <2>2. j.says = "none"
      BY <1>1, <1>2
    <2> QED
      BY <2>1, <2>2 DEF p, j, Combined
  <1>3. CASE said # blank
    <2>1. blank = {}
      BY <1>1, <1>3
    <2>2. \A k \in 1..len : p[k] \in {"yes", "no", "none"} /\ (p[k] = "no" <=> ~m[k])
      BY <1>0, <2>1 DEF Says, p
    <2>3. j.says = Verdict(holds)
      BY <1>1, <1>3
    <2>4. CASE key \notin {"$or", "$not"}
      <3>1. holds <=> Combined(key, len, m)
        BY <2>2, <2>4 DEF Combined
      <3> QED
        BY <2>3, <3>1 DEF Verdict, j
    <2>5. CASE key \in {"$or", "$not"} /\ \A k \in 1..len : p[k] \in {"yes", "no"}
      <3>1. holds <=> Combined(key, len, m)
        BY <2>2, <2>5 DEF Combined
      <3> QED
        BY <2>3, <2>5, <3>1 DEF Verdict, j
    <2> QED
      BY <2>4, <2>5 DEF p
  <1> QED
    BY <1>2, <1>3

\* When the members' clauses are right and the group's can be built, each was built
\* after the ones before it and its parameters are bound where it looks for them.
LEMMA GroupRight ==
  ASSUME NEW n \in Nodes, n.key # "val", \A k \in 1..Len(n.of) : RightAt(n.of[k])
  PROVE  RightAt(n)
  <1> DEFINE of == n.of
             len == Len(of)
  <1>1. /\ of \in Seq(Nodes) /\ len \in Nat /\ n.key \in {"object", "$and", "$or", "$not"}
        /\ \A k \in 1..len : of[k] \in Nodes /\ Clause[of[k]] \in Readings /\ RightAt(of[k])
    BY NodesAre, ClauseIs
  <1> SUFFICES ASSUME NEW a \in Asked, Clause[n][a].ok
               PROVE  RightFor(n, a, Clause[n][a])
    BY DEF RightAt
  <1> DEFINE w == Clauses(of, Clause, a)
             v == a.value
             on(k) == On(a, w[k - 1].params)
             c(k) == Clause[of[k]][on(k)]
             j == Joined(n.key, w[len])
  <1>2. /\ w \in [0..len -> Sofars] /\ w[0] = Start(a.start)
        /\ \A k \in 1..len : w[k] = Then(w[k - 1], c(k))
    <2> HIDE DEF of
    <2> QED
      BY <1>1, ClausesAre DEF Readings
  <1>3. Clause[n][a] = j
    BY ClauseIs DEF ClauseOf
  <1>4. v \in Values /\ a.start \in Params /\ a.bound \in Params
    BY DEF Asked
  <1> HIDE DEF w, of, len
  <1>5. ASSUME NEW k \in 1..len
        PROVE  /\ k - 1 \in 0..len /\ w[k - 1] \in Sofars
               /\ on(k) \in Asked
               /\ on(k) = [value |-> v, start |-> w[k - 1].params, bound |-> a.bound]
               /\ c(k) \in Results
    <2>1. k - 1 \in 0..len /\ w[k - 1] \in Sofars
      BY <1>1, <1>2
    <2>2. w[k - 1].params \in Params
      BY <2>1 DEF Sofars
    <2>3. on(k) \in Asked
          /\ on(k) = [value |-> v, start |-> w[k - 1].params, bound |-> a.bound]
      BY <2>2, OnTyped
    <2> QED
      BY <1>1, <2>1, <2>3 DEF Readings
  <1> HIDE DEF c, on
  <1>6. ASSUME NEW k \in 1..len
        PROVE  /\ w[k].ok <=> w[k - 1].ok /\ c(k).ok
               /\ w[k].params = c(k).params
               /\ w[k].parts = Append(w[k - 1].parts, c(k).says)
    <2>1. w[k] = Then(w[k - 1], c(k))
      BY <1>2
    <2> DEFINE x == w[k - 1]
               d == c(k)
               t == Then(x, d)
    <2>2. w[k] = t
      BY <2>1
    <2>3. (t.ok <=> x.ok /\ d.ok) /\ t.params = d.params /\ t.parts = Append(x.parts, d.says)
      <3> HIDE DEF x, d
      <3> QED
        BY ThenIs
    <2> HIDE DEF x, d, t
    <2>4. /\ w[k].ok <=> x.ok /\ d.ok
          /\ w[k].params = d.params
          /\ w[k].parts = Append(x.parts, d.says)
      BY <2>2, <2>3
    <2> QED
      BY <2>4 DEF x, d
  \* As far as the clauses are built, each one's parameters begin the next one's.
  <1>7. ASSUME NEW k \in Nat, k <= len
        PROVE  /\ Len(w[k].parts) = k
               /\ w[k].ok => /\ Begins(a.start, w[k].params)
                             /\ \A i \in 1..k : /\ c(i).ok /\ w[k].parts[i] = c(i).says
                                                /\ Begins(c(i).params, w[k].params)
    <2> DEFINE Built(l) == /\ Len(w[l].parts) = l
                           /\ w[l].ok => /\ Begins(a.start, w[l].params)
                                         /\ \A i \in 1..l : /\ c(i).ok /\ w[l].parts[i] = c(i).says
                                                            /\ Begins(c(i).params, w[l].params)
               T == {l \in Nat : l <= len => Built(l)}
    <2>1. 0 \in T
      BY <1>2, <1>4 DEF Start, Begins, Params
    <2>2. ASSUME NEW l \in Nat, l \in T
          PROVE  l + 1 \in T
      <3> SUFFICES ASSUME l + 1 <= len PROVE Built(l + 1)
        OBVIOUS
      <3>1. l + 1 \in 1..len /\ (l + 1) - 1 = l /\ l \in 0..len /\ Built(l)
        BY <1>1, <2>2
      <3>2. /\ w[l + 1].ok <=> w[l].ok /\ c(l + 1).ok
            /\ w[l + 1].params = c(l + 1).params
            /\ w[l + 1].parts = Append(w[l].parts, c(l + 1).says)
            /\ c(l + 1) \in Results /\ w[l] \in Sofars
        BY <1>5, <1>6, <3>1
      <3>3. /\ w[l].parts \in Seq(Says) /\ c(l + 1).says \in Says
            /\ w[l].params \in Params /\ c(l + 1).params \in Params
        BY <3>2 DEF Results, Sofars
      <3>4. Len(w[l + 1].parts) = l + 1
            /\ w[l + 1].parts[l + 1] = c(l + 1).says
            /\ \A i \in 1..l : w[l + 1].parts[i] = w[l].parts[i]
        <4>1. Len(w[l].parts) = l
          BY <3>1
        <4> QED
          BY <3>2, <3>3, <4>1
      <3>5. ASSUME w[l + 1].ok
            PROVE  /\ Begins(a.start, w[l + 1].params)
                   /\ \A i \in 1..(l + 1) : /\ c(i).ok /\ w[l + 1].parts[i] = c(i).says
                                            /\ Begins(c(i).params, w[l + 1].params)
        <4>1. w[l].ok /\ c(l + 1).ok
          BY <3>2, <3>5
        <4>2. Begins(w[l].params, c(l + 1).params)
          <5>1. on(l + 1) \in Asked /\ on(l + 1).start = w[l].params
            BY <1>5, <3>1
          <5>2. c(l + 1) = Clause[of[l + 1]][on(l + 1)]
            BY DEF c
          <5>3. RightAt(of[l + 1])
            BY <1>1, <3>1
          <5> QED
            BY <4>1, <5>1, <5>2, <5>3 DEF RightAt, RightFor
        <4>3. Begins(a.start, w[l + 1].params)
          BY <1>4, <3>1, <3>2, <3>3, <4>1, <4>2, BeginsOn
        <4>4. ASSUME NEW i \in 1..l
              PROVE  Begins(c(i).params, w[l + 1].params)
          <5>1. c(i).params \in Params
            <6>1. i \in 1..len
              BY <3>1, <1>1
            <6> QED
              BY <1>5, <6>1 DEF Results
          <5>2. Begins(c(i).params, w[l].params)
            BY <3>1, <4>1
          <5> QED
            BY <3>2, <3>3, <4>2, <5>1, <5>2, BeginsOn
        <4>5. Begins(c(l + 1).params, w[l + 1].params)
          BY <3>2, <3>3 DEF Begins, Params
        <4>6. \A i \in 1..l : c(i).ok /\ w[l].parts[i] = c(i).says
          BY <3>1, <4>1
        <4>7. \A i \in 1..(l + 1) : i \in 1..l \/ i = l + 1
          OBVIOUS
        <4> QED
          BY <3>4, <4>1, <4>3, <4>4, <4>5, <4>6, <4>7
      <3> QED
        BY <3>4, <3>5
    <2>3. \A l \in Nat : l \in T
      <3> HIDE DEF T
      <3> QED
        BY <2>1, <2>2, SetInduction
    <2> QED
      BY <1>7, <2>3
  <1>8. w[len] \in Sofars /\ w[len].ok /\ j.ok /\ j.params = w[len].params /\ len \in Nat
    <2>1. w[len] \in Sofars /\ j.ok /\ len \in Nat
      BY <1>1, <1>2, <1>3
    <2>2. j.params = w[len].params
      BY DEF Joined
    <2>3. j.ok => w[len].ok
      BY DEF Joined
    <2> QED
      BY <2>1, <2>2, <2>3
  <1>9. Begins(a.start, j.params)
    BY <1>7, <1>8
  <1>10. ASSUME Begins(j.params, a.bound)
         PROVE  Right(n, j.says, v)
    <2> DEFINE m == [k \in 1..len |-> Means[of[k]][v]]
    <2>1. m \in [1..len -> BOOLEAN]
      <3>1. \A k \in 1..len : Means[of[k]] \in Answers
        BY <1>1, MeansIs
      <3> QED
        BY <1>4, <3>1 DEF Answers
    <2>2. ASSUME NEW k \in 1..len
          PROVE  Right(of[k], w[len].parts[k], v)
      <3>1. c(k).ok /\ w[len].parts[k] = c(k).says /\ Begins(c(k).params, w[len].params)
        BY <1>7, <1>8
      <3>2. c(k).params \in Params /\ w[len].params \in Params
        BY <1>5, <1>8 DEF Results, Sofars
      <3>3. Begins(c(k).params, a.bound)
        BY <1>4, <1>8, <1>10, <3>1, <3>2, BeginsOn
      <3>4. on(k) \in Asked /\ on(k).bound = a.bound /\ on(k).value = v
        BY <1>5
      <3>5. c(k) = Clause[of[k]][on(k)]
        BY DEF c
      <3>6. RightAt(of[k])
        BY <1>1
      <3> QED
        BY <3>1, <3>3, <3>4, <3>5, <3>6 DEF RightAt, RightFor
    <2>3. Means[n][v] <=> Combined(n.key, len, m)
      <3>1. Means[n][v] = MeansOf(n, Means)[v]
        BY MeansIs
      <3>2. DOMAIN of = 1..len
        BY <1>1 DEF len
      <3>3. MeansOf(n, Means)[v] = CASE n.key = "$or" -> \E k \in 1..len : Means[of[k]][v]
                                     [] n.key = "$not" -> \A k \in 1..len : ~Means[of[k]][v]
                                     [] OTHER -> \A k \in 1..len : Means[of[k]][v]
        BY <1>4, <3>2 DEF MeansOf, of
      <3> QED
        BY <3>1, <3>3 DEF Combined
    <2> HIDE DEF m
    <2>4. ASSUME \A k \in 1..len : w[len].parts[k] = "no" <=> ~m[k]
          PROVE  /\ n.key \notin {"$or", "$not"} => (j.says = "no" <=> ~Means[n][v])
                 /\ len # 0 /\ (\A k \in 1..len : w[len].parts[k] \in {"yes", "no"})
                    => /\ j.says \in {"yes", "no"}
                       /\ j.says = "no" <=> ~Means[n][v]
      <3>1. Len(w[len].parts) = len
        BY <1>7, <1>8
      <3> QED
        BY <1>8, <2>1, <2>3, <2>4, <3>1, JoinedRight
    <2>5. ASSUME Solid[n]
          PROVE  j.says \in {"yes", "no"} /\ (j.says = "no" <=> ~Means[n][v])
      <3>1. len # 0 /\ \A k \in 1..len : Solid[of[k]]
        <4>1. SolidOf(n, Solid)
          BY <2>5, SolidIs
        <4>2. of # <<>> /\ \A k \in DOMAIN of : Solid[of[k]]
          BY <4>1 DEF SolidOf, of
        <4> QED
          BY <1>1, <4>2 DEF len
      <3>2. /\ \A k \in 1..len : w[len].parts[k] \in {"yes", "no"}
            /\ \A k \in 1..len : w[len].parts[k] = "no" <=> ~m[k]
        BY <2>2, <3>1 DEF Right, m
      <3> QED
        BY <2>4, <3>1, <3>2
    <2>6. ASSUME Clear[n]
          PROVE  j.says = "no" <=> ~Means[n][v]
      <3>1. ClearOf(n, Clear)
        BY <2>6, ClearIs
      <3>2. CASE Solid[n]
        BY <2>5, <3>2
      <3>3. CASE n.key \in {"object", "$and"} /\ \A k \in DOMAIN of : Clear[of[k]]
        <4>1. \A k \in 1..len : Clear[of[k]]
          BY <1>1, <3>3 DEF len
        <4>2. \A k \in 1..len : w[len].parts[k] = "no" <=> ~m[k]
          BY <2>2, <4>1 DEF Right, m
        <4> QED
          BY <2>4, <3>3, <4>2
      <3> QED
        BY <3>1, <3>2, <3>3 DEF ClearOf, of
    <2> QED
      BY <2>5, <2>6 DEF Right
  <1>11. RightFor(n, a, j)
    <2> HIDE DEF j, v
    <2> QED
      BY <1>9, <1>10 DEF RightFor, v
  <1> QED
    BY <1>3, <1>11

LEMMA ClauseRight == \A n \in Nodes : RightAt(n)
  <1> DEFINE T == {n \in Nodes : RightAt(n)}
  <1>1. ASSUME NEW n \in Nodes, \A m \in Nodes : Depth[m] < Depth[n] => m \in T
        PROVE  n \in T
    <2>1. n.key # "val" => \A k \in 1..Len(n.of) : RightAt(n.of[k])
      BY <1>1, NodesAre
    <2> QED
      BY <2>1, FieldRight, GroupRight
  <1>2. \A n \in Nodes : n \in T
    <2> HIDE DEF T
    <2> QED
      BY <1>1, NodeInduction
  <1> QED
    BY <1>2

\* A filter that the statement takes selects exactly what it means, at any depth of
\* groups and with any operands: the parameters are numbered by one counter while
\* the clause is built and bound by their place (build_filter_recursive,
\* build_field_clause, next_param).
THEOREM FiltersBuilt ==
  ASSUME NEW f \in Nodes, Buildable(f), Clear[f], NEW row, row.val \in Values
  PROVE  BuiltSelects(f, row) <=> Meaning(f, row)
  <1> DEFINE v == row.val
             a == Asks(v, <<>>)
             built == Clause[f][a]
             b == Asks(v, built.params)
             c == Clause[f][b]
  <1>1. a \in Asked /\ a.start = <<>>
    BY DEF Asks, Asked, Params
  <1>2. built \in Results /\ built.ok
    BY <1>1, ClauseIs DEF Buildable, Readings
  <1>3. built.params \in Params
    BY <1>2 DEF Results
  <1> HIDE DEF built
  <1>4. b \in Asked /\ b.start = <<>> /\ b.value = v /\ b.bound = built.params
    BY <1>3 DEF Asks, Asked, Params
  <1> HIDE DEF a, b
  <1>5. Alike(built, c)
    BY <1>1, <1>4, ClauseAlike DEF AlikeAt, built
  <1>6. c.ok /\ c.params = built.params
    BY <1>2, <1>5 DEF Alike
  <1>7. Begins(c.params, b.bound)
    BY <1>3, <1>4, <1>6 DEF Begins, Params
  <1>8. Right(f, c.says, v)
    BY <1>4, <1>6, <1>7, ClauseRight DEF RightAt, RightFor
  <1>9. BuiltSelects(f, row) <=> c.says # "no"
    BY DEF BuiltSelects, a, b, built
  <1> QED
    BY <1>8, <1>9 DEF Right, Meaning

\* A clause that is built and says yes or no.
BuildsAt(n) == \A a \in Asked : LET c == Clause[n][a] IN c.ok /\ c.says \in {"yes", "no"}

LEMMA GroupBuilds ==
  ASSUME NEW n \in Nodes, n.key # "val", n.of # <<>>,
         \A k \in 1..Len(n.of) : BuildsAt(n.of[k])
  PROVE  BuildsAt(n)
  <1> DEFINE of == n.of
             len == Len(of)
  <1>1. /\ of \in Seq(Nodes) /\ len \in Nat /\ len # 0
        /\ \A k \in 1..len : of[k] \in Nodes /\ Clause[of[k]] \in Readings /\ BuildsAt(of[k])
    BY NodesAre, ClauseIs
  <1> SUFFICES ASSUME NEW a \in Asked
               PROVE  LET c == Clause[n][a] IN c.ok /\ c.says \in {"yes", "no"}
    BY DEF BuildsAt
  <1> DEFINE w == Clauses(of, Clause, a)
             Built(k) == /\ w[k].ok /\ Len(w[k].parts) = k
                         /\ \A i \in 1..k : w[k].parts[i] \in {"yes", "no"}
             T == {k \in Nat : k <= len => Built(k)}
  <1>2. /\ w \in [0..len -> Sofars] /\ w[0] = Start(a.start)
        /\ \A k \in 1..len : w[k] = Then(w[k - 1], Clause[of[k]][On(a, w[k - 1].params)])
    <2> HIDE DEF of
    <2> QED
      BY <1>1, ClausesAre DEF Readings
  <1>3. Clause[n][a] = Joined(n.key, w[len])
    BY ClauseIs DEF ClauseOf
  <1> HIDE DEF w, of, len
  <1>4. 0 \in T
    BY <1>2 DEF Start
  <1>5. ASSUME NEW k \in Nat, k \in T
        PROVE  k + 1 \in T
    <2> SUFFICES ASSUME k + 1 <= len PROVE Built(k + 1)
      OBVIOUS
    <2>0. len \in Nat
      BY <1>1
    <2>1. k + 1 \in 1..len /\ (k + 1) - 1 = k /\ k \in 0..len /\ Built(k)
      BY <1>5, <2>0
    <2> DEFINE c == Clause[of[k + 1]][On(a, w[k].params)]
    <2>2. w[k] \in Sofars /\ w[k + 1] = Then(w[k], c)
      BY <1>2, <2>1
    <2>3. w[k].parts \in Seq(Says) /\ On(a, w[k].params) \in Asked
      BY <2>2, OnTyped DEF Sofars
    <2>4. c.ok /\ c.says \in {"yes", "no"} /\ c.says \in Says
      BY <1>1, <2>1, <2>3 DEF BuildsAt, Says
    <2> HIDE DEF c
    <2>5. w[k + 1].ok /\ w[k + 1].parts = Append(w[k].parts, c.says)
      <3> DEFINE x == w[k]
                 t == Then(x, c)
      <3>1. (t.ok <=> x.ok /\ c.ok) /\ t.parts = Append(x.parts, c.says)
        <4> HIDE DEF x
        <4> QED
          BY ThenIs
      <3>2. w[k + 1] = t /\ x.ok /\ c.ok
        BY <2>1, <2>2, <2>4
      <3> HIDE DEF x, t
      <3>3. w[k + 1].ok /\ w[k + 1].parts = Append(x.parts, c.says)
        BY <3>1, <3>2
      <3> QED
        BY <3>3 DEF x
    <2> DEFINE q == Append(w[k].parts, c.says)
    <2>6. Len(w[k].parts) = k /\ \A i \in 1..k : w[k].parts[i] \in {"yes", "no"}
      BY <2>1
    <2>7. Len(q) = k + 1 /\ q[k + 1] = c.says /\ \A i \in 1..k : q[i] = w[k].parts[i]
      BY <2>3, <2>4, <2>6
    <2>8. \A i \in 1..(k + 1) : i \in 1..k \/ i = k + 1
      OBVIOUS
    <2> HIDE DEF q
    <2>9. \A i \in 1..(k + 1) : q[i] \in {"yes", "no"}
      BY <2>4, <2>6, <2>7, <2>8
    <2> QED
      BY <2>5, <2>7, <2>9 DEF q
  <1>6. \A k \in Nat : k \in T
    <2> HIDE DEF T
    <2> QED
      BY <1>4, <1>5, SetInduction
  <1>7. w[len] \in Sofars /\ Built(len) /\ len \in Nat /\ len # 0
    <2>1. len \in Nat /\ len # 0 /\ len <= len /\ len \in 0..len
      BY <1>1
    <2>2. w[len] \in Sofars
      BY <1>2, <2>1
    <2>3. len \in T
      BY <1>6, <2>1
    <2>4. Built(len)
      BY <2>1, <2>3
    <2> QED
      BY <2>1, <2>2, <2>4
  <1> DEFINE p == w[len].parts
             said == {k \in DOMAIN p : p[k] # "none"}
             blank == {k \in said : p[k] = "blank"}
  <1>8. said = 1..len /\ blank = {} /\ 1 \in said
    BY <1>7 DEF Sofars
  <1> HIDE DEF p, said, blank
  <1>9. /\ Joined(n.key, w[len]).ok <=> w[len].ok /\ \A k \in blank : said = {k}
        /\ said # blank => Joined(n.key, w[len]).says \in {"yes", "no"}
    BY DEF Joined, Verdict, p, said, blank
  <1> QED
    BY <1>3, <1>7, <1>8, <1>9

\* The statement takes every filter in which nothing is empty and every test has an
\* operator the builder knows, with an array where it wants one (build_filter_clause,
\* build_field_clause).
THEOREM SolidFiltersBuild ==
  ASSUME \A n \in Nodes : n.key = "val" =>
            \A i \in DOMAIN n.tests : Supported(n.tests[i][1], n.tests[i][2]),
         NEW f \in Nodes, Solid[f]
  PROVE  Buildable(f)
  <1> DEFINE T == {n \in Nodes : Solid[n] => BuildsAt(n)}
  <1>1. ASSUME NEW n \in Nodes, \A m \in Nodes : Depth[m] < Depth[n] => m \in T, Solid[n]
        PROVE  BuildsAt(n)
    <2>1. SolidOf(n, Solid)
      BY <1>1, SolidIs
    <2>2. CASE n.key = "val"
      <3>1. n.tests # <<>> /\ \A i \in DOMAIN n.tests : Supported(n.tests[i][1], n.tests[i][2])
        BY <2>1, <2>2 DEF SolidOf
      <3>2. \A a \in Asked : Clause[n][a] = FieldClause(n.tests, a)
        BY <2>2, ClauseIs DEF ClauseOf
      <3>3. ASSUME NEW a \in Asked
            PROVE  LET c == FieldClause(n.tests, a) IN c.ok /\ c.says \in {"yes", "no"}
        <4> DEFINE c == FieldClause(n.tests, a)
        <4>1. c.ok <=> \A i \in DOMAIN n.tests : Supported(n.tests[i][1], n.tests[i][2])
          BY DEF FieldClause
        <4>2. n.tests # <<>> => c.says \in {"yes", "no"}
          BY DEF FieldClause, Verdict
        <4> HIDE DEF c
        <4>3. c.ok /\ c.says \in {"yes", "no"}
          BY <3>1, <4>1, <4>2
        <4> QED
          BY <4>3 DEF c
      <3> QED
        BY <3>2, <3>3 DEF BuildsAt
    <2>3. CASE n.key # "val"
      <3>1. n.of # <<>> /\ \A k \in DOMAIN n.of : Solid[n.of[k]]
        BY <2>1, <2>3 DEF SolidOf
      <3>2. \A k \in 1..Len(n.of) : k \in DOMAIN n.of /\ n.of[k] \in T
        BY <1>1, <2>3, NodesAre
      <3>3. \A k \in 1..Len(n.of) : BuildsAt(n.of[k])
        BY <3>1, <3>2
      <3> QED
        BY <2>3, <3>1, <3>3, GroupBuilds
    <2> QED
      BY <2>2, <2>3
  <1>2. \A n \in Nodes : n \in T
    <2>1. \A n \in Nodes : (\A m \in Nodes : Depth[m] < Depth[n] => m \in T) => n \in T
      BY <1>1
    <2> HIDE DEF T
    <2> QED
      BY <2>1, NodeInduction
  <1>3. \A v \in Values : Asks(v, <<>>) \in Asked
    BY DEF Asks, Asked, Params
  <1> QED
    BY <1>2, <1>3 DEF BuildsAt, Buildable

\* What the in-memory backend selects, the filter means.
LEMMA PlainMeans ==
  ASSUME NEW f \in Nodes, f.key = "object", NEW row, row.val \in Values, PlainSelects(f, row)
  PROVE  Meaning(f, row)
  <1>1. f.of \in Seq(Nodes)
    BY NodesAre
  <1>2. ASSUME NEW k \in DOMAIN f.of
        PROVE  Means[f.of[k]][row.val]
    <2> DEFINE n == f.of[k]
    <2>1. /\ n \in Nodes /\ n.key = "val"
          /\ Len(n.tests) = 1 /\ n.tests[1][1] = "=" /\ n.tests[1][2] = [value |-> row.val]
      BY <1>1 DEF PlainSelects, Plain
    <2> HIDE DEF n
    <2>2. n.tests \in Seq(STRING \X Operands)
      BY <2>1, NodesAre
    <2>3. \A i \in DOMAIN n.tests : i = 1
      BY <2>1, <2>2
    <2>4. \A i \in DOMAIN n.tests : Compares(n.tests[i][1], row.val, n.tests[i][2])
      BY <2>1, <2>3 DEF Compares
    <2>5. Means[n][row.val] = MeansOf(n, Means)[row.val]
      BY <2>1, MeansIs
    <2>6. Means[n][row.val]
      BY <2>1, <2>4, <2>5 DEF MeansOf
    <2> QED
      BY <2>6 DEF n
  <1>3. Means[f][row.val] = MeansOf(f, Means)[row.val]
    BY MeansIs
  <1> QED
    BY <1>2, <1>3 DEF MeansOf, Meaning

-----------------------------------------------------------------------------
(* The invariant.                                                          *)

InTxPlaces == {"script", "record", "commit", "tx"}

\* What a client may hold: a record it will write back has a version.
Holds(s) ==
    /\ "pc" \in DOMAIN s
    /\ s.pc \in Places
    /\ s.pc = "held" => s.id \in Ids /\ s.row.ver \in Nat \ {0}
    /\ s.pc \in {"target", "push"} => s.edge \in Ids \X Ids

Counted(d) == \A i \in Ids : d.rows[i] # None /\ d.rows[i].ver > 0 => d.rows[i].ver = 1 + d.acks[i]

\* Tables are records of the parts the client has.
Tabled(d) ==
    d = [rows |-> d.rows, edges |-> d.edges, vectors |-> d.vectors, schema |-> d.schema,
         versions |-> d.versions, marks |-> d.marks, acks |-> d.acks, gone |-> d.gone]

Sane(d) == Tabled(d) /\ Typed(d) /\ Counted(d)

DataInv ==
    /\ Sane(db)
    /\ work # NoTx => /\ Sane(work.data)
                      /\ work = [data |-> work.data, doomed |-> work.doomed]

ControlInv ==
    /\ backend \in Backends
    /\ cut \in {"no", "own", "foreign"}
    /\ at = [c \in Clients |-> at[c]]
    /\ \A c \in Clients : Holds(at[c])
    /\ Memory => work = NoTx
    /\ OpenIsOwned

Inv == DataInv /\ ControlInv

LEMMA IdleHolds == Holds(Idle) /\ Idle.pc = "idle"
  BY DEF Holds, Idle, Places

LEMMA OneBackend ==
  ASSUME ControlInv
  PROVE  Surreal \/ Memory
  <1>1. Backends \subseteq {"surreal", "memory"}
    BY ClientAssumption, Zenon
  <1> QED
    BY <1>1 DEF ControlInv, Surreal, Memory

LEMMA InitInv == ClientInit => Inv
  <1> SUFFICES ASSUME ClientInit PROVE Inv
    OBVIOUS
  <1>1. PICK rows \in Tables : db = Fresh(rows)
    BY DEF ClientInit
  <1>2. Tabled(Fresh(rows))
    BY DEF Tabled, Fresh
  <1>3. rows \in [Ids -> Rows \cup {None}] /\ \A i \in Ids : rows[i] # None => rows[i].ver <= 1
    BY StorageAssumption, Zenon
  <1>4. Typed(Fresh(rows))
    BY <1>3 DEF Typed, Fresh
  <1>5. Counted(Fresh(rows))
    <2> SUFFICES ASSUME NEW i \in Ids, rows[i] # None, rows[i].ver > 0
                 PROVE  rows[i].ver = 1 + 0
      BY DEF Counted, Fresh
    <2>1. rows[i] \in Rows
      BY <1>3
    <2> QED
      BY <1>3, <2>1 DEF Rows
  <1>6. Sane(db)
    BY <1>1, <1>2, <1>4, <1>5 DEF Sane
  <1>7. ControlInv
    BY IdleHolds DEF ClientInit, ControlInv, OpenIsOwned
  <1> QED
    BY <1>6, <1>7 DEF Inv, DataInv, ClientInit

-----------------------------------------------------------------------------
(* Statements.                                                             *)

\* A statement of the shared client neither opens nor ends a transaction.
Stays == /\ UNCHANGED <<backend, cut>> 
         /\ work = NoTx => work' = NoTx

LEMMA SeenSane == DataInv => Sane(Seen)
  BY DEF DataInv, Seen

\* A part of the tables is replaced.
LEMMA PartSane ==
  ASSUME NEW t, Sane(t), NEW x
  PROVE  /\ Sane([t EXCEPT !.marks = x])
         /\ Sane([t EXCEPT !.schema = x])
         /\ Sane([t EXCEPT !.versions = x])
         /\ x \subseteq Ids \X Ids => Sane([t EXCEPT !.edges = x])
         /\ x \subseteq Ids => Sane([t EXCEPT !.vectors = x])
         /\ x \subseteq Ids => Sane([t EXCEPT !.gone = x])
  <1>1. t = [rows |-> t.rows, edges |-> t.edges, vectors |-> t.vectors, schema |-> t.schema,
             versions |-> t.versions, marks |-> t.marks, acks |-> t.acks, gone |-> t.gone]
    BY DEF Sane, Tabled
  <1>2. Typed(t) /\ Counted(t)
    BY DEF Sane
  <1>3. Sane([t EXCEPT !.marks = x])
    BY <1>1, <1>2 DEF Sane, Tabled, Typed, Counted
  <1>4. Sane([t EXCEPT !.schema = x])
    BY <1>1, <1>2 DEF Sane, Tabled, Typed, Counted
  <1>5. Sane([t EXCEPT !.versions = x])
    BY <1>1, <1>2 DEF Sane, Tabled, Typed, Counted
  <1>6. x \subseteq Ids \X Ids => Sane([t EXCEPT !.edges = x])
    BY <1>1, <1>2 DEF Sane, Tabled, Typed, Counted
  <1>7. x \subseteq Ids => Sane([t EXCEPT !.vectors = x])
    BY <1>1, <1>2 DEF Sane, Tabled, Typed, Counted
  <1>8. x \subseteq Ids => Sane([t EXCEPT !.gone = x])
    BY <1>1, <1>2 DEF Sane, Tabled, Typed, Counted
  <1> QED
    BY <1>3, <1>4, <1>5, <1>6, <1>7, <1>8

LEMMA PutsKeeps ==
  ASSUME DataInv, NEW d, Sane(d), Puts(d)
  PROVE  DataInv' /\ Stays
  <1>1. CASE Doomed
    BY <1>1 DEF Puts, client, DataInv, Stays, Sane, Tabled, Typed, Counted
  <1>2. CASE ~ Doomed /\ work = NoTx
    BY <1>2 DEF Puts, DataInv, Stays, Sane, Tabled, Typed, Counted
  <1>3. CASE ~ Doomed /\ work # NoTx
    <2>1. /\ work' = [work EXCEPT !.data = d] /\ db' = db
          /\ UNCHANGED <<backend, cut>>
      BY <1>3 DEF Puts
    <2>2. work' = [data |-> d, doomed |-> work.doomed]
      BY <1>3, <2>1 DEF DataInv
    <2> QED
      BY <1>3, <2>1, <2>2 DEF DataInv, Stays, Sane, Tabled, Typed, Counted
  <1> QED
    BY <1>1, <1>2, <1>3

LEMMA FailsKeeps ==
  ASSUME DataInv, Fails
  PROVE  DataInv' /\ Stays
  <1>1. CASE work = NoTx
    BY <1>1 DEF Fails, DataInv, Stays, Sane, Tabled, Typed, Counted
  <1>2. CASE work # NoTx
    <2>1. work' = [data |-> work.data, doomed |-> TRUE] /\ UNCHANGED <<db, backend, cut>>
      BY <1>2 DEF Fails, DataInv
    <2> QED
      BY <1>2, <2>1 DEF DataInv, Stays, Sane, Tabled, Typed, Counted
  <1> QED
    BY <1>1, <1>2

LEMMA ReadsKeeps ==
  ASSUME DataInv, UNCHANGED client
  PROVE  DataInv' /\ Stays
  BY DEF client, DataInv, Stays, Sane, Tabled, Typed, Counted

LEMMA OpensKeeps ==
  ASSUME DataInv, Opens
  PROVE  DataInv' /\ UNCHANGED <<backend, cut>>
  <1>1. CASE work = NoTx
    <2>1. work' = [data |-> db, doomed |-> FALSE] /\ UNCHANGED <<db, backend, cut>>
      BY <1>1 DEF Opens
    <2> QED
      BY <2>1 DEF DataInv, Sane, Tabled, Typed, Counted
  <1>2. CASE work # NoTx
    BY <1>2 DEF Opens, DataInv, Sane, Tabled, Typed, Counted
  <1> QED
    BY <1>1, <1>2

LEMMA ClosesKeeps ==
  ASSUME DataInv, NEW d, Sane(d), db' = d, work' = NoTx
  PROVE  DataInv'
  BY DEF DataInv, Sane, Tabled, Typed, Counted

-----------------------------------------------------------------------------
(* Where clients go.                                                       *)

\* A client that is in no transaction goes on, whatever it goes to.
LEMMA OutsideGoes ==
  ASSUME Inv, NEW c \in Clients, ~ InTx(c), NEW s, Holds(s), at' = [at EXCEPT ![c] = s],
         DataInv', Stays
  PROVE  Inv'
  <1>1. at' = [x \in Clients |-> at'[x]] /\ at'[c] = s
        /\ \A x \in Clients \ {c} : at'[x] = at[x]
    BY DEF Inv, ControlInv
  <1>2. \A x \in Clients : Holds(at'[x])
    BY <1>1 DEF Inv, ControlInv
  <1>3. Memory' => work' = NoTx
    BY DEF Inv, ControlInv, Memory, Stays
  <1>4. OpenIsOwned'
    <2> SUFFICES ASSUME work' # NoTx PROVE \E x \in Clients : InTx(x)'
      BY DEF OpenIsOwned
    <2>1. PICK x \in Clients : InTx(x)
      BY DEF Stays, Inv, ControlInv, OpenIsOwned
    <2>2. at'[x] = at[x]
      BY <1>1, <2>1
    <2> QED
      BY <2>1, <2>2 DEF InTx
  <1> QED
    BY <1>1, <1>2, <1>3, <1>4 DEF Inv, ControlInv, Stays

\* A client begins or goes on with a transaction.
LEMMA InsideGoes ==
  ASSUME Inv, NEW c \in Clients, NEW s, Holds(s), s.pc \in InTxPlaces,
         at' = [at EXCEPT ![c] = s], DataInv', UNCHANGED <<backend, cut>>,
         Memory => work' = NoTx
  PROVE  Inv'
  <1>1. at' = [x \in Clients |-> at'[x]] /\ at'[c] = s
        /\ \A x \in Clients \ {c} : at'[x] = at[x]
    BY DEF Inv, ControlInv
  <1>2. \A x \in Clients : Holds(at'[x])
    BY <1>1 DEF Inv, ControlInv
  <1>3. OpenIsOwned'
    BY <1>1 DEF OpenIsOwned, InTx, InTxPlaces
  <1> QED
    BY <1>1, <1>2, <1>3 DEF Inv, ControlInv, Memory

\* The same by a statement of its own.
LEMMA InsideStays ==
  ASSUME Inv, NEW c \in Clients, NEW s, Holds(s), s.pc \in InTxPlaces,
         at' = [at EXCEPT ![c] = s], DataInv', Stays
  PROVE  Inv'
  BY InsideGoes DEF Stays, Inv, ControlInv

\* No transaction is open any more.
LEMMA ClosedGoes ==
  ASSUME Inv, NEW c \in Clients, NEW s, Holds(s), at' = [at EXCEPT ![c] = s],
         DataInv', backend' = backend, cut' \in {"no", "own", "foreign"}, work' = NoTx
  PROVE  Inv'
  <1>1. at' = [x \in Clients |-> at'[x]] /\ at'[c] = s
        /\ \A x \in Clients \ {c} : at'[x] = at[x]
    BY DEF Inv, ControlInv
  <1>2. \A x \in Clients : Holds(at'[x])
    BY <1>1 DEF Inv, ControlInv
  <1> QED
    BY <1>1, <1>2 DEF Inv, ControlInv, OpenIsOwned, Memory

LEMMA IdleIsOutside ==
  ASSUME NEW c, at[c] = Idle
  PROVE  ~ InTx(c)
  BY DEF InTx, Idle

-----------------------------------------------------------------------------
(* Transactions and migrations.                                            *)

LEMMA TxInv ==
  ASSUME Inv, NEW c \in Clients, TxBegin(c) \/ TxExecute(c) \/ TxCommit(c) \/ TxRollback(c)
  PROVE  Inv'
  <1> USE DEF Inv
  <1>1. CASE TxBegin(c)
    <2> DEFINE s == [pc |-> "tx", done |-> 0]
    <2>1. Holds(s) /\ s.pc \in InTxPlaces /\ at' = [at EXCEPT ![c] = s]
      BY <1>1 DEF TxBegin, Goes, Holds, Places, InTxPlaces
    <2>2. DataInv' /\ UNCHANGED <<backend, cut>>
      BY <1>1, OpensKeeps, ReadsKeeps DEF TxBegin, Stays
    <2>3. Memory => work' = NoTx
      BY <1>1 DEF TxBegin, Surreal, Memory, ControlInv, client
    <2> QED
      BY <2>1, <2>2, <2>3, InsideGoes
  <1>2. CASE TxExecute(c)
    <2>1. at[c].pc = "tx" /\ Holds(at[c])
      BY <1>2 DEF TxExecute, ControlInv
    <2>2. CASE Surreal
      <3> DEFINE s == [at[c] EXCEPT !.done = @ + 1]
                 d == [Seen EXCEPT !.marks = @ \cup {<<c, left[c], at[c].done + 1>>}]
      <3>1. Puts(d) /\ at' = [at EXCEPT ![c] = s]
        BY <1>2, <2>2 DEF TxExecute, Goes
      <3>2. Holds(s) /\ s.pc \in InTxPlaces
        BY <2>1 DEF Holds, Places, InTxPlaces
      <3>3. Sane(d)
        BY SeenSane, PartSane
      <3> HIDE DEF d, s
      <3>4. DataInv' /\ Stays
        BY <3>1, <3>3, PutsKeeps
      <3> QED
        BY <2>2, <3>1, <3>2, <3>4, InsideGoes DEF Stays, Surreal, Memory, ControlInv
    <2>3. CASE ~ Surreal
      <3>1. UNCHANGED client /\ at' = [at EXCEPT ![c] = Idle]
        BY <1>2, <2>3 DEF TxExecute, Goes
      <3>2. work = NoTx
        BY <2>3, OneBackend DEF ControlInv
      <3> QED
        BY <3>1, <3>2, ReadsKeeps, ClosedGoes, IdleHolds DEF client, ControlInv
    <2> QED
      BY <2>2, <2>3
  <1>3. CASE TxCommit(c) \/ TxRollback(c)
    <2>1. at' = [at EXCEPT ![c] = Idle]
      BY <1>3 DEF TxCommit, TxRollback, Goes
    <2>2. CASE Surreal
      <3>1. \E d : Sane(d) /\ db' = d /\ work' = NoTx /\ UNCHANGED <<backend, cut>>
        BY <1>3, <2>2 DEF TxCommit, TxRollback, Commits, Cancels, Closes, DataInv
      <3> QED
        BY <2>1, <3>1, ClosesKeeps, ClosedGoes, IdleHolds DEF ControlInv
    <2>3. CASE ~ Surreal
      <3>1. UNCHANGED client
        BY <1>3, <2>3 DEF TxCommit, TxRollback
      <3>2. work = NoTx
        BY <2>3, OneBackend DEF ControlInv
      <3> QED
        BY <2>1, <3>1, <3>2, ReadsKeeps, ClosedGoes, IdleHolds DEF client, ControlInv
    <2> QED
      BY <2>2, <2>3
  <1> QED
    BY <1>1, <1>2, <1>3

LEMMA MigrateInv ==
  ASSUME Inv, NEW c \in Clients,
         Migrate(c) \/ RunScript(c) \/ RunBroken(c) \/ Record(c) \/ MigrateCommit(c) \/ MigrateMemory(c)
  PROVE  Inv'
  <1> USE DEF Inv
  <1>1. CASE Migrate(c)
    <2>1. PICK dir \in {"up", "down"} : \E list \in Lists(dir) :
            IF list = <<>> THEN UNCHANGED <<client, stay>> /\ Goes(c, Idle)
            ELSE Opens /\ Goes(c, [pc |-> "script", dir |-> dir, todo |-> list])
      BY <1>1 DEF Migrate
    <2>2. PICK list \in Lists(dir) :
            IF list = <<>> THEN UNCHANGED <<client, stay>> /\ Goes(c, Idle)
            ELSE Opens /\ Goes(c, [pc |-> "script", dir |-> dir, todo |-> list])
      BY <2>1
    <2>3. ~ InTx(c) /\ Surreal
      BY <1>1, IdleIsOutside DEF Migrate, MayOpen
    <2>4. CASE list = <<>>
      BY <2>2, <2>3, <2>4, ReadsKeeps, OutsideGoes, IdleHolds DEF Goes
    <2>5. CASE list # <<>>
      <3> DEFINE s == [pc |-> "script", dir |-> dir, todo |-> list]
      <3>1. Opens /\ at' = [at EXCEPT ![c] = s]
        BY <2>2, <2>5 DEF Goes
      <3>2. Holds(s) /\ s.pc \in InTxPlaces
        BY DEF Holds, Places, InTxPlaces
      <3> QED
        BY <2>3, <3>1, <3>2, OpensKeeps, InsideGoes DEF Surreal, Memory
    <2> QED
      BY <2>4, <2>5
  <1>2. CASE RunScript(c)
    <2> DEFINE s == [at[c] EXCEPT !.pc = "record"]
               t == Head(at[c].todo)
               run == IF at[c].dir = "up" THEN Seen.schema \cup {t} ELSE Seen.schema \ {t}
               d == [Seen EXCEPT !.schema = run]
    <2>1. Holds(s) /\ s.pc \in InTxPlaces
      BY DEF ControlInv, Holds, Places, InTxPlaces
    <2>2. at' = [at EXCEPT ![c] = s] /\ (Fails \/ Puts(d))
      BY <1>2 DEF RunScript, Goes
    <2>3. Sane(d)
      BY SeenSane, PartSane
    <2> HIDE DEF s, d
    <2>4. DataInv' /\ Stays
      BY <2>2, <2>3, PutsKeeps, FailsKeeps
    <2> QED
      BY <2>1, <2>2, <2>4, InsideStays
  <1>3. CASE RunBroken(c) \/ MigrateCommit(c)
    <2>1. at' = [at EXCEPT ![c] = Idle]
      BY <1>3 DEF RunBroken, MigrateCommit, Goes
    <2>2. \E d : Sane(d) /\ db' = d /\ work' = NoTx /\ UNCHANGED <<backend, cut>>
      BY <1>3 DEF RunBroken, MigrateCommit, Commits, Cancels, Closes, DataInv
    <2> QED
      BY <2>1, <2>2, ClosesKeeps, ClosedGoes, IdleHolds DEF ControlInv
  <1>4. CASE Record(c)
    <2> DEFINE s == IF Len(at[c].todo) = 1 THEN [pc |-> "commit"]
                    ELSE [at[c] EXCEPT !.pc = "script", !.todo = Tail(@)]
               t == Head(at[c].todo)
               told == IF at[c].dir = "up" THEN Append(Seen.versions, t)
                       ELSE RemoveFirst(Seen.versions, t)
               d == [Seen EXCEPT !.versions = told]
    <2>1. Holds(s) /\ s.pc \in InTxPlaces
      BY DEF ControlInv, Holds, Places, InTxPlaces
    <2>2. at' = [at EXCEPT ![c] = s] /\ (Fails \/ Puts(d))
      BY <1>4 DEF Record, Goes
    <2>3. Sane(d)
      BY SeenSane, PartSane
    <2> HIDE DEF s, d
    <2>4. DataInv' /\ Stays
      BY <2>2, <2>3, PutsKeeps, FailsKeeps
    <2> QED
      BY <2>1, <2>2, <2>4, InsideStays
  <1>5. CASE MigrateMemory(c)
    <2>1. PICK x : db' = [db EXCEPT !.versions = x]
      BY <1>5 DEF MigrateMemory
    <2>2. work = NoTx /\ UNCHANGED <<backend, work, cut>> /\ at' = [at EXCEPT ![c] = Idle]
      BY <1>5 DEF MigrateMemory, Goes, ControlInv
    <2>3. Sane(db')
      BY <2>1, PartSane DEF DataInv
    <2>4. DataInv'
      BY <2>2, <2>3, ClosesKeeps
    <2> QED
      BY <2>2, <2>4, ClosedGoes, IdleHolds DEF ControlInv
  <1> QED
    BY <1>1, <1>2, <1>3, <1>4, <1>5

LEMMA LoseInv ==
  ASSUME Inv, NEW c \in Clients, Lose(c)
  PROVE  Inv'
  <1>1. \E d : Sane(d) /\ db' = d /\ work' = NoTx
    BY DEF Lose, Inv, DataInv
  <1>2. DataInv' /\ work' = NoTx
    BY <1>1, ClosesKeeps DEF Inv
  <1>3. /\ at' = [at EXCEPT ![c] = Idle] /\ backend' = backend
        /\ cut' \in {"no", "own", "foreign"}
    BY DEF Lose, Goes
  <1> QED
    BY <1>2, <1>3, ClosedGoes, IdleHolds

-----------------------------------------------------------------------------
(* Records.                                                                *)

\* One record is replaced, and with it its count.
LEMMA RowSane ==
  ASSUME DataInv, NEW i \in Ids, NEW row, row \in Rows \cup {None}
  PROVE  /\ (row # None /\ row.ver > 0 => row.ver = 1 + Seen.acks[i]) => Sane(With(i, row))
         /\ \A n \in Nat : (row # None /\ row.ver > 0 => row.ver = 1 + n) =>
               Sane([With(i, row) EXCEPT !.acks = [@ EXCEPT ![i] = n]])
  <1>1. Sane(Seen)
    BY SeenSane
  <1>2. Seen = [rows |-> Seen.rows, edges |-> Seen.edges, vectors |-> Seen.vectors,
                schema |-> Seen.schema, versions |-> Seen.versions, marks |-> Seen.marks,
                acks |-> Seen.acks, gone |-> Seen.gone]
    BY <1>1 DEF Sane, Tabled
  <1>3. Typed(Seen) /\ Counted(Seen)
    BY <1>1 DEF Sane
  <1> DEFINE rows == [Seen.rows EXCEPT ![i] = row]
  <1>4. rows \in [Ids -> Rows \cup {None}] /\ rows[i] = row
        /\ \A j \in Ids \ {i} : rows[j] = Seen.rows[j]
    BY <1>3 DEF Typed
  <1>5. With(i, row) = [rows |-> rows, edges |-> Seen.edges, vectors |-> Seen.vectors,
                        schema |-> Seen.schema, versions |-> Seen.versions,
                        marks |-> Seen.marks, acks |-> Seen.acks, gone |-> Seen.gone]
    BY <1>2 DEF With
  <1>6. ASSUME row # None /\ row.ver > 0 => row.ver = 1 + Seen.acks[i]
        PROVE  Sane(With(i, row))
    <2> HIDE DEF rows
    <2> QED
      BY <1>3, <1>4, <1>5, <1>6 DEF Sane, Tabled, Typed, Counted
  <1>7. ASSUME NEW n \in Nat, row # None /\ row.ver > 0 => row.ver = 1 + n
        PROVE  Sane([With(i, row) EXCEPT !.acks = [@ EXCEPT ![i] = n]])
    <2> DEFINE acks == [Seen.acks EXCEPT ![i] = n]
    <2>1. acks \in [Ids -> Nat] /\ acks[i] = n /\ \A j \in Ids \ {i} : acks[j] = Seen.acks[j]
      BY <1>3 DEF Typed
    <2>2. [With(i, row) EXCEPT !.acks = [@ EXCEPT ![i] = n]]
          = [rows |-> rows, edges |-> Seen.edges, vectors |-> Seen.vectors,
             schema |-> Seen.schema, versions |-> Seen.versions,
             marks |-> Seen.marks, acks |-> acks, gone |-> Seen.gone]
      BY <1>5
    <2> DEFINE d == [rows |-> rows, edges |-> Seen.edges, vectors |-> Seen.vectors,
                     schema |-> Seen.schema, versions |-> Seen.versions,
                     marks |-> Seen.marks, acks |-> acks, gone |-> Seen.gone]
    <2> HIDE DEF rows, acks
    <2>3. Tabled(d) /\ d.rows = rows /\ d.acks = acks
      BY DEF Tabled
    <2>4. Typed(d)
      BY <1>3, <1>4, <2>1 DEF Typed
    <2>5. Counted(d)
      <3> HIDE DEF d
      <3> SUFFICES ASSUME NEW j \in Ids, rows[j] # None, rows[j].ver > 0
                   PROVE  rows[j].ver = 1 + acks[j]
        BY <2>3 DEF Counted
      <3>1. CASE j = i
        BY <1>4, <1>7, <2>1, <3>1
      <3>2. CASE j # i
        BY <1>3, <1>4, <2>1, <3>2 DEF Counted
      <3> QED
        BY <3>1, <3>2
    <2> QED
      BY <2>2, <2>3, <2>4, <2>5 DEF Sane
  <1> QED
    BY <1>6, <1>7

LEMMA SeenRows ==
  ASSUME DataInv, NEW i \in Ids, Exists(i)
  PROVE  /\ Seen.rows[i] \in Rows
         /\ Seen.rows[i].ver \in Nat /\ Seen.rows[i].vec \in BOOLEAN
         /\ Seen.rows[i] = [ver |-> Seen.rows[i].ver, val |-> Seen.rows[i].val,
                            vec |-> Seen.rows[i].vec]
         /\ Seen.rows[i].ver > 0 => Seen.rows[i].ver = 1 + Seen.acks[i]
         /\ Seen.acks[i] \in Nat
  <1>1. Typed(Seen) /\ Counted(Seen)
    BY SeenSane DEF Sane
  <1>2. Seen.rows[i] \in Rows
    BY <1>1 DEF Typed, Exists
  <1> QED
    BY <1>1, <1>2 DEF Typed, Counted, Exists, Rows

\* An update of the version that was read is counted.
LEMMA UpdateSane ==
  ASSUME DataInv, NEW i \in Ids, NEW v \in Values, NEW ver \in Nat \ {0},
         Exists(i), Seen.rows[i].ver = ver
  PROVE  Sane(Updated(i, ver + 1, v))
  <1> DEFINE old == Seen.rows[i]
             row == [old EXCEPT !.ver = ver + 1, !.val = v]
             n == Seen.acks[i] + 1
  <1>1. /\ old \in Rows
        /\ old.ver > 0 => old.ver = 1 + Seen.acks[i]
        /\ Seen.acks[i] \in Nat
    BY SeenRows
  <1>2. n \in Nat /\ ver + 1 = 1 + n
    BY <1>1
  <1> HIDE DEF old, n
  <1>3. [old EXCEPT !.ver = ver + 1] \in Rows /\ [old EXCEPT !.ver = ver + 1].ver = ver + 1
    BY <1>1 DEF Rows
  <1>4. row \in Rows /\ row.ver = 1 + n
    BY <1>2, <1>3 DEF Rows
  <1> HIDE DEF row
  <1>5. Sane([With(i, row) EXCEPT !.acks = [@ EXCEPT ![i] = n]])
    BY <1>2, <1>4, RowSane
  <1> QED
    BY <1>5 DEF Updated, row, old, n

\* A call outside transactions that ends with what its statement left.
LEMMA OutsideEnds ==
  ASSUME Inv, NEW c \in Clients, ~ InTx(c), at' = [at EXCEPT ![c] = Idle], DataInv', Stays
  PROVE  Inv'
  BY OutsideGoes, IdleHolds

LEMMA WriteInv ==
  ASSUME Inv, NEW c \in Clients, Write(c)
  PROVE  Inv'
  <1> USE DEF Inv
  <1>0. ~ InTx(c) /\ Holds(at[c])
    BY IdleIsOutside DEF Write, SurrealCreate, MemoryCreate, SurrealUpsert, MemoryUpsert,
       Get, Delete, Update, Free, InTx, ControlInv
  <1>1. ASSUME NEW i \in Ids, SurrealCreate(c, i) \/ MemoryCreate(c, i)
        PROVE  Inv'
    <2>1. PICK v \in Values : Fails \/ Reads \/ Puts(Created(i, Row(1, v)))
      BY <1>1 DEF SurrealCreate, MemoryCreate
    <2>2. Row(1, v) \in Rows /\ Row(1, v).ver = 1
      BY DEF Row, Rows
    <2>3. Sane(Created(i, Row(1, v)))
      <3> HIDE DEF Inv
      <3>1. DataInv /\ Row(1, v).ver = 1 + 0 /\ 0 \in Nat
        BY <2>2 DEF Inv
      <3>2. Sane([With(i, Row(1, v)) EXCEPT !.acks = [@ EXCEPT ![i] = 0]])
        BY <2>2, <3>1, RowSane
      <3> QED
        BY <3>2 DEF Created
    <2>4. DataInv' /\ Stays
      BY <2>1, <2>3, PutsKeeps, FailsKeeps, ReadsKeeps DEF Reads
    <2> QED
      BY <1>0, <1>1, <2>4, OutsideEnds DEF SurrealCreate, MemoryCreate, Goes
  <1>2. ASSUME NEW i \in Ids, Get(c, i)
        PROVE  Inv'
    <2>1. DataInv' /\ Stays
      BY <1>2, ReadsKeeps DEF Get, Reads
    <2>2. CASE ~Doomed /\ Exists(i) /\ Seen.rows[i].ver > 0
      <3> DEFINE s == [pc |-> "held", id |-> i, row |-> Seen.rows[i]]
      <3>0. Seen.rows[i].ver \in Nat \ {0}
        <4>1. Seen.rows[i].ver \in Nat
          BY <2>2, SeenRows, Zenon
        <4> QED
          BY <2>2, <4>1
      <3>1. Holds(s)
        BY <3>0, s.pc = "held", s.id = i, s.row = Seen.rows[i], DOMAIN s = {"pc", "id", "row"}
        DEF Holds, Places
      <3>2. at' = [at EXCEPT ![c] = s]
        BY <1>2, <2>2 DEF Get, Goes
      <3> QED
        BY <1>0, <2>1, <3>1, <3>2, OutsideGoes
    <2>3. CASE ~ (~Doomed /\ Exists(i) /\ Seen.rows[i].ver > 0)
      BY <1>0, <1>2, <2>1, <2>3, OutsideEnds DEF Get, Goes
    <2> QED
      BY <2>2, <2>3
  <1>3. ASSUME NEW i \in Ids, SurrealUpsert(c, i) \/ MemoryUpsert(c, i)
        PROVE  Inv'
    <2>1. PICK v \in Values : \/ Reads
                              \/ Exists(i) /\ Puts(Patched(i, v))
                              \/ Puts(Created(i, Row(0, v)))
      BY <1>3 DEF SurrealUpsert, MemoryUpsert
    <2>2. Row(0, v) \in Rows /\ Row(0, v).ver = 0
      BY DEF Row, Rows
    <2>3. Sane(Created(i, Row(0, v)))
      <3> HIDE DEF Inv
      <3>1. DataInv /\ ~ (Row(0, v).ver > 0)
        BY <2>2 DEF Inv
      <3>2. \A n \in Nat : Sane([With(i, Row(0, v)) EXCEPT !.acks = [@ EXCEPT ![i] = n]])
        BY <2>2, <3>1, RowSane
      <3> QED
        BY <3>2 DEF Created
    <2>4. Exists(i) => Sane(Patched(i, v))
      <3> SUFFICES ASSUME Exists(i) PROVE Sane(Patched(i, v))
        OBVIOUS
      <3> DEFINE row == [Seen.rows[i] EXCEPT !.val = v]
      <3>1. row \in Rows /\ row.ver = Seen.rows[i].ver
        BY SeenRows DEF Rows
      <3> QED
        BY <3>1, SeenRows, RowSane DEF Patched
    <2>5. DataInv' /\ Stays
      BY <2>1, <2>3, <2>4, PutsKeeps, ReadsKeeps DEF Reads
    <2> QED
      BY <1>0, <1>3, <2>5, OutsideEnds DEF SurrealUpsert, MemoryUpsert, Goes
  <1>4. ASSUME NEW i \in Ids, Delete(c, i)
        PROVE  Inv'
    <2>1. Sane(With(i, None))
      BY RowSane
    <2> DEFINE x == With(i, None).gone \cup {i}
    <2>2. x \subseteq Ids
      BY <2>1 DEF Sane, Typed
    <2>3. Sane([With(i, None) EXCEPT !.gone = x])
      BY <2>1, <2>2, PartSane
    <2>4. DataInv' /\ Stays
      BY <1>4, <2>3, PutsKeeps, ReadsKeeps DEF Delete, Reads
    <2> QED
      BY <1>0, <1>4, <2>4, OutsideEnds DEF Delete, Goes
  <1>5. CASE Update(c)
    <2> DEFINE i == at[c].id
    <2>1. i \in Ids /\ at[c].row.ver \in Nat \ {0}
      BY <1>0, <1>5 DEF Update, Holds
    <2>2. PICK v \in Values :
            \/ Reads
            \/ /\ Exists(i) /\ Seen.rows[i].ver = at[c].row.ver
               /\ Puts(Updated(i, at[c].row.ver + 1, v))
      BY <1>5 DEF Update
    <2>3. Exists(i) /\ Seen.rows[i].ver = at[c].row.ver => Sane(Updated(i, at[c].row.ver + 1, v))
      <3> HIDE DEF i
      <3> QED
        BY <2>1, UpdateSane
    <2>4. DataInv' /\ Stays
      BY <2>2, <2>3, PutsKeeps, ReadsKeeps DEF Reads
    <2> QED
      BY <1>0, <1>5, <2>4, OutsideEnds DEF Update, Goes
  <1> QED
    BY <1>1, <1>2, <1>3, <1>4, <1>5 DEF Write

-----------------------------------------------------------------------------
(* Reads, graph and vector index.                                          *)

BarePlaces == Places \ {"held", "target", "push"}

\* A call outside transactions goes on, with nothing it has to be held to.
LEMMA BareGoes ==
  ASSUME Inv, NEW c \in Clients, ~ InTx(c), UNCHANGED client,
         NEW s, "pc" \in DOMAIN s, s.pc \in BarePlaces, Goes(c, s)
  PROVE  Inv'
  <1>1. Holds(s)
    BY DEF Holds, BarePlaces
  <1>2. DataInv' /\ Stays
    BY ReadsKeeps DEF Inv
  <1> QED
    BY <1>1, <1>2, OutsideGoes DEF Goes

LEMMA ReadInv ==
  ASSUME Inv, NEW c \in Clients,
         ScanStart(c) \/ Search(c) \/ SurrealSelect(c) \/ MemorySelect(c) \/ Return(c)
  PROVE  Inv'
  <1>1. ~ InTx(c) /\ Holds(at[c]) /\ UNCHANGED client
    BY IdleIsOutside DEF ScanStart, Search, SurrealSelect, MemorySelect, Return, Free, Reads,
       InTx, Inv, ControlInv
  <1>2. CASE ScanStart(c)
    <2>1. PICK f \in Filters, sort \in Sorts, limit \in Limits :
            Goes(c, [pc |-> "scan", filter |-> f, sort |-> sort, limit |-> limit,
                     cursor |-> 0, found |-> {}, again |-> FALSE, page |-> {}])
      BY <1>2 DEF ScanStart
    <2> DEFINE s == [pc |-> "scan", filter |-> f, sort |-> sort, limit |-> limit,
                     cursor |-> 0, found |-> {}, again |-> FALSE, page |-> {}]
    <2>2. "pc" \in DOMAIN s /\ s.pc \in BarePlaces
      BY DEF BarePlaces, Places
    <2> HIDE DEF s
    <2> QED
      BY <1>1, <2>1, <2>2, BareGoes DEF s
  <1>3. CASE Search(c)
    <2> DEFINE t(f, limit, page) ==
                 IF Doomed \/ Undecodable(page) THEN [pc |-> "failed"]
                 ELSE [pc |-> "read", filter |-> f, sort |-> "score", limit |-> limit,
                       found |-> Range(page), page |-> RowsOf(page)]
    <2>1. \E f, limit, page : Goes(c, t(f, limit, page))
      BY <1>3 DEF Search
    <2>2. ASSUME NEW f, NEW limit, NEW page
          PROVE  "pc" \in DOMAIN t(f, limit, page) /\ t(f, limit, page).pc \in BarePlaces
      BY DEF BarePlaces, Places
    <2> HIDE DEF t
    <2> QED
      BY <1>1, <2>1, <2>2, BareGoes
  <1>4. ASSUME NEW page, NEW next, Reading(c, page, next)
        PROVE  Inv'
    <2> DEFINE s == IF Undecodable(page) THEN [at[c] EXCEPT !.pc = "failed"]
                    ELSE [at[c] EXCEPT !.pc = IF next = 0 THEN "read" ELSE "scan",
                                       !.cursor = next, !.found = @ \cup Range(page),
                                       !.again = @ \/ at[c].found \cap Range(page) # {},
                                       !.page = RowsOf(page)]
    <2>1. "pc" \in DOMAIN s /\ s.pc \in BarePlaces
      BY <1>1 DEF Holds, BarePlaces, Places
    <2>2. Goes(c, s)
      BY <1>4 DEF Reading
    <2> HIDE DEF s
    <2> QED
      BY <1>1, <2>1, <2>2, BareGoes
  <1>5. CASE SurrealSelect(c)
    <2>1. Goes(c, [at[c] EXCEPT !.pc = "failed"]) \/ \E page, next : Reading(c, page, next)
      BY <1>5 DEF SurrealSelect
    <2> DEFINE s == [at[c] EXCEPT !.pc = "failed"]
    <2>2. "pc" \in DOMAIN s /\ s.pc \in BarePlaces
      BY <1>1 DEF Holds, BarePlaces, Places
    <2> HIDE DEF s
    <2>3. CASE Goes(c, s)
      BY <1>1, <2>2, <2>3, BareGoes
    <2> QED
      BY <1>4, <2>1, <2>3 DEF s
  <1>6. CASE MemorySelect(c)
    <2>1. \E page, next : Reading(c, page, next)
      BY <1>6 DEF MemorySelect
    <2> QED
      BY <1>4, <2>1
  <1>7. CASE Return(c)
    BY <1>1, <1>7, BareGoes DEF Return, Idle, BarePlaces, Places
  <1> QED
    BY <1>2, <1>3, <1>5, <1>6, <1>7

LEMMA GraphInv ==
  ASSUME Inv, NEW c \in Clients, Graph(c)
  PROVE  Inv'
  <1> USE DEF Inv
  <1>0. ~ InTx(c) /\ Holds(at[c])
    BY IdleIsOutside DEF Graph, SurrealRelate, Source, MemoryWalk, Target, PushEdge, SurrealWalk,
       Fetch, Free, InTx, ControlInv
  <1>1. ASSUME NEW i \in Ids, NEW j \in Ids, SurrealRelate(c, i, j)
        PROVE  Inv'
    <2> DEFINE x == Seen.edges \cup {<<i, j>>}
    <2>1. x \subseteq Ids \X Ids
      BY SeenSane DEF Sane, Typed
    <2>2. Sane([Seen EXCEPT !.edges = x])
      BY <2>1, SeenSane, PartSane
    <2> HIDE DEF x
    <2>3. Puts([Seen EXCEPT !.edges = x]) /\ at' = [at EXCEPT ![c] = Idle]
      BY <1>1 DEF SurrealRelate, Goes, x
    <2> QED
      BY <1>0, <2>2, <2>3, PutsKeeps, OutsideEnds
  <1>2. ASSUME NEW s, "pc" \in DOMAIN s, s.pc \in {"target", "push"}, s.edge \in Ids \X Ids,
               Reads, Goes(c, s)
        PROVE  Inv'
    <2>1. Holds(s)
      BY <1>2 DEF Holds, Places
    <2>2. DataInv' /\ Stays
      BY <1>2, ReadsKeeps DEF Reads
    <2> QED
      BY <1>0, <1>2, <2>1, <2>2, OutsideGoes DEF Goes
  <1>3. ASSUME Reads, Goes(c, Idle)
        PROVE  Inv'
    BY <1>0, <1>3, BareGoes DEF Reads, Idle, BarePlaces, Places
  <1>4. ASSUME NEW i \in Ids, NEW j \in Ids, Source(c, i, j)
        PROVE  Inv'
    <2> DEFINE s == [pc |-> "target", edge |-> <<i, j>>]
    <2>1. Reads /\ (Goes(c, s) \/ Goes(c, Idle))
      BY <1>4 DEF Source
    <2>2. "pc" \in DOMAIN s /\ s.pc \in {"target", "push"} /\ s.edge \in Ids \X Ids
      OBVIOUS
    <2> HIDE DEF s
    <2> QED
      BY <1>2, <1>3, <2>1, <2>2
  <1>5. CASE Target(c)
    <2> DEFINE s == [at[c] EXCEPT !.pc = "push"]
    <2>1. Reads /\ (Goes(c, s) \/ Goes(c, Idle))
      BY <1>5 DEF Target
    <2>2. "pc" \in DOMAIN s /\ s.pc \in {"target", "push"} /\ s.edge \in Ids \X Ids
      BY <1>0, <1>5 DEF Target, Holds
    <2> HIDE DEF s
    <2> QED
      BY <1>2, <1>3, <2>1, <2>2
  <1>6. CASE PushEdge(c)
    <2> DEFINE x == Seen.edges \cup {at[c].edge}
    <2>1. x \subseteq Ids \X Ids
      BY <1>0, <1>6, SeenSane DEF PushEdge, Holds, Sane, Typed
    <2>2. Sane([Seen EXCEPT !.edges = x])
      BY <2>1, SeenSane, PartSane
    <2> HIDE DEF x
    <2>3. Puts([Seen EXCEPT !.edges = x]) /\ at' = [at EXCEPT ![c] = Idle]
      BY <1>6 DEF PushEdge, Goes, x
    <2> QED
      BY <1>0, <2>2, <2>3, PutsKeeps, OutsideEnds
  <1>7. ASSUME NEW i \in Ids, MemoryWalk(c, i)
        PROVE  Inv'
    <2>1. PICK dir \in {"out", "in"}, limit \in Limits :
            Goes(c, [pc |-> "walk", todo |-> Neighbours(i, dir), limit |-> limit])
      BY <1>7 DEF MemoryWalk
    <2> DEFINE s == [pc |-> "walk", todo |-> Neighbours(i, dir), limit |-> limit]
    <2>2. "pc" \in DOMAIN s /\ s.pc \in BarePlaces
      BY DEF BarePlaces, Places
    <2>3. UNCHANGED client
      BY <1>7 DEF MemoryWalk, Reads
    <2> HIDE DEF s
    <2> QED
      BY <1>0, <2>1, <2>2, <2>3, BareGoes DEF s
  <1>8. CASE SurrealWalk(c)
    BY <1>3, <1>8 DEF SurrealWalk
  <1>9. CASE Fetch(c)
    <2>1. Reads /\ (Goes(c, Idle) \/ \E i : Goes(c, [at[c] EXCEPT !.todo = @ \ {i}, !.limit = @ - 1]))
      BY <1>9 DEF Fetch
    <2>2. ASSUME NEW i, Goes(c, [at[c] EXCEPT !.todo = @ \ {i}, !.limit = @ - 1])
          PROVE  Inv'
      <3> DEFINE s == [at[c] EXCEPT !.todo = @ \ {i}, !.limit = @ - 1]
      <3>1. "pc" \in DOMAIN s /\ s.pc \in BarePlaces
        BY <1>0, <1>9 DEF Fetch, Holds, BarePlaces, Places
      <3>2. Goes(c, s) /\ UNCHANGED client
        BY <2>1, <2>2 DEF Reads
      <3> HIDE DEF s
      <3> QED
        BY <1>0, <3>1, <3>2, BareGoes
    <2> QED
      BY <1>3, <2>1, <2>2
  <1> QED
    BY <1>1, <1>4, <1>5, <1>6, <1>7, <1>8, <1>9 DEF Graph

LEMMA IndexInv ==
  ASSUME Inv, NEW c \in Clients, Index(c)
  PROVE  Inv'
  <1> USE DEF Inv
  <1>0. ~ InTx(c) /\ Holds(at[c])
    BY IdleIsOutside DEF Index, SurrealUpsertVec, SurrealRemoveVec, SurrealSetVec, MemoryUpsertVec,
       MemoryRemoveVec, Nearest, SurrealGetNear, MemoryGetNear, Free, InTx, ControlInv
  <1>1. ASSUME NEW i \in Ids, NEW b \in BOOLEAN, SurrealSetVec(c, i, b)
        PROVE  Inv'
    <2>1. Exists(i) => Sane(SetVec(i, b))
      <3> SUFFICES ASSUME Exists(i) PROVE Sane(SetVec(i, b))
        OBVIOUS
      <3> DEFINE row == [Seen.rows[i] EXCEPT !.vec = b]
      <3>1. row \in Rows /\ row.ver = Seen.rows[i].ver
        BY SeenRows DEF Rows
      <3> QED
        BY <3>1, SeenRows, RowSane DEF SetVec
    <2>2. DataInv' /\ Stays
      BY <1>1, <2>1, PutsKeeps, ReadsKeeps DEF SurrealSetVec, Reads
    <2> QED
      BY <1>0, <1>1, <2>2, OutsideEnds DEF SurrealSetVec, Goes
  <1>2. ASSUME NEW i \in Ids, MemoryUpsertVec(c, i) \/ MemoryRemoveVec(c, i)
        PROVE  Inv'
    <2>1. PICK x \in SUBSET Ids : Puts([Seen EXCEPT !.vectors = x])
      <3>1. Seen.vectors \subseteq Ids
        BY SeenSane DEF Sane, Typed
      <3>2. CASE MemoryUpsertVec(c, i)
        BY <3>1, <3>2 DEF MemoryUpsertVec
      <3>3. CASE MemoryRemoveVec(c, i)
        BY <3>1, <3>3 DEF MemoryRemoveVec
      <3> QED
        BY <1>2, <3>2, <3>3
    <2>2. Sane([Seen EXCEPT !.vectors = x])
      BY <2>1, SeenSane, PartSane
    <2> QED
      BY <1>0, <1>2, <2>1, <2>2, PutsKeeps, OutsideEnds
      DEF MemoryUpsertVec, MemoryRemoveVec, Goes
  <1>3. ASSUME NEW s, "pc" \in DOMAIN s, s.pc \in BarePlaces, Reads, Goes(c, s)
        PROVE  Inv'
    BY <1>0, <1>3, BareGoes DEF Reads
  <1>4. "pc" \in DOMAIN Idle /\ Idle.pc \in BarePlaces
    BY DEF Idle, BarePlaces, Places
  <1>5. CASE Nearest(c)
    <2>1. PICK near : Goes(c, IF Doomed THEN Idle
                             ELSE [pc |-> "near", todo |-> near, near |-> near, found |-> {}])
      BY <1>5 DEF Nearest
    <2> DEFINE s == [pc |-> "near", todo |-> near, near |-> near, found |-> {}]
    <2>2. "pc" \in DOMAIN s /\ s.pc \in BarePlaces
      BY DEF BarePlaces, Places
    <2>3. Reads
      BY <1>5 DEF Nearest
    <2>4. Goes(c, Idle) \/ Goes(c, s)
      BY <2>1
    <2> HIDE DEF s
    <2> QED
      BY <1>3, <1>4, <2>2, <2>3, <2>4
  <1>6. CASE SurrealGetNear(c) \/ MemoryGetNear(c)
    <2>1. Reads /\ at[c].pc = "near"
      BY <1>6 DEF SurrealGetNear, MemoryGetNear
    <2>2. CASE Goes(c, [at[c] EXCEPT !.pc = "got"])
      <3> DEFINE s == [at[c] EXCEPT !.pc = "got"]
      <3>1. "pc" \in DOMAIN s /\ s.pc \in BarePlaces
        BY <1>0 DEF Holds, BarePlaces, Places
      <3> HIDE DEF s
      <3> QED
        BY <1>3, <2>1, <2>2, <3>1 DEF s
    <2>3. ASSUME NEW i, NEW found, Goes(c, [at[c] EXCEPT !.todo = @ \ {i}, !.found = found])
          PROVE  Inv'
      <3> DEFINE s == [at[c] EXCEPT !.todo = @ \ {i}, !.found = found]
      <3>1. "pc" \in DOMAIN s /\ s.pc \in BarePlaces
        BY <1>0, <2>1 DEF Holds, BarePlaces, Places
      <3>2. Goes(c, s)
        BY <2>3
      <3> HIDE DEF s
      <3> QED
        BY <1>3, <2>1, <3>1, <3>2
    <2>4. \/ Goes(c, [at[c] EXCEPT !.pc = "got"]) \/ Goes(c, Idle)
          \/ \E i, found : Goes(c, [at[c] EXCEPT !.todo = @ \ {i}, !.found = found])
      <3>1. CASE SurrealGetNear(c)
        BY <3>1 DEF SurrealGetNear
      <3>2. CASE MemoryGetNear(c)
        BY <3>2 DEF MemoryGetNear
      <3> QED
        BY <1>6, <3>1, <3>2
    <2> QED
      BY <1>3, <1>4, <2>1, <2>2, <2>3, <2>4
  <1> QED
    BY <1>1, <1>2, <1>5, <1>6 DEF Index, SurrealUpsertVec, SurrealRemoveVec

-----------------------------------------------------------------------------
(* The theorems.                                                           *)

LEMMA NextInv == Inv /\ [StorageNext]_vars => Inv'
  <1> SUFFICES ASSUME Inv, [StorageNext]_vars PROVE Inv'
    OBVIOUS
  <1>1. CASE UNCHANGED vars
    BY <1>1 DEF vars, client, Inv, DataInv, ControlInv, Sane, Tabled, Typed, Counted, OpenIsOwned,
       InTx, Memory, Holds
  <1>2. ASSUME NEW c \in Clients, Step(c)
        PROVE  Inv'
    BY <1>2, TxInv, MigrateInv, LoseInv, WriteInv, ReadInv, GraphInv, IndexInv DEF Step, ClientStep
  <1> QED
    BY <1>1, <1>2 DEF StorageNext, Over

\* The invariant holds whatever the clients, the records, the scripts, the
\* starting tables and the datastore are.
THEOREM Invariance == Spec => []Inv
  BY InitInv, NextInv, PTL DEF Spec

\* Tables keep their types, and a record's version tells how many versioned
\* updates it has seen: none was overwritten by one that had not seen it (upsert).
THEOREM VersionsTell == Spec => []StorageInv
  <1>1. Inv => StorageInv
    BY DEF Inv, DataInv, ControlInv, Holds, Sane, Counted, StorageInv, TypeOK, VersionsCount
  <1> QED
    BY <1>1, Invariance, PTL

\* No transaction stays open on the shared client after the call that opened it,
\* however that call ended (Tx, apply_up, apply_down).
THEOREM TransactionsAreOwned == Spec => []OpenIsOwned
  <1>1. Inv => OpenIsOwned
    BY DEF Inv, ControlInv
  <1> QED
    BY <1>1, Invariance, PTL

-----------------------------------------------------------------------------
(* Sequences that name nothing twice, as the version table does.           *)

Once(q) == q \in Seq(Range(q)) /\ IsInjective(q)

LEMMA OnceAppend ==
  ASSUME NEW q, Once(q), NEW s, s \notin Range(q)
  PROVE  Once(Append(q, s)) /\ Range(Append(q, s)) = Range(q) \cup {s}
  <1> DEFINE r == Append(q, s)
             n == Len(q)
  <1>1. /\ n \in Nat /\ DOMAIN q = 1..n /\ DOMAIN r = 1..(n + 1)
        /\ r[n + 1] = s /\ \A k \in 1..n : r[k] = q[k]
    BY DEF Once
  <1>2. \A k \in 1..(n + 1) : k = n + 1 \/ k \in 1..n
    BY <1>1
  <1>3. Range(r) = Range(q) \cup {s}
    <2> HIDE DEF r, n
    <2> QED
      BY <1>1, <1>2 DEF Range
  <1>4. r \in Seq(Range(r))
    BY <1>3 DEF Once
  <1>5. IsInjective(r)
    <2> HIDE DEF r, n
    <2> SUFFICES ASSUME NEW a \in 1..(n + 1), NEW b \in 1..(n + 1), r[a] = r[b]
                 PROVE  a = b
      BY <1>1 DEF IsInjective
    <2> QED
      BY <1>1, <1>2 DEF Once, IsInjective, Range
  <1> QED
    BY <1>3, <1>4, <1>5 DEF Once

LEMMA OnceJoined ==
  ASSUME NEW q, Once(q), NEW t, Once(t), Range(q) \cap Range(t) = {}
  PROVE  Once(q \o t)
  <1> DEFINE r == q \o t
             n == Len(q)
             m == Len(t)
  <1>1. /\ n \in Nat /\ m \in Nat
        /\ DOMAIN q = 1..n /\ DOMAIN t = 1..m /\ DOMAIN r = 1..(n + m)
        /\ \A k \in 1..n : r[k] = q[k]
        /\ \A k \in 1..(n + m) : k \notin 1..n => k - n \in 1..m /\ r[k] = t[k - n]
    BY DEF Once
  <1> HIDE DEF r, n, m
  <1>2. Len(r) = n + m /\ r = [k \in 1..(n + m) |-> r[k]]
    <2> DEFINE V == Range(q) \cup Range(t)
    <2>1. q \in Seq(V) /\ t \in Seq(V)
      BY DEF Once
    <2> HIDE DEF V
    <2>2. r \in Seq(V) /\ Len(r) = n + m
      BY <2>1 DEF r, n, m
    <2> QED
      BY <2>2
  <1>3. r \in Seq(Range(r))
    BY <1>1, <1>2 DEF Range
  <1>5. IsInjective(r)
    <2> SUFFICES ASSUME NEW a \in 1..(n + m), NEW b \in 1..(n + m), r[a] = r[b]
                 PROVE  a = b
      BY <1>1 DEF IsInjective
    <2>1. CASE a \in 1..n /\ b \in 1..n
      BY <1>1, <2>1 DEF Once, IsInjective
    <2>2. CASE a \notin 1..n /\ b \notin 1..n
      <3>1. a - n \in 1..m /\ b - n \in 1..m /\ t[a - n] = t[b - n]
        BY <1>1, <2>2
      <3>2. \A i, j \in 1..m : t[i] = t[j] => i = j
        BY <1>1 DEF Once, IsInjective
      <3>3. a - n = b - n
        BY <3>1, <3>2
      <3> QED
        BY <1>1, <3>3
    <2>3. CASE a \in 1..n /\ b \notin 1..n
      BY <1>1, <2>3 DEF Range
    <2>4. CASE a \notin 1..n /\ b \in 1..n
      BY <1>1, <2>4 DEF Range
    <2> QED
      BY <2>1, <2>2, <2>3, <2>4
  <1> QED
    BY <1>3, <1>5 DEF Once, r

\* The place of a member is the one RemoveFirst finds.
LEMMA OnceRemoved ==
  ASSUME NEW q, Once(q), NEW s
  PROVE  Once(RemoveFirst(q, s)) /\ Range(RemoveFirst(q, s)) = Range(q) \ {s}
  <1> DEFINE n == Len(q)
             r == RemoveFirst(q, s)
  <1>1. n \in Nat /\ DOMAIN q = 1..n /\ q = [k \in 1..n |-> q[k]]
    BY DEF Once
  <1>2. CASE s \notin Range(q)
    <2>1. ~ \E i \in 1..Len(q) : q[i] = s
      BY <1>1, <1>2 DEF Range
    <2>2. r = q
      BY <2>1 DEF RemoveFirst
    <2> QED
      BY <1>2, <2>2
  <1>3. CASE s \in Range(q)
    <2>1. PICK p \in 1..n : q[p] = s
      BY <1>1, <1>3 DEF Range
    <2>2. {i \in 1..n : q[i] = s} = {p}
      BY <1>1, <2>1 DEF Once, IsInjective
    <2>3. SelectInSeq(q, LAMBDA v : v = s) = p
      <3>1. SelectInSeq(q, LAMBDA v : v = s) = Min({p})
        BY <2>2 DEF SelectInSeq
      <3>2. Min({p}) = p
        BY <1>1, <2>1 DEF Min
      <3> QED
        BY <3>1, <3>2
    <2>4. r = SubSeq(q, 1, p - 1) \o SubSeq(q, p + 1, n)
      BY <2>1, <2>3 DEF RemoveFirst, RemoveAt
    <2> HIDE DEF r
    <2>5. /\ DOMAIN r = 1..(n - 1) /\ Len(r) = n - 1
          /\ r = [k \in 1..(n - 1) |-> IF k < p THEN q[k] ELSE q[k + 1]]
      <3> DEFINE V == Range(q)
                 front == SubSeq(q, 1, p - 1)
                 rest == SubSeq(q, p + 1, n)
      <3>1. q \in Seq(V)
        BY DEF Once
      <3> HIDE DEF V
      <3>2. front \in Seq(V) /\ Len(front) = p - 1 /\ \A k \in 1..(p - 1) : front[k] = q[k]
        BY <1>1, <2>1, <3>1
      <3>3. rest \in Seq(V) /\ Len(rest) = n - p /\ \A k \in 1..(n - p) : rest[k] = q[p + k]
        BY <1>1, <2>1, <3>1
      <3> HIDE DEF front, rest, n
      <3>4. /\ r \in Seq(V) /\ Len(r) = n - 1
            /\ \A k \in 1..(n - 1) : r[k] = IF k < p THEN q[k] ELSE q[k + 1]
        <4>1. r = front \o rest
          BY <2>4 DEF front, rest, n
        <4>2. n \in Nat /\ p \in 1..n
          BY <1>1, <2>1
        <4> HIDE DEF front, rest
        <4>3. r \in Seq(V) /\ Len(r) = n - 1
          <5> HIDE DEF r
          <5>1. Len(front \o rest) = Len(front) + Len(rest) /\ front \o rest \in Seq(V)
            BY <3>2, <3>3
          <5>2. (p - 1) + (n - p) = n - 1
            BY <4>2
          <5> QED
            BY <3>2, <3>3, <4>1, <5>1, <5>2
        <4>4. ASSUME NEW k \in 1..(n - 1)
              PROVE  r[k] = IF k < p THEN q[k] ELSE q[k + 1]
          <5>1. CASE k < p
            BY <3>2, <3>3, <4>1, <4>2, <4>4, <5>1
          <5>2. CASE ~ (k < p)
            <6>1. r[k] = rest[k - (p - 1)] /\ k - (p - 1) \in 1..(n - p)
              BY <3>2, <3>3, <4>1, <4>2, <4>4, <5>2
            <6>2. rest[k - (p - 1)] = q[p + (k - (p - 1))]
              BY <3>3, <6>1
            <6>3. p + (k - (p - 1)) = k + 1
              BY <4>2, <4>4
            <6> QED
              BY <5>2, <6>1, <6>2, <6>3
          <5> QED
            BY <5>1, <5>2
        <4> QED
          BY <4>3, <4>4
      <3> QED
        BY <3>4
    <2>6. Range(r) = Range(q) \ {s}
      <3>1. \A k \in 1..(n - 1) : r[k] \in Range(q) /\ r[k] # s
        BY <1>1, <2>1, <2>2, <2>5 DEF Range
      <3>2. \A k \in 1..n : q[k] # s => q[k] \in Range(r)
        <4> TAKE k \in 1..n
        <4> HAVE q[k] # s
        <4>1. CASE k < p
          BY <1>1, <2>1, <2>5, <4>1 DEF Range
        <4>2. CASE k > p
          <5>1. k - 1 \in 1..(n - 1) /\ r[k - 1] = q[k]
            BY <1>1, <2>1, <2>5, <4>2
          <5> QED
            BY <2>5, <5>1 DEF Range
        <4> QED
          BY <1>1, <2>1, <4>1, <4>2
      <3>3. /\ Range(r) = {r[k] : k \in 1..(n - 1)}
            /\ Range(q) = {q[k] : k \in 1..n}
        <4>1. DOMAIN r = 1..(n - 1) /\ DOMAIN q = 1..n
          BY <1>1, <2>5
        <4> QED
          BY <4>1 DEF Range
      <3> HIDE DEF r, n
      <3>4. Range(r) \subseteq Range(q) \ {s}
        BY <3>1, <3>3
      <3>5. \A v \in Range(q) : v # s => v \in Range(r)
        BY <3>2, <3>3
      <3> QED
        BY <3>4, <3>5
    <2>7. r \in Seq(Range(r))
      BY <1>1, <2>1, <2>5 DEF Range
    <2>8. IsInjective(r)
      BY <1>1, <2>1, <2>5 DEF Once, IsInjective
    <2> QED
      BY <2>6, <2>7, <2>8 DEF Once, r
  <1> QED
    BY <1>2, <1>3

LEMMA OnceCounted ==
  ASSUME NEW q, Once(q)
  PROVE  Cardinality(Range(q)) = Len(q)
  <1>1. Len(q) \in Nat /\ DOMAIN q = 1..Len(q)
    BY DEF Once
  <1>2. q \in [1..Len(q) -> Range(q)]
    BY DEF Once
  <1>3. q \in Bijection(1..Len(q), Range(q))
    BY <1>1, <1>2 DEF Bijection, Injection, Surjection, Once, IsInjective, Range
  <1>4. ExistsBijection(1..Len(q), Range(q))
    BY <1>3 DEF ExistsBijection
  <1>5. IsFiniteSet(1..Len(q)) /\ Cardinality(1..Len(q)) = Len(q)
    <2>1. 1 \in Int /\ Len(q) \in Int
      BY <1>1
    <2>2. /\ IsFiniteSet(1..Len(q))
          /\ Cardinality(1..Len(q)) = IF 1 > Len(q) THEN 0 ELSE Len(q) - 1 + 1
      BY <2>1, FS_Interval, Zenon
    <2> QED
      BY <1>1, <2>2
  <1> HIDE DEF Once
  <1> QED
    BY <1>4, <1>5, FS_Bijection, Zenon

LEMMA OrderedOnce ==
  ASSUME NEW chosen, IsFiniteSet(chosen), NEW q \in InOrder(chosen)
  PROVE  Once(q) /\ Range(q) \subseteq chosen
  <1>1. /\ q \in [1..Cardinality(chosen) -> chosen]
        /\ \A i, j \in 1..Cardinality(chosen) : i # j => q[i] # q[j]
    BY DEF InOrder, SetToSeqs
  <1>2. Cardinality(chosen) \in Nat
    BY FS_CardinalityType
  <1>3. q \in Seq(Range(q))
    BY <1>1, <1>2 DEF Range
  <1> QED
    BY <1>1, <1>3 DEF Once, IsInjective, Range

-----------------------------------------------------------------------------
(* Transactions take force as a whole.                                     *)

\* What only a transaction changes.
Meta(d) == <<d.schema, d.versions, d.marks>>

\* The table of versions tells what was migrated.
Told(d) == Once(d.versions) /\ (Surreal => Range(d.versions) = d.schema)

\* What a client has done in its transaction so far.
OwnMarks(x) ==
    IF at[x].pc = "tx" THEN {<<x, left[x], i>> : i \in 1..at[x].done} ELSE {}

\* Between a script and its record the table is one version behind.
Tells(d, s) ==
    /\ Once(d.versions)
    /\ IF s.pc # "record" THEN Range(d.versions) = d.schema
       ELSE IF s.dir = "up" THEN d.schema = Range(d.versions) \cup {Head(s.todo)}
       ELSE d.schema = Range(d.versions) \ {Head(s.todo)}

\* What a client keeps while it is in a transaction.
Keeps(s) ==
    /\ s.pc = "tx" => s = [pc |-> "tx", done |-> s.done] /\ s.done \in 0..MaxMarks
    /\ s.pc \in {"script", "record"} => s = [pc |-> s.pc, dir |-> s.dir, todo |-> s.todo]
    /\ s.pc # "tx" => Surreal

\* The open transaction differs from what is committed by what its owner has done.
OpenFor(x) ==
    /\ \A o \in Clients : InTx(o) => o = x
    /\ Keeps(at[x])
    /\ Surreal /\ cut # "foreign" =>
          /\ work # NoTx
          /\ ~ work.doomed => /\ work.data.marks = db.marks \cup OwnMarks(x)
                              /\ Tells(work.data, at[x])

OpenInv == \A x \in Clients : InTx(x) => OpenFor(x)

\* A transaction leaves the first of its marks when it takes force, none before
\* and none when it is rolled back.
MarksInv ==
    \A x \in Clients, n \in 0..MaxCalls :
        /\ \E k \in 0..MaxMarks : MarksOf(x, n, db) = 1..k
        /\ n <= left[x] => MarksOf(x, n, db) = {}
        /\ <<x, n>> \in undone => n > left[x] /\ MarksOf(x, n, db) = {}

WholeInv ==
    /\ left = [x \in Clients |-> left[x]] /\ \A x \in Clients : left[x] \in Int
    /\ OpenInv
    /\ cut # "foreign" => Told(db) /\ MarksInv

\* A call outside transactions.
Calls(c) ==
    \/ Write(c) \/ Graph(c) \/ Index(c)
    \/ ScanStart(c) \/ Search(c) \/ SurrealSelect(c) \/ MemorySelect(c) \/ Return(c)

\* Records are not lost but by deletion, and in memory edges come from a push.
Grows(c, d) ==
    /\ \A i \in Ids : Exists(i) \/ i \in Seen.gone => d.rows[i] # None \/ i \in d.gone
    /\ Memory => \/ d.edges = Seen.edges
                 \/ at[c].pc = "push" /\ d.edges = Seen.edges \cup {at[c].edge}

\* What such a call does to the tables.
Statement(c) ==
    \/ UNCHANGED client
    \/ Fails
    \/ \E d : Puts(d) /\ Meta(d) = Meta(Seen) /\ Grows(c, d)

ReadPlaces == {"scan", "read", "failed"}

ReadCall(c) == ScanStart(c) \/ Search(c) \/ SurrealSelect(c) \/ MemorySelect(c)

\* Where such a call may leave its client: outside transactions, in the course of
\* a scan only by a call for one, and with the ends of an edge looked up one after
\* the other.
Leaves(c, s) ==
    /\ s.pc \notin InTxPlaces
    /\ s.pc \in ReadPlaces => ReadCall(c)
    /\ s.pc = "target" => Exists(s.edge[1])
    /\ s.pc = "push" => at[c].pc = "target" /\ s.edge = at[c].edge /\ Exists(s.edge[2])

\* Such a call begins and ends outside transactions.
LEMMA CallMoves ==
  ASSUME Inv, NEW c \in Clients, Calls(c)
  PROVE  /\ ~ InTx(c)
         /\ \E s : Goes(c, s) /\ Leaves(c, s)
  <1> DEFINE Moves == \E s : Goes(c, s) /\ Leaves(c, s)
             Aside == InTxPlaces \cup ReadPlaces \cup {"target", "push"}
  <1>a. ASSUME NEW s, Goes(c, s), s.pc \notin Aside
        PROVE  Moves
    BY <1>a DEF Leaves
  <1>b. Goes(c, Idle) => Moves
    BY DEF Idle, InTxPlaces, ReadPlaces, Leaves
  <1>r. ASSUME NEW s, Goes(c, s), s.pc \in ReadPlaces, ReadCall(c)
        PROVE  Moves
    BY <1>r DEF Leaves, ReadPlaces, InTxPlaces
  <1> SUFFICES ~ InTx(c) /\ Moves
    OBVIOUS
  <1> HIDE DEF Moves
  <1>0. Holds(at[c])
    BY DEF Inv, ControlInv
  <1>1. CASE Write(c)
    <2>1. ~ InTx(c)
      BY <1>1, IdleIsOutside DEF Write, SurrealCreate, MemoryCreate, SurrealUpsert, MemoryUpsert,
         Get, Delete, Update, Free, InTx
    <2>2. Goes(c, Idle) \/ \E i : Goes(c, [pc |-> "held", id |-> i, row |-> Seen.rows[i]])
      BY <1>1 DEF Write, SurrealCreate, MemoryCreate, SurrealUpsert, MemoryUpsert,
         Get, Delete, Update
    <2>3. ASSUME NEW i
          PROVE  [pc |-> "held", id |-> i, row |-> Seen.rows[i]].pc \notin Aside
      BY DEF InTxPlaces, ReadPlaces
    <2> QED
      BY <1>a, <1>b, <2>1, <2>2, <2>3
  <1>2. CASE Graph(c)
    <2>1. ~ InTx(c)
      BY <1>2, IdleIsOutside DEF Graph, SurrealRelate, Source, MemoryWalk, Target, PushEdge,
         SurrealWalk, Fetch, Free, InTx
    <2>2. \/ Goes(c, Idle)
          \/ \E i, j : Exists(i) /\ Goes(c, [pc |-> "target", edge |-> <<i, j>>])
          \/ /\ at[c].pc = "target" /\ Exists(at[c].edge[2])
             /\ Goes(c, [at[c] EXCEPT !.pc = "push"])
          \/ \E i, dir, limit :
                Goes(c, [pc |-> "walk", todo |-> Neighbours(i, dir), limit |-> limit])
          \/ /\ at[c].pc = "walk"
             /\ \E i : Goes(c, [at[c] EXCEPT !.todo = @ \ {i}, !.limit = @ - 1])
      BY <1>2 DEF Graph, SurrealRelate, Source, MemoryWalk, Target, PushEdge, SurrealWalk, Fetch
    <2>3. ASSUME NEW i, NEW dir, NEW limit
          PROVE  [pc |-> "walk", todo |-> Neighbours(i, dir), limit |-> limit].pc \notin Aside
      BY DEF InTxPlaces, ReadPlaces
    <2>4. ASSUME NEW i, NEW j, Exists(i), Goes(c, [pc |-> "target", edge |-> <<i, j>>])
          PROVE  Moves
      <3> DEFINE s == [pc |-> "target", edge |-> <<i, j>>]
      <3>1. Goes(c, s) /\ Leaves(c, s)
        BY <2>4 DEF Leaves, InTxPlaces, ReadPlaces
      <3> QED
        BY <3>1 DEF Moves
    <2>5. ASSUME at[c].pc = "target", Exists(at[c].edge[2]),
                 Goes(c, [at[c] EXCEPT !.pc = "push"])
          PROVE  Moves
      <3> DEFINE s == [at[c] EXCEPT !.pc = "push"]
      <3>1. s.pc = "push" /\ s.edge = at[c].edge
        BY <1>0 DEF Holds
      <3>2. Leaves(c, s) /\ Goes(c, s)
        BY <2>5, <3>1 DEF Leaves, InTxPlaces, ReadPlaces
      <3> HIDE DEF s
      <3> QED
        BY <3>2 DEF Moves
    <2>6. ASSUME NEW i, at[c].pc = "walk"
          PROVE  [at[c] EXCEPT !.todo = @ \ {i}, !.limit = @ - 1].pc \notin Aside
      BY <1>0, <2>6 DEF Holds, InTxPlaces, ReadPlaces
    <2> QED
      BY <1>a, <1>b, <2>1, <2>2, <2>3, <2>4, <2>5, <2>6
  <1>3. CASE Index(c)
    <2>1. ~ InTx(c)
      BY <1>3, IdleIsOutside DEF Index, SurrealUpsertVec, SurrealRemoveVec, SurrealSetVec,
         MemoryUpsertVec, MemoryRemoveVec, Nearest, SurrealGetNear, MemoryGetNear, Free, InTx
    <2>2. \/ Goes(c, Idle)
          \/ \E near : Goes(c, [pc |-> "near", todo |-> near, near |-> near, found |-> {}])
          \/ Goes(c, [at[c] EXCEPT !.pc = "got"])
          \/ /\ at[c].pc = "near"
             /\ \E i, found : Goes(c, [at[c] EXCEPT !.todo = @ \ {i}, !.found = found])
      <3>1. CASE Nearest(c)
        BY <3>1 DEF Nearest
      <3>2. CASE SurrealGetNear(c)
        BY <3>2 DEF SurrealGetNear
      <3>3. CASE MemoryGetNear(c)
        BY <3>3 DEF MemoryGetNear
      <3> QED
        BY <1>3, <3>1, <3>2, <3>3 DEF Index, SurrealUpsertVec, SurrealRemoveVec, SurrealSetVec,
           MemoryUpsertVec, MemoryRemoveVec
    <2>3. ASSUME NEW near
          PROVE  [pc |-> "near", todo |-> near, near |-> near, found |-> {}].pc \notin Aside
      BY DEF InTxPlaces, ReadPlaces
    <2>4. [at[c] EXCEPT !.pc = "got"].pc \notin Aside
      BY <1>0 DEF Holds, InTxPlaces, ReadPlaces
    <2>5. ASSUME NEW i, NEW found, at[c].pc = "near"
          PROVE  [at[c] EXCEPT !.todo = @ \ {i}, !.found = found].pc \notin Aside
      BY <1>0, <2>5 DEF Holds, InTxPlaces, ReadPlaces
    <2> QED
      BY <1>a, <1>b, <2>1, <2>2, <2>3, <2>4, <2>5
  <1>4. CASE ScanStart(c)
    <2>1. PICK f, sort, limit :
             Goes(c, [pc |-> "scan", filter |-> f, sort |-> sort, limit |-> limit,
                      cursor |-> 0, found |-> {}, again |-> FALSE, page |-> {}])
      BY <1>4 DEF ScanStart
    <2> DEFINE s == [pc |-> "scan", filter |-> f, sort |-> sort, limit |-> limit,
                     cursor |-> 0, found |-> {}, again |-> FALSE, page |-> {}]
    <2>2. s.pc \in ReadPlaces
      BY DEF InTxPlaces, ReadPlaces
    <2> HIDE DEF s
    <2> QED
      BY <1>4, <1>r, <2>1, <2>2, IdleIsOutside DEF ScanStart, Free, ReadCall, s
  <1>5. CASE Search(c)
    <2>1. PICK f, limit, page :
             Goes(c, IF Doomed \/ Undecodable(page) THEN [pc |-> "failed"]
                     ELSE [pc |-> "read", filter |-> f, sort |-> "score", limit |-> limit,
                           found |-> Range(page), page |-> RowsOf(page)])
      BY <1>5 DEF Search
    <2> DEFINE s == IF Doomed \/ Undecodable(page) THEN [pc |-> "failed"]
                    ELSE [pc |-> "read", filter |-> f, sort |-> "score", limit |-> limit,
                          found |-> Range(page), page |-> RowsOf(page)]
    <2>2. s.pc \in ReadPlaces
      BY DEF InTxPlaces, ReadPlaces
    <2>3. Goes(c, s)
      BY <2>1
    <2> HIDE DEF s
    <2> QED
      BY <1>5, <1>r, <2>2, <2>3, IdleIsOutside DEF Search, Free, ReadCall
  <1>6. ASSUME NEW page, NEW next, at[c].pc = "scan", ReadCall(c), Reading(c, page, next)
        PROVE  Moves
    <2> DEFINE s == IF Undecodable(page) THEN [at[c] EXCEPT !.pc = "failed"]
                    ELSE [at[c] EXCEPT !.pc = IF next = 0 THEN "read" ELSE "scan",
                                       !.cursor = next, !.found = @ \cup Range(page),
                                       !.again = @ \/ at[c].found \cap Range(page) # {},
                                       !.page = RowsOf(page)]
    <2>1. s.pc \in ReadPlaces
      BY <1>0 DEF Holds, InTxPlaces, ReadPlaces
    <2>2. Goes(c, s)
      BY <1>6 DEF Reading
    <2> HIDE DEF s
    <2> QED
      BY <1>r, <1>6, <2>1, <2>2
  <1>7. CASE SurrealSelect(c)
    <2>1. \/ Goes(c, [at[c] EXCEPT !.pc = "failed"])
          \/ \E page, next : Reading(c, page, next)
      BY <1>7 DEF SurrealSelect
    <2>2. at[c].pc = "scan"
      BY <1>7 DEF SurrealSelect
    <2>3. CASE Goes(c, [at[c] EXCEPT !.pc = "failed"])
      <3> DEFINE s == [at[c] EXCEPT !.pc = "failed"]
      <3>1. s.pc \in ReadPlaces /\ Goes(c, s)
        BY <1>0, <2>3 DEF Holds, InTxPlaces, ReadPlaces
      <3> HIDE DEF s
      <3> QED
        BY <1>7, <1>r, <2>2, <3>1 DEF InTx, ReadCall
    <2> QED
      BY <1>6, <1>7, <2>1, <2>2, <2>3 DEF InTx, ReadCall
  <1>8. CASE MemorySelect(c)
    <2>1. at[c].pc = "scan" /\ \E page, next : Reading(c, page, next)
      BY <1>8 DEF MemorySelect
    <2> QED
      BY <1>6, <1>8, <2>1 DEF InTx, ReadCall
  <1>9. CASE Return(c)
    BY <1>9, <1>b DEF Return, InTx
  <1> QED
    BY <1>1, <1>2, <1>3, <1>4, <1>5, <1>7, <1>8, <1>9 DEF Calls

\* Tables in which a record was replaced, or another part that is not a
\* transaction's.
LEMMA PartsState ==
  ASSUME DataInv, NEW c, NEW x
  PROVE  /\ \A i \in Ids : x # None =>
               LET d == With(i, x)
               IN  /\ Meta(d) = Meta(Seen) /\ Grows(c, d)
                   /\ \A y : /\ Meta([d EXCEPT !.acks = y]) = Meta(Seen)
                             /\ Grows(c, [d EXCEPT !.acks = y])
         /\ \A i \in Ids :
               LET d == [With(i, None) EXCEPT !.gone = @ \cup {i}]
               IN  Meta(d) = Meta(Seen) /\ Grows(c, d)
         /\ LET d == [Seen EXCEPT !.vectors = x]
            IN  Meta(d) = Meta(Seen) /\ Grows(c, d)
         /\ LET d == [Seen EXCEPT !.edges = x]
            IN  /\ Meta(d) = Meta(Seen)
                /\ (Memory => at[c].pc = "push" /\ x = Seen.edges \cup {at[c].edge})
                   => Grows(c, d)
  <1> DEFINE t == Seen
  <1>1. Sane(t)
    BY SeenSane
  <1>2. /\ t = [rows |-> t.rows, edges |-> t.edges, vectors |-> t.vectors, schema |-> t.schema,
                versions |-> t.versions, marks |-> t.marks, acks |-> t.acks, gone |-> t.gone]
        /\ t.rows = [i \in Ids |-> t.rows[i]]
    BY <1>1 DEF Sane, Tabled, Typed
  <1> HIDE DEF t
  <1>3. ASSUME NEW i \in Ids, NEW y, x # None
        PROVE  LET d == With(i, x)
               IN  /\ Meta(d) = Meta(Seen) /\ Grows(c, d)
                   /\ Meta([d EXCEPT !.acks = y]) = Meta(Seen)
                   /\ Grows(c, [d EXCEPT !.acks = y])
    BY <1>2, <1>3 DEF With, Meta, Grows, Exists, t
  <1>4. ASSUME NEW i \in Ids
        PROVE  LET d == [With(i, None) EXCEPT !.gone = @ \cup {i}]
               IN  Meta(d) = Meta(Seen) /\ Grows(c, d)
    BY <1>2 DEF With, Meta, Grows, Exists, t
  <1>5. LET d == [Seen EXCEPT !.vectors = x]
        IN  Meta(d) = Meta(Seen) /\ Grows(c, d)
    BY <1>2 DEF Meta, Grows, Exists, t
  <1>6. LET d == [Seen EXCEPT !.edges = x]
        IN  /\ Meta(d) = Meta(Seen)
            /\ (Memory => at[c].pc = "push" /\ x = Seen.edges \cup {at[c].edge})
               => Grows(c, d)
    BY <1>2 DEF Meta, Grows, Exists, t
  <1> QED
    BY <1>3, <1>4, <1>5, <1>6

LEMMA RowsNotNone == \A row \in Rows : row # None
  BY StorageAssumption, Zenon

LEMMA RowsAreSome ==
  ASSUME DataInv, NEW v \in Values
  PROVE  /\ Row(1, v) # None /\ Row(0, v) # None
         /\ \A i \in Ids : Exists(i) =>
               /\ [Seen.rows[i] EXCEPT !.val = v] # None
               /\ \A n \in Nat : [Seen.rows[i] EXCEPT !.ver = n, !.val = v] # None
               /\ \A b \in BOOLEAN : [Seen.rows[i] EXCEPT !.vec = b] # None
  <1>1. Row(1, v) \in Rows /\ Row(0, v) \in Rows
    BY DEF Row, Rows
  <1>2. ASSUME NEW i \in Ids, Exists(i), NEW n \in Nat, NEW b \in BOOLEAN
        PROVE  /\ [Seen.rows[i] EXCEPT !.val = v] \in Rows
               /\ [Seen.rows[i] EXCEPT !.ver = n, !.val = v] \in Rows
               /\ [Seen.rows[i] EXCEPT !.vec = b] \in Rows
    <2> DEFINE row == Seen.rows[i]
    <2>1. row \in Rows
      BY <1>2, SeenRows
    <2> HIDE DEF row
    <2>2. [row EXCEPT !.ver = n] \in Rows
      BY <2>1 DEF Rows
    <2>3. [row EXCEPT !.val = v] \in Rows /\ [row EXCEPT !.vec = b] \in Rows
          /\ [[row EXCEPT !.ver = n] EXCEPT !.val = v] \in Rows
      BY <2>1, <2>2 DEF Rows
    <2> QED
      BY <2>3 DEF row
  <1>3. 0 \in Nat /\ TRUE \in BOOLEAN
    OBVIOUS
  <1> QED
    BY <1>1, <1>2, <1>3, RowsNotNone

\* It leaves what transactions are about as it is.
LEMMA CallStates ==
  ASSUME Inv, NEW c \in Clients, Calls(c)
  PROVE  Statement(c)
  <1>0. DataInv /\ Holds(at[c])
    BY DEF Inv, ControlInv
  <1>1. CASE ScanStart(c) \/ Search(c) \/ SurrealSelect(c) \/ MemorySelect(c) \/ Return(c)
    BY <1>1 DEF ScanStart, Search, SurrealSelect, MemorySelect, Return, Reads, Statement
  <1>2. Reads => Statement(c)
    BY DEF Reads, Statement
  <1>3. Fails => Statement(c)
    BY DEF Statement
  <1>4. ASSUME NEW i \in Ids, NEW x, x # None
        PROVE  /\ Puts(With(i, x)) => Statement(c)
               /\ \A y : Puts([With(i, x) EXCEPT !.acks = y]) => Statement(c)
    BY <1>0, <1>4, PartsState DEF Statement
  <1>5. ASSUME NEW i \in Ids, Delete(c, i)
        PROVE  Statement(c)
    BY <1>0, <1>2, <1>5, PartsState DEF Delete, Statement
  <1>6. ASSUME NEW i \in Ids, \/ SurrealCreate(c, i) \/ MemoryCreate(c, i)
                              \/ SurrealUpsert(c, i) \/ MemoryUpsert(c, i)
        PROVE  Statement(c)
    <2>1. PICK v \in Values :
             \/ Reads \/ Fails
             \/ Puts(Created(i, Row(1, v))) \/ Puts(Created(i, Row(0, v)))
             \/ (Exists(i) /\ Puts(Patched(i, v)))
      BY <1>6 DEF SurrealCreate, MemoryCreate, SurrealUpsert, MemoryUpsert
    <2>2. Row(1, v) # None /\ Row(0, v) # None
          /\ (Exists(i) => [Seen.rows[i] EXCEPT !.val = v] # None)
      BY <1>0, RowsAreSome
    <2> QED
      BY <1>2, <1>3, <1>4, <2>1, <2>2 DEF Created, Patched
  <1>7. CASE Update(c)
    <2> DEFINE i == at[c].id
               n == at[c].row.ver + 1
    <2>1. i \in Ids /\ n \in Nat
      BY <1>0, <1>7 DEF Update, Holds
    <2>2. PICK v \in Values :
             Reads \/ (Exists(at[c].id) /\ Puts(Updated(at[c].id, at[c].row.ver + 1, v)))
      BY <1>7 DEF Update
    <2> HIDE DEF i, n
    <2>3. Exists(i) => [Seen.rows[i] EXCEPT !.ver = n, !.val = v] # None
      BY <1>0, <2>1, RowsAreSome
    <2> QED
      BY <1>2, <1>4, <2>1, <2>2, <2>3 DEF Updated, i, n
  <1>8. CASE Write(c)
    BY <1>2, <1>5, <1>6, <1>7, <1>8 DEF Write, Get
  <1>9. ASSUME NEW i \in Ids, NEW b \in BOOLEAN, SurrealSetVec(c, i, b)
        PROVE  Statement(c)
    <2>1. Reads \/ (Exists(i) /\ Puts(SetVec(i, b)))
      BY <1>9, Zenon DEF SurrealSetVec
    <2>2. Exists(i) => [Seen.rows[i] EXCEPT !.vec = b] # None
      <3> SUFFICES ASSUME Exists(i) PROVE [Seen.rows[i] EXCEPT !.vec = b] # None
        OBVIOUS
      <3> DEFINE row == Seen.rows[i]
      <3>1. row \in Rows
        BY <1>0, SeenRows
      <3> HIDE DEF row
      <3>2. [row EXCEPT !.vec = b] \in Rows
        BY <3>1 DEF Rows
      <3> QED
        BY <3>2, RowsNotNone DEF row
    <2> QED
      BY <1>2, <1>4, <2>1, <2>2 DEF SetVec
  <1>10. ASSUME NEW x, Puts([Seen EXCEPT !.vectors = x])
         PROVE  Statement(c)
    BY <1>0, <1>10, PartsState DEF Statement
  <1>11. CASE Index(c)
    <2>1. ASSUME NEW i \in Ids, MemoryUpsertVec(c, i) \/ MemoryRemoveVec(c, i)
          PROVE  \E x : Puts([Seen EXCEPT !.vectors = x])
      <3>1. CASE MemoryUpsertVec(c, i)
        BY <3>1 DEF MemoryUpsertVec
      <3>2. CASE MemoryRemoveVec(c, i)
        BY <3>2 DEF MemoryRemoveVec
      <3> QED
        BY <2>1, <3>1, <3>2
    <2>2. CASE Nearest(c) \/ SurrealGetNear(c) \/ MemoryGetNear(c)
      BY <1>2, <2>2 DEF Nearest, SurrealGetNear, MemoryGetNear
    <2> QED
      BY <1>9, <1>10, <1>11, <2>1, <2>2 DEF Index, SurrealUpsertVec, SurrealRemoveVec
  <1>12. ASSUME NEW x, Memory => at[c].pc = "push" /\ x = Seen.edges \cup {at[c].edge},
                Puts([Seen EXCEPT !.edges = x])
         PROVE  Statement(c)
    BY <1>0, <1>12, PartsState DEF Statement
  <1>13. CASE Graph(c)
    <2>1. ASSUME NEW i, NEW j, SurrealRelate(c, i, j)
          PROVE  Statement(c)
      <3> DEFINE x == Seen.edges \cup {<<i, j>>}
      <3>1. Puts([Seen EXCEPT !.edges = x]) /\ ~ Memory
        BY <2>1 DEF SurrealRelate, Surreal, Memory
      <3> HIDE DEF x
      <3> QED
        BY <1>12, <3>1
    <2>2. CASE PushEdge(c)
      <3> DEFINE x == Seen.edges \cup {at[c].edge}
      <3>1. Puts([Seen EXCEPT !.edges = x]) /\ at[c].pc = "push"
        BY <2>2 DEF PushEdge
      <3>2. x = Seen.edges \cup {at[c].edge}
        OBVIOUS
      <3> HIDE DEF x
      <3> QED
        BY <1>12, <3>1, <3>2
    <2>3. CASE Target(c) \/ SurrealWalk(c) \/ Fetch(c)
      BY <1>2, <2>3 DEF Target, SurrealWalk, Fetch
    <2>4. ASSUME NEW i, NEW j, Source(c, i, j) \/ MemoryWalk(c, i)
          PROVE  Statement(c)
      BY <1>2, <2>4 DEF Source, MemoryWalk
    <2> QED
      BY <1>13, <2>1, <2>2, <2>3, <2>4 DEF Graph
  <1> QED
    BY <1>1, <1>8, <1>11, <1>13 DEF Calls

LEMMA OpenIsSome == \A d, b : [data |-> d, doomed |-> b] # NoTx
  <1> TAKE d, b
  <1>1. "data" \in DOMAIN [data |-> d, doomed |-> b] /\ "data" \notin DOMAIN NoTx
    BY DEF NoTx
  <1> QED
    BY <1>1

LEMMA BoundsAreNumbers == MaxMarks \in Nat /\ MaxCalls \in Nat
  BY ClientAssumption, Zenon

LEMMA InitWhole == ClientInit => WholeInv
  <1> SUFFICES ASSUME ClientInit PROVE WholeInv
    OBVIOUS
  <1>1. PICK rows : db = Fresh(rows)
    BY DEF ClientInit
  <1>2. db.versions = <<>> /\ db.schema = {} /\ db.marks = {}
    BY <1>1 DEF Fresh
  <1>3. Range(db.versions) = {}
    BY <1>2 DEF Range
  <1>4. Told(db)
    BY <1>2, <1>3 DEF Told, Once, IsInjective
  <1>5. \A x, n : MarksOf(x, n, db) = {}
    BY <1>2 DEF MarksOf
  <1>6. 0 \in 0..MaxMarks /\ 1..0 = {} /\ MaxCalls \in Int
    BY BoundsAreNumbers
  <1>7. MarksInv
    BY <1>5, <1>6 DEF MarksInv, ClientInit
  <1>8. OpenInv
    BY IdleIsOutside DEF OpenInv, ClientInit
  <1> QED
    BY <1>4, <1>6, <1>7, <1>8 DEF WholeInv, ClientInit

\* How a client that goes on leaves the others.
LEMMA Others ==
  ASSUME Inv, WholeInv, NEW c \in Clients, NEW s, Goes(c, s)
  PROVE  /\ at'[c] = s
         /\ \A x \in Clients \ {c} : at'[x] = at[x] /\ left'[x] = left[x]
         /\ left' = [x \in Clients |-> left'[x]]
         /\ left'[c] = IF s = Idle THEN left[c] - 1 ELSE left[c]
         /\ \A x \in Clients : left'[x] \in Int /\ left'[x] <= left[x]
         /\ \A x \in Clients \ {c} : InTx(x)' <=> InTx(x)
  <1>1. /\ at = [x \in Clients |-> at[x]]
        /\ left = [x \in Clients |-> left[x]] /\ \A x \in Clients : left[x] \in Int
    BY DEF Inv, ControlInv, WholeInv
  <1>2. /\ at'[c] = s
        /\ \A x \in Clients \ {c} : at'[x] = at[x] /\ left'[x] = left[x]
        /\ left' = [x \in Clients |-> left'[x]]
        /\ left'[c] = IF s = Idle THEN left[c] - 1 ELSE left[c]
    BY <1>1 DEF Goes
  <1>3. \A x \in Clients : left'[x] \in Int /\ left'[x] <= left[x]
    BY <1>1, <1>2
  <1> QED
    BY <1>2, <1>3 DEF InTx

\* What is committed keeps its marks when it is not touched.
LEMMA MarksRest ==
  ASSUME MarksInv, db'.marks = db.marks, UNCHANGED undone,
         \A x \in Clients : left[x] \in Int /\ left'[x] \in Int /\ left'[x] <= left[x]
  PROVE  MarksInv'
  <1> SUFFICES ASSUME NEW x \in Clients, NEW n \in 0..MaxCalls
               PROVE  /\ \E k \in 0..MaxMarks : MarksOf(x, n, db)' = 1..k
                      /\ n <= left'[x] => MarksOf(x, n, db)' = {}
                      /\ <<x, n>> \in undone' => n > left'[x] /\ MarksOf(x, n, db)' = {}
    BY DEF MarksInv
  <1>1. MarksOf(x, n, db)' = MarksOf(x, n, db)
    BY DEF MarksOf
  <1>2. n \in Int
    OBVIOUS
  <1> QED
    BY <1>1, <1>2 DEF MarksInv

LEMMA StatementKeeps ==
  ASSUME Inv, NEW c, Statement(c)
  PROVE  /\ UNCHANGED <<backend, cut>>
         /\ Meta(db') = Meta(db)
         /\ work = NoTx <=> work' = NoTx
         /\ work' # NoTx /\ ~ work'.doomed =>
               ~ work.doomed /\ Meta(work'.data) = Meta(work.data)
  <1>0. work # NoTx => work = [data |-> work.data, doomed |-> work.doomed]
    BY DEF Inv, DataInv
  <1>1. CASE UNCHANGED client
    BY <1>1 DEF client
  <1>2. CASE Fails
    <2>1. work # NoTx => work' = [data |-> work.data, doomed |-> TRUE]
      BY <1>0, <1>2 DEF Fails
    <2> QED
      BY <1>2, <2>1, OpenIsSome DEF Fails
  <1>3. ASSUME NEW d, Puts(d), Meta(d) = Meta(Seen), ~ Doomed, work = NoTx
        PROVE  db' = d /\ work' = work /\ UNCHANGED <<backend, cut>> /\ Meta(d) = Meta(db)
    BY <1>3 DEF Puts, Seen
  <1>4. ASSUME NEW d, Puts(d), Meta(d) = Meta(Seen), ~ Doomed, work # NoTx
        PROVE  /\ db' = db /\ UNCHANGED <<backend, cut>> /\ Meta(d) = Meta(work.data)
               /\ work' = [data |-> d, doomed |-> work.doomed]
    BY <1>0, <1>4 DEF Puts, Seen
  <1>5. ASSUME NEW d, Puts(d), Meta(d) = Meta(Seen), Doomed
        PROVE  db' = db /\ work' = work /\ UNCHANGED <<backend, cut>>
    BY <1>5 DEF Puts, client
  <1>6. CASE \E d : Puts(d) /\ Meta(d) = Meta(Seen)
    <2>1. PICK d : Puts(d) /\ Meta(d) = Meta(Seen)
      BY <1>6
    <2>2. CASE ~ Doomed /\ work # NoTx
      <3>1. work' = [data |-> d, doomed |-> work.doomed]
        BY <1>4, <2>1, <2>2
      <3> QED
        BY <1>4, <2>1, <2>2, <3>1, OpenIsSome
    <2>3. CASE Doomed
      BY <1>5, <2>1, <2>3 DEF Doomed
    <2>4. CASE ~ Doomed /\ work = NoTx
      BY <1>3, <2>1, <2>4
    <2> QED
      BY <2>2, <2>3, <2>4
  <1> QED
    BY <1>1, <1>2, <1>6 DEF Statement

\* A statement outside transactions.
LEMMA OutsideWhole ==
  ASSUME Inv, WholeInv, NEW c \in Clients, ~ InTx(c), Statement(c), UNCHANGED undone,
         NEW s, Goes(c, s), s.pc \notin InTxPlaces
  PROVE  WholeInv'
  <1>1. /\ at'[c] = s /\ ~ InTx(c)'
        /\ \A x \in Clients \ {c} : at'[x] = at[x] /\ left'[x] = left[x]
        /\ left' = [x \in Clients |-> left'[x]]
        /\ \A x \in Clients : left'[x] \in Int /\ left'[x] <= left[x]
        /\ \A x \in Clients : InTx(x)' => InTx(x)
    BY Others DEF InTx, InTxPlaces
  <1>2. /\ UNCHANGED <<backend, cut>>
        /\ Meta(db') = Meta(db)
        /\ work = NoTx <=> work' = NoTx
        /\ work' # NoTx /\ ~ work'.doomed => ~ work.doomed /\ Meta(work'.data) = Meta(work.data)
    BY StatementKeeps
  <1>3. /\ db'.marks = db.marks /\ db'.versions = db.versions /\ db'.schema = db.schema
        /\ work' # NoTx /\ ~ work'.doomed =>
              /\ work'.data.marks = work.data.marks
              /\ work'.data.versions = work.data.versions
              /\ work'.data.schema = work.data.schema
    BY <1>2 DEF Meta
  <1>4. OpenInv'
    <2> SUFFICES ASSUME NEW x \in Clients, InTx(x)' PROVE OpenFor(x)'
      BY DEF OpenInv
    <2>1. x # c /\ InTx(x) /\ at'[x] = at[x] /\ left'[x] = left[x]
      BY <1>1
    <2>2. OwnMarks(x)' = OwnMarks(x)
      BY <2>1 DEF OwnMarks
    <2>3. OpenFor(x)
      BY <2>1 DEF WholeInv, OpenInv
    <2>4. /\ \A o \in Clients : InTx(o)' => o = x
          /\ Keeps(at[x])'
      BY <1>1, <1>2, <2>1, <2>3 DEF OpenFor, Keeps, Surreal
    <2>5. Surreal' /\ cut' # "foreign" => Surreal /\ cut # "foreign" /\ work' # NoTx
      BY <1>2, <2>3 DEF OpenFor, Surreal
    <2>6. ASSUME Surreal, cut # "foreign", work' # NoTx, ~ work'.doomed
          PROVE  work'.data.marks = db'.marks \cup OwnMarks(x)' /\ Tells(work.data, at[x])'
      BY <1>2, <1>3, <2>1, <2>2, <2>3, <2>6 DEF OpenFor, Tells
    <2> QED
      BY <2>4, <2>5, <2>6 DEF OpenFor
  <1>5. cut' # "foreign" => Told(db)' /\ MarksInv'
    BY <1>1, <1>2, <1>3, MarksRest DEF WholeInv, Told, Surreal
  <1> QED
    BY <1>1, <1>4, <1>5 DEF WholeInv

LEMMA CallWhole ==
  ASSUME Inv, WholeInv, NEW c \in Clients, Calls(c), UNCHANGED undone
  PROVE  WholeInv'
  <1>1. ~ InTx(c) /\ Statement(c)
    BY CallMoves, CallStates
  <1>2. PICK s : Goes(c, s) /\ s.pc \notin InTxPlaces
    BY CallMoves DEF Leaves
  <1> QED
    BY <1>1, <1>2, OutsideWhole

\* A transaction begins with what is committed.
LEMMA BeginWhole ==
  ASSUME Inv, WholeInv, NEW c \in Clients, MayOpen(c), Surreal, Opens, UNCHANGED undone,
         NEW s, Goes(c, s), s.pc \in {"tx", "script"}, Keeps(s), s.pc = "tx" => s.done = 0
  PROVE  WholeInv'
  <1>1. \A x \in Clients : ~ InTx(x)
    BY DEF MayOpen
  <1>2. /\ work' = [data |-> db, doomed |-> FALSE] /\ UNCHANGED <<backend, cut, db>>
        /\ work' # NoTx
    BY <1>1, OpenIsSome DEF Opens, Inv, ControlInv, OpenIsOwned
  <1>3. /\ at'[c] = s
        /\ left' = [x \in Clients |-> left'[x]]
        /\ \A x \in Clients : left'[x] \in Int /\ left'[x] <= left[x]
        /\ \A x \in Clients \ {c} : ~ InTx(x)'
    BY <1>1, Others
  <1>4. cut' # "foreign" => Told(db)' /\ MarksInv'
    BY <1>2, <1>3, MarksRest DEF WholeInv, Told, Surreal
  <1>5. OwnMarks(c)' = {}
    BY <1>3 DEF OwnMarks
  <1>6. cut # "foreign" => Tells(work'.data, s)
    BY <1>2 DEF WholeInv, Told, Tells
  <1>7. OpenFor(c)'
    BY <1>2, <1>3, <1>5, <1>6 DEF OpenFor, Keeps, Surreal, Tells
  <1> QED
    BY <1>3, <1>4, <1>7 DEF WholeInv, OpenInv

\* Its owner goes on with it.
LEMMA InsideWhole ==
  ASSUME Inv, WholeInv, NEW c \in Clients, InTx(c), Surreal, UNCHANGED undone,
         NEW s, Goes(c, s), s.pc \in InTxPlaces, Keeps(s),
         NEW d, \/ Fails
                \/ /\ Puts(d)
                   /\ cut # "foreign" /\ work # NoTx /\ ~ work.doomed =>
                         d.marks = db.marks \cup OwnMarks(c)' /\ Tells(d, s)
  PROVE  WholeInv'
  <1>0. OpenFor(c) /\ (work # NoTx => work = [data |-> work.data, doomed |-> work.doomed])
    BY DEF WholeInv, OpenInv, Inv, DataInv
  <1>1. /\ at'[c] = s
        /\ left' = [x \in Clients |-> left'[x]]
        /\ \A x \in Clients : left'[x] \in Int /\ left'[x] <= left[x]
        /\ \A x \in Clients \ {c} : ~ InTx(x)'
    BY <1>0, Others DEF OpenFor
  <1>2. UNCHANGED <<backend, cut>>
    BY DEF Fails, Puts, client
  <1>3. ASSUME cut # "foreign"
        PROVE  /\ work # NoTx /\ work' # NoTx /\ db' = db
               /\ ~ work'.doomed => /\ work'.data.marks = db.marks \cup OwnMarks(c)'
                                    /\ Tells(work'.data, s)
    <2>1. work # NoTx
      BY <1>0, <1>3 DEF OpenFor
    <2>2. CASE Fails
      <3>1. work' = [data |-> work.data, doomed |-> TRUE] /\ db' = db
        BY <1>0, <2>1, <2>2 DEF Fails
      <3> QED
        BY <2>1, <3>1, OpenIsSome
    <2>3. CASE Doomed /\ Puts(d)
      BY <2>1, <2>3 DEF Puts, client, Doomed
    <2>4. CASE ~ Doomed /\ Puts(d)
      <3>1. work' = [data |-> d, doomed |-> work.doomed] /\ db' = db /\ ~ work.doomed
        BY <1>0, <2>1, <2>4 DEF Puts, Doomed
      <3> QED
        BY <1>3, <2>1, <2>2, <3>1, OpenIsSome
    <2> QED
      BY <2>2, <2>3, <2>4
  <1>4. cut' # "foreign" => Told(db)' /\ MarksInv'
    BY <1>1, <1>2, <1>3, MarksRest DEF WholeInv, Told, Surreal
  <1>5. OpenFor(c)'
    BY <1>1, <1>2, <1>3 DEF OpenFor, Keeps, Surreal, Tells
  <1> QED
    BY <1>1, <1>4, <1>5 DEF WholeInv, OpenInv

\* It ends: as if it had not been, or as a whole.
LEMMA EndWhole ==
  ASSUME Inv, WholeInv, NEW c \in Clients, InTx(c), Goes(c, Idle), backend' = backend,
         work' = NoTx, cut' # "foreign" => cut # "foreign",
         \/ db' = db
         \/ /\ db' = work.data /\ undone' = undone
            /\ Surreal /\ work # NoTx /\ ~ work.doomed /\ at[c].pc \in {"commit", "tx"},
         undone' \in {undone, undone \cup {<<c, left[c]>>}}
  PROVE  WholeInv'
  <1>0. OpenFor(c)
    BY DEF WholeInv, OpenInv
  <1>1. /\ at'[c] = Idle /\ ~ InTx(c)'
        /\ left' = [x \in Clients |-> left'[x]] /\ left'[c] = left[c] - 1
        /\ \A x \in Clients : left[x] \in Int /\ left'[x] \in Int /\ left'[x] <= left[x]
        /\ \A x \in Clients : ~ InTx(x)'
    BY <1>0, Others DEF OpenFor, WholeInv, InTx, Idle
  <1>2. ASSUME cut # "foreign", db' = work.data, db' # db
        PROVE  /\ Once(db'.versions) /\ Range(db'.versions) = db'.schema
               /\ db'.marks = db.marks \cup OwnMarks(c)
    BY <1>0, <1>2 DEF OpenFor, Tells
  <1>3. cut' # "foreign" => Told(db)'
    BY <1>2 DEF WholeInv, Told, Surreal
  <1>4. ASSUME cut # "foreign", NEW x \in Clients, NEW n \in 0..MaxCalls
        PROVE  /\ \E k \in 0..MaxMarks : MarksOf(x, n, db)' = 1..k
               /\ n <= left'[x] => MarksOf(x, n, db)' = {}
               /\ <<x, n>> \in undone' => n > left'[x] /\ MarksOf(x, n, db)' = {}
    <2>1. /\ \E k \in 0..MaxMarks : MarksOf(x, n, db) = 1..k
          /\ n <= left[x] => MarksOf(x, n, db) = {}
          /\ <<x, n>> \in undone => n > left[x] /\ MarksOf(x, n, db) = {}
          /\ n \in Int
      BY <1>4 DEF WholeInv, MarksInv
    <2>2. CASE db' = db
      <3>1. MarksOf(x, n, db)' = MarksOf(x, n, db)
        BY <2>2 DEF MarksOf
      <3>2. <<x, n>> \in undone' => <<x, n>> \in undone \/ (x = c /\ n = left[c])
        OBVIOUS
      <3> QED
        BY <1>1, <2>1, <3>1, <3>2
    <2>3. CASE db' # db /\ <<x, n>> # <<c, left[c]>>
      <3>1. MarksOf(x, n, db)' = MarksOf(x, n, db)
        BY <1>2, <1>4, <2>3 DEF MarksOf, OwnMarks
      <3>2. undone' = undone
        BY <2>3
      <3> QED
        BY <1>1, <2>1, <3>1, <3>2
    <2>4. CASE db' # db /\ x = c /\ n = left[c]
      <3>1. MarksOf(x, n, db) = {} /\ <<x, n>> \notin undone' /\ ~ (n <= left'[x])
        BY <1>1, <2>1, <2>4
      <3>2. CASE at[c].pc = "tx"
        <4>1. at[c].done \in 0..MaxMarks
          BY <1>0, <3>2 DEF OpenFor, Keeps
        <4>2. MarksOf(x, n, db)' = 1..at[c].done
          <5> DEFINE own == {<<c, left[c], i>> : i \in 1..at[c].done}
          <5>1. db'.marks = db.marks \cup own
            BY <1>2, <1>4, <2>4, <3>2 DEF OwnMarks
          <5>2. 1..at[c].done \subseteq 1..MaxMarks
            BY <4>1, BoundsAreNumbers
          <5>3. \A i : <<x, n, i>> \in own <=> i \in 1..at[c].done
            BY <2>4
          <5> HIDE DEF own
          <5> QED
            BY <3>1, <5>1, <5>2, <5>3 DEF MarksOf
        <4> QED
          BY <3>1, <4>1, <4>2
      <3>3. CASE at[c].pc # "tx"
        <4>1. MarksOf(x, n, db)' = MarksOf(x, n, db)
          BY <1>2, <1>4, <2>4, <3>3 DEF MarksOf, OwnMarks
        <4> QED
          BY <2>1, <3>1, <4>1
      <3> QED
        BY <3>2, <3>3
    <2> QED
      BY <2>2, <2>3, <2>4
  <1>5. cut' # "foreign" => MarksInv'
    BY <1>4 DEF MarksInv
  <1> QED
    BY <1>1, <1>3, <1>5 DEF WholeInv, OpenInv

\* Explicit transactions.
LEMMA TxWhole ==
  ASSUME Inv, WholeInv, NEW c \in Clients,
         \/ TxRollback(c)
         \/ (TxBegin(c) \/ TxExecute(c) \/ TxCommit(c)) /\ UNCHANGED undone
  PROVE  WholeInv'
  <1>0. Memory => work = NoTx
    BY DEF Inv, ControlInv
  <1>s. Surreal \/ Memory
    BY OneBackend DEF Inv
  <1>1. CASE TxBegin(c) /\ UNCHANGED undone
    <2> DEFINE s == [pc |-> "tx", done |-> 0]
    <2>1. MayOpen(c) /\ Goes(c, s) /\ s.pc = "tx" /\ s.done = 0
      BY <1>1 DEF TxBegin
    <2>2. Keeps(s)
      BY BoundsAreNumbers DEF Keeps
    <2> HIDE DEF s
    <2>3. CASE Surreal
      <3>1. Opens
        BY <1>1, <2>3 DEF TxBegin
      <3> QED
        BY <1>1, <2>1, <2>2, <2>3, <3>1, BeginWhole
    <2>4. CASE ~ Surreal
      <3>1. UNCHANGED client
        BY <1>1, <2>4 DEF TxBegin
      <3>2. /\ at'[c] = s
            /\ left' = [x \in Clients |-> left'[x]]
            /\ \A x \in Clients : left'[x] \in Int /\ left'[x] <= left[x]
            /\ \A x \in Clients \ {c} : ~ InTx(x)'
        BY <2>1, Others DEF MayOpen
      <3>3. cut' # "foreign" => Told(db)' /\ MarksInv'
        BY <1>1, <3>1, <3>2, MarksRest DEF client, WholeInv, Told, Surreal
      <3>4. OpenFor(c)'
        BY <2>1, <2>2, <2>4, <3>1, <3>2 DEF client, OpenFor, Keeps, Surreal
      <3> QED
        BY <3>2, <3>3, <3>4 DEF WholeInv, OpenInv
    <2> QED
      BY <2>3, <2>4
  <1>2. CASE TxExecute(c) /\ UNCHANGED undone
    <2>1. InTx(c) /\ OpenFor(c) /\ at[c].pc = "tx"
      BY <1>2 DEF TxExecute, InTx, WholeInv, OpenInv
    <2>2. CASE Surreal
      <3> DEFINE n == at[c].done
                 s == [at[c] EXCEPT !.done = @ + 1]
                 own == {<<c, left[c], i>> : i \in 1..n}
                 marks == Seen.marks \cup {<<c, left[c], n + 1>>}
                 d == [Seen EXCEPT !.marks = marks]
      <3>1. /\ at[c].done < MaxMarks /\ Goes(c, s)
            /\ Puts([Seen EXCEPT !.marks = @ \cup {<<c, left[c], at[c].done + 1>>}])
        BY <1>2, <2>2 DEF TxExecute
      <3>p. Puts(d)
        BY <3>1
      <3>g. Goes(c, s)
        BY <3>1
      <3>n. n \in 0..MaxMarks /\ n < MaxMarks /\ at[c] = [pc |-> "tx", done |-> n]
        BY <2>1, <3>1 DEF OpenFor, Keeps
      <3>2. s = [pc |-> "tx", done |-> n + 1] /\ n + 1 \in 0..MaxMarks
        BY <3>n, BoundsAreNumbers
      <3>3. Keeps(s) /\ s.pc \in InTxPlaces /\ s # Idle
        BY <3>2, IdleHolds DEF Keeps, InTxPlaces
      <3>4. d.marks = marks /\ d.versions = Seen.versions /\ d.schema = Seen.schema
        BY SeenSane DEF Inv, Sane, Tabled
      <3>5. at'[c] = s /\ left'[c] = left[c]
        BY <3>g, <3>3, Others
      <3>6. OwnMarks(c) = own
        BY <2>1 DEF OwnMarks
      <3>7. OwnMarks(c)' = own \cup {<<c, left[c], n + 1>>}
        <4>1. OwnMarks(c)' = {<<c, left[c], i>> : i \in 1..(n + 1)}
          BY <3>2, <3>5 DEF OwnMarks
        <4>2. 1..(n + 1) = (1..n) \cup {n + 1}
          BY <3>n
        <4> QED
          BY <4>1, <4>2
      <3> HIDE DEF d, s, n, own
      <3>8. ASSUME cut # "foreign", work # NoTx, ~ work.doomed
            PROVE  d.marks = db.marks \cup OwnMarks(c)' /\ Tells(d, s)
        <4>1. Seen.marks = db.marks \cup own /\ Tells(Seen, at[c])
          BY <2>1, <2>2, <3>6, <3>8 DEF Seen, OpenFor
        <4> QED
          BY <2>1, <3>2, <3>4, <3>7, <4>1 DEF Tells
      <3> QED
        BY <1>2, <2>1, <2>2, <3>g, <3>p, <3>3, <3>8, InsideWhole
    <2>3. CASE ~ Surreal
      <3>1. UNCHANGED client /\ Goes(c, Idle)
        BY <1>2, <2>3 DEF TxExecute
      <3> QED
        BY <1>0, <1>s, <1>2, <2>1, <2>3, <3>1, EndWhole DEF client
    <2> QED
      BY <2>2, <2>3
  <1>3. CASE TxCommit(c) /\ UNCHANGED undone
    <2>1. InTx(c) /\ Goes(c, Idle) /\ at[c].pc = "tx"
      BY <1>3 DEF TxCommit, InTx
    <2>2. CASE Surreal
      <3>1. /\ work' = NoTx /\ UNCHANGED <<backend, cut>>
            /\ db' = db \/ (db' = work.data /\ work # NoTx /\ ~ work.doomed)
        BY <1>3, <2>2 DEF TxCommit, Commits, Closes, Doomed
      <3> QED
        BY <1>3, <2>1, <2>2, <3>1, EndWhole
    <2>3. CASE ~ Surreal
      BY <1>0, <1>s, <1>3, <2>1, <2>3, EndWhole DEF TxCommit, client
    <2> QED
      BY <2>2, <2>3
  <1>4. CASE TxRollback(c)
    <2>1. InTx(c) /\ Goes(c, Idle) /\ undone' = undone \cup {<<c, left[c]>>}
      BY <1>4 DEF TxRollback, InTx
    <2>2. db' = db /\ work' = NoTx /\ UNCHANGED <<backend, cut>>
      BY <1>0, <1>s, <1>4 DEF TxRollback, Cancels, Closes, client
    <2> QED
      BY <2>1, <2>2, EndWhole
  <1> QED
    BY <1>1, <1>2, <1>3, <1>4

LEMMA ListsAreFinite ==
  ASSUME NEW list \in Lists("up")
  PROVE  IsFiniteSet(Range(list))
  <1>1. IsFiniteSet(Range(Scripts))
    <2>1. Scripts \in Seq(Range(Scripts))
      BY ClientAssumption, Zenon
    <2>2. Len(Scripts) \in Nat /\ Scripts \in [1..Len(Scripts) -> Range(Scripts)]
      BY <2>1
    <2>3. Scripts \in Surjection(1..Len(Scripts), Range(Scripts))
      BY <2>2 DEF Surjection, Range
    <2>4. IsFiniteSet(1..Len(Scripts))
      BY <2>2, FS_Interval
    <2> QED
      BY <2>3, <2>4, FS_Surjection, Zenon
  <1>2. ASSUME NEW q \in Pending(Seen)
        PROVE  IsFiniteSet(Range(q))
    <2> DEFINE chosen == Range(Scripts) \ Range(Seen.versions)
    <2>1. IsFiniteSet(chosen) /\ chosen \subseteq Range(Scripts)
      BY <1>1, FS_Difference
    <2>2. q \in InOrder(chosen)
      BY <1>2 DEF Pending
    <2> HIDE DEF chosen
    <2>3. Range(q) \subseteq chosen
      BY <2>1, <2>2, OrderedOnce
    <2> QED
      BY <2>1, <2>3, FS_Subset
  <1>3. ASSUME NEW s
        PROVE  IsFiniteSet(Range(<<s>>))
    <2>1. Range(<<s>>) = {s}
      BY DEF Range
    <2> QED
      BY <2>1, FS_Singleton
  <1> QED
    BY <1>1, <1>2, <1>3 DEF Lists

\* Migrations.
LEMMA MigrateWhole ==
  ASSUME Inv, WholeInv, NEW c \in Clients, UNCHANGED undone,
         \/ Migrate(c) \/ RunScript(c) \/ RunBroken(c) \/ Record(c) \/ MigrateCommit(c)
         \/ MigrateMemory(c)
  PROVE  WholeInv'
  <1>1. CASE Migrate(c)
    <2>1. PICK dir \in {"up", "down"} : \E list \in Lists(dir) :
            IF list = <<>> THEN UNCHANGED <<client, stay>> /\ Goes(c, Idle)
            ELSE Opens /\ Goes(c, [pc |-> "script", dir |-> dir, todo |-> list])
      BY <1>1 DEF Migrate
    <2>2. PICK list \in Lists(dir) :
            IF list = <<>> THEN UNCHANGED <<client, stay>> /\ Goes(c, Idle)
            ELSE Opens /\ Goes(c, [pc |-> "script", dir |-> dir, todo |-> list])
      BY <2>1
    <2>3. ~ InTx(c) /\ MayOpen(c) /\ Surreal
      BY <1>1, IdleIsOutside DEF Migrate, MayOpen
    <2>4. CASE list = <<>>
      <3>1. Statement(c) /\ Goes(c, Idle) /\ Idle.pc \notin InTxPlaces
        BY <2>2, <2>4 DEF Statement, Idle, InTxPlaces
      <3> QED
        BY <2>3, <3>1, OutsideWhole
    <2>5. CASE list # <<>>
      <3> DEFINE s == [pc |-> "script", dir |-> dir, todo |-> list]
      <3>1. Opens /\ Goes(c, s)
        BY <2>2, <2>5
      <3>2. Keeps(s) /\ s.pc = "script"
        BY <2>3 DEF Keeps
      <3> HIDE DEF s
      <3> QED
        BY <2>3, <3>1, <3>2, BeginWhole
    <2> QED
      BY <2>4, <2>5
  <1>2. ASSUME RunScript(c) \/ RunBroken(c) \/ Record(c) \/ MigrateCommit(c)
        PROVE  /\ InTx(c) /\ OpenFor(c) /\ Surreal
               /\ cut # "foreign" /\ work # NoTx /\ ~ work.doomed =>
                     Seen.marks = db.marks \cup OwnMarks(c) /\ Tells(Seen, at[c])
    <2>1. InTx(c) /\ at[c].pc # "tx"
      BY <1>2 DEF RunScript, RunBroken, Record, MigrateCommit, InTx
    <2> QED
      BY <2>1 DEF WholeInv, OpenInv, OpenFor, Keeps, Seen
  <1>3. CASE RunScript(c)
    <2> DEFINE s == [at[c] EXCEPT !.pc = "record"]
               t == Head(at[c].todo)
               run == IF at[c].dir = "up" THEN Seen.schema \cup {t} ELSE Seen.schema \ {t}
               d == [Seen EXCEPT !.schema = run]
    <2>1. Goes(c, s) /\ (Fails \/ Puts(d)) /\ at[c].pc = "script"
      BY <1>3 DEF RunScript
    <2>2. s = [pc |-> "record", dir |-> at[c].dir, todo |-> at[c].todo]
      BY <1>2, <1>3, <2>1 DEF OpenFor, Keeps
    <2>3. Keeps(s) /\ s.pc \in InTxPlaces
      BY <1>2, <1>3, <2>2 DEF Keeps, InTxPlaces
    <2>4. d.marks = Seen.marks /\ d.versions = Seen.versions /\ d.schema = run
      BY SeenSane DEF Inv, Sane, Tabled
    <2> HIDE DEF s, d
    <2>5. at'[c] = s
      BY <2>1, Others
    <2>6. OwnMarks(c) = {} /\ OwnMarks(c)' = {}
      BY <2>1, <2>2, <2>5 DEF OwnMarks
    <2>7. Tells(Seen, at[c]) => Tells(d, s)
      BY <2>1, <2>2, <2>4 DEF Tells
    <2> QED
      BY <1>2, <1>3, <2>1, <2>3, <2>4, <2>6, <2>7, InsideWhole
  <1>4. CASE Record(c)
    <2> DEFINE t == Head(at[c].todo)
               told == IF at[c].dir = "up" THEN Append(Seen.versions, t)
                       ELSE RemoveFirst(Seen.versions, t)
               d == [Seen EXCEPT !.versions = told]
    <2>1. PICK s : /\ Goes(c, s)
                   /\ s = IF Len(at[c].todo) = 1 THEN [pc |-> "commit"]
                          ELSE [at[c] EXCEPT !.pc = "script", !.todo = Tail(@)]
      BY <1>4 DEF Record
    <2>2. at[c].pc = "record" /\ at[c] = [pc |-> "record", dir |-> at[c].dir, todo |-> at[c].todo]
      BY <1>2, <1>4 DEF Record, OpenFor, Keeps
    <2>3. /\ s.pc \in {"commit", "script"}
          /\ s.pc = "script" => s = [pc |-> "script", dir |-> s.dir, todo |-> s.todo]
      BY <2>1, <2>2
    <2>4. Keeps(s) /\ s.pc \in InTxPlaces
      BY <1>2, <1>4, <2>3 DEF Keeps, InTxPlaces
    <2>5. \/ Fails
          \/ Puts(d) /\ ~ (at[c].dir = "up" /\ t \in Range(Seen.versions))
      BY <1>4 DEF Record
    <2>6. d.marks = Seen.marks /\ d.versions = told /\ d.schema = Seen.schema
      BY SeenSane DEF Inv, Sane, Tabled
    <2> HIDE DEF d
    <2>7. at'[c] = s
      BY <2>1, Others
    <2>8. OwnMarks(c) = {} /\ OwnMarks(c)' = {}
      BY <2>2, <2>3, <2>7 DEF OwnMarks
    <2>9. ASSUME Tells(Seen, at[c]), ~ (at[c].dir = "up" /\ t \in Range(Seen.versions))
          PROVE  Tells(d, s)
      <3>1. Once(Seen.versions)
        BY <2>9 DEF Tells
      <3>2. CASE at[c].dir = "up"
        <4>1. Seen.schema = Range(Seen.versions) \cup {t} /\ told = Append(Seen.versions, t)
          BY <2>2, <2>9, <3>2 DEF Tells
        <4>2. Once(told) /\ Range(told) = Range(Seen.versions) \cup {t}
          BY <2>9, <3>1, <3>2, <4>1, OnceAppend
        <4> HIDE DEF told
        <4> QED
          BY <2>3, <2>6, <4>1, <4>2 DEF Tells
      <3>3. CASE at[c].dir # "up"
        <4>1. Seen.schema = Range(Seen.versions) \ {t} /\ told = RemoveFirst(Seen.versions, t)
          BY <2>2, <2>9, <3>3 DEF Tells
        <4>2. Once(told) /\ Range(told) = Range(Seen.versions) \ {t}
          BY <3>1, <4>1, OnceRemoved
        <4> HIDE DEF told
        <4> QED
          BY <2>3, <2>6, <4>1, <4>2 DEF Tells
      <3> QED
        BY <3>2, <3>3
    <2> HIDE DEF t
    <2> QED
      BY <1>2, <1>4, <2>1, <2>4, <2>5, <2>6, <2>8, <2>9, InsideWhole
  <1>5. CASE RunBroken(c)
    BY <1>2, <1>5, EndWhole DEF RunBroken, Cancels, Closes
  <1>6. CASE MigrateCommit(c)
    <2>1. /\ work' = NoTx /\ UNCHANGED <<backend, cut>> /\ at[c].pc = "commit"
          /\ db' = db \/ (db' = work.data /\ work # NoTx /\ ~ work.doomed)
      BY <1>6 DEF MigrateCommit, Commits, Closes, Doomed
    <2> QED
      BY <1>2, <1>6, <2>1, EndWhole DEF MigrateCommit
  <1>7. CASE MigrateMemory(c)
    <2>1. ~ InTx(c) /\ Goes(c, Idle) /\ UNCHANGED <<backend, work, cut>> /\ Memory
      BY <1>7, IdleIsOutside DEF MigrateMemory
    <2>2. /\ left' = [x \in Clients |-> left'[x]]
          /\ \A x \in Clients : left[x] \in Int /\ left'[x] \in Int /\ left'[x] <= left[x]
          /\ ~ InTx(c)'
          /\ \A x \in Clients \ {c} : at'[x] = at[x] /\ (InTx(x)' <=> InTx(x))
      BY <2>1, Others DEF WholeInv, InTx, Idle
    <2>3. PICK told : /\ db' = [db EXCEPT !.versions = told]
                      /\ cut # "foreign" => Once(told)
      <3>1. cut # "foreign" => Once(db.versions)
        BY DEF WholeInv, Told
      <3>2. ASSUME NEW list \in Lists("up"), NEW new \in InOrder(Range(list) \ Range(db.versions)),
                   cut # "foreign"
            PROVE  Once(db.versions \o new)
        <4>1. IsFiniteSet(Range(list) \ Range(db.versions))
          BY ListsAreFinite, FS_Difference
        <4>2. Once(new) /\ Range(new) \cap Range(db.versions) = {}
          BY <4>1, OrderedOnce
        <4> QED
          BY <3>1, <3>2, <4>2, OnceJoined
      <3>3. ASSUME NEW t, cut # "foreign"
            PROVE  Once(RemoveFirst(db.versions, t))
        BY <3>1, <3>3, OnceRemoved
      <3>4. \/ \E list \in Lists("up") : \E new \in InOrder(Range(list) \ Range(db.versions)) :
                  db' = [db EXCEPT !.versions = db.versions \o new]
            \/ \E list : db' = [db EXCEPT !.versions = IF list = <<>> THEN db.versions
                                                      ELSE RemoveFirst(db.versions, Head(list))]
        BY <1>7 DEF MigrateMemory
      <3> QED
        BY <3>1, <3>2, <3>3, <3>4
    <2>4. db'.versions = told /\ db'.marks = db.marks
      BY <2>3 DEF Inv, DataInv, Sane, Tabled
    <2>5. OpenInv'
      <3> SUFFICES ASSUME NEW x \in Clients, InTx(x)' PROVE OpenFor(x)'
        BY DEF OpenInv
      <3>1. x # c /\ InTx(x) /\ at'[x] = at[x] /\ OpenFor(x)
        BY <2>1, <2>2 DEF WholeInv, OpenInv
      <3> QED
        BY <2>1, <2>2, <3>1 DEF OpenFor, Keeps, Surreal, Memory
    <2>6. cut' # "foreign" => Told(db)' /\ MarksInv'
      BY <2>1, <2>2, <2>3, <2>4, MarksRest DEF WholeInv, Told, Surreal, Memory
    <2> QED
      BY <2>2, <2>5, <2>6 DEF WholeInv
  <1> QED
    BY <1>1, <1>3, <1>4, <1>5, <1>6, <1>7

\* The loss of the connection ends the transaction, of whomever it was.
LEMMA LoseWhole ==
  ASSUME Inv, WholeInv, NEW c \in Clients, Lose(c), UNCHANGED undone
  PROVE  WholeInv'
  <1>1. /\ Surreal /\ cut = "no" /\ Goes(c, Idle) /\ work' = NoTx /\ backend' = backend
        /\ cut' = IF work # NoTx /\ ~ InTx(c) THEN "foreign" ELSE "own"
        /\ \/ db' = db
           \/ db' = work.data /\ at[c].pc \in {"commit", "tx"} /\ work # NoTx /\ ~ Doomed
    BY DEF Lose
  <1>2. CASE InTx(c)
    BY <1>1, <1>2, EndWhole DEF Doomed
  <1>3. CASE ~ InTx(c)
    <2>1. db' = db
      BY <1>1, <1>3 DEF InTx
    <2>2. /\ left' = [x \in Clients |-> left'[x]]
          /\ \A x \in Clients : left[x] \in Int /\ left'[x] \in Int /\ left'[x] <= left[x]
          /\ ~ InTx(c)'
          /\ \A x \in Clients \ {c} : at'[x] = at[x] /\ (InTx(x)' <=> InTx(x))
      BY <1>1, Others DEF WholeInv, InTx, Idle
    <2>3. ASSUME NEW x \in Clients, InTx(x)'
          PROVE  cut' = "foreign" /\ OpenFor(x)'
      <3>1. x # c /\ InTx(x) /\ at'[x] = at[x] /\ OpenFor(x)
        BY <2>2, <2>3 DEF WholeInv, OpenInv
      <3>2. cut' = "foreign"
        BY <1>1, <1>3, <3>1 DEF OpenFor
      <3> QED
        BY <1>1, <2>2, <3>1, <3>2 DEF OpenFor, Keeps, Surreal
    <2>4. Told(db)' /\ MarksInv'
      BY <1>1, <2>1, <2>2, MarksRest DEF WholeInv, Told, Surreal
    <2> QED
      BY <2>2, <2>3, <2>4 DEF WholeInv, OpenInv
  <1> QED
    BY <1>2, <1>3

LEMMA NextWhole == Inv /\ WholeInv /\ [StorageNext]_vars => WholeInv'
  <1> SUFFICES ASSUME Inv, WholeInv, [StorageNext]_vars PROVE WholeInv'
    OBVIOUS
  <1>1. CASE UNCHANGED vars
    BY <1>1 DEF vars, client, WholeInv, OpenInv, OpenFor, Keeps, OwnMarks, Tells, Told, MarksInv,
       MarksOf, InTx, Surreal
  <1>2. ASSUME NEW c \in Clients, Step(c)
        PROVE  WholeInv'
    <2>1. CASE Calls(c) /\ UNCHANGED undone
      BY <2>1, CallWhole
    <2>2. CASE Lose(c) /\ UNCHANGED undone
      BY <2>2, LoseWhole
    <2>3. CASE \/ TxRollback(c)
               \/ (TxBegin(c) \/ TxExecute(c) \/ TxCommit(c)) /\ UNCHANGED undone
      BY <2>3, TxWhole
    <2>4. CASE /\ UNCHANGED undone
               /\ \/ Migrate(c) \/ RunScript(c) \/ RunBroken(c) \/ Record(c) \/ MigrateCommit(c)
                  \/ MigrateMemory(c)
      BY <2>4, MigrateWhole
    <2>5. \/ ClientStep(c)
          \/ Calls(c) /\ UNCHANGED undone
      BY <1>2 DEF Step, Calls
    <2>6. CASE ClientStep(c)
      <3>1. \/ TxRollback(c)
            \/ (TxBegin(c) \/ TxExecute(c) \/ TxCommit(c)) /\ UNCHANGED undone
            \/ /\ UNCHANGED undone
               /\ \/ Migrate(c) \/ RunScript(c) \/ RunBroken(c) \/ Record(c) \/ MigrateCommit(c)
                  \/ MigrateMemory(c)
            \/ Lose(c) /\ UNCHANGED undone
        BY <2>6 DEF ClientStep
      <3> QED
        BY <2>2, <2>3, <2>4, <3>1
    <2> QED
      BY <2>1, <2>5, <2>6
  <1> QED
    BY <1>1, <1>2 DEF StorageNext, Over

LEMMA Wholeness == Spec => []WholeInv
  BY InitWhole, NextWhole, Invariance, PTL DEF Spec

\* Whatever becomes of it, a transaction takes force as a whole or not at all, as
\* long as no other session's statement meets the loss of the connection in the
\* middle of it (apply_up, apply_down, Tx).
THEOREM TransactionsWhole == Spec => []TransactionsAreWhole
  <1>1. Told(db) => Cardinality(Range(db.versions)) = Len(db.versions)
    BY OnceCounted DEF Told
  <1>2. ASSUME MarksInv, NEW x \in Clients, NEW n \in 0..MaxCalls
        PROVE  /\ MarksOf(x, n, db) = 1..Cardinality(MarksOf(x, n, db))
               /\ <<x, n>> \in undone => MarksOf(x, n, db) = {}
    <2>1. PICK k \in 0..MaxMarks : MarksOf(x, n, db) = 1..k
      BY <1>2 DEF MarksInv
    <2>2. Cardinality(1..k) = k
      <3>1. k \in Int /\ 1 \in Int /\ k >= 0
        BY BoundsAreNumbers
      <3>2. Cardinality(1..k) = IF 1 > k THEN 0 ELSE k - 1 + 1
        BY <3>1, FS_Interval, Zenon
      <3> QED
        BY <3>1, <3>2
    <2> QED
      BY <1>2, <2>1, <2>2 DEF MarksInv
  <1>3. WholeInv => TransactionsAreWhole
    BY <1>1, <1>2 DEF WholeInv, TransactionsAreWhole, Told
  <1> QED
    BY <1>3, Wholeness, PTL

-----------------------------------------------------------------------------
(* Edges of the in-memory graph.                                           *)

\* There was such a record.
Was(i) == db.rows[i] # None \/ i \in db.gone

\* Ends that were looked up were there, and once there they are not forgotten.
LookedUp(x) ==
    /\ at[x].pc = "target" => Was(at[x].edge[1])
    /\ at[x].pc = "push" => Was(at[x].edge[1]) /\ Was(at[x].edge[2])

EdgesInv ==
    Memory => /\ \A e \in db.edges : Was(e[1]) /\ Was(e[2])
              /\ \A x \in Clients : LookedUp(x)

\* A step that leaves records and edges, and looks nothing up.
LEMMA EdgesRest ==
  ASSUME Inv, EdgesInv, backend' = backend, NEW c \in Clients, NEW s, Goes(c, s),
         s.pc \notin {"target", "push"},
         Memory => db'.rows = db.rows /\ db'.gone = db.gone /\ db'.edges = db.edges
  PROVE  EdgesInv'
  <1>1. at'[c] = s /\ \A x \in Clients \ {c} : at'[x] = at[x]
    BY DEF Inv, ControlInv, Goes
  <1> QED
    BY <1>1 DEF EdgesInv, LookedUp, Was, Memory

LEMMA CallEdges ==
  ASSUME Inv, Inv', EdgesInv, NEW c \in Clients, Calls(c)
  PROVE  EdgesInv'
  <1>0. PICK s : Goes(c, s) /\ Leaves(c, s)
    BY CallMoves
  <1>1. at'[c] = s /\ \A x \in Clients \ {c} : at'[x] = at[x]
    BY <1>0 DEF Inv, ControlInv, Goes
  <1>2. backend' = backend
    BY CallStates DEF Statement, Puts, Fails, client
  <1> SUFFICES ASSUME Memory PROVE EdgesInv'
    BY <1>2 DEF EdgesInv, Memory
  <1>3. work = NoTx /\ Seen = db /\ ~ Doomed
    BY DEF Inv, ControlInv, Seen, Doomed
  <1>4. /\ \A i \in Ids : Was(i) => Was(i)'
        /\ \/ db'.edges = db.edges
           \/ at[c].pc = "push" /\ db'.edges = db.edges \cup {at[c].edge}
    <2>1. CASE UNCHANGED client \/ Fails
      BY <2>1 DEF client, Fails, Was
    <2>2. ASSUME NEW d, Puts(d), Grows(c, d)
          PROVE  /\ \A i \in Ids : Was(i) => Was(i)'
                 /\ \/ db'.edges = db.edges
                    \/ at[c].pc = "push" /\ db'.edges = db.edges \cup {at[c].edge}
      BY <1>3, <2>2 DEF Puts, Grows, Exists, Was
    <2> QED
      BY <2>1, <2>2, CallStates DEF Statement
  <1>5. /\ db.edges \subseteq Ids \X Ids
        /\ \A x \in Clients : at[x].pc \in {"target", "push"} => at[x].edge \in Ids \X Ids
    BY DEF Inv, DataInv, ControlInv, Sane, Typed, Holds
  <1>6. \A i \in Ids : Exists(i) => Was(i)'
    BY <1>3, <1>4 DEF Exists, Was
  <1>7. ASSUME NEW e \in db'.edges
        PROVE  Was(e[1])' /\ Was(e[2])'
    <2>1. CASE e \in db.edges
      BY <1>4, <1>5, <2>1 DEF EdgesInv
    <2>2. CASE at[c].pc = "push" /\ e = at[c].edge
      BY <1>4, <1>5, <2>2 DEF EdgesInv, LookedUp
    <2> QED
      BY <1>4, <2>1, <2>2
  <1>8. ASSUME NEW x \in Clients \ {c}
        PROVE  LookedUp(x)'
    <2>1. LookedUp(x) /\ at'[x] = at[x]
      BY <1>1 DEF EdgesInv
    <2> QED
      BY <1>4, <1>5, <2>1 DEF LookedUp
  <1>9. LookedUp(c)'
    <2>1. at'[c].pc \in {"target", "push"} => at'[c].edge \in Ids \X Ids
      BY DEF Inv, ControlInv, Holds
    <2>2. CASE s.pc = "target"
      BY <1>0, <1>1, <1>6, <2>1, <2>2 DEF Leaves, LookedUp
    <2>3. CASE s.pc = "push"
      <3>1. LookedUp(c) /\ at[c].pc = "target" /\ s.edge = at[c].edge /\ Exists(s.edge[2])
        BY <1>0, <2>3 DEF Leaves, EdgesInv
      <3> QED
        BY <1>1, <1>4, <1>5, <1>6, <2>1, <2>3, <3>1 DEF LookedUp
    <2> QED
      BY <1>1, <2>2, <2>3 DEF LookedUp
  <1> QED
    BY <1>7, <1>8, <1>9 DEF EdgesInv

LEMMA TxEdges ==
  ASSUME Inv, WholeInv, EdgesInv, NEW c \in Clients, ClientStep(c)
  PROVE  EdgesInv'
  <1>1. Memory => work = NoTx /\ ~ Surreal
    BY DEF Inv, ControlInv, Memory, Surreal
  <1>2. at[c].pc \in {"script", "record", "commit"} => ~ Memory
    BY <1>1 DEF WholeInv, OpenInv, OpenFor, Keeps, InTx
  <1>3. Holds(at[c]) /\ DataInv
    BY DEF Inv, ControlInv
  <1>i. ASSUME Goes(c, Idle), backend' = backend,
               Memory => db'.rows = db.rows /\ db'.gone = db.gone /\ db'.edges = db.edges
        PROVE  EdgesInv'
    <2>1. Idle.pc \notin {"target", "push"}
      BY DEF Idle
    <2> QED
      BY <1>i, <2>1, EdgesRest
  <1>4. CASE TxBegin(c)
    <2>1. backend' = backend /\ db' = db
      BY <1>4 DEF TxBegin, Opens, client
    <2> DEFINE s == [pc |-> "tx", done |-> 0]
    <2>2. Goes(c, s) /\ s.pc = "tx"
      BY <1>4 DEF TxBegin
    <2> HIDE DEF s
    <2> QED
      BY <2>1, <2>2, EdgesRest
  <1>5. CASE TxExecute(c)
    <2>1. CASE Surreal
      <3> DEFINE s == [at[c] EXCEPT !.done = @ + 1]
      <3>1. backend' = backend /\ Goes(c, s)
        BY <1>5, <2>1 DEF TxExecute, Puts, client
      <3>2. s.pc = "tx"
        BY <1>3, <1>5 DEF TxExecute, Holds
      <3> HIDE DEF s
      <3> QED
        BY <1>1, <2>1, <3>1, <3>2, EdgesRest
    <2>2. CASE ~ Surreal
      BY <1>5, <1>i, <2>2 DEF TxExecute, client
    <2> QED
      BY <2>1, <2>2
  <1>6. CASE TxCommit(c) \/ TxRollback(c)
    <2>1. /\ Goes(c, Idle) /\ backend' = backend
          /\ ~ Surreal => db' = db
      BY <1>6 DEF TxCommit, TxRollback, Commits, Cancels, Closes, client
    <2> QED
      BY <1>1, <1>i, <2>1
  <1>7. CASE Migrate(c)
    <2>1. Surreal
      BY <1>7 DEF Migrate
    <2>2. PICK dir \in {"up", "down"} : \E list \in Lists(dir) :
            IF list = <<>> THEN UNCHANGED <<client, stay>> /\ Goes(c, Idle)
            ELSE Opens /\ Goes(c, [pc |-> "script", dir |-> dir, todo |-> list])
      BY <1>7 DEF Migrate
    <2>3. PICK list \in Lists(dir) :
            IF list = <<>> THEN UNCHANGED <<client, stay>> /\ Goes(c, Idle)
            ELSE Opens /\ Goes(c, [pc |-> "script", dir |-> dir, todo |-> list])
      BY <2>2
    <2>4. backend' = backend
      BY <2>3 DEF Opens, client
    <2> DEFINE s == [pc |-> "script", dir |-> dir, todo |-> list]
    <2>5. Goes(c, Idle) \/ Goes(c, s)
      BY <2>3
    <2>6. s.pc = "script"
      OBVIOUS
    <2> HIDE DEF s
    <2> QED
      BY <1>1, <1>i, <2>1, <2>4, <2>5, <2>6, EdgesRest
  <1>8. CASE MigrateMemory(c)
    <2>1. Goes(c, Idle) /\ backend' = backend
      BY <1>8 DEF MigrateMemory
    <2>2. PICK q : db' = [db EXCEPT !.versions = q]
      BY <1>8 DEF MigrateMemory
    <2>3. db'.rows = db.rows /\ db'.gone = db.gone /\ db'.edges = db.edges
      BY <1>3, <2>2 DEF DataInv, Sane, Tabled
    <2> QED
      BY <1>i, <2>1, <2>3
  <1>9. CASE RunScript(c) \/ RunBroken(c) \/ Record(c) \/ MigrateCommit(c)
    <2>1. ~ Memory /\ backend' = backend
      <3>1. at[c].pc \in {"script", "record", "commit"}
        <4>1. CASE RunScript(c)
          BY <4>1, Zenon DEF RunScript
        <4>2. CASE RunBroken(c)
          BY <4>2, Zenon DEF RunBroken
        <4>3. CASE Record(c)
          BY <4>3, Zenon DEF Record
        <4>4. CASE MigrateCommit(c)
          BY <4>4 DEF MigrateCommit
        <4> QED
          BY <1>9, <4>1, <4>2, <4>3, <4>4
      <3>p. ASSUME NEW d, Puts(d)
            PROVE  backend' = backend
        BY <3>p DEF Puts, client
      <3>f. Fails => backend' = backend
        BY DEF Fails
      <3>m. ~ Memory
        BY <1>2, <3>1
      <3>2. CASE RunScript(c)
        BY <3>2, <3>m, <3>p, <3>f, Zenon DEF RunScript
      <3>3. CASE Record(c)
        BY <3>3, <3>m, <3>p, <3>f, Zenon DEF Record
      <3>4. CASE RunBroken(c) \/ MigrateCommit(c)
        BY <3>4, <3>m DEF RunBroken, MigrateCommit, Cancels, Commits, Closes
      <3> QED
        BY <1>9, <3>2, <3>3, <3>4
    <2> QED
      BY <2>1 DEF EdgesInv, Memory
  <1>10. CASE Lose(c)
    BY <1>1, <1>10 DEF Lose, EdgesInv, Memory
  <1> QED
    BY <1>4, <1>5, <1>6, <1>7, <1>8, <1>9, <1>10 DEF ClientStep

LEMMA InitEdges == ClientInit => EdgesInv
  BY DEF ClientInit, Fresh, EdgesInv, LookedUp, Idle

LEMMA NextEdges == Inv /\ Inv' /\ WholeInv /\ EdgesInv /\ [StorageNext]_vars => EdgesInv'
  <1> SUFFICES ASSUME Inv, Inv', WholeInv, EdgesInv, [StorageNext]_vars PROVE EdgesInv'
    OBVIOUS
  <1>1. CASE UNCHANGED vars
    BY <1>1 DEF vars, client, EdgesInv, LookedUp, Was, Memory
  <1>2. ASSUME NEW c \in Clients, Step(c)
        PROVE  EdgesInv'
    <2>1. ClientStep(c) \/ Calls(c)
      BY <1>2 DEF Step, Calls
    <2> QED
      BY <2>1, CallEdges, TxEdges
  <1> QED
    BY <1>1, <1>2 DEF StorageNext, Over

\* In memory an edge's ends were both looked up, and a record that was there is
\* not gone but by being deleted, whoever else writes between the two lookups and
\* the push (relate).
THEOREM EdgesKnow == Spec => []EdgesWereWhole
  <1>1. Inv /\ EdgesInv => EdgesWereWhole
    <2> SUFFICES ASSUME Inv, EdgesInv, Memory, NEW e \in db.edges, NEW i \in Range(e)
                 PROVE  db.rows[i] # None \/ i \in db.gone
      BY DEF EdgesWereWhole
    <2>1. e \in Ids \X Ids
      BY DEF Inv, DataInv, Sane, Typed
    <2>2. i = e[1] \/ i = e[2]
      BY <2>1 DEF Range
    <2> QED
      BY <2>2 DEF EdgesInv, Was
  <1> QED
    BY <1>1, Wholeness, InitEdges, NextEdges, Invariance, PTL DEF Spec

-----------------------------------------------------------------------------
(* Scans.                                                                  *)

\* A scan that is under way has found all it is meant to, up to the cursor.
Scanning(x) ==
    at[x].pc = "scan" =>
        /\ at[x] = [pc |-> "scan", filter |-> at[x].filter, sort |-> at[x].sort,
                    limit |-> at[x].limit, cursor |-> at[x].cursor, found |-> at[x].found,
                    again |-> at[x].again, page |-> at[x].page]
        /\ at[x].filter \in Filters /\ at[x].limit \in Nat
        /\ at[x].cursor = 0 \/ at[x].cursor \in Ids
        /\ stay[x] \subseteq Ids
        /\ \A i \in stay[x] : Exists(i) /\ Meaning(at[x].filter, Seen.rows[i])
        /\ Surreal /\ at[x].sort = "none" /\ at[x].limit > 0 /\ Clear[at[x].filter] =>
              \A i \in stay[x] : i \in at[x].found \/ i > at[x].cursor

\* A search that has been answered has found what ScanComplete asks of it.
Complete(x) ==
    at[x].pc = "read" =>
        LET s == at[x] IN
        (IF Surreal THEN s.sort = "none" /\ s.limit > 0 /\ Clear[s.filter]
                    ELSE s.limit >= Cardinality(Ids)
                         /\ \A i \in Ids, v \in Values :
                               Meaning(s.filter, Row(1, v)) <=> PlainSelects(s.filter, Row(1, v)))
        => stay[x] \subseteq s.found

\* And what it has been given last is what its filter means.
Matching(x) ==
    at[x].pc \in {"scan", "read"} /\ Clear[at[x].filter] =>
        \A row \in at[x].page : Meaning(at[x].filter, row)

ScanInv ==
    /\ stay = [x \in Clients |-> stay[x]]
    /\ \A x \in Clients : /\ at[x].pc \notin ReadPlaces => stay[x] = {}
                          /\ Scanning(x)
                          /\ Complete(x)
                          /\ Matching(x)

\* What a step of somebody leaves in stay is still there and still meant.
FollowsFor(x) ==
    /\ stay'[x] \subseteq stay[x]
    /\ \A i \in stay'[x] : \/ Seen'.rows[i] = Seen.rows[i]
                           \/ Seen'.rows[i] # None /\ Meaning(at[x].filter, Seen'.rows[i])

Follows ==
    /\ stay' = [x \in Clients |-> stay'[x]]
    /\ \A x \in Clients : FollowsFor(x)

LEMMA StayingFollows ==
  ASSUME NEW d, stay' = Staying(d), Seen' = d
  PROVE  Follows
  BY DEF Staying, Follows, FollowsFor

LEMMA RestFollows ==
  ASSUME ScanInv, stay' = stay, Seen' = Seen
  PROVE  Follows
  BY DEF ScanInv, Follows, FollowsFor

LEMMA PutsFollows ==
  ASSUME Inv, ScanInv, NEW d, Puts(d)
  PROVE  Follows
  <1>0. work # NoTx => work = [data |-> work.data, doomed |-> work.doomed]
    BY DEF Inv, DataInv
  <1>1. CASE Doomed
    BY <1>1, RestFollows DEF Puts, client, Seen
  <1>2. CASE ~ Doomed /\ work = NoTx
    BY <1>2, StayingFollows DEF Puts, Seen
  <1>3. CASE ~ Doomed /\ work # NoTx
    <2>1. work' = [data |-> d, doomed |-> work.doomed] /\ stay' = Staying(d)
      BY <1>0, <1>3 DEF Puts
    <2>2. Seen' = d
      BY <2>1, OpenIsSome DEF Seen
    <2> QED
      BY <2>1, <2>2, StayingFollows
  <1> QED
    BY <1>1, <1>2, <1>3

LEMMA FailsFollows ==
  ASSUME Inv, ScanInv, Fails
  PROVE  Follows
  <1>0. work # NoTx => work = [data |-> work.data, doomed |-> work.doomed]
    BY DEF Inv, DataInv
  <1>1. CASE work = NoTx
    BY <1>1, RestFollows DEF Fails, Seen
  <1>2. CASE work # NoTx
    <2>1. work' = [data |-> work.data, doomed |-> TRUE] /\ stay' = stay
      BY <1>0, <1>2 DEF Fails
    <2>2. Seen' = Seen
      BY <1>2, <2>1, OpenIsSome DEF Seen
    <2> QED
      BY <2>1, <2>2, RestFollows
  <1> QED
    BY <1>1, <1>2

LEMMA OpensFollows ==
  ASSUME ScanInv, Opens
  PROVE  Follows
  <1>1. CASE work = NoTx
    <2>1. work' = [data |-> db, doomed |-> FALSE] /\ stay' = stay
      BY <1>1 DEF Opens
    <2>2. Seen' = Seen
      BY <1>1, <2>1, OpenIsSome DEF Seen
    <2> QED
      BY <2>1, <2>2, RestFollows
  <1>2. CASE work # NoTx
    BY <1>2, RestFollows DEF Opens, Seen
  <1> QED
    BY <1>1, <1>2

LEMMA ClosesFollows ==
  ASSUME NEW d, Closes(d)
  PROVE  Follows
  BY StayingFollows DEF Closes, Seen

LEMMA ReadsFollows ==
  ASSUME ScanInv, Reads
  PROVE  Follows
  BY RestFollows DEF Reads, client, Seen

\* A scan that goes on while somebody else is at work.
LEMMA ScansGoOn ==
  ASSUME ScanInv, backend' = backend, NEW x \in Clients, FollowsFor(x), at'[x] = at[x]
  PROVE  /\ at'[x].pc \notin ReadPlaces => stay'[x] = {}
         /\ Scanning(x)'
         /\ Complete(x)'
         /\ Matching(x)'
  <1>1. stay'[x] \subseteq stay[x] /\ Scanning(x) /\ Complete(x) /\ Matching(x)
        /\ (at[x].pc \notin ReadPlaces => stay[x] = {})
    BY DEF ScanInv, FollowsFor
  <1>2. Complete(x)'
    BY <1>1 DEF Complete, Surreal
  <1>3. ASSUME at[x].pc = "scan", NEW i \in stay'[x]
        PROVE  Exists(i)' /\ Meaning(at[x].filter, Seen'.rows[i])
    BY <1>1, <1>3 DEF Scanning, FollowsFor, Exists
  <1>4. Scanning(x)'
    BY <1>1, <1>3 DEF Scanning, Surreal, Memory
  <1>5. Matching(x)'
    BY <1>1 DEF Matching
  <1> QED
    BY <1>1, <1>2, <1>4, <1>5

\* A client that is not in the course of a scan, before and after.
LEMMA ScansAside ==
  ASSUME Inv, ScanInv, Follows, backend' = backend,
         NEW c \in Clients, NEW s, Goes(c, s), s.pc \notin ReadPlaces,
         at[c].pc \notin ReadPlaces \/ stay'[c] = {}
  PROVE  ScanInv'
  <1>1. at'[c] = s /\ \A x \in Clients \ {c} : at'[x] = at[x]
    BY DEF Inv, ControlInv, Goes
  <1>2. stay'[c] = {}
    BY DEF ScanInv, Follows, FollowsFor
  <1>3. Scanning(c)' /\ Complete(c)' /\ Matching(c)'
    BY <1>1 DEF Scanning, Complete, Matching, ReadPlaces
  <1>4. \A x \in Clients \ {c} : /\ at'[x].pc \notin ReadPlaces => stay'[x] = {}
                                 /\ Scanning(x)'
                                 /\ Complete(x)'
                                 /\ Matching(x)'
    BY <1>1, ScansGoOn DEF Follows
  <1>5. stay' = [x \in Clients |-> stay'[x]]
    BY DEF Follows
  <1> QED
    BY <1>2, <1>3, <1>4, <1>5 DEF ScanInv

\* A page lists the first of what was chosen, in some order.
LEMMA PagesList ==
  ASSUME NEW chosen, IsFiniteSet(chosen), NEW sort, NEW limit \in Nat,
         NEW page \in Orderings(chosen, sort, limit)
  PROVE  LET n == Cardinality(chosen)
             m == IF limit < n THEN limit ELSE n
         IN  /\ n \in Nat
             /\ page \in Seq(chosen) /\ Len(page) = m
             /\ IsInjective(page)
             /\ \E q \in [1..n -> chosen] :
                   /\ Range(q) = chosen
                   /\ IsInjective(q)
                   /\ \A k \in 1..m : page[k] = q[k]
                   /\ sort = "none" /\ Surreal => \A a, b \in 1..n : a < b => q[a] <= q[b]
  <1> DEFINE n == Cardinality(chosen)
             m == IF limit < n THEN limit ELSE n
  <1>1. n \in Nat /\ m \in 0..n
    BY FS_CardinalityType
  <1>2. PICK q \in [1..n -> chosen] :
           /\ page = SubSeq(q, 1, m)
           /\ IsInjective(q)
           /\ sort = "none" /\ Surreal => \A a, b \in 1..n : a < b => q[a] <= q[b]
    BY DEF Orderings
  <1>3. Range(q) = chosen
    <2>1. Cardinality(1..n) = n /\ IsFiniteSet(1..n)
      <3>1. 1 \in Int /\ n \in Int /\ n >= 0
        BY <1>1
      <3>2. IsFiniteSet(1..n) /\ Cardinality(1..n) = IF 1 > n THEN 0 ELSE n - 1 + 1
        BY <3>1, FS_Interval, Zenon
      <3> QED
        BY <1>1, <3>2
    <2> HIDE DEF n
    <2>2. q \in Injection(1..n, chosen)
      BY <1>2 DEF Injection, IsInjective
    <2>3. q \in Surjection(1..n, chosen)
      BY <2>1, <2>2, FS_Injection DEF n
    <2> QED
      BY <1>2, <2>3 DEF Surjection, Range
  <1>4. page \in Seq(chosen) /\ Len(page) = m /\ \A k \in 1..m : page[k] = q[k]
    <2> HIDE DEF n
    <2>1. q \in Seq(chosen) /\ Len(q) = n
      BY <1>1, <1>2
    <2> HIDE DEF m
    <2> QED
      BY <1>1, <1>2, <2>1
  <1>5. IsInjective(page)
    <2> HIDE DEF n, m
    <2>1. DOMAIN page = 1..m
      BY <1>4
    <2> QED
      BY <1>1, <1>2, <1>4, <2>1 DEF IsInjective
  <1> QED
    BY <1>1, <1>2, <1>3, <1>4, <1>5

\* A page in the order of the ids is all there is, or what there is more comes
\* behind its cursor.
LEMMA PageGoesOn ==
  ASSUME IsFiniteSet(Ids), Surreal, NEW chosen \in SUBSET Ids,
         NEW limit \in Nat, limit > 0, NEW page \in Orderings(chosen, "none", limit)
  PROVE  \A i \in chosen : \/ i \in Range(page)
                           \/ Next(page, limit) # 0 /\ i > Next(page, limit)
  <1> DEFINE n == Cardinality(chosen)
             m == IF limit < n THEN limit ELSE n
  <1>0. IsFiniteSet(chosen) /\ \A i \in chosen : i \in Nat \ {0}
    BY FS_Subset, ClientAssumption
  <1>1. /\ n \in Nat /\ page \in Seq(chosen) /\ Len(page) = m
        /\ \E q \in [1..n -> chosen] :
              /\ Range(q) = chosen
              /\ IsInjective(q)
              /\ \A k \in 1..m : page[k] = q[k]
              /\ \A a, b \in 1..n : a < b => q[a] <= q[b]
    BY <1>0, PagesList
  <1>2. PICK q \in [1..n -> chosen] :
              /\ Range(q) = chosen
              /\ IsInjective(q)
              /\ \A k \in 1..m : page[k] = q[k]
              /\ \A a, b \in 1..n : a < b => q[a] <= q[b]
    BY <1>1
  <1>3. n \in Nat /\ m \in Nat /\ m <= n /\ m <= limit /\ (m < limit => m = n)
    BY <1>1
  <1> HIDE DEF n, m
  <1>4. \A k \in 1..n : q[k] \in chosen /\ q[k] \in Nat \ {0}
    BY <1>0, <1>2
  <1>5. \A a, b \in 1..n : a < b => q[a] < q[b]
    <2> SUFFICES ASSUME NEW a \in 1..n, NEW b \in 1..n, a < b PROVE q[a] < q[b]
      OBVIOUS
    <2>1. q[a] # q[b] /\ q[a] <= q[b]
      BY <1>2, <1>3 DEF IsInjective
    <2> QED
      BY <1>4, <2>1
  <1>6. DOMAIN page = 1..m /\ \A k \in 1..m : k \in 1..n /\ page[k] = q[k]
    BY <1>1, <1>2, <1>3
  <1>7. CASE m < limit
    <2>1. Range(page) = Range(q)
      BY <1>2, <1>3, <1>6, <1>7 DEF Range
    <2> QED
      BY <1>2, <2>1
  <1>8. CASE m = limit
    <2>1. Next(page, limit) = page[m] /\ m \in 1..m /\ m \in 1..n
      BY <1>1, <1>3, <1>8 DEF Next, Last
    <2>2. Next(page, limit) = q[m] /\ q[m] # 0
      BY <1>4, <1>6, <2>1
    <2>3. ASSUME NEW i \in chosen
          PROVE  i \in Range(page) \/ i > q[m]
      <3>1. PICK k \in 1..n : i = q[k]
        BY <1>2 DEF Range
      <3>2. CASE k <= m
        <4>1. k \in 1..m
          BY <1>3, <3>2
        <4> QED
          BY <1>6, <3>1, <4>1 DEF Range
      <3>3. CASE k > m
        BY <1>4, <1>5, <2>1, <3>1, <3>3
      <3> QED
        BY <1>3, <3>2, <3>3
    <2> QED
      BY <2>2, <2>3
  <1> QED
    BY <1>3, <1>7, <1>8

\* Calls of the others are no reader's, and are one statement or none.
LEMMA OtherCalls ==
  ASSUME NEW c, Write(c) \/ Graph(c) \/ Index(c)
  PROVE  /\ Reads \/ Fails \/ \E d : Puts(d)
         /\ at[c].pc \notin ReadPlaces /\ ~ Free(c, "reader")
  <1>1. CASE Write(c)
    <2>1. Free(c, "writer") \/ at[c].pc = "held"
      BY <1>1 DEF Write, SurrealCreate, MemoryCreate, SurrealUpsert, MemoryUpsert, Get, Delete,
         Update
    <2>2. at[c].pc \notin ReadPlaces /\ ~ Free(c, "reader")
      BY <2>1 DEF Free, Idle, ReadPlaces
    <2> QED
      BY <1>1, <2>2 DEF Write, SurrealCreate, MemoryCreate, SurrealUpsert, MemoryUpsert, Get,
         Delete, Update
  <1>2. CASE Graph(c)
    <2>1. Free(c, "grapher") \/ at[c].pc \in {"target", "push", "walk"}
      BY <1>2 DEF Graph, SurrealRelate, Source, MemoryWalk, Target, PushEdge, SurrealWalk, Fetch
    <2>2. at[c].pc \notin ReadPlaces /\ ~ Free(c, "reader")
      BY <2>1 DEF Free, Idle, ReadPlaces
    <2> QED
      BY <1>2, <2>2 DEF Graph, SurrealRelate, Source, MemoryWalk, Target, PushEdge, SurrealWalk,
         Fetch
  <1>3. CASE Index(c)
    <2>1. Free(c, "indexer") \/ at[c].pc = "near"
      BY <1>3 DEF Index, SurrealUpsertVec, SurrealRemoveVec, SurrealSetVec, MemoryUpsertVec,
         MemoryRemoveVec, Nearest, SurrealGetNear, MemoryGetNear
    <2>2. at[c].pc \notin ReadPlaces /\ ~ Free(c, "reader")
      BY <2>1 DEF Free, Idle, ReadPlaces
    <2> QED
      BY <1>3, <2>2 DEF Index, SurrealUpsertVec, SurrealRemoveVec, SurrealSetVec, MemoryUpsertVec,
         MemoryRemoveVec, Nearest, SurrealGetNear, MemoryGetNear
  <1> QED
    BY <1>1, <1>2, <1>3

LEMMA OtherScans ==
  ASSUME Inv, ScanInv, NEW c \in Clients, Write(c) \/ Graph(c) \/ Index(c)
  PROVE  ScanInv'
  <1>1. Calls(c) /\ ~ ReadCall(c) /\ at[c].pc \notin ReadPlaces
    BY OtherCalls DEF Calls, ReadCall, ScanStart, Search, SurrealSelect, MemorySelect, ReadPlaces
  <1>2. PICK s : Goes(c, s) /\ s.pc \notin ReadPlaces
    BY <1>1, CallMoves DEF Leaves
  <1>3. backend' = backend
    BY <1>1, CallStates, StatementKeeps
  <1>4. Follows
    BY OtherCalls, ReadsFollows, FailsFollows, PutsFollows
  <1> QED
    BY <1>1, <1>2, <1>3, <1>4, ScansAside

\* One client's scan begins or goes on, and the tables stay.
LEMMA ReadScans ==
  ASSUME Inv, ScanInv, UNCHANGED client, NEW c \in Clients, NEW s, Goes(c, s),
         s.pc \in ReadPlaces,
         stay' = [x \in Clients |-> stay'[x]],
         \A x \in Clients \ {c} : stay'[x] = stay[x],
         Scanning(c)', Complete(c)', Matching(c)'
  PROVE  ScanInv'
  <1>1. at'[c] = s /\ \A x \in Clients \ {c} : at'[x] = at[x]
    BY DEF Inv, ControlInv, Goes
  <1>2. backend' = backend /\ Seen' = Seen
    BY DEF client, Seen
  <1>3. ASSUME NEW x \in Clients \ {c}
        PROVE  /\ at'[x].pc \notin ReadPlaces => stay'[x] = {}
               /\ Scanning(x)'
               /\ Complete(x)'
               /\ Matching(x)'
    BY <1>1, <1>2, ScansGoOn DEF FollowsFor
  <1> QED
    BY <1>1, <1>3 DEF ScanInv

LEMMA StartScans ==
  ASSUME Inv, ScanInv, NEW c \in Clients, ScanStart(c)
  PROVE  ScanInv'
  <1>1. PICK f \in Filters, sort \in Sorts, limit \in Limits :
          /\ Goes(c, [pc |-> "scan", filter |-> f, sort |-> sort, limit |-> limit,
                      cursor |-> 0, found |-> {}, again |-> FALSE, page |-> {}])
          /\ stay' = [stay EXCEPT ![c] = {i \in Ids : Exists(i) /\ Meaning(f, Seen.rows[i])}]
    BY DEF ScanStart
  <1> DEFINE s == [pc |-> "scan", filter |-> f, sort |-> sort, limit |-> limit,
                   cursor |-> 0, found |-> {}, again |-> FALSE, page |-> {}]
             meant == {i \in Ids : Exists(i) /\ Meaning(f, Seen.rows[i])}
  <1>2. Goes(c, s) /\ UNCHANGED client /\ stay' = [stay EXCEPT ![c] = meant]
    BY <1>1 DEF ScanStart
  <1>3. /\ s = [pc |-> "scan", filter |-> s.filter, sort |-> s.sort, limit |-> s.limit,
                cursor |-> s.cursor, found |-> s.found, again |-> s.again, page |-> s.page]
        /\ s.pc = "scan" /\ s.filter = f /\ s.filter \in Filters /\ s.limit \in Nat
        /\ s.cursor = 0 /\ s.page = {}
    BY StorageAssumption
  <1>4. meant \subseteq Ids /\ \A i \in meant : Exists(i) /\ Meaning(f, Seen.rows[i])
    OBVIOUS
  <1> HIDE DEF s, meant
  <1>5. /\ stay'[c] = meant /\ at'[c] = s
        /\ stay' = [x \in Clients |-> stay'[x]]
        /\ \A x \in Clients \ {c} : stay'[x] = stay[x]
        /\ Seen' = Seen /\ backend' = backend
    BY <1>2 DEF ScanInv, Inv, ControlInv, Goes, client, Seen
  <1>6. \A i \in meant : i > 0
    BY <1>4, ClientAssumption
  <1>7. Scanning(c)'
    BY <1>3, <1>4, <1>5, <1>6 DEF Scanning, Exists
  <1>8. Complete(c)' /\ s.pc \in ReadPlaces
    BY <1>3, <1>5 DEF Complete, ReadPlaces
  <1>9. Matching(c)'
    BY <1>3, <1>5 DEF Matching
  <1> QED
    BY <1>2, <1>5, <1>7, <1>8, <1>9, ReadScans

LEMMA SearchScans ==
  ASSUME Inv, ScanInv, IsFiniteSet(Ids), NEW c \in Clients, Search(c)
  PROVE  ScanInv'
  <1>1. PICK f \in Filters, limit \in Limits :
          LET found == IF f = NoFilter THEN {} ELSE {i \in Ids : Exists(i) /\ Meaning(f, Seen.rows[i])}
          IN  \E page \in Orderings(found, "score", limit) :
                 Goes(c, IF Doomed \/ Undecodable(page) THEN [pc |-> "failed"]
                         ELSE [pc |-> "read", filter |-> f, sort |-> "score", limit |-> limit,
                               found |-> Range(page), page |-> RowsOf(page)])
    BY DEF Search
  <1> DEFINE meant == IF f = NoFilter THEN {}
                      ELSE {i \in Ids : Exists(i) /\ Meaning(f, Seen.rows[i])}
  <1>2. PICK page \in Orderings(meant, "score", limit) :
             Goes(c, IF Doomed \/ Undecodable(page) THEN [pc |-> "failed"]
                     ELSE [pc |-> "read", filter |-> f, sort |-> "score", limit |-> limit,
                           found |-> Range(page), page |-> RowsOf(page)])
    BY <1>1
  <1>3. meant \subseteq Ids
    OBVIOUS
  <1>m. \A i \in meant : Meaning(f, Seen.rows[i])
    OBVIOUS
  <1> HIDE DEF meant
  <1>4. IsInjective(page) /\ page \in Seq(meant)
    <2>1. IsFiniteSet(meant) /\ limit \in Nat
      BY <1>3, FS_Subset, StorageAssumption
    <2> QED
      BY <2>1, PagesList
  <1> DEFINE s == IF Doomed \/ Undecodable(page) THEN [pc |-> "failed"]
                  ELSE [pc |-> "read", filter |-> f, sort |-> "score", limit |-> limit,
                        found |-> Range(page), page |-> RowsOf(page)]
  <1>5. Goes(c, s) /\ UNCHANGED <<client, stay>> /\ at[c] = Idle
    BY <1>2 DEF Search, Reads, Free
  <1>6. /\ s.pc \in {"read", "failed"}
        /\ s.pc = "read" => /\ s.sort = "score" /\ s.found = Range(page)
                            /\ s.filter = f /\ s.page = RowsOf(page)
    OBVIOUS
  <1> HIDE DEF s
  <1>7. /\ stay' = stay /\ stay[c] = {} /\ at'[c] = s
    BY <1>5 DEF ScanInv, Idle, ReadPlaces, Inv, ControlInv, Goes
  <1>8. Scanning(c)'
    BY <1>6, <1>7 DEF Scanning
  <1>9. Complete(c)'
    BY <1>4, <1>6, <1>7 DEF Complete
  <1>10. Matching(c)'
    <2>1. \A row \in RowsOf(page) : Meaning(f, row)
      BY <1>m, <1>4 DEF RowsOf
    <2> QED
      BY <1>6, <1>7, <2>1 DEF Matching
  <1> QED
    BY <1>5, <1>6, <1>7, <1>8, <1>9, <1>10, ReadScans DEF ScanInv, ReadPlaces

\* What a statement selects, and what is compared in memory.
LEMMA SelectsMeant ==
  ASSUME NEW f \in Filters, Clear[f], NEW row \in Rows
  PROVE  /\ Buildable(f) => (BuiltSelects(f, row) <=> Meaning(f, row))
         /\ PlainSelects(f, row) => Meaning(f, row)
  <1>1. f \in Nodes /\ f.key = "object" /\ row.val \in Values
    BY StorageAssumption DEF Rows
  <1> QED
    BY <1>1, FiltersBuilt, PlainMeans

LEMMA SurrealScans ==
  ASSUME Inv, ScanInv, IsFiniteSet(Ids), NEW c \in Clients, SurrealSelect(c)
  PROVE  ScanInv'
  <1> DEFINE chosenBy(after) ==
                 {i \in Ids : /\ Exists(i) /\ After(after, i, at[c].cursor)
                              /\ BuiltSelects(at[c].filter, Seen.rows[i])}
             failed == [at[c] EXCEPT !.pc = "failed"]
  <1>0. Surreal /\ at[c].pc = "scan" /\ UNCHANGED <<client, stay>> /\ Scanning(c)
    BY DEF SurrealSelect, Reads, ScanInv
  <1>f. ASSUME Goes(c, failed)
        PROVE  ScanInv'
    <2>1. failed.pc = "failed"
      BY <1>0 DEF Scanning
    <2> HIDE DEF failed
    <2>2. at'[c] = failed
      BY <1>f DEF Inv, ControlInv, Goes
    <2>3. Scanning(c)' /\ Complete(c)' /\ Matching(c)'
      BY <2>1, <2>2 DEF Scanning, Complete, Matching
    <2> QED
      BY <1>0, <1>f, <2>1, <2>3, ReadScans DEF ScanInv, ReadPlaces
  <1>1. CASE ~ Buildable(at[c].filter) \/ Doomed
    BY <1>1, <1>f DEF SurrealSelect
  <1>2. ASSUME Buildable(at[c].filter), NEW after \in Orders,
               NEW page \in Orderings(chosenBy(after), at[c].sort, at[c].limit),
               Reading(c, page, Next(page, at[c].limit))
        PROVE  ScanInv'
    <2> DEFINE chosen == chosenBy(after)
               next == Next(page, at[c].limit)
               again == at[c].again \/ at[c].found \cap Range(page) # {}
               s == [at[c] EXCEPT !.pc = IF next = 0 THEN "read" ELSE "scan",
                                  !.cursor = next, !.found = @ \cup Range(page),
                                  !.again = @ \/ at[c].found \cap Range(page) # {},
                                  !.page = RowsOf(page)]
    <2>1. CASE Undecodable(page)
      BY <1>2, <1>f, <2>1 DEF Reading
    <2>2. CASE ~ Undecodable(page)
      <3>1. Goes(c, s)
        BY <1>2, <2>2 DEF Reading
      <3> DEFINE place == IF next = 0 THEN "read" ELSE "scan"
      <3>2. /\ s = [pc |-> s.pc, filter |-> s.filter, sort |-> s.sort, limit |-> s.limit,
                    cursor |-> s.cursor, found |-> s.found, again |-> s.again,
                    page |-> s.page]
            /\ s.pc = place
            /\ s.filter = at[c].filter /\ s.sort = at[c].sort /\ s.limit = at[c].limit
            /\ s.cursor = next /\ s.found = at[c].found \cup Range(page) /\ s.page = RowsOf(page)
        <4> HIDE DEF place, next, chosen, again
        <4> DEFINE t == at[c]
                   rows == RowsOf(page)
        <4>1. t = [pc |-> "scan", filter |-> t.filter, sort |-> t.sort, limit |-> t.limit,
                   cursor |-> t.cursor, found |-> t.found, again |-> t.again,
                   page |-> t.page]
          BY <1>0 DEF Scanning
        <4>2. s = [t EXCEPT !.pc = place, !.cursor = next, !.found = @ \cup Range(page),
                            !.again = again, !.page = rows]
          BY DEF place, again
        <4> HIDE DEF t, s, rows
        <4>3. s = [pc |-> place, filter |-> t.filter, sort |-> t.sort, limit |-> t.limit,
                   cursor |-> next, found |-> t.found \cup Range(page), again |-> again,
                   page |-> rows]
          BY <4>1, <4>2
        <4> HIDE DEF s
        <4> QED
          BY <4>3 DEF t, rows
      <3> HIDE DEF s
      <3>3. at'[c] = s /\ stay'[c] = stay[c] /\ Seen' = Seen /\ backend' = backend
        BY <1>0, <3>1 DEF Inv, ControlInv, Goes, client, Seen
      <3>4. chosen \in SUBSET Ids /\ page \in Orderings(chosen, at[c].sort, at[c].limit)
        BY <1>2
      <3>5. IsFiniteSet(chosen) /\ at[c].limit \in Nat
        BY <1>0, <3>4, FS_Subset DEF Scanning
      <3>6. next = 0 \/ next \in Ids
        <4> HIDE DEF chosen
        <4>1. page \in Seq(Ids)
          BY <3>4, <3>5, PagesList
        <4>2. Len(page) >= at[c].limit /\ at[c].limit > 0 => page[Len(page)] \in Ids
          BY <3>5, <4>1
        <4> QED
          BY <4>2 DEF Next, Last
      <3>7. ASSUME at[c].sort = "none", at[c].limit > 0, Clear[at[c].filter]
            PROVE  \A i \in stay[c] : i \in s.found \/ (next # 0 /\ i > next)
        <4>1. \A i \in stay[c] : i \in at[c].found \/ i > at[c].cursor
          BY <1>0, <3>7 DEF Scanning
        <4>2. \A i \in stay[c] : i > at[c].cursor => i \in chosen
          <5> SUFFICES ASSUME NEW i \in stay[c], i > at[c].cursor PROVE i \in chosen
            OBVIOUS
          <5>1. i \in Ids /\ Exists(i) /\ Meaning(at[c].filter, Seen.rows[i])
                /\ at[c].filter \in Filters
            BY <1>0 DEF Scanning
          <5>2. Seen.rows[i] \in Rows
            BY <5>1, SeenRows DEF Inv
          <5>3. BuiltSelects(at[c].filter, Seen.rows[i])
            BY <1>2, <3>7, <5>1, <5>2, SelectsMeant
          <5>4. at[c].cursor = 0 \/ at[c].cursor \in Ids
            BY <1>0 DEF Scanning
          <5>5. After(after, i, at[c].cursor)
            BY <1>2, <5>1, <5>4, OrdersAssumption, ClientAssumption DEF After
          <5> QED
            BY <5>1, <5>3, <5>5
        <4> HIDE DEF chosen
        <4>3. \A i \in chosen : i \in Range(page) \/ (next # 0 /\ i > next)
          BY <1>0, <3>4, <3>5, <3>7, PageGoesOn
        <4> QED
          BY <3>2, <4>1, <4>2, <4>3
      <3>10. Matching(c)'
        <4> SUFFICES ASSUME Clear[at[c].filter] PROVE \A row \in s.page : Meaning(at[c].filter, row)
          BY <3>2, <3>3 DEF Matching
        <4>1. ASSUME NEW i \in chosen
              PROVE  Meaning(at[c].filter, Seen.rows[i])
          <5>1. i \in Ids /\ Exists(i) /\ BuiltSelects(at[c].filter, Seen.rows[i])
            OBVIOUS
          <5>2. Seen.rows[i] \in Rows /\ at[c].filter \in Filters
            BY <1>0, <5>1, SeenRows DEF Inv, Scanning
          <5> QED
            BY <1>2, <5>1, <5>2, SelectsMeant
        <4> HIDE DEF chosen
        <4>2. page \in Seq(chosen)
          BY <3>4, <3>5, PagesList
        <4> QED
          BY <3>2, <4>1, <4>2 DEF RowsOf
      <3> HIDE DEF chosen, next
      <3>8. Scanning(c)'
        BY <1>0, <3>2, <3>3, <3>6, <3>7 DEF Scanning, Exists, Surreal, Memory
      <3>9. Complete(c)'
        BY <1>0, <3>2, <3>3, <3>7 DEF Complete, Surreal
      <3> QED
        BY <1>0, <3>1, <3>2, <3>8, <3>9, <3>10, ReadScans DEF ScanInv, ReadPlaces
    <2> QED
      BY <2>1, <2>2
  <1> QED
    BY <1>1, <1>2 DEF SurrealSelect

LEMMA MemoryScans ==
  ASSUME Inv, ScanInv, IsFiniteSet(Ids), NEW c \in Clients, MemorySelect(c)
  PROVE  ScanInv'
  <1> DEFINE chosen == {i \in Ids : Exists(i) /\ PlainSelects(at[c].filter, Seen.rows[i])}
             failed == [at[c] EXCEPT !.pc = "failed"]
  <1>0. Memory /\ at[c].pc = "scan" /\ UNCHANGED <<client, stay>> /\ Scanning(c)
    BY DEF MemorySelect, Reads, ScanInv
  <1>1. PICK page \in Orderings(chosen, at[c].sort, at[c].limit) : Reading(c, page, 0)
    BY DEF MemorySelect
  <1>2. CASE Undecodable(page)
    <2>1. failed.pc = "failed" /\ Goes(c, failed)
      BY <1>0, <1>1, <1>2 DEF Scanning, Reading
    <2> HIDE DEF failed
    <2>2. at'[c] = failed
      BY <2>1 DEF Inv, ControlInv, Goes
    <2>3. Scanning(c)' /\ Complete(c)' /\ Matching(c)'
      BY <2>1, <2>2 DEF Scanning, Complete, Matching
    <2> QED
      BY <1>0, <2>1, <2>3, ReadScans DEF ScanInv, ReadPlaces
  <1>3. CASE ~ Undecodable(page)
    <2> DEFINE s == [at[c] EXCEPT !.pc = IF 0 = 0 THEN "read" ELSE "scan", !.cursor = 0,
                                  !.found = @ \cup Range(page),
                                  !.again = @ \/ at[c].found \cap Range(page) # {},
                                  !.page = RowsOf(page)]
    <2>1. Goes(c, s)
      BY <1>1, <1>3 DEF Reading
    <2>2. /\ s.pc = "read" /\ s.filter = at[c].filter /\ s.limit = at[c].limit
          /\ Range(page) \subseteq s.found /\ s.page = RowsOf(page)
      BY <1>0 DEF Scanning
    <2> HIDE DEF s
    <2>3. at'[c] = s /\ stay'[c] = stay[c] /\ backend' = backend
      BY <1>0, <2>1 DEF Inv, ControlInv, Goes, client
    <2>4. chosen \subseteq Ids
      OBVIOUS
    <2>5. IsFiniteSet(chosen) /\ Cardinality(chosen) <= Cardinality(Ids)
          /\ at[c].limit \in Nat /\ Cardinality(Ids) \in Nat
      BY <1>0, <2>4, FS_Subset, FS_CardinalityType DEF Scanning
    <2>6. /\ page \in Seq(chosen)
          /\ at[c].limit >= Cardinality(Ids) => chosen \subseteq Range(page)
      <3> HIDE DEF chosen
      <3> DEFINE n == Cardinality(chosen)
                 m == IF at[c].limit < n THEN at[c].limit ELSE n
      <3>1. /\ n \in Nat /\ page \in Seq(chosen) /\ Len(page) = m
            /\ \E q \in [1..n -> chosen] : Range(q) = chosen /\ \A k \in 1..m : page[k] = q[k]
        BY <1>1, <2>5, PagesList
      <3>2. ASSUME at[c].limit >= Cardinality(Ids)
            PROVE  chosen \subseteq Range(page)
        <4>1. m = n
          BY <2>5, <3>1, <3>2
        <4> HIDE DEF n, m
        <4> QED
          BY <3>1, <4>1 DEF Range
      <3> QED
        BY <3>1, <3>2
    <2>8. ASSUME \A i \in Ids, v \in Values :
                    Meaning(at[c].filter, Row(1, v)) <=> PlainSelects(at[c].filter, Row(1, v))
          PROVE  stay[c] \subseteq chosen
      <3> SUFFICES ASSUME NEW i \in stay[c] PROVE i \in chosen
        OBVIOUS
      <3>1. i \in Ids /\ Exists(i) /\ Meaning(at[c].filter, Seen.rows[i])
            /\ at[c].filter \in Filters
        BY <1>0 DEF Scanning
      <3>2. Seen.rows[i] \in Rows /\ Seen.rows[i].val \in Values
        BY <3>1, SeenRows DEF Inv, Rows
      <3> QED
        BY <2>8, <3>1, <3>2 DEF Meaning, PlainSelects, Row
    <2>11. Matching(c)'
      <3> SUFFICES ASSUME Clear[at[c].filter] PROVE \A row \in s.page : Meaning(at[c].filter, row)
        BY <2>2, <2>3 DEF Matching
      <3>1. ASSUME NEW i \in chosen
            PROVE  Meaning(at[c].filter, Seen.rows[i])
        <4>1. i \in Ids /\ Exists(i) /\ PlainSelects(at[c].filter, Seen.rows[i])
          OBVIOUS
        <4>2. Seen.rows[i] \in Rows /\ at[c].filter \in Filters
          BY <1>0, <4>1, SeenRows DEF Inv, Scanning
        <4> QED
          BY <4>1, <4>2, SelectsMeant
      <3> HIDE DEF chosen
      <3> QED
        BY <2>2, <2>6, <3>1 DEF RowsOf
    <2> HIDE DEF chosen
    <2>9. Scanning(c)'
      BY <2>2, <2>3 DEF Scanning
    <2>10. Complete(c)'
      BY <1>0, <2>2, <2>3, <2>6, <2>8 DEF Complete, Surreal, Memory
    <2> QED
      BY <1>0, <2>1, <2>2, <2>9, <2>10, <2>11, ReadScans DEF ScanInv, ReadPlaces
  <1> QED
    BY <1>2, <1>3

LEMMA ReturnScans ==
  ASSUME Inv, ScanInv, NEW c \in Clients, Return(c)
  PROVE  ScanInv'
  <1>1. /\ stay' = [stay EXCEPT ![c] = {}] /\ UNCHANGED client /\ Goes(c, Idle)
    BY DEF Return
  <1>2. /\ stay'[c] = {} /\ stay' = [x \in Clients |-> stay'[x]]
        /\ \A x \in Clients : stay'[x] \subseteq stay[x]
    BY <1>1 DEF ScanInv
  <1>3. Seen' = Seen /\ backend' = backend
    BY <1>1 DEF client, Seen
  <1>4. Follows /\ Idle.pc \notin ReadPlaces
    BY <1>2, <1>3 DEF Follows, FollowsFor, Idle, ReadPlaces
  <1> QED
    BY <1>1, <1>2, <1>3, <1>4, ScansAside

\* Transactions and migrations hold no scan, and change the tables by statements.
LEMMA TxScans ==
  ASSUME Inv, ScanInv, NEW c \in Clients, ClientStep(c), ~ Lose(c)
  PROVE  ScanInv'
  <1> SUFFICES /\ at[c].pc \notin ReadPlaces
               /\ \E s : Goes(c, s) /\ s.pc \notin ReadPlaces
               /\ backend' = backend
               /\ Follows
    BY ScansAside
  <1>0. Holds(at[c]) /\ DataInv /\ Idle.pc \notin ReadPlaces
    BY DEF Inv, ControlInv, Idle, ReadPlaces
  <1>s. ASSUME Reads \/ Fails \/ Opens \/ (\E d : Puts(d)) \/ \E d : Closes(d)
        PROVE  Follows /\ backend' = backend
    <2>1. Follows
      BY <1>s, ReadsFollows, FailsFollows, OpensFollows, PutsFollows, ClosesFollows
    <2>2. ASSUME NEW d, Puts(d)
          PROVE  backend' = backend
      BY <2>2 DEF Puts, client
    <2>3. ASSUME NEW d, Closes(d)
          PROVE  backend' = backend
      BY <2>3 DEF Closes
    <2>4. Reads \/ Fails \/ Opens => backend' = backend
      BY DEF Reads, Fails, Opens, client
    <2> QED
      BY <1>s, <2>1, <2>2, <2>3, <2>4
  <1>1. CASE TxBegin(c)
    <2>1. at[c] = Idle /\ Goes(c, [pc |-> "tx", done |-> 0]) /\ (Opens \/ Reads)
      BY <1>1 DEF TxBegin, MayOpen, Reads
    <2>2. [pc |-> "tx", done |-> 0].pc \notin ReadPlaces
      BY DEF ReadPlaces
    <2> QED
      BY <1>0, <1>s, <2>1, <2>2
  <1>2. CASE TxExecute(c)
    <2> DEFINE d == [Seen EXCEPT !.marks = @ \cup {<<c, left[c], at[c].done + 1>>}]
               s == [at[c] EXCEPT !.done = @ + 1]
    <2>1. at[c].pc = "tx" /\ ((Goes(c, s) /\ Puts(d)) \/ (Goes(c, Idle) /\ Reads))
      BY <1>2 DEF TxExecute, Reads
    <2>2. at[c].pc \notin ReadPlaces /\ s.pc \notin ReadPlaces
      BY <1>0, <2>1 DEF Holds, ReadPlaces
    <2> HIDE DEF d, s
    <2> QED
      BY <1>0, <1>s, <2>1, <2>2
  <1>3. CASE TxCommit(c) \/ TxRollback(c) \/ RunBroken(c) \/ MigrateCommit(c)
    <2>1. Goes(c, Idle) /\ at[c].pc \in InTxPlaces
      BY <1>3 DEF TxCommit, TxRollback, RunBroken, MigrateCommit, InTxPlaces
    <2>2. Reads \/ \E d : Closes(d)
      BY <1>3 DEF TxCommit, TxRollback, RunBroken, MigrateCommit, Commits, Cancels, Reads
    <2>3. at[c].pc \notin ReadPlaces
      BY <2>1 DEF InTxPlaces, ReadPlaces
    <2> QED
      BY <1>0, <1>s, <2>1, <2>2, <2>3
  <1>4. CASE Migrate(c)
    <2>1. PICK dir \in {"up", "down"} : \E list \in Lists(dir) :
            IF list = <<>> THEN UNCHANGED <<client, stay>> /\ Goes(c, Idle)
            ELSE Opens /\ Goes(c, [pc |-> "script", dir |-> dir, todo |-> list])
      BY <1>4 DEF Migrate
    <2>2. PICK list \in Lists(dir) :
            IF list = <<>> THEN UNCHANGED <<client, stay>> /\ Goes(c, Idle)
            ELSE Opens /\ Goes(c, [pc |-> "script", dir |-> dir, todo |-> list])
      BY <2>1
    <2> DEFINE s == [pc |-> "script", dir |-> dir, todo |-> list]
    <2>3. at[c] = Idle /\ ((Goes(c, Idle) /\ Reads) \/ (Goes(c, s) /\ Opens))
      BY <1>4, <2>2 DEF Migrate, MayOpen, Reads
    <2>4. s.pc \notin ReadPlaces
      BY DEF ReadPlaces
    <2> HIDE DEF s
    <2> QED
      BY <1>0, <1>s, <2>3, <2>4
  <1>5. CASE RunScript(c)
    <2> DEFINE s == [at[c] EXCEPT !.pc = "record"]
               t == Head(at[c].todo)
               run == IF at[c].dir = "up" THEN Seen.schema \cup {t} ELSE Seen.schema \ {t}
               d == [Seen EXCEPT !.schema = run]
    <2>1. at[c].pc = "script" /\ Goes(c, s) /\ (Fails \/ Puts(d))
      BY <1>5 DEF RunScript
    <2>2. at[c].pc \notin ReadPlaces /\ s.pc \notin ReadPlaces
      BY <1>0, <2>1 DEF Holds, ReadPlaces
    <2> HIDE DEF d, s
    <2> QED
      BY <1>s, <2>1, <2>2
  <1>6. CASE Record(c)
    <2> DEFINE s == IF Len(at[c].todo) = 1 THEN [pc |-> "commit"]
                    ELSE [at[c] EXCEPT !.pc = "script", !.todo = Tail(@)]
               t == Head(at[c].todo)
               told == IF at[c].dir = "up" THEN Append(Seen.versions, t)
                       ELSE RemoveFirst(Seen.versions, t)
               d == [Seen EXCEPT !.versions = told]
    <2>1. at[c].pc = "record" /\ Goes(c, s) /\ (Fails \/ Puts(d))
      BY <1>6 DEF Record
    <2>2. at[c].pc \notin ReadPlaces /\ s.pc \notin ReadPlaces
      BY <1>0, <2>1 DEF Holds, ReadPlaces
    <2> HIDE DEF d, s
    <2> QED
      BY <1>s, <2>1, <2>2
  <1>7. CASE MigrateMemory(c)
    <2>1. /\ at[c] = Idle /\ Goes(c, Idle) /\ UNCHANGED <<backend, work, stay>> /\ Memory
      BY <1>7 DEF MigrateMemory
    <2>2. PICK q : db' = [db EXCEPT !.versions = q]
      BY <1>7 DEF MigrateMemory
    <2>3. work = NoTx
      BY <2>1 DEF Inv, ControlInv
    <2>4. Seen'.rows = Seen.rows
      BY <1>0, <2>1, <2>2, <2>3 DEF Seen, DataInv, Sane, Tabled
    <2>5. Follows
      BY <2>1, <2>4 DEF Follows, FollowsFor, ScanInv
    <2> QED
      BY <1>0, <2>1, <2>5
  <1> QED
    BY <1>1, <1>2, <1>3, <1>4, <1>5, <1>6, <1>7 DEF ClientStep

LEMMA LoseScans ==
  ASSUME Inv, ScanInv, NEW c \in Clients, Lose(c)
  PROVE  ScanInv'
  <1>1. PICK d : db' = d /\ stay' = [Staying(d) EXCEPT ![c] = {}]
    BY DEF Lose
  <1>2. work' = NoTx /\ Goes(c, Idle) /\ backend' = backend
    BY DEF Lose
  <1>3. Seen' = d
    BY <1>1, <1>2 DEF Seen
  <1>4. stay'[c] = {} /\ Follows
    BY <1>1, <1>3 DEF Follows, FollowsFor, Staying
  <1>5. Idle.pc \notin ReadPlaces
    BY DEF Idle, ReadPlaces
  <1> QED
    BY <1>2, <1>4, <1>5, ScansAside

LEMMA InitScans == ClientInit => ScanInv
  BY DEF ClientInit, ScanInv, Scanning, Complete, Matching, Idle, ReadPlaces

LEMMA NextScans ==
  ASSUME IsFiniteSet(Ids), Inv, ScanInv, [StorageNext]_vars
  PROVE  ScanInv'
  <1>1. CASE UNCHANGED vars
    BY <1>1 DEF vars, client, ScanInv, Scanning, Complete, Matching, Seen, Exists, Surreal, Memory
  <1>2. ASSUME NEW c \in Clients, Step(c)
        PROVE  ScanInv'
    <2>1. \/ ClientStep(c) /\ ~ Lose(c)
          \/ Lose(c)
          \/ Write(c) \/ Graph(c) \/ Index(c)
          \/ ScanStart(c) \/ Search(c) \/ SurrealSelect(c) \/ MemorySelect(c) \/ Return(c)
      BY <1>2 DEF Step
    <2> QED
      BY <2>1, TxScans, LoseScans, OtherScans, StartScans, SearchScans, SurrealScans, MemoryScans,
         ReturnScans
  <1> QED
    BY <1>1, <1>2 DEF StorageNext, Over

LEMMA Scans ==
  ASSUME IsFiniteSet(Ids)
  PROVE  Spec => []ScanInv
  <1>1. Inv /\ ScanInv /\ [StorageNext]_vars => ScanInv'
    BY NextScans
  <1> QED
    BY <1>1, InitScans, Invariance, PTL DEF Spec

\* Whatever others write, commit or roll back between two pages, a scan in the
\* order of the ids that has reached its last page has found every record that was
\* there and meant all the time (select, its cursor), as long as the database leaves
\* out no record behind the cursor (OrdersAssumption).
THEOREM ScansFindAll ==
  ASSUME IsFiniteSet(Ids)
  PROVE  Spec => []ScanComplete
  <1>1. ScanInv => ScanComplete
    BY DEF ScanInv, Complete, ScanComplete
  <1> QED
    BY <1>1, Scans, PTL

\* Every page a search is given holds records that its filter means, however the
\* groups are nested in it and its operands numbered, unless something empty in it
\* is negated or an alternative (build_filter_recursive, select).
THEOREM PagesMean ==
  ASSUME IsFiniteSet(Ids)
  PROVE  Spec => []PagesMatch
  <1>1. ScanInv => PagesMatch
    BY DEF ScanInv, Matching, PagesMatch
  <1> QED
    BY <1>1, Scans, PTL
=============================================================================
