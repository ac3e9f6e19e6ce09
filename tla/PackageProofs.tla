----------------------------- MODULE PackageProofs -----------------------------
(***************************************************************************)
(* load_order and unload_order come to their ends with the orders they are *)
(* for, for any dependency graph and any names; and the addon manager,     *)
(* that loads and unloads by these orders, loads an addon once, keeps what *)
(* a loaded addon needs loaded, and uninstalls nothing that is needed.     *)
(*                                                                         *)
(* A walk is a loop: its function is shown to exist, and to come to its    *)
(* end, because a step paints a white vertex, takes a name, or takes a     *)
(* step off the stack.  What holds at the end is what every step keeps.    *)
(* This is well-founded induction over states, stated without a predicate  *)
(* as a parameter: the least of the measures of a set of states.           *)
(*                                                                         *)
(* In the lemmas G is a graph, K the kinds of the packages, L what is      *)
(* loaded, and w a walk, or the work a thread has still to do.             *)
(***************************************************************************)
EXTENDS AddonManager, PackageOrders, SequenceTheorems, FiniteSetTheorems,
        WellFoundedInduction, TLAPS

-----------------------------------------------------------------------------
(***************************************************************************)
(* Loops                                                                   *)
(***************************************************************************)

LEMMA LeastNumber ==
    ASSUME NEW S \in SUBSET Nat, S # {}
    PROVE  \E n \in S : \A m \in S : n <= m
<1> DEFINE R == {ss \in Nat \X Nat : ss[1] < ss[2]}
<1>1. IsWellFoundedOn(R, Nat)
  BY NatLessThanWellFounded DEF OpToRel, R
<1>2. \A m, n \in Nat : m < n => <<m, n>> \in R
  BY DEF R
<1> HIDE DEF R
<1>3. PICK n \in S : \A m \in S : ~ (<<m, n>> \in R)
  BY <1>1, WFMin
<1>4. n \in Nat /\ \A m \in S : m \in Nat /\ ~ (m < n)
  BY <1>2, <1>3
<1> QED
  BY <1>4

\* There is a function that computes what a loop does: where it is over, the state it is in,
\* and before that what it computes from the next state, whether the loop ends or not.
LEMMA LoopFunction ==
    ASSUME NEW S, NEW T \in SUBSET S, NEW F \in [S -> S]
    PROVE  \E g : g = [s \in S |-> IF s \in T THEN s ELSE g[F[s]]]
<1> DEFINE Before(C) == \A s \in S : s \notin T /\ F[s] \in C => s \in C
           Basin(t) == {s \in S : \A C \in SUBSET S : t \in C /\ Before(C) => s \in C}
           Ends(s) == {t \in T : s \in Basin(t)}
           k == [s \in S |-> CHOOSE t \in Ends(s) : TRUE]
<1>1. ASSUME NEW s \in T
      PROVE  Ends(s) = {s}
  <2>1. s \in Ends(s)
    OBVIOUS
  <2>2. ASSUME NEW t \in Ends(s), t # s
        PROVE  FALSE
    <3>1. S \ {s} \in SUBSET S /\ t \in S \ {s} /\ Before(S \ {s})
      BY <2>2
    <3> QED
      BY <2>2, <3>1
  <2> QED
    BY <2>1, <2>2
<1>2. ASSUME NEW s \in S, s \notin T
      PROVE  Ends(s) = Ends(F[s])
  <2>1. F[s] \in S
    OBVIOUS
  <2>2. ASSUME NEW t \in T, F[s] \in Basin(t)
        PROVE  s \in Basin(t)
    BY <1>2, <2>2
  <2>3. ASSUME NEW t \in T, s \in Basin(t), F[s] \notin Basin(t)
        PROVE  FALSE
    <3>1. t \in Basin(t) /\ t # s
      BY <1>2
    <3>2. Before(Basin(t))
      <4> SUFFICES ASSUME NEW r \in S, r \notin T, F[r] \in Basin(t),
                          NEW C \in SUBSET S, t \in C, Before(C)
                   PROVE  r \in C
        OBVIOUS
      <4> QED
        OBVIOUS
    <3> DEFINE C == Basin(t) \ {s}
    <3>3. C \in SUBSET S /\ t \in C
      BY <3>1
    <3>4. Before(C)
      <4> HIDE DEF Basin
      <4> QED BY <2>3, <3>2
    <3>5. s \in C
      <4> HIDE DEF C
      <4> QED BY <2>3, <3>3, <3>4
    <3> QED
      BY <3>5
  <2> HIDE DEF Basin
  <2> QED
    BY <2>1, <2>2, <2>3
<1>3. \A s \in S : k[s] = IF s \in T THEN s ELSE k[F[s]]
  <2> HIDE DEF Ends
  <2> TAKE s \in S
  <2>1. CASE s \in T
    BY <1>1, <2>1
  <2>2. CASE s \notin T
    BY <1>2, <2>2
  <2> QED
    BY <2>1, <2>2
<1>4. k = [s \in S |-> IF s \in T THEN s ELSE k[F[s]]]
  <2>1. k = [s \in S |-> k[s]]
    BY DEF k
  <2> HIDE DEF k
  <2> QED
    BY <1>3, <2>1
<1> HIDE DEF k
<1> QED
  BY <1>4

\* What a loop does, by the function g; and that each of its steps keeps I, and makes three
\* numbers smaller in their order.
IsLoop(S, T, F, g) == \A s \in S : g[s] = IF s \in T THEN s ELSE g[F[s]]
Descends(T, F, I, a, b, c) ==
    \A s \in I \ T :
        /\ F[s] \in I
        /\ \/ a[F[s]] < a[s]
           \/ a[F[s]] = a[s] /\ b[F[s]] < b[s]
           \/ a[F[s]] = a[s] /\ b[F[s]] = b[s] /\ c[F[s]] < c[s]

\* A loop that keeps I, and makes three numbers smaller in their order, comes to its end, in I.
LEMMA LoopEnds ==
    ASSUME NEW S, NEW T \in SUBSET S, NEW F \in [S -> S], NEW I \in SUBSET S,
           NEW a \in [S -> Nat], NEW b \in [S -> Nat], NEW c \in [S -> Nat],
           Descends(T, F, I, a, b, c), NEW g, IsLoop(S, T, F, g)
    PROVE  \A s \in I : g[s] \in I \cap T
<1> USE DEF IsLoop, Descends
<1> DEFINE Bad == {s \in I : g[s] \notin I \cap T}
<1> SUFFICES ASSUME Bad # {}
             PROVE  FALSE
  OBVIOUS
<1>2. \A s \in Bad : s \in I \ T /\ F[s] \in Bad
  OBVIOUS
<1>3. Bad \subseteq S
  OBVIOUS
<1> HIDE DEF Bad
<1>4. PICK s1 \in Bad : \A s \in Bad : a[s1] <= a[s]
  <2> DEFINE A == {a[s] : s \in Bad}
  <2>1. A \in SUBSET Nat /\ A # {}
    BY <1>3
  <2>2. PICK n \in A : \A m \in A : n <= m
    BY <2>1, LeastNumber
  <2> QED
    BY <2>2
<1>5. PICK s2 \in Bad : a[s2] = a[s1] /\ \A s \in Bad : a[s] = a[s1] => b[s2] <= b[s]
  <2> DEFINE B == {b[s] : s \in {r \in Bad : a[r] = a[s1]}}
  <2>1. B \in SUBSET Nat /\ B # {}
    BY <1>3, <1>4
  <2>2. PICK n \in B : \A m \in B : n <= m
    BY <2>1, LeastNumber
  <2> QED
    BY <1>4, <2>2
<1>6. PICK s3 \in Bad : /\ a[s3] = a[s1] /\ b[s3] = b[s2]
                        /\ \A s \in Bad : a[s] = a[s1] /\ b[s] = b[s2] => c[s3] <= c[s]
  <2> DEFINE C == {c[s] : s \in {r \in Bad : a[r] = a[s1] /\ b[r] = b[s2]}}
  <2>1. C \in SUBSET Nat /\ C # {}
    BY <1>3, <1>5
  <2>2. PICK n \in C : \A m \in C : n <= m
    BY <2>1, LeastNumber
  <2> QED
    BY <1>5, <2>2
<1>7. F[s3] \in Bad /\ s3 \in I \ T
  BY <1>2
<1>8. /\ a[s3] \in Nat /\ b[s3] \in Nat /\ c[s3] \in Nat
      /\ a[F[s3]] \in Nat /\ b[F[s3]] \in Nat /\ c[F[s3]] \in Nat
  BY <1>3, <1>7
<1>9. a[F[s3]] >= a[s3] /\ (a[F[s3]] = a[s3] => b[F[s3]] >= b[s3])
      /\ (a[F[s3]] = a[s3] /\ b[F[s3]] = b[s3] => c[F[s3]] >= c[s3])
  BY <1>4, <1>5, <1>6, <1>7, <1>8
<1> QED
  BY <1>7, <1>8, <1>9

-----------------------------------------------------------------------------
(***************************************************************************)
(* Sequences                                                               *)
(***************************************************************************)

\* A stack without its last step, and with others on it.
LEMMA Stacks ==
    ASSUME NEW X, NEW s \in Seq(X), s # <<>>
    PROVE  /\ Last(s) \in X /\ Last(s) = s[Len(s)] /\ Len(s) \in Nat \ {0}
           /\ Front(s) \in Seq(X) /\ Len(Front(s)) = Len(s) - 1
           /\ \A i \in 1 .. Len(s) - 1 : Front(s)[i] = s[i]
<1>1. Len(s) \in Nat \ {0} /\ DOMAIN s = 1 .. Len(s)
  OBVIOUS
<1>2. Last(s) = s[Len(s)] /\ s[Len(s)] \in X
  BY <1>1 DEF Last
<1>3. /\ SubSeq(s, 1, Len(s) - 1) \in Seq(X) /\ Len(SubSeq(s, 1, Len(s) - 1)) = Len(s) - 1
      /\ \A i \in 1 .. Len(s) - 1 : SubSeq(s, 1, Len(s) - 1)[i] = s[i]
  BY <1>1
<1> QED
  BY <1>1, <1>2, <1>3 DEF Front

LEMMA Pushed ==
    ASSUME NEW X, NEW s \in Seq(X), NEW t \in Seq(X)
    PROVE  /\ s \o t \in Seq(X) /\ Len(s \o t) = Len(s) + Len(t)
           /\ \A i \in 1 .. Len(s) : (s \o t)[i] = s[i]
           /\ \A i \in Len(s) + 1 .. Len(s) + Len(t) : (s \o t)[i] = t[i - Len(s)]
OBVIOUS

LEMMA EnteredFacts ==
    ASSUME NEW p \in Packages, NEW deps \in Seq(Dependency)
    PROVE  LET e == Entered(p, deps) IN
           /\ e \in Seq(Step) /\ Len(e) = Len(deps) + 1
           /\ e[1] = Leaving(p)
           /\ \A i \in 2 .. Len(e) : \E d \in DOMAIN deps : e[i] = SortOf(deps[d])
           /\ \A d \in DOMAIN deps : \E i \in 2 .. Len(e) : e[i] = SortOf(deps[d])
<1>1. Len(deps) \in Nat /\ DOMAIN deps = 1 .. Len(deps)
  OBVIOUS
<1>2. \A d \in DOMAIN deps : Len(deps) + 1 - d \in DOMAIN deps /\ deps[d] \in Dependency
  BY <1>1
<1>3. /\ SortsOf(deps) \in Seq(Step) /\ Len(SortsOf(deps)) = Len(deps)
      /\ \A i \in 1 .. Len(deps) : SortsOf(deps)[i] = SortOf(deps[Len(deps) + 1 - i])
  <2>1. \A d \in Dependency : SortOf(d) \in Step
    BY DEF SortOf, Step, Dependency
  <2> QED
    BY <1>1, <1>2, <2>1 DEF SortsOf
<1>4. <<Leaving(p)>> \in Seq(Step) /\ Len(<<Leaving(p)>>) = 1
  BY DEF Leaving, Step
<1> HIDE DEF SortsOf, Leaving, SortOf
<1>5. /\ Entered(p, deps) \in Seq(Step) /\ Len(Entered(p, deps)) = Len(deps) + 1
      /\ Entered(p, deps)[1] = Leaving(p)
      /\ \A i \in 2 .. Len(deps) + 1 : Entered(p, deps)[i] = SortsOf(deps)[i - 1]
  BY <1>1, <1>3, <1>4 DEF Entered
<1>6. ASSUME NEW i \in 2 .. Len(deps) + 1
      PROVE  \E d \in DOMAIN deps : Entered(p, deps)[i] = SortOf(deps[d])
  <2>1. i - 1 \in 1 .. Len(deps) /\ Len(deps) + 1 - (i - 1) \in DOMAIN deps
    BY <1>1
  <2> QED
    BY <1>3, <1>5, <2>1
<1>7. ASSUME NEW d \in DOMAIN deps
      PROVE  \E i \in 2 .. Len(deps) + 1 : Entered(p, deps)[i] = SortOf(deps[d])
  <2> DEFINE i == Len(deps) + 2 - d
  <2>1. i \in 2 .. Len(deps) + 1 /\ i - 1 \in 1 .. Len(deps) /\ Len(deps) + 1 - (i - 1) = d
    BY <1>1
  <2> QED
    BY <1>3, <1>5, <2>1
<1> QED
  BY <1>5, <1>6, <1>7

-----------------------------------------------------------------------------
(***************************************************************************)
(* The steps of load_order: a name is taken, a vertex entered, left or passed*)
(* over, or the walk fails.                                                *)
(***************************************************************************)

Rest(v, w) == v.color = w.color /\ v.results = w.results /\ v.error = w.error
              /\ v.names = w.names

Takes(G, w, v) ==
    /\ w.todo = <<>> /\ w.names # <<>> /\ Head(w.names) \in Installed(G)
    /\ v.color = w.color /\ v.results = w.results /\ v.error = "none"
    /\ v.names = Tail(w.names)
    /\ v.todo = <<SortOf([name |-> Head(w.names), required |-> TRUE])>>

Leaves(G, w, v) ==
    LET s == w.todo[Len(w.todo)] IN
    /\ w.todo # <<>> /\ s.op = "leave"
    /\ v.color = [w.color EXCEPT ![s.name] = "black"]
    /\ v.results = Append(w.results, s.name)
    /\ v.error = "none" /\ v.names = w.names /\ v.todo = Front(w.todo)

Drops(G, w, v) ==
    LET s == w.todo[Len(w.todo)] IN
    /\ w.todo # <<>> /\ s.op = "sort"
    /\ s.required => s.name \in Installed(G) /\ w.color[s.name] = "black"
    /\ s.name \in Installed(G) => w.color[s.name] # "white"
    /\ Rest(v, w) /\ v.todo = Front(w.todo)

Enters(G, w, v) ==
    LET s == w.todo[Len(w.todo)] IN
    /\ w.todo # <<>> /\ s.op = "sort"
    /\ s.name \in Installed(G) /\ w.color[s.name] = "white"
    /\ v.color = [w.color EXCEPT ![s.name] = "gray"]
    /\ v.results = w.results /\ v.error = "none" /\ v.names = w.names
    /\ v.todo = Front(w.todo) \o Entered(s.name, G[s.name])

Fails(G, w, v) ==
    /\ v.error \in {"P1", "P2", "P3"} /\ v.color = w.color
    /\ \/ w.todo = <<>> /\ v.todo = <<>> /\ w.names # <<>> /\ v.names = Tail(w.names)
       \/ w.todo # <<>> /\ v.todo = Front(w.todo) /\ v.names = w.names
    /\ v.error = "P3" =>
         LET s == w.todo[Len(w.todo)] IN
         /\ w.todo # <<>> /\ s.op = "sort"
         /\ s.name \in Installed(G) /\ w.color[s.name] = "gray"

LEMMA LoadSteps ==
    ASSUME NEW G, IsGraph(G), NEW w \in Walk(Step), ~Over(w)
    PROVE  LET v == LoadStep(G, w) IN
           /\ v \in Walk(Step)
           /\ Takes(G, w, v) \/ Leaves(G, w, v) \/ Drops(G, w, v) \/ Enters(G, w, v) \/ Fails(G, w, v)
<1> DEFINE v == LoadStep(G, w)
<1>1. w.error = "none" /\ (w.names # <<>> \/ w.todo # <<>>)
      /\ w.todo \in Seq(Step) /\ w.names \in Seq(Packages) /\ w.results \in Seq(Packages)
      /\ w.color \in [Packages -> Colors]
  BY DEF Over, Walk, Errors
<1>2. CASE w.todo = <<>>
  <2>1. w.names # <<>> /\ Head(w.names) \in Packages /\ Tail(w.names) \in Seq(Packages)
    BY <1>1, <1>2
  <2>2. v = SortNext(G, w)
    BY <1>2 DEF LoadStep
  <2> DEFINE p == Head(w.names)
             t == <<SortOf([name |-> p, required |-> TRUE])>>
  <2>3. t \in Seq(Step) /\ w.todo \o t = t
    BY <1>2, <2>1 DEF SortOf, Step
  <2> HIDE DEF t
  <2>4. CASE p \in Installed(G)
    <3>1. v = [[w EXCEPT !.names = Tail(@)] EXCEPT !.todo = @ \o t]
      BY <2>2, <2>4 DEF SortNext, Push, Named, t
    <3>2. v = [w EXCEPT !.names = Tail(w.names), !.todo = t]
      BY <3>1, <2>3 DEF Walk
    <3>3. v \in Walk(Step)
      BY <3>2, <2>1, <2>3 DEF Walk
    <3>4. Takes(G, w, v)
      BY <3>2, <1>1, <1>2, <2>1, <2>4 DEF Takes, Walk, t
    <3> QED
      BY <3>3, <3>4
  <2>5. CASE p \notin Installed(G)
    <3>1. v = [w EXCEPT !.names = Tail(w.names), !.error = "P1", !.at = p]
      BY <2>2, <2>5 DEF SortNext, Fail, Named, Walk
    <3>2. v \in Walk(Step)
      BY <3>1, <2>1 DEF Walk, Errors
    <3>3. Fails(G, w, v)
      BY <3>1, <1>2, <2>1 DEF Fails, Walk
    <3> QED
      BY <3>2, <3>3
  <2> QED
    BY <2>4, <2>5
<1>3. CASE w.todo # <<>>
  <2> DEFINE s == w.todo[Len(w.todo)]
             p == s.name
             u == [w EXCEPT !.todo = Front(w.todo)]
  <2>1. s \in Step /\ s = Last(w.todo) /\ Front(w.todo) \in Seq(Step) /\ p \in Packages
    <3>1. Last(w.todo) \in Step /\ s = Last(w.todo) /\ Front(w.todo) \in Seq(Step)
      BY <1>1, <1>3, Stacks
    <3> QED
      BY <3>1 DEF Step
  <2>2. v = SortStep(G, u, s)
    BY <1>3, <2>1 DEF LoadStep, Pop
  <2>3. u \in Walk(Step) /\ u.todo = Front(w.todo) /\ Rest(u, w)
    BY <2>1 DEF Walk, Rest
  <2> HIDE DEF u, s
  <2>4. CASE s.op = "leave"
    <3>1. v = [u EXCEPT !.color[p] = "black", !.results = Append(u.results, p)]
      BY <2>2, <2>3, <2>4 DEF SortStep, Emit, Paint, Walk
    <3>2. v \in Walk(Step)
      <4>1. [u.color EXCEPT ![p] = "black"] \in [Packages -> Colors]
        BY <2>1, <2>3 DEF Walk, Colors
      <4>2. Append(u.results, p) \in Seq(Packages)
        BY <2>1, <2>3 DEF Walk
      <4>3. v = [u EXCEPT !.color = [u.color EXCEPT ![p] = "black"], !.results = Append(u.results, p)]
        BY <3>1, <2>3 DEF Walk
      <4> QED
        BY <4>1, <4>2, <4>3, <2>3 DEF Walk
    <3>3. Leaves(G, w, v)
      BY <3>1, <2>3, <2>4, <1>1, <1>3 DEF Leaves, Walk, Rest, s
    <3> QED
      BY <3>2, <3>3
  <2>5. CASE s.op # "leave" /\ p \notin Installed(G)
    <3>1. CASE s.required
      <4>1. v = [u EXCEPT !.error = "P2", !.at = p]
        BY <2>2, <2>5, <3>1 DEF SortStep, Fail, Walk
      <4>2. v \in Walk(Step)
        BY <4>1, <2>1, <2>3 DEF Walk, Errors
      <4>3. Fails(G, w, v)
        BY <4>1, <2>3, <1>3 DEF Fails, Walk, Rest
      <4> QED
        BY <4>2, <4>3
    <3>2. CASE ~s.required
      <4>1. v = u
        BY <2>2, <2>5, <3>2 DEF SortStep
      <4>2. Drops(G, w, v)
        BY <4>1, <3>2, <2>1, <2>3, <2>5, <1>3 DEF Drops, Step, s
      <4> QED
        BY <4>1, <4>2, <2>3
    <3> QED
      BY <3>1, <3>2
  <2>6. CASE s.op # "leave" /\ p \in Installed(G) /\ u.color[p] = "white"
    <3>1. v = [u EXCEPT !.color[p] = "gray", !.todo = u.todo \o Entered(p, G[p])]
      BY <2>2, <2>3, <2>6 DEF SortStep, Push, Paint, Walk
    <3>2. Entered(p, G[p]) \in Seq(Step)
      BY <2>1, <2>6, EnteredFacts DEF IsGraph
    <3>3. v \in Walk(Step)
      <4>1. [u.color EXCEPT ![p] = "gray"] \in [Packages -> Colors]
        BY <2>1, <2>3 DEF Walk, Colors
      <4>2. u.todo \o Entered(p, G[p]) \in Seq(Step)
        BY <3>2, <2>3 DEF Walk
      <4>3. v = [u EXCEPT !.color = [u.color EXCEPT ![p] = "gray"], !.todo = u.todo \o Entered(p, G[p])]
        BY <3>1, <2>3 DEF Walk
      <4> QED
        BY <4>1, <4>2, <4>3, <2>3 DEF Walk
    <3>4. Enters(G, w, v)
      BY <3>1, <2>1, <2>3, <2>6, <1>1, <1>3 DEF Enters, Walk, Rest, Step, s
    <3> QED
      BY <3>3, <3>4
  <2>7. CASE s.op # "leave" /\ p \in Installed(G) /\ u.color[p] = "gray" /\ s.required
    <3>1. v = [u EXCEPT !.error = "P3", !.at = p]
      BY <2>2, <2>7 DEF SortStep, Fail, Walk
    <3>2. v \in Walk(Step)
      BY <3>1, <2>1, <2>3 DEF Walk, Errors
    <3>3. Fails(G, w, v)
      BY <3>1, <2>1, <2>3, <2>7, <1>3 DEF Fails, Walk, Rest, Step, s
    <3> QED
      BY <3>2, <3>3
  <2>8. CASE /\ s.op # "leave" /\ p \in Installed(G) /\ u.color[p] # "white"
             /\ ~ (u.color[p] = "gray" /\ s.required)
    <3>1. v = u
      BY <2>2, <2>8 DEF SortStep
    <3>2. u.color[p] \in Colors
      BY <2>1, <2>3 DEF Walk
    <3>3. Drops(G, w, v)
      BY <3>1, <3>2, <2>1, <2>3, <2>8, <1>3 DEF Drops, Step, Rest, Colors, s
    <3> QED
      BY <3>1, <3>3, <2>3
  <2> QED
    BY <2>4, <2>5, <2>6, <2>7, <2>8
<1> QED
  BY <1>2, <1>3

-----------------------------------------------------------------------------
(***************************************************************************)
(* Stacks                                                                  *)
(***************************************************************************)

\* The steps that come before the one at k.
Above(todo, k) == {todo[j] : j \in k + 1 .. Len(todo)}

\* A stack r is a stack s whose last step was taken and left the steps of t to do first.
Stays(s, t, r) ==
    \A k \in 1 .. Len(s) - 1 :
        /\ k \in DOMAIN s /\ r[k] = s[k]
        /\ s[Len(s)] \in Above(s, k)
        /\ Above(s, k) \subseteq Above(r, k) \cup {s[Len(s)]}
        /\ Above(r, k) \subseteq Above(s, k) \cup ToSet(t)
        /\ ToSet(t) \subseteq Above(r, k)

Comes(s, t, r) ==
    \A k \in Len(s) .. Len(r) :
        /\ k - Len(s) + 1 \in DOMAIN t /\ r[k] = t[k - Len(s) + 1]
        /\ Above(r, k) = {t[i] : i \in k - Len(s) + 2 .. Len(t)}

LEMMA StackStep ==
    ASSUME NEW X, NEW s \in Seq(X), s # <<>>, NEW t \in Seq(X),
           NEW r \in Seq(X), r = Front(s) \o t
    PROVE  /\ Len(s) \in Nat \ {0} /\ Len(r) = Len(s) - 1 + Len(t)
           /\ Stays(s, t, r) /\ Comes(s, t, r)
           /\ Above(s, Len(s)) = {}
<1> DEFINE n == Len(s)
           f == Front(s)
<1>1. /\ f \in Seq(X) /\ n \in Nat \ {0} /\ Len(f) = n - 1
      /\ \A i \in 1 .. n - 1 : f[i] = s[i]
  BY Stacks
<1>4. Len(t) \in Nat /\ DOMAIN t = 1 .. Len(t) /\ DOMAIN s = 1 .. n
  OBVIOUS
<1> HIDE DEF f, n
<1>2. /\ r \in Seq(X) /\ Len(r) = n - 1 + Len(t)
      /\ \A i \in 1 .. n - 1 : r[i] = f[i]
      /\ \A i \in n .. n - 1 + Len(t) : r[i] = t[i - n + 1]
  <2>1. r = f \o t
    BY DEF f
  <2>2. /\ r \in Seq(X) /\ Len(r) = Len(f) + Len(t)
        /\ \A i \in 1 .. Len(f) : r[i] = f[i]
        /\ \A i \in Len(f) + 1 .. Len(f) + Len(t) : r[i] = t[i - Len(f)]
    BY <1>1, <2>1
  <2>3. \A i \in n .. n - 1 + Len(t) : i \in Len(f) + 1 .. Len(f) + Len(t) /\ i - Len(f) = i - n + 1
    BY <1>1, <1>4
  <2> QED
    BY <1>1, <2>2, <2>3
<1>3. \A i \in 1 .. n - 1 : r[i] = s[i]
  BY <1>1, <1>2
<1>5. \A j \in 1 .. Len(t) : j + n - 1 \in n .. Len(r) /\ r[j + n - 1] = t[j]
  <2> TAKE j \in 1 .. Len(t)
  <2> DEFINE i == j + n - 1
  <2>1. i \in n .. n - 1 + Len(t) /\ i - n + 1 = j
    BY <1>1, <1>4
  <2>2. n - 1 + Len(t) = Len(r)
    BY <1>2
  <2> HIDE DEF i
  <2>3. i \in n .. Len(r) /\ r[i] = t[j]
    BY <1>2, <2>1, <2>2
  <2> QED
    BY <2>3 DEF i
<1>6. ASSUME NEW k \in 1 .. n - 1
      PROVE  /\ r[k] = s[k] /\ k \in DOMAIN s
             /\ s[n] \in Above(s, k)
             /\ Above(s, k) \subseteq Above(r, k) \cup {s[n]}
             /\ Above(r, k) \subseteq Above(s, k) \cup ToSet(t)
             /\ ToSet(t) \subseteq Above(r, k)
  <2>1. ASSUME NEW j \in k + 1 .. n, j # n
        PROVE  s[j] \in Above(r, k)
    <3>1. j \in k + 1 .. Len(r) /\ j \in 1 .. n - 1
      BY <1>1, <1>2, <1>4, <2>1
    <3>2. r[j] = s[j]
      BY <1>3, <3>1
    <3> QED
      BY <3>1, <3>2 DEF Above
  <2>2. ASSUME NEW j \in k + 1 .. Len(r)
        PROVE  r[j] \in Above(s, k) \cup ToSet(t)
    <3>1. CASE j < n
      <4>1. j \in 1 .. n - 1 /\ j \in k + 1 .. n
        BY <1>1, <3>1
      <4>2. r[j] = s[j]
        BY <1>3, <4>1
      <4> QED
        BY <4>1, <4>2 DEF Above, n
    <3>2. CASE j >= n
      <4>0. j \in n .. n - 1 + Len(t) /\ j - n + 1 \in 1 .. Len(t)
        BY <1>1, <1>2, <1>4, <3>2
      <4>1. j - n + 1 \in DOMAIN t /\ r[j] = t[j - n + 1]
        BY <1>2, <1>4, <4>0
      <4> QED
        BY <4>1 DEF ToSet
    <3> QED
      BY <1>1, <1>2, <1>4, <3>1, <3>2
  <2>3. ASSUME NEW j \in 1 .. Len(t)
        PROVE  t[j] \in Above(r, k)
    <3>1. j + n - 1 \in k + 1 .. Len(r)
      BY <1>1, <1>5
    <3> QED
      BY <1>5, <3>1 DEF Above
  <2>4. r[k] = s[k] /\ k \in DOMAIN s /\ n \in k + 1 .. n
    <3>1. k \in 1 .. n /\ n \in k + 1 .. n
      BY <1>1
    <3> QED
      BY <1>3, <1>4, <3>1
  <2>5. s[n] \in Above(s, k) /\ Above(s, k) \subseteq Above(r, k) \cup {s[n]}
    BY <2>1, <2>4 DEF Above, n
  <2>6. Above(r, k) \subseteq Above(s, k) \cup ToSet(t)
    BY <2>2 DEF Above
  <2>7. ToSet(t) \subseteq Above(r, k)
    BY <1>4, <2>3 DEF ToSet
  <2> QED
    BY <2>4, <2>5, <2>6, <2>7
<1>7. ASSUME NEW k \in n .. Len(r)
      PROVE  k - n + 1 \in DOMAIN t /\ r[k] = t[k - n + 1]
  BY <1>1, <1>2, <1>4
<1>8. ASSUME NEW k \in n .. Len(r)
      PROVE  Above(r, k) = {t[i] : i \in k - n + 2 .. Len(t)}
  <2>1. \A j \in k + 1 .. Len(r) : j - n + 1 \in k - n + 2 .. Len(t) /\ r[j] = t[j - n + 1]
    BY <1>1, <1>2, <1>4
  <2>2. \A i \in k - n + 2 .. Len(t) : i + n - 1 \in k + 1 .. Len(r) /\ r[i + n - 1] = t[i]
    BY <1>1, <1>2, <1>4, <1>5
  <2>3. Above(r, k) \subseteq {t[i] : i \in k - n + 2 .. Len(t)}
    BY <2>1 DEF Above
  <2>4. \A i \in k - n + 2 .. Len(t) : t[i] \in Above(r, k)
    BY <2>2 DEF Above
  <2> QED
    BY <2>3, <2>4
<1>9. Above(s, n) = {}
  BY <1>1 DEF Above, n
<1> QED
  BY <1>1, <1>2, <1>6, <1>7, <1>8, <1>9 DEF n, Stays, Comes

\* The next step is taken, and leaves no more to do.
LEMMA StackPop ==
    ASSUME NEW X, NEW s \in Seq(X), s # <<>>, NEW r, r = Front(s)
    PROVE  /\ r \in Seq(X) /\ Len(s) \in Nat \ {0} /\ Len(r) = Len(s) - 1
           /\ DOMAIN r = 1 .. Len(s) - 1
           /\ Stays(s, <<>>, r) /\ ToSet(<<>>) = {}
           /\ Above(s, Len(s)) = {}
<1>0. <<>> \in Seq(X)
  OBVIOUS
<1>1. PICK t \in Seq(X) : t = <<>>
  BY <1>0, ZenonT(30)
<1>2. ToSet(t) = {} /\ Len(t) = 0
  BY <1>1 DEF ToSet
<1>3. r \in Seq(X) /\ r = Front(s) \o t
  BY <1>1, Stacks
<1>4. Len(s) \in Nat \ {0} /\ Len(r) = Len(s) - 1 + Len(t) /\ Above(s, Len(s)) = {}
  BY <1>3, StackStep, SMTT(30)
<1>6. Stays(s, t, r)
  <2>1. \A u \in Seq(X) : u = Front(s) \o t => Stays(s, t, u)
    BY StackStep, ZenonT(30)
  <2> QED
    BY <1>3, <2>1
<1>5. Len(r) = Len(s) - 1 /\ DOMAIN r = 1 .. Len(s) - 1
  BY <1>2, <1>4
<1> QED
  BY <1>1, <1>2, <1>3, <1>4, <1>5, <1>6

-----------------------------------------------------------------------------
(***************************************************************************)
(* What holds of a walk of load_order, at each of its steps                *)
(***************************************************************************)

\* Where the names lead to is the least set that has them and what they depend on.
LEMMA DependenciesFacts ==
    ASSUME NEW G, NEW N
    PROVE  /\ Dependencies(G, N) \subseteq Installed(G)
           /\ N \cap Installed(G) \subseteq Dependencies(G, N)
           /\ DependenciesWithin(G, Dependencies(G, N))
           /\ \A S \in SUBSET Installed(G) :
                 N \cap Installed(G) \subseteq S /\ DependenciesWithin(G, S)
                    => Dependencies(G, N) \subseteq S
BY DEF Dependencies, DependenciesWithin

IsLeave(x, p) == x.op = "leave" /\ x.name = p

\* The gray vertices are those that are to be left.
Opened(w) ==
    /\ \A k \in DOMAIN w.todo : w.todo[k].op = "leave" => w.color[w.todo[k].name] = "gray"
    /\ \A p \in Packages : w.color[p] = "gray" => \E k \in DOMAIN w.todo : IsLeave(w.todo[k], p)
    /\ \A j, k \in DOMAIN w.todo :
          w.todo[j].op = "leave" /\ w.todo[k].op = "leave" /\ w.todo[j].name = w.todo[k].name => j = k

\* The results are the black vertices, each once.
Emitted(w) ==
    /\ \A i \in DOMAIN w.results : w.color[w.results[i]] = "black"
    /\ \A p \in Packages : w.color[p] = "black" => \E i \in DOMAIN w.results : w.results[i] = p
    /\ \A i, j \in DOMAIN w.results : w.results[i] = w.results[j] => i = j

\* A result comes after what it requires, and what it may use was found.
Ordered(G, w) ==
    \A i \in DOMAIN w.results : \A d \in DOMAIN G[w.results[i]] :
        LET e == G[w.results[i]][d] IN
        /\ e.required => \E j \in 1 .. i - 1 : w.results[j] = e.name
        /\ e.name \in Installed(G) => w.color[e.name] # "white"

\* What a gray vertex depends on is looked for before it is left, or was found.
Handled(G, w) ==
    \A k \in DOMAIN w.todo : w.todo[k].op = "leave" =>
        \A d \in DOMAIN G[w.todo[k].name] :
            LET e == G[w.todo[k].name][d] IN
            \/ SortOf(e) \in Above(w.todo, k)
            \/ /\ e.name \in Installed(G) => w.color[e.name] # "white"
               /\ e.required =>
                     /\ e.name \in Installed(G)
                     /\ \/ w.color[e.name] = "black"
                        \/ \E x \in Above(w.todo, k) : IsLeave(x, e.name)

\* What was found is what the names lead to, and each name is found or still to be.
Reached(G, ns, w) ==
    /\ \A p \in Packages : w.color[p] # "white" => p \in Dependencies(G, ToSet(ns))
    /\ \A k \in DOMAIN w.todo :
          w.todo[k].name \in Installed(G) => w.todo[k].name \in Dependencies(G, ToSet(ns))
    /\ \A i \in DOMAIN w.names : w.names[i] \in ToSet(ns)
    /\ \A p \in ToSet(ns) :
          \/ \E i \in DOMAIN w.names : w.names[i] = p
          \/ /\ p \in Installed(G)
             /\ \/ w.color[p] # "white"
                \/ \E k \in DOMAIN w.todo : w.todo[k].op = "sort" /\ w.todo[k].name = p

\* A gray vertex leads to all that is to be done before it is left.
Leading(G, w) ==
    \A k \in DOMAIN w.todo : w.todo[k].op = "leave" =>
        \A x \in Above(w.todo, k) :
            x.name \in Installed(G) => x.name \in Below(G, w.todo[k].name)

LoadInvariant(G, ns, w) ==
    /\ w.error = "none" =>
          Opened(w) /\ Emitted(w) /\ Ordered(G, w) /\ Handled(G, w) /\ Reached(G, ns, w) /\ Leading(G, w)
    /\ w.error = "P3" => ~Acyclic(G)

-----------------------------------------------------------------------------
(***************************************************************************)
(* Each step of load_order keeps it.                                       *)
(***************************************************************************)

\* What is known of a walk, taken apart.
LEMMA WalkTypes ==
    ASSUME NEW w \in Walk(Step)
    PROVE  /\ w.color \in [Packages -> Colors] /\ w.results \in Seq(Packages)
           /\ w.names \in Seq(Packages) /\ w.todo \in Seq(Step) /\ w.error \in Errors
           /\ \A k \in DOMAIN w.todo : w.todo[k] \in Step /\ w.todo[k].name \in Packages
<1>1. /\ w.color \in [Packages -> Colors] /\ w.results \in Seq(Packages)
      /\ w.names \in Seq(Packages) /\ w.todo \in Seq(Step) /\ w.error \in Errors
  BY DEF Walk
<1>2. \A k \in DOMAIN w.todo : w.todo[k] \in Step
  BY <1>1
<1> QED
  BY <1>1, <1>2 DEF Step

LEMMA TakesKeeps ==
    ASSUME NEW G, IsGraph(G), NEW ns \in Seq(Packages), NEW w \in Walk(Step), ~Over(w),
           NEW v \in Walk(Step), Takes(G, w, v), LoadInvariant(G, ns, w)
    PROVE  LoadInvariant(G, ns, v)
<1> DEFINE p == Head(w.names)
<1>1. /\ w.error = "none" /\ v.error = "none" /\ w.todo = <<>>
      /\ Opened(w) /\ Emitted(w) /\ Ordered(G, w) /\ Reached(G, ns, w)
      /\ v.color = w.color /\ v.results = w.results
  BY DEF LoadInvariant, Over, Takes
<1>2. /\ w.names # <<>> /\ p \in Installed(G) /\ v.names = Tail(w.names) /\ w.names \in Seq(Packages)
      /\ v.todo = <<SortOf([name |-> p, required |-> TRUE])>>
  BY WalkTypes DEF Takes
<1>3. /\ DOMAIN v.todo = {1} /\ v.todo[1].op = "sort" /\ v.todo[1].name = p
  BY <1>2 DEF SortOf
<1>4. Opened(v)
  BY <1>1, <1>3 DEF Opened
<1>7. Handled(G, v) /\ Leading(G, v)
  BY <1>3 DEF Handled, Leading
<1>5. Emitted(v) /\ Ordered(G, v)
  BY <1>1 DEF Emitted, Ordered
<1>6. Reached(G, ns, v)
  <2>1. /\ Len(w.names) \in Nat \ {0} /\ w.names[1] = p /\ Len(v.names) = Len(w.names) - 1
        /\ \A i \in 1 .. Len(w.names) - 1 : v.names[i] = w.names[i + 1]
    BY <1>2
  <2>2. DOMAIN v.names = 1 .. Len(w.names) - 1 /\ DOMAIN w.names = 1 .. Len(w.names)
    BY <1>2, <2>1
  <2>3. \A i \in DOMAIN v.names : v.names[i] \in ToSet(ns)
    <3> TAKE i \in DOMAIN v.names
    <3>1. i + 1 \in DOMAIN w.names /\ v.names[i] = w.names[i + 1]
      BY <2>1, <2>2
    <3> QED
      BY <1>1, <3>1 DEF Reached
  <2>4. p \in ToSet(ns)
    BY <1>1, <2>1, <2>2 DEF Reached
  <2>5. p \in Dependencies(G, ToSet(ns))
    BY <1>2, <2>4, DependenciesFacts
  <2>6. ASSUME NEW q \in ToSet(ns), NEW i \in DOMAIN w.names, w.names[i] = q
        PROVE  q = p \/ \E j \in DOMAIN v.names : v.names[j] = q
    <3>1. CASE i = 1
      BY <2>1, <2>6, <3>1
    <3>2. CASE i # 1
      <4>1. i - 1 \in DOMAIN v.names /\ v.names[i - 1] = w.names[i - 1 + 1]
        BY <2>1, <2>2, <3>2
      <4> QED
        BY <2>6, <4>1, <2>2
    <3> QED
      BY <3>1, <3>2
  <2>7. \A q \in ToSet(ns) :
           \/ \E i \in DOMAIN v.names : v.names[i] = q
           \/ q \in Installed(G) /\ (w.color[q] # "white" \/ q = p)
    BY <1>1, <1>2, <2>6 DEF Reached
  <2> QED
    BY <1>1, <1>3, <2>3, <2>5, <2>7 DEF Reached
<1> QED
  BY <1>1, <1>4, <1>5, <1>6, <1>7 DEF LoadInvariant

\* A gray vertex is left: it is black, and in the results.
LEMMA LeavesKeeps ==
    ASSUME NEW G, IsGraph(G), NEW ns \in Seq(Packages), NEW w \in Walk(Step), ~Over(w),
           NEW v \in Walk(Step), Leaves(G, w, v), LoadInvariant(G, ns, w)
    PROVE  LoadInvariant(G, ns, v)
<1> DEFINE n == Len(w.todo)
           s == w.todo[n]
           p == s.name
           m == Len(w.results)
<1>1. /\ w.error = "none" /\ v.error = "none"
      /\ Opened(w) /\ Emitted(w) /\ Ordered(G, w) /\ Handled(G, w) /\ Reached(G, ns, w) /\ Leading(G, w)
  BY DEF LoadInvariant, Over, Leaves
<1>2. /\ w.todo # <<>> /\ s.op = "leave" /\ v.color = [w.color EXCEPT ![p] = "black"]
      /\ v.results = Append(w.results, p) /\ v.names = w.names /\ v.todo = Front(w.todo)
  BY DEF Leaves
<1>3. /\ w.color \in [Packages -> Colors] /\ w.todo \in Seq(Step) /\ w.results \in Seq(Packages)
      /\ \A k \in DOMAIN w.todo : w.todo[k].name \in Packages
  BY WalkTypes
<1>4. /\ n \in Nat \ {0} /\ DOMAIN v.todo = 1 .. n - 1
      /\ Stays(w.todo, <<>>, v.todo) /\ ToSet(<<>>) = {} /\ Above(w.todo, n) = {}
  BY <1>2, <1>3, StackPop
<1>5. n \in DOMAIN w.todo /\ p \in Packages /\ w.color[p] = "gray"
  BY <1>1, <1>2, <1>3, <1>4 DEF Opened
<1>6. \A k \in DOMAIN v.todo :
         /\ k \in DOMAIN w.todo /\ k # n /\ v.todo[k] = w.todo[k]
         /\ Above(w.todo, k) \subseteq Above(v.todo, k) \cup {s}
         /\ Above(v.todo, k) \subseteq Above(w.todo, k)
  BY <1>4 DEF Stays
<1>7. \A q \in Packages : v.color[q] = IF q = p THEN "black" ELSE w.color[q]
  BY <1>2, <1>3
<1> HIDE DEF s, n
<1>8. /\ m \in Nat /\ DOMAIN w.results = 1 .. m /\ DOMAIN v.results = 1 .. m + 1
      /\ v.results[m + 1] = p /\ \A i \in 1 .. m : v.results[i] = w.results[i] /\ w.results[i] \in Packages
  BY <1>2, <1>3, <1>5
<1> HIDE DEF m
<1>9. Opened(v)
  <2>1. \A k \in DOMAIN v.todo : v.todo[k].op = "leave" => v.todo[k].name # p
    BY <1>1, <1>2, <1>5, <1>6 DEF Opened, s
  <2>2. \A k \in DOMAIN v.todo : v.todo[k].op = "leave" => v.color[v.todo[k].name] = "gray"
    BY <1>1, <1>3, <1>6, <1>7, <2>1 DEF Opened
  <2>3. ASSUME NEW q \in Packages, v.color[q] = "gray"
        PROVE  \E k \in DOMAIN v.todo : IsLeave(v.todo[k], q)
    <3>1. q # p /\ w.color[q] = "gray"
      BY <1>7, <2>3
    <3>2. PICK k \in DOMAIN w.todo : IsLeave(w.todo[k], q)
      BY <1>1, <3>1 DEF Opened
    <3>3. k # n
      BY <3>1, <3>2 DEF IsLeave, s
    <3>4. k \in DOMAIN v.todo
      BY <1>3, <1>4, <3>3 DEF n
    <3> QED
      BY <1>6, <3>2, <3>4
  <2>4. \A j, k \in DOMAIN v.todo :
          v.todo[j].op = "leave" /\ v.todo[k].op = "leave" /\ v.todo[j].name = v.todo[k].name => j = k
    BY <1>1, <1>6 DEF Opened
  <2> QED
    BY <2>2, <2>3, <2>4 DEF Opened
<1>10. \A i \in 1 .. m : v.color[v.results[i]] = "black" /\ v.results[i] # p
  BY <1>1, <1>5, <1>7, <1>8, SMTT(30) DEF Emitted
<1>11. Emitted(v)
  <2>1. \A i \in DOMAIN v.results : v.color[v.results[i]] = "black"
    BY <1>5, <1>7, <1>8, <1>10
  <2>2. ASSUME NEW q \in Packages, v.color[q] = "black"
        PROVE  \E i \in DOMAIN v.results : v.results[i] = q
    BY <1>1, <1>7, <1>8, <2>2 DEF Emitted
  <2>3. \A i, j \in DOMAIN v.results : v.results[i] = v.results[j] => i = j
    BY <1>1, <1>8, <1>10 DEF Emitted
  <2> QED
    BY <2>1, <2>2, <2>3 DEF Emitted
<1>12. Ordered(G, v)
  <2> SUFFICES ASSUME NEW i \in DOMAIN v.results, NEW d \in DOMAIN G[v.results[i]]
               PROVE  /\ G[v.results[i]][d].required =>
                            \E j \in 1 .. i - 1 : v.results[j] = G[v.results[i]][d].name
                      /\ G[v.results[i]][d].name \in Installed(G) => v.color[G[v.results[i]][d].name] # "white"
    BY DEF Ordered
  <2> DEFINE e == G[v.results[i]][d]
  <2>0. Installed(G) \subseteq Packages
    BY DEF IsGraph
  <2>1. CASE i # m + 1
    <3>1. i \in 1 .. m /\ v.results[i] = w.results[i]
      BY <1>8, <2>1
    <3>2. \A j \in 1 .. i - 1 : j \in 1 .. m /\ v.results[j] = w.results[j]
      BY <1>8, <3>1
    <3>3. /\ e.required => \E j \in 1 .. i - 1 : w.results[j] = e.name
          /\ e.name \in Installed(G) => w.color[e.name] # "white"
      BY <1>1, <1>8, <3>1 DEF Ordered
    <3> HIDE DEF e
    <3>4. /\ e.required => \E j \in 1 .. i - 1 : v.results[j] = e.name
          /\ e.name \in Installed(G) => v.color[e.name] # "white"
      BY <1>7, <2>0, <3>2, <3>3
    <3> QED
      BY <3>4 DEF e
  <2>2. CASE i = m + 1
    <3>1. v.results[i] = p /\ i - 1 = m
      BY <1>8, <2>2
    <3>2. /\ e.name \in Installed(G) => w.color[e.name] # "white"
          /\ e.required => e.name \in Installed(G) /\ w.color[e.name] = "black"
      BY <1>1, <1>2, <1>4, <1>5, <3>1 DEF Handled, s
    <3> HIDE DEF e
    <3>3. e.required => \E j \in 1 .. m : w.results[j] = e.name
      BY <1>1, <1>8, <2>0, <3>2 DEF Emitted
    <3>4. /\ e.required => \E j \in 1 .. i - 1 : v.results[j] = e.name
          /\ e.name \in Installed(G) => v.color[e.name] # "white"
      BY <1>7, <1>8, <2>0, <3>1, <3>2, <3>3
    <3> QED
      BY <3>4 DEF e
  <2> QED
    BY <2>1, <2>2
<1>13. Handled(G, v)
  <2> SUFFICES ASSUME NEW k \in DOMAIN v.todo, v.todo[k].op = "leave", NEW d \in DOMAIN G[v.todo[k].name]
               PROVE  LET e == G[v.todo[k].name][d] IN
                      \/ SortOf(e) \in Above(v.todo, k)
                      \/ /\ e.name \in Installed(G) => v.color[e.name] # "white"
                         /\ e.required =>
                               /\ e.name \in Installed(G)
                               /\ \/ v.color[e.name] = "black"
                                  \/ \E x \in Above(v.todo, k) : IsLeave(x, e.name)
    BY DEF Handled
  <2> DEFINE e == G[v.todo[k].name][d]
  <2>0. Installed(G) \subseteq Packages
    BY DEF IsGraph
  <2>1. \/ SortOf(e) \in Above(w.todo, k)
        \/ /\ e.name \in Installed(G) => w.color[e.name] # "white"
           /\ e.required =>
                 /\ e.name \in Installed(G)
                 /\ \/ w.color[e.name] = "black"
                    \/ \E x \in Above(w.todo, k) : IsLeave(x, e.name)
    BY <1>1, <1>6 DEF Handled
  <2>2. SortOf(e) # s
    BY <1>2 DEF SortOf, s
  <2> HIDE DEF e
  <2>3. \A x \in Above(w.todo, k) : IsLeave(x, e.name) => x \in Above(v.todo, k) \/ e.name = p
    BY <1>6 DEF IsLeave, s
  <2>4. \/ SortOf(e) \in Above(v.todo, k)
        \/ /\ e.name \in Installed(G) => v.color[e.name] # "white"
           /\ e.required =>
                 /\ e.name \in Installed(G)
                 /\ \/ v.color[e.name] = "black"
                    \/ \E x \in Above(v.todo, k) : IsLeave(x, e.name)
    BY <1>6, <1>7, <2>0, <2>1, <2>2, <2>3
  <2> QED
    BY <2>4 DEF e
<1>14. Reached(G, ns, v)
  <2>1. \A q \in Packages : v.color[q] # "white" <=> w.color[q] # "white"
    BY <1>5, <1>7
  <2>2. ASSUME NEW q \in Packages, NEW k \in DOMAIN w.todo, w.todo[k].op = "sort"
        PROVE  k \in DOMAIN v.todo /\ v.todo[k] = w.todo[k]
    <3>1. k # n
      BY <1>2, <2>2 DEF s
    <3>2. k \in DOMAIN v.todo
      BY <1>3, <1>4, <3>1 DEF n
    <3> QED
      BY <1>6, <3>2
  <2>3. ToSet(ns) \subseteq Packages
    BY DEF ToSet
  <2> QED
    BY <1>1, <1>2, <1>6, <2>1, <2>2, <2>3 DEF Reached
<1>15. Leading(G, v)
  BY <1>1, <1>6 DEF Leading
<1> QED
  BY <1>1, <1>9, <1>11, <1>12, <1>13, <1>14, <1>15 DEF LoadInvariant

\* A white vertex is entered: it is gray, and what it depends on is to be looked for.
LEMMA EntersKeeps ==
    ASSUME NEW G, IsGraph(G), NEW ns \in Seq(Packages), NEW w \in Walk(Step), ~Over(w),
           NEW v \in Walk(Step), Enters(G, w, v), LoadInvariant(G, ns, w)
    PROVE  LoadInvariant(G, ns, v)
<1> DEFINE n == Len(w.todo)
           s == w.todo[n]
           p == s.name
           t == Entered(p, G[p])
<1>1. /\ w.error = "none" /\ v.error = "none"
      /\ Opened(w) /\ Emitted(w) /\ Ordered(G, w) /\ Handled(G, w) /\ Reached(G, ns, w) /\ Leading(G, w)
  BY DEF LoadInvariant, Over, Enters
<1>2. /\ w.todo # <<>> /\ s.op = "sort" /\ p \in Installed(G) /\ w.color[p] = "white"
      /\ v.color = [w.color EXCEPT ![p] = "gray"]
      /\ v.results = w.results /\ v.names = w.names /\ v.todo = Front(w.todo) \o t
  BY DEF Enters
<1>3. /\ w.color \in [Packages -> Colors] /\ w.todo \in Seq(Step) /\ v.todo \in Seq(Step)
      /\ w.results \in Seq(Packages) /\ w.names \in Seq(Packages)
      /\ \A k \in DOMAIN w.todo : w.todo[k].name \in Packages
  BY WalkTypes
<1>4. p \in Packages /\ G[p] \in Seq(Dependency) /\ Installed(G) \subseteq Packages
  BY <1>2 DEF IsGraph
<1>5. /\ t \in Seq(Step) /\ Len(t) = Len(G[p]) + 1 /\ t[1] = Leaving(p)
      /\ \A i \in 2 .. Len(t) : \E d \in DOMAIN G[p] : t[i] = SortOf(G[p][d])
      /\ \A d \in DOMAIN G[p] : \E i \in 2 .. Len(t) : t[i] = SortOf(G[p][d])
  BY <1>4, EnteredFacts
<1>6. Len(t) \in Nat \ {0} /\ DOMAIN t = 1 .. Len(t) /\ t # <<>>
  BY <1>4, <1>5
<1> HIDE DEF t
<1>7. \A r \in Seq(Step) : r = Front(w.todo) \o t =>
         /\ n \in Nat \ {0} /\ Len(r) = n - 1 + Len(t)
         /\ Stays(w.todo, t, r) /\ Comes(w.todo, t, r) /\ Above(w.todo, n) = {}
  BY <1>2, <1>3, <1>5, StackStep, ZenonT(30)
<1>8. /\ n \in Nat \ {0} /\ Len(v.todo) = n - 1 + Len(t)
      /\ Stays(w.todo, t, v.todo) /\ Comes(w.todo, t, v.todo)
      /\ DOMAIN v.todo = 1 .. n - 1 + Len(t) /\ DOMAIN w.todo = 1 .. n
  <2>1. n \in Nat \ {0} /\ Len(v.todo) = n - 1 + Len(t)
    BY <1>2, <1>3, <1>7, ZenonT(30)
  <2>4. DOMAIN w.todo = 1 .. n
    BY <1>3
  <2>2. Stays(w.todo, t, v.todo) /\ Comes(w.todo, t, v.todo)
    BY <1>2, <1>3, <1>7, ZenonT(30)
  <2>3. DOMAIN v.todo = 1 .. Len(v.todo)
    BY <1>3
  <2> QED
    BY <2>1, <2>2, <2>3, <2>4
<1> HIDE DEF s, n
\* What is left to do: as before below n, then to leave p, then what p depends on.
<1>9. \A k \in 1 .. n - 1 :
         /\ k \in DOMAIN w.todo /\ k \in DOMAIN v.todo /\ v.todo[k] = w.todo[k]
         /\ s \in Above(w.todo, k) /\ Above(w.todo, k) \subseteq Above(v.todo, k) \cup {s}
         /\ Above(v.todo, k) \subseteq Above(w.todo, k) \cup ToSet(t)
         /\ ToSet(t) \subseteq Above(v.todo, k)
  BY <1>6, <1>8 DEF Stays, n, s
<1>10. n \in DOMAIN v.todo /\ v.todo[n] = Leaving(p) /\ n \in DOMAIN w.todo /\ w.todo[n] = s
  <2>1. n \in n .. Len(v.todo) /\ n - n + 1 = 1 /\ n \in DOMAIN v.todo /\ n \in DOMAIN w.todo
    BY <1>6, <1>8
  <2>2. v.todo[n] = t[n - n + 1]
    BY <1>8, <2>1 DEF Comes, n
  <2> QED
    BY <1>5, <2>1, <2>2 DEF s
<1>11. \A k \in DOMAIN v.todo : k \notin 1 .. n - 1 /\ k # n =>
          \E d \in DOMAIN G[p] : v.todo[k] = SortOf(G[p][d])
  <2> TAKE k \in DOMAIN v.todo
  <2> HAVE k \notin 1 .. n - 1 /\ k # n
  <2>1. k \in n .. Len(v.todo) /\ k - n + 1 \in 2 .. Len(t)
    BY <1>6, <1>8
  <2>2. v.todo[k] = t[k - n + 1]
    BY <1>8, <2>1 DEF Comes, n
  <2> QED
    BY <1>5, <2>1, <2>2
<1>12. /\ \A d \in DOMAIN G[p] : SortOf(G[p][d]) \in Above(v.todo, n)
       /\ \A x \in Above(v.todo, n) : \E d \in DOMAIN G[p] : x = SortOf(G[p][d])
  <2>1. n \in n .. Len(v.todo) /\ n - n + 2 = 2
    BY <1>6, <1>8
  <2>2. Above(v.todo, n) = {t[i] : i \in n - n + 2 .. Len(t)}
    BY <1>8, <2>1 DEF Comes, n
  <2> QED
    BY <1>5, <2>1, <2>2
<1>13. /\ Leaving(p) \in ToSet(t)
       /\ \A x \in ToSet(t) : x = Leaving(p) \/ \E d \in DOMAIN G[p] : x = SortOf(G[p][d])
  <2>1. \A i \in DOMAIN t : i = 1 \/ i \in 2 .. Len(t)
    BY <1>6
  <2> QED
    BY <1>5, <1>6, <2>1, SMTT(30) DEF ToSet
<1>14. /\ Leaving(p).op = "leave" /\ Leaving(p).name = p
       /\ \A d \in DOMAIN G[p] : SortOf(G[p][d]).op = "sort" /\ SortOf(G[p][d]).name = G[p][d].name
  BY DEF Leaving, SortOf
<1>15. \A q \in Packages : v.color[q] = IF q = p THEN "gray" ELSE w.color[q]
  BY <1>2, <1>3
<1>16. s.op = "sort" /\ p \in Installed(G) /\ w.color[p] = "white" /\ p = s.name
  BY <1>2
<1> HIDE DEF p
<1>20. Opened(v)
  <2>1. \A k \in DOMAIN v.todo : v.todo[k].op = "leave" =>
           \/ k = n /\ v.todo[k].name = p
           \/ /\ k \in 1 .. n - 1 /\ k \in DOMAIN w.todo /\ w.todo[k] = v.todo[k]
              /\ w.color[v.todo[k].name] = "gray" /\ v.todo[k].name # p /\ v.todo[k].name \in Packages
    <3> TAKE k \in DOMAIN v.todo
    <3> HAVE v.todo[k].op = "leave"
    <3>1. CASE k \in 1 .. n - 1
      <4>1. k \in DOMAIN w.todo /\ w.todo[k] = v.todo[k]
        BY <1>9, <3>1
      <4>2. w.color[w.todo[k].name] = "gray" /\ w.todo[k].name \in Packages
        BY <1>1, <1>3, <4>1 DEF Opened
      <4> QED
        BY <1>16, <3>1, <4>1, <4>2
    <3>2. CASE k = n
      BY <1>10, <1>14, <3>2
    <3>3. CASE k \notin 1 .. n - 1 /\ k # n
      BY <1>11, <1>14, <3>3
    <3> QED
      BY <3>1, <3>2, <3>3
  <2>2. \A k \in DOMAIN v.todo : v.todo[k].op = "leave" => v.color[v.todo[k].name] = "gray"
    BY <1>4, <1>15, <2>1
  <2>3. ASSUME NEW q \in Packages, v.color[q] = "gray"
        PROVE  \E k \in DOMAIN v.todo : IsLeave(v.todo[k], q)
    <3>1. CASE q = p
      BY <1>10, <1>14, <3>1 DEF IsLeave
    <3>2. CASE q # p
      <4>1. PICK k \in DOMAIN w.todo : IsLeave(w.todo[k], q)
        BY <1>1, <1>15, <2>3, <3>2 DEF Opened
      <4>2. k # n
        BY <1>10, <1>16, <4>1 DEF IsLeave
      <4>3. k \in 1 .. n - 1
        BY <1>8, <4>2
      <4> QED
        BY <1>9, <4>1, <4>3
    <3> QED
      BY <3>1, <3>2
  <2>4. \A j, k \in DOMAIN v.todo :
          v.todo[j].op = "leave" /\ v.todo[k].op = "leave" /\ v.todo[j].name = v.todo[k].name => j = k
    BY <1>1, <2>1 DEF Opened
  <2> QED
    BY <2>2, <2>3, <2>4 DEF Opened
<1>21. Emitted(v)
  <2>1. \A i \in DOMAIN w.results : w.results[i] \in Packages
    BY <1>3
  <2>2. \A q \in Packages : v.color[q] = "black" <=> w.color[q] = "black"
    BY <1>15, <1>16
  <2> QED
    BY <1>1, <1>2, <2>1, <2>2 DEF Emitted
<1>22. \A q \in Packages : w.color[q] # "white" => v.color[q] # "white"
  BY <1>15
<1>23. Ordered(G, v)
  <2>1. v.results = w.results /\ \A q \in Installed(G) : w.color[q] # "white" => v.color[q] # "white"
    BY <1>2, <1>4, <1>22
  <2>2. \A i \in DOMAIN w.results : \A d \in DOMAIN G[w.results[i]] :
           /\ G[w.results[i]][d].required => \E j \in 1 .. i - 1 : w.results[j] = G[w.results[i]][d].name
           /\ G[w.results[i]][d].name \in Installed(G) => w.color[G[w.results[i]][d].name] # "white"
    BY <1>1 DEF Ordered
  <2> SUFFICES ASSUME NEW i \in DOMAIN v.results, NEW d \in DOMAIN G[v.results[i]]
               PROVE  /\ G[v.results[i]][d].required =>
                            \E j \in 1 .. i - 1 : v.results[j] = G[v.results[i]][d].name
                      /\ G[v.results[i]][d].name \in Installed(G) =>
                            v.color[G[v.results[i]][d].name] # "white"
    BY DEF Ordered
  <2> DEFINE r == w.results
             e == G[r[i]][d]
  <2>3. /\ e.required => \E j \in 1 .. i - 1 : r[j] = e.name
        /\ e.name \in Installed(G) => w.color[e.name] # "white"
    BY <2>1, <2>2
  <2>4. v.results = r
    BY <2>1
  <2> HIDE DEF r
  <2> QED
    BY <2>1, <2>3, <2>4
<1>24. Handled(G, v)
  <2> SUFFICES ASSUME NEW k \in DOMAIN v.todo, v.todo[k].op = "leave", NEW d \in DOMAIN G[v.todo[k].name]
               PROVE  LET e == G[v.todo[k].name][d] IN
                      \/ SortOf(e) \in Above(v.todo, k)
                      \/ /\ e.name \in Installed(G) => v.color[e.name] # "white"
                         /\ e.required =>
                               /\ e.name \in Installed(G)
                               /\ \/ v.color[e.name] = "black"
                                  \/ \E x \in Above(v.todo, k) : IsLeave(x, e.name)
    BY DEF Handled
  <2>1. CASE k \in 1 .. n - 1
    <3> DEFINE e == G[v.todo[k].name][d]
    <3>1. \/ SortOf(e) \in Above(w.todo, k)
          \/ /\ e.name \in Installed(G) => w.color[e.name] # "white"
             /\ e.required =>
                   /\ e.name \in Installed(G)
                   /\ \/ w.color[e.name] = "black"
                      \/ \E x \in Above(w.todo, k) : IsLeave(x, e.name)
      <4>1. k \in DOMAIN w.todo /\ v.todo[k] = w.todo[k]
        BY <1>9, <2>1
      <4>2. \A j \in DOMAIN w.todo : w.todo[j].op = "leave" =>
               \A i \in DOMAIN G[w.todo[j].name] :
                   \/ SortOf(G[w.todo[j].name][i]) \in Above(w.todo, j)
                   \/ /\ G[w.todo[j].name][i].name \in Installed(G)
                            => w.color[G[w.todo[j].name][i].name] # "white"
                      /\ G[w.todo[j].name][i].required =>
                            /\ G[w.todo[j].name][i].name \in Installed(G)
                            /\ \/ w.color[G[w.todo[j].name][i].name] = "black"
                               \/ \E x \in Above(w.todo, j) : IsLeave(x, G[w.todo[j].name][i].name)
        BY <1>1, Zenon DEF Handled
      <4> QED
        BY <4>1, <4>2, Zenon
    <3> HIDE DEF e
    <3>2. SortOf(e).name = e.name
      BY DEF SortOf
    <3>3. CASE SortOf(e) = s
      <4>1. e.name = p /\ v.color[p] = "gray"
        BY <1>4, <1>15, <1>16, <3>2, <3>3
      <4>2. Leaving(p) \in Above(v.todo, k) /\ IsLeave(Leaving(p), p)
        BY <1>9, <1>13, <1>14, <2>1 DEF IsLeave
      <4> QED
        BY <1>16, <4>1, <4>2 DEF e
    <3>4. CASE SortOf(e) # s
      <4>1. \A x \in Above(w.todo, k) : x \in Above(v.todo, k) \/ x = s
        BY <1>9, <2>1
      <4>2. \A x \in Above(w.todo, k) : IsLeave(x, e.name) => x \in Above(v.todo, k)
        BY <1>16, <4>1 DEF IsLeave
      <4>3. e.name \in Installed(G) =>
               /\ w.color[e.name] # "white" => v.color[e.name] # "white"
               /\ w.color[e.name] = "black" => v.color[e.name] = "black"
        BY <1>4, <1>15, <1>16
      <4>4. \/ SortOf(e) \in Above(v.todo, k)
            \/ /\ e.name \in Installed(G) => v.color[e.name] # "white"
               /\ e.required =>
                     /\ e.name \in Installed(G)
                     /\ \/ v.color[e.name] = "black"
                        \/ \E x \in Above(v.todo, k) : IsLeave(x, e.name)
        BY <3>1, <3>4, <4>1, <4>2, <4>3
      <4> QED
        BY <4>4 DEF e
    <3> QED
      BY <3>3, <3>4
  <2>2. CASE k = n
    BY <1>10, <1>12, <1>14, <2>2
  <2>3. CASE k \notin 1 .. n - 1 /\ k # n
    BY <1>11, <1>14, <2>3
  <2> QED
    BY <2>1, <2>2, <2>3
<1>25. \A d \in DOMAIN G[p] : DependsOn(G, p, G[p][d].name)
  BY DEF DependsOn
<1>26. Reached(G, ns, v)
  <2> DEFINE D == Dependencies(G, ToSet(ns))
  <2>1. DependenciesWithin(G, D)
    BY DependenciesFacts
  <2>2. p \in D
    BY <1>1, <1>10, <1>16 DEF Reached
  <2>3. \A d \in DOMAIN G[p] : G[p][d].name \in Installed(G) => G[p][d].name \in D
    BY <1>25, <2>1, <2>2 DEF DependenciesWithin
  <2> HIDE DEF D
  <2>4. \A q \in Packages : v.color[q] # "white" => q \in D
    BY <1>1, <1>15, <2>2 DEF Reached, D
  <2>5. \A k \in DOMAIN v.todo : v.todo[k].name \in Installed(G) => v.todo[k].name \in D
    <3> TAKE k \in DOMAIN v.todo
    <3>1. CASE k \in 1 .. n - 1
      BY <1>1, <1>9, <3>1 DEF Reached, D
    <3>2. CASE k = n
      BY <1>10, <1>14, <2>2, <3>2
    <3>3. CASE k \notin 1 .. n - 1 /\ k # n
      BY <1>11, <1>14, <2>3, <3>3
    <3> QED
      BY <3>1, <3>2, <3>3
  <2>6. \A k \in DOMAIN w.todo : w.todo[k].op = "sort" =>
           w.todo[k].name = p \/ (k \in DOMAIN v.todo /\ v.todo[k] = w.todo[k])
    <3> TAKE k \in DOMAIN w.todo
    <3>1. k \in 1 .. n - 1 \/ k = n
      BY <1>8
    <3> QED
      BY <1>9, <1>10, <1>16, <3>1
  <2>7. ToSet(ns) \subseteq Packages
    BY DEF ToSet
  <2>8. v.color[p] # "white"
    BY <1>4, <1>15
  <2>9. ASSUME NEW q \in ToSet(ns)
        PROVE  \/ \E i \in DOMAIN v.names : v.names[i] = q
               \/ /\ q \in Installed(G)
                  /\ \/ v.color[q] # "white"
                     \/ \E k \in DOMAIN v.todo : v.todo[k].op = "sort" /\ v.todo[k].name = q
    <3>1. \/ \E i \in DOMAIN w.names : w.names[i] = q
          \/ /\ q \in Installed(G)
             /\ \/ w.color[q] # "white"
                \/ \E k \in DOMAIN w.todo : w.todo[k].op = "sort" /\ w.todo[k].name = q
      BY <1>1 DEF Reached
    <3>2. ASSUME NEW k \in DOMAIN w.todo, w.todo[k].op = "sort", w.todo[k].name = q
          PROVE  \/ v.color[q] # "white"
                 \/ \E j \in DOMAIN v.todo : v.todo[j].op = "sort" /\ v.todo[j].name = q
      BY <2>6, <2>8, <3>2
    <3>3. w.color[q] # "white" => v.color[q] # "white"
      BY <1>22, <2>7
    <3> QED
      BY <1>2, <3>1, <3>2, <3>3
  <2>10. \A i \in DOMAIN v.names : v.names[i] \in ToSet(ns)
    BY <1>1, <1>2 DEF Reached
  <2> QED
    BY <2>4, <2>5, <2>9, <2>10 DEF Reached, D
<1>27. Leading(G, v)
  <2> SUFFICES ASSUME NEW k \in DOMAIN v.todo, v.todo[k].op = "leave",
                      NEW x \in Above(v.todo, k), x.name \in Installed(G)
               PROVE  x.name \in Below(G, v.todo[k].name)
    BY DEF Leading
  <2>1. CASE k \in 1 .. n - 1
    <3> DEFINE q == v.todo[k].name
               B == Below(G, q)
    <3>1. k \in DOMAIN w.todo /\ w.todo[k].op = "leave" /\ w.todo[k].name = q /\ s \in Above(w.todo, k)
      BY <1>9, <2>1
    <3>2. \A y \in Above(w.todo, k) : y.name \in Installed(G) => y.name \in B
      BY <1>1, <3>1 DEF Leading
    <3>3. p \in B
      BY <1>16, <3>1, <3>2
    <3>4. DependenciesWithin(G, B)
      BY DependenciesFacts DEF Below
    <3>5. \A d \in DOMAIN G[p] : G[p][d].name \in Installed(G) => G[p][d].name \in B
      BY <1>25, <3>3, <3>4 DEF DependenciesWithin
    <3>6. x \in Above(w.todo, k) \/ x \in ToSet(t)
      BY <1>9, <2>1
    <3> HIDE DEF B
    <3>7. x.name \in B
      BY <1>13, <1>14, <3>2, <3>3, <3>5, <3>6
    <3> QED
      BY <3>7 DEF B
  <2>2. CASE k = n
    <3>1. v.todo[k].name = p
      BY <1>10, <1>14, <2>2
    <3>2. PICK d \in DOMAIN G[p] : x = SortOf(G[p][d])
      BY <1>12, <2>2
    <3>3. x.name \in {e.name : e \in ToSet(G[p])}
      BY <1>14, <3>2 DEF ToSet
    <3> QED
      BY <3>1, <3>3, DependenciesFacts DEF Below
  <2>3. CASE k \notin 1 .. n - 1 /\ k # n
    BY <1>11, <1>14, <2>3
  <2> QED
    BY <2>1, <2>2, <2>3
<1> QED
  BY <1>1, <1>20, <1>21, <1>23, <1>24, <1>26, <1>27 DEF LoadInvariant

\* A step that finds its vertex, or that it may do without, is done.
LEMMA DropsKeeps ==
    ASSUME NEW G, IsGraph(G), NEW ns \in Seq(Packages), NEW w \in Walk(Step), ~Over(w),
           NEW v \in Walk(Step), Drops(G, w, v), LoadInvariant(G, ns, w)
    PROVE  LoadInvariant(G, ns, v)
<1> DEFINE n == Len(w.todo)
           s == w.todo[n]
<1>1. /\ w.error = "none" /\ v.error = "none"
      /\ Opened(w) /\ Emitted(w) /\ Ordered(G, w) /\ Handled(G, w) /\ Reached(G, ns, w) /\ Leading(G, w)
  BY DEF LoadInvariant, Over, Drops, Rest
<1>2. /\ w.todo # <<>> /\ s.op = "sort" /\ v.color = w.color
      /\ s.required => s.name \in Installed(G) /\ w.color[s.name] = "black"
      /\ s.name \in Installed(G) => w.color[s.name] # "white"
      /\ v.results = w.results /\ v.names = w.names /\ v.todo = Front(w.todo)
  BY DEF Drops, Rest
<1>3. /\ w.color \in [Packages -> Colors] /\ w.todo \in Seq(Step) /\ w.results \in Seq(Packages)
      /\ \A k \in DOMAIN w.todo : w.todo[k].name \in Packages
  BY WalkTypes
<1>4. /\ n \in Nat \ {0} /\ DOMAIN v.todo = 1 .. n - 1
      /\ Stays(w.todo, <<>>, v.todo) /\ ToSet(<<>>) = {} /\ Above(w.todo, n) = {}
  BY <1>2, <1>3, StackPop
<1>6. \A k \in DOMAIN v.todo :
         /\ k \in DOMAIN w.todo /\ k # n /\ v.todo[k] = w.todo[k]
         /\ Above(w.todo, k) \subseteq Above(v.todo, k) \cup {s}
         /\ Above(v.todo, k) \subseteq Above(w.todo, k)
  BY <1>4 DEF Stays
<1>7. \A k \in DOMAIN w.todo : k = n \/ k \in DOMAIN v.todo
  BY <1>3, <1>4
<1>8. w.todo[n] = s
  OBVIOUS
<1> HIDE DEF s, n
<1>9. Opened(v)
  <2>1. \A k \in DOMAIN v.todo : v.todo[k].op = "leave" => v.color[v.todo[k].name] = "gray"
    BY <1>1, <1>2, <1>6 DEF Opened
  <2>2. ASSUME NEW q \in Packages, v.color[q] = "gray"
        PROVE  \E k \in DOMAIN v.todo : IsLeave(v.todo[k], q)
    <3>1. PICK k \in DOMAIN w.todo : IsLeave(w.todo[k], q)
      BY <1>1, <1>2, <2>2 DEF Opened
    <3>2. k # n
      BY <1>2, <1>8, <3>1 DEF IsLeave
    <3> QED
      BY <1>6, <1>7, <3>1, <3>2
  <2>3. \A j, k \in DOMAIN v.todo :
          v.todo[j].op = "leave" /\ v.todo[k].op = "leave" /\ v.todo[j].name = v.todo[k].name => j = k
    BY <1>1, <1>6 DEF Opened
  <2> QED
    BY <2>1, <2>2, <2>3 DEF Opened
<1>10. Emitted(v) /\ Ordered(G, v)
  BY <1>1, <1>2 DEF Emitted, Ordered
<1>11. Handled(G, v)
  <2> SUFFICES ASSUME NEW k \in DOMAIN v.todo, v.todo[k].op = "leave", NEW d \in DOMAIN G[v.todo[k].name]
               PROVE  LET e == G[v.todo[k].name][d] IN
                      \/ SortOf(e) \in Above(v.todo, k)
                      \/ /\ e.name \in Installed(G) => v.color[e.name] # "white"
                         /\ e.required =>
                               /\ e.name \in Installed(G)
                               /\ \/ v.color[e.name] = "black"
                                  \/ \E x \in Above(v.todo, k) : IsLeave(x, e.name)
    BY DEF Handled
  <2> DEFINE e == G[v.todo[k].name][d]
  <2>1. \/ SortOf(e) \in Above(w.todo, k)
        \/ /\ e.name \in Installed(G) => w.color[e.name] # "white"
           /\ e.required =>
                 /\ e.name \in Installed(G)
                 /\ \/ w.color[e.name] = "black"
                    \/ \E x \in Above(w.todo, k) : IsLeave(x, e.name)
    BY <1>1, <1>6 DEF Handled
  <2> HIDE DEF e
  <2>2. SortOf(e).name = e.name /\ SortOf(e).required = e.required
    BY DEF SortOf
  <2>3. \A x \in Above(w.todo, k) : x \in Above(v.todo, k) \/ x = s
    BY <1>6
  <2>4. \A x \in Above(w.todo, k) : IsLeave(x, e.name) => x \in Above(v.todo, k)
    BY <1>2, <2>3 DEF IsLeave
  <2>5. \/ SortOf(e) \in Above(v.todo, k)
        \/ /\ e.name \in Installed(G) => v.color[e.name] # "white"
           /\ e.required =>
                 /\ e.name \in Installed(G)
                 /\ \/ v.color[e.name] = "black"
                    \/ \E x \in Above(v.todo, k) : IsLeave(x, e.name)
    <3>1. CASE SortOf(e) = s
      BY <1>2, <2>2, <3>1
    <3>2. CASE SortOf(e) # s
      BY <1>2, <2>1, <2>3, <2>4, <3>2
    <3> QED
      BY <3>1, <3>2
  <2> QED
    BY <2>5 DEF e
<1>12. Reached(G, ns, v)
  <2>1. \A k \in DOMAIN w.todo :
           \/ k \in DOMAIN v.todo /\ v.todo[k] = w.todo[k]
           \/ w.todo[k].name \in Installed(G) => w.color[w.todo[k].name] # "white"
    BY <1>2, <1>6, <1>7, <1>8
  <2>2. \A q \in ToSet(ns) :
           \/ \E i \in DOMAIN v.names : v.names[i] = q
           \/ /\ q \in Installed(G)
              /\ \/ v.color[q] # "white"
                 \/ \E k \in DOMAIN v.todo : v.todo[k].op = "sort" /\ v.todo[k].name = q
    BY <1>1, <1>2, <2>1 DEF Reached
  <2>3. \A k \in DOMAIN v.todo :
          v.todo[k].name \in Installed(G) => v.todo[k].name \in Dependencies(G, ToSet(ns))
    BY <1>1, <1>6 DEF Reached
  <2> QED
    BY <1>1, <1>2, <2>2, <2>3 DEF Reached
<1>13. Leading(G, v)
  BY <1>1, <1>6 DEF Leading
<1> QED
  BY <1>1, <1>9, <1>10, <1>11, <1>12, <1>13 DEF LoadInvariant

\* A vertex that is met while it is gray, and required, is on a cycle.
LEMMA FailsKeeps ==
    ASSUME NEW G, IsGraph(G), NEW ns \in Seq(Packages), NEW w \in Walk(Step), ~Over(w),
           NEW v \in Walk(Step), Fails(G, w, v), LoadInvariant(G, ns, w)
    PROVE  LoadInvariant(G, ns, v)
<1> DEFINE n == Len(w.todo)
           s == w.todo[n]
           p == s.name
<1>1. w.error = "none" /\ Opened(w) /\ Leading(G, w)
  BY DEF LoadInvariant, Over
<1>2. v.error # "none"
  BY DEF Fails
<1>3. ASSUME v.error = "P3"
      PROVE  ~Acyclic(G)
  <2>1. w.todo # <<>> /\ s.op = "sort" /\ p \in Installed(G) /\ w.color[p] = "gray"
    BY <1>3 DEF Fails
  <2>2. p \in Packages /\ w.todo \in Seq(Step)
    BY <2>1, WalkTypes DEF IsGraph
  <2>3. PICK k \in DOMAIN w.todo : IsLeave(w.todo[k], p)
    BY <1>1, <2>1, <2>2 DEF Opened
  <2>4. k # n
    BY <2>1, <2>3 DEF IsLeave
  <2>5. n \in k + 1 .. n
    BY <2>2, <2>4
  <2>6. s \in Above(w.todo, k)
    BY <2>5 DEF Above
  <2>7. p \in Below(G, p)
    BY <1>1, <2>1, <2>3, <2>6 DEF Leading, IsLeave
  <2> QED
    BY <2>1, <2>7 DEF Acyclic
<1> QED
  BY <1>2, <1>3 DEF LoadInvariant

-----------------------------------------------------------------------------
(***************************************************************************)
(* load_order comes to its end, and what it answers is right.              *)
(***************************************************************************)

Whites(w) == {p \in Packages : w.color[p] = "white"}

LEMMA WhitesFinite ==
    ASSUME NEW w
    PROVE  IsFiniteSet(Whites(w)) /\ Cardinality(Whites(w)) \in Nat
<1>1. IsFiniteSet(Packages)
  BY PackageCountAssumption, FS_Interval DEF Packages
<1>2. Whites(w) \in SUBSET Packages
  BY DEF Whites
<1> QED
  BY <1>1, <1>2, FS_Subset, FS_CardinalityType

\* A walk paints, and paints no vertex white.
LEMMA WhitesShrink ==
    ASSUME NEW w, NEW v, Whites(v) \subseteq Whites(w)
    PROVE  /\ Cardinality(Whites(v)) <= Cardinality(Whites(w))
           /\ Whites(v) # Whites(w) => Cardinality(Whites(v)) < Cardinality(Whites(w))
<1>1. /\ IsFiniteSet(Whites(w)) /\ Cardinality(Whites(w)) \in Nat
      /\ Cardinality(Whites(v)) \in Nat /\ Whites(v) \in SUBSET Whites(w)
  BY WhitesFinite
<1>2. /\ Cardinality(Whites(v)) <= Cardinality(Whites(w))
      /\ Cardinality(Whites(w)) = Cardinality(Whites(v)) => Whites(w) = Whites(v)
  BY <1>1, FS_Subset
<1> QED
  BY <1>1, <1>2

Smaller(v, w) ==
    \/ Cardinality(Whites(v)) < Cardinality(Whites(w))
    \/ Cardinality(Whites(v)) = Cardinality(Whites(w)) /\ Len(v.names) < Len(w.names)
    \/ /\ Cardinality(Whites(v)) = Cardinality(Whites(w)) /\ Len(v.names) = Len(w.names)
       /\ Len(v.todo) < Len(w.todo)

\* Every step enters a white vertex, or takes a name or a step away.
LEMMA LoadShrinks ==
    ASSUME NEW G, IsGraph(G), NEW w \in Walk(Step), ~Over(w), NEW v \in Walk(Step),
           Takes(G, w, v) \/ Leaves(G, w, v) \/ Drops(G, w, v) \/ Enters(G, w, v) \/ Fails(G, w, v)
    PROVE  Smaller(v, w)
<1>1. w.color \in [Packages -> Colors] /\ w.todo \in Seq(Step) /\ w.names \in Seq(Packages)
  BY WalkTypes
<1>2. w.todo # <<>> => Len(w.todo) \in Nat \ {0} /\ Len(Front(w.todo)) = Len(w.todo) - 1
  BY <1>1, Stacks
<1>3. w.names # <<>> => Len(w.names) \in Nat \ {0} /\ Len(Tail(w.names)) = Len(w.names) - 1
  BY <1>1
<1>4. \A u : u.color = w.color => Whites(u) = Whites(w)
  BY DEF Whites
<1>5. CASE Takes(G, w, v)
  BY <1>3, <1>4, <1>5 DEF Takes, Smaller
<1>6. CASE Leaves(G, w, v)
  <2>1. Whites(v) \subseteq Whites(w)
    BY <1>1, <1>6 DEF Leaves, Whites
  <2>2. Cardinality(Whites(v)) \in Nat /\ Cardinality(Whites(w)) \in Nat
        /\ Cardinality(Whites(v)) <= Cardinality(Whites(w))
    BY <2>1, WhitesFinite, WhitesShrink
  <2>3. Len(v.names) = Len(w.names) /\ Len(v.todo) < Len(w.todo)
    BY <1>2, <1>6 DEF Leaves
  <2> QED
    BY <2>2, <2>3 DEF Smaller
<1>7. CASE Drops(G, w, v)
  BY <1>2, <1>4, <1>7 DEF Drops, Rest, Smaller
<1>8. CASE Enters(G, w, v)
  <2> DEFINE p == w.todo[Len(w.todo)].name
  <2>1. /\ p \in Packages /\ w.color[p] = "white" /\ v.color = [w.color EXCEPT ![p] = "gray"]
    BY <1>8 DEF Enters, IsGraph
  <2> HIDE DEF p
  <2>2. \A q \in Packages : v.color[q] = IF q = p THEN "gray" ELSE w.color[q]
    BY <1>1, <2>1
  <2>3. Whites(v) \subseteq Whites(w) /\ p \in Whites(w) /\ p \notin Whites(v)
    BY <2>1, <2>2 DEF Whites
  <2> QED
    BY <2>3, WhitesShrink DEF Smaller
<1>9. CASE Fails(G, w, v)
  <2>1. Whites(v) = Whites(w)
    BY <1>4, <1>9 DEF Fails
  <2>2. CASE w.todo = <<>> /\ v.todo = <<>> /\ w.names # <<>> /\ v.names = Tail(w.names)
    BY <1>3, <2>1, <2>2 DEF Smaller
  <2>3. CASE w.todo # <<>> /\ v.todo = Front(w.todo) /\ v.names = w.names
    BY <1>2, <2>1, <2>3 DEF Smaller
  <2> QED
    BY <1>9, <2>2, <2>3 DEF Fails
<1> QED
  BY <1>5, <1>6, <1>7, <1>8, <1>9

LEMMA LoadKeeps ==
    ASSUME NEW G, IsGraph(G), NEW ns \in Seq(Packages), NEW w \in Walk(Step), ~Over(w),
           LoadInvariant(G, ns, w)
    PROVE  /\ LoadStep(G, w) \in Walk(Step) /\ LoadInvariant(G, ns, LoadStep(G, w))
           /\ Smaller(LoadStep(G, w), w)
<1> DEFINE v == LoadStep(G, w)
<1>1. /\ v \in Walk(Step)
      /\ Takes(G, w, v) \/ Leaves(G, w, v) \/ Drops(G, w, v) \/ Enters(G, w, v) \/ Fails(G, w, v)
  BY LoadSteps
<1> HIDE DEF v
<1>2. Smaller(v, w)
  BY <1>1, LoadShrinks
<1>3. LoadInvariant(G, ns, v)
  <2>1. CASE Takes(G, w, v)
    BY <1>1, <2>1, TakesKeeps
  <2>2. CASE Leaves(G, w, v)
    BY <1>1, <2>2, LeavesKeeps
  <2>3. CASE Drops(G, w, v)
    BY <1>1, <2>3, DropsKeeps
  <2>4. CASE Enters(G, w, v)
    BY <1>1, <2>4, EntersKeeps
  <2>5. CASE Fails(G, w, v)
    BY <1>1, <2>5, FailsKeeps
  <2> QED
    BY <1>1, <2>1, <2>2, <2>3, <2>4, <2>5
<1> QED
  BY <1>1, <1>2, <1>3 DEF v

LEMMA StartFacts ==
    ASSUME NEW X, NEW ns \in Seq(Packages)
    PROVE  /\ Start(ns) \in Walk(X) /\ Start(ns).error = "none" /\ Start(ns).names = ns
           /\ Start(ns).todo = <<>> /\ Start(ns).results = <<>>
           /\ \A p \in Packages : Start(ns).color[p] = "white"
<1>1. /\ [p \in Packages |-> "white"] \in [Packages -> Colors]
      /\ <<>> \in Seq(Packages) /\ <<>> \in Seq(X) /\ "none" \in Errors
  BY DEF Colors, Errors
<1> QED
  BY <1>1 DEF Start, Walk

LEMMA LoadStarts ==
    ASSUME NEW G, IsGraph(G), NEW ns \in Seq(Packages)
    PROVE  Start(ns) \in Walk(Step) /\ LoadInvariant(G, ns, Start(ns))
<1> DEFINE w == Start(ns)
<1>1. /\ w \in Walk(Step) /\ w.error = "none" /\ w.names = ns /\ w.todo = <<>> /\ w.results = <<>>
      /\ \A p \in Packages : w.color[p] = "white"
  BY StartFacts
<1> HIDE DEF w
<1>2. DOMAIN w.todo = {} /\ DOMAIN w.results = {}
  BY <1>1
<1>3. Opened(w)
  BY <1>1, <1>2 DEF Opened
<1>4. Emitted(w)
  BY <1>1, <1>2 DEF Emitted
<1>5. Ordered(G, w) /\ Handled(G, w) /\ Leading(G, w)
  BY <1>2 DEF Ordered, Handled, Leading
<1>6. Reached(G, ns, w)
  BY <1>1, <1>2 DEF Reached, ToSet
<1> QED
  BY <1>1, <1>3, <1>4, <1>5, <1>6 DEF LoadInvariant, w

\* A walk whose steps keep I and make it smaller comes to its end, in I.
LEMMA WalkEnds ==
    ASSUME NEW Steps, NEW F \in [Walk(Steps) -> Walk(Steps)], NEW I \in SUBSET Walk(Steps),
           \A w \in I : ~Over(w) => F[w] \in I /\ Smaller(F[w], w)
    PROVE  /\ \E g : g = [w \in Walk(Steps) |-> IF Over(w) THEN w ELSE g[F[w]]]
           /\ \A g : g = [w \in Walk(Steps) |-> IF Over(w) THEN w ELSE g[F[w]]]
                        => \A w \in I : g[w] \in I /\ Over(g[w])
<1> DEFINE S == Walk(Steps)
           T == {w \in S : Over(w)}
           a == [w \in S |-> Cardinality(Whites(w))]
           b == [w \in S |-> Len(w.names)]
           c == [w \in S |-> Len(w.todo)]
<1>1. T \in SUBSET S /\ \A w \in S : Over(w) <=> w \in T
  OBVIOUS
<1>2. \E g : g = [w \in S |-> IF w \in T THEN w ELSE g[F[w]]]
  <2> HIDE DEF S, T
  <2> QED
    BY <1>1, LoopFunction DEF S
<1>3. \A g : [w \in S |-> IF w \in T THEN w ELSE g[F[w]]] = [w \in S |-> IF Over(w) THEN w ELSE g[F[w]]]
  OBVIOUS
<1>4. a \in [S -> Nat] /\ b \in [S -> Nat] /\ c \in [S -> Nat]
  <2>1. \A w \in S : Len(w.names) \in Nat /\ Len(w.todo) \in Nat
    BY DEF Walk
  <2> QED
    BY <2>1, WhitesFinite
<1>5. Descends(T, F, I, a, b, c)
  <2> SUFFICES ASSUME NEW s \in I \ T
               PROVE  /\ F[s] \in I
                      /\ \/ a[F[s]] < a[s]
                         \/ a[F[s]] = a[s] /\ b[F[s]] < b[s]
                         \/ a[F[s]] = a[s] /\ b[F[s]] = b[s] /\ c[F[s]] < c[s]
    BY DEF Descends
  <2> DEFINE r == F[s]
  <2>1. r \in I /\ Smaller(r, s) /\ r \in S /\ s \in S
    OBVIOUS
  <2>2. /\ a[r] = Cardinality(Whites(r)) /\ b[r] = Len(r.names) /\ c[r] = Len(r.todo)
        /\ a[s] = Cardinality(Whites(s)) /\ b[s] = Len(s.names) /\ c[s] = Len(s.todo)
    BY <2>1
  <2> HIDE DEF a, b, c, r
  <2>3. \/ a[r] < a[s]
        \/ a[r] = a[s] /\ b[r] < b[s]
        \/ a[r] = a[s] /\ b[r] = b[s] /\ c[r] < c[s]
    BY <2>1, <2>2 DEF Smaller
  <2> QED
    BY <2>1, <2>3 DEF r
<1> HIDE DEF T, a, b, c
<1>6. ASSUME NEW g, g = [w \in S |-> IF w \in T THEN w ELSE g[F[w]]]
      PROVE  \A w \in I : g[w] \in I \cap T
  <2>1. IsLoop(S, T, F, g)
    BY <1>6 DEF IsLoop
  <2> HIDE DEF S
  <2> QED
    BY <1>1, <1>4, <1>5, <2>1, LoopEnds DEF S
<1> QED
  BY <1>1, <1>2, <1>3, <1>6

\* load_order comes to its end for any graph, with cycles or without, and any names.
THEOREM LoadEnds ==
    ASSUME NEW G, IsGraph(G), NEW ns \in Seq(Packages)
    PROVE  /\ LoadOrder(G, ns) \in Walk(Step) /\ Over(LoadOrder(G, ns))
           /\ LoadInvariant(G, ns, LoadOrder(G, ns))
<1> DEFINE S == Walk(Step)
           I == {w \in S : LoadInvariant(G, ns, w)}
           F == [w \in S |-> IF Over(w) THEN w ELSE LoadStep(G, w)]
           Body(f) == [walk \in Walk(Step) |-> IF Over(walk) THEN walk ELSE f[LoadStep(G, walk)]]
           g == CHOOSE f : f = Body(f)
<1>1. F \in [S -> S] /\ I \in SUBSET S
  BY LoadSteps
<1>2. \A w \in I : ~Over(w) => F[w] \in I /\ Smaller(F[w], w)
  BY LoadKeeps
<1>3. LoadOrder(G, ns) = g[Start(ns)]
  BY DEF LoadOrder
<1>4. \A f : [w \in S |-> IF Over(w) THEN w ELSE f[F[w]]] = Body(f)
  OBVIOUS
<1>5. Start(ns) \in I
  BY LoadStarts
<1> HIDE DEF F, I, Body
<1>6. /\ \E f : f = [w \in S |-> IF Over(w) THEN w ELSE f[F[w]]]
      /\ \A f : f = [w \in S |-> IF Over(w) THEN w ELSE f[F[w]]]
                   => \A w \in I : f[w] \in I /\ Over(f[w])
  BY <1>1, <1>2, WalkEnds
<1>7. g = Body(g)
  BY <1>4, <1>6
<1>8. \A w \in I : g[w] \in I /\ Over(g[w])
  <2> HIDE DEF g
  <2> QED
    BY <1>4, <1>6, <1>7
<1> QED
  BY <1>3, <1>5, <1>8 DEF I

\* What is known of the walk at its end makes its results an order to load in.
LEMMA LoadOrderIsSound ==
    ASSUME NEW G, IsGraph(G), NEW ns \in Seq(Packages)
    PROVE  LET w == LoadOrder(G, ns)
               reached == Dependencies(G, ToSet(ns)) IN
           /\ w.error = "none" =>
                 /\ IsInjective(w.results)
                 /\ ToSet(w.results) = reached
                 /\ \A i, j \in DOMAIN w.results :
                       Requires(G, w.results[i], w.results[j]) => j < i
                 /\ ToSet(ns) \subseteq Installed(G)
                 /\ \A p \in reached, q \in Packages :
                       Requires(G, p, q) => q \in Installed(G)
           /\ w.error = "P3" => ~Acyclic(G)
<1> DEFINE w == LoadOrder(G, ns)
           R == Dependencies(G, ToSet(ns))
<1>1. w \in Walk(Step) /\ Over(w) /\ LoadInvariant(G, ns, w)
  BY LoadEnds
<1> HIDE DEF w, R
<1>2. w.error = "P3" => ~Acyclic(G)
  BY <1>1 DEF LoadInvariant
<1>3. ASSUME w.error = "none"
      PROVE  /\ IsInjective(w.results)
             /\ ToSet(w.results) = R
             /\ \A i, j \in DOMAIN w.results :
                   Requires(G, w.results[i], w.results[j]) => j < i
             /\ ToSet(ns) \subseteq Installed(G)
             /\ \A p \in R, q \in Packages :
                   Requires(G, p, q) => q \in Installed(G)
  <2>1. /\ Opened(w) /\ Emitted(w) /\ Ordered(G, w) /\ Reached(G, ns, w)
        /\ DOMAIN w.todo = {} /\ DOMAIN w.names = {}
    BY <1>1, <1>3 DEF LoadInvariant, Over
  <2>2. /\ w.color \in [Packages -> Colors] /\ w.results \in Seq(Packages)
        /\ Installed(G) \subseteq Packages /\ ToSet(ns) \subseteq Packages
    BY <1>1, WalkTypes DEF IsGraph, ToSet
  <2>3. \A p \in Packages : w.color[p] # "white" => w.color[p] = "black"
    BY <2>1, <2>2 DEF Opened, Colors
  <2>4. \A p \in Packages : p \in ToSet(w.results) <=> w.color[p] = "black"
    BY <2>1 DEF Emitted, ToSet
  <2>5. ToSet(w.results) \subseteq Packages
    BY <2>2 DEF ToSet
  <2>6. ToSet(w.results) \subseteq R /\ R \subseteq Installed(G)
    <3>1. ToSet(w.results) \subseteq R
      BY <2>1, <2>4, <2>5 DEF Reached, R
    <3> QED
      BY <3>1, DependenciesFacts DEF R
  <2>7. ToSet(ns) \subseteq Installed(G) /\ ToSet(ns) \subseteq ToSet(w.results)
    BY <2>1, <2>2, <2>3, <2>4 DEF Reached
  <2>8. ASSUME NEW i \in DOMAIN w.results, NEW d \in DOMAIN G[w.results[i]]
        PROVE  /\ G[w.results[i]][d].required =>
                     \E j \in 1 .. i - 1 : w.results[j] = G[w.results[i]][d].name
               /\ G[w.results[i]][d].name \in Installed(G) =>
                     w.color[G[w.results[i]][d].name] # "white"
    BY <2>1 DEF Ordered
  <2>9. DependenciesWithin(G, ToSet(w.results))
    <3> SUFFICES ASSUME NEW i \in DOMAIN w.results, NEW q \in Installed(G),
                        NEW d \in DOMAIN G[w.results[i]], G[w.results[i]][d].name = q
                 PROVE  q \in ToSet(w.results)
      BY DEF DependenciesWithin, DependsOn, ToSet
    <3> QED
      BY <2>2, <2>3, <2>4, <2>8
  <2>10. R \subseteq ToSet(w.results)
    <3>1. ToSet(w.results) \in SUBSET Installed(G) /\ ToSet(ns) \cap Installed(G) \subseteq ToSet(w.results)
      BY <2>6, <2>7
    <3> QED
      BY <2>9, <3>1, DependenciesFacts DEF R
  <2>11. \A i, j \in DOMAIN w.results : w.results[i] = w.results[j] => i = j
    BY <2>1 DEF Emitted
  <2>12. Len(w.results) \in Nat /\ DOMAIN w.results = 1 .. Len(w.results)
    BY <2>2
  <2>13. ASSUME NEW i \in DOMAIN w.results, NEW q, Requires(G, w.results[i], q)
         PROVE  \E j \in DOMAIN w.results : j < i /\ w.results[j] = q
    <3>1. PICK d \in DOMAIN G[w.results[i]] : G[w.results[i]][d] = [name |-> q, required |-> TRUE]
      BY <2>13 DEF Requires
    <3>2. G[w.results[i]][d].required = TRUE /\ G[w.results[i]][d].name = q
      BY <3>1
    <3>3. PICK j \in 1 .. i - 1 : w.results[j] = q
      BY <2>8, <3>2
    <3> QED
      BY <2>12, <3>3
  <2>14. \A i, j \in DOMAIN w.results : Requires(G, w.results[i], w.results[j]) => j < i
    <3> SUFFICES ASSUME NEW i \in DOMAIN w.results, NEW j \in DOMAIN w.results,
                        Requires(G, w.results[i], w.results[j])
                 PROVE  j < i
      OBVIOUS
    <3>1. PICK k \in DOMAIN w.results : k < i /\ w.results[k] = w.results[j]
      BY <2>13
    <3> QED
      BY <2>11, <3>1
  <2>15. ASSUME NEW p \in R, NEW q \in Packages, Requires(G, p, q)
         PROVE  q \in Installed(G)
    <3>1. PICK i \in DOMAIN w.results : w.results[i] = p
      BY <2>10 DEF ToSet
    <3>2. PICK j \in DOMAIN w.results : w.results[j] = q
      BY <2>13, <2>15, <3>1
    <3> QED
      BY <2>6, <3>2 DEF ToSet
  <2> QED
    BY <2>6, <2>7, <2>10, <2>11, <2>14, <2>15 DEF IsInjective
<1> QED
  BY <1>2, <1>3 DEF w, R

-----------------------------------------------------------------------------
(***************************************************************************)
(* What is installed, counted upwards                                      *)
(***************************************************************************)

\* The members of a finite set of numbers, counted upwards.
LEMMA InOrderFacts ==
    ASSUME NEW I \in SUBSET Nat, IsFiniteSet(I)
    PROVE  /\ InOrder(I) \in Seq(I) /\ Len(InOrder(I)) = Cardinality(I) /\ Cardinality(I) \in Nat
           /\ \A i \in I : \E k \in DOMAIN InOrder(I) : InOrder(I)[k] = i
           /\ \A j, k \in DOMAIN InOrder(I) : j < k => InOrder(I)[j] < InOrder(I)[k]
<1> DEFINE n == Cardinality(I)
           Lower(i) == {j \in I : j < i}
           rank == [i \in I |-> Cardinality(Lower(i))]
<1>1. n \in Nat
  BY FS_CardinalityType
<1>2. \A i \in I : IsFiniteSet(Lower(i)) /\ Cardinality(Lower(i)) \in Nat
  BY FS_Subset, FS_CardinalityType
<1>3. ASSUME NEW i \in I, NEW T \in SUBSET I, IsFiniteSet(T),
             Lower(i) \subseteq T, i \in T
      PROVE  Cardinality(Lower(i)) < Cardinality(T)
  <2>1. Lower(i) \in SUBSET T /\ Lower(i) # T
    BY <1>3
  <2> HIDE DEF Lower
  <2>2. Cardinality(T) \in Nat /\ Cardinality(Lower(i)) \in Nat
    BY <1>2, <1>3, FS_CardinalityType
  <2>3. Cardinality(Lower(i)) <= Cardinality(T) /\ Cardinality(T) # Cardinality(Lower(i))
    BY <1>3, <2>1, FS_Subset
  <2> QED
    BY <2>2, <2>3
<1>4. \A i \in I : Cardinality(Lower(i)) < n
  BY <1>3
<1>5. \A i, j \in I : i < j => Cardinality(Lower(i)) < Cardinality(Lower(j))
  <2> TAKE i, j \in I
  <2> HAVE i < j
  <2>0. IsFiniteSet(Lower(j))
    BY <1>2, ZenonT(30)
  <2>2. \A k \in I : k < i => k < j
    OBVIOUS
  <2> HIDE DEF rank, n
  <2>1. Lower(j) \in SUBSET I /\ Lower(i) \subseteq Lower(j) /\ i \in Lower(j)
    BY <2>2
  <2> HIDE DEF Lower
  <2> QED
    BY <1>3, <2>0, <2>1
<1> HIDE DEF Lower
<1>6. \A i, j \in I : rank[i] < rank[j] <=> i < j
  <2> TAKE i, j \in I
  <2>1. rank[i] \in Nat /\ rank[j] \in Nat
    BY <1>2
  <2>2. i < j \/ j < i \/ i = j
    OBVIOUS
  <2> QED
    BY <1>5, <2>1, <2>2
<1>7. rank \in Injection(I, 0 .. n - 1)
  <2>1. rank \in [I -> 0 .. n - 1]
    BY <1>1, <1>2, <1>4
  <2>2. \A i, j \in I : rank[i] = rank[j] => i = j
    <3> TAKE i, j \in I
    <3>1. i < j \/ j < i \/ i = j
      OBVIOUS
    <3>2. rank[i] \in Nat /\ rank[j] \in Nat
      BY <1>2
    <3> QED
      BY <1>6, <3>1, <3>2
  <2> HIDE DEF rank
  <2> QED
    BY <2>1, <2>2 DEF Injection, IsInjective
<1>8. rank \in Surjection(I, 0 .. n - 1)
  <2>1. IsFiniteSet(0 .. n - 1) /\ Cardinality(0 .. n - 1) = n
    <3> HIDE DEF n
    <3> QED
      BY <1>1, FS_Interval
  <2> HIDE DEF rank
  <2> QED
    BY <1>7, <2>1, FS_Injection
<1>9. ASSUME NEW k \in 1 .. n
      PROVE  InOrder(I)[k] \in I /\ rank[InOrder(I)[k]] = k - 1
  <2>1. k - 1 \in 0 .. n - 1
    BY <1>1
  <2>2. \E i \in I : rank[i] = k - 1
    BY <1>8, <2>1 DEF Surjection
  <2>3. \E i \in I : Cardinality({j \in I : j < i}) = k - 1
    BY <2>2 DEF Lower
  <2>4. InOrder(I)[k] = CHOOSE i \in I : Cardinality({j \in I : j < i}) = k - 1
    BY DEF InOrder
  <2> QED
    BY <2>3, <2>4 DEF Lower
<1> HIDE DEF rank
<1>10. DOMAIN InOrder(I) = 1 .. n
  BY DEF InOrder
<1>11. InOrder(I) \in Seq(I) /\ Len(InOrder(I)) = n
  <2> DEFINE nth(k) == CHOOSE i \in I : Cardinality({j \in I : j < i}) = k - 1
  <2>1. InOrder(I) = [k \in 1 .. n |-> nth(k)]
    BY Zenon DEF InOrder
  <2> HIDE DEF nth
  <2>2. \A k \in 1 .. n : nth(k) \in I
    BY <1>9, <2>1
  <2> HIDE DEF n
  <2> QED
    BY <1>1, <2>1, <2>2
<1>12. ASSUME NEW i \in I
       PROVE  \E k \in DOMAIN InOrder(I) : InOrder(I)[k] = i
  <2>1. rank[i] + 1 \in 1 .. n /\ rank[i] \in 0 .. n - 1
    BY <1>1, <1>7 DEF Injection
  <2> DEFINE k == rank[i] + 1
  <2>2. InOrder(I)[k] \in I /\ rank[InOrder(I)[k]] = rank[i]
    BY <1>9, <2>1
  <2>3. InOrder(I)[k] = i
    BY <1>7, <2>2 DEF Injection, IsInjective
  <2> QED
    BY <1>10, <2>1, <2>3
<1>13. ASSUME NEW j \in DOMAIN InOrder(I), NEW k \in DOMAIN InOrder(I), j < k
       PROVE  InOrder(I)[j] < InOrder(I)[k]
  <2>1. /\ InOrder(I)[j] \in I /\ rank[InOrder(I)[j]] = j - 1
        /\ InOrder(I)[k] \in I /\ rank[InOrder(I)[k]] = k - 1
    BY <1>9, <1>10
  <2>2. j - 1 < k - 1
    BY <1>10, <1>13
  <2> QED
    BY <1>6, <2>1, <2>2
<1> QED
  BY <1>1, <1>11, <1>12, <1>13

LEMMA InstalledFacts ==
    ASSUME NEW G, IsGraph(G)
    PROVE  /\ InstalledInOrder(G) \in Seq(Installed(G)) /\ InstalledInOrder(G) \in Seq(Packages)
           /\ \A q \in Installed(G) : \E k \in DOMAIN InstalledInOrder(G) : InstalledInOrder(G)[k] = q
<1> DEFINE all == InstalledInOrder(G)
<1>0. Installed(G) \in SUBSET Packages
  BY DEF IsGraph
<1>1. IsFiniteSet(Packages)
  BY PackageCountAssumption, FS_Interval DEF Packages
<1>2. Installed(G) \in SUBSET Nat
  BY <1>0, PackageCountAssumption DEF Packages
<1>3. IsFiniteSet(Installed(G))
  BY <1>0, <1>1, FS_Subset
<1>4. all \in Seq(Installed(G)) /\ \A q \in Installed(G) : \E k \in DOMAIN all : all[k] = q
  BY <1>2, <1>3, InOrderFacts DEF InstalledInOrder
<1> HIDE DEF all
<1>5. all \in Seq(Packages)
  BY <1>0, <1>4
<1> QED
  BY <1>4, <1>5 DEF all

LEMMA VisitFacts ==
    ASSUME NEW G, IsGraph(G), NEW p \in Packages
    PROVE  LET t == Visit(G, p) IN
           /\ t \in Seq(RevStep)
           /\ p \notin Installed(G) => t = <<>>
           /\ p \in Installed(G) =>
                 /\ Len(t) \in Nat \ {0} /\ t[1] = Rev("emit", p, p)
                 /\ \A i \in 2 .. Len(t) : \E q \in Installed(G) : t[i] = Rev("try", q, p)
                 /\ \A q \in Installed(G) : \E i \in 2 .. Len(t) : t[i] = Rev("try", q, p)
<1>1. CASE p \notin Installed(G)
  BY <1>1 DEF Visit
<1>2. CASE p \in Installed(G)
  <2> DEFINE all == InstalledInOrder(G)
             n == Len(all)
             tries == TriesOf(G, p)
             first == <<Rev("emit", p, p)>>
  <2>0. Installed(G) \in SUBSET Packages
    BY DEF IsGraph
  <2>1. /\ all \in Seq(Installed(G))
        /\ \A q \in Installed(G) : \E k \in DOMAIN all : all[k] = q
    BY InstalledFacts
  <2> HIDE DEF all
  <2>2. n \in Nat /\ DOMAIN all = 1 .. n /\ \A k \in 1 .. n : all[k] \in Installed(G)
    BY <2>1
  <2>3. tries = [i \in 1 .. n |-> Rev("try", all[n + 1 - i], p)]
    BY <2>2 DEF TriesOf, all
  <2>4. \A q \in Packages : Rev("try", q, p) \in RevStep /\ Rev("emit", q, p) \in RevStep
    BY DEF Rev, RevStep
  <2>5. /\ tries \in Seq(RevStep) /\ Len(tries) = n
        /\ \A i \in 1 .. n : tries[i] = Rev("try", all[n + 1 - i], p) /\ all[n + 1 - i] \in Installed(G)
    <3>1. \A i \in 1 .. n : n + 1 - i \in 1 .. n
      BY <2>2
    <3> HIDE DEF n
    <3>2. \A i \in 1 .. n : all[n + 1 - i] \in Installed(G)
      BY <2>2, <3>1
    <3> HIDE DEF tries
    <3> QED
      BY <2>0, <2>2, <2>3, <2>4, <3>2
  <2> HIDE DEF n, tries
  <2>6. /\ first \in Seq(RevStep) /\ Len(first) = 1 /\ first[1] = Rev("emit", p, p)
    BY <2>4
  <2> HIDE DEF first
  <2>7. Visit(G, p) = first \o tries
    BY <1>2 DEF Visit, first, tries
  <2>12. /\ first \o tries \in Seq(RevStep) /\ Len(first \o tries) = 1 + n
         /\ (first \o tries)[1] = first[1]
         /\ \A i \in 2 .. 1 + n : (first \o tries)[i] = tries[i - 1]
    <3>1. /\ first \o tries \in Seq(RevStep) /\ Len(first \o tries) = Len(first) + Len(tries)
          /\ \A i \in 1 .. Len(first) : (first \o tries)[i] = first[i]
          /\ \A i \in Len(first) + 1 .. Len(first) + Len(tries) : (first \o tries)[i] = tries[i - Len(first)]
      BY <2>5, <2>6, Pushed, ZenonT(30)
    <3>2. Len(first) = 1 /\ Len(tries) = n
      BY <2>5, <2>6
    <3>3. 1 \in 1 .. 1 /\ \A i \in 2 .. 1 + n : i \in 1 + 1 .. 1 + n
      BY <2>2
    <3>4. /\ \A i \in 1 .. 1 : (first \o tries)[i] = first[i]
          /\ \A i \in 1 + 1 .. 1 + n : (first \o tries)[i] = tries[i - 1]
          /\ Len(first \o tries) = 1 + n
      BY <3>1, <3>2
    <3> QED
      BY <3>1, <3>3, <3>4, ZenonT(30)
  <2>8. /\ Visit(G, p) \in Seq(RevStep) /\ Len(Visit(G, p)) = n + 1 /\ Visit(G, p)[1] = Rev("emit", p, p)
        /\ \A i \in 2 .. n + 1 : Visit(G, p)[i] = tries[i - 1]
    BY <2>2, <2>6, <2>7, <2>12
  <2>9. ASSUME NEW i \in 2 .. n + 1
        PROVE  \E q \in Installed(G) : Visit(G, p)[i] = Rev("try", q, p)
    <3>1. i - 1 \in 1 .. n
      BY <2>2
    <3> QED
      BY <2>5, <2>8, <3>1
  <2>10. ASSUME NEW q \in Installed(G)
         PROVE  \E i \in 2 .. n + 1 : Visit(G, p)[i] = Rev("try", q, p)
    <3>1. PICK k \in 1 .. n : all[k] = q
      BY <2>1, <2>2
    <3> DEFINE i == n + 2 - k
    <3>2. i \in 2 .. n + 1 /\ i - 1 \in 1 .. n /\ n + 1 - (i - 1) = k
      BY <2>2
    <3> HIDE DEF i
    <3> QED
      BY <2>5, <2>8, <3>1, <3>2
  <2>11. Len(Visit(G, p)) = n + 1 /\ n + 1 \in Nat \ {0}
    BY <2>2, <2>8
  <2> QED
    BY <1>2, <2>8, <2>9, <2>10, <2>11
<1> QED
  BY <1>1, <1>2

-----------------------------------------------------------------------------
(***************************************************************************)
(* The steps of unload_order: a name is taken, a package emitted or        *)
(* blackened, or a round of the loop misses or finds a dependent.          *)
(***************************************************************************)

\* What a round of the loop that finds a dependent leaves to do.
Finding(G, s) == <<Rev("blacken", s.name, s.of)>> \o Visit(G, s.name)

LEMMA FindingType ==
    ASSUME NEW G, IsGraph(G), NEW s \in RevStep
    PROVE  Finding(G, s) \in Seq(RevStep)
<1>1. s.name \in Packages /\ s.of \in Packages
  BY DEF RevStep
<1>2. Visit(G, s.name) \in Seq(RevStep)
  BY <1>1, VisitFacts
<1>3. <<Rev("blacken", s.name, s.of)>> \in Seq(RevStep)
  BY <1>1 DEF Rev, RevStep
<1> QED
  BY <1>2, <1>3, Pushed, ZenonT(30) DEF Finding

LEMMA FindingFacts ==
    ASSUME NEW G, IsGraph(G), NEW s \in RevStep, s.name \in Installed(G)
    PROVE  LET t == Finding(G, s) IN
           /\ t \in Seq(RevStep) /\ Len(t) \in Nat /\ Len(t) >= 2
           /\ t[1] = Rev("blacken", s.name, s.of) /\ t[2] = Rev("emit", s.name, s.name)
           /\ \A i \in 3 .. Len(t) : \E q \in Installed(G) : t[i] = Rev("try", q, s.name)
           /\ \A q \in Installed(G) : \E i \in 3 .. Len(t) : t[i] = Rev("try", q, s.name)
<1> DEFINE p == s.name
           b == <<Rev("blacken", p, s.of)>>
           u == Visit(G, p)
           t == Finding(G, s)
<1>1. p \in Packages /\ s.of \in Packages
  BY DEF RevStep
<1>2. /\ u \in Seq(RevStep) /\ Len(u) \in Nat \ {0} /\ u[1] = Rev("emit", p, p)
      /\ \A i \in 2 .. Len(u) : \E q \in Installed(G) : u[i] = Rev("try", q, p)
      /\ \A q \in Installed(G) : \E i \in 2 .. Len(u) : u[i] = Rev("try", q, p)
  BY <1>1, VisitFacts
<1>3. b \in Seq(RevStep) /\ Len(b) = 1 /\ b[1] = Rev("blacken", p, s.of)
  BY <1>1 DEF Rev, RevStep
<1>4. t = b \o u
  BY DEF Finding
<1> HIDE DEF b, u, t, p
<1>5. /\ t \in Seq(RevStep) /\ Len(t) = 1 + Len(u) /\ t[1] = b[1]
      /\ \A i \in 2 .. 1 + Len(u) : t[i] = u[i - 1]
  <2>1. /\ b \o u \in Seq(RevStep) /\ Len(b \o u) = Len(b) + Len(u)
        /\ \A i \in 1 .. Len(b) : (b \o u)[i] = b[i]
        /\ \A i \in Len(b) + 1 .. Len(b) + Len(u) : (b \o u)[i] = u[i - Len(b)]
    BY <1>2, <1>3, Pushed, ZenonT(30)
  <2>2. /\ \A i \in 1 .. 1 : t[i] = b[i]
        /\ \A i \in 1 + 1 .. 1 + Len(u) : t[i] = u[i - 1]
        /\ Len(t) = 1 + Len(u)
    BY <1>3, <1>4, <2>1
  <2>3. 1 \in 1 .. 1 /\ \A i \in 2 .. 1 + Len(u) : i \in 1 + 1 .. 1 + Len(u)
    BY <1>2
  <2> QED
    BY <1>4, <2>1, <2>2, <2>3, ZenonT(30)
<1>6. t[2] = Rev("emit", p, p)
  <2>1. 2 \in 2 .. 1 + Len(u) /\ 2 - 1 = 1
    BY <1>2
  <2> QED
    BY <1>2, <1>5, <2>1
<1>7. ASSUME NEW i \in 3 .. Len(t)
      PROVE  \E q \in Installed(G) : t[i] = Rev("try", q, p)
  <2>1. i - 1 \in 2 .. Len(u) /\ i \in 2 .. 1 + Len(u)
    BY <1>2, <1>5
  <2> QED
    BY <1>2, <1>5, <2>1
<1>8. ASSUME NEW q \in Installed(G)
      PROVE  \E i \in 3 .. Len(t) : t[i] = Rev("try", q, p)
  <2>1. PICK j \in 2 .. Len(u) : u[j] = Rev("try", q, p)
    BY <1>2
  <2> DEFINE i == j + 1
  <2>2. i \in 3 .. Len(t) /\ i \in 2 .. 1 + Len(u) /\ i - 1 = j
    BY <1>2, <1>5
  <2> HIDE DEF i
  <2> QED
    BY <1>5, <2>1, <2>2
<1>9. Len(t) \in Nat /\ Len(t) >= 2
  BY <1>2, <1>5
<1> QED
  BY <1>3, <1>5, <1>6, <1>7, <1>8, <1>9 DEF t, p

Begins(G, w, v) ==
    /\ w.todo = <<>> /\ w.names # <<>> /\ v.names = Tail(w.names)
    /\ v.color = w.color /\ v.results = w.results /\ v.error = "none"
    /\ v.todo = Visit(G, Head(w.names))

Emits(G, w, v) ==
    LET s == w.todo[Len(w.todo)] IN
    /\ w.todo # <<>> /\ s.op = "emit" /\ v.color = w.color
    /\ v.results = Append(w.results, s.name)
    /\ v.error = "none" /\ v.names = w.names /\ v.todo = Front(w.todo)

Blackens(G, w, v) ==
    LET s == w.todo[Len(w.todo)] IN
    /\ w.todo # <<>> /\ s.op = "blacken" /\ v.color = [w.color EXCEPT ![s.name] = "black"]
    /\ v.results = w.results
    /\ v.error = "none" /\ v.names = w.names /\ v.todo = Front(w.todo)

Misses(G, w, v) ==
    LET s == w.todo[Len(w.todo)] IN
    /\ w.todo # <<>> /\ s.op = "try"
    /\ w.color[s.name] # "white" \/ ~DependsOn(G, s.name, s.of)
    /\ v.color = w.color /\ v.results = w.results
    /\ v.error = "none" /\ v.names = w.names /\ v.todo = Front(w.todo)

Finds(G, w, v) ==
    LET s == w.todo[Len(w.todo)] IN
    /\ w.todo # <<>> /\ s.op = "try"
    /\ w.color[s.name] = "white" /\ DependsOn(G, s.name, s.of)
    /\ v.color = [w.color EXCEPT ![s.name] = "gray"] /\ v.results = w.results
    /\ v.error = "none" /\ v.names = w.names
    /\ v.todo = Front(w.todo) \o Finding(G, s)

\* The steps are about installed packages, and nothing fails.
Sane(G, w) ==
    /\ w.error = "none"
    /\ \A k \in DOMAIN w.todo : w.todo[k].name \in Installed(G) /\ w.todo[k].of \in Installed(G)

LEMMA UnloadSteps ==
    ASSUME NEW G, IsGraph(G), NEW w \in Walk(RevStep), ~Over(w)
    PROVE  LET v == UnloadStep(G, w) IN
           /\ v \in Walk(RevStep)
           /\ Begins(G, w, v) \/ Emits(G, w, v) \/ Blackens(G, w, v) \/ Misses(G, w, v) \/ Finds(G, w, v)
<1> DEFINE v == UnloadStep(G, w)
<1>1. /\ w.error = "none" /\ (w.names # <<>> \/ w.todo # <<>>)
      /\ w.todo \in Seq(RevStep) /\ w.names \in Seq(Packages) /\ w.results \in Seq(Packages)
      /\ w.color \in [Packages -> Colors]
  BY DEF Over, Walk, Errors
<1>2. CASE w.todo = <<>>
  <2> DEFINE p == Head(w.names)
             t == Visit(G, p)
  <2>1. w.names # <<>> /\ p \in Packages /\ Tail(w.names) \in Seq(Packages)
    BY <1>1, <1>2
  <2>2. t \in Seq(RevStep)
    BY <2>1, VisitFacts
  <2>3. v = Push(Named(w), t)
    BY <1>2 DEF UnloadStep
  <2> HIDE DEF t, v
  <2>4. w.todo \o t = t
    BY <1>2, <2>2
  <2>5. v = [w EXCEPT !.names = Tail(w.names), !.todo = t]
    BY <2>3, <2>4 DEF Push, Named, Walk
  <2>6. v \in Walk(RevStep)
    BY <2>1, <2>2, <2>5 DEF Walk
  <2>7. Begins(G, w, v)
    BY <1>1, <1>2, <2>1, <2>5 DEF Begins, Walk, t
  <2> QED
    BY <2>6, <2>7 DEF v
<1>3. CASE w.todo # <<>>
  <2> DEFINE s == w.todo[Len(w.todo)]
             p == s.name
             u == [w EXCEPT !.todo = Front(w.todo)]
  <2>1. s \in RevStep /\ s = Last(w.todo) /\ Front(w.todo) \in Seq(RevStep) /\ p \in Packages
    <3>1. Last(w.todo) \in RevStep /\ s = Last(w.todo) /\ Front(w.todo) \in Seq(RevStep)
      BY <1>1, <1>3, Stacks
    <3> QED
      BY <3>1 DEF RevStep
  <2>2. v = RevSortStep(G, u, s)
    BY <1>3, <2>1 DEF UnloadStep, Pop
  <2>3. /\ u \in Walk(RevStep) /\ u.todo = Front(w.todo) /\ u.color = w.color
        /\ u.results = w.results /\ u.error = "none" /\ u.names = w.names
    BY <1>1, <2>1 DEF Walk
  <2> HIDE DEF u, s
  <2>4. CASE s.op = "emit"
    <3>1. v = [u EXCEPT !.results = Append(u.results, p)]
      BY <2>2, <2>3, <2>4 DEF RevSortStep, Emit, Walk
    <3>2. v \in Walk(RevStep)
      <4>1. Append(u.results, p) \in Seq(Packages)
        BY <2>1, <2>3 DEF Walk
      <4> QED
        BY <3>1, <4>1, <2>3 DEF Walk
    <3>3. Emits(G, w, v)
      BY <3>1, <2>3, <2>4, <1>3 DEF Emits, Walk, s
    <3> QED
      BY <3>2, <3>3
  <2>5. CASE s.op = "blacken"
    <3>1. v = [u EXCEPT !.color = [u.color EXCEPT ![p] = "black"]]
      BY <2>2, <2>3, <2>5 DEF RevSortStep, Paint, Walk
    <3>2. v \in Walk(RevStep)
      <4>1. [u.color EXCEPT ![p] = "black"] \in [Packages -> Colors]
        BY <2>1, <2>3 DEF Walk, Colors
      <4> QED
        BY <3>1, <4>1, <2>3 DEF Walk
    <3>3. Blackens(G, w, v)
      BY <3>1, <2>3, <2>5, <1>3 DEF Blackens, Walk, s
    <3> QED
      BY <3>2, <3>3
  <2>6. CASE s.op = "try" /\ Found(G, u, s)
    <3>1. v = [u EXCEPT !.color[p] = "gray", !.todo = u.todo \o Finding(G, s)]
      BY <2>2, <2>3, <2>6 DEF RevSortStep, Push, Paint, Walk, Finding
    <3>2. Finding(G, s) \in Seq(RevStep)
      BY <2>1, FindingType
    <3>3. v \in Walk(RevStep)
      <4>1. [u.color EXCEPT ![p] = "gray"] \in [Packages -> Colors]
        BY <2>1, <2>3 DEF Walk, Colors
      <4>2. u.todo \o Finding(G, s) \in Seq(RevStep)
        BY <3>2, <2>3 DEF Walk
      <4>3. v = [u EXCEPT !.color = [u.color EXCEPT ![p] = "gray"], !.todo = u.todo \o Finding(G, s)]
        BY <3>1, <2>3 DEF Walk
      <4> QED
        BY <4>1, <4>2, <4>3, <2>3 DEF Walk
    <3>4. Finds(G, w, v)
      BY <3>1, <2>3, <2>6, <1>3 DEF Finds, Found, Walk, s
    <3> QED
      BY <3>3, <3>4
  <2>7. CASE s.op = "try" /\ ~Found(G, u, s)
    <3>1. v = u
      BY <2>2, <2>7 DEF RevSortStep
    <3>2. Misses(G, w, v)
      BY <3>1, <2>3, <2>7, <1>3 DEF Misses, Found, s
    <3> QED
      BY <3>1, <3>2, <2>3
  <2>8. s.op \in {"try", "blacken", "emit"}
    BY <2>1 DEF RevStep
  <2> QED
    BY <2>4, <2>5, <2>6, <2>7, <2>8
<1> QED
  BY <1>2, <1>3

-----------------------------------------------------------------------------
(***************************************************************************)
(* What holds of a walk of unload_order, at each of its steps              *)
(***************************************************************************)

LEMMA DependentsFacts ==
    ASSUME NEW G, NEW N
    PROVE  /\ Dependents(G, N) \subseteq Installed(G)
           /\ N \cap Installed(G) \subseteq Dependents(G, N)
           /\ DependentsWithin(G, Dependents(G, N))
           /\ \A S \in SUBSET Installed(G) :
                 N \cap Installed(G) \subseteq S /\ DependentsWithin(G, S)
                    => Dependents(G, N) \subseteq S
BY DEF Dependents, DependentsWithin

LEMMA BelowFacts ==
    ASSUME NEW G, NEW p, NEW q \in Installed(G)
    PROVE  /\ DependsOn(G, p, q) => q \in Below(G, p)
           /\ q \in Below(G, p) => Below(G, q) \subseteq Below(G, p)
<1>1. ASSUME DependsOn(G, p, q)
      PROVE  q \in Below(G, p)
  <2>1. q \in {d.name : d \in ToSet(G[p])}
    BY <1>1 DEF DependsOn, ToSet
  <2> QED
    BY <2>1, DependenciesFacts DEF Below
<1>2. ASSUME q \in Below(G, p)
      PROVE  Below(G, q) \subseteq Below(G, p)
  <2>1. DependenciesWithin(G, Below(G, p)) /\ Below(G, p) \in SUBSET Installed(G)
    BY DependenciesFacts DEF Below
  <2>2. \A d \in DOMAIN G[q] : DependsOn(G, q, G[q][d].name)
    BY DEF DependsOn
  <2>3. {d.name : d \in ToSet(G[q])} \cap Installed(G) \subseteq Below(G, p)
    BY <1>2, <2>1, <2>2 DEF DependenciesWithin, ToSet
  <2> QED
    BY <2>1, <2>3, DependenciesFacts DEF Below
<1> QED
  BY <1>1, <1>2

IsEmit(x, p) == x.op = "emit" /\ x.name = p

\* In the results, or to be there.
Seen(w, p) == p \in ToSet(w.results) \/ \E k \in DOMAIN w.todo : IsEmit(w.todo[k], p)

\* What is painted, or to be, is seen.
Coloured(w) ==
    /\ \A p \in Packages : w.color[p] # "white" => Seen(w, p)
    /\ \A k \in DOMAIN w.todo : w.todo[k].op = "blacken" => Seen(w, w.todo[k].name)

\* What is seen depends on a name, and so does what the tries are for.
Grounded(G, ns, w) ==
    /\ \A p \in Packages : Seen(w, p) => p \in Dependents(G, ToSet(ns))
    /\ \A k \in DOMAIN w.todo : w.todo[k].op = "try" => w.todo[k].of \in Dependents(G, ToSet(ns))
    /\ \A i \in DOMAIN w.names : w.names[i] \in ToSet(ns)

\* Every name, and what depends on what is seen, is seen or still to be tried.
Asked(G, ns, w) ==
    /\ \A p \in ToSet(ns) \cap Installed(G) : Seen(w, p) \/ \E i \in DOMAIN w.names : w.names[i] = p
    /\ \A p \in Packages, q \in Installed(G) :
          Seen(w, p) /\ DependsOn(G, q, p) =>
             Seen(w, q) \/ \E k \in DOMAIN w.todo : w.todo[k] = Rev("try", q, p)

\* What is to be done before a package is emitted is about what depends on it.
Rising(G, w) ==
    \A k \in DOMAIN w.todo : w.todo[k].op = "emit" =>
        \A x \in Above(w.todo, k) :
            IF x.op = "try" THEN x.of = w.todo[k].name \/ w.todo[k].name \in Below(G, x.of)
            ELSE w.todo[k].name \in Below(G, x.name)

\* A package is emitted after what depends on it.
Preceded(G, w) ==
    /\ \A i \in DOMAIN w.results, q \in Installed(G) :
          DependsOn(G, q, w.results[i]) => \E j \in 1 .. i - 1 : w.results[j] = q
    /\ \A k \in DOMAIN w.todo : w.todo[k].op = "emit" =>
          \A q \in Installed(G) : DependsOn(G, q, w.todo[k].name) =>
             \/ q \in ToSet(w.results)
             \/ \E x \in Above(w.todo, k) : x = Rev("try", q, w.todo[k].name) \/ IsEmit(x, q)

UnloadInvariant(G, ns, w) ==
    /\ Sane(G, w) /\ Coloured(w) /\ Grounded(G, ns, w) /\ Asked(G, ns, w) /\ Rising(G, w)
    /\ Acyclic(G) => Preceded(G, w)

-----------------------------------------------------------------------------
(***************************************************************************)
(* Each step of unload_order keeps it.                                     *)
(***************************************************************************)

LEMMA RevWalkTypes ==
    ASSUME NEW w \in Walk(RevStep)
    PROVE  /\ w.color \in [Packages -> Colors] /\ w.results \in Seq(Packages)
           /\ w.names \in Seq(Packages) /\ w.todo \in Seq(RevStep)
           /\ \A k \in DOMAIN w.todo : w.todo[k] \in RevStep
<1>1. /\ w.color \in [Packages -> Colors] /\ w.results \in Seq(Packages)
      /\ w.names \in Seq(Packages) /\ w.todo \in Seq(RevStep)
  BY DEF Walk
<1>2. \A k \in DOMAIN w.todo : w.todo[k] \in RevStep
  BY <1>1
<1> QED
  BY <1>1, <1>2

LEMMA RevFacts ==
    ASSUME NEW op, NEW p, NEW q
    PROVE  Rev(op, p, q).op = op /\ Rev(op, p, q).name = p /\ Rev(op, p, q).of = q
BY DEF Rev

\* The next name is taken.
LEMMA BeginsKeeps ==
    ASSUME NEW G, IsGraph(G), NEW ns \in Seq(Packages), NEW w \in Walk(RevStep), ~Over(w),
           NEW v \in Walk(RevStep), Begins(G, w, v), UnloadInvariant(G, ns, w)
    PROVE  UnloadInvariant(G, ns, v)
<1> DEFINE p == Head(w.names)
           t == Visit(G, p)
           D == Dependents(G, ToSet(ns))
<1>1. /\ Sane(G, w) /\ Coloured(w) /\ Grounded(G, ns, w) /\ Asked(G, ns, w) /\ Rising(G, w)
      /\ Acyclic(G) => Preceded(G, w)
  BY DEF UnloadInvariant
<1>2. /\ w.todo = <<>> /\ w.names # <<>> /\ v.names = Tail(w.names)
      /\ v.color = w.color /\ v.results = w.results /\ v.error = "none" /\ v.todo = t
  BY DEF Begins
<1>3. /\ w.names \in Seq(Packages) /\ v.todo \in Seq(RevStep) /\ w.results \in Seq(Packages)
      /\ Installed(G) \subseteq Packages
  BY RevWalkTypes DEF IsGraph
<1>4. /\ Len(w.names) \in Nat \ {0} /\ p = w.names[1] /\ p \in Packages
      /\ DOMAIN v.names = 1 .. Len(w.names) - 1 /\ DOMAIN w.names = 1 .. Len(w.names)
      /\ \A i \in 1 .. Len(w.names) - 1 : v.names[i] = w.names[i + 1]
  BY <1>2, <1>3
<1>5. /\ p \notin Installed(G) => t = <<>>
      /\ p \in Installed(G) =>
            /\ Len(t) \in Nat \ {0} /\ t[1] = Rev("emit", p, p)
            /\ \A i \in 2 .. Len(t) : \E q \in Installed(G) : t[i] = Rev("try", q, p)
            /\ \A q \in Installed(G) : \E i \in 2 .. Len(t) : t[i] = Rev("try", q, p)
  BY <1>4, VisitFacts
<1>6. DOMAIN w.todo = {} /\ DOMAIN v.todo = 1 .. Len(v.todo)
  BY <1>2, <1>3
<1> HIDE DEF p, t, D
<1>7. \A k \in DOMAIN v.todo :
         /\ p \in Installed(G)
         /\ \/ k = 1 /\ v.todo[k] = Rev("emit", p, p)
            \/ k # 1 /\ \E q \in Installed(G) : v.todo[k] = Rev("try", q, p)
  <2> TAKE k \in DOMAIN v.todo
  <2>1. p \in Installed(G)
    <3>1. DOMAIN v.todo # {}
      OBVIOUS
    <3> QED
      BY <1>2, <1>5, <3>1
  <2>2. k = 1 \/ k \in 2 .. Len(t)
    BY <1>2, <1>5, <1>6, <2>1
  <2> QED
    BY <1>2, <1>5, <2>1, <2>2
<1>8. p \in Installed(G) =>
         /\ 1 \in DOMAIN v.todo /\ v.todo[1] = Rev("emit", p, p)
         /\ \A q \in Installed(G) : \E k \in DOMAIN v.todo : k # 1 /\ v.todo[k] = Rev("try", q, p)
  <2> HAVE p \in Installed(G)
  <2>1. 1 \in DOMAIN v.todo /\ \A i \in 2 .. Len(t) : i \in DOMAIN v.todo /\ i # 1
    BY <1>2, <1>5, <1>6
  <2> QED
    BY <1>2, <1>5, <2>1
<1>9. \A x : Seen(v, x) <=> Seen(w, x) \/ (x = p /\ p \in Installed(G))
  <2> TAKE x
  <2>1. (\E k \in DOMAIN v.todo : IsEmit(v.todo[k], x)) <=> (x = p /\ p \in Installed(G))
    BY <1>7, <1>8, RevFacts DEF IsEmit
  <2> QED
    BY <1>2, <1>6, <2>1 DEF Seen
<1>10. Sane(G, v)
  BY <1>2, <1>7, RevFacts DEF Sane
<1>11. Coloured(v)
  <2>1. \A k \in DOMAIN v.todo : v.todo[k].op # "blacken"
    BY <1>7, RevFacts
  <2> QED
    BY <1>1, <1>2, <1>9, <2>1 DEF Coloured
<1>12. p \in ToSet(ns)
  BY <1>1, <1>4 DEF Grounded
<1>13. p \in Installed(G) => p \in D
  BY <1>12, DependentsFacts DEF D
<1>14. Grounded(G, ns, v)
  <2>1. \A x \in Packages : Seen(v, x) => x \in D
    BY <1>1, <1>9, <1>13 DEF Grounded, D
  <2>2. \A k \in DOMAIN v.todo : v.todo[k].op = "try" => v.todo[k].of \in D
    BY <1>7, <1>13, RevFacts
  <2>3. \A i \in DOMAIN v.names : v.names[i] \in ToSet(ns)
    <3> TAKE i \in DOMAIN v.names
    <3>1. i + 1 \in DOMAIN w.names /\ v.names[i] = w.names[i + 1]
      BY <1>4
    <3> QED
      BY <1>1, <3>1 DEF Grounded
  <2> QED
    BY <2>1, <2>2, <2>3 DEF Grounded, D
<1>15. Asked(G, ns, v)
  <2>1. ASSUME NEW q \in ToSet(ns) \cap Installed(G)
        PROVE  Seen(v, q) \/ \E i \in DOMAIN v.names : v.names[i] = q
    <3>1. CASE q = p
      BY <1>9, <3>1
    <3>2. CASE Seen(w, q)
      BY <1>9, <3>2
    <3>3. CASE q # p /\ \E i \in DOMAIN w.names : w.names[i] = q
      <4>1. PICK i \in DOMAIN w.names : w.names[i] = q
        BY <3>3
      <4>2. i # 1
        BY <1>4, <3>3, <4>1
      <4>3. i - 1 \in 1 .. Len(w.names) - 1 /\ (i - 1) + 1 = i
        BY <1>4, <4>2
      <4>4. v.names[i - 1] = q /\ i - 1 \in DOMAIN v.names
        BY <1>4, <4>1, <4>3
      <4> QED
        BY <4>4
    <3> QED
      BY <1>1, <3>1, <3>2, <3>3 DEF Asked
  <2>2. ASSUME NEW x \in Packages, NEW q \in Installed(G), Seen(v, x), DependsOn(G, q, x)
        PROVE  Seen(v, q) \/ \E k \in DOMAIN v.todo : v.todo[k] = Rev("try", q, x)
    <3>1. CASE Seen(w, x)
      BY <1>1, <1>6, <1>9, <2>2, <3>1 DEF Asked
    <3>2. CASE x = p /\ p \in Installed(G)
      BY <1>8, <3>2
    <3> QED
      BY <1>9, <2>2, <3>1, <3>2
  <2> QED
    BY <2>1, <2>2 DEF Asked
<1>16. \A k \in DOMAIN v.todo : v.todo[k].op = "emit" => k = 1 /\ v.todo[k].name = p /\ p \in Installed(G)
  BY <1>7, RevFacts
<1>17. \A x \in Above(v.todo, 1) : \E q \in Installed(G) : x = Rev("try", q, p)
  <2> SUFFICES ASSUME NEW j \in 1 + 1 .. Len(v.todo)
               PROVE  \E q \in Installed(G) : v.todo[j] = Rev("try", q, p)
    BY DEF Above
  <2>1. j \in DOMAIN v.todo /\ j # 1
    BY <1>3, <1>6
  <2> QED
    BY <1>7, <2>1
<1>18. p \in Installed(G) => \A q \in Installed(G) : Rev("try", q, p) \in Above(v.todo, 1)
  <2> HAVE p \in Installed(G)
  <2> TAKE q \in Installed(G)
  <2>1. PICK k \in DOMAIN v.todo : k # 1 /\ v.todo[k] = Rev("try", q, p)
    BY <1>8
  <2>2. k \in 1 + 1 .. Len(v.todo)
    BY <1>3, <1>6, <2>1
  <2> QED
    BY <2>1, <2>2 DEF Above
<1>19. Rising(G, v)
  BY <1>16, <1>17, RevFacts DEF Rising
<1>20. ASSUME Acyclic(G)
       PROVE  Preceded(G, v)
  <2>1. \A i \in DOMAIN v.results, q \in Installed(G) :
          DependsOn(G, q, v.results[i]) => \E j \in 1 .. i - 1 : v.results[j] = q
    BY <1>1, <1>2, <1>20 DEF Preceded
  <2>2. \A k \in DOMAIN v.todo : v.todo[k].op = "emit" =>
          \A q \in Installed(G) : DependsOn(G, q, v.todo[k].name) =>
             \E x \in Above(v.todo, k) : x = Rev("try", q, v.todo[k].name)
    BY <1>16, <1>18
  <2> QED
    BY <2>1, <2>2 DEF Preceded
<1> QED
  BY <1>10, <1>11, <1>14, <1>15, <1>19, <1>20 DEF UnloadInvariant

\* A step that leaves nothing to do: a package is emitted or blackened, or a try misses.
LEMMA PopsKeep ==
    ASSUME NEW G, IsGraph(G), NEW ns \in Seq(Packages), NEW w \in Walk(RevStep), ~Over(w),
           NEW v \in Walk(RevStep), Emits(G, w, v) \/ Blackens(G, w, v) \/ Misses(G, w, v),
           UnloadInvariant(G, ns, w)
    PROVE  UnloadInvariant(G, ns, v)
<1> DEFINE n == Len(w.todo)
           s == w.todo[n]
           p == s.name
           m == Len(w.results)
           D == Dependents(G, ToSet(ns))
<1>1. /\ Sane(G, w) /\ Coloured(w) /\ Grounded(G, ns, w) /\ Asked(G, ns, w) /\ Rising(G, w)
      /\ Acyclic(G) => Preceded(G, w)
  BY DEF UnloadInvariant
<1>2. /\ w.todo # <<>> /\ v.error = "none" /\ v.names = w.names /\ v.todo = Front(w.todo)
      /\ s.op \in {"emit", "blacken", "try"}
      /\ v.results = IF s.op = "emit" THEN Append(w.results, p) ELSE w.results
      /\ v.color = IF s.op = "blacken" THEN [w.color EXCEPT ![p] = "black"] ELSE w.color
      /\ s.op = "try" => w.color[p] # "white" \/ ~DependsOn(G, p, s.of)
  BY DEF Emits, Blackens, Misses
<1>3. /\ w.color \in [Packages -> Colors] /\ w.todo \in Seq(RevStep) /\ w.results \in Seq(Packages)
      /\ v.results \in Seq(Packages)
      /\ Installed(G) \subseteq Packages
  BY RevWalkTypes DEF IsGraph
<1>4. /\ n \in Nat \ {0} /\ DOMAIN v.todo = 1 .. n - 1
      /\ Stays(w.todo, <<>>, v.todo) /\ ToSet(<<>>) = {} /\ Above(w.todo, n) = {}
  BY <1>2, <1>3, StackPop
<1>5. n \in DOMAIN w.todo /\ p \in Installed(G) /\ p \in Packages /\ s.of \in Installed(G) /\ w.todo[n] = s
  BY <1>1, <1>3, <1>4 DEF Sane
<1>6. \A k \in DOMAIN v.todo :
         /\ k \in DOMAIN w.todo /\ k # n /\ v.todo[k] = w.todo[k]
         /\ s \in Above(w.todo, k)
         /\ Above(w.todo, k) \subseteq Above(v.todo, k) \cup {s}
         /\ Above(v.todo, k) \subseteq Above(w.todo, k)
  BY <1>4 DEF Stays
<1>7. \A k \in DOMAIN w.todo : k = n \/ k \in DOMAIN v.todo
  BY <1>3, <1>4
<1>8. \A j, k \in DOMAIN w.todo : j > k => w.todo[j] \in Above(w.todo, k)
  <2> TAKE j, k \in DOMAIN w.todo
  <2>1. j > k => j \in k + 1 .. Len(w.todo)
    BY <1>3
  <2> QED
    BY <2>1 DEF Above
<1>9. \A q \in Packages : v.color[q] # "white" => w.color[q] # "white" \/ (q = p /\ s.op = "blacken")
  BY <1>2, <1>3
<1> HIDE DEF s, n, p, D
<1>10. /\ m \in Nat /\ DOMAIN w.results = 1 .. m
       /\ \A i \in 1 .. m : v.results[i] = w.results[i] /\ i \in DOMAIN v.results
       /\ s.op # "emit" => DOMAIN v.results = 1 .. m
       /\ s.op = "emit" => DOMAIN v.results = 1 .. m + 1 /\ v.results[m + 1] = p
  BY <1>2, <1>3, <1>5
<1> HIDE DEF m
<1>11. /\ \A q : q \in ToSet(w.results) => q \in ToSet(v.results)
       /\ \A q : q \in ToSet(v.results) => q \in ToSet(w.results) \/ (s.op = "emit" /\ q = p)
       /\ s.op = "emit" => p \in ToSet(v.results)
  <2>1. \A i \in DOMAIN v.results : i \in 1 .. m \/ (s.op = "emit" /\ i = m + 1)
    BY <1>10
  <2>2. s.op = "emit" => m + 1 \in DOMAIN v.results
    BY <1>10
  <2> QED
    BY <1>10, <2>1, <2>2 DEF ToSet
<1>12. \A q : Seen(v, q) <=> Seen(w, q)
  <2> TAKE q
  <2>1. \A k \in DOMAIN w.todo :
          IsEmit(w.todo[k], q) => q \in ToSet(v.results) \/ (k \in DOMAIN v.todo /\ IsEmit(v.todo[k], q))
    <3> TAKE k \in DOMAIN w.todo
    <3> HAVE IsEmit(w.todo[k], q)
    <3>1. CASE k = n
      BY <1>5, <1>11, <3>1 DEF IsEmit, p
    <3>2. CASE k \in DOMAIN v.todo
      BY <1>6, <3>2
    <3> QED
      BY <1>7, <3>1, <3>2
  <2>2. \A k \in DOMAIN v.todo : IsEmit(v.todo[k], q) => k \in DOMAIN w.todo /\ IsEmit(w.todo[k], q)
    BY <1>6
  <2>3. s.op = "emit" => Seen(w, p)
    BY <1>5 DEF Seen, IsEmit, p
  <2> QED
    BY <1>11, <2>1, <2>2, <2>3 DEF Seen
<1>13. Sane(G, v)
  BY <1>1, <1>2, <1>6 DEF Sane
<1>14. Coloured(v)
  <2>1. s.op = "blacken" => Seen(w, p)
    BY <1>1, <1>5 DEF Coloured, p
  <2>2. \A q \in Packages : v.color[q] # "white" => Seen(v, q)
    BY <1>1, <1>9, <1>12, <2>1 DEF Coloured
  <2>3. \A k \in DOMAIN v.todo : v.todo[k].op = "blacken" => Seen(v, v.todo[k].name)
    BY <1>1, <1>6, <1>12 DEF Coloured
  <2> QED
    BY <2>2, <2>3 DEF Coloured
<1>15. Grounded(G, ns, v)
  BY <1>1, <1>2, <1>6, <1>12 DEF Grounded
<1>16. s.op = "try" /\ DependsOn(G, p, s.of) => Seen(w, p)
  BY <1>1, <1>2, <1>5 DEF Coloured, p
<1>17. Asked(G, ns, v)
  <2>1. ASSUME NEW x \in Packages, NEW q \in Installed(G), Seen(v, x), DependsOn(G, q, x)
        PROVE  Seen(v, q) \/ \E k \in DOMAIN v.todo : v.todo[k] = Rev("try", q, x)
    <3>1. CASE Seen(w, q)
      BY <1>12, <3>1
    <3>2. CASE \E k \in DOMAIN w.todo : w.todo[k] = Rev("try", q, x)
      <4>1. PICK k \in DOMAIN w.todo : w.todo[k] = Rev("try", q, x)
        BY <3>2
      <4>2. CASE k = n
        <5>1. s.op = "try" /\ p = q /\ s.of = x
          BY <1>5, <4>1, <4>2, RevFacts DEF p
        <5> QED
          BY <1>12, <1>16, <2>1, <5>1
      <4>3. CASE k \in DOMAIN v.todo
        BY <1>6, <4>1, <4>3
      <4> QED
        BY <1>7, <4>2, <4>3
    <3> QED
      BY <1>1, <1>12, <2>1, <3>1, <3>2 DEF Asked
  <2>2. \A q \in ToSet(ns) \cap Installed(G) : Seen(v, q) \/ \E i \in DOMAIN v.names : v.names[i] = q
    BY <1>1, <1>2, <1>12 DEF Asked
  <2> QED
    BY <2>1, <2>2 DEF Asked
<1>18. Rising(G, v)
  BY <1>1, <1>6 DEF Rising
<1>19. ASSUME Acyclic(G)
       PROVE  Preceded(G, v)
  <2>1. /\ \A i \in DOMAIN w.results, q \in Installed(G) :
              DependsOn(G, q, w.results[i]) => \E j \in 1 .. i - 1 : w.results[j] = q
        /\ \A k \in DOMAIN w.todo : w.todo[k].op = "emit" =>
              \A q \in Installed(G) : DependsOn(G, q, w.todo[k].name) =>
                 \/ q \in ToSet(w.results)
                 \/ \E x \in Above(w.todo, k) : x = Rev("try", q, w.todo[k].name) \/ IsEmit(x, q)
    BY <1>1, <1>19 DEF Preceded
  <2>2. ASSUME NEW i \in DOMAIN v.results, NEW q \in Installed(G), DependsOn(G, q, v.results[i])
        PROVE  \E j \in 1 .. i - 1 : v.results[j] = q
    <3>1. CASE i \in 1 .. m
      <4>1. PICK j \in 1 .. i - 1 : w.results[j] = q
        BY <1>10, <2>1, <2>2, <3>1
      <4>2. j \in 1 .. m
        BY <1>10, <3>1
      <4> QED
        BY <1>10, <4>1, <4>2
    <3>2. CASE s.op = "emit" /\ i = m + 1
      <4>1. DependsOn(G, q, p)
        BY <1>10, <2>2, <3>2
      <4>2. q \in ToSet(w.results)
        BY <1>4, <1>5, <2>1, <3>2, <4>1 DEF p
      <4>3. PICK j \in 1 .. m : w.results[j] = q
        BY <1>10, <4>2 DEF ToSet
      <4>4. v.results[j] = q /\ j \in 1 .. i - 1
        BY <1>10, <3>2, <4>3
      <4> QED
        BY <4>4
    <3> QED
      BY <1>10, <2>2, <3>1, <3>2
  <2>3. ASSUME NEW k \in DOMAIN v.todo, v.todo[k].op = "emit",
               NEW q \in Installed(G), DependsOn(G, q, v.todo[k].name)
        PROVE  \/ q \in ToSet(v.results)
               \/ \E x \in Above(v.todo, k) : x = Rev("try", q, v.todo[k].name) \/ IsEmit(x, q)
    <3> DEFINE a == v.todo[k].name
    <3>1. k \in DOMAIN w.todo /\ w.todo[k] = v.todo[k] /\ a \in Installed(G)
      BY <1>1, <1>6 DEF Sane
    <3>2. CASE q \in ToSet(w.results)
      BY <1>11, <3>2
    <3>3. CASE \E x \in Above(w.todo, k) : x = Rev("try", q, a) \/ IsEmit(x, q)
      <4>1. PICK x \in Above(w.todo, k) : x = Rev("try", q, a) \/ IsEmit(x, q)
        BY <3>3
      <4>2. CASE x # s
        BY <1>6, <4>1, <4>2
      <4>3. CASE x = s /\ IsEmit(x, q)
        BY <1>11, <4>3 DEF IsEmit, p
      <4>4. CASE x = s /\ x = Rev("try", q, a)
        <5>1. s.op = "try" /\ p = q /\ s.of = a
          BY <4>4, RevFacts DEF p
        <5>2. Seen(w, q)
          BY <1>16, <2>3, <5>1
        <5>3. ASSUME NEW j \in DOMAIN w.todo, IsEmit(w.todo[j], q)
              PROVE  \E y \in Above(v.todo, k) : IsEmit(y, q)
          <6>1. CASE j > k
            <7>1. w.todo[j] \in Above(w.todo, k)
              BY <1>8, <3>1, <6>1
            <7>2. w.todo[j] # s
              BY <5>1, <5>3 DEF IsEmit
            <7> QED
              BY <1>6, <5>3, <7>1, <7>2
          <6>2. CASE j = k
            <7>1. q = a
              BY <3>1, <5>3, <6>2 DEF IsEmit
            <7>2. q \in Below(G, q)
              BY <2>3, <7>1, BelowFacts
            <7> QED
              BY <1>19, <7>2 DEF Acyclic
          <6>3. CASE k > j
            <7>1. w.todo[k] \in Above(w.todo, j)
              BY <1>8, <3>1, <6>3
            <7>2. q \in Below(G, a)
              BY <1>1, <2>3, <3>1, <5>3, <7>1 DEF Rising, IsEmit
            <7>3. a \in Below(G, q)
              BY <2>3, <3>1, BelowFacts
            <7>4. q \in Below(G, q)
              BY <3>1, <7>2, <7>3, BelowFacts
            <7> QED
              BY <1>19, <7>4 DEF Acyclic
          <6> QED
            BY <1>3, <3>1, <6>1, <6>2, <6>3
        <5> QED
          BY <1>11, <5>2, <5>3 DEF Seen
      <4> QED
        BY <4>1, <4>2, <4>3, <4>4
    <3> QED
      BY <2>1, <2>3, <3>1, <3>2, <3>3
  <2> QED
    BY <2>2, <2>3 DEF Preceded
<1> QED
  BY <1>13, <1>14, <1>15, <1>17, <1>18, <1>19 DEF UnloadInvariant

\* A dependent is found: it is gray, and is to be emitted after what depends on it.
LEMMA FindsKeeps ==
    ASSUME NEW G, IsGraph(G), NEW ns \in Seq(Packages), NEW w \in Walk(RevStep), ~Over(w),
           NEW v \in Walk(RevStep), Finds(G, w, v), UnloadInvariant(G, ns, w)
    PROVE  UnloadInvariant(G, ns, v)
<1> DEFINE n == Len(w.todo)
           s == w.todo[n]
           p == s.name
           t == Finding(G, s)
           D == Dependents(G, ToSet(ns))
<1>1. /\ Sane(G, w) /\ Coloured(w) /\ Grounded(G, ns, w) /\ Asked(G, ns, w) /\ Rising(G, w)
      /\ Acyclic(G) => Preceded(G, w)
  BY DEF UnloadInvariant
<1>2. /\ w.todo # <<>> /\ v.error = "none" /\ v.names = w.names /\ v.todo = Front(w.todo) \o t
      /\ s.op = "try" /\ w.color[p] = "white" /\ DependsOn(G, p, s.of)
      /\ v.results = w.results /\ v.color = [w.color EXCEPT ![p] = "gray"]
  BY DEF Finds
<1>3. /\ w.color \in [Packages -> Colors] /\ w.todo \in Seq(RevStep) /\ w.results \in Seq(Packages)
      /\ v.todo \in Seq(RevStep) /\ Installed(G) \subseteq Packages
      /\ \A k \in DOMAIN w.todo : w.todo[k] \in RevStep
  BY RevWalkTypes DEF IsGraph
<1>4. n \in DOMAIN w.todo /\ s \in RevStep /\ p \in Installed(G) /\ s.of \in Installed(G)
  <2>1. n \in DOMAIN w.todo
    BY <1>2, <1>3
  <2> QED
    BY <1>1, <1>3, <2>1 DEF Sane
<1>5. /\ t \in Seq(RevStep) /\ Len(t) \in Nat /\ Len(t) >= 2
      /\ t[1] = Rev("blacken", p, s.of) /\ t[2] = Rev("emit", p, p)
      /\ \A i \in 3 .. Len(t) : \E q \in Installed(G) : t[i] = Rev("try", q, p)
      /\ \A q \in Installed(G) : \E i \in 3 .. Len(t) : t[i] = Rev("try", q, p)
  <2> HIDE DEF s
  <2> QED
    BY <1>4, FindingFacts
<1>6. DOMAIN t = 1 .. Len(t)
  BY <1>5
<1> HIDE DEF t
<1>7. \A r \in Seq(RevStep) : r = Front(w.todo) \o t =>
         /\ n \in Nat \ {0} /\ Len(r) = n - 1 + Len(t)
         /\ Stays(w.todo, t, r) /\ Comes(w.todo, t, r) /\ Above(w.todo, n) = {}
  BY <1>2, <1>3, <1>5, StackStep, ZenonT(30)
<1>8. /\ n \in Nat \ {0} /\ Len(v.todo) = n - 1 + Len(t)
      /\ Stays(w.todo, t, v.todo) /\ Comes(w.todo, t, v.todo)
      /\ DOMAIN v.todo = 1 .. n - 1 + Len(t) /\ DOMAIN w.todo = 1 .. n
  <2>1. n \in Nat \ {0} /\ Len(v.todo) = n - 1 + Len(t)
    BY <1>2, <1>3, <1>7, ZenonT(30)
  <2>2. Stays(w.todo, t, v.todo) /\ Comes(w.todo, t, v.todo)
    BY <1>2, <1>3, <1>7, ZenonT(30)
  <2>3. DOMAIN v.todo = 1 .. Len(v.todo) /\ DOMAIN w.todo = 1 .. n
    BY <1>3
  <2> QED
    BY <2>1, <2>2, <2>3
<1> HIDE DEF s, n
\* What is left to do: as before below n, then the package found, and the tries for it.
<1>9. \A k \in 1 .. n - 1 :
         /\ k \in DOMAIN w.todo /\ k \in DOMAIN v.todo /\ v.todo[k] = w.todo[k]
         /\ s \in Above(w.todo, k) /\ Above(w.todo, k) \subseteq Above(v.todo, k) \cup {s}
         /\ Above(v.todo, k) \subseteq Above(w.todo, k) \cup ToSet(t)
         /\ ToSet(t) \subseteq Above(v.todo, k)
  BY <1>5, <1>8 DEF Stays, n, s
<1>10. /\ n \in DOMAIN v.todo /\ n + 1 \in DOMAIN v.todo
       /\ v.todo[n] = Rev("blacken", p, s.of) /\ v.todo[n + 1] = Rev("emit", p, p)
       /\ w.todo[n] = s /\ \A k \in DOMAIN w.todo : k = n \/ k \in 1 .. n - 1
  <2>1. /\ n \in n .. Len(v.todo) /\ n - n + 1 = 1 /\ n \in DOMAIN v.todo
        /\ n + 1 \in n .. Len(v.todo) /\ (n + 1) - n + 1 = 2 /\ n + 1 \in DOMAIN v.todo
        /\ \A k \in DOMAIN w.todo : k = n \/ k \in 1 .. n - 1
    BY <1>5, <1>8
  <2>2. v.todo[n] = t[n - n + 1] /\ v.todo[n + 1] = t[(n + 1) - n + 1]
    BY <1>8, <2>1 DEF Comes, n
  <2> QED
    BY <1>5, <2>1, <2>2 DEF s
<1>11. \A k \in DOMAIN v.todo : k \notin 1 .. n - 1 /\ k # n /\ k # n + 1 =>
          \E q \in Installed(G) : v.todo[k] = Rev("try", q, p)
  <2> TAKE k \in DOMAIN v.todo
  <2> HAVE k \notin 1 .. n - 1 /\ k # n /\ k # n + 1
  <2>1. k \in n .. Len(v.todo) /\ k - n + 1 \in 3 .. Len(t)
    BY <1>5, <1>8, SMTT(30)
  <2>2. v.todo[k] = t[k - n + 1]
    BY <1>8, <2>1 DEF Comes, n
  <2> QED
    BY <1>5, <2>1, <2>2
<1>12. /\ \A q \in Installed(G) : Rev("try", q, p) \in Above(v.todo, n + 1)
       /\ \A x \in Above(v.todo, n + 1) : \E q \in Installed(G) : x = Rev("try", q, p)
  <2>1. n + 1 \in n .. Len(v.todo) /\ (n + 1) - n + 2 = 3
    BY <1>5, <1>8
  <2>2. Above(v.todo, n + 1) = {t[i] : i \in (n + 1) - n + 2 .. Len(t)}
    BY <1>8, <2>1 DEF Comes, n
  <2> QED
    BY <1>5, <2>1, <2>2
<1>13. /\ Rev("emit", p, p) \in ToSet(t)
       /\ \A x \in ToSet(t) : \/ x = Rev("blacken", p, s.of) \/ x = Rev("emit", p, p)
                              \/ \E q \in Installed(G) : x = Rev("try", q, p)
  <2>1. /\ \A i \in DOMAIN t : i = 1 \/ i = 2 \/ i \in 3 .. Len(t)
        /\ 2 \in DOMAIN t
    BY <1>5, <1>6
  <2> QED
    BY <1>5, <2>1 DEF ToSet
<1>14. \A q \in Packages : v.color[q] = IF q = p THEN "gray" ELSE w.color[q]
  BY <1>2, <1>3
<1>15. s.op = "try" /\ DependsOn(G, p, s.of) /\ p = s.name
  BY <1>2
<1> HIDE DEF p, D
<1>16. \A x : Seen(v, x) <=> Seen(w, x) \/ x = p
  <2> TAKE x
  <2>1. \A k \in DOMAIN w.todo : IsEmit(w.todo[k], x) => k \in DOMAIN v.todo /\ IsEmit(v.todo[k], x)
    BY <1>9, <1>10, <1>15 DEF IsEmit
  <2>2. \A k \in DOMAIN v.todo : IsEmit(v.todo[k], x) =>
           x = p \/ (k \in DOMAIN w.todo /\ IsEmit(w.todo[k], x))
    <3> TAKE k \in DOMAIN v.todo
    <3> HAVE IsEmit(v.todo[k], x)
    <3>1. CASE k \in 1 .. n - 1
      BY <1>9, <3>1
    <3>2. CASE k = n \/ k = n + 1
      BY <1>10, <3>2, RevFacts DEF IsEmit
    <3>3. CASE k \notin 1 .. n - 1 /\ k # n /\ k # n + 1
      BY <1>11, <3>3, RevFacts DEF IsEmit
    <3> QED
      BY <3>1, <3>2, <3>3
  <2>3. \E k \in DOMAIN v.todo : IsEmit(v.todo[k], p)
    BY <1>10, RevFacts DEF IsEmit
  <2> QED
    BY <1>2, <2>1, <2>2, <2>3 DEF Seen
<1>17. Sane(G, v)
  <2> SUFFICES ASSUME NEW k \in DOMAIN v.todo
               PROVE  v.todo[k].name \in Installed(G) /\ v.todo[k].of \in Installed(G)
    BY <1>2 DEF Sane
  <2>1. CASE k \in 1 .. n - 1
    BY <1>1, <1>9, <2>1 DEF Sane
  <2>2. CASE k = n \/ k = n + 1
    BY <1>4, <1>10, <1>15, <2>2, RevFacts
  <2>3. CASE k \notin 1 .. n - 1 /\ k # n /\ k # n + 1
    BY <1>4, <1>11, <1>15, <2>3, RevFacts
  <2> QED
    BY <2>1, <2>2, <2>3
<1>18. Coloured(v)
  <2>1. \A q \in Packages : v.color[q] # "white" => Seen(v, q)
    BY <1>1, <1>14, <1>16 DEF Coloured
  <2>2. ASSUME NEW k \in DOMAIN v.todo, v.todo[k].op = "blacken"
        PROVE  Seen(v, v.todo[k].name)
    <3>1. CASE k \in 1 .. n - 1
      BY <1>1, <1>9, <1>16, <2>2, <3>1 DEF Coloured
    <3>2. CASE k = n \/ k = n + 1
      BY <1>10, <1>16, <3>2, RevFacts
    <3>3. CASE k \notin 1 .. n - 1 /\ k # n /\ k # n + 1
      BY <1>11, <2>2, <3>3, RevFacts
    <3> QED
      BY <3>1, <3>2, <3>3
  <2> QED
    BY <2>1, <2>2 DEF Coloured
<1>19. Grounded(G, ns, v)
  <2>1. s.of \in D /\ DependentsWithin(G, D)
    BY <1>1, <1>4, <1>10, <1>15, DependentsFacts DEF Grounded, D
  <2>2. p \in D
    BY <1>4, <1>15, <2>1 DEF DependentsWithin
  <2>3. \A x \in Packages : Seen(v, x) => x \in D
    BY <1>1, <1>16, <2>2 DEF Grounded, D
  <2>4. ASSUME NEW k \in DOMAIN v.todo, v.todo[k].op = "try"
        PROVE  v.todo[k].of \in D
    <3>1. CASE k \in 1 .. n - 1
      BY <1>1, <1>9, <2>4, <3>1 DEF Grounded, D
    <3>2. CASE k = n \/ k = n + 1
      BY <1>10, <2>4, <3>2, RevFacts
    <3>3. CASE k \notin 1 .. n - 1 /\ k # n /\ k # n + 1
      BY <1>11, <2>2, <3>3, RevFacts
    <3> QED
      BY <3>1, <3>2, <3>3
  <2>5. \A i \in DOMAIN v.names : v.names[i] \in ToSet(ns)
    BY <1>1, <1>2 DEF Grounded
  <2> QED
    BY <2>3, <2>4, <2>5 DEF Grounded, D
<1>20. Asked(G, ns, v)
  <2>1. ASSUME NEW x \in Packages, NEW q \in Installed(G), Seen(v, x), DependsOn(G, q, x)
        PROVE  Seen(v, q) \/ \E k \in DOMAIN v.todo : v.todo[k] = Rev("try", q, x)
    <3>1. CASE x = p
      <4>1. Rev("try", q, p) \in Above(v.todo, n + 1)
        BY <1>12
      <4>2. PICK k \in (n + 1) + 1 .. Len(v.todo) : v.todo[k] = Rev("try", q, p)
        BY <4>1 DEF Above
      <4>3. k \in DOMAIN v.todo
        BY <1>5, <1>8
      <4> QED
        BY <3>1, <4>2, <4>3
    <3>2. CASE Seen(w, x) /\ ~Seen(w, q)
      <4>1. PICK k \in DOMAIN w.todo : w.todo[k] = Rev("try", q, x)
        BY <1>1, <2>1, <3>2 DEF Asked
      <4>2. CASE k = n
        BY <1>10, <1>15, <1>16, <4>1, <4>2, RevFacts
      <4>3. CASE k \in 1 .. n - 1
        BY <1>9, <4>1, <4>3
      <4> QED
        BY <1>10, <4>2, <4>3
    <3> QED
      BY <1>16, <2>1, <3>1, <3>2
  <2>2. \A q \in ToSet(ns) \cap Installed(G) : Seen(v, q) \/ \E i \in DOMAIN v.names : v.names[i] = q
    BY <1>1, <1>2, <1>16 DEF Asked
  <2> QED
    BY <2>1, <2>2 DEF Asked
<1>21. \A k \in DOMAIN v.todo : v.todo[k].op = "emit" =>
          \/ k \in 1 .. n - 1 /\ w.todo[k].op = "emit" /\ v.todo[k].name = w.todo[k].name
          \/ k = n + 1 /\ v.todo[k].name = p
  <2> TAKE k \in DOMAIN v.todo
  <2> HAVE v.todo[k].op = "emit"
  <2>1. CASE k \in 1 .. n - 1
    BY <1>9, <2>1
  <2>2. CASE k = n \/ k = n + 1
    BY <1>10, <2>2, RevFacts
  <2>3. CASE k \notin 1 .. n - 1 /\ k # n /\ k # n + 1
    BY <1>11, <2>3, RevFacts
  <2> QED
    BY <2>1, <2>2, <2>3
<1>22. Rising(G, v)
  <2> SUFFICES ASSUME NEW k \in DOMAIN v.todo, v.todo[k].op = "emit", NEW x \in Above(v.todo, k)
               PROVE  IF x.op = "try" THEN x.of = v.todo[k].name \/ v.todo[k].name \in Below(G, x.of)
                      ELSE v.todo[k].name \in Below(G, x.name)
    BY DEF Rising
  <2>1. CASE k \in 1 .. n - 1
    <3> DEFINE a == v.todo[k].name
    <3>1. /\ k \in DOMAIN w.todo /\ w.todo[k].op = "emit" /\ w.todo[k].name = a /\ s \in Above(w.todo, k)
          /\ a \in Installed(G)
      BY <1>1, <1>9, <2>1 DEF Sane
    <3>2. \A y \in Above(w.todo, k) :
             IF y.op = "try" THEN y.of = a \/ a \in Below(G, y.of) ELSE a \in Below(G, y.name)
      BY <1>1, <3>1 DEF Rising
    <3>3. s.of = a \/ a \in Below(G, s.of)
      BY <1>15, <3>1, <3>2
    <3>4. s.of \in Below(G, p) /\ Below(G, s.of) \subseteq Below(G, p)
      BY <1>4, <1>15, BelowFacts
    <3>5. a \in Below(G, p)
      BY <3>3, <3>4
    <3>6. x \in Above(w.todo, k) \/ x \in ToSet(t)
      BY <1>9, <2>1
    <3> HIDE DEF a
    <3>7. IF x.op = "try" THEN x.of = a \/ a \in Below(G, x.of) ELSE a \in Below(G, x.name)
      BY <1>13, <3>2, <3>5, <3>6, RevFacts
    <3> QED
      BY <3>7 DEF a
  <2>2. CASE k = n + 1 /\ v.todo[k].name = p
    BY <1>12, <2>2, RevFacts
  <2> QED
    BY <1>21, <2>1, <2>2
<1>23. ASSUME Acyclic(G)
       PROVE  Preceded(G, v)
  <2>1. /\ \A i \in DOMAIN w.results, q \in Installed(G) :
              DependsOn(G, q, w.results[i]) => \E j \in 1 .. i - 1 : w.results[j] = q
        /\ \A k \in DOMAIN w.todo : w.todo[k].op = "emit" =>
              \A q \in Installed(G) : DependsOn(G, q, w.todo[k].name) =>
                 \/ q \in ToSet(w.results)
                 \/ \E x \in Above(w.todo, k) : x = Rev("try", q, w.todo[k].name) \/ IsEmit(x, q)
    BY <1>1, <1>23 DEF Preceded
  <2>2. ASSUME NEW k \in DOMAIN v.todo, v.todo[k].op = "emit",
               NEW q \in Installed(G), DependsOn(G, q, v.todo[k].name)
        PROVE  \/ q \in ToSet(w.results)
               \/ \E x \in Above(v.todo, k) : x = Rev("try", q, v.todo[k].name) \/ IsEmit(x, q)
    <3>1. CASE k \in 1 .. n - 1
      <4> DEFINE a == v.todo[k].name
      <4>1. CASE q \in ToSet(w.results)
        BY <4>1
      <4>2. CASE \E x \in Above(w.todo, k) : x = Rev("try", q, a) \/ IsEmit(x, q)
        <5>1. PICK x \in Above(w.todo, k) : x = Rev("try", q, a) \/ IsEmit(x, q)
          BY <4>2
        <5>2. CASE x # s
          BY <1>9, <3>1, <5>1, <5>2
        <5>3. CASE x = s
          <6>1. q = p
            BY <1>15, <5>1, <5>3, RevFacts DEF IsEmit
          <6>2. Rev("emit", p, p) \in Above(v.todo, k) /\ IsEmit(Rev("emit", p, p), q)
            BY <1>9, <1>13, <3>1, <6>1, RevFacts DEF IsEmit
          <6> QED
            BY <6>2
        <5> QED
          BY <5>2, <5>3
      <4> QED
        BY <1>9, <2>1, <2>2, <3>1, <4>1, <4>2
    <3>2. CASE k = n + 1 /\ v.todo[k].name = p
      BY <1>12, <3>2
    <3> QED
      BY <1>21, <2>2, <3>1, <3>2
  <2>3. v.results = w.results
    BY <1>2
  <2>4. \A i \in DOMAIN v.results, q \in Installed(G) :
           DependsOn(G, q, v.results[i]) => \E j \in 1 .. i - 1 : v.results[j] = q
    <3> DEFINE r == w.results
    <3>1. \A i \in DOMAIN r, q \in Installed(G) :
             DependsOn(G, q, r[i]) => \E j \in 1 .. i - 1 : r[j] = q
      BY <2>1
    <3>2. v.results = r
      BY <2>3
    <3> HIDE DEF r
    <3> QED
      BY <3>1, <3>2
  <2> QED
    BY <2>2, <2>3, <2>4 DEF Preceded
<1> QED
  BY <1>17, <1>18, <1>19, <1>20, <1>22, <1>23 DEF UnloadInvariant

-----------------------------------------------------------------------------
(***************************************************************************)
(* unload_order comes to its end, and what it answers is right.            *)
(***************************************************************************)

\* Every step paints a white vertex, or takes a name or a step away.
LEMMA UnloadShrinks ==
    ASSUME NEW G, IsGraph(G), NEW w \in Walk(RevStep), ~Over(w), NEW v \in Walk(RevStep),
           Begins(G, w, v) \/ Emits(G, w, v) \/ Blackens(G, w, v) \/ Misses(G, w, v) \/ Finds(G, w, v)
    PROVE  Smaller(v, w)
<1>1. /\ w.color \in [Packages -> Colors] /\ w.todo \in Seq(RevStep) /\ w.names \in Seq(Packages)
      /\ \A k \in DOMAIN w.todo : w.todo[k] \in RevStep
  BY RevWalkTypes
<1>2. w.todo # <<>> =>
         /\ Len(w.todo) \in Nat \ {0} /\ Len(Front(w.todo)) = Len(w.todo) - 1
         /\ Len(w.todo) \in DOMAIN w.todo
  BY <1>1, Stacks
<1>3. \A u : u.color = w.color => Whites(u) = Whites(w)
  BY DEF Whites
<1>4. CASE Begins(G, w, v)
  <2>1. Len(w.names) \in Nat \ {0} /\ Len(Tail(w.names)) = Len(w.names) - 1
    BY <1>1, <1>4 DEF Begins
  <2> QED
    BY <1>3, <1>4, <2>1 DEF Begins, Smaller
<1>5. CASE Emits(G, w, v)
  BY <1>2, <1>3, <1>5 DEF Emits, Smaller
<1>6. CASE Misses(G, w, v)
  BY <1>2, <1>3, <1>6 DEF Misses, Smaller
<1>7. CASE Blackens(G, w, v)
  <2>1. Whites(v) \subseteq Whites(w)
    BY <1>1, <1>7 DEF Blackens, Whites
  <2>2. Cardinality(Whites(v)) \in Nat /\ Cardinality(Whites(w)) \in Nat
        /\ Cardinality(Whites(v)) <= Cardinality(Whites(w))
    BY <2>1, WhitesFinite, WhitesShrink
  <2>3. Len(v.names) = Len(w.names) /\ Len(v.todo) < Len(w.todo)
    BY <1>2, <1>7 DEF Blackens
  <2> QED
    BY <2>2, <2>3 DEF Smaller
<1>8. CASE Finds(G, w, v)
  <2> DEFINE p == w.todo[Len(w.todo)].name
  <2>1. /\ p \in Packages /\ w.color[p] = "white" /\ v.color = [w.color EXCEPT ![p] = "gray"]
    BY <1>1, <1>2, <1>8 DEF Finds, RevStep
  <2> HIDE DEF p
  <2>2. \A q \in Packages : v.color[q] = IF q = p THEN "gray" ELSE w.color[q]
    BY <1>1, <2>1
  <2>3. Whites(v) \subseteq Whites(w) /\ p \in Whites(w) /\ p \notin Whites(v)
    BY <2>1, <2>2 DEF Whites
  <2> QED
    BY <2>3, WhitesShrink DEF Smaller
<1> QED
  BY <1>4, <1>5, <1>6, <1>7, <1>8

LEMMA UnloadKeeps ==
    ASSUME NEW G, IsGraph(G), NEW ns \in Seq(Packages), NEW w \in Walk(RevStep), ~Over(w),
           UnloadInvariant(G, ns, w)
    PROVE  /\ UnloadStep(G, w) \in Walk(RevStep) /\ UnloadInvariant(G, ns, UnloadStep(G, w))
           /\ Smaller(UnloadStep(G, w), w)
<1> DEFINE v == UnloadStep(G, w)
<1>1. /\ v \in Walk(RevStep)
      /\ Begins(G, w, v) \/ Emits(G, w, v) \/ Blackens(G, w, v) \/ Misses(G, w, v) \/ Finds(G, w, v)
  BY UnloadSteps
<1> HIDE DEF v
<1>2. Smaller(v, w)
  BY <1>1, UnloadShrinks
<1>3. UnloadInvariant(G, ns, v)
  <2>1. CASE Begins(G, w, v)
    BY <1>1, <2>1, BeginsKeeps
  <2>2. CASE Emits(G, w, v) \/ Blackens(G, w, v) \/ Misses(G, w, v)
    BY <1>1, <2>2, PopsKeep
  <2>3. CASE Finds(G, w, v)
    BY <1>1, <2>3, FindsKeeps
  <2> QED
    BY <1>1, <2>1, <2>2, <2>3
<1> QED
  BY <1>1, <1>2, <1>3 DEF v

LEMMA UnloadStarts ==
    ASSUME NEW G, IsGraph(G), NEW ns \in Seq(Packages)
    PROVE  Start(ns) \in Walk(RevStep) /\ UnloadInvariant(G, ns, Start(ns))
<1> DEFINE w == Start(ns)
<1>1. /\ w \in Walk(RevStep) /\ w.error = "none" /\ w.names = ns /\ w.todo = <<>> /\ w.results = <<>>
      /\ \A p \in Packages : w.color[p] = "white"
  BY StartFacts
<1> HIDE DEF w
<1>2. DOMAIN w.todo = {} /\ DOMAIN w.results = {}
  BY <1>1
<1>3. \A p : ~Seen(w, p)
  BY <1>2 DEF Seen, ToSet
<1>4. Sane(G, w) /\ Coloured(w) /\ Rising(G, w) /\ Preceded(G, w)
  BY <1>1, <1>2 DEF Sane, Coloured, Rising, Preceded
<1>5. Grounded(G, ns, w) /\ Asked(G, ns, w)
  BY <1>1, <1>2, <1>3 DEF Grounded, Asked, ToSet
<1> QED
  BY <1>1, <1>4, <1>5 DEF UnloadInvariant, w

\* unload_order comes to its end for any graph, with cycles or without, and any names.
THEOREM UnloadEnds ==
    ASSUME NEW G, IsGraph(G), NEW ns \in Seq(Packages)
    PROVE  \E w \in Walk(RevStep) :
               Over(w) /\ UnloadInvariant(G, ns, w) /\ UnloadOrder(G, ns) = w.results
<1> DEFINE S == Walk(RevStep)
           I == {w \in S : UnloadInvariant(G, ns, w)}
           F == [w \in S |-> IF Over(w) THEN w ELSE UnloadStep(G, w)]
           Body(f) == [walk \in Walk(RevStep) |-> IF Over(walk) THEN walk ELSE f[UnloadStep(G, walk)]]
           g == CHOOSE f : f = Body(f)
<1>1. F \in [S -> S] /\ I \in SUBSET S
  BY UnloadSteps
<1>2. \A w \in I : ~Over(w) => F[w] \in I /\ Smaller(F[w], w)
  BY UnloadKeeps
<1>3. UnloadOrder(G, ns) = g[Start(ns)].results
  BY DEF UnloadOrder
<1>4. \A f : [w \in S |-> IF Over(w) THEN w ELSE f[F[w]]] = Body(f)
  OBVIOUS
<1>5. Start(ns) \in I
  BY UnloadStarts
<1> HIDE DEF F, I, Body
<1>6. /\ \E f : f = [w \in S |-> IF Over(w) THEN w ELSE f[F[w]]]
      /\ \A f : f = [w \in S |-> IF Over(w) THEN w ELSE f[F[w]]]
                   => \A w \in I : f[w] \in I /\ Over(f[w])
  BY <1>1, <1>2, WalkEnds
<1>7. g = Body(g)
  BY <1>4, <1>6
<1>8. \A w \in I : g[w] \in I /\ Over(g[w])
  <2> HIDE DEF g
  <2> QED
    BY <1>4, <1>6, <1>7
<1> QED
  BY <1>3, <1>5, <1>8 DEF I

\* What is known of the walk at its end makes its results an order to unload in.
LEMMA UnloadOrderIsSound ==
    ASSUME NEW G, IsGraph(G), NEW ns \in Seq(Packages)
    PROVE  LET order == UnloadOrder(G, ns) IN
           /\ order \in Seq(Packages)
           /\ ToSet(order) = Dependents(G, ToSet(ns))
           /\ Acyclic(G) =>
                 \A p, q \in ToSet(order) :
                     DependsOn(G, p, q) => FirstAt(order, p) <= FirstAt(order, q)
<1>1. PICK w \in Walk(RevStep) :
          Over(w) /\ UnloadInvariant(G, ns, w) /\ UnloadOrder(G, ns) = w.results
  BY UnloadEnds
<1> DEFINE r == w.results
           D == Dependents(G, ToSet(ns))
<1>2. /\ Sane(G, w) /\ Coloured(w) /\ Grounded(G, ns, w) /\ Asked(G, ns, w)
      /\ Acyclic(G) => Preceded(G, w)
      /\ DOMAIN w.todo = {} /\ DOMAIN w.names = {}
  BY <1>1 DEF UnloadInvariant, Over, Sane
<1>3. r \in Seq(Packages) /\ ToSet(r) \subseteq Packages /\ Installed(G) \subseteq Packages
      /\ DOMAIN r = 1 .. Len(r) /\ Len(r) \in Nat
  <2>1. r \in Seq(Packages)
    BY <1>1, RevWalkTypes
  <2> QED
    BY <2>1 DEF IsGraph, ToSet
<1>4. \A p : Seen(w, p) <=> p \in ToSet(r)
  BY <1>2 DEF Seen
<1> HIDE DEF r, D
<1>5. ToSet(r) \subseteq D
  BY <1>2, <1>3, <1>4 DEF Grounded, D
<1>6. D \subseteq ToSet(r)
  <2>1. D \subseteq Installed(G)
    BY DependentsFacts DEF D
  <2>2. ToSet(r) \in SUBSET Installed(G) /\ ToSet(ns) \cap Installed(G) \subseteq ToSet(r)
    BY <1>2, <1>4, <1>5, <2>1 DEF Asked
  <2>3. DependentsWithin(G, ToSet(r))
    BY <1>2, <1>3, <1>4 DEF Asked, DependentsWithin
  <2> QED
    BY <2>2, <2>3, DependentsFacts DEF D
<1>7. ASSUME NEW p \in ToSet(r)
      PROVE  /\ FirstAt(r, p) \in DOMAIN r /\ r[FirstAt(r, p)] = p
             /\ \A i \in DOMAIN r : r[i] = p => FirstAt(r, p) <= i
  <2> DEFINE P == {i \in DOMAIN r : r[i] = p}
  <2>1. P \in SUBSET Nat /\ P # {}
    BY <1>3 DEF ToSet
  <2>2. PICK n \in P : \A i \in P : n <= i
    BY <2>1, LeastNumber
  <2>3. n \in DOMAIN r /\ r[n] = p /\ \A j \in 1 .. n - 1 : r[j] # p
    <3>1. \A j \in 1 .. n - 1 : j \in DOMAIN r /\ ~ (n <= j)
      BY <1>3, <2>2
    <3> QED
      BY <2>2, <3>1
  <2>4. \E i \in DOMAIN r : r[i] = p /\ \A j \in 1 .. i - 1 : r[j] # p
    BY <2>3
  <2> DEFINE m == FirstAt(r, p)
  <2>5. m \in DOMAIN r /\ r[m] = p /\ \A j \in 1 .. m - 1 : r[j] # p
    BY <2>4 DEF FirstAt
  <2> HIDE DEF m
  <2>6. ASSUME NEW i \in DOMAIN r, r[i] = p
        PROVE  m <= i
    <3>1. i \notin 1 .. m - 1
      BY <2>5, <2>6
    <3> QED
      BY <1>3, <2>5, <3>1
  <2> QED
    BY <2>5, <2>6 DEF m
<1>8. ASSUME Acyclic(G), NEW p \in ToSet(r), NEW q \in ToSet(r), DependsOn(G, p, q)
      PROVE  FirstAt(r, p) <= FirstAt(r, q)
  <2> DEFINE i == FirstAt(r, q)
             k == FirstAt(r, p)
  <2>1. i \in DOMAIN r /\ r[i] = q /\ k \in DOMAIN r /\ \A j \in DOMAIN r : r[j] = p => k <= j
    BY <1>7
  <2> HIDE DEF i, k
  <2>2. p \in Installed(G)
    BY <1>5, DependentsFacts DEF D
  <2>3. PICK j \in 1 .. i - 1 : r[j] = p
    BY <1>2, <1>8, <2>1, <2>2 DEF Preceded, r
  <2>4. j \in DOMAIN r /\ j <= i
    BY <1>3, <2>1
  <2> QED
    BY <1>3, <2>1, <2>3, <2>4 DEF i, k
<1> QED
  BY <1>1, <1>3, <1>5, <1>6, <1>8 DEF r, D

LEMMA OrdersTyped ==
    ASSUME OrdersInit
    PROVE  IsGraph(given) /\ names \in Seq(Packages)
BY PackageOrdersAssumption DEF OrdersInit

\* For any graph and any names, load_order fails for a reason it gives, or lists
\* what the names lead to, each package once and after what it requires, all of
\* it installed (package_manager.cpp, load_order_impl and topological_sort).
THEOREM LoadOrderSoundHolds == OrdersSpec => []LoadOrderSound
<1>1. OrdersInit => LoadOrderSound
  BY OrdersTyped, LoadOrderIsSound DEF LoadOrderSound, Loads
<1>2. LoadOrderSound /\ [OrdersNext]_<<given, names>> => LoadOrderSound'
  BY DEF OrdersNext, LoadOrderSound, Loads
<1> QED
  BY <1>1, <1>2, PTL DEF OrdersSpec

\* For any graph and any names, unload_order lists what depends on the names, and
\* without cycles a package not before one that depends on it
\* (package_manager.cpp, unload_order_impl and reverse_topological_sort).
THEOREM UnloadOrderSoundHolds == OrdersSpec => []UnloadOrderSound
<1>1. OrdersInit => UnloadOrderSound
  BY OrdersTyped, UnloadOrderIsSound DEF UnloadOrderSound, Unloads
<1>2. UnloadOrderSound /\ [OrdersNext]_<<given, names>> => UnloadOrderSound'
  BY DEF OrdersNext, UnloadOrderSound, Unloads
<1> QED
  BY <1>1, <1>2, PTL DEF OrdersSpec

-----------------------------------------------------------------------------
(***************************************************************************)
(* What a package needs, in any graph                                      *)
(***************************************************************************)

\* Needs, of a graph and the kinds of the packages.
NeededWithin(G, K, p, S) ==
    \A r \in {p} \cup {l \in S : K[l] = "library"}, q \in Installed(G) :
        r \in Installed(G) /\ Requires(G, r, q) => q \in S
NeededBy(G, K, p) ==
    {q \in Installed(G) : /\ K[q] # "library"
                          /\ \A S \in SUBSET Installed(G) : NeededWithin(G, K, p, S) => q \in S}

LEMMA RequiredDepends ==
    ASSUME NEW G, NEW p, NEW q, Requires(G, p, q)
    PROVE  DependsOn(G, p, q)
<1>1. PICK d \in DOMAIN G[p] : G[p][d] = [name |-> q, required |-> TRUE]
  BY DEF Requires
<1>2. G[p][d].name = q
  BY <1>1
<1> QED
  BY <1>2 DEF DependsOn

\* There is what a package needs when there is what it requires, and what the libraries
\* among that need.
LEMMA NeedsThrough ==
    ASSUME NEW G, NEW K, NEW p \in Installed(G), NEW L,
           \A q \in Installed(G) : Requires(G, p, q) =>
               IF K[q] = "library" THEN NeededBy(G, K, q) \subseteq L ELSE q \in L
    PROVE  NeededBy(G, K, p) \subseteq L
<1> DEFINE S == {q \in Installed(G) : IF K[q] = "library" THEN NeededBy(G, K, q) \subseteq L ELSE q \in L}
<1>1. ASSUME NEW r \in Installed(G), NEW q \in Installed(G), Requires(G, r, q)
      PROVE  IF K[q] = "library" THEN NeededBy(G, K, q) \subseteq NeededBy(G, K, r)
             ELSE q \in NeededBy(G, K, r)
  <2>1. CASE K[q] = "library"
    <3>1. ASSUME NEW T \in SUBSET Installed(G), NeededWithin(G, K, r, T)
          PROVE  NeededWithin(G, K, q, T)
      BY <1>1, <2>1, <3>1 DEF NeededWithin
    <3> QED
      BY <2>1, <3>1 DEF NeededBy
  <2>2. CASE K[q] # "library"
    BY <1>1, <2>2 DEF NeededBy, NeededWithin
  <2> QED
    BY <2>1, <2>2
<1>2. ASSUME NEW r \in S, K[r] = "library", NEW q \in Installed(G), Requires(G, r, q)
      PROVE  q \in S
  BY <1>1, <1>2
<1>3. NeededWithin(G, K, p, S)
  BY <1>2 DEF NeededWithin
<1>4. S \in SUBSET Installed(G)
  OBVIOUS
<1>5. \A q \in NeededBy(G, K, p) : K[q] # "library" /\ q \in S
  BY <1>3, <1>4 DEF NeededBy
<1> QED
  BY <1>5

\* What needs a member of a set that has what depends on its members is in the set.
LEMMA NeedsWithinDependents ==
    ASSUME NEW G, NEW K, NEW E, DependentsWithin(G, E),
           NEW r \in Installed(G), NEW p \in E, p \in NeededBy(G, K, r)
    PROVE  r \in E
<1> DEFINE S == Installed(G) \ E
<1> SUFFICES ASSUME r \notin E
             PROVE  FALSE
  OBVIOUS
<1>1. NeededWithin(G, K, r, S)
  BY RequiredDepends DEF NeededWithin, DependentsWithin
<1>2. S \in SUBSET Installed(G) /\ p \notin S
  OBVIOUS
<1> QED
  BY <1>1, <1>2 DEF NeededBy

\* The graph when a package has been removed.
Removed(G, n) == [p \in Installed(G) \ {n} |-> G[p]]

LEMMA RemovedFacts ==
    ASSUME NEW G, IsGraph(G), NEW n
    PROVE  /\ IsGraph(Removed(G, n)) /\ Installed(Removed(G, n)) = Installed(G) \ {n}
           /\ \A p \in Installed(G) \ {n} : Removed(G, n)[p] = G[p]
           /\ \A p \in Installed(G) \ {n} : \A q :
                 /\ DependsOn(Removed(G, n), p, q) <=> DependsOn(G, p, q)
                 /\ Requires(Removed(G, n), p, q) <=> Requires(G, p, q)
<1>1. /\ Installed(Removed(G, n)) = Installed(G) \ {n}
      /\ \A p \in Installed(G) \ {n} : Removed(G, n)[p] = G[p]
  BY DEF Removed, Installed
<1>2. IsGraph(Removed(G, n))
  BY <1>1 DEF IsGraph
<1> HIDE DEF Removed
<1> QED
  BY <1>1, <1>2 DEF DependsOn, Requires

LEMMA RemovedNeeds ==
    ASSUME NEW G, IsGraph(G), NEW K, NEW n, NEW p \in Installed(G) \ {n}
    PROVE  NeededBy(Removed(G, n), K, p) \subseteq NeededBy(G, K, p)
<1> DEFINE H == Removed(G, n)
<1>1. /\ Installed(H) = Installed(G) \ {n}
      /\ \A a \in Installed(G) \ {n} : \A b : Requires(H, a, b) <=> Requires(G, a, b)
  BY RemovedFacts
<1> HIDE DEF H
<1>2. ASSUME NEW q \in NeededBy(H, K, p), NEW S \in SUBSET Installed(G), NeededWithin(G, K, p, S)
      PROVE  q \in S
  <2> DEFINE T == S \ {n}
  <2>1. T \in SUBSET Installed(H)
    BY <1>1
  <2>2. NeededWithin(H, K, p, T)
    BY <1>1, <1>2 DEF NeededWithin
  <2>3. q \in T
    BY <2>1, <2>2 DEF NeededBy
  <2> QED
    BY <2>3
<1>3. \A q \in NeededBy(H, K, p) : q \in Installed(G) /\ K[q] # "library"
  BY <1>1 DEF NeededBy
<1> QED
  BY <1>2, <1>3 DEF NeededBy, H

LEMMA RemovedAcyclic ==
    ASSUME NEW G, IsGraph(G), NEW n, Acyclic(G)
    PROVE  Acyclic(Removed(G, n))
<1> DEFINE H == Removed(G, n)
<1>1. /\ Installed(H) = Installed(G) \ {n}
      /\ \A a \in Installed(G) \ {n} : H[a] = G[a]
      /\ \A a \in Installed(G) \ {n} : \A b : DependsOn(H, a, b) <=> DependsOn(G, a, b)
  BY RemovedFacts
<1> HIDE DEF H
<1>2. ASSUME NEW p \in Installed(H)
      PROVE  Below(H, p) \subseteq Below(G, p)
  <2> DEFINE N == {d.name : d \in ToSet(G[p])}
             S == Dependencies(G, N)
             T == S \ {n}
  <2>1. /\ S \subseteq Installed(G) /\ N \cap Installed(G) \subseteq S /\ DependenciesWithin(G, S)
    BY DependenciesFacts
  <2> HIDE DEF S, N
  <2>2. T \in SUBSET Installed(H) /\ N \cap Installed(H) \subseteq T
    BY <1>1, <2>1
  <2>3. DependenciesWithin(H, T)
    BY <1>1, <2>1 DEF DependenciesWithin
  <2>4. Dependencies(H, N) \subseteq T
    BY <2>2, <2>3, DependenciesFacts
  <2>5. H[p] = G[p]
    BY <1>1
  <2> QED
    BY <2>4, <2>5 DEF Below, N, S
<1> QED
  BY <1>1, <1>2 DEF Acyclic, H

-----------------------------------------------------------------------------
(***************************************************************************)
(* What makes the work of a thread sound                                   *)
(***************************************************************************)

\* Each package to be loaded is installed, and what it requires is loaded, is to be loaded
\* before it, or is a library that needs nothing more.
Loadable(G, K, L, w) ==
    \A i \in DOMAIN w : w[i].op = "load" =>
        /\ w[i].name \in Installed(G)
        /\ \A q \in Packages : Requires(G, w[i].name, q) =>
              /\ q \in Installed(G)
              /\ \/ \E j \in 1 .. i - 1 : w[j].name = q
                 \/ IF K[q] = "library" THEN NeededBy(G, K, q) \subseteq L ELSE q \in L

\* What needs a package that is to be unloaded is not loaded, or is to be unloaded before it.
Unloadable(G, K, L, w) ==
    \A i \in DOMAIN w : w[i].op = "unload" =>
        \A r \in L : w[i].name \in NeededBy(G, K, r) =>
            r = w[i].name \/ \E j \in 1 .. i - 1 : w[j].name = r

\* A package to be uninstalled comes last, is not loaded or is to be unloaded first, and no
\* other depends on it.
Removable(G, L, w) ==
    \A i \in DOMAIN w : w[i].op = "uninstall" =>
        /\ i = Len(w)
        /\ w[i].name \in L => \E j \in 1 .. i - 1 : w[j].name = w[i].name
        /\ w[i].name \in Installed(G) => \A p \in Installed(G) \ {w[i].name} : ~DependsOn(G, p, w[i].name)

\* A thread loads, or it does not.
Pure(w) == \A i, j \in DOMAIN w : w[i].op = "load" => w[j].op = "load"

WorkSound(G, K, L, w) ==
    Pure(w) /\ Loadable(G, K, L, w) /\ Removable(G, L, w)

LEMMA TailFacts ==
    ASSUME NEW X, NEW w \in Seq(X), w # <<>>
    PROVE  /\ 1 \in DOMAIN w /\ Head(w) = w[1] /\ w[1] \in X
           /\ Tail(w) \in Seq(X) /\ Len(w) \in Nat \ {0} /\ Len(Tail(w)) = Len(w) - 1
           /\ DOMAIN Tail(w) = 1 .. Len(w) - 1
           /\ \A i \in DOMAIN Tail(w) : /\ i \in Nat \ {0} /\ i + 1 \in DOMAIN w
                                        /\ Tail(w)[i] = w[i + 1]
                                        /\ \A j \in 1 .. (i + 1) - 1 :
                                              j = 1 \/ (j - 1 \in 1 .. i - 1 /\ Tail(w)[j - 1] = w[j])
<1>1. /\ 1 \in DOMAIN w /\ Head(w) = w[1] /\ w[1] \in X
      /\ Tail(w) \in Seq(X) /\ Len(w) \in Nat \ {0} /\ Len(Tail(w)) = Len(w) - 1
      /\ DOMAIN w = 1 .. Len(w) /\ \A i \in 1 .. Len(w) - 1 : Tail(w)[i] = w[i + 1]
  OBVIOUS
<1>2. DOMAIN Tail(w) = 1 .. Len(w) - 1
  BY <1>1
<1>3. ASSUME NEW i \in DOMAIN Tail(w)
      PROVE  /\ i \in Nat \ {0} /\ i + 1 \in DOMAIN w
             /\ Tail(w)[i] = w[i + 1]
             /\ \A j \in 1 .. (i + 1) - 1 :
                   j = 1 \/ (j - 1 \in 1 .. i - 1 /\ Tail(w)[j - 1] = w[j])
  <2>1. i \in Nat \ {0} /\ i + 1 \in DOMAIN w /\ Tail(w)[i] = w[i + 1]
    BY <1>1, <1>2
  <2>2. ASSUME NEW j \in 1 .. (i + 1) - 1, j # 1
        PROVE  j - 1 \in 1 .. i - 1 /\ Tail(w)[j - 1] = w[j]
    <3>1. j - 1 \in 1 .. i - 1 /\ j - 1 \in 1 .. Len(w) - 1 /\ (j - 1) + 1 = j
      BY <1>1, <1>2, <2>1, <2>2
    <3> QED
      BY <1>1, <3>1
  <2> QED
    BY <2>1, <2>2
<1> QED
  BY <1>1, <1>2, <1>3

\* What the next package to be loaded needs is loaded.
LEMMA NextLoads ==
    ASSUME NEW G, NEW K, NEW L, NEW w \in Seq(Work), w # <<>>, w[1].op = "load",
           IsGraph(G), Loadable(G, K, L, w)
    PROVE  w[1].name \in Installed(G) /\ NeededBy(G, K, w[1].name) \subseteq L
<1> DEFINE p == w[1].name
<1>1. 1 \in DOMAIN w
  BY TailFacts
<1>2. \A q \in Packages : Requires(G, p, q) =>
         /\ q \in Installed(G)
         /\ \/ \E j \in 1 .. 1 - 1 : w[j].name = q
            \/ IF K[q] = "library" THEN NeededBy(G, K, q) \subseteq L ELSE q \in L
  BY <1>1 DEF Loadable
<1>3. p \in Installed(G) /\ Installed(G) \subseteq Packages
  BY <1>1 DEF Loadable, IsGraph
<1>4. \A q \in Installed(G) : Requires(G, p, q) =>
         IF K[q] = "library" THEN NeededBy(G, K, q) \subseteq L ELSE q \in L
  <2>1. 1 .. 1 - 1 = {}
    OBVIOUS
  <2> QED
    BY <1>2, <1>3, <2>1
<1> HIDE DEF p
<1>5. NeededBy(G, K, p) \subseteq L
  BY <1>3, <1>4, NeedsThrough
<1> QED
  BY <1>3, <1>5 DEF p

\* A package is loaded, or passed over because it is a library or loaded.
LEMMA TailLoads ==
    ASSUME NEW G, NEW K, NEW L, NEW w \in Seq(Work), w # <<>>, w[1].op = "load",
           IsGraph(G), WorkSound(G, K, L, w), NEW M, L \subseteq M,
           K[w[1].name] # "library" => w[1].name \in M
    PROVE  WorkSound(G, K, M, Tail(w)) /\ Unloadable(G, K, M, Tail(w))
<1> DEFINE u == Tail(w)
           p == w[1].name
<1>1. /\ 1 \in DOMAIN w
      /\ \A i \in DOMAIN u : /\ i \in Nat \ {0} /\ i + 1 \in DOMAIN w
                             /\ u[i] = w[i + 1]
                             /\ \A j \in 1 .. (i + 1) - 1 :
                                   j = 1 \/ (j - 1 \in 1 .. i - 1 /\ u[j - 1] = w[j])
  BY TailFacts
<1>2. NeededBy(G, K, p) \subseteq L
  BY NextLoads DEF WorkSound
<1> HIDE DEF u
<1>3. \A i \in DOMAIN u : u[i].op = "load"
  BY <1>1 DEF WorkSound, Pure
<1>4. Loadable(G, K, M, u)
  <2> SUFFICES ASSUME NEW i \in DOMAIN u, NEW q \in Packages, Requires(G, u[i].name, q)
               PROVE  /\ q \in Installed(G)
                      /\ \/ \E j \in 1 .. i - 1 : u[j].name = q
                         \/ IF K[q] = "library" THEN NeededBy(G, K, q) \subseteq M ELSE q \in M
    <3>1. \A i \in DOMAIN u : u[i].name \in Installed(G)
      BY <1>1, <1>3 DEF WorkSound, Loadable
    <3> QED
      BY <3>1 DEF Loadable
  <2>1. i + 1 \in DOMAIN w /\ w[i + 1] = u[i] /\ u[i].op = "load"
    BY <1>1, <1>3
  <2>2. /\ q \in Installed(G)
        /\ \/ \E j \in 1 .. (i + 1) - 1 : w[j].name = q
           \/ IF K[q] = "library" THEN NeededBy(G, K, q) \subseteq L ELSE q \in L
    BY <2>1 DEF WorkSound, Loadable
  <2>3. ASSUME NEW j \in 1 .. (i + 1) - 1, w[j].name = q
        PROVE  \/ \E k \in 1 .. i - 1 : u[k].name = q
               \/ IF K[q] = "library" THEN NeededBy(G, K, q) \subseteq M ELSE q \in M
    <3>1. CASE j = 1
      BY <1>2, <2>3, <3>1
    <3>2. CASE j # 1
      <4>1. j - 1 \in 1 .. i - 1 /\ u[j - 1] = w[j]
        BY <1>1, <3>2
      <4> QED
        BY <2>3, <4>1
    <3> QED
      BY <3>1, <3>2
  <2> QED
    BY <2>2, <2>3
<1>5. Pure(u) /\ Unloadable(G, K, M, u) /\ Removable(G, M, u)
  BY <1>3 DEF Pure, Unloadable, Removable
<1> QED
  BY <1>4, <1>5 DEF WorkSound, u

\* A package is unloaded.
LEMMA TailUnloads ==
    ASSUME NEW G, NEW K, NEW L, NEW w \in Seq(Work), w # <<>>, w[1].op = "unload",
           WorkSound(G, K, L, w)
    PROVE  /\ WorkSound(G, K, L \ {w[1].name}, Tail(w))
           /\ Unloadable(G, K, L, w) =>
                 /\ Unloadable(G, K, L \ {w[1].name}, Tail(w))
                 /\ \A r \in L \ {w[1].name} : w[1].name \notin NeededBy(G, K, r)
<1> DEFINE u == Tail(w)
           p == w[1].name
           M == L \ {p}
<1>1. /\ 1 \in DOMAIN w /\ Len(w) \in Nat \ {0} /\ Len(u) = Len(w) - 1
      /\ \A i \in DOMAIN u : /\ i \in Nat \ {0} /\ i + 1 \in DOMAIN w
                             /\ u[i] = w[i + 1]
                             /\ \A j \in 1 .. (i + 1) - 1 :
                                   j = 1 \/ (j - 1 \in 1 .. i - 1 /\ u[j - 1] = w[j])
  BY TailFacts
<1> HIDE DEF u
<1>2. \A i \in DOMAIN u : u[i].op # "load"
  BY <1>1 DEF WorkSound, Pure
<1>3. Pure(u) /\ Loadable(G, K, M, u)
  BY <1>2 DEF Pure, Loadable
<1>4. ASSUME NEW i \in DOMAIN u, NEW r, r # p, \E j \in 1 .. (i + 1) - 1 : w[j].name = r
      PROVE  \E j \in 1 .. i - 1 : u[j].name = r
  <2>1. PICK j \in 1 .. (i + 1) - 1 : w[j].name = r
    BY <1>4
  <2>2. j # 1
    BY <1>4, <2>1
  <2>3. j - 1 \in 1 .. i - 1 /\ u[j - 1] = w[j]
    BY <1>1, <2>2
  <2> QED
    BY <2>1, <2>3
<1>5. ASSUME Unloadable(G, K, L, w)
      PROVE  Unloadable(G, K, M, u)
  <2> SUFFICES ASSUME NEW i \in DOMAIN u, u[i].op = "unload", NEW r \in M,
                      u[i].name \in NeededBy(G, K, r), r # u[i].name
               PROVE  \E j \in 1 .. i - 1 : u[j].name = r
    BY DEF Unloadable
  <2>1. \E j \in 1 .. (i + 1) - 1 : w[j].name = r
    BY <1>1, <1>5 DEF Unloadable
  <2> QED
    BY <1>4, <2>1
<1>6. Removable(G, M, u)
  <2> SUFFICES ASSUME NEW i \in DOMAIN u, u[i].op = "uninstall"
               PROVE  /\ i = Len(u)
                      /\ u[i].name \in M => \E j \in 1 .. i - 1 : u[j].name = u[i].name
                      /\ u[i].name \in Installed(G) =>
                            \A q \in Installed(G) \ {u[i].name} : ~DependsOn(G, q, u[i].name)
    BY DEF Removable
  <2>1. /\ i + 1 = Len(w)
        /\ u[i].name \in L => \E j \in 1 .. (i + 1) - 1 : w[j].name = u[i].name
        /\ u[i].name \in Installed(G) =>
              \A q \in Installed(G) \ {u[i].name} : ~DependsOn(G, q, u[i].name)
    BY <1>1 DEF WorkSound, Removable
  <2>2. i = Len(u)
    BY <1>1, <2>1
  <2>3. u[i].name \in M => \E j \in 1 .. i - 1 : u[j].name = u[i].name
    BY <1>4, <2>1
  <2> QED
    BY <2>1, <2>2, <2>3
<1>7. ASSUME Unloadable(G, K, L, w)
      PROVE  \A r \in M : p \notin NeededBy(G, K, r)
  <2>1. 1 .. 1 - 1 = {}
    OBVIOUS
  <2>2. \A r \in L : p \in NeededBy(G, K, r) => r = p \/ \E j \in 1 .. 1 - 1 : w[j].name = r
    BY <1>1, <1>7 DEF Unloadable
  <2> QED
    BY <2>1, <2>2
<1> QED
  BY <1>3, <1>5, <1>6, <1>7 DEF WorkSound, u

LEMMA NothingSound ==
    ASSUME NEW G, NEW K, NEW L, NEW w, w = <<>>
    PROVE  WorkSound(G, K, L, w) /\ Unloadable(G, K, L, w)
<1>1. DOMAIN w = {}
  OBVIOUS
<1> QED
  BY <1>1 DEF WorkSound, Pure, Loadable, Unloadable, Removable

LEMMA OpFacts ==
    ASSUME NEW o \in {"load", "unload", "uninstall"}, NEW s \in Seq(Packages)
    PROVE  /\ Op(o, s) \in Seq(Work) /\ Len(Op(o, s)) = Len(s) /\ DOMAIN Op(o, s) = 1 .. Len(s)
           /\ Len(s) \in Nat /\ DOMAIN s = 1 .. Len(s)
           /\ \A i \in DOMAIN s : Op(o, s)[i].op = o /\ Op(o, s)[i].name = s[i]
<1>1. Len(s) \in Nat /\ DOMAIN s = 1 .. Len(s) /\ \A i \in DOMAIN s : s[i] \in Packages
  OBVIOUS
<1>2. Op(o, s) = [i \in 1 .. Len(s) |-> [op |-> o, name |-> s[i]]]
  BY <1>1 DEF Op
<1>3. \A i \in 1 .. Len(s) : [op |-> o, name |-> s[i]] \in Work
  BY <1>1 DEF Work
<1>4. Op(o, s) \in Seq(Work) /\ Len(Op(o, s)) = Len(s)
  BY <1>1, <1>2, <1>3
<1>5. \A i \in 1 .. Len(s) : Op(o, s)[i] = [op |-> o, name |-> s[i]]
  BY <1>2
<1> QED
  BY <1>1, <1>2, <1>4, <1>5

\* The order load_order finds can be loaded in.
LEMMA LoadsSound ==
    ASSUME NEW G, IsGraph(G), NEW K, NEW L, NEW ns \in Seq(Packages),
           LoadOrder(G, ns).error = "none"
    PROVE  /\ WorkSound(G, K, L, Op("load", LoadOrder(G, ns).results))
           /\ Unloadable(G, K, L, Op("load", LoadOrder(G, ns).results))
<1> DEFINE s == LoadOrder(G, ns).results
           w == Op("load", s)
           R == Dependencies(G, ToSet(ns))
<1>1. s \in Seq(Packages)
  BY LoadEnds, WalkTypes
<1>2. /\ ToSet(s) = R
      /\ \A i, j \in DOMAIN s : Requires(G, s[i], s[j]) => j < i
      /\ \A p \in R, q \in Packages : Requires(G, p, q) => q \in Installed(G)
  BY LoadOrderIsSound
<1>3. R \subseteq Installed(G) /\ DependenciesWithin(G, R)
  BY DependenciesFacts
<1> HIDE DEF s, R
<1>4. /\ DOMAIN w = 1 .. Len(s) /\ Len(s) \in Nat /\ DOMAIN s = 1 .. Len(s)
      /\ \A i \in DOMAIN s : w[i].op = "load" /\ w[i].name = s[i]
  BY <1>1, OpFacts
<1> HIDE DEF w
<1>5. Loadable(G, K, L, w)
  <2> SUFFICES ASSUME NEW i \in DOMAIN w
               PROVE  /\ w[i].name \in Installed(G)
                      /\ \A q \in Packages : Requires(G, w[i].name, q) =>
                            q \in Installed(G) /\ \E j \in 1 .. i - 1 : w[j].name = q
    BY DEF Loadable
  <2>1. w[i].name = s[i] /\ s[i] \in R
    BY <1>2, <1>4 DEF ToSet
  <2>2. ASSUME NEW q \in Packages, Requires(G, s[i], q)
        PROVE  q \in Installed(G) /\ \E j \in 1 .. i - 1 : w[j].name = q
    <3>1. q \in Installed(G) /\ DependsOn(G, s[i], q)
      BY <1>2, <2>1, <2>2, RequiredDepends
    <3>2. q \in R
      BY <1>3, <2>1, <3>1 DEF DependenciesWithin
    <3>3. PICK j \in DOMAIN s : s[j] = q
      BY <1>2, <3>2 DEF ToSet
    <3>4. j < i
      BY <1>2, <1>4, <2>2, <3>3
    <3>5. j \in 1 .. i - 1
      BY <1>4, <3>4
    <3> QED
      BY <1>4, <3>1, <3>3, <3>5
  <2> QED
    BY <1>3, <2>1, <2>2
<1>6. Pure(w) /\ Unloadable(G, K, L, w) /\ Removable(G, L, w)
  BY <1>4 DEF Pure, Unloadable, Removable
<1> QED
  BY <1>5, <1>6 DEF WorkSound, w, s

-----------------------------------------------------------------------------
(***************************************************************************)
(* What is unloaded is in an order to unload in.                           *)
(***************************************************************************)

\* What needs a package of an order, among those of L, comes before it.
Falls(G, K, L, s) ==
    \A i \in DOMAIN s, r \in L : s[i] \in NeededBy(G, K, r) =>
        r = s[i] \/ \E j \in 1 .. i - 1 : s[j] = r

\* Without cycles unload_order lists a package after all that needs it.
LEMMA UnloadOrderFalls ==
    ASSUME NEW G, IsGraph(G), NEW K, NEW ns \in Seq(Packages), Acyclic(G),
           NEW L \in SUBSET Installed(G)
    PROVE  Falls(G, K, L, UnloadOrder(G, ns))
<1> DEFINE s == UnloadOrder(G, ns)
<1>1. s \in Seq(Packages) /\ ToSet(s) = Dependents(G, ToSet(ns))
  BY UnloadOrderIsSound
<1>2. \A i \in DOMAIN s, q \in Installed(G) :
         DependsOn(G, q, s[i]) => \E j \in 1 .. i - 1 : s[j] = q
  <2>1. PICK w \in Walk(RevStep) : UnloadInvariant(G, ns, w) /\ s = w.results
    BY UnloadEnds
  <2> DEFINE t == w.results
  <2>2. \A i \in DOMAIN t, q \in Installed(G) :
           DependsOn(G, q, t[i]) => \E j \in 1 .. i - 1 : t[j] = q
    BY <2>1 DEF UnloadInvariant, Preceded
  <2>3. s = t
    BY <2>1
  <2> HIDE DEF s, t
  <2> QED
    BY <2>2, <2>3
<1> HIDE DEF s
<1>3. Len(s) \in Nat /\ DOMAIN s = 1 .. Len(s)
  BY <1>1
<1> SUFFICES ASSUME NEW i \in DOMAIN s, NEW r \in L, s[i] \in NeededBy(G, K, r), r # s[i]
             PROVE  \E j \in 1 .. i - 1 : s[j] = r
  BY DEF Falls, s
<1> DEFINE E == {s[j] : j \in 1 .. i}
<1>4. s[i] \in E
  BY <1>3
<1>5. DependentsWithin(G, E)
  <2> SUFFICES ASSUME NEW k \in 1 .. i, NEW q \in Installed(G), DependsOn(G, q, s[k])
               PROVE  \E j \in 1 .. i : s[j] = q
    BY DEF DependentsWithin
  <2>1. k \in DOMAIN s
    BY <1>3
  <2>2. PICK j \in 1 .. k - 1 : s[j] = q
    BY <1>2, <2>1
  <2>3. j \in 1 .. i
    BY <1>3
  <2> QED
    BY <2>2, <2>3
<1> HIDE DEF E
<1>6. r \in E
  BY <1>4, <1>5, NeedsWithinDependents
<1>7. PICK j \in 1 .. i : s[j] = r
  BY <1>6 DEF E
<1>8. j \in 1 .. i - 1
  BY <1>3, <1>7
<1> QED
  BY <1>7, <1>8

LEMMA FallsSound ==
    ASSUME NEW G, NEW K, NEW L, NEW s \in Seq(Packages)
    PROVE  /\ Op("unload", s) \in Seq(Work) /\ WorkSound(G, K, L, Op("unload", s))
           /\ Falls(G, K, L, s) => Unloadable(G, K, L, Op("unload", s))
<1> DEFINE w == Op("unload", s)
<1>1. /\ w \in Seq(Work) /\ DOMAIN w = 1 .. Len(s) /\ Len(s) \in Nat /\ DOMAIN s = 1 .. Len(s)
      /\ \A i \in DOMAIN s : w[i].op = "unload" /\ w[i].name = s[i]
  BY OpFacts
<1> HIDE DEF w
<1>2. ASSUME Falls(G, K, L, s)
      PROVE  Unloadable(G, K, L, w)
  <2> SUFFICES ASSUME NEW i \in DOMAIN w, NEW r \in L, w[i].name \in NeededBy(G, K, r), r # w[i].name
               PROVE  \E j \in 1 .. i - 1 : w[j].name = r
    BY DEF Unloadable
  <2>1. PICK j \in 1 .. i - 1 : s[j] = r
    BY <1>1, <1>2 DEF Falls
  <2>2. j \in DOMAIN s
    BY <1>1
  <2> QED
    BY <1>1, <2>1, <2>2
<1>3. Pure(w) /\ Loadable(G, K, L, w) /\ Removable(G, L, w)
  BY <1>1 DEF Pure, Loadable, Removable
<1> QED
  BY <1>1, <1>2, <1>3 DEF WorkSound, w

\* Some positions of a sequence, in order.
LEMMA PickedFacts ==
    ASSUME NEW X, NEW s \in Seq(X), NEW I \in SUBSET (DOMAIN s)
    PROVE  LET at == InOrder(I) IN
           /\ Picked(s, at) \in Seq(X) /\ DOMAIN Picked(s, at) = DOMAIN at
           /\ \A k \in DOMAIN at : k \in Nat \ {0} /\ at[k] \in I /\ Picked(s, at)[k] = s[at[k]]
           /\ \A i \in I : \E k \in DOMAIN at : at[k] = i
           /\ \A j, k \in DOMAIN at : j < k => at[j] < at[k]
<1> DEFINE at == InOrder(I)
           n == Cardinality(I)
<1>1. Len(s) \in Nat /\ DOMAIN s = 1 .. Len(s) /\ \A i \in DOMAIN s : s[i] \in X
  OBVIOUS
<1>2. I \in SUBSET Nat /\ IsFiniteSet(I)
  <2>1. IsFiniteSet(1 .. Len(s))
    BY <1>1, FS_Interval
  <2> QED
    BY <1>1, <2>1, FS_Subset
<1>3. /\ at \in Seq(I) /\ Len(at) = n /\ n \in Nat
      /\ \A i \in I : \E k \in DOMAIN at : at[k] = i
      /\ \A j, k \in DOMAIN at : j < k => at[j] < at[k]
  BY <1>2, InOrderFacts
<1> HIDE DEF at, n
<1>4. DOMAIN at = 1 .. n /\ \A k \in 1 .. n : at[k] \in I /\ k \in Nat \ {0}
  BY <1>3
<1>5. Picked(s, at) = [k \in 1 .. n |-> s[at[k]]]
  BY <1>4 DEF Picked
<1>6. \A k \in 1 .. n : s[at[k]] \in X
  BY <1>1, <1>4
<1>7. Picked(s, at) \in Seq(X) /\ DOMAIN Picked(s, at) = DOMAIN at
  BY <1>3, <1>4, <1>5, <1>6
<1>8. \A k \in DOMAIN at : Picked(s, at)[k] = s[at[k]]
  BY <1>4, <1>5
<1> QED
  BY <1>3, <1>4, <1>7, <1>8 DEF at

\* What is loaded of an order falls, when the order does.
LEMMA ThoseFall ==
    ASSUME NEW G, NEW K, NEW L, NEW s \in Seq(Packages), Falls(G, K, L, s)
    PROVE  Falls(G, K, L, Picked(s, InOrder({i \in DOMAIN s : s[i] \in L})))
<1> DEFINE I == {i \in DOMAIN s : s[i] \in L}
           at == InOrder(I)
           t == Picked(s, at)
<1>0. Len(s) \in Nat /\ DOMAIN s = 1 .. Len(s)
  OBVIOUS
<1>1. /\ DOMAIN t = DOMAIN at
      /\ \A k \in DOMAIN at : k \in Nat \ {0} /\ at[k] \in I /\ t[k] = s[at[k]]
      /\ \A i \in I : \E k \in DOMAIN at : at[k] = i
      /\ \A j, k \in DOMAIN at : j < k => at[j] < at[k]
  <2>1. I \in SUBSET (DOMAIN s)
    OBVIOUS
  <2> HIDE DEF I
  <2> QED
    BY <2>1, PickedFacts
<1> HIDE DEF at, t
<1> SUFFICES ASSUME NEW k \in DOMAIN t, NEW r \in L, t[k] \in NeededBy(G, K, r), r # t[k]
             PROVE  \E j \in 1 .. k - 1 : t[j] = r
  BY DEF Falls, t, at
<1>2. at[k] \in DOMAIN s /\ t[k] = s[at[k]]
  BY <1>1
<1>3. PICK i \in 1 .. at[k] - 1 : s[i] = r
  BY <1>2 DEF Falls
<1>4. i \in I
  BY <1>0, <1>2, <1>3
<1>5. PICK j \in DOMAIN at : at[j] = i
  BY <1>1, <1>4
<1>6. at[k] \in Nat /\ at[j] < at[k] /\ at[j] \in Nat
  BY <1>0, <1>2, <1>3, <1>5
<1>7. ~ (k < j) /\ k # j /\ k \in Nat /\ j \in Nat \ {0}
  BY <1>1, <1>5, <1>6
<1>8. j \in 1 .. k - 1
  BY <1>7
<1> QED
  BY <1>1, <1>3, <1>5, <1>8

\* A package that no other depends on is unloaded, and then uninstalled.
LEMMA UninstallSound ==
    ASSUME NEW G, IsGraph(G), NEW K, NEW L \in SUBSET Installed(G), NEW n \in Packages,
           ToSet(UnloadOrder(G, <<n>>)) \subseteq {n}
    PROVE  LET w == Op("unload", UnloadOrder(G, <<n>>)) \o Op("uninstall", <<n>>) IN
           w \in Seq(Work) /\ WorkSound(G, K, L, w) /\ Unloadable(G, K, L, w)
<1> DEFINE s == UnloadOrder(G, <<n>>)
           a == Op("unload", s)
           b == Op("uninstall", <<n>>)
           w == a \o b
<1>0. <<n>> \in Seq(Packages) /\ ToSet(<<n>>) = {n} /\ Len(<<n>>) = 1 /\ DOMAIN <<n>> = {1} /\ <<n>>[1] = n
  BY DEF ToSet
<1>1. s \in Seq(Packages) /\ ToSet(s) = Dependents(G, {n})
  BY <1>0, UnloadOrderIsSound
<1> HIDE DEF s
<1>2. /\ a \in Seq(Work) /\ Len(a) = Len(s) /\ Len(s) \in Nat /\ DOMAIN s = 1 .. Len(s)
      /\ \A i \in 1 .. Len(s) : a[i].op = "unload" /\ a[i].name = s[i]
  BY <1>1, OpFacts
<1>3. /\ b \in Seq(Work) /\ Len(b) = 1 /\ b[1].op = "uninstall" /\ b[1].name = n
  <2>1. /\ b \in Seq(Work) /\ Len(b) = Len(<<n>>)
        /\ \A i \in DOMAIN <<n>> : b[i].op = "uninstall" /\ b[i].name = <<n>>[i]
    BY <1>0, OpFacts
  <2> QED
    BY <1>0, <2>1
<1> HIDE DEF a, b
<1>4. /\ w \in Seq(Work) /\ Len(w) = Len(s) + 1 /\ DOMAIN w = 1 .. Len(s) + 1
      /\ \A i \in 1 .. Len(s) : w[i] = a[i]
      /\ w[Len(s) + 1] = b[1]
  <2>1. /\ a \o b \in Seq(Work) /\ Len(a \o b) = Len(a) + Len(b)
        /\ \A i \in 1 .. Len(a) : (a \o b)[i] = a[i]
        /\ \A i \in Len(a) + 1 .. Len(a) + Len(b) : (a \o b)[i] = b[i - Len(a)]
    <3>1. a \in Seq(Work) /\ b \in Seq(Work)
      BY <1>2, <1>3
    <3> HIDE DEF w
    <3> QED
      BY <3>1, Pushed, ZenonT(30)
  <2>2. /\ \A i \in 1 .. Len(s) : w[i] = a[i]
        /\ \A i \in Len(s) + 1 .. Len(s) + 1 : w[i] = b[i - Len(s)]
        /\ Len(w) = Len(s) + 1
    BY <1>2, <1>3, <2>1
  <2>3. Len(s) + 1 \in Len(s) + 1 .. Len(s) + 1 /\ (Len(s) + 1) - Len(s) = 1
    BY <1>2
  <2>4. w[Len(s) + 1] = b[1]
    BY <2>2, <2>3
  <2>5. DOMAIN w = 1 .. Len(s) + 1
    BY <2>1, <2>2
  <2> QED
    BY <2>1, <2>2, <2>4, <2>5
<1> HIDE DEF w
<1>5. \A i \in DOMAIN w :
         \/ i \in 1 .. Len(s) /\ w[i].op = "unload" /\ w[i].name = s[i] /\ s[i] = n
         \/ i = Len(s) + 1 /\ w[i].op = "uninstall" /\ w[i].name = n
  <2> TAKE i \in DOMAIN w
  <2>1. i \in 1 .. Len(s) \/ i = Len(s) + 1
    BY <1>2, <1>4
  <2>2. CASE i \in 1 .. Len(s)
    <3>1. s[i] = n
      BY <1>2, <2>2 DEF ToSet, s
    <3> QED
      BY <1>2, <1>4, <2>2, <3>1
  <2>3. CASE i = Len(s) + 1
    BY <1>3, <1>4, <2>3
  <2> QED
    BY <2>1, <2>2, <2>3
<1>6. Dependents(G, {n}) \subseteq {n}
  BY <1>1 DEF s
<1>7. n \in Installed(G) =>
         n \in ToSet(s) /\ \A p \in Installed(G) \ {n} : ~DependsOn(G, p, n)
  <2> HAVE n \in Installed(G)
  <2>1. n \in Dependents(G, {n}) /\ DependentsWithin(G, Dependents(G, {n}))
    BY DependentsFacts
  <2> QED
    BY <1>1, <1>6, <2>1 DEF DependentsWithin
<1>8. DependentsWithin(G, {n} \cap Installed(G))
  BY <1>7 DEF DependentsWithin
<1>9. Unloadable(G, K, L, w)
  <2> SUFFICES ASSUME NEW i \in DOMAIN w, w[i].op = "unload", NEW r \in L,
                      w[i].name \in NeededBy(G, K, r)
               PROVE  r = w[i].name
    BY DEF Unloadable
  <2>1. w[i].name = n /\ n \in Installed(G)
    BY <1>5 DEF NeededBy
  <2>2. r \in {n} \cap Installed(G)
    BY <1>8, <2>1, NeedsWithinDependents
  <2> QED
    BY <2>1, <2>2
<1>10. Removable(G, L, w)
  <2> SUFFICES ASSUME NEW i \in DOMAIN w, w[i].op = "uninstall"
               PROVE  /\ i = Len(w)
                      /\ w[i].name \in L => \E j \in 1 .. i - 1 : w[j].name = w[i].name
                      /\ w[i].name \in Installed(G) =>
                            \A p \in Installed(G) \ {w[i].name} : ~DependsOn(G, p, w[i].name)
    BY DEF Removable
  <2>1. i = Len(s) + 1 /\ w[i].name = n
    BY <1>5
  <2>2. ASSUME n \in L
        PROVE  \E j \in 1 .. i - 1 : w[j].name = n
    <3>1. PICK j \in DOMAIN s : s[j] = n
      BY <1>7, <2>2 DEF ToSet
    <3>2. j \in 1 .. i - 1 /\ j \in 1 .. Len(s)
      BY <1>2, <2>1
    <3> QED
      BY <1>2, <1>4, <3>1, <3>2
  <2> QED
    BY <1>4, <1>7, <2>1, <2>2
<1>11. Pure(w) /\ Loadable(G, K, L, w)
  BY <1>5 DEF Pure, Loadable
<1> QED
  BY <1>4, <1>9, <1>10, <1>11 DEF WorkSound, w, a, b, s

-----------------------------------------------------------------------------
(***************************************************************************)
(* Types, and that an addon is loaded once                                 *)
(***************************************************************************)

\* The types, that an addon is loaded once, and that the loop begins at the first.
ManagerTypes == TypeOK /\ LoadedOnce /\ (pc = "running" => pos # 0)

LEMMA QueueTypes ==
    ASSUME work \in [Threads -> Seq(Work)], NEW t \in Threads, NEW w \in Seq(Work), Queue(t, w)
    PROVE  /\ work' \in [Threads -> Seq(Work)] /\ work'[t] = w
           /\ \A u \in Threads \ {t} : work'[u] = work[u]
BY DEF Queue

LEMMA DoneTypes ==
    ASSUME work \in [Threads -> Seq(Work)], NEW t \in Threads, work[t] # <<>>, Done(t)
    PROVE  /\ work' \in [Threads -> Seq(Work)] /\ work'[t] = Tail(work[t])
           /\ \A u \in Threads \ {t} : work'[u] = work[u]
<1>1. Tail(work[t]) \in Seq(Work)
  BY TailFacts
<1> QED
  BY <1>1 DEF Done

LEMMA HeadTypes ==
    ASSUME work \in [Threads -> Seq(Work)], NEW t \in Threads, NEW o, NextIs(t, o)
    PROVE  /\ work[t] \in Seq(Work) /\ work[t] # <<>> /\ Head(work[t]) = work[t][1]
           /\ work[t][1].op = o /\ work[t][1].name \in Packages
<1>1. work[t] \in Seq(Work) /\ work[t] # <<>>
  BY DEF NextIs
<1>2. Head(work[t]) = work[t][1] /\ work[t][1] \in Work
  BY <1>1, TailFacts
<1> QED
  BY <1>1, <1>2 DEF NextIs, Work

\* What the orders are, as sequences of packages.
LEMMA OrderTypes ==
    ASSUME IsGraph(graph), loaded \in Seq(Packages), NEW ns \in Seq(Packages)
    PROVE  /\ LoadOrder(graph, ns).results \in Seq(Packages)
           /\ UnloadOrder(graph, ns) \in Seq(Packages)
           /\ ToUnload(ns) \in Seq(Packages)
<1>1. LoadOrder(graph, ns).results \in Seq(Packages)
  BY LoadEnds, WalkTypes
<1>2. UnloadOrder(graph, ns) \in Seq(Packages)
  BY UnloadOrderIsSound
<1> DEFINE s == UnloadOrder(graph, ns)
           I == {i \in DOMAIN s : s[i] \in Loaded}
<1>3. Picked(s, InOrder(I)) \in Seq(Packages)
  <2>1. I \in SUBSET (DOMAIN s)
    OBVIOUS
  <2> HIDE DEF I, s
  <2> QED
    BY <1>2, <2>1, PickedFacts DEF s
<1> QED
  BY <1>1, <1>2, <1>3 DEF ToUnload, OfLoaded

\* What is left loaded when a package is unloaded.
LEMMA WithoutFacts ==
    ASSUME loaded \in Seq(Packages), IsInjective(loaded), NEW p
    PROVE  /\ Without(p) \in Seq(Packages) /\ IsInjective(Without(p))
           /\ ToSet(Without(p)) = Loaded \ {p}
<1> DEFINE I == {i \in DOMAIN loaded : loaded[i] # p}
           at == InOrder(I)
           t == Picked(loaded, at)
<1>1. /\ t \in Seq(Packages) /\ DOMAIN t = DOMAIN at
      /\ \A k \in DOMAIN at : k \in Nat \ {0} /\ at[k] \in I /\ t[k] = loaded[at[k]]
      /\ \A i \in I : \E k \in DOMAIN at : at[k] = i
      /\ \A j, k \in DOMAIN at : j < k => at[j] < at[k]
  <2>1. I \in SUBSET (DOMAIN loaded)
    OBVIOUS
  <2> HIDE DEF I
  <2> QED
    BY <2>1, PickedFacts
<1>2. DOMAIN loaded \subseteq Nat
  OBVIOUS
<1> HIDE DEF at, t
<1>3. ASSUME NEW j \in DOMAIN t, NEW k \in DOMAIN t, t[j] = t[k]
      PROVE  j = k
  <2>1. at[j] = at[k] /\ at[j] \in Nat
    BY <1>1, <1>2, <1>3 DEF IsInjective
  <2> QED
    BY <1>1, <2>1
<1>4. ToSet(t) = Loaded \ {p}
  <2>1. ToSet(t) \subseteq Loaded \ {p}
    BY <1>1 DEF ToSet, Loaded
  <2>2. ASSUME NEW i \in DOMAIN loaded, loaded[i] # p
        PROVE  loaded[i] \in ToSet(t)
    <3>1. PICK k \in DOMAIN at : at[k] = i
      BY <1>1, <2>2
    <3> QED
      BY <1>1, <3>1 DEF ToSet
  <2> QED
    BY <2>1, <2>2 DEF Loaded, ToSet
<1> QED
  BY <1>1, <1>3, <1>4 DEF Without, IsInjective, t, at

\* One more package is loaded.
LEMMA AppendedFacts ==
    ASSUME loaded \in Seq(Packages), IsInjective(loaded), NEW p \in Packages \ Loaded
    PROVE  /\ Append(loaded, p) \in Seq(Packages) /\ IsInjective(Append(loaded, p))
           /\ ToSet(Append(loaded, p)) = Loaded \cup {p}
<1> DEFINE n == Len(loaded)
           t == Append(loaded, p)
<1>1. /\ n \in Nat /\ DOMAIN loaded = 1 .. n /\ t \in Seq(Packages) /\ DOMAIN t = 1 .. n + 1
      /\ t[n + 1] = p /\ \A i \in 1 .. n : t[i] = loaded[i]
  OBVIOUS
<1> HIDE DEF n, t
<1>2. \A i \in 1 .. n : loaded[i] # p
  BY <1>1 DEF Loaded, ToSet
<1>3. \A i \in DOMAIN t : i \in 1 .. n \/ i = n + 1
  BY <1>1
<1>4. \A i, j \in DOMAIN t : t[i] = t[j] => i = j
  BY <1>1, <1>2, <1>3 DEF IsInjective
<1>5. ToSet(t) = Loaded \cup {p}
  <2>1. ToSet(t) \subseteq Loaded \cup {p}
    BY <1>1, <1>3 DEF ToSet, Loaded
  <2>2. n + 1 \in DOMAIN t /\ 1 .. n \subseteq DOMAIN t
    BY <1>1
  <2>3. Loaded \cup {p} \subseteq ToSet(t)
    BY <1>1, <2>2 DEF ToSet, Loaded
  <2> QED
    BY <2>1, <2>3
<1> QED
  BY <1>1, <1>4, <1>5 DEF IsInjective, t

LEMMA LengthBound ==
    ASSUME loaded \in Seq(Packages), IsInjective(loaded)
    PROVE  Len(loaded) \in 0 .. PackageCount
<1>1. Len(loaded) \in Nat /\ loaded \in [1 .. Len(loaded) -> Packages]
  OBVIOUS
<1>2. loaded \in Injection(1 .. Len(loaded), Packages)
  BY <1>1 DEF Injection
<1>3. IsFiniteSet(Packages) /\ Cardinality(Packages) = PackageCount
  <2>1. /\ 1 \in Int /\ PackageCount \in Int
        /\ (IF 1 > PackageCount THEN 0 ELSE PackageCount - 1 + 1) = PackageCount
    BY PackageCountAssumption
  <2> QED
    BY <2>1, FS_Interval DEF Packages
<1>5. Cardinality(1 .. Len(loaded)) = Len(loaded) /\ IsFiniteSet(1 .. Len(loaded))
  <2> DEFINE n == Len(loaded)
  <2>1. n \in Nat
    BY <1>1
  <2> HIDE DEF n
  <2>2. 1 \in Int /\ n \in Int /\ (IF 1 > n THEN 0 ELSE n - 1 + 1) = n
    BY <2>1
  <2>3. Cardinality(1 .. n) = n /\ IsFiniteSet(1 .. n)
    BY <2>2, FS_Interval
  <2> QED
    BY <2>3 DEF n
<1>4. Cardinality(1 .. Len(loaded)) <= Cardinality(Packages)
  BY <1>2, <1>3, <1>5, FS_Injection
<1> QED
  BY <1>1, <1>3, <1>4, <1>5, PackageCountAssumption

\* What the steps leave alone.
Steady == UNCHANGED <<updates, kind, graph, loaded, pc, pos, last>>

LEMMA QueueKeepsTypes ==
    ASSUME ManagerTypes, Steady, NEW t \in Threads, NEW w \in Seq(Work), Queue(t, w),
           reloading' \in [Threads -> Seq(Packages)]
    PROVE  ManagerTypes'
<1>1. work' \in [Threads -> Seq(Work)]
  BY QueueTypes DEF ManagerTypes, TypeOK
<1>2. Loaded' = Loaded
  BY DEF Steady, Loaded
<1> QED
  BY <1>1, <1>2 DEF ManagerTypes, TypeOK, LoadedOnce, Steady

LEMMA GivenTypes ==
    ASSUME NEW p \in Packages
    PROVE  <<p>> \in Seq(Packages)
OBVIOUS

\* The commands.
LEMMA CommandKeepsTypes ==
    ASSUME ManagerTypes, Command
    PROVE  ManagerTypes'
<1>0. /\ IsGraph(graph) /\ loaded \in Seq(Packages) /\ work \in [Threads -> Seq(Work)]
      /\ reloading \in [Threads -> Seq(Packages)] /\ "game" \in Threads /\ "updater" \in Threads
  BY DEF ManagerTypes, TypeOK, Threads
<1>1. ASSUME NEW p \in Packages, Load(p)
      PROVE  ManagerTypes'
  <2> DEFINE w == Op("load", LoadOrder(graph, <<p>>).results)
  <2>1. Queue("game", w) /\ Steady /\ reloading' = reloading
    BY <1>1 DEF Load, Steady
  <2>2. LoadOrder(graph, <<p>>).results \in Seq(Packages)
    BY <1>0, OrderTypes, GivenTypes
  <2>3. w \in Seq(Work)
    BY <2>2, OpFacts
  <2> HIDE DEF w
  <2> QED
    BY <1>0, <2>1, <2>3, QueueKeepsTypes
<1>2. ASSUME NEW p \in Packages, Unload(p)
      PROVE  ManagerTypes'
  <2> DEFINE w == Op("unload", UnloadOrder(graph, <<p>>))
  <2>1. Queue("game", w) /\ Steady /\ reloading' = reloading
    BY <1>2 DEF Unload, Steady
  <2>2. UnloadOrder(graph, <<p>>) \in Seq(Packages)
    BY <1>0, OrderTypes, GivenTypes
  <2>3. w \in Seq(Work)
    BY <2>2, OpFacts
  <2> HIDE DEF w
  <2> QED
    BY <1>0, <2>1, <2>3, QueueKeepsTypes
<1>3. ASSUME NEW ns \in Seq(Packages), BeginReload("game", ns), Steady
      PROVE  ManagerTypes'
  <2> DEFINE w == Op("unload", ToUnload(ns))
  <2>1. Queue("game", w) /\ reloading' \in [Threads -> Seq(Packages)]
    BY <1>0, <1>3 DEF BeginReload
  <2>2. ToUnload(ns) \in Seq(Packages)
    BY <1>0, OrderTypes
  <2>3. w \in Seq(Work)
    BY <2>2, OpFacts
  <2> HIDE DEF w
  <2> QED
    BY <1>0, <1>3, <2>1, <2>3, QueueKeepsTypes
<1>4. ASSUME NEW p \in Packages, Reload(p)
      PROVE  ManagerTypes'
  <2>1. BeginReload("game", <<p>>) /\ Steady /\ <<p>> \in Seq(Packages)
    BY <1>4 DEF Reload, Steady
  <2> QED
    BY <1>3, <2>1
<1>5. ASSUME ReloadAll
      PROVE  ManagerTypes'
  <2>1. BeginReload("game", loaded) /\ Steady
    BY <1>5 DEF ReloadAll, Steady
  <2> QED
    BY <1>0, <1>3, <2>1
<1>6. ASSUME UnloadAll
      PROVE  ManagerTypes'
  <2> DEFINE w == Op("unload", UnloadOrder(graph, InstalledInOrder(graph)))
  <2>1. Queue("game", w) /\ Steady /\ reloading' = reloading
    BY <1>6 DEF UnloadAll, Steady
  <2>2. InstalledInOrder(graph) \in Seq(Packages)
    BY <1>0, InstalledFacts
  <2>3. UnloadOrder(graph, InstalledInOrder(graph)) \in Seq(Packages)
    BY <1>0, <2>2, OrderTypes
  <2>4. w \in Seq(Work)
    BY <2>3, OpFacts
  <2> HIDE DEF w
  <2> QED
    BY <1>0, <2>1, <2>4, QueueKeepsTypes
<1>7. ASSUME NEW p \in Packages, Uninstall(p)
      PROVE  ManagerTypes'
  <2> DEFINE w == Op("unload", UnloadOrder(graph, <<p>>)) \o Op("uninstall", <<p>>)
  <2>1. Queue("game", w) /\ Steady /\ reloading' = reloading
    BY <1>7 DEF Uninstall, Steady
  <2>2. UnloadOrder(graph, <<p>>) \in Seq(Packages)
    BY <1>0, OrderTypes, GivenTypes
  <2>3. Op("unload", UnloadOrder(graph, <<p>>)) \in Seq(Work) /\ Op("uninstall", <<p>>) \in Seq(Work)
    BY <2>2, OpFacts, GivenTypes
  <2>4. w \in Seq(Work)
    BY <2>3
  <2> HIDE DEF w
  <2> QED
    BY <1>0, <2>1, <2>4, QueueKeepsTypes
<1>8. ASSUME NEW p \in Packages, Updated(p)
      PROVE  ManagerTypes'
  <2> DEFINE w == Op("unload", ToUnload(<<p>>))
  <2>1. /\ Queue("updater", w) /\ graph' \in Graphs
        /\ UNCHANGED <<updates, kind, loaded, pc, pos, last>>
        /\ reloading' = [reloading EXCEPT !["updater"] = <<p>>]
    BY <1>8 DEF Updated
  <2>2. ToUnload(<<p>>) \in Seq(Packages)
    BY <1>0, OrderTypes, GivenTypes
  <2>3. w \in Seq(Work)
    BY <2>2, OpFacts
  <2> HIDE DEF w
  <2>4. work' \in [Threads -> Seq(Work)]
    BY <1>0, <2>1, <2>3, QueueTypes
  <2>5. reloading' \in [Threads -> Seq(Packages)]
    BY <1>0, <2>1, GivenTypes
  <2>6. IsGraph(graph')
    BY <2>1, ManagerAssumption
  <2>7. Loaded' = Loaded
    BY <2>1 DEF Loaded
  <2> QED
    BY <2>1, <2>4, <2>5, <2>6, <2>7 DEF ManagerTypes, TypeOK, LoadedOnce
<1> QED
  BY <1>1, <1>2, <1>4, <1>5, <1>6, <1>7, <1>8 DEF Command

\* The rounds of the loops in load and unload, and the steps between them.
LEMMA ThreadStepKeepsTypes ==
    ASSUME ManagerTypes, NEW t \in Threads, ThreadStep(t)
    PROVE  ManagerTypes'
<1>0. /\ IsGraph(graph) /\ loaded \in Seq(Packages) /\ work \in [Threads -> Seq(Work)]
      /\ reloading \in [Threads -> Seq(Packages)] /\ IsInjective(loaded)
      /\ \A p \in Loaded : kind[p] # "library"
  BY DEF ManagerTypes, TypeOK, LoadedOnce
<1>1. CASE Construct(t)
  <2> DEFINE p == Head(work[t]).name
  <2>1. /\ NextIs(t, "load") /\ Done(t) /\ Disturbs(t)
        /\ loaded' = IF kind[p] = "library" \/ p \in Loaded THEN loaded ELSE Append(loaded, p)
        /\ UNCHANGED <<updates, kind, graph, reloading, pos, last>>
    BY <1>1 DEF Construct
  <2>2. work[t] # <<>> /\ p \in Packages
    BY <1>0, <2>1, HeadTypes
  <2>3. work' \in [Threads -> Seq(Work)]
    BY <1>0, <2>1, <2>2, DoneTypes
  <2> HIDE DEF p
  <2>4. /\ loaded' \in Seq(Packages) /\ IsInjective(loaded')
        /\ \A q \in Loaded' : kind[q] # "library"
    <3>1. CASE kind[p] = "library" \/ p \in Loaded
      <4>1. loaded' = loaded /\ Loaded' = Loaded
        BY <2>1, <3>1 DEF Loaded
      <4> QED
        BY <1>0, <4>1
    <3>2. CASE kind[p] # "library" /\ p \notin Loaded
      <4>1. loaded' = Append(loaded, p) /\ p \in Packages \ Loaded
        BY <2>1, <2>2, <3>2
      <4>2. /\ Append(loaded, p) \in Seq(Packages) /\ IsInjective(Append(loaded, p))
            /\ ToSet(Append(loaded, p)) = Loaded \cup {p}
        BY <1>0, <4>1, AppendedFacts
      <4>3. Loaded' = Loaded \cup {p}
        BY <4>1, <4>2 DEF Loaded
      <4> QED
        BY <1>0, <3>2, <4>1, <4>2, <4>3
    <3> QED
      BY <3>1, <3>2
  <2>5. pc' \in {"between", "running", "broken"} /\ (pc' = "running" => pc = "running")
    BY <2>1 DEF Disturbs, ManagerTypes, TypeOK
  <2> QED
    BY <2>1, <2>3, <2>4, <2>5 DEF ManagerTypes, TypeOK, LoadedOnce
<1>2. CASE ConstructFails(t)
  <2>1. Queue(t, <<>>) /\ Steady /\ reloading' = reloading
    BY <1>2 DEF ConstructFails, Queue, Steady
  <2>2. <<>> \in Seq(Work)
    OBVIOUS
  <2> QED
    BY <1>0, <2>1, <2>2, QueueKeepsTypes
<1>3. CASE Destroy(t)
  <2> DEFINE p == Head(work[t]).name
  <2>1. /\ NextIs(t, "unload") /\ Done(t) /\ loaded' = Without(p)
        /\ UNCHANGED <<updates, kind, graph, reloading, pc, pos, last>>
    BY <1>3 DEF Destroy
  <2>2. work[t] # <<>>
    BY <2>1 DEF NextIs
  <2>3. work' \in [Threads -> Seq(Work)]
    BY <1>0, <2>1, <2>2, DoneTypes
  <2> HIDE DEF p
  <2>4. /\ Without(p) \in Seq(Packages) /\ IsInjective(Without(p))
        /\ ToSet(Without(p)) = Loaded \ {p}
    BY <1>0, WithoutFacts
  <2>5. Loaded' = Loaded \ {p}
    BY <2>1, <2>4 DEF Loaded
  <2> QED
    BY <1>0, <2>1, <2>3, <2>4, <2>5 DEF ManagerTypes, TypeOK, LoadedOnce
<1>4. CASE LoadAgain(t)
  <2> DEFINE walk == LoadOrder(graph, reloading[t])
             w == IF walk.error = "none" THEN Op("load", walk.results) ELSE <<>>
  <2>1. Queue(t, w) /\ Steady /\ reloading' \in [Threads -> Seq(Packages)]
    BY <1>0, <1>4 DEF LoadAgain, Steady
  <2>2. walk.results \in Seq(Packages)
    BY <1>0, OrderTypes
  <2> HIDE DEF walk
  <2>3. w \in Seq(Work)
    BY <2>2, OpFacts
  <2> HIDE DEF w
  <2> QED
    BY <2>1, <2>3, QueueKeepsTypes
<1>5. CASE RemovePackage(t)
  <2>1. /\ NextIs(t, "uninstall") /\ Done(t) /\ graph' = Removed(graph, Head(work[t]).name)
        /\ UNCHANGED <<updates, kind, loaded, reloading, pc, pos, last>>
    BY <1>5 DEF RemovePackage, Removed
  <2>2. work[t] # <<>>
    BY <2>1 DEF NextIs
  <2>3. work' \in [Threads -> Seq(Work)]
    BY <1>0, <2>1, <2>2, DoneTypes
  <2>4. IsGraph(graph')
    BY <1>0, <2>1, RemovedFacts
  <2>5. Loaded' = Loaded
    BY <2>1 DEF Loaded
  <2> QED
    BY <2>1, <2>3, <2>4, <2>5 DEF ManagerTypes, TypeOK, LoadedOnce
<1> QED
  BY <1>1, <1>2, <1>3, <1>4, <1>5 DEF ThreadStep

\* run_until_idle.
LEMMA RunKeepsTypes ==
    ASSUME ManagerTypes, Run
    PROVE  ManagerTypes'
<1>0. /\ IsGraph(graph) /\ loaded \in Seq(Packages) /\ IsInjective(loaded)
      /\ work \in [Threads -> Seq(Work)] /\ reloading \in [Threads -> Seq(Packages)] /\ "game" \in Threads
      /\ last \in 0 .. PackageCount /\ pos \in 0 .. last + 1
  BY DEF ManagerTypes, TypeOK, LoadedOnce, Threads
<1>1. Loaded' = Loaded
  BY DEF Loaded, Run, BeginRun, RunAddon, RunFails, RunPastEnd, EndRun
<1>2. CASE BeginRun
  <2>1. Len(loaded) \in 0 .. PackageCount
    BY <1>0, LengthBound
  <2>2. Len(loaded) \in Nat \ {0}
    BY <1>0, <1>2 DEF BeginRun
  <2>3. /\ pos' = 1 /\ last' = Len(loaded) /\ pc' = "running"
        /\ UNCHANGED <<updates, kind, graph, loaded, work, reloading>>
    BY <1>2 DEF BeginRun
  <2>4. last' \in 0 .. PackageCount /\ pos' \in 0 .. last' + 1 /\ pos' # 0
    BY <2>1, <2>2, <2>3
  <2> QED
    BY <1>1, <2>3, <2>4 DEF ManagerTypes, TypeOK, LoadedOnce
<1>3. CASE RunAddon
  <2>1. /\ pos' = pos + 1 /\ pos <= last
        /\ UNCHANGED <<updates, kind, graph, loaded, work, reloading, pc, last>>
    BY <1>3 DEF RunAddon, AtAddon
  <2>2. pos' \in 0 .. last + 1 /\ pos' # 0
    BY <1>0, <2>1
  <2> QED
    BY <1>1, <2>1, <2>2 DEF ManagerTypes, TypeOK, LoadedOnce
<1>4. CASE RunFails
  <2> DEFINE w == Op("unload", UnloadOrder(graph, <<loaded[pos]>>))
  <2>1. /\ pos' = pos + 1 /\ pos <= last /\ pos <= Len(loaded) /\ pc = "running" /\ Queue("game", w)
        /\ UNCHANGED <<updates, kind, graph, loaded, reloading, pc, last>>
    BY <1>4 DEF RunFails, AtAddon, Unloading
  <2>2. pos' \in 0 .. last + 1 /\ pos' # 0
    BY <1>0, <2>1
  <2>3. loaded[pos] \in Packages
    <3>1. pos # 0
      BY <2>1 DEF ManagerTypes
    <3>2. pos \in 1 .. Len(loaded)
      BY <1>0, <2>1, <3>1
    <3> QED
      BY <1>0, <3>2
  <2>4. UnloadOrder(graph, <<loaded[pos]>>) \in Seq(Packages)
    BY <1>0, <2>3, OrderTypes, GivenTypes
  <2>5. w \in Seq(Work)
    BY <2>4, OpFacts
  <2> HIDE DEF w
  <2>6. work' \in [Threads -> Seq(Work)]
    BY <1>0, <2>1, <2>5, QueueTypes
  <2> QED
    BY <1>1, <2>1, <2>2, <2>6 DEF ManagerTypes, TypeOK, LoadedOnce
<1>5. CASE RunPastEnd
  BY <1>1, <1>5 DEF RunPastEnd, ManagerTypes, TypeOK, LoadedOnce
<1>6. CASE EndRun
  <2>1. /\ pc' = "between" /\ pos' = 0 /\ last' = 0
        /\ UNCHANGED <<updates, kind, graph, loaded, work, reloading>>
    BY <1>6 DEF EndRun
  <2>2. last' \in 0 .. PackageCount /\ pos' \in 0 .. last' + 1
    BY <2>1, PackageCountAssumption
  <2> QED
    BY <1>1, <2>1, <2>2 DEF ManagerTypes, TypeOK, LoadedOnce
<1> QED
  BY <1>2, <1>3, <1>4, <1>5, <1>6 DEF Run

LEMMA BeginsTyped == Init => ManagerTypes
<1> SUFFICES ASSUME Init
             PROVE  ManagerTypes
  OBVIOUS
<1>1. PICK game \in Games : updates = game.updates /\ kind = game.kind /\ graph = game.graph
  BY DEF Init
<1>2. updates \in BOOLEAN /\ kind \in PackageKinds /\ IsGraph(graph)
  BY <1>1, ManagerAssumption
<1>3. loaded = <<>> /\ DOMAIN loaded = {} /\ Loaded = {} /\ loaded \in Seq(Packages)
  BY DEF Init, Loaded, ToSet
<1>4. /\ work \in [Threads -> Seq(Work)] /\ reloading \in [Threads -> Seq(Packages)]
      /\ pc = "between" /\ pos \in 0 .. last + 1 /\ last \in 0 .. PackageCount
  BY PackageCountAssumption DEF Init
<1> QED
  BY <1>2, <1>3, <1>4 DEF ManagerTypes, TypeOK, LoadedOnce, IsInjective

LEMMA TypesKept == ManagerTypes /\ [Next]_vars => ManagerTypes'
<1>1. ASSUME ManagerTypes, UNCHANGED vars
      PROVE  ManagerTypes'
  <2>1. Loaded' = Loaded
    BY <1>1 DEF vars, Loaded
  <2> QED
    BY <1>1, <2>1 DEF vars, ManagerTypes, TypeOK, LoadedOnce
<1> QED
  BY <1>1, CommandKeepsTypes, ThreadStepKeepsTypes, RunKeepsTypes DEF Next

\* The state is of its types in every reachable state, an addon is loaded once, and
\* the loop of run_until_idle does not begin before the first addon.
THEOREM ManagerTyped == Spec => []ManagerTypes
BY BeginsTyped, TypesKept, PTL DEF Spec

\* m_loaded_addons has no addon twice and no library, whatever the threads of the
\* game and of the updates do in between (addon_manager.cpp, load and unload).
THEOREM LoadedOnceHolds == Spec => [](TypeOK /\ LoadedOnce)
<1>1. ManagerTypes => TypeOK /\ LoadedOnce
  BY DEF ManagerTypes
<1> QED
  BY <1>1, ManagerTyped, PTL

-----------------------------------------------------------------------------
(***************************************************************************)
(* What is loaded has what it needs, as long as no update ends.            *)
(***************************************************************************)

\* No package depends on itself when a game begins.
NoCycles == \A game \in Games : Acyclic(game.graph)

\* What is loaded is installed, and what is to be done can be done.
Sound(G, K, L, w) ==
    /\ L \subseteq Installed(G) /\ WorkSound(G, K, L, w)
    /\ NoCycles => /\ Acyclic(G) /\ Unloadable(G, K, L, w)
                   /\ \A p \in L : NeededBy(G, K, p) \subseteq L

\* As long as no update ends, only the game's thread has work, and it is sound.
Quiet ==
    ~updates => /\ work["updater"] = <<>> /\ reloading["updater"] = <<>>
                /\ Sound(graph, kind, Loaded, work["game"])

LEMMA QueueKeepsQuiet ==
    ASSUME ManagerTypes, Quiet, Steady, NEW w \in Seq(Work), Queue("game", w),
           reloading'["updater"] = reloading["updater"],
           ~updates => /\ WorkSound(graph, kind, Loaded, w)
                       /\ NoCycles => Unloadable(graph, kind, Loaded, w)
    PROVE  Quiet'
<1>1. /\ "game" \in Threads /\ "updater" \in Threads \ {"game"}
      /\ work \in [Threads -> Seq(Work)]
  BY DEF ManagerTypes, TypeOK, Threads
<1>2. work'["game"] = w /\ work'["updater"] = work["updater"]
  BY <1>1, QueueTypes
<1>3. Loaded' = Loaded /\ graph' = graph /\ kind' = kind /\ updates' = updates
  BY DEF Steady, Loaded
<1> QED
  BY <1>2, <1>3 DEF Quiet, Sound

\* The orders are as they should be.
LEMMA UnloadsSound ==
    ASSUME NEW G, IsGraph(G), NEW K, NEW L \in SUBSET Installed(G), NEW ns \in Seq(Packages),
           NoCycles => Acyclic(G)
    PROVE  /\ Op("unload", UnloadOrder(G, ns)) \in Seq(Work)
           /\ WorkSound(G, K, L, Op("unload", UnloadOrder(G, ns)))
           /\ NoCycles => Unloadable(G, K, L, Op("unload", UnloadOrder(G, ns)))
<1>1. UnloadOrder(G, ns) \in Seq(Packages)
  BY UnloadOrderIsSound
<1>2. NoCycles => Falls(G, K, L, UnloadOrder(G, ns))
  BY UnloadOrderFalls
<1> QED
  BY <1>1, <1>2, FallsSound

LEMMA ReloadsSound ==
    ASSUME IsGraph(graph), loaded \in Seq(Packages), NEW K, Loaded \subseteq Installed(graph),
           NEW ns \in Seq(Packages), NoCycles => Acyclic(graph)
    PROVE  /\ Op("unload", ToUnload(ns)) \in Seq(Work)
           /\ WorkSound(graph, K, Loaded, Op("unload", ToUnload(ns)))
           /\ NoCycles => Unloadable(graph, K, Loaded, Op("unload", ToUnload(ns)))
<1>1. UnloadOrder(graph, ns) \in Seq(Packages) /\ ToUnload(ns) \in Seq(Packages)
  BY OrderTypes
<1>2. NoCycles => Falls(graph, K, Loaded, UnloadOrder(graph, ns))
  BY UnloadOrderFalls
<1>3. NoCycles => Falls(graph, K, Loaded, ToUnload(ns))
  BY <1>1, <1>2, ThoseFall DEF ToUnload, OfLoaded
<1> QED
  BY <1>1, <1>3, FallsSound

LEMMA CommandKeepsQuiet ==
    ASSUME ManagerTypes, Quiet, Command
    PROVE  Quiet'
<1>0. /\ IsGraph(graph) /\ loaded \in Seq(Packages)
      /\ reloading \in [Threads -> Seq(Packages)]
      /\ ~updates => Loaded \subseteq Installed(graph) /\ (NoCycles => Acyclic(graph))
  BY DEF ManagerTypes, TypeOK, Quiet, Sound
<1>1. ASSUME NEW p \in Packages, Load(p)
      PROVE  Quiet'
  <2> DEFINE w == Op("load", LoadOrder(graph, <<p>>).results)
  <2>1. Queue("game", w) /\ Steady /\ reloading' = reloading /\ LoadOrder(graph, <<p>>).error = "none"
    BY <1>1 DEF Load, Steady
  <2>2. LoadOrder(graph, <<p>>).results \in Seq(Packages)
    BY <1>0, OrderTypes, GivenTypes
  <2>3. w \in Seq(Work)
    BY <2>2, OpFacts
  <2>4. WorkSound(graph, kind, Loaded, w) /\ Unloadable(graph, kind, Loaded, w)
    BY <1>0, <2>1, GivenTypes, LoadsSound
  <2> HIDE DEF w
  <2> QED
    BY <2>1, <2>3, <2>4, QueueKeepsQuiet
<1>2. ASSUME NEW ns \in Seq(Packages), Queue("game", Op("unload", UnloadOrder(graph, ns))),
             Steady, reloading' = reloading
      PROVE  Quiet'
  <2> DEFINE w == Op("unload", UnloadOrder(graph, ns))
  <2>1. w \in Seq(Work)
    BY <1>0, OrderTypes, OpFacts
  <2>2. ~updates => /\ WorkSound(graph, kind, Loaded, w)
                    /\ NoCycles => Unloadable(graph, kind, Loaded, w)
    BY <1>0, UnloadsSound
  <2>3. Queue("game", w)
    BY <1>2
  <2> HIDE DEF w
  <2> QED
    BY <1>2, <2>1, <2>2, <2>3, QueueKeepsQuiet
<1>3. ASSUME NEW p \in Packages, Unload(p)
      PROVE  Quiet'
  <2>1. Queue("game", Op("unload", UnloadOrder(graph, <<p>>))) /\ Steady /\ reloading' = reloading
    BY <1>3 DEF Unload, Steady
  <2> QED
    BY <1>2, <2>1, GivenTypes
<1>4. ASSUME UnloadAll
      PROVE  Quiet'
  <2>1. /\ Queue("game", Op("unload", UnloadOrder(graph, InstalledInOrder(graph))))
        /\ Steady /\ reloading' = reloading
    BY <1>4 DEF UnloadAll, Steady
  <2>2. InstalledInOrder(graph) \in Seq(Packages)
    BY <1>0, InstalledFacts
  <2> QED
    BY <1>2, <2>1, <2>2
<1>5. ASSUME NEW ns \in Seq(Packages), BeginReload("game", ns), Steady
      PROVE  Quiet'
  <2> DEFINE w == Op("unload", ToUnload(ns))
  <2>1. /\ Queue("game", w)
        /\ reloading'["updater"] = reloading["updater"]
    BY <1>0, <1>5 DEF BeginReload, Threads
  <2>2. w \in Seq(Work)
    BY <1>0, OrderTypes, OpFacts
  <2>3. ~updates => /\ WorkSound(graph, kind, Loaded, w)
                    /\ NoCycles => Unloadable(graph, kind, Loaded, w)
    BY <1>0, ReloadsSound
  <2> HIDE DEF w
  <2> QED
    BY <1>5, <2>1, <2>2, <2>3, QueueKeepsQuiet
<1>6. ASSUME NEW p \in Packages, Reload(p)
      PROVE  Quiet'
  <2>1. BeginReload("game", <<p>>) /\ Steady
    BY <1>6 DEF Reload, Steady
  <2> QED
    BY <1>5, <2>1, GivenTypes
<1>7. ASSUME ReloadAll
      PROVE  Quiet'
  <2>1. BeginReload("game", loaded) /\ Steady
    BY <1>7 DEF ReloadAll, Steady
  <2> QED
    BY <1>0, <1>5, <2>1
<1>8. ASSUME NEW p \in Packages, Uninstall(p)
      PROVE  Quiet'
  <2> DEFINE w == Op("unload", UnloadOrder(graph, <<p>>)) \o Op("uninstall", <<p>>)
  <2>1. /\ Queue("game", w) /\ Steady /\ reloading' = reloading
        /\ ToSet(UnloadOrder(graph, <<p>>)) \subseteq {p}
    BY <1>8 DEF Uninstall, Uninstallable, Steady
  <2>2. w \in Seq(Work)
    <3>1. UnloadOrder(graph, <<p>>) \in Seq(Packages)
      BY <1>0, OrderTypes, GivenTypes
    <3>2. Op("unload", UnloadOrder(graph, <<p>>)) \in Seq(Work) /\ Op("uninstall", <<p>>) \in Seq(Work)
      BY <3>1, OpFacts, GivenTypes
    <3> QED
      BY <3>2
  <2>3. ~updates => WorkSound(graph, kind, Loaded, w) /\ Unloadable(graph, kind, Loaded, w)
    BY <1>0, <2>1, UninstallSound
  <2> HIDE DEF w
  <2> QED
    BY <2>1, <2>2, <2>3, QueueKeepsQuiet
<1>9. ASSUME NEW p \in Packages, Updated(p)
      PROVE  Quiet'
  BY <1>9 DEF Updated, Quiet
<1> QED
  BY <1>1, <1>3, <1>4, <1>6, <1>7, <1>8, <1>9 DEF Command

\* A package is loaded.
LEMMA ConstructSound ==
    ASSUME NEW G, IsGraph(G), NEW K, NEW L, NEW w \in Seq(Work), w # <<>>, w[1].op = "load",
           Sound(G, K, L, w), NEW M,
           M = IF K[w[1].name] = "library" \/ w[1].name \in L THEN L ELSE L \cup {w[1].name}
    PROVE  Sound(G, K, M, Tail(w))
<1>1. WorkSound(G, K, M, Tail(w)) /\ Unloadable(G, K, M, Tail(w))
  BY TailLoads DEF Sound
<1>2. w[1].name \in Installed(G) /\ NeededBy(G, K, w[1].name) \subseteq L
  BY NextLoads DEF Sound, WorkSound
<1> QED
  BY <1>1, <1>2 DEF Sound

\* A package is unloaded.
LEMMA DestroySound ==
    ASSUME NEW G, NEW K, NEW L, NEW w \in Seq(Work), w # <<>>, w[1].op = "unload",
           Sound(G, K, L, w)
    PROVE  Sound(G, K, L \ {w[1].name}, Tail(w))
<1> DEFINE p == w[1].name
           M == L \ {p}
<1>1. /\ WorkSound(G, K, M, Tail(w))
      /\ NoCycles => /\ Unloadable(G, K, M, Tail(w))
                     /\ \A r \in M : p \notin NeededBy(G, K, r)
  BY TailUnloads DEF Sound
<1>2. ASSUME NoCycles, NEW r \in M
      PROVE  NeededBy(G, K, r) \subseteq M
  BY <1>1, <1>2 DEF Sound
<1> QED
  BY <1>1, <1>2 DEF Sound

\* A package is removed.
LEMMA RemoveSound ==
    ASSUME NEW G, IsGraph(G), NEW K, NEW L, NEW w \in Seq(Work), w # <<>>,
           w[1].op = "uninstall", Sound(G, K, L, w)
    PROVE  Sound(Removed(G, w[1].name), K, L, Tail(w))
<1> DEFINE n == w[1].name
           H == Removed(G, n)
<1>1. 1 \in DOMAIN w /\ 1 .. 1 - 1 = {} /\ Len(w) \in Nat
  BY TailFacts
<1>2. 1 = Len(w) /\ n \notin L
  BY <1>1 DEF Sound, WorkSound, Removable
<1>3. Tail(w) = <<>>
  <2>1. Tail(w) \in Seq(Work) /\ Len(Tail(w)) = Len(w) - 1
    BY TailFacts
  <2> QED
    BY <1>2, <2>1
<1>4. WorkSound(H, K, L, Tail(w)) /\ Unloadable(H, K, L, Tail(w))
  BY <1>3, NothingSound
<1>5. Installed(H) = Installed(G) \ {n}
  BY RemovedFacts
<1>6. L \subseteq Installed(H)
  BY <1>2, <1>5 DEF Sound
<1>7. ASSUME NoCycles
      PROVE  Acyclic(H)
  BY <1>7, RemovedAcyclic DEF Sound
<1>8. ASSUME NoCycles, NEW p \in L
      PROVE  NeededBy(H, K, p) \subseteq L
  <2>1. p \in Installed(G) \ {n}
    BY <1>5, <1>6
  <2>2. NeededBy(H, K, p) \subseteq NeededBy(G, K, p)
    BY <2>1, RemovedNeeds
  <2> QED
    BY <1>8, <2>2 DEF Sound
<1> QED
  BY <1>4, <1>6, <1>7, <1>8 DEF Sound

LEMMA ThreadStepKeepsQuiet ==
    ASSUME ManagerTypes, Quiet, NEW t \in Threads, ThreadStep(t)
    PROVE  Quiet'
<1>0. /\ IsGraph(graph) /\ loaded \in Seq(Packages) /\ work \in [Threads -> Seq(Work)]
      /\ reloading \in [Threads -> Seq(Packages)] /\ IsInjective(loaded)
      /\ "game" \in Threads /\ "updater" \in Threads \ {"game"}
      /\ \A u \in Threads : u = "game" \/ u = "updater"
  BY DEF ManagerTypes, TypeOK, LoadedOnce, Threads
<1> DEFINE w == work["game"]
           p == w[1].name
<1>1. updates' = updates
  BY DEF ThreadStep, Construct, ConstructFails, Destroy, LoadAgain, RemovePackage
<1> SUFFICES ASSUME ~updates
             PROVE  /\ work'["updater"] = <<>> /\ reloading'["updater"] = <<>>
                    /\ Sound(graph', kind', Loaded', work'["game"])
  BY <1>1 DEF Quiet
<1>2. work["updater"] = <<>> /\ reloading["updater"] = <<>> /\ Sound(graph, kind, Loaded, w)
  BY DEF Quiet
<1>3. t = "game"
  BY <1>0, <1>2 DEF ThreadStep, NextIs, Construct, ConstructFails, Destroy, LoadAgain, RemovePackage
<1>4. ASSUME NEW o, NextIs(t, o)
      PROVE  w \in Seq(Work) /\ w # <<>> /\ Head(w) = w[1] /\ w[1].op = o /\ p \in Packages
  BY <1>0, <1>3, <1>4, HeadTypes
<1>5. ASSUME w # <<>>, Done(t)
      PROVE  work'["game"] = Tail(w) /\ work'["updater"] = work["updater"]
  BY <1>0, <1>3, <1>5, DoneTypes
<1> HIDE DEF w, p
<1>6. CASE Construct(t)
  <2>1. NextIs(t, "load")
    BY <1>6 DEF Construct
  <2>2. w \in Seq(Work) /\ w # <<>> /\ Head(w) = w[1] /\ w[1].op = "load" /\ p \in Packages
    BY <1>4, <2>1
  <2>3. /\ Done(t) /\ graph' = graph /\ kind' = kind /\ reloading' = reloading
        /\ loaded' = IF kind[p] = "library" \/ p \in Loaded THEN loaded ELSE Append(loaded, p)
    BY <1>3, <1>6, <2>2 DEF Construct, w, p
  <2>4. Loaded' = IF kind[p] = "library" \/ p \in Loaded THEN Loaded ELSE Loaded \cup {p}
    <3>1. CASE kind[p] = "library" \/ p \in Loaded
      BY <2>3, <3>1 DEF Loaded
    <3>2. CASE kind[p] # "library" /\ p \notin Loaded
      <4>1. ToSet(Append(loaded, p)) = Loaded \cup {p}
        BY <1>0, <2>2, <3>2, AppendedFacts
      <4> QED
        BY <2>3, <3>2, <4>1 DEF Loaded
    <3> QED
      BY <3>1, <3>2
  <2>5. Sound(graph, kind, Loaded', Tail(w))
    <3>1. Loaded' = IF kind[w[1].name] = "library" \/ w[1].name \in Loaded THEN Loaded ELSE Loaded \cup {w[1].name}
      BY <2>4 DEF p
    <3> QED
      BY <1>0, <1>2, <2>2, <3>1, ConstructSound
  <2> QED
    BY <1>2, <1>5, <2>2, <2>3, <2>5
<1>7. CASE ConstructFails(t)
  <2>1. /\ work' = [work EXCEPT ![t] = <<>>] /\ Steady /\ reloading' = reloading
    BY <1>7 DEF ConstructFails, Steady
  <2>2. work'["game"] = <<>> /\ work'["updater"] = work["updater"]
    BY <1>0, <1>3, <2>1
  <2>3. Loaded' = Loaded /\ graph' = graph /\ kind' = kind
    BY <2>1 DEF Steady, Loaded
  <2>4. WorkSound(graph, kind, Loaded, <<>>) /\ Unloadable(graph, kind, Loaded, <<>>)
    BY NothingSound
  <2>5. Sound(graph, kind, Loaded, <<>>)
    BY <1>2, <2>4 DEF Sound
  <2> QED
    BY <1>2, <2>1, <2>2, <2>3, <2>5
<1>8. CASE Destroy(t)
  <2>1. NextIs(t, "unload")
    BY <1>8 DEF Destroy
  <2>2. w \in Seq(Work) /\ w # <<>> /\ Head(w) = w[1] /\ w[1].op = "unload"
    BY <1>4, <2>1
  <2>3. /\ Done(t) /\ graph' = graph /\ kind' = kind /\ reloading' = reloading
        /\ loaded' = Without(p)
    BY <1>3, <1>8, <2>2 DEF Destroy, w, p
  <2>4. ToSet(Without(p)) = Loaded \ {p}
    BY <1>0, WithoutFacts
  <2>5. Loaded' = Loaded \ {p}
    BY <2>3, <2>4 DEF Loaded
  <2>6. Sound(graph, kind, Loaded \ {p}, Tail(w))
    BY <1>2, <2>2, DestroySound DEF p
  <2> QED
    BY <1>2, <1>5, <2>2, <2>3, <2>5, <2>6
<1>9. CASE LoadAgain(t)
  <2> DEFINE walk == LoadOrder(graph, reloading[t])
             v == IF walk.error = "none" THEN Op("load", walk.results) ELSE <<>>
  <2>1. Queue(t, v) /\ Steady /\ reloading' = [reloading EXCEPT ![t] = <<>>]
    BY <1>9 DEF LoadAgain, Steady
  <2>2. walk.results \in Seq(Packages)
    BY <1>0, OrderTypes
  <2>3. v \in Seq(Work)
    <3> HIDE DEF walk
    <3> QED
      BY <2>2, OpFacts
  <2>4. WorkSound(graph, kind, Loaded, v) /\ Unloadable(graph, kind, Loaded, v)
    <3>1. CASE walk.error = "none"
      BY <1>0, <3>1, LoadsSound
    <3>2. CASE walk.error # "none"
      <4> HIDE DEF walk
      <4> QED
        BY <3>2, NothingSound
    <3> QED
      BY <3>1, <3>2
  <2>5. reloading'["updater"] = reloading["updater"]
    BY <1>0, <1>3, <2>1
  <2> HIDE DEF v
  <2>6. Quiet'
    BY <1>3, <2>1, <2>3, <2>4, <2>5, QueueKeepsQuiet
  <2> QED
    BY <1>1, <2>6 DEF Quiet
<1>10. CASE RemovePackage(t)
  <2>1. NextIs(t, "uninstall")
    BY <1>10 DEF RemovePackage
  <2>2. w \in Seq(Work) /\ w # <<>> /\ Head(w) = w[1] /\ w[1].op = "uninstall"
    BY <1>4, <2>1
  <2>3. /\ Done(t) /\ graph' = Removed(graph, p) /\ kind' = kind /\ reloading' = reloading
        /\ loaded' = loaded
    BY <1>3, <1>10, <2>2 DEF RemovePackage, Removed, w, p
  <2>4. Loaded' = Loaded
    BY <2>3 DEF Loaded
  <2>5. Sound(Removed(graph, p), kind, Loaded, Tail(w))
    BY <1>0, <1>2, <2>2, RemoveSound DEF p
  <2> QED
    BY <1>2, <1>5, <2>2, <2>3, <2>4, <2>5
<1> QED
  BY <1>6, <1>7, <1>8, <1>9, <1>10 DEF ThreadStep

LEMMA RunKeepsQuiet ==
    ASSUME ManagerTypes, Quiet, Run
    PROVE  Quiet'
<1>1. ASSUME UNCHANGED <<updates, kind, graph, loaded, work, reloading>>
      PROVE  Quiet'
  <2>1. Loaded' = Loaded
    BY <1>1 DEF Loaded
  <2> QED
    BY <1>1, <2>1 DEF Quiet
<1>2. CASE RunFails
  <2> DEFINE s == <<loaded[pos]>>
             w == Op("unload", UnloadOrder(graph, s))
  <2>1. /\ Queue("game", w) /\ UNCHANGED <<updates, kind, graph, loaded, reloading>>
        /\ pos <= Len(loaded) /\ pc = "running"
    BY <1>2 DEF RunFails, AtAddon, Unloading
  <2>2. /\ "game" \in Threads /\ "updater" \in Threads \ {"game"} /\ IsGraph(graph)
        /\ work \in [Threads -> Seq(Work)] /\ loaded \in Seq(Packages)
        /\ pos \in 0 .. last + 1 /\ last \in 0 .. PackageCount /\ pos # 0
    BY <2>1 DEF ManagerTypes, TypeOK, Threads
  <2>3. loaded[pos] \in Packages
    <3>1. pos \in 1 .. Len(loaded)
      BY <2>1, <2>2
    <3> QED
      BY <2>2, <3>1
  <2>4. s \in Seq(Packages)
    BY <2>3, GivenTypes
  <2> HIDE DEF s
  <2>5. w \in Seq(Work)
    BY <2>2, <2>4, OrderTypes, OpFacts
  <2>6. ~updates => /\ Loaded \subseteq Installed(graph) /\ WorkSound(graph, kind, Loaded, w)
                    /\ NoCycles => Unloadable(graph, kind, Loaded, w)
    BY <2>2, <2>4, UnloadsSound DEF Quiet, Sound
  <2> HIDE DEF w
  <2>7. work'["game"] = w /\ work'["updater"] = work["updater"]
    BY <2>1, <2>2, <2>5, QueueTypes
  <2>8. Loaded' = Loaded
    BY <2>1 DEF Loaded
  <2> QED
    BY <2>1, <2>6, <2>7, <2>8 DEF Quiet, Sound
<1> QED
  BY <1>1, <1>2 DEF Run, BeginRun, RunAddon, RunPastEnd, EndRun

LEMMA BeginsQuiet == Init => Quiet
<1> SUFFICES ASSUME Init
             PROVE  Quiet
  OBVIOUS
<1>1. PICK game \in Games : updates = game.updates /\ kind = game.kind /\ graph = game.graph
  BY DEF Init
<1>2. Loaded = {}
  BY DEF Init, Loaded, ToSet
<1>3. work["game"] = <<>> /\ work["updater"] = <<>> /\ reloading["updater"] = <<>>
  BY DEF Init, Threads
<1>4. WorkSound(graph, kind, Loaded, <<>>) /\ Unloadable(graph, kind, Loaded, <<>>)
  BY NothingSound
<1>5. NoCycles => Acyclic(graph)
  BY <1>1 DEF NoCycles
<1> QED
  BY <1>2, <1>3, <1>4, <1>5 DEF Quiet, Sound

LEMMA QuietKept == ManagerTypes /\ Quiet /\ [Next]_vars => Quiet'
<1>1. ASSUME Quiet, UNCHANGED vars
      PROVE  Quiet'
  <2>1. Loaded' = Loaded
    BY <1>1 DEF vars, Loaded
  <2> QED
    BY <1>1, <2>1 DEF vars, Quiet
<1> QED
  BY <1>1, CommandKeepsQuiet, ThreadStepKeepsQuiet, RunKeepsQuiet DEF Next

\* As long as no update ends, what is loaded is installed, and what the game's thread
\* has still to do can be done in its order.
THEOREM ManagerQuiet == Spec => []Quiet
<1>1. ManagerTypes /\ Quiet /\ [Next]_vars => ManagerTypes' /\ Quiet'
  BY TypesKept, QuietKept
<1> QED
  BY <1>1, BeginsTyped, BeginsQuiet, PTL DEF Spec

LEMMA NeedsAre == \A p : Needs(p) = NeededBy(graph, kind, p)
BY DEF Needs, NeedsWithin, NeededBy, NeededWithin

\* When no package depends on itself, by whatever way, a loaded addon has what it
\* needs loaded in every state: within a command, after one that failed, and while
\* the frame's loop unloads what threw (addon_manager.cpp, load, unload, reload and
\* run_until_idle).
THEOREM DependenciesLoadedHolds ==
    ASSUME NoCycles
    PROVE  Spec => []DependenciesLoaded
<1>1. Quiet => DependenciesLoaded
  <2> SUFFICES ASSUME Quiet, ~updates, NEW p \in Loaded
               PROVE  p \in Installed(graph) /\ Needs(p) \subseteq Loaded
    BY DEF DependenciesLoaded
  <2>1. p \in Installed(graph) /\ NeededBy(graph, kind, p) \subseteq Loaded
    BY DEF Quiet, Sound
  <2> QED
    BY <2>1, NeedsAre
<1> QED
  BY <1>1, ManagerQuiet, PTL

LEMMA OnlyRemovePackage ==
    ASSUME ManagerTypes, [Next]_vars, ~updates, graph' # graph
    PROVE  \E t \in Threads : RemovePackage(t)
BY DEF Next, vars, Command, Load, Unload, Reload, BeginReload, Uninstall, Updated, ReloadAll, UnloadAll,
       ThreadStep, Construct, ConstructFails, Destroy, LoadAgain, Run, BeginRun, RunAddon, RunFails,
       RunPastEnd, EndRun

\* With cycles or without, /uninstall takes away nothing that an installed package
\* depends on: what it looked at when it was given is still so when the package is
\* removed (command_handlers.cpp, uninstall).
THEOREM NoneOrphanedHolds == Spec => NoneOrphaned
<1>1. ASSUME ManagerTypes, Quiet, [Next]_vars, ~updates, graph' # graph,
             NEW p \in Installed(graph'), NEW q \in Installed(graph), DependsOn(graph, p, q)
      PROVE  q \in Installed(graph')
  <2>1. PICK t \in Threads : RemovePackage(t)
    BY <1>1, OnlyRemovePackage
  <2>2. /\ work["updater"] = <<>> /\ Sound(graph, kind, Loaded, work["game"])
        /\ IsGraph(graph) /\ work \in [Threads -> Seq(Work)]
    BY <1>1 DEF Quiet, ManagerTypes, TypeOK
  <2>3. NextIs(t, "uninstall")
    BY <2>1 DEF RemovePackage
  <2>4. t = "game"
    BY <2>2, <2>3 DEF NextIs, Threads
  <2> DEFINE w == work["game"]
             n == w[1].name
  <2>5. w \in Seq(Work) /\ w # <<>> /\ Head(w) = w[1] /\ w[1].op = "uninstall"
    BY <2>2, <2>3, <2>4, HeadTypes
  <2>6. graph' = Removed(graph, n)
    BY <2>1, <2>4, <2>5 DEF RemovePackage, Removed
  <2> HIDE DEF w
  <2>7. 1 \in DOMAIN w
    BY <2>5, TailFacts
  <2>8. n \in Installed(graph) => \A a \in Installed(graph) \ {n} : ~DependsOn(graph, a, n)
    BY <2>2, <2>5, <2>7 DEF Sound, WorkSound, Removable, w
  <2>9. Installed(graph') = Installed(graph) \ {n}
    BY <2>2, <2>6, RemovedFacts
  <2> QED
    BY <1>1, <2>8, <2>9
<1>2. ManagerTypes /\ Quiet /\ [Next]_vars =>
         [~updates => \A p \in Installed(graph'), q \in Installed(graph) :
               DependsOn(graph, p, q) => q \in Installed(graph')]_graph
  BY <1>1
<1> QED
  BY <1>2, ManagerTyped, ManagerQuiet, PTL DEF Spec, NoneOrphaned
================================================================================
