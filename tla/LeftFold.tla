------------------------------ MODULE LeftFold ------------------------------
(***************************************************************************)
(* Induction over the samples of a span.  FoldLeft of the community        *)
(* modules is defined over sets of indices; here a fold of a step is shown *)
(* to take that step from left to right, so that what every step keeps     *)
(* holds of the fold.  The stages of ReceivePath are such folds, and every *)
(* one of them instantiates this module: what it extends is kept small,    *)
(* and the one fact that would need a library, that `<' is well-founded on *)
(* the naturals (Least), is a hypothesis that ReceiveChainProofs proves.   *)
(***************************************************************************)
EXTENDS Integers, Sequences

CONSTANT Step(_, _, _)

Greatest(s) == CHOOSE x \in s : \A y \in s : x >= y
\* FoldLeft of SequencesExt, expanded.
Fold(c, b, xs) ==
  LET iter[s \in SUBSET DOMAIN xs] ==
        IF s = {} THEN b ELSE Step(c, iter[s \ {Greatest(s)}], xs[Greatest(s)])
  IN  iter[DOMAIN xs]

\* A set of naturals that is not empty has a least element.
Least == \A T \in SUBSET Nat : T # {} => \E x \in T : \A y \in T : x <= y

\* The partial results of a fold, for each set of the indices 1 .. n.
Partial(c, b, xs, n, f) ==
  f = [s \in SUBSET (1 .. n) |->
         IF s = {} THEN b ELSE Step(c, f[s \ {Greatest(s)}], xs[Greatest(s)])]

LEMMA FoldIs ==
  ASSUME NEW c, NEW b, NEW xs, NEW n \in Nat, DOMAIN xs = 1 .. n
  PROVE  Fold(c, b, xs) = (CHOOSE f : Partial(c, b, xs, n, f))[1 .. n]
BY DEF Fold, Partial

LEMMA MaxAdded ==
  ASSUME NEW n \in Nat, NEW s \in SUBSET (1 .. n + 1), n + 1 \in s
  PROVE  Greatest(s) = n + 1 /\ s \ {n + 1} \in SUBSET (1 .. n)
<1>1. \A y \in s : n + 1 >= y
  OBVIOUS
<1>2. \E x \in s : \A y \in s : x >= y
  BY <1>1
<1>3. Greatest(s) \in s /\ \A y \in s : Greatest(s) >= y
  BY <1>2 DEF Greatest
<1> DEFINE m == Greatest(s)
<1>4. m \in s /\ m \in 1 .. n + 1 /\ m >= n + 1
  BY <1>3
<1> HIDE DEF m
<1>5. m = n + 1
  BY <1>4
<1>6. s \ {n + 1} \in SUBSET (1 .. n)
  OBVIOUS
<1> QED BY <1>5, <1>6 DEF m

LEMMA PartialExists ==
  ASSUME Least, NEW c, NEW b, NEW xs, NEW n \in Nat
  PROVE  \E f : Partial(c, b, xs, n, f)
<1> DEFINE T == {k \in Nat : ~ \E f : Partial(c, b, xs, k, f)}
<1>1. SUFFICES ASSUME T # {} PROVE FALSE
  OBVIOUS
<1>2. PICK k \in T : \A j \in T : k <= j
  BY <1>1 DEF Least
<1>3. k # 0
  <2> DEFINE f == [s \in SUBSET (1 .. 0) |-> b]
  <2>1. SUBSET (1 .. 0) = {{}}
    OBVIOUS
  <2>2. Partial(c, b, xs, 0, f)
    BY <2>1 DEF Partial
  <2> QED BY <2>2
<1>4. k - 1 \in Nat /\ k - 1 \notin T
  BY <1>2, <1>3
<1>5. PICK f : Partial(c, b, xs, k - 1, f)
  BY <1>4
<1> DEFINE m == k - 1
           g == [s \in SUBSET (1 .. m + 1) |->
                   IF m + 1 \in s THEN Step(c, f[s \ {m + 1}], xs[m + 1]) ELSE f[s]]
           h == [s \in SUBSET (1 .. m + 1) |->
                   IF s = {} THEN b ELSE Step(c, g[s \ {Greatest(s)}], xs[Greatest(s)])]
<1>6. ASSUME NEW s \in SUBSET (1 .. m + 1) PROVE g[s] = h[s]
  <2>0. m \in Nat  BY <1>4
  <2>1. CASE m + 1 \in s
    <3>1. Greatest(s) = m + 1 /\ s \ {m + 1} \in SUBSET (1 .. m)
      BY <2>0, <2>1, MaxAdded
    <3>2. s \ {m + 1} \in SUBSET (1 .. m + 1) /\ m + 1 \notin s \ {m + 1}
      OBVIOUS
    <3>3. g[s \ {m + 1}] = f[s \ {m + 1}]
      BY <3>2
    <3>4. h[s] = Step(c, g[s \ {m + 1}], xs[m + 1])
      BY <2>1, <3>1
    <3>5. g[s] = Step(c, f[s \ {m + 1}], xs[m + 1])
      BY <2>1
    <3> QED BY <3>3, <3>4, <3>5
  <2>2. CASE m + 1 \notin s
    <3>1. s \in SUBSET (1 .. m)
      BY <2>0, <2>2
    <3>2. g[s] = f[s]
      BY <2>2
    <3>3. f[s] = IF s = {} THEN b ELSE Step(c, f[s \ {Greatest(s)}], xs[Greatest(s)])
      BY <1>5, <3>1 DEF Partial
    <3>4. s \ {Greatest(s)} \in SUBSET (1 .. m + 1) /\ m + 1 \notin s \ {Greatest(s)}
      BY <2>2
    <3>5. g[s \ {Greatest(s)}] = f[s \ {Greatest(s)}]
      BY <3>4
    <3>6. h[s] = IF s = {} THEN b ELSE Step(c, g[s \ {Greatest(s)}], xs[Greatest(s)])
      OBVIOUS
    <3> QED BY <3>2, <3>3, <3>5, <3>6
  <2> QED BY <2>1, <2>2
<1>7. g = h
  <2>1. g = [s \in SUBSET (1 .. m + 1) |-> g[s]] /\ h = [s \in SUBSET (1 .. m + 1) |-> h[s]]
    OBVIOUS
  <2> HIDE DEF g, h
  <2>2. [s \in SUBSET (1 .. m + 1) |-> g[s]] = [s \in SUBSET (1 .. m + 1) |-> h[s]]
    BY <1>6
  <2> QED BY <2>1, <2>2
<1>8. m + 1 = k
  BY <1>2
<1>9. Partial(c, b, xs, k, g)
  <2>1. h = [s \in SUBSET (1 .. k) |->
               IF s = {} THEN b ELSE Step(c, g[s \ {Greatest(s)}], xs[Greatest(s)])]
    BY <1>8
  <2> HIDE DEF g, h
  <2> QED BY <1>7, <2>1 DEF Partial
<1> QED BY <1>2, <1>9

\* t[0] .. t[n]: what the steps make of b one after the other.
Trajectory(c, b, xs, n, t) == t[0] = b /\ \A k \in 1 .. n : t[k] = Step(c, t[k - 1], xs[k])

\* A fold goes from left to right.
LEMMA FoldSteps ==
  ASSUME Least, NEW c, NEW b, NEW xs, NEW n \in Nat, DOMAIN xs = 1 .. n
  PROVE  \E t : Trajectory(c, b, xs, n, t) /\ t[n] = Fold(c, b, xs)
<1> DEFINE f == CHOOSE f : Partial(c, b, xs, n, f)
           t == [k \in 0 .. n |-> f[1 .. k]]
<1>1. Partial(c, b, xs, n, f)
  BY PartialExists
<1>2. Fold(c, b, xs) = f[1 .. n]
  BY FoldIs
<1> HIDE DEF f
<1>3. \A s \in SUBSET (1 .. n) :
        f[s] = IF s = {} THEN b ELSE Step(c, f[s \ {Greatest(s)}], xs[Greatest(s)])
  BY <1>1 DEF Partial
<1>4. t[0] = b
  <2>1. {} \in SUBSET (1 .. n) /\ 1 .. 0 = {}
    OBVIOUS
  <2>2. f[{}] = b
    BY <1>3, <2>1
  <2> QED BY <2>1, <2>2
<1>5. ASSUME NEW k \in 1 .. n PROVE t[k] = Step(c, t[k - 1], xs[k])
  <2> DEFINE j == k - 1
  <2>0. k \in 1 .. k /\ j \in Nat /\ k = j + 1
    OBVIOUS
  <2>a. \A i \in 1 .. k : i \in 1 .. n
    OBVIOUS
  <2>1. 1 .. k \in SUBSET (1 .. n) /\ 1 .. k # {}
    BY <2>0, <2>a
  <2> HIDE DEF j
  <2>2. Greatest(1 .. k) = k
    BY <2>0, MaxAdded
  <2>3. (1 .. k) \ {k} = 1 .. k - 1
    OBVIOUS
  <2>4. f[1 .. k] = Step(c, f[1 .. k - 1], xs[k])
    BY <1>3, <2>1, <2>2, <2>3
  <2> QED BY <2>4
<1>6. t[n] = Fold(c, b, xs)
  BY <1>2
<1> HIDE DEF t
<1> QED BY <1>4, <1>5, <1>6 DEF Trajectory

\* Two folds that take the same steps have the same result.
LEMMA FoldSame ==
  ASSUME Least, NEW c, NEW b, NEW xs, NEW n \in Nat, DOMAIN xs = 1 .. n,
         NEW t, Trajectory(c, b, xs, n, t)
  PROVE  Fold(c, b, xs) = t[n]
<1>1. PICK u : Trajectory(c, b, xs, n, u) /\ u[n] = Fold(c, b, xs)
  BY FoldSteps
<1> DEFINE T == {k \in 0 .. n : u[k] # t[k]}
<1>2. CASE T = {}
  BY <1>1, <1>2
<1>3. CASE T # {}
  <2>1. T \in SUBSET Nat
    OBVIOUS
  <2>2. PICK k \in T : \A j \in T : k <= j
    BY <1>3, <2>1 DEF Least
  <2>3. k # 0
    BY <1>1, <2>2 DEF Trajectory
  <2>4. k \in 1 .. n /\ k - 1 \in 0 .. n
    BY <2>2, <2>3
  <2>5. k - 1 \notin T
    BY <2>2, <2>4
  <2>6. u[k - 1] = t[k - 1]
    BY <2>4, <2>5
  <2>7. u[k] = t[k]
    BY <1>1, <2>4, <2>6 DEF Trajectory
  <2> QED BY <2>2, <2>7
<1> QED BY <1>2, <1>3

LEMMA FoldAppend ==
  ASSUME Least, NEW c, NEW b, NEW xs, NEW n \in Nat, DOMAIN xs = 1 .. n,
         NEW x, NEW ys, DOMAIN ys = 1 .. n + 1, \A k \in 1 .. n : ys[k] = xs[k], ys[n + 1] = x
  PROVE  Fold(c, b, ys) = Step(c, Fold(c, b, xs), x)
<1> DEFINE m == n + 1
<1>1. m \in Nat /\ DOMAIN ys = 1 .. m
  OBVIOUS
<1>2. PICK t : Trajectory(c, b, ys, m, t) /\ t[m] = Fold(c, b, ys)
  <2> HIDE DEF m
  <2> QED BY <1>1, FoldSteps
<1>3. Trajectory(c, b, xs, n, t)
  BY <1>2 DEF Trajectory
<1>4. Fold(c, b, xs) = t[n]
  BY <1>2, <1>3, FoldSame
<1>5. t[n + 1] = Step(c, t[n], ys[n + 1])
  <2>1. n + 1 \in 1 .. n + 1 /\ n + 1 - 1 = n
    OBVIOUS
  <2> QED BY <1>2, <2>1 DEF Trajectory
<1> QED BY <1>2, <1>4, <1>5

LEMMA FoldEmpty ==
  ASSUME Least, NEW c, NEW b
  PROVE  Fold(c, b, << >>) = b
<1> DEFINE none == << >>
<1>1. DOMAIN none = 1 .. 0
  OBVIOUS
<1> HIDE DEF none
<1>2. PICK t : Trajectory(c, b, none, 0, t) /\ t[0] = Fold(c, b, none)
  BY <1>1, FoldSteps
<1> QED BY <1>2 DEF Trajectory, none

LEMMA FoldOne ==
  ASSUME Least, NEW c, NEW b, NEW x
  PROVE  Fold(c, b, <<x>>) = Step(c, b, x)
<1> DEFINE none == << >>
           one == <<x>>
           zero == 0
<1>1. DOMAIN none = 1 .. zero /\ DOMAIN one = 1 .. zero + 1 /\ zero \in Nat
  OBVIOUS
<1>2. (\A k \in 1 .. zero : one[k] = none[k]) /\ one[zero + 1] = x
  OBVIOUS
<1>3. Fold(c, b, none) = b
  BY FoldEmpty
<1> HIDE DEF none, one, zero
<1>4. Fold(c, b, one) = Step(c, Fold(c, b, none), x)
  BY <1>1, <1>2, FoldAppend
<1> QED BY <1>3, <1>4 DEF one

\* Induction up to a bound.
LEMMA Upwards ==
  ASSUME Least, NEW n \in Nat, NEW T, 0 \in T, \A k \in 1 .. n : k - 1 \in T => k \in T
  PROVE  \A k \in 0 .. n : k \in T
<1> DEFINE U == {k \in 0 .. n : k \notin T}
<1>1. SUFFICES ASSUME U # {} PROVE FALSE
  OBVIOUS
<1>2. U \in SUBSET Nat
  OBVIOUS
<1>3. PICK k \in U : \A j \in U : k <= j
  BY <1>1, <1>2 DEF Least
<1>4. k # 0
  BY <1>3
<1>5. k \in 1 .. n /\ k - 1 \in 0 .. n /\ k - 1 \notin U
  BY <1>3, <1>4
<1> QED BY <1>3, <1>5
----------------------------------------------------------------------------
(* Stages: a step that moves a state and appends what it made of a sample *)

Run(c, s, xs) == Fold(c, [s |-> s, xs |-> <<>>], xs)
Moves(c, s, x) ==
  \E r, y : \A ys : Step(c, [s |-> s, xs |-> ys], x) = [s |-> r, xs |-> Append(ys, y)]
Emitting(c) == \A s, x : Moves(c, s, x)

LEMMA ListAppends ==
  ASSUME NEW n \in Nat, NEW xs, xs = [i \in 1 .. n |-> xs[i]], NEW x
  PROVE  /\ Append(xs, x) = [i \in 1 .. n + 1 |-> Append(xs, x)[i]]
         /\ Append(xs, x) = xs \o <<x>>
<1> DEFINE S == {xs[i] : i \in 1 .. n} \cup {x}
           ys == Append(xs, x)
<1>1. xs \in [1 .. n -> S]
  OBVIOUS
<1>2. xs \in Seq(S) /\ Len(xs) = n /\ x \in S
  BY <1>1
<1> HIDE DEF S
<1>3. ys \in Seq(S) /\ Len(ys) = n + 1 /\ ys = xs \o <<x>>
  BY <1>2
<1> HIDE DEF ys
<1>4. ys = [i \in 1 .. n + 1 |-> ys[i]]
  BY <1>3
<1> QED BY <1>3, <1>4 DEF ys

\* A stage answers every sample with one.
LEMMA RunIsList ==
  ASSUME Least, NEW c, Emitting(c), NEW s, NEW n \in Nat, NEW xs, DOMAIN xs = 1 .. n
  PROVE  LET a == Run(c, s, xs)
         IN  a = [s |-> a.s, xs |-> a.xs] /\ a.xs = [i \in 1 .. n |-> a.xs[i]]
<1> DEFINE b == [s |-> s, xs |-> <<>>]
<1>1. PICK t : Trajectory(c, b, xs, n, t) /\ t[n] = Fold(c, b, xs)
  BY FoldSteps
<1> DEFINE OK(k, a) == a = [s |-> a.s, xs |-> a.xs] /\ a.xs = [i \in 1 .. k |-> a.xs[i]]
           T == {k \in 0 .. n : OK(k, t[k])}
<1>2. 0 \in T
  BY <1>1 DEF Trajectory
<1>3. ASSUME NEW k \in 1 .. n, k - 1 \in T PROVE k \in T
  <2> DEFINE j == k - 1
             ys == t[j].xs
  <2>1. j \in Nat /\ k = j + 1 /\ t[k] = Step(c, t[j], xs[k])
    BY <1>1 DEF Trajectory
  <2>2. t[j] = [s |-> t[j].s, xs |-> ys] /\ ys = [i \in 1 .. j |-> ys[i]]
    BY <1>3
  <2>3. PICK r, y : \A zs : Step(c, [s |-> t[j].s, xs |-> zs], xs[k])
                            = [s |-> r, xs |-> Append(zs, y)]
    <3>1. Moves(c, t[j].s, xs[k])
      BY DEF Emitting
    <3> QED BY <3>1 DEF Moves
  <2>4. t[k] = [s |-> r, xs |-> Append(ys, y)]
    BY <2>1, <2>2, <2>3
  <2> HIDE DEF j, ys
  <2>5. Append(ys, y) = [i \in 1 .. j + 1 |-> Append(ys, y)[i]]
    BY <2>1, <2>2, ListAppends
  <2> DEFINE zs == Append(ys, y)
  <2>6. t[k] = [s |-> r, xs |-> zs] /\ zs = [i \in 1 .. k |-> zs[i]]
    BY <2>1, <2>4, <2>5
  <2> HIDE DEF zs
  <2>7. t[k].s = r /\ t[k].xs = zs
    BY <2>6
  <2>8. OK(k, t[k])
    BY <2>6, <2>7
  <2> QED BY <2>8
<1> HIDE DEF T
<1>4. \A k \in 0 .. n : k \in T
  BY <1>2, <1>3, Upwards
<1>5. OK(n, t[n])
  BY <1>4 DEF T
<1> QED BY <1>1, <1>5 DEF Run

LEMMA RunOfNothing ==
  ASSUME Least, NEW c, NEW s
  PROVE  Run(c, s, <<>>) = [s |-> s, xs |-> <<>>]
BY FoldEmpty DEF Run

\* What it makes of n samples, a, of one more, x, and of them all, ys.
Splits(c, s, n, x, ys, a) ==
  /\ a.xs = [i \in 1 .. n |-> a.xs[i]]
  /\ \E r, y : /\ Run(c, a.s, <<x>>) = [s |-> r, xs |-> <<y>>]
              /\ Run(c, s, ys) = [s |-> r, xs |-> Append(a.xs, y)]

\* A stage does not see where a span ends.
LEMMA RunSplits ==
  ASSUME Least, NEW c, Emitting(c), NEW s, NEW n \in Nat, NEW xs, DOMAIN xs = 1 .. n,
         NEW x, NEW ys, DOMAIN ys = 1 .. n + 1, \A k \in 1 .. n : ys[k] = xs[k], ys[n + 1] = x
  PROVE  Splits(c, s, n, x, ys, Run(c, s, xs))
<1> DEFINE a == Run(c, s, xs)
<1>1. a = [s |-> a.s, xs |-> a.xs] /\ a.xs = [i \in 1 .. n |-> a.xs[i]]
  BY RunIsList
<1>2. Run(c, s, ys) = Step(c, a, x)
  BY FoldAppend DEF Run
<1>3. Run(c, a.s, <<x>>) = Step(c, [s |-> a.s, xs |-> <<>>], x)
  BY FoldOne DEF Run
<1> HIDE DEF a
<1>4. PICK r, y : \A zs : Step(c, [s |-> a.s, xs |-> zs], x) = [s |-> r, xs |-> Append(zs, y)]
  <2>1. Moves(c, a.s, x)
    BY DEF Emitting
  <2> QED BY <2>1 DEF Moves
<1>5. Run(c, a.s, <<x>>) = [s |-> r, xs |-> <<y>>]
  <2>1. Append(<<>>, y) = <<y>>
    OBVIOUS
  <2> QED BY <1>3, <1>4, <2>1
<1>6. Run(c, s, ys) = [s |-> r, xs |-> Append(a.xs, y)]
  BY <1>1, <1>2, <1>4
<1>7. Splits(c, s, n, x, ys, a)
  BY <1>1, <1>5, <1>6 DEF Splits
<1> QED BY <1>7 DEF a
=============================================================================
