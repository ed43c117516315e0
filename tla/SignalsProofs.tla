--------------------------- MODULE SignalsProofs ---------------------------
(***************************************************************************)
(* Facts about the queues of Signals, on which the proofs about the        *)
(* bridges rest: what is left of a queue when a proxy's signals are lost,  *)
(* and what appending and handling a signal does to what a queue says.     *)
(***************************************************************************)
EXTENDS Signals, WellFoundedInduction, TLAPS

\* A set of natural numbers has a least element.
LEMMA Least ==
  ASSUME NEW T \in SUBSET Nat, T # {}
  PROVE  \E m \in T : \A k \in T : m <= k
<1> DEFINE R == OpToRel(<, Nat)
<1>1. IsWellFoundedOn(R, Nat) BY NatLessThanWellFounded
<1>2. \A c, d \in Nat : <<d, c>> \in R <=> d < c BY Zenon DEF OpToRel
<1> HIDE DEF R
<1>3. PICK c \in T : \A d \in T : ~(<<d, c>> \in R) BY <1>1, WFMin
<1>4. \A d \in T : c <= d
  <2> TAKE d \in T
  <2>1. ~(d < c) BY <1>2, <1>3
  <2> QED BY <2>1
<1> QED BY <1>4

\* Induction, of a set of natural numbers.
LEMMA Induction ==
  ASSUME NEW T \in SUBSET Nat, 0 \in T, \A n \in T : n + 1 \in T
  PROVE  T = Nat
<1> SUFFICES ASSUME Nat \ T # {} PROVE FALSE OBVIOUS
<1>1. PICK m \in Nat \ T : \A k \in Nat \ T : m <= k BY Least
<1>2. m # 0 OBVIOUS
<1>3. m - 1 \in Nat /\ ~(m <= m - 1) BY <1>2
<1>4. m - 1 \in T BY <1>1, <1>3
<1>5. (m - 1) + 1 = m OBVIOUS
<1> QED BY <1>4, <1>5

\* what LeftOf adds with the n-th signal
LeftStep(s, keep, f, n) ==
  IF n = 0 THEN <<>>
  ELSE IF n \in keep THEN Append(f[n - 1], s[n]) ELSE f[n - 1]

\* LeftOf satisfies its recursive definition.
LEMMA LeftOfDef ==
  ASSUME NEW E, NEW s \in Seq(E), NEW keep
  PROVE  LeftOf(s, keep) = [n \in 0..Len(s) |-> LeftStep(s, keep, LeftOf(s, keep), n)]
<1> DEFINE L == Len(s)
           Good(f, k) == f = [n \in 0..k |-> LeftStep(s, keep, f, n)]
           T == {k \in Nat : k <= L => \E f : Good(f, k)}
<1>0. L \in Nat OBVIOUS
<1>1. 0 \in T
  <2>1. Good([n \in 0..0 |-> <<>>], 0) BY DEF LeftStep
  <2> QED BY <2>1
<1>2. ASSUME NEW k \in T PROVE k + 1 \in T
  <2> SUFFICES ASSUME k + 1 <= L PROVE \E f : Good(f, k + 1) BY DEF T
  <2>1. k <= L BY <1>0
  <2>2. PICK f : Good(f, k) BY <2>1
  <2> DEFINE g == [n \in 0..(k + 1) |-> IF n = k + 1 THEN LeftStep(s, keep, f, n) ELSE f[n]]
  <2>3. ASSUME NEW n \in 0..(k + 1) PROVE g[n] = LeftStep(s, keep, g, n)
    <3>1. CASE n = 0 BY <2>2, <3>1 DEF LeftStep
    <3>2. CASE n # 0
      <4>1. n - 1 \in 0..k /\ n - 1 # k + 1 /\ n - 1 \in 0..(k+1) BY <3>2
      <4>2. g[n - 1] = f[n - 1] BY <4>1
      <4>3. LeftStep(s, keep, g, n) = LeftStep(s, keep, f, n) BY <4>2 DEF LeftStep
      <4>4. g[n] = LeftStep(s, keep, f, n)
        <5>1. CASE n = k + 1 BY <5>1
        <5>2. CASE n # k + 1
           <6>1. n \in 0..k BY <5>2
           <6> QED BY <2>2, <6>1, <5>2
        <5> QED BY <5>1, <5>2
      <4> QED BY <4>3, <4>4
    <3> QED BY <3>1, <3>2
  <2>4. g = [n \in 0..(k + 1) |-> g[n]] OBVIOUS
  <2> HIDE DEF g
  <2>5. Good(g, k + 1) BY <2>3, <2>4
  <2> QED BY <2>5
<1>3. T \in SUBSET Nat OBVIOUS
<1> HIDE DEF T
<1>4. T = Nat BY <1>1, <1>2, <1>3, Induction
<1>5. \E f : Good(f, L) BY <1>0, <1>4 DEF T
<1>6. LeftOf(s, keep) = CHOOSE f : Good(f, L) BY DEF LeftOf, LeftStep
<1> HIDE DEF Good
<1>7. Good(LeftOf(s, keep), L) BY <1>5, <1>6
<1> QED BY <1>7 DEF Good

\* the signals in out are those of the first n of s at the places keep, in
\* the order in which at lists their places
IsLeft(s, keep, n, out, at) ==
  /\ at \in [1..Len(out) -> 1..n]
  /\ \A i \in 1..Len(out) : out[i] = s[at[i]] /\ at[i] \in keep
  /\ \A i, j \in 1..Len(out) : i < j => at[i] < at[j]
  /\ \A k \in 1..n : k \in keep => \E i \in 1..Len(out) : at[i] = k

\* SelectAt keeps exactly the signals at the places keep, in their order.
LEMMA LeftIsLeft ==
  ASSUME NEW E, NEW s \in Seq(E), NEW keep
  PROVE  /\ SelectAt(s, keep) \in Seq(E)
         /\ \E at : IsLeft(s, keep, Len(s), SelectAt(s, keep), at)
<1> DEFINE L == LeftOf(s, keep)
           T == {k \in Nat : k <= Len(s) => /\ L[k] \in Seq(E)
                                            /\ \E at : IsLeft(s, keep, k, L[k], at)}
<1>0. Len(s) \in Nat OBVIOUS
<1>1. \A n \in 0..Len(s) : L[n] = LeftStep(s, keep, L, n) BY LeftOfDef
<1> HIDE DEF L
<1>2. 0 \in T
  <2>1. L[0] = <<>> BY <1>0, <1>1 DEF LeftStep
  <2>2. IsLeft(s, keep, 0, <<>>, [i \in 1..0 |-> i]) BY DEF IsLeft
  <2>3. <<>> \in Seq(E) OBVIOUS
  <2>4. L[0] \in Seq(E) BY <2>1, <2>3
  <2>5. \E at : IsLeft(s, keep, 0, L[0], at) BY <2>1, <2>2
  <2> QED BY <2>4, <2>5 DEF T
<1>3. ASSUME NEW k \in T PROVE k + 1 \in T
  <2> SUFFICES ASSUME k + 1 <= Len(s)
               PROVE  /\ L[k + 1] \in Seq(E)
                      /\ \E at : IsLeft(s, keep, k + 1, L[k + 1], at)
    BY DEF T
  <2>1. k <= Len(s) /\ k \in Nat /\ (k + 1) - 1 = k BY <1>0
  <2>2. L[k] \in Seq(E) BY <2>1
  <2>3. PICK at : IsLeft(s, keep, k, L[k], at) BY <2>1
  <2>4. L[k + 1] = IF k + 1 \in keep THEN Append(L[k], s[k + 1]) ELSE L[k]
    BY <1>1, <2>1 DEF LeftStep
  <2>5. CASE k + 1 \notin keep
    <3>1. IsLeft(s, keep, k + 1, L[k], at)
      BY <2>1, <2>2, <2>3, <2>5 DEF IsLeft
    <3> QED BY <2>2, <2>4, <2>5, <3>1
  <2>6. CASE k + 1 \in keep
    <3> DEFINE out == Append(L[k], s[k + 1])
               new == [i \in 1..(Len(L[k]) + 1) |-> IF i = Len(L[k]) + 1 THEN k + 1 ELSE at[i]]
    <3>1. s[k + 1] \in E BY <2>1
    <3>2. /\ out \in Seq(E) /\ Len(out) = Len(L[k]) + 1
          /\ out[Len(L[k]) + 1] = s[k + 1]
          /\ \A i \in 1..Len(L[k]) : out[i] = L[k][i]
      BY <2>2, <3>1
    <3> HIDE DEF out
    <3>3. Len(L[k]) \in Nat BY <2>2
    <3>4. new \in [1..Len(out) -> 1..(k + 1)] BY <2>1, <2>3, <3>2, <3>3 DEF IsLeft
    <3>5. \A i \in 1..Len(out) : out[i] = s[new[i]] /\ new[i] \in keep
      <4> TAKE i \in 1..Len(out)
      <4>1. CASE i = Len(L[k]) + 1 BY <2>6, <3>2, <3>3, <4>1
      <4>2. CASE i # Len(L[k]) + 1
        <5>1. i \in 1..Len(L[k]) BY <3>2, <3>3, <4>2
        <5>2. new[i] = at[i] BY <3>3, <5>1, <4>2
        <5> QED BY <2>3, <3>2, <5>1, <5>2 DEF IsLeft
      <4> QED BY <4>1, <4>2
    <3>6. \A i, j \in 1..Len(out) : i < j => new[i] < new[j]
      <4> TAKE i, j \in 1..Len(out)
      <4> HAVE i < j
      <4>1. i \in 1..Len(L[k]) /\ i # Len(L[k]) + 1 BY <3>2, <3>3
      <4>2. new[i] = at[i] /\ at[i] \in 1..k
        <5>1. new[i] = at[i] BY <3>3, <4>1
        <5>2. at[i] \in 1..k BY <2>3, <4>1 DEF IsLeft
        <5> QED BY <5>1, <5>2
      <4>3. CASE j = Len(L[k]) + 1 BY <2>1, <3>2, <3>3, <4>2, <4>3
      <4>4. CASE j # Len(L[k]) + 1
        <5>1. j \in 1..Len(L[k]) BY <3>2, <3>3, <4>4
        <5>2. new[j] = at[j] BY <3>3, <5>1, <4>4
        <5> QED BY <2>3, <4>1, <4>2, <5>1, <5>2 DEF IsLeft
      <4> QED BY <4>3, <4>4
    <3>7. \A p \in 1..(k + 1) : p \in keep => \E i \in 1..Len(out) : new[i] = p
      <4> TAKE p \in 1..(k + 1)
      <4> HAVE p \in keep
      <4>1. CASE p = k + 1 BY <3>2, <3>3, <4>1
      <4>2. CASE p # k + 1
        <5>1. p \in 1..k BY <2>1, <4>2
        <5>2. PICK i \in 1..Len(L[k]) : at[i] = p BY <2>3, <5>1 DEF IsLeft
        <5>3. i \in 1..Len(out) /\ new[i] = p BY <3>2, <3>3, <5>2
        <5> QED BY <5>3
      <4> QED BY <4>1, <4>2
    <3> HIDE DEF new
    <3>8. IsLeft(s, keep, k + 1, out, new) BY <3>4, <3>5, <3>6, <3>7 DEF IsLeft
    <3> QED BY <2>4, <2>6, <3>2, <3>8 DEF out
  <2> QED BY <2>5, <2>6
<1>4. T \in SUBSET Nat OBVIOUS
<1> HIDE DEF T
<1>5. T = Nat BY <1>2, <1>3, <1>4, Induction
<1>6. Len(s) \in T BY <1>0, <1>5
<1> QED BY <1>6 DEF T, L, SelectAt

\* the signals in out are those of s that are not on kinds, in the order in
\* which at lists their places
IsWithout(s, kinds, out, at) ==
  /\ at \in [1..Len(out) -> 1..Len(s)]
  /\ \A i \in 1..Len(out) : out[i] = s[at[i]] /\ s[at[i]].on \notin kinds
  /\ \A i, j \in 1..Len(out) : i < j => at[i] < at[j]
  /\ \A k \in 1..Len(s) : s[k].on \notin kinds => \E i \in 1..Len(out) : at[i] = k

\* Without keeps exactly the signals that are not on kinds, in their order.
LEMMA WithoutIsLeft ==
  ASSUME NEW E, NEW s \in Seq(E), NEW kinds
  PROVE  /\ Without(s, kinds) \in Seq(E)
         /\ \E at : IsWithout(s, kinds, Without(s, kinds), at)
<1> DEFINE keep == {i \in 1..Len(s) : s[i].on \notin kinds}
<1>1. Without(s, kinds) = SelectAt(s, keep) BY DEF Without
<1>2. \A i \in 1..Len(s) : i \in keep <=> s[i].on \notin kinds OBVIOUS
<1> HIDE DEF keep
<1>3. PICK at : IsLeft(s, keep, Len(s), Without(s, kinds), at) BY <1>1, LeftIsLeft
<1>4. IsWithout(s, kinds, Without(s, kinds), at) BY <1>2, <1>3 DEF IsLeft, IsWithout
<1>5. Without(s, kinds) \in Seq(E) BY <1>1, LeftIsLeft
<1> QED BY <1>4, <1>5

----------------------------------------------------------------------------
(* What a queue says about the signals of a set.                           *)

\* none of them waits
NoneIn(s, X) == \A i \in 1..Len(s) : s[i] \notin X

\* the last of those in X that wait, if one does, is in Y
LastIn(s, X, Y) ==
  \A i \in 1..Len(s) :
    s[i] \in X /\ (\A j \in 1..Len(s) : i < j => s[j] \notin X) => s[i] \in Y

\* their numbers never decrease, from one bound to the other
Rising(s, X, n, from, upto) ==
  /\ \A i \in 1..Len(s) : s[i] \in X => from <= n[s[i]] /\ n[s[i]] <= upto
  /\ \A i, j \in 1..Len(s) : i < j /\ s[i] \in X /\ s[j] \in X => n[s[i]] <= n[s[j]]

\* Append adds one signal at the end and moves none.
LEMMA Appended ==
  ASSUME NEW S, NEW s \in Seq(S), NEW e \in S
  PROVE  /\ Append(s, e) \in Seq(S) /\ Len(Append(s, e)) = Len(s) + 1
         /\ Append(s, e)[Len(s) + 1] = e
         /\ \A i \in 1..Len(s) : i # Len(s) + 1 /\ Append(s, e)[i] = s[i]
         /\ \A i \in 1..(Len(s) + 1) : i \in 1..Len(s) \/ i = Len(s) + 1
OBVIOUS

\* Tail takes the first signal away and moves the others up.
LEMMA Tailed ==
  ASSUME NEW S, NEW s \in Seq(S), s # <<>>
  PROVE  /\ Tail(s) \in Seq(S) /\ Len(Tail(s)) = Len(s) - 1
         /\ Head(s) = s[1] /\ Head(s) \in S /\ 1 \in 1..Len(s)
         /\ \A i \in 1..Len(Tail(s)) : i + 1 \in 1..Len(s) /\ Tail(s)[i] = s[i + 1]
         /\ \A i \in 1..Len(s) : i = 1 \/ (i - 1 \in 1..Len(Tail(s)) /\ Tail(s)[i - 1] = s[i])
OBVIOUS

\* What a signal more in the queue says about the signals of a set.
LEMMA QueueAppended ==
  ASSUME NEW S, NEW s \in Seq(S), NEW e \in S
  PROVE  /\ Append(s, e) \in Seq(S)
         /\ \A X : NoneIn(Append(s, e), X) <=> NoneIn(s, X) /\ e \notin X
         /\ \A X, Y : e \in X /\ e \in Y => LastIn(Append(s, e), X, Y)
         /\ \A X, Y : e \notin X /\ LastIn(s, X, Y) => LastIn(Append(s, e), X, Y)
<1> DEFINE t == Append(s, e)
<1>1. /\ t \in Seq(S) /\ Len(t) = Len(s) + 1 /\ t[Len(s) + 1] = e
      /\ \A i \in 1..Len(s) : i # Len(s) + 1 /\ t[i] = s[i]
      /\ \A i \in 1..(Len(s) + 1) : i \in 1..Len(s) \/ i = Len(s) + 1
  BY Appended
<1>2. /\ Len(s) \in Nat /\ Len(s) + 1 \in 1..Len(t)
      /\ \A i \in 1..Len(s) : i \in 1..Len(t) /\ i < Len(s) + 1
      /\ \A i \in 1..Len(t) : ~(Len(s) + 1 < i)
  BY <1>1
<1> HIDE DEF t
<1>3. \A X : NoneIn(t, X) <=> NoneIn(s, X) /\ e \notin X BY <1>1, <1>2 DEF NoneIn
<1>4. \A X, Y : e \in X /\ e \in Y => LastIn(t, X, Y) BY <1>1, <1>2 DEF LastIn
<1>5. \A X, Y : e \notin X /\ LastIn(s, X, Y) => LastIn(t, X, Y)
  BY <1>1, <1>2 DEF LastIn
<1> QED BY <1>1, <1>3, <1>4, <1>5 DEF t

\* What the handling of the first signal leaves to say.
LEMMA QueueHandled ==
  ASSUME NEW S, NEW s \in Seq(S), s # <<>>
  PROVE  /\ Tail(s) \in Seq(S) /\ Head(s) \in S
         /\ \A X : NoneIn(s, X) <=> NoneIn(Tail(s), X) /\ Head(s) \notin X
         /\ \A X, Y : LastIn(s, X, Y) =>
              /\ LastIn(Tail(s), X, Y)
              /\ NoneIn(Tail(s), X) /\ Head(s) \in X => Head(s) \in Y
<1> DEFINE t == Tail(s)
           e == Head(s)
<1>1. /\ t \in Seq(S) /\ Len(t) = Len(s) - 1 /\ e = s[1] /\ e \in S /\ 1 \in 1..Len(s)
      /\ \A i \in 1..Len(t) : i + 1 \in 1..Len(s) /\ t[i] = s[i + 1]
      /\ \A i \in 1..Len(s) : i = 1 \/ (i - 1 \in 1..Len(t) /\ t[i - 1] = s[i])
  BY Tailed
<1>2. \A i \in 1..Len(s) : 1 < i <=> i # 1 OBVIOUS
<1> HIDE DEF t, e
<1>3. \A X : NoneIn(s, X) <=> NoneIn(t, X) /\ e \notin X BY <1>1 DEF NoneIn
<1>4. ASSUME NEW X, NEW Y, LastIn(s, X, Y) PROVE LastIn(t, X, Y)
  <2> SUFFICES ASSUME NEW i \in 1..Len(t), t[i] \in X,
                      \A j \in 1..Len(t) : i < j => t[j] \notin X
               PROVE  t[i] \in Y
    BY DEF LastIn
  <2>1. ASSUME NEW j \in 1..Len(s), i + 1 < j PROVE s[j] \notin X
    <3>1. j - 1 \in 1..Len(t) /\ t[j - 1] = s[j] /\ i < j - 1 BY <1>1, <2>1
    <3> QED BY <3>1
  <2>2. i + 1 \in 1..Len(s) /\ t[i] = s[i + 1] BY <1>1
  <2> QED BY <1>4, <2>1, <2>2 DEF LastIn
<1>5. ASSUME NEW X, NEW Y, LastIn(s, X, Y), NoneIn(t, X), e \in X PROVE e \in Y
  <2>1. \A j \in 1..Len(s) : 1 < j => s[j] \notin X BY <1>1, <1>2, <1>5 DEF NoneIn
  <2> QED BY <1>1, <1>5, <2>1 DEF LastIn
<1> QED BY <1>1, <1>3, <1>4, <1>5 DEF t, e

\* A number that is not below the bound may follow.
LEMMA RisingAppended ==
  ASSUME NEW S, NEW s \in Seq(S), NEW e \in S, NEW X, NEW n \in [S -> Int],
         NEW from \in Int, NEW upto \in Int, NEW now \in Int, upto <= now,
         Rising(s, X, n, from, upto),
         e \in X => from <= n[e] /\ upto <= n[e] /\ n[e] <= now
  PROVE  Rising(Append(s, e), X, n, from, now)
<1> DEFINE t == Append(s, e)
<1>1. /\ t \in Seq(S) /\ Len(t) = Len(s) + 1 /\ t[Len(s) + 1] = e
      /\ \A i \in 1..Len(s) : i # Len(s) + 1 /\ t[i] = s[i]
      /\ \A i \in 1..(Len(s) + 1) : i \in 1..Len(s) \/ i = Len(s) + 1
  BY Appended
<1>2. \A i \in 1..Len(t) : ~(Len(s) + 1 < i) BY <1>1
<1>3. \A i \in 1..Len(s) : n[s[i]] \in Int OBVIOUS
<1> HIDE DEF t
<1>4. ASSUME NEW i \in 1..Len(t), t[i] \in X PROVE from <= n[t[i]] /\ n[t[i]] <= now
  <2>1. CASE i \in 1..Len(s)
    <3>1. from <= n[s[i]] /\ n[s[i]] <= upto BY <1>1, <1>4, <2>1 DEF Rising
    <3> QED BY <1>1, <1>3, <2>1, <3>1
  <2>2. CASE i = Len(s) + 1 BY <1>1, <1>4, <2>2
  <2> QED BY <1>1, <2>1, <2>2
<1>5. ASSUME NEW i \in 1..Len(t), NEW j \in 1..Len(t), i < j, t[i] \in X, t[j] \in X
      PROVE  n[t[i]] <= n[t[j]]
  <2>1. i \in 1..Len(s) /\ t[i] = s[i] BY <1>1, <1>2, <1>5
  <2>2. CASE j \in 1..Len(s) BY <1>1, <1>5, <2>1, <2>2 DEF Rising
  <2>3. CASE j = Len(s) + 1
    <3>1. n[s[i]] <= upto BY <1>5, <2>1 DEF Rising
    <3>2. upto <= n[e] /\ t[j] = e BY <1>1, <1>5, <2>3
    <3> QED BY <1>3, <2>1, <3>1, <3>2
  <2> QED BY <1>1, <2>2, <2>3
<1> QED BY <1>4, <1>5 DEF Rising, t

\* The numbers that wait are below a higher bound too.
LEMMA RisingWidened ==
  ASSUME NEW S, NEW s \in Seq(S), NEW X, NEW n \in [S -> Int], NEW from,
         NEW upto \in Int, NEW now \in Int, upto <= now, Rising(s, X, n, from, upto)
  PROVE  Rising(s, X, n, from, now)
<1>1. \A i \in 1..Len(s) : n[s[i]] \in Int OBVIOUS
<1>2. \A i \in 1..Len(s) : s[i] \in X => from <= n[s[i]] /\ n[s[i]] <= now
  BY <1>1 DEF Rising
<1> QED BY <1>2 DEF Rising

\* The first number bounds those that follow.
LEMMA RisingHandled ==
  ASSUME NEW S, NEW s \in Seq(S), s # <<>>, NEW X, NEW n \in [S -> Int],
         NEW from, NEW upto, Rising(s, X, n, from, upto)
  PROVE  /\ Rising(Tail(s), X, n, from, upto)
         /\ Head(s) \in X => /\ from <= n[Head(s)] /\ n[Head(s)] <= upto
                             /\ Rising(Tail(s), X, n, n[Head(s)], upto)
<1> DEFINE t == Tail(s)
           e == Head(s)
<1>1. /\ t \in Seq(S) /\ Len(t) = Len(s) - 1 /\ e = s[1] /\ e \in S /\ 1 \in 1..Len(s)
      /\ \A i \in 1..Len(t) : i + 1 \in 1..Len(s) /\ t[i] = s[i + 1]
  BY Tailed
<1>2. /\ \A i, j \in 1..Len(t) : i < j <=> i + 1 < j + 1
      /\ \A i \in 1..Len(t) : 1 < i + 1
  BY <1>1
<1> HIDE DEF t, e
<1>3. ASSUME NEW i \in 1..Len(t), NEW j \in 1..Len(t), i < j, t[i] \in X, t[j] \in X
      PROVE  n[t[i]] <= n[t[j]]
  <2>1. i + 1 < j + 1 /\ i + 1 \in 1..Len(s) /\ j + 1 \in 1..Len(s) BY <1>1, <1>2, <1>3
  <2>2. t[i] = s[i + 1] /\ t[j] = s[j + 1] BY <1>1
  <2> QED BY <1>3, <2>1, <2>2 DEF Rising
<1>4. \A i \in 1..Len(t) : t[i] \in X => from <= n[t[i]] /\ n[t[i]] <= upto
  BY <1>1 DEF Rising
<1>5. Rising(t, X, n, from, upto) BY <1>3, <1>4 DEF Rising
<1>6. ASSUME e \in X
      PROVE  from <= n[e] /\ n[e] <= upto /\ Rising(t, X, n, n[e], upto)
  <2>1. from <= n[e] /\ n[e] <= upto BY <1>1, <1>6 DEF Rising
  <2>2. ASSUME NEW i \in 1..Len(t), t[i] \in X PROVE n[e] <= n[t[i]]
    <3>1. t[i] = s[i + 1] /\ i + 1 \in 1..Len(s) /\ 1 < i + 1 BY <1>1, <1>2
    <3> QED BY <1>1, <1>6, <2>2, <3>1 DEF Rising
  <2>3. Rising(t, X, n, n[e], upto) BY <1>3, <1>4, <2>2 DEF Rising
  <2> QED BY <2>1, <2>3
<1> QED BY <1>5, <1>6 DEF t, e

\* With a proxy only its signals are lost, and all of them.
LEMMA QueueWithout ==
  ASSUME NEW S, NEW s \in Seq(S), NEW kinds
  PROVE  /\ Without(s, kinds) \in Seq(S)
         /\ \A X : (\A e \in X : e.on \in kinds) => NoneIn(Without(s, kinds), X)
         /\ \A X : (\A e \in X : e.on \notin kinds) =>
              /\ NoneIn(Without(s, kinds), X) => NoneIn(s, X)
              /\ \A Y : LastIn(s, X, Y) => LastIn(Without(s, kinds), X, Y)
<1> DEFINE out == Without(s, kinds)
<1>1. out \in Seq(S) BY WithoutIsLeft
<1>2. PICK at : IsWithout(s, kinds, out, at) BY WithoutIsLeft
<1> HIDE DEF out
<1>3. ASSUME NEW X, \A e \in X : e.on \in kinds PROVE NoneIn(out, X)
  BY <1>2, <1>3 DEF IsWithout, NoneIn
<1>4. ASSUME NEW X, \A e \in X : e.on \notin kinds, NoneIn(out, X) PROVE NoneIn(s, X)
  <2> SUFFICES ASSUME NEW k \in 1..Len(s), s[k] \in X PROVE FALSE BY DEF NoneIn
  <2>1. PICK i \in 1..Len(out) : at[i] = k BY <1>2, <1>4 DEF IsWithout
  <2>2. out[i] \in X BY <1>2, <2>1 DEF IsWithout
  <2> QED BY <1>4, <2>2 DEF NoneIn
<1>5. ASSUME NEW X, \A e \in X : e.on \notin kinds, NEW Y, LastIn(s, X, Y)
      PROVE  LastIn(out, X, Y)
  <2> SUFFICES ASSUME NEW i \in 1..Len(out), out[i] \in X,
                      \A j \in 1..Len(out) : i < j => out[j] \notin X
               PROVE  out[i] \in Y
    BY DEF LastIn
  <2>1. at[i] \in 1..Len(s) /\ out[i] = s[at[i]] BY <1>2 DEF IsWithout
  <2>2. ASSUME NEW k \in 1..Len(s), at[i] < k PROVE s[k] \notin X
    <3> SUFFICES ASSUME s[k] \in X PROVE FALSE OBVIOUS
    <3>1. PICK j \in 1..Len(out) : at[j] = k BY <1>2, <1>5 DEF IsWithout
    <3>2. ~(j < i) /\ i # j BY <1>2, <2>1, <2>2, <3>1 DEF IsWithout
    <3>3. i < j BY <1>1, <3>2
    <3>4. out[j] \in X BY <1>2, <3>1 DEF IsWithout
    <3> QED BY <3>3, <3>4
  <2> QED BY <1>5, <2>1, <2>2 DEF LastIn
<1> QED BY <1>1, <1>3, <1>4, <1>5 DEF out

\* Where no signal waits, nothing is said of any.
LEMMA QueueEmpty ==
  /\ \A X, Y : NoneIn(<<>>, X) /\ LastIn(<<>>, X, Y)
  /\ \A X, n, from, upto : Rising(<<>>, X, n, from, upto)
  /\ \A S : \A s \in Seq(S) : NoneIn(s, S) => s = <<>>
<1>1. Len(<<>>) = 0 OBVIOUS
<1>2. ASSUME NEW S, NEW s \in Seq(S), NoneIn(s, S) PROVE s = <<>>
  <2>1. Len(s) = 0 BY <1>2 DEF NoneIn
  <2> QED BY <2>1
<1>3. \A X, Y : NoneIn(<<>>, X) /\ LastIn(<<>>, X, Y) BY <1>1 DEF NoneIn, LastIn
<1>4. \A X, n, from, upto : Rising(<<>>, X, n, from, upto) BY <1>1 DEF Rising
<1> QED BY <1>2, <1>3, <1>4

\* Signals that do not wait have any last and any numbers.
LEMMA QueueNone ==
  ASSUME NEW s, NEW X, NoneIn(s, X)
  PROVE  /\ \A Y : LastIn(s, X, Y)
         /\ \A n, from, upto : Rising(s, X, n, from, upto)
BY DEF NoneIn, LastIn, Rising

\* A queue whose last signal of X is in Y has one of Y, if it has one of X.
LEMMA LastFound ==
  ASSUME NEW S, NEW s \in Seq(S), NEW X, NEW Y, LastIn(s, X, Y), ~NoneIn(s, X)
  PROVE  ~NoneIn(s, Y)
<1> DEFINE n == Len(s)
           T == {n - i : i \in {i \in 1..n : s[i] \in X}}
<1>0. n \in Nat OBVIOUS
<1>1. T \in SUBSET Nat BY <1>0
<1>2. T # {} BY DEF NoneIn
<1> HIDE DEF T
<1>3. PICK m \in T : \A k \in T : m <= k BY <1>1, <1>2, Least
<1>4. PICK i \in 1..n : s[i] \in X /\ m = n - i BY DEF T
<1>5. ASSUME NEW j \in 1..n, i < j PROVE s[j] \notin X
  <2> SUFFICES ASSUME s[j] \in X PROVE FALSE OBVIOUS
  <2>1. n - j \in T BY DEF T
  <2>2. n - i <= n - j BY <1>3, <1>4, <2>1
  <2> QED BY <1>0, <1>5, <2>2
<1>6. s[i] \in Y BY <1>4, <1>5 DEF LastIn
<1> QED BY <1>6 DEF NoneIn

\* Of two sets, one of which is not in the queue, the other has the last.
LEMMA LastOfTwo ==
  ASSUME NEW s, NEW X, NEW Z, NEW Y, NoneIn(s, Z)
  PROVE  LastIn(s, X \cup Z, Y) <=> LastIn(s, X, Y)
BY DEF LastIn, NoneIn

\* The last of X is in Y, because those that wait are.
LEMMA LastAll ==
  ASSUME NEW s, NEW X, NEW Y, NEW Z, NoneIn(s, Z), X \subseteq Y \cup Z
  PROVE  LastIn(s, X, Y)
BY DEF LastIn, NoneIn

\* The last of X is in every set that has those of Y.
LEMMA LastWidened ==
  ASSUME NEW s, NEW X, NEW Y, NEW Z, LastIn(s, X, Y), Y \subseteq Z
  PROVE  LastIn(s, X, Z)
BY DEF LastIn

\* None of those that do not wait is left.
LEMMA NoneWithout ==
  ASSUME NEW S, NEW s \in Seq(S), NEW kinds, NEW X, NoneIn(s, X)
  PROVE  NoneIn(Without(s, kinds), X)
<1> DEFINE out == Without(s, kinds)
<1>1. PICK at : IsWithout(s, kinds, out, at) BY WithoutIsLeft
<1> HIDE DEF out
<1>2. NoneIn(out, X) BY <1>1 DEF IsWithout, NoneIn
<1> QED BY <1>2 DEF out

----------------------------------------------------------------------------
(* Signals that come one behind the other.                                 *)

\* every signal of X has one of Y behind it
Behind(s, X, Y) ==
  \A i \in 1..Len(s) : s[i] \in X => \E j \in 1..Len(s) : i < j /\ s[j] \in Y

\* the signals of Y, but for the first of all, are those right behind one of X
Paired(s, X, Y) ==
  \A i \in 1..Len(s) : i + 1 \in 1..Len(s) => (s[i] \in X <=> s[i + 1] \in Y)

\* What a signal more has behind it: nothing.
LEMMA BehindAppended ==
  ASSUME NEW S, NEW s \in Seq(S), NEW e \in S
  PROVE  /\ \A X, Y : e \notin X /\ e \in Y => Behind(Append(s, e), X, Y)
         /\ \A X, Y : e \notin X /\ Behind(s, X, Y) => Behind(Append(s, e), X, Y)
         /\ \A X, Y : Paired(s, X, Y) /\ (s # <<>> => (s[Len(s)] \in X <=> e \in Y)) =>
              Paired(Append(s, e), X, Y)
<1> DEFINE t == Append(s, e)
<1>1. /\ t \in Seq(S) /\ Len(t) = Len(s) + 1 /\ t[Len(s) + 1] = e
      /\ \A i \in 1..Len(s) : i # Len(s) + 1 /\ t[i] = s[i]
      /\ \A i \in 1..(Len(s) + 1) : i \in 1..Len(s) \/ i = Len(s) + 1
  BY Appended
<1>2. /\ Len(s) \in Nat /\ Len(s) + 1 \in 1..Len(t)
      /\ \A i \in 1..Len(s) : i \in 1..Len(t) /\ i < Len(s) + 1
      /\ ~((Len(s) + 1) + 1 \in 1..Len(t))
  BY <1>1
<1> HIDE DEF t
<1>3. \A X, Y : e \notin X /\ e \in Y => Behind(t, X, Y) BY <1>1, <1>2 DEF Behind
<1>4. \A X, Y : e \notin X /\ Behind(s, X, Y) => Behind(t, X, Y)
  BY <1>1, <1>2 DEF Behind
<1>5. ASSUME NEW X, NEW Y, Paired(s, X, Y), s # <<>> => (s[Len(s)] \in X <=> e \in Y)
      PROVE  Paired(t, X, Y)
  <2> SUFFICES ASSUME NEW i \in 1..Len(t), i + 1 \in 1..Len(t)
               PROVE  t[i] \in X <=> t[i + 1] \in Y
    BY DEF Paired
  <2>1. i \in 1..Len(s) /\ t[i] = s[i] BY <1>1, <1>2
  <2>2. CASE i + 1 \in 1..Len(s) BY <1>1, <1>5, <2>1, <2>2 DEF Paired
  <2>3. CASE i + 1 = Len(s) + 1
    <3>1. i = Len(s) /\ s # <<>> BY <1>2, <2>1, <2>3
    <3> QED BY <1>1, <1>5, <2>1, <2>3, <3>1
  <2> QED BY <1>1, <2>2, <2>3
<1> QED BY <1>3, <1>4, <1>5 DEF t

\* What the first signal has behind it is still there when it is handled.
LEMMA BehindHandled ==
  ASSUME NEW S, NEW s \in Seq(S), s # <<>>
  PROVE  /\ \A X, Y : Behind(s, X, Y) => /\ Behind(Tail(s), X, Y)
                                         /\ Head(s) \in X => ~NoneIn(Tail(s), Y)
         /\ \A X, Y : Paired(s, X, Y) =>
              /\ Paired(Tail(s), X, Y)
              /\ Tail(s) # <<>> => (Head(s) \in X <=> Head(Tail(s)) \in Y)
<1> DEFINE t == Tail(s)
           e == Head(s)
<1>1. /\ t \in Seq(S) /\ Len(t) = Len(s) - 1 /\ e = s[1] /\ e \in S /\ 1 \in 1..Len(s)
      /\ \A i \in 1..Len(t) : i + 1 \in 1..Len(s) /\ t[i] = s[i + 1]
      /\ \A i \in 1..Len(s) : i = 1 \/ (i - 1 \in 1..Len(t) /\ t[i - 1] = s[i])
  BY Tailed
<1>2. t # <<>> => /\ Head(t) = t[1] /\ 1 \in 1..Len(t) /\ t[1] = s[1 + 1]
                  /\ 1 + 1 \in 1..Len(s)
  BY <1>1
<1> HIDE DEF t, e
<1>3. ASSUME NEW X, NEW Y, Behind(s, X, Y) PROVE Behind(t, X, Y)
  <2> SUFFICES ASSUME NEW i \in 1..Len(t), t[i] \in X
               PROVE  \E j \in 1..Len(t) : i < j /\ t[j] \in Y
    BY DEF Behind
  <2>1. i + 1 \in 1..Len(s) /\ s[i + 1] \in X BY <1>1
  <2>2. PICK j \in 1..Len(s) : i + 1 < j /\ s[j] \in Y BY <1>3, <2>1 DEF Behind
  <2>3. j # 1 /\ i < j - 1 BY <2>1, <2>2
  <2>4. j - 1 \in 1..Len(t) /\ t[j - 1] = s[j] BY <1>1, <2>3
  <2> QED BY <2>2, <2>3, <2>4
<1>4. ASSUME NEW X, NEW Y, Behind(s, X, Y), e \in X PROVE ~NoneIn(t, Y)
  <2>1. PICK j \in 1..Len(s) : 1 < j /\ s[j] \in Y BY <1>1, <1>4 DEF Behind
  <2>2. j - 1 \in 1..Len(t) /\ t[j - 1] = s[j] BY <1>1, <2>1
  <2> QED BY <2>1, <2>2 DEF NoneIn
<1>5. ASSUME NEW X, NEW Y, Paired(s, X, Y)
      PROVE  Paired(t, X, Y) /\ (t # <<>> => (e \in X <=> Head(t) \in Y))
  <2>1. t # <<>> => (e \in X <=> Head(t) \in Y) BY <1>1, <1>2, <1>5 DEF Paired
  <2>2. ASSUME NEW i \in 1..Len(t), i + 1 \in 1..Len(t)
        PROVE  t[i] \in X <=> t[i + 1] \in Y
    <3>1. /\ i + 1 \in 1..Len(s) /\ (i + 1) + 1 \in 1..Len(s)
          /\ t[i] = s[i + 1] /\ t[i + 1] = s[(i + 1) + 1]
      BY <1>1, <2>2
    <3> QED BY <1>5, <3>1 DEF Paired
  <2> QED BY <2>1, <2>2 DEF Paired
<1> QED BY <1>3, <1>4, <1>5 DEF t, e

\* What a proxy does not receive stays behind what it stood behind.
LEMMA BehindWithout ==
  ASSUME NEW S, NEW s \in Seq(S), NEW kinds
  PROVE  /\ \A X, Y : (\A e \in Y : e.on \notin kinds) /\ Behind(s, X, Y) =>
              Behind(Without(s, kinds), X, Y)
         /\ \A X, Y : (\A e \in X \cup Y : e.on \notin kinds) /\ Paired(s, X, Y) =>
              /\ Paired(Without(s, kinds), X, Y)
              /\ s # <<>> /\ Head(s) \in Y =>
                   Without(s, kinds) # <<>> /\ Head(Without(s, kinds)) \in Y
              /\ Without(s, kinds) # <<>> /\ Head(Without(s, kinds)) \in Y =>
                   s # <<>> /\ Head(s) \in Y
<1> DEFINE out == Without(s, kinds)
<1>1. out \in Seq(S) BY WithoutIsLeft
<1>2. PICK at : IsWithout(s, kinds, out, at) BY WithoutIsLeft
<1> HIDE DEF out
<1>3. /\ \A i \in 1..Len(out) : at[i] \in 1..Len(s) /\ out[i] = s[at[i]]
      /\ \A i, j \in 1..Len(out) : i < j => at[i] < at[j]
      /\ \A k \in 1..Len(s) : s[k].on \notin kinds => \E i \in 1..Len(out) : at[i] = k
  BY <1>2 DEF IsWithout
<1>4. \A i, j \in 1..Len(out) : at[i] < at[j] => i < j
  <2> SUFFICES ASSUME NEW i \in 1..Len(out), NEW j \in 1..Len(out), at[i] < at[j], ~(i < j)
               PROVE  FALSE
    OBVIOUS
  <2>1. at[i] \in Int /\ at[j] \in Int BY <1>3
  <2>2. j = i \/ j < i BY <1>1
  <2> QED BY <1>3, <2>1, <2>2
<1>5. ASSUME NEW X, NEW Y, \A e \in Y : e.on \notin kinds, Behind(s, X, Y)
      PROVE  Behind(out, X, Y)
  <2> SUFFICES ASSUME NEW i \in 1..Len(out), out[i] \in X
               PROVE  \E j \in 1..Len(out) : i < j /\ out[j] \in Y
    BY DEF Behind
  <2>1. PICK k \in 1..Len(s) : at[i] < k /\ s[k] \in Y BY <1>3, <1>5 DEF Behind
  <2>2. PICK j \in 1..Len(out) : at[j] = k BY <1>3, <1>5, <2>1
  <2> QED BY <1>3, <1>4, <2>1, <2>2
<1>6. ASSUME NEW X, NEW Y, \A e \in X \cup Y : e.on \notin kinds, Paired(s, X, Y)
      PROVE  /\ Paired(out, X, Y)
             /\ s # <<>> /\ Head(s) \in Y => out # <<>> /\ Head(out) \in Y
             /\ out # <<>> /\ Head(out) \in Y => s # <<>> /\ Head(s) \in Y
  <2>1. ASSUME NEW i \in 1..Len(out), i + 1 \in 1..Len(out)
        PROVE  out[i] \in X <=> out[i + 1] \in Y
    <3>1. /\ at[i] \in 1..Len(s) /\ at[i + 1] \in 1..Len(s) /\ at[i] < at[i + 1]
          /\ out[i] = s[at[i]] /\ out[i + 1] = s[at[i + 1]]
      BY <1>1, <1>3, <2>1
    \* those that are kept are not torn apart
    <3>2. ASSUME NEW k \in 1..Len(s), at[i] < k, k < at[i + 1], s[k].on \notin kinds
          PROVE  FALSE
      <4>1. PICK j \in 1..Len(out) : at[j] = k BY <1>3, <3>2
      <4>2. i < j /\ j < i + 1 BY <1>4, <2>1, <3>2, <4>1
      <4> QED BY <4>2
    <3>3. ASSUME out[i] \in X PROVE out[i + 1] \in Y
      <4>1. at[i] + 1 \in 1..Len(s) BY <1>1, <3>1
      <4>2. s[at[i] + 1] \in Y BY <1>6, <3>1, <3>3, <4>1 DEF Paired
      <4>3. s[at[i] + 1].on \notin kinds BY <1>6, <4>2
      <4>4. at[i] < at[i] + 1 BY <3>1
      <4>5. ~(at[i] + 1 < at[i + 1]) BY <3>2, <4>1, <4>3, <4>4
      <4>6. at[i + 1] = at[i] + 1 BY <3>1, <4>5
      <4> QED BY <3>1, <4>2, <4>6
    <3>4. ASSUME out[i + 1] \in Y PROVE out[i] \in X
      <4>1. at[i + 1] - 1 \in 1..Len(s) /\ (at[i + 1] - 1) + 1 = at[i + 1] BY <1>1, <3>1
      <4>2. s[at[i + 1] - 1] \in X BY <1>6, <3>1, <3>4, <4>1 DEF Paired
      <4>3. s[at[i + 1] - 1].on \notin kinds BY <1>6, <4>2
      <4>4. at[i + 1] - 1 < at[i + 1] BY <3>1
      <4>5. ~(at[i] < at[i + 1] - 1) BY <3>2, <4>1, <4>3, <4>4
      <4>6. at[i] = at[i + 1] - 1 BY <3>1, <4>5
      <4> QED BY <3>1, <4>2, <4>6
    <3> QED BY <3>3, <3>4
  <2>2. ASSUME s # <<>>, Head(s) \in Y PROVE out # <<>> /\ Head(out) \in Y
    <3>1. 1 \in 1..Len(s) /\ Head(s) = s[1] BY <2>2
    <3>2. PICK i \in 1..Len(out) : at[i] = 1 BY <1>3, <1>6, <2>2, <3>1
    <3>3. 1 \in 1..Len(out) /\ out # <<>> /\ Head(out) = out[1] BY <1>1, <3>2
    <3>4. at[1] \in 1..Len(s) /\ (1 < i => at[1] < at[i]) BY <1>3, <3>2, <3>3
    <3>5. i = 1 BY <3>2, <3>4
    <3> QED BY <1>3, <2>2, <3>1, <3>2, <3>3, <3>5
  <2>3. ASSUME out # <<>>, Head(out) \in Y PROVE s # <<>> /\ Head(s) \in Y
    <3>1. 1 \in 1..Len(out) /\ Head(out) = out[1] BY <1>1, <2>3
    <3>2. at[1] \in 1..Len(s) /\ out[1] = s[at[1]] BY <1>3, <3>1
    <3>3. ASSUME at[1] # 1 PROVE FALSE
      <4>1. at[1] - 1 \in 1..Len(s) /\ (at[1] - 1) + 1 = at[1] /\ at[1] - 1 < at[1]
        BY <3>2, <3>3
      <4>2. s[at[1] - 1] \in X BY <1>6, <2>3, <3>1, <3>2, <4>1 DEF Paired
      <4>3. s[at[1] - 1].on \notin kinds BY <1>6, <4>2
      <4>4. PICK j \in 1..Len(out) : at[j] = at[1] - 1 BY <1>3, <4>1, <4>3
      <4>5. j < 1 BY <1>4, <3>1, <4>1, <4>4
      <4> QED BY <4>5
    <3>4. s # <<>> /\ Head(s) = s[1] BY <3>2
    <3> QED BY <2>3, <3>1, <3>2, <3>3, <3>4
  <2> QED BY <2>1, <2>2, <2>3 DEF Paired
<1> QED BY <1>5, <1>6 DEF out

\* Nothing is behind a signal of which none waits.
LEMMA BehindNone ==
  ASSUME NEW s, NEW X, NEW Y, Behind(s, X, Y), NoneIn(s, Y)
  PROVE  NoneIn(s, X)
BY DEF Behind, NoneIn

\* What the signals in L that are lost leave to say.
LEMMA QueueSelected ==
  ASSUME NEW S, NEW s \in Seq(S), NEW L, NEW keep, NEW out, out = SelectAt(s, keep),
         \A i \in 1..Len(s) : i \in keep <=> s[i] \notin L
  PROVE  /\ out \in Seq(S) /\ NoneIn(out, L)
         /\ \A X : NoneIn(s, X) => NoneIn(out, X)
         /\ \A X : (\A e \in X : e \notin L) =>
              /\ NoneIn(out, X) => NoneIn(s, X)
              /\ \A Y : LastIn(s, X, Y) => LastIn(out, X, Y)
         /\ \A X, Y : (\A e \in Y : e \notin L) /\ Behind(s, X, Y) => Behind(out, X, Y)
<1>1. \A i \in 1..Len(s) : i \in keep <=> s[i] \notin L OBVIOUS
<1>3. out \in Seq(S) /\ \E at : IsLeft(s, keep, Len(s), out, at) BY LeftIsLeft
<1>4. PICK at : IsLeft(s, keep, Len(s), out, at) BY <1>3
<1>5. /\ \A i \in 1..Len(out) : at[i] \in 1..Len(s) /\ out[i] = s[at[i]] /\ s[at[i]] \notin L
      /\ \A i, j \in 1..Len(out) : i < j => at[i] < at[j]
      /\ \A k \in 1..Len(s) : s[k] \notin L => \E i \in 1..Len(out) : at[i] = k
  BY <1>1, <1>4 DEF IsLeft
<1>6. \A i, j \in 1..Len(out) : at[i] < at[j] => i < j
  <2> SUFFICES ASSUME NEW i \in 1..Len(out), NEW j \in 1..Len(out), at[i] < at[j], ~(i < j)
               PROVE  FALSE
    OBVIOUS
  <2>1. at[i] \in Int /\ at[j] \in Int BY <1>5
  <2>2. j = i \/ j < i BY <1>3
  <2> QED BY <1>5, <2>1, <2>2
<1>7. NoneIn(out, L) /\ \A X : NoneIn(s, X) => NoneIn(out, X) BY <1>5 DEF NoneIn
<1>8. ASSUME NEW X, \A e \in X : e \notin L, NoneIn(out, X) PROVE NoneIn(s, X)
  <2> SUFFICES ASSUME NEW k \in 1..Len(s), s[k] \in X PROVE FALSE BY DEF NoneIn
  <2>1. PICK i \in 1..Len(out) : at[i] = k BY <1>5, <1>8
  <2> QED BY <1>5, <1>8, <2>1 DEF NoneIn
<1>9. ASSUME NEW X, \A e \in X : e \notin L, NEW Y, LastIn(s, X, Y) PROVE LastIn(out, X, Y)
  <2> SUFFICES ASSUME NEW i \in 1..Len(out), out[i] \in X,
                      \A j \in 1..Len(out) : i < j => out[j] \notin X
               PROVE  out[i] \in Y
    BY DEF LastIn
  <2>1. ASSUME NEW k \in 1..Len(s), at[i] < k PROVE s[k] \notin X
    <3> SUFFICES ASSUME s[k] \in X PROVE FALSE OBVIOUS
    <3>1. PICK j \in 1..Len(out) : at[j] = k BY <1>5, <1>9
    <3>2. i < j /\ out[j] \in X BY <1>5, <1>6, <2>1, <3>1
    <3> QED BY <3>2
  <2> QED BY <1>5, <1>9, <2>1 DEF LastIn
<1>10. ASSUME NEW X, NEW Y, \A e \in Y : e \notin L, Behind(s, X, Y) PROVE Behind(out, X, Y)
  <2> SUFFICES ASSUME NEW i \in 1..Len(out), out[i] \in X
               PROVE  \E j \in 1..Len(out) : i < j /\ out[j] \in Y
    BY DEF Behind
  <2>1. PICK k \in 1..Len(s) : at[i] < k /\ s[k] \in Y BY <1>5, <1>10 DEF Behind
  <2>2. PICK j \in 1..Len(out) : at[j] = k BY <1>5, <1>10, <2>1
  <2> QED BY <1>5, <1>6, <2>1, <2>2
<1> QED BY <1>3, <1>7, <1>8, <1>9, <1>10

----------------------------------------------------------------------------
(* The daemon as it is known from the queue.                               *)

\* among the signals in S, those that tell of its name on the bus
Starts(S) == {e \in S : e.on = "Registered"}
Stops(S) == {e \in S : e.on = "Unregistered"}

\* as far as the signals that were handled tell, the daemon is not there: there
\* is none and s is empty, or the next one says that it started
Absent(S, s, there) == \/ s = <<>> /\ ~there
                       \/ s # <<>> /\ Head(s) \in Starts(S)

\* A daemon that stopped starts before it does anything else; the last that is
\* heard of one that is not there is that it stopped.
Life(S, s, there) == /\ Paired(s, Stops(S), Starts(S))
                     /\ there => Behind(s, Stops(S), Starts(S))
                     /\ ~there => Behind(s, S \ Stops(S), Stops(S))

\* The signal that is handled says it stopped, or it still is not absent.
LEMMA LifeHandled ==
  ASSUME NEW S, NEW s \in Seq(S), s # <<>>, NEW there \in BOOLEAN, Life(S, s, there)
  PROVE  /\ Life(S, Tail(s), there)
         /\ Absent(S, Tail(s), there) <=> Head(s) \in Stops(S)
<1> DEFINE t == Tail(s)
           e == Head(s)
<1>1. t \in Seq(S) /\ e \in S BY Tailed
<1>2. /\ Paired(t, Stops(S), Starts(S)) /\ (t # <<>> => (e \in Stops(S) <=> Head(t) \in Starts(S)))
      /\ there => Behind(t, Stops(S), Starts(S)) /\ (e \in Stops(S) => ~NoneIn(t, Starts(S)))
      /\ ~there => /\ Behind(t, S \ Stops(S), Stops(S))
                   /\ e \in S \ Stops(S) => ~NoneIn(t, Stops(S))
  BY BehindHandled DEF Life
<1> HIDE DEF t, e
<1>3. t = <<>> => NoneIn(t, Starts(S)) /\ NoneIn(t, Stops(S)) BY QueueEmpty
<1>4. Life(S, t, there) BY <1>2 DEF Life
<1>5. Absent(S, t, there) <=> e \in Stops(S) BY <1>1, <1>2, <1>3 DEF Absent
<1> QED BY <1>4, <1>5 DEF t, e

\* What a proxy does not receive says nothing of it.
LEMMA LifeWithout ==
  ASSUME NEW S, NEW s \in Seq(S), NEW there \in BOOLEAN, Life(S, s, there),
         NEW kinds, "Registered" \notin kinds, "Unregistered" \notin kinds
  PROVE  /\ Life(S, Without(s, kinds), there)
         /\ Absent(S, Without(s, kinds), there) <=> Absent(S, s, there)
<1> DEFINE t == Without(s, kinds)
<1>1. t \in Seq(S) BY QueueWithout
<1>2. /\ \A e \in Stops(S) : e.on \notin kinds
      /\ \A e \in Starts(S) : e.on \notin kinds
      /\ \A e \in Stops(S) \cup Starts(S) : e.on \notin kinds
  BY DEF Stops, Starts
<1>3. /\ Paired(t, Stops(S), Starts(S))
      /\ s # <<>> /\ Head(s) \in Starts(S) => t # <<>> /\ Head(t) \in Starts(S)
      /\ t # <<>> /\ Head(t) \in Starts(S) => s # <<>> /\ Head(s) \in Starts(S)
  BY <1>2, BehindWithout DEF Life
<1>4. there => Behind(t, Stops(S), Starts(S)) BY <1>2, BehindWithout DEF Life
<1>5. ~there => Behind(t, S \ Stops(S), Stops(S)) BY <1>2, BehindWithout DEF Life
<1>6. s = <<>> => t = <<>>
  <2>1. s = <<>> => NoneIn(s, S) BY QueueEmpty
  <2>2. PICK at : IsWithout(s, kinds, t, at) BY WithoutIsLeft
  <2> HIDE DEF t
  <2>3. s = <<>> => Len(t) = 0
    <3> SUFFICES ASSUME s = <<>>, Len(t) # 0 PROVE FALSE OBVIOUS
    <3>1. 1 \in 1..Len(t) BY <1>1
    <3>2. at[1] \in 1..Len(s) BY <2>2, <3>1 DEF IsWithout
    <3> QED BY <3>2
  <2> QED BY <1>1, <2>3
<1>7. t = <<>> /\ ~there => s = <<>>
  <2> SUFFICES ASSUME t = <<>>, ~there, s # <<>> PROVE FALSE OBVIOUS
  <2>1. NoneIn(t, Stops(S)) BY QueueEmpty
  <2>2. NoneIn(s, Stops(S)) BY <1>2, <2>1, QueueWithout
  <2>3. NoneIn(s, S \ Stops(S)) BY <2>2, BehindNone DEF Life
  <2>4. NoneIn(s, S) BY <2>2, <2>3 DEF NoneIn
  <2> QED BY <2>4, QueueEmpty
<1> HIDE DEF t
<1>8. Life(S, t, there) BY <1>3, <1>4, <1>5 DEF Life
<1>9. Absent(S, t, there) <=> Absent(S, s, there) BY <1>3, <1>6, <1>7 DEF Absent
<1> QED BY <1>8, <1>9 DEF t

\* The first signal is that of the queue before, if there was one.
LEMMA Headed ==
  ASSUME NEW S, NEW s \in Seq(S), NEW e \in S
  PROVE  /\ Append(s, e) # <<>>
         /\ s # <<>> => Head(Append(s, e)) = Head(s)
         /\ s = <<>> => Head(Append(s, e)) = e
<1>1. Append(s, e) # <<>>
  <2>1. Len(Append(s, e)) = Len(s) + 1 /\ Len(s) \in Nat BY Appended
  <2>2. Len(Append(s, e)) # 0 /\ Len(<<>>) = 0 BY <2>1
  <2> QED BY <2>2
<1>2. s # <<>> => Append(s, e)[1] = s[1]
  <2>1. s # <<>> => 1 \in 1..Len(s) OBVIOUS
  <2> QED BY <2>1, Appended
<1>3. s = <<>> => Append(s, e)[1] = e
  <2>1. (s = <<>> => Len(s) = 0) /\ Append(s, e)[Len(s) + 1] = e OBVIOUS
  <2> QED BY <2>1
<1> QED BY <1>1, <1>2, <1>3

\* What a daemon does while it is there, or that it stops, is one signal more.
LEMMA LifeSent ==
  ASSUME NEW S, NEW s \in Seq(S), Life(S, s, TRUE), NEW e \in S, e \notin Starts(S),
         NEW there \in BOOLEAN, there = (e \notin Stops(S))
  PROVE  /\ Life(S, Append(s, e), there)
         /\ Absent(S, Append(s, e), there) <=> Absent(S, s, TRUE)
<1> DEFINE t == Append(s, e)
<1>1. /\ t # <<>>
      /\ s # <<>> => Head(t) = Head(s)
      /\ s = <<>> => Head(t) = e
  BY Headed
<1>2. s # <<>> => s[Len(s)] \notin Stops(S)
  <2> SUFFICES ASSUME s # <<>>, s[Len(s)] \in Stops(S) PROVE FALSE OBVIOUS
  <2>1. Len(s) \in 1..Len(s) /\ \A j \in 1..Len(s) : ~(Len(s) < j) OBVIOUS
  <2> QED BY <2>1 DEF Life, Behind
<1>3. Paired(t, Stops(S), Starts(S)) BY <1>2, BehindAppended DEF Life
<1>4. e \notin Stops(S) => Behind(t, Stops(S), Starts(S)) BY BehindAppended DEF Life
<1>5. e \in Stops(S) => Behind(t, S \ Stops(S), Stops(S)) BY BehindAppended
<1> HIDE DEF t
<1>6. Life(S, t, there) BY <1>3, <1>4, <1>5 DEF Life
<1>7. Absent(S, t, there) <=> Absent(S, s, TRUE) BY <1>1 DEF Absent
<1> QED BY <1>6, <1>7 DEF t

\* A daemon that starts was absent to those who had heard that it stopped.
LEMMA LifeStarted ==
  ASSUME NEW S, NEW s \in Seq(S), Life(S, s, FALSE), NEW e \in Starts(S)
  PROVE  /\ Life(S, Append(s, e), TRUE)
         /\ Absent(S, Append(s, e), TRUE) <=> Absent(S, s, FALSE)
<1> DEFINE t == Append(s, e)
<1>0. e \in S /\ e \notin Stops(S) BY DEF Starts, Stops
<1>1. /\ t # <<>>
      /\ s # <<>> => Head(t) = Head(s)
      /\ s = <<>> => Head(t) = e
  BY <1>0, Headed
<1>2. s # <<>> => s[Len(s)] \in Stops(S)
  <2> SUFFICES ASSUME s # <<>>, s[Len(s)] \notin Stops(S) PROVE FALSE OBVIOUS
  <2>1. /\ Len(s) \in 1..Len(s) /\ \A j \in 1..Len(s) : ~(Len(s) < j)
        /\ s[Len(s)] \in S
    OBVIOUS
  <2> QED BY <2>1 DEF Life, Behind
<1>3. Paired(t, Stops(S), Starts(S)) BY <1>0, <1>2, BehindAppended DEF Life
<1>4. Behind(t, Stops(S), Starts(S)) BY <1>0, BehindAppended
<1> HIDE DEF t
<1>5. Life(S, t, TRUE) BY <1>3, <1>4 DEF Life
<1>6. Absent(S, t, TRUE) <=> Absent(S, s, FALSE) BY <1>1 DEF Absent
<1> QED BY <1>5, <1>6 DEF t

----------------------------------------------------------------------------

\* Whatever waits has a last signal of its set at its place or behind it.
LEMMA LastThere ==
  ASSUME NEW S, NEW s \in Seq(S), NEW X, NEW i \in 1..Len(s), s[i] \in X
  PROVE  \E l \in 1..Len(s) : /\ i <= l /\ s[l] \in X
                              /\ \A j \in 1..Len(s) : l < j => s[j] \notin X
<1> DEFINE n == Len(s)
           T == {n - k : k \in {k \in 1..n : i <= k /\ s[k] \in X}}
<1>0. n \in Nat OBVIOUS
<1>1. T \in SUBSET Nat BY <1>0
<1>2. n - i \in T OBVIOUS
<1> HIDE DEF T
<1>3. PICK m \in T : \A k \in T : m <= k BY <1>1, <1>2, Least
<1>4. PICK l \in 1..n : i <= l /\ s[l] \in X /\ m = n - l BY DEF T
<1>5. ASSUME NEW j \in 1..n, l < j PROVE s[j] \notin X
  <2> SUFFICES ASSUME s[j] \in X PROVE FALSE OBVIOUS
  <2>1. i <= j /\ n - j < n - l BY <1>0, <1>4, <1>5
  <2>2. n - j \in T BY <2>1 DEF T
  <2> QED BY <1>0, <1>3, <1>4, <2>1, <2>2
<1> QED BY <1>4, <1>5

\* When the last of two sets is in neither's other part, it is the last of
\* the one; and those that are not it have it behind them.
LEMMA LastNarrowed ==
  ASSUME NEW S, NEW s \in Seq(S), NEW W, NEW Y, LastIn(s, W, Y), NEW X
  PROVE  /\ X \subseteq W /\ (\A e \in W : e \in X \/ e \notin Y) => LastIn(s, X, Y)
         /\ X \subseteq W /\ (\A e \in X : e \notin Y) => Behind(s, X, Y)
<1>1. ASSUME X \subseteq W, \A e \in W : e \in X \/ e \notin Y PROVE LastIn(s, X, Y)
  <2> SUFFICES ASSUME NEW i \in 1..Len(s), s[i] \in X,
                      \A j \in 1..Len(s) : i < j => s[j] \notin X
               PROVE  s[i] \in Y
    BY DEF LastIn
  <2>1. PICK l \in 1..Len(s) : /\ i <= l /\ s[l] \in W
                               /\ \A j \in 1..Len(s) : l < j => s[j] \notin W
    BY <1>1, LastThere
  <2>2. s[l] \in Y BY <2>1 DEF LastIn
  <2>3. s[l] \in X BY <1>1, <2>1, <2>2
  <2>4. l = i BY <2>1, <2>3
  <2> QED BY <2>2, <2>4
<1>2. ASSUME X \subseteq W, \A e \in X : e \notin Y PROVE Behind(s, X, Y)
  <2> SUFFICES ASSUME NEW i \in 1..Len(s), s[i] \in X
               PROVE  \E j \in 1..Len(s) : i < j /\ s[j] \in Y
    BY DEF Behind
  <2>1. PICK l \in 1..Len(s) : /\ i <= l /\ s[l] \in W
                               /\ \A j \in 1..Len(s) : l < j => s[j] \notin W
    BY <1>2, LastThere
  <2>2. s[l] \in Y BY <2>1 DEF LastIn
  <2>3. l # i BY <1>2, <2>2
  <2>4. i < l BY <2>1, <2>3
  <2> QED BY <2>2, <2>4
<1> QED BY <1>1, <1>2

\* A signal that is not among those that wait is in no part of them.
LEMMA NoneOf ==
  ASSUME NEW s, NEW X, NEW Y, NoneIn(s, Y), X \subseteq Y
  PROVE  NoneIn(s, X)
BY DEF NoneIn

----------------------------------------------------------------------------
(* Signals that are sent only after others told that they may be.          *)

\* when the i-th signal is handled the last that was heard of X or B is of X;
\* own says whether it is now
ToldAt(s, i, X, B, own) ==
  \/ \E j \in 1..Len(s) : /\ j < i /\ s[j] \in X
                          /\ \A k \in 1..Len(s) : j < k /\ k < i => s[k] \notin B
  \/ own /\ \A k \in 1..Len(s) : k < i => s[k] \notin B

AllTold(s, Y, X, B, own) == \A i \in 1..Len(s) : s[i] \in Y => ToldAt(s, i, X, B, own)

\* A signal may be sent when the last of X or B that waits is of X, or none
\* waits and own is true.
LEMMA ToldAppended ==
  ASSUME NEW S, NEW s \in Seq(S), NEW e \in S, NEW Y, NEW X, NEW B, NEW own,
         AllTold(s, Y, X, B, own),
         e \in Y => LastIn(s, X \cup B, X) /\ (NoneIn(s, X \cup B) => own)
  PROVE  AllTold(Append(s, e), Y, X, B, own)
<1> DEFINE t == Append(s, e)
<1>1. /\ t \in Seq(S) /\ Len(t) = Len(s) + 1 /\ t[Len(s) + 1] = e
      /\ \A i \in 1..Len(s) : i # Len(s) + 1 /\ t[i] = s[i]
      /\ \A i \in 1..(Len(s) + 1) : i \in 1..Len(s) \/ i = Len(s) + 1
  BY Appended
<1>2. /\ Len(s) \in Nat
      /\ \A i \in 1..Len(s) : i \in 1..Len(t) /\ i < Len(s) + 1 /\ ~(Len(s) + 1 < i)
  BY <1>1
<1> HIDE DEF t
<1>3. ASSUME NEW i \in 1..Len(s), s[i] \in Y PROVE ToldAt(t, i, X, B, own)
  <2>1. ToldAt(s, i, X, B, own) BY <1>3 DEF AllTold
  <2>2. CASE own /\ \A k \in 1..Len(s) : k < i => s[k] \notin B
    <3>1. \A k \in 1..Len(t) : k < i => t[k] \notin B BY <1>1, <1>2, <2>2
    <3> QED BY <2>2, <3>1 DEF ToldAt
  <2>3. ASSUME NEW j \in 1..Len(s), j < i, s[j] \in X,
               \A k \in 1..Len(s) : j < k /\ k < i => s[k] \notin B
        PROVE  ToldAt(t, i, X, B, own)
    <3>1. \A k \in 1..Len(t) : j < k /\ k < i => t[k] \notin B BY <1>1, <1>2, <2>3
    <3>2. j \in 1..Len(t) /\ t[j] \in X BY <1>1, <1>2, <2>3
    <3> QED BY <2>3, <3>1, <3>2 DEF ToldAt
  <2> QED BY <2>1, <2>2, <2>3 DEF ToldAt
<1>4. ASSUME e \in Y PROVE ToldAt(t, Len(s) + 1, X, B, own)
  <2>1. CASE NoneIn(s, X \cup B)
    <3>1. \A k \in 1..Len(t) : k < Len(s) + 1 => t[k] \notin B
      BY <1>1, <2>1 DEF NoneIn
    <3> QED BY <1>4, <2>1, <3>1 DEF ToldAt
  <2>2. CASE ~NoneIn(s, X \cup B)
    <3>1. PICK i \in 1..Len(s) : s[i] \in X \cup B BY <2>2 DEF NoneIn
    <3>2. PICK l \in 1..Len(s) : /\ i <= l /\ s[l] \in X \cup B
                                 /\ \A j \in 1..Len(s) : l < j => s[j] \notin X \cup B
      BY <3>1, LastThere
    <3>3. s[l] \in X BY <1>4, <3>2 DEF LastIn
    <3>4. \A k \in 1..Len(t) : l < k /\ k < Len(s) + 1 => t[k] \notin B
      BY <1>1, <3>2
    <3>5. l \in 1..Len(t) /\ l < Len(s) + 1 /\ t[l] \in X BY <1>1, <1>2, <3>3
    <3> QED BY <3>4, <3>5 DEF ToldAt
  <2> QED BY <2>1, <2>2
<1>5. AllTold(t, Y, X, B, own) BY <1>1, <1>3, <1>4 DEF AllTold
<1> QED BY <1>5 DEF t

\* What is heard with the first signal is known when it has been handled.
LEMMA ToldHandled ==
  ASSUME NEW S, NEW s \in Seq(S), s # <<>>, NEW Y, NEW X, NEW B, NEW own, NEW now,
         AllTold(s, Y, X, B, own),
         Head(s) \in X \/ (own /\ Head(s) \notin B) => now
  PROVE  /\ AllTold(Tail(s), Y, X, B, now)
         /\ Head(s) \in Y => own
<1> DEFINE t == Tail(s)
           e == Head(s)
<1>1. /\ t \in Seq(S) /\ Len(t) = Len(s) - 1 /\ e = s[1] /\ e \in S /\ 1 \in 1..Len(s)
      /\ \A i \in 1..Len(t) : i + 1 \in 1..Len(s) /\ t[i] = s[i + 1]
      /\ \A i \in 1..Len(s) : i = 1 \/ (i - 1 \in 1..Len(t) /\ t[i - 1] = s[i])
  BY Tailed
<1>2. e \in X \/ (own /\ e \notin B) => now OBVIOUS
<1> HIDE DEF t, e
<1>3. ASSUME NEW i \in 1..Len(t), t[i] \in Y PROVE ToldAt(t, i, X, B, now)
  <2>1. i + 1 \in 1..Len(s) /\ s[i + 1] \in Y /\ i \in Nat /\ 1 < i + 1 BY <1>1, <1>3
  <2>2. ToldAt(s, i + 1, X, B, own) BY <2>1 DEF AllTold
  <2>3. ASSUME NEW j \in 1..Len(s),
               \A k \in 1..Len(s) : j < k /\ k < i + 1 => s[k] \notin B
        PROVE  \A k \in 1..Len(t) : j - 1 < k /\ k < i => t[k] \notin B
    <3> SUFFICES ASSUME NEW k \in 1..Len(t), j - 1 < k, k < i PROVE t[k] \notin B
      OBVIOUS
    <3>1. k + 1 \in 1..Len(s) /\ t[k] = s[k + 1] /\ k \in Nat BY <1>1
    <3>2. j < k + 1 /\ k + 1 < i + 1 BY <2>1, <3>1
    <3> QED BY <2>3, <3>1, <3>2
  <2>4. ASSUME NEW j \in 1..Len(s), j < i + 1, s[j] \in X,
               \A k \in 1..Len(s) : j < k /\ k < i + 1 => s[k] \notin B
        PROVE  ToldAt(t, i, X, B, now)
    <3>0. \A k \in 1..Len(t) : j - 1 < k /\ k < i => t[k] \notin B BY <2>3, <2>4
    <3>1. CASE j = 1
      <4>1. now BY <1>1, <1>2, <2>4, <3>1
      <4>2. \A k \in 1..Len(t) : k < i => t[k] \notin B BY <3>0, <3>1
      <4> QED BY <4>1, <4>2 DEF ToldAt
    <3>2. CASE j # 1
      <4>1. j - 1 \in 1..Len(t) /\ t[j - 1] \in X BY <1>1, <2>4, <3>2
      <4>2. j - 1 < i BY <2>1, <2>4
      <4> QED BY <3>0, <4>1, <4>2 DEF ToldAt
    <3> QED BY <3>1, <3>2
  <2>5. ASSUME own, \A k \in 1..Len(s) : k < i + 1 => s[k] \notin B
        PROVE  ToldAt(t, i, X, B, now)
    <3>1. e \notin B BY <1>1, <2>1, <2>5
    <3>2. \A k \in 1..Len(t) : k < i => t[k] \notin B
      <4> SUFFICES ASSUME NEW k \in 1..Len(t), k < i PROVE t[k] \notin B OBVIOUS
      <4>1. k + 1 \in 1..Len(s) /\ t[k] = s[k + 1] /\ k + 1 < i + 1 BY <1>1, <2>1
      <4> QED BY <2>5, <4>1
    <3> QED BY <1>2, <2>5, <3>1, <3>2 DEF ToldAt
  <2> QED BY <2>2, <2>4, <2>5 DEF ToldAt
<1>4. ASSUME e \in Y PROVE own
  <2>1. ToldAt(s, 1, X, B, own) BY <1>1, <1>4 DEF AllTold
  <2>2. \A j \in 1..Len(s) : ~(j < 1) OBVIOUS
  <2> QED BY <2>1, <2>2 DEF ToldAt
<1> QED BY <1>3, <1>4 DEF AllTold, t, e

\* Less is to be told when fewer signals count against it.
LEMMA ToldWeakened ==
  ASSUME NEW s, NEW Y, NEW X, NEW B, NEW own, AllTold(s, Y, X, B, own),
         NEW C, C \subseteq B, NEW now, own => now
  PROVE  AllTold(s, Y, X, C, now)
BY DEF AllTold, ToldAt

\* Nothing is to be told of signals that do not wait.
LEMMA ToldNone ==
  ASSUME NEW s, NEW Y, NoneIn(s, Y)
  PROVE  \A X, B, own : AllTold(s, Y, X, B, own)
BY DEF AllTold, NoneIn

\* Each signal of Z that has one of X before it has one of Y behind that.
FollowedBy(s, X, Z, Y) ==
  \A i, j \in 1..Len(s) :
    i < j /\ s[i] \in X /\ s[j] \in Z => \E k \in 1..Len(s) : i < k /\ s[k] \in Y

\* What may be sent.
LEMMA FollowedAppended ==
  ASSUME NEW S, NEW s \in Seq(S), NEW e \in S, NEW X, NEW Z, NEW Y,
         FollowedBy(s, X, Z, Y), e \in Z => Behind(s, X, Y)
  PROVE  FollowedBy(Append(s, e), X, Z, Y)
<1> DEFINE t == Append(s, e)
<1>1. /\ t \in Seq(S) /\ Len(t) = Len(s) + 1 /\ t[Len(s) + 1] = e
      /\ \A i \in 1..Len(s) : i # Len(s) + 1 /\ t[i] = s[i]
      /\ \A i \in 1..(Len(s) + 1) : i \in 1..Len(s) \/ i = Len(s) + 1
  BY Appended
<1>2. /\ Len(s) \in Nat
      /\ \A i \in 1..Len(s) : i \in 1..Len(t) /\ i < Len(s) + 1
      /\ \A i \in 1..Len(t) : ~(Len(s) + 1 < i)
  BY <1>1
<1> HIDE DEF t
<1> SUFFICES ASSUME NEW i \in 1..Len(t), NEW j \in 1..Len(t), i < j, t[i] \in X, t[j] \in Z
             PROVE  \E k \in 1..Len(t) : i < k /\ t[k] \in Y
  BY DEF FollowedBy, t
<1>3. i \in 1..Len(s) /\ s[i] \in X BY <1>1, <1>2
<1>4. \E k \in 1..Len(s) : i < k /\ s[k] \in Y
  <2>1. CASE j \in 1..Len(s) BY <1>1, <1>3, <2>1 DEF FollowedBy
  <2>2. CASE j = Len(s) + 1 BY <1>1, <1>3, <2>2 DEF Behind
  <2> QED BY <1>1, <2>1, <2>2
<1> QED BY <1>1, <1>2, <1>4

\* A signal of Y at the end follows everything.
LEMMA FollowedEnd ==
  ASSUME NEW S, NEW s \in Seq(S), NEW e \in S, NEW X, NEW Z, NEW Y, e \in Y
  PROVE  FollowedBy(Append(s, e), X, Z, Y)
<1> DEFINE t == Append(s, e)
<1>1. /\ t \in Seq(S) /\ Len(t) = Len(s) + 1 /\ t[Len(s) + 1] = e /\ Len(s) \in Nat
  BY Appended
<1> HIDE DEF t
<1> SUFFICES ASSUME NEW i \in 1..Len(t), NEW j \in 1..Len(t), i < j
             PROVE  \E k \in 1..Len(t) : i < k /\ t[k] \in Y
  BY DEF FollowedBy, t
<1>2. Len(s) + 1 \in 1..Len(t) /\ i < Len(s) + 1 BY <1>1
<1> QED BY <1>1, <1>2

\* What the first signal is followed by.
LEMMA FollowedHandled ==
  ASSUME NEW S, NEW s \in Seq(S), s # <<>>, NEW X, NEW Z, NEW Y, FollowedBy(s, X, Z, Y)
  PROVE  /\ FollowedBy(Tail(s), X, Z, Y)
         /\ Head(s) \in X /\ ~NoneIn(Tail(s), Z) => ~NoneIn(Tail(s), Y)
<1> DEFINE t == Tail(s)
           e == Head(s)
<1>1. /\ t \in Seq(S) /\ Len(t) = Len(s) - 1 /\ e = s[1] /\ e \in S /\ 1 \in 1..Len(s)
      /\ \A i \in 1..Len(t) : i + 1 \in 1..Len(s) /\ t[i] = s[i + 1]
      /\ \A i \in 1..Len(s) : i = 1 \/ (i - 1 \in 1..Len(t) /\ t[i - 1] = s[i])
  BY Tailed
<1> HIDE DEF t, e
<1>2. ASSUME NEW i \in 1..Len(t), NEW j \in 1..Len(t), i < j, t[i] \in X, t[j] \in Z
      PROVE  \E k \in 1..Len(t) : i < k /\ t[k] \in Y
  <2>1. i + 1 \in 1..Len(s) /\ j + 1 \in 1..Len(s) /\ i + 1 < j + 1 BY <1>1, <1>2
  <2>2. PICK k \in 1..Len(s) : i + 1 < k /\ s[k] \in Y BY <1>1, <1>2, <2>1 DEF FollowedBy
  <2>3. k # 1 /\ i < k - 1 BY <2>2
  <2> QED BY <1>1, <2>2, <2>3
<1>3. ASSUME e \in X, ~NoneIn(t, Z) PROVE ~NoneIn(t, Y)
  <2>1. PICK j \in 1..Len(t) : t[j] \in Z BY <1>3 DEF NoneIn
  <2>2. j + 1 \in 1..Len(s) /\ 1 < j + 1 /\ s[j + 1] \in Z BY <1>1, <2>1
  <2>3. PICK k \in 1..Len(s) : 1 < k /\ s[k] \in Y BY <1>1, <1>3, <2>2 DEF FollowedBy
  <2>4. k # 1 BY <2>3
  <2> QED BY <1>1, <2>3, <2>4 DEF NoneIn
<1> QED BY <1>2, <1>3 DEF FollowedBy, t, e

\* What is lost changes nothing of this, unless it is what tells, or follows.
LEMMA ToldSelected ==
  ASSUME NEW S, NEW s \in Seq(S), NEW L, NEW keep, NEW out, out = SelectAt(s, keep),
         \A i \in 1..Len(s) : i \in keep <=> s[i] \notin L,
         NEW Y, NEW X, \A e \in X : e \notin L
  PROVE  /\ \A B, own : AllTold(s, Y, X, B, own) => AllTold(out, Y, X, B, own)
         /\ \A V : FollowedBy(s, V, Y, X) => FollowedBy(out, V, Y, X)
<1>1. \A i \in 1..Len(s) : i \in keep <=> s[i] \notin L OBVIOUS
<1>3. out \in Seq(S) /\ \E at : IsLeft(s, keep, Len(s), out, at) BY LeftIsLeft
<1>4. PICK at : IsLeft(s, keep, Len(s), out, at) BY <1>3
<1>5. /\ \A i \in 1..Len(out) : at[i] \in 1..Len(s) /\ out[i] = s[at[i]] /\ s[at[i]] \notin L
      /\ \A i, j \in 1..Len(out) : i < j => at[i] < at[j]
      /\ \A k \in 1..Len(s) : s[k] \notin L => \E i \in 1..Len(out) : at[i] = k
  BY <1>1, <1>4 DEF IsLeft
<1>6. \A i, j \in 1..Len(out) : at[i] < at[j] => i < j
  <2> SUFFICES ASSUME NEW i \in 1..Len(out), NEW j \in 1..Len(out), at[i] < at[j], ~(i < j)
               PROVE  FALSE
    OBVIOUS
  <2>1. at[i] \in Int /\ at[j] \in Int BY <1>5
  <2>2. j = i \/ j < i BY <1>3
  <2> QED BY <1>5, <2>1, <2>2
<1>7. ASSUME NEW B, NEW own, AllTold(s, Y, X, B, own), NEW i \in 1..Len(out), out[i] \in Y
      PROVE  ToldAt(out, i, X, B, own)
  <2>1. ToldAt(s, at[i], X, B, own) BY <1>5, <1>7 DEF AllTold
  <2>2. ASSUME NEW j \in 1..Len(s), j < at[i], s[j] \in X,
               \A k \in 1..Len(s) : j < k /\ k < at[i] => s[k] \notin B
        PROVE  ToldAt(out, i, X, B, own)
    <3>1. PICK l \in 1..Len(out) : at[l] = j BY <1>5, <2>2
    <3>2. l < i /\ out[l] \in X BY <1>5, <1>6, <2>2, <3>1
    <3>3. \A k \in 1..Len(out) : l < k /\ k < i => out[k] \notin B
      BY <1>5, <2>2, <3>1
    <3> QED BY <3>2, <3>3 DEF ToldAt
  <2>3. ASSUME own, \A k \in 1..Len(s) : k < at[i] => s[k] \notin B
        PROVE  ToldAt(out, i, X, B, own)
    <3>1. \A k \in 1..Len(out) : k < i => out[k] \notin B BY <1>5, <2>3
    <3> QED BY <2>3, <3>1 DEF ToldAt
  <2> QED BY <2>1, <2>2, <2>3 DEF ToldAt
<1>8. ASSUME NEW V, FollowedBy(s, V, Y, X), NEW i \in 1..Len(out), NEW j \in 1..Len(out),
             i < j, out[i] \in V, out[j] \in Y
      PROVE  \E k \in 1..Len(out) : i < k /\ out[k] \in X
  <2>1. PICK k \in 1..Len(s) : at[i] < k /\ s[k] \in X BY <1>5, <1>8 DEF FollowedBy
  <2>2. PICK l \in 1..Len(out) : at[l] = k BY <1>5, <2>1
  <2> QED BY <1>5, <1>6, <2>1, <2>2
<1> QED BY <1>7, <1>8 DEF AllTold, FollowedBy
============================================================================
