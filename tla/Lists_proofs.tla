----------------------------- MODULE Lists_proofs -----------------------------
(***************************************************************************)
(* Induction and recursion over numbers and lists, and what Filtered,      *)
(* Summed and Chained do.  The library's induction theorems are about a    *)
(* predicate, which no installed prover can instantiate; the ones here are *)
(* about the set of the numbers, or lists, that have a property.           *)
(***************************************************************************)
EXTENDS Lists, SequencesExt, SequenceTheorems, WellFoundedInduction, TLAPS

-----------------------------------------------------------------------------
(* Induction and recursion.                                                *)

\* A set of numbers that has 0 and the successor of each of its members has every number.
LEMMA NatInductionOnSet ==
    ASSUME NEW S, 0 \in S, \A n \in Nat : n \in S => n + 1 \in S
    PROVE  \A n \in Nat : n \in S
<1> DEFINE T == Nat \ S
<1> SUFFICES ASSUME T # {} PROVE FALSE
  OBVIOUS
<1> DEFINE R == OpToRel(<, Nat)
<1>0. IsWellFoundedOn(R, Nat)
  BY NatLessThanWellFounded
<1>1. PICK x \in T : \A y \in T : <<y, x>> \notin R
  <2> HIDE DEF R, T
  <2>1. T \subseteq Nat BY DEF T
  <2> QED BY <1>0, <2>1, WFMin
<1>2. x # 0 /\ x \in Nat
  OBVIOUS
<1>3. x - 1 \in Nat /\ x - 1 < x /\ (x - 1) + 1 = x
  BY <1>2
<1>4. <<x - 1, x>> \in R
  BY <1>2, <1>3 DEF OpToRel
<1>5. x - 1 \in S
  BY <1>1, <1>3, <1>4
<1> QED BY <1>1, <1>3, <1>5

\* What the steps of a recursion make of its first n values.
Unfolds(f, n, base, step) ==
    /\ f[0] = base
    /\ \A m \in Nat : m < n => f[m + 1] = step[<<m, f[m]>>]

\* Two functions that unfold the same recursion are the same as far as both do.
LEMMA UnfoldsOnce ==
    ASSUME NEW base, NEW step, NEW f, NEW g, NEW k \in Nat, NEW n \in Nat,
           Unfolds(f, k, base, step), Unfolds(g, n, base, step)
    PROVE  \A m \in Nat : m <= k /\ m <= n => f[m] = g[m]
<1> DEFINE S == {m \in Nat : m <= k /\ m <= n => f[m] = g[m]}
<1>1. 0 \in S
  BY DEF Unfolds
<1>2. ASSUME NEW m \in Nat, m \in S
      PROVE  m + 1 \in S
  <2> SUFFICES ASSUME m + 1 <= k, m + 1 <= n PROVE f[m + 1] = g[m + 1]
    OBVIOUS
  <2>1. m < k /\ m < n /\ f[m] = g[m]
    BY <1>2
  <2> QED BY <2>1 DEF Unfolds
<1> HIDE DEF S
<1>3. \A m \in Nat : m \in S
  BY <1>1, <1>2, NatInductionOnSet
<1> QED BY <1>3 DEF S

\* Every recursion over the numbers has a function.
LEMMA Recursion ==
    ASSUME NEW V, NEW base \in V, NEW step \in [Nat \X V -> V]
    PROVE  \E f \in [Nat -> V] : \A n \in Nat : Unfolds(f, n, base, step)
<1> DEFINE Upto(n) == {g \in [Nat -> V] : Unfolds(g, n, base, step)}
           S == {n \in Nat : Upto(n) # {}}
<1>1. 0 \in S
  <2> DEFINE g == [m \in Nat |-> base]
  <2>1. g \in Upto(0)
    BY DEF Unfolds
  <2> QED BY <2>1
<1>2. ASSUME NEW n \in Nat, n \in S
      PROVE  n + 1 \in S
  <2>1. PICK g \in [Nat -> V] : Unfolds(g, n, base, step)
    BY <1>2
  <2> DEFINE h == [g EXCEPT ![n + 1] = step[<<n, g[n]>>]]
  <2>2. h \in [Nat -> V]
    BY <2>1
  <2>3. h[0] = base /\ h[n + 1] = step[<<n, g[n]>>]
    BY <2>1 DEF Unfolds
  <2>4. ASSUME NEW m \in Nat, m < n + 1
        PROVE  h[m + 1] = step[<<m, h[m]>>]
    <3>1. h[m] = g[m]
      BY <2>4
    <3>2. CASE m = n
      BY <2>3, <3>1, <3>2
    <3>3. CASE m < n
      <4>1. h[m + 1] = g[m + 1]
        BY <3>3
      <4> QED BY <2>1, <3>1, <3>3, <4>1 DEF Unfolds
    <3> QED BY <2>4, <3>2, <3>3
  <2> HIDE DEF h
  <2>5. h \in Upto(n + 1)
    <3>1. Unfolds(h, n + 1, base, step)
      BY <2>3, <2>4 DEF Unfolds
    <3> QED BY <2>2, <3>1
  <2> QED BY <2>5
<1> HIDE DEF S
<1>3. \A n \in Nat : n \in S
  BY <1>1, <1>2, NatInductionOnSet
<1> DEFINE at(n) == CHOOSE g \in [Nat -> V] : Unfolds(g, n, base, step)
           f == [n \in Nat |-> at(n)[n]]
<1>4. \A n \in Nat : at(n) \in [Nat -> V] /\ Unfolds(at(n), n, base, step)
  BY <1>3 DEF S
<1> HIDE DEF at
<1>5. f \in [Nat -> V]
  BY <1>4
<1>6. ASSUME NEW n \in Nat, NEW m \in Nat, m < n
      PROVE  f[m + 1] = step[<<m, f[m]>>]
  <2>1. Unfolds(at(m), m, base, step) /\ Unfolds(at(m + 1), m + 1, base, step)
    BY <1>4
  <2>2. at(m)[m] = at(m + 1)[m]
    BY <2>1, UnfoldsOnce
  <2>3. at(m + 1)[m + 1] = step[<<m, at(m + 1)[m]>>]
    BY <2>1 DEF Unfolds
  <2> QED BY <2>2, <2>3
<1>7. f[0] = base
  BY <1>4 DEF Unfolds
<1>8. \A n \in Nat : Unfolds(f, n, base, step)
  <2> HIDE DEF f
  <2> QED BY <1>6, <1>7 DEF Unfolds
<1> QED BY <1>5, <1>8

\* The steps of a recursion over the first N numbers.
Recurs(f, N, base, step) ==
    /\ f[0] = base
    /\ \A k \in 1 .. N : f[k] = step[<<k, f[k - 1]>>]

\* A recursion over the first N numbers has a function, of the type of its values.
LEMMA RecursionUpto ==
    ASSUME NEW V, NEW base \in V, NEW N \in Nat, NEW step \in [(1 .. N) \X V -> V]
    PROVE  \E f \in [0 .. N -> V] : Recurs(f, N, base, step)
<1> DEFINE more == [p \in Nat \X V |-> IF p[1] + 1 \in 1 .. N THEN step[<<p[1] + 1, p[2]>>] ELSE base]
<1>1. more \in [Nat \X V -> V]
  OBVIOUS
<1>2. PICK f \in [Nat -> V] : \A n \in Nat : Unfolds(f, n, base, more)
  <2> HIDE DEF more
  <2> QED BY <1>1, Recursion
<1> DEFINE g == [k \in 0 .. N |-> f[k]]
<1>3. f[0] = base
  BY <1>2 DEF Unfolds
<1>4. ASSUME NEW k \in 1 .. N
      PROVE  f[k] = step[<<k, f[k - 1]>>]
  <2>1. k - 1 \in Nat /\ k - 1 < k /\ (k - 1) + 1 = k
    OBVIOUS
  <2>2. f[k] = more[<<k - 1, f[k - 1]>>]
    <3> HIDE DEF more
    <3>1. k \in Nat
      OBVIOUS
    <3>2. Unfolds(f, k, base, more)
      BY <1>2, <3>1
    <3>3. f[(k - 1) + 1] = more[<<k - 1, f[k - 1]>>]
      BY <2>1, <3>2 DEF Unfolds
    <3> QED BY <2>1, <3>3
  <2> QED BY <1>2, <2>1, <2>2
<1>5. g \in [0 .. N -> V]
  OBVIOUS
<1>6. ASSUME NEW k \in 1 .. N
      PROVE  g[k] = step[<<k, g[k - 1]>>]
  <2>1. k \in 0 .. N /\ k - 1 \in 0 .. N
    OBVIOUS
  <2>2. g[k] = f[k] /\ g[k - 1] = f[k - 1]
    BY <2>1
  <2> QED BY <1>4, <2>2
<1>7. g[0] = base
  BY <1>3
<1> QED BY <1>5, <1>6, <1>7 DEF Recurs

\* A set of lists that has the empty list, and with a list all that are longer
\* by one, has every list.
LEMMA ListInduction ==
    ASSUME NEW T, NEW P, <<>> \in P,
           \A s \in Seq(T), x \in T : s \in P => Append(s, x) \in P
    PROVE  \A s \in Seq(T) : s \in P
<1> DEFINE S == {n \in Nat : \A s \in Seq(T) : Len(s) = n => s \in P}
<1>1. 0 \in S
  <2>1. \A s \in Seq(T) : Len(s) = 0 => s = <<>>
    BY EmptySeq
  <2> QED BY <2>1
<1>2. ASSUME NEW n \in Nat, n \in S
      PROVE  n + 1 \in S
  <2> SUFFICES ASSUME NEW s \in Seq(T), Len(s) = n + 1 PROVE s \in P
    OBVIOUS
  <2>1. s # <<>>
    OBVIOUS
  <2>2. PICK r \in Seq(T), x \in T : s = Append(r, x)
    BY <2>1, SequenceEmptyOrAppend
  <2>3. Len(r) = n
    BY <2>2
  <2> QED BY <1>2, <2>2, <2>3
<1> HIDE DEF S
<1>3. \A n \in Nat : n \in S
  BY <1>1, <1>2, NatInductionOnSet
<1> QED BY <1>3, LenProperties DEF S


-----------------------------------------------------------------------------
(* The entries that a loop keeps.                                           *)

\* f is the function behind Filtered(s, S).
Scans(f, s, S) ==
    /\ f[0] = <<>>
    /\ \A n \in 1 .. Len(s) :
          f[n] = IF s[n] \in S THEN Append(f[n - 1], s[n]) ELSE f[n - 1]

\* There is such a function, its values are lists of kept entries.
LEMMA FilteredBy ==
    ASSUME NEW T, NEW s \in Seq(T), NEW S
    PROVE  \E f : /\ Scans(f, s, S)
                 /\ f \in [0 .. Len(s) -> Seq(T \cap S)]
                 /\ Filtered(s, S) = f[Len(s)]
<1> DEFINE V == Seq(T \cap S)
           step == [p \in (1 .. Len(s)) \X V |->
                       IF s[p[1]] \in S THEN Append(p[2], s[p[1]]) ELSE p[2]]
           Is(f) == f = [n \in 0 .. Len(s) |->
                           IF n = 0 THEN <<>>
                           ELSE IF s[n] \in S THEN Append(f[n - 1], s[n]) ELSE f[n - 1]]
           g == CHOOSE f : Is(f)
<1>1. Len(s) \in Nat /\ \A n \in 1 .. Len(s) : s[n] \in T
  OBVIOUS
<1>2. step \in [(1 .. Len(s)) \X V -> V]
  <2>1. ASSUME NEW p \in (1 .. Len(s)) \X V
        PROVE  (IF s[p[1]] \in S THEN Append(p[2], s[p[1]]) ELSE p[2]) \in V
    <3>1. p[1] \in 1 .. Len(s) /\ p[2] \in V
      OBVIOUS
    <3> QED BY <1>1, <3>1
  <2> QED BY <2>1
<1>3. PICK f \in [0 .. Len(s) -> V] : Recurs(f, Len(s), <<>>, step)
  <2> HIDE DEF step
  <2>1. <<>> \in V
    OBVIOUS
  <2> HIDE DEF V
  <2> QED BY <1>1, <1>2, <2>1, RecursionUpto
<1>4. Is(f)
  <2>1. ASSUME NEW n \in 0 .. Len(s), n # 0
        PROVE  f[n] = IF s[n] \in S THEN Append(f[n - 1], s[n]) ELSE f[n - 1]
    <3>1. n \in 1 .. Len(s) /\ n - 1 \in 0 .. Len(s)
      BY <1>1, <2>1
    <3>2. f[n] = step[<<n, f[n - 1]>>]
      BY <1>3, <3>1 DEF Recurs
    <3> QED BY <3>1, <3>2
  <2> HIDE DEF step
  <2> QED BY <1>3, <2>1 DEF Recurs
<1>5. Is(g)
  BY <1>4
<1>6. Filtered(s, S) = g[Len(s)]
  BY DEF Filtered
<1> HIDE DEF g
<1>7. g[0] = <<>>
  BY <1>1, <1>5
<1>8. ASSUME NEW n \in 1 .. Len(s)
      PROVE  g[n] = IF s[n] \in S THEN Append(g[n - 1], s[n]) ELSE g[n - 1]
  <2>1. n \in 0 .. Len(s) /\ n # 0
    BY <1>1
  <2> QED BY <1>5, <2>1
<1>9. g \in [0 .. Len(s) -> V]
  <2> DEFINE R == {n \in Nat : n <= Len(s) => g[n] \in V}
  <2>1. 0 \in R
    BY <1>7
  <2>2. ASSUME NEW n \in Nat, n \in R
        PROVE  n + 1 \in R
    <3> SUFFICES ASSUME n + 1 <= Len(s) PROVE g[n + 1] \in V
      OBVIOUS
    <3>1. n + 1 \in 1 .. Len(s) /\ (n + 1) - 1 = n /\ g[n] \in V
      BY <1>1, <2>2
    <3>2. g[n + 1] = IF s[n + 1] \in S THEN Append(g[n], s[n + 1]) ELSE g[n]
      BY <1>8, <3>1
    <3> QED BY <1>1, <3>1, <3>2
  <2> HIDE DEF R
  <2>3. \A n \in Nat : n \in R
    BY <2>1, <2>2, NatInductionOnSet
  <2>4. \A n \in 0 .. Len(s) : g[n] \in V
    BY <1>1, <2>3 DEF R
  <2>5. DOMAIN g = 0 .. Len(s)  /\ g = [n \in 0 .. Len(s) |-> g[n]]
    BY <1>5
  <2> QED BY <2>4, <2>5
<1>10. Scans(g, s, S)
  BY <1>7, <1>8 DEF Scans
<1> QED BY <1>6, <1>9, <1>10

\* Nothing is kept of nothing, and what is kept is of both sets.
LEMMA FilteredTyped ==
    ASSUME NEW T, NEW s \in Seq(T), NEW S
    PROVE  Filtered(s, S) \in Seq(T \cap S) /\ Filtered(s, S) \in Seq(T)
<1>1. Filtered(s, S) \in Seq(T \cap S)
  <2>1. PICK f : f \in [0 .. Len(s) -> Seq(T \cap S)] /\ Filtered(s, S) = f[Len(s)]
    BY FilteredBy, Zenon
  <2>2. Len(s) \in 0 .. Len(s)
    OBVIOUS
  <2> QED BY <2>1, <2>2
<1>2. T \cap S \subseteq T
  OBVIOUS
<1> QED BY <1>1, <1>2, SeqMonotonic

\* Nothing is kept of the empty list.
LEMMA FilteredEmpty == ASSUME NEW S PROVE Filtered(<<>>, S) = <<>>
<1>1. <<>> \in Seq({}) /\ Len(<<>>) = 0
  OBVIOUS
<1>2. \E f : Scans(f, <<>>, S) /\ Filtered(<<>>, S) = f[Len(<<>>)]
  BY <1>1, FilteredBy
<1> QED BY <1>1, <1>2 DEF Scans

\* One more entry is kept or not, whatever was before.
LEMMA FilteredAppend ==
    ASSUME NEW T, NEW s \in Seq(T), NEW x \in T, NEW S
    PROVE  Filtered(Append(s, x), S) =
              IF x \in S THEN Append(Filtered(s, S), x) ELSE Filtered(s, S)
<1> DEFINE r == Append(s, x)
<1>1. /\ r \in Seq(T) /\ Len(r) = Len(s) + 1 /\ Len(s) \in Nat
      /\ r[Len(s) + 1] = x /\ \A n \in 1 .. Len(s) : r[n] = s[n]
  OBVIOUS
<1>2. PICK f : Scans(f, s, S) /\ Filtered(s, S) = f[Len(s)]
  BY FilteredBy
<1>a. \E g : Scans(g, r, S) /\ Filtered(r, S) = g[Len(r)]
  <2> HIDE DEF r
  <2> QED BY <1>1, FilteredBy
<1>3. PICK g : Scans(g, r, S) /\ Filtered(r, S) = g[Len(r)]
  BY <1>a
<1> HIDE DEF r
<1> DEFINE E == {n \in Nat : n <= Len(s) => g[n] = f[n]}
<1>4. \A n \in Nat : n \in E
  <2>1. 0 \in E
    BY <1>2, <1>3 DEF Scans
  <2>2. ASSUME NEW n \in Nat, n \in E
        PROVE  n + 1 \in E
    <3> SUFFICES ASSUME n + 1 <= Len(s) PROVE g[n + 1] = f[n + 1]
      OBVIOUS
    <3>1. n + 1 \in 1 .. Len(s) /\ n + 1 \in 1 .. Len(r) /\ (n + 1) - 1 = n /\ g[n] = f[n]
      BY <1>1, <2>2
    <3>2. f[n + 1] = IF s[n + 1] \in S THEN Append(f[n], s[n + 1]) ELSE f[n]
      BY <1>2, <3>1 DEF Scans
    <3>3. g[n + 1] = IF r[n + 1] \in S THEN Append(g[n], r[n + 1]) ELSE g[n]
      BY <1>3, <3>1 DEF Scans
    <3> QED BY <1>1, <3>1, <3>2, <3>3
  <2> HIDE DEF E
  <2> QED BY <2>1, <2>2, NatInductionOnSet
<1>5. g[Len(s)] = Filtered(s, S)
  BY <1>1, <1>2, <1>4
<1>6. Len(r) \in 1 .. Len(r) /\ Len(r) - 1 = Len(s)
  BY <1>1
<1>7. g[Len(r)] = IF r[Len(r)] \in S THEN Append(g[Len(r) - 1], r[Len(r)]) ELSE g[Len(r) - 1]
  BY <1>3, <1>6 DEF Scans
<1> QED BY <1>1, <1>3, <1>5, <1>6, <1>7 DEF r

\* Of one list after another the entries are kept of each.
LEMMA FilteredConcat ==
    ASSUME NEW T, NEW s \in Seq(T), NEW t \in Seq(T), NEW S
    PROVE  Filtered(s \o t, S) = Filtered(s, S) \o Filtered(t, S)
<1> DEFINE P == {u \in Seq(T) : Filtered(s \o u, S) = Filtered(s, S) \o Filtered(u, S)}
<1>1. <<>> \in P
  <2>1. s \o <<>> = s /\ <<>> \in Seq(T)
    OBVIOUS
  <2>2. \A a \in Seq(T) : a \o <<>> = a
    OBVIOUS
  <2>3. Filtered(s, S) \o <<>> = Filtered(s, S)
    BY <2>2, FilteredTyped
  <2>4. Filtered(<<>>, S) = <<>>
    BY FilteredEmpty
  <2> QED BY <2>1, <2>3, <2>4
<1>2. ASSUME NEW u \in Seq(T), NEW x \in T, u \in P
      PROVE  Append(u, x) \in P
  <2>1. s \o Append(u, x) = Append(s \o u, x) /\ s \o u \in Seq(T) /\ Append(u, x) \in Seq(T)
    OBVIOUS
  <2>2. Filtered(s \o u, S) = Filtered(s, S) \o Filtered(u, S)
    BY <1>2
  <2>3. CASE x \in S
    <3>1. Filtered(Append(u, x), S) = Append(Filtered(u, S), x)
      BY <2>3, FilteredAppend
    <3>2. Filtered(Append(s \o u, x), S) = Append(Filtered(s \o u, S), x)
      BY <2>1, <2>3, FilteredAppend
    <3>3. Filtered(u, S) \in Seq(T) /\ Filtered(s, S) \in Seq(T)
      BY FilteredTyped
    <3>4. \A a, b \in Seq(T) : a \o Append(b, x) = Append(a \o b, x)
      OBVIOUS
    <3>5. Filtered(s \o Append(u, x), S) = Filtered(s, S) \o Filtered(Append(u, x), S)
      BY <2>1, <2>2, <3>1, <3>2, <3>3, <3>4
    <3> QED BY <2>1, <3>5
  <2>4. CASE x \notin S
    <3>1. Filtered(Append(u, x), S) = Filtered(u, S)
      BY <2>4, FilteredAppend
    <3>2. Filtered(Append(s \o u, x), S) = Filtered(s \o u, S)
      BY <2>1, <2>4, FilteredAppend
    <3>3. Filtered(s \o Append(u, x), S) = Filtered(s, S) \o Filtered(Append(u, x), S)
      BY <2>1, <2>2, <3>1, <3>2
    <3> QED BY <2>1, <3>3
  <2> QED BY <2>3, <2>4
<1> HIDE DEF P
<1>3. \A u \in Seq(T) : u \in P
  BY <1>1, <1>2, ListInduction
<1> QED BY <1>3 DEF P

\* Of a single entry.
LEMMA FilteredOne ==
    ASSUME NEW x, NEW S
    PROVE  Filtered(<<x>>, S) = IF x \in S THEN <<x>> ELSE <<>>
<1>1. Append(<<>>, x) = <<x>> /\ <<>> \in Seq({x})
  OBVIOUS
<1>2. Filtered(Append(<<>>, x), S)
        = IF x \in S THEN Append(Filtered(<<>>, S), x) ELSE Filtered(<<>>, S)
  <2> DEFINE T == {x}
  <2>1. <<>> \in Seq(T) /\ x \in T
    BY <1>1
  <2> HIDE DEF T
  <2> QED BY <2>1, FilteredAppend
<1>3. Filtered(<<>>, S) = <<>>
  BY FilteredEmpty
<1> QED BY <1>1, <1>2, <1>3

-----------------------------------------------------------------------------
(* Sums.                                                                    *)

\* f is the function behind Summed(s).
Adds(f, s) ==
    /\ f[0] = 0
    /\ \A n \in 1 .. Len(s) : f[n] = f[n - 1] + s[n]

\* There is such a function, its values are numbers.
LEMMA SummedBy ==
    ASSUME NEW s \in Seq(Nat)
    PROVE  \E f : Adds(f, s) /\ f \in [0 .. Len(s) -> Nat] /\ Summed(s) = f[Len(s)]
<1> DEFINE step == [p \in (1 .. Len(s)) \X Nat |-> p[2] + s[p[1]]]
           Is(f) == f = [n \in 0 .. Len(s) |-> IF n = 0 THEN 0 ELSE f[n - 1] + s[n]]
           g == CHOOSE f : Is(f)
<1>1. Len(s) \in Nat /\ \A n \in 1 .. Len(s) : s[n] \in Nat
  OBVIOUS
<1>2. step \in [(1 .. Len(s)) \X Nat -> Nat]
  <2>1. ASSUME NEW p \in (1 .. Len(s)) \X Nat
        PROVE  p[2] + s[p[1]] \in Nat
    <3>1. p[1] \in 1 .. Len(s) /\ p[2] \in Nat
      OBVIOUS
    <3> QED BY <1>1, <3>1
  <2> QED BY <2>1
<1>3. PICK f \in [0 .. Len(s) -> Nat] : Recurs(f, Len(s), 0, step)
  <2> HIDE DEF step
  <2> QED BY <1>1, <1>2, RecursionUpto
<1>4. Is(f)
  <2>1. ASSUME NEW n \in 0 .. Len(s), n # 0
        PROVE  f[n] = f[n - 1] + s[n]
    <3>1. n \in 1 .. Len(s) /\ n - 1 \in 0 .. Len(s)
      BY <1>1, <2>1
    <3>2. f[n] = step[<<n, f[n - 1]>>]
      BY <1>3, <3>1 DEF Recurs
    <3> QED BY <3>1, <3>2
  <2> HIDE DEF step
  <2> QED BY <1>3, <2>1 DEF Recurs
<1>5. Is(g)
  BY <1>4
<1>6. Summed(s) = g[Len(s)]
  BY DEF Summed
<1> HIDE DEF g
<1>7. Adds(g, s)
  <2>1. g[0] = 0
    BY <1>1, <1>5
  <2>2. ASSUME NEW n \in 1 .. Len(s)
        PROVE  g[n] = g[n - 1] + s[n]
    <3>1. n \in 0 .. Len(s) /\ n # 0
      BY <1>1
    <3> QED BY <1>5, <3>1
  <2> QED BY <2>1, <2>2 DEF Adds
<1>8. g \in [0 .. Len(s) -> Nat]
  <2> DEFINE R == {n \in Nat : n <= Len(s) => g[n] \in Nat}
  <2>1. 0 \in R
    BY <1>7 DEF Adds
  <2>2. ASSUME NEW n \in Nat, n \in R
        PROVE  n + 1 \in R
    <3> SUFFICES ASSUME n + 1 <= Len(s) PROVE g[n + 1] \in Nat
      OBVIOUS
    <3>1. n + 1 \in 1 .. Len(s) /\ (n + 1) - 1 = n /\ g[n] \in Nat
      BY <1>1, <2>2
    <3>2. g[n + 1] = g[n] + s[n + 1]
      BY <1>7, <3>1 DEF Adds
    <3> QED BY <1>1, <3>1, <3>2
  <2> HIDE DEF R
  <2>3. \A n \in Nat : n \in R
    BY <2>1, <2>2, NatInductionOnSet
  <2>4. \A n \in 0 .. Len(s) : g[n] \in Nat
    BY <1>1, <2>3 DEF R
  <2>5. DOMAIN g = 0 .. Len(s)  /\ g = [n \in 0 .. Len(s) |-> g[n]]
    BY <1>5
  <2> QED BY <2>4, <2>5
<1> QED BY <1>6, <1>7, <1>8

\* A sum is a number.
LEMMA SummedTyped == ASSUME NEW s \in Seq(Nat) PROVE Summed(s) \in Nat
<1>1. PICK f : f \in [0 .. Len(s) -> Nat] /\ Summed(s) = f[Len(s)]
  BY SummedBy, Zenon
<1>2. Len(s) \in 0 .. Len(s)
  OBVIOUS
<1> QED BY <1>1, <1>2

\* One more number is added to the sum.
LEMMA SummedAppend ==
    ASSUME NEW s \in Seq(Nat), NEW x \in Nat
    PROVE  Summed(Append(s, x)) = Summed(s) + x
<1> DEFINE r == Append(s, x)
<1>1. /\ r \in Seq(Nat) /\ Len(r) = Len(s) + 1 /\ Len(s) \in Nat
      /\ r[Len(s) + 1] = x /\ \A n \in 1 .. Len(s) : r[n] = s[n]
  OBVIOUS
<1>2. PICK f : Adds(f, s) /\ Summed(s) = f[Len(s)]
  BY SummedBy
<1> HIDE DEF r
<1>3. PICK g : Adds(g, r) /\ Summed(r) = g[Len(r)]
  BY <1>1, SummedBy
<1> DEFINE E == {n \in Nat : n <= Len(s) => g[n] = f[n]}
<1>4. \A n \in Nat : n \in E
  <2>1. 0 \in E
    BY <1>2, <1>3 DEF Adds
  <2>2. ASSUME NEW n \in Nat, n \in E
        PROVE  n + 1 \in E
    <3> SUFFICES ASSUME n + 1 <= Len(s) PROVE g[n + 1] = f[n + 1]
      OBVIOUS
    <3>1. n + 1 \in 1 .. Len(s) /\ n + 1 \in 1 .. Len(r) /\ (n + 1) - 1 = n /\ g[n] = f[n]
      BY <1>1, <2>2
    <3>2. f[n + 1] = f[n] + s[n + 1]
      BY <1>2, <3>1 DEF Adds
    <3>3. g[n + 1] = g[n] + r[n + 1]
      BY <1>3, <3>1 DEF Adds
    <3> QED BY <1>1, <3>1, <3>2, <3>3
  <2> HIDE DEF E
  <2> QED BY <2>1, <2>2, NatInductionOnSet
<1>5. g[Len(s)] = Summed(s)
  BY <1>1, <1>2, <1>4
<1>6. Len(r) \in 1 .. Len(r) /\ Len(r) - 1 = Len(s)
  BY <1>1
<1>7. g[Len(r)] = g[Len(r) - 1] + r[Len(r)]
  BY <1>3, <1>6 DEF Adds
<1> QED BY <1>1, <1>3, <1>5, <1>6, <1>7 DEF r

\* The sum of one list after another is not less than that of the first.
LEMMA SummedMore ==
    ASSUME NEW s \in Seq(Nat), NEW t \in Seq(Nat)
    PROVE  Summed(s) <= Summed(s \o t)
<1> DEFINE P == {u \in Seq(Nat) : Summed(s) <= Summed(s \o u)}
<1>1. <<>> \in P
  <2>1. s \o <<>> = s /\ <<>> \in Seq(Nat)
    OBVIOUS
  <2> QED BY <2>1, SummedTyped
<1>2. ASSUME NEW u \in Seq(Nat), NEW x \in Nat, u \in P
      PROVE  Append(u, x) \in P
  <2>1. s \o Append(u, x) = Append(s \o u, x) /\ s \o u \in Seq(Nat) /\ Append(u, x) \in Seq(Nat)
    OBVIOUS
  <2>2. Summed(Append(s \o u, x)) = Summed(s \o u) + x
    BY <2>1, SummedAppend
  <2>3. Summed(s) \in Nat /\ Summed(s \o u) \in Nat /\ Summed(s) <= Summed(s \o u)
    BY <1>2, <2>1, SummedTyped
  <2>4. Summed(s) <= Summed(s \o Append(u, x))
    BY <2>1, <2>2, <2>3
  <2> QED BY <2>1, <2>4
<1> HIDE DEF P
<1>3. \A u \in Seq(Nat) : u \in P
  BY <1>1, <1>2, ListInduction
<1> QED BY <1>3 DEF P

\* The smaller of two numbers.
LEMMA MinOfTwo ==
    ASSUME NEW a \in Nat, NEW b \in Nat
    PROVE  Min({a, b}) = IF a <= b THEN a ELSE b
<1> DEFINE m == IF a <= b THEN a ELSE b
           Least(x) == x \in {a, b} /\ \A y \in {a, b} : x =< y
<1>1. Least(m) /\ \A x : Least(x) => x = m
  OBVIOUS
<1>2. Min({a, b}) = CHOOSE x \in {a, b} : \A y \in {a, b} : x =< y
  BY DEF Min
<1>3. (CHOOSE x : Least(x)) = m
  <2> HIDE DEF m, Least
  <2> QED BY <1>1
<1>4. (CHOOSE x : Least(x)) = CHOOSE x \in {a, b} : \A y \in {a, b} : x =< y
  OBVIOUS
<1> QED BY <1>2, <1>3, <1>4

\* The beginning of a list grows by the entry that follows.
LEMMA BeginningGrows ==
    ASSUME NEW T, NEW t \in Seq(T), NEW n \in Nat, n < Len(t)
    PROVE  Append(SubSeq(t, 1, n), t[n + 1]) = SubSeq(t, 1, n + 1)
<1> DEFINE a == Append(SubSeq(t, 1, n), t[n + 1])
           b == SubSeq(t, 1, n + 1)
<1>1. SubSeq(t, 1, n) \in Seq(T) /\ Len(SubSeq(t, 1, n)) = n /\ \A i \in 1 .. n : SubSeq(t, 1, n)[i] = t[i]
  OBVIOUS
<1>2. t[n + 1] \in T
  OBVIOUS
<1>3. a \in Seq(T) /\ Len(a) = n + 1 /\ \A i \in 1 .. n + 1 : a[i] = t[i]
  <2> DEFINE s == SubSeq(t, 1, n)
             x == t[n + 1]
  <2> HIDE DEF s, x
  <2>1. s \in Seq(T) /\ Len(s) = n /\ \A i \in 1 .. n : s[i] = t[i]
    BY <1>1 DEF s
  <2>2. Append(s, x) \in Seq(T) /\ Len(Append(s, x)) = n + 1
    BY <1>2, <2>1 DEF x
  <2>3. \A i \in 1 .. n : Append(s, x)[i] = s[i]
    BY <2>1
  <2>4. Append(s, x)[n + 1] = x
    BY <2>1
  <2> QED BY <2>1, <2>2, <2>3, <2>4 DEF s, x
<1>4. b \in Seq(T) /\ Len(b) = n + 1 /\ \A i \in 1 .. n + 1 : b[i] = t[i]
  OBVIOUS
<1> HIDE DEF a, b
<1>5. a = b
  BY <1>3, <1>4, SeqEqual
<1> QED BY <1>5 DEF a, b

\* An entry that goes from one list to the other leaves them together the same.
LEMMA EntryMoves ==
    ASSUME NEW T, NEW s \in Seq(T), NEW t \in Seq(T), t # <<>>
    PROVE  Append(s, Head(t)) \o Tail(t) = s \o t
<1> DEFINE a == Append(s, Head(t)) \o Tail(t)
           b == s \o t
<1>1. Head(t) \in T /\ Tail(t) \in Seq(T) /\ Len(t) \in Nat \ {0} /\ Len(Tail(t)) = Len(t) - 1
  OBVIOUS
<1>2. Append(s, Head(t)) \in Seq(T) /\ Len(Append(s, Head(t))) = Len(s) + 1
  BY <1>1
<1>3. a \in Seq(T) /\ Len(a) = Len(s) + Len(t)
  BY <1>1, <1>2, ConcatProperties
<1>4. b \in Seq(T) /\ Len(b) = Len(s) + Len(t)
  BY ConcatProperties
<1>5. ASSUME NEW i \in 1 .. Len(s) + Len(t)
      PROVE  a[i] = b[i]
  <2>1. b[i] = IF i <= Len(s) THEN s[i] ELSE t[i - Len(s)]
    BY ConcatProperties
  <2> DEFINE h == Append(s, Head(t))
             r == Tail(t)
  <2> HIDE DEF h, r
  <2>2. h \in Seq(T) /\ r \in Seq(T) /\ Len(h) = Len(s) + 1 /\ Len(r) = Len(t) - 1
    BY <1>1, <1>2 DEF h, r
  <2>3. i \in 1 .. Len(h) + Len(r)
    BY <1>1, <2>2
  <2>4. a[i] = IF i <= Len(h) THEN h[i] ELSE r[i - Len(h)]
    BY <2>2, <2>3, ConcatProperties DEF h, r
  <2>5. CASE i <= Len(s)
    <3>1. h[i] = s[i]
      BY <2>5 DEF h
    <3> QED BY <2>1, <2>2, <2>4, <2>5, <3>1
  <2>6. CASE i = Len(s) + 1
    <3>1. h[i] = Head(t) /\ t[1] = Head(t) /\ i - Len(s) = 1
      BY <1>1, <2>6 DEF h
    <3> QED BY <2>1, <2>2, <2>4, <2>6, <3>1
  <2>7. CASE i > Len(s) + 1
    <3>1. i - Len(h) \in 1 .. Len(t) - 1 /\ i - Len(s) = (i - Len(h)) + 1
      BY <1>1, <2>2, <2>7
    <3>2. \A j \in 1 .. Len(t) - 1 : r[j] = t[j + 1]
      BY <1>1 DEF r
    <3> QED BY <2>1, <2>2, <2>4, <2>7, <3>1, <3>2
  <2> QED BY <2>5, <2>6, <2>7
<1> HIDE DEF a, b
<1>6. a = b
  BY <1>3, <1>4, <1>5, SeqEqual
<1> QED BY <1>6 DEF a, b

-----------------------------------------------------------------------------
(* Lists one after the other.                                               *)

\* f is the function behind Chained(s).
Chains(f, s) ==
    /\ f[0] = <<>>
    /\ \A n \in 1 .. Len(s) : f[n] = f[n - 1] \o s[n]

\* There is such a function, its values are lists.
LEMMA ChainedBy ==
    ASSUME NEW T, NEW s \in Seq(Seq(T))
    PROVE  \E f : Chains(f, s) /\ f \in [0 .. Len(s) -> Seq(T)] /\ Chained(s) = f[Len(s)]
<1> DEFINE step == [p \in (1 .. Len(s)) \X Seq(T) |-> p[2] \o s[p[1]]]
           Is(f) == f = [n \in 0 .. Len(s) |-> IF n = 0 THEN <<>> ELSE f[n - 1] \o s[n]]
           g == CHOOSE f : Is(f)
<1>1. Len(s) \in Nat /\ \A n \in 1 .. Len(s) : s[n] \in Seq(T)
  OBVIOUS
<1>2. step \in [(1 .. Len(s)) \X Seq(T) -> Seq(T)]
  <2>1. ASSUME NEW p \in (1 .. Len(s)) \X Seq(T)
        PROVE  p[2] \o s[p[1]] \in Seq(T)
    <3>1. p[1] \in 1 .. Len(s) /\ p[2] \in Seq(T)
      OBVIOUS
    <3> QED BY <1>1, <3>1
  <2> QED BY <2>1
<1>3. PICK f \in [0 .. Len(s) -> Seq(T)] : Recurs(f, Len(s), <<>>, step)
  <2>1. <<>> \in Seq(T)
    OBVIOUS
  <2> HIDE DEF step
  <2> QED BY <1>1, <1>2, <2>1, RecursionUpto
<1>4. Is(f)
  <2>1. ASSUME NEW n \in 0 .. Len(s), n # 0
        PROVE  f[n] = f[n - 1] \o s[n]
    <3>1. n \in 1 .. Len(s) /\ n - 1 \in 0 .. Len(s)
      BY <1>1, <2>1
    <3>2. f[n] = step[<<n, f[n - 1]>>]
      BY <1>3, <3>1 DEF Recurs
    <3> QED BY <3>1, <3>2
  <2> HIDE DEF step
  <2> QED BY <1>3, <2>1 DEF Recurs
<1>5. Is(g)
  BY <1>4
<1>6. Chained(s) = g[Len(s)]
  BY DEF Chained
<1> HIDE DEF g
<1>7. Chains(g, s)
  <2>1. g[0] = <<>>
    BY <1>1, <1>5
  <2>2. ASSUME NEW n \in 1 .. Len(s)
        PROVE  g[n] = g[n - 1] \o s[n]
    <3>1. n \in 0 .. Len(s) /\ n # 0
      BY <1>1
    <3> QED BY <1>5, <3>1
  <2> QED BY <2>1, <2>2 DEF Chains
<1>8. g \in [0 .. Len(s) -> Seq(T)]
  <2> DEFINE R == {n \in Nat : n <= Len(s) => g[n] \in Seq(T)}
  <2>1. 0 \in R
    <3>1. <<>> \in Seq(T)
      OBVIOUS
    <3> QED BY <1>7, <3>1 DEF Chains
  <2>2. ASSUME NEW n \in Nat, n \in R
        PROVE  n + 1 \in R
    <3> SUFFICES ASSUME n + 1 <= Len(s) PROVE g[n + 1] \in Seq(T)
      OBVIOUS
    <3>1. n + 1 \in 1 .. Len(s) /\ (n + 1) - 1 = n /\ g[n] \in Seq(T)
      BY <1>1, <2>2
    <3>2. g[n + 1] = g[n] \o s[n + 1]
      BY <1>7, <3>1 DEF Chains
    <3> QED BY <1>1, <3>1, <3>2
  <2> HIDE DEF R
  <2>3. \A n \in Nat : n \in R
    BY <2>1, <2>2, NatInductionOnSet
  <2>4. \A n \in 0 .. Len(s) : g[n] \in Seq(T)
    BY <1>1, <2>3 DEF R
  <2>5. DOMAIN g = 0 .. Len(s)  /\ g = [n \in 0 .. Len(s) |-> g[n]]
    BY <1>5
  <2> QED BY <2>4, <2>5
<1> QED BY <1>6, <1>7, <1>8

\* What is chained is a list of the entries.
LEMMA ChainedTyped == ASSUME NEW T, NEW s \in Seq(Seq(T)) PROVE Chained(s) \in Seq(T)
<1>1. PICK f : f \in [0 .. Len(s) -> Seq(T)] /\ Chained(s) = f[Len(s)]
  BY ChainedBy, Zenon
<1>2. Len(s) \in 0 .. Len(s)
  OBVIOUS
<1> QED BY <1>1, <1>2

\* One more list comes at the end.
LEMMA ChainedAppend ==
    ASSUME NEW T, NEW s \in Seq(Seq(T)), NEW x \in Seq(T)
    PROVE  Chained(Append(s, x)) = Chained(s) \o x
<1> DEFINE r == Append(s, x)
<1>1. /\ r \in Seq(Seq(T)) /\ Len(r) = Len(s) + 1 /\ Len(s) \in Nat
      /\ r[Len(s) + 1] = x /\ \A n \in 1 .. Len(s) : r[n] = s[n]
  OBVIOUS
<1>2. PICK f : Chains(f, s) /\ Chained(s) = f[Len(s)]
  BY ChainedBy
<1> HIDE DEF r
<1>3. PICK g : Chains(g, r) /\ Chained(r) = g[Len(r)]
  BY <1>1, ChainedBy
<1> DEFINE E == {n \in Nat : n <= Len(s) => g[n] = f[n]}
<1>4. \A n \in Nat : n \in E
  <2>1. 0 \in E
    BY <1>2, <1>3 DEF Chains
  <2>2. ASSUME NEW n \in Nat, n \in E
        PROVE  n + 1 \in E
    <3> SUFFICES ASSUME n + 1 <= Len(s) PROVE g[n + 1] = f[n + 1]
      OBVIOUS
    <3>1. n + 1 \in 1 .. Len(s) /\ n + 1 \in 1 .. Len(r) /\ (n + 1) - 1 = n /\ g[n] = f[n]
      <4>1. n <= Len(s)
        BY <1>1, <2>2
      <4> HIDE DEF r
      <4>2. g[n] = f[n]
        BY <2>2, <4>1
      <4>3. n \in Nat /\ Len(s) \in Nat /\ Len(r) = Len(s) + 1
        BY <1>1, <2>2
      <4> HIDE DEF E
      <4>4. n + 1 \in 1 .. Len(s) /\ n + 1 \in 1 .. Len(s) + 1 /\ (n + 1) - 1 = n
        BY <4>3
      <4> QED BY <4>2, <4>3, <4>4
    <3>2. f[n + 1] = f[n] \o s[n + 1]
      BY <1>2, <3>1 DEF Chains
    <3>3. g[n + 1] = g[n] \o r[n + 1]
      BY <1>3, <3>1 DEF Chains
    <3> QED BY <1>1, <3>1, <3>2, <3>3
  <2> HIDE DEF E
  <2> QED BY <2>1, <2>2, NatInductionOnSet
<1>5. g[Len(s)] = Chained(s)
  BY <1>1, <1>2, <1>4
<1>6. Len(r) \in 1 .. Len(r) /\ Len(r) - 1 = Len(s)
  BY <1>1
<1>7. g[Len(r)] = g[Len(r) - 1] \o r[Len(r)]
  BY <1>3, <1>6 DEF Chains
<1> QED BY <1>1, <1>3, <1>5, <1>6, <1>7 DEF r

\* No list gives none.
LEMMA ChainedEmpty == Chained(<<>>) = <<>>
<1>1. <<>> \in Seq(Seq({})) /\ Len(<<>>) = 0
  OBVIOUS
<1>2. PICK f : Chains(f, <<>>) /\ Chained(<<>>) = f[Len(<<>>)]
  BY <1>1, ChainedBy
<1> QED BY <1>1, <1>2 DEF Chains

\* Chaining two lists of lists, one after the other.
LEMMA ChainedConcat ==
    ASSUME NEW T, NEW s \in Seq(Seq(T)), NEW t \in Seq(Seq(T))
    PROVE  Chained(s \o t) = Chained(s) \o Chained(t)
<1> DEFINE L == Seq(T)
           P == {u \in Seq(L) : Chained(s \o u) = Chained(s) \o Chained(u)}
<1>1. <<>> \in P
  <2>1. s \o <<>> = s /\ <<>> \in Seq(L)
    OBVIOUS
  <2>2. Chained(s) \in Seq(T)
    BY ChainedTyped
  <2>3. Chained(s) \o <<>> = Chained(s)
    BY <2>2, ConcatEmptySeq
  <2> QED BY <2>1, <2>3, ChainedEmpty
<1>2. ASSUME NEW u \in Seq(L), NEW x \in L, u \in P
      PROVE  Append(u, x) \in P
  <2>1. s \o Append(u, x) = Append(s \o u, x) /\ s \o u \in Seq(L) /\ Append(u, x) \in Seq(L)
    <3> HIDE DEF L
    <3>1. s \in Seq(L)
      BY DEF L
    <3> QED BY <3>1
  <2>2. Chained(Append(s \o u, x)) = Chained(s \o u) \o x /\ Chained(Append(u, x)) = Chained(u) \o x
    BY <2>1, ChainedAppend
  <2>3. Chained(s) \in Seq(T) /\ Chained(u) \in Seq(T) /\ x \in Seq(T)
    BY ChainedTyped
  <2>4. (Chained(s) \o Chained(u)) \o x = Chained(s) \o (Chained(u) \o x)
    BY <2>3, ConcatAssociative
  <2>5. Chained(s \o u) = Chained(s) \o Chained(u)
    BY <1>2
  <2>6. Chained(s \o Append(u, x)) = Chained(s) \o Chained(Append(u, x))
    BY <2>1, <2>2, <2>4, <2>5
  <2> QED BY <2>1, <2>6
<1> HIDE DEF P, L
<1>3. \A u \in Seq(L) : u \in P
  BY <1>1, <1>2, ListInduction
<1>4. t \in P
  BY <1>3 DEF L
<1> QED BY <1>4 DEF P

\* The first list comes first.
LEMMA ChainedHead ==
    ASSUME NEW T, NEW s \in Seq(Seq(T)), s # <<>>
    PROVE  Chained(s) = Head(s) \o Chained(Tail(s))
<1> DEFINE L == Seq(T)
<1>1. Append(<<>>, Head(s)) \o Tail(s) = <<>> \o s
  BY EntryMoves
<1>2. /\ Head(s) \in L /\ Tail(s) \in Seq(L) /\ <<Head(s)>> \in Seq(L) /\ <<>> \in Seq(L)
      /\ Append(<<>>, Head(s)) = <<Head(s)>> /\ <<>> \o s = s
  <2> HIDE DEF L
  <2>1. s \in Seq(L)
    BY DEF L
  <2> QED BY <2>1
<1>3. Chained(<<Head(s)>>) = Head(s)
  <2>1. Chained(Append(<<>>, Head(s))) = Chained(<<>>) \o Head(s)
    BY <1>2, ChainedAppend
  <2>2. <<>> \o Head(s) = Head(s)
    BY <1>2
  <2> QED BY <1>2, <2>1, <2>2, ChainedEmpty
<1>4. Chained(<<Head(s)>> \o Tail(s)) = Chained(<<Head(s)>>) \o Chained(Tail(s))
  BY <1>2, ChainedConcat
<1> QED BY <1>1, <1>2, <1>3, <1>4

=============================================================================
