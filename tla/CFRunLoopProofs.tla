--------------------------- MODULE CFRunLoopProofs ---------------------------
(***************************************************************************)
(* Proofs about CFRunLoop, for any modes, sources, blocks, clients and     *)
(* depth of nesting: the blocks that have not run are kept in their order, *)
(* and a loop never sleeps through work while only the callouts of sources *)
(* and of the main queue run it again.  The invariants behind them are     *)
(* OrderInv, about the blocks that the runs have in hand, and WakeInv,     *)
(* about what the innermost run has yet to look at before it sleeps.  At   *)
(* the end, about CFRunLoopTimers: the bisection finds a timer's place in  *)
(* a list of any length, so the lists stay in order (ListInv).             *)
(***************************************************************************)
EXTENDS CFRunLoop, TimerLists, SequenceTheorems, FiniteSetTheorems,
        WellFoundedInduction, TLAPS

(* Sequences: the least of a set, flattening, removing                     *)

\* The recursion of FlattenSeq: the first sequence, then each appended.
Joins(f, ss) ==
    f = [i \in 1 .. Len(ss) |-> IF i = 1 THEN ss[i] ELSE f[i - 1] \o ss[i]]

\* A set of naturals with a member has a least one.
LEMMA Least ==
  ASSUME NEW S, S \subseteq Nat, S # {}
  PROVE  \E m \in S : \A n \in S : m <= n
<1>1. \E m \in S : \A n \in S : <<n, m>> \notin OpToRel(<, Nat)
    BY NatLessThanWellFounded, WFMin, Zenon
<1>2. \A m, n \in Nat : n < m => <<n, m>> \in OpToRel(<, Nat)
    BY DEF OpToRel
<1>3. PICK m \in S : \A n \in S : ~(n < m)
    BY <1>1, <1>2, Zenon
<1>4. \A n \in S : m <= n
    BY <1>3
<1>5. QED
    BY <1>4

\* What FlattenSeq computes is the last of some joining.
LEMMA FlattenDef ==
  ASSUME NEW ss, Len(ss) \in Nat, Len(ss) # 0
  PROVE  FlattenSeq(ss) = (CHOOSE f : Joins(f, ss))[Len(ss)]
  BY DEF FlattenSeq, Joins

\* Every sequence has a joining: there is no shortest one without.
LEMMA Joined ==
  ASSUME NEW X, NEW ss \in Seq(Seq(X))
  PROVE  \E f : Joins(f, ss)
<1> DEFINE P(n) == \E f : f = [i \in 1 .. n |->
                       IF i = 1 THEN ss[i] ELSE f[i - 1] \o ss[i]]
           Bad == {n \in Nat : ~P(n)}
<1>1. P(0)
  <2>1. [i \in 1 .. 0 |-> <<>>] = [i \in 1 .. 0 |->
            IF i = 1 THEN ss[i] ELSE [j \in 1 .. 0 |-> <<>>][i - 1] \o ss[i]]
      OBVIOUS
  <2>2. QED  BY <2>1
<1>2. ASSUME NEW n \in Nat, P(n)
      PROVE  P(n + 1)
  <2>1. PICK f : f = [i \in 1 .. n |->
                       IF i = 1 THEN ss[i] ELSE f[i - 1] \o ss[i]]
      BY <1>2
  <2> DEFINE g == [i \in 1 .. n + 1 |->
                   IF i = n + 1 THEN IF i = 1 THEN ss[i] ELSE f[n] \o ss[i]
                                ELSE f[i]]
  <2>2. \A i \in 1 .. n + 1 :
            g[i] = IF i = 1 THEN ss[i] ELSE g[i - 1] \o ss[i]
    <3>1. SUFFICES ASSUME NEW i \in 1 .. n + 1
                   PROVE  g[i] = IF i = 1 THEN ss[i] ELSE g[i - 1] \o ss[i]
        OBVIOUS
    <3>2. CASE i = n + 1
      <4>1. i # 1 => g[i - 1] = f[n]  BY <3>2
      <4>2. QED  BY <3>2, <4>1
    <3>3. CASE i # n + 1
      <4>1. i \in 1 .. n /\ g[i] = f[i]  BY <3>3
      <4>2. i # 1 => i - 1 \in 1 .. n + 1 /\ i - 1 # n + 1  BY <4>1
      <4>3. i # 1 => g[i - 1] = f[i - 1]  BY <4>2
      <4>4. f[i] = IF i = 1 THEN ss[i] ELSE f[i - 1] \o ss[i]  BY <2>1, <4>1
      <4>5. QED  BY <4>1, <4>3, <4>4
    <3>4. QED  BY <3>2, <3>3
  <2>3. g = [i \in 1 .. n + 1 |->
                IF i = 1 THEN ss[i] ELSE g[i - 1] \o ss[i]]
      BY <2>2
  <2>4. QED  BY <2>3
<1> HIDE DEF P
<1>3. Bad = {}
  <2>1. SUFFICES ASSUME Bad # {} PROVE FALSE
      OBVIOUS
  <2>2. PICK m \in Bad : \A n \in Bad : m <= n
      BY <2>1, Least
  <2>3. m # 0 /\ m - 1 \in Nat /\ P(m - 1)
      BY <1>1, <2>2
  <2>4. P((m - 1) + 1)
      BY <1>2, <2>3
  <2>5. (m - 1) + 1 = m
      BY <2>2
  <2>6. QED
      BY <2>2, <2>4, <2>5
<1>4. P(Len(ss))
    BY <1>3
<1>5. QED
    BY <1>4 DEF P, Joins

\* Two joinings agree as far as their sequences do, and stay in Seq(X).
LEMMA JoinsAgree ==
  ASSUME NEW X, NEW ss \in Seq(Seq(X)), NEW tt \in Seq(Seq(X)), NEW f, NEW g,
         Joins(f, ss), Joins(g, tt), Len(ss) <= Len(tt),
         \A i \in 1 .. Len(ss) : ss[i] = tt[i]
  PROVE  \A i \in 1 .. Len(ss) : f[i] = g[i] /\ f[i] \in Seq(X)
<1> DEFINE Bad == {i \in 1 .. Len(ss) : ~(f[i] = g[i] /\ f[i] \in Seq(X))}
<1>1. Len(ss) \in Nat /\ Len(tt) \in Nat
    BY LenProperties
<1>2. \A i \in 1 .. Len(ss) :
         /\ ss[i] \in Seq(X)
         /\ f[i] = IF i = 1 THEN ss[i] ELSE f[i - 1] \o ss[i]
    BY ElementOfSeq DEF Joins
<1>3. \A i \in 1 .. Len(ss) :
         g[i] = IF i = 1 THEN ss[i] ELSE g[i - 1] \o ss[i]
  <2>1. \A i \in 1 .. Len(tt) :
           g[i] = IF i = 1 THEN tt[i] ELSE g[i - 1] \o tt[i]
      BY DEF Joins
  <2>2. \A i \in 1 .. Len(ss) : i \in 1 .. Len(tt) /\ ss[i] = tt[i]
      BY <1>1
  <2>3. QED
      BY <2>1, <2>2
<1>4. SUFFICES ASSUME Bad # {} PROVE FALSE
    OBVIOUS
<1>5. Bad \subseteq Nat
    BY <1>1
<1>6. PICK m \in Bad : \A n \in Bad : m <= n
    BY <1>4, <1>5, Least
<1>7. m \in 1 .. Len(ss) /\ ~(f[m] = g[m] /\ f[m] \in Seq(X))
    OBVIOUS
<1>8. CASE m = 1
    BY <1>2, <1>3, <1>7, <1>8
<1>9. CASE m # 1
  <2>1. m - 1 \in 1 .. Len(ss) /\ m - 1 \notin Bad
      BY <1>1, <1>6, <1>7, <1>9
  <2>2. f[m - 1] = g[m - 1] /\ f[m - 1] \in Seq(X)
      BY <2>1
  <2>3. /\ f[m] = f[m - 1] \o ss[m] /\ g[m] = g[m - 1] \o ss[m]
        /\ ss[m] \in Seq(X)
      BY <1>2, <1>3, <1>7, <1>9
  <2>4. f[m] \in Seq(X)
      BY <2>2, <2>3, ConcatProperties
  <2>5. QED
      BY <1>7, <2>2, <2>3, <2>4
<1>10. QED
    BY <1>8, <1>9

\* Flattening the empty sequence ...
LEMMA FlattenEmpty == FlattenSeq(<<>>) = <<>>
  BY DEF FlattenSeq

\* ... and one with a last member.
LEMMA FlattenLast ==
  ASSUME NEW X, NEW ss \in Seq(Seq(X)), ss # <<>>
  PROVE  /\ Front(ss) \in Seq(Seq(X)) /\ FlattenSeq(Front(ss)) \in Seq(X)
         /\ FlattenSeq(ss) \in Seq(X)
         /\ FlattenSeq(ss) = FlattenSeq(Front(ss)) \o ss[Len(ss)]
<1> DEFINE n == Len(ss)
           tt == Front(ss)
           F == CHOOSE f : Joins(f, ss)
           G == CHOOSE f : Joins(f, tt)
<1>1. n \in Nat /\ n > 0 /\ n \in 1 .. n
    BY EmptySeq, LenProperties
<1>2. \A i \in 1 .. n : ss[i] \in Seq(X)
    BY ElementOfSeq
<1> HIDE DEF n
<1>3. /\ tt \in Seq(Seq(X)) /\ Len(tt) = n - 1
      /\ \A i \in 1 .. n - 1 : tt[i] = ss[i]
  <2>1. tt = SubSeq(ss, 1, n - 1)
      BY DEF Front, n
  <2>2. \A i \in 1 .. n - 1 : ss[i] \in Seq(X)
      BY <1>1, <1>2
  <2> HIDE DEF tt
  <2>3. /\ SubSeq(ss, 1, n - 1) \in Seq(Seq(X))
        /\ Len(SubSeq(ss, 1, n - 1))
             = IF 1 <= n - 1 THEN (n - 1) - 1 + 1 ELSE 0
        /\ \A i \in 1 .. (n - 1) - 1 + 1 :
              SubSeq(ss, 1, n - 1)[i] = ss[1 + i - 1]
      BY <1>1, <2>2, SubSeqProperties
  <2>4. QED
      BY <1>1, <2>1, <2>3
<1>4. Joins(F, ss) /\ Joins(G, tt)
    BY <1>3, Joined
<1> HIDE DEF F, G, tt
<1>5. \A i \in 1 .. n - 1 : G[i] = F[i] /\ G[i] \in Seq(X)
  <2>1. Len(tt) <= Len(ss) /\ \A i \in 1 .. Len(tt) : tt[i] = ss[i]
      BY <1>1, <1>3 DEF n
  <2>2. \A i \in 1 .. Len(tt) : G[i] = F[i] /\ G[i] \in Seq(X)
      BY <1>3, <1>4, <2>1, JoinsAgree
  <2>3. QED
      BY <1>3, <2>2
<1>6. F[n] = IF n = 1 THEN ss[n] ELSE F[n - 1] \o ss[n]
    BY <1>1, <1>4 DEF Joins, n
<1>7. FlattenSeq(ss) = F[n]
    BY <1>1, FlattenDef DEF F, n
<1>8. CASE n = 1
  <2>1. tt = <<>> /\ FlattenSeq(tt) = <<>>
      BY <1>3, <1>8, EmptySeq, FlattenEmpty
  <2>2. ss[n] \in Seq(X) /\ F[n] = ss[n]
      BY <1>1, <1>2, <1>6, <1>8
  <2>3. <<>> \o ss[n] = ss[n] /\ <<>> \in Seq(X)
      BY <2>2, ConcatEmptySeq, EmptySeq
  <2>4. QED
      BY <1>3, <1>7, <2>1, <2>2, <2>3 DEF tt, n
<1>9. CASE n # 1
  <2>1. FlattenSeq(tt) = G[n - 1]
      BY <1>1, <1>3, <1>9, FlattenDef DEF G
  <2>2. G[n - 1] = F[n - 1] /\ F[n - 1] \in Seq(X) /\ ss[n] \in Seq(X)
    <3>1. n - 1 \in 1 .. n - 1
        BY <1>1, <1>9
    <3>2. QED
        BY <1>1, <1>2, <1>5, <3>1
  <2>3. F[n - 1] \o ss[n] \in Seq(X)
      BY <2>2, ConcatProperties
  <2>4. QED
      BY <1>3, <1>6, <1>7, <1>9, <2>1, <2>2, <2>3 DEF tt, n
<1>10. QED
    BY <1>8, <1>9

\* A sequence without its i-th member, place by place.
LEMMA RemoveAtIs ==
  ASSUME NEW S, NEW s \in Seq(S), NEW i \in 1 .. Len(s)
  PROVE  /\ RemoveAt(s, i) \in Seq(S) /\ Len(RemoveAt(s, i)) = Len(s) - 1
         /\ \A k \in 1 .. Len(s) - 1 :
               RemoveAt(s, i)[k] = IF k < i THEN s[k] ELSE s[k + 1]
<1> DEFINE a == SubSeq(s, 1, i - 1)
           z == SubSeq(s, i + 1, Len(s))
           n == Len(s)
<1>1. n \in Nat /\ i \in Nat /\ 1 <= i /\ i <= n
    BY LenProperties
<1>2. \A k \in 1 .. n : s[k] \in S
    BY ElementOfSeq
<1>3. /\ a \in Seq(S) /\ Len(a) = IF 1 <= i - 1 THEN (i - 1) - 1 + 1 ELSE 0
      /\ \A k \in 1 .. (i - 1) - 1 + 1 : a[k] = s[1 + k - 1]
  <2>1. i - 1 \in Int /\ \A k \in 1 .. i - 1 : s[k] \in S
      BY <1>1, <1>2
  <2>2. QED
      BY <2>1, SubSeqProperties
<1>4. /\ z \in Seq(S) /\ Len(z) = IF i + 1 <= n THEN n - (i + 1) + 1 ELSE 0
      /\ \A k \in 1 .. n - (i + 1) + 1 : z[k] = s[(i + 1) + k - 1]
  <2>1. i + 1 \in Int /\ n \in Int /\ \A k \in i + 1 .. n : s[k] \in S
      BY <1>1, <1>2
  <2>2. QED
      BY <2>1, SubSeqProperties
<1>5. RemoveAt(s, i) = a \o z
    BY DEF RemoveAt
<1> HIDE DEF a, z
<1>6. Len(a) = i - 1 /\ Len(z) = n - i
    BY <1>1, <1>3, <1>4
<1>7. /\ a \o z \in Seq(S) /\ Len(a \o z) = Len(a) + Len(z)
      /\ \A k \in 1 .. Len(a) + Len(z) :
            (a \o z)[k] = IF k <= Len(a) THEN a[k] ELSE z[k - Len(a)]
    BY <1>3, <1>4, ConcatProperties
<1> HIDE DEF n
<1>8. \A k \in 1 .. n - 1 : (a \o z)[k] = IF k < i THEN s[k] ELSE s[k + 1]
  <2>1. SUFFICES ASSUME NEW k \in 1 .. n - 1
                 PROVE  (a \o z)[k] = IF k < i THEN s[k] ELSE s[k + 1]
      OBVIOUS
  <2>2. CASE k < i
    <3>1. k \in 1 .. (i - 1) - 1 + 1 /\ 1 + k - 1 = k
          /\ k \in 1 .. Len(a) + Len(z) /\ k <= Len(a)
        BY <1>1, <1>6, <2>2
    <3>2. QED
        BY <1>3, <1>7, <2>2, <3>1
  <2>3. CASE ~(k < i)
    <3>1. /\ k \in 1 .. Len(a) + Len(z) /\ ~(k <= Len(a))
          /\ k - Len(a) \in 1 .. n - (i + 1) + 1
          /\ (i + 1) + (k - Len(a)) - 1 = k + 1
        BY <1>1, <1>6, <2>3
    <3>2. QED
        BY <1>4, <1>7, <2>3, <3>1
  <2>4. QED
      BY <2>2, <2>3
<1>9. QED
    BY <1>1, <1>5, <1>6, <1>7, <1>8 DEF n

\* Removing a member by name where it occurs once.
LEMMA RemoveFirstIs ==
  ASSUME NEW S, NEW s \in Seq(S), NEW i \in 1 .. Len(s),
         \A j \in 1 .. Len(s) : s[j] = s[i] => j = i
  PROVE  RemoveFirst(s, s[i]) = RemoveAt(s, i)
<1> DEFINE I == {k \in 1 .. Len(s) : s[k] = s[i]}
<1>1. I = {i} /\ i \in Int
    BY LenProperties
<1>2. Min(I) = i
    BY <1>1 DEF Min
<1>3. RemoveFirst(s, s[i]) = RemoveAt(s, Min(I))
    BY <1>1 DEF RemoveFirst, SelectInSeq
<1>4. QED
    BY <1>2, <1>3

\* The i-th member of the middle one of three sequences joined, removed.
RemovedInside(u, v, w, i) ==
    LET s == (u \o v) \o w
        p == Len(u) + i
    IN  /\ p \in 1 .. Len(s) /\ s[p] = v[i]
        /\ RemoveAt(s, p) = (u \o RemoveAt(v, i)) \o w

\* It is removed from the whole where it is removed from the middle.
LEMMA RemoveInside ==
  ASSUME NEW S, NEW u \in Seq(S), NEW v \in Seq(S), NEW w \in Seq(S),
         NEW i \in 1 .. Len(v)
  PROVE  RemovedInside(u, v, w, i)
<1> DEFINE s == (u \o v) \o w
           p == Len(u) + i
           x == RemoveAt(v, i)
           r == RemoveAt(s, p)
           q == (u \o x) \o w
<1>1. /\ Len(u) \in Nat /\ Len(v) \in Nat /\ Len(w) \in Nat
      /\ i \in Nat /\ 1 <= i /\ i <= Len(v)
    BY LenProperties
<1>2. /\ u \o v \in Seq(S) /\ Len(u \o v) = Len(u) + Len(v)
      /\ \A k \in 1 .. Len(u) + Len(v) :
            (u \o v)[k] = IF k <= Len(u) THEN u[k] ELSE v[k - Len(u)]
    BY ConcatProperties
<1>3. /\ s \in Seq(S) /\ Len(s) = Len(u \o v) + Len(w)
      /\ \A k \in 1 .. Len(u \o v) + Len(w) :
            s[k] = IF k <= Len(u \o v) THEN (u \o v)[k] ELSE w[k - Len(u \o v)]
    BY <1>2, ConcatProperties
<1>4. /\ x \in Seq(S) /\ Len(x) = Len(v) - 1
      /\ \A k \in 1 .. Len(v) - 1 : x[k] = IF k < i THEN v[k] ELSE v[k + 1]
    BY RemoveAtIs
<1> HIDE DEF x
<1>5. /\ u \o x \in Seq(S) /\ Len(u \o x) = Len(u) + Len(x)
      /\ \A k \in 1 .. Len(u) + Len(x) :
            (u \o x)[k] = IF k <= Len(u) THEN u[k] ELSE x[k - Len(u)]
    BY <1>4, ConcatProperties
<1>6. /\ q \in Seq(S) /\ Len(q) = Len(u \o x) + Len(w)
      /\ \A k \in 1 .. Len(u \o x) + Len(w) :
            q[k] = IF k <= Len(u \o x) THEN (u \o x)[k] ELSE w[k - Len(u \o x)]
    BY <1>5, ConcatProperties
<1> HIDE DEF s, p, q
<1>7. p = Len(u) + i /\ p \in 1 .. Len(s)
    BY <1>1, <1>2, <1>3 DEF p
<1>8. /\ r \in Seq(S) /\ Len(r) = Len(s) - 1
      /\ \A k \in 1 .. Len(s) - 1 : r[k] = IF k < p THEN s[k] ELSE s[k + 1]
    BY <1>3, <1>7, RemoveAtIs
<1> HIDE DEF r
<1> DEFINE a == Len(u)
           b == Len(v)
           c == Len(w)
<1>9. \A k \in 1 .. a + b + c :
         s[k] = IF k <= a THEN u[k]
                ELSE IF k <= a + b THEN v[k - a] ELSE w[k - (a + b)]
    BY <1>1, <1>2, <1>3
<1>10. \A k \in 1 .. a + b + c - 1 :
         q[k] = IF k <= a THEN u[k]
                ELSE IF k < a + i THEN v[k - a]
                ELSE IF k <= a + b - 1 THEN v[k - a + 1]
                ELSE w[k - (a + b - 1)]
  <2>1. SUFFICES ASSUME NEW k \in 1 .. a + b + c - 1
                 PROVE  q[k] = IF k <= a THEN u[k]
                               ELSE IF k < a + i THEN v[k - a]
                               ELSE IF k <= a + b - 1 THEN v[k - a + 1]
                               ELSE w[k - (a + b - 1)]
      OBVIOUS
  <2>2. Len(u \o x) = a + b - 1
      BY <1>1, <1>4, <1>5
  <2>3. q[k] = IF k <= a + b - 1 THEN (u \o x)[k] ELSE w[k - (a + b - 1)]
    <3>1. k \in 1 .. Len(u \o x) + Len(w)
        BY <1>1, <2>2
    <3>2. QED
        BY <1>6, <2>2, <3>1
  <2>4. k <= a + b - 1 => (u \o x)[k] = IF k <= a THEN u[k] ELSE x[k - a]
    <3>1. k <= a + b - 1 => k \in 1 .. Len(u) + Len(x)
        BY <1>1, <1>4
    <3>2. QED
        BY <1>5, <3>1
  <2>5. k <= a + b - 1 /\ ~(k <= a) =>
           x[k - a] = IF k - a < i THEN v[k - a] ELSE v[k - a + 1]
    <3>1. k <= a + b - 1 /\ ~(k <= a) => k - a \in 1 .. Len(v) - 1
        BY <1>1
    <3>2. QED
        BY <1>4, <3>1
  <2>6. a \in Nat /\ b \in Nat /\ c \in Nat /\ k \in Nat
        /\ i \in Nat /\ 1 <= i /\ i <= b
      BY <1>1
  <2> HIDE DEF a, b, c
  <2>7. /\ k <= a => k <= a + b - 1
        /\ k < a + i => k <= a + b - 1
        /\ ~(k <= a) => (k - a < i <=> k < a + i)
      BY <2>6
  <2>8. QED
      BY <2>3, <2>4, <2>5, <2>7
<1>11. Len(s) = a + b + c /\ Len(q) = a + b + c - 1 /\ Len(r) = a + b + c - 1
    BY <1>1, <1>2, <1>3, <1>4, <1>5, <1>6, <1>8
<1> HIDE DEF a, b, c
<1>12. \A k \in 1 .. Len(r) : r[k] = q[k]
  <2>1. SUFFICES ASSUME NEW k \in 1 .. Len(r)
                 PROVE  r[k] = q[k]
      OBVIOUS
  <2>2. a \in Nat /\ b \in Nat /\ c \in Nat /\ i \in Nat /\ 1 <= i /\ i <= b
        /\ p = a + i /\ k \in Nat /\ 1 <= k /\ k <= a + b + c - 1
      BY <1>1, <1>7, <1>11 DEF a, b, c
  <2>3. r[k] = IF k < p THEN s[k] ELSE s[k + 1]
      BY <1>8, <1>11, <2>2
  <2>4. s[k] = IF k <= a THEN u[k]
                ELSE IF k <= a + b THEN v[k - a] ELSE w[k - (a + b)]
      BY <1>9, <2>2
  <2>5. s[k + 1] = IF k + 1 <= a THEN u[k + 1]
                ELSE IF k + 1 <= a + b THEN v[k + 1 - a]
                ELSE w[k + 1 - (a + b)]
      BY <1>9, <2>2
  <2>6. q[k] = IF k <= a THEN u[k]
                ELSE IF k < a + i THEN v[k - a]
                ELSE IF k <= a + b - 1 THEN v[k - a + 1]
                ELSE w[k - (a + b - 1)]
      BY <1>10, <2>2
  <2>7. k - a + 1 = k + 1 - a /\ k - (a + b - 1) = k + 1 - (a + b)
      BY <2>2
  <2>8. QED
      BY <2>2, <2>3, <2>4, <2>5, <2>6, <2>7
<1>13. r = q
    BY <1>6, <1>8, <1>11, <1>12, SeqEqual
<1>14. s[p] = v[i]
  <2>1. p \in 1 .. a + b + c /\ ~(p <= a) /\ p <= a + b /\ p - a = i
      BY <1>1, <1>7 DEF a, b, c
  <2>2. QED
      BY <1>9, <2>1
<1>15. QED
    BY <1>7, <1>13, <1>14 DEF RemovedInside, r, q, s, p, x

\* The members of two sequences joined.
LEMMA ToSetConcat ==
  ASSUME NEW S, NEW s \in Seq(S), NEW r \in Seq(S)
  PROVE  ToSet(s \o r) = ToSet(s) \cup ToSet(r)
<1>1. \A q : ToSet(q) = Range(q)
    BY DEF ToSet, Range
<1>2. Range(s \o r) = Range(s) \cup Range(r)
    BY RangeConcatenation
<1>3. QED
    BY <1>1, <1>2

-----------------------------------------------------------------------------
(* Frames and the stack                                                    *)

\* The ports of a run loop, and where an activation may be.
PortNames == PortSources \cup {"main", "wakeup"}
Places == {"entry", "before", "take", "blocks", "collect", "sources", "poll",
           "waiting", "asleep", "woken", "after", "handle", "main", "port",
           "decide", "exit"}

\* What an activation of CFRunLoopRunSpecific() has in its variables.
Frames ==
    [mode : Modes, once : BOOLEAN, expired : BOOLEAN, limited : BOOLEAN,
     serves : BOOLEAN, at : Places,
     calling : Blocks \cup Sources \cup PortSources \cup {"main", NULL},
     stopped : BOOLEAN, ignoring : BOOLEAN, pass : {1, 2, 3},
     taken : Seq(Blocks), todo : SUBSET Sources, handled : BOOLEAN,
     poll : BOOLEAN, live : PortNames \cup {NULL}, served : BOOLEAN]

\* Both kinds of sources.
AllSources == Sources \cup PortSources

\* The type of every variable.
TypeInv ==
    /\ stack \in Seq(Frames)
    /\ blocks \in Seq(Blocks) /\ order \in Seq(Blocks)
    /\ sources \in [Modes -> SUBSET AllSources]
    /\ valid \subseteq AllSources /\ signalled \subseteq Sources
    /\ modeStopped \subseteq Modes /\ ports \subseteq PortNames
    /\ pc \in [Threads -> {"idle", "wake", "insert", "discard"}]
    /\ arg \in [Threads -> (AllSources \cup {NULL}) \X (Modes \cup {NULL})]
    /\ calls \in Nat
    /\ \A t \in Threads : pc[t] = "insert" => arg[t] \in AllSources \X Modes

\* The stack when its innermost frame is another.
LEMMA TopSet ==
  ASSUME stack \in Seq(Frames), stack # <<>>, NEW f \in Frames, SetTop(f)
  PROVE  /\ stack' \in Seq(Frames) /\ stack' # <<>> /\ Depth' = Depth
         /\ Depth \in Nat /\ Depth >= 1 /\ Top' = f
         /\ \A d \in 1 .. Depth - 1 : stack'[d] = stack[d]
<1>1. Depth \in Nat /\ Depth >= 1 /\ Depth \in 1 .. Len(stack)
    BY EmptySeq, LenProperties DEF Depth
<1>2. /\ stack' \in Seq(Frames) /\ Len(stack') = Len(stack)
      /\ \A d \in 1 .. Len(stack) :
            stack'[d] = IF d = Depth THEN f ELSE stack[d]
    BY <1>1, ExceptSeq DEF SetTop
<1>3. stack' # <<>>
    BY <1>1, <1>2, EmptySeq DEF Depth
<1>4. QED
    BY <1>1, <1>2, <1>3 DEF Depth, Top

\* The innermost frame is a frame.
LEMMA TopIn ==
  ASSUME stack \in Seq(Frames), stack # <<>>
  PROVE  Top \in Frames /\ Depth \in Nat /\ Depth >= 1
<1>1. Depth \in Nat /\ Depth >= 1 /\ Depth \in 1 .. Len(stack)
    BY EmptySeq, LenProperties DEF Depth
<1>2. QED
    BY <1>1, ElementOfSeq DEF Depth, Top

\* A run begins with a frame of its own.
LEMMA NewFrame ==
  ASSUME NEW m \in Modes, NEW r \in Runs
  PROVE  LET f == Frame(m, r[1], r[2]) IN f \in Frames /\ f.taken = <<>>
<1>1. r[1] \in BOOLEAN
    BY RunLoopAssumption
<1>2. ServesMain(m) \in BOOLEAN
    BY DEF ServesMain
<1>3. <<>> \in Seq(Blocks)
    BY EmptySeq
<1>4. QED
    BY <1>1, <1>2, <1>3 DEF Frame, Frames, Places

\* The next block of this mode is one of those in hand.
LEMMA NextBlock ==
  ASSUME Top \in Frames, Eligible # {}
  PROVE  LET i == CHOOSE n \in Eligible : \A k \in Eligible : n <= k
         IN  /\ i \in 1 .. Len(Top.taken)
             /\ RemoveAt(Top.taken, i) \in Seq(Blocks)
             /\ Top.taken[i] \in Blocks
<1> DEFINE i == CHOOSE n \in Eligible : \A k \in Eligible : n <= k
<1>1. Top.taken \in Seq(Blocks)
    BY DEF Frames
<1>2. Eligible \subseteq 1 .. Len(Top.taken) /\ Len(Top.taken) \in Nat
    BY <1>1, LenProperties DEF Eligible
<1>3. i \in Eligible
  <2>1. Eligible \subseteq Nat
      BY <1>2
  <2>2. \E n \in Eligible : \A k \in Eligible : n <= k
      BY <2>1, Least
  <2>3. QED
      BY <2>2
<1>4. i \in 1 .. Len(Top.taken)
    BY <1>2, <1>3
<1> HIDE DEF i
<1>5. RemoveAt(Top.taken, i) \in Seq(Blocks) /\ Top.taken[i] \in Blocks
    BY <1>1, <1>4, RemoveAtIs, ElementOfSeq
<1>6. QED
    BY <1>4, <1>5 DEF i

-----------------------------------------------------------------------------
(* Types, and the order of the blocks                                      *)

\* What the first runs of a stack have in hand, all runs, and all but the
\* innermost.
Hands(st, n) == [d \in 1 .. n |-> st[d].taken]
Held(st) == FlattenSeq(Hands(st, Len(st)))
Outer(st) == FlattenSeq(Hands(st, Len(st) - 1))

\* No block is in the list twice, only a run of blocks has some in hand, and
\* those in hand and in the list are in the order they were submitted.
OrderInv ==
    /\ \A i, j \in 1 .. Len(order) : order[i] = order[j] => i = j
    /\ \A d \in 1 .. Depth : stack[d].taken # <<>> => stack[d].at = "blocks"
    /\ order = Held(stack) \o blocks

\* What the runs have in hand are sequences of blocks.
LEMMA HandsType ==
  ASSUME NEW st \in Seq(Frames), NEW n \in Nat, n <= Len(st)
  PROVE  Hands(st, n) \in Seq(Seq(Blocks)) /\ Len(Hands(st, n)) = n
<1>1. \A d \in 1 .. n : st[d] \in Frames
    BY LenProperties, ElementOfSeq
<1>2. \A d \in 1 .. n : st[d].taken \in Seq(Blocks)
    BY <1>1 DEF Frames
<1>3. Hands(st, n) \in [1 .. n -> Seq(Blocks)]
    BY <1>2 DEF Hands
<1>4. QED
    BY <1>3

\* The innermost run's come last.
LEMMA HeldSplit ==
  ASSUME NEW st \in Seq(Frames), st # <<>>
  PROVE  /\ Outer(st) \in Seq(Blocks) /\ st[Len(st)].taken \in Seq(Blocks)
         /\ Held(st) = Outer(st) \o st[Len(st)].taken
         /\ Held(st) \in Seq(Blocks)
<1> DEFINE n == Len(st)
           h == Hands(st, n)
           g == Hands(st, n - 1)
<1>1. n \in Nat /\ n >= 1
    BY EmptySeq, LenProperties
<1>2. st[n].taken \in Seq(Blocks)
  <2>1. st[n] \in Frames
      BY <1>1, ElementOfSeq
  <2>2. QED
      BY <2>1 DEF Frames
<1>3. /\ h \in Seq(Seq(Blocks)) /\ Len(h) = n
      /\ g \in Seq(Seq(Blocks)) /\ Len(g) = n - 1
    BY <1>1, HandsType
<1>4. h # <<>>
    BY <1>1, <1>3, EmptySeq
<1>5. /\ \A d \in 1 .. n - 1 : h[d] = g[d]
      /\ h[n] = st[n].taken
    BY <1>1 DEF Hands
<1>6. /\ Held(st) = FlattenSeq(h)
      /\ Outer(st) = FlattenSeq(g)
    BY DEF Held, Outer
<1> HIDE DEF h, g, n
<1>7. Front(h) = g
  <2>1. Front(h) \in Seq(Seq(Blocks)) /\ Front(h) = SubSeq(h, 1, n - 1)
      BY <1>3, <1>4, FlattenLast DEF Front
  <2>2. \A d \in 1 .. n - 1 : h[d] \in Seq(Blocks)
      BY <1>1, <1>3, ElementOfSeq
  <2>3. /\ Len(Front(h)) = IF 1 <= n - 1 THEN (n - 1) - 1 + 1 ELSE 0
        /\ \A d \in 1 .. (n - 1) - 1 + 1 : Front(h)[d] = h[1 + d - 1]
      BY <1>1, <2>1, <2>2, SubSeqProperties
  <2>4. \A d \in 1 .. n - 1 : d \in 1 .. (n - 1) - 1 + 1 /\ 1 + d - 1 = d
      BY <1>1
  <2>5. Len(Front(h)) = n - 1 /\ \A d \in 1 .. n - 1 : Front(h)[d] = g[d]
      BY <1>1, <1>5, <2>3, <2>4
  <2>6. QED
      BY <1>3, <2>1, <2>5, SeqEqual
<1>8. /\ FlattenSeq(Front(h)) \in Seq(Blocks) /\ FlattenSeq(h) \in Seq(Blocks)
      /\ FlattenSeq(h) = FlattenSeq(Front(h)) \o h[Len(h)]
    BY <1>3, <1>4, FlattenLast
<1>9. QED
    BY <1>2, <1>3, <1>5, <1>6, <1>7, <1>8 DEF n

\* While nothing runs, nothing is in hand.
LEMMA HeldEmpty == Held(<<>>) = <<>>
<1>1. Len(<<>>) = 0
    BY EmptySeq
<1>2. Hands(<<>>, Len(<<>>)) = <<>>
    BY <1>1 DEF Hands
<1>3. QED
    BY <1>2, FlattenEmpty DEF Held

\* What all runs have in hand is a sequence of blocks.
LEMMA HeldType ==
  ASSUME NEW st \in Seq(Frames)
  PROVE  Held(st) \in Seq(Blocks)
  BY HeldSplit, HeldEmpty, EmptySeq

\* The frames below the innermost keep what they have in hand.
LEMMA OuterKept ==
  ASSUME stack \in Seq(Frames), stack # <<>>, NEW f \in Frames, SetTop(f)
  PROVE  /\ Held(stack) = Outer(stack) \o Top.taken
         /\ Held(stack') = Outer(stack) \o f.taken
         /\ Outer(stack) \in Seq(Blocks)
<1>1. /\ stack' \in Seq(Frames) /\ stack' # <<>> /\ Depth' = Depth
      /\ Depth \in Nat /\ Depth >= 1 /\ Top' = f
      /\ \A d \in 1 .. Depth - 1 : stack'[d] = stack[d]
    BY TopSet
<1>2. Outer(stack') = Outer(stack)
    BY <1>1 DEF Outer, Hands, Depth
<1>3. QED
    BY <1>1, <1>2, HeldSplit DEF Depth, Top

\* A nested run starts with empty hands ...
LEMMA HeldPushed ==
  ASSUME NEW st \in Seq(Frames), NEW f \in Frames, f.taken = <<>>
  PROVE  Held(Append(st, f)) = Held(st)
<1> DEFINE r == Append(st, f)
<1>1. /\ r \in Seq(Frames) /\ r # <<>> /\ Len(r) = Len(st) + 1
      /\ \A d \in 1 .. Len(st) : r[d] = st[d]
      /\ r[Len(st) + 1] = f
    BY AppendProperties
<1> HIDE DEF r
<1>2. Len(st) \in Nat
    BY LenProperties
<1>3. Outer(r) = Held(st)
  <2>1. Len(r) - 1 = Len(st)
      BY <1>1, <1>2
  <2>2. Hands(r, Len(st)) = Hands(st, Len(st))
      BY <1>1 DEF Hands
  <2>3. QED
      BY <2>1, <2>2 DEF Outer, Held
<1>4. Held(r) = Outer(r) \o <<>> /\ Outer(r) \in Seq(Blocks)
    BY <1>1, HeldSplit
<1>5. QED
    BY <1>3, <1>4, ConcatEmptySeq DEF r

\* ... and ends with empty hands.
LEMMA HeldPopped ==
  ASSUME NEW st \in Seq(Frames), st # <<>>
  PROVE  /\ Front(st) \in Seq(Frames) /\ Len(Front(st)) = Len(st) - 1
         /\ \A d \in 1 .. Len(st) - 1 : Front(st)[d] = st[d]
         /\ st[Len(st)].taken = <<>> => Held(Front(st)) = Held(st)
<1> DEFINE n == Len(st)
           r == Front(st)
<1>1. n \in Nat /\ n >= 1
    BY EmptySeq, LenProperties
<1>2. r = SubSeq(st, 1, n - 1)
    BY DEF Front
<1> HIDE DEF r, n
<1>3. /\ r \in Seq(Frames)
      /\ Len(r) = IF 1 <= n - 1 THEN (n - 1) - 1 + 1 ELSE 0
      /\ \A d \in 1 .. (n - 1) - 1 + 1 : r[d] = st[1 + d - 1]
  <2>1. \A d \in 1 .. n - 1 : st[d] \in Frames
      BY <1>1, ElementOfSeq DEF n
  <2>2. QED
      BY <1>1, <1>2, <2>1, SubSeqProperties
<1>4. \A d \in 1 .. n - 1 : d \in 1 .. (n - 1) - 1 + 1 /\ 1 + d - 1 = d
    BY <1>1
<1>5. Len(r) = n - 1 /\ \A d \in 1 .. n - 1 : r[d] = st[d]
    BY <1>1, <1>3, <1>4
<1>6. Held(r) = Outer(st)
  <2>1. Hands(r, n - 1) = Hands(st, n - 1)
      BY <1>5 DEF Hands
  <2>2. QED
      BY <1>5, <2>1 DEF Held, Outer, n
<1>7. Held(st) = Outer(st) \o st[n].taken /\ Outer(st) \in Seq(Blocks)
    BY HeldSplit DEF n
<1>8. QED
    BY <1>3, <1>5, <1>6, <1>7, ConcatEmptySeq DEF n, r

\* The steps of a run other than those of its blocks: the innermost frame
\* becomes another with the same blocks in hand.
Passes ==
    \/ Enter \/ Before \/ Collect \/ (\E s \in Sources : Perform(s))
    \/ SourcesDone \/ Poll \/ Sleep \/ Receive \/ Wake \/ After
    \/ Handle \/ Handled \/ EndCallout \/ Decide

\* Each has a frame of the right type to become.
LEMMA PassesFrame ==
  ASSUME TypeInv, Passes
  PROVE  /\ stack \in Seq(Frames) /\ stack # <<>> /\ UNCHANGED blockVars
         /\ \E f \in Frames : /\ SetTop(f) /\ f.taken = Top.taken
                               /\ (Top.at = "blocks" => f.at = "blocks")
<1> DEFINE Goal == \E f \in Frames : /\ SetTop(f) /\ f.taken = Top.taken
                                      /\ (Top.at = "blocks" => f.at = "blocks")
<1>1. ASSUME Enter
      PROVE  stack # <<>> /\ UNCHANGED blockVars /\ Goal
  <2>1. stack \in Seq(Frames) /\ stack # <<>> /\ UNCHANGED blockVars
      BY <1>1 DEF Enter, At, TypeInv
  <2>2. Top \in Frames
      BY <2>1, TopIn
  <2>3. CASE Top.stopped
    <3> DEFINE f == [Top EXCEPT !.stopped = FALSE, !.at = "exit"]
    <3>1. f \in Frames /\ f.taken = Top.taken
        BY <2>2 DEF Frames, Places
    <3>2. SetTop(f) /\ Top.at # "blocks"
        BY <1>1, <2>3 DEF Enter, At, GoTo
    <3>3. QED
        BY <2>1, <3>1, <3>2
  <2>4. CASE ~Top.stopped /\ Top.mode \in modeStopped
    <3> DEFINE f == [Top EXCEPT !.at = "exit"]
    <3>1. f \in Frames /\ f.taken = Top.taken
        BY <2>2 DEF Frames, Places
    <3>2. SetTop(f) /\ Top.at # "blocks"
        BY <1>1, <2>4 DEF Enter, At, GoTo
    <3>3. QED
        BY <2>1, <3>1, <3>2
  <2>5. CASE ~Top.stopped /\ Top.mode \notin modeStopped
    <3> DEFINE f == [Top EXCEPT !.at = "before"]
    <3>1. f \in Frames /\ f.taken = Top.taken
        BY <2>2 DEF Frames, Places
    <3>2. SetTop(f) /\ Top.at # "blocks"
        BY <1>1, <2>5 DEF Enter, At, GoTo
    <3>3. QED
        BY <2>1, <3>1, <3>2
  <2>6. QED
      BY <2>3, <2>4, <2>5
<1>2. ASSUME Before
      PROVE  stack # <<>> /\ UNCHANGED blockVars /\ Goal
  <2>1. stack \in Seq(Frames) /\ stack # <<>> /\ UNCHANGED blockVars
      BY <1>2 DEF Before, At, TypeInv
  <2>2. Top \in Frames
      BY <2>1, TopIn
  <2> DEFINE f == [Top EXCEPT !.at = "take", !.pass = 1]
  <2>3. f \in Frames /\ f.taken = Top.taken
      BY <2>2 DEF Frames, Places
  <2>4. SetTop(f) /\ Top.at # "blocks"
      BY <1>2 DEF Before, At, GoTo
  <2>5. QED
      BY <2>1, <2>3, <2>4
<1>3. ASSUME Collect
      PROVE  stack # <<>> /\ UNCHANGED blockVars /\ Goal
  <2>1. stack \in Seq(Frames) /\ stack # <<>> /\ UNCHANGED blockVars
      BY <1>3 DEF Collect, At, TypeInv
  <2>2. Top \in Frames
      BY <2>1, TopIn
  <2> DEFINE ready == sources[Top.mode] \cap Sources \cap valid \cap signalled
             f == [Top EXCEPT !.todo = ready,
                              !.at = IF ready = {} THEN "poll" ELSE "sources"]
  <2>3. f \in Frames /\ f.taken = Top.taken
      BY <2>2 DEF Frames, Places
  <2>4. SetTop(f) /\ Top.at # "blocks"
      BY <1>3 DEF Collect, At
  <2>5. QED
      BY <2>1, <2>3, <2>4
<1>4. ASSUME NEW s \in Sources, Perform(s)
      PROVE  stack # <<>> /\ UNCHANGED blockVars /\ Goal
  <2>1. stack \in Seq(Frames) /\ stack # <<>> /\ UNCHANGED blockVars
      BY <1>4 DEF Perform, At, TypeInv
  <2>2. Top \in Frames
      BY <2>1, TopIn
  <2>3. CASE s \in signalled \cap valid
    <3> DEFINE f == [Top EXCEPT !.todo = IF Top.once THEN {} ELSE @ \ {s},
                              !.handled = TRUE, !.calling = s]
    <3>1. f \in Frames /\ f.taken = Top.taken
        BY <2>2 DEF Frames, Places
    <3>2. SetTop(f) /\ Top.at # "blocks"
        BY <1>4, <2>3 DEF Perform, At, GoTo
    <3>3. QED
        BY <2>1, <3>1, <3>2
  <2>4. CASE s \notin signalled \cap valid
    <3> DEFINE f == [Top EXCEPT !.todo = @ \ {s}]
    <3>1. f \in Frames /\ f.taken = Top.taken
        BY <2>2 DEF Frames, Places
    <3>2. SetTop(f) /\ Top.at # "blocks"
        BY <1>4, <2>4 DEF Perform, At, GoTo
    <3>3. QED
        BY <2>1, <3>1, <3>2
  <2>5. QED
      BY <2>3, <2>4
<1>5. ASSUME SourcesDone
      PROVE  stack # <<>> /\ UNCHANGED blockVars /\ Goal
  <2>1. stack \in Seq(Frames) /\ stack # <<>> /\ UNCHANGED blockVars
      BY <1>5 DEF SourcesDone, At, TypeInv
  <2>2. Top \in Frames
      BY <2>1, TopIn
  <2> DEFINE f == [Top EXCEPT !.at = IF Top.handled THEN "take" ELSE "poll",
                            !.pass = 2]
  <2>3. f \in Frames /\ f.taken = Top.taken
      BY <2>2 DEF Frames, Places
  <2>4. SetTop(f) /\ Top.at # "blocks"
      BY <1>5 DEF SourcesDone, At, GoTo
  <2>5. QED
      BY <2>1, <2>3, <2>4
<1>6. ASSUME Poll
      PROVE  stack # <<>> /\ UNCHANGED blockVars /\ Goal
  <2>1. stack \in Seq(Frames) /\ stack # <<>> /\ UNCHANGED blockVars
      BY <1>6 DEF Poll, At, TypeInv
  <2>2. Top \in Frames
      BY <2>1, TopIn
  <2> DEFINE b == Top.handled \/ Top.expired
             g == [Top EXCEPT !.poll = b]
             f1 == [g EXCEPT !.live = "main", !.at = "handle"]
             loc == IF b THEN "asleep" ELSE "waiting"
             f2 == [g EXCEPT !.served = FALSE, !.at = loc]
  <2>3. SetTop(f1) \/ SetTop(f2)
      BY <1>6 DEF Poll
  <2>4. Top.at # "blocks" /\ b \in BOOLEAN /\ loc \in Places
      BY <1>6 DEF Poll, At, Places
  <2> HIDE DEF b, loc
  <2>5. g \in Frames /\ g.taken = Top.taken
      BY <2>2, <2>4 DEF Frames
  <2> HIDE DEF g
  <2>6. f1 \in Frames /\ f1.taken = Top.taken
      BY <2>5 DEF Frames, Places, PortNames
  <2>7. f2 \in Frames /\ f2.taken = Top.taken
      BY <2>4, <2>5 DEF Frames
  <2> HIDE DEF f1, f2
  <2>8. QED
      BY <2>1, <2>3, <2>4, <2>6, <2>7
<1>7. ASSUME Sleep
      PROVE  stack # <<>> /\ UNCHANGED blockVars /\ Goal
  <2>1. stack \in Seq(Frames) /\ stack # <<>> /\ UNCHANGED blockVars
      BY <1>7 DEF Sleep, At, TypeInv
  <2>2. Top \in Frames
      BY <2>1, TopIn
  <2> DEFINE f == [Top EXCEPT !.at = "asleep"]
  <2>3. f \in Frames /\ f.taken = Top.taken
      BY <2>2 DEF Frames, Places
  <2>4. SetTop(f) /\ Top.at # "blocks"
      BY <1>7 DEF Sleep, At, GoTo
  <2>5. QED
      BY <2>1, <2>3, <2>4
<1>8. ASSUME Receive
      PROVE  stack # <<>> /\ UNCHANGED blockVars /\ Goal
  <2>1. stack \in Seq(Frames) /\ stack # <<>> /\ UNCHANGED blockVars
      BY <1>8 DEF Receive, At, TypeInv
  <2>2. Top \in Frames
      BY <2>1, TopIn
  <2> DEFINE f(p) == [Top EXCEPT !.live = p, !.at = "woken"]
  <2>3. \A p \in PortNames \cup {NULL} :
           f(p) \in Frames /\ f(p).taken = Top.taken
      BY <2>2 DEF Frames, Places
  <2>4. PICK p \in PortNames \cup {NULL} : SetTop(f(p))
      BY <1>8 DEF Receive, TypeInv
  <2>5. Top.at # "blocks"
      BY <1>8 DEF Receive, At
  <2> HIDE DEF f
  <2>6. QED
      BY <2>1, <2>3, <2>4, <2>5
<1>9. ASSUME Wake
      PROVE  stack # <<>> /\ UNCHANGED blockVars /\ Goal
  <2>1. stack \in Seq(Frames) /\ stack # <<>> /\ UNCHANGED blockVars
      BY <1>9 DEF Wake, At, TypeInv
  <2>2. Top \in Frames
      BY <2>1, TopIn
  <2> DEFINE f == [Top EXCEPT !.ignoring = TRUE,
                            !.at = IF Top.poll THEN "handle" ELSE "after"]
  <2>3. f \in Frames /\ f.taken = Top.taken
      BY <2>2 DEF Frames, Places
  <2>4. SetTop(f) /\ Top.at # "blocks"
      BY <1>9 DEF Wake, At, GoTo
  <2>5. QED
      BY <2>1, <2>3, <2>4
<1>10. ASSUME After
      PROVE  stack # <<>> /\ UNCHANGED blockVars /\ Goal
  <2>1. stack \in Seq(Frames) /\ stack # <<>> /\ UNCHANGED blockVars
      BY <1>10 DEF After, At, TypeInv
  <2>2. Top \in Frames
      BY <2>1, TopIn
  <2> DEFINE f == [Top EXCEPT !.at = "handle"]
  <2>3. f \in Frames /\ f.taken = Top.taken
      BY <2>2 DEF Frames, Places
  <2>4. SetTop(f) /\ Top.at # "blocks"
      BY <1>10 DEF After, At, GoTo
  <2>5. QED
      BY <2>1, <2>3, <2>4
<1>11. ASSUME Handle
      PROVE  stack # <<>> /\ UNCHANGED blockVars /\ Goal
  <2>1. stack \in Seq(Frames) /\ stack # <<>> /\ UNCHANGED blockVars
      BY <1>11 DEF Handle, At, TypeInv
  <2>2. Top \in Frames
      BY <2>1, TopIn
  <2> DEFINE g == [Top EXCEPT !.ignoring = TRUE, !.pass = 3, !.live = NULL,
                              !.poll = FALSE]
             c == IF Top.live \in valid THEN Top.live ELSE NULL
             h == g.handled \/ Top.live \in valid
             f1 == [g EXCEPT !.at = "take"]
             f2 == [g EXCEPT !.at = "main", !.calling = "main",
                             !.handled = TRUE, !.served = TRUE]
             f3 == [g EXCEPT !.at = "port", !.calling = c,
                             !.handled = h]
  <2>3. g \in Frames /\ g.taken = Top.taken
      BY <2>2 DEF Frames
  <2>4. SetTop(f1) \/ SetTop(f2) \/ SetTop(f3)
      BY <1>11, <2>2 DEF Handle, Frames
  <2>5. Top.at # "blocks"
      BY <1>11 DEF Handle, At
  <2>6. c \in AllSources \cup {NULL} /\ h \in BOOLEAN
      BY DEF TypeInv
  <2> HIDE DEF g, c, h
  <2>7. f1 \in Frames /\ f1.taken = Top.taken
      BY <2>3 DEF Frames, Places
  <2>8. f2 \in Frames /\ f2.taken = Top.taken
      BY <2>3 DEF Frames, Places
  <2>9. f3 \in Frames /\ f3.taken = Top.taken
      BY <2>3, <2>6 DEF Frames, Places, AllSources
  <2> HIDE DEF f1, f2, f3
  <2>10. QED
      BY <2>1, <2>4, <2>5, <2>7, <2>8, <2>9
<1>12. ASSUME Handled
      PROVE  stack # <<>> /\ UNCHANGED blockVars /\ Goal
  <2>1. stack \in Seq(Frames) /\ stack # <<>> /\ UNCHANGED blockVars
      BY <1>12 DEF Handled, At, TypeInv
  <2>2. Top \in Frames
      BY <2>1, TopIn
  <2> DEFINE f == [Top EXCEPT !.at = "take"]
  <2>3. f \in Frames /\ f.taken = Top.taken
      BY <2>2 DEF Frames, Places
  <2>4. SetTop(f) /\ Top.at # "blocks"
      BY <1>12 DEF Handled, At, GoTo
  <2>5. QED
      BY <2>1, <2>3, <2>4
<1>13. ASSUME EndCallout
      PROVE  stack # <<>> /\ UNCHANGED blockVars /\ Goal
  <2>1. stack \in Seq(Frames) /\ stack # <<>> /\ UNCHANGED blockVars
      BY <1>13 DEF EndCallout, At, TypeInv
  <2>2. Top \in Frames
      BY <2>1, TopIn
  <2> DEFINE f == [Top EXCEPT !.calling = NULL]
  <2>3. f \in Frames /\ f.taken = Top.taken /\ f.at = Top.at
      BY <2>2 DEF Frames, Places
  <2>4. SetTop(f)
      BY <1>13 DEF EndCallout, At, GoTo
  <2>5. QED
      BY <2>1, <2>3, <2>4
<1>14. ASSUME Decide
      PROVE  stack # <<>> /\ UNCHANGED blockVars /\ Goal
  <2>1. stack \in Seq(Frames) /\ stack # <<>> /\ UNCHANGED blockVars
      BY <1>14 DEF Decide, At, TypeInv
  <2>2. Top \in Frames
      BY <2>1, TopIn
  <2> DEFINE f1 == [Top EXCEPT !.at = "exit"]
             f2 == [Top EXCEPT !.stopped = FALSE, !.at = "exit"]
             f3 == [Top EXCEPT !.ignoring = FALSE, !.handled = FALSE,
                               !.at = "before"]
  <2>3. SetTop(f1) \/ SetTop(f2) \/ SetTop(f3)
      BY <1>14 DEF Decide, GoTo
  <2>4. Top.at # "blocks"
      BY <1>14 DEF Decide, At
  <2>5. /\ f1 \in Frames /\ f1.taken = Top.taken
        /\ f2 \in Frames /\ f2.taken = Top.taken
        /\ f3 \in Frames /\ f3.taken = Top.taken
    <3>1. "exit" \in Places /\ "before" \in Places
        BY DEF Places
    <3>2. f1 \in Frames /\ f1.taken = Top.taken
        BY <2>2, <3>1 DEF Frames
    <3>3. f2 \in Frames /\ f2.taken = Top.taken
        BY <2>2, <3>1 DEF Frames
    <3>4. f3 \in Frames /\ f3.taken = Top.taken
        BY <2>2, <3>1 DEF Frames
    <3>5. QED
        BY <3>2, <3>3, <3>4
  <2> HIDE DEF f1, f2, f3
  <2>6. QED
      BY <2>1, <2>3, <2>4, <2>5
<1>15. QED
    BY <1>1, <1>2, <1>3, <1>4, <1>5, <1>6, <1>7, <1>8, <1>9, <1>10,
       <1>11, <1>12, <1>13, <1>14 DEF Passes, TypeInv

\* The passes take from what there is and leave the clients alone.
LEMMA PassesRest ==
  ASSUME Passes
  PROVE  /\ UNCHANGED <<sources, valid, threadVars>>
         /\ signalled' \subseteq signalled
         /\ modeStopped' \subseteq modeStopped /\ ports' \subseteq ports
<1> DEFINE Goal == /\ UNCHANGED <<sources, valid, threadVars>>
                   /\ signalled' \subseteq signalled
                   /\ modeStopped' \subseteq modeStopped
                   /\ ports' \subseteq ports
<1>1. ASSUME Enter \/ Before \/ Collect PROVE Goal
    BY <1>1 DEF Enter, Before, Collect, sourceVars
<1>2. ASSUME NEW s \in Sources, Perform(s) PROVE Goal
    BY <1>2 DEF Perform
<1>3. ASSUME SourcesDone \/ Poll \/ Sleep \/ Receive PROVE Goal
    BY <1>3 DEF SourcesDone, Poll, Sleep, Receive, sourceVars
<1>4. ASSUME Wake \/ After \/ Handle \/ Handled PROVE Goal
    BY <1>4 DEF Wake, After, Handle, Handled, sourceVars
<1>5. ASSUME EndCallout \/ Decide PROVE Goal
    BY <1>5 DEF EndCallout, Decide, sourceVars
<1>6. QED
    BY <1>1, <1>2, <1>3, <1>4, <1>5 DEF Passes

\* So they keep the types and the order.
LEMMA PassesKeepOrder ==
  ASSUME TypeInv, OrderInv, Passes
  PROVE  TypeInv' /\ OrderInv'
<1>1. /\ stack \in Seq(Frames) /\ stack # <<>> /\ UNCHANGED blockVars
      /\ \E f \in Frames : /\ SetTop(f) /\ f.taken = Top.taken
                           /\ (Top.at = "blocks" => f.at = "blocks")
    BY PassesFrame
<1>2. PICK f \in Frames : /\ SetTop(f) /\ f.taken = Top.taken
                          /\ (Top.at = "blocks" => f.at = "blocks")
    BY <1>1
<1>3. /\ stack' \in Seq(Frames) /\ Depth' = Depth /\ Top' = f
      /\ Depth \in Nat /\ Depth >= 1
      /\ \A d \in 1 .. Depth - 1 : stack'[d] = stack[d]
    BY <1>1, <1>2, TopSet
<1>4. TypeInv'
  <2>1. /\ UNCHANGED <<blocks, order, sources, valid, pc, arg, calls>>
        /\ signalled' \subseteq signalled
        /\ modeStopped' \subseteq modeStopped /\ ports' \subseteq ports
      BY <1>1, PassesRest DEF blockVars, threadVars
  <2>2. /\ signalled' \subseteq Sources /\ modeStopped' \subseteq Modes
        /\ ports' \subseteq PortNames
      BY <2>1 DEF TypeInv
  <2>3. /\ stack' \in Seq(Frames)
        /\ blocks' \in Seq(Blocks) /\ order' \in Seq(Blocks)
        /\ sources' \in [Modes -> SUBSET AllSources]
        /\ valid' \subseteq AllSources
      BY <1>3, <2>1 DEF TypeInv
  <2>4. /\ pc' \in [Threads -> {"idle", "wake", "insert", "discard"}]
        /\ arg' \in [Threads ->
                        (AllSources \cup {NULL}) \X (Modes \cup {NULL})]
        /\ calls' \in Nat
        /\ \A t \in Threads :
              pc'[t] = "insert" => arg'[t] \in AllSources \X Modes
      BY <2>1 DEF TypeInv
  <2>5. QED
      BY <2>2, <2>3, <2>4 DEF TypeInv
<1>5. Held(stack') = Held(stack)
  <2>1. /\ Held(stack) = Outer(stack) \o Top.taken
        /\ Held(stack') = Outer(stack) \o f.taken
      BY <1>1, <1>2, OuterKept
  <2>2. QED
      BY <1>2, <2>1
<1>6. \A d \in 1 .. Depth : stack'[d].taken # <<>> => stack'[d].at = "blocks"
  <2>1. stack'[Depth] = f
      BY <1>3 DEF Top
  <2>2. Top.taken # <<>> => Top.at = "blocks"
      BY <1>3 DEF OrderInv, Top
  <2>3. QED
      BY <1>2, <1>3, <2>1, <2>2 DEF OrderInv
<1>7. OrderInv'
    BY <1>1, <1>3, <1>5, <1>6 DEF OrderInv, blockVars
<1>8. QED
    BY <1>4, <1>7

\* CFRunLoopRunSpecific() starts with nothing in hand.
LEMMA RunKeepsOrder ==
  ASSUME TypeInv, OrderInv, NEW m \in Modes, NEW r \in Runs, Run(m, r[1], r[2])
  PROVE  TypeInv' /\ OrderInv'
<1> DEFINE f == Frame(m, r[1], r[2])
<1>1. f \in Frames /\ f.taken = <<>>
    BY NewFrame
<1>2. stack' = Append(stack, f) /\ stack \in Seq(Frames)
    BY DEF Run, TypeInv
<1> HIDE DEF f
<1>3. /\ stack' \in Seq(Frames) /\ Len(stack') = Len(stack) + 1
      /\ \A d \in 1 .. Len(stack) : stack'[d] = stack[d]
      /\ stack'[Len(stack) + 1] = f
    BY <1>1, <1>2, AppendProperties
<1>4. TypeInv'
    BY <1>3 DEF Run, TypeInv, blockVars, sourceVars, threadVars
<1>5. Held(stack') = Held(stack)
    BY <1>1, <1>2, HeldPushed
<1>6. \A d \in 1 .. Len(stack') :
         stack'[d].taken # <<>> => stack'[d].at = "blocks"
  <2>1. Len(stack) \in Nat
      BY <1>2, LenProperties
  <2>2. QED
      BY <1>1, <1>3, <2>1 DEF OrderInv, Depth
<1>7. OrderInv'
    BY <1>5, <1>6 DEF OrderInv, Run, blockVars, Depth
<1>8. QED
    BY <1>4, <1>7

\* It returns with nothing in hand.
LEMMA ExitKeepsOrder ==
  ASSUME TypeInv, OrderInv, Exit
  PROVE  TypeInv' /\ OrderInv'
<1>1. stack \in Seq(Frames) /\ stack # <<>> /\ Top.at = "exit"
      /\ stack' = Front(stack)
    BY DEF Exit, At, TypeInv
<1>2. Top.taken = <<>>
    BY <1>1, TopIn DEF OrderInv, Top
<1>3. /\ stack' \in Seq(Frames) /\ Len(stack') = Len(stack) - 1
      /\ \A d \in 1 .. Len(stack) - 1 : stack'[d] = stack[d]
      /\ Held(stack') = Held(stack)
    BY <1>1, <1>2, HeldPopped DEF Top, Depth
<1>4. Len(stack) \in Nat
    BY <1>1, LenProperties
<1>5. TypeInv'
    BY <1>3 DEF Exit, TypeInv, blockVars, sourceVars, threadVars
<1>6. OrderInv'
    BY <1>3, <1>4 DEF Exit, OrderInv, blockVars, Depth
<1>7. QED
    BY <1>5, <1>6

\* A run of blocks moves them between the list and the innermost hands.
LEMMA BlockFrame ==
  ASSUME TypeInv, OrderInv, stack # <<>>, NEW f \in Frames, SetTop(f),
         f.taken # <<>> => f.at = "blocks"
  PROVE  /\ stack' \in Seq(Frames) /\ Depth' = Depth
         /\ \A d \in 1 .. Depth :
               stack'[d].taken # <<>> => stack'[d].at = "blocks"
<1>1. /\ stack' \in Seq(Frames) /\ Depth' = Depth /\ Top' = f
      /\ Depth \in Nat /\ Depth >= 1
      /\ \A d \in 1 .. Depth - 1 : stack'[d] = stack[d]
    BY TopSet DEF TypeInv
<1>2. stack'[Depth] = f
    BY <1>1 DEF Top
<1>3. \A d \in 1 .. Depth - 1 : stack[d].taken # <<>> => stack[d].at = "blocks"
    BY <1>1 DEF OrderInv
<1>4. \A d \in 1 .. Depth - 1 :
         stack'[d].taken # <<>> => stack'[d].at = "blocks"
    BY <1>1, <1>3
<1>5. \A d \in 1 .. Depth : d \in 1 .. Depth - 1 \/ d = Depth
    BY <1>1
<1>6. QED
    BY <1>1, <1>2, <1>4, <1>5

\* The list goes into the hands of the innermost run, which had none ...
LEMMA TakeBlocksKeepsOrder ==
  ASSUME TypeInv, OrderInv, TakeBlocks
  PROVE  TypeInv' /\ OrderInv'
<1> DEFINE loc == IF blocks = <<>> THEN AfterBlocks ELSE "blocks"
           f == [Top EXCEPT !.taken = blocks, !.at = loc]
<1>1. stack \in Seq(Frames) /\ stack # <<>> /\ Top.at = "take"
    BY DEF TakeBlocks, At, TypeInv
<1>2. Top \in Frames /\ Depth \in Nat /\ Depth >= 1
    BY <1>1, TopIn
<1>3. f \in Frames /\ f.taken = blocks /\ (blocks # <<>> => f.at = "blocks")
    BY <1>2 DEF Frames, Places, TypeInv, AfterBlocks
<1>4. SetTop(f) /\ blocks' = <<>> /\ order' = order
    BY DEF TakeBlocks
<1> HIDE DEF f
<1>5. /\ stack' \in Seq(Frames) /\ Depth' = Depth
      /\ \A d \in 1 .. Depth :
            stack'[d].taken # <<>> => stack'[d].at = "blocks"
    BY <1>1, <1>3, <1>4, BlockFrame
<1>6. TypeInv'
    BY <1>4, <1>5, EmptySeq DEF TakeBlocks, TypeInv, sourceVars, threadVars
<1>7. Top.taken = <<>>
    BY <1>1, <1>2 DEF OrderInv, Top
<1>8. /\ Held(stack) = Outer(stack) \o <<>> /\ Outer(stack) \in Seq(Blocks)
      /\ Held(stack') = Outer(stack) \o blocks
    BY <1>1, <1>3, <1>4, <1>7, OuterKept
<1>9. Held(stack') \o <<>> = Held(stack) \o blocks
  <2>1. Held(stack) = Outer(stack)
      BY <1>8, ConcatEmptySeq
  <2>2. Held(stack') \in Seq(Blocks)
      BY <1>5, HeldType
  <2>3. QED
      BY <1>8, <2>1, <2>2, ConcatEmptySeq
<1>10. OrderInv'
    BY <1>4, <1>5, <1>9 DEF OrderInv
<1>11. QED
    BY <1>6, <1>10

\* ... what is left goes back in front of what came meanwhile ...
LEMMA PutBackKeepsOrder ==
  ASSUME TypeInv, OrderInv, PutBack
  PROVE  TypeInv' /\ OrderInv'
<1> DEFINE f == [Top EXCEPT !.taken = <<>>, !.at = AfterBlocks]
<1>1. stack \in Seq(Frames) /\ stack # <<>> /\ Top.at = "blocks"
    BY DEF PutBack, At, TypeInv
<1>2. Top \in Frames /\ Top.taken \in Seq(Blocks)
    BY <1>1, TopIn DEF Frames
<1>3. f \in Frames /\ f.taken = <<>>
    BY <1>2, EmptySeq DEF Frames, Places, AfterBlocks
<1>4. SetTop(f) /\ blocks' = Top.taken \o blocks /\ order' = order
    BY DEF PutBack
<1> HIDE DEF f
<1>5. /\ stack' \in Seq(Frames) /\ Depth' = Depth
      /\ \A d \in 1 .. Depth :
            stack'[d].taken # <<>> => stack'[d].at = "blocks"
    BY <1>1, <1>3, <1>4, BlockFrame
<1>6. blocks' \in Seq(Blocks)
    BY <1>2, <1>4, ConcatProperties DEF TypeInv
<1>7. TypeInv'
    BY <1>4, <1>5, <1>6 DEF PutBack, TypeInv, sourceVars, threadVars
<1>8. /\ Held(stack) = Outer(stack) \o Top.taken
      /\ Outer(stack) \in Seq(Blocks)
      /\ Held(stack') = Outer(stack) \o <<>>
    BY <1>1, <1>3, <1>4, OuterKept
<1>9. Held(stack') \o blocks' = Held(stack) \o blocks
  <2>1. Held(stack') = Outer(stack)
      BY <1>8, ConcatEmptySeq
  <2>2. blocks \in Seq(Blocks)
      BY DEF TypeInv
  <2> DEFINE u == Outer(stack)
             v == Top.taken
  <2>3. u \in Seq(Blocks) /\ v \in Seq(Blocks)
      BY <1>2, <1>8
  <2> HIDE DEF u, v
  <2>4. u \o (v \o blocks) = (u \o v) \o blocks
      BY <2>2, <2>3, ConcatAssociative
  <2>5. QED
      BY <1>4, <1>8, <2>1, <2>4 DEF u, v
<1>10. OrderInv'
    BY <1>4, <1>5, <1>9 DEF OrderInv
<1>11. QED
    BY <1>7, <1>10

\* ... and the block called is the one struck off.
LEMMA RunBlockKeepsOrder ==
  ASSUME TypeInv, OrderInv, RunBlock
  PROVE  TypeInv' /\ OrderInv'
<1> DEFINE i == CHOOSE n \in Eligible : \A k \in Eligible : n <= k
           f == [Top EXCEPT !.taken = RemoveAt(@, i), !.calling = Top.taken[i]]
           p == Len(Outer(stack)) + i
<1>1. stack \in Seq(Frames) /\ stack # <<>> /\ Top.at = "blocks"
      /\ Eligible # {}
    BY DEF RunBlock, At, TypeInv
<1>2. Top \in Frames /\ Top.taken \in Seq(Blocks)
    BY <1>1, TopIn DEF Frames
<1>3. i \in 1 .. Len(Top.taken)
      /\ RemoveAt(Top.taken, i) \in Seq(Blocks) /\ Top.taken[i] \in Blocks
    BY <1>1, <1>2, NextBlock
<1>4. i \in 1 .. Len(Top.taken)
    BY <1>3
<1>5. RemoveAt(Top.taken, i) \in Seq(Blocks) /\ Top.taken[i] \in Blocks
    BY <1>3
<1>6. /\ SetTop(f) /\ order' = RemoveFirst(order, Top.taken[i])
      /\ blocks' = blocks
    BY DEF RunBlock
<1> HIDE DEF i
<1>7. f \in Frames /\ f.taken = RemoveAt(Top.taken, i) /\ f.at = "blocks"
    BY <1>1, <1>2, <1>5 DEF Frames
<1> HIDE DEF f
<1>8. /\ stack' \in Seq(Frames) /\ Depth' = Depth
      /\ \A d \in 1 .. Depth :
            stack'[d].taken # <<>> => stack'[d].at = "blocks"
    BY <1>1, <1>6, <1>7, BlockFrame
<1>9. /\ Held(stack) = Outer(stack) \o Top.taken
      /\ Outer(stack) \in Seq(Blocks)
      /\ Held(stack') = Outer(stack) \o RemoveAt(Top.taken, i)
    BY <1>1, <1>6, <1>7, OuterKept
<1>10. order = (Outer(stack) \o Top.taken) \o blocks
       /\ order \in Seq(Blocks) /\ blocks \in Seq(Blocks)
    BY <1>9 DEF OrderInv, TypeInv
<1>11. /\ p \in 1 .. Len(order) /\ order[p] = Top.taken[i]
       /\ RemoveAt(order, p)
            = (Outer(stack) \o RemoveAt(Top.taken, i)) \o blocks
  <2> DEFINE u == Outer(stack)
             v == Top.taken
  <2>1. u \in Seq(Blocks) /\ v \in Seq(Blocks) /\ blocks \in Seq(Blocks)
        /\ i \in 1 .. Len(v) /\ order = (u \o v) \o blocks
      BY <1>2, <1>4, <1>9, <1>10
  <2> HIDE DEF u, v
  <2>2. RemovedInside(u, v, blocks, i)
      BY <2>1, RemoveInside
  <2>3. /\ Len(u) + i \in 1 .. Len(order) /\ order[Len(u) + i] = v[i]
        /\ RemoveAt(order, Len(u) + i) = (u \o RemoveAt(v, i)) \o blocks
      BY <2>1, <2>2 DEF RemovedInside
  <2>4. QED
      BY <2>3 DEF u, v
<1> HIDE DEF p
<1>12. order' = RemoveAt(order, p)
  <2>1. \A j \in 1 .. Len(order) : order[j] = order[p] => j = p
      BY <1>11 DEF OrderInv
  <2>2. QED
      BY <1>6, <1>10, <1>11, <2>1, RemoveFirstIs
<1>13. order' = Held(stack') \o blocks'
    BY <1>6, <1>9, <1>11, <1>12
<1>14. /\ order' \in Seq(Blocks) /\ Len(order') = Len(order) - 1
       /\ \A k \in 1 .. Len(order) - 1 :
             order'[k] = IF k < p THEN order[k] ELSE order[k + 1]
    BY <1>10, <1>11, <1>12, RemoveAtIs
<1>15. TypeInv'
    BY <1>6, <1>8, <1>10, <1>14 DEF RunBlock, TypeInv, sourceVars, threadVars
<1>16. \A j, k \in 1 .. Len(order') : order'[j] = order'[k] => j = k
  <2> DEFINE Old(n) == IF n < p THEN n ELSE n + 1
  <2>1. Len(order) \in Nat /\ p \in Nat
      BY <1>10, <1>11, LenProperties
  <2>2. SUFFICES ASSUME NEW j \in 1 .. Len(order'), NEW k \in 1 .. Len(order'),
                        order'[j] = order'[k]
                 PROVE  j = k
      OBVIOUS
  <2>3. j \in 1 .. Len(order) - 1 /\ k \in 1 .. Len(order) - 1
      BY <1>14
  <2>4. Old(j) \in 1 .. Len(order) /\ Old(k) \in 1 .. Len(order)
      BY <2>1, <2>3
  <2>5. order'[j] = order[Old(j)] /\ order'[k] = order[Old(k)]
      BY <1>14, <2>3
  <2>6. Old(j) = Old(k)
    <3>1. \A a, b \in 1 .. Len(order) : order[a] = order[b] => a = b
        BY DEF OrderInv
    <3> HIDE DEF Old
    <3>2. QED
        BY <2>2, <2>4, <2>5, <3>1
  <2>7. QED
      BY <2>1, <2>3, <2>6
<1>17. OrderInv'
    BY <1>8, <1>13, <1>16 DEF OrderInv
<1>18. QED
    BY <1>15, <1>17

\* What is known of the other threads.
ThreadsInv ==
    /\ pc \in [Threads -> {"idle", "wake", "insert", "discard"}]
    /\ arg \in [Threads -> (AllSources \cup {NULL}) \X (Modes \cup {NULL})]
    /\ calls \in Nat
    /\ \A t \in Threads : pc[t] = "insert" => arg[t] \in AllSources \X Modes

\* A client that goes somewhere keeps the types ...
LEMMA ThenType ==
  ASSUME ThreadsInv, NEW t \in Threads,
         NEW loc \in {"idle", "wake", "insert", "discard"},
         NEW s \in AllSources \cup {NULL}, NEW m \in Modes \cup {NULL},
         loc = "insert" => s \in AllSources /\ m \in Modes,
         ThenOn(t, loc, s, m)
  PROVE  ThreadsInv'
<1>1. /\ pc' = [pc EXCEPT ![t] = loc] /\ arg' = [arg EXCEPT ![t] = <<s, m>>]
      /\ calls' = IF pc[t] = "idle" THEN calls + 1 ELSE calls
    BY DEF ThenOn
<1>2. calls' \in Nat
    BY <1>1 DEF ThreadsInv
<1>3. pc' \in [Threads -> {"idle", "wake", "insert", "discard"}]
    BY <1>1 DEF ThreadsInv
<1>4. arg' \in [Threads -> (AllSources \cup {NULL}) \X (Modes \cup {NULL})]
    BY <1>1 DEF ThreadsInv
<1>5. ASSUME NEW u \in Threads, pc'[u] = "insert"
      PROVE  arg'[u] \in AllSources \X Modes
  <2>1. CASE u = t
    <3>1. pc'[u] = loc /\ arg'[u] = <<s, m>>
        BY <1>1, <2>1 DEF ThreadsInv
    <3>2. QED
        BY <1>5, <3>1
  <2>2. CASE u # t
      BY <1>1, <1>5, <2>2 DEF ThreadsInv
  <2>3. QED
      BY <2>1, <2>2
<1>6. QED
    BY <1>2, <1>3, <1>4, <1>5 DEF ThreadsInv

\* ... also when it is only to wake the loop up, or done.
LEMMA ThenWake ==
  ASSUME ThreadsInv, NEW t \in Threads, NEW loc \in {"idle", "wake"},
         Then(t, loc)
  PROVE  ThreadsInv'
<1>1. ThenOn(t, loc, NULL, NULL)
    BY DEF Then
<1>2. NULL \in AllSources \cup {NULL} /\ NULL \in Modes \cup {NULL}
      /\ loc # "insert" /\ loc \in {"idle", "wake", "insert", "discard"}
    OBVIOUS
<1>3. QED
    BY <1>1, <1>2, ThenType

\* The steps of a client that leave the stack and the blocks alone.
ClientSteps(t) ==
    \/ WakeUp(t) \/ Insert(t) \/ Discard(t)
    \/ \E m \in Modes : StopMode(t, m)
    \/ \E s \in AllSources :
          \/ Invalidate(t, s)
          \/ \E m \in Where[s] : AddSource(t, s, m) \/ RemoveSource(t, s, m)
    \/ \E s \in Sources : Signal(t, s)
    \/ \E p \in PortSources \cup {"main"} : Send(t, p)

\* They keep the types.
LEMMA ClientStepsType ==
  ASSUME TypeInv, NEW t \in Threads, ClientSteps(t)
  PROVE  TypeInv' /\ UNCHANGED <<stack, blocks, order>>
<1> DEFINE Rest == /\ sources' \in [Modes -> SUBSET AllSources]
                   /\ valid' \subseteq AllSources
                   /\ signalled' \subseteq Sources
                   /\ modeStopped' \subseteq Modes
                   /\ ports' \subseteq PortNames
           Goal == Rest /\ ThreadsInv' /\ UNCHANGED <<stack, blocks, order>>
<1>1. ThreadsInv
    BY DEF ThreadsInv, TypeInv
<1>2. ASSUME WakeUp(t) PROVE Goal
  <2>1. Rest /\ Then(t, "idle") /\ UNCHANGED <<stack, blocks, order>>
      BY <1>2 DEF WakeUp, TypeInv, PortNames, sourceVars, blockVars
  <2>2. QED
      BY <1>1, <2>1, ThenWake
<1>3. ASSUME Insert(t) PROVE Goal
  <2>1. Then(t, "wake") /\ UNCHANGED <<stack, blocks, order>>
      BY <1>3 DEF Insert, blockVars
  <2>2. arg[t] \in AllSources \X Modes
      BY <1>3 DEF Insert, TypeInv
  <2>3. sources' \in [Modes -> SUBSET AllSources]
    <3>1. arg[t][1] \in AllSources /\ arg[t][2] \in Modes
        BY <2>2
    <3>2. sources' = [sources EXCEPT ![arg[t][2]] = @ \cup {arg[t][1]}]
        BY <1>3 DEF Insert
    <3>3. sources \in [Modes -> SUBSET AllSources]
        BY DEF TypeInv
    <3>4. QED
        BY <3>1, <3>2, <3>3
  <2>4. Rest
      BY <1>3, <2>3 DEF Insert, TypeInv
  <2>5. QED
      BY <1>1, <2>1, <2>4, ThenWake
<1>4. ASSUME Discard(t) PROVE Goal
  <2>1. Rest /\ Then(t, "wake") /\ UNCHANGED <<stack, blocks, order>>
      BY <1>4 DEF Discard, TypeInv, blockVars
  <2>2. QED
      BY <1>1, <2>1, ThenWake
<1>5. ASSUME NEW m \in Modes, StopMode(t, m) PROVE Goal
  <2>1. Rest /\ Then(t, "wake") /\ UNCHANGED <<stack, blocks, order>>
      BY <1>5 DEF StopMode, TypeInv, sourceVars, blockVars
  <2>2. QED
      BY <1>1, <2>1, ThenWake
<1>6. ASSUME NEW s \in AllSources, Invalidate(t, s) PROVE Goal
  <2>1. Rest /\ UNCHANGED <<stack, blocks, order>>
      BY <1>6 DEF Invalidate, TypeInv, blockVars
  <2>2. ThenOn(t, "discard", s, NULL) \/ UNCHANGED threadVars
      BY <1>6 DEF Invalidate
  <2>3. CASE ThenOn(t, "discard", s, NULL)
    <3>1. ThreadsInv'
        BY <1>1, <2>3, ThenType
    <3>2. QED
        BY <2>1, <3>1
  <2>4. CASE UNCHANGED threadVars
    <3>1. ThreadsInv'
        BY <1>1, <2>4 DEF ThreadsInv, threadVars
    <3>2. QED
        BY <2>1, <3>1
  <2>5. QED
      BY <2>2, <2>3, <2>4
<1>7. ASSUME NEW s \in AllSources, NEW m \in Where[s], AddSource(t, s, m)
      PROVE  Goal
  <2>1. Rest /\ ThenOn(t, "insert", s, m) /\ UNCHANGED <<stack, blocks, order>>
      BY <1>7 DEF AddSource, TypeInv, sourceVars, blockVars
  <2>2. m \in Modes
      BY RunLoopAssumption DEF AllSources
  <2>3. ThreadsInv'
      BY <1>1, <2>1, <2>2, ThenType
  <2>4. QED
      BY <2>1, <2>3
<1>8. ASSUME NEW s \in AllSources, NEW m \in Where[s], RemoveSource(t, s, m)
      PROVE  Goal
  <2>1. Then(t, "wake") /\ UNCHANGED <<stack, blocks, order>>
      BY <1>8 DEF RemoveSource, blockVars
  <2>2. sources' \in [Modes -> SUBSET AllSources]
      BY <1>8 DEF RemoveSource, TypeInv
  <2>3. Rest
      BY <1>8, <2>2 DEF RemoveSource, TypeInv
  <2>4. QED
      BY <1>1, <2>1, <2>3, ThenWake
<1>9. ASSUME NEW s \in Sources, Signal(t, s) PROVE Goal
  <2>1. Rest /\ Then(t, "wake") /\ UNCHANGED <<stack, blocks, order>>
      BY <1>9 DEF Signal, TypeInv, blockVars
  <2>2. QED
      BY <1>1, <2>1, ThenWake
<1>10. ASSUME NEW p \in PortSources \cup {"main"}, Send(t, p) PROVE Goal
  <2>1. Rest /\ Then(t, "idle") /\ UNCHANGED <<stack, blocks, order>>
      BY <1>10 DEF Send, TypeInv, PortNames, sourceVars, blockVars
  <2>2. QED
      BY <1>1, <2>1, ThenWake
<1>11. Goal
    BY <1>2, <1>3, <1>4, <1>5, <1>6, <1>7, <1>8, <1>9, <1>10 DEF ClientSteps
<1>12. TypeInv'
    BY <1>11 DEF TypeInv, ThreadsInv
<1>13. QED
    BY <1>11, <1>12

\* They keep the order.
LEMMA ClientStepsKeepOrder ==
  ASSUME TypeInv, OrderInv, NEW t \in Threads, ClientSteps(t)
  PROVE  TypeInv' /\ OrderInv'
<1>1. TypeInv' /\ UNCHANGED <<stack, blocks, order>>
    BY ClientStepsType
<1>2. OrderInv'
    BY <1>1 DEF OrderInv, Held, Hands, Depth
<1>3. QED
    BY <1>1, <1>2

\* A time limit or a stop marks a frame and leaves what it has in hand.
LEMMA MarkKeepsOrder ==
  ASSUME TypeInv, OrderInv, NEW t \in Threads,
         Stop(t) \/ \E d \in 1 .. MaxDepth : Expire(t, d)
  PROVE  TypeInv' /\ OrderInv'
<1> DEFINE Marked == /\ stack' \in Seq(Frames) /\ Len(stack') = Len(stack)
                     /\ \A k \in 1 .. Len(stack) :
                           /\ stack'[k].taken = stack[k].taken
                           /\ stack'[k].at = stack[k].at
<1>1. stack \in Seq(Frames) /\ Len(stack) \in Nat
    BY LenProperties DEF TypeInv
<1>2. \A k \in 1 .. Len(stack) : stack[k] \in Frames
    BY <1>1, ElementOfSeq
<1>3. ASSUME Stop(t) PROVE Marked
  <2> DEFINE f == [Top EXCEPT !.stopped = TRUE]
  <2>1. stack # <<>> /\ SetTop(f)
      BY <1>3 DEF Stop
  <2>2. Top \in Frames /\ Depth \in Nat /\ Depth >= 1
      BY <1>1, <2>1, TopIn
  <2>3. f \in Frames /\ f.taken = Top.taken /\ f.at = Top.at
      BY <2>2 DEF Frames
  <2> HIDE DEF f
  <2>4. /\ stack' \in Seq(Frames) /\ Depth' = Depth /\ Top' = f
        /\ \A k \in 1 .. Depth - 1 : stack'[k] = stack[k]
      BY <1>1, <2>1, <2>3, TopSet
  <2>5. QED
      BY <2>2, <2>3, <2>4 DEF Depth, Top
<1>4. ASSUME NEW d \in 1 .. MaxDepth, Expire(t, d) PROVE Marked
  <2> DEFINE f == [stack[d] EXCEPT !.expired = TRUE]
  <2>1. d \in 1 .. Len(stack) /\ stack' = [stack EXCEPT ![d] = f]
      BY <1>1, <1>4, RunLoopAssumption DEF Expire, Depth
  <2>2. f \in Frames /\ f.taken = stack[d].taken /\ f.at = stack[d].at
      BY <1>2, <2>1 DEF Frames
  <2> HIDE DEF f
  <2>3. /\ stack' \in Seq(Frames) /\ Len(stack') = Len(stack)
        /\ \A k \in 1 .. Len(stack) : stack'[k] = IF k = d THEN f ELSE stack[k]
      BY <1>1, <2>1, <2>2, ExceptSeq
  <2>4. QED
      BY <2>2, <2>3
<1>5. Marked
    BY <1>3, <1>4
<1>6. Hands(stack', Len(stack')) = Hands(stack, Len(stack))
    BY <1>5 DEF Hands
<1>7. Then(t, "wake")
      /\ UNCHANGED <<blocks, order, sources, valid, signalled>>
      /\ UNCHANGED <<modeStopped, ports>>
    BY DEF Stop, Expire, blockVars, sourceVars
<1>8. ThreadsInv'
    BY <1>7, ThenWake DEF ThreadsInv, TypeInv
<1>9. TypeInv'
    BY <1>5, <1>7, <1>8 DEF TypeInv, ThreadsInv
<1>10. OrderInv'
    BY <1>5, <1>6, <1>7 DEF OrderInv, Held, Depth
<1>11. QED
    BY <1>9, <1>10

\* A block goes to the end of the list.
LEMMA PerformBlockKeepsOrder ==
  ASSUME TypeInv, OrderInv, NEW t \in Threads, NEW b \in Blocks,
         PerformBlock(t, b)
  PROVE  TypeInv' /\ OrderInv'
<1>1. /\ blocks' = Append(blocks, b) /\ order' = Append(order, b)
      /\ Then(t, "wake") /\ b \notin ToSet(order)
      /\ UNCHANGED <<stack, sources, valid, signalled, modeStopped, ports>>
    BY DEF PerformBlock, sourceVars
<1>2. blocks \in Seq(Blocks) /\ order \in Seq(Blocks) /\ stack \in Seq(Frames)
    BY DEF TypeInv
<1>3. /\ blocks' \in Seq(Blocks) /\ blocks' = blocks \o <<b>>
      /\ order' \in Seq(Blocks) /\ order' = order \o <<b>>
      /\ Len(order') = Len(order) + 1 /\ order'[Len(order) + 1] = b
      /\ \A k \in 1 .. Len(order) : order'[k] = order[k]
    BY <1>1, <1>2, AppendProperties, AppendIsConcat
<1>4. ThreadsInv'
    BY <1>1, ThenWake DEF ThreadsInv, TypeInv
<1>5. TypeInv'
    BY <1>1, <1>3, <1>4 DEF TypeInv, ThreadsInv
<1>6. \A k \in 1 .. Len(order) : order[k] # b
    BY <1>1, <1>2, LenProperties DEF ToSet
<1>7. \A j, k \in 1 .. Len(order') : order'[j] = order'[k] => j = k
  <2>1. Len(order) \in Nat
      BY <1>2, LenProperties
  <2>2. QED
      BY <1>3, <1>6, <2>1 DEF OrderInv
<1>8. order' = Held(stack') \o blocks'
  <2> DEFINE h == Held(stack)
             c == <<b>>
  <2>1. h \in Seq(Blocks) /\ c \in Seq(Blocks)
      BY <1>2, HeldType
  <2>2. order' = (h \o blocks) \o c /\ blocks' = blocks \o c
      BY <1>3 DEF OrderInv
  <2>3. Held(stack') = h
      BY <1>1
  <2> HIDE DEF h, c
  <2>4. \A x, y, z \in Seq(Blocks) : (x \o y) \o z = x \o (y \o z)
      BY ConcatAssociative
  <2>5. (h \o blocks) \o c = h \o (blocks \o c)
      BY <1>2, <2>1, <2>4
  <2>6. QED
      BY <2>2, <2>3, <2>5
<1>9. OrderInv'
    BY <1>1, <1>7, <1>8 DEF OrderInv, Depth
<1>10. QED
    BY <1>5, <1>9

\* The steps there are.
LEMMA NextSplit ==
  ASSUME Next
  PROVE  \/ \E m \in Modes, r \in Runs : Run(m, r[1], r[2])
         \/ Passes \/ TakeBlocks \/ RunBlock \/ PutBack \/ Exit
         \/ \E t \in Threads : \/ ClientSteps(t) \/ Stop(t)
                               \/ \E d \in 1 .. MaxDepth : Expire(t, d)
                               \/ \E b \in Blocks : PerformBlock(t, b)
  BY DEF Next, LoopStep, Call, Finish, Passes, ClientSteps, AllSources

\* Every step keeps types and order.
LEMMA OrderStep ==
  ASSUME TypeInv, OrderInv, [Next]_loopVars
  PROVE  TypeInv' /\ OrderInv'
<1>1. CASE Next
  <2>1. ASSUME NEW m \in Modes, NEW r \in Runs, Run(m, r[1], r[2])
        PROVE  TypeInv' /\ OrderInv'
      BY <2>1, RunKeepsOrder
  <2>2. ASSUME NEW t \in Threads, NEW b \in Blocks, PerformBlock(t, b)
        PROVE  TypeInv' /\ OrderInv'
      BY <2>2, PerformBlockKeepsOrder
  <2>3. QED
      BY <1>1, <2>1, <2>2, NextSplit, PassesKeepOrder, TakeBlocksKeepsOrder,
         RunBlockKeepsOrder, PutBackKeepsOrder, ExitKeepsOrder,
         ClientStepsKeepOrder, MarkKeepsOrder
<1>2. CASE UNCHANGED loopVars
    BY <1>2 DEF loopVars, blockVars, sourceVars, threadVars, TypeInv, OrderInv,
       Held, Hands, Depth
<1>3. QED
    BY <1>1, <1>2

\* They hold at the start.
LEMMA OrderInit ==
  ASSUME Init
  PROVE  TypeInv /\ OrderInv
<1>1. TypeInv
    BY RunLoopAssumption, EmptySeq DEF Init, TypeInv, AllSources
<1>2. Held(stack) \o blocks = <<>>
    BY HeldEmpty, ConcatEmptySeq, EmptySeq DEF Init
<1>3. OrderInv
    BY <1>2, EmptySeq DEF Init, OrderInv, Depth
<1>4. QED
    BY <1>1, <1>3

\* They hold always.
LEMMA Ordered == Spec => [](TypeInv /\ OrderInv)
<1>1. Init => TypeInv /\ OrderInv
    BY OrderInit
<1>2. (TypeInv /\ OrderInv) /\ [Next]_loopVars => (TypeInv /\ OrderInv)'
    BY OrderStep
<1>3. QED
    BY <1>1, <1>2, PTL DEF Spec

\* Every variable of the run loop keeps its type (CFRunLoop.c, __CFRunLoop and
\* the locals of CFRunLoopRunSpecific() and __CFRunLoopRun()).
THEOREM LoopTypeCorrect == Spec => []TypeInv
  BY Ordered, PTL

\* The list of blocks, taken by a run and put back in front of what was
\* submitted meanwhile, is at any moment what has not run of the blocks
\* submitted, in their order, however runs are nested (__CFRunLoopDoBlocks()).
THEOREM BlocksInOrder == Spec => []BlocksKeptInOrder
<1>1. OrderInv => BlocksKeptInOrder
    BY DEF OrderInv, BlocksKeptInOrder, Held, Hands, Depth
<1>2. QED
    BY <1>1, Ordered, PTL

-----------------------------------------------------------------------------
(* No work is slept through                                                *)

\* The run looks at all there is again before it sleeps: it is awake, or has
\* handled something, or will only poll.
Rounds(f) ==
    \/ f.at \in {"woken", "after", "handle", "main", "port", "decide", "exit"}
    \/ f.at \in {"take", "blocks"} /\ f.pass = 3
    \/ f.at \in {"before", "take", "blocks", "collect", "sources", "poll"}
          /\ f.handled
    \/ f.at = "asleep" /\ f.poll

\* A wake-up is in its port, or a client is about to send it.
Coming == "wakeup" \in ports \/ \E t \in Threads : pc[t] = "wake"

\* The pass has not come to the blocks yet.
Early(f) == f.at \in {"entry", "before"} \/ (f.at = "take" /\ f.pass = 1)

\* What the run has looked at in its pass was not there.
Attended(f) ==
    /\ f.stopped \/ f.mode \in modeStopped => f.at = "entry"
    /\ f.expired => f.at \notin {"waiting", "asleep"}
    /\ ~Early(f) => Runnable(f.mode) = {}
    /\ \A s \in sources[f.mode] \cap signalled \cap valid :
          \/ Early(f) \/ f.at \in {"blocks", "collect"}
          \/ f.at = "sources" /\ s \in f.todo

\* What each activation knows of itself; wake-ups are only ignored by a run
\* that looks again.
FrameInv(f) ==
    /\ (f.at \in {"take", "blocks"} /\ f.pass = 2 => f.handled)
    /\ (f.at = "sources" /\ f.calling # NULL => f.handled)
    /\ f.at \in {"main", "port"} => f.pass = 3
    /\ f.ignoring => Rounds(f)

\* The runs outside the innermost look again; so does the innermost, or else
\* a wake-up is coming or there was nothing to attend to.
WakeInv ==
    /\ \A d \in 1 .. Depth : FrameInv(stack[d])
    /\ \A d \in 1 .. Depth - 1 : Rounds(stack[d])
    /\ stack # <<>> => Rounds(Top) \/ Coming \/ Attended(Top)

\* It is enough to look at the innermost frame when only that one changes.
LEMMA TopWake ==
  ASSUME TypeInv, WakeInv, stack # <<>>, NEW f \in Frames, SetTop(f),
         FrameInv(f), Rounds(f) \/ Coming' \/ Attended(Top)'
  PROVE  WakeInv'
<1>1. /\ Depth' = Depth /\ Top' = f /\ Depth \in Nat /\ Depth >= 1
      /\ \A d \in 1 .. Depth - 1 : stack'[d] = stack[d]
    BY TopSet DEF TypeInv
<1>2. stack'[Depth] = f
    BY <1>1 DEF Top
<1>3. \A d \in 1 .. Depth : FrameInv(stack'[d])
  <2>1. \A d \in 1 .. Depth - 1 : FrameInv(stack'[d])
      BY <1>1 DEF WakeInv
  <2>2. \A d \in 1 .. Depth : d = Depth \/ d \in 1 .. Depth - 1
      BY <1>1
  <2>3. QED
      BY <1>2, <2>1, <2>2
<1>4. \A d \in 1 .. Depth - 1 : Rounds(stack'[d])
    BY <1>1 DEF WakeInv
<1>5. QED
    BY <1>1, <1>3, <1>4 DEF WakeInv

\* What holds of the innermost frame.
LEMMA TopFacts ==
  ASSUME TypeInv, WakeInv, stack # <<>>
  PROVE  /\ stack \in Seq(Frames) /\ Top \in Frames /\ FrameInv(Top)
         /\ Rounds(Top) \/ Coming \/ Attended(Top)
<1>1. stack \in Seq(Frames) /\ Top \in Frames /\ Depth \in Nat /\ Depth >= 1
    BY TopIn DEF TypeInv
<1>2. QED
    BY <1>1 DEF WakeInv, Top

\* A pass begins with the blocks.
LEMMA BeforeWakes ==
  ASSUME TypeInv, WakeInv, Before
  PROVE  WakeInv'
<1> DEFINE f == [Top EXCEPT !.at = "take", !.pass = 1]
<1>1. stack # <<>>
    BY DEF Before, At
<1>2. /\ stack \in Seq(Frames) /\ Top \in Frames /\ FrameInv(Top)
      /\ Rounds(Top) \/ Coming \/ Attended(Top)
    BY <1>1, TopFacts
<1>3. SetTop(f)
    BY DEF Before, GoTo
<1>4. f \in Frames
    BY <1>2 DEF Frames, Places
<1>5. FrameInv(f)
    BY <1>2 DEF Before, At, FrameInv, Rounds, Frames
<1>6. Top' = f
    BY <1>1, <1>2, <1>3, <1>4, TopSet
<1>7. Rounds(f) \/ Coming' \/ Attended(Top)'
    BY <1>2, <1>6 DEF Before, At, FrameInv, Rounds, Coming, Attended,
       Early, Frames, Runnable, blockVars, sourceVars, threadVars
<1> HIDE DEF f
<1>8. QED
    BY <1>1, <1>3, <1>4, <1>5, <1>7, TopWake

\* The sources that are signalled are collected.
LEMMA CollectWakes ==
  ASSUME TypeInv, WakeInv, Collect
  PROVE  WakeInv'
<1> DEFINE ready == sources[Top.mode] \cap Sources \cap valid \cap signalled
           f == [Top EXCEPT !.todo = ready,
                            !.at = IF ready = {} THEN "poll" ELSE "sources"]
<1>1. stack # <<>>
    BY DEF Collect, At
<1>2. /\ stack \in Seq(Frames) /\ Top \in Frames /\ FrameInv(Top)
      /\ Rounds(Top) \/ Coming \/ Attended(Top)
    BY <1>1, TopFacts
<1>3. SetTop(f)
    BY DEF Collect, GoTo
<1>4. f \in Frames
    BY <1>2 DEF Frames, Places
<1>5. FrameInv(f)
    BY <1>2 DEF Collect, At, FrameInv, Rounds, Frames
<1>6. Top' = f
    BY <1>1, <1>2, <1>3, <1>4, TopSet
<1>7. Rounds(f) \/ Coming' \/ Attended(Top)'
    BY <1>2, <1>6 DEF Collect, At, FrameInv, Rounds, Coming, Attended,
       Early, Frames, Runnable, blockVars, sourceVars, threadVars, TypeInv
<1> HIDE DEF f
<1>8. QED
    BY <1>1, <1>3, <1>4, <1>5, <1>7, TopWake

\* A run that performed a source looks again; another found none.
LEMMA SourcesDoneWakes ==
  ASSUME TypeInv, WakeInv, SourcesDone
  PROVE  WakeInv'
<1> DEFINE f == [Top EXCEPT !.at = IF Top.handled THEN "take" ELSE "poll",
                            !.pass = 2]
<1>1. stack # <<>>
    BY DEF SourcesDone, At
<1>2. /\ stack \in Seq(Frames) /\ Top \in Frames /\ FrameInv(Top)
      /\ Rounds(Top) \/ Coming \/ Attended(Top)
    BY <1>1, TopFacts
<1>3. SetTop(f)
    BY DEF SourcesDone, GoTo
<1>4. f \in Frames
    BY <1>2 DEF Frames, Places
<1>5. FrameInv(f)
    BY <1>2 DEF SourcesDone, At, FrameInv, Rounds, Frames
<1>6. Top' = f
    BY <1>1, <1>2, <1>3, <1>4, TopSet
<1>7. Rounds(f) \/ Coming' \/ Attended(Top)'
    BY <1>2, <1>6 DEF SourcesDone, At, FrameInv, Rounds, Coming, Attended,
       Early, Frames, Runnable, blockVars, sourceVars, threadVars
<1> HIDE DEF f
<1>8. QED
    BY <1>1, <1>3, <1>4, <1>5, <1>7, TopWake

\* Between the observers of the sleep and the sleep.
LEMMA SleepWakes ==
  ASSUME TypeInv, WakeInv, Sleep
  PROVE  WakeInv'
<1> DEFINE f == [Top EXCEPT !.at = "asleep"]
<1>1. stack # <<>>
    BY DEF Sleep, At
<1>2. /\ stack \in Seq(Frames) /\ Top \in Frames /\ FrameInv(Top)
      /\ Rounds(Top) \/ Coming \/ Attended(Top)
    BY <1>1, TopFacts
<1>3. SetTop(f)
    BY DEF Sleep, GoTo
<1>4. f \in Frames
    BY <1>2 DEF Frames, Places
<1>5. FrameInv(f)
    BY <1>2 DEF Sleep, At, FrameInv, Rounds, Frames
<1>6. Top' = f
    BY <1>1, <1>2, <1>3, <1>4, TopSet
<1>7. Rounds(f) \/ Coming' \/ Attended(Top)'
    BY <1>2, <1>6 DEF Sleep, At, FrameInv, Rounds, Coming, Attended,
       Early, Frames, Runnable, blockVars, sourceVars, threadVars
<1> HIDE DEF f
<1>8. QED
    BY <1>1, <1>3, <1>4, <1>5, <1>7, TopWake

\* Once awake the run looks again ...
LEMMA WakeWakes ==
  ASSUME TypeInv, WakeInv, Wake
  PROVE  WakeInv'
<1> DEFINE f == [Top EXCEPT !.ignoring = TRUE,
                            !.at = IF Top.poll THEN "handle" ELSE "after"]
<1>1. stack # <<>>
    BY DEF Wake, At
<1>2. /\ stack \in Seq(Frames) /\ Top \in Frames /\ FrameInv(Top)
      /\ Rounds(Top) \/ Coming \/ Attended(Top)
    BY <1>1, TopFacts
<1>3. SetTop(f)
    BY DEF Wake, GoTo
<1>4. f \in Frames
    BY <1>2 DEF Frames, Places
<1>5. FrameInv(f)
    BY <1>2 DEF Wake, At, FrameInv, Rounds, Frames
<1>6. Top' = f
    BY <1>1, <1>2, <1>3, <1>4, TopSet
<1>7. Rounds(f) \/ Coming' \/ Attended(Top)'
    BY <1>2, <1>6 DEF Wake, At, FrameInv, Rounds, Coming, Attended,
       Early, Frames, Runnable, blockVars, sourceVars, threadVars
<1> HIDE DEF f
<1>8. QED
    BY <1>1, <1>3, <1>4, <1>5, <1>7, TopWake

\* ... after its observers ...
LEMMA AfterWakes ==
  ASSUME TypeInv, WakeInv, After
  PROVE  WakeInv'
<1> DEFINE f == [Top EXCEPT !.at = "handle"]
<1>1. stack # <<>>
    BY DEF After, At
<1>2. /\ stack \in Seq(Frames) /\ Top \in Frames /\ FrameInv(Top)
      /\ Rounds(Top) \/ Coming \/ Attended(Top)
    BY <1>1, TopFacts
<1>3. SetTop(f)
    BY DEF After, GoTo
<1>4. f \in Frames
    BY <1>2 DEF Frames, Places
<1>5. FrameInv(f)
    BY <1>2 DEF After, At, FrameInv, Rounds, Frames
<1>6. Top' = f
    BY <1>1, <1>2, <1>3, <1>4, TopSet
<1>7. Rounds(f) \/ Coming' \/ Attended(Top)'
    BY <1>2, <1>6 DEF After, At, FrameInv, Rounds, Coming, Attended,
       Early, Frames, Runnable, blockVars, sourceVars, threadVars
<1> HIDE DEF f
<1>8. QED
    BY <1>1, <1>3, <1>4, <1>5, <1>7, TopWake

\* ... and what woke it up.
LEMMA HandledWakes ==
  ASSUME TypeInv, WakeInv, Handled
  PROVE  WakeInv'
<1> DEFINE f == [Top EXCEPT !.at = "take"]
<1>1. stack # <<>>
    BY DEF Handled, At
<1>2. /\ stack \in Seq(Frames) /\ Top \in Frames /\ FrameInv(Top)
      /\ Rounds(Top) \/ Coming \/ Attended(Top)
    BY <1>1, TopFacts
<1>3. SetTop(f)
    BY DEF Handled, GoTo
<1>4. f \in Frames
    BY <1>2 DEF Frames, Places
<1>5. FrameInv(f)
    BY <1>2 DEF Handled, At, FrameInv, Rounds, Frames
<1>6. Top' = f
    BY <1>1, <1>2, <1>3, <1>4, TopSet
<1>7. Rounds(f) \/ Coming' \/ Attended(Top)'
    BY <1>2, <1>6 DEF Handled, At, FrameInv, Rounds, Coming, Attended,
       Early, Frames, Runnable, blockVars, sourceVars, threadVars
<1> HIDE DEF f
<1>8. QED
    BY <1>1, <1>3, <1>4, <1>5, <1>7, TopWake

\* The end of a callout changes nothing.
LEMMA EndCalloutWakes ==
  ASSUME TypeInv, WakeInv, EndCallout
  PROVE  WakeInv'
<1> DEFINE f == [Top EXCEPT !.calling = NULL]
<1>1. stack # <<>>
    BY DEF EndCallout, At
<1>2. /\ stack \in Seq(Frames) /\ Top \in Frames /\ FrameInv(Top)
      /\ Rounds(Top) \/ Coming \/ Attended(Top)
    BY <1>1, TopFacts
<1>3. SetTop(f)
    BY DEF EndCallout, GoTo
<1>4. f \in Frames
    BY <1>2 DEF Frames, Places
<1>5. FrameInv(f)
    BY <1>2 DEF EndCallout, At, FrameInv, Rounds, Frames
<1>6. Top' = f
    BY <1>1, <1>2, <1>3, <1>4, TopSet
<1>7. Rounds(f) \/ Coming' \/ Attended(Top)'
    BY <1>2, <1>6 DEF EndCallout, At, FrameInv, Rounds, Coming, Attended,
       Early, Frames, Runnable, blockVars, sourceVars, threadVars
<1> HIDE DEF f
<1>8. QED
    BY <1>1, <1>3, <1>4, <1>5, <1>7, TopWake

\* The list is taken, and is empty.
LEMMA TakeBlocksWakes ==
  ASSUME TypeInv, WakeInv, TakeBlocks
  PROVE  WakeInv'
<1> DEFINE loc == IF blocks = <<>> THEN AfterBlocks ELSE "blocks"
           f == [Top EXCEPT !.taken = blocks, !.at = loc]
<1>1. stack # <<>>
    BY DEF TakeBlocks, At
<1>2. /\ stack \in Seq(Frames) /\ Top \in Frames /\ FrameInv(Top)
      /\ Rounds(Top) \/ Coming \/ Attended(Top)
    BY <1>1, TopFacts
<1>3. SetTop(f)
    BY DEF TakeBlocks, GoTo, AfterBlocks
<1>4. f \in Frames
    BY <1>2 DEF Frames, Places, AfterBlocks, TypeInv
<1>5. FrameInv(f)
    BY <1>2 DEF TakeBlocks, At, FrameInv, Rounds, Frames, AfterBlocks
<1>6. Top' = f
    BY <1>1, <1>2, <1>3, <1>4, TopSet
<1>7. Rounds(f) \/ Coming' \/ Attended(Top)'
    BY <1>2, <1>6 DEF TakeBlocks, At, FrameInv, Rounds, Coming, Attended,
       Early, Frames, Runnable, sourceVars, threadVars, ToSet, AfterBlocks
<1> HIDE DEF f
<1>8. QED
    BY <1>1, <1>3, <1>4, <1>5, <1>7, TopWake

\* A block is called.
LEMMA RunBlockWakes ==
  ASSUME TypeInv, WakeInv, RunBlock
  PROVE  WakeInv'
<1> DEFINE i == CHOOSE n \in Eligible : \A k \in Eligible : n <= k
           f == [Top EXCEPT !.taken = RemoveAt(@, i), !.calling = Top.taken[i]]
<1>1. stack # <<>> /\ Top.at = "blocks"
    BY DEF RunBlock, At
<1>2. /\ stack \in Seq(Frames) /\ Top \in Frames /\ FrameInv(Top)
      /\ Rounds(Top) \/ Coming \/ Attended(Top)
    BY <1>1, TopFacts
<1>3. SetTop(f)
    BY DEF RunBlock
<1>4. RemoveAt(Top.taken, i) \in Seq(Blocks) /\ Top.taken[i] \in Blocks
    BY <1>1, <1>2, NextBlock DEF RunBlock
<1> HIDE DEF i
<1>5. /\ f \in Frames /\ f.mode = Top.mode /\ f.at = Top.at
      /\ f.pass = Top.pass /\ f.handled = Top.handled
      /\ f.poll = Top.poll /\ f.stopped = Top.stopped
      /\ f.expired = Top.expired /\ f.ignoring = Top.ignoring
    BY <1>2, <1>4 DEF Frames
<1> HIDE DEF f
<1>6. FrameInv(f) /\ (Rounds(f) <=> Rounds(Top))
    BY <1>1, <1>2, <1>5 DEF FrameInv, Rounds
<1>7. Top' = f
    BY <1>1, <1>2, <1>3, <1>5, TopSet
<1>8. Rounds(f) \/ Coming' \/ Attended(Top)'
    BY <1>1, <1>2, <1>5, <1>6, <1>7
       DEF RunBlock, Coming, Attended, Early, Runnable, sourceVars, threadVars
<1>9. QED
    BY <1>1, <1>3, <1>5, <1>6, <1>8, TopWake

\* No block of this mode is put back.
LEMMA PutBackWakes ==
  ASSUME TypeInv, WakeInv, PutBack
  PROVE  WakeInv'
<1> DEFINE f == [Top EXCEPT !.taken = <<>>, !.at = AfterBlocks]
<1>1. stack # <<>> /\ Top.at = "blocks" /\ Eligible = {}
    BY DEF PutBack, At
<1>2. /\ stack \in Seq(Frames) /\ Top \in Frames /\ FrameInv(Top)
      /\ Rounds(Top) \/ Coming \/ Attended(Top)
    BY <1>1, TopFacts
<1>3. SetTop(f) /\ blocks' = Top.taken \o blocks
      /\ UNCHANGED <<sources, valid, signalled, modeStopped, ports, pc>>
    BY DEF PutBack, sourceVars, threadVars
<1>4. f \in Frames
    BY <1>2, EmptySeq DEF Frames, Places, AfterBlocks
<1>5. /\ f.mode = Top.mode /\ f.at = AfterBlocks /\ f.pass = Top.pass
      /\ f.handled = Top.handled /\ f.stopped = Top.stopped
      /\ f.expired = Top.expired /\ f.ignoring = Top.ignoring
    BY <1>2, <1>4 DEF Frames
<1> HIDE DEF f
<1>6. Rounds(Top) => Rounds(f)
    BY <1>1, <1>5 DEF Rounds, AfterBlocks
<1>7. FrameInv(f)
    BY <1>2, <1>5, <1>6 DEF FrameInv, AfterBlocks
<1>8. Top' = f
    BY <1>1, <1>2, <1>3, <1>4, TopSet
<1>9. Coming => Coming'
    BY <1>3 DEF Coming
<1>10. ASSUME ~Rounds(Top), Attended(Top)
       PROVE  Rounds(f) \/ Attended(Top)'
  <2>1. CASE Top.pass = 1
    <3>1. Runnable(Top.mode) = {}
        BY <1>1, <1>10 DEF Attended, Early
    <3>2. ToSet(blocks') = ToSet(Top.taken) \cup ToSet(blocks)
      <4>1. Top.taken \in Seq(Blocks) /\ blocks \in Seq(Blocks)
          BY <1>2 DEF Frames, TypeInv
      <4>2. QED
          BY <1>3, <4>1, ToSetConcat
    <3>3. \A b \in ToSet(Top.taken) : Top.mode \notin Where[b]
        BY <1>1 DEF Eligible, ToSet
    <3>4. Runnable(Top.mode)' = {}
        BY <1>5, <1>8, <3>1, <3>2, <3>3 DEF Runnable
    <3>5. f.at = "collect"
        BY <1>5, <2>1 DEF AfterBlocks
    <3>6. /\ ~Top.stopped /\ Top.mode \notin modeStopped
        BY <1>1, <1>10 DEF Attended
    <3>7. Attended(Top)'
        BY <1>3, <1>5, <1>8, <3>4, <3>5, <3>6 DEF Attended
    <3>8. QED
        BY <3>7
  <2>2. CASE Top.pass # 1
    <3>1. Top.pass \in {1, 2, 3}
        BY <1>2 DEF Frames
    <3>2. Top.handled
        BY <1>1, <1>2, <1>10, <2>2, <3>1 DEF FrameInv, Rounds
    <3>3. QED
        BY <1>1, <1>10, <3>2 DEF Rounds
  <2>3. QED
      BY <2>1, <2>2
<1>11. QED
    BY <1>1, <1>2, <1>3, <1>4, <1>6, <1>7, <1>9, <1>10, TopWake

\* A source is performed, or is not signalled any more.
LEMMA PerformWakes ==
  ASSUME TypeInv, WakeInv, NEW s \in Sources, Perform(s)
  PROVE  WakeInv'
<1>1. stack # <<>> /\ Top.at = "sources"
    BY DEF Perform, At
<1>2. /\ stack \in Seq(Frames) /\ Top \in Frames /\ FrameInv(Top)
      /\ Rounds(Top) \/ Coming \/ Attended(Top)
    BY <1>1, TopFacts
<1>3. CASE s \in signalled \cap valid
  <2> DEFINE f == [Top EXCEPT !.todo = IF Top.once THEN {} ELSE @ \ {s},
                              !.handled = TRUE, !.calling = s]
  <2>1. SetTop(f)
      BY <1>3 DEF Perform
  <2>2. f \in Frames /\ f.at = "sources" /\ f.handled
      BY <1>1, <1>2 DEF Frames
  <2> HIDE DEF f
  <2>3. FrameInv(f) /\ Rounds(f)
      BY <2>2 DEF FrameInv, Rounds
  <2>4. QED
      BY <1>1, <2>1, <2>2, <2>3, TopWake
<1>4. CASE s \notin signalled \cap valid
  <2> DEFINE f == [Top EXCEPT !.todo = @ \ {s}]
  <2>1. SetTop(f)
      BY <1>4 DEF Perform
  <2>2. /\ f \in Frames /\ f.mode = Top.mode /\ f.at = Top.at
        /\ f.handled = Top.handled /\ f.stopped = Top.stopped
        /\ f.expired = Top.expired /\ f.ignoring = Top.ignoring
        /\ f.calling = Top.calling /\ f.todo = Top.todo \ {s}
      BY <1>2 DEF Frames
  <2> HIDE DEF f
  <2>3. FrameInv(f) /\ (Rounds(f) <=> Rounds(Top))
      BY <1>1, <1>2, <2>2 DEF FrameInv, Rounds
  <2>4. Top' = f
      BY <1>1, <1>2, <2>1, <2>2, TopSet
  <2>5. /\ signalled' = signalled \ {s}
        /\ UNCHANGED <<blocks, sources, valid, modeStopped, ports, pc>>
      BY DEF Perform, blockVars, threadVars
  <2>6. Coming => Coming'
      BY <2>5 DEF Coming
  <2>7. Attended(Top) => Attended(Top)'
      BY <1>1, <2>2, <2>4, <2>5 DEF Attended, Early, Runnable
  <2>8. QED
      BY <1>1, <1>2, <2>1, <2>2, <2>3, <2>6, <2>7, TopWake
<1>5. QED
    BY <1>3, <1>4

\* A run begins a pass only if it has not been stopped.
LEMMA EnterWakes ==
  ASSUME TypeInv, WakeInv, Enter
  PROVE  WakeInv'
<1>1. stack # <<>> /\ Top.at = "entry"
    BY DEF Enter, At
<1>2. /\ stack \in Seq(Frames) /\ Top \in Frames /\ FrameInv(Top)
    BY <1>1, TopFacts
<1> DEFINE f1 == [Top EXCEPT !.stopped = FALSE, !.at = "exit"]
           f2 == [Top EXCEPT !.at = "exit"]
           f3 == [Top EXCEPT !.at = "before"]
<1>3. /\ f1 \in Frames /\ f1.at = "exit" /\ f2 \in Frames /\ f2.at = "exit"
    BY <1>2 DEF Frames, Places
<1>4. /\ f3 \in Frames /\ f3.at = "before" /\ f3.ignoring = Top.ignoring
      /\ f3.stopped = Top.stopped /\ f3.mode = Top.mode
    BY <1>2 DEF Frames, Places
<1>5. \/ SetTop(f1) \/ SetTop(f2)
      \/ SetTop(f3) /\ ~Top.stopped /\ Top.mode \notin modeStopped
                    /\ modeStopped' = modeStopped
    BY DEF Enter, GoTo
<1> HIDE DEF f1, f2, f3
<1>6. \A f \in {f1, f2} : f \in Frames /\ FrameInv(f) /\ Rounds(f)
    BY <1>3 DEF FrameInv, Rounds
<1>7. ASSUME SetTop(f3), ~Top.stopped, Top.mode \notin modeStopped,
             modeStopped' = modeStopped
      PROVE  WakeInv'
  <2>1. Top' = f3
      BY <1>1, <1>2, <1>4, <1>7, TopSet
  <2>2. FrameInv(f3)
      BY <1>1, <1>2, <1>4 DEF FrameInv, Rounds
  <2>3. Attended(Top)'
      BY <1>4, <1>7, <2>1 DEF Attended, Early, Runnable
  <2>4. QED
      BY <1>1, <1>4, <1>7, <2>2, <2>3, TopWake
<1>8. QED
    BY <1>1, <1>5, <1>6, <1>7, TopWake

\* A run that handled something, or is out of time, only polls.
LEMMA PollWakes ==
  ASSUME TypeInv, WakeInv, Poll
  PROVE  WakeInv'
<1> DEFINE b == Top.handled \/ Top.expired
           g == [Top EXCEPT !.poll = b]
           f1 == [g EXCEPT !.live = "main", !.at = "handle"]
           f2 == [g EXCEPT !.served = FALSE, !.at = "asleep"]
           f3 == [g EXCEPT !.served = FALSE, !.at = "waiting"]
<1>1. stack # <<>> /\ Top.at = "poll"
    BY DEF Poll, At
<1>2. /\ stack \in Seq(Frames) /\ Top \in Frames /\ FrameInv(Top)
      /\ Rounds(Top) \/ Coming \/ Attended(Top)
    BY <1>1, TopFacts
<1>3. b \in BOOLEAN
    OBVIOUS
<1>4. SetTop(f1) \/ (b /\ SetTop(f2)) \/ (~b /\ SetTop(f3) /\ UNCHANGED ports)
    BY DEF Poll
<1>5. b <=> Top.handled \/ Top.expired
    OBVIOUS
<1> HIDE DEF b
<1>6. /\ g \in Frames /\ g.poll = b /\ g.mode = Top.mode
      /\ g.ignoring = Top.ignoring /\ g.expired = Top.expired
      /\ g.stopped = Top.stopped
    BY <1>2, <1>3 DEF Frames
<1> HIDE DEF g
<1>7. f1 \in Frames /\ f1.at = "handle"
    BY <1>6 DEF Frames, Places, PortNames
<1>8. f2 \in Frames /\ f2.at = "asleep" /\ f2.poll = b
    BY <1>6 DEF Frames, Places
<1>9. /\ f3 \in Frames /\ f3.at = "waiting" /\ f3.mode = Top.mode
      /\ f3.ignoring = Top.ignoring /\ f3.expired = Top.expired
      /\ f3.stopped = Top.stopped
    BY <1>6 DEF Frames, Places
<1> HIDE DEF f1, f2, f3
<1>10. CASE SetTop(f1)
  <2>1. FrameInv(f1) /\ Rounds(f1)
      BY <1>7 DEF FrameInv, Rounds
  <2>2. QED
      BY <1>1, <1>7, <1>10, <2>1, TopWake
<1>11. CASE b /\ SetTop(f2)
  <2>1. FrameInv(f2) /\ Rounds(f2)
      BY <1>8, <1>11 DEF FrameInv, Rounds
  <2>2. QED
      BY <1>1, <1>8, <1>11, <2>1, TopWake
<1>12. CASE ~b /\ SetTop(f3) /\ UNCHANGED ports
  <2>1. ~Top.handled /\ ~Top.expired
      BY <1>5, <1>12
  <2>2. ~Rounds(Top)
      BY <1>1, <2>1 DEF Rounds
  <2>3. FrameInv(f3)
      BY <1>2, <1>9, <2>2 DEF FrameInv
  <2>4. UNCHANGED <<blocks, sources, valid, signalled, modeStopped, pc>>
      BY DEF Poll, blockVars, sourceVars, threadVars
  <2>5. Coming => Coming'
      BY <1>12, <2>4 DEF Coming
  <2>6. Top' = f3
      BY <1>1, <1>2, <1>9, <1>12, TopSet
  <2>7. Attended(Top) => Attended(Top)'
      BY <1>1, <1>9, <2>1, <2>4, <2>6 DEF Attended, Early, Runnable
  <2>8. QED
      BY <1>1, <1>2, <1>9, <1>12, <2>2, <2>3, <2>5, <2>7, TopWake
<1>13. QED
    BY <1>4, <1>10, <1>11, <1>12

\* A message wakes the run up.
LEMMA ReceiveWakes ==
  ASSUME TypeInv, WakeInv, Receive
  PROVE  WakeInv'
<1>1. stack # <<>> /\ Top.at = "asleep"
    BY DEF Receive, At
<1>2. Top \in Frames
    BY <1>1, TopFacts
<1> DEFINE f(p) == [Top EXCEPT !.live = p, !.at = "woken"]
<1>3. \A p \in PortNames \cup {NULL} : f(p) \in Frames /\ f(p).at = "woken"
    BY <1>2 DEF Frames, Places
<1>4. PICK p \in PortNames \cup {NULL} : SetTop(f(p))
    BY DEF Receive, TypeInv
<1> DEFINE g == f(p)
<1>5. g \in Frames /\ g.at = "woken" /\ SetTop(g)
    BY <1>3, <1>4
<1> HIDE DEF g
<1>6. FrameInv(g) /\ Rounds(g)
    BY <1>5 DEF FrameInv, Rounds
<1>7. QED
    BY <1>1, <1>5, <1>6, TopWake

\* The message is dealt with.
LEMMA HandleWakes ==
  ASSUME TypeInv, WakeInv, Handle
  PROVE  WakeInv'
<1> DEFINE g == [Top EXCEPT !.ignoring = TRUE, !.pass = 3, !.live = NULL,
                            !.poll = FALSE]
           c == IF Top.live \in valid THEN Top.live ELSE NULL
           h == g.handled \/ Top.live \in valid
           f1 == [g EXCEPT !.at = "take"]
           f2 == [g EXCEPT !.at = "main", !.calling = "main",
                           !.handled = TRUE, !.served = TRUE]
           f3 == [g EXCEPT !.at = "port", !.calling = c, !.handled = h]
<1>1. stack # <<>>
    BY DEF Handle, At
<1>2. Top \in Frames
    BY <1>1, TopFacts
<1>3. g \in Frames /\ g.pass = 3
    BY <1>2 DEF Frames
<1>4. SetTop(f1) \/ SetTop(f2) \/ SetTop(f3)
    BY <1>2 DEF Handle, Frames
<1>5. c \in AllSources \cup {NULL} /\ h \in BOOLEAN
    BY DEF TypeInv
<1> HIDE DEF g, c, h
<1>6. f1 \in Frames /\ f1.at = "take" /\ f1.pass = 3
    BY <1>3 DEF Frames, Places
<1>7. f2 \in Frames /\ f2.at = "main" /\ f2.pass = 3
    BY <1>3 DEF Frames, Places
<1>8. f3 \in Frames /\ f3.at = "port" /\ f3.pass = 3
    BY <1>3, <1>5 DEF Frames, Places, AllSources
<1> HIDE DEF f1, f2, f3
<1>9. \A f \in {f1, f2, f3} : f \in Frames /\ FrameInv(f) /\ Rounds(f)
    BY <1>6, <1>7, <1>8 DEF FrameInv, Rounds
<1>10. QED
    BY <1>1, <1>4, <1>9, TopWake

\* A run goes on only if it has not been stopped and has time.
LEMMA DecideWakes ==
  ASSUME TypeInv, WakeInv, Decide
  PROVE  WakeInv'
<1> DEFINE f1 == [Top EXCEPT !.at = "exit"]
           f2 == [Top EXCEPT !.stopped = FALSE, !.at = "exit"]
           f3 == [Top EXCEPT !.ignoring = FALSE, !.handled = FALSE,
                             !.at = "before"]
<1>1. stack # <<>> /\ stack \in Seq(Frames)
    BY DEF Decide, At, TypeInv
<1>2. Top \in Frames
    BY <1>1, TopFacts
<1>3. \/ SetTop(f1) \/ SetTop(f2)
      \/ SetTop(f3) /\ ~Top.stopped /\ Top.mode \notin modeStopped
                    /\ modeStopped' = modeStopped
    BY DEF Decide, GoTo
<1>4. f1 \in Frames /\ f1.at = "exit" /\ f2 \in Frames /\ f2.at = "exit"
    BY <1>2 DEF Frames, Places
<1>5. /\ f3 \in Frames /\ f3.at = "before" /\ ~f3.ignoring
      /\ f3.stopped = Top.stopped /\ f3.mode = Top.mode
    BY <1>2 DEF Frames, Places
<1> HIDE DEF f1, f2, f3
<1>6. \A f \in {f1, f2} : f \in Frames /\ FrameInv(f) /\ Rounds(f)
    BY <1>4 DEF FrameInv, Rounds
<1>7. ASSUME SetTop(f3), ~Top.stopped, Top.mode \notin modeStopped,
             modeStopped' = modeStopped
      PROVE  WakeInv'
  <2>1. Top' = f3
      BY <1>1, <1>5, <1>7, TopSet
  <2>2. FrameInv(f3)
      BY <1>5 DEF FrameInv
  <2>3. Attended(Top)'
      BY <1>5, <1>7, <2>1 DEF Attended, Early, Runnable
  <2>4. QED
      BY <1>1, <1>5, <1>7, <2>2, <2>3, TopWake
<1>8. QED
    BY <1>1, <1>3, <1>6, <1>7, TopWake

\* The passes of a run keep the invariant.
LEMMA PassesWake ==
  ASSUME TypeInv, WakeInv, Passes
  PROVE  WakeInv'
  BY EnterWakes, BeforeWakes, CollectWakes, PerformWakes, SourcesDoneWakes,
     PollWakes, SleepWakes, ReceiveWakes, WakeWakes, AfterWakes, HandleWakes,
     HandledWakes, EndCalloutWakes, DecideWakes DEF Passes

\* The run outside, which becomes the innermost, looks again.
LEMMA ExitWakes ==
  ASSUME TypeInv, WakeInv, Exit
  PROVE  WakeInv'
<1>1. stack \in Seq(Frames) /\ stack # <<>> /\ stack' = Front(stack)
    BY DEF Exit, At, TypeInv
<1>2. /\ Len(stack) \in Nat /\ Len(stack') = Len(stack) - 1
      /\ \A d \in 1 .. Len(stack) - 1 : stack'[d] = stack[d]
      /\ stack' \in Seq(Frames)
    BY <1>1, LenProperties, HeldPopped
<1>3. \A d \in 1 .. Len(stack) - 1 : FrameInv(stack'[d]) /\ Rounds(stack'[d])
    BY <1>2 DEF WakeInv, Depth
<1>4. ASSUME stack' # <<>>
      PROVE  Rounds(Top')
  <2>1. Len(stack') \in 1 .. Len(stack) - 1
      BY <1>2, <1>4, EmptySeq
  <2>2. QED
      BY <1>3, <2>1 DEF Top, Depth
<1>5. QED
    BY <1>2, <1>3, <1>4 DEF WakeInv, Depth

\* A run is nested only in a callout after which the run outside looks again.
LEMMA RunWakes ==
  ASSUME TypeInv, WakeInv, NEW m \in Modes, NEW r \in Runs, Run(m, r[1], r[2]),
         Nesting \subseteq {"sources", "main", "port"}
  PROVE  WakeInv'
<1> DEFINE f == Frame(m, r[1], r[2])
<1>1. /\ f \in Frames /\ f.at = "entry" /\ ~f.ignoring
      /\ stack' = Append(stack, f) /\ stack \in Seq(Frames)
    BY NewFrame DEF Run, TypeInv, Frame
<1> HIDE DEF f
<1>2. /\ Len(stack) \in Nat /\ Len(stack') = Len(stack) + 1
      /\ \A d \in 1 .. Len(stack) : stack'[d] = stack[d]
      /\ stack'[Len(stack) + 1] = f
    BY <1>1, AppendProperties, LenProperties
<1>3. Top' = f
    BY <1>2 DEF Top, Depth
<1>4. FrameInv(f)
    BY <1>1 DEF FrameInv
<1>5. stack # <<>> => Rounds(Top)
  <2>1. SUFFICES ASSUME stack # <<>> PROVE Rounds(Top)
      OBVIOUS
  <2>2. Top.at \in {"sources", "main", "port"} /\ Top.calling # NULL
      BY <2>1 DEF Run, MayRun, Kind
  <2>3. FrameInv(Top)
      BY <2>1, TopFacts
  <2>4. QED
      BY <2>2, <2>3 DEF FrameInv, Rounds
<1>6. \A d \in 1 .. Len(stack) : Rounds(stack'[d])
  <2>1. ASSUME NEW d \in 1 .. Len(stack), d = Len(stack)
        PROVE  Rounds(stack[d])
    <3>1. stack # <<>>
        BY <1>2, <2>1, EmptySeq
    <3>2. QED
        BY <1>5, <2>1, <3>1 DEF Top, Depth
  <2>2. ASSUME NEW d \in 1 .. Len(stack), d # Len(stack)
        PROVE  Rounds(stack[d])
    <3>1. d \in 1 .. Len(stack) - 1
        BY <1>2, <2>2
    <3>2. QED
        BY <3>1 DEF WakeInv, Depth
  <2>3. QED
      BY <1>2, <2>1, <2>2
<1>7. \A d \in 1 .. Len(stack) + 1 : FrameInv(stack'[d])
  <2>1. \A d \in 1 .. Len(stack) + 1 :
           d = Len(stack) + 1 \/ d \in 1 .. Len(stack)
      BY <1>2
  <2>2. QED
      BY <1>2, <1>4, <2>1 DEF WakeInv, Depth
<1>8. Attended(Top)'
    BY <1>1, <1>3 DEF Attended, Early, Runnable
<1>9. Len(stack') - 1 = Len(stack)
    BY <1>2
<1>10. QED
    BY <1>2, <1>6, <1>7, <1>8, <1>9 DEF WakeInv, Depth

\* A client that goes from one place to another wakes the loop up, or is not
\* about to.
LEMMA ThenComing ==
  ASSUME TypeInv, NEW t \in Threads, NEW loc, NEW s, NEW m,
         ThenOn(t, loc, s, m)
  PROVE  /\ loc = "wake" => Coming'
         /\ pc[t] # "wake" /\ ports \subseteq ports' => (Coming => Coming')
<1>1. /\ pc' = [pc EXCEPT ![t] = loc]
      /\ pc \in [Threads -> {"idle", "wake", "insert", "discard"}]
    BY DEF ThenOn, TypeInv
<1>2. pc'[t] = loc /\ \A u \in Threads : u # t => pc'[u] = pc[u]
    BY <1>1
<1>3. QED
    BY <1>2 DEF Coming

\* A client wakes the loop up after what it did; what is dropped is dropped
\* by a run that looks again.
LEMMA ClientWakes ==
  ASSUME TypeInv, WakeInv, NEW t \in Threads, ClientSteps(t)
  PROVE  WakeInv'
<1>1. UNCHANGED <<stack, blocks, order>>
    BY ClientStepsType
<1>2. stack # <<>> =>
         /\ stack \in Seq(Frames) /\ Top \in Frames /\ FrameInv(Top)
         /\ Rounds(Top) \/ Coming \/ Attended(Top)
    BY TopFacts
<1>3. SUFFICES ASSUME stack # <<>>, ~Rounds(Top)
               PROVE  Coming' \/ Attended(Top)'
    BY <1>1 DEF WakeInv, Depth, Top
<1>4. Top' = Top
    BY <1>1 DEF Top, Depth
<1>5. ASSUME WakeUp(t)
      PROVE  Coming'
  <2>1. ~Top.ignoring
      BY <1>2, <1>3 DEF FrameInv
  <2>2. QED
      BY <1>3, <1>5, <2>1 DEF WakeUp, Coming
<1>6. ASSUME \/ Insert(t) \/ Discard(t) \/ \E m \in Modes : StopMode(t, m)
             \/ \E s \in Sources : Signal(t, s)
             \/ \E s \in AllSources : \E m \in Where[s] : RemoveSource(t, s, m)
      PROVE  Coming'
  <2>1. Then(t, "wake")
      BY <1>6 DEF Insert, Discard, StopMode, Signal, RemoveSource
  <2>2. QED
      BY <2>1, ThenComing DEF Then
<1>7. ASSUME NEW s \in AllSources, NEW m \in Where[s], AddSource(t, s, m)
      PROVE  Coming' \/ Attended(Top)'
  <2>1. /\ ThenOn(t, "insert", s, m) /\ pc[t] # "wake"
        /\ UNCHANGED <<sources, valid, signalled, modeStopped, ports>>
      BY <1>7 DEF AddSource, MayCall, sourceVars
  <2>2. Coming => Coming'
      BY <2>1, ThenComing
  <2>3. Attended(Top) => Attended(Top)'
      BY <1>1, <1>4, <2>1 DEF Attended, Early, Runnable
  <2>4. QED
      BY <1>2, <1>3, <2>2, <2>3
<1>8. ASSUME NEW s \in AllSources, Invalidate(t, s)
      PROVE  Coming' \/ Attended(Top)'
  <2>1. /\ pc[t] # "wake"
        /\ valid' \subseteq valid /\ signalled' \subseteq signalled
        /\ UNCHANGED <<sources, modeStopped, ports>>
        /\ ThenOn(t, "discard", s, NULL) \/ UNCHANGED threadVars
      BY <1>8 DEF Invalidate, MayCall
  <2>2. Coming => Coming'
    <3>1. CASE ThenOn(t, "discard", s, NULL)
        BY <2>1, <3>1, ThenComing
    <3>2. CASE UNCHANGED threadVars
        BY <2>1, <3>2 DEF threadVars, Coming
    <3>3. QED
        BY <2>1, <3>1, <3>2
  <2>3. Attended(Top) => Attended(Top)'
      BY <1>1, <1>4, <2>1 DEF Attended, Early, Runnable
  <2>4. QED
      BY <1>2, <1>3, <2>2, <2>3
<1>9. ASSUME NEW p \in PortSources \cup {"main"}, Send(t, p)
      PROVE  Coming' \/ Attended(Top)'
  <2>1. /\ ThenOn(t, "idle", NULL, NULL) /\ pc[t] # "wake"
        /\ ports \subseteq ports'
        /\ UNCHANGED <<sources, valid, signalled, modeStopped>>
      BY <1>9 DEF Send, MayCall, Then, sourceVars
  <2>2. Coming => Coming'
      BY <2>1, ThenComing
  <2>3. Attended(Top) => Attended(Top)'
      BY <1>1, <1>4, <2>1 DEF Attended, Early, Runnable
  <2>4. QED
      BY <1>2, <1>3, <2>2, <2>3
<1>10. QED
    BY <1>5, <1>6, <1>7, <1>8, <1>9 DEF ClientSteps

\* So it does after it stopped a run, or its time was up.
LEMMA MarkWakes ==
  ASSUME TypeInv, WakeInv, NEW t \in Threads,
         Stop(t) \/ \E d \in 1 .. MaxDepth : Expire(t, d)
  PROVE  WakeInv'
<1>1. stack \in Seq(Frames) /\ Len(stack) \in Nat
    BY LenProperties DEF TypeInv
<1>2. \A k \in 1 .. Len(stack) : stack[k] \in Frames
    BY <1>1, ElementOfSeq
<1> DEFINE Kept(f, g) == /\ FrameInv(g) => FrameInv(f)
                         /\ Rounds(g) => Rounds(f)
           Marked == /\ Len(stack') = Len(stack)
                     /\ \A k \in 1 .. Len(stack) : Kept(stack'[k], stack[k])
<1>3. \A g \in Frames : /\ Kept(g, g) /\ Kept([g EXCEPT !.stopped = TRUE], g)
                        /\ Kept([g EXCEPT !.expired = TRUE], g)
    BY DEF FrameInv, Rounds, Frames
<1>4. ASSUME NEW g \in Frames, NEW f, NEW d \in 1 .. Len(stack),
             stack' = [stack EXCEPT ![d] = f], g = stack[d], Kept(f, g)
      PROVE  Marked
  <2>1. /\ DOMAIN stack' = DOMAIN stack /\ Len(stack') = Len(stack)
        /\ stack'[d] = f
        /\ \A k \in 1 .. Len(stack) : k # d => stack'[k] = stack[k]
      BY <1>1, <1>4
  <2> HIDE DEF Kept
  <2>2. QED
      BY <1>2, <1>3, <1>4, <2>1
<1> HIDE DEF Kept
<1>5. ASSUME Stop(t) PROVE Marked
  <2>1. Depth \in 1 .. Len(stack)
      BY <1>1, <1>5, TopIn DEF Stop, Depth
  <2>2. stack' = [stack EXCEPT
                    ![Depth] = [stack[Depth] EXCEPT !.stopped = TRUE]]
      BY <1>5 DEF Stop, SetTop, Top
  <2>3. QED
      BY <1>2, <1>3, <1>4, <2>1, <2>2
<1>6. ASSUME NEW d \in 1 .. MaxDepth, Expire(t, d) PROVE Marked
  <2>1. d \in 1 .. Len(stack)
        /\ stack' = [stack EXCEPT ![d] = [stack[d] EXCEPT !.expired = TRUE]]
      BY <1>1, <1>6, RunLoopAssumption DEF Expire, Depth
  <2>2. QED
      BY <1>2, <1>3, <1>4, <2>1
<1>7. Marked
    BY <1>5, <1>6
<1>8. Then(t, "wake")
    BY DEF Stop, Expire
<1>9. Coming'
    BY <1>8, ThenComing DEF Then
<1>10. QED
    BY <1>1, <1>7, <1>9 DEF WakeInv, Depth, Kept

\* Every step keeps the invariant.
LEMMA WakeStep ==
  ASSUME TypeInv, WakeInv, [Next]_loopVars,
         Nesting \subseteq {"sources", "main", "port"}
  PROVE  WakeInv'
<1>1. CASE Next
  <2>1. ASSUME NEW m \in Modes, NEW r \in Runs, Run(m, r[1], r[2])
        PROVE  WakeInv'
      BY <2>1, RunWakes
  <2>2. ASSUME NEW t \in Threads, NEW b \in Blocks, PerformBlock(t, b)
        PROVE  WakeInv'
    <3>1. Then(t, "wake") /\ UNCHANGED stack
        BY <2>2 DEF PerformBlock
    <3>2. Coming'
        BY <3>1, ThenComing DEF Then
    <3>3. QED
        BY <3>1, <3>2 DEF WakeInv, Depth, Top
  <2>3. QED
      BY <1>1, <2>1, <2>2, NextSplit, PassesWake, TakeBlocksWakes,
         RunBlockWakes, PutBackWakes, ExitWakes, ClientWakes, MarkWakes
<1>2. CASE UNCHANGED loopVars
    BY <1>2 DEF loopVars, blockVars, sourceVars, threadVars, WakeInv, Depth,
       Top, Coming, Attended, Early, Runnable
<1>3. QED
    BY <1>1, <1>2

\* While only the callouts of sources and of the main queue run the loop
\* again, a loop that sleeps with nobody about to wake it up has no block,
\* signalled source, stop or time-out to attend to, though wake-ups are
\* dropped, merged and taken by nested runs (CFRunLoopWakeUp(),
\* __CFRunLoopRun()).
THEOREM NoWorkSleptThrough ==
  ASSUME Nesting \subseteq {"sources", "main", "port"}
  PROVE  Spec => []NeverSleepsThroughWork
<1>1. Init => WakeInv
    BY EmptySeq DEF Init, WakeInv, Depth
<1>2. TypeInv /\ WakeInv /\ [Next]_loopVars => WakeInv'
    BY WakeStep
<1>3. TypeInv /\ WakeInv => NeverSleepsThroughWork
  <2>1. SUFFICES ASSUME TypeInv, WakeInv, Dormant,
                        \A t \in Threads : pc[t] = "idle"
                 PROVE  /\ ~Top.stopped /\ ~Top.expired
                        /\ Top.mode \notin modeStopped
                        /\ Runnable(Top.mode) = {}
                        /\ sources[Top.mode] \cap signalled \cap valid = {}
      BY DEF NeverSleepsThroughWork
  <2>2. stack # <<>> /\ Top.at = "asleep" /\ ~Top.poll /\ "wakeup" \notin ports
      BY <2>1 DEF Dormant, At, WaitSet
  <2>3. ~Rounds(Top) /\ ~Coming
      BY <2>1, <2>2 DEF Rounds, Coming
  <2>4. Attended(Top)
      BY <2>1, <2>2, <2>3, TopFacts
  <2>5. QED
      BY <2>2, <2>4 DEF Attended, Early
<1>4. QED
    BY <1>1, <1>2, <1>3, LoopTypeCorrect, PTL DEF Spec

-----------------------------------------------------------------------------
(* The timers of the loop (CFRunLoopTimers): its lists stay in the order of  *)
(* the dates.  The loop's runs, the valid timers and the calls have other    *)
(* names here than in the module of the timers.                              *)

CONSTANTS Timers, Interval, Tolerance, Placed, Calls, MaxTime
VARIABLES now, alive, firing, deadlines, armed, rung, passes, job, made

T == INSTANCE CFRunLoopTimers WITH valid <- alive, stack <- passes, calls <- made

\* The operators that both modules take from the library are the same.
LEMMA SameRemoval ==
  ASSUME NEW s, NEW e
  PROVE  T!RemoveFirst(s, e) = RemoveFirst(s, e)
<1>1. T!SelectInSeq(s, LAMBDA x : x = e) = SelectInSeq(s, LAMBDA x : x = e)
    BY Zenon DEF T!SelectInSeq, SelectInSeq, T!Min, Min
<1>2. QED
    BY <1>1, Zenon DEF T!RemoveFirst, RemoveFirst, T!RemoveAt, RemoveAt

LEMMA SameSizes ==
  ASSUME NEW S
  PROVE  /\ T!IsFiniteSet(S) = IsFiniteSet(S)
         /\ T!Cardinality(S) = Cardinality(S)
<1>1. T!IsFiniteSet(S) = IsFiniteSet(S)
    BY Zenon DEF T!IsFiniteSet, IsFiniteSet
<1>2. T!Cardinality(S) = Cardinality(S)
    BY Zenon DEF T!Cardinality, Cardinality
<1>3. QED
    BY <1>1, <1>2

(* The bisection                                                           *)

\* Half of a power of two other than 1 is a power of two.
LEMMA Halved ==
  ASSUME NEW p \in Nat, T!PowerOfTwo(p)
  PROVE  p >= 1 /\ (p # 1 => \E h \in Nat : p = 2 * h /\ T!PowerOfTwo(h))
<1>1. PICK S \in SUBSET (1 .. p) :
         p \in S /\ \A q \in S \ {1} : \E h \in S : q = 2 * h
    BY DEF T!PowerOfTwo
<1>2. SUFFICES ASSUME p # 1
               PROVE  \E h \in Nat : p = 2 * h /\ T!PowerOfTwo(h)
    BY <1>1
<1>3. PICK h \in S : p = 2 * h
    BY <1>1, <1>2
<1>4. h \in Nat /\ h >= 1
    BY <1>1
<1> DEFINE R == S \cap (1 .. h)
<1>5. R \in SUBSET (1 .. h) /\ h \in R
    BY <1>3, <1>4
<1>6. ASSUME NEW q \in R \ {1}
      PROVE  \E g \in R : q = 2 * g
  <2>1. q \in 1 .. h /\ q \in S /\ q # 1
      BY <1>6
  <2>2. PICK g \in S : q = 2 * g
      BY <1>1, <2>1
  <2>3. g \in 1 .. p
      BY <1>1
  <2>4. g \in 1 .. h
      BY <1>4, <2>1, <2>2, <2>3
  <2>5. QED
      BY <2>2, <2>4
<1>7. T!PowerOfTwo(h)
    BY <1>5, <1>6 DEF T!PowerOfTwo
<1>8. QED
    BY <1>3, <1>4, <1>7

\* Twice a power of two is a power of two.
LEMMA Doubled ==
  ASSUME NEW p \in Nat, T!PowerOfTwo(p)
  PROVE  T!PowerOfTwo(2 * p)
<1>1. PICK S \in SUBSET (1 .. p) :
         p \in S /\ \A q \in S \ {1} : \E h \in S : q = 2 * h
    BY DEF T!PowerOfTwo
<1> DEFINE R == S \cup {2 * p}
<1>2. p >= 1
    BY <1>1
<1>3. R \in SUBSET (1 .. 2 * p) /\ 2 * p \in R
    BY <1>1, <1>2
<1>4. \A q \in R \ {1} : \E h \in R : q = 2 * h
    BY <1>1
<1>5. QED
    BY <1>3, <1>4 DEF T!PowerOfTwo

\* The first step of the bisection is as it should be.
LEMMA FirstStepIs ==
  ASSUME NEW n \in Nat, n # 0
  PROVE  T!FirstStep(n) \in n + 1 .. 2 * n /\ T!PowerOfTwo(T!FirstStep(n))
<1> DEFINE Bad == {k \in Nat \ {0} :
                     ~\E p \in k + 1 .. 2 * k : T!PowerOfTwo(p)}
<1>1. Bad = {}
  <2>1. SUFFICES ASSUME Bad # {} PROVE FALSE
      OBVIOUS
  <2>2. PICK k \in Bad : \A j \in Bad : k <= j
      BY <2>1, Least
  <2>3. k \in Nat /\ k # 0 /\ ~\E p \in k + 1 .. 2 * k : T!PowerOfTwo(p)
      OBVIOUS
  <2>4. CASE k = 1
    <3>1. T!PowerOfTwo(1)
      <4>1. {1} \in SUBSET (1 .. 1) /\ 1 \in {1}
            /\ \A q \in {1} \ {1} : \E h \in {1} : q = 2 * h
          OBVIOUS
      <4>2. QED
          BY <4>1 DEF T!PowerOfTwo
    <3>2. T!PowerOfTwo(2 * 1)
        BY <3>1, Doubled
    <3>3. 2 * 1 \in k + 1 .. 2 * k
        BY <2>4
    <3>4. QED
        BY <2>3, <3>2, <3>3
  <2>5. CASE k # 1
    <3>1. k - 1 \in Nat \ {0} /\ k - 1 \notin Bad
        BY <2>2, <2>3, <2>5
    <3>2. PICK p \in (k - 1) + 1 .. 2 * (k - 1) : T!PowerOfTwo(p)
        BY <3>1
    <3>3. CASE p = k
      <4>1. T!PowerOfTwo(2 * k)
          BY <2>3, <3>2, <3>3, Doubled
      <4>2. 2 * k \in k + 1 .. 2 * k
          BY <2>3
      <4>3. QED
          BY <2>3, <4>1, <4>2
    <3>4. CASE p # k
      <4>1. p \in k + 1 .. 2 * k
          BY <2>3, <3>2, <3>4
      <4>2. QED
          BY <2>3, <3>2, <4>1
    <3>5. QED
        BY <3>3, <3>4
  <2>6. QED
      BY <2>4, <2>5
<1>2. \E p \in n + 1 .. 2 * n : T!PowerOfTwo(p)
    BY <1>1
<1>3. QED
    BY <1>2 DEF T!FirstStep

\* Where a probe of the bisection goes on, and whether it met its timer.
Hits(list, date, d, add, idx) ==
    idx + add < Len(list) /\ date[list[idx + add + 1]] <= d
Goes(list, date, d, add, idx) ==
    IF Hits(list, date, d, add, idx) THEN idx + add ELSE idx

\* The recursion of the bisection, for steps up to n.
Probes(f, list, date, d, n) ==
    f = [add \in 0 .. n |-> [idx \in 0 .. Len(list) |->
           IF add # 0
           THEN f[add \div 2][Goes(list, date, d, add, idx)]
           ELSE IF Hits(list, date, d, add, idx)
                THEN Goes(list, date, d, add, idx) + 1
                ELSE Goes(list, date, d, add, idx)]]

\* The bisection is a solution of it, from the first step.
LEMMA InsertionIndexDef ==
  ASSUME NEW list, NEW date, NEW d, list # <<>>,
         ~T!BeforeAll(list, date, d), ~T!BehindAll(list, date, d)
  PROVE  T!InsertionIndex(list, date, d) =
         (CHOOSE f : Probes(f, list, date, d, T!FirstStep(Len(list))))
             [T!FirstStep(Len(list))][0]
  BY DEF T!InsertionIndex, Probes, Goes, Hits

\* A probe goes on from a place in the list.
LEMMA GoesInList ==
  ASSUME NEW list, NEW date, NEW d, Len(list) \in Nat,
         NEW add \in Nat, NEW idx \in 0 .. Len(list)
  PROVE  Goes(list, date, d, add, idx) \in 0 .. Len(list)
  BY DEF Goes, Hits

\* The recursion of the bisection has a solution.
LEMMA Probed ==
  ASSUME NEW list, NEW date, NEW d, Len(list) \in Nat, NEW n \in Nat
  PROVE  \E f : Probes(f, list, date, d, n)
<1> DEFINE I == 0 .. Len(list)
           go(a, i) == Goes(list, date, d, a, i)
           end(a, i) == IF Hits(list, date, d, a, i)
                        THEN go(a, i) + 1 ELSE go(a, i)
           P(k) == \E f : f = [a \in 0 .. k |-> [i \in I |->
                               IF a # 0 THEN f[a \div 2][go(a, i)]
                               ELSE end(a, i)]]
           Bad == {k \in Nat : ~P(k)}
<1>1. \A a \in Nat, i \in I : go(a, i) \in I
    BY GoesInList
<1> HIDE DEF I, go, end
<1>2. P(0)
  <2> DEFINE f == [a \in 0 .. 0 |-> [i \in I |-> end(a, i)]]
  <2>1. f = [a \in 0 .. 0 |-> [i \in I |->
               IF a # 0 THEN f[a \div 2][go(a, i)] ELSE end(a, i)]]
      OBVIOUS
  <2>2. QED
      BY <2>1
<1>3. ASSUME NEW k \in Nat, P(k)
      PROVE  P(k + 1)
  <2>1. PICK f : f = [a \in 0 .. k |-> [i \in I |->
                        IF a # 0 THEN f[a \div 2][go(a, i)] ELSE end(a, i)]]
      BY <1>3
  <2> DEFINE g == [a \in 0 .. k + 1 |-> [i \in I |->
                     IF a = k + 1 THEN f[a \div 2][go(a, i)] ELSE f[a][i]]]
  <2>2. ASSUME NEW a \in 0 .. k + 1, NEW i \in I
        PROVE  g[a][i] = IF a # 0 THEN g[a \div 2][go(a, i)] ELSE end(a, i)
    <3>1. go(a, i) \in I
        BY <1>1
    <3>2. a # 0 => a \div 2 \in 0 .. k /\ a \div 2 # k + 1
                   /\ a \div 2 \in 0 .. k + 1
        OBVIOUS
    <3>3. a # 0 => g[a \div 2][go(a, i)] = f[a \div 2][go(a, i)]
        BY <3>1, <3>2
    <3>4. CASE a = k + 1
      <4>1. g[a][i] = f[a \div 2][go(a, i)] /\ a # 0
          BY <3>4
      <4>2. QED
          BY <3>3, <4>1
    <3>5. CASE a # k + 1
      <4>1. a \in 0 .. k /\ g[a][i] = f[a][i]
          BY <3>5
      <4>2. f[a] = [j \in I |-> IF a # 0 THEN f[a \div 2][go(a, j)]
                              ELSE end(a, j)]
          BY <2>1, <4>1, Zenon
      <4>4. f[a][i] = IF a # 0 THEN f[a \div 2][go(a, i)] ELSE end(a, i)
          BY <4>2
      <4>3. QED
          BY <3>3, <4>1, <4>4
    <3>6. QED
        BY <3>4, <3>5
  <2>3. g = [a \in 0 .. k + 1 |-> [i \in I |->
               IF a # 0 THEN g[a \div 2][go(a, i)] ELSE end(a, i)]]
      BY <2>2
  <2>4. QED
      BY <2>3
<1> HIDE DEF P
<1>4. Bad = {}
  <2>1. SUFFICES ASSUME Bad # {} PROVE FALSE
      OBVIOUS
  <2>2. PICK m \in Bad : \A k \in Bad : m <= k
      BY <2>1, Least
  <2>3. m # 0 /\ m - 1 \in Nat /\ P(m - 1)
      BY <1>2, <2>2
  <2>4. P((m - 1) + 1)
      BY <1>3, <2>3
  <2>5. (m - 1) + 1 = m
      BY <2>2
  <2>6. QED
      BY <2>2, <2>4, <2>5
<1>5. P(n)
    BY <1>4
<1>6. QED
    BY <1>5 DEF P, Probes, I, go, end

\* A list in the order of the dates.
Sorted(list, date) ==
    \A i, j \in 1 .. Len(list) : i < j => date[list[i]] <= date[list[j]]

\* How many of its timers have dates up to d.
IsPlace(list, date, d, r) ==
    /\ r \in 0 .. Len(list)
    /\ \A j \in 1 .. Len(list) : date[list[j]] <= d <=> j <= r

\* In a sorted list they are the first.
LEMMA PlaceExists ==
  ASSUME NEW S, NEW list \in Seq(S), NEW date \in [S -> Int], NEW d \in Int,
         Sorted(list, date)
  PROVE  \E r : IsPlace(list, date, d, r)
<1> DEFINE Late == {j \in 1 .. Len(list) : ~(date[list[j]] <= d)}
<1>1. Len(list) \in Nat
    BY LenProperties
<1>2. \A j \in 1 .. Len(list) : date[list[j]] \in Int
    BY ElementOfSeq
<1>3. CASE Late = {}
  <2>1. IsPlace(list, date, d, Len(list))
      BY <1>1, <1>3 DEF IsPlace
  <2>2. QED
      BY <2>1
<1>4. CASE Late # {}
  <2>1. Late \subseteq Nat
      OBVIOUS
  <2>2. PICK m \in Late : \A j \in Late : m <= j
      BY <1>4, <2>1, Least
  <2>3. m \in 1 .. Len(list) /\ ~(date[list[m]] <= d)
      OBVIOUS
  <2>4. ASSUME NEW j \in 1 .. Len(list)
        PROVE  date[list[j]] <= d <=> j <= m - 1
    <3>1. CASE j < m
      <4>1. j \notin Late
          BY <2>2, <2>3, <3>1
      <4>2. QED
          BY <2>3, <3>1, <4>1
    <3>2. CASE ~(j < m)
      <4>1. j = m \/ date[list[m]] <= date[list[j]]
          BY <2>3, <3>2 DEF Sorted
      <4>2. ~(date[list[j]] <= d)
          BY <1>2, <2>3, <4>1
      <4>3. QED
          BY <2>3, <3>2, <4>2
    <3>3. QED
        BY <3>1, <3>2
  <2>5. IsPlace(list, date, d, m - 1)
      BY <1>1, <2>3, <2>4 DEF IsPlace
  <2>6. QED
      BY <2>5
<1>5. QED
    BY <1>3, <1>4

\* The bisection finds that place: a probe with a step between two places
\* less than twice the step apart goes on with half the distance.
LEMMA InsertionIndexIs ==
  ASSUME NEW S, NEW list \in Seq(S), NEW date \in [S -> Int], NEW d \in Int,
         Sorted(list, date)
  PROVE  IsPlace(list, date, d, T!InsertionIndex(list, date, d))
<1>1. Len(list) \in Nat
    BY LenProperties
<1>2. CASE list = <<>>
  <2>1. T!InsertionIndex(list, date, d) = 0
      BY <1>2 DEF T!InsertionIndex
  <2>2. Len(list) = 0
      BY <1>2, EmptySeq
  <2>3. QED
      BY <2>1, <2>2 DEF IsPlace
<1>3. CASE list # <<>> /\ ~T!BeforeAll(list, date, d) /\ ~T!BehindAll(list, date, d)
  <2> DEFINE n == Len(list)
             top == T!FirstStep(n)
             f == CHOOSE g : Probes(g, list, date, d, top)
  <2>1. n \in Nat /\ n # 0 /\ top \in n + 1 .. 2 * n /\ T!PowerOfTwo(top)
      BY <1>1, <1>3, EmptySeq, FirstStepIs
  <2>2. T!InsertionIndex(list, date, d) = f[top][0]
      BY <1>3, InsertionIndexDef
  <2>3. Probes(f, list, date, d, top)
    <3>1. \E g : Probes(g, list, date, d, top)
      <4> HIDE DEF top
      <4>1. top \in Nat
          BY <2>1
      <4>2. QED
          BY <1>1, <4>1, Probed
    <3>2. QED
        BY <3>1, Zenon
  <2> HIDE DEF top, f
  <2>4. PICK r : IsPlace(list, date, d, r)
      BY PlaceExists
  <2>5. r \in 0 .. n /\ \A j \in 1 .. n : date[list[j]] <= d <=> j <= r
      BY <2>4 DEF IsPlace
  <2>6. ASSUME NEW a \in Nat, NEW i \in 0 .. n
        PROVE  /\ Hits(list, date, d, a, i) <=> i + a + 1 <= r
               /\ Goes(list, date, d, a, i)
                     = IF i + a + 1 <= r THEN i + a ELSE i
    <3>1. i + a < n => i + a + 1 \in 1 .. n
        BY <2>1
    <3>2. ~(i + a < n) => ~(i + a + 1 <= r)
        BY <2>1, <2>5
    <3>3. QED
        BY <2>5, <3>1, <3>2 DEF Hits, Goes
  <2>7. ASSUME NEW a \in 0 .. top, NEW i \in 0 .. n
        PROVE  f[a][i] = IF a # 0 THEN f[a \div 2][Goes(list, date, d, a, i)]
                         ELSE IF Hits(list, date, d, a, i)
                              THEN Goes(list, date, d, a, i) + 1
                              ELSE Goes(list, date, d, a, i)
    <3>1. f[a] = [j \in 0 .. Len(list) |->
                    IF a # 0 THEN f[a \div 2][Goes(list, date, d, a, j)]
                    ELSE IF Hits(list, date, d, a, j)
                         THEN Goes(list, date, d, a, j) + 1
                         ELSE Goes(list, date, d, a, j)]
        BY <2>3, Zenon DEF Probes
    <3>2. QED
        BY <3>1
  <2> DEFINE Good(a) == \A i \in 0 .. n :
                          (/\ i = 0 \/ i < r
                           /\ r <= IF a = 0 THEN i + 1 ELSE i + 2 * a)
                          => f[a][i] = r
             Bad == {a \in 0 .. top : a = 0 \/ T!PowerOfTwo(a)}
                    \ {a \in Nat : Good(a)}
  <2>8. Bad = {}
    <3>1. SUFFICES ASSUME Bad # {} PROVE FALSE
        OBVIOUS
    <3>2. PICK a \in Bad : \A b \in Bad : a <= b
      <4>1. Bad \subseteq Nat
          BY <2>1
      <4>2. QED
          BY <3>1, <4>1, Least
    <3>3. a \in 0 .. top /\ (a = 0 \/ T!PowerOfTwo(a)) /\ ~Good(a)
        OBVIOUS
    <3>4. PICK i \in 0 .. n : /\ i = 0 \/ i < r
                              /\ r <= IF a = 0 THEN i + 1 ELSE i + 2 * a
                              /\ f[a][i] # r
        BY <3>3
    <3>5. /\ Hits(list, date, d, a, i) <=> i + a + 1 <= r
          /\ Goes(list, date, d, a, i) = IF i + a + 1 <= r THEN i + a ELSE i
        BY <2>6, <3>3
    <3>6. CASE a = 0
      <4>1. f[a][i] = IF i + 1 <= r THEN i + 1 ELSE i
          BY <2>7, <3>3, <3>5, <3>6
      <4>2. QED
          BY <2>5, <3>4, <3>6, <4>1
    <3>7. CASE a # 0
      <4>1. T!PowerOfTwo(a) /\ a \in Nat
          BY <3>3, <3>7
      <4>2. PICK h : /\ h \in Nat /\ h = a \div 2 /\ h < a
                     /\ h = 0 \/ T!PowerOfTwo(h)
                     /\ a = IF h = 0 THEN 1 ELSE 2 * h
        <5>1. CASE a = 1
            BY <5>1
        <5>2. CASE a # 1
          <6>1. PICK h \in Nat : a = 2 * h /\ T!PowerOfTwo(h)
              BY <4>1, <5>2, Halved
          <6>2. h = a \div 2 /\ h < a /\ h # 0
              BY <3>7, <6>1
          <6>3. QED
              BY <6>1, <6>2
        <5>3. QED
            BY <5>1, <5>2
      <4> DEFINE k == Goes(list, date, d, a, i)
      <4>3. f[a][i] = f[h][k]
          BY <2>7, <3>3, <3>7, <4>2
      <4>4. k \in 0 .. n /\ (k = 0 \/ k < r)
            /\ r <= IF h = 0 THEN k + 1 ELSE k + 2 * h
          BY <2>5, <3>4, <3>5, <3>7, <4>1, <4>2
      <4>5. h \in 0 .. top /\ ~(a <= h)
          BY <2>1, <3>3, <4>2
      <4>6. Good(h)
        <5>1. h \notin Bad
            BY <3>2, <4>5
        <5>2. h \in {b \in 0 .. top : b = 0 \/ T!PowerOfTwo(b)} /\ h \in Nat
            BY <4>2, <4>5
        <5> HIDE DEF Good
        <5>3. QED
            BY <5>1, <5>2
      <4> HIDE DEF k
      <4>7. f[h][k] = r
          BY <4>4, <4>6
      <4>8. QED
          BY <3>4, <4>3, <4>7
    <3>8. QED
        BY <3>6, <3>7
  <2>9. Good(top)
    <3>1. top \in Nat
          /\ top \in {b \in 0 .. top : b = 0 \/ T!PowerOfTwo(b)}
        BY <2>1
    <3> HIDE DEF Good
    <3>2. QED
        BY <2>8, <3>1
  <2>10. f[top][0] = r
    <3>1. 0 \in 0 .. n /\ top # 0 /\ r <= 0 + 2 * top
        BY <2>1, <2>5
    <3>2. QED
        BY <2>9, <3>1
  <2>11. QED
      BY <2>2, <2>4, <2>10
<1>4. CASE list # <<>> /\ (T!BeforeAll(list, date, d) \/ T!BehindAll(list, date, d))
  <2> DEFINE n == Len(list)
             r == T!InsertionIndex(list, date, d)
  <2>1. n \in Nat /\ 256 < n
      BY <1>1, <1>4 DEF T!BeforeAll, T!BehindAll
  <2>2. \A j \in 1 .. n : date[list[j]] \in Int
      BY ElementOfSeq
  <2>3. \A i, j \in 1 .. n : i < j => date[list[i]] <= date[list[j]]
      BY DEF Sorted
  <2>4. CASE T!BeforeAll(list, date, d)
    <3>1. r = 0 /\ d < date[list[1]]
        BY <2>4 DEF T!InsertionIndex, T!BeforeAll
    <3>2. \A j \in 1 .. n : date[list[1]] <= date[list[j]]
        BY <2>1, <2>2, <2>3
    <3> HIDE DEF r
    <3>3. \A j \in 1 .. n : ~(date[list[j]] <= d)
        BY <2>1, <2>2, <3>1, <3>2
    <3>4. QED
        BY <2>1, <3>1, <3>3 DEF IsPlace, r
  <2>5. CASE T!BehindAll(list, date, d)
    <3>1. r = n /\ date[list[n]] <= d
        BY <1>4, <2>5 DEF T!InsertionIndex, T!BeforeAll, T!BehindAll
    <3>2. \A j \in 1 .. n : date[list[j]] <= date[list[n]]
        BY <2>1, <2>2, <2>3
    <3> HIDE DEF r
    <3>3. \A j \in 1 .. n : date[list[j]] <= d
        BY <2>1, <2>2, <3>1, <3>2
    <3>4. QED
        BY <2>1, <3>1, <3>3 DEF IsPlace, r
  <2>6. QED
      BY <1>4, <2>4, <2>5
<1>5. QED
    BY <1>2, <1>3, <1>4
\* The sequence s with e as its i-th member, place by place.
HasInserted(new, s, i, e) ==
    /\ Len(new) = Len(s) + 1
    /\ \A k \in 1 .. Len(s) + 1 :
          new[k] = IF k < i THEN s[k] ELSE IF k = i THEN e ELSE s[k - 1]

\* That is what InsertAt returns.
LEMMA InsertAtIs ==
  ASSUME NEW S, NEW s \in Seq(S), NEW e \in S, NEW i \in 1 .. Len(s) + 1
  PROVE  /\ T!InsertAt(s, i, e) \in Seq(S)
         /\ HasInserted(T!InsertAt(s, i, e), s, i, e)
<1> DEFINE a == SubSeq(s, 1, i - 1)
           b == <<e>>
           z == SubSeq(s, i, Len(s))
           n == Len(s)
<1>1. n \in Nat /\ i \in Nat /\ 1 <= i /\ i <= n + 1
    BY LenProperties
<1>2. \A k \in 1 .. n : s[k] \in S
    BY ElementOfSeq
<1>3. /\ a \in Seq(S) /\ Len(a) = IF 1 <= i - 1 THEN (i - 1) - 1 + 1 ELSE 0
      /\ \A k \in 1 .. (i - 1) - 1 + 1 : a[k] = s[1 + k - 1]
  <2>1. i - 1 \in Int /\ \A k \in 1 .. i - 1 : s[k] \in S
      BY <1>1, <1>2
  <2>2. QED
      BY <2>1, SubSeqProperties
<1>4. /\ z \in Seq(S) /\ Len(z) = IF i <= n THEN n - i + 1 ELSE 0
      /\ \A k \in 1 .. n - i + 1 : z[k] = s[i + k - 1]
  <2>1. i \in Int /\ n \in Int /\ \A k \in i .. n : s[k] \in S
      BY <1>1, <1>2
  <2>2. QED
      BY <2>1, SubSeqProperties
<1>5. b \in Seq(S) /\ Len(b) = 1 /\ b[1] = e
    OBVIOUS
<1>6. T!InsertAt(s, i, e) = a \o b \o z
    BY DEF T!InsertAt
<1> HIDE DEF a, b, z
<1>7. Len(a) = i - 1 /\ Len(z) = n - i + 1
    BY <1>1, <1>3, <1>4
<1>8. /\ a \o b \in Seq(S) /\ Len(a \o b) = i
      /\ \A k \in 1 .. i :
            (a \o b)[k] = IF k <= i - 1 THEN a[k] ELSE b[k - (i - 1)]
  <2>1. /\ a \o b \in Seq(S) /\ Len(a \o b) = Len(a) + Len(b)
        /\ \A k \in 1 .. Len(a) + Len(b) :
              (a \o b)[k] = IF k <= Len(a) THEN a[k] ELSE b[k - Len(a)]
      BY <1>3, <1>5, ConcatProperties
  <2>2. QED
      BY <1>1, <1>5, <1>7, <2>1
<1>9. /\ a \o b \o z \in Seq(S) /\ Len(a \o b \o z) = n + 1
      /\ \A k \in 1 .. n + 1 :
            (a \o b \o z)[k] = IF k <= i THEN (a \o b)[k] ELSE z[k - i]
  <2> DEFINE c == a \o b
  <2>1. c \in Seq(S) /\ Len(c) = i
      BY <1>8
  <2> HIDE DEF c
  <2>2. /\ c \o z \in Seq(S) /\ Len(c \o z) = Len(c) + Len(z)
        /\ \A k \in 1 .. Len(c) + Len(z) :
              (c \o z)[k] = IF k <= Len(c) THEN c[k] ELSE z[k - Len(c)]
      BY <1>4, <2>1, ConcatProperties
  <2>3. Len(c) + Len(z) = n + 1
      BY <1>1, <1>7, <2>1
  <2>4. QED
      BY <2>1, <2>2, <2>3 DEF c
<1> HIDE DEF n
<1>10. \A k \in 1 .. n + 1 :
          (a \o b \o z)[k] = IF k < i THEN s[k] ELSE IF k = i THEN e
                             ELSE s[k - 1]
  <2>1. SUFFICES ASSUME NEW k \in 1 .. n + 1
                 PROVE  (a \o b \o z)[k] = IF k < i THEN s[k]
                                           ELSE IF k = i THEN e ELSE s[k - 1]
      OBVIOUS
  <2>2. CASE k < i
    <3>1. /\ k \in 1 .. (i - 1) - 1 + 1 /\ 1 + k - 1 = k /\ k \in 1 .. i
          /\ k <= i - 1 /\ k <= i
        BY <1>1, <2>2
    <3>2. QED
        BY <1>3, <1>8, <1>9, <2>2, <3>1
  <2>3. CASE k = i
    <3>1. k \in 1 .. i /\ ~(k <= i - 1) /\ k <= i /\ k - (i - 1) = 1
        BY <1>1, <2>3
    <3>2. (a \o b)[k] = b[1]
        BY <1>8, <3>1
    <3>3. (a \o b \o z)[k] = (a \o b)[k]
        BY <1>9, <3>1
    <3>4. QED
        BY <1>1, <1>5, <2>3, <3>2, <3>3
  <2>4. CASE ~(k < i) /\ k # i
    <3>1. /\ ~(k <= i) /\ k - i \in 1 .. n - i + 1
          /\ i + (k - i) - 1 = k - 1
        BY <1>1, <2>4
    <3>2. QED
        BY <1>4, <1>9, <2>4, <3>1
  <2>5. QED
      BY <2>2, <2>3, <2>4
<1>11. QED
    BY <1>6, <1>9, <1>10 DEF n, HasInserted

\* A list without repetitions.
Distinct(list) ==
    \A i, j \in 1 .. Len(list) : list[i] = list[j] => i = j

\* Sorted lists that differ from a list in that timer t is there too ...
WithTimer(new, list, date, t, S) ==
    /\ new \in Seq(S) /\ Sorted(new, date) /\ Distinct(new)
    /\ T!ToSet(new) = T!ToSet(list) \cup {t}

\* ... or not.
WithoutTimer(new, list, date, t, S) ==
    /\ new \in Seq(S) /\ Sorted(new, date) /\ Distinct(new)
    /\ T!ToSet(new) = T!ToSet(list) \ {t}

\* A timer inserted by the bisection keeps the order.
LEMMA Inserted ==
  ASSUME NEW S, NEW list \in Seq(S), NEW date \in [S -> Int], NEW t \in S,
         Sorted(list, date), Distinct(list), t \notin T!ToSet(list)
  PROVE  WithTimer(T!InsertInOrder(list, t, date), list, date, t, S)
<1> DEFINE r == T!InsertionIndex(list, date, date[t])
           new == T!InsertAt(list, r + 1, t)
           n == Len(list)
<1>1. n \in Nat /\ DOMAIN list = 1 .. n
    BY LenProperties
<1>2. r \in 0 .. n /\ \A j \in 1 .. n : date[list[j]] <= date[t] <=> j <= r
    BY InsertionIndexIs DEF IsPlace
<1>3. T!InsertInOrder(list, t, date) = new
    BY DEF T!InsertInOrder
<1> HIDE DEF r
<1>4. r + 1 \in 1 .. n + 1
    BY <1>1, <1>2
<1>5. /\ new \in Seq(S) /\ Len(new) = n + 1
      /\ \A k \in 1 .. n + 1 : new[k] = IF k < r + 1 THEN list[k]
                                        ELSE IF k = r + 1 THEN t
                                        ELSE list[k - 1]
  <2>1. r + 1 \in 1 .. Len(list) + 1
      BY <1>4
  <2>2. new \in Seq(S) /\ HasInserted(new, list, r + 1, t)
      BY <2>1, InsertAtIs
  <2> HIDE DEF new
  <2>3. QED
      BY <2>2 DEF HasInserted
<1> HIDE DEF new
<1>6. \A j \in 1 .. n : list[j] # t /\ date[list[j]] \in Int
  <2>1. \A j \in 1 .. n : list[j] \in S
      BY ElementOfSeq
  <2>2. \A j \in 1 .. n : list[j] # t
      BY <1>1 DEF T!ToSet
  <2>3. QED
      BY <2>1, <2>2
<1>7. \A i, j \in 1 .. n : i < j => date[list[i]] <= date[list[j]]
    BY DEF Sorted
<1>8. \A i, j \in 1 .. n : list[i] = list[j] => i = j
    BY DEF Distinct
<1> HIDE DEF n
<1>9. Sorted(new, date)
  <2>1. SUFFICES ASSUME NEW i \in 1 .. n + 1, NEW j \in 1 .. n + 1, i < j
                 PROVE  date[new[i]] <= date[new[j]]
      BY <1>5 DEF Sorted
  <2>2. CASE j < r + 1
    <3>1. i \in 1 .. n /\ j \in 1 .. n /\ i < r + 1
        BY <1>1, <1>2, <2>1, <2>2
    <3>2. new[i] = list[i] /\ new[j] = list[j]
        BY <1>5, <2>1, <2>2, <3>1
    <3>3. QED
        BY <1>7, <2>1, <3>1, <3>2
  <2>3. CASE j = r + 1
    <3>1. i \in 1 .. n /\ i <= r /\ new[i] = list[i] /\ new[j] = t
        BY <1>1, <1>2, <1>5, <2>1, <2>3
    <3>2. QED
        BY <1>2, <3>1
  <2>4. CASE j > r + 1
    <3>1. j - 1 \in 1 .. n /\ ~(j - 1 <= r) /\ new[j] = list[j - 1]
        BY <1>1, <1>2, <1>5, <2>4
    <3>2. CASE i = r + 1
      <4>1. new[i] = t
          BY <1>5, <3>2
      <4>2. date[list[j - 1]] \in Int /\ date[t] \in Int
            /\ ~(date[list[j - 1]] <= date[t])
          BY <1>2, <1>6, <3>1
      <4>3. QED
          BY <3>1, <4>1, <4>2
    <3>3. CASE i < r + 1
      <4>1. i \in 1 .. n /\ new[i] = list[i] /\ i < j - 1
          BY <1>1, <1>2, <1>5, <2>4, <3>3
      <4>2. QED
          BY <1>7, <3>1, <4>1
    <3>4. CASE i > r + 1
      <4>1. i - 1 \in 1 .. n /\ new[i] = list[i - 1] /\ i - 1 < j - 1
          BY <1>1, <1>2, <1>5, <2>1, <3>4
      <4>2. QED
          BY <1>7, <3>1, <4>1
    <3>5. QED
        BY <1>2, <3>2, <3>3, <3>4
  <2>5. QED
      BY <1>1, <1>2, <2>2, <2>3, <2>4
<1> DEFINE Old(k) == IF k < r + 1 THEN k ELSE k - 1
<1>10. \A k \in 1 .. n + 1 :
         k # r + 1 => Old(k) \in 1 .. n /\ new[k] = list[Old(k)]
    BY <1>1, <1>2, <1>5
<1>11. new[r + 1] = t
    BY <1>4, <1>5
<1>12. Distinct(new)
  <2>1. SUFFICES ASSUME NEW i \in 1 .. n + 1, NEW j \in 1 .. n + 1,
                        new[i] = new[j]
                 PROVE  i = j
      BY <1>5 DEF Distinct
  <2>2. CASE i = r + 1 \/ j = r + 1
      BY <1>6, <1>10, <1>11, <2>1, <2>2
  <2>3. CASE i # r + 1 /\ j # r + 1
    <3>1. Old(i) = Old(j)
      <4>1. Old(i) \in 1 .. n /\ Old(j) \in 1 .. n
            /\ list[Old(i)] = list[Old(j)]
          BY <1>10, <2>1, <2>3
      <4> HIDE DEF Old
      <4>2. QED
          BY <1>8, <4>1
    <3>2. QED
        BY <1>1, <1>2, <2>3, <3>1
  <2>4. QED
      BY <2>2, <2>3
<1>13. T!ToSet(new) = T!ToSet(list) \cup {t}
  <2>1. DOMAIN new = 1 .. n + 1
      BY <1>5, LenProperties
  <2>2. ASSUME NEW j \in 1 .. n
        PROVE  \E k \in 1 .. n + 1 : new[k] = list[j]
    <3>1. CASE j < r + 1
        BY <1>1, <1>5, <3>1
    <3>2. CASE ~(j < r + 1)
      <4>1. j + 1 \in 1 .. n + 1 /\ ~(j + 1 < r + 1) /\ j + 1 # r + 1
            /\ (j + 1) - 1 = j
          BY <1>1, <1>2, <3>2
      <4>2. QED
          BY <1>5, <4>1
    <3>3. QED
        BY <3>1, <3>2
  <2>3. ASSUME NEW k \in 1 .. n + 1
        PROVE  new[k] = t \/ \E j \in 1 .. n : new[k] = list[j]
      BY <1>10, <1>11
  <2>4. r + 1 \in 1 .. n + 1
      BY <1>4
  <2>5. /\ T!ToSet(new) = {new[k] : k \in 1 .. n + 1}
        /\ T!ToSet(list) = {list[j] : j \in 1 .. n}
      BY <1>1, <2>1 DEF T!ToSet
  <2>6. T!ToSet(new) \subseteq T!ToSet(list) \cup {t}
      BY <2>3, <2>5
  <2>7. T!ToSet(list) \cup {t} \subseteq T!ToSet(new)
    <3>1. T!ToSet(list) \subseteq T!ToSet(new)
        BY <2>2, <2>5
    <3>2. t \in T!ToSet(new)
        BY <1>11, <2>4, <2>5
    <3>3. QED
        BY <3>1, <3>2
  <2>8. QED
      BY <2>6, <2>7
<1>14. QED
    BY <1>3, <1>5, <1>9, <1>12, <1>13 DEF WithTimer

\* A timer removed keeps the order, also for dates where only its own is
\* another.
LEMMA RemovedTimer ==
  ASSUME NEW S, NEW list \in Seq(S), NEW date, NEW new, NEW t,
         Sorted(list, date), Distinct(list),
         \A u \in S : u # t => new[u] = date[u]
  PROVE  WithoutTimer(T!RemoveFirst(list, t), list, new, t, S)
<1> DEFINE n == Len(list)
<1>1. n \in Nat /\ DOMAIN list = 1 .. n /\ \A j \in 1 .. n : list[j] \in S
    BY LenProperties, ElementOfSeq
<1>2. \A i, j \in 1 .. n : i < j => date[list[i]] <= date[list[j]]
    BY DEF Sorted
<1>3. \A i, j \in 1 .. n : list[i] = list[j] => i = j
    BY DEF Distinct
<1>4. CASE t \notin T!ToSet(list)
  <2>1. \A j \in 1 .. n : list[j] # t
      BY <1>1, <1>4 DEF T!ToSet
  <2>2. T!RemoveFirst(list, t) = list
      BY <2>1 DEF T!RemoveFirst
  <2>3. Sorted(list, new)
      BY <1>1, <1>2, <2>1 DEF Sorted
  <2>4. QED
      BY <1>4, <2>2, <2>3 DEF WithoutTimer
<1>5. CASE t \in T!ToSet(list)
  <2>1. PICK p \in 1 .. n : list[p] = t
      BY <1>1, <1>5 DEF T!ToSet
  <2> DEFINE rest == RemoveAt(list, p)
             Old(k) == IF k < p THEN k ELSE k + 1
  <2>2. T!RemoveFirst(list, t) = rest
      BY <1>3, <2>1, RemoveFirstIs, SameRemoval
  <2>3. /\ rest \in Seq(S) /\ Len(rest) = n - 1
        /\ \A k \in 1 .. n - 1 :
              rest[k] = IF k < p THEN list[k] ELSE list[k + 1]
      BY RemoveAtIs
  <2> HIDE DEF rest, n
  <2>4. \A k \in 1 .. n - 1 : /\ Old(k) \in 1 .. n /\ Old(k) # p
                              /\ rest[k] = list[Old(k)]
      BY <1>1, <2>3
  <2>5. \A i, j \in 1 .. n - 1 : i < j => Old(i) < Old(j)
      BY <1>1
  <2>6. \A i, j \in 1 .. n - 1 : Old(i) = Old(j) => i = j
      BY <1>1
  <2>7. \A j \in 1 .. n : j # p => \E k \in 1 .. n - 1 : Old(k) = j
    <3>1. SUFFICES ASSUME NEW j \in 1 .. n, j # p
                   PROVE  \E k \in 1 .. n - 1 : Old(k) = j
        OBVIOUS
    <3>2. CASE j < p
      <4>1. j \in 1 .. n - 1 /\ Old(j) = j
          BY <1>1, <3>2
      <4>2. QED
          BY <4>1
    <3>3. CASE ~(j < p)
      <4>1. j - 1 \in 1 .. n - 1 /\ Old(j - 1) = j
          BY <1>1, <3>1, <3>3
      <4>2. QED
          BY <4>1
    <3>4. QED
        BY <3>2, <3>3
  <2> HIDE DEF Old
  <2>8. \A k \in 1 .. n - 1 : rest[k] # t /\ rest[k] \in S
      BY <1>1, <1>3, <2>1, <2>4
  <2>9. Sorted(rest, new)
    <3>1. SUFFICES ASSUME NEW i \in 1 .. n - 1, NEW j \in 1 .. n - 1, i < j
                   PROVE  new[rest[i]] <= new[rest[j]]
        BY <2>3 DEF Sorted
    <3>2. date[rest[i]] <= date[rest[j]]
        BY <1>2, <2>4, <2>5, <3>1
    <3>3. new[rest[i]] = date[rest[i]] /\ new[rest[j]] = date[rest[j]]
        BY <2>8
    <3>4. QED
        BY <3>2, <3>3
  <2>10. Distinct(rest)
    <3>1. SUFFICES ASSUME NEW i \in 1 .. n - 1, NEW j \in 1 .. n - 1,
                          rest[i] = rest[j]
                   PROVE  i = j
        BY <2>3 DEF Distinct
    <3>2. Old(i) = Old(j)
        BY <1>3, <2>4, <3>1
    <3>3. QED
        BY <2>6, <3>2
  <2>11. T!ToSet(rest) = T!ToSet(list) \ {t}
    <3>1. DOMAIN rest = 1 .. n - 1
        BY <2>3, LenProperties
    <3>2. \A k \in 1 .. n - 1 : \E j \in 1 .. n : rest[k] = list[j]
        BY <2>4
    <3>3. \A j \in 1 .. n :
             list[j] # t => \E k \in 1 .. n - 1 : rest[k] = list[j]
        BY <2>1, <2>4, <2>7
    <3>4. /\ T!ToSet(rest) = {rest[k] : k \in 1 .. n - 1}
          /\ T!ToSet(list) = {list[j] : j \in 1 .. n}
        BY <1>1, <3>1 DEF T!ToSet
    <3>5. T!ToSet(rest) \subseteq T!ToSet(list) \ {t}
        BY <2>8, <3>2, <3>4
    <3>6. T!ToSet(list) \ {t} \subseteq T!ToSet(rest)
        BY <3>3, <3>4
    <3>7. QED
        BY <3>5, <3>6
  <2>12. QED
      BY <2>2, <2>3, <2>9, <2>10, <2>11 DEF WithoutTimer
<1>6. QED
    BY <1>4, <1>5
\* Lists of the right type, in order and without repetitions.
ListsOK ==
    /\ timers \in [Modes -> Seq(Timers)] /\ fire \in [Timers -> Int]
    /\ \A m \in Modes : Sorted(timers[m], fire) /\ Distinct(timers[m])

\* What a call may have left to do.
Jobs == [what : {"idle", "add", "set", "invalidate"},
         timer : Timers \cup {NULL}, date : Int, modes : SUBSET Modes]

\* A call that gives a timer another date knows all the modes it is in.
JobsOK ==
    /\ job \in [Threads -> Jobs]
    /\ \A c \in Threads :
         /\ job[c].what = "add" => <<"add", job[c].timer>> \in Calls
         /\ job[c].what = "set" => /\ <<"set", job[c].timer>> \in Calls
                                   /\ T!ModesOf(job[c].timer) \subseteq job[c].modes

\* The frames of nested runs, with their timers to fire from X.
Turns(X) ==
    [mode : Modes, at : {"asleep", "timers", "callout", "removing", "returned"},
     todo : X, timer : Timers \cup {NULL}, old : Int, modes : SUBSET Modes,
     handled : BOOLEAN]

StackOK == \E X : passes \in Seq(Turns(X))

\* No timer that is rescheduled is in more modes than before.
NotElsewhere ==
    \A t \in Timers :
        <<"set", t>> \in Calls => T!ModesOf(t)' \subseteq T!ModesOf(t)

\* Clients do not both add a timer to modes and reschedule it.
EitherOr ==
    \A t \in Timers : ~(<<"add", t>> \in Calls /\ <<"set", t>> \in Calls)

\* Removing a timer from modes keeps the lists.
LEMMA DiscardKeeps ==
  ASSUME ListsOK, NEW t, NEW ms, T!Discard(t, ms), UNCHANGED fire
  PROVE  ListsOK' /\ NotElsewhere
<1>1. timers' = [m \in Modes |-> IF m \in ms THEN T!RemoveFirst(timers[m], t)
                                 ELSE timers[m]]
    BY DEF T!Discard
<1>2. ASSUME NEW m \in Modes
      PROVE  /\ timers'[m] \in Seq(Timers) /\ Sorted(timers'[m], fire)
             /\ Distinct(timers'[m])
             /\ T!ToSet(timers'[m]) \subseteq T!ToSet(timers[m])
  <2>1. /\ timers[m] \in Seq(Timers) /\ Sorted(timers[m], fire)
        /\ Distinct(timers[m])
      BY DEF ListsOK
  <2> DEFINE list == timers[m]
             rest == T!RemoveFirst(list, t)
  <2>2. WithoutTimer(rest, list, fire, t, Timers)
      BY <2>1, RemovedTimer
  <2>3. QED
      BY <1>1, <2>1, <2>2 DEF WithoutTimer
<1>3. ListsOK'
    BY <1>1, <1>2 DEF ListsOK
<1>4. NotElsewhere
    BY <1>2 DEF NotElsewhere, T!ModesOf
<1>5. QED
    BY <1>3, <1>4

\* A timer that is not on a list has no part in its order.
LEMMA SortedElsewhere ==
  ASSUME NEW S, NEW list \in Seq(S), NEW date, NEW new, NEW t,
         Sorted(list, date), t \notin T!ToSet(list),
         \A u \in S : u # t => new[u] = date[u]
  PROVE  Sorted(list, new)
<1>1. \A j \in 1 .. Len(list) : list[j] \in S /\ list[j] # t
    BY ElementOfSeq, LenProperties DEF T!ToSet
<1>2. QED
    BY <1>1 DEF Sorted

\* Giving a timer another date in all its modes keeps the lists.
LEMMA RepositionKeeps ==
  ASSUME ListsOK, NEW t, NEW ms, NEW d \in Int, NEW busy,
         T!Reposition(t, ms, d, busy), T!ModesOf(t) \subseteq ms
  PROVE  ListsOK' /\ NotElsewhere
<1>1. /\ fire' = [fire EXCEPT ![t] = d]
      /\ timers' = [m \in Modes |-> IF m \in T!ModesOf(t)
                      THEN T!InsertInOrder(T!RemoveFirst(timers[m], t), t, fire')
                      ELSE timers[m]]
    BY DEF T!Reposition, T!ModesOf
<1>2. /\ fire' \in [Timers -> Int]
      /\ \A u \in Timers : u # t => fire'[u] = fire[u]
    BY <1>1 DEF ListsOK
<1>3. ASSUME NEW m \in Modes
      PROVE  /\ timers'[m] \in Seq(Timers) /\ Sorted(timers'[m], fire')
             /\ Distinct(timers'[m])
             /\ T!ToSet(timers'[m]) \subseteq T!ToSet(timers[m])
  <2>1. /\ timers[m] \in Seq(Timers) /\ Sorted(timers[m], fire)
        /\ Distinct(timers[m])
      BY DEF ListsOK
  <2>2. CASE t \notin T!ToSet(timers[m])
    <3>1. timers'[m] = timers[m]
        BY <1>1, <2>2 DEF T!ModesOf
    <3>2. Sorted(timers[m], fire')
        BY <1>2, <2>1, <2>2, SortedElsewhere
    <3>3. QED
        BY <2>1, <3>1, <3>2
  <2>3. CASE t \in T!ToSet(timers[m])
    <3> DEFINE rest == T!RemoveFirst(timers[m], t)
    <3>1. WithoutTimer(rest, timers[m], fire', t, Timers)
        BY <1>2, <2>1, RemovedTimer
    <3>2. timers'[m] = T!InsertInOrder(rest, t, fire')
        BY <1>1, <2>3 DEF T!ModesOf
    <3>3. t \in Timers
        BY <2>1, <2>3, ElementOfSeq, LenProperties DEF T!ToSet
    <3> HIDE DEF rest
    <3>4. WithTimer(timers'[m], rest, fire', t, Timers)
        BY <1>2, <3>1, <3>2, <3>3, Inserted DEF WithoutTimer
    <3>5. QED
        BY <2>3, <3>1, <3>4 DEF WithoutTimer, WithTimer
  <2>4. QED
      BY <2>2, <2>3
<1>4. ListsOK'
    BY <1>1, <1>2, <1>3 DEF ListsOK
<1>5. NotElsewhere
    BY <1>3 DEF NotElsewhere, T!ModesOf
<1>6. QED
    BY <1>4, <1>5

\* Adding a timer to modes keeps the lists, and nothing is rescheduled there.
LEMMA AddedKeeps ==
  ASSUME EitherOr, ListsOK, JobsOK, NEW c \in Threads, T!Added(c),
         T!TimersAssumption
  PROVE  ListsOK' /\ NotElsewhere
<1> DEFINE t == job[c].timer
           new == job[c].modes \ T!ModesOf(t)
<1>1. /\ <<"add", t>> \in Calls /\ UNCHANGED fire
      /\ timers' = [m \in Modes |->
                      IF m \in new THEN T!InsertInOrder(timers[m], t, fire)
                      ELSE timers[m]]
    BY DEF T!Added, JobsOK
<1>2. t \in Timers /\ ~(<<"set", t>> \in Calls)
    BY <1>1 DEF EitherOr, T!TimersAssumption
<1>3. \A m \in new \cap Modes : t \notin T!ToSet(timers[m])
    BY DEF T!ModesOf
<1> HIDE DEF t, new
<1>4. ASSUME NEW m \in Modes
      PROVE  /\ timers'[m] \in Seq(Timers) /\ Sorted(timers'[m], fire)
             /\ Distinct(timers'[m])
             /\ T!ToSet(timers'[m]) \subseteq T!ToSet(timers[m]) \cup {t}
  <2>1. /\ timers[m] \in Seq(Timers) /\ Sorted(timers[m], fire)
        /\ Distinct(timers[m]) /\ fire \in [Timers -> Int]
      BY DEF ListsOK
  <2>2. CASE m \notin new
      BY <1>1, <2>1, <2>2
  <2>3. CASE m \in new
    <3>1. timers'[m] = T!InsertInOrder(timers[m], t, fire)
        BY <1>1, <2>3
    <3>2. t \notin T!ToSet(timers[m])
        BY <1>3, <2>3
    <3>3. WithTimer(T!InsertInOrder(timers[m], t, fire), timers[m], fire, t, Timers)
        BY <1>2, <2>1, <3>2, Inserted
    <3>4. QED
        BY <3>1, <3>3 DEF WithTimer
  <2>4. QED
      BY <2>2, <2>3
<1>5. ListsOK'
    BY <1>1, <1>4 DEF ListsOK
<1>6. NotElsewhere
    BY <1>2, <1>4 DEF NotElsewhere, T!ModesOf
<1>7. QED
    BY <1>5, <1>6

\* The calls under way are as they were, or one has ended ...
LEMMA JobsKept ==
  ASSUME JobsOK, NotElsewhere, T!TimersAssumption,
         \/ UNCHANGED job
         \/ \E c \in Threads : job' = [job EXCEPT ![c] = T!Idle]
  PROVE  JobsOK'
<1>1. T!Idle \in Jobs /\ T!Idle.what = "idle"
    BY DEF T!Idle, Jobs
<1>2. job' \in [Threads -> Jobs]
    BY <1>1 DEF JobsOK
<1>3. \A c \in Threads : job'[c] = job[c] \/ job'[c] = T!Idle
    BY <1>1 DEF JobsOK
<1>4. ASSUME NEW c \in Threads, job'[c] = job[c]
      PROVE  /\ job'[c].what = "add" => <<"add", job'[c].timer>> \in Calls
             /\ job'[c].what = "set" =>
                  /\ <<"set", job'[c].timer>> \in Calls
                  /\ \A m \in Modes : job'[c].timer \in T!ToSet(timers'[m])
                                      => m \in job'[c].modes
  <2>1. SUFFICES ASSUME job[c].what = "set"
                 PROVE  \A m \in Modes : job[c].timer \in T!ToSet(timers'[m])
                                        => m \in job[c].modes
      BY <1>4 DEF JobsOK
  <2>2. <<"set", job[c].timer>> \in Calls
        /\ T!ModesOf(job[c].timer) \subseteq job[c].modes
      BY <2>1 DEF JobsOK
  <2>3. job[c].timer \in Timers
      BY <2>2 DEF T!TimersAssumption
  <2>4. QED
      BY <2>2, <2>3 DEF NotElsewhere, T!ModesOf
<1>5. QED
    BY <1>1, <1>2, <1>3, <1>4 DEF JobsOK, T!ModesOf

\* ... or one begins.
LEMMA JobsBegun ==
  ASSUME JobsOK, UNCHANGED timers, NEW c \in Threads, NEW t, NEW d \in Int,
         NEW what \in {"add", "set", "invalidate"}, <<what, t>> \in Calls,
         NEW ms \in SUBSET Modes, what = "set" => ms = T!ModesOf(t),
         T!Begin(c, what, t, d, ms), T!TimersAssumption
  PROVE  JobsOK'
<1> DEFINE j == [what |-> what, timer |-> t, date |-> d, modes |-> ms]
<1>1. j \in Jobs /\ j.what = what /\ j.timer = t /\ j.modes = ms
    BY DEF Jobs, T!TimersAssumption
<1>2. job' = [job EXCEPT ![c] = j]
    BY DEF T!Begin
<1> HIDE DEF j
<1>3. /\ job' \in [Threads -> Jobs] /\ job'[c] = j
      /\ \A b \in Threads : b # c => job'[b] = job[b]
    BY <1>1, <1>2 DEF JobsOK
<1>4. \A u : T!ModesOf(u)' = T!ModesOf(u)
    BY DEF T!ModesOf
<1>5. QED
    BY <1>1, <1>3, <1>4 DEF JobsOK

\* The innermost frame of the stack is another.
LEMMA StackSet ==
  ASSUME passes # <<>>, NEW X, passes \in Seq(Turns(X)), NEW Y,
         NEW f \in Turns(Y), T!SetTop(f)
  PROVE  StackOK'
<1>1. Turns(X) \subseteq Turns(X \cup Y) /\ f \in Turns(X \cup Y)
    BY DEF Turns
<1>2. passes \in Seq(Turns(X \cup Y))
    BY <1>1, SeqMonotonic
<1>3. T!Depth \in 1 .. Len(passes)
    BY <1>2, EmptySeq DEF T!Depth
<1>4. passes' \in Seq(Turns(X \cup Y))
    BY <1>1, <1>2, <1>3, ExceptSeq DEF T!SetTop
<1>5. QED
    BY <1>4 DEF StackOK

\* What every step keeps: the lists, the calls under way, the stack's form.
ListInv ==
    /\ ListsOK /\ JobsOK /\ StackOK
    /\ now \in Int /\ alive \subseteq Timers

\* The lists of the initial state: all timers have the same date.
LEMMA ListsAtFirst == T!TimersAssumption /\ T!Init => ListInv
<1> SUFFICES ASSUME T!TimersAssumption, T!Init  PROVE ListInv
    OBVIOUS
<1>1. ASSUME NEW m \in Modes
      PROVE  timers[m] \in Seq(Timers) /\ Distinct(timers[m])
  <2> DEFINE S == {t \in Timers : m \in Placed[t]}
             n == Cardinality(S)
  <2>1. timers[m] = T!SetToSeq(S)
      BY DEF T!Init
  <2>2. IsFiniteSet(S)
      BY FS_Subset, SameSizes DEF T!TimersAssumption
  <2>3. n \in Nat /\ \E f \in [1 .. n -> S] : IsInjective(f)
      BY <2>2, FS_CardinalityType, Zenon
         DEF ExistsBijection, Bijection, Injection
  <2>4. timers[m] \in [1 .. n -> S] /\ IsInjective(timers[m])
      BY <2>1, <2>3, SameSizes, Zenon
         DEF T!SetToSeq, T!IsInjective, IsInjective
  <2> HIDE DEF n
  <2>5. S \subseteq Timers
      OBVIOUS
  <2> HIDE DEF S
  <2>6. /\ timers[m] \in Seq(Timers) /\ Len(timers[m]) = n
        /\ DOMAIN timers[m] = 1 .. n
      BY <2>3, <2>4, <2>5
  <2>7. QED
      BY <2>4, <2>6 DEF IsInjective, Distinct
<1>2. \A t \in Timers : fire[t] = 1
    BY DEF T!Init
<1>3. ASSUME NEW m \in Modes
      PROVE  Sorted(timers[m], fire)
  <2>1. \A j \in 1 .. Len(timers[m]) : timers[m][j] \in Timers
      BY <1>1, ElementOfSeq
  <2>2. QED
      BY <1>2, <2>1 DEF Sorted
<1>4. ListsOK
    BY <1>1, <1>3 DEF T!Init, ListsOK
<1>5. JobsOK
    BY DEF T!Init, JobsOK, Jobs, T!Idle
<1>6. StackOK
    BY EmptySeq DEF T!Init, StackOK
<1>7. QED
    BY <1>4, <1>5, <1>6 DEF T!Init, ListInv

\* While no list changes no timer gets on another.
LEMMA ListsUntouched ==
  ASSUME ListsOK, UNCHANGED <<timers, fire>>
  PROVE  ListsOK' /\ NotElsewhere
  BY DEF ListsOK, NotElsewhere, T!ModesOf

\* The frame that the loop's thread is in.
LEMMA TopIs ==
  ASSUME NEW X, passes \in Seq(Turns(X)), passes # <<>>
  PROVE  T!Top \in Turns(X)
<1>1. Len(passes) \in Nat \ {0}
    BY EmptySeq
<1>2. QED
    BY <1>1, ElementOfSeq DEF T!Top, T!Depth

\* The lists and the calls under way after a step of the loop.
LEMMA LoopKeepsLists ==
  ASSUME T!TimersAssumption, ListInv, T!LoopStep
  PROVE  ListsOK' /\ JobsOK'
<1> USE DEF ListInv
<1>1. UNCHANGED job
    BY DEF T!LoopStep, T!Receive, T!Skip, T!Fire, T!Expire, T!Removed,
           T!Return, T!Finish, T!Done,
           T!Resume
<1>2. ListsOK' /\ NotElsewhere
  <2>1. CASE T!Receive \/ T!Skip \/ T!Fire \/ T!Expire \/ T!Finish \/ T!Done
    <3>1. UNCHANGED <<timers, fire>>
        BY <2>1 DEF T!Receive, T!Skip, T!Fire, T!Expire, T!Finish, T!Done,
                    T!listVars
    <3>2. QED
        BY <3>1, ListsUntouched
  <2>2. CASE T!Removed
      BY <2>2, DiscardKeeps DEF T!Removed
  <2>3. CASE T!Return
    <3> DEFINE t == T!Top.timer
    <3>1. CASE UNCHANGED <<timers, fire>>
        BY <3>1, ListsUntouched
    <3>2. CASE /\ t \in alive
               /\ T!Reposition(t, Modes, T!NextDate(t, T!Top.old), firing \ {t})
      <4>1. t \in Timers
          BY <3>2
      <4>2. PICK X : passes \in Seq(Turns(X))
          BY DEF StackOK
      <4>3. T!Top \in Turns(X)
          BY <2>3, <4>2, TopIs DEF T!Return, T!At
      <4>4. T!Top.old \in Int
          BY <4>3 DEF Turns
      <4>5. Interval[t] \in Int /\ Interval[t] > 0
          BY <2>3, <4>1 DEF T!Return, T!TimersAssumption
      <4> HIDE DEF t
      <4>6. T!NextDate(t, T!Top.old) \in Int
        <5>1. (now - T!Top.old) \div Interval[t] \in Int
            BY <4>4, <4>5
        <5> DEFINE k == (now - T!Top.old) \div Interval[t] + 1
        <5>2. k \in Int
            BY <5>1
        <5>3. T!NextDate(t, T!Top.old) = T!Top.old + Interval[t] * k
            BY DEF T!NextDate
        <5> HIDE DEF k
        <5>4. QED
            BY <4>4, <4>5, <5>2, <5>3
      <4>7. T!ModesOf(t) \subseteq Modes
          BY DEF T!ModesOf
      <4>8. QED
          BY <3>2, <4>6, <4>7, RepositionKeeps
    <3>3. QED
        BY <2>3, <3>1, <3>2 DEF T!Return
  <2>4. QED
      BY <2>1, <2>2, <2>3 DEF T!LoopStep
<1>3. QED
    BY <1>1, <1>2, JobsKept

\* ... and after a step of a client.
LEMMA ClientKeepsLists ==
  ASSUME T!TimersAssumption, EitherOr, ListInv, NEW c \in Threads,
         \/ T!Finishing(c)
         \/ \E t \in Timers :
               \/ T!Invalidate(c, t)
               \/ \E m \in Modes : T!AddTimer(c, t, m) \/ T!RemoveTimer(c, t, m)
               \/ \E d \in now .. MaxTime + 1 : T!SetNextFireDate(c, t, d)
  PROVE  ListsOK' /\ JobsOK'
<1> USE DEF ListInv
<1>1. CASE T!Added(c)
  <2>1. ListsOK' /\ NotElsewhere
      BY <1>1, AddedKeeps
  <2>2. QED
      BY <1>1, <2>1, JobsKept DEF T!Added, T!End
<1>2. CASE T!DateSet(c)
  <2> DEFINE j == job[c]
  <2>1. j \in Jobs /\ T!ModesOf(j.timer) \subseteq j.modes
      BY <1>2 DEF T!DateSet, JobsOK
  <2>2. j.date \in Int
      BY <2>1 DEF Jobs
  <2>3. T!Reposition(j.timer, j.modes, j.date, firing)
      BY <1>2 DEF T!DateSet
  <2>4. ListsOK' /\ NotElsewhere
      BY <2>1, <2>2, <2>3, RepositionKeeps
  <2>5. QED
      BY <1>2, <2>4, JobsKept DEF T!DateSet, T!End
<1>3. CASE T!Invalidated(c)
  <2>1. ListsOK' /\ NotElsewhere
      BY <1>3, DiscardKeeps DEF T!Invalidated
  <2>2. QED
      BY <1>3, <2>1, JobsKept DEF T!Invalidated, T!End
<1>4. ASSUME NEW t \in Timers, T!Invalidate(c, t)
      PROVE  ListsOK' /\ JobsOK'
  <2>1. ListsOK'
      BY <1>4, ListsUntouched DEF T!Invalidate
  <2>2. /\ <<"invalidate", t>> \in Calls /\ UNCHANGED timers
        /\ T!Begin(c, "invalidate", t, 0, T!ModesOf(t))
      BY <1>4 DEF T!Invalidate, T!MayCall
  <2>3. T!ModesOf(t) \in SUBSET Modes /\ 0 \in Int
      BY DEF T!ModesOf
  <2>4. "invalidate" \in {"add", "set", "invalidate"} /\ "invalidate" # "set"
      OBVIOUS
  <2>5. JobsOK'
      BY <2>2, <2>3, <2>4, JobsBegun, Zenon
  <2>6. QED
      BY <2>1, <2>5
<1>5. ASSUME NEW t \in Timers, NEW m \in Modes, T!AddTimer(c, t, m)
      PROVE  ListsOK' /\ JobsOK'
  <2>1. ListsOK'
      BY <1>5, ListsUntouched DEF T!AddTimer, T!listVars
  <2>2. /\ <<"add", t>> \in Calls /\ UNCHANGED timers
        /\ T!Begin(c, "add", t, 0, {m})
      BY <1>5 DEF T!AddTimer, T!MayCall, T!listVars
  <2>3. {m} \in SUBSET Modes /\ 0 \in Int
      OBVIOUS
  <2>4. "add" \in {"add", "set", "invalidate"} /\ "add" # "set"
      OBVIOUS
  <2>5. JobsOK'
      BY <2>2, <2>3, <2>4, JobsBegun, Zenon
  <2>6. QED
      BY <2>1, <2>5
<1>6. ASSUME NEW t \in Timers, NEW m \in Modes, T!RemoveTimer(c, t, m)
      PROVE  ListsOK' /\ JobsOK'
  <2>1. ListsOK' /\ NotElsewhere
      BY <1>6, DiscardKeeps DEF T!RemoveTimer
  <2>2. QED
      BY <1>6, <2>1, JobsKept DEF T!RemoveTimer
<1>7. ASSUME NEW t \in Timers, NEW d \in now .. MaxTime + 1,
             T!SetNextFireDate(c, t, d)
      PROVE  ListsOK' /\ JobsOK'
  <2>1. d \in Int /\ UNCHANGED timers
      BY <1>7 DEF T!TimersAssumption, T!SetNextFireDate
  <2>2. CASE T!ModesOf(t) = {}
    <3>1. fire' = [fire EXCEPT ![t] = d] /\ UNCHANGED job
        BY <1>7, <2>2 DEF T!SetNextFireDate
    <3>2. /\ fire' \in [Timers -> Int]
          /\ \A u \in Timers : u # t => fire'[u] = fire[u]
        BY <2>1, <3>1 DEF ListsOK
    <3>3. ASSUME NEW m \in Modes
          PROVE  Sorted(timers[m], fire')
      <4>1. t \notin T!ToSet(timers[m])
          BY <2>2 DEF T!ModesOf
      <4>2. timers[m] \in Seq(Timers) /\ Sorted(timers[m], fire)
          BY DEF ListsOK
      <4>3. QED
        <5>1. \A j \in 1 .. Len(timers[m]) :
                 timers[m][j] \in Timers /\ timers[m][j] # t
            BY <4>1, <4>2, ElementOfSeq, LenProperties DEF T!ToSet
        <5>2. QED
            BY <3>2, <4>2, <5>1 DEF Sorted
    <3>4. ListsOK'
        BY <2>1, <3>2, <3>3 DEF ListsOK
    <3>5. NotElsewhere
        BY <2>1 DEF NotElsewhere, T!ModesOf
    <3>6. QED
        BY <3>1, <3>4, <3>5, JobsKept
  <2>3. CASE T!ModesOf(t) # {}
    <3>1. /\ <<"set", t>> \in Calls /\ UNCHANGED fire
          /\ T!Begin(c, "set", t, d, T!ModesOf(t))
        BY <1>7, <2>3 DEF T!SetNextFireDate, T!MayCall
    <3>2. ListsOK'
        BY <2>1, <3>1, ListsUntouched
    <3>3. T!ModesOf(t) \in SUBSET Modes
        BY DEF T!ModesOf
    <3>4. JobsOK'
        BY <2>1, <3>1, <3>3, JobsBegun
    <3>5. QED
        BY <3>2, <3>4
  <2>4. QED
      BY <2>2, <2>3
<1>8. QED
    BY <1>1, <1>2, <1>3, <1>4, <1>5, <1>6, <1>7 DEF T!Finishing

\* A step of the loop keeps the form of the stack.
LEMMA StackKept ==
  ASSUME T!TimersAssumption, ListInv,
         T!LoopStep \/ T!Leave \/ \E m \in Modes : T!Run(m)
  PROVE  StackOK'
<1>1. PICK X : passes \in Seq(Turns(X))
    BY DEF ListInv, StackOK
<1>2. passes # <<>> => T!Top \in Turns(X)
    BY <1>1, TopIs
<1>3. ASSUME NEW m \in Modes, T!Run(m)
      PROVE  StackOK'
  <2> DEFINE f == [mode |-> m, at |-> "asleep", todo |-> <<>>, timer |-> NULL,
                   old |-> 0, modes |-> {}, handled |-> FALSE]
             Y == X \cup {<<>>}
  <2>1. f \in Turns(Y) /\ Turns(X) \subseteq Turns(Y)
      BY DEF Turns
  <2>2. passes' = Append(passes, f)
      BY <1>3 DEF T!Run
  <2> HIDE DEF f, Y
  <2>3. passes' \in Seq(Turns(Y))
      BY <1>1, <2>1, <2>2, SeqMonotonic, AppendProperties
  <2>4. QED
      BY <2>3 DEF StackOK
<1>4. CASE T!Leave
  <2>1. passes' = SubSeq(passes, 1, Len(passes) - 1) /\ passes # <<>>
      BY <1>4 DEF T!Leave, T!Front, T!At
  <2>2. Len(passes) \in Nat
      BY <1>1, LenProperties
  <2>3. \A i \in 1 .. Len(passes) - 1 : passes[i] \in Turns(X)
      BY <1>1, <2>2, ElementOfSeq
  <2>4. passes' \in Seq(Turns(X))
      BY <2>1, <2>2, <2>3, SubSeqProperties
  <2>5. QED
      BY <2>4 DEF StackOK
<1>5. CASE UNCHANGED passes
    BY <1>5 DEF ListInv, StackOK
<1>6. ASSUME passes # <<>>, NEW Y, NEW f \in Turns(Y), T!SetTop(f)
      PROVE  StackOK'
    BY <1>1, <1>6, StackSet
<1>7. CASE T!LoopStep
  <2>1. passes # <<>>
      BY <1>7 DEF T!LoopStep, T!Receive, T!Skip, T!Fire, T!Expire, T!Removed,
                  T!Return, T!Finish,
                  T!Done, T!At
  <2>2. T!Top \in Turns(X)
      BY <1>2, <2>1
  <2>3. CASE T!Receive
    <3> DEFINE f == [T!Top EXCEPT !.at = "timers", !.todo = T!Due(T!Top.mode)]
    <3>1. f \in Turns({T!Due(T!Top.mode)})
        BY <2>2 DEF Turns
    <3>2. UNCHANGED passes \/ T!SetTop(f)
        BY <2>3 DEF T!Receive
    <3>3. QED
        BY <1>5, <1>6, <2>1, <3>1, <3>2
  <2>4. CASE T!Skip
    <3> DEFINE f == [T!Top EXCEPT !.todo = Tail(@)]
    <3>1. f \in Turns({Tail(T!Top.todo)})
        BY <2>2 DEF Turns
    <3>2. T!SetTop(f)
        BY <2>4 DEF T!Skip
    <3>3. QED
        BY <1>6, <2>1, <3>1, <3>2
  <2>5. CASE T!Fire
    <3> DEFINE t == Head(T!Top.todo)
               f == [T!Top EXCEPT !.at = "callout", !.timer = t, !.old = fire[t],
                                !.todo = Tail(@), !.handled = TRUE]
    <3>1. t \in Timers /\ fire[t] \in Int
        BY <2>5 DEF T!Fire, ListInv, ListsOK
    <3>2. f \in Turns({Tail(T!Top.todo)})
        BY <2>2, <3>1 DEF Turns
    <3>3. T!SetTop(f)
        BY <2>5 DEF T!Fire
    <3>4. QED
        BY <1>6, <2>1, <3>2, <3>3
  <2>6. CASE T!Expire
    <3> DEFINE f == [T!Top EXCEPT !.at = "removing",
                       !.modes = IF T!Top.timer \in alive THEN T!ModesOf(T!Top.timer)
                                                        ELSE {}]
    <3>1. f \in Turns(X)
        BY <2>2 DEF Turns, T!ModesOf
    <3>2. T!SetTop(f)
        BY <2>6 DEF T!Expire
    <3>3. QED
        BY <1>6, <2>1, <3>1, <3>2
  <2>7. CASE T!Removed
    <3> DEFINE f == [T!Top EXCEPT !.at = "returned", !.modes = {}]
    <3>1. f \in Turns(X)
        BY <2>2 DEF Turns
    <3>2. T!SetTop(f)
        BY <2>7 DEF T!Removed
    <3>3. QED
        BY <1>6, <2>1, <3>1, <3>2
  <2>8. CASE T!Return \/ T!Finish
    <3> DEFINE f == [T!Top EXCEPT !.at = "timers", !.timer = NULL, !.old = 0]
    <3>1. f \in Turns(X)
      <4>1. "timers" \in {"asleep", "timers", "callout", "removing", "returned"}
            /\ NULL \in Timers \cup {NULL} /\ 0 \in Int
          OBVIOUS
      <4>2. QED
          BY <2>2, <4>1 DEF Turns
    <3>2. T!SetTop(f)
        BY <2>8 DEF T!Return, T!Finish, T!Resume
    <3>3. QED
        BY <1>6, <2>1, <3>1, <3>2
  <2>9. CASE T!Done
    <3> DEFINE f == [T!Top EXCEPT !.at = "asleep", !.handled = FALSE]
    <3>1. f \in Turns(X)
        BY <2>2 DEF Turns
    <3>2. T!SetTop(f)
        BY <2>9 DEF T!Done
    <3>3. QED
        BY <1>6, <2>1, <3>1, <3>2
  <2>10. QED
      BY <1>7, <2>3, <2>4, <2>5, <2>6, <2>7, <2>8, <2>9 DEF T!LoopStep
<1>8. QED
    BY <1>3, <1>4, <1>7

\* The clock and the valid timers.
LEMMA ClockKept ==
  ASSUME ListInv, T!Next
  PROVE  now' \in Int /\ alive' \subseteq Timers
<1>1. now' \in {now, now + 1}
    BY DEF T!Next, T!LoopStep, T!Finishing, T!Receive, T!Skip, T!Fire,
           T!Expire, T!Removed, T!Return,
           T!Resume, T!Finish, T!Done, T!Leave, T!Tick, T!Run, T!Ring,
           T!Added, T!DateSet,
           T!Invalidated, T!Invalidate, T!AddTimer, T!RemoveTimer,
           T!SetNextFireDate
<1>2. alive' \subseteq alive
    BY DEF T!Next, T!LoopStep, T!Finishing, T!Receive, T!Skip, T!Fire,
           T!Expire, T!Removed, T!Return,
           T!Resume, T!Finish, T!Done, T!Leave, T!Tick, T!Run, T!Ring,
           T!Added, T!DateSet,
           T!Invalidated, T!Invalidate, T!AddTimer, T!RemoveTimer,
           T!SetNextFireDate,
           T!listVars
<1>3. QED
    BY <1>1, <1>2 DEF ListInv

\* The invariant is inductive.
LEMMA ListInvInductive ==
  ASSUME T!TimersAssumption, EitherOr, ListInv, [T!Next]_(T!timerVars)
  PROVE  ListInv'
<1>1. CASE UNCHANGED T!timerVars
  <2>1. UNCHANGED <<now, timers, fire, alive, passes, job>>
      BY <1>1 DEF T!timerVars, T!listVars
  <2>2. QED
      BY <2>1 DEF ListInv, ListsOK, JobsOK, StackOK, T!ModesOf
<1>2. CASE T!Next
  <2>1. now' \in Int /\ alive' \subseteq Timers
      BY <1>2, ClockKept
  <2>2. CASE T!LoopStep
      BY <2>1, <2>2, LoopKeepsLists, StackKept DEF ListInv
  <2>3. CASE T!Leave \/ T!Tick \/ \E m \in Modes : T!Run(m) \/ T!Ring(m)
    <3>1. UNCHANGED <<timers, fire, job>>
        BY <2>3 DEF T!Leave, T!Tick, T!Run, T!Ring, T!listVars
    <3>2. ListsOK' /\ JobsOK'
        BY <3>1, ListsUntouched, JobsKept DEF ListInv
    <3>3. StackOK'
      <4>1. CASE T!Leave \/ \E m \in Modes : T!Run(m)
          BY <4>1, StackKept
      <4>2. CASE T!Tick \/ \E m \in Modes : T!Ring(m)
          BY <4>2 DEF T!Tick, T!Ring, ListInv, StackOK
      <4>3. QED
          BY <2>3, <4>1, <4>2
    <3>4. QED
        BY <2>1, <3>2, <3>3 DEF ListInv
  <2>4. ASSUME NEW c \in Threads,
               \/ T!Finishing(c)
               \/ \E t \in Timers :
                     \/ T!Invalidate(c, t)
                     \/ \E m \in Modes : T!AddTimer(c, t, m) \/ T!RemoveTimer(c, t, m)
                     \/ \E d \in now .. MaxTime + 1 : T!SetNextFireDate(c, t, d)
        PROVE  ListInv'
    <3>1. ListsOK' /\ JobsOK'
        BY <2>4, ClientKeepsLists
    <3>2. UNCHANGED passes
        BY <2>4 DEF T!Finishing, T!Added, T!DateSet, T!Invalidated,
                    T!Invalidate, T!AddTimer,
                    T!RemoveTimer, T!SetNextFireDate
    <3>3. StackOK'
        BY <3>2 DEF ListInv, StackOK
    <3>4. QED
        BY <2>1, <3>1, <3>3 DEF ListInv
  <2>5. QED
      BY <1>2, <2>2, <2>3, <2>4 DEF T!Next
<1>3. QED
    BY <1>1, <1>2

\* Lists of the right type in the order of the dates are sorted.
LEMMA SortedFollows ==
  ASSUME ListInv
  PROVE  SortedByDate
<1>1. DOMAIN timers = Modes
    BY DEF ListInv, ListsOK
<1>2. \A m \in Modes : DOMAIN timers[m] = 1 .. Len(timers[m])
    BY LenProperties DEF ListInv, ListsOK
<1>3. QED
    BY <1>1, <1>2 DEF ListInv, ListsOK, SortedByDate, Sorted

\* Each mode's timers stay in the order of their dates, whatever adds, moves and
\* removes them, for any timers, dates, calls and depth of nesting, if clients do
\* not both add a timer to modes and reschedule it.  Without that it is false:
\* CFRunLoopTimerSetNextFireDate() notes the modes before it takes the lock.
THEOREM TimersInOrder ==
  ASSUME T!TimersAssumption, EitherOr
  PROVE  T!Spec => []SortedByDate
<1>1. T!Init => ListInv
    BY ListsAtFirst
<1>2. ListInv /\ [T!Next]_(T!timerVars) => ListInv'
    BY ListInvInductive
<1>3. ListInv => SortedByDate
    BY SortedFollows
<1>4. QED
    BY <1>1, <1>2, <1>3, PTL DEF T!Spec

=============================================================================
