--------------------------- MODULE SelectionProofs ---------------------------
(***************************************************************************)
(* What the selection of a sequence's elements returns, the least and the  *)
(* greatest of finitely many numbers, the states of a computation that     *)
(* goes one step at a time, and the sequences of a sequence joined.        *)
(***************************************************************************)
EXTENDS Selections, Integers, SequencesExt, FiniteSetTheorems, SequenceTheorems,
        NaturalsInduction, TLAPS

\* The members of T among the first n elements of s.
Kept(s, T, earlier, n) == IF s[n] \in T THEN Append(earlier, s[n]) ELSE earlier
Builds(f, s, T, k) == f = [n \in 0 .. k |-> IF n = 0 THEN <<>> ELSE Kept(s, T, f[n - 1], n)]

LEMMA ThoseIsBuilt ==
  ASSUME NEW S, NEW s \in Seq(S), NEW T
  PROVE  \E f : Builds(f, s, T, Len(s)) /\ Those(s, T) = f[Len(s)]
<1> DEFINE bad == {k \in Nat : ~\E f : Builds(f, s, T, k)}
           upTo == CHOOSE f : f = [n \in 0 .. Len(s) |-> IF n = 0 THEN <<>>
               ELSE IF s[n] \in T THEN Append(f[n - 1], s[n]) ELSE f[n - 1]]
<1>1. \E f : Builds(f, s, T, 0)
  <2> DEFINE f == [n \in 0 .. 0 |-> <<>>]
  <2>1. Builds(f, s, T, 0)
    BY DEF Builds
  <2> QED
    BY <2>1
<1>2. ASSUME NEW k \in Nat, NEW f, Builds(f, s, T, k) PROVE \E g : Builds(g, s, T, k + 1)
  <2> DEFINE g == [n \in 0 .. k + 1 |-> IF n = k + 1 THEN Kept(s, T, f[k], k + 1) ELSE f[n]]
  <2>1. DOMAIN f = 0 .. k /\ \A n \in 0 .. k : f[n] = IF n = 0 THEN <<>> ELSE Kept(s, T, f[n - 1], n)
    BY <1>2 DEF Builds
  <2>2. ASSUME NEW n \in 0 .. k + 1 PROVE g[n] = IF n = 0 THEN <<>> ELSE Kept(s, T, g[n - 1], n)
    <3>1. CASE n = k + 1
      <4>1. n # 0 /\ n - 1 = k /\ k \in 0 .. k + 1 /\ k # k + 1
        BY <3>1
      <4>2. g[n - 1] = f[k] /\ g[n] = Kept(s, T, f[k], n)
        BY <3>1, <4>1
      <4> QED
        BY <4>1, <4>2
    <3>2. CASE n # k + 1 /\ n # 0
      <4>1. n \in 0 .. k /\ n - 1 \in 0 .. k /\ n - 1 \in 0 .. k + 1 /\ n - 1 # k + 1
        BY <3>2
      <4> QED
        BY <2>1, <3>2, <4>1
    <3>3. CASE n = 0
      BY <2>1, <3>3
    <3> QED
      BY <3>1, <3>2, <3>3
  <2> HIDE DEF g
  <2>3. g = [n \in 0 .. k + 1 |-> IF n = 0 THEN <<>> ELSE Kept(s, T, g[n - 1], n)]
    BY <2>2 DEF g
  <2> QED
    BY <2>3 DEF Builds
<1>3. bad = {}
  <2> SUFFICES ASSUME bad # {} PROVE FALSE
    OBVIOUS
  <2>1. PICK x \in bad : \A y \in bad : ~(<<y, x>> \in OpToRel(<, Nat))
    BY NatLessThanWellFounded, WFMin
  <2>2. \A y \in bad : ~(y < x)
    BY <2>1 DEF OpToRel
  <2>3. x # 0
    BY <1>1
  <2>4. x - 1 \in Nat /\ x - 1 < x /\ (x - 1) + 1 = x
    BY <2>3
  <2>5. \E f : Builds(f, s, T, x - 1)
    BY <2>2, <2>4
  <2> QED
    BY <1>2, <2>4, <2>5
<1>4. Len(s) \in Nat
  OBVIOUS
<1>5. \E f : Builds(f, s, T, Len(s))
  BY <1>3, <1>4
<1>6. \E f : f = [n \in 0 .. Len(s) |-> IF n = 0 THEN <<>>
               ELSE IF s[n] \in T THEN Append(f[n - 1], s[n]) ELSE f[n - 1]]
  BY <1>5 DEF Builds, Kept
<1>7. upTo = [n \in 0 .. Len(s) |-> IF n = 0 THEN <<>>
               ELSE IF s[n] \in T THEN Append(upTo[n - 1], s[n]) ELSE upTo[n - 1]]
  BY <1>6, Zenon
<1>8. Builds(upTo, s, T, Len(s))
  BY <1>7, Zenon DEF Builds, Kept
<1>9. Those(s, T) = upTo[Len(s)]
  BY DEF Those
<1> QED
  BY <1>8, <1>9

\* The values of place are the members of T, and it is strictly increasing.
Increasing(place, T) == /\ {place[m] : m \in DOMAIN place} = T
                        /\ \A m, n \in DOMAIN place : m < n => place[m] < place[n]

\* t is s read at the places of the members of T among the first k, from left to right.
ReadUpTo(place, t, s, T, k) ==
  LET places == {i \in 1 .. k : s[i] \in T}
  IN  /\ place \in [1 .. Len(t) -> places]
      /\ Increasing(place, places)
      /\ \A m \in 1 .. Len(t) : t[m] = s[place[m]]
ReadAt(place, t, s, T) == ReadUpTo(place, t, s, T, Len(s))

\* One more element read.
LEMMA ReadOneMore ==
  ASSUME NEW S, NEW s \in Seq(S), NEW T, NEW t \in Seq(S), NEW k \in Nat, k + 1 <= Len(s),
         NEW place, ReadUpTo(place, t, s, T, k)
  PROVE  LET u == Kept(s, T, t, k + 1)
         IN  u \in Seq(S) /\ \E p : ReadUpTo(p, u, s, T, k + 1)
<1> DEFINE places == {i \in 1 .. k : s[i] \in T}
           more == {i \in 1 .. k + 1 : s[i] \in T}
           c == Len(t)
<1>1. /\ place \in [1 .. c -> places] /\ Increasing(place, places)
      /\ \A m \in 1 .. c : t[m] = s[place[m]]
  BY DEF ReadUpTo
<1>2. k + 1 \in 1 .. Len(s) /\ s[k + 1] \in S /\ c \in Nat
  OBVIOUS
<1>3. \A i \in 1 .. k + 1 : i = k + 1 \/ i \in 1 .. k
  OBVIOUS
<1>4. \A i \in 1 .. k : i \in 1 .. k + 1 /\ i < k + 1
  OBVIOUS
<1>5. CASE s[k + 1] \notin T
  <2>1. more = places
    BY <1>3, <1>4, <1>5
  <2>2. ReadUpTo(place, t, s, T, k + 1)
    BY <1>1, <2>1 DEF ReadUpTo
  <2> QED
    BY <1>5, <2>2 DEF Kept
<1>6. CASE s[k + 1] \in T
  <2>1. more = places \cup {k + 1}
    BY <1>2, <1>3, <1>4, <1>6
  <2> DEFINE u == Append(t, s[k + 1])
             p == [m \in 1 .. c + 1 |-> IF m = c + 1 THEN k + 1 ELSE place[m]]
  <2>2. u \in Seq(S) /\ Len(u) = c + 1 /\ u[c + 1] = s[k + 1]
        /\ \A m \in 1 .. c : u[m] = t[m]
    BY <1>2
  <2> HIDE DEF u, more, places, c
  <2>3. (\A m \in 1 .. c : m \in 1 .. c + 1 /\ m # c + 1 /\ p[m] = place[m])
        /\ c + 1 \in 1 .. c + 1 /\ p[c + 1] = k + 1 /\ DOMAIN p = 1 .. c + 1
        /\ \A m \in 1 .. c + 1 : m = c + 1 \/ m \in 1 .. c
    BY <1>2
  <2>4. \A m \in 1 .. c : place[m] \in places
    BY <1>1
  <2>5. p \in [1 .. c + 1 -> more]
    BY <2>1, <2>3, <2>4
  <2> HIDE DEF p
  <2>6. {p[m] : m \in DOMAIN p} = more
    <3>1. {place[m] : m \in 1 .. c} = places
      BY <1>1 DEF Increasing
    <3> QED
      BY <2>1, <2>3, <3>1
  <2>7. \A m, n \in DOMAIN p : m < n => p[m] < p[n]
    <3>1. \A m, n \in 1 .. c : m < n => place[m] < place[n]
      BY <1>1 DEF Increasing
    <3>2. \A i \in places : i < k + 1
      BY <1>4 DEF places
    <3>3. \A m, n \in 1 .. c + 1 : m < n => m # c + 1
      BY <1>2
    <3> QED
      BY <2>3, <2>4, <3>1, <3>2, <3>3
  <2>8. \A m \in 1 .. c + 1 : u[m] = s[p[m]]
    BY <1>1, <2>2, <2>3
  <2>9. ReadUpTo(p, u, s, T, k + 1)
    BY <2>2, <2>5, <2>6, <2>7, <2>8 DEF ReadUpTo, Increasing, more
  <2> QED
    BY <1>6, <2>2, <2>9 DEF Kept, u
<1> QED
  BY <1>5, <1>6

\* A selection is the sequence read at the places of the selected, from left to right.
LEMMA ThoseReadPlaces ==
  ASSUME NEW S, NEW s \in Seq(S), NEW T
  PROVE  Those(s, T) \in Seq(S) /\ \E place : ReadAt(place, Those(s, T), s, T)
<1>1. PICK f : Builds(f, s, T, Len(s)) /\ Those(s, T) = f[Len(s)]
  BY ThoseIsBuilt
<1> DEFINE Good(k) == f[k] \in Seq(S) /\ \E place : ReadUpTo(place, f[k], s, T, k)
           bad == {k \in 0 .. Len(s) : ~Good(k)}
<1>2. /\ Len(s) \in Nat /\ f[0] = <<>>
      /\ \A k \in Nat : k + 1 <= Len(s) => f[k + 1] = Kept(s, T, f[k], k + 1)
  <2>1. f = [n \in 0 .. Len(s) |-> IF n = 0 THEN <<>> ELSE Kept(s, T, f[n - 1], n)]
    BY <1>1 DEF Builds
  <2>2. \A n \in 0 .. Len(s) : f[n] = IF n = 0 THEN <<>> ELSE Kept(s, T, f[n - 1], n)
    BY <2>1
  <2>3. Len(s) \in Nat /\ 0 \in 0 .. Len(s)
    OBVIOUS
  <2>4. \A k \in Nat : k + 1 <= Len(s) =>
          k + 1 \in 0 .. Len(s) /\ k + 1 # 0 /\ (k + 1) - 1 = k
    BY <2>3
  <2> QED
    BY <2>2, <2>3, <2>4
<1>3. Good(0)
  <2> DEFINE p == [m \in 1 .. 0 |-> m]
  <2>1. p \in [1 .. Len(<<>>) -> {i \in 1 .. 0 : s[i] \in T}]
        /\ {p[m] : m \in DOMAIN p} = {i \in 1 .. 0 : s[i] \in T}
    OBVIOUS
  <2>2. \A m \in 1 .. Len(<<>>) : FALSE
    OBVIOUS
  <2>3. DOMAIN p = 1 .. 0 /\ \A m \in 1 .. 0 : FALSE
    OBVIOUS
  <2> HIDE DEF p
  <2>4. ReadUpTo(p, <<>>, s, T, 0)
    BY <2>1, <2>2, <2>3 DEF ReadUpTo, Increasing
  <2> QED
    BY <1>2, <2>4
<1>4. ASSUME NEW k \in Nat, k + 1 <= Len(s), Good(k) PROVE Good(k + 1)
  <2>1. PICK place : ReadUpTo(place, f[k], s, T, k)
    BY <1>4
  <2> DEFINE u == Kept(s, T, f[k], k + 1)
  <2>2. u \in Seq(S) /\ \E p : ReadUpTo(p, u, s, T, k + 1)
    BY <1>4, <2>1, ReadOneMore
  <2> QED
    BY <1>2, <1>4, <2>2
<1> HIDE DEF Good
<1>5. bad = {}
  <2> SUFFICES ASSUME bad # {} PROVE FALSE
    OBVIOUS
  <2>0. bad \subseteq Nat
    BY <1>2
  <2>1. PICK x \in bad : \A y \in bad : ~(<<y, x>> \in OpToRel(<, Nat))
    BY <2>0, NatLessThanWellFounded, WFMin
  <2>2. \A y \in bad : ~(y < x)
    BY <2>0, <2>1 DEF OpToRel
  <2>3. x # 0
    BY <1>3
  <2>4. x - 1 \in Nat /\ x - 1 < x /\ (x - 1) + 1 = x /\ x <= Len(s) /\ x - 1 \in 0 .. Len(s)
    BY <1>2, <2>0, <2>3
  <2>5. Good(x - 1)
    BY <2>2, <2>4
  <2>6. Good((x - 1) + 1)
    BY <1>4, <2>4, <2>5
  <2> QED
    BY <2>4, <2>6
<1>6. Good(Len(s))
  BY <1>2, <1>5
<1> QED
  BY <1>1, <1>6 DEF Good, ReadAt

LEMMA ThoseAreInOrder ==
    ASSUME NEW S, NEW s \in Seq(S), NEW T
    PROVE  Those(s, T) \in Seq(S) /\ ToSet(Those(s, T)) = ToSet(s) \cap T
<1> DEFINE places == {i \in DOMAIN s : s[i] \in T}
           t == Those(s, T)
<1>0. DOMAIN s = 1 .. Len(s)
  OBVIOUS
<1>1. t \in Seq(S)
  BY ThoseReadPlaces
<1>2. PICK place : ReadAt(place, t, s, T)
  BY ThoseReadPlaces
<1> HIDE DEF t
<1>3. /\ place \in [1 .. Len(t) -> places] /\ Increasing(place, places)
      /\ \A n \in 1 .. Len(t) : t[n] = s[place[n]]
  BY <1>0, <1>2 DEF ReadAt, ReadUpTo
<1>4. {place[n] : n \in 1 .. Len(t)} = places
  BY <1>3 DEF Increasing
<1>5. ToSet(t) = {t[n] : n \in 1 .. Len(t)}
  BY <1>1 DEF ToSet
<1>6. \A n \in 1 .. Len(t) : place[n] \in DOMAIN s /\ s[place[n]] \in T
  BY <1>3
<1>7. ToSet(t) = ToSet(s) \cap T
  BY <1>3, <1>4, <1>5, <1>6 DEF ToSet
<1> QED
  BY <1>1, <1>7 DEF t

\* The selection of a sequence without duplicates has none.
LEMMA ThoseAreDistinct ==
    ASSUME NEW S, NEW s \in Seq(S), NEW T, \A i, j \in DOMAIN s : s[i] = s[j] => i = j
    PROVE  \A i, j \in DOMAIN Those(s, T) : Those(s, T)[i] = Those(s, T)[j] => i = j
<1> DEFINE places == {i \in DOMAIN s : s[i] \in T}
           t == Those(s, T)
<1>0. DOMAIN s = 1 .. Len(s)
  OBVIOUS
<1>1. t \in Seq(S)
  BY ThoseReadPlaces
<1>2. PICK place : ReadAt(place, t, s, T)
  BY ThoseReadPlaces
<1> HIDE DEF t
<1>3. DOMAIN t = 1 .. Len(t) /\ Len(t) \in Nat /\ DOMAIN s \subseteq Nat
  BY <1>1
<1> SUFFICES ASSUME NEW i \in 1 .. Len(t), NEW j \in 1 .. Len(t), t[i] = t[j] PROVE i = j
  BY <1>3 DEF t
<1>4. place[i] = place[j] /\ place[i] \in Nat
  BY <1>0, <1>2, <1>3 DEF ReadAt, ReadUpTo
<1>5. ~(i < j) /\ ~(j < i)
  BY <1>2, <1>4 DEF Increasing, ReadAt, ReadUpTo
<1> QED
  BY <1>3, <1>5

\* Two sequences without duplicates, and with nothing in common, one behind the other.
LEMMA JoinedAreDistinct ==
    ASSUME NEW S, NEW u \in Seq(S), NEW v \in Seq(S),
           \A i, j \in DOMAIN u : u[i] = u[j] => i = j,
           \A i, j \in DOMAIN v : v[i] = v[j] => i = j,
           ToSet(u) \cap ToSet(v) = {}
    PROVE  /\ u \o v \in Seq(S)
           /\ \A i, j \in DOMAIN (u \o v) : (u \o v)[i] = (u \o v)[j] => i = j
           /\ ToSet(u \o v) = ToSet(u) \cup ToSet(v)
<1> DEFINE w == u \o v
           m == Len(u)
           n == Len(v)
<1>1. /\ m \in Nat /\ n \in Nat /\ DOMAIN u = 1 .. m /\ DOMAIN v = 1 .. n
      /\ w \in Seq(S) /\ Len(w) = m + n /\ DOMAIN w = 1 .. m + n
  OBVIOUS
<1>2. /\ \A i \in 1 .. m : i \in 1 .. m + n /\ w[i] = u[i]
      /\ \A i \in 1 .. n : i + m \in 1 .. m + n /\ w[i + m] = v[i]
  OBVIOUS
<1>3. \A i \in 1 .. m + n : i \in 1 .. m \/ (i - m \in 1 .. n /\ (i - m) + m = i)
  BY <1>1
<1> HIDE DEF w, m, n
<1>4. ToSet(u) = {u[i] : i \in 1 .. m} /\ ToSet(v) = {v[i] : i \in 1 .. n}
      /\ ToSet(w) = {w[i] : i \in 1 .. m + n}
  BY <1>1 DEF ToSet
<1>5. ToSet(w) = ToSet(u) \cup ToSet(v)
  <2>1. \A x \in ToSet(w) : x \in ToSet(u) \/ x \in ToSet(v)
    BY <1>2, <1>3, <1>4
  <2>2. \A x \in ToSet(u) : x \in ToSet(w)
    BY <1>2, <1>4
  <2>3. \A x \in ToSet(v) : x \in ToSet(w)
    BY <1>2, <1>4
  <2> QED
    BY <2>1, <2>2, <2>3
<1>6. ASSUME NEW i \in 1 .. m + n, NEW j \in 1 .. m + n, w[i] = w[j] PROVE i = j
  <2>1. CASE i \in 1 .. m /\ j \in 1 .. m
    BY <1>1, <1>2, <1>6, <2>1
  <2>2. CASE i - m \in 1 .. n /\ (i - m) + m = i /\ j - m \in 1 .. n /\ (j - m) + m = j
    <3>1. w[i] = v[i - m] /\ w[j] = v[j - m]
      BY <1>2, <2>2
    <3>2. i - m = j - m
      BY <1>1, <1>6, <2>2, <3>1
    <3> QED
      BY <1>1, <3>2
  <2>3. CASE i \in 1 .. m /\ j - m \in 1 .. n /\ (j - m) + m = j
    BY <1>2, <1>4, <1>6, <2>3, SMTT(30)
  <2>4. CASE j \in 1 .. m /\ i - m \in 1 .. n /\ (i - m) + m = i
    BY <1>2, <1>4, <1>6, <2>4
  <2> QED
    BY <1>3, <2>1, <2>2, <2>3, <2>4
<1> QED
  BY <1>1, <1>5, <1>6 DEF w

-----------------------------------------------------------------------------
(* The least and the greatest.                                             *)

\* Over a finite set a whole-numbered value has a least.
LEMMA LeastAt ==
  ASSUME NEW S, IsFiniteSet(S), S # {}, NEW f \in [S -> Int]
  PROVE  \E x \in S : \A y \in S : f[x] <= f[y]
<1>1. PICK n \in Nat : ExistsSurjection(1 .. n, S)
  BY FS_NatSurjection
<1>2. PICK g \in [1 .. n -> S] : \A s \in S : \E i \in 1 .. n : g[i] = s
  BY <1>1 DEF ExistsSurjection, Surjection
<1> DEFINE Good(k) == \E m \in 1 .. k : \A j \in 1 .. k : f[g[m]] <= f[g[j]]
           bad == {k \in 1 .. n : ~Good(k)}
<1>3. n >= 1
  BY <1>2
<1>4. Good(1)
  BY <1>2, <1>3
<1>5. ASSUME NEW k \in Nat, 1 <= k, k + 1 <= n, Good(k) PROVE Good(k + 1)
  <2>1. PICK m \in 1 .. k : \A j \in 1 .. k : f[g[m]] <= f[g[j]]
    BY <1>5
  <2>2. \A j \in 1 .. k + 1 : f[g[j]] \in Int
    BY <1>2, <1>5
  <2>3. m \in 1 .. k + 1 /\ k + 1 \in 1 .. k + 1 /\ \A j \in 1 .. k + 1 : j \in 1 .. k \/ j = k + 1
    BY <1>5
  <2>4. CASE f[g[m]] <= f[g[k + 1]]
    BY <2>1, <2>3, <2>4
  <2>5. CASE f[g[k + 1]] < f[g[m]]
    <3>1. \A j \in 1 .. k : f[g[k + 1]] <= f[g[j]]
      BY <2>1, <2>2, <2>3, <2>5
    <3>2. f[g[k + 1]] <= f[g[k + 1]]
      BY <2>2, <2>3
    <3> QED
      BY <2>3, <3>1, <3>2
  <2> QED
    BY <2>2, <2>3, <2>4, <2>5
<1> HIDE DEF Good
<1>6. bad = {}
  <2> SUFFICES ASSUME bad # {} PROVE FALSE
    OBVIOUS
  <2>0. bad \subseteq Nat
    OBVIOUS
  <2>1. PICK x \in bad : \A y \in bad : ~(<<y, x>> \in OpToRel(<, Nat))
    BY <2>0, NatLessThanWellFounded, WFMin
  <2>2. \A y \in bad : ~(y < x)
    BY <2>0, <2>1 DEF OpToRel
  <2>3. x # 1
    BY <1>4
  <2>4. x - 1 \in Nat /\ x - 1 < x /\ 1 <= x - 1 /\ (x - 1) + 1 = x /\ x <= n /\ x - 1 \in 1 .. n
    BY <2>3
  <2>5. Good(x - 1)
    BY <2>2, <2>4
  <2>6. Good((x - 1) + 1)
    BY <1>5, <2>4, <2>5
  <2> QED
    BY <2>4, <2>6
<1>7. PICK m \in 1 .. n : \A j \in 1 .. n : f[g[m]] <= f[g[j]]
  <2>1. Good(n)
    BY <1>3, <1>6
  <2> QED
    BY <2>1 DEF Good
<1> QED
  BY <1>2, <1>7

\* Min and Max of the values of a function are among them, and bound them.
LEMMA ExtremesOf ==
  ASSUME NEW S, IsFiniteSet(S), S # {}, NEW f \in [S -> Int], NEW V, V = {f[x] : x \in S}
  PROVE  /\ Min(V) \in V /\ \A v \in V : Min(V) <= v
         /\ Max(V) \in V /\ \A v \in V : v <= Max(V)
<1>1. PICK x \in S : \A y \in S : f[x] <= f[y]
  BY LeastAt
<1>2. Min(V) \in V /\ \A v \in V : Min(V) <= v
  <2>1. \E v \in V : \A u \in V : v =< u
    BY <1>1
  <2> QED
    BY <2>1 DEF Min
<1> DEFINE g == [y \in S |-> 0 - f[y]]
<1>3. PICK z \in S : \A y \in S : g[z] <= g[y]
  <2>1. g \in [S -> Int]
    OBVIOUS
  <2> HIDE DEF g
  <2> QED
    BY <2>1, LeastAt
<1>4. \A y \in S : f[z] >= f[y]
  BY <1>3
<1>5. Max(V) \in V /\ \A v \in V : Max(V) >= v
  <2>1. \E v \in V : \A u \in V : v >= u
    BY <1>4
  <2> QED
    BY <2>1 DEF Max
<1>6. \A v \in V : v \in Int
  OBVIOUS
<1> QED
  BY <1>2, <1>5, <1>6

\* A function of finitely many has finitely many values.
LEMMA FiniteImage ==
  ASSUME NEW S, IsFiniteSet(S), NEW f, DOMAIN f = S, NEW V, V = {f[x] : x \in S}
  PROVE  IsFiniteSet(V)
<1> DEFINE T == {f[x] : x \in S}
           g == [x \in S |-> f[x]]
<1>1. g \in [S -> T] /\ \A t \in T : \E x \in S : g[x] = t
  OBVIOUS
<1> HIDE DEF g, T
<1>2. g \in Surjection(S, T)
  BY <1>1 DEF Surjection
<1> QED
  BY <1>2, FS_Surjection DEF T

-----------------------------------------------------------------------------
(* Counting up, and what is built step by step.                            *)

LEMMA CountingUp ==
  ASSUME NEW K \in Nat, NEW P, 0 \in P, \A n \in Nat : n < K /\ n \in P => n + 1 \in P
  PROVE  0 .. K \subseteq P
<1> DEFINE bad == {n \in 0 .. K : n \notin P}
<1> SUFFICES ASSUME bad # {} PROVE FALSE
  OBVIOUS
<1>0. bad \subseteq Nat
  OBVIOUS
<1>1. PICK x \in bad : \A y \in bad : ~(<<y, x>> \in OpToRel(<, Nat))
  BY <1>0, NatLessThanWellFounded, WFMin
<1>2. \A y \in bad : ~(y < x)
  BY <1>0, <1>1 DEF OpToRel
<1>3. x \in Nat /\ x # 0 /\ x <= K /\ x \notin P
  <2>1. x \in 0 .. K /\ x \notin P
    OBVIOUS
  <2> QED
    BY <2>1
<1>4. x - 1 \in Nat /\ x - 1 < x /\ x - 1 < K /\ (x - 1) + 1 = x
  BY <1>3
<1>5. x - 1 \in P
  BY <1>2, <1>4
<1> QED
  BY <1>3, <1>4, <1>5

\* Where a state and a number give the next state, K of them can follow a first.
Follows(f, a, step, K) ==
  /\ DOMAIN f = 0 .. K /\ f[0] = a
  /\ \A n \in 1 .. K : f[n] = step[n, f[n - 1]]

LEMMA StatesFollow ==
  ASSUME NEW A, NEW a \in A, NEW K \in Nat, NEW step \in [(Nat \X A) -> A]
  PROVE  \E f \in [0 .. K -> A] : Follows(f, a, step, K)
<1> DEFINE P == {k \in Nat : \E f \in [0 .. k -> A] : Follows(f, a, step, k)}
<1>1. 0 \in P
  <2> DEFINE f == [n \in 0 .. 0 |-> a]
  <2>1. f \in [0 .. 0 -> A] /\ Follows(f, a, step, 0)
    BY DEF Follows
  <2> QED
    BY <2>1
<1>2. ASSUME NEW k \in Nat, k \in P PROVE k + 1 \in P
  <2>1. PICK f \in [0 .. k -> A] : Follows(f, a, step, k)
    BY <1>2
  <2> DEFINE g == [n \in 0 .. k + 1 |-> IF n = k + 1 THEN step[k + 1, f[k]] ELSE f[n]]
  <2>2. step[k + 1, f[k]] \in A
    <3>1. k \in 0 .. k /\ k + 1 \in Nat
      OBVIOUS
    <3>2. f[k] \in A
      BY <3>1
    <3> QED
      BY <3>1, <3>2
  <2>3. /\ \A n \in 0 .. k : n # k + 1 /\ n \in 0 .. k + 1 /\ f[n] \in A
        /\ \A n \in 0 .. k + 1 : n = k + 1 \/ n \in 0 .. k
        /\ k + 1 \in 0 .. k + 1 /\ k \in 0 .. k /\ (k + 1) - 1 = k
        /\ \A n \in 1 .. k + 1 : n = k + 1 \/ (n \in 1 .. k /\ n - 1 \in 0 .. k /\ n \in 0 .. k)
        /\ 0 \in 0 .. k
    OBVIOUS
  <2>4. DOMAIN g = 0 .. k + 1 /\ g[k + 1] = step[k + 1, f[k]] /\ \A n \in 0 .. k : g[n] = f[n]
    BY <2>3
  <2> HIDE DEF g
  <2>5. g \in [0 .. k + 1 -> A]
    <3>1. \A n \in 0 .. k + 1 : g[n] \in A
      BY <2>2, <2>3, <2>4
    <3>2. g = [n \in 0 .. k + 1 |-> g[n]]
      BY <2>4 DEF g
    <3> QED
      BY <3>1, <3>2
  <2>6. \A n \in 1 .. k + 1 : g[n] = step[n, g[n - 1]]
    <3> TAKE n \in 1 .. k + 1
    <3>1. CASE n = k + 1
      BY <2>3, <2>4, <3>1
    <3>2. CASE n \in 1 .. k /\ n - 1 \in 0 .. k /\ n \in 0 .. k
      BY <2>1, <2>4, <3>2 DEF Follows
    <3> QED
      BY <2>3, <3>1, <3>2
  <2>7. Follows(g, a, step, k + 1)
    BY <2>1, <2>3, <2>4, <2>6 DEF Follows
  <2> QED
    BY <2>5, <2>7
<1> HIDE DEF P
<1>3. 0 .. K \subseteq P
  BY <1>1, <1>2, CountingUp
<1> QED
  BY <1>3 DEF P

-----------------------------------------------------------------------------
(* Sequences joined into one.                                              *)

\* t is the first k sequences of ss one behind the other: the m-th element comes from the
\* from[m]-th of them, and nothing of theirs is missing.
ComesFrom(from, t, ss, k) ==
  /\ from \in [1 .. Len(t) -> 1 .. k]
  /\ \A m, n \in 1 .. Len(t) : m <= n => from[m] <= from[n]
  /\ \A m \in 1 .. Len(t) : t[m] \in ToSet(ss[from[m]])
  /\ \A i \in 1 .. k : \A x \in ToSet(ss[i]) : \E m \in 1 .. Len(t) : from[m] = i /\ t[m] = x

LEMMA JoinOneMore ==
  ASSUME NEW S, NEW ss \in Seq(Seq(S)), NEW t \in Seq(S), NEW k \in Nat, k + 1 <= Len(ss),
         NEW from, ComesFrom(from, t, ss, k)
  PROVE  LET u == t \o ss[k + 1] IN u \in Seq(S) /\ \E p : ComesFrom(p, u, ss, k + 1)
<1> DEFINE v == ss[k + 1]
           u == t \o v
           c == Len(t)
           d == Len(v)
           p == [m \in 1 .. c + d |-> IF m <= c THEN from[m] ELSE k + 1]
<1>1. v \in Seq(S) /\ u \in Seq(S) /\ Len(u) = c + d /\ c \in Nat /\ d \in Nat
  OBVIOUS
<1>2. (\A m \in 1 .. c : u[m] = t[m]) /\ (\A m \in 1 .. d : u[c + m] = v[m]) /\ DOMAIN v = 1 .. d
  OBVIOUS
<1>3. /\ from \in [1 .. c -> 1 .. k]
      /\ \A m, n \in 1 .. c : m <= n => from[m] <= from[n]
      /\ \A m \in 1 .. c : t[m] \in ToSet(ss[from[m]])
      /\ \A i \in 1 .. k : \A x \in ToSet(ss[i]) : \E m \in 1 .. c : from[m] = i /\ t[m] = x
  BY DEF ComesFrom
<1> HIDE DEF v, u, c, d
<1>4. /\ \A m \in 1 .. c : m \in 1 .. c + d /\ m <= c
      /\ \A m \in 1 .. d : c + m \in 1 .. c + d /\ ~(c + m <= c)
      /\ \A m \in 1 .. c + d : m \in 1 .. c \/ (~(m <= c) /\ m - c \in 1 .. d /\ c + (m - c) = m)
  BY <1>1
<1>5. /\ DOMAIN p = 1 .. c + d
      /\ \A m \in 1 .. c : p[m] = from[m] /\ p[m] \in 1 .. k
      /\ \A m \in 1 .. c + d : ~(m <= c) => p[m] = k + 1
  BY <1>3, <1>4
<1>6. p \in [1 .. c + d -> 1 .. k + 1]
  <2>1. \A m \in 1 .. c + d : m \in 1 .. c \/ ~(m <= c)
    BY <1>4
  <2>2. \A i \in 1 .. k : i \in 1 .. k + 1
    OBVIOUS
  <2>3. k + 1 \in 1 .. k + 1
    OBVIOUS
  <2> HIDE DEF p
  <2>4. \A m \in 1 .. c + d : p[m] \in 1 .. k + 1
    BY <1>5, <2>1, <2>2, <2>3
  <2>5. p = [m \in 1 .. c + d |-> p[m]]
    BY <1>5 DEF p
  <2> QED
    BY <2>4, <2>5
<1> HIDE DEF p
<1>7. \A m, n \in 1 .. c + d : m <= n => p[m] <= p[n]
  <2> SUFFICES ASSUME NEW m \in 1 .. c + d, NEW n \in 1 .. c + d, m <= n PROVE p[m] <= p[n]
    OBVIOUS
  <2>1. CASE n \in 1 .. c
    <3>1. m \in 1 .. c
      BY <1>1, <2>1
    <3> QED
      BY <1>3, <1>5, <2>1, <3>1
  <2>2. CASE ~(n <= c)
    <3>1. p[n] = k + 1 /\ p[m] \in 1 .. k + 1
      BY <1>5, <1>6, <2>2
    <3> QED
      BY <3>1
  <2> QED
    BY <1>4, <2>1, <2>2
<1>8. \A m \in 1 .. c + d : u[m] \in ToSet(ss[p[m]])
  <2> TAKE m \in 1 .. c + d
  <2>1. CASE m \in 1 .. c
    BY <1>2, <1>3, <1>5, <2>1
  <2>2. CASE ~(m <= c) /\ m - c \in 1 .. d /\ c + (m - c) = m
    <3>1. u[m] = v[m - c] /\ p[m] = k + 1
      BY <1>2, <1>5, <2>2
    <3> QED
      BY <1>2, <2>2, <3>1 DEF ToSet, v
  <2> QED
    BY <1>4, <2>1, <2>2
<1>9. ASSUME NEW i \in 1 .. k + 1, NEW x \in ToSet(ss[i])
      PROVE  \E m \in 1 .. c + d : p[m] = i /\ u[m] = x
  <2>1. CASE i = k + 1
    <3>1. PICK m \in 1 .. d : x = v[m]
      BY <1>2, <2>1 DEF ToSet, v
    <3>2. c + m \in 1 .. c + d /\ p[c + m] = k + 1 /\ u[c + m] = x
      BY <1>2, <1>4, <1>5, <3>1
    <3> QED
      BY <2>1, <3>2
  <2>2. CASE i \in 1 .. k
    <3>1. PICK m \in 1 .. c : from[m] = i /\ t[m] = x
      BY <1>3, <2>2
    <3> QED
      BY <1>2, <1>4, <1>5, <3>1
  <2> QED
    BY <2>1, <2>2
<1>10. ComesFrom(p, u, ss, k + 1)
  <2>1. 1 .. Len(u) = 1 .. c + d
    BY <1>1
  <2> QED
    <3>1. p \in [1 .. Len(u) -> 1 .. k + 1]
      BY <1>6, <2>1, Zenon
    <3>2. \A m, n \in 1 .. Len(u) : m <= n => p[m] <= p[n]
      BY <1>7, <2>1, Zenon
    <3>3. \A m \in 1 .. Len(u) : u[m] \in ToSet(ss[p[m]])
      BY <1>8, <2>1, Zenon
    <3>4. \A i \in 1 .. k + 1 : \A x \in ToSet(ss[i]) : \E m \in 1 .. Len(u) : p[m] = i /\ u[m] = x
      <4> SUFFICES ASSUME NEW i \in 1 .. k + 1, NEW x \in ToSet(ss[i])
                   PROVE  \E m \in 1 .. Len(u) : p[m] = i /\ u[m] = x
        OBVIOUS
      <4>1. PICK m \in 1 .. c + d : p[m] = i /\ u[m] = x
        BY <1>9
      <4>2. m \in 1 .. Len(u)
        BY <2>1
      <4> QED
        BY <4>1, <4>2, Zenon
    <3> QED
      BY <3>1, <3>2, <3>3, <3>4, Zenon DEF ComesFrom
<1> QED
  BY <1>1, <1>10 DEF u, v

\* FlattenSeq joins the sequences in their order.
LEMMA FlattenJoins ==
  ASSUME NEW S, NEW ss \in Seq(Seq(S))
  PROVE  LET t == FlattenSeq(ss) IN t \in Seq(S) /\ \E from : ComesFrom(from, t, ss, Len(ss))
<1>0. Len(ss) \in Nat /\ DOMAIN ss = 1 .. Len(ss)
  OBVIOUS
<1>1. ComesFrom([m \in 1 .. 0 |-> m], <<>>, ss, 0)
  BY DEF ComesFrom
<1>2. CASE Len(ss) = 0
  <2>1. FlattenSeq(ss) = ss /\ ss = <<>>
    BY <1>2 DEF FlattenSeq
  <2> QED
    BY <1>1, <1>2, <2>1
<1>3. CASE Len(ss) # 0
  <2> DEFINE L == Len(ss)
             step == [a \in Nat \X Seq(S) |->
                         IF a[1] \in 1 .. L THEN a[2] \o ss[a[1]] ELSE a[2]]
  <2>1. step \in [(Nat \X Seq(S)) -> Seq(S)]
    <3>1. \A a \in Nat \X Seq(S) : a[2] \in Seq(S) /\ (a[1] \in 1 .. L => ss[a[1]] \in Seq(S))
      BY <1>0
    <3> QED
      BY <3>1
  <2>2. ASSUME NEW n \in 1 .. L, NEW t \in Seq(S) PROVE step[n, t] = t \o ss[n]
    <3>1. n \in Nat /\ n \in 1 .. L
      BY <1>0
    <3>2. <<n, t>> \in Nat \X Seq(S) /\ <<n, t>>[1] = n /\ <<n, t>>[2] = t
      BY <3>1
    <3> QED
      BY <3>1, <3>2, Zenon
  <2> HIDE DEF step
  <2>3. PICK f \in [0 .. L -> Seq(S)] : Follows(f, <<>>, step, L)
    <3>1. <<>> \in Seq(S)
      OBVIOUS
    <3> QED
      BY <1>0, <2>1, <3>1, StatesFollow
  <2>4. f[0] = <<>> /\ \A n \in 1 .. L : f[n] = f[n - 1] \o ss[n] /\ f[n] \in Seq(S)
    <3>1. \A n \in 1 .. L : n - 1 \in 0 .. L /\ n \in 0 .. L
      BY <1>0
    <3> QED
      BY <2>2, <2>3, <3>1 DEF Follows
  <2> DEFINE g == [i \in 1 .. L |-> f[i]]
             made == CHOOSE h : h = [i \in 1 .. L |-> IF i = 1 THEN ss[i] ELSE h[i - 1] \o ss[i]]
  <2>5. \A i \in 1 .. L : g[i] = IF i = 1 THEN ss[i] ELSE g[i - 1] \o ss[i]
    <3> TAKE i \in 1 .. L
    <3>1. CASE i = 1
      <4>0. 1 \in 1 .. L /\ 1 - 1 = 0
        BY <3>1
      <4>3. f[1] = f[1 - 1] \o ss[1]
        BY <2>4, <4>0, Zenon
      <4>4. ss[1] \in Seq(S)
        BY <1>0, <4>0
      <4>1. f[1] = <<>> \o ss[1] /\ ss[1] \in Seq(S)
        BY <2>4, <4>0, <4>3, <4>4, Zenon
      <4>2. f[1] = ss[1]
        BY <4>1
      <4> QED
        BY <3>1, <4>2
    <3>2. CASE i # 1
      <4>1. i - 1 \in 1 .. L
        BY <3>2
      <4> QED
        BY <2>4, <3>2, <4>1
    <3> QED
      BY <3>1, <3>2
  <2> HIDE DEF g
  <2>6. g = [i \in 1 .. L |-> IF i = 1 THEN ss[i] ELSE g[i - 1] \o ss[i]]
    BY <2>5 DEF g
  <2>7. made = [i \in 1 .. L |-> IF i = 1 THEN ss[i] ELSE made[i - 1] \o ss[i]]
    BY <2>6, Zenon
  <2>8. FlattenSeq(ss) = made[L]
    BY <1>3 DEF FlattenSeq
  <2> HIDE DEF made
  <2> DEFINE Good(t, k) == t \in Seq(S) /\ \E from : ComesFrom(from, t, ss, k)
             P == {k \in 0 .. L : Good(f[k], k) /\ (k # 0 => made[k] = f[k])}
  <2>9. 0 \in P
    BY <1>0, <1>1, <2>4
  <2>10. ASSUME NEW k \in Nat, k < L, k \in P PROVE k + 1 \in P
    <3>1. k + 1 \in 1 .. L /\ k + 1 \in 0 .. L /\ (k + 1) - 1 = k /\ k + 1 <= L
      BY <1>0, <2>10
    <3>2. f[k + 1] = f[k] \o ss[k + 1]
      BY <2>4, <3>1
    <3>3. Good(f[k + 1], k + 1)
      <4>1. PICK from : f[k] \in Seq(S) /\ ComesFrom(from, f[k], ss, k)
        BY <2>10
      <4> QED
        BY <3>1, <3>2, <4>1, JoinOneMore
    <3>4. made[k + 1] = IF k + 1 = 1 THEN ss[k + 1] ELSE made[k] \o ss[k + 1]
      BY <2>7, <3>1
    <3>6. k # 0 => made[k] = f[k]
      BY <2>10
    <3> HIDE DEF P, Good
    <3>5. made[k + 1] = f[k + 1]
      <4>1. CASE k = 0
        <5>1. ss[1] \in Seq(S) /\ k + 1 = 1
          BY <3>1, <4>1
        <5>2. <<>> \o ss[1] = ss[1]
          BY <5>1
        <5>3. made[k + 1] = ss[1] /\ f[k + 1] = <<>> \o ss[1]
          BY <2>4, <3>2, <3>4, <4>1, <5>1
        <5> QED
          BY <5>2, <5>3
      <4>2. CASE k # 0
        <5>1. k + 1 # 1
          BY <4>2
        <5> QED
          BY <3>2, <3>4, <3>6, <4>2, <5>1
      <4> QED
        BY <4>1, <4>2
    <3> QED
      BY <3>1, <3>3, <3>5 DEF P
  <2> HIDE DEF P
  <2>11. L \in P
    <3>1. 0 .. L \subseteq P
      BY <1>0, <2>9, <2>10, CountingUp
    <3> QED
      BY <1>0, <3>1
  <2> QED
    BY <1>3, <2>8, <2>11 DEF P
<1> QED
  BY <1>2, <1>3
=============================================================================
