--------------------------- MODULE GeometryProofs ---------------------------
(***************************************************************************)
(* What the geometry endpoints answer, for any rectilinear paths, offsets  *)
(* and grids: GeometryTrue is proved in four parts.                        *)
(*                                                                         *)
(* A grid: how many cells fit, and that the cells laid out so keep within  *)
(* the box and apart.                                                      *)
(* A ring whose corners make a box covers the cells of the box, so a path  *)
(* that is taken for a box is one (Sound); every operation on boxes covers *)
(* what it does on cells, and answers with sound paths again.              *)
(* Lists: what is done in turn is done to all (Walk, by the least index at *)
(* which it would fail).                                                   *)
(* An offset moves the sides of a box by as much as it grows its cells.    *)
(***************************************************************************)
EXTENDS Geometry, SelectionProofs

-----------------------------------------------------------------------------
(* The grid of tiles.                                                      *)

LEMMA LeastNumber ==
  ASSUME NEW S, S \subseteq Nat, S # {}
  PROVE  \E k \in S : \A j \in S : k <= j
<1>1. PICK k \in S : \A j \in S : ~(<<j, k>> \in OpToRel(<, Nat))
  BY NatLessThanWellFounded, WFMin
<1>2. \A j \in S : ~(j < k)
  BY <1>1 DEF OpToRel
<1> QED
  BY <1>2

LEMMA Spaced ==
  ASSUME NEW n \in Nat, NEW m \in Nat, n < m, NEW step \in Nat
  PROVE  n * step \in Nat /\ m * step \in Nat /\ n * step + step <= m * step
<1>1. n * step \in Nat /\ m * step \in Nat
  OBVIOUS
<1>2. PICK d \in Nat : m = n + 1 + d
  <2>1. m - n - 1 \in Nat /\ m = n + 1 + (m - n - 1)
    OBVIOUS
  <2> QED
    BY <2>1
<1>3. m * step = n * step + step + d * step
  BY <1>2
<1>4. d * step \in Nat
  BY <1>2
<1> QED
  BY <1>1, <1>3, <1>4

\* How many tiles fit: that many do, and one more does not unless it is over the bound.
LEMMA CountFits ==
  ASSUME NEW size \in Nat, NEW gutter \in Nat, NEW available \in Int, MaxTiles \in Nat \ {0}
  PROVE  LET n == Count(size, gutter, available)
         IN  /\ n \in 0 .. MaxTiles
             /\ n # 0 => n * size + (n - 1) * gutter <= available
             /\ n = MaxTiles \/ (n + 1) * size + n * gutter > available
<1> DEFINE need(n) == (n + 1) * size + n * gutter
           over == {n \in Nat : n = MaxTiles \/ need(n) > available}
           fit == {n \in 0 .. MaxTiles - 1 : need(n) <= available}
<1>1. \A n \in Nat : need(n) \in Nat
  OBVIOUS
<1>2. \A n, m \in Nat : n < m => need(n) <= need(m)
  <2> TAKE n, m \in Nat
  <2> HAVE n < m
  <2> DEFINE step == size + gutter
  <2>1. need(n) = n * step + size /\ need(m) = m * step + size
    OBVIOUS
  <2>2. n * step \in Nat /\ m * step \in Nat /\ n * step + step <= m * step
    BY Spaced
  <2>3. step \in Nat
    OBVIOUS
  <2> DEFINE a == n * step
             b == m * step
  <2>4. need(n) = a + size /\ need(m) = b + size /\ a \in Nat /\ b \in Nat /\ a + step <= b
    BY <2>1, <2>2
  <2> HIDE DEF a, b, step, need
  <2> QED
    BY <2>3, <2>4
<1>3. need(0) = size
  OBVIOUS
<1>9. \A n \in Nat : n # 0 => need(n - 1) = n * size + (n - 1) * gutter
  OBVIOUS
<1>10. \A n \in Nat : need(n) = (n + 1) * size + n * gutter
  OBVIOUS
<1> HIDE DEF need
<1>4. PICK k \in over : \A j \in over : k <= j
  <2>1. over \subseteq Nat /\ over # {}
    OBVIOUS
  <2> HIDE DEF over
  <2> QED
    BY <2>1, LeastNumber
<1>5. k \in 0 .. MaxTiles
  BY <1>4
<1>6. fit = 0 .. k - 1
  <2>1. ASSUME NEW n \in 0 .. k - 1 PROVE n \in fit
    <3>1. n \notin over /\ n \in Nat
      BY <1>4, <1>5
    <3> QED
      BY <1>1, <1>5, <3>1
  <2>2. ASSUME NEW n \in fit PROVE n \in 0 .. k - 1
    <3> SUFFICES ASSUME k <= n PROVE FALSE
      BY <1>5
    <3>1. k # MaxTiles /\ need(k) > available /\ need(n) <= available
      BY <1>4, <1>5
    <3>2. need(k) <= need(n)
      <4>1. k \in Nat /\ n \in Nat /\ need(k) \in Nat /\ (k < n \/ k = n)
        BY <1>1, <1>5
      <4> QED
        BY <1>2, <4>1
    <3> QED
      BY <1>1, <1>5, <3>1, <3>2
  <2> QED
    BY <2>1, <2>2
<1>7. Cardinality(fit) = k
  <2>1. Cardinality(0 .. k - 1) = IF 0 > k - 1 THEN 0 ELSE (k - 1) - 0 + 1
    BY <1>5, FS_Interval
  <2>2. Cardinality(0 .. k - 1) = k
    BY <1>5, <2>1
  <2> HIDE DEF fit
  <2> QED
    BY <1>6, <2>2
<1>8. Count(size, gutter, available) = k
  BY <1>7 DEF Count, need
<1>11. k # 0 => k * size + (k - 1) * gutter <= available
  <2> HAVE k # 0
  <2>1. k - 1 \in fit
    BY <1>5, <1>6
  <2>2. need(k - 1) <= available
    BY <2>1
  <2> QED
    BY <1>5, <1>9, <2>2
<1>12. k = MaxTiles \/ (k + 1) * size + k * gutter > available
  BY <1>4, <1>5, <1>10
<1> QED
  BY <1>5, <1>8, <1>11, <1>12

\* Along one side, count tiles of a size apart by a gutter: where the n-th begins.
LEMMA TilesInRow ==
  ASSUME NEW size \in Nat, size # 0, NEW gutter \in Nat, NEW count \in Nat \ {0}, NEW room \in Int,
         count * size + (count - 1) * gutter <= room
  PROVE  \A n \in 0 .. count - 1 :
           /\ n * (size + gutter) \in Nat
           /\ n * (size + gutter) + size <= count * size + (count - 1) * gutter
           /\ \A m \in 0 .. count - 1 : n < m =>
                 n * (size + gutter) + size + gutter <= m * (size + gutter)
<1> TAKE n \in 0 .. count - 1
<1> DEFINE step == size + gutter
<1>1. step \in Nat /\ n \in Nat /\ count - 1 \in Nat
  OBVIOUS
<1>2. count * size + (count - 1) * gutter = (count - 1) * step + size
  OBVIOUS
<1>3. n * step \in Nat
  BY <1>1
<1>4. n * step <= (count - 1) * step
  <2>1. CASE n = count - 1
    BY <1>3, <2>1
  <2>2. CASE n < count - 1
    <3>1. (count - 1) * step \in Nat /\ n * step + step <= (count - 1) * step
      BY <1>1, <2>2, Spaced
    <3> HIDE DEF step
    <3> QED
      BY <1>1, <1>3, <3>1
  <2> QED
    BY <2>1, <2>2
<1>5. \A m \in 0 .. count - 1 : n < m => n * step + step <= m * step
  BY <1>1, Spaced
<1>6. (count - 1) * step \in Nat
  BY <1>1
<1> DEFINE a == n * step
           z == (count - 1) * step
           w == count * size + (count - 1) * gutter
<1>7. a + size <= w
  <2>1. w = z + size /\ a <= z /\ a \in Nat /\ z \in Nat
    BY <1>2, <1>3, <1>4, <1>6
  <2> HIDE DEF a, z, w, step
  <2> QED
    BY <2>1
<1>8. \A m \in 0 .. count - 1 : n < m => a + size + gutter <= m * step
  BY <1>5
<1> QED
  BY <1>3, <1>7, <1>8

\* The size of a grid of distinct cells.
Injected(f) == \A p, q \in DOMAIN f : f[p] = f[q] => p = q

LEMMA CellsInGrid ==
  ASSUME NEW rows \in Nat, NEW cols \in Nat, NEW f, DOMAIN f = (0 .. rows - 1) \X (0 .. cols - 1),
         Injected(f)
  PROVE  Cardinality(Range(f)) = rows * cols
<1> DEFINE R == 0 .. rows - 1
           C == 0 .. cols - 1
           S == R \X C
           cells == {f[p] : p \in DOMAIN f}
           g == [p \in S |-> f[p]]
<1>1. IsFiniteSet(R) /\ IsFiniteSet(C) /\ Cardinality(R) = rows /\ Cardinality(C) = cols
  <2>1. 0 \in Int /\ rows - 1 \in Int /\ cols - 1 \in Int
    OBVIOUS
  <2>2. IsFiniteSet(R) /\ Cardinality(R) = IF 0 > rows - 1 THEN 0 ELSE (rows - 1) - 0 + 1
    BY <2>1, FS_Interval
  <2>3. IsFiniteSet(C) /\ Cardinality(C) = IF 0 > cols - 1 THEN 0 ELSE (cols - 1) - 0 + 1
    BY <2>1, FS_Interval
  <2> HIDE DEF R, C
  <2> QED
    BY <2>1, <2>2, <2>3
<1>0. DOMAIN f = S
  OBVIOUS
<1> HIDE DEF R, C
<1>2. IsFiniteSet(S) /\ Cardinality(S) = rows * cols
  BY <1>1, FS_Product
<1> HIDE DEF S
<1>3. g \in Bijection(S, cells)
  <2>1. g \in [S -> cells]
    BY <1>0
  <2>2. \A p, q \in S : g[p] = g[q] => p = q
    BY <1>0 DEF Injected
  <2>3. \A y \in cells : \E p \in S : g[p] = y
    BY <1>0
  <2> HIDE DEF g, cells
  <2> QED
    BY <2>1, <2>2, <2>3 DEF Bijection, Injection, Surjection, IsInjective
<1>4. IsFiniteSet(cells) /\ Cardinality(cells) = Cardinality(S)
  BY <1>2, <1>3, FS_Bijection DEF ExistsBijection
<1> QED
  BY <1>2, <1>4 DEF Range

\* Tiles of a size along a side from low to high: they stay within it, a gutter apart, and
\* reach both its ends.
Spread(K, count, size, gutter, low, high) ==
  /\ K \in [0 .. count - 1 -> Int]
  /\ \A n \in 0 .. count - 1 : low <= K[n] /\ K[n] + size <= high
  /\ \A n, m \in 0 .. count - 1 : n # m =>
        K[n] + size + gutter <= K[m] \/ K[m] + size + gutter <= K[n]
  /\ \E n \in 0 .. count - 1 : K[n] = low
  /\ \E n \in 0 .. count - 1 : K[n] + size = high

RunsUp(K, count, low, size, gutter) ==
  /\ K \in [0 .. count - 1 -> Int]
  /\ \A n \in 0 .. count - 1 : K[n] = low + n * (size + gutter)

RunsDown(K, count, high, size, gutter) ==
  /\ K \in [0 .. count - 1 -> Int]
  /\ \A n \in 0 .. count - 1 : K[n] = high - (n + 1) * size - n * gutter

LEMMA SpreadUp ==
  ASSUME NEW size \in Nat, size # 0, NEW gutter \in Nat, NEW count \in Nat \ {0}, NEW low \in Int,
         NEW used, used = count * size + (count - 1) * gutter,
         NEW K, RunsUp(K, count, low, size, gutter)
  PROVE  used \in Nat /\ Spread(K, count, size, gutter, low, low + used)
<1> DEFINE step == size + gutter
           S == [n \in 0 .. count - 1 |-> n * step]
<1>1. used \in Nat
  <2>1. count - 1 \in Nat /\ count * size \in Nat
    OBVIOUS
  <2>2. (count - 1) * gutter \in Nat
    BY <2>1
  <2> QED
    BY <2>1, <2>2
<1>2. \A n \in 0 .. count - 1 :
        /\ S[n] \in Nat /\ S[n] + size <= used
        /\ \A m \in 0 .. count - 1 : n < m => S[n] + size + gutter <= S[m]
  BY <1>1, TilesInRow
<1>3. S[0] = 0 /\ S[count - 1] + size = used
  <2>1. S[0] = 0 * step /\ 0 * step = 0
    OBVIOUS
  <2>2. S[count - 1] = (count - 1) * step
    OBVIOUS
  <2>3. (count - 1) * step + size = used
    OBVIOUS
  <2> QED
    BY <2>1, <2>2, <2>3
<1>4. \A n \in 0 .. count - 1 : K[n] = low + S[n]
  BY DEF RunsUp
<1>5. K \in [0 .. count - 1 -> Int]
  BY DEF RunsUp
<1> HIDE DEF S
<1>6. 0 \in 0 .. count - 1 /\ count - 1 \in 0 .. count - 1
  OBVIOUS
<1>7. \A n \in 0 .. count - 1 : low <= K[n] /\ K[n] + size <= low + used
  BY <1>1, <1>2, <1>4
<1>8. \A n, m \in 0 .. count - 1 : n # m =>
        K[n] + size + gutter <= K[m] \/ K[m] + size + gutter <= K[n]
  <2> TAKE n, m \in 0 .. count - 1
  <2> HAVE n # m
  <2>1. S[n] \in Nat /\ S[m] \in Nat /\ K[n] = low + S[n] /\ K[m] = low + S[m]
    BY <1>2, <1>4
  <2>2. S[n] + size + gutter <= S[m] \/ S[m] + size + gutter <= S[n]
    <3>1. n < m \/ m < n
      OBVIOUS
    <3> QED
      BY <1>2, <3>1
  <2> QED
    BY <2>1, <2>2
<1>9. K[0] = low /\ K[count - 1] + size = low + used
  BY <1>1, <1>2, <1>3, <1>4, <1>6
<1>10. Spread(K, count, size, gutter, low, low + used)
  BY <1>5, <1>6, <1>7, <1>8, <1>9 DEF Spread
<1> QED
  BY <1>1, <1>10

\* The same tiles counted from the other end.
LEMMA SpreadDown ==
  ASSUME NEW size \in Nat, size # 0, NEW gutter \in Nat, NEW count \in Nat \ {0}, NEW high \in Int,
         NEW used, used = count * size + (count - 1) * gutter,
         NEW L, RunsDown(L, count, high, size, gutter)
  PROVE  Spread(L, count, size, gutter, high - used, high)
<1> DEFINE step == size + gutter
           zero == 0
           N == 0 .. count - 1
           K == [n \in N |-> zero + n * step]
<1>1. used \in Nat /\ Spread(K, count, size, gutter, zero, zero + used)
  <2>1. zero \in Int
    OBVIOUS
  <2> HIDE DEF zero
  <2>2. \A n \in N : K[n] = zero + n * (size + gutter)
    OBVIOUS
  <2>3. K \in [N -> Int]
    <3>1. \A n \in N : zero + n * (size + gutter) \in Int
      BY <2>1
    <3> QED
      BY <3>1
  <2>4. RunsUp(K, count, zero, size, gutter)
    BY <2>2, <2>3 DEF RunsUp
  <2> HIDE DEF K
  <2> QED
    BY <2>1, <2>4, SpreadUp
<1>2. \A n \in N : L[n] = high - size - K[n]
  <2> TAKE n \in N
  <2>1. L[n] = high - (n + 1) * size - n * gutter /\ K[n] = 0 + n * step
    BY DEF RunsDown
  <2>2. high - (n + 1) * size - n * gutter = high - size - (0 + n * step)
    OBVIOUS
  <2> QED
    BY <2>1, <2>2
<1>3. L \in [N -> Int]
  BY DEF RunsDown
<1> HIDE DEF K
<1>4. /\ K \in [N -> Int]
      /\ \A n \in N : 0 <= K[n] /\ K[n] + size <= used
      /\ \A n, m \in N : n # m =>
            K[n] + size + gutter <= K[m] \/ K[m] + size + gutter <= K[n]
      /\ \E n \in N : K[n] = 0
      /\ \E n \in N : K[n] + size = used
  <2>1. zero + used = used /\ zero = 0
    BY <1>1
  <2> HIDE DEF zero
  <2> QED
    BY <1>1, <2>1 DEF Spread
<1> HIDE DEF N
<1>10. \A n \in N : K[n] \in Int /\ L[n] \in Int /\ L[n] = high - size - K[n]
  BY <1>2, <1>3, <1>4
<1>5. \A n \in N : high - used <= L[n] /\ L[n] + size <= high
  BY <1>1, <1>4, <1>10
<1>6. \A n, m \in N : n # m =>
        L[n] + size + gutter <= L[m] \/ L[m] + size + gutter <= L[n]
  <2> TAKE n, m \in N
  <2> HAVE n # m
  <2>1. K[n] + size + gutter <= K[m] \/ K[m] + size + gutter <= K[n]
    BY <1>4
  <2> QED
    BY <1>10, <2>1
<1>7. \E n \in N : L[n] = high - used
  <2>1. PICK n \in N : K[n] + size = used
    BY <1>4
  <2>2. L[n] = high - used
    BY <1>1, <1>10, <2>1
  <2> QED
    BY <2>2
<1>8. \E n \in N : L[n] + size = high
  <2>1. PICK n \in N : K[n] = 0
    BY <1>4
  <2>2. L[n] + size = high
    BY <1>10, <2>1
  <2> QED
    BY <2>2
<1>9. Spread(L, count, size, gutter, high - used, high)
  BY <1>3, <1>5, <1>6, <1>7, <1>8 DEF Spread, N
<1> QED
  BY <1>9

\* A grid of rows and columns that are spread.
Laid(f, rows, cols, K, L, w, h) ==
  /\ DOMAIN f = (0 .. rows - 1) \X (0 .. cols - 1)
  /\ \A p \in DOMAIN f : f[p] = <<K[p[2]], L[p[1]], K[p[2]] + w, L[p[1]] + h>>

\* The cells of a grid: a gutter apart, within the box they reach into the corners of.
Tiled(f, gx, gy, x0, y0, x1, y1) ==
  /\ \A p, q \in DOMAIN f : p # q =>
       \/ f[p][3] + gx <= f[q][1] \/ f[q][3] + gx <= f[p][1]
       \/ f[p][4] + gy <= f[q][2] \/ f[q][4] + gy <= f[p][2]
  /\ \A p \in DOMAIN f :
       /\ f[p][1] \in Int /\ f[p][2] \in Int /\ f[p][3] \in Int /\ f[p][4] \in Int
       /\ x0 <= f[p][1] /\ f[p][1] < f[p][3] /\ f[p][3] <= x1
       /\ y0 <= f[p][2] /\ f[p][2] < f[p][4] /\ f[p][4] <= y1
  /\ \E p, q \in DOMAIN f : <<x0, y0, x1, y1>> = <<f[p][1], f[p][2], f[q][3], f[q][4]>>

LEMMA GridSpread ==
  ASSUME NEW w \in Nat, w # 0, NEW h \in Nat, h # 0, NEW gx \in Nat, NEW gy \in Nat,
         NEW rows \in Nat \ {0}, NEW cols \in Nat \ {0},
         NEW x0 \in Int, NEW y0 \in Int, NEW x1 \in Int, NEW y1 \in Int, NEW K, NEW L,
         Spread(K, cols, w, gx, x0, x1), Spread(L, rows, h, gy, y0, y1), NEW f, Laid(f, rows, cols, K, L, w, h)
  PROVE  Tiled(f, gx, gy, x0, y0, x1, y1)
<1> DEFINE R == 0 .. rows - 1
           C == 0 .. cols - 1
<1>1. /\ K \in [C -> Int] /\ \A n \in C : x0 <= K[n] /\ K[n] + w <= x1
      /\ \A n, m \in C : n # m => K[n] + w + gx <= K[m] \/ K[m] + w + gx <= K[n]
      /\ (\E n \in C : K[n] = x0) /\ \E n \in C : K[n] + w = x1
  BY DEF Spread
<1>2. /\ L \in [R -> Int] /\ \A n \in R : y0 <= L[n] /\ L[n] + h <= y1
      /\ \A n, m \in R : n # m => L[n] + h + gy <= L[m] \/ L[m] + h + gy <= L[n]
      /\ (\E n \in R : L[n] = y0) /\ \E n \in R : L[n] + h = y1
  BY DEF Spread
<1>3. DOMAIN f = R \X C
  BY DEF Laid
<1> HIDE DEF R, C
<1>4. ASSUME NEW p \in DOMAIN f
      PROVE  /\ p[1] \in R /\ p[2] \in C /\ p = <<p[1], p[2]>>
             /\ f[p][1] = K[p[2]] /\ f[p][2] = L[p[1]]
             /\ f[p][3] = K[p[2]] + w /\ f[p][4] = L[p[1]] + h
  BY <1>3 DEF Laid
<1>5. ASSUME NEW p \in DOMAIN f, NEW q \in DOMAIN f, p # q
      PROVE  \/ f[p][3] + gx <= f[q][1] \/ f[q][3] + gx <= f[p][1]
             \/ f[p][4] + gy <= f[q][2] \/ f[q][4] + gy <= f[p][2]
  <2>1. p[1] # q[1] \/ p[2] # q[2]
    BY <1>4, <1>5
  <2>2. CASE p[1] # q[1]
    BY <1>2, <1>4, <2>2
  <2>3. CASE p[2] # q[2]
    BY <1>1, <1>4, <2>3
  <2> QED
    BY <2>1, <2>2, <2>3
<1>6. ASSUME NEW p \in DOMAIN f
      PROVE  /\ f[p][1] \in Int /\ f[p][2] \in Int /\ f[p][3] \in Int /\ f[p][4] \in Int
             /\ x0 <= f[p][1] /\ f[p][1] < f[p][3] /\ f[p][3] <= x1
             /\ y0 <= f[p][2] /\ f[p][2] < f[p][4] /\ f[p][4] <= y1
  BY <1>1, <1>2, <1>4
<1>7. \E p, q \in DOMAIN f : <<x0, y0, x1, y1>> = <<f[p][1], f[p][2], f[q][3], f[q][4]>>
  <2>1. PICK a \in R : L[a] = y0
    BY <1>2
  <2>2. PICK b \in C : K[b] = x0
    BY <1>1
  <2>3. PICK c \in R : L[c] + h = y1
    BY <1>2
  <2>4. PICK d \in C : K[d] + w = x1
    BY <1>1
  <2>5. <<a, b>> \in DOMAIN f /\ <<c, d>> \in DOMAIN f
    BY <1>3
  <2>6. f[<<a, b>>][1] = x0 /\ f[<<a, b>>][2] = y0
    BY <1>4, <2>1, <2>2, <2>5
  <2>7. f[<<c, d>>][3] = x1 /\ f[<<c, d>>][4] = y1
    BY <1>4, <2>3, <2>4, <2>5
  <2> QED
    BY <2>5, <2>6, <2>7
<1> QED
  BY <1>5, <1>6, <1>7 DEF Tiled

\* Boxes with a place inside, and the cells of boxes within one another.
Quad == Int \X Int \X Int \X Int
Within(a, b) == b[1] <= a[1] /\ a[3] <= b[3] /\ b[2] <= a[2] /\ a[4] <= b[4]

LEMMA CellsIn ==
  ASSUME NEW b, b[1] \in Int, b[2] \in Int, b[3] \in Int, b[4] \in Int
  PROVE  \A c : c \in CellsOf(b) <=>
           /\ c = <<c[1], c[2]>> /\ c[1] \in Int /\ c[2] \in Int
           /\ b[1] <= c[1] /\ c[1] < b[3] /\ b[2] <= c[2] /\ c[2] < b[4]
<1> TAKE c
<1> DEFINE X == b[1] .. b[3] - 1
           Y == b[2] .. b[4] - 1
<1>1. c[1] \in X <=> c[1] \in Int /\ b[1] <= c[1] /\ c[1] < b[3]
  OBVIOUS
<1>2. c[2] \in Y <=> c[2] \in Int /\ b[2] <= c[2] /\ c[2] < b[4]
  OBVIOUS
<1>3. CellsOf(b) = X \X Y
  BY DEF CellsOf
<1> HIDE DEF X, Y
<1>4. c \in X \X Y <=> c = <<c[1], c[2]>> /\ c[1] \in X /\ c[2] \in Y
  OBVIOUS
<1> QED
  BY <1>1, <1>2, <1>3, <1>4

LEMMA CellsWithin ==
  ASSUME NEW a, a[1] \in Int, a[2] \in Int, a[3] \in Int, a[4] \in Int,
         NEW b, b[1] \in Int, b[2] \in Int, b[3] \in Int, b[4] \in Int, Within(a, b)
  PROVE  CellsOf(a) \subseteq CellsOf(b)
<1> SUFFICES ASSUME NEW c \in CellsOf(a) PROVE c \in CellsOf(b)
  OBVIOUS
<1>1. /\ c = <<c[1], c[2]>> /\ c[1] \in Int /\ c[2] \in Int
      /\ a[1] <= c[1] /\ c[1] < a[3] /\ a[2] <= c[2] /\ c[2] < a[4]
  BY CellsIn
<1>2. b[1] <= c[1] /\ c[1] < b[3] /\ b[2] <= c[2] /\ c[2] < b[4]
  BY <1>1 DEF Within
<1> QED
  BY <1>1, <1>2, CellsIn

LEMMA TilesAreFit ==
  ASSUME NEW g, IsGrid(g), MaxTiles \in Nat \ {0}, TileGrid(g).status = 200
  PROVE  TilesFit(g, TileGrid(g))
<1> DEFINE inner == Inner(g)
           w == g.cellW
           h == g.cellH
           gx == g.gutterX
           gy == g.gutterY
           cols == Count(w, gx, Width(inner))
           rows == Count(h, gy, Height(inner))
           usedW == cols * w + (cols - 1) * gx
           usedH == rows * h + (rows - 1) * gy
           floor == IF g.origin = "bottom-left" THEN inner[2] ELSE inner[4] - usedH
           cells == {TileAt(g, r, c) : r \in 0 .. rows - 1, c \in 0 .. cols - 1}
           used == <<inner[1], floor, inner[1] + usedW, floor + usedH>>
           t == [status |-> 200, rows |-> rows, cols |-> cols, cells |-> cells, used |-> used]
<1>1. /\ w \in Int /\ h \in Int /\ gx \in Int /\ gy \in Int
      /\ inner[1] \in Int /\ inner[2] \in Int /\ inner[3] \in Int /\ inner[4] \in Int
      /\ g.origin \in {"bottom-left", "top-left"}
  BY DEF IsGrid, Inner
<1>2. TileGrid(g) = t /\ ~(IsEmptyBox(g.sheet) \/ w <= 0 \/ h <= 0 \/ gx < 0 \/ gy < 0
                           \/ IsEmptyBox(inner) \/ cols < 1 \/ rows < 1)
  BY DEF TileGrid, NoTiles
<1>3. w \in Nat /\ w # 0 /\ h \in Nat /\ h # 0 /\ gx \in Nat /\ gy \in Nat
  BY <1>1, <1>2
<1>4. /\ Width(inner) = inner[3] - inner[1] /\ inner[1] < inner[3]
      /\ Height(inner) = inner[4] - inner[2] /\ inner[2] < inner[4]
      /\ Width(inner) \in Int /\ Height(inner) \in Int
  BY <1>1, <1>2 DEF IsEmptyBox, Width, Height, Highest
<1> HIDE DEF inner, w, h, gx, gy
<1>5. /\ cols \in Nat \ {0} /\ usedW <= Width(inner)
      /\ cols = MaxTiles \/ (cols + 1) * w + cols * gx > Width(inner)
  <2> DEFINE room == Width(inner)
             n == Count(w, gx, room)
  <2>1. room \in Int /\ ~(cols < 1)
    BY <1>2, <1>4
  <2> HIDE DEF room
  <2>2. /\ n \in 0 .. MaxTiles
        /\ n # 0 => n * w + (n - 1) * gx <= room
        /\ n = MaxTiles \/ (n + 1) * w + n * gx > room
    BY <1>3, <2>1, CountFits
  <2>3. n = cols
    BY DEF room
  <2> HIDE DEF n
  <2>4. n \in Nat \ {0}
    BY <2>1, <2>2, <2>3
  <2> QED
    BY <2>2, <2>3, <2>4 DEF room
<1>6. /\ rows \in Nat \ {0} /\ usedH <= Height(inner)
      /\ rows = MaxTiles \/ (rows + 1) * h + rows * gy > Height(inner)
  <2> DEFINE room == Height(inner)
             n == Count(h, gy, room)
  <2>1. room \in Int /\ ~(rows < 1)
    BY <1>2, <1>4
  <2> HIDE DEF room
  <2>2. /\ n \in 0 .. MaxTiles
        /\ n # 0 => n * h + (n - 1) * gy <= room
        /\ n = MaxTiles \/ (n + 1) * h + n * gy > room
    BY <1>3, <2>1, CountFits
  <2>3. n = rows
    BY DEF room
  <2> HIDE DEF n
  <2>4. n \in Nat \ {0}
    BY <2>1, <2>2, <2>3
  <2> QED
    BY <2>2, <2>3, <2>4 DEF room
<1> HIDE DEF cols, rows
<1> DEFINE K == [n \in 0 .. cols - 1 |-> inner[1] + n * (w + gx)]
           Up == [n \in 0 .. rows - 1 |-> inner[2] + n * (h + gy)]
           Down == [n \in 0 .. rows - 1 |-> inner[4] - (n + 1) * h - n * gy]
           L == IF g.origin = "bottom-left" THEN Up ELSE Down
           f == [p \in (0 .. rows - 1) \X (0 .. cols - 1) |-> TileAt(g, p[1], p[2])]
<1>7. usedW \in Nat /\ Spread(K, cols, w, gx, inner[1], inner[1] + usedW)
  <2> HIDE DEF usedW
  <2>1. usedW = cols * w + (cols - 1) * gx /\ inner[1] \in Int
    BY <1>1 DEF usedW
  <2> DEFINE low == inner[1]
  <2> HIDE DEF low
  <2>3. low \in Int /\ \A n \in 0 .. cols - 1 : K[n] = low + n * (w + gx)
    BY <2>1 DEF low
  <2>4. K \in [0 .. cols - 1 -> Int]
    <3>1. \A n \in 0 .. cols - 1 : inner[1] + n * (w + gx) \in Int
      BY <1>3, <2>1
    <3> QED
      BY <3>1
  <2>5. RunsUp(K, cols, low, w, gx)
    BY <2>3, <2>4 DEF RunsUp
  <2> HIDE DEF K
  <2>2. usedW \in Nat /\ Spread(K, cols, w, gx, low, low + usedW)
    BY <1>3, <1>5, <2>1, <2>3, <2>5, SpreadUp
  <2> QED
    BY <2>2 DEF low
<1>8. usedH \in Nat /\ Spread(L, rows, h, gy, floor, floor + usedH)
  <2> HIDE DEF usedH
  <2>1. usedH = rows * h + (rows - 1) * gy /\ inner[2] \in Int /\ inner[4] \in Int
    BY <1>1 DEF usedH
  <2> DEFINE low == inner[2]
             high == inner[4]
  <2> HIDE DEF low, high
  <2>9. /\ low \in Int /\ \A n \in 0 .. rows - 1 : Up[n] = low + n * (h + gy)
        /\ high \in Int /\ \A n \in 0 .. rows - 1 : Down[n] = high - (n + 1) * h - n * gy
    BY <2>1 DEF low, high
  <2>10. Up \in [0 .. rows - 1 -> Int]
    <3>1. \A n \in 0 .. rows - 1 : inner[2] + n * (h + gy) \in Int
      BY <1>3, <2>1
    <3> QED
      BY <3>1
  <2>11. Down \in [0 .. rows - 1 -> Int]
    <3>1. \A n \in 0 .. rows - 1 : inner[4] - (n + 1) * h - n * gy \in Int
      BY <1>3, <2>1
    <3> QED
      BY <3>1
  <2>12. RunsUp(Up, rows, low, h, gy) /\ RunsDown(Down, rows, high, h, gy)
    BY <2>9, <2>10, <2>11 DEF RunsUp, RunsDown
  <2> HIDE DEF Up, Down
  <2>7. usedH \in Nat /\ Spread(Up, rows, h, gy, low, low + usedH)
    BY <1>3, <1>6, <2>1, <2>9, <2>12, SpreadUp
  <2>8. Spread(Down, rows, h, gy, high - usedH, high)
    BY <1>3, <1>6, <2>1, <2>9, <2>12, SpreadDown
  <2>2. usedH \in Nat /\ Spread(Up, rows, h, gy, inner[2], inner[2] + usedH)
    BY <2>7 DEF low
  <2>3. Spread(Down, rows, h, gy, inner[4] - usedH, inner[4])
    BY <2>8 DEF high
  <2>4. (inner[4] - usedH) + usedH = inner[4]
    BY <2>1, <2>2
  <2>5. CASE g.origin = "bottom-left"
    BY <2>2, <2>5
  <2>6. CASE g.origin # "bottom-left"
    BY <2>2, <2>3, <2>4, <2>6
  <2> QED
    BY <2>5, <2>6
<1>9. \A p \in DOMAIN f : f[p] = <<K[p[2]], L[p[1]], K[p[2]] + w, L[p[1]] + h>>
  <2> TAKE p \in DOMAIN f
  <2>1. p[1] \in 0 .. rows - 1 /\ p[2] \in 0 .. cols - 1 /\ f[p] = TileAt(g, p[1], p[2])
    OBVIOUS
  <2> DEFINE r == p[1]
             c == p[2]
             x == inner[1] + c * (w + gx)
             y == IF g.origin = "bottom-left" THEN inner[2] + r * (h + gy)
                  ELSE inner[4] - (r + 1) * h - r * gy
  <2>2. TileAt(g, r, c) = <<x, y, x + w, y + h>>
    BY DEF TileAt, inner, w, h, gx, gy
  <2>3. K[c] = x /\ L[r] = y
    BY <2>1
  <2> HIDE DEF x, y, K, L
  <2> QED
    BY <2>1, <2>2, <2>3
<1>10. cells = {f[p] : p \in DOMAIN f}
  <2> DEFINE R == 0 .. rows - 1
             C == 0 .. cols - 1
  <2>1. DOMAIN f = R \X C /\ \A p \in R \X C : f[p] = TileAt(g, p[1], p[2])
    OBVIOUS
  <2>2. cells = {TileAt(g, r, c) : r \in R, c \in C}
    OBVIOUS
  <2> HIDE DEF f, cells, R, C
  <2>3. ASSUME NEW x \in cells PROVE \E p \in DOMAIN f : x = f[p]
    <3>1. PICK r \in R, c \in C : x = TileAt(g, r, c)
      BY <2>2
    <3>2. <<r, c>> \in R \X C /\ f[<<r, c>>] = TileAt(g, r, c)
      BY <2>1
    <3> QED
      BY <2>1, <3>1, <3>2
  <2>4. ASSUME NEW p \in DOMAIN f PROVE f[p] \in cells
    BY <2>1, <2>2
  <2> QED
    BY <2>3, <2>4
<1>11. DOMAIN f = (0 .. rows - 1) \X (0 .. cols - 1)
  OBVIOUS
<1>12. floor \in Int /\ inner[2] <= floor /\ floor + usedH <= inner[4]
  <2>1. /\ usedH \in Nat /\ usedH <= inner[4] - inner[2]
        /\ inner[2] \in Int /\ inner[4] \in Int
    BY <1>1, <1>4, <1>6, <1>8
  <2> HIDE DEF usedH
  <2> QED
    BY <2>1
<1> DEFINE x1 == inner[1] + usedW
           y1 == floor + usedH
<1>13. x1 \in Int /\ y1 \in Int /\ x1 <= inner[3] /\ y1 <= inner[4]
  <2>1. /\ usedW \in Nat /\ usedW <= inner[3] - inner[1] /\ usedH \in Nat
        /\ inner[1] \in Int /\ inner[3] \in Int /\ inner[4] \in Int
    BY <1>1, <1>4, <1>5, <1>7, <1>8
  <2> HIDE DEF usedW, usedH, floor
  <2> QED
    BY <1>12, <2>1
<1>14. Width(used) = usedW /\ Height(used) = usedH
  <2> HIDE DEF usedW, usedH, floor
  <2> QED
    BY <1>1, <1>7, <1>8, <1>12 DEF Width, Height, Highest
<1>15. /\ cols = MaxTiles \/ Width(inner) - usedW < w + gx
       /\ rows = MaxTiles \/ Height(inner) - usedH < h + gy
  <2>1. (cols + 1) * w + cols * gx = usedW + (w + gx)
    BY <1>3, <1>5
  <2>2. (rows + 1) * h + rows * gy = usedH + (h + gy)
    BY <1>3, <1>6
  <2> HIDE DEF usedW, usedH
  <2> DEFINE a == (cols + 1) * w + cols * gx
             b == (rows + 1) * h + rows * gy
  <2>3. /\ cols = MaxTiles \/ a > Width(inner)
        /\ rows = MaxTiles \/ b > Height(inner)
        /\ a = usedW + (w + gx) /\ b = usedH + (h + gy)
    BY <1>5, <1>6, <2>1, <2>2
  <2> HIDE DEF a, b
  <2>4. usedW \in Nat /\ usedH \in Nat /\ Width(inner) \in Int /\ Height(inner) \in Int
    BY <1>4, <1>7, <1>8
  <2> QED
    BY <1>3, <2>3, <2>4
<1> HIDE DEF f, K, L, x1, y1, floor, cells, usedW, usedH
<1>16. /\ \A p, q \in DOMAIN f : p # q =>
             \/ f[p][3] + gx <= f[q][1] \/ f[q][3] + gx <= f[p][1]
             \/ f[p][4] + gy <= f[q][2] \/ f[q][4] + gy <= f[p][2]
       /\ \A p \in DOMAIN f :
             /\ f[p][1] \in Int /\ f[p][2] \in Int /\ f[p][3] \in Int /\ f[p][4] \in Int
             /\ inner[1] <= f[p][1] /\ f[p][1] < f[p][3] /\ f[p][3] <= x1
             /\ floor <= f[p][2] /\ f[p][2] < f[p][4] /\ f[p][4] <= y1
       /\ \E p, q \in DOMAIN f :
             <<inner[1], floor, x1, y1>> = <<f[p][1], f[p][2], f[q][3], f[q][4]>>
  <2>1. Spread(K, cols, w, gx, inner[1], x1) /\ Spread(L, rows, h, gy, floor, y1)
    BY <1>7, <1>8 DEF x1, y1
  <2>2. inner[1] \in Int
    BY <1>1
  <2> DEFINE x0 == inner[1]
  <2> HIDE DEF x0
  <2>3. x0 \in Int /\ Spread(K, cols, w, gx, x0, x1)
    BY <2>1, <2>2 DEF x0
  <2>5. Laid(f, rows, cols, K, L, w, h)
    BY <1>9, <1>11 DEF Laid
  <2>4. Tiled(f, gx, gy, x0, floor, x1, y1)
    BY <1>3, <1>5, <1>6, <1>12, <1>13, <2>1, <2>3, <2>5, GridSpread
  <2> QED
    BY <2>4 DEF x0, Tiled
<1>17. used = <<inner[1], floor, x1, y1>>
  BY DEF x1, y1
<1> HIDE DEF used
<1>18. Cardinality(cells) = rows * cols
  <2>1. Injected(f)
    <3> USE DEF Injected
    <3> SUFFICES ASSUME NEW p \in DOMAIN f, NEW q \in DOMAIN f, f[p] = f[q], p # q PROVE FALSE
      OBVIOUS
    <3>1. \/ f[p][3] + gx <= f[p][1] \/ f[p][4] + gy <= f[p][2]
      BY <1>16
    <3> QED
      BY <1>3, <1>16, <3>1
  <2>2. rows \in Nat /\ cols \in Nat
    BY <1>5, <1>6
  <2> HIDE DEF rows, cols
  <2>3. Cardinality(Range(f)) = rows * cols
    BY <1>11, <2>1, <2>2, CellsInGrid
  <2> QED
    BY <1>10, <2>3 DEF Range
<1>19. \A c \in cells : CellsOf(c) \subseteq CellsOf(inner) /\ CellsOf(c) \subseteq CellsOf(used)
  <2> TAKE c \in cells
  <2>1. PICK p \in DOMAIN f : c = f[p]
    BY <1>10
  <2>2. /\ c[1] \in Int /\ c[2] \in Int /\ c[3] \in Int /\ c[4] \in Int
        /\ inner[1] <= c[1] /\ c[3] <= x1 /\ floor <= c[2] /\ c[4] <= y1
    BY <1>16, <2>1
  <2>3. /\ used[1] = inner[1] /\ used[2] = floor /\ used[3] = x1 /\ used[4] = y1
    BY <1>17
  <2>4. Within(c, used)
    BY <2>2, <2>3 DEF Within
  <2>5. Within(c, inner)
    BY <1>1, <1>12, <1>13, <2>2 DEF Within
  <2> QED
    BY <1>1, <1>12, <1>13, <2>2, <2>3, <2>4, <2>5, CellsWithin
<1>20. \A c, d \in cells : c # d =>
         \/ c[3] + gx <= d[1] \/ d[3] + gx <= c[1]
         \/ c[4] + gy <= d[2] \/ d[4] + gy <= c[2]
  BY <1>10, <1>16
<1>21. \E c, d \in cells : used = <<c[1], c[2], d[3], d[4]>>
  BY <1>10, <1>16, <1>17
<1>22. t.rows = rows /\ t.cols = cols /\ t.cells = cells /\ t.used = used
  OBVIOUS
<1> HIDE DEF t
<1> QED
  BY <1>2, <1>14, <1>15, <1>18, <1>19, <1>20, <1>21, <1>22 DEF TilesFit, inner, w, h, gx, gy

-----------------------------------------------------------------------------
(* Rings, and the rectangles among them.                                   *)

IsBox(b) == b \in Quad /\ b[1] < b[3] /\ b[2] < b[4]
Place(cells) == IsFiniteSet(cells) /\ cells \subseteq Int \X Int

LEMMA PairOf ==
  ASSUME NEW S, IsFiniteSet(S), S \subseteq Int, Cardinality(S) = 2
  PROVE  /\ Min(S) \in S /\ Max(S) \in S /\ Min(S) < Max(S) /\ S = {Min(S), Max(S)}
<1> DEFINE f == [x \in S |-> x]
<1>1. S # {}
  BY FS_EmptySet
<1>2. /\ Min(S) \in S /\ \A v \in S : Min(S) <= v
      /\ Max(S) \in S /\ \A v \in S : v <= Max(S)
  <2>1. f \in [S -> Int] /\ S = {f[x] : x \in S}
    OBVIOUS
  <2> HIDE DEF f
  <2> QED
    BY <1>1, <2>1, ExtremesOf
<1> DEFINE a == Min(S)
           b == Max(S)
<1>3. a # b
  <2> SUFFICES ASSUME a = b PROVE FALSE
    OBVIOUS
  <2>1. S = {a}
    <3> HIDE DEF a, b
    <3>1. a \in S /\ b \in S /\ \A v \in S : a <= v /\ v <= b
      BY <1>2 DEF a, b
    <3>2. \A v \in S : v \in Int /\ a \in Int /\ a <= v /\ v <= a
      BY <3>1
    <3>3. \A v \in S : v = a
      BY <3>2
    <3> QED
      BY <3>1, <3>3
  <2> HIDE DEF a, b
  <2>2. Cardinality(S) = 1
    BY <2>1, FS_Singleton
  <2> QED
    BY <2>2
<1>4. {a, b} \in SUBSET S
  BY <1>2
<1> HIDE DEF a, b
<1>5. Cardinality({a, b}) = 2
  <2>1. IsFiniteSet({a}) /\ Cardinality({a}) = 1
    BY FS_Singleton
  <2>2. Cardinality({a} \union {b}) = 2
    BY <1>3, <2>1, FS_AddElement
  <2>3. {a} \union {b} = {a, b}
    OBVIOUS
  <2> QED
    BY <2>2, <2>3
<1>6. S = {a, b}
  BY <1>4, <1>5, FS_Subset
<1>7. a < b
  <2>1. a \in Int /\ b \in Int /\ a <= b
    BY <1>2, <1>4 DEF a, b
  <2> QED
    BY <1>3, <2>1
<1> QED
  BY <1>2, <1>6, <1>7 DEF a, b

\* Four points that follow one another along the sides of a rectangle.
Turns(a, b, c, d, box) ==
  /\ IsBox(box)
  /\ \/ /\ a[1] = b[1] /\ c[1] = d[1] /\ b[2] = c[2] /\ d[2] = a[2]
        /\ \/ a[1] = box[1] /\ c[1] = box[3]
           \/ a[1] = box[3] /\ c[1] = box[1]
        /\ \/ a[2] = box[2] /\ b[2] = box[4]
           \/ a[2] = box[4] /\ b[2] = box[2]
     \/ /\ a[2] = b[2] /\ c[2] = d[2] /\ b[1] = c[1] /\ d[1] = a[1]
        /\ \/ a[1] = box[1] /\ b[1] = box[3]
           \/ a[1] = box[3] /\ b[1] = box[1]
        /\ \/ a[2] = box[2] /\ c[2] = box[4]
           \/ a[2] = box[4] /\ c[2] = box[2]

LEMMA FourCorners ==
  ASSUME NEW a \in Int \X Int, NEW b \in Int \X Int, NEW c \in Int \X Int, NEW d \in Int \X Int,
         a[1] = b[1] \/ a[2] = b[2], b[1] = c[1] \/ b[2] = c[2],
         c[1] = d[1] \/ c[2] = d[2], d[1] = a[1] \/ d[2] = a[2],
         a # b, b # c, c # d, a # c, b # d, NEW P, P = {a, b, c, d}, Corners(P) # <<>>
  PROVE  Turns(a, b, c, d, Corners(P)[1])
<1> DEFINE xs == {p[1] : p \in P}
           ys == {p[2] : p \in P}
           box == <<Min(xs), Min(ys), Max(xs), Max(ys)>>
<1>1. Cardinality(xs) = 2 /\ Cardinality(ys) = 2 /\ Corners(P)[1] = box
  BY DEF Corners
<1>2. xs = {a[1], b[1], c[1], d[1]} /\ ys = {a[2], b[2], c[2], d[2]}
  OBVIOUS
<1> DEFINE four(p, q, r, s) == ({p} \union {q}) \union ({r} \union {s})
<1>3. \A p, q, r, s : IsFiniteSet(four(p, q, r, s))
  BY FS_Singleton, FS_Union
<1>4. IsFiniteSet(xs) /\ IsFiniteSet(ys)
  <2>1. xs = four(a[1], b[1], c[1], d[1]) /\ ys = four(a[2], b[2], c[2], d[2])
    BY <1>2
  <2> HIDE DEF xs, ys, four
  <2> QED
    BY <1>3, <2>1
<1>5. xs \subseteq Int /\ ys \subseteq Int
  BY <1>2
<1> DEFINE l == Min(xs)
           r == Max(xs)
           s == Min(ys)
           t == Max(ys)
<1> HIDE DEF xs, ys
<1>6. l \in Int /\ r \in Int /\ l < r /\ xs = {l, r}
  BY <1>1, <1>4, <1>5, PairOf
<1>7. s \in Int /\ t \in Int /\ s < t /\ ys = {s, t}
  BY <1>1, <1>4, <1>5, PairOf
<1>8. box = <<l, s, r, t>>
  OBVIOUS
<1> HIDE DEF l, r, s, t, box
<1>9. IsBox(box) /\ box[1] = l /\ box[2] = s /\ box[3] = r /\ box[4] = t
  BY <1>6, <1>7, <1>8 DEF IsBox, Quad
<1>10. /\ a[1] \in {l, r} /\ b[1] \in {l, r} /\ c[1] \in {l, r} /\ d[1] \in {l, r}
       /\ a[2] \in {s, t} /\ b[2] \in {s, t} /\ c[2] \in {s, t} /\ d[2] \in {s, t}
  BY <1>2, <1>6, <1>7
<1>11. /\ l \in {a[1], b[1], c[1], d[1]} /\ r \in {a[1], b[1], c[1], d[1]}
       /\ s \in {a[2], b[2], c[2], d[2]} /\ t \in {a[2], b[2], c[2], d[2]}
  BY <1>2, <1>6, <1>7
<1>12. \A p, q \in Int \X Int : p # q <=> p[1] # q[1] \/ p[2] # q[2]
  OBVIOUS
<1>13. CASE a[1] = b[1]
  <2>1. a[2] # b[2]
    BY <1>12, <1>13
  <2>2. b[2] = c[2] /\ b[1] # c[1]
    BY <1>10, <1>12, <1>13, <2>1
  <2>3. c[1] = d[1] /\ c[2] # d[2]
    BY <1>10, <1>12, <1>13, <2>1, <2>2
  <2>4. d[2] = a[2]
    BY <1>10, <2>1, <2>2, <2>3
  <2> QED
    BY <1>1, <1>9, <1>10, <1>13, <2>1, <2>2, <2>3, <2>4 DEF Turns
<1>14. CASE a[2] = b[2]
  <2>1. a[1] # b[1]
    BY <1>12, <1>14
  <2>2. b[1] = c[1] /\ b[2] # c[2]
    BY <1>10, <1>12, <1>14, <2>1
  <2>3. c[2] = d[2] /\ c[1] # d[1]
    BY <1>10, <1>12, <1>14, <2>1, <2>2
  <2>4. d[1] = a[1]
    BY <1>10, <2>1, <2>2, <2>3
  <2> QED
    BY <1>1, <1>9, <1>10, <1>14, <2>1, <2>2, <2>3, <2>4 DEF Turns
<1> QED
  BY <1>13, <1>14

\* A ring of n points that runs along one upright side of a box at e, along the other at f,
\* and along no upright line elsewhere.
UpAndDown(ring, n, after, box, e, f) ==
  /\ ring \in Seq(Int \X Int) /\ Len(ring) = n
  /\ \A i \in 1 .. n : after[i] = ring[(i % n) + 1]
  /\ \A i \in 1 .. n : /\ ring[i][1] \in {box[1], box[3]} /\ ring[i][2] \in {box[2], box[4]}
                       /\ after[i][1] \in {box[1], box[3]} /\ after[i][2] \in {box[2], box[4]}
  /\ \A i \in 1 .. n : i # e /\ i # f => ring[i][1] # after[i][1] \/ ring[i][2] = after[i][2]
  /\ ring[e][1] = box[1] /\ after[e][1] = box[1] /\ ring[e][2] # after[e][2]
  /\ ring[f][1] = box[3] /\ after[f][1] = box[3] /\ ring[f][2] # after[f][2]

LEMMA ModBound ==
  ASSUME NEW n \in Nat \ {0}, NEW e \in 1 .. n
  PROVE  (e % n) + 1 \in 1 .. n
<1>1. e % n \in 0 .. n - 1
  OBVIOUS
<1> QED
  BY <1>1

LEMMA LeastTwo ==
  ASSUME NEW a \in Int, NEW b \in Int, a < b
  PROVE  Min({a, b}) = a /\ Max({a, b}) = b
<1>1. \E x \in {a, b} : \A y \in {a, b} : x =< y
  OBVIOUS
<1>2. \E x \in {a, b} : \A y \in {a, b} : x >= y
  OBVIOUS
<1>3. Min({a, b}) \in {a, b} /\ \A y \in {a, b} : Min({a, b}) =< y
  BY <1>1 DEF Min
<1>4. Max({a, b}) \in {a, b} /\ \A y \in {a, b} : Max({a, b}) >= y
  BY <1>2 DEF Max
<1> QED
  BY <1>3, <1>4

LEMMA CoveredBySides ==
  ASSUME NEW ring, NEW box, IsBox(box), NEW n \in Nat \ {0}, NEW after,
         NEW e \in 1 .. n, NEW f \in 1 .. n, e # f, UpAndDown(ring, n, after, box, e, f)
  PROVE  Covered(ring) = CellsOf(box)
<1> DEFINE xs == {ring[i][1] : i \in DOMAIN ring}
           ys == {ring[i][2] : i \in DOMAIN ring}
           Left(c) == {i \in 1 .. n :
                       /\ ring[i][1] = after[i][1] /\ ring[i][1] <= c[1]
                       /\ Lowest(ring[i][2], after[i][2]) <= c[2]
                       /\ c[2] < Highest(ring[i][2], after[i][2])}
           l == box[1]
           s == box[2]
           r == box[3]
           t == box[4]
<1>1. DOMAIN ring = 1 .. n
  BY DEF UpAndDown
<1>2. l \in Int /\ r \in Int /\ s \in Int /\ t \in Int /\ l < r /\ s < t
  BY DEF IsBox, Quad
<1>8. \A i \in 1 .. n : /\ ring[i][1] \in {l, r} /\ ring[i][2] \in {s, t}
                       /\ after[i][1] \in {l, r} /\ after[i][2] \in {s, t}
  BY DEF UpAndDown
<1>9. /\ ring[e][1] = l /\ after[e][1] = l /\ ring[e][2] # after[e][2]
      /\ ring[f][1] = r /\ after[f][1] = r /\ ring[f][2] # after[f][2]
  BY DEF UpAndDown
<1>10. \A i \in 1 .. n : i # e /\ i # f => ring[i][1] # after[i][1] \/ ring[i][2] = after[i][2]
  BY DEF UpAndDown
<1> HIDE DEF l, s, r, t
<1>3. xs = {l, r} /\ ys = {s, t}
  <2>1. xs \subseteq {l, r} /\ ys \subseteq {s, t}
    BY <1>1, <1>8
  <2>2. l \in xs /\ r \in xs
    BY <1>1, <1>9
  <2>3. s \in ys /\ t \in ys
    <3> DEFINE j == (e % n) + 1
    <3>1. after[e] = ring[j]
      BY DEF UpAndDown
    <3>2. j \in 1 .. n
      BY ModBound
    <3> HIDE DEF j
    <3>3. ring[e][2] \in ys /\ after[e][2] \in ys
      BY <1>1, <3>1, <3>2
    <3>4. {ring[e][2], after[e][2]} = {s, t}
      BY <1>8, <1>9
    <3> HIDE DEF ys
    <3> QED
      BY <3>3, <3>4
  <2> HIDE DEF xs, ys
  <2> QED
    BY <2>1, <2>2, <2>3
<1>4. Min(xs) = l /\ Max(xs) = r /\ Min(ys) = s /\ Max(ys) = t
  BY <1>2, <1>3, LeastTwo
<1>5. Covered(ring) = {c \in (l .. r) \X (s .. t) : Cardinality(Left(c)) % 2 = 1}
  <2> DEFINE Raw(c) == {i \in DOMAIN ring :
                       /\ ring[i][1] = ring[(i % Len(ring)) + 1][1] /\ ring[i][1] <= c[1]
                       /\ Lowest(ring[i][2], ring[(i % Len(ring)) + 1][2]) <= c[2]
                       /\ c[2] < Highest(ring[i][2], ring[(i % Len(ring)) + 1][2])}
  <2>1. ASSUME NEW c PROVE Left(c) = Raw(c)
    <3>1. \A i \in 1 .. n : after[i] = ring[(i % Len(ring)) + 1]
      BY DEF UpAndDown
    <3> QED
      BY <1>1, <3>1
  <2>2. Covered(ring) = {c \in (Min(xs) .. Max(xs)) \X (Min(ys) .. Max(ys)) :
                           Cardinality(Raw(c)) % 2 = 1}
    BY DEF Covered
  <2> HIDE DEF Left, Raw, xs, ys
  <2> QED
    BY <1>4, <2>1, <2>2
<1>6. ASSUME NEW c, c[1] \in Int, c[2] \in Int,
             l <= c[1], c[1] <= r, s <= c[2], c[2] <= t
      PROVE  Cardinality(Left(c)) % 2 = 1 <=> c[1] < r /\ c[2] < t
  <2>2. ASSUME NEW i \in 1 .. n
        PROVE  i \in Left(c) <=> c[2] < t /\ (i = e \/ (i = f /\ r <= c[1]))
    <3> DEFINE p == ring[i][1]
               q == after[i][1]
               u == ring[i][2]
               v == after[i][2]
    <3>0. p \in {l, r} /\ q \in {l, r} /\ u \in {s, t} /\ v \in {s, t}
      BY <1>8
    <3>4. i \in Left(c) <=> p = q /\ p <= c[1] /\ Lowest(u, v) <= c[2] /\ c[2] < Highest(u, v)
      OBVIOUS
    <3>5. IF u = v THEN Lowest(u, v) = u /\ Highest(u, v) = u
          ELSE Lowest(u, v) = s /\ Highest(u, v) = t
      BY <1>2, <3>0 DEF Lowest, Highest
    <3>1. CASE i # e /\ i # f
      <4>1. p # q \/ u = v
        BY <1>10, <3>1
      <4> HIDE DEF p, q, u, v, Left
      <4> QED
        BY <1>2, <1>6, <3>0, <3>1, <3>4, <3>5, <4>1
    <3>2. CASE i = e
      <4>1. p = l /\ q = l /\ u # v
        BY <1>9, <3>2
      <4> HIDE DEF p, q, u, v, Left
      <4> QED
        BY <1>2, <1>6, <3>0, <3>2, <3>4, <3>5, <4>1
    <3>3. CASE i = f
      <4>1. p = r /\ q = r /\ u # v
        BY <1>9, <3>3
      <4> HIDE DEF p, q, u, v, Left
      <4> QED
        BY <1>2, <1>6, <3>0, <3>3, <3>4, <3>5, <4>1
    <3> QED
      BY <3>1, <3>2, <3>3
  <2>3. Left(c) \subseteq 1 .. n
    OBVIOUS
  <2> DEFINE edges == Left(c)
  <2> HIDE DEF edges
  <2>4. edges = IF c[2] < t THEN IF r <= c[1] THEN {e} \union {f} ELSE {e} ELSE {}
    BY <2>2, <2>3 DEF edges
  <2>5. Cardinality({}) = 0 /\ Cardinality({e}) = 1 /\ Cardinality({e} \union {f}) = 2
    <3>1. IsFiniteSet({e}) /\ Cardinality({e}) = 1 /\ f \notin {e}
      BY FS_Singleton
    <3>2. Cardinality({e} \union {f}) = Cardinality({e}) + 1
      BY <3>1, FS_AddElement
    <3> QED
      BY <3>1, <3>2, FS_EmptySet
  <2>6. Cardinality(edges) = IF c[2] < t THEN IF r <= c[1] THEN 2 ELSE 1 ELSE 0
    BY <2>4, <2>5
  <2>7. Cardinality(edges) % 2 = 1 <=> c[2] < t /\ ~(r <= c[1])
    <3>1. 2 % 2 = 0 /\ 1 % 2 = 1 /\ 0 % 2 = 0
      OBVIOUS
    <3> QED
      BY <2>6, <3>1
  <2>8. ~(r <= c[1]) <=> c[1] < r
    BY <1>2, <1>6
  <2> QED
    BY <2>7, <2>8 DEF edges
<1>7. ASSUME NEW c
      PROVE  c \in Covered(ring) <=>
               /\ c = <<c[1], c[2]>> /\ c[1] \in Int /\ c[2] \in Int
               /\ l <= c[1] /\ c[1] < r /\ s <= c[2] /\ c[2] < t
  <2> HIDE DEF Left
  <2>1. c \in (l .. r) \X (s .. t) <=>
               /\ c = <<c[1], c[2]>> /\ c[1] \in Int /\ c[2] \in Int
               /\ l <= c[1] /\ c[1] <= r /\ s <= c[2] /\ c[2] <= t
    <3>1. \A X, Y : c \in X \X Y <=> c = <<c[1], c[2]>> /\ c[1] \in X /\ c[2] \in Y
      OBVIOUS
    <3>2. /\ c[1] \in l .. r <=> c[1] \in Int /\ l <= c[1] /\ c[1] <= r
          /\ c[2] \in s .. t <=> c[2] \in Int /\ s <= c[2] /\ c[2] <= t
      BY <1>2
    <3> QED
      BY <3>1, <3>2
  <2> DEFINE odd == Cardinality(Left(c)) % 2 = 1
             in == c \in (l .. r) \X (s .. t)
  <2>2. c \in Covered(ring) <=> in /\ odd
    BY <1>5
  <2>3. in => (odd <=> c[1] < r /\ c[2] < t)
    BY <1>6, <2>1
  <2> HIDE DEF odd, in
  <2>4. /\ c[1] \in Int /\ c[1] < r => c[1] <= r
        /\ c[2] \in Int /\ c[2] < t => c[2] <= t
    BY <1>2
  <2> QED
    BY <2>1, <2>2, <2>3, <2>4 DEF in
<1> QED
  BY <1>2, <1>7, CellsIn DEF l, s, r, t

\* A ring of four points, or of five that ends where it began.
FourOrFive(ring) ==
  /\ ring \in Seq(Int \X Int)
  /\ Len(ring) = 4 \/ (Len(ring) = 5 /\ ring[5] = ring[1])

LEMMA TurnsCover ==
  ASSUME NEW ring, FourOrFive(ring), NEW box, Turns(ring[1], ring[2], ring[3], ring[4], box)
  PROVE  Covered(ring) = CellsOf(box)
<1> DEFINE n == Len(ring)
           after == [i \in 1 .. n |-> ring[(i % n) + 1]]
           Upright(e, f) == UpAndDown(ring, n, after, box, e, f)
<1>1. n \in {4, 5}
  BY DEF FourOrFive
<1>2. IsBox(box) /\ n \in Nat \ {0} /\ {1, 2, 3, 4} \subseteq 1 .. n
  BY <1>1 DEF Turns
<1>3. /\ after[1] = ring[2] /\ after[2] = ring[3] /\ after[3] = ring[4] /\ after[4] = ring[1]
      /\ n = 5 => after[5] = ring[1] /\ ring[5] = ring[1]
  <2>1. CASE n = 4
    <3>1. 1 % 4 = 1 /\ 2 % 4 = 2 /\ 3 % 4 = 3 /\ 4 % 4 = 0
      OBVIOUS
    <3> QED
      BY <2>1, <3>1
  <2>2. CASE n = 5
    <3>1. 1 % 5 = 1 /\ 2 % 5 = 2 /\ 3 % 5 = 3 /\ 4 % 5 = 4 /\ 5 % 5 = 0
      OBVIOUS
    <3>2. ring[5] = ring[1]
      BY <2>2 DEF FourOrFive
    <3> QED
      BY <2>2, <3>1, <3>2
  <2> QED
    BY <1>1, <2>1, <2>2
<1>4. ring \in Seq(Int \X Int) /\ Len(ring) = n /\ \A i \in 1 .. n : after[i] = ring[(i % n) + 1]
  BY DEF FourOrFive
<1> HIDE DEF n, after
<1>5. \A i \in 1 .. n : i = 1 \/ i = 2 \/ i = 3 \/ i = 4 \/ (i = 5 /\ n = 5)
  BY <1>1
<1>9. DOMAIN after = 1 .. n
  BY DEF after
<1>6. box[1] # box[3] /\ box[2] # box[4]
  BY <1>2 DEF IsBox, Quad
<1>7. CASE /\ ring[1][1] = ring[2][1] /\ ring[3][1] = ring[4][1]
           /\ ring[2][2] = ring[3][2] /\ ring[4][2] = ring[1][2]
           /\ \/ ring[1][1] = box[1] /\ ring[3][1] = box[3]
              \/ ring[1][1] = box[3] /\ ring[3][1] = box[1]
           /\ \/ ring[1][2] = box[2] /\ ring[2][2] = box[4]
              \/ ring[1][2] = box[4] /\ ring[2][2] = box[2]
  <2>3. \A i \in 1 .. n : /\ ring[i][1] \in {box[1], box[3]} /\ ring[i][2] \in {box[2], box[4]}
                          /\ after[i][1] \in {box[1], box[3]} /\ after[i][2] \in {box[2], box[4]}
    BY <1>3, <1>5, <1>7
  <2>4. \A i \in 1 .. n : i # 1 /\ i # 3 => ring[i][1] # after[i][1] \/ ring[i][2] = after[i][2]
    BY <1>3, <1>5, <1>6, <1>7
  <2>5. /\ ring[1][1] = after[1][1] /\ ring[1][2] # after[1][2]
        /\ ring[3][1] = after[3][1] /\ ring[3][2] # after[3][2]
    BY <1>3, <1>6, <1>7
  <2>1. CASE ring[1][1] = box[1]
    <3>2. ring[3][1] = box[3]
      BY <1>6, <1>7, <2>1
    <3>1. Upright(1, 3)
      BY <1>4, <2>1, <2>3, <2>4, <2>5, <3>2 DEF UpAndDown
    <3> QED
      BY <1>2, <3>1, CoveredBySides
  <2>2. CASE ring[1][1] = box[3]
    <3>2. ring[3][1] = box[1]
      BY <1>6, <1>7, <2>2
    <3>1. Upright(3, 1)
      BY <1>4, <2>2, <2>3, <2>4, <2>5, <3>2 DEF UpAndDown
    <3> QED
      BY <1>2, <3>1, CoveredBySides
  <2> QED
    BY <1>7, <2>1, <2>2
<1>8. CASE /\ ring[1][2] = ring[2][2] /\ ring[3][2] = ring[4][2]
           /\ ring[2][1] = ring[3][1] /\ ring[4][1] = ring[1][1]
           /\ \/ ring[1][1] = box[1] /\ ring[2][1] = box[3]
              \/ ring[1][1] = box[3] /\ ring[2][1] = box[1]
           /\ \/ ring[1][2] = box[2] /\ ring[3][2] = box[4]
              \/ ring[1][2] = box[4] /\ ring[3][2] = box[2]
  <2>3. \A i \in 1 .. n : /\ ring[i][1] \in {box[1], box[3]} /\ ring[i][2] \in {box[2], box[4]}
                          /\ after[i][1] \in {box[1], box[3]} /\ after[i][2] \in {box[2], box[4]}
    BY <1>3, <1>5, <1>8
  <2>4. \A i \in 1 .. n : i # 2 /\ i # 4 => ring[i][1] # after[i][1] \/ ring[i][2] = after[i][2]
    BY <1>3, <1>5, <1>6, <1>8
  <2>5. /\ ring[2][1] = after[2][1] /\ ring[2][2] # after[2][2]
        /\ ring[4][1] = after[4][1] /\ ring[4][2] # after[4][2]
    BY <1>3, <1>6, <1>8
  <2>1. CASE ring[1][1] = box[1]
    <3>2. ring[2][1] = box[3] /\ ring[4][1] = box[1]
      BY <1>6, <1>8, <2>1
    <3>1. Upright(4, 2)
      BY <1>4, <2>3, <2>4, <2>5, <3>2 DEF UpAndDown
    <3> QED
      BY <1>2, <3>1, CoveredBySides
  <2>2. CASE ring[1][1] = box[3]
    <3>2. ring[2][1] = box[1] /\ ring[4][1] = box[3]
      BY <1>6, <1>8, <2>2
    <3>1. Upright(2, 4)
      BY <1>4, <2>3, <2>4, <2>5, <3>2 DEF UpAndDown
    <3> QED
      BY <1>2, <3>1, CoveredBySides
  <2> QED
    BY <1>8, <2>1, <2>2
<1> QED
  BY <1>7, <1>8 DEF Turns

LEMMA RingPoints ==
  ASSUME NEW ring, IsRing(ring)
  PROVE  /\ ring \in Seq(Int \X Int) /\ Len(ring) \in Nat \ {0}
         /\ DOMAIN ring = 1 .. Len(ring)
         /\ \A i \in 1 .. Len(ring) : /\ ring[i] \in Int \X Int
                                      /\ ring[i][1] \in Int /\ ring[i][2] \in Int
  BY DEF IsRing

LEMMA RectTurns ==
  ASSUME NEW ring, IsRing(ring), RectOf(ring) # <<>>
  PROVE  /\ ring \in Seq(Int \X Int) /\ Len(ring) = 4 /\ RectOf(ring) = Corners(ToSet(ring))
         /\ Turns(ring[1], ring[2], ring[3], ring[4], Corners(ToSet(ring))[1])
<1> DEFINE a == ring[1]
           b == ring[2]
           c == ring[3]
           d == ring[4]
           P == ToSet(ring)
<1>1. Len(ring) = 4 /\ RectOf(ring) = Corners(P)
  BY DEF RectOf
<1>2. ring \in Seq(Int \X Int) /\ DOMAIN ring = 1 .. 4
  BY <1>1, RingPoints
<1>3. a \in Int \X Int /\ b \in Int \X Int /\ c \in Int \X Int /\ d \in Int \X Int
  <2>1. 1 \in 1 .. 4 /\ 2 \in 1 .. 4 /\ 3 \in 1 .. 4 /\ 4 \in 1 .. 4
    OBVIOUS
  <2> QED
    BY <1>1, <2>1, RingPoints
<1>4. P = {a, b, c, d}
  BY <1>2 DEF ToSet
<1>5. /\ a[1] = b[1] \/ a[2] = b[2]
      /\ b[1] = c[1] \/ b[2] = c[2]
      /\ c[1] = d[1] \/ c[2] = d[2]
      /\ d[1] = a[1] \/ d[2] = a[2]
  <2>1. \A i \in 1 .. 4 : LET q == ring[(i % 4) + 1] IN ring[i][1] = q[1] \/ ring[i][2] = q[2]
    BY <1>1, <1>2 DEF IsRing
  <2>2. 1 % 4 = 1 /\ 2 % 4 = 2 /\ 3 % 4 = 3 /\ 4 % 4 = 0
    OBVIOUS
  <2>3. 1 \in 1 .. 4 /\ 2 \in 1 .. 4 /\ 3 \in 1 .. 4 /\ 4 \in 1 .. 4
    OBVIOUS
  <2> QED
    BY <2>1, <2>2, <2>3
<1>6. a # b /\ b # c /\ c # d /\ a # c /\ b # d
  <2>1. \A i, j \in 1 .. 4 : ring[i] = ring[j] => i = j \/ {i, j} = {1, 4}
    BY <1>1, <1>2 DEF IsRing
  <2>2. ASSUME NEW i \in 1 .. 4, NEW j \in 1 .. 4, ring[i] = ring[j], i # j
        PROVE  (i = 1 /\ j = 4) \/ (i = 4 /\ j = 1)
    <3>1. {i, j} = {1, 4}
      BY <2>1, <2>2
    <3>2. i \in {1, 4} /\ j \in {1, 4}
      BY <3>1
    <3> QED
      BY <2>2, <3>2
  <2>3. 1 \in 1 .. 4 /\ 2 \in 1 .. 4 /\ 3 \in 1 .. 4 /\ 4 \in 1 .. 4
    OBVIOUS
  <2> QED
    BY <2>1, <2>2, <2>3
<1>7. Corners(P) # <<>>
  BY <1>1
<1> HIDE DEF a, b, c, d, P
<1>8. Turns(a, b, c, d, Corners(P)[1])
  BY <1>3, <1>4, <1>5, <1>6, <1>7, FourCorners
<1> QED
  BY <1>1, <1>2, <1>8 DEF a, b, c, d, P

\* What the rectangle shortcut takes for a rectangle covers what the ring does.
LEMMA RingIsRect ==
  ASSUME NEW ring, IsRing(ring), RectOf(ring) # <<>>
  PROVE  IsBox(RectOf(ring)[1]) /\ Covered(ring) = CellsOf(RectOf(ring)[1])
<1> DEFINE box == Corners(ToSet(ring))[1]
<1>1. Turns(ring[1], ring[2], ring[3], ring[4], box) /\ FourOrFive(ring) /\ RectOf(ring)[1] = box
  BY RectTurns DEF FourOrFive
<1> HIDE DEF box
<1>2. IsBox(box)
  BY <1>1 DEF Turns
<1> QED
  BY <1>1, <1>2, TurnsCover

\* So does what an offset takes for one, the first point repeated or not.
LEMMA RingAsBox ==
  ASSUME NEW ring, IsRing(ring), AsBox(ring) # <<>>
  PROVE  IsBox(AsBox(ring)[1]) /\ Covered(ring) = CellsOf(AsBox(ring)[1])
<1>1. CASE ~(Len(ring) = 5 /\ ring[1] = ring[5])
  BY <1>1, RingIsRect DEF AsBox
<1>2. CASE Len(ring) = 5 /\ ring[1] = ring[5]
  <2> DEFINE q == SubSeq(ring, 1, 4)
  <2>11. 1 \in 1 .. 5 /\ 2 \in 1 .. 5 /\ 3 \in 1 .. 5 /\ 4 \in 1 .. 5
    OBVIOUS
  <2>12. /\ q \in Seq(Int \X Int) /\ Len(q) = 4 /\ DOMAIN q = 1 .. 4
         /\ \A i \in 1 .. 4 : q[i] = ring[i]
    <3>1. 1 .. 4 \subseteq 1 .. 5
      OBVIOUS
    <3>2. q = [i \in 1 .. 4 |-> ring[i]]
      BY <1>2, RingPoints
    <3>3. \A i \in 1 .. 4 : ring[i] \in Int \X Int
      BY <1>2, <3>1, RingPoints
    <3> HIDE DEF q
    <3> QED
      BY <3>2, <3>3
  <2>1. ring \in Seq(Int \X Int) /\ DOMAIN ring = 1 .. 5
    BY <1>2, RingPoints
  <2>2. /\ q \in Seq(Int \X Int) /\ Len(q) = 4 /\ DOMAIN q = 1 .. 4
        /\ q[1] = ring[1] /\ q[2] = ring[2] /\ q[3] = ring[3] /\ q[4] = ring[4]
    BY <2>12
  <2>3. AsBox(ring) = RectOf(q)
    BY <1>2 DEF AsBox
  <2> HIDE DEF q
  <2>4. IsRing(q)
    <3>1. \A i \in 1 .. 4 : LET p == q[(i % 4) + 1] IN q[i][1] = p[1] \/ q[i][2] = p[2]
      <4>1. \A i \in 1 .. 5 : LET p == ring[(i % 5) + 1] IN ring[i][1] = p[1] \/ ring[i][2] = p[2]
        BY <1>2, <2>1 DEF IsRing
      <4>2. 1 % 5 = 1 /\ 2 % 5 = 2 /\ 3 % 5 = 3 /\ 4 % 5 = 4
        OBVIOUS
      <4>3. 1 % 4 = 1 /\ 2 % 4 = 2 /\ 3 % 4 = 3 /\ 4 % 4 = 0
        OBVIOUS
      <4>4. 1 \in 1 .. 5 /\ 2 \in 1 .. 5 /\ 3 \in 1 .. 5 /\ 4 \in 1 .. 5
        OBVIOUS
      <4>5. /\ ring[1][1] = ring[2][1] \/ ring[1][2] = ring[2][2]
            /\ ring[2][1] = ring[3][1] \/ ring[2][2] = ring[3][2]
            /\ ring[3][1] = ring[4][1] \/ ring[3][2] = ring[4][2]
            /\ ring[4][1] = ring[5][1] \/ ring[4][2] = ring[5][2]
        BY <4>1, <4>2, <4>4
      <4>6. \A i \in 1 .. 4 : i = 1 \/ i = 2 \/ i = 3 \/ i = 4
        OBVIOUS
      <4> QED
        BY <1>2, <2>2, <4>3, <4>5, <4>6
    <3>2. \A i, j \in 1 .. 4 : q[i] = q[j] => i = j
      <4>1. \A i, j \in 1 .. 5 : ring[i] = ring[j] => i = j \/ {i, j} = {1, 5}
        BY <1>2, <2>1 DEF IsRing
      <4>2. \A i \in 1 .. 4 : i \in 1 .. 5 /\ q[i] = ring[i] /\ i # 5
        BY <2>12
      <4> SUFFICES ASSUME NEW i \in 1 .. 4, NEW j \in 1 .. 4, q[i] = q[j], i # j PROVE FALSE
        OBVIOUS
      <4>3. {i, j} = {1, 5}
        BY <4>1, <4>2
      <4>4. 5 \in {i, j}
        BY <4>3
      <4> QED
        BY <4>2, <4>4
    <3>3. q # <<>>
      BY <2>2
    <3> QED
      BY <2>2, <3>1, <3>2, <3>3 DEF IsRing
  <2>5. RectOf(q) # <<>>
    BY <2>3
  <2> DEFINE P == ToSet(q)
             box == Corners(P)[1]
  <2>6. RectOf(q) = Corners(P)
    BY <2>2 DEF RectOf
  <2>7. Turns(q[1], q[2], q[3], q[4], box)
    BY <2>4, <2>5, RectTurns
  <2>8. FourOrFive(ring)
    BY <1>2, <2>1 DEF FourOrFive
  <2> HIDE DEF box
  <2>9. Covered(ring) = CellsOf(box)
    BY <2>2, <2>7, <2>8, TurnsCover
  <2>10. IsBox(box)
    BY <2>7 DEF Turns
  <2> QED
    BY <2>3, <2>6, <2>9, <2>10 DEF box
<1> QED
  BY <1>1, <1>2

-----------------------------------------------------------------------------
(* Paths: the box of one is what it covers.                                *)

LEMMA CellsFinite ==
  ASSUME NEW b \in Quad
  PROVE  Place(CellsOf(b))
<1>1. b[1] \in Int /\ b[3] - 1 \in Int /\ b[2] \in Int /\ b[4] - 1 \in Int
  BY DEF Quad
<1> DEFINE X == b[1] .. b[3] - 1
           Y == b[2] .. b[4] - 1
<1>2. IsFiniteSet(X) /\ IsFiniteSet(Y) /\ X \subseteq Int /\ Y \subseteq Int
  BY <1>1, FS_Interval, SMTT(30)
<1>3. CellsOf(b) = X \X Y
  BY DEF CellsOf
<1> HIDE DEF X, Y
<1>4. IsFiniteSet(X \X Y) /\ X \X Y \subseteq Int \X Int
  BY <1>2, FS_Product
<1> QED
  BY <1>3, <1>4 DEF Place

LEMMA PlaceWithin ==
  ASSUME NEW S, Place(S), NEW T, T \subseteq S
  PROVE  Place(T)
BY FS_Subset DEF Place

LEMMA ExtremesIn ==
  ASSUME NEW V, IsFiniteSet(V), V # {}, V \subseteq Int
  PROVE  /\ Min(V) \in V /\ \A v \in V : Min(V) <= v
         /\ Max(V) \in V /\ \A v \in V : v <= Max(V)
<1> DEFINE f == [x \in V |-> x]
<1>1. f \in [V -> Int] /\ V = {f[x] : x \in V}
  OBVIOUS
<1> HIDE DEF f
<1> QED
  BY <1>1, ExtremesOf

LEMMA CoveredFinite ==
  ASSUME NEW ring, IsRing(ring)
  PROVE  Place(Covered(ring))
<1> DEFINE D == DOMAIN ring
           f == [i \in D |-> ring[i][1]]
           g == [i \in D |-> ring[i][2]]
           xs == {ring[i][1] : i \in DOMAIN ring}
           ys == {ring[i][2] : i \in DOMAIN ring}
           box == <<Min(xs), Min(ys), Max(xs) + 1, Max(ys) + 1>>
<1>1. IsFiniteSet(D) /\ D # {}
  <2>1. D = 1 .. Len(ring) /\ Len(ring) \in Nat \ {0}
    BY RingPoints
  <2>2. Len(ring) \in Int /\ 1 \in D
    BY <2>1
  <2>3. IsFiniteSet(1 .. Len(ring))
    BY <2>2, FS_Interval
  <2> HIDE DEF D
  <2> QED
    BY <2>1, <2>2, <2>3
<1>2. f \in [D -> Int] /\ g \in [D -> Int]
  BY RingPoints
<1>3. xs = {f[i] : i \in D} /\ ys = {g[i] : i \in D}
  OBVIOUS
<1> HIDE DEF f, g, D
<1>4. Min(xs) \in Int /\ Max(xs) \in Int /\ Min(ys) \in Int /\ Max(ys) \in Int
  <2> HIDE DEF xs, ys
  <2>1. /\ Min(xs) \in xs /\ Max(xs) \in xs /\ xs \subseteq Int
        /\ Min(ys) \in ys /\ Max(ys) \in ys /\ ys \subseteq Int
    BY <1>1, <1>2, <1>3, ExtremesOf
  <2> QED
    BY <2>1
<1> DEFINE A == Min(xs) .. Max(xs)
           B == Min(ys) .. Max(ys)
<1>5. Covered(ring) \subseteq A \X B
  BY DEF Covered
<1>6. IsFiniteSet(A) /\ IsFiniteSet(B) /\ A \subseteq Int /\ B \subseteq Int
  BY <1>4, FS_Interval
<1> HIDE DEF A, B
<1>7. Place(A \X B)
  BY <1>6, FS_Product DEF Place
<1> QED
  BY <1>5, <1>7, PlaceWithin

LEMMA PlaceUnion ==
  ASSUME NEW n \in Nat, NEW f, DOMAIN f = 1 .. n, \A i \in 1 .. n : Place(f[i])
  PROVE  Place(UNION {f[i] : i \in 1 .. n})
<1> DEFINE V == {f[i] : i \in 1 .. n}
<1>1. IsFiniteSet(1 .. n)
  BY FS_Interval
<1>2. IsFiniteSet(V)
  BY <1>1, FiniteImage
<1>3. \A T \in V : IsFiniteSet(T) /\ T \subseteq Int \X Int
  BY DEF Place
<1> HIDE DEF V
<1>4. IsFiniteSet(UNION V) /\ UNION V \subseteq Int \X Int
  BY <1>2, <1>3, FS_UNION
<1> QED
  BY <1>4 DEF V, Place

\* A path that has a box covers that box, and every path covers finitely many places.
Sound(p) ==
  /\ p.status = 200 /\ Place(p.cells)
  /\ p.box # <<>> => IsBox(p.box[1]) /\ p.cells = CellsOf(p.box[1])

Rings(rings) == rings \in Seq(Seq(Int \X Int)) /\ \A k \in DOMAIN rings : IsRing(rings[k])

LEMMA RingsSound ==
  ASSUME NEW rings, Rings(rings)
  PROVE  Sound(OfRings(rings))
<1> DEFINE n == Len(rings)
           f == [i \in 1 .. n |-> Covered(rings[i])]
           cells == UNION {Covered(rings[i]) : i \in DOMAIN rings}
           box == IF Len(rings) = 1 THEN RectOf(rings[1]) ELSE <<>>
<1>1. n \in Nat /\ DOMAIN rings = 1 .. n
  BY DEF Rings
<1>2. \A i \in 1 .. n : Place(f[i])
  BY <1>1, CoveredFinite DEF Rings
<1>3. cells = UNION {f[i] : i \in 1 .. n}
  BY <1>1
<1>4. Place(cells)
  <2> HIDE DEF cells
  <2>1. DOMAIN f = 1 .. n
    OBVIOUS
  <2> HIDE DEF f, n
  <2> QED
    BY <1>1, <1>2, <1>3, <2>1, PlaceUnion
<1>5. box # <<>> => IsBox(box[1]) /\ cells = CellsOf(box[1])
  <2> HAVE box # <<>>
  <2>1. n = 1 /\ box = RectOf(rings[1]) /\ IsRing(rings[1])
    BY <1>1 DEF Rings
  <2>2. IsBox(box[1]) /\ Covered(rings[1]) = CellsOf(box[1])
    <3> HIDE DEF box
    <3>1. RectOf(rings[1]) # <<>>
      BY <2>1
    <3> QED
      BY <2>1, <3>1, RingIsRect
  <2>3. cells = Covered(rings[1])
    BY <1>1, <2>1
  <2> QED
    BY <2>2, <2>3
<1>6. OfRings(rings) = [status |-> 200, box |-> box, cells |-> cells]
  BY DEF OfRings, Path
<1> HIDE DEF box, cells
<1>7. OfRings(rings).status = 200 /\ OfRings(rings).box = box /\ OfRings(rings).cells = cells
  BY <1>6
<1> QED
  BY <1>4, <1>5, <1>7 DEF Sound

\* Clipper's answer covers what it was asked for.
LEMMA ClipperSound ==
  ASSUME NEW installed, NEW cells, Place(cells), ClipperOp(installed, cells).status = 200
  PROVE  Sound(ClipperOp(installed, cells)) /\ ClipperOp(installed, cells).cells = cells
<1> DEFINE xs == {c[1] : c \in cells}
           ys == {c[2] : c \in cells}
           around == <<Min(xs), Min(ys), Max(xs) + 1, Max(ys) + 1>>
           box == IF cells # {} /\ cells = CellsOf(around) THEN <<around>> ELSE <<>>
           p == [status |-> 200, box |-> box, cells |-> cells]
<1>1. ClipperOp(installed, cells) = p
  BY DEF ClipperOp, Raises, Path
<1>2. cells # {} => IsBox(around)
  <2> HAVE cells # {}
  <2> DEFINE f == [c \in cells |-> c[1]]
             g == [c \in cells |-> c[2]]
  <2>1. f \in [cells -> Int] /\ g \in [cells -> Int] /\ IsFiniteSet(cells)
    BY DEF Place
  <2>2. xs = {f[c] : c \in cells} /\ ys = {g[c] : c \in cells}
    OBVIOUS
  <2> HIDE DEF f, g, xs, ys
  <2>3. /\ Min(xs) \in xs /\ Max(xs) \in xs /\ \A v \in xs : Min(xs) <= v
        /\ Min(ys) \in ys /\ Max(ys) \in ys /\ \A v \in ys : Min(ys) <= v
    <3>1. IsFiniteSet(xs) /\ IsFiniteSet(ys)
      BY <2>1, <2>2, FiniteImage
    <3>2. xs # {} /\ ys # {} /\ xs \subseteq Int /\ ys \subseteq Int
      BY <2>1, <2>2
    <3> QED
      BY <3>1, <3>2, ExtremesIn
  <2>4. xs \subseteq Int /\ ys \subseteq Int
    BY <2>1, <2>2
  <2> DEFINE a == Min(xs)
             b == Min(ys)
             c == Max(xs)
             d == Max(ys)
  <2>5. a \in Int /\ b \in Int /\ c \in Int /\ d \in Int /\ a <= c /\ b <= d
    BY <2>3, <2>4
  <2>6. around = <<a, b, c + 1, d + 1>>
    OBVIOUS
  <2> HIDE DEF a, b, c, d, around
  <2> QED
    BY <2>5, <2>6 DEF IsBox, Quad
<1> HIDE DEF around
<1>3. box # <<>> => IsBox(box[1]) /\ cells = CellsOf(box[1])
  BY <1>2
<1> HIDE DEF box
<1>4. p.status = 200 /\ p.box = box /\ p.cells = cells
  OBVIOUS
<1> HIDE DEF p
<1> QED
  BY <1>1, <1>3, <1>4 DEF Sound

\* Boxes as one path.
LEMMA BoxesSound ==
  ASSUME NEW boxes, IsFiniteSet(boxes), \A b \in boxes : IsBox(b)
  PROVE  Sound(OfBoxes(boxes)) /\ OfBoxes(boxes).cells = UNION {CellsOf(b) : b \in boxes}
<1> DEFINE cells == UNION {CellsOf(b) : b \in boxes}
           box == IF Cardinality(boxes) = 1 THEN <<CHOOSE b \in boxes : TRUE>> ELSE <<>>
           p == [status |-> 200, box |-> box, cells |-> cells]
<1>1. OfBoxes(boxes) = p
  BY DEF OfBoxes, Path
<1>2. Place(cells)
  <2> DEFINE f == [b \in boxes |-> CellsOf(b)]
             V == {CellsOf(b) : b \in boxes}
  <2>1. DOMAIN f = boxes /\ V = {f[b] : b \in boxes}
    OBVIOUS
  <2> HIDE DEF f
  <2>2. IsFiniteSet(V)
    BY <2>1, FiniteImage
  <2>3. \A T \in V : IsFiniteSet(T) /\ T \subseteq Int \X Int
    BY CellsFinite DEF Place, IsBox
  <2> HIDE DEF V
  <2>4. IsFiniteSet(UNION V) /\ UNION V \subseteq Int \X Int
    BY <2>2, <2>3, FS_UNION
  <2> QED
    BY <2>4 DEF V, Place
<1>3. box # <<>> => IsBox(box[1]) /\ cells = CellsOf(box[1])
  <2> HAVE box # <<>>
  <2>1. Cardinality(boxes) = 1 /\ box = <<CHOOSE b \in boxes : TRUE>>
    OBVIOUS
  <2>2. PICK b : boxes = {b}
    BY <2>1, FS_Singleton
  <2>3. box[1] = b
    BY <2>1, <2>2
  <2>4. cells = CellsOf(b)
    BY <2>2
  <2> QED
    BY <2>2, <2>3, <2>4
<1> HIDE DEF cells, box
<1>4. p.status = 200 /\ p.box = box /\ p.cells = cells
  OBVIOUS
<1> HIDE DEF p
<1> QED
  BY <1>1, <1>2, <1>3, <1>4 DEF Sound, cells

-----------------------------------------------------------------------------
(* Boxes met, taken away, and the box around them.                         *)

LEMMA BoxOrEmpty ==
  ASSUME NEW b \in Quad
  PROVE  (IsBox(b) <=> ~IsEmptyBox(b)) /\ (IsEmptyBox(b) => CellsOf(b) = {})
<1>1. b[1] \in Int /\ b[2] \in Int /\ b[3] \in Int /\ b[4] \in Int
  BY DEF Quad
<1>2. IsBox(b) <=> ~IsEmptyBox(b)
  BY <1>1 DEF IsBox, IsEmptyBox, Width, Height, Highest
<1>3. IsEmptyBox(b) => b[3] <= b[1] \/ b[4] <= b[2]
  BY <1>1 DEF IsEmptyBox, Width, Height, Highest
<1>4. IsEmptyBox(b) => CellsOf(b) = {}
  <2> HAVE IsEmptyBox(b)
  <2>1. ASSUME NEW c \in CellsOf(b) PROVE FALSE
    <3>1. /\ c[1] \in Int /\ c[2] \in Int
          /\ b[1] <= c[1] /\ c[1] < b[3] /\ b[2] <= c[2] /\ c[2] < b[4]
      BY <1>1, CellsIn
    <3> QED
      BY <1>1, <1>3, <3>1
  <2> QED
    BY <2>1
<1> QED
  BY <1>2, <1>4

LEMMA MeetCells ==
  ASSUME NEW a \in Quad, NEW b \in Quad
  PROVE  Intersect(a, b) \in Quad /\ CellsOf(Intersect(a, b)) = CellsOf(a) \cap CellsOf(b)
<1> DEFINE x0 == Highest(a[1], b[1])
           y0 == Highest(a[2], b[2])
           x1 == Lowest(a[3], b[3])
           y1 == Lowest(a[4], b[4])
           m == Intersect(a, b)
<1>1. /\ a[1] \in Int /\ a[2] \in Int /\ a[3] \in Int /\ a[4] \in Int
      /\ b[1] \in Int /\ b[2] \in Int /\ b[3] \in Int /\ b[4] \in Int
  BY DEF Quad
<1>2. x0 \in Int /\ y0 \in Int /\ x1 \in Int /\ y1 \in Int
  BY <1>1 DEF Highest, Lowest
<1>3. m = IF x1 < x0 \/ y1 < y0 THEN <<0, 0, 0, 0>> ELSE <<x0, y0, x1, y1>>
  BY DEF Intersect
<1>4. \A v \in Int : /\ x0 <= v /\ v < x1 <=> a[1] <= v /\ v < a[3] /\ b[1] <= v /\ v < b[3]
                     /\ y0 <= v /\ v < y1 <=> a[2] <= v /\ v < a[4] /\ b[2] <= v /\ v < b[4]
  BY <1>1 DEF Highest, Lowest
<1> HIDE DEF x0, y0, x1, y1, m
<1>5. m \in Quad
  BY <1>2, <1>3 DEF Quad
<1>6. ASSUME NEW c PROVE c \in CellsOf(m) <=> c \in CellsOf(a) /\ c \in CellsOf(b)
  <2>1. c \in CellsOf(m) <=>
           /\ c = <<c[1], c[2]>> /\ c[1] \in Int /\ c[2] \in Int
           /\ m[1] <= c[1] /\ c[1] < m[3] /\ m[2] <= c[2] /\ c[2] < m[4]
    BY <1>5, CellsIn DEF Quad
  <2>2. c \in CellsOf(a) <=>
           /\ c = <<c[1], c[2]>> /\ c[1] \in Int /\ c[2] \in Int
           /\ a[1] <= c[1] /\ c[1] < a[3] /\ a[2] <= c[2] /\ c[2] < a[4]
    BY <1>1, CellsIn
  <2>3. c \in CellsOf(b) <=>
           /\ c = <<c[1], c[2]>> /\ c[1] \in Int /\ c[2] \in Int
           /\ b[1] <= c[1] /\ c[1] < b[3] /\ b[2] <= c[2] /\ c[2] < b[4]
    BY <1>1, CellsIn
  <2>4. CASE x1 < x0 \/ y1 < y0
    <3>1. m[1] = 0 /\ m[3] = 0
      BY <1>3, <2>4
    <3>2. c[1] \in Int /\ c[2] \in Int => ~(x0 <= c[1] /\ c[1] < x1 /\ y0 <= c[2] /\ c[2] < y1)
      BY <1>2, <2>4
    <3> QED
      BY <1>4, <2>1, <2>2, <2>3, <3>1, <3>2
  <2>5. CASE ~(x1 < x0 \/ y1 < y0)
    <3>1. m[1] = x0 /\ m[2] = y0 /\ m[3] = x1 /\ m[4] = y1
      BY <1>3, <2>5
    <3> QED
      BY <1>4, <2>1, <2>2, <2>3, <3>1
  <2> QED
    BY <2>4, <2>5
<1> QED
  BY <1>5, <1>6 DEF m

LEMMA DifferenceCells ==
  ASSUME NEW a, IsBox(a), NEW b, IsBox(b)
  PROVE  /\ IsFiniteSet(Difference(a, b)) /\ \A r \in Difference(a, b) : IsBox(r)
         /\ UNION {CellsOf(r) : r \in Difference(a, b)} = CellsOf(a) \ CellsOf(b)
<1> DEFINE m == Intersect(a, b)
           upper == <<a[1], m[4], a[3], a[4]>>
           lower == <<a[1], a[2], a[3], m[2]>>
           left == <<a[1], m[2], m[1], m[4]>>
           right == <<m[3], m[2], a[3], m[4]>>
           four == {upper, lower, left, right}
           kept == {r \in four : ~IsEmptyBox(r)}
           D == Difference(a, b)
<1>1. a \in Quad /\ b \in Quad
  BY DEF IsBox
<1>2. m \in Quad /\ CellsOf(m) = CellsOf(a) \cap CellsOf(b)
  BY <1>1, MeetCells
<1>3. D = IF IsEmptyBox(m) THEN {a} ELSE kept
  BY DEF Difference
<1>4. CASE IsEmptyBox(m)
  <2>1. CellsOf(m) = {}
    BY <1>2, <1>4, BoxOrEmpty
  <2>2. D = {a}
    BY <1>3, <1>4
  <2> HIDE DEF D
  <2> QED
    BY <1>2, <2>1, <2>2, FS_Singleton DEF D
<1>5. CASE ~IsEmptyBox(m)
  <2>1. /\ a[1] \in Int /\ a[2] \in Int /\ a[3] \in Int /\ a[4] \in Int
        /\ m[1] \in Int /\ m[2] \in Int /\ m[3] \in Int /\ m[4] \in Int
    BY <1>1, <1>2 DEF Quad
  <2>2. a[1] <= m[1] /\ m[3] <= a[3] /\ a[2] <= m[2] /\ m[4] <= a[4]
    <3>1. m = <<Highest(a[1], b[1]), Highest(a[2], b[2]), Lowest(a[3], b[3]), Lowest(a[4], b[4])>>
            \/ m = <<0, 0, 0, 0>>
      BY DEF Intersect
    <3>2. m # <<0, 0, 0, 0>>
      <4>1. ASSUME m = <<0, 0, 0, 0>> PROVE IsEmptyBox(m)
        <5>1. m[1] = 0 /\ m[3] = 0
          BY <4>1
        <5> QED
          BY <5>1 DEF IsEmptyBox, Width, Highest
      <4> QED
        BY <1>5, <4>1
    <3>3. b[1] \in Int /\ b[2] \in Int /\ b[3] \in Int /\ b[4] \in Int
      BY <1>1 DEF Quad
    <3> QED
      BY <2>1, <3>1, <3>2, <3>3 DEF Highest, Lowest
  <2>3. m[1] < m[3] /\ m[2] < m[4]
    BY <1>2, <1>5, BoxOrEmpty DEF IsBox
  <2> HIDE DEF m
  <2>4. upper \in Quad /\ lower \in Quad /\ left \in Quad /\ right \in Quad
    BY <2>1 DEF Quad
  <2>5. D = kept
    BY <1>3, <1>5
  <2>6. \A r \in D : IsBox(r)
    <3>1. \A r \in four : r \in Quad
      BY <2>4
    <3> HIDE DEF four
    <3> QED
      BY <2>5, <3>1, BoxOrEmpty
  <2>7. IsFiniteSet(D)
    <3> DEFINE parts == ({upper} \union {lower}) \union ({left} \union {right})
    <3>1. IsFiniteSet(parts)
      BY FS_Singleton, FS_Union
    <3>2. D \subseteq parts
      BY <2>5
    <3> HIDE DEF parts
    <3> QED
      BY <3>1, <3>2, FS_Subset
  <2>8. UNION {CellsOf(r) : r \in D}
          = CellsOf(upper) \union CellsOf(lower) \union CellsOf(left) \union CellsOf(right)
    <3>1. \A r \in four : IsEmptyBox(r) => CellsOf(r) = {}
      BY <2>4, BoxOrEmpty
    <3> HIDE DEF upper, lower, left, right
    <3>2. /\ IsEmptyBox(upper) => CellsOf(upper) = {}
          /\ IsEmptyBox(lower) => CellsOf(lower) = {}
          /\ IsEmptyBox(left) => CellsOf(left) = {}
          /\ IsEmptyBox(right) => CellsOf(right) = {}
      BY <3>1
    <3> HIDE DEF D
    <3>3. \A c : c \in UNION {CellsOf(r) : r \in D} <=> \E r \in D : c \in CellsOf(r)
      OBVIOUS
    <3>4. \A r : r \in D <=> r \in four /\ ~IsEmptyBox(r)
      BY <2>5
    <3>5. \A c : (\E r \in D : c \in CellsOf(r)) <=>
                 \/ c \in CellsOf(upper) \/ c \in CellsOf(lower)
                 \/ c \in CellsOf(left) \/ c \in CellsOf(right)
      BY <3>2, <3>4
    <3> QED
      BY <3>3, <3>5
  <2>9. ASSUME NEW c
        PROVE  c \in CellsOf(upper) \union CellsOf(lower) \union CellsOf(left) \union CellsOf(right)
                 <=> c \in CellsOf(a) /\ c \notin CellsOf(m)
    <3> DEFINE In(q) == /\ c = <<c[1], c[2]>> /\ c[1] \in Int /\ c[2] \in Int
                        /\ q[1] <= c[1] /\ c[1] < q[3] /\ q[2] <= c[2] /\ c[2] < q[4]
    <3>1. \A q \in Quad : c \in CellsOf(q) <=> In(q)
      BY CellsIn DEF Quad
    <3>2. In(upper) \/ In(lower) \/ In(left) \/ In(right) <=> In(a) /\ ~In(m)
      BY <2>1, <2>2, <2>3
    <3>3. m \in Quad
      BY <1>2
    <3> HIDE DEF In, upper, lower, left, right
    <3> QED
      BY <1>1, <2>4, <3>1, <3>2, <3>3
  <2>10. CellsOf(upper) \union CellsOf(lower) \union CellsOf(left) \union CellsOf(right)
           = CellsOf(a) \ CellsOf(b)
    <3> HIDE DEF upper, lower, left, right
    <3>1. CellsOf(m) = CellsOf(a) \cap CellsOf(b)
      BY <1>2
    <3> QED
      BY <2>9, <3>1
  <2> QED
    BY <2>6, <2>7, <2>8, <2>10
<1> QED
  BY <1>4, <1>5

-----------------------------------------------------------------------------
(* What is done to a list one element after the other.                     *)

TakeStep(kind, installed, a, b) ==
  IF kind = "met" THEN Intersect(a, b)
  ELSE IF kind = "around" THEN UnionBox(a, b)
  ELSE IF a.status # 200 THEN a
  ELSE IF kind = "intersect" THEN PolygonIntersect(installed, <<a, b>>)
  ELSE PolygonDifference(installed, a, b)

Walk(g, kind, installed, first, list, n) ==
  /\ DOMAIN g = 0 .. n /\ g[0] = first
  /\ \A k \in 1 .. n : g[k] = TakeStep(kind, installed, g[k - 1], list[k])

LEMMA GeomFromZero ==
  ASSUME NEW S, 0 \in S, \A n \in Nat : n \in S => n + 1 \in S
  PROVE  Nat \subseteq S
<1> DEFINE bad == {n \in Nat : n \notin S}
<1> SUFFICES ASSUME bad # {} PROVE FALSE
  OBVIOUS
<1>1. bad \subseteq Nat
  OBVIOUS
<1> HIDE DEF bad
<1>2. PICK k \in bad : \A j \in bad : k <= j
  BY <1>1, LeastNumber
<1>3. k \in Nat /\ k \notin S /\ k # 0
  BY <1>2 DEF bad
<1>4. k - 1 \in Nat /\ (k - 1) + 1 = k /\ ~(k <= k - 1)
  BY <1>3
<1>5. k - 1 \in S
  BY <1>2, <1>4 DEF bad
<1> QED
  BY <1>3, <1>4, <1>5

LEMMA WalkExists ==
  ASSUME NEW kind, NEW installed, NEW first, NEW list, NEW n \in Nat
  PROVE  \E g : Walk(g, kind, installed, first, list, n)
<1> DEFINE S == {k \in Nat : \E g : Walk(g, kind, installed, first, list, k)}
<1>1. 0 \in S
  <2> DEFINE g == [k \in 0 .. 0 |-> first]
  <2>1. Walk(g, kind, installed, first, list, 0)
    BY DEF Walk
  <2> QED
    BY <2>1
<1>2. ASSUME NEW k \in Nat, k \in S PROVE k + 1 \in S
  <2>1. PICK g : Walk(g, kind, installed, first, list, k)
    BY <1>2
  <2> DEFINE next == TakeStep(kind, installed, g[k], list[k + 1])
             h == [i \in 0 .. k + 1 |-> IF i = k + 1 THEN next ELSE g[i]]
  <2>2. DOMAIN h = 0 .. k + 1 /\ h[0] = first /\ h[k + 1] = next /\ \A i \in 0 .. k : h[i] = g[i]
    BY <2>1 DEF Walk
  <2> HIDE DEF h
  <2>3. \A i \in 1 .. k + 1 : i = k + 1 \/ i \in 1 .. k
    OBVIOUS
  <2>4. (k + 1) - 1 = k /\ k \in 0 .. k /\ \A i \in 1 .. k : i - 1 \in 0 .. k /\ i \in 0 .. k
    OBVIOUS
  <2>5. Walk(h, kind, installed, first, list, k + 1)
    BY <2>1, <2>2, <2>3, <2>4 DEF Walk
  <2> QED
    BY <2>5
<1> HIDE DEF S
<1>3. n \in S
  BY <1>1, <1>2, GeomFromZero
<1> QED
  BY <1>3 DEF S

\* A function that is what a walk says of it is one.
LEMMA WalkOf ==
  ASSUME NEW kind, NEW installed, NEW first, NEW list, NEW n \in Nat, NEW g, DOMAIN g = 0 .. n,
         \A k \in 0 .. n : g[k] = IF k = 0 THEN first
                                  ELSE TakeStep(kind, installed, g[k - 1], list[k])
  PROVE  Walk(g, kind, installed, first, list, n)
BY DEF Walk

Unfolds(h, kind, installed, first, list, n) ==
  h = [k \in 0 .. n |-> IF k = 0 THEN first ELSE TakeStep(kind, installed, h[k - 1], list[k])]

LEMMA WalkIs ==
  ASSUME NEW kind, NEW installed, NEW first, NEW list, NEW n \in Nat, NEW g,
         Walk(g, kind, installed, first, list, n)
  PROVE  \E h : Unfolds(h, kind, installed, first, list, n)
<1> DEFINE h == [k \in 0 .. n |-> g[k]]
<1>1. \A k \in 0 .. n : h[k] = IF k = 0 THEN first
                               ELSE TakeStep(kind, installed, h[k - 1], list[k])
  <2> TAKE k \in 0 .. n
  <2>1. CASE k = 0
    BY <2>1 DEF Walk
  <2>2. CASE k # 0
    <3>1. k \in 1 .. n /\ k - 1 \in 0 .. n
      BY <2>2
    <3>2. h[k] = g[k] /\ h[k - 1] = g[k - 1]
      BY <3>1
    <3> HIDE DEF h
    <3> QED
      BY <2>2, <3>1, <3>2 DEF Walk
  <2> QED
    BY <2>1, <2>2
<1>2. h = [k \in 0 .. n |-> h[k]]
  OBVIOUS
<1> HIDE DEF h
<1>3. h = [k \in 0 .. n |-> IF k = 0 THEN first ELSE TakeStep(kind, installed, h[k - 1], list[k])]
  BY <1>1, <1>2
<1> QED
  BY <1>3 DEF Unfolds

\* The boxes after the first.
LaterBoxes(boxes) == [k \in 1 .. Len(boxes) - 1 |-> boxes[k + 1]]

LEMMA BoxesMetWalk ==
  ASSUME NEW boxes, Len(boxes) \in Nat \ {0}
  PROVE  \E g : /\ Walk(g, "met", TRUE, boxes[1], LaterBoxes(boxes), Len(boxes) - 1)
                /\ BoxesMet(boxes) = g[Len(boxes) - 1]
<1> DEFINE n == Len(boxes) - 1
           list == LaterBoxes(boxes)
           met == CHOOSE g : g = [k \in 0 .. n |-> IF k = 0 THEN boxes[1]
                                                   ELSE Intersect(g[k - 1], boxes[k + 1])]
<1>1. n \in Nat
  OBVIOUS
<1>2. BoxesMet(boxes) = met[n]
  BY DEF BoxesMet
<1>3. \A g, k : k \in 1 .. n =>
        TakeStep("met", TRUE, g[k - 1], list[k]) = Intersect(g[k - 1], boxes[k + 1])
  BY DEF TakeStep, LaterBoxes
<1> HIDE DEF n, list
<1>4. \E g : g = [k \in 0 .. n |-> IF k = 0 THEN boxes[1] ELSE Intersect(g[k - 1], boxes[k + 1])]
  <2>1. PICK g : Walk(g, "met", TRUE, boxes[1], list, n)
    BY <1>1, WalkExists
  <2>5. PICK h : Unfolds(h, "met", TRUE, boxes[1], list, n)
    BY <1>1, <2>1, WalkIs
  <2>2. h = [k \in 0 .. n |-> IF k = 0 THEN boxes[1] ELSE TakeStep("met", TRUE, h[k - 1], list[k])]
    BY <2>5 DEF Unfolds
  <2>3. \A k \in 0 .. n : k # 0 => k \in 1 .. n
    BY <1>1
  <2>4. h = [k \in 0 .. n |-> IF k = 0 THEN boxes[1] ELSE Intersect(h[k - 1], boxes[k + 1])]
    BY <1>3, <2>2, <2>3
  <2> QED
    BY <2>4
<1>5. met = [k \in 0 .. n |-> IF k = 0 THEN boxes[1] ELSE Intersect(met[k - 1], boxes[k + 1])]
  BY <1>4, Zenon
<1> HIDE DEF met
<1>6. /\ DOMAIN met = 0 .. n
      /\ \A k \in 0 .. n : met[k] = IF k = 0 THEN boxes[1]
                                    ELSE TakeStep("met", TRUE, met[k - 1], list[k])
  <2>1. DOMAIN met = 0 .. n
    BY <1>5
  <2>2. \A k \in 0 .. n : met[k] = IF k = 0 THEN boxes[1] ELSE Intersect(met[k - 1], boxes[k + 1])
    BY <1>5
  <2>3. \A k \in 0 .. n : k # 0 => k \in 1 .. n
    BY <1>1
  <2> QED
    BY <1>3, <2>1, <2>2, <2>3
<1>7. Walk(met, "met", TRUE, boxes[1], list, n)
  BY <1>1, <1>6, WalkOf
<1> QED
  BY <1>2, <1>7 DEF n, list

LEMMA BoxesAroundWalk ==
  ASSUME NEW boxes, Len(boxes) \in Nat \ {0}
  PROVE  \E g : /\ Walk(g, "around", TRUE, boxes[1], LaterBoxes(boxes), Len(boxes) - 1)
                /\ BoxesAround(boxes) = g[Len(boxes) - 1]
<1> DEFINE n == Len(boxes) - 1
           list == LaterBoxes(boxes)
           around == CHOOSE g : g = [k \in 0 .. n |-> IF k = 0 THEN boxes[1]
                                                      ELSE UnionBox(g[k - 1], boxes[k + 1])]
<1>1. n \in Nat
  OBVIOUS
<1>2. BoxesAround(boxes) = around[n]
  BY DEF BoxesAround
<1>3. \A g, k : k \in 1 .. n =>
        TakeStep("around", TRUE, g[k - 1], list[k]) = UnionBox(g[k - 1], boxes[k + 1])
  BY DEF TakeStep, LaterBoxes
<1> HIDE DEF n, list
<1>4. \E g : g = [k \in 0 .. n |-> IF k = 0 THEN boxes[1] ELSE UnionBox(g[k - 1], boxes[k + 1])]
  <2>1. PICK g : Walk(g, "around", TRUE, boxes[1], list, n)
    BY <1>1, WalkExists
  <2>5. PICK h : Unfolds(h, "around", TRUE, boxes[1], list, n)
    BY <1>1, <2>1, WalkIs
  <2>2. h = [k \in 0 .. n |-> IF k = 0 THEN boxes[1]
                              ELSE TakeStep("around", TRUE, h[k - 1], list[k])]
    BY <2>5 DEF Unfolds
  <2>3. \A k \in 0 .. n : k # 0 => k \in 1 .. n
    BY <1>1
  <2>4. h = [k \in 0 .. n |-> IF k = 0 THEN boxes[1] ELSE UnionBox(h[k - 1], boxes[k + 1])]
    BY <1>3, <2>2, <2>3
  <2> QED
    BY <2>4
<1>5. around = [k \in 0 .. n |-> IF k = 0 THEN boxes[1] ELSE UnionBox(around[k - 1], boxes[k + 1])]
  BY <1>4, Zenon
<1> HIDE DEF around
<1>6. /\ DOMAIN around = 0 .. n
      /\ \A k \in 0 .. n : around[k] = IF k = 0 THEN boxes[1]
                                       ELSE TakeStep("around", TRUE, around[k - 1], list[k])
  <2>1. DOMAIN around = 0 .. n
    BY <1>5
  <2>2. \A k \in 0 .. n :
          around[k] = IF k = 0 THEN boxes[1] ELSE UnionBox(around[k - 1], boxes[k + 1])
    BY <1>5
  <2>3. \A k \in 0 .. n : k # 0 => k \in 1 .. n
    BY <1>1
  <2> QED
    BY <1>3, <2>1, <2>2, <2>3
<1>7. Walk(around, "around", TRUE, boxes[1], list, n)
  BY <1>1, <1>6, WalkOf
<1> QED
  BY <1>2, <1>7 DEF n, list

LEMMA InTurnWalk ==
  ASSUME NEW installed, NEW op \in {"intersect", "difference"}, NEW first, NEW rest,
         Len(rest) \in Nat
  PROVE  \E g : /\ Walk(g, op, installed, first, rest, Len(rest))
                /\ InTurn(installed, op, first, rest) = g[Len(rest)]
<1> DEFINE n == Len(rest)
           OneStep(a, b) == IF op = "intersect" THEN PolygonIntersect(installed, <<a, b>>)
                         ELSE PolygonDifference(installed, a, b)
           Next3(g, k) == IF g[k - 1].status # 200 THEN g[k - 1] ELSE OneStep(g[k - 1], rest[k])
           done == CHOOSE g : g = [k \in 0 .. n |-> IF k = 0 THEN first
                                     ELSE IF g[k - 1].status # 200 THEN g[k - 1]
                                     ELSE OneStep(g[k - 1], rest[k])]
<1>1. n \in Nat
  OBVIOUS
<1>2. InTurn(installed, op, first, rest) = done[n]
  BY DEF InTurn
<1>3. \A g, k : TakeStep(op, installed, g[k - 1], rest[k]) = Next3(g, k)
  BY DEF TakeStep
<1>8. done = CHOOSE g : g = [k \in 0 .. n |-> IF k = 0 THEN first ELSE Next3(g, k)]
  OBVIOUS
<1> HIDE DEF n, Next3, done
<1>4. \E g : g = [k \in 0 .. n |-> IF k = 0 THEN first ELSE Next3(g, k)]
  <2>1. PICK g : Walk(g, op, installed, first, rest, n)
    BY <1>1, WalkExists
  <2>5. PICK h : Unfolds(h, op, installed, first, rest, n)
    BY <1>1, <2>1, WalkIs
  <2>2. h = [k \in 0 .. n |-> IF k = 0 THEN first ELSE TakeStep(op, installed, h[k - 1], rest[k])]
    BY <2>5 DEF Unfolds
  <2>4. h = [k \in 0 .. n |-> IF k = 0 THEN first ELSE Next3(h, k)]
    BY <1>3, <2>2
  <2> QED
    BY <2>4
<1>5. done = [k \in 0 .. n |-> IF k = 0 THEN first ELSE Next3(done, k)]
  BY <1>4, <1>8, Zenon
<1>6. /\ DOMAIN done = 0 .. n
      /\ \A k \in 0 .. n : done[k] = IF k = 0 THEN first
                                     ELSE TakeStep(op, installed, done[k - 1], rest[k])
  <2>1. DOMAIN done = 0 .. n
    BY <1>5
  <2>2. \A k \in 0 .. n : done[k] = IF k = 0 THEN first ELSE Next3(done, k)
    BY <1>5
  <2> QED
    BY <1>3, <2>1, <2>2
<1>7. Walk(done, op, installed, first, rest, n)
  BY <1>1, <1>6, WalkOf
<1> QED
  BY <1>2, <1>7 DEF n

\* Boxes one after the other.
BoxSeq(boxes) ==
  /\ DOMAIN boxes = 1 .. Len(boxes) /\ Len(boxes) \in Nat \ {0}
  /\ \A i \in 1 .. Len(boxes) : IsBox(boxes[i])

LEMMA BoxesMetCells ==
  ASSUME NEW boxes, BoxSeq(boxes)
  PROVE  /\ BoxesMet(boxes) \in Quad
         /\ \A c : c \in CellsOf(BoxesMet(boxes)) <=>
                     \A i \in 1 .. Len(boxes) : c \in CellsOf(boxes[i])
<1> DEFINE n == Len(boxes)
<1>1. n \in Nat \ {0} /\ \A i \in 1 .. n : boxes[i] \in Quad
  BY DEF BoxSeq, IsBox
<1>2. PICK g : /\ Walk(g, "met", TRUE, boxes[1], LaterBoxes(boxes), n - 1)
               /\ BoxesMet(boxes) = g[n - 1]
  BY <1>1, BoxesMetWalk
<1> DEFINE Right(k) == /\ g[k] \in Quad
                       /\ \A c : c \in CellsOf(g[k]) <=> \A i \in 1 .. k + 1 : c \in CellsOf(boxes[i])
           S == {k \in Nat : k <= n - 1 => Right(k)}
<1>3. g[0] = boxes[1] /\ \A k \in 1 .. n - 1 : g[k] = Intersect(g[k - 1], boxes[k + 1])
  BY <1>2 DEF Walk, TakeStep, LaterBoxes
<1> HIDE DEF n
<1>4. 0 \in S
  <2>1. 1 \in 1 .. n /\ \A i \in 1 .. 0 + 1 : i = 1
    BY <1>1
  <2> QED
    BY <1>1, <1>3, <2>1
<1>5. \A k \in Nat : k \in S => k + 1 \in S
  <2> SUFFICES ASSUME NEW k \in Nat, k \in S, k + 1 <= n - 1 PROVE Right(k + 1)
    OBVIOUS
  <2>1. k <= n - 1 /\ k + 1 \in 1 .. n - 1 /\ k + 2 \in 1 .. n /\ (k + 1) - 1 = k /\ (k + 1) + 1 = k + 2
    BY <1>1
  <2>2. Right(k)
    BY <2>1
  <2> DEFINE q == g[k]
             b == boxes[k + 2]
  <2>3. g[k + 1] = Intersect(q, b)
    BY <1>3, <2>1
  <2>4. q \in Quad /\ b \in Quad
    BY <1>1, <2>1, <2>2
  <2>7. \A c : c \in CellsOf(q) <=> \A i \in 1 .. k + 1 : c \in CellsOf(boxes[i])
    BY <2>2
  <2> HIDE DEF q
  <2>5. Intersect(q, b) \in Quad /\ CellsOf(Intersect(q, b)) = CellsOf(q) \cap CellsOf(b)
    BY <2>4, MeetCells
  <2>6. \A i : i \in 1 .. (k + 1) + 1 <=> i \in 1 .. k + 1 \/ i = k + 2
    OBVIOUS
  <2>8. \A c : c \in CellsOf(g[k + 1]) <=> \A i \in 1 .. (k + 1) + 1 : c \in CellsOf(boxes[i])
    BY <2>3, <2>5, <2>6, <2>7
  <2> QED
    BY <2>3, <2>5, <2>8
<1> HIDE DEF Right
<1>6. Right(n - 1)
  <2>1. n - 1 \in Nat /\ n - 1 <= n - 1
    BY <1>1
  <2>2. Nat \subseteq S
    <3> HIDE DEF S
    <3> QED
      BY <1>4, <1>5, GeomFromZero
  <2>3. n - 1 \in S
    BY <2>1, <2>2
  <2> QED
    BY <2>1, <2>3
<1>7. (n - 1) + 1 = n
  BY <1>1
<1> QED
  BY <1>2, <1>6, <1>7 DEF Right, n

\* The box around boxes: it holds each, and each of its sides is a side of one of them.
IsAround(b, boxes, n) ==
  /\ IsBox(b) /\ \A i \in 1 .. n : Within(boxes[i], b)
  /\ \E i \in 1 .. n : boxes[i][1] = b[1]
  /\ \E i \in 1 .. n : boxes[i][2] = b[2]
  /\ \E i \in 1 .. n : boxes[i][3] = b[3]
  /\ \E i \in 1 .. n : boxes[i][4] = b[4]

LEMMA UnionOfTwo ==
  ASSUME NEW a, IsBox(a), NEW b, IsBox(b)
  PROVE  LET u == UnionBox(a, b)
         IN  /\ IsBox(u) /\ Within(a, u) /\ Within(b, u)
             /\ u[1] \in {a[1], b[1]} /\ u[2] \in {a[2], b[2]}
             /\ u[3] \in {a[3], b[3]} /\ u[4] \in {a[4], b[4]}
<1> DEFINE u == UnionBox(a, b)
<1>1. /\ a[1] \in Int /\ a[2] \in Int /\ a[3] \in Int /\ a[4] \in Int /\ a[1] < a[3] /\ a[2] < a[4]
      /\ b[1] \in Int /\ b[2] \in Int /\ b[3] \in Int /\ b[4] \in Int /\ b[1] < b[3] /\ b[2] < b[4]
  BY DEF IsBox, Quad
<1>2. ~IsEmptyBox(a) /\ ~IsEmptyBox(b)
  BY BoxOrEmpty DEF IsBox
<1>3. u = <<Lowest(a[1], b[1]), Lowest(a[2], b[2]), Highest(a[3], b[3]), Highest(a[4], b[4])>>
  BY <1>2 DEF UnionBox
<1> HIDE DEF u
<1>4. /\ u[1] = Lowest(a[1], b[1]) /\ u[2] = Lowest(a[2], b[2])
      /\ u[3] = Highest(a[3], b[3]) /\ u[4] = Highest(a[4], b[4])
  BY <1>3
<1>5. /\ u[1] \in {a[1], b[1]} /\ u[1] <= a[1] /\ u[1] <= b[1]
      /\ u[2] \in {a[2], b[2]} /\ u[2] <= a[2] /\ u[2] <= b[2]
      /\ u[3] \in {a[3], b[3]} /\ a[3] <= u[3] /\ b[3] <= u[3]
      /\ u[4] \in {a[4], b[4]} /\ a[4] <= u[4] /\ b[4] <= u[4]
  BY <1>1, <1>4 DEF Lowest, Highest
<1>6. u[1] \in Int /\ u[2] \in Int /\ u[3] \in Int /\ u[4] \in Int /\ u[1] < u[3] /\ u[2] < u[4]
  BY <1>1, <1>5
<1>7. u \in Quad
  BY <1>3, <1>4, <1>6 DEF Quad
<1> QED
  BY <1>5, <1>6, <1>7 DEF IsBox, Within, u

LEMMA BoxesAroundAll ==
  ASSUME NEW boxes, BoxSeq(boxes)
  PROVE  IsAround(BoxesAround(boxes), boxes, Len(boxes))
<1> DEFINE n == Len(boxes)
<1>1. n \in Nat \ {0} /\ \A i \in 1 .. n : IsBox(boxes[i])
  BY DEF BoxSeq
<1>2. PICK g : /\ Walk(g, "around", TRUE, boxes[1], LaterBoxes(boxes), n - 1)
               /\ BoxesAround(boxes) = g[n - 1]
  BY <1>1, BoxesAroundWalk
<1> DEFINE S == {k \in Nat : k <= n - 1 => IsAround(g[k], boxes, k + 1)}
<1>3. g[0] = boxes[1] /\ \A k \in 1 .. n - 1 : g[k] = UnionBox(g[k - 1], boxes[k + 1])
  BY <1>2 DEF Walk, TakeStep, LaterBoxes
<1> HIDE DEF n
<1>4. 0 \in S
  <2>1. 1 \in 1 .. n /\ 1 \in 1 .. 0 + 1 /\ \A i \in 1 .. 0 + 1 : i = 1
    BY <1>1
  <2>2. IsBox(boxes[1])
    BY <1>1, <2>1
  <2>3. Within(boxes[1], boxes[1])
    BY <2>2 DEF Within, IsBox, Quad
  <2> QED
    BY <1>3, <2>1, <2>2, <2>3 DEF IsAround
<1>5. \A k \in Nat : k \in S => k + 1 \in S
  <2> SUFFICES ASSUME NEW k \in Nat, k \in S, k + 1 <= n - 1 PROVE IsAround(g[k + 1], boxes, k + 2)
    OBVIOUS
  <2>1. k <= n - 1 /\ k + 1 \in 1 .. n - 1 /\ k + 2 \in 1 .. n /\ (k + 1) - 1 = k /\ (k + 1) + 1 = k + 2
    BY <1>1
  <2>2. IsAround(g[k], boxes, k + 1)
    BY <2>1
  <2> DEFINE q == g[k]
             b == boxes[k + 2]
             u == UnionBox(q, b)
  <2>3. g[k + 1] = u
    BY <1>3, <2>1
  <2>4. IsBox(q) /\ IsBox(b)
    BY <1>1, <2>1, <2>2 DEF IsAround
  <2>5. /\ \A i \in 1 .. k + 1 : Within(boxes[i], q)
        /\ \E i \in 1 .. k + 1 : boxes[i][1] = q[1]
        /\ \E i \in 1 .. k + 1 : boxes[i][2] = q[2]
        /\ \E i \in 1 .. k + 1 : boxes[i][3] = q[3]
        /\ \E i \in 1 .. k + 1 : boxes[i][4] = q[4]
    BY <2>2 DEF IsAround
  <2>6. b = boxes[k + 2]
    OBVIOUS
  <2> HIDE DEF q, b
  <2>7. /\ IsBox(u) /\ Within(q, u) /\ Within(b, u)
        /\ u[1] \in {q[1], b[1]} /\ u[2] \in {q[2], b[2]}
        /\ u[3] \in {q[3], b[3]} /\ u[4] \in {q[4], b[4]}
    BY <2>4, UnionOfTwo
  <2> HIDE DEF u
  <2>8. \A i \in 1 .. k + 2 : i \in 1 .. k + 1 \/ i = k + 2
    OBVIOUS
  <2>9. (\A i \in 1 .. k + 1 : i \in 1 .. k + 2) /\ k + 2 \in 1 .. k + 2
    OBVIOUS
  <2>10. \A i \in 1 .. k + 2 : Within(boxes[i], u)
    <3> TAKE i \in 1 .. k + 2
    <3>1. CASE i = k + 2
      BY <2>6, <2>7, <3>1
    <3>2. CASE i \in 1 .. k + 1
      <4>1. IsBox(boxes[i])
        BY <1>1, <2>1, <3>2
      <4>2. Within(boxes[i], q) /\ Within(q, u)
        BY <2>5, <2>7, <3>2
      <4> QED
        BY <2>4, <2>7, <4>1, <4>2 DEF Within, IsBox, Quad
    <3> QED
      BY <2>8, <3>1, <3>2
  <2>11. /\ \E i \in 1 .. k + 2 : boxes[i][1] = u[1]
         /\ \E i \in 1 .. k + 2 : boxes[i][2] = u[2]
         /\ \E i \in 1 .. k + 2 : boxes[i][3] = u[3]
         /\ \E i \in 1 .. k + 2 : boxes[i][4] = u[4]
    BY <2>5, <2>6, <2>7, <2>9
  <2> QED
    BY <2>3, <2>7, <2>10, <2>11 DEF IsAround
<1>6. IsAround(g[n - 1], boxes, (n - 1) + 1)
  <2>1. n - 1 \in Nat /\ n - 1 <= n - 1
    BY <1>1
  <2>2. Nat \subseteq S
    <3> HIDE DEF S
    <3> QED
      BY <1>4, <1>5, GeomFromZero
  <2>3. n - 1 \in S
    BY <2>1, <2>2
  <2> QED
    BY <2>1, <2>3
<1>7. (n - 1) + 1 = n
  BY <1>1
<1> QED
  BY <1>2, <1>6, <1>7 DEF n

-----------------------------------------------------------------------------
(* The boolean operations on paths.                                        *)

SoundPaths(paths) ==
  /\ \E P : paths \in Seq(P)
  /\ DOMAIN paths = 1 .. Len(paths) /\ Len(paths) \in Nat \ {0}
  /\ \A i \in 1 .. Len(paths) : Sound(paths[i])

\* The boxes of paths are a sequence as the paths are.
LEMMA BoxesAreSeq ==
  ASSUME NEW paths, SoundPaths(paths), AllRects(paths)
  PROVE  /\ Len(Boxes(paths)) = Len(paths) /\ BoxSeq(Boxes(paths))
         /\ \A i \in 1 .. Len(paths) : paths[i].cells = CellsOf(Boxes(paths)[i])
<1> DEFINE n == Len(paths)
           boxes == Boxes(paths)
<1>1. DOMAIN paths = 1 .. n /\ n \in Nat \ {0} /\ \A i \in 1 .. n : Sound(paths[i])
  BY DEF SoundPaths
<1>2. boxes = [i \in 1 .. n |-> paths[i].box[1]]
  BY <1>1 DEF Boxes
<1>3. \A i \in 1 .. n : IsBox(boxes[i]) /\ paths[i].cells = CellsOf(boxes[i])
  BY <1>1, <1>2 DEF Sound, AllRects
<1>4. boxes \in Seq({boxes[i] : i \in 1 .. n}) /\ Len(boxes) = n /\ DOMAIN boxes = 1 .. n
  <2> HIDE DEF n
  <2>1. [i \in 1 .. n |-> paths[i].box[1]] \in [1 .. n -> {boxes[i] : i \in 1 .. n}]
    BY <1>2
  <2>2. DOMAIN boxes = 1 .. n
    BY <1>2
  <2> HIDE DEF boxes
  <2>3. boxes \in Seq({boxes[i] : i \in 1 .. n})
    BY <1>1, <1>2, <2>1
  <2>4. Len(boxes) = n
    BY <1>1, <2>2, <2>3
  <2> QED
    BY <2>2, <2>3, <2>4
<1> HIDE DEF boxes
<1> QED
  BY <1>1, <1>3, <1>4 DEF BoxSeq, boxes

LEMMA IntersectSound ==
  ASSUME NEW installed, NEW paths, SoundPaths(paths), AllRects(paths) \/ Len(paths) = 2,
         PolygonIntersect(installed, paths).status = 200
  PROVE  LET p == PolygonIntersect(installed, paths)
         IN  Sound(p) /\ \A c : c \in p.cells <=> \A i \in 1 .. Len(paths) : c \in paths[i].cells
<1> DEFINE n == Len(paths)
           p == PolygonIntersect(installed, paths)
<1>1. DOMAIN paths = 1 .. n /\ n \in Nat \ {0} /\ \A i \in 1 .. n : Sound(paths[i])
  BY DEF SoundPaths
<1>2. CASE AllRects(paths)
  <2> DEFINE m == BoxesMet(Boxes(paths))
             kept == {b \in {m} : ~IsEmptyBox(b)}
  <2>1. p = OfBoxes(kept)
    BY <1>2 DEF PolygonIntersect
  <2>2. /\ m \in Quad
        /\ \A c : c \in CellsOf(m) <=> \A i \in 1 .. n : c \in CellsOf(Boxes(paths)[i])
    <3>1. Len(Boxes(paths)) = n /\ BoxSeq(Boxes(paths))
      BY <1>2, BoxesAreSeq
    <3> QED
      BY <3>1, BoxesMetCells
  <2>3. \A i \in 1 .. n : paths[i].cells = CellsOf(Boxes(paths)[i])
    BY <1>2, BoxesAreSeq
  <2> HIDE DEF m
  <2>4. /\ IsBox(m) <=> ~IsEmptyBox(m)
        /\ IsEmptyBox(m) => CellsOf(m) = {}
    BY <2>2, BoxOrEmpty
  <2>5. kept = IF IsEmptyBox(m) THEN {} ELSE {m}
    OBVIOUS
  <2> HIDE DEF kept
  <2>6. IsFiniteSet(kept) /\ \A b \in kept : IsBox(b)
    BY <2>4, <2>5, FS_EmptySet, FS_Singleton
  <2>7. Sound(OfBoxes(kept)) /\ OfBoxes(kept).cells = UNION {CellsOf(b) : b \in kept}
    BY <2>6, BoxesSound
  <2>8. UNION {CellsOf(b) : b \in kept} = CellsOf(m)
    BY <2>4, <2>5
  <2>9. p.cells = CellsOf(m) /\ Sound(p)
    BY <2>1, <2>7, <2>8
  <2>10. \A c : (\A i \in 1 .. n : c \in CellsOf(Boxes(paths)[i]))
                 <=> \A i \in 1 .. n : c \in paths[i].cells
    BY <2>3
  <2>11. \A c : c \in p.cells <=> \A i \in 1 .. n : c \in paths[i].cells
    <3> TAKE c
    <3>1. c \in p.cells <=> c \in CellsOf(m)
      BY <2>9
    <3>2. c \in CellsOf(m) <=> \A i \in 1 .. n : c \in CellsOf(Boxes(paths)[i])
      BY <2>2
    <3>3. (\A i \in 1 .. n : c \in CellsOf(Boxes(paths)[i])) <=> \A i \in 1 .. n : c \in paths[i].cells
      BY <2>10
    <3> HIDE DEF p, n
    <3> QED
      BY <3>1, <3>2, <3>3
  <2> HIDE DEF p, n
  <2>12. Sound(p) /\ \A c : c \in p.cells <=> \A i \in 1 .. n : c \in paths[i].cells
    BY <2>9, <2>11
  <2> QED
    BY <2>12 DEF p, n
<1>3. CASE ~AllRects(paths)
  <2> DEFINE cells == paths[1].cells \cap AreaOf(Tail(paths))
  <2>1. n = 2 /\ p = ClipperOp(installed, cells)
    BY <1>3 DEF PolygonIntersect
  <2>2. AreaOf(Tail(paths)) = paths[2].cells
    <3>1. PICK P : paths \in Seq(P)
      BY DEF SoundPaths
    <3>4. paths # <<>> /\ Len(paths) = 2
      BY <1>1, <2>1
    <3>5. /\ Tail(paths) \in Seq(P) /\ Len(Tail(paths)) = Len(paths) - 1
          /\ \A i \in 1 .. Len(Tail(paths)) : Tail(paths)[i] = paths[i + 1]
      BY <3>1, <3>4, HeadTailProperties
    <3>6. Len(Tail(paths)) = 1 /\ DOMAIN Tail(paths) = 1 .. 1
      <4> DEFINE t == Tail(paths)
      <4>1. t \in Seq(P) /\ Len(t) = 1
        BY <3>4, <3>5
      <4> HIDE DEF t
      <4>2. DOMAIN t = 1 .. 1
        BY <4>1
      <4> QED
        BY <4>1, <4>2 DEF t
    <3>3. Tail(paths)[1] = paths[2]
      BY <3>5, <3>6
    <3>2. DOMAIN Tail(paths) = {1} /\ Tail(paths)[1] = paths[2]
      BY <3>3, <3>6
    <3> QED
      BY <3>2 DEF AreaOf
  <2>3. Place(paths[1].cells)
    BY <1>1, <2>1 DEF Sound
  <2> HIDE DEF cells
  <2>4. Place(cells)
    BY <2>3, PlaceWithin DEF cells
  <2>5. Sound(ClipperOp(installed, cells)) /\ ClipperOp(installed, cells).cells = cells
    BY <2>1, <2>4, ClipperSound
  <2>6. \A i : i \in 1 .. n <=> i = 1 \/ i = 2
    BY <2>1
  <2> QED
    BY <2>1, <2>2, <2>5, <2>6 DEF cells
<1> QED
  BY <1>2, <1>3

LEMMA IntersectTwo ==
  ASSUME NEW installed, NEW a, Sound(a), NEW b, Sound(b),
         PolygonIntersect(installed, <<a, b>>).status = 200
  PROVE  LET p == PolygonIntersect(installed, <<a, b>>)
         IN  Sound(p) /\ p.cells = a.cells \cap b.cells
<1> DEFINE paths == <<a, b>>
<1>1. DOMAIN paths = 1 .. 2 /\ Len(paths) = 2 /\ paths[1] = a /\ paths[2] = b
  OBVIOUS
<1>2. PolygonIntersect(installed, paths).status = 200
  OBVIOUS
<1> HIDE DEF paths
<1>3. \A i : i \in 1 .. 2 <=> i = 1 \/ i = 2
  OBVIOUS
<1>6. paths \in Seq({a, b})
  BY DEF paths
<1>4. SoundPaths(paths)
  BY <1>1, <1>3, <1>6 DEF SoundPaths
<1>5. /\ Sound(PolygonIntersect(installed, paths))
      /\ \A c : c \in PolygonIntersect(installed, paths).cells <=>
                  \A i \in 1 .. Len(paths) : c \in paths[i].cells
  BY <1>1, <1>2, <1>4, IntersectSound
<1>7. \A c : c \in PolygonIntersect(installed, paths).cells <=> c \in a.cells /\ c \in b.cells
  BY <1>1, <1>3, <1>5
<1> QED
  BY <1>5, <1>7 DEF paths

LEMMA DifferenceTwo ==
  ASSUME NEW installed, NEW a, Sound(a), NEW b, Sound(b),
         NEW p, p = PolygonDifference(installed, a, b), p.status = 200
  PROVE  Sound(p) /\ p.cells = a.cells \ b.cells
<1>1. CASE a.box # <<>> /\ b.box # <<>>
  <2>1. AllRects(<<a, b>>)
    <3>1. \A i \in DOMAIN <<a, b>> : i = 1 \/ i = 2
      OBVIOUS
    <3> QED
      BY <1>1, <3>1 DEF AllRects
  <2> DEFINE D == Difference(a.box[1], b.box[1])
  <2>2. p = OfBoxes(D)
    BY <2>1 DEF PolygonDifference
  <2>3. IsBox(a.box[1]) /\ IsBox(b.box[1]) /\ a.cells = CellsOf(a.box[1]) /\ b.cells = CellsOf(b.box[1])
    BY <1>1 DEF Sound
  <2> DEFINE q == a.box[1]
             r == b.box[1]
  <2> HIDE DEF q, r
  <2>4. /\ IsFiniteSet(D) /\ \A x \in D : IsBox(x)
        /\ UNION {CellsOf(x) : x \in D} = CellsOf(q) \ CellsOf(r)
    <3>1. IsBox(q) /\ IsBox(r) /\ D = Difference(q, r)
      BY <2>3 DEF q, r
    <3> HIDE DEF D
    <3> QED
      BY <3>1, DifferenceCells
  <2> HIDE DEF D
  <2>5. Sound(OfBoxes(D)) /\ OfBoxes(D).cells = UNION {CellsOf(x) : x \in D}
    BY <2>4, BoxesSound
  <2> QED
    BY <2>2, <2>3, <2>4, <2>5 DEF q, r
<1>2. CASE ~(a.box # <<>> /\ b.box # <<>>)
  <2>1. ~AllRects(<<a, b>>)
    <3>1. 1 \in DOMAIN <<a, b>> /\ 2 \in DOMAIN <<a, b>> /\ <<a, b>>[1] = a /\ <<a, b>>[2] = b
      OBVIOUS
    <3> QED
      BY <1>2, <3>1 DEF AllRects
  <2> DEFINE cells == a.cells \ b.cells
  <2>2. p = ClipperOp(installed, cells)
    BY <2>1 DEF PolygonDifference
  <2>3. Place(cells)
    <3>1. Place(a.cells)
      BY DEF Sound
    <3> QED
      BY <3>1, PlaceWithin
  <2> HIDE DEF cells
  <2>4. Sound(ClipperOp(installed, cells)) /\ ClipperOp(installed, cells).cells = cells
    BY <2>2, <2>3, ClipperSound
  <2> QED
    BY <2>2, <2>4 DEF cells
<1> QED
  BY <1>1, <1>2

\* Cells that reach all four sides of a box and stay within it have that box around them.
Reaching(every, u) ==
  /\ IsBox(u) /\ every \subseteq CellsOf(u)
  /\ \E a, b, d, e \in every :
        a[1] = u[1] /\ b[1] = u[3] - 1 /\ d[2] = u[2] /\ e[2] = u[4] - 1

LEMMA AroundIsBox ==
  ASSUME NEW every, NEW u, Reaching(every, u)
  PROVE  Around(every) = CellsOf(u)
<1> DEFINE xs == {c[1] : c \in every}
           ys == {c[2] : c \in every}
<1>1. u[1] \in Int /\ u[2] \in Int /\ u[3] \in Int /\ u[4] \in Int /\ u \in Quad
  BY DEF Reaching, IsBox, Quad
<1>2. Place(CellsOf(u))
  BY <1>1, CellsFinite
<1>3. Place(every)
  BY <1>2, PlaceWithin DEF Reaching
<1>4. IsFiniteSet(xs) /\ IsFiniteSet(ys)
  <2> DEFINE f == [c \in every |-> c[1]]
             g == [c \in every |-> c[2]]
  <2>1. /\ xs = {f[c] : c \in every} /\ ys = {g[c] : c \in every} /\ IsFiniteSet(every)
        /\ DOMAIN f = every /\ DOMAIN g = every
    BY <1>3 DEF Place
  <2> HIDE DEF f, g, xs, ys
  <2> QED
    BY <2>1, FiniteImage
<1>5. /\ \A c \in every : /\ c[1] \in Int /\ u[1] <= c[1] /\ c[1] < u[3]
                          /\ c[2] \in Int /\ u[2] <= c[2] /\ c[2] < u[4]
  BY <1>1, CellsIn DEF Reaching
<1>6. PICK a \in every, b \in every, d \in every, e \in every :
         a[1] = u[1] /\ b[1] = u[3] - 1 /\ d[2] = u[2] /\ e[2] = u[4] - 1
  BY DEF Reaching
<1>7. /\ xs \subseteq Int /\ u[1] \in xs /\ u[3] - 1 \in xs
      /\ \A v \in xs : u[1] <= v /\ v <= u[3] - 1
  BY <1>1, <1>5, <1>6
<1>8. /\ ys \subseteq Int /\ u[2] \in ys /\ u[4] - 1 \in ys
      /\ \A v \in ys : u[2] <= v /\ v <= u[4] - 1
  BY <1>1, <1>5, <1>6
<1>9. Around(every) = (Min(xs) .. Max(xs)) \X (Min(ys) .. Max(ys))
  BY DEF Around
<1> HIDE DEF xs, ys
<1>10. Min(xs) = u[1] /\ Max(xs) = u[3] - 1
  <2>1. /\ Min(xs) \in xs /\ \A v \in xs : Min(xs) <= v
        /\ Max(xs) \in xs /\ \A v \in xs : v <= Max(xs)
    BY <1>4, <1>7, ExtremesIn
  <2> DEFINE low == Min(xs)
             top == Max(xs)
  <2>2. /\ low \in Int /\ u[1] <= low /\ low <= u[1]
        /\ top \in Int /\ top <= u[3] - 1 /\ u[3] - 1 <= top
    BY <1>1, <1>7, <2>1
  <2> HIDE DEF low, top
  <2>3. low = u[1] /\ top = u[3] - 1
    BY <1>1, <2>2
  <2> QED
    BY <2>3 DEF low, top
<1>11. Min(ys) = u[2] /\ Max(ys) = u[4] - 1
  <2>1. /\ Min(ys) \in ys /\ \A v \in ys : Min(ys) <= v
        /\ Max(ys) \in ys /\ \A v \in ys : v <= Max(ys)
    BY <1>4, <1>8, ExtremesIn
  <2> DEFINE low == Min(ys)
             top == Max(ys)
  <2>2. /\ low \in Int /\ u[2] <= low /\ low <= u[2]
        /\ top \in Int /\ top <= u[4] - 1 /\ u[4] - 1 <= top
    BY <1>1, <1>8, <2>1
  <2> HIDE DEF low, top
  <2>3. low = u[2] /\ top = u[4] - 1
    BY <1>1, <2>2
  <2> QED
    BY <2>3 DEF low, top
<1> QED
  BY <1>9, <1>10, <1>11 DEF CellsOf

\* Of rectangles the box around everything there is, otherwise just that.
Unites(area, every, rects) == area = IF rects THEN Around(every) ELSE every

UnionTaken(p, installed, paths, every) ==
  SoundPaths(paths) /\ every = AreaOf(paths) /\ p = PolygonUnion(installed, paths) /\ p.status = 200

LEMMA UnionSound ==
  ASSUME NEW p, NEW installed, NEW paths, NEW every,
         UnionTaken(p, installed, paths, every)
  PROVE  Unites(p.cells, every, AllRects(paths))
<1>0. /\ SoundPaths(paths) /\ every = AreaOf(paths)
      /\ p = PolygonUnion(installed, paths) /\ p.status = 200
  BY DEF UnionTaken
<1> DEFINE n == Len(paths)
<1>1. DOMAIN paths = 1 .. n /\ n \in Nat \ {0} /\ \A i \in 1 .. n : Sound(paths[i])
  BY <1>0 DEF SoundPaths
<1>2. \A c : c \in every <=> \E i \in 1 .. n : c \in paths[i].cells
  BY <1>0, <1>1 DEF AreaOf
<1>3. CASE AllRects(paths)
  <2> DEFINE boxes == Boxes(paths)
             u == BoxesAround(boxes)
  <2>1. p = OfBoxes({u})
    BY <1>0, <1>3 DEF PolygonUnion
  <2>2. Len(boxes) = n /\ BoxSeq(boxes) /\ \A i \in 1 .. n : paths[i].cells = CellsOf(boxes[i])
    BY <1>0, <1>3, BoxesAreSeq
  <2> HIDE DEF boxes
  <2>3. IsAround(u, boxes, n)
    BY <2>2, BoxesAroundAll
  <2> HIDE DEF u, n
  <2>4. IsBox(u) /\ IsFiniteSet({u}) /\ \A b \in {u} : IsBox(b)
    BY <2>3, FS_Singleton DEF IsAround
  <2>5. p.cells = CellsOf(u)
    <3>1. OfBoxes({u}).cells = UNION {CellsOf(b) : b \in {u}}
      BY <2>4, BoxesSound
    <3>2. UNION {CellsOf(b) : b \in {u}} = CellsOf(u)
      OBVIOUS
    <3> QED
      BY <2>1, <3>1, <3>2
  <2>6. u[1] \in Int /\ u[2] \in Int /\ u[3] \in Int /\ u[4] \in Int
    BY <2>4 DEF IsBox, Quad
  <2>7. \A i \in 1 .. n :
           /\ boxes[i][1] \in Int /\ boxes[i][2] \in Int /\ boxes[i][3] \in Int /\ boxes[i][4] \in Int
           /\ boxes[i][1] < boxes[i][3] /\ boxes[i][2] < boxes[i][4]
    BY <2>2 DEF BoxSeq, IsBox, Quad
  <2>8. every \subseteq p.cells
    <3> SUFFICES ASSUME NEW c \in every PROVE c \in CellsOf(u)
      BY <2>5
    <3>1. PICK i \in 1 .. n : c \in CellsOf(boxes[i])
      BY <1>2, <2>2
    <3> DEFINE b == boxes[i]
    <3>2. /\ Within(b, u) /\ b[1] \in Int /\ b[2] \in Int /\ b[3] \in Int /\ b[4] \in Int
          /\ c \in CellsOf(b)
      BY <2>3, <2>7, <3>1 DEF IsAround
    <3> HIDE DEF b
    <3> QED
      BY <2>6, <3>2, CellsWithin
  <2>9. Reaching(every, u)
    <3>2. PICK i \in 1 .. n : boxes[i][1] = u[1]
      BY <2>3 DEF IsAround
    <3>3. PICK j \in 1 .. n : boxes[j][2] = u[2]
      BY <2>3 DEF IsAround
    <3>4. PICK k \in 1 .. n : boxes[k][3] = u[3]
      BY <2>3 DEF IsAround
    <3>5. PICK l \in 1 .. n : boxes[l][4] = u[4]
      BY <2>3 DEF IsAround
    <3>6. ASSUME NEW m \in 1 .. n
          PROVE  /\ <<boxes[m][1], boxes[m][2]>> \in every
                 /\ <<boxes[m][3] - 1, boxes[m][4] - 1>> \in every
      <4> DEFINE b == boxes[m]
                 low == <<b[1], b[2]>>
                 top == <<b[3] - 1, b[4] - 1>>
      <4>1. /\ b[1] \in Int /\ b[2] \in Int /\ b[3] \in Int /\ b[4] \in Int
            /\ b[1] < b[3] /\ b[2] < b[4]
        BY <2>7
      <4> HIDE DEF b
      <4>2. low \in CellsOf(b) /\ top \in CellsOf(b)
        BY <4>1 DEF CellsOf
      <4> QED
        BY <1>2, <2>2, <4>2 DEF b
    <3> DEFINE a == <<boxes[i][1], boxes[i][2]>>
               b == <<boxes[k][3] - 1, boxes[k][4] - 1>>
               d == <<boxes[j][1], boxes[j][2]>>
               e == <<boxes[l][3] - 1, boxes[l][4] - 1>>
    <3>9. a[1] = u[1] /\ b[1] = u[3] - 1 /\ d[2] = u[2] /\ e[2] = u[4] - 1
      BY <3>2, <3>3, <3>4, <3>5
    <3>10. a \in every /\ b \in every /\ d \in every /\ e \in every
      BY <3>6
    <3> HIDE DEF a, b, d, e
    <3> QED
      BY <2>4, <2>5, <2>8, <3>9, <3>10 DEF Reaching
  <2> QED
    BY <1>3, <2>5, <2>9, AroundIsBox DEF Unites
<1>4. CASE ~AllRects(paths)
  <2>1. p = ClipperOp(installed, every) /\ p.status = 200
    BY <1>0, <1>4 DEF PolygonUnion
  <2>2. p.cells = every
    BY <2>1 DEF ClipperOp, Path, Raises
  <2> QED
    BY <1>4, <2>2 DEF Unites
<1> QED
  BY <1>3, <1>4

TurnTaken(p, installed, op, a, b) ==
  /\ Sound(a) /\ Sound(b) /\ p.status = 200
  /\ p = IF op = "intersect" THEN PolygonIntersect(installed, <<a, b>>)
         ELSE PolygonDifference(installed, a, b)

TurnRight(p, op, a, b) ==
  Sound(p) /\ \A c : c \in p.cells <=> c \in a.cells /\ (op = "intersect" <=> c \in b.cells)

\* One path taken after another.
LEMMA OneTurn ==
  ASSUME NEW p, NEW installed, NEW op, NEW a, NEW b, op \in {"intersect", "difference"},
         TurnTaken(p, installed, op, a, b)
  PROVE  TurnRight(p, op, a, b)
<1>0. Sound(a) /\ Sound(b) /\ p.status = 200
  BY DEF TurnTaken
<1>1. CASE op = "intersect"
  <2>1. p = PolygonIntersect(installed, <<a, b>>)
    BY <1>1 DEF TurnTaken
  <2>2. Sound(p) /\ p.cells = a.cells \cap b.cells
    BY <1>0, <2>1, IntersectTwo
  <2> QED
    BY <1>1, <2>2 DEF TurnRight
<1>2. CASE op = "difference"
  <2>1. p = PolygonDifference(installed, a, b)
    BY <1>2 DEF TurnTaken
  <2>2. Sound(p) /\ p.cells = a.cells \ b.cells
    BY <1>0, <2>1, DifferenceTwo
  <2> QED
    BY <1>2, <2>2 DEF TurnRight
<1> QED
  BY <1>1, <1>2

TurnsTaken(p, installed, op, first, rest) ==
  /\ Sound(first) /\ Len(rest) \in Nat /\ \A i \in 1 .. Len(rest) : Sound(rest[i])
  /\ op \in {"intersect", "difference"}
  /\ p = InTurn(installed, op, first, rest) /\ p.status = 200

TurnsRight(p, op, first, rest) ==
  \A c : c \in p.cells <=>
        c \in first.cells /\ \A i \in 1 .. Len(rest) : (op = "intersect" <=> c \in rest[i].cells)

LEMMA InTurnSound ==
  ASSUME NEW p, NEW installed, NEW op, NEW first, NEW rest, TurnsTaken(p, installed, op, first, rest)
  PROVE  TurnsRight(p, op, first, rest)
<1>0. /\ Sound(first) /\ Len(rest) \in Nat /\ \A i \in 1 .. Len(rest) : Sound(rest[i])
      /\ p = InTurn(installed, op, first, rest) /\ p.status = 200 /\ op \in {"intersect", "difference"}
  BY DEF TurnsTaken
<1> DEFINE n == Len(rest)
           At(c, k) == c \in first.cells
                         /\ \A i \in 1 .. k : (op = "intersect" <=> c \in rest[i].cells)
<1>1. PICK g : /\ Walk(g, op, installed, first, rest, n)
               /\ InTurn(installed, op, first, rest) = g[n]
  BY <1>0, InTurnWalk
<1>2. /\ g[0] = first
      /\ \A k \in 1 .. n : g[k] = IF g[k - 1].status # 200 THEN g[k - 1]
                                  ELSE IF op = "intersect"
                                  THEN PolygonIntersect(installed, <<g[k - 1], rest[k]>>)
                                  ELSE PolygonDifference(installed, g[k - 1], rest[k])
  BY <1>0, <1>1 DEF Walk, TakeStep
<1> DEFINE Right(k) == g[k].status = 200 => Sound(g[k]) /\ \A c : c \in g[k].cells <=> At(c, k)
           S == {k \in Nat : k <= n => Right(k)}
<1>3. 0 \in S
  <2>1. 1 .. 0 = {}
    OBVIOUS
  <2> QED
    BY <1>0, <1>2, <2>1
<1>4. \A k \in Nat : k \in S => k + 1 \in S
  <2> SUFFICES ASSUME NEW k \in Nat, k \in S, k + 1 <= n, g[k + 1].status = 200
               PROVE  Sound(g[k + 1]) /\ \A c : c \in g[k + 1].cells <=> At(c, k + 1)
    OBVIOUS
  <2>1. k <= n /\ k + 1 \in 1 .. n /\ (k + 1) - 1 = k
    BY <1>0
  <2> DEFINE a == g[k]
             b == rest[k + 1]
  <2>2. /\ a.status = 200
        /\ g[k + 1] = IF op = "intersect" THEN PolygonIntersect(installed, <<a, b>>)
                      ELSE PolygonDifference(installed, a, b)
    BY <1>2, <2>1
  <2>3. Sound(a) /\ Sound(b) /\ \A c : c \in a.cells <=> At(c, k)
    BY <1>0, <2>1, <2>2
  <2>4. \A c : At(c, k + 1) <=> At(c, k) /\ (op = "intersect" <=> c \in b.cells)
    <3>1. \A i : i \in 1 .. k + 1 <=> i \in 1 .. k \/ i = k + 1
      OBVIOUS
    <3> QED
      BY <3>1
  <2> HIDE DEF a, b, At
  <2> DEFINE q == g[k + 1]
  <2>5. TurnTaken(q, installed, op, a, b)
    BY <2>2, <2>3 DEF TurnTaken
  <2> HIDE DEF q
  <2>6. TurnRight(q, op, a, b)
    BY <1>0, <2>5, OneTurn
  <2> QED
    BY <2>3, <2>4, <2>6 DEF q, TurnRight
<1> HIDE DEF Right
<1>5. n \in S
  <2> HIDE DEF S
  <2> QED
    BY <1>0, <1>3, <1>4, GeomFromZero
<1>6. Right(n)
  BY <1>0, <1>5
<1> QED
  BY <1>0, <1>1, <1>6 DEF Right, TurnsRight

-----------------------------------------------------------------------------
(* Bodies: lists of paths as they come, and as sequences of sound paths.   *)

Lists(paths) ==
  /\ paths \in Seq(Seq(Seq(Int \X Int)))
  /\ \A i \in DOMAIN paths : \A k \in DOMAIN paths[i] : IsRing(paths[i][k])

Rated == {OfRings(rings) : rings \in Seq(Seq(Int \X Int))}

LEMMA BodySound ==
  ASSUME NEW paths, Lists(paths)
  PROVE  /\ OfBody(paths) \in Seq(Rated) /\ Len(OfBody(paths)) = Len(paths) /\ Len(paths) \in Nat
         /\ \A i \in 1 .. Len(paths) : /\ OfBody(paths)[i] = OfRings(paths[i])
                                       /\ Sound(OfBody(paths)[i])
<1> DEFINE n == Len(paths)
           S == OfBody(paths)
<1>1. DOMAIN paths = 1 .. n /\ n \in Nat /\ \A i \in 1 .. n : paths[i] \in Seq(Seq(Int \X Int))
  BY DEF Lists
<1>2. \A i \in 1 .. n : Sound(OfRings(paths[i]))
  BY <1>1, RingsSound DEF Lists, Rings
<1>3. S = [i \in 1 .. n |-> OfRings(paths[i])]
  BY <1>1 DEF OfBody
<1>4. \A i \in 1 .. n : OfRings(paths[i]) \in Rated
  BY <1>1 DEF Rated
<1> HIDE DEF n, S
<1>5. S \in [1 .. n -> Rated] /\ DOMAIN S = 1 .. n
  BY <1>3, <1>4
<1>6. S \in Seq(Rated) /\ Len(S) = n
  BY <1>1, <1>5
<1> QED
  BY <1>1, <1>2, <1>3, <1>6 DEF n, S

\* Both lists of a body, one after the other.
IsBody(paths, n, S) == Lists(paths) /\ n = Len(paths) /\ S = OfBody(paths)

Together(subjects, n, S, clips, m, C) ==
  /\ S \o C \in Seq(Rated) /\ Len(S \o C) = n + m
  /\ subjects \o clips \in Seq(Seq(Seq(Int \X Int)))
  /\ \A i \in 1 .. n + m :
       /\ (S \o C)[i] = OfRings((subjects \o clips)[i]) /\ Sound((S \o C)[i])
       /\ (S \o C)[i] = IF i <= n THEN S[i] ELSE C[i - n]

LEMMA JoinedBodies ==
  ASSUME NEW subjects, NEW n, NEW S, IsBody(subjects, n, S),
         NEW clips, NEW m, NEW C, IsBody(clips, m, C)
  PROVE  Together(subjects, n, S, clips, m, C)
<1>0. /\ Lists(subjects) /\ n = Len(subjects) /\ S = OfBody(subjects)
      /\ Lists(clips) /\ m = Len(clips) /\ C = OfBody(clips)
  BY DEF IsBody
<1>1. /\ S \in Seq(Rated) /\ Len(S) = n /\ n \in Nat
      /\ \A i \in 1 .. n : S[i] = OfRings(subjects[i]) /\ Sound(S[i])
  BY <1>0, BodySound
<1>2. /\ C \in Seq(Rated) /\ Len(C) = m /\ m \in Nat
      /\ \A i \in 1 .. m : C[i] = OfRings(clips[i]) /\ Sound(C[i])
  BY <1>0, BodySound
<1>3. /\ S \o C \in Seq(Rated) /\ Len(S \o C) = n + m
      /\ \A i \in 1 .. n + m : (S \o C)[i] = IF i <= n THEN S[i] ELSE C[i - n]
  <2>1. S \in Seq(Rated) /\ C \in Seq(Rated) /\ Len(S) = n /\ Len(C) = m
    BY <1>1, <1>2
  <2>2. /\ S \o C \in Seq(Rated) /\ Len(S \o C) = Len(S) + Len(C)
        /\ \A i \in 1 .. Len(S) + Len(C) :
             (S \o C)[i] = IF i <= Len(S) THEN S[i] ELSE C[i - Len(S)]
    BY <2>1, ConcatProperties
  <2> QED
    BY <2>1, <2>2
<1>4. /\ subjects \o clips \in Seq(Seq(Seq(Int \X Int)))
      /\ \A i \in 1 .. n + m : (subjects \o clips)[i] = IF i <= n THEN subjects[i] ELSE clips[i - n]
  BY <1>0, ConcatProperties DEF Lists
<1>5. ASSUME NEW i \in 1 .. n + m
      PROVE  (S \o C)[i] = OfRings((subjects \o clips)[i]) /\ Sound((S \o C)[i])
  <2> DEFINE s == (S \o C)[i]
             r == (subjects \o clips)[i]
  <2>1. CASE i <= n
    <3>1. i \in 1 .. n /\ s = S[i] /\ r = subjects[i]
      <4>1. i \in 1 .. n
        BY <1>1, <1>2, <2>1
      <4>2. s = S[i]
        BY <1>3, <2>1
      <4>3. r = subjects[i]
        BY <1>4, <2>1
      <4> QED
        BY <4>1, <4>2, <4>3
    <3> HIDE DEF s, r
    <3>2. s = OfRings(r) /\ Sound(s)
      BY <1>1, <3>1
    <3> QED
      BY <3>2 DEF s, r
  <2>2. CASE ~(i <= n)
    <3>1. i - n \in 1 .. m /\ s = C[i - n] /\ r = clips[i - n]
      <4>1. i - n \in 1 .. m
        BY <1>1, <1>2, <2>2
      <4>2. s = C[i - n]
        BY <1>3, <2>2
      <4>3. r = clips[i - n]
        BY <1>4, <2>2
      <4> QED
        BY <4>1, <4>2, <4>3
    <3> HIDE DEF s, r
    <3>2. s = OfRings(r) /\ Sound(s)
      BY <1>2, <3>1
    <3> QED
      BY <3>2 DEF s, r
  <2> QED
    BY <2>1, <2>2
<1> QED
  BY <1>3, <1>4, <1>5 DEF Together

-----------------------------------------------------------------------------
(* The boolean operations on lists of paths.                               *)

\* S and C are the paths of the subjects and of the clips, n and m of them; A are the areas.
Given(S, n, C, m, A) ==
  /\ S \in Seq(Rated) /\ Len(S) = n /\ n \in Nat /\ C \in Seq(Rated) /\ Len(C) = m /\ m \in Nat
  /\ \A i \in 1 .. n : Sound(S[i]) /\ A[i] = S[i].cells
  /\ \A i \in 1 .. m : Sound(C[i]) /\ A[n + i] = C[i].cells
  /\ A = [i \in 1 .. n + m |-> (S \o C)[i].cells]
  /\ S \o C \in Seq(Rated) /\ Len(S \o C) = n + m
  /\ \A i \in 1 .. n + m : (S \o C)[i] = IF i <= n THEN S[i] ELSE C[i - n]

AreasOf(S, n, C, m) == [i \in 1 .. n + m |-> (S \o C)[i].cells]

Later(A, k) == UNION {A[i] : i \in k + 1 .. Len(A)}

LEMMA AreasGiven ==
  ASSUME NEW subjects, NEW n, NEW S, IsBody(subjects, n, S),
         NEW clips, NEW m, NEW C, IsBody(clips, m, C), NEW A, A = AreasOf(S, n, C, m)
  PROVE  Given(S, n, C, m, A) /\ A = Areas(subjects, clips)
<1>0. Together(subjects, n, S, clips, m, C)
  BY JoinedBodies
<1>1. /\ S \o C \in Seq(Rated) /\ Len(S \o C) = n + m
      /\ \A i \in 1 .. n + m :
              /\ (S \o C)[i] = OfRings((subjects \o clips)[i]) /\ Sound((S \o C)[i])
              /\ (S \o C)[i] = IF i <= n THEN S[i] ELSE C[i - n]
  BY <1>0 DEF Together
<1>2. S \in Seq(Rated) /\ Len(S) = n /\ n \in Nat /\ \A i \in 1 .. n : Sound(S[i])
  BY BodySound DEF IsBody
<1>3. C \in Seq(Rated) /\ Len(C) = m /\ m \in Nat /\ \A i \in 1 .. m : Sound(C[i])
  BY BodySound DEF IsBody
<1>4. \A p : AreaOf(<<p>>) = p.cells
  BY DEF AreaOf
<1>5. ASSUME NEW i \in 1 .. n + m
      PROVE  (S \o C)[i].cells = AreaOf(<<OfRings((subjects \o clips)[i])>>)
  <2> DEFINE s == (S \o C)[i]
             t == OfRings((subjects \o clips)[i])
  <2>1. s = t
    BY <1>1
  <2> HIDE DEF s, t
  <2>2. s.cells = AreaOf(<<t>>)
    BY <1>4, <2>1
  <2> QED
    BY <2>2 DEF s, t
<1>6. \A i \in 1 .. n : (S \o C)[i] = S[i] /\ i \in 1 .. n + m
  BY <1>1, <1>2, <1>3
<1>7. \A i \in 1 .. m : (S \o C)[n + i] = C[i] /\ n + i \in 1 .. n + m
  <2> TAKE i \in 1 .. m
  <2>1. n + i \in 1 .. n + m /\ ~(n + i <= n) /\ (n + i) - n = i
    BY <1>2, <1>3
  <2> QED
    BY <1>1, <2>1
<1>8. Given(S, n, C, m, A)
  <2>1. A = [i \in 1 .. n + m |-> (S \o C)[i].cells]
    BY DEF AreasOf
  <2> QED
    BY <1>1, <1>2, <1>3, <1>6, <1>7, <2>1 DEF Given
<1>9. A = Areas(subjects, clips)
  BY <1>5 DEF IsBody, AreasOf, Areas
<1> QED
  BY <1>8, <1>9

BooleanTaken(p, installed, op, S, n, C, m, A) ==
  Given(S, n, C, m, A) /\ p = RunBoolean(installed, op, S, C) /\ p.status = 200

LEMMA DifferenceRight ==
  ASSUME NEW p, NEW installed, NEW S, NEW n, NEW C, NEW m, NEW A,
         BooleanTaken(p, installed, "difference", S, n, C, m, A)
  PROVE  p.cells = A[1] \ Later(A, n)
<1>0. Given(S, n, C, m, A) /\ p = RunBoolean(installed, "difference", S, C) /\ p.status = 200
  BY DEF BooleanTaken
<1>1. /\ S # <<>> /\ C # <<>>
      /\ p = InTurn(installed, "difference", S[1], C)
  <2>1. Raises(400).status # 200
    BY DEF Raises
  <2> QED
    BY <1>0, <2>1 DEF RunBoolean
<1>2. n \in Nat \ {0} /\ m \in Nat \ {0} /\ 1 \in 1 .. n
  BY <1>0, <1>1 DEF Given
<1>3. Sound(S[1]) /\ A[1] = S[1].cells /\ Len(C) \in Nat /\ \A i \in 1 .. Len(C) : Sound(C[i])
  BY <1>0, <1>2 DEF Given
<1> DEFINE first == S[1]
<1>4. Sound(first) /\ p = InTurn(installed, "difference", first, C)
  BY <1>0, <1>1, <1>3
<1> HIDE DEF first
<1>5. \A c : c \in p.cells <=> c \in first.cells /\ \A i \in 1 .. Len(C) : ~(c \in C[i].cells)
  <2> DEFINE op == "difference"
  <2>1. op \in {"intersect", "difference"} /\ op # "intersect" /\ p = InTurn(installed, op, first, C)
    BY <1>4
  <2> HIDE DEF op
  <2>2. TurnsTaken(p, installed, op, first, C)
    BY <1>0, <1>3, <1>4, <2>1 DEF TurnsTaken
  <2>3. TurnsRight(p, op, first, C)
    BY <2>2, InTurnSound
  <2> QED
    BY <2>1, <2>3 DEF TurnsRight
<1>6. Len(A) = n + m
  BY <1>0, <1>2 DEF Given
<1>7. \A c : (\E i \in 1 .. Len(C) : c \in C[i].cells) <=> c \in UNION {A[i] : i \in n + 1 .. Len(A)}
  <2>1. ASSUME NEW c, NEW i \in 1 .. Len(C), c \in C[i].cells
        PROVE  c \in UNION {A[j] : j \in n + 1 .. Len(A)}
    <3>1. n + i \in n + 1 .. Len(A) /\ A[n + i] = C[i].cells
      BY <1>0, <1>2, <1>6 DEF Given
    <3> QED
      BY <2>1, <3>1
  <2>2. ASSUME NEW c, NEW j \in n + 1 .. Len(A), c \in A[j]
        PROVE  \E i \in 1 .. Len(C) : c \in C[i].cells
    <3>1. j - n \in 1 .. m /\ n + (j - n) = j
      BY <1>2, <1>6
    <3>2. A[n + (j - n)] = C[j - n].cells
      BY <1>0, <3>1 DEF Given
    <3>3. m = Len(C)
      BY <1>0 DEF Given
    <3> QED
      BY <2>2, <3>1, <3>2, <3>3
  <2> QED
    BY <2>1, <2>2
<1> QED
  BY <1>3, <1>5, <1>7 DEF first, Later

LEMMA UnionRight ==
  ASSUME NEW p, NEW installed, NEW S, NEW n, NEW C, NEW m, NEW A,
         BooleanTaken(p, installed, "union", S, n, C, m, A)
  PROVE  Unites(p.cells, Everywhere(A), AllRects(S \o C))
<1>0. Given(S, n, C, m, A) /\ p = RunBoolean(installed, "union", S, C) /\ p.status = 200
  BY DEF BooleanTaken
<1> DEFINE every == UNION {A[i] : i \in DOMAIN A}
<1> DEFINE all == S \o C
<1>1. S # <<>> /\ p = PolygonUnion(installed, all)
  <2>1. Raises(400).status # 200
    BY DEF Raises
  <2> QED
    BY <1>0, <2>1 DEF RunBoolean
<1>2. all \in Seq(Rated) /\ Len(all) = n + m /\ n + m \in Nat \ {0}
  BY <1>0, <1>1 DEF Given
<1>3. \A i \in 1 .. n + m : Sound(all[i])
  <2> TAKE i \in 1 .. n + m
  <2>1. all[i] = IF i <= n THEN S[i] ELSE C[i - n]
    BY <1>0 DEF Given
  <2>2. CASE i <= n
    <3>1. i \in 1 .. n
      BY <1>0, <2>2 DEF Given
    <3> QED
      BY <1>0, <2>1, <2>2, <3>1 DEF Given
  <2>3. CASE ~(i <= n)
    <3>1. i - n \in 1 .. m
      BY <1>0, <2>3 DEF Given
    <3> QED
      BY <1>0, <2>1, <2>3, <3>1 DEF Given
  <2> QED
    BY <2>2, <2>3
<1>4. every = AreaOf(all)
  <2>1. A = [i \in 1 .. n + m |-> all[i].cells]
    BY <1>0 DEF Given
  <2> HIDE DEF all
  <2>2. DOMAIN all = 1 .. n + m
    BY <1>2
  <2>3. DOMAIN A = DOMAIN all /\ \A i \in DOMAIN all : A[i] = all[i].cells
    BY <2>1, <2>2
  <2> QED
    BY <2>3 DEF AreaOf
<1> HIDE DEF all, every
<1>5. UnionTaken(p, installed, all, every)
  BY <1>0, <1>1, <1>2, <1>3, <1>4 DEF UnionTaken, SoundPaths
<1>6. Unites(p.cells, every, AllRects(all))
  BY <1>5, UnionSound
<1> QED
  BY <1>6 DEF every, all, Everywhere

\* The first list of a body is not empty; the second may be.
LEMMA SomeSubject ==
  ASSUME NEW S, NEW n, NEW C, NEW m, NEW A, Given(S, n, C, m, A), S # <<>>
  PROVE  n \in Nat \ {0} /\ (C = <<>> <=> m = 0)
<1>1. S \in Seq(Rated) /\ Len(S) = n /\ n \in Nat /\ C \in Seq(Rated) /\ Len(C) = m
  BY DEF Given
<1>2. n # 0
  BY <1>1
<1>3. C = <<>> <=> m = 0
  BY <1>1
<1> QED
  BY <1>1, <1>2, <1>3

MeetTaken(p, installed, paths) ==
  /\ SoundPaths(paths) /\ (AllRects(paths) \/ Len(paths) = 2)
  /\ p = PolygonIntersect(installed, paths) /\ p.status = 200

MeetRight(p, paths) == \A c : c \in p.cells <=> \A i \in 1 .. Len(paths) : c \in paths[i].cells

LEMMA AllMeet ==
  ASSUME NEW p, NEW installed, NEW paths, MeetTaken(p, installed, paths)
  PROVE  MeetRight(p, paths)
<1> DEFINE q == PolygonIntersect(installed, paths)
<1>1. SoundPaths(paths) /\ (AllRects(paths) \/ Len(paths) = 2) /\ q.status = 200 /\ p = q
  BY DEF MeetTaken
<1>2. Sound(q) /\ \A c : c \in q.cells <=> \A i \in 1 .. Len(paths) : c \in paths[i].cells
  BY <1>1, IntersectSound
<1> HIDE DEF q
<1> QED
  BY <1>1, <1>2 DEF MeetRight

IntersectTaken(p, installed, S, n, C, m, A) ==
  BooleanTaken(p, installed, "intersect", S, n, C, m, A) /\ (C # <<>> \/ n = 2 \/ AllRects(S))

InAll(p, A) == \A c : c \in p.cells <=> \A i \in DOMAIN A : c \in A[i]

LEMMA IntersectNoClips ==
  ASSUME NEW p, NEW installed, NEW S, NEW n, NEW C, NEW m, NEW A,
         IntersectTaken(p, installed, S, n, C, m, A), C = <<>>
  PROVE  InAll(p, A)
<1>1. S # <<>> /\ p = PolygonIntersect(installed, S) /\ p.status = 200 /\ (n = 2 \/ AllRects(S))
  <2>1. Raises(400).status # 200
    BY DEF Raises
  <2> QED
    BY <2>1 DEF RunBoolean, IntersectTaken, BooleanTaken
<1>2. Given(S, n, C, m, A)
  BY DEF IntersectTaken, BooleanTaken
<1>3. /\ n \in Nat \ {0} /\ m = 0 /\ S \in Seq(Rated) /\ Len(S) = n
      /\ \A i \in 1 .. n : Sound(S[i]) /\ A[i] = S[i].cells
  <2>1. n \in Nat \ {0} /\ m = 0
    BY <1>1, <1>2, SomeSubject
  <2> QED
    BY <1>2, <2>1 DEF Given
<1>4. DOMAIN A = 1 .. n
  BY <1>2, <1>3 DEF Given
<1>5. MeetTaken(p, installed, S)
  BY <1>1, <1>3 DEF MeetTaken, SoundPaths
<1>6. MeetRight(p, S)
  BY <1>5, AllMeet
<1> QED
  BY <1>3, <1>4, <1>6 DEF MeetRight, InAll

LEMMA IntersectClips ==
  ASSUME NEW p, NEW installed, NEW S, NEW n, NEW C, NEW m, NEW A,
         IntersectTaken(p, installed, S, n, C, m, A), C # <<>>
  PROVE  InAll(p, A)
<1> DEFINE first == S[1]
           T == Tail(S)
           rest == T \o C
<1>1. S # <<>> /\ p = InTurn(installed, "intersect", first, rest) /\ p.status = 200
  <2>1. Raises(400).status # 200
    BY DEF Raises
  <2> QED
    BY <2>1 DEF RunBoolean, IntersectTaken, BooleanTaken
<1>2. Given(S, n, C, m, A)
  BY DEF IntersectTaken, BooleanTaken
<1>3. /\ n \in Nat \ {0} /\ m \in Nat /\ S \in Seq(Rated) /\ Len(S) = n
      /\ C \in Seq(Rated) /\ Len(C) = m
      /\ \A i \in 1 .. n : Sound(S[i]) /\ A[i] = S[i].cells
      /\ \A i \in 1 .. m : Sound(C[i]) /\ A[n + i] = C[i].cells
  <2>1. n \in Nat \ {0}
    BY <1>1, <1>2, SomeSubject
  <2> QED
    BY <1>2, <2>1 DEF Given
<1>4. DOMAIN A = 1 .. n + m
  BY <1>2, <1>3 DEF Given
<1>5. /\ T \in Seq(Rated) /\ Len(T) = n - 1
      /\ \A i \in 1 .. n - 1 : T[i] = S[i + 1]
  <2>1. S \in Seq(Rated) /\ S # <<>>
    BY <1>1, <1>3
  <2>2. /\ Tail(S) \in Seq(Rated) /\ Len(Tail(S)) = Len(S) - 1
        /\ \A i \in 1 .. Len(Tail(S)) : Tail(S)[i] = S[i + 1]
    BY <2>1, HeadTailProperties
  <2> QED
    BY <1>3, <2>2
<1> HIDE DEF T
<1>6. /\ rest \in Seq(Rated) /\ Len(rest) = (n - 1) + m
      /\ \A i \in 1 .. (n - 1) + m : rest[i] = IF i <= n - 1 THEN T[i] ELSE C[i - (n - 1)]
  <2>1. T \in Seq(Rated) /\ C \in Seq(Rated) /\ Len(T) = n - 1 /\ Len(C) = m
    BY <1>3, <1>5
  <2>2. /\ T \o C \in Seq(Rated) /\ Len(T \o C) = Len(T) + Len(C)
        /\ \A i \in 1 .. Len(T) + Len(C) :
             (T \o C)[i] = IF i <= Len(T) THEN T[i] ELSE C[i - Len(T)]
    BY <2>1, ConcatProperties
  <2> QED
    BY <2>1, <2>2
<1> HIDE DEF rest
<1>7. ASSUME NEW i \in 1 .. (n - 1) + m
      PROVE  Sound(rest[i]) /\ A[i + 1] = rest[i].cells
  <2>1. CASE i <= n - 1
    <3>1. i \in 1 .. n - 1 /\ i + 1 \in 1 .. n
      BY <1>3, <2>1
    <3>2. rest[i] = S[i + 1]
      BY <1>5, <1>6, <2>1, <3>1
    <3> QED
      BY <1>3, <3>1, <3>2
  <2>2. CASE ~(i <= n - 1)
    <3>1. i - (n - 1) \in 1 .. m /\ n + (i - (n - 1)) = i + 1
      BY <1>3, <2>2
    <3>2. rest[i] = C[i - (n - 1)]
      BY <1>6, <2>2
    <3> DEFINE j == i - (n - 1)
    <3>3. j \in 1 .. m /\ n + j = i + 1 /\ rest[i] = C[j]
      BY <3>1, <3>2
    <3> HIDE DEF j
    <3> QED
      BY <1>3, <3>3
  <2> QED
    BY <2>1, <2>2
<1>8. Sound(first) /\ A[1] = first.cells
  BY <1>3
<1> HIDE DEF first
<1> DEFINE op == "intersect"
<1>9. TurnsTaken(p, installed, op, first, rest)
  BY <1>1, <1>3, <1>6, <1>7, <1>8 DEF TurnsTaken
<1>10. op = "intersect"
  OBVIOUS
<1> HIDE DEF op
<1>11. TurnsRight(p, op, first, rest)
  BY <1>9, InTurnSound
<1>12. \A c : c \in p.cells <=> c \in A[1] /\ \A i \in 1 .. (n - 1) + m : c \in A[i + 1]
  BY <1>6, <1>7, <1>8, <1>10, <1>11 DEF TurnsRight
<1>13. \A c : (\A i \in 1 .. n + m : c \in A[i])
                <=> c \in A[1] /\ \A i \in 1 .. (n - 1) + m : c \in A[i + 1]
  <2>1. ASSUME NEW c, c \in A[1], \A i \in 1 .. (n - 1) + m : c \in A[i + 1], NEW j \in 1 .. n + m
        PROVE  c \in A[j]
    <3>1. j = 1 \/ (j - 1 \in 1 .. (n - 1) + m /\ (j - 1) + 1 = j)
      BY <1>3
    <3> QED
      BY <2>1, <3>1
  <2>2. ASSUME NEW c, \A i \in 1 .. n + m : c \in A[i]
        PROVE  c \in A[1] /\ \A i \in 1 .. (n - 1) + m : c \in A[i + 1]
    <3>1. 1 \in 1 .. n + m /\ \A i \in 1 .. (n - 1) + m : i + 1 \in 1 .. n + m
      BY <1>3
    <3> QED
      BY <2>2, <3>1
  <2> QED
    BY <2>1, <2>2
<1> QED
  BY <1>4, <1>12, <1>13 DEF InAll

\* Of one path that is no rectangle, or of three or more of which some are none: part of the
\* first, and with more than one at least what all have.
PartOfFirst(area, n, A) == area \subseteq A[1] /\ (n > 1 => InEach(A) \subseteq area)

LEMMA IntersectOthers ==
  ASSUME NEW p, NEW installed, NEW S, NEW n, NEW C, NEW m, NEW A,
         BooleanTaken(p, installed, "intersect", S, n, C, m, A), C = <<>>, n # 2, ~AllRects(S)
  PROVE  PartOfFirst(p.cells, n, A)
<1>0. Given(S, n, C, m, A) /\ p = RunBoolean(installed, "intersect", S, C) /\ p.status = 200
  BY DEF BooleanTaken
<1>1. S # <<>> /\ p = PolygonIntersect(installed, S)
  <2>1. Raises(400).status # 200
    BY DEF Raises
  <2> QED
    BY <1>0, <2>1 DEF RunBoolean
<1>2. /\ n \in Nat \ {0} /\ m = 0 /\ S \in Seq(Rated) /\ Len(S) = n
      /\ \A i \in 1 .. n : A[i] = S[i].cells
  <2>1. n \in Nat \ {0} /\ m = 0
    BY <1>0, <1>1, SomeSubject
  <2> QED
    BY <1>0, <2>1 DEF Given
<1>3. DOMAIN A = 1 .. n
  BY <1>0, <1>2 DEF Given
<1> DEFINE T == Tail(S)
           cells == S[1].cells \cap AreaOf(T)
<1>4. p = ClipperOp(installed, cells)
  BY <1>1 DEF PolygonIntersect
<1>5. /\ T \in Seq(Rated) /\ Len(T) = n - 1
      /\ \A i \in 1 .. n - 1 : T[i] = S[i + 1]
  <2>1. S \in Seq(Rated) /\ S # <<>>
    BY <1>1, <1>2
  <2>2. /\ Tail(S) \in Seq(Rated) /\ Len(Tail(S)) = Len(S) - 1
        /\ \A i \in 1 .. Len(Tail(S)) : Tail(S)[i] = S[i + 1]
    BY <2>1, HeadTailProperties
  <2> QED
    BY <1>2, <2>2
<1> HIDE DEF T, cells
<1>6. p.cells = cells
  BY <1>0, <1>4 DEF ClipperOp, Path, Raises
<1>7. cells \subseteq A[1]
  <2>1. 1 \in 1 .. n
    BY <1>2
  <2> QED
    BY <1>2, <2>1 DEF cells
<1>8. ASSUME n > 1 PROVE InEach(A) \subseteq cells
  <2> SUFFICES ASSUME NEW c \in InEach(A) PROVE c \in cells
    OBVIOUS
  <2>1. 1 \in 1 .. n /\ 2 \in 1 .. n /\ 1 \in 1 .. n - 1
    BY <1>2, <1>8
  <2>2. c \in A[1] /\ c \in A[2]
    BY <1>3, <2>1 DEF InEach
  <2>3. c \in S[1].cells /\ c \in T[1].cells
    <3>1. T[1] = S[2]
      BY <1>5, <2>1
    <3> QED
      BY <1>2, <2>1, <2>2, <3>1
  <2>4. 1 \in DOMAIN T
    BY <1>2, <1>5, <2>1
  <2> QED
    BY <2>3, <2>4 DEF cells, AreaOf
<1> QED
  BY <1>6, <1>7, <1>8 DEF PartOfFirst

\* Whether both lists hold rectangles alone.
LEMMA JoinedRects ==
  ASSUME NEW subjects, NEW n, NEW S, IsBody(subjects, n, S),
         NEW clips, NEW m, NEW C, IsBody(clips, m, C)
  PROVE  AllRects(S \o C) <=> AllRects(OfBody(subjects \o clips))
<1> DEFINE all == S \o C
           lists == subjects \o clips
<1>1. /\ all \in Seq(Rated) /\ Len(all) = n + m
      /\ \A i \in 1 .. n + m : all[i] = OfRings(lists[i])
  <2>1. Together(subjects, n, S, clips, m, C)
    BY JoinedBodies
  <2> QED
    BY <2>1 DEF Together
<1>2. lists \in Seq(Seq(Seq(Int \X Int))) /\ Len(lists) = n + m
  <2>1. /\ subjects \in Seq(Seq(Seq(Int \X Int))) /\ n = Len(subjects)
        /\ clips \in Seq(Seq(Seq(Int \X Int))) /\ m = Len(clips)
    BY DEF IsBody, Lists
  <2> QED
    BY <2>1, ConcatProperties
<1> HIDE DEF all, lists
<1>3. DOMAIN all = 1 .. n + m /\ DOMAIN lists = 1 .. n + m
  BY <1>1, <1>2
<1>4. OfBody(lists) = [i \in 1 .. n + m |-> OfRings(lists[i])]
  BY <1>3 DEF OfBody
<1>5. AllRects(all) <=> AllRects(OfBody(lists))
  BY <1>1, <1>3, <1>4 DEF AllRects
<1> QED
  BY <1>5 DEF all, lists

\* Where an intersection is exact.
Exact(subjects, clips) == clips # <<>> \/ Len(subjects) = 2 \/ AllRects(OfBody(subjects))

AreaRight(op, subjects, clips, A, area) ==
  \/ op = "difference" /\ area = A[1] \ Later(A, Len(subjects))
  \/ /\ op = "intersect"
     /\ IF Exact(subjects, clips) THEN area = InEach(A) ELSE PartOfFirst(area, Len(subjects), A)
  \/ op = "union" /\ Unites(area, Everywhere(A), AllRects(OfBody(subjects \o clips)))

LEMMA AreaIsTrue ==
  ASSUME NEW op, NEW subjects, NEW clips, NEW area,
         AreaRight(op, subjects, clips, Areas(subjects, clips), area)
  PROVE  AreaTrue(op, subjects, clips, area)
<1>1. CASE op = "difference"
  <2>1. area = Areas(subjects, clips)[1] \ Later(Areas(subjects, clips), Len(subjects))
    BY <1>1 DEF AreaRight
  <2> QED
    BY <1>1, <2>1, Zenon DEF AreaTrue, Later
<1>2. CASE op = "intersect"
  <2>1. IF Exact(subjects, clips) THEN area = InEach(Areas(subjects, clips))
        ELSE PartOfFirst(area, Len(subjects), Areas(subjects, clips))
    BY <1>2 DEF AreaRight
  <2>2. op # "difference"
    BY <1>2
  <2> QED
    BY <1>2, <2>1, <2>2, Zenon DEF AreaTrue, Exact, PartOfFirst
<1>3. CASE op = "union"
  <2>1. Unites(area, Everywhere(Areas(subjects, clips)), AllRects(OfBody(subjects \o clips)))
    BY <1>3 DEF AreaRight
  <2>2. op # "difference" /\ op # "intersect"
    BY <1>3
  <2> QED
    BY <2>1, <2>2, Zenon DEF AreaTrue, Unites
<1> QED
  BY <1>1, <1>2, <1>3 DEF AreaRight

\* A boolean operation covers what it should.
LEMMA BooleanRight ==
  ASSUME NEW subjects, Lists(subjects), NEW clips, Lists(clips), NEW installed,
         NEW op, op \in {"union", "intersect", "difference"},
         NEW p, p = RunBoolean(installed, op, OfBody(subjects), OfBody(clips)), p.status = 200
  PROVE  AreaTrue(op, subjects, clips, p.cells)
<1> DEFINE n == Len(subjects)
           m == Len(clips)
           S == OfBody(subjects)
           C == OfBody(clips)
           A == AreasOf(S, n, C, m)
<1>1. IsBody(subjects, n, S) /\ IsBody(clips, m, C)
  BY DEF IsBody
<1>2. p = RunBoolean(installed, op, S, C)
  OBVIOUS
<1>3. C = <<>> <=> clips = <<>>
  <2>1. C \in Seq(Rated) /\ Len(C) = Len(clips) /\ clips \in Seq(Seq(Seq(Int \X Int)))
    BY BodySound DEF Lists
  <2> HIDE DEF C
  <2> QED
    BY <2>1
<1>4. A = AreasOf(S, n, C, m)
  OBVIOUS
<1> HIDE DEF S, C, A, n, m
<1>5. Given(S, n, C, m, A) /\ A = Areas(subjects, clips)
  BY <1>1, <1>4, AreasGiven
<1>6. BooleanTaken(p, installed, op, S, n, C, m, A)
  BY <1>2, <1>5 DEF BooleanTaken
<1>7. ASSUME op = "difference" PROVE AreaRight(op, subjects, clips, A, p.cells)
  <2>1. BooleanTaken(p, installed, "difference", S, n, C, m, A)
    BY <1>6, <1>7
  <2>2. p.cells = A[1] \ Later(A, n)
    BY <2>1, DifferenceRight
  <2> QED
    BY <1>7, <2>2 DEF AreaRight, n
<1>8. ASSUME op = "union" PROVE AreaRight(op, subjects, clips, A, p.cells)
  <2>1. BooleanTaken(p, installed, "union", S, n, C, m, A)
    BY <1>6, <1>8
  <2>2. Unites(p.cells, Everywhere(A), AllRects(S \o C))
    BY <2>1, UnionRight
  <2>3. AllRects(S \o C) <=> AllRects(OfBody(subjects \o clips))
    BY <1>1, JoinedRects
  <2>4. Unites(p.cells, Everywhere(A), AllRects(OfBody(subjects \o clips)))
    BY <2>2, <2>3 DEF Unites
  <2> QED
    BY <1>8, <2>4 DEF AreaRight
<1>9. ASSUME op = "intersect" PROVE AreaRight(op, subjects, clips, A, p.cells)
  <2>0. BooleanTaken(p, installed, "intersect", S, n, C, m, A)
    BY <1>6, <1>9
  <2>4. Exact(subjects, clips) <=> C # <<>> \/ n = 2 \/ AllRects(S)
    BY <1>3 DEF Exact, S, n
  <2>5. CASE ~Exact(subjects, clips)
    <3>1. PartOfFirst(p.cells, n, A)
      BY <2>0, <2>4, <2>5, IntersectOthers
    <3> QED
      BY <1>9, <2>5, <3>1 DEF AreaRight, n
  <2> SUFFICES ASSUME Exact(subjects, clips)
               PROVE  p.cells = InEach(A)
    BY <1>9, <2>5 DEF AreaRight
  <2>1. IntersectTaken(p, installed, S, n, C, m, A)
    BY <2>0, <2>4 DEF IntersectTaken
  <2>2. InAll(p, A)
    BY <2>1, IntersectNoClips, IntersectClips
  <2>3. 1 \in DOMAIN A
    <3>1. S # <<>>
      <4>1. Raises(400).status # 200
        BY DEF Raises
      <4> QED
        BY <1>2, <4>1 DEF RunBoolean
    <3>2. n \in Nat \ {0}
      BY <1>5, <3>1, SomeSubject
    <3>3. m \in Nat /\ DOMAIN A = 1 .. n + m
      BY <1>5 DEF Given
    <3> QED
      BY <3>2, <3>3
  <2> QED
    BY <2>2, <2>3 DEF InAll, InEach, Everywhere
<1>10. AreaRight(op, subjects, clips, A, p.cells)
  BY <1>7, <1>8, <1>9
<1> DEFINE area == p.cells
<1> HIDE DEF area
<1>11. AreaRight(op, subjects, clips, A, area)
  BY <1>10 DEF area
<1>12. AreaTrue(op, subjects, clips, area)
  BY <1>5, <1>11, AreaIsTrue
<1> QED
  BY <1>12 DEF area

-----------------------------------------------------------------------------
(* Offsets.                                                                *)

LEMMA NearIn ==
  ASSUME NEW c \in Int \X Int, NEW d \in Int, NEW k
  PROVE  k \in Near(c, d) <=> /\ k = <<k[1], k[2]>> /\ k[1] \in Int /\ k[2] \in Int
                              /\ c[1] - d <= k[1] /\ k[1] <= c[1] + d
                              /\ c[2] - d <= k[2] /\ k[2] <= c[2] + d
<1>1. c[1] \in Int /\ c[2] \in Int
  OBVIOUS
<1> DEFINE x == c[1]
           y == c[2]
<1> HIDE DEF x, y
<1>2. k \in (x - d .. x + d) \X (y - d .. y + d) <=>
           /\ k = <<k[1], k[2]>> /\ k[1] \in Int /\ k[2] \in Int
           /\ x - d <= k[1] /\ k[1] <= x + d /\ y - d <= k[2] /\ k[2] <= y + d
  <2>1. x \in Int /\ y \in Int
    BY <1>1 DEF x, y
  <2> QED
    BY <2>1
<1> QED
  BY <1>2 DEF Near, x, y

Clamped(v, low, high) == IF v < low THEN low ELSE IF v > high - 1 THEN high - 1 ELSE v

LEMMA ClampedNear ==
  ASSUME NEW v \in Int, NEW low \in Int, NEW high \in Int, low < high, NEW d \in Nat,
         low - d <= v, v < high + d
  PROVE  /\ Clamped(v, low, high) \in Int /\ low <= Clamped(v, low, high) /\ Clamped(v, low, high) < high
         /\ Clamped(v, low, high) - d <= v /\ v <= Clamped(v, low, high) + d
BY DEF Clamped

LEMMA GrownBox ==
  ASSUME NEW b, IsBox(b), NEW d \in Int, NEW e, e = <<b[1] - d, b[2] - d, b[3] + d, b[4] + d>>
  PROVE  e \in Quad /\ CellsOf(e) = Grown(CellsOf(b), d)
<1>1. b[1] \in Int /\ b[2] \in Int /\ b[3] \in Int /\ b[4] \in Int /\ b[1] < b[3] /\ b[2] < b[4]
  BY DEF IsBox, Quad
<1>2. /\ e[1] = b[1] - d /\ e[2] = b[2] - d /\ e[3] = b[3] + d /\ e[4] = b[4] + d
      /\ e[1] \in Int /\ e[2] \in Int /\ e[3] \in Int /\ e[4] \in Int /\ e \in Quad
  BY <1>1 DEF Quad
<1> DEFINE cells == CellsOf(b)
<1>3. \A c : c \in cells <=> /\ c = <<c[1], c[2]>> /\ c[1] \in Int /\ c[2] \in Int
                             /\ b[1] <= c[1] /\ c[1] < b[3] /\ b[2] <= c[2] /\ c[2] < b[4]
  BY <1>1, CellsIn
<1>4. \A c : c \in CellsOf(e) <=> /\ c = <<c[1], c[2]>> /\ c[1] \in Int /\ c[2] \in Int
                                  /\ e[1] <= c[1] /\ c[1] < e[3] /\ e[2] <= c[2] /\ c[2] < e[4]
  BY <1>2, CellsIn
<1> HIDE DEF cells
<1>5. CASE d >= 0
  <2>1. Grown(cells, d) = UNION {Near(c, d) : c \in cells}
    BY <1>5 DEF Grown
  <2>2. ASSUME NEW k \in Grown(cells, d)
        PROVE  k \in CellsOf(e)
    <3>1. PICK c \in cells : k \in Near(c, d)
      BY <2>1
    <3>2. c \in Int \X Int
      BY <1>3
    <3>3. /\ k = <<k[1], k[2]>> /\ k[1] \in Int /\ k[2] \in Int
          /\ c[1] - d <= k[1] /\ k[1] <= c[1] + d /\ c[2] - d <= k[2] /\ k[2] <= c[2] + d
      BY <3>1, <3>2, NearIn
    <3>4. c[1] \in Int /\ c[2] \in Int /\ b[1] <= c[1] /\ c[1] < b[3] /\ b[2] <= c[2] /\ c[2] < b[4]
      BY <1>3
    <3>5. e[1] <= k[1] /\ k[1] < e[3] /\ e[2] <= k[2] /\ k[2] < e[4]
      BY <1>1, <1>2, <3>3, <3>4
    <3> QED
      BY <1>4, <3>3, <3>5
  <2>3. ASSUME NEW k \in CellsOf(e)
        PROVE  k \in Grown(cells, d)
    <3> DEFINE x == Clamped(k[1], b[1], b[3])
               y == Clamped(k[2], b[2], b[4])
               c == <<x, y>>
    <3>1. /\ k = <<k[1], k[2]>> /\ k[1] \in Int /\ k[2] \in Int
          /\ b[1] - d <= k[1] /\ k[1] < b[3] + d /\ b[2] - d <= k[2] /\ k[2] < b[4] + d
      BY <1>2, <1>4
    <3>2. d \in Nat
      BY <1>5
    <3>3. x \in Int /\ b[1] <= x /\ x < b[3] /\ x - d <= k[1] /\ k[1] <= x + d
      BY <1>1, <3>1, <3>2, ClampedNear
    <3>4. y \in Int /\ b[2] <= y /\ y < b[4] /\ y - d <= k[2] /\ k[2] <= y + d
      BY <1>1, <3>1, <3>2, ClampedNear
    <3> HIDE DEF x, y
    <3>5. c \in cells /\ c \in Int \X Int /\ c[1] = x /\ c[2] = y
      BY <1>3, <3>3, <3>4
    <3> HIDE DEF c
    <3>6. k \in Near(c, d)
      BY <3>1, <3>3, <3>4, <3>5, NearIn
    <3> QED
      BY <2>1, <3>5, <3>6
  <2> QED
    BY <2>2, <2>3 DEF cells
<1>6. CASE ~(d >= 0)
  <2> DEFINE m == 0 - d
  <2>0. m \in Nat /\ m > 0 /\ d = 0 - m
    BY <1>6
  <2> HIDE DEF m
  <2>1. Grown(cells, d) = {c \in cells : Near(c, m) \subseteq cells}
    BY <1>6 DEF Grown, m
  <2>2. ASSUME NEW c \in Grown(cells, d)
        PROVE  c \in CellsOf(e)
    <3> DEFINE low == <<c[1] - m, c[2] - m>>
               top == <<c[1] + m, c[2] + m>>
    <3>1. c \in cells /\ Near(c, m) \subseteq cells
      BY <2>1
    <3>2. c = <<c[1], c[2]>> /\ c[1] \in Int /\ c[2] \in Int /\ c \in Int \X Int
      BY <1>3, <3>1
    <3>3. low[1] = c[1] - m /\ low[2] = c[2] - m /\ top[1] = c[1] + m /\ top[2] = c[2] + m
          /\ low = <<low[1], low[2]>> /\ top = <<top[1], top[2]>>
      OBVIOUS
    <3> HIDE DEF low, top
    <3>4. low \in Near(c, m) /\ top \in Near(c, m)
      BY <2>0, <3>2, <3>3, NearIn
    <3>5. low \in cells /\ top \in cells
      BY <3>1, <3>4
    <3>6. b[1] <= c[1] - m /\ b[2] <= c[2] - m /\ c[1] + m < b[3] /\ c[2] + m < b[4]
      BY <1>3, <3>3, <3>5
    <3>7. e[1] <= c[1] /\ c[1] < e[3] /\ e[2] <= c[2] /\ c[2] < e[4]
      BY <1>1, <1>2, <2>0, <3>2, <3>6
    <3> QED
      BY <1>4, <3>2, <3>7
  <2>3. ASSUME NEW c \in CellsOf(e)
        PROVE  c \in Grown(cells, d)
    <3>1. /\ c = <<c[1], c[2]>> /\ c[1] \in Int /\ c[2] \in Int /\ c \in Int \X Int
          /\ e[1] <= c[1] /\ c[1] < e[3] /\ e[2] <= c[2] /\ c[2] < e[4]
      BY <1>4
    <3>2. /\ b[1] + m <= c[1] /\ c[1] + m < b[3] /\ b[2] + m <= c[2] /\ c[2] + m < b[4]
      BY <1>1, <1>2, <2>0, <3>1
    <3>3. c \in cells
      BY <1>1, <1>3, <2>0, <3>1, <3>2
    <3>4. ASSUME NEW k \in Near(c, m)
          PROVE  k \in cells
      <4>1. /\ k = <<k[1], k[2]>> /\ k[1] \in Int /\ k[2] \in Int
            /\ c[1] - m <= k[1] /\ k[1] <= c[1] + m /\ c[2] - m <= k[2] /\ k[2] <= c[2] + m
        BY <2>0, <3>1, <3>4, NearIn
      <4>2. b[1] <= k[1] /\ k[1] < b[3] /\ b[2] <= k[2] /\ k[2] < b[4]
        BY <1>1, <2>0, <3>1, <3>2, <4>1
      <4> QED
        BY <1>3, <4>1, <4>2
    <3> QED
      BY <2>1, <3>3, <3>4
  <2> QED
    BY <2>2, <2>3 DEF cells
<1> QED
  BY <1>2, <1>5, <1>6

\* An offset of one path, by Clipper with the corners asked for, else with mitred ones.
LEMMA OffsetRight ==
  ASSUME NEW ring, IsRing(ring), NEW d \in Int, NEW installed \in BOOLEAN, NEW join, NEW sharp,
         NEW p, p = PolygonOffset(installed, <<ring>>, d, join, sharp), p.status = 200
  PROVE  p.cells = Offset(IF installed THEN Corner(join, sharp) ELSE "miter", Covered(ring), d)
<1> DEFINE rings == <<ring>>
           corner == Corner(join, sharp)
<1>1. /\ rings # <<>> /\ DOMAIN rings = {1} /\ rings[1] = ring
      /\ p = PolygonOffset(installed, rings, d, join, sharp)
  OBVIOUS
<1> HIDE DEF rings
<1>2. CASE installed
  <2> DEFINE cells == UNION {Offset(corner, Covered(rings[i]), d) : i \in DOMAIN rings}
  <2>1. p = ClipperOp(TRUE, cells)
    BY <1>1, <1>2 DEF PolygonOffset
  <2> HIDE DEF corner
  <2>2. cells = Offset(corner, Covered(ring), d)
    BY <1>1
  <2> HIDE DEF cells
  <2>3. p.cells = cells
    BY <2>1 DEF ClipperOp, Path
  <2> QED
    BY <1>2, <2>2, <2>3 DEF corner
<1>3. CASE ~installed
  <2> DEFINE boxes == UNION {Expanded(AsBox(rings[i])[1], d) : i \in DOMAIN rings}
  <2>1. AsBox(ring) # <<>> /\ p = OfBoxes(boxes)
    <3>1. Raises(501).status # 200
      BY DEF Raises
    <3>2. (\A i \in DOMAIN rings : AsBox(rings[i]) # <<>>) <=> AsBox(ring) # <<>>
      BY <1>1
    <3> QED
      BY <1>1, <1>3, <3>1, <3>2 DEF PolygonOffset
  <2>2. boxes = Expanded(AsBox(ring)[1], d)
    BY <1>1
  <2> HIDE DEF boxes
  <2> DEFINE b == AsBox(ring)[1]
             e == <<b[1] - d, b[2] - d, b[3] + d, b[4] + d>>
  <2>3. IsBox(b) /\ Covered(ring) = CellsOf(b)
    BY <2>1, RingAsBox
  <2>4. boxes = {x \in {e} : ~IsEmptyBox(x)}
    BY <2>2 DEF Expanded
  <2> HIDE DEF b
  <2>5. e \in Quad /\ CellsOf(e) = Grown(CellsOf(b), d)
    BY <2>3, GrownBox
  <2> HIDE DEF e
  <2>6. IsEmptyBox(e) => CellsOf(e) = {}
    BY <2>5, BoxOrEmpty
  <2>7. UNION {CellsOf(x) : x \in boxes} = CellsOf(e)
    BY <2>4, <2>6
  <2>8. p.cells = UNION {CellsOf(x) : x \in boxes}
    BY <2>1 DEF OfBoxes, Path
  <2>9. p.cells = Offset("miter", Covered(ring), d)
    BY <2>3, <2>5, <2>7, <2>8 DEF Offset
  <2> QED
    BY <1>3, <2>9
<1> QED
  BY <1>2, <1>3

-----------------------------------------------------------------------------
(* The endpoint.                                                           *)

Requested(g) ==
  \/ /\ g.what \in {"union", "intersect", "difference"} /\ g.installed \in BOOLEAN
     /\ \E subjects, clips \in PathLists : g.body = <<subjects, clips>>
  \/ /\ g.what = "offset" /\ g.installed \in BOOLEAN
     /\ \E p \in Polygons, d \in Distances, join \in JoinTypes, sharp \in BOOLEAN :
           g.body = <<(<<p>>), d, join, sharp>>
  \/ g.what = "tile" /\ g.body \in TileGrids

Answering(g) ==
  CASE g.what = "tile" -> TileGrid(g.body)
    [] g.what = "offset" -> PolygonOffset(g.installed, g.body[1], g.body[2], g.body[3], g.body[4])
    [] OTHER -> RunBoolean(g.installed, g.what, OfBody(g.body[1]), OfBody(g.body[2]))

GeomInv ==
  /\ geom = [what |-> geom.what, installed |-> geom.installed, body |-> geom.body,
             answer |-> geom.answer]
  /\ Requested(geom)
  /\ geom.answer = <<>> \/ geom.answer = <<Answering(geom)>>

LEMMA GeomInitial == GeomInit => GeomInv
<1> SUFFICES ASSUME GeomInit PROVE GeomInv
  OBVIOUS
<1>1. CASE \E op \in {"union", "intersect", "difference"}, installed \in BOOLEAN,
             subjects, clips \in PathLists : geom = Asked(op, installed, <<subjects, clips>>)
  <2>1. PICK op \in {"union", "intersect", "difference"}, installed \in BOOLEAN,
             subjects \in PathLists, clips \in PathLists :
                geom = Asked(op, installed, <<subjects, clips>>)
    BY <1>1
  <2>2. /\ geom.what = op /\ geom.installed = installed /\ geom.answer = <<>>
        /\ geom.body = <<subjects, clips>>
        /\ geom = [what |-> geom.what, installed |-> geom.installed, body |-> geom.body,
                   answer |-> geom.answer]
    BY <2>1 DEF Asked
  <2>3. Requested(geom)
    BY <2>2 DEF Requested
  <2> QED
    BY <2>2, <2>3 DEF GeomInv
<1>2. CASE \E installed, sharp \in BOOLEAN, p \in Polygons, d \in Distances, join \in JoinTypes :
             geom = Asked("offset", installed, <<(<<p>>), d, join, sharp>>)
  <2>1. PICK installed \in BOOLEAN, sharp \in BOOLEAN, p \in Polygons, d \in Distances,
             join \in JoinTypes :
                geom = Asked("offset", installed, <<(<<p>>), d, join, sharp>>)
    BY <1>2
  <2>2. /\ geom.what = "offset" /\ geom.installed = installed /\ geom.answer = <<>>
        /\ geom.body = <<(<<p>>), d, join, sharp>>
        /\ geom = [what |-> geom.what, installed |-> geom.installed, body |-> geom.body,
                   answer |-> geom.answer]
    BY <2>1 DEF Asked
  <2>3. Requested(geom)
    BY <2>2 DEF Requested
  <2> QED
    BY <2>2, <2>3 DEF GeomInv
<1>3. CASE \E g \in TileGrids : geom = Asked("tile", FALSE, g)
  <2>1. PICK g \in TileGrids : geom = Asked("tile", FALSE, g)
    BY <1>3
  <2>2. /\ geom.what = "tile" /\ geom.answer = <<>> /\ geom.body = g
        /\ geom = [what |-> geom.what, installed |-> geom.installed, body |-> geom.body,
                   answer |-> geom.answer]
    BY <2>1 DEF Asked
  <2>3. Requested(geom)
    BY <2>2 DEF Requested
  <2> QED
    BY <2>2, <2>3 DEF GeomInv
<1> QED
  BY <1>1, <1>2, <1>3 DEF GeomInit

LEMMA GeomStep == GeomInv /\ [GeomNext]_geom => GeomInv'
<1> SUFFICES ASSUME GeomInv, [GeomNext]_geom PROVE GeomInv'
  OBVIOUS
<1>1. CASE GeomNext
  <2>1. geom' = [geom EXCEPT !.answer = <<Answering(geom)>>]
    BY <1>1 DEF GeomNext, Answering
  <2>2. /\ geom'.what = geom.what /\ geom'.installed = geom.installed /\ geom'.body = geom.body
        /\ geom'.answer = <<Answering(geom)>>
        /\ geom' = [what |-> geom'.what, installed |-> geom'.installed, body |-> geom'.body,
                    answer |-> geom'.answer]
    <3> DEFINE answer == Answering(geom)
    <3>1. geom' = [geom EXCEPT !.answer = <<answer>>]
      BY <2>1
    <3> HIDE DEF answer
    <3>2. geom = [what |-> geom.what, installed |-> geom.installed, body |-> geom.body,
                  answer |-> geom.answer]
      BY DEF GeomInv
    <3>3. geom' = [what |-> geom.what, installed |-> geom.installed, body |-> geom.body,
                   answer |-> <<answer>>]
      BY <3>1, <3>2
    <3> QED
      BY <3>3 DEF answer
  <2>3. Requested(geom') /\ Answering(geom') = Answering(geom)
    BY <2>2 DEF Requested, Answering, GeomInv
  <2> QED
    BY <2>2, <2>3 DEF GeomInv
<1>2. CASE UNCHANGED geom
  BY <1>2 DEF GeomInv
<1> QED
  BY <1>1, <1>2

LEMMA GeomRight == GeomInv => GeometryTrue
<1> SUFFICES ASSUME GeomInv, geom.answer # <<>>, geom.answer[1].status = 200
             PROVE  GeometryTrue
  BY DEF GeometryTrue
<1> DEFINE answer == geom.answer[1]
<1>1. answer = Answering(geom) /\ answer.status = 200
  BY DEF GeomInv
<1>2. CASE geom.what = "tile"
  <2> DEFINE g == geom.body
  <2>1. g \in TileGrids
    BY <1>2 DEF GeomInv, Requested
  <2>2. answer = TileGrid(g)
    BY <1>1, <1>2 DEF Answering
  <2>3. IsGrid(g) /\ MaxTiles \in Nat \ {0}
    BY <2>1, GeometryAssumption
  <2> HIDE DEF g, answer
  <2>4. TileGrid(g).status = 200
    BY <1>1, <2>2
  <2>5. TilesFit(g, answer)
    BY <2>2, <2>3, <2>4, TilesAreFit
  <2> QED
    BY <1>2, <2>5 DEF GeometryTrue, g, answer
<1>3. CASE geom.what = "offset"
  <2>1. PICK p \in Polygons, d \in Distances, join \in JoinTypes, sharp \in BOOLEAN :
           geom.body = <<(<<p>>), d, join, sharp>>
    BY <1>3 DEF GeomInv, Requested
  <2>2. geom.installed \in BOOLEAN
    BY <1>3 DEF GeomInv, Requested
  <2>3. IsRing(p) /\ d \in Int
    BY GeometryAssumption
  <2>4. /\ geom.what # "tile" /\ geom.body[1] = <<p>> /\ geom.body[1][1] = p
        /\ geom.body[2] = d /\ geom.body[3] = join /\ geom.body[4] = sharp
    BY <1>3, <2>1
  <2> DEFINE installed == geom.installed
  <2>5. answer = PolygonOffset(installed, <<p>>, d, join, sharp)
    BY <1>1, <1>3, <2>4 DEF Answering
  <2> HIDE DEF answer, installed
  <2>6. installed \in BOOLEAN
    BY <2>2 DEF installed
  <2>7. answer.cells = Offset(IF installed THEN Corner(join, sharp) ELSE "miter", Covered(p), d)
    BY <1>1, <2>3, <2>5, <2>6, OffsetRight
  <2> QED
    BY <1>3, <2>4, <2>7 DEF GeometryTrue, answer, installed
<1>4. CASE geom.what \in {"union", "intersect", "difference"}
  <2>1. PICK subjects \in PathLists, clips \in PathLists : geom.body = <<subjects, clips>>
    BY <1>4 DEF GeomInv, Requested
  <2>2. geom.what # "tile" /\ geom.what # "offset" /\ geom.body[1] = subjects /\ geom.body[2] = clips
    BY <1>4, <2>1
  <2>3. Lists(subjects) /\ Lists(clips)
    BY GeometryAssumption DEF Lists
  <2> DEFINE installed == geom.installed
             op == geom.what
  <2>4. answer = RunBoolean(installed, op, OfBody(subjects), OfBody(clips))
    BY <1>1, <2>2 DEF Answering
  <2>5. op \in {"union", "intersect", "difference"}
    BY <1>4
  <2> HIDE DEF answer, installed, op
  <2>6. AreaTrue(op, subjects, clips, answer.cells)
    BY <1>1, <2>3, <2>4, <2>5, BooleanRight
  <2> QED
    BY <2>2, <2>6 DEF GeometryTrue, answer, op
<1> QED
  BY <1>2, <1>3, <1>4 DEF GeomInv, Requested

\* What the geometry endpoints answer with 200, of any rectilinear paths and any grid, with pyclipr
\* and by the rectangle shortcuts: the area of a difference, of an intersection of clips, of two
\* subjects or of rectangles, of a union with a path that is no rectangle, and of an offset with
\* the corners Clipper makes; of rectangles alone a union is the box around them, without pyclipr
\* an offset has mitred corners, and any other intersection lies within its first path.
THEOREM GeometryIsTrue == GeomSpec => []GeometryTrue
<1>1. GeomSpec => []GeomInv
  BY GeomInitial, GeomStep, PTL DEF GeomSpec
<1> QED
  BY <1>1, GeomRight, PTL
=============================================================================
