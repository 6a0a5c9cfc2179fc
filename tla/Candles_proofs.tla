--------------------------- MODULE Candles_proofs ---------------------------
(***************************************************************************)
(* That the candle table tells the truth for any chain of trades, any      *)
(* widths of candles, and any number of runs over any ranges, complete or  *)
(* cut short: a candle is always that of stored trades of its bucket, that *)
(* of all of them if the last complete run read the whole bucket, and then *)
(* the candles of a narrower series add up to it.                          *)
(*                                                                         *)
(* The order in which the snapshots come out of their hash map is any; the *)
(* last theorem needs that it is one order for both series of a pass.      *)
(***************************************************************************)
EXTENDS Candles, FiniteSetTheorems, TLAPS

-----------------------------------------------------------------------------
(* Buckets of time.                                                        *)

(* A time lies in its bucket. *)
LEMMA BucketHolds ==
    ASSUME NEW t \in Int, NEW iv \in Nat \ {0}
    PROVE  /\ Bucket(t, iv) \in Int /\ \E n \in Int : Bucket(t, iv) = n * iv
           /\ Bucket(t, iv) <= t /\ t < Bucket(t, iv) + iv
  <1>1. t \div iv \in Int /\ t % iv \in 0..(iv - 1) /\ t = iv * (t \div iv) + (t % iv)
    OBVIOUS
  <1>2. PICK n \in Int : n = t \div iv
    BY <1>1
  <1>3. PICK b \in Int : b = n * iv
    OBVIOUS
  <1>4. Bucket(t, iv) = b
    BY <1>2, <1>3 DEF Bucket
  <1>5. PICK r \in 0..(iv - 1) : r = t % iv
    BY <1>1
  <1>6. t = b + r
    BY <1>1, <1>2, <1>3, <1>5
  <1>7. b <= t /\ t < b + iv
    BY <1>5, <1>6
  <1> QED BY <1>3, <1>4, <1>7

(* and in no other one. *)
LEMMA BucketIs ==
    ASSUME NEW t \in Int, NEW iv \in Nat \ {0}, NEW n \in Int, n * iv <= t, t < n * iv + iv
    PROVE  Bucket(t, iv) = n * iv
  <1>1. PICK m \in Int : Bucket(t, iv) = m * iv
    BY BucketHolds
  <1>2. m * iv <= t /\ t < m * iv + iv
    BY <1>1, BucketHolds
  <1>3. m * iv + iv = (m + 1) * iv /\ n * iv + iv = (n + 1) * iv
    OBVIOUS
  <1>4. ~ m + 1 <= n
    <2>1. ASSUME m + 1 <= n PROVE (m + 1) * iv <= n * iv
      BY <2>1
    <2> QED BY <1>2, <1>3, <2>1
  <1>5. ~ n + 1 <= m
    <2>1. ASSUME n + 1 <= m PROVE (n + 1) * iv <= m * iv
      BY <2>1
    <2> QED BY <1>2, <1>3, <2>1
  <1>6. m = n
    BY <1>4, <1>5
  <1> QED BY <1>1, <1>6

(* Later times are in later buckets. *)
LEMMA BucketInOrder ==
    ASSUME NEW t \in Int, NEW u \in Int, NEW iv \in Nat \ {0}, t <= u
    PROVE  Bucket(t, iv) <= Bucket(u, iv)
  <1>1. PICK m \in Int : Bucket(t, iv) = m * iv
    BY BucketHolds
  <1>2. PICK n \in Int : Bucket(u, iv) = n * iv
    BY BucketHolds
  <1>3. m * iv <= t /\ u < n * iv + iv
    BY <1>1, <1>2, BucketHolds
  <1>4. n * iv + iv = (n + 1) * iv
    OBVIOUS
  <1>5. ~ n + 1 <= m
    <2>1. ASSUME n + 1 <= m PROVE (n + 1) * iv <= m * iv
      BY <2>1
    <2> QED BY <1>3, <1>4, <2>1
  <1>6. m <= n
    BY <1>5
  <1>7. m * iv <= n * iv
    BY <1>6
  <1> QED BY <1>1, <1>2, <1>7

(* A wide bucket is made of whole narrow ones. *)
LEMMA BucketsNest ==
    ASSUME NEW t \in Int, NEW narrow \in Nat \ {0}, NEW wide \in Nat \ {0}, wide % narrow = 0
    PROVE  Bucket(Bucket(t, narrow), wide) = Bucket(t, wide)
  <1>1. PICK c \in Int : wide = narrow * c
    <2>1. wide = narrow * (wide \div narrow) + (wide % narrow) /\ wide \div narrow \in Int
      OBVIOUS
    <2> QED BY <2>1
  <1>2. PICK n \in Int : Bucket(t, narrow) = n * narrow
    BY BucketHolds
  <1>3. PICK q \in Int : Bucket(t, wide) = q * wide
    BY BucketHolds
  <1>4. q * wide <= t /\ t < q * wide + wide
    BY <1>3, BucketHolds
  <1>5. n * narrow <= t /\ t < n * narrow + narrow
    BY <1>2, BucketHolds
  <1>6. PICK d \in Int : d = q * c
    OBVIOUS
  <1>7. q * wide = d * narrow
    BY <1>1, <1>6
  <1>8. ~ n + 1 <= d
    <2>1. n * narrow + narrow = (n + 1) * narrow
      OBVIOUS
    <2>2. ASSUME n + 1 <= d PROVE (n + 1) * narrow <= d * narrow
      BY <2>2
    <2> QED BY <1>4, <1>5, <1>7, <2>1, <2>2
  <1>9. d * narrow <= n * narrow
    BY <1>8
  <1>10. q * wide <= n * narrow /\ n * narrow < q * wide + wide
    BY <1>4, <1>5, <1>7, <1>9
  <1>11. Bucket(n * narrow, wide) = q * wide
    BY <1>10, BucketIs
  <1> QED BY <1>2, <1>3, <1>11

-----------------------------------------------------------------------------
(* Finite sets of numbers, and sums.  As in TokenFlow_proofs, a sum is found *)
(* by a table of the sums over all subsets.                                 *)

(* Of any family of subsets of a finite set, one has no smaller one in it. *)
LEMMA SmallestSubset ==
    ASSUME NEW S, IsFiniteSet(S), NEW F \in SUBSET SUBSET S, F # {}
    PROVE  \E T \in F : \A x \in T : T \ {x} \notin F
  <1> DEFINE R == StrictSubsetOrdering(S)
  <1>1. IsWellFoundedOn(R, SUBSET S)
    BY FS_StrictSubsetOrderingWellFounded, FS_FiniteSubsetsOfFinite
  <1>2. PICK T \in F : \A U \in F : <<U, T>> \notin R
    <2> HIDE DEF R
    <2> QED BY <1>1, WFMin
  <1>3. ASSUME NEW x \in T, T \ {x} \in F PROVE FALSE
    BY <1>2, <1>3 DEF StrictSubsetOrdering
  <1> QED BY <1>3

(* Of finitely many numbers one is the least, *)
LEMMA HasLeast ==
    ASSUME NEW S, IsFiniteSet(S), S # {}, NEW f \in [S -> Int]
    PROVE  \E x \in S : \A y \in S : f[x] <= f[y]
  <1> DEFINE F == {T \in SUBSET S : T # {} /\ ~ \E x \in T : \A y \in T : f[x] <= f[y]}
  <1>1. SUFFICES ASSUME F # {} PROVE FALSE
    OBVIOUS
  <1>2. PICK T \in F : \A x \in T : T \ {x} \notin F
    <2> HIDE DEF F
    <2>1. F \in SUBSET SUBSET S
      BY DEF F
    <2> QED BY <1>1, <2>1, SmallestSubset
  <1>3. PICK a \in T : TRUE
    OBVIOUS
  <1>4. T \subseteq S /\ \A x \in T : f[x] \in Int
    OBVIOUS
  <1>5. CASE T \ {a} = {}
    <2>1. \A y \in T : y = a
      BY <1>5
    <2> QED BY <1>4, <2>1
  <1>6. CASE T \ {a} # {}
    <2>1. PICK x \in T \ {a} : \A y \in T \ {a} : f[x] <= f[y]
      BY <1>2, <1>4, <1>6
    <2>2. \A y \in T : y = a \/ y \in T \ {a}
      OBVIOUS
    <2>3. CASE f[x] <= f[a]
      BY <2>1, <2>2, <2>3
    <2>4. CASE f[a] <= f[x]
      <3>1. ASSUME NEW y \in T PROVE f[a] <= f[y]
        BY <1>4, <2>1, <2>2, <2>4
      <3> QED BY <3>1
    <2> QED BY <1>4, <2>3, <2>4
  <1> QED BY <1>5, <1>6

(* and one the largest. *)
LEMMA HasLargest ==
    ASSUME NEW S, IsFiniteSet(S), S # {}, NEW f \in [S -> Int]
    PROVE  \E x \in S : \A y \in S : f[y] <= f[x]
  <1> DEFINE g == [x \in S |-> 0 - f[x]]
  <1>1. g \in [S -> Int]
    OBVIOUS
  <1>2. PICK x \in S : \A y \in S : g[x] <= g[y]
    <2> HIDE DEF g
    <2> QED BY <1>1, HasLeast
  <1>3. ASSUME NEW y \in S PROVE f[y] <= f[x]
    <2>1. 0 - f[x] <= 0 - f[y]
      BY <1>2
    <2> QED BY <2>1
  <1> QED BY <1>3

(* Max and Min of a finite set of numbers are what they are called. *)
LEMMA ExtremesOfSet ==
    ASSUME NEW S, IsFiniteSet(S), S # {}, S \subseteq Int
    PROVE  /\ Max(S) \in S /\ \A x \in S : x <= Max(S)
           /\ Min(S) \in S /\ \A x \in S : Min(S) <= x
  <1> DEFINE id == [x \in S |-> x]
  <1>1. id \in [S -> Int]
    OBVIOUS
  <1>2. \E x \in S : \A y \in S : y <= x
    <2>1. PICK x \in S : \A y \in S : id[y] <= id[x]
      <3> HIDE DEF id
      <3> QED BY <1>1, HasLargest
    <2> QED BY <2>1
  <1>3. \E x \in S : \A y \in S : x <= y
    <2>1. PICK x \in S : \A y \in S : id[x] <= id[y]
      <3> HIDE DEF id
      <3> QED BY <1>1, HasLeast
    <2> QED BY <2>1
  <1>4. \E x \in S : \A y \in S : x >= y
    BY <1>2
  <1>5. Max(S) \in S /\ \A y \in S : Max(S) >= y
    BY <1>4 DEF Max
  <1>6. Min(S) \in S /\ \A y \in S : Min(S) <= y
    BY <1>3 DEF Min
  <1> QED BY <1>5, <1>6

(* There is one largest and one least number. *)
LEMMA ExtremesAre ==
    ASSUME NEW S, IsFiniteSet(S), S \subseteq Int, NEW x \in S
    PROVE  /\ (\A y \in S : y <= x) => Max(S) = x
           /\ (\A y \in S : x <= y) => Min(S) = x
  <1>1. Max(S) \in S /\ x <= Max(S) /\ Min(S) \in S /\ Min(S) <= x
    BY ExtremesOfSet
  <1>2. PICK a \in Int, b \in Int : a = Max(S) /\ b = Min(S)
    BY <1>1
  <1>3. ASSUME \A y \in S : y <= x PROVE Max(S) = x
    BY <1>1, <1>2, <1>3
  <1>4. ASSUME \A y \in S : x <= y PROVE Min(S) = x
    BY <1>1, <1>2, <1>4
  <1> QED BY <1>3, <1>4

(* g gives the sum of f over every subset of S. *)
IsTable(g, f, S) ==
    /\ g \in [SUBSET S -> Int]
    /\ g[{}] = 0
    /\ \A T \in SUBSET S : \A x \in T : g[T] = f[x] + g[T \ {x}]

(* The sum of a function over a finite set has a table. *)
LEMMA TableExists ==
    ASSUME NEW S, IsFiniteSet(S), NEW f \in [S -> Int]
    PROVE  \E g : IsTable(g, f, S)
  <1> DEFINE F == {T \in SUBSET S : ~ \E g : IsTable(g, f, T)}
  <1>1. SUFFICES ASSUME F # {} PROVE FALSE
    OBVIOUS
  <1>2. PICK T \in F : \A x \in T : T \ {x} \notin F
    <2> HIDE DEF F
    <2>1. F \in SUBSET SUBSET S
      BY DEF F
    <2> QED BY <1>1, <2>1, SmallestSubset
  <1>3. CASE T = {}
    <2>1. IsTable([U \in SUBSET T |-> 0], f, T)
      BY <1>3 DEF IsTable
    <2> QED BY <2>1
  <1>4. CASE T # {}
    <2>1. PICK a \in T : TRUE
      BY <1>4
    <2>2. PICK g : IsTable(g, f, T \ {a})
      BY <1>2
    <2> DEFINE h == [U \in SUBSET T |-> IF a \in U THEN f[a] + g[U \ {a}] ELSE g[U]]
    <2>3. /\ T \subseteq S /\ f[a] \in Int
          /\ \A U \in SUBSET T : U \ {a} \in SUBSET (T \ {a})
          /\ \A U \in SUBSET T : a \notin U => U \in SUBSET (T \ {a})
      OBVIOUS
    <2>4. \A U \in SUBSET (T \ {a}) : g[U] \in Int
      BY <2>2 DEF IsTable
    <2>5. h \in [SUBSET T -> Int]
      BY <2>3, <2>4
    <2>6. h[{}] = 0
      BY <2>2 DEF IsTable
    <2>7. ASSUME NEW U \in SUBSET T, NEW x \in U PROVE h[U] = f[x] + h[U \ {x}]
      <3>1. h[U] = IF a \in U THEN f[a] + g[U \ {a}] ELSE g[U]
        OBVIOUS
      <3>2. h[U \ {x}] = IF a \in U \ {x} THEN f[a] + g[(U \ {x}) \ {a}] ELSE g[U \ {x}]
        OBVIOUS
      <3>3. f[x] \in Int
        BY <2>3
      <3>4. CASE x = a
        BY <3>1, <3>2, <3>4
      <3>5. CASE x # a /\ a \in U
        <4>1. (U \ {x}) \ {a} = (U \ {a}) \ {x} /\ x \in U \ {a}
          BY <3>5
        <4>2. g[U \ {a}] = f[x] + g[(U \ {a}) \ {x}]
          BY <2>2, <2>3, <4>1 DEF IsTable
        <4>3. g[(U \ {a}) \ {x}] \in Int
          BY <2>3, <2>4
        <4>4. h[U] = f[a] + (f[x] + g[(U \ {a}) \ {x}])
          BY <3>1, <3>5, <4>2
        <4>5. h[U \ {x}] = f[a] + g[(U \ {a}) \ {x}]
          BY <3>2, <3>5, <4>1
        <4> HIDE DEF h
        <4> QED BY <2>3, <3>3, <4>3, <4>4, <4>5
      <3>6. CASE a \notin U
        <4>1. g[U] = f[x] + g[U \ {x}]
          BY <2>2, <2>3, <3>6 DEF IsTable
        <4> QED BY <3>1, <3>2, <3>6, <4>1
      <3> QED BY <3>4, <3>5, <3>6
    <2>8. IsTable(h, f, T)
      <3> HIDE DEF h
      <3> QED BY <2>5, <2>6, <2>7 DEF IsTable
    <2> QED BY <2>8
  <1> QED BY <1>3, <1>4

(* The fold of SumFunction, whatever order it takes the elements in, is what *)
(* a table says.                                                             *)
LEMMA SumIsTable ==
    ASSUME NEW S, IsFiniteSet(S), NEW f, DOMAIN f = S, NEW g, IsTable(g, f, S)
    PROVE  SumFunction(f) = g[S]
  <1> DEFINE Pick(T) == CHOOSE x \in T : TRUE
             Folds(h) == h = [T \in SUBSET S |->
                                IF T = {} THEN 0 ELSE f[Pick(T)] + h[T \ {Pick(T)}]]
  <1>1. PICK h : /\ SumFunction(f) = h[S]
                 /\ h = CHOOSE k : Folds(k)
    BY Zenon DEF SumFunction, SumFunctionOnSet, FoldFunctionOnSet, MapThenFoldSet
  <1>2. \A T \in SUBSET S : T # {} => Pick(T) \in T
    OBVIOUS
  <1> HIDE DEF Pick
  <1>3. Folds(g)
    <2>1. \A T \in SUBSET S :
             g[T] = IF T = {} THEN 0 ELSE f[Pick(T)] + g[T \ {Pick(T)}]
      BY <1>2 DEF IsTable
    <2>2. g = [T \in SUBSET S |-> g[T]]
      BY DEF IsTable
    <2> QED BY <2>1, <2>2
  <1>4. Folds(h)
    <2> HIDE DEF Folds
    <2> QED BY <1>1, <1>3, Zenon
  <1>5. \A T \in SUBSET S :
           h[T] = IF T = {} THEN 0 ELSE f[Pick(T)] + h[T \ {Pick(T)}]
    BY <1>4
  <1> DEFINE F == {T \in SUBSET S : h[T] # g[T]}
  <1>6. F = {}
    <2> SUFFICES ASSUME F # {} PROVE FALSE
      OBVIOUS
    <2>1. PICK T \in F : \A x \in T : T \ {x} \notin F
      <3> HIDE DEF F
      <3>1. F \in SUBSET SUBSET S
        BY DEF F
      <3> QED BY <3>1, SmallestSubset
    <2>2. T # {}
      BY <1>5 DEF IsTable
    <2>3. Pick(T) \in T /\ T \in SUBSET S
      BY <1>2, <2>2
    <2>4. h[T] = f[Pick(T)] + h[T \ {Pick(T)}]
      BY <1>5, <2>2
    <2>5. g[T] = f[Pick(T)] + g[T \ {Pick(T)}]
      BY <2>3 DEF IsTable
    <2>6. h[T \ {Pick(T)}] = g[T \ {Pick(T)}]
      BY <2>1, <2>3
    <2> QED BY <2>4, <2>5, <2>6
  <1> QED BY <1>1, <1>6


(* A table holds the sums over the subsets of a subset as well, *)
LEMMA SumOfSome ==
    ASSUME NEW S, IsFiniteSet(S), NEW f, NEW g, IsTable(g, f, S), NEW T \in SUBSET S
    PROVE  SumFunction([x \in T |-> f[x]]) = g[T]
  <1> DEFINE h == [U \in SUBSET T |-> g[U]]
             e == [x \in T |-> f[x]]
  <1>1. IsTable(h, e, T)
    <2>1. h \in [SUBSET T -> Int] /\ h[{}] = 0
      BY DEF IsTable
    <2>2. ASSUME NEW U \in SUBSET T, NEW x \in U PROVE h[U] = e[x] + h[U \ {x}]
      <3>1. h[U] = g[U] /\ h[U \ {x}] = g[U \ {x}] /\ e[x] = f[x]
        OBVIOUS
      <3>2. g[U] = f[x] + g[U \ {x}]
        BY DEF IsTable
      <3> QED BY <3>1, <3>2
    <2> HIDE DEF h, e
    <2> QED BY <2>1, <2>2 DEF IsTable
  <1>2. IsFiniteSet(T) /\ DOMAIN e = T
    BY FS_Subset
  <1>3. SumFunction(e) = h[T]
    <2> HIDE DEF h, e
    <2> QED BY <1>1, <1>2, SumIsTable
  <1> QED BY <1>3

(* and over disjoint ones they add up. *)
LEMMA TableAdds ==
    ASSUME NEW S, IsFiniteSet(S), NEW f \in [S -> Int], NEW g, IsTable(g, f, S),
           NEW V \in SUBSET S
    PROVE  \A U \in SUBSET (S \ V) : g[U \cup V] = g[U] + g[V]
  <1> DEFINE F == {U \in SUBSET (S \ V) : g[U \cup V] # g[U] + g[V]}
  <1>1. SUFFICES ASSUME F # {} PROVE FALSE
    OBVIOUS
  <1>2. PICK U \in F : \A x \in U : U \ {x} \notin F
    <2> HIDE DEF F
    <2>1. F \in SUBSET SUBSET S
      BY DEF F
    <2> QED BY <1>1, <2>1, SmallestSubset
  <1>3. \A W \in SUBSET S : g[W] \in Int
    BY DEF IsTable
  <1>4. CASE U = {}
    <2>1. U \cup V = V /\ g[U] = 0
      BY <1>4 DEF IsTable
    <2>2. g[V] \in Int
      BY <1>3
    <2>3. g[U \cup V] # g[U] + g[V]
      OBVIOUS
    <2> QED BY <2>1, <2>2, <2>3
  <1>5. CASE U # {}
    <2>1. PICK x \in U : TRUE
      BY <1>5
    <2>2. /\ U \in SUBSET S /\ U \cup V \in SUBSET S /\ x \in U \cup V
          /\ (U \cup V) \ {x} = (U \ {x}) \cup V /\ U \ {x} \in SUBSET (S \ V)
      OBVIOUS
    <2>3. g[U \cup V] = f[x] + g[(U \ {x}) \cup V]
      <3>1. \A W \in SUBSET S : \A y \in W : g[W] = f[y] + g[W \ {y}]
        BY DEF IsTable
      <3>2. g[U \cup V] = f[x] + g[(U \cup V) \ {x}]
        BY <2>2, <3>1
      <3> QED BY <2>2, <3>2
    <2>4. g[U] = f[x] + g[U \ {x}]
      BY <2>2 DEF IsTable
    <2>5. g[(U \ {x}) \cup V] = g[U \ {x}] + g[V]
      BY <1>2, <2>2
    <2>6. f[x] \in Int /\ g[U \ {x}] \in Int /\ g[V] \in Int
      BY <1>3, <2>2
    <2>7. g[U \cup V] = g[U] + g[V]
      BY <2>3, <2>4, <2>5, <2>6
    <2> QED BY <2>7
  <1> QED BY <1>4, <1>5

(* Summed part by part, the total is the same. *)
LEMMA SumByParts ==
    ASSUME NEW A, IsFiniteSet(A), NEW f \in [A -> Int], NEW P, IsFiniteSet(P), NEW part \in [A -> P]
    PROVE  SumFunction(f)
             = SumFunction([j \in P |-> SumFunction([s \in {t \in A : part[t] = j} |-> f[s]])])
  <1>1. PICK g : IsTable(g, f, A)
    BY TableExists
  <1>2. SumFunction(f) = g[A]
    BY <1>1, SumIsTable
  <1> DEFINE In(Q) == {t \in A : part[t] \in Q}
             h == [j \in P |-> SumFunction([s \in {t \in A : part[t] = j} |-> f[s]])]
             H == [Q \in SUBSET P |-> g[In(Q)]]
  <1>3. \A j \in P : h[j] = g[{t \in A : part[t] = j}]
    <2> SUFFICES ASSUME NEW j \in P PROVE h[j] = g[{t \in A : part[t] = j}]
      OBVIOUS
    <2>1. PICK T \in SUBSET A : T = {t \in A : part[t] = j}
      OBVIOUS
    <2>2. SumFunction([s \in T |-> f[s]]) = g[T]
      BY <1>1, SumOfSome
    <2> QED BY <2>1, <2>2
  <1>4. IsTable(H, h, P)
    <2>1. H \in [SUBSET P -> Int] /\ H[{}] = 0
      <3>1. \A Q \in SUBSET P : g[In(Q)] \in Int
        BY <1>1 DEF IsTable
      <3>2. In({}) = {} /\ g[{}] = 0
        BY <1>1 DEF IsTable
      <3> HIDE DEF In
      <3> QED BY <3>1, <3>2
    <2>2. ASSUME NEW Q \in SUBSET P, NEW j \in Q PROVE H[Q] = h[j] + H[Q \ {j}]
      <3>0. PICK V \in SUBSET A : V = In(Q \ {j})
        OBVIOUS
      <3>1. PICK U \in SUBSET (A \ V) : V = In(Q \ {j}) /\ U = {t \in A : part[t] = j}
        BY <3>0
      <3>2. In(Q) = U \cup V
        BY <3>1
      <3>3. g[U \cup V] = g[U] + g[V]
        BY <1>1, TableAdds
      <3>4. H[Q] = g[U \cup V] /\ H[Q \ {j}] = g[V] /\ h[j] = g[U]
        <4>1. h[j] = g[U]
          BY <1>3, <3>1
        <4> HIDE DEF h, In
        <4> QED BY <3>1, <3>2, <4>1
      <3> HIDE DEF h, H
      <3> QED BY <3>3, <3>4
    <2> HIDE DEF h, H
    <2> QED BY <2>1, <2>2 DEF IsTable
  <1>5. SumFunction(h) = H[P]
    <2>1. DOMAIN h = P
      OBVIOUS
    <2> HIDE DEF h, H
    <2> QED BY <1>4, <2>1, SumIsTable
  <1>6. In(P) = A
    OBVIOUS
  <1>7. H[P] = g[A]
    <2> HIDE DEF In, h
    <2> QED BY <1>6
  <1> QED BY <1>2, <1>5, <1>7

-----------------------------------------------------------------------------
(* The table keeps its types, and a pass reads what is stored. *)
TypeOK == /\ chain \in Chains
          /\ stored \subseteq Slots /\ built \subseteq stored
          /\ DOMAIN candles \subseteq Intervals \X Int

(* A trade of the chain has a time, a price and a volume. *)
LEMMA TradeTypes ==
    ASSUME TypeOK, NEW s \in Timed(Slots)
    PROVE  chain[s].time \in Int /\ chain[s].price \in Int /\ chain[s].volume \in Int
  BY CandlesAssumption DEF TypeOK, Timed

(* A sorted vector: every trade has a place of its own, later ones later. *)
LEMMA PlacesInOrder ==
    ASSUME TypeOK, NEW T \in SUBSET Slots, NEW place \in Orders(T)
    PROVE  /\ DOMAIN place = Timed(T) /\ Timed(T) \subseteq Timed(Slots)
           /\ place \in [Timed(T) -> Int]
           /\ \A r, s \in Timed(T) : place[r] = place[s] => r = s
           /\ \A r, s \in Timed(T) : place[r] <= place[s] => chain[r].time <= chain[s].time
  <1>1. Timed(T) \subseteq Timed(Slots)
    BY DEF Timed
  <1>2. place \in [Timed(T) -> 1..Cardinality(Timed(T))]
    BY DEF Orders, Bijection, Injection, Surjection
  <1>3. \A s \in Timed(T) : place[s] \in Int
    BY <1>2
  <1>4. \A r, s \in Timed(T) : place[r] = place[s] => r = s
    BY <1>2 DEF Orders, Bijection, Injection, Surjection, IsInjective
  <1>5. ASSUME NEW r \in Timed(T), NEW s \in Timed(T), place[r] <= place[s]
        PROVE  chain[r].time <= chain[s].time
    <2>1. CASE r = s
      <3>1. chain[s].time \in Int
        BY <1>1, TradeTypes
      <3> QED BY <2>1, <3>1
    <2>2. CASE r # s
      <3>1. place[r] < place[s]
        BY <1>3, <1>4, <1>5, <2>2
      <3> QED BY <3>1 DEF Orders
    <2> QED BY <2>1, <2>2
  <1> QED BY <1>1, <1>2, <1>3, <1>4, <1>5

(* The first and the last trade of a bucket exist. *)
LEMMA EndsOfBucket ==
    ASSUME TypeOK, NEW T \in SUBSET Slots, NEW place \in Orders(T),
           NEW S \in SUBSET Timed(T), S # {}
    PROVE  /\ First(S, place) \in S /\ \A r \in S : place[First(S, place)] <= place[r]
           /\ Last(S, place) \in S /\ \A r \in S : place[r] <= place[Last(S, place)]
  <1>1. IsFiniteSet(S)
    BY CandlesAssumption, FS_Subset DEF Timed
  <1> DEFINE f == [s \in S |-> place[s]]
  <1>2. f \in [S -> Int]
    BY PlacesInOrder
  <1>3. \E s \in S : \A r \in S : place[s] <= place[r]
    <2>1. PICK s \in S : \A r \in S : f[s] <= f[r]
      <3> HIDE DEF f
      <3> QED BY <1>1, <1>2, HasLeast
    <2> QED BY <2>1
  <1>4. \E s \in S : \A r \in S : place[r] <= place[s]
    <2>1. PICK s \in S : \A r \in S : f[r] <= f[s]
      <3> HIDE DEF f
      <3> QED BY <1>1, <1>2, HasLargest
    <2> QED BY <2>1
  <1> QED BY <1>3, <1>4 DEF First, Last

(* The prices of some trades are finitely many numbers. *)
LEMMA PricesAreNumbers ==
    ASSUME TypeOK, NEW S \in SUBSET Timed(Slots)
    PROVE  PricesOf(S) \subseteq Int /\ IsFiniteSet(PricesOf(S))
  <1>1. IsFiniteSet(S)
    BY CandlesAssumption, FS_Subset DEF Timed
  <1>2. \A s \in S : chain[s].price \in Int
    BY TradeTypes
  <1> DEFINE f == [s \in S |-> chain[s].price]
  <1>3. PricesOf(S) = {f[s] : s \in S}
    BY DEF PricesOf
  <1>4. f \in Surjection(S, PricesOf(S))
    BY <1>3 DEF Surjection
  <1>5. IsFiniteSet(PricesOf(S))
    <2> HIDE DEF f
    <2> QED BY <1>1, <1>4, FS_Surjection
  <1> QED BY <1>2, <1>5 DEF PricesOf

(* build_candles summarises the trades of a bucket. *)
LEMMA CandleSummarises ==
    ASSUME TypeOK, NEW T \in SUBSET Slots, NEW place \in Orders(T),
           NEW S \in SUBSET Timed(T), S # {}
    PROVE  Summarises(Candle(S, place), S)
  <1>1. /\ First(S, place) \in S /\ \A r \in S : place[First(S, place)] <= place[r]
        /\ Last(S, place) \in S /\ \A r \in S : place[r] <= place[Last(S, place)]
    BY EndsOfBucket
  <1>2. /\ \A r \in S : chain[First(S, place)].time <= chain[r].time
        /\ \A r \in S : chain[r].time <= chain[Last(S, place)].time
    BY <1>1, PlacesInOrder
  <1>3. PricesOf(S) # {}
    BY DEF PricesOf
  <1>4. /\ Max(PricesOf(S)) \in PricesOf(S) /\ \A p \in PricesOf(S) : p <= Max(PricesOf(S))
        /\ Min(PricesOf(S)) \in PricesOf(S) /\ \A p \in PricesOf(S) : Min(PricesOf(S)) <= p
    <2>1. PricesOf(S) \subseteq Int /\ IsFiniteSet(PricesOf(S))
      BY PlacesInOrder, PricesAreNumbers
    <2> QED BY <1>3, <2>1, ExtremesOfSet
  <1> DEFINE c == Candle(S, place)
  <1>5. /\ c.high = Max(PricesOf(S)) /\ c.low = Min(PricesOf(S)) /\ c.volume = VolumeOf(S)
        /\ c.open = chain[First(S, place)].price /\ c.close = chain[Last(S, place)].price
    BY DEF Candle
  <1> HIDE DEF c
  <1>6. Summarises(c, S)
    <2>1. c.high \in PricesOf(S) /\ \A p \in PricesOf(S) : p <= c.high
      BY <1>4, <1>5
    <2>2. c.low \in PricesOf(S) /\ \A p \in PricesOf(S) : c.low <= p
      BY <1>4, <1>5
    <2>3. \E s \in {s \in S : \A r \in S : chain[s].time <= chain[r].time} : c.open = chain[s].price
      BY <1>1, <1>2, <1>5
    <2>4. \E s \in {s \in S : \A r \in S : chain[r].time <= chain[s].time} : c.close = chain[s].price
      BY <1>1, <1>2, <1>5
    <2> QED BY <1>5, <2>1, <2>2, <2>3, <2>4 DEF Summarises
  <1> QED BY <1>6 DEF c

-----------------------------------------------------------------------------
(* The last complete pass built both series from one order of its trades. *)
LastPassInOneOrder ==
    built # {} =>
        \E place \in Orders(built) : \A k \in KeysOf(DOMAIN place) :
            /\ k \in DOMAIN candles
            /\ candles[k] = Candle(InBucket(DOMAIN place, k), place)

IInv == TypeOK /\ CandlesAreReal /\ LastPassInOneOrder

(* The trades of a bucket are trades of the bucket's slots. *)
LEMMA KeysHaveTrades ==
    ASSUME NEW S, NEW k \in KeysOf(S)
    PROVE  InBucket(S, k) # {} /\ InBucket(S, k) \subseteq S /\ k[1] \in Intervals
  <1>1. PICK iv \in Intervals, s \in S : k = <<iv, Bucket(chain[s].time, iv)>>
    BY DEF KeysOf
  <1>2. k[1] = iv /\ k[2] = Bucket(chain[s].time, iv)
    BY <1>1
  <1>3. s \in InBucket(S, k)
    BY <1>2 DEF InBucket
  <1> QED BY <1>2, <1>3 DEF InBucket

(* What is upserted is built from stored trades, and what was there stays.  *)
LEMMA UpsertIsReal ==
    ASSUME TypeOK, CandlesAreReal, NEW more \in SUBSET Slots, stored \subseteq more,
           NEW T \in SUBSET more, NEW place \in Orders(T), NEW keys \in SUBSET KeysOf(DOMAIN place),
           NEW k \in DOMAIN Upsert(place, keys)
    PROVE  /\ k \in Intervals \X Int
           /\ \E S \in SUBSET SlotsIn(more, k) : S # {} /\ Summarises(Upsert(place, keys)[k], S)
  <1>0. T \in SUBSET Slots
    OBVIOUS
  <1>1. DOMAIN place = Timed(T) /\ Timed(T) \subseteq Timed(Slots)
    BY <1>0, PlacesInOrder
  <1>2. k \in DOMAIN candles \cup keys
    BY DEF Upsert
  <1>3. CASE k \in keys
    <2> DEFINE S == InBucket(DOMAIN place, k)
    <2>1. S # {} /\ S \subseteq Timed(T)
      BY <1>1, <1>3, KeysHaveTrades
    <2>2. Upsert(place, keys)[k] = Candle(S, place)
      BY <1>2, <1>3 DEF Upsert
    <2>3. S \subseteq SlotsIn(more, k)
      BY <1>1 DEF InBucket, SlotsIn, Timed
    <2>4. Summarises(Upsert(place, keys)[k], S)
      <3> HIDE DEF S
      <3> QED BY <1>0, <2>1, <2>2, CandleSummarises
    <2>5. k \in Intervals \X Int
      <3>1. PICK iv \in Intervals, s \in DOMAIN place : k = <<iv, Bucket(chain[s].time, iv)>>
        BY <1>3 DEF KeysOf
      <3>2. chain[s].time \in Int
        BY <1>1, TradeTypes
      <3>3. Bucket(chain[s].time, iv) \in Int
        BY <3>2, BucketHolds, CandlesAssumption
      <3> QED BY <3>1, <3>3
    <2> HIDE DEF S
    <2> QED BY <2>1, <2>3, <2>4, <2>5
  <1>4. CASE k \notin keys
    <2>1. k \in DOMAIN candles /\ Upsert(place, keys)[k] = candles[k]
      BY <1>2, <1>4 DEF Upsert
    <2>2. PICK S \in SUBSET SlotsIn(stored, k) : S # {} /\ Summarises(candles[k], S)
      BY <2>1 DEF CandlesAreReal
    <2>3. S \in SUBSET SlotsIn(more, k)
      BY DEF SlotsIn, InBucket, Timed
    <2> QED BY <2>1, <2>2, <2>3 DEF TypeOK
  <1> QED BY <1>3, <1>4

(* The trades do not change, so neither does what summarises them, *)
LEMMA RealStays ==
    ASSUME UNCHANGED chain, NEW more, stored' = more, NEW table, candles' = table,
           \A k \in DOMAIN table :
               \E S \in SUBSET SlotsIn(more, k) : S # {} /\ Summarises(table[k], S)
    PROVE  CandlesAreReal'
  <1> SUFFICES ASSUME NEW k \in DOMAIN candles'
               PROVE  (\E S \in SUBSET SlotsIn(stored, k) : S # {} /\ Summarises(candles[k], S))'
    BY DEF CandlesAreReal
  <1>1. PICK S \in SUBSET SlotsIn(more, k) : S # {} /\ Summarises(table[k], S)
    OBVIOUS
  <1>2. SlotsIn(stored, k)' = SlotsIn(more, k)
    BY DEF SlotsIn, InBucket, Timed
  <1>3. PICK c : c = table[k] /\ c = candles'[k]
    OBVIOUS
  <1>4. Summarises(c, S)'
    <2>1. Summarises(c, S)
      BY <1>1, <1>3
    <2>2. PricesOf(S)' = PricesOf(S) /\ VolumeOf(S)' = VolumeOf(S)
      BY Zenon DEF PricesOf, VolumeOf
    <2>3. (/\ c.high \in PricesOf(S) /\ \A p \in PricesOf(S) : p <= c.high
           /\ c.low \in PricesOf(S) /\ \A p \in PricesOf(S) : c.low <= p
           /\ c.volume = VolumeOf(S))'
      BY <2>1, <2>2 DEF Summarises
    <2>4. (\E s \in {t \in S : \A r \in S : chain[t].time <= chain[r].time} :
              c.open = chain[s].price)'
      BY <2>1 DEF Summarises
    <2>5. (\E s \in {t \in S : \A r \in S : chain[r].time <= chain[t].time} :
              c.close = chain[s].price)'
      BY <2>1 DEF Summarises
    <2> QED BY <2>3, <2>4, <2>5 DEF Summarises
  <1>5. Summarises(candles[k], S)'
    BY <1>3, <1>4 DEF Summarises
  <1> QED BY <1>1, <1>2, <1>5

(* nor what a pass makes of them. *)
LEMMA PassStays ==
    ASSUME UNCHANGED chain, NEW place, place \in Orders(built'),
           \A k \in KeysOf(DOMAIN place) :
               k \in DOMAIN candles' /\ candles'[k] = Candle(InBucket(DOMAIN place, k), place)
    PROVE  LastPassInOneOrder'
  <1>1. PICK T : T = built'
    OBVIOUS
  <1>2. place \in Orders(T)
    BY <1>1
  <1>3. place \in Orders(built)'
    BY <1>1, <1>2 DEF Orders, Timed
  <1>4. KeysOf(DOMAIN place)' = KeysOf(DOMAIN place)
    BY DEF KeysOf
  <1>5. ASSUME NEW k \in KeysOf(DOMAIN place)
        PROVE  (k \in DOMAIN candles /\ candles[k] = Candle(InBucket(DOMAIN place, k), place))'
    <2>1. PICK S : S = InBucket(DOMAIN place, k)
      OBVIOUS
    <2>2. InBucket(DOMAIN place, k)' = S
      BY <2>1 DEF InBucket
    <2>3. Candle(S, place)' = Candle(S, place)
      BY Zenon DEF Candle, PricesOf, VolumeOf, First, Last
    <2>4. Candle(InBucket(DOMAIN place, k), place)' = Candle(S, place)
      BY <2>2, <2>3, Zenon DEF Candle, PricesOf, VolumeOf, First, Last
    <2>5. k \in DOMAIN candles' /\ candles'[k] = Candle(S, place)
      BY <2>1
    <2> QED BY <2>4, <2>5
  <1>6. (\E p \in Orders(built) : \A k \in KeysOf(DOMAIN p) :
            k \in DOMAIN candles /\ candles[k] = Candle(InBucket(DOMAIN p, k), p))'
    BY <1>3, <1>4, <1>5
  <1> QED BY <1>6 DEF LastPassInOneOrder

(* A pass, complete or cut, over what is stored afterwards. *)
LEMMA PassKeepsReal ==
    ASSUME IInv, UNCHANGED chain, NEW range \in SUBSET Slots, NEW got \in SUBSET range,
           stored' = stored \cup got, built' \subseteq stored',
           NEW place \in Orders(stored' \cap range), NEW keys \in SUBSET KeysOf(DOMAIN place),
           candles' = Upsert(place, keys)
    PROVE  TypeOK' /\ CandlesAreReal'
  <1>1. PICK more \in SUBSET Slots : more = stored' /\ stored \subseteq more
    BY DEF IInv, TypeOK
  <1>2. PICK T \in SUBSET more : T = stored' \cap range
    BY <1>1
  <1>3. place \in Orders(T)
    BY <1>2
  <1>4. PICK table : table = Upsert(place, keys)
    OBVIOUS
  <1>5. \A k \in DOMAIN table :
           /\ k \in Intervals \X Int
           /\ \E S \in SUBSET SlotsIn(more, k) : S # {} /\ Summarises(table[k], S)
    BY <1>1, <1>3, <1>4, UpsertIsReal DEF IInv
  <1>6. candles' = table
    BY <1>4
  <1>7. TypeOK'
    BY <1>1, <1>5, <1>6 DEF IInv, TypeOK
  <1>8. CandlesAreReal'
    BY <1>1, <1>5, <1>6, RealStays
  <1> QED BY <1>7, <1>8

LEMMA StepIInv == ASSUME IInv, [Next]_vars PROVE IInv'
  <1>1. ASSUME NEW first \in Slots, NEW last \in Slots,
               NEW got \in SUBSET SlotRange(first, last), Ingest(SlotRange(first, last), got)
        PROVE  IInv'
    <2> DEFINE range == SlotRange(first, last)
    <2>1. range \in SUBSET Slots
      BY DEF SlotRange
    <2>2. /\ UNCHANGED chain /\ stored' = stored \cup got /\ built' = stored' \cap range
          /\ \E place \in Orders(stored' \cap range) :
                 candles' = Upsert(place, KeysOf(DOMAIN place))
      BY <1>1 DEF Ingest
    <2> HIDE DEF range
    <2>3. PICK place \in Orders(stored' \cap range) : candles' = Upsert(place, KeysOf(DOMAIN place))
      BY <2>2
    <2>4. TypeOK' /\ CandlesAreReal'
      <3>1. built' \subseteq stored' /\ got \in SUBSET range
        BY <2>2 DEF range
      <3> QED BY <2>1, <2>2, <2>3, <3>1, PassKeepsReal
    <2>5. \A k \in KeysOf(DOMAIN place) :
             k \in DOMAIN candles' /\ candles'[k] = Candle(InBucket(DOMAIN place, k), place)
      BY <2>3 DEF Upsert
    <2>6. place \in Orders(built')
      BY <2>2, <2>3
    <2>7. LastPassInOneOrder'
      BY <2>2, <2>5, <2>6, PassStays
    <2> QED BY <2>4, <2>7 DEF IInv
  <1>2. ASSUME NEW first \in Slots, NEW last \in Slots,
               NEW got \in SUBSET SlotRange(first, last), IngestCut(SlotRange(first, last), got)
        PROVE  IInv'
    <2> DEFINE range == SlotRange(first, last)
    <2>1. range \in SUBSET Slots /\ got \in SUBSET range
      BY DEF SlotRange
    <2>2. /\ UNCHANGED chain /\ stored' = stored \cup got /\ built' = {}
          /\ \E place \in Orders(stored' \cap range) :
                 \E keys \in CutsOf(DOMAIN place) : candles' = Upsert(place, keys)
      BY <1>2 DEF IngestCut
    <2> HIDE DEF range
    <2>3. PICK place \in Orders(stored' \cap range) :
             \E keys \in CutsOf(DOMAIN place) : candles' = Upsert(place, keys)
      BY <2>2
    <2>4. PICK keys \in CutsOf(DOMAIN place) : candles' = Upsert(place, keys)
      BY <2>3
    <2>5. keys \in SUBSET KeysOf(DOMAIN place)
      BY DEF CutsOf
    <2>6. TypeOK' /\ CandlesAreReal'
      BY <2>1, <2>2, <2>3, <2>4, <2>5, PassKeepsReal
    <2>7. LastPassInOneOrder'
      BY <2>2 DEF LastPassInOneOrder
    <2> QED BY <2>6, <2>7 DEF IInv
  <1>3. CASE UNCHANGED vars
    <2>1. chain' = chain /\ stored' = stored /\ candles' = candles /\ built' = built
      BY <1>3 DEF vars
    <2>2. TypeOK'
      BY <2>1 DEF IInv, TypeOK
    <2>3. CandlesAreReal'
      <3>1. PICK more \in SUBSET Slots : more = stored
        BY DEF IInv, TypeOK
      <3>2. PICK table : table = candles
        OBVIOUS
      <3>3. \A k \in DOMAIN table : \E S \in SUBSET SlotsIn(more, k) : S # {} /\ Summarises(table[k], S)
        BY <3>1, <3>2 DEF IInv, CandlesAreReal
      <3> QED BY <2>1, <3>1, <3>2, <3>3, RealStays
    <2>4. LastPassInOneOrder'
      <3>1. CASE built = {}
        BY <2>1, <3>1 DEF LastPassInOneOrder
      <3>2. CASE built # {}
        <4>1. PICK place \in Orders(built) : \A k \in KeysOf(DOMAIN place) :
                  /\ k \in DOMAIN candles
                  /\ candles[k] = Candle(InBucket(DOMAIN place, k), place)
          BY <3>2 DEF IInv, LastPassInOneOrder
        <4>2. PICK T : T = built /\ T = built'
          BY <2>1
        <4>3. place \in Orders(T)
          BY <4>1, <4>2
        <4> QED BY <2>1, <4>1, <4>2, <4>3, PassStays
      <3> QED BY <3>1, <3>2
    <2> QED BY <2>2, <2>3, <2>4 DEF IInv
  <1> QED BY <1>1, <1>2, <1>3 DEF Next

THEOREM Invariance == Spec => []IInv
  <1>1. Init => IInv
    BY DEF Init, IInv, TypeOK, CandlesAreReal, LastPassInOneOrder
  <1> QED BY <1>1, StepIInv, PTL DEF Spec

THEOREM CandlesStayReal == Spec => []CandlesAreReal
  <1>1. IInv => CandlesAreReal
    BY DEF IInv
  <1> QED BY <1>1, Invariance, PTL

(* A bucket all of whose stored trades the pass has read is built from all  *)
(* of them.                                                                 *)
LEMMA BucketIsWhole ==
    ASSUME TypeOK, NEW place \in Orders(built), NEW k, SlotsIn(stored, k) \subseteq built
    PROVE  InBucket(DOMAIN place, k) = SlotsIn(stored, k)
  <1>1. DOMAIN place = Timed(built)
    BY PlacesInOrder DEF TypeOK
  <1> QED BY <1>1 DEF SlotsIn, InBucket, Timed, TypeOK

(* A bucket inside the range of a complete run holds the candle of all its  *)
(* stored trades: ON CONFLICT DO UPDATE replaces every column, so nothing   *)
(* of an earlier, staler candle survives.                                   *)
THEOREM WholeBucketsStayExact == Spec => []WholeBucketsExact
  <1>1. IInv => WholeBucketsExact
    <2> SUFFICES ASSUME IInv, NEW s \in Timed(built), NEW iv \in Intervals,
                        SlotsIn(stored, <<iv, Bucket(chain[s].time, iv)>>) \subseteq built
                 PROVE  /\ <<iv, Bucket(chain[s].time, iv)>> \in DOMAIN candles
                        /\ Summarises(candles[<<iv, Bucket(chain[s].time, iv)>>],
                                      SlotsIn(stored, <<iv, Bucket(chain[s].time, iv)>>))
      BY DEF WholeBucketsExact
    <2>1. PICK k : k = <<iv, Bucket(chain[s].time, iv)>>
      OBVIOUS
    <2>2. TypeOK /\ built \in SUBSET Slots /\ built # {}
      BY DEF IInv, TypeOK, Timed
    <2>3. PICK place \in Orders(built) : \A j \in KeysOf(DOMAIN place) :
              /\ j \in DOMAIN candles
              /\ candles[j] = Candle(InBucket(DOMAIN place, j), place)
      BY <2>2 DEF IInv, LastPassInOneOrder
    <2>4. DOMAIN place = Timed(built)
      BY <2>2, PlacesInOrder
    <2>5. k \in KeysOf(DOMAIN place)
      BY <2>1, <2>4 DEF KeysOf
    <2>6. PICK S : S = SlotsIn(stored, k) /\ S = InBucket(DOMAIN place, k)
      BY <2>1, <2>2, BucketIsWhole
    <2>7. S # {} /\ S \in SUBSET Timed(built)
      BY <2>4, <2>5, <2>6, KeysHaveTrades
    <2>8. Summarises(candles[k], S)
      BY <2>2, <2>3, <2>5, <2>6, <2>7, CandleSummarises
    <2> QED BY <2>1, <2>3, <2>5, <2>6, <2>8
  <1> QED BY <1>1, Invariance, PTL

-----------------------------------------------------------------------------
(* The narrow candles of a bucket k. *)
Parts(k, narrow) == {j \in DOMAIN candles : j[1] = narrow /\ Bucket(j[2], k[1]) = k[2]}

(* The narrow bucket of a slot. *)
PartOf(s, narrow) == <<narrow, Bucket(chain[s].time, narrow)>>

(* The candles of a whole bucket and of its parts are built from the same   *)
(* trades in the same order, cut by time.                                   *)
Cut(A, P, part, place) ==
    /\ IsFiniteSet(A) /\ A # {} /\ A \subseteq Timed(built)
    /\ part \in [A -> P] /\ \A j \in P : \E s \in A : part[s] = j
    /\ \A j \in P : candles[j] = Candle({s \in A : part[s] = j}, place)
    /\ \A j \in P : j[2] \in Int
    /\ \A i, j \in P : i[2] = j[2] => i = j
    /\ \A r, s \in A : place[r] <= place[s] => part[r][2] <= part[s][2]

LEMMA BucketsAreCut ==
    ASSUME IInv, NEW k \in DOMAIN candles, NEW narrow \in Intervals, k[1] % narrow = 0,
           SlotsIn(stored, k) # {}, SlotsIn(stored, k) \subseteq built
    PROVE  \E place \in Orders(built) :
             /\ candles[k] = Candle(SlotsIn(stored, k), place)
             /\ Cut(SlotsIn(stored, k), Parts(k, narrow),
                    [s \in SlotsIn(stored, k) |-> PartOf(s, narrow)], place)
  <1>1. TypeOK /\ built \in SUBSET Slots /\ built # {} /\ stored \subseteq Slots
    BY DEF IInv, TypeOK
  <1>2. PICK place \in Orders(built) : \A j \in KeysOf(DOMAIN place) :
            j \in DOMAIN candles /\ candles[j] = Candle(InBucket(DOMAIN place, j), place)
    BY <1>1 DEF IInv, LastPassInOneOrder
  <1>3. DOMAIN place = Timed(built)
    BY <1>1, PlacesInOrder
  <1>4. k \in Intervals \X Int /\ narrow \in Nat \ {0} /\ k[1] \in Nat \ {0}
    BY <1>1, CandlesAssumption DEF TypeOK
  <1>5. PICK A : A = SlotsIn(stored, k)
    OBVIOUS
  <1>6. /\ A # {} /\ A \subseteq Timed(built) /\ IsFiniteSet(A)
        /\ \A s \in A : chain[s].time \in Int /\ Bucket(chain[s].time, k[1]) = k[2]
    <2>1. A \subseteq Timed(built) /\ A \subseteq Timed(Slots)
      BY <1>1, <1>5 DEF SlotsIn, InBucket, Timed
    <2>2. IsFiniteSet(A)
      BY <2>1, CandlesAssumption, FS_Subset DEF Timed
    <2>3. \A s \in A : chain[s].time \in Int
      BY <1>1, <2>1, TradeTypes
    <2> QED BY <1>5, <2>1, <2>2, <2>3 DEF SlotsIn, InBucket
  <1> DEFINE P == Parts(k, narrow)
             part == [s \in A |-> PartOf(s, narrow)]
  <1>7. candles[k] = Candle(A, place)
    <2>1. PICK s \in A : TRUE
      BY <1>6
    <2>2. k = <<k[1], Bucket(chain[s].time, k[1])>> /\ k[1] \in Intervals
      BY <1>4, <1>6
    <2>3. k \in KeysOf(DOMAIN place)
      BY <1>3, <1>6, <2>2 DEF KeysOf
    <2>4. InBucket(DOMAIN place, k) = A
      BY <1>1, <1>5, BucketIsWhole
    <2> QED BY <1>2, <2>3, <2>4
  <1>8. part \in [A -> P]
    <2> SUFFICES ASSUME NEW s \in A PROVE PartOf(s, narrow) \in P
      OBVIOUS
    <2>1. PartOf(s, narrow) \in KeysOf(DOMAIN place)
      BY <1>3, <1>6 DEF KeysOf, PartOf
    <2>2. Bucket(Bucket(chain[s].time, narrow), k[1]) = k[2]
      BY <1>4, <1>6, BucketsNest
    <2> QED BY <1>2, <2>1, <2>2 DEF Parts, PartOf
  <1>9. ASSUME NEW j \in P
        PROVE  /\ j[2] \in Int /\ j = <<narrow, j[2]>>
               /\ \E s \in A : part[s] = j
               /\ candles[j] = Candle({s \in A : part[s] = j}, place)
    <2>1. j \in DOMAIN candles /\ j[1] = narrow /\ Bucket(j[2], k[1]) = k[2]
      BY DEF Parts
    <2>2. j[2] \in Int /\ j = <<narrow, j[2]>>
      BY <1>1, <2>1 DEF TypeOK
    <2>3. SlotsIn(stored, j) # {}
      BY <2>1 DEF IInv, CandlesAreReal
    <2>4. SlotsIn(stored, j) = {s \in A : part[s] = j}
      <3>1. ASSUME NEW s \in SlotsIn(stored, j) PROVE s \in A /\ part[s] = j
        <4>1. s \in Timed(stored) /\ Bucket(chain[s].time, narrow) = j[2]
          BY <2>1 DEF SlotsIn, InBucket
        <4>2. chain[s].time \in Int
          BY <1>1, <4>1, TradeTypes DEF Timed
        <4>3. Bucket(chain[s].time, k[1]) = k[2]
          BY <1>4, <2>1, <4>1, <4>2, BucketsNest
        <4>4. s \in A
          BY <1>5, <4>1, <4>3 DEF SlotsIn, InBucket
        <4> QED BY <2>2, <4>1, <4>4 DEF PartOf
      <3>2. ASSUME NEW s \in A, part[s] = j PROVE s \in SlotsIn(stored, j)
        <4>1. s \in Timed(stored)
          BY <1>5 DEF SlotsIn, InBucket
        <4>2. Bucket(chain[s].time, j[1]) = j[2]
          BY <2>1, <2>2, <3>2 DEF PartOf
        <4> QED BY <4>1, <4>2 DEF SlotsIn, InBucket
      <3> HIDE DEF part
      <3> QED BY <3>1, <3>2
    <2>5. PICK s \in A : part[s] = j
      BY <2>3, <2>4
    <2>6. j \in KeysOf(DOMAIN place)
      BY <1>3, <1>6, <2>5 DEF KeysOf, PartOf
    <2>7. SlotsIn(stored, j) \subseteq built
      BY <1>5, <2>4
    <2>8. InBucket(DOMAIN place, j) = {t \in A : part[t] = j}
      <3> HIDE DEF part, P
      <3> QED BY <1>1, <2>4, <2>7, BucketIsWhole
    <2> HIDE DEF part, P
    <2> QED BY <1>2, <2>2, <2>5, <2>6, <2>8
  <1>10. ASSUME NEW r \in A, NEW s \in A, place[r] <= place[s] PROVE part[r][2] <= part[s][2]
    <2>1. chain[r].time <= chain[s].time
      BY <1>1, <1>6, <1>10, PlacesInOrder
    <2> QED BY <1>4, <1>6, <2>1, BucketInOrder DEF PartOf
  <1>11. Cut(A, P, part, place)
    <2>1. \A i, j \in P : i[2] = j[2] => i = j
      BY <1>9
    <2> HIDE DEF P, part
    <2> QED BY <1>6, <1>8, <1>9, <1>10, <2>1 DEF Cut
  <1> QED BY <1>5, <1>7, <1>11

-----------------------------------------------------------------------------
(* What is the largest in a part that has the largest is the largest.       *)
LEMMA ExtremesByParts ==
    ASSUME TypeOK, NEW place \in Orders(built), NEW A, NEW P, NEW part, Cut(A, P, part, place)
    PROVE  /\ Max(PricesOf(A)) = Max({candles[j].high : j \in P})
           /\ Min(PricesOf(A)) = Min({candles[j].low : j \in P})
  <1> DEFINE Of(j) == {s \in A : part[s] = j}
             Highs == {candles[j].high : j \in P}
             Lows == {candles[j].low : j \in P}
  <1>1. A \subseteq Timed(Slots) /\ A # {} /\ IsFiniteSet(A)
    BY DEF Cut, TypeOK, Timed
  <1>2. PricesOf(A) \subseteq Int /\ IsFiniteSet(PricesOf(A)) /\ PricesOf(A) # {}
    BY <1>1, PricesAreNumbers DEF PricesOf
  <1>3. PICK hi \in PricesOf(A), lo \in PricesOf(A) :
           /\ hi = Max(PricesOf(A)) /\ lo = Min(PricesOf(A))
           /\ \A p \in PricesOf(A) : lo <= p /\ p <= hi
    BY <1>2, ExtremesOfSet
  <1>4. ASSUME NEW j \in P
        PROVE  /\ candles[j].high \in PricesOf(Of(j)) /\ candles[j].low \in PricesOf(Of(j))
               /\ \A p \in PricesOf(Of(j)) : candles[j].low <= p /\ p <= candles[j].high
    <2>1. PICK S : S = Of(j)
      OBVIOUS
    <2>2. candles[j] = Candle(S, place) /\ S # {} /\ S \subseteq Timed(Slots)
      BY <1>1, <2>1 DEF Cut
    <2>3. PricesOf(S) \subseteq Int /\ IsFiniteSet(PricesOf(S)) /\ PricesOf(S) # {}
      BY <2>2, PricesAreNumbers DEF PricesOf
    <2>4. candles[j].high = Max(PricesOf(S)) /\ candles[j].low = Min(PricesOf(S))
      BY <2>2 DEF Candle
    <2>5. /\ candles[j].high \in PricesOf(S) /\ candles[j].low \in PricesOf(S)
          /\ \A p \in PricesOf(S) : candles[j].low <= p /\ p <= candles[j].high
      BY <2>3, <2>4, ExtremesOfSet
    <2> HIDE DEF Of
    <2> QED BY <2>1, <2>5
  <1>5. \A j \in P : PricesOf(Of(j)) \subseteq PricesOf(A)
    BY DEF PricesOf
  <1>6. ASSUME NEW s \in A
        PROVE  part[s] \in P /\ chain[s].price \in PricesOf(Of(part[s]))
    BY DEF Cut, PricesOf
  <1> HIDE DEF Of
  <1>7. \A j \in P : /\ candles[j].high \in PricesOf(A) /\ candles[j].low \in PricesOf(A)
                     /\ lo <= candles[j].low /\ candles[j].high <= hi
    BY <1>3, <1>4, <1>5
  <1>8. Highs \subseteq PricesOf(A) /\ Lows \subseteq PricesOf(A)
    BY <1>7
  <1>9. Highs \subseteq Int /\ Lows \subseteq Int /\ IsFiniteSet(Highs) /\ IsFiniteSet(Lows)
    <2> HIDE DEF Highs, Lows
    <2> QED BY <1>2, <1>8, FS_Subset
  <1>10. hi \in Highs /\ \A p \in Highs : p <= hi
    <2>1. PICK s \in A : hi = chain[s].price
      BY DEF PricesOf
    <2>2. hi <= candles[part[s]].high /\ candles[part[s]].high <= hi /\ part[s] \in P
      BY <1>4, <1>6, <1>7, <2>1
    <2>3. candles[part[s]].high \in Int /\ hi \in Int
      BY <1>2, <1>7, <2>2
    <2>4. hi = candles[part[s]].high
      BY <2>2, <2>3
    <2> QED BY <1>7, <2>2, <2>4
  <1>11. lo \in Lows /\ \A p \in Lows : lo <= p
    <2>1. PICK s \in A : lo = chain[s].price
      BY DEF PricesOf
    <2>2. candles[part[s]].low <= lo /\ lo <= candles[part[s]].low /\ part[s] \in P
      BY <1>4, <1>6, <1>7, <2>1
    <2>3. candles[part[s]].low \in Int /\ lo \in Int
      BY <1>2, <1>7, <2>2
    <2>4. lo = candles[part[s]].low
      BY <2>2, <2>3
    <2> QED BY <1>7, <2>2, <2>4
  <1>12. Max(Highs) = hi /\ Min(Lows) = lo
    <2> HIDE DEF Highs, Lows
    <2> QED BY <1>9, <1>10, <1>11, ExtremesAre
  <1> QED BY <1>3, <1>12

(* Volumes add up. *)
LEMMA VolumeByParts ==
    ASSUME TypeOK, NEW place, NEW A, NEW P, NEW part, Cut(A, P, part, place)
    PROVE  VolumeOf(A) = SumFunction([j \in P |-> candles[j].volume])
  <1>1. A \subseteq Timed(Slots) /\ IsFiniteSet(A) /\ part \in [A -> P]
    BY DEF Cut, TypeOK, Timed
  <1> DEFINE f == [s \in A |-> chain[s].volume]
  <1>2. f \in [A -> Int]
    BY <1>1, TradeTypes
  <1>3. IsFiniteSet(P)
    <2>1. part \in Surjection(A, P)
      BY DEF Cut, Surjection
    <2> QED BY <1>1, <2>1, FS_Surjection
  <1>4. ASSUME NEW j \in P
        PROVE  candles[j].volume = SumFunction([s \in {t \in A : part[t] = j} |-> f[s]])
    <2>1. PICK S \in SUBSET A : S = {t \in A : part[t] = j}
      OBVIOUS
    <2>2. candles[j] = Candle(S, place)
      BY <2>1 DEF Cut
    <2>3. candles[j].volume = SumFunction([s \in S |-> chain[s].volume])
      BY <2>2 DEF Candle, VolumeOf
    <2>4. [s \in S |-> chain[s].volume] = [s \in S |-> f[s]]
      OBVIOUS
    <2> HIDE DEF f
    <2> QED BY <2>1, <2>3, <2>4, Zenon
  <1>5. [j \in P |-> candles[j].volume]
          = [j \in P |-> SumFunction([s \in {t \in A : part[t] = j} |-> f[s]])]
    <2> HIDE DEF f
    <2> QED BY <1>4, Zenon
  <1>6. SumFunction(f) = SumFunction([j \in P |-> SumFunction([s \in {t \in A : part[t] = j} |-> f[s]])])
    <2> HIDE DEF f
    <2> QED BY <1>1, <1>2, <1>3, SumByParts
  <1>7. VolumeOf(A) = SumFunction(f)
    BY Zenon DEF VolumeOf
  <1> HIDE DEF f
  <1> QED BY <1>5, <1>6, <1>7, Zenon

(* The first trade of a bucket is the first of its first part, and the last *)
(* one the last of its last.                                                *)
LEMMA EndsByParts ==
    ASSUME TypeOK, NEW place \in Orders(built), NEW A, NEW P, NEW part, Cut(A, P, part, place)
    PROVE  /\ chain[First(A, place)].price
                = candles[CHOOSE j \in P : \A i \in P : j[2] <= i[2]].open
           /\ chain[Last(A, place)].price
                = candles[CHOOSE j \in P : \A i \in P : i[2] <= j[2]].close
  <1>1. /\ A \in SUBSET Timed(built) /\ A # {} /\ built \in SUBSET Slots
        /\ part \in [A -> P] /\ \A j \in P : j[2] \in Int /\ \E s \in A : part[s] = j
        /\ \A i, j \in P : i[2] = j[2] => i = j
        /\ \A r, s \in A : place[r] <= place[s] => part[r][2] <= part[s][2]
        /\ \A j \in P : candles[j] = Candle({s \in A : part[s] = j}, place)
    BY DEF Cut, TypeOK
  <1>2. /\ \A s \in A : place[s] \in Int
        /\ \A r, s \in A : place[r] = place[s] => r = s
    BY <1>1, PlacesInOrder
  <1>3. PICK s \in A, t \in A :
           /\ s = First(A, place) /\ t = Last(A, place)
           /\ \A r \in A : place[s] <= place[r] /\ place[r] <= place[t]
    BY <1>1, EndsOfBucket
  <1>4. \A j \in P : part[s][2] <= j[2] /\ j[2] <= part[t][2]
    BY <1>1, <1>3
  <1>5. part[s] \in P /\ part[t] \in P
    BY <1>1
  <1>6. (CHOOSE j \in P : \A i \in P : j[2] <= i[2]) = part[s]
    <2>1. PICK j \in P : j = (CHOOSE h \in P : \A i \in P : h[2] <= i[2]) /\ \A i \in P : j[2] <= i[2]
      BY <1>4, <1>5
    <2>2. j[2] = part[s][2]
      BY <1>1, <1>4, <1>5, <2>1
    <2> QED BY <1>1, <1>5, <2>1, <2>2
  <1>7. (CHOOSE j \in P : \A i \in P : i[2] <= j[2]) = part[t]
    <2>1. PICK j \in P : j = (CHOOSE h \in P : \A i \in P : i[2] <= h[2]) /\ \A i \in P : i[2] <= j[2]
      BY <1>4, <1>5
    <2>2. j[2] = part[t][2]
      BY <1>1, <1>4, <1>5, <2>1
    <2> QED BY <1>1, <1>5, <2>1, <2>2
  <1>8. candles[part[s]].open = chain[s].price
    <2>1. PICK S \in SUBSET A : S = {r \in A : part[r] = part[s]}
      OBVIOUS
    <2>2. s \in S /\ S # {} /\ S \in SUBSET Timed(built)
      BY <1>1, <2>1
    <2>3. First(S, place) \in S /\ place[First(S, place)] <= place[s]
      BY <1>1, <2>2, EndsOfBucket
    <2>4. First(S, place) = s
      BY <1>2, <1>3, <2>3
    <2>5. PICK j \in P : j = part[s]
      BY <1>5
    <2>6. candles[j] = Candle(S, place)
      BY <1>1, <2>1, <2>5
    <2>7. candles[j].open = chain[First(S, place)].price
      BY <2>6 DEF Candle
    <2> QED BY <2>4, <2>5, <2>7
  <1>9. candles[part[t]].close = chain[t].price
    <2>1. PICK S \in SUBSET A : S = {r \in A : part[r] = part[t]}
      OBVIOUS
    <2>2. t \in S /\ S # {} /\ S \in SUBSET Timed(built)
      BY <1>1, <2>1
    <2>3. Last(S, place) \in S /\ place[t] <= place[Last(S, place)]
      BY <1>1, <2>2, EndsOfBucket
    <2>4. Last(S, place) = t
      BY <1>2, <1>3, <2>3
    <2>5. PICK j \in P : j = part[t]
      BY <1>5
    <2>6. candles[j] = Candle(S, place)
      BY <1>1, <2>1, <2>5
    <2>7. candles[j].close = chain[Last(S, place)].price
      BY <2>6 DEF Candle
    <2> QED BY <2>4, <2>5, <2>7
  <1> QED BY <1>3, <1>6, <1>7, <1>8, <1>9

(* One pass builds the one- and the five-minute series from one order of    *)
(* trades: over every whole wide bucket, the narrow candles add up to the   *)
(* wide one, for every pair of widths of which one divides the other.       *)
THEOREM SeriesStayInAgreement == Spec => []SeriesAgree
  <1>1. IInv => SeriesAgree
    <2> SUFFICES ASSUME IInv, NEW k \in DOMAIN candles, NEW narrow \in Intervals,
                        k[1] % narrow = 0, SlotsIn(stored, k) # {}, SlotsIn(stored, k) \subseteq built
                 PROVE  LET parts == Parts(k, narrow) IN
                          /\ candles[k].high = Max({candles[j].high : j \in parts})
                          /\ candles[k].low = Min({candles[j].low : j \in parts})
                          /\ candles[k].volume = SumFunction([j \in parts |-> candles[j].volume])
                          /\ candles[k].open = candles[CHOOSE j \in parts : \A i \in parts : j[2] <= i[2]].open
                          /\ candles[k].close = candles[CHOOSE j \in parts : \A i \in parts : i[2] <= j[2]].close
      BY Zenon DEF SeriesAgree, Parts
    <2>1. PICK place \in Orders(built) :
             /\ candles[k] = Candle(SlotsIn(stored, k), place)
             /\ Cut(SlotsIn(stored, k), Parts(k, narrow),
                    [s \in SlotsIn(stored, k) |-> PartOf(s, narrow)], place)
      BY BucketsAreCut
    <2>2. PICK A, P, part : /\ A = SlotsIn(stored, k) /\ P = Parts(k, narrow)
                            /\ part = [s \in SlotsIn(stored, k) |-> PartOf(s, narrow)]
      OBVIOUS
    <2>3. TypeOK /\ Cut(A, P, part, place) /\ candles[k] = Candle(A, place)
      BY <2>1, <2>2 DEF IInv
    <2>4. /\ candles[k].high = Max(PricesOf(A)) /\ candles[k].low = Min(PricesOf(A))
          /\ candles[k].volume = VolumeOf(A)
          /\ candles[k].open = chain[First(A, place)].price
          /\ candles[k].close = chain[Last(A, place)].price
      BY <2>3 DEF Candle
    <2>5. /\ candles[k].high = Max({candles[j].high : j \in P})
          /\ candles[k].low = Min({candles[j].low : j \in P})
      BY <2>3, <2>4, ExtremesByParts
    <2>6. candles[k].volume = SumFunction([j \in P |-> candles[j].volume])
      BY <2>3, <2>4, VolumeByParts
    <2>7. /\ candles[k].open = candles[CHOOSE j \in P : \A i \in P : j[2] <= i[2]].open
          /\ candles[k].close = candles[CHOOSE j \in P : \A i \in P : i[2] <= j[2]].close
      BY <2>3, <2>4, EndsByParts
    <2> QED BY <2>2, <2>5, <2>6, <2>7, Zenon
  <1> QED BY <1>1, Invariance, PTL
=============================================================================
