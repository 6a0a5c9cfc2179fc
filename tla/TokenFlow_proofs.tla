--------------------------- MODULE TokenFlow_proofs ---------------------------
(***************************************************************************)
(* That the amounts of a transaction reach the candles unharmed, for every *)
(* width of an amount, every number of accounts and every set of mints:    *)
(* decoding nets exactly, storing nets again without effect, and a trade   *)
(* is inferred exactly for opposite moves.                                 *)
(*                                                                         *)
(* The sums are folds over sets.  What they come to is shown by tables: a  *)
(* function that gives every subset a number that agrees with adding one   *)
(* more element is the sum.                                                *)
(***************************************************************************)
EXTENDS TokenFlow, FiniteSetTheorems, TLAPS

(* g gives the sum of f over every subset of S. *)
IsTable(g, f, S) ==
    /\ g \in [SUBSET S -> Int]
    /\ g[{}] = 0
    /\ \A T \in SUBSET S : \A x \in T : g[T] = f[x] + g[T \ {x}]

(* Of any family of subsets of a finite set, one has no smaller one in it. *)
LEMMA SmallestSubset ==
    ASSUME NEW S, IsFiniteSet(S), NEW F \in SUBSET SUBSET S, F # {}
    PROVE  \E T \in F : \A x \in T : T \ {x} \notin F
  <1> DEFINE R == StrictSubsetOrdering(S)
  <1>1. IsWellFoundedOn(R, SUBSET S)
    BY FS_StrictSubsetOrderingWellFounded, FS_FiniteSubsetsOfFinite
  <1>2. PICK T \in F : \A U \in F : <<U, T>> \notin R
    <2> HIDE DEF R
    <2> QED BY <1>1, WFMin
  <1>3. ASSUME NEW x \in T, T \ {x} \in F PROVE FALSE
    BY <1>2, <1>3 DEF StrictSubsetOrdering
  <1> QED BY <1>3

(* The sum of a function over a finite set has a table. *)
LEMMA TableExists ==
    ASSUME NEW S, IsFiniteSet(S), NEW f \in [S -> Int]
    PROVE  \E g : IsTable(g, f, S)
  <1> DEFINE F == {T \in SUBSET S : ~ \E g : IsTable(g, f, T)}
  <1>1. SUFFICES ASSUME F # {} PROVE FALSE
    OBVIOUS
  <1>2. PICK T \in F : \A x \in T : T \ {x} \notin F
    <2> HIDE DEF F
    <2>1. F \in SUBSET SUBSET S
      BY DEF F
    <2> QED BY <1>1, <2>1, SmallestSubset
  <1>3. CASE T = {}
    <2>1. IsTable([U \in SUBSET T |-> 0], f, T)
      BY <1>3 DEF IsTable
    <2> QED BY <2>1
  <1>4. CASE T # {}
    <2>1. PICK a \in T : TRUE
      BY <1>4
    <2>2. PICK g : IsTable(g, f, T \ {a})
      BY <1>2
    <2> DEFINE h == [U \in SUBSET T |-> IF a \in U THEN f[a] + g[U \ {a}] ELSE g[U]]
    <2>3. /\ T \subseteq S /\ f[a] \in Int
          /\ \A U \in SUBSET T : U \ {a} \in SUBSET (T \ {a})
          /\ \A U \in SUBSET T : a \notin U => U \in SUBSET (T \ {a})
      OBVIOUS
    <2>4. \A U \in SUBSET (T \ {a}) : g[U] \in Int
      BY <2>2 DEF IsTable
    <2>5. h \in [SUBSET T -> Int]
      BY <2>3, <2>4
    <2>6. h[{}] = 0
      BY <2>2 DEF IsTable
    <2>7. ASSUME NEW U \in SUBSET T, NEW x \in U PROVE h[U] = f[x] + h[U \ {x}]
      <3>1. h[U] = IF a \in U THEN f[a] + g[U \ {a}] ELSE g[U]
        OBVIOUS
      <3>2. h[U \ {x}] = IF a \in U \ {x} THEN f[a] + g[(U \ {x}) \ {a}] ELSE g[U \ {x}]
        OBVIOUS
      <3>3. f[x] \in Int
        BY <2>3
      <3>4. CASE x = a
        BY <3>1, <3>2, <3>4
      <3>5. CASE x # a /\ a \in U
        <4>1. (U \ {x}) \ {a} = (U \ {a}) \ {x} /\ x \in U \ {a}
          BY <3>5
        <4>2. g[U \ {a}] = f[x] + g[(U \ {a}) \ {x}]
          BY <2>2, <2>3, <4>1 DEF IsTable
        <4>3. g[(U \ {a}) \ {x}] \in Int
          BY <2>3, <2>4
        <4>4. h[U] = f[a] + (f[x] + g[(U \ {a}) \ {x}])
          BY <3>1, <3>5, <4>2
        <4>5. h[U \ {x}] = f[a] + g[(U \ {a}) \ {x}]
          BY <3>2, <3>5, <4>1
        <4> HIDE DEF h
        <4> QED BY <2>3, <3>3, <4>3, <4>4, <4>5
      <3>6. CASE a \notin U
        <4>1. g[U] = f[x] + g[U \ {x}]
          BY <2>2, <2>3, <3>6 DEF IsTable
        <4> QED BY <3>1, <3>2, <3>6, <4>1
      <3> QED BY <3>4, <3>5, <3>6
    <2>8. IsTable(h, f, T)
      <3> HIDE DEF h
      <3> QED BY <2>5, <2>6, <2>7 DEF IsTable
    <2> QED BY <2>8
  <1> QED BY <1>3, <1>4

(* The fold of SumFunction, whatever order it takes the elements in, is what *)
(* a table says.                                                             *)
LEMMA SumIsTable ==
    ASSUME NEW S, IsFiniteSet(S), NEW f, DOMAIN f = S, NEW g, IsTable(g, f, S)
    PROVE  SumFunction(f) = g[S]
  <1> DEFINE Pick(T) == CHOOSE x \in T : TRUE
             Folds(h) == h = [T \in SUBSET S |->
                                IF T = {} THEN 0 ELSE f[Pick(T)] + h[T \ {Pick(T)}]]
  <1>1. PICK h : /\ SumFunction(f) = h[S]
                 /\ h = CHOOSE k : Folds(k)
    BY Zenon DEF SumFunction, SumFunctionOnSet, FoldFunctionOnSet, MapThenFoldSet
  <1>2. \A T \in SUBSET S : T # {} => Pick(T) \in T
    OBVIOUS
  <1> HIDE DEF Pick
  <1>3. Folds(g)
    <2>1. \A T \in SUBSET S :
             g[T] = IF T = {} THEN 0 ELSE f[Pick(T)] + g[T \ {Pick(T)}]
      BY <1>2 DEF IsTable
    <2>2. g = [T \in SUBSET S |-> g[T]]
      BY DEF IsTable
    <2> QED BY <2>1, <2>2
  <1>4. Folds(h)
    <2> HIDE DEF Folds
    <2> QED BY <1>1, <1>3, Zenon
  <1>5. \A T \in SUBSET S :
           h[T] = IF T = {} THEN 0 ELSE f[Pick(T)] + h[T \ {Pick(T)}]
    BY <1>4
  <1> DEFINE F == {T \in SUBSET S : h[T] # g[T]}
  <1>6. F = {}
    <2> SUFFICES ASSUME F # {} PROVE FALSE
      OBVIOUS
    <2>1. PICK T \in F : \A x \in T : T \ {x} \notin F
      <3> HIDE DEF F
      <3>1. F \in SUBSET SUBSET S
        BY DEF F
      <3> QED BY <3>1, SmallestSubset
    <2>2. T # {}
      BY <1>5 DEF IsTable
    <2>3. Pick(T) \in T /\ T \in SUBSET S
      BY <1>2, <2>2
    <2>4. h[T] = f[Pick(T)] + h[T \ {Pick(T)}]
      BY <1>5, <2>2
    <2>5. g[T] = f[Pick(T)] + g[T \ {Pick(T)}]
      BY <2>3 DEF IsTable
    <2>6. h[T \ {Pick(T)}] = g[T \ {Pick(T)}]
      BY <2>1, <2>3
    <2> QED BY <2>4, <2>5, <2>6
  <1> QED BY <1>1, <1>6

(* Sums of integers are integers; of nothing, 0; of one number, that number. *)
LEMMA SumIsInt ==
    ASSUME NEW S, IsFiniteSet(S), NEW f \in [S -> Int]
    PROVE  SumFunction(f) \in Int
  <1>1. PICK g : IsTable(g, f, S)
    BY TableExists
  <1>2. SumFunction(f) = g[S]
    BY <1>1, SumIsTable
  <1> QED BY <1>1, <1>2 DEF IsTable

LEMMA SumOfNone ==
    ASSUME NEW f, DOMAIN f = {}
    PROVE  SumFunction(f) = 0
  <1>1. IsTable([U \in SUBSET {} |-> 0], f, {})
    BY DEF IsTable
  <1>2. IsFiniteSet({})
    BY FS_EmptySet
  <1>3. SumFunction(f) = [U \in SUBSET {} |-> 0][{}]
    BY <1>1, <1>2, SumIsTable
  <1> QED BY <1>3

LEMMA SumOfOne ==
    ASSUME NEW x, NEW f, DOMAIN f = {x}, f[x] \in Int
    PROVE  SumFunction(f) = f[x]
  <1> DEFINE g == [U \in SUBSET {x} |-> IF U = {} THEN 0 ELSE f[x]]
  <1>1. IsTable(g, f, {x})
    <2>1. ASSUME NEW U \in SUBSET {x}, NEW y \in U PROVE g[U] = f[y] + g[U \ {y}]
      <3>1. y = x /\ U = {x} /\ U \ {y} = {}
        OBVIOUS
      <3>2. g[{x}] = f[x] /\ g[{}] = 0
        OBVIOUS
      <3> QED BY <3>1, <3>2
    <2> QED BY <2>1 DEF IsTable
  <1>2. IsFiniteSet({x})
    BY FS_Singleton
  <1>3. SumFunction(f) = g[{x}]
    <2> HIDE DEF g
    <2> QED BY <1>1, <1>2, SumIsTable
  <1> QED BY <1>3

(* Two lists are subtracted element by element, an element that is missing   *)
(* from one counting as 0 there: the difference of their sums.               *)
LEMMA SumOfDifferences ==
    ASSUME NEW A, IsFiniteSet(A), NEW B \in SUBSET A, NEW C \in SUBSET A,
           NEW p \in [B -> Int], NEW q \in [C -> Int], NEW d \in [A -> Int],
           \A i \in A : d[i] = (IF i \in B THEN p[i] ELSE 0) - (IF i \in C THEN q[i] ELSE 0)
    PROVE  SumFunction(d) = SumFunction(p) - SumFunction(q)
  <1>1. IsFiniteSet(B) /\ IsFiniteSet(C)
    BY FS_Subset
  <1>2. PICK g : IsTable(g, p, B)
    BY <1>1, TableExists
  <1>3. PICK h : IsTable(h, q, C)
    BY <1>1, TableExists
  <1> DEFINE t == [T \in SUBSET A |-> g[T \cap B] - h[T \cap C]]
  <1>4. \A T \in SUBSET A : g[T \cap B] \in Int /\ h[T \cap C] \in Int
    BY <1>2, <1>3 DEF IsTable
  <1>5. ASSUME NEW T \in SUBSET A, NEW x \in T PROVE t[T] = d[x] + t[T \ {x}]
    <2>1. /\ t[T] = g[T \cap B] - h[T \cap C]
          /\ t[T \ {x}] = g[(T \ {x}) \cap B] - h[(T \ {x}) \cap C]
      OBVIOUS
    <2> DEFINE u == IF x \in B THEN p[x] ELSE 0
               v == IF x \in C THEN q[x] ELSE 0
    <2>2. u \in Int /\ v \in Int /\ d[x] = u - v
      OBVIOUS
    <2>3. g[T \cap B] = u + g[(T \ {x}) \cap B]
      <3>1. CASE x \in B
        <4>1. (T \ {x}) \cap B = (T \cap B) \ {x} /\ x \in T \cap B
          BY <3>1
        <4> QED BY <1>2, <3>1, <4>1 DEF IsTable
      <3>2. CASE x \notin B
        <4>1. (T \ {x}) \cap B = T \cap B /\ u = 0
          BY <3>2
        <4>2. g[T \cap B] \in Int
          BY <1>4
        <4>3. \A n \in Int : n = 0 + n
          OBVIOUS
        <4> HIDE DEF u
        <4> QED BY <4>1, <4>2, <4>3, Zenon
      <3> QED BY <3>1, <3>2
    <2>4. h[T \cap C] = v + h[(T \ {x}) \cap C]
      <3>1. CASE x \in C
        <4>1. (T \ {x}) \cap C = (T \cap C) \ {x} /\ x \in T \cap C
          BY <3>1
        <4> QED BY <1>3, <3>1, <4>1 DEF IsTable
      <3>2. CASE x \notin C
        <4>1. (T \ {x}) \cap C = T \cap C /\ v = 0
          BY <3>2
        <4>2. h[T \cap C] \in Int
          BY <1>4
        <4>3. \A n \in Int : n = 0 + n
          OBVIOUS
        <4> HIDE DEF v
        <4> QED BY <4>1, <4>2, <4>3, Zenon
      <3> QED BY <3>1, <3>2
    <2>5. g[(T \ {x}) \cap B] \in Int /\ h[(T \ {x}) \cap C] \in Int
      BY <1>4
    <2> HIDE DEF t, u, v
    <2> QED BY <2>1, <2>2, <2>3, <2>4, <2>5
  <1>6. IsTable(t, d, A)
    <2>1. t \in [SUBSET A -> Int]
      <3>1. \A T \in SUBSET A : g[T \cap B] - h[T \cap C] \in Int
        <4>1. \A m, n \in Int : m - n \in Int
          OBVIOUS
        <4> QED BY <1>4, <4>1, Zenon
      <3> QED BY <3>1, Zenon
    <2>2. t[{}] = 0
      <3>1. {} \cap B = {} /\ {} \cap C = {} /\ {} \in SUBSET A
        OBVIOUS
      <3> QED BY <1>2, <1>3, <3>1 DEF IsTable
    <2> HIDE DEF t
    <2> QED BY <1>5, <2>1, <2>2 DEF IsTable
  <1>7. SumFunction(d) = t[A] /\ SumFunction(p) = g[B] /\ SumFunction(q) = h[C]
    <2> HIDE DEF t
    <2> QED BY <1>1, <1>2, <1>3, <1>6, SumIsTable
  <1>8. A \cap B = B /\ A \cap C = C
    OBVIOUS
  <1> QED BY <1>7, <1>8

-----------------------------------------------------------------------------
(* The amounts there are: 2^Width, which is a positive number.              *)
LEMMA WidthLeavesAmounts == 2^Width \in Nat /\ 2^Width > 0
  <1> DEFINE S == 1..Width
  <1>1. IsFiniteSet(S) /\ Cardinality(S) = Width
    BY FlowAssumption, FS_Interval
  <1>2. IsFiniteSet(SUBSET S) /\ Cardinality(SUBSET S) = 2^Width
    <2> HIDE DEF S
    <2> QED BY <1>1, FS_SUBSET
  <1>3. SUBSET S # {}
    OBVIOUS
  <1>4. 2^Width \in Nat /\ 2^Width # 0
    <2> HIDE DEF S
    <2> QED BY <1>2, <1>3, FS_CardinalityType, FS_EmptySet
  <1> QED BY <1>4

(* What a change must stay within for the cast back to Width bits to be exact. *)
Changes == {n \in Int : n < 2^Width /\ -n < 2^Width}

(* The row of a change within Width bits has exactly that change. *)
LEMMA RowIsExact ==
    ASSUME NEW m, NEW n \in Changes
    PROVE  NetRow(m, n).mint = m /\ Delta(NetRow(m, n)) = n
  <1>1. 2^Width \in Nat /\ 2^Width > 0
    BY WidthLeavesAmounts
  <1>2. \A a \in Nat, b \in Nat \ {0} : a < b => a % b = a
    OBVIOUS
  <1>3. CASE n > 0
    <2>1. AsUnsigned(n) = n
      BY <1>1, <1>2, <1>3 DEF AsUnsigned, Changes
    <2> QED BY <1>3, <2>1 DEF NetRow, Delta, Changes
  <1>4. CASE ~(n > 0)
    <2>1. n \in Int /\ -n \in Nat /\ -n < 2^Width
      BY <1>4 DEF Changes
    <2>2. AsUnsigned(-n) = -n
      BY <1>1, <1>2, <2>1 DEF AsUnsigned
    <2> QED BY <1>4, <2>1, <2>2 DEF NetRow, Delta
  <1> QED BY <1>3, <1>4

(* A mint that changes has one row, which says by how much; another has none. *)
LEMMA RowsOfMint ==
    ASSUME NEW net \in [Mints -> Changes], NEW m \in Mints
    PROVE  {r \in Coalesced(net) : r.mint = m}
             = IF net[m] = 0 THEN {} ELSE {NetRow(m, net[m])}
  <1>1. \A k \in Mints : net[k] \in Changes
    OBVIOUS
  <1>2. \A k \in Mints : NetRow(k, net[k]).mint = k
    BY <1>1, RowIsExact
  <1> QED BY <1>2 DEF Coalesced

(* Netting the netted rows again gives the same net. *)
LEMMA NettingTwice ==
    ASSUME NEW net \in [Mints -> Changes]
    PROVE  NetOfRows(Coalesced(net)) = net
  <1>1. ASSUME NEW m \in Mints PROVE NetOfRows(Coalesced(net))[m] = net[m]
    <2> DEFINE of == {x \in Coalesced(net) : x.mint = m}
               f == [r \in of |-> r.post - r.pre]
    <2>1. NetOfRows(Coalesced(net))[m] = SumFunction(f)
      BY DEF NetOfRows
    <2>2. net[m] \in Changes /\ net[m] \in Int
      BY DEF Changes
    <2>3. CASE net[m] = 0
      <3>1. DOMAIN f = {}
        BY <2>3, RowsOfMint
      <3> HIDE DEF f
      <3> QED BY <2>1, <2>3, <3>1, SumOfNone
    <2>4. CASE net[m] # 0
      <3> DEFINE r == NetRow(m, net[m])
      <3>1. of = {r}
        BY <2>4, RowsOfMint
      <3>2. r.post - r.pre = net[m]
        BY <2>2, RowIsExact DEF Delta
      <3> HIDE DEF r, of
      <3>3. DOMAIN f = {r} /\ f[r] = net[m]
        BY <3>1, <3>2
      <3> HIDE DEF f
      <3> QED BY <2>1, <2>2, <3>3, SumOfOne
    <2> QED BY <2>3, <2>4
  <1>2. NetOfRows(Coalesced(net)) = [m \in Mints |-> NetOfRows(Coalesced(net))[m]]
    BY DEF NetOfRows
  <1>3. net = [m \in Mints |-> net[m]]
    OBVIOUS
  <1> QED BY <1>1, <1>2, <1>3

(* Nothing netted is nothing, for a transaction whose rows were dropped. *)
LEMMA NettingNothing == Coalesced(NetOfRows({})) = {}
  <1>1. ASSUME NEW m \in Mints PROVE NetOfRows({})[m] = 0
    <2> DEFINE f == [r \in {x \in {} : x.mint = m} |-> r.post - r.pre]
    <2>1. DOMAIN f = {}
      OBVIOUS
    <2>2. SumFunction(f) = 0
      <3> HIDE DEF f
      <3> QED BY <2>1, SumOfNone
    <2> QED BY <2>2 DEF NetOfRows
  <1> QED BY <1>1 DEF Coalesced

-----------------------------------------------------------------------------
(* An account keeps its mint, so the accounts a mint's net is summed over    *)
(* are those that hold it before or after.                                   *)
LEMMA NetIsHoldings ==
    ASSUME tx \in RawTx, MintsKept, NEW m \in Mints
    PROVE  NetOfTx(tx)[m] = Holdings(tx.post, m) - Holdings(tx.pre, m)
  <1> DEFINE A == {k \in Touched(tx) : AccountChange(tx, k).mint = m}
             B == {k \in Indices : tx.post[k] # Absent /\ tx.post[k].mint = m}
             C == {k \in Indices : tx.pre[k] # Absent /\ tx.pre[k].mint = m}
             d == [i \in A |-> AccountChange(tx, i).post - AccountChange(tx, i).pre]
             p == [i \in B |-> tx.post[i].amount]
             q == [i \in C |-> tx.pre[i].amount]
  <1>1. \A i \in Indices : /\ tx.pre[i] # Absent => tx.pre[i] \in [mint : Mints, amount : Amounts]
                           /\ tx.post[i] # Absent => tx.post[i] \in [mint : Mints, amount : Amounts]
    BY DEF RawTx, Balance
  <1>2. Amounts \subseteq Int
    BY DEF Amounts
  <1>3. \A i \in Touched(tx) : AccountChange(tx, i).mint
             = IF tx.post[i] # Absent THEN tx.post[i].mint ELSE tx.pre[i].mint
    BY DEF AccountChange
  <1>4. B \in SUBSET A /\ C \in SUBSET A /\ A \subseteq Indices
    BY <1>3 DEF Touched, MintsKept
  <1>5. ASSUME NEW i \in A
        PROVE  /\ AccountChange(tx, i).post = IF i \in B THEN p[i] ELSE 0
               /\ AccountChange(tx, i).pre = IF i \in C THEN q[i] ELSE 0
    BY <1>3 DEF AccountChange, Touched, MintsKept
  <1>6. p \in [B -> Int] /\ q \in [C -> Int]
    BY <1>1, <1>2
  <1>7. d \in [A -> Int] /\ \A i \in A : d[i] = (IF i \in B THEN p[i] ELSE 0) - (IF i \in C THEN q[i] ELSE 0)
    <2> HIDE DEF A, B, C, p, q
    <2> QED BY <1>5, <1>6
  <1>8. IsFiniteSet(A)
    BY <1>4, FlowAssumption, FS_Subset
  <1>9. SumFunction(d) = SumFunction(p) - SumFunction(q)
    <2> HIDE DEF A, B, C, d, p, q
    <2> QED BY <1>4, <1>6, <1>7, <1>8, SumOfDifferences
  <1> QED BY <1>9 DEF NetOfTx, Holdings

(* Within the supply, no net needs more than Width bits and a sign. *)
LEMMA NetWithinWidth ==
    ASSUME tx \in RawTx, MintsKept, WithinSupply
    PROVE  NetOfTx(tx) \in [Mints -> Changes]
  <1>1. \A a, b \in Amounts : a - b \in Changes
    BY WidthLeavesAmounts DEF Amounts, Changes
  <1>2. \A m \in Mints : NetOfTx(tx)[m] \in Changes
    BY <1>1, NetIsHoldings, Zenon DEF WithinSupply
  <1>3. NetOfTx(tx) = [m \in Mints |-> NetOfTx(tx)[m]]
    BY DEF NetOfTx
  <1> QED BY <1>2, <1>3

(* What the rows are at every stage, wherever the sums stay within Width bits. *)
FlowInv ==
    /\ tx \in RawTx
    /\ stage = "decoded" => rows = Coalesced(NetOfTx(tx))
    /\ stage = "parsed" => rows = IF tx.failed THEN {} ELSE Coalesced(NetOfTx(tx))
    /\ StoredAsDecoded
    /\ stage = "inferred" => trades = InferTrades(rows)

LEMMA StepFlowInv == ASSUME FlowInv, [Next]_vars PROVE FlowInv'
  <1>1. CASE Decode
    BY <1>1 DEF Decode, FlowInv, StoredAsDecoded
  <1>2. CASE Parse
    BY <1>2 DEF Parse, FlowInv, StoredAsDecoded
  <1>3. CASE Store
    <2>1. tx' = tx /\ stage' \in {"stored", "rejected"}
      BY <1>3 DEF Store
    <2>2. stage' = "stored" => rows' = Coalesced(NetOfRows(rows))
      BY <1>3 DEF Store
    <2>3. rows = IF tx.failed THEN {} ELSE Coalesced(NetOfTx(tx))
      BY <1>3 DEF Store, FlowInv
    <2>4. (WithinSupply /\ MintsKept) => Coalesced(NetOfRows(rows)) = rows
      <3>1. SUFFICES ASSUME WithinSupply, MintsKept PROVE Coalesced(NetOfRows(rows)) = rows
        OBVIOUS
      <3>2. NetOfTx(tx) \in [Mints -> Changes]
        BY <3>1, NetWithinWidth DEF FlowInv
      <3> QED BY <2>3, <3>2, NettingTwice, NettingNothing
    <2>5. WithinSupply' = WithinSupply /\ MintsKept' = MintsKept
      BY <2>1 DEF WithinSupply, MintsKept
    <2>6. StoredAsDecoded'
      BY <2>1, <2>2, <2>3, <2>4, <2>5 DEF StoredAsDecoded
    <2> QED BY <2>1, <2>6 DEF FlowInv
  <1>4. CASE Infer
    <2>1. tx' = tx /\ rows' = rows /\ stage = "stored" /\ stage' = "inferred"
      BY <1>4 DEF Infer
    <2>2. WithinSupply' = WithinSupply /\ MintsKept' = MintsKept
      BY <2>1 DEF WithinSupply, MintsKept
    <2>3. StoredAsDecoded'
      BY <2>1, <2>2 DEF StoredAsDecoded, FlowInv
    <2> QED BY <1>4, <2>1, <2>3 DEF Infer, FlowInv
  <1>5. CASE UNCHANGED vars
    BY <1>5 DEF vars, FlowInv, StoredAsDecoded, WithinSupply, MintsKept
  <1> QED BY <1>1, <1>2, <1>3, <1>4, <1>5 DEF Next

THEOREM Invariance == Spec => []FlowInv
  <1>1. Init => FlowInv
    BY FlowAssumption DEF Init, FlowInv, StoredAsDecoded
  <1> QED BY <1>1, StepFlowInv, PTL DEF Spec

(* coalesce_token_deltas loses nothing: the row of a mint is the exact       *)
(* change of what the transaction's accounts hold of it, for every width,    *)
(* any number of accounts, opened and closed ones included.                  *)
THEOREM NettingIsExact == Spec => []NetIsExact
  <1>1. FlowInv => NetIsExact
    <2> SUFFICES ASSUME FlowInv, stage = "decoded", WithinSupply, MintsKept, NEW m \in Mints
                 PROVE  LET of == {r \in rows : r.mint = m}
                            change == Holdings(tx.post, m) - Holdings(tx.pre, m)
                        IN  IF change = 0 THEN of = {} ELSE {Delta(r) : r \in of} = {change}
      BY DEF NetIsExact
    <2>1. NetOfTx(tx) \in [Mints -> Changes] /\ rows = Coalesced(NetOfTx(tx))
      BY NetWithinWidth DEF FlowInv
    <2>2. NetOfTx(tx)[m] = Holdings(tx.post, m) - Holdings(tx.pre, m)
      BY NetIsHoldings DEF FlowInv
    <2>3. Delta(NetRow(m, NetOfTx(tx)[m])) = NetOfTx(tx)[m]
      BY <2>1, RowIsExact
    <2> QED BY <2>1, <2>2, <2>3, RowsOfMint
  <1> QED BY <1>1, Invariance, PTL

(* Storing nets the rows once more, and changes nothing: what is read back   *)
(* for a successful transaction is what was decoded.                         *)
THEOREM StoredIsDecoded == Spec => []StoredAsDecoded
  <1>1. FlowInv => StoredAsDecoded
    BY DEF FlowInv
  <1> QED BY <1>1, Invariance, PTL

(* A trade of a mint needs its row and that of wrapped SOL.                  *)
LEMMA TradeNeedsRows ==
    ASSUME NEW R, NEW m
    PROVE  (\E t \in InferTrades(R) : t.mint = m) <=>
              \E r, s \in R : /\ r.mint = m /\ m # Wsol /\ s.mint = Wsol
                              /\ Opposite(r, s) /\ Delta(s) # 0 /\ Abs(Delta(s)) >= Dust
  <1> DEFINE Trade(r, s) == [mint |-> r.mint, sol |-> Abs(Delta(s)), tokens |-> Abs(Delta(r))]
             Sols == {x \in R : x.mint = Wsol /\ Delta(x) # 0 /\ Abs(Delta(x)) >= Dust}
             Others(s) == {x \in R : x.mint # Wsol /\ Opposite(x, s)}
  <1>1. \A t : t \in InferTrades(R) <=> \E s \in Sols : \E r \in Others(s) : t = Trade(r, s)
    BY DEF InferTrades
  <1>2. \A r, s : Trade(r, s).mint = r.mint
    OBVIOUS
  <1> HIDE DEF Trade
  <1>3. (\E t \in InferTrades(R) : t.mint = m)
            <=> \E s \in Sols : \E r \in Others(s) : r.mint = m
    <2> HIDE DEF Sols, Others
    <2>1. ASSUME NEW t \in InferTrades(R), t.mint = m
          PROVE  \E s \in Sols : \E r \in Others(s) : r.mint = m
      BY <1>1, <1>2, <2>1
    <2>2. ASSUME NEW s \in Sols, NEW r \in Others(s), r.mint = m
          PROVE  Trade(r, s) \in InferTrades(R) /\ Trade(r, s).mint = m
      BY <1>1, <1>2, <2>2
    <2> QED BY <2>1, <2>2
  <1> QED BY <1>3

(* Two integers with a negative product have opposite signs. *)
LEMMA OppositeSigns ==
    \A a, b \in Int : a * b < 0 <=> (a # 0 /\ b # 0 /\ ((a > 0) # (b > 0)))
  OBVIOUS

(* infer_trades finds the swaps, and only those: a mint is traded exactly    *)
(* when its holdings and those of wrapped SOL moved in opposite directions   *)
(* and the latter by no less than dust, in a transaction that succeeded.     *)
THEOREM SwapsAreTraded == Spec => []TradesAreSwaps
  <1>1. FlowInv => TradesAreSwaps
    <2> DEFINE change(k) == Holdings(tx.post, k) - Holdings(tx.pre, k)
    <2> SUFFICES ASSUME FlowInv, stage = "inferred", WithinSupply, MintsKept,
                        NEW m \in Mints \ {Wsol}
                 PROVE  (\E t \in trades : t.mint = m)
                          <=> /\ ~tx.failed
                              /\ change(m) * change(Wsol) < 0
                              /\ Abs(change(Wsol)) >= Dust
      BY DEF TradesAreSwaps
    <2>1. /\ trades = InferTrades(rows)
          /\ rows = IF tx.failed THEN {} ELSE Coalesced(NetOfTx(tx))
      BY DEF FlowInv, StoredAsDecoded
    <2>2. CASE tx.failed
      <3>1. rows = {} /\ trades = InferTrades(rows)
        BY <2>1, <2>2
      <3>2. ~ \E t \in trades : t.mint = m
        BY <3>1, TradeNeedsRows
      <3> QED BY <2>2, <3>2
    <2>3. CASE ~tx.failed
      <3> DEFINE net == NetOfTx(tx)
                 row(k) == NetRow(k, net[k])
      <3>1. net \in [Mints -> Changes] /\ Wsol \in Mints /\ m \in Mints /\ m # Wsol
        BY NetWithinWidth, FlowAssumption DEF FlowInv
      <3>2. \A k \in Mints : net[k] = change(k)
        BY NetIsHoldings DEF FlowInv
      <3>3. \A k \in Mints : net[k] \in Changes /\ net[k] \in Int
        BY <3>1 DEF Changes
      <3>4. \A k \in Mints : {r \in rows : r.mint = k} = IF net[k] = 0 THEN {} ELSE {row(k)}
        BY <2>1, <2>3, <3>1, RowsOfMint
      <3>5. \A k \in Mints : Delta(row(k)) = net[k]
        BY <3>3, RowIsExact
      <3> HIDE DEF net, row, change
      <3>6. (\E t \in trades : t.mint = m) <=>
              \E r \in {x \in rows : x.mint = m}, s \in {x \in rows : x.mint = Wsol} :
                 Opposite(r, s) /\ Delta(s) # 0 /\ Abs(Delta(s)) >= Dust
        BY <2>1, <3>1, TradeNeedsRows
      <3>7. (\E t \in trades : t.mint = m) <=>
              /\ net[m] # 0 /\ net[Wsol] # 0
              /\ Opposite(row(m), row(Wsol)) /\ Abs(net[Wsol]) >= Dust
        BY <3>1, <3>4, <3>5, <3>6
      <3>8. Opposite(row(m), row(Wsol)) <=> net[m] # 0 /\ ((net[m] > 0) # (net[Wsol] > 0))
        BY <3>1, <3>5 DEF Opposite
      <3>9. net[m] * net[Wsol] < 0
              <=> net[m] # 0 /\ net[Wsol] # 0 /\ ((net[m] > 0) # (net[Wsol] > 0))
        BY <3>1, <3>3, OppositeSigns
      <3>10. change(m) = net[m] /\ change(Wsol) = net[Wsol]
        BY <3>1, <3>2
      <3>11. (\E t \in trades : t.mint = m) <=> net[m] * net[Wsol] < 0 /\ Abs(net[Wsol]) >= Dust
        BY <3>7, <3>8, <3>9, Zenon
      <3> QED BY <2>3, <3>10, <3>11
    <2> QED BY <2>2, <2>3
  <1> QED BY <1>1, Invariance, PTL
=============================================================================
