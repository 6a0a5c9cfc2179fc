------------------------- MODULE AccountLocks_proofs -------------------------
(***************************************************************************)
(* What resolve_account_locks yields for every number of keys and every    *)
(* header, also one that cannot be true: the slices cut by the header's    *)
(* counts part the static keys, whatever the counts are.                   *)
(***************************************************************************)
EXTENDS AccountLocks, FiniteSetTheorems, TLAPS

\* The keys from a to b, as a set.
Elements(s) == {s[i] : i \in DOMAIN s}

Count(t) == t.static + t.loadedWritable + t.loadedReadonly

-----------------------------------------------------------------------------
(* Slices.                                                                 *)

\* The keys after a, up to b.
After(a, b) == [i \in 1..(b - a) |-> a + i]

LEMMA AfterIsSlice ==
  ASSUME NEW a \in Nat, NEW b \in Nat, a <= b
  PROVE  KeysFrom(a + 1, b) = After(a, b)
  <1>1. SaturatingSub(b + 1, a + 1) = b - a
    BY DEF SaturatingSub
  <1>2. \A i \in 1..(b - a) : (a + 1) + i - 1 = a + i
    OBVIOUS
  <1> QED BY <1>1, <1>2, Zenon DEF KeysFrom, After

LEMMA AllIsSlice == ASSUME NEW b \in Nat PROVE KeysFrom(1, b) = After(0, b)
  <1>1. SaturatingSub(b + 1, 1) = b /\ b - 0 = b
    BY DEF SaturatingSub
  <1>2. \A i \in 1..b : 1 + i - 1 = 0 + i
    OBVIOUS
  <1> QED BY <1>1, <1>2, Zenon DEF KeysFrom, After

\* A slice holds its keys in order.
LEMMA KeysOfSlice ==
  ASSUME NEW a \in Nat, NEW b \in Nat, a <= b
  PROVE  /\ After(a, b) \in Seq(Nat)
         /\ Len(After(a, b)) = b - a
         /\ \A i \in 1..(b - a) : After(a, b)[i] = a + i
         /\ Elements(After(a, b)) = (a + 1)..b
  <1>1. /\ After(a, b) \in Seq(Nat)
        /\ Len(After(a, b)) = b - a
        /\ DOMAIN After(a, b) = 1..(b - a)
        /\ \A i \in 1..(b - a) : After(a, b)[i] = a + i
    BY DEF After
  <1>2. ASSUME NEW k \in (a + 1)..b PROVE k \in Elements(After(a, b))
    <2>1. k - a \in 1..(b - a) /\ k = a + (k - a)
      OBVIOUS
    <2> QED BY <1>1, <2>1 DEF Elements
  <1>3. ASSUME NEW k \in Elements(After(a, b)) PROVE k \in (a + 1)..b
    BY <1>1 DEF Elements
  <1> QED BY <1>1, <1>2, <1>3

\* All keys are the slice after 0.
LEMMA FirstKeys ==
  ASSUME NEW b \in Nat
  PROVE  /\ After(0, b) \in Seq(Nat)
         /\ Len(After(0, b)) = b
         /\ \A i \in 1..b : After(0, b)[i] = i
         /\ Elements(After(0, b)) = 1..b
  <1>1. After(0, b) = [i \in 1..b |-> i]
    <2>1. b - 0 = b /\ \A i \in 1..b : 0 + i = i
      OBVIOUS
    <2> QED BY <2>1, Zenon DEF After
  <1>2. Elements(After(0, b)) = 1..b
    BY <1>1, Zenon DEF Elements
  <1> QED BY <1>1, <1>2

\* A part of a slice is a slice.
LEMMA SliceOfSlice ==
  ASSUME NEW n \in Nat
  PROVE  \A a, b \in Nat : a <= b /\ b <= n => SubSeq(After(0, n), a + 1, b) = After(a, b)
  <1> SUFFICES ASSUME NEW a \in Nat, NEW b \in Nat, a <= b, b <= n
               PROVE  SubSeq(After(0, n), a + 1, b) = After(a, b)
    OBVIOUS
  <1> DEFINE s == After(0, n)
  <1>1. s \in Seq(Nat) /\ Len(s) = n /\ \A i \in 1..n : s[i] = i
    BY FirstKeys
  <1> HIDE DEF s
  <1>2. SubSeq(s, a + 1, b) = [i \in 1..(b - a) |-> s[a + i]]
    BY <1>1
  <1>3. \A i \in 1..(b - a) : s[a + i] = a + i
    BY <1>1
  <1>4. SubSeq(s, a + 1, b) = After(a, b)
    BY <1>2, <1>3, Zenon DEF After
  <1> QED BY <1>4 DEF s

\* What is in two sequences one after the other.
LEMMA ElementsOfConcat ==
  ASSUME NEW S, NEW s \in Seq(S), NEW t \in Seq(S)
  PROVE  /\ s \o t \in Seq(S) /\ Len(s \o t) = Len(s) + Len(t)
         /\ Elements(s \o t) = Elements(s) \cup Elements(t)
  <1>1. /\ s \o t \in Seq(S) /\ Len(s \o t) = Len(s) + Len(t)
        /\ \A i \in 1..(Len(s) + Len(t)) :
             (s \o t)[i] = IF i <= Len(s) THEN s[i] ELSE t[i - Len(s)]
    OBVIOUS
  <1>2. Len(s) \in Nat /\ Len(t) \in Nat /\ DOMAIN s = 1..Len(s) /\ DOMAIN t = 1..Len(t)
    OBVIOUS
  <1>3. DOMAIN (s \o t) = 1..(Len(s) + Len(t))
    BY <1>1
  <1>4. ASSUME NEW x \in Elements(s \o t) PROVE x \in Elements(s) \cup Elements(t)
    <2>1. PICK i \in 1..(Len(s) + Len(t)) : x = (s \o t)[i]
      BY <1>3 DEF Elements
    <2>2. CASE i <= Len(s)
      BY <1>1, <1>2, <2>1, <2>2 DEF Elements
    <2>3. CASE ~(i <= Len(s))
      <3>1. i - Len(s) \in 1..Len(t) /\ x = t[i - Len(s)]
        BY <1>1, <1>2, <2>1, <2>3
      <3> QED BY <1>2, <3>1 DEF Elements
    <2> QED BY <2>2, <2>3
  <1>5. ASSUME NEW x \in Elements(s) PROVE x \in Elements(s \o t)
    <2>1. PICK i \in 1..Len(s) : x = s[i]
      BY <1>2 DEF Elements
    <2>2. i \in 1..(Len(s) + Len(t)) /\ (s \o t)[i] = x
      BY <1>1, <1>2, <2>1
    <2> QED BY <1>3, <2>2 DEF Elements
  <1>6. ASSUME NEW x \in Elements(t) PROVE x \in Elements(s \o t)
    <2>1. PICK i \in 1..Len(t) : x = t[i]
      BY <1>2 DEF Elements
    <2>2. i + Len(s) \in 1..(Len(s) + Len(t)) /\ (s \o t)[i + Len(s)] = x
      BY <1>1, <1>2, <2>1
    <2> QED BY <1>3, <2>2 DEF Elements
  <1> QED BY <1>1, <1>4, <1>5, <1>6

\* What is in a sequence of locks.
LEMMA ElementsOfLocks ==
  ASSUME NEW keys \in Seq(Nat), NEW w \in BOOLEAN
  PROVE  /\ Locks(keys, w) \in Seq([account : Nat, writable : BOOLEAN])
         /\ Len(Locks(keys, w)) = Len(keys)
         /\ Elements(Locks(keys, w)) = {[account |-> k, writable |-> w] : k \in Elements(keys)}
  <1>1. DOMAIN keys = 1..Len(keys) /\ Len(keys) \in Nat
    OBVIOUS
  <1>2. /\ Locks(keys, w) \in Seq([account : Nat, writable : BOOLEAN])
        /\ Len(Locks(keys, w)) = Len(keys)
    BY <1>1 DEF Locks
  <1>3. Elements(Locks(keys, w)) = {[account |-> k, writable |-> w] : k \in Elements(keys)}
    BY <1>1, Zenon DEF Elements, Locks
  <1> QED BY <1>2, <1>3

-----------------------------------------------------------------------------
(* The split.                                                              *)

\* Three cuts part the static keys, whatever the header says.
LEMMA Cuts ==
  ASSUME NEW t \in Transactions
  PROVE  LET w == AtMost(SignedWritable(t), t.static)
             e == SignedEnd(t)
             u == UnsignedWritableEnd(t)
         IN  /\ w \in Nat /\ e \in Nat /\ u \in Nat /\ t.static \in Nat
             /\ w <= e /\ e <= u /\ u <= t.static
             /\ StaticWritable(t) = After(0, w) \o After(e, u)
             /\ StaticReadonly(t) = After(w, e) \o After(u, t.static)
  <1> DEFINE w == AtMost(SignedWritable(t), t.static)
             e == SignedEnd(t)
             u == UnsignedWritableEnd(t)
  <1>1. /\ t.static \in Nat /\ t.header.signatures \in Nat
        /\ t.header.readonlySigned \in Nat /\ t.header.readonlyUnsigned \in Nat
    BY LocksAssumption DEF Transactions, Header
  <1>2. w \in Nat /\ e \in Nat /\ u \in Nat /\ w <= e /\ e <= u /\ u <= t.static
    BY <1>1 DEF AtMost, SaturatingSub, SignedWritable, SignedEnd, UnsignedWritableEnd
  <1> HIDE DEF w, e, u
  <1>3. Static(t) = After(0, t.static)
    BY <1>1, AllIsSlice DEF Static
  <1>4. /\ SubSeq(Static(t), 1, w) = After(0, w)
        /\ SubSeq(Static(t), e + 1, u) = After(e, u)
        /\ SubSeq(Static(t), w + 1, e) = After(w, e)
        /\ SubSeq(Static(t), u + 1, t.static) = After(u, t.static)
    <2>1. PICK n \in Nat : n = t.static
      BY <1>1
    <2>2. PICK a \in Nat, b \in Nat, c \in Nat : a = w /\ b = e /\ c = u
      BY <1>2
    <2>3. a <= b /\ b <= c /\ c <= n
      BY <1>2, <2>1, <2>2
    <2>4. /\ SubSeq(After(0, n), 1, a) = After(0, a)
          /\ SubSeq(After(0, n), b + 1, c) = After(b, c)
          /\ SubSeq(After(0, n), a + 1, b) = After(a, b)
          /\ SubSeq(After(0, n), c + 1, n) = After(c, n)
      <3>1. \A x, y \in Nat : x <= y /\ y <= n => SubSeq(After(0, n), x + 1, y) = After(x, y)
        BY SliceOfSlice, Zenon
      <3>2. 0 \in Nat /\ 0 <= a /\ a <= n /\ b <= n /\ n <= n /\ 0 + 1 = 1
        BY <2>3
      <3>3. SubSeq(After(0, n), 0 + 1, a) = After(0, a)
        BY <3>1, <3>2, Zenon
      <3>4. /\ SubSeq(After(0, n), b + 1, c) = After(b, c)
            /\ SubSeq(After(0, n), a + 1, b) = After(a, b)
            /\ SubSeq(After(0, n), c + 1, n) = After(c, n)
        BY <2>3, <3>1, <3>2, Zenon
      <3> QED BY <3>2, <3>3, <3>4, Zenon
    <2> QED BY <1>3, <2>1, <2>2, <2>4, Zenon
  <1> QED BY <1>1, <1>2, <1>4 DEF StaticWritable, StaticReadonly, w, e, u

\* The locks as a set, and how many there are.
LEMMA LocksOfTx ==
  ASSUME NEW t \in Transactions
  PROVE  LET w == AtMost(SignedWritable(t), t.static)
             e == SignedEnd(t)
             u == UnsignedWritableEnd(t)
             writable == (1..w) \cup ((e + 1)..u)
                           \cup ((t.static + 1)..(t.static + t.loadedWritable))
             readonly == ((w + 1)..e) \cup ((u + 1)..t.static)
                           \cup ((t.static + t.loadedWritable + 1)..Count(t))
         IN  /\ Len(ResolvedLocks(t)) = Count(t)
             /\ Elements(ResolvedLocks(t)) = {[account |-> k, writable |-> TRUE] : k \in writable}
                                    \cup {[account |-> k, writable |-> FALSE] : k \in readonly}
  <1> DEFINE w == AtMost(SignedWritable(t), t.static)
             e == SignedEnd(t)
             u == UnsignedWritableEnd(t)
             n == t.static
             m == t.static + t.loadedWritable
             writable == (1..w) \cup ((e + 1)..u) \cup ((n + 1)..m)
             readonly == ((w + 1)..e) \cup ((u + 1)..n) \cup ((m + 1)..Count(t))
             Lock == [account : Nat, writable : BOOLEAN]
  <1>1. /\ w \in Nat /\ e \in Nat /\ u \in Nat /\ n \in Nat /\ m \in Nat /\ Count(t) \in Nat
        /\ w <= e /\ e <= u /\ u <= n /\ n <= m /\ m <= Count(t)
    <2>1. t.loadedWritable \in Nat /\ t.loadedReadonly \in Nat
      BY LocksAssumption DEF Transactions
    <2> QED BY <2>1, Cuts DEF Count
  <1>2. /\ StaticWritable(t) = After(0, w) \o After(e, u)
        /\ StaticReadonly(t) = After(w, e) \o After(u, n)
        /\ LoadedWritable(t) = After(n, m)
        /\ LoadedReadonly(t) = After(m, Count(t))
    <2>1. KeysFrom(n + 1, m) = After(n, m) /\ KeysFrom(m + 1, Count(t)) = After(m, Count(t))
      BY <1>1, AfterIsSlice
    <2> QED BY <2>1, Cuts DEF LoadedWritable, LoadedReadonly, Count
  <1> HIDE DEF w, e, u, n, m
  <1> DEFINE W == (After(0, w) \o After(e, u)) \o After(n, m)
             R == (After(w, e) \o After(u, n)) \o After(m, Count(t))
  <1>3. /\ W \in Seq(Nat) /\ Len(W) = w + (u - e) + (m - n)
        /\ Elements(W) = writable
    <2>1. /\ After(0, w) \in Seq(Nat) /\ Len(After(0, w)) = w
          /\ Elements(After(0, w)) = 1..w
      BY <1>1, FirstKeys
    <2>2. /\ After(e, u) \in Seq(Nat) /\ Len(After(e, u)) = u - e
          /\ Elements(After(e, u)) = (e + 1)..u
      BY <1>1, KeysOfSlice
    <2>3. /\ After(n, m) \in Seq(Nat) /\ Len(After(n, m)) = m - n
          /\ Elements(After(n, m)) = (n + 1)..m
      BY <1>1, KeysOfSlice
    <2>4. /\ After(0, w) \o After(e, u) \in Seq(Nat)
          /\ Len(After(0, w) \o After(e, u)) = Len(After(0, w)) + Len(After(e, u))
          /\ Elements(After(0, w) \o After(e, u)) = Elements(After(0, w)) \cup Elements(After(e, u))
      <3>1. After(0, w) \in Seq(Nat) /\ After(e, u) \in Seq(Nat)
        BY <2>1, <2>2
      <3> QED BY <3>1, ElementsOfConcat
    <2>5. /\ W \in Seq(Nat)
          /\ Len(W) = Len(After(0, w) \o After(e, u)) + Len(After(n, m))
          /\ Elements(W) = Elements(After(0, w) \o After(e, u)) \cup Elements(After(n, m))
      <3>1. After(0, w) \o After(e, u) \in Seq(Nat) /\ After(n, m) \in Seq(Nat)
        BY <2>3, <2>4
      <3> QED BY <3>1, ElementsOfConcat
    <2>6. Len(W) = w + (u - e) + (m - n)
      BY <1>1, <2>1, <2>2, <2>3, <2>4, <2>5
    <2> QED BY <2>1, <2>2, <2>3, <2>4, <2>5, <2>6, Zenon
  <1>4. /\ R \in Seq(Nat) /\ Len(R) = (e - w) + (n - u) + (Count(t) - m)
        /\ Elements(R) = readonly
    <2>1. /\ After(w, e) \in Seq(Nat) /\ Len(After(w, e)) = e - w
          /\ Elements(After(w, e)) = (w + 1)..e
      BY <1>1, KeysOfSlice
    <2>2. /\ After(u, n) \in Seq(Nat) /\ Len(After(u, n)) = n - u
          /\ Elements(After(u, n)) = (u + 1)..n
      BY <1>1, KeysOfSlice
    <2>3. /\ After(m, Count(t)) \in Seq(Nat) /\ Len(After(m, Count(t))) = Count(t) - m
          /\ Elements(After(m, Count(t))) = (m + 1)..Count(t)
      BY <1>1, KeysOfSlice
    <2>4. /\ After(w, e) \o After(u, n) \in Seq(Nat)
          /\ Len(After(w, e) \o After(u, n)) = Len(After(w, e)) + Len(After(u, n))
          /\ Elements(After(w, e) \o After(u, n)) = Elements(After(w, e)) \cup Elements(After(u, n))
      <3>1. After(w, e) \in Seq(Nat) /\ After(u, n) \in Seq(Nat)
        BY <2>1, <2>2
      <3> QED BY <3>1, ElementsOfConcat
    <2>5. /\ R \in Seq(Nat)
          /\ Len(R) = Len(After(w, e) \o After(u, n)) + Len(After(m, Count(t)))
          /\ Elements(R) = Elements(After(w, e) \o After(u, n)) \cup Elements(After(m, Count(t)))
      <3>1. After(w, e) \o After(u, n) \in Seq(Nat) /\ After(m, Count(t)) \in Seq(Nat)
        BY <2>3, <2>4
      <3> QED BY <3>1, ElementsOfConcat
    <2>6. Len(R) = (e - w) + (n - u) + (Count(t) - m)
      BY <1>1, <2>1, <2>2, <2>3, <2>4, <2>5
    <2> QED BY <2>1, <2>2, <2>3, <2>4, <2>5, <2>6, Zenon
  <1>5. ResolvedLocks(t) = Locks(W, TRUE) \o Locks(R, FALSE)
    BY <1>2 DEF ResolvedLocks
  <1> HIDE DEF W, R, writable, readonly
  <1>6. /\ Locks(W, TRUE) \in Seq(Lock) /\ Len(Locks(W, TRUE)) = Len(W)
        /\ Elements(Locks(W, TRUE)) = {[account |-> k, writable |-> TRUE] : k \in writable}
    BY <1>3, ElementsOfLocks
  <1>7. /\ Locks(R, FALSE) \in Seq(Lock) /\ Len(Locks(R, FALSE)) = Len(R)
        /\ Elements(Locks(R, FALSE)) = {[account |-> k, writable |-> FALSE] : k \in readonly}
    BY <1>4, ElementsOfLocks
  <1> HIDE DEF Lock
  <1>8. Len(ResolvedLocks(t)) = Count(t)
    <2>1. Len(Locks(W, TRUE) \o Locks(R, FALSE)) = Len(Locks(W, TRUE)) + Len(Locks(R, FALSE))
      BY <1>6, <1>7, ElementsOfConcat, Zenon
    <2>2. Len(ResolvedLocks(t)) = Len(W) + Len(R)
      BY <1>5, <1>6, <1>7, <2>1, Zenon
    <2> QED BY <1>1, <1>3, <1>4, <2>2
  <1>9. Elements(ResolvedLocks(t)) = {[account |-> k, writable |-> TRUE] : k \in writable}
                              \cup {[account |-> k, writable |-> FALSE] : k \in readonly}
    <2>1. Elements(Locks(W, TRUE) \o Locks(R, FALSE))
            = Elements(Locks(W, TRUE)) \cup Elements(Locks(R, FALSE))
      BY <1>6, <1>7, ElementsOfConcat, Zenon
    <2> QED BY <1>5, <1>6, <1>7, <2>1, Zenon
  <1> QED BY <1>8, <1>9 DEF writable, readonly, w, e, u, n, m

\* A key is found under its own index in the unsplit list.
LEMMA ProgramsOfTx ==
  ASSUME NEW t \in Transactions
  PROVE  Programs(t) = {t.program + 1} \cap (1..Count(t))
  <1> DEFINE n == t.static
             m == t.static + t.loadedWritable
             c == Count(t)
             full == Static(t) \o LoadedWritable(t) \o LoadedReadonly(t)
  <1>1. n \in Nat /\ m \in Nat /\ c \in Nat /\ n <= m /\ m <= c /\ t.program \in Nat
    BY LocksAssumption DEF Transactions, Count
  <1>2. /\ Static(t) = After(0, n) /\ LoadedWritable(t) = After(n, m)
        /\ LoadedReadonly(t) = After(m, c)
    <2>1. /\ KeysFrom(1, n) = After(0, n) /\ KeysFrom(n + 1, m) = After(n, m)
          /\ KeysFrom(m + 1, c) = After(m, c)
      BY <1>1, AllIsSlice, AfterIsSlice
    <2> QED BY <2>1 DEF Static, LoadedWritable, LoadedReadonly, Count
  <1> HIDE DEF n, m, c
  <1>3. /\ After(0, n) \in Seq(Nat) /\ Len(After(0, n)) = n
        /\ \A i \in 1..n : After(0, n)[i] = i
    BY <1>1, FirstKeys
  <1>4. /\ After(n, m) \in Seq(Nat) /\ Len(After(n, m)) = m - n
        /\ \A i \in 1..(m - n) : After(n, m)[i] = n + i
    BY <1>1, KeysOfSlice
  <1>5. /\ After(m, c) \in Seq(Nat) /\ Len(After(m, c)) = c - m
        /\ \A i \in 1..(c - m) : After(m, c)[i] = m + i
    BY <1>1, KeysOfSlice
  <1>6. /\ After(0, n) \o After(n, m) \in Seq(Nat)
        /\ Len(After(0, n) \o After(n, m)) = m
        /\ \A i \in 1..m : (After(0, n) \o After(n, m))[i] = i
    BY <1>1, <1>3, <1>4
  <1>7. DOMAIN full = 1..c /\ \A i \in 1..c : full[i] = i
    <2> DEFINE front == After(0, n) \o After(n, m)
               back == After(m, c)
    <2>1. full = front \o back
      BY <1>2
    <2> HIDE DEF front, back
    <2>2. /\ front \in Seq(Nat) /\ Len(front) = m /\ \A i \in 1..m : front[i] = i
          /\ back \in Seq(Nat) /\ Len(back) = c - m /\ \A i \in 1..(c - m) : back[i] = m + i
      BY <1>5, <1>6 DEF front, back
    <2>3. DOMAIN (front \o back) = 1..c /\ \A i \in 1..c : (front \o back)[i] = i
      BY <1>1, <2>2
    <2> QED BY <2>1, <2>3
  <1>8. Programs(t) = {full[i] : i \in {t.program + 1} \cap DOMAIN full}
    BY DEF Programs
  <1> HIDE DEF full
  <1> QED BY <1>7, <1>8 DEF c

-----------------------------------------------------------------------------
(* The theorems.                                                           *)

\* Before and after the only step.
Inv == /\ tx \in Transactions /\ resolved \in BOOLEAN
       /\ resolved => locks = ResolvedLocks(tx) /\ programs = Programs(tx)

LEMMA Invariance == Spec => []Inv
  <1>1. Init => Inv
    BY DEF Init, Inv
  <1>2. Inv /\ [Resolve]_vars => Inv'
    <2>1. CASE Resolve
      BY <2>1 DEF Inv, Resolve
    <2>2. CASE UNCHANGED vars
      BY <2>2 DEF Inv, vars
    <2> QED BY <2>1, <2>2
  <1> QED BY <1>1, <1>2, PTL DEF Spec

\* Each key is locked once and none is left out, for every header: the four
\* slices neither overlap nor leave a gap (account_resolution.rs:42-59).
THEOREM EveryKeyIsLockedOnce == Spec => []EveryKeyOnce
  <1>1. Inv => EveryKeyOnce
    <2> SUFFICES ASSUME Inv, resolved
                 PROVE  /\ Len(locks) = Cardinality(AllKeys)
                        /\ {locks[i].account : i \in DOMAIN locks} = AllKeys
      BY DEF EveryKeyOnce
    <2> DEFINE w == AtMost(SignedWritable(tx), tx.static)
               e == SignedEnd(tx)
               u == UnsignedWritableEnd(tx)
               n == tx.static
               m == tx.static + tx.loadedWritable
               c == Count(tx)
               writable == (1..w) \cup ((e + 1)..u) \cup ((n + 1)..m)
               readonly == ((w + 1)..e) \cup ((u + 1)..n) \cup ((m + 1)..c)
    <2>1. /\ Len(locks) = c
          /\ Elements(locks) = {[account |-> k, writable |-> TRUE] : k \in writable}
                            \cup {[account |-> k, writable |-> FALSE] : k \in readonly}
      BY LocksOfTx DEF Inv
    <2>2. /\ w \in Nat /\ e \in Nat /\ u \in Nat /\ n \in Nat /\ m \in Nat /\ c \in Nat
          /\ w <= e /\ e <= u /\ u <= n /\ n <= m /\ m <= c
      <3>1. tx.loadedWritable \in Nat /\ tx.loadedReadonly \in Nat
        BY LocksAssumption DEF Transactions, Inv
      <3> QED BY <3>1, Cuts DEF Count, Inv
    <2>3. AllKeys = 1..c
      BY DEF AllKeys, Count
    <2> HIDE DEF w, e, u, n, m, c
    <2>4. Cardinality(AllKeys) = c
      BY <2>2, <2>3, FS_Interval
    <2>5. writable \cup readonly = 1..c
      BY <2>2
    <2>6. {locks[i].account : i \in DOMAIN locks} = {l.account : l \in Elements(locks)}
      BY Zenon DEF Elements
    <2> HIDE DEF writable, readonly
    <2>7. {l.account : l \in Elements(locks)} = writable \cup readonly
      <3>1. ASSUME NEW l \in Elements(locks) PROVE l.account \in writable \cup readonly
        BY <2>1
      <3>2. ASSUME NEW k \in writable PROVE \E l \in Elements(locks) : k = l.account
        <4>1. [account |-> k, writable |-> TRUE] \in Elements(locks)
          BY <2>1
        <4> QED BY <4>1
      <3>3. ASSUME NEW k \in readonly PROVE \E l \in Elements(locks) : k = l.account
        <4>1. [account |-> k, writable |-> FALSE] \in Elements(locks)
          BY <2>1
        <4> QED BY <4>1
      <3> QED BY <3>1, <3>2, <3>3
    <2> QED BY <2>1, <2>3, <2>4, <2>5, <2>6, <2>7
  <1> QED BY <1>1, Invariance, PTL

\* Under a header that fits, a lock is a write lock exactly when the layout of
\* account_resolution.rs:9-16 says so.
THEOREM LocksFollowLayout == Spec => []FollowsLayout
  <1>1. Inv => FollowsLayout
    <2> SUFFICES ASSUME Inv, resolved, WellFormed(tx), NEW i \in DOMAIN locks
                 PROVE  locks[i].writable <=> WritableByLayout(tx, locks[i].account)
      BY DEF FollowsLayout
    <2> DEFINE w == AtMost(SignedWritable(tx), tx.static)
               e == SignedEnd(tx)
               u == UnsignedWritableEnd(tx)
               n == tx.static
               m == tx.static + tx.loadedWritable
               c == Count(tx)
               writable == (1..w) \cup ((e + 1)..u) \cup ((n + 1)..m)
               readonly == ((w + 1)..e) \cup ((u + 1)..n) \cup ((m + 1)..c)
    <2>1. Elements(locks) = {[account |-> k, writable |-> TRUE] : k \in writable}
                            \cup {[account |-> k, writable |-> FALSE] : k \in readonly}
      BY LocksOfTx DEF Inv
    <2>2. \/ \E k \in writable : locks[i] = [account |-> k, writable |-> TRUE]
          \/ \E k \in readonly : locks[i] = [account |-> k, writable |-> FALSE]
      <3> HIDE DEF writable, readonly
      <3> QED BY <2>1 DEF Elements
    <2>3. /\ n \in Nat /\ tx.loadedWritable \in Nat /\ tx.loadedReadonly \in Nat
          /\ tx.header.signatures \in Nat /\ tx.header.readonlySigned \in Nat
          /\ tx.header.readonlyUnsigned \in Nat
      BY LocksAssumption DEF Transactions, Header, Inv
    <2>4. /\ w = tx.header.signatures - tx.header.readonlySigned
          /\ e = tx.header.signatures /\ u = n - tx.header.readonlyUnsigned
          /\ e <= u
      BY <2>3 DEF WellFormed, AtMost, SaturatingSub, SignedWritable, SignedEnd, UnsignedWritableEnd
    <2> HIDE DEF w, e, u
    <2>5. CASE \E k \in writable : locks[i] = [account |-> k, writable |-> TRUE]
      <3>1. PICK k \in writable : locks[i] = [account |-> k, writable |-> TRUE]
        BY <2>5
      <3>2. WritableByLayout(tx, k)
        BY <2>3, <2>4 DEF WritableByLayout
      <3> QED BY <3>1, <3>2
    <2>6. CASE \E k \in readonly : locks[i] = [account |-> k, writable |-> FALSE]
      <3>1. PICK k \in readonly : locks[i] = [account |-> k, writable |-> FALSE]
        BY <2>6
      <3>2. ~WritableByLayout(tx, k)
        BY <2>3, <2>4 DEF WritableByLayout, WellFormed, Count
      <3> QED BY <3>1, <3>2
    <2> QED BY <2>2, <2>5, <2>6
  <1> QED BY <1>1, Invariance, PTL

\* The programs are the keys at their index in the unsplit list, and locked.
THEOREM ProgramsAreLocked == Spec => []ProgramsAreIndexed
  <1>1. Inv /\ EveryKeyOnce => ProgramsAreIndexed
    <2> SUFFICES ASSUME Inv, EveryKeyOnce, resolved
                 PROVE  programs = {tx.program + 1} \cap {locks[i].account : i \in DOMAIN locks}
      BY DEF ProgramsAreIndexed
    <2>1. {locks[i].account : i \in DOMAIN locks} = 1..Count(tx)
      BY DEF EveryKeyOnce, AllKeys, Count
    <2>2. programs = {tx.program + 1} \cap (1..Count(tx))
      BY ProgramsOfTx DEF Inv
    <2> QED BY <2>1, <2>2, Zenon
  <1> QED BY <1>1, Invariance, EveryKeyIsLockedOnce, PTL
=============================================================================
