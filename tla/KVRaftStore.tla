---------------------------- MODULE KVRaftStore -----------------------------
(***************************************************************************)
(* Lemmas about KVRaft's ValueAt: what the log says a key's value is, one  *)
(* entry after the other.                                                  *)
(***************************************************************************)
EXTENDS KVRaft, FiniteSetTheorems, SequenceTheorems, WellFoundedInduction, TLAPS

Kind == {"Get", "Put", "Append"}
Op == [client : Client, seq : Nat \ {0}, req : [type : Kind, key : Key]]

-----------------------------------------------------------------------------
(* The value of a key, one log entry after the other.                      *)

(* Entry i writes to key k. *)
Writing(log, k, i) ==
    log[i].req.key = k /\ log[i].req.type # "Get" /\ Effective(log, i)

LEMMA WritesStep ==
    ASSUME NEW log, NEW k, NEW n \in Nat
    PROVE  Writes(log, k, n + 1) =
               Writes(log, k, n) \union IF Writing(log, k, n + 1) THEN {n + 1} ELSE {}
<1>1. 1 .. n + 1 = (1 .. n) \union {n + 1}
    OBVIOUS
<1> QED BY <1>1 DEF Writes, Writing

(* An entry that writes nothing leaves the live writes as they are, an     *)
(* Append adds to them and a Put replaces them.                            *)
LEMMA LiveStep ==
    ASSUME NEW log, NEW k, NEW n \in Nat
    PROVE  Live(log, k, n + 1) =
               IF ~ Writing(log, k, n + 1) THEN Live(log, k, n)
               ELSE IF log[n + 1].req.type = "Put" THEN {n + 1}
               ELSE Live(log, k, n) \union {n + 1}
<1> DEFINE W == Writes(log, k, n)
           W1 == Writes(log, k, n + 1)
<1>1. \A i \in W : i \in 1 .. n
    BY DEF Writes
<1>2. CASE ~ Writing(log, k, n + 1)
  <2>1. W1 = W
      BY <1>2, WritesStep
  <2> QED BY <1>2, <2>1 DEF Live
<1>3. CASE Writing(log, k, n + 1)
  <2>1. W1 = W \union {n + 1}
      BY <1>3, WritesStep
  <2> HIDE DEF W, W1
  <2>2. Live(log, k, n) = {i \in W : \A p \in W : log[p].req.type = "Put" => p <= i}
      BY DEF Live, W
  <2>3. Live(log, k, n + 1) = {i \in W1 : \A p \in W1 : log[p].req.type = "Put" => p <= i}
      BY DEF Live, W1
  <2>4. n + 1 \in Live(log, k, n + 1)
      BY <1>1, <2>1, <2>3
  <2>5. CASE log[n + 1].req.type = "Put"
      BY <1>1, <1>3, <2>1, <2>3, <2>4, <2>5
  <2>6. CASE log[n + 1].req.type # "Put"
      BY <1>1, <1>3, <2>1, <2>2, <2>3, <2>4, <2>6
  <2> QED BY <2>5, <2>6
<1> QED BY <1>2, <1>3

LEMMA LiveFinite ==
    ASSUME NEW log, NEW k, NEW n \in Nat
    PROVE  Live(log, k, n) \subseteq 1 .. n /\ IsFiniteSet(Live(log, k, n))
<1>1. Live(log, k, n) \subseteq 1 .. n
    BY DEF Live, Writes
<1>2. IsFiniteSet(1 .. n)
    BY FS_Interval
<1> QED BY <1>1, <1>2, FS_Subset

(* Induction over the naturals, for a set in place of a predicate: the     *)
(* least number outside the set would have a predecessor in it.            *)
LEMMA NatSetInduction ==
    ASSUME NEW P, 0 \in P, \A n \in Nat : n \in P => n + 1 \in P
    PROVE  Nat \subseteq P
<1> SUFFICES ASSUME Nat \ P # {} PROVE FALSE
    OBVIOUS
<1> DEFINE T == Nat \ P
           R == OpToRel(<, Nat)
<1>1. IsWellFoundedOn(R, Nat)
    BY NatLessThanWellFounded
<1>2. T \subseteq Nat /\ T # {}
    OBVIOUS
<1> HIDE DEF T, R
<1>3. PICK x \in T : \A y \in T : ~ (<<y, x>> \in R)
    BY <1>1, <1>2, WFMin
<1>4. x \in Nat /\ x # 0 /\ x - 1 \in Nat /\ x - 1 < x
    BY DEF T
<1>5. <<x - 1, x>> \in R
    BY <1>4 DEF R, OpToRel
<1>6. x - 1 \in P
    BY <1>3, <1>4, <1>5 DEF T
<1>7. (x - 1) + 1 \in P
    BY <1>4, <1>6
<1> QED BY <1>4, <1>7 DEF T

(* A new largest number comes last, and the others keep their places.      *)
LEMMA NthStep ==
    ASSUME NEW n \in Nat, NEW S \in SUBSET (1 .. n), IsFiniteSet(S)
    PROVE  LET T == S \union {n + 1} IN
           /\ Cardinality(S) \in Nat
           /\ Cardinality(T) = Cardinality(S) + 1
           /\ \A m \in 1 .. Cardinality(S) : Nth(T, m) = Nth(S, m)
           /\ Nth(T, Cardinality(S) + 1) = n + 1
<1> DEFINE T == S \union {n + 1}
           UpTo(U, i) == {j \in U : j <= i}
<1>1. n + 1 \notin S
    OBVIOUS
<1>2. Cardinality(S) \in Nat /\ Cardinality(T) = Cardinality(S) + 1
    BY <1>1, FS_CardinalityType, FS_AddElement
<1>3. \A i \in S : UpTo(T, i) = UpTo(S, i)
    OBVIOUS
<1>4. UpTo(T, n + 1) = T
  <2>1. \A j \in T : j <= n + 1
      OBVIOUS
  <2> QED BY <2>1
<1>5. \A i \in S : Cardinality(UpTo(S, i)) \in Nat /\ Cardinality(UpTo(S, i)) <= Cardinality(S)
  <2> TAKE i \in S
  <2>1. UpTo(S, i) \subseteq S
      OBVIOUS
  <2>2. IsFiniteSet(UpTo(S, i)) /\ Cardinality(UpTo(S, i)) <= Cardinality(S)
      BY <2>1, FS_Subset
  <2> QED BY <2>2, FS_CardinalityType
<1> DEFINE At(U, m) == {i \in U : Cardinality(UpTo(U, i)) = m}
<1>6. \A U, m : Nth(U, m) = TheOne(At(U, m))
    BY DEF Nth
<1>7. ASSUME NEW m \in 1 .. Cardinality(S) PROVE Nth(T, m) = Nth(S, m)
  <2>1. \A i \in S : Cardinality(UpTo(T, i)) = Cardinality(UpTo(S, i))
      BY <1>3
  <2>2. Cardinality(UpTo(T, n + 1)) = Cardinality(S) + 1
      BY <1>2, <1>4
  <2> HIDE DEF UpTo, T
  <2>3. Cardinality(UpTo(T, n + 1)) # m
      BY <1>2, <2>2
  <2> USE DEF T
  <2>4. At(T, m) = At(S, m)
      BY <2>1, <2>3
  <2> QED BY <1>6, <2>4
<1>8. Nth(T, Cardinality(S) + 1) = n + 1
  <2>1. \A i \in S : Cardinality(UpTo(T, i)) # Cardinality(S) + 1
      BY <1>2, <1>3, <1>5
  <2>2. Cardinality(UpTo(T, n + 1)) = Cardinality(S) + 1
      BY <1>2, <1>4
  <2> HIDE DEF UpTo
  <2>3. At(T, Cardinality(S) + 1) = {n + 1}
      BY <2>1, <2>2
  <2>4. TheOne({n + 1}) = n + 1
      BY DEF TheOne
  <2> QED BY <1>6, <2>3, <2>4
<1> QED BY <1>2, <1>7, <1>8

(* A set of n numbers has an m-th smallest one for every m up to n. *)
LEMMA NthExists ==
    ASSUME NEW n \in Nat, NEW S \in SUBSET (1 .. n), NEW m \in 1 .. Cardinality(S)
    PROVE  Nth(S, m) \in S
<1> DEFINE P == {i \in Nat : \A X \in SUBSET (1 .. i) :
                                 \A j \in 1 .. Cardinality(X) : Nth(X, j) \in X}
<1>1. 0 \in P
  <2>1. \A X \in SUBSET (1 .. 0) : Cardinality(X) = 0
    <3>1. \A X \in SUBSET (1 .. 0) : X = {}
        OBVIOUS
    <3> QED BY <3>1, FS_EmptySet
  <2> QED BY <2>1
<1>2. ASSUME NEW i \in Nat, i \in P PROVE i + 1 \in P
  <2> SUFFICES ASSUME NEW X \in SUBSET (1 .. i + 1), NEW j \in 1 .. Cardinality(X)
               PROVE  Nth(X, j) \in X
      OBVIOUS
  <2>1. \A Y \in SUBSET (1 .. i) : \A l \in 1 .. Cardinality(Y) : Nth(Y, l) \in Y
      BY <1>2
  <2> HIDE DEF P
  <2>2. CASE i + 1 \notin X
    <3>1. X \in SUBSET (1 .. i)
        BY <2>2
    <3> QED BY <2>1, <3>1
  <2>3. CASE i + 1 \in X
    <3> DEFINE Y == X \ {i + 1}
    <3>1. Y \in SUBSET (1 .. i)
        OBVIOUS
    <3>2. X = Y \union {i + 1}
        BY <2>3
    <3> HIDE DEF Y
    <3>3. IsFiniteSet(Y)
      <4>1. IsFiniteSet(1 .. i)
          BY FS_Interval
      <4> QED BY <3>1, <4>1, FS_Subset
    <3>4. /\ Cardinality(Y) \in Nat /\ Cardinality(X) = Cardinality(Y) + 1
          /\ \A l \in 1 .. Cardinality(Y) : Nth(X, l) = Nth(Y, l)
          /\ Nth(X, Cardinality(Y) + 1) = i + 1
        BY <3>1, <3>2, <3>3, NthStep
    <3>5. CASE j = Cardinality(Y) + 1
        BY <2>3, <3>4, <3>5
    <3>6. CASE j \in 1 .. Cardinality(Y)
        BY <2>1, <3>1, <3>2, <3>4, <3>6
    <3> QED BY <3>4, <3>5, <3>6
  <2> QED BY <2>2, <2>3
<1> HIDE DEF P
<1>3. Nat \subseteq P
    BY <1>1, <1>2, NatSetInduction
<1> QED BY <1>3 DEF P

(* A value is a sequence. *)
LEMMA ValueIsSeq ==
    ASSUME NEW log, NEW k, NEW n \in Nat
    PROVE  LET v == ValueAt(log, k, n) IN
           /\ v \in Seq({v[m] : m \in 1 .. Cardinality(Live(log, k, n))})
           /\ Len(v) = Cardinality(Live(log, k, n)) /\ Len(v) \in Nat
<1> DEFINE v == ValueAt(log, k, n)
           N == Cardinality(Live(log, k, n))
           R == {v[m] : m \in 1 .. N}
<1>1. N \in Nat
    BY LiveFinite, FS_CardinalityType
<1>2. v = [m \in 1 .. N |-> Written(log[Nth(Live(log, k, n), m)])]
    BY DEF ValueAt
<1> HIDE DEF v, N
<1>3. v \in [1 .. N -> R]
    BY <1>2
<1> HIDE DEF R
<1>4. v \in Seq(R) /\ Len(v) = N
    BY <1>1, <1>3
<1> QED BY <1>1, <1>4 DEF v, N, R

LEMMA ValueStep ==
    ASSUME NEW log, NEW k, NEW n \in Nat
    PROVE  ValueAt(log, k, n + 1) =
               IF ~ Writing(log, k, n + 1) THEN ValueAt(log, k, n)
               ELSE IF log[n + 1].req.type = "Put" THEN <<Written(log[n + 1])>>
               ELSE Append(ValueAt(log, k, n), Written(log[n + 1]))
<1> DEFINE L == Live(log, k, n)
           L1 == Live(log, k, n + 1)
           v == ValueAt(log, k, n)
           v1 == ValueAt(log, k, n + 1)
           w == Written(log[n + 1])
<1>1. L \subseteq 1 .. n /\ IsFiniteSet(L)
    BY LiveFinite
<1>2. /\ v = [m \in 1 .. Cardinality(L) |-> Written(log[Nth(L, m)])]
      /\ v1 = [m \in 1 .. Cardinality(L1) |-> Written(log[Nth(L1, m)])]
    BY DEF ValueAt
<1>3. CASE ~ Writing(log, k, n + 1)
    BY <1>2, <1>3, LiveStep
<1>4. CASE Writing(log, k, n + 1) /\ log[n + 1].req.type = "Put"
  <2>1. L1 = {} \union {n + 1}
      BY <1>4, LiveStep
  <2>2. Cardinality({}) = 0 /\ IsFiniteSet({})
      BY FS_EmptySet
  <2>3. Cardinality(L1) = 1 /\ Nth(L1, 1) = n + 1
      BY <2>1, <2>2, NthStep
  <2> HIDE DEF L1, v1
  <2>4. v1 = [m \in 1 .. 1 |-> w]
      BY <1>2, <2>3
  <2>5. v1 = <<w>>
      BY <2>4
  <2> QED BY <1>4, <2>5 DEF v1
<1>5. CASE Writing(log, k, n + 1) /\ log[n + 1].req.type # "Put"
  <2> DEFINE N == Cardinality(L)
  <2>1. L1 = L \union {n + 1}
      BY <1>5, LiveStep
  <2>2. /\ N \in Nat /\ Cardinality(L1) = N + 1
        /\ \A m \in 1 .. N : Nth(L1, m) = Nth(L, m)
        /\ Nth(L1, N + 1) = n + 1
      BY <1>1, <2>1, NthStep
  <2> HIDE DEF L, L1, v, v1, N
  <2>3. v1 = [m \in 1 .. N + 1 |-> IF m \in 1 .. N THEN v[m] ELSE w]
      BY <1>2, <2>2 DEF N
  <2>4. Len(v) = N
      BY ValueIsSeq DEF v, L, N
  <2> HIDE DEF w
  <2>5. v1 = Append(v, w)
    <3> DEFINE R == {v[m] : m \in 1 .. N} \union {w}
    <3>1. v \in Seq(R)
        BY <1>2, <2>2 DEF N
    <3>2. v1 \in Seq(R) /\ Len(v1) = N + 1
        BY <2>2, <2>3
    <3>3. w \in R
        OBVIOUS
    <3> HIDE DEF R
    <3>4. /\ Append(v, w) \in Seq(R) /\ Len(Append(v, w)) = N + 1
          /\ \A m \in 1 .. N : Append(v, w)[m] = v[m]
          /\ Append(v, w)[N + 1] = w
        BY <2>4, <3>1, <3>3, AppendProperties
    <3>5. \A m \in 1 .. N + 1 : v1[m] = Append(v, w)[m]
        BY <2>2, <2>3, <3>4
    <3> QED BY <3>2, <3>4, <3>5, SeqEqual
  <2> QED BY <1>5, <2>5 DEF v1, v, w
<1> QED BY <1>3, <1>4, <1>5

(* The store after the first n entries. *)
Store(log, n) == [k \in Key |-> ValueAt(log, k, n)]

LEMMA StoreAtZero ==
    ASSUME NEW log
    PROVE  Store(log, 0) = EmptyStore
<1>1. \A k \in Key : Live(log, k, 0) = {}
    BY DEF Live, Writes
<1>2. Cardinality({}) = 0
    BY FS_EmptySet
<1>3. \A k \in Key : ValueAt(log, k, 0) = <<>>
    BY <1>1, <1>2 DEF ValueAt
<1> QED BY <1>3 DEF Store, EmptyStore

(* An entry leads from one store to the next if it is the first of its     *)
(* operation, and otherwise changes nothing.                               *)
LEMMA StoreStep ==
    ASSUME NEW log, NEW n \in Nat, log[n + 1] \in Op
    PROVE  IF Effective(log, n + 1)
           THEN ApplyKV(Store(log, n), log[n + 1]) = {Store(log, n + 1)}
           ELSE Store(log, n + 1) = Store(log, n)
<1> DEFINE o == log[n + 1]
           d == Store(log, n)
<1>1. o.req.key \in Key /\ o.req.type \in Kind
    BY DEF Op
<1>2. \A k \in Key : d[k] = ValueAt(log, k, n)
    BY DEF Store
<1>3. d = [k \in Key |-> d[k]]
    BY DEF Store
<1>4. Store(log, n + 1) = [k \in Key |-> ValueAt(log, k, n + 1)]
    BY DEF Store
<1>5. \A k \in Key : ValueAt(log, k, n + 1) =
               IF ~ Writing(log, k, n + 1) THEN d[k]
               ELSE IF o.req.type = "Put" THEN <<Written(o)>>
               ELSE Append(d[k], Written(o))
    BY <1>2, ValueStep
<1>6. \A k : Writing(log, k, n + 1) <=> o.req.key = k /\ o.req.type # "Get" /\ Effective(log, n + 1)
    BY DEF Writing
<1> HIDE DEF o, d
<1>7. CASE ~ Effective(log, n + 1)
    BY <1>3, <1>4, <1>5, <1>6, <1>7 DEF d
<1>8. CASE Effective(log, n + 1) /\ o.req.type = "Get"
    BY <1>3, <1>4, <1>5, <1>6, <1>8 DEF d, o, ApplyKV
<1>9. CASE Effective(log, n + 1) /\ o.req.type = "Put"
  <2>1. put(d, o.req.key, Written(o)) = Store(log, n + 1)
      BY <1>1, <1>3, <1>4, <1>5, <1>6, <1>9 DEF put
  <2> QED BY <1>9, <2>1 DEF d, o, ApplyKV
<1>10. CASE Effective(log, n + 1) /\ o.req.type = "Append"
  <2>1. append(d, o.req.key, Written(o)) = Store(log, n + 1)
      BY <1>1, <1>3, <1>4, <1>5, <1>6, <1>10 DEF append
  <2> QED BY <1>10, <2>1 DEF d, o, ApplyKV
<1> QED BY <1>1, <1>7, <1>8, <1>9, <1>10 DEF Kind

(* What follows the first n entries does not matter to the store. *)
LEMMA StoreOfPrefix ==
    ASSUME NEW log, NEW more, NEW n \in Nat, \A i \in 1 .. n : more[i] = log[i]
    PROVE  Store(more, n) = Store(log, n)
<1>1. ASSUME NEW i \in 1 .. n PROVE Effective(more, i) <=> Effective(log, i)
    BY DEF Effective
<1>2. ASSUME NEW k \in Key PROVE ValueAt(more, k, n) = ValueAt(log, k, n)
  <2>1. Writes(more, k, n) = Writes(log, k, n)
      BY <1>1 DEF Writes
  <2>2. Live(more, k, n) = Live(log, k, n)
      BY <2>1 DEF Live, Writes
  <2> DEFINE L == Live(log, k, n)
  <2>3. L \in SUBSET (1 .. n)
      BY LiveFinite
  <2> HIDE DEF L
  <2>4. \A m \in 1 .. Cardinality(L) : more[Nth(L, m)] = log[Nth(L, m)]
      BY <2>3, NthExists
  <2> QED BY <2>2, <2>4 DEF ValueAt, L
<1> QED BY <1>2 DEF Store
=============================================================================
