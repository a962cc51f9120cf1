-------------------------- MODULE HashTableProofs --------------------------
(***************************************************************************)
(* Proofs about the hash table, for every set of ids below the smallest    *)
(* prime, every set of values and every number of entries: a bucket holds  *)
(* one key, the size counts the entries, and the table is a map.           *)
(*                                                                         *)
(* An insertion may grow the table, which copies it, which inserts into a  *)
(* table that may grow.  The proof is by the number of entries copied      *)
(* (CopiesRight): a copy holds each entry as often as the sequence it is   *)
(* made from, so a table that takes over its chains keeps its entries.     *)
(***************************************************************************)
EXTENDS HashTable, FiniteSetTheorems, FunctionTheorems, SequenceTheorems, TLAPS

(* Chains, each of entries of its own key. *)
Chains == UNION {[B -> Seq(Entries) \ {<<>>}] : B \in SUBSET Ids}
Fit(D) == D \in Chains /\ \A b \in DOMAIN D : \A i \in DOMAIN D[b] : D[b][i].key = b

Places(D) == UNION {{b} \X DOMAIN D[b] : b \in DOMAIN D}

(* How many places of some chains, and of a sequence, hold a member of E. *)
Held(D, E)  == Cardinality({s \in Places(D) : D[s[1]][s[2]] \in E})
Among(es, E) == Cardinality({i \in DOMAIN es : es[i] \in E})

Tables == [size : Nat, buckets : {Buckets} \cup ToSet(primes), data : Chains]

(* The table grows before anything is in it. *)
Good(T) ==
  /\ T \in Tables
  /\ Fit(T.data)
  /\ T.size = Cardinality(Places(T.data))
  /\ T.buckets = Buckets => T.data = <<>>

(* What copy makes of up to d entries. *)
CopiesRight(copy, d) ==
  \A n \in ToSet(primes), es \in Seq(Entries) :
    Len(es) <= d => /\ Good(copy[n][es])
                    /\ copy[n][es].size = Len(es)
                    /\ \A E \in SUBSET Entries : Held(copy[n][es].data, E) = Among(es, E)

-----------------------------------------------------------------------------
(* Numbers *)

(* A set of natural numbers that is not empty has a least member.              *)
LEMMA Least ==
  ASSUME NEW S, S \subseteq Nat, S # {}
  PROVE  \E x \in S : \A y \in S : x <= y
<1> DEFINE Less == {ss \in Nat \X Nat : ss[1] < ss[2]}
<1>1. OpToRel(<, Nat) = Less
  BY Zenon DEF OpToRel
<1>2. IsWellFoundedOn(Less, Nat)
  BY <1>1, NatLessThanWellFounded, Zenon
<1> HIDE DEF Less
<1>3. PICK x \in S : \A y \in S : <<y, x>> \notin Less
  BY <1>2, WFMin, Zenon
<1>4. \A y \in S : x <= y
  <2> SUFFICES ASSUME NEW y \in S, ~(x <= y)
               PROVE  FALSE
    OBVIOUS
  <2>1. x \in Nat /\ y \in Nat /\ y < x
    BY SMT
  <2>2. <<y, x>> \in Less
    BY <2>1, SMT DEF Less
  <2> QED  BY <1>3, <2>2
<1> QED  BY <1>4

(* A one-to-one map onto a set keeps the number of elements.                   *)
LEMMA SameNumber ==
  ASSUME NEW S, IsFiniteSet(S), NEW T, NEW f \in [S -> T],
         \A x, y \in S : f[x] = f[y] => x = y,
         \A z \in T : \E x \in S : f[x] = z
  PROVE  IsFiniteSet(T) /\ Cardinality(T) = Cardinality(S)
<1>1. f \in Bijection(S, T)
  BY Fun_IsBij, Zenon
<1> QED  BY <1>1, FS_Bijection, Zenon DEF ExistsBijection

(* Ids are below every prime, and a number of buckets grows to a prime.        *)
LEMMA PrimesLarge == \A n \in ToSet(primes) : n \in Nat /\ n >= 53
BY DEF ToSet, primes

LEMMA IdsSmall ==
  /\ \A k \in Ids : k \in Nat /\ k < 53
  /\ Buckets \in Nat /\ 0 < Buckets /\ Buckets < 53
  /\ Addresses \subseteq Nat
  /\ Addresses \cap Ids = {}
<1>1. primes[1] = 53
  BY DEF primes
<1> QED  BY <1>1, HashAssumption, SMT

LEMMA NextPrime ==
  /\ next_prime(Buckets) \in ToSet(primes)
  /\ \A n \in ToSet(primes) : next_prime(n) = 0 \/ next_prime(n) \in ToSet(primes)
<1> DEFINE Right(n, i) == primes[i] > n /\ (i = 1 \/ primes[i - 1] <= n)
<1>1. DOMAIN primes = 1 .. 26 /\ primes[1] = 53 /\ Last(primes) = primes[26]
  BY SMT DEF primes, Last
<1>2. \A n : n < Last(primes) /\ (\E i \in DOMAIN primes : Right(n, i)) /\ ~(n >= Last(primes))
             => next_prime(n) \in ToSet(primes)
  BY Zenon DEF next_prime, ToSet
<1>3. Right(Buckets, 1) /\ Buckets < Last(primes) /\ ~(Buckets >= Last(primes))
  <2>1. primes[26] \in Nat /\ primes[26] >= 53
    BY <1>1, PrimesLarge DEF ToSet
  <2> QED  BY <1>1, <2>1, IdsSmall
<1>4. \A n \in ToSet(primes) : n >= Last(primes) \/ \E i \in DOMAIN primes : Right(n, i)
  <2>0. \A n \in ToSet(primes) : \E j \in 1 .. 26 : n = primes[j]
    BY <1>1, Zenon DEF ToSet
  <2> SUFFICES ASSUME NEW j \in 1 .. 26
               PROVE  primes[j] >= Last(primes) \/ \E i \in 1 .. 26 : Right(primes[j], i)
    <3> HIDE DEF Right
    <3> QED  BY <1>1, <2>0
  <2>1. CASE j = 26
    <3>1. primes[26] \in Nat
      BY <1>1, PrimesLarge DEF ToSet
    <3> QED  BY <1>1, <2>1, <3>1
  <2>2. CASE j # 26
    <3>1. j + 1 \in 1 .. 26 /\ (j + 1) - 1 = j /\ j + 1 # 1
      BY <2>2
    <3>2. primes[j + 1] > primes[j] /\ primes[j] <= primes[j]
      BY <2>2, SMT DEF primes
    <3> QED  BY <3>1, <3>2
  <2> QED  BY <2>1, <2>2
<1> HIDE DEF Right
<1>5. \A n \in ToSet(primes) : n >= Last(primes) => next_prime(n) = 0
  BY Zenon DEF next_prime
<1>6. \A n \in ToSet(primes) : n >= Last(primes) \/ (n < Last(primes) /\ ~(n >= Last(primes)))
  <2>1. primes[26] \in Nat
    BY <1>1, PrimesLarge DEF ToSet
  <2> QED  BY <1>1, <2>1, PrimesLarge
<1> QED
  <2>1. next_prime(Buckets) \in ToSet(primes)
    BY <1>1, <1>2, <1>3
  <2> QED  BY <1>2, <1>4, <1>5, <1>6, <2>1

-----------------------------------------------------------------------------
(* Slots in their order *)

(* The places before one are fewer than all, and fewer than those before a     *)
(* later one.                                                                  *)
LEMMA FewerBefore ==
  ASSUME NEW S, S \subseteq Nat \X Nat, IsFiniteSet(S), NEW s \in S
  PROVE  LET below(r) == {q \in S : Before(q, r)}
         IN  /\ Cardinality(below(s)) \in Nat
             /\ Cardinality(below(s)) < Cardinality(S)
             /\ \A r \in S : Before(r, s) => Cardinality(below(r)) < Cardinality(below(s))
<1> DEFINE below(r) == {q \in S : Before(q, r)}
<1>1. \A r \in S : below(r) \subseteq S \ {r}
  BY DEF Before
<1>2. \A r \in S : IsFiniteSet(below(r)) /\ Cardinality(below(r)) \in Nat
  <2>1. \A r \in S : below(r) \in SUBSET S
    OBVIOUS
  <2> HIDE DEF below
  <2> QED  BY <2>1, FS_Subset, FS_CardinalityType
<1>3. \A A, B : IsFiniteSet(B) /\ (\E x \in B : A \subseteq B \ {x}) => Cardinality(A) < Cardinality(B)
  <2> SUFFICES ASSUME NEW A, NEW B, IsFiniteSet(B), NEW x \in B, A \subseteq B \ {x}
               PROVE  Cardinality(A) < Cardinality(B)
    OBVIOUS
  <2>1. IsFiniteSet(B \ {x}) /\ Cardinality(B \ {x}) = Cardinality(B) - 1
    BY FS_RemoveElement
  <2>2. Cardinality(A) <= Cardinality(B \ {x}) /\ IsFiniteSet(A)
    BY <2>1, FS_Subset
  <2>3. Cardinality(A) \in Nat /\ Cardinality(B) \in Nat
    BY <2>2, FS_CardinalityType
  <2> QED  BY <2>1, <2>2, <2>3
<1>4. Cardinality(below(s)) < Cardinality(S)
  <2> HIDE DEF below
  <2> QED  BY <1>1, <1>3
<1>5. ASSUME NEW r \in S, Before(r, s)
      PROVE  Cardinality(below(r)) < Cardinality(below(s))
  <2>1. \A q \in S : Before(q, r) => Before(q, s) /\ q # r
    BY <1>5 DEF Before
  <2>2. r \in below(s) /\ below(r) \subseteq below(s) \ {r}
    BY <1>5, <2>1
  <2> HIDE DEF below
  <2> QED  BY <1>2, <1>3, <2>2
<1> QED  BY <1>2, <1>4, <1>5

(* Each number up to how many there are is the number of one slot.             *)
LEMMA Numbered ==
  ASSUME NEW S, S \subseteq Nat \X Nat, IsFiniteSet(S)
  PROVE  LET nth(i) == CHOOSE s \in S : Cardinality({r \in S : Before(r, s)}) = i - 1
         IN  /\ \A i \in 1 .. Cardinality(S) : nth(i) \in S
             /\ \A i, j \in 1 .. Cardinality(S) : nth(i) = nth(j) => i = j
             /\ \A s \in S : \E i \in 1 .. Cardinality(S) : nth(i) = s
<1> DEFINE number(s) == Cardinality({r \in S : Before(r, s)})
           nth(i) == CHOOSE s \in S : number(s) = i - 1
           N == Cardinality(S)
           rank == [s \in S |-> number(s) + 1]
<1>1. N \in Nat
  BY FS_CardinalityType
<1>2. \A s \in S : /\ number(s) \in Nat /\ number(s) < N
                   /\ \A r \in S : Before(r, s) => number(r) < number(s)
  BY FewerBefore, Zenon
<1>3. \A r, s \in S : r = s \/ Before(r, s) \/ Before(s, r)
  BY DEF Before
<1> HIDE DEF number, N
<1>4. \A r, s \in S : number(r) = number(s) => r = s
  BY <1>2, <1>3
<1>5. \A s \in S : number(s) + 1 \in 1 .. N
  BY <1>1, <1>2
<1>6. rank \in [S -> 1 .. N] /\ \A r, s \in S : rank[r] = rank[s] => r = s
  BY <1>2, <1>4, <1>5
<1>7. IsFiniteSet(1 .. N) /\ Cardinality(1 .. N) = N
  BY <1>1, FS_Interval
<1>8. rank \in Surjection(S, 1 .. N)
  <2> HIDE DEF rank
  <2>1. rank \in Injection(S, 1 .. N)
    BY <1>6, Fun_IsInj, Zenon
  <2> QED  BY <1>7, <2>1, FS_Injection, Zenon DEF N
<1>9. \A i \in 1 .. N : \E s \in S : number(s) = i - 1
  <2>1. \A i \in 1 .. N : \E s \in S : rank[s] = i
    BY <1>8, Zenon DEF Surjection
  <2> QED  BY <1>2, <2>1
<1>10. \A i \in 1 .. N : nth(i) \in S /\ number(nth(i)) = i - 1
  BY <1>9
<1>11. \A s \in S : number(s) + 1 \in 1 .. N /\ nth(number(s) + 1) = s
  <2> SUFFICES ASSUME NEW s \in S
               PROVE  number(s) + 1 \in 1 .. N /\ nth(number(s) + 1) = s
    OBVIOUS
  <2>1. number(s) + 1 \in 1 .. N /\ (number(s) + 1) - 1 = number(s)
    BY <1>2, <1>5
  <2>2. nth(number(s) + 1) \in S /\ number(nth(number(s) + 1)) = number(s)
    BY <1>10, <2>1
  <2> QED  BY <1>4, <2>1, <2>2
<1>12. \A i, j \in 1 .. N : nth(i) = nth(j) => i = j
  <2> SUFFICES ASSUME NEW i \in 1 .. N, NEW j \in 1 .. N, nth(i) = nth(j)
               PROVE  i = j
    OBVIOUS
  <2>1. i - 1 = j - 1
    BY <1>10
  <2> QED  BY <1>1, <2>1
<1> HIDE DEF nth
<1>13. /\ \A i \in 1 .. N : nth(i) \in S
       /\ \A i, j \in 1 .. N : nth(i) = nth(j) => i = j
       /\ \A s \in S : \E i \in 1 .. N : nth(i) = s
  BY <1>10, <1>11, <1>12
<1> QED  BY <1>13 DEF nth, number, N

-----------------------------------------------------------------------------
(* Chains and their places *)

LEMMA ChainsAre ==
  ASSUME NEW D \in Chains
  PROVE  /\ DOMAIN D \subseteq Ids
         /\ D = [b \in DOMAIN D |-> D[b]]
         /\ \A b \in DOMAIN D : /\ D[b] \in Seq(Entries) /\ D[b] # <<>>
                                /\ DOMAIN D[b] = 1 .. Len(D[b]) /\ Len(D[b]) \in Nat \ {0}
                                /\ \A i \in 1 .. Len(D[b]) : D[b][i] \in Entries
<1>1. PICK B \in SUBSET Ids : D \in [B -> Seq(Entries) \ {<<>>}]
  BY DEF Chains
<1>2. DOMAIN D \subseteq Ids /\ D = [b \in DOMAIN D |-> D[b]]
  BY <1>1
<1>3. \A b \in DOMAIN D : D[b] \in Seq(Entries) /\ D[b] # <<>>
  BY <1>1
<1>4. \A b \in DOMAIN D : /\ DOMAIN D[b] = 1 .. Len(D[b]) /\ Len(D[b]) \in Nat \ {0}
                          /\ \A i \in 1 .. Len(D[b]) : D[b][i] \in Entries
  BY <1>3, LenProperties, EmptySeq, ElementOfSeq
<1> QED  BY <1>2, <1>3, <1>4

LEMMA PlacesAre ==
  ASSUME NEW D \in Chains
  PROVE  /\ \A b, i : <<b, i>> \in Places(D) <=> b \in DOMAIN D /\ i \in 1 .. Len(D[b])
         /\ \A s \in Places(D) : /\ s[1] \in DOMAIN D /\ s[2] \in 1 .. Len(D[s[1]])
                                 /\ s = <<s[1], s[2]>> /\ D[s[1]][s[2]] \in Entries
         /\ Places(D) \subseteq Nat \X Nat
         /\ IsFiniteSet(Places(D))
<1> DEFINE Row(b) == {b} \X DOMAIN D[b]
<1>0. /\ \A b \in DOMAIN D : b \in Nat /\ b < 53
      /\ \A b \in DOMAIN D : DOMAIN D[b] = 1 .. Len(D[b]) /\ Len(D[b]) \in Nat \ {0}
  BY ChainsAre, IdsSmall, Zenon
<1>1. \A b \in DOMAIN D : b \in Nat /\ DOMAIN D[b] = 1 .. Len(D[b]) /\ Len(D[b]) \in Nat
  BY <1>0
<1>2. \A b, i : <<b, i>> \in Places(D) <=> b \in DOMAIN D /\ i \in 1 .. Len(D[b])
  BY <1>1 DEF Places
<1>3. \A s \in Places(D) : s[1] \in DOMAIN D /\ s[2] \in 1 .. Len(D[s[1]]) /\ s = <<s[1], s[2]>>
  BY <1>1 DEF Places
<1>4. Places(D) \subseteq Nat \X Nat
  <2> SUFFICES ASSUME NEW s \in Places(D)
               PROVE  s \in Nat \X Nat
    OBVIOUS
  <2>1. s = <<s[1], s[2]>> /\ s[1] \in Nat /\ s[2] \in Nat
    BY <1>1, <1>3
  <2> QED  BY <2>1
<1>5. IsFiniteSet(Places(D))
  <2> DEFINE rows == {Row(b) : b \in DOMAIN D}
             row  == [b \in DOMAIN D |-> Row(b)]
  <2>1. IsFiniteSet(DOMAIN D)
    <3>1. DOMAIN D \in SUBSET Nat /\ \A b \in DOMAIN D : b <= 53
      BY <1>0
    <3> QED  BY <3>1, FS_BoundedSetOfNaturals
  <2>2. row \in Surjection(DOMAIN D, rows)
    BY Fun_IsSurj, Zenon
  <2>3. IsFiniteSet(rows)
    BY <2>1, <2>2, FS_Surjection, Zenon
  <2>4. \A R \in rows : IsFiniteSet(R)
    <3> SUFFICES ASSUME NEW b \in DOMAIN D
                 PROVE  IsFiniteSet(Row(b))
      OBVIOUS
    <3>1. IsFiniteSet({b})
      BY FS_Singleton
    <3>2. IsFiniteSet(DOMAIN D[b])
      BY <1>1, FS_Interval
    <3> QED  BY <3>1, <3>2, FS_Product
  <2> HIDE DEF Row
  <2>5. IsFiniteSet(UNION rows)
    BY <2>3, <2>4, FS_UNION
  <2> QED  BY <2>5, Zenon DEF Places, Row
<1>6. \A s \in Places(D) : D[s[1]][s[2]] \in Entries
  BY <1>3, ChainsAre
<1> QED  BY <1>2, <1>3, <1>4, <1>5, <1>6

LEMMA HeldType ==
  ASSUME NEW D \in Chains, NEW E
  PROVE  /\ IsFiniteSet({s \in Places(D) : D[s[1]][s[2]] \in E})
         /\ Held(D, E) \in Nat
<1>1. {s \in Places(D) : D[s[1]][s[2]] \in E} \in SUBSET Places(D)
  OBVIOUS
<1>2. IsFiniteSet({s \in Places(D) : D[s[1]][s[2]] \in E})
  BY <1>1, PlacesAre, FS_Subset
<1> QED  BY <1>2, FS_CardinalityType DEF Held

(* Every place holds an entry.                                                 *)
LEMMA HeldAll ==
  ASSUME NEW D \in Chains
  PROVE  Held(D, Entries) = Cardinality(Places(D))
<1>1. {s \in Places(D) : D[s[1]][s[2]] \in Entries} = Places(D)
  BY PlacesAre
<1> QED  BY <1>1 DEF Held

(* No chains hold nothing.                                                     *)
LEMMA NoChains ==
  /\ <<>> \in Chains
  /\ Fit(<<>>)
  /\ Places(<<>>) = {}
  /\ Cardinality(Places(<<>>)) = 0
  /\ \A E : Held(<<>>, E) = 0
<1>1. DOMAIN <<>> = {} /\ <<>> = [b \in {} |-> <<>>]
  OBVIOUS
<1>2. <<>> \in Chains
  BY <1>1 DEF Chains
<1>3. Places(<<>>) = {}
  BY <1>1 DEF Places
<1>4. \A E : {s \in Places(<<>>) : <<>>[s[1]][s[2]] \in E} = {}
  BY <1>3
<1> QED  BY <1>1, <1>2, <1>3, <1>4, FS_EmptySet DEF Fit, Held

-----------------------------------------------------------------------------
(* What a copy visits *)

(* A table of a prime number of buckets knows of all its chains.               *)
LEMMA SlotsArePlaces ==
  ASSUME NEW T, T.data \in Chains, T.data = <<>> \/ T.buckets \in ToSet(primes)
  PROVE  Slots(T) = Places(T.data)
<1>1. CASE T.data = <<>>
  <2>1. DOMAIN T.data = {}
    BY <1>1
  <2> QED  BY <2>1 DEF Slots, Places
<1>2. CASE T.buckets \in ToSet(primes)
  <2>1. T.buckets \in Nat /\ T.buckets >= 53
    BY <1>2, PrimesLarge
  <2>2. \A b \in DOMAIN T.data : b \in Nat /\ b < 53
    BY ChainsAre, IdsSmall, Zenon
  <2>3. DOMAIN T.data \cap 0 .. T.buckets - 1 = DOMAIN T.data
    BY <2>1, <2>2
  <2> QED  BY <2>3, Zenon DEF Slots, Places
<1> QED  BY <1>1, <1>2

(* The entries visited are those the chains hold, each as often.               *)
LEMMA VisitedRight ==
  ASSUME NEW T, T.data \in Chains, T.data = <<>> \/ T.buckets \in ToSet(primes)
  PROVE  /\ Visited(T) \in Seq(Entries)
         /\ Len(Visited(T)) = Cardinality(Places(T.data))
         /\ \A E : Among(Visited(T), E) = Held(T.data, E)
<1> DEFINE D == T.data
           S == Places(D)
           N == Cardinality(S)
           nth(i) == CHOOSE s \in S : Cardinality({r \in S : Before(r, s)}) = i - 1
           es == [i \in 1 .. N |-> EntryAt(T, nth(i))]
<1>1. Visited(T) = es
  <2>1. Visited(T) = Listed(T, S)
    BY SlotsArePlaces, Zenon DEF Visited
  <2>2. Listed(T, S) = es
    BY DEF Listed
  <2> QED  BY <2>1, <2>2
<1>2. S \subseteq Nat \X Nat /\ IsFiniteSet(S) /\ \A s \in S : D[s[1]][s[2]] \in Entries
  BY PlacesAre
<1>3. N \in Nat
  BY <1>2, FS_CardinalityType
<1>4. /\ \A i \in 1 .. N : nth(i) \in S
      /\ \A i, j \in 1 .. N : nth(i) = nth(j) => i = j
      /\ \A s \in S : \E i \in 1 .. N : nth(i) = s
  BY <1>2, Numbered, Zenon
<1> HIDE DEF nth, N, S
<1>5. \A i \in 1 .. N : EntryAt(T, nth(i)) = D[nth(i)[1]][nth(i)[2]] /\ EntryAt(T, nth(i)) \in Entries
  BY <1>2, <1>4 DEF EntryAt
<1>6. es \in [1 .. N -> Entries] /\ \A i \in 1 .. N : es[i] = D[nth(i)[1]][nth(i)[2]]
  BY <1>5
<1> HIDE DEF es
<1>7. es \in Seq(Entries) /\ Len(es) = N /\ DOMAIN es = 1 .. N
  <2>1. es \in Seq(Entries)
    BY <1>3, <1>6, SeqDef
  <2>2. DOMAIN es = 1 .. N /\ DOMAIN es = 1 .. Len(es) /\ Len(es) \in Nat
    BY <1>6, <2>1, LenProperties
  <2> QED  BY <1>3, <2>1, <2>2
<1>8. ASSUME NEW E
      PROVE  Among(es, E) = Held(D, E)
  <2> DEFINE A == {i \in 1 .. N : es[i] \in E}
             B == {s \in S : D[s[1]][s[2]] \in E}
             f == [i \in A |-> nth(i)]
  <2>1. f \in [A -> B]
    BY <1>4, <1>6
  <2>2. \A i, j \in A : f[i] = f[j] => i = j
    BY <1>4
  <2>3. \A s \in B : \E i \in A : f[i] = s
    BY <1>4, <1>6
  <2>4. IsFiniteSet(A)
    <3>1. A \in SUBSET (1 .. N)
      OBVIOUS
    <3>2. IsFiniteSet(1 .. N)
      BY <1>3, FS_Interval
    <3> HIDE DEF A
    <3> QED  BY <3>1, <3>2, FS_Subset, Zenon
  <2>5. Cardinality(B) = Cardinality(A)
    <3> HIDE DEF A, B, f
    <3> QED  BY <2>1, <2>2, <2>3, <2>4, SameNumber
  <2>6. Among(es, E) = Cardinality(A)
    BY <1>7 DEF Among
  <2>7. Held(D, E) = Cardinality(B)
    BY DEF Held, S
  <2> QED  BY <2>5, <2>6, <2>7
<1> QED  BY <1>1, <1>7, <1>8 DEF N, S

-----------------------------------------------------------------------------
(* The copies are those that the recursion describes. *)

UpTo(d) == {es \in Seq(Entries) : Len(es) <= d}

(* The copies of up to d entries, by copies of fewer. *)
Made(copy, d) ==
  [n \in Nat |-> [es \in UpTo(d) |->
    IF es = <<>> THEN fp_chained_hash_table_new(n)
    ELSE fp_chained_hash_table_insert(copy[n][Front(es)], Last(es).key, Last(es).value, copy)]]

MadeUpTo(f, m) == f = [d \in 0 .. m |-> Made(f[d - 1], d)]

LEMMA UpToZero == UpTo(0) = {<<>>}
<1>1. \A es \in UpTo(0) : es = <<>>
  <2> SUFFICES ASSUME NEW es \in Seq(Entries), Len(es) <= 0
               PROVE  es = <<>>
    BY DEF UpTo
  <2>1. Len(es) \in Nat
    BY LenProperties
  <2> QED  BY <2>1, EmptySeq
<1>2. <<>> \in UpTo(0)
  BY EmptySeq DEF UpTo
<1> QED  BY <1>1, <1>2

LEMMA MadeZero == \A c1, c2 : Made(c1, 0) = Made(c2, 0)
<1>1. \A c : Made(c, 0) = [n \in Nat |-> [es \in {<<>>} |-> fp_chained_hash_table_new(n)]]
  BY UpToZero DEF Made
<1> QED  BY <1>1

LEMMA MadeExists ==
  ASSUME NEW m \in Nat
  PROVE  \E f : MadeUpTo(f, m)
<1> DEFINE Bad == {k \in Nat : ~ \E f : MadeUpTo(f, k)}
<1> SUFFICES ASSUME Bad # {}
             PROVE  FALSE
  OBVIOUS
<1>1. PICK k \in Bad : \A l \in Bad : k <= l
  <2>1. Bad \subseteq Nat
    OBVIOUS
  <2> HIDE DEF Bad
  <2> QED  BY <2>1, Least
<1>2. CASE k = 0
  <2> DEFINE f == [d \in 0 .. 0 |-> Made(<<>>, 0)]
  <2>1. \A d \in 0 .. 0 : Made(<<>>, 0) = Made(f[d - 1], d)
    <3> HIDE DEF f
    <3>1. \A d \in 0 .. 0 : d = 0
      OBVIOUS
    <3> QED  BY <3>1, MadeZero, Zenon
  <2>2. f = [d \in 0 .. 0 |-> Made(f[d - 1], d)]
    BY <2>1, Zenon
  <2>3. MadeUpTo(f, k)
    <3> HIDE DEF f
    <3> QED  BY <1>2, <2>2 DEF MadeUpTo
  <2> QED  BY <2>3
<1>3. CASE k # 0
  <2>1. k \in Nat /\ k - 1 \in Nat /\ k - 1 \notin Bad
    BY <1>1, <1>3
  <2>2. PICK g : MadeUpTo(g, k - 1)
    BY <2>1
  <2> DEFINE f == [d \in 0 .. k |-> IF d < k THEN g[d] ELSE Made(g[k - 1], k)]
  <2>3. \A d \in 0 .. k - 1 : g[d] = Made(g[d - 1], d)
    BY <2>2 DEF MadeUpTo
  <2>4. \A d \in 0 .. k : d = 0 \/ f[d - 1] = g[d - 1]
    BY <2>1
  <2>5. \A d \in 0 .. k : (IF d < k THEN g[d] ELSE Made(g[k - 1], k)) = Made(f[d - 1], d)
    <3> HIDE DEF f
    <3> SUFFICES ASSUME NEW d \in 0 .. k
                 PROVE  (IF d < k THEN g[d] ELSE Made(g[k - 1], k)) = Made(f[d - 1], d)
      OBVIOUS
    <3>1. Made(g[d - 1], d) = Made(f[d - 1], d)
      BY <2>4, MadeZero
    <3>2. CASE d < k
      BY <2>1, <2>3, <3>1, <3>2
    <3>3. CASE ~(d < k)
      <4>1. d = k
        BY <2>1, <3>3
      <4> QED  BY <3>1, <3>3, <4>1
    <3> QED  BY <3>2, <3>3
  <2>6. f = [d \in 0 .. k |-> Made(f[d - 1], d)]
    BY <2>5, Zenon
  <2>7. MadeUpTo(f, k)
    <3> HIDE DEF f
    <3> QED  BY <2>6 DEF MadeUpTo
  <2> QED  BY <1>1, <2>7
<1> QED  BY <1>2, <1>3

LEMMA MadeAgree ==
  ASSUME NEW m1 \in Nat, NEW m2 \in Nat, NEW f1, NEW f2, MadeUpTo(f1, m1), MadeUpTo(f2, m2),
         NEW d \in Nat, d <= m1, d <= m2
  PROVE  f1[d] = f2[d]
<1> DEFINE Bad == {k \in Nat : k <= m1 /\ k <= m2 /\ f1[k] # f2[k]}
<1> SUFFICES ASSUME Bad # {}
             PROVE  FALSE
  OBVIOUS
<1>1. PICK k \in Bad : \A l \in Bad : k <= l
  <2>1. Bad \subseteq Nat
    OBVIOUS
  <2> HIDE DEF Bad
  <2> QED  BY <2>1, Least
<1>2. k \in 0 .. m1 /\ k \in 0 .. m2 /\ k \in Nat
  OBVIOUS
<1>3. f1[k] = Made(f1[k - 1], k) /\ f2[k] = Made(f2[k - 1], k)
  BY <1>2 DEF MadeUpTo
<1>4. k = 0 \/ f1[k - 1] = f2[k - 1]
  <2> SUFFICES ASSUME k # 0
               PROVE  f1[k - 1] = f2[k - 1]
    OBVIOUS
  <2>1. k - 1 \in Nat /\ k - 1 <= m1 /\ k - 1 <= m2 /\ ~(k <= k - 1)
    BY <1>2
  <2> QED  BY <1>1, <2>1
<1>5. f1[k] = f2[k]
  BY <1>3, <1>4, MadeZero
<1> QED  BY <1>1, <1>5

LEMMA CopiedIs ==
  ASSUME NEW d \in Nat
  PROVE  Copied[d] = Made(Copied[d - 1], d)
<1> DEFINE G(k) == CHOOSE g : MadeUpTo(g, k)
           f == [k \in Nat |-> G(k)[k]]
<1>1. \A k \in Nat : MadeUpTo(G(k), k)
  BY MadeExists, Zenon
<1>2. \A k \in Nat : k = 0 \/ (k - 1 \in Nat /\ G(k)[k - 1] = G(k - 1)[k - 1])
  <2> HIDE DEF G
  <2> SUFFICES ASSUME NEW k \in Nat, k # 0
               PROVE  k - 1 \in Nat /\ G(k)[k - 1] = G(k - 1)[k - 1]
    OBVIOUS
  <2>1. k - 1 \in Nat /\ k - 1 <= k /\ k - 1 <= k - 1
    OBVIOUS
  <2> QED  BY <1>1, <2>1, MadeAgree
<1>3. \A k \in Nat : G(k)[k] = Made(f[k - 1], k)
  <2> HIDE DEF G
  <2> SUFFICES ASSUME NEW k \in Nat
               PROVE  G(k)[k] = Made(f[k - 1], k)
    OBVIOUS
  <2>1. G(k)[k] = Made(G(k)[k - 1], k)
    <3>1. k \in 0 .. k
      OBVIOUS
    <3> QED  BY <1>1, <3>1 DEF MadeUpTo
  <2>2. k = 0 \/ f[k - 1] = G(k)[k - 1]
    BY <1>2
  <2> QED  BY <2>1, <2>2, MadeZero
<1>4. f = [k \in Nat |-> Made(f[k - 1], k)]
  <2>1. f = [k \in Nat |-> G(k)[k]]
    OBVIOUS
  <2> HIDE DEF f, G
  <2> QED  BY <1>3, <2>1, Zenon
<1>5. Copied = CHOOSE g : g = [k \in Nat |-> Made(g[k - 1], k)]
  BY Zenon DEF Copied, Made, UpTo
<1> HIDE DEF f
<1>6. Copied = [k \in Nat |-> Made(Copied[k - 1], k)]
  BY <1>4, <1>5, Zenon
<1> QED  BY <1>6, Zenon

-----------------------------------------------------------------------------
(* Insertion *)

(* An entry before the chain of its key, or as that chain. *)
Prepended(D, k, v) ==
  [c \in DOMAIN D \cup {k} |->
    IF c = k THEN <<[key |-> k, value |-> v]>> \o (IF k \in DOMAIN D THEN D[k] ELSE <<>>) ELSE D[c]]

(* It is one entry more, and the chains are those of their keys still.         *)
LEMMA PrependRight ==
  ASSUME NEW D, Fit(D), NEW k \in Ids, NEW v \in Values
  PROVE  /\ Fit(Prepended(D, k, v))
         /\ \A E : Held(Prepended(D, k, v), E)
                    = Held(D, E) + (IF [key |-> k, value |-> v] \in E THEN 1 ELSE 0)
<1> DEFINE D2  == Prepended(D, k, v)
           e   == [key |-> k, value |-> v]
           old == IF k \in DOMAIN D THEN D[k] ELSE <<>>
           new == <<e>> \o old
<1>1. D \in Chains /\ e \in Entries /\ e.key = k /\ <<e>> \in Seq(Entries)
      /\ Len(<<e>>) = 1 /\ <<e>>[1] = e
  BY DEF Fit, Entries
<1>2. old \in Seq(Entries) /\ Len(old) \in Nat
  BY <1>1, ChainsAre, EmptySeq, LenProperties
<1>3. /\ new \in Seq(Entries) /\ Len(new) = 1 + Len(old)
      /\ \A i \in 1 .. 1 + Len(old) : new[i] = IF i <= 1 THEN <<e>>[i] ELSE old[i - 1]
  <2> HIDE DEF old, e
  <2> QED  BY <1>1, <1>2, ConcatProperties
<1>4. new # <<>> /\ new[1] = e /\ \A i \in 1 .. Len(old) : new[i + 1] = old[i]
  <2> HIDE DEF old, e, new
  <2>1. Len(new) # 0
    BY <1>2, <1>3
  <2>2. new # <<>>
    BY <2>1, EmptySeq
  <2>3. new[1] = e
    BY <1>1, <1>2, <1>3
  <2>4. \A i \in 1 .. Len(old) : i + 1 \in 1 .. 1 + Len(old) /\ ~(i + 1 <= 1) /\ (i + 1) - 1 = i
    BY <1>2
  <2> QED  BY <1>3, <2>2, <2>3, <2>4
<1>5. D2 = [c \in DOMAIN D \cup {k} |-> IF c = k THEN new ELSE D[c]]
  BY DEF Prepended
<1> HIDE DEF new, e, D2
<1>6. DOMAIN D2 = DOMAIN D \cup {k} /\ D2[k] = new /\ \A c \in DOMAIN D : c # k => D2[c] = D[c]
  BY <1>5
<1>7. D2 \in Chains
  <2>1. DOMAIN D \cup {k} \in SUBSET Ids
    BY <1>1, ChainsAre
  <2>2. \A c \in DOMAIN D \cup {k} : (IF c = k THEN new ELSE D[c]) \in Seq(Entries) \ {<<>>}
    BY <1>1, <1>3, <1>4, ChainsAre
  <2>3. D2 \in [DOMAIN D \cup {k} -> Seq(Entries) \ {<<>>}]
    BY <1>5, <2>2
  <2> QED  BY <2>1, <2>3, Zenon DEF Chains
<1>8. \A i \in 1 .. Len(new) : new[i].key = k
  <2> SUFFICES ASSUME NEW i \in 1 .. Len(new)
               PROVE  new[i].key = k
    OBVIOUS
  <2>1. CASE i = 1
    BY <1>1, <1>4, <2>1
  <2>2. CASE i # 1
    <3>1. i - 1 \in 1 .. Len(old) /\ (i - 1) + 1 = i
      BY <1>2, <1>3, <2>2
    <3>2. new[i] = old[i - 1]
      BY <1>4, <3>1
    <3>3. k \in DOMAIN D /\ old = D[k] /\ i - 1 \in DOMAIN D[k]
      BY <1>1, <3>1, ChainsAre, EmptySeq
    <3> QED  BY <3>2, <3>3 DEF Fit
  <2> QED  BY <2>1, <2>2
<1>9. Fit(D2)
  <2>1. DOMAIN new = 1 .. Len(new)
    BY <1>3, LenProperties
  <2> QED  BY <1>6, <1>7, <1>8, <2>1 DEF Fit
<1>10. /\ k \in DOMAIN D => /\ Len(D2[k]) = Len(D[k]) + 1
                            /\ \A i \in 1 .. Len(D[k]) : D2[k][i + 1] = D[k][i]
       /\ k \notin DOMAIN D => Len(D2[k]) = 1
  BY <1>2, <1>3, <1>4, <1>6, EmptySeq
<1>11. ASSUME NEW E
       PROVE  Held(D2, E) = Held(D, E) + (IF e \in E THEN 1 ELSE 0)
  <2> DEFINE A == {s \in Places(D) : D[s[1]][s[2]] \in E}
             B == {s \in Places(D2) : D2[s[1]][s[2]] \in E}
             C == B \ {<<k, 1>>}
             to(s) == IF s[1] = k THEN <<k, s[2] + 1>> ELSE s
             f == [s \in A |-> to(s)]
  <2>1. /\ D \in Chains /\ D2 \in Chains
        /\ DOMAIN D2 = DOMAIN D \cup {k}
        /\ \A c \in DOMAIN D : c # k => D2[c] = D[c]
        /\ D2[k][1] = e
        /\ k \in DOMAIN D => /\ Len(D2[k]) = Len(D[k]) + 1
                             /\ \A i \in 1 .. Len(D[k]) : D2[k][i + 1] = D[k][i]
        /\ k \notin DOMAIN D => Len(D2[k]) = 1
    BY <1>1, <1>4, <1>6, <1>7, <1>10, Zenon
  <2> HIDE DEF old
  <2>2. /\ \A s \in Places(D) : s[1] \in DOMAIN D /\ s[2] \in 1 .. Len(D[s[1]]) /\ s = <<s[1], s[2]>>
        /\ \A s \in Places(D2) : s[1] \in DOMAIN D2 /\ s[2] \in 1 .. Len(D2[s[1]]) /\ s = <<s[1], s[2]>>
    BY <2>1, PlacesAre
  <2>3. /\ \A b \in DOMAIN D : \A i \in 1 .. Len(D[b]) : <<b, i>> \in Places(D)
        /\ \A b \in DOMAIN D2 : \A i \in 1 .. Len(D2[b]) : <<b, i>> \in Places(D2)
    BY <2>1, PlacesAre
  <2>4. \A b \in DOMAIN D : Len(D[b]) \in Nat \ {0}
    BY <2>1, ChainsAre
  <2>5. \A s \in A : to(s) \in C
    <3> SUFFICES ASSUME NEW s \in A
                 PROVE  to(s) \in C
      OBVIOUS
    <3>1. s[1] \in DOMAIN D /\ s[2] \in 1 .. Len(D[s[1]]) /\ s = <<s[1], s[2]>> /\ D[s[1]][s[2]] \in E
      BY <2>2
    <3>2. CASE s[1] = k
      <4>1. s[2] + 1 \in 1 .. Len(D2[k]) /\ s[2] + 1 # 1 /\ D2[k][s[2] + 1] = D[k][s[2]]
        BY <2>1, <2>4, <3>1, <3>2
      <4>2. <<k, s[2] + 1>> \in Places(D2)
        BY <2>1, <2>3, <4>1
      <4> QED  BY <3>1, <3>2, <4>1, <4>2
    <3>3. CASE s[1] # k
      <4>1. s[1] \in DOMAIN D2 /\ D2[s[1]] = D[s[1]]
        BY <2>1, <3>1, <3>3
      <4>3. <<s[1], s[2]>> \in Places(D2)
        BY <2>3, <3>1, <4>1
      <4>2. s # <<k, 1>>
        BY <3>3
      <4> QED  BY <3>1, <3>3, <4>1, <4>3, <4>2
    <3> QED  BY <3>2, <3>3
  <2>6. \A r, s \in A : to(r) = to(s) => r = s
    <3> SUFFICES ASSUME NEW r \in A, NEW s \in A, to(r) = to(s)
                 PROVE  r = s
      OBVIOUS
    <3>1. /\ r = <<r[1], r[2]>> /\ r[2] \in Nat /\ s = <<s[1], s[2]>> /\ s[2] \in Nat
      BY <2>2, <2>4
    <3>2. to(r)[1] = r[1] /\ to(s)[1] = s[1]
      BY <3>1
    <3>3. r[2] = s[2]
      BY <3>1, <3>2
    <3> QED  BY <3>1, <3>2, <3>3
  <2>7. \A z \in C : \E s \in A : to(s) = z
    <3> SUFFICES ASSUME NEW z \in C
                 PROVE  \E s \in A : to(s) = z
      OBVIOUS
    <3>1. /\ z[1] \in DOMAIN D2 /\ z[2] \in 1 .. Len(D2[z[1]]) /\ z = <<z[1], z[2]>>
          /\ D2[z[1]][z[2]] \in E /\ z # <<k, 1>>
      BY <2>2
    <3>2. CASE z[1] = k
      <4>1. z[2] # 1
        BY <3>1, <3>2
      <4>2. k \in DOMAIN D
        BY <2>1, <3>1, <3>2, <4>1
      <4> DEFINE i == z[2] - 1
      <4>3. i \in 1 .. Len(D[k]) /\ i + 1 = z[2]
        BY <2>1, <2>4, <3>1, <3>2, <4>1, <4>2
      <4>4. <<k, i>> \in A
        BY <2>1, <2>3, <3>1, <3>2, <4>2, <4>3
      <4>5. to(<<k, i>>) = z
        BY <3>1, <3>2, <4>3
      <4> QED  BY <4>4, <4>5
    <3>3. CASE z[1] # k
      <4>1. z[1] \in DOMAIN D /\ D2[z[1]] = D[z[1]]
        BY <2>1, <3>1, <3>3
      <4>2. z \in A
        BY <2>3, <3>1, <4>1
      <4> QED  BY <3>3, <4>2
    <3> QED  BY <3>2, <3>3
  <2>8. IsFiniteSet(A) /\ IsFiniteSet(B)
    BY <2>1, HeldType
  <2>9. Cardinality(C) = Cardinality(A)
    <3>1. f \in [A -> C] /\ (\A r, s \in A : f[r] = f[s] => r = s) /\ (\A z \in C : \E s \in A : f[s] = z)
      BY <2>5, <2>6, <2>7
    <3> HIDE DEF A, C, f
    <3> QED  BY <2>8, <3>1, SameNumber
  <2>10. <<k, 1>> \in B <=> e \in E
    <3>1. <<k, 1>> \in Places(D2)
      <4>1. k \in DOMAIN D2 /\ 1 \in 1 .. Len(D2[k])
        BY <2>1, <2>4
      <4> QED  BY <2>3, <4>1
    <3> QED  BY <2>1, <3>1
  <2>11. Cardinality(A) \in Nat /\ Cardinality(B) \in Nat
    <3> HIDE DEF A, B
    <3> QED  BY <2>8, FS_CardinalityType
  <2>12. Cardinality(C) = IF <<k, 1>> \in B THEN Cardinality(B) - 1 ELSE Cardinality(B)
    <3> HIDE DEF B
    <3> QED  BY <2>8, FS_RemoveElement
  <2>13. Held(D, E) = Cardinality(A) /\ Held(D2, E) = Cardinality(B)
    BY DEF Held
  <2> HIDE DEF A, B, C
  <2>14. Cardinality(B) = Cardinality(A) + (IF <<k, 1>> \in B THEN 1 ELSE 0)
    BY <2>9, <2>11, <2>12
  <2> QED  BY <2>10, <2>13, <2>14, Zenon
<1> QED  BY <1>9, <1>11, Zenon DEF e, D2

-----------------------------------------------------------------------------
(* Growing *)

LEMMA HashIndex ==
  ASSUME NEW T, T.buckets \in ToSet(primes), NEW k \in Ids
  PROVE  hash_index(T, k) = k
<1>1. T.buckets \in Nat /\ k \in Nat /\ k < T.buckets
  BY PrimesLarge, IdsSmall
<1>2. \A m, n \in Nat : m < n => m % n = m
  BY SMT
<1> QED  BY <1>1, <1>2 DEF hash_index

(* The last of some entries is one more of them.                               *)
LEMMA AmongLast ==
  ASSUME NEW es \in Seq(Entries), es # <<>>
  PROVE  /\ Front(es) \in Seq(Entries) /\ Len(Front(es)) = Len(es) - 1
         /\ Last(es).key \in Ids /\ Last(es).value \in Values
         /\ \A E : Among(es, E)
                   = Among(Front(es), E)
                     + (IF [key |-> Last(es).key, value |-> Last(es).value] \in E THEN 1 ELSE 0)
<1> DEFINE n == Len(es)
           fs == Front(es)
<1>1. n \in Nat \ {0} /\ DOMAIN es = 1 .. n /\ \A i \in 1 .. n : es[i] \in Entries
  BY EmptySeq, LenProperties, ElementOfSeq
<1> HIDE DEF n
<1>2. fs = SubSeq(es, 1, n - 1)
  BY DEF Front, n
<1> HIDE DEF fs
<1>3. /\ fs \in Seq(Entries) /\ Len(fs) = n - 1
      /\ \A i \in 1 .. n - 1 : fs[i] = es[i]
  <2>1. /\ fs \in Seq(Entries) /\ Len(fs) = IF 1 <= n - 1 THEN (n - 1) - 1 + 1 ELSE 0
        /\ \A i \in 1 .. (n - 1) - 1 + 1 : fs[i] = es[1 + i - 1]
    <3>1. \A i \in 1 .. n - 1 : es[i] \in Entries
      BY <1>1
    <3> QED  BY <1>1, <1>2, <3>1, SubSeqProperties
  <2> QED  BY <1>1, <2>1
<1>4. DOMAIN fs = 1 .. n - 1
  BY <1>3, LenProperties
<1>5. Last(es) = es[n] /\ Last(es) \in Entries
  BY <1>1 DEF Last, n
<1>6. Last(es).key \in Ids /\ Last(es).value \in Values
      /\ Last(es) = [key |-> Last(es).key, value |-> Last(es).value]
  BY <1>5 DEF Entries
<1>7. ASSUME NEW E
      PROVE  Among(es, E) = Among(fs, E) + (IF Last(es) \in E THEN 1 ELSE 0)
  <2> DEFINE A == {i \in 1 .. n : es[i] \in E}
             B == {i \in 1 .. n - 1 : fs[i] \in E}
  <2>1. B = {i \in 1 .. n - 1 : es[i] \in E}
    BY <1>3
  <2>2. n \notin B /\ A = IF es[n] \in E THEN B \cup {n} ELSE B
    BY <1>1, <2>1
  <2>3. IsFiniteSet(B)
    <3>1. B \in SUBSET (1 .. n - 1)
      OBVIOUS
    <3>2. IsFiniteSet(1 .. n - 1)
      BY <1>1, FS_Interval
    <3> HIDE DEF B
    <3> QED  BY <3>1, <3>2, FS_Subset, Zenon
  <2>4. Among(es, E) = Cardinality(A)
    BY <1>1 DEF Among
  <2>5. Among(fs, E) = Cardinality(B)
    BY <1>4 DEF Among
  <2> HIDE DEF A, B
  <2>6. Cardinality(B) \in Nat
    BY <2>3, FS_CardinalityType
  <2>7. CASE es[n] \in E
    <3>1. Cardinality(A) = Cardinality(B) + 1
      BY <2>2, <2>3, <2>7, FS_AddElement
    <3> QED  BY <1>5, <2>4, <2>5, <2>7, <3>1
  <2>8. CASE es[n] \notin E
    BY <1>5, <2>2, <2>4, <2>5, <2>6, <2>8
  <2> QED  BY <2>7, <2>8
<1> QED  BY <1>3, <1>6, <1>7, Zenon DEF fs, n

(* What is loaded: a table that holds nothing is.                              *)
LEMMA EmptyLoaded ==
  ASSUME NEW T, T.size = 0, T.buckets \in Nat
  PROVE  Loaded(T)
BY DEF Loaded

LEMMA GoodIs ==
  ASSUME NEW T, Good(T)
  PROVE  /\ T = [size |-> T.size, buckets |-> T.buckets, data |-> T.data]
         /\ T.size \in Nat /\ T.buckets \in Nat
         /\ T.buckets \in ToSet(primes) \/ (T.buckets = Buckets /\ T.data = <<>> /\ T.size = 0)
         /\ T.data \in Chains /\ Fit(T.data) /\ T.size = Cardinality(Places(T.data))
<1>1. T \in Tables /\ Fit(T.data) /\ T.size = Cardinality(Places(T.data))
  BY DEF Good
<1>2. /\ T = [size |-> T.size, buckets |-> T.buckets, data |-> T.data]
      /\ T.size \in Nat /\ T.buckets \in {Buckets} \cup ToSet(primes) /\ T.data \in Chains
  BY <1>1 DEF Tables
<1>3. T.buckets \in Nat
  BY <1>2, PrimesLarge, IdsSmall
<1>4. T.buckets = Buckets => T.data = <<>> /\ T.size = 0
  BY <1>1, NoChains DEF Good
<1> QED  BY <1>1, <1>2, <1>3, <1>4

(* A table with as many places in other chains is good.                        *)
LEMMA GoodNew ==
  ASSUME NEW T, NEW n \in Nat, NEW b \in ToSet(primes), NEW D, Fit(D), n = Cardinality(Places(D)),
         T = [size |-> n, buckets |-> b, data |-> D]
  PROVE  Good(T)
<1>1. T \in Tables
  BY DEF Tables, Fit
<1>2. T.buckets # Buckets
  BY PrimesLarge, IdsSmall
<1> QED  BY <1>1, <1>2 DEF Good

(* A table that grows keeps its entries, and has a prime number of buckets     *)
(* when something is inserted.                                                 *)
LEMMA GrownRight ==
  ASSUME NEW d \in Nat, NEW copy, CopiesRight(copy, d), NEW T, Good(T), T.size <= d
  PROVE  LET grown == IF Loaded(T) THEN fp_chained_hash_table_resize(T, copy) ELSE T
         IN  /\ Good(grown) /\ grown.size = T.size /\ grown.buckets \in ToSet(primes)
             /\ \A E \in SUBSET Entries : Held(grown.data, E) = Held(T.data, E)
<1> DEFINE n == next_prime(T.buckets)
           c == copy[n][Visited(T)]
           grown == IF Loaded(T) THEN fp_chained_hash_table_resize(T, copy) ELSE T
<1>1. /\ T = [size |-> T.size, buckets |-> T.buckets, data |-> T.data]
      /\ T.size \in Nat /\ T.buckets \in Nat
      /\ T.buckets \in ToSet(primes) \/ (T.buckets = Buckets /\ T.data = <<>> /\ T.size = 0)
      /\ T.data \in Chains /\ T.size = Cardinality(Places(T.data))
  BY GoodIs, Zenon
<1>2. \A m \in ToSet(primes) : m # 0
  BY PrimesLarge
<1>3. CASE ~Loaded(T)
  <2>1. T.buckets \in ToSet(primes)
    BY <1>1, <1>3, EmptyLoaded, Zenon
  <2> QED  BY <1>3, <2>1
<1>4. CASE Loaded(T) /\ n = 0
  <2>1. T.buckets \in ToSet(primes)
    BY <1>1, <1>2, <1>4, NextPrime, Zenon
  <2>2. grown = T
    BY <1>4, Zenon DEF fp_chained_hash_table_resize
  <2> HIDE DEF grown
  <2>3. /\ Good(grown) /\ grown.size = T.size /\ grown.buckets \in ToSet(primes)
        /\ \A E \in SUBSET Entries : Held(grown.data, E) = Held(T.data, E)
    BY <2>1, <2>2
  <2> QED  BY <2>3 DEF grown
<1>5. CASE Loaded(T) /\ n # 0
  <2>1. n \in ToSet(primes)
    BY <1>1, <1>5, NextPrime, Zenon
  <2>2. /\ Visited(T) \in Seq(Entries)
        /\ Len(Visited(T)) = T.size
        /\ \A E : Among(Visited(T), E) = Held(T.data, E)
    BY <1>1, VisitedRight
  <2> HIDE DEF n
  <2>3. /\ Good(c) /\ c.size = T.size
        /\ \A E \in SUBSET Entries : Held(c.data, E) = Held(T.data, E)
    BY <2>1, <2>2, Zenon DEF CopiesRight
  <2>4. grown = [T EXCEPT !.buckets = n, !.data = c.data]
    BY <1>5, Zenon DEF fp_chained_hash_table_resize, n
  <2> HIDE DEF c, grown
  <2>5. grown = [size |-> T.size, buckets |-> n, data |-> c.data]
    BY <1>1, <2>4
  <2>6. Fit(c.data) /\ T.size = Cardinality(Places(c.data))
    BY <2>3, GoodIs
  <2>7. Good(grown)
    BY <1>1, <2>1, <2>5, <2>6, GoodNew
  <2>8. /\ Good(grown) /\ grown.size = T.size /\ grown.buckets \in ToSet(primes)
        /\ \A E \in SUBSET Entries : Held(grown.data, E) = Held(T.data, E)
    BY <2>1, <2>3, <2>5, <2>7
  <2> QED  BY <2>8 DEF grown
<1> HIDE DEF n, grown
<1>6. /\ Good(grown) /\ grown.size = T.size /\ grown.buckets \in ToSet(primes)
      /\ \A E \in SUBSET Entries : Held(grown.data, E) = Held(T.data, E)
  BY <1>3, <1>4, <1>5 DEF grown
<1> QED  BY <1>6 DEF grown

(* An insertion adds its entry and nothing else, whether or not the table      *)
(* grows for it.                                                               *)
LEMMA InsertRight ==
  ASSUME NEW d \in Nat, NEW copy, CopiesRight(copy, d), NEW T, Good(T), T.size <= d,
         NEW k \in Ids, NEW v \in Values
  PROVE  LET N == fp_chained_hash_table_insert(T, k, v, copy)
         IN  /\ Good(N) /\ N.size = T.size + 1 /\ N.buckets \in ToSet(primes)
             /\ \A E \in SUBSET Entries :
                  Held(N.data, E)
                  = Held(T.data, E) + (IF [key |-> k, value |-> v] \in E THEN 1 ELSE 0)
<1> DEFINE grown == IF Loaded(T) THEN fp_chained_hash_table_resize(T, copy) ELSE T
           e == [key |-> k, value |-> v]
           G == [grown EXCEPT !.size = @ + 1]
           N == fp_chained_hash_table_insert(T, k, v, copy)
<1>1. /\ Good(grown) /\ grown.size = T.size /\ grown.buckets \in ToSet(primes)
      /\ \A E \in SUBSET Entries : Held(grown.data, E) = Held(T.data, E)
  BY GrownRight
<1>2. N = SetChain([grown EXCEPT !.size = @ + 1], hash_index(grown, k),
                   <<e>> \o Chain(grown, hash_index(grown, k)))
  BY Zenon DEF fp_chained_hash_table_insert
<1> HIDE DEF grown, N
<1>3. /\ grown = [size |-> grown.size, buckets |-> grown.buckets, data |-> grown.data]
      /\ grown.size \in Nat /\ grown.data \in Chains
      /\ Fit(grown.data) /\ grown.size = Cardinality(Places(grown.data))
  BY <1>1, GoodIs, Zenon
<1>4. hash_index(grown, k) = k
  BY <1>1, HashIndex, Zenon
<1> DEFINE D == grown.data
           P == Prepended(D, k, v)
           new == <<e>> \o Chain(grown, k)
<1>5. Chain(grown, k) = IF k \in DOMAIN D THEN D[k] ELSE <<>>
  BY Zenon DEF Chain
<1>6. new # <<>>
  <2>1. Chain(grown, k) \in Seq(Entries)
    <3>1. k \in DOMAIN D => D[k] \in Seq(Entries)
      BY <1>3, ChainsAre, Zenon
    <3> QED  BY <1>5, <3>1, EmptySeq, Zenon
  <2>2. <<e>> \in Seq(Entries) /\ Len(<<e>>) = 1
    BY DEF Entries
  <2>3. Len(Chain(grown, k)) \in Nat
    BY <2>1, LenProperties
  <2> HIDE DEF e
  <2>4. Len(new) = 1 + Len(Chain(grown, k))
    BY <2>1, <2>2, ConcatProperties
  <2> QED  BY <2>3, <2>4, EmptySeq
<1>7. P = [c \in DOMAIN D \cup {k} |-> IF c = k THEN new ELSE D[c]]
  BY <1>5, Zenon DEF Prepended
<1>8. G = [size |-> grown.size + 1, buckets |-> grown.buckets, data |-> D]
  BY <1>3
<1> HIDE DEF new, e, D
<1>9. N = [G EXCEPT !.data = [c \in (DOMAIN G.data \ {k}) \cup (IF new = <<>> THEN {} ELSE {k})
                               |-> IF c = k THEN new ELSE G.data[c]]]
  BY <1>2, <1>4, Zenon DEF SetChain, new
<1> HIDE DEF G
<1>10. N = [size |-> grown.size + 1, buckets |-> grown.buckets, data |-> P]
  <2>1. G.data = D
    BY <1>8
  <2>2. (DOMAIN D \ {k}) \cup (IF new = <<>> THEN {} ELSE {k}) = DOMAIN D \cup {k}
    BY <1>6
  <2>3. N = [G EXCEPT !.data = P]
    <3> HIDE DEF P
    <3> QED  BY <1>7, <1>9, <2>1, <2>2, Zenon
  <2> HIDE DEF P
  <2> QED  BY <1>8, <2>3
<1>11. /\ Fit(P)
       /\ \A E : Held(P, E) = Held(D, E) + (IF e \in E THEN 1 ELSE 0)
  BY <1>3, PrependRight, Zenon DEF D, e
<1>12. e \in Entries
  BY DEF e, Entries
<1> HIDE DEF P
<1>13. grown.size + 1 = Cardinality(Places(P)) /\ grown.size + 1 \in Nat
  <2>1. P \in Chains /\ D \in Chains
    BY <1>3, <1>11 DEF Fit, D
  <2>2. Held(P, Entries) = Cardinality(Places(P)) /\ Held(D, Entries) = Cardinality(Places(D))
    BY <2>1, HeldAll
  <2>3. grown.size = Cardinality(Places(D))
    BY <1>3 DEF D
  <2>4. Held(P, Entries) = Held(D, Entries) + 1
    BY <1>11, <1>12
  <2> QED  BY <1>3, <2>2, <2>3, <2>4
<1>14. Good(N)
  BY <1>1, <1>10, <1>11, <1>13, GoodNew
<1>15. N.size = T.size + 1 /\ N.buckets \in ToSet(primes) /\ N.data = P
  BY <1>1, <1>10
<1>16. \A E \in SUBSET Entries : Held(N.data, E) = Held(T.data, E) + (IF e \in E THEN 1 ELSE 0)
  <2>1. \A E \in SUBSET Entries : Held(D, E) = Held(T.data, E)
    BY <1>1, Zenon DEF D
  <2> QED  BY <1>11, <1>15, <2>1, Zenon
<1> QED  BY <1>14, <1>15, <1>16, Zenon DEF N, e

(* A new table holds nothing.                                                  *)
LEMMA NewRight ==
  ASSUME NEW n \in {Buckets} \cup ToSet(primes)
  PROVE  LET N == fp_chained_hash_table_new(n)
         IN  Good(N) /\ N.size = 0 /\ N.buckets = n /\ N.data = <<>>
<1> DEFINE N == fp_chained_hash_table_new(n)
<1>1. N = [size |-> 0, buckets |-> n, data |-> <<>>]
  BY DEF fp_chained_hash_table_new
<1> HIDE DEF N
<1>2. N.size = 0 /\ N.buckets = n /\ N.data = <<>>
  BY <1>1
<1>3. N \in Tables
  BY <1>1, NoChains, SMT DEF Tables
<1>4. Good(N)
  BY <1>2, <1>3, NoChains DEF Good
<1> QED  BY <1>2, <1>4 DEF N

(* The sequences a copy is made from may be shorter than it allows.            *)
LEMMA MadeRight ==
  ASSUME NEW d \in Nat, NEW copy, d = 0 \/ CopiesRight(copy, d - 1)
  PROVE  CopiesRight(Made(copy, d), d)
<1> SUFFICES ASSUME NEW n \in ToSet(primes), NEW es \in Seq(Entries), Len(es) <= d
             PROVE  LET c == Made(copy, d)[n][es]
                    IN  /\ Good(c) /\ c.size = Len(es)
                        /\ \A E \in SUBSET Entries : Held(c.data, E) = Among(es, E)
  BY Zenon DEF CopiesRight
<1> DEFINE c == Made(copy, d)[n][es]
           N == fp_chained_hash_table_new(n)
           T == copy[n][Front(es)]
           I == fp_chained_hash_table_insert(T, Last(es).key, Last(es).value, copy)
<1>1. n \in Nat /\ es \in UpTo(d)
  BY PrimesLarge DEF UpTo
<1>2. c = IF es = <<>> THEN N ELSE I
  BY <1>1, Zenon DEF Made
<1> HIDE DEF c
<1>3. CASE es = <<>>
  <2>1. c = N /\ Len(es) = 0
    BY <1>2, <1>3
  <2>2. Good(N) /\ N.size = 0 /\ N.data = <<>>
    BY NewRight
  <2>3. \A E : Among(es, E) = 0
    <3>1. DOMAIN es = {}
      BY <1>3
    <3>2. \A E : {i \in DOMAIN es : es[i] \in E} = {}
      BY <3>1
    <3> QED  BY <3>2, FS_EmptySet DEF Among
  <2> HIDE DEF N
  <2>4. Good(c) /\ c.size = Len(es) /\ c.data = <<>>
    BY <2>1, <2>2
  <2> QED  BY <2>3, <2>4, NoChains DEF c
<1>4. CASE es # <<>>
  <2>1. /\ Front(es) \in Seq(Entries) /\ Len(Front(es)) = Len(es) - 1
        /\ Last(es).key \in Ids /\ Last(es).value \in Values
        /\ \A E : Among(es, E)
                  = Among(Front(es), E)
                    + (IF [key |-> Last(es).key, value |-> Last(es).value] \in E THEN 1 ELSE 0)
    BY <1>4, AmongLast
  <2>2. Len(es) \in Nat \ {0}
    BY <1>4, EmptySeq
  <2>3. d - 1 \in Nat /\ Len(Front(es)) <= d - 1 /\ CopiesRight(copy, d - 1)
    BY <2>1, <2>2
  <2>4. /\ Good(T) /\ T.size = Len(Front(es))
        /\ \A E \in SUBSET Entries : Held(T.data, E) = Among(Front(es), E)
    BY <2>1, <2>3, Zenon DEF CopiesRight
  <2> HIDE DEF T
  <2>5. /\ Good(I) /\ I.size = T.size + 1
        /\ \A E \in SUBSET Entries :
             Held(I.data, E)
             = Held(T.data, E) + (IF [key |-> Last(es).key, value |-> Last(es).value] \in E
                                  THEN 1 ELSE 0)
    <3>1. T.size <= d - 1
      BY <2>3, <2>4
    <3> QED  BY <2>1, <2>3, <2>4, <3>1, InsertRight
  <2>6. c = I
    BY <1>2, <1>4
  <2> HIDE DEF I
  <2>7. c.size = Len(es)
    BY <2>1, <2>2, <2>4, <2>5, <2>6
  <2>8. \A E \in SUBSET Entries : Held(c.data, E) = Among(es, E)
    BY <2>1, <2>4, <2>5, <2>6, Zenon
  <2> QED  BY <2>5, <2>6, <2>7, <2>8, Zenon DEF c
<1> QED  BY <1>3, <1>4

(* Every copy is right, by the number of entries copied.                       *)
LEMMA CopiesAreRight ==
  ASSUME NEW d \in Nat
  PROVE  CopiesRight(Copied[d], d)
<1> DEFINE Bad == {k \in Nat : ~ CopiesRight(Copied[k], k)}
<1> SUFFICES ASSUME Bad # {}
             PROVE  FALSE
  OBVIOUS
<1>1. PICK k \in Bad : \A l \in Bad : k <= l
  <2>1. Bad \subseteq Nat
    OBVIOUS
  <2> HIDE DEF Bad
  <2> QED  BY <2>1, Least
<1>2. k \in Nat /\ ~ CopiesRight(Copied[k], k)
  OBVIOUS
<1>3. k = 0 \/ CopiesRight(Copied[k - 1], k - 1)
  <2> SUFFICES ASSUME k # 0
               PROVE  CopiesRight(Copied[k - 1], k - 1)
    OBVIOUS
  <2>1. k - 1 \in Nat /\ ~(k <= k - 1)
    BY <1>2
  <2> QED  BY <1>1, <2>1
<1>4. CopiesRight(Made(Copied[k - 1], k), k)
  BY <1>2, <1>3, MadeRight
<1> QED  BY <1>2, <1>4, CopiedIs, Zenon

-----------------------------------------------------------------------------
(* Asking, changing and removing *)

(* The chains without the head of one. *)
Beheaded(D, k) ==
  [c \in (DOMAIN D \ {k}) \cup (IF Tail(D[k]) = <<>> THEN {} ELSE {k})
     |-> IF c = k THEN Tail(D[k]) ELSE D[c]]

(* The head of a chain is an entry before the rest of it.                      *)
LEMMA HeadOfChain ==
  ASSUME NEW D, Fit(D), NEW k \in DOMAIN D
  PROVE  /\ k \in Ids /\ D[k][1].value \in Values
         /\ D[k][1] = [key |-> k, value |-> D[k][1].value]
         /\ Fit(Beheaded(D, k))
         /\ \A v \in Values :
              Prepended(Beheaded(D, k), k, v)
              = [D EXCEPT ![k] = <<[key |-> k, value |-> v]>> \o Tail(D[k])]
         /\ Prepended(Beheaded(D, k), k, D[k][1].value) = D
<1> DEFINE ch == D[k]
           rest == Tail(D[k])
           X == Beheaded(D, k)
           w == D[k][1].value
<1>1. /\ D \in Chains /\ DOMAIN D \subseteq Ids /\ D = [b \in DOMAIN D |-> D[b]]
      /\ \A b \in DOMAIN D : D[b] \in Seq(Entries) /\ D[b] # <<>>
  BY ChainsAre DEF Fit
<1>2. ch \in Seq(Entries) /\ ch # <<>> /\ Len(ch) \in Nat \ {0} /\ DOMAIN ch = 1 .. Len(ch)
  BY <1>1, EmptySeq, LenProperties
<1>3. ch[1] \in Entries /\ ch[1].key = k
  <2>1. 1 \in 1 .. Len(ch)
    BY <1>2
  <2> QED  BY <1>2, <2>1, ElementOfSeq DEF Fit
<1>4. k \in Ids /\ w \in Values /\ ch[1] = [key |-> k, value |-> w]
  BY <1>1, <1>3 DEF Entries
<1>5. /\ rest \in Seq(Entries) /\ Len(rest) = Len(ch) - 1
      /\ \A i \in 1 .. Len(rest) : rest[i] = ch[i + 1]
      /\ DOMAIN rest = 1 .. Len(rest)
  <2>1. /\ rest \in Seq(Entries) /\ Len(rest) = Len(ch) - 1
        /\ \A i \in 1 .. Len(rest) : rest[i] = ch[i + 1]
    BY <1>2, HeadTailProperties
  <2> QED  BY <2>1, LenProperties
<1>6. <<ch[1]>> \o rest = ch
  <2> HIDE DEF rest, ch
  <2>1. <<ch[1]>> \in Seq(Entries) /\ Len(<<ch[1]>>) = 1 /\ <<ch[1]>>[1] = ch[1]
    BY <1>3
  <2>2. /\ <<ch[1]>> \o rest \in Seq(Entries) /\ Len(<<ch[1]>> \o rest) = 1 + Len(rest)
        /\ \A i \in 1 .. 1 + Len(rest) :
             (<<ch[1]>> \o rest)[i] = IF i <= 1 THEN <<ch[1]>>[i] ELSE rest[i - 1]
    BY <1>5, <2>1, ConcatProperties
  <2>3. 1 + Len(rest) = Len(ch)
    BY <1>2, <1>5
  <2>4. \A i \in 1 .. Len(ch) : (<<ch[1]>> \o rest)[i] = ch[i]
    <3> SUFFICES ASSUME NEW i \in 1 .. Len(ch)
                 PROVE  (<<ch[1]>> \o rest)[i] = ch[i]
      OBVIOUS
    <3>1. CASE i = 1
      BY <2>1, <2>2, <2>3, <3>1
    <3>2. CASE i # 1
      <4>1. i - 1 \in 1 .. Len(rest) /\ (i - 1) + 1 = i /\ ~(i <= 1)
        BY <1>2, <1>5, <3>2
      <4>2. rest[i - 1] = ch[i]
        BY <1>5, <4>1
      <4> QED  BY <2>2, <2>3, <4>1, <4>2
    <3> QED  BY <3>1, <3>2
  <2> QED  BY <1>2, <2>2, <2>3, <2>4, SeqEqual
<1> HIDE DEF rest
<1>7. X = [c \in (DOMAIN D \ {k}) \cup (IF rest = <<>> THEN {} ELSE {k})
             |-> IF c = k THEN rest ELSE D[c]]
  BY Zenon DEF Beheaded, rest
<1> HIDE DEF X
<1>8. /\ DOMAIN X = (DOMAIN D \ {k}) \cup (IF rest = <<>> THEN {} ELSE {k})
      /\ \A c \in DOMAIN X : X[c] = IF c = k THEN rest ELSE D[c]
  BY <1>7
<1>9. Fit(X)
  <2>1. DOMAIN X \in SUBSET Ids
    BY <1>1, <1>8
  <2>2. \A c \in DOMAIN X : X[c] \in Seq(Entries) \ {<<>>}
    BY <1>1, <1>5, <1>8
  <2>3. X \in [DOMAIN X -> Seq(Entries) \ {<<>>}]
    BY <1>7, <1>8, <2>2
  <2>4. X \in Chains
    BY <2>1, <2>3, Zenon DEF Chains
  <2>5. \A c \in DOMAIN X : \A i \in DOMAIN X[c] : X[c][i].key = c
    <3> SUFFICES ASSUME NEW c \in DOMAIN X, NEW i \in DOMAIN X[c]
                 PROVE  X[c][i].key = c
      OBVIOUS
    <3>1. CASE c = k
      <4>1. i \in 1 .. Len(rest) /\ X[c][i] = rest[i]
        BY <1>5, <1>8, <3>1
      <4>2. i + 1 \in DOMAIN ch /\ rest[i] = ch[i + 1]
        BY <1>2, <1>5, <4>1
      <4>3. ch[i + 1].key = k
        BY <4>2 DEF Fit
      <4> QED  BY <3>1, <4>1, <4>2, <4>3
    <3>2. CASE c # k
      <4>1. c \in DOMAIN D /\ X[c] = D[c]
        BY <1>8, <3>2
      <4> QED  BY <4>1 DEF Fit
    <3> QED  BY <3>1, <3>2
  <2> QED  BY <2>4, <2>5 DEF Fit
<1>10. \A v \in Values : Prepended(X, k, v)
                         = [D EXCEPT ![k] = <<[key |-> k, value |-> v]>> \o rest]
  <2> SUFFICES ASSUME NEW v \in Values
               PROVE  Prepended(X, k, v) = [D EXCEPT ![k] = <<[key |-> k, value |-> v]>> \o rest]
    OBVIOUS
  <2> DEFINE old == IF k \in DOMAIN X THEN X[k] ELSE <<>>
             new == <<[key |-> k, value |-> v]>> \o old
  <2>1. old = rest
    BY <1>8
  <2>2. DOMAIN X \cup {k} = DOMAIN D
    BY <1>8
  <2>3. Prepended(X, k, v) = [c \in DOMAIN X \cup {k} |-> IF c = k THEN new ELSE X[c]]
    BY Zenon DEF Prepended
  <2> HIDE DEF new
  <2>4. Prepended(X, k, v) = [D EXCEPT ![k] = new]
    <3>1. \A c \in DOMAIN D : (IF c = k THEN new ELSE X[c]) = IF c = k THEN new ELSE D[c]
      BY <1>8
    <3>2. [D EXCEPT ![k] = new] = [c \in DOMAIN D |-> IF c = k THEN new ELSE D[c]]
      BY <1>1
    <3> QED  BY <2>2, <2>3, <3>1, <3>2
  <2> QED  BY <2>1, <2>4 DEF new
<1>11. Prepended(X, k, w) = D
  <2>1. Prepended(X, k, w) = [D EXCEPT ![k] = <<ch[1]>> \o rest]
    BY <1>4, <1>10
  <2>2. Prepended(X, k, w) = [D EXCEPT ![k] = ch]
    BY <1>6, <2>1
  <2> QED  BY <1>1, <2>2
<1> QED  BY <1>4, <1>9, <1>10, <1>11, Zenon DEF X, rest

(* A key is found at the head of its bucket, or nowhere: an address that is no *)
(* id shares at most the bucket.                                               *)
LEMMA PlaceIs ==
  ASSUME NEW T, Good(T), NEW k \in Ids \cup Addresses
  PROVE  /\ Place(T, k) = IF k \in DOMAIN T.data THEN 1 ELSE 0
         /\ k \in DOMAIN T.data => /\ T.buckets \in ToSet(primes) /\ k \in Ids
                                   /\ hash_index(T, k) = k /\ Chain(T, k) = T.data[k]
<1> DEFINE D == T.data
           h == hash_index(T, k)
           ch == Chain(T, h)
           I == {i \in 1 .. Len(ch) : ch[i].key = k}
<1>1. /\ T.buckets \in ToSet(primes) \/ D = <<>>
      /\ D \in Chains /\ Fit(D)
  BY GoodIs, Zenon
<1>2. DOMAIN D \subseteq Ids /\ \A b \in DOMAIN D : DOMAIN D[b] = 1 .. Len(D[b]) /\ Len(D[b]) \in Nat \ {0}
  BY <1>1, ChainsAre, Zenon
<1>3. Place(T, k) = IF I # {} THEN Min(I) ELSE 0
  BY Zenon DEF Place, SelectInSeq
<1>4. CASE k \in DOMAIN D
  <2>1. T.buckets \in ToSet(primes) /\ k \in Ids
    BY <1>1, <1>2, <1>4
  <2>2. h = k
    BY <2>1, HashIndex
  <2>3. ch = D[k]
    BY <1>4, <2>2 DEF Chain
  <2>4. \A i \in 1 .. Len(D[k]) : D[k][i].key = k
    BY <1>1, <1>2, <1>4 DEF Fit
  <2>5. 1 \in I /\ I \subseteq Nat
    BY <1>2, <1>4, <2>3, <2>4
  <2>6. \A y \in I : 1 <= y
    OBVIOUS
  <2> HIDE DEF I
  <2>7. Min(I) = 1
    <3>1. Min(I) \in I /\ Min(I) <= 1
      BY <2>5, <2>6 DEF Min
    <3>2. Min(I) \in Nat /\ 1 <= Min(I)
      BY <2>5, <2>6, <3>1
    <3> HIDE DEF Min
    <3> QED  BY <3>1, <3>2
  <2> QED  BY <1>3, <1>4, <2>1, <2>2, <2>3, <2>5, <2>7
<1>5. CASE k \notin DOMAIN D
  <2>1. I = {}
    <3>1. CASE h \in DOMAIN D
      <4>1. ch = D[h] /\ h # k
        BY <1>5, <3>1 DEF Chain
      <4>2. \A i \in 1 .. Len(D[h]) : D[h][i].key = h
        BY <1>1, <1>2, <3>1 DEF Fit
      <4> QED  BY <4>1, <4>2
    <3>2. CASE h \notin DOMAIN D
      <4>1. ch = <<>>
        BY <3>2 DEF Chain
      <4>2. Len(ch) = 0
        BY <4>1, EmptySeq
      <4> QED  BY <4>2
    <3> QED  BY <3>1, <3>2
  <2> QED  BY <1>3, <1>5, <2>1
<1> QED  BY <1>4, <1>5

(* The chains without a head hold one entry less.                              *)
LEMMA OneLess ==
  ASSUME NEW D, Fit(D), NEW k \in DOMAIN D
  PROVE  /\ Cardinality(Places(Beheaded(D, k))) \in Nat
         /\ Cardinality(Places(D)) = Cardinality(Places(Beheaded(D, k))) + 1
         /\ \A v \in Values :
              Cardinality(Places(Prepended(Beheaded(D, k), k, v))) = Cardinality(Places(D))
<1> DEFINE X == Beheaded(D, k)
<1>1. /\ k \in Ids /\ D[k][1].value \in Values
      /\ Fit(X) /\ Prepended(X, k, D[k][1].value) = D
  BY HeadOfChain, Zenon
<1> HIDE DEF X
<1>2. \A v \in Values : [key |-> k, value |-> v] \in Entries
  BY <1>1 DEF Entries
<1>3. \A v \in Values : /\ Fit(Prepended(X, k, v))
                        /\ Held(Prepended(X, k, v), Entries) = Held(X, Entries) + 1
  BY <1>1, <1>2, PrependRight
<1>4. \A v \in Values : Held(Prepended(X, k, v), Entries) = Cardinality(Places(Prepended(X, k, v)))
  BY <1>3, HeldAll, Zenon DEF Fit
<1>5. Held(X, Entries) = Cardinality(Places(X)) /\ Held(X, Entries) \in Nat
  BY <1>1, HeldAll, HeldType DEF Fit
<1>6. \A v \in Values : Cardinality(Places(Prepended(X, k, v))) = Cardinality(Places(X)) + 1
  BY <1>3, <1>4, <1>5, Zenon
<1>7. Cardinality(Places(D)) = Cardinality(Places(X)) + 1
  BY <1>1, <1>6, Zenon
<1> QED  BY <1>5, <1>6, <1>7, Zenon DEF X

(* A removal takes the head of the key's bucket, if there is one.              *)
LEMMA RemoveRight ==
  ASSUME NEW T, Good(T), NEW k \in Ids \cup Addresses
  PROVE  LET N == fp_chained_hash_table_remove(T, k)
         IN  /\ Good(N)
             /\ N.data = IF k \in DOMAIN T.data THEN Beheaded(T.data, k) ELSE T.data
<1> DEFINE D == T.data
           X == Beheaded(D, k)
           N == fp_chained_hash_table_remove(T, k)
<1>1. /\ T = [size |-> T.size, buckets |-> T.buckets, data |-> D]
      /\ T.size \in Nat /\ Fit(D) /\ D \in Chains /\ T.size = Cardinality(Places(D))
  BY GoodIs, Zenon
<1>2. CASE k \notin DOMAIN D
  <2>1. N = T
    BY <1>2, PlaceIs, Zenon DEF fp_chained_hash_table_remove
  <2> QED  BY <1>2, <2>1
<1>3. CASE k \in DOMAIN D
  <2>1. /\ T.buckets \in ToSet(primes) /\ hash_index(T, k) = k
        /\ Chain(T, k) = D[k] /\ Place(T, k) = 1 /\ 1 # 0
    BY <1>3, PlaceIs
  <2>2. D[k] \in Seq(Entries) /\ D[k] # <<>> /\ Len(D[k]) \in Nat \ {0}
    BY <1>1, <1>3, ChainsAre, Zenon
  <2>3. RemoveAt(D[k], 1) = Tail(D[k])
    <3>1. SubSeq(D[k], 1, 1 - 1) = <<>>
      BY SubSeqEmpty
    <3>2. Tail(D[k]) = SubSeq(D[k], 2, Len(D[k])) /\ Tail(D[k]) \in Seq(Entries)
      BY <2>2, TailIsSubSeq, HeadTailProperties
    <3>3. <<>> \o Tail(D[k]) = Tail(D[k])
      BY <3>2, ConcatEmptySeq
    <3>4. 1 + 1 = 2
      OBVIOUS
    <3> QED  BY <3>1, <3>2, <3>3, <3>4, Zenon DEF RemoveAt
  <2> DEFINE G == [T EXCEPT !.size = @ - 1]
             rest == Tail(D[k])
  <2>4. N = SetChain(G, k, rest)
    BY <2>1, <2>3, Zenon DEF fp_chained_hash_table_remove, Unlinked
  <2>5. G = [size |-> T.size - 1, buckets |-> T.buckets, data |-> D]
    BY <1>1
  <2> HIDE DEF G, D, N
  <2>6. N = [G EXCEPT !.data = [c \in (DOMAIN G.data \ {k}) \cup (IF rest = <<>> THEN {} ELSE {k})
                                |-> IF c = k THEN rest ELSE G.data[c]]]
    BY <2>4, Zenon DEF SetChain
  <2>7. X = [c \in (DOMAIN D \ {k}) \cup (IF rest = <<>> THEN {} ELSE {k})
               |-> IF c = k THEN rest ELSE D[c]]
    BY Zenon DEF Beheaded
  <2> HIDE DEF X
  <2>8. N = [size |-> T.size - 1, buckets |-> T.buckets, data |-> X]
    <3>1. G.data = D
      BY <2>5
    <3>2. N = [G EXCEPT !.data = X]
      BY <2>6, <2>7, <3>1, Zenon
    <3> QED  BY <2>5, <3>2
  <2>9. Fit(X)
    BY <1>1, <1>3, HeadOfChain, Zenon DEF X
  <2>10. T.size - 1 = Cardinality(Places(X)) /\ T.size - 1 \in Nat
    <3>1. Cardinality(Places(X)) \in Nat /\ Cardinality(Places(D)) = Cardinality(Places(X)) + 1
      BY <1>1, <1>3, OneLess, Zenon DEF X
    <3> QED  BY <1>1, <3>1
  <2>11. Good(N)
    BY <2>1, <2>8, <2>9, <2>10, GoodNew
  <2>12. N.data = X
    BY <2>8
  <2> QED  BY <1>3, <2>11, <2>12, Zenon DEF X, N, D
<1> QED  BY <1>2, <1>3

(* An update replaces the value of the head of the key's bucket, if there is   *)
(* one.                                                                        *)
LEMMA UpdateRight ==
  ASSUME NEW T, Good(T), NEW k \in Ids, NEW v \in Values
  PROVE  LET N == fp_chained_hash_table_update(T, k, v)
         IN  /\ Good(N)
             /\ N.data = IF k \in DOMAIN T.data THEN Prepended(Beheaded(T.data, k), k, v)
                         ELSE T.data
<1> DEFINE D == T.data
           P == Prepended(Beheaded(D, k), k, v)
           N == fp_chained_hash_table_update(T, k, v)
<1>1. /\ T = [size |-> T.size, buckets |-> T.buckets, data |-> D]
      /\ T.size \in Nat /\ Fit(D) /\ D \in Chains /\ T.size = Cardinality(Places(D))
      /\ T.buckets \in ToSet(primes) \/ D = <<>>
  BY GoodIs, Zenon
<1>2. CASE k \notin DOMAIN D
  <2>1. Chain(T, hash_index(T, k)) = <<>>
    <3>1. CASE D = <<>>
      <4>1. DOMAIN D = {}
        BY <3>1
      <4> QED  BY <4>1 DEF Chain
    <3>2. CASE T.buckets \in ToSet(primes)
      <4>1. hash_index(T, k) = k
        BY <3>2, HashIndex, Zenon
      <4> QED  BY <1>2, <4>1 DEF Chain
    <3> QED  BY <1>1, <3>1, <3>2
  <2>2. N = T
    BY <2>1, Zenon DEF fp_chained_hash_table_update
  <2> QED  BY <1>2, <2>2
<1>3. CASE k \in DOMAIN D
  <2>1. T.buckets \in ToSet(primes) /\ hash_index(T, k) = k /\ Chain(T, k) = D[k]
    BY <1>3, PlaceIs
  <2> DEFINE ch == D[k]
             e  == [key |-> k, value |-> v]
  <2>2. ch \in Seq(Entries) /\ ch # <<>> /\ Len(ch) \in Nat \ {0}
    BY <1>1, <1>3, ChainsAre, Zenon
  <2>3. N = [T EXCEPT !.data[k][1].value = v]
    BY <2>1, <2>2, Zenon DEF fp_chained_hash_table_update
  <2>4. /\ P = [D EXCEPT ![k] = <<e>> \o Tail(ch)]
        /\ ch[1] = [key |-> k, value |-> ch[1].value]
    BY <1>1, <1>3, HeadOfChain
  <2>5. [ch[1] EXCEPT !.value = v] = e
    BY <2>4
  <2>6. [ch EXCEPT ![1] = e] = <<e>> \o Tail(ch)
    <3> HIDE DEF ch, e
    <3>1. e \in Entries /\ <<e>> \in Seq(Entries) /\ Len(<<e>>) = 1 /\ <<e>>[1] = e
      BY DEF e, Entries
    <3>2. /\ Tail(ch) \in Seq(Entries) /\ Len(Tail(ch)) = Len(ch) - 1
          /\ \A i \in 1 .. Len(ch) - 1 : Tail(ch)[i] = ch[i + 1]
      BY <2>2, HeadTailProperties
    <3>3. /\ <<e>> \o Tail(ch) \in Seq(Entries) /\ Len(<<e>> \o Tail(ch)) = 1 + (Len(ch) - 1)
          /\ \A i \in 1 .. 1 + (Len(ch) - 1) :
               (<<e>> \o Tail(ch))[i] = IF i <= 1 THEN <<e>>[i] ELSE Tail(ch)[i - 1]
      BY <3>1, <3>2, ConcatProperties
    <3>4. /\ [ch EXCEPT ![1] = e] \in Seq(Entries) /\ Len([ch EXCEPT ![1] = e]) = Len(ch)
          /\ \A j \in 1 .. Len(ch) : [ch EXCEPT ![1] = e][j] = IF j = 1 THEN e ELSE ch[j]
      <4>1. 1 \in 1 .. Len(ch)
        BY <2>2
      <4> QED  BY <2>2, <3>1, <4>1, ExceptSeq
    <3>5. \A i \in 1 .. Len(ch) : (<<e>> \o Tail(ch))[i] = [ch EXCEPT ![1] = e][i]
      <4> SUFFICES ASSUME NEW i \in 1 .. Len(ch)
                   PROVE  (<<e>> \o Tail(ch))[i] = [ch EXCEPT ![1] = e][i]
        OBVIOUS
      <4>1. i \in 1 .. 1 + (Len(ch) - 1)
        BY <2>2
      <4>2. CASE i = 1
        BY <3>1, <3>3, <3>4, <4>1, <4>2
      <4>3. CASE i # 1
        <5>1. i - 1 \in 1 .. Len(ch) - 1 /\ (i - 1) + 1 = i /\ ~(i <= 1)
          BY <2>2, <4>3
        <5>2. Tail(ch)[i - 1] = ch[i]
          BY <3>2, <5>1
        <5> QED  BY <3>3, <3>4, <4>1, <4>3, <5>1, <5>2
      <4> QED  BY <4>2, <4>3
    <3>6. 1 + (Len(ch) - 1) = Len(ch)
      BY <2>2
    <3> QED  BY <3>3, <3>4, <3>5, <3>6, SeqEqual
  <2> HIDE DEF P, D, N, e
  <2>7. N = [T EXCEPT !.data = [D EXCEPT ![k] = [ch EXCEPT ![1] = [ch[1] EXCEPT !.value = v]]]]
    BY <2>3 DEF D
  <2>8. N = [T EXCEPT !.data = P]
    BY <2>4, <2>5, <2>6, <2>7
  <2>9. N = [size |-> T.size, buckets |-> T.buckets, data |-> P]
    BY <1>1, <2>8
  <2>10. Fit(P)
    <3>1. Fit(Beheaded(D, k))
      BY <1>1, <1>3, HeadOfChain, Zenon
    <3> QED  BY <3>1, PrependRight, Zenon DEF P
  <2>11. T.size = Cardinality(Places(P))
    BY <1>1, <1>3, OneLess, Zenon DEF P
  <2>12. Good(N)
    BY <1>1, <2>1, <2>9, <2>10, <2>11, GoodNew
  <2>13. N.data = P
    BY <2>9
  <2> QED  BY <1>3, <2>12, <2>13, Zenon DEF P, N, D
<1> QED  BY <1>2, <1>3

(* What is found is the head of the key's bucket.                              *)
LEMMA FindRight ==
  ASSUME NEW T, Good(T), NEW k \in Ids \cup Addresses
  PROVE  fp_chained_hash_table_find(T, k) = IF k \in DOMAIN T.data THEN T.data[k][1] ELSE Null
<1>1. CASE k \notin DOMAIN T.data
  BY <1>1, PlaceIs, Zenon DEF fp_chained_hash_table_find
<1>2. CASE k \in DOMAIN T.data
  <2>1. hash_index(T, k) = k /\ Chain(T, k) = T.data[k] /\ Place(T, k) = 1 /\ 1 # 0
    BY <1>2, PlaceIs
  <2> QED  BY <1>2, <2>1, Zenon DEF fp_chained_hash_table_find
<1> QED  BY <1>1, <1>2

-----------------------------------------------------------------------------
(* The invariant *)

HashInv == Good(t) /\ ret \in Entries \cup {Null}

LEMMA HashInit == Init => HashInv
BY NewRight DEF Init, HashInv

(* What an insertion into the table of a state does.                           *)
LEMMA InsertStep ==
  ASSUME HashInv, NEW k \in Ids, NEW v \in Values, Insert(k, v)
  PROVE  /\ Good(t') /\ ret' = [key |-> k, value |-> v]
         /\ \A E \in SUBSET Entries :
              Held(t'.data, E)
              = Held(t.data, E) + (IF [key |-> k, value |-> v] \in E THEN 1 ELSE 0)
<1> DEFINE d == Len(Visited(t))
<1>1. /\ t.size \in Nat /\ t.data \in Chains /\ t.size = Cardinality(Places(t.data))
      /\ t.buckets \in ToSet(primes) \/ t.data = <<>>
  BY GoodIs, Zenon DEF HashInv
<1>2. d = t.size
  BY <1>1, VisitedRight
<1>3. t' = fp_chained_hash_table_insert(t, k, v, Copied[d]) /\ ret' = [key |-> k, value |-> v]
  BY Zenon DEF Insert
<1> HIDE DEF d
<1>4. d \in Nat /\ t.size <= d
  BY <1>1, <1>2
<1>5. CopiesRight(Copied[d], d)
  BY <1>4, CopiesAreRight, Zenon
<1> DEFINE N == fp_chained_hash_table_insert(t, k, v, Copied[d])
<1>6. /\ Good(N)
      /\ \A E \in SUBSET Entries :
           Held(N.data, E) = Held(t.data, E) + (IF [key |-> k, value |-> v] \in E THEN 1 ELSE 0)
  BY <1>4, <1>5, InsertRight DEF HashInv
<1> HIDE DEF N
<1>7. t' = N
  BY <1>3 DEF N
<1> QED  BY <1>3, <1>6, <1>7

LEMMA HashNext == HashInv /\ [Next]_vars => HashInv'
<1> SUFFICES ASSUME HashInv, [Next]_vars
             PROVE  HashInv'
  OBVIOUS
<1>0. Good(t) /\ ret \in Entries \cup {Null}
  BY DEF HashInv
<1>1. ASSUME NEW k \in Ids, NEW v \in Values, Insert(k, v)
      PROVE  HashInv'
  <2>1. Good(t') /\ ret' = [key |-> k, value |-> v]
    BY <1>1, InsertStep, Zenon
  <2> QED  BY <2>1 DEF HashInv, Entries
<1>2. ASSUME NEW k \in Ids, NEW v \in Values, Update(k, v)
      PROVE  HashInv'
  <2>1. Good(fp_chained_hash_table_update(t, k, v))
    BY <1>0, UpdateRight, Zenon
  <2> QED  BY <1>2, <2>1, Zenon DEF Update, HashInv
<1>3. ASSUME NEW k \in Ids \cup Addresses, Find(k)
      PROVE  HashInv'
  <2>1. fp_chained_hash_table_find(t, k) = IF k \in DOMAIN t.data THEN t.data[k][1] ELSE Null
    BY <1>0, FindRight, Zenon
  <2>2. k \in DOMAIN t.data => t.data[k][1] \in Entries
    <3>1. Fit(t.data)
      BY <1>0, GoodIs, Zenon
    <3>2. k \in DOMAIN t.data => /\ k \in Ids /\ t.data[k][1].value \in Values
                                 /\ t.data[k][1] = [key |-> k, value |-> t.data[k][1].value]
      BY <3>1, HeadOfChain
    <3> QED  BY <3>2 DEF Entries
  <2> QED  BY <1>0, <1>3, <2>1, <2>2, Zenon DEF Find, HashInv
<1>4. ASSUME NEW k \in Ids \cup Addresses, Erase(k)
      PROVE  HashInv'
  <2>1. Good(fp_chained_hash_table_remove(t, k))
    BY <1>0, RemoveRight, Zenon
  <2> QED  BY <1>4, <2>1, Zenon DEF Erase, HashInv
<1>5. CASE Renew
  <2>1. Good(fp_chained_hash_table_new(Buckets))
    BY NewRight, Zenon
  <2> QED  BY <1>5, <2>1, Zenon DEF Renew, HashInv
<1>6. CASE UNCHANGED vars
  BY <1>0, <1>6 DEF vars, HashInv
<1> QED  BY <1>1, <1>2, <1>3, <1>4, <1>5, <1>6, Zenon DEF Next

(* The table is good in every state, whatever is inserted and removed.         *)
THEOREM HashSafe == Spec => []HashInv
BY HashInit, HashNext, PTL DEF Spec

(* The chains hold entries, none is empty, and the number of buckets is the    *)
(* first one or a prime of the list, so that no key is taken modulo zero       *)
(* (hash.c:10-33, 124-130, 224-272).                                           *)
THEOREM HashTypeCorrect == Spec => []TypeOK
<1>1. HashInv => TypeOK
  <2> SUFFICES ASSUME HashInv
               PROVE  TypeOK
    OBVIOUS
  <2>1. Good(t) /\ t \in Tables
    BY DEF HashInv, Good
  <2>2. t.buckets \in {Buckets} \cup ToSet(primes) /\ t.size \in Nat /\ t.data \in Chains
    BY <2>1 DEF Tables
  <2>3. \A b \in DOMAIN t.data : t.data[b] \in Seq(Entries) \ {<<>>}
    BY <2>2, ChainsAre
  <2> QED  BY <2>2, <2>3, Zenon DEF TypeOK, HashInv
<1> QED  BY <1>1, HashSafe, PTL

(* A bucket holds the entries of the one key that is its number, however often *)
(* the table grows, so that the head an update changes is of the key asked for *)
(* (hash.c:224-283).                                                           *)
THEOREM HashBucketOfOneKey == Spec => []BucketOfOneKey
<1>1. HashInv => BucketOfOneKey
  BY Zenon DEF HashInv, Good, Fit, BucketOfOneKey
<1> QED  BY <1>1, HashSafe, PTL

(* The size is the number of entries the chains hold, after any growth of the  *)
(* table and of its copies, removals and updates (hash.c:224-313).             *)
THEOREM HashSizeCountsEntries == Spec => []SizeCountsEntries
<1>1. HashInv => SizeCountsEntries
  <2> SUFFICES ASSUME HashInv
               PROVE  SizeCountsEntries
    OBVIOUS
  <2>1. /\ t.data \in Chains /\ t.size = Cardinality(Places(t.data))
        /\ t.data = <<>> \/ t.buckets \in ToSet(primes)
    BY GoodIs, Zenon DEF HashInv
  <2>2. Slots(t) = Places(t.data)
    BY <2>1, SlotsArePlaces
  <2> QED  BY <2>1, <2>2 DEF SizeCountsEntries
<1> QED  BY <1>1, HashSafe, PTL

-----------------------------------------------------------------------------
(* The table is a map *)

(* How many entries of some chains hold each key and value. *)
Count(D) == [k \in Ids |-> [v \in Values |-> Held(D, {[key |-> k, value |-> v]})]]

Counts == [Ids -> [Values -> Nat]]

LEMMA CountType ==
  ASSUME NEW D \in Chains
  PROVE  Count(D) \in Counts
BY HeldType, Zenon DEF Count, Counts

(* What the refinement counts, in the places the table knows of, is what its   *)
(* chains hold.                                                                *)
LEMMA CountedIs ==
  ASSUME NEW T, Good(T)
  PROVE  [k \in Ids |-> [v \in Values |->
            Cardinality({s \in Slots(T) : EntryAt(T, s) = [key |-> k, value |-> v]})]]
         = Count(T.data)
<1>1. T.data \in Chains /\ (T.data = <<>> \/ T.buckets \in ToSet(primes))
  BY GoodIs, Zenon
<1>2. Slots(T) = Places(T.data)
  BY <1>1, SlotsArePlaces
<1>3. \A e : {s \in Slots(T) : EntryAt(T, s) = e} = {s \in Places(T.data) : T.data[s[1]][s[2]] \in {e}}
  BY <1>2 DEF EntryAt
<1>4. \A e : Cardinality({s \in Slots(T) : EntryAt(T, s) = e}) = Held(T.data, {e})
  BY <1>3, Zenon DEF Held
<1> QED  BY <1>4, Zenon DEF Count

(* One entry more.                                                             *)
LEMMA CountAdds ==
  ASSUME NEW D1 \in Chains, NEW D2, NEW k \in Ids, NEW v \in Values,
         \A E \in SUBSET Entries :
           Held(D2, E) = Held(D1, E) + (IF [key |-> k, value |-> v] \in E THEN 1 ELSE 0)
  PROVE  Count(D2) = [Count(D1) EXCEPT ![k][v] = @ + 1]
<1> DEFINE one(j, w) == {[key |-> j, value |-> w]}
           c1 == Count(D1)
           c2 == Count(D2)
<1>1. \A j \in Ids, w \in Values :
        Held(D2, one(j, w)) = Held(D1, one(j, w)) + (IF j = k /\ w = v THEN 1 ELSE 0)
  <2> SUFFICES ASSUME NEW j \in Ids, NEW w \in Values
               PROVE  Held(D2, one(j, w)) = Held(D1, one(j, w)) + (IF j = k /\ w = v THEN 1 ELSE 0)
    OBVIOUS
  <2>1. one(j, w) \in SUBSET Entries
    BY DEF Entries
  <2>2. [key |-> k, value |-> v] \in one(j, w) <=> j = k /\ w = v
    OBVIOUS
  <2> HIDE DEF one
  <2> QED  BY <2>1, <2>2, Zenon
<1>2. \A j \in Ids, w \in Values : Held(D1, one(j, w)) \in Nat
  BY HeldType
<1>3. /\ c1 = [j \in Ids |-> [w \in Values |-> Held(D1, one(j, w))]]
      /\ c2 = [j \in Ids |-> [w \in Values |-> Held(D2, one(j, w))]]
  BY DEF Count
<1> HIDE DEF one, c1, c2
<1>4. c2 = [c1 EXCEPT ![k][v] = @ + 1]
  <2>1. \A j \in Ids : j # k => c2[j] = c1[j]
    <3> SUFFICES ASSUME NEW j \in Ids, j # k
                 PROVE  c2[j] = c1[j]
      OBVIOUS
    <3>1. \A w \in Values : Held(D2, one(j, w)) = Held(D1, one(j, w))
      BY <1>1, <1>2
    <3> QED  BY <1>3, <3>1
  <2>2. c2[k] = [c1[k] EXCEPT ![v] = @ + 1]
    <3>1. \A w \in Values : w # v => Held(D2, one(k, w)) = Held(D1, one(k, w))
      BY <1>1, <1>2
    <3>2. Held(D2, one(k, v)) = Held(D1, one(k, v)) + 1
      BY <1>1
    <3>3. /\ c1[k] = [w \in Values |-> Held(D1, one(k, w))]
          /\ c2[k] = [w \in Values |-> Held(D2, one(k, w))]
      BY <1>3
    <3> QED  BY <3>1, <3>2, <3>3
  <2>3. c2 = [c1 EXCEPT ![k] = c2[k]]
    BY <1>3, <2>1
  <2> QED  BY <2>2, <2>3
<1> QED  BY <1>4 DEF c1, c2

(* What is added can be taken back, and another value added in its place.      *)
LEMMA TakeBack ==
  ASSUME NEW c \in Counts, NEW k \in Ids, NEW w \in Values
  PROVE  Map!Taken(Map!Added(c, k, w), k, w) = c
<1> DEFINE r == c[k]
           s == [r EXCEPT ![w] = r[w] + 1]
           d == Map!Added(c, k, w)
<1>1. r \in [Values -> Nat] /\ c \in [Ids -> [Values -> Nat]]
  BY DEF Counts
<1>2. d = [c EXCEPT ![k] = s]
  BY DEF Map!Added
<1>3. r[w] \in Nat /\ (r[w] + 1) - 1 = r[w] /\ s[w] = r[w] + 1
  BY <1>1
<1>4. [s EXCEPT ![w] = s[w] - 1] = r
  BY <1>1, <1>3
<1> HIDE DEF s
<1>5. d[k] = s
  BY <1>1, <1>2
<1> HIDE DEF d
<1>6. Map!Taken(d, k, w) = [d EXCEPT ![k] = [s EXCEPT ![w] = s[w] - 1]]
  BY <1>5 DEF Map!Taken
<1>7. Map!Taken(d, k, w) = [d EXCEPT ![k] = r]
  BY <1>4, <1>6
<1>8. [d EXCEPT ![k] = r] = c
  BY <1>1, <1>2
<1> QED  BY <1>7, <1>8 DEF d

(* The entry inserted is counted once more.                                    *)
LEMMA CountPrepended ==
  ASSUME NEW D, Fit(D), NEW k \in Ids, NEW v \in Values
  PROVE  Count(Prepended(D, k, v)) = Map!Added(Count(D), k, v)
<1>1. \A E \in SUBSET Entries :
        Held(Prepended(D, k, v), E) = Held(D, E) + (IF [key |-> k, value |-> v] \in E THEN 1 ELSE 0)
  BY PrependRight
<1>2. D \in Chains
  BY DEF Fit
<1> DEFINE P == Prepended(D, k, v)
<1> HIDE DEF P
<1>3. Count(P) = [Count(D) EXCEPT ![k][v] = @ + 1]
  BY <1>1, <1>2, CountAdds DEF P
<1> QED  BY <1>3 DEF P, Map!Added

(* A chain counts for its head, and a key without a chain counts for nothing.  *)
LEMMA HeadCounts ==
  ASSUME NEW D, Fit(D), NEW k \in DOMAIN D
  PROVE  /\ Count(D)[k][D[k][1].value] > 0
         /\ Count(Beheaded(D, k)) = Map!Taken(Count(D), k, D[k][1].value)
<1> DEFINE X == Beheaded(D, k)
           w == D[k][1].value
<1>1. k \in Ids /\ w \in Values /\ Fit(X) /\ Prepended(X, k, w) = D
  BY HeadOfChain, Zenon
<1> HIDE DEF X, w
<1>2. Count(D) = Map!Added(Count(X), k, w)
  BY <1>1, CountPrepended
<1>3. Count(X) \in Counts
  BY <1>1, CountType, Zenon DEF Fit
<1>4. Map!Taken(Count(D), k, w) = Count(X)
  <2> DEFINE c == Count(X)
  <2> HIDE DEF c
  <2>1. c \in Counts
    BY <1>3 DEF c
  <2>2. Map!Taken(Map!Added(c, k, w), k, w) = c
    BY <1>1, <2>1, TakeBack
  <2>3. Count(D) = Map!Added(c, k, w)
    BY <1>2 DEF c
  <2> QED  BY <2>2, <2>3, Zenon DEF c
<1>5. Count(D)[k][w] > 0
  <2> DEFINE c == Count(X)
             n == c[k][w]
  <2> HIDE DEF c
  <2>1. c \in [Ids -> [Values -> Nat]]
    BY <1>3 DEF c, Counts
  <2>2. n \in Nat /\ [c EXCEPT ![k][w] = n + 1][k][w] = n + 1
    BY <1>1, <2>1
  <2>3. Count(D) = [c EXCEPT ![k][w] = n + 1]
    BY <1>2 DEF c, Map!Added
  <2> HIDE DEF n
  <2> QED  BY <2>2, <2>3
<1> QED  BY <1>4, <1>5 DEF X, w

LEMMA NothingCounts ==
  ASSUME NEW D, Fit(D), NEW k \in Ids \ DOMAIN D, NEW v \in Values
  PROVE  Count(D)[k][v] = 0
<1> DEFINE e == [key |-> k, value |-> v]
           A == {s \in Places(D) : D[s[1]][s[2]] \in {e}}
<1>1. D \in Chains
  BY DEF Fit
<1>2. \A s \in Places(D) : /\ s[1] \in DOMAIN D /\ s[2] \in DOMAIN D[s[1]]
                           /\ D[s[1]][s[2]].key = s[1]
  <2>1. \A s \in Places(D) : s[1] \in DOMAIN D /\ s[2] \in 1 .. Len(D[s[1]])
    BY <1>1, PlacesAre
  <2>2. \A b \in DOMAIN D : DOMAIN D[b] = 1 .. Len(D[b])
    BY <1>1, ChainsAre
  <2>3. \A s \in Places(D) : s[1] \in DOMAIN D /\ s[2] \in DOMAIN D[s[1]]
    BY <2>1, <2>2
  <2> QED  BY <2>3, Zenon DEF Fit
<1>3. A = {}
  <2>1. e.key = k
    OBVIOUS
  <2> HIDE DEF e
  <2> QED  BY <1>2, <2>1
<1>4. Held(D, {e}) = 0
  BY <1>3, FS_EmptySet, Zenon DEF Held
<1> QED  BY <1>4 DEF Count

(* The map's count in a state, and after a step.                               *)
LEMMA CountedNow ==
  /\ HashInv => Counted = Count(t.data)
  /\ HashInv' => Counted' = Count(t'.data)
<1>1. HashInv => Counted = Count(t.data)
  BY CountedIs, Zenon DEF HashInv, Counted
<1>2. ASSUME HashInv'
      PROVE  Counted' = Count(t'.data)
  <2>1. Good(t')
    BY <1>2 DEF HashInv
  <2> DEFINE CountOf(T) == [k \in Ids |-> [v \in Values |->
                Cardinality({s \in Slots(T) : EntryAt(T, s) = [key |-> k, value |-> v]})]]
  <2>2. Counted = CountOf(t)
    BY Zenon DEF Counted
  <2>3. Counted' = CountOf(t')
    BY DEF Counted
  <2>4. CountOf(t') = Count(t'.data)
    BY <2>1, CountedIs, Zenon
  <2> QED  BY <2>3, <2>4, Zenon
<1> QED  BY <1>1, <1>2

(* The map finds a value under a key if the key has a chain.                   *)
LEMMA UnderIs ==
  ASSUME HashInv, NEW k \in Ids \cup Addresses
  PROVE  /\ k \in DOMAIN t.data => t.data[k][1].value \in Map!Under(k)
         /\ k \notin DOMAIN t.data => Map!Under(k) = {}
<1>1. Fit(t.data) /\ t.data \in Chains
  BY GoodIs, Zenon DEF HashInv
<1>2. Map!Under(k) = IF k \in Ids THEN {v \in Values : Count(t.data)[k][v] > 0} ELSE {}
  BY CountedNow, Zenon DEF Map!Under
<1>3. ASSUME k \in DOMAIN t.data
      PROVE  t.data[k][1].value \in Map!Under(k)
  <2>1. k \in Ids /\ t.data[k][1].value \in Values
    BY <1>1, <1>3, HeadOfChain, Zenon
  <2>2. Count(t.data)[k][t.data[k][1].value] > 0
    BY <1>1, <1>3, HeadCounts, Zenon
  <2> QED  BY <1>2, <2>1, <2>2, Zenon
<1>4. ASSUME k \notin DOMAIN t.data
      PROVE  Map!Under(k) = {}
  <2>1. k \in Ids => \A v \in Values : Count(t.data)[k][v] = 0
    BY <1>1, <1>4, NothingCounts
  <2>2. k \in Ids => \A v \in Values : ~(Count(t.data)[k][v] > 0)
    BY <2>1
  <2> QED  BY <1>2, <2>2
<1> QED  BY <1>3, <1>4

LEMMA MapInit == Init => Map!Init
<1> SUFFICES ASSUME Init
             PROVE  Map!Init
  OBVIOUS
<1>1. HashInv /\ t = fp_chained_hash_table_new(Buckets) /\ ret = Null
  BY HashInit DEF Init
<1>2. t.data = <<>>
  BY <1>1, NewRight, Zenon
<1>3. Counted = Count(<<>>)
  BY <1>1, <1>2, CountedNow
<1>4. Count(<<>>) = [k \in Ids |-> [v \in Values |-> 0]]
  BY NoChains, Zenon DEF Count
<1> QED  BY <1>1, <1>3, <1>4, Zenon DEF Map!Init

(* Every step is the map's step of the same name.                              *)
LEMMA MapNext == HashInv /\ HashInv' /\ [Next]_vars => [Map!Next]_(Map!vars)
<1> SUFFICES ASSUME HashInv, HashInv', [Next]_vars
             PROVE  [Map!Next]_(Map!vars)
  OBVIOUS
<1>1. Counted = Count(t.data) /\ Counted' = Count(t'.data)
  BY CountedNow
<1>2. Good(t) /\ Fit(t.data) /\ t.data \in Chains
  BY GoodIs, Zenon DEF HashInv
<1>3. ASSUME NEW k \in Ids, NEW v \in Values, Insert(k, v)
      PROVE  Map!Insert(k, v)
  <2>1. /\ ret' = [key |-> k, value |-> v]
        /\ \A E \in SUBSET Entries :
             Held(t'.data, E)
             = Held(t.data, E) + (IF [key |-> k, value |-> v] \in E THEN 1 ELSE 0)
    BY <1>3, InsertStep, Zenon
  <2>2. Count(t'.data) = [Count(t.data) EXCEPT ![k][v] = @ + 1]
    BY <1>2, <2>1, CountAdds
  <2>3. Counted' = Map!Added(Counted, k, v)
    BY <1>1, <2>2 DEF Map!Added
  <2> QED  BY <2>1, <2>3, Zenon DEF Map!Insert
<1>4. ASSUME NEW k \in Ids, NEW v \in Values, Update(k, v)
      PROVE  Map!Update(k, v)
  <2> DEFINE w == t.data[k][1].value
             N == fp_chained_hash_table_update(t, k, v)
  <2>1. t' = N /\ ret' = Null
    BY <1>4 DEF Update
  <2>2. N.data = IF k \in DOMAIN t.data THEN Prepended(Beheaded(t.data, k), k, v) ELSE t.data
    BY <1>2, UpdateRight, Zenon
  <2> HIDE DEF N
  <2>3. CASE k \notin DOMAIN t.data
    <3>1. Counted' = Counted
      BY <1>1, <2>1, <2>2, <2>3
    <3>2. Map!Under(k) = {}
      BY <2>3, UnderIs, Zenon
    <3> QED  BY <2>1, <3>1, <3>2, Zenon DEF Map!Update
  <2>4. CASE k \in DOMAIN t.data
    <3>1. w \in Map!Under(k)
      BY <2>4, UnderIs, Zenon
    <3>2. Fit(Beheaded(t.data, k))
      BY <1>2, <2>4, HeadOfChain, Zenon
    <3>3. Count(Prepended(Beheaded(t.data, k), k, v)) = Map!Added(Count(Beheaded(t.data, k)), k, v)
      BY <3>2, CountPrepended
    <3>4. Count(Beheaded(t.data, k)) = Map!Taken(Count(t.data), k, w)
      BY <1>2, <2>4, HeadCounts, Zenon
    <3> HIDE DEF w
    <3>5. Counted' = Map!Added(Map!Taken(Counted, k, w), k, v)
      BY <1>1, <2>1, <2>2, <2>4, <3>3, <3>4
    <3> QED  BY <2>1, <3>1, <3>5, Zenon DEF Map!Update
  <2> QED  BY <2>3, <2>4
<1>5. ASSUME NEW k \in Ids \cup Addresses, Find(k)
      PROVE  Map!Find(k)
  <2>1. fp_chained_hash_table_find(t, k) = IF k \in DOMAIN t.data THEN t.data[k][1] ELSE Null
    BY <1>2, FindRight, Zenon
  <2>2. t' = t /\ ret' = fp_chained_hash_table_find(t, k)
    BY <1>5 DEF Find
  <2>3. Counted' = Counted
    BY <1>1, <2>2
  <2>4. CASE k \notin DOMAIN t.data
    <3>1. Map!Under(k) = {}
      BY <2>4, UnderIs, Zenon
    <3> QED  BY <2>1, <2>2, <2>3, <2>4, <3>1, Zenon DEF Map!Find
  <2>5. CASE k \in DOMAIN t.data
    <3>1. t.data[k][1].value \in Map!Under(k)
      BY <2>5, UnderIs, Zenon
    <3>2. t.data[k][1] = [key |-> k, value |-> t.data[k][1].value]
      BY <1>2, <2>5, HeadOfChain, Zenon
    <3>3. ret' = [key |-> k, value |-> t.data[k][1].value]
      BY <2>1, <2>2, <2>5, <3>2, Zenon
    <3>4. Map!Under(k) # {} /\ \E v \in Map!Under(k) : ret' = [key |-> k, value |-> v]
      BY <3>1, <3>3, Zenon
    <3> QED  BY <2>3, <3>4, Zenon DEF Map!Find
  <2> QED  BY <2>4, <2>5
<1>6. ASSUME NEW k \in Ids \cup Addresses, Erase(k)
      PROVE  Map!Remove(k)
  <2> DEFINE w == t.data[k][1].value
             N == fp_chained_hash_table_remove(t, k)
  <2>1. t' = N /\ ret' = Null
    BY <1>6 DEF Erase
  <2>2. N.data = IF k \in DOMAIN t.data THEN Beheaded(t.data, k) ELSE t.data
    BY <1>2, RemoveRight, Zenon
  <2> HIDE DEF N
  <2>3. CASE k \notin DOMAIN t.data
    <3>1. Counted' = Counted
      BY <1>1, <2>1, <2>2, <2>3
    <3>2. Map!Under(k) = {}
      BY <2>3, UnderIs, Zenon
    <3> QED  BY <2>1, <3>1, <3>2, Zenon DEF Map!Remove
  <2>4. CASE k \in DOMAIN t.data
    <3>1. w \in Map!Under(k)
      BY <2>4, UnderIs, Zenon
    <3>2. Count(Beheaded(t.data, k)) = Map!Taken(Count(t.data), k, w)
      BY <1>2, <2>4, HeadCounts, Zenon
    <3> HIDE DEF w
    <3>3. Counted' = Map!Taken(Counted, k, w)
      BY <1>1, <2>1, <2>2, <2>4, <3>2
    <3> QED  BY <2>1, <3>1, <3>3, Zenon DEF Map!Remove
  <2> QED  BY <2>3, <2>4
<1>7. ASSUME Renew
      PROVE  Map!Next
  <2>1. t' = fp_chained_hash_table_new(Buckets) /\ ret' = Null
    BY <1>7 DEF Renew
  <2>2. t'.data = <<>>
    BY <2>1, NewRight, Zenon
  <2>3. Count(<<>>) = [k \in Ids |-> [v \in Values |-> 0]]
    BY NoChains, Zenon DEF Count
  <2>4. Map!Clear
    BY <1>1, <2>1, <2>2, <2>3 DEF Map!Clear
  <2> QED  BY <2>4, Zenon DEF Map!Next
<1>8. CASE UNCHANGED vars
  <2>1. Counted' = Counted /\ ret' = ret
    BY <1>1, <1>8 DEF vars
  <2> QED  BY <2>1, Zenon DEF Map!vars
<1>9. ASSUME Next
      PROVE  Map!Next
  BY <1>3, <1>4, <1>5, <1>6, <1>7, <1>9, Zenon DEF Next, Map!Next
<1> QED  BY <1>8, <1>9

(* The table is a map from ids to ports: nothing is lost or doubled when it    *)
(* grows, a removal and an update meet an entry of their key, and an address   *)
(* taken for an id finds nothing (hash.c:160-313).                             *)
THEOREM HashImplementsMap == Spec => ImplementsMap
<1>1. Spec => []HashInv
  BY HashSafe
<1>2. Init => Map!Init
  BY MapInit
<1>3. HashInv /\ HashInv' /\ [Next]_vars => [Map!Next]_(Map!vars)
  BY MapNext
<1> QED  BY <1>1, <1>2, <1>3, PTL DEF Spec, ImplementsMap, Map!Spec
=============================================================================
