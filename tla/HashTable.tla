----------------------------- MODULE HashTable -----------------------------
(***************************************************************************)
(* The chained hash table of src/flowpath/hash.c, as the data planes use   *)
(* it for their ports: it starts with 17 buckets, and both fp_uint_hash    *)
(* and fp_pointer_hash hash a key to itself.                               *)
(*                                                                         *)
(* A table is its size, its number of buckets, and its chains: data maps   *)
(* the buckets whose chain is not empty to the chain, head first.  The     *)
(* array may be longer than the table says: see resize.                    *)
(***************************************************************************)
EXTENDS Integers, Sequences, SequencesExt, FiniteSets

CONSTANTS
  Ids,         \* the keys inserted: port ids
  Addresses,   \* other keys asked for: addresses taken for ids
  Values,      \* the ports pointed to
  Buckets,     \* buckets of a new table
  MaxEntries,  \* bound: entries in the table
  Null

primes == <<
  53, 97, 193, 389, 769, 1543, 3079, 6151, 12289, 24593, 49157, 98317, 196613, 393241, 786433,
  1572869, 3145739, 6291469, 12582917, 25165843, 50331653, 100663319, 201326611, 402653189,
  805306457, 1610612741>>

ASSUME HashAssumption ==
  /\ Ids \subseteq 0 .. primes[1] - 1 /\ Addresses \subseteq Nat \ Ids
  /\ Buckets \in 1 .. primes[1] - 1 /\ MaxEntries \in Nat

VARIABLES
  t,     \* the table
  ret    \* the entry the last call returned, or Null

vars == <<t, ret>>

(* Bug: the size itself is no prime, but larger. *)
next_prime_Doubled(n) == 2 * n
next_prime(n) ==
  IF n >= Last(primes) THEN 0
  ELSE primes[CHOOSE i \in DOMAIN primes : primes[i] > n /\ (i = 1 \/ primes[i - 1] <= n)]

(* Bug: one bucket is never used. *)
hash_index_OneLess(table, k) == k % (table.buckets - 1)
hash_index(table, k) == k % table.buckets

Entries == [key : Ids, value : Values]

fp_chained_hash_table_new(buckets) == [size |-> 0, buckets |-> buckets, data |-> <<>>]

Chain(table, b) == IF b \in DOMAIN table.data THEN table.data[b] ELSE <<>>

SetChain(table, b, chain) ==
  [table EXCEPT !.data = [c \in (DOMAIN table.data \ {b}) \cup (IF chain = <<>> THEN {} ELSE {b})
                            |-> IF c = b THEN chain ELSE table.data[c]]]

(* fp_chained_hash_table_load, "buckets / size", is at least 3/4. *)
Loaded(table) == table.buckets >= (3 * table.size + 3) \div 4

(* The places of a table that hold an entry: a bucket, and a place in its chain. *)
(* The table does not look behind the buckets it knows of.                     *)
Slots(table) ==
  UNION {{b} \X DOMAIN table.data[b] : b \in DOMAIN table.data \cap 0 .. table.buckets - 1}

EntryAt(table, s) == table.data[s[1]][s[2]]

Before(r, s) == r[1] < s[1] \/ (r[1] = s[1] /\ r[2] < s[2])

(* The entries of some slots, bucket by bucket, each from its head.            *)
Listed(table, slots) ==
  LET nth(i) == CHOOSE s \in slots : Cardinality({r \in slots : Before(r, s)}) = i - 1
  IN [i \in 1 .. Cardinality(slots) |-> EntryAt(table, nth(i))]

(* What a copy visits.  Bug: the last bucket is skipped. *)
Visited_OneLess(table) == Listed(table, {s \in Slots(table) : s[1] # table.buckets - 1})
Visited(table) == Listed(table, Slots(table))

(* The table takes over the chains of a copy, but not its number of buckets;   *)
(* copy[n][es] is the table made with n buckets for the entries es.            *)
fp_chained_hash_table_resize(table, copy) ==
  LET n == next_prime(table.buckets) IN
  IF n = 0 THEN table
  ELSE [table EXCEPT !.buckets = n, !.data = copy[n][Visited(table)].data]

fp_chained_hash_table_insert(table, k, v, copy) ==
  LET grown == IF Loaded(table) THEN fp_chained_hash_table_resize(table, copy) ELSE table
      b     == hash_index(grown, k)
  IN SetChain([grown EXCEPT !.size = @ + 1], b, <<[key |-> k, value |-> v]>> \o Chain(grown, b))

(* Every entry is inserted into the new table, which may grow on its own, by   *)
(* copies of its own, of the fewer entries it has by then: Copied[d] makes the *)
(* copies of up to d entries.                                                  *)
Copied[d \in Nat] ==
  [n \in Nat |-> [es \in {es \in Seq(Entries) : Len(es) <= d} |->
    IF es = <<>> THEN fp_chained_hash_table_new(n)
    ELSE fp_chained_hash_table_insert(Copied[d - 1][n][Front(es)], Last(es).key, Last(es).value,
                                      Copied[d - 1])]]

(* The first entry of its bucket with key k, or 0. *)
Place(table, k) == SelectInSeq(Chain(table, hash_index(table, k)), LAMBDA e : e.key = k)

fp_chained_hash_table_find(table, k) ==
  IF Place(table, k) = 0 THEN Null ELSE Chain(table, hash_index(table, k))[Place(table, k)]

(* The head of the bucket gets the value, whatever its key. *)
fp_chained_hash_table_update(table, k, v) ==
  LET b == hash_index(table, k) IN
  IF Chain(table, b) = <<>> THEN table ELSE [table EXCEPT !.data[b][1].value = v]

(* Bug: only an entry behind the head is counted. *)
Unlinked_HeadKept(table, b, i) ==
  SetChain([table EXCEPT !.size = IF i = 1 THEN @ ELSE @ - 1], b, RemoveAt(Chain(table, b), i))
Unlinked(table, b, i) ==
  SetChain([table EXCEPT !.size = @ - 1], b, RemoveAt(Chain(table, b), i))

fp_chained_hash_table_remove(table, k) ==
  IF Place(table, k) = 0 THEN table ELSE Unlinked(table, hash_index(table, k), Place(table, k))

-----------------------------------------------------------------------------

Init == t = fp_chained_hash_table_new(Buckets) /\ ret = Null

Insert(k, v) ==
  /\ t.size < MaxEntries
  /\ t' = fp_chained_hash_table_insert(t, k, v, Copied[Len(Visited(t))])
  /\ ret' = [key |-> k, value |-> v]

Find(k)      == ret' = fp_chained_hash_table_find(t, k) /\ UNCHANGED t
Erase(k)     == t' = fp_chained_hash_table_remove(t, k) /\ ret' = Null
Update(k, v) == t' = fp_chained_hash_table_update(t, k, v) /\ ret' = Null

(* fp_dataplane_delete and fp_dataplane_create *)
Renew == t' = fp_chained_hash_table_new(Buckets) /\ ret' = Null

Next ==
  \/ \E k \in Ids, v \in Values : Insert(k, v) \/ Update(k, v)
  \/ \E k \in Ids \cup Addresses : Find(k) \/ Erase(k)
  \/ Renew

Spec == Init /\ [][Next]_vars

-----------------------------------------------------------------------------

TypeOK ==
  /\ t.buckets \in {Buckets} \cup ToSet(primes)
  /\ t.size \in Nat
  /\ \A b \in DOMAIN t.data : t.data[b] \in Seq(Entries) \ {<<>>}
  /\ ret \in Entries \cup {Null}

(* A bucket holds entries of one key, which is its number, however often the   *)
(* table and its copies grew: the head that an update changes, and the head    *)
(* that fp_dataplane_list_ports reads, belong to that key                      *)
(* (hash.c:224-283, dataplane.c:177-185).                                      *)
BucketOfOneKey == \A b \in DOMAIN t.data : \A i \in DOMAIN t.data[b] : t.data[b][i].key = b

(* The size, by which the daemon makes its list of ports, counts the entries,  *)
(* although it is neither taken from the copy nor compared with it             *)
(* (hash.c:224-313, manage.c:189-191).                                         *)
SizeCountsEntries == t.size = Cardinality(Slots(t))

Counted ==
  [k \in Ids |-> [v \in Values |->
    Cardinality({s \in Slots(t) : EntryAt(t, s) = [key |-> k, value |-> v]})]]

Map == INSTANCE MultiMap WITH Keys <- Ids, Foreign <- Addresses, count <- Counted, found <- ret

(* Ids below the smallest prime behave as in a map: nothing inserted is lost   *)
(* when the table grows or its copy grows while it is made, and a key that     *)
(* shares a bucket of the array is not taken for another (hash.c:160-313).     *)
ImplementsMap == Map!Spec
=============================================================================
