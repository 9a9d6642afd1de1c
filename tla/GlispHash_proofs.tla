-------------------------- MODULE GlispHash_proofs ---------------------------
(***************************************************************************)
(* A hash is a table whatever operations come before, and until the first  *)
(* deletion walks find every key and the count is right: proofs of the     *)
(* invariants of GlispHash and of its refinement of HashTable, for any     *)
(* keys, any numbers they share and any number of operations.              *)
(***************************************************************************)
EXTENDS GlispHash, StackLemmas, FiniteSetTheorems

-----------------------------------------------------------------------------
(* The inductive invariant *)

PairOf == [head : Hashable, tail : Value]

\* A bucket holds pairs whose keys have its number, one for each key.
Good(arr, code) ==
  /\ arr \in Seq(PairOf)
  /\ \A i \in DOMAIN arr :
       /\ arr[i].head.code = code
       /\ \A j \in DOMAIN arr : ClassOf(arr[i].head) = ClassOf(arr[j].head) => i = j

Types ==
  /\ \A c \in DOMAIN buckets : Good(buckets[c], c)
  /\ order \in Seq(Hashable) /\ left \in Seq(Hashable) /\ seen \in Seq(PairOf) /\ count \in Int
  /\ status \in {"ready", "walking", "inconsistent", "panicked"} /\ removed \in BOOLEAN

Found(keys)    == \A i \in DOMAIN keys : HashGetDefault(keys[i]) # Absent
OnceEach(keys) == \A i, j \in DOMAIN keys : ClassOf(keys[i]) = ClassOf(keys[j]) => i = j

\* Until a deletion, the order and what a walk has left hold each key once and
\* only keys that have a pair, the walk has not been at what it has left, and
\* the count is that of the pairs.
Walkable ==
  /\ status # "inconsistent"
  /\ OnceEach(order) /\ Found(order) /\ OnceEach(left) /\ Found(left)
  /\ \A i, j \in DOMAIN seen : ClassOf(seen[i].head) = ClassOf(seen[j].head) => i = j
  /\ \A i \in DOMAIN seen, j \in DOMAIN left : ClassOf(seen[i].head) # ClassOf(left[j])
Counted == status # "panicked" /\ IsFiniteSet(Pairs) /\ count = Cardinality(Pairs)

IInv == Types /\ (~removed => Walkable /\ Counted)

-----------------------------------------------------------------------------
(* Keys and buckets *)

\* Compare says 0 of keys that are one, and those have one number.
LEMMA SameClass ==
  ASSUME NEW a \in Hashable, NEW b \in Hashable
  PROVE  /\ Same(a, b) <=> ClassOf(a) = ClassOf(b)
         /\ ClassOf(a) = ClassOf(b) => a.code = b.code
  BY HashAssumption DEF Same, ClassOf, Hashable, Numbers

\* What a look-up in a bucket finds.
Get(arr, key) == IF Hits(arr, key) = {} THEN Absent ELSE arr[Min(Hits(arr, key))].tail

\* The least of one number.
LEMMA LeastOfOne ==
  ASSUME NEW i \in Int
  PROVE  Min({i}) = i
  BY DEF Min

\* The members of a good bucket.
LEMMA GoodMembers ==
  ASSUME NEW code, NEW arr, Good(arr, code)
  PROVE  /\ DOMAIN arr = 1 .. Len(arr) /\ Len(arr) \in Nat
         /\ \A i \in DOMAIN arr : arr[i] \in PairOf /\ arr[i].head \in Hashable /\ arr[i].tail \in Value
  <1>1. arr \in Seq(PairOf)
    BY DEF Good
  <1>2. DOMAIN arr = 1 .. Len(arr) /\ Len(arr) \in Nat /\ \A i \in DOMAIN arr : arr[i] \in PairOf
    BY <1>1, LenProperties, ElementOfSeq
  <1> QED
    BY <1>2 DEF PairOf

\* The look-up in a good bucket finds the pair of the key, if there is one.
LEMMA GetFinds ==
  ASSUME NEW code, NEW arr, Good(arr, code), NEW key \in Hashable
  PROVE  /\ \A i \in DOMAIN arr : ClassOf(arr[i].head) = ClassOf(key) =>
              Hits(arr, key) = {i} /\ Min(Hits(arr, key)) = i /\ Get(arr, key) = arr[i].tail
         /\ (\A i \in DOMAIN arr : ClassOf(arr[i].head) # ClassOf(key)) =>
              Hits(arr, key) = {} /\ Get(arr, key) = Absent
         /\ \A i \in Hits(arr, key) : i \in DOMAIN arr /\ ClassOf(arr[i].head) = ClassOf(key)
  <1>1. Hits(arr, key) = {i \in DOMAIN arr : ClassOf(arr[i].head) = ClassOf(key)}
    BY GoodMembers, SameClass DEF Hits
  <1>2. ASSUME NEW i \in DOMAIN arr, ClassOf(arr[i].head) = ClassOf(key)
        PROVE  Hits(arr, key) = {i} /\ Min(Hits(arr, key)) = i /\ Get(arr, key) = arr[i].tail
    <2>1. Hits(arr, key) = {i}
      BY <1>1, <1>2 DEF Good
    <2>2. Min({i}) = i
      BY GoodMembers, LeastOfOne
    <2> QED
      BY <2>1, <2>2 DEF Get
  <1>3. ASSUME \A i \in DOMAIN arr : ClassOf(arr[i].head) # ClassOf(key)
        PROVE  Hits(arr, key) = {} /\ Get(arr, key) = Absent
    BY <1>1, <1>3 DEF Get
  <1> QED
    BY <1>1, <1>2, <1>3

\* Keys that are one find the same.
LEMMA GetOfClass ==
  ASSUME NEW code, NEW arr, Good(arr, code), NEW a \in Hashable, NEW b \in Hashable,
         ClassOf(a) = ClassOf(b)
  PROVE  Get(arr, a) = Get(arr, b)
  <1>1. CASE \E i \in DOMAIN arr : ClassOf(arr[i].head) = ClassOf(a)
    BY <1>1, GetFinds
  <1>2. CASE \A i \in DOMAIN arr : ClassOf(arr[i].head) # ClassOf(a)
    BY <1>2, GetFinds
  <1> QED
    BY <1>1, <1>2

\* What the value is when there is one.
LEMMA GetTyped ==
  ASSUME NEW code, NEW arr, Good(arr, code), NEW key \in Hashable
  PROVE  /\ Hits(arr, key) = {} => Get(arr, key) = Absent
         /\ Hits(arr, key) # {} => Get(arr, key) \in Value /\ Get(arr, key) # Absent
  <1>1. CASE Hits(arr, key) = {}
    BY <1>1 DEF Get
  <1>2. CASE Hits(arr, key) # {}
    <2>1. PICK i \in Hits(arr, key) : TRUE
      BY <1>2
    <2>2. i \in DOMAIN arr /\ Get(arr, key) = arr[i].tail
      BY <2>1, GetFinds
    <2> QED
      BY <1>2, <2>2, GoodMembers, HashAssumption
  <1> QED
    BY <1>1, <1>2

\* A pair that is to be stored.
LEMMA PairTyped ==
  ASSUME NEW key \in Hashable, NEW val \in Value
  PROVE  Pair(key, val) \in PairOf /\ Pair(key, val).head = key /\ Pair(key, val).tail = val
  <1>1. PICK pair : pair = [head |-> key, tail |-> val]
    OBVIOUS
  <1>2. pair \in PairOf /\ pair.head = key /\ pair.tail = val
    BY <1>1 DEF PairOf
  <1> QED
    BY <1>1, <1>2 DEF Pair

\* A bucket in which the pair of a key was set.
SetIn(arr, key, val) ==
  IF Hits(arr, key) = {} THEN Append(arr, Pair(key, val))
  ELSE [i \in DOMAIN arr |-> IF i \in Hits(arr, key) THEN Pair(key, val) ELSE arr[i]]

LEMMA SetInGood ==
  ASSUME NEW key \in Hashable, NEW val \in Value, NEW arr, Good(arr, key.code)
  PROVE  /\ Good(SetIn(arr, key, val), key.code)
         /\ \A k \in Hashable : ClassOf(k) = ClassOf(key) => Get(SetIn(arr, key, val), k) = val
         /\ \A k \in Hashable : ClassOf(k) # ClassOf(key) => Get(SetIn(arr, key, val), k) = Get(arr, k)
         /\ DOMAIN SetIn(arr, key, val) =
              IF Hits(arr, key) = {} THEN DOMAIN arr \cup {Len(arr) + 1} ELSE DOMAIN arr
         /\ Len(arr) + 1 \notin DOMAIN arr
  <1>1. PICK pair \in PairOf : pair = Pair(key, val) /\ pair.head = key /\ pair.tail = val
    BY PairTyped
  <1>2. PICK new : new = SetIn(arr, key, val)
    OBVIOUS
  <1>3. /\ DOMAIN arr = 1 .. Len(arr) /\ Len(arr) \in Nat /\ arr \in Seq(PairOf)
        /\ \A i \in DOMAIN arr : arr[i] \in PairOf /\ arr[i].head \in Hashable /\ arr[i].tail \in Value
    BY GoodMembers DEF Good
  <1>4. /\ new \in Seq(PairOf)
        /\ DOMAIN new = IF Hits(arr, key) = {} THEN DOMAIN arr \cup {Len(arr) + 1} ELSE DOMAIN arr
        /\ \A i \in DOMAIN new :
             new[i] = IF i \in DOMAIN arr \ Hits(arr, key) THEN arr[i] ELSE pair
    <2>1. CASE Hits(arr, key) = {}
      <3>1. /\ Append(arr, pair) \in Seq(PairOf) /\ DOMAIN Append(arr, pair) = 1 .. Len(arr) + 1
            /\ \A i \in 1 .. Len(arr) : Append(arr, pair)[i] = arr[i]
            /\ Append(arr, pair)[Len(arr) + 1] = pair
        BY ONLY <1>3, pair \in PairOf, PushPop
      <3>2. new = Append(arr, pair)
        BY <1>1, <1>2, <2>1 DEF SetIn
      <3> QED
        BY <1>3, <2>1, <3>1, <3>2
    <2>2. CASE Hits(arr, key) # {}
      <3>1. new = [i \in DOMAIN arr |-> IF i \in Hits(arr, key) THEN pair ELSE arr[i]]
        BY <1>1, <1>2, <2>2 DEF SetIn
      <3>2. new \in [1 .. Len(arr) -> PairOf]
        BY <1>3, <3>1
      <3>3. new \in Seq(PairOf)
        BY <1>3, <3>2
      <3> QED
        BY <2>2, <3>1, <3>3
    <2> QED
      BY <2>1, <2>2
  <1>5. \E i \in DOMAIN new : new[i] = pair
    <2>1. CASE Hits(arr, key) = {}
      BY <1>3, <1>4, <2>1
    <2>2. CASE Hits(arr, key) # {}
      BY <1>4, <2>2 DEF Hits
    <2> QED
      BY <2>1, <2>2
  <1>6. Good(new, key.code)
    <2>1. ASSUME NEW i \in DOMAIN new
          PROVE  /\ new[i].head.code = key.code
                 /\ i \in DOMAIN arr \ Hits(arr, key) => ClassOf(new[i].head) # ClassOf(key)
      <3>1. CASE i \in DOMAIN arr \ Hits(arr, key)
        <4>1. new[i] = arr[i] /\ arr[i].head \in Hashable
          BY <1>3, <1>4, <3>1
        <4>2. ~Same(arr[i].head, key)
          BY <3>1 DEF Hits
        <4> QED
          BY <3>1, <4>1, <4>2, SameClass DEF Good
      <3>2. CASE i \notin DOMAIN arr \ Hits(arr, key)
        BY <1>1, <1>4, <2>1, <3>2
      <3> QED
        BY <3>1, <3>2
    <2>2. ASSUME NEW i \in DOMAIN new, NEW j \in DOMAIN new,
                 i \notin DOMAIN arr \ Hits(arr, key), j \notin DOMAIN arr \ Hits(arr, key)
          PROVE  i = j
      <3>1. CASE Hits(arr, key) = {}
        BY <1>4, <2>2, <3>1
      <3>2. CASE Hits(arr, key) # {}
        <4>1. i \in Hits(arr, key) /\ j \in Hits(arr, key)
          BY <1>4, <2>2, <3>2
        <4> QED
          BY <4>1, GetFinds
      <3> QED
        BY <3>1, <3>2
    <2>3. ASSUME NEW i \in DOMAIN new, NEW j \in DOMAIN new, ClassOf(new[i].head) = ClassOf(new[j].head)
          PROVE  i = j
      <3>1. CASE i \in DOMAIN arr \ Hits(arr, key) /\ j \in DOMAIN arr \ Hits(arr, key)
        BY <1>4, <2>3, <3>1 DEF Good
      <3>2. CASE i \in DOMAIN arr \ Hits(arr, key) /\ j \notin DOMAIN arr \ Hits(arr, key)
        BY <1>1, <1>4, <2>1, <2>3, <3>2
      <3>3. CASE i \notin DOMAIN arr \ Hits(arr, key) /\ j \in DOMAIN arr \ Hits(arr, key)
        BY <1>1, <1>4, <2>1, <2>3, <3>3
      <3>4. CASE i \notin DOMAIN arr \ Hits(arr, key) /\ j \notin DOMAIN arr \ Hits(arr, key)
        BY <2>2, <3>4
      <3> QED
        BY <3>1, <3>2, <3>3, <3>4
    <2> QED
      BY <1>4, <2>1, <2>3 DEF Good
  <1>7. ASSUME NEW k \in Hashable
        PROVE  Get(new, k) = IF ClassOf(k) = ClassOf(key) THEN val ELSE Get(arr, k)
    <2>1. CASE ClassOf(k) = ClassOf(key)
      <3>1. PICK i \in DOMAIN new : new[i] = pair
        BY <1>5
      <3> QED
        BY <1>1, <1>6, <2>1, <3>1, GetFinds
    <2>2. CASE ClassOf(k) # ClassOf(key) /\ \E i \in DOMAIN arr : ClassOf(arr[i].head) = ClassOf(k)
      <3>1. PICK i \in DOMAIN arr : ClassOf(arr[i].head) = ClassOf(k)
        BY <2>2
      <3>2. i \notin Hits(arr, key)
        BY <2>2, <3>1, GetFinds
      <3>3. i \in DOMAIN new /\ new[i] = arr[i]
        BY <1>4, <3>1, <3>2
      <3>4. Get(new, k) = new[i].tail
        BY <1>6, <3>1, <3>3, GetFinds
      <3> QED
        BY <2>2, <3>1, <3>3, <3>4, GetFinds
    <2>3. CASE ClassOf(k) # ClassOf(key) /\ \A i \in DOMAIN arr : ClassOf(arr[i].head) # ClassOf(k)
      <3>1. \A i \in DOMAIN new : ClassOf(new[i].head) # ClassOf(k)
        BY <1>1, <1>4, <2>3
      <3> QED
        BY <1>6, <2>3, <3>1, GetFinds
    <2> QED
      BY <2>1, <2>2, <2>3
  <1> QED
    BY <1>2, <1>3, <1>4, <1>6, <1>7

\* A bucket from which the pair of a key was deleted.
DeleteIn(arr, key) == IF Hits(arr, key) = {} THEN arr ELSE RemoveAt(arr, Min(Hits(arr, key)))

\* What is left when one place of a sequence is taken out.
LEMMA Removed ==
  ASSUME NEW S, NEW s \in Seq(S), NEW i \in 1 .. Len(s)
  PROVE  /\ RemoveAt(s, i) \in Seq(S) /\ DOMAIN RemoveAt(s, i) = 1 .. Len(s) - 1
         /\ \A j \in 1 .. Len(s) - 1 : RemoveAt(s, i)[j] = IF j < i THEN s[j] ELSE s[j + 1]
  <1>1. Len(s) \in Nat /\ DOMAIN s = 1 .. Len(s) /\ \A j \in 1 .. Len(s) : s[j] \in S
    BY LenProperties, ElementOfSeq
  <1>2. PICK a : a = SubSeq(s, 1, i - 1)
    OBVIOUS
  <1>3. PICK b : b = SubSeq(s, i + 1, Len(s))
    OBVIOUS
  <1>4. a \in Seq(S) /\ Len(a) = i - 1 /\ \A j \in 1 .. i - 1 : a[j] = s[j]
    BY <1>1, <1>2
  <1>5. b \in Seq(S) /\ Len(b) = Len(s) - i /\ \A j \in 1 .. Len(s) - i : b[j] = s[i + j]
    <2>1. /\ SubSeq(s, i + 1, Len(s)) \in Seq(S)
          /\ Len(SubSeq(s, i + 1, Len(s))) = IF i + 1 <= Len(s) THEN Len(s) - (i + 1) + 1 ELSE 0
          /\ \A j \in 1 .. Len(s) - (i + 1) + 1 : SubSeq(s, i + 1, Len(s))[j] = s[(i + 1) + j - 1]
      BY <1>1, SubSeqProperties
    <2>2. Len(s) - (i + 1) + 1 = Len(s) - i /\ \A j \in 1 .. Len(s) - i : (i + 1) + j - 1 = i + j
      BY <1>1
    <2>3. Len(b) = Len(s) - i
      <3>1. (IF i + 1 <= Len(s) THEN Len(s) - (i + 1) + 1 ELSE 0) = Len(s) - i
        <4>1. ASSUME NEW n \in Nat, i \in 1 .. n
              PROVE  (IF i + 1 <= n THEN n - (i + 1) + 1 ELSE 0) = n - i
          <5>1. CASE i = n
            BY <4>1, <5>1
          <5>2. CASE i + 1 <= n
            BY <4>1, <5>2
          <5> QED
            BY <4>1, <5>1, <5>2
        <4> QED
          BY <1>1, <4>1
      <3>2. Len(b) = IF i + 1 <= Len(s) THEN Len(s) - (i + 1) + 1 ELSE 0
        BY <1>3, <2>1
      <3> QED
        BY <3>1, <3>2
    <2> QED
      BY <1>3, <2>1, <2>2, <2>3
  <1>6. /\ a \o b \in Seq(S) /\ Len(a \o b) = Len(s) - 1 /\ DOMAIN (a \o b) = 1 .. Len(s) - 1
        /\ \A j \in 1 .. Len(s) - 1 : (a \o b)[j] = IF j <= i - 1 THEN a[j] ELSE b[j - (i - 1)]
    <2>1. /\ a \o b \in Seq(S) /\ Len(a \o b) = Len(a) + Len(b) /\ DOMAIN (a \o b) = 1 .. Len(a) + Len(b)
          /\ \A j \in 1 .. Len(a) + Len(b) : (a \o b)[j] = IF j <= Len(a) THEN a[j] ELSE b[j - Len(a)]
      <3>1. a \in Seq(S) /\ b \in Seq(S)
        BY <1>4, <1>5
      <3>2. /\ a \o b \in Seq(S) /\ Len(a \o b) = Len(a) + Len(b)
            /\ \A j \in 1 .. Len(a) + Len(b) : (a \o b)[j] = IF j <= Len(a) THEN a[j] ELSE b[j - Len(a)]
        BY ONLY <3>1, ConcatProperties
      <3>3. DOMAIN (a \o b) = 1 .. Len(a \o b)
        BY ONLY <3>2, LenProperties
      <3> QED
        BY <3>2, <3>3
    <2>2. Len(a) + Len(b) = Len(s) - 1
      BY <1>1, <1>4, <1>5
    <2> QED
      BY <1>4, <2>1, <2>2
  <1>7. ASSUME NEW j \in 1 .. Len(s) - 1
        PROVE  (a \o b)[j] = IF j < i THEN s[j] ELSE s[j + 1]
    <2>1. CASE j < i
      <3>1. j \in 1 .. i - 1 /\ j <= i - 1
        BY <1>1, <2>1
      <3> QED
        BY <1>4, <1>6, <2>1, <3>1
    <2>2. CASE ~(j < i)
      <3>1. j - (i - 1) \in 1 .. Len(s) - i /\ i + (j - (i - 1)) = j + 1 /\ ~(j <= i - 1)
        BY <1>1, <2>2
      <3>2. (a \o b)[j] = b[j - (i - 1)]
        BY <1>6, <3>1
      <3> QED
        BY <1>5, <2>2, <3>1, <3>2
    <2> QED
      BY <2>1, <2>2
  <1> QED
    BY <1>2, <1>3, <1>6, <1>7 DEF RemoveAt

LEMMA DeleteInGood ==
  ASSUME NEW key \in Hashable, NEW arr, Good(arr, key.code)
  PROVE  /\ Good(DeleteIn(arr, key), key.code)
         /\ \A k \in Hashable :
              Get(DeleteIn(arr, key), k) = IF ClassOf(k) = ClassOf(key) THEN Absent ELSE Get(arr, k)
  <1>1. CASE Hits(arr, key) = {}
    <2>1. \A k \in Hashable : ClassOf(k) = ClassOf(key) => Get(arr, k) = Absent
      BY <1>1, GetTyped, GetOfClass
    <2> QED
      BY <1>1, <2>1 DEF DeleteIn
  <1>2. CASE Hits(arr, key) # {}
    <2>1. PICK at \in DOMAIN arr : ClassOf(arr[at].head) = ClassOf(key) /\ Min(Hits(arr, key)) = at
      BY <1>2, GetFinds
    <2>2. /\ DOMAIN arr = 1 .. Len(arr) /\ Len(arr) \in Nat /\ arr \in Seq(PairOf)
          /\ \A i \in DOMAIN arr : arr[i].head.code = key.code
      BY GoodMembers DEF Good
    <2>3. PICK new : new = DeleteIn(arr, key) /\ new = RemoveAt(arr, at)
      BY <1>2, <2>1 DEF DeleteIn
    <2>4. /\ new \in Seq(PairOf) /\ DOMAIN new = 1 .. Len(arr) - 1
          /\ \A j \in 1 .. Len(arr) - 1 : new[j] = IF j < at THEN arr[j] ELSE arr[j + 1]
      BY <2>1, <2>2, <2>3, Removed
    <2> DEFINE old(j) == IF j < at THEN j ELSE j + 1
    <2>5. ASSUME NEW j \in DOMAIN new
          PROVE  old(j) \in DOMAIN arr \ {at} /\ new[j] = arr[old(j)] /\ j \in Nat
      BY <2>1, <2>2, <2>4
    <2>6. \A i \in DOMAIN arr \ {at} : \E j \in DOMAIN new : new[j] = arr[i]
      <3> SUFFICES ASSUME NEW i \in DOMAIN arr \ {at} PROVE \E j \in DOMAIN new : new[j] = arr[i]
        OBVIOUS
      <3>1. CASE i < at
        BY <2>1, <2>2, <2>4, <3>1
      <3>2. CASE ~(i < at)
        <4>1. i - 1 \in DOMAIN new /\ ~(i - 1 < at) /\ (i - 1) + 1 = i
          BY <2>1, <2>2, <2>4, <3>2
        <4> QED
          BY <2>4, <4>1
      <3> QED
        BY <3>1, <3>2
    <2>7. Good(new, key.code)
      <3>1. ASSUME NEW i \in DOMAIN new, NEW j \in DOMAIN new, ClassOf(new[i].head) = ClassOf(new[j].head)
            PROVE  i = j
        <4>1. old(i) = old(j)
          <5> HIDE DEF old
          <5> QED
            BY <2>5, <3>1 DEF Good
        <4> QED
          BY <2>1, <2>2, <2>5, <4>1
      <3> HIDE DEF old
      <3> QED
        BY <2>2, <2>4, <2>5, <3>1 DEF Good
    <2> HIDE DEF old
    <2>8. ASSUME NEW k \in Hashable
          PROVE  Get(new, k) = IF ClassOf(k) = ClassOf(key) THEN Absent ELSE Get(arr, k)
      <3>1. CASE ClassOf(k) = ClassOf(key)
        <4>1. \A j \in DOMAIN new : ClassOf(new[j].head) # ClassOf(k)
          BY <2>1, <2>5, <3>1 DEF Good
        <4> QED
          BY <2>7, <3>1, <4>1, GetFinds
      <3>2. CASE ClassOf(k) # ClassOf(key) /\ \E i \in DOMAIN arr : ClassOf(arr[i].head) = ClassOf(k)
        <4>1. PICK i \in DOMAIN arr : ClassOf(arr[i].head) = ClassOf(k)
          BY <3>2
        <4>2. PICK j \in DOMAIN new : new[j] = arr[i]
          BY <2>1, <2>6, <3>2, <4>1
        <4>3. Get(new, k) = new[j].tail
          BY <2>7, <4>1, <4>2, GetFinds
        <4> QED
          BY <3>2, <4>1, <4>2, <4>3, GetFinds
      <3>3. CASE ClassOf(k) # ClassOf(key) /\ \A i \in DOMAIN arr : ClassOf(arr[i].head) # ClassOf(k)
        <4>1. \A j \in DOMAIN new : ClassOf(new[j].head) # ClassOf(k)
          BY <2>5, <3>3
        <4> QED
          BY <2>7, <3>3, <4>1, GetFinds
      <3> QED
        BY <3>1, <3>2, <3>3
    <2> QED
      BY <2>3, <2>7, <2>8
  <1> QED
    BY <1>1, <1>2

-----------------------------------------------------------------------------
(* The state *)

\* The bucket that a key is looked up in.
LEMMA BucketGood ==
  ASSUME Types, NEW key \in Hashable
  PROVE  Good(Bucket(key), key.code)
  <1>1. CASE key.code \in DOMAIN buckets
    BY <1>1 DEF Types, Bucket
  <1>2. CASE key.code \notin DOMAIN buckets
    <2>1. <<>> \in Seq(PairOf) /\ DOMAIN <<>> = {}
      BY EmptySeq
    <2> QED
      BY <1>2, <2>1 DEF Bucket, Good
  <1> QED
    BY <1>1, <1>2

\* A look-up in the hash is one in the bucket.
LEMMA LookUp ==
  /\ \A key : HashGetDefault(key) = Get(Bucket(key), key)
  /\ \A key : HashGetDefault(key)' = Get(Bucket(key)', key)
  <1>1. \A key : Hits(<<>>, key) = {}
    BY DEF Hits
  <1> QED
    BY <1>1 DEF HashGetDefault, Get, Bucket

\* Keys that are one are found alike.
LEMMA LookUpOfClass ==
  ASSUME Types, NEW a \in Hashable, NEW b \in Hashable, ClassOf(a) = ClassOf(b)
  PROVE  HashGetDefault(a) = HashGetDefault(b)
  <1>1. Bucket(a) = Bucket(b)
    BY SameClass DEF Bucket
  <1> QED
    BY <1>1, BucketGood, LookUp, GetOfClass

\* A bucket takes the place of another.
LEMMA Stored ==
  ASSUME Types, NEW key \in Hashable, NEW arr, Good(arr, key.code), Store(key, arr)
  PROVE  /\ \A c \in DOMAIN buckets' : Good(buckets'[c], c)
         /\ \A k \in Hashable : Bucket(k)' = IF k.code = key.code THEN arr ELSE Bucket(k)
         /\ DOMAIN buckets' = DOMAIN buckets \cup {key.code}
         /\ buckets'[key.code] = arr
         /\ \A c \in DOMAIN buckets \ {key.code} : buckets'[c] = buckets[c]
  <1>1. /\ DOMAIN buckets' = DOMAIN buckets \cup {key.code}
        /\ buckets'[key.code] = arr
        /\ \A c \in DOMAIN buckets \ {key.code} : buckets'[c] = buckets[c]
    BY DEF Store
  <1>2. \A c \in DOMAIN buckets' : Good(buckets'[c], c)
    BY <1>1 DEF Types
  <1>3. \A k \in Hashable : Bucket(k)' = IF k.code = key.code THEN arr ELSE Bucket(k)
    BY <1>1 DEF Bucket
  <1> QED
    BY <1>1, <1>2, <1>3

\* What is found after a key was set.
LEMMA SetFinds ==
  ASSUME Types, NEW key \in Hashable, NEW val \in Value, HashSet(key, val)
  PROVE  /\ \A c \in DOMAIN buckets' : Good(buckets'[c], c)
         /\ \A k \in Hashable : HashGetDefault(k)' =
              IF ClassOf(k) = ClassOf(key) THEN val ELSE HashGetDefault(k)
  <1> DEFINE arr == Bucket(key)
             new == SetIn(arr, key, val)
  <1>1. Good(arr, key.code)
    BY BucketGood
  <1>2. Store(key, new)
    BY DEF HashSet, SetIn
  <1> HIDE DEF new, arr
  <1>3. /\ Good(new, key.code)
        /\ \A k \in Hashable : Get(new, k) = IF ClassOf(k) = ClassOf(key) THEN val ELSE Get(arr, k)
    <2>1. key \in Hashable /\ val \in Value
      OBVIOUS
    <2>2. Good(SetIn(arr, key, val), key.code)
      BY ONLY <2>1, <1>1, SetInGood
    <2>3. \A k \in Hashable : ClassOf(k) = ClassOf(key) => Get(SetIn(arr, key, val), k) = val
      BY ONLY <2>1, <1>1, SetInGood
    <2>4. \A k \in Hashable : ClassOf(k) # ClassOf(key) => Get(SetIn(arr, key, val), k) = Get(arr, k)
      BY ONLY <2>1, <1>1, SetInGood
    <2> QED
      BY <2>2, <2>3, <2>4 DEF new
  <1>4. /\ \A c \in DOMAIN buckets' : Good(buckets'[c], c)
        /\ \A k \in Hashable : Bucket(k)' = IF k.code = key.code THEN new ELSE Bucket(k)
    BY <1>2, <1>3, Stored
  <1>5. ASSUME NEW k \in Hashable
        PROVE  HashGetDefault(k)' = IF ClassOf(k) = ClassOf(key) THEN val ELSE HashGetDefault(k)
    <2>1. HashGetDefault(k)' = Get(Bucket(k)', k) /\ HashGetDefault(k) = Get(Bucket(k), k)
      BY LookUp
    <2>2. CASE k.code = key.code
      <3>1. Bucket(k)' = new /\ Bucket(k) = arr
        BY <1>4, <2>2 DEF arr, Bucket
      <3> QED
        BY <1>3, <2>1, <3>1
    <2>3. CASE k.code # key.code
      <3>1. Bucket(k)' = Bucket(k) /\ ClassOf(k) # ClassOf(key)
        BY <1>4, <2>3, SameClass
      <3> QED
        BY <2>1, <3>1
    <2> QED
      BY <2>2, <2>3
  <1> QED
    BY <1>4, <1>5

\* What is found after a key was deleted.
LEMMA DeleteFinds ==
  ASSUME Types, NEW key \in Hashable, HashDelete(key)
  PROVE  /\ \A c \in DOMAIN buckets' : Good(buckets'[c], c)
         /\ \A k \in Hashable : HashGetDefault(k)' =
              IF ClassOf(k) = ClassOf(key) THEN Absent ELSE HashGetDefault(k)
  <1> DEFINE arr == Bucket(key)
             new == DeleteIn(arr, key)
  <1>1. Good(arr, key.code)
    BY BucketGood
  <1>2. Store(key, new) \/ (UNCHANGED buckets /\ Hits(arr, key) = {})
    <2>1. key.code \notin DOMAIN buckets => Hits(arr, key) = {}
      BY DEF Bucket, Hits
    <2> QED
      BY <2>1 DEF HashDelete, DeleteIn
  <1> HIDE DEF new, arr
  <1>3. /\ Good(new, key.code)
        /\ \A k \in Hashable : Get(new, k) = IF ClassOf(k) = ClassOf(key) THEN Absent ELSE Get(arr, k)
    <2>1. key \in Hashable
      OBVIOUS
    <2>2. Good(DeleteIn(arr, key), key.code)
      BY ONLY <2>1, <1>1, DeleteInGood
    <2>3. ASSUME NEW k \in Hashable
          PROVE  Get(DeleteIn(arr, key), k) = IF ClassOf(k) = ClassOf(key) THEN Absent ELSE Get(arr, k)
      BY ONLY <2>1, <1>1, k \in Hashable, DeleteInGood
    <2> QED
      BY <2>2, <2>3 DEF new
  <1>4. /\ \A c \in DOMAIN buckets' : Good(buckets'[c], c)
        /\ \A k \in Hashable : Bucket(k)' = IF k.code = key.code THEN new ELSE Bucket(k)
    <2>1. CASE Store(key, new)
      BY <1>3, <2>1, Stored
    <2>2. CASE UNCHANGED buckets /\ Hits(arr, key) = {}
      <3>1. new = arr
        BY <2>2 DEF new, DeleteIn
      <3>2. \A k \in Hashable : k.code = key.code => Bucket(k) = arr
        BY DEF arr, Bucket
      <3>3. \A k \in Hashable : Bucket(k)' = Bucket(k)
        BY <2>2 DEF Bucket
      <3>4. \A c \in DOMAIN buckets' : Good(buckets'[c], c)
        BY <2>2 DEF Types
      <3> QED
        BY <3>1, <3>2, <3>3, <3>4
    <2> QED
      BY <1>2, <2>1, <2>2
  <1>5. ASSUME NEW k \in Hashable
        PROVE  HashGetDefault(k)' = IF ClassOf(k) = ClassOf(key) THEN Absent ELSE HashGetDefault(k)
    <2>1. HashGetDefault(k)' = Get(Bucket(k)', k) /\ HashGetDefault(k) = Get(Bucket(k), k)
      BY LookUp
    <2>2. CASE k.code = key.code
      <3>1. Bucket(k)' = new /\ Bucket(k) = arr
        BY <1>4, <2>2 DEF arr, Bucket
      <3> QED
        BY <1>3, <2>1, <3>1
    <2>3. CASE k.code # key.code
      <3>1. Bucket(k)' = Bucket(k) /\ ClassOf(k) # ClassOf(key)
        BY <1>4, <2>3, SameClass
      <3> QED
        BY <2>1, <3>1
    <2> QED
      BY <2>2, <2>3
  <1> QED
    BY <1>4, <1>5

\* What is found in buckets that did not change.
LEMMA SameBucketsFind ==
  ASSUME UNCHANGED buckets
  PROVE  (\A key : HashGetDefault(key)' = HashGetDefault(key)) /\ Pairs' = Pairs
  BY DEF HashGetDefault, Pairs

-----------------------------------------------------------------------------
(* The inductive invariant is one *)

\* The hash is empty at the start.
LEMMA InitIInv == Init => IInv
  <1> SUFFICES ASSUME Init PROVE IInv
    OBVIOUS
  <1>1. Types
    <2>1. order \in Seq(Hashable) /\ left \in Seq(Hashable) /\ seen \in Seq(PairOf)
      BY EmptySeq DEF Init
    <2>2. removed \in BOOLEAN
      BY Zenon DEF Init
    <2> QED
      BY <2>1, <2>2 DEF Init, Types
  <1>2. Walkable
    BY DEF Init, Walkable, OnceEach, Found
  <1>3. Counted
    <2>1. Pairs = {}
      BY DEF Init, Pairs
    <2> QED
      BY <2>1, FS_EmptySet DEF Init, Counted
  <1> QED
    BY <1>1, <1>2, <1>3 DEF IInv

\* The keys of the order and of a walk are keys.
LEMMA KeysTyped ==
  ASSUME NEW keys \in Seq(Hashable)
  PROVE  DOMAIN keys = 1 .. Len(keys) /\ Len(keys) \in Nat /\ \A i \in DOMAIN keys : keys[i] \in Hashable
  BY LenProperties, ElementOfSeq

\* The pairs of the hash after a key was set: one more if it is a new key.
LEMMA SetCounts ==
  ASSUME Types, NEW key \in Hashable, NEW val \in Value, HashSet(key, val), Counted
  PROVE  IsFiniteSet(Pairs') /\ count' = Cardinality(Pairs')
  <1> DEFINE arr == Bucket(key)
             new == SetIn(arr, key, val)
             fresh == <<key.code, Len(arr) + 1>>
  <1>1. Good(arr, key.code)
    BY BucketGood
  <1>2. Store(key, new)
    BY DEF HashSet, SetIn
  <1>3. key.code \notin DOMAIN buckets => arr = <<>> /\ DOMAIN arr = {} /\ Hits(arr, key) = {}
    BY DEF Bucket, Hits
  <1>4. key.code \in DOMAIN buckets => arr = buckets[key.code]
    BY DEF Bucket
  <1>5. count' = IF Hits(arr, key) = {} THEN count + 1 ELSE count
    BY DEF HashSet
  <1> HIDE DEF new, arr
  <1>6. /\ Good(new, key.code) /\ Len(arr) + 1 \notin DOMAIN arr
        /\ DOMAIN new = IF Hits(arr, key) = {} THEN DOMAIN arr \cup {Len(arr) + 1} ELSE DOMAIN arr
    <2>1. key \in Hashable /\ val \in Value
      OBVIOUS
    <2>2. /\ Good(SetIn(arr, key, val), key.code) /\ Len(arr) + 1 \notin DOMAIN arr
          /\ DOMAIN SetIn(arr, key, val) =
               IF Hits(arr, key) = {} THEN DOMAIN arr \cup {Len(arr) + 1} ELSE DOMAIN arr
      BY ONLY <2>1, <1>1, SetInGood
    <2> QED
      BY ONLY <2>2 DEF new
  <1>7. /\ DOMAIN buckets' = DOMAIN buckets \cup {key.code} /\ buckets'[key.code] = new
        /\ \A c \in DOMAIN buckets \ {key.code} : buckets'[c] = buckets[c]
    BY <1>2, <1>6, Stored
  <1>8. Pairs' = Pairs \cup ({key.code} \X DOMAIN new)
    <2>1. ASSUME NEW x \in Pairs'
          PROVE  x \in Pairs \cup ({key.code} \X DOMAIN new)
      <3>1. PICK c \in DOMAIN buckets' : x \in {c} \X DOMAIN buckets'[c]
        BY DEF Pairs
      <3> QED
        BY <1>7, <3>1 DEF Pairs
    <2>2. ASSUME NEW x \in Pairs
          PROVE  x \in Pairs'
      <3>1. PICK c \in DOMAIN buckets : x \in {c} \X DOMAIN buckets[c]
        BY DEF Pairs
      <3>2. x \in {c} \X DOMAIN buckets'[c] /\ c \in DOMAIN buckets'
        BY <1>4, <1>6, <1>7, <3>1
      <3> QED
        BY <3>2 DEF Pairs
    <2>3. ASSUME NEW x \in {key.code} \X DOMAIN new
          PROVE  x \in Pairs'
      BY <1>7, <2>3 DEF Pairs
    <2> QED
      BY <2>1, <2>2, <2>3
  <1>9. {key.code} \X DOMAIN arr \subseteq Pairs
    BY <1>3, <1>4 DEF Pairs
  <1>10. fresh \notin Pairs
    <2> SUFFICES ASSUME fresh \in Pairs PROVE FALSE
      OBVIOUS
    <2>1. PICK c \in DOMAIN buckets : fresh \in {c} \X DOMAIN buckets[c]
      BY DEF Pairs
    <2>2. c = key.code /\ Len(arr) + 1 \in DOMAIN buckets[c]
      BY <2>1
    <2> QED
      BY <1>4, <1>6, <2>2
  <1> HIDE DEF fresh
  <1>11. CASE Hits(arr, key) = {}
    <2>1. {key.code} \X DOMAIN new = ({key.code} \X DOMAIN arr) \cup {fresh}
      BY <1>6, <1>11 DEF fresh
    <2>2. Pairs' = Pairs \cup {fresh}
      BY <1>8, <1>9, <2>1
    <2>3. IsFiniteSet(Pairs) /\ count = Cardinality(Pairs)
      BY DEF Counted
    <2>4. /\ IsFiniteSet(Pairs \cup {fresh})
          /\ Cardinality(Pairs \cup {fresh}) = IF fresh \in Pairs THEN Cardinality(Pairs) ELSE Cardinality(Pairs) + 1
      BY ONLY <2>3, FS_AddElement
    <2> QED
      BY <1>5, <1>10, <1>11, <2>2, <2>3, <2>4
  <1>12. CASE Hits(arr, key) # {}
    <2>1. Pairs' = Pairs
      BY <1>6, <1>8, <1>9, <1>12
    <2> QED
      BY <1>5, <1>12, <2>1 DEF Counted
  <1> QED
    BY <1>11, <1>12

\* Setting a key.
LEMMA SetStep ==
  ASSUME IInv, NEW key \in Hashable, NEW val \in Value, HashSet(key, val)
  PROVE  IInv'
  <1>1. /\ UNCHANGED <<left, seen, status, removed>>
        /\ order \in Seq(Hashable) /\ left \in Seq(Hashable) /\ count \in Int /\ Types
    BY DEF HashSet, walk, IInv, Types
  <1>2. \/ order' = Append(order, key) /\ count' = count + 1 /\ HashGetDefault(key) = Absent
        \/ UNCHANGED <<order, count>>
    <2>1. Hits(Bucket(key), key) = {} => HashGetDefault(key) = Absent
      BY <1>1, BucketGood, GetTyped, LookUp
    <2> QED
      BY <2>1 DEF HashSet
  <1>3. /\ \A c \in DOMAIN buckets' : Good(buckets'[c], c)
        /\ \A k \in Hashable : HashGetDefault(k)' =
             IF ClassOf(k) = ClassOf(key) THEN val ELSE HashGetDefault(k)
    BY <1>1, SetFinds
  <1>4. \A k \in Hashable : (HashGetDefault(k) # Absent \/ k = key) => HashGetDefault(k)' # Absent
    BY <1>3, HashAssumption
  <1>5. Types'
    <2>1. order' \in Seq(Hashable)
      <3>1. Append(order, key) \in Seq(Hashable)
        BY <1>1, PushPop
      <3> QED
        BY <1>1, <1>2, <3>1
    <2>2. count' \in Int
      BY <1>1, <1>2
    <2> QED
      BY <1>1, <1>3, <2>1, <2>2 DEF Types
  <1>6. ASSUME ~removed' PROVE Walkable'
    <2>1. Walkable
      BY <1>1, <1>6 DEF IInv
    <2>2. OnceEach(left)' /\ Found(left)'
      <3>1. \A i \in DOMAIN left : left[i] \in Hashable
        BY <1>1, KeysTyped
      <3> QED
        BY <1>1, <1>4, <2>1, <3>1 DEF Walkable, OnceEach, Found
    <2>3. OnceEach(order)' /\ Found(order)'
      <3>1. \A i \in DOMAIN order : order[i] \in Hashable
        BY <1>1, KeysTyped
      <3>2. CASE UNCHANGED order
        BY <1>4, <2>1, <3>1, <3>2 DEF Walkable, OnceEach, Found
      <3>3. CASE order' = Append(order, key) /\ HashGetDefault(key) = Absent
        <4>1. /\ DOMAIN order' = 1 .. Len(order) + 1 /\ DOMAIN order = 1 .. Len(order) /\ Len(order) \in Nat
              /\ (\A i \in 1 .. Len(order) : order'[i] = order[i]) /\ order'[Len(order) + 1] = key
          BY <1>1, <3>3, PushPop, KeysTyped
        <4>2. \A i \in 1 .. Len(order) : ClassOf(order[i]) # ClassOf(key)
          <5> SUFFICES ASSUME NEW i \in 1 .. Len(order), ClassOf(order[i]) = ClassOf(key) PROVE FALSE
            OBVIOUS
          <5>1. order[i] \in Hashable /\ HashGetDefault(order[i]) # Absent
            BY <2>1, <3>1, <4>1 DEF Walkable, Found
          <5>2. HashGetDefault(order[i]) = HashGetDefault(key)
            BY <1>1, <5>1, LookUpOfClass
          <5> QED
            BY <3>3, <5>1, <5>2
        <4>3. Found(order)'
          BY <1>4, <2>1, <3>1, <4>1 DEF Walkable, Found
        <4>4. OnceEach(order)'
          <5> SUFFICES ASSUME NEW i \in 1 .. Len(order) + 1, NEW j \in 1 .. Len(order) + 1,
                              ClassOf(order'[i]) = ClassOf(order'[j])
                       PROVE  i = j
            BY <4>1 DEF OnceEach
          <5>1. \A m \in 1 .. Len(order) + 1 : m \in 1 .. Len(order) \/ m = Len(order) + 1
            BY <4>1
          <5>2. CASE i \in 1 .. Len(order) /\ j \in 1 .. Len(order)
            BY <2>1, <4>1, <5>2 DEF Walkable, OnceEach
          <5>3. CASE i = Len(order) + 1 /\ j \in 1 .. Len(order)
            BY <4>1, <4>2, <5>3
          <5>4. CASE i \in 1 .. Len(order) /\ j = Len(order) + 1
            BY <4>1, <4>2, <5>4
          <5> QED
            BY <5>1, <5>2, <5>3, <5>4
        <4> QED
          BY <4>3, <4>4
      <3> QED
        BY <1>2, <3>2, <3>3
    <2> QED
      BY <1>1, <2>1, <2>2, <2>3 DEF Walkable
  <1>7. ASSUME ~removed' PROVE Counted'
    <2>1. Counted
      BY <1>1, <1>7 DEF IInv
    <2> QED
      BY <1>1, <2>1, SetCounts DEF Counted
  <1> QED
    BY <1>5, <1>6, <1>7 DEF IInv

\* Deleting a key or all of them: nothing is promised of walks and the count.
LEMMA RemoveStep ==
  ASSUME IInv, Clear \/ \E key \in Hashable : HashDelete(key)
  PROVE  IInv'
  <1>1. /\ UNCHANGED <<order, left, seen, status>> /\ removed' = TRUE /\ count' \in Int
        /\ order \in Seq(Hashable) /\ left \in Seq(Hashable) /\ Types
    BY DEF Clear, HashDelete, walk, IInv, Types
  <1>2. removed' \in BOOLEAN /\ removed'
    BY <1>1, Zenon
  <1>3. \A c \in DOMAIN buckets' : Good(buckets'[c], c)
    <2>1. CASE Clear
      BY <2>1 DEF Clear
    <2>2. ASSUME NEW key \in Hashable, HashDelete(key)
          PROVE  \A c \in DOMAIN buckets' : Good(buckets'[c], c)
      BY <1>1, <2>2, DeleteFinds
    <2> QED
      BY <2>1, <2>2
  <1>4. Types'
    BY <1>1, <1>2, <1>3 DEF Types
  <1> QED
    BY <1>2, <1>4 DEF IInv

\* A step that leaves the hash alone keeps what a walk needs of it.
LEMMA HashKept ==
  ASSUME IInv, UNCHANGED <<hash, removed>>,
         left' \in Seq(Hashable), seen' \in Seq(PairOf),
         status' \in {"ready", "walking", "inconsistent", "panicked"},
         ~removed => /\ status' \notin {"inconsistent", "panicked"}
                     /\ OnceEach(left') /\ Found(left')
                     /\ \A i, j \in DOMAIN seen' : ClassOf(seen'[i].head) = ClassOf(seen'[j].head) => i = j
                     /\ \A i \in DOMAIN seen', j \in DOMAIN left' : ClassOf(seen'[i].head) # ClassOf(left'[j])
  PROVE  IInv'
  <1>1. UNCHANGED <<buckets, order, count, removed>>
    BY DEF hash
  <1>2. Types'
    BY <1>1 DEF IInv, Types
  <1>3. (\A key : HashGetDefault(key)' = HashGetDefault(key)) /\ Pairs' = Pairs
    BY <1>1, SameBucketsFind
  <1>4. ASSUME ~removed' PROVE Walkable' /\ Counted'
    <2>1. Walkable /\ Counted /\ ~removed
      BY <1>1, <1>4 DEF IInv
    <2>2. Found(order)' /\ Found(left)'
      BY <1>1, <1>3, <2>1 DEF Walkable, Found
    <2>3. OnceEach(order)' /\ OnceEach(left)'
      BY <1>1, <2>1 DEF Walkable, OnceEach
    <2>4. Walkable'
      BY <2>1, <2>2, <2>3 DEF Walkable
    <2>5. Counted'
      BY <1>1, <1>3, <2>1 DEF Counted
    <2> QED
      BY <2>4, <2>5
  <1> QED
    BY <1>2, <1>4 DEF IInv

\* Counting, the error of a key that cannot be hashed, and the end of a walk.
LEMMA IdleStep ==
  ASSUME IInv, CountKeys \/ WalkDone \/ \E key \in Key : Unhashable(key)
  PROVE  IInv'
  <1>1. /\ UNCHANGED <<hash, removed, seen>> /\ (left' = left \/ left' = <<>>)
        /\ left \in Seq(Hashable) /\ seen \in Seq(PairOf)
        /\ status \in {"ready", "walking", "inconsistent", "panicked"}
    BY DEF CountKeys, WalkDone, Unhashable, IInv, Types
  <1>2. status' \in {"ready", "walking", "inconsistent", "panicked"}
    BY <1>1 DEF CountKeys, WalkDone, Unhashable
  <1>3. <<>> \in Seq(Hashable) /\ DOMAIN <<>> = {}
    BY EmptySeq
  <1>4. ASSUME ~removed
        PROVE  /\ status' \notin {"inconsistent", "panicked"}
               /\ OnceEach(left') /\ Found(left')
               /\ \A i \in DOMAIN seen, j \in DOMAIN left' : ClassOf(seen[i].head) # ClassOf(left'[j])
    <2>1. Walkable /\ Counted
      BY <1>4 DEF IInv
    <2>2. status' \in {status, "ready"}
      BY <2>1 DEF CountKeys, WalkDone, Unhashable, Counted
    <2> QED
      BY <1>1, <1>3, <2>1, <2>2 DEF Walkable, Counted, OnceEach, Found
  <1> QED
    BY <1>1, <1>2, <1>3, <1>4, HashKept DEF IInv, Walkable

\* A walk begins with all keys of the order, forwards or backwards.
LEMMA BeginStep ==
  ASSUME IInv, MapHash \/ FoldrHash
  PROVE  IInv'
  <1>1. PICK keys : Begin(keys) /\ keys \in {order, Reverse(order)}
    BY DEF MapHash, FoldrHash
  <1>2. UNCHANGED <<hash, removed>> /\ left' = keys /\ seen' = <<>> /\ status' = "walking"
    BY <1>1 DEF Begin
  <1>3. order \in Seq(Hashable) /\ DOMAIN order = 1 .. Len(order) /\ Len(order) \in Nat
    BY KeysTyped DEF IInv, Types
  <1>4. /\ keys \in Seq(Hashable)
        /\ OnceEach(order) => OnceEach(keys)
        /\ Found(order) => Found(keys)
    <2>1. CASE keys = order
      BY <1>3, <2>1
    <2>2. CASE keys = Reverse(order)
      <3>1. PICK n \in Nat : n = Len(order)
        BY <1>3
      <3>2. /\ keys = [i \in 1 .. n |-> order[(n - i) + 1]]
            /\ DOMAIN keys = 1 .. n /\ \A i \in 1 .. n : keys[i] = order[(n - i) + 1]
        BY <2>2, <3>1 DEF Reverse
      <3>3. \A i \in 1 .. n : (n - i) + 1 \in 1 .. n
        OBVIOUS
      <3>4. keys \in Seq(Hashable)
        <4>1. \A i \in 1 .. n : order[i] \in Hashable
          BY <1>3, <3>1, KeysTyped
        <4>2. keys \in [1 .. n -> Hashable]
          BY <3>2, <3>3, <4>1
        <4> QED
          BY <4>2
      <3>5. OnceEach(order) => OnceEach(keys)
        <4> SUFFICES ASSUME OnceEach(order), NEW i \in 1 .. n, NEW j \in 1 .. n,
                            ClassOf(keys[i]) = ClassOf(keys[j])
                     PROVE  i = j
          BY <3>2 DEF OnceEach
        <4>1. (n - i) + 1 = (n - j) + 1
          BY <1>3, <3>1, <3>2, <3>3 DEF OnceEach
        <4> QED
          BY <4>1
      <3>6. Found(order) => Found(keys)
        BY <1>3, <3>1, <3>2, <3>3 DEF Found
      <3> QED
        BY <3>4, <3>5, <3>6
    <2> QED
      BY <1>1, <2>1, <2>2
  <1>5. <<>> \in Seq(PairOf) /\ DOMAIN <<>> = {}
    BY EmptySeq
  <1> QED
    BY <1>2, <1>4, <1>5, HashKept DEF IInv, Walkable

\* A walk visits a key, which is found unless something was deleted.
LEMMA VisitStep ==
  ASSUME IInv, Visit
  PROVE  IInv'
  <1> DEFINE key == Head(left)
             val == HashGetDefault(key)
  <1>1. /\ left \in Seq(Hashable) /\ left # <<>> /\ seen \in Seq(PairOf) /\ UNCHANGED <<hash, removed>>
        /\ status = "walking"
        /\ IF val = Absent THEN left' = <<>> /\ status' = "inconsistent" /\ UNCHANGED seen
           ELSE left' = Tail(left) /\ seen' = Append(seen, Pair(key, val)) /\ UNCHANGED status
    BY DEF Visit, IInv, Types
  <1>2. /\ DOMAIN left = 1 .. Len(left) /\ Len(left) \in Nat \ {0} /\ key = left[1] /\ key \in Hashable
        /\ Tail(left) \in Seq(Hashable) /\ DOMAIN Tail(left) = 1 .. Len(left) - 1
        /\ \A i \in 1 .. Len(left) - 1 : Tail(left)[i] = left[i + 1]
    BY <1>1, HeadTailProperties, EmptySeq, LenProperties
  <1> HIDE DEF key, val
  <1>3. CASE val = Absent
    <2>1. removed
      <3>1. 1 \in DOMAIN left
        BY <1>2
      <3> QED
        BY <1>2, <1>3, <3>1 DEF IInv, Walkable, Found, val
    <2>2. <<>> \in Seq(Hashable)
      BY EmptySeq
    <2> QED
      BY <1>1, <1>3, <2>1, <2>2, HashKept
  <1>4. CASE val # Absent
    <2>1. val \in Value
      <3>1. Types
        BY DEF IInv
      <3>2. Good(Bucket(key), key.code) /\ val = Get(Bucket(key), key)
        BY <1>2, <3>1, BucketGood, LookUp DEF val
      <3> QED
        BY <1>2, <1>4, <3>2, GetTyped
    <2>2. Pair(key, val) \in PairOf /\ Pair(key, val).head = key
      BY <1>2, <2>1, PairTyped
    <2>3. /\ seen' \in Seq(PairOf) /\ DOMAIN seen' = 1 .. Len(seen) + 1 /\ Len(seen) \in Nat
          /\ DOMAIN seen = 1 .. Len(seen)
          /\ (\A i \in 1 .. Len(seen) : seen'[i] = seen[i]) /\ seen'[Len(seen) + 1].head = key
      <3>1. /\ Append(seen, Pair(key, val)) \in Seq(PairOf)
            /\ DOMAIN Append(seen, Pair(key, val)) = 1 .. Len(seen) + 1
            /\ \A i \in 1 .. Len(seen) : Append(seen, Pair(key, val))[i] = seen[i]
            /\ Append(seen, Pair(key, val))[Len(seen) + 1] = Pair(key, val)
        BY ONLY <1>1, <2>2, PushPop
      <3>2. Len(seen) \in Nat /\ DOMAIN seen = 1 .. Len(seen)
        BY <1>1, LenProperties
      <3> QED
        BY <1>1, <1>4, <2>2, <3>1, <3>2
    <2>4. left' = Tail(left) /\ status' = "walking"
      BY <1>1, <1>4
    <2>5. ASSUME ~removed
          PROVE  /\ OnceEach(left') /\ Found(left')
                 /\ \A i, j \in DOMAIN seen' : ClassOf(seen'[i].head) = ClassOf(seen'[j].head) => i = j
                 /\ \A i \in DOMAIN seen', j \in DOMAIN left' : ClassOf(seen'[i].head) # ClassOf(left'[j])
      <3>1. Walkable
        BY <2>5 DEF IInv
      <3>2. \A j \in DOMAIN left' : j \in Nat /\ j + 1 \in DOMAIN left /\ j + 1 # 1 /\ left'[j] = left[j + 1]
        BY <1>2, <2>4
      <3>3. OnceEach(left') /\ Found(left')
        BY <3>1, <3>2 DEF Walkable, OnceEach, Found
      <3>4. 1 \in DOMAIN left /\ \A j \in DOMAIN left' : ClassOf(left'[j]) # ClassOf(key)
        BY <1>2, <3>1, <3>2 DEF Walkable, OnceEach
      <3>5. \A i \in DOMAIN seen' : i \in DOMAIN seen \/ i = Len(seen) + 1
        BY <2>3
      <3>6. \A i \in DOMAIN seen : seen'[i] = seen[i] /\ ClassOf(seen[i].head) # ClassOf(key)
        BY <1>2, <2>3, <3>1, <3>4 DEF Walkable
      <3>7. ASSUME NEW i \in DOMAIN seen', NEW j \in DOMAIN seen',
                   ClassOf(seen'[i].head) = ClassOf(seen'[j].head)
            PROVE  i = j
        <4>1. CASE i \in DOMAIN seen /\ j \in DOMAIN seen
          BY <3>1, <3>6, <3>7, <4>1 DEF Walkable
        <4>2. CASE i \in DOMAIN seen /\ j = Len(seen) + 1
          BY <2>3, <3>6, <3>7, <4>2
        <4>3. CASE i = Len(seen) + 1 /\ j \in DOMAIN seen
          BY <2>3, <3>6, <3>7, <4>3
        <4> QED
          BY <3>5, <4>1, <4>2, <4>3
      <3>8. ASSUME NEW i \in DOMAIN seen', NEW j \in DOMAIN left'
            PROVE  ClassOf(seen'[i].head) # ClassOf(left'[j])
        <4>1. CASE i \in DOMAIN seen
          BY <3>1, <3>2, <3>6, <4>1 DEF Walkable
        <4>2. CASE i = Len(seen) + 1
          BY <2>3, <3>4, <4>2
        <4> QED
          BY <3>5, <4>1, <4>2
      <3> QED
        BY <3>3, <3>7, <3>8
    <2> QED
      BY <1>1, <1>2, <2>3, <2>4, <2>5, HashKept
  <1> QED
    BY <1>3, <1>4

\* Every step keeps the inductive invariant.
LEMMA NextIInv == IInv /\ [Next]_vars => IInv'
  <1> SUFFICES ASSUME IInv, [Next]_vars PROVE IInv'
    OBVIOUS
  <1>1. ASSUME NEW key \in Key, NEW val \in Value, HashSet(key, val) PROVE IInv'
    <2>1. key \in Hashable
      BY <1>1 DEF HashSet
    <2> QED
      BY <1>1, <2>1, SetStep
  <1>2. ASSUME NEW key \in Key, HashDelete(key) PROVE IInv'
    <2>1. key \in Hashable
      BY <1>2 DEF HashDelete
    <2> QED
      BY <1>2, <2>1, RemoveStep
  <1>3. CASE Clear
    BY <1>3, RemoveStep
  <1>4. CASE CountKeys \/ WalkDone \/ \E key \in Key : Unhashable(key)
    BY <1>4, IdleStep
  <1>5. CASE MapHash \/ FoldrHash
    BY <1>5, BeginStep
  <1>6. CASE Visit
    BY <1>6, VisitStep
  <1>7. CASE UNCHANGED vars
    <2>1. UNCHANGED <<hash, removed, left, seen, status>>
      BY <1>7 DEF vars, walk
    <2> QED
      BY <2>1, HashKept DEF IInv, Types, Walkable, Counted
  <1> QED
    BY <1>1, <1>2, <1>3, <1>4, <1>5, <1>6, <1>7 DEF Next

\* The inductive invariant always holds.
LEMMA Invariant == Spec => []IInv
  BY InitIInv, NextIInv, PTL DEF Spec

-----------------------------------------------------------------------------
(* The theorems *)

\* Every pair is under the number of its key, and only keys that can be hashed
\* get into the hash, its order or a walk (HashSet, HashExpression).
THEOREM TypeCorrect == Spec => []TypeOK
<1>1. IInv => TypeOK
  <2> SUFFICES ASSUME IInv PROVE TypeOK
    OBVIOUS
  <2>1. ASSUME NEW c \in DOMAIN buckets, NEW i \in DOMAIN buckets[c]
        PROVE  buckets[c][i].head \in Hashable /\ buckets[c][i].head.code = c /\ buckets[c][i].tail \in Value
    <3>1. Good(buckets[c], c)
      BY DEF IInv, Types
    <3> QED
      BY <3>1, GoodMembers DEF Good
  <2> QED
    BY <2>1 DEF TypeOK, IInv, Types
<1> QED
  BY <1>1, Invariant, PTL

\* Keys that are one never have two pairs, whatever numbers keys share: the
\* first pair that HashDelete or HashGetDefault finds is the only one (HashSet,
\* HashDelete).
THEOREM OnePair == Spec => []OnePairPerKey
<1>1. IInv => OnePairPerKey
  <2> SUFFICES ASSUME IInv, NEW c \in DOMAIN buckets, NEW i \in DOMAIN buckets[c]
               PROVE  Hits(buckets[c], buckets[c][i].head) = {i}
    BY DEF OnePairPerKey
  <2>1. Good(buckets[c], c)
    BY DEF IInv, Types
  <2>2. buckets[c][i].head \in Hashable
    BY <2>1, GoodMembers
  <2> QED
    BY <2>1, <2>2, GetFinds
<1> QED
  BY <1>1, Invariant, PTL

\* Until something is deleted a walk finds every key and visits none twice,
\* whatever the function it applies adds or replaces (MapHash, FoldlHash,
\* FoldrHash).
THEOREM WalksFindKeys == Spec => []WalkFindsKeys
<1>1. IInv => WalkFindsKeys
  BY DEF IInv, Walkable, WalkFindsKeys
<1> QED
  BY <1>1, Invariant, PTL

\* Until something is deleted len does not panic: the count is that of the
\* pairs (HashSet, HashCountKeys).
THEOREM CountHolds == Spec => []CountHoldsUntilDelete
<1>1. IInv => CountHoldsUntilDelete
  BY DEF IInv, Counted, CountHoldsUntilDelete
<1> QED
  BY <1>1, Invariant, PTL

-----------------------------------------------------------------------------
(* The refinement *)

KeyOf(c) == CHOOSE key \in Hashable : ClassOf(key) = c

\* Each class has a key that speaks for it.
LEMMA Speaker ==
  ASSUME NEW c \in Classes
  PROVE  KeyOf(c) \in Hashable /\ ClassOf(KeyOf(c)) = c
  BY DEF Classes, KeyOf

\* What the table says of a class is what is found under its key.
LEMMA Contents ==
  /\ Content = [c \in Classes |-> HashGetDefault(KeyOf(c))]
  /\ Content' = [c \in Classes |-> HashGetDefault(KeyOf(c))']
  BY DEF Content, KeyOf

\* Every step of the hash is one of the table, or none.
LEMMA TableStep == IInv /\ [Next]_vars => [Table!Next]_Content
  <1> SUFFICES ASSUME IInv, [Next]_vars PROVE Table!Next \/ UNCHANGED Content
    OBVIOUS
  <1>0. Types
    BY DEF IInv
  <1>1. ASSUME NEW key \in Key, NEW val \in Value, HashSet(key, val)
        PROVE  \E c \in Classes : Table!Set(c, val)
    <2>1. key \in Hashable
      BY <1>1 DEF HashSet
    <2>2. ClassOf(key) \in Classes
      BY <2>1 DEF Classes
    <2>3. \A k \in Hashable : HashGetDefault(k)' =
            IF ClassOf(k) = ClassOf(key) THEN val ELSE HashGetDefault(k)
      BY <1>0, <1>1, <2>1, SetFinds
    <2>4. \A c \in Classes : HashGetDefault(KeyOf(c))' =
            IF c = ClassOf(key) THEN val ELSE HashGetDefault(KeyOf(c))
      BY <2>3, Speaker
    <2>5. Content' = [Content EXCEPT ![ClassOf(key)] = val]
      BY <2>2, <2>4, Contents
    <2> QED
      BY <2>2, <2>5 DEF Table!Set
  <1>2. ASSUME NEW key \in Key, HashDelete(key)
        PROVE  \E c \in Classes : Table!Delete(c)
    <2>1. key \in Hashable
      BY <1>2 DEF HashDelete
    <2>2. ClassOf(key) \in Classes
      BY <2>1 DEF Classes
    <2>3. \A k \in Hashable : HashGetDefault(k)' =
            IF ClassOf(k) = ClassOf(key) THEN Absent ELSE HashGetDefault(k)
      BY <1>0, <1>2, <2>1, DeleteFinds
    <2>4. \A c \in Classes : HashGetDefault(KeyOf(c))' =
            IF c = ClassOf(key) THEN Absent ELSE HashGetDefault(KeyOf(c))
      BY <2>3, Speaker
    <2>5. Content' = [Content EXCEPT ![ClassOf(key)] = Absent]
      BY <2>2, <2>4, Contents
    <2> QED
      BY <2>2, <2>5 DEF Table!Delete
  <1>3. ASSUME Clear
        PROVE  Table!Clear
    <2>1. \A k : HashGetDefault(k)' = Absent
      BY <1>3 DEF Clear, HashGetDefault
    <2> QED
      BY <2>1, Contents DEF Table!Clear
  <1>4. CASE UNCHANGED buckets
    BY <1>4, SameBucketsFind, Contents
  <1>5. CountKeys \/ WalkDone \/ MapHash \/ FoldrHash \/ Visit \/ UNCHANGED vars
          \/ (\E key \in Key : Unhashable(key)) => UNCHANGED buckets
    BY DEF CountKeys, WalkDone, MapHash, FoldrHash, Begin, Visit, Unhashable, vars, hash
  <1> QED
    BY <1>1, <1>2, <1>3, <1>4, <1>5 DEF Next, Table!Next

\* A hash answers as a table from keys to values does, keys that compare as
\* equal being one, however often keys that share a number come and go:
\* GlispHash implements HashTable (HashGetDefault, HashSet, HashDelete, Clear).
THEOREM HashIsTable == Spec => TableSpec
<1>1. Init => Table!Init
  <2> SUFFICES ASSUME Init PROVE Table!Init
    OBVIOUS
  <2>1. \A k : HashGetDefault(k) = Absent
    BY DEF Init, HashGetDefault
  <2> QED
    BY <2>1, Contents DEF Table!Init
<1> QED
  BY <1>1, Invariant, TableStep, PTL DEF Spec, TableSpec, Table!Spec
=============================================================================
