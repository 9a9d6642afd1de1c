----------------------------- MODULE GlispHash ------------------------------
(***************************************************************************)
(* A hash object of hashutils.go: buckets of pairs under the number that   *)
(* HashExpression makes of a key, the order in which keys were added, and  *)
(* a count of keys, all three behind pointers and so shared by all copies  *)
(* of the hash.  hget, hset!, hdel!, hclear! and len are operations; map,  *)
(* foldl and foldr walk the order and may run any operation on the same    *)
(* hash from the function they apply, which is why a walk takes one step   *)
(* for each key.                                                           *)
(*                                                                         *)
(* A key is [k |-> its type, code |-> the number HashExpression makes of   *)
(* it, t |-> its text]; for a type that cannot be hashed the number is 0.  *)
(* The aim of the definitions named Mut_ is to be wrong: each is a faulty  *)
(* form of the one below it, with which a property of the runs must fail.  *)
(***************************************************************************)
EXTENDS Integers, FiniteSets, SequencesExt

CONSTANTS
  Key,
  Value,
  MaxOps   \* bound: operations in one behaviour

Numbers  == {"int", "char"}
Hashable == {key \in Key : key.k \in Numbers \cup {"sym", "str"}}
Absent   == [absent |-> TRUE]

\* Equal texts have equal numbers, and no program can make SexpEnd.
ASSUME HashAssumption ==
  /\ \A key \in Key : key.code \in Int
  /\ \A a, b \in Key : a.k = "str" /\ b.k = "str" /\ a.t = b.t => a.code = b.code
  /\ Absent \notin Value
  /\ MaxOps \in Nat

VARIABLES
  buckets,  \* Map
  order,    \* KeyOrder
  count,    \* NumKeys
  left,     \* keys that the walk has still to visit
  seen,     \* pairs that it applied its function to
  status,   \* ready, walking, inconsistent (the walk's own error), panicked
  removed,  \* history: hdel! or hclear! has been called
  ops

hash == <<buckets, order, count>>
walk == <<left, seen, status>>
vars == <<hash, walk, removed, ops>>

\* Compare says 0: an integer and a character of the same number are equal.
Same(a, b) ==
  \/ a.k \in Numbers /\ b.k \in Numbers /\ a.code = b.code
  \/ a.k = "sym" /\ b.k = "sym" /\ a.code = b.code
  \/ a.k = "str" /\ b.k = "str" /\ a.t = b.t

Hits(arr, key) == {i \in DOMAIN arr : Same(arr[i].head, key)}

Mut_LooksAtFirstPair(key) ==
  IF key.code \notin DOMAIN buckets THEN Absent
  ELSE IF 1 \in Hits(buckets[key.code], key) THEN buckets[key.code][1].tail ELSE Absent
HashGetDefault(key) ==
  IF key.code \notin DOMAIN buckets THEN Absent
  ELSE LET hits == Hits(buckets[key.code], key)
       IN IF hits = {} THEN Absent ELSE buckets[key.code][Min(hits)].tail

Init ==
  /\ buckets = <<>> /\ order = <<>> /\ count = 0
  /\ left = <<>> /\ seen = <<>> /\ status = "ready"
  /\ removed = FALSE /\ ops = 0

\* Between two operations of the host, or in the function that a walk applies.
Operation == status # "panicked" /\ ops < MaxOps /\ ops' = ops + 1

Pair(key, val) == [head |-> key, tail |-> val]
Bucket(key)    == IF key.code \in DOMAIN buckets THEN buckets[key.code] ELSE <<>>
Store(key, arr) ==
  buckets' = [c \in DOMAIN buckets \cup {key.code} |-> IF c = key.code THEN arr ELSE buckets[c]]

\* The pair of an equal key is replaced, its key too; the order keeps the key
\* that came first.
Mut_SetWithoutLooking(key, val) ==
  /\ Operation /\ key \in Hashable
  /\ Store(key, Append(Bucket(key), Pair(key, val)))
  /\ order' = Append(order, key) /\ count' = count + 1
  /\ UNCHANGED <<walk, removed>>
Mut_SetKeepsOrderOfUse(key, val) ==
  LET hits == Hits(Bucket(key), key)
  IN /\ Operation /\ key \in Hashable
     /\ Store(key, IF hits = {} THEN Append(Bucket(key), Pair(key, val))
                   ELSE [i \in DOMAIN Bucket(key) |-> IF i \in hits THEN Pair(key, val) ELSE Bucket(key)[i]])
     /\ order' = Append(order, key)
     /\ count' = IF hits = {} THEN count + 1 ELSE count
     /\ UNCHANGED <<walk, removed>>
Mut_SetAddsUnhashable(key, val) ==
  /\ Operation /\ key.code \notin DOMAIN buckets
  /\ Store(key, <<Pair(key, val)>>)
  /\ order' = Append(order, key) /\ count' = count + 1
  /\ UNCHANGED <<walk, removed>>
Mut_SetCountsAlways(key, val) ==
  LET hits == Hits(Bucket(key), key)
  IN /\ Operation /\ key \in Hashable
     /\ Store(key, IF hits = {} THEN Append(Bucket(key), Pair(key, val))
                   ELSE [i \in DOMAIN Bucket(key) |-> IF i \in hits THEN Pair(key, val) ELSE Bucket(key)[i]])
     /\ order' = IF hits = {} THEN Append(order, key) ELSE order
     /\ count' = count + 1
     /\ UNCHANGED <<walk, removed>>
HashSet(key, val) ==
  LET hits == Hits(Bucket(key), key)
  IN /\ Operation /\ key \in Hashable
     /\ IF hits = {}
        THEN /\ Store(key, Append(Bucket(key), Pair(key, val)))
             /\ order' = Append(order, key) /\ count' = count + 1
        ELSE /\ Store(key, [i \in DOMAIN Bucket(key) |->
                              IF i \in hits THEN Pair(key, val) ELSE Bucket(key)[i]])
             /\ UNCHANGED <<order, count>>
     /\ UNCHANGED <<walk, removed>>

\* A key counts as deleted when its number has, or once had, a bucket; the
\* order keeps it.
Mut_DeleteTheBucket(key) ==
  /\ Operation /\ key \in Hashable /\ removed' = TRUE
  /\ Store(key, <<>>) /\ count' = count - 1
  /\ UNCHANGED <<order, walk>>
HashDelete(key) ==
  LET arr  == Bucket(key)
      hits == Hits(arr, key)
  IN /\ Operation /\ key \in Hashable /\ removed' = TRUE
     /\ IF key.code \in DOMAIN buckets
        THEN /\ count' = count - 1
             /\ IF hits = {} THEN UNCHANGED buckets ELSE Store(key, RemoveAt(arr, Min(hits)))
        ELSE UNCHANGED <<buckets, count>>
     /\ UNCHANGED <<order, walk>>

\* The order keeps all keys.
Clear ==
  /\ Operation /\ removed' = TRUE
  /\ buckets' = <<>> /\ count' = 0
  /\ UNCHANGED <<order, walk>>

\* A key that cannot be hashed is an error, which ends a walk with it.
Unhashable(key) ==
  /\ Operation /\ key \notin Hashable
  /\ left' = <<>> /\ status' = "ready"
  /\ UNCHANGED <<hash, seen, removed>>

\* len: HashCountKeys counts the pairs of all buckets and panics if the count
\* differs.
Pairs == UNION {{c} \X DOMAIN buckets[c] : c \in DOMAIN buckets}
CountKeys ==
  /\ Operation
  /\ status' = IF Cardinality(Pairs) = count THEN status ELSE "panicked"
  /\ UNCHANGED <<hash, left, seen, removed>>

\* map and foldl walk the order of the moment they start, foldr backwards.
Begin(keys) ==
  /\ status \in {"ready", "inconsistent"} /\ order # <<>>
  /\ left' = keys /\ seen' = <<>> /\ status' = "walking"
  /\ UNCHANGED <<hash, removed, ops>>
MapHash   == Begin(order)
FoldrHash == Begin(Reverse(order))

\* The value is looked up key by key; one that is gone ends the walk.
Visit ==
  LET val == HashGetDefault(Head(left))
  IN /\ status = "walking" /\ left # <<>>
     /\ IF val = Absent THEN left' = <<>> /\ status' = "inconsistent" /\ UNCHANGED seen
        ELSE left' = Tail(left) /\ seen' = Append(seen, Pair(Head(left), val)) /\ UNCHANGED status
     /\ UNCHANGED <<hash, removed, ops>>

WalkDone ==
  /\ status = "walking" /\ left = <<>>
  /\ status' = "ready"
  /\ UNCHANGED <<hash, left, seen, removed, ops>>

Next ==
  \/ \E key \in Key : HashDelete(key) \/ Unhashable(key) \/ \E val \in Value : HashSet(key, val)
  \/ Clear \/ CountKeys \/ MapHash \/ FoldrHash \/ Visit \/ WalkDone

Spec == Init /\ [][Next]_vars

-----------------------------------------------------------------------------
(* Properties *)

ClassOf(key) == IF key.k \in Numbers THEN <<"number", key.code>>
              ELSE IF key.k = "sym" THEN <<"sym", key.code>> ELSE <<"str", key.t>>
Classes == {ClassOf(key) : key \in Hashable}

TypeOK ==
  /\ \A c \in DOMAIN buckets : \A i \in DOMAIN buckets[c] :
       buckets[c][i].head \in Hashable /\ buckets[c][i].head.code = c /\ buckets[c][i].tail \in Value
  /\ order \in Seq(Hashable) /\ left \in Seq(Hashable) /\ count \in Int
  /\ status \in {"ready", "walking", "inconsistent", "panicked"}

\* Refinement: whatever operations come before, and however often keys that
\* share a number come and go, hget answers as a table does (HashGetDefault,
\* HashSet, HashDelete, Clear).
Content == [c \in Classes |-> HashGetDefault(CHOOSE key \in Hashable : ClassOf(key) = c)]
Table == INSTANCE HashTable WITH Class <- Classes, content <- Content
TableSpec == Table!Spec

\* Equal keys have one pair, the reason why deleting the first of them is
\* enough (HashSet, HashDelete).
OnePairPerKey == \A c \in DOMAIN buckets : \A i \in DOMAIN buckets[c] : Hits(buckets[c], buckets[c][i].head) = {i}

\* As long as nothing was deleted, a walk finds every key and visits it once,
\* whatever its function sets meanwhile (MapHash, FoldlHash, FoldrHash).
WalkFindsKeys ==
  ~removed =>
    /\ status # "inconsistent"
    /\ \A i, j \in DOMAIN seen : ClassOf(seen[i].head) = ClassOf(seen[j].head) => i = j

\* ... and the count is that of the pairs: len does not panic.
CountHoldsUntilDelete == ~removed => status # "panicked"

\* The message of MapHash, FoldlHash and FoldrHash is about a hash that is
\* damaged, which none should be.
NeverInconsistent == status # "inconsistent"

\* HashCountKeys: the count it keeps is that of the pairs.
CountsAgree == status # "panicked"
=============================================================================
