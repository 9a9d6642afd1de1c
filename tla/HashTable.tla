----------------------------- MODULE HashTable ------------------------------
(***************************************************************************)
(* What a hash promises the programs that use it: a table from keys to     *)
(* values, two keys that compare as equal being one.                       *)
(***************************************************************************)

CONSTANTS Class,  \* keys, equal ones taken together
          Value,
          Absent  \* what is found where there is no value

VARIABLE content

Init == content = [c \in Class |-> Absent]

Set(c, v) == content' = [content EXCEPT ![c] = v]
Delete(c) == content' = [content EXCEPT ![c] = Absent]
Clear     == content' = [c \in Class |-> Absent]

Next == Clear \/ \E c \in Class : Delete(c) \/ \E v \in Value : Set(c, v)

Spec == Init /\ [][Next]_content
=============================================================================
