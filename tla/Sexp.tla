-------------------------------- MODULE Sexp --------------------------------
(***************************************************************************)
(* The S-expressions of the interpreter: code and data are the same type.  *)
(* A record's field k is the Go type of the value.  A proper list is one   *)
(* value holding its elements; the empty list is SexpNull.  Improper       *)
(* pairs, floats, characters, hashes and events are left to the modules    *)
(* that are about them.                                                    *)
(***************************************************************************)
EXTENDS Integers, Sequences

IntV(n)   == [k |-> "int",  i  |-> n]
BoolV(b)  == [k |-> "bool", b  |-> b]
SymV(s)   == [k |-> "sym",  s  |-> s]
StrV(s)   == [k |-> "str",  t  |-> s]
ListV(xs) == [k |-> "list", xs |-> xs]
ArrV(xs)  == [k |-> "arr",  xs |-> xs]

Null   == ListV(<<>>)
Marker == [k |-> "mark"]

\* SexpPair: a list with at least one element.
IsPair(v) == v.k = "list" /\ v # Null

\* expressions.go: false, zero, and the empty list are false; all else is true.
IsTruthy(v) ==
  CASE v.k = "bool" -> v.b
    [] v.k = "int"  -> v.i # 0
    [] OTHER        -> v # Null

(***************************************************************************)
(* Functions.  A literal is what the generator emits or a builtin is; a    *)
(* function value adds the scopes it closed over, as scope ids, outermost  *)
(* first.  A builtin's Go body is found by its name.                       *)
(***************************************************************************)
MakeFunction(name, nargs, varargs, code) ==
  [name |-> name, user |-> FALSE, nargs |-> nargs, varargs |-> varargs, code |-> code]

MakeUserFunction(name) ==
  [name |-> name, user |-> TRUE, nargs |-> 0, varargs |-> FALSE, code |-> <<>>]

FnV(lit, close) == [k |-> "fn", f |-> lit, close |-> close]
=============================================================================
