------------------------------ MODULE Builtins ------------------------------
(***************************************************************************)
(* The builtins that run no Lisp and change no state (functions.go,        *)
(* comparisons.go, numerictower.go), on the values of Sexp.  fun is the    *)
(* builtin, name the name it was called by: one Go function serves a group *)
(* of builtins and chooses by the name of the call.                        *)
(***************************************************************************)
EXTENDS Sexp, SequencesExt

Good(v) == [ok |-> TRUE, val |-> v]
Bad     == [ok |-> FALSE, val |-> Null]

Signum(n) == IF n < 0 THEN -1 ELSE IF n > 0 THEN 1 ELSE 0
Truth(b)  == IF b THEN 1 ELSE 0

\* Compare: -1, 0 or 1, or an error.  The empty list on the left is equal to
\* itself and less than everything else; on the right it is an error.  Which
\* of two symbols or strings is the less is left out: different is greater.
Answer(n)    == [err |-> FALSE, n |-> n]
Incomparable == [err |-> TRUE, n |-> 0]

RECURSIVE Compare(_, _)
Compare(a, b) ==
  LET n    == IF Len(a.xs) < Len(b.xs) THEN Len(a.xs) ELSE Len(b.xs)
      each == FoldLeft(LAMBDA acc, i : IF acc # Answer(0) THEN acc ELSE Compare(a.xs[i], b.xs[i]),
                       Answer(0), [i \in 1 .. n |-> i])
  IN CASE a = Null /\ b = Null -> Answer(0)
       [] a = Null /\ b # Null -> Answer(-1)
       [] a # Null /\ a.k # b.k -> Incomparable
       [] OTHER ->
            CASE a.k = "int"  -> Answer(Signum(a.i - b.i))
              [] a.k = "bool" -> Answer(Truth(a.b) - Truth(b.b))
              [] a.k = "arr"  -> IF each # Answer(0) THEN each ELSE Answer(Signum(Len(a.xs) - Len(b.xs)))
              [] a.k = "list" -> IF b = Null THEN Incomparable
                                 ELSE IF each # Answer(0) \/ Len(a.xs) = Len(b.xs) THEN each
                                 ELSE IF Len(a.xs) < Len(b.xs) THEN Answer(-1) ELSE Incomparable
              [] a.k \in {"sym", "str"} -> Answer(IF a = b THEN 0 ELSE 1)
              [] OTHER        -> Incomparable

CompareFunction(name, args) ==
  LET r == Compare(args[1], args[2])
      holds == CASE name = "<"    -> r.n < 0
                 [] name = ">"    -> r.n > 0
                 [] name = "<="   -> r.n <= 0
                 [] name = ">="   -> r.n >= 0
                 [] name = "="    -> r.n = 0
                 [] name = "not=" -> r.n # 0
                 [] OTHER         -> FALSE
  IN IF Len(args) # 2 THEN Bad ELSE IF r.err THEN Bad ELSE Good(BoolV(holds))

\* One operand comes back as it is, whatever it is.
NumericFunction(name, args) ==
  LET apply(acc, v) ==
        IF acc = Bad \/ acc.val.k # "int" \/ v.k # "int" THEN Bad
        ELSE Good(IntV(CASE name = "-" -> acc.val.i - v.i
                         [] name = "*" -> acc.val.i * v.i
                         [] OTHER      -> acc.val.i + v.i))
  IN IF args = <<>> THEN Bad ELSE FoldLeft(apply, Good(args[1]), SubSeq(args, 2, Len(args)))

FirstFunction(args) ==
  IF Len(args) # 1 THEN Bad
  ELSE IF IsPair(args[1]) THEN Good(args[1].xs[1])
  ELSE IF args[1].k # "arr" THEN Bad
  ELSE Good(IF args[1].xs = <<>> THEN Null ELSE args[1].xs[1])

RestFunction(args) ==
  IF Len(args) # 1 \/ args[1].k \notin {"list", "arr"} THEN Bad
  ELSE IF args[1].xs = <<>> THEN Good(Null)
  ELSE Good([args[1] EXCEPT !.xs = Tail(@)])

ConstructorFunction(name, args) ==
  CASE name = "array" -> Good(ArrV(args))
    [] name = "list"  -> Good(ListV(args))
    [] OTHER          -> Bad

BuiltinPrim(fun, name, args) ==
  CASE fun \in {"<", ">", "<=", ">=", "=", "not="} -> CompareFunction(name, args)
    [] fun \in {"+", "-", "*"}    -> NumericFunction(name, args)
    [] fun = "first"              -> FirstFunction(args)
    [] fun = "rest"               -> RestFunction(args)
    [] fun \in {"list", "array"}  -> ConstructorFunction(name, args)
    [] fun = "not" -> IF Len(args) # 1 THEN Bad ELSE Good(BoolV(~IsTruthy(args[1])))

PrimNames == {"<", ">", "<=", ">=", "=", "not=", "+", "-", "*", "first", "rest", "list", "array", "not"}
=============================================================================
