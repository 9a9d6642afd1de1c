----------------------------- MODULE Generator ------------------------------
(***************************************************************************)
(* The compiler of generator.go: a list of expressions becomes one flat    *)
(* instruction sequence.  A generator is a record with the fields of the   *)
(* Go struct and the error its last call returned; every operator takes a  *)
(* generator and returns it changed, so the order in which the Go methods  *)
(* set, keep and forget gen.tail and gen.scopes is the order here.  A Go   *)
(* early return is the rule that a generator with an error emits no more.  *)
(* A definition named Mut_ is a faulty form of the one below it, with      *)
(* which a property of the runs must fail.                                 *)
(* The names GenSymbol makes for lambdas are one name no program can call. *)
(* defmac, macexpand, import, include, macro calls and hashes in templates *)
(* are left out: no text here holds one.                                   *)
(***************************************************************************)
EXTENDS Sexp, SequencesExt

Anonymous == "__anon"

NewGenerator == [funcname |-> "", tail |-> FALSE, scopes |-> 0, code |-> <<>>, err |-> FALSE]

Emit(g, instrs) == IF g.err THEN g ELSE [g EXCEPT !.code = @ \o instrs]
Reject(g)       == [g EXCEPT !.err = TRUE]
SetTail(g, t)   == IF g.err THEN g ELSE [g EXCEPT !.tail = t]

PopI            == [op |-> "pop"]
DupI            == [op |-> "dup"]
PushI(v)        == [op |-> "push", v |-> v]
ClosureI(lit)   == [op |-> "pushc", f |-> lit]
GetI(s)         == [op |-> "get", s |-> s]
PutI(s)         == [op |-> "put", s |-> s]
CallI(s, n)     == [op |-> "call", s |-> s, n |-> n]
DispatchI(n)    == [op |-> "dispatch", n |-> n]
GotoI(loc)      == [op |-> "goto", loc |-> loc]
JumpI(loc)      == [op |-> "jump", loc |-> loc]
BranchI(d, loc) == [op |-> "br", dir |-> d, loc |-> loc]
Plain(op)       == [op |-> op]

\* A fresh generator for a part in the same function and tail position as g.
SubGenerator(g) == [NewGenerator EXCEPT !.funcname = g.funcname, !.tail = g.tail, !.scopes = g.scopes]

RECURSIVE Generate(_, _), GenerateBegin(_, _), GenerateSyntaxQuote(_, _)

GenerateAll(g, es) == FoldLeft(Generate, g, es)

\* buildSexpFun: parameters are popped last first, then the body, then ret.
BuildFun(name, args, body) ==
  LET n       == Len(args)
      varargs == n >= 2 /\ args[n-1] = SymV("&")
      params  == IF varargs THEN Append(SubSeq(args, 1, n-2), args[n]) ELSE args
      puts    == [i \in 1 .. Len(params) |-> PutI(params[Len(params) + 1 - i].s)]
      made    == Emit(GenerateBegin([NewGenerator EXCEPT !.funcname = name, !.tail = TRUE,
                                                        !.code = puts], body),
                      <<Plain("ret")>>)
  IN IF \E i \in 1 .. n : args[i].k # "sym"
     THEN [err |-> TRUE]
     ELSE IF made.err THEN [err |-> TRUE]
     ELSE [err |-> FALSE,
           f   |-> MakeFunction(name, IF varargs THEN Len(params) - 1 ELSE Len(params), varargs, made.code)]

GenerateFn(g, args) ==
  IF Len(args) < 2 \/ args[1].k # "arr" THEN Reject(g)
  ELSE LET made == BuildFun(Anonymous, args[1].xs, SubSeq(args, 2, Len(args)))
       IN IF made.err THEN Reject(g) ELSE Emit(g, <<ClosureI(made.f)>>)

\* gen.tail is cleared for the value and not set again.
GenerateDef(g, args) ==
  IF Len(args) # 2 \/ args[1].k # "sym" THEN Reject(g)
  ELSE Emit(Generate(SetTail(g, FALSE), args[2]), <<PutI(args[1].s), PushI(Null)>>)

GenerateDefn(g, args) ==
  IF Len(args) < 3 \/ args[2].k # "arr" \/ args[1].k # "sym" THEN Reject(g)
  ELSE LET made == BuildFun(args[1].s, args[2].xs, SubSeq(args, 3, Len(args)))
       IN IF made.err THEN Reject(g)
          ELSE Emit(g, <<PushI(FnV(made.f, <<>>)), PutI(args[1].s), PushI(Null)>>)

\* Errors of the operands are ignored: what they emitted before stays.
GenerateShortCircuit(g, or, args) ==
  LET last  == Generate(SubGenerator(g), args[Len(args)]).code
      wrap(rest, e) == Generate(NewGenerator, e).code
                       \o <<DupI, BranchI(or, Len(rest) + 2), PopI>> \o rest
  IN Emit(g, FoldLeft(wrap, last, Reverse(Front(args))))

GenerateCond(g, args) ==
  LET n       == Len(args)
      default == Generate(SubGenerator(g), args[n])
      clause(acc, i) ==
        LET pred == Generate(NewGenerator, args[2*i - 1])
            body == Generate(SubGenerator(g), args[2*i])
        IN IF acc.err \/ pred.err \/ body.err THEN Reject(acc)
           ELSE [acc EXCEPT !.code = pred.code \o <<BranchI(FALSE, Len(body.code) + 2)>>
                                     \o body.code \o <<JumpI(Len(acc.code) + 1)>> \o acc.code]
      all     == FoldLeft(clause, default, Reverse([i \in 1 .. n \div 2 |-> i]))
  IN IF n % 2 = 0 \/ all.err THEN Reject(g) ELSE Emit(g, all.code)

\* The bindings are compiled with the tail flag the let itself has.
GenerateLet(g, star, args) ==
  LET bs     == args[1].xs
      pairs  == [i \in 1 .. Len(bs) \div 2 |-> <<bs[2*i - 1], bs[2*i]>>]
      opened == [Emit(g, <<Plain("addscope")>>) EXCEPT !.scopes = @ + 1]
      bindOne(acc, p) == Emit(Generate(acc, p[2]), <<PutI(p[1].s)>>)
      bound  == IF star
                THEN FoldLeft(bindOne, opened, pairs)
                ELSE Emit(GenerateAll(opened, [i \in DOMAIN pairs |-> pairs[i][2]]),
                          Reverse([i \in DOMAIN pairs |-> PutI(pairs[i][1].s)]))
      closed == Emit(GenerateBegin(bound, SubSeq(args, 2, Len(args))), <<Plain("remscope")>>)
  IN IF Len(args) < 2 \/ args[1].k # "arr" THEN Reject(g)
     ELSE IF Len(bs) % 2 # 0 \/ \E i \in DOMAIN pairs : pairs[i][1].k # "sym" THEN Reject(g)
     ELSE IF closed.err THEN closed ELSE [closed EXCEPT !.scopes = @ - 1]

GenerateAssert(g, args) ==
  IF Len(args) # 1 THEN Reject(g)
  ELSE Emit(Generate(g, args[1]), <<BranchI(TRUE, 2), Plain("reterr"), PushI(Null)>>)

\* A call of the enclosing function in tail position leaves the let scopes
\* and jumps to its first instruction; any other call is a call.
Mut_ApplicationKeepsScopes(g, s, args) ==
  LET ready == GenerateAll(SetTail(g, FALSE), args)
      done  == IF g.tail /\ s = g.funcname
               THEN Emit(ready, <<GotoI(0)>>)
               ELSE Emit(ready, <<CallI(s, Len(args))>>)
  IN SetTail(done, g.tail)
GenerateApplication(g, s, args) ==
  LET ready == GenerateAll(SetTail(g, FALSE), args)
      leave == [i \in 1 .. ready.scopes |-> Plain("remscope")]
      done  == IF g.tail /\ s = g.funcname
               THEN Emit(ready, leave \o <<GotoI(0)>>)
               ELSE Emit(ready, <<CallI(s, Len(args))>>)
  IN SetTail(done, g.tail)

GenerateCallBySymbol(g, s, args) ==
  CASE s = "and"          -> GenerateShortCircuit(g, FALSE, args)
    [] s = "or"           -> GenerateShortCircuit(g, TRUE, args)
    [] s = "cond"         -> GenerateCond(g, args)
    [] s = "quote"        -> Emit(g, [i \in DOMAIN args |-> PushI(args[i])])
    [] s = "def"          -> GenerateDef(g, args)
    [] s = "fn"           -> GenerateFn(g, args)
    [] s = "defn"         -> GenerateDefn(g, args)
    [] s = "begin"        -> GenerateBegin(g, args)
    [] s = "let"          -> GenerateLet(g, FALSE, args)
    [] s = "let*"         -> GenerateLet(g, TRUE, args)
    [] s = "assert"       -> GenerateAssert(g, args)
    [] s = "syntax-quote" -> GenerateSyntaxQuote(g, args)
    [] OTHER              -> GenerateApplication(g, s, args)

\* The errors of the operands and of the operator are ignored.
GenerateDispatch(g, fun, args) ==
  LET operands == [GenerateAll(g, args) EXCEPT !.err = FALSE]
      operator == [Generate(operands, fun) EXCEPT !.err = FALSE]
  IN Emit(operator, <<DispatchI(Len(args))>>)

Generate(g, e) ==
  IF g.err THEN g
  ELSE CASE e.k = "sym" -> Emit(g, <<GetI(e.s)>>)
         [] e.k = "arr" -> Emit(GenerateAll(g, e.xs), <<CallI("array", Len(e.xs))>>)
         [] IsPair(e)   -> LET args == SubSeq(e.xs, 2, Len(e.xs))
                           IN IF e.xs[1].k = "sym"
                              THEN GenerateCallBySymbol(g, e.xs[1].s, args)
                              ELSE GenerateDispatch(g, e.xs[1], args)
         [] OTHER       -> Emit(g, <<PushI(e)>>)

\* All but the last expression leave their value to a pop; only the last one
\* is in tail position.
Mut_BeginWithoutPop(g, es) ==
  IF g.err THEN g
  ELSE IF es = <<>> THEN Reject(SetTail(g, FALSE))
  ELSE Generate(SetTail(GenerateAll(SetTail(g, FALSE), Front(es)), g.tail), Last(es))
Mut_BeginAllTail(g, es) ==
  IF g.err THEN g
  ELSE IF es = <<>> THEN Reject(SetTail(g, FALSE))
  ELSE LET discard(acc, e) == Emit(Generate(acc, e), <<PopI>>)
       IN Generate(FoldLeft(discard, g, Front(es)), Last(es))
Mut_BeginNoTail(g, es) ==
  IF g.err THEN g
  ELSE IF es = <<>> THEN Reject(SetTail(g, FALSE))
  ELSE LET discard(acc, e) == Emit(Generate(acc, e), <<PopI>>)
       IN Generate(FoldLeft(discard, SetTail(g, FALSE), Front(es)), Last(es))
GenerateBegin(g, es) ==
  IF g.err THEN g
  ELSE IF es = <<>> THEN Reject(SetTail(g, FALSE))
  ELSE LET discard(acc, e) == Emit(Generate(acc, e), <<PopI>>)
           before          == FoldLeft(discard, SetTail(g, FALSE), Front(es))
       IN Generate(SetTail(before, g.tail), Last(es))

\* A template: the parts that are not unquoted are data, rebuilt at run time
\* between a marker and a squash (list) or vectorize (array).
SyntaxQuoteParts(g, es, open, close) ==
  LET part(acc, e) == Emit(GenerateSyntaxQuote(Emit(acc, open), <<e>>), close)
  IN FoldLeft(part, g, es)

GenerateSyntaxQuote(g, args) ==
  LET q     == args[1]
      M     == PushI(Marker)
      form  == IF Len(q.xs) = 2 /\ q.xs[1].k = "sym" THEN q.xs[1].s ELSE ""
      value == [Generate(g, q.xs[2]) EXCEPT !.err = FALSE]
      list  == IF form = "unquote" THEN value
               ELSE IF form = "unquote-splicing" THEN Emit(value, <<Plain("explode")>>)
               ELSE Emit(SyntaxQuoteParts(Emit(g, <<M>>), q.xs, <<>>, <<>>), <<Plain("squash")>>)
      array == Emit(SyntaxQuoteParts(Emit(g, <<M>>), q.xs, <<M>>, <<Plain("squash"), Plain("explode")>>),
                    <<Plain("vectorize")>>)
  IN CASE Len(args) # 1 -> Reject(g)
       [] q.k = "arr"   -> array
       [] IsPair(q)     -> list
       [] OTHER         -> Emit(g, <<PushI(q)>>)

\* LoadExpressions and SourceExpressions compile a whole text this way.
Compile(es) == GenerateBegin(NewGenerator, es)
=============================================================================
