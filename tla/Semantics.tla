----------------------------- MODULE Semantics ------------------------------
(***************************************************************************)
(* What a Glisp text means: a reference evaluator on the expressions       *)
(* themselves, with no instructions, stacks, jumps or tail calls.  It is   *)
(* the abstract specification that the compiler and the machine together   *)
(* implement (GlispEval).                                                  *)
(*                                                                         *)
(* A heap h is a sequence of scopes, h[1] the global one; an environment   *)
(* is the sequence of scope ids in view, innermost last.  Evaluation       *)
(* returns a value, the heap after it, and whether it failed: what was     *)
(* bound before a failure stays bound.                                     *)
(***************************************************************************)
EXTENDS Builtins

CONSTANT FileText   \* the expressions of each file that can be sourced

Done(v, h)  == [v |-> v, h |-> h, err |-> FALSE]
Wrong(h)    == [v |-> Null, h |-> h, err |-> TRUE]

Proc(name)  == [k |-> "fn", builtin |-> name]
Lambda(params, body, close) ==
  [k |-> "fn", builtin |-> "", params |-> params, body |-> body, close |-> close]

Binders(s, env, h) == {i \in DOMAIN env : s \in DOMAIN h[env[i]]}
Holder(s, env, h)  == env[Max(Binders(s, env, h))]
Bind(s, v, env, h) == [h EXCEPT ![Last(env)] = (s :> v) @@ @]

\* The values a new function keeps of the scopes in view, the global excepted.
Kept(env, h) ==
  LET local == Tail(env)
      names == UNION {DOMAIN h[local[i]] : i \in DOMAIN local}
  IN [s \in names |-> h[Holder(s, local, h)][s]]

\* What evaluation leads to besides expressions: the call of a function value
\* by a name, a file to source, and the spliced part of a template.
Call(f, name, args) == [k |-> "call", f |-> f, name |-> name, args |-> args]
File(v)             == [k |-> "file", name |-> v]
Splice(e)           == [k |-> "splice", e |-> e]

RECURSIVE Eval(_, _, _)

\* A result r after the values vs, and the last of a result's values.
After(vs, r)  == IF r.err THEN r ELSE [r EXCEPT !.v = Append(vs, @)]
LastOf(all)   == IF all.err THEN all ELSE [all EXCEPT !.v = Last(@)]

\* Expressions from left to right, up to one that fails: v is the sequence of
\* their values.
EvalAfter(before, e, env) ==
  IF before.err THEN before ELSE After(before.v, Eval(e, env, before.h))

EvalAll(es, env, h) ==
  LET upto[n \in 0 .. Len(es)] ==
        IF n = 0 THEN Done(<<>>, h) ELSE EvalAfter(upto[n-1], es[n], env)
  IN upto[Len(es)]

Body(es, env, h) == LastOf(EvalAll(es, env, h))

ApplyLambda(f, args, h) ==
  LET n      == Len(f.params)
      rest   == n >= 2 /\ f.params[n-1] = SymV("&")
      names  == IF rest THEN Append(SubSeq(f.params, 1, n-2), f.params[n]) ELSE f.params
      fixed  == IF rest THEN n - 2 ELSE n
      values == IF rest THEN Append(SubSeq(args, 1, fixed), ListV(SubSeq(args, fixed + 1, Len(args))))
                        ELSE args
      scope  == [s \in {names[i].s : i \in DOMAIN names} |->
                   values[CHOOSE i \in DOMAIN names : names[i].s = s]]
  IN IF Len(args) < fixed \/ (~rest /\ Len(args) # fixed) THEN Wrong(h)
     ELSE Body(f.body, <<1>> \o f.close \o <<Len(h) + 1>>, Append(h, scope))

Sequence(v) == v.k = "arr" \/ IsPair(v)

\* What source-file finds in its arguments, however deep.
RECURSIVE Items(_)
Items(v) == IF Sequence(v) THEN FlattenSeq([i \in DOMAIN v.xs |-> Items(v.xs[i])]) ELSE <<v>>

\* fold: apply f to one end of xs and acc, then fold what is left.
Fold(name, xs, f, acc, env, h) ==
  LET left == name = "foldl"
      r    == Eval(Call(f, f.builtin, <<IF left THEN xs[1] ELSE Last(xs), acc>>), env, h)
      more == ArrV(IF left THEN Tail(xs) ELSE Front(xs))
  IN IF xs = <<>> THEN Done(acc, h)
     ELSE IF r.err THEN r
     ELSE Eval(Call(Proc(name), name, <<more, f, r.v>>), env, r.h)

ApplyBuiltin(name, called, args, env, h) ==
  CASE name = "set!" ->
         IF Len(args) # 2 THEN Wrong(h)
         ELSE IF args[1].k # "sym" \/ Binders(args[1].s, env, h) = {} THEN Wrong(h)
         ELSE Done(args[1], [h EXCEPT ![Holder(args[1].s, env, h)][args[1].s] = args[2]])
    [] name = "apply" ->
         IF Len(args) # 2 \/ args[1].k # "fn" \/ args[2].k \notin {"list", "arr"} THEN Wrong(h)
         ELSE Eval(Call(args[1], args[1].builtin, args[2].xs), env, h)
    [] name = "map" ->
         IF Len(args) # 2 \/ args[1].k # "fn" \/ ~Sequence(args[2]) THEN Wrong(h)
         ELSE LET f == args[1]
                  r == EvalAll([i \in DOMAIN args[2].xs |-> Call(f, f.builtin, <<args[2].xs[i]>>)], env, h)
              IN IF r.err THEN r ELSE [r EXCEPT !.v = [k |-> args[2].k, xs |-> @]]
    [] name \in {"foldl", "foldr"} ->
         IF Len(args) < 3 \/ args[2].k # "fn" \/ ~Sequence(args[1]) THEN Wrong(h)
         ELSE Fold(name, args[1].xs, args[2], args[3], env, h)
    [] name = "source-file" ->
         LET found == Items(ArrV(args))
             r == EvalAll([i \in DOMAIN found |-> File(found[i])], env, h)
         IN IF r.err THEN r ELSE Done(Null, r.h)
    [] OTHER -> LET r == BuiltinPrim(name, called, args)
                IN IF r.ok THEN Done(r.val, h) ELSE Wrong(h)

\* A call names its function: a builtin first, else what the symbol is bound to.
Named(s, args, env, h) ==
  LET f == h[Holder(s, env, h)][s]
  IN IF s \in PrimNames \cup {"set!", "apply", "map", "foldl", "foldr"}
     THEN Eval(Call(Proc(s), s, args), env, h)
     ELSE IF Binders(s, env, h) = {} THEN Wrong(h)
     ELSE IF f.k # "fn" THEN Wrong(h)
     ELSE Eval(Call(f, s, args), env, h)

\* and, or: the first operand that decides, else the last one.
Decide(s, es, env, h) ==
  LET r == Eval(es[1], env, h)
  IN IF r.err \/ Len(es) = 1 \/ IsTruthy(r.v) = (s = "or") THEN r
     ELSE Eval(ListV(<<SymV(s)>> \o Tail(es)), env, r.h)

Cond(es, env, h) ==
  LET r == Eval(es[1], env, h)
  IN IF r.err \/ Len(es) = 1 THEN r
     ELSE Eval(IF IsTruthy(r.v) THEN es[2] ELSE ListV(<<SymV("cond")>> \o SubSeq(es, 3, Len(es))), env, r.h)

\* let evaluates every value before it binds any name, the leftmost of two
\* equal names winning; let* defines one name after the other.
Let(bs, body, env, h) ==
  LET inner  == Append(env, Len(h) + 1)
      pairs  == 1 .. Len(bs) \div 2
      all    == EvalAll([i \in pairs |-> bs[2*i]], inner, Append(h, <<>>))
      at(s)  == Min({i \in pairs : bs[2*i - 1].s = s})
      frame  == [s \in {bs[2*i - 1].s : i \in pairs} |-> all.v[at(s)]]
  IN IF all.err THEN all ELSE Body(body, inner, [all.h EXCEPT ![Last(inner)] = frame @@ @])

LetStar(bs, body, env, h) ==
  LET defs == [i \in 1 .. Len(bs) \div 2 |-> ListV(<<SymV("def"), bs[2*i - 1], bs[2*i]>>)]
  IN Body(defs \o body, Append(env, Len(h) + 1), Append(h, <<>>))

\* A template is itself, but for what is unquoted in it; the parts of a list
\* or an array are templates, of which a spliced one is a list of parts.
Unquoted(q, form) == q.k = "list" /\ Len(q.xs) = 2 /\ q.xs[1] = SymV(form)
Part(q) == IF Unquoted(q, "unquote-splicing") THEN Splice(q.xs[2])
           ELSE ListV(<<SymV("syntax-quote"), q>>)

Template(q, env, h) ==
  LET all    == EvalAll([i \in DOMAIN q.xs |-> Part(q.xs[i])], env, h)
      pieces == [i \in DOMAIN q.xs |-> IF Part(q.xs[i]).k = "splice" THEN all.v[i].xs ELSE <<all.v[i]>>]
  IN CASE Unquoted(q, "unquote") -> Eval(q.xs[2], env, h)
       [] ~Sequence(q)           -> Done(q, h)
       [] OTHER -> IF all.err THEN all ELSE [all EXCEPT !.v = [k |-> q.k, xs |-> FlattenSeq(pieces)]]

Form(s, es, env, h) ==
  CASE s \in {"and", "or"} -> Decide(s, es, env, h)
    [] s = "cond"  -> Cond(es, env, h)
    [] s = "quote" -> Done(es[1], h)
    [] s = "begin" -> Body(es, env, h)
    [] s = "let"   -> Let(es[1].xs, Tail(es), env, h)
    [] s = "let*"  -> LetStar(es[1].xs, Tail(es), env, h)
    [] s = "def"   -> LET r == Eval(es[2], env, h)
                      IN IF r.err THEN r ELSE Done(Null, Bind(es[1].s, r.v, env, r.h))
    [] s = "defn"  -> Done(Null, Bind(es[1].s, Lambda(es[2].xs, SubSeq(es, 3, Len(es)), <<>>), env, h))
    [] s = "fn"    -> Done(Lambda(es[1].xs, Tail(es), <<Len(h) + 1>>), Append(h, Kept(env, h)))
    [] s = "assert" -> LET r == Eval(es[1], env, h)
                       IN IF r.err \/ ~IsTruthy(r.v) THEN Wrong(r.h) ELSE Done(Null, r.h)
    [] s = "syntax-quote" -> Template(es[1], env, h)
    [] OTHER -> LET all == EvalAll(es, env, h)
                IN IF all.err THEN all ELSE Named(s, all.v, env, all.h)

Eval(e, env, h) ==
  CASE e.k = "sym" -> IF Binders(e.s, env, h) = {} THEN Wrong(h)
                      ELSE Done(h[Holder(e.s, env, h)][e.s], h)
    [] e.k = "arr" -> LET all == EvalAll(e.xs, env, h) IN IF all.err THEN all ELSE [all EXCEPT !.v = ArrV(@)]
    [] IsPair(e)   ->
         IF e.xs[1].k = "sym" THEN Form(e.xs[1].s, Tail(e.xs), env, h)
         ELSE LET all == EvalAll(Append(Tail(e.xs), e.xs[1]), env, h)
                  f   == Last(all.v)
              IN IF all.err THEN all
                 ELSE IF f.k # "fn" THEN Wrong(all.h)
                 ELSE Eval(Call(f, f.builtin, Front(all.v)), env, all.h)
    [] e.k = "call" -> IF e.f.builtin = "" THEN ApplyLambda(e.f, e.args, h)
                       ELSE ApplyBuiltin(e.f.builtin, e.name, e.args, env, h)
    [] e.k = "file" -> IF e.name.k # "str" THEN Wrong(h)
                       ELSE IF e.name.t \notin DOMAIN FileText THEN Wrong(h)
                       ELSE Body(FileText[e.name.t], env, h)
    [] e.k = "splice" -> LET r == Eval(e.e, env, h)
                         IN IF r.err \/ r.v.k # "list" THEN Wrong(r.h) ELSE r
    [] OTHER       -> Done(e, h)

\* The heap before the first text: every builtin is bound globally.
StartHeap(names) == <<[s \in names |-> Proc(s)]>>
=============================================================================
