------------------------------ MODULE MCTexts -------------------------------
(***************************************************************************)
(* Shorthand for Glisp texts, and the constants of GlispVM computed from   *)
(* them by the compiler.                                                   *)
(***************************************************************************)
EXTENDS Generator, Builtins

S(s)      == SymV(s)
N(n)      == IntV(n)
L(xs)     == ListV(xs)
A(xs)     == ArrV(xs)
C(f, xs)  == ListV(<<SymV(f)>> \o xs)
Q(v)      == C("quote", <<v>>)
Fn(ps, b) == C("fn", <<A(ps)>> \o b)
Def(s, v) == C("def", <<S(s), v>>)
Defn(s, ps, b) == C("defn", <<S(s), A(ps)>> \o b)

MCBuiltins == PrimNames \cup {"set!", "apply", "map", "foldl", "foldr"}

CompileAll(text) == [p \in DOMAIN text |-> Compile(text[p]).code]

Range1(f) == {f[x] : x \in DOMAIN f}

\* Function literals in a code, and in the functions it holds.
RECURSIVE FunsIn(_)
FunsIn(code) ==
  LET here == {code[i].f : i \in {j \in DOMAIN code : code[j].op = "pushc"}}
              \cup {code[i].v.f : i \in {j \in DOMAIN code : code[j].op = "push" /\ code[j].v.k = "fn"}}
  IN here \cup UNION {FunsIn(f.code) : f \in here}

FunsOf(codes) ==
  {MakeUserFunction(b) : b \in MCBuiltins \cup {"source-file"}} \cup UNION {FunsIn(c) : c \in codes}

InstrsOf(codes) ==
  {PopI} \cup UNION {Range1(c) : c \in codes} \cup UNION {Range1(f.code) : f \in FunsOf(codes)}
=============================================================================
