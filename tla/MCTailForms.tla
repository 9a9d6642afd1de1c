---------------------------- MODULE MCTailForms -----------------------------
(***************************************************************************)
(* A recursive function whose recursive call stands in every form, and in  *)
(* every form inside every form.  A form is an operator on the expression  *)
(* that stands in it; the names of the forms index the texts.              *)
(***************************************************************************)
EXTENDS GlispEval, MCTexts

\* Forms that end with what stands in them ...
LastForms == {"begin", "let", "let*", "and", "or", "branch", "default"}

\* ... and forms that go on after it.
OpenForms == {"operand", "list", "first", "def", "test", "and1", "let-in", "twice", "called", "template"}

Form(name, x) ==
  CASE name = "begin"   -> C("begin", <<S("n"), x>>)
    [] name = "let"     -> C("let", <<A(<<S("m"), S("n"), S("k"), N(0)>>), S("m"), x>>)
    [] name = "let*"    -> C("let*", <<A(<<S("m"), S("n"), S("k"), S("m")>>), x>>)
    [] name = "and"     -> C("and", <<N(1), S("n"), x>>)
    [] name = "or"      -> C("or", <<N(0), x>>)
    [] name = "branch"  -> C("cond", <<N(0), N(8), S("n"), x, N(9)>>)
    [] name = "default" -> C("cond", <<N(0), N(8), x>>)
    [] name = "operand" -> C("+", <<S("n"), x>>)
    [] name = "list"    -> C("first", <<C("list", <<x, S("n")>>)>>)
    [] name = "first"   -> C("+", <<N(1), C("first", <<A(<<x>>)>>)>>)
    [] name = "def"     -> C("begin", <<Def("d", x), C("+", <<S("d"), S("n")>>)>>)
    [] name = "test"    -> C("cond", <<x, S("n"), N(9)>>)
    [] name = "and1"    -> C("and", <<x, S("n")>>)
    [] name = "let-in"  -> C("begin", <<C("let", <<A(<<S("r"), x>>), Def("d", S("r"))>>), S("n")>>)
    [] name = "twice"   -> C("-", <<x, x>>)
    [] name = "called"  -> C("+", <<N(0), L(<<Fn(<<S("v")>>, <<S("v")>>), x>>)>>)
    [] name = "template" -> C("+", <<N(0), C("first", <<C("syntax-quote", <<L(<<C("unquote", <<x>>)>>)>>)>>)>>)
    [] name = "fails"   -> C("+", <<x, Q(S("n"))>>)

Again == C("f", <<C("-", <<S("n"), N(1)>>)>>)

Recursion(body) ==
  <<Defn("f", <<S("n")>>, <<C("cond", <<C("=", <<S("n"), N(0)>>), N(7), body>>)>>),
    C("f", <<N(2)>>)>>

Outer == LastForms \cup OpenForms \cup {"fails"}
Inner == LastForms \cup OpenForms

MCText     == [p \in Outer \X Inner |-> Recursion(Form(p[1], Form(p[2], Again)))]
MCLoop     == LastForms \X LastForms
MCFileText == <<>>
MCBadText  == {}

MCPiece     == DOMAIN MCText
MCPieceCode == CompileAll(MCText)
MCFileCode  == CompileAll(MCFileText)
MCCodes     == Range1(MCPieceCode)
MCFun       == FunsOf(MCCodes)
MCInstr     == InstrsOf(MCCodes)
=============================================================================
