----------------------------- MODULE MCSessions -----------------------------
(***************************************************************************)
(* Sessions: a host loads and runs texts in every order, two of them       *)
(* possibly before one run, some of which fail.                            *)
(***************************************************************************)
EXTENDS GlispEval, MCTexts

MCText ==
  "def"     :> <<Def("a", N(1))>>
  @@ "add"  :> <<Defn("add", <<S("x"), S("y")>>, <<C("+", <<S("x"), S("y")>>)>>),
                 C("add", <<S("a"), N(2)>>)>>
  @@ "rest" :> <<Defn("more", <<S("x"), S("&"), S("r")>>, <<S("r")>>),
                 A(<<C("more", <<N(1)>>), C("more", <<N(1), N(2), N(3)>>)>>)>>
  @@ "counter" :>
       <<Def("next", C("let", <<A(<<S("n"), N(0)>>),
                                Fn(<<>>, <<C("set!", <<Q(S("n")), C("+", <<S("n"), N(1)>>)>>), S("n")>>)>>)),
         C("next", <<>>), C("next", <<>>)>>
  @@ "next" :> <<C("next", <<>>)>>
  @@ "loop" :> <<Defn("down", <<S("n")>>,
                   <<C("cond", <<C("=", <<S("n"), N(0)>>), Q(S("done")),
                                 C("let", <<A(<<S("m"), C("-", <<S("n"), N(1)>>)>>),
                                            C("down", <<S("m")>>)>>)>>)>>),
                 C("down", <<N(2)>>)>>
  @@ "map"  :> <<C("map", <<Fn(<<S("x")>>, <<C("+", <<S("x"), S("a")>>)>>), A(<<N(1), N(2)>>)>>)>>
  @@ "fold" :> <<C("foldr", <<Q(L(<<N(1), N(2)>>)), Fn(<<S("x"), S("acc")>>, <<C("list", <<S("x"), S("acc")>>)>>), N(0)>>),
                 C("foldl", <<A(<<N(1), N(2)>>), S("-"), N(9)>>)>>
  @@ "nested" :> <<C("apply", <<S("map"), C("list", <<S("first"), Q(L(<<L(<<N(1)>>)>>))>>)>>),
                   C("map", <<Fn(<<S("f")>>, <<C("apply", <<S("f"), A(<<S("f")>>)>>)>>),
                              C("list", <<Fn(<<S("g")>>, <<N(4)>>)>>)>>)>>
  @@ "enclosure" :>
       <<Defn("enclosure", <<>>,
           <<C("let", <<A(<<S("f1"), Fn(<<S("thunk")>>, <<C("let", <<A(<<S("a"), N(2)>>), C("thunk", <<>>)>>)>>),
                            S("f2"), Fn(<<>>, <<S("a")>>)>>),
                        C("f1", <<S("f2")>>)>>)>>),
         C("enclosure", <<>>)>>
  @@ "template" :> <<C("syntax-quote",
                       <<L(<<N(1), C("unquote", <<S("a")>>), A(<<C("unquote", <<S("a")>>)>>),
                             C("unquote-splicing", <<C("list", <<N(2), N(3)>>)>>)>>)>>)>>
  @@ "source" :> <<C("source-file", <<Q(StrV("inc")), A(<<Q(L(<<StrV("inc")>>)), A(<<>>)>>)>>), C("or", <<N(0), C("inc", <<S("a")>>)>>)>>
  @@ "nofile" :> <<Def("b", N(3)), C("source-file", <<Q(StrV("inc")), Q(StrV("none"))>>)>>
  @@ "arity"  :> <<C("let", <<A(<<S("z"), N(1)>>),
                      C("list", <<S("z"), C("map", <<Fn(<<S("x")>>, <<C("add", <<S("x")>>)>>), A(<<N(1)>>)>>)>>)>>)>>
  @@ "assert" :> <<C("assert", <<C("=", <<S("a"), N(1)>>)>>), C("set!", <<Q(S("a")), N(2)>>)>>

MCFileText == "inc" :> <<Defn("inc", <<S("x")>>, <<C("+", <<S("x"), N(1)>>)>>)>>

MCBadText == {<<C("cond", <<N(1), N(2)>>)>>}

MCPiece     == DOMAIN MCText
MCPieceCode == CompileAll(MCText)
MCFileCode  == CompileAll(MCFileText)
MCCodes     == Range1(MCPieceCode) \cup Range1(MCFileCode)
MCFun       == FunsOf(MCCodes)
MCInstr     == InstrsOf(MCCodes)
=============================================================================
