----------------------------- MODULE MCTailLet ------------------------------
(***************************************************************************)
(* Recursive calls that are not in tail position, in the forms whose       *)
(* compilation leaves the tail flag of the form itself in force.           *)
(***************************************************************************)
EXTENDS GlispEval, MCTexts

Again == C("f", <<C("-", <<S("n"), N(1)>>)>>)

MCBody ==
  "let"       :> C("let", <<A(<<S("r"), Again>>), C("+", <<S("r"), N(1)>>)>>)
  @@ "array"  :> A(<<Again>>)
  @@ "assert" :> C("assert", <<Again>>)
  @@ "called" :> L(<<Fn(<<S("v")>>, <<C("+", <<S("v"), N(1)>>)>>), Again>>)

MCText == [p \in DOMAIN MCBody |->
  <<Defn("f", <<S("n")>>, <<C("cond", <<C("=", <<S("n"), N(0)>>), N(7), MCBody[p]>>)>>),
    C("f", <<N(2)>>)>>]

MCFileText  == <<>>
MCBadText   == {}
MCPiece     == DOMAIN MCText
MCPieceCode == CompileAll(MCText)
MCFileCode  == CompileAll(MCFileText)
MCCodes     == Range1(MCPieceCode)
MCFun       == FunsOf(MCCodes)
MCInstr     == InstrsOf(MCCodes)
=============================================================================
