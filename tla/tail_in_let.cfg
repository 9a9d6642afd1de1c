SPECIFICATION EvalSpec
CONSTANTS
  Piece <- MCPiece
  PieceCode <- MCPieceCode
  FileCode <- MCFileCode
  Fun <- MCFun
  Instr <- MCInstr
  Builtins <- MCBuiltins
  Prim <- BuiltinPrim
  Text <- MCText
  FileText <- MCFileText
  BadText <- MCBadText
  LoopPiece = {}
  MaxLoads = 1
INVARIANT EvalAgrees
CHECK_DEADLOCK FALSE
