SPECIFICATION EvalSpec
CONSTANTS
  Piece <- MCPiece
  PieceCode <- MCPieceCode
  FileCode <- MCFileCode
  Fun <- MCFun
  Instr <- MCInstr
  Builtins <- MCBuiltins
  Prim <- BuiltinPrim
  Text <- MCText
  FileText <- MCFileText
  BadText <- MCBadText
  LoopPiece <- MCLoop
  MaxLoads = 1
INVARIANTS
  StacksMatch
  EvalAgrees
  CallsLeaveOneOperand
  ScopesClosed
  CodeCloses
  TailCallsStayInFrame
PROPERTIES
  EveryRunEnds
CHECK_DEADLOCK FALSE
