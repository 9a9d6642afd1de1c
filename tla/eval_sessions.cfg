SPECIFICATION EvalSpec
CONSTANTS
  Piece <- MCPiece
  PieceCode <- MCPieceCode
  FileCode <- MCFileCode
  Fun <- MCFun
  Instr <- MCInstr
  Builtins <- MCBuiltins
  Prim <- BuiltinPrim
  Text <- MCText
  FileText <- MCFileText
  BadText <- MCBadText
  LoopPiece = {"loop"}
  MaxLoads = 3
INVARIANTS
  TypeOK
  StacksMatch
  ReturnHasCaller
  AtRest
  GlobalAtBottom
  EvalAgrees
  GlobalsAgree
  CallsLeaveOneOperand
  ScopesClosed
  CodeCloses
  TailCallsStayInFrame
CHECK_DEADLOCK FALSE
