----------------------------- MODULE GlispEval ------------------------------
(***************************************************************************)
(* The interpreter as its host sees it: texts go through the compiler of   *)
(* Generator, the machine of GlispVM runs them, and the reference          *)
(* evaluator of Semantics says what they should have done.  The variables  *)
(* added here are histories: no step of the interpreter reads them.        *)
(***************************************************************************)
EXTENDS GlispVM, Generator

CONSTANTS Text,      \* the expressions of each piece the compiler accepts
          FileText,  \* the expressions of each file
          BadText    \* texts the compiler rejects

Meaning == INSTANCE Semantics

ASSUME TextAssumption ==
  /\ DOMAIN Text = Piece
  /\ \A p \in Piece : ~Compile(Text[p]).err /\ PieceCode[p] = Compile(Text[p]).code
  /\ FileCode = [f \in DOMAIN FileText |-> Compile(FileText[f]).code]
  /\ \A t \in BadText : Compile(t).err

VARIABLES
  heap,     \* the reference evaluator's heap after the last text run
  pending,  \* pieces loaded and not yet run
  expect,   \* what the reference evaluator says of the last run
  bases     \* operands below the arguments of each call on addrstack

history == <<heap, pending, expect, bases>>

EvalInit ==
  /\ Init
  /\ heap = Meaning!StartHeap({lit.name : lit \in UserFunctions})
  /\ pending = <<>> /\ bases = <<>>
  /\ expect = [v |-> Null, err |-> FALSE]

LoadText(p) == Load(p) /\ pending' = Append(pending, p) /\ UNCHANGED <<heap, expect, bases>>

RejectText ==
  /\ LoadFails /\ BadText # {}
  /\ expect' = [expect EXCEPT !.err = TRUE]
  /\ UNCHANGED <<heap, pending, bases>>

RunTexts ==
  /\ Run
  /\ \E r \in {Meaning!Body(FlattenSeq([i \in DOMAIN pending |-> Text[pending[i]]]), <<1>>, heap)} :
       heap' = r.h /\ expect' = [v |-> IF r.err THEN Null ELSE r.v, err |-> r.err]
  /\ pending' = <<>> /\ UNCHANGED bases

\* A call takes its arguments off the operands it found, or, for a script
\* function, will take its parameters off them.
Parameters(lit) == IF lit.varargs THEN lit.nargs + 1 ELSE lit.nargs
NextBases ==
  LET now == Len(addrstack) IN
  IF Len(addrstack') > now THEN Append(bases, Len(datastack') - Parameters(curfunc'.f))
  ELSE IF Len(addrstack') < now THEN Front(bases) ELSE bases

Execute == Machine /\ bases' = NextBases /\ UNCHANGED <<heap, pending, expect>>

RecoverHost == Recover /\ pending' = <<>> /\ bases' = <<>> /\ UNCHANGED <<heap, expect>>

EvalNext == Execute \/ RunTexts \/ RecoverHost \/ RejectText \/ \E p \in Piece : LoadText(p)

EvalSpec == EvalInit /\ [][EvalNext]_<<vars, history>> /\ WF_<<vars, history>>(Execute)

-----------------------------------------------------------------------------
(* Properties *)

\* Functions are compared as functions only: the two sides represent them
\* differently.
RECURSIVE Visible(_)
Visible(v) ==
  CASE v.k = "fn" -> [k |-> "fn"]
    [] v.k \in {"list", "arr"} -> [v EXCEPT !.xs = [i \in DOMAIN @ |-> Visible(@[i])]]
    [] OTHER -> v

Finished == status = "idle" /\ IsDone /\ mainfunc.f.code # <<>>

\* Compiled code and machine do what the text means: a run returns the value
\* the reference evaluator returns, it fails exactly when the evaluator does,
\* and never ends the process or panics (Generate*, Execute, Run, Finish).
EvalAgrees ==
  /\ Finished => ~expect.err /\ Visible(result) = Visible(expect.v)
  /\ status = "failed" => expect.err
  /\ status \notin {"exited", "panicked"}

\* Between texts the global scope holds what the reference evaluator's does,
\* after failed texts too: an error undoes nothing and adds nothing (Put,
\* SwapSymbol, Clear).
GlobalsAgree ==
  status \in {"idle", "failed"} =>
    /\ DOMAIN scopes[Global] = DOMAIN heap[1]
    /\ \A s \in DOMAIN heap[1] : Visible(scopes[Global][s]) = Visible(heap[1][s])

\* "That way the stack remains clean": every function returns with exactly one
\* operand more than there was below its arguments, and a builtin is entered
\* and left with none (GenerateBegin, CallFunction, CallUserFunction).
CallsLeaveOneOperand ==
  /\ At("ret") => Len(datastack) = Last(bases) + 1
  /\ status = "go" /\ Frame.todo = <<>> /\ Frame.own => Len(datastack) = Last(bases)

\* Every run ends: it returns to the host with a value or with an error.
EveryRunEnds == (status \in {"run", "go"}) ~> (status \in {"idle", "failed"})
=============================================================================
