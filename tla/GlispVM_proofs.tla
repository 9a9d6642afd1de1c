--------------------------- MODULE GlispVM_proofs ---------------------------
(***************************************************************************)
(* The stacks of the machine stay in step in every run of every program:   *)
(* proofs of the invariants of GlispVM that do not depend on operands.     *)
(***************************************************************************)
EXTENDS GlispVM, SequenceTheorems, TLAPS

-----------------------------------------------------------------------------
(* Stacks *)

\* Push and pop on a typed stack.
LEMMA PushPop ==
  ASSUME NEW S, NEW s \in Seq(S), NEW e \in S
  PROVE  /\ Append(s, e) \in Seq(S) /\ Append(s, e) # <<>>
         /\ Len(Append(s, e)) = Len(s) + 1 /\ DOMAIN Append(s, e) = 1 .. Len(s) + 1
         /\ \A i \in 1 .. Len(s) : Append(s, e)[i] = s[i]
         /\ Append(s, e)[Len(s) + 1] = e
  BY AppendProperties, LenProperties

\* The last element and the rest of a typed stack that is not empty.
LEMMA Popped ==
  ASSUME NEW S, NEW s \in Seq(S), s # <<>>
  PROVE  /\ Len(s) \in Nat \ {0} /\ DOMAIN s = 1 .. Len(s)
         /\ Last(s) = s[Len(s)] /\ Last(s) \in S
         /\ Front(s) \in Seq(S) /\ Len(Front(s)) = Len(s) - 1
         /\ DOMAIN Front(s) = 1 .. Len(s) - 1
         /\ \A i \in 1 .. Len(s) - 1 : Front(s)[i] = s[i]
  <1>1. Len(s) \in Nat \ {0} /\ DOMAIN s = 1 .. Len(s)
    BY EmptySeq, LenProperties
  <1>2. \A i \in 1 .. Len(s) : s[i] \in S
    BY ElementOfSeq
  <1>3. /\ SubSeq(s, 1, Len(s) - 1) \in Seq(S)
        /\ Len(SubSeq(s, 1, Len(s) - 1)) = Len(s) - 1
        /\ \A i \in 1 .. Len(s) - 1 : SubSeq(s, 1, Len(s) - 1)[i] = s[i]
    BY <1>1, <1>2, SubSeqProperties
  <1>4. DOMAIN Front(s) = 1 .. Len(s) - 1
    BY <1>3, LenProperties DEF Front
  <1> QED
    BY <1>1, <1>2, <1>3, <1>4 DEF Front, Last

\* A typed stack is a sequence.
LEMMA IsSequenceIntro ==
  ASSUME NEW S, NEW s \in Seq(S)
  PROVE  IsSequence(s) /\ Len(s) \in Nat /\ DOMAIN s = 1 .. Len(s)
  BY LenProperties, SeqDef DEF IsSequence

\* Push and pop on a stack whose elements have no type.
LEMMA UntypedPush ==
  ASSUME NEW s, IsSequence(s), NEW e
  PROVE  /\ IsSequence(Append(s, e)) /\ Append(s, e) # <<>>
         /\ Len(s) \in Nat /\ DOMAIN s = 1 .. Len(s)
         /\ Len(Append(s, e)) = Len(s) + 1 /\ DOMAIN Append(s, e) = 1 .. Len(s) + 1
         /\ \A i \in 1 .. Len(s) : Append(s, e)[i] = s[i]
         /\ Append(s, e)[Len(s) + 1] = e
  <1> DEFINE S == {s[i] : i \in DOMAIN s} \cup {e}
  <1>1. s \in Seq(S)
    BY SeqMonotonic DEF IsSequence
  <1>2. e \in S
    OBVIOUS
  <1> HIDE DEF S
  <1>3. Append(s, e) \in Seq(S)
    BY <1>1, <1>2, PushPop
  <1>4. IsSequence(Append(s, e))
    BY <1>3, IsSequenceIntro
  <1>5. Len(s) \in Nat /\ DOMAIN s = 1 .. Len(s)
    BY <1>1, LenProperties
  <1> QED
    BY <1>1, <1>2, <1>4, <1>5, PushPop

\* Pop on a stack whose elements have no type.
LEMMA UntypedPop ==
  ASSUME NEW s, IsSequence(s), s # <<>>
  PROVE  /\ IsSequence(Front(s))
         /\ Len(s) \in Nat \ {0} /\ DOMAIN s = 1 .. Len(s)
         /\ Last(s) = s[Len(s)]
         /\ Len(Front(s)) = Len(s) - 1 /\ DOMAIN Front(s) = 1 .. Len(s) - 1
         /\ \A i \in 1 .. Len(s) - 1 : Front(s)[i] = s[i]
  <1> DEFINE S == {s[i] : i \in DOMAIN s}
  <1>1. s \in Seq(S)
    BY DEF IsSequence
  <1> HIDE DEF S
  <1> QED
    BY <1>1, Popped, IsSequenceIntro

-----------------------------------------------------------------------------
(* Code *)

AddressT == [fn : Runnable, pc : Int, native : BOOLEAN, depth : Nat, view : Nat]

AddressesTyped ==
  /\ addrstack \in Seq(AddressT)
  /\ \A i \in DOMAIN addrstack : Position(addrstack[i].fn, addrstack[i].pc)

ScopesTyped == scopestack \in Seq(ScopeId) /\ stackstack \in Seq(Seq(ScopeId)) /\ nscopes \in ScopeId

FramesTyped ==
  /\ IsSequence(gostack)
  /\ \A j \in DOMAIN gostack :
       gostack[j].kind \in ReentrantBuiltins /\ gostack[j].own \in BOOLEAN /\ gostack[j].entry \in Nat

MainTyped == mainfunc \in Runnable /\ mainfunc.f.name = "__main" /\ ~mainfunc.f.user

\* TypeOK, part by part.
LEMMA TypeParts ==
  TypeOK <=>
    /\ ScopesTyped /\ AddressesTyped /\ MainTyped /\ FramesTyped
    /\ curfunc \in Runnable /\ pc \in Int /\ (Live => Position(curfunc, pc))
    /\ status \in {"idle", "run", "go", "failed", "exited", "panicked"}
    /\ loads \in 0 .. MaxLoads
  BY DEF TypeOK, ScopesTyped, AddressesTyped, AddressT, MainTyped, FramesTyped

\* TypeOK of the next state, part by part.
LEMMA TypePartsNext ==
  TypeOK' <=>
    /\ ScopesTyped' /\ AddressesTyped' /\ MainTyped' /\ FramesTyped'
    /\ curfunc' \in Runnable /\ pc' \in Int /\ (Live' => Position(curfunc', pc'))
    /\ status' \in {"idle", "run", "go", "failed", "exited", "panicked"}
    /\ loads' \in 0 .. MaxLoads
  BY DEF TypeOK, ScopesTyped, AddressesTyped, AddressT, MainTyped, FramesTyped

\* The fields of a function value.
LEMMA CallableFacts ==
  ASSUME NEW fn \in Callable
  PROVE  /\ fn.k = "fn" /\ fn.f \in FunLit /\ fn.close \in Seq(ScopeId)
         /\ fn.f.user \in BOOLEAN /\ fn.f.code \in Seq(Instr) /\ Len(fn.f.code) \in Nat
         /\ DOMAIN fn.f.code = 1 .. Len(fn.f.code)
  BY LenProperties DEF Callable, FunLit

\* A function a program can call may run, from its first instruction if it is
\* a script function.
LEMMA ClosureRuns ==
  ASSUME NEW fn \in Closure
  PROVE  /\ fn \in Runnable /\ fn.close \in Seq(ScopeId) /\ fn.f.user \in BOOLEAN
         /\ fn.f.name \notin TopLevel
         /\ fn.f.user => Position(fn, -1) /\ ~Entered(fn)
         /\ ~fn.f.user => Position(fn, 0) /\ Entered(fn)
  <1>1. fn.f \in Fun /\ fn.f \in FunLit /\ fn \in Callable
    BY CodeAssumption DEF Closure, Callable
  <1>2. fn.f.name \notin TopLevel /\ (~fn.f.user => Stays(fn.f.code))
    BY <1>1, CodeAssumption
  <1>3. fn.f.code \in Seq(Instr) /\ Len(fn.f.code) \in Nat /\ fn.f.user \in BOOLEAN /\ fn.close \in Seq(ScopeId)
    BY <1>1, CallableFacts
  <1>4. ~fn.f.user => Len(fn.f.code) - 1 \in Nat
    BY <1>2, <1>3, EmptySeq DEF Stays
  <1>5. fn \in Runnable
    BY <1>1, <1>2, <1>3 DEF Runnable, Entered
  <1> QED
    BY <1>2, <1>3, <1>4, <1>5 DEF Position, Entered

\* Code that Load and source-file run in place.
LEMMA ScriptRuns ==
  ASSUME NEW name \in TopLevel, NEW code \in TopLevelCode
  PROVE  /\ Script(name, code) \in Runnable
         /\ Script(name, code).f = [name |-> name, user |-> FALSE, nargs |-> 0, varargs |-> FALSE, code |-> code]
         /\ ~Entered(Script(name, code))
         /\ Position(Script(name, code), 0)
  <1>1. code \in Seq(Instr) /\ Len(code) \in Nat
    BY LenProperties DEF TopLevelCode
  <1>2. name \in FunName
    BY DEF FunName
  <1>3. <<>> \in Seq(ScopeId)
    BY EmptySeq
  <1>4. Script(name, code) \in Callable
    BY <1>1, <1>2, <1>3 DEF Script, FnV, MakeFunction, Callable, FunLit
  <1>5. Script(name, code).f = [name |-> name, user |-> FALSE, nargs |-> 0, varargs |-> FALSE, code |-> code]
    BY DEF Script, FnV, MakeFunction
  <1> QED
    BY <1>1, <1>4, <1>5 DEF Runnable, Entered, Position

\* The same of main.
LEMMA MainRuns ==
  ASSUME NEW code \in TopLevelCode
  PROVE  /\ Script("__main", code) \in Runnable /\ Script("__main", code).f.name = "__main"
         /\ ~Script("__main", code).f.user /\ Script("__main", code).f.code = code
         /\ Position(Script("__main", code), 0)
  <1>1. "__main" \in TopLevel
    BY DEF TopLevel
  <1>2. /\ Script("__main", code) \in Runnable /\ Position(Script("__main", code), 0)
        /\ Script("__main", code).f
           = [name |-> "__main", user |-> FALSE, nargs |-> 0, varargs |-> FALSE, code |-> code]
    BY <1>1, ScriptRuns
  <1> QED
    BY <1>2

\* Main grows by what Load appends and stays code without a ret (LoadExpressions).
LEMMA TopLevelConcat ==
  ASSUME NEW c \in TopLevelCode, NEW d \in TopLevelCode
  PROVE  c \o d \in TopLevelCode /\ Len(c \o d) = Len(c) + Len(d) /\ Len(c) \in Nat /\ Len(d) \in Nat
  <1>1. c \in Seq(Instr) /\ d \in Seq(Instr) /\ Len(c) \in Nat /\ Len(d) \in Nat
    BY LenProperties DEF TopLevelCode
  <1>2. /\ c \o d \in Seq(Instr) /\ Len(c \o d) = Len(c) + Len(d)
        /\ \A i \in 1 .. Len(c) + Len(d) : (c \o d)[i] = IF i <= Len(c) THEN c[i] ELSE d[i - Len(c)]
    BY <1>1, ConcatProperties
  <1>3. ASSUME NEW i \in 1 .. Len(c \o d) PROVE (c \o d)[i].op \notin {"ret", "goto"}
    <2>1. CASE i <= Len(c)
      BY <1>1, <1>2, <2>1 DEF TopLevelCode
    <2>2. CASE ~(i <= Len(c))
      <3>1. i - Len(c) \in 1 .. Len(d)
        BY <1>1, <1>2, <2>2
      <3> QED
        BY <1>1, <1>2, <2>2, <3>1 DEF TopLevelCode
    <2> QED
      BY <2>1, <2>2
  <1> QED
    BY <1>1, <1>2, <1>3 DEF TopLevelCode

\* The pop that Load and source-file put before new code is such code.
LEMMA GlueIsTopLevel == Glue \in TopLevelCode
  <1>1. <<>> \in TopLevelCode
    BY EmptySeq DEF TopLevelCode
  <1>2. <<PopInstr>> \in TopLevelCode
    <2>1. <<PopInstr>> \in Seq(Instr) /\ Len(<<PopInstr>>) = 1 /\ <<PopInstr>>[1] = PopInstr
      BY CodeAssumption
    <2> QED
      BY <2>1 DEF TopLevelCode, PopInstr
  <1> QED
    BY <1>1, <1>2 DEF Glue

-----------------------------------------------------------------------------
(* The inductive invariant *)

\* StacksMatch is inductive once the types are known.
IInv == TypeOK /\ StacksMatch

\* Where the machine stands when it executes an instruction.
LEMMA Standing ==
  ASSUME TypeOK, NEW op, At(op)
  PROVE  /\ status = "run" /\ ~curfunc.f.user
         /\ curfunc.f.code \in Seq(Instr) /\ Len(curfunc.f.code) \in Nat
         /\ CodeSize = Len(curfunc.f.code) /\ pc \in 0 .. Len(curfunc.f.code) - 1
         /\ I \in Instr /\ I.op = op
         /\ Entered(curfunc) => Stays(curfunc.f.code)
         /\ ~Entered(curfunc) => curfunc.f.code \in TopLevelCode
  <1>1. /\ curfunc \in Runnable /\ pc \in Int /\ (Live => Position(curfunc, pc))
    BY TypeParts
  <1>2. status = "run" /\ ~IsDone /\ I.op = op /\ Position(curfunc, pc)
    BY <1>1 DEF At, Live
  <1>3. ~curfunc.f.user
    BY <1>2 DEF IsDone, Position
  <1>4. curfunc.f.code \in Seq(Instr) /\ Len(curfunc.f.code) \in Nat
    BY <1>1, CallableFacts DEF Runnable
  <1>5. CodeSize = Len(curfunc.f.code)
    BY <1>3 DEF CodeSize
  <1>6. pc \in 0 .. Len(curfunc.f.code) - 1
    BY <1>1, <1>2, <1>3, <1>4, <1>5 DEF IsDone, ReachedEnd, Position
  <1>7. I \in Instr
    BY <1>4, <1>6, ElementOfSeq DEF I
  <1> QED
    BY <1>1, <1>2, <1>3, <1>4, <1>5, <1>6, <1>7 DEF Runnable, Entered

\* Where it may stand next.
LEMMA NextPosition ==
  ASSUME TypeOK, NEW op, At(op)
  PROVE  /\ op # "ret" => Position(curfunc, pc + 1) /\ pc + 1 \in Int
         /\ op \in {"jump", "br"} /\ pc + I.loc \in 0 .. CodeSize => Position(curfunc, pc + I.loc)
         /\ op = "goto" /\ I.loc \in 0 .. CodeSize => Position(curfunc, I.loc)
  <1> DEFINE n == Len(curfunc.f.code)
  <1>1. /\ ~curfunc.f.user /\ n \in Nat /\ CodeSize = n /\ pc \in 0 .. n - 1 /\ I.op = op
        /\ Entered(curfunc) => Stays(curfunc.f.code)
    BY Standing
  <1>2. CASE ~Entered(curfunc)
    BY <1>1, <1>2 DEF Position
  <1>3. CASE Entered(curfunc)
    <2>1. op # "ret" => pc + 1 # n
      BY <1>1, <1>3 DEF Stays, I
    <2>2. /\ op \in {"jump", "br"} => pc + 1 - 1 + I.loc \in 0 .. n - 1
          /\ op = "goto" => I.loc \in 0 .. n - 1
      BY <1>1, <1>3 DEF Stays, I
    <2>3. pc + 1 - 1 = pc
      BY <1>1
    <2> HIDE DEF n
    <2>4. op # "ret" => pc + 1 \in 0 .. n - 1
      BY <1>1, <2>1
    <2>5. op \in {"jump", "br"} => pc + I.loc \in 0 .. n - 1
      BY <2>2, <2>3
    <2> USE DEF n
    <2> QED
      BY <1>1, <1>3, <2>2, <2>4, <2>5 DEF Position
  <1> QED
    BY <1>2, <1>3

\* When the machine stops, for an error or for good, only types remain.
LEMMA Stopping ==
  ASSUME IInv, status' \in {"failed", "exited", "panicked"}, FramesTyped',
         ScopesTyped', AddressesTyped', curfunc' \in Runnable, pc' \in Int, UNCHANGED <<mainfunc, loads>>
  PROVE  IInv'
  <1>1. ~Live'
    BY DEF Live
  <1>2. MainTyped' /\ loads' \in 0 .. MaxLoads
    BY TypeParts DEF IInv, MainTyped
  <1>3. TypeOK'
    BY <1>1, <1>2, TypePartsNext
  <1> QED
    BY <1>1, <1>3 DEF IInv, StacksMatch, FramesMatch, ActivationsMatch

\* An empty Go stack is typed.
LEMMA NoFrames ==
  ASSUME gostack' = <<>> PROVE FramesTyped'
  <1>1. <<>> \in Seq({}) /\ Len(<<>>) = 0
    BY EmptySeq
  <1>2. IsSequence(<<>>) /\ DOMAIN <<>> = 1 .. 0
    BY <1>1, IsSequenceIntro
  <1> QED
    BY <1>2 DEF FramesTyped

\* An error, wherever it comes from, leaves the invariant to the types alone (Fail).
LEMMA Failing ==
  ASSUME IInv, Fail, ScopesTyped', AddressesTyped', curfunc' \in Runnable, pc' \in Int,
         UNCHANGED <<mainfunc, loads>>
  PROVE  IInv'
  BY Stopping, NoFrames DEF Fail

\* A step that stays in the function that runs, or in the builtin that runs,
\* and calls nothing.
LEMMA InPlace ==
  ASSUME IInv, ScopesTyped', pc' \in Int, Position(curfunc, pc'),
         status \in {"run", "go"}, status' = status,
         UNCHANGED <<stackstack, addrstack, mainfunc, curfunc, gostack, loads>>
  PROVE  IInv'
  <1>1. AddressesTyped' /\ MainTyped' /\ FramesTyped' /\ loads' \in 0 .. MaxLoads
    BY TypeParts DEF IInv, AddressesTyped, MainTyped, FramesTyped
  <1>2. TypeOK'
    BY <1>1, TypeParts, TypePartsNext DEF IInv, Live, Position, Entered
  <1>3. Live /\ Live'
    BY DEF Live
  <1>4. FramesMatch'
    BY <1>3 DEF IInv, StacksMatch, FramesMatch, Entered, Callee, HeightAt
  <1>5. ActivationsMatch'
    BY <1>3 DEF IInv, StacksMatch, ActivationsMatch, Callee, Uppermost, Frame
  <1> QED
    BY <1>2, <1>4, <1>5 DEF IInv, StacksMatch

-----------------------------------------------------------------------------
(* Calls *)

\* A new address is typed.
LEMMA NewAddress ==
  ASSUME TypeOK, NEW p \in Int, Position(curfunc, p + 1), NEW native \in BOOLEAN,
         addrstack' = Append(addrstack, Address(p, native))
  PROVE  /\ AddressesTyped'
         /\ Len(addrstack) \in Nat /\ DOMAIN addrstack = 1 .. Len(addrstack)
         /\ addrstack' # <<>> /\ Len(addrstack') = Len(addrstack) + 1
         /\ DOMAIN addrstack' = 1 .. Len(addrstack) + 1
         /\ \A i \in 1 .. Len(addrstack) : addrstack'[i] = addrstack[i]
         /\ addrstack'[Len(addrstack) + 1] = Address(p, native)
  <1>1. AddressesTyped /\ ScopesTyped /\ curfunc \in Runnable
    BY TypeParts
  <1>2. Len(stackstack) \in Nat /\ Len(scopestack) \in Nat
    BY <1>1, LenProperties DEF ScopesTyped
  <1>3. Address(p, native) \in AddressT
    BY <1>1, <1>2 DEF Address, AddressT
  <1>4. /\ addrstack' \in Seq(AddressT) /\ addrstack' # <<>>
        /\ Len(addrstack') = Len(addrstack) + 1 /\ DOMAIN addrstack' = 1 .. Len(addrstack) + 1
        /\ \A i \in 1 .. Len(addrstack) : addrstack'[i] = addrstack[i]
        /\ addrstack'[Len(addrstack) + 1] = Address(p, native)
    BY <1>1, <1>3, PushPop DEF AddressesTyped
  <1>5. Len(addrstack) \in Nat /\ DOMAIN addrstack = 1 .. Len(addrstack)
    BY <1>1, LenProperties DEF AddressesTyped
  <1>6. \A i \in 1 .. Len(addrstack) + 1 : i \in 1 .. Len(addrstack) \/ i = Len(addrstack) + 1
    BY <1>5
  <1>7. Position(Address(p, native).fn, Address(p, native).pc)
    BY DEF Address
  <1>8. \A i \in DOMAIN addrstack' : Position(addrstack'[i].fn, addrstack'[i].pc)
    BY <1>1, <1>4, <1>5, <1>6, <1>7 DEF AddressesTyped
  <1> QED
    BY <1>4, <1>5, <1>8 DEF AddressesTyped

\* The scopes of a callee are typed.
LEMMA NewScopes ==
  ASSUME ScopesTyped, NEW fn \in Closure, scopestack # <<>>,
         stackstack' = SetAside, nscopes' = nscopes + 1, scopestack' = View(fn)
  PROVE  ScopesTyped' /\ Len(stackstack) \in Nat /\ Len(stackstack') = Len(stackstack) + 1
  <1>1. /\ stackstack' \in Seq(Seq(ScopeId)) /\ Len(stackstack') = Len(stackstack) + 1
        /\ Len(stackstack) \in Nat
    BY PushPop, LenProperties DEF ScopesTyped, SetAside
  <1>2. nscopes + 1 \in ScopeId
    BY DEF ScopesTyped, ScopeId
  <1>3. scopestack[1] \in ScopeId
    BY Popped, ElementOfSeq DEF ScopesTyped
  <1>4. <<scopestack[1]>> \in Seq(ScopeId) /\ <<nscopes + 1>> \in Seq(ScopeId)
    BY <1>2, <1>3
  <1>5. fn.close \in Seq(ScopeId)
    BY ClosureRuns
  <1>6. View(fn) \in Seq(ScopeId)
    BY <1>4, <1>5, ConcatProperties DEF View
  <1> QED
    BY <1>1, <1>2, <1>6 DEF ScopesTyped

\* A push onto addrstack moves the callee up: below it nothing changes.
LEMMA CalleesKept ==
  ASSUME TypeOK, NEW p \in Int, Position(curfunc, p + 1), NEW native \in BOOLEAN,
         addrstack' = Append(addrstack, Address(p, native)),
         NEW i \in 1 .. Len(addrstack) + 1
  PROVE  /\ i \in DOMAIN addrstack => Callee(i)' = Callee(i) /\ HeightAt(i)' = HeightAt(i)
         /\ i \notin DOMAIN addrstack => Callee(i)' = curfunc' /\ HeightAt(i)' = Len(stackstack')
  <1> DEFINE n == Len(addrstack)
             next == addrstack'
             d == DOMAIN addrstack
  <1>1. n \in Nat /\ d = 1 .. n /\ Len(next) = n + 1 /\ i \in 1 .. n + 1
    BY NewAddress
  <1>2. /\ \A j \in 1 .. n : next[j] = addrstack[j]
        /\ next[n + 1].fn = curfunc
        /\ next[n + 1].depth = Len(stackstack)
    BY NewAddress DEF Address
  <1>3. /\ Callee(i) = IF i = n THEN curfunc ELSE addrstack[i + 1].fn
        /\ HeightAt(i) = IF i = n THEN Len(stackstack) ELSE addrstack[i + 1].depth
        /\ Callee(i)' = IF i = Len(next) THEN curfunc' ELSE next[i + 1].fn
        /\ HeightAt(i)' = IF i = Len(next) THEN Len(stackstack') ELSE next[i + 1].depth
    BY DEF Callee, HeightAt
  <1> HIDE DEF n, next, d
  <1>4. /\ i \in d => Callee(i)' = Callee(i) /\ HeightAt(i)' = HeightAt(i)
        /\ i \notin d => Callee(i)' = curfunc' /\ HeightAt(i)' = Len(stackstack')
    <2>1. CASE i = n + 1
      BY <1>1, <1>3, <2>1
    <2>2. CASE i = n
      BY <1>1, <1>2, <1>3, <2>2
    <2>3. CASE i < n
      <3>1. i \in 1 .. n /\ i # n /\ i # n + 1 /\ i + 1 \in 1 .. n
        BY <1>1, <2>3
      <3> QED
        BY <1>1, <1>2, <1>3, <3>1
    <2> QED
      BY <1>1, <2>1, <2>2, <2>3
  <1> QED
    BY <1>4 DEF d

\* ... and main stays at the bottom.
LEMMA MainKept ==
  ASSUME TypeOK, NEW p \in Int, Position(curfunc, p + 1), NEW native \in BOOLEAN,
         addrstack' = Append(addrstack, Address(p, native))
  PROVE  (IF addrstack' = <<>> THEN curfunc' ELSE addrstack'[1].fn)
         = IF addrstack = <<>> THEN curfunc ELSE addrstack[1].fn
  <1>1. addrstack' # <<>>
    BY NewAddress
  <1>2. CASE addrstack = <<>>
    <2>1. addrstack'[Len(addrstack) + 1].fn = curfunc
      BY NewAddress DEF Address
    <2>2. Len(addrstack) = 0
      BY <1>2
    <2> QED
      BY <1>1, <1>2, <2>1, <2>2
  <1>3. CASE addrstack # <<>>
    <2>1. 1 \in 1 .. Len(addrstack)
      BY <1>3, TypeParts, Popped DEF AddressesTyped
    <2>2. addrstack'[1] = addrstack[1]
      BY <2>1, NewAddress
    <2> QED
      BY <1>1, <1>3, <2>2
  <1> QED
    BY <1>2, <1>3

\* What the lemmas above say of a step that pushes an address, and the next
\* one of a step that pops one.
AddressPushed(native) ==
  /\ Len(addrstack) \in Nat /\ DOMAIN addrstack = 1 .. Len(addrstack)
  /\ DOMAIN addrstack' = 1 .. Len(addrstack) + 1 /\ Len(addrstack') = Len(addrstack) + 1
  /\ \A i \in 1 .. Len(addrstack) :
       addrstack'[i] = addrstack[i] /\ Callee(i)' = Callee(i) /\ HeightAt(i)' = HeightAt(i)
  /\ \A i \in 1 .. Len(addrstack) + 1 :
       i = Len(addrstack) + 1 =>
         /\ addrstack'[i].native = native /\ addrstack'[i].depth = Len(stackstack)
         /\ Callee(i)' = curfunc' /\ HeightAt(i)' = Len(stackstack')
  /\ (IF addrstack' = <<>> THEN curfunc' ELSE addrstack'[1].fn)
     = IF addrstack = <<>> THEN curfunc ELSE addrstack[1].fn
  /\ AddressesTyped'

AddressPopped ==
  /\ Len(addrstack) \in Nat \ {0} /\ DOMAIN addrstack = 1 .. Len(addrstack)
  /\ DOMAIN addrstack' = 1 .. Len(addrstack) - 1 /\ Len(addrstack') = Len(addrstack) - 1
  /\ \A i \in 1 .. Len(addrstack) - 1 :
       addrstack'[i] = addrstack[i] /\ Callee(i)' = Callee(i) /\ HeightAt(i)' = HeightAt(i)
  /\ (IF addrstack' = <<>> THEN curfunc' ELSE addrstack'[1].fn)
     = IF addrstack = <<>> THEN curfunc ELSE addrstack[1].fn
  /\ AddressesTyped'

\* Pushing an address leaves what the addresses below it were pushed to call.
LEMMA AddressPush ==
  ASSUME TypeOK, NEW p \in Int, Position(curfunc, p + 1), NEW native \in BOOLEAN,
         addrstack' = Append(addrstack, Address(p, native))
  PROVE  AddressPushed(native)
  <1>1. /\ Len(addrstack) \in Nat /\ DOMAIN addrstack = 1 .. Len(addrstack)
        /\ DOMAIN addrstack' = 1 .. Len(addrstack) + 1 /\ Len(addrstack') = Len(addrstack) + 1
        /\ AddressesTyped'
    BY NewAddress
  <1>2. ASSUME NEW i \in 1 .. Len(addrstack)
        PROVE  addrstack'[i] = addrstack[i] /\ Callee(i)' = Callee(i) /\ HeightAt(i)' = HeightAt(i)
    <2>1. addrstack'[i] = addrstack[i]
      BY NewAddress
    <2>2. i \in 1 .. Len(addrstack) + 1 /\ i \in DOMAIN addrstack
      BY <1>1
    <2> QED
      BY <2>1, <2>2, CalleesKept
  <1>3. ASSUME NEW i \in 1 .. Len(addrstack) + 1, i = Len(addrstack) + 1
        PROVE  /\ addrstack'[i].native = native /\ addrstack'[i].depth = Len(stackstack)
               /\ Callee(i)' = curfunc' /\ HeightAt(i)' = Len(stackstack')
    <2>1. addrstack'[i] = Address(p, native)
      BY <1>3, NewAddress
    <2>2. i \notin DOMAIN addrstack
      BY <1>1, <1>3
    <2>3. Callee(i)' = curfunc' /\ HeightAt(i)' = Len(stackstack')
      BY <2>2, CalleesKept
    <2> QED
      BY <2>1, <2>3 DEF Address
  <1>4. (IF addrstack' = <<>> THEN curfunc' ELSE addrstack'[1].fn)
        = IF addrstack = <<>> THEN curfunc ELSE addrstack[1].fn
    BY MainKept
  <1> QED
    BY <1>1, <1>2, <1>3, <1>4 DEF AddressPushed

\* A pop from addrstack goes back to what the address below it called.
LEMMA CalleesBack ==
  ASSUME TypeOK, addrstack # <<>>, addrstack' = Front(addrstack),
         curfunc' = Last(addrstack).fn, Len(stackstack') = Last(addrstack).depth
  PROVE  /\ AddressPopped
         /\ curfunc' \in Runnable
         /\ pc' = Last(addrstack).pc => pc' \in Int /\ Position(curfunc', pc')
  <1> DEFINE n == Len(addrstack)
             next == addrstack'
  <1>1. /\ n \in Nat \ {0} /\ DOMAIN addrstack = 1 .. n
        /\ Last(addrstack) = addrstack[n] /\ Last(addrstack) \in AddressT
        /\ next \in Seq(AddressT) /\ Len(next) = n - 1 /\ DOMAIN next = 1 .. n - 1
        /\ \A i \in 1 .. n - 1 : next[i] = addrstack[i]
    BY TypeParts, Popped DEF AddressesTyped
  <1>2. \A i \in 1 .. n : Position(addrstack[i].fn, addrstack[i].pc)
    BY <1>1, TypeParts DEF AddressesTyped
  <1>3. ASSUME NEW i \in 1 .. n - 1
        PROVE  Callee(i)' = Callee(i) /\ HeightAt(i)' = HeightAt(i)
    <2>1. /\ Callee(i) = IF i = n THEN curfunc ELSE addrstack[i + 1].fn
          /\ HeightAt(i) = IF i = n THEN Len(stackstack) ELSE addrstack[i + 1].depth
          /\ Callee(i)' = IF i = Len(next) THEN curfunc' ELSE next[i + 1].fn
          /\ HeightAt(i)' = IF i = Len(next) THEN Len(stackstack') ELSE next[i + 1].depth
      BY DEF Callee, HeightAt
    <2>2. curfunc' = addrstack[n].fn /\ Len(stackstack') = addrstack[n].depth
      BY <1>1
    <2> HIDE DEF n, next
    <2>3. CASE i = n - 1
      <3>1. i + 1 = n /\ i # n /\ i = Len(next)
        BY <1>1, <2>3
      <3> QED
        BY <2>1, <2>2, <3>1
    <2>4. CASE i # n - 1
      <3>1. i + 1 \in 1 .. n - 1 /\ i # n /\ i # Len(next)
        BY <1>1, <2>4
      <3> QED
        BY <1>1, <2>1, <3>1
    <2> QED
      BY <2>3, <2>4
  <1>4. next = <<>> => n = 1
    <2> HIDE DEF n, next
    <2>1. next = <<>> => Len(next) = 0
      BY EmptySeq
    <2> QED
      BY <1>1, <2>1
  <1>5. next # <<>> => 1 \in 1 .. n - 1
    BY <1>1, Popped
  <1>6. (IF addrstack' = <<>> THEN curfunc' ELSE addrstack'[1].fn)
        = IF addrstack = <<>> THEN curfunc ELSE addrstack[1].fn
    BY <1>1, <1>4, <1>5
  <1>7. AddressesTyped'
    BY <1>1, <1>2 DEF AddressesTyped
  <1>8. curfunc' \in Runnable /\ (pc' = Last(addrstack).pc => pc' \in Int /\ Position(curfunc', pc'))
    BY <1>1, <1>2 DEF AddressT
  <1> QED
    BY <1>1, <1>3, <1>6, <1>7, <1>8 DEF AddressPopped

\* A script function is entered.
LEMMA ScriptEntered ==
  ASSUME IInv, status \in {"run", "go"}, scopestack # <<>>,
         NEW fn \in Closure, ~fn.f.user, AddressPushed(FALSE),
         stackstack' = SetAside, nscopes' = nscopes + 1, scopestack' = View(fn),
         curfunc' = fn, pc' = 0, status' = "run", UNCHANGED <<gostack, mainfunc, loads>>
  PROVE  IInv'
  <1>1. ScopesTyped' /\ Len(stackstack) \in Nat /\ Len(stackstack') = Len(stackstack) + 1
    BY NewScopes, TypeParts DEF IInv
  <1>2. fn \in Runnable /\ Position(fn, 0) /\ Entered(fn)
    BY ClosureRuns
  <1>3. TypeOK'
    <2>1. MainTyped' /\ FramesTyped' /\ loads' \in 0 .. MaxLoads
      BY TypeParts DEF IInv, MainTyped, FramesTyped
    <2> QED
      BY <1>1, <1>2, <2>1, TypePartsNext DEF AddressPushed
  <1>4. Live /\ Live'
    BY DEF Live
  <1>5. FramesMatch'
    <2>1. mainfunc' = IF addrstack' = <<>> THEN curfunc' ELSE addrstack'[1].fn
      BY <1>4 DEF AddressPushed, IInv, StacksMatch, FramesMatch
    <2>2. ASSUME NEW i \in DOMAIN addrstack'
          PROVE  /\ Entered(Callee(i)') <=> ~addrstack'[i].native
                 /\ HeightAt(i)' = addrstack'[i].depth + (IF addrstack'[i].native THEN 0 ELSE 1)
      <3>1. CASE i = Len(addrstack) + 1
        BY <1>1, <1>2, <3>1 DEF AddressPushed
      <3>2. CASE i \in DOMAIN addrstack
        BY <1>4, <3>2 DEF AddressPushed, IInv, StacksMatch, FramesMatch
      <3> QED
        BY <3>1, <3>2 DEF AddressPushed
    <2> QED
      BY <2>1, <2>2 DEF FramesMatch, Entered
  <1>6. ActivationsMatch'
    <2>1. ASSUME NEW k \in DOMAIN addrstack', addrstack'[k].native
          PROVE  \E j \in DOMAIN gostack : gostack[j].own /\ gostack[j].entry = k
      <3>1. k \in DOMAIN addrstack /\ addrstack[k].native
        BY <2>1 DEF AddressPushed
      <3> QED
        BY <1>4, <3>1 DEF IInv, StacksMatch, ActivationsMatch
    <2>2. ASSUME NEW j \in DOMAIN gostack
          PROVE  /\ gostack[j].entry \in DOMAIN addrstack' /\ addrstack'[gostack[j].entry].native
                 /\ Callee(gostack[j].entry)' = Callee(gostack[j].entry)
      BY <1>4 DEF AddressPushed, IInv, StacksMatch, ActivationsMatch
    <2> QED
      BY <1>4, <2>1, <2>2 DEF IInv, StacksMatch, ActivationsMatch, Uppermost
  <1> QED
    BY <1>3, <1>5, <1>6 DEF IInv, StacksMatch

-----------------------------------------------------------------------------
(* Builtins that run the machine *)

\* What a push of activation a does to the Go stack.
GoPushed(a) ==
  /\ Len(gostack) \in Nat /\ DOMAIN gostack = 1 .. Len(gostack)
  /\ DOMAIN gostack' = 1 .. Len(gostack) + 1 /\ Len(gostack') = Len(gostack) + 1
  /\ \A j \in 1 .. Len(gostack) : gostack'[j] = gostack[j]
  /\ \A j \in 1 .. Len(gostack) + 1 : j = Len(gostack) + 1 => gostack'[j] = a
  /\ gostack' # <<>> /\ FramesTyped'

\* A builtin that runs the machine begins on top of the Go stack.
LEMMA GoPush ==
  ASSUME FramesTyped, NEW a, gostack' = Append(gostack, a),
         a.kind \in ReentrantBuiltins, a.own \in BOOLEAN, a.entry \in Nat
  PROVE  GoPushed(a)
  <1>1. /\ IsSequence(gostack') /\ gostack' # <<>>
        /\ Len(gostack) \in Nat /\ DOMAIN gostack = 1 .. Len(gostack)
        /\ Len(gostack') = Len(gostack) + 1 /\ DOMAIN gostack' = 1 .. Len(gostack) + 1
        /\ \A j \in 1 .. Len(gostack) : gostack'[j] = gostack[j]
        /\ gostack'[Len(gostack) + 1] = a
    BY UntypedPush DEF FramesTyped
  <1>2. ASSUME NEW j \in DOMAIN gostack'
        PROVE  /\ gostack'[j].kind \in ReentrantBuiltins /\ gostack'[j].own \in BOOLEAN
               /\ gostack'[j].entry \in Nat
    <2>1. CASE j \in DOMAIN gostack
      BY <1>1, <2>1 DEF FramesTyped
    <2>2. CASE j = Len(gostack) + 1
      BY <1>1, <2>2
    <2>3. j \in DOMAIN gostack \/ j = Len(gostack) + 1
      <3> DEFINE n == Len(gostack)
                 d == DOMAIN gostack
                 e == DOMAIN gostack'
      <3>1. n \in Nat /\ d = 1 .. n /\ e = 1 .. n + 1 /\ j \in e
        BY <1>1
      <3> HIDE DEF n, d, e
      <3>2. j \in d \/ j = n + 1
        BY <3>1
      <3> QED
        BY <3>2 DEF d, n
    <2> QED
      BY <2>1, <2>2, <2>3
  <1> QED
    BY <1>1, <1>2 DEF GoPushed, FramesTyped

\* CallUserFunction enters such a builtin.
LEMMA BuiltinEntered ==
  ASSUME IInv, status = "run", AddressPushed(TRUE),
         NEW a, GoPushed(a), a.own = TRUE, a.entry = Len(addrstack) + 1,
         curfunc' \in Runnable, curfunc'.f.user, pc' = -1, status' = "go",
         UNCHANGED <<scopestack, stackstack, nscopes, mainfunc, loads>>
  PROVE  IInv'
  <1>1. Live /\ Live'
    BY DEF Live
  <1>2. TypeOK'
    <2>1. ScopesTyped' /\ MainTyped' /\ loads' \in 0 .. MaxLoads
      BY TypeParts DEF IInv, ScopesTyped, MainTyped
    <2> QED
      BY <2>1, TypePartsNext DEF AddressPushed, GoPushed, Position
  <1>3. FramesMatch'
    <2>1. mainfunc' = IF addrstack' = <<>> THEN curfunc' ELSE addrstack'[1].fn
      BY <1>1 DEF AddressPushed, IInv, StacksMatch, FramesMatch
    <2>2. Len(stackstack) \in Nat
      BY TypeParts, LenProperties DEF IInv, ScopesTyped
    <2>3. ASSUME NEW i \in DOMAIN addrstack'
          PROVE  /\ Entered(Callee(i)') <=> ~addrstack'[i].native
                 /\ HeightAt(i)' = addrstack'[i].depth + (IF addrstack'[i].native THEN 0 ELSE 1)
      <3>1. CASE i = Len(addrstack) + 1
        BY <2>2, <3>1 DEF AddressPushed, Entered
      <3>2. CASE i \in DOMAIN addrstack
        BY <1>1, <3>2 DEF AddressPushed, IInv, StacksMatch, FramesMatch
      <3> QED
        BY <3>1, <3>2 DEF AddressPushed
    <2> QED
      BY <2>1, <2>3 DEF FramesMatch, Entered
  <1>4. ActivationsMatch'
    <2>1. ASSUME NEW k \in DOMAIN addrstack', addrstack'[k].native
          PROVE  \E j \in DOMAIN gostack' : gostack'[j].own /\ gostack'[j].entry = k
      <3>1. CASE k = Len(addrstack) + 1
        BY <3>1 DEF GoPushed
      <3>2. CASE k \in DOMAIN addrstack
        <4>1. \E j \in DOMAIN gostack : gostack[j].own /\ gostack[j].entry = k
          BY <1>1, <2>1, <3>2 DEF AddressPushed, IInv, StacksMatch, ActivationsMatch
        <4> QED
          BY <4>1 DEF GoPushed
      <3> QED
        BY <3>1, <3>2 DEF AddressPushed
    <2>2. ASSUME NEW j \in DOMAIN gostack'
          PROVE  /\ gostack'[j].entry \in DOMAIN addrstack' /\ addrstack'[gostack'[j].entry].native
                 /\ ~gostack'[j].own => j > 1 /\ gostack'[j - 1].entry = gostack'[j].entry
                 /\ \A i \in 1 .. j - 1 :
                      /\ gostack'[i].entry <= gostack'[j].entry
                      /\ gostack'[j].own => gostack'[i].entry < gostack'[j].entry
                 /\ Uppermost(j)' /\ ~(Callee(gostack[j].entry)').f.user => gostack'[j].kind = "source-file"
      <3>1. CASE j = Len(gostack) + 1
        <4>1. gostack'[j] = a /\ \A i \in 1 .. j - 1 : i \in DOMAIN gostack /\ gostack'[i] = gostack[i]
          BY <3>1 DEF GoPushed
        <4>2. /\ gostack'[j].entry \in DOMAIN addrstack' /\ addrstack'[gostack'[j].entry].native
              /\ (Callee(gostack[j].entry)').f.user
          BY <3>1, <4>1 DEF AddressPushed
        <4>3. \A i \in 1 .. j - 1 : gostack'[i].entry \in DOMAIN addrstack
          BY <1>1, <4>1 DEF IInv, StacksMatch, ActivationsMatch
        <4>4. \A i \in 1 .. j - 1 : gostack'[i].entry < gostack'[j].entry
          BY <4>1, <4>3 DEF AddressPushed
        <4> QED
          BY <4>1, <4>2, <4>3, <4>4 DEF AddressPushed
      <3>2. CASE j \in DOMAIN gostack
        <4>1. gostack'[j] = gostack[j] /\ \A i \in 1 .. j - 1 : i \in DOMAIN gostack /\ gostack'[i] = gostack[i]
          BY <3>2 DEF GoPushed
        <4>2. /\ gostack[j].entry \in DOMAIN addrstack /\ addrstack[gostack[j].entry].native
              /\ ~gostack[j].own => j > 1 /\ gostack[j - 1].entry = gostack[j].entry
              /\ \A i \in 1 .. j - 1 :
                   /\ gostack[i].entry <= gostack[j].entry
                   /\ gostack[j].own => gostack[i].entry < gostack[j].entry
              /\ Uppermost(j) /\ ~Callee(gostack[j].entry).f.user => gostack[j].kind = "source-file"
          BY <1>1, <3>2 DEF IInv, StacksMatch, ActivationsMatch
        <4>3. j > 1 => j - 1 \in 1 .. j - 1
          BY <3>2 DEF GoPushed
        <4>4. /\ gostack'[j].entry \in DOMAIN addrstack' /\ addrstack'[gostack'[j].entry].native
              /\ (Callee(gostack[j].entry))' = Callee(gostack[j].entry)
          BY <4>1, <4>2 DEF AddressPushed
        <4>5. Uppermost(j)' => Uppermost(j)
          <5>1. j = Len(gostack) \/ (j # Len(gostack') /\ gostack'[j + 1] = gostack[j + 1])
            BY <3>2 DEF GoPushed
          <5> QED
            BY <5>1 DEF Uppermost
        <4> QED
          BY <4>1, <4>2, <4>3, <4>4, <4>5
      <3> QED
        BY <3>1, <3>2 DEF GoPushed
    <2>3. gostack' # <<>> /\ Frame'.entry = Len(addrstack') /\ curfunc'.f.user
      BY DEF GoPushed, AddressPushed, Frame, Last
    <2> QED
      BY <2>1, <2>2, <2>3 DEF ActivationsMatch
  <1> QED
    BY <1>2, <1>3, <1>4 DEF IInv, StacksMatch

\* Such a builtin applies another: both run on the same address.
LEMMA BuiltinApplied ==
  ASSUME IInv, status = "go", NEW a, GoPushed(a), a.own = FALSE, a.entry = Len(addrstack),
         UNCHANGED <<scopestack, stackstack, nscopes, addrstack, curfunc, pc, status, mainfunc, loads>>
  PROVE  IInv'
  <1>1. Live /\ Live'
    BY DEF Live
  <1>2. TypeOK'
    BY TypeParts, TypePartsNext DEF IInv, Live, ScopesTyped, AddressesTyped, MainTyped, GoPushed, Position, Entered
  <1>3. FramesMatch'
    BY <1>1 DEF IInv, StacksMatch, FramesMatch, Callee, HeightAt, Entered
  <1>4. /\ Len(gostack) \in Nat \ {0} /\ gostack[Len(gostack)].entry = Len(addrstack)
        /\ Len(addrstack) \in DOMAIN addrstack /\ addrstack[Len(addrstack)].native /\ curfunc.f.user
    BY DEF GoPushed, IInv, StacksMatch, ActivationsMatch, Live, Frame, Last
  <1>5. \A i \in DOMAIN addrstack : Callee(i)' = Callee(i)
    BY DEF Callee
  <1>6. ASSUME NEW j \in DOMAIN gostack
        PROVE  /\ gostack[j].entry \in DOMAIN addrstack /\ addrstack[gostack[j].entry].native
               /\ ~gostack[j].own => j > 1 /\ gostack[j - 1].entry = gostack[j].entry
               /\ \A i \in 1 .. j - 1 :
                    /\ gostack[i].entry <= gostack[j].entry
                    /\ gostack[j].own => gostack[i].entry < gostack[j].entry
               /\ Uppermost(j) /\ ~Callee(gostack[j].entry).f.user => gostack[j].kind = "source-file"
    BY <1>1 DEF IInv, StacksMatch, ActivationsMatch
  <1>7. ASSUME NEW k \in DOMAIN addrstack', addrstack'[k].native
        PROVE  \E j \in DOMAIN gostack' : gostack'[j].own /\ gostack'[j].entry = k
    <2>1. \E j \in DOMAIN gostack : gostack[j].own /\ gostack[j].entry = k
      BY <1>1, <1>7 DEF IInv, StacksMatch, ActivationsMatch
    <2> QED
      BY <2>1 DEF GoPushed
  <1>8. ASSUME NEW j \in DOMAIN gostack'
        PROVE  /\ gostack'[j].entry \in DOMAIN addrstack' /\ addrstack'[gostack'[j].entry].native
               /\ ~gostack'[j].own => j > 1 /\ gostack'[j - 1].entry = gostack'[j].entry
               /\ \A i \in 1 .. j - 1 :
                    /\ gostack'[i].entry <= gostack'[j].entry
                    /\ gostack'[j].own => gostack'[i].entry < gostack'[j].entry
               /\ Uppermost(j)' /\ ~(Callee(gostack[j].entry)').f.user => gostack'[j].kind = "source-file"
    <2>1. CASE j = Len(gostack) + 1
      <3>1. gostack'[j] = a /\ \A i \in 1 .. j - 1 : i \in DOMAIN gostack /\ gostack'[i] = gostack[i]
        BY <2>1 DEF GoPushed
      <3>2. /\ gostack'[j].entry = Len(addrstack) /\ ~gostack'[j].own
            /\ (Callee(gostack[j].entry))' = curfunc
        BY <3>1 DEF Callee
      <3>3. j - 1 \in 1 .. j - 1 /\ j - 1 = Len(gostack) /\ j > 1
        BY <1>4, <2>1
      <3>4. gostack'[j - 1].entry = Len(addrstack)
        BY <1>4, <3>1, <3>3
      <3>5. \A i \in 1 .. j - 1 : gostack'[i].entry \in DOMAIN addrstack
        BY <1>6, <3>1
      <3>6. \A i \in 1 .. j - 1 : gostack'[i].entry <= Len(addrstack)
        BY <3>5, TypeParts, LenProperties DEF IInv, AddressesTyped
      <3> QED
        BY <1>4, <3>2, <3>3, <3>4, <3>6
    <2>2. CASE j \in DOMAIN gostack
      <3>1. gostack'[j] = gostack[j] /\ \A i \in 1 .. j - 1 : i \in DOMAIN gostack /\ gostack'[i] = gostack[i]
        BY <2>2 DEF GoPushed
      <3>2. j > 1 => j - 1 \in 1 .. j - 1
        BY <2>2 DEF GoPushed
      <3>3. (Callee(gostack[j].entry))' = Callee(gostack[j].entry)
        BY <1>5, <1>6, <2>2, <3>1
      <3>4. Uppermost(j)' /\ ~Callee(gostack[j].entry).f.user => Uppermost(j)
        <4>1. CASE j = Len(gostack)
          BY <4>1 DEF Uppermost
        <4>2. CASE j # Len(gostack)
          <5>1. j # Len(gostack') /\ gostack'[j + 1] = gostack[j + 1]
            BY <2>2, <4>2 DEF GoPushed
          <5> QED
            BY <5>1 DEF Uppermost
        <4> QED
          BY <4>1, <4>2
      <3> QED
        BY <1>6, <2>2, <3>1, <3>2, <3>3, <3>4
    <2> QED
      BY <2>1, <2>2 DEF GoPushed
  <1>9. Frame'.entry = Len(addrstack)
    BY DEF GoPushed, Frame, Last
  <1>10. ActivationsMatch'
    BY <1>4, <1>7, <1>8, <1>9 DEF ActivationsMatch, GoPushed
  <1> QED
    BY <1>2, <1>3, <1>10 DEF IInv, StacksMatch

\* The Go stack with another last activation that differs in what it has done.
GoKept ==
  /\ DOMAIN gostack' = DOMAIN gostack /\ Len(gostack') = Len(gostack) /\ gostack' # <<>>
  /\ \A j \in DOMAIN gostack :
       /\ gostack'[j].kind = gostack[j].kind /\ gostack'[j].own = gostack[j].own
       /\ gostack'[j].entry = gostack[j].entry
  /\ FramesTyped'

\* The Go stack without its last activation.
GoPopped ==
  /\ Len(gostack) \in Nat \ {0} /\ DOMAIN gostack = 1 .. Len(gostack)
  /\ DOMAIN gostack' = 1 .. Len(gostack) - 1 /\ Len(gostack') = Len(gostack) - 1
  /\ \A j \in 1 .. Len(gostack) - 1 :
       /\ gostack'[j].kind = gostack[j].kind /\ gostack'[j].own = gostack[j].own
       /\ gostack'[j].entry = gostack[j].entry
  /\ FramesTyped'

\* A stack with another last element.
LEMMA Replaced ==
  ASSUME NEW s, IsSequence(s), s # <<>>, NEW e
  PROVE  /\ IsSequence(Append(Front(s), e)) /\ Append(Front(s), e) # <<>>
         /\ Len(s) \in Nat \ {0} /\ DOMAIN s = 1 .. Len(s)
         /\ Len(Append(Front(s), e)) = Len(s) /\ DOMAIN Append(Front(s), e) = DOMAIN s
         /\ \A i \in 1 .. Len(s) - 1 : Append(Front(s), e)[i] = s[i]
         /\ Append(Front(s), e)[Len(s)] = e
  <1>1. /\ IsSequence(Front(s)) /\ Len(s) \in Nat \ {0} /\ DOMAIN s = 1 .. Len(s)
        /\ Len(Front(s)) = Len(s) - 1 /\ \A i \in 1 .. Len(s) - 1 : Front(s)[i] = s[i]
    BY UntypedPop
  <1> DEFINE f == Front(s)
  <1>2. IsSequence(f) /\ Len(f) = Len(s) - 1 /\ Len(f) + 1 = Len(s)
    BY <1>1
  <1> HIDE DEF f
  <1>3. /\ IsSequence(Append(f, e)) /\ Append(f, e) # <<>>
        /\ Len(Append(f, e)) = Len(f) + 1 /\ DOMAIN Append(f, e) = 1 .. Len(f) + 1
        /\ \A i \in 1 .. Len(f) : Append(f, e)[i] = f[i]
        /\ Append(f, e)[Len(f) + 1] = e
    BY <1>2, UntypedPush
  <1> QED
    BY <1>1, <1>2, <1>3 DEF f

\* A builtin that gets a value stays the same builtin, called the same way (Feed).
LEMMA FeedKeeps ==
  ASSUME NEW frame, NEW v
  PROVE  /\ Feed(frame, v).kind = frame.kind /\ Feed(frame, v).own = frame.own
         /\ Feed(frame, v).entry = frame.entry
  BY DEF Feed

\* The last activation goes on.
LEMMA GoOn ==
  ASSUME FramesTyped, gostack # <<>>, NEW e, gostack' = Append(Front(gostack), e),
         e.kind = Frame.kind, e.own = Frame.own, e.entry = Frame.entry
  PROVE  GoKept
  <1> DEFINE n == Len(gostack)
             next == gostack'
  <1>1. /\ IsSequence(next) /\ next # <<>> /\ n \in Nat \ {0} /\ DOMAIN gostack = 1 .. n
        /\ Len(next) = n /\ DOMAIN next = DOMAIN gostack
        /\ \A j \in 1 .. n - 1 : next[j] = gostack[j]
        /\ next[n] = e
    BY Replaced DEF FramesTyped
  <1>2. Frame = gostack[n]
    BY DEF Frame, Last
  <1> HIDE DEF n, next
  <1>3. ASSUME NEW j \in 1 .. n
        PROVE  next[j].kind = gostack[j].kind /\ next[j].own = gostack[j].own /\ next[j].entry = gostack[j].entry
    <2>1. CASE j = n
      BY <1>1, <1>2, <2>1
    <2>2. CASE j # n
      BY <1>1, <2>2
    <2> QED
      BY <2>1, <2>2
  <1>4. FramesTyped'
    BY <1>1, <1>3 DEF FramesTyped, next
  <1> QED
    BY <1>1, <1>3, <1>4 DEF GoKept, n, next

\* The last activation gets the value its application returned.
LEMMA GoFeed ==
  ASSUME FramesTyped, gostack # <<>>, NEW v, gostack' = Append(Front(gostack), Feed(Frame, v))
  PROVE  GoKept
  BY FeedKeeps, GoOn

\* The last activation returns to CallUserFunction.
LEMMA GoPop ==
  ASSUME FramesTyped, gostack # <<>>, gostack' = Front(gostack)
  PROVE  GoPopped
  <1> DEFINE n == Len(gostack)
             next == gostack'
  <1>1. /\ IsSequence(next) /\ n \in Nat \ {0} /\ DOMAIN gostack = 1 .. n
        /\ Len(next) = n - 1 /\ DOMAIN next = 1 .. n - 1
        /\ \A j \in 1 .. n - 1 : next[j] = gostack[j]
    BY UntypedPop DEF FramesTyped
  <1>2. FramesTyped'
    BY <1>1 DEF FramesTyped
  <1> QED
    BY <1>1, <1>2 DEF GoPopped

\* A stack without its last element and with another one before it.
LEMMA ReplacedBelow ==
  ASSUME NEW s, IsSequence(s), s # <<>>, Front(s) # <<>>, NEW e
  PROVE  /\ IsSequence(Append(Front(Front(s)), e)) /\ Append(Front(Front(s)), e) # <<>>
         /\ Len(s) \in Nat \ {0} /\ DOMAIN s = 1 .. Len(s)
         /\ Len(Append(Front(Front(s)), e)) = Len(s) - 1
         /\ DOMAIN Append(Front(Front(s)), e) = 1 .. Len(s) - 1
         /\ \A i \in 1 .. Len(s) - 2 : Append(Front(Front(s)), e)[i] = s[i]
         /\ Append(Front(Front(s)), e)[Len(s) - 1] = e
         /\ Last(Front(s)) = s[Len(s) - 1]
  <1> DEFINE b == Front(s)
  <1>1. /\ IsSequence(b) /\ b # <<>> /\ Len(s) \in Nat \ {0} /\ DOMAIN s = 1 .. Len(s)
        /\ Len(b) = Len(s) - 1 /\ \A i \in 1 .. Len(s) - 1 : b[i] = s[i]
    BY UntypedPop
  <1> HIDE DEF b
  <1>2. /\ IsSequence(Append(Front(b), e)) /\ Append(Front(b), e) # <<>>
        /\ Len(b) \in Nat \ {0} /\ DOMAIN b = 1 .. Len(b)
        /\ Len(Append(Front(b), e)) = Len(b) /\ DOMAIN Append(Front(b), e) = DOMAIN b
        /\ \A i \in 1 .. Len(b) - 1 : Append(Front(b), e)[i] = b[i]
        /\ Append(Front(b), e)[Len(b)] = e
    BY <1>1, Replaced
  <1>3. Last(b) = b[Len(b)]
    BY DEF Last
  <1> DEFINE t == Append(Front(b), e)
  <1>4. /\ IsSequence(t) /\ t # <<>> /\ Len(t) = Len(b) /\ DOMAIN t = 1 .. Len(b) /\ Len(b) \in Nat \ {0}
        /\ \A i \in 1 .. Len(b) - 1 : t[i] = b[i]
        /\ t[Len(b)] = e
    BY <1>2
  <1> HIDE DEF t
  <1>5. /\ Len(t) = Len(s) - 1 /\ DOMAIN t = 1 .. Len(s) - 1
        /\ t[Len(s) - 1] = e /\ Last(b) = s[Len(s) - 1]
    <2>1. Len(s) - 1 \in 1 .. Len(s) - 1
      BY <1>1, <1>4
    <2> QED
      BY <1>1, <1>3, <1>4, <2>1
  <1>6. ASSUME NEW i \in 1 .. Len(s) - 2 PROVE t[i] = s[i]
    <2>1. i \in 1 .. Len(s) - 1 /\ i \in 1 .. Len(b) - 1
      BY <1>1
    <2> QED
      BY <1>1, <1>4, <2>1
  <1> QED
    BY <1>1, <1>4, <1>5, <1>6 DEF t, b

\* The last activation returns to the builtin that applied it.
LEMMA GoPopFeed ==
  ASSUME FramesTyped, gostack # <<>>, Front(gostack) # <<>>, NEW v,
         gostack' = Append(Front(Front(gostack)), Feed(Last(Front(gostack)), v))
  PROVE  GoPopped /\ gostack' # <<>>
  <1> DEFINE n == Len(gostack)
             next == gostack'
  <1>1. /\ IsSequence(next) /\ next # <<>> /\ n \in Nat \ {0} /\ DOMAIN gostack = 1 .. n
        /\ Len(next) = n - 1 /\ DOMAIN next = 1 .. n - 1
        /\ \A j \in 1 .. n - 2 : next[j] = gostack[j]
        /\ next[n - 1] = Feed(gostack[n - 1], v)
    BY ReplacedBelow DEF FramesTyped
  <1> HIDE DEF n, next
  <1>2. ASSUME NEW j \in 1 .. n - 1
        PROVE  next[j].kind = gostack[j].kind /\ next[j].own = gostack[j].own /\ next[j].entry = gostack[j].entry
    <2>1. CASE j = n - 1
      BY <1>1, <2>1, FeedKeeps
    <2>2. CASE j # n - 1
      <3>1. j \in 1 .. n - 2
        BY <1>1, <2>2
      <3> QED
        BY <1>1, <3>1
    <2> QED
      BY <2>1, <2>2
  <1>3. FramesTyped'
    <2>1. \A j \in 1 .. n - 1 : gostack[j].kind \in ReentrantBuiltins /\ gostack[j].own \in BOOLEAN /\ gostack[j].entry \in Nat
      BY <1>1 DEF FramesTyped
    <2> QED
      BY <1>1, <1>2, <2>1 DEF FramesTyped, next
  <1> QED
    BY <1>1, <1>2, <1>3 DEF GoPopped, n, next

\* What ActivationsMatch says of activation j.
Matched(j) ==
  /\ gostack[j].entry \in DOMAIN addrstack /\ addrstack[gostack[j].entry].native
  /\ ~gostack[j].own => j > 1 /\ gostack[j - 1].entry = gostack[j].entry
  /\ \A i \in 1 .. j - 1 :
       /\ gostack[i].entry <= gostack[j].entry
       /\ gostack[j].own => gostack[i].entry < gostack[j].entry
  /\ Uppermost(j) /\ ~Callee(gostack[j].entry).f.user => gostack[j].kind = "source-file"

\* ActivationsMatch, activation by activation.
LEMMA ActivationParts ==
  ActivationsMatch <=>
    (Live =>
      /\ \A k \in DOMAIN addrstack :
           addrstack[k].native => \E j \in DOMAIN gostack : gostack[j].own /\ gostack[j].entry = k
      /\ \A j \in DOMAIN gostack : Matched(j)
      /\ status = "go" => gostack # <<>> /\ Frame.entry = Len(addrstack) /\ curfunc.f.user
      /\ status = "idle" => gostack = <<>> /\ addrstack = <<>> /\ curfunc = mainfunc)
  BY DEF ActivationsMatch, Matched

\* ActivationsMatch of the next state, activation by activation.
LEMMA ActivationPartsNext ==
  ActivationsMatch' <=>
    (Live' =>
      /\ \A k \in DOMAIN addrstack' :
           addrstack'[k].native => \E j \in DOMAIN gostack' : gostack'[j].own /\ gostack'[j].entry = k
      /\ \A j \in DOMAIN gostack' : Matched(j)'
      /\ status' = "go" => gostack' # <<>> /\ Frame'.entry = Len(addrstack') /\ curfunc'.f.user
      /\ status' = "idle" => gostack' = <<>> /\ addrstack' = <<>> /\ curfunc' = mainfunc')
  BY DEF ActivationsMatch, Matched

\* The step from the end of a nested run, or from one application to the next,
\* to the builtin it belongs to.
LEMMA BackToBuiltin ==
  ASSUME IInv, Live, GoKept, Frame.entry = Len(addrstack), gostack # <<>>,
         curfunc' \in Runnable, curfunc'.f.user, addrstack # <<>>, pc' = -1, status' = "go",
         UNCHANGED <<scopestack, stackstack, nscopes, addrstack, mainfunc, loads>>
  PROVE  IInv'
  <1>1. Live'
    BY DEF Live
  <1>2. TypeOK'
    BY TypeParts, TypePartsNext DEF IInv, ScopesTyped, AddressesTyped, MainTyped, GoKept, Position
  <1>3. Len(addrstack) \in DOMAIN addrstack /\ Len(gostack) \in DOMAIN gostack /\ Frame = gostack[Len(gostack)]
    BY TypeParts, Popped, UntypedPop DEF IInv, AddressesTyped, FramesTyped, Frame, Last
  <1>4. \A i \in DOMAIN addrstack : HeightAt(i)' = HeightAt(i) /\ Callee(i)' = IF i = Len(addrstack) THEN curfunc' ELSE Callee(i)
    BY DEF Callee, HeightAt
  <1>5. \A j \in DOMAIN gostack : Matched(j)
    BY ActivationParts DEF IInv, StacksMatch
  <1>6. addrstack[Len(addrstack)].native
    BY <1>3, <1>5 DEF Matched
  <1>7. FramesMatch'
    <2>1. mainfunc' = IF addrstack' = <<>> THEN curfunc' ELSE addrstack'[1].fn
      BY DEF IInv, StacksMatch, FramesMatch
    <2>2. \A i \in DOMAIN addrstack' :
            /\ Entered(Callee(i)') <=> ~addrstack'[i].native
            /\ HeightAt(i)' = addrstack'[i].depth + (IF addrstack'[i].native THEN 0 ELSE 1)
      BY <1>4, <1>6 DEF IInv, StacksMatch, FramesMatch, Entered
    <2> QED
      BY <2>1, <2>2 DEF FramesMatch, Entered
  <1>8. ASSUME NEW k \in DOMAIN addrstack', addrstack'[k].native
        PROVE  \E j \in DOMAIN gostack' : gostack'[j].own /\ gostack'[j].entry = k
    <2>1. \E j \in DOMAIN gostack : gostack[j].own /\ gostack[j].entry = k
      BY <1>8 DEF IInv, StacksMatch, ActivationsMatch
    <2> QED
      BY <2>1 DEF GoKept
  <1>9. ASSUME NEW j \in DOMAIN gostack'
        PROVE  Matched(j)'
    <2>1. Len(gostack) \in Nat /\ DOMAIN gostack = 1 .. Len(gostack) /\ j \in DOMAIN gostack
      BY TypeParts, UntypedPop DEF IInv, FramesTyped, GoKept
    <2>2. /\ gostack'[j].kind = gostack[j].kind /\ gostack'[j].own = gostack[j].own
          /\ gostack'[j].entry = gostack[j].entry
      BY <2>1 DEF GoKept
    <2>3. \A i \in 1 .. j - 1 : i \in DOMAIN gostack /\ gostack'[i].entry = gostack[i].entry
      BY <2>1 DEF GoKept
    <2>4. j > 1 => j - 1 \in 1 .. j - 1
      BY <2>1
    <2>5. Uppermost(j)' <=> Uppermost(j)
      <3>1. j # Len(gostack) => j + 1 \in DOMAIN gostack
        BY <2>1
      <3> QED
        BY <3>1 DEF Uppermost, GoKept
    <2>6. (Callee(gostack[j].entry))' = IF gostack[j].entry = Len(addrstack) THEN curfunc' ELSE Callee(gostack[j].entry)
      BY <1>4, <1>5, <2>1, <2>2 DEF Matched
    <2> QED
      BY <1>5, <2>1, <2>2, <2>3, <2>4, <2>5, <2>6 DEF Matched
  <1>10. gostack' # <<>> /\ Frame'.entry = Len(addrstack')
    BY <1>3 DEF GoKept, Frame, Last
  <1>11. ActivationsMatch'
    BY <1>8, <1>9, <1>10, ActivationPartsNext
  <1> QED
    BY <1>2, <1>7, <1>11 DEF IInv, StacksMatch

\* source-file runs a file in its own place.
LEMMA SourceEntered ==
  ASSUME IInv, status = "go", Frame.kind = "source-file",
         NEW code \in TopLevelCode, curfunc' = Script("__source", code), pc' = 0, status' = "run",
         UNCHANGED <<scopestack, stackstack, nscopes, addrstack, gostack, mainfunc, loads>>
  PROVE  IInv'
  <1>1. Live /\ Live'
    BY DEF Live
  <1>2. curfunc' \in Runnable /\ Position(curfunc', 0) /\ ~Entered(curfunc')
    BY ScriptRuns DEF TopLevel
  <1>3. TypeOK'
    BY <1>2, TypeParts, TypePartsNext DEF IInv, ScopesTyped, AddressesTyped, MainTyped, FramesTyped
  <1>4. /\ gostack # <<>> /\ Frame.entry = Len(addrstack)
        /\ \A j \in DOMAIN gostack : Matched(j)
    BY <1>1, ActivationParts DEF IInv, StacksMatch
  <1>5. /\ Len(gostack) \in Nat \ {0} /\ DOMAIN gostack = 1 .. Len(gostack)
        /\ Frame = gostack[Len(gostack)]
    BY <1>4, TypeParts, UntypedPop DEF IInv, FramesTyped, Frame
  <1>6. Len(addrstack) \in DOMAIN addrstack /\ addrstack[Len(addrstack)].native /\ addrstack # <<>>
    BY <1>4, <1>5 DEF Matched
  <1>7. \A i \in DOMAIN addrstack : HeightAt(i)' = HeightAt(i) /\ Callee(i)' = IF i = Len(addrstack) THEN curfunc' ELSE Callee(i)
    BY DEF Callee, HeightAt
  <1>8. FramesMatch'
    <2>1. mainfunc' = IF addrstack' = <<>> THEN curfunc' ELSE addrstack'[1].fn
      BY <1>1, <1>6 DEF IInv, StacksMatch, FramesMatch
    <2>2. \A i \in DOMAIN addrstack' :
            /\ Entered(Callee(i)') <=> ~addrstack'[i].native
            /\ HeightAt(i)' = addrstack'[i].depth + (IF addrstack'[i].native THEN 0 ELSE 1)
      BY <1>1, <1>2, <1>6, <1>7 DEF IInv, StacksMatch, FramesMatch, Entered
    <2> QED
      BY <2>1, <2>2 DEF FramesMatch, Entered
  <1>9. ASSUME NEW j \in DOMAIN gostack'
        PROVE  Matched(j)'
    <2>1. (Callee(gostack[j].entry))' = IF gostack[j].entry = Len(addrstack) THEN curfunc' ELSE Callee(gostack[j].entry)
      BY <1>4, <1>7 DEF Matched
    <2>2. Uppermost(j) /\ gostack[j].entry = Len(addrstack) => gostack[j] = Frame
      <3>1. SUFFICES ASSUME gostack[j].entry = Len(addrstack), j # Len(gostack), gostack[j + 1].own
                     PROVE  FALSE
        BY <1>5 DEF Uppermost
      <3>2. j + 1 \in DOMAIN gostack /\ j \in 1 .. j + 1 - 1
        BY <1>5, <3>1
      <3>3. gostack[j].entry < gostack[j + 1].entry /\ gostack[j + 1].entry \in DOMAIN addrstack
        BY <1>4, <3>1, <3>2 DEF Matched
      <3>4. Len(addrstack) \in Nat /\ DOMAIN addrstack = 1 .. Len(addrstack)
        BY TypeParts, LenProperties DEF IInv, AddressesTyped
      <3> QED
        BY <3>1, <3>3, <3>4
    <2> QED
      BY <1>4, <2>1, <2>2 DEF Matched, Uppermost
  <1>10. ActivationsMatch'
    BY <1>1, <1>9, ActivationParts, ActivationPartsNext DEF IInv, StacksMatch
  <1> QED
    BY <1>3, <1>8, <1>10 DEF IInv, StacksMatch

\* CallUserFunction's builtin returns.
LEMMA BuiltinLeft ==
  ASSUME IInv, status = "go", Frame.own, GoPopped, AddressPopped,
         curfunc' \in Runnable, pc' \in Int, Position(curfunc', pc'), status' = "run",
         UNCHANGED <<scopestack, stackstack, nscopes, mainfunc, loads>>
  PROVE  IInv'
  <1>1. Live /\ Live'
    BY DEF Live
  <1>2. TypeOK'
    BY TypeParts, TypePartsNext DEF IInv, ScopesTyped, MainTyped, GoPopped, AddressPopped
  <1>3. FramesMatch'
    <2>1. mainfunc' = IF addrstack' = <<>> THEN curfunc' ELSE addrstack'[1].fn
      BY <1>1 DEF AddressPopped, IInv, StacksMatch, FramesMatch
    <2>2. ASSUME NEW i \in DOMAIN addrstack'
          PROVE  /\ Entered(Callee(i)') <=> ~addrstack'[i].native
                 /\ HeightAt(i)' = addrstack'[i].depth + (IF addrstack'[i].native THEN 0 ELSE 1)
      <3>1. i \in DOMAIN addrstack /\ addrstack'[i] = addrstack[i] /\ Callee(i)' = Callee(i) /\ HeightAt(i)' = HeightAt(i)
        BY DEF AddressPopped
      <3> QED
        BY <1>1, <3>1 DEF IInv, StacksMatch, FramesMatch
    <2> QED
      BY <2>1, <2>2 DEF FramesMatch, Entered
  <1>4. /\ Frame.entry = Len(addrstack) /\ Frame = gostack[Len(gostack)]
        /\ \A j \in DOMAIN gostack : Matched(j)
    BY <1>1, ActivationParts DEF IInv, StacksMatch, Frame, Last
  <1>5. \A j \in DOMAIN gostack' : j \in DOMAIN gostack /\ gostack[j].entry < Len(addrstack)
    <2>1. Len(gostack) \in DOMAIN gostack /\ \A j \in DOMAIN gostack' : j \in DOMAIN gostack /\ j \in 1 .. Len(gostack) - 1
      BY DEF GoPopped
    <2> QED
      BY <1>4, <2>1 DEF Matched
  <1>6. ASSUME NEW k \in DOMAIN addrstack', addrstack'[k].native
        PROVE  \E j \in DOMAIN gostack' : gostack'[j].own /\ gostack'[j].entry = k
    <2>1. k \in DOMAIN addrstack /\ addrstack[k].native /\ k # Len(addrstack)
      BY <1>6 DEF AddressPopped
    <2>2. PICK j \in DOMAIN gostack : gostack[j].own /\ gostack[j].entry = k
      BY <1>1, <2>1 DEF IInv, StacksMatch, ActivationsMatch
    <2>3. j \in DOMAIN gostack'
      BY <1>4, <2>1, <2>2 DEF GoPopped
    <2> QED
      BY <2>2, <2>3 DEF GoPopped
  <1>7. ASSUME NEW j \in DOMAIN gostack'
        PROVE  Matched(j)'
    <2>1. j \in DOMAIN gostack /\ gostack[j].entry < Len(addrstack) /\ Matched(j) /\ j > 1 => j - 1 \in 1 .. j - 1
      BY <1>4, <1>5 DEF GoPopped
    <2>2. /\ gostack'[j].kind = gostack[j].kind /\ gostack'[j].own = gostack[j].own
          /\ gostack'[j].entry = gostack[j].entry
      BY DEF GoPopped
    <2>3. \A i \in 1 .. j - 1 : gostack'[i].entry = gostack[i].entry
      BY DEF GoPopped
    <2>4. /\ gostack[j].entry \in DOMAIN addrstack'
          /\ addrstack'[gostack[j].entry] = addrstack[gostack[j].entry]
          /\ (Callee(gostack[j].entry))' = Callee(gostack[j].entry)
      BY <1>4, <1>5, <2>2 DEF Matched, AddressPopped
    <2>5. Uppermost(j)' => Uppermost(j)
      <3>1. CASE j = Len(gostack) - 1
        <4>1. j + 1 = Len(gostack)
          BY <3>1 DEF GoPopped
        <4>2. gostack[j + 1].own
          BY <1>4, <4>1
        <4> QED
          BY <4>2 DEF Uppermost
      <3>2. CASE j # Len(gostack) - 1
        <4>1. j # Len(gostack') /\ gostack'[j + 1].own = gostack[j + 1].own
          BY <3>2 DEF GoPopped
        <4> QED
          BY <4>1 DEF Uppermost
      <3> QED
        BY <3>1, <3>2
    <2> QED
      BY <1>4, <1>5, <2>1, <2>2, <2>3, <2>4, <2>5 DEF Matched
  <1>8. ActivationsMatch'
    BY <1>6, <1>7, ActivationPartsNext
  <1> QED
    BY <1>2, <1>3, <1>8 DEF IInv, StacksMatch

\* A builtin that another one applied returns to it.
LEMMA AppliedBuiltinLeft ==
  ASSUME IInv, status = "go", ~Frame.own, GoPopped, gostack' # <<>>,
         UNCHANGED <<scopestack, stackstack, nscopes, addrstack, curfunc, pc, status, mainfunc, loads>>
  PROVE  IInv'
  <1>1. Live /\ Live'
    BY DEF Live
  <1>2. TypeOK'
    BY TypeParts, TypePartsNext DEF IInv, Live, ScopesTyped, AddressesTyped, MainTyped, GoPopped, Position, Entered
  <1>3. FramesMatch'
    BY <1>1 DEF IInv, StacksMatch, FramesMatch, Callee, HeightAt, Entered
  <1>4. /\ Frame.entry = Len(addrstack) /\ Frame = gostack[Len(gostack)] /\ curfunc.f.user
        /\ \A j \in DOMAIN gostack : Matched(j)
    BY <1>1, ActivationParts DEF IInv, StacksMatch, Frame, Last
  <1>5. /\ Len(gostack) > 1 /\ Len(gostack) - 1 \in DOMAIN gostack'
        /\ gostack[Len(gostack) - 1].entry = Len(addrstack)
    BY <1>4 DEF GoPopped, Matched
  <1>6. ASSUME NEW k \in DOMAIN addrstack', addrstack'[k].native
        PROVE  \E j \in DOMAIN gostack' : gostack'[j].own /\ gostack'[j].entry = k
    <2>1. PICK j \in DOMAIN gostack : gostack[j].own /\ gostack[j].entry = k
      BY <1>1, <1>6 DEF IInv, StacksMatch, ActivationsMatch
    <2>2. j # Len(gostack)
      BY <1>4, <2>1
    <2> QED
      BY <2>1, <2>2 DEF GoPopped
  <1>7. ASSUME NEW j \in DOMAIN gostack'
        PROVE  Matched(j)'
    <2>1. j \in DOMAIN gostack /\ Matched(j) /\ (j > 1 => j - 1 \in 1 .. j - 1)
      BY <1>4 DEF GoPopped
    <2>2. /\ gostack'[j].kind = gostack[j].kind /\ gostack'[j].own = gostack[j].own
          /\ gostack'[j].entry = gostack[j].entry
      BY DEF GoPopped
    <2>3. \A i \in 1 .. j - 1 : gostack'[i].entry = gostack[i].entry
      BY DEF GoPopped
    <2>4. (Callee(gostack[j].entry))' = Callee(gostack[j].entry)
      BY <2>2 DEF Callee
    <2>5. Uppermost(j)' /\ ~Callee(gostack[j].entry).f.user => Uppermost(j)
      <3>1. CASE j = Len(gostack) - 1
        BY <1>4, <1>5, <3>1 DEF Callee
      <3>2. CASE j # Len(gostack) - 1
        <4>1. j # Len(gostack') /\ gostack'[j + 1].own = gostack[j + 1].own
          BY <3>2 DEF GoPopped
        <4> QED
          BY <4>1 DEF Uppermost
      <3> QED
        BY <3>1, <3>2
    <2> QED
      BY <2>1, <2>2, <2>3, <2>4, <2>5 DEF Matched
  <1>8. Frame'.entry = Len(addrstack)
    BY <1>5 DEF GoPopped, Frame, Last
  <1>9. ActivationsMatch'
    BY <1>1, <1>4, <1>6, <1>7, <1>8, ActivationPartsNext
  <1> QED
    BY <1>2, <1>3, <1>9 DEF IInv, StacksMatch

\* A script function returns.
LEMMA ScriptLeft ==
  ASSUME IInv, status = "run", Entered(curfunc), AddressPopped,
         curfunc' \in Runnable, pc' \in Int, Position(curfunc', pc'),
         ScopesTyped', UNCHANGED <<gostack, nscopes, status, mainfunc, loads>>
  PROVE  IInv'
  <1>1. Live /\ Live'
    BY DEF Live
  <1>2. TypeOK'
    BY TypeParts, TypePartsNext DEF IInv, ScopesTyped, MainTyped, FramesTyped, AddressPopped
  <1>3. FramesMatch'
    <2>1. mainfunc' = IF addrstack' = <<>> THEN curfunc' ELSE addrstack'[1].fn
      BY <1>1 DEF AddressPopped, IInv, StacksMatch, FramesMatch
    <2>2. ASSUME NEW i \in DOMAIN addrstack'
          PROVE  /\ Entered(Callee(i)') <=> ~addrstack'[i].native
                 /\ HeightAt(i)' = addrstack'[i].depth + (IF addrstack'[i].native THEN 0 ELSE 1)
      <3>1. i \in DOMAIN addrstack /\ addrstack'[i] = addrstack[i] /\ Callee(i)' = Callee(i) /\ HeightAt(i)' = HeightAt(i)
        BY DEF AddressPopped
      <3> QED
        BY <1>1, <3>1 DEF IInv, StacksMatch, FramesMatch
    <2> QED
      BY <2>1, <2>2 DEF FramesMatch, Entered
  <1>4. ~addrstack[Len(addrstack)].native
    <2>1. Len(addrstack) \in DOMAIN addrstack
      BY DEF AddressPopped
    <2>2. Callee(Len(addrstack)) = curfunc
      BY DEF Callee
    <2> QED
      BY <1>1, <2>1, <2>2 DEF IInv, StacksMatch, FramesMatch
  <1>5. \A j \in DOMAIN gostack : Matched(j)
    BY <1>1, ActivationParts DEF IInv, StacksMatch
  <1>6. ASSUME NEW k \in DOMAIN addrstack', addrstack'[k].native
        PROVE  \E j \in DOMAIN gostack' : gostack'[j].own /\ gostack'[j].entry = k
    BY <1>1, <1>6 DEF AddressPopped, IInv, StacksMatch, ActivationsMatch
  <1>7. ASSUME NEW j \in DOMAIN gostack'
        PROVE  Matched(j)'
    <2>1. gostack[j].entry \in DOMAIN addrstack' /\ (Callee(gostack[j].entry))' = Callee(gostack[j].entry)
      BY <1>4, <1>5 DEF Matched, AddressPopped
    <2> QED
      BY <1>4, <1>5, <2>1 DEF Matched, Uppermost, AddressPopped
  <1>8. ActivationsMatch'
    BY <1>1, <1>6, <1>7, ActivationPartsNext
  <1> QED
    BY <1>2, <1>3, <1>8 DEF IInv, StacksMatch

-----------------------------------------------------------------------------
(* The steps *)

\* Scope stacks that do not change stay typed.
LEMMA SameScopes ==
  ASSUME IInv, UNCHANGED <<scopestack, stackstack, nscopes>> PROVE ScopesTyped'
  BY TypeParts DEF IInv, ScopesTyped

\* Addresses that do not change stay typed.
LEMMA SameAddresses ==
  ASSUME IInv, UNCHANGED addrstack PROVE AddressesTyped'
  BY TypeParts DEF IInv, AddressesTyped, Position, Entered

\* An error that changes none of the stacks.
LEMMA FailingHere ==
  ASSUME IInv, Fail, pc' \in Int,
         UNCHANGED <<scopestack, stackstack, nscopes, addrstack, curfunc, mainfunc, loads>>
  PROVE  IInv'
  BY Failing, SameScopes, SameAddresses, TypeParts DEF IInv

\* Every builtin a call can name is a function value.
LEMMA UserFunctionRuns ==
  ASSUME NEW s \in Builtins \cup {"source-file"}
  PROVE  /\ FnV(UserFunction(s), <<>>) \in Closure
         /\ FnV(UserFunction(s), <<>>).f.user
         /\ FnV(UserFunction(s), <<>>).f.name = s
  <1>1. \E lit \in UserFunctions : lit.name = s
    BY BuiltinAssumption
  <1>2. UserFunction(s) \in UserFunctions /\ UserFunction(s).name = s
    BY <1>1 DEF UserFunction
  <1>3. <<>> \in Seq(ScopeId)
    BY EmptySeq
  <1> QED
    BY <1>2, <1>3 DEF UserFunctions, FnV, Closure

\* Calling a script function keeps the stacks in step (CallFunction).
LEMMA CallFunctionStep ==
  ASSUME IInv, status \in {"run", "go"}, NEW fn \in Closure, ~fn.f.user, NEW n, NEW d,
         NEW p \in Int, Position(curfunc, p + 1), CallFunction(fn, n, d, p), UNCHANGED hosting
  PROVE  IInv'
  <1>1. CASE Fail /\ pc' = p /\ UNCHANGED <<scoping, addrstack, curfunc>>
    BY <1>1, FailingHere DEF scoping, hosting
  <1>2. CASE /\ status' = "panicked" /\ gostack' = <<>> /\ pc' = p
             /\ UNCHANGED <<scoping, addrstack, curfunc>>
    BY <1>2, Stopping, NoFrames, SameScopes, SameAddresses, TypeParts DEF scoping, hosting, IInv
  <1>3. CASE /\ scopestack # <<>> /\ stackstack' = SetAside /\ nscopes' = nscopes + 1
             /\ scopestack' = View(fn) /\ addrstack' = Append(addrstack, Address(p, FALSE))
             /\ curfunc' = fn /\ pc' = 0 /\ status' = "run" /\ UNCHANGED gostack
    <2>1. AddressPushed(FALSE)
      BY <1>3, AddressPush DEF IInv
    <2> QED
      BY <1>3, <2>1, ScriptEntered DEF hosting
  <1> QED
    BY <1>1, <1>2, <1>3 DEF CallFunction

\* So does calling a builtin, whichever way it ends (CallUserFunction).
LEMMA CallUserFunctionStep ==
  ASSUME IInv, NEW op, op # "ret", At(op), NEW fn \in Closure, fn.f.user, NEW name, NEW n, NEW d,
         CallUserFunction(fn, name, n, d), UNCHANGED hosting
  PROVE  IInv'
  <1> DEFINE args == Highest(d, n)
             a == Activation(fn, args, TRUE)
  <1>1. status = "run" /\ pc \in Int /\ pc + 1 \in Int /\ Position(curfunc, pc + 1)
    BY Standing, NextPosition, TypeParts DEF IInv
  <1>2. CASE Fail /\ UNCHANGED <<scoping, addrstack, curfunc, pc>>
    BY <1>1, <1>2, FailingHere DEF scoping, hosting
  <1>3. addrstack' = Append(addrstack, Address(pc, TRUE)) => AddressPushed(TRUE)
    BY <1>1, AddressPush DEF IInv
  <1>4. CASE /\ addrstack' = Append(addrstack, Address(pc, TRUE)) /\ curfunc' = fn /\ pc' = -1
             /\ Fail /\ UNCHANGED <<scopestack, stackstack, nscopes>>
    BY <1>3, <1>4, Failing, SameScopes, ClosureRuns DEF AddressPushed, hosting
  <1>5. CASE /\ addrstack' = Append(addrstack, Address(pc, TRUE)) /\ curfunc' = fn /\ pc' = -1
             /\ gostack' = Append(gostack, a) /\ status' = "go" /\ fn.f.name \in ReentrantBuiltins
             /\ UNCHANGED scoping
    <2>1. AddressPushed(TRUE)
      BY <1>3, <1>5
    <2>2. Len(addrstack) \in Nat
      BY <2>1 DEF AddressPushed
    <2>3. a.kind = fn.f.name /\ a.own = TRUE /\ a.entry = Len(addrstack) + 1
      BY DEF Activation
    <2> HIDE DEF a
    <2>4. GoPushed(a)
      <3>1. FramesTyped /\ gostack' = Append(gostack, a)
        BY <1>5, TypeParts DEF IInv
      <3>2. a.kind \in ReentrantBuiltins /\ a.entry \in Nat
        BY <1>5, <2>2, <2>3
      <3>3. a.own \in BOOLEAN
        BY <2>3, Zenon
      <3> QED
        BY <3>1, <3>2, <3>3, GoPush
    <2> QED
      BY <1>1, <1>5, <2>1, <2>3, <2>4, BuiltinEntered, ClosureRuns DEF scoping, hosting
  <1>6. CASE /\ pc' = pc + 1 /\ UNCHANGED <<scopestack, stackstack, nscopes, addrstack, curfunc, status, gostack>>
    BY <1>1, <1>6, InPlace, SameScopes DEF hosting
  <1> QED
    BY <1>2, <1>4, <1>5, <1>6 DEF CallUserFunction, scoping, Next1

\* So does calling whatever value a symbol is bound to (CallInstr, DispatchInstr).
LEMMA CallObjectStep ==
  ASSUME IInv, NEW op, op # "ret", At(op), NEW v, NEW name, NEW n, NEW d,
         CallObject(v, name, n, d), UNCHANGED hosting
  PROVE  IInv'
  <1>1. status = "run" /\ pc \in Int /\ Position(curfunc, pc + 1)
    BY Standing, NextPosition, TypeParts DEF IInv
  <1>2. CASE v \notin Closure
    BY <1>1, <1>2, FailingHere DEF CallObject, scoping, hosting
  <1>3. CASE v \in Closure /\ v.f.user
    BY <1>3, CallUserFunctionStep DEF CallObject
  <1>4. CASE v \in Closure /\ ~v.f.user
    BY <1>1, <1>4, CallFunctionStep DEF CallObject
  <1> QED
    BY <1>2, <1>3, <1>4

\* An instruction that changes operands, scopes or the heap only, or fails.
LEMMA OperandsStep ==
  ASSUME IInv, NEW op, op # "ret", At(op), ScopesTyped', pc' \in {pc, pc + 1},
         Fail \/ (pc' = pc + 1 /\ UNCHANGED <<status, gostack>>),
         UNCHANGED <<stackstack, addrstack, curfunc, mainfunc, loads>>
  PROVE  IInv'
  <1>1. status = "run" /\ pc \in Int /\ Position(curfunc, pc + 1)
    BY Standing, NextPosition, TypeParts DEF IInv
  <1>2. CASE Fail
    BY <1>1, <1>2, Failing, SameAddresses, TypeParts DEF IInv
  <1>3. CASE pc' = pc + 1 /\ UNCHANGED <<status, gostack>>
    BY <1>1, <1>3, InPlace
  <1> QED
    BY <1>2, <1>3

\* A jump, or a failure to jump.
LEMMA JumpStep ==
  ASSUME IInv, NEW op \in {"jump", "br", "goto"}, At(op), NEW loc,
         loc = IF op = "goto" THEN I.loc ELSE pc + I.loc, JumpTo(loc), UNCHANGED Control
  PROVE  IInv'
  <1>1. status = "run" /\ pc \in Int
    BY Standing, TypeParts DEF IInv
  <1>2. CASE loc \in 0 .. CodeSize
    <2>1. Position(curfunc, loc)
      BY <1>2, NextPosition DEF IInv
    <2>2. loc \in Int
      BY <1>2
    <2> QED
      BY <1>1, <1>2, <2>1, <2>2, InPlace, SameScopes DEF JumpTo, Control, scoping, hosting
  <1>3. CASE loc \notin 0 .. CodeSize
    BY <1>1, <1>3, FailingHere DEF JumpTo, Control, scoping, hosting
  <1> QED
    BY <1>2, <1>3

\* An instruction that goes on to the next one, or fails.
LEMMA NoJumpStep ==
  ASSUME IInv, NEW op, op # "ret", At(op), UNCHANGED Control,
         \/ Fail /\ pc' \in {pc, pc + 1}
         \/ pc' = pc + 1 /\ UNCHANGED <<status, gostack>>
  PROVE  IInv'
  BY OperandsStep, SameScopes DEF Control, scoping, hosting

\* The instructions that neither call nor return.
LEMMA SimpleInstruction ==
  ASSUME IInv, \/ Jump \/ Goto \/ Branch \/ PushValue \/ PopValue \/ Duplicate \/ Get
               \/ Explode \/ Squash \/ Vectorize \/ ReturnError
  PROVE  IInv'
  <1>1. CASE Jump
    BY <1>1, JumpStep DEF Jump
  <1>2. CASE Goto
    BY <1>2, JumpStep DEF Goto
  <1>3. CASE Branch
    <2>1. CASE JumpTo(pc + I.loc)
      BY <1>3, <2>1, JumpStep DEF Branch
    <2>2. CASE ~JumpTo(pc + I.loc)
      BY <1>3, <2>2, NoJumpStep DEF Branch, Next1
    <2> QED
      BY <2>1, <2>2
  <1>4. CASE PushValue
    BY <1>4, NoJumpStep DEF PushValue, Operands, Next1
  <1>5. CASE PopValue
    BY <1>5, NoJumpStep DEF PopValue, Next1
  <1>6. CASE Duplicate
    BY <1>6, NoJumpStep DEF Duplicate, Operands, Next1
  <1>7. CASE Get
    BY <1>7, NoJumpStep DEF Get, Operands, Next1
  <1>8. CASE Explode
    BY <1>8, NoJumpStep DEF Explode, Next1
  <1>9. CASE Squash
    BY <1>9, NoJumpStep DEF Squash, Gather, Next1
  <1>10. CASE Vectorize
    BY <1>10, NoJumpStep DEF Vectorize, Gather, Next1
  <1>11. CASE ReturnError
    BY <1>11, NoJumpStep DEF ReturnError
  <1> QED
    BY <1>1, <1>2, <1>3, <1>4, <1>5, <1>6, <1>7, <1>8, <1>9, <1>10, <1>11

\* The instructions that change the scopes.
LEMMA ScopeInstruction ==
  ASSUME IInv, Put \/ PushClosure \/ AddScope \/ RemoveScope
  PROVE  IInv'
  <1>1. ScopesTyped /\ nscopes + 1 \in ScopeId
    BY TypeParts DEF IInv, ScopesTyped, ScopeId
  <1>2. CASE Put
    BY <1>2, OperandsStep, SameScopes DEF Put, Next1, hosting
  <1>3. CASE PushClosure
    <2>1. ScopesTyped'
      BY <1>1, <1>3 DEF PushClosure, ScopesTyped
    <2> QED
      BY <1>3, <2>1, OperandsStep DEF PushClosure, Next1, hosting
  <1>4. CASE AddScope
    <2>1. ScopesTyped'
      BY <1>1, <1>4, PushPop DEF AddScope, ScopesTyped
    <2> QED
      BY <1>4, <2>1, OperandsStep DEF AddScope, Next1, hosting
  <1>5. CASE RemoveScope
    <2>1. ScopesTyped'
      BY <1>1, <1>5, Popped DEF RemoveScope, ScopesTyped
    <2> QED
      BY <1>5, <2>1, OperandsStep DEF RemoveScope, Next1, hosting
  <1> QED
    BY <1>2, <1>3, <1>4, <1>5

\* Innermost reads a value; whatever it is, CallObject decides what to do.
LEMMA CallStep ==
  ASSUME IInv, Call
  PROVE  IInv'
  <1>1. At("call") /\ UNCHANGED hosting
    BY DEF Call
  <1>2. CASE I.s \in Builtins
    <2>1. CallUserFunction(FnV(UserFunction(I.s), <<>>), I.s, I.n, datastack)
      BY <1>2 DEF Call
    <2> QED
      BY <1>1, <1>2, <2>1, UserFunctionRuns, CallUserFunctionStep
  <1>3. CASE I.s \notin Builtins /\ Binding(I.s, 1) = {}
    <2>1. pc \in Int
      BY TypeParts DEF IInv
    <2> QED
      BY <1>3, <2>1, FailingHere DEF Call, scoping, hosting
  <1>4. CASE I.s \notin Builtins /\ Binding(I.s, 1) # {}
    <2>1. CallObject(Innermost(I.s, 1), I.s, I.n, datastack)
      BY <1>4 DEF Call
    <2> QED
      BY <1>1, <2>1, CallObjectStep
  <1> QED
    BY <1>2, <1>3, <1>4

\* A call of the top operand keeps the stacks in step (DispatchInstr).
LEMMA DispatchStep ==
  ASSUME IInv, Dispatch
  PROVE  IInv'
  <1>1. At("dispatch") /\ UNCHANGED hosting
    BY DEF Dispatch
  <1>2. CASE Ready(1)
    <2>1. CallObject(Top, IF Top.k = "fn" THEN Top.f.name ELSE "", I.n, Below)
      BY <1>2 DEF Dispatch
    <2> QED
      BY <1>1, <2>1, CallObjectStep
  <1>3. CASE ~Ready(1)
    <2>1. pc \in Int
      BY TypeParts DEF IInv
    <2> QED
      BY <1>3, <2>1, FailingHere DEF Dispatch, scoping, hosting
  <1> QED
    BY <1>2, <1>3

\* Only a script function that was called executes a ret, so it has an address
\* and a scope stack to return to.
LEMMA ReturnFound ==
  ASSUME IInv, At("ret")
  PROVE  /\ Entered(curfunc) /\ addrstack # <<>> /\ stackstack # <<>>
         /\ Len(stackstack) = Last(addrstack).depth + 1
  <1>1. /\ status = "run" /\ curfunc.f.code \in Seq(Instr) /\ Len(curfunc.f.code) \in Nat
        /\ pc \in 0 .. Len(curfunc.f.code) - 1 /\ I.op = "ret"
        /\ ~Entered(curfunc) => curfunc.f.code \in TopLevelCode
    BY Standing DEF IInv
  <1>2. Entered(curfunc)
    <2>1. pc + 1 \in 1 .. Len(curfunc.f.code)
      BY <1>1
    <2> QED
      BY <1>1, <2>1 DEF TopLevelCode, I
  <1>3. addrstack # <<>>
    <2>1. SUFFICES ASSUME addrstack = <<>> PROVE FALSE
      OBVIOUS
    <2>2. curfunc = mainfunc
      BY <1>1, <2>1 DEF IInv, StacksMatch, FramesMatch, Live
    <2>3. mainfunc.f.name \in TopLevel
      BY TypeParts DEF IInv, MainTyped, TopLevel
    <2> QED
      BY <1>2, <2>2, <2>3 DEF Entered
  <1>4. /\ Len(addrstack) \in DOMAIN addrstack /\ Last(addrstack) = addrstack[Len(addrstack)]
        /\ Last(addrstack) \in AddressT
    BY <1>3, TypeParts, Popped DEF IInv, AddressesTyped
  <1>5. ~Last(addrstack).native /\ Len(stackstack) = Last(addrstack).depth + (IF Last(addrstack).native THEN 0 ELSE 1)
    <2>1. Callee(Len(addrstack)) = curfunc /\ HeightAt(Len(addrstack)) = Len(stackstack)
      BY DEF Callee, HeightAt
    <2> QED
      BY <1>1, <1>2, <1>4, <2>1 DEF IInv, StacksMatch, FramesMatch, Live
  <1>6. Len(stackstack) = Last(addrstack).depth + 1 /\ Last(addrstack).depth \in Nat
    BY <1>4, <1>5 DEF AddressT
  <1>7. stackstack # <<>>
    <2>1. stackstack = <<>> => Len(stackstack) = 0
      OBVIOUS
    <2> QED
      BY <1>6, <2>1
  <1> QED
    BY <1>2, <1>3, <1>6, <1>7

\* A return keeps the stacks in step (ReturnFromFunction).
LEMMA ReturnStep ==
  ASSUME IInv, Return
  PROVE  IInv'
  <1>1. At("ret") /\ status = "run"
    BY Standing DEF Return, IInv
  <1>2. /\ Entered(curfunc) /\ addrstack # <<>> /\ stackstack # <<>>
        /\ Len(stackstack) = Last(addrstack).depth + 1
    BY <1>1, ReturnFound
  <1>3. /\ curfunc' = Last(addrstack).fn /\ pc' = Last(addrstack).pc /\ addrstack' = Front(addrstack)
        /\ scopestack' = Last(stackstack) /\ stackstack' = Front(stackstack)
        /\ UNCHANGED <<scopes, nscopes, status, gostack, mainfunc, loads>>
    BY <1>2 DEF Return, hosting
  <1>4. ScopesTyped' /\ Len(stackstack') = Len(stackstack) - 1 /\ Len(stackstack) \in Nat
    BY <1>2, <1>3, TypeParts, Popped DEF IInv, ScopesTyped
  <1>5. Len(stackstack') = Last(addrstack).depth
    <2>1. Last(addrstack) \in AddressT
      BY <1>2, TypeParts, Popped DEF IInv, AddressesTyped
    <2>2. Last(addrstack).depth \in Nat
      BY <2>1 DEF AddressT
    <2> QED
      BY <1>2, <1>4, <2>2
  <1>6. AddressPopped /\ curfunc' \in Runnable /\ pc' \in Int /\ Position(curfunc', pc')
    BY <1>2, <1>3, <1>5, CalleesBack DEF IInv
  <1> QED
    BY <1>1, <1>2, <1>3, <1>4, <1>6, ScriptLeft

\* Every instruction keeps the stacks in step (vm.go).
LEMMA InstructionStep ==
  ASSUME IInv, Instruction
  PROVE  IInv'
  BY CallStep, DispatchStep, ReturnStep, SimpleInstruction, ScopeInstruction DEF Instruction

-----------------------------------------------------------------------------
(* Go code *)

\* Where a builtin stands between two steps of its loop.
LEMMA InBuiltin ==
  ASSUME IInv, status = "go"
  PROVE  /\ gostack # <<>> /\ Frame.entry = Len(addrstack) /\ addrstack # <<>>
         /\ Len(addrstack) \in DOMAIN addrstack /\ Len(addrstack) \in Nat
         /\ Last(addrstack) = addrstack[Len(addrstack)] /\ Last(addrstack).native
         /\ Last(addrstack) \in AddressT
         /\ Frame = gostack[Len(gostack)] /\ Len(gostack) \in DOMAIN gostack
         /\ Frame.own \in BOOLEAN
         /\ curfunc.f.user /\ curfunc \in Runnable /\ pc = -1
         /\ Len(stackstack) = Last(addrstack).depth
  <1>1. /\ gostack # <<>> /\ Frame.entry = Len(addrstack) /\ curfunc.f.user
        /\ \A j \in DOMAIN gostack : Matched(j)
    BY ActivationParts DEF IInv, StacksMatch, Live
  <1>2. Frame = gostack[Len(gostack)] /\ Len(gostack) \in DOMAIN gostack
    BY <1>1, TypeParts, UntypedPop DEF IInv, FramesTyped, Frame
  <1>3. Len(addrstack) \in DOMAIN addrstack /\ addrstack[Len(addrstack)].native
    BY <1>1, <1>2 DEF Matched
  <1>4. Len(addrstack) \in Nat /\ addrstack # <<>>
    BY <1>3, TypeParts, LenProperties DEF IInv, AddressesTyped
  <1>5. Last(addrstack) = addrstack[Len(addrstack)] /\ Last(addrstack) \in AddressT
    BY <1>4, TypeParts, Popped DEF IInv, AddressesTyped
  <1>6. Last(addrstack).depth \in Nat
    BY <1>5 DEF AddressT
  <1>7. HeightAt(Len(addrstack)) = Len(stackstack)
    BY DEF HeightAt
  <1>8. Len(stackstack) = Last(addrstack).depth
    BY <1>3, <1>5, <1>6, <1>7 DEF IInv, StacksMatch, FramesMatch, Live
  <1>9. pc = -1 /\ curfunc \in Runnable
    BY <1>1, TypeParts DEF IInv, Live, Position
  <1>10. Frame.own \in BOOLEAN
    BY <1>2, TypeParts DEF IInv, FramesTyped
  <1> QED
    BY <1>1, <1>2, <1>3, <1>4, <1>5, <1>8, <1>9, <1>10

\* So does every application of apply, map, foldl and foldr (Apply).
LEMMA ApplyStepStep ==
  ASSUME IInv, ApplyStep
  PROVE  IInv'
  <1> DEFINE fn   == Frame.f
             args == Head(Frame.todo) \o (IF Frame.kind \in Folds THEN <<Frame.acc>> ELSE <<>>)
             a    == Activation(fn, args, FALSE)
  <1>1. status = "go" /\ UNCHANGED hosting
    BY DEF ApplyStep
  <1>2. /\ gostack # <<>> /\ Frame.entry = Len(addrstack) /\ addrstack # <<>>
        /\ Len(addrstack) \in Nat /\ curfunc.f.user /\ curfunc \in Runnable /\ pc = -1
    BY <1>1, InBuiltin
  <1>3. CASE Fail /\ UNCHANGED <<scopestack, stackstack, nscopes, addrstack, curfunc, pc>>
    BY <1>1, <1>2, <1>3, FailingHere DEF hosting
  <1>4. CASE fn \in Closure /\ ~fn.f.user /\ CallFunction(fn, Len(args), datastack \o args, -2)
    <2>1. Position(curfunc, -2 + 1) /\ -2 \in Int
      BY <1>2 DEF Position
    <2> QED
      BY <1>1, <1>4, <2>1, CallFunctionStep
  <1>5. CASE /\ fn.f.name \in ReentrantBuiltins /\ gostack' = Append(gostack, a)
             /\ UNCHANGED <<status, datastack, scoping, addrstack, curfunc, pc>>
    <2>1. a.kind = fn.f.name /\ a.own = FALSE /\ a.entry = Len(addrstack)
      BY DEF Activation
    <2>2. FramesTyped
      BY TypeParts DEF IInv
    <2> HIDE DEF a
    <2>3. a.own \in BOOLEAN
      BY <2>1, Zenon
    <2>4. GoPushed(a)
      BY <1>2, <1>5, <2>1, <2>2, <2>3, GoPush
    <2> QED
      BY <1>1, <1>5, <2>1, <2>4, BuiltinApplied DEF scoping, hosting
  <1>6. ASSUME NEW v, gostack' = Append(Front(gostack), Feed(Frame, v)),
               UNCHANGED <<status, scopestack, stackstack, nscopes, addrstack, curfunc, pc>>
        PROVE  IInv'
    <2>1. GoKept
      BY <1>2, <1>6, GoFeed, TypeParts DEF IInv
    <2>2. Live
      BY <1>1 DEF Live
    <2> QED
      BY <1>1, <1>2, <1>6, <2>1, <2>2, BackToBuiltin DEF hosting
  <1> QED
    BY <1>3, <1>4, <1>5, <1>6 DEF ApplyStep, scoping

\* So does every item of source-file (SourceFileFunction, SourceExpressions).
LEMMA SourceStepStep ==
  ASSUME IInv, SourceStep
  PROVE  IInv'
  <1> DEFINE item == Head(Frame.todo)[1]
  <1>1. status = "go" /\ Frame.kind = "source-file" /\ UNCHANGED <<scoping, addrstack, hosting>>
    BY DEF SourceStep
  <1>2. CASE Fail /\ UNCHANGED <<curfunc, pc, datastack>>
    BY <1>1, <1>2, InBuiltin, FailingHere DEF scoping, hosting
  <1>3. CASE /\ item.t \in DOMAIN FileCode /\ curfunc' = Script("__source", Glue \o FileCode[item.t])
             /\ pc' = 0 /\ status' = "run" /\ UNCHANGED gostack
    <2>1. Glue \o FileCode[item.t] \in TopLevelCode
      BY <1>3, GlueIsTopLevel, CodeAssumption, TopLevelConcat
    <2> QED
      BY <1>1, <1>3, <2>1, SourceEntered DEF scoping, hosting
  <1>4. CASE gostack' = Append(Front(gostack), Unpack(Frame)) /\ UNCHANGED <<curfunc, pc, status>>
    <2>1. /\ gostack # <<>> /\ Frame.entry = Len(addrstack) /\ addrstack # <<>>
          /\ curfunc.f.user /\ curfunc \in Runnable /\ pc = -1 /\ Live
      BY <1>1, InBuiltin DEF Live
    <2>2. /\ Unpack(Frame).kind = Frame.kind /\ Unpack(Frame).own = Frame.own
          /\ Unpack(Frame).entry = Frame.entry
      BY DEF Unpack
    <2>3. GoKept
      BY <1>4, <2>1, <2>2, GoOn, TypeParts DEF IInv
    <2> QED
      BY <1>1, <1>4, <2>1, <2>3, BackToBuiltin DEF scoping, hosting
  <1> QED
    BY <1>2, <1>3, <1>4 DEF SourceStep

\* So does the return of such a builtin (CallUserFunction, Apply).
LEMMA BuiltinReturnStep ==
  ASSUME IInv, BuiltinReturn
  PROVE  IInv'
  <1>1. status = "go" /\ UNCHANGED <<scopestack, stackstack, nscopes, mainfunc, loads>>
    BY DEF BuiltinReturn, scoping, hosting
  <1>2. /\ gostack # <<>> /\ addrstack # <<>> /\ Len(stackstack) = Last(addrstack).depth
        /\ Frame.own \in BOOLEAN
    BY <1>1, InBuiltin
  <1>3. FramesTyped
    BY TypeParts DEF IInv
  <1>4. CASE Frame.own
    <2>1. /\ curfunc' = Last(addrstack).fn /\ pc' = Last(addrstack).pc /\ addrstack' = Front(addrstack)
          /\ gostack' = Front(gostack) /\ status' = "run"
      BY <1>2, <1>4 DEF BuiltinReturn
    <2>2. AddressPopped /\ curfunc' \in Runnable /\ pc' \in Int /\ Position(curfunc', pc')
      BY <1>1, <1>2, <2>1, CalleesBack DEF IInv
    <2>3. GoPopped
      BY <1>2, <1>3, <2>1, GoPop
    <2> QED
      BY <1>1, <1>4, <2>1, <2>2, <2>3, BuiltinLeft
  <1>5. CASE ~Frame.own
    <2>1. /\ gostack' = Append(Front(Front(gostack)), Feed(Last(Front(gostack)), Frame.acc))
          /\ UNCHANGED <<curfunc, pc, addrstack, status>>
      BY <1>5 DEF BuiltinReturn
    <2>2. Front(gostack) # <<>>
      <3>1. Matched(Len(gostack)) /\ Frame = gostack[Len(gostack)]
        BY <1>1, InBuiltin, ActivationParts DEF IInv, StacksMatch, Live
      <3>2. Len(gostack) > 1
        BY <1>5, <3>1 DEF Matched
      <3>3. Len(Front(gostack)) = Len(gostack) - 1 /\ Len(gostack) \in Nat
        BY <1>2, <1>3, UntypedPop DEF FramesTyped
      <3>4. Front(gostack) = <<>> => Len(Front(gostack)) = 0
        BY EmptySeq
      <3> QED
        BY <3>2, <3>3, <3>4
    <2>3. GoPopped /\ gostack' # <<>>
      BY <1>2, <1>3, <2>1, <2>2, GoPopFeed
    <2> QED
      BY <1>1, <1>5, <2>1, <2>3, AppliedBuiltinLeft
  <1> QED
    BY <1>4, <1>5

\* A run that has reached its end ends the code of main or of a file, or is
\* the nested run of a builtin that is called.
LEMMA RunDone ==
  ASSUME IInv, status = "run", IsDone
  PROVE  /\ ~Entered(curfunc)
         /\ gostack = <<>> => addrstack = <<>>
         /\ gostack # <<>> =>
              /\ Frame.entry = Len(addrstack) /\ addrstack # <<>>
              /\ Frame.kind # "source-file" => curfunc.f.user /\ pc = -1
  <1>1. curfunc \in Runnable /\ Position(curfunc, pc) /\ AddressesTyped
    BY TypeParts DEF IInv, Live
  <1>2. ~Entered(curfunc)
    <2>1. SUFFICES ASSUME Entered(curfunc) PROVE FALSE
      OBVIOUS
    <2>2. Len(curfunc.f.code) \in Nat
      BY <1>1, CallableFacts DEF Runnable
    <2> QED
      BY <1>1, <2>1, <2>2 DEF Entered, Position, IsDone, ReachedEnd, CodeSize
  <1>3. /\ \A k \in DOMAIN addrstack :
             addrstack[k].native => \E j \in DOMAIN gostack : gostack[j].own /\ gostack[j].entry = k
        /\ \A j \in DOMAIN gostack : Matched(j)
    BY ActivationParts DEF IInv, StacksMatch, Live
  <1>4. addrstack # <<>> => /\ Len(addrstack) \in DOMAIN addrstack /\ Len(addrstack) \in Nat
                            /\ DOMAIN addrstack = 1 .. Len(addrstack)
    BY <1>1, Popped DEF AddressesTyped
  <1>5. addrstack # <<>> => addrstack[Len(addrstack)].native
    <2>1. Callee(Len(addrstack)) = curfunc
      BY DEF Callee
    <2> QED
      BY <1>2, <1>4, <2>1 DEF IInv, StacksMatch, FramesMatch, Live
  <1>6. CASE gostack = <<>>
    <2>1. DOMAIN gostack = {}
      <3>1. <<>> \in Seq({}) /\ Len(<<>>) = 0
        BY EmptySeq
      <3>2. DOMAIN <<>> = 1 .. 0
        BY <3>1, LenProperties
      <3> QED
        BY <1>6, <3>2
    <2>2. addrstack = <<>>
      BY <1>3, <1>4, <1>5, <2>1
    <2> QED
      BY <1>2, <1>6, <2>2
  <1>7. CASE gostack # <<>>
    <2>1. Len(gostack) \in Nat \ {0} /\ DOMAIN gostack = 1 .. Len(gostack) /\ Frame = gostack[Len(gostack)]
      BY <1>7, TypeParts, UntypedPop DEF IInv, FramesTyped, Frame
    <2>2. Frame.entry \in DOMAIN addrstack
      BY <1>3, <2>1 DEF Matched
    <2>3. addrstack # <<>>
      BY <1>1, <2>2, EmptySeq, LenProperties DEF AddressesTyped
    <2>4. PICK j \in DOMAIN gostack : gostack[j].own /\ gostack[j].entry = Len(addrstack)
      BY <1>3, <1>4, <1>5, <2>3
    <2>5. Frame.entry = Len(addrstack)
      <3>1. CASE j = Len(gostack)
        BY <2>1, <2>4, <3>1
      <3>2. CASE j # Len(gostack)
        <4>1. j \in 1 .. Len(gostack) - 1
          BY <2>1, <3>2
        <4>2. gostack[j].entry <= Frame.entry
          BY <1>3, <2>1, <4>1 DEF Matched
        <4> QED
          BY <1>4, <2>2, <2>3, <2>4, <4>2
      <3> QED
        BY <3>1, <3>2
    <2>6. Frame.kind # "source-file" => curfunc.f.user
      <3>1. Callee(Frame.entry) = curfunc
        BY <2>5 DEF Callee
      <3> QED
        BY <1>3, <2>1, <3>1 DEF Matched, Uppermost
    <2> QED
      BY <1>1, <1>2, <1>7, <2>3, <2>5, <2>6 DEF Position
  <1> QED
    BY <1>6, <1>7

\* So does the end of a run (Run, Finish).
LEMMA FinishStep ==
  ASSUME IInv, Finish
  PROVE  IInv'
  <1>1. status = "run" /\ IsDone /\ UNCHANGED <<scopestack, stackstack, nscopes, addrstack, mainfunc, loads>>
    BY DEF Finish, scoping
  <1>2. /\ gostack = <<>> => addrstack = <<>>
        /\ gostack # <<>> =>
              /\ Frame.entry = Len(addrstack) /\ addrstack # <<>>
              /\ Frame.kind # "source-file" => curfunc.f.user /\ pc = -1
    BY <1>1, RunDone
  <1>3. Live /\ curfunc \in Runnable /\ pc \in Int
    BY <1>1, TypeParts DEF Live, IInv
  <1>4. CASE status' = "exited" /\ UNCHANGED <<curfunc, pc, gostack>>
    <2>1. FramesTyped'
      BY <1>4, TypeParts DEF IInv, FramesTyped
    <2> QED
      BY <1>1, <1>3, <1>4, <2>1, Stopping, SameScopes, SameAddresses
  <1>5. CASE gostack = <<>> /\ status' = "idle" /\ UNCHANGED <<curfunc, pc, gostack>>
    <2>1. TypeOK'
      BY <1>1, <1>3, <1>5, TypeParts, TypePartsNext
         DEF IInv, Live, ScopesTyped, AddressesTyped, MainTyped, FramesTyped, Position, Entered
    <2>2. FramesMatch'
      BY <1>1, <1>3, <1>5 DEF IInv, StacksMatch, FramesMatch, Callee, HeightAt, Entered
    <2>3. curfunc' = mainfunc'
      BY <1>1, <1>2, <1>3, <1>5 DEF IInv, StacksMatch, FramesMatch
    <2>4. ActivationsMatch'
      BY <1>1, <1>2, <1>3, <1>5, <2>3, ActivationParts, ActivationPartsNext
         DEF IInv, StacksMatch, Matched, Callee, Uppermost
    <2> QED
      BY <2>1, <2>2, <2>4 DEF IInv, StacksMatch
  <1>6. ASSUME NEW v, gostack # <<>>, gostack' = Append(Front(gostack), Feed(Frame, v)), status' = "go",
               \/ Frame.kind = "source-file" /\ curfunc' = FnV(UserFunction("source-file"), <<>>) /\ pc' = -1
               \/ Frame.kind # "source-file" /\ UNCHANGED <<curfunc, pc>>
        PROVE  IInv'
    <2>1. GoKept
      BY <1>6, GoFeed, TypeParts DEF IInv
    <2>2. curfunc' \in Runnable /\ curfunc'.f.user /\ pc' = -1
      BY <1>2, <1>3, <1>6, UserFunctionRuns, ClosureRuns
    <2> QED
      BY <1>1, <1>2, <1>3, <1>6, <2>1, <2>2, BackToBuiltin
  <1> QED
    BY <1>4, <1>5, <1>6 DEF Finish

-----------------------------------------------------------------------------
(* The host *)

\* An error has unwound every Go call.
Unwound == status = "failed" => gostack = <<>>

\* A call that fails leaves no activation.
LEMMA CallUnwinds ==
  ASSUME status = "run" \/ status = "go", NEW fn, NEW name, NEW n, NEW d, CallObject(fn, name, n, d)
  PROVE  Unwound'
  <1>1. CASE fn \notin Closure
    BY <1>1 DEF CallObject, Unwound, Fail
  <1>2. CASE fn \in Closure /\ fn.f.user
    BY <1>2 DEF CallObject, CallUserFunction, Unwound, Fail
  <1>3. CASE fn \in Closure /\ ~fn.f.user
    BY <1>3 DEF CallObject, CallFunction, Unwound, Fail
  <1> QED
    BY <1>1, <1>2, <1>3

\* No step that fails leaves an activation: Go returns the error through every call.
LEMMA StepUnwinds ==
  ASSUME Unwound, [Next]_vars
  PROVE  Unwound'
  <1>1. CASE Call
    <2>1. status = "run"
      BY <1>1 DEF Call, At
    <2>2. CASE I.s \in Builtins
      BY <1>1, <2>1, <2>2 DEF Call, CallUserFunction, Unwound, Fail
    <2>3. CASE I.s \notin Builtins
      BY <1>1, <2>1, <2>3, CallUnwinds DEF Call, Unwound, Fail
    <2> QED
      BY <2>2, <2>3
  <1>2. CASE Dispatch
    <2>1. status = "run"
      BY <1>2 DEF Dispatch, At
    <2> QED
      BY <1>2, <2>1, CallUnwinds DEF Dispatch, Unwound, Fail
  <1>3. CASE Return
    BY <1>3 DEF Return, At, Unwound, Fail
  <1>4. CASE Jump \/ Goto \/ Branch
    BY <1>4 DEF Jump, Goto, Branch, JumpTo, At, Unwound, Fail
  <1>5. CASE PushValue \/ PopValue \/ Duplicate \/ Get \/ Explode
    BY <1>5 DEF PushValue, PopValue, Duplicate, Get, Explode, Operands, At, Unwound, Fail
  <1>6. CASE Put \/ PushClosure \/ AddScope \/ RemoveScope
    BY <1>6 DEF Put, PushClosure, AddScope, RemoveScope, At, Unwound, Fail
  <1>7. CASE Squash \/ Vectorize \/ ReturnError
    BY <1>7 DEF Squash, Vectorize, Gather, ReturnError, At, Unwound, Fail
  <1>8. CASE SourceStep \/ BuiltinReturn \/ Finish
    BY <1>8 DEF SourceStep, BuiltinReturn, Finish, Unwound, Fail
  <1>9. CASE ApplyStep
    BY <1>9 DEF ApplyStep, CallFunction, Unwound, Fail
  <1>10. CASE Run \/ Recover \/ LoadFails \/ \E p \in Piece : Load(p)
    BY <1>10 DEF Run, Recover, LoadFails, Load, Unwound, Fail
  <1>11. CASE UNCHANGED vars
    BY <1>11 DEF vars, Unwound
  <1> QED
    BY <1>1, <1>2, <1>3, <1>4, <1>5, <1>6, <1>7, <1>8, <1>9, <1>10, <1>11
       DEF Next, Machine, Instruction, GoCode

\* With nothing on any stack and main about to run, the stacks match.
HostReady ==
  /\ status = "idle" /\ ScopesTyped /\ MainTyped /\ curfunc = mainfunc
  /\ addrstack = <<>> /\ gostack = <<>>
  /\ pc \in Int /\ Position(mainfunc, pc) /\ loads \in 0 .. MaxLoads

\* A host that is ready satisfies the invariant.
LEMMA Idle == HostReady => IInv
  <1> SUFFICES ASSUME HostReady PROVE IInv
    OBVIOUS
  <1>1. <<>> \in Seq({}) /\ Len(<<>>) = 0 /\ <<>> \in Seq(AddressT)
    BY EmptySeq
  <1>2. IsSequence(<<>>) /\ DOMAIN <<>> = {}
    <2>1. IsSequence(<<>>) /\ DOMAIN <<>> = 1 .. 0
      BY <1>1, IsSequenceIntro
    <2> QED
      BY <2>1
  <1>3. AddressesTyped /\ FramesTyped
    BY <1>1, <1>2 DEF AddressesTyped, FramesTyped, HostReady
  <1>4. TypeOK
    BY <1>3, TypeParts DEF MainTyped, HostReady
  <1>5. FramesMatch
    BY <1>2 DEF FramesMatch, HostReady
  <1>6. ActivationsMatch
    BY <1>2 DEF ActivationsMatch, HostReady
  <1> QED
    BY <1>4, <1>5, <1>6 DEF IInv, StacksMatch

\* The same of the next state.
LEMMA IdleNext == HostReady' => IInv'
  BY Idle, PTL

\* A new environment satisfies the invariant (NewGlisp).
LEMMA InitInvariant ==
  ASSUME Init
  PROVE  IInv /\ Unwound
  <1>1. ScopesTyped
    <2>1. Global \in ScopeId /\ <<Global>> \in Seq(ScopeId)
      BY DEF Global, ScopeId
    <2>2. <<>> \in Seq(Seq(ScopeId))
      BY EmptySeq
    <2> QED
      BY <2>1, <2>2 DEF Init, ScopesTyped
  <1>2. <<>> \in TopLevelCode
    BY EmptySeq DEF TopLevelCode
  <1>4. MainTyped /\ Position(mainfunc, pc)
    <2>1. mainfunc = Script("__main", <<>>) /\ pc = 0
      BY DEF Init
    <2> QED
      BY <1>2, <2>1, MainRuns DEF MainTyped
  <1>5. loads \in 0 .. MaxLoads
    BY CodeAssumption DEF Init
  <1> QED
    BY <1>1, <1>4, <1>5, Idle DEF Init, Unwound, HostReady

\* Loading a text keeps it (LoadExpressions).
LEMMA LoadStep ==
  ASSUME IInv, NEW p \in Piece, Load(p)
  PROVE  IInv'
  <1> DEFINE code == mainfunc.f.code \o Glue \o PieceCode[p]
  <1>1. /\ status = "idle" /\ loads < MaxLoads /\ mainfunc' = Script("__main", code) /\ curfunc' = mainfunc'
        /\ loads' = loads + 1 /\ UNCHANGED <<scopestack, stackstack, nscopes, addrstack, pc, gostack, status>>
    BY DEF Load, scoping
  <1>2. Live
    BY <1>1 DEF Live
  <1>3. gostack = <<>> /\ addrstack = <<>> /\ curfunc = mainfunc
    BY <1>1, <1>2 DEF IInv, StacksMatch, ActivationsMatch
  <1>4. /\ MainTyped /\ ScopesTyped /\ pc \in Int /\ Position(mainfunc, pc) /\ loads \in 0 .. MaxLoads
    BY <1>2, <1>3, TypeParts DEF IInv
  <1>5. ~Entered(mainfunc) /\ mainfunc.f.code \in TopLevelCode /\ ~mainfunc.f.user
    BY <1>4 DEF MainTyped, Runnable, Entered, TopLevel
  <1>6. /\ code \in TopLevelCode /\ Len(code) >= Len(mainfunc.f.code)
        /\ Len(code) \in Nat /\ Len(mainfunc.f.code) \in Nat
    <2>1. /\ mainfunc.f.code \o Glue \in TopLevelCode /\ Len(mainfunc.f.code) \in Nat /\ Len(Glue) \in Nat
          /\ Len(mainfunc.f.code \o Glue) = Len(mainfunc.f.code) + Len(Glue)
      BY <1>5, GlueIsTopLevel, TopLevelConcat
    <2>2. PieceCode[p] \in TopLevelCode
      BY CodeAssumption
    <2>3. /\ code \in TopLevelCode /\ Len(PieceCode[p]) \in Nat
          /\ Len(code) = Len(mainfunc.f.code \o Glue) + Len(PieceCode[p])
      BY <2>1, <2>2, TopLevelConcat
    <2> DEFINE a == Len(mainfunc.f.code \o Glue)
               b == Len(mainfunc.f.code)
               n == Len(PieceCode[p])
               m == Len(code)
    <2>4. a \in Nat /\ a >= b /\ b \in Nat
      BY <2>1
    <2>5. n \in Nat /\ m = a + n
      BY <2>3
    <2> HIDE DEF a, b, n, m
    <2>6. m >= b /\ m \in Nat
      BY <2>4, <2>5
    <2> QED
      BY <2>3, <2>4, <2>6 DEF b, m
  <1> HIDE DEF code
  <1>7. /\ mainfunc' \in Runnable /\ ~Entered(mainfunc')
        /\ mainfunc'.f = [name |-> "__main", user |-> FALSE, nargs |-> 0, varargs |-> FALSE, code |-> code]
    BY <1>1, <1>6, ScriptRuns DEF TopLevel
  <1>8. Position(mainfunc', pc)
    BY <1>4, <1>5, <1>6, <1>7 DEF Position
  <1>9. MainTyped'
    BY <1>7 DEF MainTyped
  <1>10. loads' \in 0 .. MaxLoads
    BY <1>1, <1>4, CodeAssumption
  <1>11. ScopesTyped'
    BY <1>1, <1>4 DEF ScopesTyped
  <1> QED
    BY <1>1, <1>3, <1>4, <1>8, <1>9, <1>10, <1>11, IdleNext DEF HostReady, Position, Entered

\* Starting a run keeps it (Run).
LEMMA RunStep ==
  ASSUME IInv, Run
  PROVE  IInv'
  <1>1. /\ status = "idle" /\ status' = "run"
        /\ UNCHANGED <<scopestack, stackstack, nscopes, addrstack, curfunc, pc, gostack, mainfunc, loads>>
    BY DEF Run, scoping, hosting
  <1>2. Live /\ Live'
    BY <1>1 DEF Live
  <1>3. TypeOK'
    BY <1>1, <1>2, TypeParts, TypePartsNext
       DEF IInv, ScopesTyped, AddressesTyped, MainTyped, FramesTyped, Position, Entered
  <1>4. FramesMatch'
    BY <1>1, <1>2 DEF IInv, StacksMatch, FramesMatch, Callee, HeightAt, Entered
  <1>5. ActivationsMatch'
    BY <1>1, <1>2, ActivationParts, ActivationPartsNext
       DEF IInv, StacksMatch, Matched, Callee, Uppermost
  <1> QED
    BY <1>3, <1>4, <1>5 DEF IInv, StacksMatch

\* Recovering from an error restores it (GetStackTrace, Clear).
LEMMA RecoverStep ==
  ASSUME IInv, Unwound, Recover
  PROVE  IInv'
  <1>1. /\ addrstack' = <<>> /\ gostack' = <<>> /\ status' = "idle" /\ pc' = 0
        /\ scopestack' = <<IF scopestack = <<>> THEN Global ELSE scopestack[1]>>
        /\ mainfunc' = Script("__main", <<>>) /\ curfunc' = mainfunc'
        /\ UNCHANGED <<stackstack, nscopes, loads>>
    BY DEF Recover, Unwound
  <1>2. ScopesTyped /\ loads \in 0 .. MaxLoads
    BY TypeParts DEF IInv
  <1>3. (IF scopestack = <<>> THEN Global ELSE scopestack[1]) \in ScopeId
    <2>1. CASE scopestack = <<>>
      BY <2>1 DEF Global, ScopeId
    <2>2. CASE scopestack # <<>>
      BY <1>2, <2>2, Popped, ElementOfSeq DEF ScopesTyped
    <2> QED
      BY <2>1, <2>2
  <1>4. ScopesTyped'
    BY <1>1, <1>2, <1>3 DEF ScopesTyped
  <1>5. <<>> \in TopLevelCode
    BY EmptySeq DEF TopLevelCode
  <1>6. MainTyped' /\ Position(mainfunc', pc')
    <2>1. Script("__main", <<>>) \in Runnable /\ Script("__main", <<>>).f.name = "__main" /\ ~Script("__main", <<>>).f.user
      BY <1>5, MainRuns
    <2>2. Position(Script("__main", <<>>), 0)
      BY <1>5, MainRuns
    <2> QED
      BY <1>1, <2>1, <2>2 DEF MainTyped, Position, Entered
  <1> QED
    BY <1>1, <1>2, <1>4, <1>6, IdleNext DEF HostReady, Position, Entered

\* A text that does not load keeps it (LoadExpressions).
LEMMA LoadFailsStep ==
  ASSUME IInv, LoadFails
  PROVE  IInv'
  <1>1. /\ loads < MaxLoads /\ loads' = loads + 1 /\ status' = "failed" /\ gostack' = <<>>
        /\ UNCHANGED <<scopestack, stackstack, nscopes, addrstack, mainfunc, curfunc, pc>>
    BY DEF LoadFails, Fail, scoping
  <1>2. ~Live'
    BY <1>1 DEF Live
  <1>3. loads' \in 0 .. MaxLoads
    BY <1>1, TypeParts, CodeAssumption DEF IInv
  <1>4. TypeOK'
    BY <1>1, <1>2, <1>3, TypeParts, TypePartsNext, NoFrames
       DEF IInv, ScopesTyped, AddressesTyped, MainTyped, Position, Entered
  <1> QED
    BY <1>2, <1>4 DEF IInv, StacksMatch, FramesMatch, ActivationsMatch

\* A step that changes nothing keeps it.
LEMMA Stutter ==
  ASSUME IInv, UNCHANGED vars
  PROVE  IInv'
  <1>1. TypeOK'
    BY TypeParts, TypePartsNext
       DEF vars, IInv, Live, ScopesTyped, AddressesTyped, MainTyped, FramesTyped, Position, Entered
  <1>2. FramesMatch'
    BY DEF vars, IInv, StacksMatch, FramesMatch, Live, Callee, HeightAt, Entered
  <1>3. ActivationsMatch'
    BY ActivationParts, ActivationPartsNext
       DEF vars, IInv, StacksMatch, Matched, Live, Callee, Uppermost, Frame
  <1> QED
    BY <1>1, <1>2, <1>3 DEF IInv, StacksMatch

\* Every step of the interpreter and its host keeps it.
LEMMA NextInvariant ==
  ASSUME IInv, Unwound, [Next]_vars
  PROVE  IInv'
  <1>1. CASE Machine
    BY <1>1, InstructionStep, SourceStepStep, ApplyStepStep, BuiltinReturnStep, FinishStep
       DEF Machine, GoCode
  <1>2. CASE Run \/ Recover \/ LoadFails \/ \E p \in Piece : Load(p)
    BY <1>2, RunStep, RecoverStep, LoadFailsStep, LoadStep
  <1>3. CASE UNCHANGED vars
    BY <1>3, Stutter
  <1> QED
    BY <1>1, <1>2, <1>3 DEF Next

-----------------------------------------------------------------------------
(* Theorems *)

\* The inductive invariant holds in every reachable state of the machine.
LEMMA Invariance == Spec => [](IInv /\ Unwound)
  <1>1. Init => IInv /\ Unwound
    BY InitInvariant
  <1>2. IInv /\ Unwound /\ [Next]_vars => IInv' /\ Unwound'
    BY NextInvariant, StepUnwinds
  <1> QED
    BY <1>1, <1>2, PTL DEF Spec

\* Whatever code the machine is given, it and every address it can return to
\* stand at an instruction, at the end of main or sourced code, or at the -1 of
\* a builtin (vm.go, CallFunction, ReturnFromFunction, LoadExpressions).
THEOREM TypeCorrect == Spec => []TypeOK
  <1>1. IInv => TypeOK
    BY DEF IInv
  <1> QED
    BY <1>1, Invariance, PTL

\* The stacks that different instructions push and pop, and that nested runs
\* and errors cut, stay in step for every program, every file and every number
\* of texts (CallFunction, CallUserFunction, ReturnFromFunction, Apply,
\* SourceExpressions, Clear).
THEOREM StacksStayInStep == Spec => []StacksMatch
  <1>1. IInv => StacksMatch
    BY DEF IInv
  <1> QED
    BY <1>1, Invariance, PTL

\* No program makes ReturnFromFunction fail: a ret always finds an address and
\* the scope stack its caller set aside.
THEOREM ReturnsFindTheirCaller == Spec => []ReturnHasCaller
  <1>1. IInv => ReturnHasCaller
    BY ReturnFound DEF ReturnHasCaller
  <1> QED
    BY <1>1, Invariance, PTL

\* A run that ends ends where it began: the host's with no address left and no
\* builtin waiting, a nested one in the builtin that started it and with that
\* builtin's own address on top (Run, Apply, SourceExpressions).
THEOREM RunsEndWhereTheyBegan ==
  Spec => [](status = "run" /\ IsDone =>
               IF gostack = <<>> THEN addrstack = <<>> /\ curfunc = mainfunc
                                 ELSE addrstack # <<>> /\ Frame.entry = Len(addrstack))
  <1>1. ASSUME IInv
        PROVE  status = "run" /\ IsDone =>
                 IF gostack = <<>> THEN addrstack = <<>> /\ curfunc = mainfunc
                                   ELSE addrstack # <<>> /\ Frame.entry = Len(addrstack)
    <2>1. addrstack = <<>> /\ status = "run" => curfunc = mainfunc
      BY <1>1 DEF IInv, StacksMatch, FramesMatch, Live
    <2> QED
      BY <1>1, <2>1, RunDone
  <1> QED
    BY <1>1, Invariance, PTL

-----------------------------------------------------------------------------
(* Loops *)

\* A step that takes a return address away, takes all away, or adds none.
LEMMA NobodyWaits ==
  ASSUME IInv, TailCallsStayInFrame,
         \/ addrstack' = <<>>
         \/ Live /\ addrstack' = addrstack
         \/ Live /\ addrstack # <<>> /\ addrstack' = Front(addrstack)
  PROVE  TailCallsStayInFrame'
  <1>1. CASE addrstack' = <<>>
    <2>1. DOMAIN addrstack' = {}
      BY <1>1, EmptySeq, LenProperties
    <2> QED
      BY <2>1 DEF TailCallsStayInFrame
  <1>2. CASE Live /\ addrstack' = addrstack
    BY <1>2 DEF TailCallsStayInFrame
  <1>3. CASE Live /\ addrstack # <<>> /\ addrstack' = Front(addrstack)
    <2>1. addrstack \in Seq(AddressT)
      BY TypeParts DEF IInv, AddressesTyped
    <2>2. \A i \in DOMAIN addrstack' : i \in DOMAIN addrstack /\ addrstack'[i] = addrstack[i]
      BY <1>3, <2>1, Popped
    <2> QED
      BY <1>3, <2>2 DEF TailCallsStayInFrame
  <1> QED
    BY <1>1, <1>2, <1>3

\* A function that is no loop may wait for what it calls.
LEMMA OthersWait ==
  ASSUME IInv, Live, TailCallsStayInFrame, curfunc.f \notin LoopFun,
         NEW p \in Int, Position(curfunc, p + 1), NEW native \in BOOLEAN,
         addrstack' = Append(addrstack, Address(p, native))
  PROVE  TailCallsStayInFrame'
  <1>1. /\ Len(addrstack) \in Nat /\ DOMAIN addrstack = 1 .. Len(addrstack)
        /\ DOMAIN addrstack' = 1 .. Len(addrstack) + 1
        /\ \A i \in 1 .. Len(addrstack) : addrstack'[i] = addrstack[i]
        /\ addrstack'[Len(addrstack) + 1].fn = curfunc
    BY NewAddress DEF IInv, Address
  <1> QED
    BY <1>1 DEF TailCallsStayInFrame

\* A call of any value: the address it leaves, if it leaves one, is that of the
\* function that runs (CallFunction, CallUserFunction).
LEMMA CallerWaits ==
  ASSUME IInv, TailCallsStayInFrame, NEW op, op # "ret", At(op), curfunc.f \notin LoopFun,
         NEW v, NEW name, NEW n, NEW d, CallObject(v, name, n, d)
  PROVE  TailCallsStayInFrame'
  <1>1. Live /\ pc \in Int /\ Position(curfunc, pc + 1)
    BY Standing, NextPosition, TypeParts DEF IInv, Live
  <1>2. \/ addrstack' = addrstack
        \/ addrstack' = Append(addrstack, Address(pc, TRUE))
        \/ addrstack' = Append(addrstack, Address(pc, FALSE))
    BY DEF CallObject, CallUserFunction, CallFunction
  <1> QED
    BY <1>1, <1>2, NobodyWaits, OthersWait

\* A builtin that runs no Lisp returns at once or fails.
LEMMA NothingToWaitFor ==
  ASSUME IInv, TailCallsStayInFrame, Live, NEW fn, fn.f.name \notin ReentrantBuiltins,
         NEW name, NEW n, NEW d, CallUserFunction(fn, name, n, d)
  PROVE  TailCallsStayInFrame'
  <1>1. CASE Fail
    BY <1>1 DEF Fail, TailCallsStayInFrame, Live
  <1>2. CASE ~Fail
    <2>1. addrstack' = addrstack
      BY <1>2 DEF CallUserFunction
    <2> QED
      BY <2>1, NobodyWaits
  <1> QED
    BY <1>1, <1>2

\* A loop calls builtins that run no Lisp; what calls anything else is no loop.
LEMMA LoopsCallNoLisp ==
  ASSUME LoopsJump, IInv, NEW op \in {"call", "dispatch"}, At(op), curfunc.f \in LoopFun
  PROVE  op = "call" /\ I.s \in Builtins \ ReentrantBuiltins
  <1>1. /\ curfunc.f.code \in Seq(Instr) /\ Len(curfunc.f.code) \in Nat
        /\ pc \in 0 .. Len(curfunc.f.code) - 1 /\ I.op = op
    BY Standing DEF IInv
  <1>2. pc + 1 \in DOMAIN curfunc.f.code
    BY <1>1, LenProperties
  <1> QED
    BY <1>1, <1>2 DEF LoopsJump, CallsNoLisp, I

\* An application by a builtin leaves the address of the builtin (Apply).
LEMMA BuiltinWaits ==
  ASSUME IInv, TailCallsStayInFrame, ApplyStep
  PROVE  TailCallsStayInFrame'
  <1>1. status = "go"
    BY DEF ApplyStep
  <1>2. Live /\ curfunc.f \notin LoopFun /\ -2 \in Int /\ Position(curfunc, -2 + 1)
    BY <1>1, InBuiltin DEF Live, LoopFun, Position
  <1>3. addrstack' = addrstack \/ addrstack' = Append(addrstack, Address(-2, FALSE))
    BY DEF ApplyStep, CallFunction
  <1> QED
    BY <1>2, <1>3, NobodyWaits, OthersWait

\* Every step keeps loops from waiting, if their code does.
LEMMA LoopsNeverWait ==
  ASSUME LoopsJump, IInv, TailCallsStayInFrame, [Next]_vars
  PROVE  TailCallsStayInFrame'
  <1>1. CASE Call
    <2>1. At("call") /\ Live
      BY <1>1 DEF Call, At, Live
    <2>2. CASE I.s \in Builtins
      <3> DEFINE fn == FnV(UserFunction(I.s), <<>>)
      <3>1. fn \in Closure /\ fn.f.user /\ fn.f.name = I.s
        BY <2>2, UserFunctionRuns
      <3>2. CallUserFunction(fn, I.s, I.n, datastack)
        BY <1>1, <2>2 DEF Call
      <3> HIDE DEF fn
      <3>3. CASE curfunc.f \in LoopFun
        <4>1. I.s \notin ReentrantBuiltins
          BY <2>1, <3>3, LoopsCallNoLisp
        <4> QED
          BY <2>1, <3>1, <3>2, <4>1, NothingToWaitFor
      <3>4. CASE curfunc.f \notin LoopFun
        <4>1. CallObject(fn, I.s, I.n, datastack)
          BY <3>1, <3>2 DEF CallObject
        <4> QED
          BY <2>1, <3>4, <4>1, CallerWaits
      <3> QED
        BY <3>3, <3>4
    <2>3. CASE I.s \notin Builtins
      <3>1. curfunc.f \notin LoopFun
        BY <2>1, <2>3, LoopsCallNoLisp
      <3>2. addrstack' = addrstack \/ CallObject(Innermost(I.s, 1), I.s, I.n, datastack)
        BY <1>1, <2>3 DEF Call
      <3> QED
        BY <2>1, <3>1, <3>2, CallerWaits, NobodyWaits
    <2> QED
      BY <2>2, <2>3
  <1>2. CASE Dispatch
    <2>1. At("dispatch") /\ Live
      BY <1>2 DEF Dispatch, At, Live
    <2>2. curfunc.f \notin LoopFun
      BY <2>1, LoopsCallNoLisp
    <2>3. addrstack' = addrstack \/ CallObject(Top, IF Top.k = "fn" THEN Top.f.name ELSE "", I.n, Below)
      BY <1>2 DEF Dispatch
    <2> QED
      BY <2>1, <2>2, <2>3, CallerWaits, NobodyWaits
  <1>3. CASE Return
    BY <1>3, NobodyWaits DEF Return, At, Live
  <1>4. CASE Jump \/ Goto \/ Branch
    BY <1>4, NobodyWaits DEF Jump, Goto, Branch, Control, At, Live
  <1>5. CASE PushValue \/ PopValue \/ Duplicate \/ Get \/ Explode
    BY <1>5, NobodyWaits DEF PushValue, PopValue, Duplicate, Get, Explode, Operands, Control, At, Live
  <1>6. CASE Put \/ PushClosure \/ AddScope \/ RemoveScope
    BY <1>6, NobodyWaits DEF Put, PushClosure, AddScope, RemoveScope, At, Live
  <1>7. CASE Squash \/ Vectorize \/ ReturnError
    BY <1>7, NobodyWaits DEF Squash, Vectorize, Gather, ReturnError, Control, At, Live
  <1>8. CASE SourceStep \/ BuiltinReturn \/ Finish
    BY <1>8, NobodyWaits DEF SourceStep, BuiltinReturn, Finish, Live
  <1>9. CASE ApplyStep
    BY <1>9, BuiltinWaits
  <1>10. CASE Run \/ Recover \/ LoadFails \/ \E p \in Piece : Load(p)
    BY <1>10, NobodyWaits DEF Run, Recover, LoadFails, Load, Live
  <1>11. CASE UNCHANGED vars
    BY <1>11 DEF vars, TailCallsStayInFrame, Live
  <1> QED
    BY <1>1, <1>2, <1>3, <1>4, <1>5, <1>6, <1>7, <1>8, <1>9, <1>10, <1>11
       DEF Next, Machine, Instruction, GoCode

\* If the functions of loops call nothing but builtins that run no Lisp, as they do
\* when their recursion is compiled to jumps, no return address is ever theirs: a
\* loop runs in constant space in whatever program it is, called by other
\* functions, applied by builtins, or after errors (GenerateCallBySymbol,
\* GotoInstr, CallFunction, CallUserFunction, Apply).
THEOREM LoopsRunInConstantSpace == ASSUME LoopsJump PROVE Spec => []TailCallsStayInFrame
  <1>1. Init => TailCallsStayInFrame
    <2> SUFFICES ASSUME Init PROVE TailCallsStayInFrame
      OBVIOUS
    <2>1. DOMAIN addrstack = {}
      BY EmptySeq, LenProperties DEF Init
    <2> QED
      BY <2>1 DEF TailCallsStayInFrame
  <1>2. IInv /\ TailCallsStayInFrame /\ [Next]_vars => TailCallsStayInFrame'
    BY LoopsNeverWait
  <1> QED
    BY <1>1, <1>2, Invariance, PTL DEF Spec
=============================================================================
