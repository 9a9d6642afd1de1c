------------------------------ MODULE GlispVM -------------------------------
(***************************************************************************)
(* The stack machine of one Glisp environment: vm.go, the calls and the    *)
(* load/run/recover operations of environment.go, and the builtins that    *)
(* run the machine again from inside a call (apply, map, foldl, foldr,     *)
(* source-file).  One action is one instruction, one step of such a        *)
(* builtin's Go loop, or one host operation.                               *)
(*                                                                         *)
(* Stacks grow to the right.  A scope is a map kept in the heap `scopes`   *)
(* under an id, so that closures, callers and let forms that share a Go    *)
(* map share it here; id 1 is the global scope.  The fields native, depth  *)
(* and view of an address and entry of an activation are auxiliary: they   *)
(* tie the stacks together in the invariants and no action reads them.     *)
(* A definition named Mut_ is used by no action: it is a faulty form of    *)
(* the one below it, with which a property of the runs must fail.          *)
(***************************************************************************)
EXTENDS Sexp, SequencesExt

CONSTANTS
  Piece,        \* the texts a host may load
  PieceCode,    \* [Piece -> code], what the generator emits for each
  FileCode,     \* code of each file source-file can open
  Fun,          \* every function literal: builtins and those in the code
  Instr,        \* every instruction
  Builtins,     \* names a call finds before it looks at any scope
  LoopPiece,    \* texts whose functions recurse in tail position only
  Prim(_, _, _),\* result of a builtin that runs no Lisp: [ok, val]
  MaxLoads      \* bound: texts loaded in one behaviour

Folds == {"foldl", "foldr"}
ReentrantBuiltins == {"apply", "map", "source-file"} \cup Folds

ScopeId == Nat \ {0}
Global  == 1

TopLevel == {"__main", "__source"}
FunName  == TopLevel \cup {"__missing"} \cup {lit.name : lit \in Fun}

FunLit   == [name : FunName, user : BOOLEAN, nargs : Nat, varargs : BOOLEAN, code : Seq(Instr)]
Closure  == [k : {"fn"}, f : Fun, close : Seq(ScopeId)]
Callable == [k : {"fn"}, f : FunLit, close : Seq(ScopeId)]

PopInstr == [op |-> "pop"]

\* Main and sourced code runs to its end: it contains no ret, and no goto, which
\* only tail calls compile to.
TopLevelCode == {code \in Seq(Instr) : \A i \in 1 .. Len(code) : code[i].op \notin {"ret", "goto"}}

\* A function's code ends with a ret and jumps nowhere but to its instructions,
\* so that the machine never runs off its end.
Stays(code) ==
  /\ code # <<>> /\ code[Len(code)].op = "ret"
  /\ \A i \in 1 .. Len(code) :
       /\ code[i].op \in {"jump", "br"} => i - 1 + code[i].loc \in 0 .. Len(code) - 1
       /\ code[i].op = "goto" => code[i].loc \in 0 .. Len(code) - 1

ASSUME CodeAssumption ==
  /\ PopInstr \in Instr /\ LoopPiece \subseteq Piece
  /\ \A i \in Instr : i.op = "pushc" => i.f \in Fun
  /\ \A i \in Instr : i.op \in {"jump", "br", "goto"} => i.loc \in Int
  /\ Fun \subseteq FunLit
  /\ \A lit \in Fun : lit.name \notin TopLevel /\ (~lit.user => Stays(lit.code))
  /\ \A p \in Piece : PieceCode[p] \in TopLevelCode
  /\ \A f \in DOMAIN FileCode : FileCode[f] \in TopLevelCode
  /\ MaxLoads \in Nat

\* The positions the machine may be at after it executed the instruction at
\* position p.
Behind(code, p) ==
  CASE code[p + 1].op = "jump" -> {p + code[p + 1].loc}
    [] code[p + 1].op = "br"   -> {p + 1, p + code[p + 1].loc}
    [] code[p + 1].op = "goto" -> {code[p + 1].loc}
    [] code[p + 1].op \in {"ret", "reterr"} -> {}
    [] OTHER -> {p + 1}

\* How many scopes an instruction opens.
Opens(instr) == IF instr.op = "addscope" THEN 1 ELSE IF instr.op = "remscope" THEN -1 ELSE 0

\* A count of open scopes for every position of the code (the end is one): none
\* where it begins, and never more behind an instruction than that leaves.  So
\* the code removes no scope that it has not added.
CountsScopes(open, code) ==
  /\ open \in [1 .. Len(code) + 1 -> Nat] /\ open[1] = 0
  /\ \A p \in 0 .. Len(code) - 1 :
       /\ code[p + 1].op = "remscope" => open[p + 1] > 0
       /\ \A q \in Behind(code, p) :
            q \in 0 .. Len(code) /\ open[q + 1] <= open[p + 1] + Opens(code[p + 1])

\* Such a count, for code that jumps back to its beginning only.
ScopesIn(code) ==
  LET before(open, q) ==
        Append(open, Min({open[p + 1] + Opens(code[p + 1]) : p \in {r \in 0 .. q - 1 : q \in Behind(code, r)}}
                         \cup {Len(code)}))
  IN FoldLeft(before, <<0>>, [q \in 1 .. Len(code) |-> q])

\* The code of every text, file and script function.
Codes == {PieceCode[p] : p \in Piece} \cup {FileCode[f] : f \in DOMAIN FileCode}
         \cup {lit.code : lit \in {lit \in Fun : ~lit.user}}

ASSUME ScopeAssumption == \A code \in Codes : CountsScopes(ScopesIn(code), code)

\* A count of open scopes that is exact: on whatever path an instruction is
\* reached, the same number of scopes is open there, and none is where the code
\* ends or returns.  At -1 is what no path reaches.
Balances(open, code) ==
  /\ open \in [1 .. Len(code) + 1 -> Nat \cup {-1}]
  /\ open[1] = 0 /\ open[Len(code) + 1] \in {0, -1}
  /\ \A p \in 0 .. Len(code) - 1 :
       open[p + 1] # -1 =>
         /\ code[p + 1].op = "remscope" => open[p + 1] > 0
         /\ code[p + 1].op = "ret" => open[p + 1] = 0
         /\ \A q \in Behind(code, p) :
              q \in 0 .. Len(code) /\ open[q + 1] = open[p + 1] + Opens(code[p + 1])

\* Such a count, if there is one, for code that jumps back to its beginning only.
BalanceIn(code) ==
  LET before(open, q) ==
        Append(open, Max({-1} \cup {open[p + 1] + Opens(code[p + 1]) :
                                    p \in {r \in 0 .. q - 1 : open[r + 1] # -1 /\ q \in Behind(code, r)}}))
  IN FoldLeft(before, <<0>>, [q \in 1 .. Len(code) |-> q])

\* All code closes the scopes it opens.  The compiler emits such code for programs
\* whose operands all compile.
ScopesBalanced == \A code \in Codes : Balances(BalanceIn(code), code)

\* The functions that code makes, and those of the texts that are loops.
Defined(code) ==
  {code[i].f : i \in {j \in DOMAIN code : code[j].op = "pushc"}}
  \cup {code[i].v.f : i \in {j \in DOMAIN code : code[j].op = "push" /\ code[j].v.k = "fn"}}
LoopFun == {lit \in UNION {Defined(PieceCode[p]) : p \in LoopPiece} : ~lit.user}

\* All that loops call is builtins that run no Lisp: their recursion is compiled to
\* jumps.
CallsNoLisp(code) ==
  \A i \in DOMAIN code :
    /\ code[i].op # "dispatch"
    /\ code[i].op = "call" => code[i].s \in Builtins \ ReentrantBuiltins
LoopsJump == \A lit \in LoopFun : CallsNoLisp(lit.code)

UserFunctions == {lit \in Fun : lit.user}
UserFunction(name) == CHOOSE lit \in UserFunctions : lit.name = name

ASSUME BuiltinAssumption ==
  /\ Builtins \cup {"source-file"} = {lit.name : lit \in UserFunctions}
  /\ "source-file" \notin Builtins

VARIABLES
  datastack,   \* operands
  scopestack,  \* ids of the scopes in view, innermost last
  addrstack,   \* return addresses
  stackstack,  \* scope stacks of the callers of script functions
  scopes,      \* heap of scopes
  nscopes,     \* ids handed out so far
  mainfunc,    \* what the texts loaded so far compiled to
  curfunc, pc, \* the function that runs and its next instruction
  gostack,     \* Go activations of the builtins that run the machine again
  status,      \* idle, run, go (in such a builtin), failed, exited, panicked
  result,      \* what the last Run returned
  loads

vars == <<datastack, scopestack, addrstack, stackstack, scopes, nscopes, mainfunc,
          curfunc, pc, gostack, status, result, loads>>
scoping == <<scopestack, stackstack, scopes, nscopes>>
hosting == <<mainfunc, result, loads>>

Script(name, code) == FnV(MakeFunction(name, 0, FALSE, code), <<>>)
MissingFunction    == FnV(MakeUserFunction("__missing"), <<>>)

Init ==
  /\ datastack = <<>> /\ addrstack = <<>> /\ stackstack = <<>> /\ gostack = <<>>
  /\ scopes = <<[s \in {lit.name : lit \in UserFunctions} |-> FnV(UserFunction(s), <<>>)]>>
  /\ nscopes = Global
  /\ scopestack = <<Global>>
  /\ mainfunc = Script("__main", <<>>)
  /\ curfunc = mainfunc
  /\ pc = 0
  /\ status = "idle"
  /\ result = Null
  /\ loads = 0

-----------------------------------------------------------------------------
(* Reading the machine *)

CodeSize   == IF curfunc.f.user THEN 0 ELSE Len(curfunc.f.code)
ReachedEnd == pc = CodeSize
IsDone     == pc = -1 \/ ReachedEnd

I      == curfunc.f.code[pc + 1]
At(op) == status = "run" /\ ~IsDone /\ I.op = op

Ready(n) == Len(datastack) >= n
Top      == Last(datastack)
Below    == Front(datastack)
Bottom(d, n)  == SubSeq(d, 1, Len(d) - n)
Highest(d, n) == SubSeq(d, Len(d) - n + 1, Len(d))

\* Scopes of the scope stack, from position `from` up, that bind s.
Binding(s, from) == {i \in from .. Len(scopestack) : s \in DOMAIN scopes[scopestack[i]]}
Innermost(s, from) == scopes[scopestack[Max(Binding(s, from))]][s]

\* The machine stops and its error travels through every Go call to the host.
Fail == status' = "failed" /\ gostack' = <<>>

Next1 == pc' = pc + 1
Push(v) == datastack' = Append(datastack, v)

-----------------------------------------------------------------------------
(* Calls *)

Mut_AddressTooFar(p, native) ==
  [fn |-> curfunc, pc |-> p + 2, native |-> native, depth |-> Len(stackstack), view |-> Len(scopestack)]

\* The address after instruction p.  The callee is a builtin (native) or a
\* script function, called with `view` scopes in view and `depth` scope stacks
\* set aside.
Address(p, native) ==
  [fn |-> curfunc, pc |-> p + 1, native |-> native, depth |-> Len(stackstack), view |-> Len(scopestack)]

\* The callee sees the global scope, the scopes it closed over and a new one;
\* its caller's are set aside.
Mut_ViewWithoutGlobal(fn) == fn.close \o <<nscopes + 1>>
View(fn) == <<scopestack[1]>> \o fn.close \o <<nscopes + 1>>
Mut_SetNothingAside == stackstack
SetAside == Append(stackstack, scopestack)

\* CallFunction, with operands d and instruction p.
CallFunction(fn, n, d, p) ==
  LET lit   == fn.f
      extra == n - lit.nargs
      packed == IF ~lit.varargs THEN d
                ELSE IF extra = 0 THEN Append(d, Null)
                ELSE Append(Bottom(d, extra), ListV(Highest(d, extra)))
  IN IF extra < 0 \/ (extra > 0 /\ (~lit.varargs \/ Len(d) < extra))
     THEN /\ datastack' = d /\ pc' = p
          /\ Fail
          /\ UNCHANGED <<scoping, addrstack, curfunc>>
     ELSE IF scopestack = <<>>
     THEN /\ datastack' = packed /\ pc' = p
          /\ status' = "panicked" /\ gostack' = <<>>
          /\ UNCHANGED <<scoping, addrstack, curfunc>>
     ELSE /\ datastack' = packed
          /\ stackstack' = SetAside
          /\ nscopes' = nscopes + 1
          /\ scopes' = Append(scopes, <<>>)
          /\ scopestack' = View(fn)
          /\ addrstack' = Append(addrstack, Address(p, FALSE))
          /\ curfunc' = fn
          /\ pc' = 0
          /\ status' = "run"
          /\ UNCHANGED gostack

\* set!: symbols and values alternate; each value goes to the innermost scope
\* that binds its symbol, and what was set before an error stays set.
SetFunction(args) ==
  LET store(acc, i) ==
        LET s == args[i].s
            holder == scopestack[Max(Binding(s, 1))]
        IN IF ~acc.ok \/ args[i].k # "sym" THEN [acc EXCEPT !.ok = FALSE]
           ELSE IF i = Len(args) THEN acc
           ELSE IF Binding(s, 1) = {} THEN [acc EXCEPT !.ok = FALSE]
           ELSE [acc EXCEPT !.scopes[holder][s] = args[i + 1]]
      symbols == SelectSeq([i \in 1 .. Len(args) |-> i], LAMBDA i : i % 2 = 1)
  IN FoldLeft(store, [ok |-> Len(args) >= 2, val |-> args[1], scopes |-> scopes], symbols)

\* A builtin that runs no Lisp.  It gets the name it was called by, which
\* differs from its own when a program renamed it.
RunBuiltin(fn, name, args) ==
  IF fn.f.name = "set!" THEN SetFunction(args)
  ELSE LET r == Prim(fn.f.name, name, args) IN [ok |-> r.ok, val |-> r.val, scopes |-> scopes]

\* The arguments such a builtin takes; the folds over strings and data and
\* what walks a hash are left out.
Sequence(v) == v.k = "arr" \/ IsPair(v)
Accepts(kind, args) ==
  CASE kind = "apply" -> Len(args) = 2 /\ args[1].k = "fn" /\ args[2].k \in {"list", "arr"}
    [] kind = "map"   -> Len(args) = 2 /\ args[1].k = "fn" /\ Sequence(args[2])
    [] kind \in Folds -> Len(args) >= 3 /\ args[2].k = "fn" /\ Sequence(args[1])
    [] OTHER          -> Len(args) >= 1

\* The Go loop of a builtin that runs the machine: what it applies, to which
\* argument lists (source-file: to which files), what it has so far, and
\* whether CallUserFunction called it (own) or another such builtin did.
Activation(fn, args, own) ==
  LET kind  == fn.f.name
      xs    == args[IF kind \in Folds THEN 1 ELSE 2].xs
      each(vs) == [i \in DOMAIN vs |-> <<vs[i]>>]
  IN [kind  |-> kind,
      own   |-> own,
      entry |-> IF own THEN Len(addrstack) + 1 ELSE Len(addrstack),
      f     |-> args[IF kind \in Folds THEN 2 ELSE 1],
      todo  |-> CASE kind = "apply" -> <<xs>>
                  [] kind = "foldr" -> Reverse(each(xs))
                  [] kind = "source-file" -> each(args)
                  [] OTHER -> each(xs),
      acc   |-> CASE kind \in Folds -> args[3]
                  [] kind = "map" -> [args[2] EXCEPT !.xs = <<>>]
                  [] OTHER -> Null]

\* What the Go loop does with the value an application returned: map collects
\* them, and the others go on with the last.
Mut_FeedInReverse(frame, v) ==
  [kind |-> frame.kind, own |-> frame.own, entry |-> frame.entry, f |-> frame.f,
   todo |-> Tail(frame.todo),
   acc  |-> IF frame.kind = "map" THEN [frame.acc EXCEPT !.xs = <<v>> \o @] ELSE v]
Feed(frame, v) ==
  [kind |-> frame.kind, own |-> frame.own, entry |-> frame.entry, f |-> frame.f,
   todo |-> Tail(frame.todo),
   acc  |-> IF frame.kind = "map" THEN [frame.acc EXCEPT !.xs = Append(@, v)] ELSE v]

\* CallUserFunction, with operands d.  An error leaves the call on addrstack.
CallUserFunction(fn, name, n, d) ==
  LET args   == Highest(d, n)
      entry  == Append(addrstack, Address(pc, TRUE))
      r      == RunBuiltin(fn, name, args)
      enter  == addrstack' = entry /\ curfunc' = fn /\ pc' = -1
  IN IF Len(d) < n
     THEN datastack' = d /\ Fail /\ UNCHANGED <<scoping, addrstack, curfunc, pc>>
     ELSE IF fn.f.name \in ReentrantBuiltins
     THEN /\ datastack' = Bottom(d, n) /\ enter /\ UNCHANGED scoping
          /\ IF Accepts(fn.f.name, args)
             THEN gostack' = Append(gostack, Activation(fn, args, TRUE)) /\ status' = "go"
             ELSE Fail
     ELSE /\ scopes' = r.scopes
          /\ UNCHANGED <<scopestack, stackstack, nscopes>>
          /\ IF r.ok
             THEN datastack' = Append(Bottom(d, n), r.val) /\ Next1
                  /\ UNCHANGED <<addrstack, curfunc, status, gostack>>
             ELSE datastack' = Bottom(d, n) /\ enter /\ Fail

CallObject(v, name, n, d) ==
  IF v \notin Closure
  THEN datastack' = d /\ Fail /\ UNCHANGED <<scoping, addrstack, curfunc, pc>>
  ELSE IF v.f.user THEN CallUserFunction(v, name, n, d) ELSE CallFunction(v, n, d, pc)

Call ==
  /\ At("call")
  /\ IF I.s \in Builtins
     THEN CallUserFunction(FnV(UserFunction(I.s), <<>>), I.s, I.n, datastack)
     ELSE IF Binding(I.s, 1) = {}
     THEN Fail /\ UNCHANGED <<datastack, scoping, addrstack, curfunc, pc>>
     ELSE CallObject(Innermost(I.s, 1), I.s, I.n, datastack)
  /\ UNCHANGED hosting

Dispatch ==
  /\ At("dispatch")
  /\ IF Ready(1)
     THEN CallObject(Top, IF Top.k = "fn" THEN Top.f.name ELSE "", I.n, Below)
     ELSE Fail /\ UNCHANGED <<datastack, scoping, addrstack, curfunc, pc>>
  /\ UNCHANGED hosting

\* ReturnFromFunction
Return ==
  /\ At("ret")
  /\ IF addrstack = <<>>
     THEN /\ curfunc' = MissingFunction /\ pc' = 0
          /\ Fail /\ UNCHANGED <<addrstack, scoping>>
     ELSE /\ curfunc' = Last(addrstack).fn /\ pc' = Last(addrstack).pc
          /\ addrstack' = Front(addrstack)
          /\ IF stackstack = <<>> THEN Fail /\ UNCHANGED scoping
             ELSE /\ scopestack' = Last(stackstack)
                  /\ stackstack' = Front(stackstack)
                  /\ UNCHANGED <<scopes, nscopes, status, gostack>>
  /\ UNCHANGED <<datastack, hosting>>

-----------------------------------------------------------------------------
(* The other instructions *)

Control == <<scoping, addrstack, curfunc, hosting>>

\* An instruction that changes the operands only, or fails and changes nothing.
Operands(ready, d) ==
  /\ IF ready THEN datastack' = d /\ Next1 /\ UNCHANGED <<status, gostack>>
              ELSE Fail /\ UNCHANGED <<datastack, pc>>
  /\ UNCHANGED Control

JumpTo(loc) ==
  IF loc \in 0 .. CodeSize THEN pc' = loc /\ UNCHANGED <<status, gostack>>
                           ELSE Fail /\ UNCHANGED pc

Mut_JumpStaysPut == At("jump") /\ JumpTo(pc) /\ UNCHANGED <<datastack, Control>>
Jump == At("jump") /\ JumpTo(pc + I.loc) /\ UNCHANGED <<datastack, Control>>
Goto == At("goto") /\ JumpTo(I.loc) /\ UNCHANGED <<datastack, Control>>

Branch ==
  /\ At("br")
  /\ IF ~Ready(1) THEN Fail /\ UNCHANGED <<datastack, pc>>
     ELSE /\ datastack' = Below
          /\ IF I.dir = IsTruthy(Top) THEN JumpTo(pc + I.loc)
                                      ELSE Next1 /\ UNCHANGED <<status, gostack>>
  /\ UNCHANGED Control

PushValue == At("push") /\ Operands(TRUE, Append(datastack, I.v))
Duplicate == At("dup")  /\ Operands(Ready(1), Append(datastack, Top))
Get       == At("get")  /\ Operands(Binding(I.s, 1) # {}, Append(datastack, Innermost(I.s, 1)))

\* pop counts itself executed even when there was nothing to pop.
PopValue ==
  /\ At("pop") /\ Next1
  /\ IF Ready(1) THEN datastack' = Below /\ UNCHANGED <<status, gostack>>
                 ELSE Fail /\ UNCHANGED datastack
  /\ UNCHANGED Control

Mut_BoundOnce(s, v) == [scopes EXCEPT ![Last(scopestack)] = @ @@ (s :> v)]
Bound(s, v) == [scopes EXCEPT ![Last(scopestack)] = (s :> v) @@ @]
Put ==
  /\ At("put")
  /\ IF ~Ready(1) THEN Fail /\ UNCHANGED <<datastack, pc, scopes>>
     ELSE /\ datastack' = Below /\ Next1
          /\ IF scopestack = <<>> THEN Fail /\ UNCHANGED scopes
             ELSE /\ scopes' = Bound(I.s, Top)
                  /\ UNCHANGED <<status, gostack>>
  /\ UNCHANGED <<scopestack, stackstack, nscopes, addrstack, curfunc, hosting>>

\* fn: the symbols that the function's own instructions name are copied out of
\* the non-global scopes in view into one new scope, the closure.
PushClosure ==
  LET uses     == {i \in DOMAIN I.f.code : I.f.code[i].op \in {"get", "put", "call"}}
      captured == {s \in {I.f.code[i].s : i \in uses} : Binding(s, 2) # {}}
  IN /\ At("pushc")
     /\ nscopes' = nscopes + 1
     /\ scopes' = Append(scopes, [s \in captured |-> Innermost(s, 2)])
     /\ Push(FnV(I.f, <<nscopes + 1>>)) /\ Next1
     /\ UNCHANGED <<scopestack, stackstack, addrstack, curfunc, gostack, status, hosting>>

AddScope ==
  /\ At("addscope") /\ Next1
  /\ nscopes' = nscopes + 1
  /\ scopes' = Append(scopes, <<>>)
  /\ scopestack' = Append(scopestack, nscopes + 1)
  /\ UNCHANGED <<datastack, stackstack, addrstack, curfunc, gostack, status, hosting>>

RemoveScope ==
  /\ At("remscope") /\ Next1
  /\ IF scopestack = <<>> THEN Fail /\ UNCHANGED scopestack
     ELSE scopestack' = Front(scopestack) /\ UNCHANGED <<status, gostack>>
  /\ UNCHANGED <<datastack, stackstack, scopes, nscopes, addrstack, curfunc, hosting>>

\* explode replaces a list by its elements; squash and vectorize gather what
\* was pushed since the last marker.
Explode ==
  /\ At("explode")
  /\ IF ~Ready(1) THEN Fail /\ UNCHANGED <<datastack, pc>>
     ELSE IF Top.k = "list" THEN datastack' = Below \o Top.xs /\ Next1 /\ UNCHANGED <<status, gostack>>
     ELSE datastack' = Below /\ Fail /\ UNCHANGED pc
  /\ UNCHANGED Control

Marks == {i \in DOMAIN datastack : datastack[i] = Marker}
Gather(Make(_)) ==
  LET m == Max(Marks)
  IN /\ IF Marks # {}
        THEN datastack' = Append(SubSeq(datastack, 1, m - 1),
                                 Make(SubSeq(datastack, m + 1, Len(datastack))))
             /\ Next1 /\ UNCHANGED <<status, gostack>>
        ELSE datastack' = <<>> /\ Fail /\ UNCHANGED pc
     /\ UNCHANGED Control
Squash    == At("squash") /\ Gather(ListV)
Vectorize == At("vectorize") /\ Gather(ArrV)

\* assert's instruction: a return that carries an error.
ReturnError == At("reterr") /\ Fail /\ UNCHANGED <<datastack, pc, Control>>

-----------------------------------------------------------------------------
(* Go code around the machine *)

Frame == Last(gostack)

\* A text is separated by a pop from code that has not run to its end.
Mut_NoGlue == <<>>
Glue == IF ReachedEnd THEN <<>> ELSE <<PopInstr>>

\* source-file takes the items of a sequence one by one, the sequences in it
\* too.
Unpack(frame) ==
  LET items == Head(frame.todo)[1].xs
  IN [kind |-> frame.kind, own |-> frame.own, entry |-> frame.entry, f |-> frame.f, acc |-> frame.acc,
      todo |-> [i \in DOMAIN items |-> <<items[i]>>] \o Tail(frame.todo)]

\* SourceExpressions, for a file: run its code under this one.
SourceStep ==
  LET item == Head(Frame.todo)[1]
  IN /\ status = "go" /\ Frame.kind = "source-file" /\ Frame.todo # <<>>
     /\ IF Sequence(item)
        THEN gostack' = Append(Front(gostack), Unpack(Frame)) /\ UNCHANGED <<curfunc, pc, datastack, status>>
        ELSE IF item.k = "str" /\ item.t \in DOMAIN FileCode
        THEN /\ curfunc' = Script("__source", Glue \o FileCode[item.t])
             /\ pc' = 0
             /\ Push(Null)
             /\ status' = "run"
             /\ UNCHANGED gostack
        ELSE Fail /\ UNCHANGED <<curfunc, pc, datastack>>
     /\ UNCHANGED <<scoping, addrstack, hosting>>

\* env.Apply of the builtin's function to its next arguments.
ApplyStep ==
  LET fn   == Frame.f
      args == Head(Frame.todo) \o (IF Frame.kind \in Folds THEN <<Frame.acc>> ELSE <<>>)
      r    == RunBuiltin(fn, fn.f.name, args)
  IN /\ status = "go" /\ Frame.kind # "source-file" /\ Frame.todo # <<>>
     /\ IF fn \notin Closure THEN Fail /\ UNCHANGED <<datastack, scoping, addrstack, curfunc, pc>>
        ELSE IF ~fn.f.user THEN CallFunction(fn, Len(args), datastack \o args, -2)
        ELSE IF fn.f.name \in ReentrantBuiltins
        THEN /\ IF Accepts(fn.f.name, args)
                THEN gostack' = Append(gostack, Activation(fn, args, FALSE)) /\ UNCHANGED status
                ELSE Fail
             /\ UNCHANGED <<datastack, scoping, addrstack, curfunc, pc>>
        ELSE /\ scopes' = r.scopes
             /\ IF r.ok THEN gostack' = Append(Front(gostack), Feed(Frame, r.val)) /\ UNCHANGED status
                        ELSE Fail
             /\ UNCHANGED <<datastack, scopestack, stackstack, nscopes, addrstack, curfunc, pc>>
     /\ UNCHANGED hosting

\* The builtin returns, to CallUserFunction or to the builtin that applied it.
BuiltinReturn ==
  LET v == Frame.acc
      caller == Front(gostack)
  IN /\ status = "go" /\ Frame.todo = <<>>
     /\ IF Frame.own
        THEN /\ Push(v)
             /\ IF addrstack = <<>>
                THEN curfunc' = MissingFunction /\ pc' = 0 /\ UNCHANGED addrstack
                ELSE /\ curfunc' = Last(addrstack).fn /\ pc' = Last(addrstack).pc
                     /\ addrstack' = Front(addrstack)
             /\ gostack' = caller
             /\ status' = "run"
        ELSE /\ gostack' = Append(Front(caller), Feed(Last(caller), v))
             /\ UNCHANGED <<datastack, curfunc, pc, addrstack, status>>
     /\ UNCHANGED <<scoping, hosting>>

\* Finish: Run has reached the end of its code and returns the top operand, to
\* the host, to env.Apply, or to SourceExpressions, which drops one operand
\* more (the null it pushed first, if the sourced code has not popped it) and
\* restores the builtin that runs (which one matters to stack traces only).
\* Without an operand the process exits.
Finish ==
  /\ status = "run" /\ IsDone
  /\ IF ~Ready(1)
     THEN status' = "exited" /\ UNCHANGED <<datastack, curfunc, pc, gostack, result>>
     ELSE IF gostack = <<>>
     THEN /\ status' = "idle" /\ datastack' = Below /\ result' = Top
          /\ UNCHANGED <<curfunc, pc, gostack>>
     ELSE IF Frame.kind = "source-file"
     THEN /\ datastack' = IF Ready(2) THEN Front(Below) ELSE <<>>
          /\ curfunc' = FnV(UserFunction("source-file"), <<>>) /\ pc' = -1
          /\ gostack' = Append(Front(gostack), Feed(Frame, Null))
          /\ status' = "go" /\ UNCHANGED result
     ELSE /\ datastack' = Below
          /\ gostack' = Append(Front(gostack), Feed(Frame, Top))
          /\ status' = "go" /\ UNCHANGED <<curfunc, pc, result>>
  /\ UNCHANGED <<scoping, addrstack, mainfunc, loads>>

-----------------------------------------------------------------------------
(* The host *)

\* LoadExpressions: the code of a text is appended to main.
Load(p) ==
  LET main == Script("__main", mainfunc.f.code \o Glue \o PieceCode[p])
  IN /\ status = "idle" /\ loads < MaxLoads
     /\ mainfunc' = main /\ curfunc' = main
     /\ loads' = loads + 1
     /\ UNCHANGED <<datastack, scoping, addrstack, pc, gostack, status, result>>

\* It returns an error, from the parser or the generator, and changes nothing.
LoadFails ==
  /\ status = "idle" /\ loads < MaxLoads
  /\ loads' = loads + 1 /\ Fail
  /\ UNCHANGED <<datastack, scoping, addrstack, mainfunc, curfunc, pc, result>>

Run ==
  /\ status = "idle" /\ ~IsDone
  /\ status' = "run"
  /\ UNCHANGED <<datastack, scoping, addrstack, curfunc, pc, gostack, hosting>>

\* After an error the host prints the stack trace, which empties addrstack,
\* and calls Clear, which keeps the scope at the bottom (were the stack empty,
\* the one last popped from there) and does not touch stackstack.
Mut_RecoverKeepingAddresses ==
  /\ status = "failed"
  /\ datastack' = <<>>
  /\ scopestack' = <<IF scopestack = <<>> THEN Global ELSE scopestack[1]>>
  /\ mainfunc' = Script("__main", <<>>) /\ curfunc' = mainfunc' /\ pc' = 0
  /\ status' = "idle"
  /\ UNCHANGED <<addrstack, stackstack, scopes, nscopes, gostack, result, loads>>
Recover ==
  /\ status = "failed"
  /\ datastack' = <<>> /\ addrstack' = <<>>
  /\ scopestack' = <<IF scopestack = <<>> THEN Global ELSE scopestack[1]>>
  /\ mainfunc' = Script("__main", <<>>) /\ curfunc' = mainfunc' /\ pc' = 0
  /\ status' = "idle"
  /\ UNCHANGED <<stackstack, scopes, nscopes, gostack, result, loads>>

Instruction ==
  \/ Call \/ Dispatch \/ Return
  \/ Jump \/ Goto \/ Branch
  \/ PushValue \/ PopValue \/ Duplicate \/ Get \/ Put
  \/ PushClosure \/ AddScope \/ RemoveScope
  \/ Explode \/ Squash \/ Vectorize \/ ReturnError

GoCode == SourceStep \/ ApplyStep \/ BuiltinReturn \/ Finish

Machine == Instruction \/ GoCode

Next == Machine \/ Run \/ Recover \/ LoadFails \/ \E p \in Piece : Load(p)

Spec == Init /\ [][Next]_vars /\ WF_vars(Machine)

-----------------------------------------------------------------------------
(* Safety *)

IsSequence(s) == s \in Seq({s[i] : i \in DOMAIN s})

\* A script function that was called, as opposed to a builtin and to code that
\* Load and source-file run in place.
Entered(fn) == ~fn.f.user /\ fn.f.name \notin TopLevel

\* The functions the machine may run, and the instructions it may stand at.
Runnable == {fn \in Callable :
               \/ fn.f.user
               \/ ~fn.f.user /\ fn.f.name \in TopLevel /\ fn.f.code \in TopLevelCode
               \/ Entered(fn) /\ Stays(fn.f.code)}
Position(fn, p) ==
  IF fn.f.user THEN p = -1
  ELSE p \in 0 .. IF Entered(fn) THEN Len(fn.f.code) - 1 ELSE Len(fn.f.code)

Live == status \in {"idle", "run", "go"}

\* The machine, and every address it can return to, stands at an instruction
\* of the function it is in, at the end of main or sourced code, or at the -1
\* that stands for a builtin: no step indexes outside a function's code.  The
\* data stack and the scopes are as untyped here as they are in Go.
TypeOK ==
  /\ scopestack \in Seq(ScopeId) /\ stackstack \in Seq(Seq(ScopeId)) /\ nscopes \in ScopeId
  /\ addrstack \in Seq([fn : Runnable, pc : Int, native : BOOLEAN, depth : Nat, view : Nat])
  /\ \A i \in DOMAIN addrstack : Position(addrstack[i].fn, addrstack[i].pc)
  /\ mainfunc \in Runnable /\ mainfunc.f.name = "__main" /\ ~mainfunc.f.user
  /\ curfunc \in Runnable
  /\ pc \in Int /\ (Live => Position(curfunc, pc))
  /\ IsSequence(gostack)
  /\ \A j \in DOMAIN gostack :
       gostack[j].kind \in ReentrantBuiltins /\ gostack[j].own \in BOOLEAN /\ gostack[j].entry \in Nat
  /\ status \in {"idle", "run", "go", "failed", "exited", "panicked"}
  /\ loads \in 0 .. MaxLoads

\* What the address at i was pushed to call, and the scope stacks set aside
\* once it was called.
Callee(i)   == IF i = Len(addrstack) THEN curfunc ELSE addrstack[i + 1].fn
HeightAt(i) == IF i = Len(addrstack) THEN Len(stackstack) ELSE addrstack[i + 1].depth

\* addrstack and stackstack, pushed and popped by different instructions and
\* cut by errors, stay in step: main is at the bottom, an address is native
\* exactly when a builtin (or the file it sources) runs above it, and each
\* script function that was called, and nothing else, has one scope stack set
\* aside (CallFunction, CallUserFunction, ReturnFromFunction, Clear).
FramesMatch ==
  Live =>
    /\ mainfunc = IF addrstack = <<>> THEN curfunc ELSE addrstack[1].fn
    /\ \A i \in DOMAIN addrstack :
         /\ Entered(Callee(i)) <=> ~addrstack[i].native
         /\ HeightAt(i) = addrstack[i].depth + (IF addrstack[i].native THEN 0 ELSE 1)

\* An activation that applies no other builtin at the moment.
Uppermost(j) == j = Len(gostack) \/ gostack[j + 1].own

\* The Go stack and addrstack agree: every native address belongs to one
\* activation that CallUserFunction started, in the same order, and the
\* activations that other builtins started sit on it.  Only source-file has
\* something run in its place that is no builtin, the file.  So a nested Run
\* returns to the builtin that started it, and a host that is not running
\* anything has nothing on any stack (Apply, Run, SourceExpressions).
ActivationsMatch ==
  Live =>
    /\ \A k \in DOMAIN addrstack :
         addrstack[k].native => \E j \in DOMAIN gostack : gostack[j].own /\ gostack[j].entry = k
    /\ \A j \in DOMAIN gostack :
         /\ gostack[j].entry \in DOMAIN addrstack /\ addrstack[gostack[j].entry].native
         /\ ~gostack[j].own => j > 1 /\ gostack[j - 1].entry = gostack[j].entry
         /\ \A i \in 1 .. j - 1 :
              /\ gostack[i].entry <= gostack[j].entry
              /\ gostack[j].own => gostack[i].entry < gostack[j].entry
         /\ Uppermost(j) /\ ~Callee(gostack[j].entry).f.user => gostack[j].kind = "source-file"
    /\ status = "go" => gostack # <<>> /\ Frame.entry = Len(addrstack) /\ curfunc.f.user
    /\ status = "idle" => gostack = <<>> /\ addrstack = <<>> /\ curfunc = mainfunc

\* The stacks together.
StacksMatch == FramesMatch /\ ActivationsMatch

\* A function that returns always has an address and a scope stack to return
\* to: neither of the errors of ReturnFromFunction can occur.
ReturnHasCaller == At("ret") => addrstack # <<>> /\ stackstack # <<>>

\* Between runs only the global scope is in view, whatever the last run did and
\* wherever it failed (Finish, Clear).
OnlyGlobalInView == status = "idle" => scopestack = <<Global>>

\* ... and the operands are gone.
AtRest == OnlyGlobalInView /\ (status = "idle" => datastack = <<>>)

\* The code that runs opens and closes its scopes alike on every path, texts that
\* are put together and the pop between them included (GenerateLet, the tail
\* call of GenerateCallBySymbol, LoadExpressions).
CodeCloses ==
  Live /\ ~curfunc.f.user => Balances(BalanceIn(curfunc.f.code), curfunc.f.code)

\* A function returns, and loops back to its first instruction, with the
\* scopes it was entered with: every let it left has been closed
\* (GenerateLet, the tail call of GenerateCallBySymbol, CallFunction).
ScopesClosed ==
  (At("ret") \/ (At("goto") /\ I.loc = 0)) => Len(scopestack) = Len(curfunc.close) + 2

\* A recursion that is all in tail position runs in its first call's frame: however
\* often it goes round, and whatever calls it, no return address is its own
\* (GenerateCallBySymbol, GotoInstr, CallUserFunction).
TailCallsStayInFrame ==
  Live => \A i \in DOMAIN addrstack : addrstack[i].fn.f \notin LoopFun

\* The global scope is at the bottom of the scope stack and of every one set
\* aside, so that "where's the global scope?" is never asked (CallFunction,
\* RemoveScope, the let scopes a tail call leaves).
GlobalAtBottom ==
  /\ \A i \in 0 .. Len(stackstack) :
       LET s == IF i = 0 THEN scopestack ELSE stackstack[i] IN s # <<>> /\ s[1] = Global
  /\ status # "panicked"
=============================================================================
