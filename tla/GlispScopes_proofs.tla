-------------------------- MODULE GlispScopes_proofs --------------------------
(***************************************************************************)
(* Scopes on a machine that cuts its stacks at any error.  The global      *)
(* scope is never lost, whatever code the compiler emits that removes no   *)
(* scope it has not added.  If code removes every scope it adds, functions *)
(* return with the scopes they were entered with, and a host that is idle  *)
(* has the global scope in view and nothing else.  Proofs of               *)
(* GlobalAtBottom, ScopesClosed and OnlyGlobalInView of GlispVM.           *)
(***************************************************************************)
EXTENDS GlispVM_proofs

-----------------------------------------------------------------------------
(* The inductive invariant *)

\* A scope stack with the global scope at its bottom.
Grounded(s) == s # <<>> /\ s[1] = Global

\* The scopes that the code at level i of addrstack found in view when it began,
\* which it may not remove: a builtin and the files it sources run in the view
\* of their caller; main and script functions have the global scope below them.
Floor(i) == IF i > 1 /\ addrstack[i - 1].native THEN addrstack[i - 1].view ELSE 1

\* At position p of fn, n scopes above the floor are enough for what follows.
Fits(fn, p, n) ==
  /\ n \in Nat
  /\ ~fn.f.user => \E open : CountsScopes(open, fn.f.code) /\ open[p + 1] <= n

\* The code that address i returns to finds the scopes it needs: the view it
\* called from had them, and a script function leaves that view on stackstack.
ViewFits(i) ==
  /\ addrstack[i].view > 0
  /\ Fits(addrstack[i].fn, addrstack[i].pc, addrstack[i].view - Floor(i))
ViewAside(i) ==
  ~addrstack[i].native =>
    /\ addrstack[i].depth < Len(stackstack)
    /\ Len(stackstack[addrstack[i].depth + 1]) >= addrstack[i].view
    /\ \A j \in DOMAIN addrstack : j > i /\ ~addrstack[j].native => addrstack[i].depth < addrstack[j].depth

CurrentFits == Fits(curfunc, pc, Len(scopestack) - Floor(Len(addrstack) + 1))

\* GlobalAtBottom is inductive once every function that runs or waits has the
\* scopes in view that its code will remove.
Scoped ==
  /\ GlobalAtBottom
  /\ Live => CurrentFits /\ \A i \in DOMAIN addrstack : ViewFits(i) /\ ViewAside(i)

-----------------------------------------------------------------------------
(* Scope stacks *)

\* The floor, the fits and the bottom of the next state.
LEMMA NextView ==
  /\ \A i \in Nat : Floor(i)' = IF i > 1 /\ addrstack'[i - 1].native THEN addrstack'[i - 1].view ELSE 1
  /\ \A i \in Nat :
       ViewFits(i)' <=> /\ addrstack'[i].view > 0
                        /\ Fits(addrstack'[i].fn, addrstack'[i].pc, addrstack'[i].view - Floor(i)')
  /\ CurrentFits' <=> Fits(curfunc', pc', Len(scopestack') - Floor(Len(addrstack) + 1)')
  <1>1. \A i \in Nat : Floor(i)' = IF i > 1 /\ addrstack'[i - 1].native THEN addrstack'[i - 1].view ELSE 1
    BY DEF Floor
  <1>2. ASSUME NEW i \in Nat
        PROVE  ViewFits(i)' <=> /\ addrstack'[i].view > 0
                                /\ Fits(addrstack'[i].fn, addrstack'[i].pc, addrstack'[i].view - Floor(i)')
    BY Zenon DEF ViewFits, Fits, CountsScopes, Behind, Opens
  <1>3. CurrentFits' <=> Fits(curfunc', pc', Len(scopestack') - Floor(Len(addrstack) + 1)')
    BY Zenon DEF CurrentFits, Fits, CountsScopes, Behind, Opens
  <1> QED
    BY <1>1, <1>2, <1>3

\* GlobalAtBottom, stack by stack.
LEMMA BottomParts ==
  ScopesTyped => ( GlobalAtBottom <=>
    /\ Grounded(scopestack) /\ status # "panicked"
    /\ \A i \in 1 .. Len(stackstack) : Grounded(stackstack[i]) )
  <1> SUFFICES ASSUME ScopesTyped
               PROVE  GlobalAtBottom <=>
                        /\ Grounded(scopestack) /\ status # "panicked"
                        /\ \A i \in 1 .. Len(stackstack) : Grounded(stackstack[i])
    OBVIOUS
  <1>1. Len(stackstack) \in Nat
    BY LenProperties DEF ScopesTyped
  <1>2. 0 .. Len(stackstack) = {0} \cup 1 .. Len(stackstack) /\ 0 \notin 1 .. Len(stackstack)
    BY <1>1
  <1> QED
    BY <1>2 DEF GlobalAtBottom, Grounded

\* The same of the next state.
LEMMA BottomPartsNext ==
  ScopesTyped' => ( GlobalAtBottom' <=>
    /\ Grounded(scopestack') /\ status' # "panicked"
    /\ \A i \in 1 .. Len(stackstack') : Grounded(stackstack'[i]) )
  <1> SUFFICES ASSUME ScopesTyped'
               PROVE  GlobalAtBottom' <=>
                        /\ Grounded(scopestack') /\ status' # "panicked"
                        /\ \A i \in 1 .. Len(stackstack') : Grounded(stackstack'[i])
    OBVIOUS
  <1>1. Len(stackstack') \in Nat
    BY LenProperties DEF ScopesTyped
  <1>2. 0 .. Len(stackstack') = {0} \cup 1 .. Len(stackstack') /\ 0 \notin 1 .. Len(stackstack')
    BY <1>1
  <1> QED
    BY <1>2 DEF GlobalAtBottom, Grounded

\* What the invariants say of a state.
LEMMA Facts ==
  ASSUME IInv, Scoped
  PROVE  /\ ScopesTyped /\ AddressesTyped /\ addrstack \in Seq(AddressT)
         /\ Len(addrstack) \in Nat /\ DOMAIN addrstack = 1 .. Len(addrstack)
         /\ \A i \in 1 .. Len(addrstack) : addrstack[i] \in AddressT
         /\ Len(scopestack) \in Nat \ {0} /\ Len(stackstack) \in Nat
         /\ Grounded(scopestack) /\ \A i \in 1 .. Len(stackstack) : Grounded(stackstack[i])
         /\ Live => \A i \in 1 .. Len(addrstack) + 1 : Floor(i) \in Nat \ {0}
  <1>1. ScopesTyped /\ AddressesTyped /\ addrstack \in Seq(AddressT)
    BY TypeParts DEF IInv, AddressesTyped
  <1>2. /\ Len(addrstack) \in Nat /\ DOMAIN addrstack = 1 .. Len(addrstack)
        /\ \A i \in 1 .. Len(addrstack) : addrstack[i] \in AddressT
    BY <1>1, LenProperties, ElementOfSeq
  <1>3. Grounded(scopestack) /\ \A i \in 1 .. Len(stackstack) : Grounded(stackstack[i])
    BY <1>1, BottomParts DEF Scoped
  <1>4. Len(scopestack) \in Nat \ {0} /\ Len(stackstack) \in Nat
    BY <1>1, <1>3, Popped, LenProperties DEF ScopesTyped, Grounded
  <1>5. ASSUME Live, NEW i \in 1 .. Len(addrstack) + 1
        PROVE  Floor(i) \in Nat \ {0}
    <2>1. CASE i > 1 /\ addrstack[i - 1].native
      <3>1. i - 1 \in 1 .. Len(addrstack)
        BY <1>2, <2>1
      <3>2. addrstack[i - 1].view > 0 /\ addrstack[i - 1].view \in Nat
        BY <1>2, <1>5, <3>1 DEF Scoped, ViewFits, AddressT
      <3> QED
        BY <2>1, <3>2 DEF Floor
    <2>2. CASE ~(i > 1 /\ addrstack[i - 1].native)
      BY <2>2 DEF Floor
    <2> QED
      BY <2>1, <2>2
  <1> QED
    BY <1>1, <1>2, <1>3, <1>4, <1>5

\* ... and of the address on top.
LEMMA TopAddress ==
  ASSUME IInv, Scoped, addrstack # <<>>
  PROVE  /\ Len(addrstack) \in Nat \ {0} /\ Len(addrstack) \in DOMAIN addrstack
         /\ Last(addrstack) = addrstack[Len(addrstack)] /\ Last(addrstack) \in AddressT
         /\ Live => Floor(Len(addrstack)) \in Nat
  <1>1. addrstack \in Seq(AddressT) /\ DOMAIN addrstack = 1 .. Len(addrstack)
        /\ (Live => \A i \in 1 .. Len(addrstack) + 1 : Floor(i) \in Nat \ {0})
    BY Facts
  <1>2. /\ Len(addrstack) \in Nat \ {0} /\ Last(addrstack) = addrstack[Len(addrstack)]
        /\ Last(addrstack) \in AddressT
    BY <1>1, Popped
  <1>3. Len(addrstack) \in 1 .. Len(addrstack) + 1 /\ Len(addrstack) \in DOMAIN addrstack
    BY <1>1, <1>2
  <1> QED
    BY <1>1, <1>2, <1>3

\* More scopes do no harm.
LEMMA FitsMore ==
  ASSUME NEW fn, NEW p, NEW m, Fits(fn, p, m), NEW n \in Nat, m <= n, fn.f.user \/ p \in 0 .. Len(fn.f.code)
  PROVE  Fits(fn, p, n)
  <1>1. ASSUME ~fn.f.user
        PROVE  \E open : CountsScopes(open, fn.f.code) /\ open[p + 1] <= n
    <2>1. PICK open : CountsScopes(open, fn.f.code) /\ open[p + 1] <= m
      BY <1>1 DEF Fits
    <2>2. p + 1 \in 1 .. Len(fn.f.code) + 1
      BY <1>1
    <2>3. open[p + 1] \in Nat
      BY <2>1, <2>2 DEF CountsScopes
    <2>4. open[p + 1] <= n
      BY <2>1, <2>3 DEF Fits
    <2> QED
      BY <2>1, <2>4
  <1> QED
    BY <1>1 DEF Fits

\* A builtin needs no scopes of its own.
LEMMA BuiltinFits ==
  ASSUME NEW fn, fn.f.user, NEW p, NEW n \in Nat
  PROVE  Fits(fn, p, n)
  BY DEF Fits

\* Code that counts its scopes needs none to begin with.
LEMMA BeginningFits ==
  ASSUME NEW fn, NEW open, CountsScopes(open, fn.f.code), NEW n \in Nat
  PROVE  Fits(fn, 0, n)
  <1>1. open[0 + 1] <= n
    BY DEF CountsScopes
  <1> QED
    BY <1>1 DEF Fits

\* An instruction leaves enough scopes for the positions behind it, and finds
\* the one it removes.
LEMMA BehindFits ==
  ASSUME IInv, Scoped, NEW op, At(op), NEW n \in Nat, Fits(curfunc, pc, n)
  PROVE  /\ op = "remscope" => n > 0
         /\ \A q \in Behind(curfunc.f.code, pc) : Fits(curfunc, q, n + Opens(I))
  <1>1. /\ ~curfunc.f.user /\ Len(curfunc.f.code) \in Nat
        /\ pc \in 0 .. Len(curfunc.f.code) - 1 /\ I.op = op
    BY Standing DEF IInv
  <1>2. PICK open : CountsScopes(open, curfunc.f.code) /\ open[pc + 1] <= n
    BY <1>1 DEF Fits
  <1>3. /\ I.op = "remscope" => open[pc + 1] > 0
        /\ \A q \in Behind(curfunc.f.code, pc) :
             q \in 0 .. Len(curfunc.f.code) /\ open[q + 1] <= open[pc + 1] + Opens(I)
    BY <1>1, <1>2 DEF CountsScopes, I
  <1>4. open \in [1 .. Len(curfunc.f.code) + 1 -> Nat]
    BY <1>2 DEF CountsScopes
  <1>5. open[pc + 1] \in Nat
    <2>1. pc + 1 \in 1 .. Len(curfunc.f.code) + 1
      BY <1>1
    <2> QED
      BY <1>4, <2>1
  <1>6. op = "remscope" => n > 0
    BY <1>1, <1>2, <1>3, <1>5
  <1>7. ASSUME NEW q \in Behind(curfunc.f.code, pc)
        PROVE  Fits(curfunc, q, n + Opens(I))
    <2>1. q \in 0 .. Len(curfunc.f.code) /\ open[q + 1] <= open[pc + 1] + Opens(I)
      BY <1>3
    <2>2. q + 1 \in 1 .. Len(curfunc.f.code) + 1
      BY <1>1, <2>1
    <2>3. open[q + 1] \in Nat
      BY <1>4, <2>2
    <2>4. Opens(I) \in {-1, 0, 1}
      BY DEF Opens
    <2>5. n + Opens(I) \in Nat /\ open[q + 1] <= n + Opens(I)
      <3> DEFINE after == open[q + 1]
                 here == open[pc + 1]
                 change == Opens(I)
      <3>1. after \in Nat /\ here \in Nat /\ change \in {-1, 0, 1} /\ after <= here + change /\ here <= n
        BY <1>2, <1>5, <2>1, <2>3, <2>4
      <3> HIDE DEF after, here, change
      <3>2. n + change \in Nat /\ after <= n + change
        BY <3>1
      <3> QED
        BY <3>2 DEF after, change
    <2> QED
      BY <1>2, <2>5 DEF Fits
  <1> QED
    BY <1>6, <1>7

-----------------------------------------------------------------------------
(* Kinds of steps *)

\* The machine stops and leaves the scope stacks as they are.
LEMMA ScopesStay ==
  ASSUME IInv, Scoped, IInv', status' \in {"failed", "exited"}, UNCHANGED <<scopestack, stackstack>>
  PROVE  Scoped'
  <1>1. ScopesTyped /\ ScopesTyped'
    BY TypeParts, TypePartsNext DEF IInv
  <1>2. GlobalAtBottom'
    BY <1>1, BottomParts, BottomPartsNext DEF Scoped
  <1> QED
    BY <1>2 DEF Scoped, Live

\* A step that changes the view of the running code only, or the code.
LEMMA ViewChanges ==
  ASSUME IInv, Scoped, IInv', Live, status' # "panicked", UNCHANGED <<addrstack, stackstack>>,
         Grounded(scopestack'), Fits(curfunc', pc', Len(scopestack') - Floor(Len(addrstack) + 1))
  PROVE  Scoped'
  <1>1. ScopesTyped /\ ScopesTyped' /\ Len(addrstack) \in Nat /\ DOMAIN addrstack = 1 .. Len(addrstack)
    BY Facts, TypePartsNext DEF IInv
  <1>2. GlobalAtBottom'
    BY <1>1, BottomParts, BottomPartsNext DEF Scoped
  <1>3. \A i \in Nat : Floor(i)' = Floor(i)
    BY NextView DEF Floor
  <1>4. CurrentFits'
    <2>1. Len(addrstack) + 1 \in Nat
      BY <1>1
    <2>2. Floor(Len(addrstack) + 1)' = Floor(Len(addrstack) + 1)
      BY DEF Floor
    <2> QED
      BY <2>2, NextView
  <1>5. ASSUME NEW i \in DOMAIN addrstack'
        PROVE  ViewFits(i)' /\ ViewAside(i)'
    <2>1. i \in Nat /\ i \in DOMAIN addrstack
      BY <1>1
    <2>2. ViewFits(i) /\ ViewAside(i)
      BY <2>1 DEF Scoped
    <2>3. ViewFits(i)'
      BY <1>3, <2>1, <2>2, NextView DEF ViewFits
    <2>4. ViewAside(i)'
      BY <2>2 DEF ViewAside
    <2> QED
      BY <2>3, <2>4
  <1> QED
    BY <1>2, <1>4, <1>5 DEF Scoped

\* Below an address that is pushed, what was set aside stays there.
LEMMA ViewsBelow ==
  ASSUME IInv, Scoped, Live, NEW p \in Int, Position(curfunc, p + 1), NEW native \in BOOLEAN,
         addrstack' = Append(addrstack, Address(p, native)),
         Fits(curfunc, p + 1, Len(scopestack) - Floor(Len(addrstack) + 1)),
         IF native THEN UNCHANGED stackstack ELSE stackstack' = SetAside,
         NEW i \in DOMAIN addrstack'
  PROVE  /\ ViewFits(i)' /\ ViewAside(i)'
         /\ Floor(Len(addrstack) + 1)' = IF native THEN Len(scopestack) ELSE 1
  <1> DEFINE n == Len(addrstack)
             h == Len(stackstack)
             new == addrstack'
             old == addrstack
  <1>1. /\ n \in Nat /\ DOMAIN old = 1 .. n /\ h \in Nat /\ Len(scopestack) \in Nat \ {0}
        /\ \A j \in 1 .. n : old[j] \in AddressT
    BY Facts
  <1>2. /\ DOMAIN new = 1 .. n + 1 /\ \A j \in 1 .. n : new[j] = old[j]
        /\ new[n + 1] = Address(p, native)
    BY NewAddress DEF IInv
  <1>3. /\ new[n + 1].fn = curfunc /\ new[n + 1].pc = p + 1 /\ new[n + 1].native = native
        /\ new[n + 1].depth = h /\ new[n + 1].view = Len(scopestack)
    BY <1>2 DEF Address
  <1>4. /\ \A j \in 1 .. h : stackstack'[j] = stackstack[j]
        /\ ~native => Len(stackstack') = h + 1 /\ stackstack'[h + 1] = scopestack
        /\ native => Len(stackstack') = h
    <2>1. ScopesTyped
      BY Facts
    <2> QED
      BY <2>1, PushPop DEF ScopesTyped, SetAside
  <1>5. \A j \in 1 .. n + 1 : Floor(j)' = Floor(j)
    <2> SUFFICES ASSUME NEW j \in 1 .. n + 1 PROVE Floor(j)' = Floor(j)
      OBVIOUS
    <2>1. j \in Nat /\ (j > 1 => j - 1 \in 1 .. n)
      BY <1>1
    <2> QED
      BY <1>2, <2>1, NextView DEF Floor
  <1>6. Floor(Len(addrstack) + 1)' = IF native THEN Len(scopestack) ELSE 1
    <2>1. Len(new) = n + 1
      BY NewAddress DEF IInv
    <2>2. Len(new) + 1 > 1 /\ (Len(new) + 1) - 1 = n + 1
      BY <1>1, <2>1
    <2>3. Floor(Len(addrstack) + 1)'
          = IF Len(new) + 1 > 1 /\ new[(Len(new) + 1) - 1].native THEN new[(Len(new) + 1) - 1].view ELSE 1
      BY DEF Floor
    <2> QED
      BY <1>3, <2>2, <2>3
  <1>7. CASE i \in 1 .. n
    <2>1. ViewFits(i) /\ ViewAside(i)
      BY <1>1, <1>7 DEF Scoped
    <2>2. new[i] = old[i] /\ i \in Nat /\ i \in 1 .. n + 1
      BY <1>1, <1>2, <1>7
    <2>3. ViewFits(i)'
      BY <1>5, <2>1, <2>2, NextView DEF ViewFits
    <2>4. ASSUME ~new[i].native
          PROVE  /\ new[i].depth < Len(stackstack') /\ Len(stackstack'[new[i].depth + 1]) >= new[i].view
                 /\ \A j \in DOMAIN new : j > i /\ ~new[j].native => new[i].depth < new[j].depth
      <3>1. /\ old[i].depth < h /\ Len(stackstack[old[i].depth + 1]) >= old[i].view /\ old[i].depth \in Nat
            /\ \A j \in DOMAIN old : j > i /\ ~old[j].native => old[i].depth < old[j].depth
        BY <1>1, <1>7, <2>1, <2>2, <2>4 DEF ViewAside, AddressT
      <3>2. old[i].depth + 1 \in 1 .. h
        BY <1>1, <3>1
      <3>3. old[i].depth < Len(stackstack') /\ stackstack'[old[i].depth + 1] = stackstack[old[i].depth + 1]
        <4>1. Len(stackstack') \in {h, h + 1}
          BY <1>4
        <4>2. old[i].depth < Len(stackstack')
          <5> DEFINE d == old[i].depth
                     m == Len(stackstack')
          <5>1. h \in Nat /\ d \in Nat /\ d < h /\ m \in {h, h + 1}
            BY <1>1, <3>1, <4>1
          <5> HIDE DEF h, d, m
          <5>2. d < m
            BY <5>1
          <5> QED
            BY <5>2 DEF d, m
        <4> QED
          BY <1>4, <3>2, <4>2
      <3>4. \A j \in DOMAIN new : j \in DOMAIN old \/ j = n + 1
        BY <1>1, <1>2
      <3> QED
        BY <1>1, <1>2, <1>3, <2>2, <3>1, <3>3, <3>4
    <2>5. ViewAside(i)'
      BY <2>4 DEF ViewAside
    <2> QED
      BY <1>6, <2>3, <2>5
  <1>8. CASE i = n + 1
    <2>1. ViewFits(i)'
      <3>1. i \in Nat /\ Floor(i)' = Floor(n + 1)
        BY <1>1, <1>5, <1>8
      <3>2. new[i].view > 0
        BY <1>1, <1>3, <1>8
      <3> QED
        BY <1>3, <1>8, <3>1, <3>2, NextView
    <2>2. ViewAside(i)'
      <3>1. \A j \in DOMAIN new : ~(j > i)
        BY <1>1, <1>2, <1>8
      <3>2. ~native => h < Len(stackstack') /\ Len(stackstack'[h + 1]) >= Len(scopestack)
        BY <1>1, <1>4
      <3> QED
        BY <1>3, <1>8, <3>1, <3>2 DEF ViewAside
    <2> QED
      BY <1>6, <2>1, <2>2
  <1> QED
    BY <1>1, <1>2, <1>7, <1>8

\* Below an address that is popped, what was set aside is still there.
LEMMA ViewsBack ==
  ASSUME IInv, Scoped, Live, addrstack # <<>>, addrstack' = Front(addrstack),
         \/ UNCHANGED stackstack
         \/ /\ ~Last(addrstack).native /\ stackstack # <<>> /\ stackstack' = Front(stackstack)
            /\ Len(stackstack) = Last(addrstack).depth + 1
  PROVE  /\ Floor(Len(addrstack) + 1)' = Floor(Len(addrstack))
         /\ \A i \in DOMAIN addrstack' : ViewFits(i)' /\ ViewAside(i)'
         /\ ViewFits(Len(addrstack)) /\ ViewAside(Len(addrstack))
         /\ Last(addrstack) = addrstack[Len(addrstack)]
         /\ Position(Last(addrstack).fn, Last(addrstack).pc)
  <1> DEFINE n == Len(addrstack)
             h == Len(stackstack)
             new == addrstack'
             old == addrstack
  <1>1. /\ n \in Nat /\ DOMAIN old = 1 .. n /\ h \in Nat /\ ScopesTyped /\ AddressesTyped
        /\ old \in Seq(AddressT) /\ \A j \in 1 .. n : old[j] \in AddressT
    BY Facts
  <1>2. /\ n \in Nat \ {0} /\ Last(old) = old[n] /\ Len(new) = n - 1
        /\ DOMAIN new = 1 .. n - 1 /\ \A j \in 1 .. n - 1 : new[j] = old[j]
    BY <1>1, Popped
  <1>3. n \in DOMAIN old
    BY <1>1, <1>2
  <1>4. ViewFits(n) /\ ViewAside(n) /\ Position(Last(old).fn, Last(old).pc)
    BY <1>1, <1>2, <1>3 DEF Scoped, AddressesTyped
  <1>5. \A j \in 1 .. n : Floor(j)' = Floor(j)
    <2> SUFFICES ASSUME NEW j \in 1 .. n PROVE Floor(j)' = Floor(j)
      OBVIOUS
    <2>1. j \in Nat /\ (j > 1 => j - 1 \in 1 .. n - 1)
      BY <1>1
    <2> QED
      BY <1>2, <2>1, NextView DEF Floor
  <1>6. Floor(Len(addrstack) + 1)' = Floor(n)
    <2>1. Floor(Len(addrstack) + 1)'
          = IF Len(new) + 1 > 1 /\ new[(Len(new) + 1) - 1].native THEN new[(Len(new) + 1) - 1].view ELSE 1
      BY DEF Floor
    <2>2. Len(new) + 1 = n /\ (n > 1 => n - 1 \in 1 .. n - 1)
      BY <1>2
    <2> QED
      BY <1>2, <2>1, <2>2 DEF Floor
  <1>7. ASSUME NEW i \in DOMAIN new
        PROVE  ViewFits(i)' /\ ViewAside(i)'
    <2>1. i \in 1 .. n - 1 /\ i \in 1 .. n /\ i \in Nat /\ i < n /\ i \in DOMAIN old /\ new[i] = old[i]
      BY <1>1, <1>2
    <2>2. ViewFits(i) /\ ViewAside(i)
      BY <2>1 DEF Scoped
    <2>3. ViewFits(i)'
      BY <1>5, <2>1, <2>2, NextView DEF ViewFits
    <2>4. ASSUME ~new[i].native
          PROVE  /\ new[i].depth < Len(stackstack') /\ Len(stackstack'[new[i].depth + 1]) >= new[i].view
                 /\ \A j \in DOMAIN new : j > i /\ ~new[j].native => new[i].depth < new[j].depth
      <3>1. /\ old[i].depth < h /\ Len(stackstack[old[i].depth + 1]) >= old[i].view /\ old[i].depth \in Nat
            /\ \A j \in DOMAIN old : j > i /\ ~old[j].native => old[i].depth < old[j].depth
        BY <1>1, <2>1, <2>2, <2>4 DEF ViewAside, AddressT
      <3>2. old[i].depth < Len(stackstack') /\ stackstack'[old[i].depth + 1] = stackstack[old[i].depth + 1]
        <4>1. CASE UNCHANGED stackstack
          BY <3>1, <4>1
        <4>2. CASE /\ ~Last(addrstack).native /\ stackstack # <<>> /\ stackstack' = Front(stackstack)
                   /\ Len(stackstack) = Last(addrstack).depth + 1
          <5>1. old[i].depth < old[n].depth /\ old[n].depth \in Nat
            BY <1>1, <1>2, <1>3, <2>1, <3>1, <4>2 DEF AddressT
          <5>2. /\ Len(stackstack') = h - 1
                /\ \A j \in 1 .. h - 1 : stackstack'[j] = stackstack[j]
            BY <1>1, <4>2, Popped DEF ScopesTyped
          <5>3. h = old[n].depth + 1
            BY <1>2, <4>2
          <5> DEFINE d == old[i].depth
                     e == old[n].depth
                     m == Len(stackstack')
          <5>4. d \in Nat /\ e \in Nat /\ d < e /\ h = e + 1 /\ m = h - 1
            BY <3>1, <5>1, <5>2, <5>3
          <5> HIDE DEF h, d, e, m
          <5>5. d < m /\ d + 1 \in 1 .. h - 1
            BY <5>4
          <5> QED
            BY <5>2, <5>5 DEF d, m
        <4> QED
          BY <4>1, <4>2
      <3> QED
        BY <1>1, <1>2, <2>1, <3>1, <3>2
    <2>5. ViewAside(i)'
      BY <2>4 DEF ViewAside
    <2> QED
      BY <2>3, <2>5
  <1> QED
    BY <1>2, <1>4, <1>6, <1>7

-----------------------------------------------------------------------------
(* Calls *)

\* The code of every function a program can call, and of every text and file,
\* removes no scope it has not added.
LEMMA CodeCounts ==
  /\ \A fn \in Closure : ~fn.f.user => \E open : CountsScopes(open, fn.f.code)
  /\ \A p \in Piece : \E open : CountsScopes(open, PieceCode[p])
  /\ \A f \in DOMAIN FileCode : \E open : CountsScopes(open, FileCode[f])
  <1>1. ASSUME NEW fn \in Closure, ~fn.f.user
        PROVE  \E open : CountsScopes(open, fn.f.code)
    <2>1. fn.f.code \in Codes
      BY <1>1 DEF Closure, Codes
    <2>2. CountsScopes(ScopesIn(fn.f.code), fn.f.code)
      BY <2>1, ScopeAssumption
    <2> QED
      BY <2>2
  <1>2. ASSUME NEW p \in Piece
        PROVE  \E open : CountsScopes(open, PieceCode[p])
    <2>1. CountsScopes(ScopesIn(PieceCode[p]), PieceCode[p])
      BY ScopeAssumption DEF Codes
    <2> QED
      BY <2>1
  <1>3. ASSUME NEW f \in DOMAIN FileCode
        PROVE  \E open : CountsScopes(open, FileCode[f])
    <2>1. CountsScopes(ScopesIn(FileCode[f]), FileCode[f])
      BY ScopeAssumption DEF Codes
    <2> QED
      BY <2>1
  <1> QED
    BY <1>1, <1>2, <1>3

\* The view of a callee begins with its caller's global scope and has a scope
\* of its own.
LEMMA CalleeView ==
  ASSUME ScopesTyped, Grounded(scopestack), NEW fn \in Closure
  PROVE  Grounded(View(fn)) /\ Len(View(fn)) - 1 \in Nat
  <1>1. fn.close \in Seq(ScopeId) /\ Len(fn.close) \in Nat
    BY ClosureRuns, LenProperties
  <1>2. nscopes + 1 \in ScopeId /\ Global \in ScopeId /\ scopestack[1] = Global
    BY DEF ScopesTyped, ScopeId, Global, Grounded
  <1>3. /\ <<Global>> \in Seq(ScopeId) /\ Len(<<Global>>) = 1 /\ <<Global>>[1] = Global
        /\ <<nscopes + 1>> \in Seq(ScopeId) /\ Len(<<nscopes + 1>>) = 1
    BY <1>2
  <1>4. /\ <<Global>> \o fn.close \in Seq(ScopeId) /\ Len(<<Global>> \o fn.close) = 1 + Len(fn.close)
        /\ (<<Global>> \o fn.close)[1] = Global
    BY <1>1, <1>3, ConcatProperties
  <1>5. /\ View(fn) \in Seq(ScopeId) /\ Len(View(fn)) = 1 + Len(fn.close) + 1 /\ View(fn)[1] = Global
    BY <1>1, <1>2, <1>3, <1>4, ConcatProperties DEF View
  <1>6. Len(View(fn)) - 1 \in Nat /\ Len(View(fn)) # 0
    BY <1>1, <1>5
  <1>7. View(fn) # <<>>
    BY <1>6
  <1> QED
    BY <1>5, <1>6, <1>7 DEF Grounded

\* Calling a script function keeps the scopes (CallFunction).
LEMMA ScriptCall ==
  ASSUME IInv, Scoped, IInv', Live, NEW fn \in Closure, ~fn.f.user, NEW n, NEW d,
         NEW p \in Int, Position(curfunc, p + 1), CallFunction(fn, n, d, p),
         Fits(curfunc, p + 1, Len(scopestack) - Floor(Len(addrstack) + 1))
  PROVE  Scoped'
  <1>1. ScopesTyped /\ Grounded(scopestack) /\ Len(stackstack) \in Nat
        /\ \A i \in 1 .. Len(stackstack) : Grounded(stackstack[i])
    BY Facts
  <1>2. CASE Fail /\ UNCHANGED <<scoping, addrstack, curfunc>>
    BY <1>2, ScopesStay DEF Fail, scoping
  <1>3. CASE /\ stackstack' = SetAside /\ scopestack' = View(fn)
             /\ addrstack' = Append(addrstack, Address(p, FALSE))
             /\ curfunc' = fn /\ pc' = 0 /\ status' = "run"
    <2>1. Grounded(scopestack') /\ Len(scopestack') - 1 \in Nat
      BY <1>1, <1>3, CalleeView
    <2>2. /\ Len(stackstack') = Len(stackstack) + 1
          /\ \A i \in 1 .. Len(stackstack) : stackstack'[i] = stackstack[i]
          /\ stackstack'[Len(stackstack) + 1] = scopestack
      BY <1>1, <1>3, PushPop DEF ScopesTyped, SetAside
    <2>3. GlobalAtBottom'
      <3>1. \A i \in 1 .. Len(stackstack') : i \in 1 .. Len(stackstack) \/ i = Len(stackstack) + 1
        BY <1>1, <2>2
      <3>2. \A i \in 1 .. Len(stackstack') : Grounded(stackstack'[i])
        BY <1>1, <2>2, <3>1
      <3> QED
        BY <1>3, <2>1, <3>2, BottomPartsNext, TypePartsNext DEF IInv
    <2>4. \A i \in DOMAIN addrstack' : ViewFits(i)' /\ ViewAside(i)'
      BY <1>3, ViewsBelow
    <2>5. Floor(Len(addrstack) + 1)' = 1
      <3>1. \E i : i \in DOMAIN addrstack'
        <4>1. Len(addrstack) \in Nat /\ DOMAIN addrstack' = 1 .. Len(addrstack) + 1
          BY <1>3, NewAddress DEF IInv
        <4>2. 1 \in DOMAIN addrstack'
          BY <4>1
        <4> QED
          BY <4>2
      <3>2. PICK i : i \in DOMAIN addrstack'
        BY <3>1
      <3> QED
        BY <1>3, <3>2, ViewsBelow
    <2>6. CurrentFits'
      <3>1. PICK open : CountsScopes(open, fn.f.code)
        BY CodeCounts
      <3>2. Fits(fn, 0, Len(scopestack') - 1)
        BY <2>1, <3>1, BeginningFits
      <3> QED
        BY <1>3, <2>5, <3>2, NextView
    <2> QED
      BY <2>3, <2>4, <2>6 DEF Scoped
  <1> QED
    BY <1>1, <1>2, <1>3 DEF CallFunction, Grounded

\* Where the machine may go from an instruction, and the scopes that are left
\* there.
LEMMA GoingOn ==
  ASSUME IInv, Scoped, NEW op, At(op), NEW n, n = Len(scopestack) - Floor(Len(addrstack) + 1)
  PROVE  /\ Live /\ n \in Nat /\ I.op = op
         /\ op = "remscope" => n > 0
         /\ op \notin {"jump", "goto", "ret", "reterr"} => Fits(curfunc, pc + 1, n + Opens(I))
         /\ op \in {"jump", "br"} => Fits(curfunc, pc + I.loc, n + Opens(I))
         /\ op = "goto" => Fits(curfunc, I.loc, n + Opens(I))
  <1>1. Live /\ I.op = op
    BY DEF At, Live
  <1>2. Fits(curfunc, pc, n) /\ n \in Nat
    BY <1>1 DEF Scoped, CurrentFits, Fits
  <1>3. /\ op = "remscope" => n > 0
        /\ \A q \in Behind(curfunc.f.code, pc) : Fits(curfunc, q, n + Opens(I))
    BY <1>2, BehindFits
  <1>4. /\ op \notin {"jump", "goto", "ret", "reterr"} => pc + 1 \in Behind(curfunc.f.code, pc)
        /\ op \in {"jump", "br"} => pc + I.loc \in Behind(curfunc.f.code, pc)
        /\ op = "goto" => I.loc \in Behind(curfunc.f.code, pc)
    BY <1>1 DEF Behind, I
  <1> QED
    BY <1>1, <1>2, <1>3, <1>4

\* Calling a builtin keeps the scopes (CallUserFunction).
LEMMA BuiltinCall ==
  ASSUME IInv, Scoped, IInv', NEW op, op \in {"call", "dispatch"}, At(op),
         NEW fn \in Closure, fn.f.user, NEW name, NEW n, NEW d, CallUserFunction(fn, name, n, d)
  PROVE  Scoped'
  <1> DEFINE room == Len(scopestack) - Floor(Len(addrstack) + 1)
  <1>1. /\ Live /\ status = "run" /\ room \in Nat /\ Fits(curfunc, pc + 1, room)
    <2>1. PICK m : m = room
      OBVIOUS
    <2>2. Live /\ m \in Nat /\ I.op = op /\ Fits(curfunc, pc + 1, m + Opens(I))
      BY <2>1, GoingOn
    <2>3. Opens(I) = 0 /\ m + 0 = m
      BY <2>2 DEF Opens
    <2> QED
      BY <2>1, <2>2, <2>3 DEF At
  <1>2. /\ Grounded(scopestack) /\ Len(scopestack) \in Nat /\ ScopesTyped
        /\ \A i \in 1 .. Len(stackstack) : Grounded(stackstack[i])
    BY Facts
  <1>3. CASE Fail /\ UNCHANGED <<scopestack, stackstack>>
    BY <1>3, ScopesStay DEF Fail
  <1>4. CASE /\ addrstack' = Append(addrstack, Address(pc, TRUE)) /\ curfunc' = fn /\ pc' = -1
             /\ status' = "go" /\ UNCHANGED scoping
    <2>1. pc \in Int /\ Position(curfunc, pc + 1)
      BY Standing, NextPosition, TypeParts DEF IInv
    <2>2. GlobalAtBottom'
      BY <1>2, <1>4, BottomPartsNext, TypePartsNext DEF IInv, scoping
    <2>3. \A i \in DOMAIN addrstack' : ViewFits(i)' /\ ViewAside(i)' /\ Floor(Len(addrstack) + 1)' = Len(scopestack)
      BY <1>1, <1>4, <2>1, ViewsBelow DEF scoping
    <2>4. Floor(Len(addrstack) + 1)' = Len(scopestack)
      <3>1. Len(addrstack) \in Nat /\ DOMAIN addrstack' = 1 .. Len(addrstack) + 1
        BY <1>4, <2>1, NewAddress DEF IInv
      <3>2. 1 \in DOMAIN addrstack'
        BY <3>1
      <3> QED
        BY <2>3, <3>2
    <2>5. CurrentFits'
      <3>1. Len(scopestack') - Floor(Len(addrstack) + 1)' = 0
        BY <1>2, <1>4, <2>4 DEF scoping
      <3> QED
        BY <1>4, <3>1, BuiltinFits, NextView
    <2> QED
      BY <2>2, <2>3, <2>5 DEF Scoped
  <1>5. CASE pc' = pc + 1 /\ UNCHANGED <<scopestack, stackstack, addrstack, curfunc, status>>
    <2>1. status' # "panicked"
      BY <1>1, <1>5
    <2> QED
      BY <1>1, <1>2, <1>5, <2>1, ViewChanges
  <1> QED
    BY <1>3, <1>4, <1>5 DEF CallUserFunction, scoping, Next1

\* So does calling whatever value a symbol is bound to (CallInstr, DispatchInstr).
LEMMA ObjectCall ==
  ASSUME IInv, Scoped, IInv', NEW op, op \in {"call", "dispatch"}, At(op),
         NEW v, NEW name, NEW n, NEW d, CallObject(v, name, n, d)
  PROVE  Scoped'
  <1>1. CASE v \notin Closure
    BY <1>1, ScopesStay DEF CallObject, Fail, scoping
  <1>2. CASE v \in Closure /\ v.f.user
    BY <1>2, BuiltinCall DEF CallObject
  <1>3. CASE v \in Closure /\ ~v.f.user
    <2>1. CallFunction(v, n, d, pc)
      BY <1>3 DEF CallObject
    <2>2. pc \in Int /\ Position(curfunc, pc + 1)
      BY Standing, NextPosition, TypeParts DEF IInv
    <2>3. Live /\ Fits(curfunc, pc + 1, Len(scopestack) - Floor(Len(addrstack) + 1))
      <3>1. PICK m : m = Len(scopestack) - Floor(Len(addrstack) + 1)
        OBVIOUS
      <3>2. Live /\ m \in Nat /\ I.op = op /\ Fits(curfunc, pc + 1, m + Opens(I))
        BY <3>1, GoingOn
      <3>3. Opens(I) = 0 /\ m + 0 = m
        BY <3>2 DEF Opens
      <3> QED
        BY <3>1, <3>2, <3>3
    <2> QED
      BY <1>3, <2>1, <2>2, <2>3, ScriptCall
  <1> QED
    BY <1>1, <1>2, <1>3

-----------------------------------------------------------------------------
(* Instructions *)

\* An instruction that goes on to one of the next positions or fails, in the
\* same view.
LEMMA SameView ==
  ASSUME IInv, Scoped, IInv', NEW op, At(op), op \notin {"addscope", "remscope"},
         UNCHANGED <<scopestack, stackstack, addrstack, curfunc>>,
         \/ Fail
         \/ /\ UNCHANGED status
            /\ \/ pc' = pc + 1 /\ op \notin {"jump", "goto", "ret", "reterr"}
               \/ pc' = pc + I.loc /\ op \in {"jump", "br"}
               \/ pc' = I.loc /\ op = "goto"
  PROVE  Scoped'
  <1>1. CASE Fail
    BY <1>1, ScopesStay DEF Fail
  <1>2. CASE /\ UNCHANGED status
             /\ \/ pc' = pc + 1 /\ op \notin {"jump", "goto", "ret", "reterr"}
                \/ pc' = pc + I.loc /\ op \in {"jump", "br"}
                \/ pc' = I.loc /\ op = "goto"
    <2>1. PICK m : m = Len(scopestack) - Floor(Len(addrstack) + 1)
      OBVIOUS
    <2>2. /\ Live /\ m \in Nat /\ I.op = op
          /\ op \notin {"jump", "goto", "ret", "reterr"} => Fits(curfunc, pc + 1, m + Opens(I))
          /\ op \in {"jump", "br"} => Fits(curfunc, pc + I.loc, m + Opens(I))
          /\ op = "goto" => Fits(curfunc, I.loc, m + Opens(I))
      BY <2>1, GoingOn
    <2>3. Opens(I) = 0 /\ m + 0 = m
      BY <2>2 DEF Opens
    <2>4. Fits(curfunc', pc', Len(scopestack') - Floor(Len(addrstack) + 1))
      BY <1>2, <2>1, <2>2, <2>3
    <2>5. Grounded(scopestack') /\ status' # "panicked"
      BY <1>2, <2>2, Facts DEF Live
    <2> QED
      BY <2>2, <2>4, <2>5, ViewChanges
  <1> QED
    BY <1>1, <1>2

\* The instructions that neither call nor return keep the scopes.
LEMMA SimpleKeepsScopes ==
  ASSUME IInv, Scoped, IInv',
         \/ Jump \/ Goto \/ Branch \/ PushValue \/ PopValue \/ Duplicate \/ Get \/ Put \/ PushClosure
         \/ Explode \/ Squash \/ Vectorize \/ ReturnError
  PROVE  Scoped'
  <1>1. CASE Jump
    BY <1>1, SameView DEF Jump, JumpTo, Control, scoping
  <1>2. CASE Goto
    BY <1>2, SameView DEF Goto, JumpTo, Control, scoping
  <1>3. CASE Branch
    BY <1>3, SameView DEF Branch, JumpTo, Next1, Control, scoping
  <1>4. CASE PushValue
    BY <1>4, SameView DEF PushValue, Operands, Next1, Control, scoping
  <1>5. CASE PopValue
    BY <1>5, SameView DEF PopValue, Next1, Control, scoping
  <1>6. CASE Duplicate
    BY <1>6, SameView DEF Duplicate, Operands, Next1, Control, scoping
  <1>7. CASE Get
    BY <1>7, SameView DEF Get, Operands, Next1, Control, scoping
  <1>8. CASE Explode
    BY <1>8, SameView DEF Explode, Next1, Control, scoping
  <1>9. CASE Squash
    BY <1>9, SameView DEF Squash, Gather, Next1, Control, scoping
  <1>10. CASE Vectorize
    BY <1>10, SameView DEF Vectorize, Gather, Next1, Control, scoping
  <1>11. CASE ReturnError
    BY <1>11, SameView DEF ReturnError, Control, scoping
  <1>12. CASE Put
    BY <1>12, SameView DEF Put, Next1
  <1>13. CASE PushClosure
    BY <1>13, SameView DEF PushClosure, Next1
  <1> QED
    BY <1>1, <1>2, <1>3, <1>4, <1>5, <1>6, <1>7, <1>8, <1>9, <1>10, <1>11, <1>12, <1>13

\* A scope that is added leaves the ones in view where they are (AddScopeInstr).
LEMMA AddScopeKeepsScopes ==
  ASSUME IInv, Scoped, IInv', AddScope
  PROVE  Scoped'
  <1>1. /\ At("addscope") /\ pc' = pc + 1 /\ scopestack' = Append(scopestack, nscopes + 1)
        /\ UNCHANGED <<stackstack, addrstack, curfunc, status>>
    BY DEF AddScope, Next1
  <1>2. PICK m : m = Len(scopestack) - Floor(Len(addrstack) + 1)
    OBVIOUS
  <1>3. Live /\ m \in Nat /\ I.op = "addscope" /\ Fits(curfunc, pc + 1, m + Opens(I))
    BY <1>1, <1>2, GoingOn
  <1>4. ScopesTyped /\ Grounded(scopestack) /\ Len(scopestack) \in Nat \ {0}
        /\ Floor(Len(addrstack) + 1) \in Nat
    <2>1. Len(addrstack) + 1 \in 1 .. Len(addrstack) + 1
      BY Facts
    <2> QED
      BY <1>3, <2>1, Facts
  <1>5. nscopes + 1 \in ScopeId
    BY <1>4 DEF ScopesTyped, ScopeId
  <1>6. Len(scopestack') = Len(scopestack) + 1 /\ scopestack'[1] = scopestack[1] /\ scopestack' # <<>>
    <2>1. 1 \in 1 .. Len(scopestack)
      BY <1>4
    <2> QED
      BY <1>1, <1>4, <1>5, <2>1, PushPop DEF ScopesTyped
  <1>7. Len(scopestack') - Floor(Len(addrstack) + 1) = m + Opens(I)
    <2> DEFINE a == Len(scopestack)
               b == Floor(Len(addrstack) + 1)
               c == Len(scopestack')
    <2>1. a \in Nat /\ b \in Nat /\ c = a + 1 /\ m = a - b /\ Opens(I) = 1
      BY <1>2, <1>3, <1>4, <1>6 DEF Opens
    <2> HIDE DEF a, b, c
    <2>2. c - b = m + Opens(I)
      BY <2>1
    <2> QED
      BY <2>2 DEF b, c
  <1>8. Grounded(scopestack') /\ status' # "panicked"
    BY <1>1, <1>3, <1>4, <1>6 DEF Grounded, Live
  <1> QED
    BY <1>1, <1>3, <1>7, <1>8, ViewChanges

\* A scope that is removed is one the code has added (RemoveScopeInstr).
LEMMA RemoveScopeKeepsScopes ==
  ASSUME IInv, Scoped, IInv', RemoveScope
  PROVE  Scoped'
  <1>1. Grounded(scopestack) /\ ScopesTyped /\ Len(scopestack) \in Nat \ {0}
    BY Facts
  <1>2. /\ At("remscope") /\ pc' = pc + 1 /\ scopestack' = Front(scopestack)
        /\ UNCHANGED <<stackstack, addrstack, curfunc, status>>
    BY <1>1 DEF RemoveScope, Next1, Grounded
  <1>3. PICK m : m = Len(scopestack) - Floor(Len(addrstack) + 1)
    OBVIOUS
  <1>4. Live /\ m \in Nat /\ I.op = "remscope" /\ Fits(curfunc, pc + 1, m + Opens(I)) /\ m > 0
    BY <1>2, <1>3, GoingOn
  <1>5. Floor(Len(addrstack) + 1) \in Nat \ {0}
    <2>1. Len(addrstack) + 1 \in 1 .. Len(addrstack) + 1
      BY Facts
    <2> QED
      BY <1>4, <2>1, Facts
  <1>6. /\ Front(scopestack) \in Seq(ScopeId) /\ Len(scopestack') = Len(scopestack) - 1
        /\ \A i \in 1 .. Len(scopestack) - 1 : scopestack'[i] = scopestack[i]
    BY <1>1, <1>2, Popped DEF ScopesTyped, Grounded
  <1> DEFINE a == Len(scopestack)
             b == Floor(Len(addrstack) + 1)
             c == Len(scopestack')
  <1>7. a \in Nat /\ b \in Nat \ {0} /\ c = a - 1 /\ m = a - b /\ m > 0 /\ Opens(I) = -1
    BY <1>1, <1>3, <1>4, <1>5, <1>6 DEF Opens
  <1>8. c - b = m + Opens(I) /\ 1 \in 1 .. a - 1 /\ c # 0
    <2> HIDE DEF a, b, c
    <2> QED
      BY <1>7
  <1>9. Grounded(scopestack') /\ status' # "panicked"
    <2>1. scopestack'[1] = scopestack[1]
      BY <1>6, <1>8
    <2>2. scopestack' # <<>>
      BY <1>8
    <2> QED
      BY <1>1, <1>2, <1>4, <2>1, <2>2 DEF Grounded, Live
  <1> QED
    BY <1>2, <1>4, <1>8, <1>9, ViewChanges

-----------------------------------------------------------------------------
(* Code that is put together *)

\* Code that is appended counts on from where it begins, with no scope open,
\* and the code before it never has fewer (LoadExpressions).
LEMMA CountsOn ==
  ASSUME NEW c \in TopLevelCode, NEW d \in TopLevelCode,
         NEW here, CountsScopes(here, c), NEW there, CountsScopes(there, d)
  PROVE  \E open : /\ CountsScopes(open, c \o d)
                   /\ \A p \in 0 .. Len(c) : open[p + 1] <= here[p + 1]
  <1> DEFINE m == Len(c)
             n == Len(d)
             both == c \o d
             open == [i \in 1 .. m + n + 1 |-> IF i <= m THEN here[i] ELSE there[i - m]]
  <1>1. /\ both \in Seq(Instr) /\ Len(both) = m + n /\ m \in Nat /\ n \in Nat
        /\ \A i \in 1 .. m + n : both[i] = IF i <= m THEN c[i] ELSE d[i - m]
        /\ c \in Seq(Instr) /\ d \in Seq(Instr)
        /\ \A i \in 1 .. m : c[i] \in Instr /\ c[i].op \notin {"ret", "goto"}
        /\ \A i \in 1 .. n : d[i] \in Instr /\ d[i].op \notin {"ret", "goto"}
    <2>1. c \in Seq(Instr) /\ d \in Seq(Instr)
      BY DEF TopLevelCode
    <2> QED
      BY <2>1, ConcatProperties, LenProperties, ElementOfSeq DEF TopLevelCode
  <1>2. /\ here \in [1 .. m + 1 -> Nat] /\ there \in [1 .. n + 1 -> Nat] /\ here[1] = 0 /\ there[1] = 0
    BY DEF CountsScopes
  <1>3. ASSUME NEW p \in 0 .. m - 1
        PROVE  /\ c[p + 1].op = "remscope" => here[p + 1] > 0
               /\ \A q \in Behind(c, p) : q \in 0 .. m /\ here[q + 1] <= here[p + 1] + Opens(c[p + 1])
    BY DEF CountsScopes
  <1>4. ASSUME NEW p \in 0 .. n - 1
        PROVE  /\ d[p + 1].op = "remscope" => there[p + 1] > 0
               /\ \A q \in Behind(d, p) : q \in 0 .. n /\ there[q + 1] <= there[p + 1] + Opens(d[p + 1])
    BY DEF CountsScopes
  <1>5. open \in [1 .. m + n + 1 -> Nat]
    <2> SUFFICES ASSUME NEW i \in 1 .. m + n + 1
                 PROVE  (IF i <= m THEN here[i] ELSE there[i - m]) \in Nat
      OBVIOUS
    <2> HIDE DEF m, n
    <2>1. CASE i <= m
      <3>1. i \in 1 .. m + 1
        BY <1>1, <2>1
      <3> QED
        BY <1>2, <2>1, <3>1
    <2>2. CASE ~(i <= m)
      <3>1. i - m \in 1 .. n + 1
        BY <1>1, <2>2
      <3> QED
        BY <1>2, <2>2, <3>1
    <2> QED
      BY <2>1, <2>2
  <1>6. /\ \A p \in 0 .. m - 1 : open[p + 1] = here[p + 1] /\ here[p + 1] \in Nat
        /\ open[m + 1] = 0 /\ here[m + 1] \in Nat
        /\ \A p \in 0 .. n : open[m + p + 1] = there[p + 1] /\ there[p + 1] \in Nat
    <2> DEFINE f == open
    <2>1. \A i \in 1 .. m + n + 1 : f[i] = IF i <= m THEN here[i] ELSE there[i - m]
      OBVIOUS
    <2> HIDE DEF f, m, n
    <2>2. ASSUME NEW p \in 0 .. m - 1
          PROVE  f[p + 1] = here[p + 1] /\ here[p + 1] \in Nat
      <3>1. p + 1 \in 1 .. m + n + 1 /\ p + 1 <= m /\ p + 1 \in 1 .. m + 1
        BY <1>1
      <3> QED
        BY <1>2, <2>1, <3>1
    <2>3. f[m + 1] = 0 /\ here[m + 1] \in Nat
      <3>1. m + 1 \in 1 .. m + n + 1 /\ ~(m + 1 <= m) /\ (m + 1) - m = 1 /\ m + 1 \in 1 .. m + 1
        BY <1>1
      <3> QED
        BY <1>2, <2>1, <3>1
    <2>4. ASSUME NEW p \in 0 .. n
          PROVE  f[m + p + 1] = there[p + 1] /\ there[p + 1] \in Nat
      <3>1. m + p + 1 \in 1 .. m + n + 1 /\ ~(m + p + 1 <= m) /\ (m + p + 1) - m = p + 1 /\ p + 1 \in 1 .. n + 1
        BY <1>1
      <3> QED
        BY <1>2, <2>1, <3>1
    <2> QED
      BY <2>2, <2>3, <2>4 DEF f
  <1> HIDE DEF open
  <1>7. ASSUME NEW p \in 0 .. Len(both) - 1
        PROVE  /\ both[p + 1].op = "remscope" => open[p + 1] > 0
               /\ \A q \in Behind(both, p) :
                    q \in 0 .. Len(both) /\ open[q + 1] <= open[p + 1] + Opens(both[p + 1])
    <2>1. CASE p < m
      <3>1. p \in 0 .. m - 1 /\ p + 1 \in 1 .. m + n /\ p + 1 <= m
        BY <1>1, <2>1
      <3>2. both[p + 1] = c[p + 1] /\ open[p + 1] = here[p + 1]
        BY <1>1, <1>6, <3>1
      <3>3. Behind(both, p) = Behind(c, p)
        BY <3>2 DEF Behind
      <3>4. ASSUME NEW q \in Behind(c, p)
            PROVE  q \in 0 .. Len(both) /\ open[q + 1] <= open[p + 1] + Opens(both[p + 1])
        <4>1. q \in 0 .. m /\ here[q + 1] <= here[p + 1] + Opens(c[p + 1])
          BY <1>3, <3>1
        <4>2. open[q + 1] <= here[q + 1] /\ open[q + 1] \in Nat /\ here[q + 1] \in Nat
          <5>1. CASE q = m
            BY <1>6, <5>1
          <5>2. CASE q # m
            <6>1. q \in 0 .. m - 1
              BY <1>1, <4>1, <5>2
            <6> QED
              BY <1>6, <6>1
          <5> QED
            BY <5>1, <5>2
        <4>3. q \in 0 .. Len(both)
          <5> HIDE DEF m, n, both
          <5> QED
            BY <1>1, <4>1
        <4>4. Opens(c[p + 1]) \in {-1, 0, 1} /\ here[p + 1] \in Nat
          BY <1>6, <3>1 DEF Opens
        <4> QED
          BY <3>2, <4>1, <4>2, <4>3, <4>4
      <3> QED
        BY <1>3, <3>1, <3>2, <3>3, <3>4
    <2>2. CASE ~(p < m)
      <3> DEFINE r == p - m
      <3>1. r \in 0 .. n - 1 /\ p + 1 \in 1 .. m + n /\ ~(p + 1 <= m) /\ (p + 1) - m = r + 1 /\ p = m + r
        <4> HIDE DEF m, n, both
        <4> QED
          BY <1>1, <2>2
      <3>2. both[p + 1] = d[r + 1]
        BY <1>1, <3>1
      <3>3. open[p + 1] = there[r + 1] /\ there[r + 1] \in Nat
        <4>1. r \in 0 .. n /\ p + 1 = m + r + 1
          <5> HIDE DEF m, n, r
          <5> QED
            BY <1>1, <3>1
        <4>2. open[m + r + 1] = there[r + 1] /\ there[r + 1] \in Nat
          BY <1>6, <4>1
        <4> QED
          BY <4>1, <4>2
      <3>4. d[r + 1] \in Instr /\ d[r + 1].op \notin {"ret", "goto"}
        BY <1>1, <3>1
      <3>5. d[r + 1].op \in {"jump", "br"} => d[r + 1].loc \in Int
        BY <3>4, CodeAssumption
      <3>6. ASSUME NEW q \in Behind(both, p)
            PROVE  q - m \in Behind(d, r) /\ q = m + (q - m)
        <4>1. /\ d[r + 1].op = "jump" => q = p + d[r + 1].loc
              /\ d[r + 1].op = "br" => q = p + 1 \/ q = p + d[r + 1].loc
              /\ d[r + 1].op \notin {"jump", "br"} => q = p + 1 /\ d[r + 1].op # "reterr"
          BY <3>2, <3>4 DEF Behind
        <4> DEFINE loc == d[r + 1].loc
        <4>2. /\ (p + 1) - m = r + 1 /\ p + 1 = m + (r + 1)
              /\ loc \in Int => (p + loc) - m = r + loc /\ p + loc = m + (r + loc)
          <5> HIDE DEF m, r, loc
          <5> QED
            BY <1>1, <3>1
        <4> QED
          BY <3>4, <3>5, <4>1, <4>2 DEF Behind
      <3>7. ASSUME NEW q \in Behind(both, p)
            PROVE  q \in 0 .. Len(both) /\ open[q + 1] <= open[p + 1] + Opens(both[p + 1])
        <4>1. PICK s : s = q - m /\ s \in Behind(d, r) /\ q = m + s
          BY <3>6
        <4>2. s \in 0 .. n /\ there[s + 1] <= there[r + 1] + Opens(d[r + 1])
          BY <1>4, <3>1, <4>1
        <4>3. open[m + s + 1] = there[s + 1]
          BY <1>6, <4>2
        <4>4. q \in 0 .. Len(both)
          <5> HIDE DEF m, n, both
          <5> QED
            BY <1>1, <4>1, <4>2
        <4> QED
          BY <3>2, <3>3, <4>1, <4>2, <4>3, <4>4
      <3> QED
        BY <1>4, <3>1, <3>2, <3>3, <3>7
    <2> QED
      BY <2>1, <2>2
  <1>8. open[1] = 0
    <2>1. CASE m = 0
      BY <1>6, <2>1
    <2>2. CASE m # 0
      <3>1. 0 \in 0 .. m - 1
        BY <1>1, <2>2
      <3> QED
        BY <1>2, <1>6, <3>1
    <2> QED
      BY <2>1, <2>2
  <1>9. CountsScopes(open, both)
    <2> HIDE DEF both
    <2> QED
      BY <1>1, <1>5, <1>7, <1>8 DEF CountsScopes
  <1>10. \A p \in 0 .. m : open[p + 1] <= here[p + 1]
    <2> SUFFICES ASSUME NEW p \in 0 .. m PROVE open[p + 1] <= here[p + 1]
      OBVIOUS
    <2>1. CASE p = m
      BY <1>6, <2>1
    <2>2. CASE p # m
      <3>1. p \in 0 .. m - 1
        BY <1>1, <2>2
      <3> QED
        BY <1>6, <3>1
    <2> QED
      BY <2>1, <2>2
  <1> QED
    BY <1>9, <1>10

\* The pop that joins texts opens no scope.
LEMMA GlueCounts == \E open : CountsScopes(open, Glue)
  <1>1. CASE Glue = <<>>
    <2> DEFINE open == [i \in 1 .. Len(<<>>) + 1 |-> 0]
    <2>1. CountsScopes(open, <<>>)
      BY DEF CountsScopes
    <2> QED
      BY <1>1, <2>1
  <1>2. CASE Glue = <<PopInstr>>
    <2> DEFINE code == <<PopInstr>>
               open == [i \in 1 .. Len(code) + 1 |-> 0]
    <2>1. Len(code) = 1 /\ code[1] = PopInstr /\ PopInstr.op = "pop"
      BY DEF PopInstr
    <2>2. ASSUME NEW p \in 0 .. Len(code) - 1
          PROVE  p = 0 /\ p + 1 = 1 /\ Behind(code, p) = {1} /\ Opens(code[p + 1]) = 0 /\ code[p + 1].op = "pop"
      <3>1. p = 0 /\ p + 1 = 1
        BY <2>1
      <3> QED
        BY <2>1, <3>1 DEF Behind, Opens
    <2>3. open \in [1 .. Len(code) + 1 -> Nat] /\ open[1] = 0 /\ open[2] = 0 /\ open[1 + 1] = 0
      BY <2>1
    <2> HIDE DEF open, code
    <2>4. CountsScopes(open, code)
      BY <2>1, <2>2, <2>3 DEF CountsScopes
    <2> QED
      BY <1>2, <2>4 DEF code
  <1> QED
    BY <1>1, <1>2 DEF Glue

\* A text or a file counts its scopes with the pop before it, too.
LEMMA GluedCounts ==
  ASSUME NEW d \in TopLevelCode, NEW there, CountsScopes(there, d)
  PROVE  Glue \o d \in TopLevelCode /\ \E open : CountsScopes(open, Glue \o d)
  <1>1. PICK here : CountsScopes(here, Glue)
    BY GlueCounts
  <1>2. Glue \in TopLevelCode
    BY GlueIsTopLevel
  <1>3. Glue \o d \in TopLevelCode
    BY <1>2, TopLevelConcat
  <1>4. \E open : CountsScopes(open, Glue \o d)
    BY <1>1, <1>2, CountsOn
  <1> QED
    BY <1>3, <1>4

-----------------------------------------------------------------------------
(* Calls and returns *)

\* A script function stands at a position of its code.
LEMMA Standable ==
  ASSUME NEW fn \in Runnable, NEW p, Position(fn, p)
  PROVE  fn.f.user \/ p \in 0 .. Len(fn.f.code)
  <1>1. Len(fn.f.code) \in Nat
    BY CallableFacts DEF Runnable
  <1> QED
    BY <1>1 DEF Position

\* A call of a symbol keeps the scopes (CallInstr).
LEMMA CallKeepsScopes ==
  ASSUME IInv, Scoped, IInv', Call
  PROVE  Scoped'
  <1>1. At("call") /\ status = "run"
    BY DEF Call, At
  <1>2. CASE I.s \in Builtins
    <2>1. CallUserFunction(FnV(UserFunction(I.s), <<>>), I.s, I.n, datastack)
      BY <1>2 DEF Call
    <2> QED
      BY <1>1, <1>2, <2>1, UserFunctionRuns, BuiltinCall
  <1>3. CASE I.s \notin Builtins /\ Binding(I.s, 1) = {}
    BY <1>3, ScopesStay DEF Call, Fail, scoping
  <1>4. CASE I.s \notin Builtins /\ Binding(I.s, 1) # {}
    <2>1. CallObject(Innermost(I.s, 1), I.s, I.n, datastack)
      BY <1>4 DEF Call
    <2> QED
      BY <1>1, <2>1, ObjectCall
  <1> QED
    BY <1>2, <1>3, <1>4

\* So does a call of the top operand (DispatchInstr).
LEMMA DispatchKeepsScopes ==
  ASSUME IInv, Scoped, IInv', Dispatch
  PROVE  Scoped'
  <1>1. At("dispatch")
    BY DEF Dispatch
  <1>2. CASE Ready(1)
    <2>1. CallObject(Top, IF Top.k = "fn" THEN Top.f.name ELSE "", I.n, Below)
      BY <1>2 DEF Dispatch
    <2> QED
      BY <1>1, <2>1, ObjectCall
  <1>3. CASE ~Ready(1)
    BY <1>3, ScopesStay DEF Dispatch, Fail, scoping
  <1> QED
    BY <1>2, <1>3

\* A return brings back the view its caller had, or a larger one
\* (ReturnFromFunction).
LEMMA ReturnKeepsScopes ==
  ASSUME IInv, Scoped, IInv', Return
  PROVE  Scoped'
  <1> DEFINE n == Len(addrstack)
             h == Len(stackstack)
             a == addrstack[n]
  <1>1. At("ret") /\ status = "run" /\ Live
    BY DEF Return, At, Live
  <1>2. /\ Entered(curfunc) /\ addrstack # <<>> /\ stackstack # <<>>
        /\ Len(stackstack) = Last(addrstack).depth + 1
    BY <1>1, ReturnFound
  <1>3. /\ curfunc' = Last(addrstack).fn /\ pc' = Last(addrstack).pc /\ addrstack' = Front(addrstack)
        /\ scopestack' = Last(stackstack) /\ stackstack' = Front(stackstack) /\ status' = status
    BY <1>2 DEF Return
  <1>4. /\ n \in Nat \ {0} /\ n \in DOMAIN addrstack /\ Last(addrstack) = a /\ a \in AddressT
        /\ \A i \in 1 .. Len(stackstack) : Grounded(stackstack[i])
        /\ ScopesTyped /\ Len(scopestack) \in Nat
    <2>1. /\ n \in Nat \ {0} /\ n \in DOMAIN addrstack /\ Last(addrstack) = a /\ a \in AddressT
      BY <1>2, TopAddress
    <2> QED
      BY <2>1, Facts
  <1>5. /\ h \in Nat \ {0} /\ Last(stackstack) = stackstack[h] /\ Last(stackstack) \in Seq(ScopeId)
        /\ Len(stackstack') = h - 1 /\ \A i \in 1 .. h - 1 : stackstack'[i] = stackstack[i]
    BY <1>2, <1>3, <1>4, Popped DEF ScopesTyped
  <1>6. ~a.native
    <2>1. Callee(n) = curfunc
      BY DEF Callee
    <2> QED
      BY <1>1, <1>2, <1>4, <2>1 DEF IInv, StacksMatch, FramesMatch
  <1>7. /\ Floor(Len(addrstack) + 1)' = Floor(n) /\ ViewFits(n) /\ ViewAside(n)
        /\ \A i \in DOMAIN addrstack' : ViewFits(i)' /\ ViewAside(i)'
        /\ Position(a.fn, a.pc)
    BY <1>1, <1>2, <1>3, <1>4, <1>6, ViewsBack
  <1>8. Len(scopestack') >= a.view /\ Len(scopestack') \in Nat
    <2>1. Len(stackstack[a.depth + 1]) >= a.view
      BY <1>6, <1>7 DEF ViewAside
    <2> QED
      BY <1>2, <1>3, <1>4, <1>5, <2>1, LenProperties
  <1>9. CurrentFits'
    <2>1. Fits(a.fn, a.pc, a.view - Floor(n)) /\ a.view - Floor(n) \in Nat
      BY <1>7 DEF ViewFits, Fits
    <2>2. Floor(n) \in Nat /\ a.view \in Nat
      BY <1>1, <1>2, <1>4, TopAddress DEF AddressT
    <2>3. Len(scopestack') - Floor(n) \in Nat /\ a.view - Floor(n) <= Len(scopestack') - Floor(n)
      <3> DEFINE l == Len(scopestack')
                 f == Floor(n)
                 v == a.view
      <3>1. l \in Nat /\ f \in Nat /\ v \in Nat /\ l >= v /\ v - f \in Nat
        BY <1>8, <2>1, <2>2
      <3> HIDE DEF l, f, v
      <3>2. l - f \in Nat /\ v - f <= l - f
        BY <3>1
      <3> QED
        BY <3>2 DEF l, f, v
    <2>4. a.fn.f.user \/ a.pc \in 0 .. Len(a.fn.f.code)
      BY <1>4, <1>7, Standable DEF AddressT
    <2>5. Fits(a.fn, a.pc, Len(scopestack') - Floor(n))
      BY <2>1, <2>3, <2>4, FitsMore
    <2> QED
      BY <1>3, <1>4, <1>7, <2>5, NextView
  <1>10. GlobalAtBottom'
    <2>1. Grounded(scopestack')
      BY <1>3, <1>4, <1>5
    <2>2. \A i \in 1 .. Len(stackstack') : Grounded(stackstack'[i])
      BY <1>4, <1>5
    <2> QED
      BY <1>1, <1>3, <2>1, <2>2, BottomPartsNext, TypePartsNext DEF IInv
  <1> QED
    BY <1>7, <1>9, <1>10 DEF Scoped

-----------------------------------------------------------------------------
(* Go code *)

\* The view of a builtin that runs is at least its own.
LEMMA InBuiltinFits ==
  ASSUME IInv, Scoped, status = "go"
  PROVE  /\ Live /\ curfunc.f.user /\ pc = -1 /\ addrstack # <<>> /\ gostack # <<>>
         /\ Last(addrstack).native
         /\ Grounded(scopestack)
         /\ Len(scopestack) - Floor(Len(addrstack) + 1) \in Nat
         /\ Fits(curfunc, pc, Len(scopestack) - Floor(Len(addrstack) + 1))
  <1>1. Live
    BY DEF Live
  <1>2. Fits(curfunc, pc, Len(scopestack) - Floor(Len(addrstack) + 1))
    BY <1>1 DEF Scoped, CurrentFits
  <1> QED
    BY <1>1, <1>2, InBuiltin, Facts DEF Fits

\* Every application of apply, map, foldl and foldr keeps the scopes (Apply).
LEMMA ApplyKeepsScopes ==
  ASSUME IInv, Scoped, IInv', ApplyStep
  PROVE  Scoped'
  <1> DEFINE fn   == Frame.f
             args == Head(Frame.todo) \o (IF Frame.kind \in Folds THEN <<Frame.acc>> ELSE <<>>)
  <1>1. status = "go"
    BY DEF ApplyStep
  <1>2. /\ Live /\ curfunc.f.user /\ pc = -1 /\ Grounded(scopestack)
        /\ Fits(curfunc, pc, Len(scopestack) - Floor(Len(addrstack) + 1))
    BY <1>1, InBuiltinFits
  <1>3. CASE Fail /\ UNCHANGED <<scopestack, stackstack>>
    BY <1>3, ScopesStay DEF Fail
  <1>4. CASE fn \in Closure /\ ~fn.f.user /\ CallFunction(fn, Len(args), datastack \o args, -2)
    <2>1. Position(curfunc, -2 + 1) /\ -2 \in Int /\ -2 + 1 = pc
      BY <1>2 DEF Position
    <2>2. Fits(curfunc, -2 + 1, Len(scopestack) - Floor(Len(addrstack) + 1))
      BY <1>2, <2>1
    <2> QED
      BY <1>2, <1>4, <2>1, <2>2, ScriptCall
  <1>5. CASE UNCHANGED <<status, scopestack, stackstack, addrstack, curfunc, pc>>
    <2>1. status' # "panicked"
      BY <1>1, <1>5
    <2> QED
      BY <1>2, <1>5, <2>1, ViewChanges
  <1> QED
    BY <1>3, <1>4, <1>5 DEF ApplyStep, scoping

\* So does every item of source-file: a file sees its caller's view
\* (SourceFileFunction, SourceExpressions).
LEMMA SourceKeepsScopes ==
  ASSUME IInv, Scoped, IInv', SourceStep
  PROVE  Scoped'
  <1> DEFINE item == Head(Frame.todo)[1]
             code == Glue \o FileCode[item.t]
  <1>1. status = "go" /\ UNCHANGED <<scoping, addrstack>>
    BY DEF SourceStep
  <1>2. /\ Live /\ Grounded(scopestack)
        /\ Len(scopestack) - Floor(Len(addrstack) + 1) \in Nat
        /\ Fits(curfunc, pc, Len(scopestack) - Floor(Len(addrstack) + 1))
    BY <1>1, InBuiltinFits
  <1>3. CASE Fail
    BY <1>1, <1>3, ScopesStay DEF Fail, scoping
  <1>4. CASE item.t \in DOMAIN FileCode /\ curfunc' = Script("__source", code) /\ pc' = 0 /\ status' = "run"
    <2>1. FileCode[item.t] \in TopLevelCode
      BY <1>4, CodeAssumption
    <2>2. PICK there : CountsScopes(there, FileCode[item.t])
      BY <1>4, CodeCounts
    <2>3. code \in TopLevelCode /\ \E open : CountsScopes(open, code)
      BY <2>1, <2>2, GluedCounts
    <2>4. PICK open : CountsScopes(open, code)
      BY <2>3
    <2> HIDE DEF code
    <2>5. curfunc'.f.code = code
      BY <1>4 DEF Script, FnV, MakeFunction
    <2>6. Fits(curfunc', 0, Len(scopestack) - Floor(Len(addrstack) + 1))
      BY <1>2, <2>4, <2>5, BeginningFits
    <2> QED
      BY <1>1, <1>2, <1>4, <2>6, ViewChanges DEF scoping
  <1>5. CASE UNCHANGED <<curfunc, pc, status>>
    <2>1. status' # "panicked"
      BY <1>1, <1>5
    <2> QED
      BY <1>1, <1>2, <1>5, <2>1, ViewChanges DEF scoping
  <1> QED
    BY <1>3, <1>4, <1>5 DEF SourceStep

\* So does the return of such a builtin: its caller had this view, or a
\* smaller one (CallUserFunction, Apply).
LEMMA BuiltinReturnKeepsScopes ==
  ASSUME IInv, Scoped, IInv', BuiltinReturn
  PROVE  Scoped'
  <1> DEFINE n == Len(addrstack)
             a == addrstack[n]
  <1>1. status = "go" /\ UNCHANGED <<scopestack, stackstack>>
    BY DEF BuiltinReturn, scoping
  <1>2. /\ Live /\ addrstack # <<>> /\ Last(addrstack).native /\ Grounded(scopestack)
        /\ Len(scopestack) - Floor(Len(addrstack) + 1) \in Nat
        /\ Fits(curfunc, pc, Len(scopestack) - Floor(Len(addrstack) + 1))
    BY <1>1, InBuiltinFits
  <1>3. CASE Frame.own
    <2>1. /\ curfunc' = Last(addrstack).fn /\ pc' = Last(addrstack).pc /\ addrstack' = Front(addrstack)
          /\ status' = "run"
      BY <1>2, <1>3 DEF BuiltinReturn
    <2>2. /\ n \in Nat \ {0} /\ Last(addrstack) = a /\ a \in AddressT /\ Floor(n) \in Nat
          /\ Len(scopestack) \in Nat /\ ScopesTyped
          /\ \A i \in 1 .. Len(stackstack) : Grounded(stackstack[i])
      <3>1. n \in Nat \ {0} /\ Last(addrstack) = a /\ a \in AddressT /\ Floor(n) \in Nat
        BY <1>2, TopAddress
      <3> QED
        BY <3>1, Facts
    <2>3. /\ Floor(Len(addrstack) + 1)' = Floor(n) /\ ViewFits(n) /\ Position(a.fn, a.pc)
          /\ \A i \in DOMAIN addrstack' : ViewFits(i)' /\ ViewAside(i)'
      BY <1>1, <1>2, <2>1, <2>2, ViewsBack
    <2>4. Floor(n + 1) = a.view
      <3>1. n + 1 > 1 /\ (n + 1) - 1 = n /\ a.native
        BY <1>2, <2>2
      <3> QED
        BY <3>1 DEF Floor
    <2>5. CurrentFits'
      <3>1. Fits(a.fn, a.pc, a.view - Floor(n)) /\ a.view - Floor(n) \in Nat /\ a.view \in Nat
        BY <2>2, <2>3 DEF ViewFits, Fits, AddressT
      <3>2. Len(scopestack) - Floor(n) \in Nat /\ a.view - Floor(n) <= Len(scopestack) - Floor(n)
        <4> DEFINE l == Len(scopestack)
                   f == Floor(n)
                   v == a.view
        <4>1. l \in Nat /\ f \in Nat /\ v \in Nat /\ l - v \in Nat /\ v - f \in Nat
          BY <1>2, <2>2, <2>4, <3>1
        <4> HIDE DEF l, f, v
        <4>2. l - f \in Nat /\ v - f <= l - f
          BY <4>1
        <4> QED
          BY <4>2 DEF l, f, v
      <3>3. a.fn.f.user \/ a.pc \in 0 .. Len(a.fn.f.code)
        BY <2>2, <2>3, Standable DEF AddressT
      <3>4. Fits(a.fn, a.pc, Len(scopestack) - Floor(n))
        BY <3>1, <3>2, <3>3, FitsMore
      <3> QED
        BY <1>1, <2>1, <2>2, <2>3, <3>4, NextView
    <2>6. GlobalAtBottom'
      BY <1>1, <1>2, <2>1, <2>2, BottomPartsNext, TypePartsNext DEF IInv
    <2> QED
      BY <2>3, <2>5, <2>6 DEF Scoped
  <1>4. CASE ~Frame.own
    <2>1. UNCHANGED <<curfunc, pc, addrstack, status>>
      BY <1>4 DEF BuiltinReturn
    <2>2. status' # "panicked"
      BY <1>1, <2>1
    <2> QED
      BY <1>1, <1>2, <2>1, <2>2, ViewChanges
  <1> QED
    BY <1>3, <1>4

\* So does the end of a run (Run, Finish).
LEMMA FinishKeepsScopes ==
  ASSUME IInv, Scoped, IInv', Finish
  PROVE  Scoped'
  <1>1. status = "run" /\ UNCHANGED <<scopestack, stackstack, addrstack>>
    BY DEF Finish, scoping
  <1>2. Live /\ Grounded(scopestack)
    BY <1>1, Facts DEF Live
  <1>3. Fits(curfunc, pc, Len(scopestack) - Floor(Len(addrstack) + 1))
    BY <1>2 DEF Scoped, CurrentFits
  <1>4. CASE status' = "exited"
    BY <1>1, <1>4, ScopesStay
  <1>5. CASE status' \in {"idle", "go"} /\ UNCHANGED <<curfunc, pc>>
    BY <1>1, <1>2, <1>3, <1>5, ViewChanges
  <1>6. CASE status' = "go" /\ curfunc' = FnV(UserFunction("source-file"), <<>>)
    <2>1. curfunc'.f.user
      BY <1>6, UserFunctionRuns
    <2>2. Fits(curfunc', pc', Len(scopestack) - Floor(Len(addrstack) + 1))
      BY <1>3, <2>1, BuiltinFits DEF Fits
    <2> QED
      BY <1>1, <1>2, <1>6, <2>2, ViewChanges
  <1> QED
    BY <1>4, <1>5, <1>6 DEF Finish

-----------------------------------------------------------------------------
(* The host *)

\* With nothing on any stack but the scopes, the invariant speaks of main alone.
LEMMA AtHost ==
  ASSUME IInv', addrstack' = <<>>, status' # "panicked", Grounded(scopestack'),
         \A i \in 1 .. Len(stackstack') : Grounded(stackstack'[i]),
         Fits(curfunc', pc', Len(scopestack') - 1)
  PROVE  Scoped'
  <1>1. GlobalAtBottom'
    BY BottomPartsNext, TypePartsNext DEF IInv
  <1>2. DOMAIN addrstack' = {} /\ Len(addrstack') = 0
    BY EmptySeq
  <1>3. Floor(Len(addrstack) + 1)' = 1
    <2>1. ~(Len(addrstack') + 1 > 1)
      BY <1>2
    <2> QED
      BY <2>1 DEF Floor
  <1>4. CurrentFits'
    BY <1>3, NextView
  <1> QED
    BY <1>1, <1>2, <1>4 DEF Scoped

\* A host that is idle stands in main with the global scope in view.
LEMMA HostFits ==
  ASSUME IInv, Scoped, status = "idle"
  PROVE  /\ Live /\ addrstack = <<>> /\ curfunc = mainfunc /\ Grounded(scopestack)
         /\ \A i \in 1 .. Len(stackstack) : Grounded(stackstack[i])
         /\ Fits(curfunc, pc, Len(scopestack) - 1)
         /\ mainfunc.f.code \in TopLevelCode /\ ~mainfunc.f.user /\ pc \in 0 .. Len(mainfunc.f.code)
  <1>1. Live /\ addrstack = <<>> /\ curfunc = mainfunc
    BY DEF IInv, StacksMatch, ActivationsMatch, Live
  <1>2. Floor(Len(addrstack) + 1) = 1
    <2>1. ~(Len(addrstack) + 1 > 1)
      BY <1>1, EmptySeq
    <2> QED
      BY <2>1 DEF Floor
  <1>3. Fits(curfunc, pc, Len(scopestack) - 1)
    BY <1>1, <1>2 DEF Scoped, CurrentFits
  <1>4. MainTyped /\ Position(mainfunc, pc)
    BY <1>1, TypeParts DEF IInv
  <1>5. mainfunc.f.code \in TopLevelCode /\ ~mainfunc.f.user
    BY <1>4 DEF MainTyped, Runnable, Entered, TopLevel
  <1>6. pc \in 0 .. Len(mainfunc.f.code)
    BY <1>4, Standable DEF MainTyped
  <1> QED
    BY <1>1, <1>3, <1>5, <1>6, Facts

\* Loading a text keeps the scopes (LoadExpressions).
LEMMA LoadKeepsScopes ==
  ASSUME IInv, Scoped, IInv', NEW p \in Piece, Load(p)
  PROVE  Scoped'
  <1> DEFINE main == mainfunc.f.code
             code == main \o Glue \o PieceCode[p]
  <1>1. /\ status = "idle" /\ mainfunc' = Script("__main", code) /\ curfunc' = mainfunc'
        /\ UNCHANGED <<scopestack, stackstack, addrstack, pc, status>>
    BY DEF Load, scoping
  <1>2. /\ addrstack = <<>> /\ curfunc = mainfunc /\ Grounded(scopestack)
        /\ \A i \in 1 .. Len(stackstack) : Grounded(stackstack[i])
        /\ Fits(curfunc, pc, Len(scopestack) - 1)
        /\ main \in TopLevelCode /\ ~mainfunc.f.user /\ pc \in 0 .. Len(main)
    BY <1>1, HostFits
  <1>3. PICK here : CountsScopes(here, main) /\ here[pc + 1] <= Len(scopestack) - 1
    BY <1>2 DEF Fits
  <1>4. PICK glue : CountsScopes(glue, Glue)
    BY GlueCounts
  <1>5. PICK there : CountsScopes(there, PieceCode[p])
    BY CodeCounts
  <1>6. Glue \in TopLevelCode /\ PieceCode[p] \in TopLevelCode
    BY GlueIsTopLevel, CodeAssumption
  <1>7. main \o Glue \in TopLevelCode /\ Len(main) \in Nat /\ Len(main) <= Len(main \o Glue)
    <2>1. /\ main \o Glue \in TopLevelCode /\ Len(main) \in Nat /\ Len(Glue) \in Nat
          /\ Len(main \o Glue) = Len(main) + Len(Glue)
      BY <1>2, <1>6, TopLevelConcat
    <2> QED
      BY <2>1
  <1>8. PICK mid : CountsScopes(mid, main \o Glue) /\ \A q \in 0 .. Len(main) : mid[q + 1] <= here[q + 1]
    BY <1>2, <1>3, <1>4, <1>6, CountsOn
  <1>9. PICK open : /\ CountsScopes(open, code)
                    /\ \A q \in 0 .. Len(main \o Glue) : open[q + 1] <= mid[q + 1]
    BY <1>5, <1>6, <1>7, <1>8, CountsOn
  <1>10. open[pc + 1] <= Len(scopestack) - 1 /\ Len(scopestack) - 1 \in Nat
    <2>1. pc \in 0 .. Len(main \o Glue) /\ Len(main \o Glue) \in Nat
      <3> DEFINE a == Len(main)
                 b == Len(main \o Glue)
      <3>1. b \in Nat /\ a \in Nat /\ a <= b /\ pc \in 0 .. a
        BY <1>2, <1>6, <1>7, TopLevelConcat
      <3> HIDE DEF a, b
      <3>2. pc \in 0 .. b
        BY <3>1
      <3> QED
        BY <3>1, <3>2 DEF b
    <2>2. open[pc + 1] <= mid[pc + 1] /\ mid[pc + 1] <= here[pc + 1]
      BY <1>2, <1>8, <1>9, <2>1
    <2>3. here[pc + 1] \in Nat
      <3>1. pc + 1 \in 1 .. Len(main) + 1
        BY <1>2, <1>7
      <3> QED
        BY <1>3, <3>1 DEF CountsScopes
    <2>4. mid[pc + 1] \in Nat
      <3>1. pc + 1 \in 1 .. Len(main \o Glue) + 1
        BY <2>1
      <3> QED
        BY <1>8, <3>1 DEF CountsScopes
    <2>5. open[pc + 1] \in Nat
      <3>1. code \in TopLevelCode /\ Len(code) = Len(main \o Glue) + Len(PieceCode[p]) /\ Len(PieceCode[p]) \in Nat
        BY <1>6, <1>7, TopLevelConcat
      <3> DEFINE b == Len(main \o Glue)
                 c == Len(PieceCode[p])
                 l == Len(code)
      <3>2. b \in Nat /\ c \in Nat /\ l = b + c /\ pc \in 0 .. b
        BY <2>1, <3>1
      <3> HIDE DEF b, c, l
      <3>3. pc + 1 \in 1 .. l + 1
        BY <3>2
      <3> USE DEF l
      <3> QED
        BY <1>9, <3>3 DEF CountsScopes
    <2>6. Len(scopestack) - 1 \in Nat
      BY <1>2 DEF Fits
    <2> DEFINE w == open[pc + 1]
               x == mid[pc + 1]
               y == here[pc + 1]
               z == Len(scopestack) - 1
    <2>7. w \in Nat /\ x \in Nat /\ y \in Nat /\ z \in Nat /\ w <= x /\ x <= y /\ y <= z
      BY <1>3, <2>2, <2>3, <2>4, <2>5, <2>6
    <2> HIDE DEF w, x, y, z
    <2>8. w <= z
      BY <2>7
    <2> QED
      BY <2>6, <2>8 DEF w, z
  <1> HIDE DEF code
  <1>11. curfunc'.f.code = code
    BY <1>1 DEF Script, FnV, MakeFunction
  <1>12. Fits(curfunc', pc', Len(scopestack') - 1)
    <2>1. \E o : CountsScopes(o, curfunc'.f.code) /\ o[pc' + 1] <= Len(scopestack') - 1
      BY <1>1, <1>9, <1>10, <1>11
    <2> QED
      BY <1>1, <1>10, <2>1 DEF Fits
  <1> QED
    BY <1>1, <1>2, <1>12, AtHost

\* Recovering from an error keeps the global scope and begins an empty main
\* (GetStackTrace, Clear).
LEMMA RecoverKeepsScopes ==
  ASSUME IInv, Scoped, IInv', Recover
  PROVE  Scoped'
  <1>1. /\ addrstack' = <<>> /\ status' = "idle" /\ pc' = 0 /\ curfunc' = Script("__main", <<>>)
        /\ scopestack' = <<IF scopestack = <<>> THEN Global ELSE scopestack[1]>>
        /\ UNCHANGED stackstack
    BY DEF Recover
  <1>2. /\ Grounded(scopestack) /\ \A i \in 1 .. Len(stackstack) : Grounded(stackstack[i])
    BY Facts
  <1>3. Grounded(scopestack') /\ Len(scopestack') - 1 = 0
    BY <1>1, <1>2 DEF Grounded
  <1>4. curfunc'.f.code = <<>>
    BY <1>1 DEF Script, FnV, MakeFunction
  <1>5. CountsScopes([i \in 1 .. Len(<<>>) + 1 |-> 0], <<>>)
    BY DEF CountsScopes
  <1>6. Fits(curfunc', pc', Len(scopestack') - 1)
    BY <1>1, <1>3, <1>4, <1>5, BeginningFits
  <1> QED
    BY <1>1, <1>2, <1>3, <1>6, AtHost

\* What the host does keeps the scopes.
LEMMA HostKeepsScopes ==
  ASSUME IInv, Scoped, IInv', Run \/ Recover \/ LoadFails \/ \E p \in Piece : Load(p)
  PROVE  Scoped'
  <1>1. CASE Run
    <2>1. /\ status = "idle" /\ status' = "run"
          /\ UNCHANGED <<scopestack, stackstack, addrstack, curfunc, pc>>
      BY <1>1 DEF Run, scoping
    <2> QED
      BY <2>1, HostFits, AtHost
  <1>2. CASE Recover
    BY <1>2, RecoverKeepsScopes
  <1>3. CASE LoadFails
    BY <1>3, ScopesStay DEF LoadFails, Fail, scoping
  <1>4. CASE \E p \in Piece : Load(p)
    BY <1>4, LoadKeepsScopes
  <1> QED
    BY <1>1, <1>2, <1>3, <1>4

\* A step that changes nothing keeps them.
LEMMA StutterKeepsScopes ==
  ASSUME IInv, Scoped, IInv', UNCHANGED vars
  PROVE  Scoped'
  <1>1. UNCHANGED <<scopestack, stackstack, addrstack, curfunc, pc, status>>
    BY DEF vars
  <1>2. CASE Live
    <2>1. Fits(curfunc, pc, Len(scopestack) - Floor(Len(addrstack) + 1)) /\ Grounded(scopestack)
      BY <1>2, Facts DEF Scoped, CurrentFits
    <2>2. status' # "panicked"
      BY <1>1, <1>2 DEF Live
    <2> QED
      BY <1>1, <1>2, <2>1, <2>2, ViewChanges
  <1>3. CASE ~Live
    <2>1. status' \in {"failed", "exited"}
      <3>1. status \in {"idle", "run", "go", "failed", "exited", "panicked"}
        BY TypeParts DEF IInv
      <3>2. status # "panicked"
        BY DEF Scoped, GlobalAtBottom
      <3> QED
        BY <1>1, <1>3, <3>1, <3>2 DEF Live
    <2> QED
      BY <1>1, <2>1, ScopesStay
  <1> QED
    BY <1>2, <1>3

\* A new environment has the global scope in view and nothing to run (NewGlisp).
LEMMA InitScoped ==
  ASSUME Init, IInv
  PROVE  Scoped
  <1>1. /\ addrstack = <<>> /\ stackstack = <<>> /\ scopestack = <<Global>>
        /\ status = "idle" /\ pc = 0 /\ curfunc = Script("__main", <<>>)
    BY DEF Init
  <1>2. GlobalAtBottom
    <2>1. Len(stackstack) = 0
      BY <1>1
    <2>2. Grounded(scopestack) /\ status # "panicked"
      BY <1>1 DEF Grounded
    <2>3. ScopesTyped
      BY TypeParts DEF IInv
    <2> QED
      BY <2>1, <2>2, <2>3, BottomParts
  <1>3. DOMAIN addrstack = {} /\ Len(addrstack) = 0
    BY <1>1
  <1>4. Floor(Len(addrstack) + 1) = 1
    <2>1. ~(Len(addrstack) + 1 > 1)
      BY <1>3
    <2> QED
      BY <2>1 DEF Floor
  <1>5. Len(scopestack) - 1 = 0
    BY <1>1
  <1>6. curfunc.f.code = <<>>
    BY <1>1 DEF Script, FnV, MakeFunction
  <1>7. CountsScopes([i \in 1 .. Len(<<>>) + 1 |-> 0], <<>>)
    BY DEF CountsScopes
  <1>8. CurrentFits
    BY <1>1, <1>4, <1>5, <1>6, <1>7, BeginningFits DEF CurrentFits
  <1> QED
    BY <1>2, <1>3, <1>8 DEF Scoped

\* Every step of the interpreter and its host keeps the scopes.
LEMMA NextKeepsScopes ==
  ASSUME IInv, Unwound, Scoped, [Next]_vars
  PROVE  Scoped'
  <1>1. IInv'
    BY NextInvariant
  <1>2. CASE Instruction
    BY <1>1, <1>2, CallKeepsScopes, DispatchKeepsScopes, ReturnKeepsScopes, SimpleKeepsScopes,
       AddScopeKeepsScopes, RemoveScopeKeepsScopes DEF Instruction
  <1>3. CASE GoCode
    BY <1>1, <1>3, SourceKeepsScopes, ApplyKeepsScopes, BuiltinReturnKeepsScopes, FinishKeepsScopes DEF GoCode
  <1>4. CASE Run \/ Recover \/ LoadFails \/ \E p \in Piece : Load(p)
    BY <1>1, <1>4, HostKeepsScopes
  <1>5. CASE UNCHANGED vars
    BY <1>1, <1>5, StutterKeepsScopes
  <1> QED
    BY <1>2, <1>3, <1>4, <1>5 DEF Next, Machine

-----------------------------------------------------------------------------
(* The global scope stays *)

\* The global scope is at the bottom of every scope stack, whatever programs
\* run, fail and are recovered from: no call panics with "where's the global
\* scope?", as long as the code the generator emits removes no scope it has not
\* added (CallFunction, RemoveScopeInstr, ReturnFromFunction, Clear).
THEOREM GlobalScopeStays == Spec => []GlobalAtBottom
  <1>1. Init => Scoped
    BY InitInvariant, InitScoped
  <1>2. IInv /\ Unwound /\ Scoped /\ [Next]_vars => Scoped'
    BY NextKeepsScopes
  <1>3. Scoped => GlobalAtBottom
    BY DEF Scoped
  <1> QED
    BY <1>1, <1>2, <1>3, Invariance, PTL DEF Spec

-----------------------------------------------------------------------------
(* Code that closes its scopes: the inductive invariant *)

\* How many scopes were in view when fn began at level i of the addresses in as:
\* those of its caller for a builtin and for the files it sources; the global
\* scope, those it closed over and its own for a script function; the global scope
\* for main.
Found(as, i, fn) ==
  IF i > 1 /\ as[i - 1].native THEN as[i - 1].view
  ELSE IF Entered(fn) THEN Len(fn.close) + 2 ELSE 1

\* At position p of fn, exactly n scopes are open besides those it found.
Exact(fn, p, n) ==
  /\ n \in Nat
  /\ IF fn.f.user THEN n = 0 ELSE \E open : Balances(open, fn.f.code) /\ open[p + 1] = n

\* Address i was left with the scopes that its code has open there, and for a
\* script function that is how many scopes the stack set aside has.
ViewExact(as, i)      == Exact(as[i].fn, as[i].pc, as[i].view - Found(as, i, as[i].fn))
AsideExact(as, ss, i) == ~as[i].native => Len(ss[as[i].depth + 1]) = as[i].view

\* With Scoped, this is inductive: every function that runs or waits has open
\* what its code has open there.
CurrentExact == Exact(curfunc, pc, Len(scopestack) - Found(addrstack, Len(addrstack) + 1, curfunc))
WaitingExact == \A i \in DOMAIN addrstack : ViewExact(addrstack, i) /\ AsideExact(addrstack, stackstack, i)
Closing      == Live => CurrentExact /\ WaitingExact /\ OnlyGlobalInView

-----------------------------------------------------------------------------
(* Code that closes its scopes: scope stacks *)

\* What the invariants say where the machine is.
LEMMA Counted ==
  ASSUME IInv, Scoped, Closing, Live
  PROVE  /\ Len(addrstack) \in Nat /\ DOMAIN addrstack = 1 .. Len(addrstack)
         /\ Len(scopestack) \in Nat /\ Found(addrstack, Len(addrstack) + 1, curfunc) \in Nat
         /\ \A i \in 1 .. Len(addrstack) : addrstack[i] \in AddressT
         /\ CurrentExact /\ \A i \in 1 .. Len(addrstack) : ViewExact(addrstack, i) /\ AsideExact(addrstack, stackstack, i)
  <1>1. /\ Len(addrstack) \in Nat /\ DOMAIN addrstack = 1 .. Len(addrstack) /\ Len(scopestack) \in Nat
        /\ \A i \in 1 .. Len(addrstack) : addrstack[i] \in AddressT
    BY Facts
  <1>2. Found(addrstack, Len(addrstack) + 1, curfunc) \in Nat
    <2>1. CASE Len(addrstack) + 1 > 1 /\ addrstack[(Len(addrstack) + 1) - 1].native
      <3>1. (Len(addrstack) + 1) - 1 \in 1 .. Len(addrstack)
        BY <1>1, <2>1
      <3> QED
        BY <1>1, <2>1, <3>1 DEF Found, AddressT
    <2>2. CASE ~(Len(addrstack) + 1 > 1 /\ addrstack[(Len(addrstack) + 1) - 1].native)
      <3>1. curfunc \in Callable
        BY TypeParts DEF IInv, Runnable
      <3>2. Len(curfunc.close) \in Nat
        BY <3>1, CallableFacts, LenProperties
      <3> QED
        BY <2>2, <3>2 DEF Found
    <2> QED
      BY <2>1, <2>2
  <1> QED
    BY <1>1, <1>2 DEF Closing, WaitingExact

\* Where the machine may go from an instruction, and the scopes that are open
\* there. None is open where a function returns or begins again.
LEMMA ExactlyOn ==
  ASSUME IInv, Scoped, Closing, NEW op, At(op),
         NEW n, n = Len(scopestack) - Found(addrstack, Len(addrstack) + 1, curfunc)
  PROVE  /\ Live /\ n \in Nat /\ I.op = op
         /\ op = "remscope" => n > 0
         /\ op = "ret" => n = 0
         /\ op = "goto" /\ I.loc = 0 => n = 0
         /\ op \notin {"jump", "goto", "ret", "reterr"} => Exact(curfunc, pc + 1, n + Opens(I))
         /\ op \in {"jump", "br"} => Exact(curfunc, pc + I.loc, n + Opens(I))
         /\ op = "goto" => Exact(curfunc, I.loc, n + Opens(I))
  <1>1. Live /\ I.op = op
    BY DEF At, Live
  <1>2. /\ ~curfunc.f.user /\ Len(curfunc.f.code) \in Nat /\ pc \in 0 .. Len(curfunc.f.code) - 1
    BY Standing DEF IInv
  <1>3. n \in Nat /\ \E open : Balances(open, curfunc.f.code) /\ open[pc + 1] = n
    BY <1>1, <1>2 DEF Closing, CurrentExact, Exact
  <1>4. PICK open : Balances(open, curfunc.f.code) /\ open[pc + 1] = n
    BY <1>3
  <1>5. /\ op = "remscope" => n > 0
        /\ op = "ret" => n = 0
        /\ open \in [1 .. Len(curfunc.f.code) + 1 -> Nat \cup {-1}] /\ open[1] = 0
        /\ \A q \in Behind(curfunc.f.code, pc) : q \in 0 .. Len(curfunc.f.code) /\ open[q + 1] = n + Opens(I)
    <2>1. open \in [1 .. Len(curfunc.f.code) + 1 -> Nat \cup {-1}] /\ open[1] = 0
      BY <1>4 DEF Balances
    <2>2. open[pc + 1] # -1
      BY <1>3, <1>4
    <2>3. /\ curfunc.f.code[pc + 1].op = "remscope" => open[pc + 1] > 0
          /\ curfunc.f.code[pc + 1].op = "ret" => open[pc + 1] = 0
          /\ \A q \in Behind(curfunc.f.code, pc) :
               q \in 0 .. Len(curfunc.f.code) /\ open[q + 1] = open[pc + 1] + Opens(curfunc.f.code[pc + 1])
      BY <1>2, <1>4, <2>2 DEF Balances
    <2> QED
      BY <1>1, <1>4, <2>1, <2>3 DEF I
  <1>6. Opens(I) \in {-1, 0, 1} /\ (Opens(I) = -1 => op = "remscope")
    BY <1>1 DEF Opens
  <1>7. ASSUME NEW q \in Behind(curfunc.f.code, pc)
        PROVE  Exact(curfunc, q, n + Opens(I))
    <2>1. n + Opens(I) \in Nat
      BY <1>3, <1>5, <1>6
    <2>2. \E o : Balances(o, curfunc.f.code) /\ o[q + 1] = n + Opens(I)
      BY <1>4, <1>5
    <2> QED
      BY <1>2, <2>1, <2>2 DEF Exact
  <1>8. /\ op \notin {"jump", "goto", "ret", "reterr"} => pc + 1 \in Behind(curfunc.f.code, pc)
        /\ op \in {"jump", "br"} => pc + I.loc \in Behind(curfunc.f.code, pc)
        /\ op = "goto" => I.loc \in Behind(curfunc.f.code, pc)
    BY <1>1 DEF Behind, I
  <1>9. ASSUME op = "goto", I.loc = 0
        PROVE  n = 0
    <2>1. open[0 + 1] = n + Opens(I) /\ Opens(I) = 0 /\ open[0 + 1] = 0
      BY <1>1, <1>5, <1>8, <1>9 DEF Opens
    <2> QED
      BY <1>3, <2>1
  <1> QED
    BY <1>1, <1>3, <1>5, <1>7, <1>8, <1>9

\* A function that begins has opened nothing.
LEMMA NothingOpen ==
  ASSUME NEW fn, NEW open, Balances(open, fn.f.code), ~fn.f.user
  PROVE  Exact(fn, 0, 0)
  <1>1. open[0 + 1] = 0
    BY DEF Balances
  <1> QED
    BY <1>1 DEF Exact

\* A builtin opens nothing.
LEMMA BuiltinExact ==
  ASSUME NEW fn, fn.f.user, NEW p
  PROVE  Exact(fn, p, 0)
  BY DEF Exact

-----------------------------------------------------------------------------
(* Code that closes its scopes: kinds of steps *)

\* The machine stops.
LEMMA StopCloses ==
  ASSUME status' \in {"failed", "exited", "panicked"}
  PROVE  Closing'
  BY DEF Closing, Live

\* A step that changes the view of the code that runs only, or the code.
LEMMA ViewCloses ==
  ASSUME IInv, Scoped, Closing, Live, status' = "idle" => scopestack' = <<Global>>,
         UNCHANGED <<addrstack, stackstack>>,
         Exact(curfunc', pc', Len(scopestack') - Found(addrstack, Len(addrstack) + 1, curfunc'))
  PROVE  Closing'
  <1>1. CurrentExact'
    BY DEF CurrentExact
  <1>2. WaitingExact'
    BY DEF Closing, WaitingExact
  <1> QED
    BY <1>1, <1>2 DEF Closing, OnlyGlobalInView

\* What waits below an address that is pushed goes on waiting as it did.
LEMMA WaitingPushed ==
  ASSUME IInv, Scoped, Closing, Live, NEW p \in Int, Position(curfunc, p + 1), NEW native \in BOOLEAN,
         addrstack' = Append(addrstack, Address(p, native)),
         Exact(curfunc, p + 1, Len(scopestack) - Found(addrstack, Len(addrstack) + 1, curfunc)),
         IF native THEN UNCHANGED stackstack ELSE stackstack' = SetAside
  PROVE  /\ WaitingExact'
         /\ \A fn : Found(addrstack', Len(addrstack') + 1, fn)
                    = IF native THEN Len(scopestack) ELSE IF Entered(fn) THEN Len(fn.close) + 2 ELSE 1
  <1> DEFINE n == Len(addrstack)
             h == Len(stackstack)
             new == addrstack'
             old == addrstack
  <1>1. /\ n \in Nat /\ DOMAIN old = 1 .. n /\ \A j \in 1 .. n : old[j] \in AddressT
        /\ \A j \in 1 .. n : ViewExact(old, j) /\ AsideExact(old, stackstack, j)
        /\ ScopesTyped /\ h \in Nat
    BY Counted, Facts
  <1>2. /\ DOMAIN new = 1 .. n + 1 /\ Len(new) = n + 1 /\ \A j \in 1 .. n : new[j] = old[j]
        /\ new[n + 1] = Address(p, native)
    BY NewAddress DEF IInv
  <1>3. /\ new[n + 1].fn = curfunc /\ new[n + 1].pc = p + 1 /\ new[n + 1].native = native
        /\ new[n + 1].depth = h /\ new[n + 1].view = Len(scopestack)
    BY <1>2 DEF Address
  <1>4. /\ \A j \in 1 .. h : stackstack'[j] = stackstack[j]
        /\ ~native => stackstack'[h + 1] = scopestack
    <2>1. CASE native
      BY <2>1
    <2>2. CASE ~native
      BY <1>1, <2>2, PushPop DEF ScopesTyped, SetAside
    <2> QED
      BY <2>1, <2>2
  <1>5. ASSUME NEW j \in 1 .. n + 1, NEW fn
        PROVE  Found(new, j, fn) = Found(old, j, fn)
    <2>1. j \in Nat /\ (j > 1 => j - 1 \in 1 .. n)
      BY <1>1
    <2>2. j > 1 => new[j - 1] = old[j - 1]
      BY <1>2, <2>1
    <2> QED
      BY <2>1, <2>2 DEF Found
  <1>6. ASSUME NEW j \in 1 .. n + 1
        PROVE  ViewExact(new, j) /\ AsideExact(new, stackstack', j)
    <2>1. CASE j \in 1 .. n
      <3>1. ViewExact(old, j) /\ AsideExact(old, stackstack, j) /\ new[j] = old[j]
        BY <1>1, <1>2, <2>1
      <3>2. Found(new, j, new[j].fn) = Found(old, j, old[j].fn)
        BY <1>5, <3>1
      <3>3. ~old[j].native => stackstack'[old[j].depth + 1] = stackstack[old[j].depth + 1]
        <4>1. ~old[j].native => old[j].depth < h
          BY <1>1, <2>1 DEF Scoped, ViewAside
        <4>2. old[j].depth \in Nat
          BY <1>1, <2>1 DEF AddressT
        <4>3. ~old[j].native => old[j].depth + 1 \in 1 .. h
          BY <1>1, <4>1, <4>2
        <4> QED
          BY <1>4, <4>3
      <3> QED
        BY <3>1, <3>2, <3>3 DEF ViewExact, AsideExact
    <2>2. CASE j = n + 1
      <3>1. Found(new, j, curfunc) = Found(old, n + 1, curfunc)
        BY <1>5, <2>2
      <3>2. ViewExact(new, j)
        BY <1>3, <2>2, <3>1 DEF ViewExact
      <3>3. AsideExact(new, stackstack', j)
        BY <1>3, <1>4, <2>2 DEF AsideExact
      <3> QED
        BY <3>2, <3>3
    <2> QED
      BY <1>1, <2>1, <2>2
  <1>7. WaitingExact'
    BY <1>2, <1>6 DEF WaitingExact
  <1>8. ASSUME NEW fn
        PROVE  Found(new, Len(new) + 1, fn)
               = IF native THEN Len(scopestack) ELSE IF Entered(fn) THEN Len(fn.close) + 2 ELSE 1
    <2>1. Len(new) + 1 > 1 /\ (Len(new) + 1) - 1 = n + 1
      BY <1>1, <1>2
    <2> QED
      BY <1>3, <2>1 DEF Found
  <1> QED
    BY <1>7, <1>8

\* What waits below an address that is popped goes on waiting as it did.
LEMMA WaitingPopped ==
  ASSUME IInv, Scoped, Closing, Live, addrstack # <<>>, addrstack' = Front(addrstack),
         \/ UNCHANGED stackstack
         \/ /\ ~Last(addrstack).native /\ stackstack # <<>> /\ stackstack' = Front(stackstack)
            /\ Len(stackstack) = Last(addrstack).depth + 1
  PROVE  /\ WaitingExact'
         /\ Len(addrstack) \in DOMAIN addrstack /\ Last(addrstack) = addrstack[Len(addrstack)]
         /\ ViewExact(addrstack, Len(addrstack)) /\ AsideExact(addrstack, stackstack, Len(addrstack))
         /\ \A fn : Found(addrstack', Len(addrstack') + 1, fn) = Found(addrstack, Len(addrstack), fn)
  <1> DEFINE n == Len(addrstack)
             h == Len(stackstack)
             new == addrstack'
             old == addrstack
  <1>1. /\ n \in Nat /\ DOMAIN old = 1 .. n /\ \A j \in 1 .. n : old[j] \in AddressT
        /\ \A j \in 1 .. n : ViewExact(old, j) /\ AsideExact(old, stackstack, j)
        /\ ScopesTyped /\ h \in Nat /\ old \in Seq(AddressT)
    BY Counted, Facts
  <1>2. /\ n \in Nat \ {0} /\ Last(old) = old[n] /\ Len(new) = n - 1
        /\ DOMAIN new = 1 .. n - 1 /\ \A j \in 1 .. n - 1 : new[j] = old[j]
    BY <1>1, Popped
  <1>3. n \in DOMAIN old
    BY <1>1, <1>2
  <1>4. ASSUME NEW j \in 1 .. n, NEW fn
        PROVE  Found(new, j, fn) = Found(old, j, fn)
    <2>1. j \in Nat /\ (j > 1 => j - 1 \in 1 .. n - 1)
      BY <1>1
    <2>2. j > 1 => new[j - 1] = old[j - 1]
      BY <1>2, <2>1
    <2> QED
      BY <2>1, <2>2 DEF Found
  <1>5. ASSUME NEW j \in 1 .. n - 1
        PROVE  ViewExact(new, j) /\ AsideExact(new, stackstack', j)
    <2>1. j \in 1 .. n /\ j < n /\ new[j] = old[j] /\ j \in DOMAIN old
      BY <1>1, <1>2
    <2>2. ViewExact(old, j) /\ AsideExact(old, stackstack, j)
      BY <1>1, <2>1
    <2>3. Found(new, j, new[j].fn) = Found(old, j, old[j].fn)
      BY <1>4, <2>1
    <2>4. ASSUME ~old[j].native
          PROVE  stackstack'[old[j].depth + 1] = stackstack[old[j].depth + 1]
      <3>1. CASE UNCHANGED stackstack
        BY <3>1
      <3>2. CASE /\ ~Last(addrstack).native /\ stackstack # <<>> /\ stackstack' = Front(stackstack)
                 /\ Len(stackstack) = Last(addrstack).depth + 1
        <4> DEFINE d == old[j].depth
                   e == old[n].depth
        <4>1. d \in Nat /\ e \in Nat /\ h = e + 1
          BY <1>1, <1>2, <1>3, <2>1, <3>2 DEF AddressT
        <4>2. d < e
          BY <1>2, <1>3, <2>1, <2>4, <3>2 DEF Scoped, ViewAside
        <4>3. \A k \in 1 .. h - 1 : stackstack'[k] = stackstack[k]
          BY <1>1, <3>2, Popped DEF ScopesTyped
        <4>4. d + 1 \in 1 .. h - 1
          <5> HIDE DEF d, e, h
          <5> QED
            BY <4>1, <4>2
        <4> QED
          BY <4>3, <4>4
      <3> QED
        BY <3>1, <3>2
    <2> QED
      BY <2>1, <2>2, <2>3, <2>4 DEF ViewExact, AsideExact
  <1>6. WaitingExact'
    BY <1>2, <1>5 DEF WaitingExact
  <1>7. ASSUME NEW fn
        PROVE  Found(new, Len(new) + 1, fn) = Found(old, n, fn)
    <2>1. Len(new) + 1 = n /\ n \in 1 .. n
      BY <1>2
    <2> QED
      BY <1>4, <2>1
  <1> QED
    BY <1>1, <1>2, <1>3, <1>6, <1>7
-----------------------------------------------------------------------------
(* Code that closes its scopes: calls *)

\* The code of every function a program can call, and of every text and file,
\* closes the scopes it opens.
LEMMA CodeBalances ==
  ASSUME ScopesBalanced
  PROVE  /\ \A fn \in Closure : ~fn.f.user => \E open : Balances(open, fn.f.code)
         /\ \A p \in Piece : \E open : Balances(open, PieceCode[p])
         /\ \A f \in DOMAIN FileCode : \E open : Balances(open, FileCode[f])
  <1>1. \A code \in Codes : \E open : Balances(open, code)
    BY DEF ScopesBalanced
  <1>2. ASSUME NEW fn \in Closure, ~fn.f.user
        PROVE  fn.f.code \in Codes
    BY <1>2 DEF Closure, Codes
  <1>3. \A p \in Piece : PieceCode[p] \in Codes
    BY DEF Codes
  <1>4. \A f \in DOMAIN FileCode : FileCode[f] \in Codes
    BY DEF Codes
  <1> QED
    BY <1>1, <1>2, <1>3, <1>4

\* A callee begins with the global scope, the scopes it closed over and its own.
LEMMA ViewSize ==
  ASSUME ScopesTyped, Grounded(scopestack), NEW fn \in Closure
  PROVE  Len(View(fn)) = Len(fn.close) + 2 /\ Len(fn.close) \in Nat
  <1>1. fn.close \in Seq(ScopeId) /\ Len(fn.close) \in Nat
    BY ClosureRuns, LenProperties
  <1>2. nscopes + 1 \in ScopeId /\ scopestack[1] \in ScopeId
    BY DEF ScopesTyped, ScopeId, Global, Grounded
  <1>3. /\ <<scopestack[1]>> \in Seq(ScopeId) /\ Len(<<scopestack[1]>>) = 1
        /\ <<nscopes + 1>> \in Seq(ScopeId) /\ Len(<<nscopes + 1>>) = 1
    BY <1>2
  <1>4. /\ <<scopestack[1]>> \o fn.close \in Seq(ScopeId)
        /\ Len(<<scopestack[1]>> \o fn.close) = 1 + Len(fn.close)
    BY <1>1, <1>3, ConcatProperties
  <1>5. Len(View(fn)) = 1 + Len(fn.close) + 1
    BY <1>1, <1>3, <1>4, ConcatProperties DEF View
  <1> QED
    BY <1>1, <1>5

\* A script function that is called begins with nothing open (CallFunction).
LEMMA ScriptCallCloses ==
  ASSUME ScopesBalanced, IInv, Scoped, Closing, Live, NEW fn \in Closure, ~fn.f.user, NEW n, NEW d,
         NEW p \in Int, Position(curfunc, p + 1), CallFunction(fn, n, d, p),
         Exact(curfunc, p + 1, Len(scopestack) - Found(addrstack, Len(addrstack) + 1, curfunc))
  PROVE  Closing'
  <1>1. ScopesTyped /\ Grounded(scopestack)
    BY Facts
  <1>2. CASE Fail
    BY <1>2, StopCloses DEF Fail
  <1>3. CASE /\ stackstack' = SetAside /\ scopestack' = View(fn)
             /\ addrstack' = Append(addrstack, Address(p, FALSE))
             /\ curfunc' = fn /\ pc' = 0 /\ status' = "run"
    <2>1. /\ WaitingExact'
          /\ Found(addrstack', Len(addrstack') + 1, fn) = IF Entered(fn) THEN Len(fn.close) + 2 ELSE 1
      BY <1>3, WaitingPushed
    <2>2. Entered(fn)
      BY ClosureRuns
    <2>3. Len(View(fn)) = Len(fn.close) + 2 /\ Len(fn.close) \in Nat
      BY <1>1, ViewSize
    <2>4. Len(scopestack') - Found(addrstack', Len(addrstack') + 1, fn) = 0
      <3> DEFINE c == Len(fn.close)
                 f == Found(addrstack', Len(addrstack') + 1, fn)
                 l == Len(scopestack')
      <3>1. c \in Nat /\ l = c + 2 /\ f = c + 2
        BY <1>3, <2>1, <2>2, <2>3
      <3> HIDE DEF c, f, l
      <3>2. l - f = 0
        BY <3>1
      <3> QED
        BY <3>2 DEF l, f
    <2>5. PICK open : Balances(open, fn.f.code)
      BY CodeBalances
    <2>6. Exact(fn, 0, 0)
      BY <2>5, NothingOpen
    <2>7. CurrentExact'
      BY <1>3, <2>4, <2>6 DEF CurrentExact
    <2> QED
      BY <1>3, <2>1, <2>7 DEF Closing, OnlyGlobalInView
  <1> QED
    BY <1>1, <1>2, <1>3 DEF CallFunction, Grounded

\* Where a call comes back to, its caller has open what it has open now.
LEMMA CallGoesOn ==
  ASSUME IInv, Scoped, Closing, NEW op, op \in {"call", "dispatch"}, At(op)
  PROVE  /\ Live /\ status = "run" /\ pc \in Int /\ Position(curfunc, pc + 1)
         /\ Exact(curfunc, pc + 1, Len(scopestack) - Found(addrstack, Len(addrstack) + 1, curfunc))
  <1>1. PICK m : m = Len(scopestack) - Found(addrstack, Len(addrstack) + 1, curfunc)
    OBVIOUS
  <1>2. Live /\ m \in Nat /\ I.op = op /\ Exact(curfunc, pc + 1, m + Opens(I))
    BY <1>1, ExactlyOn
  <1>3. Opens(I) = 0 /\ m + 0 = m
    BY <1>2 DEF Opens
  <1>4. pc \in Int /\ Position(curfunc, pc + 1)
    BY Standing, NextPosition, TypeParts DEF IInv
  <1> QED
    BY <1>1, <1>2, <1>3, <1>4 DEF At

\* A builtin that is called sees the scopes of its caller (CallUserFunction).
LEMMA BuiltinCallCloses ==
  ASSUME IInv, Scoped, Closing, NEW op, op \in {"call", "dispatch"}, At(op),
         NEW fn \in Closure, fn.f.user, NEW name, NEW n, NEW d, CallUserFunction(fn, name, n, d)
  PROVE  Closing'
  <1>1. /\ Live /\ status = "run" /\ pc \in Int /\ Position(curfunc, pc + 1)
        /\ Exact(curfunc, pc + 1, Len(scopestack) - Found(addrstack, Len(addrstack) + 1, curfunc))
    BY CallGoesOn
  <1>2. CASE Fail
    BY <1>2, StopCloses DEF Fail
  <1>3. CASE /\ addrstack' = Append(addrstack, Address(pc, TRUE)) /\ curfunc' = fn /\ pc' = -1
             /\ status' = "go" /\ UNCHANGED scoping
    <2>1. UNCHANGED <<scopestack, stackstack>>
      BY <1>3 DEF scoping
    <2>2. WaitingExact' /\ Found(addrstack', Len(addrstack') + 1, fn) = Len(scopestack)
      BY <1>1, <1>3, <2>1, WaitingPushed
    <2>3. Len(scopestack) \in Nat
      BY Facts
    <2>4. Len(scopestack') - Found(addrstack', Len(addrstack') + 1, fn) = 0
      BY <2>1, <2>2, <2>3
    <2>5. CurrentExact'
      BY <1>3, <2>4, BuiltinExact DEF CurrentExact
    <2> QED
      BY <1>3, <2>2, <2>5 DEF Closing, OnlyGlobalInView
  <1>4. CASE pc' = pc + 1 /\ UNCHANGED <<scopestack, stackstack, addrstack, curfunc, status>>
    BY <1>1, <1>4, ViewCloses
  <1> QED
    BY <1>2, <1>3, <1>4 DEF CallUserFunction, scoping, Next1

\* So it is with whatever value a symbol is bound to (CallInstr, DispatchInstr).
LEMMA ObjectCallCloses ==
  ASSUME ScopesBalanced, IInv, Scoped, Closing, NEW op, op \in {"call", "dispatch"}, At(op),
         NEW v, NEW name, NEW n, NEW d, CallObject(v, name, n, d)
  PROVE  Closing'
  <1>1. CASE v \notin Closure
    BY <1>1, StopCloses DEF CallObject, Fail
  <1>2. CASE v \in Closure /\ v.f.user
    BY <1>2, BuiltinCallCloses DEF CallObject
  <1>3. CASE v \in Closure /\ ~v.f.user
    <2>1. CallFunction(v, n, d, pc)
      BY <1>3 DEF CallObject
    <2> QED
      BY <1>3, <2>1, CallGoesOn, ScriptCallCloses
  <1> QED
    BY <1>1, <1>2, <1>3

\* A call of a symbol (CallInstr).
LEMMA CallCloses ==
  ASSUME ScopesBalanced, IInv, Scoped, Closing, Call
  PROVE  Closing'
  <1>1. At("call")
    BY DEF Call
  <1>2. CASE I.s \in Builtins
    <2>1. CallUserFunction(FnV(UserFunction(I.s), <<>>), I.s, I.n, datastack)
      BY <1>2 DEF Call
    <2> QED
      BY <1>1, <1>2, <2>1, UserFunctionRuns, BuiltinCallCloses
  <1>3. CASE I.s \notin Builtins /\ Binding(I.s, 1) = {}
    BY <1>3, StopCloses DEF Call, Fail
  <1>4. CASE I.s \notin Builtins /\ Binding(I.s, 1) # {}
    <2>1. CallObject(Innermost(I.s, 1), I.s, I.n, datastack)
      BY <1>4 DEF Call
    <2> QED
      BY <1>1, <2>1, ObjectCallCloses
  <1> QED
    BY <1>2, <1>3, <1>4

\* A call of the top operand (DispatchInstr).
LEMMA DispatchCloses ==
  ASSUME ScopesBalanced, IInv, Scoped, Closing, Dispatch
  PROVE  Closing'
  <1>1. At("dispatch")
    BY DEF Dispatch
  <1>2. CASE Ready(1)
    <2>1. CallObject(Top, IF Top.k = "fn" THEN Top.f.name ELSE "", I.n, Below)
      BY <1>2 DEF Dispatch
    <2> QED
      BY <1>1, <2>1, ObjectCallCloses
  <1>3. CASE ~Ready(1)
    BY <1>3, StopCloses DEF Dispatch, Fail
  <1> QED
    BY <1>2, <1>3

-----------------------------------------------------------------------------
(* Code that closes its scopes: instructions *)

\* An instruction that goes on to one of the next positions or fails, in the
\* same view.
LEMMA SameViewCloses ==
  ASSUME IInv, Scoped, Closing, NEW op, At(op), op \notin {"addscope", "remscope"},
         UNCHANGED <<scopestack, stackstack, addrstack, curfunc>>,
         \/ Fail
         \/ /\ UNCHANGED status
            /\ \/ pc' = pc + 1 /\ op \notin {"jump", "goto", "ret", "reterr"}
               \/ pc' = pc + I.loc /\ op \in {"jump", "br"}
               \/ pc' = I.loc /\ op = "goto"
  PROVE  Closing'
  <1>1. CASE Fail
    BY <1>1, StopCloses DEF Fail
  <1>2. CASE /\ UNCHANGED status
             /\ \/ pc' = pc + 1 /\ op \notin {"jump", "goto", "ret", "reterr"}
                \/ pc' = pc + I.loc /\ op \in {"jump", "br"}
                \/ pc' = I.loc /\ op = "goto"
    <2>1. PICK m : m = Len(scopestack) - Found(addrstack, Len(addrstack) + 1, curfunc)
      OBVIOUS
    <2>2. /\ Live /\ m \in Nat /\ I.op = op
          /\ op \notin {"jump", "goto", "ret", "reterr"} => Exact(curfunc, pc + 1, m + Opens(I))
          /\ op \in {"jump", "br"} => Exact(curfunc, pc + I.loc, m + Opens(I))
          /\ op = "goto" => Exact(curfunc, I.loc, m + Opens(I))
      <3>1. Live
        BY DEF At, Live
      <3> QED
        BY <2>1, <3>1, ExactlyOn
    <2>3. Opens(I) = 0 /\ m + 0 = m
      BY <2>2 DEF Opens
    <2>4. Exact(curfunc', pc', Len(scopestack') - Found(addrstack, Len(addrstack) + 1, curfunc'))
      BY <1>2, <2>1, <2>2, <2>3
    <2>5. status' # "idle"
      BY <1>2 DEF At
    <2> QED
      BY <2>2, <2>4, <2>5, ViewCloses
  <1> QED
    BY <1>1, <1>2

\* The instructions that neither call nor return.
LEMMA SimpleCloses ==
  ASSUME IInv, Scoped, Closing,
         \/ Jump \/ Goto \/ Branch \/ PushValue \/ PopValue \/ Duplicate \/ Get \/ Put \/ PushClosure
         \/ Explode \/ Squash \/ Vectorize \/ ReturnError
  PROVE  Closing'
  <1>1. CASE Jump
    BY <1>1, SameViewCloses DEF Jump, JumpTo, Control, scoping
  <1>2. CASE Goto
    BY <1>2, SameViewCloses DEF Goto, JumpTo, Control, scoping
  <1>3. CASE Branch
    BY <1>3, SameViewCloses DEF Branch, JumpTo, Next1, Control, scoping
  <1>4. CASE PushValue
    BY <1>4, SameViewCloses DEF PushValue, Operands, Next1, Control, scoping
  <1>5. CASE PopValue
    BY <1>5, SameViewCloses DEF PopValue, Next1, Control, scoping
  <1>6. CASE Duplicate
    BY <1>6, SameViewCloses DEF Duplicate, Operands, Next1, Control, scoping
  <1>7. CASE Get
    BY <1>7, SameViewCloses DEF Get, Operands, Next1, Control, scoping
  <1>8. CASE Explode
    BY <1>8, SameViewCloses DEF Explode, Next1, Control, scoping
  <1>9. CASE Squash
    BY <1>9, SameViewCloses DEF Squash, Gather, Next1, Control, scoping
  <1>10. CASE Vectorize
    BY <1>10, SameViewCloses DEF Vectorize, Gather, Next1, Control, scoping
  <1>11. CASE ReturnError
    BY <1>11, SameViewCloses DEF ReturnError, Control, scoping
  <1>12. CASE Put
    BY <1>12, SameViewCloses DEF Put, Next1
  <1>13. CASE PushClosure
    BY <1>13, SameViewCloses DEF PushClosure, Next1
  <1> QED
    BY <1>1, <1>2, <1>3, <1>4, <1>5, <1>6, <1>7, <1>8, <1>9, <1>10, <1>11, <1>12, <1>13

\* A scope that is added or removed is one more or one less that is open
\* (AddScopeInstr, RemoveScopeInstr).
LEMMA ScopeCloses ==
  ASSUME IInv, Scoped, Closing, AddScope \/ RemoveScope
  PROVE  Closing'
  <1>1. Grounded(scopestack) /\ ScopesTyped
    BY Facts
  <1>2. PICK m : m = Len(scopestack) - Found(addrstack, Len(addrstack) + 1, curfunc)
    OBVIOUS
  <1>3. /\ pc' = pc + 1 /\ UNCHANGED <<stackstack, addrstack, curfunc, status>> /\ status = "run"
        /\ Live /\ m \in Nat /\ Exact(curfunc, pc + 1, m + Opens(I))
        /\ Len(scopestack') = Len(scopestack) + Opens(I) /\ Opens(I) \in {1, -1}
    <2>1. CASE AddScope
      <3>1. /\ At("addscope") /\ pc' = pc + 1 /\ scopestack' = Append(scopestack, nscopes + 1)
            /\ UNCHANGED <<stackstack, addrstack, curfunc, status>>
        BY <2>1 DEF AddScope, Next1
      <3>2. Live
        BY <3>1 DEF At, Live
      <3>3. m \in Nat /\ I.op = "addscope" /\ Exact(curfunc, pc + 1, m + Opens(I))
        BY <1>2, <3>1, <3>2, ExactlyOn
      <3>4. Opens(I) = 1
        BY <3>3 DEF Opens
      <3>5. nscopes + 1 \in ScopeId
        BY <1>1 DEF ScopesTyped, ScopeId
      <3>6. Len(scopestack') = Len(scopestack) + 1
        BY <1>1, <3>1, <3>5, PushPop DEF ScopesTyped
      <3> QED
        BY <3>1, <3>2, <3>3, <3>4, <3>6 DEF At
    <2>2. CASE RemoveScope
      <3>1. /\ At("remscope") /\ pc' = pc + 1 /\ scopestack' = Front(scopestack)
            /\ UNCHANGED <<stackstack, addrstack, curfunc, status>>
        BY <1>1, <2>2 DEF RemoveScope, Next1, Grounded
      <3>2. Live
        BY <3>1 DEF At, Live
      <3>3. m \in Nat /\ I.op = "remscope" /\ Exact(curfunc, pc + 1, m + Opens(I))
        BY <1>2, <3>1, <3>2, ExactlyOn
      <3>4. Opens(I) = -1
        BY <3>3 DEF Opens
      <3>5. Len(scopestack') = Len(scopestack) - 1 /\ Len(scopestack) \in Nat
        BY <1>1, <3>1, Popped DEF ScopesTyped, Grounded
      <3>6. Len(scopestack') = Len(scopestack) + Opens(I)
        BY <3>4, <3>5
      <3> QED
        BY <3>1, <3>2, <3>3, <3>4, <3>6 DEF At
    <2> QED
      BY <2>1, <2>2
  <1>4. Len(scopestack') - Found(addrstack, Len(addrstack) + 1, curfunc) = m + Opens(I)
    <2> DEFINE a == Len(scopestack)
               b == Found(addrstack, Len(addrstack) + 1, curfunc)
               c == Len(scopestack')
               e == Opens(I)
    <2>1. a \in Nat /\ b \in Nat /\ e \in {1, -1} /\ c = a + e /\ m = a - b
      BY <1>2, <1>3, Counted
    <2> HIDE DEF a, b, c, e
    <2>2. c - b = m + e
      BY <2>1
    <2> QED
      BY <2>2 DEF b, c, e
  <1>5. Exact(curfunc', pc', Len(scopestack') - Found(addrstack, Len(addrstack) + 1, curfunc'))
    BY <1>3, <1>4
  <1>6. status' # "idle"
    BY <1>3
  <1> QED
    BY <1>3, <1>5, <1>6, ViewCloses

\* A return brings back the view its caller had (ReturnFromFunction).
LEMMA ReturnCloses ==
  ASSUME IInv, Scoped, Closing, Return
  PROVE  Closing'
  <1> DEFINE n == Len(addrstack)
             h == Len(stackstack)
             a == addrstack[n]
  <1>1. At("ret") /\ status = "run" /\ Live
    BY DEF Return, At, Live
  <1>2. /\ Entered(curfunc) /\ addrstack # <<>> /\ stackstack # <<>>
        /\ Len(stackstack) = Last(addrstack).depth + 1
    BY <1>1, ReturnFound
  <1>3. /\ curfunc' = Last(addrstack).fn /\ pc' = Last(addrstack).pc /\ addrstack' = Front(addrstack)
        /\ scopestack' = Last(stackstack) /\ stackstack' = Front(stackstack) /\ status' = status
    BY <1>2 DEF Return
  <1>4. n \in DOMAIN addrstack /\ Last(addrstack) = a /\ ScopesTyped
    BY <1>2, TopAddress, Facts
  <1>5. ~a.native
    <2>1. Callee(n) = curfunc
      BY DEF Callee
    <2> QED
      BY <1>1, <1>2, <1>4, <2>1 DEF IInv, StacksMatch, FramesMatch
  <1>6. /\ WaitingExact' /\ ViewExact(addrstack, n) /\ AsideExact(addrstack, stackstack, n)
        /\ \A fn : Found(addrstack', Len(addrstack') + 1, fn) = Found(addrstack, n, fn)
    BY <1>1, <1>2, <1>3, <1>4, <1>5, WaitingPopped
  <1>7. Len(scopestack') = a.view
    <2>1. Last(stackstack) = stackstack[h]
      BY <1>2, <1>4, Popped DEF ScopesTyped
    <2>2. Len(stackstack[a.depth + 1]) = a.view
      BY <1>5, <1>6 DEF AsideExact
    <2> QED
      BY <1>2, <1>3, <1>4, <2>1, <2>2
  <1>8. CurrentExact'
    <2>1. Exact(a.fn, a.pc, a.view - Found(addrstack, n, a.fn))
      BY <1>6 DEF ViewExact
    <2> QED
      BY <1>3, <1>4, <1>6, <1>7, <2>1 DEF CurrentExact
  <1> QED
    BY <1>1, <1>3, <1>6, <1>8 DEF Closing, OnlyGlobalInView
-----------------------------------------------------------------------------
(* Code that closes its scopes: code that is put together *)

\* Code that is appended goes on with nothing open, as the code before it ends,
\* and that still has nothing open where it had nothing (LoadExpressions).
LEMMA BalancesOn ==
  ASSUME NEW c \in TopLevelCode, NEW d \in TopLevelCode,
         NEW here, Balances(here, c), NEW there, Balances(there, d)
  PROVE  \E open : /\ Balances(open, c \o d)
                   /\ \A p \in 0 .. Len(c) : here[p + 1] = 0 => open[p + 1] = 0
  <1> DEFINE m == Len(c)
             n == Len(d)
             both == c \o d
             open == [i \in 1 .. m + n + 1 |-> IF i <= m THEN here[i] ELSE there[i - m]]
  <1>1. /\ both \in Seq(Instr) /\ Len(both) = m + n /\ m \in Nat /\ n \in Nat
        /\ \A i \in 1 .. m + n : both[i] = IF i <= m THEN c[i] ELSE d[i - m]
        /\ \A i \in 1 .. n : d[i] \in Instr /\ d[i].op \notin {"ret", "goto"}
    <2>1. c \in Seq(Instr) /\ d \in Seq(Instr)
      BY DEF TopLevelCode
    <2> QED
      BY <2>1, ConcatProperties, LenProperties, ElementOfSeq DEF TopLevelCode
  <1>2. /\ here \in [1 .. m + 1 -> Nat \cup {-1}] /\ there \in [1 .. n + 1 -> Nat \cup {-1}]
        /\ here[1] = 0 /\ there[1] = 0 /\ here[m + 1] \in {0, -1} /\ there[n + 1] \in {0, -1}
    BY DEF Balances
  <1>3. ASSUME NEW p \in 0 .. m - 1, here[p + 1] # -1
        PROVE  /\ c[p + 1].op = "remscope" => here[p + 1] > 0
               /\ c[p + 1].op = "ret" => here[p + 1] = 0
               /\ \A q \in Behind(c, p) : q \in 0 .. m /\ here[q + 1] = here[p + 1] + Opens(c[p + 1])
    BY <1>3 DEF Balances
  <1>4. ASSUME NEW p \in 0 .. n - 1, there[p + 1] # -1
        PROVE  /\ d[p + 1].op = "remscope" => there[p + 1] > 0
               /\ d[p + 1].op = "ret" => there[p + 1] = 0
               /\ \A q \in Behind(d, p) : q \in 0 .. n /\ there[q + 1] = there[p + 1] + Opens(d[p + 1])
    BY <1>4 DEF Balances
  <1>5. open \in [1 .. m + n + 1 -> Nat \cup {-1}]
    <2> SUFFICES ASSUME NEW i \in 1 .. m + n + 1
                 PROVE  (IF i <= m THEN here[i] ELSE there[i - m]) \in Nat \cup {-1}
      OBVIOUS
    <2> HIDE DEF m, n
    <2>1. CASE i <= m
      <3>1. i \in 1 .. m + 1
        BY <1>1, <2>1
      <3> QED
        BY <1>2, <2>1, <3>1
    <2>2. CASE ~(i <= m)
      <3>1. i - m \in 1 .. n + 1
        BY <1>1, <2>2
      <3> QED
        BY <1>2, <2>2, <3>1
    <2> QED
      BY <2>1, <2>2
  <1>6. /\ \A p \in 0 .. m - 1 : open[p + 1] = here[p + 1] /\ here[p + 1] \in Nat \cup {-1}
        /\ open[m + 1] = 0
        /\ \A p \in 0 .. n : open[m + p + 1] = there[p + 1] /\ there[p + 1] \in Nat \cup {-1}
    <2> DEFINE f == open
    <2>1. \A i \in 1 .. m + n + 1 : f[i] = IF i <= m THEN here[i] ELSE there[i - m]
      OBVIOUS
    <2> HIDE DEF f, m, n
    <2>2. ASSUME NEW p \in 0 .. m - 1
          PROVE  f[p + 1] = here[p + 1] /\ here[p + 1] \in Nat \cup {-1}
      <3>1. p + 1 \in 1 .. m + n + 1 /\ p + 1 <= m /\ p + 1 \in 1 .. m + 1
        BY <1>1
      <3> QED
        BY <1>2, <2>1, <3>1
    <2>3. f[m + 1] = 0
      <3>1. m + 1 \in 1 .. m + n + 1 /\ ~(m + 1 <= m) /\ (m + 1) - m = 1
        BY <1>1
      <3> QED
        BY <1>2, <2>1, <3>1
    <2>4. ASSUME NEW p \in 0 .. n
          PROVE  f[m + p + 1] = there[p + 1] /\ there[p + 1] \in Nat \cup {-1}
      <3>1. m + p + 1 \in 1 .. m + n + 1 /\ ~(m + p + 1 <= m) /\ (m + p + 1) - m = p + 1 /\ p + 1 \in 1 .. n + 1
        BY <1>1
      <3> QED
        BY <1>2, <2>1, <3>1
    <2> QED
      BY <2>2, <2>3, <2>4 DEF f
  <1> HIDE DEF open
  <1>7. ASSUME NEW p \in 0 .. Len(both) - 1, open[p + 1] # -1
        PROVE  /\ both[p + 1].op = "remscope" => open[p + 1] > 0
               /\ both[p + 1].op = "ret" => open[p + 1] = 0
               /\ \A q \in Behind(both, p) :
                    q \in 0 .. Len(both) /\ open[q + 1] = open[p + 1] + Opens(both[p + 1])
    <2>1. CASE p < m
      <3>1. p \in 0 .. m - 1 /\ p + 1 \in 1 .. m + n /\ p + 1 <= m
        BY <1>1, <2>1
      <3>2. both[p + 1] = c[p + 1] /\ open[p + 1] = here[p + 1] /\ here[p + 1] \in Nat
        BY <1>1, <1>6, <1>7, <3>1
      <3>3. Behind(both, p) = Behind(c, p)
        BY <3>2 DEF Behind
      <3>4. /\ c[p + 1].op = "remscope" => here[p + 1] > 0
            /\ c[p + 1].op = "ret" => here[p + 1] = 0
            /\ \A q \in Behind(c, p) : q \in 0 .. m /\ here[q + 1] = here[p + 1] + Opens(c[p + 1])
        BY <1>3, <1>7, <3>1, <3>2
      <3>5. ASSUME NEW q \in Behind(c, p)
            PROVE  q \in 0 .. Len(both) /\ open[q + 1] = open[p + 1] + Opens(both[p + 1])
        <4>1. q \in 0 .. m /\ here[q + 1] = here[p + 1] + Opens(c[p + 1])
          BY <3>4
        <4>2. here[p + 1] + Opens(c[p + 1]) \in Nat
          <5>1. Opens(c[p + 1]) \in {0, 1, -1} /\ (Opens(c[p + 1]) = -1 => c[p + 1].op = "remscope")
            BY DEF Opens
          <5> QED
            BY <3>2, <3>4, <5>1
        <4>3. open[q + 1] = here[q + 1]
          <5>1. CASE q = m
            <6>1. here[m + 1] \in Nat
              BY <4>1, <4>2, <5>1
            <6> QED
              BY <1>2, <1>6, <5>1, <6>1
          <5>2. CASE q # m
            <6>1. q \in 0 .. m - 1
              BY <1>1, <4>1, <5>2
            <6> QED
              BY <1>6, <6>1
          <5> QED
            BY <5>1, <5>2
        <4>4. q \in 0 .. Len(both)
          <5> HIDE DEF m, n, both
          <5> QED
            BY <1>1, <4>1
        <4> QED
          BY <3>2, <4>1, <4>3, <4>4
      <3> QED
        BY <3>2, <3>3, <3>4, <3>5
    <2>2. CASE ~(p < m)
      <3> DEFINE r == p - m
      <3>1. r \in 0 .. n - 1 /\ p + 1 \in 1 .. m + n /\ ~(p + 1 <= m) /\ (p + 1) - m = r + 1 /\ p = m + r
        <4> HIDE DEF m, n, both
        <4> QED
          BY <1>1, <2>2
      <3>2. both[p + 1] = d[r + 1]
        BY <1>1, <3>1
      <3>3. open[p + 1] = there[r + 1]
        <4>1. r \in 0 .. n /\ p + 1 = m + r + 1
          <5> HIDE DEF m, n, r
          <5> QED
            BY <1>1, <3>1
        <4>2. open[m + r + 1] = there[r + 1]
          BY <1>6, <4>1
        <4> QED
          BY <4>1, <4>2
      <3>4. d[r + 1] \in Instr /\ d[r + 1].op \notin {"ret", "goto"}
        BY <1>1, <3>1
      <3>5. d[r + 1].op \in {"jump", "br"} => d[r + 1].loc \in Int
        BY <3>4, CodeAssumption
      <3>6. ASSUME NEW q \in Behind(both, p)
            PROVE  q - m \in Behind(d, r) /\ q = m + (q - m)
        <4>1. /\ d[r + 1].op = "jump" => q = p + d[r + 1].loc
              /\ d[r + 1].op = "br" => q = p + 1 \/ q = p + d[r + 1].loc
              /\ d[r + 1].op \notin {"jump", "br"} => q = p + 1 /\ d[r + 1].op # "reterr"
          BY <3>2, <3>4 DEF Behind
        <4> DEFINE loc == d[r + 1].loc
        <4>2. /\ (p + 1) - m = r + 1 /\ p + 1 = m + (r + 1)
              /\ loc \in Int => (p + loc) - m = r + loc /\ p + loc = m + (r + loc)
          <5>1. m \in Nat /\ r \in Int /\ p = m + r
            BY <1>1, <3>1
          <5> HIDE DEF m, r, loc
          <5> QED
            BY <5>1
        <4> QED
          BY <3>4, <3>5, <4>1, <4>2 DEF Behind
      <3>7. /\ d[r + 1].op = "remscope" => there[r + 1] > 0
            /\ \A q \in Behind(d, r) : q \in 0 .. n /\ there[q + 1] = there[r + 1] + Opens(d[r + 1])
        BY <1>4, <1>7, <3>1, <3>3
      <3>8. ASSUME NEW q \in Behind(both, p)
            PROVE  q \in 0 .. Len(both) /\ open[q + 1] = open[p + 1] + Opens(both[p + 1])
        <4>1. PICK s : s = q - m /\ s \in Behind(d, r) /\ q = m + s
          BY <3>6
        <4>2. s \in 0 .. n /\ there[s + 1] = there[r + 1] + Opens(d[r + 1])
          BY <3>7, <4>1
        <4>3. open[m + s + 1] = there[s + 1]
          BY <1>6, <4>2
        <4>4. q \in 0 .. Len(both)
          <5> HIDE DEF m, n, both
          <5> QED
            BY <1>1, <4>1, <4>2
        <4> QED
          BY <3>2, <3>3, <4>1, <4>2, <4>3, <4>4
      <3> QED
        BY <3>2, <3>3, <3>4, <3>7, <3>8
    <2> QED
      BY <2>1, <2>2
  <1>8. open[1] = 0
    <2>1. CASE m = 0
      BY <1>6, <2>1
    <2>2. CASE m # 0
      <3>1. 0 \in 0 .. m - 1
        BY <1>1, <2>2
      <3> QED
        BY <1>2, <1>6, <3>1
    <2> QED
      BY <2>1, <2>2
  <1>9. open[Len(both) + 1] \in {0, -1}
    <2>1. n \in 0 .. n
      BY <1>1
    <2> QED
      BY <1>1, <1>2, <1>6, <2>1
  <1>10. Balances(open, both)
    <2> HIDE DEF both
    <2> QED
      BY <1>1, <1>5, <1>7, <1>8, <1>9 DEF Balances
  <1>11. \A p \in 0 .. m : here[p + 1] = 0 => open[p + 1] = 0
    <2> SUFFICES ASSUME NEW p \in 0 .. m, here[p + 1] = 0 PROVE open[p + 1] = 0
      OBVIOUS
    <2>1. CASE p = m
      BY <1>6, <2>1
    <2>2. CASE p # m
      <3>1. p \in 0 .. m - 1
        BY <1>1, <2>2
      <3> QED
        BY <1>6, <3>1
    <2> QED
      BY <2>1, <2>2
  <1> QED
    BY <1>10, <1>11

\* Empty code opens nothing.
LEMMA EmptyBalances == \E open : Balances(open, <<>>)
  <1> DEFINE open == [i \in 1 .. Len(<<>>) + 1 |-> 0]
  <1>1. Balances(open, <<>>)
    BY DEF Balances
  <1> QED
    BY <1>1

\* The pop that joins texts opens no scope.
LEMMA GlueBalances == \E open : Balances(open, Glue)
  <1>1. CASE Glue = <<>>
    BY <1>1, EmptyBalances
  <1>2. CASE Glue = <<PopInstr>>
    <2> DEFINE code == <<PopInstr>>
               open == [i \in 1 .. Len(code) + 1 |-> 0]
    <2>1. Len(code) = 1 /\ code[1] = PopInstr /\ PopInstr.op = "pop"
      BY DEF PopInstr
    <2>2. ASSUME NEW p \in 0 .. Len(code) - 1
          PROVE  p = 0 /\ p + 1 = 1 /\ Behind(code, p) = {1} /\ Opens(code[p + 1]) = 0 /\ code[p + 1].op = "pop"
      <3>1. p = 0 /\ p + 1 = 1
        BY <2>1
      <3> QED
        BY <2>1, <3>1 DEF Behind, Opens
    <2>3. /\ open \in [1 .. Len(code) + 1 -> Nat \cup {-1}]
          /\ open[1] = 0 /\ open[2] = 0 /\ open[1 + 1] = 0 /\ open[Len(code) + 1] = 0
      BY <2>1
    <2> HIDE DEF open, code
    <2>4. Balances(open, code)
      BY <2>1, <2>2, <2>3 DEF Balances
    <2> QED
      BY <1>2, <2>4 DEF code
  <1> QED
    BY <1>1, <1>2 DEF Glue

\* A text or a file closes its scopes with the pop before it, too.
LEMMA GluedBalances ==
  ASSUME NEW d \in TopLevelCode, NEW there, Balances(there, d)
  PROVE  \E open : Balances(open, Glue \o d)
  <1>1. PICK here : Balances(here, Glue)
    BY GlueBalances
  <1> QED
    BY <1>1, GlueIsTopLevel, BalancesOn

-----------------------------------------------------------------------------
(* Code that closes its scopes: Go code *)

\* A builtin that runs sees the scopes of its caller and no other.
LEMMA InBuiltinExact ==
  ASSUME IInv, Scoped, Closing, status = "go"
  PROVE  /\ Live /\ addrstack # <<>> /\ Last(addrstack).native /\ curfunc.f.user /\ pc = -1
         /\ Exact(curfunc, pc, Len(scopestack) - Found(addrstack, Len(addrstack) + 1, curfunc))
         /\ Len(scopestack) = Last(addrstack).view /\ Len(scopestack) \in Nat
         /\ \A fn : Found(addrstack, Len(addrstack) + 1, fn) = Len(scopestack)
  <1> DEFINE n == Len(addrstack)
             f == Found(addrstack, n + 1, curfunc)
             l == Len(scopestack)
  <1>1. Live
    BY DEF Live
  <1>2. /\ n \in Nat \ {0} /\ Last(addrstack) = addrstack[n] /\ Last(addrstack).native
        /\ curfunc.f.user /\ addrstack # <<>> /\ pc = -1
    BY InBuiltin, TopAddress
  <1>3. Exact(curfunc, pc, l - f) /\ f \in Nat /\ l \in Nat
    BY <1>1, Counted DEF CurrentExact
  <1>4. l - f = 0
    BY <1>2, <1>3 DEF Exact
  <1>5. l = f
    <2> HIDE DEF l, f
    <2> QED
      BY <1>3, <1>4
  <1>6. \A fn : Found(addrstack, n + 1, fn) = addrstack[n].view
    <2>1. n + 1 > 1 /\ (n + 1) - 1 = n
      BY <1>2
    <2> QED
      BY <1>2, <2>1 DEF Found
  <1> QED
    BY <1>1, <1>2, <1>3, <1>5, <1>6

\* Every application of apply, map, foldl and foldr (Apply).
LEMMA ApplyCloses ==
  ASSUME ScopesBalanced, IInv, Scoped, Closing, ApplyStep
  PROVE  Closing'
  <1> DEFINE fn   == Frame.f
             args == Head(Frame.todo) \o (IF Frame.kind \in Folds THEN <<Frame.acc>> ELSE <<>>)
  <1>1. status = "go"
    BY DEF ApplyStep
  <1>2. /\ Live /\ curfunc.f.user /\ pc = -1
        /\ Exact(curfunc, pc, Len(scopestack) - Found(addrstack, Len(addrstack) + 1, curfunc))
    BY <1>1, InBuiltinExact
  <1>3. CASE Fail
    BY <1>3, StopCloses DEF Fail
  <1>4. CASE fn \in Closure /\ ~fn.f.user /\ CallFunction(fn, Len(args), datastack \o args, -2)
    <2>1. Position(curfunc, -2 + 1) /\ -2 \in Int /\ -2 + 1 = pc
      BY <1>2 DEF Position
    <2>2. Exact(curfunc, -2 + 1, Len(scopestack) - Found(addrstack, Len(addrstack) + 1, curfunc))
      BY <1>2, <2>1
    <2> QED
      BY <1>2, <1>4, <2>1, <2>2, ScriptCallCloses
  <1>5. CASE UNCHANGED <<status, scopestack, stackstack, addrstack, curfunc, pc>>
    BY <1>1, <1>2, <1>5, ViewCloses
  <1> QED
    BY <1>3, <1>4, <1>5 DEF ApplyStep, scoping

\* A file begins with the scopes of the builtin that sources it
\* (SourceFileFunction, SourceExpressions).
LEMMA SourceCloses ==
  ASSUME ScopesBalanced, IInv, Scoped, Closing, SourceStep
  PROVE  Closing'
  <1> DEFINE item == Head(Frame.todo)[1]
             code == Glue \o FileCode[item.t]
  <1>1. status = "go" /\ UNCHANGED <<scopestack, stackstack, addrstack>>
    BY DEF SourceStep, scoping
  <1>2. /\ Live /\ Len(scopestack) \in Nat
        /\ Exact(curfunc, pc, Len(scopestack) - Found(addrstack, Len(addrstack) + 1, curfunc))
        /\ \A fn : Found(addrstack, Len(addrstack) + 1, fn) = Len(scopestack)
    BY <1>1, InBuiltinExact
  <1>3. CASE Fail
    BY <1>3, StopCloses DEF Fail
  <1>4. CASE item.t \in DOMAIN FileCode /\ curfunc' = Script("__source", code) /\ pc' = 0 /\ status' = "run"
    <2>1. FileCode[item.t] \in TopLevelCode
      BY <1>4, CodeAssumption
    <2>2. PICK there : Balances(there, FileCode[item.t])
      BY <1>4, CodeBalances
    <2>3. PICK open : Balances(open, code)
      BY <2>1, <2>2, GluedBalances
    <2> HIDE DEF code
    <2>4. curfunc'.f.code = code /\ ~curfunc'.f.user
      BY <1>4 DEF Script, FnV, MakeFunction
    <2>5. Exact(curfunc', 0, 0)
      BY <2>3, <2>4, NothingOpen
    <2>6. Len(scopestack') - Found(addrstack, Len(addrstack) + 1, curfunc') = 0
      BY <1>1, <1>2
    <2> QED
      BY <1>1, <1>2, <1>4, <2>5, <2>6, ViewCloses
  <1>5. CASE UNCHANGED <<curfunc, pc, status>>
    BY <1>1, <1>2, <1>5, ViewCloses
  <1> QED
    BY <1>3, <1>4, <1>5 DEF SourceStep

\* The return of such a builtin leaves the view it had (CallUserFunction, Apply).
LEMMA BuiltinReturnCloses ==
  ASSUME IInv, Scoped, Closing, BuiltinReturn
  PROVE  Closing'
  <1> DEFINE n == Len(addrstack)
             a == addrstack[n]
  <1>1. status = "go" /\ UNCHANGED <<scopestack, stackstack>>
    BY DEF BuiltinReturn, scoping
  <1>2. /\ Live /\ addrstack # <<>> /\ Len(scopestack) = Last(addrstack).view
        /\ Exact(curfunc, pc, Len(scopestack) - Found(addrstack, Len(addrstack) + 1, curfunc))
    BY <1>1, InBuiltinExact
  <1>3. CASE Frame.own
    <2>1. /\ curfunc' = Last(addrstack).fn /\ pc' = Last(addrstack).pc /\ addrstack' = Front(addrstack)
          /\ status' = "run"
      BY <1>2, <1>3 DEF BuiltinReturn
    <2>2. /\ WaitingExact' /\ Last(addrstack) = a /\ ViewExact(addrstack, n)
          /\ \A fn : Found(addrstack', Len(addrstack') + 1, fn) = Found(addrstack, n, fn)
      BY <1>1, <1>2, <2>1, WaitingPopped
    <2>3. CurrentExact'
      <3>1. Exact(a.fn, a.pc, a.view - Found(addrstack, n, a.fn))
        BY <2>2 DEF ViewExact
      <3> QED
        BY <1>1, <1>2, <2>1, <2>2, <3>1 DEF CurrentExact
    <2> QED
      BY <2>1, <2>2, <2>3 DEF Closing, OnlyGlobalInView
  <1>4. CASE ~Frame.own
    <2>1. UNCHANGED <<curfunc, pc, addrstack, status>>
      BY <1>4 DEF BuiltinReturn
    <2> QED
      BY <1>1, <1>2, <2>1, ViewCloses
  <1> QED
    BY <1>3, <1>4

\* Where a run ends, nothing is open (Run).
LEMMA DoneCloses ==
  ASSUME IInv, Scoped, Closing, status = "run", IsDone
  PROVE  /\ Live /\ ~Entered(curfunc)
         /\ Exact(curfunc, pc, Len(scopestack) - Found(addrstack, Len(addrstack) + 1, curfunc))
         /\ Len(scopestack) = Found(addrstack, Len(addrstack) + 1, curfunc)
         /\ Len(scopestack) \in Nat
  <1> DEFINE f == Found(addrstack, Len(addrstack) + 1, curfunc)
             l == Len(scopestack)
  <1>1. Live /\ ~Entered(curfunc)
    BY RunDone DEF Live
  <1>2. Exact(curfunc, pc, l - f) /\ f \in Nat /\ l \in Nat
    BY <1>1, Counted DEF CurrentExact
  <1>3. l - f = 0
    <2>1. CASE curfunc.f.user
      BY <1>2, <2>1 DEF Exact
    <2>2. CASE ~curfunc.f.user
      <3>1. PICK open : Balances(open, curfunc.f.code) /\ open[pc + 1] = l - f
        BY <1>2, <2>2 DEF Exact
      <3>2. pc = Len(curfunc.f.code)
        <4>1. curfunc \in Callable /\ Position(curfunc, pc)
          BY <1>1, TypeParts DEF IInv, Runnable
        <4>2. Len(curfunc.f.code) \in Nat
          BY <4>1, CallableFacts
        <4> QED
          BY <1>1, <2>2, <4>1, <4>2 DEF IsDone, ReachedEnd, CodeSize, Position
      <3>3. l - f \in {0, -1} /\ l - f \in Nat
        BY <1>2, <3>1, <3>2 DEF Balances, Exact
      <3> QED
        BY <3>3
    <2> QED
      BY <2>1, <2>2
  <1>4. l = f
    <2> HIDE DEF l, f
    <2> QED
      BY <1>2, <1>3
  <1> QED
    BY <1>1, <1>2, <1>4

\* With one scope in view that is the global one.
LEMMA OneScope ==
  ASSUME ScopesTyped, Grounded(scopestack), Len(scopestack) = 1
  PROVE  scopestack = <<Global>>
  <1>1. scopestack \in Seq(ScopeId) /\ scopestack[1] = Global
    BY DEF ScopesTyped, Grounded
  <1> QED
    BY <1>1

\* The end of a run (Run, Finish).
LEMMA FinishCloses ==
  ASSUME IInv, Scoped, Closing, Finish
  PROVE  Closing'
  <1> DEFINE n == Len(addrstack)
  <1>1. status = "run" /\ IsDone /\ UNCHANGED <<scopestack, stackstack, addrstack>>
    BY DEF Finish, scoping
  <1>2. /\ Live /\ ~Entered(curfunc) /\ Len(scopestack) = Found(addrstack, n + 1, curfunc)
        /\ Len(scopestack) \in Nat
        /\ Exact(curfunc, pc, Len(scopestack) - Found(addrstack, n + 1, curfunc))
    BY <1>1, DoneCloses
  <1>3. CASE status' = "exited"
    BY <1>3, StopCloses
  <1>4. CASE gostack = <<>> /\ status' = "idle" /\ UNCHANGED <<curfunc, pc>>
    <2>1. addrstack = <<>>
      BY <1>1, <1>4, RunDone
    <2>2. n + 1 = 1
      BY <2>1
    <2>3. Found(addrstack, n + 1, curfunc) = 1
      BY <1>2, <2>2 DEF Found
    <2>4. scopestack = <<Global>>
      BY <1>2, <2>3, Facts, OneScope
    <2> QED
      BY <1>1, <1>2, <1>4, <2>4, ViewCloses
  <1>5. CASE gostack # <<>> /\ status' = "go" /\ curfunc' = FnV(UserFunction("source-file"), <<>>)
    <2>1. curfunc'.f.user
      BY <1>5, UserFunctionRuns
    <2>2. Frame.entry = n /\ addrstack # <<>>
      BY <1>1, <1>5, RunDone
    <2>3. addrstack[n].native
      <3>1. Len(gostack) \in DOMAIN gostack /\ Frame = gostack[Len(gostack)]
        BY <1>5, TypeParts, UntypedPop DEF IInv, FramesTyped, Frame
      <3> QED
        BY <1>2, <2>2, <3>1 DEF IInv, StacksMatch, ActivationsMatch
    <2>4. \A fn : Found(addrstack, n + 1, fn) = addrstack[n].view
      <3>1. n + 1 > 1 /\ (n + 1) - 1 = n
        BY <2>2, TopAddress
      <3> QED
        BY <2>3, <3>1 DEF Found
    <2>5. Len(scopestack') - Found(addrstack, n + 1, curfunc') = 0
      BY <1>1, <1>2, <2>4
    <2>6. Exact(curfunc', pc', Len(scopestack') - Found(addrstack, n + 1, curfunc'))
      BY <2>1, <2>5, BuiltinExact
    <2> QED
      BY <1>1, <1>2, <1>5, <2>6, ViewCloses
  <1>6. CASE status' = "go" /\ UNCHANGED <<curfunc, pc>>
    BY <1>1, <1>2, <1>6, ViewCloses
  <1> QED
    BY <1>3, <1>4, <1>5, <1>6 DEF Finish

-----------------------------------------------------------------------------
(* Code that closes its scopes: the host *)

\* With no address, the invariant speaks of main alone.
LEMMA AtHostCloses ==
  ASSUME addrstack' = <<>>, status' = "idle", scopestack' = <<Global>>, ~Entered(curfunc'),
         Exact(curfunc', pc', 0)
  PROVE  Closing'
  <1>1. DOMAIN addrstack' = {} /\ Len(addrstack') + 1 = 1
    BY EmptySeq
  <1>2. Found(addrstack', Len(addrstack') + 1, curfunc') = 1 /\ Len(scopestack') = 1
    BY <1>1 DEF Found
  <1>3. CurrentExact'
    BY <1>2 DEF CurrentExact
  <1>4. WaitingExact'
    BY <1>1 DEF WaitingExact
  <1> QED
    BY <1>3, <1>4 DEF Closing, OnlyGlobalInView

\* A host that is idle stands in main where nothing is open.
LEMMA HostExact ==
  ASSUME IInv, Scoped, Closing, status = "idle"
  PROVE  /\ Live /\ addrstack = <<>> /\ curfunc = mainfunc /\ scopestack = <<Global>>
         /\ ~Entered(curfunc) /\ Exact(curfunc, pc, 0)
         /\ Exact(curfunc, pc, Len(scopestack) - Found(addrstack, Len(addrstack) + 1, curfunc))
  <1>1. Live /\ addrstack = <<>> /\ curfunc = mainfunc
    BY HostFits
  <1>2. scopestack = <<Global>> /\ CurrentExact
    BY <1>1 DEF Closing, OnlyGlobalInView
  <1>3. ~Entered(curfunc)
    <2>1. MainTyped
      BY TypeParts DEF IInv
    <2> QED
      BY <1>1, <2>1 DEF MainTyped, Entered, TopLevel
  <1>4. Len(addrstack) + 1 = 1 /\ Len(scopestack) = 1
    BY <1>1, <1>2
  <1>5. Found(addrstack, Len(addrstack) + 1, curfunc) = 1
    BY <1>3, <1>4 DEF Found
  <1> QED
    BY <1>1, <1>2, <1>3, <1>4, <1>5 DEF CurrentExact

\* Loading a text: main had nothing open where it stands, and has nothing open
\* there now (LoadExpressions).
LEMMA LoadCloses ==
  ASSUME ScopesBalanced, IInv, Scoped, Closing, NEW p \in Piece, Load(p)
  PROVE  Closing'
  <1> DEFINE main == mainfunc.f.code
             code == main \o Glue \o PieceCode[p]
  <1>1. /\ status = "idle" /\ mainfunc' = Script("__main", code) /\ curfunc' = mainfunc'
        /\ UNCHANGED <<scopestack, stackstack, addrstack, pc, status>>
    BY DEF Load, scoping
  <1>2. /\ addrstack = <<>> /\ scopestack = <<Global>> /\ Exact(mainfunc, pc, 0)
        /\ main \in TopLevelCode /\ ~mainfunc.f.user /\ pc \in 0 .. Len(main)
    BY <1>1, HostFits, HostExact
  <1>3. PICK here : Balances(here, main) /\ here[pc + 1] = 0
    BY <1>2 DEF Exact
  <1>4. PICK glue : Balances(glue, Glue)
    BY GlueBalances
  <1>5. PICK there : Balances(there, PieceCode[p])
    BY CodeBalances
  <1>6. Glue \in TopLevelCode /\ PieceCode[p] \in TopLevelCode
    BY GlueIsTopLevel, CodeAssumption
  <1>7. /\ main \o Glue \in TopLevelCode /\ Len(main) \in Nat /\ Len(Glue) \in Nat
        /\ Len(main \o Glue) = Len(main) + Len(Glue)
    BY <1>2, <1>6, TopLevelConcat
  <1>8. PICK mid : Balances(mid, main \o Glue) /\ \A q \in 0 .. Len(main) : here[q + 1] = 0 => mid[q + 1] = 0
    BY <1>2, <1>3, <1>4, <1>6, BalancesOn
  <1>9. PICK open : /\ Balances(open, code)
                    /\ \A q \in 0 .. Len(main \o Glue) : mid[q + 1] = 0 => open[q + 1] = 0
    <2>1. PICK before : before = main \o Glue
      OBVIOUS
    <2>2. before \in TopLevelCode /\ Balances(mid, before)
      BY <1>7, <1>8, <2>1
    <2>3. \E open : /\ Balances(open, before \o PieceCode[p])
                    /\ \A q \in 0 .. Len(before) : mid[q + 1] = 0 => open[q + 1] = 0
      BY ONLY <1>5, <1>6, <2>2, BalancesOn
    <2> QED
      BY <2>1, <2>3
  <1>10. open[pc + 1] = 0
    <2>1. pc \in 0 .. Len(main \o Glue)
      <3> DEFINE a == Len(main)
                 b == Len(main \o Glue)
                 g == Len(Glue)
      <3>1. a \in Nat /\ g \in Nat /\ b = a + g /\ pc \in 0 .. a
        BY <1>2, <1>7
      <3> HIDE DEF a, b, g
      <3>2. pc \in 0 .. b
        BY <3>1
      <3> QED
        BY <3>2 DEF b
    <2> QED
      BY <1>2, <1>3, <1>8, <1>9, <2>1
  <1> HIDE DEF code
  <1>11. curfunc'.f.code = code /\ ~Entered(curfunc') /\ ~curfunc'.f.user
    BY <1>1 DEF Script, FnV, MakeFunction, Entered, TopLevel
  <1>12. Exact(curfunc', pc', 0)
    <2>1. \E o : Balances(o, curfunc'.f.code) /\ o[pc' + 1] = 0
      BY <1>1, <1>9, <1>10, <1>11
    <2> QED
      BY <1>11, <2>1 DEF Exact
  <1> QED
    BY <1>1, <1>2, <1>11, <1>12, AtHostCloses

\* Recovering from an error leaves the global scope in view and an empty main
\* (GetStackTrace, Clear).
LEMMA RecoverCloses ==
  ASSUME IInv, Scoped, Recover
  PROVE  Closing'
  <1>1. /\ addrstack' = <<>> /\ status' = "idle" /\ pc' = 0 /\ curfunc' = Script("__main", <<>>)
        /\ scopestack' = <<IF scopestack = <<>> THEN Global ELSE scopestack[1]>>
    BY DEF Recover
  <1>2. Grounded(scopestack)
    BY Facts
  <1>3. scopestack' = <<Global>>
    BY <1>1, <1>2 DEF Grounded
  <1>4. curfunc'.f.code = <<>> /\ ~curfunc'.f.user /\ ~Entered(curfunc')
    BY <1>1 DEF Script, FnV, MakeFunction, Entered, TopLevel
  <1>5. PICK open : Balances(open, <<>>)
    BY EmptyBalances
  <1>6. Exact(curfunc', 0, 0)
    BY <1>4, <1>5, NothingOpen
  <1> QED
    BY <1>1, <1>3, <1>4, <1>6, AtHostCloses

\* What the host does.
LEMMA HostCloses ==
  ASSUME ScopesBalanced, IInv, Scoped, Closing, Run \/ Recover \/ LoadFails \/ \E p \in Piece : Load(p)
  PROVE  Closing'
  <1>1. CASE Run
    <2>1. /\ status = "idle" /\ status' = "run"
          /\ UNCHANGED <<scopestack, stackstack, addrstack, curfunc, pc>>
      BY <1>1 DEF Run, scoping
    <2> QED
      BY <2>1, HostExact, ViewCloses
  <1>2. CASE Recover
    BY <1>2, RecoverCloses
  <1>3. CASE LoadFails
    BY <1>3, StopCloses DEF LoadFails, Fail
  <1>4. CASE \E p \in Piece : Load(p)
    BY <1>4, LoadCloses
  <1> QED
    BY <1>1, <1>2, <1>3, <1>4

\* A step that changes nothing.
LEMMA StutterCloses ==
  ASSUME Closing, UNCHANGED vars
  PROVE  Closing'
  BY DEF vars, Closing, Live, CurrentExact, WaitingExact, OnlyGlobalInView

\* A new environment has the global scope in view and nothing to run (NewGlisp).
LEMMA InitCloses ==
  ASSUME Init
  PROVE  Closing
  <1>1. /\ addrstack = <<>> /\ scopestack = <<Global>> /\ pc = 0 /\ curfunc = Script("__main", <<>>)
    BY DEF Init
  <1>2. curfunc.f.code = <<>> /\ ~curfunc.f.user /\ ~Entered(curfunc)
    BY <1>1 DEF Script, FnV, MakeFunction, Entered, TopLevel
  <1>3. PICK open : Balances(open, <<>>)
    BY EmptyBalances
  <1>4. Exact(curfunc, 0, 0)
    BY <1>2, <1>3, NothingOpen
  <1>5. DOMAIN addrstack = {} /\ Len(addrstack) + 1 = 1 /\ Len(scopestack) = 1
    BY <1>1
  <1>6. Found(addrstack, Len(addrstack) + 1, curfunc) = 1
    BY <1>2, <1>5 DEF Found
  <1>7. CurrentExact
    BY <1>1, <1>4, <1>5, <1>6 DEF CurrentExact
  <1>8. WaitingExact
    BY <1>5 DEF WaitingExact
  <1> QED
    BY <1>1, <1>7, <1>8 DEF Closing, OnlyGlobalInView

\* Every step of the interpreter and its host.
LEMMA NextCloses ==
  ASSUME ScopesBalanced, IInv, Scoped, Closing, [Next]_vars
  PROVE  Closing'
  <1>1. CASE Instruction
    BY <1>1, CallCloses, DispatchCloses, ReturnCloses, SimpleCloses, ScopeCloses DEF Instruction
  <1>2. CASE GoCode
    BY <1>2, SourceCloses, ApplyCloses, BuiltinReturnCloses, FinishCloses DEF GoCode
  <1>3. CASE Run \/ Recover \/ LoadFails \/ \E p \in Piece : Load(p)
    BY <1>3, HostCloses
  <1>4. CASE UNCHANGED vars
    BY <1>4, StutterCloses
  <1> QED
    BY <1>1, <1>2, <1>3, <1>4 DEF Next, Machine

-----------------------------------------------------------------------------
(* Functions close their scopes *)

\* What the invariants say of a function that returns or begins again.
LEMMA ClosedAtReturn ==
  ASSUME IInv, Scoped, Closing
  PROVE  ScopesClosed
  <1> SUFFICES ASSUME NEW op \in {"ret", "goto"}, At(op), op = "goto" => I.loc = 0
               PROVE  Len(scopestack) = Len(curfunc.close) + 2
    BY DEF ScopesClosed
  <1> DEFINE n == Len(addrstack)
             f == Found(addrstack, n + 1, curfunc)
             l == Len(scopestack)
  <1>1. Live /\ f \in Nat /\ l \in Nat /\ n \in Nat /\ DOMAIN addrstack = 1 .. n
    BY Counted DEF At, Live
  <1>2. PICK m : m = l - f
    OBVIOUS
  <1>3. m = 0
    BY <1>1, <1>2, ExactlyOn
  <1>4. Entered(curfunc)
    <2>1. /\ curfunc.f.code \in Seq(Instr) /\ Len(curfunc.f.code) \in Nat
          /\ pc \in 0 .. Len(curfunc.f.code) - 1 /\ I.op = op
          /\ ~Entered(curfunc) => curfunc.f.code \in TopLevelCode
      BY Standing DEF IInv
    <2>2. pc + 1 \in 1 .. Len(curfunc.f.code)
      BY <2>1
    <2> QED
      BY <2>1, <2>2 DEF TopLevelCode, I
  <1>5. n > 0 => ~addrstack[n].native
    <2>1. Callee(n) = curfunc
      BY DEF Callee
    <2> QED
      BY <1>1, <1>4, <2>1 DEF IInv, StacksMatch, FramesMatch
  <1>6. f = Len(curfunc.close) + 2
    <2>1. n + 1 > 1 => n > 0
      BY <1>1
    <2>2. (n + 1) - 1 = n
      BY <1>1
    <2> QED
      BY <1>4, <1>5, <2>1, <2>2 DEF Found
  <1>7. l = f
    <2> HIDE DEF l, f
    <2> QED
      BY <1>1, <1>2, <1>3
  <1> QED
    BY <1>6, <1>7

\* The inductive invariant of the theorems below.
LEMMA ClosingInvariance ==
  ASSUME ScopesBalanced
  PROVE  Spec => [](IInv /\ Scoped /\ Closing)
  <1>1. Init => IInv /\ Scoped /\ Closing
    BY InitInvariant, InitScoped, InitCloses
  <1>2. IInv /\ Unwound /\ Scoped /\ Closing /\ [Next]_vars => Scoped' /\ Closing'
    BY NextKeepsScopes, NextCloses
  <1> QED
    BY <1>1, <1>2, Invariance, PTL DEF Spec

\* If all code closes the scopes it opens, every function returns with the scopes
\* it was entered with, and so does one that loops back to its beginning: through
\* calls of closures and builtins, applications, sourced files, errors and
\* recoveries, nothing else moves a scope (CallFunction, ReturnFromFunction,
\* CallUserFunction, SourceExpressions, Clear).
THEOREM FunctionsCloseScopes == ASSUME ScopesBalanced PROVE Spec => []ScopesClosed
  <1>1. IInv /\ Scoped /\ Closing => ScopesClosed
    BY ClosedAtReturn
  <1> QED
    BY <1>1, ClosingInvariance, PTL

\* Under the same condition a host that is idle has the global scope in view and
\* no other, whatever ran and wherever it failed (Run, Clear).
THEOREM HostSeesGlobalScope == ASSUME ScopesBalanced PROVE Spec => []OnlyGlobalInView
  <1>1. Closing => OnlyGlobalInView
    BY DEF Closing, OnlyGlobalInView, Live
  <1> QED
    BY <1>1, ClosingInvariance, PTL
=============================================================================
