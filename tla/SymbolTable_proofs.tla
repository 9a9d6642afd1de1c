------------------------- MODULE SymbolTable_proofs -------------------------
(***************************************************************************)
(* In an environment that is never duplicated, numbers tell names apart.   *)
(***************************************************************************)
EXTENDS SymbolTable, TLAPS

\* Numbers in the table are below the next one and differ, and what was given
\* out is in the table.
AInv ==
  /\ nextsymbol \in [{Root} -> Nat]
  /\ \A n \in DOMAIN symtable : symtable[n] \in Nat /\ symtable[n] < nextsymbol[Root]
  /\ \A m, n \in DOMAIN symtable : symtable[m] = symtable[n] => m = n
  /\ \A s \in issued : s.name \in DOMAIN symtable /\ s.number = symtable[s.name]

\* MakeSymbol keeps the table one-to-one: it enters a name only when it is not
\* there, with a number that is above all others (MakeSymbol).
LEMMA MakeSymbolKeepsAInv ==
  ASSUME AInv, NEW name, MakeSymbol(Root, name)
  PROVE  AInv'
<1>1. CASE name \in DOMAIN symtable
  <2>1. issued' = issued \cup {SexpSymbol(name, symtable[name])}
    BY <1>1 DEF MakeSymbol
  <2>2. UNCHANGED <<symtable, nextsymbol>>
    BY <1>1 DEF MakeSymbol
  <2>3. \A s \in issued' : s.name \in DOMAIN symtable' /\ s.number = symtable'[s.name]
    BY <1>1, <2>1, <2>2 DEF AInv, SexpSymbol
  <2> QED
    BY <2>2, <2>3 DEF AInv
<1>2. CASE name \notin DOMAIN symtable
  <2> DEFINE number == nextsymbol[Root]
  <2>1. /\ issued' = issued \cup {SexpSymbol(name, number)}
        /\ symtable' = With(symtable, name, number)
        /\ nextsymbol' = [nextsymbol EXCEPT ![Root] = @ + 1]
    BY <1>2 DEF MakeSymbol
  <2>2. number \in Nat /\ nextsymbol' \in [{Root} -> Nat] /\ nextsymbol'[Root] = number + 1
    BY <2>1 DEF AInv
  <2>3. /\ DOMAIN symtable' = DOMAIN symtable \cup {name}
        /\ symtable'[name] = number
        /\ \A n \in DOMAIN symtable : symtable'[n] = symtable[n]
    BY <1>2, <2>1 DEF With
  <2>4. \A n \in DOMAIN symtable' : symtable'[n] \in Nat /\ symtable'[n] < nextsymbol'[Root]
    BY <2>2, <2>3 DEF AInv
  <2>5. \A m, n \in DOMAIN symtable' : symtable'[m] = symtable'[n] => m = n
    BY <2>2, <2>3 DEF AInv
  <2>6. \A s \in issued' : s.name \in DOMAIN symtable' /\ s.number = symtable'[s.name]
    BY <2>1, <2>3 DEF AInv, SexpSymbol
  <2> QED
    BY <2>2, <2>4, <2>5, <2>6 DEF AInv
<1> QED
  BY <1>1, <1>2

\* As long as no environment is duplicated, two symbols are the same exactly if
\* they have the same name, however many names a program uses and makes up
\* (MakeSymbol, GenSymbol).
THEOREM AloneTranslates == AloneSpec => []SymbolsTranslate
<1>1. Init => AInv
  BY DEF Init, AInv
<1>2. AInv /\ [Make(Root)]_vars => AInv'
  <2> SUFFICES ASSUME AInv, [Make(Root)]_vars
               PROVE  AInv'
    OBVIOUS
  <2>1. CASE Make(Root)
    <3>1. PICK name : MakeSymbol(Root, name)
      BY <2>1 DEF Make, GenSymbol
    <3> QED
      BY <3>1, MakeSymbolKeepsAInv
  <2>2. CASE UNCHANGED vars
    BY <2>2 DEF AInv, vars
  <2> QED
    BY <2>1, <2>2
<1>3. AInv => SymbolsTranslate
  BY DEF AInv, SymbolsTranslate
<1> QED
  BY <1>1, <1>2, <1>3, PTL DEF AloneSpec
=============================================================================
