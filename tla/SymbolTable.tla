---------------------------- MODULE SymbolTable -----------------------------
(***************************************************************************)
(* The numbers of symbols.  Scopes, builtins and macros are found by a     *)
(* symbol's number and symbols are compared by it, so the numbers must     *)
(* tell names apart.  MakeSymbol looks a name up in the table and gives a  *)
(* new one the next number of the environment.  eval, the expansion of a   *)
(* macro, import and a coroutine run in a duplicate of the environment,    *)
(* which shares the table and has a next number of its own.                *)
(*                                                                         *)
(* A name is a text and the number behind it, for the sake of GenSymbol.   *)
(***************************************************************************)
EXTENDS Integers, SequencesExt

CONSTANTS
  Environment,
  Root,      \* the environment the others are duplicates of
  Text

VARIABLES
  symtable, revsymtable,   \* shared by all environments
  nextsymbol,              \* of each environment there is
  issued                   \* history: the symbols that were given out

vars == <<symtable, revsymtable, nextsymbol, issued>>

Name == Text \X Nat

SexpSymbol(name, number) == [name |-> name, number |-> number]

Init ==
  /\ symtable = <<>> /\ revsymtable = <<>>
  /\ nextsymbol = [e \in {Root} |-> 1]
  /\ issued = {}

\* A function with one more or a changed value
With(f, x, y) == [z \in DOMAIN f \cup {x} |-> IF z = x THEN y ELSE f[z]]

MakeSymbol(e, name) ==
  IF name \in DOMAIN symtable
  THEN /\ issued' = issued \cup {SexpSymbol(name, symtable[name])}
       /\ UNCHANGED <<symtable, revsymtable, nextsymbol>>
  ELSE /\ issued' = issued \cup {SexpSymbol(name, nextsymbol[e])}
       /\ symtable' = With(symtable, name, nextsymbol[e])
       /\ revsymtable' = With(revsymtable, nextsymbol[e], name)
       /\ nextsymbol' = [nextsymbol EXCEPT ![e] = @ + 1]

\* A new name is a prefix with the next number behind it.
GenSymbol(e, prefix) == MakeSymbol(e, <<prefix, nextsymbol[e]>>)

\* Duplicate, and Clone as far as symbols go
Duplicate(e, dupenv) ==
  /\ dupenv \notin DOMAIN nextsymbol
  /\ nextsymbol' = With(nextsymbol, dupenv, nextsymbol[e])
  /\ UNCHANGED <<symtable, revsymtable, issued>>

Make(e) ==
  \/ \E name \in Name : MakeSymbol(e, name)
  \/ \E prefix \in Text : GenSymbol(e, prefix)

Next ==
  \E e \in DOMAIN nextsymbol : Make(e) \/ \E dupenv \in Environment : Duplicate(e, dupenv)

Spec == Init /\ [][Next]_vars

\* A program that does not use eval, macros, import and coroutines
AloneSpec == Init /\ [][Make(Root)]_vars

\* Symbols that were given out are the same symbol, by their numbers, exactly
\* if they have the same name, whichever environment made them (MakeSymbol).
SymbolsTranslate ==
  \A s, t \in issued : s.number = t.number <=> s.name = t.name
=============================================================================
