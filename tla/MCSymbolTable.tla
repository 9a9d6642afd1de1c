--------------------------- MODULE MCSymbolTable ----------------------------
(***************************************************************************)
(* An environment and a duplicate, two names.                              *)
(***************************************************************************)
EXTENDS SymbolTable

CONSTANTS Highest   \* of the numbers in names and of symbols

MCNext ==
  \E e \in DOMAIN nextsymbol :
    /\ nextsymbol[e] <= Highest
    /\ \/ \E name \in Text \X (0 .. Highest) : MakeSymbol(e, name)
       \/ \E prefix \in Text : GenSymbol(e, prefix)
       \/ \E dupenv \in Environment : Duplicate(e, dupenv)

MCSpec == Init /\ [][MCNext]_vars
=============================================================================
