----------------------------- MODULE MCGlispHash ----------------------------
(***************************************************************************)
(* Keys that share a number: an integer, the character equal to it and the *)
(* symbol of that number; a string with another; and one that cannot be    *)
(* hashed.                                                                 *)
(***************************************************************************)
EXTENDS GlispHash, TLC

CONSTANTS v1, v2

key(k, code, t) == [k |-> k, code |-> code, t |-> t]

MCKey == {key("int", 1, ""), key("char", 1, ""), key("sym", 1, ""),
          key("str", 2, "two"), key("arr", 0, "")}

MCSymmetry == Permutations({v1, v2})
=============================================================================
