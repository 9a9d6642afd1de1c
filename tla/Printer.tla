------------------------------ MODULE Printer -------------------------------
(***************************************************************************)
(* How values are printed: SexpString of expressions.go, rune by rune.     *)
(* Floats are left out: FormatFloat keeps five digits and no point behind  *)
(* a whole number, so that 1e1 is printed as the integer 10, and 1e6 as    *)
(* 1e+06, which is read as a symbol.                                       *)
(*                                                                         *)
(* A definition named Mut_ is used by no action: it is a faulty form of    *)
(* the one below it, with which a property of the runs must fail.          *)
(***************************************************************************)
EXTENDS Parser

\* strconv.Quote and QuoteRune, for what is printable and what has a letter.
Escaped(r) ==
  CASE r = Newline -> <<"\\", "n">> [] r = "\r" -> <<"\\", "r">> [] r = "\t" -> <<"\\", "t">>
    [] r = "bell"  -> <<"\\", "a">> [] r = "\\" -> <<"\\", "\\">> [] OTHER -> <<r>>
Quoted(s) == FlattenSeq([i \in DOMAIN s |-> IF s[i] = "\"" THEN <<"\\", "\"">> ELSE Escaped(s[i])])

\* The quotes around a character are trimmed, and with them one that is the
\* character itself.
CharString(c) == <<"#">> \o IF c = "'" THEN <<"\\">> ELSE Escaped(c)

RECURSIVE Itoa(_)
Itoa(n) ==
  IF n < 0 THEN <<"-">> \o Itoa(-n)
  ELSE (IF n < 10 THEN <<>> ELSE Itoa(n \div 10)) \o <<LowerDigits[(n % 10) + 1]>>

Spaced(parts) ==
  FlattenSeq([i \in DOMAIN parts |-> IF i = 1 THEN parts[i] ELSE <<" ">> \o parts[i]])
Enclosed(open, parts, close) == <<open>> \o Spaced(parts) \o <<close>>

\* A pair prints its elements up to a tail that is no pair, with a dot before
\* the tail unless that is the empty list.
Mut_PairString(head, tail, isPair) == Enclosed("(", <<head, IF isPair THEN Tail(Front(tail)) ELSE tail>>, ")")
PairString(head, tail, isPair) ==
  Enclosed("(", <<head>> \o IF isPair THEN <<Tail(Front(tail))>> ELSE <<<<".">>, tail>>, ")")

RECURSIVE SexpString(_)
SexpString(v) ==
  CASE v.k = "list" -> Enclosed("(", [i \in DOMAIN v.xs |-> SexpString(v.xs[i])], ")")
    [] v.k = "arr"  -> Enclosed("[", [i \in DOMAIN v.xs |-> SexpString(v.xs[i])], "]")
    [] v.k = "pair" -> PairString(SexpString(v.head), SexpString(v.tail), v.tail.k = "pair")
    [] v.k = "sym"  -> v.s
    [] v.k = "bool" -> IF v.b THEN <<"true">> ELSE <<"false">>
    [] v.k = "str"  -> <<"\"">> \o Quoted(v.t) \o <<"\"">>
    [] v.k = "int"  -> Itoa(v.i)
    [] v.k = "char" -> CharString(v.str[1])
    [] v.k = "end"  -> <<"End">>
=============================================================================
