------------------------------ MODULE MCReader ------------------------------
(***************************************************************************)
(* What a text is, said without a parser and without a lexer: the values   *)
(* that a sequence of tokens stands for, by the grammar of expressions.    *)
(***************************************************************************)
EXTENDS Printer, TLC

CONSTANTS nesting, lexing, atoms   \* how many words of each source

-----------------------------------------------------------------------------
(* The grammar: an expression, the elements behind an opening parenthesis  *)
(* up to the closing one, and a sequence of expressions.                   *)

\* The values of an expression, as sequences of one; of the rest of a list,
\* likewise; of a sequence of expressions, as sequences of values.
RECURSIVE Values(_, _)
Values(as, toks) ==
  IF as = "expression" THEN
    IF toks = <<>> THEN {}
    ELSE IF Len(toks) = 1 THEN {<<Atom(t)>> : t \in {u \in ToSet(toks) : IsAtom(u) /\ Readable(u)}}
    ELSE IF Head(toks).typ \in Quotes THEN
      {<<ListV(<<MakeSymbol(QuoteSymbol(Head(toks).typ))>> \o v)>> : v \in Values("expression", Tail(toks))}
    ELSE IF Head(toks).typ = "(" /\ Last(toks).typ = ")" THEN Values("list", Tail(Front(toks)))
    ELSE IF Head(toks).typ = "[" /\ Last(toks).typ = "]" THEN
      {<<ArrV(v)>> : v \in Values("sequence", Tail(Front(toks)))}
    ELSE IF Head(toks).typ = "{" /\ Last(toks).typ = "}" THEN
      {<<ListV(<<MakeSymbol("hash")>> \o v)>> : v \in Values("sequence", Tail(Front(toks)))}
    ELSE {}
  ELSE IF toks = <<>> THEN {IF as = "list" THEN <<Null>> ELSE <<>>}
  ELSE IF as = "list" /\ toks[1].typ = "dot" THEN {}
  ELSE UNION
    {LET rest == From(toks, n + 1)
         dotted == as = "list" /\ rest # <<>> /\ Head(rest).typ = "dot"
     IN {IF as = "list" THEN <<MakePair(hv[1], tv[1])>> ELSE hv \o tv :
           hv \in Values("expression", SubSeq(toks, 1, n)),
           tv \in Values(IF dotted THEN "expression" ELSE as, IF dotted THEN Tail(rest) ELSE rest)} :
       n \in 1 .. Len(toks)}

Sentence == Values("sequence", taken)

\* A text that is read to its end stands for exactly the values that the
\* parser returns: lists, dotted pairs, arrays, hashes and quotations nest as
\* they are written.  A quotation mark with nothing behind it is the
\* exception: it quotes the end (ParseExpression and its callees).
Dangling == taken # <<>> /\ Last(taken).typ \in Quotes
ReadsWhatIsWritten ==
  status = "done" /\ ~Dangling => Sentence = {Top.xs}

\* Printing need not read back for a float, and for names and characters of
\* runes that begin or end a token: behind a tilde and in a string that is not
\* closed the lexer takes any rune for a letter, as the ( of ~(a).
Marks == Brace \cup {"\"", ";", "'", "backquote", "~"}

RECURSIVE Plain(_)
Plain(v) ==
  CASE v.k \in {"list", "arr"} -> \A i \in DOMAIN v.xs : Plain(v.xs[i])
    [] v.k = "pair"  -> Plain(v.head) /\ Plain(v.tail)
    [] v.k = "sym"   -> ToSet(v.s) \cap (Marks \cup Blank) = {}
    [] v.k = "char"  -> v.str[1] \notin Marks \cup {" "}
    [] OTHER         -> v.k # "float"

\* What was read and is printed reads as the same value: integers of any base,
\* strings and characters with escapes, and pairs, lists and arrays nested in
\* each other (SexpString, LexNextRune, ParseList).
Lexed(text) == Finish(FoldLeft(LexNextRune, NewLexer, text))
PrintsWhatItReads ==
  status = "done" /\ ~Dangling =>
    \A i \in DOMAIN Top.xs :
      Plain(Top.xs[i]) => Values("expression", Lexed(SexpString(Top.xs[i])).tokens) = {<<Top.xs[i]>>}

\* A parser that gives up when the stream has ended has not been given
\* something that can be read, not even with the token that is still in the
\* queue.
RejectsOnlyNonsense ==
  status = "failed" /\ lexer.finished => Values("sequence", taken \o lexer.tokens) = {}

\* Every text that ends is read to an end: values, an error, or the panic of
\* an atom at its end that cannot be decoded (ParseTokens).
ReadingEnds == <>(status # "reading")

-----------------------------------------------------------------------------
(* The texts *)

MCSources ==
  { [most |-> nesting,
     words |-> {<<"(">>, <<")">>, <<"[">>, <<"]">>, <<"{">>, <<"}">>, <<"'">>,
                <<"a", " ">>, <<".", " ">>, <<"nil">>}],
    [most |-> lexing,
     words |-> {<<"(">>, <<")">>, <<"\"">>, <<";">>, <<"~">>, <<"@">>, <<"#">>, <<"a">>, <<" ">>,
                <<Newline>>, <<"1">>, <<".">>, <<"\\">>, <<"'">>, <<"backquote">>}],
    [most |-> atoms,
     words |-> {<<"(">>, <<")">>, <<" ">>, <<"0", "x", "f">>, <<"0", "o", "7">>, <<"0", "b", "1">>,
                <<"-", "1">>, <<"1", "e", "1">>, <<".", "5">>, <<"a", ".", "1">>, <<"1", "1", "1">>,
                <<"true">>, <<"false">>, <<"nil">>, <<"#", "a">>, <<"#", "\\", "n">>, <<"#", "\\", "z">>}] }
=============================================================================
