------------------------------- MODULE Lexer --------------------------------
(***************************************************************************)
(* The lexer of lexer.go: a record that is given one rune after the other  *)
(* and queues the tokens they make.  An atom is known to be complete only  *)
(* when the rune behind it comes, which may make a token of its own, so    *)
(* that there is a buffer besides the queue.                               *)
(*                                                                         *)
(* A rune is a string; a longer string stands for letters that make no     *)
(* difference.                                                             *)
(*                                                                         *)
(* A definition named Mut_ is used by no action: it is a faulty form of    *)
(* the one below it, with which a property of the runs must fail.          *)
(***************************************************************************)
EXTENDS Integers, SequencesExt

Newline == "\n"
Blank   == {" ", Newline, "\t", "\r"}
Brace   == {"(", ")", "[", "]", "{", "}"}
Sign    == {"-", "+"}
BinaryDigit == {"0", "1"}
OctDigit    == BinaryDigit \cup {"2", "3", "4", "5", "6", "7"}
Digit       == OctDigit \cup {"8", "9"}
HexDigit    == Digit \cup {"a", "b", "c", "d", "e", "f", "A", "B", "C", "D", "E", "F"}

\* EscapeChar, for the runes it knows
Escapable    == {"n", "r", "a", "t", "\\", "\"", "'", "#"}
Unescaped(r) == CASE r = "n" -> Newline [] r = "r" -> "\r" [] r = "a" -> "bell" [] r = "t" -> "\t" [] OTHER -> r

Token(typ, str) == [typ |-> typ, str |-> str]
Mark(typ)       == Token(typ, <<>>)
TokenEnd        == Mark("end")
Undecodable     == Token("undecodable", <<>>)

-----------------------------------------------------------------------------
(* Atoms *)

From(s, i) == SubSeq(s, i, Len(s))
All(s, S)  == s # <<>> /\ ToSet(s) \subseteq S
Unsigned(s, signs) == IF s # <<>> /\ Head(s) \in signs THEN Tail(s) ELSE s

IsDecimal(s)       == All(Unsigned(s, {"-"}), Digit)
IsBased(s, x, S)   == Len(s) > 2 /\ SubSeq(s, 1, 2) = <<"0", x>> /\ All(From(s, 3), S)

\* The exponent of a float: behind an e there is an integer, and nothing else.
IsExponent(s, i) == s[i] \in {"e", "E"} /\ IsDecimal(From(s, i + 1))

\* FloatRegex: only its first alternative is tied to the beginning, and only
\* its last one to the end.
IsFloat(s) ==
  \/ \E i \in DOMAIN s : s[i] = "." /\ All(Unsigned(SubSeq(s, 1, i - 1), {"-"}), Digit)
  \/ \E i \in 1 .. Len(s) - 1 : s[i] = "." /\ s[i + 1] \in Digit
  \/ \E i \in 2 .. Len(s) :
       /\ IsExponent(s, i)
       /\ \E j \in 1 .. i - 1 :
            /\ s[j] \in Digit
            /\ j = i - 1 \/ (s[j + 1] = "." /\ \A k \in j + 2 .. i - 1 : s[k] \in Digit)

IsChar(s) ==
  /\ s[1] = "#"
  /\ \/ Len(s) = 2 /\ s[2] # Newline
     \/ Len(s) = 3 /\ s[2] = "\\" /\ s[3] # Newline

DecodeChar(s) ==
  IF Len(s) = 2 THEN Token("char", <<s[2]>>)
  ELSE IF s[3] \in Escapable THEN Token("char", <<Unescaped(s[3])>>) ELSE Undecodable

DecodeAtom(s) ==
  IF s = <<".">> THEN Mark("dot")
  ELSE IF s = <<"nil">> THEN Token("nil", s)
  ELSE IF s \in {<<"true">>, <<"false">>} THEN Token("bool", s)
  ELSE IF IsDecimal(s) THEN Token("decimal", s)
  ELSE IF IsBased(s, "x", HexDigit) THEN Token("hex", From(s, 3))
  ELSE IF IsBased(s, "o", OctDigit) THEN Token("oct", From(s, 3))
  ELSE IF IsBased(s, "b", BinaryDigit) THEN Token("binary", From(s, 3))
  ELSE IF IsFloat(s) THEN Token("float", s)
  ELSE IF ToSet(s) \cap {"'", "#"} = {} THEN Token("symbol", s)
  ELSE IF IsChar(s) THEN DecodeChar(s) ELSE Undecodable

-----------------------------------------------------------------------------
(* The lexer *)

NewLexer ==
  [state |-> "normal", tokens |-> <<>>, buffer |-> <<>>, linenum |-> 1,
   finished |-> FALSE, failed |-> FALSE]

Enter(l, state) == [l EXCEPT !.state = state]
WriteRune(l, r) == [l EXCEPT !.buffer = Append(@, r)]
Emit(l, tok)    == [l EXCEPT !.tokens = Append(@, tok)]
Fail(l)         == [l EXCEPT !.failed = TRUE]

DumpToken(l, tok) == [Emit(l, tok) EXCEPT !.buffer = <<>>]

Mut_DecodedAnyway(l, tok) == DumpToken(l, tok)
Decoded(l, tok) == IF tok = Undecodable THEN Fail(l) ELSE DumpToken(l, tok)
dumpBuffer(l)   == IF l.buffer = <<>> THEN l ELSE Decoded(l, DecodeAtom(l.buffer))
dumpString(l)   == DumpToken(l, Token("string", l.buffer))

InString(l, r) ==
  CASE r = "\\" -> Enter(l, "escaped")
    [] r = "\"" -> Enter(dumpString(l), "normal")
    [] OTHER    -> WriteRune(l, r)

InEscape(l, r) ==
  IF r \in Escapable THEN Enter(WriteRune(l, Unescaped(r)), "string") ELSE Fail(l)

\* Whatever follows a tilde and is not the sign of splicing begins an atom.
AfterTilde(l, r) ==
  Enter(IF r = "@" THEN Emit(l, Mark("~@")) ELSE WriteRune(Emit(l, Mark("~")), r), "normal")

\* A quotation mark of some kind must not follow an atom.
AtStart(l, then) == IF l.buffer = <<>> THEN then ELSE Fail(l)

Mut_BraceBeforeAtom(l, r) == dumpBuffer(Emit(l, Mark(r)))
BraceRune(l, r) == IF dumpBuffer(l).failed THEN dumpBuffer(l) ELSE Emit(dumpBuffer(l), Mark(r))

BlankRune(l, r) == dumpBuffer(IF r = Newline THEN [l EXCEPT !.linenum = @ + 1] ELSE l)

InText(l, r) ==
  CASE r = "\""       -> AtStart(l, Enter(l, "string"))
    [] r = ";"        -> Enter(l, "comment")
    [] r \in {"'", "backquote"} -> AtStart(l, Emit(l, Mark(r)))
    [] r = "~"        -> AtStart(l, Enter(l, "unquote"))
    [] r \in Brace    -> BraceRune(l, r)
    [] r \in Blank    -> BlankRune(l, r)
    [] OTHER          -> WriteRune(l, r)

LexNextRune(l, r) ==
  CASE l.state = "comment" -> IF r = Newline THEN Enter(l, "normal") ELSE l
    [] l.state = "string"  -> InString(l, r)
    [] l.state = "escaped" -> InEscape(l, r)
    [] l.state = "unquote" -> AfterTilde(l, r)
    [] OTHER               -> InText(l, r)

\* PeekNextToken at the end of the stream: what is in the buffer is the last
\* token, whatever state the lexer is in.
Finish(l) == [dumpBuffer(l) EXCEPT !.finished = TRUE]
=============================================================================
