------------------------------- MODULE Parser -------------------------------
(***************************************************************************)
(* Reading a text: the parser of parser.go, which asks the lexer for       *)
(* tokens, which asks the stream for runes.  The recursion of              *)
(* ParseExpression is a stack of frames, one for each expression that is   *)
(* being read; ParseList, which calls itself for the rest of a list, has   *)
(* one frame for the list.                                                 *)
(*                                                                         *)
(* The stream delivers the words of one of the Sources, rune by rune, in   *)
(* any order and at most as many as that source says, and may end after    *)
(* each.  The largest integer is MaxInt.                                   *)
(*                                                                         *)
(* A definition named Mut_ is used by no action: it is a faulty form of    *)
(* the one below it, with which a property of the runs must fail.          *)
(***************************************************************************)
EXTENDS Lexer, Sexp

CONSTANTS
  Sources,   \* [words : SUBSET Seq(rune), most : Nat]
  MaxInt

ASSUME ParserAssumption ==
  /\ \A s \in Sources : s.most \in Nat /\ \A w \in s.words : w \in Seq(ToSet(w)) \ {<<>>}
  /\ MaxInt \in Nat

VARIABLES
  source, count, word,   \* the stream: its words so far, and the rest of one
  lexer,
  frames,   \* expressions being read, innermost last
  want,     \* the next step: an expression, a token for the last frame, or
            \* to return `value` to it
  value,
  status,   \* reading, done, failed, or panicked (an index out of range in Go)
  taken, spelled,   \* histories: the tokens that were got and their runes,
  meant             \* and the runes of the text that mean something

stream == <<source, count, word>>
vars == <<stream, lexer, frames, want, value, status, taken, spelled, meant>>

Frame(k) == [k |-> k, at |-> "open", xs |-> <<>>, tail |-> Null]

Quotes == {"'", "backquote", "~", "~@"}

SexpEnd == [k |-> "end"]

-----------------------------------------------------------------------------
(* Histories: the runes of a text that mean something, said without a      *)
(* buffer and without tokens                                               *)

Prefix(typ) ==
  IF typ \in Brace \cup (Quotes \ {"~@"}) THEN <<typ>>
  ELSE CASE typ = "dot"    -> <<".">>
         [] typ = "~@"     -> <<"~", "@">>
         [] typ = "hex"    -> <<"0", "x">>
         [] typ = "oct"    -> <<"0", "o">>
         [] typ = "binary" -> <<"0", "b">>
         [] OTHER          -> <<>>
Spelled(tok) == Prefix(tok.typ) \o tok.str

\* What a lexer has read and not handed out: the tokens in the queue, the
\* buffer, and a tilde that has made no token yet.
Tilde(l)   == IF l.state = "unquote" THEN <<"~">> ELSE <<>>
Pending(l) == FlattenSeq([i \in DOMAIN l.tokens |-> Spelled(l.tokens[i])]) \o l.buffer \o Tilde(l)

\* Not the blanks between atoms, not comments, not the marks around a string.
\* A character, which begins with a #, can be spelled in several ways.
NothingMeant == [in |-> "code", out |-> <<>>, chars |-> FALSE]

Meaning(m, r) ==
  [in    |-> CASE m.in = "comment" -> IF r = Newline THEN "code" ELSE "comment"
               [] m.in = "string"  -> CASE r = "\"" -> "code" [] r = "\\" -> "escape" [] OTHER -> "string"
               [] m.in = "escape"  -> "string"
               [] m.in = "code"    -> CASE r = "\"" -> "string" [] r = ";" -> "comment" [] r = "~" -> "tilde"
                                        [] OTHER -> "code"
               [] OTHER -> "code",
   out   |-> CASE m.in = "comment"                               -> m.out
               [] m.in = "string" /\ r \in {"\"", "\\"}          -> m.out
               [] m.in = "escape"                                -> Append(m.out, Unescaped(r))
               [] m.in = "code" /\ r \in Blank \cup {"\"", ";"}  -> m.out
               [] OTHER                                          -> Append(m.out, r),
   chars |-> m.chars \/ (r = "#" /\ m.in # "comment")]

Init ==
  /\ source \in Sources /\ count = 0 /\ word = <<>>
  /\ lexer = NewLexer /\ frames = <<Frame("top")>>
  /\ want = "expression" /\ value = Null /\ status = "reading"
  /\ taken = <<>> /\ spelled = <<>> /\ meant = NothingMeant

-----------------------------------------------------------------------------
(* PeekNextToken and GetNextToken *)

NeedsRunes == status = "reading" /\ want # "return" /\ ~lexer.finished /\ lexer.tokens = <<>>

ReadRune ==
  /\ NeedsRunes
  /\ \E w \in IF word # <<>> THEN {word} ELSE IF count < source.most THEN source.words ELSE {} :
       /\ word' = Tail(w) /\ meant' = Meaning(meant, Head(w))
       /\ lexer' = LexNextRune(lexer, Head(w))
  /\ count' = IF word = <<>> THEN count + 1 ELSE count
  /\ status' = IF lexer'.failed THEN "failed" ELSE status
  /\ UNCHANGED <<source, frames, want, value, taken, spelled>>

AtEnd == NeedsRunes /\ word = <<>>

\* The atom at the end cannot be decoded, and there is no token to return.
ReadEndPanics ==
  /\ AtEnd /\ dumpBuffer(lexer).failed
  /\ status' = "panicked"
  /\ UNCHANGED <<stream, lexer, frames, want, value, taken, spelled, meant>>

\* PeekNextToken once it has a token, with the lexer it leaves: after the end
\* there is no token any more, even if the one that was peeked then is still
\* in the queue.
Peek(tok, l) == [tok |-> tok, lexer |-> l]
Peeked ==
  CASE lexer.finished       -> {Peek(TokenEnd, lexer)}
    [] NeedsRunes           ->
         {Peek(IF lexer.buffer = <<>> THEN TokenEnd ELSE Head(l.tokens), l) :
            l \in IF AtEnd /\ ~dumpBuffer(lexer).failed THEN {Finish(lexer)} ELSE {}}
    [] OTHER                -> {Peek(Head(lexer.tokens), lexer)}

Keep(p) == lexer' = p.lexer /\ UNCHANGED <<taken, spelled>>

\* GetNextToken drops the token, unless it is the end.
Get(p) ==
  IF p.tok = TokenEnd THEN Keep(p)
  ELSE /\ lexer' = [p.lexer EXCEPT !.tokens = Tail(@)]
       /\ taken' = Append(taken, p.tok) /\ spelled' = spelled \o Spelled(p.tok)

-----------------------------------------------------------------------------
(* Frames *)

Top         == Last(frames)
Become(f)   == frames' = Append(Front(frames), f)
Push(k)     == frames' = Append(frames, Frame(k))
Ask(what)   == want' = what /\ UNCHANGED <<value, status>>
Return(v)   == want' = "return" /\ value' = v /\ UNCHANGED status
Stop(how)   == status' = how /\ UNCHANGED <<frames, want, value>>
Leave(v)    == frames' = Front(frames) /\ Return(v)

\* A pair chain is one list if it ends with the empty list.
MakePair(h, t) == IF t.k = "list" THEN ListV(<<h>> \o t.xs) ELSE [k |-> "pair", head |-> h, tail |-> t]
Chain(xs, end) == FoldRight(MakePair, xs, end)
MakeSymbol(s)  == SymV(<<s>>)

Openers == [k \in {"(", "[", "{"} |->
              CASE k = "(" -> "list" [] k = "[" -> "array" [] k = "{" -> "hash"]
QuoteSymbol(q) ==
  CASE q = "'" -> "quote" [] q = "backquote" -> "syntax-quote"
    [] q = "~" -> "unquote" [] q = "~@" -> "unquote-splicing"

-----------------------------------------------------------------------------
(* Atoms *)

Base == [typ \in {"decimal", "hex", "oct", "binary"} |->
           CASE typ = "decimal" -> 10 [] typ = "hex" -> 16 [] typ = "oct" -> 8 [] typ = "binary" -> 2]
Integer == DOMAIN Base

LowerDigits == <<"0", "1", "2", "3", "4", "5", "6", "7", "8", "9", "a", "b", "c", "d", "e", "f">>
UpperDigits == SubSeq(LowerDigits, 1, 10) \o <<"A", "B", "C", "D", "E", "F">>

Magnitude(digits, base) ==
  FoldLeft(LAMBDA n, d : n * base + (CHOOSE v \in 0 .. 15 : d \in {LowerDigits[v + 1], UpperDigits[v + 1]}),
           0, digits)
IntOf(tok) ==
  LET n == Magnitude(Unsigned(tok.str, {"-"}), Base[tok.typ])
  IN IF Head(tok.str) = "-" THEN -n ELSE n

\* strconv.ParseFloat takes less than FloatRegex does.  It also takes
\* hexadecimal floats, which have a p and are left out.
IsMantissa(s) == \E i \in 0 .. Len(s) :
  /\ ToSet(SubSeq(s, 1, i)) \cup ToSet(From(s, i + 2)) \subseteq Digit
  /\ i < Len(s) => s[i + 1] = "."
  /\ s \notin {<<>>, <<".">>}

\* The largest float has 309 digits (leading zeros and its last digits aside).
TooLarge(mantissa, exponent) ==
  /\ ToSet(mantissa) \cap (Digit \ {"0"}) # {} /\ Head(exponent) # "-"
  /\ \E n \in 0 .. Len(mantissa) :
       /\ ToSet(SubSeq(mantissa, 1, n)) \subseteq Digit /\ (n < Len(mantissa) => mantissa[n + 1] = ".")
       /\ n + Magnitude(Unsigned(exponent, Sign), 10) > 309

ParsesAsFloat(s) ==
  \/ IsMantissa(Unsigned(s, Sign))
  \/ \E i \in DOMAIN s :
       LET mantissa == Unsigned(SubSeq(s, 1, i - 1), Sign)
           exponent == From(s, i + 1)
       IN /\ s[i] \in {"e", "E"} /\ IsMantissa(mantissa) /\ All(Unsigned(exponent, Sign), Digit)
          /\ ~TooLarge(mantissa, exponent)

Readable(tok) ==
  /\ tok.typ \in Integer => IntOf(tok) \in -(MaxInt + 1) .. MaxInt
  /\ tok.typ = "float" => ParsesAsFloat(tok.str)

\* A character is the first byte of its rune; runes are of one byte here.  A
\* float is kept as it is written.
Atom(tok) ==
  CASE tok.typ = "nil"    -> Null
    [] tok.typ = "symbol" -> SymV(tok.str)
    [] tok.typ = "bool"   -> BoolV(tok.str = <<"true">>)
    [] tok.typ = "string" -> StrV(tok.str)
    [] tok.typ \in Integer -> IntV(IntOf(tok))
    [] OTHER -> [k |-> tok.typ, str |-> tok.str]   \* a character or a float

IsAtom(tok) == tok.typ \in Integer \cup {"nil", "symbol", "bool", "string", "char", "float"}

-----------------------------------------------------------------------------
(* The parser *)

\* ParseExpression: the token decides; at the end of the stream the value is
\* the end, which is no error even behind a quotation mark.
Mut_EndIsError(tok) ==
  \/ tok.typ \in DOMAIN Openers /\ Push(Openers[tok.typ]) /\ Ask("frame")
  \/ tok.typ \in Quotes /\ Push(tok.typ) /\ Ask("expression")
  \/ IsAtom(tok) /\ Readable(tok) /\ Return(Atom(tok)) /\ UNCHANGED frames
  \/ ~(IsAtom(tok) /\ Readable(tok)) /\ tok.typ \notin Quotes \cup DOMAIN Openers /\ Stop("failed")
Expression(tok) ==
  \/ tok.typ \in DOMAIN Openers /\ Push(Openers[tok.typ]) /\ Ask("frame")
  \/ tok.typ \in Quotes /\ Push(tok.typ) /\ Ask("expression")
  \/ IsAtom(tok) /\ Readable(tok) /\ Return(Atom(tok)) /\ UNCHANGED frames
  \/ IsAtom(tok) /\ ~Readable(tok) /\ Stop("failed")
  \/ tok = TokenEnd /\ Return(SexpEnd) /\ UNCHANGED frames
  \/ tok.typ \in {")", "]", "}", "dot"} /\ Stop("failed")

ParseExpression ==
  /\ status = "reading" /\ want = "expression"
  /\ \E p \in Peeked : Get(p) /\ Expression(p.tok)
  /\ UNCHANGED <<stream, meant>>

ForFrame(k) == status = "reading" /\ want = "frame" /\ Top.k = k

\* ParseList: before each element a look for the end of the list ...
ListElement ==
  /\ ForFrame("list") /\ Top.at = "open"
  /\ \E p \in Peeked :
       \/ p.tok = TokenEnd /\ Keep(p) /\ Stop("failed")
       \/ p.tok.typ = ")" /\ Get(p) /\ Leave(Chain(Top.xs, Null))
       \/ /\ p.tok # TokenEnd /\ p.tok.typ # ")"
          /\ Keep(p) /\ Become([Top EXCEPT !.at = "element"]) /\ Ask("expression")
  /\ UNCHANGED <<stream, meant>>

\* ... behind each element one for a dot ...
ListDot ==
  /\ ForFrame("list") /\ Top.at = "element"
  /\ \E p \in Peeked :
       \/ p.tok.typ = "dot" /\ Get(p) /\ Become([Top EXCEPT !.at = "tail"]) /\ Ask("expression")
       \/ p.tok.typ # "dot" /\ Keep(p) /\ Become([Top EXCEPT !.at = "open"]) /\ Ask("frame")
  /\ UNCHANGED <<stream, meant>>

\* ... and behind the tail the end of the list.
Mut_ListCloseUnchecked ==
  /\ ForFrame("list") /\ Top.at = "close"
  /\ \E p \in Peeked : Get(p) /\ Leave(Chain(Top.xs, Top.tail))
  /\ UNCHANGED <<stream, meant>>
ListClose ==
  /\ ForFrame("list") /\ Top.at = "close"
  /\ \E p \in Peeked :
       /\ Get(p)
       /\ IF p.tok.typ = ")" THEN Leave(Chain(Top.xs, Top.tail)) ELSE Stop("failed")
  /\ UNCHANGED <<stream, meant>>

\* ParseArray, ParseHash
Elements(k, closer, v) ==
  /\ ForFrame(k)
  /\ \E p \in Peeked :
       \/ p.tok = TokenEnd /\ Keep(p) /\ Stop("failed")
       \/ p.tok.typ = closer /\ Get(p) /\ Leave(v)
       \/ p.tok # TokenEnd /\ p.tok.typ # closer /\ Keep(p) /\ Ask("expression") /\ UNCHANGED frames
  /\ UNCHANGED <<stream, meant>>

ArrayElement == Elements("array", "]", ArrV(Top.xs))
HashElement  == Elements("hash", "}", ListV(<<MakeSymbol("hash")>> \o Top.xs))

\* The value of an expression goes to the frame that asked for it.
Returning == status = "reading" /\ want = "return"
Add       == [Top EXCEPT !.xs = Append(@, value)]

ReturnElement ==
  /\ Returning /\ Top.k \in {"list", "array", "hash"}
  /\ Become(IF Top.at = "tail" THEN [Top EXCEPT !.at = "close", !.tail = value] ELSE Add)
  /\ Ask("frame")
  /\ UNCHANGED <<stream, lexer, taken, spelled, meant>>

ReturnQuoted ==
  /\ Returning /\ Top.k \in Quotes
  /\ Leave(ListV(<<MakeSymbol(QuoteSymbol(Top.k)), value>>))
  /\ UNCHANGED <<stream, lexer, taken, spelled, meant>>

\* ParseTokens collects expressions until one is the end.
Mut_ReturnTopForEver ==
  /\ Returning /\ Top.k = "top"
  /\ IF value = SexpEnd THEN Ask("expression") /\ UNCHANGED frames
     ELSE Become(Add) /\ Ask("expression")
  /\ UNCHANGED <<stream, lexer, taken, spelled, meant>>
ReturnTop ==
  /\ Returning /\ Top.k = "top"
  /\ IF value = SexpEnd THEN Stop("done") ELSE Become(Add) /\ Ask("expression")
  /\ UNCHANGED <<stream, lexer, taken, spelled, meant>>

ParserStep ==
  \/ ReadEndPanics \/ ParseExpression
  \/ ListElement \/ ListDot \/ ListClose \/ ArrayElement \/ HashElement
  \/ ReturnElement \/ ReturnQuoted \/ ReturnTop

Next == ReadRune \/ ParserStep

\* The stream delivers or ends.
Spec == Init /\ [][Next]_vars /\ WF_vars(Next)

TypeOK ==
  /\ lexer.state \in {"normal", "comment", "string", "escaped", "unquote"}
  /\ \A i \in DOMAIN lexer.tokens : lexer.tokens[i] # Undecodable
  /\ Len(lexer.tokens) <= 2 /\ lexer.linenum >= 1
  /\ want \in {"expression", "frame", "return"}
  /\ status \in {"reading", "done", "failed", "panicked"}
  /\ frames # <<>> /\ frames[1].k = "top"
  /\ \A i \in 2 .. Len(frames) : frames[i].k \in {"list", "array", "hash"} \cup Quotes
  /\ \A i \in DOMAIN frames : frames[i].at \in {"open", "element", "tail", "close"}

\* The tokens that were taken, those in the queue and the buffer are the text
\* up to here, in its order: braces do not overtake the atom before them, and
\* nothing is dropped or read twice, comments and strings wherever they stand,
\* and an atom at the end of the text (LexNextRune, dumpBuffer, PeekNextToken).
NothingLostInLexing ==
  ~lexer.failed /\ ~meant.chars => spelled \o Pending(lexer) = meant.out
=============================================================================
