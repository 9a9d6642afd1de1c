--------------------------- MODULE Parser_proofs ----------------------------
(***************************************************************************)
(* Proofs about the lexer and the parser, for texts of any length and of   *)
(* any runes: the types, and that lexing loses nothing.  The inductive     *)
(* invariant relates the lexer to the histories: what the parser got and   *)
(* what the lexer still holds is the part of the text that means           *)
(* something, and the lexer's state is the one that goes with the place    *)
(* the text has come to.                                                   *)
(***************************************************************************)
EXTENDS Parser, StackLemmas

\* The runes of the text, and those that tokens and escapes bring along.
Rune == {"0", "x", "o", "b", ".", "~", "@", "'", "backquote", "bell", Newline, "\r", "\t"} \cup Brace
        \cup UNION {UNION {ToSet(w) : w \in s.words} : s \in Sources}

\* The tokens that may be queued: not the end, nor one that is undecodable.
TokenType == {"dot", "nil", "bool", "decimal", "hex", "oct", "binary", "float", "symbol", "char", "string",
              "~", "~@", "'", "backquote"} \cup Brace
Tok == [typ : TokenType, str : Seq(Rune)]

States == {"normal", "comment", "string", "escaped", "unquote"}

LexerRecord ==
  [state : States, tokens : Seq(Tok), buffer : Seq(Rune),
   linenum : Nat \ {0}, finished : BOOLEAN, failed : BOOLEAN]

\* The state of the lexer at each place of a text.
Counterpart == [comment |-> "comment", string |-> "string", escape |-> "escaped", tilde |-> "unquote", code |-> "normal"]

Meant == [in : DOMAIN Counterpart, out : Seq(Rune), chars : BOOLEAN]

InStep(l, m) ==
  /\ l.state = Counterpart[m.in]
  /\ l.state = "unquote" => l.buffer = <<>>
  /\ ~m.chars => "#" \notin ToSet(l.buffer)

-----------------------------------------------------------------------------
(* Atoms and the tokens they make *)

LEMMA FromTyped ==
  ASSUME NEW S, NEW s \in Seq(S), NEW i \in Nat \ {0}
  PROVE  From(s, i) \in Seq(S)
  BY SubSeqProperties, LenProperties, ElementOfSeq DEF From

\* The tokens DecodeAtom makes.
LEMMA Decodings ==
  ASSUME NEW s
  PROVE  \/ s = <<".">> /\ DecodeAtom(s) = Mark("dot")
         \/ \E k \in {"nil", "bool", "decimal", "float", "symbol"} : DecodeAtom(s) = Token(k, s)
         \/ IsBased(s, "x", HexDigit) /\ DecodeAtom(s) = Token("hex", From(s, 3))
         \/ IsBased(s, "o", OctDigit) /\ DecodeAtom(s) = Token("oct", From(s, 3))
         \/ IsBased(s, "b", BinaryDigit) /\ DecodeAtom(s) = Token("binary", From(s, 3))
         \/ IsChar(s) /\ ToSet(s) \cap {"'", "#"} # {} /\ DecodeAtom(s) = DecodeChar(s)
         \/ DecodeAtom(s) = Undecodable
  BY DEF DecodeAtom

\* The sign of the base, which a token leaves out, and the digits.
LEMMA BasedSpells ==
  ASSUME NEW s \in Seq(Rune), NEW x, NEW S, IsBased(s, x, S)
  PROVE  <<"0", x>> \o From(s, 3) = s
  <1>1. Len(s) > 2 /\ SubSeq(s, 1, 2) = <<"0", x>>
    BY DEF IsBased
  <1>2. Len(s) \in Nat /\ 1 \in 1 .. Len(s) + 1 /\ 2 \in 1 - 1 .. Len(s) /\ Len(s) \in 2 .. Len(s) /\ 2 + 1 = 3
    BY <1>1, LenProperties
  <1>3. SubSeq(s, 1, 2) \o SubSeq(s, 2 + 1, Len(s)) = SubSeq(s, 1, Len(s))
    BY <1>2, ConcatAdjacentSubSeq
  <1> QED
    BY <1>1, <1>2, <1>3, SubSeqFull DEF From

\* What tokens are spelled like.
LEMMA SpelledAs ==
  ASSUME NEW s \in Seq(Rune)
  PROVE  /\ \A k \in {"nil", "bool", "decimal", "float", "symbol", "char", "string"} :
              Token(k, s) \in Tok /\ Spelled(Token(k, s)) = s
         /\ \A k \in Brace \cup (Quotes \ {"~@"}) : Mark(k) \in Tok /\ Spelled(Mark(k)) = <<k>>
         /\ Mark("dot") \in Tok /\ Spelled(Mark("dot")) = <<".">>
         /\ Mark("~@") \in Tok /\ Spelled(Mark("~@")) = <<"~", "@">>
         /\ Token("hex", s) \in Tok /\ Spelled(Token("hex", s)) = <<"0", "x">> \o s
         /\ Token("oct", s) \in Tok /\ Spelled(Token("oct", s)) = <<"0", "o">> \o s
         /\ Token("binary", s) \in Tok /\ Spelled(Token("binary", s)) = <<"0", "b">> \o s
  <1>1. \A k, t : Spelled(Token(k, t)) = Prefix(k) \o t
    BY DEF Token, Spelled
  <1>2. \A k \in {"nil", "bool", "decimal", "float", "symbol", "char", "string"} : Prefix(k) = <<>>
    BY DEF Prefix, Brace, Quotes
  <1>3. \A k \in Brace \cup (Quotes \ {"~@"}) : Prefix(k) = <<k>>
    BY DEF Prefix
  <1>4. Prefix("dot") = <<".">> /\ Prefix("~@") = <<"~", "@">>
    BY DEF Prefix, Brace, Quotes
  <1>5. Prefix("hex") = <<"0", "x">> /\ Prefix("oct") = <<"0", "o">> /\ Prefix("binary") = <<"0", "b">>
    BY DEF Prefix, Brace, Quotes
  <1>6. \A k \in TokenType : Token(k, s) \in Tok /\ Token(k, <<>>) \in Tok
    BY EmptySeq DEF Token, Tok
  <1>7. <<>> \o s = s /\ \A k : <<k>> \o <<>> = <<k>>
    BY ConcatEmptySeq
  <1>8. <<"~", "@">> \o <<>> = <<"~", "@">>
    OBVIOUS
  <1>9. /\ {"nil", "bool", "decimal", "float", "symbol", "char", "string", "dot", "~@", "hex", "oct", "binary"} \subseteq TokenType
        /\ Brace \cup (Quotes \ {"~@"}) \subseteq TokenType
    BY DEF TokenType, Brace, Quotes
  <1>10. \A k \in {"nil", "bool", "decimal", "float", "symbol", "char", "string"} :
           Token(k, s) \in Tok /\ Spelled(Token(k, s)) = s
    BY <1>1, <1>2, <1>6, <1>7, <1>9
  <1>11. \A k \in Brace \cup (Quotes \ {"~@"}) : Mark(k) \in Tok /\ Spelled(Mark(k)) = <<k>>
    BY <1>1, <1>3, <1>6, <1>7, <1>9 DEF Mark
  <1>12. /\ Mark("dot") \in Tok /\ Spelled(Mark("dot")) = <<".">>
         /\ Mark("~@") \in Tok /\ Spelled(Mark("~@")) = <<"~", "@">>
    BY <1>1, <1>4, <1>6, <1>7, <1>8, <1>9 DEF Mark
  <1>13. /\ Token("hex", s) \in Tok /\ Spelled(Token("hex", s)) = <<"0", "x">> \o s
         /\ Token("oct", s) \in Tok /\ Spelled(Token("oct", s)) = <<"0", "o">> \o s
         /\ Token("binary", s) \in Tok /\ Spelled(Token("binary", s)) = <<"0", "b">> \o s
    <2>1. "hex" \in TokenType /\ "oct" \in TokenType /\ "binary" \in TokenType
      BY <1>9
    <2> QED
      BY <1>1, <1>5, <1>6, <2>1, Zenon
  <1> QED
    BY <1>10, <1>11, <1>12, <1>13, Zenon

\* An atom is spelled like what was in the buffer, unless it is a character.
LEMMA DecodedSpells ==
  ASSUME NEW s \in Seq(Rune), s # <<>>
  PROVE  \/ DecodeAtom(s) = Undecodable
         \/ DecodeAtom(s) \in Tok /\ ("#" \in ToSet(s) \/ Spelled(DecodeAtom(s)) = s)
  <1>1. ASSUME NEW x, NEW S, IsBased(s, x, S)
        PROVE  <<"0", x>> \o From(s, 3) = s /\ From(s, 3) \in Seq(Rune)
    <2>1. From(s, 3) \in Seq(Rune)
      BY FromTyped
    <2> QED
      BY <1>1, <2>1, BasedSpells, Zenon
  <1>2. CASE IsChar(s) /\ ToSet(s) \cap {"'", "#"} # {} /\ DecodeAtom(s) = DecodeChar(s)
    <2>1. s[1] = "#" /\ Len(s) \in {2, 3}
      BY <1>2 DEF IsChar
    <2>2. "#" \in ToSet(s)
      BY <2>1, LenProperties DEF ToSet
    <2>3. \A i \in 1 .. Len(s) : s[i] \in Rune
      BY ElementOfSeq
    <2>4. \A r \in Rune : <<r>> \in Seq(Rune) /\ <<Unescaped(r)>> \in Seq(Rune)
      BY DEF Unescaped, Rune
    <2>5. DecodeChar(s) = Undecodable \/ \E t \in Seq(Rune) : DecodeChar(s) = Token("char", t)
      <3>1. CASE Len(s) = 2
        <4>1. DecodeChar(s) = Token("char", <<s[2]>>) /\ s[2] \in Rune
          BY <2>3, <3>1 DEF DecodeChar
        <4> QED
          BY <2>4, <4>1, Zenon
      <3>2. CASE Len(s) = 3
        <4>1. /\ DecodeChar(s) = IF s[3] \in Escapable THEN Token("char", <<Unescaped(s[3])>>) ELSE Undecodable
              /\ s[3] \in Rune
          BY <2>3, <3>2 DEF DecodeChar
        <4> QED
          BY <2>4, <4>1, Zenon
      <3> QED
        BY <2>1, <3>1, <3>2
    <2> QED
      BY <1>2, <2>2, <2>5, SpelledAs
  <1>3. CASE IsBased(s, "x", HexDigit) /\ DecodeAtom(s) = Token("hex", From(s, 3))
    BY <1>1, <1>3, SpelledAs
  <1>4. CASE IsBased(s, "o", OctDigit) /\ DecodeAtom(s) = Token("oct", From(s, 3))
    BY <1>1, <1>4, SpelledAs
  <1>5. CASE IsBased(s, "b", BinaryDigit) /\ DecodeAtom(s) = Token("binary", From(s, 3))
    BY <1>1, <1>5, SpelledAs
  <1>6. CASE \E k \in {"nil", "bool", "decimal", "float", "symbol"} : DecodeAtom(s) = Token(k, s)
    BY <1>6, SpelledAs
  <1>7. CASE s = <<".">> /\ DecodeAtom(s) = Mark("dot")
    BY <1>7, SpelledAs
  <1> QED
    BY <1>2, <1>3, <1>4, <1>5, <1>6, <1>7, Decodings
-----------------------------------------------------------------------------
(* The lexer *)

\* The runes of a queue, which has at most two tokens.
LEMMA Queued ==
  ASSUME NEW t \in Tok, NEW u \in Tok
  PROVE  /\ FlattenSeq([i \in DOMAIN <<>> |-> Spelled(<<>>[i])]) = <<>>
         /\ FlattenSeq([i \in DOMAIN <<t>> |-> Spelled(<<t>>[i])]) = Spelled(t)
         /\ FlattenSeq([i \in DOMAIN <<t, u>> |-> Spelled(<<t, u>>[i])]) = Spelled(t) \o Spelled(u)
         /\ Spelled(t) \in Seq(Rune) /\ Spelled(u) \in Seq(Rune)
  <1>1. ASSUME NEW k \in TokenType PROVE Prefix(k) \in Seq(Rune)
    <2>1. CASE k \in Brace \cup (Quotes \ {"~@"})
      <3>1. Prefix(k) = <<k>> /\ k \in Rune
        BY <2>1 DEF Prefix, Rune, Quotes
      <3> QED
        BY <3>1
    <2>2. CASE k \notin Brace \cup (Quotes \ {"~@"})
      <3>1. Prefix(k) \in {<<".">>, <<"~", "@">>, <<"0", "x">>, <<"0", "o">>, <<"0", "b">>, <<>>}
        BY <2>2 DEF Prefix
      <3>2. {".", "~", "@", "0", "x", "o", "b"} \subseteq Rune
        BY DEF Rune
      <3>3. \A a, b \in Rune : <<a>> \in Seq(Rune) /\ <<a, b>> \in Seq(Rune) /\ <<>> \in Seq(Rune)
        OBVIOUS
      <3>4. {<<".">>, <<"~", "@">>, <<"0", "x">>, <<"0", "o">>, <<"0", "b">>, <<>>} \subseteq Seq(Rune)
        <4>1. /\ "." \in Rune /\ "~" \in Rune /\ "@" \in Rune /\ "0" \in Rune
              /\ "x" \in Rune /\ "o" \in Rune /\ "b" \in Rune
          BY <3>2
        <4> QED
          BY <3>3, <4>1, Zenon
      <3> QED
        BY <3>1, <3>4, Zenon
    <2> QED
      BY <2>1, <2>2
  <1>2. ASSUME NEW v \in Tok PROVE Spelled(v) \in Seq(Rune)
    <2>1. v.typ \in TokenType /\ v.str \in Seq(Rune)
      BY DEF Tok
    <2>2. Prefix(v.typ) \in Seq(Rune)
      BY <1>1, <2>1
    <2> QED
      BY <2>1, <2>2, ConcatProperties DEF Spelled
  <1>3. [i \in DOMAIN <<>> |-> Spelled(<<>>[i])] = <<>>
    OBVIOUS
  <1>4. [i \in DOMAIN <<t>> |-> Spelled(<<t>>[i])] = <<Spelled(t)>>
    OBVIOUS
  <1>5. [i \in DOMAIN <<t, u>> |-> Spelled(<<t, u>>[i])] = <<Spelled(t), Spelled(u)>>
    OBVIOUS
  <1>6. FlattenSeq(<<>>) = <<>>
    BY DEF FlattenSeq
  <1>7. /\ <<Spelled(t)>> \in Seq(Seq(Rune)) /\ Len(<<Spelled(t)>>) = 1 /\ <<Spelled(t)>>[1] = Spelled(t)
        /\ <<Spelled(t), Spelled(u)>> \in Seq(Seq(Rune)) /\ Len(<<Spelled(t), Spelled(u)>>) = 2
        /\ <<Spelled(t), Spelled(u)>>[1] = Spelled(t) /\ <<Spelled(t), Spelled(u)>>[2] = Spelled(u)
    BY <1>2
  <1>8. FlattenSeq(<<Spelled(t)>>) = Spelled(t)
    BY <1>7, Flattened
  <1>9. FlattenSeq(<<Spelled(t), Spelled(u)>>) = Spelled(t) \o Spelled(u)
    <2>1. PICK w : w = <<Spelled(t), Spelled(u)>>
      OBVIOUS
    <2>2. w \in Seq(Seq(Rune)) /\ Len(w) \in {1, 2} /\ Len(w) # 1 /\ w[1] = Spelled(t) /\ w[2] = Spelled(u)
      BY <1>7, <2>1
    <2>3. FlattenSeq(w) = w[1] \o w[2]
      BY ONLY <2>2, Flattened
    <2> QED
      BY <2>1, <2>2, <2>3
  <1> QED
    BY <1>2, <1>3, <1>4, <1>5, <1>6, <1>8, <1>9

Ready(l) == l \in LexerRecord /\ l.tokens = <<>> /\ ~l.failed /\ ~l.finished

\* What the lexer l, which goes with m, becomes by a rune that makes w of m.
Lexed(l, n, m, w) ==
  /\ n \in LexerRecord /\ Len(n.tokens) <= 2 /\ ~n.finished
  /\ ~n.failed =>
       /\ InStep(n, w)
       /\ ~w.chars => ~m.chars /\ \E t \in Seq(Rune) : w.out = m.out \o t /\ Pending(n) = Pending(l) \o t

\* dumpBuffer fails, does nothing, or queues the atom.
LEMMA Dumped ==
  ASSUME NEW l, Ready(l), NEW d, d = dumpBuffer(l)
  PROVE  /\ d \in LexerRecord /\ d.state = l.state /\ ~d.finished /\ d.linenum = l.linenum
         /\ d.failed => d.tokens = <<>>
         /\ ~d.failed => d.buffer = <<>> /\ Len(d.tokens) <= 1
         /\ ~d.failed /\ l.buffer = <<>> => d.tokens = <<>>
         /\ ~d.failed /\ l.buffer # <<>> =>
              \E t \in Tok : d.tokens = <<t>> /\ ("#" \in ToSet(l.buffer) \/ Spelled(t) = l.buffer)
  <1>1. l \in LexerRecord /\ l.tokens = <<>> /\ ~l.failed /\ ~l.finished /\ l.buffer \in Seq(Rune)
    BY DEF Ready, LexerRecord
  <1>2. CASE l.buffer = <<>>
    <2>1. d = l
      BY <1>2 DEF dumpBuffer
    <2> QED
      BY <1>1, <1>2, <2>1
  <1>3. CASE l.buffer # <<>> /\ DecodeAtom(l.buffer) = Undecodable
    <2>1. d = [l EXCEPT !.failed = TRUE]
      BY <1>3 DEF dumpBuffer, Decoded, Fail
    <2> QED
      BY <1>1, <1>3, <2>1 DEF LexerRecord
  <1>4. CASE l.buffer # <<>> /\ DecodeAtom(l.buffer) # Undecodable
    <2>1. PICK t : t = DecodeAtom(l.buffer)
      OBVIOUS
    <2>2. t \in Tok /\ ("#" \in ToSet(l.buffer) \/ Spelled(t) = l.buffer)
      BY <1>1, <1>4, <2>1, DecodedSpells
    <2>3. d = [[l EXCEPT !.tokens = Append(@, t)] EXCEPT !.buffer = <<>>]
      BY <1>4, <2>1 DEF dumpBuffer, Decoded, DumpToken, Emit
    <2>4. Append(<<>>, t) = <<t>> /\ <<t>> \in Seq(Tok) /\ Len(<<t>>) = 1
      BY <2>2
    <2>5. /\ d.tokens = <<t>> /\ d.buffer = <<>> /\ d.state = l.state /\ d.finished = l.finished
          /\ d.linenum = l.linenum /\ d.failed = l.failed
          /\ d = [state |-> d.state, tokens |-> d.tokens, buffer |-> d.buffer, linenum |-> d.linenum,
                  finished |-> d.finished, failed |-> d.failed]
      BY <1>1, <2>3, <2>4 DEF LexerRecord
    <2>6. d \in LexerRecord
      BY <1>1, <2>4, <2>5, EmptySeq DEF LexerRecord
    <2> QED
      BY <1>1, <1>4, <2>2, <2>4, <2>5, <2>6
  <1> QED
    BY <1>2, <1>3, <1>4

\* What is pending where runes are read.
LEMMA PendingIs ==
  ASSUME NEW l \in LexerRecord
  PROVE  /\ l.tokens = <<>> /\ l.state # "unquote" => Pending(l) = l.buffer
         /\ l.tokens = <<>> /\ l.state = "unquote" /\ l.buffer = <<>> => Pending(l) = <<"~">>
         /\ l.state # "unquote" =>
              \A t \in Tok : l.tokens = <<t>> =>
                Pending(l) = Spelled(t) \o l.buffer /\ Spelled(t) \in Seq(Rune)
         /\ l.state # "unquote" /\ l.buffer = <<>> =>
              \A t, u \in Tok : l.tokens = <<t, u>> =>
                Pending(l) = Spelled(t) \o Spelled(u) /\ Spelled(t) \in Seq(Rune) /\ Spelled(u) \in Seq(Rune)
  <1>1. l.buffer \in Seq(Rune)
    BY DEF LexerRecord
  <1>2. \A s \in Seq(Rune) : <<>> \o s = s /\ s \o <<>> = s
    BY ConcatEmptySeq
  <1>3. <<>> \o <<"~">> = <<"~">> /\ <<>> \in Seq(Rune)
    OBVIOUS
  <1>4. \A s, t \in Seq(Rune) : s \o t \in Seq(Rune)
    BY ConcatProperties
  <1>5. Mark("dot") \in Tok
    BY <1>3, SpelledAs
  <1>6. l.state # "unquote" => Tilde(l) = <<>>
    BY DEF Tilde
  <1>7. l.state = "unquote" => Tilde(l) = <<"~">>
    BY DEF Tilde
  <1>8. ASSUME l.tokens = <<>>
        PROVE  Pending(l) = <<>> \o l.buffer \o Tilde(l)
    BY <1>5, <1>8, Queued DEF Pending
  <1>9. ASSUME NEW t \in Tok, l.tokens = <<t>>
        PROVE  Pending(l) = Spelled(t) \o l.buffer \o Tilde(l) /\ Spelled(t) \in Seq(Rune)
    BY <1>9, Queued DEF Pending
  <1>10. ASSUME NEW t \in Tok, NEW u \in Tok, l.tokens = <<t, u>>
         PROVE  /\ Pending(l) = (Spelled(t) \o Spelled(u)) \o l.buffer \o Tilde(l)
                /\ Spelled(t) \in Seq(Rune) /\ Spelled(u) \in Seq(Rune)
    BY <1>10, Queued DEF Pending
  <1>11. l.tokens = <<>> /\ l.state # "unquote" => Pending(l) = l.buffer
    BY <1>1, <1>2, <1>6, <1>8
  <1>12. l.tokens = <<>> /\ l.state = "unquote" /\ l.buffer = <<>> => Pending(l) = <<"~">>
    BY <1>2, <1>3, <1>7, <1>8
  <1>13. ASSUME NEW t \in Tok, l.tokens = <<t>>, l.state # "unquote"
         PROVE  Pending(l) = Spelled(t) \o l.buffer /\ Spelled(t) \in Seq(Rune)
    <2>1. Pending(l) = Spelled(t) \o l.buffer \o <<>> /\ Spelled(t) \in Seq(Rune)
      BY <1>6, <1>9, <1>13
    <2> QED
      BY <1>1, <1>2, <1>4, <2>1
  <1>14. ASSUME NEW t \in Tok, NEW u \in Tok, l.tokens = <<t, u>>, l.state # "unquote", l.buffer = <<>>
         PROVE  Pending(l) = Spelled(t) \o Spelled(u) /\ Spelled(t) \in Seq(Rune) /\ Spelled(u) \in Seq(Rune)
    <2>1. /\ Pending(l) = (Spelled(t) \o Spelled(u)) \o <<>> \o <<>>
          /\ Spelled(t) \in Seq(Rune) /\ Spelled(u) \in Seq(Rune)
      BY <1>6, <1>10, <1>14
    <2> QED
      BY <1>1, <1>2, <1>4, <2>1
  <1> QED
    BY <1>11, <1>12, <1>13, <1>14

\* A lexer with another state, other tokens and another buffer.
As(l, st, toks, buf) ==
  [state |-> st, tokens |-> toks, buffer |-> buf, linenum |-> l.linenum, finished |-> l.finished, failed |-> l.failed]

\* The operations of the lexer change these three fields.
LEMMA Operations ==
  ASSUME NEW l \in LexerRecord, NEW st, NEW r, NEW t
  PROVE  /\ l = As(l, l.state, l.tokens, l.buffer)
         /\ Enter(l, st) = As(l, st, l.tokens, l.buffer)
         /\ WriteRune(l, r) = As(l, l.state, l.tokens, Append(l.buffer, r))
         /\ Enter(WriteRune(l, r), st) = As(l, st, l.tokens, Append(l.buffer, r))
         /\ Emit(l, t) = As(l, l.state, Append(l.tokens, t), l.buffer)
         /\ Enter(Emit(l, t), st) = As(l, st, Append(l.tokens, t), l.buffer)
         /\ Enter(DumpToken(l, t), st) = As(l, st, Append(l.tokens, t), <<>>)
         /\ Enter(WriteRune(Emit(l, t), r), st) = As(l, st, Append(l.tokens, t), Append(l.buffer, r))
  <1>1. l = As(l, l.state, l.tokens, l.buffer)
    BY DEF LexerRecord, As
  <1>2. ASSUME NEW a, NEW b, NEW c
        PROVE  /\ Enter(As(l, a, b, c), st) = As(l, st, b, c)
               /\ WriteRune(As(l, a, b, c), r) = As(l, a, b, Append(c, r))
               /\ Emit(As(l, a, b, c), t) = As(l, a, Append(b, t), c)
               /\ [As(l, a, b, c) EXCEPT !.buffer = <<>>] = As(l, a, b, <<>>)
    <2>1. Enter(As(l, a, b, c), st) = As(l, st, b, c)
      BY DEF Enter, As
    <2>2. WriteRune(As(l, a, b, c), r) = As(l, a, b, Append(c, r))
      BY DEF WriteRune, As
    <2>3. Emit(As(l, a, b, c), t) = As(l, a, Append(b, t), c)
      BY DEF Emit, As
    <2>4. [As(l, a, b, c) EXCEPT !.buffer = <<>>] = As(l, a, b, <<>>)
      BY DEF As
    <2> QED
      BY <2>1, <2>2, <2>3, <2>4
  <1>3. DumpToken(l, t) = [Emit(l, t) EXCEPT !.buffer = <<>>]
    BY DEF DumpToken
  <1>4. /\ Enter(l, st) = As(l, st, l.tokens, l.buffer)
        /\ WriteRune(l, r) = As(l, l.state, l.tokens, Append(l.buffer, r))
        /\ Emit(l, t) = As(l, l.state, Append(l.tokens, t), l.buffer)
    BY <1>1, <1>2
  <1>5. /\ Enter(WriteRune(l, r), st) = As(l, st, l.tokens, Append(l.buffer, r))
        /\ Enter(Emit(l, t), st) = As(l, st, Append(l.tokens, t), l.buffer)
        /\ DumpToken(l, t) = As(l, l.state, Append(l.tokens, t), <<>>)
        /\ WriteRune(Emit(l, t), r) = As(l, l.state, Append(l.tokens, t), Append(l.buffer, r))
    BY <1>2, <1>3, <1>4
  <1>6. /\ Enter(DumpToken(l, t), st) = As(l, st, Append(l.tokens, t), <<>>)
        /\ Enter(WriteRune(Emit(l, t), r), st) = As(l, st, Append(l.tokens, t), Append(l.buffer, r))
    BY <1>2, <1>5
  <1> QED
    BY <1>1, <1>4, <1>5, <1>6

\* A rune more in a buffer.
LEMMA Wrote ==
  ASSUME NEW b \in Seq(Rune), NEW c \in Rune
  PROVE  /\ Append(b, c) \in Seq(Rune) /\ Append(b, c) = b \o <<c>>
         /\ "#" \in ToSet(Append(b, c)) => "#" \in ToSet(b) \/ c = "#"
  <1>1. /\ Append(b, c) \in Seq(Rune) /\ Len(Append(b, c)) = Len(b) + 1 /\ Len(b) \in Nat
        /\ \A i \in 1 .. Len(b) : Append(b, c)[i] = b[i]
        /\ Append(b, c)[Len(b) + 1] = c
    BY AppendProperties, LenProperties
  <1>2. DOMAIN b = 1 .. Len(b) /\ DOMAIN Append(b, c) = 1 .. Len(b) + 1
    BY <1>1, LenProperties
  <1> QED
    BY <1>1, <1>2, AppendIsConcat DEF ToSet

\* A rune never changes the types of the histories, and # is noticed.
LEMMA Means ==
  ASSUME NEW m \in Meant, NEW r \in Rune, NEW w, w = Meaning(m, r)
  PROVE  /\ w \in Meant
         /\ ~w.chars => ~m.chars /\ (m.in # "comment" => r # "#")
         /\ Unescaped(r) \in Rune /\ (Unescaped(r) = "#" => r = "#")
  <1>1. m.in \in {"comment", "string", "escape", "tilde", "code"} /\ m.out \in Seq(Rune) /\ m.chars \in BOOLEAN
    BY DEF Meant, Counterpart
  <1>2. Unescaped(r) \in Rune /\ (Unescaped(r) = "#" => r = "#")
    BY DEF Unescaped, Rune, Newline
  <1>3. w.chars = (m.chars \/ (r = "#" /\ m.in # "comment"))
    BY DEF Meaning
  <1>4. w.out \in Seq(Rune)
    <2>1. w.out \in {m.out, Append(m.out, r), Append(m.out, Unescaped(r))}
      BY <1>1 DEF Meaning
    <2> QED
      BY <1>1, <1>2, <2>1, AppendProperties
  <1>5. w.in \in {"comment", "string", "escape", "tilde", "code"}
    BY <1>1 DEF Meaning
  <1>6. w.chars \in BOOLEAN
    BY <1>1, <1>3
  <1>7. w = [in |-> w.in, out |-> w.out, chars |-> w.chars]
    BY DEF Meaning
  <1>8. w \in Meant
    BY <1>4, <1>5, <1>6, <1>7 DEF Meant, Counterpart
  <1> QED
    BY <1>1, <1>2, <1>3, <1>8

\* What Lexed asks for, of a lexer that has not failed.
LEMMA LexedBy ==
  ASSUME NEW l, NEW n \in LexerRecord, NEW m, NEW w, NEW t \in Seq(Rune),
         Len(n.tokens) <= 2, ~n.finished, InStep(n, w),
         ~w.chars => ~m.chars /\ w.out = m.out \o t /\ Pending(n) = Pending(l) \o t
  PROVE  Lexed(l, n, m, w)
  BY DEF Lexed

\* Each state in which a rune is not code: nothing is lost.
LEMMA LexedComment ==
  ASSUME NEW l, Ready(l), NEW m \in Meant, InStep(l, m), NEW r \in Rune, l.state = "comment",
         NEW n, n = LexNextRune(l, r), NEW w, w = Meaning(m, r)
  PROVE  Lexed(l, n, m, w)
  <1>0. <<>> \in Seq(Rune) /\ <<>> \in Seq(Tok) /\ Len(<<>>) <= 2
    OBVIOUS
  <1>1. l \in LexerRecord /\ l.tokens = <<>> /\ ~l.failed /\ ~l.finished /\ l.buffer \in Seq(Rune)
    BY DEF Ready, LexerRecord
  <1>2. m.in = "comment"
    BY DEF InStep, Counterpart, Meant
  <1>3. PICK st \in {"normal", "comment"} : st = IF r = Newline THEN "normal" ELSE "comment"
    OBVIOUS
  <1>4. n = As(l, st, <<>>, l.buffer)
    <2>1. l = As(l, "comment", <<>>, l.buffer) /\ Enter(l, "normal") = As(l, "normal", <<>>, l.buffer)
      BY <1>1, Operations
    <2> QED
      BY <1>3, <2>1 DEF LexNextRune
  <1>5. /\ n \in LexerRecord /\ n.state = st /\ n.tokens = <<>> /\ n.buffer = l.buffer
        /\ ~n.failed /\ ~n.finished /\ Len(n.tokens) <= 2
    <2>1. st \in States
      BY DEF States
    <2>2. n \in LexerRecord /\ n.state = st /\ n.tokens = <<>> /\ n.buffer = l.buffer /\ ~n.failed /\ ~n.finished
      BY ONLY <1>0, <1>1, <1>4, <2>1 DEF LexerRecord, As
    <2> QED
      BY <1>0, <2>2
  <1>6. w.in = (IF r = Newline THEN "code" ELSE "comment") /\ w.out = m.out /\ (~w.chars => ~m.chars)
    BY <1>2, Means DEF Meaning
  <1>7. Pending(n) = Pending(l)
    BY <1>1, <1>3, <1>5, PendingIs
  <1>8. InStep(n, w)
    BY <1>3, <1>5, <1>6 DEF InStep, Counterpart
  <1>9. m.out = m.out \o <<>> /\ Pending(l) = Pending(l) \o <<>> /\ <<>> \in Seq(Rune)
    BY <1>1, PendingIs, ConcatEmptySeq DEF Meant
  <1> QED
    BY <1>5, <1>6, <1>7, <1>8, <1>9, LexedBy

LEMMA LexedString ==
  ASSUME NEW l, Ready(l), NEW m \in Meant, InStep(l, m), NEW r \in Rune, l.state = "string",
         NEW n, n = LexNextRune(l, r), NEW w, w = Meaning(m, r)
  PROVE  Lexed(l, n, m, w)
  <1>0. <<>> \in Seq(Rune) /\ <<>> \in Seq(Tok) /\ Len(<<>>) <= 2 /\ m.out \in Seq(Rune)
    BY DEF Meant
  <1>1. l \in LexerRecord /\ l.tokens = <<>> /\ ~l.failed /\ ~l.finished /\ l.buffer \in Seq(Rune)
    BY DEF Ready, LexerRecord
  <1>10. l \in LexerRecord
    BY <1>1
  <1>2. m.in = "string" /\ (~m.chars => "#" \notin ToSet(l.buffer))
    BY DEF InStep, Counterpart, Meant
  <1>3. /\ w.in = IF r = "\"" THEN "code" ELSE IF r = "\\" THEN "escape" ELSE "string"
        /\ w.out = IF r \in {"\"", "\\"} THEN m.out ELSE Append(m.out, r)
        /\ ~w.chars => ~m.chars /\ r # "#"
    BY <1>2 DEF Meaning
  <1>4. Pending(l) = l.buffer
    BY <1>1, PendingIs
  <1>5. m.out = m.out \o <<>> /\ l.buffer = l.buffer \o <<>> /\ ToSet(<<>>) = {}
    BY <1>0, <1>1, ConcatEmptySeq DEF ToSet
  <1>6. n = InString(l, r)
    BY DEF LexNextRune
  <1>7. CASE r = "\\"
    <2>1. n = As(l, "escaped", <<>>, l.buffer) /\ "escaped" \in States
      BY <1>1, <1>6, <1>7, Operations DEF InString, States
    <2>2. /\ n \in LexerRecord /\ n.state = "escaped" /\ n.tokens = <<>> /\ n.buffer = l.buffer
          /\ ~n.failed /\ ~n.finished
      BY ONLY <1>0, <1>1, <2>1 DEF LexerRecord, As
    <2>3. Pending(n) = l.buffer /\ Len(n.tokens) <= 2
      BY <2>2, PendingIs
    <2>4. InStep(n, w)
      BY <1>2, <1>3, <1>7, <2>2 DEF InStep, Counterpart
    <2> QED
      BY <1>0, <1>3, <1>4, <1>5, <1>7, <2>2, <2>3, <2>4, LexedBy
  <1>8. CASE r = "\""
    <2>1. PICK t : t = Token("string", l.buffer)
      OBVIOUS
    <2>2. t \in Tok /\ Spelled(t) = l.buffer
      BY <1>1, <2>1, SpelledAs
    <2>3. n = As(l, "normal", Append(<<>>, t), <<>>) /\ "normal" \in States
      <3>1. n = Enter(DumpToken(l, t), "normal")
        BY <1>6, <1>8, <2>1 DEF InString, dumpString
      <3>2. n = As(l, "normal", Append(l.tokens, t), <<>>)
        BY ONLY <1>10, <3>1, Operations
      <3> QED
        BY <1>1, <3>2 DEF States
    <2>4. <<t>> \in Seq(Tok) /\ Len(<<t>>) <= 2 /\ Append(<<>>, t) = <<t>>
      BY <2>2
    <2>5. /\ n \in LexerRecord /\ n.state = "normal" /\ n.tokens = <<t>> /\ n.buffer = <<>>
          /\ ~n.failed /\ ~n.finished
      BY ONLY <1>0, <1>1, <2>3, <2>4 DEF LexerRecord, As
    <2>6. Pending(n) = l.buffer
      BY <1>5, <2>2, <2>5, PendingIs
    <2>7. InStep(n, w)
      <3>1. w.in = "code" /\ "#" \notin ToSet(n.buffer)
        BY <1>3, <1>5, <1>8, <2>5
      <3> QED
        BY <2>5, <3>1 DEF InStep, Counterpart
    <2> QED
      BY <1>0, <1>3, <1>4, <1>5, <1>8, <2>4, <2>5, <2>6, <2>7, LexedBy
  <1>9. CASE r \notin {"\\", "\""}
    <2>1. n = As(l, "string", <<>>, Append(l.buffer, r)) /\ "string" \in States
      BY <1>1, <1>6, <1>9, Operations DEF InString, States
    <2>2. /\ Append(l.buffer, r) \in Seq(Rune) /\ Append(l.buffer, r) = l.buffer \o <<r>>
          /\ "#" \in ToSet(Append(l.buffer, r)) => "#" \in ToSet(l.buffer) \/ r = "#"
          /\ Append(m.out, r) = m.out \o <<r>> /\ <<r>> \in Seq(Rune)
      BY <1>0, <1>1, Wrote
    <2>3. /\ n \in LexerRecord /\ n.state = "string" /\ n.tokens = <<>> /\ n.buffer = Append(l.buffer, r)
          /\ ~n.failed /\ ~n.finished
      BY ONLY <1>0, <1>1, <2>1, <2>2 DEF LexerRecord, As
    <2>4. Pending(n) = l.buffer \o <<r>> /\ Len(n.tokens) <= 2
      BY <2>2, <2>3, PendingIs
    <2>5. InStep(n, w)
      <3>1. w.in = "string" /\ (~w.chars => "#" \notin ToSet(n.buffer))
        BY <1>2, <1>3, <1>9, <2>2, <2>3
      <3> QED
        BY <2>3, <3>1 DEF InStep, Counterpart
    <2> QED
      BY <1>3, <1>4, <1>9, <2>2, <2>3, <2>4, <2>5, LexedBy
  <1> QED
    BY <1>7, <1>8, <1>9

LEMMA LexedEscape ==
  ASSUME NEW l, Ready(l), NEW m \in Meant, InStep(l, m), NEW r \in Rune, l.state = "escaped",
         NEW n, n = LexNextRune(l, r), NEW w, w = Meaning(m, r)
  PROVE  Lexed(l, n, m, w)
  <1>0. <<>> \in Seq(Rune) /\ <<>> \in Seq(Tok) /\ Len(<<>>) <= 2 /\ m.out \in Seq(Rune)
    BY DEF Meant
  <1>1. l \in LexerRecord /\ l.tokens = <<>> /\ ~l.failed /\ ~l.finished /\ l.buffer \in Seq(Rune)
    BY DEF Ready, LexerRecord
  <1>2. m.in = "escape" /\ (~m.chars => "#" \notin ToSet(l.buffer))
    BY DEF InStep, Counterpart, Meant
  <1>3. PICK c : c = Unescaped(r)
    OBVIOUS
  <1>4. w.in = "string" /\ w.out = Append(m.out, c)
    BY <1>2, <1>3 DEF Meaning
  <1>5. (~w.chars => ~m.chars /\ r # "#") /\ c \in Rune /\ (c = "#" => r = "#")
    BY <1>2, <1>3, Means
  <1>6. n = IF r \in Escapable THEN Enter(WriteRune(l, c), "string") ELSE Fail(l)
    BY <1>3 DEF LexNextRune, InEscape
  <1>7. CASE r \notin Escapable
    <2>1. n \in LexerRecord /\ n.tokens = <<>> /\ n.failed /\ ~n.finished
      BY <1>1, <1>6, <1>7 DEF LexerRecord, Fail
    <2> QED
      BY <1>0, <2>1 DEF Lexed
  <1>8. CASE r \in Escapable
    <2>1. n = As(l, "string", <<>>, Append(l.buffer, c)) /\ "string" \in States
      BY <1>1, <1>6, <1>8, Operations DEF States
    <2>2. /\ Append(l.buffer, c) \in Seq(Rune) /\ Append(l.buffer, c) = l.buffer \o <<c>>
          /\ "#" \in ToSet(Append(l.buffer, c)) => "#" \in ToSet(l.buffer) \/ c = "#"
          /\ Append(m.out, c) = m.out \o <<c>> /\ <<c>> \in Seq(Rune)
      BY <1>0, <1>1, <1>5, Wrote
    <2>3. /\ n \in LexerRecord /\ n.state = "string" /\ n.tokens = <<>> /\ n.buffer = Append(l.buffer, c)
          /\ ~n.failed /\ ~n.finished
      BY ONLY <1>0, <1>1, <2>1, <2>2 DEF LexerRecord, As
    <2>4. Pending(n) = l.buffer \o <<c>> /\ Len(n.tokens) <= 2 /\ Pending(l) = l.buffer
      BY <1>0, <1>1, <2>2, <2>3, PendingIs
    <2>5. InStep(n, w)
      <3>1. ~w.chars => "#" \notin ToSet(n.buffer)
        BY <1>2, <1>5, <2>2, <2>3
      <3> QED
        BY <1>4, <2>3, <3>1 DEF InStep, Counterpart
    <2> QED
      BY <1>4, <1>5, <2>2, <2>3, <2>4, <2>5, LexedBy
  <1> QED
    BY <1>7, <1>8

LEMMA LexedTilde ==
  ASSUME NEW l, Ready(l), NEW m \in Meant, InStep(l, m), NEW r \in Rune, l.state = "unquote",
         NEW n, n = LexNextRune(l, r), NEW w, w = Meaning(m, r)
  PROVE  Lexed(l, n, m, w)
  <1>0. <<>> \in Seq(Rune) /\ <<>> \in Seq(Tok) /\ Len(<<>>) <= 2 /\ m.out \in Seq(Rune)
    BY DEF Meant
  <1>1. l \in LexerRecord /\ l.tokens = <<>> /\ ~l.failed /\ ~l.finished /\ l.buffer \in Seq(Rune)
    BY DEF Ready, LexerRecord
  <1>10. l \in LexerRecord
    BY <1>1
  <1>2. m.in = "tilde" /\ l.buffer = <<>>
    BY DEF InStep, Counterpart, Meant
  <1>3. w.in = "code" /\ w.out = Append(m.out, r)
    BY <1>2 DEF Meaning
  <1>4. ~w.chars => ~m.chars /\ r # "#"
    BY <1>2, Means
  <1>5. Pending(l) = <<"~">>
    BY <1>1, <1>2, PendingIs
  <1>6. Append(m.out, r) = m.out \o <<r>> /\ <<r>> \in Seq(Rune) /\ Append(<<>>, r) = <<r>>
    BY <1>0, Wrote
  <1>7. CASE r = "@"
    <2>1. PICK t : t = Mark("~@")
      OBVIOUS
    <2>2. t \in Tok /\ Spelled(t) = <<"~", "@">>
      BY <1>0, <2>1, SpelledAs
    <2>3. n = As(l, "normal", <<t>>, <<>>) /\ "normal" \in States
      <3>1. n = Enter(Emit(l, t), "normal")
        BY <1>7, <2>1 DEF LexNextRune, AfterTilde
      <3>2. Append(<<>>, t) = <<t>>
        OBVIOUS
      <3>3. n = As(l, "normal", Append(l.tokens, t), l.buffer)
        BY ONLY <1>10, <3>1, Operations
      <3> QED
        BY <1>1, <1>2, <3>2, <3>3 DEF States
    <2>4. <<t>> \in Seq(Tok) /\ Len(<<t>>) <= 2
      BY <2>2
    <2>5. /\ n \in LexerRecord /\ n.state = "normal" /\ n.tokens = <<t>> /\ n.buffer = <<>>
          /\ ~n.failed /\ ~n.finished
      BY ONLY <1>0, <1>1, <2>3, <2>4 DEF LexerRecord, As
    <2>6. Pending(n) = <<"~">> \o <<r>>
      <3>1. Pending(n) = Spelled(t) \o <<>> /\ Spelled(t) \in Seq(Rune)
        BY <2>2, <2>5, PendingIs
      <3>2. Pending(n) = Spelled(t)
        BY <3>1, ConcatEmptySeq
      <3> QED
        BY <1>7, <2>2, <3>2
    <2>7. InStep(n, w)
      BY <1>3, <2>5 DEF InStep, Counterpart, ToSet
    <2> QED
      BY <1>3, <1>4, <1>5, <1>6, <2>4, <2>5, <2>6, <2>7, LexedBy
  <1>8. CASE r # "@"
    <2>1. PICK t : t = Mark("~")
      OBVIOUS
    <2>2. t \in Tok /\ Spelled(t) = <<"~">>
      BY <1>0, <2>1, SpelledAs DEF Quotes
    <2>3. n = As(l, "normal", <<t>>, <<r>>) /\ "normal" \in States
      <3>1. n = Enter(WriteRune(Emit(l, t), r), "normal")
        BY <1>8, <2>1 DEF LexNextRune, AfterTilde
      <3>2. Append(<<>>, t) = <<t>>
        OBVIOUS
      <3>3. n = As(l, "normal", Append(l.tokens, t), Append(l.buffer, r))
        BY ONLY <1>10, <3>1, Operations
      <3> QED
        BY <1>1, <1>2, <1>6, <3>2, <3>3 DEF States
    <2>4. <<t>> \in Seq(Tok) /\ Len(<<t>>) <= 2
      BY <2>2
    <2>5. /\ n \in LexerRecord /\ n.state = "normal" /\ n.tokens = <<t>> /\ n.buffer = <<r>>
          /\ ~n.failed /\ ~n.finished
      BY ONLY <1>0, <1>1, <1>6, <2>3, <2>4 DEF LexerRecord, As
    <2>6. Pending(n) = <<"~">> \o <<r>>
      BY <2>2, <2>5, PendingIs
    <2>7. InStep(n, w)
      <3>1. ToSet(<<r>>) = {r}
        BY DEF ToSet
      <3> QED
        BY <1>3, <1>4, <2>5, <3>1 DEF InStep, Counterpart
    <2> QED
      BY <1>3, <1>4, <1>5, <1>6, <2>4, <2>5, <2>6, <2>7, LexedBy
  <1> QED
    BY <1>7, <1>8

LEMMA LexedFailure ==
  ASSUME NEW l, Ready(l), NEW n, n = Fail(l), NEW m, NEW w
  PROVE  Lexed(l, n, m, w)
  <1>1. l \in LexerRecord /\ l.tokens = <<>> /\ ~l.finished /\ Len(<<>>) <= 2
    BY DEF Ready
  <1>2. n \in LexerRecord /\ n.tokens = <<>> /\ n.failed /\ ~n.finished
    BY <1>1 DEF LexerRecord, Fail
  <1> QED
    BY <1>1, <1>2 DEF Lexed

-----------------------------------------------------------------------------
(* Runes of code *)

Text(l, m, r, w) ==
  /\ Ready(l) /\ l.state = "normal" /\ m \in Meant /\ InStep(l, m)
  /\ r \in Rune /\ w = Meaning(m, r)

LEMMA TextFacts ==
  ASSUME NEW l, NEW m, NEW r, NEW w, Text(l, m, r, w)
  PROVE  /\ l \in LexerRecord /\ l.tokens = <<>> /\ ~l.failed /\ ~l.finished /\ l.state = "normal"
         /\ l.buffer \in Seq(Rune) /\ Pending(l) = l.buffer
         /\ m.out \in Seq(Rune) /\ m.in = "code" /\ r \in Rune
         /\ ~m.chars => "#" \notin ToSet(l.buffer)
         /\ ~w.chars => ~m.chars /\ r # "#" /\ "#" \notin ToSet(l.buffer)
  <1>1. /\ l \in LexerRecord /\ l.tokens = <<>> /\ ~l.failed /\ ~l.finished /\ l.state = "normal"
        /\ l.buffer \in Seq(Rune)
    BY DEF Ready, LexerRecord, Text
  <1>2. m \in Meant /\ InStep(l, m) /\ r \in Rune /\ w = Meaning(m, r)
    BY DEF Text
  <1>3. m.in = "code" /\ m.out \in Seq(Rune) /\ (~m.chars => "#" \notin ToSet(l.buffer))
    BY <1>1, <1>2 DEF InStep, Counterpart, Meant
  <1>4. ~w.chars => ~m.chars /\ r # "#"
    BY <1>2, <1>3, Means
  <1>5. Pending(l) = l.buffer
    BY <1>1, PendingIs
  <1> QED
    BY <1>1, <1>2, <1>3, <1>4, <1>5

\* What Meaning makes of a rune of code.
LEMMA TextMeans ==
  ASSUME NEW l, NEW m, NEW r, NEW w, Text(l, m, r, w)
  PROVE  /\ r = "\"" => w.in = "string" /\ w.out = m.out
         /\ r = ";" => w.in = "comment" /\ w.out = m.out
         /\ r = "~" => w.in = "tilde" /\ w.out = Append(m.out, r)
         /\ r \in Blank => w.in = "code" /\ w.out = m.out
         /\ r \notin {"\"", ";", "~"} \cup Blank => w.in = "code" /\ w.out = Append(m.out, r)
  <1>1. m.in = "code" /\ w = Meaning(m, r)
    BY TextFacts DEF Text
  <1>2. r = "\"" => w.in = "string" /\ w.out = m.out
    BY ONLY <1>1 DEF Meaning
  <1>3. r = ";" => w.in = "comment" /\ w.out = m.out
    BY ONLY <1>1 DEF Meaning
  <1>4. r = "~" => w.in = "tilde" /\ w.out = Append(m.out, r)
    BY ONLY <1>1 DEF Meaning, Blank, Newline
  <1>5. r \in Blank => w.in = "code" /\ w.out = m.out
    BY ONLY <1>1 DEF Meaning, Blank, Newline
  <1>6. r \notin {"\"", ";", "~"} \cup Blank => w.in = "code" /\ w.out = Append(m.out, r)
    BY ONLY <1>1 DEF Meaning
  <1> QED
    BY ONLY <1>2, <1>3, <1>4, <1>5, <1>6

\* What LexNextRune does with one.
LEMMA TextLexes ==
  ASSUME NEW l, NEW r, l.state = "normal"
  PROVE  /\ r = "\"" => LexNextRune(l, r) = AtStart(l, Enter(l, "string"))
         /\ r = ";" => LexNextRune(l, r) = Enter(l, "comment")
         /\ r \in {"'", "backquote"} => LexNextRune(l, r) = AtStart(l, Emit(l, Mark(r)))
         /\ r = "~" => LexNextRune(l, r) = AtStart(l, Enter(l, "unquote"))
         /\ r \in Brace => LexNextRune(l, r) = BraceRune(l, r)
         /\ r \in Blank => LexNextRune(l, r) = BlankRune(l, r)
         /\ r \notin {"\"", ";", "~", "'", "backquote"} \cup Brace \cup Blank => LexNextRune(l, r) = WriteRune(l, r)
  <1>1. LexNextRune(l, r) = InText(l, r)
    BY DEF LexNextRune
  <1>2. r = "\"" => InText(l, r) = AtStart(l, Enter(l, "string"))
    BY DEF InText, Brace, Blank, Newline
  <1>3. r = ";" => InText(l, r) = Enter(l, "comment")
    BY DEF InText, Brace, Blank, Newline
  <1>4. r \in {"'", "backquote"} => InText(l, r) = AtStart(l, Emit(l, Mark(r)))
    BY DEF InText, Brace, Blank, Newline
  <1>5. r = "~" => InText(l, r) = AtStart(l, Enter(l, "unquote"))
    BY DEF InText, Brace, Blank, Newline
  <1>6. r \in Brace => InText(l, r) = BraceRune(l, r)
    BY DEF InText, Brace, Blank, Newline
  <1>7. r \in Blank => InText(l, r) = BlankRune(l, r)
    BY DEF InText, Brace, Blank, Newline
  <1>8. r \notin {"\"", ";", "~", "'", "backquote"} \cup Brace \cup Blank => InText(l, r) = WriteRune(l, r)
    BY DEF InText
  <1> QED
    BY <1>1, <1>2, <1>3, <1>4, <1>5, <1>6, <1>7, <1>8

\* A step from text without a failure that says t.
LEMMA LexedAs ==
  ASSUME NEW l, NEW m, NEW r, NEW w, Text(l, m, r, w),
         NEW st \in States, NEW toks \in Seq(Tok), NEW buf \in Seq(Rune), NEW t \in Seq(Rune),
         NEW n, n = As(l, st, toks, buf), Len(toks) <= 2, st = Counterpart[w.in],
         st = "unquote" => buf = <<>>, ~w.chars => "#" \notin ToSet(buf),
         w.out = m.out \o t, ~w.chars => Pending(n) = l.buffer \o t
  PROVE  Lexed(l, n, m, w)
  <1>1. l \in LexerRecord /\ ~l.finished /\ Pending(l) = l.buffer /\ (~w.chars => ~m.chars)
    BY TextFacts
  <1>2. /\ n \in LexerRecord /\ n.state = st /\ n.tokens = toks /\ n.buffer = buf /\ ~n.finished
    BY <1>1 DEF LexerRecord, As
  <1>3. InStep(n, w)
    BY <1>2 DEF InStep
  <1> QED
    BY <1>1, <1>2, <1>3, LexedBy

\* Pushing a second token.
LEMMA Two ==
  ASSUME NEW t, NEW k
  PROVE  Append(<<t>>, k) = <<t, k>> /\ Len(<<t, k>>) <= 2
  <1>1. <<t>> \in Seq({t, k}) /\ <<t, k>> \in Seq({t, k}) /\ Len(<<t>>) = 1 /\ Len(<<t, k>>) = 2
    OBVIOUS
  <1>2. <<t>>[1] = t /\ <<t, k>>[1] = t /\ <<t, k>>[2] = k
    OBVIOUS
  <1>3. /\ Append(<<t>>, k) \in Seq({t, k}) /\ Len(Append(<<t>>, k)) = 2
        /\ Append(<<t>>, k)[1] = t /\ Append(<<t>>, k)[2] = k
    BY <1>1, <1>2, AppendProperties
  <1>4. PICK a, b : a = Append(<<t>>, k) /\ b = <<t, k>>
    OBVIOUS
  <1>5. /\ a \in Seq({t, k}) /\ b \in Seq({t, k}) /\ Len(a) = Len(b) /\ Len(a) = 2
        /\ a[1] = b[1] /\ a[2] = b[2]
    BY <1>1, <1>2, <1>3, <1>4
  <1>6. \A i \in 1 .. Len(a) : a[i] = b[i]
    BY ONLY <1>5
  <1>7. a = b
    BY ONLY <1>5, <1>6, SeqEqual
  <1>8. Len(<<t, k>>) <= 2
    BY ONLY <1>1
  <1> QED
    BY <1>4, <1>7, <1>8, Zenon

LEMMA Nothing ==
  /\ <<>> \in Seq(Rune) /\ <<>> \in Seq(Tok) /\ Len(<<>>) <= 2
  /\ \A st : st \in States <=> st \in {"normal", "comment", "string", "escaped", "unquote"}
  BY EmptySeq DEF States

\* The state that goes with code, with a comment and so on.
LEMMA Counterparts ==
  ASSUME NEW w
  PROVE  /\ w.in = "code" => Counterpart[w.in] = "normal"
         /\ w.in = "comment" => Counterpart[w.in] = "comment"
         /\ w.in = "string" => Counterpart[w.in] = "string"
         /\ w.in = "tilde" => Counterpart[w.in] = "unquote"
  BY DEF Counterpart

\* The runes that begin a comment, a string and an unquotation.
LEMMA LexedSemicolon ==
  ASSUME NEW l, NEW m, NEW r, NEW w, Text(l, m, r, w), r = ";"
  PROVE  Lexed(l, LexNextRune(l, r), m, w)
  <1>1. l \in LexerRecord /\ l.state = "normal" /\ l.tokens = <<>> /\ l.buffer \in Seq(Rune) /\ m.out \in Seq(Rune)
    BY TextFacts
  <1>2. w.in = "comment" /\ w.out = m.out
    BY TextMeans, Zenon
  <1>3. LexNextRune(l, r) = As(l, "comment", <<>>, l.buffer)
    <2>1. LexNextRune(l, r) = Enter(l, "comment")
      BY <1>1, TextLexes, Zenon
    <2> QED
      BY ONLY <1>1, <2>1, Operations
  <1>4. <<>> \in Seq(Rune) /\ <<>> \in Seq(Tok) /\ Len(<<>>) <= 2 /\ "comment" \in States
    BY Nothing, Zenon
  <1>5. m.out = m.out \o <<>> /\ l.buffer = l.buffer \o <<>>
    BY <1>1, ConcatEmptySeq
  <1>6. Pending(LexNextRune(l, r)) = l.buffer
    <2>1. /\ LexNextRune(l, r) \in LexerRecord /\ LexNextRune(l, r).state = "comment"
          /\ LexNextRune(l, r).tokens = <<>> /\ LexNextRune(l, r).buffer = l.buffer
      BY ONLY <1>1, <1>3, <1>4 DEF LexerRecord, As
    <2> QED
      BY <2>1, PendingIs
  <1>7. "comment" = Counterpart[w.in] /\ (~w.chars => "#" \notin ToSet(l.buffer))
    BY <1>2, TextFacts, Counterparts, Zenon
  <1> QED
    BY <1>1, <1>2, <1>3, <1>4, <1>5, <1>6, <1>7, LexedAs

LEMMA LexedOpening ==
  ASSUME NEW l, NEW m, NEW r, NEW w, Text(l, m, r, w), r = "\""
  PROVE  Lexed(l, LexNextRune(l, r), m, w)
  <1>1. l \in LexerRecord /\ l.state = "normal" /\ l.tokens = <<>> /\ l.buffer \in Seq(Rune) /\ m.out \in Seq(Rune)
    BY TextFacts
  <1>2. w.in = "string" /\ w.out = m.out
    BY TextMeans, Zenon
  <1>3. LexNextRune(l, r) = IF l.buffer = <<>> THEN As(l, "string", <<>>, l.buffer) ELSE Fail(l)
    <2>1. LexNextRune(l, r) = AtStart(l, Enter(l, "string"))
      BY <1>1, TextLexes, Zenon
    <2> QED
      BY ONLY <1>1, <2>1, Operations DEF AtStart
  <1>4. <<>> \in Seq(Rune) /\ <<>> \in Seq(Tok) /\ Len(<<>>) <= 2 /\ "string" \in States
    BY Nothing, Zenon
  <1>5. m.out = m.out \o <<>> /\ l.buffer = l.buffer \o <<>>
    BY <1>1, ConcatEmptySeq
  <1>6. CASE l.buffer # <<>>
    BY <1>3, <1>6, LexedFailure DEF Text
  <1>7. CASE l.buffer = <<>>
    <2>1. LexNextRune(l, r) = As(l, "string", <<>>, l.buffer)
      BY <1>3, <1>7
    <2>2. /\ LexNextRune(l, r) \in LexerRecord /\ LexNextRune(l, r).state = "string"
          /\ LexNextRune(l, r).tokens = <<>> /\ LexNextRune(l, r).buffer = l.buffer
      BY ONLY <1>1, <1>4, <2>1 DEF LexerRecord, As
    <2>3. Pending(LexNextRune(l, r)) = l.buffer
      BY <2>2, PendingIs
    <2>4. "string" = Counterpart[w.in] /\ (~w.chars => "#" \notin ToSet(l.buffer))
      BY <1>2, TextFacts, Counterparts, Zenon
    <2> QED
      BY <1>1, <1>2, <1>4, <1>5, <2>1, <2>3, <2>4, LexedAs
  <1> QED
    BY <1>6, <1>7

LEMMA LexedTildeMark ==
  ASSUME NEW l, NEW m, NEW r, NEW w, Text(l, m, r, w), r = "~",
         w.in = "tilde", w.out = Append(m.out, r)
  PROVE  Lexed(l, LexNextRune(l, r), m, w)
  <1>1. /\ l \in LexerRecord /\ l.state = "normal" /\ l.tokens = <<>> /\ l.buffer \in Seq(Rune)
        /\ m.out \in Seq(Rune) /\ r \in Rune
    BY TextFacts
  <1>2. w.in = "tilde" /\ w.out = Append(m.out, r)
    OBVIOUS
  <1>3. LexNextRune(l, r) = IF l.buffer = <<>> THEN As(l, "unquote", <<>>, l.buffer) ELSE Fail(l)
    <2>1. LexNextRune(l, r) = AtStart(l, Enter(l, "unquote"))
      BY <1>1, TextLexes, Zenon
    <2> QED
      BY ONLY <1>1, <2>1, Operations DEF AtStart
  <1>4. <<>> \in Seq(Rune) /\ <<>> \in Seq(Tok) /\ Len(<<>>) <= 2 /\ "unquote" \in States
    BY Nothing, Zenon
  <1>5. Append(m.out, r) = m.out \o <<r>> /\ <<r>> \in Seq(Rune) /\ <<>> \o <<r>> = <<r>>
    BY <1>1, Wrote, ConcatEmptySeq
  <1>6. CASE l.buffer # <<>>
    BY <1>3, <1>6, LexedFailure DEF Text
  <1>7. CASE l.buffer = <<>>
    <2>1. LexNextRune(l, r) = As(l, "unquote", <<>>, l.buffer)
      BY <1>3, <1>7
    <2>2. /\ LexNextRune(l, r) \in LexerRecord /\ LexNextRune(l, r).state = "unquote"
          /\ LexNextRune(l, r).tokens = <<>> /\ LexNextRune(l, r).buffer = l.buffer
      BY ONLY <1>1, <1>4, <2>1 DEF LexerRecord, As
    <2>3. Pending(LexNextRune(l, r)) = l.buffer \o <<r>>
      BY <1>5, <1>7, <2>2, PendingIs
    <2>4. "unquote" = Counterpart[w.in] /\ (~w.chars => "#" \notin ToSet(l.buffer))
      BY <1>2, TextFacts, Counterparts, Zenon
    <2> QED
      BY <1>1, <1>2, <1>4, <1>5, <1>7, <2>1, <2>3, <2>4, LexedAs
  <1> QED
    BY <1>6, <1>7

\* A quotation mark is a token of its own.
LEMMA LexedQuote ==
  ASSUME NEW l, NEW m, NEW r, NEW w, Text(l, m, r, w), r \in {"'", "backquote"}
  PROVE  Lexed(l, LexNextRune(l, r), m, w)
  <1>1. /\ l \in LexerRecord /\ l.state = "normal" /\ l.tokens = <<>> /\ l.buffer \in Seq(Rune)
        /\ m.out \in Seq(Rune) /\ r \in Rune
    BY TextFacts
  <1>2. w.in = "code" /\ w.out = Append(m.out, r)
    <2>1. r \notin {"\"", ";", "~"} \cup Blank
      BY DEF Blank, Newline
    <2> QED
      BY <2>1, TextMeans, Zenon
  <1>3. PICK k : k = Mark(r)
    OBVIOUS
  <1>4. k \in Tok /\ Spelled(k) = <<r>>
    <2>1. <<>> \in Seq(Rune)
      OBVIOUS
    <2>2. r \in Brace \cup (Quotes \ {"~@"})
      BY DEF Quotes
    <2> QED
      BY <1>3, <2>1, <2>2, SpelledAs
  <1>5. LexNextRune(l, r) = IF l.buffer = <<>> THEN As(l, "normal", Append(<<>>, k), l.buffer) ELSE Fail(l)
    <2>1. LexNextRune(l, r) = AtStart(l, Emit(l, k))
      BY <1>1, <1>3, TextLexes, Zenon
    <2> QED
      BY ONLY <1>1, <2>1, Operations DEF AtStart
  <1>6. <<>> \in Seq(Rune) /\ "normal" \in States /\ Append(<<>>, k) = <<k>> /\ <<k>> \in Seq(Tok) /\ Len(<<k>>) <= 2
    BY <1>4 DEF States
  <1>7. Append(m.out, r) = m.out \o <<r>> /\ <<r>> \in Seq(Rune) /\ <<>> \o <<r>> = <<r>> /\ <<r>> \o <<>> = <<r>>
    BY <1>1, Wrote, ConcatEmptySeq
  <1>8. CASE l.buffer # <<>>
    BY <1>5, <1>8, LexedFailure DEF Text
  <1>9. CASE l.buffer = <<>>
    <2>1. LexNextRune(l, r) = As(l, "normal", <<k>>, l.buffer)
      BY <1>5, <1>6, <1>9
    <2>2. /\ LexNextRune(l, r) \in LexerRecord /\ LexNextRune(l, r).state = "normal"
          /\ LexNextRune(l, r).tokens = <<k>> /\ LexNextRune(l, r).buffer = l.buffer
      BY ONLY <1>1, <1>6, <2>1 DEF LexerRecord, As
    <2>3. Pending(LexNextRune(l, r)) = l.buffer \o <<r>>
      BY <1>4, <1>7, <1>9, <2>2, PendingIs
    <2>4. "normal" = Counterpart[w.in] /\ (~w.chars => "#" \notin ToSet(l.buffer))
      BY <1>2, TextFacts, Counterparts, Zenon
    <2> QED
      BY <1>1, <1>2, <1>6, <1>7, <1>9, <2>1, <2>3, <2>4, LexedAs
  <1> QED
    BY <1>8, <1>9

\* Any other rune belongs to an atom.
LEMMA LexedAtom ==
  ASSUME NEW l, NEW m, NEW r, NEW w, Text(l, m, r, w), LexNextRune(l, r) = WriteRune(l, r),
         w.in = "code", w.out = Append(m.out, r)
  PROVE  Lexed(l, LexNextRune(l, r), m, w)
  <1>1. /\ l \in LexerRecord /\ l.state = "normal" /\ l.tokens = <<>> /\ l.buffer \in Seq(Rune)
        /\ m.out \in Seq(Rune) /\ r \in Rune
    BY TextFacts
  <1>2. PICK b : b = Append(l.buffer, r)
    OBVIOUS
  <1>3. LexNextRune(l, r) = As(l, "normal", <<>>, b)
    <2>1. LexNextRune(l, r) = WriteRune(l, r)
      OBVIOUS
    <2> QED
      BY ONLY <1>1, <1>2, <2>1, Operations
  <1>4. <<>> \in Seq(Tok) /\ Len(<<>>) <= 2 /\ "normal" \in States
    BY DEF States
  <1>5. /\ b \in Seq(Rune) /\ b = l.buffer \o <<r>> /\ <<r>> \in Seq(Rune) /\ w.out = m.out \o <<r>>
        /\ "#" \in ToSet(b) => "#" \in ToSet(l.buffer) \/ r = "#"
    BY <1>1, <1>2, Wrote
  <1>6. /\ LexNextRune(l, r) \in LexerRecord /\ LexNextRune(l, r).state = "normal"
        /\ LexNextRune(l, r).tokens = <<>> /\ LexNextRune(l, r).buffer = b
    BY ONLY <1>1, <1>3, <1>4, <1>5 DEF LexerRecord, As
  <1>7. Pending(LexNextRune(l, r)) = b
    BY <1>6, PendingIs
  <1>8. "normal" = Counterpart[w.in] /\ (~w.chars => "#" \notin ToSet(b))
    BY <1>5, TextFacts, Counterparts, Zenon
  <1> QED
    BY <1>3, <1>4, <1>5, <1>7, <1>8, LexedAs

\* A blank ends the atom before it.
LEMMA LexedBlank ==
  ASSUME NEW l, NEW m, NEW r, NEW w, Text(l, m, r, w), LexNextRune(l, r) = BlankRune(l, r),
         w.in = "code", w.out = m.out
  PROVE  Lexed(l, LexNextRune(l, r), m, w)
  <1>1. /\ l \in LexerRecord /\ l.state = "normal" /\ l.tokens = <<>> /\ l.buffer \in Seq(Rune)
        /\ ~l.failed /\ ~l.finished /\ m.out \in Seq(Rune) /\ Pending(l) = l.buffer
        /\ ~w.chars => ~m.chars /\ "#" \notin ToSet(l.buffer)
    BY TextFacts
  <1>2. PICK k : k = IF r = Newline THEN [l EXCEPT !.linenum = @ + 1] ELSE l
    OBVIOUS
  <1>3. k \in LexerRecord /\ k.state = "normal" /\ k.tokens = <<>> /\ k.buffer = l.buffer /\ ~k.failed /\ ~k.finished
    BY <1>1, <1>2 DEF LexerRecord
  <1>4. PICK n : n = dumpBuffer(k)
    OBVIOUS
  <1>5. LexNextRune(l, r) = n
    BY <1>2, <1>4 DEF BlankRune
  <1>6. /\ n \in LexerRecord /\ n.state = "normal" /\ ~n.finished
        /\ n.failed => n.tokens = <<>>
        /\ ~n.failed => n.buffer = <<>>
        /\ ~n.failed /\ l.buffer = <<>> => n.tokens = <<>>
        /\ ~n.failed /\ l.buffer # <<>> =>
             \E t \in Tok : n.tokens = <<t>> /\ ("#" \in ToSet(l.buffer) \/ Spelled(t) = l.buffer)
    BY <1>3, <1>4, Dumped DEF Ready
  <1>7. Len(n.tokens) <= 2
    <2>1. Len(<<>>) <= 2 /\ \A t : Len(<<t>>) <= 2
      OBVIOUS
    <2> QED
      BY <1>6, <2>1
  <1>8. CASE n.failed
    BY <1>5, <1>6, <1>7, <1>8 DEF Lexed
  <1>9. CASE ~n.failed
    <2>1. ~w.chars => Pending(n) = l.buffer
      <3>1. CASE l.buffer = <<>>
        BY <1>6, <1>9, <3>1, PendingIs
      <3>2. CASE l.buffer # <<>> /\ ~w.chars
        <4>1. PICK t \in Tok : n.tokens = <<t>> /\ Spelled(t) = l.buffer
          BY <1>1, <1>6, <1>9, <3>2
        <4>2. Pending(n) = Spelled(t) \o <<>>
          BY <1>6, <1>9, <4>1, PendingIs
        <4> QED
          BY <1>1, <4>1, <4>2, ConcatEmptySeq
      <3> QED
        BY <3>1, <3>2
    <2>2. InStep(n, w)
      <3>1. ToSet(<<>>) = {}
        BY DEF ToSet
      <3> QED
        BY <1>6, <1>9, <3>1 DEF InStep, Counterpart
    <2>3. m.out = m.out \o <<>> /\ l.buffer = l.buffer \o <<>> /\ <<>> \in Seq(Rune)
      BY <1>1, ConcatEmptySeq
    <2> QED
      BY <1>1, <1>5, <1>6, <1>7, <2>1, <2>2, <2>3, LexedBy
  <1> QED
    BY <1>8, <1>9

\* So does a brace, which is a token of its own behind it.
LEMMA LexedBrace ==
  ASSUME NEW l, NEW m, NEW r, NEW w, Text(l, m, r, w), LexNextRune(l, r) = BraceRune(l, r),
         r \in Brace, w.in = "code", w.out = Append(m.out, r)
  PROVE  Lexed(l, LexNextRune(l, r), m, w)
  <1>1. /\ l \in LexerRecord /\ l.state = "normal" /\ l.tokens = <<>> /\ l.buffer \in Seq(Rune)
        /\ ~l.failed /\ ~l.finished /\ m.out \in Seq(Rune) /\ Pending(l) = l.buffer /\ r \in Rune
        /\ ~w.chars => ~m.chars /\ "#" \notin ToSet(l.buffer)
    BY TextFacts
  <1>2. PICK d : d = dumpBuffer(l)
    OBVIOUS
  <1>3. PICK k : k = Mark(r)
    OBVIOUS
  <1>4. k \in Tok /\ Spelled(k) = <<r>> /\ <<r>> \in Seq(Rune)
    <2>1. <<>> \in Seq(Rune) /\ <<r>> \in Seq(Rune)
      BY <1>1
    <2>2. r \in Brace \cup (Quotes \ {"~@"})
      BY DEF Quotes, Brace
    <2> QED
      BY <1>3, <2>1, <2>2, SpelledAs
  <1>5. LexNextRune(l, r) = IF d.failed THEN d ELSE Emit(d, k)
    BY <1>2, <1>3 DEF BraceRune
  <1>6. /\ d \in LexerRecord /\ d.state = "normal" /\ ~d.finished
        /\ d.failed => d.tokens = <<>>
        /\ ~d.failed => d.buffer = <<>>
        /\ ~d.failed /\ l.buffer = <<>> => d.tokens = <<>>
        /\ ~d.failed /\ l.buffer # <<>> =>
             \E t \in Tok : d.tokens = <<t>> /\ ("#" \in ToSet(l.buffer) \/ Spelled(t) = l.buffer)
    BY <1>1, <1>2, Dumped DEF Ready
  <1>7. m.out \o <<r>> = w.out
    BY <1>1, Wrote
  <1>8. CASE d.failed
    <2>1. Len(<<>>) <= 2
      OBVIOUS
    <2> QED
      BY <1>5, <1>6, <1>8, <2>1 DEF Lexed
  <1>9. CASE ~d.failed
    <2>1. PICK n : n = As(d, "normal", Append(d.tokens, k), d.buffer)
      OBVIOUS
    <2>2. LexNextRune(l, r) = n
      BY <1>5, <1>6, <1>9, <2>1, Operations
    <2>3. Append(d.tokens, k) \in Seq(Tok) /\ "normal" \in States
      BY <1>4, <1>6, AppendProperties DEF LexerRecord, States
    <2>4. /\ n \in LexerRecord /\ n.state = "normal" /\ n.tokens = Append(d.tokens, k)
          /\ n.buffer = <<>> /\ ~n.finished
      BY ONLY <1>6, <1>9, <2>1, <2>3 DEF LexerRecord, As
    <2>5. InStep(n, w)
      <3>1. ToSet(<<>>) = {}
        BY DEF ToSet
      <3> QED
        BY <2>4, <3>1 DEF InStep, Counterpart
    <2>6. Len(n.tokens) <= 2 /\ (~w.chars => Pending(n) = l.buffer \o <<r>>)
      <3>1. CASE l.buffer = <<>>
        <4>1. Append(<<>>, k) = <<k>> /\ Len(<<k>>) <= 2 /\ <<r>> \o <<>> = <<r>> /\ <<>> \o <<r>> = <<r>>
          OBVIOUS
        <4>2. n.tokens = <<k>>
          BY <1>6, <1>9, <2>4, <3>1, <4>1
        <4> QED
          BY <1>4, <2>4, <3>1, <4>1, <4>2, PendingIs
      <3>2. CASE l.buffer # <<>>
        <4>1. PICK t \in Tok : d.tokens = <<t>> /\ (~w.chars => Spelled(t) = l.buffer)
          BY <1>1, <1>6, <1>9, <3>2
        <4>2. Append(<<t>>, k) = <<t, k>> /\ Len(<<t, k>>) <= 2
          BY Two
        <4>3. n.tokens = <<t, k>>
          BY <2>4, <4>1, <4>2
        <4> QED
          BY <1>4, <2>4, <4>1, <4>2, <4>3, PendingIs
      <3> QED
        BY <3>1, <3>2
    <2> QED
      BY <1>1, <1>4, <1>7, <2>2, <2>4, <2>5, <2>6, LexedBy
  <1> QED
    BY <1>8, <1>9

\* Whatever the rune and the state.
LEMMA LexedRune ==
  ASSUME NEW l, Ready(l), NEW m \in Meant, InStep(l, m), NEW r \in Rune
  PROVE  Lexed(l, LexNextRune(l, r), m, Meaning(m, r)) /\ Meaning(m, r) \in Meant
  <1>1. l.state \in {"normal", "comment", "string", "escaped", "unquote"}
    BY DEF Ready, LexerRecord, States
  <1>2. PICK w : w = Meaning(m, r)
    OBVIOUS
  <1>3. CASE l.state = "normal"
    <2>1. Text(l, m, r, w)
      BY <1>2, <1>3 DEF Text
    <2>2. CASE r \in Brace
      <3>1. LexNextRune(l, r) = BraceRune(l, r)
        BY <1>3, <2>2, TextLexes
      <3>2. r \notin {"\"", ";", "~"} \cup Blank
        BY <2>2 DEF Brace, Blank, Newline
      <3>3. w.in = "code" /\ w.out = Append(m.out, r)
        BY <2>1, <3>2, TextMeans, Zenon
      <3> QED
        BY <1>2, <2>1, <2>2, <3>1, <3>3, LexedBrace, Means
    <2>3. CASE r \in Blank
      <3>1. LexNextRune(l, r) = BlankRune(l, r)
        BY <1>3, <2>3, TextLexes
      <3>2. r \notin {"\"", ";", "~"}
        BY <2>3 DEF Blank, Newline
      <3>3. w.in = "code" /\ w.out = m.out
        BY <2>1, <2>3, <3>2, TextMeans
      <3> QED
        BY <1>2, <2>1, <3>1, <3>3, LexedBlank, Means
    <2>4. CASE r \notin {"\"", ";", "~", "'", "backquote"} \cup Brace \cup Blank
      <3>1. LexNextRune(l, r) = WriteRune(l, r)
        BY <1>3, <2>4, TextLexes
      <3>2. w.in = "code" /\ w.out = Append(m.out, r)
        <4>1. r \notin {"\"", ";", "~"} \cup Blank
          BY ONLY <2>4
        <4> QED
          BY <2>1, <4>1, TextMeans, Zenon
      <3> QED
        BY <1>2, <2>1, <3>1, <3>2, LexedAtom, Means
    <2>10. r = "~" => w.in = "tilde" /\ w.out = Append(m.out, r)
      BY ONLY <2>1, TextMeans
    <2>5. CASE r \in {"\"", ";", "~", "'", "backquote"}
      BY <1>2, <2>1, <2>10, <2>5, LexedOpening, LexedSemicolon, LexedTildeMark, LexedQuote, Means
    <2> QED
      BY <2>2, <2>3, <2>4, <2>5
  <1>4. CASE l.state = "comment"
    BY <1>4, LexedComment, Means
  <1>5. CASE l.state = "string"
    BY <1>5, LexedString, Means
  <1>6. CASE l.state = "escaped"
    BY <1>6, LexedEscape, Means
  <1>7. CASE l.state = "unquote"
    BY <1>7, LexedTilde, Means
  <1> QED
    BY <1>1, <1>3, <1>4, <1>5, <1>6, <1>7
-----------------------------------------------------------------------------
(* Taking tokens *)

\* What is pending, with its parentheses, and its type.
LEMMA PendingForms ==
  ASSUME NEW l \in LexerRecord
  PROVE  /\ l.tokens = <<>> => Pending(l) = <<>> \o l.buffer \o Tilde(l)
         /\ \A t \in Tok : l.tokens = <<t>> =>
              Pending(l) = Spelled(t) \o l.buffer \o Tilde(l) /\ Spelled(t) \in Seq(Rune)
         /\ \A t, u \in Tok : l.tokens = <<t, u>> =>
              /\ Pending(l) = (Spelled(t) \o Spelled(u)) \o l.buffer \o Tilde(l)
              /\ Spelled(t) \in Seq(Rune) /\ Spelled(u) \in Seq(Rune)
         /\ l.buffer \in Seq(Rune) /\ Tilde(l) \in Seq(Rune)
  <1>1. <<>> \in Seq(Rune) /\ "~" \in Rune
    BY DEF Rune
  <1>2. Mark("dot") \in Tok
    BY <1>1, SpelledAs
  <1>3. l.tokens = <<>> => Pending(l) = <<>> \o l.buffer \o Tilde(l)
    BY <1>2, Queued DEF Pending
  <1>4. \A t \in Tok : l.tokens = <<t>> =>
          Pending(l) = Spelled(t) \o l.buffer \o Tilde(l) /\ Spelled(t) \in Seq(Rune)
    BY Queued DEF Pending
  <1>5. \A t, u \in Tok : l.tokens = <<t, u>> =>
          /\ Pending(l) = (Spelled(t) \o Spelled(u)) \o l.buffer \o Tilde(l)
          /\ Spelled(t) \in Seq(Rune) /\ Spelled(u) \in Seq(Rune)
    BY Queued DEF Pending
  <1>6. l.buffer \in Seq(Rune) /\ Tilde(l) \in Seq(Rune)
    BY <1>1 DEF LexerRecord, Tilde
  <1> QED
    BY <1>3, <1>4, <1>5, <1>6

\* Concatenation does not mind where the parentheses are.
LEMMA Regrouped ==
  ASSUME NEW a \in Seq(Rune), NEW b \in Seq(Rune), NEW c \in Seq(Rune)
  PROVE  /\ a \o b \o c \in Seq(Rune) /\ a \o b \in Seq(Rune)
         /\ a \o b \o c = a \o (b \o c) /\ <<>> \o b \o c = b \o c
  BY ConcatProperties, ConcatEmptySeq, ConcatAssociative

\* Without the first of four sequences.
LEMMA WithoutFirst ==
  ASSUME NEW a \in Seq(Rune), NEW b \in Seq(Rune), NEW c \in Seq(Rune), NEW d \in Seq(Rune),
         NEW p, p = a \o b \o c \o d, NEW q, q = b \o c \o d
  PROVE  q \in Seq(Rune) /\ p = a \o q
  <1>1. a \o b \in Seq(Rune) /\ b \o c \in Seq(Rune)
    BY ONLY Regrouped
  <1>2. a \o b \o c \o d = (a \o b) \o (c \o d)
    BY ONLY <1>1, ConcatAssociative
  <1>3. c \o d \in Seq(Rune)
    BY ONLY Regrouped
  <1>4. (a \o b) \o (c \o d) = a \o (b \o (c \o d))
    BY ONLY <1>3, ConcatAssociative
  <1>5. b \o c \o d = b \o (c \o d)
    BY ONLY ConcatAssociative
  <1>6. b \o c \o d \in Seq(Rune)
    BY ONLY Regrouped
  <1> QED
    BY <1>2, <1>4, <1>5, <1>6, Zenon

\* A queue of one or two tokens.
LEMMA Heads ==
  ASSUME NEW q \in Seq(Tok), q # <<>>, Len(q) <= 2
  PROVE  \/ \E t \in Tok : q = <<t>> /\ Head(q) = t /\ Tail(q) = <<>>
         \/ \E t, u \in Tok : q = <<t, u>> /\ Head(q) = t /\ Tail(q) = <<u>>
  <1>1. Len(q) \in {1, 2} /\ \A i \in 1 .. Len(q) : q[i] \in Tok
    <2>1. Len(q) \in Nat /\ Len(q) # 0
      BY EmptySeq, LenProperties
    <2>2. \A n \in Nat : n # 0 /\ n <= 2 => n \in {1, 2}
      BY ONLY TRUE
    <2>3. Len(q) \in {1, 2}
      BY <2>1, <2>2, Zenon
    <2> QED
      BY <2>3, ElementOfSeq
  <1>2. CASE Len(q) = 1
    <2>1. PICK t : t = q[1]
      OBVIOUS
    <2>2. t \in Tok
      BY <1>1, <1>2, <2>1
    <2>3. PICK s : s = <<t>>
      OBVIOUS
    <2>4. s \in Seq(Tok) /\ Len(s) = 1 /\ s[1] = t /\ Head(s) = t /\ Tail(s) = <<>>
      BY <2>2, <2>3
    <2>5. \A i \in 1 .. Len(q) : q[i] = s[i]
      BY <1>2, <2>1, <2>4
    <2>6. q = s
      BY ONLY q \in Seq(Tok), <1>2, <2>4, <2>5, SeqEqual
    <2> QED
      BY <2>2, <2>3, <2>4, <2>6, Zenon
  <1>3. CASE Len(q) = 2
    <2>1. PICK t, u : t = q[1] /\ u = q[2]
      OBVIOUS
    <2>2. t \in Tok /\ u \in Tok
      BY <1>1, <1>3, <2>1
    <2>3. PICK s : s = <<t, u>>
      OBVIOUS
    <2>4. s \in Seq(Tok) /\ Len(s) = 2 /\ s[1] = t /\ s[2] = u /\ Head(s) = t
      BY <2>2, <2>3
    <2>5. \A i \in 1 .. Len(q) : q[i] = s[i]
      BY <1>3, <2>1, <2>4
    <2>6. q = s
      BY ONLY q \in Seq(Tok), <1>3, <2>4, <2>5, SeqEqual
    <2>7. Tail(s) = <<u>>
      <3>1. PICK v, w : v = <<u>> /\ w = Tail(s)
        OBVIOUS
      <3>2. v \in Seq(Tok) /\ Len(v) = 1 /\ v[1] = u
        BY <2>2, <3>1
      <3>3. w \in Seq(Tok) /\ Len(w) = 1 /\ w[1] = u
        BY ONLY <2>4, <3>1, HeadTailProperties
      <3>4. \A i \in 1 .. Len(v) : v[i] = w[i]
        BY ONLY <3>2, <3>3
      <3>5. v = w
        BY ONLY <3>2, <3>3, <3>4, SeqEqual
      <3> QED
        BY <3>1, <3>5, Zenon
    <2> QED
      BY <2>2, <2>3, <2>4, <2>6, <2>7, Zenon
  <1> QED
    BY <1>1, <1>2, <1>3

\* The first token leaves the queue.
LEMMA TokenTaken ==
  ASSUME NEW l \in LexerRecord, l.tokens # <<>>, Len(l.tokens) <= 2,
         NEW n, n = [l EXCEPT !.tokens = Tail(@)]
  PROVE  /\ n \in LexerRecord /\ Len(n.tokens) <= 2 /\ n.state = l.state /\ n.buffer = l.buffer
         /\ n.failed = l.failed /\ n.finished = l.finished
         /\ Spelled(Head(l.tokens)) \in Seq(Rune) /\ Pending(n) \in Seq(Rune)
         /\ Pending(l) = Spelled(Head(l.tokens)) \o Pending(n)
  <1>1. /\ n.tokens = Tail(l.tokens) /\ n.state = l.state /\ n.buffer = l.buffer
        /\ n.failed = l.failed /\ n.finished = l.finished /\ n.linenum = l.linenum
        /\ n = As(l, l.state, Tail(l.tokens), l.buffer)
    BY DEF LexerRecord, As
  <1>2. l.tokens \in Seq(Tok)
    BY DEF LexerRecord
  <1>3. Tail(l.tokens) \in Seq(Tok) /\ Len(Tail(l.tokens)) <= 2
    BY <1>2, HeadTailProperties, EmptySeq
  <1>4. n \in LexerRecord
    BY <1>1, <1>3 DEF LexerRecord, As
  <1>5. /\ l.buffer \in Seq(Rune) /\ Tilde(l) \in Seq(Rune) /\ Tilde(n) = Tilde(l) /\ <<>> \in Seq(Rune)
    <2>1. Tilde(n) = Tilde(l)
      BY <1>1 DEF Tilde
    <2>2. l.buffer \in Seq(Rune) /\ Tilde(l) \in Seq(Rune)
      BY PendingForms, Zenon
    <2> QED
      BY <2>1, <2>2, EmptySeq
  <1>6. ASSUME NEW t \in Tok, l.tokens = <<t>>, Head(l.tokens) = t, Tail(l.tokens) = <<>>
        PROVE  /\ Spelled(Head(l.tokens)) \in Seq(Rune) /\ Pending(n) \in Seq(Rune)
               /\ Pending(l) = Spelled(Head(l.tokens)) \o Pending(n)
    <2>1. PICK a : a = Spelled(t)
      OBVIOUS
    <2>2. Pending(l) = a \o l.buffer \o Tilde(l) /\ a \in Seq(Rune)
      BY <1>6, <2>1, PendingForms
    <2>3. Pending(n) = <<>> \o l.buffer \o Tilde(l)
      BY <1>1, <1>4, <1>5, <1>6, PendingForms
    <2>4. Pending(n) \in Seq(Rune) /\ Pending(l) = a \o Pending(n)
      <3>1. PICK b, c : b = l.buffer /\ c = Tilde(l)
        OBVIOUS
      <3>2. b \in Seq(Rune) /\ c \in Seq(Rune) /\ <<>> \in Seq(Rune) /\ Pending(l) = a \o b \o c /\ Pending(n) = <<>> \o b \o c
        BY <1>5, <2>2, <2>3, <3>1, Zenon
      <3>3. a \o b \o c = a \o (<<>> \o b \o c)
        BY <2>2, <3>2, Regrouped
      <3>4. <<>> \o b \o c \in Seq(Rune)
        BY <3>2, Regrouped
      <3> QED
        BY <3>2, <3>3, <3>4, Zenon
    <2> QED
      BY <1>6, <2>1, <2>2, <2>4, Zenon
  <1>7. ASSUME NEW t \in Tok, NEW u \in Tok, l.tokens = <<t, u>>, Head(l.tokens) = t, Tail(l.tokens) = <<u>>
        PROVE  /\ Spelled(Head(l.tokens)) \in Seq(Rune) /\ Pending(n) \in Seq(Rune)
               /\ Pending(l) = Spelled(Head(l.tokens)) \o Pending(n)
    <2>1. PICK a, b : a = Spelled(t) /\ b = Spelled(u)
      OBVIOUS
    <2>2. Pending(l) = (a \o b) \o l.buffer \o Tilde(l) /\ a \in Seq(Rune) /\ b \in Seq(Rune)
      BY <1>7, <2>1, PendingForms
    <2>3. Pending(n) = b \o l.buffer \o Tilde(l)
      BY <1>1, <1>4, <1>5, <1>7, <2>1, PendingForms
    <2>4. Pending(n) \in Seq(Rune) /\ Pending(l) = a \o Pending(n)
      <3>1. PICK c, d, p, q : c = l.buffer /\ d = Tilde(l) /\ p = Pending(l) /\ q = Pending(n)
        OBVIOUS
      <3>2. a \in Seq(Rune) /\ b \in Seq(Rune) /\ c \in Seq(Rune) /\ d \in Seq(Rune)
        BY <1>5, <2>2, <3>1, Zenon
      <3>3. p = a \o b \o c \o d /\ q = b \o c \o d
        BY <2>2, <2>3, <3>1, Zenon
      <3>4. q \in Seq(Rune) /\ p = a \o q
        BY ONLY <3>2, <3>3, WithoutFirst, SMTT(60)
      <3> QED
        BY <3>1, <3>4, Zenon
    <2> QED
      BY <1>7, <2>1, <2>2, <2>4, Zenon
  <1>8. /\ Spelled(Head(l.tokens)) \in Seq(Rune) /\ Pending(n) \in Seq(Rune)
        /\ Pending(l) = Spelled(Head(l.tokens)) \o Pending(n)
    BY <1>2, <1>6, <1>7, Heads, Zenon
  <1> QED
    BY <1>1, <1>3, <1>4, <1>8

\* At the end of the text the buffer becomes a token, whatever the state.
LEMMA Finished ==
  ASSUME NEW l, Ready(l), NEW m \in Meant, InStep(l, m), NEW n, n = Finish(l), ~dumpBuffer(l).failed
  PROVE  /\ n \in LexerRecord /\ Len(n.tokens) <= 2 /\ n.finished /\ ~n.failed
         /\ ~m.chars => Pending(n) = Pending(l)
         /\ l.buffer # <<>> => n.tokens # <<>>
  <1>1. PICK d : d = dumpBuffer(l)
    OBVIOUS
  <1>2. /\ l \in LexerRecord /\ l.tokens = <<>> /\ l.buffer \in Seq(Rune) /\ ~l.failed /\ ~l.finished
        /\ ~m.chars => "#" \notin ToSet(l.buffer)
        /\ l.state = "unquote" => l.buffer = <<>>
    BY DEF Ready, LexerRecord, InStep
  <1>3. /\ d \in LexerRecord /\ d.state = l.state /\ ~d.failed /\ d.buffer = <<>>
        /\ l.buffer = <<>> => d.tokens = <<>>
        /\ l.buffer # <<>> => \E t \in Tok : d.tokens = <<t>> /\ ("#" \in ToSet(l.buffer) \/ Spelled(t) = l.buffer)
    BY <1>1, Dumped
  <1>4. n = [d EXCEPT !.finished = TRUE]
    BY <1>1 DEF Finish
  <1>5. /\ n \in LexerRecord /\ n.finished /\ ~n.failed /\ n.tokens = d.tokens /\ n.buffer = <<>> /\ n.state = l.state
    BY <1>3, <1>4 DEF LexerRecord
  <1>6. CASE l.buffer = <<>>
    <2>1. Len(<<>>) <= 2 /\ n.tokens = <<>>
      BY <1>3, <1>5, <1>6
    <2>2. Pending(n) = Pending(l)
      <3>1. Tilde(n) = Tilde(l)
        BY <1>5 DEF Tilde
      <3>2. Pending(n) = <<>> \o n.buffer \o Tilde(n) /\ Pending(l) = <<>> \o l.buffer \o Tilde(l)
        BY ONLY <1>2, <1>5, <2>1, PendingForms
      <3> QED
        BY <1>5, <1>6, <3>1, <3>2, Zenon
    <2> QED
      BY <1>5, <1>6, <2>1, <2>2
  <1>7. CASE l.buffer # <<>>
    <2>1. PICK t \in Tok : d.tokens = <<t>> /\ ("#" \in ToSet(l.buffer) \/ Spelled(t) = l.buffer)
      BY <1>3, <1>7
    <2>2. Len(<<t>>) <= 2 /\ <<t>> # <<>>
      OBVIOUS
    <2>3. l.state # "unquote"
      BY <1>2, <1>7
    <2>4. Pending(n) = Spelled(t) \o <<>> /\ Spelled(t) \in Seq(Rune)
      BY <1>5, <2>1, <2>3, PendingIs
    <2>5. Pending(l) = l.buffer
      BY <1>2, <2>3, PendingIs
    <2>6. ~m.chars => Pending(n) = Pending(l)
      BY <1>2, <2>1, <2>4, <2>5, ConcatEmptySeq
    <2> QED
      BY <1>5, <2>1, <2>2, <2>6
  <1> QED
    BY <1>6, <1>7
-----------------------------------------------------------------------------
(* The stack of expressions *)

FrameKinds  == {"top", "list", "array", "hash"} \cup Quotes
FrameStages == {"open", "element", "tail", "close"}

Proper(f) ==
  /\ f = [k |-> f.k, at |-> f.at, xs |-> f.xs, tail |-> f.tail]
  /\ f.k \in FrameKinds /\ f.at \in FrameStages

\* The text itself is at the bottom, and only there.
Frames(fs) ==
  /\ \E S : fs \in Seq(S) /\ \A f \in S : Proper(f)
  /\ fs # <<>> /\ fs[1].k = "top" /\ \A i \in 2 .. Len(fs) : fs[i].k # "top"

LEMMA FramesTyped ==
  ASSUME NEW fs, Frames(fs)
  PROVE  /\ fs # <<>> /\ fs[1].k = "top" /\ Proper(Last(fs))
         /\ \A i \in 2 .. Len(fs) : fs[i].k \in FrameKinds \ {"top"}
         /\ \A i \in DOMAIN fs : fs[i].at \in FrameStages
  <1>1. PICK S : fs \in Seq(S) /\ \A f \in S : Proper(f)
    BY DEF Frames
  <1>2. DOMAIN fs = 1 .. Len(fs) /\ Len(fs) \in Nat /\ \A i \in 1 .. Len(fs) : fs[i] \in S
    BY <1>1, LenProperties, ElementOfSeq
  <1>3. Last(fs) \in S
    BY <1>1, Popped DEF Frames
  <1>4. \A i \in 1 .. Len(fs) : fs[i].k \in FrameKinds /\ fs[i].at \in FrameStages
    BY <1>1, <1>2 DEF Proper
  <1>5. \A i \in 2 .. Len(fs) : i \in 1 .. Len(fs)
    BY <1>2
  <1> QED
    BY <1>1, <1>2, <1>3, <1>4, <1>5 DEF Frames

\* Pushing a frame, replacing and popping the innermost one.
LEMMA FramePushed ==
  ASSUME NEW fs, Frames(fs), NEW e, Proper(e), e.k # "top"
  PROVE  Frames(Append(fs, e))
  <1>1. PICK S : fs \in Seq(S) /\ \A f \in S : Proper(f)
    BY DEF Frames
  <1>2. PICK T : T = S \cup {e}
    OBVIOUS
  <1>3. fs \in Seq(T) /\ e \in T /\ \A f \in T : Proper(f)
    BY <1>1, <1>2, SeqMonotonic
  <1>4. PICK gs : gs = Append(fs, e)
    OBVIOUS
  <1>5. /\ gs \in Seq(T) /\ gs # <<>> /\ Len(gs) = Len(fs) + 1
        /\ \A i \in 1 .. Len(fs) : gs[i] = fs[i]
        /\ gs[Len(fs) + 1] = e
    BY <1>3, <1>4, PushPop
  <1>6. Len(fs) \in Nat \ {0} /\ fs[1].k = "top" /\ \A i \in 2 .. Len(fs) : fs[i].k # "top"
    BY <1>1, Popped DEF Frames
  <1>7. gs[1].k = "top" /\ \A i \in 2 .. Len(gs) : gs[i].k # "top"
    <2>1. \A i \in 2 .. Len(gs) : i = Len(fs) + 1 \/ (i \in 2 .. Len(fs) /\ i \in 1 .. Len(fs))
      BY <1>5, <1>6
    <2>2. 1 \in 1 .. Len(fs)
      BY <1>6
    <2> QED
      BY <1>5, <1>6, <2>1, <2>2
  <1>8. Frames(gs)
    BY <1>3, <1>5, <1>7 DEF Frames
  <1> QED
    BY <1>4, <1>8

LEMMA FrameReplaced ==
  ASSUME NEW fs, Frames(fs), NEW e, Proper(e), e.k = Last(fs).k
  PROVE  Frames(Append(Front(fs), e))
  <1>1. PICK S : fs \in Seq(S) /\ \A f \in S : Proper(f)
    BY DEF Frames
  <1>2. PICK T : T = S \cup {e}
    OBVIOUS
  <1>3. fs \in Seq(T) /\ e \in T /\ \A f \in T : Proper(f)
    BY <1>1, <1>2, SeqMonotonic
  <1>4. PICK gs : gs = Append(Front(fs), e)
    OBVIOUS
  <1>5. fs # <<>> /\ fs[1].k = "top" /\ \A i \in 2 .. Len(fs) : fs[i].k # "top"
    BY DEF Frames
  <1>6. /\ gs \in Seq(T) /\ gs # <<>> /\ Len(gs) = Len(fs)
        /\ \A i \in 1 .. Len(fs) - 1 : gs[i] = fs[i]
        /\ gs[Len(fs)] = e
    BY <1>3, <1>4, <1>5, TopReplaced
  <1>7. Len(fs) \in Nat \ {0} /\ Last(fs) = fs[Len(fs)]
    BY <1>1, <1>5, Popped
  <1>8. \A i \in 1 .. Len(fs) : gs[i].k = fs[i].k
    <2>1. \A i \in 1 .. Len(fs) : i = Len(fs) \/ i \in 1 .. Len(fs) - 1
      BY <1>7
    <2> QED
      BY <1>6, <1>7, <2>1
  <1>9. 1 \in 1 .. Len(fs) /\ \A i \in 2 .. Len(fs) : i \in 1 .. Len(fs)
    BY <1>7
  <1>10. gs[1].k = "top" /\ \A i \in 2 .. Len(gs) : gs[i].k # "top"
    BY <1>5, <1>6, <1>8, <1>9
  <1>11. Frames(gs)
    BY <1>3, <1>6, <1>10 DEF Frames
  <1> QED
    BY <1>4, <1>11

LEMMA FramePopped ==
  ASSUME NEW fs, Frames(fs), Last(fs).k # "top"
  PROVE  Frames(Front(fs))
  <1>1. PICK S : fs \in Seq(S) /\ \A f \in S : Proper(f)
    BY DEF Frames
  <1>2. fs # <<>> /\ fs[1].k = "top" /\ \A i \in 2 .. Len(fs) : fs[i].k # "top"
    BY DEF Frames
  <1>3. PICK gs : gs = Front(fs)
    OBVIOUS
  <1>4. /\ Len(fs) \in Nat \ {0} /\ Last(fs) = fs[Len(fs)] /\ gs \in Seq(S) /\ Len(gs) = Len(fs) - 1
        /\ \A i \in 1 .. Len(fs) - 1 : gs[i] = fs[i]
    BY <1>1, <1>2, <1>3, Popped
  <1>5. Len(fs) # 1
    BY <1>2, <1>4
  <1>6. gs # <<>> /\ 1 \in 1 .. Len(fs) - 1
    BY <1>4, <1>5
  <1>7. gs[1].k = "top" /\ \A i \in 2 .. Len(gs) : gs[i].k # "top"
    <2>1. \A i \in 2 .. Len(gs) : i \in 1 .. Len(fs) - 1 /\ i \in 2 .. Len(fs)
      BY <1>4
    <2> QED
      BY <1>2, <1>4, <1>6, <2>1
  <1>8. Frames(gs)
    BY <1>1, <1>4, <1>6, <1>7 DEF Frames
  <1> QED
    BY <1>3, <1>8
-----------------------------------------------------------------------------
(* The invariant *)

\* The lexer l goes with the meaning m of the text and with the runes s of
\* the tokens that were got.
InTouch(l, m, s) ==
  /\ l \in LexerRecord /\ Len(l.tokens) <= 2 /\ m \in Meant /\ s \in Seq(Rune)
  /\ ~l.failed /\ ~l.finished => InStep(l, m)
  /\ ~l.failed /\ ~m.chars => s \o Pending(l) = m.out

IInv ==
  /\ InTouch(lexer, meant, spelled)
  /\ source \in Sources /\ word \in Seq(Rune)
  /\ Frames(frames)
  /\ want \in {"expression", "frame", "return"}
  /\ status \in {"reading", "done", "failed", "panicked"}
  /\ status = "reading" => ~lexer.failed

\* Nothing is lost by looking at the next token.
LEMMA PeekKeeps ==
  ASSUME IInv, status = "reading", want # "return", NEW p \in Peeked
  PROVE  /\ InTouch(p.lexer, meant, spelled) /\ ~p.lexer.failed
         /\ p.tok = TokenEnd \/ (p.tok \in Tok /\ p.lexer.tokens # <<>> /\ p.tok = Head(p.lexer.tokens))
  <1>1. /\ InTouch(lexer, meant, spelled) /\ ~lexer.failed
        /\ lexer \in LexerRecord /\ Len(lexer.tokens) <= 2 /\ meant \in Meant /\ spelled \in Seq(Rune)
    BY DEF IInv, InTouch
  <1>2. ASSUME NEW l \in LexerRecord, l.tokens # <<>>
        PROVE  Head(l.tokens) \in Tok
    BY <1>2, HeadTailProperties, EmptySeq DEF LexerRecord
  <1>3. CASE lexer.finished
    <2>1. p = Peek(TokenEnd, lexer)
      BY <1>3 DEF Peeked, NeedsRunes
    <2> QED
      BY <1>1, <2>1 DEF Peek
  <1>4. CASE ~lexer.finished /\ lexer.tokens = <<>>
    <2>1. NeedsRunes
      BY <1>4 DEF NeedsRunes
    <2>2. ~dumpBuffer(lexer).failed /\ p = Peek(IF lexer.buffer = <<>> THEN TokenEnd ELSE Head(Finish(lexer).tokens), Finish(lexer))
      BY <1>4, <2>1 DEF Peeked
    <2>3. PICK n : n = Finish(lexer)
      OBVIOUS
    <2>4. Ready(lexer) /\ InStep(lexer, meant)
      BY <1>1, <1>4 DEF Ready, InTouch
    <2>5. /\ n \in LexerRecord /\ Len(n.tokens) <= 2 /\ n.finished /\ ~n.failed
          /\ ~meant.chars => Pending(n) = Pending(lexer)
          /\ lexer.buffer # <<>> => n.tokens # <<>>
      BY <1>1, <2>2, <2>3, <2>4, Finished
    <2>6. InTouch(n, meant, spelled)
      BY <1>1, <2>5 DEF InTouch
    <2>7. p.lexer = n /\ p.tok = IF lexer.buffer = <<>> THEN TokenEnd ELSE Head(n.tokens)
      BY <2>2, <2>3 DEF Peek
    <2> QED
      BY <1>2, <2>5, <2>6, <2>7
  <1>5. CASE ~lexer.finished /\ lexer.tokens # <<>>
    <2>1. p = Peek(Head(lexer.tokens), lexer)
      BY <1>5 DEF Peeked, NeedsRunes
    <2> QED
      BY <1>1, <1>2, <1>5, <2>1 DEF Peek
  <1> QED
    BY <1>3, <1>4, <1>5

\* Nor by getting it.
LEMMA GetKeeps ==
  ASSUME IInv, status = "reading", want # "return", NEW p \in Peeked, Get(p) \/ Keep(p), UNCHANGED meant
  PROVE  InTouch(lexer', meant', spelled') /\ ~lexer'.failed
  <1>1. /\ InTouch(p.lexer, meant, spelled) /\ ~p.lexer.failed
        /\ p.tok = TokenEnd \/ (p.tok \in Tok /\ p.lexer.tokens # <<>> /\ p.tok = Head(p.lexer.tokens))
    BY PeekKeeps
  <1>2. CASE Keep(p)
    BY <1>1, <1>2 DEF Keep
  <1>3. CASE p.tok # TokenEnd /\ lexer' = [p.lexer EXCEPT !.tokens = Tail(@)] /\ spelled' = spelled \o Spelled(p.tok)
    <2>1. PICK l, n, t : l = p.lexer /\ n = lexer' /\ t = Spelled(p.tok)
      OBVIOUS
    <2>2. l \in LexerRecord /\ Len(l.tokens) <= 2 /\ l.tokens # <<>> /\ n = [l EXCEPT !.tokens = Tail(@)]
      BY <1>1, <1>3, <2>1 DEF InTouch
    <2>3. /\ n \in LexerRecord /\ Len(n.tokens) <= 2 /\ n.state = l.state /\ n.buffer = l.buffer
          /\ n.failed = l.failed /\ n.finished = l.finished
          /\ Spelled(Head(l.tokens)) \in Seq(Rune) /\ Pending(n) \in Seq(Rune)
          /\ Pending(l) = Spelled(Head(l.tokens)) \o Pending(n)
      BY <2>2, TokenTaken, Zenon
    <2>4. t \in Seq(Rune) /\ Pending(l) = t \o Pending(n) /\ ~n.failed /\ spelled \in Seq(Rune) /\ spelled' = spelled \o t
      BY <1>1, <1>3, <2>1, <2>3 DEF InTouch
    <2>5. spelled' \in Seq(Rune)
      BY <2>4, ConcatProperties
    <2>6. spelled' \o Pending(n) = spelled \o Pending(l)
      <3>1. PICK u, v : u = Pending(n) /\ v = spelled
        OBVIOUS
      <3>2. t \in Seq(Rune) /\ u \in Seq(Rune) /\ v \in Seq(Rune)
        BY <2>3, <2>4, <3>1, Zenon
      <3>3. (v \o t) \o u = v \o (t \o u)
        BY ONLY <3>2, ConcatAssociative
      <3> QED
        BY <2>4, <3>1, <3>3, Zenon
    <2>7. ~n.finished => InStep(n, meant)
      BY <1>1, <2>1, <2>3 DEF InTouch, InStep
    <2>8. ~meant.chars => spelled' \o Pending(n) = meant.out
      BY <1>1, <2>1, <2>6 DEF InTouch
    <2>9. meant \in Meant /\ meant' = meant
      BY <1>1 DEF InTouch
    <2>10. InTouch(n, meant', spelled')
      BY <2>3, <2>5, <2>7, <2>8, <2>9 DEF InTouch
    <2> QED
      BY <2>1, <2>4, <2>10
  <1> QED
    BY <1>2, <1>3 DEF Get
-----------------------------------------------------------------------------
(* Init and the steps *)

LEMMA Initially ==
  ASSUME Init
  PROVE  IInv
  <1>1. <<>> \in Seq(Rune) /\ <<>> \in Seq(Tok) /\ Len(<<>>) <= 2
    BY Nothing
  <1>2. lexer = NewLexer /\ meant = NothingMeant /\ spelled = <<>>
    BY DEF Init
  <1>3. /\ lexer \in LexerRecord /\ lexer.tokens = <<>> /\ lexer.state = "normal" /\ lexer.buffer = <<>>
        /\ ~lexer.failed
    BY <1>1, <1>2 DEF NewLexer, LexerRecord, States
  <1>4. meant \in Meant /\ meant.in = "code" /\ meant.out = <<>>
    BY <1>1, <1>2 DEF NothingMeant, Meant, Counterpart
  <1>5. InStep(lexer, meant)
    BY <1>3, <1>4 DEF InStep, Counterpart, ToSet
  <1>6. Pending(lexer) = <<>> /\ <<>> \o <<>> = <<>>
    BY <1>3, PendingIs
  <1>7. InTouch(lexer, meant, spelled)
    BY <1>1, <1>2, <1>3, <1>4, <1>5, <1>6 DEF InTouch
  <1>8. Frames(frames)
    <2>1. PICK f : f = Frame("top")
      OBVIOUS
    <2>2. Proper(f) /\ f.k = "top"
      BY <2>1 DEF Frame, Proper, FrameKinds, FrameStages
    <2>3. PICK fs : fs = <<f>>
      OBVIOUS
    <2>4. fs \in Seq({f}) /\ fs # <<>> /\ Len(fs) = 1 /\ fs[1] = f
      BY <2>3
    <2>5. 2 .. Len(fs) = {} /\ \A e \in {f} : Proper(e)
      BY <2>2, <2>4
    <2>6. Frames(fs)
      BY <2>2, <2>4, <2>5 DEF Frames
    <2> QED
      BY <2>1, <2>3, <2>6 DEF Init
  <1> QED
    BY <1>1, <1>3, <1>7, <1>8 DEF Init, IInv

\* A rune is read: by what LexNextRune does to every lexer.
LEMMA RuneRead ==
  ASSUME IInv, ReadRune
  PROVE  IInv'
  <1>1. /\ InTouch(lexer, meant, spelled) /\ source \in Sources /\ word \in Seq(Rune) /\ Frames(frames)
        /\ want \in {"expression", "frame", "return"} /\ status = "reading" /\ ~lexer.failed
        /\ lexer \in LexerRecord /\ meant \in Meant /\ spelled \in Seq(Rune)
        /\ ~lexer.finished /\ lexer.tokens = <<>>
    BY DEF IInv, InTouch, ReadRune, NeedsRunes
  <1>2. Ready(lexer) /\ InStep(lexer, meant)
    BY <1>1 DEF Ready, InTouch
  <1>3. PICK w : /\ w \in IF word # <<>> THEN {word} ELSE IF count < source.most THEN source.words ELSE {}
                 /\ word' = Tail(w) /\ meant' = Meaning(meant, Head(w))
                 /\ lexer' = LexNextRune(lexer, Head(w))
    BY DEF ReadRune
  <1>4. w \in Seq(Rune) /\ w # <<>>
    <2>1. CASE word # <<>>
      BY <1>1, <1>3, <2>1
    <2>2. CASE word = <<>>
      <3>1. w \in source.words
        BY <1>3, <2>2
      <3>2. w \in Seq(ToSet(w)) \ {<<>>}
        BY <1>1, <3>1, ParserAssumption
      <3>3. ToSet(w) \subseteq Rune
        BY <1>1, <3>1 DEF Rune
      <3> QED
        BY <3>2, <3>3, SeqMonotonic
    <2> QED
      BY <2>1, <2>2
  <1>5. PICK r : r = Head(w)
    OBVIOUS
  <1>6. r \in Rune /\ word' \in Seq(Rune)
    BY <1>3, <1>4, <1>5, HeadTailProperties, EmptySeq
  <1>7. Lexed(lexer, lexer', meant, meant') /\ meant' \in Meant
    BY <1>1, <1>2, <1>3, <1>5, <1>6, LexedRune
  <1>8. spelled' = spelled /\ source' = source /\ frames' = frames /\ want' = want
        /\ status' = IF lexer'.failed THEN "failed" ELSE status
    BY DEF ReadRune
  <1>9. InTouch(lexer', meant', spelled')
    <2>1. lexer' \in LexerRecord /\ Len(lexer'.tokens) <= 2 /\ (~lexer'.failed => InStep(lexer', meant'))
      BY <1>7 DEF Lexed
    <2>2. ASSUME ~lexer'.failed, ~meant'.chars
          PROVE  spelled \o Pending(lexer') = meant'.out
      <3>1. ~meant.chars /\ \E t \in Seq(Rune) : meant'.out = meant.out \o t /\ Pending(lexer') = Pending(lexer) \o t
        BY <1>7, <2>2 DEF Lexed
      <3>2. PICK t \in Seq(Rune) : meant'.out = meant.out \o t /\ Pending(lexer') = Pending(lexer) \o t
        BY <3>1
      <3>3. spelled \o Pending(lexer) = meant.out
        BY <1>1, <3>1 DEF InTouch
      <3>4. PICK u, v : u = Pending(lexer) /\ v = spelled
        OBVIOUS
      <3>5. u \in Seq(Rune) /\ v \in Seq(Rune)
        <4>1. Pending(lexer) \in Seq(Rune)
          <5>1. /\ Pending(lexer) = <<>> \o lexer.buffer \o Tilde(lexer)
                /\ lexer.buffer \in Seq(Rune) /\ Tilde(lexer) \in Seq(Rune) /\ <<>> \in Seq(Rune)
            BY <1>1, PendingForms, Nothing
          <5>2. PICK b, c : b = lexer.buffer /\ c = Tilde(lexer)
            OBVIOUS
          <5>3. <<>> \o b \o c \in Seq(Rune)
            BY <5>1, <5>2, Regrouped
          <5> QED
            BY <5>1, <5>2, <5>3, Zenon
        <4> QED
          BY <1>1, <3>4, <4>1
      <3>6. (v \o u) \o t = v \o (u \o t)
        BY ONLY <3>5, ConcatAssociative
      <3> QED
        BY <3>2, <3>3, <3>4, <3>6, Zenon
    <2> QED
      BY <1>1, <1>7, <1>8, <2>1, <2>2 DEF InTouch
  <1> QED
    BY <1>1, <1>6, <1>8, <1>9 DEF IInv

LEMMA NewFrame ==
  ASSUME NEW k \in FrameKinds
  PROVE  Proper(Frame(k)) /\ Frame(k).k = k
  BY DEF Proper, Frame, FrameStages

\* What a step of the parser has to show once the lexer is seen to.
LEMMA ParserKeeps ==
  ASSUME IInv, status = "reading", UNCHANGED stream,
         InTouch(lexer', meant', spelled'), ~lexer'.failed, Frames(frames'),
         want' \in {"expression", "frame", "return"}, status' \in {"reading", "done", "failed", "panicked"}
  PROVE  IInv'
  BY DEF IInv, stream

\* The steps of the parser.
LEMMA ExpressionParsed ==
  ASSUME IInv, ParseExpression
  PROVE  IInv'
  <1>1. /\ status = "reading" /\ want = "expression" /\ UNCHANGED stream /\ meant' = meant /\ Frames(frames)
        /\ want \in {"expression", "frame", "return"} /\ status \in {"reading", "done", "failed", "panicked"}
    BY DEF ParseExpression, IInv
  <1>2. PICK p \in Peeked : Get(p) /\ Expression(p.tok)
    BY DEF ParseExpression
  <1>3. InTouch(lexer', meant', spelled') /\ ~lexer'.failed
    BY <1>1, <1>2, GetKeeps
  <1>4. CASE p.tok.typ \in DOMAIN Openers /\ Push(Openers[p.tok.typ]) /\ Ask("frame")
    <2>1. PICK k : k = Openers[p.tok.typ]
      OBVIOUS
    <2>2. k \in FrameKinds /\ k # "top"
      BY <1>4, <2>1 DEF Openers, FrameKinds
    <2>3. Frames(frames')
      BY <1>1, <1>4, <2>1, <2>2, NewFrame, FramePushed DEF Push
    <2> QED
      BY <1>1, <1>3, <1>4, <2>3, ParserKeeps DEF Ask
  <1>5. CASE p.tok.typ \in Quotes /\ Push(p.tok.typ) /\ Ask("expression")
    <2>1. PICK k : k = p.tok.typ
      OBVIOUS
    <2>2. k \in FrameKinds /\ k # "top"
      BY <1>5, <2>1 DEF Quotes, FrameKinds
    <2>3. Frames(frames')
      BY <1>1, <1>5, <2>1, <2>2, NewFrame, FramePushed DEF Push
    <2> QED
      BY <1>1, <1>3, <1>5, <2>3, ParserKeeps DEF Ask
  <1>6. CASE (\E v : Return(v)) /\ UNCHANGED frames
    BY <1>1, <1>3, <1>6, ParserKeeps DEF Return
  <1>7. CASE Stop("failed")
    BY <1>1, <1>3, <1>7, ParserKeeps DEF Stop
  <1> QED
    BY <1>2, <1>4, <1>5, <1>6, <1>7 DEF Expression

LEMMA ForFrameFacts ==
  ASSUME IInv, NEW k, ForFrame(k)
  PROVE  /\ status = "reading" /\ want = "frame" /\ Top.k = k /\ Frames(frames) /\ Top = Last(frames)
         /\ Proper(Top)
         /\ want \in {"expression", "frame", "return"} /\ status \in {"reading", "done", "failed", "panicked"}
  BY FramesTyped DEF ForFrame, IInv, Top

LEMMA ListElementRead ==
  ASSUME IInv, ListElement
  PROVE  IInv'
  <1>1. /\ status = "reading" /\ want = "frame" /\ Top.k = "list" /\ Frames(frames) /\ Top = Last(frames)
        /\ Proper(Top) /\ UNCHANGED stream /\ meant' = meant
    BY ForFrameFacts DEF ListElement
  <1>2. PICK p \in Peeked :
          \/ p.tok = TokenEnd /\ Keep(p) /\ Stop("failed")
          \/ p.tok.typ = ")" /\ Get(p) /\ Leave(Chain(Top.xs, Null))
          \/ /\ p.tok # TokenEnd /\ p.tok.typ # ")"
             /\ Keep(p) /\ Become([Top EXCEPT !.at = "element"]) /\ Ask("expression")
    BY DEF ListElement
  <1>3. InTouch(lexer', meant', spelled') /\ ~lexer'.failed
    BY <1>1, <1>2, GetKeeps
  <1>4. CASE Stop("failed")
    BY <1>1, <1>3, <1>4, ParserKeeps DEF Stop
  <1>5. CASE \E v : Leave(v)
    BY <1>1, <1>3, <1>5, FramePopped, ParserKeeps DEF Leave, Return
  <1>6. CASE Become([Top EXCEPT !.at = "element"]) /\ Ask("expression")
    <2>1. PICK f : f = [Top EXCEPT !.at = "element"]
      OBVIOUS
    <2>2. Proper(f) /\ f.k = Top.k
      BY <1>1, <2>1 DEF Proper, FrameStages
    <2> QED
      BY <1>1, <1>3, <1>6, <2>1, <2>2, FrameReplaced, ParserKeeps DEF Become, Ask
  <1> QED
    BY <1>2, <1>4, <1>5, <1>6

LEMMA ListDotRead ==
  ASSUME IInv, ListDot
  PROVE  IInv'
  <1>1. /\ status = "reading" /\ want = "frame" /\ Top.k = "list" /\ Frames(frames) /\ Top = Last(frames)
        /\ Proper(Top) /\ UNCHANGED stream /\ meant' = meant
    BY ForFrameFacts DEF ListDot
  <1>2. PICK p \in Peeked :
          \/ p.tok.typ = "dot" /\ Get(p) /\ Become([Top EXCEPT !.at = "tail"]) /\ Ask("expression")
          \/ p.tok.typ # "dot" /\ Keep(p) /\ Become([Top EXCEPT !.at = "open"]) /\ Ask("frame")
    BY DEF ListDot
  <1>3. InTouch(lexer', meant', spelled') /\ ~lexer'.failed
    BY <1>1, <1>2, GetKeeps
  <1>4. PICK at \in {"tail", "open"} : Become([Top EXCEPT !.at = at]) /\ (Ask("expression") \/ Ask("frame"))
    BY <1>2
  <1>5. PICK f : f = [Top EXCEPT !.at = at]
    OBVIOUS
  <1>6. Proper(f) /\ f.k = Top.k
    BY <1>1, <1>4, <1>5 DEF Proper, FrameStages
  <1> QED
    BY <1>1, <1>3, <1>4, <1>5, <1>6, FrameReplaced, ParserKeeps DEF Become, Ask

LEMMA ListClosed ==
  ASSUME IInv, ListClose
  PROVE  IInv'
  <1>1. /\ status = "reading" /\ want = "frame" /\ Top.k = "list" /\ Frames(frames) /\ Top = Last(frames)
        /\ UNCHANGED stream /\ meant' = meant
    BY ForFrameFacts DEF ListClose
  <1>2. PICK p \in Peeked : Get(p) /\ (Stop("failed") \/ \E v : Leave(v))
    BY DEF ListClose
  <1>3. InTouch(lexer', meant', spelled') /\ ~lexer'.failed
    BY <1>1, <1>2, GetKeeps
  <1>4. CASE Stop("failed")
    BY <1>1, <1>3, <1>4, ParserKeeps DEF Stop
  <1>5. CASE \E v : Leave(v)
    BY <1>1, <1>3, <1>5, FramePopped, ParserKeeps DEF Leave, Return
  <1> QED
    BY <1>2, <1>4, <1>5

LEMMA ElementsRead ==
  ASSUME IInv, NEW k \in {"array", "hash"}, NEW closer, NEW v, Elements(k, closer, v)
  PROVE  IInv'
  <1>1. /\ status = "reading" /\ want = "frame" /\ Top.k = k /\ Frames(frames) /\ Top = Last(frames)
        /\ UNCHANGED stream /\ meant' = meant
    BY ForFrameFacts DEF Elements
  <1>2. PICK p \in Peeked :
          \/ p.tok = TokenEnd /\ Keep(p) /\ Stop("failed")
          \/ p.tok.typ = closer /\ Get(p) /\ Leave(v)
          \/ p.tok # TokenEnd /\ p.tok.typ # closer /\ Keep(p) /\ Ask("expression") /\ UNCHANGED frames
    BY DEF Elements
  <1>3. InTouch(lexer', meant', spelled') /\ ~lexer'.failed
    BY <1>1, <1>2, GetKeeps
  <1>4. CASE Stop("failed")
    BY <1>1, <1>3, <1>4, ParserKeeps DEF Stop
  <1>5. CASE Leave(v)
    BY <1>1, <1>3, <1>5, FramePopped, ParserKeeps DEF Leave, Return
  <1>6. CASE Ask("expression") /\ UNCHANGED frames
    BY <1>1, <1>3, <1>6, ParserKeeps DEF Ask
  <1> QED
    BY <1>2, <1>4, <1>5, <1>6

\* The steps that leave the lexer alone.
LEMMA LexerAside ==
  ASSUME IInv, UNCHANGED <<lexer, meant, spelled>>
  PROVE  InTouch(lexer', meant', spelled')
  BY DEF IInv

LEMMA ElementReturned ==
  ASSUME IInv, ReturnElement
  PROVE  IInv'
  <1>1. /\ status = "reading" /\ Frames(frames) /\ Top = Last(frames) /\ Proper(Top) /\ ~lexer.failed
    BY FramesTyped DEF ReturnElement, Returning, IInv, Top
  <1>2. InTouch(lexer', meant', spelled') /\ ~lexer'.failed /\ UNCHANGED stream
    BY <1>1, LexerAside DEF ReturnElement
  <1>3. PICK f : f = IF Top.at = "tail" THEN [Top EXCEPT !.at = "close", !.tail = value] ELSE Add
    OBVIOUS
  <1>4. Become(f) /\ Ask("frame")
    BY <1>3 DEF ReturnElement
  <1>5. Proper(f) /\ f.k = Top.k
    BY <1>1, <1>3 DEF Proper, FrameStages, Add
  <1> QED
    BY <1>1, <1>2, <1>4, <1>5, FrameReplaced, ParserKeeps DEF Become, Ask

LEMMA QuotedReturned ==
  ASSUME IInv, ReturnQuoted
  PROVE  IInv'
  <1>1. /\ status = "reading" /\ Frames(frames) /\ Top = Last(frames) /\ Top.k # "top" /\ ~lexer.failed
    BY DEF ReturnQuoted, Returning, IInv, Top, Quotes
  <1>2. InTouch(lexer', meant', spelled') /\ ~lexer'.failed /\ UNCHANGED stream
    BY <1>1, LexerAside DEF ReturnQuoted
  <1>3. \E v : Leave(v)
    BY DEF ReturnQuoted
  <1> QED
    BY <1>1, <1>2, <1>3, FramePopped, ParserKeeps DEF Leave, Return

LEMMA TopReturned ==
  ASSUME IInv, ReturnTop
  PROVE  IInv'
  <1>1. /\ status = "reading" /\ Frames(frames) /\ Top = Last(frames) /\ Proper(Top) /\ ~lexer.failed
        /\ want = "return"
    BY FramesTyped DEF ReturnTop, Returning, IInv, Top
  <1>2. InTouch(lexer', meant', spelled') /\ ~lexer'.failed /\ UNCHANGED stream
    BY <1>1, LexerAside DEF ReturnTop
  <1>3. CASE Stop("done")
    BY <1>1, <1>2, <1>3, ParserKeeps DEF Stop
  <1>4. CASE Become(Add) /\ Ask("expression")
    <2>1. PICK f : f = Add
      OBVIOUS
    <2>2. Proper(f) /\ f.k = Top.k
      BY <1>1, <2>1 DEF Proper, Add
    <2> QED
      BY <1>1, <1>2, <1>4, <2>1, <2>2, FrameReplaced, ParserKeeps DEF Become, Ask
  <1> QED
    BY <1>3, <1>4 DEF ReturnTop

LEMMA EndPanicked ==
  ASSUME IInv, ReadEndPanics
  PROVE  IInv'
  <1>1. status = "reading" /\ ~lexer.failed /\ Frames(frames) /\ want \in {"expression", "frame", "return"}
    BY DEF ReadEndPanics, AtEnd, NeedsRunes, IInv
  <1>2. InTouch(lexer', meant', spelled') /\ ~lexer'.failed /\ UNCHANGED stream
    BY <1>1, LexerAside DEF ReadEndPanics
  <1> QED
    BY <1>1, <1>2, ParserKeeps DEF ReadEndPanics

\* Every step keeps the invariant.
LEMMA Kept ==
  ASSUME IInv, [Next]_vars
  PROVE  IInv'
  <1>1. CASE ReadRune
    BY <1>1, RuneRead
  <1>2. CASE ParserStep
    BY <1>2, EndPanicked, ExpressionParsed, ListElementRead, ListDotRead, ListClosed, ElementsRead,
       ElementReturned, QuotedReturned, TopReturned
       DEF ParserStep, ArrayElement, HashElement
  <1>3. CASE UNCHANGED vars
    BY <1>3 DEF IInv, vars, stream
  <1> QED
    BY <1>1, <1>2, <1>3 DEF Next

\* The parser's state has its type: the stack of expressions has the text at
\* its bottom and nowhere else, and a token that cannot be decoded is never
\* queued (ParseExpression, dumpBuffer).
THEOREM TypeCorrect == Spec => []TypeOK
  <1>1. IInv => TypeOK
    <2>1. ASSUME IInv PROVE TypeOK
      <3>1. /\ lexer \in LexerRecord /\ Len(lexer.tokens) <= 2 /\ Frames(frames)
            /\ want \in {"expression", "frame", "return"}
            /\ status \in {"reading", "done", "failed", "panicked"}
        BY <2>1 DEF IInv, InTouch
      <3>2. lexer.state \in {"normal", "comment", "string", "escaped", "unquote"} /\ lexer.linenum >= 1
        BY <3>1 DEF LexerRecord, States
      <3>3. \A i \in DOMAIN lexer.tokens : lexer.tokens[i] # Undecodable
        <4>1. lexer.tokens \in Seq(Tok)
          BY <3>1 DEF LexerRecord
        <4>2. Undecodable \notin Tok
          BY DEF Undecodable, Token, Tok, TokenType, Brace
        <4> QED
          BY <4>1, <4>2, LenProperties, ElementOfSeq
      <3>4. FrameKinds \ {"top"} \subseteq {"list", "array", "hash"} \cup Quotes
        BY DEF FrameKinds
      <3> QED
        BY <3>1, <3>2, <3>3, <3>4, FramesTyped DEF TypeOK, FrameStages
    <2> QED
      BY <2>1
  <1> QED
    BY <1>1, Initially, Kept, PTL DEF Spec

\* What the parser got, what is queued and what is in the buffer are the runes
\* that were read and mean something, in their order, for texts of any length
\* (LexNextRune, dumpBuffer, PeekNextToken, GetNextToken).
THEOREM LexingLosesNothing == Spec => []NothingLostInLexing
  <1>1. IInv => NothingLostInLexing
    BY DEF IInv, InTouch, NothingLostInLexing
  <1> QED
    BY <1>1, Initially, Kept, PTL DEF Spec
=============================================================================
