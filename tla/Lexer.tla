-------------------------------- MODULE Lexer --------------------------------
(***************************************************************************)
(* The lexer (tinox-lexer): one step is one round of tokenize's loop, which *)
(* calls next_token.  src is the source as a sequence of characters; p, q   *)
(* are positions in it counted from 1.  A token keeps its kind, its first   *)
(* position, the position after it, its line and its column.                *)
(***************************************************************************)
EXTENDS Naturals, Sequences, FiniteSets, FiniteSetsExt

CONSTANTS Sources,     \* the source texts
          MaxInt       \* the largest value of an integer literal (i64::MAX)

VARIABLES src, pos, line, column, tokens, errors, done
lvars == <<src, pos, line, column, tokens, errors, done>>

Digits    == {"0", "1", "2", "3", "4", "5", "6", "7", "8", "9"}
HexLetters == {"a", "b", "c", "d", "e", "f"}
Letters   == HexLetters \cup {"g", "h", "i", "n", "o", "r", "s", "t", "u", "x", "z"}
IdentPart == Letters \cup Digits \cup {"_"}
Value(c)  == CHOOSE n \in 0..15 :
                <<"0","1","2","3","4","5","6","7","8","9","a","b","c","d","e","f">>[n + 1] = c

peek(p) == IF p <= Len(src) THEN src[p] ELSE "eof"

(* The first position from p on whose character is not in S. *)
Skip(p, S) == Min({q \in p..Len(src) + 1 : q = Len(src) + 1 \/ src[q] \notin S})
Newlines(p, q) == Cardinality({i \in p..q - 1 : i <= Len(src) /\ src[i] = "\n"})

(* The outcome of one of next_token's readers: where it stops, what it made,
   and the line and column it leaves behind. *)
Tok(kind, q)  == [ok |-> TRUE, kind |-> kind, pos |-> q, line |-> line,
                  column |-> column + (q - pos), value |-> 0]
Err(q)        == [Tok(<<"error">>, q) EXCEPT !.ok = FALSE]

(* mutant: newlines inside a token are not counted *)
MultilineFlat(kind, q) == Tok(kind, q)

(* A reader that counts lines: after a newline the column restarts. *)
Multiline(kind, q) ==
    LET last == Max({pos} \cup {i \in pos..q - 1 : src[i] = "\n"})
    IN  IF Newlines(pos, q) = 0 THEN Tok(kind, q)
        ELSE [Tok(kind, q) EXCEPT !.line = @ + Newlines(pos, q), !.column = q - last]
-----------------------------------------------------------------------------
(* Operators and punctuation: spelling -> token.  "!?" and ":=" are spellings
   of their own in the code. *)
ArithmeticOps ==
    [s \in {<<"+">>, <<"+","+">>, <<"+","=">>, <<"-">>, <<"-","-">>, <<"-","=">>, <<"-",">">>,
            <<"*">>, <<"*","=">>, <<"/">>, <<"/","=">>, <<"%">>, <<"%","=">>} |->
        IF s = <<"-", ">">> THEN <<"ThinArrow">> ELSE s]
CompareOps ==
    [s \in {<<"=">>, <<"=","=">>, <<"=",">">>, <<"!">>, <<"!","=">>, <<"!","?">>,
            <<"<">>, <<"<","=">>, <<"<","<">>, <<"<","<","=">>, <<">">>, <<">","=">>, <<">",">">>,
            <<">",">",">">>, <<">",">",">","=">>, <<">",">","=">>} |->
        CASE s = <<"=", ">">> -> <<"FatArrow">>
          [] s = <<"!", "?">> -> <<"QuestionQuestion">>
          [] OTHER -> s]
BitOps ==
    [s \in {<<"&">>, <<"&","&">>, <<"&","=">>, <<"|">>, <<"|","|">>, <<"|","=">>,
            <<"^">>, <<"^","=">>, <<"~">>} |-> s]
Punctuation ==
    [s \in {<<".">>, <<".",".">>, <<".",".",".">>, <<":">>, <<":",":">>, <<":","=">>, <<"?">>,
            <<"?","?">>, <<"?",":">>} \cup {<<c>> : c \in {"\\", ";", ",", "@", "(", ")", "{", "}", "[", "]"}} |->
        CASE s = <<":", "=">> -> <<"FatArrow">>
          [] s = <<"?", "?">> -> <<"QuestionQuestion">>
          [] OTHER -> s]

Spellings == DOMAIN ArithmeticOps \cup DOMAIN CompareOps \cup DOMAIN BitOps \cup DOMAIN Punctuation
Kind(s) == CASE s \in DOMAIN ArithmeticOps -> ArithmeticOps[s]
             [] s \in DOMAIN CompareOps -> CompareOps[s]
             [] s \in DOMAIN BitOps -> BitOps[s]
             [] OTHER -> Punctuation[s]

At(s, p) == p + Len(s) - 1 <= Len(src) /\ \A i \in 1..Len(s) : src[p + i - 1] = s[i]

(* The readers of operators look one character ahead at a time and stop at
   the first that does not continue the spelling. *)
read_op(p) ==
    LET len == Max({0} \cup {n \in 1..4 : \A k \in 1..n : \E s \in Spellings : Len(s) = k /\ At(s, p)})
    IN  Tok(Kind(SubSeq(src, p, p + len - 1)), p + len)
-----------------------------------------------------------------------------
read_line_comment(p) == Tok(<<"trivia">>, Min({q \in p..Len(src) + 1 : q = Len(src) + 1 \/ src[q] = "\n"}))

(* mutant: takes one character more than the closing mark *)
read_block_comment_long(p) ==
    LET doc   == peek(p + 2) = "*"
        from  == IF doc THEN p + 3 ELSE p + 2
        close == {q \in from..Len(src) : peek(q) = "*" /\ peek(q + 1) = "/"}
    IN  Multiline(IF doc THEN <<"DocComment">> ELSE <<"trivia">>,
                  IF close = {} THEN Max({from, Len(src) + 1}) ELSE Min({Len(src) + 1, Min(close) + 3}))

(* Up to the first closing mark, or to the end of the file. *)
read_block_comment(p) ==
    LET doc   == peek(p + 2) = "*"
        from  == IF doc THEN p + 3 ELSE p + 2
        close == {q \in from..Len(src) : peek(q) = "*" /\ peek(q + 1) = "/"}
        end   == IF close = {} THEN Max({from, Len(src) + 1}) ELSE Min(close) + 2
    IN  Multiline(IF doc THEN <<"DocComment">> ELSE <<"trivia">>, end)

(* An escape whose letter is at p: whether it is one, and where reading stops. *)
read_escape(p) ==
    LET hex(q)  == peek(q) \in Digits \cup HexLetters
        bad(q)  == [ok |-> FALSE, pos |-> q]
        good(q) == [ok |-> TRUE, pos |-> q]
        hexes(q, n) == Min({i \in q..q + n : i = q + n \/ ~hex(i)})   \* the first that is not one of n
    IN  CASE p > Len(src) -> bad(p)
          [] peek(p) \in {"n", "t", "r", "\\", "\"", "'", "0"} -> good(p + 1)
          [] peek(p) = "x" -> IF hexes(p + 1, 2) = p + 3 THEN good(p + 3) ELSE bad(hexes(p + 1, 2) + 1)
          [] peek(p) = "u" ->
                LET q == hexes(p + 2, 6)
                IN  CASE peek(p + 1) # "{" -> bad(p + 1)
                      [] peek(p + 1) = "{" /\ peek(q) = "}" -> good(q + 1)
                      [] OTHER -> bad(IF q = p + 8 THEN q ELSE q + 1)
          [] OTHER -> bad(p + 1)

(* The position after the brace that closes an interpolation opened before p. *)
RECURSIVE CloseInterp(_, _)
CloseInterp(p, depth) ==
    CASE p > Len(src) \/ depth = 0 -> p
      [] peek(p) = "{" -> CloseInterp(p + 1, depth + 1)
      [] peek(p) = "}" -> CloseInterp(p + 1, depth - 1)
      [] OTHER -> CloseInterp(p + 1, depth)

(* The body of a string: stops at its quote; a newline, the end of the file or
   a bad escape is an error.  Inside ${...} everything is taken as it is. *)
RECURSIVE StringBody(_, _)
StringBody(p, interp) ==
    CASE p > Len(src) -> Err(p)
      [] peek(p) = "\"" -> Tok(IF interp THEN <<"InterpString">> ELSE <<"String">>, p + 1)
      [] peek(p) = "\n" -> Err(p)
      [] peek(p) = "$" /\ peek(p + 1) = "{" -> StringBody(CloseInterp(p + 2, 1), TRUE)
      [] peek(p) = "\\" -> IF read_escape(p + 1).ok THEN StringBody(read_escape(p + 1).pos, interp)
                           ELSE Err(read_escape(p + 1).pos)
      [] OTHER -> StringBody(p + 1, interp)

read_string(p) == StringBody(p + 1, FALSE)

(* r"..." or r#"..."#: nothing is special but the quote with as many hashes. *)
read_raw_string(p) ==
    LET open   == Skip(p + 1, {"#"})
        hashes == open - (p + 1)
        closes == {q \in open + 1..Len(src) : peek(q) = "\"" /\
                     \A i \in 1..hashes : peek(q + i) = "#"}
    IN  CASE peek(open) # "\"" -> Err(open)
          [] closes = {} -> [Multiline(<<"error">>, Len(src) + 1) EXCEPT !.ok = FALSE]
          [] OTHER -> Multiline(<<"RawString">>, Min(closes) + hashes + 1)

(* A character or byte literal whose opening quote is at q. *)
read_char(q, kind) ==
    LET after == IF peek(q + 1) = "\\" THEN read_escape(q + 2).pos ELSE q + 2
    IN  CASE peek(q + 1) = "\\" /\ ~read_escape(q + 2).ok -> Err(after)
          [] peek(q + 1) = "'" -> Err(q + 1)
          [] peek(after) # "'" -> Err(after)
          [] OTHER -> Tok(kind, after + 1)
-----------------------------------------------------------------------------
RECURSIVE NumberIn(_, _, _, _)
NumberIn(p, q, base, acc) ==
    CASE p >= q -> acc
      [] src[p] = "_" -> NumberIn(p + 1, q, base, acc)
      [] OTHER -> NumberIn(p + 1, q, base, acc * base + Value(src[p]))

(* mutant: a literal that does not fit becomes 0, as it once did *)
IntegerLiteralZero(p, q, base) ==
    LET value == NumberIn(p, q, base, 0)
    IN  [Tok(<<"Integer">>, q) EXCEPT !.value = IF value > MaxInt THEN 0 ELSE value]

(* An integer of digits p..q-1; none, or more than MaxInt, is an error. *)
IntegerLiteral(p, q, base) ==
    LET value == NumberIn(p, q, base, 0)
    IN  IF (\A i \in p..q - 1 : src[i] = "_") \/ value > MaxInt THEN Err(q)
        ELSE [Tok(<<"Integer">>, q) EXCEPT !.value = value]

read_radix_int(p, base, digits) == IntegerLiteral(p + 2, Skip(p + 2, digits \cup {"_"}), base)

(* The length of a type suffix at q, which read_int_suffix steps over and then
   steps back from with its position but not with its column. *)
IntSuffix(q) ==
    LET two   == {<<"u","8">>, <<"i","8">>}
        three == {<<c>> \o n : c \in {"u", "i"}, n \in {<<"1","6">>, <<"3","2">>, <<"6","4">>}}
        four  == {<<"u","s","i","z">>, <<"i","s","i","z">>}
    IN  CASE \E s \in two : At(s, q) -> 2
          [] \E s \in three : At(s, q) -> 3
          [] \E s \in four : At(s, q) -> 4
          [] OTHER -> 0

(* An exponent is read after a fraction only. *)
FloatEnd(q) ==
    LET frac == Skip(q + 1, Digits \cup {"_"})
        sign == IF peek(frac + 1) \in {"+", "-"} THEN frac + 2 ELSE frac + 1
        exp  == IF peek(frac) = "e" THEN Skip(sign, Digits \cup {"_"}) ELSE frac
    IN  [num |-> exp,
         bad |-> peek(frac) = "e" /\ \A i \in sign..exp - 1 : src[i] = "_",
         end |-> IF At(<<"f","3","2">>, exp) \/ At(<<"f","6","4">>, exp) THEN exp + 3 ELSE exp]

read_number(p) ==
    LET q == Skip(p, Digits \cup {"_"})
        isFloat == /\ ~(p > 1 /\ src[p - 1] = ".")
                   /\ peek(q) = "." /\ peek(q + 1) \in Digits \cup {"_"}
    IN  CASE peek(p) = "0" /\ peek(p + 1) = "x" -> read_radix_int(p, 16, Digits \cup HexLetters)
          [] peek(p) = "0" /\ peek(p + 1) = "o" -> read_radix_int(p, 8, Digits \ {"8", "9"})
          [] peek(p) = "0" /\ peek(p + 1) = "b" -> read_radix_int(p, 2, {"0", "1"})
          [] peek(p) = "0" /\ peek(p + 1) \notin Digits \cup {".", "_", "x", "o", "b"} ->
                Tok(<<"Integer">>, p + 1)
          [] isFloat -> IF FloatEnd(q).bad THEN Err(FloatEnd(q).end)
                        ELSE Tok(<<"Float">>, FloatEnd(q).end)
          [] OTHER -> [IntegerLiteral(p, q, 10) EXCEPT !.column = @ + IntSuffix(q)]

(* Of the keywords, those the source texts can spell. *)
Keywords == {<<"i","f">>, <<"i","n">>, <<"a","s">>, <<"i","s">>, <<"f","n">>}

read_ident_or_keyword(p) ==
    LET q == Skip(p, IdentPart)
        word == SubSeq(src, p, q - 1)
    IN  Tok(CASE word = <<"_">> -> <<"Underscore">>
              [] word = <<"t","r","u","e">> -> <<"Bool">>
              [] word \in Keywords -> <<"Keyword">>
              [] OTHER -> <<"Ident">>, q)
-----------------------------------------------------------------------------
next_token(p) ==
    LET ch == peek(p)
    IN  CASE ch = "\n" -> [Tok(<<"trivia">>, p + 1) EXCEPT !.line = @ + 1, !.column = 1]
          [] ch \in {" ", "\t"} -> Tok(<<"trivia">>, p + 1)
          [] ch = "/" /\ peek(p + 1) = "/" -> read_line_comment(p)
          [] ch = "/" /\ peek(p + 1) = "*" -> read_block_comment(p)
          [] ch = "\"" -> read_string(p)
          [] ch = "r" /\ (peek(p + 1) = "\"" \/ (peek(p + 1) = "#" /\ peek(p + 2) = "\"")) ->
                read_raw_string(p)
          [] ch = "'" -> read_char(p, <<"Char">>)
          [] ch \in Digits -> read_number(p)
          [] ch = "b" /\ peek(p + 1) = "'" -> read_char(p + 1, <<"Byte">>)
          [] ch \in Letters \cup {"_"} -> read_ident_or_keyword(p)
          [] \E s \in Spellings : At(s, p) -> read_op(p)
          [] OTHER -> Err(p + 1)

Init ==
    /\ src \in Sources
    /\ pos = 1 /\ line = 1 /\ column = 1
    /\ tokens = <<>> /\ errors = <<>> /\ done = FALSE

(* mutant: an error is tried again from where it was met *)
tokenize_stuck ==
    /\ ~done
    /\ IF pos > Len(src)
       THEN done' = TRUE /\ UNCHANGED <<pos, line, column, tokens, errors>>
       ELSE \E t \in {next_token(pos)} :
                /\ t.ok /\ pos' = t.pos
                /\ line' = t.line /\ column' = t.column
                /\ UNCHANGED <<tokens, errors, done>>
    /\ UNCHANGED src

(* One round of tokenize's loop: trivia is dropped; after an error one more
   character is skipped, without its column and line. *)
tokenize ==
    /\ ~done
    /\ IF pos > Len(src)
       THEN done' = TRUE /\ UNCHANGED <<pos, line, column, tokens, errors>>
       ELSE \E t \in {next_token(pos)} :
            LET bad == ~t.ok
            IN  /\ pos' = IF bad THEN t.pos + 1 ELSE t.pos
                /\ line' = t.line /\ column' = t.column
                /\ errors' = IF bad THEN Append(errors, t.line) ELSE errors
                /\ tokens' = IF bad \/ t.kind = <<"trivia">> THEN tokens
                             ELSE Append(tokens, [kind |-> t.kind, from |-> pos, to |-> t.pos,
                                                  line |-> t.line, column |-> column,
                                                  value |-> t.value])
                /\ UNCHANGED done
    /\ UNCHANGED src

Next == tokenize
Spec == Init /\ [][Next]_lvars /\ WF_lvars(Next)
-----------------------------------------------------------------------------
(* The texts for which the code's positions can be exact: up to token k there
   is no newline inside ${...} or a quoted character (those readers count
   columns only), and no integer directly followed by a type suffix (stepping
   back from it leaves the column behind). *)
Counted(k) ==
    \A j \in 1..k : LET t == tokens[j] IN
        /\ t.kind \in {<<"InterpString">>, <<"Char">>, <<"Byte">>} => Newlines(t.from, t.to) = 0
        /\ t.kind = <<"Integer">> => IntSuffix(t.to) = 0

(* Every token knows its place: its line is that of its last character and its
   column that of its first, whatever strings, comments and newlines came
   before it.  Diagnostics and the editor rely on both. *)
PositionsExact ==
    errors = <<>> => \A k \in 1..Len(tokens) : LET t == tokens[k] IN
        Counted(k) =>
            /\ t.line = 1 + Newlines(1, t.to)
            /\ t.column = t.from - Max({0} \cup {i \in 1..t.from - 1 : src[i] = "\n"})

(* What may lie between two tokens: blanks and whole comments. *)
RECURSIVE IsTrivia(_, _)
IsTrivia(p, q) ==
    CASE p >= q -> p = q
      [] src[p] \in {" ", "\t", "\n"} -> IsTrivia(p + 1, q)
      [] At(<<"/", "/">>, p) ->
            IsTrivia(Min({q} \cup {i \in p..q - 1 : src[i] = "\n"}), q)
      [] At(<<"/", "*">>, p) ->
            LET close == {i \in p + 2..q - 2 : At(<<"*", "/">>, i)}
            IN  IF close = {} THEN q = Len(src) + 1 ELSE IsTrivia(Min(close) + 2, q)
      [] OTHER -> FALSE

(* No character is lost or read twice: without an error the tokens are in
   order, none is empty, and all that lies between them is trivia. *)
TokensTile ==
    errors = <<>> =>
        LET from(k) == IF k > Len(tokens) THEN pos ELSE tokens[k].from
            to(k)   == IF k = 0 THEN 1 ELSE tokens[k].to
        IN  /\ \A k \in 1..Len(tokens) : from(k) < to(k)
            /\ \A k \in 1..Len(tokens) : IsTrivia(to(k - 1), from(k))
            /\ done => IsTrivia(to(Len(tokens)), Len(src) + 1)

(* An integer token stands for the number its digits spell in its base; a
   number that does not fit is an error, never another number. *)
IntegersExact ==
    \A k \in 1..Len(tokens) : tokens[k].kind = <<"Integer">> =>
        LET t == tokens[k]
            radix == t.to > t.from + 1 /\ src[t.from] = "0" /\ src[t.from + 1] \in {"x", "o", "b"}
            base == IF ~radix THEN 10
                    ELSE CASE src[t.from + 1] = "x" -> 16 [] src[t.from + 1] = "o" -> 8 [] OTHER -> 2
            ds == SelectSeq(SubSeq(src, IF radix THEN t.from + 2 ELSE t.from, t.to - 1), LAMBDA c : c # "_")
        IN  /\ t.value <= MaxInt
            /\ t.value = FoldSet(LAMBDA i, n : n + Value(ds[i]) * base ^ (Len(ds) - i), 0, 1..Len(ds))

(* A text without errors becomes tokens that cover it, in their places and with
   the values they spell (tokenize). *)
TokensRight == PositionsExact /\ TokensTile /\ IntegersExact

(* Every text is read to its end, the malformed ones too. *)
LexingEnds == <>done
-----------------------------------------------------------------------------
(* The instance TLC checks: every text up to a length over the characters of
   one lexical matter at a time: comments, strings, raw strings, quoted
   characters, numbers, operators. *)
Texts(n, alphabet) == UNION {[1..k -> alphabet] : k \in 1..n}

MCSources ==
    Texts(6, {"/", "*", "\n"})
    \cup Texts(5, {"\"", "$", "{", "}", "\n"})
    \cup Texts(4, {"\"", "\\", "x", "a", "\n"})
    \cup Texts(5, {"r", "#", "\"", "\n"})
    \cup Texts(4, {"'", "\\", "u", "b", "\n"})
    \cup Texts(4, {"0", "1", "x", "_"})
    \cup Texts(4, {"1", ".", "e", "8", "i"})
    \cup Texts(3, {"0", "1", "8", "o", "b"})
    \cup Texts(5, {"<", ">", "=", "."})
    \cup Texts(3, {"-", "?", "!", ":", "=", "&", " "})
=============================================================================
