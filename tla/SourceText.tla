------------------------------- MODULE SourceText -------------------------------
(* Where the code is in a C++ text: strip_comments() of app_static.h, and what      *)
(* CppStubGenerator.cpp decides by isInsideStringOrComment() and by looking for the *)
(* matching brace, next to the rules of the language.  A text is a sequence of      *)
(* characters; a word of several is one where nothing depends on its letters.       *)
EXTENDS Requests, Integers, FiniteSets, Sequences, SequencesExt

Blanks == {" ", "\n"}
Punctuation == Blanks \cup {"/", "*", "\"", "'", "\\", "{", "}", "(", ")", "<", ">", ";", ":", "-", "&", ",", "=", "#", "."}
WordChar(c) == c \notin Punctuation \cup {""}
Digit(c) == c = "1"
EndsInHex == {"1", "e", "u8"}
StartsInHex == {"1", "e"}
CharAt(text, i) == IF i \in DOMAIN text THEN text[i] ELSE ""

--------------------------------------------------------------------------------
(* The language: a region for each character.  A quote within a number separates    *)
(* digits; a line comment goes on behind a backslash at the end of its line.        *)
CodeModes == {"code", "word", "number"}
Opening(text, mode, i) ==
    LET c == text[i]
        next == CharAt(text, i + 1)
    IN  CASE c = "/" /\ next = "/" -> "line"
          [] c = "/" /\ next = "*" -> "block"
          [] c = "\"" -> "string"
          [] c = "'" -> IF mode = "number" /\ WordChar(next) THEN "number" ELSE "char"
          [] WordChar(c) -> IF mode # "code" THEN mode ELSE IF Digit(c) THEN "number" ELSE "word"
          [] OTHER -> "code"
Closes(text, s, i) ==
    CASE s.mode = "line" -> text[i] = "\n" /\ ~s.escaped
      [] s.mode = "block" -> text[i] = "/" /\ text[i - 1] = "*" /\ i > s.from + 2
      [] OTHER -> text[i] = (IF s.mode = "string" THEN "\"" ELSE "'") /\ ~s.escaped
Region(mode) == CASE mode \in {"line", "block"} -> "comment"
                  [] mode \in {"string", "char"} -> "literal"
                  [] OTHER -> "code"
LexCharacter(text, s, i) ==
    LET open == s.mode \notin CodeModes
        mode == IF ~open THEN Opening(text, s.mode, i) ELSE IF Closes(text, s, i) THEN "code" ELSE s.mode
    IN  [mode |-> mode, from |-> IF open THEN s.from ELSE i,
         escaped |-> open /\ text[i] = "\\" /\ (s.mode = "line" \/ ~s.escaped),
         regions |-> Append(s.regions, Region(IF open /\ s.mode # "line" THEN s.mode ELSE mode))]
Positions(text) == [i \in DOMAIN text |-> i]
Lexed(text) ==
    FoldLeft(LAMBDA s, i : LexCharacter(text, s, i),
             [mode |-> "code", from |-> 0, escaped |-> FALSE, regions |-> <<>>], Positions(text))
Regions(text) == Lexed(text).regions
InCode(text) == LET regions == Regions(text) IN {i \in DOMAIN text : regions[i] = "code"}
Complete(text) ==      \* nothing is left open, and no literal runs over a line
    LET lexed == Lexed(text)
    IN  lexed.mode \in CodeModes /\ \A i \in DOMAIN text : lexed.regions[i] = "literal" => text[i] # "\n"

--------------------------------------------------------------------------------
(* strip_comments(): `state` and `quote` are the code's st and strq. *)
BlockStar(s, c) ==
    CASE c = "/" -> [s EXCEPT !.state = "Code"]
      [] c = "*" -> s
      [] OTHER -> [s EXCEPT !.state = "Block", !.out = IF c = "\n" THEN Append(@, c) ELSE @]
StripCode(s, c) ==
    CASE c = "/" -> [s EXCEPT !.state = "Slash"]
      [] c \in {"\"", "'"} -> [s EXCEPT !.state = "Str", !.quote = c, !.out = Append(@, c)]
      [] OTHER -> [s EXCEPT !.out = Append(@, c)]
StripSlash(s, c) ==
    CASE c = "/" -> [s EXCEPT !.state = "Line"]
      [] c = "*" -> [s EXCEPT !.state = "Block"]
      [] OTHER -> [s EXCEPT !.state = "Code", !.out = @ \o <<"/", c>>]
StripBlock(s, c) ==
    [s EXCEPT !.state = IF c = "*" THEN "BlockStar" ELSE @, !.out = IF c = "\n" THEN Append(@, c) ELSE @]
AnyQuoteCloses(s, c) ==      \* mutant: a literal ends at the first quote of any kind
    [s EXCEPT !.out = Append(@, c), !.taken = c = "\\", !.state = IF c \in {"\"", "'"} THEN "Code" ELSE @]
StripStr(s, c) ==      \* what follows a backslash is taken over unseen
    [s EXCEPT !.out = Append(@, c), !.taken = c = "\\", !.state = IF c = s.quote THEN "Code" ELSE @]
StripStep(s, c) ==
    CASE s.taken -> [s EXCEPT !.taken = FALSE, !.out = Append(@, c)]
      [] s.state = "Code" -> StripCode(s, c)
      [] s.state = "Slash" -> StripSlash(s, c)
      [] s.state = "Line" -> IF c = "\n" THEN [s EXCEPT !.state = "Code", !.out = Append(@, c)] ELSE s
      [] s.state = "Block" -> StripBlock(s, c)
      [] s.state = "BlockStar" -> BlockStar(s, c)
      [] OTHER -> StripStr(s, c)
strip_comments(text) ==
    FoldLeft(StripStep, [state |-> "Code", quote |-> "", taken |-> FALSE, out |-> <<>>], text).out

--------------------------------------------------------------------------------
(* CppStubGenerator.cpp.  A quote between hexadecimal digits is a separator. *)
NoSeparators(text, i) == FALSE      \* mutant: every quote opens a literal
isDigitSeparator(text, i) == CharAt(text, i - 1) \in EndsInHex /\ CharAt(text, i + 1) \in StartsInHex
QuoteOpens(text, i) == text[i] = "\"" \/ (text[i] = "'" /\ ~isDigitSeparator(text, i))

(* isInsideStringOrComment(): `within` is the flag that is set, prev the character  *)
(* before.                                                                          *)
Entered(text, i) ==
    CASE text[i] = "/" /\ CharAt(text, i + 1) = "/" -> "line"
      [] text[i] = "/" /\ CharAt(text, i + 1) = "*" -> "block"
      [] QuoteOpens(text, i) -> IF text[i] = "\"" THEN "string" ELSE "char"
      [] OTHER -> ""
Left(within, prev, c) ==
    CASE within = "line" -> c = "\n"
      [] within = "block" -> prev = "*" /\ c = "/"
      [] within = "string" -> c = "\"" /\ prev # "\\"
      [] OTHER -> c = "'" /\ prev # "\\"
isInsideStringOrComment(text, pos) ==
    LET Walk(within, i) ==
          CASE within = "" -> Entered(text, i)
            [] Left(within, text[i - 1], text[i]) -> ""
            [] OTHER -> within
    IN  FoldLeft(Walk, "", SubSeq(Positions(text), 1, pos - 1)) # ""

(* What the scans for a bracket leave out: the position behind the literal or the   *)
(* comment that begins at i, and i if none does.                                    *)
RECURSIVE PastQuote(_, _, _)
PastQuote(text, i, quote) ==
    IF i > Len(text) THEN Len(text) + 1
    ELSE IF text[i] = quote THEN i + 1
    ELSE PastQuote(text, IF text[i] = "\\" THEN i + 2 ELSE i + 1, quote)
FirstIn(found, text) == IF found = {} THEN Len(text) + 1 ELSE Min(found)
PastSkipped(text, i) ==
    LET next == CharAt(text, i + 1)
    IN  CASE QuoteOpens(text, i) -> PastQuote(text, i + 1, text[i])
          [] text[i] = "/" /\ next = "/" -> FirstIn({j \in i .. Len(text) : text[j] = "\n"}, text)
          [] text[i] = "/" /\ next = "*" ->
               FirstIn({j \in i + 2 .. Len(text) : text[j] = "*" /\ CharAt(text, j + 1) = "/"}, text) + 2
          [] OTHER -> i
(* The position of the bracket that closes, 0 if there is none. *)
RECURSIVE Matching(_, _, _, _, _)
Matching(text, i, depth, open, close) ==
    IF depth = 0 THEN i - 1
    ELSE IF i > Len(text) THEN 0
    ELSE LET past == PastSkipped(text, i)
             deeper == CASE text[i] = open -> 1 [] text[i] = close -> -1 [] OTHER -> 0
         IN  IF past # i THEN Matching(text, past, depth, open, close)
             ELSE Matching(text, i + 1, depth + deeper, open, close)
findMatchingBrace(text, open) == Matching(text, open + 1, 1, "{", "}")

--------------------------------------------------------------------------------
(* All texts of up to MaxText of these characters. *)
CONSTANT MaxText
ASSUME MaxTextIsNatural == MaxText \in Nat
TextChars == {"/", "*", "\"", "'", "\\", "\n", "1", "e", "}"}
IsTextRequest == \E n \in 0 .. MaxText : \E text \in [1 .. n -> TextChars] : request = [kind |-> "text", text |-> text]
Braced(text) == <<"{">> \o text \o <<"}">>
TextAnswer(r) ==
    <<strip_comments(r.text), {i \in DOMAIN r.text : isInsideStringOrComment(r.text, i)},
      findMatchingBrace(Braced(r.text), 1)>>

(* Texts compared as the words and marks they consist of. *)
Chunks(text) ==
    LET Add(s, c) ==
          IF c \in Blanks THEN [s EXCEPT !.joins = FALSE]
          ELSE [chunks |-> IF s.joins /\ WordChar(c) THEN [s.chunks EXCEPT ![Len(s.chunks)] = Append(@, c)]
                           ELSE Append(s.chunks, <<c>>),
                joins |-> WordChar(c)]
    IN  FoldLeft(Add, [chunks |-> <<>>, joins |-> FALSE], text).chunks
SeenByCompiler(text) ==
    LET regions == Regions(text) IN [i \in DOMAIN text |-> IF regions[i] = "comment" THEN " " ELSE text[i]]

(* What the functions take for something else: a quote behind a slash, two words    *)
(* with nothing but a comment between them, and digit separators (strip_comments);  *)
(* a backslash that ends a literal, "/*/", and a character literal between          *)
(* hexadecimal digits, as in case'e' and u8'e' (CppStubGenerator); a comment that   *)
(* goes on in the next line (all).                                                  *)
Continues(text) ==
    LET code == InCode(text)
    IN  \E i \in DOMAIN text \ code : text[i] = "\n" /\ CharAt(text, i - 1) = "\\" /\ Regions(text)[i] = "comment"
DigitMarks(text) == {i \in InCode(text) : text[i] = "'"}
SlashedQuote(text) == \E i \in InCode(text) : text[i] = "/" /\ CharAt(text, i + 1) \in {"\"", "'", ""}
Glued(text) ==
    LET regions == Regions(text)
        words == {i \in InCode(text) : WordChar(text[i])}
    IN  \E i, j \in words : i < j - 1 /\ \A k \in i + 1 .. j - 1 : regions[k] = "comment" /\ text[k] # "\n"
BackslashLast(text) ==
    \E i \in DOMAIN text : /\ text[i] \in {"\"", "'"}
                           /\ CharAt(text, i - 2) = "\\" /\ CharAt(text, i - 1) = "\\"
                           /\ Regions(text)[i] = "literal"
SlashStarSlash(text) == \E i \in DOMAIN text : text[i] = "/" /\ CharAt(text, i + 1) = "*" /\ CharAt(text, i + 2) = "/"
HexCharacter(text) == \E i \in DOMAIN text \ InCode(text) : text[i] = "'" /\ isDigitSeparator(text, i)

(* strip_comments() keeps the words and marks that the compiler sees, a word that   *)
(* is looked up is taken for one in code exactly if it is, and the brace that is    *)
(* found is the first in code, but for the forms above (app_static.h:97;            *)
(* CppStubGenerator.cpp:31 has u8'e' told apart from a separator).                  *)
ScannersSeeTheCode ==
    Answered("text") =>
        LET text == request.text
            code == InCode(text)
            braced == Braced(text)
            closing == {i \in InCode(braced) : braced[i] = "}"}
        IN  /\ \/ ~Complete(text) \/ Continues(text) \/ SlashedQuote(text) \/ Glued(text) \/ DigitMarks(text) # {}
               \/ Chunks(reply[1]) = Chunks(SeenByCompiler(text))
            /\ \/ ~Complete(text) \/ Continues(text) \/ BackslashLast(text) \/ SlashStarSlash(text) \/ HexCharacter(text)
               \/ \A i \in DOMAIN text : WordChar(text[i]) => (i \in reply[2] <=> i \notin code)
            /\ \/ ~Complete(braced) \/ Continues(braced) \/ HexCharacter(braced)
               \/ reply[3] \in closing /\ \A i \in closing : reply[3] <= i
================================================================================
