--------------------------------- MODULE Lexer ---------------------------------
(***************************************************************************)
(* The preprocessor (preprocessor.c) and the tokenizer (lexer.c).          *)
(*                                                                         *)
(* A text is a sequence of characters, each a string of length one; NUL    *)
(* stands for the character that ends a C string.  A token is what the     *)
(* parser sees of it, with the place it was read from.                     *)
(***************************************************************************)
EXTENDS Integers, Sequences, FiniteSetsExt, SequencesExt

CONSTANTS
    NumberBits,   \* the width of the unsigned long long a number is read into
    MaxValue      \* SF_MAX_TOKEN_VALUE_SIZE - 1: what a token keeps of a name

ASSUME LexerAssumption ==
    /\ NumberBits \in Nat \ {0}
    /\ MaxValue \in Nat \ {0}

NUL == "NUL"

Digit      == {"0", "1", "2", "3", "4", "5", "6", "7", "8", "9"}
Space      == {" ", "\t", "\n", "\f", "\r"}
IdentStart == {"a", "b", "c", "d", "e", "f", "g", "h", "i", "j", "k", "l", "m",
               "n", "o", "p", "q", "r", "s", "t", "u", "v", "w", "x", "y", "z",
               "A", "B", "C", "D", "E", "F", "X", "_"}
IdentChar  == IdentStart \cup Digit

(* The first spelling of the table that fits is taken, so long ones first. *)
Symbols ==
    << "<<=", ">>=",
       "++", "--", "+=", "-=", "*=", "/=", "&=", "|=", "^=",
       "==", "!=", "<=", ">=", "&&", "||", "<<", ">>",
       "+", "-", "*", "/", "=", "!", "<", ">", "&", "|", "^", "~",
       ";", "(", ")", "{", "}", ",", "." >>

Types == {"i8", "i16", "i32", "i64", "u8", "u16", "u32", "u64", "bool", "void"}

Keywords == Types \cup
    {"true", "false", "as", "if", "else", "while", "fn", "return",
     "mut", "pub", "extern", "import"}

(* Characters i to j - 1 of text t as one string, and its character at i. *)
RECURSIVE Spelled(_, _, _)
Spelled(t, i, j) == IF i >= j THEN "" ELSE t[i] \o Spelled(t, i + 1, j)
CharAt(t, i) == IF i > Len(t) THEN NUL ELSE t[i]

(* The first position from i on that holds no character of S. *)
SkipWhile(t, i, S) == Min({j \in i .. Len(t) + 1 : CharAt(t, j) \notin S})

-----------------------------------------------------------------------------
(***************************************************************************)
(* sf_preprocess.  The copy ends at the first NUL.  Carriage returns go    *)
(* first, so the two slashes of a comment may have had one between them.   *)
(* A comment goes up to its newline, which stays.                          *)
(***************************************************************************)
WithoutReturns(t) == SelectSeq(t, LAMBDA c : c # "\r")

RECURSIVE WithoutComments(_, _)
WithoutComments(t, i) ==
    IF i > Len(t) THEN <<>>
    ELSE IF t[i] = "/" /\ CharAt(t, i + 1) = "/"
         THEN WithoutComments(t, Min({j \in i .. Len(t) + 1 : CharAt(t, j) \in {"\n", NUL}}))
         ELSE <<t[i]>> \o WithoutComments(t, i + 1)

Preprocess(src) ==
    LET nul == Min({i \in 1 .. Len(src) + 1 : CharAt(src, i) = NUL})
    IN  WithoutComments(WithoutReturns(SubSeq(src, 1, nul - 1)), 1)

-----------------------------------------------------------------------------
(***************************************************************************)
(* The three readers.  Each returns the token at position i and, in next,  *)
(* the position after it.  value is what tk.value holds: the digits of a   *)
(* number as read, the name of an identifier.                              *)
(***************************************************************************)
Token(type, value, i, j) == [type |-> type, value |-> value, at |-> i, next |-> j]

Undefined(i, j) == Token("undefined", "", i, j)

Hex == <<"0", "1", "2", "3", "4", "5", "6", "7", "8", "9",
         "a", "b", "c", "d", "e", "f">>
Capital == [A |-> "a", B |-> "b", C |-> "c", D |-> "d", E |-> "e", F |-> "f"]

DigitValue(c) ==
    LET d == IF c \in DOMAIN Capital THEN Capital[c] ELSE c
    IN  (CHOOSE k \in DOMAIN Hex : Hex[k] = d) - 1

DigitsOf(base) ==
    {c \in IdentChar : \E k \in 1 .. base :
        Hex[k] = IF c \in DOMAIN Capital THEN Capital[c] ELSE c}

BaseOf(t, i) ==
    CASE t[i] = "0" /\ CharAt(t, i + 1) \in {"x", "X"} -> 16
      [] t[i] = "0" /\ CharAt(t, i + 1) \in {"b", "B"} -> 2
      [] OTHER -> 10

(* The digits are accumulated in NumberBits bits; underscores are skipped. *)
Accumulated(digits, base) ==
    FoldLeft(LAMBDA v, c : (v * base + DigitValue(c)) % 2 ^ NumberBits, 0, digits)

ReadNumber(t, i) ==
    LET base   == BaseOf(t, i)
        start  == IF base = 10 THEN i ELSE i + 2
        end    == SkipWhile(t, start, DigitsOf(base) \cup {"_"})
        digits == SelectSeq(SubSeq(t, start, end - 1), LAMBDA c : c # "_")
    IN  IF digits = <<>> \/ CharAt(t, end) \in IdentChar
        THEN Undefined(i, end)
        ELSE Token("integer", Accumulated(digits, base), i, end)

(* resolve_keyword looks at what was kept of the name. *)
ReadIdentifier(t, i) ==
    LET end  == SkipWhile(t, i, IdentChar)
        name == Spelled(t, i, Min({end, i + MaxValue}))
    IN  Token(IF name \in Keywords THEN name ELSE "identifier", name, i, end)

Fits(t, i, symbol) == Spelled(t, i, Min({i + Len(symbol), Len(t) + 1})) = symbol

FindSymbol(t, i) == {k \in DOMAIN Symbols : Fits(t, i, Symbols[k])}

(* Mutant: of the spellings that fit, the last of the table. *)
ReadSymbolLast(t, i) ==
    LET fit == FindSymbol(t, i)
    IN  IF fit = {} THEN Undefined(i, i)
        ELSE Token(Symbols[Max(fit)], "", i, i + Len(Symbols[Max(fit)]))

(* Mutant: the position stays at the symbol. *)
ReadSymbolInPlace(t, i) ==
    LET fit == FindSymbol(t, i)
    IN  IF fit = {} THEN Undefined(i, i) ELSE Token(Symbols[Min(fit)], "", i, i)

ReadSymbol(t, i) ==
    LET fit    == FindSymbol(t, i)
        symbol == Symbols[Min(fit)]
    IN  IF fit = {} THEN Undefined(i, i)
        ELSE Token(symbol, "", i, i + Len(symbol))

Read(t, i) ==
    CASE t[i] \in Digit      -> ReadNumber(t, i)
      [] t[i] \in IdentStart -> ReadIdentifier(t, i)
      [] OTHER               -> ReadSymbol(t, i)

(***************************************************************************)
(* lexer_report_undefined: the token starts again at i and takes at least  *)
(* one character, then all that cannot belong to a token of another kind.  *)
(***************************************************************************)
UndefinedRun(t, i) ==
    LET continues(j) ==
            /\ CharAt(t, j) \notin Space \cup {NUL}
            /\ IF t[i] \in Digit
               THEN CharAt(t, j) \in IdentChar
               ELSE CharAt(t, j) \notin IdentChar /\ FindSymbol(t, j) = {}
    IN  Undefined(i, Min({j \in i + 1 .. Len(t) + 1 : ~continues(j)}))

=============================================================================
