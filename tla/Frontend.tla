-------------------------------- MODULE Frontend -------------------------------
(***************************************************************************)
(* The first three stages of compilation_run (main.c) and resolve_import   *)
(* (module.c): from the text of a file to its tree, or to a log that has   *)
(* an error.  Each stage runs to its end, and the log is looked at after   *)
(* it.  An action is one turn of a stage's loop.                           *)
(***************************************************************************)
EXTENDS Parser

CONSTANTS
    Inputs,             \* what a file may hold, and which allocation fails
    FirstCapacity,      \* the tokens the list has room for at first
    TopLevelVariables   \* see Grammar

ASSUME FrontendAssumption == FirstCapacity \in Nat \ {0}

VARIABLES
    source,   \* the text of the file
    memory,   \* the allocation that fails is this many away; 0 if none will
    phase,    \* the stage
    input,    \* the preprocessed text
    pos,      \* lexer.pos
    tokens,   \* the list of tokens
    parser,   \* the parser (see Parser)
    program,  \* sf_program_node: the imports and the statements
    log

vars == <<source, memory, phase, input, pos, tokens, parser, program, log>>

NoProgram == [imports |-> <<>>, statements |-> <<>>]

Init ==
    /\ \E i \in Inputs : source = i.text /\ memory = i.memory
    /\ phase = "preprocess"
    /\ input = <<>> /\ pos = 1 /\ tokens = <<>>
    /\ parser = Null /\ program = NoProgram
    /\ log = "clean"

(* The next allocation is made: whether it fails, and what is left. *)
NoMemory == memory = 1
Allocate == memory' = IF memory = 0 THEN 0 ELSE memory - 1

OutOfMemory ==
    /\ NoMemory
    /\ memory' = 0
    /\ log' = "fatal"
    /\ phase' = "rejected"

PreprocessFile ==
    /\ phase = "preprocess"
    /\ \/ /\ OutOfMemory
          /\ UNCHANGED input
       \/ /\ ~NoMemory /\ Allocate
          /\ input' = Preprocess(source)
          /\ phase' = "lex"
          /\ UNCHANGED log
    /\ UNCHANGED <<source, pos, tokens, parser, program>>

-----------------------------------------------------------------------------
(* sf_tokenize. *)

SkipSpace ==
    /\ phase = "lex"
    /\ CharAt(input, pos) \in Space
    /\ pos' = pos + 1
    /\ UNCHANGED <<source, memory, phase, input, tokens, parser, program, log>>

(* list_add: the list is reallocated when it is full, with twice the room. *)
ListFull == \E k \in 0 .. Len(tokens) :
                Len(tokens) = 0 \/ Len(tokens) = FirstCapacity * 2 ^ k

ListAdd(token) ==
    /\ ListFull => ~NoMemory
    /\ IF ListFull THEN Allocate ELSE UNCHANGED memory
    /\ tokens' = Append(tokens, token)

ReadToken ==
    LET tk  == Read(input, pos)
        got == IF tk.type = "undefined" THEN UndefinedRun(input, pos) ELSE tk
    IN  /\ ListAdd(got)
        /\ pos' = got.next
        /\ log' = IF got.type = "undefined" THEN "error" ELSE log

LexToken ==
    /\ phase = "lex"
    /\ CharAt(input, pos) \notin Space \cup {NUL}
    /\ ReadToken
    /\ UNCHANGED <<source, phase, input, parser, program>>

(* The list is returned without EOF; the fatal error keeps it from sf_parse. *)
LexFails ==
    /\ phase = "lex"
    /\ CharAt(input, pos) \notin Space
    /\ ListFull /\ OutOfMemory
    /\ UNCHANGED <<source, input, pos, tokens, parser, program>>

NewParser ==
    [tokens |-> tokens', current |-> 1, log |-> log,
     memory |-> memory', node |-> NoNode]

LexEnd ==
    /\ phase = "lex"
    /\ CharAt(input, pos) = NUL
    /\ ListAdd(Token("EOF", "", pos, pos))
    /\ IF log = "clean"
       THEN phase' = "parse" /\ parser' = New(NewParser, NoNode)
       ELSE phase' = "rejected" /\ UNCHANGED parser
    /\ UNCHANGED <<source, input, pos, program, log>>

-----------------------------------------------------------------------------
(* sf_parse.  A node that finds no room in the program is dropped. *)

AddTo(p, list) == Appending(p, list, p.node)

Keep(p) ==
    IF p.node.node = "import"
    THEN /\ parser' = AddTo(p, program.imports).parser
         /\ program' = [program EXCEPT !.imports = AddTo(p, @).list]
    ELSE /\ parser' = AddTo(p, program.statements).parser
         /\ program' = [program EXCEPT !.statements = AddTo(p, @).list]

ParseItem ==
    /\ phase = "parse"
    /\ ~Failed(parser) /\ Type(parser) # "EOF"
    /\ LET p == ParseTopLevel([parser EXCEPT !.node = NoNode])
       IN  IF ~Failed(p) THEN Keep(p)
           ELSE /\ parser' = LET q == [p EXCEPT !.node = NoNode]
                             IN  IF q.current = parser.current THEN Advance(q) ELSE q
                /\ UNCHANGED program
    /\ log' = parser'.log
    /\ memory' = parser'.memory
    /\ UNCHANGED <<source, phase, input, pos, tokens>>

(* Also the end when there was no memory for the program's own node. *)
ParseEnd ==
    /\ phase = "parse"
    /\ Failed(parser) \/ Type(parser) = "EOF"
    /\ log' = parser.log
    /\ phase' = IF parser.log = "clean" THEN "done" ELSE "rejected"
    /\ UNCHANGED <<source, memory, input, pos, tokens, parser, program>>

Ended == phase \in {"done", "rejected"} /\ UNCHANGED vars

Next ==
    \/ PreprocessFile
    \/ SkipSpace \/ LexToken \/ LexFails \/ LexEnd
    \/ ParseItem \/ ParseEnd
    \/ Ended

Spec == Init /\ [][Next]_vars

-----------------------------------------------------------------------------
(* What a token is, said of its characters alone. *)

Name(s) == s[1] \in IdentStart /\ \A i \in DOMAIN s : s[i] \in IdentChar

Digits(s, i, base) ==
    /\ \A j \in i .. Len(s) : s[j] \in DigitsOf(base) \cup {"_"}
    /\ \E j \in i .. Len(s) : s[j] # "_"

Prefixed(s, letters) == Len(s) > 2 /\ s[1] = "0" /\ s[2] \in letters

Base(s) ==
    CASE Prefixed(s, {"x", "X"}) -> 16 [] Prefixed(s, {"b", "B"}) -> 2 [] OTHER -> 10

Number(s) ==
    /\ s[1] \in Digit
    /\ Digits(s, IF Base(s) = 10 THEN 1 ELSE 3, Base(s))

Symbol(s) == \E k \in DOMAIN Symbols : Symbols[k] = Spelled(s, 1, Len(s) + 1)

Lexeme(s) == Name(s) \/ Number(s) \/ Symbol(s)

(* The number that a spelling denotes, of any size. *)
Denoted(s) ==
    LET base  == Base(s)
        value[i \in 0 .. Len(s)] ==
            IF i < (IF base = 10 THEN 1 ELSE 3) THEN 0
            ELSE IF s[i] = "_" THEN value[i - 1]
                 ELSE value[i - 1] * base + DigitValue(s[i])
    IN  value[Len(s)]

(* The last character before the next white space. *)
WordEnd(i) == Min({j \in i .. Len(input) + 1 : CharAt(input, j) \in Space \cup {NUL}}) - 1

TokenIsRight(tk) ==
    LET s == SubSeq(input, tk.at, tk.next - 1)
    IN  /\ Lexeme(s)
        /\ \A j \in tk.next .. WordEnd(tk.at) : ~Lexeme(SubSeq(input, tk.at, j))
        /\ Number(s) =>
            /\ tk.type = "integer"
            /\ Denoted(s) < 2 ^ NumberBits => tk.value = Denoted(s)
        /\ Name(s) => IF Spelled(s, 1, Len(s) + 1) \in Keywords
                      THEN tk.type = Spelled(s, 1, Len(s) + 1)
                      ELSE tk.type = "identifier"
        /\ Symbol(s) => tk.type = Spelled(s, 1, Len(s) + 1)

(* The tokens that reach the parser are those of the text (sf_tokenize):   *)
(* each is a word of the language, as long as it can be, of the right type *)
(* and, if it is a number that fits, with the value it denotes; and what   *)
(* lies between them is white space.  Text after a NUL is not looked at.   *)
TokensAreTheText ==
    phase = "parse" /\ parser.current = 1 =>
        /\ Len(tokens) > 0 /\ tokens[Len(tokens)].type = "EOF"
        /\ \A k \in 1 .. Len(tokens) - 1 : TokenIsRight(tokens[k])
        /\ \A i \in DOMAIN input :
            \/ input[i] \in Space
            \/ \E k \in DOMAIN tokens : i \in tokens[k].at .. tokens[k].next - 1

-----------------------------------------------------------------------------
Language == INSTANCE Grammar

Derivations ==
    LET items == Language!Programs(SubSeq(tokens, 1, Len(tokens) - 1))
        import(x) == x.node = "import"
    IN  {[imports    |-> SelectSeq(t, import),
          statements |-> SelectSeq(t, LAMBDA x : ~import(x))] : t \in items}

(* Paths of all imports fit the buffer: longer ones are dropped in silence. *)
PathsFit ==
    \A i \in DOMAIN source : \A j \in i .. Len(source) :
        (\A k \in i .. j : source[k] \in IdentChar \cup {"."})
            => j - i + 1 + Len(".slfr") < PathSize

(* The parser accepts the documented language and nothing else (sf_parse): *)
(* what it accepts has exactly one tree, the one it built, in the order of *)
(* the text; what it rejects has none, unless memory ran out.  The grammar *)
(* neither looks ahead nor recovers, so this is also about both.           *)
ParsesTheLanguage ==
    /\ phase = "done" /\ PathsFit => Derivations = {program}
    /\ phase = "rejected" /\ log = "error" /\ parser # Null => Derivations = {}

(* Every file is read to its end (the loops of sf_tokenize and sf_parse,   *)
(* and every recovery): no turn of a loop ends where it began, whatever is *)
(* wrong with the text.                                                    *)
MovesForward ==
    [][\/ phase' # phase
       \/ phase = "lex" /\ pos' > pos
       \/ phase = "parse" /\ parser'.current > parser.current]_vars

=============================================================================
