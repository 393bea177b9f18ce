--------------------------------- MODULE Parser --------------------------------
(***************************************************************************)
(* The parser (parser.c, parser_expr.c, parser_stmt.c) with the node       *)
(* constructors of ast.c that it calls.                                    *)
(*                                                                         *)
(* A parse_ function of the source is an operator from a parser p to the   *)
(* parser after it, whose field node is what the function returned:        *)
(*   tokens   the list the tokenizer made; it ends with EOF                *)
(*   current  the token looked at                                          *)
(*   log      what has been reported: "clean", "error" or "fatal"          *)
(*   memory   the allocation that fails is this many away; 0 if none will  *)
(*   node     the tree returned, or Null                                   *)
(* A parser whose node is Null has failed.  The operators that consume a   *)
(* token or make a node leave it as it is, so that what is written as a    *)
(* sequence of calls ends, as in the source, with the first that fails.    *)
(***************************************************************************)
EXTENDS Lexer

CONSTANTS
    Null,       \* the null pointer
    PathSize    \* IMPORT_PATH_SIZE: the room for an import's file name

ASSUME ParserAssumption == PathSize \in Nat \ {0}

AssignOps == {"=", "+=", "-=", "*=", "/=", "&=", "|=", "^=", "<<=", ">>="}

(* The operator of a compound assignment. *)
Compound == [op \in AssignOps \ {"="} |->
    CASE op = "+=" -> "+" [] op = "-=" -> "-" [] op = "*=" -> "*"
      [] op = "/=" -> "/" [] op = "&=" -> "&" [] op = "|=" -> "|"
      [] op = "^=" -> "^" [] op = "<<=" -> "<<" [] op = ">>=" -> ">>"]

Qualifiers == {"mut", "pub", "extern"}
PrefixOps  == {"-", "~", "!", "++", "--"}
PostfixOps == {"++", "--"}

(* k_binary_levels, the loosest first. *)
Relational == {"==", "!=", "<", "<=", ">", ">="}
Levels ==
    << {"||"}, {"&&"}, Relational, {"|"}, {"^"}, {"&"}, {"<<", ">>"},
       {"+", "-"}, {"*", "/"} >>

-----------------------------------------------------------------------------
(* Looking at tokens and reporting. *)

PeekAt(p, i) == p.tokens[Min({i, Len(p.tokens)})]
Type(p)      == PeekAt(p, p.current).type
Value(p)     == PeekAt(p, p.current).value
NextType(p)  == PeekAt(p, p.current + 1).type

Failed(p)         == p.node = Null
Fail(p)           == [p EXCEPT !.node = Null]
Returning(p, node) == IF Failed(p) THEN p ELSE [p EXCEPT !.node = node]
NoNode            == [node |-> "none"]

Advance(p) ==
    IF Failed(p) \/ Type(p) = "EOF" THEN p ELSE [p EXCEPT !.current = @ + 1]

(* Undefined tokens are passed over in silence: the tokenizer has reported *)
(* them, and nothing with an undefined token gets here.                    *)
Unexpected(p) ==
    IF Failed(p) \/ Type(p) = "undefined" THEN Fail(p)
    ELSE [p EXCEPT !.node = Null, !.log = IF @ = "fatal" THEN @ ELSE "error"]

Expect(p, type) == IF Type(p) = type THEN Advance(p) ELSE Unexpected(p)

ExpectType(p) == IF Type(p) \in Types THEN Advance(p) ELSE Unexpected(p)

(* A constructor: the node, or Null and a fatal error. *)
New(p, node) ==
    IF Failed(p) \/ p.memory = 0 THEN Returning(p, node)
    ELSE IF p.memory = 1
         THEN [p EXCEPT !.node = Null, !.memory = 0, !.log = "fatal"]
         ELSE [p EXCEPT !.node = node, !.memory = @ - 1]

(* The functions that append to a list of a node: without memory the       *)
(* element is dropped, and the node that holds the list stays.             *)
Appending(p, list, x) ==
    LET grown == New(p, x)
    IN  [parser |-> [grown EXCEPT !.node = p.node],
         list   |-> IF Failed(grown) THEN list ELSE Append(list, x)]

-----------------------------------------------------------------------------
(* Recovery from an error. *)

(* The next token from p on that has one of the types. *)
SkipTo(p, types) ==
    Fail([p EXCEPT !.current =
        Min({i \in @ .. Len(p.tokens) : p.tokens[i].type \in types \cup {"EOF"}})])

RecoverExpression(p) == SkipTo(p, {";", ")", "{", "}", "as"})

RecoverStatement(p) ==
    LET stop == SkipTo(p, (Types \ {"void"}) \cup
                    {";", "if", "while", "fn", "return", "identifier", "{", "}"})
    IN  IF Type(stop) = ";" THEN [stop EXCEPT !.current = @ + 1] ELSE stop

(***************************************************************************)
(* sf_parser_recover_top_level: at least one token is skipped, then braces *)
(* are counted; outside them it stops after a semicolon or before what can *)
(* start a declaration.                                                    *)
(***************************************************************************)
Depth(tokens, i, j) ==
    LET depth[k \in i - 1 .. j - 1] ==
            IF k = i - 1 THEN 0
            ELSE CASE tokens[k].type = "{" -> depth[k - 1] + 1
                   [] tokens[k].type = "}" -> Max({depth[k - 1] - 1, 0})
                   [] OTHER -> depth[k - 1]
    IN  depth[j - 1]

RecoverTopLevel(p) ==
    LET from == IF Type(p) = "EOF" THEN p.current ELSE p.current + 1
        stops(i) ==
            \/ p.tokens[i].type = "EOF"
            \/ /\ Depth(p.tokens, from, i) = 0
               /\ \/ p.tokens[i].type \in (Types \ {"void"}) \cup {"fn"}
                  \/ i > from /\ p.tokens[i - 1].type = ";"
    IN  Fail([p EXCEPT !.current = Min({i \in from .. Len(p.tokens) : stops(i)})])

(* The step from p to q, followed by recovery if it is what failed. *)
OrSkipExpression(p, q) == IF Failed(q) /\ ~Failed(p) THEN RecoverExpression(q) ELSE q
OrSkipStatement(p, q)  == IF Failed(q) /\ ~Failed(p) THEN RecoverStatement(q) ELSE q
ExpectOrSkip(p, type)  == OrSkipStatement(p, Expect(p, type))

-----------------------------------------------------------------------------
(* The functions that are called before they are defined, by what they     *)
(* parse: Parse is defined behind them.                                    *)
RECURSIVE Parse(_, _)

-----------------------------------------------------------------------------
(* Expressions. *)

RECURSIVE ParseBinary(_, _), BinaryLoop(_, _), CastLoop(_), ParseUnary(_),
          PostfixLoop(_), ParseArguments(_, _)

ParseExpression(p) == ParseBinary(p, 1)

ParseBinary(p, level) ==
    IF level > Len(Levels) THEN CastLoop(ParseUnary(p))
    ELSE BinaryLoop(ParseBinary(p, level + 1), level)

(* Mutant: relational operators chain like the others. *)
BinaryLoopChained(p, level) ==
    IF Failed(p) \/ Type(p) \notin Levels[level] THEN p
    ELSE LET right == ParseBinary(Advance(p), level + 1)
         IN  BinaryLoop(New(right, [node |-> "binary", op |-> Type(p),
                                    left |-> p.node, right |-> right.node]), level)

BinaryLoop(p, level) ==
    IF Failed(p) \/ Type(p) \notin Levels[level] THEN p
    ELSE LET right == ParseBinary(Advance(p), level + 1)
             node  == New(right, [node |-> "binary", op |-> Type(p),
                                  left |-> p.node, right |-> right.node])
         IN  IF Levels[level] = Relational THEN node   \* not chainable
             ELSE BinaryLoop(node, level)

CastLoop(p) ==
    IF Failed(p) \/ Type(p) # "as" THEN p
    ELSE LET to == OrSkipExpression(p, ExpectType(Advance(p)))
         IN  CastLoop(New(to, [node |-> "cast", operand |-> p.node,
                               target |-> NextType(p)]))

ParseArguments(p, call) ==
    LET arg  == Parse("expression", p)
        more == Appending(arg, call.arguments, arg.node)
        node == [call EXCEPT !.arguments = more.list]
    IN  IF Failed(arg) THEN arg
        ELSE IF Type(arg) = "," THEN ParseArguments(Advance(more.parser), node)
             ELSE Returning(more.parser, node)

ParseCall(p, name) ==
    LET callee == New(Advance(p), [node |-> "name", name |-> name])
        call   == New(callee, [node |-> "call", name |-> name, arguments |-> <<>>])
        args   == IF Type(call) = ")" THEN call ELSE ParseArguments(call, call.node)
    IN  OrSkipExpression(args, Expect(args, ")"))

ParsePrimary(p) ==
    CASE Type(p) = "(" ->
            LET expr == Parse("expression", Advance(p))
            IN  OrSkipExpression(expr, Expect(expr, ")"))
      [] Type(p) = "integer" ->
            New(Advance(p), [node |-> "number", number |-> Value(p)])
      [] Type(p) \in {"true", "false"} ->
            New(Advance(p), [node |-> "truth", truth |-> Type(p)])
      [] Type(p) = "identifier" ->
            IF NextType(p) = "(" THEN ParseCall(Advance(p), Value(p))
            ELSE New(Advance(p), [node |-> "name", name |-> Value(p)])
      [] OTHER -> OrSkipExpression(p, Unexpected(p))

PostfixLoop(p) ==
    IF Failed(p) \/ Type(p) \notin PostfixOps THEN p
    ELSE PostfixLoop(New(Advance(p),
            [node |-> "postfix", op |-> Type(p), operand |-> p.node]))

ParseUnary(p) ==
    IF Failed(p) \/ Type(p) \notin PrefixOps THEN PostfixLoop(ParsePrimary(p))
    ELSE LET operand == ParseUnary(Advance(p))
         IN  New(operand, [node |-> "prefix", op |-> Type(p),
                           operand |-> operand.node])

-----------------------------------------------------------------------------
(* Statements. *)

RECURSIVE BlockLoop(_, _), ParseParameters(_, _)

ParseExprStmt(p) ==
    OrSkipStatement(p, Expect(Parse("expression", p), ";"))

ParseVarDecl(p, quals) ==
    LET name  == ExpectType(p)
        rest  == Expect(name, "identifier")
        value == IF Type(rest) = "=" THEN Parse("expression", Advance(rest))
                 ELSE Returning(rest, NoNode)
    IN  New(OrSkipStatement(p, Expect(value, ";")),
            [node |-> "variable", type |-> Type(p), name |-> Value(name),
             quals |-> quals, value |-> value.node])

(* `x op= y' becomes `x = x op y'. *)
ParseVarAssign(p) ==
    LET op    == Advance(p)
        rhs   == OrSkipStatement(p, Parse("expression", Advance(op)))
        lhs   == New(rhs, [node |-> "name", name |-> Value(p)])
        value == IF Type(op) = "=" THEN rhs
                 ELSE New(lhs, [node |-> "binary", op |-> Compound[Type(op)],
                                left |-> lhs.node, right |-> rhs.node])
    IN  New(ExpectOrSkip(value, ";"),
            [node |-> "assign", name |-> Value(p), value |-> value.node])

(* A statement that fails without consuming a token costs one token. *)
BlockLoop(p, statements) ==
    IF Type(p) \in {"}", "EOF"}
    THEN OrSkipStatement(p,
            Returning(Expect(p, "}"), [node |-> "block", statements |-> statements]))
    ELSE LET s    == Parse("statement", p)
             kept == Appending(s, statements, s.node)
             next == [s EXCEPT !.node = NoNode]
         IN  IF ~Failed(s) THEN BlockLoop(kept.parser, kept.list)
             ELSE BlockLoop(IF s.current = p.current THEN Advance(next) ELSE next,
                            statements)

ParseBlock(p) ==
    LET block == New(p, [node |-> "block", statements |-> <<>>])
        open  == ExpectOrSkip(block, "{")
    IN  IF Failed(open) THEN open ELSE BlockLoop(open, <<>>)

ParseElse(p) ==
    IF Failed(p) \/ Type(p) # "else" THEN Returning(p, NoNode)
    ELSE IF NextType(p) = "if" THEN Parse("if", Advance(p)) ELSE Parse("block", Advance(p))

ParseIf(p) ==
    LET condition == Parse("expression", Advance(p))
        then      == Parse("block", condition)
        else      == ParseElse(then)
    IN  New(OrSkipStatement(p, else),
            [node |-> "if", condition |-> condition.node,
             then |-> then.node, else |-> else.node])

ParseWhile(p) ==
    LET condition == Parse("expression", Advance(p))
        body      == Parse("block", condition)
    IN  New(OrSkipStatement(p, body),
            [node |-> "while", condition |-> condition.node, body |-> body.node])

ParseReturn(p) ==
    LET value == IF NextType(p) = ";" THEN Returning(Advance(p), NoNode)
                 ELSE Parse("expression", Advance(p))
    IN  New(OrSkipStatement(p, Expect(value, ";")),
            [node |-> "return", value |-> value.node])

(* parse_qualifiers: the set given; a repetition is only a warning. *)
AfterQualifiers(p) ==
    [p EXCEPT !.current =
        Min({i \in @ .. Len(p.tokens) : p.tokens[i].type \notin Qualifiers})]
QualifiersAt(p) ==
    {p.tokens[i].type : i \in p.current .. AfterQualifiers(p).current - 1}

(* The parameters from p on, added to those of func. *)
ParseParameters(p, func) ==
    LET typed == AfterQualifiers(p)
        name  == ExpectType(typed)
        rest  == OrSkipStatement(p, Expect(name, "identifier"))
        copy  == New(rest, NoNode)
        more  == Appending(copy, func.parameters,
                           [type |-> Type(typed), name |-> Value(name),
                            quals |-> QualifiersAt(p)])
        node  == [func EXCEPT !.parameters = more.list]
    IN  IF Failed(copy) THEN copy
        ELSE IF Type(copy) = "," THEN ParseParameters(Advance(more.parser), node)
             ELSE Returning(more.parser, node)

ParseBody(p) ==
    CASE Type(p) = "{" -> Parse("block", p)
      [] Type(p) = ";" -> Returning(Advance(p), NoNode)
      [] OTHER         -> Unexpected(p)

ParseParameterList(p) ==
    IF Failed(p) \/ Type(p) = ")" THEN p ELSE ParseParameters(p, p.node)

(* The result and the body of the function that is p's node. *)
ParseResultAndBody(p) ==
    LET typed == Type(p) \in Types
        body  == OrSkipStatement(p,
                    IF Failed(p) THEN p ELSE ParseBody(IF typed THEN Advance(p) ELSE p))
    IN  Returning(body,
            [node |-> "function", name |-> p.node.name, quals |-> p.node.quals,
             parameters |-> p.node.parameters,
             type |-> IF typed THEN Type(p) ELSE "void", body |-> body.node])

ParseFuncDecl(p, quals) ==
    LET name == OrSkipStatement(p, Expect(Advance(p), "identifier"))
        func == New(name, [node |-> "function", name |-> Value(Advance(p)),
                           quals |-> quals, parameters |-> <<>>])
        list == ParseParameterList(ExpectOrSkip(func, "("))
    IN  ParseResultAndBody(ExpectOrSkip(list, ")"))

ParseDecl(p) ==
    LET decl == AfterQualifiers(p)
    IN  CASE Type(decl) = "fn"     -> ParseFuncDecl(decl, QualifiersAt(p))
          [] Type(decl) \in Types -> ParseVarDecl(decl, QualifiersAt(p))
          [] OTHER                 -> RecoverStatement(Unexpected(decl))

ParseStatement(p) ==
    CASE Type(p) \in Types \cup {"fn"} \cup Qualifiers -> ParseDecl(p)
      [] Type(p) = "identifier" /\ NextType(p) \in AssignOps -> ParseVarAssign(p)
      [] Type(p) = "{"      -> ParseBlock(p)
      [] Type(p) = "if"     -> ParseIf(p)
      [] Type(p) = "while"  -> ParseWhile(p)
      [] Type(p) = "return" -> ParseReturn(p)
      [] OTHER              -> ParseExprStmt(p)

Parse(what, p) ==
    CASE what = "expression"  -> ParseExpression(p)
      [] what = "statement"   -> ParseStatement(p)
      [] what = "declaration" -> ParseDecl(p)
      [] what = "block"       -> ParseBlock(p)
      [] what = "if"          -> ParseIf(p)

-----------------------------------------------------------------------------
(* The top level. *)

(***************************************************************************)
(* parse_import.  The names are joined to a path in a buffer of PathSize   *)
(* characters; when they do not fit the import fails without a report.     *)
(***************************************************************************)
RECURSIVE ParsePath(_, _, _)
ParsePath(p, path, length) ==
    LET rest    == Expect(p, "identifier")
        joined  == Append(path, Value(p))
        end     == length + Len(Value(p))
        room(n) == end + n < PathSize
    IN  CASE Failed(rest)     -> rest
          [] ~Failed(rest) /\ ~room(0) -> Fail(rest)
          [] ~Failed(rest) /\ room(0)  ->
                CASE Type(rest) = "." ->
                        IF room(1) THEN ParsePath(Advance(rest), joined, end + 1)
                        ELSE Fail(Advance(rest))
                  [] Type(rest) = ";" ->
                        IF room(Len(".slfr"))
                        THEN New(Advance(rest), [node |-> "import", path |-> joined])
                        ELSE Fail(Advance(rest))
                  [] OTHER -> Unexpected(rest)

ParseImport(p) == ParsePath(Advance(p), <<>>, 0)

ParseTopLevel(p) ==
    LET node == CASE Type(p) \in Qualifiers \cup {"fn"} -> Parse("declaration", p)
                  [] Type(p) = "import"                  -> ParseImport(p)
                  [] OTHER                               -> Unexpected(p)
    IN  IF Failed(node) THEN RecoverTopLevel(node) ELSE node

=============================================================================
