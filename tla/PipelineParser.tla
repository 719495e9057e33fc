----------------------------- MODULE PipelineParser -----------------------------
(***************************************************************************)
(* The parser of the pipeline language (executor/dsl_lexer.py, dsl_parser.py): recursive   *)
(* descent over tokens, which reports what it did not expect and reads on.  Its call stack   *)
(* is what is left to parse; the tree it builds is left out, and with it the precedence of     *)
(* operators.  A token is chosen when it is first looked at, so every source is parsed.       *)
(*                                                                          *)
(* A character that starts no token becomes a token of the type that marks the end; blocks    *)
(* close at it, and what follows is read all the same.                               *)
(***************************************************************************)
EXTENDS Integers, Sequences, SequencesExt

CONSTANT MaxStack      \* bound: a source whose parse is this deep has no more tokens

VARIABLES
    unparsed,      \* what is left to parse, the next first
    ahead,         \* the token looked at, Unseen for none
    parse          \* "lexing", "parsing", "returned" or "raised": what raises is a string
                   \* without an end or a number that is none

parserVars == <<unparsed, ahead, parse>>

(* The values of tokens the parser tells apart; their type is left out with the errors    *)
(* that are reported when it is not the one expected.                                *)
Keywords ==
    {"description", "type", "layer", "domain", "input", "output", "tools", "capability", "body",
     "governance", "metadata", "data_type", "required", "max_retries", "token_budget", "tags",
     "step", "conditional_step", "condition", "loop", "parallel", "try_catch", "call", "inputs",
     "outputs", "retry", "name", "skill_id", "branches", "if", "then", "else", "test", "variable",
     "collection", "max_concurrency", "try_block", "catch_variable", "catch_block",
     "finally_block", "null"}
BinaryOperators == {"OR", "AND", "COMPARISON", "PLUS", "MINUS", "STAR"}
Types ==
    {"STRING", "BOOLEAN", "LBRACE", "RBRACE", "LBRACKET", "RBRACKET", "LPAREN", "RPAREN", "COLON",
     "COMMA", "DOT", "NOT", "OTHER", "EOF"} \cup BinaryOperators
Tokens ==
    [type : {"KEYWORD"}, value : Keywords] \cup [type : {"IDENTIFIER"} \cup Types, value : {"text"}]
      \cup [type : {"NUMBER"}, value : {"integer", "decimal", "malformed"}]
      \cup [type : {"STRING"}, value : {"integer"}]
End == [type |-> "EOF", value |-> "end"]
Unseen == [type |-> "unseen", value |-> "unseen"]

ParserInit == unparsed = <<"agent">> /\ ahead = Unseen /\ parse = "lexing"

-------------------------------------------------------------------------------
(* What _expect accepts, by the name of the place.                                 *)
Expected ==
    [colon |-> {"COLON"}, lbrace |-> {"LBRACE"}, rbrace |-> {"RBRACE"}, lbracket |-> {"LBRACKET"},
     rbracket |-> {"RBRACKET"}, rparen |-> {"RPAREN"}, text |-> {"STRING"}, keyword |-> {"KEYWORD"},
     words |-> {"STRING", "KEYWORD"}, name |-> {"IDENTIFIER", "KEYWORD"},
     key |-> {"IDENTIFIER", "KEYWORD", "STRING"}]

(* The methods that only call others: a block is its items between braces or brackets.   *)
Braces(items) == <<"lbrace", items, "rbrace">>
Brackets(items) == <<"lbracket", items, "rbracket">>
Productions ==
    [agent |-> <<"keyword", "name">> \o Braces("agentItems"),
     input |-> <<"name">> \o Braces("inputItems"), output |-> <<"name">> \o Braces("outputItems"),
     tools |-> Brackets("toolItems"), capability |-> <<"name", "colon", "name">>,
     governance |-> Braces("governanceItems"), metadata |-> Braces("metadataItems"),
     tags |-> Brackets("tagItems"), body |-> Braces("statements"),
     step |-> <<"name">> \o Braces("stepItems"), call |-> Braces("callItems"),
     inputs |-> Braces("inputsItems"), outputs |-> Braces("outputsItems"),
     retry |-> Braces("retryItems"),
     conditional_step |-> <<"name">> \o Braces("choiceItems"), branches |-> Brackets("branchList"),
     condition |-> Braces("conditionItems"), loop |-> <<"name">> \o Braces("loopItems"),
     parallel |-> Braces("parallelItems"), bodies |-> Brackets("bodyList"),
     try_catch |-> Braces("tryItems"), expression |-> <<"unary", "operators">>]

(* The key of an item and what is parsed after it.                                   *)
AgentItem(v) ==
    CASE v = "description" -> <<"any", "colon", "text">>
      [] v \in {"type", "layer"} -> <<"any", "colon", "keyword">>
      [] v = "domain" -> <<"any", "colon", "any">>
      [] v \in {"input", "output", "tools", "capability", "body", "governance", "metadata"} -> <<"any", v>>
      [] OTHER -> <<"any">>
FieldItem(s, v) ==
    CASE v = "description" -> <<"any", "colon", "words">>
      [] v = "data_type" \/ (v = "required" /\ s = "inputItems") -> <<"any", "colon", "any">>
      [] OTHER -> <<"any">>
Value(s, v) ==
    CASE s = "governanceItems" -> IF v \in {"max_retries", "token_budget"} THEN <<"integer">> ELSE <<"any">>
      [] s = "metadataItems" -> IF v = "tags" THEN <<"tags">> ELSE <<"any">>
      [] s = "callItems" -> IF v \in {"name", "skill_id"} THEN <<"name">> ELSE <<"any">>
      [] s = "retryItems" -> <<"integer">>
      [] s = "stepItems" /\ v \in {"call", "inputs", "outputs", "retry"} -> <<v>>
      [] s = "choiceItems" /\ v \in {"branches", "inputs", "outputs"} -> <<v>>
      [] s = "branchItems" /\ v \in {"if", "then", "else"} -> IF v = "if" THEN <<"expression">> ELSE <<"call">>
      [] s = "conditionItems" /\ v = "test" -> <<"expression">>
      [] s = "loopItems" /\ v \in {"test", "collection"} -> <<"expression">>
      [] s = "loopItems" /\ v \in {"variable", "body"} -> IF v = "body" THEN <<"body">> ELSE <<"any">>
      [] s = "parallelItems" /\ v \in {"branches", "max_concurrency"} -> IF v = "branches" THEN <<"bodies">> ELSE <<"limit">>
      [] s = "tryItems" /\ v = "catch_variable" -> <<"any">>
      [] s = "tryItems" /\ v \in {"try_block", "catch_block", "finally_block"} -> <<"body">>
      [] OTHER -> <<>>
Statement(v) ==
    IF v \in {"step", "conditional_step", "condition", "loop", "parallel", "try_catch"}
    THEN <<"any", v>> ELSE <<"any">>
Item(s, v) ==
    CASE s = "agentItems" -> AgentItem(v)
      [] s \in {"inputItems", "outputItems"} -> FieldItem(s, v)
      [] s = "statements" -> Statement(v)
      [] s = "toolItems" -> <<"any", "dots", "comma">>
      [] s = "dots" -> <<"any", "any">>
      [] s = "tagItems" -> <<"words", "comma">>
      [] s = "inputsItems" -> <<"key", "colon", "expression", "comma">>
      [] s = "outputsItems" -> <<"name", "colon", "key", "comma">>
      [] s = "branchList" -> Braces("branchItems") \o <<"comma">>
      [] s = "bodyList" -> <<"body", "comma">>
      [] s = "operators" -> <<"any", "unary">>
      [] s \in {"elements", "arguments"} -> <<"expression", "comma">>
      [] OTHER -> <<"any", "colon">> \o Value(s, v)

Loops ==
    {"agentItems", "inputItems", "outputItems", "toolItems", "dots", "governanceItems", "metadataItems",
     "tagItems", "statements", "stepItems", "callItems", "inputsItems", "outputsItems", "retryItems",
     "choiceItems", "branchList", "branchItems", "conditionItems", "loopItems", "parallelItems",
     "bodyList", "tryItems", "operators", "elements", "arguments"}
ClosesOf(s, t, unguarded) ==
    CASE s = "dots" -> t \notin {"DOT", "COLON"}
      [] s = "operators" -> t \notin BinaryOperators
      [] s \in unguarded -> t = (IF s = "arguments" THEN "RPAREN" ELSE "RBRACKET")
      [] s \in {"toolItems", "tagItems", "branchList", "bodyList", "elements"} -> t \in {"RBRACKET", "EOF"}
      [] OTHER -> t \in {"RBRACE", "EOF"}

(* Defect: the elements of an array are read until its bracket, as arguments are.        *)
ClosesAtBracket(s, t) == ClosesOf(s, t, {"arguments", "elements"})

(* Where a loop ends: every one but that of the arguments also at the end of the source. *)
Closes(s, t) == ClosesOf(s, t, {"arguments"})

-------------------------------------------------------------------------------
(* The lexer refuses an unterminated string before anything is parsed.                 *)
Lex == parse = "lexing" /\ parse' \in {"parsing", "raised"} /\ UNCHANGED <<unparsed, ahead>>

Readable ==
    IF ahead # Unseen THEN {ahead} ELSE IF Len(unparsed) > MaxStack THEN {End} ELSE Tokens \cup {End}

Looked(token, rest) == unparsed' = rest /\ ahead' = token /\ UNCHANGED parse
Taken(token, rest) == Looked(IF token = End THEN End ELSE Unseen, rest)
Raised == parse' = "raised" /\ UNCHANGED <<unparsed, ahead>>

Expand(s, rest) == s \in DOMAIN Productions /\ Looked(ahead, Productions[s] \o rest)

(* What is expected is taken, and so is what is found in its place.                    *)
Take(s, token, rest) == s \in DOMAIN Expected \cup {"any"} /\ Taken(token, rest)
Match(s, token, rest) ==
    s = "comma" /\ IF token.type = "COMMA" THEN Taken(token, rest) ELSE Looked(token, rest)
Number(s, token, rest) ==
    /\ s \in {"integer", "limit"}
    /\ IF token.value = "integer" \/ (s = "limit" /\ token.type # "NUMBER")
       THEN Taken(token, rest) ELSE Raised

Loop(s, token, rest) ==
    /\ s \in Loops
    /\ Looked(token, IF Closes(s, token.type) THEN rest ELSE Item(s, token.value) \o unparsed)

Unary(s, token, rest) ==
    /\ s = "unary"
    /\ Looked(token, (IF token.type \in {"NOT", "MINUS", "PLUS"} THEN <<"any", "unary">> ELSE <<"primary">>) \o rest)
Primary(s, token, rest) ==
    /\ s = "primary"
    /\ CASE token.value = "malformed" -> Raised
         [] token.type = "LPAREN" -> Taken(token, <<"expression", "rparen">> \o rest)
         [] token.type = "LBRACKET" -> Taken(token, <<"elements", "rbracket">> \o rest)
         [] token.type \in {"IDENTIFIER", "KEYWORD"} /\ token.value # "null" -> Taken(token, <<"variable">> \o rest)
         [] OTHER -> Taken(token, rest)
Variable(s, token, rest) ==
    \/ /\ s = "variable" /\ token.type = "LPAREN"
       /\ Taken(token, <<"arguments", "rparen">> \o rest)
    \/ /\ s \in {"variable", "access"} /\ (s = "variable" => token.type # "LPAREN")
       /\ CASE token.type = "DOT" -> Taken(token, <<"name", "access">> \o rest)
            [] token.type = "LBRACKET" -> Taken(token, <<"expression", "rbracket", "access">> \o rest)
            [] OTHER -> Looked(token, rest)

Return == parse = "parsing" /\ unparsed = <<>> /\ parse' = "returned" /\ UNCHANGED <<unparsed, ahead>>

ParserStep ==
    \/ Lex \/ Return
    \/ /\ parse = "parsing" /\ unparsed # <<>>
       /\ LET s == Head(unparsed)  rest == Tail(unparsed) IN
          \/ Expand(s, rest)
          \/ \E token \in Readable :
               \/ Take(s, token, rest) \/ Match(s, token, rest) \/ Number(s, token, rest)
               \/ Loop(s, token, rest) \/ Unary(s, token, rest)
               \/ Primary(s, token, rest) \/ Variable(s, token, rest)

-------------------------------------------------------------------------------
(* A parse that has met the end of its source returns, whatever was open there and          *)
(* whatever errors it has reported, unless the arguments of a call were: those are read       *)
(* until their parenthesis, which never comes (_parse_variable_or_call).                   *)
ParsesEnd == (parse = "parsing" /\ ahead = End) ~> (parse # "parsing" \/ "arguments" \in ToSet(unparsed))
===============================================================================
