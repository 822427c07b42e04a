------------------------------- MODULE Parser -------------------------------
(***************************************************************************)
(* The recursive descent of parse.cpp.  A text is a sequence of symbols:   *)
(* words, digits, quoted literals, operators and punctuation, and " " for  *)
(* white space and comments.  What the code reads character by character   *)
(* and never looks into, here is one symbol.                               *)
(*                                                                         *)
(* A ParseState is [src, index, error, token]: error says whether a        *)
(* message has been set (it is never taken back), token is what the        *)
(* function that returned last answered, NULL included.  A function that   *)
(* answers a list gives it as the children of a token ITEMS.  Tokens are   *)
(* those of Transform; their location is the index they are found at.      *)
(***************************************************************************)
EXTENDS Integers, Sequences

CONSTANTS Words,        \* identifiers that are no keywords
          Digits,       \* runs of digits
          Literals      \* quoted texts, with both quotes

KEYWORDS == {"def", "if", "then", "do", "elif", "else", "while", "end", "and", "or", "not",
             "return"}
Space == " "
OpenQuote == "'"        \* a quote that nothing closes
End == "eof"            \* the 0 at the end of a string

Token(type, at, arg, children) == [type |-> type, at |-> at, arg |-> arg, children |-> children]
NULL == Token("NULL", 0, "", <<>>)
Items(children) == Token("ITEMS", 0, "", children)
ConsList(head, tail) == Items(<<head>> \o tail.children)

createParseState(src) == [src |-> src, index |-> 1, error |-> FALSE, token |-> NULL]
Give(s, token) == [s EXCEPT !.token = token]
Nothing(s) == Give(s, NULL)
Fail(s) == [Nothing(s) EXCEPT !.error = TRUE]
Failed(s) == s.token = NULL

(* A list of the tokens of two states, an error in the second undone.       *)
GiveCons(head, rest) == IF Failed(rest) THEN rest ELSE Give(rest, ConsList(head, rest.token))

getChar(s) == IF s.index > Len(s.src) THEN End ELSE s.src[s.index]
Sees(s, symbols) == getChar(s) \in symbols
advance(s) == [s EXCEPT !.index = @ + 1]
skipWhitespace(s) == IF getChar(s) = Space THEN advance(s) ELSE s
IsWord(symbol) == symbol \in Words \cup KEYWORDS

(* The keywords a block may end with.                                       *)
FUNC_ENDS == {"end"}
IF_BODY_ENDS == {"elif", "else", "end"}
IF_ELSE_ENDS == {"end"}
WHILE_BODY_ENDS == {"end"}
MODULE_ENDS == {End}

Level(kind, ops) == [kind |-> kind, ops |-> ops]
OP_DATA == << Level("binary", {"."}), Level("binary", {"*", "/"}), Level("binary", {"+", "-"}),
              Level("binary", {"==", "!=", ">=", "<=", "<", ">"}), Level("prefix", {"not"}),
              Level("binary", {"and", "or"}), Level("right-to-left", {"::"}) >>
OP_LEVELS == Len(OP_DATA)
SeesOp(s, level) == Sees(s, OP_DATA[level].ops)

-----------------------------------------------------------------------------
(* Factors that are one symbol, or few.                                     *)

(* A sign, digits, a point and digits: any of them may be missing.          *)
parseIntOrFloat(s) ==
  LET SkipDigits(t) == IF Sees(t, Digits) THEN advance(t) ELSE t
      whole == SkipDigits(IF Sees(s, {"+", "-"}) THEN advance(s) ELSE s)
      isFloat == getChar(whole) = "."
      after == IF isFloat THEN SkipDigits(advance(whole)) ELSE whole
  IN Give(after, Token(IF isFloat THEN "FLOAT" ELSE "INT", s.index,
                       SubSeq(s.src, s.index, after.index - 1), <<>>))

parseLiteral(s) ==
  IF getChar(s) = OpenQuote THEN Fail(advance(s))
  ELSE Give(advance(s), Token("LITERAL", s.index, getChar(s), <<>>))

(* The test for a keyword looks at what comes after the identifier.         *)
parseIdentifier(s) ==
  LET isWord == IsWord(getChar(s))
      after == IF isWord THEN advance(s) ELSE s
  IN IF Sees(after, KEYWORDS) THEN Fail(after)
     ELSE Give(after, Token("IDENTIFIER", s.index, IF isWord THEN getChar(s) ELSE "", <<>>))

RECURSIVE parseArgs(_)
parseArgs(state) ==
  LET s == skipWhitespace(state)
      head == parseIdentifier(s)
  IN CASE getChar(s) = "do" -> Give(s, Items(<<>>))
       [] ~IsWord(getChar(s)) \/ Failed(head) -> Fail(s)
       [] OTHER -> GiveCons(head.token, parseArgs(head))

-----------------------------------------------------------------------------
RECURSIVE parseExpressionWithLevel(_, _), parseBlock(_, _)
parseExpression(s) == parseExpressionWithLevel(s, OP_LEVELS)

(* What an opening bracket has begun.  A comma before the closing ")" is    *)
(* taken and the ")" is not.                                                *)
RECURSIVE parseTupleHelper(_)
parseTupleHelper(state) ==
  LET head == parseExpression(skipWhitespace(state))
      s == skipWhitespace(head)
      next == skipWhitespace(advance(s))
  IN CASE Failed(head) -> head
       [] getChar(s) = ")" -> Give(advance(s), Items(<<head.token>>))
       [] getChar(s) = "," /\ getChar(next) = ")" -> Give(next, Items(<<head.token>>))
       [] getChar(s) = "," /\ getChar(next) # ")" -> GiveCons(head.token, parseTupleHelper(next))
       [] OTHER -> Fail(s)

parseTuple(s, at, first) ==
  LET rest == parseTupleHelper(s)
  IN IF Failed(rest) THEN rest
     ELSE Give(rest, Token("TUPLE", at, "", <<first>> \o rest.token.children))

RECURSIVE parseListHelper(_)
parseListHelper(state) ==
  LET head == parseExpression(skipWhitespace(state))
      s == skipWhitespace(head)
  IN CASE Failed(head) -> head
       [] getChar(s) = "," -> GiveCons(head.token, parseListHelper(advance(s)))
       [] getChar(s) = "]" -> Give(advance(s), Items(<<head.token>>))
       [] OTHER -> Fail(s)

RECURSIVE parseObjectHelper(_)
parseObjectHelper(state) ==
  LET key == parseExpression(skipWhitespace(state))
      colon == skipWhitespace(key)
      value == parseExpression(advance(colon))
      s == skipWhitespace(value)
  IN CASE Failed(key) -> key
       [] getChar(colon) # ":" -> Fail(colon)
       [] getChar(colon) = ":" /\ Failed(value) -> value
       [] OTHER ->
            CASE getChar(s) = "," -> GiveCons(key.token,
                                              GiveCons(value.token, parseObjectHelper(advance(s))))
              [] getChar(s) = "}" -> Give(advance(s), Items(<<key.token, value.token>>))
              [] OTHER -> Fail(s)

parseBracket(s, type, helper) ==
  IF Failed(helper) THEN helper ELSE Give(helper, [helper.token EXCEPT !.type = type, !.at = s.index])
parseList(s) == parseBracket(s, "LIST", parseListHelper(advance(s)))
parseObject(s) == parseBracket(s, "OBJECT", parseObjectHelper(advance(s)))

parseFunc(s) ==
  LET args == parseArgs(advance(s))
      body == parseBlock(advance(args), FUNC_ENDS)
  IN CASE Failed(args) \/ getChar(args) # "do" -> Fail(args)
       [] ~Failed(args) /\ Failed(body) -> body
       [] OTHER -> Give(advance(body),
                        [type |-> "FUNC", at |-> s.index, arg |-> "",
                         params |-> [i \in DOMAIN args.token.children |-> args.token.children[i].arg],
                         children |-> body.token.children])

(* In parentheses: whatever parseExpression answers, NULL as well.          *)
parseParentheses(s) ==
  LET inner == parseExpression(advance(s))
      close == skipWhitespace(inner)
  IN CASE getChar(close) = ")" -> advance(close)
       [] getChar(close) = "," -> parseTuple(advance(close), s.index, inner.token)
       [] OTHER -> Fail(close)

parseFactor(state) ==
  LET s == skipWhitespace(state)
  IN CASE getChar(s) = "def" -> parseFunc(s)
       [] getChar(s) = "(" -> parseParentheses(s)
       [] Sees(s, Digits \cup {"+", "-"}) -> parseIntOrFloat(s)
       [] getChar(s) # "def" /\ IsWord(getChar(s)) -> parseIdentifier(s)
       [] Sees(s, Literals \cup {OpenQuote}) -> parseLiteral(s)
       [] getChar(s) = "[" -> parseList(s)
       [] getChar(s) = "{" -> parseObject(s)
       [] OTHER -> Nothing(s)

(* After the point comes an identifier at once, or an empty one.            *)
RECURSIVE parseDotAccessHelper(_)
parseDotAccessHelper(left) ==
  LET s == skipWhitespace(left)
      id == parseIdentifier(advance(s))
      name == Token("LITERAL", id.token.at, id.token.arg, <<>>)
  IN CASE getChar(s) # "." -> s
       [] getChar(s) = "." /\ Failed(id) -> id
       [] OTHER -> parseDotAccessHelper(
                     Give(id, Token("BINARY_OP", s.index, ".", <<left.token, name>>)))

parseDotAccess(s) ==
  LET left == parseFactor(s)
  IN IF Failed(left) THEN left ELSE parseDotAccessHelper(left)

(* Mutant of what may begin an argument: no list.                           *)
factorAheadNoList(s) == Sees(s, {"(", "{", OpenQuote} \cup Literals \cup Digits \cup Words)
factorAhead(s) == Sees(s, {"(", "[", "{", OpenQuote} \cup Literals \cup Digits \cup Words)

(* The arguments of a call, whether they could be parsed or not.            *)
RECURSIVE parseArguments(_, _)
parseArguments(s, children) ==
  IF factorAhead(s)
  THEN LET child == parseDotAccess(s)
       IN parseArguments(skipWhitespace(child), Append(children, child.token))
  ELSE Give(s, Items(children))

parseCall(state) ==
  LET s == skipWhitespace(state)
      first == parseDotAccess(s)
      after == skipWhitespace(first)
      all == parseArguments(after, <<first.token>>)
  IN CASE Failed(first) -> first
       [] ~Failed(first) /\ ~factorAhead(after) -> after
       [] OTHER -> Give(all, Token("CALL", s.index, "", all.token.children))

-----------------------------------------------------------------------------
(* Operators.  The location of the first of a row is that of all of them.   *)

(* Mutant of the operand to the right: it takes the operators of its own    *)
(* level with it.                                                           *)
RightLevelSame(level) == level
RightLevel(level) == level - 1

RECURSIVE parseBinaryOpRest(_, _, _)
parseBinaryOpRest(left, level, at) ==
  LET right == parseExpressionWithLevel(advance(left), RightLevel(level))
      both == Give(right, Token("BINARY_OP", at, getChar(left), <<left.token, right.token>>))
  IN CASE ~SeesOp(left, level) -> left
       [] SeesOp(left, level) /\ Failed(right) -> right
       [] OTHER -> parseBinaryOpRest(skipWhitespace(both), level, at)

parseBinaryOp(s, level) ==
  LET left == skipWhitespace(parseExpressionWithLevel(s, level - 1))
  IN IF Failed(left) THEN left ELSE parseBinaryOpRest(left, level, left.index)

parseBinaryOpRightToLeft(s, level) ==
  LET left == skipWhitespace(parseExpressionWithLevel(s, level - 1))
      right == parseExpressionWithLevel(advance(left), level)
  IN CASE Failed(left) \/ ~SeesOp(left, level) -> left
       [] ~Failed(left) /\ SeesOp(left, level) /\ Failed(right) -> right
       [] OTHER -> Give(right, Token("BINARY_OP", left.index, getChar(left),
                                     <<left.token, right.token>>))

parsePrefixUnaryOp(state, level) ==
  LET s == skipWhitespace(state)
      child == parseExpressionWithLevel(advance(s), level)
  IN CASE ~SeesOp(s, level) -> parseExpressionWithLevel(s, level - 1)
       [] SeesOp(s, level) /\ Failed(child) -> child
       [] OTHER -> Give(child, Token("UNARY_OP", s.index, getChar(s), <<child.token>>))

parseExpressionWithLevel(s, level) ==
  CASE level = 0 -> parseCall(s)
    [] level > 0 /\ OP_DATA[level].kind = "prefix" -> parsePrefixUnaryOp(s, level)
    [] level > 0 /\ OP_DATA[level].kind = "right-to-left" -> parseBinaryOpRightToLeft(s, level)
    [] OTHER -> parseBinaryOp(s, level)

-----------------------------------------------------------------------------
(* Statements.                                                              *)

parseAssignment(state) ==
  LET s == skipWhitespace(state)
      left == parseExpression(s)
      after == skipWhitespace(left)
      right == parseExpression(skipWhitespace(advance(after)))
  IN CASE Failed(left) -> left
       [] ~Failed(left) /\ getChar(after) = ";" -> advance(after)
       [] ~Failed(left) /\ getChar(after) = "=" ->
            CASE Failed(right) -> right
              [] ~Failed(right) /\ getChar(right) # ";" -> Fail(right)
              [] OTHER -> Give(advance(right),
                               Token("ASSIGNMENT", s.index, "", <<left.token, right.token>>))
       [] OTHER -> Fail(after)

(* The conditions and blocks, in turn.  Without a condition there are none, *)
(* and that is no error here.                                               *)
RECURSIVE parseIfStmtBranches(_)
parseIfStmtBranches(s) ==
  LET condition == parseExpression(s)
      body == parseBlock(advance(condition), IF_BODY_ENDS)
      Branch(rest) == GiveCons(condition.token, GiveCons(body.token, rest))
  IN CASE Failed(condition) -> Give(condition, Items(<<>>))
       [] ~Failed(condition) /\ getChar(condition) # "then" -> Fail(condition)
       [] OTHER ->
            CASE Failed(body) -> body
              [] ~Failed(body) /\ getChar(body) = "elif" -> Branch(parseIfStmtBranches(advance(body)))
              [] ~Failed(body) /\ Sees(body, {"else", "end"}) -> Branch(Give(body, Items(<<>>)))
              [] OTHER -> Fail(body)

parseIfStmt(s) ==
  LET branches == parseIfStmtBranches(advance(s))
      else == parseBlock(advance(branches), IF_ELSE_ENDS)
      last == IF getChar(branches) = "else" THEN else ELSE branches
      elseBranch == IF getChar(branches) = "else" /\ ~Failed(else) THEN <<else.token>> ELSE <<>>
  IN CASE Failed(branches) -> branches
       [] ~Failed(branches) /\ ~Sees(branches, {"else", "end"}) -> Fail(branches)
       [] OTHER -> IF getChar(last) # "end" THEN Fail(last)
                   ELSE Give(advance(last),
                             Token("IF", s.index, "", branches.token.children \o elseBranch))

parseWhileStmt(s) ==
  LET conditional == parseExpression(advance(s))
      body == parseBlock(advance(conditional), WHILE_BODY_ENDS)
  IN CASE Failed(conditional) -> conditional
       [] ~Failed(conditional) /\ getChar(conditional) # "do" -> Fail(conditional)
       [] OTHER -> CASE Failed(body) -> body
                     [] ~Failed(body) /\ getChar(body) # "end" -> Fail(body)
                     [] OTHER -> Give(advance(body),
                                      Token("WHILE", s.index, "", <<conditional.token, body.token>>))

parseReturnStmt(s) ==
  LET body == parseExpression(advance(s))
      after == skipWhitespace(body)
  IN CASE Failed(body) -> body
       [] ~Failed(body) /\ getChar(after) # ";" -> Fail(after)
       [] OTHER -> Give(advance(after), Token("RETURN", s.index, "", <<body.token>>))

parseStatement(state) ==
  LET s == skipWhitespace(state)
  IN CASE getChar(s) = "if" -> parseIfStmt(s)
       [] getChar(s) = "while" -> parseWhileStmt(s)
       [] getChar(s) = "return" -> parseReturnStmt(s)
       [] OTHER -> parseAssignment(s)

(* The statements up to, and without, one of the keywords.                  *)
RECURSIVE parseBlockHelper(_, _)
parseBlockHelper(state, ends) ==
  LET s == skipWhitespace(state)
      head == parseStatement(s)
  IN CASE Sees(s, ends) -> Give(s, Items(<<>>))
       [] getChar(s) = End /\ End \notin ends -> Fail(s)
       [] getChar(s) # End /\ ~Sees(s, ends) ->
            IF Failed(head) THEN head ELSE GiveCons(head.token, parseBlockHelper(head, ends))

parseBlock(state, ends) == parseBracket(skipWhitespace(state), "BLOCK", parseBlockHelper(state, ends))

(* "module", with its token; "error", where there is a message; or          *)
(* "nothing", NULL without a message.                                       *)
parseModule(src) ==
  LET s == parseBlock(createParseState(src), MODULE_ENDS)
      ended == getChar(s) = End
  IN [status |-> CASE s.error \/ ~ended -> "error"
                   [] ~s.error /\ ended /\ Failed(s) -> "nothing"
                   [] OTHER -> "module",
      token |-> s.token]
=============================================================================
