------------------------------- MODULE Grammar -------------------------------
(***************************************************************************)
(* What the comments of parse.cpp say a text may be: the EBNF productions, *)
(* read as a relation between a tree and the text it is the tree of, and   *)
(* as a way to write a tree down with no more parentheses than it needs.   *)
(* Neither looks at how the parser goes about it.  Texts are the symbols   *)
(* of Parser without white space.                                          *)
(*                                                                         *)
(* The parser does not keep to four of the productions.  Each stands here  *)
(* as it is written and, for those who allow the departure from it, as the *)
(* code has it; d is the set of departures allowed:                        *)
(*   "arguments"   a call is <factor> (<factor>)?, lines 651 and 664: the  *)
(*                 code takes any number of factors                        *)
(*   "operands"    and, or are followed by an <expression3>, line 656: the *)
(*                 code takes an <expression4>, that is not <expression3>, *)
(*                 as line 660 has it for all levels                       *)
(*   "targets"     an <identifier> stands before =, line 776: the code     *)
(*                 takes any expression, which is how patterns are written *)
(*   "conditions"  a <block> stands between if and then, line 872: the     *)
(*                 code takes an expression                                *)
(* What no production has is read off the code and the tests: signs and    *)
(* floats, objects, functions and the point, ::, the inside of a tuple or  *)
(* a list, while, return, and that a <block> has statements of all kinds   *)
(* where line 1033 has assignments.                                        *)
(***************************************************************************)
EXTENDS Parser
LOCAL INSTANCE SequencesExt

Node(type, arg, children) == Token(type, 0, arg, children)
Children(t) == t.children
First(t) == t.children[1]
Second(t) == t.children[2]

(* A sign, digits, a point and digits; one digit at least.                  *)
IsNumber(w) == /\ \E i \in DOMAIN w : w[i] \in Digits
               /\ \A i \in DOMAIN w : \/ w[i] \in Digits
                                      \/ w[i] \in {"+", "-"} /\ i = 1
                                      \/ w[i] = "."

(* Cut at: w is a part before i, the symbol there, and a part after it.     *)
Before(w, i) == SubSeq(w, 1, i - 1)
After(w, i) == SubSeq(w, i + 1, Len(w))
Within(w) == SubSeq(w, 2, Len(w) - 1)
Encloses(w, open, close) == Len(w) >= 2 /\ w[1] = open /\ w[Len(w)] = close

Departures == {"arguments", "operands", "targets", "conditions"}

RECURSIVE Expression(_, _, _, _), Block(_, _, _)

(* <tree> <sep> <tree> <sep> ... <tree>                                     *)
RECURSIVE Separated(_, _, _, _)
Separated(d, trees, sep, w) ==
  IF Len(trees) = 1 THEN Expression(d, OP_LEVELS, trees[1], w)
  ELSE \E i \in DOMAIN w : /\ w[i] = sep
                           /\ Expression(d, OP_LEVELS, trees[1], Before(w, i))
                           /\ Separated(d, Tail(trees), sep, After(w, i))

(* Keys and values by turns.                                                *)
RECURSIVE Pairs(_, _, _)
Pairs(d, trees, w) ==
  \E i \in DOMAIN w :
    /\ w[i] = ":"
    /\ Expression(d, OP_LEVELS, trees[1], Before(w, i))
    /\ \/ Len(trees) = 2 /\ Expression(d, OP_LEVELS, trees[2], After(w, i))
       \/ /\ Len(trees) > 2
          /\ \E j \in (i + 1)..Len(w) :
               /\ w[j] = ","
               /\ Expression(d, OP_LEVELS, trees[2], SubSeq(w, i + 1, j - 1))
               /\ Pairs(d, SubSeq(trees, 3, Len(trees)), After(w, j))

(* <factor> ::= <integer> | <literal> | <identifier> | ( <expression> ) |   *)
(* <tuple> | <list>, and objects and functions.                             *)
Factor(d, t, w) ==
  \/ t.type \in {"INT", "FLOAT"} /\ w = t.arg /\ IsNumber(w)
  \/ t.type = "LITERAL" /\ w = <<t.arg>> /\ t.arg \in Literals
  \/ t.type = "IDENTIFIER" /\ w = <<t.arg>> /\ IsWord(t.arg)
  \/ Encloses(w, "(", ")") /\ Expression(d, OP_LEVELS, t, Within(w))
  \/ /\ t.type = "TUPLE" /\ Encloses(w, "(", ")")
     /\ Len(t.children) >= 2 /\ Separated(d, t.children, ",", Within(w))
  \/ t.type = "LIST" /\ Encloses(w, "[", "]") /\ Separated(d, t.children, ",", Within(w))
  \/ t.type = "OBJECT" /\ Encloses(w, "{", "}") /\ Pairs(d, t.children, Within(w))
  \/ /\ t.type = "FUNC" /\ Encloses(w, "def", "end")
     /\ LET n == Len(t.params)
        IN /\ Len(w) >= n + 3 /\ SubSeq(w, 2, n + 1) = t.params /\ w[n + 2] = "do"
           /\ Block(d, t.children, SubSeq(w, n + 3, Len(w) - 1))

(* A factor and the names that are looked up in it.                         *)
RECURSIVE Access(_, _, _)
Access(d, t, w) ==
  \/ Factor(d, t, w)
  \/ /\ t.type = "BINARY_OP" /\ t.arg = "." /\ Len(w) >= 3 /\ w[Len(w) - 1] = "."
     /\ Second(t).type = "LITERAL" /\ Second(t).arg = w[Len(w)] /\ IsWord(w[Len(w)])
     /\ Access(d, First(t), SubSeq(w, 1, Len(w) - 2))

(* <expression0> ::= <factor> (<factor>)?                                   *)
RECURSIVE Row(_, _, _)
Row(d, trees, w) ==
  IF trees = <<>> THEN w = <<>>
  ELSE \E i \in DOMAIN w : /\ Access(d, trees[1], SubSeq(w, 1, i))
                           /\ Row(d, Tail(trees), After(w, i))

(* <expressionX>: operators of one level associate to the left, :: to the   *)
(* right; not stands before an expression of its own level.  OP_DATA counts *)
(* from the point, so <expression3> is its level 4.                         *)
Operation(d, level, t, w) ==
  LET leftLevel == level - 1
      rightLevel == CASE OP_DATA[level].kind = "right-to-left" -> level
                      [] t.arg \in {"and", "or"} /\ "operands" \notin d -> level - 2
                      [] OTHER -> level - 1
  IN /\ t.arg \in OP_DATA[level].ops
     /\ IF OP_DATA[level].kind = "prefix"
        THEN /\ t.type = "UNARY_OP" /\ w # <<>> /\ w[1] = t.arg
             /\ Expression(d, level, First(t), Tail(w))
        ELSE /\ t.type = "BINARY_OP"
             /\ \E i \in DOMAIN w :
                  /\ w[i] = t.arg
                  /\ Expression(d, IF OP_DATA[level].kind = "binary" THEN level ELSE leftLevel,
                                First(t), Before(w, i))
                  /\ Expression(d, rightLevel, Second(t), After(w, i))

Expression(d, level, t, w) ==
  \/ Access(d, t, w)
  \/ /\ t.type = "CALL" /\ Len(t.children) >= 2 /\ Row(d, t.children, w)
     /\ Len(t.children) = 2 \/ "arguments" \in d
  \/ t.type \in {"BINARY_OP", "UNARY_OP"}
     /\ \E l \in 1..level : Operation(d, l, t, w)

(* <if> ::= if <block> then <block> (elif <block> then <block>)*            *)
(* (else <block>)? end                                                      *)
Condition(d, t, w) == \/ Block(d, <<t>>, w)
                      \/ "conditions" \in d /\ Expression(d, OP_LEVELS, t, w)

RECURSIVE Branches(_, _, _)
Branches(d, trees, w) ==
  \E i \in DOMAIN w :
    /\ w[i] = "then"
    /\ Condition(d, trees[1], Before(w, i))
    /\ CASE Len(trees) = 2 -> Block(d, Children(trees[2]), After(w, i))
         [] Len(trees) # 2 ->
              \E j \in (i + 1)..Len(w) :
                /\ Block(d, Children(trees[2]), SubSeq(w, i + 1, j - 1))
                /\ IF Len(trees) = 3 THEN w[j] = "else" /\ Block(d, Children(trees[3]), After(w, j))
                   ELSE w[j] = "elif" /\ Branches(d, SubSeq(trees, 3, Len(trees)), After(w, j))

(* <assignment> ::= <expression> ; | <identifier> = <expression> ;          *)
Target(d, t, w) == \/ t.type = "IDENTIFIER" /\ w = <<t.arg>> /\ IsWord(t.arg)
                   \/ "targets" \in d /\ Expression(d, OP_LEVELS, t, w)

Statement(d, t, w) ==
  \/ w # <<>> /\ w[Len(w)] = ";" /\ Expression(d, OP_LEVELS, t, Before(w, Len(w)))
  \/ /\ t.type = "ASSIGNMENT" /\ w # <<>> /\ w[Len(w)] = ";"
     /\ \E i \in DOMAIN w : /\ w[i] = "="
                            /\ Target(d, First(t), Before(w, i))
                            /\ Expression(d, OP_LEVELS, Second(t), SubSeq(w, i + 1, Len(w) - 1))
  \/ t.type = "IF" /\ Encloses(w, "if", "end") /\ Branches(d, t.children, Within(w))
  \/ /\ t.type = "WHILE" /\ Encloses(w, "while", "end")
     /\ \E i \in DOMAIN w : /\ w[i] = "do"
                            /\ Expression(d, OP_LEVELS, First(t), SubSeq(w, 2, i - 1))
                            /\ Block(d, Children(Second(t)), SubSeq(w, i + 1, Len(w) - 1))
  \/ t.type = "RETURN" /\ Encloses(w, "return", ";") /\ Expression(d, OP_LEVELS, First(t), Within(w))

Block(d, trees, w) ==
  IF trees = <<>> THEN w = <<>>
  ELSE \E i \in DOMAIN w : /\ Statement(d, trees[1], SubSeq(w, 1, i))
                           /\ Block(d, Tail(trees), After(w, i))

-----------------------------------------------------------------------------
(* Writing a tree down.  The level of a tree is that of its operator; a     *)
(* number with a sign and a function are no arguments of a call.            *)
LevelOf(t) ==
  CASE t.type \in {"BINARY_OP", "UNARY_OP"} /\ t.arg # "." ->
         CHOOSE l \in DOMAIN OP_DATA : t.arg \in OP_DATA[l].ops
    [] t.type \in {"CALL", "FUNC"} \/ (t.type \in {"INT", "FLOAT"} /\ t.arg[1] \notin Digits) -> 0
    [] OTHER -> -1

Join(parts, sep) ==
  FlattenSeq([i \in DOMAIN parts |-> IF i = 1 THEN parts[i] ELSE sep \o parts[i]])

RECURSIVE Write(_, _), WriteBlock(_), WriteStatement(_)
Bare(t) ==
  LET All(trees, sep) == Join([i \in DOMAIN trees |-> Write(OP_LEVELS, trees[i])], sep)
      level == LevelOf(t)
      Left(l) == IF OP_DATA[l].kind = "binary" THEN l ELSE l - 1
      Right(l) == IF OP_DATA[l].kind = "binary" THEN l - 1 ELSE l
  IN CASE t.type \in {"INT", "FLOAT"} -> t.arg
       [] t.type \in {"LITERAL", "IDENTIFIER"} -> <<t.arg>>
       [] t.type = "TUPLE" -> <<"(">> \o All(t.children, <<",">>) \o <<")">>
       [] t.type = "LIST" -> <<"[">> \o All(t.children, <<",">>) \o <<"]">>
       [] t.type = "OBJECT" ->
            <<"{">> \o Join([i \in 1..(Len(t.children) \div 2) |->
                               All(<<t.children[2*i - 1], t.children[2*i]>>, <<":">>)], <<",">>)
            \o <<"}">>
       [] t.type = "FUNC" -> <<"def">> \o t.params \o <<"do">> \o WriteBlock(t) \o <<"end">>
       [] t.type = "CALL" -> FlattenSeq([i \in DOMAIN t.children |-> Write(-1, t.children[i])])
       [] t.type = "UNARY_OP" -> <<t.arg>> \o Write(level, First(t))
       [] t.type = "BINARY_OP" /\ t.arg = "." -> Write(-1, First(t)) \o <<".", Second(t).arg>>
       [] t.type = "BINARY_OP" /\ t.arg # "." ->
            Write(Left(level), First(t)) \o <<t.arg>> \o Write(Right(level), Second(t))

Write(level, t) == IF LevelOf(t) <= level THEN Bare(t) ELSE <<"(">> \o Bare(t) \o <<")">>

WriteStatement(t) ==
  LET Expr(i) == Write(OP_LEVELS, t.children[i])
      Opens(i) == IF i = 1 THEN <<"if">> ELSE <<"elif">>
  IN CASE t.type = "ASSIGNMENT" -> Expr(1) \o <<"=">> \o Expr(2) \o <<";">>
       [] t.type = "RETURN" -> <<"return">> \o Expr(1) \o <<";">>
       [] t.type = "WHILE" -> <<"while">> \o Expr(1) \o <<"do">> \o WriteBlock(Second(t)) \o <<"end">>
       [] t.type = "IF" ->
            FlattenSeq([i \in 1..(Len(t.children) \div 2) |->
                          Opens(i) \o Expr(2*i - 1) \o <<"then">> \o WriteBlock(t.children[2*i])])
            \o (IF Len(t.children) % 2 = 0 THEN <<>>
                ELSE <<"else">> \o WriteBlock(Last(t.children)))
            \o <<"end">>
       [] OTHER -> Write(OP_LEVELS, t) \o <<";">>

WriteBlock(t) == FlattenSeq([i \in DOMAIN t.children |-> WriteStatement(t.children[i])])
=============================================================================
