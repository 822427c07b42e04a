----------------------------- MODULE Transform -----------------------------
(***************************************************************************)
(* The passes of transform.cpp, which bring a token tree into the form the *)
(* code generator takes: functions lifted out of expressions, lists and    *)
(* objects desugared, control structures turned into jumps, patterns into  *)
(* stack operations, blocks flattened.                                     *)
(*                                                                         *)
(* A token is [type, at, arg, children].  The children of an IF are its    *)
(* conditions and blocks in turn, with the else block last; those of an    *)
(* OBJECT its keys and values in turn; those of a FUNC the statements of   *)
(* its body.                                                               *)
(***************************************************************************)
EXTENDS Integers, Sequences, TLC
LOCAL INSTANCE SequencesExt

CONSTANT ByteSize       \* values of a byte; 256 in the code

Token(type, at, arg, children) ==
  [type |-> type, at |-> at, arg |-> arg, children |-> children]
Block(at, children) == Token("BLOCK", at, "", children)
Push(at, value) == Token("PUSH", at, "", <<value>>)
PushBuiltin(at, name) == Token("PUSH_BUILTIN", at, name, <<>>)
PushInt(at, n) == Token("PUSH_INT", at, n, <<>>)
OpCall(at, arity) == Token("OP_CALL", at, arity, <<>>)
Store(at, name) == Token("STORE", at, name, <<>>)
Plain(type, at) == Token(type, at, 0, <<>>)
ConsToken(at, left, right) == Token("BINARY_OP", at, "::", <<left, right>>)
NowhereNone == Token("BUILTIN", 0, "none", <<>>)

(* createLabelToken and createAbsJumpToken give no location.                *)
Label(name) == Token("LABEL", 0, name, <<>>)
AbsJump(name) == Token("ABS_JUMP", 0, name, <<>>)

(* uniqueName: the id is a byte, and counts on.  The mutant does not count. *)
uniqueName(id) == "$" \o ToString(id)
NextIdSame(id) == id
NextId(id) == (id + 1) % ByteSize

-----------------------------------------------------------------------------
(* transformClosures: every function is lifted to the top level under a     *)
(* name of its own, an inner one after the one around it is named and       *)
(* before it is put down.  (FoldLeft threads the counter through the        *)
(* children in the order in which copyToken visits them.)                   *)

RECURSIVE closureVisitor(_, _)
closureVisitor(token, data) ==
  LET isFunc == token.type = "FUNC"
      name == uniqueName(data.id)
      visited ==
        FoldLeft(LAMBDA acc, child :
                   LET r == closureVisitor(child, acc.data)
                   IN [children |-> Append(acc.children, r.token), data |-> r.data],
                 [children |-> <<>>,
                  data |-> IF isFunc THEN [data EXCEPT !.id = NextId(@)] ELSE data],
                 token.children)
      copy == [token EXCEPT !.children = visited.children]
  IN IF isFunc
     THEN [token |-> Push(token.at, Token("NEW_FUNC", token.at, name, <<>>)),
           data |-> [visited.data EXCEPT !.funcs = <<[copy EXCEPT !.arg = name]>> \o @]]
     ELSE [token |-> copy, data |-> visited.data]

transformClosures(module) ==
  LET outside == closureVisitor(module, [id |-> 0, funcs |-> <<>>])
  IN Block(module.at, <<outside.token, Block(module.at, outside.data.funcs)>>)

-----------------------------------------------------------------------------
(* transformListToCons and transformObjectDesugar.                          *)

RECURSIVE listToCons(_)
listToCons(token) ==
  LET visited == [i \in DOMAIN token.children |-> listToCons(token.children[i])]
  IN IF token.type = "LIST"
     THEN FoldRight(LAMBDA left, right : ConsToken(left.at, left, right), visited, NowhereNone)
     ELSE [token EXCEPT !.children = visited]

RECURSIVE objectDesugar(_)
objectDesugar(token) ==
  LET visited == [i \in DOMAIN token.children |-> objectDesugar(token.children[i])]
      tuples == [i \in 1..(Len(visited) \div 2) |->
                   Token("TUPLE", token.at, "", <<visited[2 * i - 1], visited[2 * i]>>)]
  IN IF token.type = "OBJECT"
     THEN Token("UNARY_OP", token.at, "object", <<Token("LIST", token.at, "", tuples)>>)
     ELSE [token EXCEPT !.children = visited]

-----------------------------------------------------------------------------
(* transformControlToJumps.                                                 *)

(* Mutants of JumpsOfBranch and JumpsOfWhile: the block runs on into the    *)
(* next branch; the loop does not test its condition again.                 *)
JumpsOfBranchFalling(condition, block, next, end) ==
  <<Token("COND_JUMP", condition.at, next, <<condition>>), block, Label(next)>>
JumpsOfWhileOnce(condition, body, start, end) ==
  <<Token("COND_JUMP", condition.at, end, <<condition>>), Label(start), body,
    AbsJump(start), Label(end)>>

JumpsOfBranch(condition, block, next, end) ==
  <<Token("COND_JUMP", condition.at, next, <<condition>>), block, AbsJump(end), Label(next)>>
JumpsOfWhile(condition, body, start, end) ==
  <<Label(start), Token("COND_JUMP", condition.at, end, <<condition>>), body,
    AbsJump(start), Label(end)>>

RECURSIVE toJumps(_, _)

(* The jumps of the branches, one after the other; the end label is named   *)
(* in the first.                                                            *)
Branches(token, id) ==
  FoldLeft(LAMBDA acc, k :
             LET condition == toJumps(token.children[2 * k - 1], NextId(acc.id))
                 block == toJumps(token.children[2 * k], condition.id)
                 first == acc.end = ""
                 end == IF first THEN uniqueName(block.id) ELSE acc.end
             IN [stmts |-> acc.stmts \o JumpsOfBranch(condition.token, block.token,
                                                      uniqueName(acc.id), end),
                 end |-> end,
                 id |-> IF first THEN NextId(block.id) ELSE block.id],
           [stmts |-> <<>>, end |-> "", id |-> id],
           [k \in 1..(Len(token.children) \div 2) |-> k])

toJumpsIf(token, id) ==
  LET branches == Branches(token, id)
      hasElse == Len(token.children) % 2 = 1
      else == toJumps(token.children[Len(token.children)], branches.id)
  IN [token |-> Block(token.at, branches.stmts
                                  \o (IF hasElse THEN <<else.token>> ELSE <<>>)
                                  \o <<Label(branches.end)>>),
      id |-> IF hasElse THEN else.id ELSE branches.id]

toJumpsWhile(token, id) ==
  LET condition == toJumps(token.children[1], NextId(NextId(id)))
      body == toJumps(token.children[2], condition.id)
  IN [token |-> Block(token.at, JumpsOfWhile(condition.token, body.token, uniqueName(id),
                                             uniqueName(NextId(id)))),
      id |-> body.id]

toJumps(token, id) ==
  LET visited ==
        FoldLeft(LAMBDA acc, child :
                   LET r == toJumps(child, acc.id)
                   IN [children |-> Append(acc.children, r.token), id |-> r.id],
                 [children |-> <<>>, id |-> id], token.children)
  IN CASE token.type = "IF" -> toJumpsIf(token, id)
       [] token.type = "WHILE" -> toJumpsWhile(token, id)
       [] OTHER -> [token |-> [token EXCEPT !.children = visited.children], id |-> visited.id]

-----------------------------------------------------------------------------
(* transformDestructure.  A pattern takes the value on top of the stack.    *)

DupUnlast(at, i, n) == IF i < n THEN <<Plain("DUP", at)>> ELSE <<>>

(* The i-th part of a tuple on the stack, counted from 0 in a byte.         *)
Get(at, i) == <<PushBuiltin(at, "get"), PushInt(at, (i - 1) % ByteSize), Plain("ROT3", at),
                OpCall(at, 2)>>

RECURSIVE destructure(_)
RECURSIVE destructureLValue(_)

TuplePattern(token) ==
  LET parts == token.children
  IN FlattenSeq([i \in DOMAIN parts |->
       DupUnlast(token.at, i, Len(parts)) \o Get(token.at, i) \o <<destructureLValue(parts[i])>>])

ConsPattern(token) ==
  <<PushBuiltin(token.at, "unpack_cons"), Plain("SWAP", token.at), OpCall(token.at, 1),
    Plain("DUP", token.at)>>
    \o Get(token.at, 1) \o <<destructureLValue(token.children[1])>>
    \o Get(token.at, 2) \o <<destructureLValue(token.children[2])>>

(* The visitor is not applied to the key itself, only below it.             *)
CopyBelow(token) == [token EXCEPT !.children = [i \in DOMAIN @ |-> destructure(@[i])]]

ObjectPattern(token) ==
  LET n == Len(token.children) \div 2
  IN FlattenSeq([i \in 1..n |->
       DupUnlast(token.at, i, n)
         \o <<Push(token.at, CopyBelow(token.children[2 * i - 1])), Plain("SWAP", token.at),
              OpCall(token.at, 1), destructureLValue(token.children[2 * i])>>])

CallPattern(token) ==
  LET args == Tail(token.children)
      at == token.at
  IN <<Plain("DUP", at), PushBuiltin(at, "unpack_call"), Plain("SWAP", at),
       Push(at, CopyBelow(token.children[1])), Plain("SWAP", at),
       PushInt(at, Len(args) % ByteSize), OpCall(at, 3)>>
     \o FlattenSeq([i \in DOMAIN args |->
          DupUnlast(at, i, Len(args))
            \o <<PushBuiltin(at, "get"), Plain("SWAP", at), PushInt(at, (i - 1) % ByteSize),
                 OpCall(at, 2), destructureLValue(args[i])>>])

ConstantPattern(token) ==
  <<PushBuiltin(token.at, "assert_equal"), Plain("SWAP", token.at),
    Push(token.at, CopyBelow(token)), OpCall(token.at, 2), Plain("POP", token.at)>>

(* The other tokens are no patterns; the code returns NULL for them.        *)
destructureLValue(token) ==
  CASE token.type = "IDENTIFIER" -> Store(token.at, token.arg)
    [] token.type = "BUILTIN" /\ token.arg = "none" -> Plain("CHECK_NONE", token.at)
    [] token.type = "TUPLE" -> Block(token.at, TuplePattern(token))
    [] token.type = "BINARY_OP" /\ token.arg = "::" -> Block(token.at, ConsPattern(token))
    [] token.type = "OBJECT" -> Block(token.at, ObjectPattern(token))
    [] token.type = "CALL" -> Block(token.at, CallPattern(token))
    [] token.type \in {"INT", "LITERAL"} -> Block(token.at, ConstantPattern(token))

destructure(token) ==
  IF token.type = "ASSIGNMENT"
  THEN LET left == token.children[1]
           right == token.children[2]
       IN Block(token.at, <<Push(right.at, CopyBelow(right)), destructureLValue(left)>>)
  ELSE CopyBelow(token)

-----------------------------------------------------------------------------
(* transformFlattenBlocks and transformInitFunc.                            *)

RECURSIVE flattenBlocks(_)
flatList(children) ==
  FlattenSeq([i \in DOMAIN children |->
                LET flat == flattenBlocks(children[i])
                IN IF flat.type = "BLOCK" THEN flat.children ELSE <<flat>>])
flattenBlocks(token) ==
  [token EXCEPT !.children =
     IF token.type \in {"BLOCK", "FUNC"} THEN flatList(@)
     ELSE [i \in DOMAIN @ |-> flattenBlocks(@[i])]]

Func(at, name, params, body) ==
  [type |-> "FUNC", at |-> at, arg |-> name, params |-> params, children |-> body]

transformInitFunc(module) ==
  LET isFunc(token) == token.type = "FUNC"
      isOther(token) == token.type # "FUNC"
  IN Block(module.at,
       <<Func(module.at, "$init", <<"$arg">>, SelectSeq(module.children, isOther)),
         Block(module.at, SelectSeq(module.children, isFunc))>>)

(* The functions of the module, as compileModule finds them.                *)
transformModule(module) ==
  LET jumps == toJumps(listToCons(transformClosures(module)), 0).token
      plain == listToCons(objectDesugar(destructure(jumps)))
  IN flattenBlocks(transformInitFunc(flattenBlocks(plain))).children

=============================================================================
