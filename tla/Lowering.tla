------------------------------ MODULE Lowering ------------------------------
(***************************************************************************)
(* A function body beside what Transform makes of it, run in lockstep.     *)
(*                                                                         *)
(* The statements of the source are run by their meaning: control follows  *)
(* the structure, a pattern binds the parts of a value all at once.  The   *)
(* tokens they are transformed into are run one by one, with an operand    *)
(* stack, as the instructions of execute.cpp they are compiled to.  Both   *)
(* wait at the same places, where an expression is evaluated: any value    *)
(* that ValuesOf gives for it may come out, the same one for both.         *)
(***************************************************************************)
EXTENDS Transform
LOCAL INSTANCE SequencesExt

CONSTANTS
  Bodies,         \* the function bodies to run, as sequences of statements
  ValuesOf(_),    \* what an expression may evaluate to
  StackBound      \* operands beyond which no more expressions are evaluated

VARIABLES
  tokens,         \* the transformed body; never changes
  todo,           \* what is left to do of the source, and the bindings made so far
  bound,
  pc,             \* the same for the tokens, and what execFunc would see of them
  stack,
  locals,
  status

vars == <<tokens, todo, bound, pc, stack, locals, status>>

-----------------------------------------------------------------------------
(* Values: scalars, and the tuples, lists and objects that hold others.     *)
(* An object answers the symbols w and h, in that order; point unpacks one. *)
Scalar(tag, of) == [tag |-> tag, of |-> of, elems |-> <<>>]
Held(tag, elems) == [tag |-> tag, of |-> "", elems |-> elems]
IntValue(n) == Scalar("INT", ToString(n))
Str(s) == Scalar("STR", s)
Bool(b) == Scalar("BOOL", ToString(b))
None == Scalar("NONE", "")
Builtin(n) == Scalar("BUILTIN", n)
List(elems) == IF elems = <<>> THEN None ELSE Held("LIST", elems)
Symbols == <<"w", "h">>
Constants == {"w", "h", "point", "none"}

(* What a token stands for whenever it is evaluated, if it is not a         *)
(* question to the environment.                                             *)
IsConstant(token) == \/ token.type \in {"INT", "LITERAL"}
                     \/ token.type \in {"IDENTIFIER", "BUILTIN"} /\ token.arg \in Constants
Constant(token) == CASE token.type = "INT" -> Scalar("INT", token.arg)
                     [] token.type = "LITERAL" -> Str(token.arg)
                     [] token.arg = "none" -> None
                     [] OTHER -> Scalar("SYMBOL", token.arg)

-----------------------------------------------------------------------------
(* What the functions called by patterns answer: a value, or no value.      *)
Some(v) == <<v>>
Nothing == <<>>

get(v, i) == IF v.tag = "TUPLE" /\ i.tag = "INT" /\ \E k \in DOMAIN v.elems : IntValue(k - 1) = i
             THEN Some(v.elems[CHOOSE k \in DOMAIN v.elems : IntValue(k - 1) = i]) ELSE Nothing
unpack_cons(v) == IF v.tag = "LIST" THEN Some(Held("TUPLE", <<Head(v.elems), List(Tail(v.elems))>>))
                  ELSE Nothing
assert_equal(v, w) == IF v = w /\ v.tag \in {"INT", "STR"} THEN Some(None) ELSE Nothing
property(s, v) == IF v.tag = "OBJECT" /\ \E k \in DOMAIN v.elems : Symbols[k] = s
                  THEN Some(v.elems[CHOOSE k \in DOMAIN v.elems : Symbols[k] = s]) ELSE Nothing
unpack_call(f, v, n) ==
  IF f = Scalar("SYMBOL", "point") /\ v.tag = "OBJECT" /\ IntValue(Len(v.elems)) = n
  THEN Some(Held("TUPLE", v.elems)) ELSE Nothing

Answer(f, args) ==
  CASE f = Builtin("get") /\ Len(args) = 2 -> get(args[1], args[2])
    [] f = Builtin("unpack_cons") /\ Len(args) = 1 -> unpack_cons(args[1])
    [] f = Builtin("assert_equal") /\ Len(args) = 2 -> assert_equal(args[1], args[2])
    [] f = Builtin("unpack_call") /\ Len(args) = 3 -> unpack_call(args[1], args[2], args[3])
    [] f.tag = "SYMBOL" /\ Len(args) = 1 -> property(f.of, args[1])
    [] OTHER -> Nothing

-----------------------------------------------------------------------------
(* The meaning of a pattern: the names it binds, in order, and what to; or  *)
(* that it does not match.                                                  *)
NoMatch == [matches |-> FALSE, bindings |-> <<>>]
Binding(name, v) == [matches |-> TRUE, bindings |-> <<[name |-> name, value |-> v]>>]

(* The parts of v that the parts of a pattern are matched with.             *)
Parts(pattern, v) ==
  CASE pattern.type = "TUPLE" ->
         IF v.tag = "TUPLE" /\ Len(v.elems) >= Len(pattern.children) THEN v.elems ELSE Nothing
    [] pattern.type = "LIST" ->
         IF v.tag = "LIST" /\ Len(v.elems) = Len(pattern.children) THEN v.elems ELSE Nothing
    [] pattern.type = "BINARY_OP" ->
         IF v.tag = "LIST" THEN <<Head(v.elems), List(Tail(v.elems))>> ELSE Nothing
    [] pattern.type = "OBJECT" ->
         LET parts == [i \in 1..(Len(pattern.children) \div 2) |->
                         property(pattern.children[2 * i - 1].arg, v)]
         IN IF Nothing \in {parts[i] : i \in DOMAIN parts} THEN Nothing ELSE FlattenSeq(parts)
    [] pattern.type = "CALL" ->
         IF v.tag = "OBJECT" /\ Len(v.elems) = Len(pattern.children) - 1 THEN v.elems ELSE Nothing

Patterns(pattern) ==
  CASE pattern.type = "OBJECT" ->
         [i \in 1..(Len(pattern.children) \div 2) |-> pattern.children[2 * i]]
    [] pattern.type = "CALL" -> Tail(pattern.children)
    [] OTHER -> pattern.children

RECURSIVE Match(_, _)
Match(pattern, v) ==
  CASE pattern.type = "IDENTIFIER" -> Binding(pattern.arg, v)
    [] pattern.type \in {"INT", "LITERAL"} ->
         [matches |-> v = Constant(pattern), bindings |-> <<>>]
    [] OTHER ->
         IF Parts(pattern, v) = Nothing THEN NoMatch
         ELSE LET parts == [i \in DOMAIN Patterns(pattern) |->
                              Match(Patterns(pattern)[i], Parts(pattern, v)[i])]
              IN [matches |-> \A i \in DOMAIN parts : parts[i].matches,
                  bindings |-> FlattenSeq([i \in DOMAIN parts |-> parts[i].bindings])]

Bind(env, bindings) ==
  FoldLeft(LAMBDA e, b : (b.name :> b.value) @@ e, env, bindings)

-----------------------------------------------------------------------------
(* The meaning of the source: where it waits, and how it goes on from there *)
(* with a value.  (todo holds statements; a while stays there until it is   *)
(* done, an if gives way to one of its branches.)                           *)
Ended == [type |-> "ended"]
Failed == [type |-> "failed"]
At(expression) == [type |-> "evaluate", expression |-> expression]

Asked == IF todo = <<>> THEN Ended
         ELSE CASE todo[1] = Failed -> Failed
                [] todo[1].type \in {"IF", "WHILE", "RETURN"} -> At(todo[1].children[1])
                [] todo[1].type = "ASSIGNMENT" -> At(todo[1].children[2])
                [] OTHER -> At(todo[1])

Later == Tail(todo)
NextBranches(token) == [token EXCEPT !.children = SubSeq(@, 3, Len(@))]
Else(token) ==
  CASE Len(token.children) = 2 -> <<>>
    [] Len(token.children) = 3 -> token.children[3].children
    [] OTHER -> <<NextBranches(token)>>

IsBool(v) == v.tag = "BOOL"
Proceeds(v) ==
  CASE todo[1].type \in {"IF", "WHILE"} -> IsBool(v)
    [] todo[1].type = "ASSIGNMENT" -> Match(todo[1].children[1], v).matches
    [] OTHER -> TRUE

Remaining(v) ==
  CASE todo[1].type = "IF" ->
         (IF v = Bool(TRUE) THEN todo[1].children[2].children ELSE Else(todo[1])) \o Later
    [] todo[1].type = "WHILE" ->
         IF v = Bool(TRUE) THEN todo[1].children[2].children \o todo ELSE Later
    [] todo[1].type = "RETURN" -> <<>>
    [] OTHER -> Later

Bound(v) ==
  IF todo[1].type = "ASSIGNMENT" THEN Bind(bound, Match(todo[1].children[1], v).bindings)
  ELSE bound

-----------------------------------------------------------------------------
(* The tokens.                                                              *)
Running == status = "running" /\ pc <= Len(tokens)
Current == tokens[pc]
Is(type) == Running /\ Current.type = type
Peek(i) == stack[Len(stack) - i]
Drop(n) == SubSeq(stack, 1, Len(stack) - n)

(* Where the tokens wait.                                                   *)
Waits ==
  CASE status = "failed" -> Failed
    [] pc > Len(tokens) -> Ended
    [] Current.type \in {"COND_JUMP", "RETURN"} -> At(Current.children[1])
    [] Current.type = "PUSH" /\ ~IsConstant(Current.children[1]) -> At(Current.children[1])
    [] Current.type \in {"CALL", "IDENTIFIER"} -> At(Current)
    [] OTHER -> [type |-> "busy"]

Continue(newStack) == /\ stack' = newStack /\ pc' = pc + 1
                      /\ UNCHANGED <<tokens, todo, bound, locals, status>>

Target(label) == CHOOSE i \in DOMAIN tokens :
                   tokens[i].type = "LABEL" /\ tokens[i].arg = label

Fail == /\ status' = "failed"
        /\ UNCHANGED <<tokens, todo, bound, pc, stack, locals>>

RunLabel == Is("LABEL") /\ Continue(stack)

RunAbsJump == /\ Is("ABS_JUMP")
              /\ pc' = Target(Current.arg)
              /\ UNCHANGED <<tokens, todo, bound, stack, locals, status>>

RunPush ==
  \/ Is("PUSH") /\ IsConstant(Current.children[1])
     /\ Continue(Append(stack, Constant(Current.children[1])))
  \/ Is("PUSH_BUILTIN") /\ Continue(Append(stack, Builtin(Current.arg)))
  \/ Is("PUSH_INT") /\ Continue(Append(stack, IntValue(Current.arg)))

RunShuffle ==
  \/ Is("DUP") /\ Continue(Append(stack, Peek(0)))
  \/ Is("ROT3") /\ Continue(Drop(3) \o <<Peek(1), Peek(2), Peek(0)>>)
  \/ Is("SWAP") /\ Continue(Drop(2) \o <<Peek(0), Peek(1)>>)
  \/ Is("POP") /\ Continue(Drop(1))

RunStore ==
  /\ Is("STORE")
  /\ locals' = (Current.arg :> Peek(0)) @@ locals
  /\ stack' = Drop(1) /\ pc' = pc + 1
  /\ UNCHANGED <<tokens, todo, bound, status>>

RunCheckNone == /\ Is("CHECK_NONE")
                /\ IF Peek(0) = None THEN Continue(Drop(1)) ELSE Fail

RunOpCall ==
  /\ Is("OP_CALL")
  /\ LET n == Current.arg
         answer == Answer(Peek(n), [i \in 1..n |-> Peek(n - i)])
     IN IF answer = Nothing THEN Fail ELSE Continue(Drop(n + 1) \o answer)

RunToken == RunLabel \/ RunAbsJump \/ RunPush \/ RunShuffle \/ RunStore
            \/ RunCheckNone \/ RunOpCall

-----------------------------------------------------------------------------
(* Both evaluate an expression.  A source that cannot go on with its value  *)
(* has nothing left to do, and the tokens are to find out.  (A call that is *)
(* a statement leaves its value on the stack: nothing pops it, so a loop    *)
(* would go on for ever without StackBound.)                                *)
Evaluate ==
  /\ Len(stack) < StackBound
  /\ Running /\ Waits.type = "evaluate" /\ Asked.type = "evaluate"
  /\ \E v \in ValuesOf(Waits.expression) :
       /\ IF Proceeds(v) THEN todo' = Remaining(v) /\ bound' = Bound(v)
          ELSE todo' = <<Failed>> /\ UNCHANGED bound
       /\ CASE Current.type = "COND_JUMP" ->
                 /\ IF IsBool(v) THEN /\ pc' = IF v = Bool(FALSE) THEN Target(Current.arg)
                                              ELSE pc + 1
                                      /\ UNCHANGED status
                    ELSE status' = "failed" /\ UNCHANGED pc
                 /\ UNCHANGED stack
            [] Current.type = "RETURN" ->
                 pc' = Len(tokens) + 1 /\ UNCHANGED <<stack, status>>
            [] OTHER ->
                 stack' = Append(stack, v) /\ pc' = pc + 1 /\ UNCHANGED status
  /\ UNCHANGED <<tokens, locals>>

Stopped == (~Running \/ Len(stack) >= StackBound) /\ UNCHANGED vars

Init ==
  /\ \E body \in Bodies :
       /\ todo = body
       /\ tokens = transformModule(Block(0, body))[1].children
  /\ bound = <<>> /\ locals = <<>>
  /\ pc = 1 /\ stack = <<>> /\ status = "running"

Next == RunToken \/ Evaluate \/ Stopped

Spec == Init /\ [][Next]_vars

(* One thread runs the tokens, and an enabled step is taken.                *)
FairSpec == Spec /\ WF_vars(RunToken) /\ WF_vars(Evaluate)
=============================================================================
