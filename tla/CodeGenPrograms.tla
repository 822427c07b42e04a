-------------------------- MODULE CodeGenPrograms --------------------------
(***************************************************************************)
(* The modules CodeGen makes, as the programs that Execute runs; and what  *)
(* the trees it is given must be like for the interpreter to run them.     *)
(***************************************************************************)
EXTENDS CodeGenProperties, Bytecode

(* Sums that begin again, from 0, at the places in fresh.                   *)
Running(gain, fresh) ==
  LET sum[i \in DOMAIN gain] == IF i \in fresh THEN 0 ELSE sum[i - 1] + gain[i - 1]
  IN sum

Gain(x) == Pushes(x) - Pops(x)

-----------------------------------------------------------------------------
(* What the passes of transform.cpp hand over.                              *)

(* Tokens that leave one operand more.                                      *)
Expressions == {"INT", "FLOAT", "LITERAL", "IDENTIFIER", "PUSH_BUILTIN", "BUILTIN", "PUSH_INT",
                "NEW_FUNC", "CALL", "TUPLE", "UNARY_OP", "BINARY_OP", "PUSH"}

(* What other tokens take and leave is what their instruction does; the     *)
(* operand of COND_JUMP and RETURN is a subtree.                            *)
Own(token) == [op |-> Opcode[token.type], arg |-> token.arg]
TokenNeeds(token) ==
  IF token.type \in DOMAIN Opcode \ Expressions THEN Pops(Own(token)) ELSE 0
TokenGain(token) ==
  IF token.type \in Expressions THEN 1
  ELSE IF token.type \in DOMAIN Opcode THEN Gain(Own(token)) ELSE 0

(* The operands there are before each statement of a function: none at its  *)
(* beginning and after a label.                                             *)
Heights(func) ==
  Running([i \in DOMAIN func.children |-> TokenGain(func.children[i])],
          {1} \cup {i \in DOMAIN func.children : i - 1 \in LabelsIn(func)})

(* The arguments of a call, of which the interpreter counts the low byte.   *)
Arguments(token) == CASE token.type = "CALL" -> Len(token.children) - 1
                      [] token.type = "TUPLE" -> Low(Len(token.children))
                      [] token.type \in {"UNARY_OP", "BINARY_OP"} -> Len(token.children)
                      [] token.type = "OP_CALL" -> token.arg

(* The thing an instruction that pushes a literal leaves.                   *)
Literal(op, arg) == CASE op = "PUSH_LITERAL" -> [type |-> "STR", str |-> arg]
                      [] op = "PUSH_FLOAT" -> [type |-> "FLOAT", float |-> arg]
                      [] op = "PUSH_INT" -> [type |-> "INT", int |-> arg]
LiteralOps == {"PUSH_LITERAL", "PUSH_FLOAT", "PUSH_INT"}

OperandsGiven(token) ==
  /\ \A i \in DOMAIN token.children : token.children[i].type \in Expressions
  /\ token.type \in {"PUSH", "RETURN", "COND_JUMP"} => Len(token.children) = 1
  /\ token.type \in {"CALL", "TUPLE", "UNARY_OP", "BINARY_OP", "OP_CALL"} =>
       Arity(Arguments(token)) > 0
  /\ token.type \in {"IDENTIFIER", "STORE"} => token.arg \in Names
  /\ token.type \in DOMAIN Opcode =>
       (Opcode[token.type] \in LiteralOps =>
          Literal(Opcode[token.type], token.arg) \in Literals)

(* Expressions below expressions, calls with arguments, and before every    *)
(* statement the operands that it takes.                                    *)
ASSUME OperandsAssumption ==
  \A functions \in Trees : \A f \in DOMAIN functions :
    LET func == functions[f]
    IN /\ func.params \in Seq(Names)
       /\ \A token \in Subtrees(func) : OperandsGiven(token)
       /\ \A i \in DOMAIN func.children :
            Heights(func)[i] >= TokenNeeds(func.children[i])

-----------------------------------------------------------------------------
(* The program executeCode runs when it is given the module.                *)

(* The names after a constructor are parts of it: an instruction stands at  *)
(* the place of its last part, so the next one at the place after.          *)
Real == {i \in DOMAIN emitted : emitted[i].op # "ARG_NAME"}
Place(i) == i + (IF emitted[i].op = "DEF_FUNC" THEN Low(Len(emitted[i].arg)) ELSE 0)
Places == {Place(i) : i \in Real}
InstructionAt(k) == CHOOSE i \in Real : Place(i) = k
IndexAt(a) == Place(CHOOSE i \in Real : emitted[i].address = a)

Loaded(e) ==
  [op |-> e.op,
   arg |-> CASE e.op \in LabelOps -> IndexAt(readU32Module(e.address + 1))
             [] e.op = "PUSH_LITERAL" -> Literal(e.op, readConstantModule(e.address + 1))
             [] e.op \in {"PUSH_FLOAT", "PUSH_INT"} -> Literal(e.op, readU32Module(e.address + 1))
             [] e.op \in {"PUSH_BUILTIN", "LOAD", "STORE"} -> readConstantModule(e.address + 1)
             [] OTHER -> e.arg]

LoadedCode == [k \in Places |-> Loaded(emitted[InstructionAt(k)])]

(* The operands a function has pushed by the time it gets somewhere: none   *)
(* at its beginning, after its constructor and where a label was put down.  *)
Afresh(i) == \/ i = 1
             \/ \E p \in placed : p[2] = emitted[i].address
             \/ emitted[i - 1].op \in {"DEF_FUNC", "ARG_NAME"}
Depths == Running([i \in DOMAIN emitted |-> Gain(emitted[i])], {i \in DOMAIN emitted : Afresh(i)})

(* The interpreter runs what the code generator makes: the assumption of    *)
(* Execute about its programs.                                              *)
RunsOnInterpreter ==
  Made /\ WithinLimits =>
    WellFormed([code |-> LoadedCode, depth |-> [k \in Places |-> Depths[InstructionAt(k)]],
                entry |-> IndexAt(module.entryIndex)])
=============================================================================
