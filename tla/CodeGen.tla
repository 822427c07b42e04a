------------------------------ MODULE CodeGen ------------------------------
(***************************************************************************)
(* The code generator of codegen.cpp: compileModule, compileFunc and       *)
(* compileToken walk the transformed syntax tree and emit bytes, constants,*)
(* source locations and label references into a ModuleBuilder, which       *)
(* builderToModule turns into a Module.                                    *)
(*                                                                         *)
(* A token is [type, at, arg, children]: its location, what it names or    *)
(* holds, and its subtrees in the order in which they are compiled.  The   *)
(* C++ recursion over the tree is the sequence todo of what is still to be *)
(* compiled and emitted.  Opcode bytes are numbered from ByteSize on, so   *)
(* that small values of ByteSize keep them apart from operand bytes.       *)
(***************************************************************************)
EXTENDS Integers, Sequences, FiniteSets

CONSTANTS
  Trees,          \* the modules to compile, as sequences of function tokens
  Subtrees(_),    \* the tokens of a function's body
  Strings,        \* what names and literals are
  SEGMENT_SIZE,   \* elements per segment; 1024 in the code
  ByteSize,       \* values of a byte; 256 in the code
  Garbage         \* what uninitialized memory holds

Word == ByteSize * ByteSize * ByteSize * ByteSize

ASSUME ByteAssumption == ByteSize \in Nat /\ ByteSize > 1
ASSUME SegmentAssumption == SEGMENT_SIZE \in 1..Word
ASSUME StringsAssumption == "tuple" \in Strings
ASSUME GarbageAssumption == Garbage \notin Nat

VARIABLES
  tree,           \* the functions of the module
  begun,          \* how many of them compileModule has begun
  todo,           \* what is left of the current function
  globalFuncs,    \* function names to labels
  labels,         \* the current function's label names to labels
  bytecode,       \* the builder's fields; its segment lists as sequences
  constants,
  srcLoc,
  nextLabel,
  labelRefs,
  labelDefs,
  module,         \* Building, or the Module made, or Crashed
  emitted,        \* history: the instructions emitted, and the names of arguments
  placed          \* history: the labels put down, with their addresses

builder == <<bytecode, constants, srcLoc, nextLabel, labelRefs, labelDefs, emitted, placed>>
vars == <<tree, begun, todo, globalFuncs, labels, builder, module>>

Building == [status |-> "building"]
Crashed == [status |-> "crashed"]

-----------------------------------------------------------------------------
(* The maps from labels.  intEq compares the low byte of two keys only, so  *)
(* an entry stands for every label with its low byte; it keeps the key it   *)
(* was made with.                                                           *)

Low(l) == l % ByteSize

NoEntries == [c \in {} |-> [key |-> 0, value |-> 0]]

putMapUint32(map, l, v) ==
  [c \in DOMAIN map \cup {Low(l)} |->
     IF c # Low(l) THEN map[c]
     ELSE [key |-> IF c \in DOMAIN map THEN map[c].key ELSE l, value |-> v]]

(* The four bytes of emitUInt, high byte first; its mutant writes them the  *)
(* other way around.                                                        *)
Shifted(n) == n \div ByteSize
UIntReversed(n) ==
  <<Low(n), Low(Shifted(n)), Low(Shifted(Shifted(n))), Low(Shifted(Shifted(Shifted(n))))>>
UInt(n) ==
  <<Low(Shifted(Shifted(Shifted(n)))), Low(Shifted(Shifted(n))), Low(Shifted(n)), Low(n)>>

INSTRUCTIONS ==
  <<"PUSH_INT", "PUSH_FLOAT", "PUSH_BUILTIN", "PUSH_LITERAL", "PUSH_NONE", "CALL", "RETURN",
    "CREATE_FUNC", "LOAD", "STORE", "COND_JUMP_TRUE", "COND_JUMP_FALSE", "ABS_JUMP", "DUP",
    "ROT3", "SWAP", "POP", "CHECK_NONE", "DEF_FUNC">>
Op(name) == ByteSize - 1 + (CHOOSE i \in DOMAIN INSTRUCTIONS : INSTRUCTIONS[i] = name)

(* A boxed label read as a string, as getMapStr does: its bytes, low byte   *)
(* first, up to the first that is zero.                                     *)
AsString(l) ==
  LET ends == {i \in 1..4 : UInt(l)[5 - i] = 0}
  IN [i \in {j \in 1..4 : \A e \in ends : j < e} |-> UInt(l)[5 - i]]

-----------------------------------------------------------------------------
(* What a token is compiled to.                                             *)

Locate(token) == [type |-> "SRC_LOC", at |-> token.at]
Emit(op, arg) == [type |-> "EMIT", op |-> op, arg |-> arg]
Define(label) == [type |-> "DEFINE", label |-> label]
ArgName(name) == [type |-> "ARG_NAME", name |-> name]
Located(token, op, arg) == <<Locate(token), Emit(op, arg)>>

Opcode ==
  [INT |-> "PUSH_INT", FLOAT |-> "PUSH_FLOAT", LITERAL |-> "PUSH_LITERAL",
   IDENTIFIER |-> "LOAD", PUSH_BUILTIN |-> "PUSH_BUILTIN", BUILTIN |-> "PUSH_BUILTIN",
   PUSH_INT |-> "PUSH_INT", OP_CALL |-> "CALL", STORE |-> "STORE", DUP |-> "DUP",
   ROT3 |-> "ROT3", SWAP |-> "SWAP", POP |-> "POP", CHECK_NONE |-> "CHECK_NONE"]

(* Mutant of Call: the callee is counted as an argument.                    *)
CallCountingCallee(token) == token.children \o Located(token, "CALL", Len(token.children))
Call(token) == token.children \o Located(token, "CALL", Len(token.children) - 1)

Operator(token, name, count) ==
  Located(token, "PUSH_BUILTIN", name) \o token.children \o Located(token, "CALL", count)

(* compileToken.  The count of a tuple's elements is a byte.  No            *)
(* CondJumpToken has a nonzero when: toJumpsIf and toJumpsWhile make none.  *)
Parts(token) ==
  CASE token.type \in DOMAIN Opcode -> Located(token, Opcode[token.type], token.arg)
    [] token.type = "LABEL" -> <<Define(labels[token.arg])>>
    [] token.type = "ABS_JUMP" -> Located(token, "ABS_JUMP", labels[token.arg])
    [] token.type = "NEW_FUNC" -> Located(token, "CREATE_FUNC", globalFuncs[token.arg])
    [] token.type = "COND_JUMP" ->
         token.children \o Located(token, "COND_JUMP_FALSE", labels[token.arg])
    [] token.type = "RETURN" -> token.children \o Located(token, "RETURN", 0)
    [] token.type = "PUSH" -> <<Locate(token)>> \o token.children
    [] token.type = "CALL" -> Call(token)
    [] token.type = "TUPLE" -> Operator(token, "tuple", Low(Len(token.children)))
    [] token.type \in {"UNARY_OP", "BINARY_OP"} ->
         Operator(token, token.arg, Len(token.children))

TokenTypes == DOMAIN Opcode \cup {"LABEL", "ABS_JUMP", "NEW_FUNC", "COND_JUMP", "RETURN",
                                 "PUSH", "CALL", "TUPLE", "UNARY_OP", "BINARY_OP"}

(* compileFunc, from the function's label to its last instruction.  The     *)
(* module's own code has no OP_DEF_FUNC.                                    *)
Signature(func) ==
  IF func.arg = "$init" THEN <<>>
  ELSE <<Emit("DEF_FUNC", func.params)>>
         \o [i \in 1..Low(Len(func.params)) |-> ArgName(func.params[i])]
FuncParts(func) ==
  <<Define(globalFuncs[func.arg]), Locate(func)>> \o Signature(func)
    \o func.children \o <<Emit("PUSH_NONE", 0), Emit("RETURN", 0)>>

(* The names of the tokens at some places of a list, to the labels that     *)
(* createLabel gives them in order; of two equal names the last one counts. *)
Numbered(list, places, first) ==
  [n \in {list[i].arg : i \in places} |->
     first + Cardinality({i \in places : \E j \in places : i < j /\ list[j].arg = n})]

LabelsIn(func) == {i \in DOMAIN func.children : func.children[i].type = "LABEL"}

(* What the passes of transform.cpp hand over: trees that name no function  *)
(* and no label that is not there, and put labels among the statements of a *)
(* function only.  Numbers are of 32 bits.                                  *)
NumberTypes == {"INT", "FLOAT", "PUSH_INT", "OP_CALL"}
PlainTypes == {"DUP", "ROT3", "SWAP", "POP", "CHECK_NONE"}
NameTypes == {"LITERAL", "IDENTIFIER", "PUSH_BUILTIN", "BUILTIN", "STORE", "UNARY_OP",
              "BINARY_OP"}

ArgumentGiven(token, func, functions) ==
  /\ token.type \in NumberTypes => token.arg \in 0..Word - 1
  /\ token.type \in PlainTypes => token.arg = 0
  /\ token.type \in NameTypes => token.arg \in Strings
  /\ token.type \in {"LABEL", "ABS_JUMP", "COND_JUMP"} =>
       token.arg \in {func.children[i].arg : i \in LabelsIn(func)}
  /\ token.type = "NEW_FUNC" => token.arg \in {functions[i].arg : i \in DOMAIN functions}
  /\ token.type = "CALL" => token.children # <<>>

ASSUME TreesAssumption ==
  \A functions \in Trees :
    /\ functions \in Seq({functions[i] : i \in DOMAIN functions})
    /\ \E i \in DOMAIN functions : functions[i].arg = "$init"
    /\ \A i \in DOMAIN functions :
         LET func == functions[i]
         IN /\ func.at \in Nat /\ func.params \in Seq(Strings)
            /\ func.children \in Seq(Subtrees(func))
            /\ \A token \in Subtrees(func) :
                 /\ token.type \in TokenTypes /\ token.at \in Nat
                 /\ ArgumentGiven(token, func, functions)
                 /\ token.children \in Seq({t \in Subtrees(func) : t.type # "LABEL"})
                 /\ Len(token.children) < Word

-----------------------------------------------------------------------------
(* Constants.                                                               *)

Added(c) == [index |-> Len(constants), table |-> Append(constants, c)]
Found(i) == [index |-> i, table |-> constants]
(* internConstant: the indices it may answer, and the table it leaves.  It  *)
(* looks the newest segment up by the indices of the whole table, and when  *)
(* a constant is not there but an older segment exists, goes on to memory   *)
(* that holds no string: it may take that for the constant, or not, or fail *)
(* (index Garbage).                                                         *)
internConstant(c) ==
  LET newest == {i \in DOMAIN constants :
                   (i - 1) \div SEGMENT_SIZE = (Len(constants) - 1) \div SEGMENT_SIZE}
      at == {(i - 1) % SEGMENT_SIZE : i \in {j \in newest : constants[j] = c}}
      filled == 1 + ((Len(constants) - 1) % SEGMENT_SIZE)
  IN IF at # {} THEN {Found(CHOOSE i \in at : \A j \in at : i <= j)}
     ELSE IF Len(constants) <= SEGMENT_SIZE THEN {Added(c)}
     ELSE {Added(c)} \cup {Found(i) : i \in {Garbage} \cup filled .. Len(constants) - 1}

-----------------------------------------------------------------------------
(* The emitters, on the head of todo.                                       *)

Current == todo[1]
Doing(type) == module = Building /\ todo # <<>> /\ Current.type = type
Address == Len(bytecode)

ConstantOps == {"PUSH_BUILTIN", "PUSH_LITERAL", "LOAD", "STORE"}
NumberOps == {"PUSH_INT", "PUSH_FLOAT", "CALL"}
LabelOps == {"CREATE_FUNC", "COND_JUMP_FALSE", "ABS_JUMP"}
PlainOps == {"PUSH_NONE", "RETURN", "DUP", "ROT3", "SWAP", "POP", "CHECK_NONE"}

Noted(op, arg) == Append(emitted, [op |-> op, arg |-> arg, address |-> Address])

(* What every emitter leaves alone.                                         *)
Emitting == /\ todo' = Tail(todo)
            /\ UNCHANGED <<tree, begun, globalFuncs, labels, nextLabel, module>>

EmitPlain ==
  /\ Doing("EMIT") /\ Current.op \in PlainOps
  /\ bytecode' = Append(bytecode, Op(Current.op))
  /\ emitted' = Noted(Current.op, 0)
  /\ Emitting /\ UNCHANGED <<constants, srcLoc, labelRefs, labelDefs, placed>>

EmitNumber ==
  /\ Doing("EMIT") /\ Current.op \in NumberOps
  /\ bytecode' = bytecode \o <<Op(Current.op)>> \o UInt(Current.arg)
  /\ emitted' = Noted(Current.op, Current.arg)
  /\ Emitting /\ UNCHANGED <<constants, srcLoc, labelRefs, labelDefs, placed>>

Crash == /\ module' = Crashed
         /\ UNCHANGED <<tree, begun, todo, globalFuncs, labels, builder>>

(* The bytes before, then the constant's index.                             *)
EmitIndex(c, before, op) ==
  \E r \in internConstant(c) :
    IF r.index = Garbage THEN Crash
    ELSE /\ bytecode' = bytecode \o before \o UInt(r.index)
         /\ constants' = r.table
         /\ emitted' = Noted(op, c)
         /\ Emitting /\ UNCHANGED <<srcLoc, labelRefs, labelDefs, placed>>

EmitConstant ==
  /\ Doing("EMIT") /\ Current.op \in ConstantOps
  /\ EmitIndex(Current.arg, <<Op(Current.op)>>, Current.op)

(* emitLabelRef: a dummy operand, and where it is.                          *)
refsWith(label) ==
  putMapUint32(labelRefs, label,
    <<Address + 1>> \o (IF Low(label) \in DOMAIN labelRefs THEN labelRefs[Low(label)].value
                        ELSE <<>>))

EmitLabelRef ==
  /\ Doing("EMIT") /\ Current.op \in LabelOps
  /\ labelRefs' = refsWith(Current.arg)
  /\ bytecode' = bytecode \o <<Op(Current.op)>> \o UInt(0)
  /\ emitted' = Noted(Current.op, Current.arg)
  /\ Emitting /\ UNCHANGED <<constants, srcLoc, labelDefs, placed>>

(* emitDefFunc: the count of the arguments, a byte, then their names.       *)
EmitDefFunc ==
  /\ Doing("EMIT") /\ Current.op = "DEF_FUNC"
  /\ bytecode' = bytecode \o <<Op(Current.op), Low(Len(Current.arg))>>
  /\ emitted' = Noted(Current.op, Current.arg)
  /\ Emitting /\ UNCHANGED <<constants, srcLoc, labelRefs, labelDefs, placed>>

EmitArgName ==
  /\ Doing("ARG_NAME")
  /\ EmitIndex(Current.name, <<>>, "ARG_NAME")

EmitLabel ==
  /\ Doing("DEFINE")
  /\ labelDefs' = putMapUint32(labelDefs, Current.label, Address)
  /\ placed' = placed \cup {<<Current.label, Address>>}
  /\ Emitting /\ UNCHANGED <<bytecode, constants, srcLoc, labelRefs, emitted>>

(* Mutant of EmitSrcLoc: the location is filed under the next address.      *)
EmitSrcLocLate ==
  /\ Doing("SRC_LOC")
  /\ srcLoc' = Append(srcLoc, [index |-> Address + 1, location |-> Current.at])
  /\ Emitting /\ UNCHANGED <<bytecode, constants, labelRefs, labelDefs, emitted, placed>>

EmitSrcLoc ==
  /\ Doing("SRC_LOC")
  /\ srcLoc' = Append(srcLoc, [index |-> Address, location |-> Current.at])
  /\ Emitting /\ UNCHANGED <<bytecode, constants, labelRefs, labelDefs, emitted, placed>>

-----------------------------------------------------------------------------
(* compileToken and compileFunc.                                            *)

CompileToken ==
  /\ module = Building /\ todo # <<>> /\ Current.type \in TokenTypes
  /\ todo' = Parts(Current) \o Tail(todo)
  /\ UNCHANGED <<tree, begun, globalFuncs, labels, builder, module>>

(* Mutant of CompileFunc: label numbers start again in every function.      *)
CompileFuncRenumbering ==
  /\ module = Building /\ todo = <<>> /\ begun < Len(tree)
  /\ begun' = begun + 1
  /\ LET func == tree[begun + 1]
     IN /\ todo' = FuncParts(func)
        /\ labels' = Numbered(func.children, LabelsIn(func), 0)
  /\ UNCHANGED <<tree, globalFuncs, builder, module>>

CompileFunc ==
  /\ module = Building /\ todo = <<>> /\ begun < Len(tree)
  /\ begun' = begun + 1
  /\ LET func == tree[begun + 1]
     IN /\ todo' = FuncParts(func)
        /\ labels' = Numbered(func.children, LabelsIn(func), nextLabel)
        /\ nextLabel' = nextLabel + Cardinality(LabelsIn(func))
  /\ UNCHANGED <<tree, globalFuncs, bytecode, constants, srcLoc, labelRefs, labelDefs, emitted,
                 placed, module>>

-----------------------------------------------------------------------------
(* builderToModule.                                                         *)

(* compactSegments: of the last segment, as many elements are copied as its *)
(* remainder says, and none when it is full.                                *)
Full(s) == s # <<>> /\ Len(s) % SEGMENT_SIZE = 0
compactSegments(s) ==
  [i \in DOMAIN s |-> IF Full(s) /\ i > Len(s) - SEGMENT_SIZE THEN Garbage ELSE s[i]]

(* The references are patched by class.  A definition is looked up by the   *)
(* keys of the entries, as strings.                                         *)
Defines(c) == /\ c \in DOMAIN labelDefs
              /\ AsString(labelDefs[c].key) = AsString(labelRefs[c].key)

Patched(bytes) ==
  [i \in DOMAIN bytes |->
     LET at == {p \in (DOMAIN labelRefs) \X (1..4) :
                  \E r \in DOMAIN labelRefs[p[1]].value : labelRefs[p[1]].value[r] + p[2] = i}
         p == CHOOSE q \in at : TRUE
     IN IF at = {} THEN bytes[i] ELSE UInt(labelDefs[p[1]].value)[p[2]]]

ModuleBuilt ==
  [status |-> "made",
   constants |-> compactSegments(constants),
   bytecode |-> Patched(compactSegments(bytecode)),
   srcLoc |-> compactSegments(srcLoc),
   entryIndex |-> labelDefs[Low(globalFuncs["$init"])].value]

BuilderToModule ==
  /\ module = Building /\ todo = <<>> /\ begun = Len(tree)
  /\ IF \A c \in DOMAIN labelRefs : Defines(c)
     THEN /\ module' = ModuleBuilt
          /\ UNCHANGED <<tree, begun, todo, globalFuncs, labels, builder>>
     ELSE Crash

Finished == module # Building /\ UNCHANGED vars

-----------------------------------------------------------------------------
(* compileModule gives every function its label first.                      *)
Init ==
  /\ tree \in Trees /\ begun = 0
  /\ globalFuncs = Numbered(tree, DOMAIN tree, 0)
  /\ nextLabel = Len(tree)
  /\ todo = <<>> /\ labels = Numbered(<<>>, {}, 0)
  /\ bytecode = <<>> /\ constants = <<>> /\ srcLoc = <<>> /\ emitted = <<>>
  /\ labelRefs = NoEntries /\ labelDefs = NoEntries /\ placed = {}
  /\ module = Building

Next == \/ CompileFunc \/ CompileToken
        \/ EmitPlain \/ EmitNumber \/ EmitConstant \/ EmitLabelRef \/ EmitDefFunc \/ EmitArgName
        \/ EmitLabel \/ EmitSrcLoc
        \/ BuilderToModule \/ Finished

Spec == Init /\ [][Next]_vars

=============================================================================
