------------------------------ MODULE Bytecode ------------------------------
(***************************************************************************)
(* The instructions of bytecode.h: what they take and leave on the operand *)
(* stack, where control goes after them, and when a program of them can be *)
(* run.                                                                    *)
(*                                                                         *)
(* A program is one module's bytecode with an instruction per address (an  *)
(* operand takes no address of its own).  Its "depth" is a certificate:    *)
(* at each address, a lower bound of the operands its function has pushed  *)
(* by then.  It is no part of the code; that it exists is what the         *)
(* interpreter takes on trust from the code generator.                     *)
(***************************************************************************)
EXTENDS Naturals, Sequences

CONSTANTS
  Names,          \* the identifiers the programs use
  Literals        \* the ints, floats and strings they hold, as things

(* OP_CALL keeps only the low byte of its operand.  A program has no call   *)
(* whose low byte is 0: the parser makes none, and a symbol or libVarargs   *)
(* called so would read an argument that is not there.                      *)
Arity(n) == n % 256

PushOps == {"PUSH_INT", "PUSH_FLOAT", "PUSH_LITERAL", "PUSH_BUILTIN",
            "PUSH_NONE", "LOAD", "CREATE_FUNC"}

(* How many operands an instruction takes and leaves.                       *)
Pops(ins) ==
  CASE ins.op \in {"RETURN", "STORE", "COND_JUMP_FALSE", "DUP", "POP",
                   "CHECK_NONE"} -> 1
    [] ins.op = "SWAP" -> 2
    [] ins.op = "ROT3" -> 3
    [] ins.op = "CALL" -> Arity(ins.arg) + 1
    [] OTHER -> 0

Pushes(ins) ==
  CASE ins.op \in PushOps \cup {"CALL"} -> 1
    [] ins.op \in {"DUP", "SWAP"} -> 2
    [] ins.op = "ROT3" -> 3
    [] OTHER -> 0

FallsThrough(ins) ==
  ins.op \in PushOps \cup {"STORE", "CALL", "COND_JUMP_FALSE", "DUP", "ROT3",
                           "SWAP", "POP", "CHECK_NONE"}

JumpTargets(ins) ==
  IF ins.op \in {"COND_JUMP_FALSE", "ABS_JUMP"} THEN {ins.arg} ELSE {}

ArgumentOk(code, ins) ==
  CASE ins.op \in {"PUSH_INT", "PUSH_FLOAT", "PUSH_LITERAL"} -> ins.arg \in Literals
    [] ins.op \in {"LOAD", "STORE"} -> ins.arg \in Names
    [] ins.op = "CREATE_FUNC" -> ins.arg \in DOMAIN code
    [] ins.op = "CALL" -> ins.arg \in Nat /\ Arity(ins.arg) > 0
    [] ins.op = "DEF_FUNC" -> ins.arg \in Seq(Names)
    [] OTHER -> TRUE

(* What executeCode relies on and never checks: control stays inside the    *)
(* bytecode, functions start with no operands, and no instruction takes an  *)
(* operand that its own function has not pushed.                            *)
WellFormed(p) ==
  /\ DOMAIN p.depth = DOMAIN p.code
  /\ DOMAIN p.code \subseteq Nat
  /\ p.entry \in DOMAIN p.code /\ p.depth[p.entry] = 0
  /\ \A pc \in DOMAIN p.code :
       LET ins == p.code[pc]
           left == p.depth[pc] - Pops(ins)
       IN /\ p.depth[pc] \in Nat
          /\ ArgumentOk(p.code, ins)
          /\ left >= 0
          /\ FallsThrough(ins) => /\ pc + 1 \in DOMAIN p.code
                                  /\ p.depth[pc + 1] <= left + Pushes(ins)
          /\ \A t \in JumpTargets(ins) : /\ t \in DOMAIN p.code
                                         /\ p.depth[t] <= left
          /\ ins.op = "DEF_FUNC" => /\ pc + 1 \in DOMAIN p.code
                                    /\ p.depth[pc + 1] = 0

=============================================================================
