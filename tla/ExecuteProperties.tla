------------------------- MODULE ExecuteProperties -------------------------
(***************************************************************************)
(* What the interpreter of Execute is expected to keep true.               *)
(***************************************************************************)
EXTENDS Execute

-----------------------------------------------------------------------------
(* Types.                                                                   *)

NativeNames == BuiltinNames \cup OperatorNames \cup {"call", "varargs"}

Scalars == {None, Functools} \cup Literals \cup {Bool(b) : b \in BOOLEAN}
           \cup [type : {"NATIVE"}, name : NativeNames]
           \cup [type : {"ERROR"}, msg : Messages]

Functions == [type : {"FUNC"}, entry : DOMAIN Code, scope : 1..Len(scopes)]

References == [type : {"TUPLE"}, id : 1..Len(things)]
  \cup [type : {"LIST", "CELL", "VARARG"}, id : {i \in 1..Len(things) : things[i] # <<>>}]

Value == Scalars \cup Functions \cup References

ScopeType == [chain : Seq(1..Len(scopes)), locals : [Names -> Value \cup {Null}]]

FrameType == [type : {"DEF"}, index : DOMAIN Code, scope : 1..Len(scopes)]
             \cup {NativeFrame}

Functionaries == {"execFunc", "executeCode", "libTryCatch", "libCall", "varargCall"}
Phases == {"module", "main", "done", "loop", "start", "guarded", "final"}

ActivationType == [fn : Functionaries, phase : Phases, frames : Nat, height : Nat,
                   args : Seq(Value)]

(* Every thing the interpreter holds is well-formed in the store it lives   *)
(* in: functions keep an entry inside the bytecode and a scope that exists, *)
(* frames an index inside the bytecode.                                     *)
TypeOK ==
  /\ WellFormed(program)
  /\ stack \in Seq(Value)
  /\ frames \in Seq(FrameType)
  /\ scopes \in Seq(ScopeType) /\ ModuleScope <= Len(scopes)
  /\ things \in Seq(Seq(Value))
  /\ host \in Seq(ActivationType)
  /\ ret \in {NoRet} \cup [error : BOOLEAN, value : Value]
  /\ bases \in Seq(Nat)

-----------------------------------------------------------------------------
(* The three stacks agree.                                                  *)

(* The operands a frame owns end where the next frame's begin.              *)
Ceiling(i) == IF i = Len(frames) THEN Len(stack) ELSE bases[i + 1]

(* The operands frame i is still counting on.  A frame that waits for a     *)
(* native function stays at its call, which has taken its operands already; *)
(* one that waits for a function stands behind its call, whose result it    *)
(* has not got yet.                                                         *)
Waiting(i) == i < Len(frames) \/ ret # NoRet
Owed(i) ==
  CASE ~Waiting(i) -> Depth[frames[i].index]
    [] Waiting(i) /\ i < Len(frames) /\ frames[i + 1].type = "DEF" ->
         Depth[frames[i].index] - 1
    [] OTHER -> Depth[frames[i].index] - Pops(Code[frames[i].index])

(* The TODO of executeCode ("check if stack is empty") answered: whatever   *)
(* residue callees leave on the shared stack, a function always finds the   *)
(* operands of its next instruction above the ones its callers left there,  *)
(* so popStack and peekStackIndex never run off the list and never take a   *)
(* caller's operand.                                                        *)
OperandsPresent ==
  \A i \in 1..Len(frames) :
    frames[i].type = "DEF" => bases[i] + Owed(i) <= Ceiling(i)

(* The value executeCode returns is there, too.                             *)
ResultPresent ==
  ret = NoRet /\ Top.fn = "executeCode" /\ Len(frames) = Top.frames
    => Len(stack) > Top.height

Natives == {"libTryCatch", "libCall", "varargCall"}

(* Frame i is native exactly if a native function that is still active was  *)
(* entered with it.                                                         *)
NativeFrames ==
  \A i \in 1..Len(frames) :
    frames[i].type = "NATIVE" <=>
      \E k \in 1..Len(host) : host[k].fn \in Natives /\ host[k].frames = i

(* So the sanity check of executeCode, "internal error: native frame not    *)
(* ended before def frame", never fires.                                    *)
FramesMatchHost ==
  /\ NativeFrames
  /\ InLoop => Frame.type = "DEF"

(* Whatever a call does, returning, failing or unwinding, the operands its  *)
(* callers left on the shared stack are the same as before, for every frame *)
(* that is still there.                                                     *)
CallerOperandsKept ==
  [][\A i \in 1..LeastOf(Len(frames), Len(frames')) :
       /\ bases'[i] = bases[i]
       /\ bases[i] <= Len(stack')
       /\ Bottom(stack', bases[i]) = Bottom(stack, bases[i])]_vars

(* An error that libTryCatch catches finds both stacks exactly as they were *)
(* when it was entered, however deep the error was raised: the comment on   *)
(* unwindStackFrame's callers, and blg_tests that go on after a trycatch,   *)
(* rely on it.  (After a block that succeeds they may be higher.)           *)
CatchRestores ==
  Top.fn = "libTryCatch" /\ ret.error
    => Len(frames) = Top.frames /\ Len(stack) = Top.height

(* A closure's copied bindings never change (blg_tests/                     *)
(* closure_values_do_not_change.blg): a scope some function was made with   *)
(* is never a scope that a frame stores into.                               *)
Holds(v, s) == v.type = "FUNC" /\ v.scope = s
Captured(s) ==
  \/ \E i \in DOMAIN stack : Holds(stack[i], s)
  \/ \E t \in DOMAIN scopes, n \in Names : Holds(scopes[t].locals[n], s)
  \/ \E t \in DOMAIN things : \E i \in DOMAIN things[t] : Holds(things[t][i], s)
CapturedFrozen ==
  [][\A s \in DOMAIN scopes : Captured(s) => scopes'[s] = scopes[s]]_vars

(* execFunc ends with every frame popped and no C++ function but itself     *)
(* active, whatever failed and wherever.                                    *)
EndsClean == Done => frames = <<>> /\ bases = <<>> /\ Len(host) = 1

-----------------------------------------------------------------------------
(* Why they agree: the inductive invariant.                                 *)

(* The C++ functions that can be active on top of one another.  execFunc    *)
(* calls executeCode, which calls native functions, which call either; each *)
(* is entered with at least the frames of those below it, and a native      *)
(* function calls back with both stacks as it found them.                   *)
OnTopOf(a, b) ==
  /\ a.fn = "executeCode" =>
       /\ a.frames = b.frames
       /\ b.fn # "executeCode" /\ b.phase \notin {"start", "done"}
       /\ b.fn \in Natives => a.height = b.height
  /\ a.fn \in Natives =>
       /\ b.fn # "execFunc" /\ b.phase # "start"
       /\ b.fn = "executeCode" => a.frames >= b.frames + 2
       /\ b.fn \in Natives => a.frames = b.frames + 1 /\ a.height = b.height

PhaseOK(a) ==
  /\ a.fn = "execFunc" => /\ a.phase \in {"module", "main", "done"}
                          /\ a.frames = 0 /\ a.height = 0
  /\ a.fn = "executeCode" => a.phase = "loop"
  /\ a.fn \in Natives => /\ a.phase \in {"start", "guarded", "final"}
                         /\ a.phase = "guarded" => a.fn = "libTryCatch"
                         /\ Len(a.args) = 2
                         /\ a.fn = "libCall" => a.args[2].type = "LIST"

HostOK ==
  /\ host # <<>>
  /\ \A k \in 1..Len(host) :
       /\ host[k].fn = "execFunc" <=> k = 1
       /\ PhaseOK(host[k])
       /\ k > 1 => OnTopOf(host[k], host[k - 1])
  /\ \A j, k \in 1..Len(host) :
       j < k => /\ host[j].frames <= host[k].frames
                /\ host[k].fn \in Natives => host[j].frames < host[k].frames

(* Where the frames of an active C++ function begin, and the operands with  *)
(* them.                                                                    *)
HeightsOK ==
  /\ Len(bases) = Len(frames)
  /\ \A i \in 1..Len(bases) : bases[i] <= Len(stack)
  /\ \A i, j \in 1..Len(bases) : i < j => bases[i] <= bases[j]
  /\ \A k \in 1..Len(host) :
       LET a == host[k]
       IN /\ a.frames <= Len(frames)
          /\ a.fn \in Natives => a.height = bases[a.frames]
          /\ a.fn = "executeCode" /\ a.frames < Len(frames) =>
               a.height = bases[a.frames + 1]

(* What the function on top of the C++ stack finds.                         *)
TopOK ==
  /\ Top.fn # "executeCode" => Len(frames) = Top.frames
  /\ Top.fn = "executeCode" /\ ret # NoRet => Top.frames < Len(frames)
  /\ Top.fn \in Natives /\ (Top.phase = "start" \/ ret.error) => Len(stack) = Top.height

(* A frame that waits for a native function is still at its OP_CALL.        *)
AtCall ==
  \A i \in 1..Len(frames) :
    /\ frames[i].type = "DEF"
    /\ \/ i < Len(frames) /\ frames[i + 1].type = "NATIVE"
       \/ i = Len(frames) /\ ret # NoRet
    => Code[frames[i].index].op = "CALL"

Inv == /\ TypeOK /\ HostOK /\ HeightsOK /\ TopOK /\ NativeFrames
       /\ AtCall /\ OperandsPresent /\ ResultPresent

-----------------------------------------------------------------------------
(* Control.                                                                 *)

Guarding(i) == \E k \in 1..Len(host) :
                 /\ host[k].fn = "libTryCatch" /\ host[k].frames = i
                 /\ host[k].phase \in {"start", "guarded"}

CallsOf == INSTANCE Calls WITH
  active <- [i \in DOMAIN frames |-> IF Guarding(i) THEN "guard" ELSE "plain"],
  raising <- ret.error

(* The interpreter implements Calls.                                        *)
ImplementsCalls == CallsOf!Spec

(* An error with a guarding trycatch anywhere below it is caught.           *)
ErrorsAreCaught ==
  (ret.error /\ \E i \in 1..Len(frames) : Guarding(i)) ~> ~ret.error

(* A program that never jumps back, and none here calls itself, ends, by a  *)
(* result or by an error, whatever it reads (execFunc).                     *)
JumpsBack == \E i \in DOMAIN Code :
               Code[i].op \in {"ABS_JUMP", "COND_JUMP_FALSE"} /\ Code[i].arg <= i
Termination == ~JumpsBack => <>Done

-----------------------------------------------------------------------------
(* The stack effect bytecode.h:24-26 gives OP_CALL, "f x_1 ... x_n -> y":   *)
(* when a function returns to the frame whose OP_CALL called it, it leaves  *)
(* its result and nothing else.                                             *)
CallEffect ==
  [][Return /\ Len(frames) > Top.frames + 1
       => stack' = Append(Bottom(stack, bases[Len(bases)]), Peek(0))]_vars

=============================================================================
