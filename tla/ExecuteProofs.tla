--------------------------- MODULE ExecuteProofs ----------------------------
(*****************************************************************************)
(* The interpreter keeps Inv, so the properties of ExecuteProperties hold    *)
(* for every well-formed program, of any size, with any nesting of functions *)
(* and native functions. One lemma per action: it finds its operands         *)
(* (Present, CallOperands), its data is well-formed and its step has one of  *)
(* the shapes of ExecuteSteps.                                               *)
(*****************************************************************************)
EXTENDS ExecuteSteps
-----------------------------------------------------------------------------
(* The type invariant, from the parts a step has to show.                   *)
LEMMA TypeStep ==
  ASSUME TypeOK, Growth, scopes' \in Seq(ScopeType'), things' \in Seq(Seq(Value')),
         stack' \in Seq(Value'), frames' \in Seq(FrameType'), host' \in Seq(ActivationType'),
         ret' \in {NoRet} \cup Returned', bases' \in Seq(Nat)
  PROVE  TypeOK'
<1>1. NoRet' = NoRet
  BY DEF NoRet
<1>2. ModuleScope' <= Len(scopes')
  BY ScopesKept
<1> QED  BY <1>1, <1>2 DEF TypeOK, Growth, Returned

(* A RetVal is never mistaken for none.                                     *)
LEMMA ReturnedNotNone ==
  ASSUME NEW r \in Returned'
  PROVE  r # NoRet
<1>1. Null \notin Value'
  BY LiteralsAssumption DEF Null, Value, Scalars, Functions, References, None, Functools, Bool
<1> QED  BY <1>1 DEF Returned, NoRet

(* Popping n operands, when they are there.                                 *)
LEMMA DropLemma ==
  ASSUME TypeOK, NEW n \in 0..Len(stack)
  PROVE  /\ Drop(n) \in Seq(Value) /\ Len(Drop(n)) = Len(stack) - n
         /\ Len(stack) \in Nat /\ stack \in Seq(Value)
<1>1. stack \in Seq(Value) /\ Len(stack) \in Nat /\ Len(stack) - n \in 0..Len(stack)
  BY DEF TypeOK
<1> QED  BY <1>1, BottomLemma DEF Drop

(* Peeking at one that is there.                                            *)
LEMMA PeekLemma ==
  ASSUME TypeOK, NEW i \in Nat, i < Len(stack)
  PROVE  Peek(i) \in Value
<1>1. stack \in Seq(Value) /\ Len(stack) \in Nat /\ Len(stack) - i \in 1..Len(stack)
  BY DEF TypeOK
<1> QED  BY <1>1 DEF Peek

(* The instruction at hand finds its operands on the stack.                 *)
LEMMA Fetch ==
  ASSUME Inv, InLoop
  PROVE  /\ Frame.type = "DEF" /\ Frame.index \in DOMAIN Code /\ Frame.scope \in 1..Len(scopes)
         /\ Ins = Code[Frame.index] /\ ArgumentOk(Code, Ins)
         /\ Len(frames) > Top.frames /\ Top.fn = "executeCode" /\ ret = NoRet
         /\ bases[Len(frames)] \in Nat /\ Len(stack) \in Nat /\ Depth[Frame.index] \in Nat
         /\ bases[Len(frames)] + Depth[Frame.index] <= Len(stack)
         /\ Depth[Frame.index] - Pops(Ins) >= 0
         /\ FallsThrough(Ins) =>
              /\ Frame.index + 1 \in DOMAIN Code /\ Depth[Frame.index + 1] \in Nat
              /\ Depth[Frame.index + 1] <= Depth[Frame.index] - Pops(Ins) + Pushes(Ins)
<1>1. /\ Frame.type = "DEF" /\ Frame.index \in DOMAIN Code /\ Frame.scope \in 1..Len(scopes)
      /\ Len(frames) > Top.frames /\ Top.fn = "executeCode" /\ ret = NoRet
  BY InCode DEF InLoop
<1>2. /\ bases[Len(frames)] \in Nat /\ Len(stack) \in Nat
      /\ Depth[Frame.index] \in Nat
      /\ bases[Len(frames)] + Depth[Frame.index] <= Len(stack)
  BY Operands
<1>3. /\ ArgumentOk(Code, Code[Frame.index])
      /\ Depth[Frame.index] - Pops(Code[Frame.index]) >= 0
      /\ FallsThrough(Code[Frame.index]) =>
           /\ Frame.index + 1 \in DOMAIN Code
           /\ Depth[Frame.index + 1] <= Depth[Frame.index] - Pops(Code[Frame.index])
                                        + Pushes(Code[Frame.index])
  BY <1>1, Certificate DEF Inv, TypeOK
<1>4. Frame.index + 1 \in DOMAIN Code => Depth[Frame.index + 1] \in Nat
  BY Certificate DEF Inv, TypeOK
<1> QED  BY <1>1, <1>2, <1>3, <1>4 DEF Ins

(* What the certificate counts at least d of, above b, is there to be popped.*)
LEMMA PresentArithmetic ==
  ASSUME NEW b \in Nat, NEW d \in Nat, NEW l \in Nat, NEW p \in Nat, b + d <= l, d - p >= 0
  PROVE  p <= l
OBVIOUS

(* An instruction that takes p operands, leaves q and goes on.              *)
LEMMA ContinueStep ==
  ASSUME Inv, InLoop, FallsThrough(Ins), NEW p \in Nat, Pops(Ins) = p,
         NEW q \in Nat, Pushes(Ins) = q,
         Growth, scopes' \in Seq(ScopeType'), things' \in Seq(Seq(Value')),
         NEW st, st \in Seq(Value'), Len(st) = Len(stack) - p + q, Continue(st)
  PROVE  Inv'
<1>1. /\ program' = program /\ host' = host /\ bases' = bases /\ ret' = NoRet
      /\ frames' = SetIndex(Frame.index + 1) /\ stack' = st
  BY DEF Continue, InLoop
<1>2. /\ Frame.type = "DEF" /\ Frame.index + 1 \in DOMAIN Code
      /\ Len(frames) > Top.frames /\ Top.fn = "executeCode"
  BY Fetch
<1>3. Len(stack') >= bases[Len(frames)] + Depth[Frame.index + 1]
  <2>1. /\ bases[Len(frames)] \in Nat /\ Len(stack) \in Nat /\ Depth[Frame.index] \in Nat
        /\ bases[Len(frames)] + Depth[Frame.index] <= Len(stack)
        /\ Depth[Frame.index] - p >= 0 /\ Depth[Frame.index + 1] \in Nat
        /\ Depth[Frame.index + 1] <= Depth[Frame.index] - p + q
    BY Fetch
  <2>2. Len(stack) - p + q >= bases[Len(frames)] + Depth[Frame.index + 1]
    <3>1. PICK b \in Nat, d \in Nat, l \in Nat, e \in Nat :
            /\ b = bases[Len(frames)] /\ d = Depth[Frame.index]
            /\ l = Len(stack) /\ e = Depth[Frame.index + 1]
      BY <2>1
    <3>2. b + d <= l /\ d - p >= 0 /\ e <= d - p + q
      BY <2>1, <3>1
    <3>3. l - p + q >= b + e
      BY <3>2
    <3> QED  BY <3>1, <3>3
  <2>3. Len(st) >= bases[Len(frames)] + Depth[Frame.index + 1]
    BY <2>2, Zenon
  <2> QED  BY <1>1, <2>3, Zenon
<1> QED  BY <1>1, <1>2, <1>3, LocalStep

(* So do those that push a value.                                           *)
LEMMA PushStep ==
  ASSUME Inv, InLoop, Ins.op \in PushOps,
         Growth, Value \subseteq Value', scopes' \in Seq(ScopeType'),
         things' \in Seq(Seq(Value')), NEW v \in Value', Continue(Append(stack, v))
  PROVE  Inv'
<1>1. FallsThrough(Ins) /\ Pops(Ins) = 0 /\ Pushes(Ins) = 1
  BY DEF PushOps, FallsThrough, Pops, Pushes
<1>2. stack \in Seq(Value') /\ Len(stack) \in Nat
  BY SeqMono DEF Inv, TypeOK
<1>3. Append(stack, v) \in Seq(Value') /\ Len(Append(stack, v)) = Len(stack) - 0 + 1
  BY <1>2, AppendLemma
<1>4. ASSUME NEW st, st \in Seq(Value'), Len(st) = Len(stack) - 0 + 1, Continue(st)
      PROVE  Inv'
  BY <1>1, <1>4, ContinueStep
<1> QED  BY <1>3, <1>4

(* And those that only move operands about.                                 *)
LEMMA ShuffleStep ==
  ASSUME Inv, InLoop, FallsThrough(Ins), NEW p \in Nat, Pops(Ins) = p,
         NEW q \in Nat, Pushes(Ins) = q, UNCHANGED <<scopes, things>>,
         NEW st, st \in Seq(Value), Len(st) = Len(stack) - p + q, Continue(st)
  PROVE  Inv'
<1>1. /\ Growth /\ Value' = Value
      /\ scopes' \in Seq(ScopeType') /\ things' \in Seq(Seq(Value'))
  BY SameThings DEF Inv, Continue
<1>2. st \in Seq(Value')
  BY <1>1
<1> QED  BY <1>1, <1>2, ContinueStep

(* popStack and peekStackIndex find what the instruction takes.             *)
LEMMA Present ==
  ASSUME Inv, InLoop, NEW p \in Nat, Pops(Ins) = p
  PROVE  /\ p \in 0..Len(stack) /\ Len(stack) \in Nat
         /\ \A i \in Nat : i < p => i < Len(stack)
<1>1. /\ bases[Len(frames)] \in Nat /\ Len(stack) \in Nat /\ Depth[Frame.index] \in Nat
      /\ bases[Len(frames)] + Depth[Frame.index] <= Len(stack)
      /\ Depth[Frame.index] - p >= 0
  BY Fetch
<1>2. p <= Len(stack)
  BY <1>1, PresentArithmetic
<1> QED  BY <1>1, <1>2

(* The length of a concatenation.                                           *)
LEMMA Concatenated ==
  ASSUME NEW S, NEW s \in Seq(S), NEW t \in Seq(S)
  PROVE  s \o t \in Seq(S) /\ Len(s \o t) = Len(s) + Len(t)
OBVIOUS

-----------------------------------------------------------------------------
(* One lemma for each instruction, or kind of instruction.                  *)
LEMMA PushConstantStep == Inv /\ PushConstant => Inv'
<1> SUFFICES ASSUME Inv, PushConstant PROVE Inv'
  OBVIOUS
<1>1. InLoop /\ Ins.op \in {"PUSH_INT", "PUSH_FLOAT", "PUSH_LITERAL"}
  BY DEF PushConstant, Executing
<1>2. Ins.arg \in Literals
  BY <1>1, Fetch DEF ArgumentOk
<1>3. /\ Growth /\ Value' = Value
      /\ scopes' \in Seq(ScopeType') /\ things' \in Seq(Seq(Value'))
  BY SameThings DEF PushConstant, Continue, Inv
<1>4. Ins.arg \in Value'
  BY <1>2, <1>3, ScalarValues
<1>5. Ins.op \in PushOps
  BY <1>1 DEF PushOps
<1> QED  BY <1>1, <1>3, <1>4, <1>5, PushStep DEF PushConstant

(* OP_PUSH_NONE preserves the invariant.                                    *)
LEMMA PushNoneStep == Inv /\ PushNone => Inv'
<1> SUFFICES ASSUME Inv, PushNone PROVE Inv'
  OBVIOUS
<1>1. InLoop /\ Ins.op \in PushOps
  BY DEF PushNone, Executing, PushOps
<1>2. /\ Growth /\ Value' = Value
      /\ scopes' \in Seq(ScopeType') /\ things' \in Seq(Seq(Value'))
  BY SameThings DEF PushNone, Continue, Inv
<1>3. None \in Value'
  BY <1>2, ScalarValues
<1> QED  BY <1>1, <1>2, <1>3, PushStep DEF PushNone

(* OP_PUSH_BUILTIN preserves it: it pushes only what the runtime binds.     *)
LEMMA PushBuiltinStep == Inv /\ PushBuiltin => Inv'
<1> SUFFICES ASSUME Inv, PushBuiltin PROVE Inv'
  OBVIOUS
<1>1. InLoop /\ Ins.op \in PushOps
  BY DEF PushBuiltin, Executing, PushOps
<1>2. /\ Growth /\ Value' = Value
      /\ scopes' \in Seq(ScopeType') /\ things' \in Seq(Seq(Value'))
  BY SameThings DEF PushBuiltin, Continue, Inv
<1>3. Operator(Ins.arg) \in Value'
  BY <1>2, OperatorTyped DEF PushBuiltin
<1> QED  BY <1>1, <1>2, <1>3, PushStep DEF PushBuiltin

(* OP_CREATE_FUNC preserves it: the scope it copies exists.                 *)
LEMMA CreateFuncStep == Inv /\ CreateFunc => Inv'
<1> SUFFICES ASSUME Inv, CreateFunc PROVE Inv'
  OBVIOUS
<1>1. InLoop /\ Ins.op = "CREATE_FUNC" /\ Ins.op \in PushOps
  BY DEF CreateFunc, Executing, PushOps
<1>2. Frame.scope \in 1..Len(scopes) /\ Ins.arg \in DOMAIN Code
  BY <1>1, Fetch DEF ArgumentOk
<1>3. program' = program /\ things' = things
  BY DEF CreateFunc, Continue
<1>4. scopes' = Append(scopes, createScope(Frame.scope,
                         [n \in Names |-> getScopeValue(Frame.scope, n)]))
  BY DEF CreateFunc, copyScope
<1>5. [n \in Names |-> getScopeValue(Frame.scope, n)] \in [Names -> Value \cup {Null}]
  BY <1>2, CopiedScope DEF Inv
<1>6. /\ Growth /\ Value \subseteq Value'
      /\ scopes' \in Seq(ScopeType') /\ things' \in Seq(Seq(Value'))
      /\ NewScope \in 1..Len(scopes')
  BY <1>2, <1>3, <1>4, <1>5, GrowScopes DEF Inv
<1>7. Func(Ins.arg, NewScope) \in Value'
  BY <1>2, <1>3, <1>6 DEF Func, Value, Functions, Code
<1> QED  BY <1>1, <1>6, <1>7, PushStep DEF CreateFunc

(* OP_LOAD preserves it: an unbound name is never pushed.                   *)
LEMMA LoadStep == Inv /\ Load => Inv'
<1> SUFFICES ASSUME Inv, Load PROVE Inv'
  OBVIOUS
<1>1. InLoop /\ Ins.op = "LOAD" /\ Ins.op \in PushOps
  BY DEF Load, Executing, PushOps
<1>2. Frame.scope \in 1..Len(scopes) /\ Ins.arg \in Names
  BY <1>1, Fetch DEF ArgumentOk
<1>3. /\ Growth /\ Value' = Value
      /\ scopes' \in Seq(ScopeType') /\ things' \in Seq(Seq(Value'))
  BY SameThings DEF Load, Continue, Inv
<1>4. getScopeValue(Frame.scope, Ins.arg) \in Value \cup {Null}
  BY <1>2, ScopeLookup DEF Inv
<1>5. getScopeValue(Frame.scope, Ins.arg) \in Value'
  BY <1>3, <1>4 DEF Load
<1> QED  BY <1>1, <1>3, <1>5, PushStep DEF Load

(* OP_STORE preserves it.                                                   *)
LEMMA StoreStep == Inv /\ Store => Inv'
<1> SUFFICES ASSUME Inv, Store PROVE Inv'
  OBVIOUS
<1>1. InLoop /\ Ins.op = "STORE"
  BY DEF Store, Executing
<1>2. FallsThrough(Ins) /\ Pops(Ins) = 1 /\ Pushes(Ins) = 0
  BY <1>1 DEF FallsThrough, Pops, Pushes, PushOps
<1>3. /\ Frame.scope \in 1..Len(scopes) /\ Ins.arg \in Names /\ 1 \in 0..Len(stack)
      /\ 0 < Len(stack)
  <2>1. /\ Frame.scope \in 1..Len(scopes) /\ Ins.arg \in Names
    BY <1>1, Fetch DEF ArgumentOk
  <2> QED  BY <2>1, <1>1, <1>2, Present
<1>4. Drop(1) \in Seq(Value) /\ Len(Drop(1)) = Len(stack) - 1 + 0 /\ Peek(0) \in Value
  BY <1>3, DropLemma, PeekLemma DEF Inv
<1>5. /\ Growth /\ Value' = Value
      /\ scopes' \in Seq(ScopeType') /\ things' \in Seq(Seq(Value'))
  BY <1>3, <1>4, StoreScope DEF Store, Continue, Inv
<1>6. ASSUME NEW st, st \in Seq(Value'), Len(st) = Len(stack) - 1 + 0, Continue(st)
      PROVE  Inv'
  BY <1>1, <1>2, <1>5, <1>6, ContinueStep
<1> QED  BY <1>4, <1>5, <1>6 DEF Store

(* OP_DUP preserves it.                                                     *)
LEMMA DupStep == Inv /\ Dup => Inv'
<1> SUFFICES ASSUME Inv, Dup PROVE Inv'
  OBVIOUS
<1>1. InLoop /\ Ins.op = "DUP"
  BY DEF Dup, Executing
<1>2. FallsThrough(Ins) /\ Pops(Ins) = 1 /\ Pushes(Ins) = 2
  BY <1>1 DEF FallsThrough, Pops, Pushes, PushOps
<1>3. Peek(0) \in Value
  BY <1>1, <1>2, Present, PeekLemma DEF Inv
<1>4. Append(stack, Peek(0)) \in Seq(Value) /\ Len(Append(stack, Peek(0))) = Len(stack) - 1 + 2
  BY <1>3, AppendLemma DEF Inv, TypeOK
<1> QED  BY <1>1, <1>2, <1>4, ShuffleStep DEF Dup

(* OP_ROT3 preserves it.                                                    *)
LEMMA Rot3Step == Inv /\ Rot3 => Inv'
<1> SUFFICES ASSUME Inv, Rot3 PROVE Inv'
  OBVIOUS
<1>1. InLoop /\ Ins.op = "ROT3"
  BY DEF Rot3, Executing
<1>2. FallsThrough(Ins) /\ Pops(Ins) = 3 /\ Pushes(Ins) = 3
  BY <1>1 DEF FallsThrough, Pops, Pushes, PushOps
<1>3. Peek(0) \in Value /\ Peek(1) \in Value /\ Peek(2) \in Value
  BY <1>1, <1>2, Present, PeekLemma DEF Inv
<1>4. Drop(3) \in Seq(Value) /\ Len(Drop(3)) = Len(stack) - 3 /\ Len(stack) \in Nat
  BY <1>1, <1>2, Present, DropLemma DEF Inv
<1> DEFINE moved == <<Peek(1), Peek(2), Peek(0)>>
<1>5. moved \in Seq(Value) /\ Len(moved) = 3
  BY <1>3
<1> HIDE DEF moved
<1>6. Drop(3) \o moved \in Seq(Value) /\ Len(Drop(3) \o moved) = Len(stack) - 3 + 3
  <2>1. Drop(3) \o moved \in Seq(Value) /\ Len(Drop(3) \o moved) = Len(Drop(3)) + Len(moved)
    BY <1>4, <1>5, Concatenated
  <2> QED  BY <2>1, <1>4, <1>5
<1>7. Continue(Drop(3) \o moved) /\ UNCHANGED <<scopes, things>>
  BY DEF Rot3, moved
<1> QED  BY <1>1, <1>2, <1>6, <1>7, ShuffleStep

(* OP_SWAP preserves it.                                                    *)
LEMMA SwapStep == Inv /\ Swap => Inv'
<1> SUFFICES ASSUME Inv, Swap PROVE Inv'
  OBVIOUS
<1>1. InLoop /\ Ins.op = "SWAP"
  BY DEF Swap, Executing
<1>2. FallsThrough(Ins) /\ Pops(Ins) = 2 /\ Pushes(Ins) = 2
  BY <1>1 DEF FallsThrough, Pops, Pushes, PushOps
<1>3. Peek(0) \in Value /\ Peek(1) \in Value
  BY <1>1, <1>2, Present, PeekLemma DEF Inv
<1>4. Drop(2) \in Seq(Value) /\ Len(Drop(2)) = Len(stack) - 2 /\ Len(stack) \in Nat
  BY <1>1, <1>2, Present, DropLemma DEF Inv
<1> DEFINE moved == <<Peek(0), Peek(1)>>
<1>5. moved \in Seq(Value) /\ Len(moved) = 2
  BY <1>3
<1> HIDE DEF moved
<1>6. Drop(2) \o moved \in Seq(Value) /\ Len(Drop(2) \o moved) = Len(stack) - 2 + 2
  <2>1. Drop(2) \o moved \in Seq(Value) /\ Len(Drop(2) \o moved) = Len(Drop(2)) + Len(moved)
    BY <1>4, <1>5, Concatenated
  <2> QED  BY <2>1, <1>4, <1>5
<1>7. Continue(Drop(2) \o moved) /\ UNCHANGED <<scopes, things>>
  BY DEF Swap, moved
<1> QED  BY <1>1, <1>2, <1>6, <1>7, ShuffleStep

(* OP_POP and OP_CHECK_NONE preserve it.                                    *)
LEMMA PopStep == Inv /\ (Pop \/ CheckNone) => Inv'
<1> SUFFICES ASSUME Inv, Pop \/ CheckNone PROVE Inv'
  OBVIOUS
<1>1. /\ InLoop /\ Ins.op \in {"POP", "CHECK_NONE"}
      /\ Continue(Drop(1)) /\ UNCHANGED <<scopes, things>>
  BY DEF Pop, CheckNone, Executing
<1>2. FallsThrough(Ins) /\ Pops(Ins) = 1 /\ Pushes(Ins) = 0
  BY <1>1 DEF FallsThrough, Pops, Pushes, PushOps
<1>3. Drop(1) \in Seq(Value) /\ Len(Drop(1)) = Len(stack) - 1 + 0
  BY <1>1, <1>2, Present, DropLemma DEF Inv
<1> QED  BY <1>1, <1>2, <1>3, ShuffleStep

(* A jump that takes p operands preserves the invariant.                    *)
LEMMA JumpStep ==
  ASSUME Inv, InLoop, NEW p \in Nat, Pops(Ins) = p, NEW pc \in DOMAIN Code,
         Depth[pc] <= Depth[Frame.index] - p,
         frames' = SetIndex(pc), UNCHANGED <<program, scopes, things, host, ret, bases>>,
         NEW st, st \in Seq(Value), stack' = st, Len(st) = Len(stack) - p
  PROVE  Inv'
<1>1. /\ Growth /\ Value' = Value
      /\ scopes' \in Seq(ScopeType') /\ things' \in Seq(Seq(Value'))
  BY SameThings DEF Inv
<1>2. /\ program' = program /\ host' = host /\ bases' = bases /\ ret' = NoRet
  BY DEF InLoop
<1>3. /\ Frame.type = "DEF" /\ Len(frames) > Top.frames /\ Top.fn = "executeCode"
  BY Fetch
<1>4. Len(stack') >= bases[Len(frames)] + Depth[pc]
  <2>1. /\ bases[Len(frames)] \in Nat /\ Len(stack) \in Nat /\ Depth[Frame.index] \in Nat
        /\ bases[Len(frames)] + Depth[Frame.index] <= Len(stack)
        /\ Depth[Frame.index] - p >= 0
    BY Fetch
  <2>2. Depth[pc] \in Nat
    BY Certificate DEF Inv, TypeOK
  <2>3. PICK b \in Nat, d \in Nat, l \in Nat, e \in Nat :
          b = bases[Len(frames)] /\ d = Depth[Frame.index] /\ l = Len(stack) /\ e = Depth[pc]
    BY <2>1, <2>2
  <2>4. b + d <= l /\ e <= d - p
    BY <2>1, <2>3
  <2>5. l - p >= b + e
    BY <2>4
  <2>6. Len(stack) - p >= bases[Len(frames)] + Depth[pc]
    BY <2>3, <2>5, Zenon
  <2> QED  BY <2>6, Zenon
<1>5. stack' \in Seq(Value')
  BY <1>1
<1> QED  BY <1>1, <1>2, <1>3, <1>4, <1>5, LocalStep

(* So OP_COND_JUMP_FALSE and OP_ABS_JUMP do, whichever way they go.         *)
LEMMA JumpsStep == Inv /\ (CondJumpFalse \/ AbsJump) => Inv'
<1> SUFFICES ASSUME Inv, CondJumpFalse \/ AbsJump PROVE Inv'
  OBVIOUS
<1>1. ASSUME InLoop
      PROVE  /\ Depth[Frame.index] - Pops(Ins) >= 0
             /\ FallsThrough(Ins) => /\ Frame.index + 1 \in DOMAIN Code
                                     /\ Depth[Frame.index + 1] <= Depth[Frame.index] - Pops(Ins) + Pushes(Ins)
             /\ \A t \in JumpTargets(Ins) : /\ t \in DOMAIN Code
                                            /\ Depth[t] <= Depth[Frame.index] - Pops(Ins)
             /\ Depth[Frame.index] \in Nat
  <2>1. Frame.index \in DOMAIN Code /\ Ins = Code[Frame.index]
    BY <1>1, Fetch
  <2> QED  BY <2>1, Certificate DEF Inv, TypeOK
<1>2. CASE CondJumpFalse
  <2>1. /\ InLoop /\ Ins.op = "COND_JUMP_FALSE" /\ stack' = Drop(1)
        /\ frames' = SetIndex(IF Peek(0).bool THEN Frame.index + 1 ELSE Ins.arg)
        /\ UNCHANGED <<program, scopes, things, host, ret, bases>>
    BY <1>2 DEF CondJumpFalse, Executing
  <2>2. FallsThrough(Ins) /\ Pops(Ins) = 1 /\ Pushes(Ins) = 0 /\ Ins.arg \in JumpTargets(Ins)
    BY <2>1 DEF FallsThrough, Pops, Pushes, PushOps, JumpTargets
  <2>3. Drop(1) \in Seq(Value) /\ Len(Drop(1)) = Len(stack) - 1
    BY <2>1, <2>2, Present, DropLemma DEF Inv
  <2>4. ASSUME NEW pc, pc \in {Frame.index + 1, Ins.arg}
        PROVE  pc \in DOMAIN Code /\ Depth[pc] <= Depth[Frame.index] - 1
    <3>1. CASE pc = Ins.arg
      BY <1>1, <2>1, <2>2, <3>1
    <3>2. CASE pc = Frame.index + 1
      <4>1. Frame.index + 1 \in DOMAIN Code
        BY <1>1, <2>1, <2>2
      <4>2. Depth[Frame.index + 1] \in Nat
        BY <4>1, Certificate DEF Inv, TypeOK
      <4>3. Depth[Frame.index] \in Nat /\ Depth[Frame.index + 1] <= Depth[Frame.index] - 1 + 0
        BY <1>1, <2>1, <2>2
      <4> QED  BY <3>2, <4>1, <4>2, <4>3
    <3> QED  BY <2>4, <3>1, <3>2
  <2>5. ASSUME NEW pc, pc \in {Frame.index + 1, Ins.arg}, frames' = SetIndex(pc)
        PROVE  Inv'
    BY <2>1, <2>2, <2>3, <2>4, <2>5, JumpStep
  <2> QED  BY <2>1, <2>5
<1>3. CASE AbsJump
  <2>1. /\ InLoop /\ Ins.op = "ABS_JUMP" /\ stack' = stack /\ frames' = SetIndex(Ins.arg)
        /\ UNCHANGED <<program, scopes, things, host, ret, bases>>
    BY <1>3 DEF AbsJump, Executing
  <2>2. Pops(Ins) = 0 /\ Ins.arg \in JumpTargets(Ins)
    BY <2>1 DEF Pops, JumpTargets
  <2>3. stack \in Seq(Value) /\ Len(stack) = Len(stack) - 0
    BY DEF Inv, TypeOK
  <2>4. Ins.arg \in DOMAIN Code /\ Depth[Ins.arg] <= Depth[Frame.index] - 0
    BY <1>1, <2>1, <2>2
  <2>5. ASSUME NEW st, st \in Seq(Value), Len(st) = Len(stack) - 0, stack' = st
        PROVE  Inv'
    <3>1. InLoop /\ UNCHANGED <<program, scopes, things, host, ret, bases>>
      BY <2>1
    <3>2. frames' = SetIndex(Ins.arg) /\ 0 \in Nat
      BY <2>1
    <3> QED  BY <2>2, <2>4, <2>5, <3>1, <3>2, JumpStep
  <2> QED  BY <2>1, <2>3, <2>5
<1> QED  BY <1>2, <1>3

(* OP_RETURN preserves it: the value stays where the caller expects it.     *)
LEMMA ReturnsStep == Inv /\ Return => Inv'
<1> SUFFICES ASSUME Inv, Return PROVE Inv'
  OBVIOUS
<1>1. /\ Executing("RETURN") /\ InLoop /\ Ins.op = "RETURN" /\ stack' = Append(Drop(1), Peek(0))
      /\ frames' = Bottom(frames, Len(frames) - 1) /\ bases' = Bottom(bases, Len(frames) - 1)
      /\ UNCHANGED <<program, scopes, things, host, ret>>
  BY DEF Return, Executing
<1>2. /\ Growth /\ Value' = Value
      /\ scopes' \in Seq(ScopeType') /\ things' \in Seq(Seq(Value'))
  BY <1>1, SameThings DEF Inv
<1>3. Pops(Ins) = 1
  BY <1>1 DEF Pops
<1>4. Peek(0) \in Value /\ Drop(1) \in Seq(Value) /\ Len(Drop(1)) = Len(stack) - 1 /\ Len(stack) \in Nat
  BY <1>1, <1>3, Present, DropLemma, PeekLemma DEF Inv
<1>5. stack' \in Seq(Value') /\ Len(stack') = Len(stack)
  <2>1. stack' \in Seq(Value) /\ Len(stack') = Len(Drop(1)) + 1
    BY <1>1, <1>4, AppendLemma
  <2> QED  BY <2>1, <1>2, <1>4
<1>6. FrameType \subseteq FrameType' /\ ActivationType \subseteq ActivationType'
  BY <1>2, TypesMono DEF Inv
<1>7. Len(frames) - 1 \in 0..Len(frames) /\ Len(frames) - 1 \in 0..Len(bases)
  <2>1. Len(frames) \in 1..Len(frames) /\ Len(frames) \in Nat
    BY <1>1, InCode, InvTypes DEF InLoop, Inv
  <2> QED  BY <2>1 DEF Inv, HeightsOK
<1>8. frames' \in Seq(FrameType) /\ bases' \in Seq(Nat)
  BY <1>1, <1>7, BottomLemma DEF Inv, TypeOK
<1>9. frames' \in Seq(FrameType') /\ host' \in Seq(ActivationType')
  BY <1>1, <1>6, <1>8, SeqMono DEF Inv, TypeOK
<1>10. ret' \in {NoRet} \cup Returned'
  BY <1>1 DEF InLoop
<1>11. TypeOK'
  BY <1>2, <1>5, <1>8, <1>9, <1>10, TypeStep DEF Inv
<1> QED  BY <1>1, <1>5, <1>11, ReturnStep

(* What an instruction that fails, or a function that failed, does.         *)
LEMMA FailStep ==
  ASSUME Inv, Top.fn = "executeCode", Len(frames) > Top.frames,
         Growth, scopes' \in Seq(ScopeType'), things' \in Seq(Seq(Value')),
         NEW r \in Returned', Fail(r)
  PROVE  Inv'
<1>1. /\ frames' = Bottom(frames, Top.frames) /\ bases' = Bottom(bases, Top.frames)
      /\ stack' = Bottom(stack, LeastOf(Len(stack), Top.height))
      /\ host' = Bottom(host, Len(host) - 1) /\ ret' = r
      /\ UNCHANGED <<program, scopes>>
  BY DEF Fail, Unwind
<1>2. /\ Len(frames) \in Nat /\ Len(stack) \in Nat /\ Len(bases) = Len(frames)
      /\ Top.frames + 1 \in 1..Len(frames) /\ Top.height = bases[Top.frames + 1]
      /\ Top.frames \in Nat /\ Len(host) > 1 /\ Len(host) \in Nat
  BY InvTypes, InCode, HostFacts DEF Inv, HeightsOK
<1>3. Top.height \in Nat /\ Top.height <= Len(stack)
  BY <1>2, BasesMono DEF Inv
<1>4. LeastOf(Len(stack), Top.height) = Top.height
  BY <1>2, <1>3 DEF LeastOf
<1>5. /\ Value \subseteq Value' /\ FrameType \subseteq FrameType'
      /\ ActivationType \subseteq ActivationType'
  BY TypesMono DEF Inv
<1>6. stack' \in Seq(Value) /\ Len(stack') = Top.height
  <2>1. Top.height \in 0..Len(stack) /\ stack \in Seq(Value)
    BY <1>2, <1>3 DEF Inv, TypeOK
  <2>2. stack' = Bottom(stack, Top.height)
    BY <1>1, <1>4
  <2> QED  BY <2>1, <2>2, BottomLemma
<1>7. frames' \in Seq(FrameType) /\ bases' \in Seq(Nat)
  <2>1. Top.frames \in 0..Len(frames) /\ Top.frames \in 0..Len(bases)
    BY <1>2
  <2>2. frames \in Seq(FrameType) /\ bases \in Seq(Nat)
    BY DEF Inv, TypeOK
  <2> QED  BY <1>1, <2>1, <2>2, BottomLemma
<1>8. host' \in Seq(ActivationType)
  BY <1>1, <1>2, HostPop DEF Inv
<1>9. /\ stack' \in Seq(Value') /\ frames' \in Seq(FrameType') /\ host' \in Seq(ActivationType')
  BY <1>5, <1>6, <1>7, <1>8, SeqMono
<1>10. TypeOK'
  BY <1>1, <1>7, <1>9, TypeStep DEF Inv
<1>11. ret' # NoRet
  BY <1>1, ReturnedNotNone
<1>12. Len(stack') >= Top.height
  BY <1>3, <1>6
<1> QED  BY <1>1, <1>6, <1>10, <1>11, <1>12, LeaveStep

(* Every error executeCode raises preserves it; the one about native frames *)
(* cannot happen.                                                           *)
LEMMA ExecuteErrorStep == Inv /\ ExecuteError => Inv'
<1> SUFFICES ASSUME Inv, ExecuteError PROVE Inv'
  OBVIOUS
<1>1. InLoop
  BY DEF ExecuteError
<1>2. PICK m \in Messages :
        /\ Raises(m)
        /\ IF m = "native frame"
           THEN /\ ret' = Throw(m)
                /\ host' = Bottom(host, Len(host) - 1)
                /\ UNCHANGED <<program, stack, frames, scopes, things, bases>>
           ELSE Fail(Throw(m)) /\ UNCHANGED things
  BY DEF ExecuteError
<1>3. Frame.type = "DEF" /\ Len(frames) > Top.frames /\ Top.fn = "executeCode"
  BY <1>1, Fetch
<1>4. m # "native frame"
  BY <1>2, <1>3 DEF Raises
<1>5. Fail(Throw(m)) /\ things' = things /\ program' = program /\ scopes' = scopes
  BY <1>2, <1>4 DEF Fail, Unwind
<1>6. /\ Growth /\ Value' = Value
      /\ scopes' \in Seq(ScopeType') /\ things' \in Seq(Seq(Value'))
  BY <1>5, SameThings DEF Inv
<1>7. Throw(m) \in Returned'
  BY <1>6, ThrowTyped DEF Returned
<1> QED  BY <1>3, <1>5, <1>6, <1>7, FailStep

(* The end of executeCode preserves it: there is a value to return.         *)
LEMMA ExecuteReturnStep == Inv /\ ExecuteReturn => Inv'
<1> SUFFICES ASSUME Inv, ExecuteReturn PROVE Inv'
  OBVIOUS
<1>1. /\ ret = NoRet /\ Top.fn = "executeCode" /\ Len(frames) <= Top.frames
      /\ ret' = Ok(Peek(0)) /\ stack' = Drop(1)
      /\ host' = Bottom(host, Len(host) - 1)
      /\ UNCHANGED <<program, frames, scopes, things, bases>>
  BY DEF ExecuteReturn
<1>2. /\ Len(frames) \in Nat /\ Len(stack) \in Nat /\ Len(bases) = Len(frames)
      /\ Top.frames \in Nat /\ Top.height \in Nat /\ Len(host) \in Nat \ {0}
  BY InvTypes, HostFacts DEF Inv, HeightsOK
<1>3. Len(host) > 1 /\ Len(host) \in 1..Len(host) /\ Top = host[Len(host)]
  BY <1>1, <1>2, HostDeep DEF Inv, Top
<1>4. Len(frames) = Top.frames
  <2>1. Top.frames <= Len(frames)
    BY <1>3 DEF Inv, HeightsOK
  <2> QED  BY <2>1, <1>1, <1>2
<1>5. Len(stack) > Top.height
  BY <1>1, <1>4 DEF Inv, ResultPresent
<1>6. 1 \in 0..Len(stack) /\ 0 < Len(stack)
  BY <1>2, <1>5
<1>7. /\ Drop(1) \in Seq(Value) /\ Len(Drop(1)) = Len(stack) - 1 /\ Peek(0) \in Value
  BY <1>6, DropLemma, PeekLemma DEF Inv
<1>8. /\ Growth /\ Value' = Value
      /\ scopes' \in Seq(ScopeType') /\ things' \in Seq(Seq(Value'))
  BY <1>1, SameThings DEF Inv
<1>9. ret' \in Returned'
  BY <1>1, <1>7, <1>8, OkTyped DEF Returned
<1>10. FrameType \subseteq FrameType' /\ ActivationType \subseteq ActivationType'
  BY <1>8, TypesMono DEF Inv
<1>11. host' \in Seq(ActivationType)
  BY <1>1, <1>3, HostPop DEF Inv
<1>12. stack' \in Seq(Value') /\ frames' \in Seq(FrameType') /\ host' \in Seq(ActivationType')
  <2>1. stack' \in Seq(Value')
    BY <1>1, <1>7, <1>8
  <2>2. frames' \in Seq(FrameType') /\ host' \in Seq(ActivationType')
    BY <1>1, <1>10, <1>11, SeqMono DEF Inv, TypeOK
  <2> QED  BY <2>1, <2>2
<1>13. TypeOK'
  BY <1>1, <1>8, <1>9, <1>12, TypeStep DEF Inv, TypeOK
<1>14. Len(stack') >= Top.height /\ ~ret'.error
  BY <1>1, <1>2, <1>5, <1>7 DEF Ok
<1>15. frames' = Bottom(frames, Top.frames) /\ bases' = Bottom(bases, Top.frames)
  <2>1. \A S : \A q \in Seq(S) : q = Bottom(q, Len(q))
    BY DEF Bottom
  <2> QED  BY <2>1, <1>1, <1>2, <1>4 DEF Inv, TypeOK
<1>16. ret' # NoRet
  BY <1>9, ReturnedNotNone
<1> QED  BY <1>1, <1>13, <1>14, <1>15, <1>16, LeaveStep

-----------------------------------------------------------------------------
(* Calls.                                                                   *)

(* What OP_CALL takes is on the stack, and of the right kind.               *)
LEMMA CallOperands ==
  ASSUME Inv, Executing("CALL")
  PROVE  /\ InLoop /\ FallsThrough(Ins) /\ CallArity \in Nat
         /\ Pops(Ins) = CallArity + 1 /\ Pushes(Ins) = 1
         /\ Callee \in Value /\ Arguments \in Seq(Value) /\ Len(Arguments) = CallArity
         /\ Drop(CallArity + 1) \in Seq(Value)
         /\ Len(Drop(CallArity + 1)) = Len(stack) - (CallArity + 1)
         /\ Len(stack) \in Nat /\ CallArity + 1 <= Len(stack)
<1>1. InLoop /\ Ins.op = "CALL"
  BY DEF Executing
<1>2. CallArity \in Nat
  <2>1. ArgumentOk(Code, Ins)
    BY <1>1, Fetch
  <2>2. Ins.arg \in Nat
    BY <2>1, <1>1 DEF ArgumentOk
  <2> QED  BY <2>2 DEF CallArity, Arity
<1>3. FallsThrough(Ins) /\ Pops(Ins) = CallArity + 1 /\ Pushes(Ins) = 1
  BY <1>1 DEF FallsThrough, Pops, Pushes, PushOps, CallArity
<1>4. CallArity + 1 \in Nat
  BY <1>2
<1>5. /\ CallArity + 1 \in 0..Len(stack) /\ Len(stack) \in Nat
      /\ \A i \in Nat : i < CallArity + 1 => i < Len(stack)
  BY <1>1, <1>3, <1>4, Present
<1>6. \A i \in Nat : i < CallArity + 1 => Peek(i) \in Value
  BY <1>5, PeekLemma DEF Inv
<1>7. Callee \in Value
  BY <1>2, <1>6 DEF Callee
<1>8. Arguments \in Seq(Value) /\ Len(Arguments) = CallArity
  <2>1. \A i \in 1..CallArity : Peek(CallArity - i) \in Value
    <3>1. \A i \in 1..CallArity : CallArity - i \in Nat /\ CallArity - i < CallArity + 1
      BY <1>2
    <3> QED  BY <3>1, <1>6
  <2>2. [i \in 1..CallArity |-> Peek(CallArity - i)] \in [1..CallArity -> Value]
    BY <2>1
  <2> QED  BY <2>2, <1>2 DEF Arguments
<1>9. /\ Drop(CallArity + 1) \in Seq(Value)
      /\ Len(Drop(CallArity + 1)) = Len(stack) - (CallArity + 1)
  BY <1>5, DropLemma DEF Inv
<1>10. CallArity + 1 <= Len(stack)
  BY <1>5
<1> QED  BY <1>1, <1>2, <1>3, <1>5, <1>7, <1>8, <1>9, <1>10

(* What createFrameCall makes for a func thing.                             *)
LEMMA Framed ==
  ASSUME TypeOK, NEW f \in Value, NEW args \in Seq(Value), CanFrame(f, Len(args)),
         program' = program, things' = things,
         scopes' = Append(scopes, CallScope(f, args))
  PROVE  /\ Growth /\ Value \subseteq Value'
         /\ scopes' \in Seq(ScopeType') /\ things' \in Seq(Seq(Value'))
         /\ f.entry + 1 \in DOMAIN Code /\ Depth[f.entry + 1] = 0
         /\ DefFrame(f.entry + 1, NewScope) \in FrameType'
<1>1. f.entry \in DOMAIN Code /\ f.scope \in 1..Len(scopes)
  BY FuncElim DEF CanFrame
<1>2. Code[f.entry].op = "DEF_FUNC" /\ Len(Code[f.entry].arg) = Len(args)
  BY DEF CanFrame
<1>3. /\ ArgumentOk(Code, Code[f.entry])
      /\ f.entry + 1 \in DOMAIN Code /\ Depth[f.entry + 1] = 0
  BY <1>1, <1>2, Certificate DEF TypeOK
<1>4. Code[f.entry].arg \in Seq(Names)
  BY <1>2, <1>3 DEF ArgumentOk
<1>5. BindArguments(Code[f.entry].arg, args) \in [Names -> Value \cup {Null}]
  BY <1>2, <1>4, Bound
<1>6. scopes' = Append(scopes, createScope(f.scope, BindArguments(Code[f.entry].arg, args)))
  BY DEF CallScope
<1>7. /\ Growth /\ Value \subseteq Value'
      /\ scopes' \in Seq(ScopeType') /\ things' \in Seq(Seq(Value'))
      /\ NewScope \in 1..Len(scopes')
  BY <1>1, <1>5, <1>6, GrowScopes
<1>8. DefFrame(f.entry + 1, NewScope) \in FrameType'
  BY <1>3, <1>7 DEF DefFrame, FrameType, Code
<1> QED  BY <1>3, <1>7, <1>8

(* OP_CALL of a func thing preserves it: the callee starts with no operands *)
(* of its own.                                                              *)
LEMMA CallDefStep == Inv /\ CallDef => Inv'
<1> SUFFICES ASSUME Inv, CallDef PROVE Inv'
  OBVIOUS
<1>1. /\ Executing("CALL") /\ CanFrame(Callee, CallArity)
      /\ scopes' = Append(scopes, CallScope(Callee, Arguments))
      /\ frames' = Append(SetIndex(Frame.index + 1), DefFrame(Callee.entry + 1, NewScope))
      /\ stack' = Drop(CallArity + 1)
      /\ bases' = Append(bases, Len(stack) - (CallArity + 1))
      /\ UNCHANGED <<program, things, host, ret>>
  BY DEF CallDef
<1>2. /\ InLoop /\ FallsThrough(Ins) /\ CallArity \in Nat
      /\ Callee \in Value /\ Arguments \in Seq(Value) /\ Len(Arguments) = CallArity
      /\ stack' \in Seq(Value) /\ Len(stack') = Len(stack) - (CallArity + 1)
      /\ Len(stack) \in Nat /\ CallArity + 1 <= Len(stack)
  BY <1>1, CallOperands
<1>3. PICK f \in Value, args \in Seq(Value) : f = Callee /\ args = Arguments
  BY <1>2
<1>4. PICK e : e = f.entry + 1
  OBVIOUS
<1>5. PICK s : s = NewScope
  OBVIOUS
<1>6. /\ Growth /\ Value \subseteq Value'
      /\ scopes' \in Seq(ScopeType') /\ things' \in Seq(Seq(Value'))
      /\ e \in DOMAIN Code /\ Depth[e] = 0
      /\ DefFrame(e, s) \in FrameType'
  <2>1. CanFrame(f, Len(args)) /\ scopes' = Append(scopes, CallScope(f, args))
    BY <1>1, <1>2, <1>3
  <2>2. program' = program /\ things' = things /\ TypeOK
    BY <1>1 DEF Inv
  <2> QED  BY <2>1, <2>2, <1>4, <1>5, Framed
<1>7. /\ FrameType \subseteq FrameType' /\ ActivationType \subseteq ActivationType'
  BY <1>6, TypesMono DEF Inv
<1>8. SetIndex(Frame.index + 1) \in Seq(FrameType)
  <2>1. Frame.index + 1 \in DOMAIN Code /\ Frame.type = "DEF"
    BY <1>2, Fetch
  <2>2. Len(frames) > 0
    BY <1>2, InCode DEF InLoop
  <2> QED  BY <2>1, <2>2, SetIndexLemma DEF Inv
<1>9. frames' = Append(SetIndex(Frame.index + 1), DefFrame(e, s)) /\ frames' \in Seq(FrameType')
  <2>1. SetIndex(Frame.index + 1) \in Seq(FrameType')
    BY <1>7, <1>8, SeqMono
  <2>2. frames' = Append(SetIndex(Frame.index + 1), DefFrame(e, s))
    BY <1>1, <1>3, <1>4, <1>5
  <2> QED  BY <2>1, <2>2, <1>6, AppendLemma
<1>10. Len(stack') \in Nat /\ bases' = Append(bases, Len(stack'))
  BY <1>1, <1>2
<1>11. bases' \in Seq(Nat) /\ host' \in Seq(ActivationType') /\ stack' \in Seq(Value')
  <2>1. bases' \in Seq(Nat)
    BY <1>10, AppendLemma DEF Inv, TypeOK
  <2>2. host' \in Seq(ActivationType')
    BY <1>1, <1>7, SeqMono DEF Inv, TypeOK
  <2>3. stack' \in Seq(Value')
    BY <1>2, <1>6, SeqMono
  <2> QED  BY <2>1, <2>2, <2>3
<1>12. ret' \in {NoRet} \cup Returned'
  BY <1>1, <1>2 DEF InLoop
<1>13. TypeOK'
  BY <1>6, <1>9, <1>11, <1>12, TypeStep DEF Inv
<1>14. program' = program /\ host' = host /\ ret' = ret
  BY <1>1
<1> QED  BY <1>1, <1>2, <1>6, <1>9, <1>10, <1>13, <1>14, CallStep

(* OP_CALL of a native function that returns at once preserves it.          *)
LEMMA CallNativeStep == Inv /\ CallNative => Inv'
<1> SUFFICES ASSUME Inv, CallNative PROVE Inv'
  OBVIOUS
<1>1. Executing("CALL")
  BY DEF CallNative
<1>2. PICK r \in NativeResults(Callee, Arguments) :
        /\ things' = r.things
        /\ IF r.ret.error
           THEN Fail(r.ret)
           ELSE Continue(Append(Drop(CallArity + 1), r.ret.value)) /\ UNCHANGED scopes
  BY DEF CallNative
<1>3. program' = program /\ scopes' = scopes
  <2>1. CASE r.ret.error
    BY <1>2, <2>1 DEF Fail, Unwind
  <2>2. CASE ~r.ret.error
    BY <1>2, <2>2 DEF Continue
  <2> QED  BY <2>1, <2>2
<1>4. /\ InLoop /\ FallsThrough(Ins) /\ CallArity \in Nat
      /\ Pops(Ins) = CallArity + 1 /\ Pushes(Ins) = 1
      /\ Callee \in Value /\ Arguments \in Seq(Value)
      /\ Drop(CallArity + 1) \in Seq(Value)
      /\ Len(Drop(CallArity + 1)) = Len(stack) - (CallArity + 1)
      /\ Len(stack) \in Nat /\ CallArity + 1 <= Len(stack)
  BY <1>1, CallOperands
<1>5. PICK f \in Value, args \in Seq(Value) : f = Callee /\ args = Arguments
  BY <1>4
<1>6. /\ Growth /\ Value \subseteq Value'
      /\ scopes' \in Seq(ScopeType') /\ things' \in Seq(Seq(Value'))
      /\ r.ret \in Returned'
  <2>1. r \in NativeResults(f, args) /\ things' = r.things
    BY <1>2, <1>5
  <2>2. Typed(r)
    BY <2>1, <1>3, NativeTyped DEF Inv
  <2> QED  BY <2>2 DEF Typed
<1>7. CASE r.ret.error
  <2>1. Top.fn = "executeCode" /\ Len(frames) > Top.frames
    BY <1>4, Fetch
  <2>2. PICK x \in Returned' : x = r.ret
    BY <1>6
  <2>3. Fail(x)
    BY <1>2, <1>7, <2>2
  <2> QED  BY <1>6, <2>1, <2>3, FailStep
<1>8. CASE ~r.ret.error
  <2>1. r.ret.value \in Value'
    BY <1>6 DEF Returned
  <2>2. Drop(CallArity + 1) \in Seq(Value')
    BY <1>4, <1>6, SeqMono
  <2>3. PICK p \in Nat : p = CallArity + 1
    BY <1>4
  <2>4. PICK st : st = Append(Drop(CallArity + 1), r.ret.value)
    OBVIOUS
  <2>5. st \in Seq(Value') /\ Len(st) = Len(Drop(CallArity + 1)) + 1
    BY <2>1, <2>2, <2>4, AppendLemma
  <2>6. Len(st) = Len(stack) - p + 1
    BY <2>3, <2>5, <1>4
  <2>7. Continue(st)
    BY <1>2, <1>8, <2>4
  <2>8. Pops(Ins) = p /\ Pushes(Ins) = 1 /\ 1 \in Nat
    BY <1>4, <2>3
  <2> QED  BY <1>4, <1>6, <2>5, <2>6, <2>7, <2>8, ContinueStep
<1> QED  BY <1>7, <1>8

(* What EnterNative makes for a function that calls back.                   *)
LEMMA Entered ==
  ASSUME Inv, NEW f \in Value, NEW args \in Seq(Value), CallsBack(f, args),
         NEW st \in Seq(Value), NEW c, CallerOf(c), EnterNative(f, args, st, c)
  PROVE  \E a : /\ TypeOK' /\ host' = Append(c, a) /\ a.fn \in Natives /\ a.phase = "start"
                /\ a.frames = Len(frames) + 1 /\ a.height = Len(st) /\ PhaseOK(a)
<1>1. /\ frames' = Append(frames, NativeFrame) /\ bases' = Append(bases, Len(st)) /\ stack' = st
      /\ things' = IF f.type = "VARARG" THEN Append(things, args) ELSE things
      /\ ret' = NoRet /\ program' = program /\ scopes' = scopes
  BY DEF EnterNative
<1>2. PICK A : A = IF f.type = "VARARG"
                   THEN <<Held(f)[1], Ref("LIST", Len(things) + 1)>> ELSE args
  OBVIOUS
<1>3. PICK a : a = Activation(NativeName(f), "start", Append(frames, NativeFrame), st, A)
  OBVIOUS
<1>4. host' = Append(c, a)
  BY <1>2, <1>3 DEF EnterNative
<1>5. NativeName(f) \in Natives /\ (NativeName(f) = "libCall" => f = Native("call"))
  BY DEF NativeName, Natives
<1>6. /\ Len(st) \in Nat /\ Len(frames) \in Nat /\ frames \in Seq(FrameType)
      /\ Len(Append(frames, NativeFrame)) = Len(frames) + 1
      /\ Append(frames, NativeFrame) \in Seq(FrameType)
  <2>1. frames \in Seq(FrameType) /\ NativeFrame \in FrameType
    BY DEF Inv, TypeOK, FrameType
  <2> QED  BY <2>1, AppendLemma
<1>7. a = [fn |-> NativeName(f), phase |-> "start", frames |-> Len(frames) + 1,
           height |-> Len(st), args |-> A]
  BY <1>3, <1>6 DEF Activation
<1>8. /\ Growth /\ Value \subseteq Value'
      /\ scopes' \in Seq(ScopeType') /\ things' \in Seq(Seq(Value'))
      /\ A \in Seq(Value') /\ Len(A) = 2
      /\ f = Native("call") => A[2].type = "LIST"
  <2>1. CASE f.type = "VARARG"
    <3>1. Len(args) >= 1 /\ f # Native("call")
      BY <2>1 DEF CallsBack, Native
    <3>2. args # <<>>
      BY <3>1
    <3>3. things' = Append(things, args)
      BY <1>1, <2>1
    <3>4. /\ Growth /\ Value \subseteq Value'
          /\ scopes' \in Seq(ScopeType') /\ things' \in Seq(Seq(Value'))
          /\ Ref("LIST", Len(things) + 1) \in Value'
      BY <1>1, <3>2, <3>3, GrowThings DEF Inv
    <3>5. Held(f)[1] \in Value
      BY <2>1, HeldTyped DEF Inv
    <3>6. A = <<Held(f)[1], Ref("LIST", Len(things) + 1)>>
      BY <1>2, <2>1
    <3>7. A \in Seq(Value') /\ Len(A) = 2
      BY <3>4, <3>5, <3>6
    <3> QED  BY <3>1, <3>4, <3>7
  <2>2. CASE f.type # "VARARG"
    <3>1. Len(args) = 2 /\ (f = Native("call") => args[2].type = "LIST")
      BY <2>2 DEF CallsBack, Native
    <3>2. A = args /\ things' = things
      BY <1>1, <1>2, <2>2
    <3>3. /\ Growth /\ Value' = Value
          /\ scopes' \in Seq(ScopeType') /\ things' \in Seq(Seq(Value'))
      BY <1>1, <3>2, SameThings DEF Inv
    <3> QED  BY <3>1, <3>2, <3>3
  <2> QED  BY <2>1, <2>2
<1>9. FrameType \subseteq FrameType' /\ ActivationType \subseteq ActivationType'
  BY <1>8, TypesMono DEF Inv
<1>10. a \in ActivationType'
  BY <1>5, <1>6, <1>7, <1>8 DEF ActivationType, Functionaries, Natives, Phases
<1>11. PhaseOK(a)
  BY <1>5, <1>7, <1>8 DEF PhaseOK, Natives
<1>12. /\ stack' \in Seq(Value') /\ frames' \in Seq(FrameType') /\ host' \in Seq(ActivationType')
       /\ bases' \in Seq(Nat)
  <2>1. stack' \in Seq(Value')
    BY <1>1, <1>8, SeqMono
  <2>2. frames' \in Seq(FrameType')
    BY <1>1, <1>6, <1>9, SeqMono
  <2>3. c \in Seq(ActivationType')
    BY <1>9, SeqMono DEF CallerOf
  <2>4. host' \in Seq(ActivationType')
    BY <2>3, <1>4, <1>10, AppendLemma
  <2>5. bases' \in Seq(Nat)
    BY <1>1, <1>6, AppendLemma DEF Inv, TypeOK
  <2> QED  BY <2>1, <2>2, <2>4, <2>5
<1>13. ret' \in {NoRet} \cup Returned'
  BY <1>1
<1>14. TypeOK'
  BY <1>8, <1>12, <1>13, TypeStep DEF Inv
<1> QED  BY <1>4, <1>5, <1>7, <1>11, <1>14

(* Entering a native function that calls back preserves it, from OP_CALL or *)
(* from another native function.                                            *)
LEMMA EnterNativeStep ==
  ASSUME Inv, NEW f \in Value, NEW args \in Seq(Value), CallsBack(f, args),
         NEW st \in Seq(Value), NEW c, CallerOf(c), EnterNative(f, args, st, c),
         c[Len(host)].phase # "start",
         \/ Executing("CALL") /\ Len(st) = Len(stack) - (CallArity + 1)
         \/ Top.fn \in Natives /\ Len(stack) = Top.height /\ Len(st) = Len(stack)
  PROVE  Inv'
<1>1. PICK a : /\ TypeOK' /\ host' = Append(c, a) /\ a.fn \in Natives /\ a.phase = "start"
               /\ a.frames = Len(frames) + 1 /\ a.height = Len(st) /\ PhaseOK(a)
  BY Entered
<1>2. /\ frames' = Append(frames, NativeFrame) /\ bases' = Append(bases, Len(st)) /\ stack' = st
      /\ ret' = NoRet /\ program' = program
  BY DEF EnterNative
<1>3. Len(stack') \in Nat /\ bases' = Append(bases, Len(stack')) /\ a.height = Len(stack')
  BY <1>1, <1>2
<1>4. \/ Executing("CALL") /\ Len(stack') = Len(stack) - (CallArity + 1)
      \/ Top.fn \in Natives /\ Len(stack) = Top.height /\ Len(stack') = Len(stack)
  BY <1>2
<1>5. program' = program /\ frames' = Append(frames, NativeFrame) /\ ret' = NoRet
  BY <1>2
<1> QED  BY <1>1, <1>3, <1>4, <1>5, EnterStep

(* So OP_CALL of one does.                                                  *)
LEMMA CallCallbackStep == Inv /\ CallCallback => Inv'
<1> SUFFICES ASSUME Inv, CallCallback PROVE Inv'
  OBVIOUS
<1>1. /\ Executing("CALL") /\ CallsBack(Callee, Arguments)
      /\ EnterNative(Callee, Arguments, Drop(CallArity + 1), host)
  BY DEF CallCallback
<1>2. /\ InLoop /\ Callee \in Value /\ Arguments \in Seq(Value)
      /\ Drop(CallArity + 1) \in Seq(Value)
      /\ Len(Drop(CallArity + 1)) = Len(stack) - (CallArity + 1)
  BY <1>1, CallOperands
<1>3. PICK f \in Value, args \in Seq(Value), st \in Seq(Value) :
        f = Callee /\ args = Arguments /\ st = Drop(CallArity + 1)
  BY <1>2
<1>4. CallerOf(host)
  BY HostItself DEF Inv
<1>5. host[Len(host)].phase # "start"
  <2>1. PhaseOK(Top) /\ Top = host[Len(host)]
    BY HostFacts DEF Inv
  <2> QED  BY <1>2, <2>1 DEF PhaseOK, InLoop
<1>6. CallsBack(f, args) /\ EnterNative(f, args, st, host)
  BY <1>1, <1>3
<1>7. Executing("CALL") /\ Len(st) = Len(stack) - (CallArity + 1)
  BY <1>1, <1>2, <1>3
<1> QED  BY <1>4, <1>5, <1>6, <1>7, EnterNativeStep

(* The pushed result makes up for what the call took.                       *)
LEMMA ReturnedArithmetic ==
  ASSUME NEW b \in Nat, NEW d \in Nat, NEW l \in Nat, NEW e \in Nat, NEW p \in Nat,
         b + (d - p) <= l, d - p >= 0, e <= d - p + 1
  PROVE  l + 1 >= b + e
OBVIOUS

(* The end of OP_CALL preserves it: the frame is still at the call, and     *)
(* goes on behind it.                                                       *)
LEMMA NativeReturnedStep == Inv /\ NativeReturned => Inv'
<1> SUFFICES ASSUME Inv, NativeReturned PROVE Inv'
  OBVIOUS
<1>1. /\ Top.fn = "executeCode" /\ ret # NoRet /\ things' = things
      /\ IF ret.error
         THEN Fail(ret)
         ELSE /\ stack' = Append(stack, ret.value)
              /\ frames' = SetIndex(Frame.index + 1)
              /\ ret' = NoRet
              /\ UNCHANGED <<program, scopes, host, bases>>
  BY DEF NativeReturned
<1>2. program' = program /\ scopes' = scopes
  <2>1. CASE ret.error
    BY <1>1, <2>1 DEF Fail, Unwind
  <2>2. CASE ~ret.error
    BY <1>1, <2>2
  <2> QED  BY <2>1, <2>2
<1>3. /\ Growth /\ Value' = Value
      /\ scopes' \in Seq(ScopeType') /\ things' \in Seq(Seq(Value'))
  BY <1>1, <1>2, SameThings DEF Inv
<1>4. ret \in Returned
  BY <1>1 DEF Inv, TypeOK, Returned
<1>5. Len(frames) > Top.frames
  <2>1. Top.frames < Len(frames)
    BY <1>1 DEF Inv, TopOK
  <2>2. Top.frames \in Nat /\ Len(frames) \in Nat
    BY InvTypes, HostFacts DEF Inv
  <2> QED  BY <2>1, <2>2
<1>6. CASE ret.error
  <2>1. PICK x \in Returned' : x = ret
    BY <1>3, <1>4 DEF Returned
  <2>2. Fail(x)
    BY <1>1, <1>6, <2>1
  <2> QED  BY <1>1, <1>3, <1>5, <2>2, FailStep
<1>7. CASE ~ret.error
  <2>1. /\ Len(frames) \in 1..Len(frames) /\ Frame = frames[Len(frames)]
        /\ Frame.type = "DEF" /\ Frame.index \in DOMAIN Code
    BY <1>1, <1>5, InCode
  <2>2. Code[Frame.index].op = "CALL"
    BY <1>1, <2>1 DEF Inv, AtCall
  <2>3. FallsThrough(Code[Frame.index]) /\ Pushes(Code[Frame.index]) = 1
    BY <2>2 DEF FallsThrough, Pushes, PushOps
  <2>4. PICK p : p = Pops(Code[Frame.index])
    OBVIOUS
  <2>5. p \in Nat
    <3>1. ArgumentOk(Code, Code[Frame.index])
      BY <2>1, Certificate DEF Inv, TypeOK
    <3>2. Code[Frame.index].arg \in Nat
      BY <2>2, <3>1 DEF ArgumentOk
    <3>3. Arity(Code[Frame.index].arg) + 1 \in Nat
      BY <3>2 DEF Arity
    <3>4. p = Arity(Code[Frame.index].arg) + 1
      BY <2>2, <2>4 DEF Pops
    <3> QED  BY <3>3, <3>4
  <2>6. /\ Depth[Frame.index] \in Nat /\ Depth[Frame.index] - p >= 0
        /\ Frame.index + 1 \in DOMAIN Code
        /\ Depth[Frame.index + 1] <= Depth[Frame.index] - p + 1
    BY <2>1, <2>3, <2>4, Certificate DEF Inv, TypeOK
  <2>7. Depth[Frame.index + 1] \in Nat
    BY <2>6, Certificate DEF Inv, TypeOK
  <2>8. bases[Len(frames)] + (Depth[Frame.index] - p) <= Len(stack)
    <3>1. Owed(Len(frames)) = Depth[Frame.index] - p
      BY <1>1, <2>1, <2>4 DEF Owed, Waiting
    <3>2. Ceiling(Len(frames)) = Len(stack)
      BY DEF Ceiling
    <3> QED  BY <3>1, <3>2, <2>1 DEF Inv, OperandsPresent
  <2>9. bases[Len(frames)] \in Nat /\ Len(stack) \in Nat /\ stack \in Seq(Value)
    BY <2>1, BasesMono, InvTypes DEF Inv, TypeOK
  <2>10. Len(stack) + 1 >= bases[Len(frames)] + Depth[Frame.index + 1]
    BY <2>5, <2>6, <2>7, <2>8, <2>9, ReturnedArithmetic
  <2>11. stack' = Append(stack, ret.value)
    BY <1>1, <1>7
  <2>12. stack' \in Seq(Value') /\ Len(stack') = Len(stack) + 1
    <3>1. ret.value \in Value
      BY <1>4 DEF Returned
    <3>2. stack' \in Seq(Value) /\ Len(stack') = Len(stack) + 1
      BY <3>1, <2>9, <2>11, AppendLemma
    <3> QED  BY <3>2, <1>3
  <2>13. Len(stack') >= bases[Len(frames)] + Depth[Frame.index + 1]
    BY <2>10, <2>12, Zenon
  <2>14. /\ host' = host /\ bases' = bases /\ ret' = NoRet /\ frames' = SetIndex(Frame.index + 1)
    BY <1>1, <1>7
  <2> QED  BY <1>1, <1>2, <1>3, <1>5, <2>1, <2>6, <2>12, <2>13, <2>14, LocalStep
<1> QED  BY <1>6, <1>7

-----------------------------------------------------------------------------
(* The native functions and execFunc call functions themselves: callFunction*)
(* preserves the invariant, whatever it is given to call.                   *)
LEMMA CallFunctionStep ==
  ASSUME Inv, NEW f \in Value, NEW args \in Seq(Value), NEW c, CallerOf(c),
         callFunction(f, args, c), Top.fn # "executeCode",
         c[Len(host)].phase \notin {"start", "done"},
         Top.fn \in Natives => Len(stack) = Top.height,
         f.type # "FUNC" => Top.fn \in Natives
  PROVE  Inv'
<1>1. c \in Seq(ActivationType)
  BY DEF CallerOf
<1>2. CASE /\ CanFrame(f, Len(args))
           /\ scopes' = Append(scopes, CallScope(f, args))
           /\ frames' = Append(frames, DefFrame(f.entry + 1, NewScope))
           /\ bases' = Append(bases, Len(stack))
           /\ host' = Append(c, Activation("executeCode", "loop", frames, stack, <<>>))
           /\ ret' = NoRet
           /\ UNCHANGED <<program, stack, things>>
  <2>1. /\ Growth /\ Value \subseteq Value'
        /\ scopes' \in Seq(ScopeType') /\ things' \in Seq(Seq(Value'))
        /\ f.entry + 1 \in DOMAIN Code /\ Depth[f.entry + 1] = 0
        /\ DefFrame(f.entry + 1, NewScope) \in FrameType'
    BY <1>2, Framed DEF Inv
  <2>2. FrameType \subseteq FrameType' /\ ActivationType \subseteq ActivationType'
    BY <2>1, TypesMono DEF Inv
  <2>3. PICK e \in DOMAIN Code : e = f.entry + 1
    BY <2>1
  <2>4. PICK s : s = NewScope
    OBVIOUS
  <2>5. PICK a : a = Activation("executeCode", "loop", frames, stack, <<>>)
    OBVIOUS
  <2>6. Len(frames) \in Nat /\ Len(stack) \in Nat
    BY InvTypes DEF Inv
  <2>7. a = [fn |-> "executeCode", phase |-> "loop", frames |-> Len(frames),
             height |-> Len(stack), args |-> <<>>]
    BY <2>5 DEF Activation
  <2>8. a \in ActivationType' /\ PhaseOK(a)
    BY <2>6, <2>7 DEF ActivationType, Functionaries, Phases, PhaseOK, Natives
  <2>9. frames' \in Seq(FrameType')
    <3>1. frames \in Seq(FrameType')
      BY <2>2, SeqMono DEF Inv, TypeOK
    <3> QED  BY <3>1, <1>2, <2>1, AppendLemma
  <2>10. host' = Append(c, a) /\ host' \in Seq(ActivationType')
    <3>1. c \in Seq(ActivationType')
      BY <1>1, <2>2, SeqMono
    <3>2. host' = Append(c, a)
      BY <1>2, <2>5
    <3> QED  BY <3>1, <3>2, <2>8, AppendLemma
  <2>11. stack' \in Seq(Value') /\ bases' \in Seq(Nat) /\ ret' \in {NoRet} \cup Returned'
    <3>1. stack' \in Seq(Value')
      BY <1>2, <2>1, SeqMono DEF Inv, TypeOK
    <3>2. bases' \in Seq(Nat)
      BY <1>2, <2>6, AppendLemma DEF Inv, TypeOK
    <3> QED  BY <1>2, <3>1, <3>2
  <2>12. TypeOK'
    BY <2>1, <2>9, <2>10, <2>11, TypeStep DEF Inv
  <2>13. a.fn = "executeCode" /\ a.frames = Len(frames) /\ a.height = Len(stack)
    BY <2>7
  <2>14. /\ program' = program /\ stack' = stack /\ ret' = NoRet
         /\ bases' = Append(bases, Len(stack)) /\ frames' = Append(frames, DefFrame(e, s))
         /\ Depth[e] = 0
    BY <1>2, <2>1, <2>3, <2>4
  <2> QED  BY <2>8, <2>10, <2>12, <2>13, <2>14, ExecuteStep
<1>3. CASE /\ f.type = "FUNC" /\ ~CanFrame(f, Len(args))
           /\ ret' = Throw("bad call")
           /\ host' = c
           /\ UNCHANGED <<program, stack, frames, scopes, things, bases>>
  <2>1. /\ Growth /\ Value' = Value
        /\ scopes' \in Seq(ScopeType') /\ things' \in Seq(Seq(Value'))
    BY <1>3, SameThings DEF Inv
  <2>2. FrameType \subseteq FrameType' /\ ActivationType \subseteq ActivationType'
    BY <2>1, TypesMono DEF Inv
  <2>3. ret' \in Returned'
    <3>1. "bad call" \in Messages
      BY DEF Messages
    <3> QED  BY <3>1, <1>3, <2>1, ThrowTyped DEF Returned
  <2>4. host' \in Seq(ActivationType') /\ frames' \in Seq(FrameType')
    BY <1>3, <1>1, <2>2, SeqMono DEF Inv, TypeOK
  <2>5. stack' \in Seq(Value') /\ bases' \in Seq(Nat)
    BY <1>3, <2>1 DEF Inv, TypeOK
  <2>6. TypeOK'
    BY <2>1, <2>3, <2>4, <2>5, TypeStep DEF Inv
  <2>7. ret' # NoRet
    BY <2>3, ReturnedNotNone
  <2>8. /\ program' = program /\ frames' = frames /\ bases' = bases /\ Len(stack') = Len(stack)
        /\ CallerOf(host') /\ host'[Len(host)].phase # "start"
    BY <1>3
  <2> QED  BY <2>6, <2>7, <2>8, ResultStep
<1>4. CASE /\ f.type # "FUNC" /\ ~CallsBack(f, args)
           /\ \E r \in NativeResults(f, args) : ret' = r.ret /\ things' = r.things
           /\ host' = c
           /\ UNCHANGED <<program, stack, frames, scopes, bases>>
  <2>1. PICK r \in NativeResults(f, args) : ret' = r.ret /\ things' = r.things
    BY <1>4
  <2>2. Typed(r)
    BY <1>4, <2>1, NativeTyped DEF Inv
  <2>3. /\ Growth /\ Value \subseteq Value'
        /\ scopes' \in Seq(ScopeType') /\ things' \in Seq(Seq(Value'))
        /\ ret' \in Returned'
    BY <2>1, <2>2 DEF Typed
  <2>4. FrameType \subseteq FrameType' /\ ActivationType \subseteq ActivationType'
    BY <2>3, TypesMono DEF Inv
  <2>5. /\ host' \in Seq(ActivationType') /\ frames' \in Seq(FrameType')
        /\ stack' \in Seq(Value') /\ bases' \in Seq(Nat)
    <3>1. host' \in Seq(ActivationType') /\ frames' \in Seq(FrameType')
      BY <1>4, <1>1, <2>4, SeqMono DEF Inv, TypeOK
    <3>2. stack' \in Seq(Value') /\ bases' \in Seq(Nat)
      BY <1>4, <2>3, SeqMono DEF Inv, TypeOK
    <3> QED  BY <3>1, <3>2
  <2>6. TypeOK'
    BY <2>3, <2>5, TypeStep DEF Inv
  <2>7. ret' # NoRet
    BY <2>3, ReturnedNotNone
  <2>8. /\ program' = program /\ frames' = frames /\ bases' = bases /\ Len(stack') = Len(stack)
        /\ CallerOf(host') /\ host'[Len(host)].phase # "start"
    BY <1>4
  <2> QED  BY <2>6, <2>7, <2>8, ResultStep
<1>5. CASE /\ f.type # "FUNC" /\ CallsBack(f, args)
           /\ EnterNative(f, args, stack, c)
  <2>1. PICK st \in Seq(Value) : st = stack
    BY DEF Inv, TypeOK
  <2>2. EnterNative(f, args, st, c) /\ CallsBack(f, args)
    BY <1>5, <2>1
  <2>3. Top.fn \in Natives /\ Len(stack) = Top.height /\ Len(st) = Len(stack)
    BY <1>5, <2>1
  <2>4. c[Len(host)].phase # "start"
    OBVIOUS
  <2> QED  BY <2>2, <2>3, <2>4, EnterNativeStep
<1> QED  BY <1>2, <1>3, <1>4, <1>5 DEF callFunction

(* A native function is always past its start when it calls.                *)
LEMMA NativePhase ==
  ASSUME Inv, Top.phase \in {"start", "guarded", "final"}
  PROVE  /\ Top.fn \in Natives /\ Top.fn # "executeCode"
         /\ Len(Top.args) = 2 /\ Top.args[1] \in Value /\ Top.args[2] \in Value
         /\ Top.phase = "guarded" => Top.fn = "libTryCatch"
         /\ Top.fn = "libCall" => Top.args[2].type = "LIST"
         /\ CallerOf(Phase("final")) /\ Phase("final")[Len(host)].phase = "final"
         /\ Top.fn = "libTryCatch" =>
              CallerOf(Phase("guarded")) /\ Phase("guarded")[Len(host)].phase = "guarded"
<1>1. Top \in ActivationType /\ PhaseOK(Top)
  BY HostFacts DEF Inv
<1>2. Top.fn \in Natives /\ Top.fn # "executeCode"
  BY <1>1 DEF PhaseOK, ActivationType, Functionaries, Natives
<1>3. /\ Len(Top.args) = 2 /\ Top.args \in Seq(Value)
      /\ Top.phase = "guarded" => Top.fn = "libTryCatch"
      /\ Top.fn = "libCall" => Top.args[2].type = "LIST"
  BY <1>1, <1>2 DEF PhaseOK, ActivationType
<1>4. Top.args[1] \in Value /\ Top.args[2] \in Value
  BY <1>3
<1>5. "final" \in Phases /\ "guarded" \in Phases
  BY DEF Phases
<1>6. PhaseOK([Top EXCEPT !.phase = "final"])
  BY <1>1, <1>2 DEF PhaseOK, ActivationType, Natives
<1>7. Top.fn = "libTryCatch" => PhaseOK([Top EXCEPT !.phase = "guarded"])
  BY <1>1, <1>2 DEF PhaseOK, ActivationType, Natives
<1>8. CallerOf(Phase("final")) /\ Phase("final")[Len(host)].phase = "final"
  BY <1>5, <1>6, PhaseCaller DEF Inv
<1>9. Top.fn = "libTryCatch" =>
        CallerOf(Phase("guarded")) /\ Phase("guarded")[Len(host)].phase = "guarded"
  BY <1>5, <1>7, PhaseCaller DEF Inv
<1> QED  BY <1>2, <1>3, <1>4, <1>8, <1>9

(* libTryCatch, libCall and VarargThing::call preserve it when they call    *)
(* back.                                                                    *)
LEMMA NativeStartStep == Inv /\ NativeStart => Inv'
<1> SUFFICES ASSUME Inv, NativeStart PROVE Inv'
  OBVIOUS
<1>1. ret = NoRet /\ Top.phase = "start"
  BY DEF NativeStart
<1>2. /\ Top.fn \in Natives /\ Top.fn # "executeCode"
      /\ Len(Top.args) = 2 /\ Top.args[1] \in Value /\ Top.args[2] \in Value
      /\ Top.fn = "libCall" => Top.args[2].type = "LIST"
      /\ CallerOf(Phase("final")) /\ Phase("final")[Len(host)].phase = "final"
      /\ Top.fn = "libTryCatch" =>
           CallerOf(Phase("guarded")) /\ Phase("guarded")[Len(host)].phase = "guarded"
  BY <1>1, NativePhase
<1>3. Len(stack) = Top.height
  BY <1>1, <1>2 DEF Inv, TopOK
<1>4. PICK f \in Value : f = Top.args[1]
  BY <1>2
<1>5. ASSUME NEW args \in Seq(Value), NEW p \in {"guarded", "final"}, NEW c, c = Phase(p),
             p = "guarded" => Top.fn = "libTryCatch", callFunction(f, args, c)
      PROVE  Inv'
  <2>1. CallerOf(c) /\ c[Len(host)].phase \notin {"start", "done"}
    BY <1>2, <1>5
  <2> QED  BY <1>2, <1>3, <1>5, <2>1, CallFunctionStep
<1>6. CASE Top.fn = "libTryCatch"
  <2>1. <<None>> \in Seq(Value)
    BY ScalarValues
  <2>2. callFunction(f, <<None>>, Phase("guarded"))
    BY <1>4, <1>6 DEF NativeStart
  <2> QED  BY <1>5, <1>6, <2>1, <2>2
<1>7. CASE Top.fn = "libCall"
  <2>1. Held(Top.args[2]) \in Seq(Value)
    BY <1>2, <1>7, HeldTyped DEF Inv
  <2>2. callFunction(f, Held(Top.args[2]), Phase("final"))
    BY <1>4, <1>7 DEF NativeStart
  <2> QED  BY <1>5, <2>1, <2>2
<1>8. CASE Top.fn = "varargCall"
  <2>1. <<Top.args[2]>> \in Seq(Value)
    BY <1>2
  <2>2. callFunction(f, <<Top.args[2]>>, Phase("final"))
    BY <1>4, <1>8 DEF NativeStart
  <2> QED  BY <1>5, <2>1, <2>2
<1> QED  BY <1>2, <1>6, <1>7, <1>8 DEF Natives

(* libTryCatch preserves it when it calls its handler.                      *)
LEMMA CatchStep == Inv /\ Catch => Inv'
<1> SUFFICES ASSUME Inv, Catch PROVE Inv'
  OBVIOUS
<1>1. Top.phase = "guarded" /\ ret.error
      /\ callFunction(Top.args[2], <<ret.value>>, Phase("final"))
  BY DEF Catch
<1>2. /\ Top.fn \in Natives /\ Top.fn # "executeCode" /\ Top.args[2] \in Value
      /\ CallerOf(Phase("final")) /\ Phase("final")[Len(host)].phase = "final"
  BY <1>1, NativePhase
<1>3. Len(stack) = Top.height
  BY <1>1, <1>2 DEF Inv, TopOK
<1>4. ret.value \in Value
  BY <1>1 DEF Inv, TypeOK, NoRet
<1>5. PICK f \in Value, args \in Seq(Value) : f = Top.args[2] /\ args = <<ret.value>>
  <2>1. <<ret.value>> \in Seq(Value)
    BY <1>4
  <2> QED  BY <1>2, <2>1
<1>6. PICK c : c = Phase("final")
  OBVIOUS
<1>7. callFunction(f, args, c) /\ CallerOf(c) /\ c[Len(host)].phase \notin {"start", "done"}
  BY <1>1, <1>2, <1>5, <1>6
<1> QED  BY <1>2, <1>3, <1>7, CallFunctionStep

(* The end of a native function preserves it: the frame popped is its own.  *)
LEMMA NativeEndStep == Inv /\ NativeEnd => Inv'
<1> SUFFICES ASSUME Inv, NativeEnd PROVE Inv'
  OBVIOUS
<1>1. /\ ret # NoRet /\ Top.phase \in {"final", "guarded"}
      /\ host' = Bottom(host, Len(host) - 1)
      /\ frames' = Bottom(frames, Len(frames) - 1)
      /\ bases' = Bottom(bases, Len(frames) - 1)
      /\ UNCHANGED <<program, stack, scopes, things, ret>>
  BY DEF NativeEnd
<1>2. Top.fn \in Natives
  BY <1>1, NativePhase
<1>3. Len(frames) \in 1..Len(frames) /\ Len(host) > 1 /\ Len(bases) = Len(frames)
  BY <1>2, TopNative DEF Inv, HeightsOK
<1>4. /\ Growth /\ Value' = Value
      /\ scopes' \in Seq(ScopeType') /\ things' \in Seq(Seq(Value'))
  BY <1>1, SameThings DEF Inv
<1>5. FrameType \subseteq FrameType' /\ ActivationType \subseteq ActivationType'
  BY <1>4, TypesMono DEF Inv
<1>6. frames' \in Seq(FrameType) /\ bases' \in Seq(Nat)
  <2>1. Len(frames) - 1 \in 0..Len(frames) /\ Len(frames) - 1 \in 0..Len(bases)
    BY <1>3
  <2> QED  BY <1>1, <2>1, BottomLemma DEF Inv, TypeOK
<1>7. host' \in Seq(ActivationType)
  BY <1>1, <1>3, HostPop DEF Inv
<1>8. /\ stack' \in Seq(Value') /\ frames' \in Seq(FrameType') /\ host' \in Seq(ActivationType')
      /\ ret' \in {NoRet} \cup Returned'
  <2>1. stack' \in Seq(Value') /\ ret' \in {NoRet} \cup Returned'
    BY <1>1, <1>4 DEF Inv, TypeOK, Returned
  <2>2. frames' \in Seq(FrameType') /\ host' \in Seq(ActivationType')
    BY <1>5, <1>6, <1>7, SeqMono
  <2> QED  BY <2>1, <2>2
<1>9. TypeOK'
  BY <1>4, <1>6, <1>8, TypeStep DEF Inv
<1>10. Len(stack') = Len(stack)
  BY <1>1
<1> QED  BY <1>1, <1>2, <1>9, <1>10, EndStep

(* execFunc finds a thing under main, or nothing.                           *)
LEMMA MainTyped ==
  ASSUME TypeOK
  PROVE  Main \in Value \cup {Null}
<1>1. ModuleScope \in 1..Len(scopes) /\ scopes \in Seq(ScopeType)
  BY DEF TypeOK, ModuleScope
<1>2. scopes[ModuleScope] \in ScopeType
  BY <1>1
<1>3. scopes[ModuleScope].locals \in [Names -> Value \cup {Null}]
  BY <1>2, ScopeElim
<1>4. "main" \in Names
  BY NamesAssumption
<1> QED  BY <1>3, <1>4 DEF Main

(* execFunc goes on to its next phase.                                      *)
LEMMA ExecFuncPhase ==
  ASSUME Inv, Top.fn = "execFunc", NEW p \in {"main", "done"}
  PROVE  CallerOf(Phase(p)) /\ Phase(p)[Len(host)].phase = p
<1>1. Top \in ActivationType /\ PhaseOK(Top) /\ p \in Phases
  BY HostFacts DEF Inv, Phases
<1>2. PhaseOK([Top EXCEPT !.phase = p])
  BY <1>1 DEF PhaseOK, ActivationType, Natives
<1> QED  BY <1>1, <1>2, PhaseCaller DEF Inv

(* ... and keeps a result.                                                  *)
LEMMA ExecFuncResult ==
  ASSUME Inv, Top.fn = "execFunc", host' = Phase("done"), ret' \in Returned,
         UNCHANGED <<program, stack, frames, scopes, things, bases>>
  PROVE  Inv'
<1>1. CallerOf(host') /\ host'[Len(host)].phase = "done"
  BY ExecFuncPhase
<1>2. /\ Growth /\ Value' = Value
      /\ scopes' \in Seq(ScopeType') /\ things' \in Seq(Seq(Value'))
  BY SameThings DEF Inv
<1>3. FrameType \subseteq FrameType' /\ ActivationType \subseteq ActivationType'
  BY <1>2, TypesMono DEF Inv
<1>4. ret' \in Returned'
  BY <1>2 DEF Returned
<1>5. /\ stack' \in Seq(Value') /\ frames' \in Seq(FrameType') /\ host' \in Seq(ActivationType')
      /\ bases' \in Seq(Nat)
  <2>1. stack' \in Seq(Value') /\ bases' \in Seq(Nat)
    BY <1>2 DEF Inv, TypeOK
  <2>2. frames' \in Seq(FrameType')
    BY <1>3, SeqMono DEF Inv, TypeOK
  <2>3. host' \in Seq(ActivationType')
    BY <1>1, <1>3, SeqMono DEF CallerOf
  <2> QED  BY <2>1, <2>2, <2>3
<1>6. TypeOK'
  BY <1>2, <1>4, <1>5, TypeStep DEF Inv
<1>7. ret' # NoRet
  BY <1>4, ReturnedNotNone
<1>8. Top.fn \notin Natives /\ Top.fn # "executeCode" /\ Len(stack') = Len(stack)
  BY DEF Natives
<1> QED  BY <1>1, <1>6, <1>7, <1>8, ResultStep

(* execFunc preserves the invariant when it calls main and when it ends.    *)
LEMMA ExecFuncStep == Inv /\ (ModuleReturned \/ MainReturned) => Inv'
<1> SUFFICES ASSUME Inv, ModuleReturned \/ MainReturned PROVE Inv'
  OBVIOUS
<1>1. Top.fn = "execFunc" /\ ret # NoRet
  BY DEF ModuleReturned, MainReturned
<1>2. ret \in Returned
  BY <1>1 DEF Inv, TypeOK, Returned
<1>3. CASE ModuleReturned /\ ~ret.error /\ Main # Null /\ Main.type = "FUNC"
  <2>1. PICK f \in Value : f = Main
    BY <1>3, MainTyped DEF Inv
  <2>2. PICK args \in Seq(Value) : args = <<None>>
    <3>1. <<None>> \in Seq(Value)
      BY ScalarValues
    <3> QED  BY <3>1
  <2>3. PICK c : c = Phase("main")
    OBVIOUS
  <2>4. callFunction(f, args, c)
    BY <1>3, <2>1, <2>2, <2>3 DEF ModuleReturned
  <2>5. CallerOf(c) /\ c[Len(host)].phase \notin {"start", "done"}
    BY <1>1, <2>3, ExecFuncPhase
  <2>6. Top.fn # "executeCode" /\ Top.fn \notin Natives /\ f.type = "FUNC"
    BY <1>1, <1>3, <2>1 DEF Natives
  <2> QED  BY <2>4, <2>5, <2>6, CallFunctionStep
<1>4. CASE ModuleReturned /\ ~(~ret.error /\ Main # Null /\ Main.type = "FUNC")
  <2>1. /\ ret' = IF ret.error THEN ret
                  ELSE IF Main = Null THEN Throw("function not found")
                  ELSE Throw("not a function")
        /\ host' = Phase("done")
        /\ UNCHANGED <<program, stack, frames, scopes, things, bases>>
    BY <1>4 DEF ModuleReturned
  <2>2. Throw("function not found") \in Returned /\ Throw("not a function") \in Returned
    <3>1. "function not found" \in Messages /\ "not a function" \in Messages
      BY DEF Messages
    <3> QED  BY <3>1, ThrowTyped
  <2>3. ret' \in Returned
    BY <1>2, <2>1, <2>2
  <2> QED  BY <1>1, <2>1, <2>3, ExecFuncResult
<1>5. CASE MainReturned
  <2>1. /\ host' = Phase("done") /\ ret' = ret
        /\ UNCHANGED <<program, stack, frames, scopes, things, bases>>
    BY <1>5 DEF MainReturned
  <2> QED  BY <1>1, <1>2, <2>1, ExecFuncResult
<1> QED  BY <1>3, <1>4, <1>5

-----------------------------------------------------------------------------
(* What executeModule sets up is well-formed.                               *)
LEMMA InitTyped == Init => TypeOK
<1> SUFFICES ASSUME Init PROVE TypeOK
  OBVIOUS
<1>1. /\ stack = <<>> /\ things = <<>> /\ ret = NoRet /\ bases = <<0>>
      /\ frames = <<DefFrame(program.entry, ModuleScope)>>
      /\ scopes = <<[chain |-> <<BuiltinsScope>>, locals |-> Builtins],
                    [chain |-> <<ModuleScope, BuiltinsScope>>, locals |-> NoLocals]>>
      /\ host = <<Activation("execFunc", "module", <<>>, <<>>, <<>>),
                  Activation("executeCode", "loop", <<>>, <<>>, <<>>)>>
  BY DEF Init
<1>2. WellFormed(program)
  BY ProgramAssumption DEF Init
<1>3. Len(scopes) = 2 /\ ModuleScope = 2 /\ BuiltinsScope = 1
  BY <1>1 DEF ModuleScope, BuiltinsScope
<1>4. scopes \in Seq(ScopeType)
  <2>1. NoLocals \in [Names -> Value \cup {Null}] /\ Builtins \in [Names -> Value \cup {Null}]
    BY BuiltinsTyped DEF NoLocals
  <2>2. <<BuiltinsScope>> \in Seq(1..Len(scopes))
    BY <1>3
  <2>3. <<ModuleScope, BuiltinsScope>> \in Seq(1..Len(scopes))
    BY <1>3
  <2>4. [chain |-> <<BuiltinsScope>>, locals |-> Builtins] \in ScopeType
    BY <2>1, <2>2 DEF ScopeType
  <2>5. [chain |-> <<ModuleScope, BuiltinsScope>>, locals |-> NoLocals] \in ScopeType
    BY <2>1, <2>3 DEF ScopeType
  <2> QED  BY <1>1, <2>4, <2>5
<1>5. frames \in Seq(FrameType)
  <2>1. program.entry \in DOMAIN Code
    BY <1>2 DEF WellFormed, Code
  <2>2. DefFrame(program.entry, ModuleScope) \in FrameType
    BY <2>1, <1>3 DEF DefFrame, FrameType
  <2> QED  BY <1>1, <2>2
<1>6. host \in Seq(ActivationType)
  <2>1. \A fn \in Functionaries, p \in Phases :
          Activation(fn, p, <<>>, <<>>, <<>>) \in ActivationType
    BY DEF Activation, ActivationType
  <2>2. /\ Activation("execFunc", "module", <<>>, <<>>, <<>>) \in ActivationType
        /\ Activation("executeCode", "loop", <<>>, <<>>, <<>>) \in ActivationType
    BY <2>1 DEF Functionaries, Phases
  <2> QED  BY <1>1, <2>2
<1>7. stack \in Seq(Value) /\ things \in Seq(Seq(Value)) /\ bases \in Seq(Nat)
  BY <1>1
<1> QED  BY <1>1, <1>2, <1>3, <1>4, <1>5, <1>6, <1>7 DEF TypeOK

(* The invariant holds when executeModule enters executeCode.               *)
LEMMA InitInv == Init => Inv
<1> SUFFICES ASSUME Init PROVE Inv
  OBVIOUS
<1>1. /\ stack = <<>> /\ ret = NoRet /\ bases = <<0>>
      /\ frames = <<DefFrame(program.entry, ModuleScope)>>
      /\ host = <<[fn |-> "execFunc", phase |-> "module", frames |-> 0, height |-> 0,
                   args |-> <<>>],
                  [fn |-> "executeCode", phase |-> "loop", frames |-> 0, height |-> 0,
                   args |-> <<>>]>>
  BY DEF Init, Activation
<1>2. TypeOK
  BY InitTyped
<1>3. /\ Len(host) = 2 /\ Len(frames) = 1 /\ Len(bases) = 1 /\ bases[1] = 0 /\ Len(stack) = 0
      /\ host[1].fn = "execFunc" /\ host[1].phase = "module"
      /\ host[1].frames = 0 /\ host[1].height = 0
      /\ host[2].fn = "executeCode" /\ host[2].phase = "loop"
      /\ host[2].frames = 0 /\ host[2].height = 0 /\ Top = host[2]
      /\ frames[1].type = "DEF" /\ frames[1].index = program.entry
      /\ ret = NoRet /\ NoRet.error = FALSE
  BY <1>1 DEF Top, DefFrame, NoRet
<1>4. \A k \in 1..Len(host) : k = 1 \/ k = 2
  BY <1>3
<1>5. HostOK
  <2>1. PhaseOK(host[1]) /\ PhaseOK(host[2])
    BY <1>3 DEF PhaseOK, Natives
  <2>2. OnTopOf(host[2], host[1])
    BY <1>3 DEF OnTopOf, Natives
  <2>3. host # <<>>
    <3>1. SUFFICES ASSUME host = <<>> PROVE FALSE
      OBVIOUS
    <3>2. Len(host) = 0
      BY <3>1
    <3> QED  BY <3>2, <1>3
  <2>4. \A k \in 1..Len(host) : /\ host[k].fn = "execFunc" <=> k = 1
                                /\ PhaseOK(host[k])
                                /\ k > 1 => OnTopOf(host[k], host[k - 1])
    BY <1>3, <1>4, <2>1, <2>2
  <2>5. \A j, k \in 1..Len(host) :
          j < k => /\ host[j].frames <= host[k].frames
                   /\ host[k].fn \in Natives => host[j].frames < host[k].frames
    BY <1>3, <1>4 DEF Natives
  <2> QED  BY <2>3, <2>4, <2>5 DEF HostOK
<1>6. HeightsOK
  BY <1>3, <1>4 DEF HeightsOK, Natives
<1>7. TopOK
  BY <1>3 DEF TopOK, Natives
<1>8. NativeFrames
  BY <1>3, <1>4 DEF NativeFrames, Natives
<1>9. AtCall
  BY <1>3 DEF AtCall
<1>10. OperandsPresent
  <2>1. Depth[program.entry] = 0
    BY <1>2 DEF TypeOK, WellFormed, Depth
  <2>2. Owed(1) = 0 /\ Ceiling(1) = 0
    BY <1>3, <2>1 DEF Owed, Waiting, Ceiling
  <2> QED  BY <1>3, <2>2 DEF OperandsPresent
<1>11. ResultPresent
  BY <1>3 DEF ResultPresent
<1> QED  BY <1>2, <1>5, <1>6, <1>7, <1>8, <1>9, <1>10, <1>11 DEF Inv

-----------------------------------------------------------------------------
(* Every step of the interpreter preserves the invariant.                   *)
LEMMA NextInv == Inv /\ [Next]_vars => Inv'
<1> SUFFICES ASSUME Inv, [Next]_vars PROVE Inv'
  OBVIOUS
<1>1. CASE PushConstant  BY <1>1, PushConstantStep
<1>2. CASE PushNone  BY <1>2, PushNoneStep
<1>3. CASE PushBuiltin  BY <1>3, PushBuiltinStep
<1>4. CASE CreateFunc  BY <1>4, CreateFuncStep
<1>5. CASE Load  BY <1>5, LoadStep
<1>6. CASE Store  BY <1>6, StoreStep
<1>7. CASE Dup  BY <1>7, DupStep
<1>8. CASE Rot3  BY <1>8, Rot3Step
<1>9. CASE Swap  BY <1>9, SwapStep
<1>10. CASE Pop \/ CheckNone  BY <1>10, PopStep
<1>11. CASE CondJumpFalse \/ AbsJump  BY <1>11, JumpsStep
<1>12. CASE CallDef  BY <1>12, CallDefStep
<1>13. CASE CallNative  BY <1>13, CallNativeStep
<1>14. CASE CallCallback  BY <1>14, CallCallbackStep
<1>15. CASE NativeReturned  BY <1>15, NativeReturnedStep
<1>16. CASE Return  BY <1>16, ReturnsStep
<1>17. CASE ExecuteReturn  BY <1>17, ExecuteReturnStep
<1>18. CASE ExecuteError  BY <1>18, ExecuteErrorStep
<1>19. CASE NativeStart  BY <1>19, NativeStartStep
<1>20. CASE Catch  BY <1>20, CatchStep
<1>21. CASE NativeEnd  BY <1>21, NativeEndStep
<1>22. CASE ModuleReturned \/ MainReturned  BY <1>22, ExecFuncStep
<1>23. CASE UNCHANGED vars
  <2>1. /\ program' = program /\ stack' = stack /\ frames' = frames /\ scopes' = scopes
        /\ things' = things /\ host' = host /\ ret' = ret /\ bases' = bases
    BY <1>23 DEF vars
  <2>2. Top' = Top /\ Code' = Code /\ Depth' = Depth
    BY <2>1 DEF Top, Code, Depth
  <2>3. TypeOK'
    BY <2>1 DEF Inv, TypeOK, Value, Scalars, Functions, References, ScopeType, FrameType,
                ActivationType, Code
  <2>4. HostOK'
    BY <2>1 DEF Inv, HostOK, PhaseOK, OnTopOf
  <2>5. HeightsOK' /\ NativeFrames'
    BY <2>1 DEF Inv, HeightsOK, NativeFrames
  <2>6. TopOK' /\ ResultPresent'
    BY <2>1, <2>2 DEF Inv, TopOK, ResultPresent
  <2>7. AtCall'
    BY <2>1, <2>2 DEF Inv, AtCall
  <2>8. OperandsPresent'
    BY <2>1, <2>2 DEF Inv, OperandsPresent, Owed, Waiting, Ceiling
  <2> QED  BY <2>3, <2>4, <2>5, <2>6, <2>7, <2>8 DEF Inv
<1> QED
  BY <1>1, <1>2, <1>3, <1>4, <1>5, <1>6, <1>7, <1>8, <1>9, <1>10, <1>11, <1>12, <1>13, <1>14,
     <1>15, <1>16, <1>17, <1>18, <1>19, <1>20, <1>21, <1>22, <1>23
     DEF Next, Step, Interpret, Finished

(* In every run of every well-formed program the three stacks agree: the    *)
(* inductive invariant of execute.cpp.                                      *)
THEOREM Invariance == Spec => []Inv
BY InitInv, NextInv, PTL DEF Spec

(* Every run: things, frames and scopes are well-formed, in executeCode and *)
(* in whatever it calls.                                                    *)
THEOREM TypeCorrect == Spec => []TypeOK
<1>1. Inv => TypeOK
  BY DEF Inv
<1> QED  BY <1>1, Invariance, PTL

(* Every run, for the TODO of executeCode ("check if stack is empty"): no   *)
(* instruction pops or peeks below its own function's operands, whatever    *)
(* its callees left behind and however they ended.                          *)
THEOREM OperandsAlwaysPresent == Spec => []OperandsPresent
<1>1. Inv => OperandsPresent
  BY DEF Inv
<1> QED  BY <1>1, Invariance, PTL

(* Every run: when executeCode leaves its loop there is a value to return.  *)
THEOREM ResultAlwaysPresent == Spec => []ResultPresent
<1>1. Inv => ResultPresent
  BY DEF Inv
<1> QED  BY <1>1, Invariance, PTL

(* Every run: the native frames are those of the native functions still     *)
(* active, so executeCode's "native frame not ended before def frame" never *)
(* fires.                                                                   *)
THEOREM FramesAlwaysMatchHost == Spec => []FramesMatchHost
<1>1. Inv => FramesMatchHost
  <2>1. ASSUME Inv, InLoop PROVE Frame.type = "DEF"
    BY <2>1, InCode DEF InLoop
  <2> QED  BY <2>1 DEF Inv, FramesMatchHost
<1> QED  BY <1>1, Invariance, PTL

(* Every run: an error reaches libTryCatch with both stacks as they were    *)
(* when it was entered.                                                     *)
THEOREM CatchAlwaysRestores == Spec => []CatchRestores
<1>1. Inv => CatchRestores
  BY DEF Inv, TopOK, CatchRestores, Natives
<1> QED  BY <1>1, Invariance, PTL

(* Every run that ends leaves execFunc with no frames, for cleanupExecFunc  *)
(* to free.                                                                 *)
THEOREM AlwaysEndsClean == Spec => []EndsClean
<1>1. Inv => EndsClean
  <2>1. ASSUME Inv, Done PROVE frames = <<>> /\ bases = <<>> /\ Len(host) = 1
    <3>1. Len(frames) = 0 /\ Len(host) = 1 /\ Len(bases) = Len(frames)
      BY <2>1, TopExecFunc DEF Done, Inv, HeightsOK
    <3>2. frames \in Seq(FrameType) /\ bases \in Seq(Nat)
      BY <2>1 DEF Inv, TypeOK
    <3> QED  BY <3>1, <3>2
  <2> QED  BY <2>1 DEF EndsClean
<1> QED  BY <1>1, Invariance, PTL
=============================================================================
