--------------------------- MODULE ExecuteActions ---------------------------
(*****************************************************************************)
(* What a step of the interpreter may never do, for every well-formed        *)
(* program: CallerOperandsKept and CapturedFrozen of ExecuteProperties.      *)
(* The invariant of ExecuteProofs says where the operands of every frame     *)
(* begin; a step changes the stack only above that of the frames it leaves.  *)
(*****************************************************************************)
EXTENDS ExecuteProofs

-----------------------------------------------------------------------------
(* The operands of callers.                                                 *)

(* What CallerOperandsKept says of one step.                                *)
OperandsKept ==
  \A i \in 1..LeastOf(Len(frames), Len(frames')) :
    /\ bases'[i] = bases[i]
    /\ bases[i] <= Len(stack')
    /\ Bottom(stack', bases[i]) = Bottom(stack, bases[i])

(* The step leaves the k lowest operands alone.                             *)
LowestKept(k) ==
  /\ k \in 0..Len(stack) /\ k <= Len(stack')
  /\ \A j \in 1..k : stack'[j] = stack[j]

(* It leaves m frames, and pushes at most one.                              *)
FramesLeft(m) ==
  \/ m \in 0..Len(bases) /\ bases' = Bottom(bases, m)
  \/ m = Len(bases) /\ (bases' = bases \/ \E x \in Nat : bases' = Append(bases, x))

(* Two stacks with the same lowest operands are the same below each of them.*)
LEMMA SameBottom ==
  ASSUME NEW S, NEW T, NEW s \in Seq(S), NEW t \in Seq(T),
         NEW k \in 0..Len(s), k <= Len(t), \A j \in 1..k : t[j] = s[j],
         NEW b \in 0..k
  PROVE  Bottom(t, b) = Bottom(s, b)
<1>1. Len(s) \in Nat /\ Len(t) \in Nat /\ b \in Nat /\ b <= Len(s) /\ b <= Len(t)
  OBVIOUS
<1>2. SubSeq(t, 1, b) \in Seq(T) /\ SubSeq(s, 1, b) \in Seq(S)
      /\ Len(SubSeq(t, 1, b)) = b /\ Len(SubSeq(s, 1, b)) = b
  BY <1>1, BottomLemma DEF Bottom
<1>3. \A j \in 1..b : SubSeq(t, 1, b)[j] = SubSeq(s, 1, b)[j]
  <2>1. \A j \in 1..b : SubSeq(t, 1, b)[j] = t[j] /\ SubSeq(s, 1, b)[j] = s[j]
    BY <1>1, BottomLemma DEF Bottom
  <2>2. \A j \in 1..b : j \in 1..k
    OBVIOUS
  <2> QED  BY <2>1, <2>2
<1> QED  BY <1>2, <1>3 DEF Bottom

(* The step keeps every caller's operands if it leaves alone those below    *)
(* where the last frame it leaves begins.                                   *)
LEMMA KeptBelow ==
  ASSUME Inv, Inv', NEW m \in Nat, FramesLeft(m), NEW k, LowestKept(k),
         m > 0 => bases[m] <= k
  PROVE  OperandsKept
<1>1. /\ Len(frames) = Len(bases) /\ Len(frames') = Len(bases') /\ Len(bases) \in Nat
      /\ bases \in Seq(Nat) /\ m <= Len(bases)
  BY BottomLemma DEF Inv, HeightsOK, TypeOK, FramesLeft
<1>2. LeastOf(Len(bases), Len(bases')) = m /\ \A i \in 1..m : bases'[i] = bases[i]
  <2>1. CASE m \in 0..Len(bases) /\ bases' = Bottom(bases, m)
    <3>1. Len(bases') = m /\ \A i \in 1..m : bases'[i] = bases[i]
      BY <1>1, <2>1, BottomLemma
    <3> QED  BY <1>1, <3>1 DEF LeastOf
  <2>2. CASE m = Len(bases) /\ bases' = bases
    BY <1>1, <2>2 DEF LeastOf
  <2>3. CASE m = Len(bases) /\ \E x \in Nat : bases' = Append(bases, x)
    <3>1. PICK x \in Nat : bases' = Append(bases, x)
      BY <2>3
    <3>2. Len(bases') = m + 1 /\ \A i \in 1..m : bases'[i] = bases[i]
      BY <1>1, <2>3, <3>1, AppendLemma
    <3> QED  BY <1>1, <2>3, <3>2 DEF LeastOf
  <2> QED  BY <2>1, <2>2, <2>3 DEF FramesLeft
<1>3. ASSUME NEW i \in 1..m
      PROVE  /\ bases[i] <= Len(stack')
             /\ Bottom(stack', bases[i]) = Bottom(stack, bases[i])
  <2>1. bases[i] \in Nat /\ bases[m] \in Nat /\ bases[i] <= bases[m]
    BY <1>1, <1>3, BasesMono DEF Inv
  <2>2. /\ stack \in Seq(Value) /\ stack' \in Seq(Value')
        /\ k \in 0..Len(stack) /\ k <= Len(stack') /\ \A j \in 1..k : stack'[j] = stack[j]
    BY DEF Inv, TypeOK, LowestKept
  <2>3. bases[i] \in 0..k /\ bases[i] <= Len(stack')
    <3>1. m > 0 /\ k \in Nat /\ Len(stack') \in Nat
      BY <1>3, <2>2
    <3> QED  BY <2>1, <2>2, <3>1
  <2> QED  BY <2>2, <2>3, SameBottom
<1> QED  BY <1>1, <1>2, <1>3 DEF OperandsKept

(* An instruction finds what it pops above where its own frame begins, and  *)
(* so does every caller what is its own.                                    *)
LEMMA InstructionKeeps ==
  ASSUME Inv, Inv', InLoop, NEW m \in Nat, FramesLeft(m),
         NEW p \in Nat, Pops(Ins) = p, LowestKept(Len(stack) - p)
  PROVE  OperandsKept
<1>1. PICK b \in Nat, l \in Nat, d \in Nat :
        /\ b = bases[Len(frames)] /\ l = Len(stack) /\ d = Depth[Frame.index]
        /\ b + d <= l /\ d - p >= 0
  BY Fetch
<1>2. b <= l - p
  BY <1>1
<1>3. m > 0 => bases[m] <= Len(stack) - p
  <2>1. SUFFICES ASSUME m > 0 PROVE bases[m] <= Len(stack) - p
    OBVIOUS
  <2>2. Len(frames) \in Nat /\ Len(bases) = Len(frames) /\ m \in 1..Len(frames)
    <3>1. Len(frames) \in Nat /\ Len(bases) = Len(frames)
      BY InvTypes DEF Inv, HeightsOK
    <3> QED  BY <2>1, <3>1 DEF FramesLeft
  <2>3. Len(frames) \in 1..Len(frames) /\ m \in 1..Len(frames)
    BY <2>2
  <2>4. bases[m] \in Nat /\ bases[m] <= b
    BY <2>3, <1>1, BasesMono DEF Inv
  <2>5. PICK x \in Nat : x = bases[m]
    BY <2>4
  <2>6. x <= l - p
    BY <1>2, <2>4, <2>5
  <2> QED  BY <1>1, <2>5, <2>6
<1> QED  BY <1>3, KeptBelow

(* Most instructions take p operands, leave some and go on.                 *)
LEMMA ContinueKeeps ==
  ASSUME Inv, Inv', InLoop, NEW p \in Nat, Pops(Ins) = p, NEW st, Continue(st),
         Len(stack) - p <= Len(st), \A j \in 1..(Len(stack) - p) : st[j] = stack[j]
  PROVE  OperandsKept
<1>1. stack' = st /\ bases' = bases
  BY DEF Continue
<1>2. LowestKept(Len(stack) - p)
  <2>1. p \in 0..Len(stack) /\ Len(stack) \in Nat
    BY Present
  <2> QED  BY <1>1, <2>1 DEF LowestKept
<1>3. Len(bases) \in Nat /\ FramesLeft(Len(bases))
  BY <1>1, InvTypes DEF Inv, FramesLeft
<1> QED  BY <1>2, <1>3, InstructionKeeps

(* Pushing a value leaves what was there.                                   *)
LEMMA PushedOn ==
  ASSUME NEW S, NEW s \in Seq(S), NEW v
  PROVE  /\ Len(Append(s, v)) = Len(s) + 1 /\ Len(s) \in Nat
         /\ \A j \in 1..Len(s) : Append(s, v)[j] = s[j]
<1>1. s \in Seq(S \cup {v}) /\ v \in S \cup {v}
  BY SeqMono
<1> QED  BY <1>1, AppendLemma

(* So those that only push keep the operands of callers.                    *)
LEMMA PushKeeps ==
  ASSUME Inv, Inv', InLoop, NEW p \in {0, 1}, Pops(Ins) = p, NEW v, Continue(Append(stack, v))
  PROVE  OperandsKept
<1>1. stack \in Seq(Value)
  BY DEF Inv, TypeOK
<1>2. PICK st : st = Append(stack, v)
  OBVIOUS
<1>3. /\ Len(stack) - p <= Len(st) /\ \A j \in 1..(Len(stack) - p) : st[j] = stack[j]
  BY <1>1, <1>2, PushedOn
<1> QED  BY <1>2, <1>3, ContinueKeeps

(* What is left after p operands are popped is what was there.              *)
LEMMA Dropped ==
  ASSUME Inv, InLoop, NEW p \in Nat, Pops(Ins) = p
  PROVE  /\ Drop(p) \in Seq(Value) /\ Len(Drop(p)) = Len(stack) - p
         /\ Len(stack) \in Nat /\ p <= Len(stack)
         /\ \A j \in 1..(Len(stack) - p) : Drop(p)[j] = stack[j]
<1>1. p \in 0..Len(stack) /\ Len(stack) \in Nat /\ stack \in Seq(Value)
  BY Present DEF Inv, TypeOK
<1>2. Len(stack) - p \in 0..Len(stack)
  BY <1>1
<1> QED  BY <1>1, <1>2, BottomLemma DEF Drop

(* Those that pop p operands and push others keep them, too.                *)
LEMMA PopKeeps ==
  ASSUME Inv, Inv', InLoop, NEW p \in Nat, Pops(Ins) = p,
         NEW S, NEW pushed \in Seq(S), Continue(Drop(p) \o pushed)
  PROVE  OperandsKept
<1>1. /\ Drop(p) \in Seq(Value) /\ Len(Drop(p)) = Len(stack) - p
      /\ \A j \in 1..(Len(stack) - p) : Drop(p)[j] = stack[j]
  BY Dropped
<1>2. PICK d : d = Drop(p)
  OBVIOUS
<1>3. d \in Seq(Value \cup S) /\ pushed \in Seq(Value \cup S)
  BY <1>1, <1>2, SeqMono
<1>4. Len(d \o pushed) = Len(d) + Len(pushed) /\ \A j \in 1..Len(d) : (d \o pushed)[j] = d[j]
  BY <1>3
<1>5. PICK st : st = d \o pushed
  OBVIOUS
<1>6. Len(stack) - p <= Len(st) /\ \A j \in 1..(Len(stack) - p) : st[j] = stack[j]
  BY <1>1, <1>2, <1>3, <1>4, <1>5
<1> QED  BY <1>2, <1>5, <1>6, ContinueKeeps

(* The instructions that go on to the next keep the operands of callers.    *)
LEMMA GoingOnKeeps ==
  ASSUME Inv, Inv',
         \/ PushConstant \/ PushNone \/ PushBuiltin \/ CreateFunc \/ Load \/ Store
         \/ Dup \/ Rot3 \/ Swap \/ Pop \/ CheckNone
  PROVE  OperandsKept
<1>1. CASE PushConstant \/ PushNone \/ PushBuiltin \/ CreateFunc \/ Load
  <2>1. /\ InLoop /\ Ins.op \in PushOps
        /\ \E v : Continue(Append(stack, v))
    BY <1>1 DEF PushConstant, PushNone, PushBuiltin, CreateFunc, Load, Executing, PushOps
  <2>2. Pops(Ins) = 0
    BY <2>1 DEF PushOps, Pops
  <2> QED  BY <2>1, <2>2, PushKeeps
<1>2. CASE Dup
  <2>1. InLoop /\ Ins.op = "DUP" /\ Continue(Append(stack, Peek(0)))
    BY <1>2 DEF Dup, Executing
  <2>2. Pops(Ins) = 1
    BY <2>1 DEF Pops
  <2> QED  BY <2>1, <2>2, PushKeeps
<1>3. CASE Store \/ Pop \/ CheckNone
  <2>1. /\ InLoop /\ Ins.op \in {"STORE", "POP", "CHECK_NONE"}
        /\ Continue(Drop(1))
    BY <1>3 DEF Store, Pop, CheckNone, Executing
  <2>2. Pops(Ins) = 1
    BY <2>1 DEF Pops
  <2>3. PICK st : st = Drop(1)
    OBVIOUS
  <2>4. Len(stack) - 1 <= Len(st) /\ \A j \in 1..(Len(stack) - 1) : st[j] = stack[j]
    BY <2>1, <2>2, <2>3, Dropped
  <2> QED  BY <2>1, <2>2, <2>3, <2>4, ContinueKeeps
<1>4. CASE Rot3
  <2>1. InLoop /\ Ins.op = "ROT3" /\ Continue(Drop(3) \o <<Peek(1), Peek(2), Peek(0)>>)
    BY <1>4 DEF Rot3, Executing
  <2>2. Pops(Ins) = 3
    BY <2>1 DEF Pops
  <2>3. <<Peek(1), Peek(2), Peek(0)>> \in Seq({Peek(0), Peek(1), Peek(2)})
    OBVIOUS
  <2> QED  BY <2>1, <2>2, <2>3, PopKeeps
<1>5. CASE Swap
  <2>1. InLoop /\ Ins.op = "SWAP" /\ Continue(Drop(2) \o <<Peek(0), Peek(1)>>)
    BY <1>5 DEF Swap, Executing
  <2>2. Pops(Ins) = 2
    BY <2>1 DEF Pops
  <2>3. <<Peek(0), Peek(1)>> \in Seq({Peek(0), Peek(1)})
    OBVIOUS
  <2> QED  BY <2>1, <2>2, <2>3, PopKeeps
<1> QED  BY <1>1, <1>2, <1>3, <1>4, <1>5

(* The jumps keep them.                                                     *)
LEMMA JumpsKeep ==
  ASSUME Inv, Inv', CondJumpFalse \/ AbsJump
  PROVE  OperandsKept
<1>1. /\ InLoop /\ bases' = bases
      /\ \/ Ins.op = "COND_JUMP_FALSE" /\ stack' = Drop(1)
         \/ Ins.op = "ABS_JUMP" /\ stack' = stack
  BY DEF CondJumpFalse, AbsJump, Executing
<1>2. Len(bases) \in Nat /\ FramesLeft(Len(bases)) /\ Len(stack) \in Nat
  BY <1>1, InvTypes DEF Inv, FramesLeft
<1>3. CASE Ins.op = "COND_JUMP_FALSE"
  <2>1. Pops(Ins) = 1 /\ stack' = Drop(1)
    BY <1>1, <1>3 DEF Pops
  <2>2. LowestKept(Len(stack) - 1)
    BY <1>1, <2>1, Dropped DEF LowestKept
  <2> QED  BY <1>1, <1>2, <2>1, <2>2, InstructionKeeps
<1>4. CASE Ins.op = "ABS_JUMP"
  <2>1. Pops(Ins) = 0 /\ stack' = stack
    BY <1>1, <1>4 DEF Pops
  <2>2. LowestKept(Len(stack) - 0)
    BY <1>2, <2>1 DEF LowestKept
  <2> QED  BY <1>1, <1>2, <2>1, <2>2, InstructionKeeps
<1> QED  BY <1>1, <1>3, <1>4

(* Calls keep them: a callee begins above what the call leaves.             *)
LEMMA CallsKeep ==
  ASSUME Inv, Inv', CallDef \/ CallCallback
  PROVE  OperandsKept
<1>1. /\ Executing("CALL") /\ stack' = Drop(CallArity + 1)
      /\ bases' \in {Append(bases, Len(stack) - (CallArity + 1)),
                     Append(bases, Len(Drop(CallArity + 1)))}
  BY DEF CallDef, CallCallback, EnterNative
<1>2. /\ InLoop /\ CallArity + 1 \in Nat /\ Pops(Ins) = CallArity + 1
      /\ Len(Drop(CallArity + 1)) = Len(stack) - (CallArity + 1)
      /\ Len(stack) \in Nat /\ CallArity + 1 <= Len(stack)
  BY <1>1, CallOperands
<1>3. PICK p \in Nat : p = CallArity + 1
  BY <1>2
<1>4. InLoop /\ Pops(Ins) = p /\ stack' = Drop(p) /\ bases' = Append(bases, Len(stack) - p)
  BY <1>1, <1>2, <1>3
<1>5. LowestKept(Len(stack) - p) /\ Len(stack) - p \in Nat
  BY <1>4, Dropped DEF LowestKept
<1>6. Len(bases) \in Nat /\ FramesLeft(Len(bases))
  BY <1>4, <1>5, InvTypes DEF Inv, FramesLeft
<1> QED  BY <1>4, <1>5, <1>6, InstructionKeeps

(* Unwinding keeps those of the frames it leaves: an executeCode cuts both  *)
(* stacks to where they were when it was entered.                           *)
LEMMA FailKeeps ==
  ASSUME Inv, Inv', Top.fn = "executeCode", Len(frames) > Top.frames, NEW r, Fail(r)
  PROVE  OperandsKept
<1>1. /\ bases' = Bottom(bases, Top.frames)
      /\ stack' = Bottom(stack, LeastOf(Len(stack), Top.height))
  BY DEF Fail, Unwind
<1>2. /\ Len(frames) \in Nat /\ Len(stack) \in Nat /\ Len(bases) = Len(frames)
      /\ Top.frames + 1 \in 1..Len(frames) /\ Top.height = bases[Top.frames + 1]
      /\ Top.frames \in Nat /\ stack \in Seq(Value)
  BY InvTypes, InCode, HostFacts DEF Inv, HeightsOK, TypeOK
<1>3. Top.height \in 0..Len(stack)
  BY <1>2, BasesMono DEF Inv
<1>4. LeastOf(Len(stack), Top.height) = Top.height
  BY <1>2, <1>3 DEF LeastOf
<1>5. LowestKept(Top.height)
  <2>1. PICK h \in 0..Len(stack) : h = Top.height
    BY <1>3
  <2>2. stack' = Bottom(stack, h)
    BY <1>1, <1>4, <2>1
  <2>3. LowestKept(h)
    BY <1>2, <2>2, BottomLemma DEF LowestKept
  <2> QED  BY <2>1, <2>3
<1>6. FramesLeft(Top.frames)
  BY <1>1, <1>2 DEF FramesLeft
<1>7. Top.frames > 0 => bases[Top.frames] <= Top.height
  BY <1>2, BasesMono DEF Inv
<1> QED  BY <1>2, <1>5, <1>6, <1>7, KeptBelow

(* So every error executeCode raises or hands on keeps them.                *)
LEMMA ErrorsKeep ==
  ASSUME Inv, Inv', ExecuteError
  PROVE  OperandsKept
<1>1. Frame.type = "DEF" /\ Len(frames) > Top.frames /\ Top.fn = "executeCode"
  BY Fetch DEF ExecuteError
<1>2. PICK m : Fail(Throw(m))
  BY <1>1 DEF ExecuteError, Raises
<1> QED  BY <1>1, <1>2, FailKeeps

(* A native function that returns at once keeps them, whether it fails or   *)
(* not.                                                                     *)
LEMMA CallNativeKeeps ==
  ASSUME Inv, Inv', CallNative
  PROVE  OperandsKept
<1>1. Executing("CALL")
      /\ \E r : IF r.ret.error THEN Fail(r.ret)
               ELSE Continue(Append(Drop(CallArity + 1), r.ret.value))
  BY DEF CallNative
<1>2. PICK r : IF r.ret.error THEN Fail(r.ret)
               ELSE Continue(Append(Drop(CallArity + 1), r.ret.value))
  BY <1>1
<1>3. InLoop /\ CallArity + 1 \in Nat /\ Pops(Ins) = CallArity + 1
  BY <1>1, CallOperands
<1>4. CASE r.ret.error
  BY <1>2, <1>3, <1>4, Fetch, FailKeeps
<1>5. CASE ~r.ret.error
  <2>1. PICK p, st : p = CallArity + 1 /\ st = Append(Drop(p), r.ret.value)
    OBVIOUS
  <2>2. p \in Nat /\ Pops(Ins) = p /\ Continue(st)
    BY <1>2, <1>3, <1>5, <2>1
  <2>3. /\ Drop(p) \in Seq(Value) /\ Len(Drop(p)) = Len(stack) - p /\ Len(stack) \in Nat
        /\ p <= Len(stack) /\ \A j \in 1..(Len(stack) - p) : Drop(p)[j] = stack[j]
    BY <1>3, <2>2, Dropped
  <2>4. Len(stack) - p <= Len(st) /\ \A j \in 1..(Len(stack) - p) : st[j] = stack[j]
    <3>1. /\ Len(st) = Len(Drop(p)) + 1
          /\ \A j \in 1..Len(Drop(p)) : st[j] = Drop(p)[j]
      BY <2>1, <2>3, PushedOn
    <3> QED  BY <2>3, <3>1
  <2> QED  BY <1>3, <2>2, <2>4, ContinueKeeps
<1> QED  BY <1>4, <1>5

(* A step that leaves at least the whole stack, and all frames, keeps them. *)
LEMMA StackKept ==
  ASSUME Inv, Inv', stack' = stack \/ (\E v : stack' = Append(stack, v)),
         NEW m \in 0..Len(bases), FramesLeft(m)
  PROVE  OperandsKept
<1>1. stack \in Seq(Value) /\ Len(stack) \in Nat
  BY DEF Inv, TypeOK
<1>2. LowestKept(Len(stack))
  BY <1>1, PushedOn DEF LowestKept
<1>3. m > 0 => bases[m] <= Len(stack)
  <2>1. Len(bases) = Len(frames) /\ Len(frames) \in Nat
    BY InvTypes DEF Inv, HeightsOK
  <2> QED  BY <2>1, BasesMono DEF Inv
<1> QED  BY <1>2, <1>3, KeptBelow

(* The returns, from a function, from executeCode with its value, and from  *)
(* a native function.                                                       *)
LEMMA ReturnsKeep ==
  ASSUME Inv, Inv', Return \/ NativeEnd \/ ExecuteReturn \/ NativeReturned
  PROVE  OperandsKept
<1>1. Len(bases) = Len(frames) /\ Len(frames) \in Nat /\ Len(stack) \in Nat
  BY InvTypes DEF Inv, HeightsOK
<1>2. CASE Return
  <2>1. /\ InLoop /\ Ins.op = "RETURN" /\ stack' = Append(Drop(1), Peek(0))
        /\ bases' = Bottom(bases, Len(frames) - 1)
    BY <1>2 DEF Return, Executing
  <2>2. Pops(Ins) = 1
    BY <2>1 DEF Pops
  <2>3. Len(frames) - 1 \in Nat
    BY <2>1, <1>1, InCode DEF InLoop
  <2>4. FramesLeft(Len(frames) - 1)
    BY <1>1, <2>1, <2>3 DEF FramesLeft
  <2>5. LowestKept(Len(stack) - 1)
    <3>1. /\ Drop(1) \in Seq(Value) /\ Len(Drop(1)) = Len(stack) - 1
          /\ 1 <= Len(stack) /\ \A j \in 1..(Len(stack) - 1) : Drop(1)[j] = stack[j]
      BY <2>1, <2>2, Dropped
    <3>2. Len(stack') = Len(Drop(1)) + 1 /\ \A j \in 1..Len(Drop(1)) : stack'[j] = Drop(1)[j]
      BY <2>1, <3>1, PushedOn
    <3> QED  BY <1>1, <3>1, <3>2 DEF LowestKept
  <2> QED  BY <2>1, <2>2, <2>3, <2>4, <2>5, InstructionKeeps
<1>3. CASE NativeEnd
  <2>1. stack' = stack /\ bases' = Bottom(bases, Len(frames) - 1)
        /\ Top.phase \in {"final", "guarded"}
    BY <1>3 DEF NativeEnd
  <2>2. Len(frames) \in 1..Len(frames)
    BY <2>1, NativePhase, TopNative DEF Inv
  <2>3. Len(frames) - 1 \in 0..Len(bases) /\ FramesLeft(Len(frames) - 1)
    BY <1>1, <2>1, <2>2 DEF FramesLeft
  <2> QED  BY <2>1, <2>3, StackKept
<1>4. CASE ExecuteReturn
  <2>1. /\ ret = NoRet /\ Top.fn = "executeCode" /\ Len(frames) <= Top.frames
        /\ stack' = Drop(1) /\ bases' = bases
    BY <1>4 DEF ExecuteReturn
  <2>2. /\ Len(host) \in Nat /\ Len(host) > 1 /\ Top = host[Len(host)] /\ Top.frames = Len(frames)
        /\ Top.height \in Nat
    <3>1. /\ Len(host) > 1 /\ Len(host) \in 1..Len(host) /\ Top = host[Len(host)]
          /\ Top.frames \in Nat /\ Top.height \in Nat
      BY <2>1, HostDeep, HostFacts, InvTypes DEF Inv, Top
    <3> QED  BY <1>1, <2>1, <3>1 DEF Inv, HeightsOK
  <2>3. Len(frames) > 0 => bases[Len(frames)] = Top.height
    <3>1. /\ Len(host) - 1 \in 1..Len(host)
          /\ OnTopOf(Top, host[Len(host) - 1]) /\ PhaseOK(host[Len(host) - 1])
          /\ host[Len(host) - 1] \in ActivationType
      BY <2>2, InvTypes DEF Inv, HostOK
    <3>2. PICK b : b = host[Len(host) - 1]
      OBVIOUS
    <3>3. /\ b.frames = Len(frames) /\ b.fn # "executeCode"
          /\ b.fn \in Natives => b.height = Top.height
      BY <2>1, <2>2, <3>1, <3>2 DEF OnTopOf
    <3>4. b.fn = "execFunc" => b.frames = 0
      BY <3>1, <3>2 DEF PhaseOK
    <3>5. b.fn \in Natives => b.height = bases[Len(frames)]
      BY <3>1, <3>2, <3>3 DEF Inv, HeightsOK
    <3>6. b.fn = "execFunc" \/ b.fn \in Natives
      BY <3>1, <3>2, <3>3 DEF ActivationType, Functionaries, Natives
    <3> QED  BY <3>3, <3>4, <3>5, <3>6
  <2>4. Len(stack) > Top.height
    BY <2>1, <2>2 DEF Inv, ResultPresent
  <2>5. LowestKept(Len(stack) - 1)
    <3>1. 1 \in 0..Len(stack) /\ Len(stack) - 1 \in 0..Len(stack) /\ stack \in Seq(Value)
      BY <1>1, <2>2, <2>4 DEF Inv, TypeOK
    <3> QED  BY <2>1, <3>1, BottomLemma DEF Drop, LowestKept
  <2>6. FramesLeft(Len(frames))
    BY <1>1, <2>1 DEF FramesLeft
  <2>7. Len(frames) > 0 => bases[Len(frames)] <= Len(stack) - 1
    BY <1>1, <2>2, <2>3, <2>4
  <2> QED  BY <1>1, <2>5, <2>6, <2>7, KeptBelow
<1>5. CASE NativeReturned
  <2>1. CASE ret.error
    <3>1. Top.fn = "executeCode" /\ ret # NoRet /\ Fail(ret)
      BY <1>5, <2>1 DEF NativeReturned
    <3>2. Top.frames < Len(frames)
      BY <3>1 DEF Inv, TopOK
    <3>3. Top.frames \in Nat
      BY HostFacts DEF Inv
    <3> QED  BY <1>1, <3>1, <3>2, <3>3, FailKeeps
  <2>2. CASE ~ret.error
    <3>1. stack' = Append(stack, ret.value) /\ bases' = bases
      BY <1>5, <2>2 DEF NativeReturned
    <3>2. Len(bases) \in 0..Len(bases) /\ FramesLeft(Len(bases))
      BY <1>1, <3>1 DEF FramesLeft
    <3> QED  BY <3>1, <3>2, StackKept
  <2> QED  BY <2>1, <2>2
<1> QED  BY <1>2, <1>3, <1>4, <1>5

(* Native functions that call, and execFunc, push nothing on the stack; a   *)
(* frame they push begins on top of it.                                     *)
LEMMA CallFunctionLeaves ==
  ASSUME Inv, NEW f, NEW args, NEW c, callFunction(f, args, c)
  PROVE  stack' = stack /\ FramesLeft(Len(bases))
<1>1. /\ stack' = stack
      /\ bases' \in {bases, Append(bases, Len(stack))}
  BY DEF callFunction, EnterNative
<1> QED  BY <1>1, InvTypes DEF Inv, FramesLeft

(* So they keep the operands of callers.                                    *)
LEMMA CallersKeep ==
  ASSUME Inv, Inv', NativeStart \/ Catch \/ ModuleReturned \/ MainReturned
  PROVE  OperandsKept
<1>1. \/ \E f, args, c : callFunction(f, args, c)
      \/ stack' = stack /\ bases' = bases
  <2>1. CASE NativeStart
    <3>1. Top.fn \in {"libTryCatch", "libCall", "varargCall"}
      BY <2>1, NativePhase DEF NativeStart, Natives
    <3> QED  BY <2>1, <3>1 DEF NativeStart
  <2>2. CASE Catch \/ ModuleReturned \/ MainReturned
    BY <2>2 DEF Catch, ModuleReturned, MainReturned
  <2> QED  BY <2>1, <2>2
<1>2. stack' = stack /\ FramesLeft(Len(bases)) /\ Len(bases) \in 0..Len(bases)
  <2>1. Len(bases) \in 0..Len(bases)
    BY InvTypes DEF Inv
  <2> QED  BY <1>1, <2>1, CallFunctionLeaves DEF FramesLeft
<1> QED  BY <1>2, StackKept

(* Every run: whatever a step does, calls, returns, failures and unwinding  *)
(* of executeCode included, each frame that is still there finds the        *)
(* operands its callers left as they were.                                  *)
THEOREM CallerOperandsAlwaysKept == Spec => CallerOperandsKept
<1>1. ASSUME Inv, Inv', Next
      PROVE  OperandsKept \/ UNCHANGED vars
  <2>1. ASSUME Interpret PROVE OperandsKept
    BY <1>1, <2>1, GoingOnKeeps, JumpsKeep, CallsKeep, ErrorsKeep, CallNativeKeeps, ReturnsKeep
       DEF Interpret
  <2>2. ASSUME NativeStart \/ Catch \/ NativeEnd \/ ModuleReturned \/ MainReturned
        PROVE  OperandsKept
    BY <1>1, <2>2, CallersKeep, ReturnsKeep
  <2> QED  BY <1>1, <2>1, <2>2 DEF Next, Step, Finished
<1>2. Inv /\ [Next]_vars => [OperandsKept]_vars
  BY <1>1, NextInv
<1>3. [][OperandsKept]_vars => CallerOperandsKept
  BY DEF CallerOperandsKept, OperandsKept
<1> QED  BY <1>2, <1>3, Invariance, PTL DEF Spec

-----------------------------------------------------------------------------
(* The scopes of closures.                                                  *)

(* The scopes frames store into, and those that are left to functions.      *)
FrameScopes == {frames[i].scope : i \in {j \in 1..Len(frames) : frames[j].type = "DEF"}}
FreeScopes == (1..Len(scopes)) \ FrameScopes

(* If the thing is a function, no frame stores into its scope.              *)
Apart(v) == v.type = "FUNC" => v.scope \in FreeScopes
AllApart(q) == \A i \in 1..Len(q) : Apart(q[i])
BoundApart(l) == \A n \in Names : Apart(l[n])

(* The strengthening that CapturedFrozen needs: wherever a function is kept,*)
(* on the stack, in a scope or a thing, as an argument of a native function *)
(* or as a result, no frame stores into its scope.                          *)
Private ==
  /\ AllApart(stack)
  /\ \A t \in 1..Len(scopes) : BoundApart(scopes[t].locals)
  /\ \A t \in 1..Len(things) : AllApart(things[t])
  /\ \A k \in 1..Len(host) : AllApart(host[k].args)
  /\ Apart(ret.value)

(* A step keeps it if every thing it leaves anywhere is one that was apart, *)
(* and no scope that was free becomes a frame's.                            *)
LEMMA Carry ==
  ASSUME FreeScopes \subseteq FreeScopes',
         AllApart(stack'),
         \A t \in 1..Len(scopes') : BoundApart(scopes'[t].locals),
         \A t \in 1..Len(things') : AllApart(things'[t]),
         \A k \in 1..Len(host') : AllApart(host'[k].args),
         Apart(ret'.value)
  PROVE  Private'
BY DEF Private, AllApart, BoundApart, Apart

(* Only a new scope becomes a frame's.                                      *)
LEMMA FreeKept ==
  ASSUME Inv, Inv', Len(scopes) <= Len(scopes'),
         FrameScopes' \subseteq FrameScopes \cup {NewScope}
  PROVE  FreeScopes \subseteq FreeScopes'
<1>1. Len(scopes) \in Nat /\ Len(scopes') \in Nat
  BY DEF Inv, TypeOK
<1>2. NewScope \notin 1..Len(scopes)
  BY <1>1 DEF NewScope
<1> QED  BY <1>1, <1>2 DEF FreeScopes

(* What is no function is apart.                                            *)
LEMMA NoFunction ==
  /\ Apart(None) /\ Apart(Null) /\ Apart(Functools)
  /\ \A b \in BOOLEAN : Apart(Bool(b))
  /\ \A l \in Literals : Apart(l)
  /\ \A n : Apart(Native(n))
  /\ \A m : Apart(ErrorThing(m))
  /\ \A t \in {"TUPLE", "LIST", "CELL", "VARARG"} : \A i : Apart(Ref(t, i))
BY LiteralsAssumption DEF Apart, None, Null, Functools, Bool, Native, ErrorThing, Ref

(* Parts of sequences whose things are apart, and sequences made of them.   *)
LEMMA BottomApart ==
  ASSUME NEW S, NEW q \in Seq(S), AllApart(q), NEW n \in 0..Len(q)
  PROVE  AllApart(Bottom(q, n))
<1>1. Len(Bottom(q, n)) = n /\ \A i \in 1..n : Bottom(q, n)[i] = q[i] /\ i \in 1..Len(q)
  BY BottomLemma
<1> QED  BY <1>1 DEF AllApart

(* ... with one more on top,                                               *)
LEMMA AppendApart ==
  ASSUME NEW S, NEW q \in Seq(S), AllApart(q), NEW v, Apart(v)
  PROVE  AllApart(Append(q, v))
<1>1. q \in Seq(S \cup {v}) /\ v \in S \cup {v}
  BY SeqMono
<1>2. /\ Len(Append(q, v)) = Len(q) + 1 /\ \A i \in 1..Len(q) : Append(q, v)[i] = q[i]
      /\ Append(q, v)[Len(q) + 1] = v /\ Len(q) \in Nat
  BY <1>1, AppendLemma
<1>3. \A i \in 1..(Len(q) + 1) : i \in 1..Len(q) \/ i = Len(q) + 1
  BY <1>2
<1> QED  BY <1>2, <1>3 DEF AllApart

(* ... one after the other,                                                *)
LEMMA ConcatApart ==
  ASSUME NEW S, NEW q \in Seq(S), NEW r \in Seq(S), AllApart(q), AllApart(r)
  PROVE  AllApart(q \o r)
<1> SUFFICES ASSUME NEW i \in 1..Len(q \o r) PROVE Apart((q \o r)[i])
  BY DEF AllApart
<1>1. Len(q) \in Nat /\ Len(r) \in Nat /\ Len(q \o r) = Len(q) + Len(r)
  OBVIOUS
<1>2. CASE i \in 1..Len(q)
  BY <1>2 DEF AllApart
<1>3. CASE i \notin 1..Len(q)
  <2>1. i - Len(q) \in 1..Len(r) /\ (q \o r)[i] = r[i - Len(q)]
    BY <1>1, <1>3
  <2> QED  BY <2>1 DEF AllApart
<1> QED  BY <1>2, <1>3

(* ... or without the first.                                               *)
LEMMA TailApart ==
  ASSUME NEW S, NEW q \in Seq(S), q # <<>>, AllApart(q)
  PROVE  AllApart(Tail(q))
<1>1. Len(Tail(q)) = Len(q) - 1 /\ Len(q) \in Nat
  OBVIOUS
<1>2. \A i \in 1..(Len(q) - 1) : Tail(q)[i] = q[i + 1] /\ i + 1 \in 1..Len(q)
  BY <1>1
<1> QED  BY <1>1, <1>2 DEF AllApart

(* The operands of an instruction are apart.                                *)
LEMMA PeekApart ==
  ASSUME Inv, Private, InLoop, NEW p \in Nat, Pops(Ins) = p
  PROVE  AllApart(Drop(p)) /\ \A i \in Nat : i < p => Apart(Peek(i))
<1>1. /\ p \in 0..Len(stack) /\ Len(stack) \in Nat /\ stack \in Seq(Value)
      /\ \A i \in Nat : i < p => i < Len(stack)
  BY Present DEF Inv, TypeOK
<1>2. AllApart(Drop(p))
  <2>1. Len(stack) - p \in 0..Len(stack) /\ AllApart(stack)
    BY <1>1 DEF Private
  <2> QED  BY <1>1, <2>1, BottomApart DEF Drop
<1>3. ASSUME NEW i \in Nat, i < p PROVE Apart(Peek(i))
  <2>1. Len(stack) - i \in 1..Len(stack)
    BY <1>1, <1>3
  <2> QED  BY <2>1 DEF Peek, Private, AllApart
<1> QED  BY <1>2, <1>3

-----------------------------------------------------------------------------
(* Scopes.                                                                  *)

(* getScopeValue finds what a scope binds, or NULL.                         *)
LEMMA LookupApart ==
  ASSUME Inv, Private, NEW s \in 1..Len(scopes), NEW n \in Names
  PROVE  Apart(getScopeValue(s, n))
<1> DEFINE chain == scopes[s].chain
           bound == {i \in DOMAIN chain : scopes[chain[i]].locals[n] # Null}
           nearest == CHOOSE i \in bound : \A j \in bound : i <= j
<1>1. \A t \in 1..Len(scopes) : scopes[t] \in ScopeType
  BY DEF Inv, TypeOK
<1>2. chain \in Seq(1..Len(scopes))
  BY <1>1, ScopeElim
<1>3. CASE bound = {}
  BY <1>3, NoFunction DEF getScopeValue
<1>4. CASE bound # {}
  <2>1. DOMAIN chain = 1..Len(chain) /\ Len(chain) \in Nat
    BY <1>2
  <2>2. bound \in SUBSET Nat
    BY <2>1
  <2>3. \E i \in bound : \A j \in bound : i <= j
    BY <1>4, <2>2, MinExists
  <2> HIDE DEF bound
  <2>4. nearest \in bound
    BY <2>3
  <2> HIDE DEF nearest
  <2>5. nearest \in 1..Len(chain)
    BY <2>1, <2>4 DEF bound
  <2> HIDE DEF chain
  <2>6. chain[nearest] \in 1..Len(scopes)
    BY <2>5, <1>2
  <2>7. getScopeValue(s, n) = scopes[chain[nearest]].locals[n]
    BY <1>4 DEF getScopeValue, nearest, chain, bound
  <2>8. Apart(scopes[chain[nearest]].locals[n])
    BY <2>6 DEF Private, BoundApart
  <2> QED  BY <2>7, <2>8
<1> QED  BY <1>3, <1>4

(* createFrameCall binds arguments, and nothing else.                       *)
LEMMA ArgumentsApart ==
  ASSUME NEW V, NEW args \in Seq(V), AllApart(args), NEW names \in Seq(Names),
         Len(args) = Len(names)
  PROVE  BoundApart(BindArguments(names, args))
<1> SUFFICES ASSUME NEW n \in Names PROVE Apart(BindArguments(names, args)[n])
  BY DEF BoundApart
<1> DEFINE at == {i \in DOMAIN names : names[i] = n}
           last == CHOOSE i \in at : \A j \in at : j <= i
<1>1. BindArguments(names, args)[n] = IF at = {} THEN Null ELSE args[last]
  BY DEF BindArguments
<1>2. CASE at = {}
  BY <1>1, <1>2, NoFunction
<1>3. CASE at # {}
  <2>1. Len(names) \in Nat /\ at \in SUBSET (1..Len(names))
    OBVIOUS
  <2>2. \E i \in at : \A j \in at : j <= i
    BY <1>3, <2>1, MaxExists
  <2>3. last \in at
    BY <2>2
  <2>4. last \in 1..Len(args)
    BY <2>1, <2>3
  <2> HIDE DEF last, at
  <2> QED  BY <1>1, <1>3, <2>4 DEF AllApart
<1> QED  BY <1>2, <1>3

(* createScope binds only what it is given.                                 *)
LEMMA CreatedApart ==
  ASSUME Inv, Private, NEW s, NEW l, BoundApart(l), scopes' = Append(scopes, createScope(s, l))
  PROVE  /\ Len(scopes) <= Len(scopes') /\ Len(scopes') = Len(scopes) + 1
         /\ \A t \in 1..Len(scopes) : scopes'[t] = scopes[t]
         /\ \A t \in 1..Len(scopes') : BoundApart(scopes'[t].locals)
<1> DEFINE c == createScope(s, l)
           S == ScopeType \cup {c}
<1>1. scopes \in Seq(S) /\ c \in S /\ Len(scopes) \in Nat
  BY SeqMono DEF Inv, TypeOK
<1>2. c.locals = l
  BY DEF createScope
<1>3. scopes' = Append(scopes, c)
  OBVIOUS
<1> HIDE DEF c, S
<1>4. /\ Len(scopes') = Len(scopes) + 1 /\ scopes'[Len(scopes) + 1] = c
      /\ \A t \in 1..Len(scopes) : scopes'[t] = scopes[t]
  BY <1>1, <1>3, AppendLemma
<1>5. \A t \in 1..Len(scopes') : t \in 1..Len(scopes) \/ t = Len(scopes) + 1
  BY <1>1, <1>4
<1>6. \A t \in 1..Len(scopes) : BoundApart(scopes[t].locals)
  BY DEF Private
<1>7. \A t \in 1..Len(scopes') : BoundApart(scopes'[t].locals)
  BY <1>2, <1>4, <1>5, <1>6
<1> QED  BY <1>1, <1>4, <1>7

(* OP_STORE binds its operand, in the scope of the frame.                   *)
LEMMA StoredApart ==
  ASSUME Inv, Private, NEW s \in 1..Len(scopes), NEW n \in Names, NEW v, Apart(v),
         scopes' = [scopes EXCEPT ![s].locals[n] = v]
  PROVE  /\ Len(scopes') = Len(scopes)
         /\ \A t \in 1..Len(scopes) : t # s => scopes'[t] = scopes[t]
         /\ \A t \in 1..Len(scopes') : BoundApart(scopes'[t].locals)
<1>1. \A t \in 1..Len(scopes) : scopes[t] \in ScopeType /\ BoundApart(scopes[t].locals)
  BY DEF Inv, TypeOK, Private
<1>2. scopes \in Seq(ScopeType)
  BY DEF Inv, TypeOK
<1> DEFINE c == [scopes[s] EXCEPT !.locals[n] = v]
<1>3. BoundApart(c.locals)
  <2>1. scopes[s].locals \in [Names -> Value \cup {Null}]
        /\ scopes[s] = [chain |-> scopes[s].chain, locals |-> scopes[s].locals]
    BY <1>1, ScopeElim
  <2>2. \A ch, lo : [[chain |-> ch, locals |-> lo] EXCEPT !.locals[n] = v].locals
                      = [lo EXCEPT ![n] = v]
    OBVIOUS
  <2>3. c.locals = [scopes[s].locals EXCEPT ![n] = v]
    BY <2>1, <2>2
  <2>4. \A m \in Names : c.locals[m] = IF m = n THEN v ELSE scopes[s].locals[m]
    BY <2>1, <2>3
  <2> QED  BY <1>1, <2>4 DEF BoundApart
<1>4. scopes' = [scopes EXCEPT ![s] = c]
  OBVIOUS
<1> DEFINE S == ScopeType \cup {c}
<1>5. scopes \in Seq(S) /\ c \in S
  BY <1>2, SeqMono
<1> HIDE DEF c, S
<1>6. /\ Len(scopes') = Len(scopes)
      /\ \A t \in 1..Len(scopes) : scopes'[t] = IF t = s THEN c ELSE scopes[t]
  BY <1>4, <1>5, ExceptLemma
<1> QED  BY <1>1, <1>3, <1>6

-----------------------------------------------------------------------------
(* Frames.                                                                  *)

(* What the scopes of frames are when frames are cut, moved on or pushed.   *)
LEMMA FramesCut ==
  ASSUME Inv, NEW m \in 0..Len(frames), frames' = Bottom(frames, m)
  PROVE  FrameScopes' \subseteq FrameScopes
<1>1. frames \in Seq(FrameType)
  BY DEF Inv, TypeOK
<1>2. Len(frames') = m /\ \A i \in 1..m : frames'[i] = frames[i]
  BY <1>1, BottomLemma
<1>3. \A i \in 1..m : i \in 1..Len(frames)
  BY <1>1
<1> QED  BY <1>2, <1>3 DEF FrameScopes

(* Moving the index of the top frame changes no frame's scope,             *)
LEMMA MovedOn ==
  ASSUME Inv, Frame.type = "DEF", Len(frames) > 0, NEW pc
  PROVE  /\ Len(SetIndex(pc)) = Len(frames) /\ \E S : SetIndex(pc) \in Seq(S)
         /\ \A i \in 1..Len(frames) : /\ SetIndex(pc)[i].type = frames[i].type
                                      /\ SetIndex(pc)[i].scope = frames[i].scope
<1> DEFINE g == [frames[Len(frames)] EXCEPT !.index = pc]
<1>1. frames \in Seq(FrameType) /\ Len(frames) \in 1..Len(frames)
  BY DEF Inv, TypeOK
<1>2. frames[Len(frames)] \in [type : {"DEF"}, index : DOMAIN Code, scope : 1..Len(scopes)]
  BY <1>1 DEF Frame, FrameType, NativeFrame
<1>3. g.type = frames[Len(frames)].type /\ g.scope = frames[Len(frames)].scope
  BY <1>2
<1>4. SetIndex(pc) = [frames EXCEPT ![Len(frames)] = g]
  BY DEF SetIndex
<1> DEFINE S == FrameType \cup {g}
<1>5. frames \in Seq(S) /\ g \in S
  BY <1>1, SeqMono
<1> HIDE DEF g, S
<1>6. /\ SetIndex(pc) \in Seq(S) /\ Len(SetIndex(pc)) = Len(frames)
      /\ \A j \in 1..Len(frames) : SetIndex(pc)[j] = IF j = Len(frames) THEN g ELSE frames[j]
  BY <1>1, <1>4, <1>5, ExceptLemma
<1> QED  BY <1>3, <1>6

(* so the scopes of frames are the same then,                              *)
LEMMA FramesMove ==
  ASSUME Inv, Frame.type = "DEF", Len(frames) > 0, NEW pc, frames' = SetIndex(pc)
  PROVE  FrameScopes' \subseteq FrameScopes
BY MovedOn DEF FrameScopes

(* and a call adds a new one at most.                                      *)
LEMMA FramesPush ==
  ASSUME NEW S, NEW q \in Seq(S), Len(q) = Len(frames),
         \A i \in 1..Len(frames) : q[i].type = frames[i].type /\ q[i].scope = frames[i].scope,
         NEW g, g.type = "DEF" => g.scope = NewScope, frames' = Append(q, g)
  PROVE  FrameScopes' \subseteq FrameScopes \cup {NewScope}
<1>1. q \in Seq(S \cup {g}) /\ g \in S \cup {g} /\ Len(frames) \in Nat
  BY SeqMono
<1>2. /\ Len(frames') = Len(frames) + 1 /\ frames'[Len(frames) + 1] = g
      /\ \A i \in 1..Len(frames) : frames'[i] = q[i]
  BY <1>1, AppendLemma
<1>3. \A i \in 1..Len(frames') : i \in 1..Len(frames) \/ i = Len(frames) + 1
  BY <1>1, <1>2
<1> QED  BY <1>2, <1>3 DEF FrameScopes

-----------------------------------------------------------------------------
(* Native functions that return at once.                                    *)

(* A result that holds only functions that were apart.                      *)
ResultApart(r) ==
  /\ Apart(r.ret.value)
  /\ \A t \in 1..Len(r.things) : AllApart(r.things[t])

(* A result with the things there were,                                     *)
LEMMA PlainResult ==
  ASSUME Private, NEW x, Apart(x.value), NEW r \in Result(x)
  PROVE  ResultApart(r)
BY DEF Result, ResultApart, Private

(* one with a new thing that holds others,                                  *)
LEMMA NewThingResult ==
  ASSUME Inv, Private, NEW t \in {"TUPLE", "LIST", "CELL", "VARARG"},
         NEW held \in Seq(Value), AllApart(held), NEW r \in NewThing(t, held)
  PROVE  ResultApart(r)
<1>1. r.ret.value = Ref(t, Len(things) + 1) /\ r.things = Append(things, held)
  BY DEF NewThing, Ok
<1>2. things \in Seq(Seq(Value)) /\ Len(things) \in Nat
  BY DEF Inv, TypeOK
<1>3. /\ Len(r.things) = Len(things) + 1 /\ r.things[Len(things) + 1] = held
      /\ \A i \in 1..Len(things) : r.things[i] = things[i]
  BY <1>1, <1>2, AppendLemma
<1>4. \A i \in 1..Len(r.things) : i \in 1..Len(things) \/ i = Len(things) + 1
  BY <1>2, <1>3
<1>5. \A i \in 1..Len(things) : AllApart(things[i])
  BY DEF Private
<1>6. \A i \in 1..Len(r.things) : AllApart(r.things[i])
  BY <1>3, <1>4, <1>5
<1>7. Apart(r.ret.value)
  BY <1>1, NoFunction
<1> QED  BY <1>6, <1>7 DEF ResultApart

(* and what a thing holds.                                                  *)
LEMMA HeldApart ==
  ASSUME Inv, Private, NEW v \in Value, v.type \in {"TUPLE", "LIST", "CELL", "VARARG"}
  PROVE  Held(v) \in Seq(Value) /\ AllApart(Held(v))
<1>1. v.id \in 1..Len(things) /\ Held(v) \in Seq(Value)
  BY RefElim, HeldTyped DEF Inv
<1> QED  BY <1>1 DEF Held, Private

(* The head of a list, a cell or a vararg is there, and what is left of it. *)
LEMMA HeadApart ==
  ASSUME Inv, Private, NEW v \in Value, v.type \in {"LIST", "CELL", "VARARG"}
  PROVE  /\ Apart(Held(v)[1]) /\ Held(v)[1] \in Value
         /\ Tail(Held(v)) \in Seq(Value) /\ AllApart(Tail(Held(v)))
<1>1. Held(v) \in Seq(Value) /\ AllApart(Held(v)) /\ Len(Held(v)) \in Nat \ {0}
      /\ Held(v)[1] \in Value /\ Tail(Held(v)) \in Seq(Value)
  BY HeldApart, HeldTyped DEF Inv
<1>2. PICK q : q = Held(v)
  OBVIOUS
<1>3. Apart(q[1]) /\ q # <<>>
  BY <1>1, <1>2 DEF AllApart
<1>4. AllApart(Tail(q))
  BY <1>1, <1>2, <1>3, TailApart
<1> QED  BY <1>1, <1>2, <1>3, <1>4

(* The tail of a list, and the pair unpack_cons makes with it.              *)
LEMMA RestResult ==
  ASSUME Inv, Private, NEW v \in Value, v.type = "LIST", NEW r \in Rest(v)
  PROVE  ResultApart(r)
<1>1. Tail(Held(v)) \in Seq(Value) /\ AllApart(Tail(Held(v)))
  BY HeadApart
<1>2. r \in Result(Ok(None)) \/ r \in NewThing("LIST", Tail(Held(v)))
  BY DEF Rest
<1>3. Apart(Ok(None).value)
  BY NoFunction DEF Ok
<1> QED  BY <1>1, <1>2, <1>3, PlainResult, NewThingResult

(* unpack_cons returns it in a pair, with the head.                         *)
LEMMA UnpackedResult ==
  ASSUME Inv, Private, NEW v \in Value, v.type = "LIST", NEW r \in Unpacked(v)
  PROVE  ResultApart(r)
<1>1. PICK x \in Rest(v) : /\ r.ret = Ok(Ref("TUPLE", Len(x.things) + 1))
                           /\ r.things = Append(x.things, <<Held(v)[1], x.ret.value>>)
  BY DEF Unpacked
<1>2. ResultApart(x) /\ Apart(Held(v)[1])
  BY RestResult, HeadApart
<1> DEFINE w == <<Held(v)[1], x.ret.value>>
<1>3. AllApart(w)
  <2>1. Len(w) = 2 /\ w[1] = Held(v)[1] /\ w[2] = x.ret.value
    OBVIOUS
  <2>2. \A i \in 1..2 : i = 1 \/ i = 2
    OBVIOUS
  <2> HIDE DEF w
  <2> QED  BY <1>2, <2>1, <2>2 DEF AllApart, ResultApart
<1>4. \E S : x.things \in Seq(S)
  <2>1. things \in Seq(Seq(Value)) /\ Tail(Held(v)) \in Seq(Value)
    BY HeadApart DEF Inv, TypeOK
  <2>2. x.things = things \/ x.things = Append(things, Tail(Held(v)))
    BY DEF Rest, Result, NewThing
  <2>3. Append(things, Tail(Held(v))) \in Seq(Seq(Value))
    BY <2>1, AppendLemma
  <2> QED  BY <2>1, <2>2, <2>3
<1>5. r.things = Append(x.things, w) /\ r.ret.value = Ref("TUPLE", Len(x.things) + 1)
  BY <1>1 DEF Ok
<1> HIDE DEF w
<1>6. PICK S : x.things \in Seq(S)
  BY <1>4
<1>7. x.things \in Seq(S \cup {w}) /\ w \in S \cup {w} /\ Len(x.things) \in Nat
  BY <1>6, SeqMono
<1>8. /\ Len(r.things) = Len(x.things) + 1 /\ r.things[Len(x.things) + 1] = w
      /\ \A i \in 1..Len(x.things) : r.things[i] = x.things[i]
  BY <1>5, <1>7, AppendLemma
<1>9. \A i \in 1..Len(r.things) : i \in 1..Len(x.things) \/ i = Len(x.things) + 1
  BY <1>7, <1>8
<1>10. \A i \in 1..Len(x.things) : AllApart(x.things[i])
  BY <1>2 DEF ResultApart
<1>11. \A i \in 1..Len(r.things) : AllApart(r.things[i])
  BY <1>3, <1>8, <1>9, <1>10
<1>12. Apart(r.ret.value)
  BY <1>5, NoFunction
<1> QED  BY <1>11, <1>12 DEF ResultApart

(* No native function on scalars returns a function,                        *)
LEMMA BasicApart ==
  ASSUME Inv, Private, NEW n, NEW args, NEW r \in BasicResults(n, args)
  PROVE  ResultApart(r)
<1> DEFINE X == {Ok(None), Ok(Functools), Throw("bad args"), Throw("assertion")}
                \cup {Ok(l) : l \in Literals} \cup {Ok(Bool(b)) : b \in BOOLEAN}
                \cup {Ok(Native(m)) : m \in {"call", "varargs"}}
<1>1. \A x \in X : Apart(x.value)
  <2>1. \A v : Ok(v).value = v
    BY DEF Ok
  <2>2. \A m : Throw(m).value = ErrorThing(m)
    BY DEF Throw
  <2>3. \A x \in X : \/ x.value \in {None, Functools} \cup Literals
                     \/ \E b \in BOOLEAN : x.value = Bool(b)
                     \/ \E m : x.value = Native(m) \/ x.value = ErrorThing(m)
    BY <2>1, <2>2
  <2> QED  BY <2>3, NoFunction
<1>2. \A x \in Equal(args) : x \in X
  <2>1. (args[1] = args[2]) \in BOOLEAN
    OBVIOUS
  <2> QED  BY <2>1 DEF Equal
<1>3. \A x \in AssertEqual(args) : x \in X
  BY <1>2 DEF AssertEqual
<1>4. \E x \in X : r \in Result(x)
  <2> USE DEF BadArgs
  <2>1. Throw("bad args") \in X
    OBVIOUS
  <2>2. CASE n \in {"print", "import", "."}
    <3>1. \/ r \in Result(Ok(None)) \/ r \in Result(Ok(Functools)) \/ r \in Result(Throw("bad args"))
          \/ r \in Result(Ok(Native("call"))) \/ r \in Result(Ok(Native("varargs")))
      BY <2>2 DEF BasicResults
    <3> QED  BY <3>1
  <2>3. CASE n = "input"
    <3>1. \E l \in Inputs : r \in Result(Ok(l))
      BY <2>3 DEF BasicResults
    <3> QED  BY <3>1, LiteralsAssumption
  <2>4. CASE n = "assert"
    <3>1. \/ r \in Result(Ok(None)) \/ r \in Result(Throw("assertion"))
          \/ r \in Result(Throw("bad args"))
      BY <2>4 DEF BasicResults
    <3> QED  BY <3>1
  <2>5. CASE n \in {"is_none", "not"}
    <3>1. (\E b \in BOOLEAN : r \in Result(Ok(Bool(b)))) \/ r \in Result(Throw("bad args"))
      BY <2>5 DEF BasicResults
    <3> QED  BY <3>1
  <2>6. CASE n = "=="
    <3>1. \E x \in Equal(args) : r \in Result(x)
      BY <2>6 DEF BasicResults
    <3> QED  BY <3>1, <1>2
  <2>7. CASE n = "assert_equal"
    <3>1. \E x \in AssertEqual(args) : r \in Result(x)
      BY <2>7 DEF BasicResults
    <3> QED  BY <3>1, <1>3
  <2>8. CASE n \notin {"print", "input", "assert", "assert_equal", "is_none", "not", "==",
                      "import", "."}
    <3>1. r \in Result(Throw("bad args"))
      BY <2>8 DEF BasicResults
    <3> QED  BY <3>1
  <2> QED  BY <2>2, <2>3, <2>4, <2>5, <2>6, <2>7, <2>8
<1> HIDE DEF X
<1> QED  BY <1>1, <1>4, PlainResult

(* and those on tuples, lists, cells and varargs only what they are given,  *)
(* or what was kept.                                                        *)
LEMMA DataApart ==
  ASSUME Inv, Private, NEW n, NEW args \in Seq(Value), AllApart(args),
         NEW r \in DataResults(n, args)
  PROVE  ResultApart(r)
<1>1. /\ \A i \in 1..Len(args) : args[i] \in Value /\ Apart(args[i])
      /\ Len(args) \in Nat /\ \A i \in 1..Len(args) : i \in DOMAIN args
  BY DEF AllApart
<1>2. \A t1 : TypesAre(args, <<t1>>) => Len(args) = 1 /\ args[1].type = t1
  BY <1>1 DEF TypesAre
<1>3. \A t1, t2 : TypesAre(args, <<t1, t2>>) =>
         Len(args) = 2 /\ args[1].type = t1 /\ args[2].type = t2
  BY <1>1 DEF TypesAre
<1>4. r \in BadArgs => ResultApart(r)
  <2>1. Apart(Throw("bad args").value)
    BY NoFunction DEF Throw
  <2> QED  BY <2>1, PlainResult DEF BadArgs
<1>5. ASSUME NEW v, Apart(v), r \in Result(Ok(v)) PROVE ResultApart(r)
  <2>1. Apart(Ok(v).value)
    BY <1>5 DEF Ok
  <2> QED  BY <1>5, <2>1, PlainResult
<1>6. Len(args) >= 1 => <<args[1]>> \in Seq(Value) /\ AllApart(<<args[1]>>)
  <2> SUFFICES ASSUME Len(args) >= 1
               PROVE  <<args[1]>> \in Seq(Value) /\ AllApart(<<args[1]>>)
    OBVIOUS
  <2>1. args[1] \in Value /\ Apart(args[1])
    BY <1>1
  <2>2. Len(<<args[1]>>) = 1 /\ <<args[1]>>[1] = args[1] /\ \A i \in 1..1 : i = 1
    OBVIOUS
  <2> QED  BY <2>1, <2>2 DEF AllApart
<1>7. CASE n \in {"tuple", "createCell"}
  <2>1. r \in NewThing("TUPLE", args) \/ r \in BadArgs \/ r \in NewThing("CELL", args)
    BY <1>7 DEF DataResults
  <2> QED  BY <2>1, <1>4, NewThingResult
<1>8. CASE n = "get"
  <2>1. \/ r \in BadArgs
        \/ InBounds(args) /\ r \in Result(Ok(Held(args[1])[args[2].int + 1]))
    BY <1>8 DEF DataResults
  <2>2. ASSUME InBounds(args) PROVE Apart(Held(args[1])[args[2].int + 1])
    <3>1. /\ args[1] \in Value /\ args[1].type = "TUPLE"
          /\ args[2].int + 1 \in DOMAIN Held(args[1])
      BY <2>2, <1>1, <1>3 DEF InBounds
    <3>2. Held(args[1]) \in Seq(Value) /\ AllApart(Held(args[1]))
      BY <3>1, HeldApart
    <3> QED  BY <3>1, <3>2 DEF AllApart
  <2> QED  BY <2>1, <2>2, <1>4, <1>5
<1>9. CASE n = "::"
  <2>1. \/ r \in BadArgs
        \/ Len(args) = 2 /\ r \in NewThing("LIST", <<args[1]>>)
        \/ Len(args) = 2 /\ args[2].type = "LIST"
             /\ r \in NewThing("LIST", <<args[1]>> \o Held(args[2]))
    BY <1>9 DEF DataResults
  <2>2. ASSUME Len(args) = 2, args[2].type = "LIST"
        PROVE  <<args[1]>> \o Held(args[2]) \in Seq(Value)
               /\ AllApart(<<args[1]>> \o Held(args[2]))
    <3>1. args[2] \in Value
      BY <2>2, <1>1
    <3>2. Held(args[2]) \in Seq(Value) /\ AllApart(Held(args[2]))
      BY <2>2, <3>1, HeldApart
    <3>3. PICK q, h : q = <<args[1]>> /\ h = Held(args[2])
      OBVIOUS
    <3>4. q \in Seq(Value) /\ AllApart(q) /\ h \in Seq(Value) /\ AllApart(h)
      BY <2>2, <1>6, <3>2, <3>3
    <3>5. q \o h \in Seq(Value) /\ AllApart(q \o h)
      BY <3>4, ConcatApart
    <3> QED  BY <3>3, <3>5
  <2>3. ASSUME Len(args) = 2, r \in NewThing("LIST", <<args[1]>>) PROVE ResultApart(r)
    <3>1. PICK q : q = <<args[1]>>
      OBVIOUS
    <3>2. q \in Seq(Value) /\ AllApart(q) /\ r \in NewThing("LIST", q)
      BY <1>6, <2>3, <3>1
    <3> QED  BY <3>2, NewThingResult
  <2>4. ASSUME Len(args) = 2, args[2].type = "LIST",
               r \in NewThing("LIST", <<args[1]>> \o Held(args[2]))
        PROVE  ResultApart(r)
    <3>1. PICK q : q = <<args[1]>> \o Held(args[2])
      OBVIOUS
    <3>2. q \in Seq(Value) /\ AllApart(q) /\ r \in NewThing("LIST", q)
      BY <2>2, <2>4, <3>1
    <3> QED  BY <3>2, NewThingResult
  <2> QED  BY <2>1, <2>3, <2>4, <1>4
<1>10. CASE n \in {"head", "getCell"}
  <2>1. \/ r \in BadArgs
        \/ /\ TypesAre(args, <<"LIST">>) \/ TypesAre(args, <<"CELL">>)
           /\ r \in Result(Ok(Held(args[1])[1]))
    BY <1>10 DEF DataResults
  <2>2. ASSUME TypesAre(args, <<"LIST">>) \/ TypesAre(args, <<"CELL">>)
        PROVE  Apart(Held(args[1])[1])
    <3>1. args[1] \in Value /\ args[1].type \in {"LIST", "CELL"}
      BY <2>2, <1>1, <1>2
    <3> QED  BY <3>1, HeadApart
  <2> QED  BY <2>1, <2>2, <1>4, <1>5
<1>11. CASE n \in {"tail", "unpack_cons"}
  <2>1. \/ r \in BadArgs
        \/ TypesAre(args, <<"LIST">>) /\ (r \in Rest(args[1]) \/ r \in Unpacked(args[1]))
    BY <1>11 DEF DataResults
  <2>2. TypesAre(args, <<"LIST">>) => args[1] \in Value /\ args[1].type = "LIST"
    BY <1>1, <1>2
  <2> QED  BY <2>1, <2>2, <1>4, RestResult, UnpackedResult
<1>12. CASE n = "setCell"
  <2>1. \/ r \in BadArgs
        \/ /\ Len(args) = 2 /\ args[1].type = "CELL"
           /\ r.ret = Ok(None) /\ r.things = [things EXCEPT ![args[1].id] = <<args[2]>>]
    BY <1>12 DEF DataResults
  <2>2. ASSUME Len(args) = 2, args[1].type = "CELL",
               r.ret = Ok(None), r.things = [things EXCEPT ![args[1].id] = <<args[2]>>]
        PROVE  ResultApart(r)
    <3>1. args[1] \in Value /\ args[2] \in Value /\ Apart(args[2])
      BY <2>2, <1>1
    <3>2. PICK i \in 1..Len(things), w \in Seq(Value) : i = args[1].id /\ w = <<args[2]>>
      <4>1. args[1].id \in 1..Len(things)
        BY <2>2, <3>1, RefElim
      <4>2. <<args[2]>> \in Seq(Value)
        BY <3>1
      <4> QED  BY <4>1, <4>2
    <3>3. AllApart(w)
      <4>1. Len(w) = 1 /\ w[1] = args[2] /\ \A j \in 1..1 : j = 1
        BY <3>2
      <4> QED  BY <3>1, <4>1 DEF AllApart
    <3>4. things \in Seq(Seq(Value)) /\ \A t \in 1..Len(things) : AllApart(things[t])
      BY DEF Inv, TypeOK, Private
    <3>5. r.things = [things EXCEPT ![i] = w]
      BY <2>2, <3>2
    <3>6. /\ Len(r.things) = Len(things)
          /\ \A t \in 1..Len(things) : r.things[t] = IF t = i THEN w ELSE things[t]
      BY <3>4, <3>5, ExceptLemma
    <3>7. \A t \in 1..Len(r.things) : AllApart(r.things[t])
      BY <3>3, <3>4, <3>6
    <3>8. Apart(r.ret.value)
      BY <2>2, NoFunction DEF Ok
    <3> QED  BY <3>7, <3>8 DEF ResultApart
  <2> QED  BY <2>1, <2>2, <1>4
<1>13. CASE n = "varargs"
  <2>1. \/ r \in BadArgs
        \/ Len(args) >= 1 /\ r \in NewThing("VARARG", <<args[1]>>)
    BY <1>13 DEF DataResults
  <2> QED  BY <2>1, <1>4, <1>6, NewThingResult
<1>14. CASE n \notin {"tuple", "get", "::", "head", "tail", "unpack_cons", "createCell", "getCell",
                     "setCell", "varargs"}
  BY <1>4, <1>14 DEF DataResults
<1> QED  BY <1>7, <1>8, <1>9, <1>10, <1>11, <1>12, <1>13, <1>14

(* So no native function that returns at once hands on anything else.       *)
LEMMA NativeApart ==
  ASSUME Inv, Private, NEW f, NEW args \in Seq(Value), AllApart(args),
         NEW r \in NativeResults(f, args)
  PROVE  ResultApart(r)
<1>1. \/ r \in Result(Throw("not callable"))
      \/ r \in DataResults(f.name, args)
      \/ r \in BasicResults(f.name, args)
  BY DEF NativeResults
<1>2. Apart(Throw("not callable").value)
  BY NoFunction DEF Throw
<1> QED  BY <1>1, <1>2, PlainResult, DataApart, BasicApart

-----------------------------------------------------------------------------
(* The steps.                                                               *)

(* A scope into which no frame stores does not change.                      *)
Frozen == \A s \in FreeScopes : scopes'[s] = scopes[s]

(* A step that makes no scope.                                              *)
LEMMA SameScopes ==
  ASSUME Inv, Inv', Private, scopes' = scopes, FrameScopes' \subseteq FrameScopes,
         AllApart(stack'), \A t \in 1..Len(things') : AllApart(things'[t]),
         \A k \in 1..Len(host') : AllApart(host'[k].args), Apart(ret'.value)
  PROVE  Private' /\ Frozen
<1>1. Len(scopes) <= Len(scopes') /\ \A t \in 1..Len(scopes') : BoundApart(scopes'[t].locals)
  BY DEF Inv, TypeOK, Private
<1>2. FreeScopes \subseteq FreeScopes'
  BY <1>1, FreeKept
<1>3. Private'
  BY <1>1, <1>2, Carry
<1> QED  BY <1>3 DEF Frozen

(* An instruction that goes on, having moved operands about.                *)
LEMMA ContinueApart ==
  ASSUME Inv, Inv', Private, InLoop, UNCHANGED scopes, NEW st, Continue(st), AllApart(st),
         \A t \in 1..Len(things') : AllApart(things'[t])
  PROVE  Private' /\ Frozen
<1>1. /\ Frame.type = "DEF" /\ Len(frames) > 0 /\ frames' = SetIndex(Frame.index + 1)
      /\ stack' = st /\ host' = host /\ ret' = ret
  BY InCode DEF InLoop, Continue
<1>2. FrameScopes' \subseteq FrameScopes
  BY <1>1, FramesMove
<1>3. /\ \A k \in 1..Len(host') : AllApart(host'[k].args)
      /\ Apart(ret'.value) /\ AllApart(stack')
  BY <1>1 DEF Private
<1> QED  BY <1>2, <1>3, SameScopes

(* The instructions that make and bind nothing.                             *)
LEMMA MovingApart ==
  ASSUME Inv, Inv', Private,
         \/ PushConstant \/ PushNone \/ PushBuiltin \/ Load
         \/ Dup \/ Rot3 \/ Swap \/ Pop \/ CheckNone
  PROVE  Private' /\ Frozen
<1>1. /\ AllApart(stack) /\ stack \in Seq(Value)
      /\ \A t \in 1..Len(things) : AllApart(things[t])
  BY DEF Private, Inv, TypeOK
<1>2. ASSUME InLoop, UNCHANGED <<scopes, things>>, NEW st, Continue(st), AllApart(st)
      PROVE  Private' /\ Frozen
  <2>1. scopes' = scopes /\ \A t \in 1..Len(things') : AllApart(things'[t])
    BY <1>1, <1>2
  <2> QED  BY <1>2, <2>1, ContinueApart
<1>3. ASSUME InLoop, UNCHANGED <<scopes, things>>, NEW v, Apart(v), Continue(Append(stack, v))
      PROVE  Private' /\ Frozen
  <2>1. PICK st : st = Append(stack, v)
    OBVIOUS
  <2>2. AllApart(st)
    BY <1>1, <1>3, <2>1, AppendApart
  <2> QED  BY <1>2, <1>3, <2>1, <2>2
<1>4. CASE PushConstant
  <2>1. InLoop /\ Ins.op \in {"PUSH_INT", "PUSH_FLOAT", "PUSH_LITERAL"}
    BY <1>4 DEF PushConstant, Executing
  <2>2. Ins.arg \in Literals
    BY <2>1, Fetch DEF ArgumentOk
  <2> QED  BY <1>3, <1>4, <2>1, <2>2, NoFunction DEF PushConstant
<1>5. CASE PushNone
  BY <1>3, <1>5, NoFunction DEF PushNone, Executing
<1>6. CASE PushBuiltin
  <2>1. Apart(Operator(Ins.arg))
    BY NoFunction DEF Operator
  <2> QED  BY <1>3, <1>6, <2>1 DEF PushBuiltin, Executing
<1>7. CASE Load
  <2>1. InLoop /\ Ins.op = "LOAD"
    BY <1>7 DEF Load, Executing
  <2>2. Frame.scope \in 1..Len(scopes) /\ Ins.arg \in Names
    BY <2>1, Fetch DEF ArgumentOk
  <2>3. Apart(getScopeValue(Frame.scope, Ins.arg))
    BY <2>2, LookupApart
  <2> QED  BY <1>3, <1>7, <2>1, <2>3 DEF Load
<1>8. CASE Dup
  <2>1. InLoop /\ Ins.op = "DUP"
    BY <1>8 DEF Dup, Executing
  <2>2. Pops(Ins) = 1
    BY <2>1 DEF Pops
  <2>3. Apart(Peek(0))
    BY <2>1, <2>2, PeekApart
  <2> QED  BY <1>3, <1>8, <2>1, <2>3 DEF Dup
<1>9. CASE Pop \/ CheckNone
  <2>1. /\ InLoop /\ Ins.op \in {"POP", "CHECK_NONE"}
        /\ Continue(Drop(1)) /\ UNCHANGED <<scopes, things>>
    BY <1>9 DEF Pop, CheckNone, Executing
  <2>2. Pops(Ins) = 1
    BY <2>1 DEF Pops
  <2>3. PICK st : st = Drop(1)
    OBVIOUS
  <2>4. AllApart(st)
    BY <2>1, <2>2, <2>3, PeekApart
  <2> QED  BY <1>2, <2>1, <2>3, <2>4
<1>10. ASSUME InLoop, UNCHANGED <<scopes, things>>, NEW p \in Nat, Pops(Ins) = p,
             NEW S, NEW pushed \in Seq(S), AllApart(pushed), Continue(Drop(p) \o pushed)
      PROVE  Private' /\ Frozen
  <2>1. PICK d : d = Drop(p)
    OBVIOUS
  <2>2. d \in Seq(Value \cup S) /\ pushed \in Seq(Value \cup S) /\ AllApart(d)
    <3>1. d \in Seq(Value) /\ AllApart(d)
      BY <1>10, <2>1, Dropped, PeekApart
    <3> QED  BY <1>10, <3>1, SeqMono
  <2>3. AllApart(d \o pushed)
    BY <1>10, <2>2, ConcatApart
  <2>4. PICK st : st = d \o pushed
    OBVIOUS
  <2>5. AllApart(st) /\ Continue(st)
    BY <1>10, <2>1, <2>3, <2>4
  <2> QED  BY <1>2, <1>10, <2>5
<1>11. CASE Rot3
  <2>1. /\ InLoop /\ Ins.op = "ROT3" /\ UNCHANGED <<scopes, things>>
        /\ Continue(Drop(3) \o <<Peek(1), Peek(2), Peek(0)>>)
    BY <1>11 DEF Rot3, Executing
  <2>2. Pops(Ins) = 3
    BY <2>1 DEF Pops
  <2>3. Apart(Peek(0)) /\ Apart(Peek(1)) /\ Apart(Peek(2))
    BY <2>1, <2>2, PeekApart
  <2>4. PICK w : w = <<Peek(1), Peek(2), Peek(0)>>
    OBVIOUS
  <2>5. w \in Seq({Peek(0), Peek(1), Peek(2)}) /\ Len(w) = 3
        /\ w[1] = Peek(1) /\ w[2] = Peek(2) /\ w[3] = Peek(0)
    BY <2>4
  <2>6. \A i \in 1..3 : i = 1 \/ i = 2 \/ i = 3
    OBVIOUS
  <2>7. AllApart(w)
    BY <2>3, <2>5, <2>6 DEF AllApart
  <2>8. Continue(Drop(3) \o w)
    BY <2>1, <2>4
  <2> QED  BY <1>10, <2>1, <2>2, <2>5, <2>7, <2>8
<1>12. CASE Swap
  <2>1. /\ InLoop /\ Ins.op = "SWAP" /\ UNCHANGED <<scopes, things>>
        /\ Continue(Drop(2) \o <<Peek(0), Peek(1)>>)
    BY <1>12 DEF Swap, Executing
  <2>2. Pops(Ins) = 2
    BY <2>1 DEF Pops
  <2>3. Apart(Peek(0)) /\ Apart(Peek(1))
    BY <2>1, <2>2, PeekApart
  <2>4. PICK w : w = <<Peek(0), Peek(1)>>
    OBVIOUS
  <2>5. w \in Seq({Peek(0), Peek(1)}) /\ Len(w) = 2 /\ w[1] = Peek(0) /\ w[2] = Peek(1)
    BY <2>4
  <2>6. \A i \in 1..2 : i = 1 \/ i = 2
    OBVIOUS
  <2>7. AllApart(w)
    BY <2>3, <2>5, <2>6 DEF AllApart
  <2>8. Continue(Drop(2) \o w)
    BY <2>1, <2>4
  <2> QED  BY <1>10, <2>1, <2>2, <2>5, <2>7, <2>8
<1> QED  BY <1>4, <1>5, <1>6, <1>7, <1>8, <1>9, <1>11, <1>12

(* OP_CREATE_FUNC makes a scope of its own for the function: no frame       *)
(* stores into the copy.                                                    *)
LEMMA CreateFuncApart ==
  ASSUME Inv, Inv', Private, CreateFunc
  PROVE  Private' /\ Frozen
<1>1. InLoop /\ Ins.op = "CREATE_FUNC"
  BY DEF CreateFunc, Executing
<1>2. PICK v : v = Func(Ins.arg, NewScope)
  OBVIOUS
<1>3. PICK l : l = [n \in Names |-> getScopeValue(Frame.scope, n)]
  OBVIOUS
<1>4. /\ scopes' = Append(scopes, createScope(Frame.scope, l))
      /\ stack' = Append(stack, v) /\ frames' = SetIndex(Frame.index + 1)
      /\ UNCHANGED <<host, ret, things>>
  BY <1>2, <1>3 DEF CreateFunc, Continue, copyScope
<1>5. Frame.scope \in 1..Len(scopes) /\ Frame.type = "DEF" /\ Len(frames) > 0
  BY <1>1, InCode DEF InLoop
<1>6. BoundApart(l)
  BY <1>3, <1>5, LookupApart DEF BoundApart
<1>7. /\ Len(scopes) <= Len(scopes') /\ Len(scopes') = Len(scopes) + 1
      /\ \A t \in 1..Len(scopes) : scopes'[t] = scopes[t]
      /\ \A t \in 1..Len(scopes') : BoundApart(scopes'[t].locals)
  BY <1>4, <1>6, CreatedApart
<1>8. FrameScopes' \subseteq FrameScopes
  BY <1>4, <1>5, FramesMove
<1>9. FreeScopes \subseteq FreeScopes'
  BY <1>7, <1>8, FreeKept
<1>10. NewScope \in FreeScopes'
  <2>1. Len(scopes) \in Nat
    BY DEF Inv, TypeOK
  <2>2. FrameScopes \subseteq 1..Len(scopes)
    BY InvTypes, FrameElim DEF Inv, FrameScopes
  <2> QED  BY <2>1, <2>2, <1>7, <1>8 DEF FreeScopes, NewScope
<1>11. AllApart(stack)' /\ (\A t \in 1..Len(things) : AllApart(things[t]))'
       /\ (\A k \in 1..Len(host) : AllApart(host[k].args))' /\ Apart(ret.value)'
       /\ (\A t \in 1..Len(scopes) : BoundApart(scopes[t].locals))'
  <2>1. \A w : Apart(w) => (w.type = "FUNC" => w.scope \in FreeScopes')
    BY <1>9 DEF Apart
  <2>2. stack \in Seq(Value) /\ AllApart(stack)
    BY DEF Inv, TypeOK, Private
  <2>3. /\ Len(stack') = Len(stack) + 1 /\ Len(stack) \in Nat /\ stack'[Len(stack) + 1] = v
        /\ \A i \in 1..Len(stack) : stack'[i] = stack[i]
    <3>1. stack \in Seq(Value \cup {v}) /\ v \in Value \cup {v}
      BY <2>2, SeqMono
    <3> QED  BY <1>4, <3>1, AppendLemma
  <2>4. \A i \in 1..Len(stack') : i \in 1..Len(stack) \/ i = Len(stack) + 1
    BY <2>3
  <2>5. v.scope = NewScope
    BY <1>2 DEF Func
  <2>6. AllApart(stack)'
    BY <2>1, <2>2, <2>3, <2>4, <2>5, <1>10 DEF AllApart, Apart
  <2>7. (\A t \in 1..Len(things) : AllApart(things[t]))'
    BY <1>4, <2>1 DEF Private, AllApart, Apart
  <2>8. (\A k \in 1..Len(host) : AllApart(host[k].args))' /\ Apart(ret.value)'
    BY <1>4, <2>1 DEF Private, AllApart, Apart
  <2>9. (\A t \in 1..Len(scopes) : BoundApart(scopes[t].locals))'
    BY <1>7, <2>1 DEF BoundApart, Apart
  <2> QED  BY <2>6, <2>7, <2>8, <2>9
<1>12. Private'
  BY <1>11 DEF Private
<1>13. Frozen
  BY <1>7 DEF Frozen, FreeScopes
<1> QED  BY <1>12, <1>13

(* OP_STORE binds in the frame's own scope.                                 *)
LEMMA StoreApart ==
  ASSUME Inv, Inv', Private, Store
  PROVE  Private' /\ Frozen
<1>1. InLoop /\ Ins.op = "STORE"
  BY DEF Store, Executing
<1>2. /\ Frame.scope \in 1..Len(scopes) /\ Ins.arg \in Names /\ Pops(Ins) = 1
      /\ Frame.type = "DEF" /\ Len(frames) \in 1..Len(frames) /\ Frame = frames[Len(frames)]
  <2>1. Ins.arg \in Names
    BY <1>1, Fetch DEF ArgumentOk
  <2>2. Pops(Ins) = 1
    BY <1>1 DEF Pops
  <2> QED  BY <1>1, <2>1, <2>2, InCode DEF InLoop
<1>3. Apart(Peek(0)) /\ AllApart(Drop(1))
  BY <1>1, <1>2, PeekApart
<1>4. PICK v : v = Peek(0)
  OBVIOUS
<1>5. /\ scopes' = [scopes EXCEPT ![Frame.scope].locals[Ins.arg] = v]
      /\ stack' = Drop(1) /\ frames' = SetIndex(Frame.index + 1)
      /\ UNCHANGED <<host, ret, things>>
  BY <1>4 DEF Store, Continue
<1>6. /\ Len(scopes') = Len(scopes)
      /\ \A t \in 1..Len(scopes) : t # Frame.scope => scopes'[t] = scopes[t]
      /\ \A t \in 1..Len(scopes') : BoundApart(scopes'[t].locals)
  BY <1>2, <1>3, <1>4, <1>5, StoredApart
<1>7. FrameScopes' \subseteq FrameScopes
  BY <1>2, <1>5, FramesMove
<1>8. FreeScopes \subseteq FreeScopes'
  <2>1. Len(scopes) <= Len(scopes')
    BY <1>6 DEF Inv, TypeOK
  <2> QED  BY <2>1, <1>7, FreeKept
<1>9. /\ AllApart(stack') /\ \A t \in 1..Len(things') : AllApart(things'[t])
      /\ \A k \in 1..Len(host') : AllApart(host'[k].args)
      /\ Apart(ret'.value)
  BY <1>3, <1>5 DEF Private
<1>10. Private'
  BY <1>6, <1>8, <1>9, Carry
<1>11. Frame.scope \in FrameScopes
  BY <1>2 DEF FrameScopes
<1>12. Frozen
  BY <1>6, <1>11 DEF Frozen, FreeScopes
<1> QED  BY <1>10, <1>12

(* A step that only cuts or moves the frames, and hands a result on.        *)
LEMMA CuttingApart ==
  ASSUME Inv, Inv', Private, scopes' = scopes, FrameScopes' \subseteq FrameScopes,
         AllApart(stack'), \A t \in 1..Len(things') : AllApart(things'[t]),
         host' = host \/ host' = Bottom(host, Len(host) - 1), Apart(ret'.value)
  PROVE  Private' /\ Frozen
<1>1. \A k \in 1..Len(host') : AllApart(host'[k].args)
  <2>1. host \in Seq(ActivationType) /\ Len(host) - 1 \in 0..Len(host)
    BY HostFacts DEF Inv, TypeOK
  <2>2. \A k \in 1..Len(host') : k \in 1..Len(host) /\ host'[k] = host[k]
    <3>1. CASE host' = host
      BY <3>1
    <3>2. CASE host' = Bottom(host, Len(host) - 1)
      <4>1. Len(host') = Len(host) - 1 /\ \A k \in 1..(Len(host) - 1) : host'[k] = host[k]
        BY <2>1, <3>2, BottomLemma
      <4>2. \A k \in 1..(Len(host) - 1) : k \in 1..Len(host)
        BY <2>1
      <4> QED  BY <4>1, <4>2
    <3> QED  BY <3>1, <3>2
  <2> QED  BY <2>2 DEF Private
<1> QED  BY <1>1, SameScopes

(* The jumps.                                                               *)
LEMMA JumpsApart ==
  ASSUME Inv, Inv', Private, CondJumpFalse \/ AbsJump
  PROVE  Private' /\ Frozen
<1>1. /\ InLoop /\ UNCHANGED <<scopes, things, host, ret>> /\ \E pc : frames' = SetIndex(pc)
      /\ \/ Ins.op = "COND_JUMP_FALSE" /\ stack' = Drop(1)
         \/ Ins.op = "ABS_JUMP" /\ stack' = stack
  BY DEF CondJumpFalse, AbsJump, Executing
<1>2. FrameScopes' \subseteq FrameScopes
  BY <1>1, InCode, FramesMove DEF InLoop
<1>3. AllApart(stack')
  <2>1. CASE Ins.op = "COND_JUMP_FALSE"
    <3>1. Pops(Ins) = 1
      BY <2>1 DEF Pops
    <3> QED  BY <1>1, <2>1, <3>1, PeekApart
  <2>2. CASE Ins.op = "ABS_JUMP"
    BY <1>1, <2>2 DEF Private
  <2> QED  BY <1>1, <2>1, <2>2
<1>4. /\ \A t \in 1..Len(things') : AllApart(things'[t])
      /\ Apart(ret'.value)
  BY <1>1 DEF Private
<1> QED  BY <1>1, <1>2, <1>3, <1>4, CuttingApart

(* Unwinding takes things away.                                             *)
LEMMA FailApart ==
  ASSUME Inv, Inv', Private, Top.fn = "executeCode", Len(frames) > Top.frames,
         NEW r, Apart(r.value), Fail(r), \A t \in 1..Len(things') : AllApart(things'[t])
  PROVE  Private' /\ Frozen
<1>1. /\ frames' = Bottom(frames, Top.frames)
      /\ stack' = Bottom(stack, LeastOf(Len(stack), Top.height))
      /\ host' = Bottom(host, Len(host) - 1) /\ ret' = r /\ scopes' = scopes
  BY DEF Fail, Unwind
<1>2. /\ Len(frames) \in Nat /\ Len(stack) \in Nat /\ stack \in Seq(Value)
      /\ Top.frames \in Nat /\ Top.height \in Nat /\ AllApart(stack)
  BY InvTypes, HostFacts DEF Inv, TypeOK, Private
<1>3. FrameScopes' \subseteq FrameScopes
  <2>1. Top.frames \in 0..Len(frames)
    BY <1>2
  <2> QED  BY <1>1, <2>1, FramesCut
<1>4. AllApart(stack')
  <2>1. LeastOf(Len(stack), Top.height) \in 0..Len(stack)
    BY <1>2 DEF LeastOf
  <2> QED  BY <1>1, <1>2, <2>1, BottomApart
<1>5. Apart(ret'.value)
  BY <1>1
<1> QED  BY <1>1, <1>3, <1>4, <1>5, CuttingApart

(* The errors of executeCode.                                               *)
LEMMA ErrorsApart ==
  ASSUME Inv, Inv', Private, ExecuteError
  PROVE  Private' /\ Frozen
<1>1. Frame.type = "DEF" /\ Len(frames) > Top.frames /\ Top.fn = "executeCode"
  BY Fetch DEF ExecuteError
<1>2. PICK m : Fail(Throw(m)) /\ things' = things
  <2>1. PICK m \in Messages :
          /\ Raises(m)
          /\ m # "native frame" => Fail(Throw(m)) /\ UNCHANGED things
    BY DEF ExecuteError
  <2>2. m # "native frame"
    BY <1>1, <2>1 DEF Raises
  <2> QED  BY <2>1, <2>2
<1>3. Apart(Throw(m).value)
  BY NoFunction DEF Throw
<1>4. \A t \in 1..Len(things') : AllApart(things'[t])
  BY <1>2 DEF Private
<1> QED  BY <1>1, <1>2, <1>3, <1>4, FailApart

(* The returns.                                                             *)
LEMMA ReturnsApart ==
  ASSUME Inv, Inv', Private, Return \/ NativeEnd \/ ExecuteReturn \/ NativeReturned
  PROVE  Private' /\ Frozen
<1>1. /\ Len(frames) \in Nat /\ Len(stack) \in Nat /\ stack \in Seq(Value)
      /\ AllApart(stack) /\ Apart(ret.value)
      /\ \A t \in 1..Len(things) : AllApart(things[t])
  BY InvTypes DEF Inv, TypeOK, Private
<1>2. CASE Return
  <2>1. /\ InLoop /\ Ins.op = "RETURN" /\ stack' = Append(Drop(1), Peek(0))
        /\ frames' = Bottom(frames, Len(frames) - 1)
        /\ UNCHANGED <<scopes, things, host, ret>>
    BY <1>2 DEF Return, Executing
  <2>2. Pops(Ins) = 1
    BY <2>1 DEF Pops
  <2>3. Len(frames) - 1 \in 0..Len(frames)
    BY <2>1, <1>1, InCode DEF InLoop
  <2>4. FrameScopes' \subseteq FrameScopes
    BY <2>1, <2>3, FramesCut
  <2>5. AllApart(stack')
    BY <2>1, <2>2, Dropped, PeekApart, AppendApart
  <2> QED  BY <1>1, <2>1, <2>4, <2>5, CuttingApart
<1>3. CASE NativeEnd
  <2>1. /\ stack' = stack /\ frames' = Bottom(frames, Len(frames) - 1)
        /\ Top.phase \in {"final", "guarded"} /\ host' = Bottom(host, Len(host) - 1)
        /\ UNCHANGED <<scopes, things, ret>>
    BY <1>3 DEF NativeEnd
  <2>2. Len(frames) \in 1..Len(frames)
    BY <2>1, NativePhase, TopNative DEF Inv
  <2>3. FrameScopes' \subseteq FrameScopes
    BY <1>1, <2>1, <2>2, FramesCut
  <2> QED  BY <1>1, <2>1, <2>3, CuttingApart
<1>4. CASE ExecuteReturn
  <2>1. /\ ret = NoRet /\ Top.fn = "executeCode" /\ Len(frames) <= Top.frames
        /\ stack' = Drop(1) /\ ret' = Ok(Peek(0)) /\ host' = Bottom(host, Len(host) - 1)
        /\ UNCHANGED <<frames, scopes, things>>
    BY <1>4 DEF ExecuteReturn
  <2>2. Len(stack) > Top.height /\ Top.height \in Nat
    <3>1. /\ Len(host) > 1 /\ Len(host) \in 1..Len(host) /\ Top = host[Len(host)]
          /\ Top.frames \in Nat /\ Top.height \in Nat
      BY <2>1, HostDeep, HostFacts, InvTypes DEF Inv, Top
    <3>2. Top.frames = Len(frames)
      BY <1>1, <2>1, <3>1 DEF Inv, HeightsOK
    <3> QED  BY <2>1, <3>1, <3>2 DEF Inv, ResultPresent
  <2>3. Len(stack) \in 1..Len(stack) /\ Len(stack) - 1 \in 0..Len(stack)
    BY <1>1, <2>2
  <2>4. AllApart(stack') /\ Apart(ret'.value)
    <3>1. Peek(0) = stack[Len(stack)]
      BY <2>3 DEF Peek
    <3>2. AllApart(stack')
      BY <1>1, <2>1, <2>3, BottomApart DEF Drop
    <3> QED  BY <1>1, <2>1, <2>3, <3>1, <3>2 DEF Ok, AllApart
  <2>5. FrameScopes' \subseteq FrameScopes
    BY <2>1 DEF FrameScopes
  <2> QED  BY <1>1, <2>1, <2>4, <2>5, CuttingApart
<1>5. CASE NativeReturned
  <2>1. Top.fn = "executeCode" /\ ret # NoRet /\ things' = things
        /\ Top.frames < Len(frames) /\ Top.frames \in Nat
    BY <1>5, HostFacts DEF NativeReturned, Inv, TopOK
  <2>2. CASE ret.error
    <3>1. Fail(ret)
      BY <1>5, <2>2 DEF NativeReturned
    <3>2. Len(frames) > Top.frames /\ \A t \in 1..Len(things') : AllApart(things'[t])
      BY <1>1, <2>1
    <3> QED  BY <1>1, <2>1, <3>1, <3>2, FailApart
  <2>3. CASE ~ret.error
    <3>1. /\ stack' = Append(stack, ret.value) /\ frames' = SetIndex(Frame.index + 1)
          /\ ret' = NoRet /\ UNCHANGED <<scopes, host>>
      BY <1>5, <2>3 DEF NativeReturned
    <3>2. AllApart(stack') /\ Apart(ret'.value)
      <4>1. Apart(NoRet.value)
        BY NoFunction DEF NoRet
      <4> QED  BY <1>1, <3>1, <4>1, AppendApart
    <3>3. FrameScopes' \subseteq FrameScopes
      <4>1. Len(frames) > Top.frames
        BY <1>1, <2>1
      <4> QED  BY <2>1, <3>1, <4>1, InCode, FramesMove
    <3> QED  BY <1>1, <2>1, <3>1, <3>2, <3>3, CuttingApart
  <2> QED  BY <2>2, <2>3
<1> QED  BY <1>2, <1>3, <1>4, <1>5

-----------------------------------------------------------------------------
(* Calls.                                                                   *)

(* A step that makes one scope, for the frame it pushes at most.            *)
LEMMA NewScopeApart ==
  ASSUME Inv, Inv', Private, NEW s, NEW l, BoundApart(l),
         scopes' = Append(scopes, createScope(s, l)),
         FrameScopes' \subseteq FrameScopes \cup {NewScope},
         AllApart(stack'), \A t \in 1..Len(things') : AllApart(things'[t]),
         \A k \in 1..Len(host') : AllApart(host'[k].args), Apart(ret'.value)
  PROVE  Private' /\ Frozen
<1>1. /\ Len(scopes) <= Len(scopes')
      /\ \A t \in 1..Len(scopes) : scopes'[t] = scopes[t]
      /\ \A t \in 1..Len(scopes') : BoundApart(scopes'[t].locals)
  BY CreatedApart
<1>2. FreeScopes \subseteq FreeScopes'
  BY <1>1, FreeKept
<1>3. Private'
  BY <1>1, <1>2, Carry
<1>4. Frozen
  BY <1>1 DEF Frozen, FreeScopes
<1> QED  BY <1>3, <1>4

(* createFrameCall binds the arguments of the call, and nothing else.       *)
LEMMA CalleeApart ==
  ASSUME Inv, NEW f \in Value, NEW args \in Seq(Value), AllApart(args), CanFrame(f, Len(args))
  PROVE  \E l : BoundApart(l) /\ CallScope(f, args) = createScope(f.scope, l)
<1>1. /\ f.entry \in DOMAIN Code /\ Code[f.entry].op = "DEF_FUNC"
      /\ Len(Code[f.entry].arg) = Len(args)
  BY FuncElim DEF CanFrame, Inv
<1>2. ArgumentOk(Code, Code[f.entry])
  BY <1>1, Certificate DEF Inv, TypeOK
<1>3. Code[f.entry].arg \in Seq(Names)
  BY <1>1, <1>2 DEF ArgumentOk
<1>4. BoundApart(BindArguments(Code[f.entry].arg, args))
  BY <1>1, <1>3, ArgumentsApart
<1> QED  BY <1>4 DEF CallScope

(* What OP_CALL takes off the stack is apart.                               *)
LEMMA TakenApart ==
  ASSUME Inv, Private, Executing("CALL")
  PROVE  AllApart(Arguments) /\ AllApart(Drop(CallArity + 1))
<1>1. /\ InLoop /\ CallArity \in Nat /\ CallArity + 1 \in Nat /\ Pops(Ins) = CallArity + 1
      /\ Len(Arguments) = CallArity
  BY CallOperands
<1>2. \A i \in Nat : i < CallArity + 1 => Apart(Peek(i))
  BY <1>1, PeekApart
<1>3. \A i \in 1..CallArity : CallArity - i \in Nat /\ CallArity - i < CallArity + 1
  BY <1>1
<1>4. \A i \in 1..CallArity : Arguments[i] = Peek(CallArity - i)
  BY DEF Arguments
<1> QED  BY <1>1, <1>2, <1>3, <1>4, PeekApart DEF AllApart

(* OP_CALL of a func thing.                                                 *)
LEMMA CallDefApart ==
  ASSUME Inv, Inv', Private, CallDef
  PROVE  Private' /\ Frozen
<1>1. /\ Executing("CALL") /\ CanFrame(Callee, CallArity)
      /\ scopes' = Append(scopes, CallScope(Callee, Arguments))
      /\ frames' = Append(SetIndex(Frame.index + 1), DefFrame(Callee.entry + 1, NewScope))
      /\ stack' = Drop(CallArity + 1)
      /\ UNCHANGED <<things, host, ret>>
  BY DEF CallDef
<1>2. /\ InLoop /\ Callee \in Value /\ Arguments \in Seq(Value) /\ Len(Arguments) = CallArity
      /\ AllApart(Arguments) /\ AllApart(Drop(CallArity + 1))
  BY <1>1, CallOperands, TakenApart
<1>3. PICK f \in Value, args \in Seq(Value) : f = Callee /\ args = Arguments
  BY <1>2
<1>4. PICK l : BoundApart(l) /\ CallScope(f, args) = createScope(f.scope, l)
  BY <1>1, <1>2, <1>3, CalleeApart
<1>5. scopes' = Append(scopes, createScope(f.scope, l))
  BY <1>1, <1>3, <1>4
<1>6. FrameScopes' \subseteq FrameScopes \cup {NewScope}
  <2>1. PICK q, g : q = SetIndex(Frame.index + 1) /\ g = DefFrame(Callee.entry + 1, NewScope)
    OBVIOUS
  <2>2. /\ Len(q) = Len(frames) /\ \E S : q \in Seq(S)
        /\ \A i \in 1..Len(frames) : q[i].type = frames[i].type /\ q[i].scope = frames[i].scope
    BY <1>2, <2>1, InCode, MovedOn DEF InLoop
  <2>3. g.scope = NewScope
    BY <2>1 DEF DefFrame
  <2>4. frames' = Append(q, g)
    BY <1>1, <2>1
  <2> QED  BY <2>2, <2>3, <2>4, FramesPush
<1>7. /\ AllApart(stack') /\ \A t \in 1..Len(things') : AllApart(things'[t])
      /\ \A k \in 1..Len(host') : AllApart(host'[k].args)
      /\ Apart(ret'.value)
  BY <1>1, <1>2 DEF Private
<1> QED  BY <1>4, <1>5, <1>6, <1>7, NewScopeApart

(* OP_CALL of a native function that returns at once.                       *)
LEMMA CallNativeApart ==
  ASSUME Inv, Inv', Private, CallNative
  PROVE  Private' /\ Frozen
<1>1. Executing("CALL")
  BY DEF CallNative
<1>2. PICK r \in NativeResults(Callee, Arguments) :
        /\ things' = r.things
        /\ IF r.ret.error
           THEN Fail(r.ret)
           ELSE Continue(Append(Drop(CallArity + 1), r.ret.value)) /\ UNCHANGED scopes
  BY DEF CallNative
<1>3. /\ InLoop /\ Arguments \in Seq(Value) /\ AllApart(Arguments)
      /\ AllApart(Drop(CallArity + 1)) /\ Drop(CallArity + 1) \in Seq(Value)
  BY <1>1, CallOperands, TakenApart
<1>4. PICK f, args : f = Callee /\ args = Arguments /\ args \in Seq(Value)
  BY <1>3
<1>5. ResultApart(r)
  BY <1>2, <1>3, <1>4, NativeApart
<1>6. Apart(r.ret.value) /\ \A t \in 1..Len(things') : AllApart(things'[t])
  BY <1>2, <1>5 DEF ResultApart
<1>7. CASE r.ret.error
  <2>1. Top.fn = "executeCode" /\ Len(frames) > Top.frames
    BY <1>3, Fetch
  <2>2. PICK x : x = r.ret
    OBVIOUS
  <2>3. Fail(x) /\ Apart(x.value)
    BY <1>2, <1>6, <1>7, <2>2
  <2> QED  BY <1>6, <2>1, <2>3, FailApart
<1>8. CASE ~r.ret.error
  <2>1. PICK d, v : d = Drop(CallArity + 1) /\ v = r.ret.value
    OBVIOUS
  <2>2. d \in Seq(Value) /\ AllApart(Append(d, v))
    BY <1>3, <1>6, <2>1, AppendApart
  <2>3. PICK st : st = Append(d, v)
    OBVIOUS
  <2>4. AllApart(st) /\ Continue(st) /\ UNCHANGED scopes
    BY <1>2, <1>8, <2>1, <2>2, <2>3
  <2> QED  BY <1>3, <1>6, <2>4, ContinueApart
<1> QED  BY <1>7, <1>8

(* A native function that calls back gets the arguments of the call, or the *)
(* function of a vararg and a list of them.                                 *)
LEMMA EnterApart ==
  ASSUME Inv, Inv', Private, NEW f \in Value, NEW args \in Seq(Value), AllApart(args),
         NEW st, AllApart(st), NEW S, NEW c \in Seq(S),
         \A k \in 1..Len(c) : AllApart(c[k].args), EnterNative(f, args, st, c)
  PROVE  Private' /\ Frozen
<1>1. PICK a : a = Activation(NativeName(f), "start", Append(frames, NativeFrame), st,
                              IF f.type = "VARARG"
                              THEN <<Held(f)[1], Ref("LIST", Len(things) + 1)>> ELSE args)
  OBVIOUS
<1>2. /\ frames' = Append(frames, NativeFrame) /\ stack' = st
      /\ things' = IF f.type = "VARARG" THEN Append(things, args) ELSE things
      /\ host' = Append(c, a) /\ ret' = NoRet /\ scopes' = scopes
  BY <1>1 DEF EnterNative
<1>3. AllApart(a.args)
  <2>1. CASE f.type = "VARARG"
    <3>1. PICK v, r : v = Held(f)[1] /\ r = Ref("LIST", Len(things) + 1)
      OBVIOUS
    <3>2. Apart(v) /\ Apart(r)
      BY <2>1, <3>1, HeadApart, NoFunction
    <3>3. a.args = <<v, r>>
      BY <1>1, <2>1, <3>1 DEF Activation
    <3>4. Len(<<v, r>>) = 2 /\ <<v, r>>[1] = v /\ <<v, r>>[2] = r
      OBVIOUS
    <3>5. \A i \in 1..2 : i = 1 \/ i = 2
      OBVIOUS
    <3> QED  BY <3>2, <3>3, <3>4, <3>5 DEF AllApart
  <2>2. CASE f.type # "VARARG"
    <3>1. a.args = args
      BY <1>1, <2>2 DEF Activation
    <3> QED  BY <3>1
  <2> QED  BY <2>1, <2>2
<1>4. \A k \in 1..Len(host') : AllApart(host'[k].args)
  <2>1. c \in Seq(S \cup {a}) /\ a \in S \cup {a} /\ Len(c) \in Nat
    BY SeqMono
  <2>2. /\ Len(host') = Len(c) + 1 /\ host'[Len(c) + 1] = a
        /\ \A k \in 1..Len(c) : host'[k] = c[k]
    BY <1>2, <2>1, AppendLemma
  <2>3. \A k \in 1..Len(host') : k \in 1..Len(c) \/ k = Len(c) + 1
    BY <2>1, <2>2
  <2> QED  BY <1>3, <2>2, <2>3
<1>5. \A t \in 1..Len(things') : AllApart(things'[t])
  <2>1. things \in Seq(Seq(Value)) /\ Len(things) \in Nat
        /\ \A t \in 1..Len(things) : AllApart(things[t])
    <3>1. things \in Seq(Seq(Value))
      BY DEF Inv, TypeOK
    <3> QED  BY <3>1 DEF Private
  <2>2. CASE f.type = "VARARG"
    <3>1. /\ Len(things') = Len(things) + 1 /\ things'[Len(things) + 1] = args
          /\ \A t \in 1..Len(things) : things'[t] = things[t]
      BY <1>2, <2>1, <2>2, AppendLemma
    <3>2. \A t \in 1..Len(things') : t \in 1..Len(things) \/ t = Len(things) + 1
      BY <2>1, <3>1
    <3> QED  BY <2>1, <3>1, <3>2
  <2>3. CASE f.type # "VARARG"
    BY <1>2, <2>1, <2>3
  <2> QED  BY <2>2, <2>3
<1>6. FrameScopes' \subseteq FrameScopes
  <2>1. PICK g : g = NativeFrame
    OBVIOUS
  <2>2. frames \in Seq(FrameType \cup {g}) /\ g \in FrameType \cup {g} /\ Len(frames) \in Nat
    BY SeqMono DEF Inv, TypeOK
  <2>3. /\ Len(frames') = Len(frames) + 1 /\ frames'[Len(frames) + 1] = g
        /\ \A i \in 1..Len(frames) : frames'[i] = frames[i]
    BY <1>2, <2>1, <2>2, AppendLemma
  <2>4. \A i \in 1..Len(frames') : i \in 1..Len(frames) \/ i = Len(frames) + 1
    BY <2>2, <2>3
  <2>5. g.type # "DEF"
    BY <2>1 DEF NativeFrame
  <2> QED  BY <2>3, <2>4, <2>5 DEF FrameScopes
<1>7. Apart(ret'.value)
  BY <1>2, NoFunction DEF NoRet
<1>8. AllApart(stack')
  BY <1>2
<1> QED  BY <1>2, <1>4, <1>5, <1>6, <1>7, <1>8, SameScopes

(* OP_CALL of one.                                                          *)
LEMMA CallCallbackApart ==
  ASSUME Inv, Inv', Private, CallCallback
  PROVE  Private' /\ Frozen
<1>1. /\ Executing("CALL")
      /\ EnterNative(Callee, Arguments, Drop(CallArity + 1), host)
  BY DEF CallCallback
<1>2. /\ Callee \in Value /\ Arguments \in Seq(Value) /\ AllApart(Arguments)
      /\ AllApart(Drop(CallArity + 1))
  BY <1>1, CallOperands, TakenApart
<1>3. PICK f \in Value, args \in Seq(Value) : f = Callee /\ args = Arguments
  BY <1>2
<1>4. PICK st : st = Drop(CallArity + 1)
  OBVIOUS
<1>5. AllApart(args) /\ AllApart(st) /\ EnterNative(f, args, st, host)
  BY <1>1, <1>2, <1>3, <1>4
<1>6. host \in Seq(ActivationType) /\ \A k \in 1..Len(host) : AllApart(host[k].args)
  BY DEF Inv, TypeOK, Private
<1> QED  BY <1>5, <1>6, EnterApart

(* callFunction, by a native function or by execFunc.                       *)
LEMMA CallFunctionApart ==
  ASSUME Inv, Inv', Private, NEW f \in Value, NEW args \in Seq(Value), AllApart(args),
         NEW S, NEW c \in Seq(S), \A k \in 1..Len(c) : AllApart(c[k].args),
         callFunction(f, args, c)
  PROVE  Private' /\ Frozen
<1>1. /\ AllApart(stack) /\ \A t \in 1..Len(things) : AllApart(things[t])
      /\ frames \in Seq(FrameType) /\ Len(frames) \in Nat
  BY DEF Private, Inv, TypeOK
<1>2. CASE /\ CanFrame(f, Len(args))
           /\ scopes' = Append(scopes, CallScope(f, args))
           /\ frames' = Append(frames, DefFrame(f.entry + 1, NewScope))
           /\ host' = Append(c, Activation("executeCode", "loop", frames, stack, <<>>))
           /\ ret' = NoRet
           /\ UNCHANGED <<stack, things>>
  <2>1. PICK l : BoundApart(l) /\ CallScope(f, args) = createScope(f.scope, l)
    BY <1>2, CalleeApart
  <2>2. scopes' = Append(scopes, createScope(f.scope, l))
    BY <1>2, <2>1
  <2>3. FrameScopes' \subseteq FrameScopes \cup {NewScope}
    <3>1. PICK g : g = DefFrame(f.entry + 1, NewScope)
      OBVIOUS
    <3>2. g.scope = NewScope
      BY <3>1 DEF DefFrame
    <3>3. frames' = Append(frames, g)
      BY <1>2, <3>1
    <3> QED  BY <1>1, <3>2, <3>3, FramesPush
  <2>4. \A k \in 1..Len(host') : AllApart(host'[k].args)
    <3>1. PICK a : a = Activation("executeCode", "loop", frames, stack, <<>>)
      OBVIOUS
    <3>2. c \in Seq(S \cup {a}) /\ a \in S \cup {a} /\ Len(c) \in Nat
      BY SeqMono
    <3>3. host' = Append(c, a)
      BY <1>2, <3>1
    <3>4. /\ Len(host') = Len(c) + 1 /\ host'[Len(c) + 1] = a
          /\ \A k \in 1..Len(c) : host'[k] = c[k]
      BY <3>2, <3>3, AppendLemma
    <3>5. \A k \in 1..Len(host') : k \in 1..Len(c) \/ k = Len(c) + 1
      BY <3>2, <3>4
    <3>6. a.args = <<>> /\ Len(<<>>) = 0
      BY <3>1 DEF Activation
    <3>7. AllApart(a.args)
      BY <3>6 DEF AllApart
    <3> QED  BY <3>4, <3>5, <3>7
  <2>5. Apart(ret'.value) /\ AllApart(stack') /\ \A t \in 1..Len(things') : AllApart(things'[t])
    BY <1>1, <1>2, NoFunction DEF NoRet
  <2> QED  BY <2>1, <2>2, <2>3, <2>4, <2>5, NewScopeApart
<1>3. ASSUME host' = c, UNCHANGED <<stack, frames, scopes>>, Apart(ret'.value),
             \A t \in 1..Len(things') : AllApart(things'[t])
      PROVE  Private' /\ Frozen
  <2>1. FrameScopes' \subseteq FrameScopes
    BY <1>3 DEF FrameScopes
  <2>2. AllApart(stack') /\ \A k \in 1..Len(host') : AllApart(host'[k].args)
    BY <1>1, <1>3
  <2> QED  BY <1>3, <2>1, <2>2, SameScopes
<1>4. CASE /\ ret' = Throw("bad call") /\ host' = c
           /\ UNCHANGED <<stack, frames, scopes, things>>
  <2>1. Apart(ret'.value) /\ \A t \in 1..Len(things') : AllApart(things'[t])
    BY <1>1, <1>4, NoFunction DEF Throw
  <2> QED  BY <1>3, <1>4, <2>1
<1>5. CASE /\ \E r \in NativeResults(f, args) : ret' = r.ret /\ things' = r.things
           /\ host' = c /\ UNCHANGED <<stack, frames, scopes>>
  <2>1. PICK r \in NativeResults(f, args) : ret' = r.ret /\ things' = r.things
    BY <1>5
  <2>2. Apart(ret'.value) /\ \A t \in 1..Len(things') : AllApart(things'[t])
    BY <2>1, NativeApart DEF ResultApart
  <2> QED  BY <1>3, <1>5, <2>2
<1>6. CASE EnterNative(f, args, stack, c)
  BY <1>1, <1>6, EnterApart
<1> QED  BY <1>2, <1>4, <1>5, <1>6 DEF callFunction

(* A caller that goes on to another phase keeps its arguments.              *)
LEMMA PhaseApart ==
  ASSUME Inv, Private, NEW p
  PROVE  \E S : Phase(p) \in Seq(S) /\ \A k \in 1..Len(Phase(p)) : AllApart(Phase(p)[k].args)
<1> DEFINE t == [Top EXCEPT !.phase = p]
           S == ActivationType \cup {t}
<1>1. Len(host) \in 1..Len(host) /\ Top = host[Len(host)] /\ Top \in ActivationType
  BY HostFacts DEF Inv
<1>2. t.args = Top.args
  BY <1>1 DEF ActivationType
<1>3. Phase(p) = [host EXCEPT ![Len(host)] = t]
  BY <1>1 DEF Phase
<1>4. host \in Seq(S) /\ t \in S
  BY SeqMono DEF Inv, TypeOK
<1> HIDE DEF t, S
<1>5. /\ Phase(p) \in Seq(S) /\ Len(Phase(p)) = Len(host)
      /\ \A k \in 1..Len(host) : Phase(p)[k] = IF k = Len(host) THEN t ELSE host[k]
  BY <1>1, <1>3, <1>4, ExceptLemma
<1>6. \A k \in 1..Len(host) : AllApart(host[k].args)
  BY DEF Private
<1>7. \A k \in 1..Len(Phase(p)) : AllApart(Phase(p)[k].args)
  BY <1>1, <1>2, <1>5, <1>6
<1> QED  BY <1>5, <1>7

(* One argument.                                                            *)
LEMMA OneApart ==
  ASSUME NEW v \in Value, Apart(v)
  PROVE  <<v>> \in Seq(Value) /\ AllApart(<<v>>)
<1>1. Len(<<v>>) = 1 /\ <<v>>[1] = v /\ \A i \in 1..1 : i = 1
  OBVIOUS
<1> QED  BY <1>1 DEF AllApart

(* libTryCatch, libCall and VarargThing::call call what they were given.    *)
LEMMA NativesApart ==
  ASSUME Inv, Inv', Private, NativeStart \/ Catch
  PROVE  Private' /\ Frozen
<1>1. Top.phase \in {"start", "guarded", "final"}
  BY DEF NativeStart, Catch
<1>2. /\ Top.fn \in Natives /\ Len(Top.args) = 2
      /\ Top.args[1] \in Value /\ Top.args[2] \in Value
      /\ Top.fn = "libCall" => Top.args[2].type = "LIST"
  BY <1>1, NativePhase
<1>3. Apart(Top.args[1]) /\ Apart(Top.args[2])
  <2>1. Len(host) \in 1..Len(host) /\ Top = host[Len(host)]
    BY HostFacts DEF Inv
  <2> QED  BY <2>1, <1>2 DEF Private, AllApart
<1>4. ASSUME NEW f \in Value, NEW args \in Seq(Value), AllApart(args), NEW p,
             callFunction(f, args, Phase(p))
      PROVE  Private' /\ Frozen
  <2>1. PICK c : c = Phase(p)
    OBVIOUS
  <2>2. \E S : c \in Seq(S) /\ \A k \in 1..Len(c) : AllApart(c[k].args)
    BY <2>1, PhaseApart
  <2>3. callFunction(f, args, c)
    BY <1>4, <2>1
  <2> QED  BY <1>4, <2>2, <2>3, CallFunctionApart
<1>5. ASSUME NEW f \in Value, NEW v \in Value, Apart(v), NEW p, callFunction(f, <<v>>, Phase(p))
      PROVE  Private' /\ Frozen
  BY <1>4, <1>5, OneApart
<1>6. CASE NativeStart /\ Top.fn = "libTryCatch"
  <2>1. callFunction(Top.args[1], <<None>>, Phase("guarded"))
    BY <1>6 DEF NativeStart
  <2>2. None \in Value /\ Apart(None)
    BY ScalarValues, NoFunction
  <2> QED  BY <1>2, <1>5, <2>1, <2>2
<1>7. CASE NativeStart /\ Top.fn = "libCall"
  <2>1. callFunction(Top.args[1], Held(Top.args[2]), Phase("final"))
    BY <1>7 DEF NativeStart
  <2>2. Held(Top.args[2]) \in Seq(Value) /\ AllApart(Held(Top.args[2]))
    BY <1>2, <1>7, HeldApart
  <2> QED  BY <1>2, <1>4, <2>1, <2>2
<1>8. CASE NativeStart /\ Top.fn = "varargCall"
  <2>1. callFunction(Top.args[1], <<Top.args[2]>>, Phase("final"))
    BY <1>8 DEF NativeStart
  <2> QED  BY <1>2, <1>3, <1>5, <2>1
<1>9. CASE Catch
  <2>1. ret.error /\ callFunction(Top.args[2], <<ret.value>>, Phase("final"))
    BY <1>9 DEF Catch
  <2>2. ret.value \in Value /\ Apart(ret.value)
    BY <2>1 DEF Inv, TypeOK, NoRet, Private
  <2> QED  BY <1>2, <1>5, <2>1, <2>2
<1> QED  BY <1>2, <1>6, <1>7, <1>8, <1>9 DEF Natives

(* execFunc calls main, which is bound in the module's scope.               *)
LEMMA ExecFuncApart ==
  ASSUME Inv, Inv', Private, ModuleReturned \/ MainReturned
  PROVE  Private' /\ Frozen
<1>1. CASE ModuleReturned /\ ~ret.error /\ Main # Null /\ Main.type = "FUNC"
  <2>1. callFunction(Main, <<None>>, Phase("main")) /\ Main \in Value
    BY <1>1, MainTyped DEF ModuleReturned, Inv
  <2>2. PICK f, args, c :
          /\ f \in Value /\ args \in Seq(Value) /\ AllApart(args)
          /\ f = Main /\ args = <<None>> /\ c = Phase("main")
    <3>1. None \in Value /\ Apart(None)
      BY ScalarValues, NoFunction
    <3> QED  BY <2>1, <3>1, OneApart
  <2>3. \E S : c \in Seq(S) /\ \A k \in 1..Len(c) : AllApart(c[k].args)
    BY <2>2, PhaseApart
  <2>4. callFunction(f, args, c)
    BY <2>1, <2>2
  <2> QED  BY <2>2, <2>3, <2>4, CallFunctionApart
<1>2. CASE ~(ModuleReturned /\ ~ret.error /\ Main # Null /\ Main.type = "FUNC")
  <2>1. /\ host' = Phase("done") /\ UNCHANGED <<stack, frames, scopes, things>>
        /\ \/ ret' = ret
           \/ \E m : ret' = Throw(m)
    BY <1>2 DEF ModuleReturned, MainReturned
  <2>2. Apart(ret'.value)
    BY <2>1, NoFunction DEF Throw, Private
  <2>3. \A k \in 1..Len(host') : AllApart(host'[k].args)
    BY <2>1, PhaseApart
  <2>4. FrameScopes' \subseteq FrameScopes
    BY <2>1 DEF FrameScopes
  <2>5. AllApart(stack') /\ \A t \in 1..Len(things') : AllApart(things'[t])
    BY <2>1 DEF Private
  <2> QED  BY <2>1, <2>2, <2>3, <2>4, <2>5, SameScopes
<1> QED  BY <1>1, <1>2

-----------------------------------------------------------------------------
(* The theorem.                                                             *)

(* executeModule begins with no functions.                                  *)
LEMMA InitPrivate == Init => Private
<1> SUFFICES ASSUME Init PROVE Private
  OBVIOUS
<1>1. /\ Len(stack) = 0 /\ Len(things) = 0 /\ ret.value = Null
      /\ Len(scopes) = 2 /\ scopes[1].locals = Builtins /\ scopes[2].locals = NoLocals
      /\ Len(host) = 2 /\ Len(host[1].args) = 0 /\ Len(host[2].args) = 0
  BY DEF Init, NoRet, Activation
<1>2. BoundApart(Builtins) /\ BoundApart(NoLocals)
  BY NoFunction DEF BoundApart, Builtins, NoLocals
<1>3. \A k \in 1..2 : k = 1 \/ k = 2
  OBVIOUS
<1>4. AllApart(stack) /\ AllApart(host[1].args) /\ AllApart(host[2].args)
  BY <1>1 DEF AllApart
<1>5. (\A t \in 1..Len(things) : AllApart(things[t])) /\ Apart(ret.value)
  BY <1>1, NoFunction
<1>6. \A t \in 1..Len(scopes) : BoundApart(scopes[t].locals)
  BY <1>1, <1>2, <1>3
<1>7. \A k \in 1..Len(host) : AllApart(host[k].args)
  BY <1>1, <1>3, <1>4
<1> QED  BY <1>4, <1>5, <1>6, <1>7 DEF Private

(* Every step leaves the scopes alone that no frame stores into.            *)
LEMMA StepApart ==
  ASSUME Inv, Inv', Private, Step
  PROVE  Private' /\ Frozen
<1>1. CASE Interpret
  BY <1>1, MovingApart, CreateFuncApart, StoreApart, JumpsApart, CallDefApart, CallNativeApart,
     CallCallbackApart, ErrorsApart, ReturnsApart DEF Interpret
<1>2. CASE NativeStart \/ Catch \/ NativeEnd \/ ModuleReturned \/ MainReturned
  BY <1>2, NativesApart, ExecFuncApart, ReturnsApart
<1> QED  BY <1>1, <1>2 DEF Step

(* Private is inductive, given Inv,                                         *)
LEMMA PrivateNext == Inv /\ Inv' /\ Private /\ [Next]_vars => Private'
<1> SUFFICES ASSUME Inv, Inv', Private, [Next]_vars PROVE Private'
  OBVIOUS
<1>1. CASE Step
  BY <1>1, StepApart
<1>2. CASE UNCHANGED vars
  <2>1. /\ stack' = stack /\ frames' = frames /\ scopes' = scopes
        /\ things' = things /\ host' = host /\ ret' = ret
    BY <1>2 DEF vars
  <2>2. FreeScopes' = FreeScopes
    BY <2>1 DEF FreeScopes, FrameScopes
  <2> QED  BY <2>1, <2>2 DEF Private, AllApart, BoundApart, Apart
<1> QED  BY <1>1, <1>2 DEF Next, Finished

(* and covers every scope a function is kept with.                          *)
LEMMA CapturedFree ==
  ASSUME Inv, Private, NEW s \in DOMAIN scopes, Captured(s)
  PROVE  s \in FreeScopes
<1>1. /\ DOMAIN stack = 1..Len(stack) /\ DOMAIN scopes = 1..Len(scopes)
      /\ DOMAIN things = 1..Len(things)
      /\ \A t \in DOMAIN things : DOMAIN things[t] = 1..Len(things[t])
  BY DEF Inv, TypeOK
<1>2. PICK v : Holds(v, s) /\ Apart(v)
  BY <1>1 DEF Captured, Private, AllApart, BoundApart
<1> QED  BY <1>2 DEF Holds, Apart

(* Every run, for closure_values_do_not_change.blg: what a function has     *)
(* captured never changes, whoever keeps it and whatever is bound later.    *)
THEOREM CapturedAlwaysFrozen == Spec => CapturedFrozen
<1>1. Spec => [](Inv /\ Private)
  BY InitInv, NextInv, InitPrivate, PrivateNext, PTL DEF Spec
<1> DEFINE Kept == \A s \in DOMAIN scopes : Captured(s) => scopes'[s] = scopes[s]
<1>2. Inv /\ Inv' /\ Private /\ [Next]_vars => [Kept]_vars
  <2> SUFFICES ASSUME Inv, Inv', Private, Step PROVE Kept
    BY DEF Next, Finished
  <2> QED  BY StepApart, CapturedFree DEF Frozen
<1> HIDE DEF Kept
<1>3. [][Kept]_vars => CapturedFrozen
  BY DEF CapturedFrozen, Kept
<1> QED  BY <1>1, <1>2, <1>3, PTL DEF Spec
=============================================================================
