------------------------------ MODULE Execute ------------------------------
(***************************************************************************)
(* The bytecode interpreter: executeCode, executeModule and callFunction   *)
(* of execute.cpp, driven by execFunc of top.cpp, with the native functions*)
(* that matter to control: libTryCatch of lib.cpp, libCall and VarargThing *)
(* of functools.cpp call back into the interpreter, the others return.     *)
(*                                                                         *)
(* The interpreter is sequential, but its control is spread over three     *)
(* stacks that have to agree: runtime->stackFrame (here frames),           *)
(* runtime->stack (here stack, its top is the last element) and the C++    *)
(* call stack (here host), on which executeCode activations nest through   *)
(* native functions.  A RetVal on its way from a C++ function to its       *)
(* caller is ret.                                                          *)
(*                                                                         *)
(* The program it runs is a well-formed one of Bytecode.                    *)
(***************************************************************************)
EXTENDS Integers, Bytecode

CONSTANTS
  ProgramIds,     \* the programs to run
  Program,        \* [ProgramIds -> [code, entry, depth]]
  Inputs          \* the lines libInput may read, as things

VARIABLES
  program,        \* the program being run; never changes
  stack,          \* runtime->stack
  frames,         \* runtime->stackFrame
  scopes,         \* runtime->allocatedScopes, by identity
  things,         \* what the tuples, lists, cells and varargs hold, by identity
  host,           \* the C++ functions that are active
  ret,            \* the RetVal being handed to the function on top of host
  bases           \* history: the size of stack when each frame was pushed

vars == <<program, stack, frames, scopes, things, host, ret, bases>>

-----------------------------------------------------------------------------
(* Things.  A func thing names its entry address and its parent scope; a    *)
(* thing that holds others is a reference into things.  A list is kept with *)
(* all its elements, as lists never change.                                 *)

Null == [type |-> "NULL"]
None == [type |-> "NONE"]
Bool(b) == [type |-> "BOOL", bool |-> b]
Func(e, s) == [type |-> "FUNC", entry |-> e, scope |-> s]
Native(n) == [type |-> "NATIVE", name |-> n]
ErrorThing(m) == [type |-> "ERROR", msg |-> m]
Functools == [type |-> "MODULE"]
Ref(t, i) == [type |-> t, id |-> i]
Held(v) == things[v.id]

(* The native functions of lib.cpp, and the operators, that are modelled.   *)
(* The symbols among them dispatch on the type of their first argument.     *)
BuiltinNames == {"print", "input", "assert", "is_none", "trycatch", "head", "tail",
                 "get", "createCell", "getCell", "setCell", "import"}
OperatorNames == {"not", "==", "tuple", "::", "get", "unpack_cons", "assert_equal", "."}

Messages == {"undefined", "no builtin", "bad call", "not a bool", "not none",
             "unknown bytecode", "native frame", "not callable", "bad args",
             "assertion", "function not found", "not a function"}

NoRet == [error |-> FALSE, value |-> Null]
Ok(v) == [error |-> FALSE, value |-> v]
Throw(m) == [error |-> TRUE, value |-> ErrorThing(m)]

-----------------------------------------------------------------------------
(* The program.                                                             *)

Code == program.code
Depth == program.depth

ASSUME ProgramAssumption == \A id \in ProgramIds : WellFormed(Program[id])
ASSUME NamesAssumption == BuiltinNames \cup {"main", "none", "true", "false"} \subseteq Names
(* No int is negative: TupleThing::dispatch would read below the array.     *)
ASSUME LiteralsAssumption ==
  /\ Inputs \subseteq Literals
  /\ Literals \subseteq [type : {"INT"}, int : Nat] \cup [type : {"STR"}, str : STRING]
                        \cup [type : {"FLOAT"}, float : Int]

-----------------------------------------------------------------------------
(* Scopes.  The parent pointer of a scope never changes, so a scope is kept *)
(* with the chain of scopes it reaches: itself, its parent, and so on.      *)

(* getScopeValue: the first scope of the chain that binds the name.         *)
getScopeValue(s, n) ==
  LET chain == scopes[s].chain
      bound == {i \in DOMAIN chain : scopes[chain[i]].locals[n] # Null}
      nearest == CHOOSE i \in bound : \A j \in bound : i <= j
  IN IF bound = {} THEN Null ELSE scopes[chain[nearest]].locals[n]

NewScope == Len(scopes) + 1

createScope(parent, locals) ==
  [chain |-> <<NewScope>> \o scopes[parent].chain, locals |-> locals]

(* copyScope: a child of the scope that binds every name visible from it.   *)
copyScope(s) == createScope(s, [n \in Names |-> getScopeValue(s, n)])

(* The argument binding of createFrameCall; a repeated name keeps the last. *)
BindArguments(names, args) ==
  [n \in Names |->
     LET at == {i \in DOMAIN names : names[i] = n}
         last == CHOOSE i \in at : \A j \in at : j <= i
     IN IF at = {} THEN Null ELSE args[last]]

Builtins ==
  [n \in Names |->
     CASE n \in BuiltinNames -> Native(n)
       [] n = "none" -> None
       [] n = "true" -> Bool(TRUE)
       [] n = "false" -> Bool(FALSE)
       [] OTHER -> Null]

NoLocals == [n \in Names |-> Null]

(* runtime->operators, for PUSH_BUILTIN                                     *)
Operator(n) == IF n \in OperatorNames THEN Native(n)
               ELSE IF n = "none" THEN None ELSE Null

BuiltinsScope == 1
ModuleScope == 2

-----------------------------------------------------------------------------
(* Frames and the C++ call stack.                                           *)

DefFrame(index, scope) == [type |-> "DEF", index |-> index, scope |-> scope]
NativeFrame == [type |-> "NATIVE", index |-> 0, scope |-> BuiltinsScope]

(* An active C++ function, with the sizes of the two stacks when it was     *)
(* entered (executeCode keeps them as initStackFrameSize and initStackSize, *)
(* for libTryCatch they are history), how far it has come, and its args.    *)
Activation(fn, phase, fs, st, args) ==
  [fn |-> fn, phase |-> phase, frames |-> Len(fs), height |-> Len(st),
   args |-> args]

Top == host[Len(host)]
Frame == frames[Len(frames)]
Ins == Code[Frame.index]
Bottom(s, n) == SubSeq(s, 1, n)
LeastOf(m, n) == IF m < n THEN m ELSE n
Peek(i) == stack[Len(stack) - i]
Drop(n) == Bottom(stack, Len(stack) - n)

(* executeCode is about to look at the instruction of its top frame.        *)
InLoop == /\ ret = NoRet
          /\ Top.fn = "executeCode"
          /\ Len(frames) > Top.frames

Executing(op) == InLoop /\ Frame.type = "DEF" /\ Ins.op = op

SetIndex(i) == [frames EXCEPT ![Len(frames)].index = i]

(* The common end of an instruction that neither calls nor returns.         *)
Continue(newStack) ==
  /\ stack' = newStack
  /\ frames' = SetIndex(Frame.index + 1)
  /\ UNCHANGED <<program, host, ret, bases>>

(* An activation of executeCode ends with r, and both stacks are cut.       *)
Unwind(newFrames, newStack, r) ==
  /\ frames' = Bottom(frames, newFrames)
  /\ bases' = Bottom(bases, newFrames)
  /\ stack' = newStack
  /\ host' = Bottom(host, Len(host) - 1)
  /\ ret' = r
  /\ UNCHANGED <<program, scopes>>

(* Mutants of Fail: it forgets the operand stack, takes all of it, or goes  *)
(* one frame less far down.                                                 *)
FailKeepingOperands(r) == Unwind(Top.frames, stack, r)
FailTakingAll(r) == Unwind(Top.frames, <<>>, r)
FailOneFrameLess(r) == Unwind(Top.frames + 1, Bottom(stack, Top.height), r)

(* throwMsg, unwindStackFrame and return: what every error path inside      *)
(* executeCode does.                                                        *)
Fail(r) == Unwind(Top.frames, Bottom(stack, LeastOf(Len(stack), Top.height)), r)

-----------------------------------------------------------------------------
(* Calls.                                                                   *)

(* The checks of createFrameCall.                                           *)
CanFrame(f, n) ==
  /\ f.type = "FUNC"
  /\ Code[f.entry].op = "DEF_FUNC"
  /\ Len(Code[f.entry].arg) = n

CallScope(f, args) == createScope(f.scope, BindArguments(Code[f.entry].arg, args))

(* func->call for a thing that does not call back: the results it may give, *)
(* each with what things is then.  A symbol thing dispatches on its first   *)
(* argument; what is neither a symbol nor a native function cannot be       *)
(* called.                                                                  *)
Result(r) == {[ret |-> r, things |-> things]}
NewThing(t, held) == {[ret |-> Ok(Ref(t, Len(things) + 1)), things |-> Append(things, held)]}
BadArgs == Result(Throw("bad args"))

TypesAre(args, types) ==
  Len(args) = Len(types) /\ \A i \in DOMAIN types : args[i].type = types[i]

(* The == symbol.  Tuples compare element by element, which may fail: any    *)
(* outcome stands for theirs.                                               *)
Equal(args) ==
  IF \E t \in {"STR", "INT", "FLOAT"} : TypesAre(args, <<t, t>>)
  THEN {Ok(Bool(args[1] = args[2]))}
  ELSE {Throw("bad args")} \cup
       {Ok(Bool(b)) : b \in {c \in BOOLEAN : TypesAre(args, <<"TUPLE", "TUPLE">>)}}

AssertEqual(args) ==
  {IF r = Ok(Bool(TRUE)) THEN Ok(None)
   ELSE IF r.error THEN r ELSE Throw("assertion") : r \in Equal(args)}

InBounds(args) == /\ TypesAre(args, <<"TUPLE", "INT">>)
                  /\ args[2].int + 1 \in DOMAIN Held(args[1])

Rest(list) == IF Len(Held(list)) = 1 THEN Result(Ok(None)) ELSE NewThing("LIST", Tail(Held(list)))

BasicResults(n, args) ==
  CASE n = "print" /\ TypesAre(args, <<"STR">>) -> Result(Ok(None))
    [] n = "input" -> UNION {Result(Ok(line)) : line \in Inputs}
    [] n = "assert" /\ TypesAre(args, <<"BOOL">>) ->
         Result(IF args[1].bool THEN Ok(None) ELSE Throw("assertion"))
    [] n = "assert_equal" -> UNION {Result(r) : r \in AssertEqual(args)}
    [] n = "is_none" /\ Len(args) = 1 -> Result(Ok(Bool(args[1].type = "NONE")))
    [] n = "not" /\ TypesAre(args, <<"BOOL">>) -> Result(Ok(Bool(~args[1].bool)))
    [] n = "==" -> UNION {Result(r) : r \in Equal(args)}
    [] n = "import" /\ TypesAre(args, <<"STR">>) /\ args[1].str = "std/functools.blg" ->
         Result(Ok(Functools))
    [] n = "." /\ TypesAre(args, <<"MODULE", "STR">>) /\ args[2].str \in {"call", "varargs"} ->
         Result(Ok(Native(args[2].str)))
    [] OTHER -> BadArgs

(* unpack_cons makes the tail of a list, and the pair that holds it.        *)
Unpacked(list) ==
  {[ret |-> Ok(Ref("TUPLE", Len(r.things) + 1)),
    things |-> Append(r.things, <<Held(list)[1], r.ret.value>>)] : r \in Rest(list)}

DataNames == {"tuple", "get", "::", "head", "tail", "unpack_cons", "createCell",
              "getCell", "setCell", "varargs"}
DataResults(n, args) ==
  CASE n = "tuple" -> NewThing("TUPLE", args)
    [] n = "get" /\ InBounds(args) -> Result(Ok(Held(args[1])[args[2].int + 1]))
    [] n = "::" /\ Len(args) = 2 /\ args[2].type = "NONE" -> NewThing("LIST", <<args[1]>>)
    [] n = "::" /\ Len(args) = 2 /\ args[2].type = "LIST" ->
         NewThing("LIST", <<args[1]>> \o Held(args[2]))
    [] n = "head" /\ TypesAre(args, <<"LIST">>) -> Result(Ok(Held(args[1])[1]))
    [] n = "tail" /\ TypesAre(args, <<"LIST">>) -> Rest(args[1])
    [] n = "unpack_cons" /\ TypesAre(args, <<"LIST">>) -> Unpacked(args[1])
    [] n = "createCell" /\ Len(args) = 1 -> NewThing("CELL", args)
    [] n = "getCell" /\ TypesAre(args, <<"CELL">>) -> Result(Ok(Held(args[1])[1]))
    [] n = "setCell" /\ Len(args) = 2 /\ args[1].type = "CELL" ->
         {[ret |-> Ok(None), things |-> [things EXCEPT ![args[1].id] = <<args[2]>>]]}
    [] n = "varargs" /\ Len(args) >= 1 -> NewThing("VARARG", <<args[1]>>)
    [] OTHER -> BadArgs

NativeResults(f, args) ==
  CASE f.type # "NATIVE" -> Result(Throw("not callable"))
    [] f.type = "NATIVE" /\ f.name \in DataNames -> DataResults(f.name, args)
    [] OTHER -> BasicResults(f.name, args)

(* func->call for a native function that calls back.  (The count of libCall *)
(* is a byte: lists of more than 255 elements are not passed to it.)        *)
CallsBack(f, args) ==
  \/ f = Native("trycatch") /\ Len(args) = 2
  \/ f = Native("call") /\ Len(args) = 2 /\ args[2].type = "LIST"
  \/ f.type = "VARARG" /\ Len(args) >= 1

NativeName(f) == CASE f = Native("trycatch") -> "libTryCatch"
                   [] f = Native("call") -> "libCall"
                   [] OTHER -> "varargCall"

(* It is entered with st on the operand stack, on top of the C++ functions  *)
(* of caller.  VarargThing::call turns its arguments into a list first.     *)
EnterNative(f, args, st, caller) ==
  LET inside == Append(frames, NativeFrame)
      varargs == <<Held(f)[1], Ref("LIST", Len(things) + 1)>>
  IN /\ frames' = inside
     /\ bases' = Append(bases, Len(st))
     /\ stack' = st
     /\ things' = IF f.type = "VARARG" THEN Append(things, args) ELSE things
     /\ host' = Append(caller, Activation(NativeName(f), "start", inside, st,
                                         IF f.type = "VARARG" THEN varargs ELSE args))
     /\ ret' = NoRet
     /\ UNCHANGED <<program, scopes>>

(* callFunction(runtime, f, n, args), by the C++ function on top of caller: *)
(* a func thing gets a frame and an executeCode of its own, anything else   *)
(* runs under a native frame that is popped before callFunction returns.    *)
callFunction(f, args, caller) ==
  \/ /\ CanFrame(f, Len(args))
     /\ scopes' = Append(scopes, CallScope(f, args))
     /\ frames' = Append(frames, DefFrame(f.entry + 1, NewScope))
     /\ bases' = Append(bases, Len(stack))
     /\ host' = Append(caller, Activation("executeCode", "loop", frames, stack, <<>>))
     /\ ret' = NoRet
     /\ UNCHANGED <<program, stack, things>>
  \/ /\ f.type = "FUNC" /\ ~CanFrame(f, Len(args))
     /\ ret' = Throw("bad call")
     /\ host' = caller
     /\ UNCHANGED <<program, stack, frames, scopes, things, bases>>
  \/ /\ f.type # "FUNC" /\ ~CallsBack(f, args)
     /\ \E r \in NativeResults(f, args) : ret' = r.ret /\ things' = r.things
     /\ host' = caller
     /\ UNCHANGED <<program, stack, frames, scopes, bases>>
  \/ /\ f.type # "FUNC" /\ CallsBack(f, args)
     /\ EnterNative(f, args, stack, caller)

-----------------------------------------------------------------------------
(* The instructions.                                                        *)

PushConstant ==
  /\ \E op \in {"PUSH_INT", "PUSH_FLOAT", "PUSH_LITERAL"} : Executing(op)
  /\ Continue(Append(stack, Ins.arg))
  /\ UNCHANGED <<scopes, things>>

PushNone ==
  /\ Executing("PUSH_NONE")
  /\ Continue(Append(stack, None))
  /\ UNCHANGED <<scopes, things>>

PushBuiltin ==
  /\ Executing("PUSH_BUILTIN")
  /\ Operator(Ins.arg) # Null
  /\ Continue(Append(stack, Operator(Ins.arg)))
  /\ UNCHANGED <<scopes, things>>

(* Mutants of Return: the value is lost, or the frame stays.                *)
ReturnWithoutValue ==
  /\ Executing("RETURN")
  /\ stack' = Drop(1)
  /\ frames' = Bottom(frames, Len(frames) - 1)
  /\ bases' = Bottom(bases, Len(frames) - 1)
  /\ UNCHANGED <<program, scopes, things, host, ret>>
ReturnWithoutPopping ==
  /\ Executing("RETURN")
  /\ UNCHANGED vars

(* The frame is gone afterwards: its index is not stored.                   *)
Return ==
  /\ Executing("RETURN")
  /\ stack' = Append(Drop(1), Peek(0))
  /\ frames' = Bottom(frames, Len(frames) - 1)
  /\ bases' = Bottom(bases, Len(frames) - 1)
  /\ UNCHANGED <<program, scopes, things, host, ret>>

(* Mutant of CreateFunc: the function shares its creator's scope.           *)
CreateFuncSharing ==
  /\ Executing("CREATE_FUNC")
  /\ Continue(Append(stack, Func(Ins.arg, Frame.scope)))
  /\ UNCHANGED <<scopes, things>>

CreateFunc ==
  /\ Executing("CREATE_FUNC")
  /\ scopes' = Append(scopes, copyScope(Frame.scope))
  /\ Continue(Append(stack, Func(Ins.arg, NewScope)))
  /\ UNCHANGED things

(* Mutant of Load: an undefined name is not noticed.                        *)
LoadUnchecked ==
  /\ Executing("LOAD")
  /\ Continue(Append(stack, getScopeValue(Frame.scope, Ins.arg)))
  /\ UNCHANGED <<scopes, things>>

Load ==
  /\ Executing("LOAD")
  /\ getScopeValue(Frame.scope, Ins.arg) # Null
  /\ Continue(Append(stack, getScopeValue(Frame.scope, Ins.arg)))
  /\ UNCHANGED <<scopes, things>>

Store ==
  /\ Executing("STORE")
  /\ Continue(Drop(1))
  /\ scopes' = [scopes EXCEPT ![Frame.scope].locals[Ins.arg] = Peek(0)]
  /\ UNCHANGED things

(* OP_CALL.  The callee is found below the arguments, which are in order.   *)
CallArity == Arity(Ins.arg)
Callee == Peek(CallArity)
Arguments == [i \in 1..CallArity |-> Peek(CallArity - i)]

(* The caller's index moves past the call before the callee runs.           *)
CallDef ==
  /\ Executing("CALL")
  /\ CanFrame(Callee, CallArity)
  /\ scopes' = Append(scopes, CallScope(Callee, Arguments))
  /\ frames' = Append(SetIndex(Frame.index + 1), DefFrame(Callee.entry + 1, NewScope))
  /\ stack' = Drop(CallArity + 1)
  /\ bases' = Append(bases, Len(stack) - (CallArity + 1))
  /\ UNCHANGED <<program, things, host, ret>>

(* A native function that calls nothing: its frame comes and goes.          *)
CallNative ==
  /\ Executing("CALL")
  /\ Callee.type # "FUNC" /\ ~CallsBack(Callee, Arguments)
  /\ \E r \in NativeResults(Callee, Arguments) :
       /\ things' = r.things
       /\ IF r.ret.error
          THEN Fail(r.ret)
          ELSE Continue(Append(Drop(CallArity + 1), r.ret.value)) /\ UNCHANGED scopes

(* One that calls back: its frame stays for as long as it runs, and the     *)
(* caller's index stays at the call.                                        *)
CallCallback ==
  /\ Executing("CALL")
  /\ Callee.type # "FUNC" /\ CallsBack(Callee, Arguments)
  /\ EnterNative(Callee, Arguments, Drop(CallArity + 1), host)

CondJumpFalse ==
  /\ Executing("COND_JUMP_FALSE")
  /\ Peek(0).type = "BOOL"
  /\ stack' = Drop(1)
  /\ frames' = SetIndex(IF Peek(0).bool THEN Frame.index + 1 ELSE Ins.arg)
  /\ UNCHANGED <<program, scopes, things, host, ret, bases>>

AbsJump ==
  /\ Executing("ABS_JUMP")
  /\ frames' = SetIndex(Ins.arg)
  /\ UNCHANGED <<program, stack, scopes, things, host, ret, bases>>

Dup ==
  /\ Executing("DUP")
  /\ Continue(Append(stack, Peek(0)))
  /\ UNCHANGED <<scopes, things>>

Rot3 ==
  /\ Executing("ROT3")
  /\ Continue(Drop(3) \o <<Peek(1), Peek(2), Peek(0)>>)
  /\ UNCHANGED <<scopes, things>>

Swap ==
  /\ Executing("SWAP")
  /\ Continue(Drop(2) \o <<Peek(0), Peek(1)>>)
  /\ UNCHANGED <<scopes, things>>

Pop ==
  /\ Executing("POP")
  /\ Continue(Drop(1))
  /\ UNCHANGED <<scopes, things>>

CheckNone ==
  /\ Executing("CHECK_NONE")
  /\ Peek(0) = None
  /\ Continue(Drop(1))
  /\ UNCHANGED <<scopes, things>>

(* The error messages executeCode raises for the instruction at hand.       *)
Raises(m) ==
  IF Frame.type # "DEF" THEN m = "native frame"
  ELSE CASE Ins.op = "LOAD" -> m = "undefined" /\ getScopeValue(Frame.scope, Ins.arg) = Null
         [] Ins.op = "PUSH_BUILTIN" -> m = "no builtin" /\ Operator(Ins.arg) = Null
         [] Ins.op = "CALL" -> /\ m = "bad call"
                               /\ Callee.type = "FUNC" /\ ~CanFrame(Callee, CallArity)
         [] Ins.op = "COND_JUMP_FALSE" -> m = "not a bool" /\ Peek(0).type # "BOOL"
         [] Ins.op = "CHECK_NONE" -> m = "not none" /\ Peek(0) # None
         [] OTHER -> /\ m = "unknown bytecode"
                     /\ ~FallsThrough(Ins) /\ Ins.op \notin {"RETURN", "ABS_JUMP"}

(* The internal error of a native frame left on top unwinds nothing.        *)
ExecuteError ==
  /\ InLoop
  /\ \E m \in Messages :
       /\ Raises(m)
       /\ IF m = "native frame"
          THEN /\ ret' = Throw(m)
               /\ host' = Bottom(host, Len(host) - 1)
               /\ UNCHANGED <<program, stack, frames, scopes, things, bases>>
          ELSE Fail(Throw(m)) /\ UNCHANGED things

(* The loop ends when the frame it began with is gone.                      *)
ExecuteReturn ==
  /\ ret = NoRet /\ Top.fn = "executeCode" /\ Len(frames) <= Top.frames
  /\ ret' = Ok(Peek(0))
  /\ stack' = Drop(1)
  /\ host' = Bottom(host, Len(host) - 1)
  /\ UNCHANGED <<program, frames, scopes, things, bases>>

(* Mutant of NativeReturned: the result is not pushed.                      *)
NativeReturnedLosing ==
  /\ Top.fn = "executeCode" /\ ret # NoRet
  /\ UNCHANGED things
  /\ IF ret.error
     THEN Fail(ret)
     ELSE /\ frames' = SetIndex(Frame.index + 1)
          /\ ret' = NoRet
          /\ UNCHANGED <<program, stack, scopes, host, bases>>

(* The end of OP_CALL, once the native function has returned.               *)
NativeReturned ==
  /\ Top.fn = "executeCode" /\ ret # NoRet
  /\ UNCHANGED things
  /\ IF ret.error
     THEN Fail(ret)
     ELSE /\ stack' = Append(stack, ret.value)
          /\ frames' = SetIndex(Frame.index + 1)
          /\ ret' = NoRet
          /\ UNCHANGED <<program, scopes, host, bases>>

-----------------------------------------------------------------------------
(* The native functions that call back.  Under libTryCatch the first call   *)
(* is guarded; the result of a final call is handed on whatever it is.      *)

Phase(p) == [host EXCEPT ![Len(host)].phase = p]

NativeStart ==
  /\ ret = NoRet /\ Top.phase = "start"
  /\ CASE Top.fn = "libTryCatch" -> callFunction(Top.args[1], <<None>>, Phase("guarded"))
       [] Top.fn = "libCall" -> callFunction(Top.args[1], Held(Top.args[2]), Phase("final"))
       [] Top.fn = "varargCall" -> callFunction(Top.args[1], <<Top.args[2]>>, Phase("final"))

(* Mutant of Catch: the handler is guarded by the trycatch it belongs to.   *)
CatchAgain ==
  /\ Top.phase = "guarded" /\ ret.error
  /\ callFunction(Top.args[2], <<ret.value>>, host)

Catch ==
  /\ Top.phase = "guarded" /\ ret.error
  /\ callFunction(Top.args[2], <<ret.value>>, Phase("final"))

(* Mutants of NativeEnd: the frame stays, or the error of a guarded block   *)
(* is handed on.                                                            *)
NativeEndKeepingFrame ==
  /\ ret # NoRet
  /\ Top.phase = "final" \/ (Top.phase = "guarded" /\ ~ret.error)
  /\ host' = Bottom(host, Len(host) - 1)
  /\ UNCHANGED <<program, stack, frames, scopes, things, ret, bases>>
NativeEndUnguarded ==
  /\ ret # NoRet
  /\ Top.phase \in {"final", "guarded"}
  /\ host' = Bottom(host, Len(host) - 1)
  /\ frames' = Bottom(frames, Len(frames) - 1)
  /\ bases' = Bottom(bases, Len(frames) - 1)
  /\ UNCHANGED <<program, stack, scopes, things, ret>>

(* The native function returns to OP_CALL or to callFunction, which pops    *)
(* its frame at once.                                                       *)
NativeEnd ==
  /\ ret # NoRet
  /\ Top.phase = "final" \/ (Top.phase = "guarded" /\ ~ret.error)
  /\ host' = Bottom(host, Len(host) - 1)
  /\ frames' = Bottom(frames, Len(frames) - 1)
  /\ bases' = Bottom(bases, Len(frames) - 1)
  /\ UNCHANGED <<program, stack, scopes, things, ret>>

-----------------------------------------------------------------------------
(* execFunc: run the module's code, look main up among its bindings, call   *)
(* it with none.                                                            *)

Main == scopes[ModuleScope].locals["main"]

ModuleReturned ==
  /\ Top.fn = "execFunc" /\ Top.phase = "module" /\ ret # NoRet
  /\ IF ~ret.error /\ Main # Null /\ Main.type = "FUNC"
     THEN callFunction(Main, <<None>>, Phase("main"))
     ELSE /\ ret' = IF ret.error THEN ret
                    ELSE IF Main = Null THEN Throw("function not found")
                    ELSE Throw("not a function")
          /\ host' = Phase("done")
          /\ UNCHANGED <<program, stack, frames, scopes, things, bases>>

MainReturned ==
  /\ Top.fn = "execFunc" /\ Top.phase = "main" /\ ret # NoRet
  /\ host' = Phase("done")
  /\ UNCHANGED <<program, stack, frames, scopes, things, ret, bases>>

Done == Top.fn = "execFunc" /\ Top.phase = "done"

Finished == Done /\ UNCHANGED vars

-----------------------------------------------------------------------------
(* executeModule has created the module's scope and frame, and executeCode  *)
(* has pushed it.                                                           *)
Init ==
  /\ \E id \in ProgramIds : program = Program[id]
  /\ stack = <<>>
  /\ frames = <<DefFrame(program.entry, ModuleScope)>>
  /\ scopes = <<[chain |-> <<BuiltinsScope>>, locals |-> Builtins],
                [chain |-> <<ModuleScope, BuiltinsScope>>, locals |-> NoLocals]>>
  /\ things = <<>>
  /\ host = <<Activation("execFunc", "module", <<>>, <<>>, <<>>),
              Activation("executeCode", "loop", <<>>, <<>>, <<>>)>>
  /\ ret = NoRet
  /\ bases = <<0>>

Interpret ==
  \/ PushConstant \/ PushNone \/ PushBuiltin \/ CreateFunc
  \/ Load \/ Store \/ Dup \/ Rot3 \/ Swap \/ Pop \/ CheckNone
  \/ CondJumpFalse \/ AbsJump
  \/ CallDef \/ CallNative \/ CallCallback \/ NativeReturned
  \/ Return \/ ExecuteReturn \/ ExecuteError

Step == Interpret \/ NativeStart \/ Catch \/ NativeEnd \/ ModuleReturned \/ MainReturned

Next == Step \/ Finished

Spec == Init /\ [][Next]_vars

(* One thread runs the interpreter and never waits: an enabled step is      *)
(* taken.                                                                   *)
FairSpec == Spec /\ WF_vars(Step)

=============================================================================
