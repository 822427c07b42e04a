------------------------------- MODULE Things -------------------------------
(***************************************************************************)
(* What things answer: callFunction on a symbol dispatches to the class of *)
(* its first argument (thing/*.cpp), an object hands the call on to one of *)
(* its properties, a tuple compares itself element by element by further   *)
(* calls.  The C++ activations in progress are the sequence calls.         *)
(*                                                                         *)
(* A thing is a record of its class and contents; only symbols have an     *)
(* identity, nth, that the code does not have: ids are all it compares.    *)
(* User functions answer whatever the constant FunctionAnswers allows; of  *)
(* lists, cells and errors, which answer nothing, only the class matters.  *)
(***************************************************************************)
EXTENDS Integers, Sequences, FiniteSets

CONSTANTS
  Programs,         \* the scalars and the names of the runtime's symbols a
                    \* program begins with, the kinds of things it makes, in
                    \* order, the most properties of an object, 1 or 2, and the
                    \* symbols made before by the same process
  FunctionAnswers,  \* what its functions answer: things, or Error
  ByteSize          \* values of a byte; 256 in the code

VARIABLES
  program,          \* the program being run; never changes
  made,             \* the things made so far
  symbolId,         \* newSymbolId's counter
  calls,            \* activations, the innermost last
  returned,         \* what the innermost one has been answered, if anything
  result            \* the last call of the program, and its answer

vars == <<program, made, symbolId, calls, returned, result>>

-----------------------------------------------------------------------------
(* Things.                                                                  *)

None == [type |-> "NONE"]
BoolThing(b) == [type |-> "BOOL", bool |-> b]
IntThing(n) == [type |-> "INT", int |-> n]
StrThing(s) == [type |-> "STR", str |-> s]
FuncThing == [type |-> "FUNC", code |-> "program's"]
FloatThing(n) == [type |-> "FLOAT", float |-> n]
ModuleThing(exports) == [type |-> "MODULE", exports |-> exports]
ListThing == [type |-> "LIST"]
CellThing(n) == [type |-> "CELL", cell |-> n]
ErrorThing == [type |-> "ERROR"]
Tuple(elements) == [type |-> "TUPLE", elements |-> elements]
Native(name) == [type |-> "NATIVE_FUNC", name |-> name]
Symbol(id, arity, nth) == [type |-> "SYMBOL", id |-> id, arity |-> arity, nth |-> nth]

(* initThing gives the symbols of the runtime their ids in this order, from *)
(* where the counter is: it is never set back.  The program reaches not and *)
(* responds_to with arities 1 and 2, call with 0.                           *)
SYMBOLS == <<"+", "-", "*", "/", "==", "!=", "<", "<=", ">", ">=", "and", "or", "not",
             "get", ".", "call", "responds_to", "unpack">>
SYM(name) == program.before + (CHOOSE i \in DOMAIN SYMBOLS : SYMBOLS[i] = name) - 1
ArityOf(name) == CASE name = "not" -> 1 [] name = "call" -> 0 [] OTHER -> 2
Operator(name) == Symbol(SYM(name), ArityOf(name), SYM(name))

Known == program.literals \cup {made[i] : i \in DOMAIN made}
         \cup {Operator(n) : n \in program.operators} \cup {FuncThing}

(* Symbols things are sent to, by the id the code compares.                 *)
Is(symbol, name) == symbol.id = SYM(name)
Among(symbol, names) == \E n \in names : Is(symbol, n)

(* Keys of maps are compared by their low byte (intEq).                     *)
Key(symbol) == symbol.id % ByteSize

-----------------------------------------------------------------------------
(* Answers: a thing, or an error and whether it says that the symbol is not *)
(* one the thing responds to.                                               *)
Answer(thing) == [status |-> "value", thing |-> thing]
Error(why) == [status |-> "error", why |-> why]
Waiting == [status |-> "waiting"]
IsError(answer) == answer.status = "error"

(* typeCheck.                                                               *)
WellTyped(args, types) ==
  Len(args) = Len(types) /\ \A i \in DOMAIN args : args[i].type = types[i]

(* What a thing says it responds to.  (Bools say + and not; the dispatch of *)
(* bool.cpp knows and, or and not.)  The mutant also claims to add tuples.  *)
ClaimsOf(type) ==
  CASE type = "INT" -> {"responds_to", "+", "-", "*", "/", "==", "!=", "<", "<=", ">", ">="}
    [] type = "STR" -> {"+", "==", "!="}
    [] type = "BOOL" -> {"not", "+"}
    [] type = "TUPLE" -> {"responds_to", "==", "!=", "get"}
    [] type = "FLOAT" -> {"+", "-", "*", "/", "==", "!=", "<", "<=", ">", ">="}
    [] type = "MODULE" -> {"."}
    [] type \in {"SYMBOL", "FUNC", "NATIVE_FUNC", "VARARG", "CELL", "ERROR"} -> {"responds_to"}
TupleClaimsAdd(thing, symbol) ==
  IF thing.type = "TUPLE" THEN Among(symbol, ClaimsOf("TUPLE") \cup {"+"})
  ELSE IF thing.type = "OBJECT" THEN Key(symbol) \in DOMAIN thing.map
  ELSE Among(symbol, ClaimsOf(thing.type))
Claims(thing, symbol) ==
  IF thing.type = "OBJECT" THEN Key(symbol) \in DOMAIN thing.map
  ELSE Among(symbol, ClaimsOf(thing.type))

(* SYM_RESPONDS_TO, in every class that answers it.  An int asked about     *)
(* something else than a symbol, or about nothing, goes on and reads what   *)
(* is there as if it were one.                                              *)
RespondsTo(args) ==
  IF Len(args) = 2 /\ args[2].type = "SYMBOL" THEN {Answer(BoolThing(Claims(args[1], args[2])))}
  ELSE IF args[1].type = "INT" THEN {Answer(BoolThing(b)) : b \in BOOLEAN}
  ELSE {Error("type")}

(* Comparisons, which ints and floats have alike.                           *)
Compared(symbol, a, b) ==
  CASE Is(symbol, "==") -> Answer(BoolThing(a = b))
    [] Is(symbol, "!=") -> Answer(BoolThing(a # b))
    [] Is(symbol, "<") -> Answer(BoolThing(a < b))
    [] Is(symbol, "<=") -> Answer(BoolThing(a <= b))
    [] Is(symbol, ">") -> Answer(BoolThing(a > b))
    [] Is(symbol, ">=") -> Answer(BoolThing(a >= b))
    [] OTHER -> Error("responds")

(* Division rounds towards zero; by zero it ends the process.               *)
Abs(a) == IF a < 0 THEN -a ELSE a
Quotient(a, b) ==
  IF (a < 0) = (b < 0) THEN Abs(a) \div Abs(b) ELSE -(Abs(a) \div Abs(b))
IntAnswer(symbol, a, b) ==
  CASE Is(symbol, "+") -> Answer(IntThing(a + b))
    [] Is(symbol, "-") -> Answer(IntThing(a - b))
    [] Is(symbol, "*") -> Answer(IntThing(a * b))
    [] Is(symbol, "/") -> IF b = 0 THEN Error("crash") ELSE Answer(IntThing(Quotient(a, b)))
    [] OTHER -> Compared(symbol, a, b)

(* Arithmetic on floats gives a float; which one, nothing here depends on.  *)
FloatAnswers(symbol, a, b) ==
  IF Among(symbol, {"+", "-", "*", "/"}) THEN {Answer(FloatThing(x)) : x \in {a, b}}
  ELSE {Compared(symbol, a, b)}

StrAnswer(symbol, a, b) ==
  CASE Is(symbol, "+") -> Answer(StrThing(a \o b))
    [] Is(symbol, "==") -> Answer(BoolThing(a = b))
    [] Is(symbol, "!=") -> Answer(BoolThing(a # b))
    [] OTHER -> Error("responds")

BoolAnswer(symbol, args) ==
  CASE Is(symbol, "not") /\ Len(args) = 1 -> Answer(BoolThing(~args[1].bool))
    [] Is(symbol, "not") /\ Len(args) # 1 -> Error("arity")
    [] Is(symbol, "and") /\ WellTyped(args, <<"BOOL", "BOOL">>) ->
         Answer(BoolThing(args[1].bool /\ args[2].bool))
    [] Is(symbol, "or") /\ WellTyped(args, <<"BOOL", "BOOL">>) ->
         Answer(BoolThing(args[1].bool \/ args[2].bool))
    [] OTHER -> Error(IF WellTyped(args, <<"BOOL", "BOOL">>) THEN "responds" ELSE "type")

(* A negative index passes the check, and reads what is before the          *)
(* elements: that the process ends there stands for whatever it does.       *)
GetAnswer(args) ==
  IF ~WellTyped(args, <<"TUPLE", "INT">>) THEN Error("type")
  ELSE LET elements == args[1].elements
           index == args[2].int
       IN CASE index >= Len(elements) -> Error("bounds")
            [] index < 0 -> Error("crash")
            [] OTHER -> Answer(elements[index + 1])

ModuleAnswer(symbol, args) ==
  IF ~WellTyped(args, <<"MODULE", "STR">>) THEN Error("type")
  ELSE IF ~Is(symbol, ".") THEN Error("responds")
  ELSE IF args[2].str \notin DOMAIN args[1].exports THEN Error("export")
  ELSE Answer(args[1].exports[args[2].str])

(* What the classes that answer at once may answer.                         *)
Dispatched(symbol, args) ==
  LET type == args[1].type
  IN CASE type \in {"NONE", "LIST"} -> {Error("call")}
       [] type \notin {"NONE", "LIST"} /\ Is(symbol, "responds_to") -> RespondsTo(args)
       [] type = "INT" /\ ~Is(symbol, "responds_to") ->
            {IF WellTyped(args, <<"INT", "INT">>) THEN IntAnswer(symbol, args[1].int, args[2].int)
             ELSE Error("type")}
       [] type = "FLOAT" /\ ~Is(symbol, "responds_to") ->
            IF WellTyped(args, <<"FLOAT", "FLOAT">>)
            THEN FloatAnswers(symbol, args[1].float, args[2].float) ELSE {Error("type")}
       [] type = "MODULE" /\ ~Is(symbol, "responds_to") -> {ModuleAnswer(symbol, args)}
       [] type = "STR" /\ ~Is(symbol, "responds_to") ->
            {IF WellTyped(args, <<"STR", "STR">>) THEN StrAnswer(symbol, args[1].str, args[2].str)
             ELSE Error("type")}
       [] type = "BOOL" /\ ~Is(symbol, "responds_to") -> {BoolAnswer(symbol, args)}
       [] type = "TUPLE" /\ Is(symbol, "get") -> {GetAnswer(args)}
       [] OTHER -> {Error("responds")}

Compares(symbol, args) == args[1].type = "TUPLE" /\ Among(symbol, {"==", "!="})

-----------------------------------------------------------------------------
(* Activations.                                                             *)

Call(f, args) == [kind |-> "call", f |-> f, args |-> args]
Current == calls[Len(calls)]
Outer == SubSeq(calls, 1, Len(calls) - 1)
In(kind) == calls # <<>> /\ Current.kind = kind /\ returned = Waiting

(* The innermost activation answers, goes on as another one, or makes a     *)
(* call and waits as it is now.  The mutant goes on and stays as well.      *)
Finish(answer) == calls' = Outer /\ returned' = answer
BecomeBoth(activation) == calls' = Append(calls, activation) /\ returned' = Waiting
Become(activation) == calls' = Append(Outer, activation) /\ returned' = Waiting
Enter(activation, call) == calls' = Outer \o <<activation, call>> /\ returned' = Waiting
Aside == UNCHANGED <<program, made, symbolId, result>>

Calling(type) == In("call") /\ Current.f.type = type

(* callFunction on a function of the program.                               *)
FunctionReturns ==
  /\ Calling("FUNC") /\ Current.f = FuncThing
  /\ \E answer \in FunctionAnswers : Finish(answer)
  /\ Aside

(* A symbol whose first argument is no object or comparable tuple.          *)
Arguments == Current.args
WrongArity == Len(Arguments) # Current.f.arity
Hands == Arguments[1].type = "OBJECT"
CallSymbol ==
  /\ Calling("SYMBOL")
  /\ WrongArity \/ ~(Hands \/ Compares(Current.f, Arguments))
  /\ \E answer \in IF WrongArity THEN {Error("arity")} ELSE Dispatched(Current.f, Arguments) :
       Finish(answer)
  /\ Aside

(* A symbol sent to an object: one argument gets the property, more are     *)
(* handed on to it.                                                         *)
CallProperty ==
  /\ Calling("SYMBOL") /\ ~WrongArity /\ Hands
  /\ LET map == Arguments[1].map
         id == Key(Current.f)
     IN CASE id \notin DOMAIN map ->
               \E answer \in IF Is(Current.f, "responds_to") THEN RespondsTo(Arguments)
                             ELSE {Error("responds")} :
                 Finish(answer)
          [] id \in DOMAIN map /\ Len(Arguments) = 1 -> Finish(Answer(map[id]))
          [] OTHER -> Become(Call(map[id], Tail(Arguments)))
  /\ Aside

(* An object that is called calls its call property.  The mutant calls the  *)
(* object again.                                                            *)
CallableSelf(object) == object
Callable(object) == object.map[Key(Operator("call"))]
CallObject ==
  /\ Calling("OBJECT")
  /\ IF Key(Operator("call")) \in DOMAIN Current.f.map
     THEN Become(Call(Callable(Current.f), Arguments))
     ELSE Finish(Error("call"))
  /\ Aside

CallFail ==
  /\ \E type \in {"NONE", "BOOL", "INT", "FLOAT", "STR", "TUPLE", "LIST", "CELL", "MODULE",
                 "ERROR"} : Calling(type)
  /\ Finish(Error("call"))
  /\ Aside

-----------------------------------------------------------------------------
(* Tuples: == and != ask each pair of elements for ==.                      *)
Comparing(all, a, b, i) == [kind |-> "compare", all |-> all, a |-> a, b |-> b, i |-> i]

CompareTuples ==
  /\ Calling("SYMBOL") /\ ~WrongArity /\ Compares(Current.f, Arguments)
  /\ CASE ~WellTyped(Arguments, <<"TUPLE", "TUPLE">>) -> Finish(Error("type"))
       [] OTHER ->
            LET a == Arguments[1].elements
                b == Arguments[2].elements
            IN IF Len(a) # Len(b) THEN Finish(Answer(BoolThing(FALSE)))
               ELSE Become(Comparing(Is(Current.f, "=="), a, b, 1))
  /\ Aside

CompareElement ==
  /\ In("compare")
  /\ LET i == Current.i
     IN IF i > Len(Current.a) THEN Finish(Answer(BoolThing(Current.all)))
        ELSE Enter(Current, Call(Operator("=="), <<Current.a[i], Current.b[i]>>))
  /\ Aside

(* The answer for a pair of elements.  The mutant is done with the first    *)
(* that is as it should be.                                                 *)
Got(kind) == calls # <<>> /\ Current.kind = kind /\ returned # Waiting
DecidesEarly(bool, all) == bool = all
Decides(bool, all) == bool # all
ElementCompared ==
  /\ Got("compare")
  /\ CASE IsError(returned) -> Finish(returned)
       [] ~IsError(returned) /\ returned.thing.type # "BOOL" -> Finish(Error("type"))
       [] OTHER -> IF Decides(returned.thing.bool, Current.all) THEN Finish(returned)
                   ELSE Become([Current EXCEPT !.i = @ + 1])
  /\ Aside

-----------------------------------------------------------------------------
(* The natives that patterns call.                                          *)
CallNative ==
  /\ Calling("NATIVE_FUNC")
  /\ CASE Current.f.name = "assert_equal" ->
            IF Len(Arguments) # 2 THEN Finish(Error("arity"))
            ELSE Enter([kind |-> "assert_equal", args |-> Arguments], Call(Operator("=="), Arguments))
       [] Current.f.name = "unpack_call" ->
            IF Len(Arguments) # 3 THEN Finish(Error("arity"))
            ELSE IF Arguments[3].type # "INT" THEN Finish(Error("type"))
            ELSE Enter([kind |-> "unpack_call", size |-> Arguments[3].int],
                       Call(Operator("unpack"), <<Arguments[1], Arguments[2]>>))
  /\ Aside

AssertedEqual ==
  /\ Got("assert_equal")
  /\ CASE IsError(returned) -> Finish(returned)
       [] returned = Answer(BoolThing(TRUE)) -> Finish(Answer(None))
       [] OTHER -> Finish(Error("assertion"))
  /\ Aside

(* Its mutant takes a tuple of any size.                                    *)
FitsAny(thing, size) == thing.type = "TUPLE"
Fits(thing, size) == thing.type = "TUPLE" /\ Len(thing.elements) = size
UnpackedCall ==
  /\ Got("unpack_call")
  /\ CASE IsError(returned) -> Finish(returned)
       [] ~IsError(returned) /\ Fits(returned.thing, Current.size) -> Finish(returned)
       [] OTHER -> Finish(Error("type"))
  /\ Aside

Step == \/ CallSymbol \/ CallProperty \/ CallObject \/ CallFail \/ CompareTuples
        \/ CompareElement \/ ElementCompared \/ CallNative \/ AssertedEqual \/ UnpackedCall

-----------------------------------------------------------------------------
(* The program makes things and calls them.                                 *)
NoResult == [call |-> Call(None, <<>>), answer |-> Waiting]
Idle == calls = <<>> /\ returned = Waiting /\ result = NoResult
CanMake(kind) == /\ Idle /\ Len(made) < Len(program.makes)
                 /\ program.makes[Len(made) + 1] = kind
Make(thing) == /\ made' = Append(made, thing)
               /\ UNCHANGED <<program, calls, returned, result>>

(* libCreateSymbol keeps the low byte of the id.                            *)
CreateSymbol ==
  /\ CanMake("symbol")
  /\ \E arity \in {1, 2} : Make(Symbol(symbolId % ByteSize, arity, symbolId))
  /\ symbolId' = symbolId + 1

MakeTuple ==
  /\ CanMake("tuple")
  /\ \E a, b \in Known : Make(Tuple(<<a, b>>))
  /\ UNCHANGED symbolId

(* libObject: the last property given for a symbol counts.  (given is kept  *)
(* beside the map for the properties.)  The mutant keeps the first.         *)
ObjectMapFirst(pairs) ==
  [id \in {Key(pairs[i][1]) : i \in DOMAIN pairs} |->
     pairs[CHOOSE i \in DOMAIN pairs : /\ Key(pairs[i][1]) = id
             /\ \A j \in DOMAIN pairs : Key(pairs[j][1]) = id => i <= j][2]]
ObjectMap(pairs) ==
  [id \in {Key(pairs[i][1]) : i \in DOMAIN pairs} |->
     pairs[CHOOSE i \in DOMAIN pairs : /\ Key(pairs[i][1]) = id
             /\ \A j \in DOMAIN pairs : Key(pairs[j][1]) = id => i >= j][2]]
Object(pairs) == [type |-> "OBJECT", map |-> ObjectMap(pairs), given |-> pairs]
Symbols == {t \in Known : t.type = "SYMBOL"}
MakeObject ==
  /\ CanMake("object")
  /\ \E s, t \in Symbols, v, w \in Known, n \in 1..program.pairs :
       LET pairs == SubSeq(<< <<s, v>>, <<t, w>> >>, 1, n)
       IN Make(Object(pairs))
  /\ UNCHANGED symbolId

(* Calls: of symbols and objects, and of natives.  One of the things in a   *)
(* call is the newest; the others have been called before it was made.      *)
Newest == IF made = <<>> THEN Known ELSE {made[Len(made)]}
CallFunction ==
  /\ Idle
  /\ \E f \in Symbols \cup {t \in Known : t.type = "OBJECT"} \cup
              {Native("assert_equal"), Native("unpack_call")} :
       \E args \in {<<a>> : a \in Known} \cup (Known \X Known)
                   \cup (IF f = Native("unpack_call") THEN Known \X Known \X {IntThing(2)} ELSE {}) :
         /\ ({f} \cup {args[i] : i \in DOMAIN args}) \cap Newest # {}
         /\ calls' = <<Call(f, args)>>
         /\ result' = [call |-> Call(f, args), answer |-> Waiting]
  /\ UNCHANGED <<program, made, symbolId, returned>>

Answered ==
  /\ calls = <<>> /\ returned # Waiting
  /\ result' = [result EXCEPT !.answer = returned]
  /\ returned' = Waiting
  /\ UNCHANGED <<program, made, symbolId, calls>>

(* The program goes on with the answer.                                     *)
GoOn ==
  /\ result.answer # Waiting
  /\ result' = NoResult
  /\ UNCHANGED <<program, made, symbolId, calls, returned>>

Init == /\ program \in Programs
        /\ made = <<>>
        /\ symbolId = program.before + Len(SYMBOLS)
        /\ calls = <<>> /\ returned = Waiting
        /\ result = NoResult

Next == \/ CreateSymbol \/ MakeTuple \/ MakeObject \/ CallFunction
        \/ FunctionReturns \/ Step \/ Answered \/ GoOn

Spec == Init /\ [][Next]_vars

(* One thread: what has been called goes on.                                *)
FairSpec == Spec /\ WF_vars(Step) /\ WF_vars(FunctionReturns) /\ WF_vars(Answered)
=============================================================================
