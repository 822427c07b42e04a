-------------------------- MODULE ThingsProperties --------------------------
(***************************************************************************)
(* What is expected of the calls of things, of classes and their instances.*)
(***************************************************************************)
EXTENDS Inheritance

CONSTANTS
  Data,   \* the things programs are given: no symbols, objects or functions of
          \* the library; with them, what is in them
  Plain   \* ints, strs and tuples of plain things

(* The class and the contents of a thing that holds no others.              *)
Scalar(t) ==
  \/ t \in {None, ListThing, ErrorThing, FuncThing}
  \/ t.type = "BOOL" /\ t = BoolThing(t.bool) /\ t.bool \in BOOLEAN
  \/ t.type = "INT" /\ t = IntThing(t.int) /\ t.int \in Int
  \/ t.type = "STR" /\ t = StrThing(t.str)
  \/ t.type = "FLOAT" /\ t = FloatThing(t.float) /\ t.float \in Int
  \/ t.type = "CELL" /\ t = CellThing(t.cell)
ModuleOf(t, S) ==
  t.type = "MODULE" /\ t = ModuleThing(t.exports) /\ \A n \in DOMAIN t.exports : t.exports[n] \in S
TupleOf(t, S) == t.type = "TUPLE" /\ t = Tuple(t.elements) /\ t.elements \in Seq(S)

ASSUME SizeAssumption == ByteSize \in Nat \ {0}
ASSUME DataAssumption == \A t \in Data : Scalar(t) \/ ModuleOf(t, Data) \/ TupleOf(t, Data)
ASSUME PlainAssumption ==
  \A t \in Plain : (t.type \in {"INT", "STR"} /\ Scalar(t)) \/ TupleOf(t, Plain)
ASSUME ProgramsAssumption ==
  \A p \in Programs :
    /\ p.literals \subseteq Data
    /\ p.operators \subseteq {SYMBOLS[i] : i \in DOMAIN SYMBOLS}
    /\ p.makes \in Seq(STRING)
    /\ p.pairs \in {1, 2}
    /\ p.before \in Nat
ASSUME AnswersAssumption ==
  \A a \in FunctionAnswers : (\E t \in Data : a = Answer(t)) \/ a = Error(a.why)

-----------------------------------------------------------------------------
(* Activations and answers are what they are taken for: those that wait     *)
(* have one above them, and nothing is answered twice.                      *)
TypeOK ==
  /\ symbolId - program.before \in Len(SYMBOLS)..(Len(SYMBOLS) + Len(program.makes))
  /\ \A i \in DOMAIN calls :
       /\ calls[i].kind \in {"call", "compare", "assert_equal", "unpack_call", "construct"}
       /\ calls[i].kind = "call" => i = Len(calls) /\ returned = Waiting
       /\ calls[i].kind = "construct" => calls[i].cell \in DOMAIN cells
  /\ returned.status \in {"waiting", "value", "error"}
  /\ \A i \in DOMAIN cells : cells[i].type \in {"NONE", "OBJECT"}
  /\ result.answer # Waiting => calls = <<>> /\ returned = Waiting

(* What is said of a call and its answer.                                   *)
HasValue(answer) == answer.status = "value"
Asks(call, name) == call.f = Operator(name)
ArePlain(args) == \A i \in DOMAIN args : args[i] \in Plain

(* Equality is structural: ints, strs and tuples of them are == exactly     *)
(* when they are the same, and comparing one with itself does not fail      *)
(* (TupleThing::dispatch, by one further call for every element).           *)
Equates(call, answer) ==
  Asks(call, "==") /\ answer # Waiting /\ Len(call.args) = 2 /\ ArePlain(call.args) =>
    /\ HasValue(answer) => answer.thing = BoolThing(call.args[1] = call.args[2])
    /\ call.args[1] = call.args[2] => HasValue(answer)
EqualityIsStructural == Equates(result.call, result.answer)

(* An object knows the symbols it was made with and no others, told apart   *)
(* by when they were created, and holds what was last given for each, as    *)
(* long as the ids of the symbols do not come round to the same byte        *)
(* (libObject, ObjectThing::dispatch, newSymbolId).                         *)
IdsFitByte == symbolId - program.before <= ByteSize
GivenTo(object, symbol) == {i \in DOMAIN object.given : object.given[i][1].nth = symbol.nth}
Overrides(object) == \E i \in DOMAIN object.given : object.given[i][1].nth = SYM("responds_to")
KnowsItsSymbols(call, answer) ==
  HasValue(answer) /\ call.args[1].type = "OBJECT" =>
    /\ Asks(call, "responds_to") /\ Len(call.args) = 2 /\ ~Overrides(call.args[1]) =>
         answer.thing = BoolThing(GivenTo(call.args[1], call.args[2]) # {})
    /\ call.f.type = "SYMBOL" /\ Len(call.args) = 1 =>
         LET given == GivenTo(call.args[1], call.f)
         IN \E i \in given : /\ answer.thing = call.args[1].given[i][2]
                             /\ \A j \in given : j <= i
ObjectsKnowTheirSymbols == IdsFitByte => KnowsItsSymbols(result.call, result.answer)

(* What says it responds to a symbol does, however it is asked: numbers,    *)
(* strings, tuples of them, modules, all that only know symbolDispatch, and *)
(* bools, but for +, of which they say so and do not: bool.cpp:37 and 69.   *)
Steady == {"SYMBOL", "FUNC", "FLOAT", "MODULE", "CELL", "ERROR", "VARARG"}
KeepsClaims(call, answer) ==
  LET asked == call.args[1]
      keeps == \/ asked \in Plain \/ asked.type \in Steady
               \/ asked.type = "BOOL" /\ ~Is(call.f, "+")
  IN call.f.type = "SYMBOL" /\ keeps /\ Claims(asked, call.f) => answer # Error("responds")
ClaimsAreKept == KeepsClaims(result.call, result.answer)

(* What a pattern goes on with is what it matched: unpack_call answers with *)
(* a tuple of the size it was given, assert_equal only if the two are the   *)
(* same, whatever functions and objects they went through.                  *)
Matches(call, answer) ==
  HasValue(answer) =>
    /\ call.f = Native("unpack_call") =>
         answer.thing.type = "TUPLE" /\ Len(answer.thing.elements) = call.args[3].int
    /\ call.f = Native("assert_equal") =>
         answer.thing = None /\ (ArePlain(call.args) => call.args[1] = call.args[2])
PatternsGetWhatTheyAskFor == Matches(result.call, result.answer)

(* Every call is answered: objects hand calls on to things older than       *)
(* themselves only, tuples compare things inside them.                      *)
CallsAreAnswered == calls # <<>> ~> calls = <<>>

(* A method knows the instance it is a method of: when what bind made for a *)
(* constructor's cell is called, the cell holds the finished instance that  *)
(* has it, also where the instance has been mixed into another object, or   *)
(* none, but that only while the constructor of this very cell waits below  *)
(* the call: a bind of the program's own has called it too early.  What is  *)
(* bound to a cell of the program's own is no method of an instance         *)
(* (method, class).  Programs set no cells here, and a bind of theirs keeps *)
(* the cell it is given no longer than its call.                            *)
ValuesOf(object) == {object.map[k] : k \in DOMAIN object.map}
IsBeingMade(n, i) == \E j \in 1..(i - 1) : calls[j].kind = "construct" /\ calls[j].cell = n
MethodsKnowTheirInstance ==
  \A i \in DOMAIN calls :
    calls[i].kind = "call" /\ IsVararg(calls[i].f, "bound") /\ calls[i].f.self.type = "CELL" =>
      LET n == calls[i].f.self.cell
      IN \/ n \notin DOMAIN cells
         \/ cells[n] = None /\ IsBeingMade(n, i)
         \/ cells[n].type = "OBJECT" /\ calls[i].f \in ValuesOf(cells[n])

(* An instance answers for what its class was made of: it has the same      *)
(* symbols, its methods bound, and what cannot be bound as it is, whatever  *)
(* the values answered when they were asked (constructor).  Only what says  *)
(* itself which symbols it responds to may keep bind to itself.             *)
IsMethod(thing) == thing.type = "OBJECT" /\ Binder \in ValuesOf(thing) /\ ~Overrides(thing)
InstanceOf(instance, object) ==
  /\ instance.type = "OBJECT" /\ DOMAIN instance.map = DOMAIN object.map
  /\ \A k \in DOMAIN object.map :
       LET value == instance.map[k]
       IN IF IsMethod(object.map[k])
          THEN IsVararg(value, "bound")
          ELSE object.map[k].type # "OBJECT" => value = object.map[k]
Creates(call, answer) ==
  Constructs(call.f) /\ HasValue(answer) => InstanceOf(answer.thing, Callable(call.f).object)
InstancesAreOfTheirClass == IdsFitByte => Creates(result.call, result.answer)

(* What is mixed from two objects has what either of them has, and of what  *)
(* both have, what the first has; a class has what its object has, its call *)
(* included, if it has one (mixin, class).                                  *)
Joined(first, second) ==
  [k \in DOMAIN first \cup DOMAIN second |-> IF k \in DOMAIN first THEN first[k] ELSE second[k]]
Earlier(i) == {made[j] : j \in {k \in 1..(i - 1) : made[k].type = "OBJECT"}}
FirstComesFirst ==
  \A i \in DOMAIN made :
    /\ program.makes[i] = "mixin" =>
         \E a, b \in Earlier(i) : made[i].map = Joined(a.map, b.map)
    /\ program.makes[i] = "class" =>
         \E a \in Earlier(i) :
           made[i].map = Joined(a.map, [k \in {Key(Operator("call"))} |-> Constructor(a)])

-----------------------------------------------------------------------------
(* What the tests say, and the code does not do.                            *)

(* (1, 'hello') != (1, 'world') (tuple.blg:2): tuples of different elements *)
(* are not equal.  != looks for a pair of elements that is ==.              *)
DifferentIsNotEqual ==
  LET args == result.call.args
  IN Asks(result.call, "!=") /\ Len(args) = 2 /\ ArePlain(args) /\ HasValue(result.answer)
       /\ args[1] # args[2] => result.answer.thing = BoolThing(TRUE)
=============================================================================
