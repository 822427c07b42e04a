----------------------------- MODULE Inheritance -----------------------------
(***************************************************************************)
(* Classes, as std_lib/std/inheritance.blg makes them of objects: mixin    *)
(* joins objects, class makes an object whose call property constructs     *)
(* instances, method makes a function that the constructor binds to the    *)
(* instance, by way of a cell that holds the instance when it is made.     *)
(* The library is a program for Things, which it extends by its functions. *)
(***************************************************************************)
EXTENDS Things

CONSTANT MaxInstances   \* a program that has made as many makes no more calls

VARIABLE cells      \* what the cells that constructors have made hold

inheritanceVars == <<vars, cells>>

-----------------------------------------------------------------------------
(* The properties of an object, in the order they were put: pairs of the    *)
(* symbol, which has lost its arity, and the value.                         *)
FirstPuts(given) ==
  LET firsts == {i \in DOMAIN given : \A j \in 1..(i - 1) : Key(given[j][1]) # Key(given[i][1])}
  IN [k \in 1..Cardinality(firsts) |->
        CHOOSE i \in firsts : Cardinality({j \in firsts : j <= i}) = k]
properties(object) ==
  LET puts == FirstPuts(object.given)
  IN [k \in DOMAIN puts |->
        LET symbol == object.given[puts[k]][1]
        IN <<Symbol(symbol.id, 0, symbol.nth), object.map[Key(symbol)]>>]

(* mixin puts the properties of its arguments in front of a list, one by    *)
(* one, and makes an object of the list.  The mutant puts them behind.      *)
mixinInOrder(a, b) == Object(properties(a) \o properties(b))
mixin(a, b) ==
  LET put == properties(a) \o properties(b)
  IN Object([i \in DOMAIN put |-> put[Len(put) + 1 - i]])

(* The functions that the library returns, as it makes them varargs or not: *)
(* constructor, a method's bind, and what that answers.                     *)
Constructor(object) == [type |-> "VARARG", code |-> "constructor", object |-> object]
Binder == [type |-> "FUNC", code |-> "bind"]
Bound(self) == [type |-> "VARARG", code |-> "bound", self |-> self]

(* The module's own symbol, when it has been imported.                      *)
Imported == \E i \in DOMAIN made : program.makes[i] = "bind"
Bind == made[CHOOSE i \in DOMAIN made : program.makes[i] = "bind"]

method == Object(<< <<Operator("call"), FuncThing>>, <<Bind, Binder>> >>)
Class(object) == mixin(object, Object(<< <<Operator("call"), Constructor(object)>> >>))

-----------------------------------------------------------------------------
(* The program imports the library, once, and makes methods, mixed objects, *)
(* classes and instances.                                                   *)
KeepCells == UNCHANGED cells
Objects == {made[i] : i \in {j \in DOMAIN made : made[j].type = "OBJECT"}}

ImportInheritance ==
  /\ CanMake("bind") /\ ~Imported
  /\ Make(Symbol(symbolId % ByteSize, 2, symbolId))
  /\ symbolId' = symbolId + 1
  /\ KeepCells

MakeMethod == CanMake("method") /\ Imported /\ Make(method) /\ UNCHANGED symbolId /\ KeepCells

Mix ==
  /\ CanMake("mixin") /\ Imported
  /\ \E a, b \in Objects : Make(mixin(a, b))
  /\ UNCHANGED symbolId /\ KeepCells

MakeClass ==
  /\ CanMake("class") /\ Imported
  /\ \E object \in Objects : Make(Class(object))
  /\ UNCHANGED symbolId /\ KeepCells

(* The answer of a class is kept.                                           *)
IsVararg(thing, code) == thing.type = "VARARG" /\ thing.code = code
Constructs(thing) ==
  /\ thing.type = "OBJECT" /\ Key(Operator("call")) \in DOMAIN thing.map
  /\ IsVararg(Callable(thing), "constructor")
Keep ==
  /\ result.answer.status = "value" /\ Constructs(result.call.f)
  /\ Len(made) < Len(program.makes) /\ program.makes[Len(made) + 1] = "instance"
  /\ made' = Append(made, result.answer.thing)
  /\ result' = NoResult
  /\ UNCHANGED <<program, symbolId, calls, returned>> /\ KeepCells

-----------------------------------------------------------------------------
(* The library's functions, when they are called.                           *)

(* bind answers a vararg, which will call func with what the cell holds     *)
(* then in front of its arguments.                                          *)
CallBind ==
  /\ Calling("FUNC") /\ Current.f = Binder
  /\ Finish(IF Len(Arguments) = 1 THEN Answer(Bound(Arguments[1])) ELSE Error("arity"))
  /\ Aside /\ KeepCells

(* What getCell finds.  Cells made by constructors are numbered from 1; a   *)
(* cell of the program's own holds none.                                    *)
Content(n) == IF n \in DOMAIN cells THEN cells[n] ELSE None

(* With something else than a cell to bind it, getCell fails.               *)
CallBound ==
  /\ Calling("VARARG") /\ Current.f.code = "bound"
  /\ LET self == Current.f.self
     IN IF self.type = "CELL"
        THEN Become(Call(FuncThing, <<Content(self.cell)>> \o Arguments))
        ELSE Finish(Error("type"))
  /\ Aside /\ KeepCells

(* A bind that the program has written itself is given the cell before it   *)
(* is filled, and may bind a method to it and call that at once; so may any *)
(* function with a cell of the program's own.  (It has to pass something:   *)
(* there are no calls without arguments.)                                   *)
BeingBound(n) ==
  Len(calls) > 1 /\ LET below == calls[Len(calls) - 1]
                    IN below.kind = "construct" /\ below.stage = "bound" /\ below.cell = n
BindEarly ==
  /\ Calling("FUNC") /\ Current.f = FuncThing /\ Imported
  /\ Len(Arguments) = 1 /\ Arguments[1].type = "CELL"
  /\ Arguments[1].cell \notin DOMAIN cells \/ BeingBound(Arguments[1].cell)
  /\ Become(Call(Bound(Arguments[1]), Arguments))
  /\ Aside /\ KeepCells

(* The constructor goes through the properties, and asks each value whether *)
(* it responds to bind.  The mutant keeps the value when it has been bound. *)
Constructing(object, cell, stage, todo, done) ==
  [kind |-> "construct", object |-> object, cell |-> cell, stage |-> stage, todo |-> todo,
   done |-> done]
CallConstructor ==
  /\ Calling("VARARG") /\ Current.f.code = "constructor"
  /\ cells' = Append(cells, None)
  /\ LET object == Current.f.object
     IN Become(Constructing(object, Len(cells) + 1, "next", properties(object), <<>>))
  /\ Aside

Value == Head(Current.todo)[2]
WithUnbound(value) == [Current EXCEPT !.stage = "next", !.todo = Tail(@),
                                      !.done = <<Head(Current.todo)>> \o @]
With(value) == [Current EXCEPT !.stage = "next", !.todo = Tail(@),
                               !.done = <<<<Head(Current.todo)[1], value>>>> \o @]
AskProperty ==
  /\ In("construct") /\ Current.todo # <<>>
  /\ Enter([Current EXCEPT !.stage = "asked"], Call(Operator("responds_to"), <<Value, Bind>>))
  /\ Aside /\ KeepCells

PropertyAnswered ==
  /\ Got("construct") /\ Current.stage = "asked"
  /\ CASE IsError(returned) -> Finish(returned)
       [] returned = Answer(BoolThing(TRUE)) ->
            Enter([Current EXCEPT !.stage = "bound"], Call(Bind, <<Value, CellThing(Current.cell)>>))
       [] returned = Answer(BoolThing(FALSE)) -> Become(With(Value))
       [] OTHER -> Finish(Error("bool"))
  /\ Aside /\ KeepCells

PropertyBound ==
  /\ Got("construct") /\ Current.stage = "bound"
  /\ IF IsError(returned) THEN Finish(returned) ELSE Become(With(returned.thing))
  /\ Aside /\ KeepCells

(* The cell is set last.  The mutant leaves the class's object in it.       *)
SelfOfClass(object, created) == object
Self(object, created) == created
Constructed ==
  /\ In("construct") /\ Current.todo = <<>>
  /\ LET created == Object(Current.done)
     IN /\ cells' = [cells EXCEPT ![Current.cell] = Self(Current.object, created)]
        /\ Finish(Answer(created))
  /\ Aside

LibraryStep == \/ CallBind \/ CallBound \/ BindEarly \/ CallConstructor \/ AskProperty
               \/ PropertyAnswered \/ PropertyBound \/ Constructed
LibraryMakes == ImportInheritance \/ MakeMethod \/ Mix \/ MakeClass \/ Keep

-----------------------------------------------------------------------------
InheritanceInit == Init /\ cells = <<>>

InheritanceNext == \/ Next /\ KeepCells /\ (Idle /\ calls' # <<>> => Len(cells) < MaxInstances)
                   \/ LibraryStep
                   \/ LibraryMakes

InheritanceSpec == InheritanceInit /\ [][InheritanceNext]_inheritanceVars

(* One thread, here too.                                                    *)
FairInheritanceSpec ==
  /\ InheritanceSpec
  /\ WF_inheritanceVars(LibraryStep \/ ((Step \/ FunctionReturns \/ Answered) /\ KeepCells))
=============================================================================
