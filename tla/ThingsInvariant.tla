-------------------------- MODULE ThingsInvariant --------------------------
(***************************************************************************)
(* The inductive invariant of InheritanceSpec: there is a set S of all     *)
(* things there are, what they are made of included; every activation      *)
(* keeps what the one below it, or the program, was promised of the answer.*)
(***************************************************************************)
EXTENDS ThingsProperties

-----------------------------------------------------------------------------
(* Things.                                                                  *)

(* Symbols made so far.  The runtime's keep their ids, those a program      *)
(* creates keep the low byte.                                               *)
Identity(n) == IF n < program.before + Len(SYMBOLS) THEN n ELSE n % ByteSize
Created == {Symbol(Identity(n), arity, n) : arity \in 0..2, n \in program.before..(symbolId - 1)}

(* An object: every symbol it was given has the value given last for it.    *)
HoldsLast(t) ==
  /\ DOMAIN t.map = {Key(t.given[i][1]) : i \in DOMAIN t.given}
  /\ \A i \in DOMAIN t.given :
       \E m \in DOMAIN t.given :
         /\ Key(t.given[m][1]) = Key(t.given[i][1])
         /\ t.map[Key(t.given[i][1])] = t.given[m][2]
         /\ \A j \in DOMAIN t.given : Key(t.given[j][1]) = Key(t.given[i][1]) => j <= m
ObjectOf(t, S) == t.type = "OBJECT" /\ t.given \in Seq(Created \X S) /\ HoldsLast(t)

(* Only bind leads to what method puts there.                               *)
BinderUnderBind(map) == \A k \in DOMAIN map : map[k] = Binder => Imported /\ k = Key(Bind)

(* What has been bound by a constructor is in the instance it has made.     *)
Finished(t) ==
  t.self.type = "CELL" =>
    /\ t.self.cell \in DOMAIN cells /\ cells[t.self.cell].type = "OBJECT"
    /\ t \in ValuesOf(cells[t.self.cell])
ConstructorOf(t, S) ==
  /\ IsVararg(t, "constructor") /\ Imported
  /\ t = Constructor(t.object) /\ t.object \in S /\ t.object.type = "OBJECT"
BoundOf(t, S) == IsVararg(t, "bound") /\ t = Bound(t.self) /\ t.self \in S /\ Finished(t)

OfClass(t, S) ==
  \/ Scalar(t) \/ t = Binder \/ ModuleOf(t, S) \/ TupleOf(t, S) \/ t \in Created
  \/ ObjectOf(t, S) /\ BinderUnderBind(t.map)
  \/ ConstructorOf(t, S) \/ BoundOf(t, S)

Atoms == Data \cup {None, FuncThing, Binder} \cup {BoolThing(b) : b \in BOOLEAN}
         \cup {IntThing(n) : n \in Int} \cup {FloatThing(n) : n \in Int}
         \cup {CellThing(n) : n \in Nat} \cup Created
Universe(S) == Atoms \subseteq S /\ \A t \in S : OfClass(t, S)

(* What the program has made: symbols, tuples and objects.                  *)
Makes(S) ==
  /\ program \in Programs
  /\ symbolId \in Int
  /\ symbolId - program.before \in Len(SYMBOLS)..(Len(SYMBOLS) + Len(made))
  /\ made \in Seq(S) /\ Len(made) <= Len(program.makes)
  /\ \A i \in DOMAIN made :
       /\ made[i].type \in {"SYMBOL", "TUPLE", "OBJECT"}
       /\ program.makes[i] = "bind" =>
            made[i] \in Created /\ made[i].nth >= program.before + Len(SYMBOLS)
  /\ \A i, j \in DOMAIN made : program.makes[i] = "bind" /\ program.makes[j] = "bind" => i = j

-----------------------------------------------------------------------------
(* Activations.                                                             *)
Natives == {Native("assert_equal"), Native("unpack_call")}
Calls(S) == [kind : {"call"}, f : S \cup Natives, args : Seq(S) \ {<<>>}]
Comparisons(S) ==
  {a \in [kind : {"compare"}, all : BOOLEAN, a : Seq(S), b : Seq(S), i : Nat \ {0}] :
     Len(a.a) = Len(a.b) /\ a.i <= Len(a.a) + 1}
Assertions(S) == {a \in [kind : {"assert_equal"}, args : Seq(S)] : Len(a.args) = 2}
Unpackings == [kind : {"unpack_call"}, size : Int]

(* A constructor has gone through the first properties of its object: what  *)
(* cannot be bound is as it was, methods have been bound to its cell.       *)
CarriedOver(old, new, cell, S) ==
  /\ new \in S \/ new = Bound(CellThing(cell))
  /\ new = Binder => old = Binder
  /\ IdsFitByte => IF IsMethod(old) THEN IsVararg(new, "bound") ELSE old.type # "OBJECT" => new = old
Halfway(a, S) ==
  LET all == properties(a.object)
  IN /\ Imported /\ a.object.type = "OBJECT"
     /\ a.cell \in DOMAIN cells /\ cells[a.cell] = None
     /\ Len(a.done) + Len(a.todo) = Len(all)
     /\ \A j \in DOMAIN a.todo : a.todo[j] = all[Len(a.done) + j]
     /\ \A j \in DOMAIN a.done :
          /\ a.done[j][1] = all[Len(a.done) + 1 - j][1]
          /\ CarriedOver(all[Len(a.done) + 1 - j][2], a.done[j][2], a.cell, S)
     /\ a.stage = "bound" /\ a.todo # <<>> /\ IdsFitByte => a.todo[1][2].type = "OBJECT"
Constructions(S) ==
  {a \in [kind : {"construct"}, object : S, cell : Nat, stage : {"next", "asked", "bound"},
          todo : Seq(Created \X S),
          done : Seq(Created \X (S \cup {Bound(CellThing(n)) : n \in Nat}))] :
     Halfway(a, S)}
Activations(S) ==
  Calls(S) \cup Comparisons(S) \cup Assertions(S) \cup Unpackings \cup Constructions(S)

(* What has been bound to a cell may be called before a constructor fills   *)
(* the cell, and is no thing among the others then: the cell is one of the  *)
(* program's own, or the constructor waits below the call.                  *)
EarlyCalls(S) ==
  [kind : {"call"}, f : {Bound(t) : t \in {u \in S : u.type = "CELL"}}, args : Seq(S) \ {<<>>}]
IsEarly(n, i) == \/ n \notin DOMAIN cells
                 \/ cells[n] = None /\ IsBeingMade(n, i)

(* An answer may be what a method's bind has just made.                     *)
IsAnswer(answer, S) ==
  \/ answer.status = "error" /\ answer = Error(answer.why)
  \/ answer.status = "value" /\ answer = Answer(answer.thing)
       /\ answer.thing \in S \cup {Bound(x) : x \in S}

Stack(S) ==
  /\ calls \in Seq(Activations(S) \cup EarlyCalls(S))
  /\ \A i \in DOMAIN calls : calls[i] \in Activations(S) \/ IsEarly(calls[i].f.self.cell, i)
  /\ returned = Waiting \/ IsAnswer(returned, S)
  /\ cells \in Seq({None} \cup {t \in S : t.type = "OBJECT"})
  /\ \A i \in DOMAIN calls : calls[i].kind = "call" => i = Len(calls) /\ returned = Waiting
  /\ \A i, j \in DOMAIN calls :
       calls[i].kind = "construct" /\ calls[j].kind = "construct" /\ calls[i].cell = calls[j].cell
         => i = j
  /\ \/ result = NoResult /\ calls = <<>> /\ returned = Waiting
     \/ /\ result = [call |-> result.call, answer |-> result.answer]
        /\ result.call \in Calls(S)
        /\ \/ result.answer = Waiting
           \/ IsAnswer(result.answer, S) /\ calls = <<>> /\ returned = Waiting

-----------------------------------------------------------------------------
(* Promises: what the answer to a call is, whoever waits for it.            *)

(* An object that is asked gives what its map has, or says whether its map  *)
(* has it, or hands the call to what it has.                                *)
LooksUp(call, answer) ==
  LET map == call.args[1].map
      id == Key(call.f)
  IN HasValue(answer) /\ call.f.type = "SYMBOL" /\ call.args[1].type = "OBJECT" =>
       /\ Len(call.args) = 1 => id \in DOMAIN map /\ answer.thing = map[id]
       /\ Len(call.args) = 2 /\ id \notin DOMAIN map =>
            call.args[2].type = "SYMBOL"
              /\ answer.thing = BoolThing(Key(call.args[2]) \in DOMAIN map)
       /\ Len(call.args) = 2 /\ id \in DOMAIN map /\ map[id] = Binder =>
            answer.thing = Bound(call.args[2])

(* Other things say what their class claims.                                *)
Tells(call, answer) ==
  HasValue(answer) /\ call.f.type = "SYMBOL" /\ Is(call.f, "responds_to") /\ Len(call.args) = 2
    /\ call.args[1].type # "OBJECT" /\ call.args[2].type = "SYMBOL" =>
      /\ call.args[1].type \notin {"NONE", "LIST"}
      /\ answer.thing = BoolThing(Claims(call.args[1], call.args[2]))

(* What comes of a cell is bound to it, or is nothing of the library's.     *)
BindsSelf(call, answer) ==
  HasValue(answer) /\ call.f = Binder => Len(call.args) = 1 /\ answer.thing = Bound(call.args[1])
BindsCell(call, answer) ==
  LET last == call.args[Len(call.args)]
  IN HasValue(answer) /\ last.type = "CELL" =>
       answer.thing # Binder /\ (answer.thing.type = "VARARG" => answer.thing = Bound(last))

Instantiates(object, answer) ==
  HasValue(answer) => /\ answer.thing.type = "OBJECT"
                      /\ IdsFitByte => InstanceOf(answer.thing, object)
CreatesOne(call, answer) ==
  /\ IsVararg(call.f, "constructor") => Instantiates(call.f.object, answer)
  /\ Constructs(call.f) => Instantiates(Callable(call.f).object, answer)

Promised(call, answer) ==
  /\ Equates(call, answer) /\ KeepsClaims(call, answer) /\ Matches(call, answer)
  /\ LooksUp(call, answer) /\ Tells(call, answer)
  /\ BindsSelf(call, answer) /\ BindsCell(call, answer) /\ CreatesOne(call, answer)

(* The rest of two tuples is compared as the whole is.                      *)
RestEquates(a, answer) ==
  /\ HasValue(answer) => answer.thing.type = "BOOL"
  /\ ArePlain(a.a) => answer # Error("responds")
  /\ a.all /\ ArePlain(a.a) /\ ArePlain(a.b) /\ answer # Waiting =>
       LET same == \A j \in a.i..Len(a.a) : a.a[j] = a.b[j]
       IN (HasValue(answer) => answer.thing = BoolThing(same)) /\ (same => HasValue(answer))

(* What an activation will answer, and what it needs of the answer that it  *)
(* waits for.                                                               *)
Post(a, answer) ==
  /\ a.kind = "call" => Promised(a, answer)
  /\ a.kind = "compare" => RestEquates(a, answer)
  /\ a.kind = "assert_equal" /\ HasValue(answer) =>
       answer.thing = None /\ (ArePlain(a.args) => a.args[1] = a.args[2])
  /\ a.kind = "unpack_call" /\ HasValue(answer) =>
       answer.thing.type = "TUPLE" /\ Len(answer.thing.elements) = a.size
  /\ a.kind = "construct" => Instantiates(a.object, answer)
Needs(a, answer) ==
  /\ a.kind \in {"compare", "assert_equal", "unpack_call", "construct"}
  /\ a.kind = "compare" =>
       a.i <= Len(a.a) /\ Promised(Call(Operator("=="), <<a.a[a.i], a.b[a.i]>>), answer)
  /\ a.kind = "assert_equal" => Promised(Call(Operator("=="), a.args), answer)
  /\ a.kind = "construct" => a.todo # <<>>
  /\ a.kind = "construct" /\ a.stage = "asked" =>
       Promised(Call(Operator("responds_to"), <<a.todo[1][2], Bind>>), answer)
  /\ a.kind = "construct" /\ a.stage = "bound" =>
       Promised(Call(Bind, <<a.todo[1][2], CellThing(a.cell)>>), answer)
Awaited(i, answer) == IF i = 0 THEN Promised(result.call, answer) ELSE Needs(calls[i], answer)

Promises ==
  /\ \A i \in DOMAIN calls : \A answer : Post(calls[i], answer) => Awaited(i - 1, answer)
  /\ returned # Waiting => Awaited(Len(calls), returned)
  /\ result.answer # Waiting => Promised(result.call, result.answer)

-----------------------------------------------------------------------------
Inv(S) == Universe(S) /\ Makes(S) /\ Stack(S) /\ Promises /\ FirstComesFirst
Invariant == \E S : Inv(S)
=============================================================================
