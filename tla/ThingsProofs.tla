---------------------------- MODULE ThingsProofs ----------------------------
(***************************************************************************)
(* Proofs about Inheritance: the invariant of ThingsInvariant, and with it *)
(* what ThingsProperties says of calls, classes and instances.             *)
(***************************************************************************)
EXTENDS ThingsData

-----------------------------------------------------------------------------
(* The things there are.                                                    *)

(* A thing of a class has the contents of the class.                        *)
LEMMA Classes ==
  ASSUME NEW S, Universe(S), NEW t \in S, program.before \in Nat, symbolId \in Nat
  PROVE  /\ t.type \in {"NONE", "LIST", "ERROR", "FUNC", "BOOL", "INT", "STR", "FLOAT", "CELL",
                        "MODULE", "TUPLE", "SYMBOL", "OBJECT", "VARARG"}
         /\ t.type = "NONE" => t = None
         /\ t.type = "FUNC" => t = FuncThing \/ t = Binder
         /\ t.type = "BOOL" => t = BoolThing(t.bool) /\ t.bool \in BOOLEAN
         /\ t.type = "INT" => t = IntThing(t.int) /\ t.int \in Int
         /\ t.type = "STR" => t = StrThing(t.str)
         /\ t.type = "FLOAT" => t = FloatThing(t.float) /\ t.float \in Int
         /\ t.type = "CELL" => t = CellThing(t.cell)
         /\ t.type = "MODULE" => ModuleOf(t, S)
         /\ t.type = "TUPLE" => TupleOf(t, S)
         /\ t.type = "SYMBOL" => t \in Created
         /\ t.type = "OBJECT" => ObjectOf(t, S) /\ BinderUnderBind(t.map)
         /\ t.type = "VARARG" => ConstructorOf(t, S) \/ BoundOf(t, S)
<1>1. OfClass(t, S)  BY DEF Universe
<1>2. CASE t \in {None, ListThing, ErrorThing, FuncThing, Binder}
  BY <1>2 DEF None, ListThing, ErrorThing, FuncThing, Binder
<1>3. CASE Scalar(t) /\ t \notin {None, ListThing, ErrorThing, FuncThing}
  BY <1>3 DEF Scalar
<1>4. CASE ModuleOf(t, S)  BY <1>4 DEF ModuleOf
<1>5. CASE TupleOf(t, S)  BY <1>5 DEF TupleOf
<1>6. CASE t \in Created
  <2>1. t.type = "SYMBOL"  BY <1>6, CreatedFacts
  <2> QED  BY <2>1, <1>6
<1>7. CASE ObjectOf(t, S) /\ BinderUnderBind(t.map)
  <2>1. t.type = "OBJECT"  BY <1>7 DEF ObjectOf
  <2> QED  BY <2>1, <1>7
<1>8. CASE ConstructorOf(t, S) \/ BoundOf(t, S)
  <2>1. t.type = "VARARG"  BY <1>8 DEF ConstructorOf, BoundOf, IsVararg
  <2> QED  BY <2>1, <1>8
<1> QED  BY <1>1, <1>2, <1>3, <1>4, <1>5, <1>6, <1>7, <1>8 DEF OfClass

(* A thing stays one as others come.                                        *)
LEMMA ClassesGrow ==
  ASSUME NEW S, NEW T, S \subseteq T, NEW t, OfClass(t, S)
  PROVE  OfClass(t, T)
<1>1. CASE Scalar(t) \/ t = Binder \/ t \in Created  BY <1>1 DEF OfClass
<1>2. CASE ModuleOf(t, S)  BY <1>2 DEF OfClass, ModuleOf
<1>3. CASE TupleOf(t, S)
  <2>1. t.elements \in Seq(T)  BY <1>3, SeqGrows DEF TupleOf
  <2> QED  BY <2>1, <1>3 DEF OfClass, TupleOf
<1>4. CASE ObjectOf(t, S) /\ BinderUnderBind(t.map)
  <2>1. Created \X S \subseteq Created \X T  OBVIOUS
  <2>2. t.given \in Seq(Created \X T)  BY <1>4, <2>1, SeqGrows DEF ObjectOf
  <2> QED  BY <2>2, <1>4 DEF OfClass, ObjectOf
<1>5. CASE ConstructorOf(t, S)  BY <1>5 DEF OfClass, ConstructorOf
<1>6. CASE BoundOf(t, S)  BY <1>6 DEF OfClass, BoundOf
<1> QED  BY <1>1, <1>2, <1>3, <1>4, <1>5, <1>6 DEF OfClass

(* So do answers, and activations.                                          *)
LEMMA AnswersGrow ==
  ASSUME NEW S, NEW T, S \subseteq T, NEW answer, IsAnswer(answer, S)
  PROVE  IsAnswer(answer, T)
BY DEF IsAnswer

LEMMA ActivationsGrow ==
  ASSUME NEW S, NEW T, S \subseteq T
  PROVE  /\ Calls(S) \subseteq Calls(T) /\ Activations(S) \subseteq Activations(T)
         /\ EarlyCalls(S) \subseteq EarlyCalls(T)
<1>1. \A s \in Seq(S) : s \in Seq(T)  BY SeqGrows
<1>2. Calls(S) \subseteq Calls(T)  BY <1>1 DEF Calls
<1>3. Comparisons(S) \subseteq Comparisons(T)  BY <1>1 DEF Comparisons
<1>4. Assertions(S) \subseteq Assertions(T)  BY <1>1 DEF Assertions
<1>5. Constructions(S) \subseteq Constructions(T)
  <2> DEFINE Own == {Bound(CellThing(n)) : n \in Nat}
  <2>1. Created \X S \subseteq Created \X T /\ Created \X (S \cup Own) \subseteq Created \X (T \cup Own)
    OBVIOUS
  <2>2. \A s \in Seq(Created \X S) : s \in Seq(Created \X T)  BY <2>1, SeqGrows
  <2>3. \A s \in Seq(Created \X (S \cup Own)) : s \in Seq(Created \X (T \cup Own))
    BY <2>1, SeqGrows
  <2>4. \A old, new, cell : CarriedOver(old, new, cell, S) => CarriedOver(old, new, cell, T)
    BY DEF CarriedOver
  <2>5. \A a : Halfway(a, S) => Halfway(a, T)  BY <2>4 DEF Halfway
  <2> QED  BY <2>2, <2>3, <2>5 DEF Constructions
<1>6. EarlyCalls(S) \subseteq EarlyCalls(T)  BY <1>1 DEF EarlyCalls
<1> QED  BY <1>2, <1>3, <1>4, <1>5, <1>6 DEF Activations

(* And all that is in progress.                                             *)
LEMMA StackGrows ==
  ASSUME NEW S, NEW T, S \subseteq T, Stack(S)
  PROVE  Stack(T)
<1>1. /\ calls \in Seq(Activations(T) \cup EarlyCalls(T))
      /\ \A i \in DOMAIN calls : calls[i] \in Activations(T) \/ IsEarly(calls[i].f.self.cell, i)
  <2>1. Activations(S) \cup EarlyCalls(S) \subseteq Activations(T) \cup EarlyCalls(T)
    BY ActivationsGrow
  <2> QED  BY <2>1, ActivationsGrow, SeqGrows DEF Stack
<1>2. cells \in Seq({None} \cup {u \in T : u.type = "OBJECT"})
  <2>1. {None} \cup {u \in S : u.type = "OBJECT"} \subseteq {None} \cup {u \in T : u.type = "OBJECT"}
    OBVIOUS
  <2> QED  BY <2>1, SeqGrows DEF Stack
<1>3. returned = Waiting \/ IsAnswer(returned, T)  BY AnswersGrow DEF Stack
<1>4. IsAnswer(result.answer, S) => IsAnswer(result.answer, T)  BY AnswersGrow
<1>5. result.call \in Calls(S) => result.call \in Calls(T)  BY ActivationsGrow
<1> QED  BY <1>1, <1>2, <1>3, <1>4, <1>5 DEF Stack

(* The invariant may take in any thing made of what there is.               *)
LEMMA InvGrows ==
  ASSUME NEW S, Inv(S), NEW t, OfClass(t, S)
  PROVE  Inv(S \cup {t})
<1> DEFINE T == S \cup {t}
<1>1. S \subseteq T  OBVIOUS
<1>2. Universe(T)
  <2>1. \A u \in S : OfClass(u, T)  BY <1>1, ClassesGrow DEF Inv, Universe
  <2>2. OfClass(t, T)  BY <1>1, ClassesGrow
  <2> QED  BY <2>1, <2>2 DEF Inv, Universe
<1> HIDE DEF T
<1>3. Makes(T)
  <2>1. made \in Seq(T)  BY <1>1, SeqGrows DEF Inv, Makes
  <2> QED  BY <2>1 DEF Inv, Makes
<1>4. Stack(T)  BY <1>1, StackGrows DEF Inv
<1>5. Inv(T)  BY <1>2, <1>3, <1>4 DEF Inv
<1> QED  BY <1>5 DEF T

-----------------------------------------------------------------------------
(* While calls are answered, the program makes nothing: what is promised of *)
(* a call stays the same.                                                   *)
Still == program' = program /\ made' = made /\ symbolId' = symbolId

(* Symbols are the same, and what classes claim of them.                    *)
LEMMA StillSymbols ==
  ASSUME Still
  PROVE  /\ \A name : Operator(name)' = Operator(name)
         /\ \A s, name : Is(s, name)' <=> Is(s, name)
         /\ \A t, s : Claims(t, s)' = Claims(t, s)
         /\ Created' = Created /\ Bind' = Bind /\ (Imported' <=> Imported)
         /\ (IdsFitByte' <=> IdsFitByte)
<1>1. \A name : SYM(name)' = SYM(name)  BY DEF SYM, Still
<1>2. \A name : Operator(name)' = Operator(name)  BY <1>1 DEF Operator, Symbol, ArityOf
<1>3. \A s, name : Is(s, name)' <=> Is(s, name)  BY <1>1 DEF Is
<1>4. \A s, names : Among(s, names)' = Among(s, names)  BY <1>1 DEF Among, Is
<1>5. \A t, s : Claims(t, s)' = Claims(t, s)  BY <1>4 DEF Claims, Key
<1>6. Created' = Created  BY DEF Created, Identity, Still
<1>7. Bind' = Bind /\ (Imported' <=> Imported)  BY DEF Bind, Imported, Still
<1>8. IdsFitByte' <=> IdsFitByte  BY DEF IdsFitByte, Still
<1> QED  BY <1>2, <1>3, <1>5, <1>6, <1>7, <1>8

(* So is what instances owe their classes.                                  *)
LEMMA StillCarriedOver ==
  ASSUME Still
  PROVE  /\ \A t : IsMethod(t)' <=> IsMethod(t)
         /\ \A t, u : InstanceOf(t, u)' <=> InstanceOf(t, u)
         /\ \A t : Constructs(t)' <=> Constructs(t)
         /\ \A t : Callable(t)' = Callable(t)
         /\ \A t, answer : Instantiates(t, answer)' <=> Instantiates(t, answer)
         /\ \A old, new, cell, S : CarriedOver(old, new, cell, S)' <=> CarriedOver(old, new, cell, S)
<1>1. \A t : Overrides(t)' <=> Overrides(t)  BY DEF Overrides, SYM, Still
<1>2. \A t : IsMethod(t)' <=> IsMethod(t)  BY <1>1 DEF IsMethod, ValuesOf, Binder
<1>3. \A t, u : InstanceOf(t, u)' <=> InstanceOf(t, u)  BY <1>2 DEF InstanceOf, IsVararg
<1>4. \A t : Callable(t)' = Callable(t)  BY StillSymbols DEF Callable, Key
<1>5. \A t : Constructs(t)' <=> Constructs(t)  BY StillSymbols, <1>4 DEF Constructs, Key, IsVararg
<1>6. \A t, answer : Instantiates(t, answer)' <=> Instantiates(t, answer)
  BY <1>3, StillSymbols DEF Instantiates, HasValue
<1>7. \A old, new, cell, S : CarriedOver(old, new, cell, S)' <=> CarriedOver(old, new, cell, S)
  BY <1>2, StillSymbols DEF CarriedOver, IsVararg, Binder, Bound, CellThing
<1> QED  BY <1>2, <1>3, <1>4, <1>5, <1>6, <1>7

(* So is what is promised of calls, and owed by activations.                *)
LEMMA StillPromised ==
  ASSUME Still
  PROVE  /\ \A call, answer : Promised(call, answer)' <=> Promised(call, answer)
         /\ \A a, answer : Post(a, answer)' <=> Post(a, answer)
         /\ \A a, answer : Needs(a, answer)' <=> Needs(a, answer)
<1>1. \A call, answer : Equates(call, answer)' <=> Equates(call, answer)
  BY StillSymbols DEF Equates, Asks
<1>2. \A call, answer : KeepsClaims(call, answer)' <=> KeepsClaims(call, answer)
  BY StillSymbols DEF KeepsClaims
<1>3. \A call, answer : Matches(call, answer)' <=> Matches(call, answer)
  BY DEF Matches
<1>4. \A call, answer : LooksUp(call, answer)' <=> LooksUp(call, answer)
  BY DEF LooksUp
<1>5. \A call, answer : Tells(call, answer)' <=> Tells(call, answer)
  <2> SUFFICES ASSUME NEW call, NEW answer PROVE Tells(call, answer)' <=> Tells(call, answer)
    OBVIOUS
  <2>1. /\ Claims(call.args[1], call.args[2])' = Claims(call.args[1], call.args[2])
        /\ Is(call.f, "responds_to")' <=> Is(call.f, "responds_to")
    BY StillSymbols
  <2>2. BoolThing(Claims(call.args[1], call.args[2]))' = BoolThing(Claims(call.args[1], call.args[2]))
    BY <2>1 DEF BoolThing
  <2> QED  BY <2>1, <2>2 DEF Tells, HasValue
<1>6. \A call, answer : BindsSelf(call, answer)' <=> BindsSelf(call, answer)
  BY DEF BindsSelf, HasValue, Binder, Bound
<1>7. \A call, answer : BindsCell(call, answer)' <=> BindsCell(call, answer)
  BY DEF BindsCell, HasValue, Binder, Bound
<1>8. \A call, answer : CreatesOne(call, answer)' <=> CreatesOne(call, answer)
  BY StillCarriedOver DEF CreatesOne, IsVararg
<1>9. \A call, answer : Promised(call, answer)' <=> Promised(call, answer)
  BY <1>1, <1>2, <1>3, <1>4, <1>5, <1>6, <1>7, <1>8 DEF Promised
<1>10. ASSUME NEW a, NEW answer PROVE Post(a, answer)' <=> Post(a, answer)
  <2>1. RestEquates(a, answer)' <=> RestEquates(a, answer)
    BY DEF RestEquates, HasValue, ArePlain, BoolThing, Error, Waiting
  <2>2. Promised(a, answer)' <=> Promised(a, answer)  BY <1>9
  <2>3. Instantiates(a.object, answer)' <=> Instantiates(a.object, answer)  BY StillCarriedOver
  <2> QED  BY <2>1, <2>2, <2>3 DEF Post, HasValue, None, ArePlain
<1>11. ASSUME NEW a, NEW answer PROVE Needs(a, answer)' <=> Needs(a, answer)
  <2> DEFINE C == Call(Operator("=="), <<a.a[a.i], a.b[a.i]>>)
             D == Call(Operator("=="), a.args)
             E == Call(Operator("responds_to"), <<a.todo[1][2], Bind>>)
             F == Call(Bind, <<a.todo[1][2], CellThing(a.cell)>>)
  <2>1. C' = C /\ D' = D /\ E' = E /\ F' = F  BY StillSymbols DEF Call, CellThing
  <2>2. \A c : Promised(c, answer)' <=> Promised(c, answer)  BY <1>9
  <2>3. /\ Promised(C, answer)' <=> Promised(C, answer)
        /\ Promised(D, answer)' <=> Promised(D, answer)
        /\ Promised(E, answer)' <=> Promised(E, answer)
        /\ Promised(F, answer)' <=> Promised(F, answer)
    BY <2>1, <2>2
  <2> QED  BY <2>3 DEF Needs, Call, CellThing
<1> QED  BY <1>9, <1>10, <1>11

(* What a cell holds in the end it keeps, and constructors that are not the *)
(* innermost activation find theirs as it was.                              *)
CellsKept(S) ==
  /\ cells' \in Seq({None} \cup {t \in S : t.type = "OBJECT"})
  /\ \A c \in DOMAIN cells : c \in DOMAIN cells' /\ (cells[c].type = "OBJECT" => cells'[c] = cells[c])
  /\ \A i \in 1..(Len(calls) - 1) :
       calls[i].kind = "construct" => cells'[calls[i].cell] = cells[calls[i].cell]

(* Things stay what they are as symbols, and the library, come.             *)
Grows ==
  /\ program' = program /\ Created \subseteq Created'
  /\ Imported => Imported' /\ Bind' = Bind
  /\ \A c \in DOMAIN cells : c \in DOMAIN cells' /\ (cells[c].type = "OBJECT" => cells'[c] = cells[c])

(* Also where a cell has been set, or made.                                 *)
LEMMA ClassStays ==
  ASSUME NEW S, NEW T, S \subseteq T, Grows, NEW t, OfClass(t, S)
  PROVE  OfClass(t, T)'
<1>1. CASE Scalar(t) \/ t = Binder \/ t \in Created  BY <1>1 DEF OfClass, Grows
<1>2. CASE ModuleOf(t, S)  BY <1>2 DEF OfClass, ModuleOf
<1>3. CASE TupleOf(t, S)
  <2>1. t.elements \in Seq(T)  BY <1>3, SeqGrows DEF TupleOf
  <2> QED  BY <2>1, <1>3 DEF OfClass, TupleOf
<1>4. CASE ObjectOf(t, S) /\ BinderUnderBind(t.map)
  <2>1. Created \X S \subseteq Created' \X T  BY DEF Grows
  <2>2. t.given \in Seq(Created' \X T)  BY <1>4, <2>1, SeqGrows DEF ObjectOf
  <2>3. ObjectOf(t, T)'  BY <1>4, <2>2 DEF ObjectOf, HoldsLast, Key
  <2>4. BinderUnderBind(t.map)'  BY <1>4 DEF BinderUnderBind, Binder, Key, Grows
  <2> QED  BY <2>3, <2>4 DEF OfClass
<1>5. CASE ConstructorOf(t, S)  BY <1>5 DEF OfClass, ConstructorOf, Grows
<1>6. CASE BoundOf(t, S)
  <2>1. Finished(t)'  BY <1>6 DEF BoundOf, Finished, Grows, ValuesOf
  <2> QED  BY <2>1, <1>6 DEF OfClass, BoundOf
<1> QED  BY <1>1, <1>2, <1>3, <1>4, <1>5, <1>6 DEF OfClass

(* What has been mixed stays as it is.                                      *)
LEMMA StillFirst ==
  ASSUME Still, FirstComesFirst
  PROVE  FirstComesFirst'
<1>1. Key(Operator("call"))' = Key(Operator("call"))  BY StillSymbols DEF Key
<1>2. \A i : Earlier(i)' = Earlier(i)  BY DEF Earlier, Still
<1>3. \A a : Joined(a.map, [k \in {Key(Operator("call"))} |-> Constructor(a)])'
               = Joined(a.map, [k \in {Key(Operator("call"))} |-> Constructor(a)])
  BY <1>1 DEF Joined, Constructor
<1>4. \A a, b : Joined(a.map, b.map)' = Joined(a.map, b.map)  BY DEF Joined
<1> QED  BY <1>2, <1>3, <1>4 DEF FirstComesFirst, Still

(* All things stay things, of the same universe.                            *)
LEMMA StillUniverse ==
  ASSUME NEW S, Inv(S), Still, CellsKept(S)
  PROVE  Universe(S)' /\ Makes(S)' /\ FirstComesFirst'
<1>1. Created' = Created /\ Bind' = Bind /\ (Imported' <=> Imported)  BY StillSymbols
<1>2. Atoms' = Atoms  BY <1>1 DEF Atoms, None, FuncThing, Binder, BoolThing, IntThing, FloatThing, CellThing
<1>3. \A t \in S : OfClass(t, S)'
  <2>1. Grows  BY <1>1 DEF Grows, Still, CellsKept
  <2> QED  BY <2>1, ClassStays DEF Inv, Universe
<1>4. Universe(S)'  BY <1>2, <1>3 DEF Inv, Universe
<1>5. Makes(S)'  BY <1>1 DEF Inv, Makes, Still
<1>6. FirstComesFirst'  BY StillFirst DEF Inv
<1> QED  BY <1>4, <1>5, <1>6

(* An element of a sequence.                                                *)
LEMMA ElementOf ==
  ASSUME NEW S, NEW s \in Seq(S), NEW i \in 1..Len(s)
  PROVE  s[i] \in S
OBVIOUS

(* A sequence of elements of a set.                                         *)
LEMMA SeqOf ==
  ASSUME NEW S, NEW T, NEW s \in Seq(S), \A i \in DOMAIN s : s[i] \in T
  PROVE  s \in Seq(T)
OBVIOUS

(* Activations stay activations, as long as their cells do.                 *)
LEMMA ActivationsStill ==
  ASSUME NEW S, Still
  PROVE  /\ Calls(S)' = Calls(S) /\ EarlyCalls(S)' = EarlyCalls(S)
         /\ \A a \in Activations(S) :
              (a.kind = "construct" => a.cell \in DOMAIN cells' /\ cells'[a.cell] = cells[a.cell])
                => a \in Activations(S)'
<1>1. Calls(S)' = Calls(S) /\ EarlyCalls(S)' = EarlyCalls(S)
  BY DEF Calls, Natives, Native, EarlyCalls, Bound
<1>2. Comparisons(S)' = Comparisons(S)  BY DEF Comparisons
<1>3. Assertions(S)' = Assertions(S)  BY DEF Assertions
<1>4. Unpackings' = Unpackings  BY DEF Unpackings
<1>5. ASSUME NEW a \in Constructions(S), a.cell \in DOMAIN cells', cells'[a.cell] = cells[a.cell]
      PROVE  a \in Constructions(S)'
  <2>1. Halfway(a, S)
    BY DEF Constructions
  <2>2. Halfway(a, S)'
    <3>1. properties(a.object)' = properties(a.object)
      BY DEF properties, FirstPuts, Key, Symbol
    <3> QED  BY <2>1, <3>1, <1>5, StillSymbols, StillCarriedOver DEF Halfway, None
  <2> QED  BY <2>2, StillSymbols DEF Constructions, Bound, CellThing
<1>6. \A a \in Constructions(S) : a.kind = "construct"  BY DEF Constructions
<1>7. \A a \in Activations(S) :
        (a.kind = "construct" => a.cell \in DOMAIN cells' /\ cells'[a.cell] = cells[a.cell])
          => a \in Activations(S)'
  BY <1>1, <1>2, <1>3, <1>4, <1>5, <1>6 DEF Activations
<1> QED  BY <1>1, <1>7

-----------------------------------------------------------------------------
(* Moves of the innermost activation.                                       *)

(* What activations, and an answer, are due to those that wait.             *)
Due(c, r) ==
  /\ \A i \in DOMAIN c : \A answer : Post(c[i], answer) =>
       (i = 1 => Promised(result.call, answer)) /\ (i # 1 => Needs(c[i - 1], answer))
  /\ r # Waiting =>
       (Len(c) = 0 => Promised(result.call, r)) /\ (Len(c) # 0 => Needs(c[Len(c)], r))

(* Promises that are due to all that wait are kept.                         *)
LEMMA PromisesStill ==
  ASSUME NEW S, NEW c \in Seq(S), NEW r, Still, UNCHANGED result, calls' = c, returned' = r, Due(c, r),
         result.answer = Waiting
  PROVE  Promises'
<1>1. ASSUME NEW i \in DOMAIN c, NEW answer, Post(c[i], answer)'
      PROVE  Awaited(i - 1, answer)'
  <2>1. Post(c[i], answer)  BY <1>1, StillPromised
  <2>2. CASE i = 1
    <3>1. Promised(result.call, answer)  BY <2>1, <2>2 DEF Due
    <3>2. Promised(result.call, answer)'  BY <3>1, StillPromised
    <3> QED  BY <2>2, <3>2 DEF Awaited
  <2>3. CASE i # 1
    <3>1. Needs(c[i - 1], answer)  BY <2>1, <2>3 DEF Due
    <3>2. Needs(c[i - 1], answer)'  BY <3>1, StillPromised
    <3> QED  BY <2>3, <3>2 DEF Awaited
  <2> QED  BY <2>2, <2>3
<1>2. ASSUME r # Waiting PROVE Awaited(Len(c), r)'
  <2>1. CASE Len(c) = 0
    <3>1. Promised(result.call, r)  BY <1>2, <2>1 DEF Due
    <3>2. Promised(result.call, r)'  BY <3>1, StillPromised
    <3> QED  BY <2>1, <3>2 DEF Awaited
  <2>2. CASE Len(c) # 0
    <3>1. Needs(c[Len(c)], r)  BY <1>2, <2>2 DEF Due
    <3>2. Needs(c[Len(c)], r)'  BY <3>1, StillPromised
    <3> QED  BY <2>2, <3>2 DEF Awaited
  <2> QED  BY <2>1, <2>2
<1> QED  BY <1>1, <1>2 DEF Promises, Waiting

(* The activations below stay, and what the innermost one owes does.        *)
LEMMA OuterStays ==
  ASSUME NEW S, Stack(S), Promises, Still, UNCHANGED result, CellsKept(S), calls # <<>>
  PROVE  /\ Len(calls) \in Nat \ {0} /\ Len(Outer) = Len(calls) - 1
         /\ Outer \in Seq(Activations(S)')
         /\ \A i \in 1..(Len(calls) - 1) : Outer[i] = calls[i] /\ calls[i].kind # "call"
         /\ \A i \in 1..Len(calls) : \A answer : Post(calls[i], answer) =>
              (i = 1 => Promised(result.call, answer)) /\ (i # 1 => Needs(calls[i - 1], answer))
         /\ result.answer = Waiting
         /\ result = [call |-> result.call, answer |-> result.answer]
         /\ result.call \in Calls(S)
<1>1. calls \in Seq(Activations(S) \cup EarlyCalls(S))  BY DEF Stack
<1>2. /\ Len(calls) \in Nat \ {0} /\ Len(Outer) = Len(calls) - 1
      /\ Outer \in Seq(Activations(S) \cup EarlyCalls(S))
      /\ \A i \in 1..(Len(calls) - 1) : Outer[i] = calls[i]
      /\ DOMAIN Outer = 1..(Len(calls) - 1)
  BY <1>1, FrontFacts DEF Outer
<1>3. \A i \in 1..(Len(calls) - 1) : calls[i].kind # "call"
  BY <1>1, <1>2 DEF Stack
<1>4. \A i \in 1..(Len(calls) - 1) : calls[i] \in Activations(S)
  <2>1. \A i \in 1..(Len(calls) - 1) : calls[i] \in Activations(S) \cup EarlyCalls(S)  BY <1>1
  <2> QED  BY <2>1, <1>3 DEF EarlyCalls
<1>5. \A i \in DOMAIN Outer : Outer[i] \in Activations(S)'
  <2> SUFFICES ASSUME NEW i \in 1..(Len(calls) - 1) PROVE calls[i] \in Activations(S)'
    BY <1>2
  <2>1. calls[i] \in Activations(S)  BY <1>2, <1>4
  <2>2. CASE calls[i].kind = "construct"
    <3>1. calls[i] \in Constructions(S)
      BY <2>1, <2>2 DEF Activations, Calls, Comparisons, Assertions, Unpackings
    <3>2. calls[i].cell \in DOMAIN cells  BY <3>1 DEF Constructions, Halfway
    <3> QED  BY <2>1, <2>2, <3>2, ActivationsStill DEF CellsKept
  <2>3. CASE calls[i].kind # "construct"  BY <2>1, <2>3, ActivationsStill
  <2> QED  BY <2>2, <2>3
<1>6. Outer \in Seq(Activations(S)')  BY <1>2, <1>5, SeqOf
<1>7. \A i \in 1..Len(calls) : \A answer : Post(calls[i], answer) => Awaited(i - 1, answer)
  BY <1>1 DEF Promises
<1>8. \A i \in 1..Len(calls) : \A answer : Post(calls[i], answer) =>
        (i = 1 => Promised(result.call, answer)) /\ (i # 1 => Needs(calls[i - 1], answer))
  BY <1>2, <1>7 DEF Awaited
<1>9. result.answer = Waiting  BY DEF Stack, NoResult, Waiting
<1>10. /\ result = [call |-> result.call, answer |-> result.answer]
       /\ result.call \in Calls(S)
  BY DEF Stack
<1> QED  BY <1>2, <1>3, <1>6, <1>8, <1>9, <1>10

(* The innermost activation answers.                                        *)
LEMMA FinishesStack ==
  ASSUME NEW S, Stack(S), Promises, Still, UNCHANGED result, CellsKept(S), calls # <<>>,
         NEW answer, IsAnswer(answer, S), Post(Current, answer), Finish(answer)
  PROVE  Stack(S)' /\ Promises'
<1>1. calls' = Outer /\ returned' = answer  BY DEF Finish
<1>2. answer # Waiting  BY DEF IsAnswer, Waiting
<1>3. \A i \in DOMAIN Outer : Outer[i] = calls[i] /\ calls[i].kind # "call"
  BY OuterStays
<1>4. Stack(S)'
  <2>1. calls' \in Seq(Activations(S)')  BY <1>1, OuterStays
  <2>2. IsAnswer(returned, S)'  BY <1>1 DEF IsAnswer, Answer, Error, Bound
  <2>3. \A i \in DOMAIN calls' : calls'[i] = calls[i] /\ calls'[i].kind # "call"
    BY <1>1, <1>3
  <2>4. DOMAIN calls' \subseteq DOMAIN calls
    <3>1. calls \in Seq(Activations(S) \cup EarlyCalls(S))  BY DEF Stack
    <3> QED  BY <1>1, <3>1, OuterStays
  <2>5. \A i, j \in DOMAIN calls' :
          calls'[i].kind = "construct" /\ calls'[j].kind = "construct"
            /\ calls'[i].cell = calls'[j].cell => i = j
    BY <2>3, <2>4 DEF Stack
  <2>6. /\ result' = [call |-> result'.call, answer |-> result'.answer]
        /\ result'.call \in Calls(S)' /\ result'.answer = Waiting'
    BY OuterStays, ActivationsStill DEF Waiting
  <2> QED  BY <2>1, <2>2, <2>3, <2>5, <2>6 DEF Stack, CellsKept, None
<1>5. Due(Outer, answer)
  <2>1. Len(Outer) = Len(calls) - 1 /\ Len(calls) \in Nat \ {0}  BY OuterStays
  <2>2. DOMAIN Outer = 1..(Len(calls) - 1)  BY <2>1, OuterStays
  <2>3. \A i \in DOMAIN Outer : \A r : Post(Outer[i], r) =>
          (i = 1 => Promised(result.call, r)) /\ (i # 1 => Needs(Outer[i - 1], r))
    <3> SUFFICES ASSUME NEW i \in 1..(Len(calls) - 1), NEW r, Post(calls[i], r)
                 PROVE  (i = 1 => Promised(result.call, r)) /\ (i # 1 => Needs(Outer[i - 1], r))
      BY <2>2, <1>3
    <3>1. i \in 1..Len(calls)  BY <2>1
    <3>2. i # 1 => Outer[i - 1] = calls[i - 1]  BY <1>3, <2>2, <2>1
    <3> QED  BY <3>1, <3>2, OuterStays
  <2>4. (Len(Outer) = 0 => Promised(result.call, answer))
          /\ (Len(Outer) # 0 => Needs(Outer[Len(Outer)], answer))
    <3>1. Post(calls[Len(calls)], answer)  BY DEF Current
    <3>2. Len(Outer) # 0 => Outer[Len(Outer)] = calls[Len(calls) - 1]  BY <1>3, <2>1, <2>2
    <3>3. Len(calls) \in 1..Len(calls)  BY <2>1
    <3>4. (Len(calls) = 1 => Promised(result.call, answer))
            /\ (Len(calls) # 1 => Needs(calls[Len(calls) - 1], answer))
      BY <3>1, <3>3, OuterStays
    <3> QED  BY <3>2, <3>4, <2>1
  <2> QED  BY <2>3, <2>4 DEF Due
<1>6. Promises'  BY <1>1, <1>5, OuterStays, PromisesStill
<1> QED  BY <1>4, <1>6

(* All of the invariant, then.                                              *)
LEMMA Finishes ==
  ASSUME NEW S, Inv(S), Still, UNCHANGED result, CellsKept(S), calls # <<>>,
         NEW answer, IsAnswer(answer, S), Post(Current, answer), Finish(answer)
  PROVE  Inv(S)'
<1>1. Universe(S)' /\ Makes(S)' /\ FirstComesFirst'  BY StillUniverse
<1>2. Stack(S)' /\ Promises'  BY FinishesStack DEF Inv
<1> QED  BY <1>1, <1>2 DEF Inv

(* A constructor that goes on has its own cell.                             *)
OwnCell(a) ==
  a.kind = "construct" =>
    \A i \in 1..(Len(calls) - 1) : calls[i].kind = "construct" => calls[i].cell # a.cell

(* The innermost activation goes on as another one.                         *)
LEMMA Becomes ==
  ASSUME NEW S, Inv(S), Still, UNCHANGED result, CellsKept(S), calls # <<>>,
         NEW a, OwnCell(a),
         \/ a \in Activations(S)'
         \/ a \in EarlyCalls(S) /\ IsEarly(a.f.self.cell, Len(calls)) /\ UNCHANGED cells,
         \A r : Post(a, r) => Post(Current, r), Become(a)
  PROVE  Inv(S)'
<1> DEFINE n == Len(calls) - 1
           c == Append(Outer, a)
<1>1. Universe(S)' /\ Makes(S)' /\ FirstComesFirst'  BY StillUniverse
<1>2. calls' = c /\ returned' = Waiting  BY DEF Become
<1>3. /\ n \in Nat /\ Outer \in Seq(Activations(S)') /\ Len(Outer) = n
      /\ \A i \in 1..n : Outer[i] = calls[i] /\ calls[i].kind # "call"
  BY OuterStays DEF Inv
<1> HIDE DEF n
<1>4. /\ c \in Seq(Activations(S)' \cup EarlyCalls(S)') /\ DOMAIN c = 1..(n + 1) /\ Len(c) = n + 1
      /\ \A i \in 1..n : c[i] = calls[i] /\ c[i].kind # "call" /\ c[i] \in Activations(S)'
      /\ c[n + 1] = a
  <2>1. Outer \in Seq(Activations(S)' \cup EarlyCalls(S)')  BY <1>3
  <2>2. a \in Activations(S)' \cup EarlyCalls(S)'  BY ActivationsStill
  <2>3. \A i \in 1..n : Outer[i] \in Activations(S)'  BY <1>3
  <2> QED  BY <1>3, <2>1, <2>2, <2>3
<1> HIDE DEF c
<1>5. DOMAIN calls = 1..(n + 1)
  <2>1. calls \in Seq(Activations(S) \cup EarlyCalls(S))  BY DEF Inv, Stack
  <2> QED  BY <2>1, <1>3 DEF n
<1>6. Stack(S)'
  <2>1. \A i \in DOMAIN c : c[i].kind = "call" => i = Len(c)  BY <1>3, <1>4
  <2>2. \A i, j \in DOMAIN c :
          c[i].kind = "construct" /\ c[j].kind = "construct" /\ c[i].cell = c[j].cell => i = j
    <3>1. \A i, j \in 1..n :
            c[i].kind = "construct" /\ c[j].kind = "construct" /\ c[i].cell = c[j].cell => i = j
      BY <1>3, <1>4, <1>5 DEF Inv, Stack
    <3>2. \A i \in 1..n : c[i].kind = "construct" /\ a.kind = "construct" => c[i].cell # a.cell
      BY <1>4 DEF OwnCell, n
    <3> QED  BY <3>1, <3>2, <1>3, <1>4
  <2>3. /\ result' = [call |-> result'.call, answer |-> result'.answer]
        /\ result'.call \in Calls(S)' /\ result'.answer = Waiting'
    BY OuterStays, ActivationsStill DEF Inv, Waiting
  <2>4. (\A i \in DOMAIN calls : calls[i] \in Activations(S) \/ IsEarly(calls[i].f.self.cell, i))'
    <3>1. CASE a \in Activations(S)'  BY <1>2, <1>3, <1>4, <3>1
    <3>2. CASE a \notin Activations(S)'
      <4>1. PICK k : k = Len(calls)  OBVIOUS
      <4>2. IsEarly(a.f.self.cell, k) /\ cells' = cells  BY <3>2, <4>1
      <4>3. \A i \in 1..(k - 1) : calls'[i] = calls[i]  BY <1>2, <1>4, <4>1 DEF n
      <4>4. IsEarly(a.f.self.cell, k)'  BY <4>2, <4>3 DEF IsEarly, IsBeingMade, None
      <4>5. n + 1 = k  BY <1>3, <4>1 DEF n
      <4> QED  BY <1>2, <1>3, <1>4, <4>4, <4>5
    <3> QED  BY <3>1, <3>2
  <2> QED  BY <1>2, <1>4, <2>1, <2>2, <2>3, <2>4 DEF Stack, CellsKept, None, Waiting
<1>7. Due(c, Waiting)
  <2>1. \A i \in DOMAIN c : \A r : Post(c[i], r) => Post(calls[i], r)
    BY <1>3, <1>4 DEF Current, n
  <2>2. \A i \in 1..(n + 1) : i # 1 => c[i - 1] = calls[i - 1]  BY <1>3, <1>4
  <2>3. \A i \in 1..Len(calls) : \A r : Post(calls[i], r) =>
          (i = 1 => Promised(result.call, r)) /\ (i # 1 => Needs(calls[i - 1], r))
    BY OuterStays DEF Inv
  <2>4. 1..Len(calls) = 1..(n + 1)  BY <1>3 DEF n
  <2> QED  BY <1>4, <2>1, <2>2, <2>3, <2>4 DEF Due
<1>8. Promises'  BY <1>2, <1>4, <1>7, OuterStays, PromisesStill DEF Inv
<1> QED  BY <1>1, <1>6, <1>8 DEF Inv

(* It makes a call and waits as it is now.                                  *)
LEMMA Enters ==
  ASSUME NEW S, Inv(S), Still, UNCHANGED result, CellsKept(S), calls # <<>>,
         NEW a \in Activations(S)', a.kind # "call", OwnCell(a),
         NEW call \in Calls(S),
         \A r : Post(a, r) => Post(Current, r),
         \A r : Promised(call, r) => Needs(a, r), Enter(a, call)
  PROVE  Inv(S)'
<1> DEFINE n == Len(calls) - 1
           c == Outer \o <<a, call>>
<1>1. Universe(S)' /\ Makes(S)' /\ FirstComesFirst'  BY StillUniverse
<1>2. calls' = c /\ returned' = Waiting  BY DEF Enter
<1>3. /\ n \in Nat /\ Outer \in Seq(Activations(S)') /\ Len(Outer) = n
      /\ \A i \in 1..n : Outer[i] = calls[i] /\ calls[i].kind # "call"
  BY OuterStays DEF Inv
<1>4. call \in Activations(S)' /\ call.kind = "call"
  BY ActivationsStill DEF Activations, Calls, Natives, Native
<1> HIDE DEF n
<1>5. /\ c \in Seq(Activations(S)') /\ DOMAIN c = 1..(n + 2) /\ Len(c) = n + 2
      /\ \A i \in 1..n : c[i] = calls[i] /\ c[i].kind # "call"
      /\ c[n + 1] = a /\ c[n + 2] = call
  <2>1. <<a, call>> \in Seq(Activations(S)')  BY <1>4
  <2>2. c \in Seq(Activations(S)')  BY <1>3, <2>1
  <2>3. Len(c) = n + 2 /\ \A i \in 1..n : c[i] = Outer[i]  BY <1>3, <2>1
  <2>4. c[n + 1] = a /\ c[n + 2] = call  BY <1>3, <2>1
  <2> QED  BY <2>2, <2>3, <2>4, <1>3
<1> HIDE DEF c
<1>6. DOMAIN calls = 1..(n + 1)
  <2>1. calls \in Seq(Activations(S) \cup EarlyCalls(S))  BY DEF Inv, Stack
  <2> QED  BY <2>1, <1>3 DEF n
<1>7. Stack(S)'
  <2>1. \A i \in DOMAIN c : c[i].kind = "call" => i = Len(c)  BY <1>3, <1>5
  <2>2. \A i, j \in DOMAIN c :
          c[i].kind = "construct" /\ c[j].kind = "construct" /\ c[i].cell = c[j].cell => i = j
    <3>1. \A i, j \in 1..n :
            c[i].kind = "construct" /\ c[j].kind = "construct" /\ c[i].cell = c[j].cell => i = j
      BY <1>3, <1>5, <1>6 DEF Inv, Stack
    <3>2. \A i \in 1..n : c[i].kind = "construct" /\ a.kind = "construct" => c[i].cell # a.cell
      BY <1>5 DEF OwnCell, n
    <3> QED  BY SMTT(30), <3>1, <3>2, <1>3, <1>5, <1>4
  <2>3. /\ result' = [call |-> result'.call, answer |-> result'.answer]
        /\ result'.call \in Calls(S)' /\ result'.answer = Waiting'
    BY OuterStays, ActivationsStill DEF Inv, Waiting
  <2> QED  BY <1>2, <1>5, <2>1, <2>2, <2>3 DEF Stack, CellsKept, None, Waiting
<1>8. Due(c, Waiting)
  <2>1. \A i \in 1..(n + 1) : \A r : Post(c[i], r) => Post(calls[i], r)
    BY <1>3, <1>5 DEF Current, n
  <2>2. \A i \in 1..(n + 1) : i # 1 => c[i - 1] = calls[i - 1]  BY <1>3, <1>5
  <2>3. \A i \in 1..Len(calls) : \A r : Post(calls[i], r) =>
          (i = 1 => Promised(result.call, r)) /\ (i # 1 => Needs(calls[i - 1], r))
    BY OuterStays DEF Inv
  <2>4. 1..Len(calls) = 1..(n + 1)  BY <1>3 DEF n
  <2>5. \A r : Post(c[n + 2], r) => Needs(c[n + 1], r)  BY <1>5, <1>4 DEF Post
  <2>6. \A i \in DOMAIN c : \A r : Post(c[i], r) =>
          (i = 1 => Promised(result.call, r)) /\ (i # 1 => Needs(c[i - 1], r))
    <3> SUFFICES ASSUME NEW i \in 1..(n + 2), NEW r, Post(c[i], r)
                 PROVE  (i = 1 => Promised(result.call, r)) /\ (i # 1 => Needs(c[i - 1], r))
      BY <1>5
    <3>1. CASE i \in 1..(n + 1)  BY <3>1, <2>1, <2>2, <2>3, <2>4
    <3>2. CASE i = n + 2
      <4>1. i - 1 = n + 1 /\ i # 1  BY <3>2, <1>3
      <4> QED  BY <4>1, <3>2, <2>5
    <3> QED  BY <3>1, <3>2, <1>3
  <2> QED  BY <2>6 DEF Due
<1>9. Promises'  BY <1>2, <1>5, <1>8, OuterStays, PromisesStill DEF Inv
<1> QED  BY <1>1, <1>7, <1>9 DEF Inv

-----------------------------------------------------------------------------
(* What every step goes by.                                                 *)

(* The parts of the invariant, and the things there always are.             *)
LEMMA Basics ==
  ASSUME NEW S, Inv(S)
  PROVE  /\ program.before \in Nat /\ symbolId \in Nat /\ symbolId >= program.before + 18
         /\ Universe(S) /\ Makes(S) /\ Stack(S) /\ Promises
         /\ Atoms \subseteq S /\ Created \subseteq S /\ Data \subseteq S
         /\ None \in S /\ FuncThing \in S /\ Binder \in S
         /\ \A b \in BOOLEAN : BoolThing(b) \in S
         /\ \A n \in Int : IntThing(n) \in S /\ FloatThing(n) \in S
         /\ \A n \in Nat : CellThing(n) \in S
         /\ program.makes \in Seq(STRING) /\ made \in Seq(S)
<1>1. program.before \in Nat /\ program.makes \in Seq(STRING)
  BY ProgramsAssumption DEF Inv, Makes
<1>2. symbolId \in Int /\ Len(made) \in Nat  BY DEF Inv, Makes
<1>3. symbolId - program.before >= 18
  BY SMTT(30), <1>1, <1>2, NamesDiffer DEF Inv, Makes
<1>4. Atoms \subseteq S  BY DEF Inv, Universe
<1> QED  BY SMTT(30), <1>1, <1>2, <1>3, <1>4 DEF Inv, Makes, Atoms

(* Operators that the dispatch tells apart.                                 *)
LEMMA Apart ==
  ASSUME NEW S, Inv(S)
  PROVE  /\ SYM("==") # SYM("responds_to") /\ SYM("!=") # SYM("responds_to")
         /\ SYM("get") # SYM("responds_to") /\ SYM("get") # SYM("==")
         /\ SYM("call") # SYM("responds_to")
<1>1. program.before \in Nat  BY Basics
<1>2. /\ SYM("==") = program.before + 4 /\ SYM("!=") = program.before + 5
      /\ SYM("get") = program.before + 13 /\ SYM("call") = program.before + 15
      /\ SYM("responds_to") = program.before + 16
  BY <1>1, Numbers
<1> QED  BY <1>1, <1>2

(* bind is a symbol the library has created.                                *)
LEMMA BindCreated ==
  ASSUME NEW S, Inv(S), Imported
  PROVE  Bind \in Created /\ Bind.nth >= program.before + 18 /\ Bind.type = "SYMBOL"
<1>1. PICK i \in DOMAIN made : program.makes[i] = "bind" /\ Bind = made[i]
  BY DEF Imported, Bind
<1>2. Bind \in Created /\ Bind.nth >= program.before + 18
  BY <1>1, NamesDiffer DEF Inv, Makes
<1> QED  BY <1>2, Basics, CreatedFacts

(* The innermost call.                                                      *)
LEMMA TheCall ==
  ASSUME NEW S, Inv(S), In("call")
  PROVE  /\ calls # <<>> /\ Current.kind = "call"
         /\ ~IsVararg(Current.f, "bound") => Current.f \in S \cup Natives
         /\ Arguments \in Seq(S) /\ Arguments # <<>> /\ Len(Arguments) \in Nat \ {0}
         /\ Arguments[1] \in S /\ Arguments[Len(Arguments)] \in S
         /\ \A i \in 1..Len(Arguments) : Arguments[i] \in S
         /\ \A r : Promised(Current, r) => Post(Current, r)
         /\ OwnCell(Current)
<1>1. calls # <<>> /\ Current.kind = "call"  BY DEF In
<1>2. Current \in Activations(S) \cup EarlyCalls(S)
  <2>1. calls \in Seq(Activations(S) \cup EarlyCalls(S))  BY DEF Inv, Stack
  <2> QED  BY <2>1, <1>1 DEF Current
<1>3. Current \in Calls(S) \cup EarlyCalls(S)
  BY <1>1, <1>2 DEF Activations, Comparisons, Assertions, Unpackings, Constructions
<1>4. /\ Arguments \in Seq(S) /\ Arguments # <<>>
      /\ ~IsVararg(Current.f, "bound") => Current.f \in S \cup Natives
  BY <1>3 DEF Calls, EarlyCalls, Arguments, IsVararg, Bound
<1>5. Len(Arguments) \in Nat \ {0} /\ \A i \in 1..Len(Arguments) : Arguments[i] \in S
  BY <1>4
<1>6. \A r : Promised(Current, r) => Post(Current, r)  BY <1>1 DEF Post
<1> QED  BY <1>1, <1>3, <1>4, <1>5, <1>6 DEF OwnCell

(* A call makes no things; what the cells hold, it leaves.                  *)
LEMMA Asides ==
  ASSUME NEW S, Inv(S), Aside, UNCHANGED cells
  PROVE  Still /\ UNCHANGED result /\ CellsKept(S) /\ Activations(S) \subseteq Activations(S)'
<1>1. Still /\ UNCHANGED result  BY DEF Aside, Still
<1>2. CellsKept(S)  BY DEF CellsKept, Inv, Stack
<1>3. ASSUME NEW a \in Activations(S), a.kind = "construct"
      PROVE  a.cell \in DOMAIN cells
  <2>1. a \in Constructions(S)
    BY <1>3 DEF Activations, Calls, Comparisons, Assertions, Unpackings
  <2> QED  BY <2>1 DEF Constructions, Halfway
<1>4. Activations(S) \subseteq Activations(S)'  BY <1>1, <1>3, ActivationsStill
<1> QED  BY <1>1, <1>2, <1>4

-----------------------------------------------------------------------------
(* What the classes answer at once.                                         *)

(* Comparisons answer with bools.                                           *)
LEMMA ComparedFacts ==
  ASSUME NEW s, NEW a \in Int, NEW b \in Int, program.before \in Nat
  PROVE  LET r == Compared(s, a, b)
         IN /\ r = Error("responds") \/ \E c \in BOOLEAN : r = Answer(BoolThing(c))
            /\ Is(s, "==") => r = Answer(BoolThing(a = b))
            /\ Among(s, {"==", "!=", "<", "<=", ">", ">="}) => r # Error("responds")
<1>1. Compared(s, a, b) = Error("responds") \/ \E c \in BOOLEAN : Compared(s, a, b) = Answer(BoolThing(c))
  <2>1. /\ (a = b) \in BOOLEAN /\ (a # b) \in BOOLEAN /\ (a < b) \in BOOLEAN
        /\ (a <= b) \in BOOLEAN /\ (a > b) \in BOOLEAN /\ (a >= b) \in BOOLEAN
    OBVIOUS
  <2>2. CASE ~Among(s, {"==", "!=", "<", "<=", ">", ">="})
    BY <2>2 DEF Compared, Among
  <2>3. CASE Among(s, {"==", "!=", "<", "<=", ">", ">="})
    <3>1. Compared(s, a, b) \in {Answer(BoolThing(a = b)), Answer(BoolThing(a # b)),
            Answer(BoolThing(a < b)), Answer(BoolThing(a <= b)), Answer(BoolThing(a > b)),
            Answer(BoolThing(a >= b))}
      BY <2>3 DEF Compared, Among
    <3> QED  BY <2>1, <3>1
  <2> QED  BY <2>2, <2>3
<1>2. ASSUME Is(s, "==") PROVE Compared(s, a, b) = Answer(BoolThing(a = b))
  BY <1>2, Numbers DEF Compared, Is
<1>3. ASSUME Among(s, {"==", "!=", "<", "<=", ">", ">="}) PROVE Compared(s, a, b) # Error("responds")
  <2>1. Compared(s, a, b) \in {Answer(BoolThing(a = b)), Answer(BoolThing(a # b)), Answer(BoolThing(a < b)),
          Answer(BoolThing(a <= b)), Answer(BoolThing(a > b)), Answer(BoolThing(a >= b))}
    BY <1>3 DEF Compared, Among
  <2> QED  BY <2>1 DEF Answer, Error
<1> QED  BY <1>1, <1>2, <1>3

(* Arithmetic stays among the ints; what an int claims, it answers.         *)
LEMMA IntFacts ==
  ASSUME NEW s, NEW a \in Int, NEW b \in Int, program.before \in Nat
  PROVE  LET r == IntAnswer(s, a, b)
         IN /\ \/ r \in {Error("responds"), Error("crash")}
               \/ \E c \in BOOLEAN : r = Answer(BoolThing(c))
               \/ \E n \in Int : r = Answer(IntThing(n))
            /\ Is(s, "==") => r = Answer(BoolThing(a = b))
            /\ Among(s, ClaimsOf("INT")) /\ ~Is(s, "responds_to") => r # Error("responds")
<1> DEFINE r == IntAnswer(s, a, b)
<1>1. Quotient(a, b) \in Int \/ b = 0
  <2> SUFFICES ASSUME b # 0 PROVE Quotient(a, b) \in Int
    OBVIOUS
  <2>1. Abs(a) \in Nat /\ Abs(b) \in Nat \ {0}  BY DEF Abs
  <2>2. \A n \in Nat, m \in Nat \ {0} : n \div m \in Int  OBVIOUS
  <2> QED  BY <2>1, <2>2 DEF Quotient
<1>2. a + b \in Int /\ a - b \in Int /\ a * b \in Int  OBVIOUS
<1>3. CASE Among(s, {"+", "-", "*", "/"})
  <2>1. r \in {Error("crash"), Answer(IntThing(a + b)), Answer(IntThing(a - b)),
                Answer(IntThing(a * b))}
          \/ (r = Answer(IntThing(Quotient(a, b))) /\ b # 0)
    BY <1>3 DEF IntAnswer, Among
  <2>2. ~Is(s, "==")  BY <1>3, Numbers DEF Among, Is
  <2>3. r # Error("responds")  BY <2>1 DEF Answer, Error
  <2>4. r = Error("crash") \/ \E n \in Int : r = Answer(IntThing(n))  BY <2>1, <1>1, <1>2
  <2> QED  BY <2>2, <2>3, <2>4
<1>4. CASE ~Among(s, {"+", "-", "*", "/"})
  <2>1. r = Compared(s, a, b)  BY <1>4 DEF IntAnswer, Among
  <2>2. Among(s, ClaimsOf("INT")) /\ ~Is(s, "responds_to") =>
          Among(s, {"==", "!=", "<", "<=", ">", ">="})
    BY <1>4 DEF Among, ClaimsOf
  <2> QED  BY <2>1, <2>2, ComparedFacts
<1> QED  BY <1>3, <1>4

(* So do floats, and what they claim they answer, too.                      *)
LEMMA FloatFacts ==
  ASSUME NEW s, NEW a \in Int, NEW b \in Int, program.before \in Nat, NEW r \in FloatAnswers(s, a, b)
  PROVE  /\ \/ r = Error("responds")
            \/ \E c \in BOOLEAN : r = Answer(BoolThing(c))
            \/ \E n \in Int : r = Answer(FloatThing(n))
         /\ Among(s, ClaimsOf("FLOAT")) => r # Error("responds")
<1>1. CASE Among(s, {"+", "-", "*", "/"})
  <2>1. PICK x \in {a, b} : r = Answer(FloatThing(x))  BY <1>1 DEF FloatAnswers
  <2>2. r # Error("responds")  BY <2>1 DEF Answer, Error
  <2> QED  BY <2>1, <2>2
<1>2. CASE ~Among(s, {"+", "-", "*", "/"})
  <2>1. r = Compared(s, a, b)  BY <1>2 DEF FloatAnswers
  <2>2. Among(s, ClaimsOf("FLOAT")) => Among(s, {"==", "!=", "<", "<=", ">", ">="})
    BY <1>2 DEF Among, ClaimsOf
  <2> QED  BY <2>1, <2>2, ComparedFacts
<1> QED  BY <1>1, <1>2

(* So do strs.                                                              *)
LEMMA StrFacts ==
  ASSUME NEW s, NEW a, NEW b, program.before \in Nat
  PROVE  LET r == StrAnswer(s, a, b)
         IN /\ \/ r = Error("responds")
               \/ \E c \in BOOLEAN : r = Answer(BoolThing(c))
               \/ r = Answer(StrThing(a \o b))
            /\ Is(s, "==") => r = Answer(BoolThing(a = b))
            /\ Among(s, ClaimsOf("STR")) => r # Error("responds")
<1> DEFINE r == StrAnswer(s, a, b)
<1>1. (a = b) \in BOOLEAN /\ (a # b) \in BOOLEAN  OBVIOUS
<1>2. CASE Among(s, {"+", "==", "!="})
  <2>1. r \in {Answer(BoolThing(a = b)), Answer(BoolThing(a # b)), Answer(StrThing(a \o b))}
    BY <1>2 DEF StrAnswer, Among
  <2>2. r # Error("responds")  BY <2>1 DEF Answer, Error
  <2>3. Is(s, "==") => r = Answer(BoolThing(a = b))  BY Numbers DEF StrAnswer, Is
  <2> QED  BY <1>1, <2>1, <2>2, <2>3
<1>3. CASE ~Among(s, {"+", "==", "!="})
  <2>1. r = Error("responds")  BY <1>3 DEF StrAnswer, Among
  <2> QED  BY <2>1, <1>3 DEF ClaimsOf, Among
<1> QED  BY <1>2, <1>3

(* Bools answer with bools.                                                 *)
LEMMA BoolFacts ==
  ASSUME program.before \in Nat, NEW s, NEW args, args[1].type = "BOOL", args[1].bool \in BOOLEAN,
         \A i \in DOMAIN args : args[i].type = "BOOL" => args[i].bool \in BOOLEAN
  PROVE  LET r == BoolAnswer(s, args)
         IN /\ \/ r \in {Error("responds"), Error("arity"), Error("type")}
               \/ \E c \in BOOLEAN : r = Answer(BoolThing(c))
            /\ Is(s, "not") => r # Error("responds")
<1> DEFINE both == WellTyped(args, <<"BOOL", "BOOL">>)
<1>1. (~args[1].bool) \in BOOLEAN  OBVIOUS
<1>2. both => (args[1].bool /\ args[2].bool) \in BOOLEAN /\ (args[1].bool \/ args[2].bool) \in BOOLEAN
  OBVIOUS
<1>3. CASE Is(s, "not")
  <2>1. ~Is(s, "and") /\ ~Is(s, "or")  BY <1>3, Numbers DEF Is
  <2>2. BoolAnswer(s, args) \in {Answer(BoolThing(~args[1].bool)), Error("arity")}
    <3>1. CASE Len(args) = 1
      <4>1. BoolAnswer(s, args) = Answer(BoolThing(~args[1].bool))  BY <3>1, <2>1, <1>3 DEF BoolAnswer
      <4> QED  BY <4>1
    <3>2. CASE Len(args) # 1
      <4>1. BoolAnswer(s, args) = Error("arity")  BY <3>2, <2>1, <1>3 DEF BoolAnswer
      <4> QED  BY <4>1
    <3> QED  BY <3>1, <3>2
  <2>3. BoolAnswer(s, args) # Error("responds")  BY <2>2 DEF Answer, Error
  <2> QED  BY <2>2, <2>3, <1>1
<1>4. CASE ~Is(s, "not") /\ both
  <2>1. BoolAnswer(s, args) \in {Answer(BoolThing(args[1].bool /\ args[2].bool)),
                                 Answer(BoolThing(args[1].bool \/ args[2].bool)), Error("responds")}
    BY <1>4 DEF BoolAnswer
  <2> QED  BY <2>1, <1>2, <1>4
<1>5. CASE ~Is(s, "not") /\ ~both  BY <1>5 DEF BoolAnswer
<1> QED  BY <1>3, <1>4, <1>5

(* Plain things are ints, strs, and tuples of such.                         *)
LEMMA PlainFacts ==
  ASSUME NEW t \in Plain
  PROVE  /\ t.type \in {"INT", "STR", "TUPLE"}
         /\ t.type = "INT" => t = IntThing(t.int) /\ t.int \in Int
         /\ t.type = "STR" => t = StrThing(t.str)
         /\ t.type = "TUPLE" => t = Tuple(t.elements) /\ t.elements \in Seq(Plain)
<1>1. CASE t.type \in {"INT", "STR"} /\ Scalar(t)
  BY <1>1 DEF Scalar, None, ListThing, ErrorThing, FuncThing
<1>2. CASE TupleOf(t, Plain)  BY <1>2 DEF TupleOf
<1> QED  BY <1>1, <1>2, PlainAssumption

(* What is said of a call that is answered at once.                         *)
Keeps(t, s) == \/ t.type \in {"INT", "STR", "TUPLE"} \cup Steady
               \/ t.type = "BOOL" /\ ~Is(s, "+")
AtOnce(s, args, r, S) ==
  /\ \/ r = Error(r.why) /\ r.status = "error"
     \/ r = Answer(r.thing) /\ r.status = "value" /\ (r.thing \in S \/ r.thing = StrThing(r.thing.str))
  /\ r.status = "value" /\ args[Len(args)].type = "CELL" => r.thing.type \notin {"FUNC", "VARARG"}
  /\ Claims(args[1], s) /\ Keeps(args[1], s) => r # Error("responds")
  /\ r.status = "value" /\ Is(s, "responds_to") /\ Len(args) = 2 /\ args[2].type = "SYMBOL" =>
       args[1].type \notin {"NONE", "LIST"} /\ r.thing = BoolThing(Claims(args[1], args[2]))
  /\ Is(s, "==") /\ Len(args) = 2 /\ ArePlain(args) =>
       \/ r = Answer(BoolThing(args[1] = args[2]))
       \/ r = Error("type") /\ args[1] # args[2]

(* An error, of what a thing does not claim.                                *)
LEMMA ErrorAtOnce ==
  ASSUME NEW S, NEW s, NEW args, NEW why, ~(Is(s, "==") /\ Len(args) = 2 /\ ArePlain(args)),
         why # "responds" \/ ~Claims(args[1], s) \/ ~Keeps(args[1], s)
  PROVE  AtOnce(s, args, Error(why), S)
BY DEF AtOnce, Error

(* A bool, from what is not asked what it responds to.                      *)
LEMMA BoolAtOnce ==
  ASSUME NEW S, Inv(S), NEW s, NEW args, NEW b \in BOOLEAN, ~Is(s, "responds_to"),
         Is(s, "==") /\ Len(args) = 2 /\ ArePlain(args) => b = (args[1] = args[2])
  PROVE  AtOnce(s, args, Answer(BoolThing(b)), S)
<1>1. BoolThing(b) \in S  BY Basics
<1> QED  BY <1>1 DEF AtOnce, Answer, Error, BoolThing

(* What a thing says it responds to.                                        *)
LEMMA RespondsToAtOnce ==
  ASSUME NEW S, Inv(S), NEW s, NEW args \in Seq(S), args # <<>>, Is(s, "responds_to"),
         args[1].type \notin {"NONE", "LIST", "OBJECT"}, NEW r \in RespondsTo(args)
  PROVE  AtOnce(s, args, r, S)
<1>1. ~Is(s, "==")  BY Apart DEF Is
<1>2. \A b \in BOOLEAN : BoolThing(b) \in S  BY Basics
<1>3. CASE Len(args) = 2 /\ args[2].type = "SYMBOL"
  <2>1. r = Answer(BoolThing(Claims(args[1], args[2])))  BY <1>3 DEF RespondsTo
  <2>2. Claims(args[1], args[2]) \in BOOLEAN  BY DEF Claims, Among
  <2> QED  BY <1>1, <1>2, <2>1, <2>2 DEF AtOnce, Answer, Error, BoolThing
<1>4. CASE ~(Len(args) = 2 /\ args[2].type = "SYMBOL")
  <2>1. r = Error("type") \/ \E b \in BOOLEAN : r = Answer(BoolThing(b))
    BY <1>4 DEF RespondsTo
  <2>2. CASE r = Error("type")  BY <1>1, <2>2, ErrorAtOnce
  <2>3. CASE \E b \in BOOLEAN : r = Answer(BoolThing(b))
    BY <1>1, <1>2, <1>4, <2>3 DEF AtOnce, Answer, Error, BoolThing
  <2> QED  BY <2>1, <2>2, <2>3
<1> QED  BY <1>3, <1>4

(* Ints.                                                                    *)
LEMMA IntAtOnce ==
  ASSUME NEW S, Inv(S), NEW s, NEW args \in Seq(S), args # <<>>, ~Is(s, "responds_to"),
         args[1].type = "INT", NEW r \in Dispatched(s, args)
  PROVE  AtOnce(s, args, r, S)
<1>0. program.before \in Nat  BY Basics
<1>1. CASE WellTyped(args, <<"INT", "INT">>)
  <2>1. Len(args) = 2 /\ args[1].type = "INT" /\ args[2].type = "INT" /\ args[1] \in S /\ args[2] \in S
    BY <1>1 DEF WellTyped
  <2>2. /\ args[1] = IntThing(args[1].int) /\ args[1].int \in Int
        /\ args[2] = IntThing(args[2].int) /\ args[2].int \in Int
    BY <2>1, Basics, Classes
  <2>3. r = IntAnswer(s, args[1].int, args[2].int)  BY <1>1 DEF Dispatched
  <2>4. /\ \/ r \in {Error("responds"), Error("crash")}
           \/ \E c \in BOOLEAN : r = Answer(BoolThing(c))
           \/ \E n \in Int : r = Answer(IntThing(n))
        /\ Is(s, "==") => r = Answer(BoolThing(args[1].int = args[2].int))
        /\ Among(s, ClaimsOf("INT")) => r # Error("responds")
    BY <1>0, <2>2, <2>3, IntFacts
  <2>5. (args[1].int = args[2].int) = (args[1] = args[2])
    BY <2>2 DEF IntThing
  <2>6. Is(s, "==") => r = Answer(BoolThing(args[1] = args[2]))  BY <2>4, <2>5
  <2>7. (\A b \in BOOLEAN : BoolThing(b) \in S) /\ (\A n \in Int : IntThing(n) \in S)
    BY Basics
  <2>8. Claims(args[1], s) => r # Error("responds")  BY <2>1, <2>4 DEF Claims
  <2>9. \/ r = Error(r.why) /\ r.status = "error"
        \/ r = Answer(r.thing) /\ r.status = "value" /\ r.thing \in S
    BY <2>4, <2>7 DEF Answer, Error
  <2> QED  BY <2>1, <2>6, <2>8, <2>9 DEF AtOnce
<1>2. CASE ~WellTyped(args, <<"INT", "INT">>)
  <2>1. r = Error("type")  BY <1>2 DEF Dispatched
  <2>2. ASSUME Len(args) = 2, ArePlain(args) PROVE args[1] # args[2]
    BY <1>2, <2>2 DEF WellTyped
  <2> QED  BY <2>1, <2>2 DEF AtOnce, Error
<1> QED  BY <1>1, <1>2

(* Strs.                                                                    *)
LEMMA StrAtOnce ==
  ASSUME NEW S, Inv(S), NEW s, NEW args \in Seq(S), args # <<>>, ~Is(s, "responds_to"),
         args[1].type = "STR", NEW r \in Dispatched(s, args)
  PROVE  AtOnce(s, args, r, S)
<1>1. CASE WellTyped(args, <<"STR", "STR">>)
  <2>1. Len(args) = 2 /\ args[1].type = "STR" /\ args[2].type = "STR" /\ args[1] \in S /\ args[2] \in S
    BY <1>1 DEF WellTyped
  <2>2. args[1] = StrThing(args[1].str) /\ args[2] = StrThing(args[2].str)
    BY <2>1, Basics, Classes
  <2>3. r = StrAnswer(s, args[1].str, args[2].str)  BY <1>1 DEF Dispatched
  <2>4. /\ \/ r = Error("responds")
           \/ \E c \in BOOLEAN : r = Answer(BoolThing(c))
           \/ r = Answer(StrThing(args[1].str \o args[2].str))
        /\ Is(s, "==") => r = Answer(BoolThing(args[1].str = args[2].str))
        /\ Among(s, ClaimsOf("STR")) => r # Error("responds")
    BY <2>3, Basics, StrFacts
  <2>5. (args[1].str = args[2].str) = (args[1] = args[2])
    BY <2>2 DEF StrThing
  <2>6. Is(s, "==") => r = Answer(BoolThing(args[1] = args[2]))  BY <2>4, <2>5
  <2>7. \A b \in BOOLEAN : BoolThing(b) \in S
    BY Basics
  <2>8. Claims(args[1], s) => r # Error("responds")  BY <2>1, <2>4 DEF Claims
  <2>9. \/ r = Error(r.why) /\ r.status = "error"
        \/ r = Answer(r.thing) /\ r.status = "value"
             /\ (r.thing \in S \/ r.thing = StrThing(r.thing.str))
    <3>1. CASE r = Error("responds") \/ \E c \in BOOLEAN : r = Answer(BoolThing(c))
      BY <2>7, <3>1 DEF Answer, Error
    <3>2. CASE r = Answer(StrThing(args[1].str \o args[2].str))
      BY <3>2 DEF Answer, StrThing
    <3> QED  BY <2>4, <3>1, <3>2
  <2> QED  BY <2>1, <2>6, <2>8, <2>9 DEF AtOnce
<1>2. CASE ~WellTyped(args, <<"STR", "STR">>)
  <2>1. r = Error("type")  BY <1>2 DEF Dispatched
  <2>2. ASSUME Len(args) = 2, ArePlain(args) PROVE args[1] # args[2]
    BY <1>2, <2>2 DEF WellTyped
  <2> QED  BY <2>1, <2>2 DEF AtOnce, Error
<1> QED  BY <1>1, <1>2

(* Floats.                                                                  *)
LEMMA FloatAtOnce ==
  ASSUME NEW S, Inv(S), NEW s, NEW args \in Seq(S), args # <<>>, ~Is(s, "responds_to"),
         args[1].type = "FLOAT", NEW r \in Dispatched(s, args)
  PROVE  AtOnce(s, args, r, S)
<1>1. ~(Len(args) = 2 /\ ArePlain(args))  BY PlainFacts DEF ArePlain
<1>0. program.before \in Nat  BY Basics
<1>2. CASE WellTyped(args, <<"FLOAT", "FLOAT">>)
  <2>1. Len(args) = 2 /\ args[1].type = "FLOAT" /\ args[2].type = "FLOAT" /\ args[1] \in S /\ args[2] \in S
    BY <1>2 DEF WellTyped
  <2>2. args[1].float \in Int /\ args[2].float \in Int
    BY <2>1, Basics, Classes
  <2>3. r \in FloatAnswers(s, args[1].float, args[2].float)  BY <1>2 DEF Dispatched
  <2>4. /\ \/ r = Error("responds")
           \/ \E c \in BOOLEAN : r = Answer(BoolThing(c))
           \/ \E n \in Int : r = Answer(FloatThing(n))
        /\ Among(s, ClaimsOf("FLOAT")) => r # Error("responds")
    BY <1>0, <2>2, <2>3, FloatFacts
  <2>5. (\A b \in BOOLEAN : BoolThing(b) \in S) /\ (\A n \in Int : FloatThing(n) \in S)
    BY Basics
  <2>6. Claims(args[1], s) => r # Error("responds")  BY <2>1, <2>4 DEF Claims
  <2>7. \/ r = Error(r.why) /\ r.status = "error"
        \/ r = Answer(r.thing) /\ r.status = "value" /\ r.thing \in S
    BY <2>4, <2>5 DEF Answer, Error
  <2> QED  BY <1>1, <2>1, <2>6, <2>7 DEF AtOnce
<1>3. CASE ~WellTyped(args, <<"FLOAT", "FLOAT">>)
  <2>1. r = Error("type")  BY <1>3 DEF Dispatched
  <2> QED  BY <1>1, <2>1 DEF AtOnce, Error
<1> QED  BY <1>2, <1>3

(* Modules.                                                                 *)
LEMMA ModuleAtOnce ==
  ASSUME NEW S, Inv(S), NEW s, NEW args \in Seq(S), args # <<>>, ~Is(s, "responds_to"),
         args[1].type = "MODULE", NEW r \in Dispatched(s, args)
  PROVE  AtOnce(s, args, r, S)
<1>1. ~(Len(args) = 2 /\ ArePlain(args))  BY PlainFacts DEF ArePlain
<1>2. r = ModuleAnswer(s, args)  BY DEF Dispatched
<1>3. Claims(args[1], s) => Is(s, ".")  BY DEF Claims, ClaimsOf, Among
<1>4. CASE \E why \in {"type", "export"} : r = Error(why)  BY <1>1, <1>4, ErrorAtOnce
<1>5. CASE r = Error("responds") /\ ~Is(s, ".")  BY <1>1, <1>3, <1>5, ErrorAtOnce
<1>6. CASE /\ WellTyped(args, <<"MODULE", "STR">>) /\ args[2].str \in DOMAIN args[1].exports
           /\ r = Answer(args[1].exports[args[2].str])
  <2>1. args[Len(args)].type # "CELL"  BY <1>6 DEF WellTyped
  <2>2. ModuleOf(args[1], S)  BY Basics, Classes
  <2>3. args[1].exports[args[2].str] \in S  BY <1>6, <2>2 DEF ModuleOf
  <2> QED  BY <1>1, <1>6, <2>1, <2>3 DEF AtOnce, Answer, Error
<1> QED  BY <1>2, <1>4, <1>5, <1>6 DEF ModuleAnswer

(* An element of a tuple.                                                   *)
LEMMA GetAtOnce ==
  ASSUME NEW S, Inv(S), NEW s, NEW args \in Seq(S), args # <<>>, Is(s, "get"),
         args[1].type = "TUPLE", NEW r \in Dispatched(s, args)
  PROVE  AtOnce(s, args, r, S)
<1>1. ~Is(s, "==") /\ ~Is(s, "responds_to")  BY Apart DEF Is
<1>2. r = GetAnswer(args)  BY <1>1 DEF Dispatched
<1>3. CASE \E why \in {"type", "bounds", "crash"} : r = Error(why)  BY <1>1, <1>3, ErrorAtOnce
<1>4. CASE /\ WellTyped(args, <<"TUPLE", "INT">>) /\ args[2].int < Len(args[1].elements)
           /\ args[2].int >= 0 /\ r = Answer(args[1].elements[args[2].int + 1])
  <2>1. args[Len(args)].type # "CELL"  BY <1>4 DEF WellTyped
  <2>2. args[1] \in S /\ args[2] \in S /\ args[2].type = "INT"
    <3>1. Len(args) = 2 /\ args[2].type = "INT"  BY <1>4 DEF WellTyped
    <3>2. 1 \in 1..Len(args) /\ 2 \in 1..Len(args)  BY <3>1
    <3> QED  BY <3>1, <3>2, ElementOf
  <2>3. args[1].elements \in Seq(S) /\ args[2].int \in Int
    BY <2>2, Basics, Classes DEF TupleOf
  <2>4. args[1].elements[args[2].int + 1] \in S  BY <1>4, <2>3
  <2> QED  BY <1>1, <1>4, <2>1, <2>4 DEF AtOnce, Answer, Error
<1>5. WellTyped(args, <<"TUPLE", "INT">>) =>
        Len(args[1].elements) \in Nat /\ args[2].int \in Int
  <2> SUFFICES ASSUME WellTyped(args, <<"TUPLE", "INT">>)
               PROVE  Len(args[1].elements) \in Nat /\ args[2].int \in Int
    OBVIOUS
  <2>1. args[1] \in S /\ args[2] \in S /\ args[2].type = "INT"  BY DEF WellTyped
  <2> QED  BY <2>1, Basics, Classes DEF TupleOf
<1> QED  BY <1>2, <1>3, <1>4, <1>5 DEF GetAnswer

(* Bools.                                                                   *)
LEMMA BoolTypeAtOnce ==
  ASSUME NEW S, Inv(S), NEW s, NEW args \in Seq(S), args # <<>>, ~Is(s, "responds_to"),
         args[1].type = "BOOL", NEW r \in Dispatched(s, args)
  PROVE  AtOnce(s, args, r, S)
<1>1. ~(Len(args) = 2 /\ ArePlain(args))  BY PlainFacts DEF ArePlain
<1>2. \A i \in DOMAIN args : args[i].type = "BOOL" => args[i].bool \in BOOLEAN
  BY ElementOf, Basics, Classes
<1>3. r = BoolAnswer(s, args)  BY DEF Dispatched
<1>4. \/ r \in {Error("responds"), Error("arity"), Error("type")}
      \/ \E c \in BOOLEAN : r = Answer(BoolThing(c))
  BY <1>2, <1>3, Basics, BoolFacts
<1>5. r # Error("responds") \/ ~Claims(args[1], s) \/ ~Keeps(args[1], s)
  <2>1. Is(s, "not") => r # Error("responds")  BY <1>2, <1>3, Basics, BoolFacts
  <2>2. Claims(args[1], s) => Is(s, "not") \/ Is(s, "+")  BY DEF Claims, ClaimsOf, Among, Is
  <2> QED  BY <2>1, <2>2 DEF Keeps, Steady
<1>6. CASE \E why : r = Error(why)  BY <1>1, <1>5, <1>6, ErrorAtOnce
<1>7. CASE \E c \in BOOLEAN : r = Answer(BoolThing(c))  BY <1>1, <1>7, BoolAtOnce
<1> QED  BY <1>4, <1>6, <1>7

(* All classes that answer at once.                                         *)
LEMMA DispatchedAtOnce ==
  ASSUME NEW S, Inv(S), NEW s, NEW args \in Seq(S), args # <<>>, args[1].type # "OBJECT",
         ~Compares(s, args), NEW r \in Dispatched(s, args)
  PROVE  AtOnce(s, args, r, S)
<1> DEFINE type == args[1].type
<1>1. args[1] \in S /\ program.before \in Nat /\ symbolId \in Nat /\ Universe(S)
  BY ElementOf, Basics
<1>2. type \in {"NONE", "LIST", "ERROR", "FUNC", "BOOL", "INT", "STR", "FLOAT", "CELL",
                "MODULE", "TUPLE", "SYMBOL", "VARARG"}
  BY <1>1, Classes
<1>3. CASE type \in {"NONE", "LIST"}
  <2>1. r = Error("call")  BY <1>3 DEF Dispatched
  <2>2. ~(Len(args) = 2 /\ ArePlain(args))  BY <1>3, PlainFacts DEF ArePlain
  <2> QED  BY <2>1, <2>2, ErrorAtOnce
<1>4. CASE type \notin {"NONE", "LIST"} /\ Is(s, "responds_to")
  <2>1. SYM("get") # SYM("responds_to")  BY Apart
  <2>2. ~Is(s, "get")  BY <1>4, <2>1 DEF Is
  <2>3. r \in RespondsTo(args)  BY <1>4, <2>2 DEF Dispatched
  <2> QED  BY <1>4, <2>3, RespondsToAtOnce
<1>5. CASE type \in {"INT", "STR", "FLOAT", "MODULE", "BOOL"} /\ ~Is(s, "responds_to")
  BY <1>5, IntAtOnce, StrAtOnce, FloatAtOnce, ModuleAtOnce, BoolTypeAtOnce
<1>6. CASE type = "TUPLE" /\ Is(s, "get")
  BY <1>6, GetAtOnce
<1>7. CASE type = "TUPLE" /\ ~Is(s, "get") /\ ~Is(s, "responds_to")
  <2>1. r = Error("responds")  BY <1>7 DEF Dispatched
  <2>2. ~Is(s, "==") /\ ~Is(s, "!=")  BY <1>7 DEF Compares, Among
  <2>3. ~Claims(args[1], s)  BY <1>7, <2>2 DEF Claims, ClaimsOf, Among
  <2> QED  BY <2>1, <2>2, <2>3, ErrorAtOnce
<1>8. CASE type \in {"SYMBOL", "FUNC", "CELL", "ERROR", "VARARG"} /\ ~Is(s, "responds_to")
  <2>1. r = Error("responds")  BY <1>8 DEF Dispatched
  <2>2. ~(Len(args) = 2 /\ ArePlain(args))  BY <1>8, PlainFacts DEF ArePlain
  <2>3. ~Claims(args[1], s)  BY <1>8 DEF Claims, ClaimsOf, Among
  <2> QED  BY <2>1, <2>2, <2>3, ErrorAtOnce
<1> QED  BY <1>2, <1>3, <1>4, <1>5, <1>6, <1>7, <1>8

-----------------------------------------------------------------------------
(* Promises about calls of symbols.                                         *)

(* A symbol is promised what is said of symbols only.                       *)
LEMMA SymbolPromised ==
  ASSUME NEW call, NEW r, call.f.type = "SYMBOL", Equates(call, r), KeepsClaims(call, r),
         LooksUp(call, r), Tells(call, r), BindsCell(call, r)
  PROVE  Promised(call, r)
<1>1. Matches(call, r)  BY DEF Matches, Native
<1>2. BindsSelf(call, r)  BY DEF BindsSelf, Binder
<1>3. CreatesOne(call, r)  BY DEF CreatesOne, IsVararg, Constructs
<1> QED  BY <1>1, <1>2, <1>3 DEF Promised

(* An error breaks no promise, where none was made.                         *)
LEMMA SymbolFails ==
  ASSUME NEW call, NEW why, call.f.type = "SYMBOL",
         ~(Asks(call, "==") /\ Len(call.args) = 2 /\ ArePlain(call.args)),
         why # "responds" \/ (call.args[1] \notin Plain /\ call.args[1].type \notin Steady \cup {"BOOL"})
  PROVE  Promised(call, Error(why))
<1>1. Equates(call, Error(why))  BY DEF Equates
<1>2. KeepsClaims(call, Error(why))  BY DEF KeepsClaims, Error
<1>3. ~HasValue(Error(why))  BY DEF HasValue, Error
<1>4. LooksUp(call, Error(why)) /\ Tells(call, Error(why)) /\ BindsCell(call, Error(why))
  BY <1>3 DEF LooksUp, Tells, BindsCell
<1> QED  BY <1>1, <1>2, <1>4, SymbolPromised

(* What is answered at once keeps every promise.                            *)
LEMMA AtOncePromised ==
  ASSUME NEW S, Inv(S), NEW call, call.f.type = "SYMBOL", call.args[1].type # "OBJECT",
         NEW r, AtOnce(call.f, call.args, r, S)
  PROVE  Promised(call, r)
<1>1. Equates(call, r)
  <2>1. Asks(call, "==") => Is(call.f, "==")  BY DEF Asks, Is, Operator, Symbol
  <2> QED  BY <2>1 DEF Equates, AtOnce, HasValue, Answer, Error
<1>2. KeepsClaims(call, r)
  <2>1. call.args[1] \in Plain => call.args[1].type \in {"INT", "STR", "TUPLE"}  BY PlainFacts
  <2> QED  BY <2>1 DEF KeepsClaims, AtOnce, Keeps
<1>3. LooksUp(call, r)  BY DEF LooksUp
<1>4. Tells(call, r)  BY DEF Tells, AtOnce, HasValue
<1>5. BindsCell(call, r)  BY DEF BindsCell, AtOnce, HasValue, Binder
<1> QED  BY <1>1, <1>2, <1>3, <1>4, <1>5, SymbolPromised

(* A symbol whose first argument is no object or comparable tuple.          *)
LEMMA CallSymbolKeeps ==
  ASSUME Invariant, CallSymbol, KeepCells
  PROVE  Invariant'
<1>1. PICK S : Inv(S)  BY DEF Invariant
<1>2. In("call") /\ Current.f.type = "SYMBOL"  BY DEF CallSymbol, Calling
<1>3. Aside /\ UNCHANGED cells  BY DEF CallSymbol, KeepCells
<1>4. PICK r \in IF WrongArity THEN {Error("arity")} ELSE Dispatched(Current.f, Arguments) : Finish(r)
  BY DEF CallSymbol
<1>5. CASE WrongArity
  <2>1. r = Error("arity")  BY <1>4, <1>5
  <2>2. ~(Asks(Current, "==") /\ Len(Current.args) = 2)
    <3>1. ArityOf("==") = 2  BY DEF ArityOf
    <3>2. Operator("==").arity = 2  BY <3>1 DEF Operator, Symbol
    <3> QED  BY <1>5, <3>2 DEF WrongArity, Asks, Arguments
  <2>3. Promised(Current, r)  BY <1>2, <2>1, <2>2, SymbolFails
  <2>4. Post(Current, r)  BY <1>1, <1>2, <2>3, TheCall
  <2>5. IsAnswer(r, S)  BY <2>1 DEF IsAnswer, Error
  <2>6. Inv(S)'  BY <1>1, <1>2, <1>3, <1>4, <2>4, <2>5, Asides, TheCall, Finishes
  <2> QED  BY <2>6 DEF Invariant
<1>6. CASE ~WrongArity
  <2>1. Arguments[1].type # "OBJECT" /\ ~Compares(Current.f, Arguments)
    BY <1>6 DEF CallSymbol, Hands
  <2>2. AtOnce(Current.f, Arguments, r, S)
    BY <1>1, <1>2, <1>4, <1>6, <2>1, TheCall, DispatchedAtOnce
  <2>3. Promised(Current, r)  BY <1>1, <1>2, <2>1, <2>2, AtOncePromised DEF Arguments
  <2>4. Post(Current, r)  BY <1>1, <1>2, <2>3, TheCall
  <2>5. PICK T : Inv(T) /\ IsAnswer(r, T)
    <3>1. CASE r = Answer(r.thing) /\ r.thing = StrThing(r.thing.str)
      <4>1. OfClass(r.thing, S)  BY <3>1 DEF OfClass, Scalar, StrThing
      <4>2. Inv(S \cup {r.thing})  BY <1>1, <4>1, InvGrows
      <4>3. IsAnswer(r, S \cup {r.thing})  BY <3>1 DEF IsAnswer, Answer
      <4> QED  BY <4>2, <4>3
    <3>2. CASE ~(r = Answer(r.thing) /\ r.thing = StrThing(r.thing.str))
      <4>1. IsAnswer(r, S)  BY <2>2, <3>2 DEF AtOnce, IsAnswer
      <4> QED  BY <1>1, <4>1
    <3> QED  BY <3>1, <3>2
  <2>6. Inv(T)'  BY <1>2, <1>3, <1>4, <2>4, <2>5, Asides, TheCall, Finishes
  <2> QED  BY <2>6 DEF Invariant
<1> QED  BY <1>5, <1>6

(* An answer to the innermost call.                                         *)
LEMMA CallFinishes ==
  ASSUME NEW S, Inv(S), In("call"), Aside, UNCHANGED cells, NEW r, IsAnswer(r, S),
         Promised(Current, r), Finish(r)
  PROVE  Invariant'
<1>1. Post(Current, r)  BY TheCall
<1>2. Inv(S)'  BY <1>1, Asides, TheCall, Finishes
<1> QED  BY <1>2 DEF Invariant

(* The innermost call goes on as something else.                            *)
LEMMA CallBecomes ==
  ASSUME NEW S, Inv(S), In("call"), Aside, UNCHANGED cells,
         NEW a \in Activations(S), a.kind # "construct",
         \A r : Post(a, r) => Promised(Current, r), Become(a)
  PROVE  Invariant'
<1>1. \A r : Post(a, r) => Post(Current, r)  BY TheCall
<1>2. a \in Activations(S)' /\ OwnCell(a)  BY Asides DEF OwnCell
<1>3. Inv(S)'  BY <1>1, <1>2, Asides, TheCall, Becomes
<1> QED  BY <1>3 DEF Invariant

(* A symbol sent to an object.                                              *)
LEMMA ObjectPromised ==
  ASSUME NEW call, NEW r, call.f.type = "SYMBOL", call.args[1].type = "OBJECT",
         LooksUp(call, r), BindsCell(call, r)
  PROVE  Promised(call, r)
<1>1. ~ArePlain(call.args) \/ Len(call.args) # 2
  BY PlainFacts DEF ArePlain
<1>2. call.args[1] \notin Plain /\ call.args[1].type \notin Steady  BY PlainFacts DEF Steady
<1>3. Equates(call, r) /\ KeepsClaims(call, r) /\ Tells(call, r)
  BY <1>1, <1>2 DEF Equates, KeepsClaims, Tells
<1> QED  BY <1>3, SymbolPromised

(* An object gives a property, or hands the call on to it.                  *)
LEMMA CallPropertyKeeps ==
  ASSUME Invariant, CallProperty, KeepCells
  PROVE  Invariant'
<1> DEFINE args == Arguments
           map == args[1].map
           id == Key(Current.f)
<1>1. PICK S : Inv(S)  BY DEF Invariant
<1>2. In("call") /\ Current.f.type = "SYMBOL" /\ args[1].type = "OBJECT"
  BY DEF CallProperty, Calling, Hands
<1>3. Aside /\ UNCHANGED cells  BY DEF CallProperty, KeepCells
<1>4. args \in Seq(S) /\ args # <<>> /\ Len(args) \in Nat \ {0} /\ args[1] \in S
  BY <1>1, <1>2, TheCall
<1>5. ObjectOf(args[1], S)  BY <1>1, <1>2, <1>4, Basics, Classes
<1>6. \A k \in DOMAIN map : map[k] \in S  BY <1>5, ValuesGiven
<1>7. Current.args = args  BY DEF Arguments
<1> HIDE DEF args
<1>8. CASE id \notin DOMAIN map
  <2>1. PICK r \in IF Is(Current.f, "responds_to") THEN RespondsTo(args) ELSE {Error("responds")} :
          Finish(r)
    BY <1>8 DEF CallProperty, args
  <2>2. CASE r \in {Error("responds"), Error("type")}
    <3>1. PICK why : r = Error(why)  BY <2>2
    <3>2. ~HasValue(r)  BY <3>1 DEF HasValue, Error
    <3>3. LooksUp(Current, r) /\ BindsCell(Current, r)  BY <3>2 DEF LooksUp, BindsCell
    <3>4. Promised(Current, r)  BY <1>2, <1>7, <3>3, ObjectPromised
    <3>5. IsAnswer(r, S)  BY <3>1 DEF IsAnswer, Error
    <3> QED  BY <1>1, <1>2, <1>3, <2>1, <3>4, <3>5, CallFinishes
  <2>3. CASE /\ Len(args) = 2 /\ args[2].type = "SYMBOL"
             /\ r = Answer(BoolThing(Key(args[2]) \in DOMAIN map))
    <3>1. (Key(args[2]) \in DOMAIN map) \in BOOLEAN  OBVIOUS
    <3>2. LooksUp(Current, r)
      BY <1>7, <1>8, <2>3 DEF LooksUp, Answer
    <3>3. BindsCell(Current, r)  BY <2>3 DEF BindsCell, Answer, BoolThing, Binder
    <3>4. Promised(Current, r)  BY <1>2, <1>7, <3>2, <3>3, ObjectPromised
    <3>5. IsAnswer(r, S)
      <4>1. BoolThing(Key(args[2]) \in DOMAIN map) \in S  BY <1>1, <3>1, Basics
      <4> QED  BY <2>3, <4>1 DEF IsAnswer, Answer
    <3> QED  BY <1>1, <1>2, <1>3, <2>1, <3>4, <3>5, CallFinishes
  <2> QED  BY <1>2, <2>1, <2>2, <2>3 DEF RespondsTo, Claims
<1>9. CASE id \in DOMAIN map /\ Len(args) = 1
  <2> DEFINE r == Answer(map[id])
  <2>1. Finish(r)  BY <1>9 DEF CallProperty, args
  <2>2. LooksUp(Current, r)  BY <1>7, <1>9 DEF LooksUp, Answer
  <2>3. BindsCell(Current, r)  BY <1>2, <1>7, <1>9 DEF BindsCell
  <2>4. Promised(Current, r)  BY <1>2, <1>7, <2>2, <2>3, ObjectPromised
  <2>5. IsAnswer(r, S)  BY <1>6, <1>9 DEF IsAnswer, Answer
  <2> QED  BY <1>1, <1>2, <1>3, <2>1, <2>4, <2>5, CallFinishes
<1>10. CASE id \in DOMAIN map /\ Len(args) # 1
  <2> DEFINE a == Call(map[id], Tail(args))
  <2>1. Become(a)  BY <1>10 DEF CallProperty, args
  <2>2. Tail(args) \in Seq(S) /\ Len(Tail(args)) = Len(args) - 1 /\ Tail(args)[1] = args[2]
        /\ Tail(args)[Len(args) - 1] = args[Len(args)]
    <3>1. Tail(args) \in Seq(S) /\ Len(Tail(args)) = Len(args) - 1
          /\ \A i \in 1..(Len(args) - 1) : Tail(args)[i] = args[i + 1]
      BY <1>4, TailFacts
    <3>2. 1 \in 1..(Len(args) - 1) /\ Len(args) - 1 \in 1..(Len(args) - 1)
            /\ (Len(args) - 1) + 1 = Len(args)
      <4>1. \A n \in Nat \ {0} : n # 1 => 1 \in 1..(n - 1) /\ n - 1 \in 1..(n - 1) /\ (n - 1) + 1 = n
        OBVIOUS
      <4> QED  BY <1>4, <1>10, <4>1
    <3>3. Tail(args)[1] = args[1 + 1] /\ Tail(args)[Len(args) - 1] = args[(Len(args) - 1) + 1]
      BY <3>1, <3>2
    <3> QED  BY <3>1, <3>2, <3>3
  <2>3. Tail(args) # <<>>
    <3>1. Len(args) - 1 # 0  BY <1>4, <1>10
    <3>2. Len(<<>>) = 0  OBVIOUS
    <3> QED  BY <2>2, <3>1, <3>2
  <2>4. a \in Calls(S) /\ a.kind = "call"  BY <1>6, <1>10, <2>2, <2>3 DEF Calls, Call
  <2>5. ASSUME NEW r, Post(a, r) PROVE Promised(Current, r)
    <3>1. Promised(a, r)  BY <2>4, <2>5 DEF Post
    <3>2. a.f = map[id] /\ a.args = Tail(args)  BY DEF Call
    <3>3. LooksUp(Current, r)
      <4>1. HasValue(r) /\ map[id] = Binder => r.thing = Bound(args[2])
        BY SMTT(30), <2>2, <3>1, <3>2 DEF Promised, BindsSelf
      <4> QED  BY <1>7, <1>10, <4>1 DEF LooksUp
    <3>4. BindsCell(Current, r)
      BY <1>7, <2>2, <3>1, <3>2 DEF Promised, BindsCell
    <3> QED  BY <1>2, <1>7, <3>3, <3>4, ObjectPromised
  <2> QED
    BY <1>1, <1>2, <1>3, <2>1, <2>4, <2>5, CallBecomes DEF Activations
<1> QED  BY <1>8, <1>9, <1>10

(* What is no symbol fails as it will.                                      *)
LEMMA Fails ==
  ASSUME NEW call, call.f.type # "SYMBOL", NEW why
  PROVE  Promised(call, Error(why))
<1>1. ~HasValue(Error(why))  BY DEF HasValue, Error
<1>2. ~Asks(call, "==")  BY DEF Asks, Operator, Symbol
<1> QED
  BY <1>1, <1>2 DEF Promised, Equates, KeepsClaims, Matches, LooksUp, Tells, BindsSelf, BindsCell,
       CreatesOne, Instantiates

(* The call of such a thing ends.                                           *)
LEMMA ErrorKeeps ==
  ASSUME Invariant, In("call"), Current.f.type # "SYMBOL", Aside, UNCHANGED cells,
         NEW why, Finish(Error(why))
  PROVE  Invariant'
<1>1. PICK S : Inv(S)  BY DEF Invariant
<1>2. Promised(Current, Error(why))  BY Fails
<1>3. IsAnswer(Error(why), S)  BY DEF IsAnswer, Error
<1> QED  BY <1>1, <1>2, <1>3, CallFinishes

(* Things that cannot be called.                                            *)
LEMMA CallFailKeeps ==
  ASSUME Invariant, CallFail, KeepCells
  PROVE  Invariant'
<1>1. In("call") /\ Current.f.type # "SYMBOL"  BY DEF CallFail, Calling
<1>2. Aside /\ UNCHANGED cells /\ Finish(Error("call"))  BY DEF CallFail, KeepCells
<1> QED  BY <1>1, <1>2, ErrorKeeps

(* An object that is called.                                                *)
LEMMA CallObjectKeeps ==
  ASSUME Invariant, CallObject, KeepCells
  PROVE  Invariant'
<1> DEFINE f == Current.f
           a == Call(Callable(f), Arguments)
<1>1. PICK S : Inv(S)  BY DEF Invariant
<1>2. In("call") /\ f.type = "OBJECT"  BY DEF CallObject, Calling
<1>3. Aside /\ UNCHANGED cells  BY DEF CallObject, KeepCells
<1>4. CASE Key(Operator("call")) \notin DOMAIN f.map
  <2>1. Finish(Error("call"))  BY <1>4 DEF CallObject
  <2> QED  BY <1>2, <1>3, <2>1, ErrorKeeps
<1>5. CASE Key(Operator("call")) \in DOMAIN f.map
  <2>1. Become(a)  BY <1>5 DEF CallObject
  <2>2. f \in S  BY <1>1, <1>2, TheCall DEF Natives, Native, IsVararg
  <2>3. ObjectOf(f, S)  BY <1>1, <1>2, <2>2, Basics, Classes
  <2>4. Callable(f) \in S  BY <1>5, <2>3, ValuesGiven DEF Callable
  <2>5. a \in Calls(S) /\ a.kind = "call"  BY <1>1, <1>2, <2>4, TheCall DEF Calls, Call
  <2>6. ASSUME NEW r, Post(a, r) PROVE Promised(Current, r)
    <3>1. Promised(a, r)  BY <2>5, <2>6 DEF Post
    <3>2. a.f = Callable(f) /\ a.args = Current.args  BY DEF Call, Arguments
    <3>3. Equates(Current, r) /\ KeepsClaims(Current, r) /\ LooksUp(Current, r) /\ Tells(Current, r)
      BY <1>2 DEF Equates, Asks, Operator, Symbol, KeepsClaims, LooksUp, Tells
    <3>4. Matches(Current, r) /\ BindsSelf(Current, r)
      BY <1>2 DEF Matches, Native, BindsSelf, Binder
    <3>5. BindsCell(Current, r)  BY <3>1, <3>2 DEF Promised, BindsCell
    <3>6. CreatesOne(Current, r)
      BY <1>2, <3>1, <3>2 DEF Promised, CreatesOne, IsVararg, Constructs
    <3> QED  BY <3>3, <3>4, <3>5, <3>6 DEF Promised
  <2> QED  BY <1>1, <1>2, <1>3, <2>1, <2>5, <2>6, CallBecomes DEF Activations
<1> QED  BY <1>4, <1>5

-----------------------------------------------------------------------------
(* Activations that wait.                                                   *)

(* What waits, and the answer it has got.                                   *)
LEMMA TheWaiting ==
  ASSUME NEW S, Inv(S), calls # <<>>
  PROVE  /\ Current.kind # "call" => Current \in Activations(S)
         /\ Current.kind = "compare" => Current \in Comparisons(S)
         /\ Current.kind = "assert_equal" => Current \in Assertions(S)
         /\ Current.kind = "unpack_call" => Current \in Unpackings
         /\ Current.kind = "construct" => Current \in Constructions(S)
         /\ returned # Waiting => IsAnswer(returned, S) /\ Needs(Current, returned)
<1>1. calls \in Seq(Activations(S) \cup EarlyCalls(S)) /\ Len(calls) \in Nat \ {0}
  BY DEF Inv, Stack
<1>2. Current.kind # "call" => Current \in Activations(S)
  <2>1. Current \in Activations(S) \cup EarlyCalls(S)  BY <1>1 DEF Current
  <2> QED  BY <2>1 DEF EarlyCalls
<1>3. /\ Current.kind = "compare" => Current \in Comparisons(S)
      /\ Current.kind = "assert_equal" => Current \in Assertions(S)
      /\ Current.kind = "unpack_call" => Current \in Unpackings
      /\ Current.kind = "construct" => Current \in Constructions(S)
  BY <1>2 DEF Activations, Calls, Comparisons, Assertions, Unpackings, Constructions
<1>4. returned # Waiting => IsAnswer(returned, S) /\ Needs(Current, returned)
  BY <1>1 DEF Inv, Stack, Promises, Awaited, Current
<1> QED  BY <1>2, <1>3, <1>4

(* It answers.                                                              *)
LEMMA WaitingFinishes ==
  ASSUME NEW S, Inv(S), calls # <<>>, Aside, UNCHANGED cells, NEW r, IsAnswer(r, S),
         Post(Current, r), Finish(r)
  PROVE  Invariant'
<1>1. Inv(S)'  BY Asides, Finishes
<1> QED  BY <1>1 DEF Invariant

(* It goes on.                                                              *)
LEMMA WaitingBecomes ==
  ASSUME NEW S, Inv(S), calls # <<>>, Aside, UNCHANGED cells,
         NEW a \in Activations(S), OwnCell(a),
         \A r : Post(a, r) => Post(Current, r), Become(a)
  PROVE  Invariant'
<1>1. Inv(S)'  BY Asides, Becomes
<1> QED  BY <1>1 DEF Invariant

(* It makes another call.                                                   *)
LEMMA WaitingEnters ==
  ASSUME NEW S, Inv(S), calls # <<>>, Aside, UNCHANGED cells,
         NEW a \in Activations(S), a.kind # "call", OwnCell(a), NEW call \in Calls(S),
         \A r : Post(a, r) => Post(Current, r),
         \A r : Promised(call, r) => Needs(a, r), Enter(a, call)
  PROVE  Invariant'
<1>1. Inv(S)'  BY Asides, Enters
<1> QED  BY <1>1 DEF Invariant

-----------------------------------------------------------------------------
(* Tuples.                                                                  *)

(* The symbols the code itself sends are there.                             *)
LEMMA OperatorsThere ==
  ASSUME NEW S, Inv(S)
  PROVE  /\ Operator("==") \in S /\ Operator("responds_to") \in S /\ Operator("unpack") \in S
         /\ Operator("call") \in S
         /\ Operator("==") \in Created /\ Operator("responds_to") \in Created
         /\ Operator("call") \in Created /\ Operator("unpack") \in Created
         /\ \A n : Operator(n).type = "SYMBOL" /\ Operator(n).id = SYM(n) /\ Operator(n).nth = SYM(n)
<1>1. /\ SYMBOLS[5] = "==" /\ SYMBOLS[16] = "call" /\ SYMBOLS[17] = "responds_to"
      /\ SYMBOLS[18] = "unpack"
  BY DEF SYMBOLS
<1>2. \A i \in 1..18 : Operator(SYMBOLS[i]) \in Created  BY Basics, OperatorsCreated
<1>3. /\ Operator("==") \in Created /\ Operator("responds_to") \in Created
      /\ Operator("call") \in Created /\ Operator("unpack") \in Created
  <2>1. Operator(SYMBOLS[5]) \in Created /\ Operator(SYMBOLS[16]) \in Created
          /\ Operator(SYMBOLS[17]) \in Created /\ Operator(SYMBOLS[18]) \in Created
    BY <1>2
  <2> QED  BY <1>1, <2>1
<1>4. \A n : Operator(n).type = "SYMBOL" /\ Operator(n).id = SYM(n) /\ Operator(n).nth = SYM(n)
  BY DEF Operator, Symbol
<1> QED  BY <1>3, <1>4, Basics

(* What is promised of a comparison of tuples.                              *)
LEMMA ComparisonPromised ==
  ASSUME NEW S, Inv(S), NEW call, NEW r, call.f.type = "SYMBOL", Compares(call.f, call.args),
         Equates(call, r),
         call.args[1] \in Plain => r # Error("responds"),
         HasValue(r) => r.thing.type = "BOOL"
  PROVE  Promised(call, r)
<1>1. call.args[1].type = "TUPLE" /\ Among(call.f, {"==", "!="})  BY DEF Compares
<1>2. KeepsClaims(call, r)  BY <1>1 DEF KeepsClaims, Steady
<1>3. LooksUp(call, r)  BY <1>1 DEF LooksUp
<1>4. Tells(call, r)
  <2>1. SYM("==") # SYM("responds_to") /\ SYM("!=") # SYM("responds_to")  BY Apart
  <2> QED  BY <1>1, <2>1 DEF Tells, Among, Is
<1>5. BindsCell(call, r)  BY DEF BindsCell, Binder
<1> QED  BY <1>2, <1>3, <1>4, <1>5, SymbolPromised

(* Two tuples are to be compared: of different sizes they are not equal.    *)
LEMMA CompareTuplesKeeps ==
  ASSUME Invariant, CompareTuples, KeepCells
  PROVE  Invariant'
<1> DEFINE x == Arguments[1]
           y == Arguments[2]
           c == Comparing(Is(Current.f, "=="), x.elements, y.elements, 1)
<1>1. PICK S : Inv(S)  BY DEF Invariant
<1>2. In("call") /\ Current.f.type = "SYMBOL" /\ Compares(Current.f, Arguments)
  BY DEF CompareTuples, Calling
<1>3. Aside /\ UNCHANGED cells  BY DEF CompareTuples, KeepCells
<1>4. Arguments \in Seq(S)  BY <1>1, <1>2, TheCall
<1>5. x.type = "TUPLE"  BY <1>2 DEF Compares
<1>6. CASE ~WellTyped(Arguments, <<"TUPLE", "TUPLE">>)
  <2>1. Finish(Error("type"))  BY <1>6 DEF CompareTuples
  <2>2. Len(Arguments) = 2 => y.type # "TUPLE"  BY <1>4, <1>5, <1>6 DEF WellTyped
  <2>3. Equates(Current, Error("type"))
    BY <1>5, <2>2 DEF Equates, HasValue, Error, Arguments
  <2>4. Promised(Current, Error("type"))
    BY <1>1, <1>2, <2>3, ComparisonPromised DEF Arguments, Error, HasValue
  <2>5. IsAnswer(Error("type"), S)  BY DEF IsAnswer, Error
  <2> QED  BY <1>1, <1>2, <1>3, <2>1, <2>4, <2>5, CallFinishes
<1>7. CASE WellTyped(Arguments, <<"TUPLE", "TUPLE">>)
  <2>1. Len(Arguments) = 2 /\ y.type = "TUPLE"  BY <1>7 DEF WellTyped
  <2>2. x \in S /\ y \in S
    <3>1. 1 \in 1..Len(Arguments) /\ 2 \in 1..Len(Arguments)  BY <2>1
    <3> QED  BY <1>4, <3>1, ElementOf
  <2>3. TupleOf(x, S) /\ TupleOf(y, S)  BY <1>1, <1>5, <2>1, <2>2, Basics, Classes
  <2>4. x = Tuple(x.elements) /\ y = Tuple(y.elements) /\ x.elements \in Seq(S) /\ y.elements \in Seq(S)
    BY <2>3 DEF TupleOf
  <2>5. CASE Len(x.elements) # Len(y.elements)
    <3> DEFINE r == Answer(BoolThing(FALSE))
    <3>1. Finish(r)  BY <1>7, <2>5 DEF CompareTuples
    <3>2. (x = y) = FALSE  BY <2>5
    <3>3. Equates(Current, r)  BY <3>2 DEF Equates, HasValue, Answer, Arguments
    <3>4. Promised(Current, r)
      BY <1>1, <1>2, <3>3, ComparisonPromised DEF Arguments, Answer, Error, BoolThing
    <3>5. IsAnswer(r, S)  BY <1>1, Basics DEF IsAnswer, Answer
    <3> QED  BY <1>1, <1>2, <1>3, <3>1, <3>4, <3>5, CallFinishes
  <2>6. CASE Len(x.elements) = Len(y.elements)
    <3>1. Become(c)  BY <1>7, <2>6 DEF CompareTuples
    <3>2. /\ c.kind = "compare" /\ c.a = x.elements /\ c.b = y.elements /\ c.i = 1
          /\ c.all = Is(Current.f, "==")
      BY DEF Comparing
    <3>3. c \in Comparisons(S)
      <4>1. Is(Current.f, "==") \in BOOLEAN  BY DEF Is
      <4>2. Len(x.elements) \in Nat  BY <2>4
      <4>3. 1 <= Len(x.elements) + 1  BY <4>2
      <4> QED  BY <2>4, <2>6, <4>1, <4>3 DEF Comparisons, Comparing
    <3>4. ASSUME NEW r, Post(c, r) PROVE Promised(Current, r)
      <4>1. RestEquates(c, r)  BY <3>2, <3>4 DEF Post
      <4>2. x \in Plain => ArePlain(c.a)
        <5>1. x \in Plain => x.elements \in Seq(Plain)  BY <1>5, PlainFacts
        <5> QED  BY <3>2, <5>1, ElementOf DEF ArePlain
      <4>3. y \in Plain => ArePlain(c.b)
        <5>1. y \in Plain => y.elements \in Seq(Plain)  BY <2>1, PlainFacts
        <5> QED  BY <3>2, <5>1, ElementOf DEF ArePlain
      <4>4. (x = y) = (\A j \in c.i..Len(c.a) : c.a[j] = c.b[j])
        <5>1. (\A j \in 1..Len(x.elements) : x.elements[j] = y.elements[j]) => x.elements = y.elements
          BY <2>4, <2>6
        <5> QED  BY <2>4, <3>2, <5>1
      <4>5. Equates(Current, r)
        <5> SUFFICES ASSUME Asks(Current, "=="), r # Waiting, Len(Arguments) = 2, ArePlain(Arguments)
                     PROVE  /\ HasValue(r) => r.thing = BoolThing(x = y)
                            /\ x = y => HasValue(r)
          BY DEF Equates, Arguments
        <5>1. c.all = TRUE
          <6>1. Is(Current.f, "==")  BY DEF Asks, Operator, Symbol, Is
          <6> QED  BY <3>2, <6>1
        <5>2. x \in Plain /\ y \in Plain  BY <2>1 DEF ArePlain
        <5> QED  BY <4>1, <4>2, <4>3, <4>4, <5>1, <5>2 DEF RestEquates
      <4> QED  BY <1>1, <1>2, <4>1, <4>2, <4>5, ComparisonPromised DEF Arguments, RestEquates
    <3> QED  BY <1>1, <1>2, <1>3, <3>1, <3>2, <3>3, <3>4, CallBecomes DEF Activations
  <2> QED  BY <2>5, <2>6
<1> QED  BY <1>6, <1>7

(* The next pair of elements, or the end.                                   *)
LEMMA CompareElementKeeps ==
  ASSUME Invariant, CompareElement, KeepCells
  PROVE  Invariant'
<1> DEFINE i == Current.i
           call == Call(Operator("=="), <<Current.a[i], Current.b[i]>>)
<1>1. PICK S : Inv(S)  BY DEF Invariant
<1>2. calls # <<>> /\ Current.kind = "compare"  BY DEF CompareElement, In
<1>3. Aside /\ UNCHANGED cells  BY DEF CompareElement, KeepCells
<1>4. /\ Current \in Activations(S)
      /\ Current.a \in Seq(S) /\ Current.b \in Seq(S) /\ Len(Current.a) = Len(Current.b)
      /\ i \in Nat \ {0} /\ i <= Len(Current.a) + 1 /\ Current.all \in BOOLEAN
  <2>1. Current \in Comparisons(S) /\ Current \in Activations(S)  BY <1>1, <1>2, TheWaiting
  <2> QED  BY <2>1 DEF Comparisons
<1>5. CASE i > Len(Current.a)
  <2> DEFINE r == Answer(BoolThing(Current.all))
  <2>1. Finish(r)  BY <1>5 DEF CompareElement
  <2>2. RestEquates(Current, r)
    <3>1. (\A j \in i..Len(Current.a) : Current.a[j] = Current.b[j]) = TRUE  BY <1>4, <1>5
    <3>2. HasValue(r) /\ r.thing = BoolThing(Current.all) /\ r.thing.type = "BOOL" /\ r # Error("responds")
      BY DEF HasValue, Answer, Error, BoolThing
    <3>3. Current.all => r.thing = BoolThing(TRUE)  BY <1>4, <3>2
    <3> QED  BY <3>1, <3>2, <3>3 DEF RestEquates
  <2>3. Post(Current, r)  BY <1>2, <2>2 DEF Post
  <2>4. IsAnswer(r, S)  BY <1>1, <1>4, Basics DEF IsAnswer, Answer
  <2> QED  BY <1>1, <1>2, <1>3, <2>1, <2>3, <2>4, WaitingFinishes
<1>6. CASE ~(i > Len(Current.a))
  <2>1. Enter(Current, call)  BY <1>6 DEF CompareElement
  <2>2. i \in 1..Len(Current.a) /\ i \in 1..Len(Current.b)  BY <1>4, <1>6
  <2>3. Current.a[i] \in S /\ Current.b[i] \in S  BY <1>4, <2>2, ElementOf
  <2>4. call \in Calls(S)  BY <1>1, <2>3, OperatorsThere DEF Calls, Call
  <2>5. \A r : Promised(call, r) => Needs(Current, r)  BY <1>2, <2>2 DEF Needs
  <2> QED  BY <1>1, <1>2, <1>3, <1>4, <2>1, <2>4, <2>5, WaitingEnters DEF OwnCell
<1> QED  BY <1>5, <1>6

(* A pair decides, or the next is to be compared.                           *)
LEMMA ElementComparedKeeps ==
  ASSUME Invariant, ElementCompared, KeepCells
  PROVE  Invariant'
<1> DEFINE i == Current.i
           a == Current.a
           b == Current.b
           call == Call(Operator("=="), <<a[i], b[i]>>)
           next == [Current EXCEPT !.i = @ + 1]
<1>1. PICK S : Inv(S)  BY DEF Invariant
<1>2. calls # <<>> /\ Current.kind = "compare" /\ returned # Waiting  BY DEF ElementCompared, Got
<1>3. Aside /\ UNCHANGED cells  BY DEF ElementCompared, KeepCells
<1>4. /\ Current \in Comparisons(S)
      /\ a \in Seq(S) /\ b \in Seq(S) /\ Len(a) = Len(b) /\ Len(a) \in Nat
      /\ i \in Nat \ {0} /\ Current.all \in BOOLEAN
  <2>1. Current \in Comparisons(S)  BY <1>1, <1>2, TheWaiting
  <2> QED  BY <2>1 DEF Comparisons
<1>5. IsAnswer(returned, S) /\ i <= Len(a) /\ Promised(call, returned)
  BY <1>1, <1>2, TheWaiting DEF Needs
<1>6. i \in 1..Len(a)  BY <1>4, <1>5
<1>7. \/ returned.status = "error" /\ IsError(returned)
      \/ HasValue(returned) /\ ~IsError(returned)
  BY <1>5 DEF IsAnswer, IsError, HasValue
<1>8. ArePlain(a) => returned # Error("responds")
  <2> SUFFICES ASSUME ArePlain(a) PROVE returned # Error("responds")
    OBVIOUS
  <2>1. a[i] \in Plain  BY <1>4, <1>6 DEF ArePlain
  <2>2. a[i].type \in {"INT", "STR", "TUPLE"}  BY <2>1, PlainFacts
  <2>3. Claims(a[i], Operator("=="))
    BY <2>2 DEF Claims, ClaimsOf, Among, Is, Operator, Symbol
  <2>4. KeepsClaims(call, returned) /\ call.f = Operator("==") /\ call.args[1] = a[i]
    BY <1>5 DEF Promised, Call
  <2> QED  BY <2>1, <2>3, <2>4 DEF KeepsClaims, Operator, Symbol
<1>9. ASSUME ArePlain(a), ArePlain(b)
      PROVE  /\ HasValue(returned) => returned.thing = BoolThing(a[i] = b[i])
             /\ a[i] = b[i] => HasValue(returned)
  <2>1. a[i] \in Plain /\ b[i] \in Plain  BY <1>4, <1>6, <1>9 DEF ArePlain
  <2>2. ArePlain(<<a[i], b[i]>>) /\ Len(<<a[i], b[i]>>) = 2  BY <2>1 DEF ArePlain
  <2>3. Equates(call, returned) /\ call.f = Operator("==") /\ call.args = <<a[i], b[i]>>
    BY <1>5 DEF Promised, Call
  <2> QED  BY <1>2, <2>2, <2>3 DEF Equates, Asks
<1>10. (\A j \in i..Len(a) : a[j] = b[j]) => a[i] = b[i]  BY <1>4, <1>5
<1>11. CASE IsError(returned)
  <2>1. Finish(returned)  BY <1>11 DEF ElementCompared
  <2>2. RestEquates(Current, returned)  BY <1>7, <1>8, <1>9, <1>10, <1>11 DEF RestEquates, IsError, HasValue
  <2> QED  BY <1>1, <1>2, <1>3, <1>5, <2>1, <2>2, WaitingFinishes DEF Post
<1>12. CASE ~IsError(returned) /\ returned.thing.type # "BOOL"
  <2>1. Finish(Error("type"))  BY <1>12 DEF ElementCompared
  <2>2. ArePlain(a) /\ ArePlain(b) => a[i] # b[i]  BY <1>7, <1>9, <1>12 DEF BoolThing
  <2>3. RestEquates(Current, Error("type"))  BY <1>10, <2>2 DEF RestEquates, HasValue, Error
  <2>4. IsAnswer(Error("type"), S)  BY DEF IsAnswer, Error
  <2> QED  BY <1>1, <1>2, <1>3, <2>1, <2>3, <2>4, WaitingFinishes DEF Post
<1>13. CASE ~IsError(returned) /\ returned.thing.type = "BOOL"
  <2>1. returned.thing \in S
    BY <1>5, <1>7, <1>13 DEF IsAnswer, HasValue, IsError, Bound
  <2>2. returned.thing = BoolThing(returned.thing.bool) /\ returned.thing.bool \in BOOLEAN
    BY <1>1, <1>13, <2>1, Basics, Classes
  <2>3. CASE returned.thing.bool # Current.all
    <3>1. Finish(returned)  BY <1>13, <2>3 DEF ElementCompared, Decides
    <3>2. RestEquates(Current, returned)
      <4>1. Current.all => returned.thing.bool = FALSE  BY <2>2, <2>3
      <4>2. Current.all /\ ArePlain(a) /\ ArePlain(b) => a[i] # b[i]
        <5>1. ArePlain(a) /\ ArePlain(b) => returned.thing = BoolThing(a[i] = b[i])
          BY <1>7, <1>9, <1>13
        <5>2. BoolThing(a[i] = b[i]).bool = (a[i] = b[i])  BY DEF BoolThing
        <5> QED  BY <4>1, <5>1, <5>2
      <4>3. Current.all /\ ArePlain(a) /\ ArePlain(b) =>
              (\A j \in i..Len(a) : a[j] = b[j]) = FALSE
        BY <1>10, <4>2
      <4>4. Current.all => returned.thing = BoolThing(FALSE)  BY <2>2, <4>1
      <4> QED  BY <1>8, <1>13, <4>3, <4>4 DEF RestEquates
    <3> QED  BY <1>1, <1>2, <1>3, <1>5, <3>1, <3>2, WaitingFinishes DEF Post
  <2>4. CASE returned.thing.bool = Current.all
    <3>1. Become(next)  BY <1>13, <2>4 DEF ElementCompared, Decides
    <3>2. /\ next.kind = "compare" /\ next.a = a /\ next.b = b /\ next.i = i + 1
          /\ next.all = Current.all /\ next \in Comparisons(S)
      BY <1>4, <1>5 DEF Comparisons
    <3>3. ASSUME NEW r, RestEquates(next, r) PROVE RestEquates(Current, r)
      <4>1. Current.all /\ ArePlain(a) /\ ArePlain(b) => a[i] = b[i]
        <5>1. ArePlain(a) /\ ArePlain(b) => returned.thing = BoolThing(a[i] = b[i])
          BY <1>7, <1>9, <1>13
        <5>2. BoolThing(a[i] = b[i]).bool = (a[i] = b[i])  BY DEF BoolThing
        <5>3. Current.all => returned.thing.bool = TRUE  BY <2>4
        <5> QED  BY <5>1, <5>2, <5>3
      <4>2. Current.all /\ ArePlain(a) /\ ArePlain(b) =>
              (\A j \in i..Len(a) : a[j] = b[j]) = (\A j \in (i + 1)..Len(a) : a[j] = b[j])
        <5>1. \A j \in i..Len(a) : j = i \/ j \in (i + 1)..Len(a)  BY <1>4
        <5>2. \A j \in (i + 1)..Len(a) : j \in i..Len(a)  BY <1>4
        <5> QED  BY <4>1, <5>1, <5>2
      <4> QED  BY <3>2, <3>3, <4>2 DEF RestEquates
    <3> QED  BY <1>1, <1>2, <1>3, <3>1, <3>2, <3>3, WaitingBecomes DEF Post, OwnCell, Activations
  <2> QED  BY <2>3, <2>4
<1> QED  BY <1>11, <1>12, <1>13

-----------------------------------------------------------------------------
(* Natives and the functions of the program.                                *)

(* What is promised of natives, and of functions of the program.            *)
LEMMA NativePromised ==
  ASSUME NEW call, NEW r, call.f.type \notin {"SYMBOL", "OBJECT", "VARARG"}, call.f # Binder,
         Matches(call, r), HasValue(r) => r.thing # Binder /\ r.thing.type # "VARARG"
  PROVE  Promised(call, r)
<1>1. ~Asks(call, "==")  BY DEF Asks, Operator, Symbol
<1>2. CreatesOne(call, r)  BY DEF CreatesOne, IsVararg, Constructs
<1>3. BindsCell(call, r)  BY DEF BindsCell
<1> QED  BY <1>1, <1>2, <1>3 DEF Promised, Equates, KeepsClaims, LooksUp, Tells, BindsSelf

(* The natives check their arguments and make a call.                       *)
LEMMA CallNativeKeeps ==
  ASSUME Invariant, CallNative, KeepCells
  PROVE  Invariant'
<1>1. PICK S : Inv(S)  BY DEF Invariant
<1>2. In("call") /\ Current.f.type = "NATIVE_FUNC"  BY DEF CallNative, Calling
<1>3. Aside /\ UNCHANGED cells  BY DEF CallNative, KeepCells
<1>4. calls # <<>> /\ Arguments \in Seq(S) /\ Arguments # <<>> /\ Current.f \in S \cup Natives
  BY <1>1, <1>2, TheCall DEF IsVararg
<1>5. Current.f \in Natives
  <2>1. Current.f \notin S  BY <1>1, <1>2, Basics, Classes
  <2> QED  BY <1>4, <2>1
<1>6. ASSUME NEW why, Finish(Error(why)) PROVE Invariant'
  BY <1>2, <1>3, <1>6, ErrorKeeps
<1>7. CASE Current.f = Native("assert_equal")
  <2> DEFINE a == [kind |-> "assert_equal", args |-> Arguments]
             call == Call(Operator("=="), Arguments)
  <2>1. Current.f.name = "assert_equal"  BY <1>7 DEF Native
  <2>2. CASE Len(Arguments) # 2
    <3>1. Finish(Error("arity"))  BY <2>1, <2>2 DEF CallNative
    <3> QED  BY <1>6, <3>1
  <2>3. CASE Len(Arguments) = 2
    <3>1. Enter(a, call)  BY <2>1, <2>3 DEF CallNative
    <3>2. a \in Assertions(S) /\ a.kind = "assert_equal" /\ a.args = Arguments
      BY <1>4, <2>3 DEF Assertions
    <3>3. call \in Calls(S)  BY <1>1, <1>4, OperatorsThere DEF Calls, Call
    <3>4. ASSUME NEW r, Post(a, r) PROVE Post(Current, r)
      <4>1. HasValue(r) => r.thing = None /\ (ArePlain(Arguments) => Arguments[1] = Arguments[2])
        BY <3>2, <3>4 DEF Post
      <4>2. Matches(Current, r)  BY <1>7, <4>1 DEF Matches, Native, Arguments
      <4>3. Promised(Current, r)
        BY <1>2, <4>1, <4>2, NativePromised DEF None, Binder
      <4> QED  BY <1>1, <1>2, <4>3, TheCall
    <3>5. \A r : Promised(call, r) => Needs(a, r)  BY <3>2 DEF Needs
    <3> QED
      BY <1>1, <1>3, <1>4, <3>1, <3>2, <3>3, <3>4, <3>5, WaitingEnters DEF Activations, OwnCell
  <2> QED  BY <2>2, <2>3
<1>8. CASE Current.f = Native("unpack_call")
  <2> DEFINE a == [kind |-> "unpack_call", size |-> Arguments[3].int]
             call == Call(Operator("unpack"), <<Arguments[1], Arguments[2]>>)
  <2>1. Current.f.name = "unpack_call"  BY <1>8 DEF Native
  <2>2. CASE Len(Arguments) # 3
    <3>1. Finish(Error("arity"))  BY <2>1, <2>2 DEF CallNative
    <3> QED  BY <1>6, <3>1
  <2>3. CASE Len(Arguments) = 3 /\ Arguments[3].type # "INT"
    <3>1. Finish(Error("type"))  BY <2>1, <2>3 DEF CallNative
    <3> QED  BY <1>6, <3>1
  <2>4. CASE Len(Arguments) = 3 /\ Arguments[3].type = "INT"
    <3>1. Enter(a, call)  BY <2>1, <2>4 DEF CallNative
    <3>2. Arguments[1] \in S /\ Arguments[2] \in S /\ Arguments[3] \in S
      <4>1. 1 \in 1..Len(Arguments) /\ 2 \in 1..Len(Arguments) /\ 3 \in 1..Len(Arguments)
        BY <2>4
      <4> QED  BY <1>4, <4>1, ElementOf
    <3>3. Arguments[3].int \in Int  BY <1>1, <2>4, <3>2, Basics, Classes
    <3>4. a \in Unpackings /\ a.kind = "unpack_call" /\ a.size = Arguments[3].int
      BY <3>3 DEF Unpackings
    <3>5. call \in Calls(S)  BY <1>1, <3>2, OperatorsThere DEF Calls, Call
    <3>6. ASSUME NEW r, Post(a, r) PROVE Post(Current, r)
      <4>1. HasValue(r) => r.thing.type = "TUPLE" /\ Len(r.thing.elements) = Arguments[3].int
        BY <3>4, <3>6 DEF Post
      <4>2. Matches(Current, r)  BY <1>8, <4>1 DEF Matches, Native, Arguments
      <4>3. Promised(Current, r)
        BY <1>2, <4>1, <4>2, NativePromised DEF Binder
      <4> QED  BY <1>1, <1>2, <4>3, TheCall
    <3>7. \A r : Promised(call, r) => Needs(a, r)  BY <3>4 DEF Needs
    <3> QED
      BY <1>1, <1>3, <1>4, <3>1, <3>4, <3>5, <3>6, <3>7, WaitingEnters DEF Activations, OwnCell
  <2> QED  BY <2>2, <2>3, <2>4
<1> QED  BY <1>5, <1>7, <1>8 DEF Natives

(* assert_equal answers none, if it was true.                               *)
LEMMA AssertedEqualKeeps ==
  ASSUME Invariant, AssertedEqual, KeepCells
  PROVE  Invariant'
<1> DEFINE call == Call(Operator("=="), Current.args)
<1>1. PICK S : Inv(S)  BY DEF Invariant
<1>2. calls # <<>> /\ Current.kind = "assert_equal" /\ returned # Waiting
  BY DEF AssertedEqual, Got
<1>3. Aside /\ UNCHANGED cells  BY DEF AssertedEqual, KeepCells
<1>4. IsAnswer(returned, S) /\ Promised(call, returned) /\ Current \in Assertions(S)
  BY <1>1, <1>2, TheWaiting DEF Needs
<1>5. CASE IsError(returned)
  <2>1. Finish(returned)
    <3>1. returned # Answer(BoolThing(TRUE))
      <4>1. Answer(BoolThing(TRUE)).status = "value"  BY DEF Answer
      <4> QED  BY <1>5, <4>1 DEF IsError
    <3> QED  BY <1>5, <3>1 DEF AssertedEqual
  <2>2. Post(Current, returned)  BY <1>2, <1>5 DEF Post, IsError, HasValue
  <2> QED  BY <1>1, <1>2, <1>3, <1>4, <2>1, <2>2, WaitingFinishes
<1>6. CASE ~IsError(returned) /\ returned = Answer(BoolThing(TRUE))
  <2>1. Finish(Answer(None))  BY <1>6 DEF AssertedEqual
  <2>2. ArePlain(Current.args) => Current.args[1] = Current.args[2]
    <3>1. Asks(call, "==") /\ call.args = Current.args /\ Len(Current.args) = 2
      BY <1>4 DEF Asks, Call, Assertions
    <3>2. HasValue(returned) /\ returned.thing = BoolThing(TRUE)  BY <1>6 DEF HasValue, Answer
    <3>3. ArePlain(Current.args) => returned.thing = BoolThing(Current.args[1] = Current.args[2])
      BY <1>2, <1>4, <3>1, <3>2 DEF Promised, Equates
    <3>4. BoolThing(Current.args[1] = Current.args[2]).bool = (Current.args[1] = Current.args[2])
            /\ BoolThing(TRUE).bool = TRUE
      BY DEF BoolThing
    <3> QED  BY <3>2, <3>3, <3>4
  <2>3. Post(Current, Answer(None))  BY <1>2, <2>2 DEF Post, Answer
  <2>4. IsAnswer(Answer(None), S)  BY <1>1, Basics DEF IsAnswer, Answer
  <2> QED  BY <1>1, <1>2, <1>3, <2>1, <2>3, <2>4, WaitingFinishes
<1>7. CASE ~IsError(returned) /\ returned # Answer(BoolThing(TRUE))
  <2>1. Finish(Error("assertion"))  BY <1>7 DEF AssertedEqual
  <2>2. Post(Current, Error("assertion"))  BY <1>2 DEF Post, HasValue, Error
  <2>3. IsAnswer(Error("assertion"), S)  BY DEF IsAnswer, Error
  <2> QED  BY <1>1, <1>2, <1>3, <2>1, <2>2, <2>3, WaitingFinishes
<1> QED  BY <1>5, <1>6, <1>7

(* unpack_call answers a tuple of the size asked for.                       *)
LEMMA UnpackedCallKeeps ==
  ASSUME Invariant, UnpackedCall, KeepCells
  PROVE  Invariant'
<1>1. PICK S : Inv(S)  BY DEF Invariant
<1>2. calls # <<>> /\ Current.kind = "unpack_call" /\ returned # Waiting
  BY DEF UnpackedCall, Got
<1>3. Aside /\ UNCHANGED cells  BY DEF UnpackedCall, KeepCells
<1>4. IsAnswer(returned, S)  BY <1>1, <1>2, TheWaiting
<1>5. CASE Finish(returned) /\ Post(Current, returned)
  BY <1>1, <1>2, <1>3, <1>4, <1>5, WaitingFinishes
<1>6. CASE Finish(Error("type"))
  <2>1. Post(Current, Error("type"))  BY <1>2 DEF Post, HasValue, Error
  <2>2. IsAnswer(Error("type"), S)  BY DEF IsAnswer, Error
  <2> QED  BY <1>1, <1>2, <1>3, <1>6, <2>1, <2>2, WaitingFinishes
<1>7. IsError(returned) => Finish(returned) /\ Post(Current, returned)
  BY <1>2 DEF UnpackedCall, Post, IsError, HasValue
<1>8. ~IsError(returned) /\ Fits(returned.thing, Current.size) => Finish(returned) /\ Post(Current, returned)
  BY <1>2 DEF UnpackedCall, Post, Fits
<1>9. ~IsError(returned) /\ ~Fits(returned.thing, Current.size) => Finish(Error("type"))
  BY DEF UnpackedCall
<1> QED  BY <1>5, <1>6, <1>7, <1>8, <1>9

(* A function of the program answers whatever it may.                       *)
LEMMA FunctionReturnsKeeps ==
  ASSUME Invariant, FunctionReturns, KeepCells
  PROVE  Invariant'
<1>1. PICK S : Inv(S)  BY DEF Invariant
<1>2. In("call") /\ Current.f = FuncThing  BY DEF FunctionReturns, Calling
<1>3. Aside /\ UNCHANGED cells  BY DEF FunctionReturns, KeepCells
<1>4. PICK r \in FunctionAnswers : Finish(r)  BY DEF FunctionReturns
<1>5. CASE \E t \in Data : r = Answer(t)
  <2>1. PICK t \in Data : r = Answer(t)  BY <1>5
  <2>2. t \in S  BY <1>1, <2>1, Basics
  <2>3. t # Binder /\ t.type # "VARARG"
    <3>1. CASE Scalar(t)
      BY <3>1 DEF Scalar, None, ListThing, ErrorThing, FuncThing, Binder
    <3>2. CASE ModuleOf(t, Data) \/ TupleOf(t, Data)
      BY <3>2 DEF ModuleOf, TupleOf, Binder
    <3> QED  BY <2>1, <3>1, <3>2, DataAssumption
  <2>4. Current.f # Binder /\ Current.f.type = "FUNC"  BY <1>2 DEF FuncThing, Binder
  <2>5. Matches(Current, r)  BY <2>4 DEF Matches, Native
  <2>6. Promised(Current, r)  BY <2>1, <2>3, <2>4, <2>5, NativePromised DEF Answer
  <2>7. IsAnswer(r, S)  BY <2>1, <2>2 DEF IsAnswer, Answer
  <2> QED  BY <1>1, <1>2, <1>3, <1>4, <2>6, <2>7, CallFinishes
<1>6. CASE r = Error(r.why)
  <2>1. Current.f.type # "SYMBOL"  BY <1>2 DEF FuncThing
  <2> QED  BY <1>2, <1>3, <1>4, <1>6, <2>1, ErrorKeeps
<1> QED  BY <1>5, <1>6, AnswersAssumption

-----------------------------------------------------------------------------
(* The library's functions.                                                 *)

(* What is called and is neither a symbol, a native nor an object.          *)
LEMMA FunctionPromised ==
  ASSUME NEW call, NEW r, call.f.type \in {"FUNC", "VARARG"},
         BindsSelf(call, r), BindsCell(call, r),
         IsVararg(call.f, "constructor") => Instantiates(call.f.object, r)
  PROVE  Promised(call, r)
<1>1. ~Asks(call, "==")  BY DEF Asks, Operator, Symbol
<1>2. Matches(call, r)  BY DEF Matches, Native
<1>3. CreatesOne(call, r)  BY DEF CreatesOne, Constructs
<1> QED  BY <1>1, <1>2, <1>3 DEF Promised, Equates, KeepsClaims, LooksUp, Tells

(* bind answers a bound method.                                             *)
LEMMA CallBindKeeps ==
  ASSUME Invariant, CallBind
  PROVE  Invariant'
<1>1. PICK S : Inv(S)  BY DEF Invariant
<1>2. In("call") /\ Current.f = Binder /\ Current.f.type = "FUNC"
  BY DEF CallBind, Calling
<1>3. Aside /\ UNCHANGED cells  BY DEF CallBind, KeepCells
<1>4. CASE Len(Arguments) = 1
  <2> DEFINE r == Answer(Bound(Arguments[1]))
  <2>1. Finish(r)  BY <1>4 DEF CallBind
  <2>2. Arguments[1] \in S  BY <1>1, <1>2, TheCall
  <2>3. IsAnswer(r, S)  BY <2>2 DEF IsAnswer, Answer
  <2>4. BindsSelf(Current, r)  BY <1>4 DEF BindsSelf, Answer, Arguments
  <2>5. BindsCell(Current, r)  BY <1>4 DEF BindsCell, Answer, Arguments, Bound, Binder
  <2>6. Promised(Current, r)  BY <1>2, <2>4, <2>5, FunctionPromised DEF IsVararg
  <2> QED  BY <1>1, <1>2, <1>3, <2>1, <2>3, <2>6, CallFinishes
<1>5. CASE Len(Arguments) # 1
  <2>1. Finish(Error("arity"))  BY <1>5 DEF CallBind
  <2> QED  BY <1>2, <1>3, <2>1, ErrorKeeps
<1> QED  BY <1>4, <1>5

(* The last of two sequences put together.                                  *)
LEMMA LastOf ==
  ASSUME NEW S, NEW s \in Seq(S), NEW x \in S, s # <<>>
  PROVE  /\ <<x>> \o s \in Seq(S) /\ <<x>> \o s # <<>>
         /\ (<<x>> \o s)[Len(<<x>> \o s)] = s[Len(s)]
<1>1. Len(s) \in Nat \ {0}  OBVIOUS
<1>2. <<x>> \in Seq(S) /\ Len(<<x>>) = 1  OBVIOUS
<1>3. <<x>> \o s \in Seq(S) /\ Len(<<x>> \o s) = 1 + Len(s)  BY <1>2
<1>4. \A i \in 1..Len(s) : (<<x>> \o s)[1 + i] = s[i]  BY <1>2
<1> QED  BY <1>1, <1>3, <1>4

(* A bound method calls its function with the instance.                     *)
LEMMA CallBoundKeeps ==
  ASSUME Invariant, CallBound
  PROVE  Invariant'
<1> DEFINE f == Current.f
           c == Content(f.self.cell)
           a == Call(FuncThing, <<c>> \o Arguments)
<1>1. PICK S : Inv(S)  BY DEF Invariant
<1>2. In("call") /\ f.type = "VARARG" /\ f.code = "bound"
  BY DEF CallBound, Calling
<1>3. Aside /\ UNCHANGED cells  BY DEF CallBound, KeepCells
<1>4. Arguments \in Seq(S) /\ Arguments # <<>> /\ Current.args = Arguments
  BY <1>1, <1>2, TheCall DEF Arguments
<1>5. CASE f.self.type = "CELL"
  <2>1. Become(a)  BY <1>5 DEF CallBound
  <2>2. c \in S
    <3>1. cells \in Seq({None} \cup {t \in S : t.type = "OBJECT"})  BY <1>1 DEF Inv, Stack
    <3>2. None \in S  BY <1>1, Basics
    <3> QED  BY <3>1, <3>2 DEF Content
  <2>3. /\ <<c>> \o Arguments \in Seq(S) /\ <<c>> \o Arguments # <<>>
        /\ (<<c>> \o Arguments)[Len(<<c>> \o Arguments)] = Arguments[Len(Arguments)]
    BY <1>4, <2>2, LastOf
  <2>4. a \in Calls(S) /\ a.kind = "call" /\ a.args = <<c>> \o Arguments
    BY <1>1, <2>3, Basics DEF Calls, Call
  <2> HIDE DEF c, a
  <2>5. ASSUME NEW r, Post(a, r) PROVE Promised(Current, r)
    <3>1. BindsCell(a, r)  BY <2>4, <2>5 DEF Post, Promised
    <3>2. BindsCell(Current, r)  BY <1>4, <2>3, <2>4, <3>1 DEF BindsCell
    <3>3. BindsSelf(Current, r)  BY <1>2 DEF BindsSelf, Binder
    <3> QED  BY <1>2, <3>2, <3>3, FunctionPromised DEF IsVararg
  <2> QED  BY <1>1, <1>2, <1>3, <2>1, <2>4, <2>5, CallBecomes DEF Activations
<1>6. CASE f.self.type # "CELL"
  <2>1. Finish(Error("type"))  BY <1>6 DEF CallBound
  <2> QED  BY <1>2, <1>3, <2>1, ErrorKeeps
<1> QED  BY <1>5, <1>6

(* A method is called before its instance is finished.                      *)
LEMMA BindEarlyKeeps ==
  ASSUME Invariant, BindEarly
  PROVE  Invariant'
<1> DEFINE cell == Arguments[1]
           a == Call(Bound(cell), Arguments)
<1>1. PICK S : Inv(S)  BY DEF Invariant
<1>2. In("call") /\ Current.f = FuncThing /\ cell.type = "CELL" /\ Become(a)
  BY DEF BindEarly, Calling
<1>3. Aside /\ UNCHANGED cells  BY DEF BindEarly, KeepCells
<1>4. /\ Arguments \in Seq(S) /\ Arguments # <<>> /\ Current.args = Arguments /\ cell \in S
      /\ calls # <<>> /\ \A r : Promised(Current, r) => Post(Current, r)
  BY <1>1, <1>2, TheCall DEF Arguments
<1>5. a \in EarlyCalls(S) /\ a.kind = "call" /\ a.args = Arguments /\ a.f.self = cell
  BY <1>2, <1>4 DEF EarlyCalls, Call, Bound
<1>6. IsEarly(cell.cell, Len(calls))
  <2>1. CASE cell.cell \notin DOMAIN cells  BY <2>1 DEF IsEarly
  <2>2. CASE BeingBound(cell.cell)
    <3>1. PICK c : c = calls[Len(calls) - 1]  OBVIOUS
    <3>2. Len(calls) > 1 /\ c.kind = "construct" /\ c.cell = cell.cell
      BY <2>2, <3>1 DEF BeingBound
    <3>3. /\ calls \in Seq(Activations(S) \cup EarlyCalls(S))
          /\ Len(calls) - 1 \in 1..(Len(calls) - 1)
      BY <1>1, <3>2 DEF Inv, Stack
    <3>4. c \in Activations(S) \cup EarlyCalls(S)  BY <3>1, <3>3
    <3>5. c \in Constructions(S)
      BY <3>2, <3>4 DEF Activations, Calls, EarlyCalls, Comparisons, Assertions, Unpackings
    <3>6. cells[cell.cell] = None  BY <3>2, <3>5 DEF Constructions, Halfway
    <3> QED  BY <3>1, <3>2, <3>3, <3>6 DEF IsEarly, IsBeingMade
  <2> QED  BY <2>1, <2>2 DEF BindEarly
<1> HIDE DEF a
<1>7. ASSUME NEW r, Post(a, r) PROVE Post(Current, r)
  <2>1. BindsCell(a, r)  BY <1>5, <1>7 DEF Post, Promised
  <2>2. BindsCell(Current, r)  BY <1>4, <1>5, <2>1 DEF BindsCell
  <2>3. BindsSelf(Current, r)  BY <1>2 DEF BindsSelf, FuncThing, Binder
  <2>4. Promised(Current, r)
    BY <1>2, <2>2, <2>3, FunctionPromised DEF IsVararg, FuncThing
  <2> QED  BY <1>4, <2>4
<1>8. OwnCell(a)  BY <1>5 DEF OwnCell
<1>9. Inv(S)'  BY <1>1, <1>2, <1>3, <1>4, <1>5, <1>6, <1>7, <1>8, Asides, Becomes
<1> QED  BY <1>9 DEF Invariant

(* A constructor that has just begun.                                       *)
LEMMA Begins ==
  ASSUME NEW S, NEW object \in S, NEW n \in Nat, Still, Imported, object.type = "OBJECT",
         properties(object) \in Seq(Created \X S), n \in DOMAIN cells', cells'[n] = None
  PROVE  Constructing(object, n, "next", properties(object), <<>>) \in Activations(S)'
<1>1. PICK todo : todo = properties(object)  OBVIOUS
<1>2. PICK a : a = Constructing(object, n, "next", todo, <<>>)  OBVIOUS
<1>3. /\ a.kind = "construct" /\ a.object = object /\ a.cell = n /\ a.stage = "next"
      /\ a.todo = todo /\ a.done = <<>>
  BY <1>2 DEF Constructing
<1>4. properties(a.object)' = todo
  <2>1. properties(a.object)' = properties(a.object)  BY DEF properties, FirstPuts, Key, Symbol
  <2> QED  BY SMTT(30), <1>1, <1>3, <2>1
<1>5. Halfway(a, S)'
  <2>1. Imported' /\ cells'[n] = None'  BY StillSymbols DEF None
  <2>2. Len(<<>>) = 0 /\ Len(todo) \in Nat /\ \A j \in DOMAIN todo : j = 0 + j  BY <1>1
  <2> QED  BY <1>3, <1>4, <2>1, <2>2 DEF Halfway
<1>6. a \in Constructions(S)'
  <2>1. todo \in Seq(Created \X S)'  BY <1>1, StillSymbols
  <2> QED  BY <1>2, <1>5, <2>1 DEF Constructions, Constructing
<1> QED  BY <1>1, <1>2, <1>6 DEF Activations

(* A constructor begins, with a cell of its own.                            *)
LEMMA CallConstructorKeeps ==
  ASSUME Invariant, CallConstructor
  PROVE  Invariant'
<1> DEFINE object == Current.f.object
           n == Len(cells) + 1
           a == Constructing(object, n, "next", properties(object), <<>>)
<1>1. PICK S : Inv(S)  BY DEF Invariant
<1>2. In("call") /\ Current.f.type = "VARARG" /\ Current.f.code = "constructor"
  BY DEF CallConstructor, Calling
<1>3. Still /\ UNCHANGED result /\ cells' = Append(cells, None) /\ Become(a)
  BY DEF CallConstructor, Aside, Still
<1>4. Current.f \in S  BY <1>1, <1>2, TheCall DEF Natives, Native, IsVararg
<1>5. ConstructorOf(Current.f, S)
  BY <1>1, <1>2, <1>4, Basics, Classes DEF BoundOf, IsVararg
<1>6. Imported /\ object \in S /\ object.type = "OBJECT"  BY <1>5 DEF ConstructorOf
<1>7. ObjectOf(object, S)  BY <1>1, <1>6, Basics, Classes
<1>8. properties(object) \in Seq(Created \X S)  BY <1>1, <1>7, Basics, PropertiesFacts
<1>9. /\ cells \in Seq({None} \cup {t \in S : t.type = "OBJECT"}) /\ n \in Nat
      /\ cells' \in Seq({None} \cup {t \in S : t.type = "OBJECT"})
      /\ Len(cells') = n /\ cells'[n] = None /\ n \in DOMAIN cells' /\ n \notin DOMAIN cells
      /\ \A c \in DOMAIN cells : c \in DOMAIN cells' /\ cells'[c] = cells[c]
  <2>1. cells \in Seq({None} \cup {t \in S : t.type = "OBJECT"})  BY <1>1 DEF Inv, Stack
  <2> QED  BY <1>3, <2>1, AppendFacts
<1> HIDE DEF n
<1>10. \A i \in 1..(Len(calls) - 1) : calls[i].kind = "construct" => calls[i].cell \in DOMAIN cells
  <2> SUFFICES ASSUME NEW i \in 1..(Len(calls) - 1), calls[i].kind = "construct"
               PROVE  calls[i].cell \in DOMAIN cells
    OBVIOUS
  <2>1. calls \in Seq(Activations(S) \cup EarlyCalls(S)) /\ i \in 1..Len(calls)
    BY <1>1 DEF Inv, Stack
  <2>2. calls[i] \in Activations(S) \cup EarlyCalls(S)  BY <2>1
  <2>3. calls[i] \in Constructions(S)
    BY <2>2 DEF Activations, Calls, EarlyCalls, Comparisons, Assertions, Unpackings
  <2> QED  BY <2>3 DEF Constructions, Halfway
<1>11. CellsKept(S)  BY <1>9, <1>10 DEF CellsKept
<1>12. /\ a.kind = "construct" /\ a.object = object /\ a.cell = n /\ a.stage = "next"
       /\ a.todo = properties(object) /\ a.done = <<>>
  BY DEF Constructing
<1>13. OwnCell(a)  BY <1>9, <1>10, <1>12 DEF OwnCell
<1>14. a \in Activations(S)'
  BY <1>3, <1>6, <1>8, <1>9, Begins
<1>15. ASSUME NEW r, Post(a, r) PROVE Post(Current, r)
  <2>1. Instantiates(object, r)  BY <1>12, <1>15 DEF Post
  <2>2. BindsCell(Current, r)  BY <2>1 DEF BindsCell, Instantiates, Binder
  <2>3. BindsSelf(Current, r)  BY <1>2 DEF BindsSelf, Binder
  <2>4. Promised(Current, r)  BY <1>2, <2>1, <2>2, <2>3, FunctionPromised
  <2> QED  BY <1>1, <1>2, <2>4, TheCall
<1>16. calls # <<>>  BY <1>2 DEF In
<1>17. Inv(S)'  BY <1>1, <1>3, <1>11, <1>13, <1>14, <1>15, <1>16, Becomes
<1> QED  BY <1>17 DEF Invariant

(* Every name that a class claims is one of the runtime's.                  *)
LEMMA ClaimedNames ==
  ASSUME NEW type \in {"INT", "STR", "BOOL", "TUPLE", "FLOAT", "MODULE", "SYMBOL", "FUNC", "VARARG",
                       "CELL", "ERROR"}, NEW n \in ClaimsOf(type)
  PROVE  \E i \in 1..18 : n = SYMBOLS[i]
<1>1. n \in {"responds_to", "+", "-", "*", "/", "==", "!=", "<", "<=", ">", ">=", "not", "get", "."}
  BY DEF ClaimsOf
<1>2. /\ SYMBOLS[17] = "responds_to" /\ SYMBOLS[1] = "+" /\ SYMBOLS[2] = "-" /\ SYMBOLS[3] = "*"
      /\ SYMBOLS[4] = "/" /\ SYMBOLS[5] = "==" /\ SYMBOLS[6] = "!=" /\ SYMBOLS[7] = "<"
  BY DEF SYMBOLS
<1>3. /\ SYMBOLS[8] = "<=" /\ SYMBOLS[9] = ">" /\ SYMBOLS[10] = ">=" /\ SYMBOLS[13] = "not"
      /\ SYMBOLS[14] = "get" /\ SYMBOLS[15] = "."
  BY DEF SYMBOLS
<1>4. \A k \in {1, 2, 3, 4, 5, 6, 7, 8, 9, 10, 13, 14, 15, 17} : k \in 1..18
  OBVIOUS
<1>5. CASE n \in {"responds_to", "+", "-", "*", "/", "==", "!=", "<"}  BY <1>2, <1>4, <1>5
<1>6. CASE n \in {"<=", ">", ">=", "not", "get", "."}  BY <1>3, <1>4, <1>6
<1> QED  BY <1>1, <1>5, <1>6

(* No class claims the library's symbol.                                    *)
LEMMA NoClaims ==
  ASSUME NEW S, Inv(S), Imported, IdsFitByte, NEW v \in S, v.type \notin {"OBJECT", "NONE", "LIST"}
  PROVE  ~Claims(v, Bind)
<1> SUFFICES ASSUME Claims(v, Bind) PROVE FALSE
  OBVIOUS
<1>1. v.type \in {"INT", "STR", "BOOL", "TUPLE", "FLOAT", "MODULE", "SYMBOL", "FUNC", "VARARG",
                  "CELL", "ERROR"}
  BY Basics, Classes
<1>2. PICK n \in ClaimsOf(v.type) : Bind.id = SYM(n)
  BY DEF Claims, Among, Is
<1>3. PICK i \in 1..18 : n = SYMBOLS[i]  BY <1>1, <1>2, ClaimedNames
<1>4. Operator(n) \in Created /\ Operator(n).nth = program.before + i - 1 /\ Operator(n).id = SYM(n)
  BY <1>3, Basics, OperatorsCreated, OperatorsThere
<1>5. Key(Operator(n)) = Key(Bind)  BY <1>2, <1>4 DEF Key
<1>6. Bind \in Created /\ Bind.nth >= program.before + 18  BY BindCreated
<1>7. Operator(n).nth = Bind.nth  BY <1>4, <1>5, <1>6, Basics, KeysApart
<1>8. program.before \in Nat /\ Bind.nth \in Int  BY <1>6, Basics, CreatedFacts
<1> QED  BY <1>4, <1>6, <1>7, <1>8

(* A method has bind, and leaves responds_to to its class.                  *)
LEMMA MethodFacts ==
  ASSUME NEW S, Inv(S), NEW v \in S, IsMethod(v)
  PROVE  /\ Imported /\ v.type = "OBJECT"
         /\ Key(Bind) \in DOMAIN v.map /\ v.map[Key(Bind)] = Binder
         /\ IdsFitByte => Key(Operator("responds_to")) \notin DOMAIN v.map
<1>1. v.type = "OBJECT" /\ ObjectOf(v, S) /\ BinderUnderBind(v.map)
  BY Basics, Classes DEF IsMethod
<1>2. Imported /\ Key(Bind) \in DOMAIN v.map /\ v.map[Key(Bind)] = Binder
  BY <1>1 DEF IsMethod, ValuesOf, BinderUnderBind
<1>3. ASSUME IdsFitByte, Key(Operator("responds_to")) \in DOMAIN v.map PROVE FALSE
  <2>1. PICK i \in DOMAIN v.given : Key(v.given[i][1]) = Key(Operator("responds_to"))
    BY <1>1, <1>3 DEF ObjectOf, HoldsLast
  <2>2. v.given[i][1] \in Created  BY <1>1, <2>1 DEF ObjectOf
  <2>3. v.given[i][1].nth = Operator("responds_to").nth
    BY <1>3, <2>1, <2>2, Basics, OperatorsThere, KeysApart
  <2>4. v.given[i][1].nth = SYM("responds_to")  BY <2>3, OperatorsThere
  <2> QED  BY <2>1, <2>4 DEF IsMethod, Overrides
<1> QED  BY <1>1, <1>2, <1>3

(* A constructor that waits.                                                *)
LEMMA TheConstruction ==
  ASSUME NEW S, Inv(S), calls # <<>>, Current.kind = "construct"
  PROVE  /\ Current \in Constructions(S) /\ Halfway(Current, S) /\ Imported
         /\ Current.object \in S /\ Current.cell \in Nat
         /\ Current.todo \in Seq(Created \X S)
         /\ Current.done \in Seq(Created \X (S \cup {Bound(CellThing(n)) : n \in Nat}))
         /\ Current.todo # <<>> =>
              /\ Head(Current.todo) = Current.todo[1] /\ Head(Current.todo) \in Created \X S
              /\ Value = Current.todo[1][2] /\ Value \in S
         /\ \A a : a.cell = Current.cell => OwnCell(a)
<1>1. Current \in Constructions(S)  BY TheWaiting
<1>2. /\ Halfway(Current, S) /\ Current.object \in S /\ Current.cell \in Nat
      /\ Current.todo \in Seq(Created \X S)
      /\ Current.done \in Seq(Created \X (S \cup {Bound(CellThing(n)) : n \in Nat}))
  BY <1>1 DEF Constructions
<1>3. Imported  BY <1>2 DEF Halfway
<1>4. Current.todo # <<>> =>
        /\ Head(Current.todo) = Current.todo[1] /\ Head(Current.todo) \in Created \X S
        /\ Value = Current.todo[1][2] /\ Value \in S
  BY <1>2, TailFacts DEF Value
<1>5. ASSUME NEW a, a.cell = Current.cell PROVE OwnCell(a)
  <2>1. calls \in Seq(Activations(S) \cup EarlyCalls(S)) /\ Len(calls) \in DOMAIN calls
    BY DEF Inv, Stack
  <2>2. \A i \in 1..(Len(calls) - 1) : i \in DOMAIN calls /\ i # Len(calls)  BY <2>1
  <2>3. \A i \in 1..(Len(calls) - 1) : calls[i].kind = "construct" => calls[i].cell # Current.cell
    BY <2>1, <2>2 DEF Inv, Stack, Current
  <2> QED  BY <1>5, <2>3 DEF OwnCell
<1> QED  BY <1>1, <1>2, <1>3, <1>4, <1>5

(* The same property is kept in another stage.                              *)
LEMMA Stays ==
  ASSUME NEW S, Inv(S), calls # <<>>, Current.kind = "construct", NEW stage \in {"asked", "bound"},
         stage = "bound" /\ IdsFitByte => Value.type = "OBJECT", Current.todo # <<>>
  PROVE  LET a == [Current EXCEPT !.stage = stage]
         IN /\ a \in Activations(S) /\ a.kind = "construct" /\ OwnCell(a) /\ a.stage = stage
            /\ a.todo = Current.todo /\ a.cell = Current.cell
            /\ \A r : Post(a, r) => Post(Current, r)
<1> DEFINE a == [Current EXCEPT !.stage = stage]
<1>1. Current \in Constructions(S) /\ Halfway(Current, S) /\ Value = Current.todo[1][2]
  BY TheConstruction
<1>2. /\ a.kind = "construct" /\ a.object = Current.object /\ a.cell = Current.cell
      /\ a.stage = stage /\ a.todo = Current.todo /\ a.done = Current.done
  BY <1>1 DEF Constructions
<1>3. Halfway(a, S)  BY <1>1, <1>2 DEF Halfway
<1>4. a \in Constructions(S)  BY <1>1, <1>2, <1>3 DEF Constructions
<1>5. OwnCell(a)  BY <1>2, TheConstruction
<1>6. \A r : Post(a, r) => Post(Current, r)  BY <1>2 DEF Post
<1> QED  BY <1>2, <1>4, <1>5, <1>6 DEF Activations

(* The next property: the value has been bound, or is as it was.            *)
LEMMA GoesThrough ==
  ASSUME NEW S, Inv(S), calls # <<>>, Current.kind = "construct", Current.todo # <<>>,
         NEW v, CarriedOver(Value, v, Current.cell, S)
  PROVE  /\ With(v) \in Activations(S) /\ OwnCell(With(v))
         /\ \A r : Post(With(v), r) => Post(Current, r)
<1> DEFINE a == With(v)
           todo == Current.todo
           done == Current.done
           W == Created \X (S \cup {Bound(CellThing(n)) : n \in Nat})
           all == properties(Current.object)
           p == <<todo[1][1], v>>
<1>1. /\ Current \in Constructions(S) /\ Halfway(Current, S) /\ Current.cell \in Nat
      /\ todo \in Seq(Created \X S) /\ done \in Seq(W) /\ Head(todo) = todo[1]
      /\ todo[1] \in Created \X S /\ Value = todo[1][2]
  BY TheConstruction
<1>2. /\ a.kind = "construct" /\ a.object = Current.object /\ a.cell = Current.cell
      /\ a.stage = "next" /\ a.todo = Tail(todo) /\ a.done = <<p>> \o done
  BY <1>1 DEF Constructions, With
<1>3. p \in W  BY <1>1 DEF CarriedOver
<1>4. Len(todo) \in Nat \ {0} /\ Len(done) \in Nat  BY <1>1
<1>5. /\ Tail(todo) \in Seq(Created \X S) /\ Len(Tail(todo)) = Len(todo) - 1
      /\ \A j \in 1..(Len(todo) - 1) : Tail(todo)[j] = todo[j + 1]
  BY <1>1, TailFacts
<1>6. /\ <<p>> \o done \in Seq(W) /\ Len(<<p>> \o done) = 1 + Len(done)
      /\ (<<p>> \o done)[1] = p
      /\ \A j \in 2..(Len(done) + 1) : (<<p>> \o done)[j] = done[j - 1]
  <2>1. <<p>> \in Seq(W) /\ Len(<<p>>) = 1  BY <1>3
  <2> HIDE DEF W, p, done
  <2> QED  BY <1>1, <2>1
<1> HIDE DEF W, p
<1>7. Halfway(a, S)
  <2>1. /\ Len(done) + Len(todo) = Len(all)
        /\ \A j \in DOMAIN todo : todo[j] = all[Len(done) + j]
        /\ \A j \in DOMAIN done :
             /\ done[j][1] = all[Len(done) + 1 - j][1]
             /\ CarriedOver(all[Len(done) + 1 - j][2], done[j][2], Current.cell, S)
        /\ Imported /\ Current.object.type = "OBJECT"
        /\ Current.cell \in DOMAIN cells /\ cells[Current.cell] = None
    BY <1>1 DEF Halfway
  <2>2. Len(a.done) = Len(done) + 1 /\ Len(a.todo) = Len(todo) - 1  BY <1>2, <1>4, <1>5, <1>6
  <2>3. \A d, t \in Nat : t # 0 =>
          /\ (d + 1) + (t - 1) = d + t
          /\ \A j \in 1..(t - 1) : j + 1 \in 1..t /\ d + (j + 1) = (d + 1) + j
    OBVIOUS
  <2>4. Len(a.done) + Len(a.todo) = Len(all)
    <3>1. Len(a.done) + Len(a.todo) = Len(done) + Len(todo)
      <4> HIDE DEF a, done, todo
      <4> QED  BY <1>4, <2>3, <2>2
    <3> QED  BY <2>1, <3>1
  <2>5. ASSUME NEW j \in DOMAIN a.todo PROVE a.todo[j] = all[Len(a.done) + j]
    <3>1. j \in 1..(Len(todo) - 1)  BY <1>2, <1>5, <2>5
    <3>2. DOMAIN todo = 1..Len(todo)  BY <1>1
    <3>3. j + 1 \in DOMAIN todo /\ Len(done) + (j + 1) = Len(a.done) + j
      <4>1. PICK t \in Nat : t = Len(todo) /\ t # 0  BY <1>4
      <4>2. PICK d \in Nat : d = Len(done)  BY <1>4
      <4>3. j \in 1..(t - 1)  BY <3>1, <4>1
      <4>4. j + 1 \in 1..t /\ d + (j + 1) = (d + 1) + j
        <5>1. \A m, n, k \in Nat : k \in 1..(n - 1) => k + 1 \in 1..n /\ m + (k + 1) = (m + 1) + k
          OBVIOUS
        <5>2. j \in Nat  BY <4>3
        <5> QED  BY <4>1, <4>2, <4>3, <5>1, <5>2, Zenon
      <4> QED  BY <2>2, <3>2, <4>1, <4>2, <4>4
    <3> QED  BY <1>2, <1>5, <2>1, <3>1, <3>3
  <2>6. ASSUME NEW j \in DOMAIN a.done
        PROVE  /\ a.done[j][1] = all[Len(a.done) + 1 - j][1]
               /\ CarriedOver(all[Len(a.done) + 1 - j][2], a.done[j][2], a.cell, S)
    <3>1. j \in 1..(Len(done) + 1)  BY <1>2, <1>4, <1>6, <2>6
    <3>2. CASE j = 1
      <4>1. a.done[j] = p /\ Len(a.done) + 1 - j = Len(done) + 1  BY <1>2, <1>4, <1>6, <2>2, <3>2
      <4>2. 1 \in DOMAIN todo  BY <1>1, <1>4
      <4>3. all[Len(done) + 1] = todo[1]  BY <2>1, <4>2
      <4> QED  BY <1>1, <1>2, <4>1, <4>3 DEF p
    <3>3. CASE j # 1
      <4>1. j \in 2..(Len(done) + 1) /\ j - 1 \in DOMAIN done  BY <1>1, <1>4, <3>1, <3>3
      <4>2. a.done[j] = done[j - 1] /\ Len(a.done) + 1 - j = Len(done) + 1 - (j - 1)
        BY <1>2, <1>4, <1>6, <2>2, <4>1
      <4> QED  BY <1>2, <2>1, <4>1, <4>2
    <3> QED  BY <3>2, <3>3
  <2> QED  BY <1>2, <2>1, <2>4, <2>5, <2>6 DEF Halfway
<1>8. a \in Constructions(S)
  <2>1. Head(todo)[1] = todo[1][1]  BY <1>1
  <2>2. p = <<Head(todo)[1], v>>  BY <2>1 DEF p
  <2>3. a = [Current EXCEPT !.stage = "next", !.todo = Tail(todo), !.done = <<p>> \o done]
    BY <2>2, Zenon DEF With
  <2>4. PICK t : t = Tail(todo)  OBVIOUS
  <2>5. PICK d : d = <<p>> \o done  OBVIOUS
  <2>6. t \in Seq(Created \X S) /\ d \in Seq(Created \X (S \cup {Bound(CellThing(n)) : n \in Nat}))
    BY <1>5, <1>6, <2>4, <2>5 DEF W
  <2>7. a = [Current EXCEPT !.stage = "next", !.todo = t, !.done = d]  BY <2>3, <2>4, <2>5, Zenon
  <2> HIDE DEF a, p
  <2> QED  BY <1>1, <1>7, <2>6, <2>7 DEF Constructions
<1>9. OwnCell(a)  BY <1>2, TheConstruction
<1>10. \A r : Post(a, r) => Post(Current, r)  BY <1>2 DEF Post
<1> QED  BY <1>8, <1>9, <1>10 DEF Activations

(* A constructor asks the next value whether it can be bound.               *)
LEMMA AskPropertyKeeps ==
  ASSUME Invariant, AskProperty
  PROVE  Invariant'
<1> PICK S : Inv(S)  BY DEF Invariant
<1> DEFINE a == [Current EXCEPT !.stage = "asked"]
           call == Call(Operator("responds_to"), <<Value, Bind>>)
<1>1. /\ calls # <<>> /\ Current.kind = "construct" /\ Current.todo # <<>>
      /\ Enter(a, call) /\ Aside /\ UNCHANGED cells
  BY DEF AskProperty, In, KeepCells
<1>2. Value = Current.todo[1][2] /\ Value \in S /\ Imported  BY <1>1, TheConstruction
<1>3. /\ a \in Activations(S) /\ a.kind = "construct" /\ OwnCell(a) /\ a.stage = "asked"
      /\ a.todo = Current.todo /\ a.cell = Current.cell
      /\ \A r : Post(a, r) => Post(Current, r)
  BY <1>1, Stays
<1>4. call \in Calls(S)
  <2>1. Bind \in S  BY <1>2, BindCreated, Basics
  <2>2. <<Value, Bind>> \in Seq(S) /\ <<Value, Bind>> # <<>>  BY <1>2, <2>1
  <2>3. Operator("responds_to") \in S  BY OperatorsThere
  <2> QED  BY <2>2, <2>3 DEF Calls, Call
<1>5. \A r : Promised(call, r) => Needs(a, r)  BY <1>1, <1>2, <1>3 DEF Needs
<1> HIDE DEF a, call
<1> QED  BY <1>1, <1>3, <1>4, <1>5, WaitingEnters

(* A value that says it can be bound is; another one goes on as it is.      *)
LEMMA PropertyAnsweredKeeps ==
  ASSUME Invariant, PropertyAnswered
  PROVE  Invariant'
<1> PICK S : Inv(S)  BY DEF Invariant
<1>1. /\ calls # <<>> /\ Current.kind = "construct" /\ Current.stage = "asked"
      /\ returned # Waiting /\ Aside /\ UNCHANGED cells
  BY DEF PropertyAnswered, Got, KeepCells
<1>2. Imported /\ (Current.todo # <<>> => Value = Current.todo[1][2] /\ Value \in S)
  BY <1>1, TheConstruction
<1>3. IsAnswer(returned, S) /\ Needs(Current, returned)  BY <1>1, TheWaiting
<1> DEFINE asked == Call(Operator("responds_to"), <<Value, Bind>>)
<1>4. Current.todo # <<>> /\ Promised(asked, returned)  BY <1>1, <1>2, <1>3 DEF Needs
<1>5. /\ asked.f.type = "SYMBOL" /\ Is(asked.f, "responds_to") /\ Len(asked.args) = 2
      /\ asked.args[1] = Value /\ asked.args[2] = Bind /\ Bind.type = "SYMBOL"
  BY <1>2, BindCreated, OperatorsThere DEF Call, Is
<1>6. /\ \A b \in BOOLEAN : ~IsError(Answer(BoolThing(b)))
      /\ Answer(BoolThing(TRUE)) # Answer(BoolThing(FALSE))
  <2>1. \A b \in BOOLEAN : /\ Answer(BoolThing(b)).thing.bool = b
                            /\ Answer(BoolThing(b)).status = "value"
    BY DEF Answer, BoolThing
  <2> QED  BY <2>1 DEF IsError
<1>7. CASE IsError(returned)
  <2>1. Finish(returned)  BY <1>7, <1>6 DEF PropertyAnswered
  <2>2. Post(Current, returned)  BY <1>1, <1>7 DEF Post, Instantiates, HasValue, IsError
  <2> QED  BY <1>1, <1>3, <2>1, <2>2, WaitingFinishes
<1>8. CASE returned = Answer(BoolThing(TRUE))
  <2> DEFINE a == [Current EXCEPT !.stage = "bound"]
             call == Call(Bind, <<Value, CellThing(Current.cell)>>)
  <2>1. Enter(a, call)  BY <1>8, <1>6 DEF PropertyAnswered
  <2>2. ASSUME IdsFitByte, Value.type # "OBJECT" PROVE FALSE
    <3>1. HasValue(returned) /\ returned.thing = BoolThing(TRUE)  BY <1>8 DEF HasValue, Answer
    <3>2. Value.type \notin {"NONE", "LIST"} /\ BoolThing(TRUE) = BoolThing(Claims(Value, Bind))
      BY <1>4, <1>5, <2>2, <3>1 DEF Promised, Tells
    <3>3. BoolThing(Claims(Value, Bind)).bool = Claims(Value, Bind)  BY DEF BoolThing
    <3>4. BoolThing(TRUE).bool = TRUE  BY DEF BoolThing
    <3>5. Claims(Value, Bind) = TRUE  BY <3>2, <3>3, <3>4
    <3> QED  BY <1>2, <1>4, <2>2, <3>2, <3>5, NoClaims
  <2>3. /\ a \in Activations(S) /\ a.kind = "construct" /\ OwnCell(a) /\ a.stage = "bound"
        /\ a.todo = Current.todo /\ a.cell = Current.cell
        /\ \A r : Post(a, r) => Post(Current, r)
    BY <1>1, <1>4, <2>2, Stays
  <2>4. call \in Calls(S)
    <3>1. Bind \in S /\ CellThing(Current.cell) \in S
      BY <1>1, <1>2, BindCreated, Basics, TheConstruction
    <3>2. <<Value, CellThing(Current.cell)>> \in Seq(S) /\ <<Value, CellThing(Current.cell)>> # <<>>
      BY <1>2, <1>4, <3>1
    <3> QED  BY <3>1, <3>2 DEF Calls, Call
  <2>5. \A r : Promised(call, r) => Needs(a, r)  BY <1>2, <1>4, <2>3 DEF Needs
  <2> HIDE DEF a, call
  <2> QED  BY <1>1, <2>1, <2>3, <2>4, <2>5, WaitingEnters
<1>9. CASE returned = Answer(BoolThing(FALSE))
  <2>1. Become(With(Value))
    BY <1>9, <1>6 DEF PropertyAnswered
  <2>2. ASSUME IdsFitByte, IsMethod(Value) PROVE FALSE
    <3>1. HasValue(returned) /\ returned.thing = BoolThing(FALSE)  BY <1>9 DEF HasValue, Answer
    <3>2. /\ Value.type = "OBJECT" /\ Key(Bind) \in DOMAIN Value.map
          /\ Key(Operator("responds_to")) \notin DOMAIN Value.map
      BY <1>2, <1>4, <2>2, MethodFacts
    <3>3. asked.f = Operator("responds_to")  BY DEF Call
    <3>4. BoolThing(FALSE) = BoolThing(Key(Bind) \in DOMAIN Value.map)
      BY <1>4, <1>5, <3>1, <3>2, <3>3 DEF Promised, LooksUp
    <3>5. BoolThing(Key(Bind) \in DOMAIN Value.map).bool = (Key(Bind) \in DOMAIN Value.map)
      BY DEF BoolThing
    <3>6. BoolThing(FALSE).bool = FALSE  BY DEF BoolThing
    <3> QED  BY <3>2, <3>4, <3>5, <3>6
  <2>3. CarriedOver(Value, Value, Current.cell, S)  BY <1>2, <1>4, <2>2 DEF CarriedOver
  <2>4. /\ With(Value) \in Activations(S) /\ OwnCell(With(Value))
        /\ \A r : Post(With(Value), r) => Post(Current, r)
    BY <1>1, <1>4, <2>3, GoesThrough
  <2> QED  BY <1>1, <2>1, <2>4, WaitingBecomes
<1>10. CASE ~IsError(returned) /\ returned # Answer(BoolThing(TRUE))
           /\ returned # Answer(BoolThing(FALSE))
  <2>1. Finish(Error("bool"))  BY <1>10 DEF PropertyAnswered
  <2>2. IsAnswer(Error("bool"), S) /\ Post(Current, Error("bool"))
    BY <1>1 DEF Post, Instantiates, HasValue, Error, IsAnswer
  <2> QED  BY <1>1, <2>1, <2>2, WaitingFinishes
<1> QED  BY <1>7, <1>8, <1>9, <1>10

(* What has been bound is put in.                                           *)
LEMMA PropertyBoundKeeps ==
  ASSUME Invariant, PropertyBound
  PROVE  Invariant'
<1> PICK S : Inv(S)  BY DEF Invariant
<1>1. /\ calls # <<>> /\ Current.kind = "construct" /\ Current.stage = "bound"
      /\ returned # Waiting /\ Aside /\ UNCHANGED cells
  BY DEF PropertyBound, Got, KeepCells
<1>2. /\ Imported /\ Halfway(Current, S) /\ Current.cell \in Nat
      /\ Current.todo # <<>> => Value = Current.todo[1][2] /\ Value \in S
  BY <1>1, TheConstruction
<1>3. IsAnswer(returned, S) /\ Needs(Current, returned)  BY <1>1, TheWaiting
<1> DEFINE cell == CellThing(Current.cell)
           call == Call(Bind, <<Value, cell>>)
<1>4. Current.todo # <<>> /\ Promised(call, returned)  BY <1>1, <1>2, <1>3 DEF Needs
<1>5. /\ call.f = Bind /\ call.f.type = "SYMBOL" /\ Len(call.args) = 2
      /\ call.args[1] = Value /\ call.args[2] = cell /\ cell.type = "CELL"
      /\ call.args[Len(call.args)] = cell
  BY <1>2, BindCreated DEF Call, CellThing
<1> HIDE DEF call
<1>6. CASE IsError(returned)
  <2>1. Finish(returned)  BY <1>6 DEF PropertyBound
  <2>2. Post(Current, returned)  BY <1>1, <1>6 DEF Post, Instantiates, HasValue, IsError
  <2> QED  BY <1>1, <1>3, <2>1, <2>2, WaitingFinishes
<1>7. CASE ~IsError(returned)
  <2> DEFINE v == returned.thing
  <2>1. Become(With(v))  BY <1>7 DEF PropertyBound
  <2>2. HasValue(returned) /\ v \in S \cup {Bound(x) : x \in S}
    BY <1>3, <1>7 DEF IsAnswer, IsError, HasValue
  <2>3. v # Binder /\ (v.type = "VARARG" => v = Bound(cell))
    BY <1>4, <1>5, <2>2 DEF Promised, BindsCell
  <2>4. v \in S \/ v = Bound(cell)
    <3>1. \A x : Bound(x).type = "VARARG"  BY DEF Bound
    <3> QED  BY <2>2, <2>3, <3>1
  <2>5. ASSUME IdsFitByte
        PROVE  Value.type = "OBJECT" /\ (IsMethod(Value) => IsVararg(v, "bound"))
    <3>1. Value.type = "OBJECT"  BY <1>1, <1>2, <1>4, <2>5 DEF Halfway
    <3>2. ASSUME IsMethod(Value) PROVE IsVararg(v, "bound")
      <4>1. Key(Bind) \in DOMAIN Value.map /\ Value.map[Key(Bind)] = Binder
        BY <1>2, <1>4, <3>2, MethodFacts
      <4>2. v = Bound(cell)  BY <1>4, <1>5, <2>2, <3>1, <4>1 DEF Promised, LooksUp
      <4> QED  BY <4>2 DEF IsVararg, Bound
    <3> QED  BY <3>1, <3>2
  <2>6. CarriedOver(Value, v, Current.cell, S)  BY <2>3, <2>4, <2>5 DEF CarriedOver
  <2>7. /\ With(v) \in Activations(S) /\ OwnCell(With(v))
        /\ \A r : Post(With(v), r) => Post(Current, r)
    BY <1>1, <1>4, <2>6, GoesThrough
  <2> QED  BY <1>1, <2>1, <2>7, WaitingBecomes
<1> QED  BY <1>6, <1>7

(* What a constructor has made, when it has gone through all properties.    *)
Own == Bound(CellThing(Current.cell))
AndInstance(S) == S \cup {Object(Current.done)} \cup ({Own} \cap ValuesOf(Object(Current.done)))
LEMMA InstanceMade ==
  ASSUME NEW S, Inv(S), calls # <<>>, Current.kind = "construct", Current.todo = <<>>
  PROVE  LET created == Object(Current.done)
         IN /\ ObjectOf(created, AndInstance(S)) /\ BinderUnderBind(created.map)
            /\ IdsFitByte => InstanceOf(created, Current.object)
<1> DEFINE W == Created \X (S \cup {Bound(CellThing(n)) : n \in Nat})
           object == Current.object
           done == Current.done
           created == Object(done)
           T == AndInstance(S)
           all == properties(object)
<1>1. PICK n \in Nat : n = Len(done)  BY TheConstruction
<1>2. /\ Halfway(Current, S) /\ object \in S /\ object.type = "OBJECT"
      /\ done \in Seq(W) /\ DOMAIN done = 1..n
  <2>1. Halfway(Current, S) /\ object \in S /\ done \in Seq(W)  BY TheConstruction
  <2> HIDE DEF W, done
  <2> QED  BY <1>1, <2>1 DEF Halfway
<1>3. ObjectOf(object, S) /\ BinderUnderBind(object.map)  BY <1>2, Basics, Classes
<1>4. /\ all \in Seq(Created \X S)
      /\ \A k, l \in DOMAIN all : Key(all[k][1]) = Key(all[l][1]) => k = l
      /\ \A k \in DOMAIN all :
           /\ Key(all[k][1]) \in DOMAIN object.map
           /\ all[k][2] = object.map[Key(all[k][1])]
      /\ \A id \in DOMAIN object.map : \E k \in DOMAIN all : Key(all[k][1]) = id
  <2>1. program.before \in Nat /\ symbolId \in Nat  BY Basics
  <2> HIDE DEF object
  <2> QED  BY ZenonT(60), <1>3, <2>1, PropertiesFacts
<1> HIDE DEF all
<1>5. DOMAIN all = 1..n
  <2>1. Len(done) + 0 = Len(all)  BY <1>2 DEF Halfway, all
  <2> QED  BY <1>1, <1>4, <2>1
<1>6. \A j \in 1..n :
        /\ n + 1 - j \in 1..n
        /\ done[j][1] = all[n + 1 - j][1]
        /\ CarriedOver(all[n + 1 - j][2], done[j][2], Current.cell, S)
  <2> SUFFICES ASSUME NEW j \in 1..n
               PROVE  /\ n + 1 - j \in 1..n
                      /\ done[j][1] = all[n + 1 - j][1]
                      /\ CarriedOver(all[n + 1 - j][2], done[j][2], Current.cell, S)
    OBVIOUS
  <2>1. n + 1 - j \in 1..n  OBVIOUS
  <2>2. /\ done[j][1] = all[Len(done) + 1 - j][1]
        /\ CarriedOver(all[Len(done) + 1 - j][2], done[j][2], Current.cell, S)
    BY <1>2 DEF Halfway, all
  <2> QED  BY <1>1, <2>1, <2>2
<1>7. \A i, j \in DOMAIN done : Key(done[i][1]) = Key(done[j][1]) => i = j
  <2> SUFFICES ASSUME NEW i \in 1..n, NEW j \in 1..n, Key(done[i][1]) = Key(done[j][1])
               PROVE  i = j
    BY <1>2
  <2> DEFINE k == n + 1 - i
             l == n + 1 - j
  <2>1. k \in DOMAIN all /\ l \in DOMAIN all  BY <1>5, <1>6
  <2>2. Key(all[k][1]) = Key(all[l][1])  BY <1>6
  <2>3. k = l
    <3> HIDE DEF k, l
    <3> QED  BY <1>4, <2>1, <2>2
  <2> QED  BY <2>3
<1>8. \A j \in 1..n : /\ Key(done[j][1]) \in DOMAIN created.map
                      /\ created.map[Key(done[j][1])] = done[j][2]
  <2>1. created.map = ObjectMap(done)  BY DEF Object
  <2> HIDE DEF W, done
  <2> QED  BY <1>2, <1>7, <2>1, MapOfDistinct
<1>9. DOMAIN created.map = {Key(done[j][1]) : j \in 1..n}
  <2>1. created.map = ObjectMap(done)  BY DEF Object
  <2> HIDE DEF done, created
  <2> QED  BY <1>2, <2>1 DEF ObjectMap
<1>10. done \in Seq(Created \X T)
  <2>1. ASSUME NEW j \in DOMAIN done PROVE done[j] \in Created \X T
    <3>1. done[j] \in W  BY <1>2, <2>1
    <3>2. done[j][2] \in S \/ done[j][2] = Own  BY <1>2, <1>6, <2>1 DEF CarriedOver, Own
    <3>3. done[j][2] \in ValuesOf(created)  BY <1>2, <1>8, <2>1 DEF ValuesOf
    <3>4. done[j][2] \in T  BY <3>2, <3>3 DEF AndInstance
    <3> HIDE DEF done, T
    <3> QED  BY <3>1, <3>4
  <2> HIDE DEF W, T
  <2> QED  BY <1>2, <2>1, SeqOf
<1>11. ObjectOf(created, T)
  <2> HIDE DEF T, done
  <2> QED  BY <1>10, ObjectMade
<1>12. BinderUnderBind(created.map)
  <2> SUFFICES ASSUME NEW j \in 1..n, created.map[Key(done[j][1])] = Binder
               PROVE  Imported /\ Key(done[j][1]) = Key(Bind)
    BY <1>9 DEF BinderUnderBind
  <2>1. all[n + 1 - j][2] = Binder  BY <1>6, <1>8 DEF CarriedOver
  <2>2. /\ Key(done[j][1]) \in DOMAIN object.map
        /\ object.map[Key(done[j][1])] = Binder
    <3> DEFINE k == n + 1 - j
    <3>1. k \in DOMAIN all /\ done[j][1] = all[k][1] /\ all[k][2] = Binder  BY <1>5, <1>6, <2>1
    <3> HIDE DEF k
    <3> QED  BY <1>4, <3>1
  <2> QED  BY <1>3, <2>2 DEF BinderUnderBind
<1>13. ASSUME IdsFitByte PROVE InstanceOf(created, object)
  <2>1. created.type = "OBJECT"  BY DEF Object
  <2>2. \A j \in 1..n : n + 1 - (n + 1 - j) = j  OBVIOUS
  <2>3. \A k \in DOMAIN object.map : \E j \in 1..n : Key(done[j][1]) = k
    <3> SUFFICES ASSUME NEW k \in DOMAIN object.map PROVE \E j \in 1..n : Key(done[j][1]) = k
      OBVIOUS
    <3>1. PICK m \in 1..n : Key(all[m][1]) = k  BY <1>4, <1>5
    <3>2. n + 1 - m \in 1..n /\ done[n + 1 - m][1] = all[m][1]  BY <1>6, <2>2
    <3> QED  BY <3>1, <3>2
  <2>4. ASSUME NEW j \in 1..n PROVE Key(done[j][1]) \in DOMAIN object.map
    <3>1. n + 1 - j \in DOMAIN all /\ done[j][1] = all[n + 1 - j][1]  BY <1>5, <1>6
    <3> QED  BY <1>4, <3>1
  <2>5. DOMAIN created.map = DOMAIN object.map  BY <1>9, <2>3, <2>4
  <2>6. ASSUME NEW k \in DOMAIN object.map
        PROVE  IF IsMethod(object.map[k]) THEN IsVararg(created.map[k], "bound")
               ELSE object.map[k].type # "OBJECT" => created.map[k] = object.map[k]
    <3>1. PICK j \in 1..n : Key(done[j][1]) = k  BY <2>3
    <3>2. created.map[k] = done[j][2]  BY <1>8, <3>1
    <3>3. object.map[k] = all[n + 1 - j][2]  BY <1>4, <1>5, <1>6, <3>1
    <3>4. CarriedOver(object.map[k], created.map[k], Current.cell, S)  BY <1>6, <3>2, <3>3
    <3> QED  BY <1>13, <3>4 DEF CarriedOver
  <2> QED  BY <2>1, <2>5, <2>6 DEF InstanceOf
<1> QED  BY <1>11, <1>12, <1>13

(* The instance is made, and put into the cell.                             *)
LEMMA ConstructedKeeps ==
  ASSUME Invariant, Constructed
  PROVE  Invariant'
<1> PICK S : Inv(S)  BY DEF Invariant
<1> DEFINE done == Current.done
           created == Object(done)
           n == Current.cell
           U == AndInstance(S)
<1>1. /\ calls # <<>> /\ Current.kind = "construct" /\ Current.todo = <<>>
      /\ cells' = [cells EXCEPT ![n] = created] /\ Finish(Answer(created))
      /\ Aside /\ Still /\ UNCHANGED result
  BY DEF Constructed, In, Self, Aside, Still
<1>2. PICK T : T = U  OBVIOUS
<1>3. PICK c : c = created  OBVIOUS
<1>4. PICK own : own = Own  OBVIOUS
<1>5. /\ S \subseteq T /\ c \in T
      /\ \A t \in T : t \in S \/ t = c \/ (t = own /\ own \in ValuesOf(c))
  BY <1>2, <1>3, <1>4 DEF AndInstance
<1>6. /\ ObjectOf(c, T) /\ c.type = "OBJECT" /\ BinderUnderBind(c.map)
      /\ IdsFitByte => InstanceOf(c, Current.object)
  BY <1>1, <1>2, <1>3, InstanceMade DEF Object
<1>7. Halfway(Current, S) /\ n \in Nat /\ n \in DOMAIN cells /\ cells[n] = None
  BY <1>1, TheConstruction DEF Halfway
<1>8. cells' = [cells EXCEPT ![n] = c]  BY <1>1, <1>3
<1>9. CellsKept(T)
  <2>1. cells \in Seq({None} \cup {t \in S : t.type = "OBJECT"})  BY DEF Inv, Stack
  <2>2. cells \in Seq({None} \cup {t \in T : t.type = "OBJECT"})  BY <1>5, <2>1, SeqGrows
  <2>3. cells' \in Seq({None} \cup {t \in T : t.type = "OBJECT"})  BY <1>5, <1>6, <1>7, <1>8, <2>2
  <2>4. \A i \in DOMAIN cells :
          i \in DOMAIN cells' /\ (cells[i].type = "OBJECT" => cells'[i] = cells[i])
    BY <1>7, <1>8 DEF None
  <2>5. \A i \in 1..(Len(calls) - 1) :
          calls[i].kind = "construct" => cells'[calls[i].cell] = cells[calls[i].cell]
    <3>1. OwnCell(Current)  BY <1>1, TheConstruction
    <3>2. ASSUME NEW i \in 1..(Len(calls) - 1), calls[i].kind = "construct"
          PROVE  calls[i].cell \in DOMAIN cells
      <4>1. calls \in Seq(Activations(S) \cup EarlyCalls(S)) /\ i \in 1..Len(calls)
        BY DEF Inv, Stack
      <4>2. calls[i] \in Activations(S) \cup EarlyCalls(S)  BY <4>1
      <4>3. calls[i] \in Constructions(S)
        BY <3>2, <4>2 DEF Activations, Calls, EarlyCalls, Comparisons, Assertions, Unpackings
      <4> QED  BY <4>3 DEF Constructions, Halfway
    <3> QED  BY <1>1, <1>8, <3>1, <3>2 DEF OwnCell
  <2> QED  BY <2>3, <2>4, <2>5 DEF CellsKept
<1>10. Stack(T) /\ Promises  BY <1>5, StackGrows DEF Inv
<1>11. Stack(T)' /\ Promises'
  <2>1. IsAnswer(Answer(c), T)  BY <1>5 DEF IsAnswer, Answer
  <2>2. Post(Current, Answer(c))  BY <1>1, <1>6 DEF Post, Instantiates, Answer
  <2>3. Finish(Answer(c))  BY <1>1, <1>3
  <2> QED  BY <1>1, <1>9, <1>10, <2>1, <2>2, <2>3, FinishesStack
<1>12. Created' = Created /\ Bind' = Bind /\ (Imported' <=> Imported)  BY <1>1, StillSymbols
<1>13. Universe(T)'
  <2>1. Grows  BY <1>1, <1>9, <1>12 DEF Grows, Still, CellsKept
  <2>2. ASSUME NEW t \in S PROVE OfClass(t, T)'
    BY <1>5, <2>1, ClassStays DEF Inv, Universe
  <2>3. OfClass(c, T)'
    <3>1. ObjectOf(c, T)'  BY <1>6, <1>12 DEF ObjectOf, HoldsLast, Key
    <3>2. BinderUnderBind(c.map)'  BY <1>6, <1>12 DEF BinderUnderBind, Binder, Key
    <3> QED  BY <3>1, <3>2 DEF OfClass
  <2>4. ASSUME own \in ValuesOf(c) PROVE OfClass(own, T)'
    <3>1. own = Bound(CellThing(n)) /\ own.self = CellThing(n) /\ CellThing(n).cell = n
      BY <1>4 DEF Own, Bound, CellThing
    <3>2. CellThing(n) \in T  BY <1>5, <1>7, Basics
    <3>3. n \in DOMAIN cells' /\ cells'[n] = c  BY <1>7, <1>8
    <3>4. Finished(own)'  BY <1>6, <2>4, <3>1, <3>3 DEF Finished, ValuesOf
    <3>5. BoundOf(own, T)'  BY <3>1, <3>2, <3>4 DEF BoundOf, IsVararg, Bound
    <3> QED  BY <3>5 DEF OfClass
  <2>5. Atoms' = Atoms
    BY <1>12 DEF Atoms, None, FuncThing, Binder, BoolThing, IntThing, FloatThing, CellThing
  <2>6. Atoms' \subseteq T  BY <1>5, <2>5, Basics
  <2> QED  BY <1>5, <2>2, <2>3, <2>4, <2>6 DEF Universe
<1>14. Makes(T)'
  <2>1. made \in Seq(T)  BY <1>5, SeqGrows DEF Inv, Makes
  <2> QED  BY <1>1, <1>12, <2>1 DEF Inv, Makes, Still
<1>15. FirstComesFirst'  BY <1>1, StillFirst DEF Inv
<1> QED  BY <1>11, <1>13, <1>14, <1>15 DEF Inv, Invariant

-----------------------------------------------------------------------------
(* The program makes things.                                                *)

(* Symbols stay as the counter grows.                                       *)
LEMMA CreatedGrow ==
  ASSUME program' = program, program.before \in Nat, symbolId \in Nat,
         symbolId' \in {symbolId, symbolId + 1}
  PROVE  /\ Created \subseteq Created' /\ symbolId' \in Nat
         /\ \A n : Identity(n)' = Identity(n)
<1>1. \A n : Identity(n)' = Identity(n)  BY DEF Identity
<1>2. program.before..(symbolId - 1) \subseteq program'.before..(symbolId' - 1)  OBVIOUS
<1>3. ASSUME NEW s \in Created PROVE s \in Created'
  <2>1. PICK arity \in 0..2, n \in program.before..(symbolId - 1) : s = Symbol(Identity(n), arity, n)
    BY DEF Created
  <2>2. s = Symbol(Identity(n), arity, n)'  BY <1>1, <2>1 DEF Symbol
  <2> QED  BY <1>2, <2>1, <2>2 DEF Created
<1> QED  BY <1>1, <1>3

(* What the newest thing is to be: of a class, as it is supposed to be.     *)
Made(thing) ==
  /\ Len(made) < Len(program.makes)
  /\ made' = Append(made, thing) /\ symbolId' \in {symbolId, symbolId + 1}
  /\ UNCHANGED <<program, calls, returned, cells>> /\ result' = NoResult
  /\ calls = <<>> /\ returned = Waiting
  /\ thing.type \in {"SYMBOL", "TUPLE", "OBJECT"}
NewBind(thing) == ~Imported /\ thing \in Created' /\ thing.nth >= program.before + Len(SYMBOLS)
JoinsTwo(thing) == \E a, b \in Objects : thing.map = Joined(a.map, b.map)
ExtendsOne(thing) ==
  \E a \in Objects : thing.map = Joined(a.map, [k \in {Key(Operator("call"))} |-> Constructor(a)])

(* Such a thing takes its place beside the others.                          *)
LEMMA MakingKeeps ==
  ASSUME NEW S, Inv(S), NEW thing, Made(thing), OfClass(thing, S) \/ thing \in Created',
         program.makes[Len(made) + 1] = "bind" => NewBind(thing),
         program.makes[Len(made) + 1] = "mixin" => JoinsTwo(thing),
         program.makes[Len(made) + 1] = "class" => ExtendsOne(thing)
  PROVE  Invariant'
<1>1. PICK n : n = Len(made)  OBVIOUS
<1>2. PICK T : T = S \cup Created' \cup {thing}  OBVIOUS
<1>3. S \subseteq T /\ Created' \subseteq T /\ thing \in T  BY <1>2
<1>4. /\ n \in Nat /\ made \in Seq(S) /\ made \in Seq(T) /\ DOMAIN made = 1..n
      /\ made' \in Seq(T) /\ Len(made') = n + 1 /\ DOMAIN made' = 1..(n + 1)
      /\ \A i \in 1..n : made'[i] = made[i]
      /\ made'[n + 1] = thing
  <2>1. made \in Seq(S)  BY DEF Inv, Makes
  <2>2. made \in Seq(T)  BY <1>3, <2>1, SeqGrows
  <2>3. made' = Append(made, thing)  BY DEF Made
  <2> QED  BY <1>1, <1>3, <2>1, <2>2, <2>3, AppendFacts
<1>5. /\ Created \subseteq Created' /\ program' = program
      /\ \A k : Operator(k)' = Operator(k)
      /\ cells' = cells
  <2>1. \A k : Operator(k)' = Operator(k)  BY DEF Operator, SYM, ArityOf, Symbol, Made
  <2> QED  BY <2>1, Basics, CreatedGrow DEF Made
<1>6. Imported => Imported' /\ Bind' = Bind
  <2> SUFFICES ASSUME Imported PROVE Imported' /\ Bind' = Bind
    OBVIOUS
  <2>1. PICK i \in 1..n : program.makes[i] = "bind"  BY <1>4 DEF Imported
  <2>2. \A j \in 1..n : program.makes[j] = "bind" => j = i
    BY <1>4, <2>1 DEF Inv, Makes
  <2>3. program.makes[n + 1] # "bind"  BY <1>1 DEF NewBind
  <2>4. \A j \in 1..(n + 1) : program.makes[j] = "bind" => j = i
    <3>1. \A j \in 1..(n + 1) : j \in 1..n \/ j = n + 1  BY <1>4
    <3> QED  BY <2>2, <2>3, <3>1
  <2>5. i \in 1..(n + 1) /\ program'.makes[i] = "bind"  BY <1>4, <1>5, <2>1
  <2>6. Bind = made[i]  BY <1>4, <2>1, <2>2 DEF Bind
  <2>7. Bind' = made'[i]  BY <1>4, <1>5, <2>4, <2>5 DEF Bind
  <2>8. Imported'  BY <1>4, <2>5 DEF Imported
  <2> QED  BY <1>4, <2>6, <2>7, <2>8
<1>7. Grows  BY <1>5, <1>6 DEF Grows
<1>8. Universe(T)'
  <2>1. \A t \in S : OfClass(t, T)'  BY <1>3, <1>7, ClassStays DEF Inv, Universe
  <2>2. \A t \in Created' : OfClass(t, T)'  BY DEF OfClass
  <2>3. OfClass(thing, T)'
    <3>1. ASSUME OfClass(thing, S) PROVE OfClass(thing, T)'  BY <1>3, <1>7, <3>1, ClassStays
    <3> QED  BY <2>2, <3>1
  <2>4. Atoms' \subseteq Atoms \cup Created'
    BY DEF Atoms, None, FuncThing, Binder, BoolThing, IntThing, FloatThing, CellThing
  <2>5. Atoms' \subseteq T  BY <1>3, <2>4, Basics
  <2> QED  BY <1>2, <2>1, <2>2, <2>3, <2>5 DEF Universe
<1>9. Makes(T)'
  <2>1. Makes(S) /\ program.before \in Nat /\ symbolId \in Nat  BY Basics
  <2>2. symbolId' - program'.before \in Len(SYMBOLS)..(Len(SYMBOLS) + Len(made'))
    <3>1. symbolId - program.before \in Len(SYMBOLS)..(Len(SYMBOLS) + n)
      BY <1>1, <2>1 DEF Makes
    <3>2. symbolId' \in {symbolId, symbolId + 1}  BY DEF Made
    <3>3. Len(SYMBOLS) = 18  BY NamesDiffer
    <3> QED  BY <1>4, <1>5, <2>1, <3>1, <3>2, <3>3
  <2>3. Len(made') <= Len(program'.makes)
    <3>1. Len(program.makes) \in Nat /\ n < Len(program.makes)  BY <1>1, Basics DEF Made
    <3> QED  BY <1>4, <1>5, <3>1
  <2>4. ASSUME NEW i \in DOMAIN made'
        PROVE  /\ made'[i].type \in {"SYMBOL", "TUPLE", "OBJECT"}
               /\ program'.makes[i] = "bind" =>
                    made'[i] \in Created' /\ made'[i].nth >= program'.before + Len(SYMBOLS)
    <3>1. CASE i \in 1..n  BY <1>4, <1>5, <2>1, <3>1 DEF Makes
    <3>2. CASE i = n + 1  BY <1>1, <1>4, <1>5, <3>2 DEF NewBind, Made
    <3> QED  BY <1>4, <3>1, <3>2
  <2>5. ASSUME NEW i \in DOMAIN made', NEW j \in DOMAIN made',
               program'.makes[i] = "bind", program'.makes[j] = "bind"
        PROVE  i = j
    <3>1. \A m \in 1..n : program.makes[m] = "bind" => program.makes[n + 1] # "bind"
      BY <1>1, <1>4 DEF NewBind, Imported
    <3>2. \A l, m \in 1..n : program.makes[l] = "bind" /\ program.makes[m] = "bind" => l = m
      BY <1>4, <2>1 DEF Makes
    <3>3. (i \in 1..n \/ i = n + 1) /\ (j \in 1..n \/ j = n + 1)  BY <1>4
    <3> QED  BY <1>5, <2>5, <3>1, <3>2, <3>3
  <2>6. symbolId' \in Int /\ program' \in Programs  BY <1>5, <2>1, CreatedGrow DEF Makes, Made
  <2> QED  BY <1>4, <2>2, <2>3, <2>4, <2>5, <2>6 DEF Makes
<1>10. Stack(T)'
  <2>1. cells \in Seq({None} \cup {t \in S : t.type = "OBJECT"})  BY DEF Inv, Stack
  <2>2. cells' \in Seq({None} \cup {t \in T : t.type = "OBJECT"})  BY <1>3, <1>5, <2>1, SeqGrows
  <2>3. calls' = <<>> /\ returned' = Waiting /\ result' = NoResult  BY DEF Made
  <2>4. NoResult' = NoResult /\ Waiting' = Waiting  BY DEF NoResult, Waiting, Call, None
  <2>5. calls' \in Seq(Activations(T)') /\ DOMAIN calls' = {}  BY <2>3
  <2> QED  BY <2>2, <2>3, <2>4, <2>5 DEF Stack
<1>11. Promises'
  <2>1. calls' = <<>> /\ returned' = Waiting /\ result'.answer = Waiting
    BY DEF Made, NoResult
  <2> QED  BY <2>1 DEF Promises
<1>12. FirstComesFirst'
  <2>1. \A i \in 1..(n + 1) : Earlier(i)' = {made[j] : j \in {k \in 1..(i - 1) : made[k].type = "OBJECT"}}
    <3> SUFFICES ASSUME NEW i \in 1..(n + 1)
                 PROVE  {made'[j] : j \in {k \in 1..(i - 1) : made'[k].type = "OBJECT"}}
                        = {made[j] : j \in {k \in 1..(i - 1) : made[k].type = "OBJECT"}}
      BY DEF Earlier
    <3>1. \A k \in 1..(i - 1) : made'[k] = made[k]  BY <1>4
    <3> QED  BY <3>1
  <2>2. \A i \in 1..n : Earlier(i)' = Earlier(i)  BY <1>4, <2>1 DEF Earlier
  <2>3. Earlier(n + 1)' = Objects
    <3>1. 1..((n + 1) - 1) = DOMAIN made  BY <1>4
    <3> QED  BY <1>4, <2>1, <3>1 DEF Objects
  <2>4. \A a : Joined(a.map, [k \in {Key(Operator("call"))} |-> Constructor(a)])'
                 = Joined(a.map, [k \in {Key(Operator("call"))} |-> Constructor(a)])
    BY <1>5 DEF Joined, Constructor, Key
  <2>5. \A a, b : Joined(a.map, b.map)' = Joined(a.map, b.map)  BY DEF Joined
  <2>6. ASSUME NEW i \in DOMAIN made'
        PROVE  /\ program'.makes[i] = "mixin" =>
                    \E a, b \in Earlier(i)' : made'[i].map = Joined(a.map, b.map)'
               /\ program'.makes[i] = "class" =>
                    \E a \in Earlier(i)' : made'[i].map
                      = Joined(a.map, [k \in {Key(Operator("call"))} |-> Constructor(a)])'
    <3>1. CASE i \in 1..n
      <4>1. /\ program.makes[i] = "mixin" =>
                 \E a, b \in Earlier(i) : made[i].map = Joined(a.map, b.map)
            /\ program.makes[i] = "class" =>
                 \E a \in Earlier(i) : made[i].map
                   = Joined(a.map, [k \in {Key(Operator("call"))} |-> Constructor(a)])
        BY <1>4, <3>1 DEF Inv, FirstComesFirst
      <4>2. made'[i] = made[i] /\ Earlier(i)' = Earlier(i)  BY <1>4, <2>2, <3>1
      <4> QED  BY <1>5, <2>4, <2>5, <4>1, <4>2
    <3>2. CASE i = n + 1
      BY <1>1, <1>4, <1>5, <2>3, <2>4, <2>5, <3>2 DEF JoinsTwo, ExtendsOne
    <3> QED  BY <1>4, <3>1, <3>2
  <2> QED  BY <2>6 DEF FirstComesFirst
<1> QED  BY <1>8, <1>9, <1>10, <1>11, <1>12 DEF Inv, Invariant

(* The program makes what is next.                                          *)
LEMMA MakesNext ==
  ASSUME NEW S, Inv(S), NEW kind, CanMake(kind), NEW thing, Make(thing), UNCHANGED cells,
         symbolId' \in {symbolId, symbolId + 1}, thing.type \in {"SYMBOL", "TUPLE", "OBJECT"}
  PROVE  Made(thing) /\ program.makes[Len(made) + 1] = kind
BY DEF CanMake, Make, Made, Idle

(* The symbol that the counter gives next is a new one.                     *)
LEMMA SymbolNext ==
  ASSUME NEW S, Inv(S), symbolId' = symbolId + 1, program' = program, NEW arity \in 0..2
  PROVE  LET s == Symbol(symbolId % ByteSize, arity, symbolId)
         IN s \in Created' /\ s.type = "SYMBOL" /\ s.nth >= program.before + Len(SYMBOLS)
<1> DEFINE s == Symbol(symbolId % ByteSize, arity, symbolId)
<1>1. /\ symbolId \in Nat /\ program.before \in Nat /\ symbolId >= program.before + 18
      /\ Len(SYMBOLS) = 18
  BY Basics, NamesDiffer
<1>2. PICK n \in Nat : n = symbolId  BY <1>1
<1>3. n \in program'.before..(symbolId' - 1)  BY <1>1, <1>2
<1>4. Identity(n) = n % ByteSize  BY <1>1, <1>2 DEF Identity
<1>5. s = Symbol(n % ByteSize, arity, n)  BY <1>2
<1>6. s = Symbol(Identity(n), arity, n)'  BY <1>4, <1>5 DEF Symbol, Identity
<1>7. s \in Created'  BY <1>3, <1>6 DEF Created
<1> QED  BY <1>1, <1>2, <1>5, <1>7 DEF Symbol

(* What the program knows is there, and is not what method puts.            *)
LEMMA KnownFacts ==
  ASSUME NEW S, Inv(S), NEW t \in Known
  PROVE  t \in S /\ t # Binder /\ (t.type = "SYMBOL" => t \in Created)
<1>1. t \in S /\ t # Binder
  <2>1. CASE t \in program.literals
    <3>1. t \in Data  BY <2>1, Basics, ProgramsAssumption DEF Makes
    <3>2. Scalar(t) \/ ModuleOf(t, Data) \/ TupleOf(t, Data)  BY <3>1, DataAssumption
    <3>3. t # Binder
      BY <3>2 DEF Scalar, ModuleOf, TupleOf, Binder, None, ListThing, ErrorThing, FuncThing
    <3> QED  BY <3>1, <3>3, Basics
  <2>2. CASE \E i \in DOMAIN made : t = made[i]
    <3>1. PICK i \in DOMAIN made : t = made[i]  BY <2>2
    <3>2. t.type \in {"SYMBOL", "TUPLE", "OBJECT"} /\ t \in S
      BY <3>1, Basics DEF Makes
    <3> QED  BY <3>2 DEF Binder
  <2>3. CASE \E n \in program.operators : t = Operator(n)
    <3>1. PICK n \in program.operators : t = Operator(n)  BY <2>3
    <3>2. PICK i \in DOMAIN SYMBOLS : n = SYMBOLS[i]  BY <3>1, Basics, ProgramsAssumption DEF Makes
    <3>3. t \in Created  BY <3>1, <3>2, Basics, NamesDiffer, OperatorsCreated
    <3> QED  BY <3>1, <3>3, Basics, OperatorsThere DEF Binder
  <2>4. CASE t = FuncThing  BY <2>4, Basics DEF FuncThing, Binder
  <2> QED  BY <2>1, <2>2, <2>3, <2>4 DEF Known
<1> QED  BY <1>1, Basics, Classes

(* libCreateSymbol.                                                         *)
LEMMA CreateSymbolKeeps ==
  ASSUME Invariant, CreateSymbol, KeepCells
  PROVE  Invariant'
<1> PICK S : Inv(S)  BY DEF Invariant
<1>1. PICK arity \in {1, 2} : Make(Symbol(symbolId % ByteSize, arity, symbolId))
  BY DEF CreateSymbol
<1> DEFINE s == Symbol(symbolId % ByteSize, arity, symbolId)
<1>2. CanMake("symbol") /\ symbolId' = symbolId + 1 /\ program' = program /\ UNCHANGED cells
  BY <1>1 DEF CreateSymbol, KeepCells, Make
<1>3. s \in Created' /\ s.type = "SYMBOL"  BY <1>2, SymbolNext
<1>4. Made(s) /\ program.makes[Len(made) + 1] = "symbol"  BY <1>1, <1>2, <1>3, MakesNext
<1> QED  BY <1>3, <1>4, MakingKeeps

(* The library creates its symbol.                                          *)
LEMMA ImportInheritanceKeeps ==
  ASSUME Invariant, ImportInheritance
  PROVE  Invariant'
<1> PICK S : Inv(S)  BY DEF Invariant
<1> DEFINE s == Symbol(symbolId % ByteSize, 2, symbolId)
<1>1. /\ CanMake("bind") /\ ~Imported /\ Make(s) /\ symbolId' = symbolId + 1
      /\ program' = program /\ UNCHANGED cells
  BY DEF ImportInheritance, KeepCells, Make
<1>2. s \in Created' /\ s.type = "SYMBOL" /\ s.nth >= program.before + Len(SYMBOLS)
  BY <1>1, SymbolNext
<1>3. Made(s) /\ program.makes[Len(made) + 1] = "bind"  BY <1>1, <1>2, MakesNext
<1>4. NewBind(s)  BY <1>1, <1>2 DEF NewBind
<1> QED  BY <1>2, <1>3, <1>4, MakingKeeps

(* libTuple.                                                                *)
LEMMA MakeTupleKeeps ==
  ASSUME Invariant, MakeTuple, KeepCells
  PROVE  Invariant'
<1> PICK S : Inv(S)  BY DEF Invariant
<1>1. PICK a \in Known, b \in Known : Make(Tuple(<<a, b>>))  BY DEF MakeTuple
<1> DEFINE t == Tuple(<<a, b>>)
<1>2. CanMake("tuple") /\ symbolId' = symbolId /\ UNCHANGED cells  BY DEF MakeTuple, KeepCells
<1>3. a \in S /\ b \in S  BY KnownFacts
<1>4. TupleOf(t, S) /\ t.type = "TUPLE"  BY <1>3 DEF TupleOf, Tuple
<1>5. OfClass(t, S)  BY <1>4 DEF OfClass
<1>6. Made(t) /\ program.makes[Len(made) + 1] = "tuple"  BY <1>1, <1>2, <1>4, MakesNext
<1> QED  BY <1>5, <1>6, MakingKeeps

(* An object of the program's, of the library's, or of both.                *)
LEMMA ObjectNext ==
  ASSUME NEW S, Inv(S), NEW kind, CanMake(kind), NEW object, Make(object), UNCHANGED cells,
         symbolId' = symbolId, ObjectOf(object, S), BinderUnderBind(object.map), kind # "bind",
         kind = "mixin" => JoinsTwo(object), kind = "class" => ExtendsOne(object)
  PROVE  Invariant'
<1>1. OfClass(object, S) /\ object.type = "OBJECT"  BY DEF OfClass, ObjectOf
<1>2. Made(object) /\ program.makes[Len(made) + 1] = kind  BY <1>1, MakesNext
<1> QED  BY <1>1, <1>2, MakingKeeps

(* What an object's map has was given for it.                               *)
LEMMA GivenFor ==
  ASSUME NEW S, NEW t, ObjectOf(t, S), NEW k \in DOMAIN t.map
  PROVE  \E m \in DOMAIN t.given : Key(t.given[m][1]) = k /\ t.map[k] = t.given[m][2]
BY DEF ObjectOf, HoldsLast

(* libObject.                                                               *)
LEMMA MakeObjectKeeps ==
  ASSUME Invariant, MakeObject, KeepCells
  PROVE  Invariant'
<1> PICK S : Inv(S)  BY DEF Invariant
<1>1. PICK s \in Symbols, t \in Symbols, v \in Known, w \in Known, n \in 1..program.pairs :
        Make(Object(SubSeq(<< <<s, v>>, <<t, w>> >>, 1, n)))
  BY DEF MakeObject
<1>2. CanMake("object") /\ symbolId' = symbolId /\ UNCHANGED cells  BY DEF MakeObject, KeepCells
<1>3. n \in {1, 2}  BY <1>1, Basics, ProgramsAssumption DEF Makes
<1>4. /\ s \in Created /\ t \in Created /\ v \in S /\ w \in S /\ v # Binder /\ w # Binder
  BY <1>1, KnownFacts DEF Symbols
<1>5. PICK pairs : pairs = SubSeq(<< <<s, v>>, <<t, w>> >>, 1, n)  OBVIOUS
<1>6. /\ pairs \in Seq(Created \X S)
      /\ \A i \in DOMAIN pairs : pairs[i] \in {<<s, v>>, <<t, w>>}
  <2>1. PICK both : both = << <<s, v>>, <<t, w>> >>  OBVIOUS
  <2>2. /\ both \in Seq(Created \X S) /\ Len(both) = 2
        /\ \A i \in 1..2 : both[i] \in {<<s, v>>, <<t, w>>}
    BY <1>4, <2>1
  <2>3. /\ pairs \in Seq(Created \X S) /\ DOMAIN pairs = 1..n
        /\ \A i \in 1..n : pairs[i] = both[i]
    BY <1>3, <1>5, <2>1, <2>2
  <2> QED  BY <1>3, <2>2, <2>3
<1>7. ObjectOf(Object(pairs), S) /\ Object(pairs).given = pairs  BY <1>6, ObjectMade DEF Object
<1>8. BinderUnderBind(Object(pairs).map)
  <2>1. \A i \in DOMAIN pairs : pairs[i][2] # Binder  BY <1>4, <1>6
  <2> QED  BY <1>7, <2>1, GivenFor DEF BinderUnderBind
<1> QED  BY <1>1, <1>2, <1>5, <1>7, <1>8, ObjectNext

(* method.                                                                  *)
LEMMA MakeMethodKeeps ==
  ASSUME Invariant, MakeMethod
  PROVE  Invariant'
<1> PICK S : Inv(S)  BY DEF Invariant
<1>1. /\ CanMake("method") /\ Imported /\ Make(method) /\ symbolId' = symbolId /\ UNCHANGED cells
  BY DEF MakeMethod, KeepCells
<1>2. PICK pairs : pairs = << <<Operator("call"), FuncThing>>, <<Bind, Binder>> >>  OBVIOUS
<1>3. pairs \in Seq(Created \X S)
  BY <1>1, <1>2, Basics, BindCreated, OperatorsThere
<1>4. ObjectOf(method, S) /\ method.given = pairs
  BY <1>2, <1>3, ObjectMade DEF method, Object
<1>5. BinderUnderBind(method.map)
  <2>1. \A i \in DOMAIN pairs : pairs[i][2] = Binder => pairs[i][1] = Bind
    <3>1. FuncThing # Binder  BY DEF FuncThing, Binder
    <3> QED  BY <1>2, <3>1
  <2> QED  BY <1>1, <1>4, <2>1, GivenFor DEF BinderUnderBind
<1> QED  BY <1>1, <1>4, <1>5, ObjectNext

(* Joined maps have it under bind, if both do.                              *)
LEMMA JoinedUnderBind ==
  ASSUME NEW f, NEW g, BinderUnderBind(f), BinderUnderBind(g)
  PROVE  BinderUnderBind(Joined(f, g))
BY DEF BinderUnderBind, Joined

(* Objects that the program has made.                                       *)
LEMMA ObjectsThere ==
  ASSUME NEW S, Inv(S), NEW a \in Objects
  PROVE  a \in S /\ a.type = "OBJECT" /\ ObjectOf(a, S) /\ BinderUnderBind(a.map)
<1>1. a \in S /\ a.type = "OBJECT"  BY Basics DEF Objects
<1> QED  BY <1>1, Basics, Classes

(* mixin.                                                                   *)
LEMMA MixKeeps ==
  ASSUME Invariant, Mix
  PROVE  Invariant'
<1> PICK S : Inv(S)  BY DEF Invariant
<1>1. PICK a \in Objects, b \in Objects : Make(mixin(a, b))  BY DEF Mix
<1>2. CanMake("mixin") /\ symbolId' = symbolId /\ UNCHANGED cells  BY DEF Mix, KeepCells
<1>3. ObjectOf(mixin(a, b), S) /\ mixin(a, b).map = Joined(a.map, b.map)
  BY Basics, ObjectsThere, MixinFacts
<1>4. BinderUnderBind(mixin(a, b).map)  BY <1>3, ObjectsThere, JoinedUnderBind
<1>5. JoinsTwo(mixin(a, b))  BY <1>3 DEF JoinsTwo
<1> QED  BY <1>1, <1>2, <1>3, <1>4, <1>5, ObjectNext

(* The map of an object that was given one property.                        *)
LEMMA MapOfOne ==
  ASSUME NEW s, NEW v
  PROVE  ObjectMap(<< <<s, v>> >>) = [k \in {Key(s)} |-> v]
<1>1. PICK pairs : pairs = << <<s, v>> >>  OBVIOUS
<1>2. /\ pairs \in Seq({s} \X {v}) /\ DOMAIN pairs = {1} /\ pairs[1][1] = s /\ pairs[1][2] = v
  BY <1>1
<1>3. ObjectMap(pairs)[Key(s)] = v
  <2>1. \A i, j \in DOMAIN pairs : i = j  BY <1>2
  <2>2. 1 \in DOMAIN pairs  BY <1>2
  <2>3. ObjectMap(pairs)[Key(pairs[1][1])] = pairs[1][2]  BY <1>2, <2>1, <2>2, MapOfDistinct
  <2> QED  BY <1>2, <2>3
<1>4. ObjectMap(pairs) = [k \in {Key(s)} |-> ObjectMap(pairs)[k]]
  BY <1>2 DEF ObjectMap
<1>5. ObjectMap(pairs) = [k \in {Key(s)} |-> v]  BY <1>3, <1>4
<1> QED  BY <1>1, <1>5

(* class.                                                                   *)
LEMMA MakeClassKeeps ==
  ASSUME Invariant, MakeClass
  PROVE  Invariant'
<1> PICK S : Inv(S)  BY DEF Invariant
<1>1. PICK object \in Objects : Make(Class(object))  BY DEF MakeClass
<1>2. CanMake("class") /\ Imported /\ symbolId' = symbolId /\ UNCHANGED cells
  BY DEF MakeClass, KeepCells
<1>3. object \in S /\ object.type = "OBJECT"  BY ObjectsThere
<1>4. PICK constructor : constructor = Constructor(object)  OBVIOUS
<1>5. PICK T : T = S \cup {constructor}  OBVIOUS
<1>6. Inv(T)
  <2>1. ConstructorOf(constructor, S)
    BY <1>2, <1>3, <1>4 DEF ConstructorOf, Constructor, IsVararg
  <2>2. OfClass(constructor, S)  BY <2>1 DEF OfClass
  <2> QED  BY <1>5, <2>2, InvGrows
<1>7. PICK pairs : pairs = << <<Operator("call"), constructor>> >>  OBVIOUS
<1>8. pairs \in Seq(Created \X T)
  <2>1. Operator("call") \in Created /\ constructor \in T  BY <1>5, OperatorsThere
  <2> QED  BY <1>7, <2>1
<1>9. PICK added : added = Object(pairs)  OBVIOUS
<1>10. ObjectOf(added, T)  BY <1>8, <1>9, ObjectMade
<1>11. added.map = [k \in {Key(Operator("call"))} |-> constructor]
  BY <1>7, <1>9, MapOfOne DEF Object
<1>12. ObjectOf(object, T) /\ BinderUnderBind(object.map)  BY <1>6, ObjectsThere
<1>13. BinderUnderBind(added.map)
  <2>1. constructor # Binder  BY <1>4 DEF Constructor, Binder
  <2> QED  BY <1>11, <2>1 DEF BinderUnderBind
<1>14. PICK class : class = mixin(object, added)  OBVIOUS
<1>15. ObjectOf(class, T) /\ class.map = Joined(object.map, added.map)
  BY <1>6, <1>10, <1>12, <1>14, Basics, MixinFacts
<1>16. BinderUnderBind(class.map)  BY <1>12, <1>13, <1>15, JoinedUnderBind
<1>17. ExtendsOne(class)  BY <1>4, <1>11, <1>15 DEF ExtendsOne
<1>18. Make(class)  BY <1>1, <1>4, <1>7, <1>9, <1>14 DEF Class
<1> QED  BY <1>2, <1>6, <1>15, <1>16, <1>17, <1>18, ObjectNext

(* What a constructor has answered is kept.                                 *)
LEMMA KeepKeeps ==
  ASSUME Invariant, Keep
  PROVE  Invariant'
<1> PICK S : Inv(S)  BY DEF Invariant
<1> DEFINE answer == result.answer
<1>1. /\ answer.status = "value" /\ Constructs(result.call.f)
      /\ Len(made) < Len(program.makes) /\ program.makes[Len(made) + 1] = "instance"
      /\ made' = Append(made, answer.thing) /\ result' = NoResult
      /\ UNCHANGED <<program, symbolId, calls, returned, cells>>
  BY DEF Keep, KeepCells
<1>2. answer # Waiting  BY <1>1 DEF Waiting
<1>3. IsAnswer(answer, S) /\ calls = <<>> /\ returned = Waiting
  <2>1. result # NoResult  BY <1>2 DEF NoResult
  <2> QED  BY <1>2, <2>1 DEF Inv, Stack
<1>4. Promised(result.call, answer)  BY <1>2 DEF Inv, Promises
<1>5. answer.thing.type = "OBJECT"
  BY <1>1, <1>4 DEF Promised, CreatesOne, Instantiates, HasValue
<1>6. answer.thing \in S
  <2>1. \A x : Bound(x).type = "VARARG"  BY DEF Bound
  <2>2. answer.thing \in S \cup {Bound(x) : x \in S}  BY <1>1, <1>3 DEF IsAnswer
  <2> QED  BY <1>5, <2>1, <2>2
<1>7. OfClass(answer.thing, S)  BY <1>6 DEF Inv, Universe
<1>8. Made(answer.thing)  BY <1>1, <1>3, <1>5 DEF Made
<1> QED  BY <1>1, <1>7, <1>8, MakingKeeps

-----------------------------------------------------------------------------
(* The program's calls.                                                     *)

(* Between calls nothing waits, and the last answer is as promised.         *)
LEMMA Between ==
  ASSUME NEW S, Inv(S), calls = <<>> \/ result.answer # Waiting
  PROVE  /\ returned # Waiting => /\ result = [call |-> result.call, answer |-> Waiting]
                                  /\ result.call \in Calls(S)
                                  /\ IsAnswer(returned, S) /\ Promised(result.call, returned)
         /\ result.answer # Waiting => calls = <<>> /\ returned = Waiting
<1>1. result.answer # Waiting => calls = <<>> /\ returned = Waiting
  BY DEF Inv, Stack, NoResult
<1>2. ASSUME returned # Waiting
      PROVE  /\ result = [call |-> result.call, answer |-> Waiting]
             /\ result.call \in Calls(S)
             /\ IsAnswer(returned, S) /\ Promised(result.call, returned)
  <2>1. calls = <<>>  BY <1>1
  <2>2. Promised(result.call, returned)  BY <1>2, <2>1 DEF Inv, Promises, Awaited
  <2> QED  BY <1>1, <1>2, <2>2 DEF Inv, Stack
<1> QED  BY <1>1, <1>2

(* The program calls a thing: it is promised what is said of the call.      *)
LEMMA CallFunctionKeeps ==
  ASSUME Invariant, CallFunction, KeepCells
  PROVE  Invariant'
<1> PICK S : Inv(S)  BY DEF Invariant
<1>1. PICK f \in Symbols \cup {t \in Known : t.type = "OBJECT"} \cup
                   {Native("assert_equal"), Native("unpack_call")} :
        \E args \in {<<a>> : a \in Known} \cup (Known \X Known)
                    \cup (IF f = Native("unpack_call") THEN Known \X Known \X {IntThing(2)} ELSE {}) :
          /\ calls' = <<Call(f, args)>>
          /\ result' = [call |-> Call(f, args), answer |-> Waiting]
  BY DEF CallFunction
<1>2. PICK args \in {<<a>> : a \in Known} \cup (Known \X Known)
                    \cup (IF f = Native("unpack_call") THEN Known \X Known \X {IntThing(2)} ELSE {}) :
        /\ calls' = <<Call(f, args)>>
        /\ result' = [call |-> Call(f, args), answer |-> Waiting]
  BY <1>1
<1>3. /\ calls = <<>> /\ returned = Waiting /\ returned' = Waiting
      /\ Still /\ UNCHANGED cells
  BY DEF CallFunction, Idle, Still, KeepCells
<1>4. \A t \in Known : t \in S  BY KnownFacts
<1>5. f \in S \cup Natives  BY <1>4 DEF Symbols, Natives
<1>6. args \in Seq(S) /\ args # <<>>
  <2>1. CASE \E a \in Known : args = <<a>>  BY <1>4, <2>1
  <2>2. CASE args \in Known \X Known
    <3>1. PICK a \in Known, b \in Known : args = <<a, b>>  BY <2>2
    <3> QED  BY <1>4, <3>1
  <2>3. CASE args \in Known \X Known \X {IntThing(2)}
    <3>1. IntThing(2) \in S  BY Basics
    <3>2. PICK a \in Known, b \in Known : args = <<a, b, IntThing(2)>>  BY <2>3
    <3> QED  BY <1>4, <3>1, <3>2
  <2> QED  BY <1>2, <2>1, <2>2, <2>3
<1>7. PICK call : call = Call(f, args)  OBVIOUS
<1>8. call \in Calls(S) /\ call.kind = "call"  BY <1>5, <1>6, <1>7 DEF Calls, Call
<1>9. CellsKept(S)  BY <1>3 DEF CellsKept, Inv, Stack
<1>10. Universe(S)' /\ Makes(S)' /\ FirstComesFirst'  BY <1>3, <1>9, StillUniverse
<1>11. calls' = <<call>> /\ result' = [call |-> call, answer |-> Waiting]  BY <1>2, <1>7
<1>12. Stack(S)'
  <2>1. call \in Calls(S)' /\ call \in Activations(S)'
    BY <1>3, <1>8, ActivationsStill DEF Activations
  <2>2. calls' \in Seq(Activations(S)') /\ Len(calls') = 1 /\ DOMAIN calls' = {1}
    BY <1>11, <2>1
  <2>3. cells' \in Seq({None} \cup {t \in S : t.type = "OBJECT"})  BY <1>9 DEF CellsKept
  <2>4. Waiting' = Waiting  BY DEF Waiting
  <2> QED  BY <1>3, <1>8, <1>11, <2>1, <2>2, <2>3, <2>4 DEF Stack
<1>13. Promises'
  <2>1. ASSUME NEW answer, Post(call, answer)' PROVE Promised(call, answer)'
    <3>1. Post(call, answer)  BY <1>3, <2>1, StillPromised
    <3>2. Promised(call, answer)  BY <1>8, <3>1 DEF Post
    <3> QED  BY <1>3, <3>2, StillPromised
  <2>2. DOMAIN calls' = {1} /\ calls'[1] = call /\ result'.call = call /\ result'.answer = Waiting
    BY <1>11
  <2>3. \A answer : Awaited(0, answer)' <=> Promised(call, answer)'
    BY <2>2 DEF Awaited
  <2> QED  BY <1>3, <2>1, <2>2, <2>3 DEF Promises, Waiting
<1> QED  BY <1>10, <1>12, <1>13 DEF Inv, Invariant

(* The answer is the one that was promised.                                 *)
LEMMA AnsweredKeeps ==
  ASSUME Invariant, Answered, KeepCells
  PROVE  Invariant'
<1> PICK S : Inv(S)  BY DEF Invariant
<1>1. /\ calls = <<>> /\ returned # Waiting /\ returned' = Waiting /\ calls' = <<>>
      /\ result' = [result EXCEPT !.answer = returned] /\ Still /\ UNCHANGED cells
  BY DEF Answered, Still, KeepCells
<1>2. PICK call : call = result.call  OBVIOUS
<1>3. PICK r : r = returned  OBVIOUS
<1>4. /\ result = [call |-> call, answer |-> Waiting] /\ call \in Calls(S)
      /\ IsAnswer(r, S) /\ Promised(call, r)
  BY <1>1, <1>2, <1>3, Between
<1>5. result' = [call |-> call, answer |-> r]  BY <1>1, <1>3, <1>4
<1>6. CellsKept(S)  BY <1>1 DEF CellsKept, Inv, Stack
<1>7. Universe(S)' /\ Makes(S)' /\ FirstComesFirst'  BY <1>1, <1>6, StillUniverse
<1>8. Stack(S)'
  <2>1. call \in Calls(S)'  BY <1>1, <1>4, ActivationsStill
  <2>2. IsAnswer(r, S)'  BY <1>4 DEF IsAnswer, Error, Answer, Bound
  <2>3. cells' \in Seq({None} \cup {t \in S : t.type = "OBJECT"})  BY <1>6 DEF CellsKept
  <2>4. calls' \in Seq(Activations(S)') /\ DOMAIN calls' = {}  BY <1>1
  <2>5. Waiting' = Waiting /\ NoResult' = NoResult  BY DEF Waiting, NoResult, Call, None
  <2>6. result'.call = call /\ result'.answer = r  BY <1>5
  <2>7. result' = [call |-> result'.call, answer |-> result'.answer]  BY <1>5, <2>6
  <2>8. \A i \in DOMAIN calls' : FALSE  BY <2>4
  <2> QED  BY <1>1, <2>1, <2>2, <2>3, <2>4, <2>5, <2>6, <2>7, <2>8 DEF Stack
<1>9. Promises'
  <2>1. Promised(call, r)'  BY <1>1, <1>4, StillPromised
  <2>2. DOMAIN calls' = {} /\ returned' = Waiting' /\ result'.call = call /\ result'.answer = r
    BY <1>1, <1>5 DEF Waiting
  <2> QED  BY <2>1, <2>2 DEF Promises
<1> QED  BY <1>7, <1>8, <1>9 DEF Inv, Invariant

(* The program goes on, and forgets it.                                     *)
LEMMA GoOnKeeps ==
  ASSUME Invariant, GoOn, KeepCells
  PROVE  Invariant'
<1> PICK S : Inv(S)  BY DEF Invariant
<1>1. /\ result.answer # Waiting /\ result' = NoResult /\ calls' = calls /\ returned' = returned
      /\ Still /\ UNCHANGED cells
  BY DEF GoOn, Still, KeepCells
<1>2. calls = <<>> /\ returned = Waiting  BY <1>1, Between
<1>3. CellsKept(S)  BY <1>1 DEF CellsKept, Inv, Stack
<1>4. Universe(S)' /\ Makes(S)' /\ FirstComesFirst'  BY <1>1, <1>3, StillUniverse
<1>5. Stack(S)'
  <2>1. cells' \in Seq({None} \cup {t \in S : t.type = "OBJECT"})  BY <1>3 DEF CellsKept
  <2>2. calls' \in Seq(Activations(S)') /\ DOMAIN calls' = {} /\ calls' = <<>>  BY <1>1, <1>2
  <2>3. Waiting' = Waiting /\ NoResult' = NoResult  BY DEF Waiting, NoResult, Call, None
  <2> QED  BY <1>1, <1>2, <2>1, <2>2, <2>3 DEF Stack
<1>6. Promises'
  <2>1. DOMAIN calls' = {} /\ returned' = Waiting' /\ result'.answer = Waiting'
    BY <1>1, <1>2 DEF Waiting, NoResult
  <2> QED  BY <2>1 DEF Promises
<1> QED  BY <1>4, <1>5, <1>6 DEF Inv, Invariant

(* Nothing happens.                                                         *)
LEMMA StutterKeeps ==
  ASSUME Invariant, UNCHANGED inheritanceVars
  PROVE  Invariant'
<1> PICK S : Inv(S)  BY DEF Invariant
<1>1. /\ calls' = calls /\ returned' = returned /\ result' = result
      /\ Still /\ UNCHANGED cells /\ Aside
  BY DEF inheritanceVars, vars, Still, Aside
<1>2. CellsKept(S) /\ Activations(S) \subseteq Activations(S)'  BY <1>1, Asides
<1>3. Universe(S)' /\ Makes(S)' /\ FirstComesFirst'  BY <1>1, <1>2, StillUniverse
<1>4. PICK c : c = calls  OBVIOUS
<1>5. PICK r : r = returned  OBVIOUS
<1>6. PICK q : q = result  OBVIOUS
<1>7. calls' = c /\ returned' = r /\ result' = q  BY <1>1, <1>4, <1>5, <1>6
<1>8. Stack(S)'
  <2>1. /\ c \in Seq(Activations(S)' \cup EarlyCalls(S)')
        /\ \A i \in DOMAIN c : c[i] \in Activations(S)' \/ IsEarly(c[i].f.self.cell, i)'
    <3>1. /\ c \in Seq(Activations(S) \cup EarlyCalls(S))
          /\ \A i \in DOMAIN c : c[i] \in Activations(S) \/ IsEarly(c[i].f.self.cell, i)
      BY <1>4 DEF Inv, Stack
    <3>2. Activations(S) \cup EarlyCalls(S) \subseteq Activations(S)' \cup EarlyCalls(S)'
      BY <1>1, <1>2, ActivationsStill
    <3>3. \A n, i : IsEarly(n, i)' <=> IsEarly(n, i)
      BY <1>1 DEF IsEarly, IsBeingMade, None
    <3> QED  BY <1>2, <3>1, <3>2, <3>3, SeqGrows
  <2>2. r = Waiting \/ IsAnswer(r, S)'
    BY <1>5 DEF Inv, Stack, IsAnswer, Error, Answer, Bound
  <2>3. cells' \in Seq({None} \cup {t \in S : t.type = "OBJECT"})  BY <1>2 DEF CellsKept
  <2>4. /\ \A i \in DOMAIN c : c[i].kind = "call" => i = Len(c) /\ r = Waiting
        /\ \A i, j \in DOMAIN c :
             c[i].kind = "construct" /\ c[j].kind = "construct" /\ c[i].cell = c[j].cell => i = j
    BY <1>4, <1>5 DEF Inv, Stack
  <2>5. \/ q = NoResult /\ c = <<>> /\ r = Waiting
        \/ /\ q = [call |-> q.call, answer |-> q.answer]
           /\ q.call \in Calls(S)'
           /\ \/ q.answer = Waiting
              \/ IsAnswer(q.answer, S)' /\ c = <<>> /\ r = Waiting
    <3>1. Calls(S)' = Calls(S)  BY <1>1, ActivationsStill
    <3> QED  BY <1>4, <1>5, <1>6, <3>1 DEF Inv, Stack, IsAnswer, Error, Answer, Bound
  <2>6. Waiting' = Waiting /\ NoResult' = NoResult  BY DEF Waiting, NoResult, Call, None
  <2> QED  BY <1>7, <2>1, <2>2, <2>3, <2>4, <2>5, <2>6 DEF Stack
<1>9. Promises'
  <2>1. \A i \in 0..Len(c) : \A answer : Awaited(i, answer)' <=> Awaited(i, answer)
    BY <1>1, <1>4, <1>6, <1>7, StillPromised DEF Awaited
  <2>2. c \in Seq(Activations(S) \cup EarlyCalls(S))  BY <1>4 DEF Inv, Stack
  <2>3. ASSUME NEW i \in DOMAIN c, NEW answer, Post(c[i], answer)'
        PROVE  Awaited(i - 1, answer)'
    <3>1. Post(c[i], answer)  BY <1>1, <2>3, StillPromised
    <3>2. Awaited(i - 1, answer)  BY <1>4, <3>1 DEF Inv, Promises
    <3>3. i - 1 \in 0..Len(c)  BY <2>2
    <3> QED  BY <2>1, <3>2, <3>3
  <2>4. ASSUME r # Waiting PROVE Awaited(Len(c), r)'
    <3>1. Awaited(Len(c), r)  BY <1>4, <1>5, <2>4 DEF Inv, Promises
    <3>2. Len(c) \in 0..Len(c)  BY <2>2
    <3> QED  BY <2>1, <3>1, <3>2
  <2>5. ASSUME q.answer # Waiting PROVE Promised(q.call, q.answer)'
    <3>1. Promised(q.call, q.answer)  BY <1>6, <2>5 DEF Inv, Promises
    <3> QED  BY <1>1, <3>1, StillPromised
  <2> QED  BY <1>7, <2>3, <2>4, <2>5 DEF Promises, Waiting
<1> QED  BY <1>3, <1>8, <1>9 DEF Inv, Invariant

-----------------------------------------------------------------------------
(* The invariant is one.                                                    *)

(* The things a program begins with.                                        *)
LEMMA InvariantInit ==
  ASSUME InheritanceInit
  PROVE  Invariant
<1>1. /\ program \in Programs /\ made = <<>> /\ symbolId = program.before + Len(SYMBOLS)
      /\ calls = <<>> /\ returned = Waiting /\ result = NoResult /\ cells = <<>>
  BY DEF InheritanceInit, Init
<1>2. program.before \in Nat /\ program.makes \in Seq(STRING) /\ Len(SYMBOLS) = 18
  BY <1>1, ProgramsAssumption, NamesDiffer
<1>3. PICK S : S = Atoms  OBVIOUS
<1>4. Universe(S)
  <2>1. ASSUME NEW t \in Data PROVE OfClass(t, S)
    <3>1. Data \subseteq S  BY <1>3 DEF Atoms
    <3>2. CASE Scalar(t)  BY <3>2 DEF OfClass
    <3>3. CASE ModuleOf(t, Data)  BY <3>1, <3>3 DEF OfClass, ModuleOf
    <3>4. CASE TupleOf(t, Data)
      <4>1. t.elements \in Seq(S)  BY <3>1, <3>4, SeqGrows DEF TupleOf
      <4> QED  BY <3>4, <4>1 DEF OfClass, TupleOf
    <3> QED  BY <3>2, <3>3, <3>4, DataAssumption
  <2>2. ASSUME NEW t \in {None, FuncThing} PROVE Scalar(t)  BY DEF Scalar
  <2>3. ASSUME NEW b \in BOOLEAN PROVE Scalar(BoolThing(b))  BY DEF Scalar, BoolThing
  <2>4. ASSUME NEW n \in Int PROVE Scalar(IntThing(n)) /\ Scalar(FloatThing(n))
    BY DEF Scalar, IntThing, FloatThing
  <2>5. ASSUME NEW n \in Nat PROVE Scalar(CellThing(n))  BY DEF Scalar, CellThing
  <2>6. \A t : Scalar(t) \/ t = Binder \/ t \in Created => OfClass(t, S)  BY DEF OfClass
  <2>7. \A t \in Atoms :
          \/ t \in Data \/ t \in {None, FuncThing} \/ t = Binder \/ t \in Created
          \/ \E b \in BOOLEAN : t = BoolThing(b)
          \/ \E n \in Int : t = IntThing(n) \/ t = FloatThing(n)
          \/ \E n \in Nat : t = CellThing(n)
    BY DEF Atoms
  <2>8. \A t \in Atoms : OfClass(t, S)  BY <2>1, <2>2, <2>3, <2>4, <2>5, <2>6, <2>7
  <2> QED  BY <1>3, <2>8 DEF Universe
<1>5. Makes(S)
  <2>1. symbolId - program.before = 18 /\ symbolId \in Int  BY <1>1, <1>2
  <2>2. made \in Seq(S) /\ Len(made) = 0 /\ DOMAIN made = {}  BY <1>1
  <2>3. Len(program.makes) \in Nat  BY <1>2
  <2> QED  BY <1>1, <1>2, <2>1, <2>2, <2>3 DEF Makes
<1>6. Stack(S)
  <2>1. calls \in Seq(Activations(S)) /\ DOMAIN calls = {}  BY <1>1
  <2>2. cells \in Seq({None} \cup {t \in S : t.type = "OBJECT"})  BY <1>1
  <2> QED  BY <1>1, <2>1, <2>2 DEF Stack
<1>7. Promises
  <2>1. DOMAIN calls = {} /\ result.answer = Waiting  BY <1>1 DEF NoResult
  <2> QED  BY <1>1, <2>1 DEF Promises
<1>8. FirstComesFirst
  <2>1. DOMAIN made = {}  BY <1>1
  <2> QED  BY <2>1 DEF FirstComesFirst
<1> QED  BY <1>4, <1>5, <1>6, <1>7, <1>8 DEF Inv, Invariant

(* Whatever is next.                                                        *)
LEMMA InvariantNext ==
  ASSUME Invariant, [InheritanceNext]_inheritanceVars
  PROVE  Invariant'
<1>1. CASE Next /\ KeepCells
  <2>1. CASE CreateSymbol  BY <1>1, <2>1, CreateSymbolKeeps
  <2>2. CASE MakeTuple  BY <1>1, <2>2, MakeTupleKeeps
  <2>3. CASE MakeObject  BY <1>1, <2>3, MakeObjectKeeps
  <2>4. CASE CallFunction  BY <1>1, <2>4, CallFunctionKeeps
  <2>5. CASE FunctionReturns  BY <1>1, <2>5, FunctionReturnsKeeps
  <2>6. CASE Step
    <3>1. CASE CallSymbol  BY <1>1, <3>1, CallSymbolKeeps
    <3>2. CASE CallProperty  BY <1>1, <3>2, CallPropertyKeeps
    <3>3. CASE CallObject  BY <1>1, <3>3, CallObjectKeeps
    <3>4. CASE CallFail  BY <1>1, <3>4, CallFailKeeps
    <3>5. CASE CompareTuples  BY <1>1, <3>5, CompareTuplesKeeps
    <3>6. CASE CompareElement  BY <1>1, <3>6, CompareElementKeeps
    <3>7. CASE ElementCompared  BY <1>1, <3>7, ElementComparedKeeps
    <3>8. CASE CallNative  BY <1>1, <3>8, CallNativeKeeps
    <3>9. CASE AssertedEqual  BY <1>1, <3>9, AssertedEqualKeeps
    <3>10. CASE UnpackedCall  BY <1>1, <3>10, UnpackedCallKeeps
    <3> QED  BY <2>6, <3>1, <3>2, <3>3, <3>4, <3>5, <3>6, <3>7, <3>8, <3>9, <3>10 DEF Step
  <2>7. CASE Answered  BY <1>1, <2>7, AnsweredKeeps
  <2>8. CASE GoOn  BY <1>1, <2>8, GoOnKeeps
  <2> QED  BY <1>1, <2>1, <2>2, <2>3, <2>4, <2>5, <2>6, <2>7, <2>8 DEF Next
<1>2. CASE LibraryStep
  BY <1>2, CallBindKeeps, CallBoundKeeps, BindEarlyKeeps, CallConstructorKeeps, AskPropertyKeeps,
     PropertyAnsweredKeeps, PropertyBoundKeeps, ConstructedKeeps DEF LibraryStep
<1>3. CASE LibraryMakes
  BY <1>3, ImportInheritanceKeeps, MakeMethodKeeps, MixKeeps, MakeClassKeeps, KeepKeeps
  DEF LibraryMakes
<1>4. CASE UNCHANGED inheritanceVars  BY <1>4, StutterKeeps
<1> QED  BY <1>1, <1>2, <1>3, <1>4 DEF InheritanceNext

(* Whatever the program makes and calls, and whatever its functions answer, *)
(* there is a universe of things that all are of their class, and every     *)
(* activation in progress owes to the one below it what that one was        *)
(* promised (callFunction and its dispatch functions, inheritance.blg).     *)
THEOREM InvariantHolds == InheritanceSpec => []Invariant
<1>1. InheritanceInit => Invariant  BY InvariantInit
<1>2. Invariant /\ [InheritanceNext]_inheritanceVars => Invariant'  BY InvariantNext
<1> QED  BY <1>1, <1>2, PTL DEF InheritanceSpec

-----------------------------------------------------------------------------
(* What follows of the things, of classes, and of calls.                    *)

(* An answer keeps what was promised of the call.                           *)
LEMMA Follows ==
  ASSUME NEW S, Inv(S), result.answer # Waiting
  PROVE  /\ Promised(result.call, result.answer)
         /\ result.call.f \in S \cup Natives /\ result.call.args \in Seq(S)
         /\ result.call.args # <<>>
<1>1. result.call \in Calls(S)  BY DEF Inv, Stack, NoResult
<1> QED  BY <1>1 DEF Inv, Promises, Calls

(* Activations and answers are what they are taken for, in every program:   *)
(* a call is the innermost activation, a constructor's cell is there, and   *)
(* nothing is answered twice (callFunction, libCell).                       *)
THEOREM TypesHold == InheritanceSpec => []TypeOK
<1>1. Invariant => TypeOK
  <2> SUFFICES ASSUME NEW S, Inv(S) PROVE TypeOK
    BY DEF Invariant
  <2>1. symbolId - program.before \in Len(SYMBOLS)..(Len(SYMBOLS) + Len(program.makes))
    <3>1. /\ symbolId - program.before \in Len(SYMBOLS)..(Len(SYMBOLS) + Len(made))
          /\ Len(made) <= Len(program.makes)
      BY Basics DEF Makes
    <3>2. Len(made) \in Nat /\ Len(program.makes) \in Nat /\ Len(SYMBOLS) = 18
      BY SMTT(30), Basics, NamesDiffer
    <3> QED  BY <3>1, <3>2
  <2>2. ASSUME NEW i \in DOMAIN calls
        PROVE  /\ calls[i].kind \in {"call", "compare", "assert_equal", "unpack_call", "construct"}
               /\ calls[i].kind = "call" => i = Len(calls) /\ returned = Waiting
               /\ calls[i].kind = "construct" => calls[i].cell \in DOMAIN cells
    <3>1. calls \in Seq(Activations(S) \cup EarlyCalls(S))  BY DEF Inv, Stack
    <3>2. calls[i] \in Activations(S) \cup EarlyCalls(S)  BY <3>1
    <3>3. calls[i].kind = "call" => i = Len(calls) /\ returned = Waiting  BY DEF Inv, Stack
    <3>4. CASE calls[i] \in Constructions(S)
      BY <3>3, <3>4 DEF Constructions, Halfway
    <3>5. CASE calls[i] \notin Constructions(S)
      BY <3>2, <3>3, <3>5 DEF Activations, Calls, EarlyCalls, Comparisons, Assertions, Unpackings
    <3> QED  BY <3>4, <3>5
  <2>3. returned.status \in {"waiting", "value", "error"}
    BY DEF Inv, Stack, IsAnswer, Waiting
  <2>4. \A i \in DOMAIN cells : cells[i].type \in {"NONE", "OBJECT"}
    <3>1. cells \in Seq({None} \cup {t \in S : t.type = "OBJECT"})  BY DEF Inv, Stack
    <3>2. \A i \in DOMAIN cells : cells[i] \in {None} \cup {t \in S : t.type = "OBJECT"}
      BY <3>1
    <3> QED  BY <3>2 DEF None
  <2>5. result.answer # Waiting => calls = <<>> /\ returned = Waiting  BY Between
  <2> QED  BY <2>1, <2>2, <2>3, <2>4, <2>5 DEF TypeOK
<1> QED  BY <1>1, InvariantHolds, PTL

(* However deep, ints, strs and tuples of them are == exactly when they are *)
(* the same (TupleThing::dispatch).                                         *)
THEOREM EqualityHolds == InheritanceSpec => []EqualityIsStructural
<1>1. Invariant => EqualityIsStructural
  BY Follows DEF Invariant, EqualityIsStructural, Equates, Promised
<1> QED  BY <1>1, InvariantHolds, PTL

(* What says it responds to a symbol does, through whatever tuples and      *)
(* functions it is asked (the dispatch functions and their responds_to).    *)
THEOREM ClaimsHold == InheritanceSpec => []ClaimsAreKept
<1>1. Waiting # Error("responds")
  <2>1. Waiting.status = "waiting" /\ Error("responds").status = "error"  BY DEF Waiting, Error
  <2> QED  BY <2>1
<1>2. Invariant => ClaimsAreKept
  BY <1>1, Follows DEF Invariant, ClaimsAreKept, KeepsClaims, Promised
<1> QED  BY <1>2, InvariantHolds, PTL

(* A pattern that goes on has what it matched (libUnpackCall,               *)
(* libAssertEqual).                                                         *)
THEOREM PatternsHold == InheritanceSpec => []PatternsGetWhatTheyAskFor
<1>1. Invariant => PatternsGetWhatTheyAskFor
  BY Follows DEF Invariant, PatternsGetWhatTheyAskFor, Matches, HasValue, Waiting, Promised
<1> QED  BY <1>1, InvariantHolds, PTL

(* A method that is called finds the finished instance that has it in its   *)
(* cell, or none as long as the constructor of this cell waits below it;    *)
(* what is bound to a cell of the program's own finds none (method's bind,  *)
(* constructor, getCell).                                                   *)
THEOREM MethodsHold == InheritanceSpec => []MethodsKnowTheirInstance
<1>1. Invariant => MethodsKnowTheirInstance
  <2> SUFFICES ASSUME NEW S, Inv(S), NEW i \in DOMAIN calls, calls[i].kind = "call",
                      IsVararg(calls[i].f, "bound"), calls[i].f.self.type = "CELL"
               PROVE  LET n == calls[i].f.self.cell
                      IN \/ n \notin DOMAIN cells
                         \/ cells[n] = None /\ IsBeingMade(n, i)
                         \/ cells[n].type = "OBJECT" /\ calls[i].f \in ValuesOf(cells[n])
    BY DEF Invariant, MethodsKnowTheirInstance
  <2>1. PICK f : f = calls[i].f  OBVIOUS
  <2>2. CASE calls[i] \in Activations(S)
    <3>1. calls[i] \in Calls(S)
      BY <2>2 DEF Activations, Comparisons, Assertions, Unpackings, Constructions
    <3>2. f \in S  BY <2>1, <3>1 DEF Calls, Natives, Native, IsVararg
    <3>3. BoundOf(f, S)
      BY <2>1, <3>2, Basics, Classes DEF ConstructorOf, IsVararg
    <3>4. Finished(f)  BY <3>3 DEF BoundOf
    <3> QED  BY <2>1, <3>4 DEF Finished
  <2>3. CASE calls[i] \notin Activations(S)
    <3>1. IsEarly(f.self.cell, i)  BY <2>1, <2>3 DEF Inv, Stack
    <3> QED  BY <2>1, <3>1 DEF IsEarly
  <2> QED  BY <2>2, <2>3
<1> QED  BY <1>1, InvariantHolds, PTL

(* An instance answers for what its class was made of, whatever its values  *)
(* answered when they were asked and bound (constructor).                   *)
THEOREM InstancesHold == InheritanceSpec => []InstancesAreOfTheirClass
<1>1. Invariant => InstancesAreOfTheirClass
  BY Follows DEF Invariant, InstancesAreOfTheirClass, Creates, CreatesOne, Instantiates, HasValue,
                 Waiting, Promised
<1> QED  BY <1>1, InvariantHolds, PTL

(* Of what both have, mixed objects have what the first has (mixin, class). *)
THEOREM MixedHold == InheritanceSpec => []FirstComesFirst
<1>1. Invariant => FirstComesFirst  BY DEF Invariant, Inv
<1> QED  BY <1>1, InvariantHolds, PTL

(* An object that is asked knows the symbols it was made with and no        *)
(* others, and answers with what was last given for each (libObject,        *)
(* ObjectThing::dispatch, newSymbolId).                                     *)
THEOREM ObjectsHold == InheritanceSpec => []ObjectsKnowTheirSymbols
<1>1. Invariant => ObjectsKnowTheirSymbols
  <2> SUFFICES ASSUME NEW S, Inv(S), IdsFitByte, HasValue(result.answer),
                      result.call.args[1].type = "OBJECT"
               PROVE  KnowsItsSymbols(result.call, result.answer)
    BY DEF Invariant, ObjectsKnowTheirSymbols, KnowsItsSymbols
  <2>1. PICK call : call = result.call  OBVIOUS
  <2>2. PICK answer : answer = result.answer  OBVIOUS
  <2>3. PICK object : object = call.args[1]  OBVIOUS
  <2>4. HasValue(answer) /\ object.type = "OBJECT"  BY <2>1, <2>2, <2>3
  <2>5. /\ LooksUp(call, answer) /\ call.f \in S \cup Natives /\ call.args \in Seq(S)
        /\ call.args # <<>>
    <3>1. result.answer # Waiting  BY DEF HasValue, Waiting
    <3> QED  BY <2>1, <2>2, <3>1, Follows DEF Promised
  <2>6. program.before \in Nat /\ symbolId \in Nat  BY Basics
  <2>7. ObjectOf(object, S)
    <3>1. object \in S  BY <2>3, <2>5
    <3> QED  BY <2>4, <3>1, Basics, Classes
  <2>8. /\ object.given \in Seq(Created \X S)
        /\ \A i \in DOMAIN object.given : object.given[i][1] \in Created
        /\ DOMAIN object.map = {Key(object.given[i][1]) : i \in DOMAIN object.given}
    BY <2>7 DEF ObjectOf, HoldsLast
  <2>9. \A s \in Created : \A i \in DOMAIN object.given :
          Key(object.given[i][1]) = Key(s) <=> object.given[i][1].nth = s.nth
    <3> SUFFICES ASSUME NEW s \in Created, NEW i \in DOMAIN object.given
                 PROVE  Key(object.given[i][1]) = Key(s) <=> object.given[i][1].nth = s.nth
      OBVIOUS
    <3>1. Key(s) = s.nth % ByteSize /\ Key(object.given[i][1]) = object.given[i][1].nth % ByteSize
      BY <2>6, <2>8, CreatedFacts
    <3> QED  BY <2>6, <2>8, <3>1, KeysApart
  <2>10. ASSUME Asks(call, "responds_to"), Len(call.args) = 2, ~Overrides(object)
         PROVE  answer.thing = BoolThing(GivenTo(object, call.args[2]) # {})
    <3>1. /\ call.f = Operator("responds_to") /\ call.f \in Created /\ call.f.type = "SYMBOL"
          /\ call.f.nth = SYM("responds_to")
      BY <2>10, OperatorsThere DEF Asks
    <3>2. Key(call.f) \notin DOMAIN object.map  BY <2>8, <2>9, <2>10, <3>1 DEF Overrides
    <3>3. /\ call.args[2].type = "SYMBOL"
          /\ answer.thing = BoolThing(Key(call.args[2]) \in DOMAIN object.map)
      BY <2>3, <2>4, <2>5, <2>10, <3>1, <3>2 DEF LooksUp
    <3>4. call.args[2] \in Created
      <4>1. 2 \in 1..Len(call.args)  BY <2>10
      <4>2. call.args[2] \in S  BY <2>5, <4>1, ElementOf
      <4> QED  BY <3>3, <4>2, Basics, Classes
    <3>5. (Key(call.args[2]) \in DOMAIN object.map) = (GivenTo(object, call.args[2]) # {})
      BY <2>8, <2>9, <3>4 DEF GivenTo
    <3> QED  BY <3>3, <3>5
  <2>11. ASSUME call.f.type = "SYMBOL", Len(call.args) = 1
         PROVE  \E i \in GivenTo(object, call.f) :
                  /\ answer.thing = object.given[i][2]
                  /\ \A j \in GivenTo(object, call.f) : j <= i
    <3>1. Key(call.f) \in DOMAIN object.map /\ answer.thing = object.map[Key(call.f)]
      BY <2>3, <2>4, <2>5, <2>11 DEF LooksUp
    <3>2. call.f \in Created
      <4>1. call.f \in S  BY <2>5, <2>11 DEF Natives, Native
      <4> QED  BY <2>11, <4>1, Basics, Classes
    <3>3. PICK i \in DOMAIN object.given : Key(object.given[i][1]) = Key(call.f)
      BY <2>8, <3>1
    <3>4. PICK m \in DOMAIN object.given :
            /\ Key(object.given[m][1]) = Key(call.f)
            /\ object.map[Key(call.f)] = object.given[m][2]
            /\ \A j \in DOMAIN object.given : Key(object.given[j][1]) = Key(call.f) => j <= m
      BY <2>7, <3>3 DEF ObjectOf, HoldsLast
    <3> QED  BY <2>9, <3>1, <3>2, <3>4 DEF GivenTo
  <2> QED  BY <2>1, <2>2, <2>3, <2>10, <2>11 DEF KnowsItsSymbols
<1> QED  BY <1>1, InvariantHolds, PTL
=============================================================================
