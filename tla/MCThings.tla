------------------------------ MODULE MCThings ------------------------------
(***************************************************************************)
(* Small programs for Things, and the things they are given.               *)
(***************************************************************************)
EXTENDS ThingsProperties

Tuples == {Tuple(<<IntThing(0), IntThing(1)>>), Tuple(<<IntThing(0), IntThing(1), IntThing(0)>>)}
MCAnswers == {Answer(BoolThing(TRUE)), Error("thrown")} \cup {Answer(t) : t \in Tuples}
Zero == {IntThing(0)}
ZeroOne == {IntThing(0), IntThing(1)}
OneOfEach == {IntThing(0), StrThing("s"), BoolThing(TRUE)}
Others == {None, FloatThing(0), ModuleThing([s |-> IntThing(0)]), ListThing, ErrorThing, CellThing(0)}
AllOperators == {SYMBOLS[i] : i \in DOMAIN SYMBOLS}
Kinds == {"+", "==", "get", "call", "responds_to", "unpack"}

Using(literals, operators, makes, pairs) ==
  [literals |-> literals, operators |-> operators, makes |-> makes, pairs |-> pairs,
   before |-> 0]

(* Every symbol of the runtime sent to a thing of each class, alone and     *)
(* with another; those some class treats differently from the others, to    *)
(* tuples and objects; tuples and objects inside each other; objects of up  *)
(* to two properties, named by symbols created before; mixed objects;       *)
(* classes and instances of them.  The later program runs when others have  *)
(* run in the process, and its symbols' ids do not fit in a byte.           *)
Several ==
  {Using(OneOfEach \cup Others, AllOperators, <<>>, 1)}
  \cup {Using(OneOfEach, Kinds, <<k>>, 1) : k \in {"tuple", "object"}}
  \cup {Using(ZeroOne, {"=="}, <<k, "tuple">>, 1) : k \in {"tuple", "object"}}
  \cup {Using(ZeroOne, {"call"}, <<"tuple", "object">>, 1),
        Using(ZeroOne, {"==", "call"}, <<"object", "object">>, 1)}
  \cup {Using({}, {"responds_to"}, <<"symbol", "symbol", "object">>, 2)}
Inheriting ==
  {Using({}, {}, <<"bind", "object", "object", "mixin">>, 1),
   Using({None}, {"call"}, <<"bind", "method", "object", "class", "instance">>, 1),
   Using({CellThing(0)}, {}, <<"bind", "object", "object", "class", "instance">>, 1),
   Using({}, {}, <<"bind", "method", "object", "class", "instance">>, 2),
   Using({}, {}, <<"bind", "method", "object", "class", "instance", "mixin">>, 1)}
Later == {[Using({}, {"responds_to"}, <<"symbol", "object", "object">>, 1)
           EXCEPT !.before = 14 * Len(SYMBOLS)]}
All == Several \cup Inheriting \cup Later
TwoTuples == {Using(ZeroOne, {"!="}, <<"tuple", "tuple">>, 1)}


(* Programs hold tuples of these at most two deep.                          *)
MCData == OneOfEach \cup ZeroOne \cup Others \cup {FuncThing, BoolThing(FALSE)} \cup Tuples
Numbers == ZeroOne \cup {StrThing("s")}
PairsOf(S) == {Tuple(<<a, b>>) : a, b \in S}
Flat == Numbers \cup PairsOf(Numbers)
MCPlain == Flat \cup PairsOf(Flat) \cup Tuples
=============================================================================
