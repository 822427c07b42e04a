----------------------------- MODULE MCCodeGen -----------------------------
(***************************************************************************)
(* Modules for CodeGen: source trees, transformed as transformModule hands *)
(* them to compileModule.  A token's location is the number of its         *)
(* subtrees.                                                               *)
(***************************************************************************)
EXTENDS CodeGenPrograms

Passes == INSTANCE Transform

RECURSIVE Within(_)
Within(token) == {token} \cup UNION {Within(token.children[i]) : i \in DOMAIN token.children}
TokensWithin(func) == UNION {Within(func.children[i]) : i \in DOMAIN func.children}

T(type, arg, children) == [type |-> type, at |-> Len(children), arg |-> arg, children |-> children]
Leaf(type, arg) == T(type, arg, <<>>)
Id(n) == Leaf("IDENTIFIER", n)
Str(c) == Leaf("LITERAL", c)
Integer(n) == Leaf("INT", n)
Apply(children) == T("CALL", "", children)
Bin(op, a, b) == T("BINARY_OP", op, <<a, b>>)
Tuple(parts) == T("TUPLE", "", parts)
Body(children) == T("BLOCK", "", children)
Set(pattern, value) == T("ASSIGNMENT", "", <<pattern, value>>)
Give(value) == T("RETURN", "", <<value>>)
Def(params, children) ==
  [type |-> "FUNC", at |-> Len(children), arg |-> "", params |-> params, children |-> children]

x == Id("x")
y == Id("y")
f == Id("f")

-----------------------------------------------------------------------------
(* Statements: a call, a definition, destructuring, matching, a loop, a     *)
(* conditional, a return.                                                   *)
Statements == <<
  Apply(<<Id("print"), Str("m")>>),
  Set(f, Def(<<"x", "y">>, <<Give(x)>>)),
  Set(Tuple(<<x, y>>), Tuple(<<y, Integer(7)>>)),
  Set(T("LIST", "", <<Str("m")>>), T("LIST", "", <<x>>)),
  T("WHILE", "", <<T("UNARY_OP", "not", <<y>>), Body(<<Set(y, Bin("+", y, Integer(200)))>>)>>),
  T("IF", "", <<Bin("==", x, Str("n")), Body(<<Apply(<<f, x, y>>)>>), Body(<<Give(y)>>)>>),
  Give(Apply(<<f, Apply(<<f, x, Leaf("FLOAT", 5)>>), y>>)) >>

Module(statements) == Passes!transformModule(Body(statements))
Uses(statements) == Module(<<Set(Id("main"), Def(<<"x">>, statements))>>)

(* Three different statements, in every order.                              *)
Several == {Uses(<<Statements[t[1]], Statements[t[2]], Statements[t[3]]>>) :
              t \in {u \in [1..3 -> DOMAIN Statements] : u[1] # u[2] /\ u[2] # u[3] /\ u[1] # u[3]}}

(* A module with five constants, and one with a loop and a conditional.     *)
FiveNames == {Module(<<Apply(<<f, Id("g"), x, y, Str("m")>>), Give(Str("m"))>>)}
FiveLabels == {Uses(<<Statements[5], Statements[6]>>)}

AnyString == STRING
MCNames == {"main", "f", "g", "x", "y", "print", "$arg"}
MCLiterals == [type : {"STR"}, str : {"m", "n"}] \cup [type : {"INT"}, int : {0, 1, 7, 200}]
              \cup [type : {"FLOAT"}, float : {5}]
=============================================================================
