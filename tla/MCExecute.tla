----------------------------- MODULE MCExecute -----------------------------
(***************************************************************************)
(* Programs to run Execute on, as the code generator emits them: a program *)
(* is a sequence of functions, the module's code first; a function is a    *)
(* sequence of statements; a statement is a sequence of instructions, a    *)
(* jump naming a statement and CREATE_FUNC a function.  Statements start   *)
(* at depth 0: what an earlier one left behind counts for nothing.         *)
(***************************************************************************)
EXTENDS ExecuteProperties
LOCAL INSTANCE SequencesExt

L(n) == <<"LOAD", n>>
S(n) == <<"STORE", n>>
B(n) == <<"PUSH_BUILTIN", n>>
C(n) == <<"CALL", n>>
F(n) == <<"CREATE_FUNC", n>>
Def(names) == << <<"DEF_FUNC", names>> >>
StrThing(x) == [type |-> "STR", str |-> x]
IntThing(x) == [type |-> "INT", int |-> x]
K(x) == <<"PUSH_LITERAL", StrThing(x)>>
I(x) == <<"PUSH_INT", IntThing(x)>>
JumpFalse(s) == <<"COND_JUMP_FALSE", s>>
Jump(s) == <<"ABS_JUMP", s>>
R == <<"RETURN", 0>>
Dup1 == <<"DUP", 0>>
Rot == <<"ROT3", 0>>
Swp == <<"SWAP", 0>>
Pop1 == <<"POP", 0>>
IsNone == <<"CHECK_NONE", 0>>
End == << <<"PUSH_NONE", 0>>, R >>

(* The module's code that binds main, and its functions.                    *)
WithMain(functions) == << << <<F(2), S("main")>>, End >> >> \o functions

Total(s) == FoldLeft(LAMBDA a, b : a + b, 0, s)

Link(functions) ==
  LET flat == [i \in DOMAIN functions |-> FlattenSeq(functions[i])]
      start(i) == 1 + Total([k \in 1..(i - 1) |-> Len(flat[k])])
      stmtAt(i, j) == start(i) + Total([k \in 1..(j - 1) |-> Len(functions[i][k])])
      resolve(i, ins) ==
        [op |-> ins[1],
         arg |-> CASE ins[1] \in {"COND_JUMP_FALSE", "ABS_JUMP"} -> stmtAt(i, ins[2])
                   [] ins[1] = "CREATE_FUNC" -> start(ins[2])
                   [] OTHER -> ins[2]]
      depths(stmt) ==
        [j \in DOMAIN stmt |->
           Total([k \in 1..(j - 1) |->
                    LET ins == [op |-> stmt[k][1], arg |-> stmt[k][2]]
                    IN Pushes(ins) - Pops(ins)])]
  IN [code |-> FlattenSeq([i \in DOMAIN functions |->
                             [j \in DOMAIN flat[i] |-> resolve(i, flat[i][j])]]),
      depth |-> FlattenSeq([i \in DOMAIN functions |->
                  FlattenSeq([j \in DOMAIN functions[i] |-> depths(functions[i][j])])]),
      entry |-> 1]

-----------------------------------------------------------------------------
(* main = def x do                                                          *)
(*   y = trycatch (def t do assert (input none == 'a'); return t; end)      *)
(*                (def e do return is_none e; end);                         *)
(*   return y;                                                              *)
(* end;                                                                     *)
Guard == WithMain(<<
  << Def(<<"x">>), <<L("trycatch"), F(3), F(4), C(2), S("y")>>, <<L("y"), R>>, End >>,
  << Def(<<"t">>), <<L("assert"), B("=="), L("input"), L("none"), C(1), K("a"), C(2), C(1)>>,
     <<L("t"), R>>, End >>,
  << Def(<<"e">>), <<L("is_none"), L("e"), C(1), R>>, End >> >>)

(* A guarded block guards another one, whose handler may fail in turn:      *)
(* main = def x do                                                          *)
(*   print 'm';                                                             *)
(*   return trycatch                                                        *)
(*     (def t do                                                            *)
(*        print 'a';                                                        *)
(*        trycatch (def u do fail 'u'; end)                                 *)
(*                 (def e do assert (input none == 'a'); end);              *)
(*        return fail 'b';                                                  *)
(*      end)                                                                *)
(*     (def e do return input e == 'a'; end);                               *)
(* end;                                                                     *)
(* fail = def x do assert (input none == x); return x; end;                 *)
Nested == << << <<F(6), S("f")>>, <<F(2), S("main")>>, End >>,
  << Def(<<"x">>), <<L("print"), K("m"), C(1)>>, <<L("trycatch"), F(3), F(7), C(2), R>>, End >>,
  << Def(<<"t">>), <<L("print"), K("a"), C(1)>>,
     <<L("trycatch"), F(4), F(5), C(2)>>, <<L("f"), K("b"), C(1), R>>, End >>,
  << Def(<<"u">>), <<L("f"), K("u"), C(1)>>, End >>,
  << Def(<<"e">>), <<L("assert"), B("=="), L("input"), L("none"), C(1), K("a"), C(2), C(1)>>,
     End >>,
  << Def(<<"x">>), <<L("assert"), B("=="), L("input"), L("none"), C(1), L("x"), C(2), C(1)>>,
     <<L("x"), R>>, End >>,
  << Def(<<"e">>), <<B("=="), L("input"), L("e"), C(1), K("a"), C(2), R>>, End >> >>

(* f = def t do print 'a'; return t; end;                                   *)
(* main = def x do return is_none (f x); end;                               *)
Residue == << << <<F(3), S("f")>>, <<F(2), S("main")>>, End >>,
  << Def(<<"x">>), <<L("is_none"), L("f"), L("x"), C(1), C(1), R>>, End >>,
  << Def(<<"t">>), <<L("print"), K("a"), C(1)>>, <<L("t"), R>>, End >> >>

(* main = def x do                                                          *)
(*   y = 'a';                                                               *)
(*   f = def t do return y; end;                                            *)
(*   g = def t do return z; end;                                            *)
(*   y = 'b'; z = input none;                                               *)
(*   assert (f none == 'a');                                                *)
(*   return (g none, f x);                                                  *)
(* end;                                                                     *)
Closure == WithMain(<<
  << Def(<<"x">>), <<K("a"), S("y")>>, <<F(3), S("f")>>, <<F(4), S("g")>>,
     <<K("b"), S("y")>>, <<L("input"), L("none"), C(1), S("z")>>,
     <<L("assert"), B("=="), L("f"), L("none"), C(1), K("a"), C(2), C(1)>>,
     <<B("tuple"), L("g"), L("none"), C(1), L("f"), L("x"), C(1), C(2), R>>, End >>,
  << Def(<<"t">>), <<L("y"), R>>, End >>,
  << Def(<<"t">>), <<L("z"), R>>, End >> >>)

(* Destructuring and matching:                                              *)
(* main = def x do                                                          *)
(*   (y, z) = (input none, x);                                              *)
(*   f :: g = y :: none;                                                    *)
(*   none = z; 'a' = f;                                                     *)
(*   assert ((y, x) == (x, f));                                             *)
(*   (y, 0) = (head (z :: y :: none), 1);                                   *)
(* end;                                                                     *)
Match == WithMain(<<
  << Def(<<"x">>),
     <<B("tuple"), L("input"), L("none"), C(1), L("x"), C(2),
       Dup1, B("get"), I(0), Rot, C(2), S("y"), B("get"), I(1), Rot, C(2), S("z")>>,
     <<B("::"), L("y"), L("none"), C(2),
       B("unpack_cons"), Swp, C(1), Dup1, B("get"), I(0), Rot, C(2), S("f"),
       B("get"), I(1), Rot, C(2), S("g")>>,
     <<L("z"), IsNone>>,
     <<L("f"), B("assert_equal"), Swp, K("a"), C(2), Pop1>>,
     <<L("assert"), B("=="), B("tuple"), L("y"), L("x"), C(2),
       B("tuple"), L("x"), L("f"), C(2), C(2), C(1)>>,
     <<B("tuple"), L("head"), B("::"), L("z"), B("::"), L("y"), L("none"), C(2), C(2), C(1),
       I(1), C(2), Dup1, B("get"), I(0), Rot, C(2), S("y"),
       B("get"), I(1), Rot, C(2), B("assert_equal"), Swp, I(0), C(2), Pop1>>,
     End >> >>)

(* Functions called through native code:                                    *)
(* y = import 'std/functools.blg';                                          *)
(* f = y.varargs (def t do                                                  *)
(*       setCell z t; assert (not (is_none (tail t))); return head t; end); *)
(* z = createCell none;                                                     *)
(* main = def x do                                                          *)
(*   g = y.call trycatch (f :: (def e do return f 'a' (input e); end) :: none); *)
(*   return getCell z;                                                      *)
(* end;                                                                     *)
Callbacks == <<
  << <<L("import"), K("std/functools.blg"), C(1), S("y")>>,
     <<L("createCell"), L("none"), C(1), S("z")>>,
     <<B("."), L("y"), K("varargs"), C(2), F(4), C(1), S("f")>>,
     <<F(2), S("main")>>, End >>,
  << Def(<<"x">>),
     <<B("."), L("y"), K("call"), C(2), L("trycatch"),
       B("::"), L("f"), B("::"), F(3), L("none"), C(2), C(2), C(2), S("g")>>,
     <<L("getCell"), L("z"), C(1), R>>, End >>,
  << Def(<<"e">>), <<L("f"), K("a"), L("input"), L("e"), C(1), C(2), R>>, End >>,
  << Def(<<"t">>), <<L("setCell"), L("z"), L("t"), C(2)>>,
     <<L("assert"), B("not"), L("is_none"), L("tail"), L("t"), C(1), C(1), C(1), C(1)>>,
     <<L("head"), L("t"), C(1), R>>, End >> >>

(* main = def x do                                                          *)
(*   y = def a b do return a; end;                                          *)
(*   while input none == 'a' do z = x; end;                                 *)
(*   if is_none y then print 'm' else                                       *)
(*     return trycatch y (def e do while e do end; end); end;  -- two errors *)
(*   return z;                                                              *)
(* end;                                                                     *)
Loop == WithMain(<<
  << Def(<<"x">>),
     <<F(3), S("y")>>,
     <<B("=="), L("input"), L("none"), C(1), K("a"), C(2), JumpFalse(6)>>,
     <<L("x"), S("z")>>,
     <<Jump(3)>>,
     <<L("is_none"), L("y"), C(1), JumpFalse(9)>>,
     <<L("print"), K("m"), C(1)>>,
     <<Jump(10)>>,
     <<L("trycatch"), L("y"), F(4), C(2), R>>,
     <<L("z"), R>>, End >>,
  << Def(<<"a", "b">>), <<L("a"), R>>, End >>,
  << Def(<<"e">>), <<L("e"), JumpFalse(4)>>, <<Jump(2)>>, End >> >>)

(* Modules without a usable main.                                           *)
NoMain == << << <<L("print"), K("m"), C(1)>>, End >> >>
BadMain == << << <<L("none"), S("main")>>, End >> >>
TwoArgMain == WithMain(<< << Def(<<"x", "y">>), End >> >>)
FailingModule == << << <<L("print"), K("m"), C(1)>>, <<L("y"), S("main")>>, End >> >>

Straight == <<Guard, Nested, Residue, Closure, Match, Callbacks, NoMain, BadMain, TwoArgMain,
              FailingModule>>

-----------------------------------------------------------------------------
(* Every program of three small functions: main and f have two statements   *)
(* each and g has one, of a few kinds, so that calls, guards, residue and   *)
(* errors meet in every order.                                              *)
Fails == <<L("assert"), L("false"), C(1)>>
Prints == <<L("print"), K("m"), C(1)>>

(* Statements of main: an expression statement, a call, a guarded call whose *)
(* result is used as an operand, a call as an operand, a wrong call.        *)
MainStatements == <<
  Prints,
  <<L("f"), L("x"), C(1), S("y")>>,
  <<L("trycatch"), L("f"), L("g"), C(2), S("y")>>,
  <<L("is_none"), L("f"), L("x"), C(1), C(1), R>>,
  <<L("f"), L("x"), L("x"), C(2)>> >>

(* Statements of f, which main calls directly or under a guard.             *)
FStatements == <<
  Prints,
  Fails,
  <<L("g"), L("t"), C(1)>>,
  <<L("trycatch"), L("g"), L("g"), C(2), R>>,
  <<L("is_none"), L("y"), C(1), JumpFalse(2)>> >>

(* Statements of g, the handler.                                            *)
GStatements == << Fails, <<L("e"), R>>, <<L("e"), L("none"), C(1)>> >>

(* The n-th choice of statements.                                           *)
Digit(n, statements) == statements[1 + (n % Len(statements))]
Small(n) == <<
  << <<F(4), S("g")>>, <<F(3), S("f")>>, <<F(2), S("main")>>, End >>,
  << Def(<<"x">>), Digit(n, MainStatements), Digit(n \div 5, MainStatements), End >>,
  << Def(<<"t">>), Digit(n \div 25, FStatements), Digit(n \div 125, FStatements), End >>,
  << Def(<<"e">>), Digit(n \div 625, GStatements), End >> >>
Combinations == 5 * 5 * 5 * 5 * 3

-----------------------------------------------------------------------------
MCNames == BuiltinNames \cup {"main", "none", "true", "false", "x", "y", "z", "f", "g",
                             "t", "u", "e", "a", "b"}
MCLiterals == {StrThing(c) : c \in {"a", "b", "u", "m", "std/functools.blg", "varargs", "call"}}
              \cup {IntThing(i) : i \in 0..1}
MCInputs == {StrThing("a"), StrThing("b")}

StraightIds == DOMAIN Straight
StraightProgram == [id \in StraightIds |-> Link(Straight[id])]

All == Append(Straight, Loop)
AllIds == 1..(Len(All) + Combinations)
AllProgram == [id \in AllIds |-> Link(IF id <= Len(All) THEN All[id] ELSE Small(id))]
=============================================================================
