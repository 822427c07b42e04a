----------------------------- MODULE MCFrontend -----------------------------
(***************************************************************************)
(* From texts to modules: Modules with texts that Parser parses.  A        *)
(* program is one of                                                       *)
(*   - a main file of any symbols of some small alphabet,                  *)
(*   - a main file that a tree was written as,                             *)
(*   - a few files that import each other.                                 *)
(***************************************************************************)
EXTENDS ModulesProperties, Grammar
LOCAL INSTANCE SequencesExt

CONSTANT Parsed(_)    \* the parser in question: parseModule

-----------------------------------------------------------------------------
(* sourceToModule: parse, and transform what has been parsed.  A tree with  *)
(* a NULL in it makes transformModule read through NULL.                    *)
RECURSIVE Whole(_)
Whole(tree) == tree.type # "NULL" /\ \A i \in DOMAIN tree.children : Whole(tree.children[i])

StatusOf(parsed) ==
  IF parsed.status = "module" /\ ~Whole(parsed.token) THEN "crash" ELSE parsed.status

(* Calls of import with a name, anywhere in the tree.                       *)
Files == [a |-> "'a'", b |-> "'b'", operators |-> "'operators'", nowhere |-> "'nowhere'"]
IsImport(t) ==
  /\ t.type = "CALL" /\ Len(t.children) = 2
  /\ t.children[1].type = "IDENTIFIER" /\ t.children[1].arg = "import"
  /\ t.children[2].type = "LITERAL"
RECURSIVE Imported(_)
Imported(tree) ==
  (IF IsImport(tree) THEN {n \in DOMAIN Files : Files[n] = tree.children[2].arg} ELSE {})
  \cup UNION {Imported(tree.children[i]) : i \in DOMAIN tree.children}

sourceToModule(text) ==
  LET parsed == Parsed(text.symbols)
  IN [status |-> StatusOf(parsed),
      mentions |-> IF parsed.status = "module" THEN Imported(parsed.token) ELSE {}]

MCNames == {"main"} \cup DOMAIN Files
MCRank == [n \in MCNames |-> CASE n = "main" -> 3 [] n = "a" -> 2 [] n = "b" -> 1 [] OTHER -> 0]
MCWords == {"x", "import"}
MCLiterals == {Files[n] : n \in DOMAIN Files}

-----------------------------------------------------------------------------
(* Texts, with the tree they were written for, if any.                      *)
Text(symbols, tree) == [symbols |-> symbols, tree |-> tree]

(* White space between any two symbols and at the end, or only where words  *)
(* and numbers would become one.                                            *)
Airy(w) == [i \in 1..(2 * Len(w)) |-> IF i % 2 = 1 THEN w[(i + 1) \div 2] ELSE Space]
InOne(w, i) == LET IsWordOrNumber(symbol) == IsWord(symbol) \/ symbol \in Digits
               IN IsWordOrNumber(w[i]) /\ IsWordOrNumber(w[i + 1])
Tight(w) ==
  FlattenSeq([i \in DOMAIN w |-> IF i < Len(w) /\ InOne(w, i) THEN <<w[i], Space>> ELSE <<w[i]>>])
IsNoSpace(symbol) == symbol # Space
Symbols(text) == SelectSeq(text.symbols, IsNoSpace)

(* Any symbols, between a beginning and an end.                             *)
Between(first, rows, last) == {Text(Airy(first \o w \o last), NULL) : w \in rows}
Rows(n) == {
  Between(<<>>, [1..n -> {"x", "(", ")", ",", ";"}], <<>>),
  Between(<<>>, [1..n -> {"x", "1", "+", "*", "::", "not"}], <<";">>),
  Between(<<>>, [1..(n - 1) -> {"x", "[", "]", "{", "}", ":", ","}], <<";">>),
  Between(<<"if">>, [1..n -> {"x", ";", "then", "elif", "else", "end"}], <<>>),
  Between(<<>>, [1..n -> {"x", ";", "while", "do", "end", "def", "return"}], <<>>),
  {Text(w \o <<";">>, NULL) :
    w \in {v \in [1..(n - 1) -> {"x", "1", ".", "-", "=", "==", "(", OpenQuote}] :
             \A i \in 1..(Len(v) - 1) : ~InOne(v, i)}}}

-----------------------------------------------------------------------------
(* Trees: expressions with expressions inside them, in every place, and     *)
(* statements with statements inside them.                                  *)
X == Node("IDENTIFIER", "x", <<>>)
One == Node("INT", <<"1">>, <<>>)
Minus == Node("INT", <<"-", "1">>, <<>>)
Quoted == Node("LITERAL", "'a'", <<>>)
BLOCK(statements) == Node("BLOCK", "", statements)
FUNC(params, body) == [type |-> "FUNC", at |-> 0, arg |-> "", params |-> params, children |-> body]
NameX == Node("LITERAL", "x", <<>>)

Made(ops, parts) ==
  {Node("BINARY_OP", op, <<l, r>>) : op \in ops, l, r \in parts}
  \cup {Node("UNARY_OP", "not", <<t>>) : t \in parts}
Built(parts) == {
  Made({"*", "+", "==", "and", "::"}, parts),
  {Node(type, "", <<l, r>>) : type \in {"CALL", "TUPLE", "LIST", "OBJECT"}, l, r \in parts},
  {Node("BINARY_OP", ".", <<t, NameX>>) : t \in {u \in parts : u.type # "INT"}},
  {Node("LIST", "", <<t>>) : t \in parts},
  {Node("CALL", "", <<X, t, X>>) : t \in parts},
  {Node("OBJECT", "", <<X, X, X, t>>) : t \in parts},
  {Node("TUPLE", "", <<X, X, t>>) : t \in parts},
  {FUNC(params, <<t>>) : params \in {<<>>, <<"x">>, <<"x", "x">>}, t \in parts}}
Leaves == {X, One, Minus, Quoted}
Chains == LET ops == {"*", "+", "::"}
              two == {X} \cup Made(ops, {X} \cup Made(ops, {X}))
          IN {Node("BINARY_OP", op, <<l, X>>) : op \in ops, l \in two}
             \cup {Node("BINARY_OP", op, <<X, r>>) : op \in ops, r \in two}
Expressions == {Leaves, Chains} \cup Built(Leaves) \cup Built({X} \cup UNION Built({X}))

Holding(blocks) ==
  {Node("WHILE", "", <<X, b>>) : b \in blocks}
  \cup {Node("IF", "", <<X, b>>) : b \in blocks}
  \cup {Node("IF", "", <<X, b, c>>) : b, c \in blocks}
  \cup {Node("IF", "", <<X, b, X, c>>) : b, c \in blocks}
  \cup {Node("IF", "", <<X, b, X, BLOCK(<<X>>), c>>) : b, c \in blocks}
Plain == {X, Node("ASSIGNMENT", "", <<X, One>>), Node("RETURN", "", <<X>>)}
Blocks == {BLOCK(<<>>)} \cup {BLOCK(<<s>>) : s \in Plain}
Bodies == {{<<t>> : t \in trees} : trees \in Expressions} \cup {
  {<<s, t>> : s, t \in Plain \cup Holding(Blocks)},
  {<<s>> : s \in Holding(Blocks \cup {BLOCK(<<s, X>>) : s \in Holding({BLOCK(<<>>)})})}}
WriteModule(body) == WriteBlock(BLOCK(body))
MayBeAiry(w) == \A i \in DOMAIN w : w[i] \notin {".", "-"}
Tightly(bodies) == {Text(Tight(WriteModule(b)), BLOCK(b)) : b \in bodies}
Airily(bodies) ==
  {Text(Airy(WriteModule(b)), BLOCK(b)) : b \in {c \in bodies : MayBeAiry(WriteModule(c))}}
Written == {Tightly(b) : b \in Bodies} \cup {Airily(b) : b \in Bodies}

-----------------------------------------------------------------------------
(* Files that import each other, or are not there, or do not compile: with  *)
(* a message, to nothing, or to a tree with a NULL in it.                   *)
Importing(names) ==
  LET import == Node("IDENTIFIER", "import", <<>>)
      statements == {Node("CALL", "", <<import, Node("LITERAL", Files[n], <<>>)>>) : n \in names}
  IN Text(Tight(WriteBlock(BLOCK(SetToSeq(statements)))), NULL)
Wrong == Text(<<"x", ",">>, NULL)
Unfinished == Text(<<"x", "+">>, NULL)
Empty == Text(<<"x", "(", ")", ";">>, NULL)

Two(a, b) == {[main |-> Importing({"a", "b"}), a |-> a, b |-> b]}
OnlyA(a) == {[main |-> Importing({"a", "b", "nowhere"}), a |-> a]}
Together == Two(Importing({"b", "operators"}), Importing({"operators"}))
            \cup Two(Importing({"b", "nowhere"}), Wrong)
            \cup Two(Importing({"b"}), Importing({"a"}))
            \cup OnlyA(Importing({"a"})) \cup OnlyA(Wrong) \cup OnlyA(Unfinished) \cup OnlyA(Empty)

AnySymbols == UNION {Rows(n) : n \in 1..5}
Program(fs, steps, strangers) == [files |-> fs, steps |-> steps, strangers |-> strangers]
Alone(texts) == {Program([main |-> text], 0, FALSE) : text \in texts}
MCPrograms == {Alone(texts) : texts \in AnySymbols \cup Written}
              \cup {{Program(fs, 5, b) : fs \in Together, b \in BOOLEAN}}

-----------------------------------------------------------------------------
(* What the parser makes of the program's own file, before anything else.   *)
MainText == files["main"]
Fresh == phase = "start"

(* Without the locations.                                                   *)
RECURSIVE Same(_, _)
Same(t, u) ==
  /\ t.type = u.type /\ t.arg = u.arg
  /\ t.type = "FUNC" => t.params = u.params
  /\ Len(t.children) = Len(u.children)
  /\ \A i \in DOMAIN t.children : Same(t.children[i], u.children[i])

(* Where the parser is known to take more than the grammar allows: a name   *)
(* missing after a point, a sign with no digits.                            *)
RECURSIVE Lenient(_)
Lenient(t) ==
  \/ t.type = "LITERAL" /\ t.arg = ""
  \/ t.type \in {"INT", "FLOAT"} /\ ~IsNumber(t.arg)
  \/ \E i \in DOMAIN t.children : Lenient(t.children[i])

(* Where it departs from a production of the comments, as the tree t of the *)
(* text w, or a tree inside it, shows; a name in parentheses before = does  *)
(* not show in the tree.                                                    *)
Departs(departure, t, w) ==
  CASE departure = "arguments" -> t.type = "CALL" /\ Len(t.children) > 2
    [] departure = "operands" ->
         t.type = "BINARY_OP" /\ t.arg \in {"and", "or"} /\ Second(t).type = "UNARY_OP"
    [] departure = "targets" ->
         /\ t.type = "ASSIGNMENT"
         /\ \/ First(t).type # "IDENTIFIER"
            \/ \E i \in 1..(Len(w) - 1) : w[i] = ")" /\ w[i + 1] = "="
    [] departure = "conditions" -> t.type = "IF"
RECURSIVE Shows(_, _, _)
Shows(departure, t, w) ==
  Departs(departure, t, w) \/ \E i \in DOMAIN t.children : Shows(departure, t.children[i], w)

(* A text that is taken for a module is one: its tree derives it, symbol by *)
(* symbol, by the productions of the comments, with its operators binding   *)
(* and associating as the levels of OP_DATA say.  Where the parser departs  *)
(* from a production a text may do so in this way and in no other, and only *)
(* if its tree shows it: all other texts keep to the production as it is    *)
(* written (parseModule and everything below it).                           *)
Sound ==
  Fresh => LET parsed == Parsed(MainText.symbols)
               w == Symbols(MainText)
           IN parsed.status = "module" /\ Whole(parsed.token) /\ ~Lenient(parsed.token) =>
                Block({d \in Departures : Shows(d, parsed.token, w)}, parsed.token.children, w)

(* What a tree is written as parses to that tree, with white space and      *)
(* without, with no more parentheses than the levels ask for.               *)
Complete ==
  Fresh /\ MainText.tree # NULL =>
    LET parsed == Parsed(MainText.symbols)
    IN parsed.status = "module" /\ Same(parsed.token, MainText.tree)

(* The parsing functions return NULL on errors (parse.cpp:170): a tree that *)
(* is not NULL has no NULL inside it.                                       *)
NoNullInside == Fresh => LET parsed == Parsed(MainText.symbols)
                         IN parsed.status = "module" => Whole(parsed.token)
=============================================================================
