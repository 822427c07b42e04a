----------------------------- MODULE MCLowering -----------------------------
(***************************************************************************)
(* Function bodies for Lowering, and what is expected of it.               *)
(***************************************************************************)
EXTENDS Lowering

Id(n) == Token("IDENTIFIER", 0, n, <<>>)
Five == Token("INT", 0, "5", <<>>)
Word == Token("LITERAL", 0, "s", <<>>)
Tuple(parts) == Token("TUPLE", 0, "", parts)
ListOf(parts) == Token("LIST", 0, "", parts)
Object(parts) == Token("OBJECT", 0, "", parts)
Call(parts) == Token("CALL", 0, "", parts)
Assign(pattern, name) == Token("ASSIGNMENT", 0, "", <<pattern, Id(name)>>)
Say(name) == Call(<<Id("print"), Id(name)>>)
Return(name) == Token("RETURN", 0, "", <<Id(name)>>)
If(parts) == Token("IF", 0, "", parts)
While(name, body) == Token("WHILE", 0, "", <<Id(name), Block(0, body)>>)

a == Id("a")
b == Id("b")
c == Id("c")

-----------------------------------------------------------------------------
(* Patterns: every kind, in every other where that can be, and a name twice.*)
Flat == {Tuple(<<a, b>>), ListOf(<<a, b>>), ConsToken(0, a, b), Object(<<Id("w"), a, Id("h"), b>>),
         Tuple(<<a, Five>>), Tuple(<<Word, b>>), Tuple(<<a, a>>), ListOf(<<a>>)}
Inner == Flat \cup {a, Five}
Calls == {Call(<<Id("point"), a, p>>) : p \in Flat}
Nested == {Tuple(<<p, c>>) : p \in Flat} \cup {Tuple(<<c, p>>) : p \in Flat \cup Calls}
          \cup {ListOf(<<c, p>>) : p \in Flat} \cup {ConsToken(0, p, c) : p \in Flat}
          \cup {Object(<<Id("h"), p, Id("w"), c>>) : p \in Flat}
          \cup {Object(<<Id("w"), c, Id("h"), p>>) : p \in Calls}

Matching == {<<Assign(p, "x"), Say("y")>> : p \in Inner \cup Calls \cup Nested}
            \cup {<<While("p", <<Assign(p, "few")>>)>> : p \in Flat \cup Calls}

(* Control structures, one inside the other, with a statement in each part. *)
Branching(s, t) == {
  If(<<Id("p"), Block(0, <<s>>)>>),
  If(<<Id("p"), Block(0, <<s>>), Block(0, <<t>>)>>),
  If(<<Id("p"), Block(0, <<s>>), Id("q"), Block(0, <<>>)>>),
  If(<<Id("p"), Block(0, <<>>), Id("q"), Block(0, <<s>>), Block(0, <<t>>)>>),
  While("p", <<s, t>>),
  While("p", <<>>) }
Inside == Branching(Say("y"), Return("z")) \cup Branching(Assign(a, "few"), Say("y"))
Controlled == {<<s, Say("y")>> : s \in UNION {Branching(i, Say("y")) : i \in Inside}}

MCBodies == Matching \cup Controlled

(* A call pattern with more of the tuple to be matched after it.            *)
CallFirst == {<<Assign(Tuple(<<Call(<<Id("point"), a, b>>), c>>), "x"), Say("y")>>}

-----------------------------------------------------------------------------
(* Values that match the patterns, and others.  The conditions are p and q, *)
(* a pattern is matched with x, or with few where it may be matched again.  *)
Scalars == {IntValue(5), Str("s"), None, Bool(TRUE)}
Pair(v, w) == Held("TUPLE", <<v, w>>)
Pairs == {Pair(IntValue(1), IntValue(5)), Pair(Str("s"), IntValue(1)),
          Held("LIST", <<IntValue(1), IntValue(5)>>), Held("LIST", <<Str("s")>>),
          Held("OBJECT", <<IntValue(5), Str("s")>>)}
Deep == {Pair(IntValue(1), v) : v \in Pairs}
Matched ==
  Scalars \cup Pairs \cup Deep \cup {Pair(v, IntValue(5)) : v \in Pairs}
  \cup {Held("LIST", <<IntValue(1), v>>) : v \in Pairs}
  \cup {Held("LIST", <<v>>) : v \in Pairs}
  \cup {Held("OBJECT", <<v, w>>) : v \in {IntValue(1)}, w \in Pairs \cup Deep}
  \cup {Held("TUPLE", <<IntValue(1), IntValue(5), IntValue(5)>>)}

MCValuesOf(expression) ==
  CASE expression.arg \in {"p", "q"} -> {Bool(TRUE), Bool(FALSE), IntValue(5)}
    [] expression.arg = "x" -> Matched
    [] expression.arg = "few" -> {Pair(IntValue(1), IntValue(5)), Held("LIST", <<Str("s")>>),
                                  Held("OBJECT", <<IntValue(5), Pair(Str("s"), IntValue(1))>>)}
    [] OTHER -> {None}

-----------------------------------------------------------------------------
(* Whatever the expressions evaluate to, the transformed body evaluates the *)
(* same ones in the same order as the source does, fails where a pattern    *)
(* does not match or a condition is no bool, and binds the same names to    *)
(* the same values (transformModule).                                       *)
Agree ==
  Waits.type # "busy" => /\ Waits = Asked
                         /\ Waits # Failed => locals = bound

(* It never goes round without evaluating anything.                         *)
Progress == []<>(Waits.type # "busy")

(* Every label a function jumps to is put down in it, once (uniqueName).    *)
LabelsUnique ==
  \A i \in DOMAIN tokens :
    tokens[i].type \in {"ABS_JUMP", "COND_JUMP"} =>
      \E j \in DOMAIN tokens :
        \A k \in DOMAIN tokens :
          tokens[k].type = "LABEL" /\ tokens[k].arg = tokens[i].arg <=> k = j

-----------------------------------------------------------------------------
(* What the tests and comments say, and the code does not do.               *)

(* A pattern that matches its value does not fail: unpack.blg:6 has a       *)
(* pattern inside one, unpack_func.blg:14 a call as the pattern.  A call    *)
(* pattern leaves its value on the stack (the DUP of transform.cpp:553),    *)
(* where the pattern around it expects its own.                             *)
FailsOnlyOnMismatch == Waits = Failed => Asked = Failed
=============================================================================
