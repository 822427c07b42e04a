------------------------- MODULE CodeGenInvariant --------------------------
(***************************************************************************)
(* The inductive invariant of CodeGen: what is left to compile agrees with *)
(* what has been emitted, the bytecode with the instructions, and the maps *)
(* from labels with both.                                                  *)
(***************************************************************************)
EXTENDS CodeGenPrograms

-----------------------------------------------------------------------------
(* What is left to compile, and what has been emitted.                      *)

(* The labels that the current function may name.                           *)
Targets == {labels[n] : n \in DOMAIN labels} \cup {globalFuncs[n] : n \in DOMAIN globalFuncs}

Tokens == IF begun = 0 THEN {} ELSE Subtrees(tree[begun])

Emits ==
  [type : {"EMIT"}, op : ConstantOps, arg : Strings]
    \cup [type : {"EMIT"}, op : NumberOps, arg : 0..Word - 1]
    \cup [type : {"EMIT"}, op : LabelOps, arg : Targets]
    \cup [type : {"EMIT"}, op : PlainOps, arg : {0}]
    \cup [type : {"EMIT"}, op : {"DEF_FUNC"}, arg : Seq(Strings)]
Items ==
  Tokens \cup Emits
    \cup [type : {"SRC_LOC"}, at : Nat] \cup [type : {"DEFINE"}, label : Targets]
    \cup [type : {"ARG_NAME"}, name : Strings]

Records ==
  [address : Nat, op : ConstantOps \cup {"ARG_NAME"}, arg : Strings]
    \cup [address : Nat, op : NumberOps, arg : 0..Word - 1]
    \cup [address : Nat, op : LabelOps, arg : 0..nextLabel - 1]
    \cup [address : Nat, op : PlainOps, arg : {0}]
    \cup [address : Nat, op : {"DEF_FUNC"}, arg : Seq(Strings)]

Positions ==
  /\ tree \in Trees /\ begun \in 0..Len(tree)
  /\ globalFuncs = Numbered(tree, DOMAIN tree, 0)
  /\ begun = 0 => todo = <<>> /\ DOMAIN labels = {}
  /\ begun > 0 =>
       DOMAIN labels = {tree[begun].children[i].arg : i \in LabelsIn(tree[begun])}
  /\ nextLabel \in Nat /\ nextLabel >= Len(tree)
  /\ \A n \in DOMAIN labels : labels[n] \in Len(tree) .. nextLabel - 1
  /\ todo \in Seq(Items)
  /\ emitted \in Seq(Records)

(* The constructor of a function is followed by the names of its arguments, *)
(* emitted or still to be.                                                  *)
IsName(x, name) == x.type = "ARG_NAME" /\ x.name = name
NamesFollow ==
  /\ \A i \in DOMAIN emitted : emitted[i].op = "DEF_FUNC" =>
       \A k \in 1..Low(Len(emitted[i].arg)) :
         IF i + k <= Len(emitted)
         THEN emitted[i + k].op = "ARG_NAME" /\ emitted[i + k].arg = emitted[i].arg[k]
         ELSE LET next == i + k - Len(emitted)
              IN next \in DOMAIN todo /\ IsName(todo[next], emitted[i].arg[k])
  /\ \A i \in DOMAIN todo : todo[i].type = "EMIT" /\ todo[i].op = "DEF_FUNC" =>
       \A k \in 1..Low(Len(todo[i].arg)) :
         i + k \in DOMAIN todo /\ IsName(todo[i + k], todo[i].arg[k])

(* A function that is begun emits something.                                *)
CodeDue == begun > 0 => emitted # <<>> \/ \E i \in DOMAIN todo : todo[i].type = "EMIT"

-----------------------------------------------------------------------------
(* The bytecode.                                                            *)

Layout ==
  /\ \A i \in DOMAIN emitted : emitted[i].address = IF i = 1 THEN 0 ELSE End(emitted[i - 1])
  /\ Address = IF emitted = <<>> THEN 0 ELSE End(emitted[Len(emitted)])
  /\ \A i, j \in DOMAIN emitted : i < j => End(emitted[i]) <= emitted[j].address

(* The four bytes from an address on are those of a number; of the index of *)
(* a constant.                                                              *)
Holds(address, n) == \A k \in 1..4 : bytecode[address + k] = UInt(n)[k]
Indexes(address, c) ==
  \E n \in 0..Len(constants) - 1 : constants[n + 1] = c /\ Holds(address, n)

Bytes ==
  /\ bytecode \in Seq(0..ByteSize + Len(INSTRUCTIONS) - 1)
  /\ constants \in Seq(Strings)
  /\ \A i \in DOMAIN emitted :
       LET e == emitted[i]
       IN /\ e.op # "ARG_NAME" => bytecode[e.address + 1] = Op(e.op)
          /\ e.op \in ConstantOps /\ OneConstantSegment => Indexes(e.address + 1, e.arg)
          /\ e.op = "ARG_NAME" /\ OneConstantSegment => Indexes(e.address, e.arg)
          /\ e.op \in NumberOps => Holds(e.address + 1, e.arg)
          /\ e.op = "DEF_FUNC" => bytecode[e.address + 2] = Low(Len(e.arg))

-----------------------------------------------------------------------------
(* Labels.                                                                  *)

LabelMaps ==
  /\ \A c \in DOMAIN labelDefs : /\ labelDefs[c].key \in 0..nextLabel - 1
                                 /\ Low(labelDefs[c].key) = c
                                 /\ labelDefs[c].value \in 0..Address
  /\ \A c \in DOMAIN labelRefs : /\ labelRefs[c].key \in 0..nextLabel - 1
                                 /\ Low(labelRefs[c].key) = c
                                 /\ labelRefs[c].value \in Seq(1..Address - 4)
  /\ placed \subseteq (0..nextLabel - 1) \X (0..Address)

(* The references filed are the jumps emitted.                              *)
References ==
  /\ \A c \in DOMAIN labelRefs : \A r \in DOMAIN labelRefs[c].value :
       \E i \in DOMAIN emitted : /\ emitted[i].op \in LabelOps /\ Low(emitted[i].arg) = c
                                 /\ labelRefs[c].value[r] = emitted[i].address + 1
  /\ \A i \in DOMAIN emitted : emitted[i].op \in LabelOps =>
       LET c == Low(emitted[i].arg)
       IN /\ c \in DOMAIN labelRefs
          /\ \E r \in DOMAIN labelRefs[c].value :
               labelRefs[c].value[r] = emitted[i].address + 1

(* While labels fit in a byte the definitions filed are the labels put      *)
(* down, and every label that is named has been or will be.                 *)
Placed == {p[1] : p \in placed}
Definitions ==
  LabelsFitByte =>
    /\ Placed \subseteq DOMAIN labelDefs
    /\ \A c \in DOMAIN labelDefs : <<c, labelDefs[c].value>> \in placed
    /\ DOMAIN labelRefs \subseteq Placed \cup Targets

Puts(x, label) == \/ x.type = "DEFINE" /\ x.label = label
                  \/ x.type = "LABEL" /\ labels[x.arg] = label
Down(label) == label \in Placed \/ \E i \in DOMAIN todo : Puts(todo[i], label)
Due == /\ \A n \in DOMAIN labels : Down(labels[n])
       /\ \A f \in 1..begun : Down(globalFuncs[tree[f].arg])

(* No label is put down twice.                                              *)
Once ==
  /\ \A p, q \in placed : p[1] = q[1] => p = q
  /\ \A i, j \in DOMAIN todo : \A l \in Targets :
       Puts(todo[i], l) => l \notin Placed /\ (Puts(todo[j], l) => i = j)
  /\ \A f \in begun + 1 .. Len(tree) : LET l == globalFuncs[tree[f].arg]
                                       IN ~Down(l)

-----------------------------------------------------------------------------
(* Locations.                                                               *)

Raises(x) == x.type = "EMIT" /\ x.op \in Raising
Locations ==
  /\ srcLoc \in Seq([index : 0..Address, location : Nat])
  /\ \A j, k \in DOMAIN srcLoc : j < k => srcLoc[j].index <= srcLoc[k].index
  /\ \A i \in DOMAIN emitted : emitted[i].op \in Raising =>
       \E k \in DOMAIN srcLoc : srcLoc[k].index = emitted[i].address
  /\ \A i \in DOMAIN todo : Raises(todo[i]) =>
       IF i = 1 THEN \E k \in DOMAIN srcLoc : srcLoc[k].index = Address
       ELSE todo[i - 1].type = "SRC_LOC"

-----------------------------------------------------------------------------
(* The module made.                                                         *)
Outcome ==
  /\ module \in {Building, Crashed} \/ Made
  /\ Made => module = ModuleBuilt /\ todo = <<>> /\ begun = Len(tree)
  /\ module = Crashed => ~(OneConstantSegment /\ LabelsFitByte)

Invariant ==
  /\ Positions /\ NamesFollow /\ CodeDue /\ Layout /\ Bytes /\ LabelMaps /\ References
  /\ Definitions /\ Due /\ (NamesDistinct => Once) /\ Locations /\ Outcome

-----------------------------------------------------------------------------
(* The program, of what has been emitted and what is left.                  *)

IsDefFunc(x) == x.type = "EMIT" /\ x.op = "DEF_FUNC"
LastOp == emitted[Len(emitted)].op

(* A function ends with OP_RETURN.                                          *)
Ends ==
  IF todo = <<>> THEN emitted = <<>> \/ LastOp = "RETURN"
  ELSE todo[Len(todo)].type = "EMIT" /\ todo[Len(todo)].op = "RETURN"

(* Its constructor comes after nothing but its label and its location.      *)
DefsFirst ==
  /\ \A i \in DOMAIN emitted : emitted[i].op = "DEF_FUNC" =>
       i = 1 \/ emitted[i - 1].op = "RETURN"
  /\ \A j \in DOMAIN todo : IsDefFunc(todo[j]) =>
       /\ \A k \in 1..j - 1 : todo[k].type \in {"DEFINE", "SRC_LOC"}
       /\ emitted = <<>> \/ LastOp = "RETURN"

(* There are no names of arguments but those the constructors count.        *)
NamesOwned ==
  /\ \A i \in DOMAIN emitted : emitted[i].op = "ARG_NAME" =>
       \E d \in DOMAIN emitted : /\ emitted[d].op = "DEF_FUNC" /\ d < i
                                 /\ i <= d + Low(Len(emitted[d].arg))
  /\ \A k \in DOMAIN todo : todo[k].type = "ARG_NAME" =>
       \/ \E d \in DOMAIN emitted : /\ emitted[d].op = "DEF_FUNC"
                                    /\ Len(emitted) + k <= d + Low(Len(emitted[d].arg))
       \/ \E d \in DOMAIN todo : IsDefFunc(todo[d]) /\ d < k /\ k <= d + Low(Len(todo[d].arg))

(* Where a label was put down an instruction is, or will be.                *)
Arrives ==
  \A p \in placed :
    \/ \E i \in Real : emitted[i].address = p[2]
    \/ p[2] = Address /\ todo # <<>> /\ todo[1].type # "ARG_NAME"

(* The arguments are those the interpreter takes.                           *)
Fits(x) ==
  /\ x.op \in LiteralOps => Literal(x.op, x.arg) \in Literals
  /\ x.op \in {"LOAD", "STORE"} => x.arg \in Names
  /\ x.op = "CALL" => Arity(x.arg) > 0
  /\ x.op = "DEF_FUNC" => x.arg \in Seq(Names)
ArgumentsFit == /\ \A i \in DOMAIN emitted : Fits(emitted[i])
                /\ \A j \in DOMAIN todo : todo[j].type = "EMIT" => Fits(todo[j])

(* The operands an item takes, and those there are after it.                *)
Needs(x) == IF x.type \in TokenTypes THEN TokenNeeds(x)
            ELSE IF x.type = "EMIT" THEN Pops(x) ELSE 0
After(x, n) ==
  IF x.type \in {"DEFINE", "LABEL", "ARG_NAME"} \/ IsDefFunc(x) THEN 0
  ELSE n + (IF x.type \in TokenTypes THEN TokenGain(x)
            ELSE IF x.type = "EMIT" THEN Gain(x) ELSE 0)

(* From n operands on items find what they take, and leave m.               *)
Walks(items, n, m) ==
  \E w \in [1..Len(items) + 1 -> Nat] :
    /\ w[1] <= n /\ m <= w[Len(items) + 1]
    /\ \A j \in DOMAIN items : Needs(items[j]) <= w[j] /\ w[j + 1] <= After(items[j], w[j])

(* What has been emitted took no operand that was not there, and what is    *)
(* left will not.                                                           *)
FreshNow == \/ emitted = <<>>
            \/ \E p \in placed : p[2] = Address
            \/ LastOp \in {"DEF_FUNC", "ARG_NAME"}
Reached(d) == IF FreshNow THEN 0 ELSE d[Len(emitted)] + Gain(emitted[Len(emitted)])
Carries(d) ==
  \A i \in DOMAIN emitted :
    /\ d[i] = IF Afresh(i) THEN 0 ELSE d[i - 1] + Gain(emitted[i - 1])
    /\ Pops(emitted[i]) <= d[i]
Stack == \E d \in [DOMAIN emitted -> Nat] : Carries(d) /\ Walks(todo, Reached(d), 0)

ProgramInvariant ==
  Ends /\ DefsFirst /\ NamesOwned /\ Arrives /\ ArgumentsFit /\ Stack
=============================================================================
