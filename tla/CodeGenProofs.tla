--------------------------- MODULE CodeGenProofs ---------------------------
(***************************************************************************)
(* The code generator keeps the Invariant and the ProgramInvariant of      *)
(* CodeGenInvariant, whatever trees it is given, however large its         *)
(* segments and its bytes; so what it makes within its limits reads back   *)
(* as what was compiled, and is a program Execute can run.                 *)
(***************************************************************************)
EXTENDS CodeGenInvariant, FiniteSetTheorems, SequenceTheorems, WellFoundedInduction, TLAPS

-----------------------------------------------------------------------------
(* Bytes.                                                                   *)

(* A word is its low byte and the bytes above.                              *)
LEMMA LowShifted ==
  ASSUME NEW n \in Nat
  PROVE  /\ Low(n) \in 0..ByteSize - 1 /\ Low(n) \in Nat /\ Shifted(n) \in Nat
         /\ n = ByteSize * Shifted(n) + Low(n)
BY ByteAssumption DEF Low, Shifted

(* What fits in a byte is its low byte.                                     *)
LEMMA LowSmall ==
  ASSUME NEW n \in Nat, n < ByteSize
  PROVE  Low(n) = n
BY ByteAssumption DEF Low

(* The high part of a number below b times m is below m.                    *)
LEMMA ShiftedBound ==
  ASSUME NEW n \in Nat, NEW m \in Nat, n < m * ByteSize
  PROVE  Shifted(n) < m
<1> DEFINE q == Shifted(n)
           r == Low(n)
<1>1. q \in Nat /\ r \in Nat /\ n = ByteSize * q + r  BY LowShifted
<1>2. ByteSize \in Nat  BY ByteAssumption
<1> HIDE DEF q, r
<1>3. SUFFICES ASSUME q >= m PROVE FALSE  BY <1>1 DEF q
<1>4. ByteSize * q >= ByteSize * m  BY <1>1, <1>2, <1>3
<1> QED  BY <1>1, <1>2, <1>4

(* Bytes are numbers and fit in words.                                      *)
LEMMA ByteWord ==
  /\ ByteSize \in Nat /\ Word \in Nat /\ ByteSize <= Word
<1>1. ByteSize \in Nat /\ ByteSize >= 1  BY ByteAssumption
<1>2. ByteSize * ByteSize \in Nat /\ ByteSize * ByteSize >= ByteSize  BY <1>1
<1>3. /\ ByteSize * ByteSize * ByteSize \in Nat
      /\ ByteSize * ByteSize * ByteSize >= ByteSize * ByteSize
  BY <1>1, <1>2
<1>4. Word \in Nat /\ Word >= ByteSize * ByteSize * ByteSize  BY <1>1, <1>3 DEF Word
<1> QED  BY <1>1, <1>2, <1>3, <1>4

(* A word has four bytes.                                                   *)
LEMMA UIntType ==
  ASSUME NEW n \in Nat
  PROVE  /\ UInt(n) \in Seq(0..ByteSize - 1) /\ Len(UInt(n)) = 4
         /\ \A k \in 1..4 : UInt(n)[k] \in 0..ByteSize - 1
<1> DEFINE a == Shifted(n)
           b == Shifted(a)
           c == Shifted(b)
<1>1. a \in Nat /\ b \in Nat /\ c \in Nat  BY LowShifted
<1>2. Low(n) \in 0..ByteSize - 1 /\ Low(a) \in 0..ByteSize - 1 /\ Low(b) \in 0..ByteSize - 1
      /\ Low(c) \in 0..ByteSize - 1
  BY <1>1, LowShifted
<1>3. UInt(n) = <<Low(c), Low(b), Low(a), Low(n)>>  BY DEF UInt
<1> QED  BY <1>2, <1>3

(* Reading the bytes of a word gives the word.                              *)
LEMMA RoundTrip ==
  ASSUME NEW n \in 0..Word - 1
  PROVE  ((UInt(n)[1] * ByteSize + UInt(n)[2]) * ByteSize + UInt(n)[3]) * ByteSize + UInt(n)[4]
           = n
<1> DEFINE a == Shifted(n)
           b == Shifted(a)
           c == Shifted(b)
<1>1. ByteSize \in Nat  BY ByteAssumption
<1>2. n \in Nat /\ n < (ByteSize * ByteSize * ByteSize) * ByteSize
  BY <1>1 DEF Word
<1>3. a \in Nat /\ a < (ByteSize * ByteSize) * ByteSize
  BY <1>1, <1>2, LowShifted, ShiftedBound
<1>4. b \in Nat /\ b < ByteSize * ByteSize
  BY <1>1, <1>3, LowShifted, ShiftedBound
<1>5. c \in Nat /\ c < ByteSize
  BY <1>1, <1>4, LowShifted, ShiftedBound
<1>6. UInt(n)[1] = c /\ UInt(n)[2] = Low(b) /\ UInt(n)[3] = Low(a) /\ UInt(n)[4] = Low(n)
  BY <1>5, LowSmall DEF UInt
<1>7. n = ByteSize * a + Low(n) /\ a = ByteSize * b + Low(a) /\ b = ByteSize * c + Low(b)
  BY <1>2, <1>3, <1>4, LowShifted
<1>8. Low(n) \in Nat /\ Low(a) \in Nat /\ Low(b) \in Nat
  BY <1>2, <1>3, <1>4, LowShifted
<1> HIDE DEF a, b, c
<1>9. c * ByteSize + Low(b) = b  BY <1>1, <1>5, <1>7, <1>8
<1>10. b * ByteSize + Low(a) = a  BY <1>1, <1>4, <1>7, <1>8
<1>11. a * ByteSize + Low(n) = n  BY <1>1, <1>3, <1>7, <1>8
<1> QED  BY <1>6, <1>9, <1>10, <1>11

(* Opcodes are numbered from ByteSize on.                                   *)
LEMMA OpType ==
  \A op \in ConstantOps \cup NumberOps \cup LabelOps \cup PlainOps \cup {"DEF_FUNC"} :
    Op(op) \in 0..ByteSize + Len(INSTRUCTIONS) - 1
<1> SUFFICES ASSUME NEW op \in ConstantOps \cup NumberOps \cup LabelOps \cup PlainOps
                                 \cup {"DEF_FUNC"}
             PROVE  Op(op) \in 0..ByteSize + Len(INSTRUCTIONS) - 1
  OBVIOUS
<1>1. /\ Len(INSTRUCTIONS) = 19 /\ DOMAIN INSTRUCTIONS = 1..19
  BY DEF INSTRUCTIONS
<1>2. \E i \in 1..19 : INSTRUCTIONS[i] = op
  BY DEF INSTRUCTIONS, ConstantOps, NumberOps, LabelOps, PlainOps
<1> DEFINE number == CHOOSE i \in DOMAIN INSTRUCTIONS : INSTRUCTIONS[i] = op
<1>3. number \in 1..19  BY <1>1, <1>2
<1>4. Op(op) = ByteSize - 1 + number  BY DEF Op
<1> HIDE DEF number
<1> QED  BY <1>1, <1>3, <1>4, ByteAssumption

-----------------------------------------------------------------------------
(* Labels are numbered one after the other.                                 *)

(* A non-empty set of places has a last one.                                *)
LEMMA LastPlace ==
  ASSUME NEW n \in Nat, NEW S \in SUBSET (1..n), S # {}
  PROVE  \E i \in S : \A j \in S : j <= i
<1> DEFINE D == {n - i : i \in S}
<1>1. D \in SUBSET Nat /\ D # {}
  <2>1. PICK i \in S : TRUE  OBVIOUS
  <2>2. n - i \in D  OBVIOUS
  <2>3. \A j \in S : n - j \in Nat  OBVIOUS
  <2> QED  BY <2>2, <2>3
<1>2. \E x \in D : \A y \in D : <<y, x>> \notin OpToRel(<, Nat)
  BY <1>1, NatLessThanWellFounded, WFMin
<1>3. PICK d \in D : \A y \in D : <<y, d>> \notin OpToRel(<, Nat)  BY <1>2
<1>4. PICK i \in S : d = n - i  OBVIOUS
<1>5. ASSUME NEW j \in S PROVE j <= i
  <2>1. n - j \in D /\ n - j \in Nat /\ d \in Nat  BY <1>1
  <2>2. ~ (n - j < d)  BY <2>1, <1>3 DEF OpToRel
  <2> QED  BY <2>2, <1>4
<1> QED  BY <1>5

(* The places before the last of a name.                                    *)
Before(list, places, n) == {i \in places : \E j \in places : i < j /\ list[j].arg = n}

(* What Numbered gives a name, written with Before.                         *)
LEMMA NumberedIs ==
  ASSUME NEW list, NEW places, NEW first
  PROVE  /\ DOMAIN Numbered(list, places, first) = {list[i].arg : i \in places}
         /\ \A n \in DOMAIN Numbered(list, places, first) :
              Numbered(list, places, first)[n] = first + Cardinality(Before(list, places, n))
<1>1. Numbered(list, places, first)
        = [n \in {list[i].arg : i \in places} |-> first + Cardinality(Before(list, places, n))]
  BY DEF Numbered, Before
<1> QED  BY <1>1

(* Of k places the names get the numbers first to first + k - 1.            *)
LEMMA NumberedType ==
  ASSUME NEW list, NEW size \in Nat, NEW places \in SUBSET (1..size), NEW first \in Nat
  PROVE  /\ Cardinality(places) \in Nat
         /\ \A n \in DOMAIN Numbered(list, places, first) :
              Numbered(list, places, first)[n] \in first .. first + Cardinality(places) - 1
<1>1. IsFiniteSet(places)
  <2>1. IsFiniteSet(1..size)  BY FS_Interval
  <2> QED  BY <2>1, FS_Subset
<1> DEFINE numbers == Numbered(list, places, first)
<1>2. /\ DOMAIN numbers = {list[i].arg : i \in places}
      /\ \A n \in DOMAIN numbers : numbers[n] = first + Cardinality(Before(list, places, n))
  BY NumberedIs
<1>3. Cardinality(places) \in Nat  BY <1>1, FS_CardinalityType
<1>4. ASSUME NEW n \in DOMAIN numbers
      PROVE  numbers[n] \in first .. first + Cardinality(places) - 1
  <2>1. PICK k \in places : list[k].arg = n  BY <1>2
  <2>2. PICK last \in places : \A j \in places : j <= last  BY <2>1, LastPlace
  <2>3. last \notin Before(list, places, n)  BY <2>2 DEF Before
  <2>4. Before(list, places, n) \in SUBSET places  BY DEF Before
  <2>5. /\ IsFiniteSet(Before(list, places, n))
        /\ Cardinality(Before(list, places, n)) <= Cardinality(places)
        /\ Cardinality(Before(list, places, n)) # Cardinality(places)
    BY <1>1, <2>2, <2>3, <2>4, FS_Subset
  <2>6. Cardinality(Before(list, places, n)) \in Nat  BY <2>5, FS_CardinalityType
  <2>7. numbers[n] = first + Cardinality(Before(list, places, n))  BY <1>2, <1>4
  <2> HIDE DEF numbers
  <2> QED  BY <2>5, <2>6, <2>7, <1>3
<1> QED  BY <1>3, <1>4

(* Where names are distinct, so are their numbers.                          *)
LEMMA NumberedDistinct ==
  ASSUME NEW list, NEW size \in Nat, NEW places \in SUBSET (1..size), NEW first \in Nat,
         \A i, j \in places : list[i].arg = list[j].arg => i = j,
         NEW m \in DOMAIN Numbered(list, places, first),
         NEW n \in DOMAIN Numbered(list, places, first),
         Numbered(list, places, first)[m] = Numbered(list, places, first)[n]
  PROVE  m = n
<1>1. IsFiniteSet(places)
  <2>1. IsFiniteSet(1..size)  BY FS_Interval
  <2> QED  BY <2>1, FS_Subset
<1> DEFINE numbers == Numbered(list, places, first)
<1>2. /\ DOMAIN numbers = {list[i].arg : i \in places}
      /\ \A name \in DOMAIN numbers : numbers[name] = first + Cardinality(Before(list, places, name))
  <2>1. numbers = [name \in {list[i].arg : i \in places}
                     |-> first + Cardinality(Before(list, places, name))]
    BY DEF Numbered, Before
  <2> HIDE DEF numbers
  <2> QED  BY <2>1
<1> DEFINE Of(k) == Before(list, places, list[k].arg)
<1>3. ASSUME NEW k \in places
      PROVE  Of(k) = {i \in places : i < k} /\ IsFiniteSet(Of(k)) /\ Cardinality(Of(k)) \in Nat
  <2>1. Of(k) = {i \in places : i < k}  BY <1>3 DEF Before
  <2>2. IsFiniteSet(Of(k))
    BY <1>1, <2>1, FS_Subset
  <2> QED  BY <2>1, <2>2, FS_CardinalityType
<1>4. ASSUME NEW j \in places, NEW k \in places, j < k
      PROVE  Cardinality(Of(j)) # Cardinality(Of(k))
  <2>1. Of(j) = {i \in places : i < j} /\ Of(k) = {i \in places : i < k}  BY <1>3
  <2>2. j \in Nat /\ k \in Nat /\ \A i \in places : i \in Nat  OBVIOUS
  <2>3. j \in {i \in places : i < k} /\ j \notin {i \in places : i < j}  BY <2>2, <1>4
  <2>4. ASSUME NEW i \in places, i < j PROVE i < k
    <3>1. i \in Nat /\ j \in Nat /\ k \in Nat  BY <2>2
    <3> QED  BY <3>1, <2>4, <1>4
  <2> HIDE DEF Of
  <2>5. Of(j) \in SUBSET Of(k) /\ Of(j) # Of(k)  BY <2>1, <2>3, <2>4
  <2> QED  BY <1>3, <2>5, FS_Subset
<1>5. PICK j \in places : list[j].arg = m  BY <1>2
<1>6. PICK k \in places : list[k].arg = n  BY <1>2
<1>7. first + Cardinality(Of(j)) = first + Cardinality(Of(k))
  BY <1>5, <1>6, <1>2
<1>8. Cardinality(Of(j)) = Cardinality(Of(k))
  <2> HIDE DEF Of
  <2> QED  BY <1>3, <1>7
<1>9. j \in Nat /\ k \in Nat  OBVIOUS
<1>10. j = k  BY <1>4, <1>8, <1>9
<1> QED  BY <1>5, <1>6, <1>10

-----------------------------------------------------------------------------
(* The trees, from TreesAssumption.                                         *)

(* A tree is a sequence of functions, the module's own code among them.     *)
LEMMA TreeFacts ==
  ASSUME NEW functions \in Trees
  PROVE  /\ Len(functions) \in Nat /\ DOMAIN functions = 1..Len(functions)
         /\ \E i \in DOMAIN functions : functions[i].arg = "$init"
<1>1. functions \in Seq({functions[i] : i \in DOMAIN functions})  BY TreesAssumption
<1>2. \E i \in DOMAIN functions : functions[i].arg = "$init"  BY TreesAssumption
<1> QED  BY <1>1, <1>2

(* What a function token has.                                               *)
LEMMA FuncFacts ==
  ASSUME NEW functions \in Trees, NEW f \in DOMAIN functions
  PROVE  LET func == functions[f]
         IN /\ func.at \in Nat /\ func.params \in Seq(Strings)
            /\ func.children \in Seq(Subtrees(func))
            /\ LabelsIn(func) \in SUBSET (1..Len(func.children))
<1> DEFINE func == functions[f]
<1>1. func.at \in Nat /\ func.params \in Seq(Strings) /\ func.children \in Seq(Subtrees(func))
  BY TreesAssumption
<1> HIDE DEF func
<1>2. DOMAIN func.children = 1..Len(func.children)  BY <1>1
<1>3. LabelsIn(func) \in SUBSET (1..Len(func.children))  BY <1>2 DEF LabelsIn
<1> QED  BY <1>1, <1>3 DEF func

(* What a token of a function's body has.                                   *)
LEMMA TokenFacts ==
  ASSUME NEW functions \in Trees, NEW f \in DOMAIN functions,
         NEW token \in Subtrees(functions[f])
  PROVE  /\ token.type \in TokenTypes /\ token.at \in Nat
         /\ ArgumentGiven(token, functions[f], functions)
         /\ token.children \in Seq({t \in Subtrees(functions[f]) : t.type # "LABEL"})
         /\ Len(token.children) < Word
BY TreesAssumption

(* The types of the numbers of functions and labels.                        *)
LEMMA LabelTypes ==
  ASSUME Positions
  PROVE  /\ Len(tree) \in Nat /\ DOMAIN tree = 1..Len(tree)
         /\ DOMAIN globalFuncs = {tree[i].arg : i \in DOMAIN tree}
         /\ \A n \in DOMAIN globalFuncs : globalFuncs[n] \in 0..Len(tree) - 1
         /\ "$init" \in DOMAIN globalFuncs
         /\ nextLabel \in Nat /\ Len(tree) <= nextLabel
         /\ Targets \subseteq 0..nextLabel - 1
<1>1. tree \in Trees /\ globalFuncs = Numbered(tree, DOMAIN tree, 0)
      /\ nextLabel \in Nat /\ Len(tree) <= nextLabel
  BY DEF Positions
<1>2. Len(tree) \in Nat /\ DOMAIN tree = 1..Len(tree)
      /\ \E i \in DOMAIN tree : tree[i].arg = "$init"
  BY <1>1, TreeFacts
<1>3. Cardinality(DOMAIN tree) = Len(tree) /\ DOMAIN tree \in SUBSET (1..Len(tree))
  <2>1. Cardinality(1..Len(tree)) = IF 1 > Len(tree) THEN 0 ELSE Len(tree) - 1 + 1
    BY <1>2, FS_Interval
  <2> QED  BY <2>1, <1>2
<1>4. \A n \in DOMAIN globalFuncs : globalFuncs[n] \in 0..Len(tree) - 1
  <2>1. \A n \in DOMAIN Numbered(tree, DOMAIN tree, 0) :
          Numbered(tree, DOMAIN tree, 0)[n] \in 0 .. 0 + Cardinality(DOMAIN tree) - 1
    BY <1>2, <1>3, NumberedType
  <2> QED  BY <2>1, <1>1, <1>2, <1>3
<1>5. DOMAIN globalFuncs = {tree[i].arg : i \in DOMAIN tree}
  BY <1>1, NumberedIs
<1>6. \A n \in DOMAIN labels : labels[n] \in 0..nextLabel - 1
  BY <1>1, <1>2 DEF Positions
<1>7. \A n \in DOMAIN globalFuncs : globalFuncs[n] \in 0..nextLabel - 1
  BY <1>1, <1>2, <1>4
<1>8. Targets \subseteq 0..nextLabel - 1  BY <1>6, <1>7 DEF Targets
<1> QED  BY <1>1, <1>2, <1>4, <1>5, <1>8

-----------------------------------------------------------------------------
(* What tokens are compiled to.                                             *)

(* A sequence of items that puts no label down, builds no function, and     *)
(* has a location before everything that may raise.                         *)
Quiet(s) ==
  /\ s \in Seq(Items)
  /\ \A i \in DOMAIN s : /\ s[i].type \notin {"DEFINE", "LABEL", "ARG_NAME"}
                         /\ ~ (s[i].type = "EMIT" /\ s[i].op = "DEF_FUNC")
                         /\ Raises(s[i]) => i > 1 /\ s[i - 1].type = "SRC_LOC"

(* Quiet parts one after the other are quiet.                               *)
LEMMA QuietConcat ==
  ASSUME NEW s, NEW t, Quiet(s), Quiet(t)
  PROVE  Quiet(s \o t)
<1>1. s \in Seq(Items) /\ t \in Seq(Items)  BY DEF Quiet
<1>2. /\ s \o t \in Seq(Items) /\ Len(s \o t) = Len(s) + Len(t)
      /\ \A i \in 1 .. Len(s) + Len(t) :
           (s \o t)[i] = IF i <= Len(s) THEN s[i] ELSE t[i - Len(s)]
  BY <1>1
<1>3. ASSUME NEW i \in DOMAIN (s \o t)
      PROVE  /\ (s \o t)[i].type \notin {"DEFINE", "LABEL", "ARG_NAME"}
             /\ ~ ((s \o t)[i].type = "EMIT" /\ (s \o t)[i].op = "DEF_FUNC")
             /\ Raises((s \o t)[i]) => i > 1 /\ (s \o t)[i - 1].type = "SRC_LOC"
  <2>1. i \in 1..Len(s) + Len(t) /\ Len(s) \in Nat /\ Len(t) \in Nat  BY <1>1, <1>2, <1>3
  <2>2. CASE i <= Len(s)
    <3>1. i \in DOMAIN s /\ (s \o t)[i] = s[i]  BY <1>1, <1>2, <2>1, <2>2
    <3>2. i > 1 => (s \o t)[i - 1] = s[i - 1]  BY <1>2, <2>1, <2>2
    <3> QED  BY <3>1, <3>2 DEF Quiet
  <2>3. CASE i > Len(s)
    <3> DEFINE j == i - Len(s)
    <3>1. j \in DOMAIN t /\ (s \o t)[i] = t[j]  BY <1>1, <1>2, <2>1, <2>3
    <3>2. j > 1 => i > 1 /\ (s \o t)[i - 1] = t[j - 1]  BY <1>2, <2>1, <2>3
    <3> HIDE DEF j
    <3> QED  BY <3>1, <3>2 DEF Quiet
  <2> QED  BY <2>1, <2>2, <2>3
<1> QED  BY <1>2, <1>3 DEF Quiet

(* An instruction with its location is quiet, but for OP_DEF_FUNC.          *)
LEMMA QuietLocated ==
  ASSUME NEW token, token.at \in Nat, NEW op, NEW arg, Emit(op, arg) \in Emits, op # "DEF_FUNC"
  PROVE  Quiet(Located(token, op, arg))
<1> DEFINE s == Located(token, op, arg)
<1>1. s = <<Locate(token), Emit(op, arg)>>  BY DEF Located
<1>2. Locate(token) \in Items /\ Locate(token).type = "SRC_LOC"  BY DEF Locate, Items
<1>3. Emit(op, arg) \in Items /\ Emit(op, arg).type = "EMIT" /\ Emit(op, arg).op = op
  BY DEF Emit, Items
<1> HIDE DEF s
<1>4. s \in Seq(Items) /\ DOMAIN s = {1, 2} /\ s[1] = Locate(token) /\ s[2] = Emit(op, arg)
  BY <1>1, <1>2, <1>3
<1>5. Quiet(s)  BY <1>2, <1>3, <1>4 DEF Quiet, Raises
<1> QED  BY <1>5 DEF s

(* The instructions there are, with the arguments they take.                *)
LEMMA EmitIn ==
  ASSUME NEW op, NEW arg,
         \/ op \in ConstantOps /\ arg \in Strings
         \/ op \in NumberOps /\ arg \in 0..Word - 1
         \/ op \in LabelOps /\ arg \in Targets
         \/ op \in PlainOps /\ arg = 0
  PROVE  Emit(op, arg) \in Emits /\ op # "DEF_FUNC"
<1>1. op # "DEF_FUNC"  BY DEF ConstantOps, NumberOps, LabelOps, PlainOps
<1>2. Emit(op, arg) \in Emits  BY DEF Emit, Emits
<1> QED  BY <1>1, <1>2

(* What the current function's tokens are.                                  *)
LEMMA CurrentTokens ==
  ASSUME Positions, NEW token \in Tokens
  PROVE  /\ token.type \in TokenTypes /\ token.at \in Nat
         /\ token.children \in Seq({t \in Tokens : t.type # "LABEL"})
         /\ Len(token.children) < Word
         /\ token.type \in NumberTypes => token.arg \in 0..Word - 1
         /\ token.type \in PlainTypes => token.arg = 0
         /\ token.type \in NameTypes => token.arg \in Strings
         /\ token.type \in {"LABEL", "ABS_JUMP", "COND_JUMP"} => token.arg \in DOMAIN labels
         /\ token.type = "NEW_FUNC" => token.arg \in DOMAIN globalFuncs
         /\ token.type = "CALL" => token.children # <<>>
<1>1. begun # 0 /\ Tokens = Subtrees(tree[begun])  BY DEF Tokens
<1>2. tree \in Trees /\ begun \in 1..Len(tree)
  BY <1>1 DEF Positions
<1>3. begun \in DOMAIN tree  BY <1>2, TreeFacts
<1>4. /\ token.type \in TokenTypes /\ token.at \in Nat
      /\ ArgumentGiven(token, tree[begun], tree)
      /\ token.children \in Seq({t \in Tokens : t.type # "LABEL"})
      /\ Len(token.children) < Word
  BY <1>1, <1>2, <1>3, TokenFacts
<1>5. DOMAIN labels = {tree[begun].children[i].arg : i \in LabelsIn(tree[begun])}
  BY <1>2 DEF Positions
<1>6. DOMAIN globalFuncs = {tree[i].arg : i \in DOMAIN tree}  BY LabelTypes
<1> QED  BY <1>4, <1>5, <1>6 DEF ArgumentGiven

(* The subtrees of a token are no labels, so they are quiet.                *)
LEMMA QuietChildren ==
  ASSUME Positions, NEW token \in Tokens
  PROVE  Quiet(token.children)
<1> DEFINE s == token.children
           S == {t \in Tokens : t.type # "LABEL"}
<1>1. s \in Seq(S)  BY CurrentTokens
<1>2. S \subseteq Items  BY DEF Items
<1>3. \A t \in S : t.type \in TokenTypes /\ t.type # "LABEL"  BY CurrentTokens
<1> HIDE DEF s, S
<1>4. s \in Seq(Items)  BY <1>1, <1>2, SeqMonotonic
<1>5. \A i \in DOMAIN s : s[i] \in S  BY <1>1
<1>6. \A i \in DOMAIN s : s[i].type \notin {"DEFINE", "LABEL", "ARG_NAME", "EMIT", "SRC_LOC"}
  BY <1>3, <1>5 DEF TokenTypes, Opcode
<1>7. Quiet(s)  BY <1>4, <1>6 DEF Quiet, Raises
<1> QED  BY <1>7 DEF s

(* Of the tokens that are one instruction.                                  *)
LEMMA OpcodeEmits ==
  ASSUME Positions, NEW token \in Tokens, token.type \in DOMAIN Opcode
  PROVE  Emit(Opcode[token.type], token.arg) \in Emits /\ Opcode[token.type] # "DEF_FUNC"
<1>1. CASE token.type \in NumberTypes
  <2>1. Opcode[token.type] \in NumberOps  BY <1>1 DEF Opcode, NumberTypes, NumberOps
  <2> QED  BY <2>1, <1>1, CurrentTokens, EmitIn
<1>2. CASE token.type \in PlainTypes
  <2>1. Opcode[token.type] \in PlainOps  BY <1>2 DEF Opcode, PlainTypes, PlainOps
  <2> QED  BY <2>1, <1>2, CurrentTokens, EmitIn
<1>3. CASE token.type \in NameTypes
  <2>1. Opcode[token.type] \in ConstantOps  BY <1>3 DEF Opcode, NameTypes, ConstantOps
  <2> QED  BY <2>1, <1>3, CurrentTokens, EmitIn
<1>4. token.type \in NumberTypes \cup PlainTypes \cup NameTypes
  BY DEF Opcode, NumberTypes, PlainTypes, NameTypes
<1> QED  BY <1>1, <1>2, <1>3, <1>4

(* What compileToken makes of a token that is no label is quiet.            *)
LEMMA PartsQuiet ==
  ASSUME Positions, NEW token \in Tokens, token.type # "LABEL"
  PROVE  Quiet(Parts(token))
<1>0. /\ token.type \in TokenTypes /\ token.at \in Nat
      /\ token.children \in Seq({t \in Tokens : t.type # "LABEL"})
      /\ Len(token.children) < Word
      /\ token.type \in NameTypes => token.arg \in Strings
      /\ token.type \in {"LABEL", "ABS_JUMP", "COND_JUMP"} => token.arg \in DOMAIN labels
      /\ token.type = "NEW_FUNC" => token.arg \in DOMAIN globalFuncs
      /\ token.type = "CALL" => token.children # <<>>
  BY CurrentTokens
<1>1. CASE token.type \in DOMAIN Opcode
  <2>1. token.type \notin {"LABEL", "ABS_JUMP", "NEW_FUNC", "COND_JUMP", "RETURN", "PUSH", "CALL",
                            "TUPLE", "UNARY_OP", "BINARY_OP"}
    BY <1>1 DEF Opcode
  <2>2. Parts(token) = Located(token, Opcode[token.type], token.arg)  BY <1>1, <2>1 DEF Parts
  <2> QED  BY <2>2, <1>1, <1>0, OpcodeEmits, QuietLocated
<1>2. CASE token.type = "ABS_JUMP"
  <2>1. Parts(token) = Located(token, "ABS_JUMP", labels[token.arg])
    BY <1>2 DEF Parts, Opcode
  <2>2. Emit("ABS_JUMP", labels[token.arg]) \in Emits
    BY <1>2, <1>0, EmitIn DEF Targets, LabelOps
  <2> QED  BY <2>1, <2>2, <1>0, QuietLocated
<1>3. CASE token.type = "NEW_FUNC"
  <2>1. Parts(token) = Located(token, "CREATE_FUNC", globalFuncs[token.arg])
    BY <1>3 DEF Parts, Opcode
  <2>2. Emit("CREATE_FUNC", globalFuncs[token.arg]) \in Emits
    BY <1>3, <1>0, EmitIn DEF Targets, LabelOps
  <2> QED  BY <2>1, <2>2, <1>0, QuietLocated
<1>4. CASE token.type = "COND_JUMP"
  <2>1. Parts(token) = token.children \o Located(token, "COND_JUMP_FALSE", labels[token.arg])
    BY <1>4 DEF Parts, Opcode
  <2>2. Emit("COND_JUMP_FALSE", labels[token.arg]) \in Emits
    BY <1>4, <1>0, EmitIn DEF Targets, LabelOps
  <2> QED  BY <2>1, <2>2, <1>0, QuietLocated, QuietChildren, QuietConcat
<1>5. CASE token.type = "RETURN"
  <2>1. Parts(token) = token.children \o Located(token, "RETURN", 0)
    BY <1>5 DEF Parts, Opcode
  <2>2. Emit("RETURN", 0) \in Emits  BY EmitIn DEF PlainOps
  <2> QED  BY <2>1, <2>2, <1>0, QuietLocated, QuietChildren, QuietConcat
<1>6. CASE token.type = "PUSH"
  <2>1. Parts(token) = <<Locate(token)>> \o token.children
    BY <1>6 DEF Parts, Opcode
  <2>2. Locate(token) \in Items /\ Locate(token).type = "SRC_LOC"  BY <1>0 DEF Locate, Items
  <2>3. /\ <<Locate(token)>> \in Seq(Items) /\ DOMAIN <<Locate(token)>> = {1}
        /\ <<Locate(token)>>[1] = Locate(token)
    BY <2>2
  <2>4. Quiet(<<Locate(token)>>)  BY <2>2, <2>3 DEF Quiet, Raises
  <2> QED  BY <2>1, <2>4, QuietChildren, QuietConcat
<1>7. /\ Len(token.children) \in Nat /\ Len(token.children) < Word
      /\ token.children # <<>> => Len(token.children) > 0
  BY <1>0
<1>8. CASE token.type = "CALL"
  <2>1. Parts(token) = token.children \o Located(token, "CALL", Len(token.children) - 1)
    BY <1>8 DEF Parts, Opcode, Call
  <2>2. Len(token.children) - 1 \in 0..Word - 1
    BY <1>0, <1>7, <1>8, ByteWord
  <2>3. Emit("CALL", Len(token.children) - 1) \in Emits  BY <2>2, EmitIn DEF NumberOps
  <2> QED  BY <2>1, <2>3, <1>0, QuietLocated, QuietChildren, QuietConcat
<1>9. ASSUME NEW name \in Strings, NEW count \in 0..Word - 1,
             Parts(token) = Operator(token, name, count)
      PROVE  Quiet(Parts(token))
  <2>1. Emit("PUSH_BUILTIN", name) \in Emits /\ Emit("CALL", count) \in Emits
    BY <1>9, EmitIn DEF ConstantOps, NumberOps
  <2>2. /\ Quiet(Located(token, "PUSH_BUILTIN", name)) /\ Quiet(Located(token, "CALL", count))
        /\ Quiet(token.children)
    BY <2>1, <1>0, QuietLocated, QuietChildren
  <2>3. Quiet(Located(token, "PUSH_BUILTIN", name) \o token.children)  BY <2>2, QuietConcat
  <2> QED  BY <1>9, <2>2, <2>3, QuietConcat DEF Operator
<1>10. CASE token.type = "TUPLE"
  <2>1. Parts(token) = Operator(token, "tuple", Low(Len(token.children)))
    BY <1>10 DEF Parts, Opcode
  <2>2. Low(Len(token.children)) \in 0..ByteSize - 1  BY <1>7, LowShifted
  <2>3. Low(Len(token.children)) \in 0..Word - 1  BY <2>2, ByteWord
  <2>4. "tuple" \in Strings  BY StringsAssumption
  <2> QED  BY <2>1, <2>3, <2>4, <1>9
<1>11. CASE token.type \in {"UNARY_OP", "BINARY_OP"}
  <2>1. Parts(token) = Operator(token, token.arg, Len(token.children))
    BY <1>11 DEF Parts, Opcode
  <2>2. Len(token.children) \in 0..Word - 1 /\ token.arg \in Strings
    BY <1>0, <1>7, <1>11, ByteWord DEF NameTypes
  <2> QED  BY <2>1, <2>2, <1>9
<1> QED
  BY <1>0, <1>1, <1>2, <1>3, <1>4, <1>5, <1>6, <1>8, <1>10, <1>11 DEF TokenTypes

-----------------------------------------------------------------------------
(* What the items to compile are.                                           *)

(* What an item of each type has.                                           *)
LEMMA ItemKinds ==
  ASSUME Positions, NEW x \in Items
  PROVE  /\ x.type \in TokenTypes => x \in Tokens
         /\ x.type = "EMIT" => x \in Emits
         /\ x.type = "SRC_LOC" => x.at \in Nat
         /\ x.type = "DEFINE" => x.label \in Targets
         /\ x.type = "ARG_NAME" => x.name \in Strings
<1>1. \A token \in Tokens : token.type \in TokenTypes  BY CurrentTokens
<1>2. \A token \in Tokens : token.type \notin {"EMIT", "SRC_LOC", "DEFINE", "ARG_NAME"}
  BY <1>1 DEF TokenTypes, Opcode
<1>3. {"EMIT", "SRC_LOC", "DEFINE", "ARG_NAME"} \cap TokenTypes = {}  BY DEF TokenTypes, Opcode
<1>4. \A e \in Emits : e.type = "EMIT"  BY DEF Emits
<1> QED  BY <1>2, <1>3, <1>4 DEF Items

(* What an instruction to be emitted has as its argument.                   *)
LEMMA EmitKinds ==
  ASSUME NEW x \in Emits
  PROVE  /\ x.op \in ConstantOps \cup NumberOps \cup LabelOps \cup PlainOps \cup {"DEF_FUNC"}
         /\ x.op \in ConstantOps => x.arg \in Strings
         /\ x.op \in NumberOps => x.arg \in 0..Word - 1
         /\ x.op \in LabelOps => x.arg \in Targets
         /\ x.op \in PlainOps => x.arg = 0
         /\ x.op = "DEF_FUNC" => x.arg \in Seq(Strings)
<1>1. CASE x \in [type : {"EMIT"}, op : ConstantOps, arg : Strings]
  BY <1>1 DEF ConstantOps, NumberOps, LabelOps, PlainOps
<1>2. CASE x \in [type : {"EMIT"}, op : NumberOps, arg : 0..Word - 1]
  BY <1>2 DEF ConstantOps, NumberOps, LabelOps, PlainOps
<1>3. CASE x \in [type : {"EMIT"}, op : LabelOps, arg : Targets]
  BY <1>3 DEF ConstantOps, NumberOps, LabelOps, PlainOps
<1>4. CASE x \in [type : {"EMIT"}, op : PlainOps, arg : {0}]
  BY <1>4 DEF ConstantOps, NumberOps, LabelOps, PlainOps
<1>5. CASE x \in [type : {"EMIT"}, op : {"DEF_FUNC"}, arg : Seq(Strings)]
  BY <1>5 DEF ConstantOps, NumberOps, LabelOps, PlainOps
<1> QED  BY <1>1, <1>2, <1>3, <1>4, <1>5 DEF Emits

(* What has been emitted.                                                   *)
LEMMA RecordKinds ==
  ASSUME NEW e \in Records
  PROVE  /\ e.address \in Nat
         /\ e.op \in ConstantOps \cup NumberOps \cup LabelOps \cup PlainOps \cup {"DEF_FUNC", "ARG_NAME"}
         /\ e.op \in ConstantOps \cup {"ARG_NAME"} => e.arg \in Strings
         /\ e.op \in NumberOps => e.arg \in 0..Word - 1
         /\ e.op \in LabelOps => e.arg \in 0..nextLabel - 1
         /\ e.op = "DEF_FUNC" => e.arg \in Seq(Strings)
<1>1. CASE e \in [address : Nat, op : ConstantOps \cup {"ARG_NAME"}, arg : Strings]
  BY <1>1 DEF ConstantOps, NumberOps, LabelOps, PlainOps
<1>2. CASE e \in [address : Nat, op : NumberOps, arg : 0..Word - 1]
  BY <1>2 DEF ConstantOps, NumberOps, LabelOps, PlainOps
<1>3. CASE e \in [address : Nat, op : LabelOps, arg : 0..nextLabel - 1]
  BY <1>3 DEF ConstantOps, NumberOps, LabelOps, PlainOps
<1>4. CASE e \in [address : Nat, op : PlainOps, arg : {0}]
  BY <1>4 DEF ConstantOps, NumberOps, LabelOps, PlainOps
<1>5. CASE e \in [address : Nat, op : {"DEF_FUNC"}, arg : Seq(Strings)]
  BY <1>5 DEF ConstantOps, NumberOps, LabelOps, PlainOps
<1> QED  BY <1>1, <1>2, <1>3, <1>4, <1>5 DEF Records

(* What is left of a sequence without its head.                             *)
LEMMA TailFacts ==
  ASSUME NEW S, NEW s \in Seq(S), s # <<>>
  PROVE  /\ Tail(s) \in Seq(S) /\ Len(s) \in Nat /\ Len(s) >= 1 /\ s[1] \in S
         /\ Len(Tail(s)) = Len(s) - 1
         /\ \A i \in 1..Len(s) - 1 : Tail(s)[i] = s[i + 1]
OBVIOUS

(* Where the elements of a concatenation are.                               *)
LEMMA ConcatLength ==
  ASSUME NEW S, NEW s \in Seq(S), NEW t \in Seq(S)
  PROVE  /\ Len(s \o t) = Len(s) + Len(t) /\ s \o t \in Seq(S)
         /\ \A i \in 1..Len(s) : (s \o t)[i] = s[i]
         /\ \A i \in 1..Len(t) : (s \o t)[Len(s) + i] = t[i]
OBVIOUS

(* The names of arguments still to come are at the head of what is left.    *)
LEMMA NoNamesDue ==
  ASSUME Positions, NamesFollow, todo = <<>> \/ todo[1].type # "ARG_NAME",
         NEW i \in DOMAIN emitted, emitted[i].op = "DEF_FUNC",
         NEW k \in 1..Low(Len(emitted[i].arg))
  PROVE  /\ i + k <= Len(emitted)
         /\ emitted[i + k].op = "ARG_NAME" /\ emitted[i + k].arg = emitted[i].arg[k]
<1>1. emitted \in Seq(Records) /\ todo \in Seq(Items)  BY DEF Positions
<1>2. i \in 1..Len(emitted) /\ Len(emitted) \in Nat /\ k \in Nat  BY <1>1
<1>3. SUFFICES ASSUME i + k > Len(emitted) PROVE FALSE
  BY <1>2 DEF NamesFollow
<1>0. Low(Len(emitted[i].arg)) \in Nat
  <2>1. emitted[i] \in Records  BY <1>1
  <2>2. Len(emitted[i].arg) \in Nat  BY <2>1, RecordKinds
  <2> QED  BY <2>2, LowShifted
<1> DEFINE j == Len(emitted) - i + 1
<1>4. j \in 1..k /\ i + j = Len(emitted) + 1  BY <1>2, <1>3
<1>5. j \in 1..Low(Len(emitted[i].arg))  BY <1>0, <1>2, <1>4
<1>6. ~ (i + j <= Len(emitted)) /\ i + j - Len(emitted) = 1  BY <1>2, <1>4
<1> HIDE DEF j
<1>7. 1 \in DOMAIN todo /\ IsName(todo[1], emitted[i].arg[j])
  BY <1>5, <1>6 DEF NamesFollow
<1> QED  BY <1>1, <1>7 DEF IsName

-----------------------------------------------------------------------------
(* An emitter takes an item and puts an instruction, or the name of an      *)
(* argument, at the end of the bytecode.                                    *)
Emission(op, arg, bytes) ==
  /\ module = Building /\ todo # <<>>
  /\ todo' = Tail(todo)
  /\ emitted' = Append(emitted, [op |-> op, arg |-> arg, address |-> Address])
  /\ bytecode' = bytecode \o bytes
  /\ UNCHANGED <<tree, begun, globalFuncs, labels, nextLabel, module, srcLoc, labelDefs, placed>>

(* The item it takes.                                                       *)
Takes(op, arg) ==
  \/ todo[1].type = "EMIT" /\ todo[1].op = op /\ todo[1].arg = arg
  \/ todo[1].type = "ARG_NAME" /\ op = "ARG_NAME" /\ todo[1].name = arg

(* The record of an emission is one of Records.                             *)
LEMMA TakenItem ==
  ASSUME Positions, Address \in Nat, todo # <<>>, NEW op, NEW arg, Takes(op, arg)
  PROVE  /\ [op |-> op, arg |-> arg, address |-> Address] \in Records
         /\ todo[1].type = "ARG_NAME" <=> op = "ARG_NAME"
         /\ todo[1].type = "EMIT" => todo[1] \in Emits
         /\ todo[1].type \notin {"DEFINE", "SRC_LOC"} \cup TokenTypes
<1> DEFINE e == [op |-> op, arg |-> arg, address |-> Address]
<1>1. todo[1] \in Items  BY DEF Positions
<1>2. Targets \subseteq 0..nextLabel - 1  BY LabelTypes
<1>3. {"EMIT", "ARG_NAME"} \cap TokenTypes = {}  BY DEF TokenTypes, Opcode
<1>4. CASE todo[1].type = "EMIT"
  <2>1. todo[1] \in Emits  BY <1>1, <1>4, ItemKinds
  <2>2. op = todo[1].op /\ arg = todo[1].arg  BY <1>4 DEF Takes
  <2>3. /\ op \in ConstantOps \cup NumberOps \cup LabelOps \cup PlainOps \cup {"DEF_FUNC"}
        /\ op \in ConstantOps => arg \in Strings
        /\ op \in NumberOps => arg \in 0..Word - 1
        /\ op \in LabelOps => arg \in 0..nextLabel - 1
        /\ op \in PlainOps => arg = 0
        /\ op = "DEF_FUNC" => arg \in Seq(Strings)
    BY <2>1, <2>2, <1>2, EmitKinds
  <2>4. op # "ARG_NAME"
    BY <2>3 DEF ConstantOps, NumberOps, LabelOps, PlainOps
  <2>5. e \in Records  BY <2>3 DEF Records
  <2> QED  BY <2>1, <2>4, <2>5, <1>3, <1>4
<1>5. CASE todo[1].type = "ARG_NAME"
  <2>1. op = "ARG_NAME" /\ arg \in Strings  BY <1>1, <1>5, ItemKinds DEF Takes
  <2>2. e \in Records  BY <2>1 DEF Records
  <2> QED  BY <2>1, <2>2, <1>3, <1>5
<1> QED  BY <1>4, <1>5 DEF Takes

(* The tokens left are those of the same function.                          *)
LEMMA SameItems ==
  ASSUME UNCHANGED <<tree, begun, globalFuncs, labels, nextLabel>>
  PROVE  Items' = Items /\ Records' = Records /\ Targets' = Targets /\ Tokens' = Tokens
BY DEF Items, Emits, Records, Targets, Tokens

(* An emission leaves what is to be compiled well-formed.                   *)
LEMMA EmissionPositions ==
  ASSUME Positions, Address \in Nat, NEW op, NEW arg, NEW bytes, Emission(op, arg, bytes),
         Takes(op, arg)
  PROVE  Positions'
<1>1. /\ todo' \in Seq(Items) /\ emitted' \in Seq(Records)
  <2>1. todo \in Seq(Items) /\ emitted \in Seq(Records)  BY DEF Positions
  <2>2. [op |-> op, arg |-> arg, address |-> Address] \in Records  BY TakenItem DEF Emission
  <2>3. todo' = Tail(todo) /\ todo # <<>>  BY DEF Emission
  <2>4. emitted' = Append(emitted, [op |-> op, arg |-> arg, address |-> Address])
    BY DEF Emission
  <2> QED  BY <2>1, <2>2, <2>3, <2>4, TailFacts
<1>2. Items' = Items /\ Records' = Records  BY SameItems DEF Emission
<1>3. begun # 0  BY DEF Positions, Emission
<1> QED  BY <1>1, <1>2, <1>3 DEF Positions, Emission

(* Instructions follow one another.                                         *)
LEMMA SizeType ==
  ASSUME NEW e
  PROVE  Size(e) \in Nat /\ Size(e) >= 1
BY DEF Size

(* An emission puts its instruction after the last one.                     *)
LEMMA EmissionLayout ==
  ASSUME Positions, Layout, NEW op, NEW arg, NEW B, bytecode \in Seq(B), NEW bytes \in Seq(B),
         Emission(op, arg, bytes), Takes(op, arg),
         Len(bytes) = Size([op |-> op, arg |-> arg, address |-> Address])
  PROVE  Layout'
<1> DEFINE e == [op |-> op, arg |-> arg, address |-> Address]
           n == Len(emitted)
<1>1. emitted \in Seq(Records) /\ n \in Nat /\ Address \in Nat
  BY DEF Positions, Address
<1>2. e \in Records  BY <1>1, TakenItem DEF Emission
<1>3. /\ emitted' \in Seq(Records) /\ Len(emitted') = n + 1 /\ emitted'[n + 1] = e
      /\ \A i \in 1..n : emitted'[i] = emitted[i]
  BY <1>1, <1>2 DEF Emission
<1>4. Len(bytecode') = Address + Size(e)
  <2>1. bytecode' = bytecode \o bytes  BY DEF Emission
  <2>2. Len(bytecode') = Len(bytecode) + Len(bytes)  BY <2>1, ConcatLength
  <2> QED  BY <2>2 DEF Address
<1>5. \A r \in Records : End(r) \in Nat /\ r.address \in Nat
  BY RecordKinds, SizeType DEF End
<1>6. e.address = Address /\ End(e) = Address + Size(e)  BY DEF End
<1>7. \A i \in 1..n : emitted[i] \in Records  BY <1>1
<1> HIDE DEF e, n
<1>8. \A i \in 1..n : End(emitted[i]) <= Address
  <2>1. CASE n = 0  BY <2>1
  <2>2. CASE n > 0
    <3>1. emitted # <<>> /\ DOMAIN emitted = 1..n  BY <2>2, <1>1 DEF n
    <3>2. Address = End(emitted[n])  BY <3>1 DEF Layout, n
    <3>3. \A i \in 1..n : i < n => End(emitted[i]) <= emitted[n].address
      <4>1. n \in DOMAIN emitted  BY <3>1, <2>2, <1>1
      <4> QED  BY <3>1, <4>1 DEF Layout
    <3>4. emitted[n].address <= End(emitted[n])
      BY <2>2, <1>1, <1>7, RecordKinds, SizeType DEF End
    <3>5. \A i \in 1..n : End(emitted[i]) \in Nat /\ emitted[i].address \in Nat
      BY <1>5, <1>7
    <3> QED  BY <3>2, <3>3, <3>4, <3>5, <2>2, <1>1
  <2> QED  BY <2>1, <2>2, <1>1
<1>9. DOMAIN emitted' = 1..n + 1 /\ DOMAIN emitted = 1..n  BY <1>1, <1>3 DEF n
<1>10. \A i \in 1..n + 1 :
         emitted'[i].address = IF i = 1 THEN 0 ELSE End(emitted'[i - 1])
  <2>1. CASE n = 0
    <3>1. emitted = <<>>  BY <2>1, <1>1 DEF n
    <3>2. Address = 0  BY <3>1 DEF Layout
    <3> QED  BY <2>1, <3>2, <1>3, <1>6
  <2>2. CASE n > 0
    <3>1. emitted # <<>>  BY <2>2, <1>1 DEF n
    <3>2. Address = End(emitted[n])  BY <3>1 DEF Layout, n
    <3>3. emitted'[n + 1].address = End(emitted'[n])  BY <2>2, <3>2, <1>1, <1>3, <1>6
    <3>4. \A i \in 1..n : emitted[i].address = IF i = 1 THEN 0 ELSE End(emitted[i - 1])
      BY <1>9 DEF Layout
    <3> QED  BY SMTT(30), <2>2, <3>3, <3>4, <1>1, <1>3
  <2> QED  BY <2>1, <2>2, <1>1
<1>11. \A i, j \in 1..n + 1 : i < j => End(emitted'[i]) <= emitted'[j].address
  <2> TAKE i, j \in 1..n + 1
  <2> HAVE i < j
  <2>1. i \in 1..n /\ emitted'[i] = emitted[i]  BY <1>1, <1>3
  <2>2. CASE j = n + 1  BY <2>1, <2>2, <1>3, <1>6, <1>8
  <2>3. CASE j \in 1..n  BY <2>1, <2>3, <1>3, <1>9 DEF Layout
  <2> QED  BY <2>2, <2>3, <1>1
<1>12. Len(bytecode') = IF emitted' = <<>> THEN 0 ELSE End(emitted'[Len(emitted')])
  BY <1>1, <1>3, <1>4, <1>6
<1> QED  BY <1>9, <1>10, <1>11, <1>12 DEF Layout, Address, End, Size

(* Where the emission puts things.                                          *)
LEMMA EmissionFacts ==
  ASSUME Positions, NEW op, NEW arg, NEW B, bytecode \in Seq(B), NEW bytes \in Seq(B),
         Emission(op, arg, bytes), Takes(op, arg)
  PROVE  /\ Len(emitted) \in Nat /\ Len(todo) \in Nat /\ Len(todo) >= 1
         /\ DOMAIN emitted = 1..Len(emitted) /\ DOMAIN emitted' = 1..Len(emitted) + 1
         /\ Len(emitted') = Len(emitted) + 1
         /\ emitted'[Len(emitted) + 1] = [op |-> op, arg |-> arg, address |-> Address]
         /\ \A i \in 1..Len(emitted) : emitted'[i] = emitted[i] /\ emitted[i] \in Records
         /\ DOMAIN todo = 1..Len(todo) /\ DOMAIN todo' = 1..Len(todo) - 1
         /\ todo' \in Seq(Items)
         /\ \A i \in DOMAIN todo' : i + 1 \in DOMAIN todo /\ todo'[i] = todo[i + 1]
         /\ Address \in Nat /\ Len(bytes) \in Nat /\ Address' = Address + Len(bytes)
         /\ bytecode' \in Seq(B)
         /\ \A a \in 1..Address : bytecode'[a] = bytecode[a]
         /\ \A k \in 1..Len(bytes) : bytecode'[Address + k] = bytes[k]
<1> DEFINE e == [op |-> op, arg |-> arg, address |-> Address]
<1>1. emitted \in Seq(Records) /\ todo \in Seq(Items) /\ Address \in Nat
  BY DEF Positions, Address
<1>2. e \in Records  BY <1>1, TakenItem DEF Emission
<1>3. emitted' = Append(emitted, e) /\ todo' = Tail(todo) /\ todo # <<>>
      /\ bytecode' = bytecode \o bytes
  BY DEF Emission
<1> HIDE DEF e
<1>4. /\ Len(emitted) \in Nat /\ DOMAIN emitted = 1..Len(emitted)
      /\ emitted' \in Seq(Records) /\ Len(emitted') = Len(emitted) + 1
      /\ emitted'[Len(emitted) + 1] = e
      /\ \A i \in 1..Len(emitted) : emitted'[i] = emitted[i] /\ emitted[i] \in Records
  BY <1>1, <1>2, <1>3
<1>5. DOMAIN emitted' = 1..Len(emitted) + 1  BY <1>4
<1>6. /\ todo' \in Seq(Items) /\ Len(todo) \in Nat /\ Len(todo) >= 1
      /\ Len(todo') = Len(todo) - 1
      /\ \A i \in 1..Len(todo) - 1 : todo'[i] = todo[i + 1]
  BY <1>1, <1>3, TailFacts
<1>7. DOMAIN todo = 1..Len(todo) /\ DOMAIN todo' = 1..Len(todo) - 1  BY <1>1, <1>6
<1>8. \A i \in DOMAIN todo' : i + 1 \in DOMAIN todo /\ todo'[i] = todo[i + 1]
  BY <1>6, <1>7
<1>9. /\ Len(bytecode') = Address + Len(bytes) /\ bytecode' \in Seq(B)
      /\ \A a \in 1..Address : bytecode'[a] = bytecode[a]
      /\ \A k \in 1..Len(bytes) : bytecode'[Address + k] = bytes[k]
  BY <1>3, ConcatLength DEF Address
<1>10. Address' = Address + Len(bytes) /\ Len(bytes) \in Nat  BY <1>9 DEF Address
<1> QED  BY <1>1, <1>4, <1>5, <1>6, <1>7, <1>8, <1>9, <1>10 DEF e

(* The names of a function's arguments follow its constructor.              *)
LEMMA EmissionNames ==
  ASSUME Positions, NamesFollow, NEW op, NEW arg, NEW B, bytecode \in Seq(B), NEW bytes \in Seq(B),
         Emission(op, arg, bytes), Takes(op, arg)
  PROVE  NamesFollow'
<1> DEFINE n == Len(emitted)
<1>1. /\ n \in Nat /\ Len(todo) \in Nat /\ Len(todo) >= 1
      /\ DOMAIN emitted = 1..n /\ DOMAIN emitted' = 1..n + 1 /\ Len(emitted') = n + 1
      /\ emitted'[n + 1] = [op |-> op, arg |-> arg, address |-> Address]
      /\ \A i \in 1..n : emitted'[i] = emitted[i] /\ emitted[i] \in Records
      /\ DOMAIN todo = 1..Len(todo) /\ DOMAIN todo' = 1..Len(todo) - 1
      /\ \A i \in DOMAIN todo' : i + 1 \in DOMAIN todo /\ todo'[i] = todo[i + 1]
  BY EmissionFacts
<1>0. emitted'[n + 1].op = op /\ emitted'[n + 1].arg = arg  BY <1>1
<1> HIDE DEF n
<1>2. ASSUME NEW i \in 1..n, emitted[i].op = "DEF_FUNC", NEW k \in 1..Low(Len(emitted[i].arg))
      PROVE  IF i + k <= n + 1
             THEN emitted'[i + k].op = "ARG_NAME" /\ emitted'[i + k].arg = emitted[i].arg[k]
             ELSE LET next == i + k - (n + 1)
                  IN next \in DOMAIN todo' /\ IsName(todo'[next], emitted[i].arg[k])
  <2>1. Low(Len(emitted[i].arg)) \in Nat
    <3>1. Len(emitted[i].arg) \in Nat  BY <1>1, <1>2, RecordKinds
    <3> QED  BY <3>1, LowShifted
  <2>2. i \in Nat /\ k \in Nat /\ k >= 1  BY <1>1, <2>1
  <2>3. IF i + k <= n
        THEN emitted[i + k].op = "ARG_NAME" /\ emitted[i + k].arg = emitted[i].arg[k]
        ELSE LET next == i + k - n
             IN next \in DOMAIN todo /\ IsName(todo[next], emitted[i].arg[k])
    BY <1>1, <1>2 DEF NamesFollow, n
  <2>4. CASE i + k <= n
    <3>1. i + k \in 1..n  BY <2>2, <2>4, <1>1
    <3> QED  BY <3>1, <2>2, <2>3, <2>4, <1>1
  <2>5. CASE i + k = n + 1
    <3>1. ~(i + k <= n) /\ i + k - n = 1  BY <2>2, <2>5, <1>1
    <3>2. IsName(todo[1], emitted[i].arg[k])  BY <3>1, <2>3
    <3>3. op = "ARG_NAME" /\ arg = emitted[i].arg[k]  BY <3>2 DEF IsName, Takes
    <3>4. i + k <= n + 1  BY <2>5, <1>1
    <3> QED  BY <3>3, <3>4, <2>5, <1>0, <1>1
  <2>6. CASE i + k > n + 1
    <3> DEFINE next == i + k - (n + 1)
    <3>1. ~(i + k <= n) /\ ~(i + k <= n + 1) /\ i + k - n = next + 1 /\ next \in Nat /\ next >= 1
      BY <2>2, <2>6, <1>1
    <3> HIDE DEF next
    <3>2. next + 1 \in DOMAIN todo /\ IsName(todo[next + 1], emitted[i].arg[k])
      BY <3>1, <2>3
    <3>3. next \in DOMAIN todo'  BY <3>1, <3>2, <1>1
    <3>4. IsName(todo'[next], emitted[i].arg[k])  BY <3>2, <3>3, <1>1
    <3> QED  BY <3>1, <3>3, <3>4 DEF next
  <2> QED  BY <2>2, <2>4, <2>5, <2>6, <1>1
<1>3. ASSUME op = "DEF_FUNC", NEW k \in 1..Low(Len(arg))
      PROVE  k \in DOMAIN todo' /\ IsName(todo'[k], arg[k])
  <2>1. todo[1].type = "EMIT" /\ todo[1].op = "DEF_FUNC" /\ todo[1].arg = arg  BY <1>3 DEF Takes
  <2>2. 1 \in DOMAIN todo  BY <1>1
  <2>3. 1 + k \in DOMAIN todo /\ IsName(todo[1 + k], arg[k])  BY <2>1, <2>2 DEF NamesFollow
  <2>4. k \in Nat /\ k >= 1
    <3>1. todo[1] \in Emits  BY <2>1, TakenItem, EmissionFacts DEF Emission
    <3>2. Len(arg) \in Nat  BY <3>1, <2>1, EmitKinds
    <3>3. Low(Len(arg)) \in Nat  BY <3>2, LowShifted
    <3> QED  BY <3>3
  <2>5. k \in DOMAIN todo' /\ k + 1 = 1 + k  BY <2>3, <2>4, <1>1
  <2> QED  BY <2>3, <2>5, <1>1
<1>4. ASSUME NEW i \in DOMAIN emitted', emitted'[i].op = "DEF_FUNC",
             NEW k \in 1..Low(Len(emitted'[i].arg))
      PROVE  IF i + k <= Len(emitted')
             THEN emitted'[i + k].op = "ARG_NAME" /\ emitted'[i + k].arg = emitted'[i].arg[k]
             ELSE LET next == i + k - Len(emitted')
                  IN next \in DOMAIN todo' /\ IsName(todo'[next], emitted'[i].arg[k])
  <2>1. CASE i \in 1..n  BY <2>1, <1>1, <1>2, <1>4
  <2>2. CASE i = n + 1
    <3>1. k \in DOMAIN todo' /\ IsName(todo'[k], arg[k])  BY <2>2, <1>0, <1>1, <1>3, <1>4
    <3>2. k \in Nat /\ k >= 1  BY <3>1, <1>1
    <3>3. ~(i + k <= Len(emitted')) /\ i + k - Len(emitted') = k  BY <2>2, <3>2, <1>1
    <3> QED  BY <2>2, <3>1, <3>3, <1>0, <1>1
  <2> QED  BY <2>1, <2>2, <1>1
<1>5. ASSUME NEW i \in DOMAIN todo', todo'[i].type = "EMIT", todo'[i].op = "DEF_FUNC",
             NEW k \in 1..Low(Len(todo'[i].arg))
      PROVE  i + k \in DOMAIN todo' /\ IsName(todo'[i + k], todo'[i].arg[k])
  <2>1. i + 1 \in DOMAIN todo /\ todo'[i] = todo[i + 1] /\ i \in Nat  BY <1>1
  <2>2. i + 1 + k \in DOMAIN todo /\ IsName(todo[i + 1 + k], todo'[i].arg[k])
    BY <2>1, <1>5 DEF NamesFollow
  <2>3. k \in Nat /\ k >= 1
    <3>1. todo'[i] \in Emits
      BY <2>1, <1>5, ItemKinds DEF Positions
    <3>2. Len(todo'[i].arg) \in Nat  BY <3>1, <1>5, EmitKinds
    <3>3. Low(Len(todo'[i].arg)) \in Nat  BY <3>2, LowShifted
    <3> QED  BY <3>3
  <2>4. i + k \in Nat /\ i + k + 1 = i + 1 + k
    <3>1. i \in Nat /\ k \in Nat  BY <2>1, <2>3
    <3> QED  BY <3>1
  <2>5. i + k \in DOMAIN todo'
    <3> DEFINE j == i + k
    <3>1. j \in Nat /\ j >= 1 /\ j + 1 \in DOMAIN todo  BY <2>1, <2>2, <2>3, <2>4
    <3> HIDE DEF j
    <3>2. j \in DOMAIN todo'  BY <3>1, <1>1
    <3> QED  BY <3>2 DEF j
  <2> QED  BY <2>2, <2>4, <2>5, <1>1
<1> QED  BY <1>4, <1>5 DEF NamesFollow, IsName, Low

(* The bytes of an instruction, from an offset on, are those of a number; of *)
(* the index of a constant.                                                  *)
Writes(bytes, offset, n) == \A k \in 1..4 : bytes[offset + k] = UInt(n)[k]
WritesIndex(bytes, offset, c) ==
  \E n \in 0..Len(constants') - 1 : constants'[n + 1] = c /\ Writes(bytes, offset, n)

(* The table of constants only grows.                                       *)
ConstantsGrow ==
  /\ constants' \in Seq(Strings) /\ Len(constants) <= Len(constants')
  /\ \A i \in 1..Len(constants) : constants'[i] = constants[i]

(* The bytes an emitter puts down.                                          *)
BytesOf(op, arg, bytes) ==
  /\ bytes \in Seq(0..ByteSize + Len(INSTRUCTIONS) - 1)
  /\ Len(bytes) = Size([op |-> op, arg |-> arg, address |-> Address])
  /\ op # "ARG_NAME" => bytes[1] = Op(op)
  /\ op \in ConstantOps /\ OneConstantSegment' => WritesIndex(bytes, 1, arg)
  /\ op = "ARG_NAME" /\ OneConstantSegment' => WritesIndex(bytes, 0, arg)
  /\ op \in NumberOps => Writes(bytes, 1, arg)
  /\ op = "DEF_FUNC" => bytes[2] = Low(Len(arg))

(* How long an instruction is.                                              *)
LEMMA Sizes ==
  ASSUME NEW e
  PROVE  /\ e.op \in ConstantOps \cup NumberOps \cup LabelOps => Size(e) = 5
         /\ e.op = "ARG_NAME" => Size(e) = 4
         /\ e.op = "DEF_FUNC" => Size(e) = 2
         /\ e.op \in PlainOps => Size(e) = 1
<1>1. CASE e.op \in ConstantOps \cup NumberOps \cup LabelOps
  BY <1>1 DEF Size, ConstantOps, NumberOps, LabelOps, PlainOps
<1>2. CASE e.op \notin ConstantOps \cup NumberOps \cup LabelOps
  BY <1>2 DEF Size, ConstantOps, NumberOps, LabelOps, PlainOps
<1> QED  BY <1>1, <1>2

(* The predicates of Bytes, of the next state.                              *)
HoldsNext(a, n) == \A k \in 1..4 : bytecode'[a + k] = UInt(n)[k]
IndexesNext(a, c) ==
  \E n \in 0..Len(constants') - 1 : constants'[n + 1] = c /\ HoldsNext(a, n)
BytesNext(e) ==
  /\ e.op # "ARG_NAME" => bytecode'[e.address + 1] = Op(e.op)
  /\ e.op \in ConstantOps /\ OneConstantSegment' => IndexesNext(e.address + 1, e.arg)
  /\ e.op = "ARG_NAME" /\ OneConstantSegment' => IndexesNext(e.address, e.arg)
  /\ e.op \in NumberOps => HoldsNext(e.address + 1, e.arg)
  /\ e.op = "DEF_FUNC" => bytecode'[e.address + 2] = Low(Len(e.arg))

(* What the bytecode holds before its end stays.                            *)
LEMMA HoldsKept ==
  ASSUME Address \in Nat, NEW a \in Nat, a + 4 <= Address,
         \A i \in 1..Address : bytecode'[i] = bytecode[i]
  PROVE  /\ \A n : Holds(a, n) => HoldsNext(a, n)
         /\ \A c : ConstantsGrow /\ Len(constants) \in Nat /\ Indexes(a, c) => IndexesNext(a, c)
<1>1. \A k \in 1..4 : bytecode'[a + k] = bytecode[a + k]  OBVIOUS
<1>2. \A n : Holds(a, n) => HoldsNext(a, n)
  BY <1>1 DEF Holds, HoldsNext
<1>3. ASSUME NEW c, ConstantsGrow, Len(constants) \in Nat, Indexes(a, c)
      PROVE  IndexesNext(a, c)
  <2>1. PICK n \in 0..Len(constants) - 1 : constants[n + 1] = c /\ Holds(a, n)
    BY <1>3 DEF Indexes
  <2>2. n + 1 \in 1..Len(constants) /\ Len(constants') \in Nat /\ Len(constants) <= Len(constants')
    BY <1>3, <2>1 DEF ConstantsGrow
  <2>3. constants'[n + 1] = c  BY <2>1, <2>2, <1>3 DEF ConstantsGrow
  <2>4. n \in 0..Len(constants') - 1  BY <2>2, <2>1, <1>3
  <2> QED  BY <2>1, <2>3, <2>4, <1>2 DEF IndexesNext
<1> QED  BY <1>2, <1>3

(* What holds of the bytes of an instruction.                               *)
BytesAt(e) ==
  /\ e.op # "ARG_NAME" => bytecode[e.address + 1] = Op(e.op)
  /\ e.op \in ConstantOps /\ OneConstantSegment => Indexes(e.address + 1, e.arg)
  /\ e.op = "ARG_NAME" /\ OneConstantSegment => Indexes(e.address, e.arg)
  /\ e.op \in NumberOps => Holds(e.address + 1, e.arg)
  /\ e.op = "DEF_FUNC" => bytecode[e.address + 2] = Low(Len(e.arg))

(* An emission writes its own bytes and leaves the others.                  *)
LEMMA EmissionBytes ==
  ASSUME Positions, Layout, Bytes, Layout', NEW op, NEW arg, NEW bytes, BytesOf(op, arg, bytes),
         Emission(op, arg, bytes), Takes(op, arg), ConstantsGrow
  PROVE  Bytes'
<1> DEFINE e == [op |-> op, arg |-> arg, address |-> Address]
           n == Len(emitted)
           B == 0..ByteSize + Len(INSTRUCTIONS) - 1
<1>1. bytecode \in Seq(B) /\ bytes \in Seq(B) /\ constants \in Seq(Strings)
  BY DEF Bytes, BytesOf
<1> HIDE DEF B
<1>2. /\ n \in Nat /\ DOMAIN emitted = 1..n /\ DOMAIN emitted' = 1..n + 1
      /\ emitted'[n + 1] = e
      /\ \A i \in 1..n : emitted'[i] = emitted[i] /\ emitted[i] \in Records
      /\ Address \in Nat /\ Len(bytes) \in Nat
      /\ bytecode' \in Seq(B)
      /\ \A a \in 1..Address : bytecode'[a] = bytecode[a]
      /\ \A k \in 1..Len(bytes) : bytecode'[Address + k] = bytes[k]
  BY <1>1, EmissionFacts
<1> HIDE DEF n
<1>3. OneConstantSegment' => OneConstantSegment
  <2>1. Len(constants) \in Nat /\ Len(constants') \in Nat /\ Len(constants) <= Len(constants')
    BY <1>1 DEF ConstantsGrow
  <2>2. SEGMENT_SIZE \in Nat  BY SegmentAssumption, ByteWord
  <2> QED  BY <2>1, <2>2 DEF OneConstantSegment
<1>4. \A i \in 1..n : /\ End(emitted[i]) <= Address /\ emitted[i].address \in Nat
                      /\ BytesAt(emitted[i])
  <2> TAKE i \in 1..n
  <2>1. End(emitted'[i]) <= emitted'[n + 1].address
    <3>1. i \in DOMAIN emitted' /\ n + 1 \in DOMAIN emitted' /\ i < n + 1  BY <1>2
    <3>2. \A p, q \in DOMAIN emitted' : p < q => End(emitted'[p]) <= emitted'[q].address
      BY DEF Layout, End, Size
    <3> QED  BY <3>1, <3>2
  <2>2. BytesAt(emitted[i])
    <3>1. i \in DOMAIN emitted  BY <1>2
    <3> QED  BY <3>1 DEF Bytes, BytesAt
  <2>3. emitted[i].address \in Nat  BY <1>2, RecordKinds
  <2> QED  BY <2>1, <2>2, <2>3, <1>2
<1>5. ASSUME NEW r \in Records, NEW a, a = r.address, a \in Nat, End(r) <= Address, BytesAt(r)
      PROVE  BytesNext(r)
  <2>1. End(r) = a + Size(r)  BY <1>5 DEF End
  <2>2. Size(r) \in Nat /\ Size(r) >= 1  BY SizeType
  <2>3. r.op # "ARG_NAME" => bytecode'[a + 1] = Op(r.op)
    <3>1. a + 1 \in 1..Address  BY <2>1, <2>2, <1>2, <1>5
    <3> QED  BY <3>1, <1>2, <1>5 DEF BytesAt
  <2>4. r.op = "DEF_FUNC" => bytecode'[a + 2] = Low(Len(r.arg))
    <3>1. r.op = "DEF_FUNC" => Size(r) = 2  BY Sizes
    <3>2. r.op = "DEF_FUNC" => a + 2 \in 1..Address  BY <3>1, <2>1, <1>2, <1>5
    <3> QED  BY <3>2, <1>2, <1>5 DEF BytesAt
  <2>5. r.op \in ConstantOps \cup NumberOps => a + 1 \in Nat /\ a + 1 + 4 <= Address
    <3>1. r.op \in ConstantOps \cup NumberOps => Size(r) = 5  BY Sizes
    <3> QED  BY <3>1, <2>1, <1>2, <1>5
  <2>6. r.op = "ARG_NAME" => a + 4 <= Address
    <3>1. r.op = "ARG_NAME" => Size(r) = 4  BY Sizes
    <3> QED  BY <3>1, <2>1, <1>2, <1>5
  <2>7. Len(constants) \in Nat  BY <1>1
  <2>8. r.op \in NumberOps => HoldsNext(a + 1, r.arg)
    <3>1. r.op \in NumberOps => Holds(a + 1, r.arg)  BY <1>5 DEF BytesAt
    <3> QED  BY <3>1, <2>5, <1>2, HoldsKept
  <2>9. r.op \in ConstantOps /\ OneConstantSegment' => IndexesNext(a + 1, r.arg)
    <3>1. r.op \in ConstantOps /\ OneConstantSegment' => Indexes(a + 1, r.arg)
      BY <1>3, <1>5 DEF BytesAt
    <3> QED  BY <3>1, <2>5, <2>7, <1>2, HoldsKept
  <2>10. r.op = "ARG_NAME" /\ OneConstantSegment' => IndexesNext(a, r.arg)
    <3>1. r.op = "ARG_NAME" /\ OneConstantSegment' => Indexes(a, r.arg)
      BY <1>3, <1>5 DEF BytesAt
    <3> QED  BY <3>1, <2>6, <2>7, <1>2, <1>5, HoldsKept
  <2> QED  BY <2>3, <2>4, <2>8, <2>9, <2>10, <1>5 DEF BytesNext
<1>6. BytesNext(e)
  <2>1. e.op = op /\ e.arg = arg /\ e.address = Address  OBVIOUS
  <2>2. Len(bytes) = Size(e) /\ Size(e) \in Nat /\ Size(e) >= 1  BY SizeType DEF BytesOf
  <2> HIDE DEF e
  <2>3. op # "ARG_NAME" => bytecode'[Address + 1] = Op(op)
    BY <2>2, <1>2 DEF BytesOf
  <2>4. op = "DEF_FUNC" => bytecode'[Address + 2] = Low(Len(arg))
    <3>1. op = "DEF_FUNC" => Size(e) = 2  BY <2>1, Sizes
    <3>2. op = "DEF_FUNC" => bytecode'[Address + 2] = bytes[2]  BY <3>1, <2>2, <1>2
    <3> QED  BY <3>2 DEF BytesOf
  <2>5. op \in ConstantOps \cup NumberOps =>
          \A k \in 1..4 : bytecode'[Address + 1 + k] = bytes[1 + k]
    <3>1. op \in ConstantOps \cup NumberOps => Size(e) = 5  BY <2>1, Sizes
    <3> SUFFICES ASSUME op \in ConstantOps \cup NumberOps, NEW k \in 1..4
                 PROVE  bytecode'[Address + 1 + k] = bytes[1 + k]
      OBVIOUS
    <3>2. 1 + k \in 1..Len(bytes) /\ Address + (1 + k) = Address + 1 + k  BY <3>1, <2>2, <1>2
    <3>3. bytecode'[Address + (1 + k)] = bytes[1 + k]  BY <3>2, <1>2
    <3> QED  BY <3>2, <3>3
  <2>6. op = "ARG_NAME" => \A k \in 1..4 : bytecode'[Address + k] = bytes[0 + k]
    <3>1. op = "ARG_NAME" => Size(e) = 4  BY <2>1, Sizes
    <3> QED  BY <3>1, <2>2, <1>2
  <2>7. op \in NumberOps => HoldsNext(Address + 1, arg)
    BY <2>5 DEF BytesOf, Writes, HoldsNext
  <2>8. op \in ConstantOps /\ OneConstantSegment' => IndexesNext(Address + 1, arg)
    BY <2>5 DEF BytesOf, Writes, WritesIndex, HoldsNext, IndexesNext
  <2>9. op = "ARG_NAME" /\ OneConstantSegment' => IndexesNext(Address, arg)
    BY <2>6 DEF BytesOf, Writes, WritesIndex, HoldsNext, IndexesNext
  <2> QED  BY <2>1, <2>3, <2>4, <2>7, <2>8, <2>9 DEF BytesNext
<1>7. \A i \in DOMAIN emitted' : BytesNext(emitted'[i])
  <2> TAKE i \in DOMAIN emitted'
  <2>1. CASE i \in 1..n
    <3>1. emitted[i] \in Records /\ emitted'[i] = emitted[i]  BY <2>1, <1>2
    <3> QED  BY <3>1, <2>1, <1>4, <1>5
  <2>2. CASE i = n + 1  BY <2>2, <1>2, <1>6
  <2> QED  BY <2>1, <2>2, <1>2
<1>8. bytecode' \in Seq(B) /\ constants' \in Seq(Strings)  BY <1>2 DEF ConstantsGrow
<1> QED
  BY <1>7, <1>8 DEF Bytes, B, BytesNext, HoldsNext, IndexesNext, Holds, Indexes, UInt, Low, Shifted, Op

-----------------------------------------------------------------------------
(* Labels, as instructions are emitted.                                     *)

(* A reference is filed where a label is named, and nowhere else.           *)
Files(op, arg) ==
  IF op \in LabelOps THEN labelRefs' = refsWith(arg) ELSE labelRefs' = labelRefs

(* The references of a byte after refsWith: the new one, then the others.   *)
LEMMA RefsFacts ==
  ASSUME LabelMaps, Address \in Nat, NEW l \in 0..nextLabel - 1
  PROVE  LET refs == refsWith(l)
             old == IF Low(l) \in DOMAIN labelRefs THEN labelRefs[Low(l)].value ELSE <<>>
         IN /\ DOMAIN refs = DOMAIN labelRefs \cup {Low(l)}
            /\ \A c \in DOMAIN labelRefs : c # Low(l) => refs[c] = labelRefs[c]
            /\ refs[Low(l)].key \in 0..nextLabel - 1 /\ Low(refs[Low(l)].key) = Low(l)
            /\ old \in Seq(1..Address - 4)
            /\ refs[Low(l)].value = <<Address + 1>> \o old
            /\ refs[Low(l)].value \in Seq(1..Address + 1)
<1> DEFINE old == IF Low(l) \in DOMAIN labelRefs THEN labelRefs[Low(l)].value ELSE <<>>
           refs == refsWith(l)
<1>1. refs = putMapUint32(labelRefs, l, <<Address + 1>> \o old)  BY DEF refsWith
<1>2. old \in Seq(1..Address - 4)
  <2>1. \A c \in DOMAIN labelRefs : labelRefs[c].value \in Seq(1..Address - 4)  BY DEF LabelMaps
  <2>2. <<>> \in Seq(1..Address - 4)  OBVIOUS
  <2> QED  BY <2>1, <2>2
<1>3. <<Address + 1>> \o old \in Seq(1..Address + 1)
  <2>1. 1..Address - 4 \subseteq 1..Address + 1 /\ Address + 1 \in 1..Address + 1  OBVIOUS
  <2>2. <<Address + 1>> \in Seq(1..Address + 1)  BY <2>1
  <2> HIDE DEF old
  <2>3. old \in Seq(1..Address + 1)  BY <1>2, <2>1, SeqMonotonic
  <2> QED  BY <2>2, <2>3
<1> HIDE DEF old, refs
<1>4. /\ DOMAIN refs = DOMAIN labelRefs \cup {Low(l)}
      /\ \A c \in DOMAIN labelRefs : c # Low(l) => refs[c] = labelRefs[c]
      /\ refs[Low(l)].value = <<Address + 1>> \o old
      /\ refs[Low(l)].key = IF Low(l) \in DOMAIN labelRefs THEN labelRefs[Low(l)].key ELSE l
  <2> DEFINE v == <<Address + 1>> \o old
  <2>1. refs = putMapUint32(labelRefs, l, v)  BY <1>1
  <2> HIDE DEF v
  <2>2. refs = [c \in DOMAIN labelRefs \cup {Low(l)} |->
                  IF c # Low(l) THEN labelRefs[c]
                  ELSE [key |-> IF c \in DOMAIN labelRefs THEN labelRefs[c].key ELSE l,
                        value |-> v]]
    BY <2>1 DEF putMapUint32
  <2>3. DOMAIN refs = DOMAIN labelRefs \cup {Low(l)}  BY <2>2
  <2>4. \A c \in DOMAIN labelRefs : c # Low(l) => refs[c] = labelRefs[c]  BY <2>2
  <2>5. refs[Low(l)] = [key |-> IF Low(l) \in DOMAIN labelRefs THEN labelRefs[Low(l)].key ELSE l,
                        value |-> v]
    BY <2>2
  <2> QED  BY <2>3, <2>4, <2>5 DEF v
<1>5. refs[Low(l)].key \in 0..nextLabel - 1 /\ Low(refs[Low(l)].key) = Low(l)
  BY <1>4 DEF LabelMaps
<1> QED  BY <1>2, <1>3, <1>4, <1>5 DEF old, refs

(* An emission files its reference within the bytecode.                     *)
LEMMA EmissionMaps ==
  ASSUME Positions, LabelMaps, NEW op, NEW arg, NEW B, bytecode \in Seq(B), NEW bytes \in Seq(B),
         Len(bytes) = Size([op |-> op, arg |-> arg, address |-> Address]),
         Emission(op, arg, bytes), Takes(op, arg), Files(op, arg)
  PROVE  LabelMaps'
<1> DEFINE e == [op |-> op, arg |-> arg, address |-> Address]
<1>1. Address \in Nat /\ Len(bytes) \in Nat /\ Address' = Address + Len(bytes)
  BY EmissionFacts
<1>2. nextLabel' = nextLabel /\ labelDefs' = labelDefs /\ placed' = placed  BY DEF Emission
<1>3. Address <= Address' /\ Address' \in Nat  BY <1>1
<1>4. 0..Address \subseteq 0..Address' /\ 1..Address - 4 \subseteq 1..Address' - 4
  BY <1>1, <1>3
<1>5. \A c \in DOMAIN labelDefs' : /\ labelDefs'[c].key \in 0..nextLabel' - 1
                                   /\ Low(labelDefs'[c].key) = c
                                   /\ labelDefs'[c].value \in 0..Address'
  BY <1>2, <1>4 DEF LabelMaps
<1>6. placed' \subseteq (0..nextLabel' - 1) \X (0..Address')
  BY <1>2, <1>4 DEF LabelMaps
<1>7. \A c \in DOMAIN labelRefs : /\ labelRefs[c].key \in 0..nextLabel - 1
                                  /\ Low(labelRefs[c].key) = c
                                  /\ labelRefs[c].value \in Seq(1..Address' - 4)
  <2> TAKE c \in DOMAIN labelRefs
  <2>1. labelRefs[c].value \in Seq(1..Address - 4)  BY DEF LabelMaps
  <2> DEFINE S == 1..Address - 4
             T == 1..Address' - 4
  <2>3. S \subseteq T  BY <1>4
  <2> HIDE DEF S, T
  <2>5. labelRefs[c].value \in Seq(S)  BY <2>1 DEF S
  <2>4. labelRefs[c].value \in Seq(T)  BY <2>3, <2>5, SeqMonotonic
  <2>2. labelRefs[c].value \in Seq(1..Address' - 4)  BY <2>4 DEF T
  <2> QED  BY <2>2 DEF LabelMaps
<1>8. \A c \in DOMAIN labelRefs' : /\ labelRefs'[c].key \in 0..nextLabel' - 1
                                   /\ Low(labelRefs'[c].key) = c
                                   /\ labelRefs'[c].value \in Seq(1..Address' - 4)
  <2>1. CASE op \notin LabelOps
    <3>1. labelRefs' = labelRefs  BY <2>1 DEF Files
    <3> QED  BY <3>1, <1>2, <1>7
  <2>2. CASE op \in LabelOps
    <3>1. labelRefs' = refsWith(arg)  BY <2>2 DEF Files
    <3>2. arg \in 0..nextLabel - 1
      <4>1. e \in Records /\ e.op = op /\ e.arg = arg  BY <1>1, TakenItem DEF Emission
      <4> HIDE DEF e
      <4> QED  BY <4>1, <2>2, RecordKinds
    <3>3. Len(bytes) = 5
      <4>1. e.op = op  OBVIOUS
      <4> HIDE DEF e
      <4>2. Size(e) = 5  BY <4>1, <2>2, Sizes
      <4> QED  BY <4>2 DEF e
    <3>4. 1..Address + 1 \subseteq 1..Address' - 4  BY <3>3, <1>1
    <3>5. /\ DOMAIN labelRefs' = DOMAIN labelRefs \cup {Low(arg)}
          /\ \A c \in DOMAIN labelRefs : c # Low(arg) => labelRefs'[c] = labelRefs[c]
          /\ labelRefs'[Low(arg)].key \in 0..nextLabel - 1
          /\ Low(labelRefs'[Low(arg)].key) = Low(arg)
          /\ labelRefs'[Low(arg)].value \in Seq(1..Address + 1)
      BY <3>1, <3>2, <1>1, RefsFacts
    <3>6. labelRefs'[Low(arg)].value \in Seq(1..Address' - 4)
      <4> DEFINE S == 1..Address + 1
                 T == 1..Address' - 4
      <4>1. S \subseteq T  BY <3>4
      <4> HIDE DEF S, T
      <4>3. labelRefs'[Low(arg)].value \in Seq(S)  BY <3>5 DEF S
      <4>2. labelRefs'[Low(arg)].value \in Seq(T)  BY <4>1, <4>3, SeqMonotonic
      <4> QED  BY <4>2 DEF T
    <3> QED  BY <3>5, <3>6, <1>2, <1>7
  <2> QED  BY <2>1, <2>2
<1> QED  BY <1>5, <1>6, <1>8 DEF LabelMaps, Low, Address

(* The jump that a reference to a byte is of.                               *)
LEMMA EmissionReferences ==
  ASSUME Positions, LabelMaps, References, NEW op, NEW arg, NEW B, bytecode \in Seq(B),
         NEW bytes \in Seq(B), Emission(op, arg, bytes), Takes(op, arg), Files(op, arg)
  PROVE  References'
<1> DEFINE n == Len(emitted)
           e == [op |-> op, arg |-> arg, address |-> Address]
<1>1. /\ n \in Nat /\ DOMAIN emitted = 1..n /\ DOMAIN emitted' = 1..n + 1
      /\ emitted'[n + 1] = e
      /\ \A i \in 1..n : emitted'[i] = emitted[i] /\ emitted[i] \in Records
      /\ Address \in Nat
  BY EmissionFacts
<1>2. e.op = op /\ e.arg = arg /\ e.address = Address  OBVIOUS
<1>3. op \in LabelOps => arg \in 0..nextLabel - 1
  <2>1. e \in Records  BY <1>1, TakenItem DEF Emission
  <2> HIDE DEF e
  <2> QED  BY <2>1, <1>2, RecordKinds
<1> HIDE DEF n, e
<1> DEFINE Old == IF Low(arg) \in DOMAIN labelRefs THEN labelRefs[Low(arg)].value ELSE <<>>
<1>4. op \in LabelOps =>
        /\ DOMAIN labelRefs' = DOMAIN labelRefs \cup {Low(arg)}
        /\ \A c \in DOMAIN labelRefs : c # Low(arg) => labelRefs'[c] = labelRefs[c]
        /\ labelRefs'[Low(arg)].value = <<Address + 1>> \o Old
        /\ Old \in Seq(1..Address - 4)
  BY <1>1, <1>3, RefsFacts DEF Files
<1>5. Old = IF Low(arg) \in DOMAIN labelRefs THEN labelRefs[Low(arg)].value ELSE <<>>
  OBVIOUS
<1> HIDE DEF Old
<1>6. op \in LabelOps =>
        /\ labelRefs'[Low(arg)].value[1] = Address + 1
        /\ 1 \in DOMAIN labelRefs'[Low(arg)].value
        /\ \A r \in DOMAIN Old : /\ r + 1 \in DOMAIN labelRefs'[Low(arg)].value
                                 /\ labelRefs'[Low(arg)].value[r + 1] = Old[r]
        /\ \A r \in DOMAIN labelRefs'[Low(arg)].value :
             r # 1 => r - 1 \in DOMAIN Old /\ labelRefs'[Low(arg)].value[r] = Old[r - 1]
  <2> SUFFICES ASSUME op \in LabelOps
               PROVE  /\ labelRefs'[Low(arg)].value[1] = Address + 1
                      /\ 1 \in DOMAIN labelRefs'[Low(arg)].value
                      /\ \A r \in DOMAIN Old :
                           /\ r + 1 \in DOMAIN labelRefs'[Low(arg)].value
                           /\ labelRefs'[Low(arg)].value[r + 1] = Old[r]
                      /\ \A r \in DOMAIN labelRefs'[Low(arg)].value :
                           r # 1 => /\ r - 1 \in DOMAIN Old
                                    /\ labelRefs'[Low(arg)].value[r] = Old[r - 1]
    OBVIOUS
  <2> DEFINE v == labelRefs'[Low(arg)].value
  <2>1. v = <<Address + 1>> \o Old /\ Old \in Seq(1..Address - 4)  BY <1>4
  <2> HIDE DEF v
  <2>2. /\ Len(v) = Len(Old) + 1 /\ DOMAIN v = 1..Len(Old) + 1 /\ DOMAIN Old = 1..Len(Old)
        /\ v[1] = Address + 1 /\ Len(Old) \in Nat
        /\ \A r \in 1..Len(Old) + 1 : r # 1 => v[r] = Old[r - 1]
    BY <2>1
  <2>3. /\ v[1] = Address + 1 /\ 1 \in DOMAIN v
        /\ \A r \in DOMAIN Old : r + 1 \in DOMAIN v /\ v[r + 1] = Old[r]
        /\ \A r \in DOMAIN v : r # 1 => r - 1 \in DOMAIN Old /\ v[r] = Old[r - 1]
    BY <2>2
  <2> QED  BY <2>3 DEF v
(* What is filed is of a jump.                                              *)
<1>7. ASSUME NEW c \in DOMAIN labelRefs', NEW r \in DOMAIN labelRefs'[c].value
      PROVE  \E i \in DOMAIN emitted' : /\ emitted'[i].op \in LabelOps /\ Low(emitted'[i].arg) = c
                                        /\ labelRefs'[c].value[r] = emitted'[i].address + 1
  <2>1. ASSUME NEW q, c \in DOMAIN labelRefs, q \in DOMAIN labelRefs[c].value,
               labelRefs'[c].value[r] = labelRefs[c].value[q]
        PROVE  \E i \in DOMAIN emitted' :
                 /\ emitted'[i].op \in LabelOps /\ Low(emitted'[i].arg) = c
                 /\ labelRefs'[c].value[r] = emitted'[i].address + 1
    <3>1. PICK i \in DOMAIN emitted : /\ emitted[i].op \in LabelOps /\ Low(emitted[i].arg) = c
                                      /\ labelRefs[c].value[q] = emitted[i].address + 1
      BY <2>1 DEF References
    <3>2. i \in DOMAIN emitted' /\ emitted'[i] = emitted[i]  BY <1>1
    <3> QED  BY <2>1, <3>1, <3>2
  <2>2. CASE op \notin LabelOps
    <3>1. labelRefs' = labelRefs  BY <2>2 DEF Files
    <3> QED  BY <3>1, <2>1, <1>7
  <2>3. CASE op \in LabelOps /\ c # Low(arg)
    <3>1. c \in DOMAIN labelRefs /\ labelRefs'[c] = labelRefs[c]  BY <2>3, <1>4
    <3> QED  BY <3>1, <2>1, <1>7
  <2>4. CASE op \in LabelOps /\ c = Low(arg) /\ r = 1
    <3>1. n + 1 \in DOMAIN emitted' /\ emitted'[n + 1] = e  BY <1>1
    <3> QED  BY <3>1, <2>4, <1>2, <1>6
  <2>5. CASE op \in LabelOps /\ c = Low(arg) /\ r # 1
    <3>1. r - 1 \in DOMAIN Old /\ labelRefs'[c].value[r] = Old[r - 1]
      BY <2>5, <1>6, <1>7
    <3>2. c \in DOMAIN labelRefs /\ Old = labelRefs[c].value
      <4>1. Old # <<>>  BY <3>1
      <4> QED  BY <4>1, <2>5, <1>5
    <3> QED  BY <3>1, <3>2, <2>1
  <2> QED  BY <2>2, <2>3, <2>4, <2>5
(* Every jump is filed.                                                     *)
<1>8. ASSUME NEW i \in DOMAIN emitted', emitted'[i].op \in LabelOps
      PROVE  LET c == Low(emitted'[i].arg)
             IN /\ c \in DOMAIN labelRefs'
                /\ \E r \in DOMAIN labelRefs'[c].value :
                     labelRefs'[c].value[r] = emitted'[i].address + 1
  <2>1. CASE i = n + 1
    <3>1. op \in LabelOps /\ emitted'[i].arg = arg /\ emitted'[i].address = Address
      BY <2>1, <1>1, <1>2, <1>8
    <3>2. Low(arg) \in DOMAIN labelRefs'  BY <3>1, <1>4
    <3> QED  BY <3>1, <3>2, <1>6
  <2>2. CASE i \in 1..n
    <3> DEFINE c == Low(emitted[i].arg)
    <3>1. i \in DOMAIN emitted /\ emitted'[i] = emitted[i]  BY <2>2, <1>1
    <3>2. PICK r \in DOMAIN labelRefs[c].value : labelRefs[c].value[r] = emitted[i].address + 1
      BY <3>1, <1>8 DEF References
    <3>3. c \in DOMAIN labelRefs  BY <3>1, <1>8 DEF References
    <3> HIDE DEF c
    <3>4. CASE op \notin LabelOps
      <4>1. labelRefs' = labelRefs  BY <3>4 DEF Files
      <4> QED  BY <4>1, <3>1, <3>2, <3>3 DEF c
    <3>5. CASE op \in LabelOps /\ c # Low(arg)
      <4>1. labelRefs'[c] = labelRefs[c] /\ c \in DOMAIN labelRefs'  BY <3>3, <3>5, <1>4
      <4> QED  BY <4>1, <3>1, <3>2 DEF c
    <3>6. CASE op \in LabelOps /\ c = Low(arg)
      <4>1. Old = labelRefs[c].value  BY <3>3, <3>6, <1>5
      <4>2. /\ r + 1 \in DOMAIN labelRefs'[c].value
            /\ labelRefs'[c].value[r + 1] = emitted[i].address + 1
        BY <4>1, <3>2, <3>6, <1>6
      <4>3. c \in DOMAIN labelRefs'  BY <3>6, <1>4
      <4> QED  BY <4>2, <4>3, <3>1 DEF c
    <3> QED  BY <3>4, <3>5, <3>6
  <2> QED  BY <2>1, <2>2, <1>1
<1> QED  BY <1>7, <1>8 DEF References, Low

(* An emission refers to labels that were put down or can be.               *)
LEMMA EmissionDefinitions ==
  ASSUME Positions, LabelMaps, Definitions, NEW op, NEW arg, NEW B, bytecode \in Seq(B),
         NEW bytes \in Seq(B), Emission(op, arg, bytes), Takes(op, arg), Files(op, arg)
  PROVE  Definitions'
<1>1. /\ nextLabel' = nextLabel /\ labelDefs' = labelDefs /\ placed' = placed /\ labels' = labels
      /\ globalFuncs' = globalFuncs /\ Placed' = Placed /\ Targets' = Targets
  BY DEF Emission, Placed, Targets
<1>2. SUFFICES ASSUME LabelsFitByte
               PROVE  DOMAIN labelRefs' \subseteq Placed \cup Targets
  BY <1>1 DEF Definitions, LabelsFitByte
<1>3. DOMAIN labelRefs \subseteq Placed \cup Targets  BY <1>2 DEF Definitions
<1>4. CASE op \notin LabelOps
  <2>1. labelRefs' = labelRefs  BY <1>4 DEF Files
  <2> QED  BY <2>1, <1>3
<1>5. CASE op \in LabelOps
  <2>1. arg \in Targets
    <3>1. op # "ARG_NAME"  BY <1>5 DEF LabelOps
    <3>2. todo[1].type = "EMIT" /\ todo[1].op = op /\ todo[1].arg = arg  BY <3>1 DEF Takes
    <3>5. Len(todo) \in Nat /\ Len(todo) >= 1 /\ DOMAIN todo = 1..Len(todo)  BY EmissionFacts
    <3>3. 1 \in DOMAIN todo  BY <3>5
    <3>4. todo[1] \in Emits  BY <3>2, <3>3, ItemKinds DEF Positions
    <3> QED  BY <3>2, <3>4, <1>5, EmitKinds
  <2>2. arg \in 0..nextLabel - 1 /\ nextLabel \in Nat  BY <2>1, LabelTypes
  <2>3. arg \in Nat /\ arg < ByteSize  BY <2>2, <1>2, ByteAssumption DEF LabelsFitByte
  <2>4. Low(arg) = arg  BY <2>3, LowSmall
  <2>5. Address \in Nat  BY EmissionFacts
  <2>6. DOMAIN labelRefs' = DOMAIN labelRefs \cup {Low(arg)}
    BY <1>5, <2>2, <2>5, RefsFacts DEF Files
  <2> QED  BY <2>1, <2>4, <2>6, <1>3
<1> QED  BY <1>4, <1>5

(* Puts and Down of the next state.                                         *)
PutsNext(x, label) == \/ x.type = "DEFINE" /\ x.label = label
                      \/ x.type = "LABEL" /\ labels'[x.arg] = label
DownNext(label) == label \in Placed' \/ \E i \in DOMAIN todo' : PutsNext(todo'[i], label)

(* An emitter puts no label down.                                           *)
LEMMA EmissionDown ==
  ASSUME Positions, NEW op, NEW arg, NEW B, bytecode \in Seq(B), NEW bytes \in Seq(B),
         Emission(op, arg, bytes), Takes(op, arg)
  PROVE  /\ Placed' = Placed /\ Targets' = Targets
         /\ \A i \in DOMAIN todo' : \A l : Puts(todo[i + 1], l) <=> PutsNext(todo'[i], l)
         /\ \A l : Down(l) <=> DownNext(l)
<1>1. Placed' = Placed /\ Targets' = Targets /\ labels' = labels
  BY DEF Emission, Placed, Targets
<1>2. /\ Len(todo) \in Nat /\ Len(todo) >= 1
      /\ DOMAIN todo = 1..Len(todo) /\ DOMAIN todo' = 1..Len(todo) - 1
      /\ \A i \in DOMAIN todo' : i + 1 \in DOMAIN todo /\ todo'[i] = todo[i + 1]
  BY EmissionFacts
<1>3. \A l : ~Puts(todo[1], l)
  <2>1. todo[1].type \notin {"DEFINE", "SRC_LOC"} \cup TokenTypes
    BY EmissionFacts, TakenItem DEF Emission
  <2>2. todo[1].type # "DEFINE" /\ todo[1].type # "LABEL"  BY <2>1 DEF TokenTypes
  <2> QED  BY <2>2 DEF Puts
<1>4. ASSUME NEW i \in DOMAIN todo', NEW l PROVE Puts(todo[i + 1], l) <=> PutsNext(todo'[i], l)
  BY <1>1, <1>2, <1>4 DEF Puts, PutsNext
<1>5. ASSUME NEW l PROVE Down(l) <=> DownNext(l)
  <2>1. (\E i \in DOMAIN todo : Puts(todo[i], l)) <=> (\E i \in DOMAIN todo' : Puts(todo[i + 1], l))
    <3>1. ASSUME NEW i \in DOMAIN todo, Puts(todo[i], l)
          PROVE  \E j \in DOMAIN todo' : Puts(todo[j + 1], l)
      <4>1. i # 1  BY <3>1, <1>3
      <4>2. i - 1 \in DOMAIN todo' /\ (i - 1) + 1 = i  BY <4>1, <1>2
      <4> QED  BY <4>2, <3>1
    <3> QED  BY <3>1, <1>2
  <2> QED  BY <2>1, <1>1, <1>4 DEF Down, DownNext
<1> QED  BY <1>1, <1>4, <1>5

(* An emission puts no label down, so none is lost.                         *)
LEMMA EmissionDue ==
  ASSUME Positions, Due, NEW op, NEW arg, NEW B, bytecode \in Seq(B), NEW bytes \in Seq(B),
         Emission(op, arg, bytes), Takes(op, arg)
  PROVE  Due'
<1>1. \A l : Down(l) <=> DownNext(l)  BY EmissionDown
<1>2. labels' = labels /\ globalFuncs' = globalFuncs /\ tree' = tree /\ begun' = begun
  BY DEF Emission
<1>3. /\ \A n \in DOMAIN labels' : DownNext(labels'[n])
      /\ \A f \in 1..begun' : DownNext(globalFuncs'[tree'[f].arg])
  BY <1>1, <1>2 DEF Due
<1> QED  BY <1>3 DEF Due, Down, DownNext, Puts, PutsNext, Placed

(* An emission puts no label down, so none is put down twice.               *)
LEMMA EmissionOnce ==
  ASSUME Positions, Once, NEW op, NEW arg, NEW B, bytecode \in Seq(B), NEW bytes \in Seq(B),
         Emission(op, arg, bytes), Takes(op, arg)
  PROVE  Once'
<1>1. /\ Placed' = Placed /\ Targets' = Targets
      /\ \A i \in DOMAIN todo' : \A l : Puts(todo[i + 1], l) <=> PutsNext(todo'[i], l)
      /\ \A l : Down(l) <=> DownNext(l)
  BY EmissionDown
<1>2. /\ Len(todo) \in Nat /\ DOMAIN todo = 1..Len(todo) /\ DOMAIN todo' = 1..Len(todo) - 1
  BY EmissionFacts
<1>3. /\ globalFuncs' = globalFuncs /\ tree' = tree /\ begun' = begun /\ placed' = placed
  BY DEF Emission
<1>4. \A p, q \in placed' : p[1] = q[1] => p = q  BY <1>3 DEF Once
<1>5. ASSUME NEW i \in DOMAIN todo', NEW j \in DOMAIN todo', NEW l \in Targets',
             PutsNext(todo'[i], l)
      PROVE  l \notin Placed' /\ (PutsNext(todo'[j], l) => i = j)
  <2>1. i \in Nat /\ j \in Nat /\ i + 1 \in DOMAIN todo /\ j + 1 \in DOMAIN todo  BY <1>2
  <2>2. l \in Targets /\ Puts(todo[i + 1], l)  BY <1>1, <1>5
  <2>3. l \notin Placed /\ (Puts(todo[j + 1], l) => i + 1 = j + 1)  BY <2>1, <2>2 DEF Once
  <2> QED  BY <2>1, <2>3, <1>1
<1>6. \A f \in begun' + 1 .. Len(tree') : LET l == globalFuncs'[tree'[f].arg] IN ~DownNext(l)
  BY <1>1, <1>3 DEF Once
<1> QED  BY <1>4, <1>5, <1>6 DEF Once, Down, DownNext, Puts, PutsNext, Placed

(* An emission that may raise an error has its location filed before it.    *)
LEMMA EmissionLocations ==
  ASSUME Positions, Locations, NEW op, NEW arg, NEW B, bytecode \in Seq(B), NEW bytes \in Seq(B),
         Emission(op, arg, bytes), Takes(op, arg)
  PROVE  Locations'
<1> DEFINE n == Len(emitted)
           e == [op |-> op, arg |-> arg, address |-> Address]
<1>1. /\ n \in Nat /\ DOMAIN emitted = 1..n /\ DOMAIN emitted' = 1..n + 1
      /\ emitted'[n + 1] = e
      /\ \A i \in 1..n : emitted'[i] = emitted[i] /\ emitted[i] \in Records
      /\ Address \in Nat /\ Len(bytes) \in Nat /\ Address' = Address + Len(bytes)
  BY EmissionFacts
<1>2. /\ Len(todo) \in Nat /\ Len(todo) >= 1
      /\ DOMAIN todo = 1..Len(todo) /\ DOMAIN todo' = 1..Len(todo) - 1
      /\ \A i \in DOMAIN todo' : i + 1 \in DOMAIN todo /\ todo'[i] = todo[i + 1]
  BY EmissionFacts
<1>3. e.op = op /\ e.arg = arg /\ e.address = Address  OBVIOUS
<1> HIDE DEF n, e
<1>4. srcLoc' = srcLoc  BY DEF Emission
<1>5. srcLoc' \in Seq([index : 0..Address', location : Nat])
  <2>1. 0..Address \subseteq 0..Address'  BY <1>1
  <2> DEFINE S == [index : 0..Address, location : Nat]
             T == [index : 0..Address', location : Nat]
  <2>2. S \subseteq T  BY <2>1
  <2>3. srcLoc \in Seq(S)  BY DEF Locations
  <2> HIDE DEF S, T
  <2>4. srcLoc \in Seq(T)  BY <2>2, <2>3, SeqMonotonic
  <2> QED  BY <2>4, <1>4 DEF T
<1>6. todo[1].type # "SRC_LOC"
  <2>1. todo[1].type \notin {"DEFINE", "SRC_LOC"} \cup TokenTypes
    BY EmissionFacts, TakenItem DEF Emission
  <2> QED  BY <2>1
<1>7. ASSUME NEW i \in DOMAIN emitted', emitted'[i].op \in Raising
      PROVE  \E k \in DOMAIN srcLoc' : srcLoc'[k].index = emitted'[i].address
  <2>1. CASE i \in 1..n
    <3>1. i \in DOMAIN emitted /\ emitted'[i] = emitted[i]  BY <2>1, <1>1
    <3> QED  BY <3>1, <1>4, <1>7 DEF Locations
  <2>2. CASE i = n + 1
    <3>1. op \in Raising  BY <2>2, <1>1, <1>3, <1>7
    <3>2. op # "ARG_NAME"  BY <3>1 DEF Raising
    <3>3. 1 \in DOMAIN todo /\ Raises(todo[1])  BY <3>1, <3>2, <1>2 DEF Raises, Takes
    <3>4. \E k \in DOMAIN srcLoc : srcLoc[k].index = Address  BY <3>3 DEF Locations
    <3> QED  BY <3>4, <2>2, <1>1, <1>3, <1>4
  <2> QED  BY <2>1, <2>2, <1>1
<1>8. ASSUME NEW i \in DOMAIN todo', Raises(todo'[i])
      PROVE  i # 1 /\ todo'[i - 1].type = "SRC_LOC"
  <2>1. i + 1 \in DOMAIN todo /\ todo'[i] = todo[i + 1] /\ i \in Nat /\ i >= 1  BY <1>2
  <2>2. todo[i].type = "SRC_LOC"
    <3>1. Raises(todo[i + 1]) /\ i + 1 # 1 /\ (i + 1) - 1 = i  BY <2>1, <1>8
    <3> QED  BY <2>1, <3>1 DEF Locations
  <2>3. i # 1  BY <2>2, <1>6
  <2>4. i - 1 \in DOMAIN todo' /\ (i - 1) + 1 = i  BY <2>1, <2>3, <1>2
  <2> QED  BY <2>2, <2>3, <2>4, <1>2
<1>9. \A j, k \in DOMAIN srcLoc' : j < k => srcLoc'[j].index <= srcLoc'[k].index
  BY <1>4 DEF Locations
<1> QED  BY <1>5, <1>7, <1>8, <1>9 DEF Locations, Raises, Address

(* An emission keeps the invariant.                                         *)
LEMMA EmissionInvariant ==
  ASSUME Invariant, NEW op, NEW arg, NEW bytes, BytesOf(op, arg, bytes),
         Emission(op, arg, bytes), Takes(op, arg), Files(op, arg), ConstantsGrow
  PROVE  Invariant'
<1> DEFINE B == 0..ByteSize + Len(INSTRUCTIONS) - 1
<1>1. /\ bytecode \in Seq(B) /\ bytes \in Seq(B)
      /\ Len(bytes) = Size([op |-> op, arg |-> arg, address |-> Address])
  BY DEF Invariant, Bytes, BytesOf
<1> HIDE DEF B
<1>2. Address \in Nat  BY <1>1 DEF Address
<1>3. /\ Positions /\ NamesFollow /\ Layout /\ Bytes /\ LabelMaps /\ References /\ Definitions
      /\ Due /\ (NamesDistinct => Once) /\ Locations /\ Outcome
  BY DEF Invariant
<1>4. Positions'  BY <1>2, <1>3, EmissionPositions
<1>5. NamesFollow'  BY <1>1, <1>3, EmissionNames
<1>6. Layout'  BY <1>1, <1>3, EmissionLayout
<1>7. Bytes'  BY <1>3, <1>6, EmissionBytes
<1>8. LabelMaps'  BY <1>1, <1>3, EmissionMaps
<1>9. References'  BY <1>1, <1>3, EmissionReferences
<1>10. Definitions'  BY <1>1, <1>3, EmissionDefinitions
<1>11. Due'  BY <1>1, <1>3, EmissionDue
<1>12. NamesDistinct' => Once'
  <2>1. NamesDistinct' = NamesDistinct
    BY DEF Emission, NamesDistinct, LabelsIn
  <2> QED  BY <2>1, <1>1, <1>3, EmissionOnce
<1>13. Locations'  BY <1>1, <1>3, EmissionLocations
<1>14. Outcome'
  <2>1. module = Building /\ module' = Building  BY DEF Emission, Building
  <2> QED  BY <2>1 DEF Outcome, Made, Building, Crashed
<1>15. CodeDue'
  <2>1. Len(emitted') = Len(emitted) + 1 /\ Len(emitted) \in Nat  BY <1>1, <1>3, EmissionFacts
  <2> QED  BY <2>1 DEF CodeDue
<1> QED
  BY <1>4, <1>5, <1>6, <1>7, <1>8, <1>9, <1>10, <1>11, <1>12, <1>13, <1>14, <1>15 DEF Invariant

-----------------------------------------------------------------------------
(* Constants.                                                               *)

(* A non-empty set of numbers has a least.                                  *)
LEMMA LeastNumber ==
  ASSUME NEW S \in SUBSET Nat, S # {}
  PROVE  (CHOOSE i \in S : \A j \in S : i <= j) \in S
<1>1. \E x \in S : \A y \in S : <<y, x>> \notin OpToRel(<, Nat)
  BY NatLessThanWellFounded, WFMin
<1>2. PICK x \in S : \A y \in S : <<y, x>> \notin OpToRel(<, Nat)  BY <1>1
<1>3. ASSUME NEW y \in S PROVE x <= y
  <2>1. x \in Nat /\ y \in Nat  OBVIOUS
  <2>2. ~ (y < x)  BY <1>2, <2>1 DEF OpToRel
  <2> QED  BY <2>1, <2>2
<1> QED  BY <1>3

(* internConstant never loses a constant; of one segment it answers the     *)
(* index of the one it was given.                                           *)
LEMMA Interned ==
  ASSUME constants \in Seq(Strings), NEW c \in Strings, NEW r \in internConstant(c)
  PROVE  /\ r.index = Garbage \/ r.index \in Nat
         /\ r.table \in Seq(Strings) /\ Len(constants) <= Len(r.table)
         /\ \A i \in 1..Len(constants) : r.table[i] = constants[i]
         /\ Len(r.table) <= SEGMENT_SIZE => r.index \in 0..Len(r.table) - 1 /\ r.table[r.index + 1] = c
         /\ r.index = Garbage => ~OneConstantSegment
<1> DEFINE newest == {i \in DOMAIN constants :
                        (i - 1) \div SEGMENT_SIZE = (Len(constants) - 1) \div SEGMENT_SIZE}
           hits == {j \in newest : constants[j] = c}
           at == {(i - 1) % SEGMENT_SIZE : i \in hits}
           filled == 1 + ((Len(constants) - 1) % SEGMENT_SIZE)
           least == CHOOSE i \in at : \A j \in at : i <= j
<1>1. r \in IF at # {} THEN {Found(least)}
            ELSE IF Len(constants) <= SEGMENT_SIZE THEN {Added(c)}
            ELSE {Added(c)} \cup {Found(i) : i \in {Garbage} \cup filled .. Len(constants) - 1}
  BY DEF internConstant
<1>2. SEGMENT_SIZE \in Nat /\ SEGMENT_SIZE >= 1  BY SegmentAssumption, ByteWord
<1>3. Len(constants) \in Nat /\ DOMAIN constants = 1..Len(constants)  OBVIOUS
<1>4. \A i \in hits : i \in 1..Len(constants) /\ constants[i] = c /\ (i - 1) % SEGMENT_SIZE \in Nat
  BY <1>2, <1>3
<1>5. Len(constants) >= 1 => filled \in Nat  BY <1>2, <1>3
<1>6. /\ Found(least).index = least /\ Found(least).table = constants
      /\ Added(c).index = Len(constants) /\ Added(c).table = Append(constants, c)
      /\ \A i : Found(i).index = i /\ Found(i).table = constants
  BY DEF Found, Added
<1>7. \A i \in hits : Len(constants) <= SEGMENT_SIZE => (i - 1) % SEGMENT_SIZE = i - 1
  <2>1. ASSUME NEW i \in 1..Len(constants), Len(constants) <= SEGMENT_SIZE
        PROVE  (i - 1) % SEGMENT_SIZE = i - 1
    <3>1. i - 1 \in Nat /\ i - 1 < SEGMENT_SIZE  BY <1>2, <1>3, <2>1
    <3> QED  BY <3>1, <1>2
  <2> HIDE DEF hits
  <2> QED  BY <2>1, <1>4
<1>8. at # {} => least \in at /\ least \in Nat
  <2> HAVE at # {}
  <2>1. at \in SUBSET Nat  BY <1>4
  <2> HIDE DEF at
  <2> QED  BY <2>1, LeastNumber
<1>9. CASE r = Added(c)
  <2>1. /\ Append(constants, c) \in Seq(Strings)
        /\ Len(Append(constants, c)) = Len(constants) + 1
        /\ \A i \in 1..Len(constants) : Append(constants, c)[i] = constants[i]
        /\ Append(constants, c)[Len(constants) + 1] = c
    OBVIOUS
  <2> HIDE DEF newest, hits, at, filled, least
  <2> QED  BY SMTT(30), <2>1, <1>3, <1>6, <1>9, GarbageAssumption
<1>10. CASE at # {}
  <2>1. r = Found(least) /\ least \in at /\ least \in Nat  BY <1>1, <1>8, <1>10
  <2>2. PICK i \in hits : least = (i - 1) % SEGMENT_SIZE  BY <2>1
  <2>3. i \in 1..Len(constants) /\ constants[i] = c  BY <1>4
  <2>4. Len(constants) <= SEGMENT_SIZE => least = i - 1  BY <1>7, <2>2
  <2> HIDE DEF newest, hits, at, filled, least
  <2>5. Len(constants) <= SEGMENT_SIZE =>
          least \in 0..Len(constants) - 1 /\ constants[least + 1] = c
    BY <2>1, <2>3, <2>4, <1>3
  <2> QED  BY <2>1, <2>5, <1>3, <1>6, GarbageAssumption
<1>11. ASSUME Len(constants) > SEGMENT_SIZE, NEW i \in {Garbage} \cup filled .. Len(constants) - 1,
              r = Found(i)
       PROVE  /\ r.index = Garbage \/ r.index \in Nat
              /\ r.table = constants /\ ~OneConstantSegment
  <2>1. filled \in Nat  BY <1>2, <1>3, <1>5, <1>11
  <2> HIDE DEF newest, hits, at, filled, least
  <2>2. i = Garbage \/ i \in Nat  BY <2>1, <1>3
  <2>3. ~OneConstantSegment  BY <1>2, <1>3, <1>11 DEF OneConstantSegment
  <2> QED  BY <2>2, <2>3, <1>6, <1>11
<1>12. CASE at = {} /\ r # Added(c)
  <2>1. Len(constants) > SEGMENT_SIZE
    <3> HIDE DEF newest, hits, at, filled, least
    <3> QED  BY <1>1, <1>2, <1>3, <1>12
  <2>2. PICK i \in {Garbage} \cup filled .. Len(constants) - 1 : r = Found(i)
    <3> HIDE DEF newest, hits, at, filled, least
    <3> QED  BY <1>1, <1>2, <1>3, <1>12, <2>1
  <2> HIDE DEF newest, hits, at, least, filled
  <2>3. (r.index = Garbage \/ r.index \in Nat) /\ r.table = constants /\ ~OneConstantSegment
    BY <2>1, <2>2, <1>11
  <2> QED  BY <2>1, <2>3, <1>2, <1>3
<1> QED  BY <1>9, <1>10, <1>12

-----------------------------------------------------------------------------
(* The emitters.                                                            *)

(* An instruction's byte and its operand.                                   *)
LEMMA OperandBytes ==
  ASSUME NEW B, B = 0..ByteSize + Len(INSTRUCTIONS) - 1, NEW n \in Nat,
         NEW op \in ConstantOps \cup NumberOps \cup LabelOps
  PROVE  LET bytes == <<Op(op)>> \o UInt(n)
         IN /\ bytes \in Seq(B) /\ Len(bytes) = 5 /\ bytes[1] = Op(op)
            /\ \A k \in 1..4 : bytes[1 + k] = UInt(n)[k]
            /\ <<Op(op)>> \in Seq(B) /\ UInt(n) \in Seq(B)
<1>1. 0..ByteSize - 1 \subseteq B /\ Op(op) \in B
  <2>1. Op(op) \in 0..ByteSize + Len(INSTRUCTIONS) - 1  BY OpType
  <2>2. Len(INSTRUCTIONS) = 19  BY DEF INSTRUCTIONS
  <2>3. ByteSize \in Nat  BY ByteAssumption
  <2> QED  BY <2>1, <2>2, <2>3
<1>2. UInt(n) \in Seq(0..ByteSize - 1) /\ Len(UInt(n)) = 4  BY UIntType
<1>3. UInt(n) \in Seq(B)
  <2> DEFINE S == 0..ByteSize - 1
  <2>1. S \subseteq B /\ UInt(n) \in Seq(S)  BY <1>1, <1>2
  <2> HIDE DEF S
  <2> QED  BY <2>1, SeqMonotonic
<1>4. /\ <<Op(op)>> \in Seq(B) /\ Len(<<Op(op)>>) = 1 /\ <<Op(op)>>[1] = Op(op)
  BY <1>1
<1> DEFINE head == <<Op(op)>>
           word == UInt(n)
<1>5. head \in Seq(B) /\ word \in Seq(B)  BY <1>3, <1>4
<1>6. Len(head) = 1 /\ Len(word) = 4 /\ head[1] = Op(op)  BY <1>2, <1>4
<1> HIDE DEF head, word
<1>7. /\ head \o word \in Seq(B) /\ Len(head \o word) = 5
      /\ (head \o word)[1] = head[1]
      /\ \A k \in 1..4 : (head \o word)[1 + k] = word[k]
  <2>1. /\ Len(head \o word) = Len(head) + Len(word) /\ head \o word \in Seq(B)
        /\ \A i \in 1..Len(head) : (head \o word)[i] = head[i]
        /\ \A i \in 1..Len(word) : (head \o word)[Len(head) + i] = word[i]
    BY <1>5, ConcatLength
  <2>2. 1 \in 1..Len(head)  BY <1>6
  <2> QED  BY <2>1, <2>2, <1>6
<1> QED  BY <1>5, <1>6, <1>7 DEF head, word

(* Instructions without operands: emitPushNone, emitReturn, emitDup, ...    *)
LEMMA EmitPlainInvariant ==
  ASSUME Invariant, EmitPlain
  PROVE  Invariant'
<1> DEFINE op == todo[1].op
           bytes == <<Op(op)>>
<1>1. /\ module = Building /\ todo # <<>> /\ todo[1].type = "EMIT" /\ op \in PlainOps
  BY DEF EmitPlain, Doing, Current
<1>2. todo[1].arg = 0
  <2>1. todo[1] \in Items  BY <1>1 DEF Invariant, Positions
  <2> QED  BY <2>1, <1>1, ItemKinds, EmitKinds DEF Invariant
<1>3. Takes(op, 0)  BY <1>1, <1>2 DEF Takes
<1>4. BytesOf(op, 0, bytes)
  <2>1. Op(op) \in 0..ByteSize + Len(INSTRUCTIONS) - 1  BY <1>1, OpType
  <2>2. bytes \in Seq(0..ByteSize + Len(INSTRUCTIONS) - 1) /\ Len(bytes) = 1 /\ bytes[1] = Op(op)
    BY <2>1
  <2>3. \A e : e.op = op => Size(e) = 1  BY <1>1, Sizes
  <2>4. op \notin ConstantOps \cup NumberOps \cup {"ARG_NAME", "DEF_FUNC"}
    BY <1>1 DEF ConstantOps, NumberOps, PlainOps
  <2> HIDE DEF op, bytes
  <2>5. [op |-> op, arg |-> 0, address |-> Address].op = op  OBVIOUS
  <2>6. Size([op |-> op, arg |-> 0, address |-> Address]) = 1  BY <2>3, <2>5
  <2> QED  BY <2>2, <2>4, <2>6 DEF BytesOf
<1>5. Emission(op, 0, bytes)
  <2>1. bytecode' = bytecode \o bytes  BY DEF EmitPlain, Current, Invariant, Bytes
  <2> QED  BY <2>1, <1>1 DEF EmitPlain, Emission, Emitting, Noted, Current
<1>6. Files(op, 0)  BY <1>1 DEF EmitPlain, Files, LabelOps, PlainOps
<1>7. ConstantsGrow  BY DEF EmitPlain, ConstantsGrow, Invariant, Bytes
<1> HIDE DEF op, bytes
<1> QED  BY <1>3, <1>4, <1>5, <1>6, <1>7, EmissionInvariant

(* An emitter that leaves the constants alone and writes a number.          *)
LEMMA OperandEmission ==
  ASSUME Invariant, NEW op \in NumberOps \cup LabelOps, NEW arg, NEW n \in Nat,
         op \in NumberOps => n = arg, Takes(op, arg), Emission(op, arg, <<Op(op)>> \o UInt(n)),
         Files(op, arg), constants' = constants
  PROVE  Invariant'
<1> DEFINE bytes == <<Op(op)>> \o UInt(n)
           B == 0..ByteSize + Len(INSTRUCTIONS) - 1
<1>1. /\ bytes \in Seq(B) /\ Len(bytes) = 5 /\ bytes[1] = Op(op)
      /\ \A k \in 1..4 : bytes[1 + k] = UInt(n)[k]
  BY OperandBytes
<1>2. op \notin ConstantOps \cup {"ARG_NAME", "DEF_FUNC"}
  BY DEF ConstantOps, NumberOps, LabelOps
<1>3. Size([op |-> op, arg |-> arg, address |-> Address]) = 5
  <2>1. [op |-> op, arg |-> arg, address |-> Address].op = op  OBVIOUS
  <2> QED  BY <2>1, Sizes
<1>4. Emission(op, arg, bytes)  OBVIOUS
<1> HIDE DEF bytes
<1>5. BytesOf(op, arg, bytes)
  BY <1>1, <1>2, <1>3 DEF BytesOf, Writes
<1>6. ConstantsGrow  BY DEF ConstantsGrow, Invariant, Bytes
<1> QED  BY <1>4, <1>5, <1>6, EmissionInvariant

(* What comes before an operand and the operand are put down at once.       *)
LEMMA OperandConcat ==
  ASSUME Invariant, NEW n \in Nat, NEW op \in ConstantOps \cup NumberOps \cup LabelOps
  PROVE  bytecode \o <<Op(op)>> \o UInt(n) = bytecode \o (<<Op(op)>> \o UInt(n))
<1> DEFINE B == 0..ByteSize + Len(INSTRUCTIONS) - 1
<1>1. bytecode \in Seq(B)  BY DEF Invariant, Bytes
<1>2. <<Op(op)>> \in Seq(B) /\ UInt(n) \in Seq(B)  BY OperandBytes
<1> HIDE DEF B
<1> QED  BY <1>1, <1>2, ConcatAssociative

(* emitPushInt, emitPushFloat, emitCall.                                    *)
LEMMA EmitNumberInvariant ==
  ASSUME Invariant, EmitNumber
  PROVE  Invariant'
<1> DEFINE op == todo[1].op
           arg == todo[1].arg
<1>1. /\ module = Building /\ todo # <<>> /\ todo[1].type = "EMIT" /\ op \in NumberOps
  BY DEF EmitNumber, Doing, Current
<1>2. arg \in Nat
  <2>1. todo[1] \in Items  BY <1>1 DEF Invariant, Positions
  <2>2. arg \in 0..Word - 1  BY <2>1, <1>1, ItemKinds, EmitKinds DEF Invariant
  <2> QED  BY <2>2
<1>3. Takes(op, arg)  BY <1>1 DEF Takes
<1>4. Emission(op, arg, <<Op(op)>> \o UInt(arg))
  <2>1. bytecode' = bytecode \o (<<Op(op)>> \o UInt(arg))
    BY <1>1, <1>2, OperandConcat DEF EmitNumber, Current
  <2> QED  BY <2>1, <1>1 DEF EmitNumber, Emission, Emitting, Noted, Current
<1>5. Files(op, arg)  BY <1>1 DEF EmitNumber, Files, LabelOps, NumberOps
<1>6. constants' = constants  BY DEF EmitNumber
<1> HIDE DEF op, arg
<1> QED  BY <1>1, <1>2, <1>3, <1>4, <1>5, <1>6, OperandEmission

(* emitCreateFunc, emitCondJump, emitAbsJump.                               *)
LEMMA EmitLabelRefInvariant ==
  ASSUME Invariant, EmitLabelRef
  PROVE  Invariant'
<1> DEFINE op == todo[1].op
           arg == todo[1].arg
<1>1. /\ module = Building /\ todo # <<>> /\ todo[1].type = "EMIT" /\ op \in LabelOps
  BY DEF EmitLabelRef, Doing, Current
<1>2. Takes(op, arg)  BY <1>1 DEF Takes
<1>3. Emission(op, arg, <<Op(op)>> \o UInt(0))
  <2>1. bytecode' = bytecode \o (<<Op(op)>> \o UInt(0))
    BY <1>1, OperandConcat DEF EmitLabelRef, Current
  <2> QED  BY <2>1, <1>1 DEF EmitLabelRef, Emission, Emitting, Noted, Current
<1>4. Files(op, arg)  BY <1>1 DEF EmitLabelRef, Files, Current
<1>5. constants' = constants  BY DEF EmitLabelRef
<1>6. op \notin NumberOps  BY <1>1 DEF LabelOps, NumberOps
<1> HIDE DEF op, arg
<1> QED  BY <1>1, <1>2, <1>3, <1>4, <1>5, <1>6, OperandEmission

(* emitDefFunc: the byte of the count of arguments.                         *)
LEMMA EmitDefFuncInvariant ==
  ASSUME Invariant, EmitDefFunc
  PROVE  Invariant'
<1> DEFINE op == "DEF_FUNC"
           arg == todo[1].arg
           bytes == <<Op(op), Low(Len(arg))>>
<1>1. /\ module = Building /\ todo # <<>> /\ todo[1].type = "EMIT" /\ todo[1].op = op
  BY DEF EmitDefFunc, Doing, Current
<1>2. Len(arg) \in Nat
  <2>1. todo[1] \in Items  BY <1>1 DEF Invariant, Positions
  <2>2. arg \in Seq(Strings)  BY <2>1, <1>1, ItemKinds, EmitKinds DEF Invariant
  <2> QED  BY <2>2
<1>3. Takes(op, arg)  BY <1>1 DEF Takes
<1>4. BytesOf(op, arg, bytes)
  <2>1. Op(op) \in 0..ByteSize + Len(INSTRUCTIONS) - 1  BY OpType
  <2>2. Low(Len(arg)) \in 0..ByteSize + Len(INSTRUCTIONS) - 1
    <3>1. Low(Len(arg)) \in 0..ByteSize - 1  BY <1>2, LowShifted
    <3>2. Len(INSTRUCTIONS) = 19  BY DEF INSTRUCTIONS
    <3> QED  BY <3>1, <3>2, ByteAssumption
  <2>3. [op |-> op, arg |-> arg, address |-> Address].op = op  OBVIOUS
  <2>4. Size([op |-> op, arg |-> arg, address |-> Address]) = 2  BY <2>3, Sizes
  <2>5. op \notin ConstantOps \cup NumberOps \cup {"ARG_NAME"}  BY DEF ConstantOps, NumberOps
  <2>6. Op("DEF_FUNC") = Op(op)  OBVIOUS
  <2>7. /\ bytes \in Seq(0..ByteSize + Len(INSTRUCTIONS) - 1) /\ Len(bytes) = 2
        /\ bytes[1] = Op(op) /\ bytes[2] = Low(Len(arg))
    BY <2>1, <2>2
  <2> HIDE DEF op, arg, bytes
  <2> QED  BY <2>4, <2>5, <2>7 DEF BytesOf
<1>5. Emission(op, arg, bytes)
  BY <1>1 DEF EmitDefFunc, Emission, Emitting, Noted, Current
<1>6. Files(op, arg)  BY DEF EmitDefFunc, Files, LabelOps
<1>7. ConstantsGrow  BY DEF EmitDefFunc, ConstantsGrow, Invariant, Bytes
<1> HIDE DEF op, arg, bytes
<1> QED  BY <1>3, <1>4, <1>5, <1>6, <1>7, EmissionInvariant

(* What only decides how the module ends changes nothing else.              *)
LEMMA OutcomeInvariant ==
  ASSUME Invariant, UNCHANGED <<tree, begun, todo, globalFuncs, labels, builder>>, Outcome'
  PROVE  Invariant'
<1>1. UNCHANGED <<tree, begun, todo, globalFuncs, labels, builder>>  OBVIOUS
<1>2. Items' = Items /\ Records' = Records /\ Targets' = Targets
  BY <1>1 DEF Items, Tokens, Emits, Records, Targets, builder
<1>3. Positions'  BY <1>1, <1>2 DEF Invariant, Positions, builder
<1>4. NamesFollow'  BY <1>1 DEF Invariant, NamesFollow, builder
<1>5. Layout'  BY <1>1 DEF Invariant, Layout, Address, builder
<1>6. Bytes'  BY <1>1 DEF Invariant, Bytes, OneConstantSegment, Indexes, Holds, builder
<1>7. LabelMaps'  BY <1>1 DEF Invariant, LabelMaps, Address, builder
<1>8. References'  BY <1>1 DEF Invariant, References, builder
<1>9. Definitions' /\ Due'
  BY <1>1, <1>2 DEF Invariant, Definitions, Due, Down, Puts, Placed, LabelsFitByte, builder
<1>10. NamesDistinct' => Once'
  BY <1>1, <1>2 DEF Invariant, NamesDistinct, LabelsIn, Once, Down, Puts, Placed, builder
<1>11. Locations'  BY <1>1 DEF Invariant, Locations, Address, builder
<1>12. CodeDue'  BY <1>1 DEF Invariant, CodeDue, builder
<1> QED
  BY <1>3, <1>4, <1>5, <1>6, <1>7, <1>8, <1>9, <1>10, <1>11, <1>12 DEF Invariant

(* A failure beyond the limits.                                             *)
LEMMA CrashInvariant ==
  ASSUME Invariant, Crash, ~(OneConstantSegment /\ LabelsFitByte)
  PROVE  Invariant'
<1>1. /\ UNCHANGED <<tree, begun, todo, globalFuncs, labels, builder>> /\ module' = Crashed
  BY DEF Crash
<1>2. Outcome'
  BY <1>1 DEF Outcome, Made, Crashed, Building, OneConstantSegment, LabelsFitByte, builder
<1> QED  BY <1>1, <1>2, OutcomeInvariant

(* emitPushBuiltin, emitPushLiteral, emitLoad, emitStore.                   *)
LEMMA EmitConstantInvariant ==
  ASSUME Invariant, EmitConstant
  PROVE  Invariant'
<1> DEFINE op == todo[1].op
           arg == todo[1].arg
           B == 0..ByteSize + Len(INSTRUCTIONS) - 1
<1>1. /\ module = Building /\ todo # <<>> /\ todo[1].type = "EMIT" /\ op \in ConstantOps
  BY DEF EmitConstant, Doing, Current
<1>2. arg \in Strings
  <2>1. todo[1] \in Items  BY <1>1 DEF Invariant, Positions
  <2> QED  BY <2>1, <1>1, ItemKinds, EmitKinds DEF Invariant
<1>3. Takes(op, arg)  BY <1>1 DEF Takes
<1>4. constants \in Seq(Strings)  BY DEF Invariant, Bytes
<1>5. PICK r \in internConstant(arg) :
        IF r.index = Garbage THEN Crash
        ELSE /\ bytecode' = bytecode \o <<Op(op)>> \o UInt(r.index)
             /\ constants' = r.table
             /\ emitted' = Noted(op, arg)
             /\ Emitting /\ UNCHANGED <<srcLoc, labelRefs, labelDefs, placed>>
  BY DEF EmitConstant, EmitIndex, Current
<1>6. /\ r.index = Garbage \/ r.index \in Nat
      /\ r.table \in Seq(Strings) /\ Len(constants) <= Len(r.table)
      /\ \A i \in 1..Len(constants) : r.table[i] = constants[i]
      /\ Len(r.table) <= SEGMENT_SIZE =>
           r.index \in 0..Len(r.table) - 1 /\ r.table[r.index + 1] = arg
      /\ r.index = Garbage => ~OneConstantSegment
  BY <1>2, <1>4, Interned
<1>7. CASE r.index = Garbage
  <2>1. Crash /\ ~OneConstantSegment  BY <1>5, <1>6, <1>7
  <2> QED  BY <2>1, CrashInvariant
<1>8. CASE r.index # Garbage
  <2> DEFINE n == r.index
             bytes == <<Op(op)>> \o UInt(n)
  <2>1. n \in Nat  BY <1>6, <1>8
  <2>2. /\ bytecode' = bytecode \o <<Op(op)>> \o UInt(n) /\ constants' = r.table
        /\ emitted' = Noted(op, arg)
        /\ Emitting /\ UNCHANGED <<srcLoc, labelRefs, labelDefs, placed>>
    BY <1>5, <1>8
  <2>3. Emission(op, arg, bytes)
    <3>1. bytecode' = bytecode \o bytes  BY <1>1, <2>1, <2>2, OperandConcat
    <3> QED  BY <3>1, <2>2, <1>1 DEF Emission, Emitting, Noted
  <2>4. ConstantsGrow  BY <1>6, <2>2 DEF ConstantsGrow
  <2>5. Files(op, arg)  BY <1>1, <2>2 DEF Files, LabelOps, ConstantOps
  <2>6. BytesOf(op, arg, bytes)
    <3>1. /\ bytes \in Seq(B) /\ Len(bytes) = 5 /\ bytes[1] = Op(op)
          /\ \A k \in 1..4 : bytes[1 + k] = UInt(n)[k]
      BY ZenonT(30), <1>1, <2>1, OperandBytes
    <3>2. op \notin NumberOps \cup {"ARG_NAME", "DEF_FUNC"}  BY <1>1 DEF ConstantOps, NumberOps
    <3>3. Size([op |-> op, arg |-> arg, address |-> Address]) = 5
      <4>1. [op |-> op, arg |-> arg, address |-> Address].op = op  OBVIOUS
      <4> HIDE DEF op
      <4> QED  BY <4>1, <1>1, Sizes
    <3>4. OneConstantSegment' => n \in 0..Len(constants') - 1 /\ constants'[n + 1] = arg
      BY <1>6, <2>2 DEF OneConstantSegment
    <3> HIDE DEF bytes, n, op, arg
    <3>5. OneConstantSegment' => WritesIndex(bytes, 1, arg)
      BY <3>1, <3>4 DEF WritesIndex, Writes
    <3> QED  BY <3>1, <3>2, <3>3, <3>5 DEF BytesOf
  <2> HIDE DEF bytes, n, op, arg
  <2> QED  BY <1>3, <2>3, <2>4, <2>5, <2>6, EmissionInvariant
<1> QED  BY <1>7, <1>8

(* emitDefFunc: the index of an argument's name.                            *)
LEMMA EmitArgNameInvariant ==
  ASSUME Invariant, EmitArgName
  PROVE  Invariant'
<1> DEFINE op == "ARG_NAME"
           arg == todo[1].name
           B == 0..ByteSize + Len(INSTRUCTIONS) - 1
<1>1. /\ module = Building /\ todo # <<>> /\ todo[1].type = "ARG_NAME"
  BY DEF EmitArgName, Doing, Current
<1>2. arg \in Strings
  <2>1. todo[1] \in Items  BY <1>1 DEF Invariant, Positions
  <2> QED  BY <2>1, <1>1, ItemKinds DEF Invariant
<1>3. Takes(op, arg)  BY <1>1 DEF Takes
<1>4. constants \in Seq(Strings) /\ bytecode \in Seq(B)  BY DEF Invariant, Bytes
<1>5. PICK r \in internConstant(arg) :
        IF r.index = Garbage THEN Crash
        ELSE /\ bytecode' = bytecode \o <<>> \o UInt(r.index)
             /\ constants' = r.table
             /\ emitted' = Noted(op, arg)
             /\ Emitting /\ UNCHANGED <<srcLoc, labelRefs, labelDefs, placed>>
  BY DEF EmitArgName, EmitIndex, Current
<1>6. /\ r.index = Garbage \/ r.index \in Nat
      /\ r.table \in Seq(Strings) /\ Len(constants) <= Len(r.table)
      /\ \A i \in 1..Len(constants) : r.table[i] = constants[i]
      /\ Len(r.table) <= SEGMENT_SIZE =>
           r.index \in 0..Len(r.table) - 1 /\ r.table[r.index + 1] = arg
      /\ r.index = Garbage => ~OneConstantSegment
  BY <1>2, <1>4, Interned
<1>7. CASE r.index = Garbage
  <2>1. Crash /\ ~OneConstantSegment  BY <1>5, <1>6, <1>7
  <2> QED  BY <2>1, CrashInvariant
<1>8. CASE r.index # Garbage
  <2> DEFINE n == r.index
             bytes == UInt(n)
  <2>1. n \in Nat  BY <1>6, <1>8
  <2>2. /\ bytecode' = bytecode \o <<>> \o UInt(n) /\ constants' = r.table
        /\ emitted' = Noted(op, arg)
        /\ Emitting /\ UNCHANGED <<srcLoc, labelRefs, labelDefs, placed>>
    BY <1>5, <1>8
  <2>3. Emission(op, arg, bytes)
    <3>1. bytecode \o <<>> = bytecode  BY <1>4, ConcatEmptySeq
    <3>2. bytecode' = bytecode \o bytes  BY <3>1, <2>2
    <3> QED  BY <3>2, <2>2, <1>1 DEF Emission, Emitting, Noted
  <2>4. ConstantsGrow  BY <1>6, <2>2 DEF ConstantsGrow
  <2>5. Files(op, arg)  BY <2>2 DEF Files, LabelOps
  <2>6. BytesOf(op, arg, bytes)
    <3>1. bytes \in Seq(B) /\ Len(bytes) = 4
      <4> DEFINE S == 0..ByteSize - 1
      <4>1. bytes \in Seq(S) /\ Len(bytes) = 4  BY <2>1, UIntType
      <4>2. S \subseteq B
        <5>1. Len(INSTRUCTIONS) = 19  BY DEF INSTRUCTIONS
        <5> QED  BY <5>1, ByteAssumption
      <4> HIDE DEF S, bytes, B
      <4> QED  BY <4>1, <4>2, SeqMonotonic
    <3>2. op \notin NumberOps \cup ConstantOps \cup {"DEF_FUNC"}  BY DEF ConstantOps, NumberOps
    <3>3. Size([op |-> op, arg |-> arg, address |-> Address]) = 4
      <4>1. [op |-> op, arg |-> arg, address |-> Address].op = "ARG_NAME"  OBVIOUS
      <4> QED  BY <4>1, Sizes
    <3>4. OneConstantSegment' => n \in 0..Len(constants') - 1 /\ constants'[n + 1] = arg
      BY <1>6, <2>2 DEF OneConstantSegment
    <3>5. \A k \in 1..4 : bytes[0 + k] = UInt(n)[k]  OBVIOUS
    <3> HIDE DEF bytes, n, arg
    <3>6. OneConstantSegment' => WritesIndex(bytes, 0, arg)
      BY <3>4, <3>5 DEF WritesIndex, Writes
    <3> QED  BY <3>1, <3>2, <3>3, <3>6 DEF BytesOf
  <2> HIDE DEF bytes, n, op, arg
  <2> QED  BY <1>3, <2>3, <2>4, <2>5, <2>6, EmissionInvariant
<1> QED  BY <1>7, <1>8

-----------------------------------------------------------------------------
(* What is compiled is replaced by its parts; a label or a location that is *)
(* put down, by nothing.                                                    *)
Expansion(q) ==
  /\ module = Building /\ todo # <<>>
  /\ todo[1].type \notin {"EMIT", "ARG_NAME"}
  /\ todo' = q \o Tail(todo)
  /\ UNCHANGED <<tree, begun, globalFuncs, labels, nextLabel, module, bytecode, constants,
                 labelRefs, emitted>>

(* Parts that build no function.                                            *)
Parted(q) ==
  /\ q \in Seq(Items)
  /\ \A i \in DOMAIN q : ~ (q[i].type = "EMIT" /\ q[i].op = "DEF_FUNC")

(* Where the parts and what is left are.                                    *)
LEMMA ExpansionFacts ==
  ASSUME Positions, NEW q \in Seq(Items), Expansion(q)
  PROVE  /\ Len(q) \in Nat /\ Len(todo) \in Nat /\ Len(todo) >= 1
         /\ DOMAIN q = 1..Len(q) /\ DOMAIN todo = 1..Len(todo)
         /\ DOMAIN todo' = 1 .. Len(q) + Len(todo) - 1 /\ todo' \in Seq(Items)
         /\ \A i \in 1..Len(q) : todo'[i] = q[i]
         /\ \A i \in DOMAIN todo' : i > Len(q) =>
              i - Len(q) + 1 \in 2..Len(todo) /\ todo'[i] = todo[i - Len(q) + 1]
         /\ \A i \in 2..Len(todo) :
              i - 1 + Len(q) \in DOMAIN todo' /\ todo'[i - 1 + Len(q)] = todo[i]
<1> DEFINE t == Tail(todo)
<1>1. todo \in Seq(Items) /\ todo # <<>> /\ todo' = q \o t  BY DEF Positions, Expansion
<1>2. /\ t \in Seq(Items) /\ Len(todo) \in Nat /\ Len(todo) >= 1 /\ Len(t) = Len(todo) - 1
      /\ \A i \in 1..Len(todo) - 1 : t[i] = todo[i + 1]
  BY <1>1, TailFacts
<1> HIDE DEF t
<1>3. /\ Len(todo') = Len(q) + Len(t) /\ todo' \in Seq(Items)
      /\ \A i \in 1..Len(q) : todo'[i] = q[i]
      /\ \A i \in 1..Len(t) : todo'[Len(q) + i] = t[i]
  <2>1. /\ Len(q \o t) = Len(q) + Len(t) /\ q \o t \in Seq(Items)
        /\ \A i \in 1..Len(q) : (q \o t)[i] = q[i]
        /\ \A i \in 1..Len(t) : (q \o t)[Len(q) + i] = t[i]
    <3>1. t \in Seq(Items)  BY <1>2
    <3>2. q \in Seq(Items)  OBVIOUS
    <3> QED  BY <3>1, <3>2, ConcatLength
  <2> QED  BY <2>1, <1>1
<1>4. Len(q) \in Nat /\ DOMAIN q = 1..Len(q) /\ DOMAIN todo = 1..Len(todo)  BY <1>1
<1>5. DOMAIN todo' = 1 .. Len(q) + Len(todo) - 1  BY <1>2, <1>3, <1>4
<1>6. ASSUME NEW i \in DOMAIN todo', i > Len(q)
      PROVE  i - Len(q) + 1 \in 2..Len(todo) /\ todo'[i] = todo[i - Len(q) + 1]
  <2>1. i - Len(q) \in 1..Len(todo) - 1 /\ Len(q) + (i - Len(q)) = i
    BY <1>2, <1>4, <1>5, <1>6
  <2>2. i - Len(q) \in 1..Len(t)  BY <2>1, <1>2
  <2>3. todo'[Len(q) + (i - Len(q))] = t[i - Len(q)]  BY <2>2, <1>3
  <2>4. t[i - Len(q)] = todo[i - Len(q) + 1]  BY <2>1, <1>2
  <2> QED  BY <2>1, <2>3, <2>4, <1>2, <1>4
<1>7. ASSUME NEW i \in 2..Len(todo)
      PROVE  i - 1 + Len(q) \in DOMAIN todo' /\ todo'[i - 1 + Len(q)] = todo[i]
  <2>1. i - 1 + Len(q) \in DOMAIN todo' /\ i - 1 + Len(q) > Len(q)
        /\ (i - 1 + Len(q)) - Len(q) + 1 = i
    BY <1>2, <1>4, <1>5
  <2> QED  BY <2>1, <1>6
<1> QED  BY <1>2, <1>3, <1>4, <1>5, <1>6, <1>7

(* What does not depend on what is left to compile stays.                   *)
LEMMA ExpansionKept ==
  ASSUME Invariant, NEW q, Parted(q), Expansion(q)
  PROVE  Positions' /\ NamesFollow' /\ Layout' /\ Bytes' /\ References' /\ Outcome' /\ CodeDue'
<1>1. Positions /\ NamesFollow /\ q \in Seq(Items)  BY DEF Invariant, Parted
<1>2. /\ Len(q) \in Nat /\ Len(todo) \in Nat /\ Len(todo) >= 1
      /\ DOMAIN q = 1..Len(q) /\ DOMAIN todo = 1..Len(todo)
      /\ DOMAIN todo' = 1 .. Len(q) + Len(todo) - 1 /\ todo' \in Seq(Items)
      /\ \A i \in 1..Len(q) : todo'[i] = q[i]
      /\ \A i \in DOMAIN todo' : i > Len(q) =>
           i - Len(q) + 1 \in 2..Len(todo) /\ todo'[i] = todo[i - Len(q) + 1]
      /\ \A i \in 2..Len(todo) :
           i - 1 + Len(q) \in DOMAIN todo' /\ todo'[i - 1 + Len(q)] = todo[i]
  BY <1>1, ExpansionFacts
<1>3. Items' = Items /\ Records' = Records  BY SameItems DEF Expansion
<1>4. Positions'
  <2>1. begun # 0  BY <1>1 DEF Positions, Expansion
  <2> QED  BY <2>1, <1>1, <1>2, <1>3 DEF Positions, Expansion
<1>5. ASSUME NEW i \in DOMAIN emitted, emitted[i].op = "DEF_FUNC",
             NEW k \in 1..Low(Len(emitted[i].arg))
      PROVE  /\ i + k <= Len(emitted)
             /\ emitted[i + k].op = "ARG_NAME" /\ emitted[i + k].arg = emitted[i].arg[k]
  <2>1. todo[1].type # "ARG_NAME"  BY DEF Expansion
  <2> QED  BY <2>1, <1>1, <1>5, NoNamesDue
<1>6. ASSUME NEW i \in DOMAIN todo', todo'[i].type = "EMIT", todo'[i].op = "DEF_FUNC",
             NEW k \in 1..Low(Len(todo'[i].arg))
      PROVE  i + k \in DOMAIN todo' /\ IsName(todo'[i + k], todo'[i].arg[k])
  <2>1. i > Len(q) /\ i \in Nat
    <3>1. ~(i \in DOMAIN q)  BY <1>2, <1>6 DEF Parted
    <3> QED  BY <3>1, <1>2
  <2> DEFINE p == i - Len(q) + 1
  <2>2. p \in 2..Len(todo) /\ todo'[i] = todo[p]  BY <2>1, <1>2
  <2>3. p + k \in DOMAIN todo /\ IsName(todo[p + k], todo'[i].arg[k])
    <3> HIDE DEF p
    <3>1. p \in DOMAIN todo  BY <2>2, <1>2
    <3> QED  BY <3>1, <2>2, <1>1, <1>6 DEF NamesFollow
  <2>4. k \in Nat /\ k >= 1
    <3>1. todo'[i] \in Items  BY <1>2
    <3>2. todo'[i] \in Emits  BY <3>1, <1>1, <1>6, ItemKinds
    <3>3. Len(todo'[i].arg) \in Nat  BY <3>2, <1>6, EmitKinds
    <3>4. Low(Len(todo'[i].arg)) \in Nat  BY <3>3, LowShifted
    <3> QED  BY <3>4
  <2> DEFINE m == p + k
  <2>5. m \in 2..Len(todo) /\ m - 1 + Len(q) = i + k
    <3>1. p \in Nat /\ p >= 2 /\ p + k \in 1..Len(todo) /\ Len(q) \in Nat
      <4> HIDE DEF p
      <4> QED  BY <2>2, <2>3, <1>2
    <3> QED  BY <3>1, <2>1, <2>4
  <2>6. i + k \in DOMAIN todo' /\ todo'[i + k] = todo[m]
    <3> HIDE DEF m
    <3>1. m - 1 + Len(q) \in DOMAIN todo' /\ todo'[m - 1 + Len(q)] = todo[m]  BY <2>5, <1>2
    <3> QED  BY <3>1, <2>5
  <2> QED  BY <2>3, <2>6
<1>7. NamesFollow'
  <2>1. emitted' = emitted  BY DEF Expansion
  <2>2. \A i \in DOMAIN emitted' : emitted'[i].op = "DEF_FUNC" =>
          \A k \in 1..Low(Len(emitted'[i].arg)) :
            /\ i + k <= Len(emitted')
            /\ emitted'[i + k].op = "ARG_NAME" /\ emitted'[i + k].arg = emitted'[i].arg[k]
    BY <2>1, <1>5
  <2> QED  BY <2>2, <1>6 DEF NamesFollow, IsName, Low
<1>8. Layout' /\ Bytes' /\ References'
  BY DEF Invariant, Expansion, Layout, Address, Bytes, OneConstantSegment, Indexes, Holds,
         References
<1>9. Outcome'
  <2>1. module' = Building  BY DEF Expansion
  <2> QED  BY <2>1 DEF Outcome, Made, Building, Crashed
<1>10. CodeDue'
  <2>1. begun' = begun /\ emitted' = emitted /\ todo[1].type # "EMIT"  BY DEF Expansion
  <2>2. ASSUME NEW i \in DOMAIN todo, todo[i].type = "EMIT"
        PROVE  \E j \in DOMAIN todo' : todo'[j].type = "EMIT"
    <3>1. i \in 2..Len(todo)  BY <2>1, <2>2, <1>2
    <3> QED  BY <3>1, <2>2, <1>2
  <2> QED  BY <2>1, <2>2 DEF Invariant, CodeDue
<1> QED  BY <1>4, <1>7, <1>8, <1>9, <1>10

(* What puts labels down after the expansion did so before it.              *)
LEMMA ExpansionPuts ==
  ASSUME Positions, NEW q \in Seq(Items), Expansion(q)
  PROVE  /\ \A i \in 1..Len(q) : \A l : PutsNext(todo'[i], l) <=> Puts(q[i], l)
         /\ \A i \in DOMAIN todo' : i > Len(q) =>
              \A l : PutsNext(todo'[i], l) <=> Puts(todo[i - Len(q) + 1], l)
         /\ \A l : (\E i \in DOMAIN todo' : PutsNext(todo'[i], l))
                     <=> \/ \E i \in 1..Len(q) : Puts(q[i], l)
                         \/ \E i \in 2..Len(todo) : Puts(todo[i], l)
<1>1. /\ Len(q) \in Nat /\ Len(todo) \in Nat /\ Len(todo) >= 1
      /\ DOMAIN todo' = 1 .. Len(q) + Len(todo) - 1
      /\ \A i \in 1..Len(q) : todo'[i] = q[i]
      /\ \A i \in DOMAIN todo' : i > Len(q) =>
           i - Len(q) + 1 \in 2..Len(todo) /\ todo'[i] = todo[i - Len(q) + 1]
      /\ \A i \in 2..Len(todo) :
           i - 1 + Len(q) \in DOMAIN todo' /\ todo'[i - 1 + Len(q)] = todo[i]
  BY ExpansionFacts
<1>2. \A x, l : PutsNext(x, l) <=> Puts(x, l)
  <2>1. labels' = labels  BY DEF Expansion
  <2> QED  BY <2>1 DEF Puts, PutsNext
<1>3. \A i \in 1..Len(q) : \A l : PutsNext(todo'[i], l) <=> Puts(q[i], l)
  BY <1>1, <1>2
<1>4. \A i \in DOMAIN todo' : i > Len(q) =>
        \A l : PutsNext(todo'[i], l) <=> Puts(todo[i - Len(q) + 1], l)
  BY <1>1, <1>2
<1>5. ASSUME NEW l, NEW i \in DOMAIN todo', PutsNext(todo'[i], l)
      PROVE  \/ \E j \in 1..Len(q) : Puts(q[j], l)
             \/ \E j \in 2..Len(todo) : Puts(todo[j], l)
  <2>1. CASE i <= Len(q)
    <3>1. i \in 1..Len(q)  BY <2>1, <1>1
    <3> QED  BY <3>1, <1>3, <1>5
  <2>2. CASE i > Len(q)  BY <2>2, <1>1, <1>4, <1>5
  <2> QED  BY <2>1, <2>2, <1>1
<1>6. ASSUME NEW l, NEW j \in 1..Len(q), Puts(q[j], l)
      PROVE  \E i \in DOMAIN todo' : PutsNext(todo'[i], l)
  <2>1. j \in DOMAIN todo'  BY <1>1
  <2> QED  BY <2>1, <1>3, <1>6
<1>7. ASSUME NEW l, NEW j \in 2..Len(todo), Puts(todo[j], l)
      PROVE  \E i \in DOMAIN todo' : PutsNext(todo'[i], l)
  <2>1. j - 1 + Len(q) \in DOMAIN todo' /\ todo'[j - 1 + Len(q)] = todo[j]  BY <1>1
  <2> QED  BY <2>1, <1>2, <1>7
<1> QED  BY <1>3, <1>4, <1>5, <1>6, <1>7

(* Where the parts put down what the token does, labels are as before.      *)
LEMMA SameLabels ==
  ASSUME Invariant, NEW q, Parted(q), Expansion(q), placed' = placed, labelDefs' = labelDefs,
         \A l : Puts(todo[1], l) <=> \E i \in 1..Len(q) : Puts(q[i], l),
         \A l : \A i, j \in 1..Len(q) : Puts(q[i], l) /\ Puts(q[j], l) => i = j
  PROVE  LabelMaps' /\ Definitions' /\ Due' /\ (NamesDistinct' => Once')
<1>1. Positions /\ q \in Seq(Items)  BY DEF Invariant, Parted
<1>2. /\ Len(q) \in Nat /\ Len(todo) \in Nat /\ Len(todo) >= 1
      /\ DOMAIN todo = 1..Len(todo) /\ DOMAIN todo' = 1 .. Len(q) + Len(todo) - 1
      /\ \A i \in DOMAIN todo' : i > Len(q) => i - Len(q) + 1 \in 2..Len(todo)
  BY <1>1, ExpansionFacts
<1>3. /\ \A i \in 1..Len(q) : \A l : PutsNext(todo'[i], l) <=> Puts(q[i], l)
      /\ \A i \in DOMAIN todo' : i > Len(q) =>
           \A l : PutsNext(todo'[i], l) <=> Puts(todo[i - Len(q) + 1], l)
      /\ \A l : (\E i \in DOMAIN todo' : PutsNext(todo'[i], l))
                  <=> \/ \E i \in 1..Len(q) : Puts(q[i], l)
                      \/ \E i \in 2..Len(todo) : Puts(todo[i], l)
  BY <1>1, ExpansionPuts
<1>4. Placed' = Placed /\ Targets' = Targets /\ labels' = labels /\ globalFuncs' = globalFuncs
      /\ tree' = tree /\ begun' = begun /\ labelRefs' = labelRefs /\ nextLabel' = nextLabel
      /\ bytecode' = bytecode
  BY DEF Expansion, Placed, Targets
<1>5. \A l : Down(l) <=> DownNext(l)
  <2> TAKE l
  <2>1. (\E i \in DOMAIN todo : Puts(todo[i], l))
          <=> Puts(todo[1], l) \/ \E i \in 2..Len(todo) : Puts(todo[i], l)
    <3>1. 1 \in DOMAIN todo /\ \A i \in DOMAIN todo : i = 1 \/ i \in 2..Len(todo)  BY <1>2
    <3>2. \A i \in 2..Len(todo) : i \in DOMAIN todo  BY <1>2
    <3> QED  BY <3>1, <3>2
  <2> QED  BY <2>1, <1>3, <1>4 DEF Down, DownNext
<1>6. LabelMaps'
  BY <1>4 DEF Invariant, LabelMaps, Address
<1>7. Definitions'
  BY <1>4 DEF Invariant, Definitions, LabelsFitByte
<1>8. Due'
  <2>1. /\ \A n \in DOMAIN labels' : DownNext(labels'[n])
        /\ \A f \in 1..begun' : DownNext(globalFuncs'[tree'[f].arg])
    BY <1>4, <1>5 DEF Invariant, Due
  <2> QED  BY <2>1 DEF Due, Down, DownNext, Puts, PutsNext, Placed
<1>9. NamesDistinct' => Once'
  <2>1. NamesDistinct' = NamesDistinct  BY <1>4 DEF NamesDistinct, LabelsIn
  <2> SUFFICES ASSUME NamesDistinct PROVE Once'
    BY <2>1
  <2>2. Once  BY DEF Invariant
  <2> DEFINE From(i) == IF i <= Len(q) THEN 1 ELSE i - Len(q) + 1
  <2>3. ASSUME NEW i \in DOMAIN todo', NEW l, PutsNext(todo'[i], l)
        PROVE  From(i) \in DOMAIN todo /\ Puts(todo[From(i)], l)
    <3>1. CASE i <= Len(q)
      <4>1. i \in 1..Len(q) /\ From(i) = 1 /\ 1 \in DOMAIN todo  BY <3>1, <1>2
      <4>2. Puts(q[i], l)  BY <4>1, <1>3, <2>3
      <4>3. Puts(todo[1], l)  BY <4>1, <4>2
      <4> QED  BY <4>1, <4>3
    <3>2. CASE i > Len(q)
      <4>1. From(i) = i - Len(q) + 1 /\ From(i) \in 2..Len(todo)  BY <3>2, <1>2
      <4>2. From(i) \in DOMAIN todo  BY <4>1, <1>2
      <4> QED  BY <4>1, <4>2, <3>2, <1>3, <2>3
    <3> QED  BY <3>1, <3>2, <1>2
  <2>4. ASSUME NEW i \in DOMAIN todo', NEW j \in DOMAIN todo', NEW l,
               PutsNext(todo'[i], l), PutsNext(todo'[j], l), From(i) = From(j)
        PROVE  i = j
    <3>1. CASE i <= Len(q) /\ j <= Len(q)
      <4>1. i \in 1..Len(q) /\ j \in 1..Len(q)  BY <3>1, <1>2
      <4>2. Puts(q[i], l) /\ Puts(q[j], l)  BY <4>1, <1>3, <2>4
      <4> QED  BY <4>1, <4>2
    <3>2. CASE i > Len(q) \/ j > Len(q)
      <4>1. i \in Nat /\ j \in Nat /\ i >= 1 /\ j >= 1  BY <1>2
      <4> QED  BY <4>1, <3>2, <2>4, <1>2
    <3> QED  BY <3>1, <3>2, <1>2
  <2> HIDE DEF From
  <2>5. ASSUME NEW i \in DOMAIN todo', NEW j \in DOMAIN todo', NEW l \in Targets',
               PutsNext(todo'[i], l)
        PROVE  l \notin Placed' /\ (PutsNext(todo'[j], l) => i = j)
    <3>1. From(i) \in DOMAIN todo /\ Puts(todo[From(i)], l) /\ l \in Targets
      BY <2>3, <2>5, <1>4
    <3>2. l \notin Placed  BY <3>1, <2>2 DEF Once
    <3>3. ASSUME PutsNext(todo'[j], l) PROVE i = j
      <4>1. From(j) \in DOMAIN todo /\ Puts(todo[From(j)], l)  BY <2>3, <3>3
      <4>2. From(i) = From(j)  BY <3>1, <4>1, <2>2 DEF Once
      <4> QED  BY <4>2, <2>4, <2>5, <3>3
    <3> QED  BY <3>2, <3>3, <1>4
  <2>6. \A f \in begun' + 1 .. Len(tree') : LET l == globalFuncs'[tree'[f].arg] IN ~DownNext(l)
    BY <1>4, <1>5, <2>2 DEF Once
  <2>7. \A p, r \in placed' : p[1] = r[1] => p = r  BY <2>2 DEF Once
  <2> QED  BY <2>5, <2>6, <2>7 DEF Once, Down, DownNext, Puts, PutsNext, Placed
<1> QED  BY <1>6, <1>7, <1>8, <1>9

(* What may raise an error after the expansion has its location before it.  *)
LEMMA ExpansionRaises ==
  ASSUME Positions, Locations, NEW q \in Seq(Items), Expansion(q),
         \A i \in DOMAIN q : Raises(q[i]) => i > 1 /\ q[i - 1].type = "SRC_LOC",
         NEW i \in DOMAIN todo', Raises(todo'[i])
  PROVE  \/ i > 1 /\ todo'[i - 1].type = "SRC_LOC"
         \/ i = 1 /\ q = <<>> /\ todo[1].type = "SRC_LOC"
         \/ q # <<>> /\ todo[1].type = "SRC_LOC"
<1>1. /\ Len(q) \in Nat /\ Len(todo) \in Nat /\ Len(todo) >= 1 /\ DOMAIN q = 1..Len(q)
      /\ DOMAIN todo = 1..Len(todo) /\ DOMAIN todo' = 1 .. Len(q) + Len(todo) - 1
      /\ \A k \in 1..Len(q) : todo'[k] = q[k]
      /\ \A k \in DOMAIN todo' : k > Len(q) =>
           k - Len(q) + 1 \in 2..Len(todo) /\ todo'[k] = todo[k - Len(q) + 1]
  BY ExpansionFacts
<1>2. i \in Nat /\ i >= 1  BY <1>1
<1>3. CASE i <= Len(q)
  <2>1. i \in 1..Len(q)  BY <1>2, <1>3, <1>1
  <2>2. Raises(q[i])  BY <2>1, <1>1
  <2>3. i > 1 /\ q[i - 1].type = "SRC_LOC"  BY <2>1, <2>2, <1>1
  <2>4. i - 1 \in 1..Len(q)  BY <2>1, <2>3, <1>1
  <2> QED  BY <2>3, <2>4, <1>1
<1>4. CASE i > Len(q)
  <2> DEFINE p == i - Len(q) + 1
  <2>1. p \in 2..Len(todo) /\ todo'[i] = todo[p]  BY <1>1, <1>4
  <2>2. p \in DOMAIN todo /\ p # 1  BY <2>1, <1>1
  <2>3. todo[p - 1].type = "SRC_LOC"
    <3> HIDE DEF p
    <3> QED  BY <2>1, <2>2 DEF Locations
  <2>4. CASE p = 2
    <3>3. p - 1 = 1 /\ i = Len(q) + 1  BY <2>4, <1>1, <1>2
    <3>1. todo[1].type = "SRC_LOC" /\ i = Len(q) + 1
      <4> HIDE DEF p
      <4> QED  BY <2>3, <3>3
    <3>2. q = <<>> => i = 1  BY <3>1
    <3> QED  BY <3>1, <3>2
  <2>5. CASE p # 2
    <3>1. i - 1 \in DOMAIN todo' /\ i - 1 > Len(q) /\ (i - 1) - Len(q) + 1 = p - 1
      BY <2>1, <2>5, <1>1, <1>2, <1>4
    <3>2. todo'[i - 1] = todo[p - 1]  BY <3>1, <1>1
    <3>3. i > 1  BY <3>1, <1>1, <1>2
    <3> QED  BY <3>2, <3>3, <2>3
  <2> QED  BY <2>4, <2>5
<1> QED  BY <1>1, <1>2, <1>3, <1>4

(* The tail is what the empty sequence and the tail are.                    *)
LEMMA EmptyExpansion ==
  ASSUME Positions, todo # <<>>
  PROVE  <<>> \o Tail(todo) = Tail(todo) /\ <<>> \in Seq(Items) /\ Parted(<<>>)
<1>1. todo \in Seq(Items)  BY DEF Positions
<1>2. Tail(todo) \in Seq(Items)  BY <1>1, TailFacts
<1>3. <<>> \o Tail(todo) = Tail(todo)  BY <1>2, ConcatEmptySeq
<1> QED  BY <1>3 DEF Parted

(* emitSrcLoc.                                                              *)
LEMMA EmitSrcLocInvariant ==
  ASSUME Invariant, EmitSrcLoc
  PROVE  Invariant'
<1>1. /\ module = Building /\ todo # <<>> /\ todo[1].type = "SRC_LOC"
      /\ Positions /\ Locations
  BY DEF EmitSrcLoc, Doing, Current, Invariant
<1>2. Parted(<<>>) /\ Expansion(<<>>)
  <2>1. todo' = <<>> \o Tail(todo)  BY <1>1, EmptyExpansion DEF EmitSrcLoc, Emitting
  <2> QED  BY <2>1, <1>1, EmptyExpansion DEF EmitSrcLoc, Emitting, Expansion
<1>3. Positions' /\ NamesFollow' /\ Layout' /\ Bytes' /\ References' /\ Outcome' /\ CodeDue'
  BY <1>2, ExpansionKept
<1>4. LabelMaps' /\ Definitions' /\ Due' /\ (NamesDistinct' => Once')
  <2>1. placed' = placed /\ labelDefs' = labelDefs  BY DEF EmitSrcLoc
  <2>2. \A l : ~Puts(todo[1], l)  BY <1>1 DEF Puts
  <2>3. ~ \E i \in 1..Len(<<>>) : TRUE  OBVIOUS
  <2>4. \A l : Puts(todo[1], l) <=> \E i \in 1..Len(<<>>) : Puts(<<>>[i], l)
    BY <2>2, <2>3
  <2>5. \A l : \A i, j \in 1..Len(<<>>) : Puts(<<>>[i], l) /\ Puts(<<>>[j], l) => i = j
    BY <2>3
  <2> QED  BY <2>1, <2>4, <2>5, <1>2, SameLabels
<1>5. Locations'
  <2> DEFINE loc == [index |-> Address, location |-> todo[1].at]
             n == Len(srcLoc)
             S == [index : 0..Address, location : Nat]
  <2>1. bytecode' = bytecode /\ emitted' = emitted  BY DEF EmitSrcLoc
  <2>2. Address \in Nat  BY DEF Address, Invariant, Bytes
  <2>3. loc \in S
    <3>1. todo[1] \in Items  BY <1>1 DEF Positions
    <3>2. todo[1].at \in Nat  BY <3>1, <1>1, ItemKinds
    <3> QED  BY <3>2, <2>2
  <2>4. srcLoc \in Seq(S)  BY <1>1 DEF Locations
  <2>5. srcLoc' = Append(srcLoc, loc)  BY DEF EmitSrcLoc, Current
  <2>6. loc.index = Address  OBVIOUS
  <2>7. \A s \in S : s.index \in Nat /\ s.index <= Address  BY <2>2
  <2> HIDE DEF loc, S
  <2>8. /\ srcLoc' \in Seq(S) /\ n \in Nat /\ DOMAIN srcLoc = 1..n /\ DOMAIN srcLoc' = 1..n + 1
        /\ srcLoc'[n + 1] = loc
        /\ \A k \in 1..n : srcLoc'[k] = srcLoc[k] /\ srcLoc[k] \in S
    BY <2>3, <2>4, <2>5
  <2> HIDE DEF n
  <2>9. \A j, k \in DOMAIN srcLoc' : j < k => srcLoc'[j].index <= srcLoc'[k].index
    <3> TAKE j, k \in DOMAIN srcLoc'
    <3> HAVE j < k
    <3>1. j \in 1..n /\ srcLoc'[j] = srcLoc[j] /\ srcLoc[j] \in S  BY <2>8
    <3>2. CASE k = n + 1  BY <3>1, <3>2, <2>6, <2>7, <2>8
    <3>3. CASE k \in 1..n  BY <3>1, <3>3, <2>8, <1>1 DEF Locations
    <3> QED  BY <3>2, <3>3, <2>8
  <2>10. ASSUME NEW i \in DOMAIN emitted', emitted'[i].op \in Raising
         PROVE  \E k \in DOMAIN srcLoc' : srcLoc'[k].index = emitted'[i].address
    <3>1. PICK k \in DOMAIN srcLoc : srcLoc[k].index = emitted[i].address
      BY <2>1, <2>10, <1>1 DEF Locations
    <3> QED  BY <3>1, <2>1, <2>8
  <2>11. ASSUME NEW i \in DOMAIN todo', Raises(todo'[i])
         PROVE  IF i = 1 THEN \E k \in DOMAIN srcLoc' : srcLoc'[k].index = Address
                ELSE todo'[i - 1].type = "SRC_LOC"
    <3>1. <<>> \in Seq(Items) /\ DOMAIN <<>> = {}  OBVIOUS
    <3>2. \A k \in DOMAIN <<>> : Raises(<<>>[k]) => k > 1 /\ <<>>[k - 1].type = "SRC_LOC"
      BY <3>1
    <3>3. \/ i > 1 /\ todo'[i - 1].type = "SRC_LOC"
          \/ i = 1
      BY <3>1, <3>2, <1>1, <1>2, <2>11, ExpansionRaises
    <3>4. n + 1 \in DOMAIN srcLoc' /\ srcLoc'[n + 1].index = Address  BY <2>6, <2>8
    <3> QED  BY <3>3, <3>4
  <2>12. srcLoc' \in Seq([index : 0..Address', location : Nat])
    <3>1. Address' = Address  BY <2>1 DEF Address
    <3> QED  BY <3>1, <2>8 DEF S
  <2>13. Address' = Address  BY <2>1 DEF Address
  <2> QED  BY <2>9, <2>10, <2>11, <2>12, <2>13 DEF Locations, Raises
<1> QED  BY <1>3, <1>4, <1>5 DEF Invariant

(* Where locations are not touched, they still are where they were needed.  *)
LEMMA SameLocations ==
  ASSUME Invariant, NEW q, Parted(q), Expansion(q), srcLoc' = srcLoc, todo[1].type # "SRC_LOC",
         \A i \in DOMAIN q : Raises(q[i]) => i > 1 /\ q[i - 1].type = "SRC_LOC"
  PROVE  Locations'
<1>1. bytecode' = bytecode /\ emitted' = emitted  BY DEF Expansion
<1>2. \A i \in DOMAIN todo' : Raises(todo'[i]) => i > 1 /\ todo'[i - 1].type = "SRC_LOC"
  BY ExpansionRaises DEF Invariant, Parted
<1>3. Address' = Address  BY <1>1 DEF Address
<1>4. \A i \in DOMAIN todo' : Raises(todo'[i]) =>
        IF i = 1 THEN \E k \in DOMAIN srcLoc' : srcLoc'[k].index = Address
        ELSE todo'[i - 1].type = "SRC_LOC"
  BY <1>2
<1> QED  BY <1>1, <1>3, <1>4 DEF Invariant, Locations, Raises

(* emitLabel.                                                               *)
LEMMA EmitLabelInvariant ==
  ASSUME Invariant, EmitLabel
  PROVE  Invariant'
<1> DEFINE l0 == todo[1].label
<1>1. /\ module = Building /\ todo # <<>> /\ todo[1].type = "DEFINE"
      /\ Positions /\ todo[1] \in Items
  BY DEF EmitLabel, Doing, Current, Invariant, Positions
<1>2. l0 \in Targets /\ l0 \in 0..nextLabel - 1 /\ nextLabel \in Nat
  BY <1>1, ItemKinds, LabelTypes
<1>3. Parted(<<>>) /\ Expansion(<<>>)
  <2>1. todo' = <<>> \o Tail(todo)  BY <1>1, EmptyExpansion DEF EmitLabel, Emitting
  <2> QED  BY <2>1, <1>1, EmptyExpansion DEF EmitLabel, Emitting, Expansion
<1>4. /\ labelDefs' = putMapUint32(labelDefs, l0, Address)
      /\ placed' = placed \cup {<<l0, Address>>} /\ srcLoc' = srcLoc
  BY DEF EmitLabel, Current
<1>5. /\ labels' = labels /\ globalFuncs' = globalFuncs /\ tree' = tree /\ begun' = begun
      /\ labelRefs' = labelRefs /\ nextLabel' = nextLabel /\ bytecode' = bytecode
      /\ Targets' = Targets
  BY <1>3 DEF Expansion, Targets
<1>6. Address \in Nat /\ Address' = Address  BY <1>5 DEF Address, Invariant, Bytes
<1>7. \A l : Puts(todo[1], l) <=> l = l0  BY <1>1 DEF Puts
<1>8. Placed' = Placed \cup {l0}
  <2> DEFINE new == <<l0, Address>>
  <2>1. new[1] = l0 /\ placed' = placed \cup {new}  BY <1>4
  <2> HIDE DEF new
  <2>2. \A x : x \in Placed' <=> x \in Placed \/ x = l0  BY <2>1 DEF Placed
  <2> QED  BY <2>2
<1>9. /\ Len(todo) \in Nat /\ Len(todo) >= 1 /\ DOMAIN todo = 1..Len(todo)
      /\ DOMAIN todo' = 1 .. Len(todo) - 1
  <2>1. <<>> \in Seq(Items) /\ Len(<<>>) = 0  BY <1>1, EmptyExpansion
  <2>2. /\ Len(todo) \in Nat /\ Len(todo) >= 1 /\ DOMAIN todo = 1..Len(todo)
        /\ DOMAIN todo' = 1 .. Len(<<>>) + Len(todo) - 1
    BY <2>1, <1>1, <1>3, ExpansionFacts
  <2> QED  BY <2>1, <2>2
<1>10. /\ \A i \in DOMAIN todo' : \A l : PutsNext(todo'[i], l) <=> Puts(todo[i + 1], l)
       /\ \A l : (\E i \in DOMAIN todo' : PutsNext(todo'[i], l))
                   <=> \E i \in 2..Len(todo) : Puts(todo[i], l)
  <2>1. <<>> \in Seq(Items) /\ Len(<<>>) = 0 /\ ~ \E i \in 1..Len(<<>>) : TRUE
    BY <1>1, EmptyExpansion
  <2>2. /\ \A i \in DOMAIN todo' : i > Len(<<>>) =>
             \A l : PutsNext(todo'[i], l) <=> Puts(todo[i - Len(<<>>) + 1], l)
        /\ \A l : (\E i \in DOMAIN todo' : PutsNext(todo'[i], l))
                    <=> \/ \E i \in 1..Len(<<>>) : Puts(<<>>[i], l)
                        \/ \E i \in 2..Len(todo) : Puts(todo[i], l)
    BY <2>1, <1>1, <1>3, ExpansionPuts
  <2>3. \A i \in DOMAIN todo' : i > Len(<<>>) /\ i - Len(<<>>) + 1 = i + 1  BY <2>1, <1>9
  <2> QED  BY <2>1, <2>2, <2>3
<1> HIDE DEF l0
<1>11. Positions' /\ NamesFollow' /\ Layout' /\ Bytes' /\ References' /\ Outcome' /\ CodeDue'
  BY <1>3, ExpansionKept
<1>12. /\ DOMAIN labelDefs' = DOMAIN labelDefs \cup {Low(l0)}
       /\ \A c \in DOMAIN labelDefs : c # Low(l0) => labelDefs'[c] = labelDefs[c]
       /\ labelDefs'[Low(l0)].value = Address
       /\ labelDefs'[Low(l0)].key
            = IF Low(l0) \in DOMAIN labelDefs THEN labelDefs[Low(l0)].key ELSE l0
  <2>1. labelDefs' = [c \in DOMAIN labelDefs \cup {Low(l0)} |->
                        IF c # Low(l0) THEN labelDefs[c]
                        ELSE [key |-> IF c \in DOMAIN labelDefs THEN labelDefs[c].key ELSE l0,
                              value |-> Address]]
    BY <1>4 DEF putMapUint32
  <2>2. DOMAIN labelDefs' = DOMAIN labelDefs \cup {Low(l0)}  BY <2>1
  <2>3. \A c \in DOMAIN labelDefs : c # Low(l0) => labelDefs'[c] = labelDefs[c]  BY <2>1
  <2>4. labelDefs'[Low(l0)]
          = [key |-> IF Low(l0) \in DOMAIN labelDefs THEN labelDefs[Low(l0)].key ELSE l0,
             value |-> Address]
    BY <2>1
  <2> QED  BY <2>2, <2>3, <2>4
<1>13. LabelMaps'
  <2>1. \A c \in DOMAIN labelDefs' : /\ labelDefs'[c].key \in 0..nextLabel' - 1
                                     /\ Low(labelDefs'[c].key) = c
                                     /\ labelDefs'[c].value \in 0..Address'
    BY <1>2, <1>5, <1>6, <1>12 DEF Invariant, LabelMaps
  <2>2. placed' \subseteq (0..nextLabel' - 1) \X (0..Address')
    <3>1. <<l0, Address>> \in (0..nextLabel - 1) \X (0..Address)  BY <1>2, <1>6
    <3> QED  BY <3>1, <1>4, <1>5, <1>6 DEF Invariant, LabelMaps
  <2>3. \A c \in DOMAIN labelRefs' : /\ labelRefs'[c].key \in 0..nextLabel' - 1
                                     /\ Low(labelRefs'[c].key) = c
                                     /\ labelRefs'[c].value \in Seq(1..Address' - 4)
    BY <1>5, <1>6 DEF Invariant, LabelMaps
  <2> QED  BY <2>1, <2>2, <2>3 DEF LabelMaps, Low, Address
<1>14. Definitions'
  <2>1. SUFFICES ASSUME LabelsFitByte
                 PROVE  /\ Placed' \subseteq DOMAIN labelDefs'
                        /\ \A c \in DOMAIN labelDefs' : <<c, labelDefs'[c].value>> \in placed'
                        /\ DOMAIN labelRefs \subseteq Placed' \cup Targets
    BY <1>5 DEF Definitions, LabelsFitByte
  <2>2. Low(l0) = l0
    <3>1. l0 \in Nat /\ l0 < ByteSize  BY <2>1, <1>2, ByteAssumption DEF LabelsFitByte
    <3> QED  BY <3>1, LowSmall
  <2>3. /\ Placed \subseteq DOMAIN labelDefs
        /\ \A c \in DOMAIN labelDefs : <<c, labelDefs[c].value>> \in placed
        /\ DOMAIN labelRefs \subseteq Placed \cup Targets
    BY <2>1 DEF Invariant, Definitions
  <2> QED  BY <2>2, <2>3, <1>4, <1>8, <1>12
<1>15. ASSUME NEW l PROVE DownNext(l) <=> Down(l)
  <2>1. (\E i \in DOMAIN todo : Puts(todo[i], l))
          <=> l = l0 \/ \E i \in 2..Len(todo) : Puts(todo[i], l)
    <3>1. 1 \in DOMAIN todo /\ \A i \in DOMAIN todo : i = 1 \/ i \in 2..Len(todo)  BY <1>9
    <3>2. \A i \in 2..Len(todo) : i \in DOMAIN todo  BY <1>9
    <3> QED  BY <3>1, <3>2, <1>7
  <2> QED  BY <2>1, <1>8, <1>10 DEF Down, DownNext
<1>16. Due'
  <2>1. /\ \A n \in DOMAIN labels' : DownNext(labels'[n])
        /\ \A f \in 1..begun' : DownNext(globalFuncs'[tree'[f].arg])
    BY <1>5, <1>15 DEF Invariant, Due
  <2> QED  BY <2>1 DEF Due, Down, DownNext, Puts, PutsNext, Placed
<1>17. NamesDistinct' => Once'
  <2>1. NamesDistinct' = NamesDistinct  BY <1>5 DEF NamesDistinct, LabelsIn
  <2> SUFFICES ASSUME NamesDistinct PROVE Once'
    BY <2>1
  <2>2. Once  BY DEF Invariant
  <2>3. 1 \in DOMAIN todo  BY <1>9
  <2>4. l0 \notin Placed /\ \A j \in DOMAIN todo : Puts(todo[j], l0) => j = 1
    BY <2>2, <2>3, <1>2, <1>7 DEF Once
  <2>5. \A p, r \in placed' : p[1] = r[1] => p = r
    <3>1. \A p \in placed : p[1] # l0  BY <2>4 DEF Placed
    <3>2. <<l0, Address>>[1] = l0  OBVIOUS
    <3> QED  BY <3>1, <3>2, <2>2, <1>4 DEF Once
  <2>6. ASSUME NEW i \in DOMAIN todo', NEW j \in DOMAIN todo', NEW l \in Targets',
               PutsNext(todo'[i], l)
        PROVE  l \notin Placed' /\ (PutsNext(todo'[j], l) => i = j)
    <3>1. i + 1 \in DOMAIN todo /\ j + 1 \in DOMAIN todo /\ i + 1 # 1 /\ i \in Nat /\ j \in Nat
      BY <1>9
    <3>2. Puts(todo[i + 1], l) /\ l \in Targets  BY <2>6, <1>5, <1>10
    <3>3. l # l0  BY <3>1, <3>2, <2>4
    <3>4. l \notin Placed /\ (Puts(todo[j + 1], l) => i + 1 = j + 1)
      BY <3>1, <3>2, <2>2 DEF Once
    <3> QED  BY <3>1, <3>3, <3>4, <1>8, <1>10
  <2>7. \A f \in begun' + 1 .. Len(tree') : LET l == globalFuncs'[tree'[f].arg] IN ~DownNext(l)
    BY <2>2, <1>5, <1>15 DEF Once
  <2> QED  BY <2>5, <2>6, <2>7 DEF Once, Down, DownNext, Puts, PutsNext, Placed
<1>18. Locations'
  <2>1. todo[1].type # "SRC_LOC"  BY <1>1
  <2>2. \A i \in DOMAIN <<>> : Raises(<<>>[i]) => i > 1 /\ <<>>[i - 1].type = "SRC_LOC"
    OBVIOUS
  <2> QED  BY <2>1, <2>2, <1>3, <1>4, SameLocations
<1> QED  BY <1>11, <1>13, <1>14, <1>16, <1>17, <1>18 DEF Invariant

(* compileToken.                                                            *)
LEMMA CompileTokenInvariant ==
  ASSUME Invariant, CompileToken
  PROVE  Invariant'
<1> DEFINE token == todo[1]
           q == Parts(token)
<1>1. /\ module = Building /\ todo # <<>> /\ token.type \in TokenTypes
      /\ Positions /\ token \in Items
  BY DEF CompileToken, Current, Invariant, Positions
<1>2. token \in Tokens /\ token.type \notin {"EMIT", "SRC_LOC", "DEFINE", "ARG_NAME"}
  <2>1. {"EMIT", "SRC_LOC", "DEFINE", "ARG_NAME"} \cap TokenTypes = {}  BY DEF TokenTypes, Opcode
  <2> QED  BY <2>1, <1>1, ItemKinds
<1>3. Expansion(q)
  BY <1>1, <1>2 DEF CompileToken, Current, Expansion, builder
<1>4. placed' = placed /\ labelDefs' = labelDefs /\ srcLoc' = srcLoc
  BY DEF CompileToken, builder
<1> HIDE DEF q
<1>5. /\ Parted(q)
      /\ \A l : Puts(token, l) <=> \E i \in 1..Len(q) : Puts(q[i], l)
      /\ \A l : \A i, j \in 1..Len(q) : Puts(q[i], l) /\ Puts(q[j], l) => i = j
      /\ \A i \in DOMAIN q : Raises(q[i]) => i > 1 /\ q[i - 1].type = "SRC_LOC"
  <2>1. CASE token.type # "LABEL"
    <3>1. Quiet(q)  BY <2>1, <1>1, <1>2, PartsQuiet DEF q
    <3>2. \A l : ~Puts(token, l)  BY <2>1, <1>2 DEF Puts
    <3>3. \A i \in 1..Len(q) : \A l : ~Puts(q[i], l)
      <4>1. DOMAIN q = 1..Len(q)  BY <3>1 DEF Quiet
      <4> QED  BY <4>1, <3>1 DEF Quiet, Puts
    <3> QED  BY <3>1, <3>2, <3>3 DEF Quiet, Parted
  <2>2. CASE token.type = "LABEL"
    <3> DEFINE item == Define(labels[token.arg])
    <3>1. q = <<item>>  BY <2>2 DEF q, Parts, Opcode
    <3>2. item.type = "DEFINE" /\ item.label = labels[token.arg] /\ item \in Items
      <4>1. token.arg \in DOMAIN labels  BY <2>2, <1>1, <1>2, CurrentTokens
      <4> QED  BY <4>1 DEF Define, Items, Targets
    <3> HIDE DEF item
    <3>3. q \in Seq(Items) /\ Len(q) = 1 /\ DOMAIN q = {1} /\ q[1] = item  BY <3>1, <3>2
    <3>4. \A l : Puts(token, l) <=> Puts(item, l)  BY <2>2, <3>2 DEF Puts
    <3>5. \A l : Puts(token, l) <=> \E i \in 1..Len(q) : Puts(q[i], l)  BY <3>3, <3>4
    <3> QED  BY <3>2, <3>3, <3>5 DEF Parted, Raises
  <2> QED  BY <2>1, <2>2
<1>6. Positions' /\ NamesFollow' /\ Layout' /\ Bytes' /\ References' /\ Outcome' /\ CodeDue'
  BY <1>3, <1>5, ExpansionKept
<1>7. LabelMaps' /\ Definitions' /\ Due' /\ (NamesDistinct' => Once')
  BY <1>3, <1>4, <1>5, SameLabels
<1>8. Locations'
  BY <1>2, <1>3, <1>4, <1>5, SameLocations
<1> QED  BY <1>6, <1>7, <1>8 DEF Invariant

-----------------------------------------------------------------------------
(* A function is begun.                                                     *)

(* A sequence of S that four sequences make together.                       *)
Joins(w, S, h, s, c, t) ==
  /\ w \in Seq(S) /\ Len(h) \in Nat /\ Len(s) \in Nat /\ Len(c) \in Nat /\ Len(t) \in Nat
  /\ DOMAIN w = 1 .. Len(h) + Len(s) + Len(c) + Len(t)
  /\ \A i \in 1..Len(h) : w[i] = h[i]
  /\ \A i \in 1..Len(s) : w[Len(h) + i] = s[i]
  /\ \A i \in 1..Len(c) : w[Len(h) + Len(s) + i] = c[i]
  /\ \A i \in 1..Len(t) : w[Len(h) + Len(s) + Len(c) + i] = t[i]

(* Four sequences put together are joined so.                               *)
LEMMA FourConcat ==
  ASSUME NEW S, NEW h \in Seq(S), NEW s \in Seq(S), NEW c \in Seq(S), NEW t \in Seq(S)
  PROVE  Joins(h \o s \o c \o t, S, h, s, c, t)
<1> DEFINE u == h \o s
           v == u \o c
           w == v \o t
<1>1. Len(h) \in Nat /\ Len(s) \in Nat /\ Len(c) \in Nat /\ Len(t) \in Nat  OBVIOUS
<1>2. /\ u \in Seq(S) /\ Len(u) = Len(h) + Len(s)
      /\ \A i \in 1..Len(h) : u[i] = h[i]
      /\ \A i \in 1..Len(s) : u[Len(h) + i] = s[i]
  BY ConcatLength
<1> HIDE DEF u
<1>3. /\ v \in Seq(S) /\ Len(v) = Len(u) + Len(c)
      /\ \A i \in 1..Len(u) : v[i] = u[i]
      /\ \A i \in 1..Len(c) : v[Len(u) + i] = c[i]
  <2>1. u \in Seq(S)  BY <1>2
  <2> QED  BY <2>1, ConcatLength
<1> HIDE DEF v
<1>4. /\ w \in Seq(S) /\ Len(w) = Len(v) + Len(t)
      /\ \A i \in 1..Len(v) : w[i] = v[i]
      /\ \A i \in 1..Len(t) : w[Len(v) + i] = t[i]
  <2>1. v \in Seq(S)  BY <1>3
  <2> QED  BY <2>1, ConcatLength
<1> HIDE DEF w
<1>5. Len(u) = Len(h) + Len(s) /\ Len(v) = Len(h) + Len(s) + Len(c)
      /\ Len(w) = Len(h) + Len(s) + Len(c) + Len(t)
  BY <1>1, <1>2, <1>3, <1>4
<1>6. DOMAIN w = 1 .. Len(h) + Len(s) + Len(c) + Len(t)  BY <1>4, <1>5
<1>7. \A i \in 1..Len(h) : w[i] = h[i]
  <2> TAKE i \in 1..Len(h)
  <2>1. i \in 1..Len(u) /\ i \in 1..Len(v)  BY <1>1, <1>5
  <2> QED  BY <2>1, <1>2, <1>3, <1>4
<1>8. \A i \in 1..Len(s) : w[Len(h) + i] = s[i]
  <2> TAKE i \in 1..Len(s)
  <2>1. Len(h) + i \in 1..Len(u) /\ Len(h) + i \in 1..Len(v)  BY <1>1, <1>5
  <2> QED  BY <2>1, <1>2, <1>3, <1>4
<1>9. \A i \in 1..Len(c) : w[Len(h) + Len(s) + i] = c[i]
  <2> TAKE i \in 1..Len(c)
  <2>1. Len(u) + i \in 1..Len(v) /\ Len(u) + i = Len(h) + Len(s) + i  BY <1>1, <1>5
  <2>2. w[Len(u) + i] = c[i]  BY <2>1, <1>3, <1>4
  <2> QED  BY <2>1, <2>2
<1>10. \A i \in 1..Len(t) : w[Len(h) + Len(s) + Len(c) + i] = t[i]
  BY <1>4, <1>5
<1>11. Joins(w, S, h, s, c, t)  BY <1>1, <1>4, <1>6, <1>7, <1>8, <1>9, <1>10 DEF Joins
<1> QED  BY <1>11 DEF w, v, u

(* The constructor of a function and the names of its arguments.            *)
LEMMA SignatureIs ==
  ASSUME NEW func, func.params \in Seq(Strings), func.arg # "$init"
  PROVE  LET s == Signature(func)
             count == Low(Len(func.params))
         IN /\ count \in Nat /\ count <= Len(func.params)
            /\ Len(s) = 1 + count /\ DOMAIN s = 1 .. 1 + count
            /\ s[1] = Emit("DEF_FUNC", func.params)
            /\ \A k \in 1..count : s[1 + k] = ArgName(func.params[k])
            /\ s \in Seq([type : {"EMIT"}, op : {"DEF_FUNC"}, arg : Seq(Strings)]
                           \cup [type : {"ARG_NAME"}, name : Strings])
<1> DEFINE count == Low(Len(func.params))
           head == <<Emit("DEF_FUNC", func.params)>>
           names == [i \in 1..count |-> ArgName(func.params[i])]
           S == [type : {"EMIT"}, op : {"DEF_FUNC"}, arg : Seq(Strings)]
                  \cup [type : {"ARG_NAME"}, name : Strings]
<1>1. count \in Nat /\ count <= Len(func.params) /\ Len(func.params) \in Nat
  <2>1. Len(func.params) \in Nat  OBVIOUS
  <2>2. /\ count \in Nat /\ Shifted(Len(func.params)) \in Nat
        /\ Len(func.params) = ByteSize * Shifted(Len(func.params)) + count
    BY <2>1, LowShifted
  <2>3. ByteSize * Shifted(Len(func.params)) \in Nat  BY <2>2, ByteWord
  <2> HIDE DEF count
  <2> QED  BY <2>1, <2>2, <2>3
<1>2. Signature(func) = head \o names  BY DEF Signature
<1>3. \A i \in 1..count : func.params[i] \in Strings
  <2> HIDE DEF count
  <2>1. \A i \in 1..count : i \in 1..Len(func.params)  BY <1>1
  <2> QED  BY <2>1
<1>4. head \in Seq(S) /\ Len(head) = 1 /\ head[1] = Emit("DEF_FUNC", func.params)
  <2>1. Emit("DEF_FUNC", func.params) \in S  BY DEF Emit
  <2> HIDE DEF S
  <2> QED  BY <2>1
<1>5. names \in Seq(S) /\ Len(names) = count
      /\ \A i \in 1..count : names[i] = ArgName(func.params[i])
  <2>1. \A i \in 1..count : ArgName(func.params[i]) \in S  BY <1>3 DEF ArgName
  <2> HIDE DEF S, count
  <2> QED  BY <2>1, <1>1
<1> HIDE DEF head, names, S, count
<1>6. /\ Len(head \o names) = 1 + count /\ head \o names \in Seq(S)
      /\ (head \o names)[1] = Emit("DEF_FUNC", func.params)
      /\ \A k \in 1..count : (head \o names)[1 + k] = ArgName(func.params[k])
  <2>1. /\ Len(head \o names) = Len(head) + Len(names) /\ head \o names \in Seq(S)
        /\ \A i \in 1..Len(head) : (head \o names)[i] = head[i]
        /\ \A i \in 1..Len(names) : (head \o names)[Len(head) + i] = names[i]
    <3>1. head \in Seq(S) /\ names \in Seq(S)  BY <1>4, <1>5
    <3> QED  BY <3>1, ConcatLength
  <2> QED  BY <2>1, <1>4, <1>5
<1>7. DOMAIN (head \o names) = 1 .. 1 + count  BY <1>6, <1>1
<1> QED  BY <1>1, <1>2, <1>6, <1>7 DEF S, count

(* A function is begun, with a items of its signature and b statements.     *)
Begins(func, a, b) ==
  /\ CompileFunc /\ func = tree[begun + 1]
  /\ a = Len(Signature(func)) /\ b = Len(func.children)

(* The labels of the function begun are new ones.                           *)
LEMMA NewLabels ==
  ASSUME Positions, NEW func, NEW a, NEW b, Begins(func, a, b)
  PROVE  /\ begun' = begun + 1 /\ begun \in Nat /\ begun + 1 \in DOMAIN tree
         /\ begun' \in 1..Len(tree) /\ Tokens' = Subtrees(func)
         /\ tree' = tree /\ globalFuncs' = globalFuncs
         /\ func.arg \in DOMAIN globalFuncs
         /\ func.params \in Seq(Strings) /\ func.at \in Nat
         /\ func.children \in Seq(Subtrees(func)) /\ LabelsIn(func) \in SUBSET (1..Len(func.children))
         /\ labels' = Numbered(func.children, LabelsIn(func), nextLabel)
         /\ DOMAIN labels' = {func.children[i].arg : i \in LabelsIn(func)}
         /\ nextLabel' \in Nat /\ nextLabel <= nextLabel' /\ nextLabel \in Nat
         /\ \A n \in DOMAIN labels' : labels'[n] \in nextLabel .. nextLabel' - 1
<1>1. /\ begun' = begun + 1 /\ begun < Len(tree) /\ tree' = tree /\ globalFuncs' = globalFuncs
      /\ labels' = Numbered(func.children, LabelsIn(func), nextLabel)
      /\ nextLabel' = nextLabel + Cardinality(LabelsIn(func))
  BY DEF CompileFunc, Begins
<1>2. tree \in Trees /\ begun \in 0..Len(tree) /\ nextLabel \in Nat  BY DEF Positions
<1>3. Len(tree) \in Nat /\ DOMAIN tree = 1..Len(tree)
      /\ DOMAIN globalFuncs = {tree[i].arg : i \in DOMAIN tree}
  BY LabelTypes
<1>4. begun \in Nat /\ begun + 1 \in DOMAIN tree /\ begun' \in 1..Len(tree) /\ begun' # 0
  BY <1>1, <1>2, <1>3
<1>13. func = tree[begun + 1]  BY DEF Begins
<1>5. /\ func.params \in Seq(Strings) /\ func.at \in Nat /\ func.children \in Seq(Subtrees(func))
      /\ LabelsIn(func) \in SUBSET (1..Len(func.children))
  BY <1>2, <1>4, <1>13, FuncFacts
<1>6. Tokens' = Subtrees(func)
  <2>1. Tokens' = Subtrees(tree'[begun'])  BY <1>4 DEF Tokens
  <2> QED  BY <2>1, <1>1, <1>13
<1>7. func.arg \in DOMAIN globalFuncs  BY <1>3, <1>4, <1>13
<1>8. DOMAIN labels' = {func.children[i].arg : i \in LabelsIn(func)}  BY <1>1, NumberedIs
<1>9. Len(func.children) \in Nat  BY <1>5
<1>10. /\ Cardinality(LabelsIn(func)) \in Nat
       /\ \A n \in DOMAIN labels' :
            labels'[n] \in nextLabel .. nextLabel + Cardinality(LabelsIn(func)) - 1
  BY <1>1, <1>2, <1>5, <1>9, NumberedType
<1>11. nextLabel' \in Nat /\ nextLabel <= nextLabel'  BY <1>1, <1>2, <1>10
<1>12. \A n \in DOMAIN labels' : labels'[n] \in nextLabel .. nextLabel' - 1
  <2> DEFINE k == Cardinality(LabelsIn(func))
  <2>1. nextLabel' = nextLabel + k /\ \A n \in DOMAIN labels' : labels'[n] \in nextLabel .. nextLabel + k - 1
    BY <1>1, <1>10
  <2>2. k \in Nat /\ nextLabel \in Nat  BY <1>2, <1>10
  <2> HIDE DEF k
  <2>3. nextLabel + k - 1 = nextLabel' - 1  BY <2>1, <2>2
  <2> QED  BY <2>1, <2>3
<1> QED  BY <1>1, <1>2, <1>4, <1>5, <1>6, <1>7, <1>8, <1>11, <1>12

(* What it is compiled to.                                                  *)
LEMMA NewItems ==
  ASSUME Positions, NEW func, NEW a, NEW b, Begins(func, a, b)
  PROVE  /\ a \in Nat /\ b \in Nat /\ DOMAIN todo' = 1 .. a + b + 4 /\ todo' \in Seq(Items')
         /\ todo'[1] = Define(globalFuncs[func.arg]) /\ todo'[2] = Locate(func)
         /\ \A i \in 1..a : todo'[2 + i] = Signature(func)[i]
         /\ \A i \in 1..b : todo'[2 + a + i] = func.children[i]
         /\ todo'[3 + a + b] = Emit("PUSH_NONE", 0)
         /\ todo'[4 + a + b] = Emit("RETURN", 0)
<1> DEFINE S == Items'
           h == <<Define(globalFuncs[func.arg]), Locate(func)>>
           s == Signature(func)
           c == func.children
           t == <<Emit("PUSH_NONE", 0), Emit("RETURN", 0)>>
<1>1. /\ Tokens' = Subtrees(func) /\ globalFuncs' = globalFuncs
      /\ func.arg \in DOMAIN globalFuncs
      /\ func.params \in Seq(Strings) /\ func.at \in Nat
      /\ func.children \in Seq(Subtrees(func))
  BY NewLabels
<1>2. todo' = h \o s \o c \o t  BY DEF CompileFunc, FuncParts, Begins
<1>3. /\ Tokens' \subseteq S
      /\ \A x : x \in [type : {"SRC_LOC"}, at : Nat] => x \in S
      /\ \A x : x \in [type : {"DEFINE"}, label : Targets'] => x \in S
      /\ \A x : x \in [type : {"ARG_NAME"}, name : Strings] => x \in S
      /\ \A x : x \in [type : {"EMIT"}, op : PlainOps, arg : {0}] => x \in S
      /\ \A x : x \in [type : {"EMIT"}, op : {"DEF_FUNC"}, arg : Seq(Strings)] => x \in S
  BY DEF Items, Emits, PlainOps
<1> HIDE DEF S
<1>4. h \in Seq(S) /\ Len(h) = 2
      /\ h[1] = Define(globalFuncs[func.arg]) /\ h[2] = Locate(func)
  <2>1. Define(globalFuncs[func.arg]) \in S
    <3>1. globalFuncs[func.arg] \in Targets'  BY <1>1 DEF Targets
    <3> QED  BY <3>1, <1>3 DEF Define
  <2>2. Locate(func) \in S  BY <1>1, <1>3 DEF Locate
  <2> QED  BY <2>1, <2>2
<1>5. s \in Seq(S)
  <2>1. CASE func.arg = "$init"
    <3>1. s = <<>>  BY <2>1 DEF Signature
    <3> QED  BY <3>1
  <2>2. CASE func.arg # "$init"
    <3> DEFINE T == [type : {"EMIT"}, op : {"DEF_FUNC"}, arg : Seq(Strings)]
                      \cup [type : {"ARG_NAME"}, name : Strings]
    <3>1. s \in Seq(T)  BY <2>2, <1>1, SignatureIs
    <3>2. T \subseteq S  BY <1>3
    <3> HIDE DEF T, s
    <3> QED  BY <3>1, <3>2, SeqMonotonic
  <2> QED  BY <2>1, <2>2
<1>6. c \in Seq(S)
  <2>1. c \in Seq(Tokens')  BY <1>1
  <2> HIDE DEF c
  <2> QED  BY <2>1, <1>3, SeqMonotonic
<1>7. t \in Seq(S) /\ Len(t) = 2 /\ t[1] = Emit("PUSH_NONE", 0) /\ t[2] = Emit("RETURN", 0)
  <2>1. Emit("PUSH_NONE", 0) \in [type : {"EMIT"}, op : PlainOps, arg : {0}]
        /\ Emit("RETURN", 0) \in [type : {"EMIT"}, op : PlainOps, arg : {0}]
    BY DEF Emit, PlainOps
  <2>2. Emit("PUSH_NONE", 0) \in S /\ Emit("RETURN", 0) \in S  BY <2>1, <1>3
  <2> QED  BY <2>2
<1>8. a = Len(s) /\ b = Len(c)  BY DEF Begins
<1> HIDE DEF h, s, c, t
<1>9. Joins(todo', S, h, s, c, t)
  <2>1. h \in Seq(S) /\ s \in Seq(S) /\ c \in Seq(S) /\ t \in Seq(S)
    BY <1>4, <1>5, <1>6, <1>7
  <2>2. Joins(h \o s \o c \o t, S, h, s, c, t)  BY <2>1, FourConcat
  <2> QED  BY <2>2, <1>2
<1>10. /\ todo' \in Seq(S) /\ DOMAIN todo' = 1 .. 2 + a + b + 2
       /\ \A i \in 1..2 : todo'[i] = h[i]
       /\ \A i \in 1..a : todo'[2 + i] = s[i]
       /\ \A i \in 1..b : todo'[2 + a + i] = c[i]
       /\ \A i \in 1..2 : todo'[2 + a + b + i] = t[i]
  BY <1>4, <1>7, <1>8, <1>9 DEF Joins
<1>11. a \in Nat /\ b \in Nat  BY <1>8, <1>9 DEF Joins
<1>15. 1 \in 1..2 /\ 2 \in 1..2  OBVIOUS
<1>12. todo'[2 + a + b + 1] = t[1] /\ todo'[2 + a + b + 2] = t[2]  BY <1>10, <1>15
<1>13. 2 + a + b + 1 = 3 + a + b /\ 2 + a + b + 2 = 4 + a + b /\ 2 + a + b + 2 = a + b + 4
  <2>1. \A x, y \in Nat : 2 + x + y + 1 = 3 + x + y /\ 2 + x + y + 2 = 4 + x + y
                         /\ 2 + x + y + 2 = x + y + 4
    OBVIOUS
  <2> QED  BY <2>1, <1>11
<1>14. todo'[1] = h[1] /\ todo'[2] = h[2]  BY <1>10, <1>15
<1> QED
  BY <1>4, <1>7, <1>10, <1>11, <1>12, <1>13, <1>14 DEF s, c, S

(* What there is among them: labels, locations, a constructor and the names *)
(* of its arguments, tokens, and two instructions.                          *)
LEMMA NewKinds ==
  ASSUME Positions, NEW func, NEW a, NEW b, Begins(func, a, b),
         NEW i \in DOMAIN todo'
  PROVE  \/ i = 1 /\ todo'[i].type = "DEFINE" /\ todo'[i].label = globalFuncs[func.arg]
         \/ i = 2 /\ todo'[i].type = "SRC_LOC"
         \/ i = 3 /\ todo'[i].type = "EMIT" /\ todo'[i].op = "DEF_FUNC"
              /\ todo'[i].arg = func.params /\ func.arg # "$init"
         \/ todo'[i].type = "ARG_NAME"
         \/ \E k \in 1..b : i = 2 + a + k /\ todo'[i] = func.children[k]
                            /\ todo'[i] \in Tokens' /\ todo'[i].type \in TokenTypes
         \/ i \in {3 + a + b, 4 + a + b} /\ todo'[i].type = "EMIT"
              /\ todo'[i].op \in {"PUSH_NONE", "RETURN"}
<1>1. /\ a \in Nat /\ b \in Nat /\ DOMAIN todo' = 1 .. a + b + 4
      /\ todo'[1] = Define(globalFuncs[func.arg]) /\ todo'[2] = Locate(func)
      /\ \A j \in 1..a : todo'[2 + j] = Signature(func)[j]
      /\ \A j \in 1..b : todo'[2 + a + j] = func.children[j]
      /\ todo'[3 + a + b] = Emit("PUSH_NONE", 0)
      /\ todo'[4 + a + b] = Emit("RETURN", 0)
  BY SMTT(30), NewItems
<1>2. i \in Nat /\ i >= 1 /\ i <= a + b + 4  BY <1>1
<1>3. CASE i = 1  BY <1>1, <1>3 DEF Define
<1>4. CASE i = 2  BY <1>1, <1>4 DEF Locate
<1>5. CASE i > 2 /\ i <= 2 + a
  <2> DEFINE j == i - 2
  <2>1. j \in 1..a /\ 2 + j = i  BY <1>1, <1>2, <1>5
  <2>2. todo'[i] = Signature(func)[j]
    <3> HIDE DEF j
    <3>1. todo'[2 + j] = Signature(func)[j]  BY <2>1, <1>1
    <3> QED  BY <3>1, <2>1
  <2>3. func.arg # "$init"
    <3>1. ASSUME func.arg = "$init" PROVE FALSE
      <4>1. Signature(func) = <<>>  BY <3>1 DEF Signature
      <4>2. a = 0  BY <4>1 DEF Begins
      <4> QED  BY <4>2, <1>5, <1>2
    <3> QED  BY <3>1
  <2> DEFINE count == Low(Len(func.params))
             s == Signature(func)
  <2>4. /\ count \in Nat /\ Len(s) = 1 + count
        /\ s[1] = Emit("DEF_FUNC", func.params)
        /\ \A k \in 1..count : s[1 + k] = ArgName(func.params[k])
    <3>1. func.params \in Seq(Strings)  BY NewLabels
    <3> QED  BY <3>1, <2>3, SignatureIs
  <2>5. a = 1 + count  BY <2>4 DEF Begins
  <2> HIDE DEF count, s
  <2>6. CASE j = 1
    <3>1. todo'[i] = Emit("DEF_FUNC", func.params)  BY <2>2, <2>4, <2>6 DEF s
    <3>2. i = 3  BY <2>1, <2>6
    <3> QED  BY <3>1, <3>2, <2>3 DEF Emit
  <2>7. CASE j # 1
    <3> DEFINE k == j - 1
    <3>1. k \in 1..count /\ 1 + k = j
      <4> HIDE DEF j
      <4> QED  BY <2>1, <2>4, <2>5, <2>7
    <3> HIDE DEF j, k
    <3>2. s[1 + k] = ArgName(func.params[k])  BY <3>1, <2>4
    <3>3. todo'[i] = ArgName(func.params[k])  BY <3>1, <3>2, <2>2 DEF s
    <3> QED  BY <3>3 DEF ArgName
  <2> QED  BY <2>6, <2>7
<1>6. CASE i > 2 + a /\ i <= 2 + a + b
  <2> DEFINE k == i - (2 + a)
  <2>1. k \in 1..b /\ 2 + a + k = i  BY <1>1, <1>2, <1>6
  <2> HIDE DEF k
  <2>2. todo'[i] = func.children[k]
    <3>1. todo'[2 + a + k] = func.children[k]  BY <2>1, <1>1
    <3> QED  BY <3>1, <2>1
  <2>3. func.children[k] \in Tokens'
    <3>1. func.children \in Seq(Subtrees(func)) /\ Tokens' = Subtrees(func)  BY NewLabels
    <3> QED  BY <3>1, <2>1 DEF Begins
  <2>4. func.children[k].type \in TokenTypes
    <3>1. tree \in Trees /\ begun + 1 \in DOMAIN tree /\ Tokens' = Subtrees(tree[begun + 1])
      BY NewLabels DEF Positions, Begins
    <3> QED  BY <3>1, <2>3, TokenFacts
  <2> QED  BY <2>1, <2>2, <2>3, <2>4
<1>7. CASE i > 2 + a + b
  <2>1. i = 3 + a + b \/ i = 4 + a + b  BY <1>1, <1>2, <1>7
  <2> QED  BY <2>1, <1>1 DEF Emit
<1> QED  BY <1>1, <1>2, <1>3, <1>4, <1>5, <1>6, <1>7

(* Nothing among them may raise an error.                                   *)
LEMMA NewQuiet ==
  ASSUME Positions, CompileFunc, NEW i \in DOMAIN todo'
  PROVE  ~Raises(todo'[i])
<1> DEFINE func == tree[begun + 1]
           a == Len(Signature(func))
           b == Len(func.children)
<1>1. \/ todo'[i].type \in {"DEFINE", "SRC_LOC", "ARG_NAME"}
      \/ todo'[i].type = "EMIT" /\ todo'[i].op \in {"DEF_FUNC", "PUSH_NONE", "RETURN"}
      \/ todo'[i].type \in TokenTypes
  <2>1. Begins(func, a, b)  BY DEF Begins
  <2> HIDE DEF func, a, b
  <2> QED  BY <2>1, NewKinds
<1>2. "EMIT" \notin TokenTypes  BY DEF TokenTypes, Opcode
<1> QED  BY <1>1, <1>2 DEF Raises, Raising

(* The labels they put down.                                                *)
LEMMA NewPuts ==
  ASSUME Positions, NEW func, NEW a, NEW b, Begins(func, a, b)
  PROVE  /\ \A i \in DOMAIN todo' : \A l : PutsNext(todo'[i], l) =>
              \/ i = 1 /\ l = globalFuncs[func.arg]
              \/ \E k \in LabelsIn(func) : i = 2 + a + k /\ l = labels'[func.children[k].arg]
         /\ 1 \in DOMAIN todo' /\ PutsNext(todo'[1], globalFuncs[func.arg])
         /\ \A k \in LabelsIn(func) : /\ 2 + a + k \in DOMAIN todo'
                                      /\ PutsNext(todo'[2 + a + k], labels'[func.children[k].arg])
<1>1. /\ a \in Nat /\ b \in Nat /\ DOMAIN todo' = 1 .. a + b + 4
      /\ todo'[1] = Define(globalFuncs[func.arg])
      /\ \A j \in 1..b : todo'[2 + a + j] = func.children[j]
  BY NewItems
<1>2. LabelsIn(func) \in SUBSET (1..b) /\ DOMAIN func.children = 1..b
      /\ func.children \in Seq(Subtrees(func))
  <2>1. /\ func.children \in Seq(Subtrees(func))
        /\ LabelsIn(func) \in SUBSET (1..Len(func.children))
    BY NewLabels
  <2>2. b = Len(func.children)  BY DEF Begins
  <2> QED  BY <2>1, <2>2
<1>3. \A k \in LabelsIn(func) : func.children[k].type = "LABEL"  BY DEF LabelsIn
<1>4. ASSUME NEW i \in DOMAIN todo', NEW l, PutsNext(todo'[i], l)
      PROVE  \/ i = 1 /\ l = globalFuncs[func.arg]
             \/ \E k \in LabelsIn(func) : i = 2 + a + k /\ l = labels'[func.children[k].arg]
  <2>1. "DEFINE" \notin TokenTypes  BY DEF TokenTypes, Opcode
  <2>2. todo'[i].type \in {"DEFINE", "LABEL"}  BY <1>4 DEF PutsNext
  <2>3. \/ i = 1 /\ todo'[i].type = "DEFINE" /\ todo'[i].label = globalFuncs[func.arg]
        \/ \E k \in 1..b : /\ i = 2 + a + k /\ todo'[i] = func.children[k]
                           /\ todo'[i].type \in TokenTypes
        \/ todo'[i].type \in {"SRC_LOC", "EMIT", "ARG_NAME"}
    BY NewKinds
  <2>4. CASE i = 1 /\ todo'[i].type = "DEFINE" /\ todo'[i].label = globalFuncs[func.arg]
    BY <2>4, <1>4 DEF PutsNext
  <2>5. ASSUME NEW k \in 1..b, i = 2 + a + k, todo'[i] = func.children[k],
               todo'[i].type \in TokenTypes
        PROVE  k \in LabelsIn(func) /\ l = labels'[func.children[k].arg]
    <3>1. todo'[i].type = "LABEL" /\ labels'[todo'[i].arg] = l
      BY <2>1, <2>2, <2>5, <1>4 DEF PutsNext
    <3>2. k \in LabelsIn(func)  BY <3>1, <2>5, <1>2 DEF LabelsIn
    <3> QED  BY <3>1, <3>2, <2>5
  <2> QED  BY <2>2, <2>3, <2>4, <2>5
<1>5. 1 \in DOMAIN todo' /\ PutsNext(todo'[1], globalFuncs[func.arg])
  BY <1>1 DEF PutsNext, Define
<1>6. ASSUME NEW k \in LabelsIn(func)
      PROVE  /\ 2 + a + k \in DOMAIN todo'
             /\ PutsNext(todo'[2 + a + k], labels'[func.children[k].arg])
  <2>1. k \in 1..b /\ func.children[k].type = "LABEL"  BY <1>2, <1>3
  <2>2. todo'[2 + a + k] = func.children[k]  BY <2>1, <1>1
  <2>3. 2 + a + k \in DOMAIN todo'  BY <2>1, <1>1
  <2> QED  BY <2>1, <2>2, <2>3 DEF PutsNext
<1> QED  BY <1>4, <1>5, <1>6

(* A function that is begun has its arguments' names after its constructor. *)
LEMMA NewNames ==
  ASSUME Positions, NamesFollow, NEW func, NEW a, NEW b, Begins(func, a, b)
  PROVE  NamesFollow'
<1>1. /\ a \in Nat /\ b \in Nat /\ DOMAIN todo' = 1 .. a + b + 4
      /\ \A j \in 1..a : todo'[2 + j] = Signature(func)[j]
  BY NewItems
<1>2. todo = <<>> /\ emitted' = emitted  BY DEF Begins, CompileFunc
<1>3. \A i \in DOMAIN emitted' : emitted'[i].op = "DEF_FUNC" =>
        \A k \in 1..Low(Len(emitted'[i].arg)) :
          /\ i + k <= Len(emitted')
          /\ emitted'[i + k].op = "ARG_NAME" /\ emitted'[i + k].arg = emitted'[i].arg[k]
  BY <1>2, NoNamesDue
<1>4. ASSUME NEW i \in DOMAIN todo', todo'[i].type = "EMIT", todo'[i].op = "DEF_FUNC",
             NEW k \in 1..Low(Len(todo'[i].arg))
      PROVE  i + k \in DOMAIN todo' /\ IsName(todo'[i + k], todo'[i].arg[k])
  <2>1. "EMIT" \notin TokenTypes  BY DEF TokenTypes, Opcode
  <2>2. i = 3 /\ todo'[i].arg = func.params /\ func.arg # "$init"
    <3>1. \/ i = 3 /\ todo'[i].arg = func.params /\ func.arg # "$init"
          \/ todo'[i].type \in {"DEFINE", "SRC_LOC", "ARG_NAME"}
          \/ todo'[i].type \in TokenTypes
          \/ todo'[i].op \in {"PUSH_NONE", "RETURN"}
      BY NewKinds
    <3> QED  BY <3>1, <2>1, <1>4
  <2> DEFINE count == Low(Len(func.params))
  <2>3. /\ count \in Nat /\ Len(Signature(func)) = 1 + count
        /\ \A j \in 1..count : Signature(func)[1 + j] = ArgName(func.params[j])
    <3>1. func.params \in Seq(Strings)  BY NewLabels
    <3> QED  BY <3>1, <2>2, SignatureIs
  <2>4. a = 1 + count  BY <2>3 DEF Begins
  <2>5. k \in 1..count  BY <1>4, <2>2
  <2> HIDE DEF count
  <2>6. k \in Nat /\ 1 + k \in 1..a /\ 2 + (1 + k) = i + k  BY <2>2, <2>3, <2>4, <2>5
  <2>7. todo'[i + k] = Signature(func)[1 + k]
    <3>1. todo'[2 + (1 + k)] = Signature(func)[1 + k]  BY <2>6, <1>1
    <3> QED  BY <3>1, <2>6
  <2>8. Signature(func)[1 + k] = ArgName(func.params[k])  BY <2>3, <2>5
  <2>9. i + k \in DOMAIN todo'  BY <2>2, <2>6, <1>1
  <2> QED  BY <2>2, <2>7, <2>8, <2>9 DEF IsName, ArgName
<1> QED  BY <1>3, <1>4 DEF NamesFollow, IsName, Low

(* What is below a number is below a larger one.                            *)
LEMMA BelowLarger ==
  ASSUME NEW m \in Nat, NEW n \in Nat, m <= n
  PROVE  0..m - 1 \subseteq 0..n - 1
<1> SUFFICES ASSUME NEW i \in 0..m - 1 PROVE i \in 0..n - 1  OBVIOUS
<1> QED  OBVIOUS

(* The functions and labels known before keep their numbers.                *)
LEMMA NewPositions ==
  ASSUME Positions, NEW func, NEW a, NEW b, Begins(func, a, b)
  PROVE  Positions'
<1>1. /\ begun' = begun + 1 /\ begun' \in 1..Len(tree) /\ tree' = tree
      /\ globalFuncs' = globalFuncs
      /\ DOMAIN labels' = {func.children[i].arg : i \in LabelsIn(func)}
      /\ nextLabel' \in Nat /\ nextLabel <= nextLabel' /\ nextLabel \in Nat
      /\ \A n \in DOMAIN labels' : labels'[n] \in nextLabel .. nextLabel' - 1
  BY NewLabels
<1>2. Len(tree) \in Nat /\ Len(tree) <= nextLabel  BY LabelTypes
<1>3. todo' \in Seq(Items')  BY NewItems
<1>4. emitted' \in Seq(Records')
  <2>1. emitted' = emitted /\ emitted \in Seq(Records)
    BY DEF Positions, Begins, CompileFunc
  <2>2. 0..nextLabel - 1 \subseteq 0..nextLabel' - 1
    <3>1. nextLabel \in Nat /\ nextLabel' \in Nat /\ nextLabel <= nextLabel'  BY <1>1
    <3> QED  BY <3>1, BelowLarger
  <2>3. Records \subseteq Records'  BY <2>2 DEF Records
  <2> QED  BY <2>1, <2>3, SeqMonotonic
<1>5. func = tree'[begun']  BY <1>1 DEF Begins
<1>6. begun' \in 0..Len(tree') /\ begun' # 0 /\ begun' > 0  BY <1>1, <1>2
<1>7. nextLabel' >= Len(tree')  BY <1>1, <1>2
<1>8. \A n \in DOMAIN labels' : labels'[n] \in Len(tree') .. nextLabel' - 1
  BY <1>1, <1>2
<1>9. DOMAIN labels' = {tree'[begun'].children[i].arg : i \in LabelsIn(tree'[begun'])}
  BY <1>1, <1>5
<1>10. tree' \in Trees /\ globalFuncs' = Numbered(tree', DOMAIN tree', 0)
  BY <1>1 DEF Positions
<1> QED
  BY <1>1, <1>3, <1>4, <1>6, <1>7, <1>8, <1>9, <1>10 DEF Positions, LabelsIn, Numbered

(* compileFunc.                                                             *)
LEMMA CompileFuncInvariant ==
  ASSUME Invariant, CompileFunc
  PROVE  Invariant'
<1> DEFINE func == tree[begun + 1]
           a == Len(Signature(func))
           b == Len(func.children)
<1>0. Begins(func, a, b)  BY DEF Begins
<1>1. Begins(func, a, b) /\ func = tree[begun + 1]  BY <1>0
<1>2. Positions /\ NamesFollow  BY DEF Invariant
<1> HIDE DEF func, a, b
<1>3. /\ begun' = begun + 1 /\ begun \in Nat /\ begun + 1 \in DOMAIN tree
      /\ begun' \in 1..Len(tree) /\ tree' = tree /\ globalFuncs' = globalFuncs
      /\ func.arg \in DOMAIN globalFuncs
      /\ func.children \in Seq(Subtrees(func)) /\ LabelsIn(func) \in SUBSET (1..Len(func.children))
      /\ labels' = Numbered(func.children, LabelsIn(func), nextLabel)
      /\ DOMAIN labels' = {func.children[i].arg : i \in LabelsIn(func)}
      /\ nextLabel' \in Nat /\ nextLabel <= nextLabel' /\ nextLabel \in Nat
      /\ \A n \in DOMAIN labels' : labels'[n] \in nextLabel .. nextLabel' - 1
  BY <1>0, <1>2, NewLabels
<1>4. /\ Len(tree) \in Nat /\ DOMAIN tree = 1..Len(tree) /\ Len(tree) <= nextLabel
      /\ DOMAIN globalFuncs = {tree[i].arg : i \in DOMAIN tree}
      /\ \A n \in DOMAIN globalFuncs : globalFuncs[n] \in 0..Len(tree) - 1
  BY <1>2, LabelTypes
<1>5. /\ module = Building /\ todo = <<>> /\ bytecode' = bytecode /\ constants' = constants
      /\ srcLoc' = srcLoc /\ labelRefs' = labelRefs /\ labelDefs' = labelDefs
      /\ emitted' = emitted /\ placed' = placed /\ module' = module /\ Placed' = Placed
  BY DEF CompileFunc, Placed
<1>6. Positions' /\ NamesFollow'  BY <1>0, <1>2, NewPositions, NewNames
<1>7. Layout' /\ Bytes' /\ References'
  BY <1>5 DEF Invariant, Layout, Address, Bytes, OneConstantSegment, Indexes, Holds, References
<1>8. Outcome'  BY <1>5 DEF Outcome, Made, Building, Crashed
<1>9. 0..nextLabel - 1 \subseteq 0..nextLabel' - 1
  <2>1. nextLabel \in Nat /\ nextLabel' \in Nat /\ nextLabel <= nextLabel'  BY <1>3
  <2> QED  BY <2>1, BelowLarger
<1>10. LabelMaps'
  BY <1>5, <1>9 DEF Invariant, LabelMaps, Address
(* What was put down and what is to be put down now.                        *)
<1>11. \A l : Down(l) <=> l \in Placed  BY <1>5 DEF Down
<1>12. /\ \A i \in DOMAIN todo' : \A l : PutsNext(todo'[i], l) =>
            \/ i = 1 /\ l = globalFuncs[func.arg]
            \/ \E k \in LabelsIn(func) : i = 2 + a + k /\ l = labels'[func.children[k].arg]
       /\ 1 \in DOMAIN todo' /\ PutsNext(todo'[1], globalFuncs[func.arg])
       /\ \A k \in LabelsIn(func) : /\ 2 + a + k \in DOMAIN todo'
                                    /\ PutsNext(todo'[2 + a + k], labels'[func.children[k].arg])
  BY <1>0, <1>2, NewPuts
<1>13. Definitions'
  <2>1. LabelsFitByte' => LabelsFitByte  BY <1>3, ByteAssumption DEF LabelsFitByte
  <2>2. SUFFICES ASSUME LabelsFitByte
                 PROVE  DOMAIN labelRefs \subseteq Placed \cup Targets'
    BY <2>1, <1>5 DEF Invariant, Definitions
  <2>3. DOMAIN labelRefs \subseteq Placed \cup Targets  BY <2>2 DEF Invariant, Definitions
  <2>4. Targets \subseteq Placed \cup Targets'
    <3>1. \A n \in DOMAIN labels : labels[n] \in Placed  BY <1>11 DEF Invariant, Due
    <3>2. \A n \in DOMAIN globalFuncs : globalFuncs[n] \in Targets'  BY <1>3 DEF Targets
    <3> QED  BY <3>1, <3>2 DEF Targets
  <2> QED  BY <2>3, <2>4
<1>14. Due'
  <2>1. ASSUME NEW n \in DOMAIN labels' PROVE DownNext(labels'[n])
    <3>1. PICK k \in LabelsIn(func) : n = func.children[k].arg  BY <1>3
    <3> QED  BY <3>1, <1>12 DEF DownNext
  <2>2. ASSUME NEW f \in 1..begun' PROVE DownNext(globalFuncs'[tree'[f].arg])
    <3>1. CASE f \in 1..begun
      <4>1. globalFuncs[tree[f].arg] \in Placed  BY <3>1, <1>11 DEF Invariant, Due
      <4> QED  BY <4>1, <1>3, <1>5 DEF DownNext
    <3>2. CASE f = begun + 1
      <4>1. globalFuncs'[tree'[f].arg] = globalFuncs[func.arg]  BY <3>2, <1>1, <1>3
      <4> QED  BY <4>1, <1>12 DEF DownNext
    <3> QED  BY <3>1, <3>2, <1>3
  <2> QED  BY <2>1, <2>2 DEF Due, Down, DownNext, Puts, PutsNext, Placed
<1>15. NamesDistinct' => Once'
  <2>1. NamesDistinct' = NamesDistinct  BY <1>3 DEF NamesDistinct, LabelsIn
  <2> SUFFICES ASSUME NamesDistinct PROVE Once'
    BY <2>1
  <2>2. Once  BY DEF Invariant
  <2> DEFINE g == globalFuncs[func.arg]
  <2>3. g \in 0..Len(tree) - 1 /\ g < nextLabel
    <3>1. func.arg \in DOMAIN globalFuncs  BY <1>3
    <3>2. \A n \in DOMAIN globalFuncs : globalFuncs[n] \in 0..Len(tree) - 1  BY <1>4
    <3>3. g \in 0..Len(tree) - 1  BY <3>1, <3>2
    <3>4. Len(tree) \in Nat /\ nextLabel \in Nat /\ Len(tree) <= nextLabel  BY <1>3, <1>4
    <3> HIDE DEF g
    <3> QED  BY <3>3, <3>4
  <2>4. \A k \in LabelsIn(func) : /\ func.children[k].arg \in DOMAIN labels'
                                  /\ labels'[func.children[k].arg] \in Nat
                                  /\ nextLabel <= labels'[func.children[k].arg]
    <3> TAKE k \in LabelsIn(func)
    <3>1. func.children[k].arg \in DOMAIN labels'  BY <1>3
    <3>2. labels'[func.children[k].arg] \in nextLabel .. nextLabel' - 1  BY <3>1, <1>3
    <3> QED  BY SMTT(30), <3>1, <3>2, <1>3
  <2>5. Placed \subseteq 0..nextLabel - 1  BY DEF Invariant, LabelMaps, Placed
  <2>6. \A f \in begun + 1 .. Len(tree) : globalFuncs[tree[f].arg] \notin Placed
    BY <2>2, <1>11 DEF Once
  <2>7. begun + 1 \in begun + 1 .. Len(tree)  BY <1>3, <1>4
  <2>8. g \notin Placed  BY <2>6, <2>7, <1>1
  <2>9. ASSUME NEW j \in LabelsIn(func), NEW k \in LabelsIn(func),
               labels'[func.children[j].arg] = labels'[func.children[k].arg]
        PROVE  j = k
    <3>1. func.children[j].arg = func.children[k].arg
      <4>1. Len(func.children) \in Nat  BY <1>3
      <4>2. \A x, y \in LabelsIn(func) : func.children[x].arg = func.children[y].arg => x = y
        BY <1>1, <1>3 DEF NamesDistinct
      <4> DEFINE m == func.children[j].arg
                 n == func.children[k].arg
                 numbers == Numbered(func.children, LabelsIn(func), nextLabel)
      <4>3. m \in DOMAIN numbers /\ n \in DOMAIN numbers /\ numbers[m] = numbers[n]
        BY <2>4, <2>9, <1>3
      <4> HIDE DEF m, n
      <4>4. m = n  BY <4>1, <4>2, <4>3, <1>3, NumberedDistinct
      <4> QED  BY <4>4 DEF m, n
    <3> QED  BY <3>1, <1>1, <1>3 DEF NamesDistinct
  <2>10. ASSUME NEW f \in begun + 1 .. Len(tree), globalFuncs[tree[f].arg] = g
         PROVE  f = begun + 1
    <3>1. f \in DOMAIN tree /\ begun + 1 \in DOMAIN tree
      <4>1. f \in Nat /\ f >= 1 /\ f <= Len(tree)  BY <1>3, <1>4
      <4> QED  BY <4>1, <1>3, <1>4
    <3>2. \A x, y \in DOMAIN tree : tree[x].arg = tree[y].arg => x = y  BY DEF NamesDistinct
    <3> DEFINE m == tree[f].arg
               n == tree[begun + 1].arg
               numbers == Numbered(tree, DOMAIN tree, 0)
    <3>3. globalFuncs = numbers  BY <1>2 DEF Positions
    <3>4. m \in DOMAIN numbers /\ n \in DOMAIN numbers /\ numbers[m] = numbers[n]
      BY <2>10, <3>1, <3>3, <1>1, <1>4
    <3>5. DOMAIN tree \in SUBSET (1..Len(tree))  BY <1>4
    <3> HIDE DEF m, n
    <3>6. m = n  BY <3>2, <3>4, <3>5, <1>4, NumberedDistinct
    <3> QED  BY <3>1, <3>2, <3>6 DEF m, n
  <2> HIDE DEF g
  <2>11. \A i \in DOMAIN todo' : \A l : PutsNext(todo'[i], l) =>
           \/ i = 1 /\ l = g
           \/ \E k \in LabelsIn(func) : i = 2 + a + k /\ l = labels'[func.children[k].arg]
    BY <1>12 DEF g
  <2>12. ASSUME NEW i \in DOMAIN todo', NEW j \in DOMAIN todo', NEW l, PutsNext(todo'[i], l)
         PROVE  l \notin Placed /\ (PutsNext(todo'[j], l) => i = j)
    <3>1. CASE i = 1 /\ l = g
      <4>1. \A k \in LabelsIn(func) : labels'[func.children[k].arg] # g  BY <2>3, <2>4, <1>3
      <4> QED  BY <4>1, <3>1, <2>8, <2>11
    <3>2. ASSUME NEW k \in LabelsIn(func), i = 2 + a + k, l = labels'[func.children[k].arg]
          PROVE  l \notin Placed /\ (PutsNext(todo'[j], l) => i = j)
      <4>1. l \in Nat /\ nextLabel <= l  BY <3>2, <2>4
      <4>2. l \notin Placed /\ l # g  BY <4>1, <2>3, <2>5, <1>3
      <4>3. ASSUME PutsNext(todo'[j], l) PROVE i = j
        <5>1. PICK m \in LabelsIn(func) : j = 2 + a + m /\ l = labels'[func.children[m].arg]
          BY <4>2, <4>3, <2>11
        <5>2. m = k  BY <5>1, <3>2, <2>9
        <5> QED  BY <5>1, <5>2, <3>2
      <4> QED  BY <4>2, <4>3
    <3> QED  BY <3>1, <3>2, <2>11, <2>12
  <2>13. ASSUME NEW f \in begun' + 1 .. Len(tree) PROVE ~DownNext(globalFuncs[tree[f].arg])
    <3> DEFINE l == globalFuncs[tree[f].arg]
    <3>1. f \in begun + 1 .. Len(tree) /\ f # begun + 1 /\ f \in DOMAIN tree
      <4>1. f \in Nat /\ f >= begun + 2 /\ f <= Len(tree)  BY <1>3, <1>4
      <4> QED  BY <4>1, <1>3, <1>4
    <3>2. l \notin Placed /\ l # g  BY <3>1, <2>6, <2>10
    <3>3. l \in 0..Len(tree) - 1  BY <3>1, <1>4
    <3> HIDE DEF l
    <3>4. \A k \in LabelsIn(func) : labels'[func.children[k].arg] # l  BY <3>3, <2>4, <1>3, <1>4
    <3>5. \A i \in DOMAIN todo' : ~PutsNext(todo'[i], l)  BY <3>2, <3>4, <2>11
    <3>6. ~DownNext(l)  BY <3>2, <3>5, <1>5 DEF DownNext
    <3> QED  BY <3>6 DEF l
  <2>14. \A p, r \in placed' : p[1] = r[1] => p = r  BY <2>2, <1>5 DEF Once
  <2>15. \A i, j \in DOMAIN todo' : \A l \in Targets' :
           PutsNext(todo'[i], l) => l \notin Placed' /\ (PutsNext(todo'[j], l) => i = j)
    BY <2>12, <1>5
  <2>16. \A f \in begun' + 1 .. Len(tree') : LET l == globalFuncs'[tree'[f].arg] IN ~DownNext(l)
    BY <2>13, <1>3
  <2> QED  BY <2>14, <2>15, <2>16 DEF Once, Down, DownNext, Puts, PutsNext, Placed
<1>16. Locations'
  <2>1. \A i \in DOMAIN todo' : ~Raises(todo'[i])  BY <1>2, NewQuiet
  <2> QED  BY <2>1, <1>5 DEF Invariant, Locations, Raises, Address
<1>17. CodeDue'
  <2>1. a \in Nat /\ b \in Nat /\ DOMAIN todo' = 1 .. a + b + 4
        /\ todo'[3 + a + b] = Emit("PUSH_NONE", 0)
    BY <1>0, <1>2, NewItems
  <2>2. 3 + a + b \in DOMAIN todo' /\ todo'[3 + a + b].type = "EMIT"  BY <2>1 DEF Emit
  <2> QED  BY <2>2 DEF CodeDue
<1> QED  BY <1>6, <1>7, <1>8, <1>10, <1>13, <1>14, <1>15, <1>16, <1>17 DEF Invariant

-----------------------------------------------------------------------------
(* builderToModule.                                                         *)

(* When everything is compiled, every label that can be named is put down.  *)
LEMMA AllPlaced ==
  ASSUME Positions, Due, todo = <<>>, begun = Len(tree)
  PROVE  Targets \subseteq Placed
<1>1. \A l : Down(l) => l \in Placed  BY DEF Down
<1>2. \A n \in DOMAIN labels : labels[n] \in Placed  BY <1>1 DEF Due
<1>3. ASSUME NEW n \in DOMAIN globalFuncs PROVE globalFuncs[n] \in Placed
  <2>1. PICK f \in DOMAIN tree : n = tree[f].arg  BY LabelTypes
  <2>2. f \in 1..begun  BY <2>1, LabelTypes
  <2> QED  BY <2>1, <2>2, <1>1 DEF Due
<1> QED  BY <1>2, <1>3 DEF Targets

(* While labels fit in a byte the entries of the maps are labels.           *)
LEMMA OwnKeys ==
  ASSUME Positions, LabelMaps, LabelsFitByte
  PROVE  /\ \A c \in DOMAIN labelDefs : labelDefs[c].key = c /\ c \in 0..nextLabel - 1
         /\ \A c \in DOMAIN labelRefs : labelRefs[c].key = c /\ c \in 0..nextLabel - 1
<1>1. nextLabel \in Nat /\ nextLabel <= ByteSize /\ ByteSize \in Nat
  BY ByteAssumption DEF Positions, LabelsFitByte
<1>2. \A k \in 0..nextLabel - 1 : Low(k) = k
  <2> TAKE k \in 0..nextLabel - 1
  <2>1. k \in Nat /\ k < ByteSize  BY <1>1
  <2> QED  BY <2>1, LowSmall
<1>3. ASSUME NEW c \in DOMAIN labelDefs PROVE labelDefs[c].key = c /\ c \in 0..nextLabel - 1
  <2>1. labelDefs[c].key \in 0..nextLabel - 1 /\ Low(labelDefs[c].key) = c  BY DEF LabelMaps
  <2> QED  BY <2>1, <1>2
<1>4. ASSUME NEW c \in DOMAIN labelRefs PROVE labelRefs[c].key = c /\ c \in 0..nextLabel - 1
  <2>1. labelRefs[c].key \in 0..nextLabel - 1 /\ Low(labelRefs[c].key) = c  BY DEF LabelMaps
  <2> QED  BY <2>1, <1>2
<1> QED  BY <1>3, <1>4

(* So within the limits every reference finds its definition.               *)
LEMMA AllDefined ==
  ASSUME Invariant, todo = <<>>, begun = Len(tree), LabelsFitByte
  PROVE  /\ \A c \in DOMAIN labelRefs : Defines(c)
         /\ Placed = DOMAIN labelDefs
         /\ \A c \in DOMAIN labelDefs : <<c, labelDefs[c].value>> \in placed
<1>1. Positions /\ LabelMaps /\ Definitions /\ Due  BY DEF Invariant
<1>2. /\ Placed \subseteq DOMAIN labelDefs /\ DOMAIN labelRefs \subseteq Placed \cup Targets
      /\ \A c \in DOMAIN labelDefs : <<c, labelDefs[c].value>> \in placed
  BY <1>1 DEF Definitions
<1>3. Targets \subseteq Placed  BY <1>1, AllPlaced
<1>4. ASSUME NEW c \in DOMAIN labelRefs PROVE Defines(c)
  <2>1. c \in DOMAIN labelDefs  BY <1>2, <1>3
  <2>2. labelDefs[c].key = c /\ labelRefs[c].key = c  BY <2>1, <1>1, OwnKeys
  <2> QED  BY <2>1, <2>2 DEF Defines
<1>5. ASSUME NEW c \in DOMAIN labelDefs PROVE c \in Placed
  <2>1. <<c, labelDefs[c].value>> \in placed /\ <<c, labelDefs[c].value>>[1] = c  BY <1>2
  <2> QED  BY <2>1 DEF Placed
<1> QED  BY <1>2, <1>4, <1>5

(* builderToModule, made or failed.                                         *)
LEMMA BuilderToModuleInvariant ==
  ASSUME Invariant, BuilderToModule
  PROVE  Invariant'
<1>1. module = Building /\ todo = <<>> /\ begun = Len(tree)  BY DEF BuilderToModule
<1>2. CASE \A c \in DOMAIN labelRefs : Defines(c)
  <2>1. /\ module' = ModuleBuilt
        /\ UNCHANGED <<tree, begun, todo, globalFuncs, labels, builder>>
    BY <1>2 DEF BuilderToModule
  <2>2. ModuleBuilt' = ModuleBuilt
    <3>1. UNCHANGED <<tree, begun, todo, globalFuncs, labels, builder>>  BY <2>1
    <3> QED  BY <3>1 DEF ModuleBuilt, compactSegments, Full, Patched, builder
  <2>3. module'.status = "made"  BY <2>1 DEF ModuleBuilt
  <2>4. Outcome'
    BY <2>1, <2>2, <2>3, <1>1 DEF Outcome, Made, Crashed
  <2> QED  BY <2>1, <2>4, OutcomeInvariant
<1>3. CASE ~(\A c \in DOMAIN labelRefs : Defines(c))
  <2>1. Crash  BY <1>3 DEF BuilderToModule
  <2>2. ~LabelsFitByte  BY <1>1, <1>3, AllDefined
  <2> QED  BY <2>1, <2>2, CrashInvariant
<1> QED  BY <1>2, <1>3

-----------------------------------------------------------------------------
(* compileModule.                                                           *)

(* The builder begins in the invariant.                                     *)
LEMMA InvariantInit ==
  ASSUME Init
  PROVE  Invariant
<1>1. /\ tree \in Trees /\ begun = 0 /\ globalFuncs = Numbered(tree, DOMAIN tree, 0)
      /\ nextLabel = Len(tree) /\ todo = <<>> /\ bytecode = <<>> /\ constants = <<>>
      /\ srcLoc = <<>> /\ emitted = <<>> /\ labelRefs = NoEntries /\ labelDefs = NoEntries
      /\ placed = {} /\ module = Building
  BY DEF Init
<1>2. DOMAIN labels = {}
  <2>1. labels = Numbered(<<>>, {}, 0)  BY DEF Init
  <2>2. {<<>>[i].arg : i \in {}} = {}  OBVIOUS
  <2> QED  BY <2>1, <2>2 DEF Numbered
<1>3. Len(tree) \in Nat /\ DOMAIN tree = 1..Len(tree)  BY <1>1, TreeFacts
<1>4. Positions
  <2>1. todo \in Seq(Items) /\ emitted \in Seq(Records)  BY <1>1
  <2> QED  BY <2>1, <1>1, <1>2, <1>3 DEF Positions
<1>5. NamesFollow  BY <1>1 DEF NamesFollow
<1>6. Layout  BY <1>1 DEF Layout, Address
<1>7. Bytes  BY <1>1 DEF Bytes
<1>8. DOMAIN labelDefs = {} /\ DOMAIN labelRefs = {}  BY <1>1 DEF NoEntries
<1>9. LabelMaps  BY <1>1, <1>8 DEF LabelMaps
<1>10. References  BY <1>1, <1>8 DEF References
<1>11. Definitions  BY <1>1, <1>8 DEF Definitions, Placed
<1>12. Due  BY <1>1, <1>2 DEF Due
<1>13. Once
  <2>1. \A l : ~Down(l)  BY <1>1 DEF Down, Placed
  <2> QED  BY <2>1, <1>1 DEF Once
<1>14. Locations  BY <1>1 DEF Locations
<1>15. Outcome  BY <1>1 DEF Outcome, Made, Building, Crashed
<1>16. CodeDue  BY <1>1 DEF CodeDue
<1> QED
  BY <1>4, <1>5, <1>6, <1>7, <1>9, <1>10, <1>11, <1>12, <1>13, <1>14, <1>15, <1>16 DEF Invariant

(* Every step keeps the invariant.                                          *)
LEMMA InvariantNext ==
  ASSUME Invariant, [Next]_vars
  PROVE  Invariant'
<1>1. CASE CompileFunc  BY <1>1, CompileFuncInvariant
<1>2. CASE CompileToken  BY <1>2, CompileTokenInvariant
<1>3. CASE EmitPlain  BY <1>3, EmitPlainInvariant
<1>4. CASE EmitNumber  BY <1>4, EmitNumberInvariant
<1>5. CASE EmitConstant  BY <1>5, EmitConstantInvariant
<1>6. CASE EmitLabelRef  BY <1>6, EmitLabelRefInvariant
<1>7. CASE EmitDefFunc  BY <1>7, EmitDefFuncInvariant
<1>8. CASE EmitArgName  BY <1>8, EmitArgNameInvariant
<1>9. CASE EmitLabel  BY <1>9, EmitLabelInvariant
<1>10. CASE EmitSrcLoc  BY <1>10, EmitSrcLocInvariant
<1>11. CASE BuilderToModule  BY <1>11, BuilderToModuleInvariant
<1>12. CASE UNCHANGED vars
  <2>1. UNCHANGED <<tree, begun, todo, globalFuncs, labels, builder>> /\ module' = module
    BY <1>12 DEF vars
  <2>2. ModuleBuilt' = ModuleBuilt
    BY <2>1 DEF ModuleBuilt, compactSegments, Full, Patched, builder
  <2>3. Outcome'
    BY <2>1, <2>2 DEF Invariant, Outcome, Made, OneConstantSegment, LabelsFitByte, builder
  <2> QED  BY <2>1, <2>3, OutcomeInvariant
<1>13. CASE Finished  BY <1>12, <1>13 DEF Finished
<1> QED
  BY <1>1, <1>2, <1>3, <1>4, <1>5, <1>6, <1>7, <1>8, <1>9, <1>10, <1>11, <1>12, <1>13 DEF Next

(* Every run: what is emitted agrees with what was compiled, and the bytes, *)
(* the maps from labels and the source locations with what is emitted.      *)
THEOREM Invariance == Spec => []Invariant
BY InvariantInit, InvariantNext, PTL DEF Spec

(* Every run: the builder's fields have their types, labels are below the   *)
(* next one, and nothing is filed under an address not reached.             *)
THEOREM TypeCorrect == Spec => []TypeOK
<1>1. ASSUME Invariant PROVE TypeOK
  <2>1. /\ Positions /\ Bytes /\ Locations /\ LabelMaps /\ Outcome  BY <1>1 DEF Invariant
  <2>2. module.status \in {"building", "crashed", "made"}
    BY <2>1 DEF Outcome, Made, Building, Crashed
  <2>3. nextLabel \in Nat /\ \A l \in Targets : l < nextLabel
    <3>1. nextLabel \in Nat /\ Targets \subseteq 0..nextLabel - 1  BY <2>1, LabelTypes
    <3> QED  BY <3>1
  <2> QED  BY <2>1, <2>2, <2>3 DEF TypeOK, Bytes, Locations, LabelMaps, Targets
<1> QED  BY <1>1, Invariance, PTL

(* Every run: where the names of the transformed tree are distinct, no      *)
(* label is put down at two addresses.                                      *)
THEOREM AlwaysPlacedOnce == Spec => []PlacedOnce
<1>1. ASSUME Invariant PROVE PlacedOnce  BY <1>1 DEF Invariant, PlacedOnce, Once
<1> QED  BY <1>1, Invariance, PTL

-----------------------------------------------------------------------------
(* The module made.                                                         *)

(* Within the limits all segments are copied.                               *)
LEMMA CompactsAll ==
  ASSUME NEW S, NEW s \in Seq(S), ~Full(s)
  PROVE  compactSegments(s) = s
BY DEF compactSegments

(* Every run: in a module made within the limits, each instruction that may *)
(* raise an error has a source location, and locations are in order.        *)
THEOREM AlwaysErrorsLocated == Spec => []ErrorsLocated
<1>1. ASSUME Invariant, Made, WithinLimits
      PROVE  /\ \A i \in DOMAIN emitted : emitted[i].op \in Raising =>
                  \E k \in DOMAIN module.srcLoc : module.srcLoc[k].index = emitted[i].address
             /\ \A j, k \in DOMAIN module.srcLoc :
                  j < k => module.srcLoc[j].index <= module.srcLoc[k].index
  <2>1. Locations /\ module = ModuleBuilt  BY <1>1 DEF Invariant, Outcome
  <2>2. srcLoc \in Seq([index : 0..Address, location : Nat]) /\ ~Full(srcLoc)
    BY <1>1, <2>1 DEF Locations, WithinLimits, SegmentsEndEarly
  <2>3. module.srcLoc = srcLoc
    <3>1. module.srcLoc = compactSegments(srcLoc)  BY <2>1 DEF ModuleBuilt
    <3> QED  BY <3>1, <2>2, CompactsAll
  <2> QED  BY <2>1, <2>3 DEF Locations
<1>2. Invariant => ErrorsLocated  BY <1>1 DEF ErrorsLocated
<1> QED  BY <1>2, Invariance, PTL

(* Every instruction lies within the bytecode.                              *)
LEMMA EndsWithin ==
  ASSUME Positions, Layout, Address \in Nat, NEW i \in DOMAIN emitted
  PROVE  /\ emitted[i] \in Records /\ emitted[i].address \in Nat
         /\ Size(emitted[i]) \in Nat /\ Size(emitted[i]) >= 1
         /\ emitted[i].address + Size(emitted[i]) <= Address
<1> DEFINE n == Len(emitted)
<1>1. n \in Nat /\ DOMAIN emitted = 1..n /\ \A j \in 1..n : emitted[j] \in Records
  BY DEF Positions
<1>2. \A j \in 1..n : emitted[j].address \in Nat  BY <1>1 DEF Records
<1>3. \A j \in 1..n : Size(emitted[j]) \in Nat /\ Size(emitted[j]) >= 1  BY SizeType
<1>4. i \in 1..n /\ n \in 1..n /\ emitted # <<>>  BY <1>1
<1>5. Address = emitted[n].address + Size(emitted[n])  BY <1>4 DEF Layout, End
<1>6. i < n => emitted[i].address + Size(emitted[i]) <= emitted[n].address
  BY <1>1, <1>4 DEF Layout, End
<1> HIDE DEF n
<1>7. emitted[i].address + Size(emitted[i]) <= Address
  BY <1>1, <1>2, <1>3, <1>4, <1>5, <1>6
<1> QED  BY <1>1, <1>2, <1>3, <1>4, <1>7

(* No byte belongs to two instructions.                                     *)
LEMMA OwnBytes ==
  ASSUME Positions, Layout, Address \in Nat, NEW i \in DOMAIN emitted, NEW j \in DOMAIN emitted,
         NEW k \in 1..Size(emitted[i]), NEW m \in 1..Size(emitted[j]),
         emitted[i].address + k = emitted[j].address + m
  PROVE  i = j /\ k = m
<1>1. /\ emitted[i].address \in Nat /\ Size(emitted[i]) \in Nat
      /\ emitted[j].address \in Nat /\ Size(emitted[j]) \in Nat
  BY EndsWithin
<1>2. i < j => emitted[i].address + Size(emitted[i]) <= emitted[j].address
  BY DEF Layout, End
<1>3. j < i => emitted[j].address + Size(emitted[j]) <= emitted[i].address
  BY DEF Layout, End
<1>4. i \in Nat /\ j \in Nat
  <2>1. DOMAIN emitted = 1..Len(emitted) /\ Len(emitted) \in Nat  BY DEF Positions
  <2> QED  BY <2>1
<1>5. ~(i < j) /\ ~(j < i)  BY <1>1, <1>2, <1>3
<1> QED  BY <1>1, <1>4, <1>5

(* The references that reach an address: their bytes, and which of the four *)
(* it is.                                                                   *)
Reaching(a) ==
  {p \in (DOMAIN labelRefs) \X (1..4) :
     \E r \in DOMAIN labelRefs[p[1]].value : labelRefs[p[1]].value[r] + p[2] = a}

(* What Patched does to a byte.                                             *)
LEMMA PatchedAt ==
  ASSUME NEW bytes, NEW a \in DOMAIN bytes
  PROVE  /\ DOMAIN Patched(bytes) = DOMAIN bytes
         /\ Reaching(a) = {} => Patched(bytes)[a] = bytes[a]
         /\ \A p : Reaching(a) = {p} => Patched(bytes)[a] = UInt(labelDefs[p[1]].value)[p[2]]
<1>1. Patched(bytes)
        = [i \in DOMAIN bytes |->
             IF Reaching(i) = {} THEN bytes[i]
             ELSE UInt(labelDefs[(CHOOSE q \in Reaching(i) : TRUE)[1]].value)
                    [(CHOOSE q \in Reaching(i) : TRUE)[2]]]
  BY DEF Patched, Reaching
<1>2. \A p : Reaching(a) = {p} => Reaching(a) # {} /\ (CHOOSE q \in Reaching(a) : TRUE) = p
  OBVIOUS
<1> QED  BY <1>1, <1>2

(* A reference that reaches a byte of an instruction is that of its operand.*)
LEMMA ReachesOperand ==
  ASSUME Positions, Layout, References, Address \in Nat, NEW i \in DOMAIN emitted,
         NEW k \in 1..Size(emitted[i]), NEW p \in Reaching(emitted[i].address + k)
  PROVE  emitted[i].op \in LabelOps /\ p = <<Low(emitted[i].arg), k - 1>> /\ k \in 2..5
<1>1. /\ p \in (DOMAIN labelRefs) \X (1..4) /\ p[1] \in DOMAIN labelRefs /\ p[2] \in 1..4
      /\ p = <<p[1], p[2]>>
  BY DEF Reaching
<1>2. PICK r \in DOMAIN labelRefs[p[1]].value :
        labelRefs[p[1]].value[r] + p[2] = emitted[i].address + k
  BY DEF Reaching
<1>3. PICK j \in DOMAIN emitted : /\ emitted[j].op \in LabelOps /\ Low(emitted[j].arg) = p[1]
                                  /\ labelRefs[p[1]].value[r] = emitted[j].address + 1
  BY <1>1 DEF References
<1>4. emitted[j].address \in Nat /\ emitted[i].address \in Nat /\ Size(emitted[j]) = 5
  BY <1>3, EndsWithin, Sizes
<1>5. p[2] + 1 \in 1..Size(emitted[j]) /\ emitted[i].address + k = emitted[j].address + (p[2] + 1)
  BY <1>1, <1>2, <1>3, <1>4
<1>6. i = j /\ k = p[2] + 1  BY <1>5, OwnBytes
<1> QED  BY <1>1, <1>3, <1>6

(* So the operands of jumps are patched, and nothing else is.               *)
LEMMA OnlyOperandsPatched ==
  ASSUME Positions, Layout, Bytes, References, Address \in Nat, NEW i \in DOMAIN emitted,
         NEW k \in 1..Size(emitted[i])
  PROVE  LET e == emitted[i]
             a == e.address + k
         IN /\ a \in DOMAIN bytecode
            /\ e.op \in LabelOps /\ k \in 2..5 =>
                 Patched(bytecode)[a] = UInt(labelDefs[Low(e.arg)].value)[k - 1]
            /\ e.op \notin LabelOps \/ k = 1 => Patched(bytecode)[a] = bytecode[a]
<1> DEFINE e == emitted[i]
           a == e.address + k
<1>1. e.address \in Nat /\ e.address + Size(e) <= Address /\ Size(e) \in Nat  BY EndsWithin
<1>2. a \in 1..Address  BY <1>1
<1>3. DOMAIN bytecode = 1..Address  BY DEF Bytes, Address
<1>4. \A p \in Reaching(a) : e.op \in LabelOps /\ p = <<Low(e.arg), k - 1>> /\ k \in 2..5
  BY ReachesOperand
<1>5. ASSUME e.op \in LabelOps, k \in 2..5
      PROVE  Reaching(a) = {<<Low(e.arg), k - 1>>}
  <2>1. /\ Low(e.arg) \in DOMAIN labelRefs
        /\ \E r \in DOMAIN labelRefs[Low(e.arg)].value :
             labelRefs[Low(e.arg)].value[r] = e.address + 1
    BY <1>5 DEF References
  <2>2. k - 1 \in 1..4 /\ (e.address + 1) + (k - 1) = a  BY <1>1, <1>5
  <2> HIDE DEF a, e
  <2>3. <<Low(e.arg), k - 1>> \in Reaching(a)  BY <2>1, <2>2 DEF Reaching
  <2> QED  BY <2>3, <1>4
<1>6. ASSUME e.op \notin LabelOps \/ k = 1 PROVE Reaching(a) = {}
  <2>1. k = 1 => k \notin 2..5  OBVIOUS
  <2> QED  BY <2>1, <1>4, <1>6
<1> HIDE DEF a, e
<1>7. a \in DOMAIN bytecode  BY <1>2, <1>3
<1>8. ASSUME e.op \in LabelOps, k \in 2..5
      PROVE  Patched(bytecode)[a] = UInt(labelDefs[Low(e.arg)].value)[k - 1]
  <2> DEFINE p == <<Low(e.arg), k - 1>>
  <2>1. Reaching(a) = {p}  BY <1>5, <1>8
  <2>2. p[1] = Low(e.arg) /\ p[2] = k - 1  OBVIOUS
  <2> HIDE DEF p
  <2>3. Patched(bytecode)[a] = UInt(labelDefs[p[1]].value)[p[2]]  BY <2>1, <1>7, PatchedAt
  <2> QED  BY <2>2, <2>3
<1>9. ASSUME e.op \notin LabelOps \/ k = 1 PROVE Patched(bytecode)[a] = bytecode[a]
  BY <1>6, <1>7, <1>9, PatchedAt
<1> QED  BY <1>7, <1>8, <1>9 DEF a, e

(* A module made within the limits: its parts are the builder's, and its    *)
(* references are patched.                                                  *)
LEMMA MadeFacts ==
  ASSUME Invariant, Made, WithinLimits
  PROVE  /\ todo = <<>> /\ begun = Len(tree) /\ Address \in Nat /\ Address < Word
         /\ module.bytecode = Patched(bytecode) /\ module.constants = constants
         /\ module.srcLoc = srcLoc
         /\ module.entryIndex = labelDefs[Low(globalFuncs["$init"])].value
<1>1. module = ModuleBuilt /\ todo = <<>> /\ begun = Len(tree)  BY DEF Invariant, Outcome
<1>2. /\ bytecode \in Seq(0..ByteSize + Len(INSTRUCTIONS) - 1) /\ constants \in Seq(Strings)
      /\ srcLoc \in Seq([index : 0..Address, location : Nat])
  BY DEF Invariant, Bytes, Locations
<1>3. ~Full(bytecode) /\ ~Full(constants) /\ ~Full(srcLoc) /\ Len(bytecode) < Word
  BY DEF WithinLimits, SegmentsEndEarly
<1>4. compactSegments(bytecode) = bytecode /\ compactSegments(constants) = constants
      /\ compactSegments(srcLoc) = srcLoc
  BY <1>2, <1>3, CompactsAll
<1>5. Address \in Nat /\ Address < Word  BY <1>2, <1>3 DEF Address
<1>6. /\ module.bytecode = Patched(compactSegments(bytecode))
      /\ module.constants = compactSegments(constants)
      /\ module.srcLoc = compactSegments(srcLoc)
      /\ module.entryIndex = labelDefs[Low(globalFuncs["$init"])].value
  BY <1>1 DEF ModuleBuilt
<1> QED  BY <1>1, <1>4, <1>5, <1>6

(* Reading four bytes that hold a word gives the word.                      *)
LEMMA ReadsWord ==
  ASSUME NEW a \in Nat, NEW n \in 0..Word - 1,
         \A k \in 1..4 : module.bytecode[a + k] = UInt(n)[k]
  PROVE  readU32Module(a) = n
<1>1. /\ ByteAt(a) = UInt(n)[1] /\ ByteAt(a + 1) = UInt(n)[2]
      /\ ByteAt(a + 2) = UInt(n)[3] /\ ByteAt(a + 3) = UInt(n)[4]
  <2>1. a + 1 + 1 = a + 2 /\ a + 2 + 1 = a + 3 /\ a + 3 + 1 = a + 4  OBVIOUS
  <2>2. 1 \in 1..4 /\ 2 \in 1..4 /\ 3 \in 1..4 /\ 4 \in 1..4  OBVIOUS
  <2> QED  BY <2>1, <2>2 DEF ByteAt
<1>2. readU32Module(a)
        = ((UInt(n)[1] * ByteSize + UInt(n)[2]) * ByteSize + UInt(n)[3]) * ByteSize + UInt(n)[4]
  BY <1>1 DEF readU32Module
<1> QED  BY <1>2, RoundTrip

(* Reading the index of a constant gives the constant.                      *)
LEMMA ReadsConstant ==
  ASSUME Bytes, OneConstantSegment, module.constants = constants, NEW a \in Nat, NEW c,
         Indexes(a, c), \A k \in 1..4 : module.bytecode[a + k] = bytecode[a + k]
  PROVE  readConstantModule(a) = c
<1>1. PICK n \in 0..Len(constants) - 1 : constants[n + 1] = c /\ Holds(a, n)  BY DEF Indexes
<1>2. n \in 0..Word - 1
  <2>1. Len(constants) \in Nat /\ Len(constants) <= SEGMENT_SIZE
    BY DEF Bytes, OneConstantSegment
  <2>2. SEGMENT_SIZE \in 1..Word /\ Word \in Nat  BY SegmentAssumption, ByteWord
  <2> QED  BY <2>1, <2>2
<1>3. \A k \in 1..4 : module.bytecode[a + k] = UInt(n)[k]  BY <1>1 DEF Holds
<1>4. readU32Module(a) = n  BY <1>2, <1>3, ReadsWord
<1> QED  BY <1>1, <1>4 DEF readConstantModule

(* An instruction reads back as it was emitted.                             *)
LEMMA ReadsEmitted ==
  ASSUME Invariant, Made, WithinLimits, NEW i \in DOMAIN emitted
  PROVE  ReadsAs(i)
<1> DEFINE e == emitted[i]
<1>1. /\ Positions /\ NamesFollow /\ Layout /\ Bytes /\ LabelMaps /\ References
      /\ LabelsFitByte /\ OneConstantSegment /\ CountsFitByte
  BY DEF Invariant, WithinLimits
<1>2. /\ todo = <<>> /\ begun = Len(tree) /\ Address \in Nat /\ Address < Word
      /\ module.bytecode = Patched(bytecode) /\ module.constants = constants
  BY MadeFacts
<1>3. e \in Records /\ e.address \in Nat /\ Size(e) \in Nat /\ Size(e) >= 1
  BY <1>1, <1>2, EndsWithin
<1>4. \A k \in 1..Size(e) :
        /\ e.op \in LabelOps /\ k \in 2..5 =>
             module.bytecode[e.address + k] = UInt(labelDefs[Low(e.arg)].value)[k - 1]
        /\ e.op \notin LabelOps \/ k = 1 => module.bytecode[e.address + k] = bytecode[e.address + k]
  BY <1>1, <1>2, OnlyOperandsPatched
<1>5. /\ e.op # "ARG_NAME" => bytecode[e.address + 1] = Op(e.op)
      /\ e.op \in ConstantOps => Indexes(e.address + 1, e.arg)
      /\ e.op = "ARG_NAME" => Indexes(e.address, e.arg)
      /\ e.op \in NumberOps => Holds(e.address + 1, e.arg)
      /\ e.op = "DEF_FUNC" => bytecode[e.address + 2] = Low(Len(e.arg))
  BY <1>1 DEF Bytes
<1>6. /\ e.op \in NumberOps => e.arg \in 0..Word - 1
      /\ e.op \in LabelOps => e.arg \in 0..nextLabel - 1
      /\ e.op = "DEF_FUNC" => e.arg \in Seq(Strings)
  BY <1>3 DEF Records, ConstantOps, NumberOps, LabelOps, PlainOps
<1>7. /\ e.op \in ConstantOps \cup NumberOps \cup LabelOps => Size(e) = 5
      /\ e.op = "ARG_NAME" => Size(e) = 4
      /\ e.op = "DEF_FUNC" => Size(e) = 2
  BY Sizes
<1>8. ("ARG_NAME" \notin LabelOps) /\ ("DEF_FUNC" \notin LabelOps)
      /\ ConstantOps \cap LabelOps = {} /\ NumberOps \cap LabelOps = {}
  BY DEF ConstantOps, NumberOps, LabelOps
<1> HIDE DEF e
<1>9. e.op # "ARG_NAME" => ByteAt(e.address) = Op(e.op)
  <2>1. 1 \in 1..Size(e)  BY <1>3
  <2> QED  BY <2>1, <1>4, <1>5 DEF ByteAt
<1>10. ASSUME e.op \in ConstantOps \cup NumberOps
       PROVE  \A k \in 1..4 : module.bytecode[e.address + 1 + k] = bytecode[e.address + 1 + k]
  <2> TAKE k \in 1..4
  <2>1. 1 + k \in 1..Size(e) /\ e.address + (1 + k) = e.address + 1 + k  BY <1>3, <1>7, <1>10
  <2>2. module.bytecode[e.address + (1 + k)] = bytecode[e.address + (1 + k)]
    BY <2>1, <1>4, <1>8, <1>10
  <2> QED  BY <2>1, <2>2
<1>11. e.address + 1 \in Nat  BY <1>3
<1>12. ASSUME e.op \in ConstantOps PROVE readConstantModule(e.address + 1) = e.arg
  <2>1. Indexes(e.address + 1, e.arg)  BY <1>5, <1>12
  <2> QED  BY <2>1, <1>1, <1>2, <1>10, <1>11, <1>12, ReadsConstant
<1>13. ASSUME e.op \in NumberOps PROVE readU32Module(e.address + 1) = e.arg
  <2>1. \A k \in 1..4 : module.bytecode[e.address + 1 + k] = UInt(e.arg)[k]
    BY <1>5, <1>10, <1>13 DEF Holds
  <2> QED  BY <2>1, <1>6, <1>11, <1>13, ReadsWord
<1>14. ASSUME e.op \in LabelOps PROVE <<e.arg, readU32Module(e.address + 1)>> \in placed
  <2> DEFINE c == Low(e.arg)
             v == labelDefs[c].value
  <2>1. c = e.arg
    <3>1. nextLabel \in Nat /\ nextLabel <= ByteSize  BY <1>1 DEF Positions, LabelsFitByte
    <3>2. e.arg \in 0..nextLabel - 1  BY <1>6, <1>14
    <3>3. e.arg \in Nat /\ e.arg < ByteSize  BY <3>1, <3>2, ByteAssumption
    <3> QED  BY <3>3, LowSmall
  <2>2. c \in DOMAIN labelRefs
    <3>1. \A j \in DOMAIN emitted : emitted[j].op \in LabelOps => Low(emitted[j].arg) \in DOMAIN labelRefs
      BY <1>1 DEF References
    <3> QED  BY <3>1, <1>14 DEF e
  <2>3. Defines(c) /\ \A d \in DOMAIN labelDefs : <<d, labelDefs[d].value>> \in placed
    BY <2>2, <1>1, <1>2, AllDefined
  <2>4. c \in DOMAIN labelDefs /\ <<c, v>> \in placed  BY <2>3 DEF Defines
  <2>5. v \in 0..Word - 1
    <3>1. v \in 0..Address  BY <2>4, <1>1 DEF LabelMaps
    <3> QED  BY <3>1, <1>2, ByteWord
  <2> HIDE DEF v, c
  <2>6. \A k \in 1..4 : module.bytecode[e.address + 1 + k] = UInt(v)[k]
    <3> TAKE k \in 1..4
    <3>1. 1 + k \in 1..Size(e) /\ 1 + k \in 2..5 /\ 1 + k - 1 = k
          /\ e.address + (1 + k) = e.address + 1 + k
      BY <1>3, <1>7, <1>14
    <3>2. module.bytecode[e.address + (1 + k)] = UInt(labelDefs[Low(e.arg)].value)[1 + k - 1]
      BY <3>1, <1>4, <1>14
    <3> QED  BY <3>1, <3>2 DEF v, c
  <2>7. readU32Module(e.address + 1) = v  BY <2>5, <2>6, <1>11, ReadsWord
  <2> QED  BY <2>1, <2>4, <2>7
<1>15. ASSUME e.op = "ARG_NAME" PROVE readConstantModule(e.address) = e.arg
  <2>1. \A k \in 1..4 : module.bytecode[e.address + k] = bytecode[e.address + k]
    BY <1>4, <1>7, <1>8, <1>15
  <2>2. Indexes(e.address, e.arg)  BY <1>5, <1>15
  <2> QED  BY <2>1, <2>2, <1>1, <1>2, <1>3, ReadsConstant
<1>16. ASSUME e.op = "DEF_FUNC"
       PROVE  /\ ByteAt(e.address + 1) = Len(e.arg)
              /\ \A k \in 1..Len(e.arg) : /\ i + k \in DOMAIN emitted
                                          /\ emitted[i + k].op = "ARG_NAME"
                                          /\ emitted[i + k].arg = e.arg[k]
  <2>1. Len(e.arg) \in Nat  BY <1>6, <1>16
  <2>2. Len(e.arg) < ByteSize  BY <1>1, <1>16 DEF CountsFitByte, e
  <2>3. Low(Len(e.arg)) = Len(e.arg)  BY <2>1, <2>2, LowSmall
  <2>4. module.bytecode[e.address + 2] = bytecode[e.address + 2]
    <3>1. 2 \in 1..Size(e)  BY <1>7, <1>16
    <3> QED  BY <3>1, <1>4, <1>8, <1>16
  <2>5. e.address + 1 + 1 = e.address + 2  BY <1>3
  <2>6. ByteAt(e.address + 1) = Len(e.arg)  BY <2>3, <2>4, <2>5, <1>5, <1>16 DEF ByteAt
  <2>7. ASSUME NEW k \in 1..Len(e.arg)
        PROVE  /\ i + k \in DOMAIN emitted
               /\ emitted[i + k].op = "ARG_NAME" /\ emitted[i + k].arg = e.arg[k]
    <3>1. k \in 1..Low(Len(e.arg))  BY <2>3
    <3>2. IF i + k <= Len(emitted)
          THEN emitted[i + k].op = "ARG_NAME" /\ emitted[i + k].arg = e.arg[k]
          ELSE i + k - Len(emitted) \in DOMAIN todo
      BY <3>1, <1>1, <1>16 DEF NamesFollow, e
    <3>3. DOMAIN todo = {}  BY <1>2
    <3>4. i \in 1..Len(emitted) /\ Len(emitted) \in Nat /\ DOMAIN emitted = 1..Len(emitted)
      BY <1>1 DEF Positions
    <3>5. k \in Nat  BY <2>1
    <3> QED  BY <3>2, <3>3, <3>4, <3>5
  <2> QED  BY <2>6, <2>7
<1> QED  BY <1>9, <1>12, <1>13, <1>14, <1>15, <1>16 DEF ReadsAs, e

(* The module made reads back as what has been emitted.                     *)
LEMMA ModuleReadsBack ==
  ASSUME Invariant
  PROVE  ReadsBack
<1>1. ASSUME WithinLimits PROVE module # Crashed
  BY <1>1 DEF Invariant, Outcome, WithinLimits
<1>2. ASSUME WithinLimits, Made
      PROVE  /\ \A i \in DOMAIN emitted :
                  emitted[i].address = IF i = 1 THEN 0 ELSE End(emitted[i - 1])
             /\ Len(module.bytecode) = End(emitted[Len(emitted)])
             /\ \A i \in DOMAIN emitted : ReadsAs(i)
             /\ <<globalFuncs["$init"], module.entryIndex>> \in placed
             /\ module.srcLoc = srcLoc
  <2>1. Positions /\ Layout /\ Bytes /\ CodeDue /\ Due  BY <1>2 DEF Invariant
  <2>2. /\ todo = <<>> /\ begun = Len(tree) /\ Address \in Nat
        /\ module.bytecode = Patched(bytecode) /\ module.srcLoc = srcLoc
        /\ module.entryIndex = labelDefs[Low(globalFuncs["$init"])].value
    BY <1>2, MadeFacts
  <2>3. \A i \in DOMAIN emitted : ReadsAs(i)  BY <1>2, ReadsEmitted
  <2>4. Len(module.bytecode) = End(emitted[Len(emitted)])
    <3>1. DOMAIN bytecode = 1..Address  BY <2>1 DEF Bytes, Address
    <3>2. Len(Patched(bytecode)) = Address
      <4> DEFINE p == Patched(bytecode)
                 S == {p[a] : a \in 1..Address}
      <4>1. DOMAIN p = 1..Address  BY <3>1 DEF Patched
      <4>2. p \in [1..Address -> S]  BY <3>1, Zenon DEF Patched
      <4> HIDE DEF S, p
      <4>3. p \in Seq(S)  BY <4>2, <2>2, SeqDef
      <4>4. Len(p) \in Nat /\ DOMAIN p = 1..Len(p)  BY <4>3
      <4>5. Len(p) = Address  BY <4>1, <4>4, <2>2
      <4> QED  BY <4>5, ZenonT(30) DEF p
    <3>3. Len(module.bytecode) = Address  BY <3>2, <2>2
    <3>4. begun > 0  BY <2>1, <2>2, LabelTypes
    <3>5. emitted # <<>>  BY <3>4, <2>1, <2>2 DEF CodeDue
    <3> QED  BY <3>3, <3>5, <2>1 DEF Layout
  <2>5. <<globalFuncs["$init"], module.entryIndex>> \in placed
    <3> DEFINE l == globalFuncs["$init"]
    <3>1. LabelsFitByte  BY <1>2 DEF WithinLimits
    <3>2. Placed = DOMAIN labelDefs /\ \A c \in DOMAIN labelDefs : <<c, labelDefs[c].value>> \in placed
      BY <1>2, <2>2, <3>1, AllDefined
    <3>3. l \in Targets
      <4>1. "$init" \in DOMAIN globalFuncs  BY <2>1, LabelTypes
      <4> QED  BY <4>1 DEF Targets
    <3>4. l \in DOMAIN labelDefs  BY <3>2, <3>3, <2>1, <2>2, AllPlaced
    <3>5. nextLabel \in Nat /\ nextLabel <= ByteSize /\ l \in 0..nextLabel - 1
      BY <3>1, <3>3, <2>1, LabelTypes DEF LabelsFitByte
    <3>6. Low(l) = l
      <4> HIDE DEF l
      <4>1. l \in Nat /\ l < ByteSize  BY <3>5, ByteAssumption
      <4> QED  BY <4>1, LowSmall
    <3> QED  BY <3>2, <3>4, <3>6, <2>2
  <2> QED  BY <2>1, <2>2, <2>3, <2>4, <2>5 DEF Layout
<1> QED  BY <1>1, <1>2 DEF ReadsBack

(* Every run: within the limits the module is made, and reads back, from    *)
(* its first byte to its last, as the instructions that were emitted.       *)
THEOREM AlwaysReadsBack == Spec => []ReadsBack
<1>1. Invariant => ReadsBack  BY ModuleReadsBack
<1> QED  BY <1>1, Invariance, PTL

-----------------------------------------------------------------------------
(* Sums that begin again.                                                   *)

Sums(f, gain, fresh, n) ==
  /\ f \in [1..n -> Int]
  /\ \A i \in 1..n : f[i] = IF i \in fresh THEN 0 ELSE f[i - 1] + gain[i - 1]

(* A non-empty set of numbers has one that no other is below.               *)
LEMMA LeastOf ==
  ASSUME NEW S \in SUBSET Nat, S # {}
  PROVE  \E m \in S : \A j \in S : m <= j
<1>1. \E x \in S : \A y \in S : <<y, x>> \notin OpToRel(<, Nat)
  BY NatLessThanWellFounded, WFMin
<1>2. PICK x \in S : \A y \in S : <<y, x>> \notin OpToRel(<, Nat)  BY <1>1
<1>3. ASSUME NEW y \in S PROVE x <= y
  <2>1. x \in Nat /\ y \in Nat  OBVIOUS
  <2>2. ~ (y < x)  BY <1>2, <2>1 DEF OpToRel
  <2> QED  BY <2>1, <2>2
<1> QED  BY <1>3

(* There are such sums of any gains.                                        *)
LEMMA SumsExist ==
  ASSUME NEW n \in Nat, NEW gain \in [1..n -> Int], NEW fresh, 1 \in fresh
  PROVE  \E f : Sums(f, gain, fresh, n)
<1> DEFINE S == {k \in 0..n : ~ \E f : Sums(f, gain, fresh, k)}
<1>1. SUFFICES ASSUME S # {} PROVE FALSE
  <2>1. n \in 0..n  OBVIOUS
  <2> QED  BY <2>1, <1>1
<1>2. S \in SUBSET Nat  OBVIOUS
<1>3. PICK m \in S : \A k \in S : m <= k
  <2> HIDE DEF S
  <2> QED  BY <1>1, <1>2, LeastOf
<1>4. m \in 0..n /\ ~ \E f : Sums(f, gain, fresh, m)  OBVIOUS
<1>5. CASE m = 0
  <2>1. Sums([i \in 1..0 |-> 0], gain, fresh, 0)  BY DEF Sums
  <2> QED  BY <2>1, <1>4, <1>5
<1>6. CASE m > 0
  <2>1. m - 1 \in 0..n /\ ~(m <= m - 1)  BY <1>4, <1>6
  <2>2. m - 1 \notin S  BY <2>1, <1>3
  <2>3. PICK f : Sums(f, gain, fresh, m - 1)  BY <2>1, <2>2
  <2> DEFINE last == IF m \in fresh THEN 0 ELSE f[m - 1] + gain[m - 1]
             g == [i \in 1..m |-> IF i = m THEN last ELSE f[i]]
  <2>4. last \in Int
    <3>1. CASE m \in fresh  BY <3>1
    <3>2. CASE m \notin fresh
      <4>1. m - 1 \in 1..n /\ m - 1 \in 1..m - 1  BY <3>2, <1>4, <1>6
      <4> QED  BY <4>1, <2>3 DEF Sums
    <3> QED  BY <3>1, <3>2
  <2>5. \A i \in 1..m - 1 : g[i] = f[i] /\ f[i] \in Int
    <3> HIDE DEF last
    <3>1. \A i \in 1..m - 1 : i \in 1..m /\ i # m  BY <1>4
    <3> QED  BY <3>1, <2>3 DEF Sums
  <2>6. g[m] = last
    <3>1. m \in 1..m  BY <1>4, <1>6
    <3> HIDE DEF last
    <3> QED  BY <3>1
  <2>7. \A i \in 1..m : i = m \/ i \in 1..m - 1  BY <1>4
  <2>8. g \in [1..m -> Int]
    <3> HIDE DEF last
    <3>1. \A i \in 1..m : (IF i = m THEN last ELSE f[i]) \in Int  BY <2>4, <2>5, <2>7
    <3> QED  BY <3>1
  <2>9. ASSUME NEW i \in 1..m
        PROVE  g[i] = IF i \in fresh THEN 0 ELSE g[i - 1] + gain[i - 1]
    <3> HIDE DEF g
    <3>1. i \in fresh \/ i - 1 \in 1..m - 1  BY <1>4
    <3>2. CASE i = m
      <4>1. i \in fresh \/ g[i - 1] = f[m - 1]  BY <3>1, <3>2, <2>5
      <4> QED  BY <4>1, <3>2, <2>6
    <3>3. CASE i \in 1..m - 1
      <4>1. g[i] = f[i] /\ f[i] = IF i \in fresh THEN 0 ELSE f[i - 1] + gain[i - 1]
        BY <3>3, <2>3, <2>5 DEF Sums
      <4>2. i \in fresh \/ g[i - 1] = f[i - 1]  BY <3>1, <2>5
      <4> QED  BY <4>1, <4>2
    <3> QED  BY <3>2, <3>3, <2>7
  <2> HIDE DEF g
  <2>10. Sums(g, gain, fresh, m)  BY <2>8, <2>9 DEF Sums
  <2> QED  BY <2>10, <1>4
<1> QED  BY <1>4, <1>5, <1>6

(* They are what Running adds up.                                           *)
LEMMA RunningIs ==
  ASSUME NEW n \in Nat, NEW gain \in [1..n -> Int], NEW fresh, 1 \in fresh,
         NEW f, Sums(f, gain, fresh, n)
  PROVE  Running(gain, fresh) = f
<1> DEFINE step(g) == [i \in 1..n |-> IF i \in fresh THEN 0 ELSE g[i - 1] + gain[i - 1]]
           sum == CHOOSE g : g = step(g)
<1>1. f = step(f)  BY DEF Sums
<1>2. sum = step(sum)  BY <1>1
<1>3. Running(gain, fresh) = sum  BY DEF Running
<1> HIDE DEF sum
<1>4. DOMAIN sum = 1..n  BY <1>2
<1>5. \A i \in 1..n : sum[i] = IF i \in fresh THEN 0 ELSE sum[i - 1] + gain[i - 1]
  BY <1>2
<1>6. f \in [1..n -> Int]
      /\ \A i \in 1..n : f[i] = IF i \in fresh THEN 0 ELSE f[i - 1] + gain[i - 1]
  BY DEF Sums
<1> DEFINE S == {i \in 1..n : sum[i] # f[i]}
<1>7. ASSUME S # {} PROVE FALSE
  <2>1. S \in SUBSET Nat  OBVIOUS
  <2>2. PICK m \in S : \A k \in S : m <= k
    <3> HIDE DEF S
    <3> QED  BY <1>7, <2>1, LeastOf
  <2>3. m \in 1..n /\ sum[m] # f[m]  OBVIOUS
  <2>4. m \notin fresh  BY <2>3, <1>5, <1>6
  <2>5. m - 1 \in 1..n /\ ~(m <= m - 1)  BY <2>3, <2>4
  <2>6. sum[m - 1] = f[m - 1]  BY <2>2, <2>5
  <2> QED  BY <2>3, <2>4, <2>6, <1>5, <1>6
<1>8. \A i \in 1..n : sum[i] = f[i]  BY <1>7
<1>9. sum = f
  <2>1. sum = [i \in 1..n |-> sum[i]]  BY <1>2, <1>4
  <2>2. f = [i \in 1..n |-> f[i]]  BY <1>6
  <2> QED  BY <2>1, <2>2, <1>8
<1> QED  BY <1>3, <1>9

-----------------------------------------------------------------------------
(* Items one after the other.                                               *)

(* What an item takes is a number, and what it leaves is one where it finds *)
(* what it takes.                                                           *)
Weighs(x) ==
  /\ Needs(x) \in Nat
  /\ \/ \A n \in Nat : After(x, n) = 0
     \/ \E g \in Int : Needs(x) + g >= 0 /\ \A n \in Nat : After(x, n) = n + g

(* More operands before an item are more after it.                          *)
LEMMA AfterMore ==
  ASSUME NEW x, Weighs(x), NEW k \in Nat, NEW n \in Nat, Needs(x) <= k, k <= n
  PROVE  After(x, k) \in Nat /\ After(x, n) \in Nat /\ After(x, k) <= After(x, n)
<1>1. Needs(x) \in Nat  BY DEF Weighs
<1>2. CASE \A i \in Nat : After(x, i) = 0  BY <1>2
<1>3. ASSUME NEW g \in Int, Needs(x) + g >= 0, \A i \in Nat : After(x, i) = i + g
      PROVE  After(x, k) \in Nat /\ After(x, n) \in Nat /\ After(x, k) <= After(x, n)
  <2>1. After(x, k) = k + g /\ After(x, n) = n + g  BY <1>3
  <2>2. k + g \in Nat /\ n + g \in Nat /\ k + g <= n + g  BY <1>1, <1>3
  <2> QED  BY <2>1, <2>2
<1> QED  BY <1>2, <1>3 DEF Weighs

(* The first item finds what it takes, and the others what they take after  *)
(* it.                                                                      *)
LEMMA WalksTail ==
  ASSUME NEW S, \A x \in S : Weighs(x), NEW s \in Seq(S), s # <<>>, NEW n \in Nat, NEW m \in Nat,
         Walks(s, n, m)
  PROVE  /\ Needs(s[1]) <= n /\ After(s[1], n) \in Nat
         /\ Walks(Tail(s), After(s[1], n), m)
<1> DEFINE l == Len(s)
<1>1. PICK w \in [1..l + 1 -> Nat] :
        /\ w[1] <= n /\ m <= w[l + 1]
        /\ \A j \in DOMAIN s : Needs(s[j]) <= w[j] /\ w[j + 1] <= After(s[j], w[j])
  BY DEF Walks
<1>2. /\ Tail(s) \in Seq(S) /\ l \in Nat /\ l >= 1 /\ s[1] \in S /\ Len(Tail(s)) = l - 1
      /\ \A i \in 1..l - 1 : Tail(s)[i] = s[i + 1]
  BY TailFacts
<1>3. DOMAIN s = 1..l /\ DOMAIN Tail(s) = 1..l - 1  BY <1>2
<1> DEFINE t == Tail(s)
<1> HIDE DEF l, t
<1>4. w[1] \in Nat /\ w[2] \in Nat /\ 1 \in DOMAIN s /\ 2 = 1 + 1  BY <1>1, <1>2, <1>3
<1>5. Needs(s[1]) <= w[1] /\ w[2] <= After(s[1], w[1])  BY <1>1, <1>4
<1>6. Weighs(s[1]) /\ Needs(s[1]) \in Nat  BY <1>2 DEF Weighs
<1>7. Needs(s[1]) <= n  BY <1>1, <1>4, <1>5, <1>6
<1>8. After(s[1], w[1]) \in Nat /\ After(s[1], n) \in Nat /\ After(s[1], w[1]) <= After(s[1], n)
  BY <1>1, <1>4, <1>5, <1>6, AfterMore
<1>9. w[2] <= After(s[1], n)  BY <1>4, <1>5, <1>8
<1> DEFINE v == [j \in 1..l |-> w[j + 1]]
<1>10. v \in [1..l -> Nat]
  <2>1. \A j \in 1..l : j + 1 \in 1..l + 1  BY <1>2
  <2> QED  BY <2>1, <1>1
<1>11. v[1] = w[2] /\ v[l] = w[l + 1]  BY <1>2, <1>4
<1>12. ASSUME NEW j \in 1..l - 1
       PROVE  Needs(t[j]) <= v[j] /\ v[j + 1] <= After(t[j], v[j])
  <2>1. j + 1 \in DOMAIN s /\ j \in 1..l /\ j + 1 \in 1..l  BY <1>2, <1>3
  <2>2. t[j] = s[j + 1] /\ v[j] = w[j + 1] /\ v[j + 1] = w[j + 1 + 1]  BY <2>1, <1>2 DEF t
  <2> QED  BY <2>1, <2>2, <1>1
<1> HIDE DEF v
<1>13. Len(t) = l - 1 /\ l - 1 + 1 = l /\ DOMAIN t = 1..l - 1  BY <1>2, <1>3 DEF t
<1>14. Walks(t, After(s[1], n), m)
  <2>1. v[1] <= After(s[1], n) /\ m <= v[l]  BY <1>1, <1>9, <1>11
  <2>2. v \in [1..Len(t) + 1 -> Nat]  BY <1>10, <1>13
  <2> QED  BY <2>1, <2>2, <1>12, <1>13 DEF Walks
<1> QED  BY <1>7, <1>8, <1>14 DEF t

(* One item.                                                                *)
LEMMA WalksOne ==
  ASSUME NEW x, NEW n \in Nat, NEW m \in Nat, Needs(x) <= n, m <= After(x, n)
  PROVE  Walks(<<x>>, n, m)
<1> DEFINE w == [j \in 1..2 |-> IF j = 1 THEN n ELSE m]
           s == <<x>>
<1>1. Len(s) = 1 /\ DOMAIN s = {1} /\ s[1] = x /\ 1 + 1 = 2  OBVIOUS
<1>2. w \in [1..2 -> Nat] /\ w[1] = n /\ w[2] = m  OBVIOUS
<1> HIDE DEF w, s
<1>3. Walks(s, n, m)
  <2>1. w \in [1..Len(s) + 1 -> Nat]  BY <1>1, <1>2
  <2>2. w[1] <= n /\ m <= w[Len(s) + 1]  BY <1>1, <1>2
  <2>3. \A j \in DOMAIN s : Needs(s[j]) <= w[j] /\ w[j + 1] <= After(s[j], w[j])  BY <1>1, <1>2
  <2> QED  BY <2>1, <2>2, <2>3 DEF Walks
<1> QED  BY <1>3 DEF s

(* Nothing leaves what there is.                                            *)
LEMMA WalksNothing ==
  ASSUME NEW n \in Nat, NEW m \in Nat, m <= n
  PROVE  Walks(<<>>, n, m)
<1> DEFINE w == [j \in 1..1 |-> n]
<1>1. w \in [1..Len(<<>>) + 1 -> Nat] /\ w[1] = n /\ Len(<<>>) + 1 = 1 /\ DOMAIN <<>> = {}  OBVIOUS
<1> HIDE DEF w
<1> QED  BY <1>1 DEF Walks

(* More may be there before, and less is left after.                        *)
LEMMA WalksMore ==
  ASSUME NEW s, Len(s) \in Nat, NEW n \in Nat, NEW m \in Nat, NEW i \in Nat, NEW j \in Nat,
         Walks(s, n, m), n <= i, j <= m
  PROVE  Walks(s, i, j)
<1>1. PICK w \in [1..Len(s) + 1 -> Nat] :
        /\ w[1] <= n /\ m <= w[Len(s) + 1]
        /\ \A k \in DOMAIN s : Needs(s[k]) <= w[k] /\ w[k + 1] <= After(s[k], w[k])
  BY DEF Walks
<1>2. w[1] \in Nat /\ w[Len(s) + 1] \in Nat  BY <1>1
<1>3. w[1] <= i /\ j <= w[Len(s) + 1]  BY <1>1, <1>2
<1> QED  BY <1>1, <1>3 DEF Walks

(* What the first items leave is enough for the others.                     *)
LEMMA WalksConcat ==
  ASSUME NEW S, \A x \in S : Weighs(x), NEW s \in Seq(S), NEW t \in Seq(S),
         NEW n \in Nat, NEW k \in Nat, NEW m \in Nat, Walks(s, n, k), Walks(t, k, m)
  PROVE  Walks(s \o t, n, m)
<1> DEFINE l == Len(s)
           r == Len(t)
           c == s \o t
<1>1. PICK u \in [1..l + 1 -> Nat] :
        /\ u[1] <= n /\ k <= u[l + 1]
        /\ \A j \in DOMAIN s : Needs(s[j]) <= u[j] /\ u[j + 1] <= After(s[j], u[j])
  BY DEF Walks
<1>2. PICK v \in [1..r + 1 -> Nat] :
        /\ v[1] <= k /\ m <= v[r + 1]
        /\ \A j \in DOMAIN t : Needs(t[j]) <= v[j] /\ v[j + 1] <= After(t[j], v[j])
  BY DEF Walks
<1>3. /\ Len(c) = l + r /\ c \in Seq(S) /\ l \in Nat /\ r \in Nat
      /\ DOMAIN s = 1..l /\ DOMAIN t = 1..r /\ DOMAIN c = 1..l + r
      /\ \A i \in 1..l : c[i] = s[i] /\ s[i] \in S
      /\ \A i \in 1..r : c[l + i] = t[i]
  <2>1. l \in Nat /\ r \in Nat /\ DOMAIN s = 1..l /\ DOMAIN t = 1..r /\ \A i \in 1..l : s[i] \in S
    OBVIOUS
  <2>2. /\ Len(c) = l + r /\ c \in Seq(S)
        /\ \A i \in 1..l : c[i] = s[i]
        /\ \A i \in 1..r : c[l + i] = t[i]
    BY ConcatLength
  <2> HIDE DEF l, r, c
  <2>3. DOMAIN c = 1..Len(c)  BY <2>2
  <2>4. DOMAIN c = 1..l + r  BY <2>2, <2>3
  <2> QED  BY <2>1, <2>2, <2>4
<1> DEFINE w == [j \in 1..l + r + 1 |-> IF j <= l THEN u[j] ELSE v[j - l]]
<1> HIDE DEF l, r, c
<1>4. w \in [1..l + r + 1 -> Nat]
  <2>1. ASSUME NEW j \in 1..l + r + 1 PROVE (IF j <= l THEN u[j] ELSE v[j - l]) \in Nat
    <3>1. CASE j <= l
      <4>1. j \in 1..l + 1  BY <3>1, <1>3
      <4> QED  BY <4>1, <3>1, <1>1
    <3>2. CASE ~(j <= l)
      <4>1. j - l \in 1..r + 1  BY <3>2, <1>3
      <4> QED  BY <4>1, <3>2, <1>2
    <3> QED  BY <3>1, <3>2
  <2> QED  BY <2>1
<1>5. \A j \in 1..l : w[j] = u[j]
  <2>1. \A j \in 1..l : j \in 1..l + r + 1 /\ j <= l  BY <1>3
  <2> QED  BY <2>1
<1>6. \A j \in 1..r + 1 : w[l + j] = v[j]
  <2> TAKE j \in 1..r + 1
  <2> DEFINE i == l + j
  <2>1. i \in 1..l + r + 1 /\ ~(i <= l) /\ i - l = j  BY <1>3
  <2> HIDE DEF i
  <2>2. w[i] = v[i - l]  BY <2>1
  <2> QED  BY <2>1, <2>2 DEF i
<1> HIDE DEF w
<1>7. u[1] \in Nat /\ u[l + 1] \in Nat /\ v[1] \in Nat /\ v[1] <= u[l + 1]
  <2>1. 1 \in 1..l + 1 /\ l + 1 \in 1..l + 1 /\ 1 \in 1..r + 1  BY <1>3
  <2>2. u[1] \in Nat /\ u[l + 1] \in Nat /\ v[1] \in Nat  BY <2>1, <1>1, <1>2
  <2> QED  BY <2>2, <1>1, <1>2
<1>8. w[l + 1] = v[1]
  <2>1. 1 \in 1..r + 1  BY <1>3
  <2> QED  BY <2>1, <1>6
<1>9. w[1] <= n
  <2>1. CASE l = 0  BY <2>1, <1>1, <1>7, <1>8
  <2>2. CASE l >= 1
    <3>1. 1 \in 1..l  BY <2>2, <1>3
    <3> QED  BY <3>1, <1>1, <1>5
  <2> QED  BY <2>1, <2>2, <1>3
<1>10. m <= w[l + r + 1]
  <2>1. r + 1 \in 1..r + 1 /\ l + (r + 1) = l + r + 1  BY <1>3
  <2>2. w[l + (r + 1)] = v[r + 1]  BY <2>1, <1>6
  <2> QED  BY <2>1, <2>2, <1>2
<1>11. ASSUME NEW j \in 1..l + r
       PROVE  Needs(c[j]) <= w[j] /\ w[j + 1] <= After(c[j], w[j])
  <2>1. CASE j \in 1..l
    <3>1. c[j] = s[j] /\ w[j] = u[j] /\ s[j] \in S  BY <2>1, <1>3, <1>5
    <3>2. Needs(s[j]) <= u[j] /\ u[j + 1] <= After(s[j], u[j])  BY <2>1, <1>1, <1>3
    <3>3. w[j + 1] <= u[j + 1] /\ w[j + 1] \in Nat /\ u[j + 1] \in Nat
      <4>1. CASE j = l  BY <4>1, <1>7, <1>8
      <4>2. CASE j # l
        <5>1. j + 1 \in 1..l /\ j + 1 \in 1..l + 1  BY <4>2, <2>1, <1>3
        <5>2. w[j + 1] = u[j + 1] /\ u[j + 1] \in Nat  BY <5>1, <1>5, <1>1
        <5> QED  BY <5>2
      <4> QED  BY <4>1, <4>2
    <3>4. After(s[j], u[j]) \in Nat
      <4>1. Weighs(s[j]) /\ u[j] \in Nat
        <5>1. j \in 1..l + 1  BY <2>1, <1>3
        <5> QED  BY <5>1, <3>1, <1>1
      <4> QED  BY <4>1, <3>2, AfterMore
    <3> QED  BY <3>1, <3>2, <3>3, <3>4
  <2>2. CASE j \notin 1..l
    <3> DEFINE i == j - l
    <3>1. i \in 1..r /\ l + i = j /\ i \in 1..r + 1 /\ i + 1 \in 1..r + 1 /\ l + (i + 1) = j + 1
      BY <2>2, <1>3
    <3> HIDE DEF i
    <3>2. c[j] = t[i] /\ w[j] = v[i] /\ w[j + 1] = v[i + 1]
      <4>1. c[l + i] = t[i] /\ w[l + i] = v[i] /\ w[l + (i + 1)] = v[i + 1]  BY <3>1, <1>3, <1>6
      <4> QED  BY <4>1, <3>1
    <3>3. Needs(t[i]) <= v[i] /\ v[i + 1] <= After(t[i], v[i])  BY <3>1, <1>2, <1>3
    <3> QED  BY <3>2, <3>3
  <2> QED  BY <2>1, <2>2
<1>12. Walks(c, n, m)
  <2>1. Len(c) + 1 = l + r + 1  BY <1>3
  <2> QED  BY <2>1, <1>3, <1>4, <1>9, <1>10, <1>11 DEF Walks
<1> QED  BY <1>12 DEF c

-----------------------------------------------------------------------------
(* What items take and leave.                                               *)

(* The arguments the interpreter counts are no more than there are.         *)
LEMMA ArityIs ==
  ASSUME NEW n \in Nat
  PROVE  Arity(n) \in Nat /\ Arity(n) <= n
BY DEF Arity

(* What an instruction takes and leaves is a number.                        *)
LEMMA StackType ==
  ASSUME NEW x, x.op = "CALL" => x.arg \in Nat
  PROVE  /\ Pops(x) \in Nat /\ Pushes(x) \in Nat /\ Gain(x) \in Int /\ Gain(x) = Pushes(x) - Pops(x)
         /\ Pops(x) + Gain(x) >= 0
<1>1. Pops(x) \in Nat
  <2>1. CASE x.op = "CALL"
    <3>1. Arity(x.arg) \in Nat  BY <2>1, ArityIs
    <3>2. Pops(x) = Arity(x.arg) + 1  BY <2>1 DEF Pops
    <3> QED  BY <3>1, <3>2
  <2>2. CASE x.op # "CALL"
    <3>1. Pops(x) \in {0, 1, 2, 3}  BY <2>2 DEF Pops
    <3> QED  BY <3>1
  <2> QED  BY <2>1, <2>2
<1>2. Pushes(x) \in Nat  BY DEF Pushes
<1>3. Gain(x) = Pushes(x) - Pops(x)  BY DEF Gain
<1> QED  BY <1>1, <1>2, <1>3

(* A subtree that is an expression takes nothing and leaves one operand.    *)
LEMMA ExpressionWeighs ==
  ASSUME NEW x, x.type \in Expressions
  PROVE  Needs(x) = 0 /\ \A n : After(x, n) = n + 1
<1>1. /\ x.type \in TokenTypes /\ x.type \notin {"DEFINE", "LABEL", "ARG_NAME", "EMIT"}
  BY DEF Expressions, TokenTypes, Opcode
<1>2. TokenNeeds(x) = 0 /\ TokenGain(x) = 1  BY DEF TokenNeeds, TokenGain
<1> QED  BY <1>1, <1>2 DEF Needs, After, IsDefFunc

(* An instruction to be emitted takes what it pops.                         *)
LEMMA EmitWeighs ==
  ASSUME NEW x, x.type = "EMIT"
  PROVE  /\ Needs(x) = Pops(x)
         /\ \A n : After(x, n) = IF x.op = "DEF_FUNC" THEN 0 ELSE n + Gain(x)
<1>1. "EMIT" \notin TokenTypes  BY DEF TokenTypes, Opcode
<1> QED  BY <1>1 DEF Needs, After, IsDefFunc

(* A token that is one instruction takes what its instruction does.         *)
LEMMA OpcodeWeighs ==
  ASSUME NEW x, x.type \in DOMAIN Opcode, x.type \notin Expressions
  PROVE  /\ Needs(x) = Pops(Own(x)) /\ \A n : After(x, n) = n + Gain(Own(x))
<1>1. /\ x.type \in TokenTypes /\ x.type \notin {"DEFINE", "LABEL", "ARG_NAME", "EMIT"}
  BY DEF TokenTypes, Opcode
<1>2. TokenNeeds(x) = Pops(Own(x)) /\ TokenGain(x) = Gain(Own(x))  BY DEF TokenNeeds, TokenGain
<1> QED  BY <1>1, <1>2 DEF Needs, After, IsDefFunc

(* Other items take nothing.                                                *)
LEMMA OtherWeighs ==
  ASSUME NEW x
  PROVE  /\ x.type = "SRC_LOC" => Needs(x) = 0 /\ \A n \in Nat : After(x, n) = n
         /\ x.type \in {"DEFINE", "ARG_NAME", "LABEL"} => Needs(x) = 0 /\ \A n : After(x, n) = 0
         /\ x.type \in {"ABS_JUMP", "COND_JUMP", "RETURN"} =>
              Needs(x) = 0 /\ \A n \in Nat : After(x, n) = n
<1>1. /\ "SRC_LOC" \notin TokenTypes /\ "DEFINE" \notin TokenTypes /\ "ARG_NAME" \notin TokenTypes
      /\ {"LABEL", "ABS_JUMP", "COND_JUMP", "RETURN"} \subseteq TokenTypes
  BY DEF TokenTypes, Opcode
<1>2. x.type \in {"LABEL", "ABS_JUMP", "COND_JUMP", "RETURN"} => TokenNeeds(x) = 0 /\ TokenGain(x) = 0
  BY DEF TokenNeeds, TokenGain, Expressions, Opcode
<1> QED  BY <1>1, <1>2 DEF Needs, After, IsDefFunc

(* Every token is so.                                                       *)
LEMMA TokenWeighs ==
  ASSUME NEW x, x.type \in TokenTypes, x.type = "OP_CALL" => x.arg \in Nat
  PROVE  Weighs(x)
<1>1. CASE x.type \in Expressions
  <2>1. Needs(x) = 0 /\ \A n \in Nat : After(x, n) = n + 1  BY <1>1, ExpressionWeighs
  <2>2. 1 \in Int /\ Needs(x) + 1 >= 0 /\ Needs(x) \in Nat  BY <2>1
  <2> QED  BY <2>1, <2>2 DEF Weighs
<1>2. CASE x.type \in DOMAIN Opcode /\ x.type \notin Expressions
  <2>1. Own(x).op = "CALL" => Own(x).arg \in Nat
    <3>1. Own(x).op = Opcode[x.type] /\ Own(x).arg = x.arg  BY DEF Own
    <3>2. Opcode[x.type] = "CALL" => x.type = "OP_CALL"  BY <1>2 DEF Opcode
    <3> QED  BY <3>1, <3>2
  <2>2. Pops(Own(x)) \in Nat /\ Gain(Own(x)) \in Int /\ Pops(Own(x)) + Gain(Own(x)) >= 0
    BY <2>1, StackType
  <2>3. Needs(x) = Pops(Own(x)) /\ \A n \in Nat : After(x, n) = n + Gain(Own(x))
    BY <1>2, OpcodeWeighs
  <2> QED  BY <2>2, <2>3 DEF Weighs
<1>3. CASE x.type = "LABEL"
  <2>1. Needs(x) = 0 /\ \A n \in Nat : After(x, n) = 0  BY <1>3, OtherWeighs
  <2> QED  BY <2>1 DEF Weighs
<1>4. CASE x.type \in {"ABS_JUMP", "COND_JUMP", "RETURN"}
  <2>1. Needs(x) = 0 /\ \A n \in Nat : After(x, n) = n  BY <1>4, OtherWeighs
  <2>2. \A n \in Nat : After(x, n) = n + 0  BY <2>1
  <2>3. 0 \in Int /\ Needs(x) + 0 >= 0 /\ Needs(x) \in Nat  BY <2>1
  <2> QED  BY <2>2, <2>3 DEF Weighs
<1> QED  BY <1>1, <1>2, <1>3, <1>4 DEF TokenTypes, Expressions

(* Every item is so.                                                        *)
LEMMA ItemWeighs ==
  ASSUME Positions, NEW x \in Items
  PROVE  Weighs(x)
<1>1. CASE x \in Emits
  <2>1. x.type = "EMIT"  BY <1>1 DEF Emits
  <2>2. x.op = "CALL" => x.arg \in Nat
    <3>1. x.op = "CALL" => x.arg \in 0..Word - 1  BY <1>1, EmitKinds DEF NumberOps
    <3> QED  BY <3>1, ByteWord
  <2>3. Pops(x) \in Nat /\ Gain(x) \in Int /\ Pops(x) + Gain(x) >= 0  BY <2>2, StackType
  <2> QED  BY <2>1, <2>3, EmitWeighs DEF Weighs
<1>2. CASE x \in Tokens
  <2>1. x.type \in TokenTypes /\ (x.type \in NumberTypes => x.arg \in 0..Word - 1)
    BY <1>2, CurrentTokens
  <2>2. x.type = "OP_CALL" => x.arg \in Nat  BY <2>1, ByteWord DEF NumberTypes
  <2> QED  BY <2>1, <2>2, TokenWeighs
<1>3. CASE x.type = "SRC_LOC"
  <2>1. Needs(x) = 0 /\ \A n \in Nat : After(x, n) = n  BY <1>3, OtherWeighs
  <2>2. \A n \in Nat : After(x, n) = n + 0  BY <2>1
  <2>3. 0 \in Int /\ Needs(x) + 0 >= 0 /\ Needs(x) \in Nat  BY <2>1
  <2> QED  BY <2>2, <2>3 DEF Weighs
<1>4. CASE x.type \in {"DEFINE", "ARG_NAME"}
  <2>1. Needs(x) = 0 /\ \A n \in Nat : After(x, n) = 0  BY <1>4, OtherWeighs
  <2> QED  BY <2>1 DEF Weighs
<1> QED  BY <1>1, <1>2, <1>3, <1>4 DEF Items

(* Subtrees leave one operand each.                                         *)
LEMMA ExpressionsWalk ==
  ASSUME NEW S, NEW s \in Seq(S), \A i \in DOMAIN s : s[i].type \in Expressions, NEW n \in Nat
  PROVE  Len(s) \in Nat /\ Walks(s, n, n + Len(s))
<1> DEFINE l == Len(s)
           w == [j \in 1..l + 1 |-> n + j - 1]
<1>1. l \in Nat /\ DOMAIN s = 1..l  OBVIOUS
<1> HIDE DEF l
<1>2. w \in [1..l + 1 -> Nat] /\ \A j \in 1..l + 1 : w[j] = n + j - 1  BY <1>1
<1>3. w[1] = n /\ w[l + 1] = n + l
  <2>1. 1 \in 1..l + 1 /\ l + 1 \in 1..l + 1 /\ n + 1 - 1 = n /\ n + (l + 1) - 1 = n + l  BY <1>1
  <2> QED  BY <2>1, <1>2
<1> HIDE DEF w
<1>4. ASSUME NEW j \in 1..l
      PROVE  Needs(s[j]) <= w[j] /\ w[j + 1] <= After(s[j], w[j])
  <2>1. Needs(s[j]) = 0 /\ After(s[j], w[j]) = w[j] + 1  BY <1>1, ExpressionWeighs
  <2>2. j \in 1..l + 1 /\ j + 1 \in 1..l + 1  BY <1>1
  <2>3. w[j] = n + j - 1 /\ w[j + 1] = n + (j + 1) - 1 /\ w[j] \in Nat  BY <2>2, <1>2
  <2> QED  BY <2>1, <2>3
<1>5. Walks(s, n, n + l)
  <2>1. w \in [1..Len(s) + 1 -> Nat] /\ w[1] <= n /\ n + l <= w[Len(s) + 1]
    BY <1>1, <1>2, <1>3 DEF l
  <2> QED  BY <2>1, <1>1, <1>4 DEF Walks
<1> QED  BY <1>1, <1>5 DEF l

(* An instruction with its location takes and leaves what it does without.  *)
LEMMA LocatedWalk ==
  ASSUME NEW token, NEW op, NEW arg, op # "DEF_FUNC", NEW n \in Nat, NEW m \in Nat,
         Pops(Emit(op, arg)) <= n, m <= n + Gain(Emit(op, arg))
  PROVE  Walks(Located(token, op, arg), n, m)
<1> DEFINE s == Located(token, op, arg)
           w == [j \in 1..3 |-> IF j = 3 THEN m ELSE n]
           e == Emit(op, arg)
<1>1. e.type = "EMIT" /\ e.op = op /\ Locate(token).type = "SRC_LOC"  BY DEF Emit, Locate
<1>2. Len(s) = 2 /\ DOMAIN s = {1, 2} /\ s[1] = Locate(token) /\ s[2] = e  BY DEF Located
<1>3. w \in [1..3 -> Nat] /\ w[1] = n /\ w[2] = n /\ w[3] = m  OBVIOUS
<1> HIDE DEF s, w, e
<1>4. Needs(s[1]) = 0 /\ After(s[1], n) = n  BY <1>1, <1>2, OtherWeighs
<1>5. Needs(s[2]) <= n /\ m <= After(s[2], n)
  <2>1. Needs(e) = Pops(e) /\ After(e, n) = n + Gain(e)  BY <1>1, EmitWeighs
  <2> QED  BY <2>1, <1>2 DEF e
<1>6. Walks(s, n, m)
  <2>1. w \in [1..Len(s) + 1 -> Nat] /\ w[1] <= n /\ m <= w[Len(s) + 1]  BY <1>2, <1>3
  <2>2. \A j \in DOMAIN s : Needs(s[j]) <= w[j] /\ w[j + 1] <= After(s[j], w[j])
    BY <1>2, <1>3, <1>4, <1>5
  <2> QED  BY <2>1, <2>2 DEF Walks
<1> QED  BY <1>6 DEF s

(* What a function's tokens and statements are like, from                   *)
(* OperandsAssumption.                                                      *)
LEMMA OperandFacts ==
  ASSUME NEW functions \in Trees, NEW f \in DOMAIN functions
  PROVE  LET func == functions[f]
         IN /\ func.params \in Seq(Names)
            /\ \A token \in Subtrees(func) : OperandsGiven(token)
            /\ \A i \in DOMAIN func.children : Heights(func)[i] >= TokenNeeds(func.children[i])
BY OperandsAssumption

(* What the current function's tokens are given.                            *)
LEMMA CurrentOperands ==
  ASSUME Positions, NEW token \in Tokens
  PROVE  OperandsGiven(token)
<1>1. begun # 0 /\ Tokens = Subtrees(tree[begun])  BY DEF Tokens
<1>2. tree \in Trees /\ begun \in DOMAIN tree
  <2>1. tree \in Trees /\ begun \in 1..Len(tree)  BY <1>1 DEF Positions
  <2> QED  BY <2>1, TreeFacts
<1> QED  BY <1>1, <1>2, OperandFacts

(* An instruction takes and leaves what another of its kind does.           *)
LEMMA SameStack ==
  ASSUME NEW x, NEW y, x.op = y.op, x.arg = y.arg
  PROVE  Pops(x) = Pops(y) /\ Pushes(x) = Pushes(y) /\ Gain(x) = Gain(y)
BY DEF Pops, Pushes, Gain

(* What instructions of some kinds take and leave.                          *)
LEMMA StackOf ==
  ASSUME NEW op, NEW arg
  PROVE  LET e == Emit(op, arg)
         IN /\ op \in PushOps => Pops(e) = 0 /\ Gain(e) = 1
            /\ op = "ABS_JUMP" => Pops(e) = 0 /\ Gain(e) = 0
            /\ op \in {"COND_JUMP_FALSE", "RETURN"} => Pops(e) = 1 /\ Gain(e) = -1
            /\ op = "CALL" /\ arg \in Nat => /\ Pops(e) = Arity(arg) + 1 /\ Gain(e) = 0 - Arity(arg)
                                             /\ Arity(arg) \in Nat /\ Arity(arg) <= arg
<1> DEFINE e == Emit(op, arg)
<1>1. e.op = op /\ e.arg = arg  BY DEF Emit
<1> HIDE DEF e
<1>2. op \in PushOps => Pops(e) = 0 /\ Pushes(e) = 1  BY <1>1 DEF Pops, Pushes, PushOps
<1>3. op = "ABS_JUMP" => Pops(e) = 0 /\ Pushes(e) = 0  BY <1>1 DEF Pops, Pushes, PushOps
<1>4. op \in {"COND_JUMP_FALSE", "RETURN"} => Pops(e) = 1 /\ Pushes(e) = 0
  BY <1>1 DEF Pops, Pushes, PushOps
<1>5. op = "CALL" => Pops(e) = Arity(arg) + 1 /\ Pushes(e) = 1
  BY <1>1 DEF Pops, Pushes, PushOps
<1>6. Gain(e) = Pushes(e) - Pops(e)  BY DEF Gain
<1>7. ASSUME op = "CALL", arg \in Nat
      PROVE  /\ Pops(e) = Arity(arg) + 1 /\ Gain(e) = 0 - Arity(arg)
             /\ Arity(arg) \in Nat /\ Arity(arg) <= arg
  <2>1. Arity(arg) \in Nat /\ Arity(arg) <= arg  BY <1>7, ArityIs
  <2> QED  BY <2>1, <1>5, <1>6, <1>7
<1> QED  BY <1>2, <1>3, <1>4, <1>6, <1>7 DEF e

(* An operator's parts leave its result: its symbol, its operands, the call.*)
LEMMA OperatorWalk ==
  ASSUME Positions, NEW token \in Tokens, NEW name \in Strings, NEW count \in 0..Word - 1,
         count <= Len(token.children), NEW n \in Nat
  PROVE  Walks(Operator(token, name, count), n, n + 1)
<1> DEFINE a == Located(token, "PUSH_BUILTIN", name)
           b == token.children
           c == Located(token, "CALL", count)
           l == Len(b)
<1>1. token.at \in Nat /\ \A i \in DOMAIN b : b[i].type \in Expressions
  BY CurrentTokens, CurrentOperands DEF OperandsGiven
<1>2. a \in Seq(Items) /\ b \in Seq(Items) /\ c \in Seq(Items)
  <2>1. Emit("PUSH_BUILTIN", name) \in Emits /\ Emit("CALL", count) \in Emits
    BY EmitIn DEF ConstantOps, NumberOps
  <2>2. Quiet(a) /\ Quiet(c) /\ Quiet(b)  BY <2>1, <1>1, QuietLocated, QuietChildren
  <2> QED  BY <2>2 DEF Quiet
<1>3. count \in Nat  BY ByteWord
<1>4. Walks(a, n, n + 1)
  <2>1. Pops(Emit("PUSH_BUILTIN", name)) = 0 /\ Gain(Emit("PUSH_BUILTIN", name)) = 1
    BY StackOf DEF PushOps
  <2> QED  BY <2>1, LocatedWalk
<1>5. l \in Nat /\ Walks(b, n + 1, n + 1 + l)
  <2> HIDE DEF b
  <2>1. n + 1 \in Nat  OBVIOUS
  <2> QED  BY <2>1, <1>1, <1>2, ExpressionsWalk
<1>6. Walks(c, n + 1 + l, n + 1)
  <2> DEFINE e == Emit("CALL", count)
  <2>1. Pops(e) = Arity(count) + 1 /\ Gain(e) = 0 - Arity(count)
        /\ Arity(count) \in Nat /\ Arity(count) <= count
    BY <1>3, StackOf
  <2> HIDE DEF l, e
  <2>2. count <= l  BY DEF l
  <2>3. n + 1 + l \in Nat /\ Pops(e) <= n + 1 + l /\ n + 1 <= n + 1 + l + Gain(e)
    BY <2>1, <2>2, <1>3, <1>5
  <2> QED  BY <2>3, LocatedWalk DEF e
<1> HIDE DEF a, b, c, l
<1>7. \A x \in Items : Weighs(x)  BY ItemWeighs
<1>8. n + 1 \in Nat /\ n + 1 + l \in Nat  BY <1>5
<1>9. Walks(a \o b, n, n + 1 + l) /\ a \o b \in Seq(Items)
  BY <1>2, <1>4, <1>5, <1>7, <1>8, WalksConcat, ConcatLength
<1>10. Walks((a \o b) \o c, n, n + 1)
  BY <1>2, <1>6, <1>7, <1>8, <1>9, WalksConcat
<1> QED  BY <1>10 DEF Operator, a, b, c

(* Where a token finds what it takes, its parts find what they take and     *)
(* leave what it leaves.                                                    *)
LEMMA PartsWalk ==
  ASSUME Positions, NEW token \in Tokens, NEW n \in Nat, Needs(token) <= n
  PROVE  After(token, n) \in Nat /\ Walks(Parts(token), n, After(token, n))
<1> DEFINE m == After(token, n)
           b == token.children
<1>0. /\ token.type \in TokenTypes /\ token.at \in Nat
      /\ Len(b) < Word
      /\ token.type \in NumberTypes => token.arg \in 0..Word - 1
      /\ token.type \in NameTypes => token.arg \in Strings
      /\ token.type \in {"LABEL", "ABS_JUMP", "COND_JUMP"} => token.arg \in DOMAIN labels
      /\ token.type = "NEW_FUNC" => token.arg \in DOMAIN globalFuncs
      /\ token.type = "CALL" => b # <<>>
  BY CurrentTokens
<1>1. /\ \A i \in DOMAIN b : b[i].type \in Expressions
      /\ token.type \in {"PUSH", "RETURN", "COND_JUMP"} => Len(b) = 1
  BY CurrentOperands DEF OperandsGiven
<1>2. b \in Seq(Items)  BY QuietChildren DEF Quiet
<1>3. Len(b) \in Nat /\ (b # <<>> => Len(b) >= 1)  BY <1>2
<1>4. \A x \in Items : Weighs(x)  BY ItemWeighs
<1>5. m \in Nat
  <2>1. token \in Items  BY DEF Items
  <2> QED  BY <2>1, <1>4, AfterMore
<1>6. \A k \in Nat : Walks(b, k, k + Len(b))
  <2> HIDE DEF b
  <2> QED  BY <1>1, <1>2, ExpressionsWalk
<1> HIDE DEF b
<1>7. token.type \in Expressions => m = n + 1  BY ExpressionWeighs
<1>8. token.type \in {"ABS_JUMP", "COND_JUMP", "RETURN"} => m = n  BY OtherWeighs
<1>9. token.type \in {"LABEL"} => m = 0  BY OtherWeighs
<1> HIDE DEF m
<1>10. CASE token.type \in DOMAIN Opcode
  <2> DEFINE op == Opcode[token.type]
             e == Emit(op, token.arg)
  <2>1. Parts(token) = Located(token, op, token.arg)
    <3>1. token.type \notin {"LABEL", "ABS_JUMP", "NEW_FUNC", "COND_JUMP", "RETURN", "PUSH", "CALL",
                            "TUPLE", "UNARY_OP", "BINARY_OP"}
      BY <1>10 DEF Opcode
    <3> QED  BY <3>1, <1>10 DEF Parts
  <2>2. op # "DEF_FUNC"  BY <1>10, OpcodeEmits
  <2>3. Pops(e) <= n /\ m <= n + Gain(e)
    <3>1. CASE token.type \in Expressions
      <4>1. op \in PushOps  BY <1>10, <3>1 DEF Opcode, Expressions, PushOps
      <4> HIDE DEF op
      <4>2. Pops(e) = 0 /\ Gain(e) = 1  BY <4>1, StackOf
      <4> QED  BY <4>2, <3>1, <1>7
    <3>2. CASE token.type \notin Expressions
      <4>1. Needs(token) = Pops(Own(token)) /\ m = n + Gain(Own(token))
        BY <1>10, <3>2, OpcodeWeighs DEF m
      <4>2. Own(token).op = e.op /\ Own(token).arg = e.arg  BY DEF Own, Emit
      <4> HIDE DEF e
      <4>3. Pops(e) = Pops(Own(token)) /\ Gain(e) = Gain(Own(token))  BY <4>2, SameStack
      <4>4. m <= m  BY <1>5
      <4> QED  BY <4>1, <4>3, <4>4
    <3> QED  BY <3>1, <3>2
  <2> HIDE DEF op
  <2> QED  BY <2>1, <2>2, <2>3, <1>5, LocatedWalk DEF m
<1>11. CASE token.type = "LABEL"
  <2> DEFINE item == Define(labels[token.arg])
  <2>1. Parts(token) = <<item>>  BY <1>11 DEF Parts, Opcode
  <2>2. Needs(item) = 0 /\ After(item, n) = 0  BY OtherWeighs DEF Define
  <2> HIDE DEF item
  <2> QED  BY <2>1, <2>2, <1>5, <1>9, <1>11, WalksOne DEF m
<1>12. CASE token.type = "ABS_JUMP"
  <2>1. Parts(token) = Located(token, "ABS_JUMP", labels[token.arg])
    BY <1>12 DEF Parts, Opcode
  <2>2. Pops(Emit("ABS_JUMP", labels[token.arg])) = 0 /\ Gain(Emit("ABS_JUMP", labels[token.arg])) = 0
    BY StackOf
  <2> QED  BY <2>1, <2>2, <1>5, <1>8, <1>12, LocatedWalk DEF m
<1>13. CASE token.type = "NEW_FUNC"
  <2>1. Parts(token) = Located(token, "CREATE_FUNC", globalFuncs[token.arg])
    BY <1>13 DEF Parts, Opcode
  <2>2. /\ Pops(Emit("CREATE_FUNC", globalFuncs[token.arg])) = 0
        /\ Gain(Emit("CREATE_FUNC", globalFuncs[token.arg])) = 1
    BY StackOf DEF PushOps
  <2>3. m = n + 1  BY <1>7, <1>13 DEF Expressions
  <2> QED  BY <2>1, <2>2, <2>3, <1>5, LocatedWalk DEF m
<1>14. ASSUME NEW op \in {"COND_JUMP_FALSE", "RETURN"}, NEW arg, Emit(op, arg) \in Emits, Len(b) = 1
       PROVE  Walks(b \o Located(token, op, arg), n, n)
  <2> DEFINE c == Located(token, op, arg)
  <2>1. Pops(Emit(op, arg)) = 1 /\ Gain(Emit(op, arg)) = -1  BY StackOf
  <2>2. n + 1 \in Nat /\ 1 <= n + 1 /\ n <= n + 1 + (-1)  OBVIOUS
  <2>3. Walks(c, n + 1, n)  BY <2>1, <2>2, LocatedWalk
  <2>4. c \in Seq(Items)  BY <1>0, <1>14, QuietLocated DEF Quiet
  <2>5. Walks(b, n, n + 1)  BY <1>6, <1>14
  <2> HIDE DEF c
  <2>6. Walks(b \o c, n, n)  BY <1>2, <1>4, <2>2, <2>3, <2>4, <2>5, WalksConcat
  <2> QED  BY <2>6 DEF c
<1>15. CASE token.type = "COND_JUMP"
  <2>1. Parts(token) = b \o Located(token, "COND_JUMP_FALSE", labels[token.arg])
    BY <1>15 DEF Parts, Opcode, b
  <2>2. Emit("COND_JUMP_FALSE", labels[token.arg]) \in Emits
    BY <1>15, <1>0, EmitIn DEF Targets, LabelOps
  <2> QED  BY <2>1, <2>2, <1>1, <1>5, <1>8, <1>14, <1>15 DEF m
<1>16. CASE token.type = "RETURN"
  <2>1. Parts(token) = b \o Located(token, "RETURN", 0)
    BY <1>16 DEF Parts, Opcode, b
  <2>2. Emit("RETURN", 0) \in Emits  BY EmitIn DEF PlainOps
  <2> QED  BY <2>1, <2>2, <1>1, <1>5, <1>8, <1>14, <1>16 DEF m
<1>17. CASE token.type = "PUSH"
  <2> DEFINE x == Locate(token)
             a == <<x>>
  <2>1. Parts(token) = a \o b
    BY <1>17 DEF Parts, Opcode, b
  <2>2. x \in Items /\ x.type = "SRC_LOC"  BY <1>0 DEF Locate, Items
  <2>3. Needs(x) = 0 /\ After(x, n) = n  BY <2>2, OtherWeighs
  <2> HIDE DEF x
  <2>4. a \in Seq(Items) /\ Walks(a, n, n)  BY <2>2, <2>3, WalksOne
  <2>5. Walks(b, n, n + 1) /\ n + 1 \in Nat
    <3>1. Len(b) = 1  BY <1>1, <1>17
    <3>2. Walks(b, n, n + Len(b))  BY <1>6
    <3> QED  BY <3>1, <3>2
  <2>6. m = n + 1  BY <1>7, <1>17 DEF Expressions
  <2> HIDE DEF a
  <2>7. Walks(a \o b, n, n + 1)  BY <1>2, <1>4, <2>4, <2>5, WalksConcat
  <2> QED  BY <2>1, <2>6, <2>7, <1>5 DEF m
<1>18. CASE token.type = "CALL"
  <2> DEFINE k == Len(b) - 1
             e == Emit("CALL", k)
             c == Located(token, "CALL", k)
  <2>1. Parts(token) = b \o c
    BY <1>18 DEF Parts, Opcode, Call, b
  <2>2. k \in 0..Word - 1 /\ k \in Nat
    BY <1>0, <1>3, <1>18, ByteWord
  <2>3. c \in Seq(Items)
    <3>1. e \in Emits  BY <2>2, EmitIn DEF NumberOps
    <3> QED  BY <3>1, <1>0, QuietLocated DEF Quiet
  <2>4. Pops(e) = Arity(k) + 1 /\ Gain(e) = 0 - Arity(k) /\ Arity(k) \in Nat /\ Arity(k) <= k
    BY <2>2, StackOf
  <2>5. n + Len(b) \in Nat /\ n + Len(b) = n + k + 1  BY <1>3
  <2>6. Walks(c, n + Len(b), n + 1)
    <3> HIDE DEF k, e
    <3>1. Pops(e) <= n + Len(b) /\ n + 1 <= n + Len(b) + Gain(e) /\ n + 1 \in Nat
      BY <2>2, <2>4, <2>5
    <3> QED  BY <3>1, <2>5, LocatedWalk DEF e
  <2>7. Walks(b, n, n + Len(b))  BY <1>6
  <2>8. m = n + 1 /\ n + 1 \in Nat  BY <1>7, <1>18 DEF Expressions
  <2> HIDE DEF c
  <2>9. Walks(b \o c, n, n + 1)  BY <1>2, <1>4, <2>3, <2>5, <2>6, <2>7, <2>8, WalksConcat
  <2> QED  BY <2>1, <2>8, <2>9, <1>5 DEF m
<1>19. CASE token.type = "TUPLE"
  <2> DEFINE count == Low(Len(token.children))
  <2>1. Parts(token) = Operator(token, "tuple", count)
    BY <1>19 DEF Parts, Opcode
  <2>2. count \in 0..Word - 1 /\ count <= Len(token.children)
    <3>1. count \in 0..ByteSize - 1 /\ Shifted(Len(b)) \in Nat
          /\ Len(b) = ByteSize * Shifted(Len(b)) + count
      BY <1>3, LowShifted DEF b
    <3>2. ByteSize * Shifted(Len(b)) \in Nat  BY <3>1, ByteWord
    <3>3. count <= Len(b)
      <4> HIDE DEF count
      <4> QED  BY <3>1, <3>2, ByteWord
    <3> HIDE DEF count
    <3> QED  BY <3>1, <3>3, ByteWord DEF b
  <2>3. "tuple" \in Strings  BY StringsAssumption
  <2>4. m = n + 1  BY <1>7, <1>19 DEF Expressions
  <2> HIDE DEF count
  <2> QED  BY <2>1, <2>2, <2>3, <2>4, <1>5, OperatorWalk DEF m
<1>20. CASE token.type \in {"UNARY_OP", "BINARY_OP"}
  <2> DEFINE count == Len(token.children)
  <2>1. Parts(token) = Operator(token, token.arg, count)
    BY <1>20 DEF Parts, Opcode
  <2>2. count \in 0..Word - 1 /\ count <= Len(token.children) /\ token.arg \in Strings
    BY <1>0, <1>3, <1>20, ByteWord DEF NameTypes, b
  <2>3. m = n + 1  BY <1>7, <1>20 DEF Expressions
  <2> HIDE DEF count
  <2> QED  BY <2>1, <2>2, <2>3, <1>5, OperatorWalk DEF m
<1> QED
  BY <1>0, <1>10, <1>11, <1>12, <1>13, <1>15, <1>16, <1>17, <1>18, <1>19, <1>20, <1>5
  DEF TokenTypes, m

-----------------------------------------------------------------------------
(* The arguments of a token's parts.                                        *)

Fitting(q) ==
  \A i \in DOMAIN q : q[i].type # "ARG_NAME" /\ (q[i].type = "EMIT" => Fits(q[i]))

(* Instructions whose arguments the interpreter takes, one after the other. *)
LEMMA FittingConcat ==
  ASSUME NEW S, NEW s \in Seq(S), NEW t \in Seq(S), Fitting(s), Fitting(t)
  PROVE  s \o t \in Seq(S) /\ Fitting(s \o t)
<1> DEFINE c == s \o t
           l == Len(s)
           r == Len(t)
<1>1. /\ Len(c) = l + r /\ c \in Seq(S) /\ l \in Nat /\ r \in Nat
      /\ DOMAIN s = 1..l /\ DOMAIN t = 1..r
      /\ \A i \in 1..l : c[i] = s[i]
      /\ \A i \in 1..r : c[l + i] = t[i]
  BY ConcatLength
<1>2. DOMAIN c = 1..l + r  BY <1>1
<1> HIDE DEF c, l, r
<1>3. ASSUME NEW i \in DOMAIN c
      PROVE  c[i].type # "ARG_NAME" /\ (c[i].type = "EMIT" => Fits(c[i]))
  <2>1. CASE i \in 1..l
    <3>1. c[i] = s[i] /\ i \in DOMAIN s  BY <2>1, <1>1
    <3> QED  BY <3>1 DEF Fitting
  <2>2. CASE i \notin 1..l
    <3> DEFINE k == i - l
    <3>1. k \in 1..r /\ l + k = i  BY <2>2, <1>1, <1>2
    <3> HIDE DEF k
    <3>2. c[i] = t[k] /\ k \in DOMAIN t
      <4>1. c[l + k] = t[k]  BY <3>1, <1>1
      <4> QED  BY <4>1, <3>1, <1>1
    <3> QED  BY <3>2 DEF Fitting
  <2> QED  BY <2>1, <2>2
<1>4. Fitting(c)  BY <1>3 DEF Fitting
<1> QED  BY <1>1, <1>4 DEF c

(* One instruction with its location.                                       *)
LEMMA FittingLocated ==
  ASSUME NEW token, token.at \in Nat, NEW op, NEW arg, Emit(op, arg) \in Emits, op # "DEF_FUNC",
         Fits(Emit(op, arg))
  PROVE  Located(token, op, arg) \in Seq(Items) /\ Fitting(Located(token, op, arg))
<1> DEFINE s == Located(token, op, arg)
<1>1. s \in Seq(Items)  BY QuietLocated DEF Quiet
<1>2. DOMAIN s = {1, 2} /\ s[1] = Locate(token) /\ s[2] = Emit(op, arg)  BY DEF Located
<1>3. Locate(token).type = "SRC_LOC"  BY DEF Locate
<1>4. Emit(op, arg).type = "EMIT"  BY DEF Emit
<1> HIDE DEF s
<1>5. Fitting(s)  BY <1>2, <1>3, <1>4 DEF Fitting
<1> QED  BY <1>1, <1>5 DEF s

(* The instructions whose arguments the interpreter does not look at.       *)
LEMMA FitsAny ==
  ASSUME NEW op \in {"PUSH_BUILTIN", "CREATE_FUNC", "COND_JUMP_FALSE", "ABS_JUMP", "RETURN",
                     "PUSH_NONE"}, NEW arg
  PROVE  Fits(Emit(op, arg))
BY DEF Fits, Emit, LiteralOps

(* Calls.                                                                   *)
LEMMA FitsCall ==
  ASSUME NEW count, Arity(count) > 0
  PROVE  Fits(Emit("CALL", count))
BY DEF Fits, Emit, LiteralOps

(* Subtrees are no instructions yet.                                        *)
LEMMA FittingChildren ==
  ASSUME Positions, NEW token \in Tokens
  PROVE  token.children \in Seq(Items) /\ Fitting(token.children)
<1>1. token.children \in Seq(Items)  BY QuietChildren DEF Quiet
<1>2. \A i \in DOMAIN token.children : token.children[i].type \in Expressions
  BY CurrentOperands DEF OperandsGiven
<1>3. "EMIT" \notin Expressions /\ "ARG_NAME" \notin Expressions  BY DEF Expressions
<1> QED  BY <1>1, <1>2, <1>3 DEF Fitting

(* A token that is one instruction.                                         *)
LEMMA FitsOpcode ==
  ASSUME NEW token, token.type \in DOMAIN Opcode, OperandsGiven(token)
  PROVE  Fits(Emit(Opcode[token.type], token.arg))
<1> DEFINE op == Opcode[token.type]
           e == Emit(op, token.arg)
<1>1. e.op = op /\ e.arg = token.arg  BY DEF Emit
<1>2. op \in LiteralOps => Literal(op, token.arg) \in Literals  BY DEF OperandsGiven
<1>3. op \in {"LOAD", "STORE"} => token.type \in {"IDENTIFIER", "STORE"}  BY DEF Opcode
<1>4. op = "CALL" => token.type = "OP_CALL"  BY DEF Opcode
<1>5. op # "DEF_FUNC"  BY DEF Opcode
<1>6. op \in {"LOAD", "STORE"} => token.arg \in Names  BY <1>3 DEF OperandsGiven
<1>7. token.type = "OP_CALL" => Arity(token.arg) > 0
  BY DEF OperandsGiven, Arguments
<1> HIDE DEF op, e
<1> QED  BY <1>1, <1>2, <1>4, <1>5, <1>6, <1>7 DEF Fits, e, op

(* An operator: its symbol, its operands, the call.                         *)
LEMMA FittingOperator ==
  ASSUME Positions, NEW token \in Tokens, NEW name \in Strings, NEW count \in 0..Word - 1,
         Arity(count) > 0
  PROVE  Fitting(Operator(token, name, count))
<1> DEFINE a == Located(token, "PUSH_BUILTIN", name)
           b == token.children
           c == Located(token, "CALL", count)
<1>1. token.at \in Nat  BY CurrentTokens
<1>2. Emit("PUSH_BUILTIN", name) \in Emits /\ Emit("CALL", count) \in Emits
  BY EmitIn DEF ConstantOps, NumberOps
<1>3. Fits(Emit("PUSH_BUILTIN", name)) /\ Fits(Emit("CALL", count))  BY FitsAny, FitsCall
<1>4. a \in Seq(Items) /\ Fitting(a) /\ c \in Seq(Items) /\ Fitting(c)
  BY <1>1, <1>2, <1>3, FittingLocated
<1>5. b \in Seq(Items) /\ Fitting(b)  BY FittingChildren
<1> HIDE DEF a, b, c
<1>6. a \o b \in Seq(Items) /\ Fitting(a \o b)  BY <1>4, <1>5, FittingConcat
<1>7. Fitting((a \o b) \o c)  BY <1>4, <1>6, FittingConcat
<1> QED  BY <1>7 DEF Operator, a, b, c

(* The parts of a token.                                                    *)
LEMMA PartsFit ==
  ASSUME Positions, NEW token \in Tokens
  PROVE  Fitting(Parts(token))
<1> DEFINE b == token.children
<1>0. /\ token.type \in TokenTypes /\ token.at \in Nat
      /\ Len(b) < Word
      /\ token.type \in NameTypes => token.arg \in Strings
      /\ token.type \in {"LABEL", "ABS_JUMP", "COND_JUMP"} => token.arg \in DOMAIN labels
      /\ token.type = "NEW_FUNC" => token.arg \in DOMAIN globalFuncs
      /\ token.type = "CALL" => b # <<>>
  BY CurrentTokens
<1>1. OperandsGiven(token)  BY CurrentOperands
<1>2. b \in Seq(Items) /\ Fitting(b)  BY FittingChildren
<1>3. Len(b) \in Nat /\ (b # <<>> => Len(b) >= 1)  BY <1>2
<1>4. token.type \in {"CALL", "TUPLE", "UNARY_OP", "BINARY_OP"} => Arity(Arguments(token)) > 0
  BY <1>1 DEF OperandsGiven
<1> HIDE DEF b
<1>5. CASE token.type \in DOMAIN Opcode
  <2>1. Parts(token) = Located(token, Opcode[token.type], token.arg)
    <3>1. token.type \notin {"LABEL", "ABS_JUMP", "NEW_FUNC", "COND_JUMP", "RETURN", "PUSH", "CALL",
                            "TUPLE", "UNARY_OP", "BINARY_OP"}
      BY <1>5 DEF Opcode
    <3> QED  BY <3>1, <1>5 DEF Parts
  <2>2. Emit(Opcode[token.type], token.arg) \in Emits /\ Opcode[token.type] # "DEF_FUNC"
    BY <1>5, OpcodeEmits
  <2> QED  BY <2>1, <2>2, <1>0, <1>1, <1>5, FitsOpcode, FittingLocated
<1>6. CASE token.type = "LABEL"
  <2> DEFINE item == Define(labels[token.arg])
  <2>1. Parts(token) = <<item>>  BY <1>6 DEF Parts, Opcode
  <2>2. item.type = "DEFINE"  BY DEF Define
  <2> HIDE DEF item
  <2> QED  BY <2>1, <2>2 DEF Fitting
<1>7. CASE token.type = "ABS_JUMP"
  <2>1. Parts(token) = Located(token, "ABS_JUMP", labels[token.arg])
    BY <1>7 DEF Parts, Opcode
  <2>2. Emit("ABS_JUMP", labels[token.arg]) \in Emits
    BY <1>7, <1>0, EmitIn DEF Targets, LabelOps
  <2> QED  BY <2>1, <2>2, <1>0, FitsAny, FittingLocated
<1>8. CASE token.type = "NEW_FUNC"
  <2>1. Parts(token) = Located(token, "CREATE_FUNC", globalFuncs[token.arg])
    BY <1>8 DEF Parts, Opcode
  <2>2. Emit("CREATE_FUNC", globalFuncs[token.arg]) \in Emits
    BY <1>8, <1>0, EmitIn DEF Targets, LabelOps
  <2> QED  BY <2>1, <2>2, <1>0, FitsAny, FittingLocated
<1>9. CASE token.type = "COND_JUMP"
  <2>1. Parts(token) = b \o Located(token, "COND_JUMP_FALSE", labels[token.arg])
    BY <1>9 DEF Parts, Opcode, b
  <2>2. Emit("COND_JUMP_FALSE", labels[token.arg]) \in Emits
    BY <1>9, <1>0, EmitIn DEF Targets, LabelOps
  <2> QED  BY <2>1, <2>2, <1>0, <1>2, FitsAny, FittingLocated, FittingConcat
<1>10. CASE token.type = "RETURN"
  <2>1. Parts(token) = b \o Located(token, "RETURN", 0)
    BY <1>10 DEF Parts, Opcode, b
  <2>2. Emit("RETURN", 0) \in Emits  BY EmitIn DEF PlainOps
  <2> QED  BY <2>1, <2>2, <1>0, <1>2, FitsAny, FittingLocated, FittingConcat
<1>11. CASE token.type = "PUSH"
  <2> DEFINE x == Locate(token)
             a == <<x>>
  <2>1. Parts(token) = a \o b  BY <1>11 DEF Parts, Opcode, b
  <2>2. x \in Items /\ x.type = "SRC_LOC"  BY <1>0 DEF Locate, Items
  <2> HIDE DEF x
  <2>3. a \in Seq(Items) /\ Fitting(a)  BY <2>2 DEF Fitting
  <2> HIDE DEF a
  <2> QED  BY <2>1, <2>3, <1>2, FittingConcat
<1>12. CASE token.type = "CALL"
  <2> DEFINE k == Len(b) - 1
             c == Located(token, "CALL", k)
  <2>1. Parts(token) = b \o c  BY <1>12 DEF Parts, Opcode, Call, b
  <2>2. k \in 0..Word - 1  BY <1>0, <1>3, <1>12, ByteWord
  <2>3. Emit("CALL", k) \in Emits  BY <2>2, EmitIn DEF NumberOps
  <2>4. Arity(k) > 0  BY <1>4, <1>12 DEF Arguments, b
  <2>5. c \in Seq(Items) /\ Fitting(c)  BY <2>3, <2>4, <1>0, FitsCall, FittingLocated
  <2> HIDE DEF c
  <2> QED  BY <2>1, <2>5, <1>2, FittingConcat
<1>13. CASE token.type = "TUPLE"
  <2> DEFINE count == Low(Len(token.children))
  <2>1. Parts(token) = Operator(token, "tuple", count)
    BY <1>13 DEF Parts, Opcode
  <2>2. count \in 0..Word - 1
    <3>1. count \in 0..ByteSize - 1
      BY <1>3, LowShifted DEF b
    <3> HIDE DEF count
    <3> QED  BY <3>1, ByteWord
  <2>3. "tuple" \in Strings  BY StringsAssumption
  <2>4. Arity(count) > 0  BY <1>4, <1>13 DEF Arguments
  <2> HIDE DEF count
  <2> QED  BY <2>1, <2>2, <2>3, <2>4, FittingOperator
<1>14. CASE token.type \in {"UNARY_OP", "BINARY_OP"}
  <2> DEFINE count == Len(token.children)
  <2>1. Parts(token) = Operator(token, token.arg, count)
    BY <1>14 DEF Parts, Opcode
  <2>2. count \in 0..Word - 1 /\ token.arg \in Strings
    BY <1>0, <1>3, <1>14, ByteWord DEF NameTypes, b
  <2>3. Arity(count) > 0  BY <1>4, <1>14 DEF Arguments
  <2> HIDE DEF count
  <2> QED  BY <2>1, <2>2, <2>3, FittingOperator
<1> QED
  BY <1>0, <1>5, <1>6, <1>7, <1>8, <1>9, <1>10, <1>11, <1>12, <1>13, <1>14
  DEF TokenTypes

-----------------------------------------------------------------------------
(* The program, as what is left of it is compiled.                          *)

(* An item that is neither a constructor nor a name of its is followed by   *)
(* no name.                                                                 *)
LEMMA NoNameNext ==
  ASSUME Positions, NamesFollow, NamesOwned, todo # <<>>,
         todo[1].type \notin {"EMIT", "ARG_NAME"}, 2 \in DOMAIN todo
  PROVE  todo[2].type # "ARG_NAME"
<1>1. SUFFICES ASSUME todo[2].type = "ARG_NAME" PROVE FALSE
  OBVIOUS
<1>2. Len(emitted) \in Nat /\ DOMAIN emitted = 1..Len(emitted) /\ todo \in Seq(Items)
  BY DEF Positions
<1>3. CASE \E d \in DOMAIN emitted : /\ emitted[d].op = "DEF_FUNC"
                                    /\ Len(emitted) + 2 <= d + Low(Len(emitted[d].arg))
  <2>1. PICK d \in DOMAIN emitted : /\ emitted[d].op = "DEF_FUNC"
                                    /\ Len(emitted) + 2 <= d + Low(Len(emitted[d].arg))
    BY <1>3
  <2>2. Low(Len(emitted[d].arg)) \in Nat
    <3>1. emitted[d] \in Records  BY <1>2 DEF Positions
    <3>2. emitted[d].arg \in Seq(Strings)  BY <2>1, <3>1, RecordKinds
    <3>3. Len(emitted[d].arg) \in Nat  BY <3>2
    <3> QED  BY <3>3, LowShifted
  <2> DEFINE n == Len(emitted)
             count == Low(Len(emitted[d].arg))
             k == n + 1 - d
  <2>3. /\ k \in 1..count /\ d + k = n + 1
        /\ ~(d + k <= n) /\ d + k - n = 1
    <3>1. n \in Nat /\ d \in 1..n /\ count \in Nat /\ n + 2 <= d + count
      BY <1>2, <2>1, <2>2
    <3> HIDE DEF n, count
    <3> QED  BY <3>1
  <2> HIDE DEF k
  <2>4. LET next == d + k - Len(emitted)
        IN next \in DOMAIN todo /\ IsName(todo[next], emitted[d].arg[k])
    BY <2>1, <2>3 DEF NamesFollow
  <2>5. IsName(todo[1], emitted[d].arg[k])  BY <2>3, <2>4
  <2> QED  BY <2>5 DEF IsName
<1>4. CASE \E d \in DOMAIN todo : IsDefFunc(todo[d]) /\ d < 2
  <2>1. PICK d \in DOMAIN todo : IsDefFunc(todo[d]) /\ d < 2  BY <1>4
  <2>2. d = 1  BY <2>1, <1>2
  <2> QED  BY <2>1, <2>2 DEF IsDefFunc
<1> QED  BY <1>1, <1>3, <1>4 DEF NamesOwned

(* What an item is compiled to leaves the order of the instructions, the    *)
(* names and the arguments as they must be; where a label is put down,      *)
(* something follows.                                                       *)
LEMMA ExpansionProgram ==
  ASSUME Positions, NamesFollow, Ends, DefsFirst, NamesOwned, Arrives, ArgumentsFit,
         NEW q \in Seq(Items), Parted(q), Fitting(q), Expansion(q),
         todo[1].type \in {"DEFINE", "SRC_LOC"} => q = <<>>,
         \A p \in placed' : p \in placed \/ p[2] = Address
  PROVE  Ends' /\ DefsFirst' /\ NamesOwned' /\ Arrives' /\ ArgumentsFit'
<1> DEFINE l == Len(todo)
           r == Len(q)
<1>1. /\ r \in Nat /\ l \in Nat /\ l >= 1
      /\ DOMAIN q = 1..r /\ DOMAIN todo = 1..l
      /\ DOMAIN todo' = 1 .. r + l - 1 /\ todo' \in Seq(Items)
      /\ \A i \in 1..r : todo'[i] = q[i]
      /\ \A i \in DOMAIN todo' : i > r => i - r + 1 \in 2..l /\ todo'[i] = todo[i - r + 1]
      /\ \A i \in 2..l : i - 1 + r \in DOMAIN todo' /\ todo'[i - 1 + r] = todo[i]
  BY ExpansionFacts
<1>2. Len(todo') = r + l - 1
  <2>1. todo \in Seq(Items) /\ todo # <<>> /\ todo' = q \o Tail(todo)  BY DEF Positions, Expansion
  <2>2. Tail(todo) \in Seq(Items) /\ Len(Tail(todo)) = l - 1  BY <2>1, TailFacts
  <2>3. Len(q \o Tail(todo)) = r + (l - 1)  BY <2>2, ConcatLength
  <2> QED  BY <2>1, <2>3, <1>1
<1> HIDE DEF l, r
<1>3. emitted' = emitted /\ Address' = Address /\ todo # <<>> /\ todo[1].type \notin {"EMIT", "ARG_NAME"}
  BY DEF Expansion, Address
<1>4. l >= 2 /\ todo[l].type = "EMIT" /\ todo[l].op = "RETURN"
  <2>1. todo[l].type = "EMIT" /\ todo[l].op = "RETURN"  BY <1>3 DEF Ends, l
  <2> QED  BY <2>1, <1>1, <1>3
<1>5. r + l - 1 \in DOMAIN todo' /\ todo'[r + l - 1] = todo[l] /\ todo' # <<>>
  <2>1. l \in 2..l /\ l - 1 + r = r + l - 1  BY <1>1, <1>4
  <2>2. l - 1 + r \in DOMAIN todo' /\ todo'[l - 1 + r] = todo[l]  BY <2>1, <1>1
  <2>3. todo' # <<>>  BY <2>2
  <2> QED  BY <2>1, <2>2, <2>3
<1>6. Ends'  BY <1>2, <1>4, <1>5 DEF Ends
<1>7. ASSUME NEW j \in DOMAIN todo', IsDefFunc(todo'[j])
      PROVE  /\ \A k \in 1..j - 1 : todo'[k].type \in {"DEFINE", "SRC_LOC"}
             /\ emitted' = <<>> \/ LastOp' = "RETURN"
  <2>1. j > r
    <3>1. SUFFICES ASSUME j \in 1..r PROVE FALSE  BY <1>1
    <3>2. IsDefFunc(q[j])  BY <3>1, <1>1, <1>7
    <3> QED  BY <3>1, <3>2, <1>1 DEF Parted, IsDefFunc
  <2> DEFINE i == j - r + 1
  <2>2. i \in 2..l /\ todo'[j] = todo[i] /\ i \in DOMAIN todo /\ j = i - 1 + r
    <3>1. i \in 2..l /\ todo'[j] = todo[i]  BY <2>1, <1>1
    <3> QED  BY <3>1, <1>1
  <2> HIDE DEF i
  <2>3. /\ \A k \in 1..i - 1 : todo[k].type \in {"DEFINE", "SRC_LOC"}
        /\ emitted = <<>> \/ LastOp = "RETURN"
    BY <2>2, <1>7 DEF DefsFirst
  <2>4. q = <<>> /\ r = 0
    <3>1. 1 \in 1..i - 1  BY <2>2
    <3> QED  BY <3>1, <2>3 DEF r
  <2>5. ASSUME NEW k \in 1..j - 1 PROVE todo'[k].type \in {"DEFINE", "SRC_LOC"}
    <3> DEFINE m == k + 1
    <3>1. k \in DOMAIN todo' /\ k > r /\ k - r + 1 = m /\ m \in 1..i - 1  BY <2>2, <2>4, <1>1
    <3> HIDE DEF m
    <3>2. todo'[k] = todo[m]  BY <3>1, <1>1
    <3> QED  BY <3>1, <3>2, <2>3
  <2>6. LastOp' = LastOp  BY <1>3 DEF LastOp
  <2> QED  BY <2>3, <2>5, <2>6, <1>3
<1>8. DefsFirst'
  <2>1. \A i \in DOMAIN emitted' : emitted'[i].op = "DEF_FUNC" =>
          i = 1 \/ emitted'[i - 1].op = "RETURN"
    BY <1>3 DEF DefsFirst
  <2>2. \A j \in DOMAIN todo' : IsDefFunc(todo'[j]) =>
          /\ \A k \in 1..j - 1 : todo'[k].type \in {"DEFINE", "SRC_LOC"}
          /\ emitted' = <<>> \/ LastOp' = "RETURN"
    BY <1>7
  <2> QED  BY <2>1, <2>2 DEF DefsFirst
<1>9. Len(emitted) \in Nat /\ DOMAIN emitted = 1..Len(emitted)  BY DEF Positions
<1>10. ASSUME NEW k \in DOMAIN todo', todo'[k].type = "ARG_NAME"
       PROVE  \/ \E d \in DOMAIN emitted' :
                   /\ emitted'[d].op = "DEF_FUNC"
                   /\ Len(emitted') + k <= d + Low(Len(emitted'[d].arg))
              \/ \E d \in DOMAIN todo' :
                   IsDefFunc(todo'[d]) /\ d < k /\ k <= d + Low(Len(todo'[d].arg))
  <2>1. k > r
    <3>1. SUFFICES ASSUME k \in 1..r PROVE FALSE  BY <1>1
    <3> QED  BY <3>1, <1>1, <1>10 DEF Fitting
  <2> DEFINE i == k - r + 1
  <2>2. i \in 2..l /\ todo'[k] = todo[i] /\ i \in DOMAIN todo /\ k = i - 1 + r
    <3>1. i \in 2..l /\ todo'[k] = todo[i]  BY <2>1, <1>1
    <3> QED  BY <3>1, <1>1
  <2> HIDE DEF i
  <2>3. \/ \E d \in DOMAIN emitted : /\ emitted[d].op = "DEF_FUNC"
                                     /\ Len(emitted) + i <= d + Low(Len(emitted[d].arg))
        \/ \E d \in DOMAIN todo :
             IsDefFunc(todo[d]) /\ d < i /\ i <= d + Low(Len(todo[d].arg))
    BY <2>2, <1>10 DEF NamesOwned
  <2>4. ASSUME NEW d \in DOMAIN emitted, emitted[d].op = "DEF_FUNC",
               Len(emitted) + i <= d + Low(Len(emitted[d].arg))
        PROVE  FALSE
    <3> DEFINE count == Low(Len(emitted[d].arg))
               n == Len(emitted) + 1 - d
    <3>1. count \in Nat
      <4>1. emitted[d] \in Records  BY <1>9 DEF Positions
      <4>2. emitted[d].arg \in Seq(Strings)  BY <2>4, <4>1, RecordKinds
      <4>3. Len(emitted[d].arg) \in Nat  BY <4>2
      <4> QED  BY <4>3, LowShifted
    <3>2. Len(emitted) + i <= d + count  BY <2>4
    <3> HIDE DEF count
    <3>3. n \in 1..count /\ ~(d + n <= Len(emitted)) /\ d + n - Len(emitted) = 1
      BY <3>1, <3>2, <2>2, <1>9
    <3> HIDE DEF n
    <3>4. LET next == d + n - Len(emitted)
          IN next \in DOMAIN todo /\ IsName(todo[next], emitted[d].arg[n])
      BY <3>3, <2>4 DEF NamesFollow, count
    <3>5. IsName(todo[1], emitted[d].arg[n])  BY <3>3, <3>4
    <3> QED  BY <3>5, <1>3 DEF IsName
  <2>5. PICK d \in DOMAIN todo : IsDefFunc(todo[d]) /\ d < i /\ i <= d + Low(Len(todo[d].arg))
    BY <2>3, <2>4
  <2>6. d # 1  BY <2>5, <1>3 DEF IsDefFunc
  <2> DEFINE e == d - 1 + r
             count == Low(Len(todo[d].arg))
  <2>7. d \in 2..l  BY <2>6, <1>1
  <2>8. e \in DOMAIN todo' /\ todo'[e] = todo[d]  BY <2>7, <1>1
  <2>9. count \in Nat
    <3>1. todo[d] \in Items /\ todo[d].type = "EMIT" /\ todo[d].op = "DEF_FUNC"
      BY <2>5 DEF IsDefFunc, Positions
    <3>2. todo[d] \in Emits  BY <3>1, ItemKinds
    <3>3. todo[d].arg \in Seq(Strings)  BY <3>1, <3>2, EmitKinds
    <3>4. Len(todo[d].arg) \in Nat  BY <3>3
    <3> QED  BY <3>4, LowShifted
  <2>10. i <= d + count  BY <2>5
  <2> HIDE DEF count
  <2>11. e < k /\ k <= e + count  BY <2>2, <2>5, <2>7, <2>9, <2>10, <1>1
  <2> HIDE DEF e
  <2> QED  BY <2>5, <2>8, <2>11 DEF count
<1>11. NamesOwned'
  <2>1. \A i \in DOMAIN emitted' : emitted'[i].op = "ARG_NAME" =>
          \E d \in DOMAIN emitted' : /\ emitted'[d].op = "DEF_FUNC" /\ d < i
                                     /\ i <= d + Low(Len(emitted'[d].arg))
    BY <1>3 DEF NamesOwned
  <2> QED  BY <2>1, <1>10 DEF NamesOwned
<1>12. todo'[1].type # "ARG_NAME"
  <2>1. CASE r = 0
    <3>1. 2 \in 2..l /\ 2 \in DOMAIN todo /\ 2 - 1 + r = 1  BY <2>1, <1>1, <1>4
    <3>2. todo'[1] = todo[2]  BY <3>1, <1>1
    <3> QED  BY <3>1, <3>2, <1>3, NoNameNext
  <2>2. CASE r >= 1
    <3>1. 1 \in 1..r  BY <2>2, <1>1
    <3>2. todo'[1] = q[1] /\ 1 \in DOMAIN q  BY <3>1, <1>1
    <3> QED  BY <3>2 DEF Fitting
  <2> QED  BY <2>1, <2>2, <1>1
<1>13. Arrives'
  <2> SUFFICES ASSUME NEW p \in placed'
               PROVE  \/ \E i \in Real' : emitted'[i].address = p[2]
                      \/ p[2] = Address' /\ todo' # <<>> /\ todo'[1].type # "ARG_NAME"
    BY DEF Arrives
  <2>1. Real' = Real  BY <1>3 DEF Real
  <2>2. \/ \E i \in Real : emitted[i].address = p[2]
        \/ p[2] = Address
    BY DEF Arrives
  <2> QED  BY <2>1, <2>2, <1>3, <1>5, <1>12
<1>14. ArgumentsFit'
  <2>1. ASSUME NEW j \in DOMAIN todo', todo'[j].type = "EMIT" PROVE Fits(todo'[j])
    <3>1. CASE j \in 1..r
      <4>1. todo'[j] = q[j] /\ j \in DOMAIN q  BY <3>1, <1>1
      <4> QED  BY <4>1, <2>1 DEF Fitting
    <3>2. CASE j \notin 1..r
      <4>1. j > r  BY <3>2, <1>1
      <4>2. j - r + 1 \in DOMAIN todo /\ todo'[j] = todo[j - r + 1]
        <5>1. j - r + 1 \in 2..l /\ todo'[j] = todo[j - r + 1]  BY <4>1, <1>1
        <5> QED  BY <5>1, <1>1
      <4> QED  BY <4>2, <2>1 DEF ArgumentsFit
    <3> QED  BY <3>1, <3>2
  <2>2. \A i \in DOMAIN emitted' : Fits(emitted'[i])  BY <1>3 DEF ArgumentsFit
  <2> QED  BY <2>1, <2>2 DEF ArgumentsFit
<1> QED  BY <1>6, <1>8, <1>11, <1>13, <1>14

(* The operands the next instruction finds are a number of them.            *)
LEMMA ReachedType ==
  ASSUME Positions, NEW d \in [DOMAIN emitted -> Nat], Carries(d)
  PROVE  Reached(d) \in Nat
<1>1. CASE FreshNow  BY <1>1 DEF Reached
<1>2. CASE ~FreshNow
  <2> DEFINE n == Len(emitted)
             e == emitted[n]
  <2>1. emitted # <<>> /\ emitted \in Seq(Records)  BY <1>2 DEF FreshNow, Positions
  <2>2. n \in DOMAIN emitted /\ e \in Records  BY <2>1
  <2>3. e.op = "CALL" => e.arg \in Nat
    <3>1. e.op \in NumberOps => e.arg \in 0..Word - 1  BY <2>2, RecordKinds
    <3> HIDE DEF e
    <3>2. e.op = "CALL" => e.arg \in 0..Word - 1  BY <3>1 DEF NumberOps
    <3> QED  BY <3>2, ByteWord
  <2>4. Pops(e) <= d[n] /\ d[n] \in Nat  BY <2>2 DEF Carries
  <2> HIDE DEF e
  <2>5. Pops(e) \in Nat /\ Gain(e) \in Int /\ Pops(e) + Gain(e) >= 0  BY <2>3, StackType
  <2>6. d[n] + Gain(e) \in Nat  BY <2>4, <2>5
  <2>7. Reached(d) = d[n] + Gain(e)  BY <1>2 DEF Reached, e
  <2> QED  BY <2>6, <2>7
<1> QED  BY <1>1, <1>2

AfreshNext(i) == \/ i = 1
                 \/ \E p \in placed' : p[2] = emitted'[i].address
                 \/ emitted'[i - 1].op \in {"DEF_FUNC", "ARG_NAME"}
FreshNext == \/ emitted' = <<>>
             \/ \E p \in placed' : p[2] = Address'
             \/ emitted'[Len(emitted')].op \in {"DEF_FUNC", "ARG_NAME"}
ReachedNext(d) ==
  IF FreshNext THEN 0 ELSE d[Len(emitted')] + Gain(emitted'[Len(emitted')])
CarriesNext(d) ==
  \A i \in DOMAIN emitted' :
    /\ d[i] = IF AfreshNext(i) THEN 0 ELSE d[i - 1] + Gain(emitted'[i - 1])
    /\ Pops(emitted'[i]) <= d[i]

(* The stack after a step.                                                  *)
LEMMA StackNext ==
  ASSUME NEW d \in [DOMAIN emitted' -> Nat], CarriesNext(d), Walks(todo', ReachedNext(d), 0)
  PROVE  Stack'
BY DEF Stack, Carries, CarriesNext, Afresh, AfreshNext, Reached, ReachedNext, FreshNow, FreshNext,
       LastOp

(* Where no label is put down the operands before an instruction are what   *)
(* they were.                                                               *)
LEMMA SameCarries ==
  ASSUME NEW d, Carries(d), emitted' = emitted,
         \A i \in DOMAIN emitted : (\E p \in placed' : p[2] = emitted[i].address)
                                     <=> (\E p \in placed : p[2] = emitted[i].address)
  PROVE  CarriesNext(d)
<1>1. \A i \in DOMAIN emitted : AfreshNext(i) <=> Afresh(i)  BY DEF Afresh, AfreshNext
<1> QED  BY <1>1 DEF Carries, CarriesNext

(* An item finds what its parts take, and they leave what it leaves.        *)
LEMMA ExpansionStack ==
  ASSUME Positions, Stack, NEW q \in Seq(Items), Expansion(q), placed' = placed,
         \A n \in Nat : Needs(todo[1]) <= n =>
           After(todo[1], n) \in Nat /\ Walks(q, n, After(todo[1], n))
  PROVE  Stack'
<1>1. PICK d \in [DOMAIN emitted -> Nat] : Carries(d) /\ Walks(todo, Reached(d), 0)
  BY DEF Stack
<1> DEFINE n == Reached(d)
           m == After(todo[1], n)
<1>2. n \in Nat  BY <1>1, ReachedType
<1>3. \A x \in Items : Weighs(x)  BY ItemWeighs
<1>4. todo \in Seq(Items) /\ todo # <<>> /\ todo' = q \o Tail(todo) /\ emitted' = emitted
      /\ Address' = Address
  BY DEF Positions, Expansion, Address
<1>5. Tail(todo) \in Seq(Items)  BY <1>4, TailFacts
<1> HIDE DEF n
<1>6. Needs(todo[1]) <= n /\ m \in Nat /\ Walks(Tail(todo), m, 0)
  BY <1>1, <1>2, <1>3, <1>4, WalksTail DEF n
<1>7. Walks(q, n, m)  BY <1>2, <1>6
<1> HIDE DEF m
<1>8. Walks(todo', n, 0)  BY <1>2, <1>3, <1>4, <1>5, <1>6, <1>7, WalksConcat
<1>9. CarriesNext(d)  BY <1>1, <1>4, SameCarries
<1>10. ReachedNext(d) = n
  BY <1>4 DEF n, Reached, ReachedNext, FreshNow, FreshNext, LastOp
<1> QED  BY <1>4, <1>8, <1>9, <1>10, StackNext

(* emitSrcLoc.                                                              *)
LEMMA EmitSrcLocProgram ==
  ASSUME Invariant, ProgramInvariant, EmitSrcLoc
  PROVE  ProgramInvariant'
<1>1. Positions /\ NamesFollow  BY DEF Invariant
<1>2. todo # <<>> /\ todo[1].type = "SRC_LOC" /\ placed' = placed
  BY DEF EmitSrcLoc, Doing, Current
<1>3. <<>> \o Tail(todo) = Tail(todo) /\ <<>> \in Seq(Items) /\ Parted(<<>>)
  BY <1>1, <1>2, EmptyExpansion
<1>4. Expansion(<<>>)
  BY <1>2, <1>3 DEF EmitSrcLoc, Doing, Expansion, Emitting
<1>5. Fitting(<<>>)  BY DEF Fitting
<1>6. Ends' /\ DefsFirst' /\ NamesOwned' /\ Arrives' /\ ArgumentsFit'
  BY <1>1, <1>2, <1>3, <1>4, <1>5, ExpansionProgram DEF ProgramInvariant
<1>7. \A n \in Nat : After(todo[1], n) \in Nat /\ Walks(<<>>, n, After(todo[1], n))
  <2> TAKE n \in Nat
  <2>1. After(todo[1], n) = n  BY <1>2, OtherWeighs
  <2> QED  BY <2>1, WalksNothing
<1>8. Stack'  BY <1>1, <1>2, <1>3, <1>4, <1>7, ExpansionStack DEF ProgramInvariant
<1> QED  BY <1>6, <1>8 DEF ProgramInvariant

(* emitLabel: the function gets there with nothing on the stack.            *)
LEMMA EmitLabelProgram ==
  ASSUME Invariant, ProgramInvariant, EmitLabel
  PROVE  ProgramInvariant'
<1>1. Positions /\ NamesFollow /\ Layout /\ Address \in Nat
  <2>1. bytecode \in Seq(0..ByteSize + Len(INSTRUCTIONS) - 1)  BY DEF Invariant, Bytes
  <2>2. Len(bytecode) \in Nat  BY <2>1
  <2> QED  BY <2>2 DEF Invariant, Address
<1>2. todo # <<>> /\ todo[1].type = "DEFINE"  BY DEF EmitLabel, Doing, Current
<1>3. placed' = placed \cup {<<Current.label, Address>>}  BY DEF EmitLabel
<1>4. <<>> \o Tail(todo) = Tail(todo) /\ <<>> \in Seq(Items) /\ Parted(<<>>)
  BY <1>1, <1>2, EmptyExpansion
<1>5. Expansion(<<>>)
  BY <1>2, <1>4 DEF EmitLabel, Doing, Expansion, Emitting
<1>6. Fitting(<<>>)  BY DEF Fitting
<1>7. \A p \in placed' : p \in placed \/ p[2] = Address
  <2> DEFINE new == <<Current.label, Address>>
  <2>1. new[2] = Address  OBVIOUS
  <2>2. placed' = placed \cup {new}  BY <1>3
  <2> HIDE DEF new
  <2> QED  BY <2>1, <2>2
<1>8. Ends' /\ DefsFirst' /\ NamesOwned' /\ Arrives' /\ ArgumentsFit'
  BY <1>1, <1>2, <1>4, <1>5, <1>6, <1>7, ExpansionProgram DEF ProgramInvariant
<1>9. PICK d \in [DOMAIN emitted -> Nat] : Carries(d) /\ Walks(todo, Reached(d), 0)
  BY DEF ProgramInvariant, Stack
<1>10. Walks(todo', 0, 0)
  <2> DEFINE n == Reached(d)
  <2>1. n \in Nat  BY <1>1, <1>9, ReachedType
  <2>2. \A x \in Items : Weighs(x)  BY <1>1, ItemWeighs
  <2>3. todo \in Seq(Items) /\ todo' = Tail(todo)
    BY <1>1 DEF Positions, EmitLabel, Emitting
  <2> HIDE DEF n
  <2>4. After(todo[1], n) = 0  BY <1>2, OtherWeighs
  <2>5. Walks(Tail(todo), After(todo[1], n), 0)
    BY <1>2, <1>9, <2>1, <2>2, <2>3, WalksTail DEF n
  <2> QED  BY <2>3, <2>4, <2>5
<1>11. emitted' = emitted /\ Address' = Address  BY <1>5 DEF Expansion, Address
<1>12. CarriesNext(d)
  <2>1. ASSUME NEW i \in DOMAIN emitted
        PROVE  (\E p \in placed' : p[2] = emitted[i].address)
                 <=> (\E p \in placed : p[2] = emitted[i].address)
    <3>1. emitted[i].address < Address
      <4>1. /\ emitted[i].address \in Nat
            /\ Size(emitted[i]) \in Nat /\ Size(emitted[i]) >= 1
            /\ emitted[i].address + Size(emitted[i]) <= Address
        BY <1>1, EndsWithin
      <4> QED  BY <4>1, <1>1
    <3>2. emitted[i].address # Address
      <4>1. emitted[i].address \in Nat  BY <1>1, EndsWithin
      <4> QED  BY <4>1, <3>1, <1>1
    <3> QED  BY <3>2, <1>3, <1>7
  <2> QED  BY <2>1, <1>9, <1>11, SameCarries
<1>13. FreshNext
  <2> DEFINE new == <<Current.label, Address>>
  <2>1. new \in placed' /\ new[2] = Address'  BY <1>3, <1>11
  <2> HIDE DEF new
  <2> QED  BY <2>1 DEF FreshNext
<1>14. Stack'
  <2>1. ReachedNext(d) = 0  BY <1>13 DEF ReachedNext
  <2> QED  BY <2>1, <1>9, <1>10, <1>11, <1>12, StackNext
<1> QED  BY <1>8, <1>14 DEF ProgramInvariant

(* compileToken.                                                            *)
LEMMA CompileTokenProgram ==
  ASSUME Invariant, ProgramInvariant, CompileToken
  PROVE  ProgramInvariant'
<1> DEFINE token == todo[1]
           q == Parts(token)
<1>1. Positions /\ NamesFollow  BY DEF Invariant
<1>2. /\ module = Building /\ todo # <<>> /\ token.type \in TokenTypes
      /\ todo' = q \o Tail(todo)
      /\ UNCHANGED <<tree, begun, globalFuncs, labels, builder, module>>
  BY DEF CompileToken, Current
<1>3. token \in Tokens
  <2>1. todo \in Seq(Items)  BY <1>1 DEF Positions
  <2>2. token \in Items  BY <1>2, <2>1, TailFacts
  <2> QED  BY <1>1, <1>2, <2>2, ItemKinds
<1> HIDE DEF token
<1>4. token.type \notin {"EMIT", "ARG_NAME", "DEFINE", "SRC_LOC"}
  BY <1>2 DEF TokenTypes, Opcode
<1>5. Parted(q) /\ q \in Seq(Items)
  <2>1. CASE token.type = "LABEL"
    <3> DEFINE item == Define(labels[token.arg])
    <3>1. q = <<item>>  BY <2>1 DEF Parts, Opcode
    <3>2. item.type = "DEFINE" /\ item \in Items
      <4>1. token.arg \in DOMAIN labels  BY <1>1, <1>3, <2>1, CurrentTokens
      <4>2. labels[token.arg] \in Targets  BY <4>1 DEF Targets
      <4> QED  BY <4>2 DEF Define, Items
    <3> HIDE DEF item, q
    <3> QED  BY <3>1, <3>2 DEF Parted
  <2>2. CASE token.type # "LABEL"
    <3>1. Quiet(q)  BY <1>1, <1>3, <2>2, PartsQuiet
    <3> HIDE DEF q
    <3> QED  BY <3>1 DEF Quiet, Parted
  <2> QED  BY <2>1, <2>2
<1>6. Expansion(q)
  BY <1>2, <1>4 DEF Expansion, token, builder
<1>7. Fitting(q)  BY <1>1, <1>3, PartsFit
<1>8. placed' = placed  BY <1>2 DEF builder
<1>9. \A n \in Nat : Needs(token) <= n => After(token, n) \in Nat /\ Walks(q, n, After(token, n))
  BY <1>1, <1>3, PartsWalk
<1> HIDE DEF q
<1>10. Ends' /\ DefsFirst' /\ NamesOwned' /\ Arrives' /\ ArgumentsFit'
  BY <1>1, <1>4, <1>5, <1>6, <1>7, <1>8, ExpansionProgram DEF ProgramInvariant, token
<1>11. Stack'
  BY <1>1, <1>5, <1>6, <1>8, <1>9, ExpansionStack DEF ProgramInvariant, token
<1> QED  BY <1>10, <1>11 DEF ProgramInvariant

-----------------------------------------------------------------------------
(* compileFunc.                                                             *)

(* A statement takes and leaves a number of operands, and finds what it     *)
(* takes.                                                                   *)
LEMMA StatementFacts ==
  ASSUME NEW functions \in Trees, NEW f \in DOMAIN functions,
         NEW i \in DOMAIN functions[f].children
  PROVE  LET x == functions[f].children[i]
         IN /\ Weighs(x) /\ x.type \in TokenTypes
            /\ TokenNeeds(x) \in Nat /\ TokenGain(x) \in Int
            /\ Heights(functions[f])[i] >= TokenNeeds(x)
<1> DEFINE x == functions[f].children[i]
<1>1. x \in Subtrees(functions[f])
  <2>1. functions[f].children \in Seq(Subtrees(functions[f]))  BY FuncFacts
  <2> QED  BY <2>1
<1>2. Heights(functions[f])[i] >= TokenNeeds(x)  BY OperandFacts
<1> HIDE DEF x
<1>3. x.type \in TokenTypes /\ (x.type \in NumberTypes => x.arg \in 0..Word - 1)
  BY <1>1, TokenFacts DEF ArgumentGiven
<1>4. x.type = "OP_CALL" => x.arg \in Nat  BY <1>3, ByteWord DEF NumberTypes
<1>5. Weighs(x)  BY <1>3, <1>4, TokenWeighs
<1>6. TokenNeeds(x) \in Nat
  <2>1. Needs(x) \in Nat  BY <1>5 DEF Weighs
  <2> QED  BY <2>1, <1>3 DEF Needs
<1>7. TokenGain(x) \in Int
  <2>1. CASE x.type \in Expressions  BY <2>1 DEF TokenGain
  <2>2. CASE x.type \notin Expressions /\ x.type \in DOMAIN Opcode
    <3>1. TokenGain(x) = Gain(Own(x))  BY <2>2 DEF TokenGain
    <3>2. Own(x).op = "CALL" => Own(x).arg \in Nat
      <4>1. Own(x).op = Opcode[x.type] /\ Own(x).arg = x.arg  BY DEF Own
      <4>2. Opcode[x.type] = "CALL" => x.type = "OP_CALL"  BY <2>2 DEF Opcode
      <4> QED  BY <4>1, <4>2, <1>4
    <3>3. Gain(Own(x)) \in Int  BY <3>2, StackType
    <3> QED  BY <3>1, <3>3
  <2>3. CASE x.type \notin Expressions /\ x.type \notin DOMAIN Opcode  BY <2>3 DEF TokenGain
  <2> QED  BY <2>1, <2>2, <2>3
<1> QED  BY <1>2, <1>3, <1>5, <1>6, <1>7 DEF x

(* The operands there are before a statement are those the one before has   *)
(* left; none after a label.                                                *)
LEMMA HeightsFacts ==
  ASSUME NEW functions \in Trees, NEW f \in DOMAIN functions
  PROVE  LET func == functions[f]
             h == Heights(func)
             b == Len(func.children)
         IN /\ b \in Nat /\ DOMAIN func.children = 1..b
            /\ h \in [1..b -> Nat] /\ (b > 0 => h[1] = 0)
            /\ \A i \in 1..b - 1 :
                 h[i + 1] = IF i \in LabelsIn(func) THEN 0 ELSE h[i] + TokenGain(func.children[i])
<1> DEFINE func == functions[f]
           c == func.children
           b == Len(c)
           gain == [i \in DOMAIN c |-> TokenGain(c[i])]
           fresh == {1} \cup {i \in DOMAIN c : i - 1 \in LabelsIn(func)}
           h == Heights(func)
<1>1. b \in Nat /\ DOMAIN c = 1..b
  <2>1. c \in Seq(Subtrees(func))  BY FuncFacts
  <2> QED  BY <2>1
<1>2. \A i \in 1..b : TokenNeeds(c[i]) \in Nat /\ TokenGain(c[i]) \in Int /\ h[i] >= TokenNeeds(c[i])
  BY <1>1, StatementFacts
<1>3. h = Running(gain, fresh)  BY DEF Heights
<1> HIDE DEF h, c, b, func
<1>4. gain \in [1..b -> Int] /\ \A i \in 1..b : gain[i] = TokenGain(c[i])  BY <1>1, <1>2
<1>5. /\ 1 \in fresh
      /\ \A i \in 1..b - 1 : (i + 1 \in fresh) <=> (i \in LabelsIn(func))
  <2>1. 1 \in fresh  OBVIOUS
  <2>2. ASSUME NEW i \in 1..b - 1 PROVE (i + 1 \in fresh) <=> (i \in LabelsIn(func))
    <3> DEFINE k == i + 1
    <3>1. k \in DOMAIN c /\ k # 1 /\ k - 1 = i  BY <1>1
    <3> HIDE DEF k
    <3>2. (k \in fresh) <=> (k - 1 \in LabelsIn(func))  BY <3>1
    <3> QED  BY <3>1, <3>2 DEF k
  <2> QED  BY <2>1, <2>2
<1> HIDE DEF gain, fresh
<1>6. PICK g : Sums(g, gain, fresh, b)  BY <1>1, <1>4, <1>5, SumsExist
<1>7. h = g  BY <1>1, <1>3, <1>4, <1>5, <1>6, RunningIs
<1>8. /\ h \in [1..b -> Int]
      /\ \A i \in 1..b : h[i] = IF i \in fresh THEN 0 ELSE h[i - 1] + gain[i - 1]
  BY <1>6, <1>7 DEF Sums
<1>9. h \in [1..b -> Nat]
  <2>1. ASSUME NEW i \in 1..b PROVE h[i] \in Nat
    <3>1. h[i] \in Int  BY <1>8
    <3>2. TokenNeeds(c[i]) \in Nat /\ h[i] >= TokenNeeds(c[i])  BY <1>2
    <3> QED  BY <3>1, <3>2
  <2> QED  BY <2>1, <1>8
<1>10. b > 0 => h[1] = 0
  <2>1. b > 0 => 1 \in 1..b  BY <1>1
  <2> QED  BY <2>1, <1>5, <1>8
<1>11. ASSUME NEW i \in 1..b - 1
       PROVE  h[i + 1] = IF i \in LabelsIn(func) THEN 0 ELSE h[i] + TokenGain(c[i])
  <2> DEFINE k == i + 1
  <2>1. k \in 1..b /\ k - 1 = i /\ i \in 1..b  BY <1>1
  <2>2. (k \in fresh) <=> (i \in LabelsIn(func))  BY <1>5
  <2> HIDE DEF k
  <2>3. h[k] = IF k \in fresh THEN 0 ELSE h[k - 1] + gain[k - 1]  BY <2>1, <1>8
  <2>4. gain[i] = TokenGain(c[i])  BY <2>1, <1>4
  <2> QED  BY <2>1, <2>2, <2>3, <2>4 DEF k
<1> QED  BY <1>1, <1>9, <1>10, <1>11 DEF h, b, c, func

(* What the items of a function that is begun are, one by one.              *)
LEMMA NewSorts ==
  ASSUME Positions, NEW func, NEW a, NEW b, Begins(func, a, b)
  PROVE  /\ a \in Nat /\ b \in Nat /\ DOMAIN todo' = 1 .. a + b + 4 /\ Len(todo') = a + b + 4
         /\ DOMAIN func.children = 1..b
         /\ todo'[1].type = "DEFINE" /\ todo'[2].type = "SRC_LOC"
         /\ a > 0 => /\ a = 1 + Low(Len(func.params)) /\ Low(Len(func.params)) \in Nat
                     /\ IsDefFunc(todo'[3]) /\ todo'[3].arg = func.params
                     /\ \A k \in 2..a : todo'[2 + k].type = "ARG_NAME"
         /\ \A k \in 1..b : todo'[2 + a + k] = func.children[k]
                            /\ todo'[2 + a + k].type \in TokenTypes
         /\ todo'[3 + a + b] = Emit("PUSH_NONE", 0)
         /\ todo'[4 + a + b] = Emit("RETURN", 0)
<1>1. /\ a \in Nat /\ b \in Nat /\ DOMAIN todo' = 1 .. a + b + 4 /\ todo' \in Seq(Items')
      /\ todo'[1] = Define(globalFuncs[func.arg]) /\ todo'[2] = Locate(func)
      /\ \A i \in 1..a : todo'[2 + i] = Signature(func)[i]
      /\ \A i \in 1..b : todo'[2 + a + i] = func.children[i]
      /\ todo'[3 + a + b] = Emit("PUSH_NONE", 0)
      /\ todo'[4 + a + b] = Emit("RETURN", 0)
  BY NewItems
<1>2. Len(todo') = a + b + 4
  <2>1. DOMAIN todo' = 1..Len(todo') /\ Len(todo') \in Nat  BY <1>1
  <2>2. 1 \in DOMAIN todo' /\ a + b + 4 \in DOMAIN todo'  BY <1>1
  <2>3. Len(todo') \in DOMAIN todo'  BY <2>1, <2>2
  <2> QED  BY <1>1, <2>1, <2>2, <2>3
<1>3. todo'[1].type = "DEFINE" /\ todo'[2].type = "SRC_LOC"  BY <1>1 DEF Define, Locate
<1>4. /\ begun + 1 \in DOMAIN tree /\ tree \in Trees /\ func = tree[begun + 1]
      /\ func.params \in Seq(Strings) /\ func.children \in Seq(Subtrees(func))
  BY NewLabels DEF Positions, Begins
<1>5. DOMAIN func.children = 1..b  BY <1>4 DEF Begins
<1>6. ASSUME a > 0
      PROVE  /\ a = 1 + Low(Len(func.params)) /\ Low(Len(func.params)) \in Nat
             /\ IsDefFunc(todo'[3]) /\ todo'[3].arg = func.params
             /\ \A k \in 2..a : todo'[2 + k].type = "ARG_NAME"
  <2>1. func.arg # "$init"
    <3>1. func.arg = "$init" => Signature(func) = <<>>  BY DEF Signature
    <3>2. Signature(func) = <<>> => a = 0  BY DEF Begins
    <3> QED  BY <3>1, <3>2, <1>6
  <2> DEFINE s == Signature(func)
             count == Low(Len(func.params))
  <2>2. /\ count \in Nat /\ Len(s) = 1 + count /\ s[1] = Emit("DEF_FUNC", func.params)
        /\ \A k \in 1..count : s[1 + k] = ArgName(func.params[k])
    BY <2>1, <1>4, SignatureIs
  <2>3. a = 1 + count  BY <2>2 DEF Begins
  <2> HIDE DEF s, count
  <2>4. todo'[3] = s[1]
    <3>1. 1 \in 1..a /\ 2 + 1 = 3  BY <1>1, <1>6
    <3> QED  BY <3>1, <1>1 DEF s
  <2>5. IsDefFunc(todo'[3]) /\ todo'[3].arg = func.params
    BY <2>2, <2>4 DEF IsDefFunc, Emit
  <2>6. ASSUME NEW k \in 2..a PROVE todo'[2 + k].type = "ARG_NAME"
    <3> DEFINE m == k - 1
    <3>1. m \in 1..count /\ 1 + m = k /\ k \in 1..a  BY <2>2, <2>3, <1>1
    <3> HIDE DEF m
    <3>2. s[1 + m] = ArgName(func.params[m])  BY <3>1, <2>2
    <3>3. todo'[2 + k] = s[k]  BY <3>1, <1>1 DEF s
    <3>4. ArgName(func.params[m]).type = "ARG_NAME"  BY DEF ArgName
    <3> QED  BY <3>1, <3>2, <3>3, <3>4
  <2> QED  BY <2>2, <2>3, <2>5, <2>6 DEF count
<1>7. ASSUME NEW k \in 1..b
      PROVE  todo'[2 + a + k] = func.children[k] /\ todo'[2 + a + k].type \in TokenTypes
  <2>1. todo'[2 + a + k] = func.children[k]  BY <1>1
  <2>2. func.children[k].type \in TokenTypes  BY <1>4, <1>5, StatementFacts
  <2> QED  BY <2>1, <2>2
<1> QED  BY <1>1, <1>2, <1>3, <1>5, <1>6, <1>7

(* Its items are of those kinds.                                            *)
LEMMA NewPlaces ==
  ASSUME NEW a \in Nat, NEW b \in Nat, NEW j \in 1 .. a + b + 4
  PROVE  \/ j = 1 \/ j = 2 \/ (a > 0 /\ j = 3) \/ (\E k \in 2..a : j = 2 + k)
         \/ (\E k \in 1..b : j = 2 + a + k) \/ j = 3 + a + b \/ j = 4 + a + b
<1>1. CASE j \in 1..2 + a
  <2>1. j > 3 => j - 2 \in 2..a /\ j = 2 + (j - 2)  BY <1>1
  <2> QED  BY <2>1, <1>1
<1>2. CASE j \in 3 + a .. 2 + a + b
  <2>1. j - 2 - a \in 1..b /\ j = 2 + a + (j - 2 - a)  BY <1>2
  <2> QED  BY <2>1
<1> QED  BY <1>1, <1>2

(* A function that is begun finds nothing on the stack, and its statements  *)
(* find what they take.                                                     *)
LEMMA NewWalk ==
  ASSUME Positions, NEW func, NEW a, NEW b, Begins(func, a, b), NEW n \in Nat
  PROVE  Walks(todo', n, 0)
<1>1. /\ a \in Nat /\ b \in Nat /\ DOMAIN todo' = 1 .. a + b + 4 /\ Len(todo') = a + b + 4
      /\ todo'[1].type = "DEFINE" /\ todo'[2].type = "SRC_LOC"
      /\ a > 0 => /\ IsDefFunc(todo'[3])
                  /\ \A k \in 2..a : todo'[2 + k].type = "ARG_NAME"
      /\ \A k \in 1..b : todo'[2 + a + k] = func.children[k]
                         /\ todo'[2 + a + k].type \in TokenTypes
      /\ todo'[3 + a + b] = Emit("PUSH_NONE", 0)
      /\ todo'[4 + a + b] = Emit("RETURN", 0)
  BY NewSorts
<1>2. /\ begun + 1 \in DOMAIN tree /\ tree \in Trees /\ func = tree[begun + 1]
  BY NewLabels DEF Positions, Begins
<1>3. b = Len(func.children)  BY DEF Begins
<1> DEFINE h == Heights(func)
           c == func.children
<1>4. /\ DOMAIN c = 1..b
      /\ h \in [1..b -> Nat] /\ (b > 0 => h[1] = 0)
      /\ \A i \in 1..b - 1 :
           h[i + 1] = IF i \in LabelsIn(func) THEN 0 ELSE h[i] + TokenGain(c[i])
  BY <1>2, <1>3, HeightsFacts
<1>5. \A i \in 1..b : /\ Weighs(c[i]) /\ c[i].type \in TokenTypes /\ TokenNeeds(c[i]) \in Nat
                      /\ h[i] >= TokenNeeds(c[i])
  BY <1>2, <1>4, StatementFacts
<1>6. \A i \in 1..b : i \in LabelsIn(func) <=> c[i].type = "LABEL"  BY <1>4 DEF LabelsIn
<1> HIDE DEF h, c
<1> DEFINE w == [j \in 1 .. a + b + 5 |->
                   IF j \in 3 + a .. 2 + a + b THEN h[j - 2 - a] ELSE IF j = 4 + a + b THEN 1 ELSE 0]
<1>7. w \in [1 .. a + b + 5 -> Nat]
  <2>1. ASSUME NEW j \in 1 .. a + b + 5
        PROVE  (IF j \in 3 + a .. 2 + a + b THEN h[j - 2 - a] ELSE IF j = 4 + a + b THEN 1 ELSE 0)
                 \in Nat
    <3>1. j \in 3 + a .. 2 + a + b => j - 2 - a \in 1..b  BY <1>1
    <3>2. j \in 3 + a .. 2 + a + b => h[j - 2 - a] \in Nat  BY <3>1, <1>4
    <3> QED  BY <3>2
  <2> QED  BY <2>1
<1>8. \A k \in 1..b : w[2 + a + k] = h[k] /\ h[k] \in Nat
  <2> TAKE k \in 1..b
  <2> DEFINE j == 2 + a + k
  <2>1. j \in 1 .. a + b + 5 /\ j \in 3 + a .. 2 + a + b /\ j - 2 - a = k  BY <1>1
  <2> HIDE DEF j
  <2>2. w[j] = h[k]  BY <2>1
  <2> QED  BY <2>2, <1>4 DEF j
<1>9. \A j \in 1 .. 3 + a : w[j] = 0
  <2> TAKE j \in 1 .. 3 + a
  <2>1. j \in 1 .. a + b + 5 /\ j # 4 + a + b  BY <1>1
  <2>2. CASE j \in 3 + a .. 2 + a + b
    <3>1. j - 2 - a = 1 /\ b > 0  BY <2>2, <1>1
    <3> QED  BY <3>1, <2>1, <2>2, <1>4
  <2>3. CASE j \notin 3 + a .. 2 + a + b  BY <2>1, <2>3
  <2> QED  BY <2>2, <2>3
<1>10. w[3 + a + b] = 0 /\ w[4 + a + b] = 1 /\ w[5 + a + b] = 0
  <2>1. \A j \in 3 + a + b .. 5 + a + b :
           j \in 1 .. a + b + 5 /\ j \notin 3 + a .. 2 + a + b
    BY <1>1
  <2>2. /\ 3 + a + b \in 3 + a + b .. 5 + a + b /\ 3 + a + b # 4 + a + b
        /\ 4 + a + b \in 3 + a + b .. 5 + a + b
        /\ 5 + a + b \in 3 + a + b .. 5 + a + b /\ 5 + a + b # 4 + a + b
    BY <1>1
  <2> QED  BY <2>1, <2>2
<1> HIDE DEF w
<1>11. ASSUME NEW x, \/ x.type \in {"DEFINE", "ARG_NAME"}
                     \/ IsDefFunc(x)
       PROVE  Needs(x) = 0 /\ After(x, 0) = 0
  <2>1. CASE x.type \in {"DEFINE", "ARG_NAME"}  BY <2>1, OtherWeighs
  <2>2. CASE IsDefFunc(x)
    <3>1. x.type = "EMIT" /\ x.op = "DEF_FUNC"  BY <2>2 DEF IsDefFunc
    <3>2. Pops(x) = 0  BY <3>1 DEF Pops
    <3> QED  BY <3>1, <3>2, EmitWeighs
  <2> QED  BY <1>11, <2>1, <2>2
<1>12. ASSUME NEW j \in 1 .. a + b + 4
       PROVE  Needs(todo'[j]) <= w[j] /\ w[j + 1] <= After(todo'[j], w[j])
  <2>1. CASE j = 1
    <3>1. w[1] = 0 /\ w[1 + 1] = 0  BY <1>1, <1>9
    <3> QED  BY <3>1, <2>1, <1>1, <1>11
  <2>2. CASE j = 2
    <3>1. w[2] = 0 /\ w[2 + 1] = 0  BY <1>1, <1>9
    <3>2. Needs(todo'[2]) = 0 /\ After(todo'[2], 0) = 0  BY <1>1, OtherWeighs
    <3> QED  BY <3>1, <3>2, <2>2
  <2>3. CASE a > 0 /\ j = 3
    <3>1. 3 \in 1 .. 3 + a /\ 3 + 1 \in 1 .. 3 + a  BY <2>3, <1>1
    <3>2. w[3] = 0 /\ w[3 + 1] = 0  BY <3>1, <1>9
    <3> QED  BY <3>2, <2>3, <1>1, <1>11
  <2>4. ASSUME NEW k \in 2..a, j = 2 + k
        PROVE  Needs(todo'[j]) <= w[j] /\ w[j + 1] <= After(todo'[j], w[j])
    <3>1. j \in 1 .. 3 + a /\ j + 1 \in 1 .. 3 + a /\ a > 0  BY <2>4, <1>1
    <3>2. w[j] = 0 /\ w[j + 1] = 0  BY <3>1, <1>9
    <3>3. todo'[2 + k].type = "ARG_NAME"  BY <3>1, <1>1
    <3>4. todo'[j].type = "ARG_NAME"  BY <3>3, <2>4
    <3>5. Needs(todo'[j]) = 0 /\ After(todo'[j], 0) = 0  BY <3>4, <1>11
    <3> QED  BY <3>2, <3>5
  <2>5. ASSUME NEW k \in 1..b, j = 2 + a + k
        PROVE  Needs(todo'[j]) <= w[j] /\ w[j + 1] <= After(todo'[j], w[j])
    <3> DEFINE x == todo'[j]
    <3>1. x = c[k] /\ x.type \in TokenTypes /\ w[j] = h[k] /\ h[k] \in Nat
      <4>1. todo'[2 + a + k] = c[k] /\ todo'[2 + a + k].type \in TokenTypes  BY <1>1 DEF c
      <4>2. w[2 + a + k] = h[k] /\ h[k] \in Nat  BY <1>8
      <4> QED  BY <4>1, <4>2, <2>5
    <3> HIDE DEF x
    <3>2. Weighs(x) /\ Needs(x) <= h[k]
      <4>1. Weighs(x) /\ TokenNeeds(x) \in Nat /\ h[k] >= TokenNeeds(x)  BY <3>1, <1>5
      <4>2. Needs(x) = TokenNeeds(x)  BY <3>1 DEF Needs
      <4> QED  BY <4>1, <4>2, <3>1
    <3>3. After(x, h[k]) \in Nat  BY <3>1, <3>2, AfterMore
    <3>4. CASE k = b
      <4>1. j + 1 = 3 + a + b  BY <3>4, <2>5, <1>1
      <4>2. w[j + 1] = 0  BY <4>1, <1>10
      <4> QED  BY <4>2, <3>1, <3>2, <3>3 DEF x
    <3>5. CASE k # b
      <4>1. k \in 1..b - 1 /\ k + 1 \in 1..b /\ j + 1 = 2 + a + (k + 1)  BY <3>5, <2>5, <1>1
      <4>2. w[2 + a + (k + 1)] = h[k + 1]  BY <4>1, <1>8
      <4>3. h[k + 1] = IF x.type = "LABEL" THEN 0 ELSE h[k] + TokenGain(x)
        BY <4>1, <3>1, <1>4, <1>6
      <4>4. w[j + 1] = h[k + 1]  BY <4>1, <4>2
      <4>5. After(x, h[k]) = IF x.type = "LABEL" THEN 0 ELSE h[k] + TokenGain(x)
        <5>1. x.type \notin {"DEFINE", "ARG_NAME", "EMIT"}  BY <3>1 DEF TokenTypes, Opcode
        <5> QED  BY <5>1, <3>1 DEF After, IsDefFunc
      <4>6. w[j + 1] = After(x, h[k])  BY <4>3, <4>4, <4>5
      <4> QED  BY <4>6, <3>1, <3>2, <3>3 DEF x
    <3> QED  BY <3>4, <3>5
  <2>6. CASE j = 3 + a + b
    <3> DEFINE x == Emit("PUSH_NONE", 0)
    <3>1. x.type = "EMIT" /\ x.op = "PUSH_NONE"  BY DEF Emit
    <3>2. Pops(x) = 0 /\ Gain(x) = 1  BY StackOf DEF PushOps
    <3> HIDE DEF x
    <3>3. Needs(x) = 0 /\ After(x, 0) = 1  BY <3>1, <3>2, EmitWeighs
    <3>4. todo'[j] = x /\ w[j] = 0 /\ w[j + 1] = 1
      <4>1. j + 1 = 4 + a + b  BY <2>6, <1>1
      <4> QED  BY <4>1, <2>6, <1>1, <1>10 DEF x
    <3> QED  BY <3>3, <3>4
  <2>7. CASE j = 4 + a + b
    <3> DEFINE x == Emit("RETURN", 0)
    <3>1. x.type = "EMIT" /\ x.op = "RETURN"  BY DEF Emit
    <3>2. Pops(x) = 1 /\ Gain(x) = -1  BY StackOf
    <3> HIDE DEF x
    <3>3. Needs(x) = 1 /\ After(x, 1) = 0  BY <3>1, <3>2, EmitWeighs
    <3>4. todo'[j] = x /\ w[j] = 1 /\ w[j + 1] = 0
      <4>1. j + 1 = 5 + a + b  BY <2>7, <1>1
      <4> QED  BY <4>1, <2>7, <1>1, <1>10 DEF x
    <3> QED  BY <3>3, <3>4
  <2> QED  BY <1>1, <2>1, <2>2, <2>3, <2>4, <2>5, <2>6, <2>7, NewPlaces
<1>13. w[1] = 0 /\ Len(todo') + 1 = 5 + a + b /\ 5 + a + b = a + b + 5
  BY <1>1, <1>9
<1> QED
  <2>1. w \in [1..Len(todo') + 1 -> Nat]  BY <1>7, <1>13
  <2>2. w[1] <= n /\ 0 <= w[Len(todo') + 1]  BY <1>10, <1>13
  <2> QED  BY <2>1, <2>2, <1>1, <1>12 DEF Walks

(* compileFunc.                                                             *)
LEMMA CompileFuncProgram ==
  ASSUME Invariant, ProgramInvariant, CompileFunc
  PROVE  ProgramInvariant'
<1> DEFINE func == tree[begun + 1]
           a == Len(Signature(func))
           b == Len(func.children)
<1>1. Begins(func, a, b)  BY DEF Begins
<1>2. Positions  BY DEF Invariant
<1>3. todo = <<>> /\ emitted' = emitted /\ placed' = placed /\ Address' = Address
  BY DEF CompileFunc, Address
<1>4. begun + 1 \in DOMAIN tree /\ tree \in Trees
  BY <1>1, <1>2, NewLabels DEF Positions
<1>5. func.params \in Seq(Names)  BY <1>4, OperandFacts
<1> HIDE DEF func, a, b
<1>6. /\ a \in Nat /\ b \in Nat /\ DOMAIN todo' = 1 .. a + b + 4 /\ Len(todo') = a + b + 4
      /\ todo'[1].type = "DEFINE" /\ todo'[2].type = "SRC_LOC"
      /\ a > 0 => /\ a = 1 + Low(Len(func.params)) /\ Low(Len(func.params)) \in Nat
                  /\ IsDefFunc(todo'[3]) /\ todo'[3].arg = func.params
                  /\ \A k \in 2..a : todo'[2 + k].type = "ARG_NAME"
      /\ \A k \in 1..b : todo'[2 + a + k].type \in TokenTypes
      /\ todo'[3 + a + b] = Emit("PUSH_NONE", 0)
      /\ todo'[4 + a + b] = Emit("RETURN", 0)
  BY <1>1, <1>2, NewSorts
<1>7. ASSUME NEW j \in DOMAIN todo'
      PROVE  \/ todo'[j].type \in {"DEFINE", "SRC_LOC"} \cup TokenTypes
             \/ j = 3 /\ a > 0
             \/ todo'[j].type = "ARG_NAME" /\ j \in 4 .. 2 + a
             \/ j = 3 + a + b \/ j = 4 + a + b
  <2>1. \/ j = 1 \/ j = 2 \/ (a > 0 /\ j = 3) \/ (\E k \in 2..a : j = 2 + k)
        \/ (\E k \in 1..b : j = 2 + a + k) \/ j = 3 + a + b \/ j = 4 + a + b
    <3>1. a \in Nat /\ b \in Nat /\ j \in 1 .. a + b + 4  BY <1>6
    <3> QED  BY <3>1, NewPlaces
  <2>2. ASSUME NEW k \in 2..a, j = 2 + k PROVE todo'[j].type = "ARG_NAME" /\ j \in 4 .. 2 + a
    <3>1. a > 0 /\ 2 + k \in 4 .. 2 + a  BY <1>6
    <3>2. todo'[2 + k].type = "ARG_NAME"  BY <3>1, <1>6
    <3> QED  BY <2>2, <3>1, <3>2
  <2>3. ASSUME NEW k \in 1..b, j = 2 + a + k PROVE todo'[j].type \in TokenTypes
    <3>1. todo'[2 + a + k].type \in TokenTypes  BY <1>6
    <3> QED  BY <2>3, <3>1
  <2> QED  BY <2>1, <2>2, <2>3, <1>6
<1>8. "EMIT" \notin TokenTypes /\ "ARG_NAME" \notin TokenTypes
  BY DEF TokenTypes, Opcode
<1>9. /\ todo'[3 + a + b].type = "EMIT" /\ todo'[3 + a + b].op = "PUSH_NONE"
      /\ todo'[4 + a + b].type = "EMIT" /\ todo'[4 + a + b].op = "RETURN"
  BY <1>6 DEF Emit
<1>10. ASSUME NEW j \in DOMAIN todo', todo'[j].type = "EMIT"
       PROVE  \/ j = 3 /\ a > 0 /\ IsDefFunc(todo'[j]) /\ todo'[j].arg = func.params
              \/ todo'[j].op \in {"PUSH_NONE", "RETURN"} /\ todo'[j] \in {Emit("PUSH_NONE", 0), Emit("RETURN", 0)}
  <2>1. (j = 3 /\ a > 0) \/ j = 3 + a + b \/ j = 4 + a + b  BY <1>7, <1>8, <1>10
  <2> QED  BY <2>1, <1>6, <1>9
<1>11. Ends'
  <2>1. todo'[Len(todo')].type = "EMIT" /\ todo'[Len(todo')].op = "RETURN"
    <3>1. Len(todo') = 4 + a + b  BY <1>6
    <3> QED  BY <3>1, <1>9
  <2>2. todo' # <<>>
    <3>1. 1 \in DOMAIN todo'  BY <1>6
    <3> QED  BY <3>1
  <2> QED  BY <2>1, <2>2 DEF Ends
<1>12. DefsFirst'
  <2>1. \A i \in DOMAIN emitted' : emitted'[i].op = "DEF_FUNC" =>
          i = 1 \/ emitted'[i - 1].op = "RETURN"
    BY <1>3 DEF ProgramInvariant, DefsFirst
  <2>2. emitted' = <<>> \/ LastOp' = "RETURN"
    <3>1. emitted = <<>> \/ LastOp = "RETURN"  BY <1>3 DEF ProgramInvariant, Ends
    <3>2. LastOp' = LastOp  BY <1>3 DEF LastOp
    <3> QED  BY <3>1, <3>2, <1>3
  <2>3. ASSUME NEW j \in DOMAIN todo', IsDefFunc(todo'[j])
        PROVE  \A k \in 1..j - 1 : todo'[k].type \in {"DEFINE", "SRC_LOC"}
    <3>1. todo'[j].type = "EMIT" /\ todo'[j].op = "DEF_FUNC"  BY <2>3 DEF IsDefFunc
    <3>2. j = 3  BY <3>1, <1>10
    <3>3. \A k \in 1..j - 1 : k = 1 \/ k = 2  BY <3>2
    <3> QED  BY <3>3, <1>6
  <2> QED  BY <2>1, <2>2, <2>3 DEF DefsFirst
<1>13. NamesOwned'
  <2>1. \A i \in DOMAIN emitted' : emitted'[i].op = "ARG_NAME" =>
          \E d \in DOMAIN emitted' : /\ emitted'[d].op = "DEF_FUNC" /\ d < i
                                     /\ i <= d + Low(Len(emitted'[d].arg))
    BY <1>3 DEF ProgramInvariant, NamesOwned
  <2>2. ASSUME NEW k \in DOMAIN todo', todo'[k].type = "ARG_NAME"
        PROVE  \E d \in DOMAIN todo' :
                 IsDefFunc(todo'[d]) /\ d < k /\ k <= d + Low(Len(todo'[d].arg))
    <3>1. CASE k \in 4 .. 2 + a
      <4> DEFINE count == Low(Len(func.params))
      <4>1. a > 0  BY <3>1, <1>6
      <4>2. /\ a = 1 + count /\ count \in Nat /\ IsDefFunc(todo'[3]) /\ todo'[3].arg = func.params
        BY <4>1, <1>6
      <4> HIDE DEF count
      <4>3. 3 \in DOMAIN todo' /\ 3 < k /\ k <= 3 + count  BY <3>1, <4>2, <1>6
      <4> QED  BY <4>2, <4>3 DEF count
    <3>2. CASE k = 3 /\ a > 0
      <4>1. todo'[3].type = "EMIT"  BY <3>2, <1>6 DEF IsDefFunc
      <4> QED  BY <4>1, <3>2, <2>2
    <3> QED  BY <3>1, <3>2, <2>2, <1>7, <1>8, <1>9
  <2> QED  BY <2>1, <2>2 DEF NamesOwned
<1>14. Arrives'
  <2>1. \A p \in placed : \E i \in Real : emitted[i].address = p[2]
    BY <1>3 DEF ProgramInvariant, Arrives
  <2>2. Real' = Real  BY <1>3 DEF Real
  <2> QED  BY <2>1, <2>2, <1>3 DEF Arrives
<1>15. ArgumentsFit'
  <2>1. \A i \in DOMAIN emitted' : Fits(emitted'[i])  BY <1>3 DEF ProgramInvariant, ArgumentsFit
  <2>2. ASSUME NEW j \in DOMAIN todo', todo'[j].type = "EMIT" PROVE Fits(todo'[j])
    <3>1. CASE IsDefFunc(todo'[j]) /\ todo'[j].arg = func.params
      <4>1. todo'[j].op = "DEF_FUNC"  BY <3>1 DEF IsDefFunc
      <4> QED  BY <4>1, <3>1, <1>5 DEF Fits, LiteralOps
    <3>2. CASE todo'[j] \in {Emit("PUSH_NONE", 0), Emit("RETURN", 0)}
      BY <3>2, FitsAny
    <3> QED  BY <3>1, <3>2, <2>2, <1>10
  <2> QED  BY <2>1, <2>2 DEF ArgumentsFit
<1>16. Stack'
  <2>1. PICK d \in [DOMAIN emitted -> Nat] : Carries(d) /\ Walks(todo, Reached(d), 0)
    BY DEF ProgramInvariant, Stack
  <2>2. CarriesNext(d)  BY <2>1, <1>3, SameCarries
  <2>3. ReachedNext(d) = Reached(d)
    BY <1>3 DEF Reached, ReachedNext, FreshNow, FreshNext, LastOp
  <2>4. Reached(d) \in Nat  BY <2>1, <1>2, ReachedType
  <2>5. Walks(todo', ReachedNext(d), 0)  BY <2>3, <2>4, <1>1, <1>2, NewWalk
  <2> QED  BY <2>1, <2>2, <2>5, <1>3, StackNext
<1> QED  BY <1>11, <1>12, <1>13, <1>14, <1>15, <1>16 DEF ProgramInvariant

-----------------------------------------------------------------------------
(* The program, as instructions are emitted.                                *)

Appends(op, arg) ==
  /\ module = Building /\ todo # <<>> /\ Takes(op, arg)
  /\ todo' = Tail(todo) /\ emitted' = Noted(op, arg)
  /\ UNCHANGED <<tree, begun, globalFuncs, labels, nextLabel, module, placed>>

(* What an emitter does to the lists.                                       *)
LEMMA AppendsFacts ==
  ASSUME Positions, NEW op, NEW arg, Appends(op, arg)
  PROVE  LET n == Len(emitted)
             l == Len(todo)
         IN /\ n \in Nat /\ l \in Nat /\ l >= 1 /\ DOMAIN emitted = 1..n /\ DOMAIN todo = 1..l
            /\ DOMAIN emitted' = 1..n + 1 /\ Len(emitted') = n + 1 /\ emitted' # <<>>
            /\ \A i \in 1..n : emitted'[i] = emitted[i]
            /\ emitted'[n + 1] = [op |-> op, arg |-> arg, address |-> Address]
            /\ DOMAIN todo' = 1..l - 1 /\ Len(todo') = l - 1
            /\ \A i \in 1..l - 1 : todo'[i] = todo[i + 1]
<1> DEFINE e == [op |-> op, arg |-> arg, address |-> Address]
           n == Len(emitted)
           l == Len(todo)
<1>1. emitted' = Append(emitted, e) /\ emitted \in Seq(Records)
  BY DEF Appends, Noted, Positions
<1>2. todo' = Tail(todo) /\ todo \in Seq(Items) /\ todo # <<>>  BY DEF Appends, Positions
<1> HIDE DEF e
<1>3. /\ n \in Nat /\ DOMAIN emitted = 1..n /\ DOMAIN emitted' = 1..n + 1
      /\ Len(emitted') = n + 1 /\ emitted' # <<>>
      /\ \A i \in 1..n : emitted'[i] = emitted[i]
      /\ emitted'[n + 1] = e
  <2>1. n \in Nat /\ DOMAIN emitted = 1..n  BY <1>1
  <2>2. DOMAIN emitted' = 1..n + 1 /\ Len(emitted') = n + 1  BY <1>1
  <2>3. \A i \in 1..n : emitted'[i] = emitted[i]  BY <1>1
  <2>4. emitted'[n + 1] = e  BY <1>1
  <2>5. emitted' # <<>>
    <3>1. 1 \in DOMAIN emitted'  BY <2>1, <2>2
    <3> QED  BY <3>1
  <2> QED  BY <2>1, <2>2, <2>3, <2>4, <2>5
<1>4. /\ l \in Nat /\ l >= 1 /\ DOMAIN todo = 1..l /\ Len(todo') = l - 1
      /\ DOMAIN todo' = 1..l - 1
      /\ \A i \in 1..l - 1 : todo'[i] = todo[i + 1]
  <2>1. /\ Tail(todo) \in Seq(Items) /\ l \in Nat /\ l >= 1 /\ Len(Tail(todo)) = l - 1
        /\ \A i \in 1..l - 1 : Tail(todo)[i] = todo[i + 1]
    BY <1>2, TailFacts
  <2>2. DOMAIN todo = 1..l /\ DOMAIN Tail(todo) = 1..Len(Tail(todo))  BY <1>2, <2>1
  <2> QED  BY <1>2, <2>1, <2>2
<1> QED  BY <1>3, <1>4 DEF e

(* The item taken is the instruction emitted.                               *)
LEMMA TakenKind ==
  ASSUME NEW op, NEW arg, Takes(op, arg)
  PROVE  LET x == todo[1]
             e == [op |-> op, arg |-> arg, address |-> Address]
         IN /\ x.type \notin {"DEFINE", "SRC_LOC"}
            /\ x.type = "ARG_NAME" <=> op = "ARG_NAME" /\ x.type # "EMIT"
            /\ x.type = "EMIT" => /\ op = x.op /\ arg = x.arg
                                  /\ Pops(e) = Pops(x) /\ Gain(e) = Gain(x)
                                  /\ Fits(x) => Fits(e)
            /\ x.type # "EMIT" => /\ x.type = "ARG_NAME" /\ op = "ARG_NAME"
                                  /\ Pops(e) = 0 /\ Fits(e)
<1> DEFINE x == todo[1]
           e == [op |-> op, arg |-> arg, address |-> Address]
<1>1. e.op = op /\ e.arg = arg  OBVIOUS
<1>2. \/ x.type = "EMIT" /\ x.op = op /\ x.arg = arg
      \/ x.type = "ARG_NAME" /\ op = "ARG_NAME" /\ x.name = arg
  BY DEF Takes
<1> HIDE DEF x, e
<1>3. CASE x.type = "EMIT" /\ x.op = op /\ x.arg = arg
  <2>1. Pops(e) = Pops(x) /\ Gain(e) = Gain(x)  BY <1>1, <1>3, SameStack
  <2>2. Fits(x) => Fits(e)  BY <1>1, <1>3 DEF Fits
  <2> QED  BY <1>3, <2>1, <2>2 DEF x, e
<1>4. CASE x.type = "ARG_NAME" /\ op = "ARG_NAME"
  <2>1. Pops(e) = 0  BY <1>1, <1>4 DEF Pops
  <2>2. Fits(e)  BY <1>1, <1>4 DEF Fits, LiteralOps
  <2> QED  BY <1>4, <2>1, <2>2 DEF x, e
<1> QED  BY <1>2, <1>3, <1>4

(* An instruction emitted leaves the order of the instructions, the names   *)
(* and the arguments as they must be.                                       *)
LEMMA AppendsProgram ==
  ASSUME Positions, Ends, DefsFirst, NamesOwned, Arrives, ArgumentsFit,
         NEW op, NEW arg, Appends(op, arg)
  PROVE  Ends' /\ DefsFirst' /\ NamesOwned' /\ Arrives' /\ ArgumentsFit'
<1> DEFINE n == Len(emitted)
           l == Len(todo)
           x == todo[1]
           e == [op |-> op, arg |-> arg, address |-> Address]
<1>1. /\ n \in Nat /\ l \in Nat /\ l >= 1 /\ DOMAIN emitted = 1..n /\ DOMAIN todo = 1..l
      /\ DOMAIN emitted' = 1..n + 1 /\ Len(emitted') = n + 1 /\ emitted' # <<>>
      /\ \A i \in 1..n : emitted'[i] = emitted[i]
      /\ emitted'[n + 1] = e
      /\ DOMAIN todo' = 1..l - 1 /\ Len(todo') = l - 1
      /\ \A i \in 1..l - 1 : todo'[i] = todo[i + 1]
  BY AppendsFacts
<1>2. e.op = op /\ e.arg = arg /\ e.address = Address  OBVIOUS
<1>3. /\ x.type \notin {"DEFINE", "SRC_LOC"}
      /\ x.type = "EMIT" => op = x.op /\ arg = x.arg /\ (Fits(x) => Fits(e))
      /\ x.type # "EMIT" => x.type = "ARG_NAME" /\ op = "ARG_NAME" /\ Fits(e)
  BY TakenKind DEF Appends
<1>4. placed' = placed /\ todo # <<>>  BY DEF Appends
<1>5. LastOp' = op /\ (emitted # <<>> => n >= 1 /\ LastOp = emitted[n].op)
  <2>1. LastOp' = emitted'[Len(emitted')].op  BY DEF LastOp
  <2>2. emitted # <<>> => n # 0  BY DEF Positions
  <2> QED  BY <2>1, <2>2, <1>1, <1>2 DEF LastOp
<1>6. todo[l].type = "EMIT" /\ todo[l].op = "RETURN"  BY <1>4 DEF Ends, l
<1> HIDE DEF n, l, x, e
<1>7. Ends'
  <2>1. CASE l = 1
    <3>1. op = "RETURN"  BY <2>1, <1>3, <1>6 DEF x
    <3>2. LastOp' = "RETURN"  BY <3>1, <1>5
    <3>3. todo' = <<>>
      <4>1. todo' \in Seq(Items)
        <5>1. todo' = Tail(todo) /\ todo \in Seq(Items)  BY DEF Appends, Positions
        <5> QED  BY <5>1, <1>4, TailFacts
      <4>2. Len(todo') = 0  BY <2>1, <1>1
      <4> QED  BY <4>1, <4>2
    <3> QED  BY <3>2, <3>3 DEF Ends
  <2>2. CASE l # 1
    <3>1. l - 1 \in 1..l - 1 /\ l - 1 + 1 = l  BY <2>2, <1>1
    <3>2. todo'[l - 1] = todo[l] /\ Len(todo') = l - 1 /\ l - 1 \in DOMAIN todo'  BY <3>1, <1>1
    <3>3. todo' # <<>>  BY <3>2
    <3>4. todo'[Len(todo')].type = "EMIT" /\ todo'[Len(todo')].op = "RETURN"  BY <3>2, <1>6
    <3> QED  BY <3>3, <3>4 DEF Ends
  <2> QED  BY <2>1, <2>2
<1>8. DefsFirst'
  <2>1. ASSUME NEW i \in DOMAIN emitted', emitted'[i].op = "DEF_FUNC"
        PROVE  i = 1 \/ emitted'[i - 1].op = "RETURN"
    <3>1. CASE i \in 1..n
      <4>1. emitted'[i] = emitted[i] /\ i \in DOMAIN emitted  BY <3>1, <1>1
      <4>2. i = 1 \/ emitted[i - 1].op = "RETURN"  BY <4>1, <2>1 DEF DefsFirst
      <4>3. i # 1 => i - 1 \in 1..n  BY <3>1, <1>1
      <4> QED  BY <4>2, <4>3, <1>1
    <3>2. CASE i = n + 1
      <4>1. op = "DEF_FUNC"  BY <3>2, <2>1, <1>1, <1>2
      <4>2. 1 \in DOMAIN todo /\ IsDefFunc(todo[1])  BY <4>1, <1>1, <1>3 DEF IsDefFunc, x
      <4>3. emitted = <<>> \/ LastOp = "RETURN"  BY <4>2 DEF DefsFirst
      <4>4. CASE emitted = <<>>
        <5>1. n = 0  BY <4>4 DEF n
        <5> QED  BY <5>1, <3>2
      <4>5. CASE emitted # <<>>
        <5>1. n \in 1..n /\ i - 1 = n /\ emitted[n].op = "RETURN"  BY <4>3, <4>5, <3>2, <1>1, <1>5
        <5>2. emitted'[n] = emitted[n]  BY <5>1, <1>1
        <5> QED  BY <5>1, <5>2
      <4> QED  BY <4>4, <4>5
    <3> QED  BY <3>1, <3>2, <1>1
  <2>2. ASSUME NEW j \in DOMAIN todo', IsDefFunc(todo'[j])
        PROVE  FALSE
    <3> DEFINE k == j + 1
    <3>1. k \in DOMAIN todo /\ todo'[j] = todo[k] /\ 1 \in 1..k - 1  BY <1>1
    <3> HIDE DEF k
    <3>2. todo[1].type \in {"DEFINE", "SRC_LOC"}  BY <3>1, <2>2 DEF DefsFirst
    <3> QED  BY <3>2, <1>3 DEF x
  <2> QED  BY <2>1, <2>2 DEF DefsFirst
<1>9. NamesOwned'
  <2>1. ASSUME NEW i \in DOMAIN emitted', emitted'[i].op = "ARG_NAME"
        PROVE  \E d \in DOMAIN emitted' : /\ emitted'[d].op = "DEF_FUNC" /\ d < i
                                          /\ i <= d + Low(Len(emitted'[d].arg))
    <3>1. CASE i \in 1..n
      <4>1. emitted[i].op = "ARG_NAME" /\ i \in DOMAIN emitted  BY <3>1, <2>1, <1>1
      <4>2. PICK d \in DOMAIN emitted : /\ emitted[d].op = "DEF_FUNC" /\ d < i
                                        /\ i <= d + Low(Len(emitted[d].arg))
        BY <4>1 DEF NamesOwned
      <4>3. d \in DOMAIN emitted' /\ emitted'[d] = emitted[d]  BY <1>1
      <4> QED  BY <4>2, <4>3
    <3>2. CASE i = n + 1
      <4>1. op = "ARG_NAME"  BY <3>2, <2>1, <1>1, <1>2
      <4>2. todo[1].type = "ARG_NAME"
        <5>1. x.type # "EMIT"
          <6>1. SUFFICES ASSUME x.type = "EMIT" PROVE FALSE  OBVIOUS
          <6>2. x \in Items  BY <1>1 DEF Positions, x
          <6>3. x \in Emits  BY <6>1, <6>2, ItemKinds
          <6>4. x.op # "ARG_NAME"
            BY <6>3, EmitKinds DEF ConstantOps, NumberOps, LabelOps, PlainOps
          <6> QED  BY <6>1, <6>4, <4>1, <1>3
        <5> QED  BY <5>1, <1>3 DEF x
      <4>3. PICK d \in DOMAIN emitted : /\ emitted[d].op = "DEF_FUNC"
                                        /\ Len(emitted) + 1 <= d + Low(Len(emitted[d].arg))
        <5>1. 1 \in DOMAIN todo  BY <1>1
        <5>2. ~ \E d \in DOMAIN todo : d < 1  BY <1>1
        <5> QED  BY <5>1, <5>2, <4>2 DEF NamesOwned
      <4>4. d \in DOMAIN emitted' /\ emitted'[d] = emitted[d] /\ d < i  BY <3>2, <1>1
      <4> QED  BY <4>3, <4>4, <3>2 DEF n
    <3> QED  BY <3>1, <3>2, <1>1
  <2>2. ASSUME NEW k \in DOMAIN todo', todo'[k].type = "ARG_NAME"
        PROVE  \/ \E d \in DOMAIN emitted' :
                    /\ emitted'[d].op = "DEF_FUNC"
                    /\ Len(emitted') + k <= d + Low(Len(emitted'[d].arg))
               \/ \E d \in DOMAIN todo' :
                    IsDefFunc(todo'[d]) /\ d < k /\ k <= d + Low(Len(todo'[d].arg))
    <3> DEFINE i == k + 1
    <3>1. i \in DOMAIN todo /\ todo'[k] = todo[i] /\ k \in Nat  BY <1>1
    <3> HIDE DEF i
    <3>2. \/ \E d \in DOMAIN emitted : /\ emitted[d].op = "DEF_FUNC"
                                       /\ Len(emitted) + i <= d + Low(Len(emitted[d].arg))
          \/ \E d \in DOMAIN todo :
               IsDefFunc(todo[d]) /\ d < i /\ i <= d + Low(Len(todo[d].arg))
      BY <3>1, <2>2 DEF NamesOwned
    <3>3. ASSUME NEW d \in DOMAIN emitted, emitted[d].op = "DEF_FUNC",
                 Len(emitted) + i <= d + Low(Len(emitted[d].arg))
          PROVE  \E c \in DOMAIN emitted' :
                    /\ emitted'[c].op = "DEF_FUNC"
                    /\ Len(emitted') + k <= c + Low(Len(emitted'[c].arg))
      <4>1. d \in DOMAIN emitted' /\ emitted'[d] = emitted[d]  BY <1>1
      <4>2. Len(emitted') + k = Len(emitted) + i  BY <3>1, <1>1 DEF n, i
      <4> QED  BY <4>1, <4>2, <3>3
    <3>4. ASSUME NEW d \in DOMAIN todo, IsDefFunc(todo[d]), d < i, i <= d + Low(Len(todo[d].arg))
          PROVE  \/ \E c \in DOMAIN emitted' :
                    /\ emitted'[c].op = "DEF_FUNC"
                    /\ Len(emitted') + k <= c + Low(Len(emitted'[c].arg))
                 \/ \E c \in DOMAIN todo' :
                    IsDefFunc(todo'[c]) /\ c < k /\ k <= c + Low(Len(todo'[c].arg))
      <4> DEFINE count == Low(Len(todo[d].arg))
      <4>1. count \in Nat
        <5>1. todo[d] \in Items /\ todo[d].type = "EMIT" /\ todo[d].op = "DEF_FUNC"
          BY <3>4 DEF IsDefFunc, Positions
        <5>2. todo[d] \in Emits  BY <5>1, ItemKinds
        <5>3. todo[d].arg \in Seq(Strings)  BY <5>1, <5>2, EmitKinds
        <5>4. Len(todo[d].arg) \in Nat  BY <5>3
        <5> QED  BY <5>4, LowShifted
      <4>2. i <= d + count  BY <3>4
      <4>3. CASE d = 1
        <5>1. op = "DEF_FUNC" /\ arg = todo[d].arg  BY <4>3, <3>4, <1>3 DEF IsDefFunc, x
        <5>2. n + 1 \in DOMAIN emitted' /\ emitted'[n + 1].op = "DEF_FUNC"
              /\ Low(Len(emitted'[n + 1].arg)) = count
          BY <5>1, <1>1, <1>2
        <5> HIDE DEF count
        <5>3. Len(emitted') + k <= n + 1 + count  BY <4>1, <4>2, <4>3, <3>1, <1>1 DEF i
        <5> QED  BY <5>2, <5>3
      <4>4. CASE d # 1
        <5> DEFINE c == d - 1
        <5>1. c \in 1..l - 1 /\ c + 1 = d  BY <4>4, <1>1
        <5>2. todo'[c] = todo[d] /\ c \in DOMAIN todo'  BY <5>1, <1>1
        <5> HIDE DEF count
        <5> HIDE DEF c
        <5>3. c < k /\ k <= c + count  BY <4>1, <4>2, <3>1, <3>4, <5>1, <1>1 DEF i
        <5> QED  BY <5>2, <5>3, <3>4 DEF count
      <4> QED  BY <4>3, <4>4
    <3> QED  BY <3>2, <3>3, <3>4
  <2> QED  BY <2>1, <2>2 DEF NamesOwned
<1>10. Arrives'
  <2> SUFFICES ASSUME NEW p \in placed'
               PROVE  \E i \in Real' : emitted'[i].address = p[2]
    BY DEF Arrives
  <2>1. p \in placed  BY <1>4
  <2>2. CASE \E i \in Real : emitted[i].address = p[2]
    <3>1. PICK i \in Real : emitted[i].address = p[2]  BY <2>2
    <3>2. i \in DOMAIN emitted' /\ emitted'[i] = emitted[i] /\ emitted[i].op # "ARG_NAME"
      BY <1>1 DEF Real
    <3>3. i \in Real'  BY <3>2 DEF Real
    <3> QED  BY <3>1, <3>2, <3>3
  <2>3. CASE p[2] = Address /\ todo[1].type # "ARG_NAME"
    <3>1. x \in Items  BY <1>1 DEF Positions, x
    <3>2. op # "ARG_NAME"
      <4>1. x.type = "EMIT"  BY <2>3, <1>3 DEF x
      <4>2. x \in Emits  BY <3>1, <4>1, ItemKinds
      <4>3. x.op # "ARG_NAME"
        BY <4>2, EmitKinds DEF ConstantOps, NumberOps, LabelOps, PlainOps
      <4> QED  BY <4>1, <4>3, <1>3
    <3>3. n + 1 \in Real'  BY <3>2, <1>1, <1>2 DEF Real
    <3> QED  BY <3>3, <2>3, <1>1, <1>2
  <2> QED  BY <2>1, <2>2, <2>3 DEF Arrives
<1>11. ArgumentsFit'
  <2>1. ASSUME NEW i \in DOMAIN emitted' PROVE Fits(emitted'[i])
    <3>1. CASE i \in 1..n  BY <3>1, <1>1 DEF ArgumentsFit
    <3>2. CASE i = n + 1
      <4>1. x.type = "EMIT" => Fits(x)  BY <1>1 DEF ArgumentsFit, x
      <4> QED  BY <4>1, <3>2, <1>1, <1>3
    <3> QED  BY <3>1, <3>2, <1>1
  <2>2. ASSUME NEW j \in DOMAIN todo', todo'[j].type = "EMIT" PROVE Fits(todo'[j])
    <3>1. j + 1 \in DOMAIN todo /\ todo'[j] = todo[j + 1]  BY <1>1
    <3> QED  BY <3>1, <2>2 DEF ArgumentsFit
  <2> QED  BY <2>1, <2>2 DEF ArgumentsFit
<1> QED  BY <1>7, <1>8, <1>9, <1>10, <1>11

(* An instruction emitted finds what it takes, and what is left finds what  *)
(* it leaves.                                                               *)
LEMMA AppendsStack ==
  ASSUME Positions, Layout, LabelMaps, Layout', Address \in Nat, Stack,
         NEW op, NEW arg, Appends(op, arg)
  PROVE  Stack'
<1> DEFINE n == Len(emitted)
           x == todo[1]
           e == [op |-> op, arg |-> arg, address |-> Address]
<1>1. /\ n \in Nat /\ DOMAIN emitted = 1..n
      /\ DOMAIN emitted' = 1..n + 1 /\ Len(emitted') = n + 1 /\ emitted' # <<>>
      /\ \A i \in 1..n : emitted'[i] = emitted[i]
      /\ emitted'[n + 1] = e
  BY AppendsFacts
<1>2. e.op = op /\ e.address = Address  OBVIOUS
<1>3. /\ x.type \notin {"DEFINE", "SRC_LOC"}
      /\ x.type = "EMIT" => op = x.op /\ Pops(e) = Pops(x) /\ Gain(e) = Gain(x)
      /\ x.type # "EMIT" => x.type = "ARG_NAME" /\ op = "ARG_NAME" /\ Pops(e) = 0
  BY TakenKind DEF Appends
<1>4. placed' = placed /\ todo # <<>> /\ todo' = Tail(todo)  BY DEF Appends
<1>5. todo \in Seq(Items) /\ x \in Items  BY <1>4 DEF Positions
<1>6. PICK d \in [DOMAIN emitted -> Nat] : Carries(d) /\ Walks(todo, Reached(d), 0)
  BY DEF Stack
<1> DEFINE k == Reached(d)
           w == [i \in 1..n + 1 |-> IF i = n + 1 THEN k ELSE d[i]]
<1>7. k \in Nat  BY <1>6, ReachedType
<1>8. Needs(x) <= k /\ After(x, k) \in Nat /\ Walks(todo', After(x, k), 0)
  <2>1. \A y \in Items : Weighs(y)  BY ItemWeighs
  <2> HIDE DEF k
  <2> QED  BY <2>1, <1>4, <1>5, <1>6, <1>7, WalksTail DEF k
<1>9. Address' \in Nat /\ Address < Address'
  <2>1. Address' = End(emitted'[Len(emitted')])  BY <1>1 DEF Layout
  <2>2. Address' = Address + Size(e)  BY <2>1, <1>1, <1>2 DEF End
  <2>3. Size(e) \in Nat /\ Size(e) >= 1  BY SizeType
  <2> HIDE DEF e
  <2> QED  BY <2>2, <2>3
<1>10. \A i \in 1..n : emitted[i].address \in Nat
  BY <1>1, EndsWithin
<1>11. k = IF FreshNow THEN 0 ELSE d[n] + Gain(emitted[n])  BY DEF Reached
<1> HIDE DEF n, x, e, k
<1>12. /\ w \in [1..n + 1 -> Nat] /\ w[n + 1] = k
       /\ \A i \in 1..n : w[i] = d[i]
  <2>1. \A i \in 1..n : i \in 1..n + 1 /\ i # n + 1 /\ d[i] \in Nat  BY <1>1
  <2>2. n + 1 \in 1..n + 1  BY <1>1
  <2>3. \A i \in 1..n + 1 : i # n + 1 => i \in 1..n  BY <1>1
  <2>4. \A i \in 1..n + 1 : (IF i = n + 1 THEN k ELSE d[i]) \in Nat  BY <2>1, <2>3, <1>7
  <2> QED  BY <2>1, <2>2, <2>4
<1> HIDE DEF w
<1>13. ASSUME NEW i \in 1..n
       PROVE  /\ w[i] = IF AfreshNext(i) THEN 0 ELSE w[i - 1] + Gain(emitted'[i - 1])
              /\ Pops(emitted'[i]) <= w[i]
  <2>1. emitted'[i] = emitted[i] /\ w[i] = d[i] /\ i \in DOMAIN emitted  BY <1>1, <1>12
  <2>2. /\ d[i] = IF Afresh(i) THEN 0 ELSE d[i - 1] + Gain(emitted[i - 1])
        /\ Pops(emitted[i]) <= d[i]
    BY <2>1, <1>6 DEF Carries
  <2>3. CASE i = 1
    <3>1. Afresh(i) /\ AfreshNext(i)  BY <2>3 DEF Afresh, AfreshNext
    <3> QED  BY <3>1, <2>1, <2>2
  <2>4. CASE i # 1
    <3>1. i - 1 \in 1..n  BY <2>4, <1>1
    <3>2. emitted'[i - 1] = emitted[i - 1] /\ w[i - 1] = d[i - 1]  BY <3>1, <1>1, <1>12
    <3>3. AfreshNext(i) <=> Afresh(i)  BY <3>2, <2>1, <1>4 DEF Afresh, AfreshNext
    <3> QED  BY <3>2, <3>3, <2>1, <2>2
  <2> QED  BY <2>3, <2>4
<1>14. ASSUME NEW i, i = n + 1
       PROVE  /\ w[i] = IF AfreshNext(i) THEN 0 ELSE w[i - 1] + Gain(emitted'[i - 1])
              /\ Pops(emitted'[i]) <= w[i]
  <2>1. AfreshNext(i) <=> FreshNow
    <3>1. i = 1 <=> emitted = <<>>
      <4>1. emitted \in Seq(Records)  BY DEF Positions
      <4>2. emitted = <<>> <=> Len(emitted) = 0  BY <4>1
      <4> QED  BY <4>2, <1>1, <1>14 DEF n
    <3>2. (\E p \in placed' : p[2] = emitted'[i].address) <=> (\E p \in placed : p[2] = Address)
      BY <1>1, <1>2, <1>4, <1>14
    <3>3. i # 1 => emitted'[i - 1].op = LastOp
      <4>1. i # 1 => n \in 1..n /\ i - 1 = n  BY <1>1, <1>14
      <4> QED  BY <4>1, <1>1 DEF LastOp, n
    <3> QED  BY <3>1, <3>2, <3>3 DEF AfreshNext, FreshNow
  <2>2. w[i] = IF AfreshNext(i) THEN 0 ELSE w[i - 1] + Gain(emitted'[i - 1])
    <3>1. CASE FreshNow  BY <2>1, <3>1, <1>11, <1>12, <1>14
    <3>2. CASE ~FreshNow
      <4>1. n \in 1..n /\ i - 1 = n
        <5>1. emitted # <<>>  BY <3>2 DEF FreshNow
        <5>2. n # 0  BY <5>1 DEF n, Positions
        <5> QED  BY <5>2, <1>1, <1>14
      <4>2. w[i - 1] = d[n] /\ emitted'[i - 1] = emitted[n]  BY <4>1, <1>1, <1>12
      <4> QED  BY <4>2, <2>1, <3>2, <1>11, <1>12, <1>14
    <3> QED  BY <3>1, <3>2
  <2>3. Pops(e) <= k
    <3>1. CASE x.type = "EMIT"
      <4>1. Needs(x) = Pops(x)  BY <3>1, EmitWeighs
      <4> QED  BY <4>1, <3>1, <1>3, <1>8
    <3>2. CASE x.type # "EMIT"  BY <3>2, <1>3, <1>7
    <3> QED  BY <3>1, <3>2
  <2> QED  BY <2>2, <2>3, <1>1, <1>12, <1>14
<1>15. CarriesNext(w)
  <2>1. \A i \in DOMAIN emitted' : i \in 1..n \/ i = n + 1  BY <1>1
  <2>2. ASSUME NEW i \in DOMAIN emitted'
        PROVE  /\ w[i] = IF AfreshNext(i) THEN 0 ELSE w[i - 1] + Gain(emitted'[i - 1])
               /\ Pops(emitted'[i]) <= w[i]
    BY <2>1, <1>13, <1>14
  <2> QED  BY <2>2 DEF CarriesNext
<1>16. ReachedNext(w) = After(x, k)
  <2>1. FreshNext <=> op \in {"DEF_FUNC", "ARG_NAME"}
    <3>1. ASSUME NEW p \in placed' PROVE p[2] # Address'
      <4>1. p[2] \in 0..Address  BY <1>4 DEF LabelMaps
      <4> QED  BY <4>1, <1>9
    <3>2. emitted'[Len(emitted')].op = op  BY <1>1, <1>2
    <3> QED  BY <3>1, <3>2, <1>1 DEF FreshNext
  <2>2. ReachedNext(w) = IF op \in {"DEF_FUNC", "ARG_NAME"} THEN 0 ELSE k + Gain(e)
    BY <2>1, <1>1, <1>12 DEF ReachedNext
  <2>3. CASE x.type = "EMIT"
    <3>1. After(x, k) = IF x.op = "DEF_FUNC" THEN 0 ELSE k + Gain(x)  BY <2>3, EmitWeighs
    <3>2. x.op # "ARG_NAME"
      <4>1. x \in Emits  BY <2>3, <1>5, ItemKinds
      <4> QED  BY <4>1, EmitKinds DEF ConstantOps, NumberOps, LabelOps, PlainOps
    <3> QED  BY <3>1, <3>2, <2>2, <2>3, <1>3
  <2>4. CASE x.type # "EMIT"
    <3>1. x.type = "ARG_NAME" /\ op = "ARG_NAME"  BY <2>4, <1>3
    <3>2. After(x, k) = 0  BY <3>1, OtherWeighs
    <3> QED  BY <3>1, <3>2, <2>2
  <2> QED  BY <2>3, <2>4
<1> QED
  <2>1. w \in [DOMAIN emitted' -> Nat]  BY <1>1, <1>12
  <2> QED  BY <2>1, <1>8, <1>15, <1>16, StackNext

(* The address where the next instruction goes is a number.                 *)
LEMMA AddressType ==
  ASSUME Invariant
  PROVE  Address \in Nat
<1>1. bytecode \in Seq(0..ByteSize + Len(INSTRUCTIONS) - 1)  BY DEF Invariant, Bytes
<1>2. Len(bytecode) \in Nat  BY <1>1
<1> QED  BY <1>2 DEF Address

(* An instruction emitted.                                                  *)
LEMMA AppendsInvariant ==
  ASSUME Invariant, ProgramInvariant, Invariant', NEW op, NEW arg, Appends(op, arg)
  PROVE  ProgramInvariant'
<1>1. Positions /\ Layout /\ LabelMaps /\ Layout' /\ Address \in Nat
  BY AddressType DEF Invariant
<1>2. Ends' /\ DefsFirst' /\ NamesOwned' /\ Arrives' /\ ArgumentsFit'
  BY <1>1, AppendsProgram DEF ProgramInvariant
<1>3. Stack'  BY <1>1, AppendsStack DEF ProgramInvariant
<1> QED  BY <1>2, <1>3 DEF ProgramInvariant

(* Nothing emitted, nothing compiled.                                       *)
LEMMA SameProgram ==
  ASSUME ProgramInvariant, UNCHANGED <<tree, begun, todo, globalFuncs, labels, builder>>
  PROVE  ProgramInvariant'
<1>1. todo' = todo /\ emitted' = emitted /\ placed' = placed /\ Address' = Address
  BY DEF builder, Address
<1>2. LastOp' = LastOp /\ Real' = Real  BY <1>1 DEF LastOp, Real
<1>3. Ends' /\ DefsFirst' /\ NamesOwned' /\ Arrives' /\ ArgumentsFit'
  <2>1. Ends'  BY <1>1, <1>2 DEF ProgramInvariant, Ends
  <2>2. DefsFirst'  BY <1>1, <1>2 DEF ProgramInvariant, DefsFirst
  <2>3. NamesOwned'  BY <1>1 DEF ProgramInvariant, NamesOwned
  <2>4. Arrives'  BY <1>1, <1>2 DEF ProgramInvariant, Arrives
  <2>5. ArgumentsFit'  BY <1>1 DEF ProgramInvariant, ArgumentsFit
  <2> QED  BY <2>1, <2>2, <2>3, <2>4, <2>5
<1>4. Stack'
  <2>1. PICK d \in [DOMAIN emitted -> Nat] : Carries(d) /\ Walks(todo, Reached(d), 0)
    BY DEF ProgramInvariant, Stack
  <2>2. CarriesNext(d)  BY <2>1, <1>1, SameCarries
  <2>3. ReachedNext(d) = Reached(d)
    BY <1>1 DEF Reached, ReachedNext, FreshNow, FreshNext, LastOp
  <2> QED  BY <2>1, <2>2, <2>3, <1>1, StackNext
<1> QED  BY <1>3, <1>4 DEF ProgramInvariant

(* Each emitter of an instruction or a name either emits it or fails.       *)
LEMMA EmitterAppends ==
  ASSUME Invariant,
         EmitPlain \/ EmitNumber \/ EmitConstant \/ EmitLabelRef \/ EmitDefFunc \/ EmitArgName
  PROVE  \/ \E op, arg : Appends(op, arg)
         \/ UNCHANGED <<tree, begun, todo, globalFuncs, labels, builder>>
<1>1. CASE EmitPlain
  <2>1. todo # <<>> /\ todo[1].type = "EMIT" /\ todo[1].op \in PlainOps
    BY <1>1 DEF EmitPlain, Doing, Current
  <2>2. todo[1].arg = 0
    <3>1. todo[1] \in Items  BY <2>1 DEF Invariant, Positions
    <3> QED  BY <3>1, <2>1, ItemKinds, EmitKinds DEF Invariant
  <2>3. Appends(todo[1].op, 0)
    BY <1>1, <2>1, <2>2 DEF EmitPlain, Emitting, Appends, Takes, Doing, Current
  <2> QED  BY <2>3
<1>2. CASE EmitNumber
  <2>1. Appends(todo[1].op, todo[1].arg)
    BY <1>2 DEF EmitNumber, Emitting, Appends, Takes, Doing, Current
  <2> QED  BY <2>1
<1>3. CASE EmitLabelRef
  <2>1. Appends(todo[1].op, todo[1].arg)
    BY <1>3 DEF EmitLabelRef, Emitting, Appends, Takes, Doing, Current
  <2> QED  BY <2>1
<1>4. CASE EmitDefFunc
  <2>1. Appends(todo[1].op, todo[1].arg)
    BY <1>4 DEF EmitDefFunc, Emitting, Appends, Takes, Doing, Current
  <2> QED  BY <2>1
<1>5. ASSUME NEW op, NEW c, NEW before, EmitIndex(c, before, op),
             module = Building, todo # <<>>, Takes(op, c)
      PROVE  \/ Appends(op, c)
             \/ UNCHANGED <<tree, begun, todo, globalFuncs, labels, builder>>
  BY <1>5 DEF EmitIndex, Crash, Emitting, Appends
<1>6. CASE EmitConstant
  <2>1. /\ module = Building /\ todo # <<>> /\ todo[1].type = "EMIT"
        /\ EmitIndex(todo[1].arg, <<Op(todo[1].op)>>, todo[1].op)
    BY <1>6 DEF EmitConstant, Doing, Current
  <2>2. Takes(todo[1].op, todo[1].arg)  BY <2>1 DEF Takes
  <2> QED  BY <2>1, <2>2, <1>5
<1>7. CASE EmitArgName
  <2>1. /\ module = Building /\ todo # <<>> /\ todo[1].type = "ARG_NAME"
        /\ EmitIndex(todo[1].name, <<>>, "ARG_NAME")
    BY <1>7 DEF EmitArgName, Doing, Current
  <2>2. Takes("ARG_NAME", todo[1].name)  BY <2>1 DEF Takes
  <2> QED  BY <2>1, <2>2, <1>5
<1> QED  BY <1>1, <1>2, <1>3, <1>4, <1>6, <1>7

(* Nothing has been emitted at first.                                       *)
LEMMA ProgramInit ==
  ASSUME Init
  PROVE  ProgramInvariant
<1>1. emitted = <<>> /\ todo = <<>> /\ placed = {}  BY DEF Init
<1>2. Ends /\ DefsFirst /\ NamesOwned /\ Arrives /\ ArgumentsFit
  BY <1>1 DEF Ends, DefsFirst, NamesOwned, Arrives, ArgumentsFit
<1>3. Stack
  <2> DEFINE d == [i \in {} |-> 0]
  <2>1. DOMAIN emitted = {} /\ d \in [{} -> Nat]  BY <1>1
  <2> HIDE DEF d
  <2>2. Carries(d)  BY <2>1 DEF Carries
  <2>3. Reached(d) = 0  BY <1>1 DEF Reached, FreshNow
  <2>4. Walks(todo, Reached(d), 0)  BY <2>3, <1>1, WalksNothing
  <2> QED  BY <2>1, <2>2, <2>4 DEF Stack
<1> QED  BY <1>2, <1>3 DEF ProgramInvariant

(* Every step keeps the program.                                            *)
LEMMA ProgramNext ==
  ASSUME Invariant, ProgramInvariant, [Next]_vars
  PROVE  ProgramInvariant'
<1>1. Invariant'  BY InvariantNext
<1>2. CASE CompileFunc  BY <1>2, CompileFuncProgram
<1>3. CASE CompileToken  BY <1>3, CompileTokenProgram
<1>4. CASE EmitPlain \/ EmitNumber \/ EmitConstant \/ EmitLabelRef \/ EmitDefFunc \/ EmitArgName
  <2>1. \/ \E op, arg : Appends(op, arg)
        \/ UNCHANGED <<tree, begun, todo, globalFuncs, labels, builder>>
    BY <1>4, EmitterAppends
  <2> QED  BY <2>1, <1>1, AppendsInvariant, SameProgram
<1>5. CASE EmitLabel  BY <1>5, EmitLabelProgram
<1>6. CASE EmitSrcLoc  BY <1>6, EmitSrcLocProgram
<1>7. CASE BuilderToModule
  <2>1. UNCHANGED <<tree, begun, todo, globalFuncs, labels, builder>>
    BY <1>7 DEF BuilderToModule, Crash
  <2> QED  BY <2>1, SameProgram
<1>8. CASE UNCHANGED vars
  <2>1. UNCHANGED <<tree, begun, todo, globalFuncs, labels, builder>>  BY <1>8 DEF vars
  <2> QED  BY <2>1, SameProgram
<1>9. CASE Finished  BY <1>8, <1>9 DEF Finished
<1> QED  BY <1>2, <1>3, <1>4, <1>5, <1>6, <1>7, <1>8, <1>9 DEF Next

(* Every run: what has been emitted and what is left is a program that      *)
(* finds the operands it takes.                                             *)
THEOREM ProgramInvariance == Spec => []ProgramInvariant
<1>1. Init => ProgramInvariant  BY ProgramInit
<1>2. Invariant /\ ProgramInvariant /\ [Next]_vars => ProgramInvariant'  BY ProgramNext
<1> QED  BY <1>1, <1>2, Invariance, PTL DEF Spec

-----------------------------------------------------------------------------
(* The program that has been made.                                          *)

Whole == Invariant /\ ProgramInvariant /\ Made /\ WithinLimits

(* Nothing is left, and something has been emitted.                         *)
LEMMA WholeFacts ==
  ASSUME Whole
  PROVE  LET n == Len(emitted)
         IN /\ Positions /\ NamesFollow /\ todo = <<>> /\ emitted \in Seq(Records)
            /\ n \in Nat /\ n >= 1 /\ DOMAIN emitted = 1..n
            /\ emitted[n].op = "RETURN"
            /\ \A i \in 1..n : emitted[i].op = "DEF_FUNC" => Low(Len(emitted[i].arg)) \in Nat
<1> DEFINE n == Len(emitted)
<1>1. Positions /\ NamesFollow /\ CodeDue  BY DEF Whole, Invariant
<1>2. todo = <<>> /\ begun = Len(tree)  BY MadeFacts DEF Whole
<1>3. begun > 0  BY <1>1, <1>2, LabelTypes
<1>4. emitted # <<>>  BY <1>2, <1>3, <1>1 DEF CodeDue
<1>5. emitted \in Seq(Records)  BY <1>1 DEF Positions
<1>6. n \in Nat /\ n >= 1 /\ DOMAIN emitted = 1..n
  <2>1. n \in Nat /\ n # 0 /\ DOMAIN emitted = 1..n  BY <1>4, <1>5
  <2> QED  BY <2>1
<1>7. emitted[n].op = "RETURN"
  BY <1>2, <1>4 DEF Whole, ProgramInvariant, Ends, LastOp
<1>8. ASSUME NEW i \in 1..n, emitted[i].op = "DEF_FUNC" PROVE Low(Len(emitted[i].arg)) \in Nat
  <2>1. emitted[i] \in Records  BY <1>5, <1>6
  <2>2. emitted[i].arg \in Seq(Strings)  BY <1>8, <2>1, RecordKinds
  <2>3. Len(emitted[i].arg) \in Nat  BY <2>2
  <2> QED  BY <2>3, LowShifted
<1> QED  BY <1>1, <1>2, <1>5, <1>6, <1>7, <1>8

(* Between an instruction and its place there are names.                    *)
LEMMA PlaceFacts ==
  ASSUME Whole, NEW i \in Real
  PROVE  /\ i \in 1..Len(emitted) /\ emitted[i].op # "ARG_NAME"
         /\ Place(i) \in i..Len(emitted)
         /\ \A j \in i + 1 .. Place(i) : emitted[j].op = "ARG_NAME"
         /\ emitted[i].op # "DEF_FUNC" => Place(i) = i
         /\ \/ emitted[Place(i)].op = emitted[i].op
            \/ emitted[i].op = "DEF_FUNC" /\ emitted[Place(i)].op = "ARG_NAME"
<1> DEFINE n == Len(emitted)
<1>1. /\ Positions /\ NamesFollow /\ todo = <<>> /\ n \in Nat /\ DOMAIN emitted = 1..n
      /\ \A k \in 1..n : emitted[k].op = "DEF_FUNC" => Low(Len(emitted[k].arg)) \in Nat
  BY WholeFacts
<1>2. i \in 1..n /\ emitted[i].op # "ARG_NAME"  BY <1>1 DEF Real
<1>3. CASE emitted[i].op # "DEF_FUNC"
  <2>1. Place(i) = i + 0  BY <1>3 DEF Place
  <2>2. Place(i) = i  BY <2>1, <1>2
  <2>3. \A j \in i + 1 .. Place(i) : emitted[j].op = "ARG_NAME"  BY <2>2, <1>2
  <2>4. Place(i) \in i..n
    <3> HIDE DEF n
    <3>1. i \in i..n  BY <1>1, <1>2
    <3> QED  BY <3>1, <2>2
  <2>5. emitted[Place(i)].op = emitted[i].op  BY <2>2
  <2> QED  BY <2>2, <2>3, <2>4, <2>5, <1>2, <1>3
<1>4. CASE emitted[i].op = "DEF_FUNC"
  <2> DEFINE count == Low(Len(emitted[i].arg))
  <2>1. Place(i) = i + count /\ count \in Nat  BY <1>1, <1>2, <1>4 DEF Place
  <2>2. \A k \in 1..count : i + k <= n /\ emitted[i + k].op = "ARG_NAME"
    BY <1>1, <1>2, <1>4, NoNamesDue
  <2> HIDE DEF count
  <2>3. Place(i) \in i..n
    <3>1. CASE count = 0  BY <3>1, <2>1, <1>2
    <3>2. CASE count # 0
      <4>1. count \in 1..count  BY <3>2, <2>1
      <4>2. i + count <= n  BY <4>1, <2>2
      <4> QED  BY <4>2, <2>1, <1>1, <1>2
    <3> QED  BY <3>1, <3>2
  <2>4. ASSUME NEW j \in i + 1 .. Place(i) PROVE emitted[j].op = "ARG_NAME"
    <3> DEFINE k == j - i
    <3>1. k \in 1..count /\ i + k = j  BY <2>1, <1>2
    <3> HIDE DEF k
    <3>2. emitted[i + k].op = "ARG_NAME"  BY <3>1, <2>2
    <3> QED  BY <3>1, <3>2
  <2>5. emitted[Place(i)].op = emitted[i].op \/ emitted[Place(i)].op = "ARG_NAME"
    <3> HIDE DEF n
    <3>1. CASE Place(i) = i  BY <3>1
    <3>2. CASE Place(i) # i
      <4>1. Place(i) \in i + 1 .. Place(i)  BY <3>2, <2>3, <1>1, <1>2
      <4> QED  BY <4>1, <2>4
    <3> QED  BY <3>1, <3>2
  <2> QED  BY <2>3, <2>4, <2>5, <1>2, <1>4
<1> QED  BY <1>3, <1>4

(* Instructions stand in the order in which they were emitted.              *)
LEMMA PlacesOrdered ==
  ASSUME Whole, NEW i \in Real, NEW j \in Real, i < j
  PROVE  Place(i) < j /\ Place(i) < Place(j)
<1>1. /\ i \in Nat /\ Place(i) \in Nat
      /\ \A k \in i + 1 .. Place(i) : emitted[k].op = "ARG_NAME"
  <2>1. i \in 1..Len(emitted) /\ Place(i) \in i..Len(emitted)  BY PlaceFacts
  <2>2. \A k \in i + 1 .. Place(i) : emitted[k].op = "ARG_NAME"  BY PlaceFacts
  <2> QED  BY <2>1, <2>2, WholeFacts
<1>2. j \in Nat /\ Place(j) \in Nat /\ j <= Place(j) /\ emitted[j].op # "ARG_NAME"
  <2>1. j \in 1..Len(emitted) /\ Place(j) \in j..Len(emitted) /\ emitted[j].op # "ARG_NAME"
    BY PlaceFacts
  <2> QED  BY <2>1, WholeFacts
<1>3. j \notin i + 1 .. Place(i)  BY <1>1, <1>2
<1>4. Place(i) < j  BY <1>1, <1>2, <1>3
<1> QED  BY <1>1, <1>2, <1>4

(* The instruction at an instruction's place is that one.                   *)
LEMMA InstructionIs ==
  ASSUME Whole, NEW i \in Real
  PROVE  Place(i) \in Places /\ InstructionAt(Place(i)) = i
<1> DEFINE j == InstructionAt(Place(i))
<1>1. j \in Real /\ Place(j) = Place(i)  BY DEF InstructionAt
<1>2. i \in 1..Len(emitted) /\ j \in 1..Len(emitted)  BY <1>1, PlaceFacts
<1>3. Place(i) \in i..Len(emitted)  BY PlaceFacts
<1> HIDE DEF j
<1>4. ~(i < j)
  <2>1. SUFFICES ASSUME i < j PROVE FALSE  OBVIOUS
  <2>2. Place(i) < Place(j)  BY <2>1, <1>1, PlacesOrdered
  <2> QED  BY <2>2, <1>1, <1>2, <1>3
<1>5. ~(j < i)
  <2>1. SUFFICES ASSUME j < i PROVE FALSE  OBVIOUS
  <2>2. Place(j) < Place(i)  BY <2>1, <1>1, PlacesOrdered
  <2> QED  BY <2>2, <1>1, <1>2, <1>3
<1>6. i = j  BY <1>2, <1>4, <1>5
<1> QED  BY <1>6 DEF Places, j

(* After an instruction that is no OP_RETURN there is one that begins no    *)
(* function.                                                                *)
LEMMA NextPlace ==
  ASSUME Whole, NEW i \in Real, emitted[i].op # "RETURN"
  PROVE  LET j == Place(i) + 1
         IN /\ j \in Real /\ Place(j) = j /\ j \in DOMAIN emitted
            /\ j - 1 = Place(i)
<1> DEFINE n == Len(emitted)
           q == Place(i)
           j == q + 1
<1>1. /\ n \in Nat /\ n >= 1 /\ DOMAIN emitted = 1..n /\ emitted[n].op = "RETURN" /\ todo = <<>>
      /\ \A k \in 1..n : emitted[k].op = "DEF_FUNC" => Low(Len(emitted[k].arg)) \in Nat
  BY WholeFacts
<1>2. /\ i \in 1..n /\ emitted[i].op # "ARG_NAME" /\ q \in i..n
      /\ \A k \in i + 1 .. q : emitted[k].op = "ARG_NAME"
      /\ emitted[q].op # "RETURN"
  <2>1. \/ emitted[q].op = emitted[i].op
        \/ emitted[i].op = "DEF_FUNC" /\ emitted[q].op = "ARG_NAME"
    BY PlaceFacts
  <2> QED  BY <2>1, PlaceFacts
<1> HIDE DEF n, q
<1>3. q # n  BY <1>1, <1>2
<1>4. j \in 1..n /\ j - 1 = q /\ j # 1  BY <1>1, <1>2, <1>3
<1>5. emitted[j].op # "ARG_NAME"
  <2>1. SUFFICES ASSUME emitted[j].op = "ARG_NAME" PROVE FALSE  OBVIOUS
  <2>2. PICK d \in DOMAIN emitted : /\ emitted[d].op = "DEF_FUNC" /\ d < j
                                    /\ j <= d + Low(Len(emitted[d].arg))
    BY <2>1, <1>1, <1>4 DEF Whole, ProgramInvariant, NamesOwned
  <2> DEFINE count == Low(Len(emitted[d].arg))
  <2>3. d \in Real /\ Place(d) = d + count /\ count \in Nat /\ d \in 1..n /\ d < j /\ j <= d + count
    BY <2>2, <1>1 DEF Real, Place
  <2> HIDE DEF count
  <2>4. d # i  BY <2>3, <1>1, <1>2, <1>4 DEF q
  <2>5. CASE d < i
    <3>1. Place(d) < i  BY <2>3, <2>5, PlacesOrdered
    <3> QED  BY <3>1, <2>3, <1>2, <1>4
  <2>6. CASE i < d
    <3>1. Place(i) < d  BY <2>3, <2>6, PlacesOrdered
    <3> QED  BY <3>1, <2>3, <1>2, <1>4 DEF q
  <2> QED  BY <2>3, <2>4, <2>5, <2>6, <1>2
<1>6. emitted[j].op # "DEF_FUNC"
  <2>1. SUFFICES ASSUME emitted[j].op = "DEF_FUNC" PROVE FALSE  OBVIOUS
  <2>2. j = 1 \/ emitted[j - 1].op = "RETURN"
    BY <2>1, <1>1, <1>4 DEF Whole, ProgramInvariant, DefsFirst
  <2> QED  BY <2>2, <1>2, <1>4
<1>7. j \in Real  BY <1>1, <1>4, <1>5 DEF Real
<1>8. Place(j) = j  BY <1>6, <1>7, PlaceFacts
<1> QED  BY <1>1, <1>4, <1>7, <1>8 DEF q

(* Where a label was put down an instruction stands that its function gets  *)
(* to with nothing on the stack.                                            *)
LEMMA IndexIs ==
  ASSUME Whole, NEW p \in placed
  PROVE  /\ IndexAt(p[2]) \in Places
         /\ InstructionAt(IndexAt(p[2])) \in Real /\ Afresh(InstructionAt(IndexAt(p[2])))
<1> DEFINE t == CHOOSE i \in Real : emitted[i].address = p[2]
<1>1. \E i \in Real : emitted[i].address = p[2]
  <2>1. todo = <<>>  BY WholeFacts
  <2> QED  BY <2>1 DEF Whole, ProgramInvariant, Arrives
<1>2. t \in Real /\ emitted[t].address = p[2]  BY <1>1
<1>3. IndexAt(p[2]) = Place(t)  BY DEF IndexAt
<1> HIDE DEF t
<1>4. Place(t) \in Places /\ InstructionAt(Place(t)) = t  BY <1>2, InstructionIs
<1>5. Afresh(t)  BY <1>2 DEF Afresh
<1> QED  BY <1>2, <1>3, <1>4, <1>5

(* The depths are those the invariant tells of.                             *)
LEMMA DepthsIs ==
  ASSUME Whole
  PROVE  Depths \in [DOMAIN emitted -> Nat] /\ Carries(Depths)
<1> DEFINE n == Len(emitted)
           gain == [i \in DOMAIN emitted |-> Gain(emitted[i])]
           fresh == {i \in DOMAIN emitted : Afresh(i)}
<1>1. n \in Nat /\ n >= 1 /\ DOMAIN emitted = 1..n /\ emitted \in Seq(Records)  BY WholeFacts
<1>2. PICK d \in [DOMAIN emitted -> Nat] : Carries(d)
  BY DEF Whole, ProgramInvariant, Stack
<1>3. Depths = Running(gain, fresh)  BY DEF Depths
<1> HIDE DEF n
<1>4. ASSUME NEW i \in 1..n PROVE Gain(emitted[i]) \in Int
  <2> DEFINE e == emitted[i]
  <2>1. e \in Records  BY <1>1
  <2>2. e.op \in NumberOps => e.arg \in 0..Word - 1  BY <2>1, RecordKinds
  <2> HIDE DEF e
  <2>3. e.op = "CALL" => e.arg \in Nat
    <3>1. e.op = "CALL" => e.arg \in 0..Word - 1  BY <2>2 DEF NumberOps
    <3> QED  BY <3>1, ByteWord
  <2>4. Gain(e) \in Int  BY <2>3, StackType
  <2> QED  BY <2>4 DEF e
<1>5. gain \in [1..n -> Int] /\ \A i \in 1..n : gain[i] = Gain(emitted[i])  BY <1>1, <1>4
<1>6. 1 \in fresh /\ \A i \in 1..n : i \in fresh <=> Afresh(i)
  <2>1. Afresh(1)  BY DEF Afresh
  <2> QED  BY <2>1, <1>1
<1> HIDE DEF gain, fresh
<1>7. Sums(d, gain, fresh, n)
  <2>1. d \in [1..n -> Int]  BY <1>1
  <2>2. ASSUME NEW i \in 1..n
        PROVE  d[i] = IF i \in fresh THEN 0 ELSE d[i - 1] + gain[i - 1]
    <3>1. d[i] = IF Afresh(i) THEN 0 ELSE d[i - 1] + Gain(emitted[i - 1])
      BY <1>1, <1>2 DEF Carries
    <3>2. CASE i = 1
      <4>1. i \in fresh /\ Afresh(i)  BY <3>2, <1>6
      <4> QED  BY <4>1, <3>1
    <3>3. CASE i # 1
      <4>1. i - 1 \in 1..n  BY <3>3, <1>1
      <4>2. gain[i - 1] = Gain(emitted[i - 1])  BY <4>1, <1>5
      <4> QED  BY <4>2, <3>1, <1>6
    <3> QED  BY <3>2, <3>3
  <2> QED  BY <2>1, <2>2 DEF Sums
<1>8. Depths = d  BY <1>1, <1>3, <1>5, <1>6, <1>7, RunningIs
<1> QED  BY <1>2, <1>8

(* An instruction as it is loaded does to the stack what it does as it was  *)
(* emitted, its argument is one the interpreter takes, and where it jumps   *)
(* an instruction stands that finds nothing on the stack.                   *)
LEMMA LoadedFacts ==
  ASSUME Whole, NEW i \in Real
  PROVE  LET e == emitted[i]
             ins == Loaded(e)
         IN /\ ins.op = e.op /\ Pops(ins) = Pops(e) /\ Pushes(ins) = Pushes(e)
            /\ Pops(e) \in Nat /\ Pushes(e) \in Nat /\ Gain(e) = Pushes(e) - Pops(e)
            /\ ArgumentOk(LoadedCode, ins)
            /\ \A t \in JumpTargets(ins) :
                 t \in Places /\ InstructionAt(t) \in Real /\ Afresh(InstructionAt(t))
<1> DEFINE e == emitted[i]
           ins == Loaded(e)
<1>1. i \in DOMAIN emitted /\ e \in Records
  <2>1. i \in 1..Len(emitted)  BY PlaceFacts
  <2> QED  BY <2>1, WholeFacts
<1>2. ReadsAs(i)
  <2>1. ReadsBack  BY ModuleReadsBack DEF Whole
  <2> QED  BY <2>1, <1>1 DEF ReadsBack, Whole
<1>3. Fits(e)  BY <1>1 DEF Whole, ProgramInvariant, ArgumentsFit
<1>4. /\ e.op \in ConstantOps \cup NumberOps \cup LabelOps \cup PlainOps \cup {"DEF_FUNC", "ARG_NAME"}
      /\ e.op \in NumberOps => e.arg \in 0..Word - 1
  BY <1>1, RecordKinds
<1>5. DOMAIN LoadedCode = Places  BY DEF LoadedCode
<1>6. /\ e.op \in ConstantOps => readConstantModule(e.address + 1) = e.arg
      /\ e.op \in NumberOps => readU32Module(e.address + 1) = e.arg
      /\ e.op \in LabelOps => <<e.arg, readU32Module(e.address + 1)>> \in placed
  BY <1>2 DEF ReadsAs
<1> HIDE DEF e
<1>7. /\ ins.op = e.op
      /\ e.op \in LabelOps => ins.arg = IndexAt(readU32Module(e.address + 1))
      /\ e.op = "PUSH_LITERAL" => ins.arg = Literal(e.op, readConstantModule(e.address + 1))
      /\ e.op \in {"PUSH_FLOAT", "PUSH_INT"} => ins.arg = Literal(e.op, readU32Module(e.address + 1))
      /\ e.op \in {"LOAD", "STORE"} => ins.arg = readConstantModule(e.address + 1)
      /\ e.op \in {"CALL", "DEF_FUNC"} => ins.arg = e.arg
  BY DEF Loaded, LabelOps
<1> HIDE DEF ins
<1>8. e.op = "CALL" => e.arg \in Nat
  <2>1. e.op = "CALL" => e.arg \in 0..Word - 1  BY <1>4 DEF NumberOps
  <2> QED  BY <2>1, ByteWord
<1>9. Pops(ins) = Pops(e) /\ Pushes(ins) = Pushes(e)
  <2>1. CASE e.op = "CALL"
    <3>1. ins.op = e.op /\ ins.arg = e.arg  BY <2>1, <1>7
    <3> QED  BY <3>1, SameStack
  <2>2. CASE e.op # "CALL"  BY <2>2, <1>7 DEF Pops, Pushes
  <2> QED  BY <2>1, <2>2
<1>10. Pops(e) \in Nat /\ Pushes(e) \in Nat /\ Gain(e) = Pushes(e) - Pops(e)
  BY <1>8, StackType
<1>11. ASSUME e.op \in LabelOps
       PROVE  ins.arg \in Places /\ InstructionAt(ins.arg) \in Real /\ Afresh(InstructionAt(ins.arg))
  <2> DEFINE p == <<e.arg, readU32Module(e.address + 1)>>
  <2>1. p \in placed /\ ins.arg = IndexAt(p[2])  BY <1>6, <1>7, <1>11
  <2> HIDE DEF p
  <2> QED  BY <2>1, IndexIs
<1>12. ASSUME NEW t \in JumpTargets(ins)
       PROVE  t \in Places /\ InstructionAt(t) \in Real /\ Afresh(InstructionAt(t))
  <2>1. e.op \in {"COND_JUMP_FALSE", "ABS_JUMP"} /\ t = ins.arg  BY <1>7 DEF JumpTargets
  <2>2. e.op \in LabelOps  BY <2>1 DEF LabelOps
  <2> QED  BY <2>1, <2>2, <1>11
<1>13. ArgumentOk(LoadedCode, ins)
  <2>1. CASE e.op \in {"PUSH_INT", "PUSH_FLOAT", "PUSH_LITERAL"}
    <3>1. ins.arg = Literal(e.op, e.arg)
      BY <2>1, <1>6, <1>7 DEF ConstantOps, NumberOps
    <3>2. ins.arg \in Literals  BY <3>1, <2>1, <1>3 DEF Fits, LiteralOps
    <3> QED  BY <3>2, <2>1, <1>7 DEF ArgumentOk
  <2>2. CASE e.op \in {"LOAD", "STORE"}
    <3>1. ins.arg = e.arg  BY <2>2, <1>6, <1>7 DEF ConstantOps
    <3>2. ins.arg \in Names  BY <3>1, <2>2, <1>3 DEF Fits
    <3> QED  BY <3>2, <2>2, <1>7 DEF ArgumentOk
  <2>3. CASE e.op = "CREATE_FUNC"
    <3>1. ins.arg \in DOMAIN LoadedCode  BY <2>3, <1>5, <1>11 DEF LabelOps
    <3> QED  BY <3>1, <2>3, <1>7 DEF ArgumentOk
  <2>4. CASE e.op = "CALL"
    <3>1. ins.arg \in Nat /\ Arity(ins.arg) > 0  BY <2>4, <1>3, <1>7, <1>8 DEF Fits
    <3> QED  BY <3>1, <2>4, <1>7 DEF ArgumentOk
  <2>5. CASE e.op = "DEF_FUNC"
    <3>1. ins.arg \in Seq(Names)  BY <2>5, <1>3, <1>7 DEF Fits
    <3> QED  BY <3>1, <2>5, <1>7 DEF ArgumentOk
  <2>6. CASE e.op \notin {"PUSH_INT", "PUSH_FLOAT", "PUSH_LITERAL", "LOAD", "STORE", "CREATE_FUNC",
                          "CALL", "DEF_FUNC"}
    BY <2>6, <1>7 DEF ArgumentOk
  <2> QED  BY <2>1, <2>2, <2>3, <2>4, <2>5, <2>6
<1> QED  BY <1>7, <1>9, <1>10, <1>12, <1>13 DEF e, ins

(* The program made is one the interpreter can run.                         *)
LEMMA WholeWellFormed ==
  ASSUME Whole
  PROVE  WellFormed([code |-> LoadedCode, depth |-> [k \in Places |-> Depths[InstructionAt(k)]],
                     entry |-> IndexAt(module.entryIndex)])
<1> DEFINE depth == [k \in Places |-> Depths[InstructionAt(k)]]
           entry == IndexAt(module.entryIndex)
           program == [code |-> LoadedCode, depth |-> depth, entry |-> entry]
           n == Len(emitted)
<1>1. program.code = LoadedCode /\ program.depth = depth /\ program.entry = entry  OBVIOUS
<1>2. n \in Nat /\ DOMAIN emitted = 1..n  BY WholeFacts
<1>3. DOMAIN depth = Places /\ DOMAIN LoadedCode = Places  BY DEF LoadedCode
<1>4. Places \subseteq Nat
  <2>1. ASSUME NEW i \in Real PROVE Place(i) \in Nat
    <3>1. i \in 1..n /\ Place(i) \in i..n  BY PlaceFacts
    <3> QED  BY <3>1, <1>2
  <2> QED  BY <2>1 DEF Places
<1>5. Depths \in [DOMAIN emitted -> Nat] /\ Carries(Depths)  BY DepthsIs
<1>6. ASSUME NEW i \in Real
      PROVE  /\ Place(i) \in Places /\ LoadedCode[Place(i)] = Loaded(emitted[i])
             /\ depth[Place(i)] = Depths[i] /\ Depths[i] \in Nat /\ i \in DOMAIN emitted
             /\ Pops(emitted[i]) <= Depths[i]
             /\ Depths[i] = IF Afresh(i) THEN 0 ELSE Depths[i - 1] + Gain(emitted[i - 1])
  <2>1. Place(i) \in Places /\ InstructionAt(Place(i)) = i  BY InstructionIs
  <2>2. i \in DOMAIN emitted  BY DEF Real
  <2> QED  BY <2>1, <2>2, <1>5 DEF LoadedCode, Carries
<1>7. ASSUME NEW k \in Places, InstructionAt(k) \in Real, Afresh(InstructionAt(k))
      PROVE  depth[k] = 0
  <2>1. depth[k] = Depths[InstructionAt(k)]  OBVIOUS
  <2> HIDE DEF depth
  <2>2. Depths[InstructionAt(k)] = 0  BY <1>6, <1>7
  <2> QED  BY <2>1, <2>2
<1> HIDE DEF depth
<1>8. entry \in Places /\ depth[entry] = 0
  <2> DEFINE p == <<globalFuncs["$init"], module.entryIndex>>
  <2>1. p \in placed /\ entry = IndexAt(p[2])
    <3>1. ReadsBack  BY ModuleReadsBack DEF Whole
    <3> QED  BY <3>1 DEF ReadsBack, Whole
  <2> HIDE DEF p, entry
  <2> QED  BY <2>1, <1>7, IndexIs
<1> HIDE DEF entry
<1>9. ASSUME NEW pc \in Places
      PROVE  LET ins == LoadedCode[pc]
                 left == depth[pc] - Pops(ins)
             IN /\ depth[pc] \in Nat
                /\ ArgumentOk(LoadedCode, ins)
                /\ left >= 0
                /\ FallsThrough(ins) => /\ pc + 1 \in Places
                                        /\ depth[pc + 1] <= left + Pushes(ins)
                /\ \A t \in JumpTargets(ins) : t \in Places /\ depth[t] <= left
                /\ ins.op = "DEF_FUNC" => pc + 1 \in Places /\ depth[pc + 1] = 0
  <2>1. PICK i \in Real : pc = Place(i)  BY DEF Places
  <2> DEFINE e == emitted[i]
             ins == Loaded(e)
             left == Depths[i] - Pops(ins)
  <2>2. /\ LoadedCode[pc] = ins /\ depth[pc] = Depths[i] /\ Depths[i] \in Nat
        /\ Pops(e) <= Depths[i]
    BY <2>1, <1>6
  <2>3. /\ ins.op = e.op /\ Pops(ins) = Pops(e) /\ Pushes(ins) = Pushes(e)
        /\ Pops(e) \in Nat /\ Pushes(e) \in Nat /\ Gain(e) = Pushes(e) - Pops(e)
        /\ ArgumentOk(LoadedCode, ins)
        /\ \A t \in JumpTargets(ins) :
             t \in Places /\ InstructionAt(t) \in Real /\ Afresh(InstructionAt(t))
    BY LoadedFacts
  <2> HIDE DEF ins, e
  <2>4. left \in Nat /\ left >= 0  BY <2>2, <2>3
  <2>5. \A t \in JumpTargets(ins) : t \in Places /\ depth[t] <= left
    BY <2>3, <2>4, <1>7
  <2> DEFINE j == Place(i) + 1
  <2>6. ASSUME e.op # "RETURN"
        PROVE  /\ j \in Places /\ j = pc + 1 /\ j - 1 = Place(i)
               /\ depth[j] = IF Afresh(j) THEN 0 ELSE Depths[j - 1] + Gain(emitted[j - 1])
    <3>1. j \in Real /\ Place(j) = j /\ j - 1 = Place(i)  BY <2>6, NextPlace DEF e
    <3> HIDE DEF j
    <3>2. Place(j) \in Places /\ depth[Place(j)] = Depths[j]
          /\ Depths[j] = IF Afresh(j) THEN 0 ELSE Depths[j - 1] + Gain(emitted[j - 1])
      BY <3>1, <1>6
    <3> QED  BY <3>1, <3>2, <2>1 DEF j
  <2> HIDE DEF j, left
  <2>7. ASSUME FallsThrough(ins)
        PROVE  pc + 1 \in Places /\ depth[pc + 1] <= left + Pushes(ins)
    <3>1. e.op # "RETURN" /\ e.op # "DEF_FUNC"  BY <2>3, <2>7 DEF FallsThrough, PushOps
    <3>2. Place(i) = i  BY <3>1, PlaceFacts DEF e
    <3>3. depth[j] = IF Afresh(j) THEN 0 ELSE Depths[i] + Gain(e)  BY <3>1, <3>2, <2>6 DEF e
    <3>4. Depths[i] + Gain(e) = left + Pushes(ins)  BY <2>2, <2>3 DEF left
    <3>5. left + Pushes(ins) \in Nat  BY <2>3, <2>4
    <3>6. depth[j] <= left + Pushes(ins)  BY <3>3, <3>4, <3>5
    <3> QED  BY <3>1, <3>6, <2>6
  <2>8. ASSUME ins.op = "DEF_FUNC"
        PROVE  pc + 1 \in Places /\ depth[pc + 1] = 0
    <3>1. e.op # "RETURN"  BY <2>3, <2>8
    <3>2. emitted[Place(i)].op \in {"DEF_FUNC", "ARG_NAME"}  BY <2>3, <2>8, PlaceFacts DEF e
    <3>3. Afresh(j)  BY <3>1, <3>2, <2>6 DEF Afresh
    <3> QED  BY <3>1, <3>3, <2>6
  <2> QED  BY <2>2, <2>3, <2>4, <2>5, <2>7, <2>8 DEF left
<1> HIDE DEF program
<1>10. WellFormed(program)  BY <1>1, <1>3, <1>4, <1>8, <1>9 DEF WellFormed
<1> QED  BY <1>10 DEF program, depth, entry

(* Every run: what is made, within the limits, is a program the interpreter *)
(* can run.                                                                 *)
THEOREM AlwaysRuns == Spec => []RunsOnInterpreter
<1>1. Invariant /\ ProgramInvariant => RunsOnInterpreter
  BY WholeWellFormed DEF RunsOnInterpreter, Whole
<1> QED  BY <1>1, Invariance, ProgramInvariance, PTL
=============================================================================
