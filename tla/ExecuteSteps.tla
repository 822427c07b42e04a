---------------------------- MODULE ExecuteSteps ----------------------------
(*****************************************************************************)
(* What the proofs about Execute rest on.  First, facts about its data:      *)
(* stacks, things, scopes and frames, how they stay well-formed while the    *)
(* stores grow, and that createScope, copyScope, the argument binding and    *)
(* NativeResults keep them so.  Then how the three stacks change together:   *)
(* one lemma for each shape of step, on a frame, into a call, out of one.    *)
(* Each shows that the inductive invariant Inv of ExecuteProperties survives *)
(* the step, given that types do.                                            *)
(*****************************************************************************)
EXTENDS ExecuteProperties, TLAPS, WellFoundedInduction

(* What cutting a stack at n leaves: its first n elements (the pops of      *)
(* list.cpp).                                                               *)
LEMMA BottomLemma ==
  ASSUME NEW S, NEW s \in Seq(S), NEW n \in 0..Len(s)
  PROVE  /\ Bottom(s, n) \in Seq(S)
         /\ Len(Bottom(s, n)) = n
         /\ \A i \in 1..n : Bottom(s, n)[i] = s[i]
BY DEF Bottom

(* What pushing leaves: the elements there were, and the new one on top.    *)
LEMMA AppendLemma ==
  ASSUME NEW S, NEW s \in Seq(S), NEW x \in S
  PROVE  /\ Append(s, x) \in Seq(S)
         /\ Len(Append(s, x)) = Len(s) + 1
         /\ \A i \in 1..Len(s) : Append(s, x)[i] = s[i]
         /\ Append(s, x)[Len(s) + 1] = x
OBVIOUS

(* What an update in place leaves: every other element.                     *)
LEMMA ExceptLemma ==
  ASSUME NEW S, NEW s \in Seq(S), NEW i \in 1..Len(s), NEW x \in S
  PROVE  /\ [s EXCEPT ![i] = x] \in Seq(S)
         /\ Len([s EXCEPT ![i] = x]) = Len(s)
         /\ \A j \in 1..Len(s) : [s EXCEPT ![i] = x][j] = IF j = i THEN x ELSE s[j]
OBVIOUS

(* A sequence over a set is one over any larger set.                        *)
LEMMA SeqMono ==
  ASSUME NEW S, NEW T, S \subseteq T, NEW s \in Seq(S)
  PROVE  s \in Seq(T)
OBVIOUS

(* A non-empty set of naturals has a least element: the scope getScopeValue *)
(* finds.                                                                   *)
LEMMA MinExists ==
  ASSUME NEW S \in SUBSET Nat, S # {}
  PROVE  \E i \in S : \A j \in S : i <= j
<1>1. \E x \in S : \A y \in S : <<y, x>> \notin OpToRel(<, Nat)
  BY NatLessThanWellFounded, WFMin
<1>2. PICK i \in S : \A y \in S : <<y, i>> \notin OpToRel(<, Nat)  BY <1>1
<1>3. ASSUME NEW j \in S PROVE i <= j
  <2>1. ~ (j < i)  BY <1>2 DEF OpToRel
  <2> QED  BY <2>1
<1> QED  BY <1>3

(* A bounded one has a greatest: the argument that binds a repeated name.   *)
LEMMA MaxExists ==
  ASSUME NEW n \in Nat, NEW S \in SUBSET (1..n), S # {}
  PROVE  \E i \in S : \A j \in S : j <= i
<1> DEFINE D == {n - i : i \in S}
<1>1. D \in SUBSET Nat /\ D # {}
  <2>1. PICK i \in S : TRUE  OBVIOUS
  <2>2. n - i \in D  OBVIOUS
  <2>3. \A j \in S : n - j \in Nat  OBVIOUS
  <2> QED  BY <2>2, <2>3
<1>2. PICK d \in D : \A e \in D : d <= e  BY <1>1, MinExists
<1>3. PICK i \in S : d = n - i  OBVIOUS
<1>4. \A j \in S : n - i <= n - j  BY <1>2, <1>3
<1> QED  BY <1>4



(* NULL, which getScopeValue returns for an unbound name, is no thing.      *)
LEMMA NullNoValue == Null \notin Value
BY LiteralsAssumption DEF Null, Value, Scalars, Functions, References, None, Functools, Bool

(* Constants, natives, literals and errors are things in every state.       *)
LEMMA ScalarValues ==
  /\ None \in Value /\ Functools \in Value
  /\ \A b \in BOOLEAN : Bool(b) \in Value
  /\ \A l \in Literals : l \in Value
  /\ \A n \in NativeNames : Native(n) \in Value
  /\ \A m \in Messages : ErrorThing(m) \in Value
BY DEF Value, Scalars, Native, ErrorThing

(* A func thing is well-formed when its entry and its scope exist.          *)
LEMMA FuncValue ==
  ASSUME NEW e \in DOMAIN Code, NEW s \in 1..Len(scopes)
  PROVE  Func(e, s) \in Value
BY DEF Func, Value, Functions

(* A reference is well-formed when what it refers to exists.                *)
LEMMA RefValue ==
  ASSUME NEW t \in {"TUPLE", "LIST", "CELL", "VARARG"}, NEW i \in 1..Len(things),
         t = "TUPLE" \/ things[i] # <<>>
  PROVE  Ref(t, i) \in Value
BY DEF Ref, Value, References

(* What createFrameCall may read of a func thing: an entry and a scope that *)
(* exist.                                                                   *)
LEMMA FuncElim ==
  ASSUME NEW v \in Value, v.type = "FUNC"
  PROVE  v.entry \in DOMAIN Code /\ v.scope \in 1..Len(scopes)
BY LiteralsAssumption DEF Value, Scalars, Functions, References, None, Functools, Bool

(* What a native function may read of a tuple, list, cell or vararg.        *)
LEMMA RefElim ==
  ASSUME NEW v \in Value, v.type \in {"TUPLE", "LIST", "CELL", "VARARG"}
  PROVE  v.id \in 1..Len(things) /\ (v.type # "TUPLE" => things[v.id] # <<>>)
BY LiteralsAssumption DEF Value, Scalars, Functions, References, None, Functools, Bool

-----------------------------------------------------------------------------
(* What no step undoes: the program stays, and the stores of scopes and     *)
(* things only grow.  (The garbage collector frees no reachable thing.)     *)
Growth == /\ program' = program
          /\ Len(scopes) <= Len(scopes') /\ Len(things) <= Len(things')
          /\ \A i \in 1..Len(things) : things[i] # <<>> => things'[i] # <<>>

(* A thing stays well-formed as the stores grow: nothing it refers to goes  *)
(* away.                                                                    *)
LEMMA ValueMono ==
  ASSUME Growth, Len(scopes) \in Nat, Len(scopes') \in Nat, Len(things) \in Nat, Len(things') \in Nat
  PROVE  Value \subseteq Value'
<1>1. Scalars' = Scalars
  BY DEF Scalars
<1>2. Functions \subseteq Functions'
  BY DEF Growth, Functions, Code
<1>3. References \subseteq References'
  BY DEF Growth, References
<1> QED  BY <1>1, <1>2, <1>3 DEF Value

(* So do frames, and the arguments of the C++ functions that are active.    *)
LEMMA TypesMono ==
  ASSUME TypeOK, Growth, scopes' \in Seq(ScopeType'), things' \in Seq(Seq(Value'))
  PROVE  /\ Value \subseteq Value'
         /\ FrameType \subseteq FrameType'
         /\ ActivationType \subseteq ActivationType'
<1>1. Value \subseteq Value'
  BY ValueMono DEF TypeOK
<1>2. FrameType \subseteq FrameType'
  BY DEF FrameType, Growth, Code, NativeFrame, TypeOK
<1>3. Seq(Value) \subseteq Seq(Value')
  BY <1>1, SeqMono
<1>4. ActivationType \subseteq ActivationType'
  BY <1>3 DEF ActivationType
<1> QED  BY <1>1, <1>2, <1>4

(* So do scopes.                                                            *)
LEMMA ScopeTypeMono ==
  ASSUME Growth, Len(scopes) \in Nat, Len(scopes') \in Nat, Value \subseteq Value'
  PROVE  ScopeType \subseteq ScopeType'
<1>1. 1..Len(scopes) \subseteq 1..Len(scopes')
  BY DEF Growth
<1>2. Seq(1..Len(scopes)) \subseteq Seq(1..Len(scopes'))
  BY <1>1, SeqMono
<1>3. [Names -> Value \cup {Null}] \subseteq [Names -> Value' \cup {Null}]
  OBVIOUS
<1> QED  BY <1>2, <1>3 DEF ScopeType

(* A frame is a def frame with an index and a scope that exist, or native.  *)
LEMMA FrameElim ==
  ASSUME NEW f \in FrameType
  PROVE  /\ f.type \in {"DEF", "NATIVE"}
         /\ f.type = "DEF" => f.index \in DOMAIN Code /\ f.scope \in 1..Len(scopes)
BY DEF FrameType, NativeFrame

(* What createStackFrameDef makes is a frame.                               *)
LEMMA DefFrameType ==
  ASSUME NEW i \in DOMAIN Code, NEW s \in 1..Len(scopes)
  PROVE  DefFrame(i, s) \in FrameType /\ DefFrame(i, s).type = "DEF" /\ DefFrame(i, s).index = i
BY DEF FrameType, DefFrame

(* Moving the index of the top frame leaves every other frame as it was.    *)
LEMMA SetIndexLemma ==
  ASSUME TypeOK, Len(frames) > 0, Frame.type = "DEF", NEW pc \in DOMAIN Code
  PROVE  /\ SetIndex(pc) \in Seq(FrameType)
         /\ Len(SetIndex(pc)) = Len(frames)
         /\ \A i \in 1..Len(frames) : i # Len(frames) => SetIndex(pc)[i] = frames[i]
         /\ SetIndex(pc)[Len(frames)].type = "DEF"
         /\ SetIndex(pc)[Len(frames)].index = pc
<1> DEFINE g == [frames[Len(frames)] EXCEPT !.index = pc]
<1>1. frames \in Seq(FrameType) /\ Len(frames) \in 1..Len(frames)
  BY DEF TypeOK
<1>2. frames[Len(frames)] \in [type : {"DEF"}, index : DOMAIN Code, scope : 1..Len(scopes)]
  BY <1>1 DEF Frame, FrameType, NativeFrame
<1>3. g \in FrameType /\ g.type = "DEF" /\ g.index = pc
  BY <1>2 DEF FrameType
<1>4. SetIndex(pc) = [frames EXCEPT ![Len(frames)] = g]
  BY DEF SetIndex
<1> HIDE DEF g
<1> QED  BY <1>1, <1>3, <1>4, ExceptLemma

(* What the certificate says of the instruction at one address.             *)
LEMMA Certificate ==
  ASSUME WellFormed(program), NEW pc \in DOMAIN Code
  PROVE  /\ Depth[pc] \in Nat /\ pc \in Nat
         /\ ArgumentOk(Code, Code[pc])
         /\ Depth[pc] - Pops(Code[pc]) >= 0
         /\ FallsThrough(Code[pc]) =>
              /\ pc + 1 \in DOMAIN Code
              /\ Depth[pc + 1] <= Depth[pc] - Pops(Code[pc]) + Pushes(Code[pc])
         /\ \A t \in JumpTargets(Code[pc]) :
              t \in DOMAIN Code /\ Depth[t] <= Depth[pc] - Pops(Code[pc])
         /\ Code[pc].op = "DEF_FUNC" => pc + 1 \in DOMAIN Code /\ Depth[pc + 1] = 0
BY DEF WellFormed, Code, Depth

-----------------------------------------------------------------------------
(* The parts of a scope.                                                    *)
LEMMA ScopeElim ==
  ASSUME NEW c \in ScopeType
  PROVE  /\ c.chain \in Seq(1..Len(scopes)) /\ c.locals \in [Names -> Value \cup {Null}]
         /\ c = [chain |-> c.chain, locals |-> c.locals]
BY DEF ScopeType

(* getScopeValue finds a thing or nothing.                                  *)
LEMMA ScopeLookup ==
  ASSUME TypeOK, NEW s \in 1..Len(scopes), NEW n \in Names
  PROVE  getScopeValue(s, n) \in Value \cup {Null}
<1> DEFINE chain == scopes[s].chain
           bound == {i \in DOMAIN chain : scopes[chain[i]].locals[n] # Null}
           nearest == CHOOSE i \in bound : \A j \in bound : i <= j
<1>1. \A t \in 1..Len(scopes) : scopes[t] \in ScopeType
  BY DEF TypeOK
<1>2. chain \in Seq(1..Len(scopes))
  BY <1>1, ScopeElim
<1>3. CASE bound = {}
  BY <1>3 DEF getScopeValue
<1>4. CASE bound # {}
  <2>1. DOMAIN chain = 1..Len(chain) /\ Len(chain) \in Nat
    BY <1>2
  <2>2. bound \in SUBSET Nat
    BY <2>1
  <2>3. \E i \in bound : \A j \in bound : i <= j
    BY <1>4, <2>2, MinExists
  <2> HIDE DEF bound
  <2>4. nearest \in bound
    BY <2>3
  <2> HIDE DEF nearest
  <2> USE DEF bound
  <2>5. nearest \in 1..Len(chain)
    BY <2>1, <2>4
  <2> HIDE DEF chain
  <2>6. chain[nearest] \in 1..Len(scopes)
    BY <2>5, <1>2
  <2>7. scopes[chain[nearest]].locals \in [Names -> Value \cup {Null}]
    BY <2>6, <1>1, ScopeElim
  <2>8. getScopeValue(s, n) = scopes[chain[nearest]].locals[n]
    BY <1>4 DEF getScopeValue, nearest, chain
  <2> HIDE DEF nearest, bound, chain
  <2> QED  BY <2>7, <2>8
<1> QED  BY <1>3, <1>4

(* createScope adds a scope, and every thing, frame and scope there was     *)
(* stays well-formed.                                                       *)
LEMMA GrowScopes ==
  ASSUME TypeOK, program' = program, things' = things, NEW s \in 1..Len(scopes),
         NEW l \in [Names -> Value \cup {Null}], scopes' = Append(scopes, createScope(s, l))
  PROVE  /\ Growth /\ Value \subseteq Value'
         /\ scopes' \in Seq(ScopeType') /\ things' \in Seq(Seq(Value'))
         /\ NewScope \in 1..Len(scopes')
<1>1. Len(scopes) \in Nat /\ scopes \in Seq(ScopeType) /\ Len(things) \in Nat
  BY DEF TypeOK
<1> DEFINE c == createScope(s, l)
           S == ScopeType \cup {c}
<1>2. scopes \in Seq(S) /\ c \in S
  BY <1>1, SeqMono
<1> HIDE DEF c, S
<1>3. /\ Len(scopes') = Len(scopes) + 1 /\ scopes' \in Seq(S)
  BY <1>2, AppendLemma DEF c
<1>4. Growth
  BY <1>1, <1>3 DEF Growth
<1>5. Value \subseteq Value'
  BY <1>1, <1>3, <1>4, ValueMono
<1>6. ScopeType \subseteq ScopeType'
  BY <1>1, <1>3, <1>4, <1>5, ScopeTypeMono
<1>7. c \in ScopeType'
  <2>1. scopes[s].chain \in Seq(1..Len(scopes))
    BY <1>1, ScopeElim
  <2>2. scopes[s].chain \in Seq(1..Len(scopes'))
    BY <2>1, <1>1, <1>3, SeqMono
  <2>3. NewScope \in 1..Len(scopes')
    BY <1>1, <1>3 DEF NewScope
  <2>4. <<NewScope>> \o scopes[s].chain \in Seq(1..Len(scopes'))
    BY <2>2, <2>3
  <2>5. l \in [Names -> Value' \cup {Null}]
    BY <1>5
  <2> QED  BY <2>4, <2>5 DEF c, createScope, ScopeType, Null
<1>8. scopes' \in Seq(ScopeType')
  <2>1. S \subseteq ScopeType'
    BY <1>6, <1>7 DEF S
  <2> QED  BY <2>1, <1>3, SeqMono
<1>9. things' \in Seq(Seq(Value'))
  <2>1. Seq(Value) \subseteq Seq(Value')
    BY <1>5, SeqMono
  <2> QED  BY <2>1, SeqMono DEF TypeOK
<1>10. NewScope \in 1..Len(scopes')
  BY <1>1, <1>3 DEF NewScope
<1> QED  BY <1>4, <1>5, <1>8, <1>9, <1>10

(* What copyScope binds are things.                                         *)
LEMMA CopiedScope ==
  ASSUME TypeOK, NEW s \in 1..Len(scopes)
  PROVE  [n \in Names |-> getScopeValue(s, n)] \in [Names -> Value \cup {Null}]
BY ScopeLookup

(* OP_STORE changes one binding of one scope, and no scope goes away.       *)
LEMMA StoreScope ==
  ASSUME TypeOK, program' = program, things' = things, NEW s \in 1..Len(scopes),
         NEW n \in Names, NEW v \in Value,
         scopes' = [scopes EXCEPT ![s].locals[n] = v]
  PROVE  /\ Growth /\ Value' = Value
         /\ scopes' \in Seq(ScopeType') /\ things' \in Seq(Seq(Value'))
<1>1. Len(scopes) \in Nat /\ scopes \in Seq(ScopeType) /\ Len(things) \in Nat
  BY DEF TypeOK
<1> DEFINE c == [scopes[s] EXCEPT !.locals[n] = v]
<1>2. c \in ScopeType
  <2>1. scopes[s].chain \in Seq(1..Len(scopes)) /\ scopes[s].locals \in [Names -> Value \cup {Null}]
        /\ scopes[s] = [chain |-> scopes[s].chain, locals |-> scopes[s].locals]
    BY <1>1, ScopeElim
  <2>2. c = [chain |-> scopes[s].chain, locals |-> [scopes[s].locals EXCEPT ![n] = v]]
    <3>1. \A ch, lo : [[chain |-> ch, locals |-> lo] EXCEPT !.locals[n] = v]
                        = [chain |-> ch, locals |-> [lo EXCEPT ![n] = v]]
      OBVIOUS
    <3> QED  BY <2>1, <3>1
  <2>3. [scopes[s].locals EXCEPT ![n] = v] \in [Names -> Value \cup {Null}]
    BY <2>1
  <2> QED  BY <2>1, <2>2, <2>3 DEF ScopeType
<1>3. scopes' = [scopes EXCEPT ![s] = c]
  OBVIOUS
<1> HIDE DEF c
<1>4. scopes' \in Seq(ScopeType) /\ Len(scopes') = Len(scopes)
  BY <1>1, <1>2, <1>3, ExceptLemma
<1>5. Growth
  BY <1>1, <1>4 DEF Growth
<1>6. Value' = Value
  <2>1. Scalars' = Scalars
    BY DEF Scalars
  <2>2. Functions' = Functions
    BY <1>4 DEF Functions, Code
  <2>3. References' = References
    BY DEF References
  <2> QED  BY <2>1, <2>2, <2>3 DEF Value
<1>7. ScopeType' = ScopeType
  BY <1>4, <1>6 DEF ScopeType, Null
<1> QED  BY <1>4, <1>5, <1>6, <1>7 DEF TypeOK

(* createFrameCall binds names to the arguments it is given.                *)
LEMMA Bound ==
  ASSUME NEW V, NEW args \in Seq(V), NEW names \in Seq(Names), Len(args) = Len(names)
  PROVE  BindArguments(names, args) \in [Names -> V \cup {Null}]
<1> SUFFICES ASSUME NEW n \in Names
             PROVE  BindArguments(names, args)[n] \in V \cup {Null}
  BY DEF BindArguments
<1> DEFINE at == {i \in DOMAIN names : names[i] = n}
           last == CHOOSE i \in at : \A j \in at : j <= i
<1>1. BindArguments(names, args)[n] = IF at = {} THEN Null ELSE args[last]
  BY DEF BindArguments
<1>2. CASE at = {}
  BY <1>1, <1>2
<1>3. CASE at # {}
  <2>1. Len(names) \in Nat /\ at \in SUBSET (1..Len(names))
    OBVIOUS
  <2>2. \E i \in at : \A j \in at : j <= i
    BY <1>3, <2>1, MaxExists
  <2>3. last \in at
    BY <2>2
  <2>4. last \in 1..Len(args)
    BY <2>1, <2>3
  <2> HIDE DEF last, at
  <2> QED  BY <1>1, <1>3, <2>4
<1> QED  BY <1>2, <1>3

(* createRuntime binds the builtins to things,                              *)
LEMMA BuiltinsTyped == Builtins \in [Names -> Value \cup {Null}]
<1> SUFFICES ASSUME NEW n \in Names PROVE Builtins[n] \in Value \cup {Null}
  BY DEF Builtins
<1>1. Builtins[n] = CASE n \in BuiltinNames -> Native(n)
                      [] n = "none" -> None
                      [] n = "true" -> Bool(TRUE)
                      [] n = "false" -> Bool(FALSE)
                      [] OTHER -> Null
  BY DEF Builtins
<1>2. \A b \in BuiltinNames : Native(b) \in Value
  <2>1. BuiltinNames \subseteq NativeNames
    BY DEF NativeNames
  <2> QED  BY <2>1, ScalarValues
<1>3. None \in Value /\ Bool(TRUE) \in Value /\ Bool(FALSE) \in Value
  BY ScalarValues
<1>4. "none" \notin BuiltinNames /\ "true" \notin BuiltinNames /\ "false" \notin BuiltinNames
  BY DEF BuiltinNames
<1> QED  BY <1>1, <1>2, <1>3, <1>4

(* and PUSH_BUILTIN finds things among the operators.                       *)
LEMMA OperatorTyped ==
  ASSUME NEW n, Operator(n) # Null
  PROVE  Operator(n) \in Value
<1>1. \A o \in OperatorNames : Native(o) \in Value
  <2>1. OperatorNames \subseteq NativeNames
    BY DEF NativeNames
  <2> QED  BY <2>1, ScalarValues
<1> QED  BY <1>1, ScalarValues DEF Operator

-----------------------------------------------------------------------------
(* Things are only added, or filled again when they are cells.              *)
LEMMA GrowThings ==
  ASSUME TypeOK, program' = program, scopes' = scopes, NEW held \in Seq(Value),
         things' = Append(things, held)
  PROVE  /\ Growth /\ Value \subseteq Value'
         /\ scopes' \in Seq(ScopeType') /\ things' \in Seq(Seq(Value'))
         /\ Ref("TUPLE", Len(things) + 1) \in Value'
         /\ \A t \in {"LIST", "CELL", "VARARG"} :
              held # <<>> => Ref(t, Len(things) + 1) \in Value'
<1>1. Len(scopes) \in Nat /\ scopes \in Seq(ScopeType) /\ Len(things) \in Nat
      /\ things \in Seq(Seq(Value))
  BY DEF TypeOK
<1>2. /\ things' \in Seq(Seq(Value)) /\ Len(things') = Len(things) + 1
      /\ \A i \in 1..Len(things) : things'[i] = things[i]
      /\ things'[Len(things) + 1] = held
  BY <1>1, AppendLemma
<1>3. Growth
  BY <1>1, <1>2 DEF Growth
<1>4. Value \subseteq Value'
  BY <1>1, <1>2, <1>3, ValueMono
<1>5. ScopeType \subseteq ScopeType'
  BY <1>1, <1>3, <1>4, ScopeTypeMono
<1>6. scopes' \in Seq(ScopeType')
  BY <1>1, <1>5, SeqMono
<1>7. things' \in Seq(Seq(Value'))
  <2>1. Seq(Value) \subseteq Seq(Value')
    BY <1>4, SeqMono
  <2> QED  BY <2>1, <1>2, SeqMono
<1>8. Len(things) + 1 \in 1..Len(things')
  BY <1>1, <1>2
<1>9. Ref("TUPLE", Len(things) + 1) \in Value'
  BY <1>8 DEF Ref, Value, References
<1>10. ASSUME NEW t \in {"LIST", "CELL", "VARARG"}, held # <<>>
       PROVE  Ref(t, Len(things) + 1) \in Value'
  BY <1>8, <1>10, <1>2 DEF Ref, Value, References
<1> QED  BY <1>3, <1>4, <1>6, <1>7, <1>9, <1>10

(* setCell fills a cell again.                                              *)
LEMMA FillThing ==
  ASSUME TypeOK, program' = program, scopes' = scopes, NEW i \in 1..Len(things),
         NEW v \in Value, things' = [things EXCEPT ![i] = <<v>>]
  PROVE  /\ Growth /\ Value \subseteq Value'
         /\ scopes' \in Seq(ScopeType') /\ things' \in Seq(Seq(Value'))
<1>1. Len(scopes) \in Nat /\ scopes \in Seq(ScopeType) /\ Len(things) \in Nat
      /\ things \in Seq(Seq(Value)) /\ <<v>> \in Seq(Value)
  BY DEF TypeOK
<1> DEFINE w == <<v>>
<1>2. w # <<>>
  OBVIOUS
<1>3. w \in Seq(Value)
  BY <1>1
<1> HIDE DEF w
<1>4. /\ things' \in Seq(Seq(Value)) /\ Len(things') = Len(things)
      /\ \A j \in 1..Len(things) : things'[j] = IF j = i THEN w ELSE things[j]
  BY <1>1, <1>3, ExceptLemma DEF w
<1>5. Growth
  BY <1>1, <1>2, <1>4 DEF Growth
<1>6. Value \subseteq Value'
  BY <1>1, <1>4, <1>5, ValueMono
<1>7. ScopeType \subseteq ScopeType'
  BY <1>1, <1>5, <1>6, ScopeTypeMono
<1>8. scopes' \in Seq(ScopeType')
  BY <1>1, <1>7, SeqMono
<1>9. things' \in Seq(Seq(Value'))
  <2>1. Seq(Value) \subseteq Seq(Value')
    BY <1>6, SeqMono
  <2> QED  BY <2>1, <1>4, SeqMono
<1> QED  BY <1>5, <1>6, <1>8, <1>9

(* A step that makes nothing keeps everything well-formed.                  *)
LEMMA SameThings ==
  ASSUME TypeOK, program' = program, scopes' = scopes, things' = things
  PROVE  /\ Growth /\ Value' = Value
         /\ scopes' \in Seq(ScopeType') /\ things' \in Seq(Seq(Value'))
<1>1. Value' = Value
  BY DEF Value, Scalars, Functions, References, Code
<1>2. ScopeType' = ScopeType
  BY <1>1 DEF ScopeType, Null
<1>3. Growth
  BY DEF Growth, TypeOK
<1> QED  BY <1>1, <1>2, <1>3 DEF TypeOK

(* A list that the native functions may take apart.                         *)
NonEmptySeq(q) == /\ q[1] \in Value /\ Len(q) \in Nat \ {0} /\ Tail(q) \in Seq(Value)
                  /\ Len(q) # 1 => Tail(q) # <<>>

(* A list that is not empty has a head, and a tail when it is longer than   *)
(* one.                                                                     *)
LEMMA NonEmptyFacts ==
  ASSUME NEW q \in Seq(Value), q # <<>>
  PROVE  NonEmptySeq(q)
<1>1. Len(q) \in Nat \ {0}
  OBVIOUS
<1>2. q[1] \in Value
  BY <1>1
<1>3. Tail(q) \in Seq(Value) /\ Len(Tail(q)) = Len(q) - 1
  BY <1>1
<1>4. Len(q) # 1 => Len(Tail(q)) # 0
  BY <1>1, <1>3
<1>5. Len(q) # 1 => Tail(q) # <<>>
  BY <1>4
<1> QED  BY <1>1, <1>2, <1>3, <1>5 DEF NonEmptySeq

(* What a tuple, list, cell or vararg holds are things; all but tuples hold *)
(* one at least.                                                            *)
LEMMA HeldTyped ==
  ASSUME TypeOK, NEW v \in Value, v.type \in {"TUPLE", "LIST", "CELL", "VARARG"}
  PROVE  /\ Held(v) \in Seq(Value)
         /\ v.type # "TUPLE" => /\ Held(v)[1] \in Value /\ Len(Held(v)) \in Nat \ {0}
                                /\ Tail(Held(v)) \in Seq(Value)
                                /\ Len(Held(v)) # 1 => Tail(Held(v)) # <<>>
<1>1. v.id \in 1..Len(things) /\ (v.type # "TUPLE" => things[v.id] # <<>>)
  BY RefElim
<1>2. Held(v) \in Seq(Value)
  BY <1>1 DEF Held, TypeOK
<1>3. Held(v) # <<>> => NonEmptySeq(Held(v))
  BY <1>2, NonEmptyFacts
<1>4. v.type # "TUPLE" => Held(v) # <<>>
  BY <1>1 DEF Held
<1> QED  BY <1>2, <1>3, <1>4 DEF NonEmptySeq

-----------------------------------------------------------------------------
(* The outcomes of the native functions that return at once.                *)
(* What a native function returns, and what things is then, are well-formed. *)
Returned == [error : BOOLEAN, value : Value]
Typed(r) == /\ Growth /\ Value \subseteq Value'
            /\ scopes' \in Seq(ScopeType') /\ things' \in Seq(Seq(Value'))
            /\ r.ret \in Returned'

(* A result is a RetVal,                                                    *)
LEMMA OkTyped ==
  ASSUME NEW v \in Value
  PROVE  Ok(v) \in Returned
BY DEF Ok, Returned

(* and so is an error.                                                      *)
LEMMA ThrowTyped ==
  ASSUME NEW m \in Messages
  PROVE  Throw(m) \in Returned
BY ScalarValues DEF Throw, Returned

(* A native function that makes no thing is well-behaved,                   *)
LEMMA ResultTyped ==
  ASSUME TypeOK, program' = program, scopes' = scopes, NEW x \in Returned,
         NEW r \in Result(x), things' = r.things
  PROVE  Typed(r)
<1>1. r.ret = x /\ things' = things
  BY DEF Result
<1> QED  BY <1>1, SameThings DEF Typed, Returned

(* and so is one that makes a thing out of things.                          *)
LEMMA NewThingTyped ==
  ASSUME TypeOK, program' = program, scopes' = scopes, NEW held \in Seq(Value),
         NEW t \in {"TUPLE", "LIST", "CELL", "VARARG"}, t = "TUPLE" \/ held # <<>>,
         NEW r \in NewThing(t, held), things' = r.things
  PROVE  Typed(r)
<1>1. r.ret = Ok(Ref(t, Len(things) + 1)) /\ things' = Append(things, held)
  BY DEF NewThing
<1>2. /\ Growth /\ Value \subseteq Value'
      /\ scopes' \in Seq(ScopeType') /\ things' \in Seq(Seq(Value'))
      /\ Ref(t, Len(things) + 1) \in Value'
  BY <1>1, GrowThings
<1>3. r.ret \in [error : BOOLEAN, value : Value']
  BY <1>1, <1>2 DEF Ok
<1> QED  BY <1>2, <1>3 DEF Typed, Returned

(* The == symbol returns a bool or an error,                                *)
LEMMA EqualTyped ==
  ASSUME NEW args
  PROVE  Equal(args) \subseteq Returned
<1>1. \A b \in BOOLEAN : Ok(Bool(b)) \in Returned
  BY ScalarValues, OkTyped
<1>2. Throw("bad args") \in Returned
  BY ThrowTyped DEF Messages
<1>3. (args[1] = args[2]) \in BOOLEAN
  OBVIOUS
<1>4. Ok(Bool(args[1] = args[2])) \in Returned
  BY <1>1, <1>3
<1> QED  BY <1>1, <1>2, <1>4 DEF Equal

(* and assert_equal none or an error.                                       *)
LEMMA AssertEqualTyped ==
  ASSUME NEW args
  PROVE  AssertEqual(args) \subseteq Returned
<1>1. Ok(None) \in Returned
  BY ScalarValues, OkTyped
<1>2. Throw("assertion") \in Returned
  BY ThrowTyped DEF Messages
<1> QED  BY <1>1, <1>2, EqualTyped DEF AssertEqual

(* tail, and the tail of unpack_cons: a shorter list, or none.              *)
LEMMA RestTyped ==
  ASSUME TypeOK, program' = program, scopes' = scopes, NEW v \in Value, v.type = "LIST",
         NEW r \in Rest(v), things' = r.things
  PROVE  Typed(r)
<1>1. NonEmptySeq(Held(v))
  BY HeldTyped DEF NonEmptySeq
<1>2. CASE Len(Held(v)) = 1
  <2>1. r \in Result(Ok(None)) /\ Ok(None) \in Returned
    BY <1>2, ScalarValues, OkTyped DEF Rest
  <2> QED  BY <2>1, ResultTyped
<1>3. CASE Len(Held(v)) # 1
  <2>1. /\ r \in NewThing("LIST", Tail(Held(v))) /\ Tail(Held(v)) \in Seq(Value)
        /\ Tail(Held(v)) # <<>>
    BY <1>1, <1>3 DEF Rest, NonEmptySeq
  <2> QED  BY <2>1, NewThingTyped
<1> QED  BY <1>2, <1>3

(* A sequence with elements is not the empty one.                           *)
LEMMA NonEmpty ==
  ASSUME NEW S, NEW q \in Seq(S), Len(q) # 0
  PROVE  q # <<>>
OBVIOUS

(* unpack_cons returns the pair of a list's head and its tail.              *)
LEMMA UnpackedTyped ==
  ASSUME TypeOK, program' = program, scopes' = scopes, NEW v \in Value, v.type = "LIST",
         NEW r \in Unpacked(v), things' = r.things
  PROVE  Typed(r)
<1>1. NonEmptySeq(Held(v))
  BY HeldTyped DEF NonEmptySeq
<1>2. PICK x \in Rest(v) : /\ r.ret = Ok(Ref("TUPLE", Len(x.things) + 1))
                           /\ r.things = Append(x.things, <<Held(v)[1], x.ret.value>>)
  BY DEF Unpacked
<1>3. CASE Len(Held(v)) = 1
  <2>1. x.things = things /\ x.ret.value = None
    BY <1>3 DEF Rest, Result, Ok
  <2>2. <<Held(v)[1], None>> \in Seq(Value)
    BY <1>1, ScalarValues DEF NonEmptySeq
  <2>3. r \in NewThing("TUPLE", <<Held(v)[1], None>>)
    <3>1. r = [ret |-> r.ret, things |-> r.things]
      BY DEF Unpacked
    <3> QED  BY <3>1, <1>2, <2>1 DEF NewThing
  <2> QED  BY <2>2, <2>3, NewThingTyped
<1>4. CASE Len(Held(v)) # 1
  <2> DEFINE t == Tail(Held(v))
             w == <<Held(v)[1], Ref("LIST", Len(things) + 1)>>
             a == Append(things, t)
  <2>1. x.things = a /\ x.ret.value = Ref("LIST", Len(things) + 1)
    BY <1>4 DEF Rest, NewThing, Ok
  <2>2. t \in Seq(Value) /\ t # <<>> /\ Held(v)[1] \in Value
    BY <1>1, <1>4 DEF NonEmptySeq
  <2>3. Len(scopes) \in Nat /\ scopes \in Seq(ScopeType) /\ Len(things) \in Nat
        /\ things \in Seq(Seq(Value))
    BY DEF TypeOK
  <2> HIDE DEF t
  <2>4. /\ a \in Seq(Seq(Value)) /\ Len(a) = Len(things) + 1
        /\ \A i \in 1..Len(things) : a[i] = things[i]
        /\ a[Len(things) + 1] = t
    BY <2>2, <2>3, AppendLemma
  <2> HIDE DEF a
  <2>5. things' = Append(a, w)
    BY <1>2, <2>1
  <2> DEFINE S == Seq(Value) \cup {w}
  <2>6. a \in Seq(S) /\ w \in S
    BY <2>4, SeqMono
  <2> HIDE DEF w, S
  <2>7. /\ things' \in Seq(S) /\ Len(things') = Len(a) + 1
        /\ \A i \in 1..Len(a) : things'[i] = a[i]
    BY <2>5, <2>6, AppendLemma
  <2>8. /\ Len(things') = Len(things) + 2
        /\ \A i \in 1..Len(things) : things'[i] = things[i]
        /\ things'[Len(things) + 1] = t
    BY <2>3, <2>4, <2>7
  <2>9. Growth
    BY <2>3, <2>8 DEF Growth
  <2>10. Value \subseteq Value'
    BY <2>3, <2>8, <2>9, ValueMono
  <2>11. ScopeType \subseteq ScopeType'
    BY <2>3, <2>8, <2>9, <2>10, ScopeTypeMono
  <2>12. scopes' \in Seq(ScopeType')
    BY <2>3, <2>11, SeqMono
  <2>13. Len(things) + 1 \in 1..Len(things') /\ Len(things) + 2 \in 1..Len(things')
    BY <2>3, <2>8
  <2>14. Ref("LIST", Len(things) + 1) \in Value'
    BY <2>2, <2>8, <2>13 DEF Ref, Value, References
  <2>15. w \in Seq(Value')
    BY <2>2, <2>10, <2>14 DEF w
  <2>16. things' \in Seq(Seq(Value'))
    <3>1. Seq(Value) \subseteq Seq(Value')
      BY <2>10, SeqMono
    <3>2. S \subseteq Seq(Value')
      BY <3>1, <2>15 DEF S
    <3> QED  BY <3>2, <2>7, SeqMono
  <2>17. Ref("TUPLE", Len(things) + 2) \in Value'
    BY <2>13 DEF Ref, Value, References
  <2>18. r.ret = Ok(Ref("TUPLE", Len(things) + 2))
    <3>1. Len(x.things) + 1 = Len(things) + 2
      BY <2>1, <2>3, <2>4
    <3> QED  BY <1>2, <3>1
  <2>19. r.ret \in Returned'
    BY <2>17, <2>18 DEF Ok, Returned
  <2> QED  BY <2>9, <2>10, <2>12, <2>16, <2>19 DEF Typed
<1> QED  BY <1>3, <1>4

(* The native functions on scalars return well-formed results,              *)
LEMMA BasicTyped ==
  ASSUME TypeOK, program' = program, scopes' = scopes, NEW n, NEW args \in Seq(Value),
         NEW r \in BasicResults(n, args), things' = r.things
  PROVE  Typed(r)
<1>1. /\ \A i \in 1..Len(args) : args[i] \in Value
      /\ Len(args) \in Nat
      /\ \A i \in 1..Len(args) : i \in DOMAIN args
  OBVIOUS
<1>2. Throw("not callable") \in Returned /\ Throw("bad args") \in Returned
      /\ Throw("assertion") \in Returned
  BY ThrowTyped DEF Messages
<1>3. /\ Ok(None) \in Returned /\ Ok(Functools) \in Returned
      /\ \A b \in BOOLEAN : Ok(Bool(b)) \in Returned
      /\ \A l \in Literals : Ok(l) \in Returned
      /\ \A m \in NativeNames : Ok(Native(m)) \in Returned
  BY ScalarValues, OkTyped
<1>4. \A t1 : TypesAre(args, <<t1>>) => Len(args) = 1 /\ args[1].type = t1
  BY <1>1 DEF TypesAre
<1>5. \A t1, t2 : TypesAre(args, <<t1, t2>>) =>
         Len(args) = 2 /\ args[1].type = t1 /\ args[2].type = t2
  BY <1>1 DEF TypesAre
<1>6. r \in BadArgs => Typed(r)
  BY <1>2, ResultTyped DEF BadArgs
<1>7. CASE n = "print"
  <2>1. r \in Result(Ok(None)) \/ r \in BadArgs
    BY <1>7 DEF BasicResults
  <2> QED  BY <2>1, <1>3, <1>6, ResultTyped
<1>8. CASE n = "input"
  <2>1. \E l \in Inputs : r \in Result(Ok(l))
    BY <1>8 DEF BasicResults
  <2> QED  BY <2>1, <1>3, ResultTyped, LiteralsAssumption
<1>9. CASE n = "assert"
  <2>1. \/ r \in Result(Ok(None)) \/ r \in Result(Throw("assertion")) \/ r \in BadArgs
    BY <1>9 DEF BasicResults
  <2> QED  BY <2>1, <1>2, <1>3, <1>6, ResultTyped
<1>10. CASE n = "assert_equal"
  <2>1. \E x \in AssertEqual(args) : r \in Result(x)
    BY <1>10 DEF BasicResults
  <2> QED  BY <2>1, AssertEqualTyped, ResultTyped
<1>11. CASE n = "is_none"
  <2>1. (\E b \in BOOLEAN : r \in Result(Ok(Bool(b)))) \/ r \in BadArgs
    BY <1>11 DEF BasicResults
  <2> QED  BY <2>1, <1>3, <1>6, ResultTyped
<1>12. CASE n = "not"
  <2>1. (\E b \in BOOLEAN : r \in Result(Ok(Bool(b)))) \/ r \in BadArgs
    BY <1>12 DEF BasicResults
  <2> QED  BY <2>1, <1>3, <1>6, ResultTyped
<1>13. CASE n = "=="
  <2>1. \E x \in Equal(args) : r \in Result(x)
    BY <1>13 DEF BasicResults
  <2> QED  BY <2>1, EqualTyped, ResultTyped
<1>14. CASE n = "import"
  <2>1. r \in Result(Ok(Functools)) \/ r \in BadArgs
    BY <1>14 DEF BasicResults
  <2> QED  BY <2>1, <1>3, <1>6, ResultTyped
<1>15. CASE n = "."
  <2>1. \/ r \in Result(Ok(Native("call"))) \/ r \in Result(Ok(Native("varargs")))
        \/ r \in BadArgs
    BY <1>15 DEF BasicResults
  <2>2. "call" \in NativeNames /\ "varargs" \in NativeNames
    BY DEF NativeNames
  <2> QED  BY <2>1, <2>2, <1>3, <1>6, ResultTyped
<1>16. CASE n \notin {"print", "input", "assert", "assert_equal", "is_none", "not", "==", "import", "."}
  <2>1. r \in BadArgs
    BY <1>16 DEF BasicResults
  <2> QED  BY <2>1, <1>6
<1> QED  BY <1>7, <1>8, <1>9, <1>10, <1>11, <1>12, <1>13, <1>14, <1>15, <1>16

(* the ones on tuples, lists, cells and varargs too,                        *)
LEMMA DataTyped ==
  ASSUME TypeOK, program' = program, scopes' = scopes, NEW n, NEW args \in Seq(Value),
         NEW r \in DataResults(n, args), things' = r.things
  PROVE  Typed(r)
<1>1. /\ \A i \in 1..Len(args) : args[i] \in Value
      /\ Len(args) \in Nat
      /\ \A i \in 1..Len(args) : i \in DOMAIN args
  OBVIOUS
<1>2. Throw("not callable") \in Returned /\ Throw("bad args") \in Returned
      /\ Throw("assertion") \in Returned
  BY ThrowTyped DEF Messages
<1>3. /\ Ok(None) \in Returned /\ Ok(Functools) \in Returned
      /\ \A b \in BOOLEAN : Ok(Bool(b)) \in Returned
      /\ \A l \in Literals : Ok(l) \in Returned
      /\ \A m \in NativeNames : Ok(Native(m)) \in Returned
  BY ScalarValues, OkTyped
<1>4. \A t1 : TypesAre(args, <<t1>>) => Len(args) = 1 /\ args[1].type = t1
  BY <1>1 DEF TypesAre
<1>5. \A t1, t2 : TypesAre(args, <<t1, t2>>) =>
         Len(args) = 2 /\ args[1].type = t1 /\ args[2].type = t2
  BY <1>1 DEF TypesAre
<1>6. r \in BadArgs => Typed(r)
  BY <1>2, ResultTyped DEF BadArgs
<1>7. CASE n = "tuple"
  <2>1. r \in NewThing("TUPLE", args)
    BY <1>7 DEF DataResults
  <2> QED  BY <2>1, NewThingTyped
<1>8. CASE n = "get"
  <2>1. \/ r \in BadArgs
        \/ InBounds(args) /\ r \in Result(Ok(Held(args[1])[args[2].int + 1]))
    BY <1>8 DEF DataResults
  <2>2. ASSUME InBounds(args) PROVE Ok(Held(args[1])[args[2].int + 1]) \in Returned
    <3>1. /\ args[1] \in Value /\ args[1].type = "TUPLE"
          /\ args[2].int + 1 \in DOMAIN Held(args[1])
      BY <2>2, <1>1, <1>5 DEF InBounds
    <3>2. Held(args[1]) \in Seq(Value)
      BY <3>1, HeldTyped
    <3>3. Held(args[1])[args[2].int + 1] \in Value
      BY <3>1, <3>2
    <3> QED  BY <3>3, OkTyped
  <2> QED  BY <2>1, <2>2, <1>6, ResultTyped
<1>9. CASE n = "::"
  <2>1. \/ r \in BadArgs
        \/ Len(args) = 2 /\ r \in NewThing("LIST", <<args[1]>>)
        \/ Len(args) = 2 /\ args[2].type = "LIST"
             /\ r \in NewThing("LIST", <<args[1]>> \o Held(args[2]))
    BY <1>9 DEF DataResults
  <2>2. Len(args) = 2 => <<args[1]>> \in Seq(Value) /\ <<args[1]>> # <<>>
    BY <1>1
  <2>3. ASSUME Len(args) = 2, args[2].type = "LIST"
        PROVE  <<args[1]>> \o Held(args[2]) \in Seq(Value)
               /\ <<args[1]>> \o Held(args[2]) # <<>>
    <3>1. args[2] \in Value /\ args[1] \in Value
      BY <2>3, <1>1
    <3>2. Held(args[2]) \in Seq(Value)
      BY <2>3, <3>1, HeldTyped
    <3> QED  BY <3>1, <3>2
  <2> QED  BY <2>1, <2>2, <2>3, <1>6, NewThingTyped
<1>10. CASE n = "head"
  <2>1. \/ r \in BadArgs
        \/ TypesAre(args, <<"LIST">>) /\ r \in Result(Ok(Held(args[1])[1]))
    BY <1>10 DEF DataResults
  <2>2. ASSUME TypesAre(args, <<"LIST">>) PROVE Ok(Held(args[1])[1]) \in Returned
    <3>1. args[1] \in Value /\ args[1].type = "LIST"
      BY <2>2, <1>1, <1>4
    <3> QED  BY <3>1, HeldTyped, OkTyped
  <2> QED  BY <2>1, <2>2, <1>6, ResultTyped
<1>11. CASE n = "tail"
  <2>1. \/ r \in BadArgs
        \/ TypesAre(args, <<"LIST">>) /\ r \in Rest(args[1])
    BY <1>11 DEF DataResults
  <2>2. TypesAre(args, <<"LIST">>) => args[1] \in Value /\ args[1].type = "LIST"
    BY <1>1, <1>4
  <2> QED  BY <2>1, <2>2, <1>6, RestTyped
<1>12. CASE n = "unpack_cons"
  <2>1. \/ r \in BadArgs
        \/ TypesAre(args, <<"LIST">>) /\ r \in Unpacked(args[1])
    BY <1>12 DEF DataResults
  <2>2. TypesAre(args, <<"LIST">>) => args[1] \in Value /\ args[1].type = "LIST"
    BY <1>1, <1>4
  <2> QED  BY <2>1, <2>2, <1>6, UnpackedTyped
<1>13. CASE n = "createCell"
  <2>1. \/ r \in BadArgs
        \/ Len(args) = 1 /\ r \in NewThing("CELL", args)
    BY <1>13 DEF DataResults
  <2>2. Len(args) = 1 => args # <<>>
    <3> SUFFICES ASSUME Len(args) = 1 PROVE args # <<>>
      OBVIOUS
    <3>1. Len(args) # 0
      OBVIOUS
    <3> QED  BY <3>1, NonEmpty
  <2> QED  BY <2>1, <2>2, <1>6, NewThingTyped
<1>14. CASE n = "getCell"
  <2>1. \/ r \in BadArgs
        \/ TypesAre(args, <<"CELL">>) /\ r \in Result(Ok(Held(args[1])[1]))
    BY <1>14 DEF DataResults
  <2>2. ASSUME TypesAre(args, <<"CELL">>) PROVE Ok(Held(args[1])[1]) \in Returned
    <3>1. args[1] \in Value /\ args[1].type = "CELL"
      BY <2>2, <1>1, <1>4
    <3> QED  BY <3>1, HeldTyped, OkTyped
  <2> QED  BY <2>1, <2>2, <1>6, ResultTyped
<1>15. CASE n = "setCell"
  <2>1. \/ r \in BadArgs
        \/ /\ Len(args) = 2 /\ args[1].type = "CELL"
           /\ r.ret = Ok(None) /\ r.things = [things EXCEPT ![args[1].id] = <<args[2]>>]
    BY <1>15 DEF DataResults
  <2>2. ASSUME Len(args) = 2, args[1].type = "CELL",
               r.ret = Ok(None), r.things = [things EXCEPT ![args[1].id] = <<args[2]>>]
        PROVE  Typed(r)
    <3>1. args[1] \in Value /\ args[2] \in Value
      BY <2>2, <1>1
    <3>2. args[1].id \in 1..Len(things)
      BY <2>2, <3>1, RefElim
    <3>3. /\ Growth /\ Value \subseteq Value'
          /\ scopes' \in Seq(ScopeType') /\ things' \in Seq(Seq(Value'))
      BY <2>2, <3>1, <3>2, FillThing
    <3>4. r.ret \in Returned'
      BY <2>2, <1>3, <3>3 DEF Returned
    <3> QED  BY <3>3, <3>4 DEF Typed
  <2> QED  BY <2>1, <2>2, <1>6
<1>16. CASE n = "varargs"
  <2>1. \/ r \in BadArgs
        \/ Len(args) >= 1 /\ r \in NewThing("VARARG", <<args[1]>>)
    BY <1>16 DEF DataResults
  <2>2. Len(args) >= 1 => <<args[1]>> \in Seq(Value) /\ <<args[1]>> # <<>>
    BY <1>1
  <2> QED  BY <2>1, <2>2, <1>6, NewThingTyped
<1>17. CASE n \notin {"tuple", "get", "::", "head", "tail", "unpack_cons", "createCell", "getCell", "setCell", "varargs"}
  <2>1. r \in BadArgs
    BY <1>17 DEF DataResults
  <2> QED  BY <2>1, <1>6
<1> QED  BY <1>7, <1>8, <1>9, <1>10, <1>11, <1>12, <1>13, <1>14, <1>15, <1>16, <1>17

(* so every native function does, and loses no thing.                       *)
LEMMA NativeTyped ==
  ASSUME TypeOK, program' = program, scopes' = scopes, NEW f \in Value, NEW args \in Seq(Value),
         NEW r \in NativeResults(f, args), things' = r.things
  PROVE  Typed(r)
<1>1. \/ r \in Result(Throw("not callable"))
      \/ r \in DataResults(f.name, args)
      \/ r \in BasicResults(f.name, args)
  BY DEF NativeResults
<1>2. Throw("not callable") \in Returned
  BY ThrowTyped DEF Messages
<1> QED  BY <1>1, <1>2, ResultTyped, DataTyped, BasicTyped

-----------------------------------------------------------------------------
(* The sizes and elements of the stacks, from the type invariant.           *)
LEMMA InvTypes ==
  ASSUME TypeOK
  PROVE  /\ Len(frames) \in Nat /\ Len(bases) \in Nat /\ Len(stack) \in Nat
         /\ Len(scopes) \in Nat /\ Len(things) \in Nat /\ Len(host) \in Nat
         /\ \A i \in 1..Len(bases) : bases[i] \in Nat
         /\ \A i \in 1..Len(stack) : stack[i] \in Value
         /\ \A i \in 1..Len(frames) : frames[i] \in FrameType
         /\ \A k \in 1..Len(host) : host[k] \in ActivationType
                                    /\ host[k].frames \in Nat /\ host[k].height \in Nat
<1>1. \A k \in 1..Len(host) : host[k] \in ActivationType
  BY DEF TypeOK
<1>2. \A a \in ActivationType : a.frames \in Nat /\ a.height \in Nat
  BY DEF ActivationType
<1> QED  BY <1>1, <1>2 DEF TypeOK

(* Frames begin at non-decreasing heights of the operand stack, all within  *)
(* it.                                                                      *)
LEMMA BasesMono ==
  ASSUME TypeOK, HeightsOK, NEW j \in 1..Len(frames), NEW i \in 1..j
  PROVE  /\ bases[i] \in Nat /\ bases[j] \in Nat
         /\ bases[i] <= bases[j] /\ bases[j] <= Len(stack)
<1>1. /\ Len(frames) \in Nat /\ Len(bases) = Len(frames)
      /\ \A k \in 1..Len(frames) : bases[k] \in Nat
  BY InvTypes DEF HeightsOK
<1>2. bases[i] \in Nat /\ bases[j] \in Nat
  BY <1>1
<1>3. bases[j] <= Len(stack)
  BY <1>1 DEF HeightsOK
<1>4. i < j => bases[i] <= bases[j]
  BY <1>1 DEF HeightsOK
<1> QED  BY <1>2, <1>3, <1>4

(* The two scopes execFunc starts with are never lost.                      *)
LEMMA ScopesKept ==
  ASSUME TypeOK, Growth, scopes' \in Seq(ScopeType')
  PROVE  ModuleScope' <= Len(scopes')
<1>1. ModuleScope <= Len(scopes) /\ Len(scopes) \in Nat /\ Len(scopes') \in Nat
  BY DEF TypeOK
<1>2. Len(scopes) <= Len(scopes')
  BY DEF Growth
<1> QED  BY <1>1, <1>2 DEF ModuleScope

(* An instruction that changes the top frame's index and the operands above *)
(* its base, enough of them for the next instruction, preserves the         *)
(* invariant: no other frame and no C++ function is concerned.              *)
LEMMA LocalStep ==
  ASSUME Inv, Top.fn = "executeCode", Len(frames) > Top.frames, Frame.type = "DEF",
         NEW pc \in DOMAIN Code,
         program' = program, host' = host, bases' = bases, ret' = NoRet,
         frames' = SetIndex(pc),
         Growth, scopes' \in Seq(ScopeType'), things' \in Seq(Seq(Value')),
         stack' \in Seq(Value'), Len(stack') >= bases[Len(frames)] + Depth[pc]
  PROVE  Inv'
<1> USE DEF Inv
<1>1. Len(frames) \in Nat
  BY InvTypes
<1>2. /\ Code' = Code /\ Depth' = Depth /\ Top' = Top
  BY DEF Code, Depth, Top
<1>3. Len(frames) \in 1..Len(frames) /\ Top.frames \in Nat
  BY InvTypes DEF HostOK, Top
<1>4. /\ frames' \in Seq(FrameType) /\ Len(frames') = Len(frames)
      /\ \A i \in 1..Len(frames) : i # Len(frames) => frames'[i] = frames[i]
      /\ frames'[Len(frames)].type = "DEF" /\ frames'[Len(frames)].index = pc
  BY SetIndexLemma, <1>3
<1>5. \A i \in 1..Len(frames) : frames'[i].type = frames[i].type
  BY <1>4, <1>3 DEF Frame
<1>6. \A i \in 1..Len(frames) : i # Len(frames) => frames'[i] = frames[i]
  BY <1>4
<1>7. Len(frames') = Len(frames)
  BY <1>4
<1>8. Depth[pc] \in Nat
  BY Certificate DEF TypeOK
<1>9. TypeOK'
  <2>1. FrameType \subseteq FrameType' /\ ActivationType \subseteq ActivationType' /\ Value \subseteq Value'
    BY TypesMono
  <2>2. frames' \in Seq(FrameType') /\ host' \in Seq(ActivationType')
    BY <1>4, <2>1, SeqMono DEF TypeOK
  <2>3. NoRet' = NoRet  BY DEF NoRet
  <2>4. ModuleScope' <= Len(scopes')
    BY ScopesKept
  <2>5. WellFormed(program)' /\ bases' \in Seq(Nat)
    BY DEF TypeOK
  <2>6. ret' \in ({NoRet} \cup [error : BOOLEAN, value : Value])'
    BY <2>3
  <2> QED  BY <2>2, <2>4, <2>5, <2>6 DEF TypeOK
<1>10. HostOK'
  BY DEF HostOK, PhaseOK, OnTopOf
<1>11. HeightsOK'
  <2>1. Len(stack') \in Nat
    BY <1>9 DEF TypeOK
  <2>2. ASSUME NEW i \in 1..Len(bases') PROVE bases'[i] <= Len(stack')
    <3>1. i \in 1..Len(frames)
      BY <1>1 DEF HeightsOK
    <3>2. bases[i] \in Nat /\ bases[Len(frames)] \in Nat /\ bases[i] <= bases[Len(frames)]
      BY <3>1, <1>3, BasesMono
    <3> QED  BY <3>2, <2>1, <1>8
  <2> QED  BY <2>2, <1>4 DEF HeightsOK
<1>12. TopOK'
  BY <1>2 DEF TopOK, Natives, NoRet
<1>13. NativeFrames'
  BY <1>5, <1>7, ZenonT(30) DEF NativeFrames
<1>14. AtCall'
  <2>1. ASSUME NEW i \in 1..Len(frames), frames'[i].type = "DEF",
               i < Len(frames), frames'[i + 1].type = "NATIVE"
        PROVE  Code[frames'[i].index].op = "CALL"
    <3>1. i + 1 \in 1..Len(frames) /\ i # Len(frames)
      BY <2>1, <1>1
    <3>2. frames'[i] = frames[i] /\ frames'[i + 1].type = frames[i + 1].type
      BY <2>1, <3>1, <1>5, <1>6
    <3>3. i \in 1..Len(frames) /\ frames[i].type = "DEF" /\ frames[i + 1].type = "NATIVE"
      BY <2>1, <3>2, <1>1
    <3>4. Code[frames[i].index].op = "CALL"
      BY <2>1, <3>3 DEF AtCall
    <3> QED  BY <3>2, <3>4
  <2> QED  BY <2>1, <1>1, <1>2, <1>4 DEF AtCall, NoRet
<1>15. OperandsPresent'
  <2> SUFFICES ASSUME NEW i \in 1..Len(frames'), frames'[i].type = "DEF"
               PROVE  bases'[i] + Owed(i)' <= Ceiling(i)'
    BY DEF OperandsPresent
  <2>1. i \in 1..Len(frames)
    BY <1>7
  <2>2. CASE i = Len(frames)
    <3>1. Owed(i)' = Depth[pc]
      BY <2>2, <1>2, <1>4 DEF Owed, Waiting, NoRet
    <3> QED  BY <3>1, <2>2, <1>4 DEF Ceiling
  <2>3. CASE i # Len(frames)
    <3>1. i < Len(frames) /\ i + 1 \in 1..Len(frames)
      BY <2>3, <2>1, <1>1
    <3>2. frames'[i] = frames[i] /\ frames'[i + 1].type = frames[i + 1].type
      BY <3>1, <2>3, <1>4, <1>5
    <3>3. Owed(i)' = Owed(i)
      BY <3>1, <3>2, <1>2, <1>4 DEF Owed, Waiting
    <3>4. Ceiling(i)' = Ceiling(i)
      BY <3>1, <2>3, <1>4 DEF Ceiling
    <3> QED  BY <2>1, <3>2, <3>3, <3>4 DEF OperandsPresent
  <2> QED  BY <2>2, <2>3
<1>16. ResultPresent'
  BY <1>2, <1>3, <1>4, InvTypes DEF ResultPresent
<1> QED  BY <1>9, <1>10, <1>11, <1>12, <1>13, <1>14, <1>15, <1>16

-----------------------------------------------------------------------------
(* The C++ call stack with another phase on top, as a caller leaves it.     *)
CallerOf(c) ==
  /\ c \in Seq(ActivationType) /\ Len(c) = Len(host)
  /\ \A k \in 1..Len(host) :
       /\ c[k].fn = host[k].fn /\ c[k].frames = host[k].frames
       /\ c[k].height = host[k].height
       /\ k # Len(host) => c[k] = host[k]
  /\ PhaseOK(c[Len(host)])

(* The C++ function on top: execFunc alone is at the bottom.                *)
LEMMA HostFacts ==
  ASSUME TypeOK, HostOK
  PROVE  /\ Len(host) \in Nat \ {0} /\ Top = host[Len(host)]
         /\ Top \in ActivationType /\ Top.frames \in Nat /\ Top.height \in Nat
         /\ Top.fn = "execFunc" <=> Len(host) = 1
         /\ PhaseOK(Top)
<1>1. host # <<>> /\ host \in Seq(ActivationType)
  BY DEF TypeOK, HostOK
<1>2. Len(host) \in Nat \ {0}
  BY <1>1
<1>3. Len(host) \in 1..Len(host)
  BY <1>2
<1>4. Top = host[Len(host)]
  BY DEF Top
<1>5. Top \in ActivationType /\ Top.frames \in Nat /\ Top.height \in Nat
  BY <1>3, <1>4, InvTypes
<1> QED  BY <1>2, <1>3, <1>4, <1>5 DEF HostOK

(* A caller that changes nothing is one.                                    *)
LEMMA HostItself ==
  ASSUME TypeOK, HostOK
  PROVE  CallerOf(host)
BY HostFacts DEF CallerOf, TypeOK, HostOK

(* A caller that moves on to another phase is one.                          *)
LEMMA PhaseCaller ==
  ASSUME TypeOK, HostOK, NEW p \in Phases, PhaseOK([Top EXCEPT !.phase = p])
  PROVE  CallerOf(Phase(p)) /\ Phase(p)[Len(host)].phase = p
<1> DEFINE t == [Top EXCEPT !.phase = p]
<1>1. Len(host) \in 1..Len(host) /\ Top = host[Len(host)] /\ Top \in ActivationType
  BY HostFacts
<1>2. /\ t \in ActivationType /\ t.fn = Top.fn /\ t.frames = Top.frames
      /\ t.height = Top.height /\ t.phase = p
  BY <1>1 DEF ActivationType
<1>3. Phase(p) = [host EXCEPT ![Len(host)] = t]
  BY <1>1 DEF Phase
<1>4. PhaseOK(t)
  OBVIOUS
<1> HIDE DEF t
<1>5. host \in Seq(ActivationType)
  BY DEF TypeOK
<1>6. /\ Phase(p) \in Seq(ActivationType) /\ Len(Phase(p)) = Len(host)
      /\ \A k \in 1..Len(host) : Phase(p)[k] = IF k = Len(host) THEN t ELSE host[k]
  BY <1>1, <1>2, <1>3, <1>5, ExceptLemma
<1> QED  BY <1>1, <1>2, <1>4, <1>6 DEF CallerOf

(* The order of the C++ stack survives a change of phase on top,            *)
LEMMA HostPhase ==
  ASSUME TypeOK, HostOK, CallerOf(host')
  PROVE  HostOK'
<1>1. Len(host) \in Nat \ {0} /\ Len(host') = Len(host)
  BY HostFacts DEF CallerOf
<1>2. \A k \in 1..Len(host) : /\ host'[k].fn = host[k].fn
                              /\ host'[k].frames = host[k].frames
                              /\ host'[k].height = host[k].height
                              /\ k # Len(host) => host'[k] = host[k]
  BY DEF CallerOf
<1>3. \A k \in 1..Len(host) : PhaseOK(host'[k])
  BY <1>2 DEF CallerOf, HostOK
<1>4. ASSUME NEW k \in 1..Len(host), k > 1 PROVE OnTopOf(host'[k], host'[k - 1])
  <2>1. k - 1 \in 1..Len(host) /\ k - 1 # Len(host)
    BY <1>1, <1>4
  <2>2. host'[k - 1] = host[k - 1]
    BY <2>1, <1>2
  <2>3. OnTopOf(host[k], host[k - 1])
    BY <1>4 DEF HostOK
  <2> QED  BY <2>2, <2>3, <1>2 DEF OnTopOf, Natives
<1>5. host' # <<>>
  BY <1>1
<1>6. \A k \in 1..Len(host) : host'[k].fn = "execFunc" <=> k = 1
  BY <1>2 DEF HostOK
<1>7. \A j, k \in 1..Len(host) :
        j < k => /\ host'[j].frames <= host'[k].frames
                 /\ host'[k].fn \in Natives => host'[j].frames < host'[k].frames
  BY <1>2 DEF HostOK
<1>8. Natives' = Natives
  BY DEF Natives
<1> QED  BY <1>1, <1>3, <1>4, <1>5, <1>6, <1>7, <1>8 DEF HostOK

(* a call of another C++ function,                                          *)
LEMMA HostPush ==
  ASSUME TypeOK, HostOK, NEW c, CallerOf(c), NEW a, host' = Append(c, a),
         a.frames \in Nat, a.fn # "execFunc", PhaseOK(a), OnTopOf(a, c[Len(host)]),
         Top.frames <= a.frames, a.fn \in Natives => Top.frames < a.frames
  PROVE  /\ HostOK' /\ Len(host') = Len(host) + 1 /\ Top' = a /\ host'[Len(host) + 1] = a
         /\ \A k \in 1..Len(host) : /\ host'[k] = c[k]
                                    /\ host'[k].fn = host[k].fn
                                    /\ host'[k].frames = host[k].frames
                                    /\ host'[k].height = host[k].height
<1>1. Len(host) \in Nat \ {0} /\ Len(c) = Len(host)
  BY HostFacts DEF CallerOf
<1>2. \A k \in 1..Len(host) : /\ c[k].fn = host[k].fn
                              /\ c[k].frames = host[k].frames
                              /\ c[k].height = host[k].height
                              /\ k # Len(host) => c[k] = host[k]
  BY DEF CallerOf
<1>3. /\ Len(host') = Len(host) + 1 /\ host'[Len(host) + 1] = a
      /\ \A k \in 1..Len(host) : host'[k] = c[k]
  <2>1. c \in Seq(ActivationType)
    BY DEF CallerOf
  <2> QED  BY <2>1, <1>1
<1>4. ASSUME NEW k \in 1..Len(host), k > 1 PROVE OnTopOf(host'[k], host'[k - 1])
  <2>1. k - 1 \in 1..Len(host) /\ k - 1 # Len(host)
    BY <1>1, <1>4
  <2>2. host'[k - 1] = host[k - 1] /\ host'[k] = c[k]
    BY <2>1, <1>2, <1>3
  <2>3. OnTopOf(host[k], host[k - 1])
    BY <1>4 DEF HostOK
  <2> QED  BY <2>2, <2>3, <1>2 DEF OnTopOf, Natives
<1>5. \A k \in 1..Len(host) : PhaseOK(host'[k])
  BY <1>2, <1>3 DEF CallerOf, HostOK
<1>6. host' # <<>>
  BY <1>1, <1>3
<1>7. \A j \in 1..Len(host) : host[j].frames \in Nat /\ host[j].frames <= Top.frames
  <2>1. \A j \in 1..Len(host) : host[j].frames \in Nat
    BY InvTypes
  <2>2. Len(host) \in 1..Len(host) /\ Top.frames = host[Len(host)].frames
    BY <1>1 DEF Top
  <2> QED  BY <2>1, <2>2, <1>1 DEF HostOK
<1>8. ASSUME NEW j \in 1..Len(host'), NEW k \in 1..Len(host'), j < k
      PROVE  /\ host'[j].frames <= host'[k].frames
             /\ host'[k].fn \in Natives => host'[j].frames < host'[k].frames
  <2>1. CASE k = Len(host) + 1
    <3>1. j \in 1..Len(host)
      BY <1>8, <2>1, <1>1, <1>3
    <3>2. host'[j].frames = host[j].frames /\ host'[k] = a
      BY <3>1, <2>1, <1>2, <1>3
    <3> QED  BY <3>1, <3>2, <1>7, HostFacts
  <2>2. CASE k # Len(host) + 1
    <3>1. j \in 1..Len(host) /\ k \in 1..Len(host)
      BY <1>8, <2>2, <1>1, <1>3
    <3>2. /\ host'[j].frames = host[j].frames /\ host'[k].frames = host[k].frames
          /\ host'[k].fn = host[k].fn
      BY <3>1, <1>2, <1>3
    <3> QED  BY <3>1, <3>2, <1>8 DEF HostOK
  <2> QED  BY <2>1, <2>2
<1>9. ASSUME NEW k \in 1..Len(host')
      PROVE  /\ host'[k].fn = "execFunc" <=> k = 1
             /\ PhaseOK(host'[k])
             /\ k > 1 => OnTopOf(host'[k], host'[k - 1])
  <2>1. CASE k = Len(host) + 1
    <3>1. host'[k] = a /\ k - 1 = Len(host) /\ host'[k - 1] = c[Len(host)] /\ k # 1
      BY <2>1, <1>1, <1>3
    <3> QED  BY <3>1
  <2>2. CASE k # Len(host) + 1
    <3>1. k \in 1..Len(host)
      BY <2>2, <1>1, <1>3
    <3>2. host'[k].fn = "execFunc" <=> k = 1
      BY <3>1, <1>2, <1>3 DEF HostOK
    <3> QED  BY <3>1, <3>2, <1>4, <1>5
  <2> QED  BY <2>1, <2>2
<1>10. HostOK'
  <2>1. Natives' = Natives
    BY DEF Natives
  <2> QED  BY <2>1, <1>6, <1>8, <1>9 DEF HostOK
<1> QED  BY <1>2, <1>3, <1>10 DEF Top

(* and its return.                                                          *)
LEMMA HostPop ==
  ASSUME TypeOK, HostOK, Len(host) > 1, host' = Bottom(host, Len(host) - 1)
  PROVE  /\ HostOK' /\ Len(host') = Len(host) - 1
         /\ \A k \in 1..Len(host') : host'[k] = host[k]
         /\ Top' = host[Len(host) - 1] /\ host' \in Seq(ActivationType)
         /\ OnTopOf(Top, Top') /\ PhaseOK(Top')
<1>1. host \in Seq(ActivationType) /\ Len(host) \in Nat /\ Len(host) - 1 \in 1..Len(host)
  BY HostFacts DEF TypeOK
<1>2. /\ Len(host') = Len(host) - 1 /\ host' \in Seq(ActivationType)
      /\ \A k \in 1..(Len(host) - 1) : host'[k] = host[k]
  BY SMTT(30), <1>1, BottomLemma
<1>3. \A k \in 1..(Len(host) - 1) : k \in 1..Len(host)
  BY <1>1
<1>4. \A k \in 1..(Len(host) - 1) : k > 1 => OnTopOf(host'[k], host'[k - 1])
  <2> SUFFICES ASSUME NEW k \in 1..(Len(host) - 1), k > 1
               PROVE  OnTopOf(host'[k], host'[k - 1])
    OBVIOUS
  <2>1. k - 1 \in 1..(Len(host) - 1) /\ k \in 1..Len(host)
    BY <1>1
  <2> QED  BY <2>1, <1>2 DEF HostOK
<1>5. HostOK'
  <2>1. Natives' = Natives
    BY DEF Natives
  <2>2. \A k \in 1..(Len(host) - 1) : (host'[k].fn = "execFunc" <=> k = 1) /\ PhaseOK(host'[k])
    BY <1>2, <1>3 DEF HostOK
  <2>3. \A j, k \in 1..(Len(host) - 1) :
          j < k => /\ host'[j].frames <= host'[k].frames
                   /\ host'[k].fn \in Natives => host'[j].frames < host'[k].frames
    BY <1>2, <1>3 DEF HostOK
  <2>4. host' # <<>>
    BY <1>1, <1>2
  <2> QED  BY <2>1, <2>2, <2>3, <2>4, <1>2, <1>4 DEF HostOK
<1>6. Top' = host[Len(host) - 1]
  BY <1>1, <1>2 DEF Top
<1>7. OnTopOf(Top, Top')
  BY <1>1, <1>6 DEF HostOK, Top
<1>8. PhaseOK(Top')
  BY <1>1, <1>6 DEF HostOK
<1> QED  BY <1>2, <1>5, <1>6, <1>7, <1>8

-----------------------------------------------------------------------------
(* The C++ functions below the top one were entered with no more frames     *)
(* than it.                                                                 *)
LEMMA HostFrames ==
  ASSUME TypeOK, HostOK
  PROVE  /\ \A k \in 1..Len(host) : host[k].frames \in Nat /\ host[k].frames <= Top.frames
         /\ \A k \in 1..Len(host) :
              k # Len(host) /\ Top.fn \in Natives => host[k].frames < Top.frames
<1>1. Len(host) \in 1..Len(host) /\ Top = host[Len(host)] /\ Len(host) \in Nat
  BY HostFacts
<1>2. \A k \in 1..Len(host) : host[k].frames \in Nat
  BY InvTypes
<1>3. \A k \in 1..Len(host) : k # Len(host) => k < Len(host)
  BY <1>1
<1>4. \A k \in 1..Len(host) : k # Len(host) => host[k].frames <= Top.frames
  BY <1>1, <1>3 DEF HostOK
<1>5. \A k \in 1..Len(host) : host[k].frames <= Top.frames
  BY <1>1, <1>2, <1>4
<1>6. \A k \in 1..Len(host) :
        k # Len(host) /\ Top.fn \in Natives => host[k].frames < Top.frames
  BY <1>1, <1>3 DEF HostOK
<1> QED  BY <1>2, <1>5, <1>6

(* Only execFunc is alone on the C++ stack.                                 *)
LEMMA HostDeep ==
  ASSUME TypeOK, HostOK, Top.fn # "execFunc"
  PROVE  Len(host) > 1
<1>1. Len(host) \in Nat \ {0} /\ Len(host) # 1
  BY HostFacts
<1> QED  BY <1>1

(* A native function on top finds its own frame on top.                     *)
LEMMA TopNative ==
  ASSUME Inv, Top.fn \in Natives
  PROVE  /\ Len(frames) = Top.frames /\ Len(frames) \in 1..Len(frames)
         /\ frames[Len(frames)].type = "NATIVE" /\ bases[Len(frames)] = Top.height
         /\ Len(host) > 1
<1> USE DEF Inv
<1>1. /\ Len(host) \in Nat \ {0} /\ Top = host[Len(host)] /\ Top.frames \in Nat
      /\ Top.fn = "execFunc" <=> Len(host) = 1
  BY HostFacts
<1>2. Len(host) > 1 /\ 1 \in 1..Len(host) /\ Len(host) \in 1..Len(host)
  BY <1>1, SMTT(30) DEF Natives
<1>3. host[1].frames < Top.frames /\ host[1].frames \in Nat
  BY <1>2, HostFrames
<1>4. Len(frames) = Top.frames
  BY DEF TopOK, Natives
<1>5. Len(frames) \in 1..Len(frames)
  BY <1>1, <1>3, <1>4
<1>6. frames[Len(frames)].type = "NATIVE"
  BY <1>1, <1>2, <1>4, <1>5 DEF NativeFrames
<1>7. bases[Len(frames)] = Top.height
  BY <1>1, <1>2, <1>4 DEF HeightsOK
<1> QED  BY <1>2, <1>4, <1>5, <1>6, <1>7

(* execFunc on top finds no frames at all.                                  *)
LEMMA TopExecFunc ==
  ASSUME Inv, Top.fn = "execFunc"
  PROVE  Len(frames) = 0 /\ Top.frames = 0 /\ Len(host) = 1
<1>1. PhaseOK(Top) /\ Len(host) = 1
  BY HostFacts DEF Inv
<1> QED  BY <1>1 DEF PhaseOK, TopOK, Inv

(* executeCode on top of the C++ stack, with frames of its own, has a def   *)
(* frame on top: its sanity check holds.                                    *)
LEMMA InCode ==
  ASSUME Inv, Top.fn = "executeCode", Len(frames) > Top.frames
  PROVE  /\ Len(frames) \in 1..Len(frames) /\ Frame = frames[Len(frames)]
         /\ Frame \in FrameType /\ Frame.type = "DEF" /\ Frame.index \in DOMAIN Code
         /\ Frame.scope \in 1..Len(scopes)
         /\ Top.height = bases[Top.frames + 1] /\ Top.frames + 1 \in 1..Len(frames)
         /\ Len(host) > 1
<1> USE DEF Inv
<1>1. /\ Len(host) \in Nat \ {0} /\ Top = host[Len(host)] /\ Top.frames \in Nat
      /\ Top.fn = "execFunc" <=> Len(host) = 1
  BY HostFacts
<1>2. Len(frames) \in 1..Len(frames) /\ Top.frames + 1 \in 1..Len(frames)
  BY <1>1, InvTypes
<1>3. \A k \in 1..Len(host) : host[k].frames \in Nat /\ host[k].frames <= Top.frames
  BY HostFrames
<1>4. frames[Len(frames)].type # "NATIVE"
  BY <1>1, <1>2, <1>3 DEF NativeFrames
<1>5. frames[Len(frames)] \in FrameType
  BY <1>2, InvTypes
<1>6. Top.height = bases[Top.frames + 1]
  BY <1>1 DEF HeightsOK
<1>7. /\ Frame.type = "DEF" /\ Frame.index \in DOMAIN Code
      /\ Frame.scope \in 1..Len(scopes)
  BY <1>4, <1>5, FrameElim DEF Frame
<1>8. Len(host) > 1
  BY HostDeep
<1> QED  BY <1>2, <1>5, <1>6, <1>7, <1>8 DEF Frame

(* What a step on the top frame finds of its operands.                      *)
LEMMA Operands ==
  ASSUME Inv, InLoop
  PROVE  /\ bases[Len(frames)] \in Nat /\ Len(stack) \in Nat
         /\ Depth[Frame.index] \in Nat
         /\ bases[Len(frames)] + Depth[Frame.index] <= Len(stack)
<1> USE DEF Inv
<1>1. /\ Len(frames) \in 1..Len(frames) /\ Frame = frames[Len(frames)]
      /\ Frame.type = "DEF" /\ Frame.index \in DOMAIN Code
  BY InCode DEF InLoop
<1>2. Owed(Len(frames)) = Depth[Frame.index]
  BY <1>1 DEF Owed, Waiting, InLoop
<1>3. bases[Len(frames)] + Owed(Len(frames)) <= Ceiling(Len(frames))
  BY <1>1 DEF OperandsPresent
<1>4. Depth[Frame.index] \in Nat
  BY <1>1, Certificate DEF TypeOK
<1>5. bases[Len(frames)] \in Nat
  BY <1>1, InvTypes DEF HeightsOK
<1> QED  BY <1>2, <1>3, <1>4, <1>5, InvTypes DEF Ceiling

(* A native function was entered with a frame that is still there.          *)
LEMMA NativesDeep ==
  ASSUME Inv, NEW k \in 1..Len(host), host[k].fn \in Natives
  PROVE  host[k].frames \in Nat \ {0} /\ host[k].frames <= Len(frames)
<1> USE DEF Inv
<1>1. 1 \in 1..Len(host) /\ host[1].fn = "execFunc" /\ k # 1
  BY HostFacts DEF HostOK, Natives
<1>2. 1 < k
  BY <1>1
<1>3. host[1].frames < host[k].frames
  BY <1>1, <1>2 DEF HostOK
<1>4. host[1].frames \in Nat /\ host[k].frames \in Nat
  BY <1>1, InvTypes
<1> QED  BY <1>3, <1>4 DEF HeightsOK

-----------------------------------------------------------------------------
(* What is left of both stacks of frames and functions when they are cut.   *)
LEMMA Cut ==
  ASSUME Inv, NEW m \in 0..Len(frames), NEW n \in 1..Len(host), program' = program,
         frames' = Bottom(frames, m), bases' = Bottom(bases, m), Len(host') = n,
         \A k \in 1..n : /\ host'[k].fn = host[k].fn /\ host'[k].frames = host[k].frames
                         /\ host'[k].height = host[k].height /\ host[k].frames <= m,
         \A k \in 1..Len(host) : k > n /\ host[k].fn \in Natives => host[k].frames > m,
         Len(stack') \in Nat, \A i \in 1..m : bases[i] <= Len(stack')
  PROVE  /\ Len(frames') = m /\ Len(bases') = m
         /\ \A i \in 1..m : i \in 1..Len(frames) /\ frames'[i] = frames[i] /\ bases'[i] = bases[i]
         /\ HeightsOK' /\ NativeFrames'
         /\ \A i \in 1..m : i # m /\ frames'[i].type = "DEF" =>
              /\ frames'[i + 1].type = "NATIVE" => Code'[frames'[i].index].op = "CALL"
              /\ bases'[i] + Owed(i)' <= Ceiling(i)'
<1> USE DEF Inv
<1>1. /\ Len(frames) \in Nat /\ Len(bases) = Len(frames) /\ Len(host) \in Nat
      /\ frames \in Seq(FrameType) /\ bases \in Seq(Nat) /\ Code' = Code /\ Depth' = Depth
      /\ Natives' = Natives
  BY InvTypes DEF HeightsOK, TypeOK, Code, Depth, Natives
<1>2. \A i \in 1..m : i \in 1..Len(frames) /\ (i # m => i + 1 \in 1..m /\ i < Len(frames) /\ i < m)
  BY <1>1
<1>3. /\ Len(frames') = m /\ Len(bases') = m
      /\ \A i \in 1..m : frames'[i] = frames[i] /\ bases'[i] = bases[i]
  <2>1. m \in 0..Len(frames) /\ m \in 0..Len(bases)
    BY <1>1
  <2> QED  BY <2>1, <1>1, BottomLemma
<1>4. HeightsOK'
  <2>1. ASSUME NEW k \in 1..n
        PROVE  /\ host'[k].frames <= m
               /\ host'[k].fn \in Natives => host'[k].height = bases'[host'[k].frames]
               /\ host'[k].fn = "executeCode" /\ host'[k].frames < m =>
                    host'[k].height = bases'[host'[k].frames + 1]
    <3>1. k \in 1..Len(host) /\ host[k].frames \in Nat /\ host[k].frames <= m
      BY <1>1, InvTypes
    <3>2. /\ host[k].fn \in Natives => host[k].height = bases[host[k].frames]
          /\ host[k].fn = "executeCode" /\ host[k].frames < Len(frames) =>
               host[k].height = bases[host[k].frames + 1]
      BY <3>1 DEF HeightsOK
    <3>3. host[k].fn \in Natives => host[k].frames \in 1..m
      BY <3>1, NativesDeep
    <3>4. host[k].frames < m => host[k].frames + 1 \in 1..m /\ host[k].frames < Len(frames)
      BY <3>1, <1>1
    <3> QED  BY <3>1, <3>2, <3>3, <3>4, <1>3
  <2>2. \A i \in 1..m : bases'[i] <= Len(stack')
    BY <1>3
  <2>3. \A i, j \in 1..m : i < j => bases'[i] <= bases'[j]
    BY <1>2, <1>3, <1>1 DEF HeightsOK
  <2> QED  BY <2>1, <2>2, <2>3, <1>1, <1>3 DEF HeightsOK
<1>5. NativeFrames'
  <2>1. ASSUME NEW i \in 1..m
        PROVE  frames'[i].type = "NATIVE" <=>
                 \E k \in 1..n : host'[k].fn \in Natives /\ host'[k].frames = i
    <3>1. i \in 1..Len(frames) /\ frames'[i] = frames[i]
      BY <1>2, <1>3
    <3>2. frames[i].type = "NATIVE" <=>
            \E k \in 1..Len(host) : host[k].fn \in Natives /\ host[k].frames = i
      BY <3>1 DEF NativeFrames
    <3>3. ASSUME NEW k \in 1..Len(host), host[k].fn \in Natives, host[k].frames = i
          PROVE  k \in 1..n
      BY <3>3, <1>1
    <3>4. \A k \in 1..n : k \in 1..Len(host)
      BY <1>1
    <3> QED  BY <3>1, <3>2, <3>3, <3>4
  <2> QED  BY <2>1, <1>1, <1>3 DEF NativeFrames
<1>6. ASSUME NEW i \in 1..m, i # m, frames'[i].type = "DEF"
      PROVE  /\ frames'[i + 1].type = "NATIVE" => Code'[frames'[i].index].op = "CALL"
             /\ bases'[i] + Owed(i)' <= Ceiling(i)'
  <2>1. /\ i \in 1..Len(frames) /\ i < Len(frames) /\ i < m
        /\ frames'[i] = frames[i] /\ bases'[i] = bases[i]
        /\ frames'[i + 1] = frames[i + 1] /\ bases'[i + 1] = bases[i + 1]
    BY <1>6, <1>2, <1>3
  <2>2. frames[i + 1].type = "NATIVE" => Code[frames[i].index].op = "CALL"
    BY <1>6, <2>1 DEF AtCall
  <2>3. bases[i] + Owed(i) <= Ceiling(i)
    BY <1>6, <2>1 DEF OperandsPresent
  <2>4. Owed(i)' = Owed(i)
    BY <2>1, <1>1, <1>3 DEF Owed, Waiting
  <2>5. Ceiling(i)' = Ceiling(i)
    BY <2>1, <1>6, <1>3 DEF Ceiling
  <2> QED  BY <2>1, <2>2, <2>3, <2>4, <2>5, <1>1
<1> QED  BY <1>2, <1>3, <1>4, <1>5, <1>6

(* A function returns to executeCode.                                       *)
LEMMA ReturnStep ==
  ASSUME Inv, Executing("RETURN"), TypeOK', program' = program, host' = host, ret' = ret,
         frames' = Bottom(frames, Len(frames) - 1), bases' = Bottom(bases, Len(frames) - 1),
         Len(stack') = Len(stack)
  PROVE  Inv'
<1> USE DEF Inv
<1>1. /\ Len(frames) \in 1..Len(frames) /\ Frame = frames[Len(frames)]
      /\ Frame.type = "DEF" /\ Frame.index \in DOMAIN Code
      /\ Top.fn = "executeCode" /\ ret = NoRet /\ Top.frames + 1 \in 1..Len(frames)
      /\ Top.height = bases[Top.frames + 1]
  BY InCode DEF Executing, InLoop
<1>2. /\ Len(frames) \in Nat /\ Len(frames) - 1 \in 0..Len(frames)
      /\ Len(stack) \in Nat /\ Len(bases) = Len(frames)
  BY <1>1, InvTypes DEF HeightsOK
<1>3. PICK m \in 0..Len(frames) : m = Len(frames) - 1
  BY <1>2
<1>4. /\ Len(frames) \in Nat /\ m + 1 = Len(frames)
      /\ Len(stack) \in Nat /\ Len(bases) = Len(frames)
  BY <1>2, <1>3
<1>5. /\ Code' = Code /\ Depth' = Depth /\ Top' = Top
  BY DEF Code, Depth, Top
<1>6. bases[Len(frames)] \in Nat /\ bases[Len(frames)] + 1 <= Len(stack)
  <2>1. Depth[Frame.index] - 1 >= 0
    BY <1>1, Certificate DEF Executing, Ins, Pops, TypeOK
  <2> QED  BY <2>1, Operands DEF Executing
<1>7. /\ Len(frames') = m /\ Len(bases') = m
      /\ \A i \in 1..m : i \in 1..Len(frames) /\ frames'[i] = frames[i] /\ bases'[i] = bases[i]
      /\ HeightsOK' /\ NativeFrames'
      /\ \A i \in 1..m : i # m /\ frames'[i].type = "DEF" =>
           /\ frames'[i + 1].type = "NATIVE" => Code'[frames'[i].index].op = "CALL"
           /\ bases'[i] + Owed(i)' <= Ceiling(i)'
  <2>1. Len(host) \in 1..Len(host) /\ Top.frames <= m /\ Top.frames \in Nat
    BY <1>1, <1>4, HostFacts
  <2>2. \A k \in 1..Len(host) : host[k].frames <= m
    BY <2>1, <1>4, HostFrames
  <2>3. \A i \in 1..m : bases[i] <= Len(stack)
    BY <1>4 DEF HeightsOK
  <2>4. \A k \in 1..Len(host) : ~(k > Len(host))
    BY <2>1, InvTypes
  <2> QED  BY <1>4, <1>3, <2>1, <2>2, <2>3, <2>4, Cut
<1>8. HostOK'
  BY DEF HostOK, PhaseOK, OnTopOf, Natives
<1>9. TopOK'
  BY <1>1, <1>5 DEF TopOK, Natives, NoRet
<1>10. AtCall'
  <2>1. ret' = NoRet'
    BY <1>1 DEF NoRet
  <2>2. \A i \in 1..m : i < m => i # m
    BY <1>4
  <2> QED  BY <2>1, <2>2, <1>7 DEF AtCall
<1>11. OperandsPresent'
  <2> SUFFICES ASSUME m \in 1..m, frames'[m].type = "DEF"
               PROVE  bases'[m] + Owed(m)' <= Ceiling(m)'
    BY <1>7 DEF OperandsPresent
  <2>1. /\ m \in 1..Len(frames) /\ frames'[m] = frames[m] /\ bases'[m] = bases[m]
        /\ frames[m].type = "DEF" /\ bases[m] + Owed(m) <= Ceiling(m) /\ m < Len(frames)
    BY <1>4, <1>7 DEF OperandsPresent
  <2>2. Owed(m) = Depth[frames[m].index] - 1
    BY <2>1, <1>1, <1>4 DEF Owed, Waiting
  <2>3. Ceiling(m) = bases[Len(frames)]
    BY <2>1, <1>4 DEF Ceiling
  <2>4. Owed(m)' = Depth[frames[m].index]
    BY <2>1, <1>1, <1>4, <1>5, <1>7 DEF Owed, Waiting, NoRet
  <2>5. Ceiling(m)' = Len(stack)
    BY <1>7 DEF Ceiling
  <2>6. Depth[frames[m].index] \in Nat /\ bases[m] \in Nat
    <3>1. frames[m].index \in DOMAIN Code
      BY <2>1, InvTypes, FrameElim
    <3> QED  BY <3>1, <2>1, <1>4, InvTypes, Certificate DEF TypeOK
  <2> QED  BY SMTT(30), <2>1, <2>2, <2>3, <2>4, <2>5, <2>6, <1>4, <1>6
<1>12. ResultPresent'
  <2>1. ASSUME m = Top.frames PROVE Len(stack) > Top.height
    <3>1. Top.height = bases[Len(frames)]
      BY <2>1, <1>1, <1>4
    <3> QED  BY <3>1, <1>4, <1>6
  <2> QED  BY <2>1, <1>5, <1>7 DEF ResultPresent
<1> QED  BY <1>7, <1>8, <1>9, <1>10, <1>11, <1>12

(* executeCode returns, with a value or an error.                           *)
LEMMA LeaveStep ==
  ASSUME Inv, Top.fn = "executeCode", TypeOK', program' = program,
         host' = Bottom(host, Len(host) - 1), ret' # NoRet,
         frames' = Bottom(frames, Top.frames), bases' = Bottom(bases, Top.frames),
         Len(stack') >= Top.height, ret'.error => Len(stack') = Top.height
  PROVE  Inv'
<1> USE DEF Inv
<1> DEFINE m == Top.frames
<1>1. Len(host) > 1 /\ Len(host) \in Nat /\ Top = host[Len(host)] /\ m \in Nat /\ Top.height \in Nat
      /\ Top.fn # "execFunc"
  BY HostDeep, HostFacts
<1>2. /\ HostOK' /\ Len(host') = Len(host) - 1
      /\ \A k \in 1..Len(host') : host'[k] = host[k]
      /\ Top' = host[Len(host) - 1] /\ OnTopOf(Top, Top') /\ PhaseOK(Top')
  BY <1>1, HostPop
<1>3. m \in 0..Len(frames) /\ Len(frames) \in Nat /\ Len(stack') \in Nat /\ Len(bases) = Len(frames)
  <2>1. Len(host) \in 1..Len(host)
    BY <1>1
  <2>2. Top.frames <= Len(frames)
    BY <1>1, <2>1 DEF HeightsOK
  <2> QED  BY <2>2, <1>1, InvTypes DEF TypeOK, HeightsOK
<1>4. /\ Top'.frames = m /\ Top'.fn # "executeCode" /\ Top'.phase \notin {"start", "done"}
      /\ Top'.fn \in Natives => Top'.height = Top.height
      /\ Top'.fn \in Natives \cup {"execFunc"}
  <2>1. /\ Top'.frames = m /\ Top'.fn # "executeCode" /\ Top'.phase \notin {"start", "done"}
        /\ Top'.fn \in Natives => Top'.height = Top.height
    BY <1>2 DEF OnTopOf
  <2>2. Top'.fn \in Functionaries
    <3>1. Top' \in ActivationType
      <4>1. Len(host) - 1 \in 1..Len(host)
        BY <1>1
      <4> QED  BY <4>1, <1>2, InvTypes
    <3> QED  BY <3>1 DEF ActivationType
  <2> QED  BY <2>1, <2>2 DEF Functionaries, Natives
<1>5. \A i \in 1..m : bases[i] <= Len(stack')
  <2>1. CASE Top'.fn = "execFunc"
    <3>1. m = 0
      BY <2>1, <1>2, <1>4 DEF PhaseOK
    <3> QED  BY <3>1
  <2>2. CASE Top'.fn \in Natives
    <3>1. Len(host) - 1 \in 1..Len(host)
      BY <1>1
    <3>2. m \in 1..Len(frames) /\ Top.height = bases[m]
      <4>1. host[Len(host) - 1].frames \in Nat \ {0}
        BY <2>2, <3>1, <1>2, NativesDeep
      <4>2. host[Len(host) - 1].height = bases[m]
        BY <2>2, <3>1, <1>2, <1>4 DEF HeightsOK
      <4> QED  BY <4>1, <4>2, <2>2, <1>2, <1>3, <1>4
    <3>3. \A i \in 1..m : bases[i] \in Nat /\ bases[i] <= bases[m]
      BY <3>2, BasesMono
    <3> QED  BY <3>2, <3>3, <1>1, <1>3
  <2> QED  BY <2>1, <2>2, <1>4
<1>6. \A k \in 1..(Len(host) - 1) : k \in 1..Len(host) /\ host[k].frames <= m
  BY <1>1, HostFrames
<1>7. \A k \in 1..Len(host) : k > Len(host) - 1 => host[k].fn \notin Natives
  <2>1. \A k \in 1..Len(host) : k > Len(host) - 1 => k = Len(host)
    BY <1>1
  <2> QED  BY <2>1, <1>1 DEF Natives
<1> HIDE DEF m
<1>8. /\ Len(frames') = m /\ Len(bases') = m
      /\ \A i \in 1..m : i \in 1..Len(frames) /\ frames'[i] = frames[i] /\ bases'[i] = bases[i]
      /\ HeightsOK' /\ NativeFrames'
      /\ \A i \in 1..m : i # m /\ frames'[i].type = "DEF" =>
           /\ frames'[i + 1].type = "NATIVE" => Code'[frames'[i].index].op = "CALL"
           /\ bases'[i] + Owed(i)' <= Ceiling(i)'
  <2>1. Len(host) - 1 \in 1..Len(host)
    BY <1>1
  <2>2. \A k \in 1..(Len(host) - 1) :
          /\ host'[k].fn = host[k].fn /\ host'[k].frames = host[k].frames
          /\ host'[k].height = host[k].height /\ host[k].frames <= m
    BY <1>2, <1>6
  <2> QED  BY <1>2, <1>3, <1>5, <1>7, <2>1, <2>2, Cut DEF m
<1>9. m \in 1..m => frames'[m].type # "DEF"
  <2> SUFFICES ASSUME m \in 1..m PROVE frames'[m].type # "DEF"
    OBVIOUS
  <2>1. Top'.fn \in Natives
    BY <1>2, <1>4 DEF PhaseOK
  <2>2. Len(host) - 1 \in 1..Len(host)
    BY <1>1
  <2>3. frames[m].type = "NATIVE"
    BY <2>1, <2>2, <1>2, <1>4, <1>8 DEF NativeFrames
  <2> QED  BY <2>3, <1>8
<1>10. TopOK'
  <2>1. Natives' = Natives
    BY DEF Natives
  <2>2. ret'.error /\ Top'.fn \in Natives => Len(stack') = Top'.height
    BY <1>4
  <2>3. Top'.fn # "executeCode" /\ Len(frames') = Top'.frames /\ Top'.phase # "start"
    BY <1>4, <1>8
  <2> QED  BY <2>1, <2>2, <2>3 DEF TopOK
<1>11. AtCall'
  <2>1. \A i \in 1..m : i < m => i # m
    BY <1>3
  <2> QED  BY <2>1, <1>8, <1>9 DEF AtCall
<1>12. OperandsPresent'
  BY <1>8, <1>9 DEF OperandsPresent
<1>13. ResultPresent'
  BY <1>4 DEF ResultPresent
<1> QED  BY <1>2, <1>8, <1>10, <1>11, <1>12, <1>13

(* A native function returns.                                               *)
LEMMA EndStep ==
  ASSUME Inv, Top.fn \in Natives, TypeOK', program' = program,
         host' = Bottom(host, Len(host) - 1), ret # NoRet, ret' = ret,
         frames' = Bottom(frames, Len(frames) - 1), bases' = Bottom(bases, Len(frames) - 1),
         Len(stack') = Len(stack)
  PROVE  Inv'
<1> USE DEF Inv
<1>1. /\ Len(frames) = Top.frames /\ Len(frames) \in 1..Len(frames)
      /\ frames[Len(frames)].type = "NATIVE" /\ bases[Len(frames)] = Top.height
      /\ Len(host) > 1
  BY TopNative
<1>2. /\ Len(frames) \in Nat /\ Len(frames) - 1 \in 0..Len(frames)
      /\ Len(stack) \in Nat /\ Len(bases) = Len(frames)
  BY <1>1, InvTypes DEF HeightsOK
<1>3. PICK m \in 0..Len(frames) : m = Len(frames) - 1
  BY <1>2
<1>4. m \in Nat
  BY <1>2
<1>5. /\ Len(host) \in Nat /\ Len(host) - 1 \in 1..Len(host)
      /\ Top = host[Len(host)] /\ Top.frames = m + 1 /\ Top.height \in Nat
  BY <1>1, <1>2, <1>3, HostFacts
<1>6. /\ HostOK' /\ Len(host') = Len(host) - 1
      /\ \A k \in 1..Len(host') : host'[k] = host[k]
      /\ Top' = host[Len(host) - 1] /\ OnTopOf(Top, Top') /\ PhaseOK(Top')
  BY <1>1, HostPop
<1>7. /\ Code' = Code /\ Depth' = Depth /\ Natives' = Natives
  BY DEF Code, Depth, Natives
<1>8. \A k \in 1..(Len(host) - 1) : k \in 1..Len(host) /\ host[k].frames \in Nat /\ host[k].frames <= m
  <2>1. \A k \in 1..(Len(host) - 1) : k \in 1..Len(host) /\ k # Len(host)
    BY <1>5
  <2>2. \A k \in 1..(Len(host) - 1) : host[k].frames \in Nat /\ host[k].frames < Top.frames
    BY <2>1, HostFrames
  <2>3. ASSUME NEW k \in 1..(Len(host) - 1) PROVE host[k].frames <= m
    <3>1. host[k].frames \in Nat /\ host[k].frames < m + 1
      BY <2>2, <1>5
    <3> QED  BY <3>1, <1>4
  <2> QED  BY <2>1, <2>2, <2>3
<1>9. /\ Len(frames') = m /\ Len(bases') = m
      /\ \A i \in 1..m : i \in 1..Len(frames) /\ frames'[i] = frames[i] /\ bases'[i] = bases[i]
      /\ HeightsOK' /\ NativeFrames'
      /\ \A i \in 1..m : i # m /\ frames'[i].type = "DEF" =>
           /\ frames'[i + 1].type = "NATIVE" => Code'[frames'[i].index].op = "CALL"
           /\ bases'[i] + Owed(i)' <= Ceiling(i)'
  <2>1. \A i \in 1..m : bases[i] <= Len(stack)
    BY <1>2, <1>3 DEF HeightsOK
  <2>2. \A k \in 1..Len(host) : k > Len(host) - 1 => host[k].frames > m
    <3>1. \A k \in 1..Len(host) : k > Len(host) - 1 => k = Len(host)
      BY <1>5
    <3> QED  BY <3>1, <1>5
  <2>3. \A k \in 1..(Len(host) - 1) :
          /\ host'[k].fn = host[k].fn /\ host'[k].frames = host[k].frames
          /\ host'[k].height = host[k].height /\ host[k].frames <= m
    BY <1>6, <1>8
  <2>4. Len(stack') \in Nat /\ \A i \in 1..m : bases[i] <= Len(stack')
    BY <1>2, <2>1
  <2>5. frames' = Bottom(frames, m) /\ bases' = Bottom(bases, m)
    BY <1>3
  <2> QED  BY <1>5, <1>6, <2>2, <2>3, <2>4, <2>5, Cut
<1>10. TopOK'
  <2>1. CASE Top'.fn = "executeCode"
    <3>1. Top'.frames \in Nat /\ Top.frames >= Top'.frames + 2
      BY <2>1, <1>5, <1>6, <1>8 DEF OnTopOf
    <3>2. Top'.frames < Len(frames')
      <4>1. m + 1 >= Top'.frames + 2
        BY <3>1, <1>5
      <4>2. Top'.frames < m
        BY <3>1, <4>1, <1>4
      <4>3. Len(frames') = m
        BY <1>9
      <4> QED  BY <4>2, <4>3
    <3> QED  BY <2>1, <3>2, <1>7 DEF TopOK, Natives
  <2>2. CASE Top'.fn # "executeCode"
    <3>1. Top'.fn \in Natives
      <4>1. Top' \in ActivationType
        BY <1>5, <1>6, InvTypes
      <4>2. Top'.fn # "execFunc"
        BY <1>6 DEF OnTopOf
      <4> QED  BY <4>1, <4>2, <2>2 DEF ActivationType, Functionaries, Natives
    <3>2. Top'.frames = m /\ Top'.height = Top.height /\ Top'.phase # "start"
      BY <3>1, <1>5, <1>6, <1>8 DEF OnTopOf
    <3>3. ret'.error => Len(stack') = Top'.height
      BY <3>2 DEF TopOK
    <3>4. Len(frames') = Top'.frames
      BY <3>2, <1>9
    <3>5. Top'.phase # "start"
      BY <3>2
    <3> QED  BY <2>2, <3>3, <3>4, <3>5, <1>7 DEF TopOK
  <2> QED  BY <2>1, <2>2
<1>11. m \in 1..m /\ frames'[m].type = "DEF" =>
        /\ Code[frames'[m].index].op = "CALL"
        /\ bases'[m] + Owed(m)' <= Ceiling(m)'
  <2> SUFFICES ASSUME m \in 1..m, frames'[m].type = "DEF"
               PROVE  /\ Code[frames'[m].index].op = "CALL"
                      /\ bases'[m] + Owed(m)' <= Ceiling(m)'
    OBVIOUS
  <2>1. /\ m \in 1..Len(frames) /\ frames'[m] = frames[m] /\ bases'[m] = bases[m]
        /\ frames[m].type = "DEF" /\ bases[m] + Owed(m) <= Ceiling(m)
        /\ m < Len(frames) /\ m + 1 = Len(frames)
    BY <1>2, <1>3, <1>9 DEF OperandsPresent
  <2>2. frames[m + 1].type = "NATIVE"
    BY <2>1, <1>1
  <2>3. Code[frames[m].index].op = "CALL"
    BY <2>1, <2>2 DEF AtCall
  <2>4. Owed(m) = Depth[frames[m].index] - Pops(Code[frames[m].index])
    BY <2>1, <2>2 DEF Owed, Waiting
  <2>5. Ceiling(m) = bases[Len(frames)]
    BY <2>1 DEF Ceiling
  <2>6. Owed(m)' = Depth[frames[m].index] - Pops(Code[frames[m].index])
    BY <2>1, <1>7, <1>9 DEF Owed, Waiting, NoRet
  <2>7. Ceiling(m)' = Len(stack)
    BY <1>9 DEF Ceiling
  <2>8. bases[Len(frames)] \in Nat /\ bases[Len(frames)] <= Len(stack) /\ bases[m] \in Nat
    BY <2>1, <1>1, <1>2, InvTypes DEF HeightsOK
  <2>9. Depth[frames[m].index] \in Nat /\ Depth[frames[m].index] - Pops(Code[frames[m].index]) \in Int
    <3>1. frames[m].index \in DOMAIN Code
      BY <2>1, InvTypes, FrameElim
    <3>2. Depth[frames[m].index] \in Nat /\ ArgumentOk(Code, Code[frames[m].index])
      BY <3>1, Certificate DEF TypeOK
    <3>3. Pops(Code[frames[m].index]) \in Int
      BY <2>3, <3>2 DEF ArgumentOk, Pops, Arity
    <3> QED  BY <3>2, <3>3
  <2> QED  BY SMTT(30), <2>1, <2>3, <2>4, <2>5, <2>6, <2>7, <2>8, <2>9, <1>2
<1>12. AtCall'
  <2>1. \A i \in 1..m : i < m => i # m
    BY <1>3
  <2> QED  BY <2>1, <1>7, <1>9, <1>11 DEF AtCall
<1>13. OperandsPresent'
  <2> SUFFICES ASSUME NEW i \in 1..m, frames'[i].type = "DEF"
               PROVE  bases'[i] + Owed(i)' <= Ceiling(i)'
    BY <1>9 DEF OperandsPresent
  <2>1. CASE i = m
    BY <2>1, <1>11
  <2>2. CASE i # m
    BY <2>2, <1>9
  <2> QED  BY <2>1, <2>2
<1>14. ResultPresent'
  BY DEF ResultPresent, NoRet
<1> QED  BY <1>6, <1>9, <1>10, <1>12, <1>13, <1>14

(* callFunction returns at once to the function that called it.             *)
LEMMA ResultStep ==
  ASSUME Inv, Top.fn # "executeCode", CallerOf(host'), TypeOK', program' = program,
         frames' = frames, bases' = bases, Len(stack') = Len(stack), ret' # NoRet,
         host'[Len(host)].phase # "start",
         Top.fn \in Natives /\ ret'.error => Len(stack) = Top.height
  PROVE  Inv'
<1> USE DEF Inv
<1>1. HostOK'
  BY HostPhase
<1>2. /\ Code' = Code /\ Depth' = Depth /\ Natives' = Natives
  BY DEF Code, Depth, Natives
<1>3. /\ Len(host) \in 1..Len(host) /\ Len(host') = Len(host) /\ Top = host[Len(host)]
      /\ \A k \in 1..Len(host) : /\ host'[k].fn = host[k].fn
                                 /\ host'[k].frames = host[k].frames
                                 /\ host'[k].height = host[k].height
      /\ Top' = host'[Len(host)] /\ Top'.phase # "start"
  BY HostFacts DEF CallerOf, Top
<1>4. HeightsOK'
  BY <1>2, <1>3 DEF HeightsOK
<1>5. TopOK'
  BY <1>2, <1>3 DEF TopOK
<1>6. NativeFrames'
  BY SMTT(30), <1>2, <1>3 DEF NativeFrames
<1>7. Len(frames) \in 1..Len(frames) => frames[Len(frames)].type = "NATIVE"
  <2>1. Top.fn \in Natives \cup {"execFunc"}
    BY HostFacts DEF ActivationType, Functionaries, Natives
  <2> QED  BY <2>1, TopNative, TopExecFunc
<1>8. Len(frames) \in Nat /\ \A i \in 1..Len(frames) :
        /\ i # Len(frames) => i < Len(frames)
        /\ i < Len(frames) => i # Len(frames)
  BY InvTypes
<1>9. AtCall'
  BY <1>2, <1>7, <1>8 DEF AtCall
<1>10. OperandsPresent'
  <2> SUFFICES ASSUME NEW i \in 1..Len(frames), frames[i].type = "DEF"
               PROVE  bases[i] + Owed(i)' <= Ceiling(i)'
    BY DEF OperandsPresent
  <2>1. i # Len(frames) /\ i < Len(frames)
    BY <1>7, <1>8
  <2>2. Owed(i)' = Owed(i) /\ Ceiling(i)' = Ceiling(i)
    BY <2>1, <1>2 DEF Owed, Ceiling, Waiting
  <2> QED  BY <2>2 DEF OperandsPresent
<1>11. ResultPresent'
  BY <1>3 DEF ResultPresent
<1> QED  BY <1>1, <1>4, <1>5, <1>6, <1>9, <1>10, <1>11

-----------------------------------------------------------------------------
(* What becomes of both stacks when a frame is pushed.                      *)
LEMMA Grow ==
  ASSUME Inv, program' = program,
         Len(frames') = Len(frames) + 1, Len(stack') \in Nat,
         \A i \in 1..Len(frames) : /\ frames'[i].type = frames[i].type
                                   /\ i # Len(frames) => frames'[i] = frames[i]
                                   /\ bases[i] <= Len(stack'),
         bases' = Append(bases, Len(stack')),
         Len(host') \in Nat, Len(host') >= Len(host),
         \A k \in 1..Len(host) : /\ host'[k].fn = host[k].fn /\ host'[k].frames = host[k].frames
                                 /\ host'[k].height = host[k].height
                                 /\ host[k].fn = "executeCode" => host[k].frames < Len(frames),
         \A k \in 1..Len(host') : k > Len(host) =>
           /\ host'[k].fn \in Natives \cup {"executeCode"}
           /\ host'[k].height = Len(stack')
           /\ host'[k].fn \in Natives => host'[k].frames = Len(frames) + 1
           /\ host'[k].fn = "executeCode" => host'[k].frames = Len(frames),
         frames'[Len(frames) + 1].type = "NATIVE" <=>
           \E k \in 1..Len(host') : k > Len(host) /\ host'[k].fn \in Natives
  PROVE  /\ Len(frames) \in Nat /\ Len(bases') = Len(frames) + 1
         /\ bases'[Len(frames) + 1] = Len(stack')
         /\ \A i \in 1..Len(frames) : bases'[i] = bases[i]
         /\ HeightsOK' /\ NativeFrames'
         /\ \A i \in 1..Len(frames) : i # Len(frames) /\ frames'[i].type = "DEF" =>
              /\ frames'[i + 1].type = "NATIVE" => Code'[frames'[i].index].op = "CALL"
              /\ bases'[i] + Owed(i)' <= Ceiling(i)'
<1> USE DEF Inv
<1>1. /\ Len(frames) \in Nat /\ Len(bases) = Len(frames) /\ Len(host) \in Nat
      /\ bases \in Seq(Nat) /\ Code' = Code /\ Depth' = Depth /\ Natives' = Natives
  BY InvTypes DEF HeightsOK, TypeOK, Code, Depth, Natives
<1>2. \A i \in 1..Len(frames) : i # Len(frames) => i + 1 \in 1..Len(frames) /\ i < Len(frames)
  BY SMTT(30), <1>1
<1>3. /\ Len(bases') = Len(frames) + 1 /\ bases'[Len(frames) + 1] = Len(stack')
      /\ \A i \in 1..Len(frames) : bases'[i] = bases[i]
  BY <1>1, AppendLemma
<1>4. HeightsOK'
  <2>1. ASSUME NEW k \in 1..Len(host), k \in 1..Len(host')
        PROVE  /\ host'[k].frames <= Len(frames) + 1
               /\ host'[k].fn \in Natives => host'[k].height = bases'[host'[k].frames]
               /\ host'[k].fn = "executeCode" =>
                    host'[k].height = bases'[host'[k].frames + 1]
    <3>1. host[k].frames \in Nat /\ host[k].frames <= Len(frames)
      BY InvTypes DEF HeightsOK
    <3>2. /\ host[k].fn \in Natives => host[k].height = bases[host[k].frames]
          /\ host[k].fn = "executeCode" => host[k].height = bases[host[k].frames + 1]
      BY DEF HeightsOK
    <3>3. host[k].fn \in Natives => host[k].frames \in 1..Len(frames)
      BY <3>1, NativesDeep
    <3>4. host[k].fn = "executeCode" => host[k].frames + 1 \in 1..Len(frames)
      BY SMTT(30), <3>1, <1>1
    <3>5. host[k].frames <= Len(frames) + 1
      BY <3>1, <1>1
    <3> QED  BY <3>2, <3>3, <3>4, <3>5, <1>3
  <2>2. ASSUME NEW k \in 1..Len(host'), k > Len(host)
        PROVE  /\ host'[k].frames <= Len(frames) + 1
               /\ host'[k].fn \in Natives => host'[k].height = bases'[host'[k].frames]
               /\ host'[k].fn = "executeCode" =>
                    host'[k].height = bases'[host'[k].frames + 1]
    <3>1. \/ host'[k].fn \in Natives /\ host'[k].frames = Len(frames) + 1
          \/ host'[k].fn = "executeCode" /\ host'[k].frames = Len(frames)
      BY <2>2
    <3>2. host'[k].height = Len(stack')
      BY <2>2
    <3>3. Len(frames) <= Len(frames) + 1 /\ Len(frames) + 1 <= Len(frames) + 1
      BY <1>1
    <3>4. "executeCode" \notin Natives
      BY DEF Natives
    <3> QED  BY <3>1, <3>2, <3>3, <3>4, <1>3
  <2>3. \A k \in 1..Len(host') : k \in 1..Len(host) \/ k > Len(host)
    BY <1>1
  <2>4. \A i \in 1..(Len(frames) + 1) : i \in 1..Len(frames) \/ i = Len(frames) + 1
    BY <1>1
  <2>5. \A i \in 1..(Len(frames) + 1) : bases'[i] \in Nat /\ bases'[i] <= Len(stack')
    <3>1. \A i \in 1..Len(frames) : bases[i] \in Nat
      BY <1>1
    <3> QED  BY <2>4, <3>1, <1>3
  <2>6. \A i, j \in 1..(Len(frames) + 1) : i < j => bases'[i] <= bases'[j]
    <3> SUFFICES ASSUME NEW i \in 1..(Len(frames) + 1), NEW j \in 1..(Len(frames) + 1), i < j
                 PROVE  bases'[i] <= bases'[j]
      OBVIOUS
    <3>1. CASE j = Len(frames) + 1
      BY <3>1, <2>5, <1>3
    <3>2. CASE j # Len(frames) + 1
      <4>1. i \in 1..Len(frames) /\ j \in 1..Len(frames)
        BY <3>2, <1>1
      <4> QED  BY <4>1, <1>1, <1>3 DEF HeightsOK
    <3> QED  BY <3>1, <3>2
  <2> QED  BY <2>1, <2>2, <2>3, <2>5, <2>6, <1>1, <1>3 DEF HeightsOK
<1>5. NativeFrames'
  <2>1. ASSUME NEW i \in 1..Len(frames)
        PROVE  frames'[i].type = "NATIVE" <=>
                 \E k \in 1..Len(host') : host'[k].fn \in Natives /\ host'[k].frames = i
    <3>1. frames[i].type = "NATIVE" <=>
            \E k \in 1..Len(host) : host[k].fn \in Natives /\ host[k].frames = i
      BY DEF NativeFrames
    <3>2. \A k \in 1..Len(host) : k \in 1..Len(host')
      BY <1>1
    <3>3. ASSUME NEW k \in 1..Len(host'), host'[k].fn \in Natives, host'[k].frames = i
          PROVE  k \in 1..Len(host)
      <4>1. i # Len(frames) + 1
        BY <1>1
      <4>2. ~(k > Len(host))
        BY <3>3, <4>1
      <4> QED  BY <4>2, <1>1
    <3> QED  BY <3>1, <3>2, <3>3
  <2>2. frames'[Len(frames) + 1].type = "NATIVE" <=>
          \E k \in 1..Len(host') : host'[k].fn \in Natives /\ host'[k].frames = Len(frames) + 1
    <3>1. ASSUME NEW k \in 1..Len(host'), host'[k].fn \in Natives,
                 host'[k].frames = Len(frames) + 1
          PROVE  k > Len(host)
      <4>1. ASSUME k \in 1..Len(host) PROVE FALSE
        <5>1. host[k].frames \in Nat /\ host[k].frames <= Len(frames)
          BY <4>1, InvTypes DEF HeightsOK
        <5>2. host[k].frames = Len(frames) + 1
          BY <3>1, <4>1
        <5> QED  BY <5>1, <5>2, <1>1
      <4> QED  BY <4>1, <1>1
    <3>2. ASSUME NEW k \in 1..Len(host'), k > Len(host), host'[k].fn \in Natives
          PROVE  host'[k].frames = Len(frames) + 1
      BY <3>2
    <3> QED  BY <3>1, <3>2
  <2>3. \A i \in 1..(Len(frames) + 1) : i \in 1..Len(frames) \/ i = Len(frames) + 1
    BY <1>1
  <2> QED  BY <2>1, <2>2, <2>3, <1>1 DEF NativeFrames
<1>6. ASSUME NEW i \in 1..Len(frames), i # Len(frames), frames'[i].type = "DEF"
      PROVE  /\ frames'[i + 1].type = "NATIVE" => Code'[frames'[i].index].op = "CALL"
             /\ bases'[i] + Owed(i)' <= Ceiling(i)'
  <2>1. /\ i < Len(frames) /\ i < Len(frames) + 1 /\ i # Len(frames) + 1 /\ i + 1 \in 1..Len(frames)
        /\ frames'[i] = frames[i] /\ bases'[i] = bases[i]
        /\ frames'[i + 1].type = frames[i + 1].type /\ bases'[i + 1] = bases[i + 1]
    BY SMTT(30), <1>1, <1>2, <1>3, <1>6
  <2>2. frames[i + 1].type = "NATIVE" => Code[frames[i].index].op = "CALL"
    BY <1>6, <2>1 DEF AtCall
  <2>3. bases[i] + Owed(i) <= Ceiling(i)
    BY <1>6, <2>1 DEF OperandsPresent
  <2>4. Owed(i)' = Owed(i)
    BY <2>1, <1>1 DEF Owed, Waiting
  <2>5. Ceiling(i)' = Ceiling(i)
    BY <2>1, <1>6 DEF Ceiling
  <2> QED  BY <2>1, <2>2, <2>3, <2>4, <2>5, <1>1
<1> QED  BY <1>1, <1>3, <1>4, <1>5, <1>6

(* The operands left below a call cover what its caller still counts on.    *)
LEMMA CallArithmetic ==
  ASSUME NEW b \in Nat, NEW d \in Nat, NEW n \in Nat, NEW l \in Nat, NEW e \in Nat,
         b + d <= l, d - (n + 1) >= 0, e <= d - (n + 1) + 1
  PROVE  l - (n + 1) \in Nat /\ b <= l - (n + 1) /\ b + e - 1 <= l - (n + 1)
OBVIOUS

(* OP_CALL of a func thing: the frame goes on top of one that has moved on. *)
LEMMA CallStep ==
  ASSUME Inv, Executing("CALL"), TypeOK', program' = program, host' = host, ret' = ret,
         NEW e \in DOMAIN Code, Depth[e] = 0, NEW s,
         frames' = Append(SetIndex(Frame.index + 1), DefFrame(e, s)),
         Len(stack') = Len(stack) - (CallArity + 1),
         bases' = Append(bases, Len(stack'))
  PROVE  Inv'
<1> USE DEF Inv
<1>1. /\ Len(frames) \in 1..Len(frames) /\ Frame = frames[Len(frames)]
      /\ Frame.type = "DEF" /\ Frame.index \in DOMAIN Code
      /\ Top.fn = "executeCode" /\ ret = NoRet /\ Top.frames + 1 \in 1..Len(frames)
      /\ Code[Frame.index].op = "CALL"
  BY InCode DEF Executing, InLoop, Ins
<1>2. /\ Len(frames) \in Nat /\ Len(stack) \in Nat /\ Len(bases) = Len(frames)
      /\ Len(host) \in Nat /\ Top.frames \in Nat
  BY HostFacts, InvTypes DEF HeightsOK
<1>3. /\ Code' = Code /\ Depth' = Depth /\ Top' = Top /\ Natives' = Natives
  BY DEF Code, Depth, Top, Natives
<1>4. /\ Depth[Frame.index] \in Nat /\ CallArity \in Nat
      /\ Depth[Frame.index] - (CallArity + 1) >= 0
      /\ Frame.index + 1 \in DOMAIN Code
      /\ Depth[Frame.index + 1] <= Depth[Frame.index] - (CallArity + 1) + 1
      /\ Depth[Frame.index + 1] \in Nat
  <2>1. /\ Depth[Frame.index] \in Nat
        /\ ArgumentOk(Code, Code[Frame.index])
        /\ Depth[Frame.index] - Pops(Code[Frame.index]) >= 0
        /\ FallsThrough(Code[Frame.index]) =>
             /\ Frame.index + 1 \in DOMAIN Code
             /\ Depth[Frame.index + 1] <= Depth[Frame.index] - Pops(Code[Frame.index])
                                          + Pushes(Code[Frame.index])
    BY <1>1, Certificate DEF TypeOK
  <2>2. FallsThrough(Code[Frame.index]) /\ Pushes(Code[Frame.index]) = 1
    BY <1>1 DEF FallsThrough, Pushes
  <2>3. Pops(Code[Frame.index]) = CallArity + 1
    BY <1>1 DEF Pops, CallArity, Ins
  <2>4. CallArity \in Nat
    BY <2>1, <1>1 DEF ArgumentOk, CallArity, Ins, Arity
  <2>5. Frame.index + 1 \in DOMAIN Code
    BY <2>1, <2>2
  <2>6. Depth[Frame.index + 1] \in Nat
    BY <2>5, Certificate DEF TypeOK
  <2> QED  BY <2>1, <2>2, <2>3, <2>4, <2>5, <2>6
<1>5. /\ bases[Len(frames)] \in Nat
      /\ bases[Len(frames)] + Depth[Frame.index] <= Len(stack)
  BY Operands DEF Executing
<1>6. /\ Len(stack') \in Nat /\ bases[Len(frames)] <= Len(stack')
      /\ bases[Len(frames)] + Depth[Frame.index + 1] - 1 <= Len(stack')
  <2>1. /\ Len(stack) - (CallArity + 1) \in Nat
        /\ bases[Len(frames)] <= Len(stack) - (CallArity + 1)
        /\ bases[Len(frames)] + Depth[Frame.index + 1] - 1 <= Len(stack) - (CallArity + 1)
    BY <1>2, <1>4, <1>5, CallArithmetic
  <2> QED  BY <2>1
<1>7. /\ Len(frames') = Len(frames) + 1
      /\ \A i \in 1..Len(frames) : /\ frames'[i].type = frames[i].type
                                   /\ i # Len(frames) => frames'[i] = frames[i]
      /\ frames'[Len(frames)].type = "DEF" /\ frames'[Len(frames)].index = Frame.index + 1
      /\ frames'[Len(frames) + 1].type = "DEF" /\ frames'[Len(frames) + 1].index = e
  <2> DEFINE S == FrameType \cup {DefFrame(e, s)}
             g == SetIndex(Frame.index + 1)
  <2>1. /\ g \in Seq(FrameType) /\ Len(g) = Len(frames)
        /\ \A i \in 1..Len(frames) : i # Len(frames) => g[i] = frames[i]
        /\ g[Len(frames)].type = "DEF" /\ g[Len(frames)].index = Frame.index + 1
    <3>1. Len(frames) > 0 /\ Frame.type = "DEF" /\ Frame.index + 1 \in DOMAIN Code
      BY <1>1, <1>2, <1>4
    <3>2. TypeOK
      OBVIOUS
    <3> QED  BY <3>1, <3>2, SetIndexLemma
  <2>2. DefFrame(e, s).type = "DEF" /\ DefFrame(e, s).index = e
    BY DEF DefFrame
  <2> HIDE DEF g
  <2>3. g \in Seq(S) /\ DefFrame(e, s) \in S
    BY <2>1, SeqMono
  <2> HIDE DEF S
  <2>4. /\ Len(Append(g, DefFrame(e, s))) = Len(g) + 1
        /\ \A i \in 1..Len(g) : Append(g, DefFrame(e, s))[i] = g[i]
        /\ Append(g, DefFrame(e, s))[Len(g) + 1] = DefFrame(e, s)
    BY <2>3, AppendLemma
  <2>5. frames' = Append(g, DefFrame(e, s))
    BY DEF g
  <2>6. \A i \in 1..Len(frames) : frames'[i] = g[i]
    BY <2>1, <2>4, <2>5
  <2>7. \A i \in 1..Len(frames) : /\ frames'[i].type = frames[i].type
                                  /\ i # Len(frames) => frames'[i] = frames[i]
    BY <2>1, <2>6, <1>1
  <2>8. /\ Len(frames') = Len(frames) + 1
        /\ frames'[Len(frames)].type = "DEF" /\ frames'[Len(frames)].index = Frame.index + 1
        /\ frames'[Len(frames) + 1] = DefFrame(e, s)
    BY <2>1, <2>4, <2>5, <2>6, <1>1
  <2> QED  BY <2>2, <2>7, <2>8
<1>8. /\ Len(bases') = Len(frames) + 1 /\ bases'[Len(frames) + 1] = Len(stack')
      /\ \A i \in 1..Len(frames) : bases'[i] = bases[i]
      /\ HeightsOK' /\ NativeFrames'
      /\ \A i \in 1..Len(frames) : i # Len(frames) /\ frames'[i].type = "DEF" =>
           /\ frames'[i + 1].type = "NATIVE" => Code'[frames'[i].index].op = "CALL"
           /\ bases'[i] + Owed(i)' <= Ceiling(i)'
  <2>1. \A i \in 1..Len(frames) : bases[i] <= Len(stack')
    <3>1. \A i \in 1..Len(frames) : bases[i] \in Nat /\ bases[i] <= bases[Len(frames)]
      BY <1>1, BasesMono
    <3> QED  BY <3>1, <1>5, <1>6
  <2>2. \A k \in 1..Len(host) : host[k].frames < Len(frames)
    <3>1. \A k \in 1..Len(host) : host[k].frames \in Nat /\ host[k].frames <= Top.frames
      BY HostFrames
    <3> QED  BY <3>1, <1>1, <1>2
  <2>3. \A k \in 1..Len(host') : ~(k > Len(host))
    BY <1>2
  <2>4. frames'[Len(frames) + 1].type # "NATIVE"
    BY <1>7
  <2>5. Len(host') \in Nat /\ Len(host') >= Len(host)
    BY <1>2
  <2>6. \A i \in 1..Len(frames) : /\ frames'[i].type = frames[i].type
                                  /\ i # Len(frames) => frames'[i] = frames[i]
                                  /\ bases[i] <= Len(stack')
    BY <2>1, <1>7
  <2> QED  BY <2>2, <2>3, <2>4, <2>5, <2>6, <1>6, <1>7, Grow
<1>9. HostOK'
  BY DEF HostOK, PhaseOK, OnTopOf, Natives
<1>10. TopOK'
  BY <1>1, <1>3 DEF TopOK, Natives, NoRet
<1>11. \A i \in 1..(Len(frames) + 1) : \/ i \in 1..Len(frames) /\ i # Len(frames) /\ i < Len(frames) + 1
                                       \/ i = Len(frames) \/ i = Len(frames) + 1
  BY <1>2
<1>12. AtCall'
  <2>1. ret' = NoRet'
    BY <1>1 DEF NoRet
  <2> QED  BY <2>1, <1>2, <1>7, <1>8, <1>11 DEF AtCall
<1>13. OperandsPresent'
  <2> SUFFICES ASSUME NEW i \in 1..(Len(frames) + 1), frames'[i].type = "DEF"
               PROVE  bases'[i] + Owed(i)' <= Ceiling(i)'
    BY <1>7 DEF OperandsPresent
  <2>1. CASE i \in 1..Len(frames) /\ i # Len(frames)
    BY <2>1, <1>8
  <2>2. CASE i = Len(frames)
    <3>1. i < Len(frames) + 1 /\ i # Len(frames) + 1 /\ i \in 1..Len(frames)
      BY <2>2, <1>1, <1>2
    <3>2. Owed(i)' = Depth[Frame.index + 1] - 1
      BY <2>2, <3>1, <1>3, <1>7 DEF Owed, Waiting
    <3>3. Ceiling(i)' = Len(stack')
      BY <2>2, <3>1, <1>7, <1>8 DEF Ceiling
    <3>4. bases'[i] = bases[Len(frames)]
      BY <2>2, <3>1, <1>8
    <3>5. bases[Len(frames)] + (Depth[Frame.index + 1] - 1) <= Len(stack')
      BY <1>4, <1>5, <1>6
    <3> QED  BY <3>2, <3>3, <3>4, <3>5
  <2>3. CASE i = Len(frames) + 1
    <3>1. Owed(i)' = 0
      BY <2>3, <1>1, <1>2, <1>3, <1>7 DEF Owed, Waiting, NoRet
    <3>2. Ceiling(i)' = Len(stack')
      BY <2>3, <1>7 DEF Ceiling
    <3> QED  BY <2>3, <3>1, <3>2, <1>6, <1>8
  <2> QED  BY <2>1, <2>2, <2>3, <1>11
<1>14. ResultPresent'
  <2>1. Len(frames') # Top.frames
    <3>1. Len(frames) + 1 # Top.frames
      BY <1>1, <1>2
    <3> QED  BY <3>1, <1>7
  <2> QED  BY <2>1, <1>3 DEF ResultPresent
<1> QED  BY <1>8, <1>9, <1>10, <1>12, <1>13, <1>14

(* The same for a caller that stays at its call.                            *)
LEMMA EnterArithmetic ==
  ASSUME NEW b \in Nat, NEW d \in Nat, NEW n \in Nat, NEW l \in Nat,
         b + d <= l, d - (n + 1) >= 0
  PROVE  b <= l - (n + 1) /\ b + (d - (n + 1)) <= l - (n + 1)
OBVIOUS

(* A native function that calls back is entered.                            *)
LEMMA EnterStep ==
  ASSUME Inv, TypeOK', program' = program, NEW c, CallerOf(c), NEW a, host' = Append(c, a),
         frames' = Append(frames, NativeFrame), bases' = Append(bases, Len(stack')),
         a.fn \in Natives, a.phase = "start", a.frames = Len(frames) + 1,
         a.height = Len(stack'), PhaseOK(a), ret' = NoRet, c[Len(host)].phase # "start",
         Len(stack') \in Nat,
         \/ Executing("CALL") /\ Len(stack') = Len(stack) - (CallArity + 1)
         \/ Top.fn \in Natives /\ Len(stack) = Top.height /\ Len(stack') = Len(stack)
  PROVE  Inv'
<1> USE DEF Inv
<1>1. /\ Code' = Code /\ Depth' = Depth /\ Natives' = Natives /\ Len(frames) \in Nat
      /\ Len(stack) \in Nat /\ Len(host) \in Nat \ {0} /\ Top = host[Len(host)]
      /\ Top.frames \in Nat /\ "executeCode" \notin Natives /\ "execFunc" \notin Natives
  BY HostFacts, InvTypes DEF Code, Depth, Natives
<1>2. /\ Len(frames) \in 1..Len(frames) /\ bases[Len(frames)] \in Nat
      /\ bases[Len(frames)] <= Len(stack')
      /\ frames[Len(frames)].type = "DEF" =>
           /\ Code[frames[Len(frames)].index].op = "CALL"
           /\ bases[Len(frames)] + (Depth[frames[Len(frames)].index]
                - Pops(Code[frames[Len(frames)].index])) <= Len(stack')
      /\ Top.fn = "executeCode" => Top.frames + 1 \in 1..Len(frames)
      /\ Top.fn \in Natives => Top.frames = Len(frames) /\ Top.height = Len(stack')
      /\ Top.fn \in Natives \cup {"executeCode"}
  <2>1. CASE Executing("CALL") /\ Len(stack') = Len(stack) - (CallArity + 1)
    <3>1. /\ Len(frames) \in 1..Len(frames) /\ Frame = frames[Len(frames)]
          /\ Frame.type = "DEF" /\ Frame.index \in DOMAIN Code
          /\ Top.fn = "executeCode" /\ Top.frames + 1 \in 1..Len(frames)
          /\ Code[Frame.index].op = "CALL"
      BY <2>1, InCode DEF Executing, InLoop, Ins
    <3>2. /\ bases[Len(frames)] \in Nat /\ Depth[Frame.index] \in Nat
          /\ bases[Len(frames)] + Depth[Frame.index] <= Len(stack)
      BY <2>1, Operands DEF Executing
    <3>3. Depth[Frame.index] - Pops(Code[Frame.index]) >= 0 /\ ArgumentOk(Code, Code[Frame.index])
      BY <3>1, Certificate DEF TypeOK
    <3>4. Pops(Code[Frame.index]) = CallArity + 1
      BY <3>1 DEF Pops, CallArity, Ins
    <3>5. CallArity \in Nat
      BY <3>1, <3>3 DEF ArgumentOk, CallArity, Ins, Arity
    <3>6. /\ bases[Len(frames)] <= Len(stack) - (CallArity + 1)
          /\ bases[Len(frames)] + (Depth[Frame.index] - (CallArity + 1))
               <= Len(stack) - (CallArity + 1)
      BY <1>1, <3>2, <3>3, <3>4, <3>5, EnterArithmetic
    <3> QED  BY <2>1, <3>1, <3>2, <3>4, <3>6, <1>1
  <2>2. CASE Top.fn \in Natives /\ Len(stack) = Top.height /\ Len(stack') = Len(stack)
    <3>1. /\ Len(frames) = Top.frames /\ Len(frames) \in 1..Len(frames)
          /\ frames[Len(frames)].type = "NATIVE" /\ bases[Len(frames)] = Top.height
      BY <2>2, TopNative
    <3>2. bases[Len(frames)] <= Len(stack')
      BY <2>2, <3>1, <1>1
    <3>3. bases[Len(frames)] \in Nat
      BY <2>2, <3>1, <1>1
    <3> QED  BY <2>2, <3>1, <3>2, <3>3, <1>1
  <2> QED  BY <2>1, <2>2
<1>3. /\ HostOK' /\ Len(host') = Len(host) + 1 /\ Top' = a /\ host'[Len(host) + 1] = a
      /\ \A k \in 1..Len(host) : /\ host'[k].fn = host[k].fn
                                 /\ host'[k].frames = host[k].frames
                                 /\ host'[k].height = host[k].height
  <2>1. a.frames \in Nat /\ a.fn # "execFunc" /\ Top.frames <= a.frames /\ Top.frames < a.frames
    <3>1. Top.frames <= Len(frames)
      BY <1>1, <1>2
    <3> QED  BY <3>1, <1>1
  <2>2. OnTopOf(a, c[Len(host)])
    <3>1. /\ c[Len(host)].fn = Top.fn /\ c[Len(host)].frames = Top.frames
          /\ c[Len(host)].height = Top.height
      BY <1>1 DEF CallerOf
    <3>2. Top.fn = "executeCode" => a.frames >= Top.frames + 2
      BY SMTT(30), <1>1, <1>2
    <3>3. Top.fn # "execFunc" /\ a.fn # "executeCode"
      BY <1>1, <1>2
    <3>4. Top.fn \in Natives => a.frames = Top.frames + 1 /\ a.height = Top.height
      BY <1>2
    <3> QED  BY <3>1, <3>2, <3>3, <3>4 DEF OnTopOf
  <2> QED  BY <2>1, <2>2, HostPush
<1>4. /\ Len(frames') = Len(frames) + 1 /\ frames'[Len(frames) + 1].type = "NATIVE"
      /\ \A i \in 1..Len(frames) : frames'[i] = frames[i]
  <2>1. frames \in Seq(FrameType) /\ NativeFrame \in FrameType /\ NativeFrame.type = "NATIVE"
    BY DEF TypeOK, FrameType, NativeFrame
  <2> QED  BY <2>1, AppendLemma
<1>5. /\ Len(bases') = Len(frames) + 1 /\ bases'[Len(frames) + 1] = Len(stack')
      /\ \A i \in 1..Len(frames) : bases'[i] = bases[i]
      /\ HeightsOK' /\ NativeFrames'
      /\ \A i \in 1..Len(frames) : i # Len(frames) /\ frames'[i].type = "DEF" =>
           /\ frames'[i + 1].type = "NATIVE" => Code'[frames'[i].index].op = "CALL"
           /\ bases'[i] + Owed(i)' <= Ceiling(i)'
  <2>1. \A i \in 1..Len(frames) : bases[i] <= Len(stack')
    <3>1. \A i \in 1..Len(frames) : bases[i] \in Nat /\ bases[i] <= bases[Len(frames)]
      BY <1>2, BasesMono
    <3> QED  BY SMTT(30), <3>1, <1>2
  <2>2. \A k \in 1..Len(host) : host[k].fn = "executeCode" => host[k].frames < Len(frames)
    <3> SUFFICES ASSUME NEW k \in 1..Len(host), host[k].fn = "executeCode"
                 PROVE  host[k].frames < Len(frames)
      OBVIOUS
    <3>1. host[k].frames \in Nat /\ host[k].frames <= Top.frames
      BY HostFrames
    <3>2. CASE Top.fn = "executeCode"
      <4>1. Top.frames < Len(frames)
        BY SMTT(30), <3>2, <1>1, <1>2
      <4> QED  BY <4>1, <3>1, <1>1
    <3>3. CASE Top.fn \in Natives
      <4>1. k # Len(host)
        BY <3>3, <1>1
      <4>2. host[k].frames < Top.frames
        BY <3>3, <4>1, HostFrames
      <4> QED  BY <3>3, <4>2, <1>2
    <3> QED  BY <3>2, <3>3, <1>2
  <2>3. \A k \in 1..Len(host') : k > Len(host) => k = Len(host) + 1
    BY <1>1, <1>3
  <2>4. Len(host) + 1 \in 1..Len(host') /\ Len(host) + 1 > Len(host)
    BY <1>1, <1>3
  <2>5. Len(host') \in Nat /\ Len(host') >= Len(host)
    BY <1>1, <1>3
  <2>6. \A i \in 1..Len(frames) : /\ frames'[i].type = frames[i].type
                                  /\ i # Len(frames) => frames'[i] = frames[i]
                                  /\ bases[i] <= Len(stack')
    BY <2>1, <1>4
  <2>7. \A k \in 1..Len(host') : k > Len(host) =>
          /\ host'[k].fn \in Natives \cup {"executeCode"}
          /\ host'[k].height = Len(stack')
          /\ host'[k].fn \in Natives => host'[k].frames = Len(frames) + 1
          /\ host'[k].fn = "executeCode" => host'[k].frames = Len(frames)
    BY <2>3, <1>1, <1>3
  <2>8. frames'[Len(frames) + 1].type = "NATIVE" <=>
          \E k \in 1..Len(host') : k > Len(host) /\ host'[k].fn \in Natives
    BY <2>4, <1>3, <1>4
  <2>9. \A k \in 1..Len(host) :
          /\ host'[k].fn = host[k].fn /\ host'[k].frames = host[k].frames
          /\ host'[k].height = host[k].height
          /\ host[k].fn = "executeCode" => host[k].frames < Len(frames)
    BY <2>2, <1>3
  <2> QED  BY <2>5, <2>6, <2>7, <2>8, <2>9, <1>4, Grow
<1>6. TopOK'
  BY <1>1, <1>3, <1>4 DEF TopOK
<1>7. \A i \in 1..(Len(frames) + 1) : \/ i \in 1..Len(frames) /\ i # Len(frames) /\ i < Len(frames) + 1
                                      \/ i = Len(frames) \/ i = Len(frames) + 1
  BY <1>1
<1>8. AtCall'
  <2>1. ret' = NoRet'
    BY DEF NoRet
  <2> QED  BY <2>1, <1>1, <1>2, <1>4, <1>5, <1>7 DEF AtCall
<1>9. OperandsPresent'
  <2> SUFFICES ASSUME NEW i \in 1..(Len(frames) + 1), frames'[i].type = "DEF"
               PROVE  bases'[i] + Owed(i)' <= Ceiling(i)'
    BY <1>4 DEF OperandsPresent
  <2>1. CASE i \in 1..Len(frames) /\ i # Len(frames)
    BY <2>1, <1>5
  <2>2. CASE i = Len(frames)
    <3>1. i < Len(frames) + 1 /\ i # Len(frames) + 1 /\ i \in 1..Len(frames) /\ frames'[i] = frames[i]
      BY <2>2, <1>1, <1>2, <1>4
    <3>2. Owed(i)' = Depth[frames[i].index] - Pops(Code[frames[i].index])
      BY <2>2, <3>1, <1>1, <1>4 DEF Owed, Waiting
    <3>3. Ceiling(i)' = Len(stack')
      BY <2>2, <3>1, <1>4, <1>5 DEF Ceiling
    <3> QED  BY <2>2, <3>1, <3>2, <3>3, <1>2, <1>5
  <2>3. CASE i = Len(frames) + 1
    BY <2>3, <1>4
  <2> QED  BY <2>1, <2>2, <2>3, <1>7
<1>10. ResultPresent'
  BY <1>1, <1>3 DEF ResultPresent
<1> QED  BY <1>3, <1>5, <1>6, <1>8, <1>9, <1>10

(* callFunction calls a func thing: executeCode is entered with its frame.  *)
LEMMA ExecuteStep ==
  ASSUME Inv, TypeOK', program' = program, NEW c, CallerOf(c), NEW a, host' = Append(c, a),
         NEW e \in DOMAIN Code, Depth[e] = 0, NEW s,
         frames' = Append(frames, DefFrame(e, s)), bases' = Append(bases, Len(stack)),
         stack' = stack, ret' = NoRet,
         a.fn = "executeCode", a.frames = Len(frames), a.height = Len(stack), PhaseOK(a),
         Top.fn # "executeCode", c[Len(host)].phase \notin {"start", "done"},
         Top.fn \in Natives => Len(stack) = Top.height
  PROVE  Inv'
<1> USE DEF Inv
<1>1. /\ Code' = Code /\ Depth' = Depth /\ Natives' = Natives /\ Len(frames) \in Nat
      /\ Len(stack) \in Nat /\ Len(host) \in Nat \ {0} /\ Top = host[Len(host)]
      /\ "executeCode" \notin Natives /\ "executeCode" # "execFunc"
  BY HostFacts, InvTypes DEF Code, Depth, Natives
<1>2. /\ Top.frames = Len(frames)
      /\ Len(frames) \in 1..Len(frames) => frames[Len(frames)].type = "NATIVE"
      /\ Top.fn \in Natives \cup {"execFunc"}
  <2>1. Top.fn \in Natives \cup {"execFunc"}
    BY HostFacts DEF ActivationType, Functionaries, Natives
  <2> QED  BY <2>1, TopNative, TopExecFunc
<1>3. /\ HostOK' /\ Len(host') = Len(host) + 1 /\ Top' = a /\ host'[Len(host) + 1] = a
      /\ \A k \in 1..Len(host) : /\ host'[k].fn = host[k].fn
                                 /\ host'[k].frames = host[k].frames
                                 /\ host'[k].height = host[k].height
  <2>1. OnTopOf(a, c[Len(host)])
    BY <1>1, <1>2 DEF CallerOf, OnTopOf
  <2>2. a.frames \in Nat /\ a.fn # "execFunc" /\ Top.frames <= a.frames /\ a.fn \notin Natives
    BY <1>1, <1>2
  <2> QED  BY <2>1, <2>2, HostPush
<1>4. /\ Len(frames') = Len(frames) + 1
      /\ frames'[Len(frames) + 1].type = "DEF" /\ frames'[Len(frames) + 1].index = e
      /\ \A i \in 1..Len(frames) : frames'[i] = frames[i]
  <2> DEFINE S == FrameType \cup {DefFrame(e, s)}
  <2>1. frames \in Seq(S)
    BY SeqMono DEF TypeOK
  <2>2. DefFrame(e, s) \in S
    OBVIOUS
  <2>3. DefFrame(e, s).type = "DEF" /\ DefFrame(e, s).index = e
    BY DEF DefFrame
  <2> HIDE DEF S
  <2>4. /\ Len(frames') = Len(frames) + 1
        /\ \A i \in 1..Len(frames) : frames'[i] = frames[i]
        /\ frames'[Len(frames) + 1] = DefFrame(e, s)
    BY <2>1, <2>2, AppendLemma
  <2> QED  BY <2>3, <2>4
<1>5. /\ Len(bases') = Len(frames) + 1 /\ bases'[Len(frames) + 1] = Len(stack')
      /\ \A i \in 1..Len(frames) : bases'[i] = bases[i]
      /\ HeightsOK' /\ NativeFrames'
      /\ \A i \in 1..Len(frames) : i # Len(frames) /\ frames'[i].type = "DEF" =>
           /\ frames'[i + 1].type = "NATIVE" => Code'[frames'[i].index].op = "CALL"
           /\ bases'[i] + Owed(i)' <= Ceiling(i)'
  <2>1. \A i \in 1..Len(frames) : bases[i] <= Len(stack)
    BY DEF HeightsOK
  <2>2. \A k \in 1..Len(host) : host[k].fn = "executeCode" => host[k].frames < Len(frames)
    <3> SUFFICES ASSUME NEW k \in 1..Len(host), host[k].fn = "executeCode"
                 PROVE  host[k].frames < Len(frames)
      OBVIOUS
    <3>1. CASE Top.fn \in Natives
      <4>1. k # Len(host)
        BY <1>1
      <4> QED  BY <3>1, <4>1, <1>2, HostFrames
    <3>2. CASE Top.fn = "execFunc"
      <4>1. Len(host) = 1
        BY <3>2, TopExecFunc
      <4> QED  BY <3>2, <4>1, <1>1
    <3> QED  BY <3>1, <3>2, <1>2
  <2>3. \A k \in 1..Len(host') : k > Len(host) => k = Len(host) + 1
    BY <1>1, <1>3
  <2>4. Len(host') \in Nat /\ Len(host') >= Len(host)
    BY <1>1, <1>3
  <2>5. \A i \in 1..Len(frames) : /\ frames'[i].type = frames[i].type
                                  /\ i # Len(frames) => frames'[i] = frames[i]
                                  /\ bases[i] <= Len(stack')
    BY <2>1, <1>4
  <2>6. \A k \in 1..Len(host') : k > Len(host) =>
          /\ host'[k].fn \in Natives \cup {"executeCode"}
          /\ host'[k].height = Len(stack')
          /\ host'[k].fn \in Natives => host'[k].frames = Len(frames) + 1
          /\ host'[k].fn = "executeCode" => host'[k].frames = Len(frames)
    BY <2>3, <1>1, <1>3
  <2>7. frames'[Len(frames) + 1].type = "NATIVE" <=>
          \E k \in 1..Len(host') : k > Len(host) /\ host'[k].fn \in Natives
    BY <2>3, <1>1, <1>3, <1>4
  <2>8. \A k \in 1..Len(host) :
          /\ host'[k].fn = host[k].fn /\ host'[k].frames = host[k].frames
          /\ host'[k].height = host[k].height
          /\ host[k].fn = "executeCode" => host[k].frames < Len(frames)
    BY <2>2, <1>3
  <2>9. bases' = Append(bases, Len(stack')) /\ Len(stack') \in Nat
    BY <1>1
  <2> QED  BY <2>4, <2>5, <2>6, <2>7, <2>8, <2>9, <1>4, Grow
<1>6. TopOK'
  BY <1>1, <1>3 DEF TopOK, NoRet
<1>7. \A i \in 1..(Len(frames) + 1) : \/ i \in 1..Len(frames) /\ i # Len(frames) /\ i < Len(frames) + 1
                                      \/ i = Len(frames) /\ i \in 1..Len(frames)
                                      \/ i = Len(frames) + 1
  BY <1>1
<1>8. AtCall'
  <2>1. ret' = NoRet'
    BY DEF NoRet
  <2> QED  BY <2>1, <1>1, <1>2, <1>4, <1>5, <1>7 DEF AtCall
<1>9. OperandsPresent'
  <2> SUFFICES ASSUME NEW i \in 1..(Len(frames) + 1), frames'[i].type = "DEF"
               PROVE  bases'[i] + Owed(i)' <= Ceiling(i)'
    BY <1>4 DEF OperandsPresent
  <2>1. CASE i \in 1..Len(frames) /\ i # Len(frames)
    BY <2>1, <1>5
  <2>2. CASE i = Len(frames) /\ i \in 1..Len(frames)
    BY <2>2, <1>2, <1>4
  <2>3. CASE i = Len(frames) + 1
    <3>1. Owed(i)' = 0
      BY <2>3, <1>1, <1>4 DEF Owed, Waiting, NoRet
    <3>2. Ceiling(i)' = Len(stack)
      BY <2>3, <1>4 DEF Ceiling
    <3> QED  BY <2>3, <3>1, <3>2, <1>1, <1>5
  <2> QED  BY <2>1, <2>2, <2>3, <1>7
<1>10. ResultPresent'
  <2>1. Len(frames') # Top'.frames
    BY <1>1, <1>3, <1>4
  <2> QED  BY <2>1 DEF ResultPresent
<1> QED  BY <1>3, <1>5, <1>6, <1>8, <1>9, <1>10
=============================================================================
