---------------------------- MODULE ModulesProofs ----------------------------
(***************************************************************************)
(* Import keeps Inv, whatever the files are and however they import each   *)
(* other, and what it answers is a registry's.  One lemma per kind of      *)
(* step: activations come and go, modules begin and end.                   *)
(***************************************************************************)
EXTENDS ModulesProperties, TLAPS

-----------------------------------------------------------------------------
(* What TypeOK says of single elements (loaded, and the C++ stack).         *)
LEMMA Elements ==
  ASSUME TypeOK
  PROVE  /\ Len(loaded) \in Nat /\ DOMAIN loaded = 1..Len(loaded)
         /\ \A id \in DOMAIN loaded : loaded[id] \in Instances
         /\ Len(stack) \in Nat /\ DOMAIN stack = 1..Len(stack)
         /\ \A i \in DOMAIN stack : /\ stack[i] \in ActivationsOf(DOMAIN loaded)
                                    /\ stack[i].id \in DOMAIN loaded
                                    /\ stack[i].kind \in {"run", "call", "guard"}
                                    /\ NameOf(stack[i]) \in DOMAIN files \cap Names
<1>1. /\ Len(loaded) \in Nat /\ DOMAIN loaded = 1..Len(loaded)
      /\ \A id \in DOMAIN loaded : loaded[id] \in Instances
  BY DEF TypeOK
<1>2. /\ Len(stack) \in Nat /\ DOMAIN stack = 1..Len(stack)
      /\ \A i \in DOMAIN stack : stack[i] \in ActivationsOf(DOMAIN loaded)
  BY DEF TypeOK
<1>3. \A i \in DOMAIN stack : /\ stack[i].id \in DOMAIN loaded
                              /\ stack[i].kind \in {"run", "call", "guard"}
  BY <1>2 DEF ActivationsOf
<1>4. \A i \in DOMAIN stack : NameOf(stack[i]) \in DOMAIN files \cap Names
  BY DEF TypeOK
<1> QED  BY <1>1, <1>2, <1>3, <1>4

(* While the program runs there is an activation that runs it.              *)
LEMMA TopIsThere ==
  ASSUME TypeOK, stack # <<>>
  PROVE  /\ Len(stack) \in DOMAIN stack /\ Len(stack) >= 1 /\ 1 \in DOMAIN stack
         /\ Top = stack[Len(stack)] /\ Top.id \in DOMAIN loaded
         /\ Top.kind \in {"run", "call", "guard"}
         /\ NameOf(Top) \in DOMAIN files \cap Names
<1>1. Len(stack) >= 1 /\ Len(stack) \in Nat
  BY DEF TypeOK
<1>2. Len(stack) \in DOMAIN stack /\ 1 \in DOMAIN stack
  BY <1>1, Elements
<1>3. Top = stack[Len(stack)]
  BY DEF Top
<1> QED  BY <1>1, <1>2, <1>3, Elements

(* It is the only one, or there are more.                                   *)
LEMMA OneOrMore ==
  ASSUME TypeOK, stack # <<>>
  PROVE  Len(stack) # 1 => Len(stack) > 1
<1>1. ASSUME NEW n \in Nat, n >= 1 PROVE n # 1 => n > 1
  BY <1>1
<1>2. Len(stack) \in Nat /\ Len(stack) >= 1
  BY TopIsThere, Elements
<1> QED  BY <1>1, <1>2

(* The activations below the innermost one.                                 *)
LEMMA BelowLemma ==
  ASSUME TypeOK, stack # <<>>
  PROVE  /\ Below \in Seq(ActivationsOf(DOMAIN loaded)) /\ Len(Below) = Len(stack) - 1
         /\ DOMAIN Below = 1..(Len(stack) - 1)
         /\ \A i \in DOMAIN Below : Below[i] = stack[i] /\ i \in DOMAIN stack
<1>1. ASSUME NEW S, NEW s \in Seq(S), s # <<>>
      PROVE  /\ SubSeq(s, 1, Len(s) - 1) \in Seq(S)
             /\ Len(SubSeq(s, 1, Len(s) - 1)) = Len(s) - 1
             /\ DOMAIN SubSeq(s, 1, Len(s) - 1) = 1..(Len(s) - 1)
             /\ \A i \in 1..(Len(s) - 1) : SubSeq(s, 1, Len(s) - 1)[i] = s[i] /\ i \in DOMAIN s
  <2>1. Len(s) \in Nat /\ Len(s) - 1 \in Nat /\ DOMAIN s = 1..Len(s)
    BY <1>1
  <2> QED  BY <1>1, <2>1
<1>2. stack \in Seq(ActivationsOf(DOMAIN loaded))
  BY DEF TypeOK
<1>3. /\ SubSeq(stack, 1, Len(stack) - 1) \in Seq(ActivationsOf(DOMAIN loaded))
      /\ Len(SubSeq(stack, 1, Len(stack) - 1)) = Len(stack) - 1
      /\ DOMAIN SubSeq(stack, 1, Len(stack) - 1) = 1..(Len(stack) - 1)
      /\ \A i \in 1..(Len(stack) - 1) :
           SubSeq(stack, 1, Len(stack) - 1)[i] = stack[i] /\ i \in DOMAIN stack
  BY <1>1, <1>2
<1> QED  BY <1>3 DEF Below

(* A module more leaves those there were.                                   *)
LEMMA OneMore ==
  ASSUME TypeOK, NEW module \in Instances
  PROVE  /\ Append(loaded, module) \in Seq(Instances)
         /\ DOMAIN Append(loaded, module) = DOMAIN loaded \cup {Len(loaded) + 1}
         /\ Len(loaded) + 1 \notin DOMAIN loaded
         /\ Append(loaded, module)[Len(loaded) + 1] = module
         /\ \A id \in DOMAIN loaded : Append(loaded, module)[id] = loaded[id]
<1>1. loaded \in Seq(Instances)
  BY DEF TypeOK
<1> QED  BY <1>1

(* A module that ends is the only one to change, and keeps its name.        *)
LEMMA Marked ==
  ASSUME TypeOK, NEW id \in DOMAIN loaded, NEW state \in States
  PROVE  /\ Mark(id, state) \in Seq(Instances) /\ DOMAIN Mark(id, state) = DOMAIN loaded
         /\ \A m \in DOMAIN loaded : /\ Mark(id, state)[m].name = loaded[m].name
                                     /\ m # id => Mark(id, state)[m] = loaded[m]
         /\ Mark(id, state)[id] = Instance(loaded[id].name, state)
<1>1. loaded \in Seq(Instances) /\ loaded[id] \in Instances
  BY Elements DEF TypeOK
<1>2. [loaded[id] EXCEPT !.state = state] = Instance(loaded[id].name, state)
  BY <1>1 DEF Instances, Instance
<1>3. Instance(loaded[id].name, state) \in Instances
  BY <1>1 DEF Instances, Instance
<1>4. Mark(id, state) = [loaded EXCEPT ![id] = Instance(loaded[id].name, state)]
  BY <1>2 DEF Mark
<1>5. Mark(id, state)[id] = Instance(loaded[id].name, state)
  BY <1>1, <1>4
<1>6. Instance(loaded[id].name, state).name = loaded[id].name
  BY DEF Instance
<1> QED  BY <1>1, <1>3, <1>4, <1>5, <1>6

(* Files are the program's, whatever is done.                               *)
LEMMA SameFiles ==
  ASSUME program' = program, compiled' = compiled
  PROVE  /\ files' = files /\ Orderly' = Orderly 
BY DEF files, Orderly, Layered, MentionedBy

(* The names of modules have ranks, which are numbers.                      *)
LEMMA Ranked ==
  ASSUME TypeOK, NEW id \in DOMAIN loaded
  PROVE  loaded[id].name \in Names /\ Rank[loaded[id].name] \in Nat
<1>1. loaded[id] \in Instances
  BY Elements
<1> QED  BY <1>1, BoundsAssumption DEF Instances, BoundsAssumption

-----------------------------------------------------------------------------
(* Steps that neither begin nor end anything: what they do to the error on  *)
(* its way, the answer and the phase is all there is to see.                *)
LEMMA Stays ==
  ASSUME Inv, UNCHANGED <<program, compiled, modules, loaded, stack>>,
         left' \in 0..program.steps, raised' \in BOOLEAN,
         answer' \in [name : Names, id : {0} \cup DOMAIN loaded],
         phase' \in {"module", "main"} \cup Endings,
         phase' \in {"module", "main"} => phase \in {"module", "main"}
  PROVE  Inv'
<1>1. files' = files /\ Orderly' = Orderly
  BY SameFiles
<1>2. TypeOK'
  BY <1>1 DEF Inv, TypeOK, NameOf
<1>3. Untouched'
  BY DEF Untouched, Endings
<1>4. InsideMain' /\ RunsAreRunning' /\ RunningAreRun' /\ DoneAreCached' /\ CachedHaveRun'
  BY DEF Inv, InsideMain, RunsAreRunning, RunningAreRun, DoneAreCached, CachedHaveRun, Runs
<1>5. Descending' /\ RunsOnce'
  BY <1>1 DEF Inv, Descending, RankAt, RunsOnce, NameOf
<1> QED  BY <1>2, <1>3, <1>4, <1>5 DEF Inv

(* Nothing on the stack ranks lower than its top.                           *)
LEMMA TopIsLowest ==
  ASSUME TypeOK, Descending, Orderly, NEW i \in DOMAIN stack
  PROVE  /\ RankAt(Len(stack)) = Rank[NameOf(Top)] /\ RankAt(Len(stack)) \in Nat
         /\ RankAt(i) \in Nat /\ RankAt(Len(stack)) <= RankAt(i)
<1>1. stack # <<>> /\ i \in 1..Len(stack) /\ Len(stack) \in Nat /\ Len(stack) \in DOMAIN stack
  BY Elements
<1>2. \A j \in DOMAIN stack : RankAt(j) \in Nat
  BY Elements, Ranked DEF RankAt, NameOf
<1>3. CASE i = Len(stack)
  BY <1>1, <1>2, <1>3 DEF RankAt, Top
<1>4. CASE i < Len(stack)
  BY <1>1, <1>2, <1>4 DEF RankAt, Top, Descending
<1> QED  BY <1>1, <1>3, <1>4

(* A function is called, or a block is guarded: the module it belongs to    *)
(* ranks no higher than the one that calls.                                 *)
LEMMA Calls ==
  ASSUME Inv, stack # <<>>, phase \in {"module", "main"}, left' \in 0..program.steps,
         UNCHANGED <<program, compiled, modules, loaded, raised, answer, phase>>,
         NEW kind \in {"call", "guard"}, NEW id \in DOMAIN loaded,
         loaded[id].name \in DOMAIN files,
         Orderly => Rank[loaded[id].name] <= Rank[NameOf(Top)],
         stack' = Append(stack, Activation(kind, id))
  PROVE  Inv'
<1>1. files' = files /\ Orderly' = Orderly /\ TypeOK
  BY SameFiles DEF Inv
<1>2. Activation(kind, id) \in ActivationsOf(DOMAIN loaded)
  BY DEF Activation, ActivationsOf
<1>3. /\ stack' \in Seq(ActivationsOf(DOMAIN loaded)) /\ DOMAIN stack' = DOMAIN stack \cup {Len(stack) + 1}
      /\ stack' # <<>> /\ Len(stack) + 1 \notin DOMAIN stack
      /\ stack'[Len(stack) + 1] = Activation(kind, id)
      /\ \A i \in DOMAIN stack : stack'[i] = stack[i]
  BY <1>1, <1>2 DEF TypeOK
<1>4. Runs' = Runs
  BY <1>3 DEF Runs, Activation
<1>5. \A i \in DOMAIN stack : NameOf(stack[i])' = NameOf(stack[i])
  BY <1>3 DEF NameOf
<1>6. TypeOK'
  <2>1. \A i \in DOMAIN stack' : NameOf(stack[i])' \in DOMAIN files'
    BY <1>1, <1>3, Elements DEF NameOf, Activation
  <2> QED  BY <1>1, <1>3, <2>1 DEF TypeOK
<1>7. Untouched'
  BY DEF Untouched
<1>8. InsideMain'
  BY <1>1, <1>3, TopIsThere DEF Inv, InsideMain
<1>9. RunsAreRunning' /\ RunningAreRun'
  BY <1>3, <1>4 DEF Inv, RunsAreRunning, RunningAreRun, Runs
<1>10. DoneAreCached' /\ CachedHaveRun' /\ RunsOnce'
  BY <1>1 DEF Inv, DoneAreCached, CachedHaveRun, RunsOnce
<1>11. Descending'
  <2> SUFFICES ASSUME Orderly, NEW i \in DOMAIN stack', NEW j \in DOMAIN stack', i < j
               PROVE  RankAt(j)' <= RankAt(i)'
    BY <1>1 DEF Descending
  <2>1. \A k \in DOMAIN stack : RankAt(k)' = RankAt(k)
    BY <1>5 DEF RankAt
  <2>2. CASE j \in DOMAIN stack
    <3>1. i \in DOMAIN stack
      BY <1>1, <1>3, <2>2, Elements
    <3> QED  BY <2>1, <2>2, <3>1 DEF Inv, Descending
  <2>3. CASE j = Len(stack) + 1
    <3>1. i \in DOMAIN stack /\ i <= Len(stack)
      BY <1>1, <1>3, <2>3, Elements
    <3>2. RankAt(j)' = Rank[loaded[id].name] /\ Rank[loaded[id].name] \in Nat
      BY <1>1, <1>3, <2>3, Ranked DEF RankAt, NameOf, Activation
    <3>3. RankAt(i)' = RankAt(i) /\ RankAt(i) \in Nat /\ Rank[NameOf(Top)] \in Nat
          /\ Rank[NameOf(Top)] <= RankAt(i)
      BY <1>1, <2>1, <3>1, TopIsLowest DEF Inv
    <3> QED  BY <3>2, <3>3
  <2> QED  BY <1>3, <2>2, <2>3
<1> QED  BY <1>6, <1>7, <1>8, <1>9, <1>10, <1>11 DEF Inv

-----------------------------------------------------------------------------
(* The innermost activation is left, by an answer or by an error: what is   *)
(* below it stays as it was.                                                *)
LEMMA Leaves ==
  ASSUME Inv, stack # <<>>, UNCHANGED <<program, compiled>>, stack' = Below,
         loaded' \in Seq(Instances), DOMAIN loaded' = DOMAIN loaded,
         \A m \in DOMAIN loaded : loaded'[m].name = loaded[m].name,
         DOMAIN modules' \subseteq Names, \A n \in DOMAIN modules' : modules'[n] \in DOMAIN loaded,
         left' = left, raised' \in BOOLEAN,
         answer' \in [name : Names, id : {0} \cup DOMAIN loaded],
         phase' \in {"module", "main"} \cup Endings,
         phase' \in {"module", "main"} => Len(stack) > 1
  PROVE  /\ TypeOK' /\ Untouched' /\ InsideMain' /\ Descending'
         /\ Runs' = Runs \ {Len(stack)}
         /\ \A i \in DOMAIN stack' : i \in DOMAIN stack /\ stack'[i] = stack[i]
<1>1. files' = files /\ Orderly' = Orderly /\ TypeOK
  BY SameFiles DEF Inv
<1>2. /\ stack' \in Seq(ActivationsOf(DOMAIN loaded)) /\ Len(stack') = Len(stack) - 1
      /\ DOMAIN stack' = 1..(Len(stack) - 1) /\ DOMAIN stack = 1..Len(stack) /\ Len(stack) \in Nat
      /\ \A i \in DOMAIN stack' : stack'[i] = stack[i] /\ i \in DOMAIN stack
  BY <1>1, BelowLemma, Elements
<1>3. \A i \in DOMAIN stack' : NameOf(stack[i])' = NameOf(stack[i])
  BY <1>1, <1>2, Elements DEF NameOf
<1>4. TypeOK'
  <2>1. \A i \in DOMAIN stack' : NameOf(stack[i])' \in DOMAIN files'
    BY <1>1, <1>2, <1>3, Elements
  <2>2. phase' \in {"module", "main"} => stack' # <<>>
    BY <1>2
  <2>3. program'.steps \in Nat /\ left' \in 0..program'.steps
    BY <1>1 DEF TypeOK
  <2>4. phase' \in {"start", "module", "main"} \cup Endings
    OBVIOUS
  <2>5. Main \in DOMAIN files' /\ DOMAIN files' \subseteq Names /\ DOMAIN compiled' = DOMAIN files'
    BY <1>1 DEF TypeOK
  <2> QED  BY <1>2, <2>1, <2>2, <2>3, <2>4, <2>5 DEF TypeOK
<1>5. Untouched'
  BY DEF Untouched, Endings
<1>6. InsideMain'
  <2> SUFFICES ASSUME stack' # <<>> PROVE stack'[1].id = 1
    BY DEF InsideMain
  <2>1. 1 \in DOMAIN stack'
    BY <1>2
  <2> QED  BY <1>2, <2>1 DEF Inv, InsideMain
<1>7. Descending'
  <2>1. \A i \in DOMAIN stack' : RankAt(i)' = RankAt(i)
    BY <1>3 DEF RankAt
  <2> QED  BY <1>1, <1>2, <2>1 DEF Inv, Descending
<1>8. Runs' = Runs \ {Len(stack)}
  BY <1>2 DEF Runs
<1> QED  BY <1>2, <1>4, <1>5, <1>6, <1>7, <1>8

(* A function or a guarded block is left: no module begins or ends.         *)
LEMMA CallLeaves ==
  ASSUME Inv, stack # <<>>, UNCHANGED <<program, compiled, modules, loaded, left, answer>>,
         Top.kind # "run", stack' = Below, raised' \in BOOLEAN,
         phase' \in {"module", "main"} \cup Endings,
         phase' \in {"module", "main"} => Len(stack) > 1
  PROVE  Inv'
<1>1. TypeOK /\ Orderly' = Orderly
  BY SameFiles DEF Inv
<1>2. /\ TypeOK' /\ Untouched' /\ InsideMain' /\ Descending' /\ Runs' = Runs \ {Len(stack)}
      /\ \A i \in DOMAIN stack' : i \in DOMAIN stack /\ stack'[i] = stack[i]
  BY <1>1, Leaves DEF TypeOK
<1>3. Len(stack) \notin Runs
  BY DEF Top, Runs
<1>4. Runs' = Runs /\ \A i \in Runs : stack'[i] = stack[i]
  BY <1>2, <1>3 DEF Runs
<1>5. RunsAreRunning' /\ RunningAreRun'
  BY <1>4 DEF Inv, RunsAreRunning, RunningAreRun
<1>6. DoneAreCached' /\ CachedHaveRun' /\ RunsOnce'
  BY <1>1 DEF Inv, DoneAreCached, CachedHaveRun, RunsOnce
<1> QED  BY <1>2, <1>5, <1>6 DEF Inv

(* A trycatch goes on with its handler in place of its block.               *)
LEMMA Handles ==
  ASSUME Inv, stack # <<>>, UNCHANGED <<program, compiled, modules, loaded, left, answer, phase>>,
         Top.kind = "guard", phase \in {"module", "main"}, raised' \in BOOLEAN,
         stack' = [stack EXCEPT ![Len(stack)].kind = "call"]
  PROVE  Inv'
<1>1. TypeOK /\ Orderly' = Orderly /\ files' = files
  BY SameFiles DEF Inv
<1>2. /\ Len(stack) \in DOMAIN stack /\ Top = stack[Len(stack)] /\ Top \in ActivationsOf(DOMAIN loaded)
      /\ stack \in Seq(ActivationsOf(DOMAIN loaded))
  BY <1>1, TopIsThere, Elements DEF TypeOK
<1>3. [Top EXCEPT !.kind = "call"] = Activation("call", Top.id)
  BY <1>2 DEF Activation, ActivationsOf
<1>4. Activation("call", Top.id) \in ActivationsOf(DOMAIN loaded)
  BY <1>2 DEF Activation, ActivationsOf
<1>5. stack' = [stack EXCEPT ![Len(stack)] = Activation("call", Top.id)]
  BY <1>2, <1>3
<1>6. /\ stack' \in Seq(ActivationsOf(DOMAIN loaded)) /\ DOMAIN stack' = DOMAIN stack
      /\ stack'[Len(stack)] = Activation("call", Top.id)
      /\ \A i \in DOMAIN stack : i # Len(stack) => stack'[i] = stack[i]
  BY <1>2, <1>4, <1>5
<1>7. \A i \in DOMAIN stack : stack'[i].id = stack[i].id
  BY <1>2, <1>6 DEF Activation
<1>8. \A i \in DOMAIN stack : NameOf(stack[i])' = NameOf(stack[i])
  BY <1>7 DEF NameOf
<1>9. Runs' = Runs
  <2>1. stack'[Len(stack)].kind = "call"
    BY <1>6 DEF Activation
  <2>2. \A i \in DOMAIN stack : (stack'[i].kind = "run") <=> (stack[i].kind = "run")
    BY <1>2, <1>6, <2>1
  <2> QED  BY <1>6, <2>2 DEF Runs
<1>10. TypeOK'
  <2>1. \A i \in DOMAIN stack' : NameOf(stack[i])' \in DOMAIN files'
    BY <1>1, <1>6, <1>8, Elements
  <2>2. stack' # <<>>
    BY <1>2, <1>6
  <2> QED  BY <1>1, <1>6, <2>1, <2>2 DEF TypeOK
<1>11. Untouched'
  BY DEF Untouched
<1>12. InsideMain'
  BY <1>1, <1>7, TopIsThere DEF Inv, InsideMain
<1>13. RunsAreRunning' /\ RunningAreRun'
  BY <1>7, <1>9 DEF Inv, RunsAreRunning, RunningAreRun, Runs
<1>14. DoneAreCached' /\ CachedHaveRun' /\ RunsOnce'
  BY <1>1 DEF Inv, DoneAreCached, CachedHaveRun, RunsOnce
<1>15. Descending'
  <2>1. \A i \in DOMAIN stack : RankAt(i)' = RankAt(i)
    BY <1>8 DEF RankAt
  <2> QED  BY <1>1, <1>6, <2>1 DEF Inv, Descending
<1> QED  BY <1>10, <1>11, <1>12, <1>13, <1>14, <1>15 DEF Inv

-----------------------------------------------------------------------------
(* A running module ends.  Nothing that is in the cache was running.        *)
LEMMA MarkedRuns ==
  ASSUME Inv, NEW id \in DOMAIN loaded, loaded[id].state = "running",
         NEW state \in States, loaded' = Mark(id, state), program' = program, compiled' = compiled
  PROVE  /\ RunsOnce'
         /\ \A n \in DOMAIN modules : modules[n] # id /\ loaded'[modules[n]] = Instance(n, "done")
<1>1. TypeOK /\ Orderly' = Orderly
  BY SameFiles DEF Inv
<1>2. /\ DOMAIN loaded' = DOMAIN loaded
      /\ \A m \in DOMAIN loaded : /\ loaded'[m].name = loaded[m].name
                                  /\ m # id => loaded'[m] = loaded[m]
  BY <1>1, Marked
<1>3. RunsOnce'
  BY <1>1, <1>2 DEF Inv, RunsOnce
<1>4. ASSUME NEW n \in DOMAIN modules
      PROVE  modules[n] # id /\ loaded'[modules[n]] = Instance(n, "done")
  <2>1. modules[n] \in DOMAIN loaded /\ loaded[modules[n]] = Instance(n, "done")
    BY <1>1, <1>4 DEF Inv, CachedHaveRun, TypeOK
  <2>2. modules[n] # id
    BY <2>1 DEF Instance
  <2> QED  BY <1>2, <2>1, <2>2
<1> QED  BY <1>3, <1>4

(* The innermost activation is a module's, which is running, and no other   *)
(* activation is that module's.                                             *)
LEMMA TopRuns ==
  ASSUME Inv, stack # <<>>, Top.kind = "run"
  PROVE  /\ Top.id \in DOMAIN loaded /\ loaded[Top.id].state = "running"
         /\ Len(stack) \in Runs /\ \A i \in Runs \ {Len(stack)} : stack[i].id # Top.id
<1>1. TypeOK
  BY DEF Inv
<1>2. Len(stack) \in Runs /\ Top = stack[Len(stack)] /\ Top.id \in DOMAIN loaded
  BY <1>1, TopIsThere DEF Runs
<1> QED  BY <1>2 DEF Inv, RunsAreRunning

(* A module ends with its activation, in whatever state.                    *)
LEMMA RunLeaves ==
  ASSUME Inv, stack # <<>>, Top.kind = "run", UNCHANGED <<program, compiled>>,
         NEW state \in {"done", "failed"}, loaded' = Mark(Top.id, state), stack' = Below,
         \/ modules' = modules /\ state = "failed"
         \/ modules' = Put(NameOf(Top), Top.id) /\ state = "done",
         left' = left, raised' \in BOOLEAN,
         answer' \in [name : Names, id : {0} \cup DOMAIN loaded],
         phase' \in {"module", "main"} \cup Endings,
         phase' \in {"module", "main"} => Len(stack) > 1
  PROVE  Inv'
<1>1. TypeOK /\ Orderly' = Orderly
  BY SameFiles DEF Inv
<1>2. /\ Top.id \in DOMAIN loaded /\ loaded[Top.id].state = "running" /\ state \in States
      /\ Len(stack) \in Runs /\ \A i \in Runs \ {Len(stack)} : stack[i].id # Top.id
      /\ NameOf(Top) = loaded[Top.id].name /\ NameOf(Top) \in Names
  BY <1>1, TopRuns, TopIsThere DEF NameOf, States
<1>3. /\ loaded' \in Seq(Instances) /\ DOMAIN loaded' = DOMAIN loaded
      /\ \A m \in DOMAIN loaded : /\ loaded'[m].name = loaded[m].name
                                  /\ m # Top.id => loaded'[m] = loaded[m]
      /\ loaded'[Top.id] = Instance(NameOf(Top), state)
  BY <1>1, <1>2, Marked
<1>4. /\ RunsOnce'
      /\ \A n \in DOMAIN modules : modules[n] # Top.id /\ loaded'[modules[n]] = Instance(n, "done")
  BY <1>2, MarkedRuns
<1>5. /\ DOMAIN modules \subseteq DOMAIN modules' /\ DOMAIN modules' \subseteq Names
      /\ \A n \in DOMAIN modules' : \/ n \in DOMAIN modules /\ modules'[n] = modules[n]
                                    \/ n = NameOf(Top) /\ modules'[n] = Top.id /\ state = "done"
  BY <1>1, <1>2 DEF Put, TypeOK
<1>6. \A n \in DOMAIN modules' : modules'[n] \in DOMAIN loaded
  BY <1>1, <1>2, <1>5 DEF TypeOK
<1>7. /\ TypeOK' /\ Untouched' /\ InsideMain' /\ Descending' /\ Runs' = Runs \ {Len(stack)}
      /\ \A i \in DOMAIN stack' : i \in DOMAIN stack /\ stack'[i] = stack[i]
  BY <1>3, <1>5, <1>6, Leaves
<1>8. \A i \in Runs' : /\ i \in Runs /\ i # Len(stack) /\ stack'[i] = stack[i] /\ stack[i].id # Top.id
                       /\ stack[i].id \in DOMAIN loaded /\ loaded'[stack[i].id] = loaded[stack[i].id]
  BY <1>1, <1>2, <1>3, <1>7, Elements DEF Runs
<1>9. RunsAreRunning'
  BY <1>8 DEF Inv, RunsAreRunning
<1>10. RunningAreRun'
  <2> SUFFICES ASSUME NEW id \in DOMAIN loaded, loaded'[id].state = "running"
               PROVE  \E i \in Runs' : stack'[i].id = id
    BY <1>3 DEF RunningAreRun
  <2>1. id # Top.id /\ loaded[id].state = "running"
    BY <1>3 DEF Instance
  <2>2. PICK i \in Runs : stack[i].id = id
    BY <2>1 DEF Inv, RunningAreRun
  <2>3. i # Len(stack)
    BY <2>1, <2>2 DEF Top
  <2> QED  BY <1>7, <1>8, <2>2, <2>3
<1>11. CachedHaveRun'
  BY <1>3, <1>4, <1>5 DEF CachedHaveRun, Instance
<1>12. DoneAreCached'
  <2> SUFFICES ASSUME NEW id \in DOMAIN loaded, loaded'[id].state = "done"
               PROVE  id = 1 \/ loaded'[id].name \in DOMAIN modules'
    BY <1>3 DEF DoneAreCached
  <2>1. CASE id = Top.id
    BY <1>2, <1>3, <2>1 DEF Put, Instance
  <2>2. CASE id # Top.id
    BY <1>3, <1>5, <2>2 DEF Inv, DoneAreCached
  <2> QED  BY <2>1, <2>2
<1> QED  BY <1>4, <1>7, <1>9, <1>10, <1>11, <1>12 DEF Inv

(* The program's own module ends: only its main may run after it.           *)
LEMMA MainEnds ==
  ASSUME Inv, stack # <<>>, ProgramEnds
  PROVE  Inv'
<1>1. /\ TypeOK /\ Orderly' = Orderly /\ files' = files
      /\ UNCHANGED <<program, compiled, left, modules, answer, raised>>
      /\ loaded' = Mark(Top.id, "done") /\ Top.kind = "run" /\ Len(stack) = 1
      /\ phase' \in {"main", "failed"} /\ (phase' = "main" => stack' = <<Activation("call", Top.id)>>)
      /\ (phase' = "failed" => stack' = <<>>)
  BY SameFiles DEF Inv, ProgramEnds
<1>2. /\ Top.id \in DOMAIN loaded /\ loaded[Top.id].state = "running" /\ "done" \in States
      /\ NameOf(Top) = loaded[Top.id].name /\ NameOf(Top) \in DOMAIN files /\ Top = stack[1]
      /\ DOMAIN stack = {1} /\ Top.id = 1
  BY <1>1, TopRuns, TopIsThere, Elements DEF NameOf, States, Inv, InsideMain
<1>3. /\ loaded' \in Seq(Instances) /\ DOMAIN loaded' = DOMAIN loaded
      /\ \A m \in DOMAIN loaded : /\ loaded'[m].name = loaded[m].name
                                  /\ m # 1 => loaded'[m] = loaded[m]
      /\ loaded'[1] = Instance(NameOf(Top), "done")
  BY <1>1, <1>2, Marked
<1>4. /\ RunsOnce'
      /\ \A n \in DOMAIN modules : loaded'[modules[n]] = Instance(n, "done")
  BY <1>1, <1>2, MarkedRuns
<1>5. CachedHaveRun'
  BY <1>1, <1>4 DEF CachedHaveRun, Instance
<1>6. stack' \in {<<>>, <<Activation("call", 1)>>} /\ (phase' = "main" => stack' # <<>>)
  BY <1>1, <1>2
<1>7. /\ stack' \in Seq(ActivationsOf(DOMAIN loaded))
      /\ \A i \in DOMAIN stack' : i = 1 /\ stack'[i] = Activation("call", 1)
  <2>1. Activation("call", 1) \in ActivationsOf(DOMAIN loaded)
    BY <1>2 DEF Activation, ActivationsOf
  <2>2. ASSUME NEW S, NEW x \in S
        PROVE  /\ <<x>> \in Seq(S) /\ <<>> \in Seq(S)
               /\ DOMAIN <<x>> = {1} /\ <<x>>[1] = x /\ DOMAIN <<>> = {}
    OBVIOUS
  <2>3. CASE stack' = <<>>
    BY <2>1, <2>2, <2>3
  <2>4. CASE stack' = <<Activation("call", 1)>>
    BY <2>1, <2>2, <2>4
  <2> QED  BY <1>6, <2>3, <2>4
<1>8. \A i \in DOMAIN stack' : /\ i = 1 /\ stack'[i].id = 1 /\ stack'[i].kind = "call"
                               /\ NameOf(stack[i])' = NameOf(Top)
  BY <1>2, <1>3, <1>7 DEF NameOf, Activation
<1>9. TypeOK'
  <2>1. \A i \in DOMAIN stack' : NameOf(stack[i])' \in DOMAIN files'
    BY <1>1, <1>2, <1>8
  <2>2. phase' \in {"start", "module", "main"} \cup Endings' /\ (phase' \in {"module", "main"} => stack' # <<>>)
    BY <1>1, <1>6 DEF Endings
  <2> QED  BY <1>1, <1>3, <1>7, <2>1, <2>2 DEF TypeOK
<1>10. Untouched' /\ InsideMain'
  <2>1. stack' # <<>> => 1 \in DOMAIN stack'
    BY <1>6
  <2> QED  BY <1>1, <1>8, <2>1 DEF Untouched, InsideMain
<1>11. Runs' = {}
  BY <1>8 DEF Runs
<1>12. RunsAreRunning'
  BY <1>11 DEF RunsAreRunning
<1>13. RunningAreRun'
  <2> SUFFICES ASSUME NEW id \in DOMAIN loaded, loaded'[id].state = "running" PROVE FALSE
    BY <1>3 DEF RunningAreRun
  <2>1. id # 1 /\ loaded[id].state = "running"
    BY <1>3 DEF Instance
  <2>2. PICK i \in Runs : stack[i].id = id
    BY <2>1 DEF Inv, RunningAreRun
  <2> QED  BY <1>2, <2>1, <2>2 DEF Runs
<1>14. DoneAreCached'
  BY <1>1, <1>3 DEF Inv, DoneAreCached
<1>15. Descending'
  BY <1>8 DEF Descending
<1> QED  BY <1>4, <1>5, <1>9, <1>10, <1>12, <1>13, <1>14, <1>15 DEF Inv

-----------------------------------------------------------------------------
(* A module more, of a name that is not in the cache.  Modules of that name *)
(* before it have failed: none of them can have run, and none is running,   *)
(* because what is running was called by something that ranks no lower.     *)
LEMMA NamesakesFailed ==
  ASSUME Inv, stack # <<>>, Orderly, NEW name \in Names \ DOMAIN modules,
         name \in MentionedBy(NameOf(Top)),
         NEW id \in DOMAIN loaded, loaded[id].name = name
  PROVE  loaded[id].state = "failed"
<1>1. TypeOK /\ loaded[id].state \in {"running", "done", "failed"}
  BY Elements DEF Inv, Instances, States
<1>2. /\ NameOf(Top) \in DOMAIN files /\ Len(stack) \in DOMAIN stack /\ 1 \in DOMAIN stack
      /\ NameOf(Top) \in Names
  BY <1>1, TopIsThere
<1>3. \A i \in DOMAIN stack : NameOf(stack[i]) # name
  <2> SUFFICES ASSUME NEW i \in DOMAIN stack, NameOf(stack[i]) = name PROVE FALSE
    OBVIOUS
  <2>1. name \in DOMAIN files
    BY <1>1, Elements
  <2>2. Rank[name] < Rank[NameOf(Top)]
    BY <1>2, <2>1 DEF Orderly, Layered, MentionedBy
  <2>3. Rank[NameOf(Top)] <= Rank[name] /\ Rank[name] \in Nat /\ Rank[NameOf(Top)] \in Nat
    BY <1>1, TopIsLowest DEF Inv, RankAt
  <2> QED  BY <2>2, <2>3
<1>4. loaded[id].state # "running"
  <2>1. ASSUME loaded[id].state = "running" PROVE FALSE
    <3>1. PICK i \in Runs : stack[i].id = id
      BY <2>1 DEF Inv, RunningAreRun
    <3> QED  BY <1>3, <3>1 DEF Runs, NameOf
  <2> QED  BY <2>1
<1>5. loaded[id].state # "done"
  <2>1. ASSUME loaded[id].state = "done" PROVE FALSE
    <3>1. id = 1
      BY <2>1 DEF Inv, DoneAreCached
    <3>2. stack[1].id = 1
      BY DEF Inv, InsideMain
    <3> QED  BY <1>2, <1>3, <3>1, <3>2 DEF NameOf
  <2> QED  BY <2>1
<1> QED  BY <1>1, <1>4, <1>5

(* It does not disturb the modules there were.                              *)
LEMMA Joins ==
  ASSUME Inv, stack # <<>>, program' = program, compiled' = compiled,
         NEW name \in Names \ DOMAIN modules, name \in MentionedBy(NameOf(Top)),
         NEW state \in States, loaded' = Append(loaded, Instance(name, state))
  PROVE  /\ loaded' \in Seq(Instances) /\ Len(loaded) + 1 \notin DOMAIN loaded
         /\ DOMAIN loaded' = DOMAIN loaded \cup {Len(loaded) + 1}
         /\ loaded'[Len(loaded) + 1] = Instance(name, state)
         /\ \A id \in DOMAIN loaded : loaded'[id] = loaded[id]
         /\ \A n \in DOMAIN modules :
              modules[n] \in DOMAIN loaded /\ loaded'[modules[n]] = Instance(n, "done")
         /\ RunsOnce'
<1>1. TypeOK /\ Orderly' = Orderly /\ Instance(name, state) \in Instances
  BY SameFiles DEF Inv, Instance, Instances
<1>2. /\ loaded' \in Seq(Instances) /\ Len(loaded) + 1 \notin DOMAIN loaded
      /\ DOMAIN loaded' = DOMAIN loaded \cup {Len(loaded) + 1}
      /\ loaded'[Len(loaded) + 1] = Instance(name, state)
      /\ \A id \in DOMAIN loaded : loaded'[id] = loaded[id]
  BY <1>1, OneMore
<1>3. \A n \in DOMAIN modules :
        modules[n] \in DOMAIN loaded /\ loaded'[modules[n]] = Instance(n, "done")
  BY <1>1, <1>2 DEF Inv, CachedHaveRun, TypeOK
<1>4. RunsOnce'
  <2> SUFFICES ASSUME Orderly, NEW i \in DOMAIN loaded', NEW j \in DOMAIN loaded',
                      i # j, loaded'[i].name = loaded'[j].name
               PROVE  "failed" \in {loaded'[i].state, loaded'[j].state}
    BY <1>1 DEF RunsOnce
  <2>1. loaded'[Len(loaded) + 1].name = name
    BY <1>2 DEF Instance
  <2>2. CASE i \in DOMAIN loaded /\ j \in DOMAIN loaded
    BY <1>2, <2>2 DEF Inv, RunsOnce
  <2>3. CASE i = Len(loaded) + 1
    <3>1. j \in DOMAIN loaded /\ loaded[j].name = name
      BY <1>2, <2>1, <2>3
    <3> QED  BY <1>2, <3>1, NamesakesFailed
  <2>4. CASE j = Len(loaded) + 1
    <3>1. i \in DOMAIN loaded /\ loaded[i].name = name
      BY <1>2, <2>1, <2>4
    <3> QED  BY <1>2, <3>1, NamesakesFailed
  <2> QED  BY <1>2, <2>2, <2>3, <2>4
<1> QED  BY <1>2, <1>3, <1>4

(* The code of a file begins to run.                                        *)
LEMMA Begins ==
  ASSUME Inv, stack # <<>>, phase \in {"module", "main"},
         NEW name \in DOMAIN files \ DOMAIN modules, name \in MentionedBy(NameOf(Top)), Begin(name),
         UNCHANGED <<program, compiled, raised, answer, phase>>, left' \in 0..program.steps
  PROVE  Inv'
<1> DEFINE new == Len(loaded) + 1
           run == Activation("run", new)
<1>1. /\ TypeOK /\ Orderly' = Orderly /\ files' = files /\ name \in Names /\ modules' = modules
      /\ loaded' = Append(loaded, Instance(name, "running")) /\ stack' = Append(stack, run)
  BY SameFiles DEF Inv, TypeOK, Begin
<1>2. /\ loaded' \in Seq(Instances) /\ new \notin DOMAIN loaded
      /\ DOMAIN loaded' = DOMAIN loaded \cup {new} /\ loaded'[new] = Instance(name, "running")
      /\ \A id \in DOMAIN loaded : loaded'[id] = loaded[id]
      /\ \A n \in DOMAIN modules :
           modules[n] \in DOMAIN loaded /\ loaded'[modules[n]] = Instance(n, "done")
      /\ RunsOnce'
  BY <1>1, Joins DEF States
<1>3. run \in ActivationsOf(DOMAIN loaded') /\ run.id = new /\ run.kind = "run"
  BY <1>2 DEF Activation, ActivationsOf
<1>4. stack \in Seq(ActivationsOf(DOMAIN loaded'))
  <2>1. ActivationsOf(DOMAIN loaded) \subseteq ActivationsOf(DOMAIN loaded')
    BY <1>2 DEF ActivationsOf
  <2>2. ASSUME NEW S, NEW T, S \subseteq T, NEW s \in Seq(S) PROVE s \in Seq(T)
    BY <2>2
  <2>3. stack \in Seq(ActivationsOf(DOMAIN loaded))
    BY <1>1 DEF TypeOK
  <2> QED  BY <2>1, <2>2, <2>3
<1>5. /\ stack' \in Seq(ActivationsOf(DOMAIN loaded')) /\ stack' # <<>>
      /\ DOMAIN stack' = DOMAIN stack \cup {Len(stack) + 1} /\ Len(stack) + 1 \notin DOMAIN stack
      /\ stack'[Len(stack) + 1] = run
      /\ \A i \in DOMAIN stack : stack'[i] = stack[i]
  BY <1>1, <1>3, <1>4
<1>6. \A i \in DOMAIN stack : /\ stack[i].id \in DOMAIN loaded /\ stack[i].id # new
                              /\ NameOf(stack[i])' = NameOf(stack[i])
  BY <1>1, <1>2, <1>5, Elements DEF NameOf
<1>7. TypeOK'
  <2>1. \A i \in DOMAIN stack' : NameOf(stack[i])' \in DOMAIN files'
    <3> SUFFICES ASSUME NEW i \in DOMAIN stack' PROVE NameOf(stack[i])' \in DOMAIN files'
      OBVIOUS
    <3>1. CASE i \in DOMAIN stack
      BY <1>1, <1>6, <3>1, Elements
    <3>2. CASE i = Len(stack) + 1
      BY <1>1, <1>2, <1>3, <1>5, <3>2 DEF NameOf, Instance
    <3> QED  BY <1>5, <3>1, <3>2
  <2>2. answer' \in [name : Names, id : {0} \cup DOMAIN loaded']
    BY <1>1, <1>2 DEF TypeOK
  <2>3. \A n \in DOMAIN modules' : modules'[n] \in DOMAIN loaded'
    BY <1>1, <1>2
  <2> QED  BY <1>1, <1>2, <1>5, <2>1, <2>2, <2>3 DEF TypeOK
<1>8. Untouched' /\ InsideMain'
  BY <1>1, <1>5, TopIsThere DEF Inv, Untouched, InsideMain
<1>9. Runs' = Runs \cup {Len(stack) + 1}
  BY <1>3, <1>5 DEF Runs
<1>10. RunsAreRunning'
  <2>1. \A i \in Runs : /\ stack'[i] = stack[i] /\ i # Len(stack) + 1 /\ stack[i].id # new
                        /\ loaded'[stack[i].id] = loaded[stack[i].id]
    BY <1>2, <1>5, <1>6 DEF Runs
  <2>2. loaded'[new].state = "running"
    BY <1>2 DEF Instance
  <2> QED  BY <1>3, <1>5, <1>9, <2>1, <2>2 DEF Inv, RunsAreRunning
<1>11. RunningAreRun'
  <2> SUFFICES ASSUME NEW id \in DOMAIN loaded', loaded'[id].state = "running"
               PROVE  \E i \in Runs' : stack'[i].id = id
    BY DEF RunningAreRun
  <2>1. CASE id = new
    BY <1>3, <1>5, <1>9, <2>1
  <2>2. CASE id \in DOMAIN loaded
    <3>1. PICK i \in Runs : stack[i].id = id
      BY <1>2, <2>2 DEF Inv, RunningAreRun
    <3> QED  BY <1>5, <1>9, <3>1 DEF Runs
  <2> QED  BY <1>2, <2>1, <2>2
<1>12. DoneAreCached' /\ CachedHaveRun'
  BY <1>1, <1>2 DEF Inv, DoneAreCached, CachedHaveRun, Instance
<1>13. Descending'
  <2> SUFFICES ASSUME Orderly, NEW i \in DOMAIN stack', NEW j \in DOMAIN stack', i < j
               PROVE  RankAt(j)' <= RankAt(i)'
    BY <1>1 DEF Descending
  <2>1. \A k \in DOMAIN stack : RankAt(k)' = RankAt(k)
    BY <1>6 DEF RankAt
  <2>2. CASE j \in DOMAIN stack
    <3>1. i \in DOMAIN stack
      BY <1>1, <1>5, <2>2, Elements
    <3> QED  BY <2>1, <2>2, <3>1 DEF Inv, Descending
  <2>3. CASE j = Len(stack) + 1
    <3>1. i \in DOMAIN stack
      BY <1>1, <1>5, <2>3, Elements
    <3>2. RankAt(j)' = Rank[name] /\ Rank[name] \in Nat
      BY <1>1, <1>2, <1>3, <1>5, <2>3, BoundsAssumption
      DEF RankAt, NameOf, Instance, BoundsAssumption
    <3>3. RankAt(i)' = RankAt(i) /\ RankAt(i) \in Nat /\ Rank[NameOf(Top)] \in Nat
          /\ Rank[NameOf(Top)] <= RankAt(i)
      BY <1>1, <2>1, <3>1, TopIsLowest DEF Inv
    <3>4. Rank[name] < Rank[NameOf(Top)]
      BY <1>1, TopIsThere DEF Orderly, Layered, MentionedBy
    <3> QED  BY <3>2, <3>3, <3>4
  <2> QED  BY <1>5, <2>2, <2>3
<1> QED  BY <1>2, <1>7, <1>8, <1>10, <1>11, <1>12, <1>13 DEF Inv

(* A built-in module is made, and is ready at once.                         *)
LEMMA BuiltinJoins ==
  ASSUME Inv, stack # <<>>, phase \in {"module", "main"},
         NEW name \in Names \ DOMAIN modules, name \in MentionedBy(NameOf(Top)),
         loaded' = Append(loaded, Instance(name, "done")), Keep(name),
         answer' = Answered(name, Len(loaded) + 1),
         UNCHANGED <<program, compiled, stack, raised, phase>>, left' \in 0..program.steps
  PROVE  Inv'
<1> DEFINE new == Len(loaded) + 1
<1>1. TypeOK /\ Orderly' = Orderly /\ files' = files
  BY SameFiles DEF Inv
<1>2. /\ loaded' \in Seq(Instances) /\ new \notin DOMAIN loaded
      /\ DOMAIN loaded' = DOMAIN loaded \cup {new} /\ loaded'[new] = Instance(name, "done")
      /\ \A id \in DOMAIN loaded : loaded'[id] = loaded[id]
      /\ \A n \in DOMAIN modules :
           modules[n] \in DOMAIN loaded /\ loaded'[modules[n]] = Instance(n, "done")
      /\ RunsOnce'
  BY Joins DEF States
<1>3. /\ DOMAIN modules' = DOMAIN modules \cup {name} /\ modules'[name] = new
      /\ \A n \in DOMAIN modules : modules'[n] = modules[n]
  BY DEF Keep, Put
<1>4. stack' \in Seq(ActivationsOf(DOMAIN loaded'))
  <2>1. ActivationsOf(DOMAIN loaded) \subseteq ActivationsOf(DOMAIN loaded')
    BY <1>2 DEF ActivationsOf
  <2>2. ASSUME NEW S, NEW T, S \subseteq T, NEW s \in Seq(S) PROVE s \in Seq(T)
    BY <2>2
  <2>3. stack' \in Seq(ActivationsOf(DOMAIN loaded))
    BY <1>1 DEF TypeOK
  <2> QED  BY <2>1, <2>2, <2>3
<1>5. \A i \in DOMAIN stack : /\ stack[i].id \in DOMAIN loaded /\ stack[i].id # new
                              /\ NameOf(stack[i])' = NameOf(stack[i])
  BY <1>1, <1>2, Elements DEF NameOf
<1>6. TypeOK'
  <2>1. \A i \in DOMAIN stack' : NameOf(stack[i])' \in DOMAIN files'
    BY <1>1, <1>5, Elements
  <2>2. answer' \in [name : Names, id : {0} \cup DOMAIN loaded']
    BY <1>2 DEF Answered
  <2>3. DOMAIN modules' \subseteq Names /\ \A n \in DOMAIN modules' : modules'[n] \in DOMAIN loaded'
    BY <1>1, <1>2, <1>3 DEF TypeOK
  <2> QED  BY <1>1, <1>2, <1>4, <2>1, <2>2, <2>3 DEF TypeOK
<1>7. Untouched' /\ InsideMain'
  BY DEF Inv, Untouched, InsideMain
<1>8. Runs' = Runs /\ \A i \in Runs : loaded'[stack[i].id] = loaded[stack[i].id]
  BY <1>2, <1>5 DEF Runs
<1>9. RunsAreRunning' /\ RunningAreRun'
  <2>1. RunsAreRunning'
    BY <1>8 DEF Inv, RunsAreRunning
  <2>2. ASSUME NEW id \in DOMAIN loaded', loaded'[id].state = "running"
        PROVE  \E i \in Runs' : stack'[i].id = id
    <3>1. id \in DOMAIN loaded /\ loaded[id].state = "running"
      BY <1>2, <2>2 DEF Instance
    <3> QED  BY <1>8, <3>1 DEF Inv, RunningAreRun
  <2> QED  BY <2>1, <2>2 DEF RunningAreRun
<1>10. DoneAreCached' /\ CachedHaveRun'
  BY <1>2, <1>3 DEF Inv, DoneAreCached, CachedHaveRun, Instance
<1>11. Descending'
  BY <1>1, <1>5 DEF Inv, Descending, RankAt
<1> QED  BY <1>2, <1>6, <1>7, <1>9, <1>10, <1>11 DEF Inv

-----------------------------------------------------------------------------
(* The first states, and the beginning.                                     *)
LEMMA InitInv ==
  ASSUME Init
  PROVE  Inv
<1>1. PICK kind \in Programs : program \in kind
  BY DEF Init
<1>2. /\ DOMAIN files \subseteq Names /\ Main \in DOMAIN files /\ Main \in Names
      /\ program.steps \in Nat /\ left = program.steps /\ DOMAIN compiled = DOMAIN files
      /\ modules = <<>> /\ loaded = <<>> /\ stack = <<>> /\ raised = FALSE
      /\ answer = NoAnswer /\ phase = "start"
  BY <1>1, ProgramsAssumption, NamesAssumption
  DEF Init, ProgramsAssumption, NamesAssumption, files
<1>3. /\ DOMAIN modules = {} /\ DOMAIN loaded = {} /\ DOMAIN stack = {} /\ Runs = {}
      /\ \A S : <<>> \in Seq(S)
  BY <1>2 DEF Runs
<1>4. NoAnswer \in [name : Names, id : {0} \cup DOMAIN loaded]
  BY <1>2 DEF NoAnswer
<1>5. TypeOK
  <2>1. left \in 0..program.steps
    BY <1>2
  <2>2. answer \in [name : Names, id : {0} \cup DOMAIN loaded]
    BY <1>2, <1>4
  <2>3. loaded \in Seq(Instances) /\ stack \in Seq(ActivationsOf(DOMAIN loaded))
    BY <1>2, <1>3
  <2> QED  BY <1>2, <1>3, <2>1, <2>2, <2>3 DEF TypeOK
<1>6. Untouched /\ InsideMain /\ RunsAreRunning /\ RunningAreRun
  BY <1>2, <1>3 DEF Untouched, InsideMain, RunsAreRunning, RunningAreRun
<1>7. DoneAreCached /\ Descending /\ CachedHaveRun /\ RunsOnce
  BY <1>3 DEF DoneAreCached, Descending, CachedHaveRun, RunsOnce
<1> QED  BY <1>5, <1>6, <1>7 DEF Inv

LEMMA StartInv ==
  ASSUME Inv, Start
  PROVE  Inv'
<1>1. /\ TypeOK /\ Orderly' = Orderly /\ files' = files /\ Main \in Names /\ Main \in DOMAIN files
      /\ loaded = <<>> /\ stack = <<>> /\ modules = <<>> /\ answer = NoAnswer /\ phase = "start"
      /\ UNCHANGED <<program, compiled, left, raised, modules, answer>>
  BY SameFiles DEF Inv, TypeOK, Untouched, Start, Stop
<1>2. CASE loaded' = loaded /\ stack' = stack /\ phase' \in Endings
  BY <1>1, <1>2, Stays DEF TypeOK, Endings
<1>3. CASE /\ loaded' = <<Instance(Main, "running")>> /\ stack' = <<Activation("run", 1)>>
           /\ phase' = "module"
  <2>1. ASSUME NEW S, NEW x \in S
        PROVE  <<x>> \in Seq(S) /\ DOMAIN <<x>> = {1} /\ <<x>>[1] = x /\ <<x>> # <<>>
    OBVIOUS
  <2>2. Instance(Main, "running") \in Instances
    BY <1>1 DEF Instance, Instances, States
  <2>3. loaded' \in Seq(Instances) /\ DOMAIN loaded' = {1} /\ loaded'[1] = Instance(Main, "running")
    BY <1>3, <2>1, <2>2
  <2>4. Activation("run", 1) \in ActivationsOf(DOMAIN loaded')
    BY <2>3 DEF Activation, ActivationsOf
  <2>5. /\ stack' \in Seq(ActivationsOf(DOMAIN loaded')) /\ DOMAIN stack' = {1} /\ stack' # <<>>
        /\ stack'[1].id = 1 /\ stack'[1].kind = "run"
    BY <1>3, <2>1, <2>4 DEF Activation
  <2>6. loaded'[1].name = Main /\ loaded'[1].state = "running"
    BY <2>3 DEF Instance
  <2>7. DOMAIN modules' = {} /\ DOMAIN loaded = {}
    BY <1>1
  <2>8. answer' \in [name : Names, id : {0} \cup DOMAIN loaded']
    BY <1>1 DEF NoAnswer
  <2>9. \A i \in DOMAIN stack' : NameOf(stack[i])' \in DOMAIN files'
    BY <1>1, <2>5, <2>6 DEF NameOf
  <2>10. TypeOK'
    BY <1>1, <1>3, <2>3, <2>5, <2>7, <2>8, <2>9 DEF TypeOK
  <2>11. Runs' = {1}
    BY <2>5 DEF Runs
  <2>12. Untouched' /\ InsideMain' /\ RunsAreRunning' /\ RunningAreRun'
    BY <1>3, <2>3, <2>5, <2>6, <2>11 DEF Untouched, InsideMain, RunsAreRunning, RunningAreRun
  <2>13. DoneAreCached' /\ Descending' /\ CachedHaveRun' /\ RunsOnce'
    BY <2>3, <2>5, <2>6, <2>7 DEF DoneAreCached, Descending, CachedHaveRun, RunsOnce
  <2> QED  BY <2>10, <2>12, <2>13 DEF Inv
<1> QED  BY <1>2, <1>3 DEF Start, Stop, Endings

(* What a step of the program leaves of its count.                          *)
LEMMA Counted ==
  ASSUME TypeOK, Step
  PROVE  /\ left' \in 0..program.steps /\ stack # <<>> /\ ~raised
         /\ phase \in {"module", "main"}
<1>1. program.steps \in Nat /\ left \in 0..program.steps
  BY DEF TypeOK
<1>2. left > 0 /\ left' = left - 1
  BY DEF Step
<1>3. left' \in 0..program.steps
  BY <1>1, <1>2
<1> QED  BY <1>3 DEF Step, Running

-----------------------------------------------------------------------------
(* Every action is one of these steps.                                      *)
LEMMA EnterInv ==
  ASSUME Inv, Step, NEW kind \in {"call", "guard"}, NEW id \in DOMAIN loaded,
         loaded[id].name \in DOMAIN files,
         Orderly => Rank[loaded[id].name] <= Rank[NameOf(Top)],
         Enter(Activation(kind, id)), UNCHANGED <<program, compiled, loaded, raised>>
  PROVE  Inv'
<1>1. TypeOK /\ left' \in 0..program.steps /\ stack # <<>> /\ phase \in {"module", "main"}
  BY Counted DEF Inv
<1>2. CASE /\ stack' = Append(stack, Activation(kind, id))
           /\ UNCHANGED <<modules, answer, phase>>
  BY <1>1, <1>2, Calls
<1>3. CASE phase' = "crashed" /\ UNCHANGED <<modules, stack, answer>>
  BY <1>1, <1>3, Stays DEF TypeOK, Endings
<1> QED  BY <1>2, <1>3 DEF Enter, Stop

LEMMA GuardInv ==
  ASSUME Inv, Guard
  PROVE  Inv'
<1>1. /\ Step /\ Enter(Activation("guard", Top.id)) /\ UNCHANGED <<program, compiled, loaded, raised>>
      /\ TypeOK /\ stack # <<>>
  BY Counted DEF Guard, Inv
<1>2. /\ Top.id \in DOMAIN loaded /\ loaded[Top.id].name \in DOMAIN files
      /\ NameOf(Top) = loaded[Top.id].name /\ Rank[loaded[Top.id].name] \in Nat
  BY <1>1, TopIsThere, Ranked DEF NameOf
<1>3. Rank[loaded[Top.id].name] <= Rank[NameOf(Top)]
  BY <1>2
<1> QED  BY <1>1, <1>2, <1>3, EnterInv

LEMMA CallFunctionInv ==
  ASSUME Inv, CallFunction
  PROVE  Inv'
<1>1. PICK id \in DOMAIN loaded : /\ loaded[id].name \in DOMAIN files /\ MayCall(id)
                                  /\ Enter(Activation("call", id))
  BY DEF CallFunction
<1>2. Step /\ UNCHANGED <<program, compiled, loaded, raised>> /\ TypeOK /\ stack # <<>>
  BY Counted DEF CallFunction, Inv
<1>3. ASSUME Orderly PROVE Rank[loaded[id].name] <= Rank[NameOf(Top)]
  <2>1. /\ Rank[loaded[id].name] \in Nat /\ Rank[NameOf(Top)] \in Nat
        /\ NameOf(Top) \in DOMAIN files
    BY <1>2, TopIsThere, Ranked DEF NameOf
  <2>2. CASE id = Top.id
    BY <2>1, <2>2 DEF NameOf
  <2>3. CASE loaded[id].name \in MentionedBy(NameOf(Top))
    <3>1. Rank[loaded[id].name] < Rank[NameOf(Top)]
      BY <1>1, <1>3, <2>1, <2>3 DEF Orderly, Layered, MentionedBy
    <3> QED  BY <2>1, <3>1
  <2> QED  BY <1>1, <1>3, <2>2, <2>3 DEF MayCall, Orderly
<1> QED  BY <1>1, <1>2, <1>3, EnterInv

LEMMA RunningInv ==
  ASSUME Inv, ModuleEnds \/ ProgramEnds \/ CallEnds
  PROVE  Inv'
<1>1. TypeOK /\ stack # <<>> /\ phase \in {"module", "main"}
  BY DEF Inv, ModuleEnds, ProgramEnds, CallEnds, Running
<1>2. Len(stack) # 1 => Len(stack) > 1
  BY <1>1, OneOrMore
<1>3. CASE ModuleEnds
  <2>1. answer' \in [name : Names, id : {0} \cup DOMAIN loaded]
    BY <1>1, <1>3, TopIsThere DEF ModuleEnds, Answered
  <2> QED  BY <1>1, <1>3, <2>1, RunLeaves DEF ModuleEnds, TypeOK, Endings
<1>4. CASE ProgramEnds
  BY <1>1, <1>4, MainEnds
<1>5. CASE CallEnds
  <2>1. /\ phase' \in {"module", "main"} \cup Endings
        /\ phase' \in {"module", "main"} => Len(stack) > 1
    <3>1. CASE Len(stack) = 1
      BY <1>5, <3>1 DEF CallEnds, AfterCall, Endings
    <3>2. CASE Len(stack) # 1
      BY <1>1, <1>5, <1>2, <3>2 DEF CallEnds, AfterCall
    <3> QED  BY <3>1, <3>2
  <2> QED  BY <1>1, <1>5, <2>1, CallLeaves DEF CallEnds, TypeOK
<1> QED  BY <1>3, <1>4, <1>5

LEMMA UnwindInv ==
  ASSUME Inv, Unwind
  PROVE  Inv'
<1>1. /\ TypeOK /\ raised /\ phase \notin Endings /\ phase # "start"
      /\ UNCHANGED <<program, compiled, left, modules, answer>>
  BY DEF Unwind, Inv, Untouched, Ended
<1>2. phase \in {"module", "main"} /\ stack # <<>>
  BY <1>1 DEF TypeOK
<1>3. (Len(stack) # 1 => Len(stack) > 1) /\ Top.kind \in {"run", "call", "guard"}
  BY <1>1, <1>2, TopIsThere, OneOrMore
<1>4. CASE Top.kind = "guard"
  <2>1. /\ stack' = [stack EXCEPT ![Len(stack)].kind = "call"] /\ raised' = FALSE
        /\ UNCHANGED <<loaded, phase>>
    BY <1>4 DEF Unwind
  <2> QED  BY <1>1, <1>2, <1>4, <2>1, Handles
<1>5. CASE Top.kind # "guard"
  <2>1. /\ stack' = Below /\ raised' = raised
        /\ loaded' = IF Top.kind = "run" THEN Mark(Top.id, "failed") ELSE loaded
        /\ phase' = IF Len(stack) = 1 THEN "failed" ELSE phase
    BY <1>5 DEF Unwind, Popped
  <2>2. /\ phase' \in {"module", "main"} \cup Endings /\ raised' \in BOOLEAN
        /\ phase' \in {"module", "main"} => Len(stack) > 1
        /\ answer' \in [name : Names, id : {0} \cup DOMAIN loaded]
    <3>1. raised' \in BOOLEAN /\ answer' \in [name : Names, id : {0} \cup DOMAIN loaded]
      BY <1>1, <2>1 DEF TypeOK
    <3>2. CASE Len(stack) = 1
      BY <2>1, <3>1, <3>2 DEF Endings
    <3>3. CASE Len(stack) # 1
      BY <1>2, <1>3, <2>1, <3>1, <3>3
    <3> QED  BY <3>2, <3>3
  <2>3. CASE Top.kind = "run"
    BY <1>1, <1>2, <2>1, <2>2, <2>3, RunLeaves
  <2>4. CASE Top.kind # "run"
    BY <1>1, <1>2, <2>1, <2>2, <2>4, CallLeaves
  <2> QED  BY <2>3, <2>4
<1> QED  BY <1>4, <1>5

LEMMA RaiseInv ==
  ASSUME Inv, Raise \/ ImportCached \/ ImportMissing
  PROVE  Inv'
<1>1. TypeOK /\ Step
  BY DEF Inv, Raise, ImportCached, ImportMissing, Asks
<1>2. /\ left' \in 0..program.steps /\ phase \in {"module", "main"}
      /\ UNCHANGED <<program, compiled, modules, loaded, stack, phase>> /\ raised' \in BOOLEAN
  BY <1>1, Counted DEF Raise, ImportCached, ImportMissing, TypeOK
<1>3. answer' \in [name : Names, id : {0} \cup DOMAIN loaded]
  <2>1. CASE Raise \/ ImportMissing
    BY <1>1, <2>1 DEF TypeOK, Raise, ImportMissing
  <2>2. CASE ImportCached
    <3>1. PICK name \in DOMAIN modules : answer' = Answered(name, modules[name])
      BY <2>2 DEF ImportCached
    <3> QED  BY <1>1, <3>1 DEF TypeOK, Answered
  <2> QED  BY <2>1, <2>2
<1> QED  BY <1>2, <1>3, Stays

LEMMA ImportFileInv ==
  ASSUME Inv, ImportFile
  PROVE  Inv'
<1>1. PICK name \in DOMAIN files \ DOMAIN modules :
        /\ Asks(name) /\ UNCHANGED <<program, compiled>>
        /\ \/ Begin(name) /\ UNCHANGED <<raised, answer, phase>>
           \/ raised' = TRUE /\ UNCHANGED <<modules, loaded, stack, answer, phase>>
           \/ Stop("crashed") /\ UNCHANGED <<loaded, raised>>
  BY DEF ImportFile
<1>2. /\ TypeOK /\ Step /\ left' \in 0..program.steps /\ stack # <<>>
      /\ phase \in {"module", "main"} /\ name \in MentionedBy(NameOf(Top))
  BY <1>1, Counted DEF Inv, Asks
<1>3. CASE Begin(name) /\ UNCHANGED <<raised, answer, phase>>
  BY <1>1, <1>2, <1>3, Begins
<1>4. CASE raised' = TRUE /\ UNCHANGED <<modules, loaded, stack, answer, phase>>
  BY <1>1, <1>2, <1>4, Stays DEF TypeOK
<1>5. CASE Stop("crashed") /\ UNCHANGED <<loaded, raised>>
  BY <1>1, <1>2, <1>5, Stays DEF TypeOK, Stop, Endings
<1> QED  BY <1>1, <1>3, <1>4, <1>5

LEMMA ImportBuiltinInv ==
  ASSUME Inv, ImportBuiltin
  PROVE  Inv'
<1>1. PICK name \in Builtins \ (DOMAIN modules \cup DOMAIN files) :
        /\ Asks(name) /\ loaded' = Append(loaded, Instance(name, "done")) /\ Keep(name)
        /\ answer' = Answered(name, Len(loaded) + 1)
  BY DEF ImportBuiltin
<1>2. /\ TypeOK /\ Step /\ left' \in 0..program.steps /\ stack # <<>>
      /\ phase \in {"module", "main"} /\ name \in MentionedBy(NameOf(Top))
      /\ UNCHANGED <<program, compiled, stack, raised, phase>> /\ name \in Names \ DOMAIN modules
  BY <1>1, Counted, NamesAssumption DEF Inv, Asks, ImportBuiltin, NamesAssumption
<1> QED  BY <1>1, <1>2, BuiltinJoins

-----------------------------------------------------------------------------
(* Steps that change nothing.                                               *)
LEMMA StutterInv ==
  ASSUME Inv, UNCHANGED vars
  PROVE  Inv'
<1>1. files' = files /\ Orderly' = Orderly /\ Runs' = Runs
  BY SameFiles DEF vars, Runs
<1>2. TypeOK'
  BY <1>1 DEF vars, Inv, TypeOK, NameOf
<1>3. Untouched' /\ InsideMain' /\ RunsAreRunning' /\ RunningAreRun'
  BY <1>1 DEF vars, Inv, Untouched, InsideMain, RunsAreRunning, RunningAreRun
<1>4. DoneAreCached' /\ CachedHaveRun'
  BY DEF vars, Inv, DoneAreCached, CachedHaveRun
<1>5. Descending' /\ RunsOnce'
  BY <1>1 DEF vars, Inv, Descending, RankAt, NameOf, RunsOnce
<1> QED  BY <1>2, <1>3, <1>4, <1>5 DEF Inv

(* Inv is inductive.                                                        *)
LEMMA NextInv ==
  ASSUME Inv, [Next]_vars
  PROVE  Inv'
<1>1. CASE Start  BY <1>1, StartInv
<1>2. CASE ModuleEnds \/ ProgramEnds \/ CallEnds  BY <1>2, RunningInv
<1>3. CASE Guard  BY <1>3, GuardInv
<1>4. CASE CallFunction  BY <1>4, CallFunctionInv
<1>5. CASE Raise \/ ImportCached \/ ImportMissing  BY <1>5, RaiseInv
<1>6. CASE Unwind  BY <1>6, UnwindInv
<1>7. CASE ImportFile  BY <1>7, ImportFileInv
<1>8. CASE ImportBuiltin  BY <1>8, ImportBuiltinInv
<1>9. CASE UNCHANGED vars  BY <1>9, StutterInv
<1> QED  BY <1>1, <1>2, <1>3, <1>4, <1>5, <1>6, <1>7, <1>8, <1>9 DEF Next

(* Every part of Inv holds of every program, however its files import each  *)
(* other (execFunc and libImport).                                          *)
THEOREM ImportInvariance == Spec => []Inv
<1>1. Init => Inv
  BY InitInv
<1>2. Inv /\ [Next]_vars => Inv'
  BY NextInv
<1> QED  BY <1>1, <1>2, PTL DEF Spec

(* The variables keep their types: what is on the C++ stack and in          *)
(* runtime->modules belongs to modules there are.                           *)
THEOREM ImportTypes == Spec => []TypeOK
<1>1. Inv => TypeOK
  BY DEF Inv
<1> QED  BY <1>1, ImportInvariance, PTL

(* The cache never hands out a module that has not run to its end           *)
(* (lib.cpp:316), also when modules import themselves.                      *)
THEOREM CacheAlwaysHasRun == Spec => []CachedHaveRun
<1>1. Inv => CachedHaveRun
  BY DEF Inv
<1> QED  BY <1>1, ImportInvariance, PTL

(* Where no file imports itself by whatever way, and functions stay with    *)
(* modules that import their own, a file runs again only if it failed.      *)
THEOREM FilesRunOnce == Spec => []RunsOnce
<1>1. Inv => RunsOnce
  BY DEF Inv
<1> QED  BY <1>1, ImportInvariance, PTL

-----------------------------------------------------------------------------
(* A name that import answers for the first time gets a module that no      *)
(* other name stands for.                                                   *)
LEMMA AnswersFirst ==
  ASSUME Inv, Inv', Orderly, Orderly', NEW name \in Names, NEW id \in Nat,
         name \notin DOMAIN modules, \A n \in DOMAIN modules : modules[n] # id,
         modules' = Put(name, id), answer' = Answered(name, id)
  PROVE  registry!Next
<1>1. answer'.name = name /\ answer' = [name |-> name, id |-> id]
  BY DEF Answered
<1>2. /\ DOMAIN modules' = DOMAIN modules \cup {name} /\ modules'[name] = id
      /\ \A n \in DOMAIN modules : modules'[n] = modules[n]
  BY DEF Put
<1>3. registry!AskedFirst(name)
  BY <1>2 DEF registry!AskedFirst
<1>4. registry!Import(name)
  BY <1>1, <1>2, <1>3 DEF registry!Import
<1> QED  BY <1>1, <1>4 DEF registry!Next

(* A name it has answered before gets the same module again.                *)
LEMMA AnswersAgain ==
  ASSUME Orderly, Orderly', NEW name \in DOMAIN modules, UNCHANGED modules,
         answer' = Answered(name, modules[name])
  PROVE  registry!Next
<1>1. answer'.name = name /\ answer' = [name |-> name, id |-> modules'[name]]
  BY DEF Answered
<1>2. registry!AskedAgain(name)
  BY DEF registry!AskedAgain
<1>3. registry!Import(name)
  BY <1>1, <1>2 DEF registry!Import
<1> QED  BY <1>1, <1>3 DEF registry!Next

(* What the registry sees of a program.                                     *)
Seen == <<IF Orderly THEN modules ELSE <<>>, IF Orderly THEN answer ELSE NoAnswer>>

(* Every step is one of a registry, or none that it sees.                   *)
LEMMA RegistryStep ==
  ASSUME Inv, Inv', [Next]_vars
  PROVE  registry!Next \/ UNCHANGED Seen
<1>1. program' = program /\ compiled' = compiled
  BY DEF Next, vars, Start, ModuleEnds, ProgramEnds, CallEnds, Guard, CallFunction, Raise, Unwind,
         ImportCached, ImportFile, ImportBuiltin, ImportMissing
<1>2. Orderly' = Orderly /\ TypeOK
  BY <1>1, SameFiles DEF Inv
<1>3. CASE ~Orderly
  BY <1>2, <1>3 DEF Seen
<1>4. CASE Orderly /\ UNCHANGED <<modules, answer>>
  BY <1>2, <1>4 DEF Seen
<1>5. CASE Orderly /\ ModuleEnds
  <2>1. stack # <<>> /\ Top.kind = "run" /\ modules' = Put(NameOf(Top), Top.id)
        /\ answer' = Answered(NameOf(Top), Top.id)
    BY <1>5 DEF ModuleEnds, Running
  <2>2. /\ Top.id \in DOMAIN loaded /\ Top.id \in Nat /\ NameOf(Top) \in Names
        /\ loaded[Top.id].name = NameOf(Top)
    BY <1>2, <2>1, TopIsThere, Elements DEF NameOf
  <2>3. Len(stack) \in Runs /\ Top = stack[Len(stack)]
    BY <1>2, <2>1, TopIsThere DEF Runs
  <2>4. loaded[Top.id].state = "running"
    BY <2>3 DEF Inv, RunsAreRunning
  <2>5. \A n \in DOMAIN modules : loaded[modules[n]].name = n /\ loaded[modules[n]].state = "done"
    <3> TAKE n \in DOMAIN modules
    <3>1. loaded[modules[n]] = [name |-> n, state |-> "done"]
      BY DEF Inv, CachedHaveRun, Instance
    <3> QED  BY <3>1
  <2>6. \A n \in DOMAIN modules : modules[n] # Top.id
    BY <2>4, <2>5
  <2>7. ASSUME NameOf(Top) \in DOMAIN modules PROVE FALSE
    <3> DEFINE other == modules[NameOf(Top)]
    <3>1. other \in DOMAIN loaded /\ other # Top.id
      BY <1>2, <2>6, <2>7 DEF TypeOK
    <3>2. "failed" \in {loaded[other].state, loaded[Top.id].state}
      BY <1>5, <2>2, <2>5, <2>7, <3>1 DEF Inv, RunsOnce
    <3> QED  BY <2>4, <2>5, <2>7, <3>2
  <2> QED  BY <1>2, <1>5, <2>1, <2>2, <2>6, <2>7, AnswersFirst
<1>6. CASE Orderly /\ ImportCached
  <2>1. PICK name \in DOMAIN modules : answer' = Answered(name, modules[name])
    BY <1>6 DEF ImportCached
  <2> QED  BY <1>2, <1>6, <2>1, AnswersAgain DEF ImportCached
<1>7. CASE Orderly /\ ImportBuiltin
  <2>1. PICK name \in Builtins \ (DOMAIN modules \cup DOMAIN files) :
          Keep(name) /\ answer' = Answered(name, Len(loaded) + 1)
    BY <1>7 DEF ImportBuiltin
  <2>2. Len(loaded) + 1 \in Nat /\ Len(loaded) + 1 \notin DOMAIN loaded
    BY <1>2, Elements
  <2>3. \A n \in DOMAIN modules : modules[n] # Len(loaded) + 1
    BY <1>2, <2>2 DEF TypeOK
  <2>4. name \in Names /\ name \notin DOMAIN modules
    BY <2>1, NamesAssumption DEF NamesAssumption
  <2> QED  BY <1>2, <1>7, <2>1, <2>2, <2>3, <2>4, AnswersFirst DEF Keep
<1>8. CASE ImportFile
  <2>1. PICK name \in DOMAIN files \ DOMAIN modules :
        \/ Begin(name) /\ UNCHANGED <<raised, answer, phase>>
        \/ raised' = TRUE /\ UNCHANGED <<modules, loaded, stack, answer, phase>>
        \/ Stop("crashed") /\ UNCHANGED <<loaded, raised>>
    BY <1>8 DEF ImportFile
  <2> QED  BY <1>3, <1>4, <2>1 DEF Begin, Stop
<1>9. CASE Start \/ ProgramEnds \/ CallEnds \/ Raise \/ Unwind \/ ImportMissing \/ UNCHANGED vars
  <2>1. UNCHANGED <<modules, answer>>
    BY <1>9 DEF Start, ProgramEnds, CallEnds, Raise, Unwind, ImportMissing, vars, Stop
  <2> QED  BY <1>3, <1>4, <2>1
<1>10. CASE Guard \/ CallFunction
  <2>1. UNCHANGED <<modules, answer>>
    BY <1>10 DEF Guard, CallFunction, Enter, Stop
  <2> QED  BY <1>3, <1>4, <2>1
<1> QED  BY <1>3, <1>5, <1>6, <1>7, <1>8, <1>9, <1>10 DEF Next

(* In an orderly program import is a registry (libImport): a name stands    *)
(* for one module, and different names for different ones.                  *)
THEOREM ImportImplementsRegistry == Spec => ImplementsRegistry
<1>1. Init => registry!Init
  BY DEF Init, registry!Init
<1>2. Inv /\ Inv' /\ [Next]_vars => [registry!Next]_Seen
  BY RegistryStep
<1>3. Seen = <<IF Orderly THEN modules ELSE <<>>, IF Orderly THEN answer ELSE NoAnswer>>
  BY DEF Seen
<1> QED  BY <1>1, <1>2, ImportInvariance, PTL DEF Spec, ImplementsRegistry, registry!Spec, Seen
=============================================================================
