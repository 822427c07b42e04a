------------------------------- MODULE Modules -------------------------------
(***************************************************************************)
(* From a file to a module: execFunc runs a program's main file, and       *)
(* libImport, which programs call as import, finds, compiles and runs      *)
(* others, and keeps them by the name they were asked for.  The C++        *)
(* activations in progress are the sequence stack: modules that run,       *)
(* functions of modules, and blocks that trycatch guards.                  *)
(*                                                                         *)
(* What a text compiles to, and the names it may import, are constants.    *)
(* loaded is history: every module there has been, in order, and whether   *)
(* its code has run.                                                       *)
(***************************************************************************)
EXTENDS Naturals, Sequences

CONSTANTS
  Names,            \* what import may be asked for, and the program's own file
  Main,             \* that file
  Builtins,         \* the names loadBuiltinModule knows
  Programs,         \* sets of programs: their files, which are the names that
                    \* are found, with their texts; the imports, guards and
                    \* calls they make at most; and whether they hand functions
                    \* to modules that have not imported the function's own
  Compiled(_),      \* what a text becomes: its status, "module", "error" with
                    \* a message, "nothing" without one, or the end of the
                    \* process; and the names its code asks import for
  Rank,             \* an order of the names
  MaxDepth          \* activations the C++ stack has room for

VARIABLES
  program,          \* the program being run; never changes
  compiled,         \* what each of its files becomes; never changes
  modules,          \* runtime->modules
  loaded,           \* modules so far
  stack,            \* activations, the innermost last
  left,             \* steps the program still has
  raised,           \* an error is on its way to its catcher
  answer,           \* what import answered last
  phase             \* "start", "module", "main", or how the program has ended

vars == <<program, compiled, modules, loaded, stack, left, raised, answer, phase>>

NamesAssumption == Main \in Names /\ Builtins \subseteq Names
ProgramsAssumption == \A kind \in Programs : \A p \in kind :
                        /\ DOMAIN p.files \subseteq Names /\ Main \in DOMAIN p.files
                        /\ p.steps \in Nat /\ p.strangers \in BOOLEAN
BoundsAssumption == Rank \in [Names -> Nat] /\ MaxDepth \in Nat
ASSUME NamesAssumption
ASSUME ProgramsAssumption
ASSUME BoundsAssumption

files == program.files
Endings == {"done", "failed", "silent", "crashed"}
Ended == phase \in Endings

Activation(kind, id) == [kind |-> kind, id |-> id]
Top == stack[Len(stack)]
Below == SubSeq(stack, 1, Len(stack) - 1)
MentionedBy(name) == compiled[name].mentions \cap Names
NameOf(activation) == loaded[activation.id].name
Running == phase \in {"module", "main"} /\ stack # <<>> /\ ~raised
Step == Running /\ left > 0 /\ left' = left - 1

NoAnswer == [name |-> Main, id |-> 0]
Answered(name, id) == [name |-> name, id |-> id]
Instance(name, state) == [name |-> name, state |-> state]

(* putMapStr.  The mutant forgets.                                          *)
PutNothing(name, id) == modules
Put(name, id) == [n \in DOMAIN modules \cup {name} |-> IF n = name THEN id ELSE modules[n]]
Mark(id, state) == [loaded EXCEPT ![id].state = state]

(* The program ends here, whatever it was in.                               *)
Stop(how) == phase' = how /\ UNCHANGED <<modules, stack, answer>>

(* One activation more: there has to be room for it.                        *)
Enter(activation) ==
  IF Len(stack) < MaxDepth
  THEN stack' = Append(stack, activation) /\ UNCHANGED <<modules, answer, phase>>
  ELSE Stop("crashed")

-----------------------------------------------------------------------------
(* execFunc: compile the file of the program, run it, call its main.        *)
Start ==
  /\ phase = "start"
  /\ LET status == compiled[Main].status
     IN CASE status = "module" ->
               /\ loaded' = <<Instance(Main, "running")>>
               /\ stack' = <<Activation("run", 1)>>
               /\ phase' = "module"
               /\ UNCHANGED <<modules, answer>>
          [] status = "error" -> Stop("failed") /\ UNCHANGED loaded
          [] status = "nothing" -> Stop("silent") /\ UNCHANGED loaded
          [] OTHER -> Stop("crashed") /\ UNCHANGED loaded
  /\ UNCHANGED <<program, compiled, left, raised>>

(* The code of a module has run to its end.  One that was imported is put   *)
(* into the cache only now.                                                 *)
ModuleEnds ==
  /\ Running /\ Top.kind = "run" /\ Len(stack) > 1
  /\ loaded' = Mark(Top.id, "done")
  /\ modules' = Put(NameOf(Top), Top.id)
  /\ answer' = Answered(NameOf(Top), Top.id)
  /\ stack' = Below
  /\ UNCHANGED <<program, compiled, left, raised, phase>>

(* The program's own module: its function main is called, if it has one.    *)
ProgramEnds ==
  /\ Running /\ Top.kind = "run" /\ Len(stack) = 1
  /\ loaded' = Mark(Top.id, "done")
  /\ \/ stack' = <<Activation("call", Top.id)>> /\ phase' = "main"
     \/ stack' = <<>> /\ phase' = "failed"
  /\ UNCHANGED <<program, compiled, left, modules, answer, raised>>

(* A function answers; main's answer is the end.  The mutant does not end.  *)
AfterCallOn == phase
AfterCall == IF Len(stack) = 1 THEN "done" ELSE phase
CallEnds ==
  /\ Running /\ Top.kind # "run"
  /\ stack' = Below
  /\ phase' = AfterCall
  /\ UNCHANGED <<program, compiled, left, modules, loaded, raised, answer>>

-----------------------------------------------------------------------------
(* What code does in between.                                               *)

(* trycatch with a block of the same module.                                *)
Guard ==
  /\ Step
  /\ Enter(Activation("guard", Top.id))
  /\ UNCHANGED <<program, compiled, loaded, raised>>

(* A function of the module itself, or of one it has imported; of any       *)
(* module that has run or begun to, if it was handed its function.          *)
MayCall(id) ==
  \/ id = Top.id
  \/ loaded[id].state = "done" /\ loaded[id].name \in MentionedBy(NameOf(Top))
  \/ program.strangers
CallFunction ==
  /\ Step
  /\ \E id \in DOMAIN loaded :
       /\ loaded[id].name \in DOMAIN files
       /\ MayCall(id)
       /\ Enter(Activation("call", id))
  /\ UNCHANGED <<program, compiled, loaded, raised>>

Raise ==
  /\ Step
  /\ raised' = TRUE
  /\ UNCHANGED <<program, compiled, modules, loaded, stack, answer, phase>>

(* The mutant of leaving a module does not leave it.                        *)
NotPopped == IF Top.kind = "run" THEN stack ELSE Below
Popped == Below

(* One activation less; trycatch goes on with its handler.  A module that   *)
(* is left has not run, and nothing of it is kept.                          *)
Unwind ==
  /\ raised /\ ~Ended
  /\ CASE Top.kind = "guard" ->
            /\ stack' = [stack EXCEPT ![Len(stack)].kind = "call"]
            /\ raised' = FALSE
            /\ UNCHANGED <<loaded, phase>>
       [] OTHER ->
            /\ stack' = Popped
            /\ loaded' = IF Top.kind = "run" THEN Mark(Top.id, "failed") ELSE loaded
            /\ phase' = IF Len(stack) = 1 THEN "failed" ELSE phase
            /\ UNCHANGED raised
  /\ UNCHANGED <<program, compiled, left, modules, answer>>

-----------------------------------------------------------------------------
(* libImport, in the order it looks: the cache, files, built-in modules.    *)
Asks(name) == Step /\ name \in MentionedBy(NameOf(Top))

ImportCached ==
  /\ \E name \in DOMAIN modules : Asks(name) /\ answer' = Answered(name, modules[name])
  /\ UNCHANGED <<program, compiled, modules, loaded, stack, raised, phase>>

(* Running a module.  The mutant puts it into the cache at once.            *)
BeginCached(name) ==
  /\ loaded' = Append(loaded, Instance(name, "running"))
  /\ stack' = Append(stack, Activation("run", Len(loaded) + 1))
  /\ modules' = Put(name, Len(loaded) + 1)
Begin(name) ==
  /\ loaded' = Append(loaded, Instance(name, "running"))
  /\ stack' = Append(stack, Activation("run", Len(loaded) + 1))
  /\ UNCHANGED modules

(* A file is compiled and run.  Where it compiles to nothing, and no        *)
(* message says so, executeModule is given NULL.                            *)
ImportFile ==
  \E name \in DOMAIN files \ DOMAIN modules :
    /\ Asks(name)
    /\ LET status == compiled[name].status
       IN CASE status = "module" /\ Len(stack) < MaxDepth ->
                 Begin(name) /\ UNCHANGED <<raised, answer, phase>>
            [] status = "error" ->
                 /\ raised' = TRUE
                 /\ UNCHANGED <<modules, loaded, stack, answer, phase>>
            [] OTHER -> Stop("crashed") /\ UNCHANGED <<loaded, raised>>
    /\ UNCHANGED <<program, compiled>>

(* The mutant of a built-in module is made anew each time.                  *)
KeepNot(name) == UNCHANGED modules
Keep(name) == modules' = Put(name, Len(loaded) + 1)
ImportBuiltin ==
  /\ \E name \in Builtins \ (DOMAIN modules \cup DOMAIN files) :
       /\ Asks(name)
       /\ loaded' = Append(loaded, Instance(name, "done"))
       /\ Keep(name)
       /\ answer' = Answered(name, Len(loaded) + 1)
  /\ UNCHANGED <<program, compiled, stack, raised, phase>>

ImportMissing ==
  /\ \E name \in Names \ (Builtins \cup DOMAIN modules \cup DOMAIN files) : Asks(name)
  /\ raised' = TRUE
  /\ UNCHANGED <<program, compiled, modules, loaded, stack, answer, phase>>
-----------------------------------------------------------------------------
Init == /\ \E kind \in Programs : program \in kind
        /\ compiled = [n \in DOMAIN files |-> Compiled(files[n])]
        /\ modules = <<>> /\ loaded = <<>> /\ stack = <<>>
        /\ left = program.steps
        /\ raised = FALSE
        /\ answer = NoAnswer
        /\ phase = "start"

Next == \/ Start \/ ModuleEnds \/ ProgramEnds \/ CallEnds
        \/ Guard \/ CallFunction \/ Raise \/ Unwind
        \/ ImportCached \/ ImportFile \/ ImportBuiltin \/ ImportMissing

Spec == Init /\ [][Next]_vars

(* One thread that waits for nothing: it goes on.                           *)
FairSpec == Spec /\ WF_vars(Next)
=============================================================================
