-------------------------- MODULE ModulesProperties --------------------------
(***************************************************************************)
(* What import may be relied on for.                                       *)
(***************************************************************************)
EXTENDS Modules

States == {"running", "done", "failed"}
Instances == [name : Names, state : States]
ActivationsOf(ids) == [kind : {"run", "call", "guard"}, id : ids]

(* Variables hold what the code keeps in them: an activation belongs to a   *)
(* module that was loaded, a name in the cache to one as well.              *)
TypeOK ==
  /\ Main \in DOMAIN files /\ DOMAIN files \subseteq Names /\ DOMAIN compiled = DOMAIN files
  /\ loaded \in Seq(Instances)
  /\ DOMAIN modules \subseteq Names /\ \A n \in DOMAIN modules : modules[n] \in DOMAIN loaded
  /\ stack \in Seq(ActivationsOf(DOMAIN loaded))
  /\ program.steps \in Nat /\ left \in 0..program.steps
  /\ \A i \in DOMAIN stack : NameOf(stack[i]) \in DOMAIN files
  /\ raised \in BOOLEAN
  /\ answer \in [name : Names, id : {0} \cup DOMAIN loaded]
  /\ phase \in {"start", "module", "main"} \cup Endings
  /\ phase \in {"module", "main"} => stack # <<>>

(* A file imports files of lower rank only: no module imports itself, by    *)
(* whatever way.                                                            *)
Layered ==
  \A n \in DOMAIN files : \A m \in MentionedBy(n) \cap DOMAIN files : Rank[m] < Rank[n]
Orderly == Layered /\ ~program.strangers

(* libImport puts a module into the cache after it has run (lib.cpp:316):   *)
(* what is there has run to its end, under that name, and a module that     *)
(* failed or is still running is never handed out.                          *)
CachedHaveRun ==
  \A n \in DOMAIN modules : loaded[modules[n]] = Instance(n, "done")

(* The code of a file runs once, unless it failed.  It does although the    *)
(* cache does not know of modules that are still running, because no module *)
(* imports itself; without that, or with functions handed to modules that   *)
(* call them too early, it does not.                                        *)
RunsOnce ==
  Orderly => \A i, j \in DOMAIN loaded :
               i # j /\ loaded[i].name = loaded[j].name =>
                 "failed" \in {loaded[i].state, loaded[j].state}

(* What makes the two inductive.  A program begins with nothing and runs    *)
(* inside its own module; a module is running as long as the one activation *)
(* that runs it is on the stack; one that has run is the program's own or   *)
(* in the cache; and in an orderly program nothing on the stack is above    *)
(* what it was called from.                                                 *)
Untouched == phase = "start" => /\ loaded = <<>> /\ stack = <<>> /\ modules = <<>>
                                /\ answer = NoAnswer /\ ~raised
InsideMain == stack # <<>> => stack[1].id = 1
Runs == {i \in DOMAIN stack : stack[i].kind = "run"}
RunsAreRunning == /\ \A i \in Runs : loaded[stack[i].id].state = "running"
                  /\ \A i, j \in Runs : stack[i].id = stack[j].id => i = j
RunningAreRun == \A id \in DOMAIN loaded :
                   loaded[id].state = "running" => \E i \in Runs : stack[i].id = id
DoneAreCached == \A id \in DOMAIN loaded :
                   loaded[id].state = "done" => id = 1 \/ loaded[id].name \in DOMAIN modules
RankAt(i) == Rank[NameOf(stack[i])]
Descending == Orderly => \A i, j \in DOMAIN stack : i < j => RankAt(j) <= RankAt(i)
Inv == /\ TypeOK /\ Untouched /\ InsideMain /\ RunsAreRunning /\ RunningAreRun
       /\ DoneAreCached /\ Descending /\ CachedHaveRun /\ RunsOnce

(* What import answers is what it has answered before.                      *)
registry == INSTANCE Registry WITH
  bound <- IF Orderly THEN modules ELSE <<>>,
  answer <- IF Orderly THEN answer ELSE NoAnswer
ImplementsRegistry == registry!Spec

(* Every program ends: an error leaves every activation it unwinds, a       *)
(* module that imports itself runs out of stack.                            *)
Termination == <>Ended
=============================================================================
