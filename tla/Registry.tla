------------------------------ MODULE Registry ------------------------------
(***************************************************************************)
(* What import promises: a name stands for one module, whoever asks for it *)
(* and however often, and different names for different ones.              *)
(***************************************************************************)
EXTENDS Naturals

CONSTANT NoAnswer

VARIABLES
  bound,    \* names that have been asked for, and what was answered
  answer    \* the last answer

Init == bound = <<>> /\ answer = NoAnswer

AskedAgain(name) == name \in DOMAIN bound /\ UNCHANGED bound
AskedFirst(name) ==
  /\ name \notin DOMAIN bound
  /\ DOMAIN bound' = DOMAIN bound \cup {name}
  /\ \A other \in DOMAIN bound : bound'[other] = bound[other] /\ bound'[name] # bound[other]

Import(name) == /\ AskedAgain(name) \/ AskedFirst(name)
                /\ answer' = [name |-> name, id |-> bound'[name]]

Next == Import(answer'.name)

Spec == Init /\ [][Next]_<<bound, answer>>
=============================================================================
