------------------------------- MODULE Calls -------------------------------
(***************************************************************************)
(* What the interpreter promises about control, whatever runs on it: calls *)
(* nest, an error gives up calls from the inside out, and it stops at the  *)
(* innermost trycatch whose guarded block it leaves, and nowhere else.     *)
(***************************************************************************)
EXTENDS Naturals, Sequences

VARIABLES
  active,     \* the calls under way, the innermost last: "plain", or "guard"
              \* for a trycatch running the block it guards
  raising     \* whether an error is being propagated

Kinds == {"plain", "guard"}

Outermost(n) == SubSeq(active, 1, n)

Init == active = <<"plain">> /\ raising = FALSE

Invoke == /\ ~raising
          /\ \E k \in Kinds : active' = Append(active, k)
          /\ UNCHANGED raising

Leave == /\ ~raising /\ active # <<>>
         /\ active' = Outermost(Len(active) - 1)
         /\ UNCHANGED raising

(* An error begins, or goes on: it leaves any number of plain calls.        *)
Raise == /\ raising'
         /\ \E n \in 0..Len(active) :
              /\ \A i \in n + 1 .. Len(active) : active[i] = "plain"
              /\ active' = Outermost(n)

(* The guard gives way to its handler, itself a call, which is not guarded  *)
(* and may be given up before it has begun.                                 *)
Catch == /\ raising /\ active # <<>> /\ active[Len(active)] = "guard"
         /\ LET released == Outermost(Len(active) - 1) \o <<"plain">>
            IN \/ active' = released
               \/ \E k \in Kinds : active' = Append(released, k) /\ ~raising'
         /\ raising' \in BOOLEAN

Next == Invoke \/ Leave \/ Raise \/ Catch

Spec == Init /\ [][Next]_<<active, raising>>
=============================================================================
