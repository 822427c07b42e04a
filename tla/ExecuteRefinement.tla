------------------------- MODULE ExecuteRefinement -------------------------
(***************************************************************************)
(* The interpreter implements Calls: whatever executeCode, callFunction    *)
(* and the native functions do to frames, to the C++ stack and to the      *)
(* RetVal on its way, seen as calls and errors it is a step of Calls, or   *)
(* none at all.                                                            *)
(***************************************************************************)
EXTENDS ExecuteProofs, SequenceTheorems
-----------------------------------------------------------------------------
(* The calls under way, from the C++ stack and the number of frames.        *)

Kinds == {"plain", "guard"}

(* Frame i belongs to a libTryCatch on the C++ stack c that waits for its   *)
(* block.                                                                   *)
GuardedBy(c, i) == \E k \in 1..Len(c) :
                     /\ c[k].fn = "libTryCatch" /\ c[k].frames = i
                     /\ c[k].phase \in {"start", "guarded"}
KindOf(c, i) == IF GuardedBy(c, i) THEN "guard" ELSE "plain"
KindsOf(c, n) == [i \in 1..n |-> KindOf(c, i)]

(* They are a sequence,                                                     *)
LEMMA KindsSeq ==
  ASSUME NEW c, NEW n \in Nat
  PROVE  /\ KindsOf(c, n) \in Seq(Kinds) /\ Len(KindsOf(c, n)) = n
         /\ \A i \in 1..n : KindsOf(c, n)[i] = KindOf(c, i)
<1>1. KindsOf(c, n) \in [1..n -> Kinds]
  BY DEF KindsOf, KindOf, Kinds
<1> QED  BY <1>1 DEF KindsOf

(* which a step that guards the same frames leaves as it is,               *)
LEMMA KindsSame ==
  ASSUME NEW c, NEW d, NEW n, \A i \in 1..n : GuardedBy(d, i) <=> GuardedBy(c, i)
  PROVE  KindsOf(d, n) = KindsOf(c, n)
BY DEF KindsOf, KindOf

(* a call makes longer                                                     *)
LEMMA KindsPushed ==
  ASSUME NEW c, NEW d, NEW n \in Nat, \A i \in 1..n : GuardedBy(d, i) <=> GuardedBy(c, i)
  PROVE  KindsOf(d, n + 1) = Append(KindsOf(c, n), KindOf(d, n + 1))
<1> DEFINE s == KindsOf(d, n + 1)
           q == KindsOf(c, n)
           k == KindOf(d, n + 1)
<1>1. /\ q \in Seq(Kinds) /\ Len(q) = n /\ s \in Seq(Kinds) /\ Len(s) = n + 1
      /\ \A i \in 1..n : q[i] = KindOf(c, i)
      /\ \A i \in 1..(n + 1) : s[i] = KindOf(d, i)
  BY KindsSeq
<1>2. k \in Kinds
  BY DEF KindOf, Kinds
<1>3. \A i \in 1..n : KindOf(d, i) = KindOf(c, i)
  BY DEF KindOf
<1> HIDE DEF s, q, k
<1>4. /\ Append(q, k) \in Seq(Kinds) /\ Len(Append(q, k)) = n + 1
      /\ Append(q, k)[n + 1] = k /\ \A i \in 1..n : Append(q, k)[i] = q[i]
  BY <1>1, <1>2, AppendLemma
<1>5. \A i \in 1..(n + 1) : s[i] = Append(q, k)[i]
  <2>1. s[n + 1] = k
    BY <1>1 DEF k
  <2>2. \A i \in 1..(n + 1) : i \in 1..n \/ i = n + 1
    OBVIOUS
  <2> QED  BY <1>1, <1>3, <1>4, <2>1, <2>2
<1>6. s = Append(q, k)
  BY <1>1, <1>4, <1>5, SeqEqual
<1> QED  BY <1>6 DEF s, q, k

(* and the end of calls shorter.                                           *)
LEMMA KindsCut ==
  ASSUME NEW c, NEW d, NEW n \in Nat, NEW m \in 0..n,
         \A i \in 1..m : GuardedBy(d, i) <=> GuardedBy(c, i)
  PROVE  KindsOf(d, m) = SubSeq(KindsOf(c, n), 1, m)
<1> DEFINE s == KindsOf(d, m)
           q == KindsOf(c, n)
<1>1. /\ q \in Seq(Kinds) /\ Len(q) = n /\ s \in Seq(Kinds) /\ Len(s) = m
      /\ \A i \in 1..n : q[i] = KindOf(c, i)
      /\ \A i \in 1..m : s[i] = KindOf(d, i)
  BY KindsSeq
<1>2. \A i \in 1..m : KindOf(d, i) = KindOf(c, i) /\ i \in 1..n
  BY DEF KindOf
<1> HIDE DEF s, q
<1>3. /\ SubSeq(q, 1, m) \in Seq(Kinds) /\ Len(SubSeq(q, 1, m)) = m
      /\ \A i \in 1..m : SubSeq(q, 1, m)[i] = q[i]
  BY <1>1, BottomLemma DEF Bottom
<1>4. s = SubSeq(q, 1, m)
  BY <1>1, <1>2, <1>3, SeqEqual
<1> QED  BY <1>4 DEF s, q

(* A trycatch that gives up its guard is left a plain call.                 *)
LEMMA KindsReleased ==
  ASSUME NEW c, NEW d, NEW n \in Nat \ {0}, ~GuardedBy(d, n),
         \A i \in 1..(n - 1) : GuardedBy(d, i) <=> GuardedBy(c, i)
  PROVE  KindsOf(d, n) = SubSeq(KindsOf(c, n), 1, n - 1) \o <<"plain">>
<1> DEFINE q == KindsOf(d, n - 1)
<1>1. n - 1 \in 0..n /\ n - 1 \in Nat /\ (n - 1) + 1 = n
  OBVIOUS
<1>2. q = SubSeq(KindsOf(c, n), 1, n - 1) /\ q \in Seq(Kinds)
  BY <1>1, KindsCut, KindsSeq
<1>3. KindsOf(d, n) = Append(q, "plain")
  <2>1. KindsOf(d, (n - 1) + 1) = Append(KindsOf(d, n - 1), KindOf(d, (n - 1) + 1))
    BY <1>1, KindsPushed
  <2> QED  BY <1>1, <2>1 DEF KindOf
<1> HIDE DEF q
<1>4. Append(q, "plain") = q \o <<"plain">>
  BY <1>2, AppendIsConcat DEF Kinds
<1> QED  BY <1>2, <1>3, <1>4

-----------------------------------------------------------------------------
(* The steps of Calls.                                                      *)

Active == KindsOf(host, Len(frames))

(* This is what ExecuteProperties takes for the calls under way.            *)
LEMMA ActiveMapped ==
  ASSUME TypeOK
  PROVE  /\ [i \in DOMAIN frames |-> IF Guarding(i) THEN "guard" ELSE "plain"] = Active
         /\ Active \in Seq(Kinds) /\ Len(Active) = Len(frames) /\ Len(frames) \in Nat
         /\ ret.error \in BOOLEAN
<1>1. DOMAIN frames = 1..Len(frames) /\ Len(frames) \in Nat
  BY DEF TypeOK
<1>2. ret.error \in BOOLEAN
  <2>1. CASE ret = NoRet
    BY <2>1 DEF NoRet
  <2>2. CASE ret \in [error : BOOLEAN, value : Value]
    BY <2>2
  <2> QED  BY <2>1, <2>2 DEF TypeOK
<1> QED  BY <1>1, <1>2, KindsSeq DEF Active, KindsOf, KindOf, GuardedBy, Guarding

(* Nothing that Calls can see happens,                                      *)
Unseen == Active' = Active /\ ret'.error = ret.error

(* and afterwards.                                                          *)
LEMMA ActiveMappedNext ==
  ASSUME TypeOK'
  PROVE  /\ [i \in DOMAIN frames |-> IF Guarding(i) THEN "guard" ELSE "plain"]' = Active'
         /\ Active' \in Seq(Kinds) /\ Len(Active') = Len(frames') /\ Len(frames') \in Nat
         /\ ret'.error \in BOOLEAN
<1>1. DOMAIN frames' = 1..Len(frames') /\ Len(frames') \in Nat
  BY DEF TypeOK
<1>2. ret'.error \in BOOLEAN
  <2>1. CASE ret' = NoRet
    BY <2>1 DEF NoRet
  <2>2. CASE ret' \in [error : BOOLEAN, value : Value']
    BY <2>2
  <2>3. ret' \in {NoRet} \cup [error : BOOLEAN, value : Value']
    BY DEF TypeOK, NoRet, Null
  <2> QED  BY <2>1, <2>2, <2>3
<1> QED  BY <1>1, <1>2, KindsSeq DEF Active, KindsOf, KindOf, GuardedBy, Guarding

(* a call begins,                                                           *)
LEMMA Invokes ==
  ASSUME TypeOK, TypeOK', ~ret.error, ~ret'.error, NEW k \in Kinds, Active' = Append(Active, k)
  PROVE  CallsOf!Next
<1>1. CallsOf!Invoke
  BY ActiveMapped, ActiveMappedNext DEF CallsOf!Invoke, CallsOf!Kinds, Kinds
<1> QED  BY <1>1 DEF CallsOf!Next

(* it ends,                                                                 *)
LEMMA Leaves ==
  ASSUME TypeOK, TypeOK', ~ret.error, ~ret'.error, Len(frames) > 0,
         Active' = SubSeq(Active, 1, Len(frames) - 1)
  PROVE  CallsOf!Next
<1>1. Active # <<>>
  BY ActiveMapped
<1>2. CallsOf!Leave
  BY <1>1, ActiveMapped, ActiveMappedNext DEF CallsOf!Leave, CallsOf!Outermost
<1> QED  BY <1>2 DEF CallsOf!Next

(* an error gives up calls that guard nothing,                              *)
LEMMA Raising ==
  ASSUME TypeOK, TypeOK', ret'.error, NEW n \in 0..Len(frames),
         \A i \in (n + 1)..Len(frames) : ~GuardedBy(host, i), Active' = SubSeq(Active, 1, n)
  PROVE  CallsOf!Next
<1>1. \A i \in (n + 1)..Len(Active) : Active[i] = "plain"
  BY ActiveMapped, KindsSeq DEF Active, KindOf
<1>2. CallsOf!Raise
  BY SMTT(30), <1>1, ActiveMapped, ActiveMappedNext DEF CallsOf!Raise, CallsOf!Outermost
<1> QED  BY <1>2 DEF CallsOf!Next

(* or stops at one that does, and its handler is called.                    *)
LEMMA Catches ==
  ASSUME TypeOK, TypeOK', ret.error, Len(frames) > 0, GuardedBy(host, Len(frames)),
         NEW released, released = SubSeq(Active, 1, Len(frames) - 1) \o <<"plain">>,
         \/ Active' = released
         \/ ~ret'.error /\ \E k \in Kinds : Active' = Append(released, k)
  PROVE  CallsOf!Next
<1>1. Active # <<>> /\ Active[Len(Active)] = "guard"
  <2>1. Len(frames) \in Nat /\ Len(Active) = Len(frames)
    BY ActiveMapped
  <2>2. Len(frames) \in 1..Len(frames) /\ Len(Active) = Len(frames)
    BY <2>1
  <2>3. Active[Len(frames)] = KindOf(host, Len(frames))
    BY <2>2, KindsSeq DEF Active
  <2> QED  BY <2>2, <2>3 DEF KindOf
<1>2. CallsOf!Catch
  BY <1>1, ActiveMapped, ActiveMappedNext
     DEF CallsOf!Catch, CallsOf!Outermost, CallsOf!Kinds, Kinds
<1> QED  BY <1>2 DEF CallsOf!Next

-----------------------------------------------------------------------------
(* Guards.                                                                  *)

(* No guard is above the frames there are, and none is above those that an  *)
(* executeCode on top of the C++ stack was entered with.                    *)
LEMMA GuardsBelow ==
  ASSUME Inv, NEW i, GuardedBy(host, i)
  PROVE  /\ i \in Nat /\ i <= Len(frames)
         /\ Top.fn = "executeCode" => i <= Top.frames
<1>1. PICK k \in 1..Len(host) : host[k].fn = "libTryCatch" /\ host[k].frames = i
  BY DEF GuardedBy
<1>2. i \in Nat /\ i <= Len(frames)
  BY <1>1, InvTypes DEF Inv, HeightsOK
<1>3. ASSUME Top.fn = "executeCode" PROVE i <= Top.frames
  <2>1. Len(host) \in 1..Len(host) /\ Top = host[Len(host)]
    BY HostFacts DEF Inv
  <2>2. k < Len(host)
    BY <1>1, <1>3, <2>1
  <2> QED  BY <1>1, <2>1, <2>2 DEF Inv, HostOK
<1> QED  BY <1>2, <1>3

(* The end of a C++ function takes away its own guard at most,             *)
LEMMA GuardsPopped ==
  ASSUME Inv, NEW i, Top.fn = "executeCode" \/ i # Top.frames
  PROVE  GuardedBy(Bottom(host, Len(host) - 1), i) <=> GuardedBy(host, i)
<1>1. Len(host) \in 1..Len(host) /\ Top = host[Len(host)] /\ host \in Seq(ActivationType)
  BY HostFacts DEF Inv, TypeOK
<1>2. PICK d : d = Bottom(host, Len(host) - 1)
  OBVIOUS
<1>3. Len(d) = Len(host) - 1 /\ \A k \in 1..(Len(host) - 1) : d[k] = host[k]
  <2>1. Len(host) - 1 \in 0..Len(host)
    BY <1>1
  <2> QED  BY <1>1, <1>2, <2>1, BottomLemma
<1>4. \A k \in 1..Len(host) : k \in 1..(Len(host) - 1) \/ k = Len(host)
  BY <1>1
<1>5. \A k \in 1..(Len(host) - 1) : k \in 1..Len(host)
  BY <1>1
<1>6. ~(host[Len(host)].fn = "libTryCatch" /\ host[Len(host)].frames = i)
  BY <1>1
<1> QED  BY <1>2, <1>3, <1>4, <1>5, <1>6 DEF GuardedBy

(* the beginning of one brings its own at most,                            *)
LEMMA GuardsPushed ==
  ASSUME NEW S, NEW c \in Seq(S), NEW a, NEW i, a.fn # "libTryCatch" \/ a.frames # i
  PROVE  GuardedBy(Append(c, a), i) <=> GuardedBy(c, i)
<1>1. c \in Seq(S \cup {a}) /\ a \in S \cup {a} /\ Len(c) \in Nat
  BY SeqMono
<1>2. PICK d : d = Append(c, a)
  OBVIOUS
<1>3. Len(d) = Len(c) + 1 /\ d[Len(c) + 1] = a /\ \A k \in 1..Len(c) : d[k] = c[k]
  BY <1>1, <1>2, AppendLemma
<1>4. \A k \in 1..(Len(c) + 1) : k \in 1..Len(c) \/ k = Len(c) + 1
  BY <1>1
<1>5. \A k \in 1..Len(c) : k \in 1..(Len(c) + 1)
  BY <1>1
<1> QED  BY <1>2, <1>3, <1>4, <1>5 DEF GuardedBy

(* and its going on changes its own at most.                               *)
LEMMA GuardsPhased ==
  ASSUME Inv, NEW p
  PROVE  /\ Phase(p) \in Seq(ActivationType \cup {[Top EXCEPT !.phase = p]})
         /\ \A i : \/ i # Top.frames \/ Top.fn # "libTryCatch"
                   \/ Top.phase = "start" /\ p = "guarded"
                   => (GuardedBy(Phase(p), i) <=> GuardedBy(host, i))
         /\ Top.fn = "libTryCatch" /\ p = "final" => ~GuardedBy(Phase(p), Top.frames)
<1> DEFINE t == [Top EXCEPT !.phase = p]
           S == ActivationType \cup {t}
<1>1. Len(host) \in 1..Len(host) /\ Top = host[Len(host)] /\ Top \in ActivationType
  BY HostFacts DEF Inv
<1>2. t.fn = Top.fn /\ t.frames = Top.frames /\ t.phase = p
  BY <1>1 DEF ActivationType
<1>3. Phase(p) = [host EXCEPT ![Len(host)] = t]
  BY <1>1 DEF Phase
<1>4. host \in Seq(S) /\ t \in S
  BY SeqMono DEF Inv, TypeOK
<1> HIDE DEF t
<1>5. PICK d : d = Phase(p)
  OBVIOUS
<1>6. /\ d \in Seq(S) /\ Len(d) = Len(host)
      /\ \A k \in 1..Len(host) : d[k] = IF k = Len(host) THEN t ELSE host[k]
  BY <1>1, <1>3, <1>4, <1>5, ExceptLemma
<1>7. ASSUME NEW i, \/ i # Top.frames \/ Top.fn # "libTryCatch"
                    \/ Top.phase = "start" /\ p = "guarded"
      PROVE  GuardedBy(d, i) <=> GuardedBy(host, i)
  BY <1>1, <1>2, <1>6, <1>7 DEF GuardedBy
<1>8. ASSUME Top.fn = "libTryCatch", p = "final" PROVE ~GuardedBy(d, Top.frames)
  <2>1. \A k \in 1..Len(host) : k # Len(host) => host[k].frames # Top.frames
    <3>1. \A k \in 1..Len(host) : host[k].frames \in Nat
      BY InvTypes DEF Inv
    <3>2. \A k \in 1..Len(host) : k # Len(host) => k < Len(host)
      BY <1>1
    <3> QED  BY <1>1, <1>8, <3>1, <3>2 DEF Inv, HostOK, Natives
  <2> QED  BY <1>2, <1>6, <1>8, <2>1 DEF GuardedBy
<1> QED  BY <1>5, <1>6, <1>7, <1>8 DEF t

-----------------------------------------------------------------------------
(* The steps of the interpreter.                                            *)

(* Going on.                                                                *)
LEMMA GoingOnSeen ==
  ASSUME host' = host, Len(frames') = Len(frames), ret'.error = ret.error
  PROVE  Unseen
BY DEF Unseen, Active

(* Unwinding: between executeCode and the frames it was entered with there  *)
(* is no guard.                                                             *)
LEMMA FailSeen ==
  ASSUME Inv, Inv', Top.fn = "executeCode", Len(frames) > Top.frames,
         NEW r, r.error, Fail(r)
  PROVE  CallsOf!Next
<1>1. /\ frames' = Bottom(frames, Top.frames) /\ host' = Bottom(host, Len(host) - 1)
      /\ ret' = r
  BY DEF Fail, Unwind
<1>2. Top.frames \in 0..Len(frames) /\ frames \in Seq(FrameType) /\ Len(frames) \in Nat
  <2>1. Top.frames \in Nat /\ frames \in Seq(FrameType)
    BY HostFacts DEF Inv, TypeOK
  <2> QED  BY <2>1
<1>3. Len(frames') = Top.frames
  BY <1>1, <1>2, BottomLemma
<1>4. \A i \in 1..Top.frames : GuardedBy(host', i) <=> GuardedBy(host, i)
  BY <1>1, GuardsPopped
<1>5. Active' = SubSeq(Active, 1, Top.frames)
  <2>1. PICK n, m, d : n \in Nat /\ m \in 0..n /\ n = Len(frames) /\ m = Top.frames /\ d = host'
    BY <1>2
  <2>2. KindsOf(d, m) = SubSeq(KindsOf(host, n), 1, m)
    BY <1>4, <2>1, KindsCut
  <2> QED  BY <1>3, <2>1, <2>2 DEF Active
<1>6. \A i \in (Top.frames + 1)..Len(frames) : ~GuardedBy(host, i)
  <2>1. \A i \in (Top.frames + 1)..Len(frames) : ~(i <= Top.frames)
    BY <1>2
  <2> QED  BY <2>1, GuardsBelow
<1>7. ret'.error /\ TypeOK /\ TypeOK'
  BY <1>1 DEF Inv
<1> QED  BY <1>2, <1>5, <1>6, <1>7, Raising

(* A function returns, or a native function does: the frame on top goes.    *)
LEMMA EndSeen ==
  ASSUME Inv, Inv', Len(frames) > 0, frames' = Bottom(frames, Len(frames) - 1), ret' = ret,
         \A i \in 1..(Len(frames) - 1) : GuardedBy(host', i) <=> GuardedBy(host, i),
         ret.error => ~GuardedBy(host, Len(frames))
  PROVE  CallsOf!Next
<1>1. /\ Len(frames) - 1 \in 0..Len(frames) /\ frames \in Seq(FrameType)
      /\ Len(frames) \in Nat
  BY DEF Inv, TypeOK
<1>2. Len(frames') = Len(frames) - 1
  BY <1>1, BottomLemma
<1>3. Active' = SubSeq(Active, 1, Len(frames) - 1)
  BY ZenonT(60), <1>1, <1>2, KindsCut DEF Active
<1>4. TypeOK /\ TypeOK'
  BY DEF Inv
<1>5. CASE ~ret.error
  BY <1>3, <1>4, <1>5, Leaves
<1>6. CASE ret.error
  <2>1. \A i \in ((Len(frames) - 1) + 1)..Len(frames) : i = Len(frames)
    BY <1>1
  <2> QED  BY <1>1, <1>3, <1>4, <1>6, <2>1, Raising
<1> QED  BY <1>5, <1>6

(* OP_RETURN, and the end of a native function.                             *)
LEMMA ReturnsSeen ==
  ASSUME Inv, Inv', Return \/ NativeEnd
  PROVE  CallsOf!Next
<1>1. CASE Return
  <2>1. /\ InLoop /\ frames' = Bottom(frames, Len(frames) - 1) /\ host' = host /\ ret' = ret
    BY <1>1 DEF Return, Executing
  <2>2. Len(frames) > 0 /\ ~ret.error
    BY <2>1, InCode DEF InLoop, NoRet
  <2> QED  BY <2>1, <2>2, EndSeen
<1>2. CASE NativeEnd
  <2>1. /\ Top.phase = "final" \/ (Top.phase = "guarded" /\ ~ret.error)
        /\ frames' = Bottom(frames, Len(frames) - 1)
        /\ host' = Bottom(host, Len(host) - 1) /\ ret' = ret
    BY <1>2 DEF NativeEnd
  <2>2. Top.fn \in Natives /\ Top.fn # "executeCode" /\ Len(frames) = Top.frames
        /\ Len(frames) \in 1..Len(frames) /\ Len(frames) > 0
    <3>1. Top.fn \in Natives /\ Top.fn # "executeCode"
      BY <2>1, NativePhase
    <3>2. Len(frames) \in 1..Len(frames) /\ Len(frames) = Top.frames
      BY <3>1, TopNative DEF Inv, TopOK
    <3> QED  BY <3>1, <3>2
  <2>3. \A i \in 1..(Len(frames) - 1) : GuardedBy(host', i) <=> GuardedBy(host, i)
    <3>1. \A i \in 1..(Len(frames) - 1) : i # Top.frames
      BY <2>2
    <3> QED  BY <2>1, <3>1, GuardsPopped
  <2>4. ret.error => ~GuardedBy(host, Len(frames))
    <3> SUFFICES ASSUME ret.error, GuardedBy(host, Len(frames)) PROVE FALSE
      OBVIOUS
    <3>1. PICK k \in 1..Len(host) : /\ host[k].frames = Top.frames
                                    /\ host[k].phase \in {"start", "guarded"}
      BY <2>2 DEF GuardedBy
    <3>2. Len(host) \in 1..Len(host) /\ Top = host[Len(host)] /\ Top.frames \in Nat
      BY HostFacts DEF Inv
    <3>3. k # Len(host)
      BY <2>1, <3>1, <3>2
    <3>4. k < Len(host)
      BY <3>2, <3>3
    <3>5. host[k].frames < Top.frames
      BY <2>2, <3>2, <3>4 DEF Inv, HostOK
    <3> QED  BY <3>1, <3>2, <3>5
  <2> QED  BY <2>1, <2>2, <2>3, <2>4, EndSeen
<1> QED  BY <1>1, <1>2

(* executeCode leaves its loop: no frame goes.                              *)
LEMMA ExecuteReturnSeen ==
  ASSUME Inv, ExecuteReturn
  PROVE  Unseen
<1>1. /\ ret = NoRet /\ ret' = Ok(Peek(0)) /\ Top.fn = "executeCode"
      /\ frames' = frames /\ host' = Bottom(host, Len(host) - 1)
  BY DEF ExecuteReturn
<1>2. \A i \in 1..Len(frames) : GuardedBy(host', i) <=> GuardedBy(host, i)
  BY <1>1, GuardsPopped
<1>3. Active' = Active
  BY <1>1, <1>2, KindsSame DEF Active
<1> QED  BY <1>1, <1>3 DEF Unseen, Ok, NoRet

(* OP_CALL of a func thing: its frame is guarded by nobody.                 *)
LEMMA CallDefSeen ==
  ASSUME Inv, Inv', CallDef
  PROVE  CallsOf!Next
<1>1. /\ InLoop /\ host' = host /\ ret' = ret
      /\ frames' = Append(SetIndex(Frame.index + 1), DefFrame(Callee.entry + 1, NewScope))
  BY DEF CallDef, Executing
<1>2. SetIndex(Frame.index + 1) \in Seq(FrameType)
      /\ Len(SetIndex(Frame.index + 1)) = Len(frames)
  <2>1. Executing("CALL")
    BY DEF CallDef
  <2>2. InLoop /\ FallsThrough(Ins)
    BY <2>1, CallOperands
  <2>3. Frame.index + 1 \in DOMAIN Code /\ Frame.type = "DEF"
    BY <2>2, Fetch
  <2>4. Len(frames) > 0
    BY <2>2, InCode DEF InLoop
  <2> QED  BY <2>3, <2>4, SetIndexLemma DEF Inv
<1>3. Len(frames') = Len(frames) + 1 /\ Len(frames) \in Nat
  <2>1. PICK q, g : q = SetIndex(Frame.index + 1) /\ g = DefFrame(Callee.entry + 1, NewScope)
    OBVIOUS
  <2>2. q \in Seq(FrameType \cup {g}) /\ g \in FrameType \cup {g}
    BY <1>2, <2>1, SeqMono
  <2> QED  BY <1>1, <1>2, <2>1, <2>2, AppendLemma
<1>4. Active' = Append(Active, KindOf(host, Len(frames) + 1))
  <2>1. PICK n \in Nat : n = Len(frames)
    BY <1>3
  <2>2. KindsOf(host, n + 1) = Append(KindsOf(host, n), KindOf(host, n + 1))
    BY KindsPushed
  <2> QED  BY <1>1, <1>3, <2>1, <2>2 DEF Active
<1>5. ~ret.error /\ ~ret'.error /\ TypeOK /\ TypeOK'
  BY <1>1 DEF Inv, InLoop, NoRet
<1>6. KindOf(host, Len(frames) + 1) \in Kinds
  BY DEF KindOf, Kinds
<1> QED  BY <1>4, <1>5, <1>6, Invokes

(* A native function that calls back is entered by a caller that guards     *)
(* what c says, with a frame of its own.                                    *)
LEMMA EnterSeen ==
  ASSUME Inv, NEW f, NEW args, NEW st, NEW S, NEW c \in Seq(S), EnterNative(f, args, st, c)
  PROVE  ~ret'.error /\ \E k \in Kinds : Active' = Append(KindsOf(c, Len(frames)), k)
<1>1. PICK a : a = Activation(NativeName(f), "start", Append(frames, NativeFrame), st,
                              IF f.type = "VARARG"
                              THEN <<Held(f)[1], Ref("LIST", Len(things) + 1)>> ELSE args)
  OBVIOUS
<1>2. frames' = Append(frames, NativeFrame) /\ host' = Append(c, a) /\ ret' = NoRet
  BY <1>1 DEF EnterNative
<1>3. PICK n \in Nat : n = Len(frames)
  BY DEF Inv, TypeOK
<1>4. Len(Append(frames, NativeFrame)) = n + 1
  <2>1. PICK g : g = NativeFrame
    OBVIOUS
  <2>2. frames \in Seq(FrameType \cup {g}) /\ g \in FrameType \cup {g}
    BY SeqMono DEF Inv, TypeOK
  <2> QED  BY <1>3, <2>1, <2>2, AppendLemma
<1>5. a.frames = n + 1
  BY <1>1, <1>4 DEF Activation
<1>6. \A i \in 1..n : GuardedBy(host', i) <=> GuardedBy(c, i)
  <2>1. \A i \in 1..n : a.frames # i
    BY <1>5
  <2> QED  BY <1>2, <2>1, GuardsPushed
<1>7. KindsOf(host', n + 1) = Append(KindsOf(c, n), KindOf(host', n + 1))
  <2>1. PICK d : d = host'
    OBVIOUS
  <2> QED  BY <1>6, <2>1, KindsPushed
<1>8. KindOf(host', n + 1) \in Kinds
  BY DEF KindOf, Kinds
<1>9. Active' = KindsOf(host', n + 1)
  BY <1>2, <1>4 DEF Active
<1> QED  BY <1>2, <1>3, <1>7, <1>8, <1>9 DEF NoRet

(* callFunction begins a call, or has its result at once.                   *)
LEMMA CallFunctionSeen ==
  ASSUME Inv, NEW f, NEW args, NEW S, NEW c \in Seq(S), callFunction(f, args, c)
  PROVE  \/ ~ret'.error /\ \E k \in Kinds : Active' = Append(KindsOf(c, Len(frames)), k)
         \/ Active' = KindsOf(c, Len(frames))
<1>1. CASE /\ frames' = Append(frames, DefFrame(f.entry + 1, NewScope))
           /\ host' = Append(c, Activation("executeCode", "loop", frames, stack, <<>>))
           /\ ret' = NoRet
  <2>1. PICK a, g :
          /\ a = Activation("executeCode", "loop", frames, stack, <<>>)
          /\ g = DefFrame(f.entry + 1, NewScope)
    OBVIOUS
  <2>2. host' = Append(c, a) /\ frames' = Append(frames, g) /\ a.fn # "libTryCatch"
    BY <1>1, <2>1 DEF Activation
  <2>3. PICK n \in Nat : n = Len(frames)
    BY DEF Inv, TypeOK
  <2>4. frames \in Seq(FrameType \cup {g}) /\ g \in FrameType \cup {g}
    BY SeqMono DEF Inv, TypeOK
  <2>5. Len(frames') = n + 1
    BY <2>2, <2>3, <2>4, AppendLemma
  <2>6. \A i \in 1..n : GuardedBy(host', i) <=> GuardedBy(c, i)
    BY <2>2, GuardsPushed
  <2>7. KindsOf(host', n + 1) = Append(KindsOf(c, n), KindOf(host', n + 1))
    <3>1. PICK d : d = host'
      OBVIOUS
    <3> QED  BY <2>6, <3>1, KindsPushed
  <2>8. KindOf(host', n + 1) \in Kinds
    BY DEF KindOf, Kinds
  <2>9. Active' = KindsOf(host', n + 1)
    BY <2>5 DEF Active
  <2> QED  BY <1>1, <2>3, <2>7, <2>8, <2>9 DEF NoRet
<1>2. CASE host' = c /\ frames' = frames
  BY <1>2 DEF Active
<1>3. CASE EnterNative(f, args, stack, c)
  BY <1>3, EnterSeen
<1> QED  BY <1>1, <1>2, <1>3 DEF callFunction

(* A caller that is not about to catch: the call is one of Calls, or its    *)
(* error begins or goes on, or there is nothing to see.                     *)
LEMMA CallerSeen ==
  ASSUME Inv, Inv', ~ret.error, NEW f, NEW args, NEW S, NEW c \in Seq(S),
         \A i \in 1..Len(frames) : GuardedBy(c, i) <=> GuardedBy(host, i),
         callFunction(f, args, c)
  PROVE  CallsOf!Next \/ Unseen
<1>1. KindsOf(c, Len(frames)) = Active
  BY KindsSame DEF Active
<1>2. TypeOK /\ TypeOK'
  BY DEF Inv
<1>3. CASE ~ret'.error /\ \E k \in Kinds : Active' = Append(Active, k)
  BY <1>2, <1>3, Invokes
<1>4. CASE Active' = Active /\ ~ret'.error
  BY <1>2, <1>4, ActiveMapped, ActiveMappedNext DEF Unseen
<1>5. CASE Active' = Active /\ ret'.error
  <2>1. Active \in Seq(Kinds) /\ Len(Active) = Len(frames) /\ Len(frames) \in Nat
    BY <1>2, ActiveMapped
  <2>2. PICK q \in Seq(Kinds) : q = Active
    BY <2>1
  <2>3. SubSeq(q, 1, Len(q)) = q
    <3>1. /\ Bottom(q, Len(q)) \in Seq(Kinds) /\ Len(Bottom(q, Len(q))) = Len(q)
          /\ \A i \in 1..Len(q) : Bottom(q, Len(q))[i] = q[i]
      BY BottomLemma
    <3>2. PICK b \in Seq(Kinds) : b = Bottom(q, Len(q))
      BY <3>1
    <3>3. b = q
      BY <3>1, <3>2, SeqEqual
    <3> QED  BY <3>2, <3>3 DEF Bottom
  <2>4. Active' = SubSeq(Active, 1, Len(frames))
    BY <1>5, <2>1, <2>2, <2>3
  <2>5. Len(frames) \in 0..Len(frames) /\ (Len(frames) + 1)..Len(frames) = {}
    BY <2>1
  <2> QED  BY <1>2, <1>5, <2>4, <2>5, Raising
<1> QED  BY <1>1, <1>3, <1>4, <1>5, CallFunctionSeen

(* A frame that moves on stays where it is.                                 *)
LEMMA MovingSeen ==
  ASSUME Inv, NEW pc, frames' = SetIndex(pc), host' = host, ret'.error = ret.error
  PROVE  Unseen
<1> DEFINE g == [frames[Len(frames)] EXCEPT !.index = pc]
<1>1. SetIndex(pc) = [frames EXCEPT ![Len(frames)] = g]
  BY DEF SetIndex
<1> HIDE DEF g
<1>2. Len(frames') = Len(frames)
  BY <1>1 DEF Inv, TypeOK
<1> QED  BY <1>2, GoingOnSeen

(* The instructions that call nothing.                                      *)
LEMMA InstructionsSeen ==
  ASSUME Inv,
         \/ PushConstant \/ PushNone \/ PushBuiltin \/ CreateFunc \/ Load \/ Store
         \/ Dup \/ Rot3 \/ Swap \/ Pop \/ CheckNone \/ CondJumpFalse \/ AbsJump
  PROVE  Unseen
<1>1. host' = host /\ ret' = ret /\ \E pc : frames' = SetIndex(pc)
  BY DEF PushConstant, PushNone, PushBuiltin, CreateFunc, Load, Store, Dup, Rot3, Swap, Pop,
         CheckNone, CondJumpFalse, AbsJump, Continue
<1> QED  BY <1>1, MovingSeen

(* OP_CALL of a native function, and its end.                               *)
LEMMA CallsSeen ==
  ASSUME Inv, Inv', CallNative \/ CallCallback \/ NativeReturned
  PROVE  CallsOf!Next \/ Unseen
<1>1. CASE CallNative
  <2>1. Executing("CALL") /\ \E r \in NativeResults(Callee, Arguments) :
          IF r.ret.error
          THEN Fail(r.ret)
          ELSE Continue(Append(Drop(CallArity + 1), r.ret.value))
    BY <1>1 DEF CallNative
  <2>2. Top.fn = "executeCode" /\ Len(frames) > Top.frames
    BY <2>1, Fetch DEF Executing
  <2>3. CASE \E r : r.error /\ Fail(r)
    BY <2>2, <2>3, FailSeen
  <2>4. CASE \E st : Continue(st)
    BY <2>4, MovingSeen DEF Continue
  <2> QED  BY <2>1, <2>3, <2>4
<1>2. CASE CallCallback
  <2>1. InLoop /\ EnterNative(Callee, Arguments, Drop(CallArity + 1), host)
    BY <1>2 DEF CallCallback, Executing
  <2>2. host \in Seq(ActivationType) /\ TypeOK /\ TypeOK'
    BY DEF Inv, TypeOK
  <2>3. ~ret'.error /\ \E k \in Kinds : Active' = Append(Active, k)
    BY <2>1, <2>2, EnterSeen DEF Active
  <2>4. ~ret.error
    BY <2>1 DEF InLoop, NoRet
  <2> QED  BY <2>2, <2>3, <2>4, Invokes
<1>3. CASE NativeReturned
  <2>1. Top.fn = "executeCode" /\ ret # NoRet /\ Top.frames < Len(frames)
    BY <1>3 DEF NativeReturned, Inv, TopOK
  <2>2. Len(frames) > Top.frames
    BY <2>1, HostFacts DEF Inv, TypeOK
  <2>3. CASE ret.error
    BY <1>3, <2>1, <2>2, <2>3, FailSeen DEF NativeReturned
  <2>4. CASE ~ret.error
    <3>1. frames' = SetIndex(Frame.index + 1) /\ host' = host /\ ret' = NoRet
      BY <1>3, <2>4 DEF NativeReturned
    <3>2. ret'.error = ret.error
      BY <2>4, <3>1, ActiveMapped DEF NoRet, Inv
    <3> QED  BY <3>1, <3>2, MovingSeen
  <2> QED  BY <2>3, <2>4
<1> QED  BY <1>1, <1>2, <1>3

(* The errors of executeCode.                                               *)
LEMMA ErrorsSeen ==
  ASSUME Inv, Inv', ExecuteError
  PROVE  CallsOf!Next
<1>1. Frame.type = "DEF" /\ Len(frames) > Top.frames /\ Top.fn = "executeCode"
  BY Fetch DEF ExecuteError
<1>2. PICK m :
        /\ Raises(m)
        /\ m # "native frame" => Fail(Throw(m))
  BY DEF ExecuteError
<1>3. m # "native frame"
  BY <1>1, <1>2 DEF Raises
<1>4. PICK r : r.error /\ Fail(r)
  BY <1>2, <1>3 DEF Throw
<1> QED  BY <1>1, <1>4, FailSeen

(* libTryCatch, libCall and VarargThing::call make their first call.        *)
LEMMA NativeStartSeen ==
  ASSUME Inv, Inv', NativeStart
  PROVE  CallsOf!Next \/ Unseen
<1>1. ret = NoRet /\ Top.phase = "start" /\ ~ret.error
  BY DEF NativeStart, NoRet
<1>2. Top.fn \in Natives
  BY <1>1, NativePhase
<1>3. PICK f, args, p : /\ callFunction(f, args, Phase(p))
                        /\ Top.fn = "libTryCatch" => p = "guarded"
  BY <1>2 DEF NativeStart, Natives
<1>4. PICK c : c = Phase(p)
  OBVIOUS
<1>5. /\ c \in Seq(ActivationType \cup {[Top EXCEPT !.phase = p]})
      /\ \A i : GuardedBy(c, i) <=> GuardedBy(host, i)
  BY <1>1, <1>3, <1>4, GuardsPhased
<1>6. callFunction(f, args, c)
  BY <1>3, <1>4
<1> QED  BY <1>1, <1>5, <1>6, CallerSeen

(* execFunc calls main, or is done.                                         *)
LEMMA ExecFuncSeen ==
  ASSUME Inv, Inv', ModuleReturned \/ MainReturned
  PROVE  CallsOf!Next \/ Unseen
<1>1. Top.fn = "execFunc" /\ Top.fn # "libTryCatch"
  BY DEF ModuleReturned, MainReturned
<1>2. TypeOK /\ TypeOK'
  BY DEF Inv
<1>3. ASSUME NEW p, NEW c, c = Phase(p)
      PROVE  /\ c \in Seq(ActivationType \cup {[Top EXCEPT !.phase = p]})
             /\ \A i : GuardedBy(c, i) <=> GuardedBy(host, i)
  BY <1>1, <1>3, GuardsPhased
<1>4. CASE ModuleReturned /\ ~ret.error /\ Main # Null /\ Main.type = "FUNC"
  <2>1. PICK f, args, c : callFunction(f, args, c) /\ c = Phase("main")
    BY <1>4 DEF ModuleReturned
  <2> QED  BY <1>3, <1>4, <2>1, CallerSeen
<1>5. CASE ~(ModuleReturned /\ ~ret.error /\ Main # Null /\ Main.type = "FUNC")
  <2>1. host' = Phase("done") /\ frames' = frames /\ (ret' = ret \/ ret'.error)
    <3>1. CASE ModuleReturned
      <4>1. /\ frames' = frames /\ host' = Phase("done")
            /\ ret' = IF ret.error THEN ret
                      ELSE IF Main = Null THEN Throw("function not found")
                      ELSE Throw("not a function")
        BY <1>5, <3>1 DEF ModuleReturned
      <4>2. Throw("function not found").error /\ Throw("not a function").error
        BY DEF Throw
      <4> QED  BY <4>1, <4>2
    <3>2. CASE MainReturned
      BY <3>2 DEF MainReturned
    <3> QED  BY <3>1, <3>2
  <2>2. Active' = Active
    BY <1>3, <2>1, KindsSame DEF Active
  <2>3. CASE ret' = ret
    BY <2>2, <2>3 DEF Unseen
  <2>4. CASE ret'.error
    <3>1. Len(frames) = 0
      BY <1>1, TopExecFunc DEF Inv
    <3>2. Active = <<>>
      BY <1>2, <3>1, ActiveMapped
    <3>3. SubSeq(Active, 1, 0) = <<>> /\ 0 \in 0..Len(frames) /\ 1..Len(frames) = {}
      BY <3>1, <3>2
    <3> QED  BY <1>2, <2>2, <2>4, <3>2, <3>3, Raising
  <2> QED  BY <2>1, <2>3, <2>4
<1> QED  BY <1>4, <1>5

(* libTryCatch calls its handler: the innermost guard gives way.            *)
LEMMA CatchSeen ==
  ASSUME Inv, Inv', Catch
  PROVE  CallsOf!Next
<1>1. /\ Top.phase = "guarded" /\ ret.error
      /\ \E f, args : callFunction(f, args, Phase("final"))
  BY DEF Catch
<1>2. Top.fn \in Natives /\ Top.fn = "libTryCatch" /\ Top.fn # "executeCode"
  BY <1>1, NativePhase
<1>3. /\ Len(frames) = Top.frames /\ Len(frames) \in Nat \ {0}
      /\ Len(host) \in 1..Len(host) /\ Top = host[Len(host)]
  <2>1. Len(frames) \in 1..Len(frames)
    BY <1>2, TopNative DEF Inv
  <2> QED  BY <1>2, <2>1, HostFacts DEF Inv, TopOK
<1>4. GuardedBy(host, Len(frames))
  BY <1>1, <1>2, <1>3 DEF GuardedBy
<1>5. PICK n \in Nat \ {0} : n = Len(frames)
  BY <1>3
<1>6. PICK c : c = Phase("final")
  OBVIOUS
<1>7. /\ c \in Seq(ActivationType \cup {[Top EXCEPT !.phase = "final"]})
      /\ ~GuardedBy(c, n) /\ \A i \in 1..(n - 1) : GuardedBy(c, i) <=> GuardedBy(host, i)
  <2>1. \A i \in 1..(n - 1) : i # Top.frames
    BY <1>3, <1>5
  <2> QED  BY <1>2, <1>3, <1>5, <1>6, <2>1, GuardsPhased
<1>8. PICK released : released = KindsOf(c, Len(frames))
  OBVIOUS
<1>9. released = SubSeq(Active, 1, Len(frames) - 1) \o <<"plain">>
  BY <1>5, <1>7, <1>8, KindsReleased DEF Active
<1>10. \/ ~ret'.error /\ \E k \in Kinds : Active' = Append(released, k)
       \/ Active' = released
  BY <1>1, <1>6, <1>7, <1>8, CallFunctionSeen
<1>11. TypeOK /\ TypeOK' /\ Len(frames) > 0
  BY <1>3 DEF Inv
<1> QED  BY <1>1, <1>4, <1>9, <1>10, <1>11, Catches

-----------------------------------------------------------------------------
(* The theorem.                                                             *)

(* What Calls sees of the interpreter.                                      *)
Seen == <<[i \in DOMAIN frames |-> IF Guarding(i) THEN "guard" ELSE "plain"], ret.error>>

(* Every step of the interpreter is a step of Calls, or none.               *)
LEMMA StepSeen ==
  ASSUME Inv, Inv', [Next]_vars
  PROVE  CallsOf!Next \/ UNCHANGED Seen
<1>1. CASE Step
  <2>1. ASSUME Interpret PROVE CallsOf!Next \/ Unseen
    BY <2>1, InstructionsSeen, CallDefSeen, CallsSeen, ReturnsSeen, ExecuteReturnSeen, ErrorsSeen
       DEF Interpret
  <2>2. ASSUME NativeStart \/ Catch \/ NativeEnd \/ ModuleReturned \/ MainReturned
        PROVE  CallsOf!Next \/ Unseen
    BY <2>2, NativeStartSeen, CatchSeen, ReturnsSeen, ExecFuncSeen
  <2>3. CallsOf!Next \/ Unseen
    BY <1>1, <2>1, <2>2 DEF Step
  <2>4. TypeOK /\ TypeOK'
    BY DEF Inv
  <2> QED  BY <2>3, <2>4, ActiveMapped, ActiveMappedNext DEF Unseen, Seen
<1>2. CASE UNCHANGED vars
  BY <1>2 DEF vars, Seen, Guarding
<1>3. Step \/ UNCHANGED vars
  BY DEF Next, Finished
<1> QED  BY <1>1, <1>2, <1>3

(* The interpreter implements Calls (executeCode, callFunction, libTryCatch,*)
(* libCall, VarargThing::call): calls nest, an error gives them up from the *)
(* inside out and stops at the innermost trycatch whose block it leaves.    *)
THEOREM InterpreterImplementsCalls == Spec => ImplementsCalls
<1>1. Init => CallsOf!Init
  <2> SUFFICES ASSUME Init PROVE CallsOf!Init
    OBVIOUS
  <2>1. /\ Len(frames) = 1 /\ DOMAIN frames = 1..1 /\ ~ret.error /\ ret.error = FALSE
        /\ \A k \in 1..Len(host) : host[k].fn # "libTryCatch"
    BY DEF Init, Activation, NoRet
  <2>2. [i \in DOMAIN frames |-> IF Guarding(i) THEN "guard" ELSE "plain"] = <<"plain">>
    <3>1. [i \in DOMAIN frames |-> IF Guarding(i) THEN "guard" ELSE "plain"]
            = [i \in 1..1 |-> "plain"]
      BY <2>1 DEF Guarding
    <3> QED  BY <3>1
  <2> QED  BY <2>1, <2>2 DEF CallsOf!Init
<1>2. Inv /\ Inv' /\ [Next]_vars => [CallsOf!Next]_Seen
  BY StepSeen
<1> QED  BY <1>1, <1>2, Invariance, PTL DEF Spec, ImplementsCalls, CallsOf!Spec, Seen
=============================================================================
