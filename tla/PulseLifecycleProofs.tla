------------------------- MODULE PulseLifecycleProofs -------------------------
(***************************************************************************)
(* Proofs about PulseLifecycle, for any loops, rhythms, leases and cycles: *)
(* the loops use the store as PulseStore says it is used, and so inherit   *)
(* what PulseStoreProofs shows of it.                                      *)
(***************************************************************************)
EXTENDS PulseLifecycle, PulseStoreProofs

\* Every step of the loops is a step of the store, or leaves it alone.
LEMMA LoopStepRefines ==
  ASSUME LoopNext
  PROVE  [Next]_vars
<1>1. ASSUME NEW w \in Worker, LoopStep(w) PROVE [Next]_vars
  <2>1. CASE List(w) \/ ListFails(w) \/ Doze(w) \/ Wake(w)
    BY <2>1 DEF List, ListFails, Doze, Wake
  <2>2. ASSUME NEW k \in Key, Poll(w, k) PROVE [Next]_vars
    BY <2>2 DEF Poll, Next
  <2>3. CASE Fire(w)
    BY <2>3 DEF Fire, Next
  <2> QED
    BY <1>1, <2>1, <2>2, <2>3 DEF LoopStep, Tick
<1>2. ASSUME NEW w \in Worker, AppStep(w) PROVE [Next]_vars
  <2>1. CASE Begin(w) \/ Stop(w)
    BY <2>1 DEF Begin, Stop
  <2>2. CASE Crash(w)
    BY <2>2 DEF Crash, Next, Work
  <2> QED
    BY <1>2, <2>1, <2>2 DEF AppStep
<1> QED
  BY <1>1, <1>2 DEF LoopNext, Next

\* A store shared by loops that walk, stop and die is the store that PulseStore
\* specifies: nothing the loops do is outside of it.
THEOREM LoopsUseTheStore == LoopSpec => Spec
<1>1. LoopInit => Init
  BY DEF LoopInit
<1>2. [LoopNext]_loopVars => [Next]_vars
  BY LoopStepRefines DEF loopVars, vars
<1> QED
  BY <1>1, <1>2, PTL DEF LoopSpec, Spec

\* At most one loop owns a rhythm's firing, whatever loops come, go and die.
THEOREM LoopsOwnAlone == LoopSpec => []OneOwner
BY LoopsUseTheStore, AtMostOneOwner

\* No loop overwrites a state its firing did not evaluate.
THEOREM LoopsLoseNoUpdate == LoopSpec => []SnapshotCurrent
BY LoopsUseTheStore, NoLostUpdate

-----------------------------------------------------------------------------
\* While run() is under way, its flag is down exactly when its event is set.
LoopIInv ==
  /\ LoopTypeOK
  /\ \A w \in Worker : mode[w] # "off" => running[w] = ~stopping[w]

LEMMA LoopInitIInv == LoopInit => LoopIInv
BY DEF LoopInit, LoopIInv, LoopTypeOK

LEMMA LoopNextIInv == LoopIInv /\ TypeOK /\ [LoopNext]_loopVars => LoopIInv'
<1> SUFFICES ASSUME LoopIInv, TypeOK, [LoopNext]_loopVars PROVE LoopIInv'
  OBVIOUS
<1> USE DEF LoopIInv, LoopTypeOK
<1>1. CASE UNCHANGED lifeVars
  BY <1>1 DEF lifeVars
<1>2. ASSUME NEW w \in Worker, LoopStep(w) PROVE LoopIInv'
  <2>1. CASE List(w) \/ ListFails(w)
    BY <2>1 DEF List, ListFails, Goto
  <2>2. ASSUME NEW k \in Key, Poll(w, k) PROVE LoopIInv'
    <3>1. /\ rest' = [rest EXCEPT ![w] = @ \ {k}]
          /\ UNCHANGED <<mode, running, stopping, wake>>
      BY <2>2 DEF Poll
    <3> QED
      BY <3>1
  <2>3. CASE Fire(w)
    BY <2>3, <1>1 DEF Fire
  <2>4. CASE Doze(w)
    <3>1. now + Cycle \in Nat
      BY CycleAssumption, TimeAssumption DEF TypeOK
    <3>2. CASE running[w]
      <4>1. /\ mode' = [mode EXCEPT ![w] = "asleep"]
            /\ wake' = [wake EXCEPT ![w] = now + Cycle]
            /\ running' = running /\ stopping' = stopping /\ rest' = rest
            /\ mode[w] = "walk"
        BY <2>4, <3>2 DEF Doze, Goto
      <4> QED
        BY <3>1, <4>1
    <3>3. CASE ~running[w]
      <4>1. /\ mode' = [mode EXCEPT ![w] = "off"]
            /\ running' = [running EXCEPT ![w] = FALSE]
            /\ stopping' = [stopping EXCEPT ![w] = FALSE]
            /\ wake' = wake /\ rest' = rest
        BY <2>4, <3>3 DEF Doze, Goto, Over
      <4> QED
        BY <4>1
    <3> QED
      BY <3>2, <3>3
  <2>5. CASE Wake(w)
    <3>1. /\ rest' = rest /\ wake' = [wake EXCEPT ![w] = 0]
          /\ mode[w] = "asleep"
          /\ \/ /\ mode' = [mode EXCEPT ![w] = "tick"]
                /\ running' = running /\ stopping' = stopping
             \/ /\ mode' = [mode EXCEPT ![w] = "off"]
                /\ running' = [running EXCEPT ![w] = FALSE]
                /\ stopping' = [stopping EXCEPT ![w] = FALSE]
      BY <2>5 DEF Wake, Woken, Goto, Over
    <3>2. CASE /\ mode' = [mode EXCEPT ![w] = "tick"]
               /\ running' = running /\ stopping' = stopping
      BY <3>1, <3>2
    <3>3. CASE /\ mode' = [mode EXCEPT ![w] = "off"]
               /\ running' = [running EXCEPT ![w] = FALSE]
               /\ stopping' = [stopping EXCEPT ![w] = FALSE]
      BY <3>1, <3>3
    <3> QED
      BY <3>1, <3>2, <3>3
  <2> QED
    BY <1>2, <2>1, <2>2, <2>3, <2>4, <2>5 DEF LoopStep, Tick
<1>3. ASSUME NEW w \in Worker, AppStep(w) PROVE LoopIInv'
  <2>1. CASE Begin(w)
    BY <2>1 DEF Begin, Goto
  <2>2. CASE Stop(w)
    BY <2>2 DEF Stop
  <2>3. CASE Crash(w)
    <3>1. /\ rest' = [rest EXCEPT ![w] = {}] /\ wake' = [wake EXCEPT ![w] = 0]
          /\ mode' = [mode EXCEPT ![w] = "off"]
          /\ running' = [running EXCEPT ![w] = FALSE]
          /\ stopping' = [stopping EXCEPT ![w] = FALSE]
          /\ mode[w] # "off"
      BY <2>3 DEF Crash, Over, Goto
    <3> QED
      BY <3>1
  <2> QED
    BY <1>3, <2>1, <2>2, <2>3 DEF AppStep
<1> QED
  BY <1>1, <1>2, <1>3 DEF LoopNext, loopVars, lifeVars

\* The loops' own state keeps its types: where each is in its tick, its flag and
\* its event, the rhythms it has yet to poll, and when it wakes.
THEOREM LoopTypeCorrect == LoopSpec => []LoopTypeOK
<1>1. LoopSpec => []TypeOK
  BY LoopsUseTheStore, TypeCorrect
<1>2. LoopIInv => LoopTypeOK
  BY DEF LoopIInv
<1> QED
  BY <1>1, <1>2, LoopInitIInv, LoopNextIInv, PTL DEF LoopSpec

\* stop() interrupts the sleep of any loop, whenever it comes.
THEOREM PromptStop == LoopSpec => []StopIsPrompt
<1>1. LoopSpec => []TypeOK
  BY LoopsUseTheStore, TypeCorrect
<1>2. LoopIInv => StopIsPrompt
  BY DEF LoopIInv, LoopTypeOK, StopIsPrompt
<1> QED
  BY <1>1, <1>2, LoopInitIInv, LoopNextIInv, PTL DEF LoopSpec
=============================================================================
