-------------------------- MODULE AgentLoopProofs --------------------------
(***************************************************************************)
(* Proofs about AgentLoop, for any registry, any answers of the provider   *)
(* and any cap.                                                            *)
(***************************************************************************)
EXTENDS AgentLoop, SequenceTheorems, WellFoundedInduction, TLAPS

\* What the run keeps, as far as the proofs need it.
Typed ==
  /\ phase \in {"asking", "gathering", "ended"}
  /\ round \in 0..MaxIterations
  /\ total \in Nat
  /\ answers \in Seq(Answer)
  /\ batch \in Seq(STRING)
  /\ finished \in Seq(ToolResult)
  /\ executed \in Seq(ExecutedAction)

\* One answer per iteration, and a second one at the cap only for the retry.
AnswersCounted ==
  /\ total = Len(answers)
  /\ budget = IF retried THEN 2 ELSE 1
  /\ phase = "asking" =>
       \/ Len(answers) = round
       \/ round = MaxIterations /\ retried /\ Len(answers) = round + 1
  /\ phase = "gathering" => round < MaxIterations /\ Len(answers) = round + 1
  /\ phase = "ended" => /\ Len(answers) <= MaxIterations + 2
                        /\ outcome.usage \in {0, total}
  /\ phase # "ended" => outcome = Nothing

\* The tools in flight are the ones the last answer called.
BatchOfLast ==
  phase = "gathering" => answers # <<>> /\ batch = answers[Len(answers)].calls

\* A run that has been answered asks again only if the reply does not stand.
Unanswered ==
  phase = "asking" /\ answers # <<>> =>
    LET last == answers[Len(answers)] IN
    ~ (said # <<>> /\ last.calls # <<>> /\ AllTerminal(last.calls))

IInv == Typed /\ AnswersCounted /\ BatchOfLast /\ Unanswered /\ ResultsAreSeen

LEMMA AnswerType ==
  ASSUME NEW r \in Answer
  PROVE  r.text \in Text /\ r.calls \in Seq(STRING)
  BY AnswerAssumption

LEMMA ReceivedType ==
  ASSUME Typed, NEW r \in Answer, Received(r)
  PROVE  /\ answers' \in Seq(Answer) /\ answers' # <<>>
         /\ Len(answers') = Len(answers) + 1
         /\ answers'[Len(answers')] = r
         /\ \A n \in DOMAIN answers' : n < Len(answers') \/ answers'[n] = r
         /\ total' \in Nat
<1>1. answers \in Seq(Answer) /\ answers' = Append(answers, r)
  BY DEF Typed, Received
<1>2. total' \in Nat
  BY DEF Typed, Received
<1> QED  BY <1>1, <1>2

LEMMA GatheredType ==
  ASSUME Typed, \A k \in DOMAIN batch : ~Running(k)
  PROVE  /\ Results \in Seq(ToolResult)
         /\ DOMAIN Results = DOMAIN batch
         /\ \A k \in DOMAIN batch : \E f \in DOMAIN finished :
              Results[k] = finished[f] /\ finished[f].call = Call(k)
<1>1. \A k \in DOMAIN batch : \E f \in DOMAIN finished :
        Results[k] = finished[f] /\ finished[f].call = Call(k)
  BY DEF Results, Running
<1>2. \A k \in DOMAIN batch : Results[k] \in ToolResult
  BY <1>1 DEF Typed
<1>3. DOMAIN batch = 1..Len(batch) /\ Len(batch) \in Nat
  BY DEF Typed
<1> QED  BY <1>1, <1>2, <1>3 DEF Results

LEMMA InitIInv == Init => IInv
<1> SUFFICES ASSUME Init PROVE IInv
  OBVIOUS
<1>1. Typed
  BY CapAssumption DEF Init, Typed
<1>2. AnswersCounted
  BY CapAssumption DEF Init, AnswersCounted
<1>3. BatchOfLast /\ Unanswered /\ ResultsAreSeen
  BY DEF Init, BatchOfLast, Unanswered, ResultsAreSeen, Ended, Returned, Nothing
<1> QED  BY <1>1, <1>2, <1>3 DEF IInv

-----------------------------------------------------------------------------
(* One lemma per conjunct, one step per action *)

LEMMA NextTyped == Typed /\ AnswersCounted /\ [Next]_vars => Typed'
<1> SUFFICES ASSUME Typed, AnswersCounted, [Next]_vars PROVE Typed'
  OBVIOUS
<1> USE CapAssumption
<1>1. ASSUME NEW r \in Answer, Refuse(r) \/ Reply(r) \/ FinalAnswer(r)
      PROVE  Typed'
  <2>1. answers' \in Seq(Answer) /\ total' \in Nat
    BY <1>1, ReceivedType DEF Refuse, Reply, FinalAnswer
  <2>2. phase' = "ended" /\ UNCHANGED <<round, executed, batch, finished>>
    BY <1>1 DEF Refuse, Reply, FinalAnswer, Return, requestVars
  <2> QED  BY <2>1, <2>2 DEF Typed
<1>2. ASSUME NEW r \in Answer, RetryBudget(r) \/ RetryFinal(r)
      PROVE  Typed'
  <2>1. answers' \in Seq(Answer) /\ total' \in Nat
    BY <1>2, ReceivedType DEF RetryBudget, RetryFinal
  <2>2. UNCHANGED <<phase, executed, batch, finished>>
    BY <1>2 DEF RetryBudget, RetryFinal
  <2>3. round' \in 0..MaxIterations
    BY <1>2 DEF RetryBudget, RetryFinal, InLoop, Typed
  <2> QED  BY <2>1, <2>2, <2>3 DEF Typed
<1>3. ASSUME NEW r \in Answer, CallTools(r)
      PROVE  Typed'
  BY <1>3, AnswerType DEF CallTools, Received, Typed
<1>4. ASSUME NEW k \in DOMAIN batch, Execute(k)
      PROVE  Typed'
  <2>1. k \in Nat /\ Len(answers) \in Nat
    BY DEF Typed
  <2>2. \A failed \in BOOLEAN :
          [call |-> Call(k), failed |-> failed] \in ToolResult
    BY <2>1 DEF ToolResult, Call
  <2>3. finished' \in Seq(ToolResult)
    BY <1>4, <2>2 DEF Execute, Typed
  <2> QED  BY <1>4, <2>3 DEF Execute, Typed, requestVars, trailVars
<1>5. ASSUME Gather
      PROVE  Typed'
  <2>1. executed' \in Seq(ExecutedAction)
    BY <1>5, GatheredType DEF Gather, Typed, ExecutedAction
  <2>2. round' \in 0..MaxIterations
    BY <1>5 DEF Gather, Typed, AnswersCounted
  <2>3. phase' \in {"asking", "gathering", "ended"}
    BY <1>5 DEF Gather, Return
  <2> QED  BY <1>5, <2>1, <2>2, <2>3 DEF Gather, Typed
<1>6. ASSUME ProviderFails \/ OtherFailure
      PROVE  Typed'
  BY <1>6
  DEF ProviderFails, OtherFailure, Raise, Typed, requestVars, trailVars
<1>7. ASSUME UNCHANGED vars
      PROVE  Typed'
  BY <1>7 DEF vars, requestVars, trailVars, Typed
<1> QED  BY <1>1, <1>2, <1>3, <1>4, <1>5, <1>6, <1>7 DEF Next

LEMMA NextCounted == Typed /\ AnswersCounted /\ [Next]_vars => AnswersCounted'
<1> SUFFICES ASSUME Typed, AnswersCounted, [Next]_vars PROVE AnswersCounted'
  OBVIOUS
<1> USE CapAssumption DEF AnswersCounted, Typed
<1>1. ASSUME NEW r \in Answer, Refuse(r) \/ Reply(r) \/ FinalAnswer(r)
      PROVE  AnswersCounted'
  <2>1. Len(answers') = Len(answers) + 1 /\ total' = total + 1
    BY <1>1 DEF Refuse, Reply, FinalAnswer, Received
  <2>2. phase' = "ended" /\ outcome'.usage = total'
    BY <1>1 DEF Refuse, Reply, FinalAnswer, Return
  <2>3. Len(answers) <= MaxIterations + 1
    BY <1>1 DEF Refuse, Reply, FinalAnswer, InLoop, Capped
  <2>4. UNCHANGED <<retried, budget>>
    BY <1>1 DEF Refuse, Reply, FinalAnswer, requestVars
  <2> QED  BY <2>1, <2>2, <2>3, <2>4
<1>2. ASSUME NEW r \in Answer, RetryBudget(r)
      PROVE  AnswersCounted'
  BY <1>2 DEF RetryBudget, OutOfBudget, Received, InLoop
<1>3. ASSUME NEW r \in Answer, RetryFinal(r)
      PROVE  AnswersCounted'
  BY <1>3 DEF RetryFinal, OutOfBudgetAtEnd, Received, Capped
<1>4. ASSUME NEW r \in Answer, CallTools(r)
      PROVE  AnswersCounted'
  BY <1>4 DEF CallTools, Received, InLoop
<1>5. ASSUME NEW k \in DOMAIN batch, Execute(k)
      PROVE  AnswersCounted'
  BY <1>5 DEF Execute, requestVars, trailVars
<1>6. ASSUME Gather
      PROVE  AnswersCounted'
  BY <1>6 DEF Gather, Return
<1>7. ASSUME ProviderFails \/ OtherFailure
      PROVE  AnswersCounted'
  BY <1>7 DEF ProviderFails, OtherFailure, Raise, requestVars, trailVars
<1>8. ASSUME UNCHANGED vars
      PROVE  AnswersCounted'
  BY <1>8 DEF vars, requestVars, trailVars
<1> QED  BY <1>1, <1>2, <1>3, <1>4, <1>5, <1>6, <1>7, <1>8 DEF Next

LEMMA NextBatch == Typed /\ BatchOfLast /\ [Next]_vars => BatchOfLast'
<1> SUFFICES ASSUME Typed, BatchOfLast, [Next]_vars PROVE BatchOfLast'
  OBVIOUS
<1>1. ASSUME NEW r \in Answer, CallTools(r)
      PROVE  BatchOfLast'
  BY <1>1, ReceivedType DEF CallTools, BatchOfLast
<1>2. ASSUME NEW r \in Answer, Refuse(r) \/ Reply(r) \/ FinalAnswer(r)
      PROVE  BatchOfLast'
  BY <1>2 DEF Refuse, Reply, FinalAnswer, Return, BatchOfLast
<1>3. ASSUME NEW r \in Answer, RetryBudget(r) \/ RetryFinal(r)
      PROVE  BatchOfLast'
  BY <1>3 DEF RetryBudget, RetryFinal, InLoop, Capped, BatchOfLast
<1>4. ASSUME NEW k \in DOMAIN batch, Execute(k)
      PROVE  BatchOfLast'
  BY <1>4 DEF Execute, BatchOfLast
<1>5. ASSUME Gather
      PROVE  BatchOfLast'
  BY <1>5 DEF Gather, Return, BatchOfLast
<1>6. ASSUME ProviderFails \/ OtherFailure
      PROVE  BatchOfLast'
  BY <1>6 DEF ProviderFails, OtherFailure, Raise, BatchOfLast
<1>7. ASSUME UNCHANGED vars
      PROVE  BatchOfLast'
  BY <1>7 DEF vars, BatchOfLast
<1> QED  BY <1>1, <1>2, <1>3, <1>4, <1>5, <1>6, <1>7 DEF Next

LEMMA NextUnanswered ==
  Typed /\ BatchOfLast /\ Unanswered /\ [Next]_vars => Unanswered'
<1> SUFFICES ASSUME Typed, BatchOfLast, Unanswered, [Next]_vars
             PROVE  Unanswered'
  OBVIOUS
<1>1. ASSUME NEW r \in Answer, RetryBudget(r) \/ RetryFinal(r)
      PROVE  Unanswered'
  BY <1>1 DEF RetryBudget, RetryFinal, Received, Unanswered, Typed
<1>2. ASSUME NEW r \in Answer,
             Refuse(r) \/ Reply(r) \/ FinalAnswer(r) \/ CallTools(r)
      PROVE  Unanswered'
  BY <1>2 DEF Refuse, Reply, FinalAnswer, CallTools, Return, Unanswered
<1>3. ASSUME NEW k \in DOMAIN batch, Execute(k)
      PROVE  Unanswered'
  BY <1>3 DEF Execute, Unanswered
<1>4. ASSUME Gather
      PROVE  Unanswered'
  BY <1>4
  DEF Gather, Return, ShortCircuit, AllTerminal, IsTerminal, BatchOfLast,
      Unanswered
<1>5. ASSUME ProviderFails \/ OtherFailure
      PROVE  Unanswered'
  BY <1>5 DEF ProviderFails, OtherFailure, Raise, Unanswered
<1>6. ASSUME UNCHANGED vars
      PROVE  Unanswered'
  BY <1>6 DEF vars, trailVars, Unanswered, AllTerminal, IsTerminal
<1> QED  BY <1>1, <1>2, <1>3, <1>4, <1>5, <1>6 DEF Next

LEMMA NextSeen ==
  Typed /\ AnswersCounted /\ BatchOfLast /\ ResultsAreSeen /\ [Next]_vars
    => ResultsAreSeen'
<1> SUFFICES ASSUME Typed, AnswersCounted, BatchOfLast, ResultsAreSeen,
                    [Next]_vars
             PROVE  ResultsAreSeen'
  OBVIOUS
<1> USE DEF ResultsAreSeen, Ended, Returned
<1>1. ASSUME NEW r \in Answer, Reply(r) \/ FinalAnswer(r)
      PROVE  ResultsAreSeen'
  <2>1. /\ answers' = Append(answers, r)
        /\ r.calls = <<>>
    BY <1>1 DEF Reply, FinalAnswer, Received
  <2>2. AllTerminal(r.calls)
    BY <2>1 DEF AllTerminal
  <2>3. \A n \in DOMAIN answers' : n < Len(answers') \/ answers'[n] = r
    BY <2>1 DEF Typed
  <2> QED  BY <2>2, <2>3 DEF AllTerminal, IsTerminal
<1>2. ASSUME NEW r \in Answer, Refuse(r)
      PROVE  ResultsAreSeen'
  BY <1>2 DEF Refuse, Return
<1>3. ASSUME NEW r \in Answer, RetryBudget(r) \/ RetryFinal(r) \/ CallTools(r)
      PROVE  ResultsAreSeen'
  BY <1>3 DEF RetryBudget, RetryFinal, CallTools, InLoop, Capped
<1>4. ASSUME NEW k \in DOMAIN batch, Execute(k)
      PROVE  ResultsAreSeen'
  BY <1>4 DEF Execute
<1>5. ASSUME Gather
      PROVE  ResultsAreSeen'
  <2>1. CASE ShortCircuit
    <3>1. AllTerminal(answers[Len(answers)].calls)
      BY <1>5, <2>1 DEF Gather, ShortCircuit, BatchOfLast
    <3>2. \A n \in DOMAIN answers : n < Len(answers) \/ n = Len(answers)
      BY DEF Typed
    <3> QED  BY <1>5, <3>1, <3>2 DEF Gather, AllTerminal, IsTerminal
  <2>2. CASE ~ShortCircuit
    BY <1>5, <2>2 DEF Gather
  <2> QED  BY <2>1, <2>2
<1>6. ASSUME ProviderFails \/ OtherFailure
      PROVE  ResultsAreSeen'
  BY <1>6 DEF ProviderFails, OtherFailure, Raise
<1>7. ASSUME UNCHANGED vars
      PROVE  ResultsAreSeen'
  BY <1>7 DEF vars, AllTerminal, IsTerminal
<1> QED  BY <1>1, <1>2, <1>3, <1>4, <1>5, <1>6, <1>7 DEF Next

LEMMA Inductive == Spec => []IInv
<1>1. IInv /\ [Next]_vars => IInv'
  BY NextTyped, NextCounted, NextBatch, NextUnanswered, NextSeen DEF IInv
<1> QED  BY InitIInv, <1>1, PTL DEF Spec

-----------------------------------------------------------------------------
(***************************************************************************)
(* The trail.  A result is honest if it is of a call the model made and    *)
(* tells what became of it; every effect has its result among those kept   *)
(* or those still being gathered, and what is kept is in the order of the  *)
(* calls.                                                                  *)
(***************************************************************************)
Made(c, ans) == c[1] \in DOMAIN ans /\ c[2] \in DOMAIN ans[c[1]].calls
Honest(x, ans, eff) ==
  /\ Made(x.call, ans)
  /\ IF ans[x.call[1]].calls[x.call[2]] \in Tool THEN x \in eff ELSE x.failed
AllHonest ==
  /\ \A j \in DOMAIN executed : Honest(executed[j], answers, effects)
  /\ \A f \in DOMAIN finished : Honest(finished[f], answers, effects)
EffectsKept ==
  \A e \in effects : \/ \E j \in DOMAIN executed : executed[j] = e
                     \/ \E f \in DOMAIN finished : finished[f] = e
KeptInOrder ==
  \A j, l \in DOMAIN executed :
    j < l => Before(executed[j].call, executed[l].call)
OnePerCall ==
  /\ phase # "gathering" => finished = <<>>
  /\ \A f \in DOMAIN finished :
       \E k \in DOMAIN batch : finished[f].call = Call(k)
  /\ \A f, g \in DOMAIN finished :
       finished[f].call = finished[g].call => f = g
OldBeforeNew ==
  phase = "gathering" =>
    \A j \in DOMAIN executed : executed[j].call[1] < Len(answers)
HandedOver ==
  Ended /\ outcome.kind # "OtherError" => outcome.actions = executed

Trail == AllHonest /\ EffectsKept /\ KeptInOrder /\ OnePerCall
           /\ OldBeforeNew /\ HandedOver

LEMMA TrailSuffices == Typed /\ Trail => TrailSurvives
<1> SUFFICES ASSUME Typed, Trail, Ended, outcome.kind # "OtherError"
             PROVE  TrailSurvives
  BY DEF TrailSurvives
<1>1. outcome.actions = executed /\ finished = <<>>
  BY DEF Trail, HandedOver, OnePerCall, Ended
<1>2. \A e \in effects : \E j \in DOMAIN executed : executed[j] = e
  BY <1>1 DEF Trail, EffectsKept
<1> QED  BY <1>1, <1>2 DEF Trail, AllHonest, Honest, KeptInOrder, TrailSurvives

\* An honest result stays so when answers and effects grow.
LEMMA HonestStays ==
  ASSUME Typed, NEW x, Honest(x, answers, effects),
         effects \subseteq effects',
         \/ answers' = answers
         \/ \E r \in Answer : answers' = Append(answers, r)
  PROVE  Honest(x, answers', effects')
<1>1. \A n \in DOMAIN answers : n \in DOMAIN answers' /\ answers'[n] = answers[n]
  <2>1. answers \in Seq(Answer)
    BY DEF Typed
  <2>2. CASE answers' = answers
    BY <2>2
  <2>3. CASE \E r \in Answer : answers' = Append(answers, r)
    <3>1. PICK r \in Answer : answers' = Append(answers, r)
      BY <2>3
    <3> QED  BY <2>1, <3>1
  <2> QED  BY <2>2, <2>3
<1>2. /\ Made(x.call, answers)
      /\ answers'[x.call[1]] = answers[x.call[1]]
      /\ Made(x.call, answers')
  BY <1>1 DEF Honest, Made
<1> QED  BY <1>2 DEF Honest

\* The steps of the provider keep the trail as it is.
LEMMA AnswerKeepsTrail ==
  ASSUME Typed, Trail, NEW r \in Answer, phase = "asking",
         answers' = Append(answers, r),
         UNCHANGED <<executed, finished, effects>>
  PROVE  AllHonest' /\ EffectsKept' /\ KeptInOrder' /\ OnePerCall'
<1>1. AllHonest'
  <2>1. \A j \in DOMAIN executed : Honest(executed[j], answers', effects')
    BY HonestStays DEF Trail, AllHonest
  <2>2. \A f \in DOMAIN finished : Honest(finished[f], answers', effects')
    BY HonestStays DEF Trail, AllHonest
  <2> QED  BY <2>1, <2>2 DEF AllHonest
<1>2. EffectsKept'
  BY DEF Trail, EffectsKept
<1>3. KeptInOrder'
  BY DEF Trail, KeptInOrder, Before
<1>4. OnePerCall'
  BY DEF Trail, OnePerCall, Call
<1> QED  BY <1>1, <1>2, <1>3, <1>4

LEMMA NextTrail == Typed /\ AnswersCounted /\ BatchOfLast /\ Trail /\ [Next]_vars
                     => Trail'
<1> SUFFICES ASSUME Typed, AnswersCounted, BatchOfLast, Trail, [Next]_vars
             PROVE  Trail'
  OBVIOUS
<1>1. ASSUME NEW r \in Answer, Refuse(r) \/ Reply(r) \/ FinalAnswer(r)
      PROVE  Trail'
  <2>1. /\ phase = "asking" /\ phase' = "ended"
        /\ answers' = Append(answers, r)
        /\ outcome'.actions = executed'
        /\ UNCHANGED <<executed, finished, effects>>
    BY <1>1 DEF Refuse, Reply, FinalAnswer, Received, Return, InLoop, Capped
  <2> QED  BY <2>1, AnswerKeepsTrail DEF Trail, OldBeforeNew, HandedOver
<1>2. ASSUME NEW r \in Answer, RetryBudget(r) \/ RetryFinal(r)
      PROVE  Trail'
  <2>1. /\ phase = "asking" /\ phase' = "asking"
        /\ answers' = Append(answers, r)
        /\ UNCHANGED <<executed, finished, effects>>
    BY <1>2 DEF RetryBudget, RetryFinal, Received, InLoop, Capped
  <2> QED  BY <2>1, AnswerKeepsTrail DEF Trail, OldBeforeNew, HandedOver, Ended
<1>3. ASSUME NEW r \in Answer, CallTools(r)
      PROVE  Trail'
  <2>1. /\ phase = "asking" /\ phase' = "gathering"
        /\ answers' = Append(answers, r)
        /\ UNCHANGED <<executed, effects>>
        /\ finished' = <<>> /\ finished = <<>>
    BY <1>3 DEF CallTools, Received, InLoop, Trail, OnePerCall
  <2>2. OldBeforeNew'
    <3>1. \A j \in DOMAIN executed : executed[j].call[1] \in DOMAIN answers
      BY DEF Trail, AllHonest, Honest, Made
    <3> QED  BY <2>1, <3>1 DEF OldBeforeNew, Typed
  <2> QED  BY <2>1, <2>2, AnswerKeepsTrail DEF Trail, HandedOver, Ended
<1>4. ASSUME NEW k \in DOMAIN batch, Execute(k)
      PROVE  Trail'
  <2>1. PICK failed \in BOOLEAN :
          LET x == [call |-> Call(k), failed |-> failed] IN
          /\ batch[k] \notin Tool => failed
          /\ finished' = Append(finished, x)
          /\ effects' = IF batch[k] \in Tool THEN effects \cup {x} ELSE effects
    BY <1>4 DEF Execute
  <2> DEFINE x == [call |-> Call(k), failed |-> failed]
  <2>2. /\ phase = "gathering" /\ phase' = "gathering"
        /\ UNCHANGED <<executed, batch, answers>>
        /\ \A f \in DOMAIN finished : finished[f].call # x.call
    BY <1>4 DEF Execute, Running, trailVars
  <2>3. x \in ToolResult /\ x.call = Call(k) /\ x.call = <<Len(answers), k>>
    BY DEF Call, ToolResult, Typed
  <2>4. Honest(x, answers', effects')
    <3>1. answers # <<>> /\ batch = answers[Len(answers)].calls
      BY <2>2 DEF BatchOfLast
    <3>2. /\ x.call[1] \in DOMAIN answers'
          /\ x.call[2] \in DOMAIN answers'[x.call[1]].calls
          /\ answers'[x.call[1]].calls[x.call[2]] = batch[k]
      BY <2>2, <2>3, <3>1 DEF Typed
    <3>3. batch[k] \in Tool => x \in effects'
      BY <2>1
    <3>4. batch[k] \notin Tool => x.failed
      BY <2>1
    <3> QED  BY <3>2, <3>3, <3>4 DEF Honest, Made
  <2>5. \A f \in DOMAIN finished' :
          \/ f \in DOMAIN finished /\ finished'[f] = finished[f]
          \/ f = Len(finished) + 1 /\ finished'[f] = x
    BY <2>1 DEF Typed
  <2>6. /\ \A f \in DOMAIN finished :
             f \in DOMAIN finished' /\ finished'[f] = finished[f]
        /\ Len(finished) + 1 \in DOMAIN finished'
        /\ finished'[Len(finished) + 1] = x
    BY <2>1 DEF Typed
  <2>7. AllHonest'
    <3>1. effects \subseteq effects'
      BY <2>1
    <3>2. \A j \in DOMAIN executed : Honest(executed[j], answers', effects')
      BY <2>2, <3>1, HonestStays DEF Trail, AllHonest
    <3>3. \A f \in DOMAIN finished : Honest(finished[f], answers', effects')
      BY <2>2, <3>1, HonestStays DEF Trail, AllHonest
    <3>4. \A f \in DOMAIN finished' : Honest(finished'[f], answers', effects')
      BY <2>4, <2>5, <3>3
    <3> QED  BY <2>2, <3>2, <3>4 DEF AllHonest
  <2>8. EffectsKept'
    BY <2>1, <2>2, <2>6 DEF Trail, EffectsKept
  <2>9. KeptInOrder'
    BY <2>2 DEF Trail, KeptInOrder, Before
  <2>10. OnePerCall'
    BY <2>2, <2>3, <2>5 DEF Trail, OnePerCall, Call
  <2>11. OldBeforeNew' /\ HandedOver'
    BY <2>2 DEF Trail, OldBeforeNew, HandedOver, Ended
  <2> QED  BY <2>7, <2>8, <2>9, <2>10, <2>11 DEF Trail
<1>5. ASSUME Gather
      PROVE  Trail'
  <2> DEFINE n == Len(executed)
  <2>1. /\ phase = "gathering" /\ phase' # "gathering"
        /\ executed' = executed \o Results
        /\ finished' = <<>> /\ batch' = <<>>
        /\ UNCHANGED <<answers, effects>>
        /\ \A k \in DOMAIN batch : ~Running(k)
        /\ Ended' => outcome'.actions = executed'
    BY <1>5 DEF Gather, Return, Ended
  <2>2. /\ Results \in Seq(ToolResult)
        /\ DOMAIN Results = DOMAIN batch
        /\ \A k \in DOMAIN batch : \E f \in DOMAIN finished :
             Results[k] = finished[f] /\ finished[f].call = Call(k)
    BY <2>1, GatheredType
  <2>3. n \in Nat /\ DOMAIN executed = 1..n /\ executed \in Seq(ToolResult)
    BY DEF Typed, ExecutedAction
  <2>4. \A j \in DOMAIN executed' :
          \/ j \in DOMAIN executed /\ executed'[j] = executed[j]
          \/ /\ j - n \in DOMAIN Results /\ j \in Nat /\ j > n
             /\ executed'[j] = Results[j - n]
    BY <2>1, <2>2, <2>3
  <2>5. /\ \A j \in DOMAIN executed :
             j \in DOMAIN executed' /\ executed'[j] = executed[j]
        /\ \A k \in DOMAIN Results :
             n + k \in DOMAIN executed' /\ executed'[n + k] = Results[k]
    BY <2>1, <2>2, <2>3
  <2>6. \A k \in DOMAIN Results : Results[k].call = <<Len(answers), k>>
    BY <2>2 DEF Call
  <2>7. AllHonest'
    <3>1. \A k \in DOMAIN Results : Honest(Results[k], answers, effects)
      BY <2>2 DEF Trail, AllHonest
    <3>2. \A j \in DOMAIN executed' : Honest(executed'[j], answers, effects)
      BY <2>4, <3>1 DEF Trail, AllHonest
    <3> QED  BY <2>1, <3>2 DEF AllHonest
  <2>8. EffectsKept'
    <3>1. \A f \in DOMAIN finished : \E k \in DOMAIN Results :
            Results[k] = finished[f]
      BY <2>2 DEF Trail, OnePerCall
    <3>2. \A f \in DOMAIN finished : \E j \in DOMAIN executed' :
            executed'[j] = finished[f]
      BY <2>5, <3>1
    <3>3. \A j \in DOMAIN executed : \E l \in DOMAIN executed' :
            executed'[l] = executed[j]
      BY <2>5
    <3>4. \A e \in effects : \E j \in DOMAIN executed' : executed'[j] = e
      <4> SUFFICES ASSUME NEW e \in effects
                   PROVE  \E j \in DOMAIN executed' : executed'[j] = e
        OBVIOUS
      <4>1. CASE \E j \in DOMAIN executed : executed[j] = e
        BY <3>3, <4>1
      <4>2. CASE \E f \in DOMAIN finished : finished[f] = e
        BY <3>2, <4>2
      <4> QED  BY <4>1, <4>2 DEF Trail, EffectsKept
    <3> QED  BY <2>1, <3>4 DEF EffectsKept
  <2>9. KeptInOrder'
    <3> SUFFICES ASSUME NEW j \in DOMAIN executed', NEW l \in DOMAIN executed',
                        j < l
                 PROVE  Before(executed'[j].call, executed'[l].call)
      BY DEF KeptInOrder, Before
    <3>1. CASE j \in DOMAIN executed /\ l \in DOMAIN executed
      BY <2>5, <3>1 DEF Trail, KeptInOrder
    <3>2. CASE j \in DOMAIN executed /\ l \notin DOMAIN executed
      <4>1. executed[j].call[1] < Len(answers)
        BY <2>1, <3>2 DEF Trail, OldBeforeNew
      <4>2. executed'[l].call[1] = Len(answers) /\ executed'[j] = executed[j]
        BY <2>4, <2>5, <2>6, <3>2
      <4> QED  BY <4>1, <4>2 DEF Before
    <3>3. CASE j \notin DOMAIN executed
      <4>1. l \notin DOMAIN executed
        BY <2>3, <2>4, <3>3
      <4>2. /\ executed'[j].call = <<Len(answers), j - n>>
            /\ executed'[l].call = <<Len(answers), l - n>>
        BY <2>4, <2>6, <3>3, <4>1
      <4>3. j - n < l - n
        BY <2>3, <2>4, <3>3, <4>1
      <4> QED  BY <4>2, <4>3 DEF Before
    <3> QED  BY <3>1, <3>2, <3>3
  <2>10. OnePerCall' /\ OldBeforeNew'
    BY <2>1 DEF OnePerCall, OldBeforeNew
  <2>11. HandedOver'
    BY <2>1 DEF HandedOver
  <2> QED  BY <2>7, <2>8, <2>9, <2>10, <2>11 DEF Trail
<1>6. ASSUME ProviderFails \/ OtherFailure
      PROVE  Trail'
  <2>1. /\ phase = "asking" /\ phase' = "ended"
        /\ UNCHANGED <<answers, executed, finished, batch, effects>>
        /\ outcome'.kind # "OtherError" => outcome'.actions = executed
    BY <1>6 DEF ProviderFails, OtherFailure, Raise, trailVars
  <2> QED
    BY <2>1
    DEF Trail, AllHonest, Honest, Made, EffectsKept, KeptInOrder, Before,
        OnePerCall, Call, OldBeforeNew, HandedOver
<1>7. ASSUME UNCHANGED vars
      PROVE  Trail'
  BY <1>7
  DEF vars, trailVars, Trail, AllHonest, Honest, Made, EffectsKept, KeptInOrder,
      Before, OnePerCall, Call, OldBeforeNew, HandedOver, Ended
<1> QED  BY <1>1, <1>2, <1>3, <1>4, <1>5, <1>6, <1>7 DEF Next

-----------------------------------------------------------------------------
(***************************************************************************)
(* The conversation.  Every turn of the request has been answered, call by *)
(* call, except the one whose tools are running; what answered it is in    *)
(* the trail.                                                              *)
(***************************************************************************)
TurnAnswered(turn, ans, done) ==
  /\ Len(turn.results) = Len(turn.calls)
  /\ \A k \in DOMAIN turn.results :
       LET c == turn.results[k].call
       IN  c[1] \in DOMAIN ans /\ c[2] = k /\ ans[c[1]].calls = turn.calls
  /\ \A k \in DOMAIN turn.results :
       \E j \in DOMAIN done : done[j] = turn.results[k]

OnlyLastIsOpen ==
  \A t \in DOMAIN messages :
    \/ phase = "gathering" /\ t = Len(messages)
    \/ TurnAnswered(messages[t], answers, executed)
LastAsksForBatch ==
  phase = "gathering" =>
    messages # <<>> /\ messages[Len(messages)].calls = batch
Conversation == messages \in Seq(Turn) /\ OnlyLastIsOpen /\ LastAsksForBatch

LEMMA ConversationSuffices == Typed /\ Conversation => RequestAnswersCalls
<1> SUFFICES ASSUME Conversation, phase = "asking" PROVE RequestAnswersCalls
  BY DEF RequestAnswersCalls
<1>1. \A t \in DOMAIN messages : TurnAnswered(messages[t], answers, executed)
  BY DEF Conversation, OnlyLastIsOpen
<1> QED  BY <1>1 DEF RequestAnswersCalls, TurnAnswered

\* What only grows at its end keeps what it had.
Grows(s, t) == \A n \in DOMAIN s : n \in DOMAIN t /\ t[n] = s[n]

LEMMA AppendGrows ==
  ASSUME NEW S, NEW s \in Seq(S), NEW e \in S
  PROVE  Grows(s, Append(s, e))
  BY DEF Grows

\* An answered turn stays answered: answers and trail only grow.
LEMMA AnsweredStays ==
  ASSUME NEW turn, NEW ans, NEW ans2, NEW done, NEW done2,
         TurnAnswered(turn, ans, done), Grows(ans, ans2), Grows(done, done2)
  PROVE  TurnAnswered(turn, ans2, done2)
<1>1. ASSUME NEW k \in DOMAIN turn.results
      PROVE  LET c == turn.results[k].call
             IN  c[1] \in DOMAIN ans2 /\ c[2] = k /\ ans2[c[1]].calls = turn.calls
  BY DEF TurnAnswered, Grows
<1>2. ASSUME NEW k \in DOMAIN turn.results
      PROVE  \E j \in DOMAIN done2 : done2[j] = turn.results[k]
  BY DEF TurnAnswered, Grows
<1> QED  BY <1>1, <1>2 DEF TurnAnswered

\* A step that adds no turn and runs no tool leaves the conversation answered.
LEMMA ConversationStays ==
  ASSUME Typed, Conversation, phase = "asking", phase' # "gathering",
         UNCHANGED <<messages, executed>>,
         \/ answers' = answers
         \/ \E r \in Answer : answers' = Append(answers, r)
  PROVE  Conversation'
<1>1. Grows(answers, answers')
  <2>1. CASE answers' = answers
    BY <2>1 DEF Grows
  <2>2. CASE \E r \in Answer : answers' = Append(answers, r)
    BY <2>2, AppendGrows DEF Typed
  <2> QED  BY <2>1, <2>2
<1>2. Grows(executed, executed')
  BY DEF Grows
<1>3. \A t \in DOMAIN messages : TurnAnswered(messages[t], answers, executed)
  BY DEF Conversation, OnlyLastIsOpen
<1>4. \A t \in DOMAIN messages : TurnAnswered(messages[t], answers', executed')
  BY <1>1, <1>2, <1>3, AnsweredStays
<1> QED  BY <1>4 DEF Conversation, OnlyLastIsOpen, LastAsksForBatch

LEMMA NextConversation ==
  Typed /\ BatchOfLast /\ Conversation /\ [Next]_vars => Conversation'
<1> SUFFICES ASSUME Typed, BatchOfLast, Conversation, [Next]_vars
             PROVE  Conversation'
  OBVIOUS
<1>1. ASSUME NEW r \in Answer,
             \/ Refuse(r) \/ Reply(r) \/ FinalAnswer(r)
             \/ RetryBudget(r) \/ RetryFinal(r)
      PROVE  Conversation'
  <2>1. /\ phase = "asking" /\ phase' # "gathering"
        /\ answers' = Append(answers, r)
        /\ messages' = messages /\ executed' = executed
    BY <1>1
    DEF Refuse, Reply, FinalAnswer, RetryBudget, RetryFinal, Received, Return,
        InLoop, Capped, requestVars
  <2> QED  BY <2>1, ConversationStays
<1>2. ASSUME NEW r \in Answer, CallTools(r)
      PROVE  Conversation'
  <2> DEFINE turn == [calls |-> r.calls, results |-> <<>>]
  <2>1. /\ phase = "asking" /\ phase' = "gathering"
        /\ answers' = Append(answers, r)
        /\ messages' = Append(messages, turn)
        /\ executed' = executed /\ batch' = r.calls
    BY <1>2 DEF CallTools, Received, InLoop
  <2>2. turn \in Turn /\ turn.calls = r.calls
    BY AnswerType DEF Turn
  <2>3. Grows(answers, answers') /\ Grows(executed, executed')
    BY <2>1 DEF Typed, Grows
  <2>4. ASSUME NEW t \in DOMAIN messages'
        PROVE  t = Len(messages') \/ TurnAnswered(messages'[t], answers', executed')
    <3>1. t = Len(messages') \/ (t \in DOMAIN messages /\ messages'[t] = messages[t])
      BY <2>1, <2>2 DEF Conversation
    <3>2. t \in DOMAIN messages => TurnAnswered(messages[t], answers, executed)
      BY <2>1 DEF Conversation, OnlyLastIsOpen
    <3> QED  BY <2>3, <3>1, <3>2, AnsweredStays
  <2>5. /\ messages' \in Seq(Turn)
        /\ messages' # <<>> /\ messages'[Len(messages')] = turn
    BY <2>1, <2>2 DEF Conversation
  <2> HIDE DEF turn
  <2>6. OnlyLastIsOpen'
    BY <2>1, <2>4 DEF OnlyLastIsOpen
  <2>7. LastAsksForBatch'
    BY <2>1, <2>2, <2>5 DEF LastAsksForBatch
  <2> QED  BY <2>5, <2>6, <2>7 DEF Conversation
<1>3. ASSUME NEW k \in DOMAIN batch, Execute(k)
      PROVE  Conversation'
  BY <1>3
  DEF Execute, requestVars, trailVars, Conversation, OnlyLastIsOpen,
      LastAsksForBatch, TurnAnswered
<1>4. ASSUME Gather
      PROVE  Conversation'
  <2> DEFINE last == Len(messages)
  <2>1. /\ phase = "gathering" /\ phase' # "gathering"
        /\ messages' = [messages EXCEPT ![last].results = Results]
        /\ executed' = executed \o Results
        /\ answers' = answers
        /\ \A k \in DOMAIN batch : ~Running(k)
    BY <1>4 DEF Gather, Return
  <2>2. /\ messages \in Seq(Turn) /\ messages # <<>>
        /\ messages[last].calls = batch
        /\ last \in DOMAIN messages
    BY <2>1 DEF Conversation, LastAsksForBatch
  <2>3. /\ Results \in Seq(ToolResult)
        /\ DOMAIN Results = DOMAIN batch
        /\ \A k \in DOMAIN batch : Results[k].call = Call(k)
    BY <2>1, GatheredType
  <2>4. /\ DOMAIN messages' = DOMAIN messages
        /\ \A t \in DOMAIN messages : t # last => messages'[t] = messages[t]
        /\ messages'[last].calls = batch /\ messages'[last].results = Results
    <3>1. messages' = [messages EXCEPT ![last] =
                         [messages[last] EXCEPT !.results = Results]]
      BY <2>1
    <3>2. /\ messages[last] \in Turn
          /\ messages'[last] = [messages[last] EXCEPT !.results = Results]
      BY <2>2, <3>1
    <3> QED  BY <2>2, <3>1, <3>2 DEF Turn
  <2>5. messages' \in Seq(Turn)
    <3>1. [messages[last] EXCEPT !.results = Results] \in Turn
      <4>1. messages[last] \in Turn
        BY <2>2
      <4> QED  BY <2>3, <4>1 DEF Turn
    <3>2. messages' = [messages EXCEPT ![last] =
                         [messages[last] EXCEPT !.results = Results]]
      BY <2>1
    <3>3. last \in 1..Len(messages) /\ messages \in Seq(Turn)
      BY <2>2
    <3> HIDE DEF last
    <3> QED  BY <3>1, <3>2, <3>3, ExceptSeq, Zenon
  <2>6. /\ Grows(answers, answers') /\ Grows(executed, executed')
        /\ \A k \in DOMAIN Results :
             \E j \in DOMAIN executed' : executed'[j] = Results[k]
    <3>1. executed \in Seq(ToolResult) /\ executed' = executed \o Results
      BY <2>1 DEF Typed, ExecutedAction
    <3>2. Grows(executed, executed')
      BY <2>3, <3>1 DEF Grows
    <3>3. \A k \in DOMAIN Results :
            /\ Len(executed) + k \in DOMAIN executed'
            /\ executed'[Len(executed) + k] = Results[k]
      BY <2>3, <3>1
    <3> QED  BY <2>1, <3>2, <3>3 DEF Grows
  <2>7. TurnAnswered(messages'[last], answers', executed')
    <3>1. Len(Results) = Len(batch)
      BY <2>3 DEF Typed
    <3>2. /\ Len(answers) \in DOMAIN answers
          /\ answers[Len(answers)].calls = batch
      BY <2>1 DEF BatchOfLast, Typed
    <3>3. \A k \in DOMAIN Results : Results[k].call = <<Len(answers), k>>
      BY <2>3 DEF Call
    <3>4. \A k \in DOMAIN Results :
            LET c == Results[k].call
            IN  c[1] \in DOMAIN answers' /\ c[2] = k /\ answers'[c[1]].calls = batch
      BY <2>1, <3>2, <3>3
    <3> QED  BY <2>4, <2>6, <3>1, <3>4 DEF TurnAnswered
  <2>8. ASSUME NEW t \in DOMAIN messages, t # last
        PROVE  TurnAnswered(messages'[t], answers', executed')
    <3>1. TurnAnswered(messages[t], answers, executed)
      BY <2>8 DEF Conversation, OnlyLastIsOpen
    <3> QED  BY <2>4, <2>6, <2>8, <3>1, AnsweredStays
  <2>9. OnlyLastIsOpen' /\ LastAsksForBatch'
    BY <2>1, <2>4, <2>7, <2>8 DEF OnlyLastIsOpen, LastAsksForBatch
  <2> QED  BY <2>5, <2>9 DEF Conversation
<1>5. ASSUME ProviderFails \/ OtherFailure
      PROVE  Conversation'
  <2>1. /\ phase = "asking" /\ phase' = "ended"
        /\ messages' = messages /\ executed' = executed /\ answers' = answers
    BY <1>5 DEF ProviderFails, OtherFailure, Raise, requestVars, trailVars
  <2> QED  BY <2>1, ConversationStays
<1>6. ASSUME UNCHANGED vars
      PROVE  Conversation'
  BY <1>6
  DEF vars, requestVars, trailVars, Conversation, OnlyLastIsOpen,
      LastAsksForBatch, TurnAnswered
<1> QED  BY <1>1, <1>2, <1>3, <1>4, <1>5, <1>6 DEF Next

-----------------------------------------------------------------------------
(***************************************************************************)
(* The words.  What is collected of some answers tells them if it names    *)
(* all those with words, and no others, in the order they came; a blank    *)
(* text is 0.                                                              *)
(***************************************************************************)
Rises(s) == \A j, l \in DOMAIN s : j < l /\ s[j] # 0 /\ s[l] # 0 => s[j] < s[l]
Tells(s, ans) ==
  /\ s \in Seq(Nat)
  /\ \A j \in DOMAIN s : s[j] # 0 => s[j] \in DOMAIN ans /\ ans[s[j]].text = "words"
  /\ \A n \in DOMAIN ans : ans[n].text = "words" => \E j \in DOMAIN s : s[j] = n
  /\ Rises(s)

Words ==
  /\ ~Ended \/ Returned => Tells(said, answers)
  /\ Ended /\ Returned => outcome.text = Join(said)

\* Every nonempty set of numbers has a least one, and so there is induction.
LEMMA LeastNumber ==
  ASSUME NEW S \in SUBSET Nat, S # {}
  PROVE  \E n \in S : \A m \in S : n <= m
<1>1. PICK x \in S : \A y \in S : <<y, x>> \notin OpToRel(<, Nat)
  BY NatLessThanWellFounded, WFMin
<1>2. OpToRel(<, Nat) = {ss \in Nat \X Nat : ss[1] < ss[2]}
  BY Zenon DEF OpToRel
<1>3. \A y \in S : ~(y < x)
  <2> SUFFICES ASSUME NEW y \in S, y < x PROVE FALSE
    OBVIOUS
  <2>1. <<y, x>> \in {ss \in Nat \X Nat : ss[1] < ss[2]}
    OBVIOUS
  <2> QED  BY <1>1, <1>2, <2>1
<1> QED  BY <1>3

LEMMA Climb ==
  ASSUME NEW N \in Nat, NEW S \in SUBSET Nat, 0 \in S,
         \A n \in S : n < N => n + 1 \in S
  PROVE  N \in S
<1> SUFFICES ASSUME N \notin S PROVE FALSE
  OBVIOUS
<1>1. PICK n \in (0..N) \ S : \A m \in (0..N) \ S : n <= m
  <2> DEFINE T == (0..N) \ S
  <2>1. T \in SUBSET Nat /\ T # {}
    OBVIOUS
  <2> HIDE DEF T
  <2>2. \E n \in T : \A m \in T : n <= m
    BY <2>1, LeastNumber
  <2> QED  BY <2>2 DEF T
<1>2. n # 0 /\ n - 1 \in 0..N /\ n - 1 < N
  OBVIOUS
<1>3. n - 1 \in S
  BY <1>1, <1>2
<1> QED  BY <1>2, <1>3

\* What the recursion of Join asks of a function.
Left(f, parts, N) ==
  f = [i \in 0..N |->
         IF i = 0 THEN <<>>
         ELSE IF parts[i] = 0 THEN f[i - 1] ELSE Append(f[i - 1], parts[i])]

\* There is one: each prefix depends on a shorter one.
LEMMA LeftExists ==
  ASSUME NEW parts, NEW N \in Nat
  PROVE  \E f : Left(f, parts, N)
<1> DEFINE S == {n \in Nat : \E f : Left(f, parts, n)}
<1>1. 0 \in S
  <2> DEFINE f == [i \in 0..0 |-> <<>>]
  <2>1. Left(f, parts, 0)
    BY DEF Left
  <2> QED  BY <2>1
<1>2. ASSUME NEW n \in S PROVE n + 1 \in S
  <2>1. PICK f : Left(f, parts, n)
    OBVIOUS
  <2> DEFINE x == IF parts[n + 1] = 0 THEN f[n] ELSE Append(f[n], parts[n + 1])
             g == [i \in 0..(n + 1) |-> IF i = n + 1 THEN x ELSE f[i]]
  <2>2. \A i \in 0..n : f[i] = IF i = 0 THEN <<>>
                               ELSE IF parts[i] = 0 THEN f[i - 1]
                                    ELSE Append(f[i - 1], parts[i])
    BY <2>1 DEF Left
  <2> HIDE DEF x
  <2>3. g[n + 1] = x /\ \A i \in 0..n : g[i] = f[i]
    OBVIOUS
  <2>4. \A i \in 0..(n + 1) : g[i] = IF i = 0 THEN <<>>
                                     ELSE IF parts[i] = 0 THEN g[i - 1]
                                          ELSE Append(g[i - 1], parts[i])
    <3> HIDE DEF g
    <3> SUFFICES ASSUME NEW i \in 0..(n + 1)
                 PROVE  g[i] = IF i = 0 THEN <<>>
                               ELSE IF parts[i] = 0 THEN g[i - 1]
                                    ELSE Append(g[i - 1], parts[i])
      OBVIOUS
    <3>1. CASE i = n + 1
      <4>1. i # 0 /\ i - 1 = n /\ n \in 0..n
        BY <3>1
      <4>2. g[i - 1] = f[n]
        BY <2>3, <4>1
      <4> QED  BY <2>3, <3>1, <4>1, <4>2 DEF x
    <3>2. CASE i = 0
      <4>1. 0 \in 0..n
        OBVIOUS
      <4> QED  BY <2>2, <2>3, <3>2, <4>1
    <3>3. CASE i \in 1..n
      <4>1. i \in 0..n /\ i - 1 \in 0..n /\ i # 0
        BY <3>3
      <4>2. g[i] = f[i] /\ g[i - 1] = f[i - 1]
        BY <2>3, <4>1
      <4> QED  BY <2>2, <4>1, <4>2
    <3> QED  BY <3>1, <3>2, <3>3
  <2>5. Left(g, parts, n + 1)
    BY <2>4 DEF Left
  <2> HIDE DEF g
  <2> QED  BY <2>5
<1>3. S \in SUBSET Nat
  OBVIOUS
<1> HIDE DEF S
<1>4. N \in S
  BY <1>1, <1>2, <1>3, Climb
<1> QED  BY <1>4 DEF S

LEMMA Appended ==
  ASSUME NEW s \in Seq(Nat), NEW p \in Nat
  PROVE  LET t == Append(s, p)  l == Len(s) + 1 IN
         /\ t \in Seq(Nat) /\ l \in Nat /\ DOMAIN t = DOMAIN s \cup {l} /\ t[l] = p
         /\ \A j \in DOMAIN s : t[j] = s[j] /\ j \in Nat /\ j < l /\ s[j] \in Nat
OBVIOUS

\* The parts that are not blank, in order, and nothing else.
LEMMA Joined ==
  ASSUME NEW parts \in Seq(Nat), Rises(parts)
  PROVE  LET text == Join(parts) IN
         /\ text \in Seq(Nat)
         /\ \A j \in DOMAIN text : \E k \in DOMAIN parts : parts[k] # 0 /\ text[j] = parts[k]
         /\ \A k \in DOMAIN parts : parts[k] # 0 => \E j \in DOMAIN text : text[j] = parts[k]
         /\ \A j, l \in DOMAIN text : j < l => text[j] < text[l]
<1> DEFINE N == Len(parts)
           f == CHOOSE f : Left(f, parts, N)
<1>1. N \in Nat /\ DOMAIN parts = 1..N /\ \A k \in 1..N : parts[k] \in Nat
  OBVIOUS
<1>2. Left(f, parts, N)
  BY <1>1, LeftExists
<1>3. Join(parts) = f[N]
  BY DEF Join, Left
<1>4. \A i \in 0..N : f[i] = IF i = 0 THEN <<>>
                             ELSE IF parts[i] = 0 THEN f[i - 1]
                                  ELSE Append(f[i - 1], parts[i])
  BY <1>2 DEF Left
<1> HIDE DEF f, N
<1> DEFINE Good(i) ==
      /\ f[i] \in Seq(Nat)
      /\ \A j \in DOMAIN f[i] : \E k \in 1..i : parts[k] # 0 /\ f[i][j] = parts[k]
      /\ \A k \in 1..i : parts[k] # 0 => \E j \in DOMAIN f[i] : f[i][j] = parts[k]
      /\ \A j, l \in DOMAIN f[i] : j < l => f[i][j] < f[i][l]
           S == {i \in Nat : i <= N => Good(i)}
<1>5. 0 \in S
  <2>1. f[0] = <<>>
    BY <1>1, <1>4
  <2>2. f[0] \in Seq(Nat) /\ DOMAIN f[0] = {} /\ 1..0 = {}
    BY <2>1
  <2>3. Good(0)
    BY <2>2
  <2> QED  BY <2>3
<1>6. ASSUME NEW n \in S, n < N PROVE n + 1 \in S
  <2> DEFINE m == n + 1
             s == f[n]
             p == parts[m]
  <2>1. /\ n \in Nat /\ m \in 1..N /\ m \in 0..N /\ m # 0 /\ m - 1 = n
        /\ p \in Nat /\ n <= N
    <3>1. n \in Nat /\ n < N /\ N \in Nat
      BY <1>1, <1>6
    <3> HIDE DEF S
    <3>2. m \in 1..N /\ m \in 0..N /\ m # 0 /\ m - 1 = n /\ n <= N
      BY <3>1
    <3> HIDE DEF m
    <3> QED  BY <1>1, <3>1, <3>2
  <2>2. f[m] = IF p = 0 THEN s ELSE Append(s, p)
    BY <1>4, <2>1
  <2>3. Good(n)
    BY <1>1, <2>1
  <2>4. \A k \in 1..m : k = m \/ k \in 1..n
    BY <2>1
  <2>5. \A k \in 1..n : k \in 1..m /\ k < m
    BY <2>1
  <2>6. Good(m)
    <3>1. CASE p = 0
      <4>1. f[m] = f[n]
        BY <2>2, <3>1
      <4> HIDE DEF m
      <4> QED  BY <2>3, <2>4, <2>5, <3>1, <4>1
    <3>2. CASE p # 0
      <4> DEFINE l == Len(s) + 1
      <4>1. s \in Seq(Nat) /\ f[m] = Append(s, p)
        BY <2>2, <2>3, <3>2
      <4>2. /\ f[m] \in Seq(Nat) /\ l \in Nat /\ DOMAIN f[m] = DOMAIN s \cup {l}
            /\ f[m][l] = p
            /\ \A j \in DOMAIN s : f[m][j] = s[j] /\ j \in Nat /\ j < l /\ s[j] \in Nat
        <5> HIDE DEF m, s, p
        <5> QED  BY <2>1, <4>1, Appended
      <4>3. \A j \in DOMAIN s : s[j] < p
        <5> SUFFICES ASSUME NEW j \in DOMAIN s PROVE s[j] < p
          OBVIOUS
        <5>1. PICK k \in 1..n : parts[k] # 0 /\ s[j] = parts[k]
          BY <2>3
        <5>2. k \in DOMAIN parts /\ m \in DOMAIN parts /\ k < m
          BY <1>1, <2>1, <2>5
        <5> QED  BY <3>2, <5>1, <5>2 DEF Rises
      <4>4. \A j \in DOMAIN s : \E k \in 1..n : parts[k] # 0 /\ s[j] = parts[k]
        BY <2>3
      <4>5. \A k \in 1..n : parts[k] # 0 => \E j \in DOMAIN s : s[j] = parts[k]
        BY <2>3
      <4>6. \A j, k \in DOMAIN s : j < k => s[j] < s[k]
        BY <2>3
      <4>7. parts[m] = p /\ m \in 1..m
        BY <2>1
      <4> HIDE DEF m, p, s, l
      <4>8. \A j \in DOMAIN f[m] : \E k \in 1..m : parts[k] # 0 /\ f[m][j] = parts[k]
        <5> SUFFICES ASSUME NEW j \in DOMAIN f[m]
                     PROVE  \E k \in 1..m : parts[k] # 0 /\ f[m][j] = parts[k]
          OBVIOUS
        <5>1. CASE j = l
          BY <3>2, <4>2, <4>7, <5>1
        <5>2. CASE j \in DOMAIN s
          <6>1. PICK k \in 1..n : parts[k] # 0 /\ s[j] = parts[k]
            BY <4>4, <5>2
          <6> QED  BY <2>5, <4>2, <5>2, <6>1
        <5> QED  BY <4>2, <5>1, <5>2
      <4>9. \A k \in 1..m : parts[k] # 0 => \E j \in DOMAIN f[m] : f[m][j] = parts[k]
        <5> SUFFICES ASSUME NEW k \in 1..m, parts[k] # 0
                     PROVE  \E j \in DOMAIN f[m] : f[m][j] = parts[k]
          OBVIOUS
        <5>1. CASE k = m
          BY <4>2, <4>7, <5>1
        <5>2. CASE k \in 1..n
          <6>1. PICK j \in DOMAIN s : s[j] = parts[k]
            BY <4>5, <5>2
          <6> QED  BY <4>2, <6>1
        <5> QED  BY <2>4, <5>1, <5>2
      <4>10. \A j, k \in DOMAIN f[m] : j < k => f[m][j] < f[m][k]
        <5> SUFFICES ASSUME NEW j \in DOMAIN f[m], NEW k \in DOMAIN f[m], j < k
                     PROVE  f[m][j] < f[m][k]
          OBVIOUS
        <5>1. j \in DOMAIN s
          BY <4>2
        <5>2. k = l \/ k \in DOMAIN s
          BY <4>2
        <5> QED  BY <4>2, <4>3, <4>6, <5>1, <5>2
      <4> QED  BY <4>2, <4>8, <4>9, <4>10
    <3> QED  BY <3>1, <3>2
  <2> HIDE DEF Good
  <2> QED  BY <2>1, <2>6
<1>7. S \in SUBSET Nat
  OBVIOUS
<1>8. N \in S
  <2> HIDE DEF S
  <2> QED  BY <1>1, <1>5, <1>6, <1>7, Climb
<1>9. Good(N)
  <2> HIDE DEF Good
  <2> QED  BY <1>1, <1>8
<1> QED  BY <1>1, <1>3, <1>9

\* Each answer is told by what Collect makes of it.
LEMMA CollectTells ==
  ASSUME Typed, Tells(said, answers), NEW r \in Answer
  PROVE  Tells(Collect(r), Append(answers, r))
<1> DEFINE n == Len(answers) + 1
           ans == Append(answers, r)
           s == Collect(r)
<1>1. /\ answers \in Seq(Answer) /\ n \in Nat /\ n # 0
      /\ DOMAIN ans = DOMAIN answers \cup {n} /\ ans[n] = r
      /\ \A m \in DOMAIN answers : ans[m] = answers[m] /\ m < n /\ m \in Nat
  BY DEF Typed
<1>2. /\ said \in Seq(Nat) /\ Rises(said)
      /\ \A j \in DOMAIN said :
           said[j] # 0 => said[j] \in DOMAIN answers /\ answers[said[j]].text = "words"
      /\ \A m \in DOMAIN answers : answers[m].text = "words" => \E j \in DOMAIN said : said[j] = m
  BY DEF Tells
<1> HIDE DEF ans, n
<1>3. CASE r.text = "None"
  <2>1. s = said
    BY <1>3 DEF Collect
  <2> QED  BY <1>1, <1>2, <1>3, <2>1 DEF Tells, ans
<1>4. ASSUME NEW p \in Nat, s = Append(said, p), r.text # "words" <=> p = 0,
             p # 0 => p = n
      PROVE  Tells(s, ans)
  <2> DEFINE l == Len(said) + 1
  <2>1. /\ DOMAIN s = DOMAIN said \cup {l} /\ s[l] = p /\ s \in Seq(Nat) /\ l \in Nat
        /\ \A j \in DOMAIN said : s[j] = said[j] /\ j < l /\ j \in Nat
    BY <1>2, <1>4
  <2> HIDE DEF l, s
  <2>2. \A j \in DOMAIN s : s[j] # 0 => s[j] \in DOMAIN ans /\ ans[s[j]].text = "words"
    BY <1>1, <1>2, <1>4, <2>1
  <2>3. \A m \in DOMAIN ans : ans[m].text = "words" => \E j \in DOMAIN s : s[j] = m
    BY <1>1, <1>2, <1>4, <2>1
  <2>4. Rises(s)
    <3> SUFFICES ASSUME NEW j \in DOMAIN s, NEW k \in DOMAIN s,
                        j < k, s[j] # 0, s[k] # 0
                 PROVE  s[j] < s[k]
      BY DEF Rises
    <3>1. j \in DOMAIN said
      BY <2>1
    <3>2. CASE k = l
      BY <1>1, <1>2, <1>4, <2>1, <3>1, <3>2
    <3>3. CASE k \in DOMAIN said
      BY <1>2, <2>1, <3>1, <3>3 DEF Rises
    <3> QED  BY <2>1, <3>2, <3>3
  <2> QED  BY <2>1, <2>2, <2>3, <2>4 DEF Tells
<1>5. CASE r.text = "blank"
  <2>1. s = Append(said, 0)
    BY <1>5 DEF Collect
  <2> HIDE DEF s
  <2> QED  BY <1>4, <1>5, <2>1 DEF ans, s
<1>6. CASE r.text = "words"
  <2>1. s = Append(said, n)
    BY <1>6 DEF Collect, n
  <2> HIDE DEF s
  <2> QED  BY <1>1, <1>4, <1>6, <2>1 DEF ans, s
<1> QED  BY <1>3, <1>5, <1>6, AnswerType DEF Text, ans

LEMMA WordsSuffice == Typed /\ Words => NothingSaidIsLost
<1> SUFFICES ASSUME Typed, Words, Ended, Returned
             PROVE  LET text == outcome.text IN
                    /\ {text[j] : j \in DOMAIN text} =
                         {n \in DOMAIN answers : answers[n].text = "words"}
                    /\ \A j, l \in DOMAIN text : j < l => text[j] < text[l]
  BY DEF NothingSaidIsLost
<1> DEFINE text == Join(said)
<1>1. outcome.text = text /\ Tells(said, answers)
  BY DEF Words
<1>2. /\ text \in Seq(Nat)
      /\ \A j \in DOMAIN text : \E k \in DOMAIN said : said[k] # 0 /\ text[j] = said[k]
      /\ \A k \in DOMAIN said : said[k] # 0 => \E j \in DOMAIN text : text[j] = said[k]
      /\ \A j, l \in DOMAIN text : j < l => text[j] < text[l]
  BY <1>1, Joined DEF Tells
<1>3. /\ said \in Seq(Nat)
      /\ \A k \in DOMAIN said :
           said[k] # 0 => said[k] \in DOMAIN answers /\ answers[said[k]].text = "words"
      /\ \A n \in DOMAIN answers :
           answers[n].text = "words" => \E k \in DOMAIN said : said[k] = n
  BY <1>1 DEF Tells
<1> HIDE DEF text
<1>4. \A j \in DOMAIN text : /\ text[j] \in DOMAIN answers
                             /\ answers[text[j]].text = "words"
  <2> SUFFICES ASSUME NEW j \in DOMAIN text
               PROVE  text[j] \in DOMAIN answers /\ answers[text[j]].text = "words"
    OBVIOUS
  <2>1. PICK k \in DOMAIN said : said[k] # 0 /\ text[j] = said[k]
    BY <1>2
  <2> QED  BY <1>3, <2>1
<1>5. ASSUME NEW n \in DOMAIN answers, answers[n].text = "words"
      PROVE  \E j \in DOMAIN text : text[j] = n
  <2>1. PICK k \in DOMAIN said : said[k] = n
    BY <1>3, <1>5
  <2>2. n # 0
    BY DEF Typed
  <2> QED  BY <1>2, <2>1, <2>2
<1> QED  BY <1>1, <1>2, <1>4, <1>5

LEMMA NextWords ==
  ASSUME Typed, AnswersCounted, Words, [Next]_vars
  PROVE  Words'
<1>1. ASSUME NEW r \in Answer, Reply(r) \/ FinalAnswer(r) PROVE Words'
  <2>1. /\ ~Ended /\ answers' = Append(answers, r) /\ said' = Collect(r)
        /\ outcome'.kind \in {"replied", "capped"} => outcome'.text = Join(said')
    BY <1>1 DEF Reply, FinalAnswer, Received, Return, Ended, InLoop, Capped
  <2>2. Tells(said', answers')
    BY <2>1, CollectTells DEF Words
  <2> QED  BY <2>1, <2>2 DEF Words, Returned, Ended
<1>2. ASSUME NEW r \in Answer, RetryBudget(r) \/ CallTools(r) \/ RetryFinal(r)
      PROVE  Words'
  <2>1. /\ ~Ended /\ ~Ended' /\ answers' = Append(answers, r) /\ said' = Collect(r)
    BY <1>2 DEF RetryBudget, CallTools, RetryFinal, OutOfBudgetAtEnd, Collect,
                Received, Ended, InLoop, Capped
  <2>2. Tells(said', answers')
    BY <2>1, CollectTells DEF Words
  <2> QED  BY <2>1, <2>2 DEF Words
<1>3. ASSUME NEW r \in Answer, Refuse(r) PROVE Words'
  BY <1>3 DEF Refuse, Return, Words, Returned, Ended
<1>4. ASSUME NEW k \in DOMAIN batch, Execute(k) PROVE Words'
  BY <1>4 DEF Execute, trailVars, Words, Returned, Ended
<1>5. ASSUME Gather PROVE Words'
  <2>1. ~Ended /\ said' = said /\ answers' = answers
    BY <1>5 DEF Gather, Ended
  <2>2. Tells(said', answers')
    BY <2>1 DEF Words
  <2>3. \/ ~Ended'
        \/ Ended' /\ outcome'.kind = "replied" /\ outcome'.text = Join(said')
    BY <1>5, <2>1 DEF Gather, Return, Ended
  <2> QED  BY <2>2, <2>3 DEF Words
<1>6. ASSUME ProviderFails \/ OtherFailure PROVE Words'
  BY <1>6 DEF ProviderFails, OtherFailure, Raise, Words, Returned, Ended
<1>7. ASSUME UNCHANGED vars PROVE Words'
  BY <1>7 DEF vars, trailVars, Words, Returned, Ended
<1> QED  BY <1>1, <1>2, <1>3, <1>4, <1>5, <1>6, <1>7 DEF Next

-----------------------------------------------------------------------------
(* The types: a joined text is one because what is joined tells answers *)

LEMMA JoinOfNothing == Join(<<>>) \in Seq(Nat)
<1>1. <<>> \in Seq(Nat) /\ Rises(<<>>)
  BY DEF Rises
<1> QED  BY <1>1, Joined

LEMMA NextTypeOK ==
  ASSUME IInv, Conversation, Words, TypeOK, [Next]_vars
  PROVE  TypeOK'
<1>1. Typed' /\ Conversation' /\ Words' /\ AnswersCounted'
  BY NextTyped, NextCounted, NextConversation, NextWords DEF IInv
<1>2. /\ phase' \in {"asking", "gathering", "ended"} /\ round' \in 0..MaxIterations
      /\ total' \in Nat /\ answers' \in Seq(Answer) /\ batch' \in Seq(STRING)
      /\ finished' \in Seq(ToolResult) /\ executed' \in Seq(ExecutedAction)
      /\ messages' \in Seq(Turn)
  BY <1>1 DEF Typed, Conversation
<1>3. retried' \in BOOLEAN /\ budget' \in Nat
  <2>1. retried' \in BOOLEAN
    BY DEF TypeOK, Next, vars, requestVars, Refuse, RetryBudget, Reply, CallTools,
           Execute, Gather, RetryFinal, FinalAnswer, ProviderFails, OtherFailure, Raise
  <2> QED  BY <1>1, <2>1 DEF AnswersCounted
<1>4. effects' \in SUBSET ToolResult
  <2>1. ASSUME NEW k \in DOMAIN batch, Execute(k) PROVE effects' \in SUBSET ToolResult
    <3>1. k \in Nat /\ Len(answers) \in Nat
      BY DEF IInv, Typed
    <3>2. \A failed \in BOOLEAN : [call |-> Call(k), failed |-> failed] \in ToolResult
      BY <3>1 DEF ToolResult, Call
    <3> QED  BY <2>1, <3>2 DEF Execute, TypeOK
  <2> QED
    BY <2>1 DEF TypeOK, Next, vars, Refuse, RetryBudget, Reply, CallTools, Gather,
                RetryFinal, FinalAnswer, ProviderFails, OtherFailure, Raise
<1>5. said' \in Seq(Nat)
  <2>1. \A r \in Answer : Collect(r) \in Seq(Nat)
    <3> SUFFICES ASSUME NEW r \in Answer PROVE Collect(r) \in Seq(Nat)
      OBVIOUS
    <3>1. Len(answers) + 1 \in Nat /\ said \in Seq(Nat)
      BY DEF IInv, Typed, TypeOK
    <3> QED  BY <3>1, AnswerType DEF Collect, Text
  <2> QED
    BY <2>1 DEF TypeOK, Next, vars, trailVars, Refuse, RetryBudget, Reply, CallTools,
                Execute, Gather, RetryFinal, FinalAnswer, ProviderFails, OtherFailure,
                Raise
<1>6. outcome' \in Outcome
  <2>1. ASSUME NEW kind \in {"replied", "capped", "refused"}, NEW text,
               Return(kind, text), Join(text) \in Seq(Nat)
        PROVE  outcome' \in Outcome
    BY <1>2, <2>1 DEF Return, Outcome
  <2>2. ASSUME Return("replied", said') \/ Return("capped", said')
        PROVE  outcome' \in Outcome
    <3>1. Ended' /\ Returned'
      BY <2>2 DEF Return, Ended, Returned
    <3>2. said' \in Seq(Nat) /\ Rises(said')
      BY <1>1, <3>1 DEF Words, Tells
    <3>3. Join(said') \in Seq(Nat)
      BY <3>2, Joined
    <3> QED  BY <2>1, <2>2, <3>3
  <2>3. ASSUME NEW r \in Answer, Refuse(r) \/ Reply(r) \/ FinalAnswer(r)
        PROVE  outcome' \in Outcome
    BY <2>1, <2>2, <2>3, JoinOfNothing DEF Refuse, Reply, FinalAnswer
  <2>4. ASSUME Gather PROVE outcome' \in Outcome
    <3>1. said' = said
      BY <2>4 DEF Gather
    <3> QED  BY <2>2, <2>4, <3>1 DEF Gather, TypeOK
  <2>5. ASSUME ProviderFails \/ OtherFailure PROVE outcome' \in Outcome
    <3>1. executed \in Seq(ExecutedAction) /\ <<>> \in Seq(ExecutedAction)
      BY DEF TypeOK
    <3>2. <<>> \in Seq(Nat) /\ 0 \in Nat
      OBVIOUS
    <3>3. PICK error \in {"ProviderError", "AgentExecutionError", "OtherError"},
               actions \in Seq(ExecutedAction) : Raise(error, actions)
      BY <2>5, <3>1 DEF ProviderFails, OtherFailure
    <3>4. outcome' = [kind |-> error, text |-> <<>>, actions |-> actions, usage |-> 0]
      BY <3>3 DEF Raise
    <3> HIDE DEF ExecutedAction
    <3> QED  BY <3>2, <3>4 DEF Outcome
  <2> QED
    BY <2>3, <2>4, <2>5 DEF TypeOK, Next, vars, RetryBudget, CallTools, Execute, RetryFinal
<1> QED  BY <1>2, <1>3, <1>4, <1>5, <1>6 DEF TypeOK

-----------------------------------------------------------------------------
(* Theorems *)

\* The iteration cap bounds the cost of every run: MaxIterations + 2 calls and
\* one doubling of the budget at most, all of them accounted for.
THEOREM HardCap == Spec => []CostBounded
<1>1. IInv => CostBounded
  BY CapAssumption DEF IInv, Typed, AnswersCounted, CostBounded, Ended
<1> QED  BY <1>1, Inductive, PTL

\* No run ends well on a tool's result that the model wanted to see and did
\* not.
THEOREM RoundTrips == Spec => []ResultsAreSeen
<1>1. IInv => ResultsAreSeen
  BY DEF IInv
<1> QED  BY <1>1, Inductive, PTL

\* A reply written beside terminal tools is never asked for again.
THEOREM ReplyIsKept == Spec => ReplyStands
<1>1. IInv /\ [Next]_vars =>
        [ answers' # answers /\ answers # <<>> =>
            LET last == answers[Len(answers)] IN
            ~ (said # <<>> /\ last.calls # <<>> /\ AllTerminal(last.calls)) ]_vars
  <2> SUFFICES ASSUME IInv, [Next]_vars, answers' # answers
               PROVE  phase = "asking"
    BY DEF IInv, Unanswered
  <2> QED  BY DEF Next, vars, Refuse, RetryBudget, Reply, CallTools, RetryFinal,
              FinalAnswer, InLoop, Capped, Execute, Gather, ProviderFails,
              OtherFailure, Raise
<1> QED  BY <1>1, Inductive, PTL DEF Spec, ReplyStands

\* However a run ends, except by an exception that is not the provider's, its
\* caller learns of every tool that ran, in the order of the calls.
THEOREM ActionTruth == Spec => []TrailSurvives
<1>1. Init => Trail
  BY DEF Init, Trail, AllHonest, EffectsKept, KeptInOrder, OnePerCall,
         OldBeforeNew, HandedOver, Ended
<1>2. IInv /\ Trail /\ [Next]_vars => Trail'
  BY NextTrail DEF IInv
<1>3. IInv /\ Trail => TrailSurvives
  BY TrailSuffices DEF IInv
<1> QED  BY <1>1, <1>2, <1>3, Inductive, PTL DEF Spec

\* The provider is never sent a conversation with a call left open, answered
\* at another call's place, or answered by something the caller is not told.
THEOREM RequestsAreAnswered == Spec => []RequestAnswersCalls
<1>1. Init => Conversation
  BY DEF Init, Conversation, OnlyLastIsOpen, LastAsksForBatch
<1>2. IInv /\ Conversation /\ [Next]_vars => Conversation'
  BY NextConversation DEF IInv
<1>3. IInv /\ Conversation => RequestAnswersCalls
  BY ConversationSuffices DEF IInv
<1> QED  BY <1>1, <1>2, <1>3, Inductive, PTL DEF Spec

\* A reply is all the words of the provider and only those, in the order they
\* were written, however many iterations, retries and tools lie between them.
THEOREM RepliesAreComplete == Spec => []NothingSaidIsLost
<1>1. Init => Words
  BY DEF Init, Words, Tells, Rises, Ended
<1>2. IInv /\ Words /\ [Next]_vars => Words'
  BY NextWords DEF IInv
<1>3. IInv /\ Words => NothingSaidIsLost
  BY WordsSuffice DEF IInv
<1> QED  BY <1>1, <1>2, <1>3, Inductive, PTL DEF Spec

\* The types of the run's state, its request, its trail and what it hands over.
THEOREM TypeCorrect == Spec => []TypeOK
<1>1. Init => TypeOK
  <2> SUFFICES ASSUME Init PROVE TypeOK
    OBVIOUS
  <2>1. Nothing \in Outcome
    <3>1. <<>> \in Seq(Nat) /\ <<>> \in Seq(ExecutedAction) /\ 0 \in Nat
      OBVIOUS
    <3> QED  BY <3>1 DEF Nothing, Outcome
  <2>2. /\ phase \in {"asking", "gathering", "ended"} /\ round \in 0..MaxIterations
        /\ total \in Nat
    BY InitIInv DEF IInv, Typed
  <2>3. retried \in BOOLEAN
    BY DEF Init
  <2>4. budget \in Nat
    BY DEF Init
  <2>5. /\ messages \in Seq(Turn) /\ said \in Seq(Nat)
        /\ executed \in Seq(ExecutedAction) /\ batch \in Seq(STRING)
        /\ finished \in Seq(ToolResult) /\ answers \in Seq(Answer)
    BY DEF Init
  <2>6. outcome \in Outcome /\ effects \in SUBSET ToolResult
    BY <2>1 DEF Init
  <2> QED  BY <2>2, <2>3, <2>4, <2>5, <2>6 DEF TypeOK
<1>2. Init => Conversation /\ Words
  BY DEF Init, Words, Tells, Rises, Ended, Conversation, OnlyLastIsOpen, LastAsksForBatch
<1>3. IInv /\ Conversation /\ Words /\ TypeOK /\ [Next]_vars
        => Conversation' /\ Words' /\ TypeOK'
  BY NextConversation, NextWords, NextTypeOK DEF IInv
<1> QED  BY <1>1, <1>2, <1>3, Inductive, PTL DEF Spec
=============================================================================
