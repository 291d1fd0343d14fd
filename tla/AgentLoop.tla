----------------------------- MODULE AgentLoop -----------------------------
(***************************************************************************)
(* One run of the agentic loop (AgentLoop._run in                          *)
(* src/dainframe/loop/agent_loop.py) over a tool registry                  *)
(* (src/dainframe/tools/registry.py): ask the provider, run the tools it   *)
(* called all at once, give it their results, and ask again, until it      *)
(* answers without tools, refuses, fails, or reaches the iteration cap.    *)
(*                                                                         *)
(* A tool call is named by <<n, k>>: the k-th call of the provider's n-th  *)
(* answer.  A text is None, blank (what strip() leaves empty) or words; a  *)
(* text kept is named by the answer it came with.  Every answer weighs one *)
(* unit of usage.  Reports to the usage sink are part of the step that     *)
(* makes them, since _emit() swallows the sink's failures; the provider    *)
(* has been chosen already (_route).                                       *)
(***************************************************************************)
EXTENDS Naturals, Sequences, FiniteSets

CONSTANTS Tool,            \* the tools registered
          Terminal,        \* those whose result the model need not see
          Answer,          \* what a provider may answer while it has tools
          MaxIterations    \* max_iterations

Text == {"None", "blank", "words"}
StopReason == {"end_turn", "tool_use", "max_tokens", "refusal"}

ASSUME ToolAssumption == Terminal \subseteq Tool
ASSUME CapAssumption == MaxIterations \in Nat
ASSUME AnswerAssumption ==
  \A r \in Answer : /\ r.text \in Text
                    /\ r.stop \in StopReason
                    /\ r.calls \in Seq(STRING)

VARIABLES phase,      \* where the run is
          round,      \* i: the iteration; MaxIterations after the loop
          retried,    \* budget_retried
          budget,     \* request.max_tokens, in units of what was asked for
          messages,   \* the turns appended to request.messages
          said,       \* collected_text
          executed,   \* the ExecutedActions of the run
          total,      \* the usage added up
          batch,      \* the calls in flight: response.tool_calls
          finished,   \* their results, in the order they came
          outcome,    \* what the run returned or raised
          answers,    \* history: every answer the provider gave
          effects     \* history: every call a handler ended, and how

requestVars == <<round, retried, budget, messages>>
trailVars == <<said, executed, total>>
vars == <<phase, requestVars, trailVars, batch, finished, outcome, answers,
          effects>>

\* The name of the k-th call of the answer at hand.
Call(k) == <<Len(answers), k>>
ToolResult == [call : Nat \X Nat, failed : BOOLEAN]
ExecutedAction == ToolResult
Turn == [calls : Seq(STRING), results : Seq(ToolResult)]
Nothing == [kind |-> "none", text |-> <<>>, actions |-> <<>>, usage |-> 0]
Outcome == [kind : {"none", "replied", "capped", "refused", "ProviderError",
                    "AgentExecutionError", "OtherError"},
            text : Seq(Nat), actions : Seq(ExecutedAction), usage : Nat]

\* registry.is_terminal: a tool nobody registered is not.
IsTerminal(name) == name \in Tool /\ name \in Terminal
AllTerminal(calls) == \A k \in DOMAIN calls : IsTerminal(calls[k])

\* _join: the fragments that are left after strip(), in order.
Join(parts) ==
  LET left[i \in 0..Len(parts)] ==
        IF i = 0 THEN <<>>
        ELSE IF parts[i] = 0 THEN left[i - 1] ELSE Append(left[i - 1], parts[i])
  IN  left[Len(parts)]

\* (the text of the last answer replaces the others)
CollectLatest(r) ==
  IF r.text = "words" THEN <<Len(answers) + 1>> ELSE said
\* collected_text takes every text that is not None or empty; a blank one is
\* kept as 0, which _join drops.
Collect(r) ==
  CASE r.text = "None" -> said
    [] r.text = "blank" -> Append(said, 0)
    [] r.text = "words" -> Append(said, Len(answers) + 1)

\* What is known once the provider answered, whatever is done with it.
Received(r) ==
  /\ answers' = Append(answers, r)
  /\ total' = total + 1

Return(kind, text) ==
  /\ phase' = "ended"
  /\ outcome' = [kind |-> kind, text |-> Join(text), actions |-> executed',
                 usage |-> total']

InLoop == phase = "asking" /\ round < MaxIterations
Capped == phase = "asking" /\ round = MaxIterations

Init ==
  /\ phase = "asking"
  /\ round = 0
  /\ retried = FALSE
  /\ budget = 1
  /\ messages = <<>>
  /\ said = <<>>
  /\ executed = <<>>
  /\ total = 0
  /\ batch = <<>>
  /\ finished = <<>>
  /\ outcome = Nothing
  /\ answers = <<>>
  /\ effects = {}

-----------------------------------------------------------------------------
(* The provider answers inside the loop *)

\* A refusal ends the run at once: no text, the actions so far.
Refuse(r) ==
  /\ InLoop
  /\ r.stop = "refusal"
  /\ Received(r)
  /\ UNCHANGED <<requestVars, said, executed, batch, finished, effects>>
  /\ Return("refused", <<>>)

\* No tools, no words so far, and the budget was the reason: ask once more
\* with twice as much.
OutOfBudget(r) ==
  /\ Join(Collect(r)) = <<>>
  /\ r.stop = "max_tokens"
  /\ ~retried

RetryBudget(r) ==
  /\ InLoop
  /\ r.calls = <<>>
  /\ OutOfBudget(r)
  /\ Received(r)
  /\ said' = Collect(r)
  /\ retried' = TRUE
  /\ budget' = budget * 2
  /\ round' = round + 1
  /\ UNCHANGED <<phase, messages, executed, batch, finished, outcome, effects>>

Reply(r) ==
  /\ InLoop
  /\ r.stop # "refusal"
  /\ r.calls = <<>>
  /\ ~OutOfBudget(r)
  /\ Received(r)
  /\ said' = Collect(r)
  /\ UNCHANGED <<requestVars, executed, batch, finished, effects>>
  /\ Return("replied", said')

\* The assistant's turn goes into the request and all its calls start.
CallTools(r) ==
  /\ InLoop
  /\ r.stop # "refusal"
  /\ r.calls # <<>>
  /\ Received(r)
  /\ said' = Collect(r)
  /\ messages' = Append(messages, [calls |-> r.calls, results |-> <<>>])
  /\ phase' = "gathering"
  /\ batch' = r.calls
  /\ finished' = <<>>
  /\ UNCHANGED <<round, retried, budget, executed, outcome, effects>>

-----------------------------------------------------------------------------
(* The tools *)

Running(k) == \A f \in DOMAIN finished : finished[f].call # Call(k)

\* (a handler's exception is logged and gives no result)
ExecuteOrLog(k) ==
  /\ phase = "gathering"
  /\ k \in DOMAIN batch
  /\ Running(k)
  /\ \E failed \in BOOLEAN :
       /\ batch[k] \notin Tool => failed
       /\ finished' = IF failed THEN finished
                      ELSE Append(finished, [call |-> Call(k), failed |-> FALSE])
       /\ effects' = IF batch[k] \in Tool
                       THEN effects \cup {[call |-> Call(k), failed |-> failed]}
                       ELSE effects
  /\ UNCHANGED <<phase, requestVars, trailVars, batch, outcome, answers>>

\* registry.execute: the handler's text, its exception, or an unknown name;
\* each is a result, never an exception.
Execute(k) ==
  /\ phase = "gathering"
  /\ k \in DOMAIN batch
  /\ Running(k)
  /\ \E failed \in BOOLEAN :
       /\ batch[k] \notin Tool => failed
       /\ finished' = Append(finished, [call |-> Call(k), failed |-> failed])
       /\ effects' = IF batch[k] \in Tool
                       THEN effects \cup {[call |-> Call(k), failed |-> failed]}
                       ELSE effects
  /\ UNCHANGED <<phase, requestVars, trailVars, batch, outcome, answers>>

\* (the results as they come)
ResultsAsTheyCome == finished
\* asyncio.gather: the results in the order of the calls.
Results == [k \in DOMAIN batch |->
              finished[CHOOSE f \in DOMAIN finished : finished[f].call = Call(k)]]

\* (one terminal call is enough; only this answer's text counts)
ShortCircuitOnAny == said # <<>> /\ \E k \in DOMAIN batch : IsTerminal(batch[k])
ShortCircuitOnLatest ==
  answers[Len(answers)].text # "None" /\ AllTerminal(batch)
\* One user turn answers all the calls; a reply the model already wrote is
\* kept if nothing it called needs another round.
ShortCircuit == said # <<>> /\ AllTerminal(batch)

Gather ==
  /\ phase = "gathering"
  /\ \A k \in DOMAIN batch : ~Running(k)
  /\ messages' = [messages EXCEPT ![Len(messages)].results = Results]
  /\ executed' = executed \o Results
  /\ batch' = <<>>
  /\ finished' = <<>>
  /\ UNCHANGED <<retried, budget, said, total, answers, effects>>
  /\ \/ /\ ShortCircuit
        /\ Return("replied", said)
        /\ UNCHANGED round
     \/ /\ ~ShortCircuit
        /\ phase' = "asking"
        /\ round' = round + 1
        /\ UNCHANGED outcome

-----------------------------------------------------------------------------
(* The forced final answer: no tools are offered, so none is called *)

OutOfBudgetAtEnd(r) ==
  /\ r.text = "None"
  /\ r.stop = "max_tokens"
  /\ ~retried

\* (the flag is not set)
RetryFinalAgain(r) ==
  /\ Capped
  /\ r.calls = <<>>
  /\ OutOfBudgetAtEnd(r)
  /\ Received(r)
  /\ budget' = budget * 2
  /\ UNCHANGED <<phase, round, retried, messages, said, executed, batch,
                 finished, outcome, effects>>

RetryFinal(r) ==
  /\ Capped
  /\ r.calls = <<>>
  /\ OutOfBudgetAtEnd(r)
  /\ Received(r)
  /\ retried' = TRUE
  /\ budget' = budget * 2
  /\ UNCHANGED <<phase, round, messages, said, executed, batch, finished,
                 outcome, effects>>

FinalAnswer(r) ==
  /\ Capped
  /\ r.calls = <<>>
  /\ ~OutOfBudgetAtEnd(r)
  /\ Received(r)
  /\ said' = Collect(r)
  /\ UNCHANGED <<requestVars, executed, batch, finished, effects>>
  /\ \/ r.stop = "refusal" /\ Return("refused", <<>>)
     \/ r.stop # "refusal" /\ Return("capped", said')

-----------------------------------------------------------------------------
(* The provider fails (_create_message) *)

Raise(error, actions) ==
  /\ phase = "asking"
  /\ phase' = "ended"
  /\ outcome' = [kind |-> error, text |-> <<>>, actions |-> actions, usage |-> 0]
  /\ UNCHANGED <<requestVars, trailVars, batch, finished, answers, effects>>

\* (the error goes out as it came)
ProviderFailsBare == Raise("ProviderError", <<>>)
\* A provider's failure carries out what tools already did.
ProviderFails ==
  \/ executed # <<>> /\ Raise("AgentExecutionError", executed)
  \/ executed = <<>> /\ Raise("ProviderError", <<>>)

\* Any other exception passes through as it is.
OtherFailure == Raise("OtherError", <<>>)

Next ==
  \/ \E r \in Answer : \/ Refuse(r)
                       \/ RetryBudget(r)
                       \/ Reply(r)
                       \/ CallTools(r)
                       \/ RetryFinal(r)
                       \/ FinalAnswer(r)
  \/ \E k \in DOMAIN batch : Execute(k)
  \/ Gather
  \/ ProviderFails
  \/ OtherFailure

Spec == Init /\ [][Next]_vars

\* The provider answers or raises, and every handler ends: neither the loop
\* nor the registry has a timeout of its own.
FairSpec == Spec /\ WF_vars(Next)

-----------------------------------------------------------------------------
(* Properties *)

\* The types of the run's state; the iteration never passes the cap, and a
\* batch in flight is one of calls the last answer made.
TypeOK ==
  /\ phase \in {"asking", "gathering", "ended"}
  /\ round \in 0..MaxIterations
  /\ retried \in BOOLEAN
  /\ budget \in Nat
  /\ messages \in Seq(Turn)
  /\ said \in Seq(Nat)
  /\ executed \in Seq(ExecutedAction)
  /\ total \in Nat
  /\ batch \in Seq(STRING)
  /\ finished \in Seq(ToolResult)
  /\ outcome \in Outcome
  /\ answers \in Seq(Answer)
  /\ effects \in SUBSET ToolResult

Ended == phase = "ended"
Returned == outcome.kind \in {"replied", "capped"}
Before(a, b) == a[1] < b[1] \/ (a[1] = b[1] /\ a[2] < b[2])

\* However the run ends - a reply, a refusal, the cap, the provider failing in
\* a later call - what it hands to the caller lists every tool that ran, with
\* its own result, in the order the model made the calls although the tools end
\* in any order, and claims no tool that did not run.  (Exceptions other than
\* the provider's own pass without the trail.)
TrailSurvives ==
  Ended /\ outcome.kind # "OtherError" =>
    LET trail == outcome.actions IN
    /\ \A e \in effects : \E j \in DOMAIN trail : trail[j] = e
    /\ \A j \in DOMAIN trail :
         LET c == trail[j].call
         IN  IF answers[c[1]].calls[c[2]] \in Tool THEN trail[j] \in effects
                                                  ELSE trail[j].failed
    /\ \A j, l \in DOMAIN trail : j < l => Before(trail[j].call, trail[l].call)

\* Whenever the provider is asked, the conversation it is sent answers every
\* call it made, each at the call's place, and the trail kept for the caller
\* tells the same.
RequestAnswersCalls ==
  phase = "asking" =>
    /\ \A t \in DOMAIN messages :
         LET turn == messages[t] IN
         /\ Len(turn.results) = Len(turn.calls)
         /\ \A k \in DOMAIN turn.results :
              LET c == turn.results[k].call
              IN  c[2] = k /\ answers[c[1]].calls = turn.calls
    /\ \A t \in DOMAIN messages : \A k \in DOMAIN messages[t].results :
         \E j \in DOMAIN executed : executed[j] = messages[t].results[k]

\* The run never ends well on the result of a call the model wanted to see: a
\* call of a tool that is not terminal is followed by another answer.
ResultsAreSeen ==
  Ended /\ Returned =>
    \A n \in DOMAIN answers :
      ~AllTerminal(answers[n].calls) => n < Len(answers)

\* A reply is all the words the provider wrote, in order: neither a retry nor
\* the text of a later iteration replaces what was said beside a tool call.
NothingSaidIsLost ==
  Ended /\ Returned =>
    LET text == outcome.text IN
    /\ {text[j] : j \in DOMAIN text} =
         {n \in DOMAIN answers : answers[n].text = "words"}
    /\ \A j, l \in DOMAIN text : j < l => text[j] < text[l]

\* The cap is a hard guard on cost: at most one call per iteration, the forced
\* final answer and its retry, with a budget doubled once at most; and a run
\* that returns accounts for every answer it got.
CostBounded ==
  /\ Len(answers) <= MaxIterations + 2
  /\ budget <= 2
  /\ (Ended /\ outcome.usage # 0) => outcome.usage = Len(answers)

\* The model is not asked again to regenerate a reply it has written: once
\* there is text and an answer only called terminal tools, no other follows.
ReplyStands ==
  [][ answers' # answers /\ answers # <<>> =>
        LET last == answers[Len(answers)] IN
        ~ (said # <<>> /\ last.calls # <<>> /\ AllTerminal(last.calls)) ]_vars

\* The run ends, whatever the model asks for.
RunEnds == <>Ended
=============================================================================
