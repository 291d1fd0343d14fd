------------------------------- MODULE Engine -------------------------------
(***************************************************************************)
(* The activation engine (Orchestrator in src/dainframe/core/engine.py)    *)
(* over the keyed stream locks of InProcessStreamCoordinator, the append-  *)
(* only event log of each stream and an in-memory DeliveryLedger.          *)
(*                                                                         *)
(* Tasks are asyncio tasks: a handle() per stimulus and a confirm_         *)
(* delivery() per receipt.  A step of the model runs from one point where  *)
(* the task may suspend to the next one; any other task may run between.   *)
(* Texts are not shown: a line of an activation is the pair <<h, i>>, and  *)
(* an event of the log says who wrote it (by), for which line and, for an  *)
(* action, which of the line's actions it records (item).                  *)
(***************************************************************************)
EXTENDS Naturals, Sequences, FiniteSets

CONSTANTS Stream,
          Handle,        \* the tasks that run handle(), one stimulus each
          Confirmer,     \* the tasks that run confirm_delivery()
          NoTask,
          Speaker,
          Agent,         \* the speakers the engine has an agent for
          Stimuli,       \* the stimuli apps and rhythms submit
          Scripts,       \* the scripts the director may cast
          Outcomes,      \* what an agent's turn may come to
          HasDeliverer, HasLedger,
          RaisesAt       \* the points at which an exception may leave handle()

Task == Handle \cup Confirmer

Stimulus == [stream : Stream, inbound : BOOLEAN, guarded : BOOLEAN,
             target : BOOLEAN]
Line == [speaker : Speaker, response : {"required", "optional", "silent"},
         delivery : {"direct", "pending", "none"}, target : BOOLEAN]

\* _LEGAL_COMBOS: a Script with any other line cannot be built.
Legal(line) == (line.response = "silent") <=> (line.delivery = "none")

\* An agent's turn: how it ended, whether it left prose, and for each action
\* it executed whether the action is to be recorded (succeeded, record_event).
Outcome == [kind : {"ok", "refused", "errored", "provider", "after_tools"},
            text : BOOLEAN, actions : Seq(BOOLEAN)]

ASSUME TaskAssumption ==
  NoTask \notin Task /\ Handle \cap Confirmer = {}
ASSUME StreamAssumption == Stream # {}
ASSUME CastAssumption ==
  /\ Stimuli \subseteq Stimulus
  /\ \A sc \in Scripts : /\ sc \in Seq(Line)
                         /\ \A i \in DOMAIN sc : Legal(sc[i])
  /\ Outcomes \subseteq Outcome
\* The contract of an agent (AgentOutcome): a provider that fails after tools ran
\* is reported with what they did, never as a bare ProviderError.  AgentLoop keeps
\* it: TrailSurvives.
ASSUME TrailAssumption ==
  \A o \in Outcomes : o.kind = "provider" =>
    \A k \in DOMAIN o.actions : ~o.actions[k]
ASSUME ConfigAssumption ==
  HasDeliverer \in BOOLEAN /\ HasLedger \in BOOLEAN

VARIABLES
  holder, waiters,   \* each stream's lock: its holder and its FIFO of waiters
  pc,                \* where each task is
  stream,            \* the stream each task works on
  stim, seen,        \* a handle's stimulus; the log its plan had observed
  script,            \* the script the director cast
  briefed,           \* how much of the log the current line was briefed with
  outcome, todo,     \* the current turn; how many of its actions are treated
  results,           \* the statuses of the lines run so far
  status,            \* the status of the ActivationResult returned
  log,               \* each stream's events
  receipts,          \* the lines whose text the platform confirmed sending
  staged,            \* the ledger's pending deliveries
  confirmed,         \* the ledger's confirmed ones
  ledgerLock,        \* the holder of the ledger's lock
  wants,             \* the pending delivery a confirmer finalises
  effects            \* the recordable actions that tools really executed

lockVars == <<holder, waiters>>
callVars == <<stream, stim, seen>>
turnVars == <<script, briefed, outcome, todo>>
ledgerVars == <<staged, confirmed, ledgerLock, wants>>
vars == <<holder, waiters, pc, stream, stim, seen, script, briefed, outcome,
          todo, results, status, log, receipts, staged, confirmed, ledgerLock,
          wants, effects>>

LineId == Handle \X Nat
NoLine == <<NoTask, 0>>
LogEvent == [kind : {"inbound", "action", "message"}, by : Task,
             line : LineId, item : Nat]
LineStatus == {"delivered", "pending", "silent", "refused", "errored"}
Ended == {"returned", "raised"}
HandlePoint == {"inbound", "direct", "brief", "act", "record", "append", "close"}

\* Inside: past the acquisition of the stream's lock for good.
Inside(t) == pc[t] \in HandlePoint \cup {"confirming"}

TypeOK ==
  /\ holder \in [Stream -> Task \cup {NoTask}]
  /\ waiters \in [Stream -> Seq(Task)]
  /\ pc \in [Task -> {"new", "planned", "entry", "confirming"} \cup HandlePoint
                     \cup Ended]
  /\ stream \in [Task -> Stream]
  /\ stim \in [Handle -> Stimulus]
  /\ seen \in [Handle -> Nat]
  /\ script \in [Handle -> Seq(Line)]
  /\ briefed \in [Handle -> Nat]
  /\ outcome \in [Handle -> Outcome]
  /\ todo \in [Handle -> Nat]
  /\ results \in [Handle -> Seq(LineStatus)]
  /\ status \in [Handle -> {"none", "cancelled", "noop", "completed"}]
  /\ log \in [Stream -> Seq(LogEvent)]
  /\ receipts \subseteq LineId
  /\ staged \subseteq LineId
  /\ confirmed \subseteq staged
  /\ ledgerLock \in Confirmer \cup {NoTask}
  /\ wants \in [Confirmer -> LineId \cup {NoLine}]
  /\ effects \subseteq [line : LineId, item : Nat]

NoStimulus == [stream |-> CHOOSE s \in Stream : TRUE, inbound |-> FALSE,
               guarded |-> FALSE, target |-> FALSE]
NoOutcome == [kind |-> "ok", text |-> FALSE, actions |-> <<>>]

Init ==
  /\ holder = [s \in Stream |-> NoTask]
  /\ waiters = [s \in Stream |-> <<>>]
  /\ pc = [t \in Task |-> "new"]
  /\ stream = [t \in Task |-> NoStimulus.stream]
  /\ stim = [h \in Handle |-> NoStimulus]
  /\ seen = [h \in Handle |-> 0]
  /\ script = [h \in Handle |-> <<>>]
  /\ briefed = [h \in Handle |-> 0]
  /\ outcome = [h \in Handle |-> NoOutcome]
  /\ todo = [h \in Handle |-> 0]
  /\ results = [h \in Handle |-> <<>>]
  /\ status = [h \in Handle |-> "none"]
  /\ log = [s \in Stream |-> <<>>]
  /\ receipts = {}
  /\ staged = {}
  /\ confirmed = {}
  /\ ledgerLock = NoTask
  /\ wants = [c \in Confirmer |-> NoLine]
  /\ effects = {}

-----------------------------------------------------------------------------
(***************************************************************************)
(* The stream lock: an asyncio.Lock per stream.  It is not reentrant and   *)
(* hands itself to its first waiter when it is released.                   *)
(***************************************************************************)
\* Mutant: hold() makes a new lock for every caller.
AcquireFresh(t, s) ==
  /\ holder' = [holder EXCEPT ![s] = t]
  /\ UNCHANGED waiters

Acquire(t, s) ==
  \/ /\ holder[s] = NoTask
     /\ holder' = [holder EXCEPT ![s] = t]
     /\ UNCHANGED waiters
  \/ /\ holder[s] # NoTask
     /\ waiters' = [waiters EXCEPT ![s] = Append(@, t)]
     /\ UNCHANGED holder

Release(s) ==
  \/ /\ waiters[s] = <<>>
     /\ holder' = [holder EXCEPT ![s] = NoTask]
     /\ UNCHANGED waiters
  \/ /\ waiters[s] # <<>>
     /\ holder' = [holder EXCEPT ![s] = Head(waiters[s])]
     /\ waiters' = [waiters EXCEPT ![s] = Tail(@)]

\* Mutant: nobody waits for the lock.
EnteredUnlocked(t) == pc[t] = "entry"

Entered(t) == pc[t] = "entry" /\ holder[stream[t]] = t

Goto(t, point) == pc' = [pc EXCEPT ![t] = point]

Record(s, e) == log' = [log EXCEPT ![s] = Append(@, e)]

-----------------------------------------------------------------------------
(***************************************************************************)
(* handle(): admission.                                                    *)
(***************************************************************************)

\* An app or a rhythm resolves a stimulus; a guarded one remembers how much of
\* the log its plan had seen (NoNewerEvent's `than`).
Plan(h, st) ==
  /\ pc[h] = "new"
  /\ stim' = [stim EXCEPT ![h] = st]
  /\ stream' = [stream EXCEPT ![h] = st.stream]
  /\ seen' = [seen EXCEPT ![h] = Len(log[st.stream])]
  /\ Goto(h, "planned")
  /\ UNCHANGED <<lockVars, turnVars, results, status, log, receipts, ledgerVars,
                 effects>>

Call(h) ==
  /\ pc[h] = "planned"
  /\ Goto(h, "entry")
  /\ Acquire(h, stream[h])
  /\ UNCHANGED <<callVars, turnVars, results, status, log, receipts, ledgerVars,
                 effects>>

\* Mutant: only the last event of the log is looked at.
StaleByLastEvent(h) ==
  /\ stim[h].guarded
  /\ Len(log[stream[h]]) > seen[h]
  /\ log[stream[h]][Len(log[stream[h]])].kind = "inbound"

\* The precondition of a guarded stimulus no longer holds: the user spoke.
Stale(h) ==
  /\ stim[h].guarded
  /\ \E k \in DOMAIN log[stream[h]] :
       k > seen[h] /\ log[stream[h]][k].kind = "inbound"

\* Mutant: the stream is not released when there is no result.
LeaveHolding(h, point, st) ==
  /\ Goto(h, point)
  /\ status' = [status EXCEPT ![h] = st]
  /\ IF st = "none" THEN UNCHANGED lockVars ELSE Release(stream[h])

Leave(h, point, st) ==
  /\ Goto(h, point)
  /\ status' = [status EXCEPT ![h] = st]
  /\ Release(stream[h])

Cancel(h) ==
  /\ Entered(h) /\ Stale(h)
  /\ Leave(h, "returned", "cancelled")
  /\ UNCHANGED <<callVars, turnVars, results, log, receipts, ledgerVars, effects>>

Admit(h) ==
  /\ Entered(h) /\ ~Stale(h)
  /\ Goto(h, IF stim[h].inbound THEN "inbound" ELSE "direct")
  /\ UNCHANGED <<lockVars, callVars, turnVars, results, status, log, receipts,
                 ledgerVars, effects>>

RecordInbound(h) ==
  /\ pc[h] = "inbound"
  /\ Record(stream[h], [kind |-> "inbound", by |-> h, line |-> <<h, 0>>,
                        item |-> 0])
  /\ Goto(h, "direct")
  /\ UNCHANGED <<lockVars, callVars, turnVars, results, status, receipts,
                 ledgerVars, effects>>

\* The director casts a script; an empty one (with its reason) is a noop.
Direct(h, sc) ==
  /\ pc[h] = "direct"
  /\ script' = [script EXCEPT ![h] = sc]
  /\ Goto(h, IF sc = <<>> THEN "close" ELSE "brief")
  /\ UNCHANGED <<lockVars, callVars, briefed, outcome, todo, results, status,
                 log, receipts, ledgerVars, effects>>

-----------------------------------------------------------------------------
(***************************************************************************)
(* _run_line and _deliver_text: one line of the script.                    *)
(***************************************************************************)
Current(h) == Len(results[h]) + 1
ThisLine(h) == script[h][Current(h)]
ThisId(h) == <<h, Current(h)>>

EndLine(h, st) ==
  /\ results' = [results EXCEPT ![h] = Append(@, st)]
  /\ Goto(h, IF Current(h) = Len(script[h]) THEN "close" ELSE "brief")

UnknownSpeaker(h) ==
  /\ pc[h] = "brief"
  /\ ThisLine(h).speaker \notin Agent
  /\ EndLine(h, "errored")
  /\ UNCHANGED <<lockVars, callVars, turnVars, status, log, receipts, ledgerVars,
                 effects>>

\* Mutant: the window is the one the plan observed.
BriefAsPlanned(h) ==
  /\ pc[h] = "brief"
  /\ ThisLine(h).speaker \in Agent
  /\ briefed' = [briefed EXCEPT ![h] = seen[h]]
  /\ Goto(h, "act")
  /\ UNCHANGED <<lockVars, callVars, script, outcome, todo, results, status, log,
                 receipts, ledgerVars, effects>>

\* The window is read after all prior lines were recorded.
Brief(h) ==
  /\ pc[h] = "brief"
  /\ ThisLine(h).speaker \in Agent
  /\ briefed' = [briefed EXCEPT ![h] = Len(log[stream[h]])]
  /\ Goto(h, "act")
  /\ UNCHANGED <<lockVars, callVars, script, outcome, todo, results, status, log,
                 receipts, ledgerVars, effects>>

\* agent.act(): the tools run, then the turn returns or raises: a bare
\* ProviderError ("provider") or an AgentExecutionError ("after_tools"), which is
\* one too.
Act(h, o) ==
  /\ pc[h] = "act"
  /\ outcome' = [outcome EXCEPT ![h] = o]
  /\ todo' = [todo EXCEPT ![h] = 0]
  /\ effects' = effects \cup
       {[line |-> ThisId(h), item |-> k] : k \in {j \in DOMAIN o.actions : o.actions[j]}}
  /\ Goto(h, "record")
  /\ UNCHANGED <<lockVars, callVars, script, briefed, results, status, log,
                 receipts, ledgerVars>>

\* Mutant: the handler of ProviderError comes before that of its subclass.
ReportedOnReturn(o) == IF o.kind \in {"provider", "after_tools"} THEN <<>> ELSE o.actions

\* What the engine hears of the actions: an outcome and an AgentExecutionError
\* carry them, a bare ProviderError does not.
Reported(o) == IF o.kind = "provider" THEN <<>> ELSE o.actions

\* _record_actions: one append at a time, whatever becomes of the prose.
RecordAction(h) ==
  /\ pc[h] = "record"
  /\ todo[h] < Len(Reported(outcome[h]))
  /\ todo' = [todo EXCEPT ![h] = @ + 1]
  /\ IF Reported(outcome[h])[todo[h] + 1]
       THEN Record(stream[h], [kind |-> "action", by |-> h, line |-> ThisId(h),
                               item |-> todo[h] + 1])
       ELSE UNCHANGED log
  /\ UNCHANGED <<lockVars, pc, callVars, script, briefed, outcome, results,
                 status, receipts, ledgerVars, effects>>

\* What the response policy makes of a turn; "speak" is text to be delivered.
Verdict(line, o) ==
  CASE o.kind \in {"provider", "after_tools", "errored"} -> "errored"
    [] o.kind = "refused" -> "refused"
    [] o.kind = "ok" /\ line.response = "silent" ->
         IF o.text THEN "errored" ELSE "silent"
    [] o.kind = "ok" /\ line.response # "silent" /\ ~o.text ->
         IF line.response = "required" THEN "errored" ELSE "silent"
    [] OTHER -> "speak"

Judged(h, v) ==
  /\ pc[h] = "record"
  /\ todo[h] = Len(Reported(outcome[h]))
  /\ Verdict(ThisLine(h), outcome[h]) = v

Configured(h) ==
  /\ ThisLine(h).target \/ stim[h].target
  /\ IF ThisLine(h).delivery = "direct" THEN HasDeliverer ELSE HasLedger

\* No prose to deliver, or no way to deliver it.
KeepQuiet(h) ==
  /\ \/ \E v \in {"errored", "refused", "silent"} : Judged(h, v) /\ EndLine(h, v)
     \/ Judged(h, "speak") /\ ~Configured(h) /\ EndLine(h, "errored")
  /\ UNCHANGED <<lockVars, callVars, turnVars, status, log, receipts, ledgerVars,
                 effects>>

\* await deliverer.deliver(): the platform confirms, or it does not.
Deliver(h) ==
  /\ Judged(h, "speak") /\ Configured(h) /\ ThisLine(h).delivery = "direct"
  /\ receipts' = receipts \cup {ThisId(h)}
  /\ Goto(h, "append")
  /\ UNCHANGED <<lockVars, callVars, turnVars, results, status, log, ledgerVars,
                 effects>>

\* Mutant: an unconfirmed send counts as delivered.
DeliveryAssumed(h) ==
  /\ Judged(h, "speak") /\ Configured(h) /\ ThisLine(h).delivery = "direct"
  /\ EndLine(h, "delivered")
  /\ UNCHANGED <<lockVars, callVars, turnVars, status, log, receipts, ledgerVars,
                 effects>>

DeliveryFails(h) ==
  /\ Judged(h, "speak") /\ Configured(h) /\ ThisLine(h).delivery = "direct"
  /\ EndLine(h, "errored")
  /\ UNCHANGED <<lockVars, callVars, turnVars, status, log, receipts, ledgerVars,
                 effects>>

AppendMessage(h) ==
  /\ pc[h] = "append"
  /\ Record(stream[h], [kind |-> "message", by |-> h, line |-> ThisId(h),
                        item |-> 0])
  /\ EndLine(h, "delivered")
  /\ UNCHANGED <<lockVars, callVars, turnVars, status, receipts, ledgerVars,
                 effects>>

\* await ledger.stage(): the text is frozen, nothing is recorded.
Stage(h) ==
  /\ Judged(h, "speak") /\ Configured(h) /\ ThisLine(h).delivery = "pending"
  /\ staged' = staged \cup {ThisId(h)}
  /\ EndLine(h, "pending")
  /\ UNCHANGED <<lockVars, callVars, turnVars, status, log, receipts, confirmed,
                 ledgerLock, wants, effects>>

\* after_turn (isolated), return, release.
Close(h) ==
  /\ pc[h] = "close"
  /\ Leave(h, "returned", IF script[h] = <<>> THEN "noop" ELSE "completed")
  /\ UNCHANGED <<callVars, turnVars, results, log, receipts, ledgerVars, effects>>

\* An exception the engine does not handle, or a cancellation: `async with`
\* releases the stream and there is no ActivationResult.
Raise(h) ==
  /\ \/ pc[h] \in RaisesAt \cap HandlePoint
     \/ "entry" \in RaisesAt /\ Entered(h)
  /\ Leave(h, "raised", "none")
  /\ UNCHANGED <<callVars, turnVars, results, log, receipts, ledgerVars, effects>>

-----------------------------------------------------------------------------
(***************************************************************************)
(* Pending deliveries: the app sends the frozen text an activation         *)
(* returned, then finalises it with confirm_delivery().                    *)
(***************************************************************************)
Dispatch(l) ==
  /\ l \in staged
  /\ pc[l[1]] = "returned"
  /\ receipts' = receipts \cup {l}
  /\ UNCHANGED <<lockVars, pc, callVars, turnVars, results, status, log,
                 ledgerVars, effects>>

\* ledger.get() before the stream is held.
GetPending(c, l) ==
  /\ pc[c] = "new"
  /\ l \in staged \cap receipts
  /\ wants' = [wants EXCEPT ![c] = l]
  /\ stream' = [stream EXCEPT ![c] = stream[l[1]]]
  /\ Goto(c, "entry")
  /\ Acquire(c, stream[l[1]])
  /\ UNCHANGED <<stim, seen, turnVars, results, status, log, receipts, staged,
                 confirmed, ledgerLock, effects>>

\* ledger.confirm() under its own lock, with the stream held.
ConfirmAgain(c) ==
  /\ Entered(c) /\ ledgerLock = NoTask
  /\ wants[c] \in confirmed
  /\ Goto(c, "returned")
  /\ Release(stream[c])
  /\ UNCHANGED <<callVars, turnVars, results, status, log, receipts, ledgerVars,
                 effects>>

\* Mutant: an id confirmed before is confirmed again.
BeginConfirmTwice(c) ==
  /\ Entered(c) /\ ledgerLock = NoTask
  /\ ledgerLock' = c
  /\ Goto(c, "confirming")
  /\ UNCHANGED <<lockVars, callVars, turnVars, results, status, log, receipts,
                 staged, confirmed, wants, effects>>

BeginConfirm(c) ==
  /\ Entered(c) /\ ledgerLock = NoTask
  /\ wants[c] \notin confirmed
  /\ ledgerLock' = c
  /\ Goto(c, "confirming")
  /\ UNCHANGED <<lockVars, callVars, turnVars, results, status, log, receipts,
                 staged, confirmed, wants, effects>>

\* Mutant: the ledger forgets the text it confirmed.
FinishConfirmForgetting(c) ==
  /\ pc[c] = "confirming"
  /\ Record(stream[c], [kind |-> "message", by |-> c, line |-> wants[c],
                        item |-> 0])
  /\ confirmed' = confirmed \cup {wants[c]}
  /\ staged' = staged \ {wants[c]}
  /\ ledgerLock' = NoTask
  /\ Goto(c, "returned")
  /\ Release(stream[c])
  /\ UNCHANGED <<callVars, turnVars, results, status, receipts, wants, effects>>

FinishConfirm(c) ==
  /\ pc[c] = "confirming"
  /\ Record(stream[c], [kind |-> "message", by |-> c, line |-> wants[c],
                        item |-> 0])
  /\ confirmed' = confirmed \cup {wants[c]}
  /\ ledgerLock' = NoTask
  /\ Goto(c, "returned")
  /\ Release(stream[c])
  /\ UNCHANGED <<callVars, turnVars, results, status, receipts, staged, wants,
                 effects>>

FailConfirm(c) ==
  /\ pc[c] = "confirming"
  /\ ledgerLock' = NoTask
  /\ Goto(c, "raised")
  /\ Release(stream[c])
  /\ UNCHANGED <<callVars, turnVars, results, status, log, receipts, staged,
                 confirmed, wants, effects>>

-----------------------------------------------------------------------------
HandleStep(h) ==
  \/ Call(h) \/ Cancel(h) \/ Admit(h) \/ RecordInbound(h)
  \/ \E sc \in Scripts : Direct(h, sc)
  \/ UnknownSpeaker(h) \/ Brief(h)
  \/ \E o \in Outcomes : Act(h, o)
  \/ RecordAction(h) \/ KeepQuiet(h) \/ Deliver(h) \/ DeliveryFails(h)
  \/ AppendMessage(h) \/ Stage(h) \/ Close(h) \/ Raise(h)

ConfirmStep(c) ==
  ConfirmAgain(c) \/ BeginConfirm(c) \/ FinishConfirm(c) \/ FailConfirm(c)

\* Every call ended and every receipt has a confirmer: the workload is done.
Rest ==
  /\ \A h \in Handle : pc[h] \in Ended
  /\ \A c \in Confirmer : pc[c] \in Ended \cup {"new"}
  /\ UNCHANGED vars

Next ==
  \/ \E h \in Handle : HandleStep(h) \/ \E st \in Stimuli : Plan(h, st)
  \/ \E c \in Confirmer : ConfirmStep(c) \/ \E l \in staged : GetPending(c, l)
  \/ \E l \in staged : Dispatch(l)
  \/ Rest

(***************************************************************************)
(* Fairness: asyncio keeps running every task that can run, and the app's  *)
(* director, agents, deliverer and stores answer or raise.  The lock needs *)
(* no fairness of its own: it is handed over first come first served.      *)
(***************************************************************************)
Fairness == /\ \A h \in Handle : WF_vars(HandleStep(h))
            /\ \A c \in Confirmer : WF_vars(ConfirmStep(c))

Spec == Init /\ [][Next]_vars
FairSpec == Spec /\ Fairness

-----------------------------------------------------------------------------
(***************************************************************************)
(* Properties.                                                             *)
(***************************************************************************)

\* Recording, generation, delivery and confirmation are serialised per stream:
\* two tasks are never inside handle() or confirm() of the same stream.
Serialized ==
  \A t, u \in Task : Inside(t) /\ Inside(u) /\ stream[t] = stream[u] => t = u

\* The log reads as turns: what an activation wrote is contiguous (nobody wrote
\* between two of its events, across all its suspensions) and in the order of
\* its script: the stimulus, then for each line its actions, then its message.
Before(d, e) ==
  \/ d.line[2] < e.line[2]
  \/ d.line[2] = e.line[2] /\ (e.kind = "message" \/ d.item < e.item)

LogReadsAsTurns ==
  \A s \in Stream : \A j, k \in DOMAIN log[s] :
    j < k /\ log[s][j].by = log[s][k].by =>
      /\ \A m \in j..k : log[s][m].by = log[s][j].by
      /\ Before(log[s][j], log[s][k])

\* Until a line is over, the window its agent was briefed with misses nothing
\* but the line's own events: no inbound message, no confirmation and no other
\* activation slips in while the agent thinks or the platform sends.
BriefingIsCurrent ==
  \A h \in Handle : pc[h] \in {"act", "record", "append"} =>
    \A k \in DOMAIN log[stream[h]] :
      k > briefed[h] => log[stream[h]][k].line = ThisId(h)

\* No stale outreach: once a user's message entered the log after the plan of a
\* guarded activation was made, the activation writes nothing, runs no tool and
\* stages nothing any more, however long it waited for the stream.
UserSpoke(h) ==
  \E k \in DOMAIN log[stream[h]] : /\ k > seen[h]
                                  /\ log[stream[h]][k].kind = "inbound"
                                  /\ log[stream[h]][k].by # h

Traces(h) ==
  [written |-> {k \in DOMAIN log[stream[h]] : log[stream[h]][k].by = h},
   executed |-> {e \in effects : e.line[1] = h},
   frozen |-> {l \in staged : l[1] = h}]

NoStaleOutreach ==
  [][\A h \in Handle : stim[h].guarded /\ UserSpoke(h) => Traces(h)' = Traces(h)]_vars

\* Action truth: of every line that is over, each recordable action its tools
\* executed is in the log exactly once, whatever the policy made of the prose
\* and whether or not the provider failed afterwards; and the log claims no
\* action that was not executed.  It takes two: an agent that names what it did
\* when it fails (TrailAssumption), and an engine that records what it is told.
ActionTruth ==
  /\ \A e \in effects : e.line[2] <= Len(results[e.line[1]]) =>
       LET s == stream[e.line[1]] IN
       \E k \in DOMAIN log[s] :
         {j \in DOMAIN log[s] : /\ log[s][j].kind = "action"
                               /\ log[s][j].line = e.line
                               /\ log[s][j].item = e.item} = {k}
  /\ \A s \in Stream : \A k \in DOMAIN log[s] :
       log[s][k].kind = "action" =>
         [line |-> log[s][k].line, item |-> log[s][k].item] \in effects

\* The result tells the truth about the prose of each line: "delivered" lines
\* have their message in the log, "pending" ones are frozen in the ledger, and
\* of all the others (silent lines that spoke, refusals, failed sends) nothing
\* was confirmed, recorded or staged.  And a confirmation that returned left its
\* message in the log of the activation's own stream, also when another task had
\* confirmed the same id before.
MessageOf(l) ==
  \E k \in DOMAIN log[stream[l[1]]] : /\ log[stream[l[1]]][k].kind = "message"
                                     /\ log[stream[l[1]]][k].line = l

ResultsTellTheTruth ==
  /\ \A h \in Handle : \A i \in DOMAIN results[h] :
       CASE results[h][i] = "delivered" ->
              MessageOf(<<h, i>>) /\ <<h, i>> \in receipts
         [] results[h][i] = "pending" -> <<h, i>> \in staged
         [] OTHER -> /\ <<h, i>> \notin receipts \cup staged
                     /\ ~MessageOf(<<h, i>>)
  /\ \A c \in Confirmer : pc[c] = "returned" => MessageOf(wants[c])

\* The engine with its ledger implements the delivery contract.
Messages ==
  UNION {{[at |-> <<s, k>>, what |-> log[s][k].line] :
            k \in {j \in DOMAIN log[s] : log[s][j].kind = "message"}} : s \in Stream}

Abstract == INSTANCE ConfirmedHistory WITH
  Delivery <- LineId, Place <- Stream \X Nat, entries <- Messages

ImplementsContract == Abstract!Spec

\* Every call ends: nobody waits for a stream for ever, whoever raises.
EveryCallEnds == \A t \in Task : pc[t] = "entry" ~> pc[t] \in Ended
=============================================================================
