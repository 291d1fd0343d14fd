---------------------------- MODULE EngineProofs ----------------------------
(***************************************************************************)
(* Proofs about Engine, for any tasks, streams, casts and configurations,  *)
(* and with exceptions at any point.                                       *)
(***************************************************************************)
EXTENDS Engine, TLAPS

Points == {"new", "planned", "entry", "confirming"} \cup HandlePoint \cup Ended

\* The type invariant in groups that actions change together.
LockTyped == /\ holder \in [Stream -> Task \cup {NoTask}]
             /\ waiters \in [Stream -> Seq(Task)]
PcTyped == pc \in [Task -> Points]
CallTyped == /\ stream \in [Task -> Stream]
             /\ stim \in [Handle -> Stimulus]
             /\ seen \in [Handle -> Nat]
TurnTyped == /\ script \in [Handle -> Seq(Line)]
             /\ briefed \in [Handle -> Nat]
             /\ outcome \in [Handle -> Outcome]
             /\ todo \in [Handle -> Nat]
ResultsTyped == results \in [Handle -> Seq(LineStatus)]
StatusTyped == status \in [Handle -> {"none", "cancelled", "noop", "completed"}]
LogTyped == log \in [Stream -> Seq(LogEvent)]
LedgerTyped == /\ receipts \subseteq LineId
               /\ staged \subseteq LineId
               /\ confirmed \subseteq staged
               /\ ledgerLock \in Confirmer \cup {NoTask}
               /\ wants \in [Confirmer -> LineId \cup {NoLine}]
EffectsTyped == effects \subseteq [line : LineId, item : Nat]

\* What a confirmer works on is a delivery staged and sent.
WantsStaged ==
  \A c \in Confirmer : pc[c] # "new" => wants[c] \in staged \cap receipts

Typed == /\ LockTyped /\ PcTyped /\ CallTyped /\ TurnTyped /\ ResultsTyped
         /\ StatusTyped /\ LogTyped /\ LedgerTyped /\ EffectsTyped
         /\ WantsStaged

LEMMA TypedIsTypeOK == Typed => TypeOK
  BY DEF Typed, TypeOK, LockTyped, PcTyped, CallTyped, TurnTyped, ResultsTyped,
     StatusTyped, LogTyped, LedgerTyped, EffectsTyped, Points

-----------------------------------------------------------------------------
(***************************************************************************)
(* What the helpers preserve.                                              *)
(***************************************************************************)
LEMMA AppendType ==
  ASSUME NEW S, NEW s \in Seq(S), NEW e \in S
  PROVE  Append(s, e) \in Seq(S)
  OBVIOUS

LEMMA HeadTailType ==
  ASSUME NEW S, NEW s \in Seq(S), s # <<>>
  PROVE  Head(s) \in S /\ Tail(s) \in Seq(S)
  OBVIOUS

LEMMA AcquireType ==
  ASSUME LockTyped, NEW t \in Task, NEW s \in Stream, Acquire(t, s)
  PROVE  LockTyped'
<1>1. CASE holder[s] = NoTask
  BY <1>1 DEF LockTyped, Acquire
<1>2. CASE holder[s] # NoTask
  <2>1. Append(waiters[s], t) \in Seq(Task)
    BY AppendType DEF LockTyped
  <2> QED  BY <1>2, <2>1 DEF LockTyped, Acquire
<1> QED  BY <1>1, <1>2

LEMMA ReleaseType ==
  ASSUME LockTyped, NEW s \in Stream, Release(s)
  PROVE  LockTyped'
<1>1. CASE waiters[s] = <<>>
  BY <1>1 DEF LockTyped, Release
<1>2. CASE waiters[s] # <<>>
  <2>1. Head(waiters[s]) \in Task /\ Tail(waiters[s]) \in Seq(Task)
    BY <1>2, HeadTailType DEF LockTyped
  <2> QED  BY <1>2, <2>1 DEF LockTyped, Release
<1> QED  BY <1>1, <1>2

LEMMA RecordType ==
  ASSUME LogTyped, NEW s \in Stream, NEW e \in LogEvent, Record(s, e)
  PROVE  LogTyped'
<1>1. Append(log[s], e) \in Seq(LogEvent)
  BY AppendType DEF LogTyped
<1> QED  BY <1>1 DEF LogTyped, Record

LEMMA GotoType ==
  ASSUME PcTyped, NEW t \in Task, NEW p \in Points, Goto(t, p)
  PROVE  PcTyped' /\ pc' = [pc EXCEPT ![t] = p]
  BY DEF PcTyped, Goto

LEMMA HandleIsTask == Handle \subseteq Task /\ Confirmer \subseteq Task
  BY DEF Task

LEMMA EndLineType ==
  ASSUME PcTyped, ResultsTyped, NEW h \in Handle, NEW st \in LineStatus,
         EndLine(h, st)
  PROVE  /\ PcTyped' /\ ResultsTyped'
         /\ \E p \in {"brief", "close"} : pc' = [pc EXCEPT ![h] = p]
<1>1. Append(results[h], st) \in Seq(LineStatus)
  BY AppendType DEF ResultsTyped
<1>2. ResultsTyped'
  BY <1>1 DEF ResultsTyped, EndLine
<1>3. PICK p \in {"brief", "close"} : Goto(h, p)
  BY DEF EndLine
<1>4. p \in Points /\ h \in Task
  BY HandleIsTask DEF Points, HandlePoint
<1> QED  BY <1>2, <1>3, <1>4, GotoType

LEMMA LeaveType ==
  ASSUME LockTyped, PcTyped, StatusTyped, CallTyped, NEW h \in Handle,
         NEW p \in Ended, NEW st \in {"none", "cancelled", "noop", "completed"},
         Leave(h, p, st)
  PROVE  LockTyped' /\ PcTyped' /\ StatusTyped' /\ pc' = [pc EXCEPT ![h] = p]
<1>1. p \in Points /\ h \in Task /\ stream[h] \in Stream
  BY HandleIsTask DEF Points, CallTyped
<1>2. PcTyped' /\ pc' = [pc EXCEPT ![h] = p]
  BY <1>1, GotoType DEF Leave
<1>3. LockTyped'
  BY <1>1, ReleaseType DEF Leave
<1>4. StatusTyped'
  BY DEF StatusTyped, Leave
<1> QED  BY <1>2, <1>3, <1>4

LEMMA CurrentType ==
  ASSUME ResultsTyped, NEW h \in Handle
  PROVE  Current(h) \in Nat /\ ThisId(h) \in LineId
<1>1. Len(results[h]) \in Nat
  BY DEF ResultsTyped
<1> QED  BY <1>1 DEF Current, ThisId, LineId

\* A step of a handle leaves the confirmers where they are.
LEMMA ConfirmersWait ==
  ASSUME WantsStaged, NEW h \in Handle, NEW p, pc' = [pc EXCEPT ![h] = p],
         PcTyped, UNCHANGED wants, staged \subseteq staged', receipts \subseteq receipts'
  PROVE  WantsStaged'
<1>1. \A c \in Confirmer : pc'[c] = pc[c]
  BY TaskAssumption, HandleIsTask DEF PcTyped
<1> QED  BY <1>1 DEF WantsStaged

-----------------------------------------------------------------------------
(***************************************************************************)
(* Typed is inductive.                                                     *)
(***************************************************************************)
LEMMA InitTyped == Init => Typed
<1> SUFFICES ASSUME Init PROVE Typed
  OBVIOUS
<1>1. NoStimulus \in Stimulus
  BY StreamAssumption DEF NoStimulus, Stimulus
<1>2. NoOutcome \in Outcome
  BY DEF NoOutcome, Outcome
<1>3. LockTyped /\ PcTyped /\ StatusTyped /\ LogTyped /\ ResultsTyped
  BY DEF Init, LockTyped, PcTyped, Points, StatusTyped, LogTyped, ResultsTyped
<1>4. CallTyped
  BY <1>1 DEF Init, CallTyped, Stimulus
<1>5. TurnTyped
  BY <1>2 DEF Init, TurnTyped
<1>6. LedgerTyped /\ EffectsTyped
  BY DEF Init, LedgerTyped, EffectsTyped
<1>7. WantsStaged
  BY HandleIsTask DEF Init, WantsStaged
<1> QED  BY <1>3, <1>4, <1>5, <1>6, <1>7 DEF Typed

\* Admission.
LEMMA AdmissionTyped ==
  ASSUME Typed, NEW h \in Handle,
         \/ \E st \in Stimuli : Plan(h, st)
         \/ Call(h) \/ Cancel(h) \/ Admit(h) \/ RecordInbound(h)
  PROVE  Typed'
<1> USE HandleIsTask DEF Typed, lockVars, callVars, turnVars, ledgerVars
<1>h. h \in Task /\ stream[h] \in Stream
  BY DEF CallTyped
<1>1. ASSUME NEW st \in Stimuli, Plan(h, st) PROVE Typed'
  <2>1. st \in Stimulus /\ st.stream \in Stream /\ Len(log[st.stream]) \in Nat
    BY CastAssumption DEF Stimulus, LogTyped
  <2>2. CallTyped'
    BY <1>1, <1>h, <2>1 DEF Plan, CallTyped
  <2>3. PcTyped' /\ pc' = [pc EXCEPT ![h] = "planned"]
    BY <1>1, <1>h, GotoType DEF Plan, Points
  <2>4. WantsStaged'
    BY <1>1, <2>3, ConfirmersWait DEF Plan
  <2> QED
    BY <1>1, <2>2, <2>3, <2>4 DEF Plan, LockTyped, TurnTyped, ResultsTyped,
       StatusTyped, LogTyped, LedgerTyped, EffectsTyped
<1>2. CASE Call(h)
  <2>1. LockTyped'
    BY <1>2, <1>h, AcquireType DEF Call
  <2>2. PcTyped' /\ pc' = [pc EXCEPT ![h] = "entry"]
    BY <1>2, <1>h, GotoType DEF Call, Points
  <2>3. WantsStaged'
    BY <1>2, <2>2, ConfirmersWait DEF Call
  <2> QED
    BY <1>2, <2>1, <2>2, <2>3 DEF Call, CallTyped, TurnTyped, ResultsTyped,
       StatusTyped, LogTyped, LedgerTyped, EffectsTyped
<1>3. CASE Cancel(h)
  <2>1. LockTyped' /\ PcTyped' /\ StatusTyped' /\ pc' = [pc EXCEPT ![h] = "returned"]
    BY <1>3, LeaveType DEF Cancel, Ended
  <2>2. WantsStaged'
    BY <1>3, <2>1, ConfirmersWait DEF Cancel
  <2> QED
    BY <1>3, <2>1, <2>2 DEF Cancel, CallTyped, TurnTyped, ResultsTyped,
       LogTyped, LedgerTyped, EffectsTyped
<1>4. CASE Admit(h)
  <2>1. PICK p \in {"inbound", "direct"} : Goto(h, p)
    BY <1>4 DEF Admit
  <2>2. PcTyped' /\ pc' = [pc EXCEPT ![h] = p]
    BY <1>h, <2>1, GotoType DEF Points, HandlePoint
  <2>3. WantsStaged'
    BY <1>4, <2>2, ConfirmersWait DEF Admit
  <2> QED
    BY <1>4, <2>2, <2>3 DEF Admit, LockTyped, CallTyped, TurnTyped, ResultsTyped,
       StatusTyped, LogTyped, LedgerTyped, EffectsTyped
<1>5. CASE RecordInbound(h)
  <2>1. [kind |-> "inbound", by |-> h, line |-> <<h, 0>>, item |-> 0] \in LogEvent
    BY <1>h DEF LogEvent, LineId
  <2>2. LogTyped'
    BY <1>5, <1>h, <2>1, RecordType DEF RecordInbound
  <2>3. PcTyped' /\ pc' = [pc EXCEPT ![h] = "direct"]
    BY <1>5, <1>h, GotoType DEF RecordInbound, Points, HandlePoint
  <2>4. WantsStaged'
    BY <1>5, <2>3, ConfirmersWait DEF RecordInbound
  <2> QED
    BY <1>5, <2>2, <2>3, <2>4 DEF RecordInbound, LockTyped, CallTyped, TurnTyped,
       ResultsTyped, StatusTyped, LedgerTyped, EffectsTyped
<1> QED  BY <1>1, <1>2, <1>3, <1>4, <1>5

\* A line up to the verdict on its prose.
LEMMA TurnTypedStep ==
  ASSUME Typed, NEW h \in Handle,
         \/ \E sc \in Scripts : Direct(h, sc)
         \/ Brief(h)
         \/ \E o \in Outcomes : Act(h, o)
         \/ RecordAction(h)
  PROVE  Typed'
<1> USE HandleIsTask DEF Typed, lockVars, callVars, turnVars, ledgerVars
<1>h. h \in Task /\ stream[h] \in Stream
  BY DEF CallTyped
<1>1. ASSUME NEW sc \in Scripts, Direct(h, sc) PROVE Typed'
  <2>1. TurnTyped'
    BY <1>1, CastAssumption DEF Direct, TurnTyped
  <2>2. PICK p \in {"close", "brief"} : Goto(h, p)
    BY <1>1 DEF Direct
  <2>3. PcTyped' /\ pc' = [pc EXCEPT ![h] = p]
    BY <1>h, <2>2, GotoType DEF Points, HandlePoint
  <2>4. WantsStaged'
    BY <1>1, <2>3, ConfirmersWait DEF Direct
  <2> QED
    BY <1>1, <2>1, <2>3, <2>4 DEF Direct, LockTyped, CallTyped, ResultsTyped,
       StatusTyped, LogTyped, LedgerTyped, EffectsTyped
<1>2. CASE Brief(h)
  <2>1. Len(log[stream[h]]) \in Nat
    BY <1>h DEF LogTyped
  <2>2. TurnTyped'
    BY <1>2, <2>1 DEF Brief, TurnTyped
  <2>3. PcTyped' /\ pc' = [pc EXCEPT ![h] = "act"]
    BY <1>2, <1>h, GotoType DEF Brief, Points, HandlePoint
  <2>4. WantsStaged'
    BY <1>2, <2>3, ConfirmersWait DEF Brief
  <2> QED
    BY <1>2, <2>2, <2>3, <2>4 DEF Brief, LockTyped, CallTyped, ResultsTyped,
       StatusTyped, LogTyped, LedgerTyped, EffectsTyped
<1>3. ASSUME NEW o \in Outcomes, Act(h, o) PROVE Typed'
  <2>1. o \in Outcome /\ DOMAIN o.actions \subseteq Nat
    BY CastAssumption DEF Outcome
  <2>2. TurnTyped'
    BY <1>3, <2>1 DEF Act, TurnTyped
  <2>3. ThisId(h) \in LineId
    BY CurrentType
  <2>4. EffectsTyped'
    BY <1>3, <2>1, <2>3 DEF Act, EffectsTyped
  <2>5. PcTyped' /\ pc' = [pc EXCEPT ![h] = "record"]
    BY <1>3, <1>h, GotoType DEF Act, Points, HandlePoint
  <2>6. WantsStaged'
    BY <1>3, <2>5, ConfirmersWait DEF Act
  <2> QED
    BY <1>3, <2>2, <2>4, <2>5, <2>6 DEF Act, LockTyped, CallTyped, ResultsTyped,
       StatusTyped, LogTyped, LedgerTyped
<1>4. CASE RecordAction(h)
  <2>1. todo[h] \in Nat /\ ThisId(h) \in LineId
    BY CurrentType DEF TurnTyped
  <2>2. TurnTyped'
    BY <1>4, <2>1 DEF RecordAction, TurnTyped
  <2>3. [kind |-> "action", by |-> h, line |-> ThisId(h), item |-> todo[h] + 1]
          \in LogEvent
    BY <1>h, <2>1 DEF LogEvent
  <2>4. LogTyped'
    <3>1. CASE UNCHANGED log
      BY <3>1 DEF LogTyped
    <3>2. CASE Record(stream[h], [kind |-> "action", by |-> h, line |-> ThisId(h),
                                  item |-> todo[h] + 1])
      BY <1>h, <2>3, <3>2, RecordType
    <3> QED  BY <1>4, <3>1, <3>2 DEF RecordAction
  <2>5. WantsStaged'
    BY <1>4 DEF RecordAction, WantsStaged
  <2> QED
    BY <1>4, <2>2, <2>4, <2>5 DEF RecordAction, LockTyped, PcTyped, CallTyped,
       ResultsTyped, StatusTyped, LedgerTyped, EffectsTyped
<1> QED  BY <1>1, <1>2, <1>3, <1>4

\* The end of a line, and of the activation.
LEMMA LineTypedStep ==
  ASSUME Typed, NEW h \in Handle,
         \/ UnknownSpeaker(h) \/ KeepQuiet(h) \/ Deliver(h) \/ DeliveryFails(h)
         \/ AppendMessage(h) \/ Stage(h) \/ Close(h) \/ Raise(h)
  PROVE  Typed'
<1> USE HandleIsTask DEF Typed, lockVars, callVars, turnVars, ledgerVars
<1>h. h \in Task /\ stream[h] \in Stream /\ ThisId(h) \in LineId
  BY CurrentType DEF CallTyped
<1>1. CASE UnknownSpeaker(h) \/ KeepQuiet(h) \/ DeliveryFails(h)
  <2>1. PICK st \in LineStatus : EndLine(h, st)
    BY <1>1 DEF UnknownSpeaker, KeepQuiet, DeliveryFails, LineStatus
  <2>2. PICK p \in {"brief", "close"} : pc' = [pc EXCEPT ![h] = p]
    BY <2>1, EndLineType
  <2>3. PcTyped' /\ ResultsTyped'
    BY <2>1, EndLineType
  <2>4. UNCHANGED <<lockVars, callVars, turnVars, status, log, receipts,
                    ledgerVars, effects>>
    BY <1>1 DEF UnknownSpeaker, KeepQuiet, DeliveryFails
  <2>5. WantsStaged'
    BY <2>2, <2>4, ConfirmersWait
  <2> QED
    BY <2>3, <2>4, <2>5 DEF LockTyped, CallTyped, TurnTyped,
       StatusTyped, LogTyped, LedgerTyped, EffectsTyped
<1>2. CASE Deliver(h)
  <2>1. PcTyped' /\ pc' = [pc EXCEPT ![h] = "append"]
    BY <1>2, <1>h, GotoType DEF Deliver, Points, HandlePoint
  <2>2. LedgerTyped'
    BY <1>2, <1>h DEF Deliver, LedgerTyped
  <2>3. WantsStaged'
    BY <1>2, <2>1, ConfirmersWait DEF Deliver
  <2> QED
    BY <1>2, <2>1, <2>2, <2>3 DEF Deliver, LockTyped, CallTyped, TurnTyped,
       ResultsTyped, StatusTyped, LogTyped, EffectsTyped
<1>3. CASE AppendMessage(h)
  <2>1. [kind |-> "message", by |-> h, line |-> ThisId(h), item |-> 0] \in LogEvent
    BY <1>h DEF LogEvent
  <2>2. LogTyped'
    BY <1>3, <1>h, <2>1, RecordType DEF AppendMessage
  <2>3. EndLine(h, "delivered") /\ "delivered" \in LineStatus
    BY <1>3 DEF AppendMessage, LineStatus
  <2>4. PcTyped' /\ ResultsTyped' /\ \E p \in {"brief", "close"} : pc' = [pc EXCEPT ![h] = p]
    BY <2>3, EndLineType
  <2>5. WantsStaged'
    BY <1>3, <2>4, ConfirmersWait DEF AppendMessage
  <2> QED
    BY <1>3, <2>2, <2>4, <2>5 DEF AppendMessage, LockTyped, CallTyped, TurnTyped,
       StatusTyped, LedgerTyped, EffectsTyped
<1>4. CASE Stage(h)
  <2>1. EndLine(h, "pending") /\ "pending" \in LineStatus
    BY <1>4 DEF Stage, LineStatus
  <2>2. PcTyped' /\ ResultsTyped' /\ \E p \in {"brief", "close"} : pc' = [pc EXCEPT ![h] = p]
    BY <2>1, EndLineType
  <2>3. LedgerTyped'
    BY <1>4, <1>h DEF Stage, LedgerTyped
  <2>4. WantsStaged'
    BY <1>4, <2>2, ConfirmersWait DEF Stage
  <2> QED
    BY <1>4, <2>2, <2>3, <2>4 DEF Stage, LockTyped, CallTyped, TurnTyped,
       StatusTyped, LogTyped, EffectsTyped
<1>5. CASE Close(h) \/ Raise(h)
  <2>1. PICK p \in Ended, st \in {"none", "cancelled", "noop", "completed"} :
          Leave(h, p, st)
    BY <1>5 DEF Close, Raise, Ended
  <2>2. LockTyped' /\ PcTyped' /\ StatusTyped' /\ pc' = [pc EXCEPT ![h] = p]
    BY <2>1, LeaveType
  <2>3. UNCHANGED <<callVars, turnVars, results, log, receipts, ledgerVars, effects>>
    BY <1>5 DEF Close, Raise
  <2>4. WantsStaged'
    BY <2>2, <2>3, ConfirmersWait
  <2> QED
    BY <2>2, <2>3, <2>4 DEF CallTyped, TurnTyped, ResultsTyped,
       LogTyped, LedgerTyped, EffectsTyped
<1> QED  BY <1>1, <1>2, <1>3, <1>4, <1>5

\* Confirmations, and the app's own sends.
LEMMA ConfirmTypedStep ==
  ASSUME Typed, NEW c \in Confirmer,
         ConfirmStep(c) \/ \E l \in staged : GetPending(c, l)
  PROVE  Typed'
<1> USE HandleIsTask DEF Typed, lockVars, callVars, turnVars, ledgerVars
<1>c. c \in Task /\ stream[c] \in Stream
  BY DEF CallTyped
<1>p. Ended \cup {"confirming", "entry"} \subseteq Points
  BY DEF Points
<1>1. ASSUME NEW l \in staged, GetPending(c, l) PROVE Typed'
  <2>1. l \in LineId /\ l[1] \in Task /\ stream[l[1]] \in Stream
    BY DEF LedgerTyped, LineId, CallTyped
  <2>2. LockTyped'
    BY <1>1, <1>c, <2>1, AcquireType DEF GetPending
  <2>3. PcTyped' /\ pc' = [pc EXCEPT ![c] = "entry"]
    BY <1>1, <1>c, <1>p, GotoType DEF GetPending
  <2>4. CallTyped'
    BY <1>1, <1>c, <2>1 DEF GetPending, CallTyped
  <2>5. LedgerTyped'
    BY <1>1, <2>1 DEF GetPending, LedgerTyped
  <2>6. WantsStaged'
    BY <1>1, <1>c, <2>3 DEF GetPending, WantsStaged, PcTyped, LedgerTyped
  <2> QED
    BY <1>1, <2>2, <2>3, <2>4, <2>5, <2>6 DEF GetPending, TurnTyped,
       ResultsTyped, StatusTyped, LogTyped, EffectsTyped
<1>2. CASE ConfirmAgain(c)
  <2>1. LockTyped' /\ PcTyped' /\ pc' = [pc EXCEPT ![c] = "returned"]
    BY <1>2, <1>c, <1>p, ReleaseType, GotoType DEF ConfirmAgain, Ended
  <2>2. WantsStaged'
    BY <1>2, <1>c, <2>1 DEF ConfirmAgain, Entered, WantsStaged, PcTyped
  <2> QED
    BY <1>2, <2>1, <2>2 DEF ConfirmAgain, CallTyped, TurnTyped,
       ResultsTyped, StatusTyped, LogTyped, LedgerTyped, EffectsTyped
<1>3. CASE BeginConfirm(c)
  <2>1. PcTyped' /\ pc' = [pc EXCEPT ![c] = "confirming"]
    BY <1>3, <1>c, <1>p, GotoType DEF BeginConfirm
  <2>2. WantsStaged'
    BY <1>3, <1>c, <2>1 DEF BeginConfirm, Entered, WantsStaged, PcTyped
  <2> QED
    BY <1>3, <2>1, <2>2 DEF BeginConfirm, LockTyped, CallTyped, TurnTyped,
       ResultsTyped, StatusTyped, LogTyped, LedgerTyped, EffectsTyped
<1>4. CASE FinishConfirm(c)
  <2>1. LockTyped' /\ PcTyped' /\ pc' = [pc EXCEPT ![c] = "returned"]
    BY <1>4, <1>c, <1>p, ReleaseType, GotoType DEF FinishConfirm, Ended
  <2>2. wants[c] \in staged
    BY <1>4 DEF FinishConfirm, WantsStaged
  <2>3. [kind |-> "message", by |-> c, line |-> wants[c], item |-> 0] \in LogEvent
    BY <1>c, <2>2 DEF LogEvent, LedgerTyped
  <2>4. LogTyped'
    BY <1>4, <1>c, <2>3, RecordType DEF FinishConfirm
  <2>5. LedgerTyped'
    BY <1>4, <2>2 DEF FinishConfirm, LedgerTyped
  <2>6. WantsStaged'
    BY <1>4, <1>c, <2>1 DEF FinishConfirm, WantsStaged, PcTyped
  <2> QED
    BY <1>4, <2>1, <2>4, <2>5, <2>6 DEF FinishConfirm, CallTyped, TurnTyped,
       ResultsTyped, StatusTyped, EffectsTyped
<1>5. CASE FailConfirm(c)
  <2>1. LockTyped' /\ PcTyped' /\ pc' = [pc EXCEPT ![c] = "raised"]
    BY <1>5, <1>c, <1>p, ReleaseType, GotoType DEF FailConfirm, Ended
  <2>2. WantsStaged'
    BY <1>5, <1>c, <2>1 DEF FailConfirm, WantsStaged, PcTyped
  <2> QED
    BY <1>5, <2>1, <2>2 DEF FailConfirm, CallTyped, TurnTyped,
       ResultsTyped, StatusTyped, LogTyped, LedgerTyped, EffectsTyped
<1> QED  BY <1>1, <1>2, <1>3, <1>4, <1>5 DEF ConfirmStep

LEMMA DispatchTyped ==
  ASSUME Typed, NEW l \in staged, Dispatch(l)
  PROVE  Typed'
<1>1. LedgerTyped'
  BY DEF Typed, Dispatch, LedgerTyped, ledgerVars
<1>2. WantsStaged'
  BY DEF Typed, Dispatch, WantsStaged, ledgerVars
<1> QED
  BY <1>1, <1>2 DEF Typed, Dispatch, LockTyped, PcTyped, CallTyped, TurnTyped,
     ResultsTyped, StatusTyped, LogTyped, EffectsTyped, lockVars, callVars,
     turnVars

LEMMA StutterTyped == Typed /\ UNCHANGED vars => Typed'
  BY DEF vars, Typed, LockTyped, PcTyped, CallTyped, TurnTyped, ResultsTyped,
     StatusTyped, LogTyped, LedgerTyped, EffectsTyped, WantsStaged

LEMMA NextTyped == Typed /\ [Next]_vars => Typed'
<1> SUFFICES ASSUME Typed, [Next]_vars PROVE Typed'
  OBVIOUS
<1>1. ASSUME NEW h \in Handle, HandleStep(h) \/ \E st \in Stimuli : Plan(h, st)
      PROVE  Typed'
  <2>1. CASE \/ \E st \in Stimuli : Plan(h, st)
             \/ Call(h) \/ Cancel(h) \/ Admit(h) \/ RecordInbound(h)
    BY <2>1, AdmissionTyped
  <2>2. CASE \/ \E sc \in Scripts : Direct(h, sc)
             \/ Brief(h) \/ (\E o \in Outcomes : Act(h, o)) \/ RecordAction(h)
    BY <2>2, TurnTypedStep
  <2>3. CASE \/ UnknownSpeaker(h) \/ KeepQuiet(h) \/ Deliver(h) \/ DeliveryFails(h)
             \/ AppendMessage(h) \/ Stage(h) \/ Close(h) \/ Raise(h)
    BY <2>3, LineTypedStep
  <2> QED  BY <1>1, <2>1, <2>2, <2>3 DEF HandleStep
<1>2. ASSUME NEW c \in Confirmer,
             ConfirmStep(c) \/ \E l \in staged : GetPending(c, l)
      PROVE  Typed'
  BY <1>2, ConfirmTypedStep
<1>3. CASE \E l \in staged : Dispatch(l)
  BY <1>3, DispatchTyped
<1>4. CASE Rest \/ UNCHANGED vars
  BY <1>4, StutterTyped DEF Rest
<1> QED  BY <1>1, <1>2, <1>3, <1>4 DEF Next

\* Every state of the engine is well typed, and a confirmation only ever works
\* on a delivery that was staged and sent: the tasks' program counters, the
\* stream locks and their queues, the log and the ledger keep their shapes for
\* any cast of lines and any outcomes of the agents' turns.
THEOREM TypeCorrect == Spec => []TypeOK
<1>1. Spec => []Typed
  BY InitTyped, NextTyped, PTL DEF Spec
<1> QED  BY <1>1, TypedIsTypeOK, PTL

-----------------------------------------------------------------------------
(***************************************************************************)
(* Serialized.  It is not inductive: that nobody else is inside has to     *)
(* come from the lock, which a task keeps as long as it is inside.  Every  *)
(* step is of one of four kinds.                                           *)
(***************************************************************************)
HolderInside == \A t \in Task : Inside(t) => holder[stream[t]] = t

MovesOnly(t, p) == pc' = [pc EXCEPT ![t] = p]

\* A task asks for a lock (its stream may be the one it has just learned).
Asks(t) ==
  /\ MovesOnly(t, "entry")
  /\ \A u \in Task \ {t} : stream'[u] = stream[u]
  /\ \E s \in Stream : Acquire(t, s)

\* A task that holds its stream ends and lets go of it.
Quits(t) ==
  /\ holder[stream[t]] = t
  /\ \E p \in Ended : MovesOnly(t, p)
  /\ Release(stream[t])
  /\ UNCHANGED stream

\* A task that holds its stream goes on with it.
Works(t) ==
  /\ holder[stream[t]] = t
  /\ \E p \in Points : MovesOnly(t, p)
  /\ UNCHANGED <<holder, stream>>

\* A task that is not inside stays outside and touches no lock.
Prepares(t) ==
  /\ MovesOnly(t, "planned")
  /\ \A u \in Task \ {t} : stream'[u] = stream[u]
  /\ UNCHANGED holder

LEMMA OutsidePoints ==
  \A p \in Ended \cup {"entry", "planned", "new"} :
    p \notin HandlePoint \cup {"confirming"}
  BY DEF Ended, HandlePoint

LEMMA AsksKeeps ==
  ASSUME Typed, HolderInside, NEW t \in Task, Asks(t)
  PROVE  HolderInside'
<1> SUFFICES ASSUME NEW u \in Task, Inside(u)' PROVE (holder[stream[u]] = u)'
  BY DEF HolderInside
<1>1. u # t /\ Inside(u) /\ stream'[u] = stream[u]
  BY OutsidePoints DEF Typed, PcTyped, Asks, MovesOnly, Inside
<1>2. holder[stream[u]] = u /\ u # NoTask /\ stream[u] \in Stream
  BY <1>1, TaskAssumption DEF HolderInside, Typed, CallTyped
<1>3. PICK s \in Stream : Acquire(t, s)
  BY DEF Asks
<1> QED  BY <1>1, <1>2, <1>3 DEF Acquire, Typed, LockTyped

LEMMA QuitsKeeps ==
  ASSUME Typed, HolderInside, NEW t \in Task, Quits(t)
  PROVE  HolderInside'
<1> SUFFICES ASSUME NEW u \in Task, Inside(u)' PROVE (holder[stream[u]] = u)'
  BY DEF HolderInside
<1>1. u # t /\ Inside(u) /\ stream'[u] = stream[u]
  BY OutsidePoints DEF Typed, PcTyped, Quits, MovesOnly, Inside
<1>2. holder[stream[u]] = u /\ stream[u] \in Stream /\ stream[t] \in Stream
  BY <1>1 DEF HolderInside, Typed, CallTyped
<1>3. stream[u] # stream[t]
  BY <1>1, <1>2 DEF Quits
<1> QED  BY <1>1, <1>2, <1>3 DEF Quits, Release, Typed, LockTyped

LEMMA WorksKeeps ==
  ASSUME Typed, HolderInside, NEW t \in Task, Works(t)
  PROVE  HolderInside'
  BY DEF Typed, PcTyped, HolderInside, Works, MovesOnly, Inside

LEMMA PreparesKeeps ==
  ASSUME Typed, HolderInside, NEW t \in Task, Prepares(t)
  PROVE  HolderInside'
<1> SUFFICES ASSUME NEW u \in Task, Inside(u)' PROVE (holder[stream[u]] = u)'
  BY DEF HolderInside
<1>1. u # t /\ Inside(u) /\ stream'[u] = stream[u]
  BY OutsidePoints DEF Typed, PcTyped, Prepares, MovesOnly, Inside
<1> QED  BY <1>1 DEF HolderInside, Prepares

\* Every step of a handle is of one of the kinds.
LEMMA HandleKinds ==
  ASSUME Typed, HolderInside, NEW h \in Handle,
         HandleStep(h) \/ \E st \in Stimuli : Plan(h, st)
  PROVE  Asks(h) \/ Quits(h) \/ Works(h) \/ Prepares(h)
<1> USE HandleIsTask DEF Typed, lockVars, callVars, turnVars, ledgerVars, MovesOnly
<1>h. h \in Task /\ stream[h] \in Stream
  BY DEF CallTyped
<1>i. pc[h] \in HandlePoint => holder[stream[h]] = h
  BY DEF HolderInside, Inside
<1>n. /\ {"inbound", "direct", "brief", "act", "record", "append", "close"} \subseteq HandlePoint
      /\ HandlePoint \subseteq Points
  BY DEF HandlePoint, Points
<1>1. ASSUME NEW st \in Stimuli, Plan(h, st) PROVE Prepares(h)
  BY <1>1, <1>h DEF Plan, Prepares, Goto, CallTyped
<1>2. CASE Call(h)
  BY <1>2, <1>h DEF Call, Asks, Goto
<1>3. CASE Cancel(h)
  BY <1>3, <1>h DEF Cancel, Leave, Entered, Quits, Goto, Ended
<1>4. CASE Admit(h)
  <2>1. \E p \in HandlePoint : pc' = [pc EXCEPT ![h] = p]
    BY <1>4 DEF Admit, Goto, HandlePoint
  <2> QED  BY <1>4, <1>n, <2>1 DEF Admit, Entered, Works
<1>5. CASE RecordInbound(h)
  BY <1>5, <1>i, <1>n DEF RecordInbound, Works, Goto
<1>6. ASSUME NEW sc \in Scripts, Direct(h, sc) PROVE Works(h)
  <2>1. \E p \in HandlePoint : pc' = [pc EXCEPT ![h] = p]
    BY <1>6 DEF Direct, Goto, HandlePoint
  <2> QED  BY <1>6, <1>i, <1>n, <2>1 DEF Direct, Works
<1>7. CASE Brief(h) \/ Deliver(h) \/ \E o \in Outcomes : Act(h, o)
  <2>1. \E p \in HandlePoint : pc' = [pc EXCEPT ![h] = p]
    BY <1>7 DEF Brief, Deliver, Act, Goto, HandlePoint
  <2>2. pc[h] \in HandlePoint
    BY <1>7, <1>n DEF Brief, Deliver, Act, Judged
  <2>3. UNCHANGED <<holder, stream>>
    BY <1>7 DEF Brief, Deliver, Act
  <2> QED  BY <1>i, <1>n, <2>1, <2>2, <2>3 DEF Works
<1>8. CASE RecordAction(h)
  <2>1. pc' = [pc EXCEPT ![h] = "record"]
    BY <1>8, <1>h DEF RecordAction, PcTyped
  <2> QED  BY <1>8, <1>i, <1>n, <2>1 DEF RecordAction, Works
<1>9. CASE \/ UnknownSpeaker(h) \/ KeepQuiet(h) \/ DeliveryFails(h)
           \/ AppendMessage(h) \/ Stage(h)
  <2>1. PICK st \in LineStatus : EndLine(h, st)
    BY <1>9 DEF UnknownSpeaker, KeepQuiet, DeliveryFails, AppendMessage, Stage,
       LineStatus
  <2>2. \E p \in HandlePoint : pc' = [pc EXCEPT ![h] = p]
    BY <2>1 DEF EndLine, Goto, HandlePoint
  <2>3. pc[h] \in HandlePoint /\ UNCHANGED <<holder, stream>>
    BY <1>9, <1>n DEF UnknownSpeaker, KeepQuiet, DeliveryFails, AppendMessage,
       Stage, Judged
  <2> QED  BY <1>i, <1>n, <2>2, <2>3 DEF Works
<1>10. CASE Close(h) \/ Raise(h)
  <2>1. holder[stream[h]] = h
    BY <1>10, <1>i, <1>n DEF Close, Raise, Entered
  <2> QED  BY <1>10, <2>1 DEF Close, Raise, Leave, Quits, Goto, Ended
<1> QED
  BY <1>1, <1>2, <1>3, <1>4, <1>5, <1>6, <1>7, <1>8, <1>9, <1>10 DEF HandleStep

LEMMA ConfirmKinds ==
  ASSUME Typed, HolderInside, NEW c \in Confirmer,
         ConfirmStep(c) \/ \E l \in staged : GetPending(c, l)
  PROVE  Asks(c) \/ Quits(c) \/ Works(c)
<1> USE HandleIsTask DEF Typed, lockVars, callVars, turnVars, ledgerVars, MovesOnly
<1>i. pc[c] = "confirming" => holder[stream[c]] = c
  BY DEF HolderInside, Inside
<1>1. ASSUME NEW l \in staged, GetPending(c, l) PROVE Asks(c)
  <2>1. stream[l[1]] \in Stream
    BY DEF LedgerTyped, LineId, CallTyped
  <2> QED  BY <1>1, <2>1 DEF GetPending, Asks, Goto, CallTyped
<1>2. CASE ConfirmAgain(c)
  BY <1>2 DEF ConfirmAgain, Entered, Quits, Goto, Ended
<1>3. CASE BeginConfirm(c)
  BY <1>3 DEF BeginConfirm, Entered, Works, Goto, Points
<1>4. CASE FinishConfirm(c) \/ FailConfirm(c)
  BY <1>4, <1>i DEF FinishConfirm, FailConfirm, Quits, Goto, Ended
<1> QED  BY <1>1, <1>2, <1>3, <1>4 DEF ConfirmStep

LEMMA NextHolderInside == Typed /\ HolderInside /\ [Next]_vars => HolderInside'
<1> SUFFICES ASSUME Typed, HolderInside, [Next]_vars PROVE HolderInside'
  OBVIOUS
<1> USE HandleIsTask
<1>1. ASSUME NEW h \in Handle, HandleStep(h) \/ \E st \in Stimuli : Plan(h, st)
      PROVE  HolderInside'
  BY <1>1, HandleKinds, AsksKeeps, QuitsKeeps, WorksKeeps, PreparesKeeps
<1>2. ASSUME NEW c \in Confirmer,
             ConfirmStep(c) \/ \E l \in staged : GetPending(c, l)
      PROVE  HolderInside'
  BY <1>2, ConfirmKinds, AsksKeeps, QuitsKeeps, WorksKeeps
<1>3. CASE (\E l \in staged : Dispatch(l)) \/ Rest \/ UNCHANGED vars
  <2>1. UNCHANGED <<holder, stream, pc>>
    BY <1>3 DEF Dispatch, Rest, vars, lockVars, callVars
  <2> QED  BY <2>1 DEF HolderInside, Inside
<1> QED  BY <1>1, <1>2, <1>3 DEF Next

\* Two tasks are never inside handle() or confirm() of the same stream,
\* whatever casts, agents and platforms do and wherever an exception leaves.
THEOREM Serialisation == Spec => []Serialized
<1>1. Init => HolderInside
  BY HandleIsTask, OutsidePoints DEF Init, HolderInside, Inside
<1>2. HolderInside => Serialized
  BY DEF HolderInside, Serialized
<1> QED
  BY <1>1, <1>2, InitTyped, NextTyped, NextHolderInside, PTL DEF Spec

-----------------------------------------------------------------------------
(***************************************************************************)
(* What the log says of its authors: LogReadsAsTurns, BriefingIsCurrent    *)
(* and NoStaleOutreach.                                                    *)
(***************************************************************************)
Unwritten == {"new", "planned", "entry", "inbound", "confirming"}

\* Who writes works on that stream and has begun; a confirmation writes one
\* message and is over.
Authors ==
  \A s \in Stream : \A k \in DOMAIN log[s] : LET e == log[s][k] IN
    /\ stream[e.by] = s /\ pc[e.by] \notin Unwritten
    /\ e.by \in Handle => e.line[1] = e.by
    /\ e.by \in Confirmer => e.kind = "message"

\* Event e of h lies before what h will write next.
Past(h, e) ==
  \/ e.line[2] < Current(h)
  \/ /\ e.line[2] = Current(h) /\ e.kind = "action" /\ e.item <= todo[h]
     /\ pc[h] \in {"record", "append"} \cup Ended

Ordered ==
  \A s \in Stream : \A k \in DOMAIN log[s] :
    log[s][k].by \in Handle => Past(log[s][k].by, log[s][k])

\* Since it began to write, nobody else wrote on the stream of a task inside.
Contiguous ==
  \A h \in Handle : pc[h] \in HandlePoint =>
    \A j, k \in DOMAIN log[stream[h]] :
      j < k /\ log[stream[h]][j].by = h => log[stream[h]][k].by = h

\* A guarded activation inside saw all that users said since its plan.
Admitted ==
  \A h \in Handle : pc[h] \in HandlePoint /\ stim[h].guarded => ~UserSpoke(h)

WInv == Authors /\ Ordered /\ Contiguous /\ LogReadsAsTurns /\ BriefingIsCurrent
        /\ Admitted

-----------------------------------------------------------------------------
(***************************************************************************)
(* What lines did: ActionTruth.                                            *)
(***************************************************************************)
InLog(e) ==
  \E k \in DOMAIN log[stream[e.line[1]]] :
    LET d == log[stream[e.line[1]]][k] IN
    d.kind = "action" /\ d.line = e.line /\ d.item = e.item

\* What a line did is in the log when the line is over; of a line whose actions
\* are being recorded, as far as they are.
EffectedBy(h) ==
  \A e \in effects : e.line[1] = h =>
    /\ pc[h] \notin {"new", "planned", "entry", "inbound", "direct"}
    /\ \/ e.line[2] < Current(h) /\ InLog(e)
       \/ /\ e.line[2] = Current(h)
          /\ \/ pc[h] \in Ended
             \/ pc[h] = "append" /\ InLog(e)
             \/ /\ pc[h] = "record" /\ e.item \in DOMAIN Reported(outcome[h])
                /\ Reported(outcome[h])[e.item]
                /\ e.item <= todo[h] => InLog(e)

ExecutedBy(h) ==
  pc[h] = "record" =>
    \A k \in DOMAIN Reported(outcome[h]) :
      Reported(outcome[h])[k] => [line |-> ThisId(h), item |-> k] \in effects

Performed ==
  \A s \in Stream : \A k \in DOMAIN log[s] : log[s][k].kind = "action" =>
    [line |-> log[s][k].line, item |-> log[s][k].item] \in effects

AInv == (\A h \in Handle : EffectedBy(h) /\ ExecutedBy(h)) /\ Performed

-----------------------------------------------------------------------------
(***************************************************************************)
(* What became of the prose: ResultsTellTheTruth and ImplementsContract.   *)
(***************************************************************************)
HasResult(l, st) == l[2] \in DOMAIN results[l[1]] /\ results[l[1]][l[2]] = st
Unstarted == \A h \in Handle : pc[h] = "new" => results[h] = <<>>
Sending(h) == pc[h] = "append" \/ pc[h] \in Ended

Sent ==
  /\ \A l \in receipts :
       l \in staged \/ HasResult(l, "delivered")
       \/ (l[2] = Current(l[1]) /\ Sending(l[1]))
  /\ \A h \in Handle : pc[h] = "append" => ThisId(h) \in receipts

StagedOnly == \A l \in staged : HasResult(l, "pending")

Said ==
  /\ \A s \in Stream : \A k \in DOMAIN log[s] : log[s][k].kind = "message" =>
       HasResult(log[s][k].line, "delivered") \/ log[s][k].line \in confirmed
  /\ \A l \in confirmed : MessageOf(l)
  /\ \A h \in Handle : \A i \in DOMAIN results[h] :
       /\ results[h][i] = "delivered" => MessageOf(<<h, i>>) /\ <<h, i>> \in receipts
       /\ results[h][i] = "pending" => <<h, i>> \in staged

Confirming ==
  \A c \in Confirmer :
    /\ pc[c] # "new" => stream[c] = stream[wants[c][1]]
    /\ pc[c] = "returned" => wants[c] \in confirmed
    /\ pc[c] = "confirming" => ledgerLock = c /\ wants[c] \notin confirmed

RInv == Unstarted /\ Sent /\ StagedOnly /\ Said /\ Confirming

-----------------------------------------------------------------------------
(***************************************************************************)
(* Steps, as far as the log is concerned.                                  *)
(***************************************************************************)
OthersStay(t) ==
  /\ \A u \in Task \ {t} : pc'[u] = pc[u] /\ stream'[u] = stream[u]
  /\ \A h \in Handle \ {t} :
       /\ stim'[h] = stim[h] /\ seen'[h] = seen[h] /\ briefed'[h] = briefed[h]
       /\ outcome'[h] = outcome[h] /\ todo'[h] = todo[h] /\ results'[h] = results[h]

LEMMA HandleOthersStay ==
  ASSUME Typed, NEW h \in Handle, HandleStep(h) \/ \E st \in Stimuli : Plan(h, st)
  PROVE  OthersStay(h)
<1> USE HandleIsTask
        DEF OthersStay, Typed, PcTyped, CallTyped, TurnTyped, ResultsTyped,
            lockVars, callVars, turnVars, ledgerVars, Goto
<1>1. ASSUME NEW st \in Stimuli, Plan(h, st) PROVE OthersStay(h)
  BY <1>1 DEF Plan
<1>2. CASE Call(h) \/ Admit(h) \/ RecordInbound(h)
  BY <1>2 DEF Call, Admit, RecordInbound
<1>3. CASE Cancel(h) \/ Close(h) \/ Raise(h)
  BY <1>3 DEF Cancel, Close, Raise, Leave
<1>4. ASSUME NEW sc \in Scripts, Direct(h, sc) PROVE OthersStay(h)
  BY <1>4 DEF Direct
<1>5. CASE UnknownSpeaker(h) \/ KeepQuiet(h) \/ DeliveryFails(h)
  <2>1. \E st \in LineStatus : EndLine(h, st)
    BY <1>5 DEF UnknownSpeaker, KeepQuiet, DeliveryFails, LineStatus
  <2>2. UNCHANGED <<callVars, turnVars>>
    BY <1>5 DEF UnknownSpeaker, KeepQuiet, DeliveryFails
  <2> QED  BY <2>1, <2>2 DEF EndLine
<1>6. CASE AppendMessage(h) \/ Stage(h)
  BY <1>6 DEF AppendMessage, Stage, EndLine
<1>7. CASE Brief(h) \/ Deliver(h) \/ RecordAction(h)
  BY <1>7 DEF Brief, Deliver, RecordAction
<1>8. ASSUME NEW o \in Outcomes, Act(h, o) PROVE OthersStay(h)
  BY <1>8 DEF Act
<1> QED
  BY <1>1, <1>2, <1>3, <1>4, <1>5, <1>6, <1>7, <1>8 DEF HandleStep

LEMMA ConfirmOthersStay ==
  ASSUME Typed, NEW c \in Confirmer, ConfirmStep(c) \/ \E l \in staged : GetPending(c, l)
  PROVE  OthersStay(c)
BY HandleIsTask
   DEF OthersStay, Typed, PcTyped, CallTyped, TurnTyped, ResultsTyped,
       callVars, turnVars, Goto, ConfirmStep, GetPending,
       ConfirmAgain, BeginConfirm, FinishConfirm, FailConfirm

\* An append leaves the other logs and the older events as they are.
LEMMA Recorded ==
  ASSUME LogTyped, NEW s \in Stream, NEW e \in LogEvent, Record(s, e)
  PROVE  /\ \A u \in Stream \ {s} : log'[u] = log[u]
         /\ \A k \in DOMAIN log[s] : k \in Nat /\ k <= Len(log[s]) /\ log'[s][k] = log[s][k]
         /\ Len(log[s]) + 1 \notin DOMAIN log[s] /\ Len(log[s]) \in Nat
         /\ DOMAIN log'[s] = DOMAIN log[s] \cup {Len(log[s]) + 1}
         /\ log'[s][Len(log[s]) + 1] = e
<1>1. log[s] \in Seq(LogEvent) /\ log'[s] = Append(log[s], e)
  BY DEF LogTyped, Record
<1>2. \A u \in Stream \ {s} : log'[u] = log[u]
  BY DEF LogTyped, Record
<1> QED  BY <1>1, <1>2

LEMMA EventType ==
  ASSUME Typed, NEW s \in Stream, NEW k \in DOMAIN log[s]
  PROVE  /\ k \in Nat /\ k <= Len(log[s]) /\ Len(log[s]) \in Nat
         /\ log[s][k] \in LogEvent /\ log[s][k].by \in Task
         /\ log[s][k].line[1] \in Handle /\ log[s][k].line[2] \in Nat
         /\ log[s][k].item \in Nat
<1>1. log[s] \in Seq(LogEvent)
  BY DEF Typed, LogTyped
<1>2. log[s][k] \in LogEvent /\ k \in Nat /\ k <= Len(log[s]) /\ Len(log[s]) \in Nat
  BY <1>1
<1> QED  BY <1>2 DEF LogEvent, LineId

Started == {"record", "append"} \cup Ended
Briefed == {"act", "record", "append"}

\* A step that writes nothing.
Quiet(t) ==
  /\ OthersStay(t) /\ UNCHANGED log
  /\ pc'[t] \in Unwritten => pc[t] \in Unwritten
  /\ stream'[t] = stream[t] \/ pc[t] = "new"
  /\ t \in Handle =>
       /\ Current(t)' \in Nat /\ todo'[t] \in Nat
       /\ \/ Current(t) < Current(t)'
          \/ Current(t)' = Current(t) /\ pc[t] \notin Started
          \/ /\ Current(t)' = Current(t) /\ todo[t] <= todo'[t]
             /\ pc'[t] \in Started
       /\ \/ pc'[t] \notin HandlePoint
          \/ pc[t] \in HandlePoint
          \/ pc[t] = "entry" /\ ~Stale(t)
       /\ pc'[t] \in HandlePoint => stim'[t] = stim[t] /\ seen'[t] = seen[t]
       /\ pc'[t] \in Briefed =>
            \/ briefed'[t] = Len(log[stream[t]]) /\ pc[t] = "brief"
            \/ pc[t] \in Briefed /\ briefed'[t] = briefed[t] /\ Current(t)' = Current(t)

LEMMA QuietKeepsWInv ==
  ASSUME Typed, WInv, NEW t \in Task, Quiet(t)
  PROVE  WInv'
<1> USE HandleIsTask DEF Quiet
<1>0. \A s \in Stream : \A k \in DOMAIN log[s] :
        log[s][k].by = t => stream'[t] = stream[t] /\ pc[t] \notin Unwritten /\ stream[t] = s
  BY DEF WInv, Authors, Unwritten
<1>t. Task = Handle \cup Confirmer /\ Handle \cap Confirmer = {}
  BY TaskAssumption DEF Task
<1>1. Authors'
  <2> SUFFICES ASSUME NEW s \in Stream, NEW k \in DOMAIN log[s]
               PROVE  LET e == log[s][k] IN
                        /\ stream'[e.by] = s /\ pc'[e.by] \notin Unwritten
                        /\ e.by \in Handle => e.line[1] = e.by
                        /\ e.by \in Confirmer => e.kind = "message"
    BY DEF Authors
  <2>1. log[s][k].by \in Task
    BY EventType
  <2> QED  BY <1>0, <2>1 DEF WInv, Authors, OthersStay
<1>2. Ordered'
  <2> SUFFICES ASSUME NEW s \in Stream, NEW k \in DOMAIN log[s],
                      NEW e, e = log[s][k], e.by \in Handle
               PROVE  Past(e.by, e)'
    BY DEF Ordered, Past, Current
  <2>1. Past(e.by, e) /\ e.line[2] \in Nat /\ e.item \in Nat
    BY EventType DEF WInv, Ordered
  <2>2. CASE e.by # t
    BY <2>1, <2>2 DEF Past, OthersStay, Current
  <2>3. CASE e.by = t
    <3>1. Current(t) \in Nat /\ todo[t] \in Nat /\ t \in Handle
      BY <2>3, CurrentType DEF Typed, TurnTyped
    <3> QED  BY <2>1, <2>3, <3>1 DEF Past, Started
  <2> QED  BY <2>2, <2>3
<1>3. Contiguous'
  <2> SUFFICES ASSUME NEW h \in Handle, pc'[h] \in HandlePoint,
                      NEW j \in DOMAIN log[stream'[h]], NEW k \in DOMAIN log[stream'[h]],
                      j < k, log[stream'[h]][j].by = h
               PROVE  log[stream'[h]][k].by = h
    BY DEF Contiguous
  <2>1. stream'[h] = stream[h] /\ pc[h] \in HandlePoint
    <3>1. CASE h # t
      BY <3>1 DEF OthersStay
    <3>2. CASE h = t
      <4>1. pc[t] \in HandlePoint \cup {"entry"}
        BY <3>2
      <4>2. stream'[t] = stream[t] /\ stream[t] \in Stream
        BY <4>1 DEF HandlePoint, Typed, CallTyped
      <4>3. pc[t] # "entry"
        BY <1>0, <3>2, <4>2 DEF Unwritten
      <4> QED  BY <3>2, <4>1, <4>2, <4>3
    <3> QED  BY <3>1, <3>2
  <2> QED  BY <2>1 DEF WInv, Contiguous
<1>4. LogReadsAsTurns'
  BY DEF WInv, LogReadsAsTurns, Before
<1>5. BriefingIsCurrent'
  <2> SUFFICES ASSUME NEW h \in Handle, pc'[h] \in Briefed,
                      NEW k \in DOMAIN log[stream'[h]], k > briefed'[h]
               PROVE  log[stream'[h]][k].line = ThisId(h)'
    BY DEF BriefingIsCurrent, Briefed
  <2>1. CASE h # t
    BY <2>1 DEF OthersStay, WInv, BriefingIsCurrent, Briefed, ThisId, Current
  <2>2. CASE h = t
    <3>1. stream'[h] = stream[h] /\ stream[h] \in Stream
      BY <2>2 DEF Briefed, Typed, CallTyped
    <3>2. ~(briefed'[t] = Len(log[stream[t]]))
      BY <2>2, <3>1, EventType
    <3> QED
      BY <2>2, <3>1, <3>2 DEF WInv, BriefingIsCurrent, Briefed, ThisId
  <2> QED  BY <2>1, <2>2
<1>6. Admitted'
  <2> SUFFICES ASSUME NEW h \in Handle, pc'[h] \in HandlePoint, stim'[h].guarded
               PROVE  ~UserSpoke(h)'
    BY DEF Admitted
  <2>1. CASE h # t
    BY <2>1 DEF OthersStay, WInv, Admitted, UserSpoke
  <2>2. CASE h = t
    <3>1. stream'[h] = stream[h] /\ pc[h] # "new"
      BY <2>2 DEF HandlePoint
    <3> QED
      BY <2>2, <3>1 DEF WInv, Admitted, UserSpoke, Stale
  <2> QED  BY <2>1, <2>2
<1> QED
  BY <1>1, <1>2, <1>3, <1>4, <1>5, <1>6 DEF WInv

\* A step of a task inside that writes event e on its stream.
Writes(t, e) ==
  /\ Inside(t) /\ OthersStay(t) /\ stream'[t] = stream[t]
  /\ Record(stream[t], e) /\ e.by = t /\ pc'[t] \notin Unwritten
  /\ t \in Confirmer => e.kind = "message" /\ pc[t] = "confirming"
  /\ t \in Handle =>
       /\ pc[t] \in HandlePoint /\ stim'[t] = stim[t] /\ seen'[t] = seen[t]
       /\ e.line[1] = t /\ Past(t, e)'
       /\ pc'[t] \in Briefed =>
            /\ pc[t] \in Briefed /\ briefed'[t] = briefed[t]
            /\ Current(t)' = Current(t) /\ e.line = ThisId(t)

LEMMA WriteKeepsWInv ==
  ASSUME Typed, HolderInside, WInv, NEW t \in Task, NEW e \in LogEvent, Writes(t, e),
         \A k \in DOMAIN log[stream[t]] : \A d :
           d = log[stream[t]][k] /\ d.by = t /\ t \in Handle =>
             Past(t, d)' /\ Before(d, e)
  PROVE  WInv'
<1> USE HandleIsTask
<1>t. /\ Task = Handle \cup Confirmer /\ Handle \cap Confirmer = {}
      /\ stream[t] \in Stream /\ OthersStay(t) /\ stream'[t] = stream[t]
      /\ Record(stream[t], e)
  BY TaskAssumption DEF Task, Typed, CallTyped, Writes
<1> DEFINE n == Len(log[stream[t]]) + 1
<1>l. /\ \A u \in Stream \ {stream[t]} : log'[u] = log[u]
      /\ \A k \in DOMAIN log[stream[t]] :
           k \in Nat /\ k < n /\ log'[stream[t]][k] = log[stream[t]][k]
      /\ n \notin DOMAIN log[stream[t]] /\ n \in Nat
      /\ DOMAIN log'[stream[t]] = DOMAIN log[stream[t]] \cup {n}
      /\ log'[stream[t]][n] = e
  BY <1>t, Recorded DEF Typed
<1> HIDE DEF n
<1>a. \A u \in Task : stream'[u] = stream[u]
  BY <1>t DEF OthersStay
<1>b. \A h \in Handle \ {t} : pc'[h] \in HandlePoint =>
        /\ pc[h] \in HandlePoint /\ pc'[h] = pc[h] /\ stream[h] \in Stream
        /\ log'[stream[h]] = log[stream[h]]
  <2> SUFFICES ASSUME NEW h \in Handle \ {t}, pc'[h] \in HandlePoint
               PROVE  /\ pc[h] \in HandlePoint /\ pc'[h] = pc[h] /\ stream[h] \in Stream
                      /\ log'[stream[h]] = log[stream[h]]
    OBVIOUS
  <2>1. pc'[h] = pc[h] /\ stream[h] \in Stream
    BY <1>t DEF OthersStay, Typed, CallTyped
  <2>2. stream[h] # stream[t]
    BY <2>1 DEF HolderInside, Inside, Writes
  <2> QED  BY <1>l, <2>1, <2>2
<1>1. Authors'
  <2> SUFFICES ASSUME NEW s \in Stream, NEW k \in DOMAIN log'[s]
               PROVE  LET d == log'[s][k] IN
                        /\ stream'[d.by] = s /\ pc'[d.by] \notin Unwritten
                        /\ d.by \in Handle => d.line[1] = d.by
                        /\ d.by \in Confirmer => d.kind = "message"
    BY DEF Authors
  <2>1. CASE s = stream[t] /\ k = n
    BY <1>t, <1>l, <2>1 DEF Writes
  <2>2. CASE ~(s = stream[t] /\ k = n)
    <3>1. k \in DOMAIN log[s] /\ log'[s][k] = log[s][k]
      BY <1>l, <2>2
    <3>2. log[s][k].by \in Task
      BY <3>1, EventType
    <3>3. pc'[t] \notin Unwritten
      BY DEF Writes
    <3> QED  BY <1>a, <1>t, <3>1, <3>2, <3>3 DEF WInv, Authors, OthersStay
  <2> QED  BY <2>1, <2>2
<1>2. Ordered'
  <2> SUFFICES ASSUME NEW s \in Stream, NEW k \in DOMAIN log'[s],
                      NEW d, d = log'[s][k], d.by \in Handle
               PROVE  Past(d.by, d)'
    BY DEF Ordered, Past, Current
  <2>1. CASE s = stream[t] /\ k = n
    BY <1>l, <2>1 DEF Writes
  <2>2. CASE ~(s = stream[t] /\ k = n)
    <3>1. k \in DOMAIN log[s] /\ d = log[s][k]
      BY <1>l, <2>2
    <3>2. Past(d.by, d) /\ stream[d.by] = s
      BY <3>1 DEF WInv, Ordered, Authors
    <3>3. CASE d.by = t
      BY <3>1, <3>2, <3>3
    <3>4. CASE d.by # t
      BY <1>t, <3>2, <3>4 DEF Past, OthersStay, Current
    <3> QED  BY <3>3, <3>4
  <2> QED  BY <2>1, <2>2
<1>3. Contiguous'
  <2> SUFFICES ASSUME NEW h \in Handle, pc'[h] \in HandlePoint,
                      NEW j \in DOMAIN log'[stream'[h]], NEW k \in DOMAIN log'[stream'[h]],
                      j < k, log'[stream'[h]][j].by = h
               PROVE  log'[stream'[h]][k].by = h
    BY DEF Contiguous
  <2>1. CASE h # t
    <3>1. h \in Handle \ {t} /\ h \in Task
      BY <1>t, <2>1
    <3>2. /\ stream'[h] = stream[h] /\ pc[h] \in HandlePoint
          /\ log'[stream[h]] = log[stream[h]]
      BY <1>a, <1>b, <3>1
    <3> DEFINE L == log[stream[h]]
    <3>3. \A i, l \in DOMAIN L : i < l /\ L[i].by = h => L[l].by = h
      BY <3>2 DEF WInv, Contiguous
    <3>4. log'[stream'[h]] = L
      BY <3>2
    <3> HIDE DEF L
    <3> QED  BY <3>3, <3>4
  <2>2. CASE h = t
    <3>1. CASE k = n
      BY <1>l, <1>t, <2>2, <3>1 DEF Writes
    <3>2. CASE k # n
      <4>1. k \in DOMAIN log[stream[t]] /\ j \in DOMAIN log[stream[t]]
        BY <1>l, <1>t, <2>2, <3>2
      <4>2. t \in Handle /\ pc[t] \in HandlePoint /\ log[stream[t]][j].by = t
        BY <1>l, <1>t, <2>2, <4>1 DEF Writes
      <4>3. log[stream[t]][k].by = t
        BY <4>1, <4>2 DEF WInv, Contiguous
      <4> QED  BY <1>l, <1>t, <2>2, <4>1, <4>3
    <3> QED  BY <3>1, <3>2
  <2> QED  BY <2>1, <2>2
<1>4. LogReadsAsTurns'
  <2> SUFFICES ASSUME NEW s \in Stream, NEW j \in DOMAIN log'[s], NEW k \in DOMAIN log'[s],
                      j < k, log'[s][j].by = log'[s][k].by
               PROVE  /\ \A m \in j..k : log'[s][m].by = log'[s][j].by
                      /\ Before(log'[s][j], log'[s][k])
    BY DEF LogReadsAsTurns, Before
  <2>1. CASE s # stream[t]
    BY <1>l, <2>1 DEF WInv, LogReadsAsTurns
  <2>2. CASE s = stream[t] /\ k # n
    <3>1. /\ k \in DOMAIN log[s] /\ j \in DOMAIN log[s]
          /\ \A m \in j..k : m \in DOMAIN log[s]
      <4>1. k \in DOMAIN log[s] /\ j \in DOMAIN log[s]
        BY <1>l, <2>2
      <4>2. log[s] \in Seq(LogEvent)
        BY DEF Typed, LogTyped
      <4> QED  BY <4>1, <4>2
    <3>2. \A m \in j..k : log'[s][m] = log[s][m]
      BY <1>l, <2>2, <3>1
    <3>3. j \in j..k /\ k \in j..k
      BY <1>l, <2>2, <3>1
    <3> QED  BY <3>1, <3>2, <3>3 DEF WInv, LogReadsAsTurns
  <2>3. CASE s = stream[t] /\ k = n
    <3>1. j \in DOMAIN log[s] /\ log'[s][j] = log[s][j] /\ log[s][j].by = t
      BY <1>l, <2>3 DEF Writes
    <3>2. t \in Handle
      <4>1. pc[t] \notin Unwritten
        BY <2>3, <3>1 DEF WInv, Authors
      <4> QED  BY <1>t, <4>1 DEF Writes, Unwritten
    <3>3. Before(log'[s][j], log'[s][k])
      BY <1>l, <2>3, <3>1, <3>2
    <3>4. ASSUME NEW m \in j..k PROVE log'[s][m].by = t
      <4>1. CASE m = n
        BY <1>l, <2>3, <4>1 DEF Writes
      <4>2. CASE m = j
        BY <3>1, <4>2
      <4>3. CASE m # n /\ m # j
        <5>1. log[s] \in Seq(LogEvent)
          BY DEF Typed, LogTyped
        <5>2. m \in DOMAIN log[s] /\ j < m
          BY <1>l, <2>3, <3>1, <4>3, <5>1 DEF n
        <5>3. log[s][m].by = t
          BY <2>3, <3>1, <3>2, <5>2 DEF WInv, Contiguous, Writes
        <5> QED  BY <1>l, <2>3, <5>2, <5>3
      <4> QED  BY <4>1, <4>2, <4>3
    <3> QED  BY <3>1, <3>3, <3>4
  <2> QED  BY <2>1, <2>2, <2>3
<1>5. BriefingIsCurrent'
  <2> SUFFICES ASSUME NEW h \in Handle, pc'[h] \in Briefed,
                      NEW k \in DOMAIN log'[stream'[h]], k > briefed'[h]
               PROVE  log'[stream'[h]][k].line = ThisId(h)'
    BY DEF BriefingIsCurrent, Briefed
  <2>1. CASE h # t
    <3>1. pc'[h] \in HandlePoint
      BY DEF Briefed, HandlePoint
    <3>2. briefed'[h] = briefed[h] /\ ThisId(h)' = ThisId(h)
      BY <1>t, <2>1 DEF OthersStay, ThisId, Current
    <3> QED
      BY <1>a, <1>b, <2>1, <3>1, <3>2 DEF WInv, BriefingIsCurrent, Briefed
  <2>2. CASE h = t
    <3>1. /\ pc[t] \in Briefed /\ briefed'[t] = briefed[t]
          /\ ThisId(t)' = ThisId(t) /\ e.line = ThisId(t)
      BY <2>2 DEF Writes, ThisId
    <3>2. CASE k = n
      BY <1>l, <1>t, <2>2, <3>1, <3>2
    <3>3. CASE k # n
      <4>1. k \in DOMAIN log[stream[t]]
        BY <1>l, <1>t, <2>2, <3>3
      <4> QED
        BY <1>l, <1>t, <2>2, <3>1, <4>1 DEF WInv, BriefingIsCurrent, Briefed
    <3> QED  BY <3>2, <3>3
  <2> QED  BY <2>1, <2>2
<1>6. Admitted'
  <2> SUFFICES ASSUME NEW h \in Handle, pc'[h] \in HandlePoint, stim'[h].guarded,
                      NEW k \in DOMAIN log'[stream'[h]], k > seen'[h],
                      log'[stream'[h]][k].kind = "inbound", log'[stream'[h]][k].by # h
               PROVE  FALSE
    BY DEF Admitted, UserSpoke
  <2>1. CASE h # t
    <3>1. stim'[h] = stim[h] /\ seen'[h] = seen[h]
      BY <1>t, <2>1 DEF OthersStay
    <3> QED  BY <1>a, <1>b, <2>1, <3>1 DEF WInv, Admitted, UserSpoke
  <2>2. CASE h = t
    <3>1. k \in DOMAIN log[stream[t]] /\ log'[stream[t]][k] = log[stream[t]][k]
      BY <1>l, <1>t, <2>2 DEF Writes
    <3> QED  BY <1>t, <2>2, <3>1 DEF WInv, Admitted, UserSpoke, Writes
  <2> QED  BY <2>1, <2>2
<1> QED
  BY <1>1, <1>2, <1>3, <1>4, <1>5, <1>6 DEF WInv

-----------------------------------------------------------------------------
(***************************************************************************)
(* Every step is quiet or writes the event of its turn.                    *)
(***************************************************************************)
LEMMA EndLineMoves ==
  ASSUME Typed, NEW h \in Handle, NEW st \in LineStatus, EndLine(h, st)
  PROVE  /\ Current(h)' = Current(h) + 1 /\ Current(h) \in Nat /\ Current(h)' \in Nat
         /\ results'[h] = Append(results[h], st)
         /\ pc'[h] \in {"brief", "close"}
<1>1. results'[h] = Append(results[h], st) /\ results[h] \in Seq(LineStatus)
  BY DEF EndLine, Typed, ResultsTyped
<1>2. Len(results'[h]) = Len(results[h]) + 1 /\ Len(results[h]) \in Nat
  BY <1>1
<1>3. pc'[h] \in {"brief", "close"}
  BY HandleIsTask DEF EndLine, Goto, Typed, PcTyped
<1> QED  BY <1>1, <1>2, <1>3 DEF Current

LEMMA HandleWritesInTurn ==
  ASSUME Typed, HolderInside, WInv, NEW h \in Handle,
         HandleStep(h) \/ \E st \in Stimuli : Plan(h, st)
  PROVE  WInv'
<1> USE HandleIsTask DEF lockVars, callVars, turnVars, ledgerVars
<1>0. /\ OthersStay(h) /\ Current(h) \in Nat /\ todo[h] \in Nat /\ Typed'
      /\ h \in Task /\ h \notin Confirmer /\ stream[h] \in Stream
      /\ ThisId(h) \in LineId
  <2>1. Typed'
    BY NextTyped DEF Next
  <2> QED
    BY <2>1, HandleOthersStay, CurrentType, TaskAssumption
       DEF Typed, TurnTyped, CallTyped
<1>c. UNCHANGED results => Current(h)' = Current(h)
  BY DEF Current
<1>d. todo'[h] \in Nat
  BY <1>0 DEF Typed, TurnTyped
<1>p. pc \in [Task -> Points]
  BY DEF Typed, PcTyped
<1>q. OthersStay(h) /\ Current(h) \in Nat /\ todo[h] \in Nat
  BY <1>0
<1>1. ASSUME NEW st \in Stimuli, Plan(h, st) PROVE Quiet(h)
  BY <1>0, <1>1, <1>c, <1>d, <1>p
     DEF Plan, Quiet, Goto, Unwritten, Started, Briefed, HandlePoint, Ended
<1>2. ASSUME Call(h) \/ Cancel(h) PROVE Quiet(h)
  <2>1. /\ stream' = stream /\ log' = log /\ todo' = todo /\ results' = results
        /\ pc[h] \in {"planned", "entry"} /\ pc'[h] \in {"entry", "returned"}
    BY <1>0, <1>2, <1>p DEF Call, Cancel, Entered, Leave, Goto
  <2> QED
    BY <1>c, <1>d, <1>q, <2>1
       DEF Quiet, Unwritten, Started, Briefed, HandlePoint, Ended
<1>3. ASSUME Admit(h) PROVE Quiet(h)
  <2>1. /\ stream' = stream /\ log' = log /\ todo' = todo /\ results' = results
        /\ stim' = stim /\ seen' = seen
        /\ pc[h] = "entry" /\ ~Stale(h) /\ pc'[h] \in {"inbound", "direct"}
    BY <1>0, <1>3, <1>p DEF Admit, Entered, Goto
  <2> QED
    BY <1>c, <1>d, <1>q, <2>1
       DEF Quiet, Unwritten, Started, Briefed, HandlePoint, Ended
<1>4. ASSUME Close(h) \/ Raise(h) PROVE Quiet(h)
  <2>1. /\ stream' = stream /\ log' = log /\ todo' = todo /\ results' = results
        /\ pc'[h] \in Ended
    BY <1>0, <1>4, <1>p DEF Close, Raise, Leave, Goto, Ended
  <2> QED
    BY <1>c, <1>d, <1>q, <2>1
       DEF Quiet, Unwritten, Started, Briefed, HandlePoint, Ended
<1>5. ASSUME NEW sc \in Scripts, Direct(h, sc) PROVE Quiet(h)
  <2>1. /\ stream' = stream /\ log' = log /\ todo' = todo /\ results' = results
        /\ stim' = stim /\ seen' = seen
        /\ pc[h] = "direct" /\ pc'[h] \in {"close", "brief"}
    BY <1>0, <1>5, <1>p DEF Direct, Goto
  <2> QED
    BY <1>c, <1>d, <1>q, <2>1
       DEF Quiet, Unwritten, Started, Briefed, HandlePoint, Ended
<1>6. ASSUME Brief(h) PROVE Quiet(h)
  <2>1. /\ stream' = stream /\ log' = log /\ todo' = todo /\ results' = results
        /\ stim' = stim /\ seen' = seen
        /\ pc[h] = "brief" /\ pc'[h] = "act" /\ briefed'[h] = Len(log[stream[h]])
    BY <1>0, <1>6, <1>p DEF Brief, Goto, Typed, TurnTyped
  <2> QED
    BY <1>c, <1>d, <1>q, <2>1
       DEF Quiet, Unwritten, Started, Briefed, HandlePoint, Ended
<1>7. ASSUME (\E o \in Outcomes : Act(h, o)) \/ Deliver(h) PROVE Quiet(h)
  <2>1. /\ stream' = stream /\ log' = log /\ results' = results
        /\ stim' = stim /\ seen' = seen /\ briefed' = briefed
        /\ \/ pc[h] = "act" /\ pc'[h] = "record"
           \/ pc[h] = "record" /\ pc'[h] = "append" /\ todo' = todo
    BY <1>0, <1>7, <1>p DEF Act, Deliver, Judged, Goto
  <2> QED
    BY <1>c, <1>d, <1>q, <2>1
       DEF Quiet, Unwritten, Started, Briefed, HandlePoint, Ended
<1>8. ASSUME UnknownSpeaker(h) \/ KeepQuiet(h) \/ DeliveryFails(h) \/ Stage(h) PROVE Quiet(h)
  <2>1. PICK st \in LineStatus : EndLine(h, st)
    BY <1>8 DEF UnknownSpeaker, KeepQuiet, DeliveryFails, Stage, LineStatus
  <2>2. /\ pc[h] \in {"brief", "record"}
        /\ stream' = stream /\ stim' = stim /\ seen' = seen /\ log' = log
    BY <1>8 DEF UnknownSpeaker, KeepQuiet, DeliveryFails, Stage, Judged
  <2>3. Current(h) < Current(h)' /\ Current(h)' \in Nat /\ pc'[h] \in {"brief", "close"}
    BY <2>1, EndLineMoves
  <2> QED
    BY <1>d, <1>q, <2>2, <2>3
       DEF Quiet, Unwritten, Briefed, HandlePoint
<1>9. ASSUME RecordAction(h) /\ UNCHANGED log PROVE Quiet(h)
  <2>1. /\ todo'[h] = todo[h] + 1 /\ pc[h] = "record" /\ pc' = pc /\ results' = results
        /\ stream' = stream /\ log' = log /\ stim' = stim /\ seen' = seen
        /\ briefed' = briefed
    BY <1>9 DEF RecordAction, Typed, TurnTyped
  <2> QED
    BY <1>c, <1>d, <1>q, <2>1
       DEF Quiet, Unwritten, Started, Briefed, HandlePoint
<1>10. CASE RecordInbound(h)
  <2> DEFINE w == [kind |-> "inbound", by |-> h, line |-> <<h, 0>>, item |-> 0]
  <2>0. \A k \in DOMAIN log[stream[h]] : log[stream[h]][k].by # h
    BY <1>0, <1>10 DEF RecordInbound, WInv, Authors, Unwritten
  <2>1. PICK e \in LogEvent : e = w
    BY <1>0 DEF LogEvent, LineId
  <2>2. Current(h)' \in Nat /\ Current(h)' > 0
    <3>1. Len(results'[h]) \in Nat
      BY <1>0 DEF Typed, ResultsTyped
    <3> QED  BY <3>1 DEF Current
  <2>3. Writes(h, e)
    BY <1>0, <1>10, <1>p, <2>1, <2>2
       DEF RecordInbound, Writes, Inside, Goto, Unwritten, Briefed, HandlePoint, Past
  <2> HIDE DEF w
  <2> QED  BY <1>0, <2>0, <2>3, WriteKeepsWInv
<1>11. CASE RecordAction(h) /\ ~UNCHANGED log
  <2> DEFINE w == [kind |-> "action", by |-> h, line |-> ThisId(h), item |-> todo[h] + 1]
  <2>1. PICK e \in LogEvent : e = w
    <3>1. w \in LogEvent
      BY <1>0 DEF LogEvent
    <3> QED  BY <3>1
  <2>2. todo'[h] = todo[h] + 1
    BY <1>11 DEF RecordAction, Typed, TurnTyped
  <2>3. Current(h)' = Current(h) /\ pc[h] = "record" /\ pc' = pc
    BY <1>11, <1>c DEF RecordAction
  <2>4. Writes(h, e)
    BY <1>0, <1>11, <2>1, <2>2, <2>3
       DEF RecordAction, Writes, Inside, Unwritten, Briefed, HandlePoint, Past, ThisId
  <2>5. ASSUME NEW k \in DOMAIN log[stream[h]], NEW d, d = log[stream[h]][k], d.by = h
        PROVE  Past(h, d)' /\ Before(d, e)
    <3>1. Past(h, d) /\ d.line[2] \in Nat /\ d.item \in Nat
      BY <1>0, <2>5, EventType DEF WInv, Ordered
    <3> QED
      BY <1>0, <2>1, <2>2, <2>3, <3>1 DEF Past, Before, ThisId, Ended
  <2> HIDE DEF w
  <2> QED  BY <1>0, <2>4, <2>5, WriteKeepsWInv
<1>12. CASE AppendMessage(h)
  <2> DEFINE w == [kind |-> "message", by |-> h, line |-> ThisId(h), item |-> 0]
  <2>1. PICK e \in LogEvent : e = w
    <3>1. w \in LogEvent
      BY <1>0 DEF LogEvent
    <3> QED  BY <3>1
  <2>2. Current(h)' = Current(h) + 1 /\ pc'[h] \in {"brief", "close"}
    BY <1>12, EndLineMoves DEF AppendMessage, LineStatus
  <2>3. Writes(h, e)
    BY <1>0, <1>12, <2>1, <2>2
       DEF AppendMessage, Writes, Inside, Unwritten, Briefed, HandlePoint, Past, ThisId
  <2>4. ASSUME NEW k \in DOMAIN log[stream[h]], NEW d, d = log[stream[h]][k], d.by = h
        PROVE  Past(h, d)' /\ Before(d, e)
    <3>1. Past(h, d) /\ d.line[2] \in Nat
      BY <1>0, <2>4, EventType DEF WInv, Ordered
    <3> QED
      BY <1>0, <2>1, <2>2, <3>1 DEF Past, Before, ThisId
  <2> HIDE DEF w
  <2> QED  BY <1>0, <2>3, <2>4, WriteKeepsWInv
<1>13. CASE Quiet(h)
  BY <1>0, <1>13, QuietKeepsWInv
<1> QED
  BY <1>1, <1>2, <1>3, <1>4, <1>5, <1>6, <1>7, <1>8, <1>9, <1>10, <1>11, <1>12,
     <1>13 DEF HandleStep

LEMMA ConfirmWritesInTurn ==
  ASSUME Typed, HolderInside, WInv, NEW c \in Confirmer,
         ConfirmStep(c) \/ \E l \in staged : GetPending(c, l)
  PROVE  WInv'
<1> USE HandleIsTask
<1>0. /\ OthersStay(c) /\ c \in Task /\ c \notin Handle /\ stream[c] \in Stream
      /\ pc \in [Task -> Points]
  BY ConfirmOthersStay, TaskAssumption DEF Typed, CallTyped, PcTyped
<1>1. CASE FinishConfirm(c)
  <2> DEFINE w == [kind |-> "message", by |-> c, line |-> wants[c], item |-> 0]
  <2>1. wants[c] \in LineId
    BY <1>1 DEF FinishConfirm, Typed, WantsStaged, LedgerTyped
  <2>2. PICK e \in LogEvent : e = w
    BY <1>0, <2>1 DEF LogEvent
  <2>3. Writes(c, e)
    BY <1>0, <1>1, <2>2
       DEF FinishConfirm, Writes, Inside, Goto, callVars, Unwritten
  <2> HIDE DEF w
  <2> QED  BY <1>0, <2>3, WriteKeepsWInv
<1>2. CASE ~FinishConfirm(c)
  <2>1. Quiet(c)
    BY <1>0, <1>2 DEF ConfirmStep, ConfirmAgain, BeginConfirm, FailConfirm, GetPending,
       Entered, Goto, Quiet, callVars, Unwritten
  <2> QED  BY <1>0, <2>1, QuietKeepsWInv
<1> QED  BY <1>1, <1>2

LEMMA StutterKeepsWInv ==
  ASSUME WInv, UNCHANGED <<log, pc, stream, stim, seen, briefed, todo, results>>
  PROVE  WInv'
BY DEF WInv, Authors, Ordered, Past, Contiguous, LogReadsAsTurns, Before,
   BriefingIsCurrent, ThisId, Current, Admitted, UserSpoke

LEMMA NextWInv == Typed /\ HolderInside /\ WInv /\ [Next]_vars => WInv'
<1> SUFFICES ASSUME Typed, HolderInside, WInv, [Next]_vars PROVE WInv'
  OBVIOUS
<1>1. CASE (\E l \in staged : Dispatch(l)) \/ Rest \/ UNCHANGED vars
  <2>1. UNCHANGED <<log, pc, stream, stim, seen, briefed, todo, results>>
    BY <1>1 DEF Dispatch, Rest, vars, callVars, turnVars
  <2> QED  BY <2>1, StutterKeepsWInv
<1> QED  BY <1>1, HandleWritesInTurn, ConfirmWritesInTurn DEF Next

LEMMA InitWInv == Init => WInv
<1> SUFFICES ASSUME Init PROVE WInv
  OBVIOUS
<1>1. \A s \in Stream : DOMAIN log[s] = {}
  BY DEF Init
<1>2. \A t \in Task : pc[t] = "new" /\ stream[t] \in Stream
  BY InitTyped DEF Init, Typed, CallTyped
<1> QED
  BY <1>1, <1>2, HandleIsTask
     DEF WInv, Authors, Ordered, Contiguous, LogReadsAsTurns,
         BriefingIsCurrent, Admitted, HandlePoint

LEMMA AlwaysWInv == Spec => [](Typed /\ HolderInside /\ WInv)
<1>1. Init => HolderInside
  BY HandleIsTask, OutsidePoints DEF Init, HolderInside, Inside
<1> QED
  BY <1>1, InitTyped, NextTyped, NextHolderInside, InitWInv, NextWInv, PTL DEF Spec

-----------------------------------------------------------------------------
(***************************************************************************)
(* What a step of a task adds to the log, to the effects and to the ledger *)
(* is that task's.                                                         *)
(***************************************************************************)
Adds(t) ==
  /\ UNCHANGED log \/ \E e \in LogEvent : e.by = t /\ Record(stream[t], e)
  /\ \A e \in effects' : e \in effects \/ e.line[1] = t
  /\ effects \subseteq effects'
  /\ \A l \in staged' : l \in staged \/ l[1] = t
  /\ staged \subseteq staged'

LEMMA HandleAdds ==
  ASSUME Typed, NEW h \in Handle, HandleStep(h) \/ \E st \in Stimuli : Plan(h, st)
  PROVE  Adds(h)
<1> USE HandleIsTask
<1>0. h \in Task /\ ThisId(h) \in LineId /\ todo[h] + 1 \in Nat /\ ThisId(h)[1] = h
  BY CurrentType DEF Typed, TurnTyped, ThisId
<1>1. CASE RecordInbound(h)
  <2>1. [kind |-> "inbound", by |-> h, line |-> <<h, 0>>, item |-> 0] \in LogEvent
    BY <1>0 DEF LogEvent, LineId
  <2> QED  BY <1>1, <2>1 DEF RecordInbound, Adds, ledgerVars
<1>2. CASE RecordAction(h)
  <2>1. [kind |-> "action", by |-> h, line |-> ThisId(h), item |-> todo[h] + 1] \in LogEvent
    BY <1>0 DEF LogEvent
  <2> QED  BY <1>2, <2>1 DEF RecordAction, Adds, ledgerVars
<1>3. CASE AppendMessage(h)
  <2>1. [kind |-> "message", by |-> h, line |-> ThisId(h), item |-> 0] \in LogEvent
    BY <1>0 DEF LogEvent
  <2> QED  BY <1>3, <2>1 DEF AppendMessage, Adds, ledgerVars
<1>4. CASE \E o \in Outcomes : Act(h, o)
  BY <1>0, <1>4 DEF Act, Adds, ledgerVars
<1>5. CASE Stage(h)
  BY <1>0, <1>5 DEF Stage, Adds
<1>6. CASE \/ \E st \in Stimuli : Plan(h, st)
           \/ Call(h) \/ Cancel(h) \/ Admit(h) \/ \E sc \in Scripts : Direct(h, sc)
           \/ UnknownSpeaker(h) \/ Brief(h) \/ KeepQuiet(h) \/ Deliver(h)
           \/ DeliveryFails(h) \/ Close(h) \/ Raise(h)
  <2>1. log' = log /\ effects' = effects /\ staged' = staged
    BY <1>6 DEF Plan, Call, Cancel, Admit, Direct, UnknownSpeaker, Brief, KeepQuiet,
       Deliver, DeliveryFails, Close, Raise, ledgerVars
  <2> QED  BY <2>1 DEF Adds
<1> QED  BY <1>1, <1>2, <1>3, <1>4, <1>5, <1>6 DEF HandleStep

LEMMA ConfirmAdds ==
  ASSUME Typed, NEW c \in Confirmer, ConfirmStep(c) \/ \E l \in staged : GetPending(c, l)
  PROVE  Adds(c)
<1>1. CASE FinishConfirm(c)
  <2>1. wants[c] \in LineId /\ c \in Task
    BY <1>1, HandleIsTask DEF FinishConfirm, Typed, WantsStaged, LedgerTyped
  <2>2. [kind |-> "message", by |-> c, line |-> wants[c], item |-> 0] \in LogEvent
    BY <2>1 DEF LogEvent
  <2> QED  BY <1>1, <2>2 DEF FinishConfirm, Adds
<1>2. CASE ~FinishConfirm(c)
  <2>1. log' = log /\ effects' = effects /\ staged' = staged
    BY <1>2 DEF ConfirmStep, ConfirmAgain, BeginConfirm, FailConfirm, GetPending,
       ledgerVars
  <2> QED  BY <2>1 DEF Adds
<1> QED  BY <1>1, <1>2

LogGrows ==
  \A s \in Stream : \A k \in DOMAIN log[s] :
    k \in DOMAIN log'[s] /\ log'[s][k] = log[s][k]

LEMMA AddsToLog ==
  ASSUME Typed, NEW t \in Task, Adds(t)
  PROVE  /\ LogGrows
         /\ \A s \in Stream : \A k \in DOMAIN log'[s] :
              k \in DOMAIN log[s] \/ log'[s][k].by = t
<1>1. CASE UNCHANGED log
  BY <1>1 DEF LogGrows
<1>2. ASSUME NEW e \in LogEvent, e.by = t, Record(stream[t], e)
      PROVE  /\ LogGrows
             /\ \A s \in Stream : \A k \in DOMAIN log'[s] :
                  k \in DOMAIN log[s] \/ log'[s][k].by = t
  <2>1. stream[t] \in Stream
    BY DEF Typed, CallTyped
  <2> QED  BY <1>2, <2>1, Recorded DEF LogGrows, Typed
<1> QED  BY <1>1, <1>2 DEF Adds

-----------------------------------------------------------------------------
(***************************************************************************)
(* NoStaleOutreach.                                                        *)
(***************************************************************************)
LEMMA OthersLeaveNoTraces ==
  ASSUME Typed, NEW t \in Task, NEW h \in Handle \ {t}, OthersStay(t), Adds(t)
  PROVE  Traces(h)' = Traces(h)
<1>1. stream'[h] = stream[h] /\ stream[h] \in Stream
  BY HandleIsTask DEF OthersStay, Typed, CallTyped
<1>2. LogGrows /\ \A k \in DOMAIN log'[stream[h]] :
        k \in DOMAIN log[stream[h]] \/ log'[stream[h]][k].by = t
  BY <1>1, AddsToLog
<1>3. {k \in DOMAIN log'[stream[h]] : log'[stream[h]][k].by = h}
        = {k \in DOMAIN log[stream[h]] : log[stream[h]][k].by = h}
  BY <1>1, <1>2 DEF LogGrows
<1>4. {e \in effects' : e.line[1] = h} = {e \in effects : e.line[1] = h}
  BY DEF Adds
<1>5. {l \in staged' : l[1] = h} = {l \in staged : l[1] = h}
  BY DEF Adds
<1> QED  BY <1>1, <1>3, <1>4, <1>5 DEF Traces

\* A guarded activation that users overtook is not inside, and never gets there.
LEMMA OvertakenLeavesNoTraces ==
  ASSUME Typed, WInv, NEW h \in Handle, stim[h].guarded, UserSpoke(h),
         HandleStep(h) \/ \E st \in Stimuli : Plan(h, st)
  PROVE  Traces(h)' = Traces(h)
<1> USE HandleIsTask
<1>1. pc[h] \notin HandlePoint
  BY DEF WInv, Admitted
<1>2. ASSUME NEW st \in Stimuli, Plan(h, st) PROVE Traces(h)' = Traces(h)
  <2>1. log' = log /\ effects' = effects /\ staged' = staged
    BY <1>2 DEF Plan, ledgerVars
  <2>2. stream[h] \in Stream /\ stream'[h] \in Stream
    BY <1>2, NextTyped DEF Next, Typed, CallTyped
  <2>3. \A s \in Stream : {k \in DOMAIN log[s] : log[s][k].by = h} = {}
    BY <1>2 DEF Plan, WInv, Authors, Unwritten
  <2> QED  BY <2>1, <2>2, <2>3 DEF Traces
<1>3. CASE Call(h) \/ Cancel(h) \/ Admit(h) \/ Raise(h)
  <2>1. log' = log /\ effects' = effects /\ staged' = staged /\ stream' = stream
    BY <1>3 DEF Call, Cancel, Admit, Raise, ledgerVars, callVars
  <2> QED  BY <2>1 DEF Traces
<1> QED
  BY <1>1, <1>2, <1>3 DEF HandleStep, HandlePoint, RecordInbound, Direct,
     UnknownSpeaker, Brief, Act, RecordAction, KeepQuiet, Deliver, DeliveryFails,
     AppendMessage, Stage, Close, Judged

LEMMA NextLeavesNoTraces ==
  Typed /\ WInv /\ [Next]_vars =>
    [\A h \in Handle : stim[h].guarded /\ UserSpoke(h) => Traces(h)' = Traces(h)]_vars
<1> SUFFICES ASSUME Typed, WInv, [Next]_vars,
                    NEW h \in Handle, stim[h].guarded, UserSpoke(h)
             PROVE  Traces(h)' = Traces(h)
  OBVIOUS
<1> USE HandleIsTask
<1>1. ASSUME NEW t \in Handle, HandleStep(t) \/ \E st \in Stimuli : Plan(t, st)
      PROVE  Traces(h)' = Traces(h)
  <2>1. OthersStay(t) /\ Adds(t)
    BY <1>1, HandleOthersStay, HandleAdds
  <2> QED  BY <1>1, <2>1, OthersLeaveNoTraces, OvertakenLeavesNoTraces
<1>2. ASSUME NEW c \in Confirmer, ConfirmStep(c) \/ \E l \in staged : GetPending(c, l)
      PROVE  Traces(h)' = Traces(h)
  <2>1. OthersStay(c) /\ Adds(c) /\ h # c
    BY <1>2, ConfirmOthersStay, ConfirmAdds, TaskAssumption
  <2> QED  BY <2>1, OthersLeaveNoTraces
<1>3. CASE (\E l \in staged : Dispatch(l)) \/ Rest \/ UNCHANGED vars
  <2>1. log' = log /\ effects' = effects /\ staged' = staged /\ stream' = stream
    BY <1>3 DEF Dispatch, Rest, vars, ledgerVars, callVars
  <2> QED  BY <2>1 DEF Traces
<1> QED  BY <1>1, <1>2, <1>3 DEF Next

-----------------------------------------------------------------------------
(***************************************************************************)
(* ActionTruth.                                                            *)
(***************************************************************************)
LEMMA InLogStays ==
  ASSUME Typed, LogGrows, NEW e \in effects, stream'[e.line[1]] = stream[e.line[1]], InLog(e)
  PROVE  InLog(e)'
<1>1. stream[e.line[1]] \in Stream
  BY HandleIsTask DEF Typed, EffectsTyped, LineId, CallTyped
<1>2. PICK k \in DOMAIN log[stream[e.line[1]]] :
        LET d == log[stream[e.line[1]]][k] IN
        d.kind = "action" /\ d.line = e.line /\ d.item = e.item
  BY DEF InLog
<1> QED  BY <1>1, <1>2 DEF InLog, LogGrows

\* What remains to be shown of a step of t.
LEMMA StepKeepsAInv ==
  ASSUME Typed, AInv, NEW t \in Task, OthersStay(t), Adds(t),
         t \in Handle => EffectedBy(t)' /\ ExecutedBy(t)',
         \A s \in Stream : \A k \in DOMAIN log'[s] : log'[s][k].kind = "action" =>
           \/ k \in DOMAIN log[s]
           \/ [line |-> log'[s][k].line, item |-> log'[s][k].item] \in effects'
  PROVE  AInv'
<1> USE HandleIsTask
<1>g. LogGrows /\ effects \subseteq effects' /\ \A e \in effects' : e \in effects \/ e.line[1] = t
  BY AddsToLog DEF Adds
<1>1. ASSUME NEW h \in Handle \ {t} PROVE EffectedBy(h)'
  <2> SUFFICES ASSUME NEW e \in effects', e.line[1] = h
               PROVE  /\ pc'[h] \notin {"new", "planned", "entry", "inbound", "direct"}
                      /\ \/ e.line[2] < Current(h)' /\ InLog(e)'
                         \/ /\ e.line[2] = Current(h)'
                            /\ \/ pc'[h] \in Ended
                               \/ pc'[h] = "append" /\ InLog(e)'
                               \/ /\ pc'[h] = "record" /\ e.item \in DOMAIN Reported(outcome'[h])
                                  /\ Reported(outcome'[h])[e.item]
                                  /\ e.item <= todo'[h] => InLog(e)'
    BY DEF EffectedBy
  <2>1. e \in effects /\ stream'[e.line[1]] = stream[e.line[1]]
    BY <1>g, <1>1 DEF OthersStay
  <2>2. InLog(e) => InLog(e)'
    BY <1>g, <2>1, InLogStays
  <2>3. /\ pc'[h] = pc[h] /\ Current(h)' = Current(h) /\ outcome'[h] = outcome[h]
        /\ todo'[h] = todo[h]
    BY <1>1 DEF OthersStay, Current
  <2>4. EffectedBy(h)
    BY DEF AInv
  <2> QED  BY <2>1, <2>2, <2>3, <2>4 DEF EffectedBy
<1>2. ASSUME NEW h \in Handle \ {t} PROVE ExecutedBy(h)'
  <2>1. ExecutedBy(h) /\ pc'[h] = pc[h] /\ ThisId(h)' = ThisId(h) /\ outcome'[h] = outcome[h]
    BY <1>2 DEF AInv, OthersStay, ThisId, Current
  <2> QED  BY <1>g, <2>1 DEF ExecutedBy
<1>3. Performed'
  <2> SUFFICES ASSUME NEW s \in Stream, NEW k \in DOMAIN log'[s], log'[s][k].kind = "action"
               PROVE  [line |-> log'[s][k].line, item |-> log'[s][k].item] \in effects'
    BY DEF Performed
  <2>1. CASE k \in DOMAIN log[s]
    <3>1. log'[s][k] = log[s][k]
      BY <1>g, <2>1 DEF LogGrows
    <3> QED  BY <1>g, <2>1, <3>1 DEF AInv, Performed
  <2> QED  BY <2>1
<1> QED  BY <1>1, <1>2, <1>3 DEF AInv

LEMMA ReportedType == \A o \in Outcome : Reported(o) \in Seq(BOOLEAN)
<1> SUFFICES ASSUME NEW o \in Outcome PROVE Reported(o) \in Seq(BOOLEAN)
  OBVIOUS
<1>1. CASE o.kind = "provider"
  <2>1. Reported(o) = <<>>
    BY <1>1 DEF Reported
  <2> QED  BY <2>1
<1>2. CASE o.kind # "provider"
  <2>1. Reported(o) = o.actions
    BY <1>2 DEF Reported
  <2>2. o.actions \in Seq(BOOLEAN)
    BY DEF Outcome
  <2> QED  BY <2>1, <2>2
<1> QED  BY <1>1, <1>2

\* What an agent reports it did is what it did, but for tools that leave no event.
LEMMA ReportedIsDone ==
  ASSUME NEW o \in Outcomes
  PROVE  /\ \A k \in DOMAIN Reported(o) : k \in DOMAIN o.actions /\ Reported(o)[k] = o.actions[k]
         /\ \A k \in DOMAIN o.actions : o.actions[k] => k \in DOMAIN Reported(o)
<1>1. CASE o.kind = "provider"
  <2>1. Reported(o) = <<>> /\ DOMAIN Reported(o) = {}
    BY <1>1 DEF Reported
  <2>2. \A k \in DOMAIN o.actions : ~o.actions[k]
    BY <1>1, TrailAssumption
  <2> QED  BY <2>1, <2>2
<1>2. CASE o.kind # "provider"
  BY <1>2 DEF Reported
<1> QED  BY <1>1, <1>2

LEMMA HandlePerforms ==
  ASSUME Typed, AInv, NEW h \in Handle, HandleStep(h) \/ \E st \in Stimuli : Plan(h, st)
  PROVE  AInv'
<1> USE HandleIsTask DEF lockVars, callVars, turnVars, ledgerVars
<1>0. /\ OthersStay(h) /\ Adds(h) /\ LogGrows /\ h \in Task
      /\ Current(h) \in Nat /\ todo[h] \in Nat /\ stream[h] \in Stream
      /\ EffectedBy(h) /\ ExecutedBy(h) /\ pc \in [Task -> Points]
  BY HandleOthersStay, HandleAdds, AddsToLog, CurrentType
     DEF Typed, TurnTyped, CallTyped, PcTyped, AInv
<1>i. ASSUME stream' = stream, NEW e \in effects, e.line[1] = h, InLog(e)
      PROVE  InLog(e)'
  BY <1>0, <1>i, InLogStays
<1>e. \A e \in effects : e.line \in LineId /\ e.line[2] \in Nat /\ e.item \in Nat
  BY DEF Typed, EffectsTyped, LineId
<1>a. ASSUME UNCHANGED log, EffectedBy(h)', ExecutedBy(h)'
      PROVE  AInv'
  BY <1>0, <1>a, StepKeepsAInv
<1>1. ASSUME pc[h] \in {"new", "planned", "entry", "inbound", "direct"},
             effects' = effects, pc'[h] # "record"
      PROVE  EffectedBy(h)' /\ ExecutedBy(h)'
  BY <1>0, <1>1 DEF EffectedBy, ExecutedBy
<1>2. CASE (\E st \in Stimuli : Plan(h, st)) \/ Call(h) \/ Cancel(h) \/ Admit(h)
           \/ \E sc \in Scripts : Direct(h, sc)
  <2>1. /\ pc[h] \in {"new", "planned", "entry", "inbound", "direct"}
        /\ effects' = effects /\ log' = log /\ pc'[h] # "record"
    BY <1>0, <1>2 DEF Plan, Call, Cancel, Admit, Direct, Leave, Entered, Goto
  <2> QED  BY <1>1, <1>a, <2>1
<1>3. CASE RecordInbound(h)
  <2>1. pc[h] = "inbound" /\ effects' = effects /\ pc'[h] = "direct" /\ stream[h] \in Stream
    BY <1>0, <1>3 DEF RecordInbound, Goto
  <2>2. PICK e : e.kind = "inbound" /\ Record(stream[h], e) /\ e \in LogEvent
    <3>1. [kind |-> "inbound", by |-> h, line |-> <<h, 0>>, item |-> 0] \in LogEvent
      BY <1>0 DEF LogEvent, LineId
    <3> QED  BY <1>3, <3>1 DEF RecordInbound
  <2>3. \A s \in Stream : \A k \in DOMAIN log'[s] :
          k \in DOMAIN log[s] \/ log'[s][k].kind = "inbound"
    BY <2>1, <2>2, Recorded DEF Typed
  <2> QED  BY <1>0, <1>1, <2>1, <2>3, StepKeepsAInv
<1>4. CASE Close(h) \/ Raise(h)
  <2>1. /\ effects' = effects /\ log' = log /\ results' = results /\ stream' = stream
        /\ pc'[h] \in Ended
    BY <1>0, <1>4 DEF Close, Raise, Leave, Goto, Ended
  <2>2. Current(h)' = Current(h)
    BY <2>1 DEF Current
  <2>3. EffectedBy(h)' /\ ExecutedBy(h)'
    BY <1>0, <1>i, <2>1, <2>2 DEF EffectedBy, ExecutedBy, Ended
  <2> QED  BY <1>a, <2>1, <2>3
<1>5. CASE Brief(h)
  <2>1. /\ effects' = effects /\ log' = log /\ results' = results /\ stream' = stream
        /\ pc[h] = "brief" /\ pc'[h] = "act"
    BY <1>0, <1>5 DEF Brief, Goto
  <2>2. Current(h)' = Current(h)
    BY <2>1 DEF Current
  <2>3. EffectedBy(h)' /\ ExecutedBy(h)'
    BY <1>0, <1>i, <2>1, <2>2 DEF EffectedBy, ExecutedBy, Ended
  <2> QED  BY <1>a, <2>1, <2>3
<1>6. ASSUME NEW o \in Outcomes, Act(h, o) PROVE AInv'
  <2>1. /\ log' = log /\ results' = results /\ stream' = stream /\ outcome'[h] = o
        /\ todo'[h] = 0 /\ pc[h] = "act" /\ pc'[h] = "record"
        /\ effects' = effects \cup {[line |-> ThisId(h), item |-> k] :
                                      k \in {j \in DOMAIN o.actions : o.actions[j]}}
    BY <1>0, <1>6 DEF Act, Goto, Typed, TurnTyped
  <2>2. Current(h)' = Current(h) /\ ThisId(h)' = ThisId(h)
    BY <2>1 DEF Current, ThisId
  <2>3. \A k \in DOMAIN o.actions : k \in Nat /\ k > 0
    <3>1. o.actions \in Seq(BOOLEAN)
      BY CastAssumption DEF Outcome
    <3> QED  BY <3>1
  <2>4. ExecutedBy(h)'
    BY <2>1, <2>2, ReportedIsDone DEF ExecutedBy
  <2>5. EffectedBy(h)'
    <3> SUFFICES ASSUME NEW e \in effects', e.line[1] = h
                 PROVE  \/ e.line[2] < Current(h)' /\ InLog(e)'
                        \/ /\ e.line[2] = Current(h)'
                           /\ e.item \in DOMAIN Reported(outcome'[h])
                           /\ Reported(outcome'[h])[e.item]
                           /\ e.item <= todo'[h] => InLog(e)'
      BY <2>1 DEF EffectedBy
    <3>1. CASE e \in effects
      BY <1>0, <1>i, <2>1, <2>2, <3>1 DEF EffectedBy, Ended
    <3>2. CASE e \notin effects
      <4>1. PICK k \in DOMAIN o.actions : o.actions[k] /\ e = [line |-> ThisId(h), item |-> k]
        BY <2>1, <3>2
      <4>2. k \in DOMAIN Reported(o) /\ Reported(o)[k]
        BY <4>1, ReportedIsDone
      <4> QED  BY <2>1, <2>2, <2>3, <4>1, <4>2 DEF ThisId
    <3> QED  BY <3>1, <3>2
  <2> QED  BY <1>a, <2>1, <2>4, <2>5
<1>7. CASE RecordAction(h)
  <2>1. /\ effects' = effects /\ results' = results /\ stream' = stream
        /\ outcome' = outcome /\ todo'[h] = todo[h] + 1 /\ pc[h] = "record" /\ pc' = pc
        /\ todo[h] < Len(Reported(outcome[h]))
    BY <1>0, <1>7 DEF RecordAction, Typed, TurnTyped
  <2>2. Current(h)' = Current(h) /\ ThisId(h)' = ThisId(h)
    BY <2>1 DEF Current, ThisId
  <2>3. todo[h] + 1 \in DOMAIN Reported(outcome[h])
    <3>1. Reported(outcome[h]) \in Seq(BOOLEAN)
      BY ReportedType DEF Typed, TurnTyped
    <3> QED  BY <1>0, <2>1, <3>1
  <2>4. ExecutedBy(h)'
    BY <1>0, <2>1, <2>2 DEF ExecutedBy
  <2>5. ASSUME Reported(outcome[h])[todo[h] + 1]
        PROVE  \E e \in LogEvent : /\ e.kind = "action" /\ e.line = ThisId(h)
                                   /\ e.item = todo[h] + 1 /\ Record(stream[h], e)
    <3>1. ThisId(h) \in LineId /\ todo[h] + 1 \in Nat
      BY <1>0, CurrentType DEF Typed
    <3>2. [kind |-> "action", by |-> h, line |-> ThisId(h), item |-> todo[h] + 1] \in LogEvent
      BY <1>0, <3>1 DEF LogEvent
    <3> QED  BY <1>7, <2>5, <3>2 DEF RecordAction
  <2>6. EffectedBy(h)'
    <3> SUFFICES ASSUME NEW e \in effects, e.line[1] = h
                 PROVE  \/ e.line[2] < Current(h) /\ InLog(e)'
                        \/ /\ e.line[2] = Current(h)
                           /\ e.item \in DOMAIN Reported(outcome[h])
                           /\ Reported(outcome[h])[e.item]
                           /\ e.item <= todo[h] + 1 => InLog(e)'
      BY <2>1, <2>2 DEF EffectedBy
    <3>1. CASE e.line[2] < Current(h) /\ InLog(e)
      BY <1>i, <2>1, <3>1
    <3>2. CASE /\ e.line[2] = Current(h) /\ e.item \in DOMAIN Reported(outcome[h])
               /\ Reported(outcome[h])[e.item]
               /\ e.item <= todo[h] => InLog(e)
      <4>1. CASE e.item <= todo[h]
        BY <1>i, <2>1, <3>2, <4>1
      <4>2. CASE e.item = todo[h] + 1
        <5>1. PICK d \in LogEvent : /\ d.kind = "action" /\ d.line = ThisId(h)
                                    /\ d.item = todo[h] + 1 /\ Record(stream[h], d)
          BY <2>5, <3>2, <4>2
        <5>2. e.line = ThisId(h)
          BY <1>e, <3>2 DEF LineId, ThisId
        <5>3. \E k \in DOMAIN log'[stream[h]] : log'[stream[h]][k] = d
          BY <1>0, <5>1, Recorded DEF Typed
        <5>4. InLog(e)'
          BY <2>1, <4>2, <5>1, <5>2, <5>3 DEF InLog, ThisId
        <5> QED  BY <3>2, <5>4
      <4>3. e.item <= todo[h] + 1 => e.item <= todo[h] \/ e.item = todo[h] + 1
        BY <1>0, <1>e
      <4> QED  BY <3>2, <4>1, <4>2, <4>3
    <3> QED  BY <1>0, <2>1, <3>1, <3>2 DEF EffectedBy, Ended
  <2>7. ASSUME NEW s \in Stream, NEW k \in DOMAIN log'[s], k \notin DOMAIN log[s]
        PROVE  [line |-> log'[s][k].line, item |-> log'[s][k].item] \in effects'
    <3>1. Reported(outcome[h])[todo[h] + 1]
      BY <1>7, <2>7 DEF RecordAction
    <3>2. PICK d \in LogEvent : /\ d.kind = "action" /\ d.line = ThisId(h)
                                /\ d.item = todo[h] + 1 /\ Record(stream[h], d)
      BY <2>5, <3>1
    <3>3. log'[s][k] = d
      BY <1>0, <2>7, <3>2, Recorded DEF Typed
    <3> QED  BY <1>0, <2>1, <2>3, <3>1, <3>2, <3>3 DEF ExecutedBy
  <2> QED  BY <1>0, <2>4, <2>6, <2>7, StepKeepsAInv
<1>8. CASE Deliver(h)
  <2>1. /\ effects' = effects /\ log' = log /\ results' = results /\ stream' = stream
        /\ pc[h] = "record" /\ todo[h] = Len(Reported(outcome[h])) /\ pc'[h] = "append"
    BY <1>0, <1>8 DEF Deliver, Judged, Goto
  <2>2. Current(h)' = Current(h)
    BY <2>1 DEF Current
  <2>3. \A k \in DOMAIN Reported(outcome[h]) : k <= todo[h]
    <3>1. Reported(outcome[h]) \in Seq(BOOLEAN)
      BY ReportedType DEF Typed, TurnTyped
    <3> QED  BY <2>1, <3>1
  <2>4. EffectedBy(h)' /\ ExecutedBy(h)'
    BY <1>0, <1>i, <2>1, <2>2, <2>3 DEF EffectedBy, ExecutedBy, Ended
  <2> QED  BY <1>a, <2>1, <2>4
<1>9. CASE UnknownSpeaker(h) \/ KeepQuiet(h) \/ DeliveryFails(h) \/ AppendMessage(h) \/ Stage(h)
  <2>1. PICK st \in LineStatus : EndLine(h, st)
    BY <1>9 DEF UnknownSpeaker, KeepQuiet, DeliveryFails, AppendMessage, Stage, LineStatus
  <2>2. Current(h) < Current(h)' /\ pc'[h] \in {"brief", "close"}
    BY <2>1, EndLineMoves
  <2>3. /\ effects' = effects /\ stream' = stream
        /\ \/ pc[h] \in {"brief", "append"}
           \/ pc[h] = "record" /\ todo[h] = Len(Reported(outcome[h]))
    BY <1>9 DEF UnknownSpeaker, KeepQuiet, DeliveryFails, AppendMessage, Stage, Judged
  <2>4. \A k \in DOMAIN Reported(outcome[h]) : pc[h] = "record" => k <= todo[h]
    <3>1. Reported(outcome[h]) \in Seq(BOOLEAN)
      BY ReportedType DEF Typed, TurnTyped
    <3> QED  BY <2>3, <3>1
  <2>5. Current(h)' \in Nat
    BY <2>1, EndLineMoves
  <2>6. ExecutedBy(h)'
    BY <2>2 DEF ExecutedBy
  <2>7. EffectedBy(h)'
    <3> SUFFICES ASSUME NEW e \in effects, e.line[1] = h
                 PROVE  e.line[2] < Current(h)' /\ InLog(e)'
      BY <2>2, <2>3 DEF EffectedBy
    <3>1. e.line[2] <= Current(h) /\ InLog(e)
      BY <1>0, <1>e, <2>3, <2>4 DEF EffectedBy, Ended
    <3> QED  BY <1>0, <1>e, <1>i, <2>2, <2>3, <2>5, <3>1
  <2>8. CASE ~AppendMessage(h)
    <3>1. log' = log
      BY <1>9, <2>8 DEF UnknownSpeaker, KeepQuiet, DeliveryFails, Stage
    <3> QED  BY <1>a, <2>6, <2>7, <3>1
  <2>9. CASE AppendMessage(h)
    <3>1. PICK e \in LogEvent : e.kind = "message" /\ Record(stream[h], e)
      <4>1. [kind |-> "message", by |-> h, line |-> ThisId(h), item |-> 0] \in LogEvent
        BY <1>0, CurrentType DEF LogEvent, Typed
      <4> QED  BY <2>9, <4>1 DEF AppendMessage
    <3>2. \A s \in Stream : \A k \in DOMAIN log'[s] :
            k \in DOMAIN log[s] \/ log'[s][k].kind = "message"
      BY <1>0, <3>1, Recorded DEF Typed
    <3> QED  BY <1>0, <2>6, <2>7, <3>2, StepKeepsAInv
  <2> QED  BY <2>8, <2>9
<1> QED
  BY <1>2, <1>3, <1>4, <1>5, <1>6, <1>7, <1>8, <1>9 DEF HandleStep

LEMMA ConfirmPerforms ==
  ASSUME Typed, AInv, NEW c \in Confirmer, ConfirmStep(c) \/ \E l \in staged : GetPending(c, l)
  PROVE  AInv'
<1>0. /\ OthersStay(c) /\ Adds(c) /\ c \in Task /\ c \notin Handle /\ stream[c] \in Stream
      /\ LogGrows
  BY ConfirmOthersStay, ConfirmAdds, AddsToLog, HandleIsTask, TaskAssumption
     DEF Typed, CallTyped
<1>1. CASE FinishConfirm(c)
  <2>1. wants[c] \in LineId
    BY <1>1 DEF FinishConfirm, Typed, WantsStaged, LedgerTyped
  <2>2. PICK e \in LogEvent : e.kind = "message" /\ Record(stream[c], e)
    <3>1. [kind |-> "message", by |-> c, line |-> wants[c], item |-> 0] \in LogEvent
      BY <1>0, <2>1 DEF LogEvent
    <3> QED  BY <1>1, <3>1 DEF FinishConfirm
  <2>3. \A s \in Stream : \A k \in DOMAIN log'[s] :
          k \in DOMAIN log[s] \/ log'[s][k].kind = "message"
    BY <1>0, <2>2, Recorded DEF Typed
  <2> QED  BY <1>0, <2>3, StepKeepsAInv
<1>2. CASE ~FinishConfirm(c)
  <2>1. log' = log
    BY <1>2 DEF ConfirmStep, ConfirmAgain, BeginConfirm, FailConfirm, GetPending
  <2> QED  BY <1>0, <2>1, StepKeepsAInv
<1> QED  BY <1>1, <1>2

LEMMA NextAInv == Typed /\ AInv /\ [Next]_vars => AInv'
<1> SUFFICES ASSUME Typed, AInv, [Next]_vars PROVE AInv'
  OBVIOUS
<1>1. CASE (\E l \in staged : Dispatch(l)) \/ Rest \/ UNCHANGED vars
  <2>1. /\ log' = log /\ pc' = pc /\ stream' = stream /\ outcome' = outcome
        /\ todo' = todo /\ results' = results /\ effects' = effects
    BY <1>1 DEF Dispatch, Rest, vars, callVars, turnVars
  <2>2. \A e : InLog(e)' <=> InLog(e)
    BY <2>1 DEF InLog
  <2>3. ASSUME NEW h \in Handle PROVE EffectedBy(h)'
    BY <2>1, <2>2 DEF AInv, EffectedBy, Current
  <2>4. ASSUME NEW h \in Handle PROVE ExecutedBy(h)'
    BY <2>1 DEF AInv, ExecutedBy, ThisId, Current
  <2>5. Performed'
    BY <2>1 DEF AInv, Performed
  <2> QED
    BY <2>3, <2>4, <2>5 DEF AInv
<1> QED  BY <1>1, HandlePerforms, ConfirmPerforms DEF Next

LEMMA InitAInv == Init => AInv
<1> SUFFICES ASSUME Init PROVE AInv
  OBVIOUS
<1>1. \A s \in Stream : DOMAIN log[s] = {}
  BY DEF Init
<1>2. effects = {} /\ \A h \in Handle : pc[h] = "new"
  BY HandleIsTask DEF Init
<1> QED  BY <1>1, <1>2 DEF AInv, EffectedBy, ExecutedBy, Performed

\* The events of one action of one line are one event.
LEMMA RecordedOnce ==
  ASSUME Typed, WInv, NEW s \in Stream, NEW j \in DOMAIN log[s], NEW k \in DOMAIN log[s],
         log[s][j].kind = "action", log[s][k].kind = "action",
         log[s][j].line = log[s][k].line, log[s][j].item = log[s][k].item
  PROVE  j = k
<1>1. /\ j \in Nat /\ k \in Nat
      /\ log[s][j].by \in Task /\ log[s][k].by \in Task
      /\ log[s][j].line[2] \in Nat /\ log[s][j].item \in Nat
  BY EventType
<1>2. log[s][j].by \in Handle /\ log[s][k].by \in Handle
  BY <1>1 DEF WInv, Authors, Task
<1>3. log[s][j].by = log[s][k].by
  BY <1>2 DEF WInv, Authors
<1>4. ~(j < k)
  BY <1>1, <1>3 DEF WInv, LogReadsAsTurns, Before
<1>5. ~(k < j)
  BY <1>1, <1>3 DEF WInv, LogReadsAsTurns, Before
<1> QED  BY <1>1, <1>4, <1>5

LEMMA AInvTellsTheTruth == Typed /\ WInv /\ AInv => ActionTruth
<1> SUFFICES ASSUME Typed, WInv, AInv PROVE ActionTruth
  OBVIOUS
<1>1. ASSUME NEW e \in effects, e.line[2] <= Len(results[e.line[1]])
      PROVE  LET s == stream[e.line[1]] IN
             \E k \in DOMAIN log[s] :
               {j \in DOMAIN log[s] : /\ log[s][j].kind = "action"
                                     /\ log[s][j].line = e.line
                                     /\ log[s][j].item = e.item} = {k}
  <2>1. /\ e.line[1] \in Handle /\ e.line[2] \in Nat /\ stream[e.line[1]] \in Stream
        /\ Len(results[e.line[1]]) \in Nat
    BY HandleIsTask DEF Typed, EffectsTyped, LineId, CallTyped, ResultsTyped
  <2>2. InLog(e)
    BY <1>1, <2>1 DEF AInv, EffectedBy, Current
  <2>3. PICK k \in DOMAIN log[stream[e.line[1]]] :
          LET d == log[stream[e.line[1]]][k] IN
          d.kind = "action" /\ d.line = e.line /\ d.item = e.item
    BY <2>2 DEF InLog
  <2> QED  BY <2>1, <2>3, RecordedOnce
<1> QED  BY <1>1 DEF ActionTruth, AInv, Performed

-----------------------------------------------------------------------------
\* An activation writes its events in one piece and in the order of its script,
\* however its suspensions interleave with other activations and confirmations:
\* for any number of tasks, streams, lines and actions.
THEOREM LogInTurns == Spec => []LogReadsAsTurns
<1>1. WInv => LogReadsAsTurns
  BY DEF WInv
<1> QED  BY <1>1, AlwaysWInv, PTL

\* Until a line is over nothing but its own events is added to the log its agent
\* was briefed with.
THEOREM BriefedRight == Spec => []BriefingIsCurrent
<1>1. WInv => BriefingIsCurrent
  BY DEF WInv
<1> QED  BY <1>1, AlwaysWInv, PTL

\* A guarded activation leaves no trace after a user has spoken: nothing is
\* written, executed or staged for it in any later step.
THEOREM OutreachStandsDown == Spec => NoStaleOutreach
  BY AlwaysWInv, NextLeavesNoTraces, PTL DEF Spec, NoStaleOutreach

\* With agents that report what their tools did before a provider failed
\* (TrailAssumption; a bare ProviderError takes nothing along), every recordable
\* action of a line that is over is in the log exactly once, whatever became of the
\* line's prose, and the log claims no other action.
THEOREM ActionsAreTrue == Spec => []ActionTruth
<1>1. Spec => []AInv
  BY InitTyped, NextTyped, InitAInv, NextAInv, PTL DEF Spec
<1> QED  BY <1>1, AlwaysWInv, AInvTellsTheTruth, PTL

-----------------------------------------------------------------------------
(***************************************************************************)
(* ResultsTellTheTruth.                                                    *)
(***************************************************************************)
\* Lines that have a result belong to an activation that has begun.
LEMMA ResultsOfStarted ==
  ASSUME RInv, NEW l \in LineId, NEW st, HasResult(l, st)
  PROVE  l[1] \in Handle /\ pc[l[1]] # "new"
<1>1. l[1] \in Handle
  BY DEF LineId
<1>2. results[l[1]] = <<>> => DOMAIN results[l[1]] = {}
  OBVIOUS
<1> QED  BY <1>1, <1>2 DEF RInv, Unstarted, HasResult

LEMMA MessageStays ==
  ASSUME Typed, LogGrows, NEW l \in LineId, stream'[l[1]] = stream[l[1]], MessageOf(l)
  PROVE  MessageOf(l)'
<1>1. stream[l[1]] \in Stream
  BY HandleIsTask DEF Typed, LineId, CallTyped
<1> QED  BY <1>1 DEF MessageOf, LogGrows

\* What remains to be shown of a step of handle h.
Accounts(h) ==
  /\ OthersStay(h) /\ Adds(h) /\ UNCHANGED <<confirmed, ledgerLock, wants>>
  /\ pc'[h] # "new"
  /\ stream'[h] = stream[h] \/ pc[h] = "new"
  /\ \/ results'[h] = results[h]
     \/ \E st \in LineStatus : /\ results'[h] = Append(results[h], st)
                               /\ st = "delivered" => ThisId(h) \in receipts'
                               /\ st = "pending" => ThisId(h) \in staged'
  /\ receipts \subseteq receipts'
  /\ pc'[h] = "append" => results'[h] = results[h] /\ ThisId(h) \in receipts'
  /\ \A l \in receipts' : l \in receipts \/ (l = ThisId(h) /\ pc'[h] = "append")
  /\ \A l \in staged' : l \in staged \/ l = ThisId(h)

LEMMA AccountsKeepRInv ==
  ASSUME Typed, RInv, Typed', NEW h \in Handle, Accounts(h),
         \A l : l = ThisId(h) =>
           /\ HasResult(l, "delivered")' => MessageOf(l)'
           /\ l \in staged' => HasResult(l, "pending")'
           /\ Sending(h) => HasResult(l, "delivered")' \/ (Sending(h)' /\ Current(h)' = Current(h))
           /\ \A s \in Stream : \A k \in DOMAIN log'[s] :
                \/ k \in DOMAIN log[s]
                \/ log'[s][k].kind # "message"
                \/ log'[s][k].line = l /\ HasResult(l, "delivered")'
  PROVE  RInv'
<1> USE HandleIsTask
<1> DEFINE id == ThisId(h)
<1>0. /\ OthersStay(h) /\ LogGrows /\ UNCHANGED <<confirmed, ledgerLock, wants>>
      /\ id \in LineId /\ id[1] = h /\ id[2] = Current(h) /\ Current(h) \in Nat
      /\ h \notin Confirmer /\ receipts \subseteq receipts' /\ staged \subseteq staged'
      /\ staged' \subseteq LineId /\ receipts' \subseteq LineId /\ confirmed \subseteq staged
      /\ results[h] \in Seq(LineStatus) /\ Current(h) = Len(results[h]) + 1
  BY AddsToLog, CurrentType, TaskAssumption
     DEF Accounts, Adds, ThisId, Typed, LedgerTyped, ResultsTyped, Current
<1>1. /\ \A l : l = id =>
           /\ HasResult(l, "delivered")' => MessageOf(l)'
           /\ l \in staged' => HasResult(l, "pending")'
           /\ Sending(h) => HasResult(l, "delivered")' \/ (Sending(h)' /\ Current(h)' = Current(h))
           /\ \A s \in Stream : \A k \in DOMAIN log'[s] :
                \/ k \in DOMAIN log[s]
                \/ log'[s][k].kind # "message"
                \/ log'[s][k].line = l /\ HasResult(l, "delivered")'
  OBVIOUS
<1>o. ASSUME NEW u \in Handle, u # h
      PROVE  /\ results'[u] = results[u] /\ pc'[u] = pc[u] /\ stream'[u] = stream[u]
             /\ Current(u)' = Current(u)
  BY <1>0, <1>o DEF OthersStay, Current
\* Results only grow, by the result of this line.
<1>2. /\ \A i \in DOMAIN results[h] : i \in DOMAIN results'[h] /\ results'[h][i] = results[h][i]
      /\ \A i \in DOMAIN results'[h] : i \in DOMAIN results[h] \/ i = Current(h)
  <2>1. CASE results'[h] = results[h]
    BY <2>1
  <2>2. CASE \E st \in LineStatus : results'[h] = Append(results[h], st)
    BY <1>0, <2>2
  <2> QED  BY <2>1, <2>2 DEF Accounts
<1>3. ASSUME NEW l \in LineId, NEW st, HasResult(l, st)
      PROVE  HasResult(l, st)'
  <2>1. CASE l[1] = h
    BY <1>2, <1>3, <2>1 DEF HasResult
  <2>2. CASE l[1] # h
    BY <1>o, <1>3, <2>2 DEF HasResult, LineId
  <2> QED  BY <2>1, <2>2
<1>4. ASSUME NEW l \in LineId, NEW st, HasResult(l, st), MessageOf(l)
      PROVE  MessageOf(l)'
  <2>1. l[1] \in Handle /\ pc[l[1]] # "new"
    BY <1>4, ResultsOfStarted
  <2>2. stream'[l[1]] = stream[l[1]]
    BY <1>o, <2>1 DEF Accounts
  <2> QED  BY <1>0, <1>4, <2>2, MessageStays
<1>5. \A l \in staged : l \in LineId /\ HasResult(l, "pending")
  BY DEF RInv, StagedOnly, Typed, LedgerTyped
<1>6. Unstarted'
  BY <1>o DEF RInv, Unstarted, Accounts
<1>7. Sent'
  <2>1. ASSUME NEW l \in receipts'
        PROVE  l \in staged' \/ HasResult(l, "delivered")'
               \/ (l[2] = Current(l[1])' /\ Sending(l[1])')
    <3>1. CASE l \in receipts
      <4>1. l \in LineId /\ l[1] \in Handle
        BY <1>0, <2>1 DEF LineId
      <4>2. CASE l \in staged \/ HasResult(l, "delivered")
        BY <1>0, <1>3, <4>1, <4>2
      <4>3. CASE l[2] = Current(l[1]) /\ Sending(l[1])
        <5>1. CASE l[1] = h
          <6>1. l = id
            BY <1>0, <4>1, <4>3, <5>1 DEF LineId
          <6> QED  BY <1>0, <1>1, <4>3, <5>1, <6>1
        <5>2. CASE l[1] # h
          BY <1>o, <4>1, <4>3, <5>2 DEF Sending
        <5> QED  BY <5>1, <5>2
      <4> QED  BY <3>1, <4>2, <4>3 DEF RInv, Sent
    <3>2. CASE l = id /\ pc'[h] = "append"
      <4>1. results'[h] = results[h]
        BY <3>2 DEF Accounts
      <4> QED  BY <1>0, <3>2, <4>1 DEF Current, Sending
    <3> QED  BY <2>1, <3>1, <3>2 DEF Accounts
  <2>2. ASSUME NEW u \in Handle, pc'[u] = "append" PROVE ThisId(u)' \in receipts'
    <3>1. CASE u = h
      <4>1. results'[h] = results[h] /\ ThisId(h) \in receipts'
        BY <2>2, <3>1 DEF Accounts
      <4> QED  BY <3>1, <4>1 DEF ThisId, Current
    <3>2. CASE u # h
      BY <1>0, <1>o, <2>2, <3>2 DEF RInv, Sent, ThisId
    <3> QED  BY <3>1, <3>2
  <2> QED  BY <2>1, <2>2 DEF Sent, HasResult, Current, Sending
<1>8. StagedOnly'
  <2>1. ASSUME NEW l \in staged' PROVE HasResult(l, "pending")'
    BY <1>1, <1>3, <1>5, <2>1 DEF Accounts
  <2> QED  BY <2>1 DEF StagedOnly, HasResult
<1>9. Said'
  <2>1. ASSUME NEW s \in Stream, NEW k \in DOMAIN log'[s], log'[s][k].kind = "message",
               NEW l, l = log'[s][k].line
        PROVE  HasResult(l, "delivered")' \/ l \in confirmed'
    <3>1. CASE k \in DOMAIN log[s]
      <4>1. log'[s][k] = log[s][k] /\ log[s][k] \in LogEvent
        BY <1>0, <3>1, EventType DEF LogGrows
      <4>2. l \in LineId /\ (HasResult(l, "delivered") \/ l \in confirmed)
        BY <2>1, <3>1, <4>1 DEF RInv, Said, LogEvent
      <4> QED  BY <1>0, <1>3, <4>2
    <3>2. CASE k \notin DOMAIN log[s]
      BY <1>1, <2>1, <3>2
    <3> QED  BY <3>1, <3>2
  <2>2. ASSUME NEW l \in confirmed' PROVE MessageOf(l)'
    BY <1>0, <1>4, <1>5, <2>2 DEF RInv, Said
  <2>3. ASSUME NEW u \in Handle, NEW i \in DOMAIN results'[u], NEW l, l = <<u, i>>
        PROVE  /\ results'[u][i] = "delivered" => MessageOf(l)' /\ l \in receipts'
               /\ results'[u][i] = "pending" => l \in staged'
    <3>0. results'[u] \in Seq(LineStatus) /\ i \in Nat /\ l \in LineId
      <4>1. results'[u] \in Seq(LineStatus)
        BY DEF Typed, ResultsTyped
      <4> QED  BY <2>3, <4>1 DEF LineId
    <3>1. CASE i \in DOMAIN results[u]
      <4>1. results'[u][i] = results[u][i]
        BY <1>2, <1>o, <3>1
      <4>2. HasResult(l, results[u][i])
        BY <2>3, <3>1 DEF HasResult
      <4>3. /\ results[u][i] = "delivered" => MessageOf(l) /\ l \in receipts
            /\ results[u][i] = "pending" => l \in staged
        BY <2>3, <3>1 DEF RInv, Said
      <4> QED  BY <1>0, <1>4, <3>0, <4>1, <4>2, <4>3
    <3>2. CASE i \notin DOMAIN results[u]
      <4>1. u = h /\ i = Current(h) /\ l = id
        BY <1>2, <1>o, <2>3, <3>2 DEF ThisId
      <4>2. PICK st \in LineStatus : /\ results'[h] = Append(results[h], st)
                                     /\ st = "delivered" => id \in receipts'
                                     /\ st = "pending" => id \in staged'
        BY <2>3, <3>2, <4>1 DEF Accounts
      <4>3. results'[h][i] = st
        BY <1>0, <4>1, <4>2
      <4>4. results'[h][i] = "delivered" => HasResult(l, "delivered")'
        BY <2>3, <4>1 DEF HasResult
      <4> QED  BY <1>1, <4>1, <4>2, <4>3, <4>4
    <3> QED  BY <3>1, <3>2
  <2> QED  BY <2>1, <2>2, <2>3 DEF Said, HasResult, MessageOf
<1>10. Confirming'
  <2> SUFFICES ASSUME NEW c \in Confirmer
               PROVE  /\ pc'[c] # "new" => stream'[c] = stream'[wants'[c][1]]
                      /\ pc'[c] = "returned" => wants'[c] \in confirmed'
                      /\ pc'[c] = "confirming" => ledgerLock' = c /\ wants'[c] \notin confirmed'
    BY DEF Confirming
  <2>1. pc'[c] = pc[c] /\ stream'[c] = stream[c] /\ wants'[c] = wants[c]
    BY <1>0 DEF OthersStay
  <2>2. pc[c] # "new" => stream'[wants[c][1]] = stream[wants[c][1]]
    <3> SUFFICES ASSUME pc[c] # "new" PROVE stream'[wants[c][1]] = stream[wants[c][1]]
      OBVIOUS
    <3>1. wants[c] \in LineId /\ HasResult(wants[c], "pending")
      BY <1>5 DEF Typed, WantsStaged
    <3>2. wants[c][1] \in Handle /\ pc[wants[c][1]] # "new"
      BY <3>1, ResultsOfStarted
    <3> QED  BY <1>o, <3>2 DEF Accounts
  <2> QED  BY <1>0, <2>1, <2>2 DEF RInv, Confirming
<1> QED  BY <1>6, <1>7, <1>8, <1>9, <1>10 DEF RInv

LEMMA HandleAccounts ==
  ASSUME Typed, RInv, Typed', NEW h \in Handle,
         HandleStep(h) \/ \E st \in Stimuli : Plan(h, st)
  PROVE  RInv'
<1> USE HandleIsTask DEF lockVars, callVars, turnVars, ledgerVars
<1>0. /\ OthersStay(h) /\ Adds(h) /\ LogGrows /\ h \in Task /\ stream[h] \in Stream
      /\ ThisId(h) \in LineId /\ ThisId(h) = <<h, Current(h)>> /\ Current(h) \in Nat
      /\ results[h] \in Seq(LineStatus) /\ Current(h) = Len(results[h]) + 1
      /\ pc \in [Task -> Points]
  BY HandleOthersStay, HandleAdds, AddsToLog, CurrentType
     DEF Typed, CallTyped, ResultsTyped, PcTyped, ThisId, Current
<1>1. \A l \in staged : HasResult(l, "pending") /\ l \in LineId
  BY DEF RInv, StagedOnly, Typed, LedgerTyped
\* The line at hand has no result, and so nothing was said of it.
<1>2. \A l : l = ThisId(h) => l \notin staged /\ ~(l[2] \in DOMAIN results[h])
  BY <1>0, <1>1 DEF HasResult
\* A step that ends no line.
<1>3. ASSUME results' = results, staged' = staged, receipts' = receipts,
             confirmed' = confirmed, ledgerLock' = ledgerLock, wants' = wants,
             stream' = stream \/ pc[h] = "new", pc'[h] \notin {"new", "append"},
             Sending(h) => Sending(h)',
             \A s \in Stream : \A k \in DOMAIN log'[s] :
               k \in DOMAIN log[s] \/ log'[s][k].kind # "message"
      PROVE  RInv'
  <2>1. Accounts(h)
    BY <1>0, <1>3 DEF Accounts
  <2>2. \A l : l = ThisId(h) =>
          /\ ~HasResult(l, "delivered")' /\ l \notin staged' /\ Current(h)' = Current(h)
    BY <1>0, <1>2, <1>3 DEF HasResult, Current
  <2> QED  BY <1>3, <2>1, <2>2, AccountsKeepRInv
<1>4. CASE \/ \E st \in Stimuli : Plan(h, st)
           \/ Call(h) \/ Cancel(h) \/ Admit(h) \/ \E sc \in Scripts : Direct(h, sc)
           \/ Brief(h) \/ (\E o \in Outcomes : Act(h, o)) \/ Close(h) \/ Raise(h)
  <2>1. /\ results' = results /\ staged' = staged /\ receipts' = receipts
        /\ confirmed' = confirmed /\ ledgerLock' = ledgerLock /\ wants' = wants
        /\ log' = log
        /\ stream' = stream \/ pc[h] = "new"
    BY <1>4 DEF Plan, Call, Cancel, Admit, Direct, Brief, Act, Close, Raise
  <2>2. pc'[h] \notin {"new", "append"}
    BY <1>0, <1>4 DEF Plan, Call, Cancel, Admit, Direct, Brief, Act, Close, Raise,
       Leave, Goto
  <2>3. Sending(h) => Sending(h)'
    BY <1>0, <1>4 DEF Plan, Call, Cancel, Admit, Direct, Brief, Act, Close, Raise,
       Leave, Goto, Entered, Sending, Ended
  <2> QED  BY <1>3, <2>1, <2>2, <2>3
<1>5. CASE RecordInbound(h) \/ RecordAction(h)
  <2>1. /\ results' = results /\ staged' = staged /\ receipts' = receipts
        /\ confirmed' = confirmed /\ ledgerLock' = ledgerLock /\ wants' = wants
        /\ stream' = stream
    BY <1>5 DEF RecordInbound, RecordAction
  <2>2. pc[h] \in {"inbound", "record"} /\ pc'[h] \in {"direct", "record"}
    BY <1>0, <1>5 DEF RecordInbound, RecordAction, Goto
  <2>3. log' = log \/ \E e \in LogEvent : e.kind # "message" /\ Record(stream[h], e)
    <3>1. todo[h] + 1 \in Nat
      BY DEF Typed, TurnTyped
    <3>2. /\ [kind |-> "inbound", by |-> h, line |-> <<h, 0>>, item |-> 0] \in LogEvent
          /\ [kind |-> "action", by |-> h, line |-> ThisId(h), item |-> todo[h] + 1] \in LogEvent
      BY <1>0, <3>1 DEF LogEvent, LineId
    <3> QED  BY <1>5, <3>2 DEF RecordInbound, RecordAction
  <2>4. \A s \in Stream : \A k \in DOMAIN log'[s] :
          k \in DOMAIN log[s] \/ log'[s][k].kind # "message"
    BY <1>0, <2>3, Recorded DEF Typed
  <2>5. ~Sending(h)
    BY <2>2 DEF Sending, Ended
  <2> QED  BY <1>3, <2>1, <2>2, <2>4, <2>5
<1>6. CASE Deliver(h)
  <2>1. /\ results' = results /\ staged' = staged /\ receipts' = receipts \cup {ThisId(h)}
        /\ confirmed' = confirmed /\ ledgerLock' = ledgerLock /\ wants' = wants
        /\ log' = log /\ stream' = stream /\ pc'[h] = "append"
    BY <1>0, <1>6 DEF Deliver, Goto
  <2>2. Accounts(h)
    BY <1>0, <2>1 DEF Accounts
  <2>3. \A l : l = ThisId(h) =>
          /\ ~HasResult(l, "delivered")' /\ l \notin staged' /\ Current(h)' = Current(h)
    BY <1>0, <1>2, <2>1 DEF HasResult, Current
  <2>4. Sending(h)'
    BY <2>1 DEF Sending
  <2> QED  BY <2>1, <2>2, <2>3, <2>4, AccountsKeepRInv
<1>7. ASSUME NEW st \in LineStatus, EndLine(h, st), pc[h] \in {"brief", "record", "append"}
      PROVE  /\ results'[h] = Append(results[h], st) /\ pc'[h] \in {"brief", "close"}
             /\ \A l, ss : l = ThisId(h) => (HasResult(l, ss)' <=> ss = st)
             /\ Sending(h) => pc[h] = "append"
  <2>1. results'[h] = Append(results[h], st) /\ pc'[h] \in {"brief", "close"}
    BY <1>7, EndLineMoves
  <2>2. Current(h) \in DOMAIN results'[h] /\ results'[h][Current(h)] = st
    BY <1>0, <2>1
  <2> QED  BY <1>0, <1>7, <2>1, <2>2 DEF HasResult, Sending, Ended
<1>8. CASE UnknownSpeaker(h) \/ KeepQuiet(h) \/ DeliveryFails(h)
  <2>1. PICK st \in LineStatus : EndLine(h, st) /\ st \notin {"delivered", "pending"}
    BY <1>8 DEF UnknownSpeaker, KeepQuiet, DeliveryFails, LineStatus
  <2>2. /\ staged' = staged /\ receipts' = receipts /\ log' = log
        /\ confirmed' = confirmed /\ ledgerLock' = ledgerLock /\ wants' = wants
        /\ stream' = stream /\ pc[h] \in {"brief", "record"}
    BY <1>8 DEF UnknownSpeaker, KeepQuiet, DeliveryFails, Judged
  <2>3. /\ results'[h] = Append(results[h], st) /\ pc'[h] \in {"brief", "close"}
        /\ \A l, ss : l = ThisId(h) => (HasResult(l, ss)' <=> ss = st)
        /\ ~Sending(h)
    BY <1>7, <2>1, <2>2
  <2>4. Accounts(h)
    BY <1>0, <2>1, <2>2, <2>3 DEF Accounts
  <2> QED  BY <1>2, <2>1, <2>2, <2>3, <2>4, AccountsKeepRInv
<1>9. CASE Stage(h)
  <2>1. /\ staged' = staged \cup {ThisId(h)} /\ receipts' = receipts /\ log' = log
        /\ confirmed' = confirmed /\ ledgerLock' = ledgerLock /\ wants' = wants
        /\ stream' = stream /\ pc[h] = "record" /\ EndLine(h, "pending")
        /\ "pending" \in LineStatus
    BY <1>9 DEF Stage, Judged, LineStatus
  <2>2. /\ results'[h] = Append(results[h], "pending") /\ pc'[h] \in {"brief", "close"}
        /\ \A l, ss : l = ThisId(h) => (HasResult(l, ss)' <=> ss = "pending")
        /\ ~Sending(h)
    BY <1>7, <2>1
  <2>3. Accounts(h)
    BY <1>0, <2>1, <2>2 DEF Accounts
  <2> QED  BY <2>1, <2>2, <2>3, AccountsKeepRInv
<1>10. CASE AppendMessage(h)
  <2>1. /\ staged' = staged /\ receipts' = receipts
        /\ confirmed' = confirmed /\ ledgerLock' = ledgerLock /\ wants' = wants
        /\ stream' = stream /\ pc[h] = "append" /\ EndLine(h, "delivered")
        /\ "delivered" \in LineStatus
    BY <1>10 DEF AppendMessage, LineStatus
  <2>2. /\ results'[h] = Append(results[h], "delivered") /\ pc'[h] \in {"brief", "close"}
        /\ \A l, ss : l = ThisId(h) => (HasResult(l, ss)' <=> ss = "delivered")
    BY <1>7, <2>1
  <2>3. Accounts(h)
    BY <1>0, <2>1, <2>2 DEF Accounts, RInv, Sent
  <2>4. PICK e \in LogEvent : /\ e.kind = "message" /\ e.line = ThisId(h)
                              /\ Record(stream[h], e)
    <3>1. [kind |-> "message", by |-> h, line |-> ThisId(h), item |-> 0] \in LogEvent
      BY <1>0 DEF LogEvent
    <3> QED  BY <1>10, <3>1 DEF AppendMessage
  <2>5. \A s \in Stream : \A k \in DOMAIN log'[s] :
          k \in DOMAIN log[s] \/ log'[s][k].line = ThisId(h)
    BY <1>0, <2>4, Recorded DEF Typed
  <2>6. \E k \in DOMAIN log'[stream[h]] : log'[stream[h]][k] = e
    BY <1>0, <2>4, Recorded DEF Typed
  <2>7. ASSUME NEW l, l = ThisId(h) PROVE MessageOf(l)'
    <3>1. PICK k \in DOMAIN log'[stream[h]] : log'[stream[h]][k] = e
      BY <2>6
    <3>2. l[1] = h /\ stream'[l[1]] = stream[h]
      BY <1>0, <2>1, <2>7
    <3>3. e.kind = "message" /\ e.line = l
      BY <2>4, <2>7
    <3> QED  BY <3>1, <3>2, <3>3 DEF MessageOf
  <2>8. ASSUME NEW l, l = ThisId(h)
        PROVE  /\ HasResult(l, "delivered")' => MessageOf(l)'
               /\ l \in staged' => HasResult(l, "pending")'
               /\ Sending(h) => HasResult(l, "delivered")' \/ (Sending(h)' /\ Current(h)' = Current(h))
               /\ \A s \in Stream : \A k \in DOMAIN log'[s] :
                    \/ k \in DOMAIN log[s]
                    \/ log'[s][k].kind # "message"
                    \/ log'[s][k].line = l /\ HasResult(l, "delivered")'
    <3>1. HasResult(l, "delivered")'
      BY <2>2, <2>8
    <3>2. l \notin staged'
      BY <1>2, <2>1, <2>8
    <3>3. MessageOf(l)'
      BY <2>7, <2>8
    <3>4. \A s \in Stream : \A k \in DOMAIN log'[s] :
            k \in DOMAIN log[s] \/ log'[s][k].line = l
      BY <2>5, <2>8
    <3> QED  BY <3>1, <3>2, <3>3, <3>4
  <2> QED  BY <2>3, <2>8, AccountsKeepRInv
<1> QED
  BY <1>4, <1>5, <1>6, <1>8, <1>9, <1>10 DEF HandleStep

LEMMA ConfirmAccounts ==
  ASSUME Typed, RInv, Typed', NEW c \in Confirmer,
         ConfirmStep(c) \/ \E l \in staged : GetPending(c, l)
  PROVE  RInv'
<1> USE HandleIsTask
<1>0. /\ OthersStay(c) /\ Adds(c) /\ LogGrows /\ c \in Task /\ stream[c] \in Stream
      /\ c \notin Handle /\ c # NoTask /\ pc \in [Task -> Points]
  BY ConfirmOthersStay, ConfirmAdds, AddsToLog, TaskAssumption
     DEF Typed, CallTyped, PcTyped
<1>1. /\ results' = results /\ staged' = staged /\ receipts' = receipts
  BY DEF ConfirmStep, ConfirmAgain, BeginConfirm, FinishConfirm, FailConfirm, GetPending,
     ledgerVars
<1>2. \A h \in Handle : pc'[h] = pc[h] /\ stream'[h] = stream[h]
  BY <1>0 DEF OthersStay
<1>3. \A l \in staged : l \in LineId /\ l[1] \in Handle
  BY DEF Typed, LedgerTyped, LineId
<1>4. confirmed' = confirmed \/ (FinishConfirm(c) /\ confirmed' = confirmed \cup {wants[c]})
  BY DEF ConfirmStep, ConfirmAgain, BeginConfirm, FinishConfirm, FailConfirm, GetPending,
     ledgerVars
<1>5. ASSUME FinishConfirm(c)
      PROVE  /\ wants[c] \in staged /\ MessageOf(wants[c])'
             /\ \A s \in Stream : \A k \in DOMAIN log'[s] :
                  k \in DOMAIN log[s] \/ log'[s][k].line = wants[c]
  <2>1. wants[c] \in staged /\ stream[c] = stream[wants[c][1]]
    BY <1>5 DEF FinishConfirm, Typed, WantsStaged, RInv, Confirming
  <2>2. PICK e \in LogEvent : /\ e.kind = "message" /\ e.line = wants[c]
                              /\ Record(stream[c], e)
    <3>1. [kind |-> "message", by |-> c, line |-> wants[c], item |-> 0] \in LogEvent
      BY <1>0, <1>3, <2>1 DEF LogEvent
    <3> QED  BY <1>5, <3>1 DEF FinishConfirm
  <2>3. \A s \in Stream : \A k \in DOMAIN log'[s] :
          k \in DOMAIN log[s] \/ log'[s][k].line = wants[c]
    BY <1>0, <2>2, Recorded DEF Typed
  <2>4. \E k \in DOMAIN log'[stream[c]] : log'[stream[c]][k] = e
    BY <1>0, <2>2, Recorded DEF Typed
  <2>5. stream'[wants[c][1]] = stream[c] /\ wants' = wants
    BY <1>2, <1>3, <1>5, <2>1 DEF FinishConfirm
  <2>6. \A l : l = wants[c] => MessageOf(l)'
    BY <2>2, <2>4, <2>5 DEF MessageOf
  <2>7. MessageOf(wants[c])'
    BY <2>2, <2>4, <2>5 DEF MessageOf
  <2> QED  BY <2>1, <2>3, <2>7
<1>6. Unstarted' /\ Sent' /\ StagedOnly'
  <2>1. \A h \in Handle : Current(h)' = Current(h) /\ ThisId(h)' = ThisId(h)
    BY <1>1 DEF Current, ThisId
  <2>2. Unstarted'
    BY <1>1, <1>2 DEF RInv, Unstarted
  <2>3. StagedOnly'
    BY <1>1 DEF RInv, StagedOnly, HasResult
  <2>4. \A l \in receipts : l[1] \in Handle
    BY DEF Typed, LedgerTyped, LineId
  <2>5. Sent'
    BY <1>1, <1>2, <2>4 DEF RInv, Sent, Sending, HasResult, Current, ThisId
  <2> QED  BY <2>2, <2>3, <2>5
<1>7. Said'
  <2>1. ASSUME NEW s \in Stream, NEW k \in DOMAIN log'[s], log'[s][k].kind = "message",
               NEW l, l = log'[s][k].line
        PROVE  HasResult(l, "delivered") \/ l \in confirmed'
    <3>1. CASE k \in DOMAIN log[s]
      <4>1. log'[s][k] = log[s][k]
        BY <1>0, <3>1 DEF LogGrows
      <4> QED  BY <1>4, <2>1, <3>1, <4>1 DEF RInv, Said
    <3>2. CASE k \notin DOMAIN log[s]
      <4>1. FinishConfirm(c)
        <5>1. log' # log
          BY <2>1, <3>2
        <5> QED
          BY <5>1 DEF ConfirmStep, ConfirmAgain, BeginConfirm, FailConfirm, GetPending
      <4>2. l = wants[c]
        BY <1>5, <2>1, <3>2, <4>1
      <4> QED  BY <4>1, <4>2 DEF FinishConfirm
    <3> QED  BY <3>1, <3>2
  <2>2. ASSUME NEW l \in LineId, MessageOf(l) PROVE MessageOf(l)'
    <3>1. stream'[l[1]] = stream[l[1]]
      BY <1>2 DEF LineId
    <3> QED  BY <1>0, <2>2, <3>1, MessageStays
  <2>3. ASSUME NEW l \in confirmed' PROVE MessageOf(l)'
    <3>1. CASE l \in confirmed
      BY <2>2, <3>1 DEF RInv, Said, Typed, LedgerTyped
    <3>2. CASE l \notin confirmed
      <4>1. FinishConfirm(c) /\ l = wants[c] /\ wants' = wants
        BY <1>4, <2>3, <3>2 DEF FinishConfirm
      <4> QED  BY <1>5, <4>1 DEF MessageOf
    <3> QED  BY <3>1, <3>2
  <2>4. ASSUME NEW h \in Handle, NEW i \in DOMAIN results[h], NEW l, l = <<h, i>>
        PROVE  /\ results[h][i] = "delivered" => MessageOf(l)' /\ l \in receipts
               /\ results[h][i] = "pending" => l \in staged
    <3>1. l \in LineId
      <4>1. results[h] \in Seq(LineStatus)
        BY DEF Typed, ResultsTyped
      <4> QED  BY <2>4, <4>1 DEF LineId
    <3> QED  BY <2>2, <2>4, <3>1 DEF RInv, Said
  <2> QED  BY <1>1, <2>1, <2>3, <2>4 DEF Said, HasResult, MessageOf
<1>8. Confirming'
  <2>1. ASSUME NEW d \in Confirmer, d # c
        PROVE  /\ pc'[d] # "new" => stream'[d] = stream'[wants'[d][1]]
               /\ pc'[d] = "returned" => wants'[d] \in confirmed'
               /\ pc'[d] = "confirming" => ledgerLock' = d /\ wants'[d] \notin confirmed'
    <3>1. pc'[d] = pc[d] /\ stream'[d] = stream[d]
      BY <1>0, <2>1 DEF OthersStay
    <3>2. wants'[d] = wants[d]
      BY <2>1 DEF ConfirmStep, ConfirmAgain, BeginConfirm, FinishConfirm, FailConfirm,
         GetPending, ledgerVars, Typed, LedgerTyped
    <3>3. pc[d] # "new" => wants[d] \in staged /\ stream[d] = stream[wants[d][1]]
      BY DEF Typed, WantsStaged, RInv, Confirming
    <3>4. pc[d] = "returned" => wants[d] \in confirmed
      BY DEF RInv, Confirming
    <3>5. pc[d] = "confirming" => /\ ledgerLock = d /\ ledgerLock' = ledgerLock
                                  /\ confirmed' = confirmed /\ wants[d] \notin confirmed
      <4>1. pc[d] = "confirming" => ledgerLock = d /\ wants[d] \notin confirmed
        BY DEF RInv, Confirming
      <4>2. ledgerLock = d => ledgerLock # NoTask /\ pc[c] # "confirming"
        BY <2>1, TaskAssumption DEF RInv, Confirming
      <4> QED
        BY <4>1, <4>2 DEF ConfirmStep, ConfirmAgain, BeginConfirm, FinishConfirm,
           FailConfirm, GetPending, ledgerVars
    <3> QED  BY <1>2, <1>3, <1>4, <3>1, <3>2, <3>3, <3>4, <3>5
  <2>2. /\ pc'[c] # "new" => stream'[c] = stream'[wants'[c][1]]
        /\ pc'[c] = "returned" => wants'[c] \in confirmed'
        /\ pc'[c] = "confirming" => ledgerLock' = c /\ wants'[c] \notin confirmed'
    <3>1. ASSUME NEW l \in staged, GetPending(c, l)
          PROVE  pc'[c] = "entry" /\ stream'[c] = stream'[wants'[c][1]]
      BY <1>0, <1>2, <1>3, <3>1 DEF GetPending, Goto, Typed, CallTyped, LedgerTyped
    <3>2. ASSUME ConfirmStep(c)
          PROVE  stream'[c] = stream'[wants'[c][1]]
      <4>1. pc[c] # "new" /\ stream' = stream /\ wants' = wants
        BY <3>2 DEF ConfirmStep, ConfirmAgain, BeginConfirm, FinishConfirm, FailConfirm,
           Entered, ledgerVars, callVars
      <4> QED  BY <4>1 DEF RInv, Confirming
    <3>3. ASSUME ConfirmAgain(c) PROVE pc'[c] = "returned" /\ wants'[c] \in confirmed'
      BY <1>0, <3>3 DEF ConfirmAgain, Goto, ledgerVars
    <3>4. ASSUME BeginConfirm(c)
          PROVE  pc'[c] = "confirming" /\ ledgerLock' = c /\ wants'[c] \notin confirmed'
      BY <1>0, <3>4 DEF BeginConfirm, Goto
    <3>5. ASSUME FinishConfirm(c) PROVE pc'[c] = "returned" /\ wants'[c] \in confirmed'
      BY <1>0, <3>5 DEF FinishConfirm, Goto
    <3>6. ASSUME FailConfirm(c) PROVE pc'[c] = "raised"
      BY <1>0, <3>6 DEF FailConfirm, Goto
    <3> QED  BY <3>1, <3>2, <3>3, <3>4, <3>5, <3>6 DEF ConfirmStep
  <2> QED  BY <2>1, <2>2 DEF Confirming
<1> QED  BY <1>6, <1>7, <1>8 DEF RInv

LEMMA DispatchAccounts ==
  ASSUME Typed, RInv, NEW l \in staged, Dispatch(l)
  PROVE  RInv'
<1>1. /\ UNCHANGED <<pc, stream, results, log, staged, confirmed, ledgerLock, wants>>
      /\ receipts' = receipts \cup {l}
  BY DEF Dispatch, callVars, turnVars, ledgerVars
<1>2. Unstarted' /\ StagedOnly' /\ Confirming'
  BY <1>1 DEF RInv, Unstarted, StagedOnly, Confirming, HasResult
<1>3. Sent'
  BY <1>1 DEF RInv, Sent, HasResult, Sending, Current, ThisId
<1>4. Said'
  BY <1>1 DEF RInv, Said, HasResult, MessageOf
<1> QED  BY <1>2, <1>3, <1>4 DEF RInv

LEMMA NextRInv == Typed /\ RInv /\ [Next]_vars => RInv'
<1> SUFFICES ASSUME Typed, RInv, [Next]_vars PROVE RInv'
  OBVIOUS
<1>1. Typed'
  BY NextTyped
<1>2. CASE Rest \/ UNCHANGED vars
  <2>1. /\ pc' = pc /\ stream' = stream /\ results' = results /\ log' = log
        /\ receipts' = receipts /\ staged' = staged /\ confirmed' = confirmed
        /\ ledgerLock' = ledgerLock /\ wants' = wants
    BY <1>2 DEF Rest, vars
  <2>2. Unstarted' /\ StagedOnly' /\ Confirming'
    BY <2>1 DEF RInv, Unstarted, StagedOnly, Confirming, HasResult
  <2>3. Sent'
    BY <2>1 DEF RInv, Sent, HasResult, Sending, Current, ThisId
  <2>4. Said'
    BY <2>1 DEF RInv, Said, HasResult, MessageOf
  <2> QED  BY <2>2, <2>3, <2>4 DEF RInv
<1> QED  BY <1>1, <1>2, HandleAccounts, ConfirmAccounts, DispatchAccounts DEF Next

LEMMA InitRInv == Init => RInv
<1> SUFFICES ASSUME Init PROVE RInv
  OBVIOUS
<1>1. /\ \A s \in Stream : DOMAIN log[s] = {}
      /\ \A h \in Handle : results[h] = <<>> /\ DOMAIN results[h] = {}
      /\ \A t \in Task : pc[t] = "new"
      /\ receipts = {} /\ staged = {} /\ confirmed = {}
  BY DEF Init
<1> QED
  BY <1>1, HandleIsTask DEF RInv, Unstarted, Sent, StagedOnly, Said, Confirming

LEMMA AlwaysRInv == Spec => [](Typed /\ RInv)
  BY InitTyped, NextTyped, InitRInv, NextRInv, PTL DEF Spec

LEMMA RInvTellsTheTruth == Typed /\ RInv => ResultsTellTheTruth
<1> SUFFICES ASSUME Typed, RInv PROVE ResultsTellTheTruth
  OBVIOUS
<1>1. ASSUME NEW h \in Handle, NEW i \in DOMAIN results[h],
             results[h][i] \notin {"delivered", "pending"}, NEW l, l = <<h, i>>
      PROVE  l \notin receipts \cup staged /\ ~MessageOf(l)
  <2>1. /\ \A st : HasResult(l, st) => st \notin {"delivered", "pending"}
        /\ l[1] = h /\ l[2] = i
    BY <1>1 DEF HasResult
  <2>2. i # Current(h)
    <3>1. results[h] \in Seq(LineStatus)
      BY DEF Typed, ResultsTyped
    <3> QED  BY <3>1 DEF Current
  <2>3. l \notin staged
    BY <2>1 DEF RInv, StagedOnly
  <2>4. l \notin receipts
    BY <2>1, <2>2, <2>3 DEF RInv, Sent
  <2>5. l \notin confirmed
    BY <2>3 DEF Typed, LedgerTyped
  <2>6. stream[h] \in Stream
    BY HandleIsTask DEF Typed, CallTyped
  <2>7. ~MessageOf(l)
    BY <2>1, <2>5, <2>6 DEF RInv, Said, MessageOf
  <2> QED  BY <2>3, <2>4, <2>7
<1>2. ASSUME NEW h \in Handle, NEW i \in DOMAIN results[h]
      PROVE  /\ results[h][i] = "delivered" => MessageOf(<<h, i>>) /\ <<h, i>> \in receipts
             /\ results[h][i] = "pending" => <<h, i>> \in staged
  BY <1>2 DEF RInv, Said
<1>3. \A c \in Confirmer : pc[c] = "returned" => MessageOf(wants[c])
  BY DEF RInv, Said, Confirming
<1>4. ASSUME NEW h \in Handle, NEW i \in DOMAIN results[h]
      PROVE  CASE results[h][i] = "delivered" ->
                    MessageOf(<<h, i>>) /\ <<h, i>> \in receipts
               [] results[h][i] = "pending" -> <<h, i>> \in staged
               [] OTHER -> /\ <<h, i>> \notin receipts \cup staged
                           /\ ~MessageOf(<<h, i>>)
  BY <1>1, <1>2, <1>4
<1> QED  BY <1>3, <1>4 DEF ResultsTellTheTruth

\* What the ActivationResult says of each line is what happened to its prose, and
\* a confirmation that returned left its message in the log, for any cast of
\* lines, any number of confirmations of the same id, exceptions anywhere and a
\* ledger that keeps what was staged.
THEOREM ResultsAreTrue == Spec => []ResultsTellTheTruth
  BY AlwaysRInv, RInvTellsTheTruth, PTL

-----------------------------------------------------------------------------
(***************************************************************************)
(* The engine implements ConfirmedHistory.                                 *)
(***************************************************************************)
\* An append of a message whose line was sent and has no message yet.
LEMMA AppendIsRecord ==
  ASSUME Typed, RInv, NEW s \in Stream, NEW e \in LogEvent, Record(s, e),
         e.kind = "message", e.line \in receipts, UNCHANGED receipts,
         ~HasResult(e.line, "delivered"), e.line \notin confirmed
  PROVE  Abstract!Record
<1> DEFINE n == Len(log[s]) + 1
           m == [at |-> <<s, n>>, what |-> e.line]
<1>1. /\ \A u \in Stream \ {s} : log'[u] = log[u]
      /\ \A k \in DOMAIN log[s] : log'[s][k] = log[s][k]
      /\ n \notin DOMAIN log[s] /\ n \in Nat
      /\ DOMAIN log'[s] = DOMAIN log[s] \cup {n} /\ log'[s][n] = e
  BY Recorded DEF Typed
<1> HIDE DEF n
<1>2. \A u \in Stream : \A k \in DOMAIN log[u] :
        log[u][k].kind = "message" => log[u][k].line # e.line
  BY DEF RInv, Said
<1>3. \A f \in Messages : \E u \in Stream : \E k \in DOMAIN log[u] :
        log[u][k].kind = "message" /\ f = [at |-> <<u, k>>, what |-> log[u][k].line]
  BY DEF Messages
<1>4. \A f \in Messages : f.what # e.line /\ f.at # <<s, n>>
  BY <1>1, <1>2, <1>3
<1>5. Messages' = Messages \cup {m}
  <2>1. ASSUME NEW f \in Messages' PROVE f \in Messages \cup {m}
    <3>1. PICK u \in Stream : \E k \in DOMAIN log'[u] :
            /\ log'[u][k].kind = "message"
            /\ f = [at |-> <<u, k>>, what |-> log'[u][k].line]
      BY <2>1 DEF Messages
    <3>2. PICK k \in DOMAIN log'[u] :
            /\ log'[u][k].kind = "message"
            /\ f = [at |-> <<u, k>>, what |-> log'[u][k].line]
      BY <3>1
    <3>3. CASE u = s /\ k = n
      BY <1>1, <3>2, <3>3
    <3>4. CASE ~(u = s /\ k = n)
      <4>1. k \in DOMAIN log[u] /\ log'[u][k] = log[u][k]
        BY <1>1, <3>2, <3>4
      <4> QED  BY <3>2, <4>1 DEF Messages
    <3> QED  BY <3>3, <3>4
  <2>2. ASSUME NEW f \in Messages PROVE f \in Messages'
    <3>1. PICK u \in Stream : \E k \in DOMAIN log[u] :
            log[u][k].kind = "message" /\ f = [at |-> <<u, k>>, what |-> log[u][k].line]
      BY <1>3, <2>2
    <3>2. PICK k \in DOMAIN log[u] :
            log[u][k].kind = "message" /\ f = [at |-> <<u, k>>, what |-> log[u][k].line]
      BY <3>1
    <3>3. k \in DOMAIN log'[u] /\ log'[u][k] = log[u][k]
      BY <1>1, <3>2
    <3> QED  BY <3>2, <3>3 DEF Messages
  <2>3. m \in Messages'
    BY <1>1 DEF Messages
  <2> QED  BY <2>1, <2>2, <2>3
<1>6. m \in [at : Stream \X Nat, what : LineId]
  BY <1>1 DEF LogEvent
<1>7. m \in Messages' \ Messages
  BY <1>4, <1>5
<1> QED  BY <1>4, <1>5, <1>6, <1>7 DEF Abstract!Record

LEMMA InitImplements == Init => Abstract!Init
<1> SUFFICES ASSUME Init PROVE Abstract!Init
  OBVIOUS
<1>1. \A s \in Stream : DOMAIN log[s] = {}
  BY DEF Init
<1>2. Messages = {}
  BY <1>1 DEF Messages
<1> QED  BY <1>2 DEF Init, Abstract!Init

LEMMA HandleImplements ==
  ASSUME Typed, RInv, Typed', NEW h \in Handle,
         HandleStep(h) \/ \E st \in Stimuli : Plan(h, st)
  PROVE  [Abstract!Next]_(Abstract!vars)
<1> USE DEF lockVars, callVars, turnVars, ledgerVars
<1>0. /\ h \in Task /\ stream[h] \in Stream /\ ThisId(h) \in LineId
      /\ ThisId(h) = <<h, Current(h)>> /\ todo[h] + 1 \in Nat
      /\ results[h] \in Seq(LineStatus) /\ Current(h) = Len(results[h]) + 1
  <2>1. ThisId(h) \in LineId
    BY CurrentType DEF Typed
  <2>2. h \in Task /\ stream[h] \in Stream
    BY HandleIsTask DEF Typed, CallTyped
  <2>3. todo[h] + 1 \in Nat
    BY DEF Typed, TurnTyped
  <2>4. results[h] \in Seq(LineStatus)
    BY DEF Typed, ResultsTyped
  <2> QED  BY <2>1, <2>2, <2>3, <2>4 DEF ThisId, Current
<1>1. CASE AppendMessage(h)
  <2>1. PICK e \in LogEvent : e.kind = "message" /\ e.line = ThisId(h) /\ Record(stream[h], e)
    <3>1. [kind |-> "message", by |-> h, line |-> ThisId(h), item |-> 0] \in LogEvent
      BY <1>0 DEF LogEvent
    <3> QED  BY <1>1, <3>1 DEF AppendMessage
  <2>2. e.line \in receipts /\ receipts' = receipts
    BY <1>1, <2>1 DEF AppendMessage, RInv, Sent
  <2>3. \A st : ~HasResult(e.line, st)
    BY <1>0, <2>1 DEF HasResult
  <2>4. e.line \notin confirmed
    BY <2>3 DEF RInv, StagedOnly, Typed, LedgerTyped
  <2> QED  BY <1>0, <2>1, <2>2, <2>3, <2>4, AppendIsRecord DEF Abstract!Next
<1>2. CASE RecordInbound(h) \/ RecordAction(h)
  <2>1. log' = log \/ \E e \in LogEvent : e.kind # "message" /\ Record(stream[h], e)
    <3>1. /\ [kind |-> "inbound", by |-> h, line |-> <<h, 0>>, item |-> 0] \in LogEvent
          /\ [kind |-> "action", by |-> h, line |-> ThisId(h), item |-> todo[h] + 1] \in LogEvent
      BY <1>0 DEF LogEvent, LineId
    <3> QED  BY <1>2, <3>1 DEF RecordInbound, RecordAction
  <2>2. Messages' = Messages
    <3>1. CASE log' = log
      BY <3>1 DEF Messages
    <3>2. ASSUME NEW e \in LogEvent, e.kind # "message", Record(stream[h], e)
          PROVE  Messages' = Messages
      <4>1. ASSUME NEW s \in Stream
            PROVE  {j \in DOMAIN log'[s] : log'[s][j].kind = "message"}
                     = {j \in DOMAIN log[s] : log[s][j].kind = "message"}
        BY <1>0, <3>2, Recorded DEF Typed
      <4>2. ASSUME NEW s \in Stream
            PROVE  {[at |-> <<s, k>>, what |-> log'[s][k].line] :
                      k \in {j \in DOMAIN log'[s] : log'[s][j].kind = "message"}}
                     = {[at |-> <<s, k>>, what |-> log[s][k].line] :
                          k \in {j \in DOMAIN log[s] : log[s][j].kind = "message"}}
        <5>1. \A k \in DOMAIN log[s] : log'[s][k] = log[s][k]
          BY <1>0, <3>2, Recorded DEF Typed
        <5> QED  BY <4>1, <5>1
      <4> QED  BY <4>2 DEF Messages
    <3> QED  BY <2>1, <3>1, <3>2
  <2>3. receipts' = receipts
    BY <1>2 DEF RecordInbound, RecordAction
  <2> QED  BY <2>2, <2>3 DEF Abstract!vars
<1>3. CASE ~(AppendMessage(h) \/ RecordInbound(h) \/ RecordAction(h))
  <2>1. log' = log /\ receipts \subseteq receipts'
    BY <1>3 DEF HandleStep, Plan, Call, Cancel, Admit, Direct, UnknownSpeaker, Brief, Act,
       KeepQuiet, Deliver, DeliveryFails, Stage, Close, Raise
  <2>2. Messages' = Messages
    BY <2>1 DEF Messages
  <2>3. receipts' \subseteq LineId
    BY DEF Typed, LedgerTyped
  <2> QED  BY <2>1, <2>2, <2>3 DEF Abstract!Next, Abstract!Send
<1> QED  BY <1>1, <1>2, <1>3

LEMMA ConfirmImplements ==
  ASSUME Typed, RInv, NEW c \in Confirmer,
         ConfirmStep(c) \/ \E l \in staged : GetPending(c, l)
  PROVE  [Abstract!Next]_(Abstract!vars)
<1>1. CASE FinishConfirm(c)
  <2>1. wants[c] \in staged \cap receipts /\ wants[c] \in LineId /\ wants[c] \notin confirmed
    BY <1>1 DEF FinishConfirm, Typed, WantsStaged, LedgerTyped, RInv, Confirming
  <2>2. c \in Task /\ stream[c] \in Stream
    BY HandleIsTask DEF Typed, CallTyped
  <2>3. PICK e \in LogEvent : e.kind = "message" /\ e.line = wants[c] /\ Record(stream[c], e)
    <3>1. [kind |-> "message", by |-> c, line |-> wants[c], item |-> 0] \in LogEvent
      BY <2>1, <2>2 DEF LogEvent
    <3> QED  BY <1>1, <3>1 DEF FinishConfirm
  <2>4. HasResult(e.line, "pending")
    BY <2>1, <2>3 DEF RInv, StagedOnly
  <2>5. ~HasResult(e.line, "delivered")
    BY <2>4 DEF HasResult
  <2>6. receipts' = receipts
    BY <1>1 DEF FinishConfirm
  <2> QED  BY <2>1, <2>2, <2>3, <2>5, <2>6, AppendIsRecord DEF Abstract!Next
<1>2. CASE ~FinishConfirm(c)
  <2>1. log' = log /\ receipts' = receipts
    BY <1>2 DEF ConfirmStep, ConfirmAgain, BeginConfirm, FailConfirm, GetPending
  <2>2. Messages' = Messages
    BY <2>1 DEF Messages
  <2> QED  BY <2>1, <2>2 DEF Abstract!vars
<1> QED  BY <1>1, <1>2

LEMMA NextImplements == Typed /\ RInv /\ [Next]_vars => [Abstract!Next]_(Abstract!vars)
<1> SUFFICES ASSUME Typed, RInv, [Next]_vars PROVE [Abstract!Next]_(Abstract!vars)
  OBVIOUS
<1>1. Typed'
  BY NextTyped
<1>2. ASSUME NEW l \in staged, Dispatch(l) PROVE Abstract!Send
  <2>1. log' = log /\ receipts' = receipts \cup {l} /\ receipts' \subseteq LineId
    BY <1>1, <1>2 DEF Dispatch, Typed, LedgerTyped
  <2>2. Messages' = Messages
    BY <2>1 DEF Messages
  <2> QED  BY <2>1, <2>2 DEF Abstract!Send
<1>3. CASE Rest \/ UNCHANGED vars
  <2>1. log' = log /\ receipts' = receipts
    BY <1>3 DEF Rest, vars
  <2>2. Messages' = Messages
    BY <2>1 DEF Messages
  <2> QED  BY <2>1, <2>2 DEF Abstract!vars
<1> QED
  BY <1>1, <1>2, <1>3, HandleImplements, ConfirmImplements DEF Next, Abstract!Next

\* The engine keeps the delivery contract: seen through its receipts and the
\* messages of its logs, a run of the engine is a run of ConfirmedHistory.
THEOREM EngineImplements == Spec => ImplementsContract
  BY AlwaysRInv, InitImplements, NextImplements, PTL
     DEF Spec, ImplementsContract, Abstract!Spec
=============================================================================
