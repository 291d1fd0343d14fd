------------------------------ MODULE PulseProofs ------------------------------
(***************************************************************************)
(* Proofs about Pulse, for any rhythms, workers, leases, waits and engine: *)
(* the record is honest whatever happens, outreach keeps its distance      *)
(* where firings end within their leases and no exception is lost,         *)
(* occurrences are never taken back, firings end cleanly, and a calendar   *)
(* of sparse times fires once for each.                                    *)
(*                                                                         *)
(* The first two depend on no horizon, so their values stay open there;    *)
(* the others rest on what evaluate() may answer.                          *)
(***************************************************************************)
EXTENDS Pulse, WellFoundedInduction, TLAPS

Point == {"idle", "decide", "plan", "act", "conclude"}

Busy(w) == point[w] # "idle"

\* A record of the store with its time stamps, whatever its horizon.
IsState(s) ==
  /\ s = [next |-> s.next, attempt |-> s.attempt, generated |-> s.generated,
          delivered |-> s.delivered, occurrence |-> s.occurrence]
  /\ s.attempt \in Nat /\ s.generated \in Nat /\ s.delivered \in Nat
  /\ s.delivered <= s.generated /\ s.generated <= s.attempt /\ s.attempt <= now

\* A platform took a text of w's firing.
Spoke(w) ==
  \E s \in spoken : s.key = claim[w].key /\ s.id = claim[w].id /\ s.at = claim[w].at

Shape ==
  /\ rhythm \in Rhythms
  /\ now \in Nat \ {0} /\ issued \in Nat
  /\ state = [k \in Key |-> state[k]]
  /\ \A k \in Key : IsState(state[k])
  /\ lease \in [Key -> [id : Nat, until : Nat]]
  /\ claim = [w \in Worker |-> claim[w]]
  /\ point \in [Worker -> Point]
  /\ got \in [Worker -> Result]

\* Claims were issued, in the past, for what the store held then.
Claimed ==
  \A w \in Worker : Busy(w) =>
    /\ claim[w].key \in Key /\ claim[w].id \in 1..issued
    /\ claim[w].until \in Nat /\ claim[w].at \in 1..now
    /\ claim[w].state.delivered \in Nat

Idle == \A w \in Worker : ~Busy(w) => claim[w] = NoClaim

\* A claim the store would accept is newer than all it has recorded.
Fresh ==
  \A w \in Worker : Busy(w) /\ lease[claim[w].key].id = claim[w].id =>
    state[claim[w].key].attempt <= claim[w].at

Told ==
  /\ \A s \in spoken : s.key \in Key /\ s.id \in 1..issued /\ s.at \in 1..now
  /\ \A w \in Worker : got[w].delivered => point[w] = "conclude" /\ Spoke(w)

\* What is recorded as delivered was spoken.
Heard ==
  \A k \in Key : state[k].delivered # 0 =>
    \E s \in spoken : s.key = k /\ s.at = state[k].delivered

HInv == Shape /\ Claimed /\ Idle /\ Fresh /\ Told /\ Heard

LEMMA HInvHonest == HInv => HonestRecord
BY DEF HInv, Shape, IsState, Heard, HonestRecord

LEMMA InitHInv == Init => HInv
<1> SUFFICES ASSUME Init PROVE HInv
  OBVIOUS
<1> USE DEF Init, Store!Init
<1>1. Shape
  BY DEF Shape, IsState, Store!NoLease, Point, NoResult, Result
<1> QED
  BY <1>1 DEF HInv, Claimed, Idle, Fresh, Told, Heard, Busy, NoResult

-----------------------------------------------------------------------------
(***************************************************************************)
(* How a firing ends.                                                      *)
(***************************************************************************)

\* The store takes a settlement: honest if it marks delivered only what was
\* spoken.
LEMMA SettleHInv ==
  ASSUME HInv, NEW w \in Worker, Busy(w), NEW s, IsState(s),
         Store!Settle(w, s), End(w), UNCHANGED spoken \/ Speak(w),
         \/ s.delivered = state[claim[w].key].delivered
         \/ s.delivered = claim[w].at /\ Spoke(w)
  PROVE  HInv'
<1> DEFINE k == claim[w].key
<1>1. /\ k \in Key /\ lease[k].id = claim[w].id /\ claim[w].id # 0
      /\ state' = [state EXCEPT ![k] = s]
      /\ lease' = [lease EXCEPT ![k] = [id |-> 0, until |-> 0]]
      /\ claim' = [claim EXCEPT ![w] = NoClaim]
      /\ now' = now /\ issued' = issued /\ rhythm' = rhythm
      /\ point' = [point EXCEPT ![w] = "idle"]
      /\ got' = [got EXCEPT ![w] = NoResult]
      /\ spoken \subseteq spoken'
  BY DEF HInv, Claimed, Store!Settle, Store!Active, Store!NoLease, End, Goto, Speak
<1>2. Shape'
  <2>1. \A j \in Key : IsState(state'[j])
    BY <1>1 DEF HInv, Shape
  <2>2. \A j \in Key : IsState(state[j])'
    BY <1>1, <2>1 DEF IsState
  <2>3. state' = [j \in Key |-> state'[j]]
    BY <1>1 DEF HInv, Shape
  <2> QED
    BY <1>1, <2>2, <2>3 DEF HInv, Shape, Point, NoResult, Result
<1>3. \A v \in Worker : Busy(v)' => v # w /\ Busy(v) /\ claim'[v] = claim[v]
  BY <1>1 DEF HInv, Shape, Busy
<1>4. Claimed' /\ Idle'
  BY <1>1, <1>3 DEF HInv, Shape, Claimed, Idle, Busy
<1>5. Fresh'
  BY <1>1, <1>3 DEF HInv, Fresh, Claimed, Shape
<1>6. Told'
  <2>1. \A v \in Worker : got'[v].delivered => v # w /\ got[v].delivered
    BY <1>1 DEF HInv, Shape, NoResult
  <2>2. \A v \in Worker : v # w => point'[v] = point[v] /\ claim'[v] = claim[v]
    BY <1>1 DEF HInv, Shape
  <2>3. \A t \in spoken' : t.key \in Key /\ t.id \in 1..issued /\ t.at \in 1..now
    BY DEF HInv, Told, Claimed, Speak, At
  <2> QED
    BY <1>1, <2>1, <2>2, <2>3 DEF HInv, Told, Spoke
<1>7. Heard'
  <2> SUFFICES ASSUME NEW j \in Key, state'[j].delivered # 0
               PROVE  \E t \in spoken : t.key = j /\ t.at = state'[j].delivered
    BY <1>1 DEF Heard, HInv, Told
  <2>1. CASE j # k
    BY <1>1, <2>1 DEF HInv, Heard, Shape
  <2>2. CASE j = k
    <3>1. state'[k] = s
      BY <1>1 DEF HInv, Shape
    <3> QED
      BY <1>1, <2>2, <3>1 DEF HInv, Heard, Spoke
  <2> QED
    BY <2>1, <2>2
<1> QED
  BY <1>2, <1>4, <1>5, <1>6, <1>7 DEF HInv

\* A firing ends and the store does not change, whether or not a text was taken.
LEMMA LetGoHInv ==
  ASSUME HInv, NEW w \in Worker, Busy(w),
         claim' = [claim EXCEPT ![w] = NoClaim], UNCHANGED <<now, issued, state, lease>>,
         End(w), UNCHANGED spoken \/ Speak(w)
  PROVE  HInv'
<1>1. /\ rhythm' = rhythm
      /\ point' = [point EXCEPT ![w] = "idle"]
      /\ got' = [got EXCEPT ![w] = NoResult]
      /\ spoken \subseteq spoken'
  BY DEF End, Goto, Speak
<1>2. Shape'
  BY <1>1 DEF HInv, Shape, IsState, Point, NoResult, Result
<1>3. \A v \in Worker : Busy(v)' => v # w /\ Busy(v) /\ claim'[v] = claim[v]
  BY <1>1 DEF HInv, Shape, Busy
<1>4. Claimed' /\ Fresh' /\ Idle'
  BY <1>1, <1>3 DEF HInv, Shape, Claimed, Fresh, Idle, Busy
<1>5. Told'
  <2>1. \A v \in Worker : got'[v].delivered => v # w /\ got[v].delivered
    BY <1>1 DEF HInv, Shape, NoResult
  <2>2. \A v \in Worker : v # w => point'[v] = point[v] /\ claim'[v] = claim[v]
    BY <1>1 DEF HInv, Shape
  <2>3. \A t \in spoken' : t.key \in Key /\ t.id \in 1..issued /\ t.at \in 1..now
    BY DEF HInv, Told, Claimed, Speak, At
  <2> QED
    BY <1>1, <2>1, <2>2, <2>3 DEF HInv, Told, Spoke
<1>6. Heard'
  BY <1>1 DEF HInv, Heard
<1> QED
  BY <1>2, <1>4, <1>5, <1>6 DEF HInv

\* complete(), as the loop calls it.
LEMMA CompleteHInv ==
  ASSUME HInv, NEW w \in Worker, Busy(w), NEW o, NEW next, NEW occurrence,
         o = [status |-> o.status, generated |-> o.generated, delivered |-> o.delivered],
         o.generated \in BOOLEAN, o.delivered \in BOOLEAN,
         o.delivered => o.generated /\ Spoke(w),
         o.generated => o.status \in {"activated", "failed"},
         Complete(w, o, next, occurrence), UNCHANGED spoken
  PROVE  HInv'
<1> DEFINE c == claim[w]
           s == Store!Completed(state[c.key], c, o, next, occurrence)
<1>1. CASE Store!Complete(w, o, next, occurrence)
  <2>1. Store!Settle(w, s) /\ End(w)
    BY <1>1 DEF Store!Complete, Complete
  <2>2. lease[c.key].id = c.id /\ c.key \in Key /\ c.at \in 1..now
    BY <2>1 DEF Store!Settle, Store!Active, HInv, Claimed
  <2>3. IsState(state[c.key]) /\ state[c.key].attempt <= c.at
    BY <2>2 DEF HInv, Shape, Fresh
  <2>4. /\ IsState(s)
        /\ s.delivered = IF o.delivered THEN c.at ELSE state[c.key].delivered
    BY <2>2, <2>3 DEF Store!Completed, Store!Stamped, IsState, HInv, Shape
  <2> QED
    BY <2>1, <2>4, SettleHInv
<1>2. CASE Store!Refused(w)
  BY <1>2, LetGoHInv DEF Store!Refused, Complete
<1> QED
  BY <1>1, <1>2 DEF Complete

\* abandon(), with a text taken before or not.
LEMMA AbandonHInv ==
  ASSUME HInv, NEW w \in Worker, Busy(w), NEW next, Abandon(w, next),
         UNCHANGED spoken \/ Speak(w)
  PROVE  HInv'
<1> DEFINE c == claim[w]
           s == [state[c.key] EXCEPT !.next = next]
<1>1. CASE Store!Abandon(w, next)
  <2>1. Store!Settle(w, s) /\ End(w) /\ c.key \in Key
    BY <1>1 DEF Store!Abandon, Abandon, HInv, Claimed
  <2> DEFINE old == state[c.key]
  <2>2. IsState(old)
    BY <2>1 DEF HInv, Shape
  <2>3. s = [next |-> next, attempt |-> old.attempt, generated |-> old.generated,
             delivered |-> old.delivered, occurrence |-> old.occurrence]
    BY <2>2 DEF IsState
  <2>4. IsState(s) /\ s.delivered = old.delivered
    BY <2>2, <2>3 DEF IsState
  <2> QED
    BY <2>1, <2>4, SettleHInv
<1>2. CASE Store!Refused(w)
  BY <1>2, LetGoHInv DEF Store!Refused, Abandon
<1> QED
  BY <1>1, <1>2 DEF Abandon

-----------------------------------------------------------------------------
(***************************************************************************)
(* The steps.                                                              *)
(***************************************************************************)
LEMMA AdvanceHInv ==
  ASSUME HInv, Advance
  PROVE  HInv'
<1>1. /\ now' = now + 1
      /\ UNCHANGED <<rhythm, issued, state, lease, claim, point, got, spoken>>
  BY DEF Advance, Store!Advance, firingVars
<1>2. Shape'
  BY <1>1 DEF HInv, Shape, IsState
<1>3. Claimed' /\ Idle' /\ Told'
  BY <1>1 DEF HInv, Shape, Claimed, Idle, Told, Busy, Spoke
<1>4. Fresh' /\ Heard'
  BY <1>1 DEF HInv, Fresh, Heard, Busy
<1> QED
  BY <1>2, <1>3, <1>4 DEF HInv

LEMMA ClaimHInv ==
  ASSUME HInv, NEW w \in Worker, NEW k \in Key, Claim(w, k)
  PROVE  HInv'
<1> DEFINE id == issued + 1
           c == [key |-> k, id |-> id, until |-> now + Lease, at |-> now,
                 state |-> state[k]]
<1>1. /\ point[w] = "idle" /\ point' = [point EXCEPT ![w] = "decide"]
      /\ issued' = id
      /\ lease' = [lease EXCEPT ![k] = [id |-> id, until |-> now + Lease]]
      /\ claim' = [claim EXCEPT ![w] = c]
      /\ UNCHANGED <<now, state, rhythm, got, spoken>>
  BY DEF Claim, Store!ClaimDue, Goto, firingVars
<1>2. Lease \in Nat
  BY LoopAssumption
<1>3. Shape'
  <2>1. claim' = [v \in Worker |-> claim'[v]]
    BY <1>1 DEF HInv, Shape
  <2>2. \A j \in Key : IsState(state[j])'
    BY <1>1 DEF HInv, Shape, IsState
  <2> QED
    BY <1>1, <1>2, <2>1, <2>2 DEF HInv, Shape, Point
<1>4. claim'[w] = c /\ \A v \in Worker \ {w} : claim'[v] = claim[v] /\ point'[v] = point[v]
  BY <1>1 DEF HInv, Shape
<1>5. Claimed' /\ Idle'
  <2>1. state[k].delivered \in Nat
    BY DEF HInv, Shape, IsState
  <2>2. point'[w] # "idle"
    BY <1>1 DEF HInv, Shape
  <2> QED
    BY <1>1, <1>2, <1>4, <2>1, <2>2 DEF HInv, Shape, Claimed, Idle, Busy
<1>6. Fresh'
  <2> SUFFICES ASSUME NEW v \in Worker, Busy(v)', lease'[claim'[v].key].id = claim'[v].id
               PROVE  state'[claim'[v].key].attempt <= claim'[v].at
    BY DEF Fresh
  <2>1. CASE v = w
    BY <1>1, <1>4, <2>1 DEF HInv, Shape, IsState
  <2>2. CASE v # w
    <3>1. Busy(v) /\ claim'[v] = claim[v] /\ claim[v].id <= issued /\ claim[v].key \in Key
      BY <1>4, <2>2 DEF Busy, HInv, Claimed
    <3>2. lease'[claim[v].key].id = lease[claim[v].key].id
      BY <1>1, <3>1 DEF HInv, Shape
    <3> QED
      BY <1>1, <3>1, <3>2 DEF HInv, Fresh
  <2> QED
    BY <2>1, <2>2
<1>7. Told'
  <2>1. \A v \in Worker : got'[v].delivered => v # w
    BY <1>1 DEF HInv, Told
  <2>2. \A t \in spoken : t.id \in 1..id
    BY DEF HInv, Shape, Told
  <2>3. \A v \in Worker \ {w} : Spoke(v) => Spoke(v)'
    BY <1>1, <1>4 DEF Spoke
  <2>4. \A v \in Worker : got'[v].delivered => point'[v] = "conclude" /\ Spoke(v)'
    BY <1>1, <1>4, <2>1, <2>3 DEF HInv, Told
  <2> QED
    BY <1>1, <2>2, <2>4 DEF HInv, Told
<1>8. Heard'
  BY <1>1 DEF HInv, Heard
<1> QED
  BY <1>3, <1>5, <1>6, <1>7, <1>8 DEF HInv

\* A busy worker goes on, and what it got is delivered only if it spoke.
LEMMA OnwardHInv ==
  ASSUME HInv, NEW w \in Worker, Busy(w), UNCHANGED storeVars,
         NEW p \in Point \ {"idle"}, point' = [point EXCEPT ![w] = p],
         NEW g \in Result, got' = [got EXCEPT ![w] = g],
         g.delivered => p = "conclude" /\ (Spoke(w) \/ Speak(w)),
         UNCHANGED spoken \/ Speak(w)
  PROVE  HInv'
<1>1. UNCHANGED <<rhythm, now, issued, state, lease, claim>> /\ spoken \subseteq spoken'
  BY DEF storeVars, Speak
<1>2. Shape'
  BY <1>1 DEF HInv, Shape, IsState
<1>3. \A v \in Worker : Busy(v)' => Busy(v)
  BY DEF HInv, Shape, Busy
<1>4. Claimed' /\ Fresh' /\ Idle'
  BY <1>1, <1>3 DEF HInv, Shape, Claimed, Fresh, Idle, Busy
<1>5. Told'
  <2>1. \A t \in spoken' : t.key \in Key /\ t.id \in 1..issued /\ t.at \in 1..now
    BY DEF HInv, Told, Claimed, Speak, At
  <2>2. \A v \in Worker \ {w} : got'[v] = got[v] /\ point'[v] = point[v]
    BY DEF HInv, Shape
  <2>3. got'[w] = g /\ point'[w] = p
    BY DEF HInv, Shape
  <2>4. \A v \in Worker : Spoke(v) => Spoke(v)'
    BY <1>1 DEF Spoke
  <2>5. ASSUME Speak(w) PROVE Spoke(w)'
    <3> DEFINE t == [key |-> claim[w].key, id |-> claim[w].id, at |-> At(w), occ |-> occ[w]]
    <3>1. t \in spoken'
      BY <2>5 DEF Speak
    <3>2. t.key = claim'[w].key /\ t.id = claim'[w].id /\ t.at = claim'[w].at
      BY <1>1 DEF At
    <3> QED
      BY <3>1, <3>2 DEF Spoke
  <2> QED
    BY <1>1, <2>1, <2>2, <2>3, <2>4, <2>5 DEF HInv, Told
<1>6. Heard'
  BY <1>1 DEF HInv, Heard
<1> QED
  BY <1>2, <1>4, <1>5, <1>6 DEF HInv

\* A result of handle() with one pending line less is one.
LEMMA OneDispatched ==
  ASSUME NEW x \in Result, x.pending > 0
  PROVE  LET g == [x EXCEPT !.pending = @ - 1, !.delivered = TRUE] IN
         g \in Result /\ g.delivered /\ g.status = x.status
<1> DEFINE y == [x EXCEPT !.pending = @ - 1]
<1>1. y \in Result /\ y.status = x.status
  BY DEF Result
<1> HIDE DEF y
<1> DEFINE z == [y EXCEPT !.delivered = TRUE]
<1>2. z \in Result /\ z.delivered /\ z.status = y.status
  BY <1>1 DEF Result
<1> QED
  BY <1>1, <1>2 DEF y

LEMMA WorkHInv ==
  ASSUME HInv, NEW w \in Worker, Work(w)
  PROVE  HInv'
<1> USE DEF Busy, Point
<1>0. got[w] \in Result
  BY DEF HInv, Shape
<1>1. CASE StayQuiet(w)
  BY <1>1, CompleteHInv DEF StayQuiet, Quietly
<1>2. CASE Decide(w)
  <2>1. got' = [got EXCEPT ![w] = got[w]] /\ ~got[w].delivered
    BY <1>2 DEF Decide, HInv, Shape, Told
  <2> QED
    BY <1>0, <1>2, <2>1, OnwardHInv DEF Decide, Goto
<1>3. CASE Forgo(w)
  BY <1>3, CompleteHInv DEF Forgo, Quietly
<1>4. CASE Clear(w)
  <2>1. got' = [got EXCEPT ![w] = got[w]] /\ ~got[w].delivered
    BY <1>4 DEF Clear, HInv, Shape, Told, firingVars
  <2> QED
    BY <1>0, <1>4, <2>1, OnwardHInv DEF Clear, Goto
<1>5. CASE Handle(w)
  <2>1. claim[w].key \in Key /\ rhythm \in Rhythms
    BY <1>5 DEF Handle, HInv, Claimed, Shape
  <2>2. RhythmOf(w).results \subseteq Result
    BY <2>1, RhythmAssumption DEF RhythmOf
  <2> QED
    BY <1>5, <2>2, OnwardHInv DEF Handle, Goto
<1>6. CASE Fail(w)
  BY <1>6, AbandonHInv DEF Fail
<1>7. CASE Cancelled(w) \/ Noop(w)
  BY <1>7, CompleteHInv DEF Cancelled, Noop, Concluding, Quietly
<1>8. CASE DispatchPending(w)
  <2> DEFINE g == [got[w] EXCEPT !.pending = @ - 1, !.delivered = TRUE]
  <2>1. g \in Result
    BY <1>0, <1>8, OneDispatched DEF DispatchPending
  <2>2. point' = [point EXCEPT ![w] = "conclude"] /\ got' = [got EXCEPT ![w] = g]
    BY <1>8 DEF DispatchPending, Concluding, HInv, Shape
  <2>3. Speak(w) /\ UNCHANGED storeVars
    BY <1>8 DEF DispatchPending
  <2> HIDE DEF g
  <2> QED
    BY <1>8, <2>1, <2>2, <2>3, OnwardHInv DEF DispatchPending, Concluding
<1>9. CASE LeavePending(w) \/ FailLines(w) \/ Activated(w)
  <2>1. got[w].delivered \in BOOLEAN /\ (got[w].delivered => Spoke(w))
    BY <1>0 DEF Result, HInv, Told
  <2>2. CASE LeavePending(w)
    <3> DEFINE o == [status |-> "failed", generated |-> TRUE,
                     delivered |-> got[w].delivered]
    <3>1. /\ point[w] = "conclude" /\ spoken' = spoken
          /\ Complete(w, o, At(w) + DeliveryRetry, 0)
      BY <2>2 DEF LeavePending, Concluding
    <3> QED
      BY <2>1, <3>1, CompleteHInv
  <2>3. CASE FailLines(w)
    <3> DEFINE o == [status |-> "failed", generated |-> Generated(w), delivered |-> FALSE]
    <3>1. /\ point[w] = "conclude" /\ spoken' = spoken
          /\ Complete(w, o, At(w) + DeliveryRetry, 0)
      BY <2>3 DEF FailLines, Concluding
    <3>2. o.generated \in BOOLEAN
      BY <2>1 DEF Generated
    <3> QED
      BY <3>1, <3>2, CompleteHInv
  <2>4. CASE Activated(w)
    <3> DEFINE o == [status |-> "activated", generated |-> Generated(w),
                     delivered |-> got[w].delivered]
    <3>1. /\ point[w] = "conclude" /\ spoken' = spoken
          /\ Complete(w, o, after[w], occ[w])
      BY <2>4 DEF Activated, Concluding
    <3>2. o.generated = got[w].delivered
      BY DEF Generated
    <3> QED
      BY <2>1, <3>1, <3>2, CompleteHInv
  <2> QED
    BY <1>9, <2>2, <2>3, <2>4
<1>10. CASE DispatchRaises(w)
  BY <1>10, LetGoHInv DEF DispatchRaises, Concluding, Store!Lose
<1>11. CASE Crash(w)
  <2>1. Busy(w)
    BY <1>11 DEF Crash, Store!Lose, HInv, Idle
  <2> QED
    BY <1>11, <2>1, LetGoHInv DEF Crash, Store!Lose
<1> QED
  BY <1>1, <1>2, <1>3, <1>4, <1>5, <1>6, <1>7, <1>8, <1>9, <1>10, <1>11 DEF Work

LEMMA NextHInv == HInv /\ [Next]_vars => HInv'
<1> SUFFICES ASSUME HInv, [Next]_vars PROVE HInv'
  OBVIOUS
<1>1. CASE UNCHANGED vars
  BY <1>1 DEF vars, HInv, Shape, IsState, Claimed, Idle, Fresh, Told, Heard, Busy, Spoke
<1>2. ASSUME NEW w \in Worker, NEW k \in Key, Claim(w, k) PROVE HInv'
  BY <1>2, ClaimHInv
<1> QED
  BY <1>1, <1>2, AdvanceHInv, WorkHInv DEF Next, Rest

LEMMA Inductive == Spec => []HInv
<1> QED
  BY InitHInv, NextHInv, PTL DEF Spec

\* The record is honest, for any rhythms and any number of workers that may be slow
\* or die, with leases that expire and exceptions that are lost: a rhythm is marked
\* delivered only at the time of a firing that spoke.
THEOREM HonestBooks == Spec => []HonestRecord
<1> QED
  BY Inductive, HInvHonest, PTL

-----------------------------------------------------------------------------
(***************************************************************************)
(* Outreach that keeps its distance.  In pulse_forgets an exception of the *)
(* engine breaks it; otherwise it holds.                                   *)
(***************************************************************************)
Careful == Prompt /\ ~MayCrash /\ ~LosesEngine /\ ~LosesDispatch

\* Every firing under way has the lease, so that a rhythm has one at a time.
Leased ==
  \A w \in Worker : Busy(w) =>
    /\ now < claim[w].until
    /\ lease[claim[w].key] = [id |-> claim[w].id, until |-> claim[w].until]
Alone ==
  \A v, w \in Worker : Busy(v) /\ Busy(w) /\ claim[v].key = claim[w].key => v = w

\* A firing evaluates what the store holds, and goes ahead only if it is due.
Due(w) ==
  \/ claim[w].state.delivered = 0
  \/ claim[w].state.delivered + RhythmOf(w).every <= claim[w].at
Timely ==
  \A w \in Worker : Busy(w) =>
    /\ claim[w].state.delivered = state[claim[w].key].delivered
    /\ point[w] # "decide" /\ RhythmOf(w).kind = "last_delivered" => Due(w)

\* Every text taken is recorded, or will be by the firing that sent it.
By(s, w) ==
  /\ point[w] = "conclude" /\ got[w].delivered
  /\ s.key = claim[w].key /\ s.id = claim[w].id /\ s.at = claim[w].at
Remembered ==
  \A s \in spoken : rhythm[s.key].kind = "last_delivered" =>
    s.at <= state[s.key].delivered \/ \E w \in Worker : By(s, w)

\* Firings of a rhythm speak in the order of their claims.
InOrder ==
  \A s \in spoken, w \in Worker : Busy(w) /\ s.key = claim[w].key => s.id <= claim[w].id

\* Only completed activations delivered anything.
Completing == \A w \in Worker : got[w].delivered => got[w].status = "completed"

SInv == /\ Leased /\ Alone /\ Timely /\ Remembered /\ InOrder /\ Completing
        /\ OutreachSpaced

LEMMA InitSInv == Init => SInv
BY DEF Init, Store!Init, SInv, Leased, Alone, Timely, Remembered, InOrder, Completing,
       OutreachSpaced, Busy, NoResult

LEMMA SettleSInv ==
  ASSUME HInv, SInv, NEW w \in Worker, Busy(w), NEW s, IsState(s),
         Store!Settle(w, s), End(w), UNCHANGED spoken,
         s.delivered \in {state[claim[w].key].delivered, claim[w].at},
         got[w].delivered => s.delivered = claim[w].at
  PROVE  SInv'
<1> DEFINE k == claim[w].key
<1>1. /\ k \in Key /\ lease[k].id = claim[w].id
      /\ state' = [state EXCEPT ![k] = s]
      /\ lease' = [lease EXCEPT ![k] = [id |-> 0, until |-> 0]]
      /\ claim' = [claim EXCEPT ![w] = NoClaim]
      /\ now' = now /\ spoken' = spoken /\ rhythm' = rhythm
      /\ point' = [point EXCEPT ![w] = "idle"]
      /\ got' = [got EXCEPT ![w] = NoResult]
  BY DEF HInv, Claimed, Store!Settle, Store!Active, Store!NoLease, End, Goto
<1>2. ASSUME NEW v \in Worker \ {w}, Busy(v)
      PROVE  /\ claim[v].key \in Key \ {k}
             /\ lease'[claim[v].key] = lease[claim[v].key]
             /\ state'[claim[v].key] = state[claim[v].key]
  BY <1>1, <1>2 DEF HInv, Shape, Claimed, SInv, Alone
<1>3. \A v \in Worker \ {w} : /\ claim'[v] = claim[v] /\ point'[v] = point[v]
                              /\ got'[v] = got[v]
  BY <1>1 DEF HInv, Shape
<1>4. ~Busy(w)' /\ ~got'[w].delivered
  BY <1>1 DEF HInv, Shape, Busy, NoResult
<1>5. \A v \in Worker : Busy(v)' => v # w /\ Busy(v)
  BY <1>3, <1>4 DEF Busy
<1>6. Leased' /\ Alone' /\ InOrder' /\ Completing'
  BY <1>1, <1>2, <1>3, <1>4, <1>5 DEF SInv, Leased, Alone, InOrder, Completing
<1>7. Timely'
  BY <1>1, <1>2, <1>3, <1>5 DEF SInv, Timely, Due, RhythmOf
<1>8. Remembered'
  <2> SUFFICES ASSUME NEW t \in spoken, rhythm[t.key].kind = "last_delivered"
               PROVE  t.at <= state'[t.key].delivered \/ \E v \in Worker : By(t, v)'
    BY <1>1 DEF Remembered
  <2>1. t.key \in Key /\ t.at \in Nat
    BY DEF HInv, Told
  <2>2. state[k].delivered <= s.delivered
    BY <1>1 DEF HInv, Shape, IsState, Claimed, Fresh
  <2>3. s.delivered \in Nat /\ state'[k] = s /\ state[k].delivered \in Nat
    BY <1>1 DEF HInv, Shape, IsState
  <2>4. CASE t.at <= state[t.key].delivered
    <3>1. CASE t.key = k
      BY <2>1, <2>2, <2>3, <2>4, <3>1
    <3>2. CASE t.key # k
      BY <1>1, <2>1, <2>4, <3>2 DEF HInv, Shape
    <3> QED
      BY <3>1, <3>2
  <2>5. ASSUME NEW v \in Worker, By(t, v)
        PROVE  t.at <= state'[t.key].delivered \/ \E u \in Worker : By(t, u)'
    <3>1. CASE v = w
      BY <2>1, <2>3, <2>5, <3>1 DEF By
    <3>2. CASE v # w
      BY <1>3, <2>5, <3>2 DEF By
    <3> QED
      BY <3>1, <3>2
  <2> QED
    BY <2>4, <2>5 DEF SInv, Remembered
<1>9. OutreachSpaced'
  BY <1>1 DEF SInv, OutreachSpaced
<1> QED
  BY <1>6, <1>7, <1>8, <1>9 DEF SInv

\* A firing under way is not refused.
LEMMA NeverRefused ==
  ASSUME SInv, NEW w \in Worker, Busy(w), Store!Refused(w)
  PROVE  FALSE
<1>1. lease[claim[w].key] = [id |-> claim[w].id, until |-> claim[w].until]
  BY DEF SInv, Leased
<1>2. lease[claim[w].key].id = claim[w].id
  BY <1>1
<1> QED
  BY <1>2 DEF Store!Refused, Store!Active

LEMMA CompleteSInv ==
  ASSUME HInv, SInv, NEW w \in Worker, Busy(w), NEW o, NEW next, NEW occurrence,
         o = [status |-> o.status, generated |-> o.generated, delivered |-> o.delivered],
         o.generated \in BOOLEAN, o.delivered = got[w].delivered,
         o.delivered => o.generated,
         o.generated => o.status \in {"activated", "failed"},
         Complete(w, o, next, occurrence), UNCHANGED spoken
  PROVE  SInv'
<1> DEFINE c == claim[w]
           s == Store!Completed(state[c.key], c, o, next, occurrence)
<1>1. Store!Settle(w, s) /\ End(w)
  BY NeverRefused DEF Store!Complete, Complete
<1>2. lease[c.key].id = c.id /\ c.key \in Key /\ c.at \in 1..now
  BY <1>1 DEF Store!Settle, Store!Active, HInv, Claimed
<1>3. IsState(state[c.key]) /\ state[c.key].attempt <= c.at
  BY <1>2 DEF HInv, Shape, Fresh
<1>4. got[w].delivered \in BOOLEAN
  BY DEF HInv, Shape, Result
<1>5. /\ IsState(s)
      /\ s.delivered = IF o.delivered THEN c.at ELSE state[c.key].delivered
  BY <1>2, <1>3, <1>4 DEF Store!Completed, Store!Stamped, IsState, HInv, Shape
<1> QED
  BY <1>1, <1>5, SettleSInv

\* An abandoned firing spoke to nobody.
LEMMA AbandonSInv ==
  ASSUME HInv, SInv, NEW w \in Worker, Busy(w), NEW next, Abandon(w, next),
         ~got[w].delivered, UNCHANGED spoken
  PROVE  SInv'
<1> DEFINE c == claim[w]
           s == [state[c.key] EXCEPT !.next = next]
           old == state[c.key]
<1>1. Store!Settle(w, s) /\ End(w) /\ c.key \in Key
  BY NeverRefused DEF Store!Abandon, Abandon, HInv, Claimed
<1>2. IsState(old)
  BY <1>1 DEF HInv, Shape
<1>3. s = [next |-> next, attempt |-> old.attempt, generated |-> old.generated,
           delivered |-> old.delivered, occurrence |-> old.occurrence]
  BY <1>2 DEF IsState
<1>4. IsState(s) /\ s.delivered = old.delivered
  BY <1>2, <1>3 DEF IsState
<1> QED
  BY <1>1, <1>4, SettleSInv

LEMMA AdvanceSInv ==
  ASSUME HInv, SInv, Prompt, Advance
  PROVE  SInv'
<1>1. /\ now' = now + 1 /\ \A w \in Worker : Busy(w) => now + 1 < claim[w].until
      /\ UNCHANGED <<rhythm, issued, state, lease, claim, point, got, spoken>>
  BY DEF Advance, Store!Advance, firingVars, Busy
<1>2. Leased' /\ Alone' /\ InOrder' /\ Completing' /\ OutreachSpaced'
  BY <1>1 DEF SInv, Leased, Alone, InOrder, Completing, OutreachSpaced, Busy
<1>3. Timely' /\ Remembered'
  BY <1>1 DEF SInv, Timely, Remembered, By, Due, RhythmOf, Busy
<1> QED
  BY <1>2, <1>3 DEF SInv

LEMMA ClaimSInv ==
  ASSUME HInv, SInv, NEW w \in Worker, NEW k \in Key, Claim(w, k)
  PROVE  SInv'
<1> DEFINE id == issued + 1
           c == [key |-> k, id |-> id, until |-> now + Lease, at |-> now,
                 state |-> state[k]]
<1>1. /\ point[w] = "idle" /\ point' = [point EXCEPT ![w] = "decide"]
      /\ lease[k].id = 0 \/ lease[k].until <= now
      /\ lease' = [lease EXCEPT ![k] = [id |-> id, until |-> now + Lease]]
      /\ claim' = [claim EXCEPT ![w] = c]
      /\ UNCHANGED <<now, state, rhythm, got, spoken>>
  BY DEF Claim, Store!ClaimDue, Store!Free, Goto, firingVars
<1>2. Lease \in Nat \ {0} /\ now \in Nat /\ issued \in Nat
  BY LoopAssumption DEF HInv, Shape
<1>3. /\ claim'[w] = c /\ point'[w] = "decide"
      /\ \A v \in Worker \ {w} : claim'[v] = claim[v] /\ point'[v] = point[v]
  BY <1>1 DEF HInv, Shape
<1>4. ASSUME NEW v \in Worker \ {w}, Busy(v)
      PROVE  claim[v].key \in Key \ {k} /\ claim[v].id <= issued
  <2>1. /\ claim[v].key \in Key /\ claim[v].id \in 1..issued /\ claim[v].until \in Nat
        /\ now < claim[v].until
        /\ lease[claim[v].key] = [id |-> claim[v].id, until |-> claim[v].until]
    BY <1>4 DEF HInv, Claimed, SInv, Leased
  <2>2. lease[claim[v].key].id = claim[v].id /\ lease[claim[v].key].until = claim[v].until
    BY <2>1
  <2> QED
    BY <1>1, <1>2, <2>1, <2>2
<1>5. \A v \in Worker \ {w} : Busy(v)' => Busy(v)
  BY <1>3 DEF Busy
<1>6. Leased'
  <2> SUFFICES ASSUME NEW v \in Worker, Busy(v)'
               PROVE  /\ now < claim'[v].until
                      /\ lease'[claim'[v].key] = [id |-> claim'[v].id, until |-> claim'[v].until]
    BY <1>1 DEF Leased
  <2>1. CASE v = w
    BY <1>1, <1>2, <1>3, <2>1 DEF HInv, Shape
  <2>2. CASE v # w
    <3>1. lease'[claim[v].key] = lease[claim[v].key]
      BY <1>1, <1>4, <1>5, <2>2 DEF HInv, Shape
    <3> QED
      BY <1>3, <1>5, <2>2, <3>1 DEF SInv, Leased
  <2> QED
    BY <2>1, <2>2
<1>7. Alone'
  BY <1>3, <1>4, <1>5 DEF SInv, Alone
<1>8. Timely'
  <2> SUFFICES ASSUME NEW v \in Worker, Busy(v)'
               PROVE  /\ claim'[v].state.delivered = state[claim'[v].key].delivered
                      /\ point'[v] # "decide" /\ RhythmOf(v)'.kind = "last_delivered" => Due(v)'
    BY <1>1 DEF Timely
  <2>1. CASE v = w
    BY <1>3, <2>1
  <2>2. CASE v # w
    BY <1>1, <1>3, <1>5, <2>2 DEF SInv, Timely, RhythmOf, Due
  <2> QED
    BY <2>1, <2>2
<1>9. Remembered'
  <2>1. \A t \in spoken, v \in Worker : By(t, v) => v # w /\ By(t, v)'
    BY <1>1, <1>3 DEF By
  <2> QED
    BY <1>1, <2>1 DEF SInv, Remembered
<1>10. InOrder'
  <2>1. \A t \in spoken : t.id <= id
    BY <1>2 DEF HInv, Told
  <2> QED
    BY <1>1, <1>3, <1>5, <2>1 DEF SInv, InOrder
<1>11. Completing' /\ OutreachSpaced'
  BY <1>1 DEF SInv, Completing, OutreachSpaced
<1> QED
  BY <1>6, <1>7, <1>8, <1>9, <1>10, <1>11 DEF SInv

\* A busy worker goes on: it stays due, and what it says it will remember.
LEMMA OnwardSInv ==
  ASSUME HInv, SInv, NEW w \in Worker, Busy(w), UNCHANGED storeVars,
         NEW p \in Point \ {"idle", "decide"}, point' = [point EXCEPT ![w] = p],
         NEW g \in Result, got' = [got EXCEPT ![w] = g],
         g.delivered => g.status = "completed",
         got[w].delivered => g.delivered /\ p = "conclude",
         RhythmOf(w).kind = "last_delivered" => Due(w),
         UNCHANGED spoken \/ (Speak(w) /\ g.delivered /\ p = "conclude")
  PROVE  SInv'
<1>1. UNCHANGED <<rhythm, now, issued, state, lease, claim>>
  BY DEF storeVars
<1>2. \A v \in Worker : Busy(v)' => Busy(v)
  BY DEF HInv, Shape, Busy
<1>3. /\ point'[w] = p /\ got'[w] = g
      /\ \A v \in Worker \ {w} : point'[v] = point[v] /\ got'[v] = got[v]
  BY DEF HInv, Shape
<1>4. Leased' /\ Alone' /\ Completing'
  BY <1>1, <1>2, <1>3 DEF SInv, Leased, Alone, Completing
<1>5. Timely'
  <2> SUFFICES ASSUME NEW v \in Worker, Busy(v)'
               PROVE  /\ claim[v].state.delivered = state[claim[v].key].delivered
                      /\ point'[v] # "decide" /\ RhythmOf(v).kind = "last_delivered" => Due(v)
    BY <1>1 DEF Timely, RhythmOf, Due
  <2> QED
    BY <1>2, <1>3 DEF SInv, Timely
<1> DEFINE t == [key |-> claim[w].key, id |-> claim[w].id, at |-> claim[w].at,
                 occ |-> occ[w]]
<1>6. /\ spoken' \subseteq spoken \cup {t}
      /\ t \in spoken' \ spoken => g.delivered /\ p = "conclude"
  BY DEF Speak, At
<1>7. Remembered'
  <2> SUFFICES ASSUME NEW s \in spoken', rhythm[s.key].kind = "last_delivered"
               PROVE  s.at <= state[s.key].delivered \/ \E v \in Worker : By(s, v)'
    BY <1>1 DEF Remembered
  <2>1. CASE s \in spoken
    <3>1. \A v \in Worker : By(s, v) => By(s, v)'
      BY <1>1, <1>3 DEF By
    <3> QED
      BY <2>1, <3>1 DEF SInv, Remembered
  <2>2. CASE s \notin spoken
    <3>1. s = t /\ g.delivered /\ p = "conclude"
      BY <1>6, <2>2
    <3>2. By(s, w)'
      BY <1>1, <1>3, <3>1 DEF By
    <3> QED
      BY <3>2
  <2> QED
    BY <2>1, <2>2
<1>8. InOrder'
  <2> SUFFICES ASSUME NEW s \in spoken', NEW v \in Worker, Busy(v), s.key = claim[v].key
               PROVE  s.id <= claim[v].id
    BY <1>1, <1>2 DEF InOrder
  <2>1. CASE s \in spoken
    BY <2>1 DEF SInv, InOrder
  <2>2. CASE s = t
    <3>1. v = w
      BY <2>2 DEF SInv, Alone
    <3> QED
      BY <2>2, <3>1 DEF HInv, Claimed
  <2> QED
    BY <1>6, <2>1, <2>2
<1>9. OutreachSpaced'
  <2> SUFFICES ASSUME NEW r \in spoken', NEW s \in spoken',
                      rhythm[r.key].kind = "last_delivered", r.key = s.key, r.id < s.id
               PROVE  r.at + rhythm[r.key].every <= s.at
    BY <1>1 DEF OutreachSpaced
  <2>1. CASE r \in spoken /\ s \in spoken
    BY <2>1 DEF SInv, OutreachSpaced
  <2>2. CASE s = t /\ r \in spoken
    <3>1. r.at <= state[r.key].delivered
      <4>1. ~\E v \in Worker : By(r, v)
        BY <2>2 DEF SInv, Alone, By, Busy, HInv, Told
      <4> QED
        BY <2>2, <4>1 DEF SInv, Remembered
    <3>2. claim[w].state.delivered = state[r.key].delivered
      BY <2>2 DEF SInv, Timely
    <3>3. r.at \in Nat \ {0} /\ claim[w].state.delivered \in Nat /\ claim[w].key \in Key
      BY <2>2 DEF HInv, Told, Claimed
    <3>4. Due(w) /\ rhythm[r.key] = RhythmOf(w)
      BY <2>2 DEF RhythmOf
    <3>5. RhythmOf(w).every \in Nat /\ claim[w].at \in Nat
      BY <3>3, RhythmAssumption DEF RhythmOf, HInv, Shape, Claimed
    <3> QED
      BY <2>2, <3>1, <3>2, <3>3, <3>4, <3>5 DEF Due
  <2>3. CASE r = t /\ s \in spoken
    BY <2>3 DEF SInv, InOrder, HInv, Told, Claimed
  <2>4. ~(r = t /\ s = t)
    BY DEF HInv, Claimed
  <2> QED
    BY <1>6, <2>1, <2>2, <2>3, <2>4
<1> QED
  BY <1>4, <1>5, <1>7, <1>8, <1>9 DEF SInv

\* A rhythm anchored on its last delivery goes ahead only when it is due.
LEMMA DecidesWhenDue ==
  ASSUME HInv, NEW w \in Worker, Busy(w), NEW e \in Evaluations(w), e.due,
         RhythmOf(w).kind = "last_delivered"
  PROVE  Due(w)
<1>1. e \in Interval(RhythmOf(w), claim[w].state.delivered, At(w))
  BY DEF Evaluations
<1>2. CASE /\ claim[w].state.delivered # 0
           /\ At(w) < claim[w].state.delivered + RhythmOf(w).every
  BY <1>1, <1>2 DEF Interval, Quiet
<1>3. claim[w].key \in Key /\ claim[w].at \in Nat /\ claim[w].state.delivered \in Nat
  BY DEF HInv, Claimed
<1>4. RhythmOf(w).every \in Nat
  BY <1>3, RhythmAssumption DEF RhythmOf, HInv, Shape
<1> QED
  BY <1>2, <1>3, <1>4 DEF Due, At

LEMMA WorkSInv ==
  ASSUME HInv, SInv, Careful, NEW w \in Worker, Work(w)
  PROVE  SInv'
<1> USE DEF Busy, Point
<1>0. /\ got[w] \in Result
      /\ got[w].delivered => point[w] = "conclude" /\ got[w].status = "completed"
  BY DEF HInv, Shape, Told, SInv, Completing
<1>1. CASE StayQuiet(w) \/ Forgo(w)
  <2>1. point[w] \in {"decide", "plan"} /\ got[w].delivered = FALSE /\ UNCHANGED spoken
    BY <1>0, <1>1 DEF StayQuiet, Forgo, Result
  <2>2. PICK status, next, occurrence :
          status \in {"skipped", "denied"} /\ Complete(w, Quietly(status), next, occurrence)
    BY <1>1 DEF StayQuiet, Forgo
  <2> QED
    BY <2>1, <2>2, CompleteSInv DEF Quietly
<1>2. CASE Decide(w)
  <2>1. got' = [got EXCEPT ![w] = got[w]] /\ ~got[w].delivered
    BY <1>0, <1>2 DEF Decide, HInv, Shape
  <2>2. RhythmOf(w).kind = "last_delivered" => Due(w)
    BY <1>2, DecidesWhenDue DEF Decide
  <2> QED
    BY <1>0, <1>2, <2>1, <2>2, OnwardSInv DEF Decide, Goto
<1>3. ASSUME Busy(w), point[w] # "decide"
      PROVE  RhythmOf(w).kind = "last_delivered" => Due(w)
  BY <1>3 DEF SInv, Timely
<1>4. CASE Clear(w)
  <2>1. got' = [got EXCEPT ![w] = got[w]] /\ ~got[w].delivered
    BY <1>0, <1>4 DEF Clear, HInv, Shape, firingVars
  <2> QED
    BY <1>0, <1>3, <1>4, <2>1, OnwardSInv DEF Clear, Goto
<1>5. CASE Handle(w)
  <2>1. claim[w].key \in Key /\ rhythm \in Rhythms
    BY <1>5 DEF Handle, HInv, Claimed, Shape
  <2>2. PICK r \in RhythmOf(w).results :
          /\ got' = [got EXCEPT ![w] = r]
          /\ IF r.delivered THEN Speak(w) ELSE UNCHANGED spoken
    BY <1>5 DEF Handle
  <2>3. r \in Result /\ (r.delivered => r.status = "completed")
    BY <2>1, RhythmAssumption DEF RhythmOf
  <2>4. ~got[w].delivered
    BY <1>0, <1>5 DEF Handle
  <2> QED
    BY <1>3, <1>5, <2>2, <2>3, <2>4, OnwardSInv DEF Handle, Goto
<1>6. CASE Fail(w)
  <2>1. ~got[w].delivered
    BY <1>0, <1>6 DEF Fail
  <2> QED
    BY <1>6, <2>1, AbandonSInv DEF Fail, Careful
<1>7. CASE Cancelled(w) \/ Noop(w)
  <2>1. point[w] = "conclude" /\ got[w].delivered = FALSE /\ UNCHANGED spoken
    BY <1>0, <1>7 DEF Cancelled, Noop, Concluding, Result
  <2>2. PICK status, next, occurrence :
          status \in {"cancelled", "skipped"} /\ Complete(w, Quietly(status), next, occurrence)
    BY <1>7 DEF Cancelled, Noop
  <2> QED
    BY <2>1, <2>2, CompleteSInv DEF Quietly
<1>8. CASE DispatchPending(w)
  <2> DEFINE g == [got[w] EXCEPT !.pending = @ - 1, !.delivered = TRUE]
  <2>1. g \in Result /\ g.delivered /\ g.status = "completed"
    BY <1>0, <1>8, OneDispatched DEF DispatchPending, Concluding
  <2>2. point' = [point EXCEPT ![w] = "conclude"] /\ got' = [got EXCEPT ![w] = g]
    BY <1>8 DEF DispatchPending, Concluding, HInv, Shape
  <2>3. Speak(w) /\ UNCHANGED storeVars /\ point[w] = "conclude"
    BY <1>8 DEF DispatchPending, Concluding
  <2> HIDE DEF g
  <2> QED
    BY <1>3, <2>1, <2>2, <2>3, OnwardSInv
<1>9. CASE LeavePending(w) \/ FailLines(w) \/ Activated(w)
  <2>1. point[w] = "conclude" /\ UNCHANGED spoken /\ got[w].delivered \in BOOLEAN
    BY <1>0, <1>9 DEF LeavePending, FailLines, Activated, Concluding, Result
  <2>2. CASE LeavePending(w)
    <3> DEFINE o == [status |-> "failed", generated |-> TRUE,
                     delivered |-> got[w].delivered]
    <3>1. Complete(w, o, At(w) + DeliveryRetry, 0)
      BY <2>2 DEF LeavePending
    <3> QED
      BY <2>1, <3>1, CompleteSInv
  <2>3. CASE FailLines(w)
    <3> DEFINE o == [status |-> "failed", generated |-> Generated(w), delivered |-> FALSE]
    <3>1. Complete(w, o, At(w) + DeliveryRetry, 0)
      BY <2>3 DEF FailLines
    <3>2. o.delivered = got[w].delivered /\ o.generated \in BOOLEAN
      BY <2>1, <2>3 DEF FailLines, Generated
    <3> QED
      BY <2>1, <3>1, <3>2, CompleteSInv
  <2>4. CASE Activated(w)
    <3> DEFINE o == [status |-> "activated", generated |-> Generated(w),
                     delivered |-> got[w].delivered]
    <3>1. Complete(w, o, after[w], occ[w])
      BY <2>4 DEF Activated
    <3>2. o.generated = got[w].delivered
      BY DEF Generated
    <3> QED
      BY <2>1, <3>1, <3>2, CompleteSInv
  <2> QED
    BY <1>9, <2>2, <2>3, <2>4
<1> QED
  BY <1>1, <1>2, <1>4, <1>5, <1>6, <1>7, <1>8, <1>9
     DEF Work, Careful, DispatchRaises, Crash

LEMMA NextSInv == Careful /\ HInv /\ SInv /\ [Next]_vars => SInv'
<1> SUFFICES ASSUME Careful, HInv, SInv, [Next]_vars PROVE SInv'
  OBVIOUS
<1>1. CASE UNCHANGED vars
  <2>1. Leased' /\ Alone' /\ Timely'
    BY <1>1 DEF vars, SInv, Leased, Alone, Timely, Due, RhythmOf, Busy
  <2>2. Remembered' /\ InOrder' /\ Completing' /\ OutreachSpaced'
    BY <1>1 DEF vars, SInv, Remembered, By, InOrder, Completing, OutreachSpaced, Busy
  <2> QED
    BY <2>1, <2>2 DEF SInv
<1>2. ASSUME NEW w \in Worker, NEW k \in Key, Claim(w, k) PROVE SInv'
  BY <1>2, ClaimSInv
<1> QED
  BY <1>1, <1>2, AdvanceSInv, WorkSInv DEF Next, Rest, Careful

\* Outreach keeps its distance, for any rhythms, retries, scripts and any number of
\* workers, as long as firings end within their leases and no exception is lost: a
\* rhythm anchored on its last delivery never speaks twice within its interval.
THEOREM SpacedOutreach ==
  ASSUME Careful
  PROVE  Spec => []OutreachSpaced
<1>1. SInv => OutreachSpaced
  BY DEF SInv
<1>2. HInv /\ SInv /\ [Next]_vars => SInv'
  BY NextSInv
<1> QED
  BY <1>1, <1>2, InitSInv, Inductive, PTL DEF Spec

-----------------------------------------------------------------------------
(***************************************************************************)
(* Calendars: what evaluate() may answer.  The occurrences of a cron are   *)
(* found by looking ahead at the local readings, the missed ones by a      *)
(* recursion over the times that have come; both are shown to be what they *)
(* claim for any cron, whichever way and whenever the clocks are moved.    *)
(***************************************************************************)
\* Every N numbers in a row have each residue of N among them.
LEMMA Residue ==
  ASSUME NEW N \in Nat \ {0}, NEW q \in Int, NEW m \in 0..(N - 1)
  PROVE  (N * q + m) % N = m
<1> DEFINE y == N * q + m
           p == y \div N
           e == y % N
<1>1. y \in Int /\ p \in Int /\ e \in 0..(N - 1) /\ y = N * p + e
  OBVIOUS
<1> HIDE DEF p, e
<1>2. N * (q - p) = e - m
  BY <1>1
<1>3. CASE q - p >= 1
  <2>1. N * (q - p) >= N
    BY <1>1, <1>3
  <2> QED  BY <1>1, <1>2, <2>1
<1>4. CASE q - p <= -1
  <2>1. N * (q - p) <= -N
    BY <1>1, <1>4
  <2> QED  BY <1>1, <1>2, <2>1
<1>5. CASE q = p
  BY <1>1, <1>2, <1>5 DEF e
<1> QED  BY <1>1, <1>3, <1>4, <1>5

\* Of N numbers in a row from x on, one leaves m.
ComesUp(N, m, x) == \E u \in x..(x + N - 1) : u % N = m

LEMMA EveryResidue ==
  ASSUME NEW N \in Nat \ {0}, NEW x \in Int, NEW m \in 0..(N - 1)
  PROVE  ComesUp(N, m, x)
<1> USE DEF ComesUp
<1> DEFINE q == x \div N
           e == x % N
<1>1. q \in Int /\ e \in 0..(N - 1) /\ x = N * q + e
  OBVIOUS
<1>2. CASE m >= e
  <2>1. N * q + m \in x..(x + N - 1)
    BY <1>1, <1>2
  <2> QED  BY <1>1, <2>1, Residue
<1>3. CASE m < e
  <2>1. N * (q + 1) + m \in x..(x + N - 1) /\ q + 1 \in Int
    BY <1>1, <1>3
  <2> QED  BY <2>1, Residue
<1> QED  BY <1>1, <1>2, <1>3

\* A set of numbers has a least one.
LEMMA Least ==
  ASSUME NEW S \in SUBSET Nat, S # {}
  PROVE  \E n \in S : \A m \in S : n <= m
<1>1. PICK x \in S : \A y \in S : <<y, x>> \notin OpToRel(<, Nat)
  BY NatLessThanWellFounded, WFMin
<1>2. OpToRel(<, Nat) = {ss \in Nat \X Nat : ss[1] < ss[2]}
  BY Zenon DEF OpToRel
<1>3. \A y \in S : ~(y < x)
  <2> SUFFICES ASSUME NEW y \in S, y < x PROVE FALSE
    OBVIOUS
  <2>1. <<y, x>> \in {ss \in Nat \X Nat : ss[1] < ss[2]}
    OBVIOUS
  <2> QED  BY <1>1, <1>2, <2>1
<1> QED  BY <1>3

\* Induction on the numbers, for a set of them.
LEMMA Induct ==
  ASSUME NEW S \in SUBSET Nat, 0 \in S, \A n \in S : n + 1 \in S
  PROVE  S = Nat
<1> SUFFICES ASSUME Nat \ S # {} PROVE FALSE
  OBVIOUS
<1>1. PICK n \in Nat \ S : \A m \in Nat \ S : n <= m
  BY Least
<1>2. n # 0 /\ n - 1 \in Nat /\ n - 1 \in S
  BY <1>1
<1> QED
  BY <1>2

\* Min and Max of the community modules, on the sets of times used here.
LEMMA MinOfTimes ==
  ASSUME NEW S \in SUBSET Nat, S # {}
  PROVE  Min(S) \in S /\ \A m \in S : Min(S) <= m
<1>1. \E n \in S : \A m \in S : n <= m
  BY Least
<1> QED  BY <1>1 DEF Min

LEMMA MaxOfTimes ==
  ASSUME NEW S \in SUBSET Nat, S # {}, NEW b \in Nat, \A n \in S : n <= b
  PROVE  Max(S) \in S /\ \A m \in S : m <= Max(S)
<1> DEFINE D == {d \in Nat : b - d \in S}
<1>1. D \in SUBSET Nat /\ D # {}
  <2>1. PICK n \in S : TRUE
    OBVIOUS
  <2>2. b - n \in Nat /\ b - (b - n) = n
    OBVIOUS
  <2> QED  BY <2>1, <2>2
<1>2. PICK d \in D : \A e \in D : d <= e
  BY <1>1, Least
<1>3. b - d \in S /\ d \in Nat
  OBVIOUS
<1>4. \A m \in S : m <= b - d
  <2> SUFFICES ASSUME NEW m \in S PROVE m <= b - d
    OBVIOUS
  <2>1. b - m \in Nat /\ b - (b - m) = m
    OBVIOUS
  <2>2. b - m \in D
    BY <2>1
  <2> QED  BY <1>2, <1>3, <2>1, <2>2
<1>5. \E n \in S : \A m \in S : m <= n
  BY <1>3, <1>4
<1> QED  BY <1>5 DEF Max

\* What RhythmAssumption says of a rhythm that a calendar rests on.
CalendarRhythm(r) ==
  /\ r.every \in Nat \ {0}
  /\ r.marks \subseteq 0..(r.every - 1) /\ r.marks # {}
  /\ r.change \in Nat /\ r.shift \in Int
  /\ r.fireOnce \in BOOLEAN /\ r.grace \in Nat

\* However the clocks are moved, another local reading the cron names comes
\* within the horizon the model looks ahead.
LEMMA OccurrenceComes ==
  ASSUME NEW r, CalendarRhythm(r), NEW t \in Nat
  PROVE  \E u \in Ahead(r, t) : Matches(r, u) /\ Wall(r, u) # Wall(r, t)
<1> DEFINE N == r.every
           c == r.change
           s == r.shift
<1>1. PICK m \in r.marks : TRUE
  BY DEF CalendarRhythm
<1>2. /\ N \in Nat \ {0} /\ m \in 0..(N - 1) /\ c \in Nat /\ s \in Int
      /\ r.every = N /\ r.change = c /\ r.shift = s
  BY <1>1 DEF CalendarRhythm
<1> HIDE DEF N, c, s
<1>3. CASE t >= c
  <2>1. PICK y \in (t + 1 + s)..((t + 1 + s) + N - 1) : y % N = m
    <3>1. t + 1 + s \in Int
      BY <1>2
    <3>2. ComesUp(N, m, t + 1 + s)
      BY <1>2, <3>1, EveryResidue, Zenon
    <3> QED  BY <3>2 DEF ComesUp
  <2> DEFINE u == y - s
  <2>2. u \in Ahead(r, t) /\ u >= c /\ u # t
    BY <1>2, <1>3 DEF Ahead
  <2>3. Wall(r, u) = y /\ Wall(r, t) = t + s
    BY <1>2, <1>3, <2>2 DEF Wall
  <2>4. Wall(r, u) # Wall(r, t)
    BY <1>2, <2>2, <2>3
  <2>5. Matches(r, u)
    BY <1>1, <1>2, <2>1, <2>3 DEF Matches
  <2> QED  BY <2>2, <2>4, <2>5
<1>4. CASE t + N < c
  <2>1. PICK u \in (t + 1)..((t + 1) + N - 1) : u % N = m
    <3>1. t + 1 \in Int
      OBVIOUS
    <3>2. ComesUp(N, m, t + 1)
      BY <1>2, <3>1, EveryResidue, Zenon
    <3> QED  BY <3>2 DEF ComesUp
  <2>2. u \in Ahead(r, t) /\ u < c /\ u # t /\ t < c
    BY <1>2, <1>4 DEF Ahead
  <2>3. Wall(r, u) = u /\ Wall(r, t) = t
    BY <1>2, <2>2 DEF Wall
  <2> QED  BY <1>1, <1>2, <2>1, <2>2, <2>3 DEF Matches
<1>5. CASE t < c /\ c <= t + N
  <2>1. PICK y \in Int : y >= c + s /\ y <= c + s + N - 1 /\ y % N = m
    <3> DEFINE x == c + s
    <3>1. x \in Int
      BY <1>2
    <3> HIDE DEF x
    <3>2. ComesUp(N, m, x)
      BY <1>2, <3>1, EveryResidue, Zenon
    <3>3. PICK y \in x..(x + N - 1) : y % N = m
      BY <3>2 DEF ComesUp
    <3>4. y \in Int /\ y >= x /\ y <= x + N - 1
      BY <1>2, <3>1, <3>3
    <3> QED  BY <1>2, <3>3, <3>4 DEF x
  <2>2. Wall(r, t) = t
    BY <1>2, <1>5 DEF Wall
  <2>3. CASE y # t
    <3> DEFINE u == y - s
    <3>1. u \in Ahead(r, t) /\ u >= c
      BY <1>2, <1>5, <2>1 DEF Ahead
    <3>2. Wall(r, u) = y
      BY <1>2, <2>1, <3>1 DEF Wall
    <3> QED  BY <1>1, <1>2, <2>1, <2>2, <2>3, <3>1, <3>2 DEF Matches
  <2>4. CASE y = t
    <3> DEFINE u == y - s + N
    <3>1. u \in Ahead(r, t) /\ u >= c
      BY <1>2, <1>5, <2>1, <2>4 DEF Ahead
    <3>2. Wall(r, u) = y + N
      BY <1>2, <2>1, <3>1 DEF Wall
    <3>3. (y + N) % N = m
      <4> DEFINE q == y \div N
      <4>1. y = N * q + m /\ q \in Int
        BY <1>2, <2>1
      <4> HIDE DEF q
      <4>2. y + N = N * (q + 1) + m /\ q + 1 \in Int
        BY <1>2, <4>1
      <4> QED  BY <1>2, <4>2, Residue
    <3> QED  BY <1>1, <1>2, <2>2, <2>4, <3>1, <3>2, <3>3 DEF Matches
  <2> QED  BY <2>3, <2>4
<1> QED  BY <1>2, <1>3, <1>4, <1>5

\* The next occurrence comes after the time it is looked for from.
LEMMA NextIsLater ==
  ASSUME NEW r, CalendarRhythm(r), NEW t \in Nat
  PROVE  /\ NextOccurrence(r, t) \in Nat /\ NextOccurrence(r, t) > t
         /\ Matches(r, NextOccurrence(r, t))
         /\ Wall(r, NextOccurrence(r, t)) # Wall(r, t)
<1> DEFINE S == {u \in Ahead(r, t) : Matches(r, u) /\ Wall(r, u) # Wall(r, t)}
<1>1. S # {}
  BY OccurrenceComes
<1>2. \A u \in Ahead(r, t) : u \in Nat /\ u > t
  BY DEF Ahead, CalendarRhythm
<1>3. S \in SUBSET Nat
  BY <1>2
<1> HIDE DEF S
<1>4. Min(S) \in S
  BY <1>1, <1>3, MinOfTimes
<1> QED  BY <1>2, <1>4 DEF S, NextOccurrence

\* What the recursion of Backlog asks of a function on the times from a to at.
Unfolds(g, r, a, at) ==
  g = [t \in a..at |-> LET u == NextOccurrence(r, t)
                       IN  IF u > at THEN {} ELSE {u} \cup g[u]]

\* There is one: every time depends on later ones only.
LEMMA UnfoldingExists ==
  ASSUME NEW r, CalendarRhythm(r), NEW at \in Nat, NEW a \in 0..at
  PROVE  \E g : Unfolds(g, r, a, at)
<1> DEFINE S == {n \in Nat : n <= at => \E g : Unfolds(g, r, at - n, at)}
           Next1(t) == NextOccurrence(r, t)
<1>1. \A t \in Nat : Next1(t) \in Nat /\ Next1(t) > t
  BY NextIsLater
<1> HIDE DEF Next1
<1>2. 0 \in S
  <2> DEFINE g == [t \in at..at |-> {}]
  <2>1. \A t \in at..at : t = at /\ Next1(t) > at
    BY <1>1
  <2>2. g = [t \in at..at |-> IF Next1(t) > at THEN {} ELSE {Next1(t)} \cup g[Next1(t)]]
    BY <2>1
  <2>3. Unfolds(g, r, at - 0, at)
    BY <2>2 DEF Unfolds, Next1
  <2> HIDE DEF g
  <2> QED  BY <2>3
<1>3. ASSUME NEW n \in S PROVE n + 1 \in S
  <2> SUFFICES ASSUME n + 1 <= at PROVE \E g : Unfolds(g, r, at - (n + 1), at)
    OBVIOUS
  <2>1. PICK g : Unfolds(g, r, at - n, at)
    OBVIOUS
  <2> DEFINE b == at - (n + 1)
             x == IF Next1(b) > at THEN {} ELSE {Next1(b)} \cup g[Next1(b)]
             h == [t \in b..at |-> IF t = b THEN x ELSE g[t]]
  <2>2. /\ b \in Nat /\ b + 1 = at - n
        /\ \A t \in b..at : t = b \/ t \in (at - n)..at
        /\ \A t \in (at - n)..at : t \in b..at /\ t # b
    OBVIOUS
  <2> HIDE DEF b
  <2>3. \A t \in (at - n)..at :
          g[t] = IF Next1(t) > at THEN {} ELSE {Next1(t)} \cup g[Next1(t)]
    BY <2>1 DEF Unfolds, Next1
  <2> HIDE DEF x
  <2>4. /\ h[b] = x /\ b \in b..at
        /\ \A t \in (at - n)..at : h[t] = g[t]
    BY <2>2
  <2>5. \A t \in b..at :
          h[t] = IF Next1(t) > at THEN {} ELSE {Next1(t)} \cup h[Next1(t)]
    <3> HIDE DEF h
    <3> SUFFICES ASSUME NEW t \in b..at
                 PROVE  h[t] = IF Next1(t) > at THEN {} ELSE {Next1(t)} \cup h[Next1(t)]
      OBVIOUS
    <3>1. Next1(t) \in Nat /\ Next1(t) > t
      BY <1>1, <2>2
    <3>2. Next1(t) <= at => Next1(t) \in (at - n)..at
      BY <2>2, <3>1
    <3>3. Next1(t) <= at => h[Next1(t)] = g[Next1(t)]
      BY <2>4, <3>2
    <3>4. h[t] = IF Next1(t) > at THEN {} ELSE {Next1(t)} \cup g[Next1(t)]
      <4>1. CASE t = b
        BY <2>4, <4>1 DEF x
      <4>2. CASE t # b
        <5>1. t \in (at - n)..at
          BY <2>2, <4>2
        <5> QED  BY <2>3, <2>4, <5>1
      <4> QED  BY <4>1, <4>2
    <3>5. CASE Next1(t) > at
      BY <3>4, <3>5
    <3>6. CASE ~(Next1(t) > at)
      BY <3>1, <3>3, <3>4, <3>6
    <3> QED  BY <3>5, <3>6
  <2>6. h = [t \in b..at |-> IF Next1(t) > at THEN {} ELSE {Next1(t)} \cup h[Next1(t)]]
    <3> HIDE DEF x
    <3> QED  BY <2>5
  <2> HIDE DEF h
  <2>7. Unfolds(h, r, b, at)
    BY <2>6 DEF Unfolds, Next1
  <2> QED  BY <2>7 DEF b
<1>4. S = Nat
  <2> HIDE DEF S
  <2>1. S \in SUBSET Nat
    BY DEF S
  <2> QED  BY <1>2, <1>3, <2>1, Induct
<1> DEFINE d == at - a
<1>5. d \in Nat /\ d <= at /\ at - d = a
  OBVIOUS
<1> HIDE DEF d
<1>6. \E g : Unfolds(g, r, at - d, at)
  BY <1>4, <1>5
<1> QED  BY <1>5, <1>6

\* So the recursion of Backlog has a value, and it is the one it asks for.
LEMMA BacklogUnfolds ==
  ASSUME NEW r, CalendarRhythm(r), NEW at \in Nat, NEW last \in 0..at
  PROVE  \E g : Unfolds(g, r, last, at) /\ Backlog(r, last, at) = g[last]
<1> DEFINE from == CHOOSE g : Unfolds(g, r, last, at)
<1>1. Unfolds(from, r, last, at)
  BY UnfoldingExists
<1>2. Backlog(r, last, at) = from[last]
  BY DEF Backlog, Unfolds
<1> QED  BY <1>1, <1>2

\* The backlog holds times after the last occurrence that have come, and with
\* any of them the one that follows if it has come too; each follows another or
\* the last.
LEMMA BacklogLaw ==
  ASSUME NEW r, CalendarRhythm(r), NEW at \in Nat, NEW last \in 0..at
  PROVE  LET B == Backlog(r, last, at) IN
         /\ B \in SUBSET Nat
         /\ \A u \in B : last < u /\ u <= at
         /\ \A u \in B \cup {last} :
              NextOccurrence(r, u) <= at => NextOccurrence(r, u) \in B
         /\ \A v \in B : \E u \in B \cup {last} : v = NextOccurrence(r, u)
<1>1. PICK g : Unfolds(g, r, last, at) /\ Backlog(r, last, at) = g[last]
  BY BacklogUnfolds
<1> DEFINE following(t) == NextOccurrence(r, t)
<1>2. \A t \in Nat : following(t) \in Nat /\ following(t) > t
  BY NextIsLater
<1>3. \A t \in last..at :
        g[t] = IF following(t) > at THEN {} ELSE {following(t)} \cup g[following(t)]
  BY <1>1 DEF Unfolds
<1> HIDE DEF following
<1> DEFINE P(t) == /\ g[t] \in SUBSET Nat
                   /\ \A u \in g[t] : t < u /\ u <= at
                   /\ \A u \in g[t] \cup {t} :
                        following(u) <= at => following(u) \in g[t]
                   /\ \A v \in g[t] : \E u \in g[t] \cup {t} : v = following(u)
           D == {n \in Nat : n <= at - last /\ ~P(at - n)}
<1>4. CASE D = {}
  <2>1. at - last \in Nat /\ at - (at - last) = last
    OBVIOUS
  <2> HIDE DEF P
  <2>2. \A n \in Nat : n <= at - last => P(at - n)
    BY <1>4
  <2> DEFINE d == at - last
  <2>3. d \in Nat /\ d <= at - last /\ at - d = last
    BY <2>1
  <2> HIDE DEF d
  <2>4. P(last)
    <3>1. P(at - d)
      BY <2>2, <2>3, Zenon
    <3> QED  BY <2>3, <3>1
  <2> USE DEF P
  <2> QED  BY <1>1, <2>4 DEF following
<1>5. CASE D # {}
  <2>1. PICK n \in D : \A m \in D : n <= m
    <3>1. D \in SUBSET Nat
      OBVIOUS
    <3> HIDE DEF D
    <3> QED  BY <1>5, <3>1, Least
  <2> DEFINE t == at - n
             u == following(t)
  <2>2. n \in Nat /\ n <= at - last /\ ~P(t)
    OBVIOUS
  <2>3. t \in last..at /\ t \in Nat
    BY <2>2
  <2>4. u \in Nat /\ u > t
    BY <1>2, <2>3
  <2> HIDE DEF P
  <2>5. u <= at => P(u)
    <3> SUFFICES ASSUME u <= at, ~P(u) PROVE FALSE
      OBVIOUS
    <3> DEFINE m == at - u
    <3>1. m \in Nat /\ m <= at - last /\ m < n /\ at - m = u
      BY <2>2, <2>3, <2>4
    <3> HIDE DEF m, u
    <3>2. m \in D
      BY <3>1
    <3> QED  BY <2>1, <2>2, <3>1, <3>2
  <2> HIDE DEF u, t, D
  <2>6. g[t] = IF u > at THEN {} ELSE {u} \cup g[u]
    BY <1>3, <2>3 DEF u
  <2>7. P(t)
    <3>1. CASE u > at
      <4>1. g[t] = {}
        BY <2>6, <3>1
      <4> QED  BY <2>4, <3>1, <4>1 DEF P, u
    <3>2. CASE u <= at
      <4>1. g[t] = {u} \cup g[u]
        BY <2>4, <2>6, <3>2
      <4>2. P(u)
        BY <2>5, <3>2
      <4>3. g[t] \in SUBSET Nat /\ \A v \in g[t] : t < v /\ v <= at
        BY <2>3, <2>4, <3>2, <4>1, <4>2 DEF P
      <4>4. \A v \in g[u] \cup {u} : following(v) <= at => following(v) \in g[t]
        BY <4>1, <4>2 DEF P
      <4>5. following(t) \in g[t]
        BY <4>1 DEF u
      <4>6. \A v \in g[t] \cup {t} : following(v) <= at => following(v) \in g[t]
        BY <4>1, <4>4, <4>5
      <4>7. \A v \in g[t] : \E x \in g[t] \cup {t} : v = following(x)
        <5> SUFFICES ASSUME NEW v \in g[t]
                     PROVE  \E x \in g[t] \cup {t} : v = following(x)
          OBVIOUS
        <5>1. CASE v = u
          BY <5>1 DEF u
        <5>2. CASE v \in g[u]
          BY <4>1, <4>2, <5>2 DEF P
        <5> QED  BY <4>1, <5>1, <5>2
      <4> QED  BY <4>3, <4>6, <4>7 DEF P
    <3> QED  BY <2>3, <2>4, <3>1, <3>2
  <2> QED  BY <2>2, <2>7
<1> QED  BY <1>4, <1>5

\* An evaluation looks ahead of its firing and never records an occurrence
\* before the last one.
Sound(e, last, at) ==
  /\ e.after \in Nat /\ e.after > at
  /\ ~e.due => e.next \in Nat /\ e.next > at
  /\ e.occ \in 0..at
  /\ e.occ = 0 \/ last <= e.occ

LEMMA CalendarIsSound ==
  ASSUME NEW r, CalendarRhythm(r), NEW at \in Nat, NEW s, s.occurrence \in 0..at
  PROVE  Sound(Calendar(r, s, at), s.occurrence, at)
<1> DEFINE last == IF s.occurrence = 0 THEN at ELSE s.occurrence
           B == Backlog(r, last, at)
           newest == Max(B)
           e == Calendar(r, s, at)
<1>1. last \in 0..at /\ last >= s.occurrence
  OBVIOUS
<1>2. e = IF B = {}
            THEN Quiet(NextOccurrence(r, last), IF s.occurrence = 0 THEN at ELSE 0)
          ELSE IF at - newest > r.grace /\ ~r.fireOnce
            THEN Quiet(NextOccurrence(r, newest), newest)
            ELSE Fires(NextOccurrence(r, newest), newest)
  BY DEF Calendar
<1> HIDE DEF last, e
<1>3. /\ B \in SUBSET Nat
      /\ \A u \in B : last < u /\ u <= at
      /\ \A u \in B \cup {last} :
           NextOccurrence(r, u) <= at => NextOccurrence(r, u) \in B
  BY <1>1, BacklogLaw
<1> HIDE DEF B
<1>4. CASE B = {}
  <2>1. NextOccurrence(r, last) \in Nat
    BY <1>1, NextIsLater
  <2>2. NextOccurrence(r, last) > at
    BY <1>3, <1>4, <2>1
  <2>3. e = Quiet(NextOccurrence(r, last), IF s.occurrence = 0 THEN at ELSE 0)
    BY <1>2, <1>4
  <2> QED  BY <2>1, <2>2, <2>3 DEF Quiet, Sound, e
<1>5. CASE B # {}
  <2>1. newest \in B /\ \A u \in B : u <= newest
    BY <1>3, <1>5, MaxOfTimes
  <2> HIDE DEF newest
  <2>2. newest \in 0..at /\ newest > last
    BY <1>1, <1>3, <2>1
  <2>3. NextOccurrence(r, newest) \in Nat /\ NextOccurrence(r, newest) > newest
    BY <2>2, NextIsLater
  <2>4. NextOccurrence(r, newest) > at
    BY <1>3, <2>1, <2>2, <2>3
  <2>5. \/ e = Quiet(NextOccurrence(r, newest), newest)
        \/ e = Fires(NextOccurrence(r, newest), newest)
    BY <1>2, <1>5
  <2>6. s.occurrence <= newest
    BY <1>1, <2>2
  <2> QED  BY <2>2, <2>3, <2>4, <2>5, <2>6 DEF Quiet, Fires, Sound, e
<1> QED  BY <1>4, <1>5

LEMMA IntervalIsSound ==
  ASSUME NEW r, r.every \in Nat \ {0}, r.jitter \in Nat, NEW anchor \in Nat,
         NEW at \in Nat, NEW last \in 0..at, NEW e \in Interval(r, anchor, at)
  PROVE  Sound(e, last, at)
<1>1. PICK j \in 0..r.jitter :
        \/ at < anchor + r.every /\ e = Quiet(anchor + r.every + j, 0)
        \/ e = Fires(at + r.every + j, 0)
  BY DEF Interval
<1>2. j \in Nat /\ r.every \in Nat /\ r.every > 0
  OBVIOUS
<1>3. CASE at < anchor + r.every /\ e = Quiet(anchor + r.every + j, 0)
  BY <1>2, <1>3 DEF Quiet, Sound
<1>4. CASE e = Fires(at + r.every + j, 0)
  BY <1>2, <1>4 DEF Fires, Sound
<1> QED  BY <1>1, <1>3, <1>4

LEMMA EvaluationIsSound ==
  ASSUME rhythm \in Rhythms, NEW w \in Worker, claim[w].key \in Key,
         At(w) \in Nat, claim[w].state.delivered \in Nat,
         claim[w].state.attempt \in Nat, claim[w].state.occurrence \in 0..At(w),
         NEW e \in Evaluations(w)
  PROVE  Sound(e, claim[w].state.occurrence, At(w))
<1> DEFINE r == RhythmOf(w)
           s == claim[w].state
<1>1. /\ r.kind \in RhythmKind /\ r.every \in Nat \ {0} /\ r.jitter \in Nat
      /\ CalendarRhythm(r)
  BY RhythmAssumption DEF RhythmOf, CalendarRhythm
<1> HIDE DEF r, s
<1>2. /\ s.delivered \in Nat /\ s.attempt \in Nat /\ s.occurrence \in 0..At(w)
  BY DEF s
<1>3. Evaluations(w) =
        CASE r.kind = "last_delivered" -> Interval(r, s.delivered, At(w))
          [] r.kind = "last_attempt" -> Interval(r, s.attempt, At(w))
          [] r.kind = "calendar" -> {Calendar(r, s, At(w))}
          [] r.kind = "dynamic" -> Dynamic(r, At(w))
  BY DEF Evaluations, r, s
<1>4. CASE r.kind = "last_delivered"
  <2>1. e \in Interval(r, s.delivered, At(w))
    BY <1>3, <1>4
  <2> QED  BY <1>1, <1>2, <2>1, IntervalIsSound DEF s
<1>5. CASE r.kind = "last_attempt"
  <2>1. e \in Interval(r, s.attempt, At(w))
    BY <1>3, <1>5
  <2> QED  BY <1>1, <1>2, <2>1, IntervalIsSound DEF s
<1>6. CASE r.kind = "calendar"
  <2>1. e = Calendar(r, s, At(w))
    BY <1>3, <1>6
  <2> QED  BY <1>1, <1>2, <2>1, CalendarIsSound DEF s
<1>7. CASE r.kind = "dynamic"
  <2>1. e \in Dynamic(r, At(w))
    BY <1>3, <1>7
  <2>2. PICK next \in (At(w) + 1)..(At(w) + r.every) :
          e = Quiet(next, 0) \/ e = Fires(next, 0)
    BY <2>1 DEF Dynamic
  <2>3. e.after = next /\ (~e.due => e.next = next) /\ e.occ = 0
    BY <2>2 DEF Fires, Quiet
  <2>4. next \in Nat /\ next > At(w)
    BY <1>1
  <2> QED  BY <1>2, <2>3, <2>4 DEF Sound
<1> QED  BY <1>1, <1>4, <1>5, <1>6, <1>7 DEF RhythmKind

-----------------------------------------------------------------------------
(***************************************************************************)
(* Occurrences and horizons.  A claim the store would accept was evaluated *)
(* on the occurrence the store still has, whatever was recorded in the     *)
(* meantime; what the firing will write lies between it and the claim.     *)
(***************************************************************************)
Accepted(w) == lease[claim[w].key].id = claim[w].id

\* What the claim of a busy worker holds.
Read(c) ==
  /\ c.state.attempt \in Nat /\ c.state.delivered \in Nat
  /\ c.state.occurrence \in 0..c.at

Dated == \A k \in Key : state[k].occurrence \in 0..now
Current ==
  \A w \in Worker : Busy(w) =>
    /\ Read(claim[w])
    /\ Accepted(w) => claim[w].state.occurrence = state[claim[w].key].occurrence
Decided ==
  /\ after = [w \in Worker |-> after[w]] /\ occ = [w \in Worker |-> occ[w]]
  /\ \A w \in Worker : Busy(w) =>
       /\ occ[w] \in 0..claim[w].at
       /\ occ[w] = 0 \/ claim[w].state.occurrence <= occ[w]
       /\ point[w] # "decide" => after[w] \in Nat /\ after[w] > claim[w].at
  /\ \A w \in Worker : ~Busy(w) => occ[w] = 0

OInv == Dated /\ Current /\ Decided

\* What a step may do to the occurrences, and how it may end a firing.
NoneTakenBack == \A k \in Key : state[k].occurrence <= state'[k].occurrence
EndedCleanly ==
  \A w \in Worker : LET k == claim[w].key IN
    Store!Active(w) /\ claim'[w] = NoClaim =>
      lease'[k].id = 0 /\ state'[k].next > At(w)
Forward == OInv' /\ NoneTakenBack /\ EndedCleanly

LEMMA InitOInv == Init => OInv
<1> SUFFICES ASSUME Init PROVE OInv
  OBVIOUS
<1> QED  BY DEF Init, Store!Init, OInv, Dated, Current, Decided, Busy

\* The store takes a settlement.
LEMMA SettleForward ==
  ASSUME HInv, OInv, NEW w \in Worker, Busy(w), NEW s,
         Store!Settle(w, s), End(w), s.next > At(w),
         \/ s.occurrence = state[claim[w].key].occurrence
         \/ /\ s.occurrence \in 0..claim[w].at
            /\ claim[w].state.occurrence <= s.occurrence
  PROVE  Forward
<1> DEFINE k == claim[w].key
<1>1. /\ k \in Key /\ Accepted(w) /\ claim[w].id # 0
      /\ claim[w].at \in 1..now /\ now \in Nat
      /\ state' = [state EXCEPT ![k] = s]
      /\ lease' = [lease EXCEPT ![k] = [id |-> 0, until |-> 0]]
      /\ claim' = [claim EXCEPT ![w] = NoClaim]
      /\ now' = now
      /\ point' = [point EXCEPT ![w] = "idle"]
      /\ after' = [after EXCEPT ![w] = 0]
      /\ occ' = [occ EXCEPT ![w] = 0]
  BY DEF HInv, Shape, Claimed, Accepted, Store!Settle, Store!Active, Store!NoLease,
         End, Goto
<1>2. /\ state'[k] = s
      /\ \A j \in Key \ {k} : state'[j] = state[j]
      /\ lease'[k].id = 0
      /\ \A j \in Key \ {k} : lease'[j] = lease[j]
  BY <1>1 DEF HInv, Shape
<1>3. /\ state[k].occurrence \in 0..now
      /\ claim[w].state.occurrence = state[k].occurrence
  BY <1>1 DEF OInv, Dated, Current
<1>4. s.occurrence \in 0..now /\ state[k].occurrence <= s.occurrence
  BY <1>1, <1>3
<1>5. NoneTakenBack
  <2>1. \A j \in Key : state[j].occurrence \in 0..now
    BY DEF OInv, Dated
  <2> QED  BY <1>1, <1>2, <1>4, <2>1 DEF NoneTakenBack
<1>6. Dated'
  BY <1>1, <1>2, <1>4 DEF OInv, Dated
<1>7. \A v \in Worker : Busy(v)' =>
        /\ v # w /\ Busy(v) /\ claim'[v] = claim[v] /\ point'[v] = point[v]
        /\ after'[v] = after[v] /\ occ'[v] = occ[v]
  BY <1>1 DEF HInv, Shape, Busy, OInv, Decided
<1>8. Current'
  <2> SUFFICES ASSUME NEW v \in Worker, Busy(v)'
               PROVE  /\ Read(claim'[v])
                      /\ Accepted(v)' => claim'[v].state.occurrence
                                           = state'[claim'[v].key].occurrence
    BY DEF Current, Accepted, Read
  <2>1. claim'[v] = claim[v] /\ Read(claim[v]) /\ claim[v].key \in Key
        /\ claim[v].id # 0
        /\ (Accepted(v) => claim[v].state.occurrence = state[claim[v].key].occurrence)
    BY <1>7 DEF OInv, Current, HInv, Claimed
  <2>2. CASE claim[v].key = k
    BY <1>2, <2>1, <2>2 DEF Accepted
  <2>3. CASE claim[v].key # k
    BY <1>2, <2>1, <2>3 DEF Accepted
  <2> QED  BY <2>2, <2>3
<1>9. Decided'
  <2>1. after' = [v \in Worker |-> after'[v]] /\ occ' = [v \in Worker |-> occ'[v]]
    BY <1>1 DEF OInv, Decided
  <2>2. \A v \in Worker : ~Busy(v)' => occ'[v] = 0
    BY <1>1 DEF HInv, Shape, Busy, OInv, Decided
  <2> QED  BY <1>7, <2>1, <2>2 DEF OInv, Decided
<1>10. EndedCleanly
  <2> SUFFICES ASSUME NEW v \in Worker, Store!Active(v), claim'[v] = NoClaim
               PROVE  lease'[claim[v].key].id = 0 /\ state'[claim[v].key].next > At(v)
    BY DEF EndedCleanly
  <2>1. v = w
    BY <1>1 DEF Store!Active, HInv, Shape
  <2> QED  BY <1>2, <2>1
<1> QED  BY <1>5, <1>6, <1>8, <1>9, <1>10 DEF Forward, OInv

\* A firing ends and the store does not change: it does not end cleanly if the
\* claim was still good.
LEMMA LetGoForward ==
  ASSUME HInv, OInv, NEW w \in Worker, Busy(w),
         claim' = [claim EXCEPT ![w] = NoClaim], UNCHANGED <<now, issued, state, lease>>,
         End(w)
  PROVE  OInv' /\ NoneTakenBack /\ (~Store!Active(w) => EndedCleanly)
<1>1. /\ point' = [point EXCEPT ![w] = "idle"]
      /\ after' = [after EXCEPT ![w] = 0]
      /\ occ' = [occ EXCEPT ![w] = 0]
      /\ now' = now /\ state' = state /\ lease' = lease
  BY DEF End, Goto
<1>2. \A v \in Worker : Busy(v)' =>
        /\ v # w /\ Busy(v) /\ claim'[v] = claim[v] /\ point'[v] = point[v]
        /\ after'[v] = after[v] /\ occ'[v] = occ[v]
  BY <1>1 DEF HInv, Shape, Busy, OInv, Decided
<1>3. Dated' /\ NoneTakenBack
  BY <1>1 DEF OInv, Dated, NoneTakenBack, HInv, Shape
<1>4. Current'
  BY <1>1, <1>2 DEF OInv, Current, Accepted, Read
<1>5. Decided'
  <2>1. after' = [v \in Worker |-> after'[v]] /\ occ' = [v \in Worker |-> occ'[v]]
    BY <1>1 DEF OInv, Decided
  <2>2. \A v \in Worker : ~Busy(v)' => occ'[v] = 0
    BY <1>1 DEF HInv, Shape, Busy, OInv, Decided
  <2> QED  BY <1>2, <2>1, <2>2 DEF OInv, Decided
<1>6. ~Store!Active(w) => EndedCleanly
  BY DEF EndedCleanly, Store!Active, HInv, Shape
<1> QED  BY <1>3, <1>4, <1>5, <1>6 DEF OInv

LEMMA CompleteForward ==
  ASSUME HInv, OInv, NEW w \in Worker, Busy(w), NEW o, NEW next, NEW occurrence,
         Complete(w, o, next, occurrence), next > At(w),
         occurrence \in 0..claim[w].at,
         occurrence = 0 \/ claim[w].state.occurrence <= occurrence
  PROVE  Forward
<1> DEFINE c == claim[w]
           s == Store!Completed(state[c.key], c, o, next, occurrence)
<1>1. CASE Store!Complete(w, o, next, occurrence)
  <2>1. Store!Settle(w, s) /\ End(w)
    BY <1>1 DEF Store!Complete, Complete
  <2>2. /\ s.next = next
        /\ s.occurrence = IF occurrence = 0 THEN state[c.key].occurrence
                                            ELSE occurrence
    BY DEF Store!Completed
  <2> HIDE DEF s
  <2> QED  BY <2>1, <2>2, SettleForward
<1>2. CASE Store!Refused(w)
  BY <1>2, LetGoForward DEF Store!Refused, Complete, Forward
<1> QED  BY <1>1, <1>2 DEF Complete

LEMMA AbandonForward ==
  ASSUME HInv, OInv, NEW w \in Worker, Busy(w), NEW next, Abandon(w, next),
         next > At(w)
  PROVE  Forward
<1> DEFINE c == claim[w]
           s == [state[c.key] EXCEPT !.next = next]
<1>1. CASE Store!Abandon(w, next)
  <2>1. Store!Settle(w, s) /\ End(w) /\ c.key \in Key
    BY <1>1 DEF Store!Abandon, Abandon, HInv, Claimed
  <2> DEFINE old == state[c.key]
  <2>2. old = [next |-> old.next, attempt |-> old.attempt, generated |-> old.generated,
               delivered |-> old.delivered, occurrence |-> old.occurrence]
    BY <2>1 DEF HInv, Shape, IsState
  <2>3. s.next = next /\ s.occurrence = old.occurrence
    BY <2>2
  <2> HIDE DEF s
  <2> QED  BY <2>1, <2>3, SettleForward
<1>2. CASE Store!Refused(w)
  BY <1>2, LetGoForward DEF Store!Refused, Abandon, Forward
<1> QED  BY <1>1, <1>2 DEF Abandon

\* A busy worker goes on, with what it has decided.
LEMMA OnwardForward ==
  ASSUME HInv, OInv, NEW w \in Worker, Busy(w), UNCHANGED storeVars,
         NEW p \in Point \ {"idle", "decide"}, point' = [point EXCEPT ![w] = p],
         NEW a \in Nat, a > At(w), after' = [after EXCEPT ![w] = a],
         NEW n \in 0..At(w), n = 0 \/ claim[w].state.occurrence <= n,
         occ' = [occ EXCEPT ![w] = n]
  PROVE  Forward
<1>1. now' = now /\ state' = state /\ lease' = lease /\ claim' = claim
  BY DEF storeVars
<1>2. \A v \in Worker : Busy(v)' => Busy(v)
  BY DEF HInv, Shape, Busy
<1>3. \A v \in Worker \ {w} :
        point'[v] = point[v] /\ after'[v] = after[v] /\ occ'[v] = occ[v]
  BY DEF HInv, Shape, OInv, Decided
<1>4. point'[w] = p /\ after'[w] = a /\ occ'[w] = n
  BY DEF HInv, Shape, OInv, Decided
<1>5. Dated' /\ NoneTakenBack
  BY <1>1 DEF OInv, Dated, NoneTakenBack, HInv, Shape
<1>6. Current'
  BY <1>1, <1>2 DEF OInv, Current, Accepted, Read
<1>7. Decided'
  <2>1. after' = [v \in Worker |-> after'[v]] /\ occ' = [v \in Worker |-> occ'[v]]
    BY DEF OInv, Decided
  <2>2. ASSUME NEW v \in Worker, Busy(v)'
        PROVE  /\ occ'[v] \in 0..claim'[v].at
               /\ occ'[v] = 0 \/ claim'[v].state.occurrence <= occ'[v]
               /\ point'[v] # "decide" => after'[v] \in Nat /\ after'[v] > claim'[v].at
    <3>1. CASE v = w
      BY <1>1, <1>4, <3>1 DEF At
    <3>2. CASE v # w
      BY <1>1, <1>2, <1>3, <2>2, <3>2 DEF OInv, Decided
    <3> QED  BY <3>1, <3>2
  <2>3. \A v \in Worker : ~Busy(v)' => occ'[v] = 0
    <3>1. Busy(w)'
      BY <1>4 DEF Busy
    <3> QED  BY <1>3, <3>1 DEF Busy, OInv, Decided
  <2> QED  BY <2>1, <2>2, <2>3 DEF Decided
<1>8. EndedCleanly
  BY <1>1 DEF EndedCleanly, Store!Active
<1> QED  BY <1>5, <1>6, <1>7, <1>8 DEF Forward, OInv

LEMMA AdvanceForward ==
  ASSUME HInv, OInv, Advance
  PROVE  Forward
<1>1. /\ now' = now + 1 /\ now \in Nat
      /\ state' = state /\ lease' = lease /\ claim' = claim /\ point' = point
      /\ after' = after /\ occ' = occ
  BY DEF Advance, Store!Advance, firingVars, HInv, Shape
<1>2. Dated' /\ NoneTakenBack
  BY <1>1 DEF OInv, Dated, NoneTakenBack
<1>3. Current' /\ Decided'
  BY <1>1 DEF OInv, Current, Decided, Busy, Accepted, Read
<1>4. EndedCleanly
  BY <1>1 DEF EndedCleanly, Store!Active
<1> QED  BY <1>2, <1>3, <1>4 DEF Forward, OInv

LEMMA ClaimForward ==
  ASSUME HInv, OInv, NEW w \in Worker, NEW k \in Key, Claim(w, k)
  PROVE  Forward
<1> DEFINE id == issued + 1
           c == [key |-> k, id |-> id, until |-> now + Lease, at |-> now,
                 state |-> state[k]]
<1>1. /\ point[w] = "idle" /\ point' = [point EXCEPT ![w] = "decide"]
      /\ issued' = id /\ issued \in Nat
      /\ lease' = [lease EXCEPT ![k] = [id |-> id, until |-> now + Lease]]
      /\ claim' = [claim EXCEPT ![w] = c] /\ claim[w] = NoClaim
      /\ now' = now /\ state' = state /\ after' = after /\ occ' = occ
  BY DEF Claim, Store!ClaimDue, Goto, firingVars, HInv, Shape
<1>2. /\ claim'[w] = c
      /\ \A v \in Worker \ {w} : claim'[v] = claim[v] /\ point'[v] = point[v]
      /\ lease'[k].id = id
      /\ \A j \in Key \ {k} : lease'[j] = lease[j]
  BY <1>1 DEF HInv, Shape
<1>3. Dated' /\ NoneTakenBack
  BY <1>1 DEF OInv, Dated, NoneTakenBack, HInv, Shape
<1>4. state[k].occurrence \in 0..now /\ state[k].attempt \in Nat
      /\ state[k].delivered \in Nat
  BY DEF OInv, Dated, HInv, Shape, IsState
<1>5. Current'
  <2> SUFFICES ASSUME NEW v \in Worker, Busy(v)'
               PROVE  /\ Read(claim'[v])
                      /\ Accepted(v)' => claim'[v].state.occurrence
                                           = state'[claim'[v].key].occurrence
    BY DEF Current, Accepted, Read
  <2>1. CASE v = w
    BY <1>1, <1>2, <1>4, <2>1 DEF Read
  <2>2. CASE v # w
    <3>1. /\ Busy(v) /\ claim'[v] = claim[v] /\ Read(claim[v])
          /\ claim[v].key \in Key /\ claim[v].id \in 1..issued
          /\ Accepted(v) => claim[v].state.occurrence = state[claim[v].key].occurrence
      BY <1>2, <2>2 DEF Busy, OInv, Current, HInv, Claimed
    <3>2. claim[v].id # id
      BY <1>1, <3>1
    <3>3. Accepted(v)' => Accepted(v)
      BY <1>2, <3>1, <3>2 DEF Accepted
    <3> QED  BY <1>1, <3>1, <3>3
  <2> QED  BY <2>1, <2>2
<1>6. Decided'
  <2>1. point'[w] = "decide" /\ occ[w] = 0 /\ Busy(w)'
    BY <1>1 DEF HInv, Shape, OInv, Decided, Busy
  <2>2. ASSUME NEW v \in Worker, Busy(v)'
        PROVE  /\ occ[v] \in 0..claim'[v].at
               /\ occ[v] = 0 \/ claim'[v].state.occurrence <= occ[v]
               /\ point'[v] # "decide" =>
                    after[v] \in Nat /\ after[v] > claim'[v].at
    <3>1. CASE v # w
      BY <1>2, <2>2, <3>1 DEF Busy, OInv, Decided
    <3>2. CASE v = w
      <4>1. now \in Nat
        BY DEF HInv, Shape
      <4> QED  BY <1>2, <2>1, <3>2, <4>1
    <3> QED  BY <3>1, <3>2
  <2>3. \A v \in Worker : ~Busy(v)' => occ[v] = 0
    BY <1>2, <2>1 DEF Busy, OInv, Decided
  <2> QED  BY <1>1, <2>2, <2>3 DEF OInv, Decided
<1>7. EndedCleanly
  BY <1>1, <1>2 DEF EndedCleanly, Store!Active
<1> QED  BY <1>3, <1>5, <1>6, <1>7 DEF Forward, OInv

LEMMA WorkForward ==
  ASSUME HInv, OInv, NEW w \in Worker, Work(w)
  PROVE  OInv' /\ NoneTakenBack /\ (~MayCrash /\ ~LosesDispatch => EndedCleanly)
<1> USE DEF Busy, Point
<1>0. Busy(w)
  BY DEF Work, StayQuiet, Decide, Forgo, Clear, Handle, Fail, Cancelled, Noop,
         DispatchPending, LeavePending, DispatchRaises, FailLines, Activated,
         Crash, Concluding, Store!Lose, HInv, Idle
<1>1. /\ claim[w].key \in Key /\ At(w) \in Nat /\ At(w) = claim[w].at
      /\ Read(claim[w]) /\ rhythm \in Rhythms
      /\ DenialRecheck \in Nat \ {0} /\ DeliveryRetry \in Nat \ {0}
  <2>1. DenialRecheck \in Nat \ {0} /\ DeliveryRetry \in Nat \ {0}
    BY LoopAssumption
  <2>2. claim[w].key \in Key /\ claim[w].at \in 1..now /\ now \in Nat
    BY <1>0 DEF HInv, Claimed, Shape
  <2>3. Read(claim[w]) /\ rhythm \in Rhythms
    BY <1>0 DEF OInv, Current, HInv, Shape
  <2>4. At(w) = claim[w].at /\ At(w) \in Nat
    BY <2>2 DEF At
  <2> QED  BY <2>1, <2>2, <2>3, <2>4
<1>2. /\ occ[w] \in 0..At(w)
      /\ occ[w] = 0 \/ claim[w].state.occurrence <= occ[w]
      /\ point[w] # "decide" => after[w] \in Nat /\ after[w] > At(w)
  BY <1>0, <1>1 DEF OInv, Decided
<1>3. \A e \in Evaluations(w) : Sound(e, claim[w].state.occurrence, At(w))
  BY <1>1, EvaluationIsSound DEF Read
<1>4. ASSUME NEW o, NEW wait \in Nat \ {0}, Complete(w, o, At(w) + wait, 0)
      PROVE  Forward
  <2> DEFINE next == At(w) + wait
  <2>1. next > At(w) /\ 0 \in 0..claim[w].at
    BY <1>1
  <2> HIDE DEF next
  <2>2. Complete(w, o, next, 0)
    BY <1>4 DEF next
  <2> QED  BY <1>0, <2>1, <2>2, CompleteForward
<1>5. ASSUME NEW o, NEW n \in {0, occ[w]}, point[w] # "decide",
             Complete(w, o, after[w], n)
      PROVE  Forward
  BY <1>0, <1>1, <1>2, <1>5, CompleteForward
<1>6. CASE StayQuiet(w)
  <2>1. PICK e \in Evaluations(w) : ~e.due /\ Complete(w, Quietly("skipped"), e.next, e.occ)
    BY <1>6 DEF StayQuiet
  <2>2. e.next > At(w) /\ e.occ \in 0..claim[w].at
        /\ (e.occ = 0 \/ claim[w].state.occurrence <= e.occ)
    BY <1>1, <1>3, <2>1 DEF Sound
  <2> QED  BY <1>0, <2>1, <2>2, CompleteForward DEF Forward
<1>7. CASE Decide(w)
  <2>1. PICK e \in Evaluations(w) : /\ after' = [after EXCEPT ![w] = e.after]
                                    /\ occ' = [occ EXCEPT ![w] = e.occ]
    BY <1>7 DEF Decide
  <2>2. /\ e.after \in Nat /\ e.after > At(w) /\ e.occ \in 0..At(w)
        /\ e.occ = 0 \/ claim[w].state.occurrence <= e.occ
    BY <1>3 DEF Sound
  <2>3. point' = [point EXCEPT ![w] = "plan"] /\ UNCHANGED storeVars
    BY <1>7 DEF Decide, Goto
  <2> QED  BY <1>0, <2>1, <2>2, <2>3, OnwardForward DEF Forward
<1>8. CASE Clear(w) \/ Handle(w) \/ DispatchPending(w)
  <2>1. after' = [after EXCEPT ![w] = after[w]] /\ occ' = [occ EXCEPT ![w] = occ[w]]
    BY <1>8 DEF Clear, Handle, DispatchPending, firingVars, OInv, Decided
  <2>2. PICK p \in Point \ {"idle", "decide"} : point' = [point EXCEPT ![w] = p]
    <3>1. CASE Clear(w)
      BY <3>1 DEF Clear, Goto
    <3>2. CASE Handle(w)
      BY <3>2 DEF Handle, Goto
    <3>3. CASE DispatchPending(w)
      <4>1. point' = [point EXCEPT ![w] = "conclude"]
        BY <3>3 DEF DispatchPending, Concluding, HInv, Shape
      <4> QED  BY <4>1
    <3> QED  BY <1>8, <3>1, <3>2, <3>3
  <2>3. UNCHANGED storeVars /\ point[w] # "decide"
    BY <1>8 DEF Clear, Handle, DispatchPending, Concluding
  <2> QED  BY <1>0, <1>1, <1>2, <2>1, <2>2, <2>3, OnwardForward DEF Forward
<1>9. CASE Forgo(w)
  <2>1. PICK wait \in {1, DenialRecheck} :
          \E o : Complete(w, o, At(w) + wait, 0)
    BY <1>9 DEF Forgo
  <2>2. wait \in Nat \ {0}
    BY <1>1
  <2> QED  BY <1>4, <2>1, <2>2 DEF Forward
<1>10. CASE Fail(w)
  <2> DEFINE next == At(w) + DeliveryRetry
  <2>1. next > At(w) /\ Abandon(w, next)
    BY <1>1, <1>10 DEF Fail
  <2> HIDE DEF next
  <2> QED  BY <1>0, <2>1, AbandonForward DEF Forward
<1>11. CASE Cancelled(w) \/ Noop(w) \/ Activated(w)
  <2>1. point[w] # "decide"
    BY <1>11 DEF Cancelled, Noop, Activated, Concluding
  <2>2. \E o, n : n \in {0, occ[w]} /\ Complete(w, o, after[w], n)
    BY <1>11 DEF Cancelled, Noop, Activated
  <2> QED  BY <1>5, <2>1, <2>2 DEF Forward
<1>12. CASE LeavePending(w) \/ FailLines(w)
  <2>1. \E o : Complete(w, o, At(w) + DeliveryRetry, 0)
    BY <1>12 DEF LeavePending, FailLines
  <2> QED  BY <1>1, <1>4, <2>1 DEF Forward
<1>13. CASE DispatchRaises(w) \/ Crash(w)
  <2>1. /\ claim' = [claim EXCEPT ![w] = NoClaim]
        /\ UNCHANGED <<now, issued, state, lease>>
        /\ End(w)
        /\ MayCrash \/ LosesDispatch
    BY <1>13 DEF DispatchRaises, Crash, Store!Lose
  <2> QED  BY <1>0, <2>1, LetGoForward
<1> QED
  BY <1>6, <1>7, <1>8, <1>9, <1>10, <1>11, <1>12, <1>13 DEF Work

LEMMA NextForward ==
  ASSUME HInv, OInv, [Next]_vars
  PROVE  OInv' /\ NoneTakenBack /\ (~MayCrash /\ ~LosesDispatch => EndedCleanly)
<1>1. CASE UNCHANGED vars
  <2>1. /\ now' = now /\ state' = state /\ lease' = lease /\ claim' = claim
        /\ point' = point /\ after' = after /\ occ' = occ
    BY <1>1 DEF vars
  <2>2. OInv'
    BY <2>1 DEF OInv, Dated, Current, Decided, Busy, Accepted, Read
  <2>3. NoneTakenBack
    BY <2>1 DEF NoneTakenBack, OInv, Dated, HInv, Shape
  <2>4. EndedCleanly
    BY <2>1 DEF EndedCleanly, Store!Active
  <2> QED  BY <2>2, <2>3, <2>4
<1>2. ASSUME NEW w \in Worker, NEW k \in Key, Claim(w, k) PROVE Forward
  BY <1>2, ClaimForward
<1>3. CASE Advance
  BY <1>3, AdvanceForward DEF Forward
<1>4. ASSUME NEW w \in Worker, Work(w)
      PROVE  OInv' /\ NoneTakenBack /\ (~MayCrash /\ ~LosesDispatch => EndedCleanly)
  BY <1>4, WorkForward
<1> QED
  BY <1>1, <1>2, <1>3, <1>4 DEF Next, Rest, Forward

LEMMA OInductive == Spec => []OInv
  BY InitOInv, NextForward, Inductive, PTL DEF Spec

\* No worker, however late, and whatever crashed, expired or was taken over in
\* the meantime, sets a rhythm back to an occurrence that was dealt with, by any
\* cron and whichever way the clocks are moved.
THEOREM OccurrencesOnlyAdvance == Spec => OccurrencesAdvance
<1>1. HInv /\ OInv /\ [Next]_vars
        => [\A k \in Key : state[k].occurrence <= state'[k].occurrence]_vars
  BY NextForward DEF NoneTakenBack
<1> QED
  BY <1>1, Inductive, OInductive, PTL DEF Spec, OccurrencesAdvance

\* Where workers do not die and the dispatcher's exceptions do not get lost,
\* every firing whose claim is still good ends with the rhythm free and its next
\* check after the firing: none is lost, none is retried at once.
THEOREM FiringsEndCleanly ==
  ASSUME ~MayCrash, ~LosesDispatch
  PROVE  Spec => EndsCleanly
<1>1. HInv /\ OInv /\ [Next]_vars
        => [\A w \in Worker : LET k == claim[w].key IN
              Store!Active(w) /\ claim'[w] = NoClaim =>
                lease'[k].id = 0 /\ state'[k].next > At(w)]_vars
  BY NextForward DEF EndedCleanly
<1> QED
  BY <1>1, Inductive, OInductive, PTL DEF Spec, EndsCleanly

-----------------------------------------------------------------------------
(***************************************************************************)
(* The loop uses the store as PulseStore says workers use it, whatever     *)
(* outcomes, horizons and occurrences they come up with, and so inherits   *)
(* what PulseStoreProofs shows of it.                                      *)
(***************************************************************************)
AnyStore == INSTANCE PulseStoreProofs WITH
              Outcomes <- Store!Outcome, Horizons <- Nat, Occurrences <- Nat

LEMMA StoreAssumptions ==
  AnyStore!TimeAssumption /\ AnyStore!NoClaimAssumption /\ AnyStore!OutcomeAssumption
<1>1. AnyStore!TimeAssumption
  BY LoopAssumption DEF AnyStore!TimeAssumption
<1>2. AnyStore!NoClaimAssumption
  BY NoClaimAssumption DEF AnyStore!NoClaimAssumption, AnyStore!Claim, Store!Claim,
       AnyStore!State, Store!State, AnyStore!Time, Store!Time
<1>3. AnyStore!OutcomeAssumption
  BY DEF AnyStore!OutcomeAssumption, AnyStore!Outcome, Store!Outcome
<1> QED  BY <1>1, <1>2, <1>3

\* complete() and abandon(), accepted or refused, are the store's.
LEMMA CompleteUsesStore ==
  ASSUME NEW w \in Worker, NEW o \in Store!Outcome, NEW next \in Nat, NEW n \in Nat,
         Complete(w, o, next, n)
  PROVE  AnyStore!Work(w)
<1>1. CASE Store!Complete(w, o, next, n)
  <2>1. AnyStore!Complete(w, o, next, n) /\ AnyStore!Active(w)
    BY <1>1 DEF Store!Complete, AnyStore!Complete, Store!Settle, AnyStore!Settle,
         Store!Active, AnyStore!Active, Store!NoLease, AnyStore!NoLease,
         Store!Completed, AnyStore!Completed, Store!Stamped, AnyStore!Stamped
  <2> QED  BY <2>1 DEF AnyStore!Work
<1>2. CASE Store!Refused(w)
  BY <1>2 DEF Store!Refused, AnyStore!Refused, Store!Active, AnyStore!Active,
       AnyStore!Work
<1> QED  BY <1>1, <1>2 DEF Complete

LEMMA AbandonUsesStore ==
  ASSUME NEW w \in Worker, NEW next \in Nat, Abandon(w, next)
  PROVE  AnyStore!Work(w)
<1>1. CASE Store!Abandon(w, next)
  <2>1. AnyStore!Abandon(w, next) /\ AnyStore!Active(w)
    BY <1>1 DEF Store!Abandon, AnyStore!Abandon, Store!Settle, AnyStore!Settle,
         Store!Active, AnyStore!Active, Store!NoLease, AnyStore!NoLease
  <2> QED  BY <2>1 DEF AnyStore!Work
<1>2. CASE Store!Refused(w)
  BY <1>2 DEF Store!Refused, AnyStore!Refused, Store!Active, AnyStore!Active,
       AnyStore!Work
<1> QED  BY <1>1, <1>2 DEF Abandon

\* What a worker reports is an outcome, and its horizons and occurrences times.
LEMMA WorkUsesStore ==
  ASSUME HInv, OInv, NEW w \in Worker, Work(w)
  PROVE  AnyStore!Work(w) \/ UNCHANGED storeVars
<1>0. Busy(w)
  BY DEF Busy, Work, StayQuiet, Decide, Forgo, Clear, Handle, Fail, Cancelled, Noop,
         DispatchPending, LeavePending, DispatchRaises, FailLines, Activated,
         Crash, Concluding, Store!Lose, HInv, Idle
<1>1. /\ At(w) \in Nat /\ DenialRecheck \in Nat /\ DeliveryRetry \in Nat
      /\ got[w].delivered \in BOOLEAN
  <2>1. DenialRecheck \in Nat /\ DeliveryRetry \in Nat
    BY LoopAssumption
  <2>2. claim[w].at \in 1..now /\ now \in Nat /\ got[w] \in Result
    BY <1>0 DEF HInv, Claimed, Shape
  <2> QED  BY <2>1, <2>2 DEF At, Result
<1>2. /\ occ[w] \in Nat
      /\ point[w] # "decide" => after[w] \in Nat
  BY <1>0, <1>1 DEF OInv, Decided, At
<1>3. At(w) + DeliveryRetry \in Nat /\ \A wait \in {1, DenialRecheck} : At(w) + wait \in Nat
  BY <1>1
<1>4. \A status \in {"skipped", "denied", "cancelled"} : Quietly(status) \in Store!Outcome
  BY DEF Quietly, Store!Outcome
<1>5. CASE StayQuiet(w)
  <2>1. PICK e \in Evaluations(w) : ~e.due /\ Complete(w, Quietly("skipped"), e.next, e.occ)
    BY <1>5 DEF StayQuiet
  <2>2. Sound(e, claim[w].state.occurrence, At(w))
    <3>1. claim[w].key \in Key /\ rhythm \in Rhythms /\ Read(claim[w])
      BY <1>0 DEF HInv, Claimed, Shape, OInv, Current
    <3> QED  BY <1>1, <3>1, EvaluationIsSound DEF Read, At
  <2>3. e.next \in Nat /\ e.occ \in Nat
    BY <2>1, <2>2 DEF Sound
  <2> QED  BY <1>4, <2>1, <2>3, CompleteUsesStore
<1>6. CASE Decide(w) \/ Clear(w) \/ Handle(w) \/ DispatchPending(w)
  BY <1>6 DEF Decide, Clear, Handle, DispatchPending
<1>7. CASE Forgo(w)
  BY <1>3, <1>4, <1>7, CompleteUsesStore DEF Forgo
<1>8. CASE Fail(w)
  BY <1>3, <1>8, AbandonUsesStore DEF Fail
<1>9. CASE Cancelled(w) \/ Noop(w)
  BY <1>2, <1>4, <1>9, CompleteUsesStore DEF Cancelled, Noop, Concluding
<1>10. CASE LeavePending(w)
  <2> DEFINE o == [status |-> "failed", generated |-> TRUE, delivered |-> got[w].delivered]
  <2>1. o \in Store!Outcome
    BY <1>1 DEF Store!Outcome
  <2> QED  BY <1>3, <1>10, <2>1, CompleteUsesStore DEF LeavePending
<1>11. CASE FailLines(w)
  <2> DEFINE o == [status |-> "failed", generated |-> Generated(w), delivered |-> FALSE]
  <2>1. o \in Store!Outcome
    BY <1>1 DEF Store!Outcome, Generated
  <2> QED  BY <1>3, <1>11, <2>1, CompleteUsesStore DEF FailLines
<1>12. CASE Activated(w)
  <2> DEFINE o == [status |-> "activated", generated |-> Generated(w),
                   delivered |-> got[w].delivered]
  <2>1. o \in Store!Outcome
    BY <1>1 DEF Store!Outcome, Generated
  <2> QED  BY <1>2, <1>12, <2>1, CompleteUsesStore DEF Activated, Concluding
<1>13. CASE DispatchRaises(w) \/ Crash(w)
  BY <1>13 DEF DispatchRaises, Crash, Store!Lose, AnyStore!Lose, AnyStore!Work
<1> QED
  BY <1>5, <1>6, <1>7, <1>8, <1>9, <1>10, <1>11, <1>12, <1>13 DEF Work

LEMMA NextUsesStore ==
  ASSUME HInv, OInv, [Next]_vars
  PROVE  [AnyStore!Next]_(AnyStore!vars)
<1> USE DEF AnyStore!Next, AnyStore!vars
<1>1. CASE Advance
  BY <1>1 DEF Advance, Store!Advance, AnyStore!Advance
<1>2. ASSUME NEW w \in Worker, Work(w) PROVE [AnyStore!Next]_(AnyStore!vars)
  BY <1>2, WorkUsesStore DEF storeVars
<1>3. ASSUME NEW w \in Worker, NEW k \in Key, Claim(w, k) PROVE AnyStore!Next
  BY <1>3 DEF Claim, Store!ClaimDue, AnyStore!ClaimDue, Store!Free, AnyStore!Free,
       Store!Due, AnyStore!Due
<1>4. CASE Rest \/ UNCHANGED vars
  BY <1>4 DEF Rest, vars
<1> QED  BY <1>1, <1>2, <1>3, <1>4 DEF Next

\* The pulse loops implement the users that PulseStore allows a store to have:
\* whatever they decide, whenever they fail or die, nothing they do to the store
\* is outside of its specification.
THEOREM FiringsUseTheStore == Spec => AnyStore!Spec
<1>1. Init => AnyStore!Init
  BY DEF Init, Store!Init, AnyStore!Init, Store!NoLease, AnyStore!NoLease
<1> QED
  BY <1>1, NextUsesStore, Inductive, OInductive, PTL DEF Spec, AnyStore!Spec

\* At most one firing of a rhythm is owned at a time, and no claim is taken from
\* its worker before it expires, whatever the loops do.
THEOREM OneFiring == Spec => []Store!OneOwner
<1>1. AnyStore!OneOwner => Store!OneOwner
  BY DEF AnyStore!OneOwner, Store!OneOwner, AnyStore!Unexpired, Store!Unexpired,
       AnyStore!Active, Store!Active
<1>2. AnyStore!Spec => []AnyStore!OneOwner
  BY StoreAssumptions, AnyStore!AtMostOneOwner
<1> QED  BY <1>1, <1>2, FiringsUseTheStore, PTL

\* A firing whose claim the store still accepts evaluated the state it replaces.
THEOREM FiringsAreCurrent == Spec => []Store!SnapshotCurrent
<1>1. AnyStore!SnapshotCurrent => Store!SnapshotCurrent
  BY DEF AnyStore!SnapshotCurrent, Store!SnapshotCurrent, AnyStore!Active, Store!Active
<1>2. AnyStore!Spec => []AnyStore!SnapshotCurrent
  BY StoreAssumptions, AnyStore!NoLostUpdate
<1> QED  BY <1>1, <1>2, FiringsUseTheStore, PTL

-----------------------------------------------------------------------------
(***************************************************************************)
(* Types: the store's, and what the firings keep beside it.                *)
(***************************************************************************)
Kept ==
  /\ after \in [Worker -> Nat]
  /\ \A w \in Worker : Busy(w) => claim[w] # NoClaim
  /\ spoken \subseteq [key : Key, id : Nat, at : 1..MaxTime, occ : 0..MaxTime]

\* A firing ends, or goes on with a claim of its own and a horizon.
LEMMA EndsOrGoesOn ==
  ASSUME HInv, OInv, Kept, NEW w \in Worker, Busy(w), Work(w)
  PROVE  \/ End(w) /\ claim' = [claim EXCEPT ![w] = NoClaim]
         \/ /\ claim' = claim /\ after' \in [Worker -> Nat]
            /\ \A v \in Worker : Busy(v)' => Busy(v)
<1>1. ASSUME \E o, next, n : Complete(w, o, next, n)
      PROVE  End(w) /\ claim' = [claim EXCEPT ![w] = NoClaim]
  BY <1>1 DEF Complete, Store!Complete, Store!Settle, Store!Refused
<1>2. CASE \/ StayQuiet(w) \/ Forgo(w) \/ Cancelled(w) \/ Noop(w)
           \/ LeavePending(w) \/ FailLines(w) \/ Activated(w)
  BY <1>1, <1>2 DEF StayQuiet, Forgo, Cancelled, Noop, LeavePending, FailLines, Activated
<1>3. CASE Fail(w)
  BY <1>3 DEF Fail, Abandon, Store!Abandon, Store!Settle, Store!Refused
<1>4. CASE DispatchRaises(w) \/ Crash(w)
  BY <1>4 DEF DispatchRaises, Crash, Store!Lose
<1>5. CASE Decide(w)
  <2>1. PICK e \in Evaluations(w) : after' = [after EXCEPT ![w] = e.after]
    BY <1>5 DEF Decide
  <2>2. /\ claim[w].key \in Key /\ rhythm \in Rhythms /\ Read(claim[w])
        /\ claim[w].at \in 1..now /\ now \in Nat
    BY DEF HInv, Claimed, Shape, OInv, Current
  <2>3. e.after \in Nat
    <3>1. At(w) \in Nat
      BY <2>2 DEF At
    <3>2. Sound(e, claim[w].state.occurrence, At(w))
      BY <2>2, <3>1, EvaluationIsSound DEF Read, At
    <3> QED  BY <3>2 DEF Sound
  <2>4. point' = [point EXCEPT ![w] = "plan"] /\ claim' = claim
    BY <1>5 DEF Decide, Goto, storeVars
  <2> QED  BY <2>1, <2>3, <2>4 DEF Kept, HInv, Shape, Busy
<1>6. CASE Clear(w) \/ Handle(w) \/ DispatchPending(w)
  <2>1. claim' = claim /\ after' = after
    BY <1>6 DEF Clear, Handle, DispatchPending, storeVars, firingVars
  <2>2. \A v \in Worker \ {w} : point'[v] = point[v]
    BY <1>6 DEF Clear, Handle, DispatchPending, Goto, HInv, Shape
  <2> QED  BY <2>1, <2>2 DEF Kept, Busy
<1> QED  BY <1>2, <1>3, <1>4, <1>5, <1>6 DEF Work

LEMMA WorkKept ==
  ASSUME HInv, OInv, Kept, now <= MaxTime, NEW w \in Worker, Work(w)
  PROVE  Kept'
<1>0. Busy(w) /\ claim[w] # NoClaim
  <2>1. Busy(w)
    BY DEF Busy, Work, StayQuiet, Decide, Forgo, Clear, Handle, Fail, Cancelled, Noop,
           DispatchPending, LeavePending, DispatchRaises, FailLines, Activated,
           Crash, Concluding, Store!Lose, HInv, Idle
  <2> QED  BY <2>1 DEF Kept
<1>1. MaxTime \in Nat /\ now \in Nat
  BY LoopAssumption DEF HInv, Shape
<1>2. [key |-> claim[w].key, id |-> claim[w].id, at |-> At(w), occ |-> occ[w]]
        \in [key : Key, id : Nat, at : 1..MaxTime, occ : 0..MaxTime]
  <2>1. claim[w].key \in Key /\ claim[w].id \in Nat /\ claim[w].at \in 1..now
    BY <1>0 DEF HInv, Claimed, Shape
  <2>2. occ[w] \in 0..claim[w].at
    BY <1>0 DEF OInv, Decided
  <2>3. claim[w].at \in 1..MaxTime /\ occ[w] \in 0..MaxTime
    BY <1>1, <2>1, <2>2
  <2> QED  BY <2>1, <2>3 DEF At
<1>3. (UNCHANGED spoken \/ Speak(w)) =>
        (spoken \subseteq [key : Key, id : Nat, at : 1..MaxTime, occ : 0..MaxTime])'
  BY <1>2 DEF Speak, Kept
<1>4. UNCHANGED spoken \/ Speak(w)
  BY DEF Work, StayQuiet, Decide, Forgo, Clear, Handle, Fail, Cancelled, Noop,
         DispatchPending, LeavePending, DispatchRaises, FailLines, Activated, Crash
<1>5. CASE End(w) /\ claim' = [claim EXCEPT ![w] = NoClaim]
  <2>1. after' \in [Worker -> Nat]
    BY <1>5 DEF End, Kept
  <2>2. \A v \in Worker : Busy(v)' => v # w /\ Busy(v) /\ claim'[v] = claim[v]
    BY <1>5 DEF End, Goto, Busy, HInv, Shape
  <2> QED  BY <1>3, <1>4, <2>1, <2>2 DEF Kept
<1>6. CASE /\ claim' = claim /\ after' \in [Worker -> Nat]
           /\ \A v \in Worker : Busy(v)' => Busy(v)
  BY <1>3, <1>4, <1>6 DEF Kept
<1> QED  BY <1>0, <1>5, <1>6, EndsOrGoesOn

LEMMA NextKept ==
  ASSUME HInv, OInv, Kept, Store!TypeOK, [Next]_vars
  PROVE  Kept'
<1>1. CASE Advance \/ Rest \/ UNCHANGED vars
  BY <1>1 DEF Advance, Store!Advance, Rest, vars, firingVars, Kept, Busy
<1>2. ASSUME NEW w \in Worker, NEW k \in Key, Claim(w, k) PROVE Kept'
  <2> DEFINE c == [key |-> k, id |-> issued + 1, until |-> now + Lease, at |-> now,
                   state |-> state[k]]
  <2>1. /\ claim' = [claim EXCEPT ![w] = c] /\ point' = [point EXCEPT ![w] = "decide"]
        /\ after' = after /\ spoken' = spoken
    BY <1>2 DEF Claim, Store!ClaimDue, Goto, firingVars
  <2>2. c # NoClaim
    <3>1. c \in Store!Claim
      <4>1. /\ issued + 1 \in Nat \ {0} /\ now \in Nat /\ Lease \in Nat
            /\ state[k] \in Store!State
        BY LoopAssumption DEF HInv, Shape, Store!TypeOK
      <4>2. now + Lease \in Nat
        BY <4>1
      <4> QED  BY <4>1, <4>2 DEF Store!Claim, Store!Time
    <3> QED  BY <3>1, NoClaimAssumption
  <2> HIDE DEF c
  <2>3. \A v \in Worker : Busy(v)' => claim'[v] # NoClaim
    BY <2>1, <2>2 DEF Kept, Busy, HInv, Shape
  <2> QED  BY <2>1, <2>3 DEF Kept
<1>3. ASSUME NEW w \in Worker, Work(w) PROVE Kept'
  <2>1. now <= MaxTime
    BY LoopAssumption DEF Store!TypeOK
  <2> QED  BY <1>3, <2>1, WorkKept
<1> QED  BY <1>1, <1>2, <1>3 DEF Next

\* Every variable of the loop keeps its type, the store's included, and a worker
\* has a claim exactly while it is in a firing.
THEOREM TypeCorrect == Spec => []TypeOK
<1>1. AnyStore!TypeOK => Store!TypeOK
  BY DEF AnyStore!TypeOK, Store!TypeOK, AnyStore!State, Store!State, AnyStore!Time,
       Store!Time, AnyStore!Claim, Store!Claim
<1>2. AnyStore!Spec => []AnyStore!TypeOK
  BY StoreAssumptions, AnyStore!TypeCorrect
<1>3. Spec => []Store!TypeOK
  BY <1>1, <1>2, FiringsUseTheStore, PTL
<1>4. Init => Kept
  BY DEF Init, Kept, Busy
<1>5. Spec => []Kept
  BY <1>3, <1>4, NextKept, Inductive, OInductive, PTL DEF Spec
<1>6. HInv /\ OInv /\ Kept /\ Store!TypeOK => TypeOK
  <2> SUFFICES ASSUME HInv, OInv, Kept, Store!TypeOK PROVE TypeOK
    OBVIOUS
  <2>1. now \in 1..MaxTime /\ MaxTime \in Nat
    BY LoopAssumption DEF Store!TypeOK
  <2>2. \A w \in Worker : (point[w] = "idle") <=> (claim[w] = NoClaim)
    BY DEF HInv, Idle, Kept, Busy
  <2>3. \A w \in Worker : occ[w] \in 0..MaxTime
    BY <2>1 DEF HInv, Claimed, OInv, Decided
  <2>4. rhythm \in Rhythms /\ got \in [Worker -> Result]
        /\ point \in [Worker -> Point]
    BY DEF HInv, Shape
  <2> QED  BY <2>2, <2>3, <2>4 DEF TypeOK, Kept, Point, OInv, Decided
<1> QED
  BY <1>3, <1>5, <1>6, Inductive, OInductive, PTL

-----------------------------------------------------------------------------
(***************************************************************************)
(* One firing for a local time.  The code compares an occurrence with the  *)
(* one before it only (_next_distinct_occurrence), so a local time that    *)
(* comes twice with another between fires twice: run calendar_fold.  Where *)
(* the cron's times are further apart than that, and where a firing says   *)
(* one line, nothing is said twice for a local time.                       *)
(***************************************************************************)

\* No local time the cron names comes back with another of its times between.
OneReading(r) ==
  \A u, v \in Nat :
    u < v /\ Matches(r, u) /\ Wall(r, u) = Wall(r, v) =>
      \A x \in (u + 1)..(v - 1) : ~Matches(r, x)

\* Such is a cron with one time in its period, whose clocks are set forward at
\* will and back by at most a period: a daily brief, whatever the summer time.
THEOREM OnceAPeriod ==
  ASSUME NEW r, CalendarRhythm(r), NEW m, r.marks = {m}, -r.shift <= r.every
  PROVE  OneReading(r)
<1> DEFINE N == r.every
           c == r.change
           s == r.shift
<1>1. /\ N \in Nat \ {0} /\ m \in 0..(N - 1) /\ c \in Nat /\ s \in Int /\ -s <= N
      /\ r.every = N /\ r.change = c /\ r.shift = s
  BY DEF CalendarRhythm
<1> HIDE DEF N, c, s
<1>2. SUFFICES ASSUME NEW u \in Nat, NEW v \in Nat, u < v, Matches(r, u),
                      Wall(r, u) = Wall(r, v), NEW x \in (u + 1)..(v - 1),
                      Matches(r, x)
               PROVE  FALSE
  BY DEF OneReading
<1> DEFINE a == Wall(r, u)
           b == Wall(r, x)
<1>3. a \in Int /\ b \in Int /\ x \in Int
  BY <1>1 DEF Wall
<1>4. a = u /\ u < c /\ v >= c /\ v + s = u
  BY <1>1, <1>2 DEF Wall
<1>5. a % N = m /\ b % N = m
  BY <1>1, <1>2 DEF Matches
<1>6. b # a /\ b - a < N /\ a - b < N
  <2>1. CASE x < c
    <3>1. b = x
      BY <1>1, <2>1 DEF Wall
    <3> QED  BY <1>1, <1>3, <1>4, <3>1
  <2>2. CASE x >= c
    <3>1. b = x + s
      BY <1>1, <2>2 DEF Wall
    <3> QED  BY <1>1, <1>3, <1>4, <3>1
  <2> QED  BY <1>1, <1>3, <2>1, <2>2
<1> HIDE DEF a, b
<1> DEFINE p == a \div N
           q == b \div N
<1>7. p \in Int /\ q \in Int /\ a = N * p + m /\ b = N * q + m
  BY <1>1, <1>3, <1>5
<1> HIDE DEF p, q
<1>8. N * (p - q) = a - b
  BY <1>1, <1>7
<1>9. CASE p - q >= 1
  <2>1. N * (p - q) >= N
    BY <1>1, <1>7, <1>9
  <2> QED  BY <1>1, <1>3, <1>6, <1>8, <2>1
<1>10. CASE p - q <= -1
  <2>1. N * (p - q) <= -N
    BY <1>1, <1>7, <1>10
  <2> QED  BY <1>1, <1>3, <1>6, <1>8, <2>1
<1>11. CASE p = q
  BY <1>6, <1>7, <1>11
<1> QED  BY <1>7, <1>9, <1>10, <1>11

\* An occurrence whose local time none up to the last one had.
NewTime(r, last, o) ==
  /\ o \in Nat \ {0} /\ Matches(r, o)
  /\ OneReading(r) /\ Matches(r, last) =>
       \A u \in 0..last : Matches(r, u) => Wall(r, u) # Wall(r, o)

\* A calendar goes ahead for a new time only, and records one, unless it meets
\* the rhythm for the first time.
LEMMA CalendarNames ==
  ASSUME NEW r, CalendarRhythm(r), NEW at \in Nat, NEW s, s.occurrence \in 0..at
  PROVE  LET e == Calendar(r, s, at) IN
         /\ e.due => NewTime(r, s.occurrence, e.occ)
         /\ e.occ = 0 \/ s.occurrence = 0 \/ NewTime(r, s.occurrence, e.occ)
<1> DEFINE last == IF s.occurrence = 0 THEN at ELSE s.occurrence
           B == Backlog(r, last, at)
           newest == Max(B)
           e == Calendar(r, s, at)
<1>1. last \in 0..at
  OBVIOUS
<1>2. e = IF B = {}
            THEN Quiet(NextOccurrence(r, last), IF s.occurrence = 0 THEN at ELSE 0)
          ELSE IF at - newest > r.grace /\ ~r.fireOnce
            THEN Quiet(NextOccurrence(r, newest), newest)
            ELSE Fires(NextOccurrence(r, newest), newest)
  BY DEF Calendar
<1> HIDE DEF e
<1>3. s.occurrence = 0 => last = at
  OBVIOUS
<1>4. s.occurrence # 0 => last = s.occurrence
  OBVIOUS
<1> HIDE DEF last
<1>5. /\ B \in SUBSET Nat
      /\ \A u \in B : last < u /\ u <= at
      /\ \A v \in B : \E u \in B \cup {last} : v = NextOccurrence(r, u)
  BY <1>1, BacklogLaw
<1> HIDE DEF B
<1>6. CASE B = {}
  <2>1. e = Quiet(NextOccurrence(r, last), IF s.occurrence = 0 THEN at ELSE 0)
    BY <1>2, <1>6
  <2>2. ~e.due /\ (e.occ = 0 \/ s.occurrence = 0)
    BY <2>1 DEF Quiet
  <2> QED  BY <2>2 DEF e
<1>7. CASE B # {}
  <2>1. newest \in B
    BY <1>5, <1>7, MaxOfTimes
  <2> HIDE DEF newest
  <2>2. newest \in Nat /\ last < newest /\ last = s.occurrence /\ last \in Nat
    BY <1>1, <1>3, <1>4, <1>5, <2>1
  <2>3. \/ e = Quiet(NextOccurrence(r, newest), newest)
        \/ e = Fires(NextOccurrence(r, newest), newest)
    BY <1>2, <1>7
  <2>4. e.occ = newest
    BY <2>3 DEF Quiet, Fires
  <2>5. PICK x \in B \cup {last} : newest = NextOccurrence(r, x)
    BY <1>5, <2>1
  <2>6. x \in Nat /\ last <= x
    BY <1>5, <2>2
  <2>7. x < newest /\ Matches(r, newest) /\ Wall(r, newest) # Wall(r, x)
    BY <2>5, <2>6, NextIsLater
  <2>8. x = last \/ Matches(r, x)
    <3>1. CASE x \in B
      <4>1. PICK y \in B \cup {last} : x = NextOccurrence(r, y)
        BY <1>5, <3>1
      <4>2. y \in Nat
        BY <1>5, <2>2
      <4> QED  BY <4>1, <4>2, NextIsLater
    <3> QED  BY <3>1
  <2>9. NewTime(r, last, newest)
    <3>1. SUFFICES ASSUME OneReading(r), Matches(r, last), NEW u \in 0..last,
                          Matches(r, u), Wall(r, u) = Wall(r, newest)
                   PROVE  FALSE
      BY <2>2, <2>7 DEF NewTime
    <3>2. u \in Nat /\ u < newest /\ u <= x
      BY <2>2, <2>6
    <3>3. \A y \in (u + 1)..(newest - 1) : ~Matches(r, y)
      BY <2>2, <3>1, <3>2 DEF OneReading
    <3>4. x # u
      BY <2>7, <3>1
    <3>5. x \in (u + 1)..(newest - 1)
      BY <2>2, <2>6, <2>7, <3>2, <3>4
    <3> QED  BY <2>8, <3>1, <3>3, <3>5
  <2> QED  BY <2>2, <2>4, <2>9 DEF e
<1> QED  BY <1>6, <1>7

Cron(k) == rhythm[k].kind = "calendar"

\* An engine result of one line.
Single(x) == x.pending <= 1 /\ (x.delivered => x.pending = 0)

\* Calendars that keep within it.
OneLiners ==
  \A f \in Rhythms : \A k \in Key : f[k].kind = "calendar" =>
    /\ OneReading(f[k])
    /\ \A x \in f[k].results : Single(x)

\* A firing may name the occurrence o: no other has spoken at its local time.
Unsaid(w, o) ==
  /\ o \in Nat \ {0} /\ Matches(RhythmOf(w), o)
  /\ \A s \in spoken : s.key = claim[w].key /\ s.id # claim[w].id =>
       Wall(RhythmOf(w), s.occ) # Wall(RhythmOf(w), o)
Naming ==
  \A w \in Worker : Busy(w) /\ Cron(claim[w].key) =>
    /\ point[w] # "decide" => Unsaid(w, occ[w])
    /\ point[w] = "conclude" => Single(got[w])

\* What was said is for a time of the cron, and it is recorded as an occurrence,
\* or will be by the firing that said it.
Consumed ==
  \A s \in spoken : Cron(s.key) =>
    /\ s.occ \in Nat \ {0} /\ Matches(rhythm[s.key], s.occ)
    /\ \/ /\ s.occ <= state[s.key].occurrence
          /\ Matches(rhythm[s.key], state[s.key].occurrence)
       \/ \E w \in Worker : By(s, w) /\ s.occ = occ[w]

FInv == Naming /\ Consumed /\ FireOnce

LEMMA InitFInv == Init => FInv
BY DEF Init, FInv, Naming, Consumed, FireOnce, Busy

\* The store takes a settlement.
LEMMA SettleFInv ==
  ASSUME HInv, SInv, OInv, FInv, NEW w \in Worker, Busy(w), NEW s,
         Store!Settle(w, s), End(w), UNCHANGED spoken,
         Cron(claim[w].key) =>
           \/ \A t \in spoken : t.key # claim[w].key
           \/ s.occurrence = state[claim[w].key].occurrence /\ ~got[w].delivered
           \/ /\ state[claim[w].key].occurrence <= s.occurrence
              /\ s.occurrence \in Nat /\ Matches(RhythmOf(w), s.occurrence)
              /\ got[w].delivered => s.occurrence = occ[w]
  PROVE  FInv'
<1> DEFINE k == claim[w].key
<1>1. /\ k \in Key
      /\ state' = [state EXCEPT ![k] = s]
      /\ claim' = [claim EXCEPT ![w] = NoClaim]
      /\ spoken' = spoken /\ rhythm' = rhythm
      /\ point' = [point EXCEPT ![w] = "idle"]
      /\ got' = [got EXCEPT ![w] = NoResult]
      /\ occ' = [occ EXCEPT ![w] = 0]
  BY DEF HInv, Claimed, Store!Settle, End, Goto
<1>2. /\ state'[k] = s
      /\ \A j \in Key \ {k} : state'[j] = state[j]
      /\ state[k].occurrence \in Nat
  BY <1>1 DEF HInv, Shape, OInv, Dated
<1>3. \A v \in Worker \ {w} :
        /\ claim'[v] = claim[v] /\ point'[v] = point[v]
        /\ got'[v] = got[v] /\ occ'[v] = occ[v]
  BY <1>1 DEF HInv, Shape, OInv, Decided
<1>4. \A v \in Worker : Busy(v)' => v # w /\ Busy(v)
  BY <1>1 DEF HInv, Shape, Busy
<1>5. Naming'
  BY <1>1, <1>3, <1>4 DEF FInv, Naming, Unsaid, RhythmOf, Cron
<1>6. Consumed'
  <2> SUFFICES ASSUME NEW t \in spoken, Cron(t.key)
               PROVE  /\ t.occ \in Nat \ {0} /\ Matches(rhythm[t.key], t.occ)
                      /\ \/ /\ t.occ <= state'[t.key].occurrence
                            /\ Matches(rhythm[t.key], state'[t.key].occurrence)
                         \/ \E v \in Worker : By(t, v)' /\ t.occ = occ'[v]
    BY <1>1 DEF Consumed, Cron
  <2>1. /\ t.occ \in Nat \ {0} /\ Matches(rhythm[t.key], t.occ) /\ t.key \in Key
        /\ \/ /\ t.occ <= state[t.key].occurrence
              /\ Matches(rhythm[t.key], state[t.key].occurrence)
           \/ \E v \in Worker : By(t, v) /\ t.occ = occ[v]
    BY DEF FInv, Consumed, HInv, Told
  <2>2. ASSUME t.key = k, By(t, w), t.occ = occ[w]
        PROVE  t.occ = s.occurrence /\ Matches(rhythm[t.key], s.occurrence)
    BY <2>1, <2>2 DEF By, RhythmOf
  <2>3. ASSUME t.key = k, t.occ <= state[k].occurrence, Matches(rhythm[k], state[k].occurrence)
        PROVE  t.occ <= s.occurrence /\ Matches(rhythm[k], s.occurrence)
    BY <1>2, <2>1, <2>3 DEF RhythmOf
  <2>4. CASE \E v \in Worker : By(t, v) /\ t.occ = occ[v]
    <3>1. PICK v \in Worker : By(t, v) /\ t.occ = occ[v]
      BY <2>4
    <3>2. CASE v = w
      <4>1. t.key = k
        BY <3>1, <3>2 DEF By
      <4> QED  BY <1>2, <2>1, <2>2, <3>1, <3>2, <4>1
    <3>3. CASE v # w
      <4>1. By(t, v)' /\ t.occ = occ'[v]
        BY <1>3, <3>1, <3>3 DEF By
      <4> QED  BY <2>1, <4>1
    <3> QED  BY <3>2, <3>3
  <2>5. CASE /\ t.occ <= state[t.key].occurrence
             /\ Matches(rhythm[t.key], state[t.key].occurrence)
    <3>1. CASE t.key = k
      BY <1>2, <2>1, <2>3, <2>5, <3>1
    <3>2. CASE t.key # k
      BY <1>2, <2>1, <2>5, <3>2
    <3> QED  BY <3>1, <3>2
  <2> QED  BY <2>1, <2>4, <2>5
<1>7. FireOnce'
  BY <1>1 DEF FInv, FireOnce
<1> QED  BY <1>5, <1>6, <1>7 DEF FInv

\* A busy worker goes on, for an occurrence it may name.
LEMMA OnwardFInv ==
  ASSUME HInv, SInv, OInv, FInv, NEW w \in Worker, Busy(w), UNCHANGED storeVars,
         NEW p \in Point \ {"idle", "decide"}, point' = [point EXCEPT ![w] = p],
         NEW g \in Result, got' = [got EXCEPT ![w] = g],
         NEW n, occ' = [occ EXCEPT ![w] = n],
         Cron(claim[w].key) =>
           Unsaid(w, n) /\ (p = "conclude" => Single(g)),
         got[w].delivered => g.delivered /\ p = "conclude" /\ n = occ[w],
         \/ UNCHANGED spoken
         \/ Speak(w) /\ g.delivered /\ p = "conclude" /\ n = occ[w]
  PROVE  FInv'
<1> DEFINE t == [key |-> claim[w].key, id |-> claim[w].id, at |-> claim[w].at,
                 occ |-> occ[w]]
<1>1. rhythm' = rhythm /\ state' = state /\ claim' = claim
  BY DEF storeVars
<1>2. \A v \in Worker : Busy(v)' => Busy(v)
  BY DEF HInv, Shape, Busy
<1>3. /\ point'[w] = p /\ got'[w] = g /\ occ'[w] = n
      /\ \A v \in Worker \ {w} :
           point'[v] = point[v] /\ got'[v] = got[v] /\ occ'[v] = occ[v]
  BY DEF HInv, Shape, OInv, Decided
<1>4. /\ spoken' \subseteq spoken \cup {t}
      /\ t \in spoken' \ spoken => g.delivered /\ p = "conclude" /\ n = occ[w]
  BY DEF Speak, At
<1>5. /\ t.key = claim[w].key /\ t.id = claim[w].id /\ t.at = claim[w].at
      /\ t.occ = occ[w]
  OBVIOUS
<1> HIDE DEF t
<1>6. Naming'
  <2> SUFFICES ASSUME NEW v \in Worker, Busy(v)', Cron(claim[v].key)
               PROVE  /\ point'[v] # "decide" => Unsaid(v, occ[v])'
                      /\ point'[v] = "conclude" => Single(got'[v])
    BY <1>1 DEF Naming, Cron, Single
  <2>1. Busy(v) /\ (claim[v].key = claim[w].key => v = w)
    BY <1>2 DEF SInv, Alone
  <2>2. ASSUME NEW o, Unsaid(v, o), occ'[v] = o PROVE Unsaid(v, occ[v])'
    <3>1. \A s \in spoken' : s.key = claim[v].key /\ s.id # claim[v].id => s \in spoken
      BY <1>4, <1>5, <2>1
    <3>2. RhythmOf(v)' = RhythmOf(v)
      BY <1>1 DEF RhythmOf
    <3> QED  BY <1>1, <2>2, <3>1, <3>2 DEF Unsaid, Matches, Wall
  <2>3. CASE v = w
    BY <1>3, <2>2, <2>3
  <2>4. CASE v # w
    BY <1>3, <2>1, <2>2, <2>4 DEF FInv, Naming
  <2> QED  BY <2>3, <2>4
<1>7. Consumed'
  <2> SUFFICES ASSUME NEW s \in spoken', Cron(s.key)
               PROVE  /\ s.occ \in Nat \ {0} /\ Matches(rhythm[s.key], s.occ)
                      /\ \/ /\ s.occ <= state[s.key].occurrence
                            /\ Matches(rhythm[s.key], state[s.key].occurrence)
                         \/ \E v \in Worker : By(s, v)' /\ s.occ = occ'[v]
    BY <1>1 DEF Consumed, Cron
  <2>1. CASE s \in spoken
    <3>1. \A v \in Worker : By(s, v) /\ s.occ = occ[v] => By(s, v)' /\ s.occ = occ'[v]
      BY <1>1, <1>3 DEF By
    <3> QED  BY <2>1, <3>1 DEF FInv, Consumed
  <2>2. CASE s \notin spoken
    <3>1. s = t /\ g.delivered /\ p = "conclude" /\ n = occ[w]
      BY <1>4, <2>2
    <3>2. By(s, w)' /\ s.occ = occ'[w]
      BY <1>1, <1>3, <1>5, <3>1 DEF By
    <3>3. Unsaid(w, occ[w]) /\ rhythm[s.key] = RhythmOf(w)
      BY <1>5, <3>1 DEF RhythmOf
    <3> QED  BY <1>5, <3>1, <3>2, <3>3 DEF Unsaid
  <2> QED  BY <2>1, <2>2
<1>8. FireOnce'
  <2> SUFFICES ASSUME NEW r \in spoken', NEW s \in spoken', Cron(r.key), r.key = s.key,
                      Wall(rhythm[r.key], r.occ) = Wall(rhythm[r.key], s.occ)
               PROVE  r.id = s.id
    BY <1>1 DEF FireOnce, Cron
  <2>1. CASE r \in spoken /\ s \in spoken
    BY <2>1 DEF FInv, FireOnce, Cron
  <2>2. ASSUME NEW q \in spoken, q.key = claim[w].key, n = occ[w], Cron(claim[w].key),
               Wall(RhythmOf(w), q.occ) = Wall(RhythmOf(w), occ[w])
        PROVE  q.id = claim[w].id
    BY <2>2 DEF Unsaid
  <2>3. CASE r \notin spoken /\ s \in spoken
    <3>1. r = t /\ n = occ[w]
      BY <1>4, <2>3
    <3> QED  BY <1>5, <2>2, <2>3, <3>1 DEF RhythmOf
  <2>4. CASE s \notin spoken /\ r \in spoken
    <3>1. s = t /\ n = occ[w]
      BY <1>4, <2>4
    <3> QED  BY <1>5, <2>2, <2>4, <3>1 DEF RhythmOf
  <2> QED  BY <1>4, <2>1, <2>3, <2>4
<1> QED  BY <1>6, <1>7, <1>8 DEF FInv

\* A claim under way holds the occurrence the store has.
LEMMA ReadsTheOccurrence ==
  ASSUME SInv, OInv, NEW w \in Worker, Busy(w)
  PROVE  claim[w].state.occurrence = state[claim[w].key].occurrence
<1>1. lease[claim[w].key] = [id |-> claim[w].id, until |-> claim[w].until]
  BY DEF SInv, Leased
<1>2. lease[claim[w].key].id = claim[w].id
  BY <1>1
<1> QED  BY <1>2 DEF OInv, Current, Accepted

LEMMA CompleteFInv ==
  ASSUME HInv, SInv, OInv, FInv, NEW w \in Worker, Busy(w), NEW o, NEW next, NEW n,
         Complete(w, o, next, n), UNCHANGED spoken,
         Cron(claim[w].key) =>
           \/ \A t \in spoken : t.key # claim[w].key
           \/ n = 0 /\ ~got[w].delivered
           \/ /\ n \in Nat \ {0} /\ claim[w].state.occurrence <= n
              /\ Matches(RhythmOf(w), n)
              /\ got[w].delivered => n = occ[w]
  PROVE  FInv'
<1> DEFINE c == claim[w]
           s == Store!Completed(state[c.key], c, o, next, n)
<1>1. Store!Settle(w, s) /\ End(w)
  BY NeverRefused DEF Store!Complete, Complete
<1>2. s.occurrence = IF n = 0 THEN state[c.key].occurrence ELSE n
  BY DEF Store!Completed
<1>3. claim[w].state.occurrence = state[c.key].occurrence
  BY ReadsTheOccurrence
<1> HIDE DEF s
<1> QED  BY <1>1, <1>2, <1>3, SettleFInv

LEMMA AbandonFInv ==
  ASSUME HInv, SInv, OInv, FInv, NEW w \in Worker, Busy(w), NEW next, Abandon(w, next),
         ~got[w].delivered, UNCHANGED spoken
  PROVE  FInv'
<1> DEFINE c == claim[w]
           old == state[c.key]
           s == [old EXCEPT !.next = next]
<1>1. Store!Settle(w, s) /\ End(w) /\ c.key \in Key
  BY NeverRefused DEF Store!Abandon, Abandon, HInv, Claimed
<1>2. old = [next |-> old.next, attempt |-> old.attempt, generated |-> old.generated,
             delivered |-> old.delivered, occurrence |-> old.occurrence]
  BY <1>1 DEF HInv, Shape, IsState
<1>3. s.occurrence = old.occurrence
  BY <1>2
<1> HIDE DEF s
<1> QED  BY <1>1, <1>3, SettleFInv

LEMMA ClaimFInv ==
  ASSUME HInv, OInv, FInv, NEW w \in Worker, NEW k \in Key, Claim(w, k)
  PROVE  FInv'
<1>1. /\ point[w] = "idle" /\ point' = [point EXCEPT ![w] = "decide"]
      /\ claim' = [claim EXCEPT ![w] = [key |-> k, id |-> issued + 1,
                                        until |-> now + Lease, at |-> now,
                                        state |-> state[k]]]
      /\ UNCHANGED <<rhythm, state, occ, got, spoken>>
  BY DEF Claim, Store!ClaimDue, Goto, firingVars
<1>2. \A v \in Worker \ {w} : claim'[v] = claim[v] /\ point'[v] = point[v]
  BY <1>1 DEF HInv, Shape
<1>3. point'[w] = "decide" /\ claim'[w].key = k
  BY <1>1 DEF HInv, Shape
<1>4. Naming'
  <2> SUFFICES ASSUME NEW v \in Worker, Busy(v)', Cron(claim'[v].key)
               PROVE  /\ point'[v] # "decide" => Unsaid(v, occ[v])'
                      /\ point'[v] = "conclude" => Single(got[v])
    BY <1>1 DEF Naming, Cron, Single
  <2>1. CASE v = w
    BY <1>3, <2>1
  <2>2. CASE v # w
    BY <1>1, <1>2, <2>2 DEF FInv, Naming, Unsaid, RhythmOf, Busy, Cron
  <2> QED  BY <2>1, <2>2
<1>5. Consumed'
  <2>1. \A s \in spoken, v \in Worker : By(s, v) => By(s, v)'
    BY <1>1, <1>2 DEF By
  <2> QED  BY <1>1, <2>1 DEF FInv, Consumed, Cron
<1>6. FireOnce'
  BY <1>1 DEF FInv, FireOnce
<1> QED  BY <1>4, <1>5, <1>6 DEF FInv

\* What was said before a firing decides is recorded.
LEMMA SaidBefore ==
  ASSUME SInv, OInv, FInv, NEW w \in Worker, Busy(w), Cron(claim[w].key),
         ~got[w].delivered, NEW t \in spoken, t.key = claim[w].key
  PROVE  /\ t.occ \in Nat \ {0} /\ Matches(RhythmOf(w), t.occ)
         /\ t.occ <= claim[w].state.occurrence
         /\ Matches(RhythmOf(w), claim[w].state.occurrence)
<1>1. ~\E v \in Worker : By(t, v)
  BY DEF By, SInv, Alone, Busy
<1>2. claim[w].state.occurrence = state[claim[w].key].occurrence
  BY ReadsTheOccurrence
<1> QED  BY <1>1, <1>2 DEF FInv, Consumed, RhythmOf

LEMMA NewTimesAreUnsaid ==
  ASSUME SInv, OInv, FInv, NEW w \in Worker, Busy(w), Cron(claim[w].key),
         ~got[w].delivered, OneReading(RhythmOf(w)), claim[w].state.occurrence \in Nat,
         NEW o, NewTime(RhythmOf(w), claim[w].state.occurrence, o)
  PROVE  Unsaid(w, o)
<1>1. ASSUME NEW t \in spoken, t.key = claim[w].key
      PROVE  Wall(RhythmOf(w), t.occ) # Wall(RhythmOf(w), o)
  <2>1. /\ t.occ \in 0..claim[w].state.occurrence /\ Matches(RhythmOf(w), t.occ)
        /\ Matches(RhythmOf(w), claim[w].state.occurrence)
    BY <1>1, SaidBefore
  <2> QED  BY <2>1 DEF NewTime
<1> QED  BY <1>1 DEF Unsaid, NewTime

LEMMA WorkFInv ==
  ASSUME HInv, SInv, OInv, FInv, Careful, OneLiners, NEW w \in Worker, Work(w)
  PROVE  FInv'
<1> USE DEF Busy, Point
<1>0. Busy(w)
  BY DEF Work, StayQuiet, Decide, Forgo, Clear, Handle, Fail, Cancelled, Noop,
         DispatchPending, LeavePending, DispatchRaises, FailLines, Activated,
         Careful, Crash, Concluding
<1>1. /\ claim[w].key \in Key /\ At(w) \in Nat /\ At(w) = claim[w].at
      /\ Read(claim[w]) /\ rhythm \in Rhythms
  <2>1. claim[w].key \in Key /\ claim[w].at \in 1..now /\ now \in Nat
    BY <1>0 DEF HInv, Claimed, Shape
  <2>2. Read(claim[w]) /\ rhythm \in Rhythms
    BY <1>0 DEF OInv, Current, HInv, Shape
  <2> QED  BY <2>1, <2>2 DEF At
<1> DEFINE r == RhythmOf(w)
           s == claim[w].state
<1>2. /\ CalendarRhythm(r)
      /\ Cron(claim[w].key) => OneReading(r) /\ \A x \in r.results : Single(x)
      /\ Cron(claim[w].key) <=> r.kind = "calendar"
  BY <1>1, RhythmAssumption DEF RhythmOf, CalendarRhythm, OneLiners, Cron
<1>3. /\ got[w] \in Result
      /\ got[w].delivered => point[w] = "conclude" /\ got[w].status = "completed"
  BY DEF HInv, Shape, Told, SInv, Completing
<1>4. /\ occ[w] \in 0..At(w)
      /\ occ[w] = 0 \/ s.occurrence <= occ[w]
      /\ occ = [v \in Worker |-> occ[v]]
  BY <1>0, <1>1 DEF OInv, Decided
<1>5. /\ Cron(claim[w].key) /\ point[w] # "decide" => Unsaid(w, occ[w])
      /\ Cron(claim[w].key) /\ point[w] = "conclude" => Single(got[w])
  BY <1>0 DEF FInv, Naming
<1>6. s.occurrence \in 0..At(w) /\ s.occurrence \in Nat
  BY <1>1 DEF Read
<1>7. ASSUME NEW e \in Evaluations(w), Cron(claim[w].key)
      PROVE  /\ e.due => NewTime(r, s.occurrence, e.occ)
             /\ e.occ = 0 \/ s.occurrence = 0 \/ NewTime(r, s.occurrence, e.occ)
  <2>1. e = Calendar(r, s, At(w))
    BY <1>2, <1>7 DEF Evaluations
  <2> HIDE DEF r, s
  <2> QED  BY <1>1, <1>2, <1>6, <2>1, CalendarNames
<1>8. ASSUME NEW o, NEW next, NEW n \in {0, occ[w]}, point[w] # "decide",
             n = 0 => ~got[w].delivered,
             Complete(w, o, next, n), UNCHANGED spoken
      PROVE  FInv'
  <2>1. Cron(claim[w].key) => occ[w] \in Nat \ {0} /\ Matches(r, occ[w])
    BY <1>5, <1>8 DEF Unsaid
  <2> HIDE DEF r
  <2>2. Cron(claim[w].key) =>
          \/ n = 0 /\ ~got[w].delivered
          \/ /\ n \in Nat \ {0} /\ s.occurrence <= n /\ Matches(r, n)
             /\ got[w].delivered => n = occ[w]
    BY <1>4, <1>8, <2>1
  <2> QED  BY <1>0, <1>8, <2>2, CompleteFInv DEF r
<1>9. CASE StayQuiet(w)
  <2>1. PICK e \in Evaluations(w) : Complete(w, Quietly("skipped"), e.next, e.occ)
    BY <1>9 DEF StayQuiet
  <2>2. UNCHANGED spoken /\ ~got[w].delivered
    BY <1>3, <1>9 DEF StayQuiet
  <2>3. e.occ = 0 \/ s.occurrence <= e.occ
    BY <1>1, EvaluationIsSound DEF Read, Sound
  <2>4. Cron(claim[w].key) /\ s.occurrence = 0 => \A t \in spoken : t.key # claim[w].key
    BY <1>0, <2>2, SaidBefore
  <2>5. Cron(claim[w].key) =>
          \/ \A t \in spoken : t.key # claim[w].key
          \/ e.occ = 0
          \/ e.occ \in Nat \ {0} /\ s.occurrence <= e.occ /\ Matches(r, e.occ)
    BY <1>7, <2>3, <2>4 DEF NewTime
  <2> QED  BY <1>0, <2>1, <2>2, <2>5, CompleteFInv
<1>10. CASE Decide(w)
  <2>1. PICK e \in Evaluations(w) : e.due /\ occ' = [occ EXCEPT ![w] = e.occ]
    BY <1>10 DEF Decide
  <2>2. /\ point' = [point EXCEPT ![w] = "plan"] /\ UNCHANGED storeVars
        /\ got' = [got EXCEPT ![w] = got[w]] /\ UNCHANGED spoken
        /\ ~got[w].delivered
    BY <1>3, <1>10 DEF Decide, Goto, HInv, Shape
  <2>3. Cron(claim[w].key) => Unsaid(w, e.occ)
    BY <1>0, <1>2, <1>6, <1>7, <2>1, <2>2, NewTimesAreUnsaid
  <2> DEFINE n == e.occ
  <2>4. occ' = [occ EXCEPT ![w] = n] /\ (Cron(claim[w].key) => Unsaid(w, n))
    BY <2>1, <2>3
  <2> HIDE DEF n
  <2>5. "plan" \in Point \ {"idle", "decide"} /\ "plan" # "conclude"
    OBVIOUS
  <2> HIDE DEF Point
  <2> QED  BY <1>0, <1>3, <2>2, <2>4, <2>5, OnwardFInv
<1>11. CASE Forgo(w) \/ LeavePending(w) \/ FailLines(w)
  <2>1. point[w] # "decide" /\ UNCHANGED spoken
    BY <1>11 DEF Forgo, LeavePending, FailLines, Concluding
  <2>2. Cron(claim[w].key) => ~got[w].delivered
    BY <1>3, <1>5, <1>11 DEF Forgo, LeavePending, FailLines, Concluding, Single
  <2>3. PICK o, next : Complete(w, o, next, 0)
    BY <1>11 DEF Forgo, LeavePending, FailLines
  <2> QED  BY <1>0, <2>1, <2>2, <2>3, CompleteFInv
<1>12. CASE Clear(w)
  <2>1. /\ point' = [point EXCEPT ![w] = "act"] /\ UNCHANGED storeVars
        /\ got' = [got EXCEPT ![w] = got[w]] /\ UNCHANGED spoken
        /\ occ' = [occ EXCEPT ![w] = occ[w]]
        /\ ~got[w].delivered /\ point[w] # "decide"
    BY <1>3, <1>4, <1>12 DEF Clear, Goto, HInv, Shape, firingVars
  <2> QED  BY <1>0, <1>3, <1>5, <2>1, OnwardFInv
<1>13. CASE Handle(w)
  <2>1. PICK x \in r.results :
          /\ got' = [got EXCEPT ![w] = x]
          /\ IF x.delivered THEN Speak(w) ELSE UNCHANGED spoken
    BY <1>13 DEF Handle
  <2>2. /\ point' = [point EXCEPT ![w] = "conclude"] /\ UNCHANGED storeVars
        /\ occ' = [occ EXCEPT ![w] = occ[w]]
        /\ ~got[w].delivered /\ point[w] # "decide"
    BY <1>3, <1>4, <1>13 DEF Handle, Goto
  <2>3. x \in Result
    BY <1>1, RhythmAssumption DEF RhythmOf
  <2>4. Cron(claim[w].key) => Single(x)
    BY <1>2
  <2> QED  BY <1>0, <1>5, <2>1, <2>2, <2>3, <2>4, OnwardFInv
<1>14. CASE Fail(w)
  <2>1. ~got[w].delivered /\ UNCHANGED spoken
    BY <1>3, <1>14 DEF Fail, Careful
  <2> QED  BY <1>0, <1>14, <2>1, AbandonFInv DEF Fail
<1>15. CASE Cancelled(w) \/ Noop(w)
  <2>1. point[w] # "decide" /\ ~got[w].delivered /\ UNCHANGED spoken
    BY <1>3, <1>15 DEF Cancelled, Noop, Concluding
  <2>2. PICK o, n : n \in {0, occ[w]} /\ Complete(w, o, after[w], n)
    BY <1>15 DEF Cancelled, Noop
  <2> QED  BY <1>8, <2>1, <2>2
<1>16. CASE DispatchPending(w)
  <2> DEFINE g == [got[w] EXCEPT !.pending = @ - 1, !.delivered = TRUE]
  <2>1. g \in Result /\ g.delivered
    BY <1>3, <1>16, OneDispatched DEF DispatchPending, Concluding
  <2>2. /\ point' = [point EXCEPT ![w] = "conclude"] /\ got' = [got EXCEPT ![w] = g]
        /\ occ' = [occ EXCEPT ![w] = occ[w]] /\ point[w] = "conclude"
        /\ Speak(w) /\ UNCHANGED storeVars /\ got[w].pending > 0
    BY <1>4, <1>16 DEF DispatchPending, Concluding, HInv, Shape
  <2>3. Cron(claim[w].key) => Single(g)
    <3>1. g.pending = got[w].pending - 1
      BY <1>3 DEF Result
    <3>2. got[w].pending \in Nat
      BY <1>3 DEF Result
    <3> HIDE DEF g
    <3> QED  BY <1>5, <2>2, <3>1, <3>2 DEF Single
  <2> HIDE DEF g
  <2> QED  BY <1>0, <1>5, <2>1, <2>2, <2>3, OnwardFInv
<1>17. CASE Activated(w)
  <2>1. point[w] # "decide" /\ UNCHANGED spoken
    BY <1>17 DEF Activated, Concluding
  <2>2. PICK o : Complete(w, o, after[w], occ[w])
    BY <1>17 DEF Activated
  <2>3. CASE ~Cron(claim[w].key)
    BY <1>0, <2>1, <2>2, <2>3, CompleteFInv
  <2>4. CASE Cron(claim[w].key)
    <3>1. occ[w] # 0
      BY <1>5, <2>1, <2>4 DEF Unsaid
    <3> QED  BY <1>8, <2>1, <2>2, <3>1
  <2> QED  BY <2>3, <2>4
<1> QED
  BY <1>9, <1>10, <1>11, <1>12, <1>13, <1>14, <1>15, <1>16, <1>17
     DEF Work, Careful, DispatchRaises, Crash

LEMMA NextFInv ==
  ASSUME HInv, SInv, OInv, FInv, Careful, OneLiners, [Next]_vars
  PROVE  FInv'
<1>1. ASSUME UNCHANGED <<rhythm, state, claim, point, occ, got, spoken>>
      PROVE  FInv'
  <2>1. Naming' /\ FireOnce'
    BY <1>1 DEF FInv, Naming, FireOnce, Unsaid, RhythmOf, Busy, Cron
  <2>2. Consumed'
    BY <1>1 DEF FInv, Consumed, By, Cron
  <2> QED  BY <2>1, <2>2 DEF FInv
<1>2. CASE UNCHANGED vars
  BY <1>1, <1>2 DEF vars
<1>3. CASE Advance
  BY <1>1, <1>3 DEF Advance, Store!Advance, firingVars
<1>4. ASSUME NEW w \in Worker, NEW k \in Key, Claim(w, k) PROVE FInv'
  BY <1>4, ClaimFInv
<1>5. ASSUME NEW w \in Worker, Work(w) PROVE FInv'
  BY <1>5, WorkFInv
<1> QED  BY <1>2, <1>3, <1>4, <1>5 DEF Next, Rest

\* Where firings end within their leases, no exception is lost and a firing says
\* one line, the platform takes the text for a local time of a calendar from one
\* firing only, however often it is retried and whichever way the clocks are
\* moved, if none of the cron's local times comes back with another between.
THEOREM FiresOnce ==
  ASSUME Careful, OneLiners
  PROVE  Spec => []FireOnce
<1>1. FInv => FireOnce
  BY DEF FInv
<1>2. HInv /\ SInv /\ [Next]_vars => SInv'
  BY NextSInv
<1>3. HInv /\ SInv /\ OInv /\ FInv /\ [Next]_vars => FInv'
  BY NextFInv
<1> QED
  BY <1>1, <1>2, <1>3, InitSInv, InitFInv, Inductive, OInductive, PTL DEF Spec
=============================================================================
