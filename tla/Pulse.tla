-------------------------------- MODULE Pulse --------------------------------
(***************************************************************************)
(* The pulse loop (Pulse._process and Pulse._conclude in                   *)
(* src/dainframe/pulse/loop.py, evaluate in pulse/rhythms.py) over the     *)
(* pulse store: due + claim, decide, plan, gates, build + act, complete.   *)
(*                                                                         *)
(* The engine is seen through what handle() returns: the status of the     *)
(* activation, and of its lines whether some were delivered, how many are  *)
(* pending and whether some errored.  A worker captures `now` when it      *)
(* claims (claim.at) and uses it to the end of the firing.  Each await     *)
(* between two effects ends a step.                                        *)
(***************************************************************************)
EXTENDS Integers, FiniteSets, FiniteSetsExt

CONSTANTS Key, Worker, NoClaim,
          Lease, DenialRecheck, DeliveryRetry,   \* the loop's timedeltas
          Rhythms,         \* the assignments of rhythms to keys considered
          HasDispatcher,   \* a pending_dispatcher is configured
          LosesEngine,     \* handle() may raise after it delivered a line
          LosesDispatch,   \* the dispatcher or confirm_delivery() may raise
          MayCrash,        \* a worker may die
          Prompt,          \* every firing ends before its lease expires
          MaxTime, ClaimLimit   \* bounds: the clock, the claims granted

RhythmKind == {"last_delivered", "last_attempt", "calendar", "dynamic"}
Result == [status : {"cancelled", "noop", "completed"}, delivered : BOOLEAN,
           pending : Nat, errored : BOOLEAN]

\* A rhythm, and what engine.handle() may return for the scripts it casts.  The
\* cron of a calendar rhythm matches the local readings that are one of `marks`
\* modulo `every`; its stream's clocks are moved by `shift` at the tick `change`.
ASSUME RhythmAssumption ==
  \A r \in Rhythms : DOMAIN r = Key /\ \A k \in Key :
    /\ r[k].kind \in RhythmKind /\ r[k].every \in Nat \ {0}
    /\ r[k].jitter \in Nat
    /\ r[k].marks \subseteq 0..(r[k].every - 1) /\ r[k].marks # {}
    /\ r[k].change \in Nat /\ r[k].shift \in Int
    /\ r[k].fireOnce \in BOOLEAN /\ r[k].grace \in Nat
    /\ r[k].results \subseteq Result
    /\ \A x \in r[k].results : x.status # "completed" => ~x.delivered
ASSUME LoopAssumption ==
  /\ {Lease, DenialRecheck, DeliveryRetry, MaxTime, ClaimLimit} \subseteq Nat \ {0}
  /\ {HasDispatcher, LosesEngine, LosesDispatch, MayCrash, Prompt} \subseteq BOOLEAN

VARIABLES rhythm,   \* the rhythm of each key; it never changes
          now, issued, state, lease, claim,   \* the store's
          point,    \* where each worker is in _process
          after,    \* evaluation.next_after_fire
          occ,      \* decision.occurrence_key
          got,      \* the result of handle(), its pending lines counted down
          spoken    \* every text a platform took: [key, id, at, occ]

storeVars == <<rhythm, now, issued, state, lease, claim>>
firingVars == <<after, occ, got>>
vars == <<rhythm, now, issued, state, lease, claim, point, after, occ, got, spoken>>

\* The store, whose actions the loop's steps are made of (its Next is not used,
\* nor are the sets its workers choose from).
Store == INSTANCE PulseStore WITH Outcomes <- {}, Horizons <- {}, Occurrences <- {}

ASSUME NoClaimAssumption == NoClaim \notin Store!Claim

NoResult == [status |-> "noop", delivered |-> FALSE, pending |-> 0,
             errored |-> FALSE]

TypeOK ==
  /\ rhythm \in Rhythms
  /\ Store!TypeOK
  /\ point \in [Worker -> {"idle", "decide", "plan", "act", "conclude"}]
  /\ \A w \in Worker : (point[w] = "idle") <=> (claim[w] = NoClaim)
  /\ after \in [Worker -> Nat] /\ occ \in [Worker -> 0..MaxTime]
  /\ got \in [Worker -> Result]
  /\ spoken \subseteq [key : Key, id : Nat, at : 1..MaxTime, occ : 0..MaxTime]

Init ==
  /\ rhythm \in Rhythms
  /\ Store!Init
  /\ point = [w \in Worker |-> "idle"]
  /\ after = [w \in Worker |-> 0]
  /\ occ = [w \in Worker |-> 0]
  /\ got = [w \in Worker |-> NoResult]
  /\ spoken = {}

RhythmOf(w) == rhythm[claim[w].key]
At(w) == claim[w].at

-----------------------------------------------------------------------------
(***************************************************************************)
(* evaluate().  An evaluation is quiet until `next` or fires (due);        *)
(* `after` is the horizon if it goes ahead, `occ` the occurrence key to    *)
(* record (0: none).                                                       *)
(***************************************************************************)
Quiet(next, o) == [due |-> FALSE, next |-> next, after |-> next, occ |-> o]
Fires(next, o) == [due |-> TRUE, next |-> 0, after |-> next, occ |-> o]

\* Mutant: the horizon of a firing is counted from the anchor too.
IntervalFromAnchor(r, anchor, at) ==
  IF anchor # 0 /\ at < anchor + r.every
    THEN {Quiet(anchor + r.every + j, 0) : j \in 0..r.jitter}
    ELSE {Fires((IF anchor = 0 THEN at ELSE anchor) + r.every + j, 0) : j \in 0..r.jitter}

\* Interval, anchored on a state timestamp (0: first contact, due at once); the
\* jitter is baked into the horizon.
Interval(r, anchor, at) ==
  IF anchor # 0 /\ at < anchor + r.every
    THEN {Quiet(anchor + r.every + j, 0) : j \in 0..r.jitter}
    ELSE {Fires(at + r.every + j, 0) : j \in 0..r.jitter}

\* The local reading of an instant: clocks set back show some readings twice,
\* clocks set forward leave some out.
Wall(r, t) == IF t >= r.change THEN t + r.shift ELSE t

Matches(r, t) == Wall(r, t) % r.every \in r.marks

\* The model's horizon for a cron: two of its periods and the change.
Ahead(r, t) == (t + 1)..(t + 2 * r.every + (IF r.shift < 0 THEN -r.shift ELSE r.shift))

\* Mutant: every instant at which the cron matches is an occurrence.
NextInstant(r, t) == Min({u \in Ahead(r, t) : Matches(r, u)})

\* _next_distinct_occurrence: the next one with another local reading.
NextOccurrence(r, t) ==
  Min({u \in Ahead(r, t) : Matches(r, u) /\ Wall(r, u) # Wall(r, t)})

\* The occurrences after the last one recorded that have come.
Backlog(r, last, at) ==
  LET from[t \in last..at] ==
        LET u == NextOccurrence(r, t) IN IF u > at THEN {} ELSE {u} \cup from[u]
  IN  from[last]

Calendar(r, s, at) ==
  LET last == IF s.occurrence = 0 THEN at ELSE s.occurrence
      backlog == Backlog(r, last, at)
      newest == Max(backlog)
  IN  IF backlog = {}
        THEN Quiet(NextOccurrence(r, last), IF s.occurrence = 0 THEN at ELSE 0)
      ELSE IF at - newest > r.grace /\ ~r.fireOnce
        THEN Quiet(NextOccurrence(r, newest), newest)
        ELSE Fires(NextOccurrence(r, newest), newest)

\* Dynamic: the decider's answer, clamped into [min_sleep, max_sleep] = [1, every].
Dynamic(r, at) ==
  LET horizons == (at + 1)..(at + r.every)
  IN  {Quiet(next, 0) : next \in horizons} \cup {Fires(next, 0) : next \in horizons}

Evaluations(w) ==
  LET r == RhythmOf(w)
      s == claim[w].state
  IN  CASE r.kind = "last_delivered" -> Interval(r, s.delivered, At(w))
        [] r.kind = "last_attempt" -> Interval(r, s.attempt, At(w))
        [] r.kind = "calendar" -> {Calendar(r, s, At(w))}
        [] r.kind = "dynamic" -> Dynamic(r, At(w))

-----------------------------------------------------------------------------
Goto(w, p) == point' = [point EXCEPT ![w] = p]

\* _process is over, and its locals are gone.
End(w) ==
  /\ Goto(w, "idle")
  /\ after' = [after EXCEPT ![w] = 0]
  /\ occ' = [occ EXCEPT ![w] = 0]
  /\ got' = [got EXCEPT ![w] = NoResult]
  /\ UNCHANGED rhythm

\* complete() or abandon() at the end of a firing: the store takes it, or
\* raises StaleClaimError since another worker took the claim over.
Complete(w, o, next, occurrence) ==
  /\ Store!Complete(w, o, next, occurrence) \/ Store!Refused(w)
  /\ End(w)

Abandon(w, next) ==
  /\ Store!Abandon(w, next) \/ Store!Refused(w)
  /\ End(w)

Quietly(status) == [status |-> status, generated |-> FALSE, delivered |-> FALSE]

Advance ==
  /\ Prompt => \A w \in Worker : point[w] # "idle" => now + 1 < claim[w].until
  /\ Store!Advance
  /\ UNCHANGED <<rhythm, point, firingVars, spoken>>

\* 1. due + claim
Claim(w, k) ==
  /\ point[w] = "idle"
  /\ Store!ClaimDue(w, k)
  /\ Goto(w, "decide")
  /\ UNCHANGED <<rhythm, firingVars, spoken>>

\* 2. decide: not due
StayQuiet(w) ==
  /\ point[w] = "decide"
  /\ \E e \in Evaluations(w) :
       ~e.due /\ Complete(w, Quietly("skipped"), e.next, e.occ)
  /\ UNCHANGED spoken

Decide(w) ==
  /\ point[w] = "decide"
  /\ \E e \in Evaluations(w) : /\ e.due
                               /\ after' = [after EXCEPT ![w] = e.after]
                               /\ occ' = [occ EXCEPT ![w] = e.occ]
  /\ Goto(w, "plan")
  /\ UNCHANGED <<storeVars, got, spoken>>

\* 3. and 4. no plan, or a gate's denial (with a horizon of its own, here the
\* next tick, or none): the occurrence is not consumed.
Forgo(w) ==
  /\ point[w] = "plan"
  /\ \/ Complete(w, Quietly("skipped"), At(w) + DenialRecheck, 0)
     \/ \E wait \in {1, DenialRecheck} :
          Complete(w, Quietly("denied"), At(w) + wait, 0)
  /\ UNCHANGED spoken

Clear(w) ==
  /\ point[w] = "plan"
  /\ Goto(w, "act")
  /\ UNCHANGED <<storeVars, firingVars, spoken>>

\* A platform takes a text of this firing.
Speak(w) ==
  spoken' = spoken \cup {[key |-> claim[w].key, id |-> claim[w].id,
                          at |-> At(w), occ |-> occ[w]]}

\* 5. build + act: handle() returns.
Handle(w) ==
  /\ point[w] = "act"
  /\ \E r \in RhythmOf(w).results :
       /\ got' = [got EXCEPT ![w] = r]
       /\ IF r.delivered THEN Speak(w) ELSE UNCHANGED spoken
  /\ Goto(w, "conclude")
  /\ UNCHANGED <<storeVars, after, occ>>

\* An exception in decide, plan, gates, build or act abandons the claim with a
\* bounded retry.
Fail(w) ==
  /\ point[w] \in {"decide", "plan", "act"}
  /\ Abandon(w, At(w) + DeliveryRetry)
  /\ \/ UNCHANGED spoken
     \/ LosesEngine /\ point[w] = "act" /\ Speak(w)

-----------------------------------------------------------------------------
(***************************************************************************)
(* 6. _conclude and complete.                                              *)
(***************************************************************************)
Concluding(w, status) == point[w] = "conclude" /\ got[w].status = status

Cancelled(w) ==
  /\ Concluding(w, "cancelled")
  /\ Complete(w, Quietly("cancelled"), after[w], occ[w])
  /\ UNCHANGED spoken

Noop(w) ==
  /\ Concluding(w, "noop")
  /\ Complete(w, Quietly("skipped"), after[w], 0)
  /\ UNCHANGED spoken

\* The dispatcher sent a pending text and the engine confirmed it.
DispatchPending(w) ==
  /\ Concluding(w, "completed") /\ got[w].pending > 0 /\ HasDispatcher
  /\ Speak(w)
  /\ got' = [got EXCEPT ![w].pending = @ - 1, ![w].delivered = TRUE]
  /\ UNCHANGED <<storeVars, point, after, occ>>

\* Mutants: an earlier line's delivery is forgotten; it is taken for granted.
LeavePendingForgetting(w) ==
  /\ Concluding(w, "completed") /\ got[w].pending > 0
  /\ Complete(w, [status |-> "failed", generated |-> TRUE, delivered |-> FALSE],
              At(w) + DeliveryRetry, 0)
  /\ UNCHANGED spoken
LeavePendingHopeful(w) ==
  /\ Concluding(w, "completed") /\ got[w].pending > 0
  /\ Complete(w, [status |-> "failed", generated |-> TRUE, delivered |-> TRUE],
              At(w) + DeliveryRetry, 0)
  /\ UNCHANGED spoken

\* A pending text nobody sends: no dispatcher, or it did not confirm.
LeavePending(w) ==
  /\ Concluding(w, "completed") /\ got[w].pending > 0
  /\ Complete(w, [status |-> "failed", generated |-> TRUE,
                  delivered |-> got[w].delivered], At(w) + DeliveryRetry, 0)
  /\ UNCHANGED spoken

\* The dispatcher, or the confirmation of what it sent, raises: the exception
\* leaves _process past the handler that abandons claims.
DispatchRaises(w) ==
  /\ LosesDispatch
  /\ Concluding(w, "completed") /\ got[w].pending > 0 /\ HasDispatcher
  /\ Speak(w) \/ UNCHANGED spoken
  /\ Store!Lose(w)
  /\ End(w)

\* A line was delivered or pending: the pending ones are all dispatched by now.
Generated(w) == got[w].delivered

FailLines(w) ==
  /\ Concluding(w, "completed") /\ got[w].pending = 0
  /\ got[w].errored /\ ~got[w].delivered
  /\ Complete(w, [status |-> "failed", generated |-> Generated(w),
                  delivered |-> FALSE], At(w) + DeliveryRetry, 0)
  /\ UNCHANGED spoken

Activated(w) ==
  /\ Concluding(w, "completed") /\ got[w].pending = 0
  /\ ~got[w].errored \/ got[w].delivered
  /\ Complete(w, [status |-> "activated", generated |-> Generated(w),
                  delivered |-> got[w].delivered], after[w], occ[w])
  /\ UNCHANGED spoken

\* The worker dies; its lease stays behind.
Crash(w) ==
  /\ MayCrash
  /\ Store!Lose(w)
  /\ End(w)
  /\ UNCHANGED spoken

Rest == now = MaxTime /\ UNCHANGED vars

Work(w) ==
  \/ StayQuiet(w) \/ Decide(w) \/ Forgo(w) \/ Clear(w)
  \/ Handle(w) \/ Fail(w) \/ Cancelled(w) \/ Noop(w) \/ DispatchPending(w) \/ LeavePending(w)
  \/ DispatchRaises(w) \/ FailLines(w) \/ Activated(w) \/ Crash(w)

Next ==
  \/ Advance
  \/ \E w \in Worker : Work(w) \/ \E k \in Key : Claim(w, k)
  \/ Rest

Spec == Init /\ [][Next]_vars

-----------------------------------------------------------------------------
(***************************************************************************)
(* Properties.                                                             *)
(***************************************************************************)

\* The record is honest: a rhythm is marked delivered only at a time at which
\* one of its firings really spoke, and what was delivered was generated, and
\* what was generated was attempted, also when claims expire under slow workers
\* and workers die.
HonestRecord ==
  \A k \in Key :
    /\ state[k].delivered # 0 =>
         \E s \in spoken : s.key = k /\ s.at = state[k].delivered
    /\ state[k].delivered <= state[k].generated
    /\ state[k].generated <= state[k].attempt

\* A consumed occurrence stays consumed: no worker, however late, sets the
\* occurrence of a rhythm back to one that was already dealt with.
OccurrencesAdvance ==
  [][\A k \in Key : state[k].occurrence <= state'[k].occurrence]_vars

\* "Occurrences are keyed and fire at most once", and "a repeated local time
\* fires at most once": the platform takes the texts for a local time a calendar
\* rhythm names from one firing only, also when the clocks are set back.
FireOnce ==
  \A s, t \in spoken :
    LET r == rhythm[s.key] IN
    /\ r.kind = "calendar"
    /\ s.key = t.key /\ Wall(r, s.occ) = Wall(r, t.occ)
    => s.id = t.id

\* Outreach anchored on the last delivery keeps its distance: two firings of
\* such a rhythm that spoke are `every` apart.  A delivery the record forgets
\* would let a retry repeat it.
OutreachSpaced ==
  \A s, t \in spoken :
    /\ rhythm[s.key].kind = "last_delivered"
    /\ s.key = t.key /\ s.id < t.id
    => s.at + rhythm[s.key].every <= t.at

\* A firing ends cleanly: when a worker that owns its claim is done, however it
\* ended, the rhythm is free for others and has a horizon after the firing: it
\* is neither lost nor retried in a tight loop.
EndsCleanly ==
  [][\A w \in Worker : LET k == claim[w].key IN
       Store!Active(w) /\ claim'[w] = NoClaim =>
         lease'[k].id = 0 /\ state'[k].next > At(w)]_vars
=============================================================================
