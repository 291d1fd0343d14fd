---------------------------- MODULE PulseLifecycle ----------------------------
(***************************************************************************)
(* The life of the pulse loops that share a store (Pulse.run, stop and     *)
(* tick in src/dainframe/pulse/loop.py): every cycle a loop walks all the  *)
(* rhythms its source lists and processes them one after another, then     *)
(* sleeps until the next cycle or until stop() wakes it.                   *)
(*                                                                         *)
(* A firing is seen through its effect on the store: it completes, is      *)
(* abandoned, is refused, or an exception leaves the claim behind.  tick() *)
(* swallows whatever exception ends a firing and goes on.  The app may     *)
(* call stop() at any moment, calls run() again only after the last one    *)
(* returned, and its processes may die.                                    *)
(***************************************************************************)
EXTENDS PulseStore

CONSTANT Cycle   \* how long a loop sleeps between two ticks

ASSUME CycleAssumption == Cycle \in Nat \ {0}

VARIABLES
  mode,      \* where each loop is: off (run() has not begun, or has returned),
             \* tick, walk or asleep
  running,   \* _running
  stopping,  \* whether the event of its run(), _stopping, is set
  rest,      \* the rhythms its walk has still to process
  wake       \* when its sleep times out, 0 while it is awake

lifeVars == <<mode, running, stopping, rest, wake>>
loopVars == <<now, issued, state, lease, claim, mode, running, stopping, rest, wake>>

LoopTypeOK ==
  /\ mode \in [Worker -> {"off", "tick", "walk", "asleep"}]
  /\ running \in [Worker -> BOOLEAN]
  /\ stopping \in [Worker -> BOOLEAN]
  /\ rest \in [Worker -> SUBSET Key]
  /\ wake \in [Worker -> Nat]

LoopInit ==
  /\ Init
  /\ mode = [w \in Worker |-> "off"]
  /\ running = [w \in Worker |-> FALSE]
  /\ stopping = [w \in Worker |-> FALSE]
  /\ rest = [w \in Worker |-> {}]
  /\ wake = [w \in Worker |-> 0]

Goto(w, m) == mode' = [mode EXCEPT ![w] = m]

-----------------------------------------------------------------------------
(***************************************************************************)
(* The app.                                                                *)
(***************************************************************************)

\* Mutant: only the flag is cleared, and the sleep is not interrupted.
StopWithoutWaking(w) ==
  /\ mode[w] # "off"
  /\ running' = [running EXCEPT ![w] = FALSE]
  /\ UNCHANGED <<vars, mode, stopping, rest, wake>>

\* Mutant: the loop is woken, and the flag stays up.
StopOnlyWakes(w) ==
  /\ mode[w] # "off"
  /\ stopping' = [stopping EXCEPT ![w] = TRUE]
  /\ UNCHANGED <<vars, mode, running, rest, wake>>

\* stop().  Before run() has begun it is lost, since run() sets the flag and
\* makes a new event: nothing of it is seen later.
Stop(w) ==
  /\ mode[w] # "off"
  /\ running' = [running EXCEPT ![w] = FALSE]
  /\ stopping' = [stopping EXCEPT ![w] = TRUE]
  /\ UNCHANGED <<vars, mode, rest, wake>>

\* run() is over: another one starts with a new event.
Over(w) ==
  /\ Goto(w, "off")
  /\ running' = [running EXCEPT ![w] = FALSE]
  /\ stopping' = [stopping EXCEPT ![w] = FALSE]

\* The process dies; another Pulse may take its place.
Crash(w) ==
  /\ mode[w] # "off"
  /\ IF claim[w] = NoClaim THEN UNCHANGED vars ELSE Lose(w)
  /\ Over(w)
  /\ rest' = [rest EXCEPT ![w] = {}]
  /\ wake' = [wake EXCEPT ![w] = 0]

-----------------------------------------------------------------------------
(***************************************************************************)
(* run() and tick().                                                       *)
(***************************************************************************)

\* run() begins, with an event of its own.
Begin(w) ==
  /\ mode[w] = "off"
  /\ Goto(w, "tick")
  /\ running' = [running EXCEPT ![w] = TRUE]
  /\ stopping' = [stopping EXCEPT ![w] = FALSE]
  /\ UNCHANGED <<vars, rest, wake>>

\* The source lists the rhythms, to be processed in whatever order.
List(w) ==
  /\ mode[w] = "tick"
  /\ rest' = [rest EXCEPT ![w] = Key]
  /\ Goto(w, "walk")
  /\ UNCHANGED <<vars, running, stopping, wake>>

\* Mutant: the exception ends the loop.
ListFailsFatally(w) ==
  /\ mode[w] = "tick"
  /\ Goto(w, "off")
  /\ UNCHANGED <<vars, running, stopping, rest, wake>>

\* The source fails, and the cycle is skipped.
ListFails(w) ==
  /\ mode[w] = "tick"
  /\ Goto(w, "walk")
  /\ UNCHANGED <<vars, running, stopping, rest, wake>>

\* claim_due() of the next rhythm gives a claim, or None.
Poll(w, k) ==
  /\ mode[w] = "walk" /\ claim[w] = NoClaim
  /\ k \in rest[w]
  /\ rest' = [rest EXCEPT ![w] = @ \ {k}]
  /\ \/ ClaimDue(w, k)
     \/ (~Free(k) \/ ~Due(k) \/ issued = ClaimLimit) /\ UNCHANGED vars
  /\ UNCHANGED <<mode, running, stopping, wake>>

\* Whatever the firing comes to, the walk goes on.
Fire(w) ==
  /\ mode[w] = "walk"
  /\ Work(w)
  /\ UNCHANGED lifeVars

\* The tick is over: the loop sleeps, or run() returns.
Doze(w) ==
  /\ mode[w] = "walk" /\ claim[w] = NoClaim /\ rest[w] = {}
  /\ IF running[w]
       THEN /\ Goto(w, "asleep")
            /\ wake' = [wake EXCEPT ![w] = now + Cycle]
            /\ UNCHANGED <<running, stopping>>
       ELSE Over(w) /\ UNCHANGED wake
  /\ UNCHANGED <<vars, rest>>

\* The event is set, or the cycle (or the model's time) is over.
Woken(w) == mode[w] = "asleep" /\ (stopping[w] \/ now >= wake[w] \/ now = MaxTime)

\* The loop wakes and looks at the flag again.
Wake(w) ==
  /\ Woken(w)
  /\ IF running[w] THEN Goto(w, "tick") /\ UNCHANGED <<running, stopping>> ELSE Over(w)
  /\ wake' = [wake EXCEPT ![w] = 0]
  /\ UNCHANGED <<vars, rest>>

Tick(w) == \E k \in Key : Poll(w, k)

LoopStep(w) ==
  \/ List(w) \/ ListFails(w) \/ Tick(w) \/ Fire(w) \/ Doze(w) \/ Wake(w)

AppStep(w) == Begin(w) \/ Stop(w) \/ Crash(w)

LoopNext ==
  \/ Advance /\ UNCHANGED lifeVars
  \/ \E w \in Worker : LoopStep(w) \/ AppStep(w)

LoopSpec == LoopInit /\ [][LoopNext]_loopVars

(***************************************************************************)
(* Fairness: time passes, asyncio runs every loop that can go on, and the  *)
(* app's source does not fail for ever.  Nothing else is assumed of the    *)
(* app; that every rhythm is polled again and again follows from the walks.*)
(***************************************************************************)
LoopFairness ==
  /\ WF_loopVars(Advance /\ UNCHANGED lifeVars)
  /\ \A w \in Worker : WF_loopVars(LoopStep(w)) /\ SF_loopVars(List(w))

FairLoopSpec == LoopSpec /\ LoopFairness

-----------------------------------------------------------------------------
(***************************************************************************)
(* Properties.                                                             *)
(***************************************************************************)

\* Shutdown is prompt: a loop that was stopped does not sleep its cycle out, for
\* the event it waits on is set, whenever in its life the call came.
StopIsPrompt ==
  \A w \in Worker : mode[w] = "asleep" /\ ~running[w] => stopping[w]

\* Once run() has begun, a stop() ends it, however its firings and its source
\* fare.
StopEnds ==
  \A w \in Worker :
    mode[w] # "off" /\ (stopping[w] \/ ~running[w]) ~> mode[w] = "off"

\* No rhythm is silenced: as long as some loop is not stopped, a due rhythm that
\* nobody owns is claimed, also when the source fails, when firings before it raise,
\* when the worker that owned it died, and when other loops come and go.  The bound
\* on claims is excluded, so that a rhythm which raises at every claim is not judged
\* beyond it.
StaysUp == \E w \in Worker : <>[]running[w]

Waiting(k) == state[k].next <= now /\ lease[k].until <= now /\ issued < ClaimLimit

RhythmsAreServed == StaysUp => \A k \in Key : []<>~Waiting(k)
=============================================================================
