------------------------------- MODULE Providers -------------------------------
(***************************************************************************)
(* Model routing and the concurrency ceiling: agent runs whose execution   *)
(* hints are turned into one provider for the whole run (AgentLoop._route  *)
(* in src/dainframe/loop/agent_loop.py, ProviderTable in                   *)
(* providers/resolver.py), and whose calls share ConcurrencyLimiters       *)
(* (providers/limits.py) in the adapters' create_message().                *)
(*                                                                         *)
(* A limiter is an asyncio.Semaphore (Python 3.11): a release hands its    *)
(* permit to the first waiter not yet woken, which goes on when its task   *)
(* is scheduled, and meanwhile newcomers queue behind it.  Tasks may be    *)
(* cancelled at every await.                                               *)
(***************************************************************************)
EXTENDS Naturals, FiniteSets

CONSTANTS
  Run,              \* the agent runs
  Absent,           \* a field of the hints that is None
  NoHints, NoRoute,
  Hints,            \* the ExecutionHints lines may carry
  Builders,         \* the providers the table can build
  DefaultProvider,
  DefaultModels,    \* provider |-> model
  EffortSupport,    \* the providers whose adapter has the effort dial
  EffortLevels,     \* provider |-> the levels it accepts
  Home,             \* the constructor's provider: its name and model
  OwnEffort,        \* the effort the agent itself asks for, or Absent
  Wirings,          \* the ways to wire a loop considered
  MaxConcurrent,
  MaxCalls          \* bound: the calls of a run (max_iterations and retries)

\* A limiter: the table's, or the home provider's own.
Limiter == {"table", "private"}

\* What ProviderTable.__init__ demands, and a limiter that lets calls through.
ASSUME TableAssumption ==
  /\ DefaultProvider \in Builders /\ DefaultProvider \in DOMAIN DefaultModels
  /\ Absent \notin Builders
  /\ \A p \in DOMAIN DefaultModels : DefaultModels[p] # Absent
ASSUME LimiterAssumption == MaxConcurrent \in Nat \ {0} /\ MaxCalls \in Nat \ {0}
ASSUME RunAssumption == IsFiniteSet(Run) /\ NoHints \notin Hints

\* With a resolver or without, and whose limiter the home provider was given.
ASSUME WiringAssumption ==
  \A w \in Wirings : w.resolver \in BOOLEAN /\ w.home \in Limiter

VARIABLES
  wiring,     \* how the loop is wired; it never changes
  instances,  \* _instances: the providers built, with the keys they are under
  at,         \* where each run is
  hint,       \* its hints
  route,      \* its provider: whom its calls really reach
  made,       \* the calls it has begun
  free,       \* the semaphores' values
  before      \* the waiters that joined a run's queue before it

vars == <<wiring, instances, at, hint, route, made, free, before>>

Models ==
  {Home.model} \cup {DefaultModels[p] : p \in DOMAIN DefaultModels}
               \cup {h.model : h \in Hints}

Route == [provider : Builders \cup {Home.provider}, model : Models,
          effort : {OwnEffort} \cup {h.effort : h \in Hints}, limiter : Limiter]

Place == {"idle", "queued", "granted", "flying", "tools", "ended"}

\* Runs under way have a provider.
Active(r) == at[r] \in {"queued", "granted", "flying", "tools"}

TypeOK ==
  /\ wiring \in Wirings
  /\ at \in [Run -> Place]
  /\ hint \in [Run -> Hints \cup {NoHints}]
  /\ route \in [Run -> Route \cup {NoRoute}]
  /\ \A r \in Run : Active(r) => route[r] \in Route
  /\ made \in [Run -> 0..MaxCalls]
  /\ free \in [Limiter -> 0..MaxConcurrent]
  /\ before \in [Run -> SUBSET Run]

Init ==
  /\ wiring \in Wirings
  /\ instances = {}
  /\ at = [r \in Run |-> "idle"]
  /\ hint = [r \in Run |-> NoHints]
  /\ route = [r \in Run |-> NoRoute]
  /\ made = [r \in Run |-> 0]
  /\ free = [l \in Limiter |-> MaxConcurrent]
  /\ before = [r \in Run |-> {}]

-----------------------------------------------------------------------------
(***************************************************************************)
(* The limiter.                                                            *)
(***************************************************************************)
Waiting(l) == {r \in Run : at[r] \in {"queued", "granted"} /\ route[r].limiter = l}

\* acquire(): a permit at once, or a place in the queue.
Acquire(r, l) ==
  /\ made' = [made EXCEPT ![r] = @ + 1]
  /\ IF free[l] = 0 \/ Waiting(l) # {}
       THEN /\ at' = [at EXCEPT ![r] = "queued"]
            /\ before' = [before EXCEPT ![r] = Waiting(l)]
            /\ UNCHANGED free
       ELSE /\ at' = [at EXCEPT ![r] = "flying"]
            /\ free' = [free EXCEPT ![l] = @ - 1]
            /\ UNCHANGED before

\* _wake_up_next(), when l has n permits and the runs are at `places`.
WakeNext(l, n, places) ==
  LET ready == {s \in Run : places[s] = "queued" /\ route[s].limiter = l} IN
  \/ /\ n = 0 \/ ready = {}
     /\ free' = [free EXCEPT ![l] = n]
     /\ at' = places
  \/ /\ n > 0
     /\ \E s \in ready : /\ before[s] \cap ready = {}
                         /\ at' = [places EXCEPT ![s] = "granted"]
     /\ free' = [free EXCEPT ![l] = n - 1]

\* The run leaves the queue of waiters.
Unqueue(r) ==
  before' = [s \in Run |-> IF s = r THEN {} ELSE before[s] \ {r}]

\* __aexit__, however the call ended.
Release(r, place) ==
  LET l == route[r].limiter IN
  /\ at[r] = "flying"
  /\ WakeNext(l, free[l] + 1, [at EXCEPT ![r] = place])
  /\ UNCHANGED before

-----------------------------------------------------------------------------
(***************************************************************************)
(* Routing.                                                                *)
(***************************************************************************)
Name(h) == IF h.provider = Absent THEN DefaultProvider ELSE h.provider

ModelOf(h) ==
  IF h.model # Absent THEN h.model
  ELSE IF Name(h) \in DOMAIN DefaultModels THEN DefaultModels[Name(h)] ELSE Absent

Honours(p, effort) ==
  p \in EffortSupport /\ p \in DOMAIN EffortLevels /\ effort \in EffortLevels[p]

\* resolve() raises HintResolutionError otherwise.
Resolvable(h) ==
  /\ Name(h) \in Builders
  /\ ModelOf(h) # Absent
  /\ h.effort # Absent => Honours(Name(h), h.effort)

\* Mutant: instances are cached by provider.
KeyByProvider(h) == <<Name(h), Name(h)>>

CacheKey(h) == <<Name(h), ModelOf(h)>>

\* Mutant: every instance gets a limiter that is not the table's.
BuildUnshared(h) ==
  [key |-> CacheKey(h), provider |-> Name(h), model |-> ModelOf(h),
   limiter |-> "private"]

\* A builder makes a provider, with the table's limiter.
Build(h) ==
  [key |-> CacheKey(h), provider |-> Name(h), model |-> ModelOf(h),
   limiter |-> "table"]

Cached(h) == {i \in instances : i.key = CacheKey(h)}

Effort(h) == IF h = NoHints \/ h.effort = Absent THEN OwnEffort ELSE h.effort

\* The run begins: its first call is made before anything is awaited.
Begin(r, h, provider) ==
  /\ at[r] = "idle"
  /\ hint' = [hint EXCEPT ![r] = h]
  /\ route' = [route EXCEPT ![r] =
                 [provider |-> provider.provider, model |-> provider.model,
                  effort |-> Effort(h), limiter |-> provider.limiter]]
  /\ Acquire(r, provider.limiter)
  /\ UNCHANGED wiring

\* No hints, or none that needs routing and no resolver.
StartAtHome(r, h) ==
  /\ h # NoHints => ~wiring.resolver /\ h.provider = Absent /\ h.model = Absent
  /\ Begin(r, h, [provider |-> Home.provider, model |-> Home.model,
                  limiter |-> wiring.home])
  /\ UNCHANGED instances

StartResolved(r, h) ==
  /\ h # NoHints /\ wiring.resolver /\ Resolvable(h)
  /\ instances' = IF Cached(h) = {} THEN instances \cup {Build(h)} ELSE instances
  /\ \E i \in instances' : i.key = CacheKey(h) /\ Begin(r, h, i)

\* HintResolutionError, before the first call.
StartRefused(r, h) ==
  /\ at[r] = "idle"
  /\ h # NoHints
  /\ IF wiring.resolver THEN ~Resolvable(h) ELSE h.provider # Absent \/ h.model # Absent
  /\ at' = [at EXCEPT ![r] = "ended"]
  /\ UNCHANGED <<wiring, instances, hint, route, made, free, before>>

-----------------------------------------------------------------------------
(***************************************************************************)
(* create_message() and the run around it.                                 *)
(***************************************************************************)

\* The locals of the run are gone.
Over(r) ==
  /\ hint' = [hint EXCEPT ![r] = NoHints]
  /\ route' = [route EXCEPT ![r] = NoRoute]
  /\ made' = [made EXCEPT ![r] = 0]
  /\ UNCHANGED <<wiring, instances>>

\* A waiter that was woken goes on, and wakes the next if permits are left.
Resume(r) ==
  LET l == route[r].limiter IN
  /\ at[r] = "granted"
  /\ Unqueue(r)
  /\ WakeNext(l, free[l], [at EXCEPT ![r] = "flying"])
  /\ UNCHANGED <<wiring, instances, hint, route, made>>

\* The model calls tools, which run outside of the limiter ...
AnswerWithTools(r) ==
  /\ made[r] < MaxCalls
  /\ Release(r, "tools")
  /\ UNCHANGED <<wiring, instances, hint, route, made>>

CallAgain(r) ==
  /\ at[r] = "tools"
  /\ Acquire(r, route[r].limiter)
  /\ UNCHANGED <<wiring, instances, hint, route>>

\* ... or the run ends with its answer.
Answer(r) == Release(r, "ended") /\ Over(r)

\* Mutant: an error leaves the permit taken.
FailHolding(r) ==
  /\ at[r] = "flying"
  /\ at' = [at EXCEPT ![r] = "ended"]
  /\ Over(r)
  /\ UNCHANGED <<free, before>>

\* The API, or the connection, raises.
Fail(r) == Release(r, "ended") /\ Over(r)

\* The task is cancelled, at whatever await it is.
Cancel(r) ==
  LET l == route[r].limiter
      places == [at EXCEPT ![r] = "ended"]
  IN  /\ \/ at[r] = "tools" /\ at' = places /\ UNCHANGED <<free, before>>
         \/ at[r] = "queued" /\ at' = places /\ Unqueue(r) /\ UNCHANGED free
         \/ at[r] = "granted" /\ Unqueue(r) /\ WakeNext(l, free[l] + 1, places)
         \/ Release(r, "ended")
      /\ Over(r)

\* Every run is over.
Rest == (\A r \in Run : at[r] = "ended") /\ UNCHANGED vars

Start(r) ==
  \E h \in Hints \cup {NoHints} :
    StartAtHome(r, h) \/ StartResolved(r, h) \/ StartRefused(r, h)

Proceed(r) ==
  Resume(r) \/ AnswerWithTools(r) \/ CallAgain(r) \/ Answer(r) \/ Fail(r)

Next == (\E r \in Run : Start(r) \/ Proceed(r) \/ Cancel(r)) \/ Rest

Spec == Init /\ [][Next]_vars

-----------------------------------------------------------------------------
(***************************************************************************)
(* Properties.                                                             *)
(***************************************************************************)

\* The ceiling is one: the calls in flight of all the runs whose providers are
\* the table's, or were given its limiter, are never more than max_concurrent,
\* whatever models they resolve to, fail on or are cancelled at.
Shares(r) == IF hint[r] # NoHints /\ wiring.resolver THEN TRUE ELSE wiring.home = "table"

CeilingHolds ==
  Cardinality({r \in Run : at[r] = "flying" /\ Shares(r)}) <= MaxConcurrent

\* A hint is honoured, never dropped or approximated: the provider that a run's
\* calls reach is the one hinted, with the model and the effort hinted, whatever
\* instances runs before it have left in the cache; and the table sends no hinted
\* effort to a provider that cannot honour it.
RouteIsHonoured ==
  \A r \in Run : route[r] # NoRoute =>
    LET h == hint[r]
        to == route[r]
    IN  IF h = NoHints
          THEN to.provider = Home.provider /\ to.model = Home.model
          ELSE /\ h.provider # Absent => to.provider = h.provider
               /\ h.model # Absent => to.model = h.model
               /\ h.effort # Absent => to.effort = h.effort
               /\ wiring.resolver /\ h.effort # Absent => Honours(to.provider, h.effort)

\* No permit is lost and no waiter forgotten: every run ends, though runs before
\* it in the queue are cancelled when they are about to go on.
EveryRunEnds ==
  \A r \in Run : at[r] # "idle" ~> at[r] = "ended"
=============================================================================
