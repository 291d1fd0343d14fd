---------------------------- MODULE ProvidersProofs ----------------------------
(***************************************************************************)
(* Proofs about Providers and ToolCalls, for any runs, providers, models,  *)
(* hints, wirings and ceilings, and any tools and inputs.                  *)
(*                                                                         *)
(* CeilingHolds is not inductive: it follows from the conservation of      *)
(* permits (a limiter's value and the runs that hold or were handed a      *)
(* permit add up to max_concurrent) and from all instances of the table    *)
(* having been built with the table's limiter.                             *)
(*                                                                         *)
(* ToolInputIsMeant follows from two facts about strict schemas: the       *)
(* strict form accepts what is said of every meaning that the schema       *)
(* allows, and the nulls that are dropped on the way back are those that   *)
(* saying it has added.                                                    *)
(***************************************************************************)
EXTENDS ToolCalls, FiniteSetTheorems, SequenceTheorems, TLAPS

\* The runs at `places` that hold a permit of l, or were handed one.
Held(places, l) ==
  {r \in Run : places[r] \in {"granted", "flying"} /\ route[r].limiter = l}

\* No permit is lost and none is made up.
Conserved == \A l \in Limiter : free[l] + Cardinality(Held(at, l)) = MaxConcurrent

\* The cache holds what its keys say, built with the table's limiter.
CacheTrue ==
  \A i \in instances :
    /\ i.key = <<i.provider, i.model>>
    /\ i.provider \in Builders /\ i.model \in Models
    /\ i.limiter = "table"

\* A run whose calls count against the ceiling is on the table's limiter.
Wired == \A r \in Run : Active(r) /\ Shares(r) => route[r].limiter = "table"

\* A run makes its first call as it begins, and tools come before the last.
Counted ==
  \A r \in Run : /\ at[r] = "idle" => made[r] = 0
                 /\ at[r] = "tools" => made[r] < MaxCalls

\* The state of the limiters, and of the runs' routes.
Limits ==
  /\ at \in [Run -> Place]
  /\ free \in [Limiter -> Nat]
  /\ Conserved

Routes ==
  /\ wiring \in Wirings
  /\ hint \in [Run -> Hints \cup {NoHints}]
  /\ route \in [Run -> Route \cup {NoRoute}]
  /\ \A r \in Run : Active(r) => route[r] \in Route
  /\ CacheTrue
  /\ Wired
  /\ RouteIsHonoured

Calls ==
  /\ made \in [Run -> 0..MaxCalls]
  /\ before \in [Run -> SUBSET Run]
  /\ Counted

IInv == Limits /\ Routes /\ Calls

-----------------------------------------------------------------------------
LEMMA HeldFinite ==
  ASSUME NEW places, NEW l
  PROVE  IsFiniteSet(Held(places, l)) /\ Cardinality(Held(places, l)) \in Nat
<1>1. Held(places, l) \subseteq Run
  BY DEF Held
<1> QED
  BY <1>1, RunAssumption, FS_Subset, FS_CardinalityType

LEMMA InitIInv == Init => IInv
<1> SUFFICES ASSUME Init PROVE IInv
  OBVIOUS
<1>1. \A l \in Limiter : Held(at, l) = {}
  BY DEF Init, Held
<1>2. Limits
  BY <1>1, FS_EmptySet, LimiterAssumption DEF Init, Limits, Conserved, Place
<1>3. Routes
  BY DEF Init, Routes, CacheTrue, Wired, RouteIsHonoured, Active
<1>4. Calls
  BY LimiterAssumption DEF Init, Calls, Counted
<1> QED
  BY <1>2, <1>3, <1>4 DEF IInv

-----------------------------------------------------------------------------
(***************************************************************************)
(* The limiter.                                                            *)
(***************************************************************************)

\* What a wake-up leaves: at most one more run holds a permit, which is taken off.
LEMMA WakeConserves ==
  ASSUME NEW l \in Limiter, NEW n \in Nat, NEW places \in [Run -> Place],
         free \in [Limiter -> Nat],
         n + Cardinality(Held(places, l)) = MaxConcurrent,
         \A k \in Limiter \ {l} :
           free[k] + Cardinality(Held(places, k)) = MaxConcurrent,
         WakeNext(l, n, places)
  PROVE  /\ at' \in [Run -> Place]
         /\ free' \in [Limiter -> Nat]
         /\ \A k \in Limiter : free'[k] + Cardinality(Held(at', k)) = MaxConcurrent
         /\ \A s \in Run : \/ at'[s] = places[s]
                           \/ at'[s] = "granted" /\ places[s] = "queued"
<1>1. CASE free' = [free EXCEPT ![l] = n] /\ at' = places
  BY <1>1
<1>2. CASE /\ n > 0
           /\ \E s \in Run : /\ places[s] = "queued" /\ route[s].limiter = l
                             /\ at' = [places EXCEPT ![s] = "granted"]
           /\ free' = [free EXCEPT ![l] = n - 1]
  <2>1. PICK s \in Run : /\ places[s] = "queued" /\ route[s].limiter = l
                         /\ at' = [places EXCEPT ![s] = "granted"]
    BY <1>2
  <2>2. Held(at', l) = Held(places, l) \cup {s} /\ s \notin Held(places, l)
    BY <2>1 DEF Held
  <2>3. \A k \in Limiter \ {l} : Held(at', k) = Held(places, k)
    BY <2>1 DEF Held
  <2>4. Cardinality(Held(at', l)) = Cardinality(Held(places, l)) + 1
    BY <2>2, HeldFinite, FS_AddElement
  <2>5. free'[l] = n - 1 /\ n - 1 \in Nat
    BY <1>2
  <2>6. free'[l] + Cardinality(Held(at', l)) = MaxConcurrent
    BY <2>4, <2>5, HeldFinite
  <2>7. at' \in [Run -> Place]
    BY <2>1 DEF Place
  <2> QED
    BY <1>2, <2>1, <2>3, <2>5, <2>6, <2>7
<1> QED
  BY <1>1, <1>2 DEF WakeNext

\* The run takes its permit, or a place in the queue, when its route has it.
LEMMA AcquireConserves ==
  ASSUME Limits, NEW r \in Run, NEW l \in Limiter,
         at[r] \in {"idle", "tools"},
         route'[r].limiter = l,
         \A s \in Run \ {r} : route'[s] = route[s],
         Acquire(r, l)
  PROVE  Limits'
<1> USE DEF Limits
<1>1. \A k \in Limiter : r \notin Held(at, k)
  BY DEF Held
<1>2. CASE at' = [at EXCEPT ![r] = "queued"] /\ UNCHANGED free
  <2>1. \A k \in Limiter : Held(at, k)' = Held(at, k)
    BY <1>1, <1>2 DEF Held
  <2> QED
    BY <1>2, <2>1 DEF Conserved, Place
<1>3. CASE /\ free[l] # 0
           /\ at' = [at EXCEPT ![r] = "flying"]
           /\ free' = [free EXCEPT ![l] = @ - 1]
  <2>1. Held(at, l)' = Held(at, l) \cup {r}
    BY <1>1, <1>3 DEF Held
  <2>2. \A k \in Limiter \ {l} : Held(at, k)' = Held(at, k)
    BY <1>1, <1>3 DEF Held
  <2>3. Cardinality(Held(at, l)') = Cardinality(Held(at, l)) + 1
    BY <1>1, <2>1, HeldFinite, FS_AddElement
  <2>4. free[l] \in Nat /\ free'[l] = free[l] - 1 /\ free'[l] \in Nat
    BY <1>3
  <2>5. free'[l] + Cardinality(Held(at, l)') = MaxConcurrent
    BY <2>3, <2>4, HeldFinite DEF Conserved
  <2>6. Conserved'
    BY <1>3, <2>2, <2>5 DEF Conserved
  <2>7. free' \in [Limiter -> Nat]
    BY <1>3, <2>4
  <2> QED
    BY <1>3, <2>6, <2>7 DEF Place
<1> QED
  BY <1>2, <1>3 DEF Acquire

\* A run with a permit leaves, and the permit goes to the next waiter or back.
LEMMA LeaveConserves ==
  ASSUME Limits, NEW r \in Run, NEW place \in {"tools", "ended"},
         at[r] \in {"granted", "flying"}, route[r].limiter \in Limiter,
         \A s \in Run \ {r} : route'[s] = route[s],
         WakeNext(route[r].limiter, free[route[r].limiter] + 1,
                  [at EXCEPT ![r] = place])
  PROVE  /\ Limits'
         /\ at'[r] = place
         /\ \A s \in Run \ {r} : at'[s] = at[s] \/ (at'[s] = "granted" /\ at[s] = "queued")
<1> DEFINE l == route[r].limiter
           places == [at EXCEPT ![r] = place]
<1> USE DEF Limits
<1>1. places \in [Run -> Place] /\ free[l] + 1 \in Nat
  BY DEF Place
<1>2. Held(places, l) = Held(at, l) \ {r} /\ r \in Held(at, l)
  BY DEF Held
<1>3. \A k \in Limiter \ {l} : Held(places, k) = Held(at, k)
  BY DEF Held
<1>4. Cardinality(Held(places, l)) = Cardinality(Held(at, l)) - 1
  <2>1. IsFiniteSet(Held(at, l))
    BY HeldFinite
  <2> HIDE DEF places, l
  <2> QED
    BY <1>2, <2>1, FS_RemoveElement
<1>5. free[l] + 1 + Cardinality(Held(places, l)) = MaxConcurrent
  BY <1>4, HeldFinite DEF Conserved
<1>6. WakeNext(l, free[l] + 1, places)
  OBVIOUS
<1>7. \A k \in Limiter \ {l} : free[k] + Cardinality(Held(places, k)) = MaxConcurrent
  BY <1>3 DEF Conserved
<1> HIDE DEF l, places
<1>8. /\ at' \in [Run -> Place]
      /\ free' \in [Limiter -> Nat]
      /\ \A k \in Limiter : free'[k] + Cardinality(Held(at', k)) = MaxConcurrent
      /\ \A s \in Run : at'[s] = places[s] \/ (at'[s] = "granted" /\ places[s] = "queued")
  <2>1. l \in Limiter
    BY DEF l
  <2> QED
    BY <2>1, <1>1, <1>5, <1>6, <1>7, WakeConserves
<1>9. at'[r] = place /\ \A s \in Run \ {r} :
        at'[s] = at[s] \/ (at'[s] = "granted" /\ at[s] = "queued")
  BY <1>8 DEF places
<1>10. \A k \in Limiter : Held(at, k)' = Held(at', k)
  BY <1>9 DEF Held
<1>11. Conserved'
  BY <1>8, <1>10 DEF Conserved
<1> QED
  BY <1>8, <1>9, <1>11

\* A waiter that was handed a permit goes on with it.
LEMMA ResumeConserves ==
  ASSUME Limits, NEW r \in Run, Resume(r), route[r].limiter \in Limiter
  PROVE  /\ Limits'
         /\ at'[r] = "flying"
         /\ \A s \in Run \ {r} : at'[s] = at[s] \/ (at'[s] = "granted" /\ at[s] = "queued")
<1> DEFINE l == route[r].limiter
           places == [at EXCEPT ![r] = "flying"]
<1> USE DEF Limits
<1>1. places \in [Run -> Place] /\ free[l] \in Nat
  BY DEF Place
<1>2. \A k \in Limiter : Held(places, k) = Held(at, k)
  BY DEF Held, Resume
<1>3. \A k \in Limiter : free[k] + Cardinality(Held(places, k)) = MaxConcurrent
  BY <1>2 DEF Conserved
<1>4. WakeNext(l, free[l], places) /\ UNCHANGED route
  BY DEF Resume
<1> HIDE DEF l, places
<1>5. l \in Limiter
  BY DEF l
<1>6. /\ at' \in [Run -> Place]
      /\ free' \in [Limiter -> Nat]
      /\ \A k \in Limiter : free'[k] + Cardinality(Held(at', k)) = MaxConcurrent
      /\ \A s \in Run : at'[s] = places[s] \/ (at'[s] = "granted" /\ places[s] = "queued")
  BY <1>1, <1>3, <1>4, <1>5, WakeConserves
<1>7. at'[r] = "flying" /\ \A s \in Run \ {r} :
        at'[s] = at[s] \/ (at'[s] = "granted" /\ at[s] = "queued")
  BY <1>6 DEF places
<1>8. \A k \in Limiter : Held(at, k)' = Held(at', k)
  BY <1>4 DEF Held
<1>9. Conserved'
  BY <1>6, <1>8 DEF Conserved
<1> QED
  BY <1>6, <1>7, <1>9

\* A run without a permit ends.
LEMMA EndConserves ==
  ASSUME Limits, NEW r \in Run,
         at[r] \notin {"granted", "flying"}, at' = [at EXCEPT ![r] = "ended"],
         \A s \in Run \ {r} : route'[s] = route[s], UNCHANGED free
  PROVE  Limits'
<1>1. \A k \in Limiter : Held(at, k)' = Held(at, k)
  BY DEF Held, Limits
<1> QED
  BY <1>1 DEF Limits, Conserved, Place

-----------------------------------------------------------------------------
(***************************************************************************)
(* A run that begins has the route its hints ask for.                      *)
(***************************************************************************)
LEMMA BeginIInv ==
  ASSUME IInv, NEW r \in Run, NEW h \in Hints \cup {NoHints}, NEW provider,
         provider.provider \in Builders \cup {Home.provider},
         provider.model \in Models, provider.limiter \in Limiter,
         Begin(r, h, provider),
         CacheTrue',
         (h # NoHints /\ wiring.resolver) \/ wiring.home = "table"
           => provider.limiter = "table",
         IF h = NoHints
           THEN provider.provider = Home.provider /\ provider.model = Home.model
           ELSE /\ h.provider # Absent => provider.provider = h.provider
                /\ h.model # Absent => provider.model = h.model
                /\ wiring.resolver /\ h.effort # Absent =>
                     Honours(provider.provider, h.effort)
  PROVE  IInv'
<1> DEFINE to == [provider |-> provider.provider, model |-> provider.model,
                  effort |-> Effort(h), limiter |-> provider.limiter]
<1>1. /\ at[r] = "idle"
      /\ hint' = [hint EXCEPT ![r] = h]
      /\ route' = [route EXCEPT ![r] = to]
      /\ Acquire(r, provider.limiter)
      /\ wiring' = wiring
  BY DEF Begin
<1>2. /\ at' = [at EXCEPT ![r] = "queued"] \/ at' = [at EXCEPT ![r] = "flying"]
      /\ made' = [made EXCEPT ![r] = @ + 1]
      /\ before' = [before EXCEPT ![r] = Waiting(provider.limiter)] \/ before' = before
  BY <1>1 DEF Acquire
<1>3. Effort(h) \in {OwnEffort} \cup {x.effort : x \in Hints}
  BY DEF Effort
<1>4. to \in Route /\ to.limiter = provider.limiter
  BY <1>3 DEF Route
<1>5. Limits'
  <2>1. route'[r].limiter = provider.limiter /\ \A s \in Run \ {r} : route'[s] = route[s]
    BY <1>1, <1>4 DEF IInv, Routes
  <2> QED
    BY <1>1, <2>1, AcquireConserves DEF IInv
<1>6. /\ route' \in [Run -> Route \cup {NoRoute}]
      /\ hint' \in [Run -> Hints \cup {NoHints}]
      /\ route'[r] = to /\ hint'[r] = h
      /\ \A s \in Run \ {r} : /\ route'[s] = route[s] /\ hint'[s] = hint[s]
                              /\ at'[s] = at[s]
  BY <1>1, <1>2, <1>4 DEF IInv, Routes, Limits
<1>7. \A s \in Run : Active(s)' => route'[s] \in Route
  BY <1>4, <1>6 DEF IInv, Routes, Active
<1>8. Wired'
  BY <1>1, <1>4, <1>6 DEF IInv, Routes, Wired, Active, Shares
<1>9. RouteIsHonoured'
  <2>1. ASSUME NEW s \in Run \ {r}, route'[s] # NoRoute
        PROVE  LET g == hint'[s]
                   x == route'[s]
               IN  IF g = NoHints
                     THEN x.provider = Home.provider /\ x.model = Home.model
                     ELSE /\ g.provider # Absent => x.provider = g.provider
                          /\ g.model # Absent => x.model = g.model
                          /\ g.effort # Absent => x.effort = g.effort
                          /\ wiring'.resolver /\ g.effort # Absent =>
                               Honours(x.provider, g.effort)
    BY <1>1, <1>6, <2>1 DEF IInv, Routes, RouteIsHonoured
  <2>2. h # NoHints /\ h.effort # Absent => to.effort = h.effort
    BY DEF Effort
  <2> QED
    BY <1>1, <1>6, <2>1, <2>2 DEF RouteIsHonoured
<1>10. Calls'
  <2>1. before' \in [Run -> SUBSET Run]
    BY <1>2 DEF IInv, Calls, Waiting
  <2>2. made[r] = 0
    BY <1>1 DEF IInv, Calls, Counted
  <2>3. made' \in [Run -> 0..MaxCalls]
    BY <1>2, <2>2, LimiterAssumption DEF IInv, Calls
  <2>4. at'[r] \notin {"idle", "tools"}
    BY <1>2 DEF IInv, Limits
  <2>5. Counted'
    BY <1>2, <1>6, <2>4 DEF IInv, Calls, Counted
  <2> QED
    BY <2>1, <2>3, <2>5 DEF Calls
<1> QED
  BY <1>1, <1>5, <1>6, <1>7, <1>8, <1>9, <1>10 DEF IInv, Routes

LEMMA StartAtHomeIInv ==
  ASSUME IInv, NEW r \in Run, NEW h \in Hints \cup {NoHints}, StartAtHome(r, h)
  PROVE  IInv'
<1> DEFINE provider == [provider |-> Home.provider, model |-> Home.model,
                        limiter |-> wiring.home]
<1>1. /\ h # NoHints => ~wiring.resolver /\ h.provider = Absent /\ h.model = Absent
      /\ Begin(r, h, provider)
      /\ instances' = instances
  BY DEF StartAtHome
<1>2. wiring.home \in Limiter
  BY WiringAssumption DEF IInv, Routes
<1>3. CacheTrue'
  BY <1>1 DEF IInv, Routes, CacheTrue
<1>4. provider.model \in Models
  BY DEF Models
<1> QED
  BY <1>1, <1>2, <1>3, <1>4, BeginIInv

LEMMA StartResolvedIInv ==
  ASSUME IInv, NEW r \in Run, NEW h \in Hints \cup {NoHints}, StartResolved(r, h)
  PROVE  IInv'
<1>1. /\ h \in Hints /\ h # NoHints /\ wiring.resolver
      /\ Name(h) \in Builders /\ ModelOf(h) # Absent
      /\ h.effort # Absent => Honours(Name(h), h.effort)
      /\ instances' = instances \/ instances' = instances \cup {Build(h)}
  BY DEF StartResolved, Resolvable
<1>2. ModelOf(h) \in Models
  BY <1>1 DEF ModelOf, Models
<1>3. CacheTrue'
  BY <1>1, <1>2 DEF IInv, Routes, CacheTrue, Build, CacheKey
<1>4. PICK i \in instances' : i.key = CacheKey(h) /\ Begin(r, h, i)
  BY DEF StartResolved
<1>5. /\ i.provider = Name(h) /\ i.model = ModelOf(h) /\ i.limiter = "table"
      /\ i.provider \in Builders /\ i.model \in Models
  BY <1>3, <1>4 DEF CacheTrue, CacheKey
<1>6. /\ h.provider # Absent => i.provider = h.provider
      /\ h.model # Absent => i.model = h.model
  BY <1>5 DEF Name, ModelOf
<1>7. "table" \in Limiter
  BY DEF Limiter
<1> QED
  BY <1>1, <1>3, <1>4, <1>5, <1>6, <1>7, BeginIInv

-----------------------------------------------------------------------------
(***************************************************************************)
(* A run that goes on or ends keeps the others' routes.                    *)
(***************************************************************************)

\* A run goes on: its route is the same, and at most a waiter is handed a permit.
LEMMA OnwardRoutes ==
  ASSUME Routes, NEW r \in Run, Active(r),
         UNCHANGED <<wiring, instances, hint, route>>,
         \A s \in Run \ {r} : at'[s] = at[s] \/ at[s] = "queued"
  PROVE  Routes'
<1>1. \A s \in Run : Active(s)' => Active(s)
  BY DEF Active
<1>2. Wired'
  BY <1>1 DEF Routes, Wired, Shares
<1> QED
  BY <1>1, <1>2 DEF Routes, CacheTrue, RouteIsHonoured

\* A run is over, or never began.
LEMMA OverRoutes ==
  ASSUME Routes, NEW r \in Run, Over(r), at'[r] = "ended",
         \A s \in Run \ {r} : at'[s] = at[s] \/ at[s] = "queued"
  PROVE  Routes'
<1>1. /\ route' = [route EXCEPT ![r] = NoRoute]
      /\ hint' = [hint EXCEPT ![r] = NoHints]
      /\ wiring' = wiring /\ instances' = instances
  BY DEF Over
<1>2. /\ route' \in [Run -> Route \cup {NoRoute}]
      /\ hint' \in [Run -> Hints \cup {NoHints}]
      /\ route'[r] = NoRoute
      /\ \A s \in Run \ {r} : route'[s] = route[s] /\ hint'[s] = hint[s]
  BY <1>1 DEF Routes
<1>3. \A s \in Run : Active(s)' => s # r /\ Active(s)
  BY DEF Active
<1>4. Wired'
  BY <1>1, <1>2, <1>3 DEF Routes, Wired, Shares
<1>5. RouteIsHonoured'
  BY <1>1, <1>2 DEF Routes, RouteIsHonoured
<1> QED
  BY <1>1, <1>2, <1>3, <1>4, <1>5 DEF Routes, CacheTrue

LEMMA OverCalls ==
  ASSUME Calls, NEW r \in Run, made' = [made EXCEPT ![r] = 0], at'[r] = "ended",
         Unqueue(r) \/ UNCHANGED before,
         \A s \in Run \ {r} : at'[s] = at[s] \/ at'[s] = "granted"
  PROVE  Calls'
<1>1. before' \in [Run -> SUBSET Run]
  BY DEF Calls, Unqueue
<1>2. made' \in [Run -> 0..MaxCalls]
  BY LimiterAssumption DEF Calls
<1>3. Counted'
  BY DEF Calls, Counted
<1> QED
  BY <1>1, <1>2, <1>3 DEF Calls

LEMMA ReleasedIInv ==
  ASSUME IInv, NEW r \in Run, Release(r, "ended"), Over(r)
  PROVE  IInv'
<1>1. /\ at[r] = "flying" /\ UNCHANGED before
      /\ WakeNext(route[r].limiter, free[route[r].limiter] + 1, [at EXCEPT ![r] = "ended"])
  BY DEF Release
<1>2. route[r].limiter \in Limiter
  BY <1>1 DEF IInv, Routes, Active, Route
<1>3. /\ \A s \in Run \ {r} : route'[s] = route[s]
      /\ made' = [made EXCEPT ![r] = 0]
  BY DEF Over, IInv, Routes
<1>4. /\ Limits' /\ at'[r] = "ended"
      /\ \A s \in Run \ {r} : at'[s] = at[s] \/ (at'[s] = "granted" /\ at[s] = "queued")
  BY <1>1, <1>2, <1>3, LeaveConserves DEF IInv
<1>5. Routes'
  BY <1>4, OverRoutes DEF IInv
<1>6. Calls'
  BY <1>1, <1>3, <1>4, OverCalls DEF IInv
<1> QED
  BY <1>4, <1>5, <1>6 DEF IInv

LEMMA StartRefusedIInv ==
  ASSUME IInv, NEW r \in Run, NEW h \in Hints \cup {NoHints}, StartRefused(r, h)
  PROVE  IInv'
<1>1. /\ at[r] = "idle" /\ at' = [at EXCEPT ![r] = "ended"]
      /\ UNCHANGED <<wiring, instances, hint, route, made, free, before>>
  BY DEF StartRefused
<1>2. Limits'
  BY <1>1, EndConserves DEF IInv
<1>3. \A s \in Run : (Active(s)' => Active(s)) /\ at'[s] \in {at[s], "ended"}
  BY <1>1 DEF IInv, Limits, Active
<1>4. Routes'
  BY <1>1, <1>3 DEF IInv, Routes, CacheTrue, Wired, Shares, RouteIsHonoured
<1>5. Calls'
  BY <1>1, <1>3 DEF IInv, Calls, Counted
<1> QED
  BY <1>2, <1>4, <1>5 DEF IInv

LEMMA ResumeIInv ==
  ASSUME IInv, NEW r \in Run, Resume(r)
  PROVE  IInv'
<1>1. /\ at[r] = "granted" /\ Unqueue(r)
      /\ UNCHANGED <<wiring, instances, hint, route, made>>
  BY DEF Resume
<1>2. Active(r) /\ route[r].limiter \in Limiter
  BY <1>1 DEF IInv, Routes, Active, Route
<1>3. /\ Limits' /\ at'[r] = "flying"
      /\ \A s \in Run \ {r} : at'[s] = at[s] \/ (at'[s] = "granted" /\ at[s] = "queued")
  BY <1>2, ResumeConserves DEF IInv
<1>4. Routes'
  BY <1>1, <1>2, <1>3, OnwardRoutes DEF IInv
<1>5. Calls'
  <2>1. before' \in [Run -> SUBSET Run]
    BY <1>1 DEF IInv, Calls, Unqueue
  <2> QED
    BY <1>1, <1>3, <2>1 DEF IInv, Calls, Counted
<1> QED
  BY <1>3, <1>4, <1>5 DEF IInv

LEMMA AnswerWithToolsIInv ==
  ASSUME IInv, NEW r \in Run, AnswerWithTools(r)
  PROVE  IInv'
<1>1. /\ at[r] = "flying" /\ made[r] < MaxCalls
      /\ UNCHANGED <<wiring, instances, hint, route, made, before>>
      /\ WakeNext(route[r].limiter, free[route[r].limiter] + 1, [at EXCEPT ![r] = "tools"])
  BY DEF AnswerWithTools, Release
<1>2. Active(r) /\ route[r].limiter \in Limiter
  BY <1>1 DEF IInv, Routes, Active, Route
<1>3. /\ Limits' /\ at'[r] = "tools"
      /\ \A s \in Run \ {r} : at'[s] = at[s] \/ (at'[s] = "granted" /\ at[s] = "queued")
  BY <1>1, <1>2, LeaveConserves DEF IInv
<1>4. Routes'
  BY <1>1, <1>2, <1>3, OnwardRoutes DEF IInv
<1>5. Calls'
  BY <1>1, <1>3 DEF IInv, Calls, Counted
<1> QED
  BY <1>3, <1>4, <1>5 DEF IInv

LEMMA CallAgainIInv ==
  ASSUME IInv, NEW r \in Run, CallAgain(r)
  PROVE  IInv'
<1>1. /\ at[r] = "tools" /\ Acquire(r, route[r].limiter)
      /\ UNCHANGED <<wiring, instances, hint, route>>
  BY DEF CallAgain
<1>2. Active(r) /\ route[r].limiter \in Limiter
  BY <1>1 DEF IInv, Routes, Active, Route
<1>3. Limits'
  BY <1>1, <1>2, AcquireConserves DEF IInv
<1>4. /\ at' = [at EXCEPT ![r] = "queued"] \/ at' = [at EXCEPT ![r] = "flying"]
      /\ made' = [made EXCEPT ![r] = @ + 1]
      /\ before' = [before EXCEPT ![r] = Waiting(route[r].limiter)] \/ before' = before
  BY <1>1 DEF Acquire
<1>5. at'[r] \in {"queued", "flying"} /\ \A s \in Run \ {r} : at'[s] = at[s]
  BY <1>4 DEF IInv, Limits
<1>6. Routes'
  BY <1>1, <1>2, <1>5, OnwardRoutes DEF IInv
<1>7. Calls'
  <2>1. before' \in [Run -> SUBSET Run]
    BY <1>4 DEF IInv, Calls, Waiting
  <2>2. made[r] < MaxCalls
    BY <1>1 DEF IInv, Calls, Counted
  <2>3. made' \in [Run -> 0..MaxCalls]
    BY <1>4, <2>2, LimiterAssumption DEF IInv, Calls
  <2>4. Counted'
    BY <1>4, <1>5 DEF IInv, Calls, Counted
  <2> QED
    BY <2>1, <2>3, <2>4 DEF Calls
<1> QED
  BY <1>3, <1>6, <1>7 DEF IInv

LEMMA CancelIInv ==
  ASSUME IInv, NEW r \in Run, Cancel(r)
  PROVE  IInv'
<1>1. CASE at[r] \in {"tools", "queued"} /\ at' = [at EXCEPT ![r] = "ended"]
           /\ (Unqueue(r) \/ UNCHANGED before) /\ UNCHANGED free /\ Over(r)
  <2>1. /\ at'[r] = "ended" /\ \A s \in Run \ {r} : at'[s] = at[s]
        /\ \A s \in Run \ {r} : route'[s] = route[s]
        /\ made' = [made EXCEPT ![r] = 0]
    BY <1>1 DEF Over, IInv, Limits, Routes
  <2>2. Limits'
    BY <1>1, <2>1, EndConserves DEF IInv
  <2>3. Routes'
    BY <1>1, <2>1, OverRoutes DEF IInv
  <2>4. Calls'
    BY <1>1, <2>1, OverCalls DEF IInv
  <2> QED
    BY <2>2, <2>3, <2>4 DEF IInv
<1>2. CASE /\ at[r] = "granted" /\ Unqueue(r) /\ Over(r)
           /\ WakeNext(route[r].limiter, free[route[r].limiter] + 1,
                       [at EXCEPT ![r] = "ended"])
  <2>1. route[r].limiter \in Limiter
    BY <1>2 DEF IInv, Routes, Active, Route
  <2>2. /\ \A s \in Run \ {r} : route'[s] = route[s]
        /\ made' = [made EXCEPT ![r] = 0]
    BY <1>2 DEF Over, IInv, Routes
  <2>3. /\ Limits' /\ at'[r] = "ended"
        /\ \A s \in Run \ {r} : at'[s] = at[s] \/ (at'[s] = "granted" /\ at[s] = "queued")
    BY <1>2, <2>1, <2>2, LeaveConserves DEF IInv
  <2>4. Routes'
    BY <1>2, <2>3, OverRoutes DEF IInv
  <2>5. Calls'
    BY <1>2, <2>2, <2>3, OverCalls DEF IInv
  <2> QED
    BY <2>3, <2>4, <2>5 DEF IInv
<1>3. CASE Release(r, "ended") /\ Over(r)
  BY <1>3, ReleasedIInv
<1> QED
  BY <1>1, <1>2, <1>3 DEF Cancel

LEMMA NextIInv == IInv /\ [Next]_vars => IInv'
<1> SUFFICES ASSUME IInv, [Next]_vars PROVE IInv'
  OBVIOUS
<1>1. ASSUME NEW r \in Run, Start(r) PROVE IInv'
  BY <1>1, StartAtHomeIInv, StartResolvedIInv, StartRefusedIInv DEF Start
<1>2. ASSUME NEW r \in Run, Proceed(r) PROVE IInv'
  BY <1>2, ResumeIInv, AnswerWithToolsIInv, CallAgainIInv, ReleasedIInv
     DEF Proceed, Answer, Fail
<1>3. CASE UNCHANGED vars
  <2>1. \A l \in Limiter : Held(at, l)' = Held(at, l)
    BY <1>3 DEF vars, Held
  <2> QED
    BY <1>3, <2>1 DEF vars, IInv, Limits, Conserved, Routes, CacheTrue, Wired, Active,
       Shares, RouteIsHonoured, Calls, Counted
<1> QED
  BY <1>1, <1>2, <1>3, CancelIInv DEF Next, Rest

LEMMA Inductive == Spec => []IInv
  BY InitIInv, NextIInv, PTL DEF Spec

-----------------------------------------------------------------------------
(***************************************************************************)
(* Strict schemas.                                                         *)
(***************************************************************************)
\* A node in strict form: an object wants all its properties, and no others.
LEMMA TightNode ==
  ASSUME NEW n, IsNode(n), NEW t, t = Tight(n)
  PROVE  /\ t \in [types : {n.types}, enum : {n.enum}, anyOf : {n.anyOf}, orNull : BOOLEAN,
                   props : {n.props}, required : {t.required}, closed : BOOLEAN]
         /\ t.required = IF IsObject(n) THEN n.props ELSE n.required
         /\ t.closed = (IsObject(n) \/ n.closed)
         /\ ~t.orNull
<1>1. CASE IsObject(n)
  BY <1>1 DEF Tight, IsNode
<1>2. CASE ~IsObject(n)
  BY <1>2 DEF Tight, IsNode
<1> QED
  BY <1>1, <1>2

\* Nothing else changes, and a nullable node takes null.
LEMMA NullableNode ==
  ASSUME NEW n, IsNode(n), NEW m, m = Nullable(Tight(n))
  PROVE  /\ m.types = IF n.types = {} THEN {} ELSE n.types \cup {"null"}
         /\ n.enum \subseteq m.enum /\ m.enum \subseteq n.enum \cup {Null}
         /\ n.enum = {} <=> m.enum = {}
         /\ n.anyOf \subseteq m.anyOf /\ m.anyOf \subseteq n.anyOf \cup {NullOnly}
         /\ n.anyOf = {} <=> m.anyOf = {}
         /\ m.props = n.props /\ m.required = Tight(n).required /\ m.closed = Tight(n).closed
         /\ \/ m.orNull
            \/ n.types # {} /\ (n.enum # {} => Null \in m.enum)
            \/ n.anyOf # {} /\ NullOnly \in m.anyOf
<1>1. PICK t : t = Tight(n)
  OBVIOUS
<1>2. t \in [types : {n.types}, enum : {n.enum}, anyOf : {n.anyOf}, orNull : BOOLEAN,
             props : {n.props}, required : {t.required}, closed : BOOLEAN]
  BY <1>1, TightNode
<1>3. m = Nullable(t)
  BY <1>1
<1>4. CASE n.types # {}
  BY <1>1, <1>2, <1>3, <1>4 DEF Nullable
<1>5. CASE n.types = {} /\ n.anyOf # {}
  <2>1. \A b \in n.anyOf : b.types = {"null"} => b = NullOnly
    BY DEF IsNode, IsScalar
  <2> QED
    BY <1>1, <1>2, <1>3, <1>5, <2>1 DEF Nullable
<1>6. CASE n.types = {} /\ n.anyOf = {}
  BY <1>1, <1>2, <1>3, <1>6 DEF Nullable
<1> QED
  BY <1>4, <1>5, <1>6

LEMMA FrontAndLast ==
  ASSUME NEW S, NEW p \in Seq(S), p # <<>>
  PROVE  Front(p) \in Seq(S) /\ Last(p) \in S /\ p = Append(Front(p), Last(p))
<1>1. PICK q \in Seq(S), e \in S : p = Append(q, e)
  BY SequenceEmptyOrAppend
<1>2. Len(p) = Len(q) + 1 /\ Len(q) \in Nat /\ p[Len(p)] = e
  BY <1>1, AppendProperties, LenProperties
<1>3. SubSeq(p, 1, Len(q)) = q
  BY <1>1, <1>2, SubSeqFull
<1> QED
  BY <1>1, <1>2, <1>3 DEF Front, Last

LEMMA AppendParts ==
  ASSUME NEW S, NEW q \in Seq(S), NEW e \in S
  PROVE  /\ Append(q, e) \in Seq(S) /\ Append(q, e) # <<>>
         /\ Front(Append(q, e)) = q /\ Last(Append(q, e)) = e
<1>1. Append(q, e) \in Seq(S) /\ Append(q, e) # <<>>
  BY AppendProperties
<1>2. Append(q, e) = Append(Front(Append(q, e)), Last(Append(q, e)))
      /\ Front(Append(q, e)) \in Seq(S) /\ Last(Append(q, e)) \in S
  BY <1>1, FrontAndLast
<1> QED
  BY <1>1, <1>2, AppendInjective

LEMMA PrefixesOf ==
  ASSUME NEW S, NEW p \in Seq(S)
  PROVE  p \in Prefixes(p) /\ (p # <<>> => Front(p) \in Prefixes(p))
<1>1. Len(p) \in 0..Len(p) /\ (p # <<>> => Len(p) - 1 \in 0..Len(p))
  BY LenProperties, EmptySeq
<1>2. SubSeq(p, 1, Len(p)) \in Prefixes(p)
  BY <1>1 DEF Prefixes
<1>3. p # <<>> => Front(p) \in Prefixes(p)
  BY <1>1 DEF Prefixes, Front
<1> QED
  BY <1>2, <1>3, SubSeqFull

LEMMA AtSteps ==
  ASSUME NEW p \in Seq(STRING \X Nat)
  PROVE  /\ At(p) \in Seq(STRING) /\ Len(At(p)) = Len(p)
         /\ \A i \in 1..Len(p) : At(p)[i] = p[i][1]
<1>1. \A i \in 1..Len(p) : p[i] \in STRING \X Nat /\ p[i][1] \in STRING
  OBVIOUS
<1>2. At(p) = [i \in 1..Len(p) |-> p[i][1]]
  BY DEF At
<1>3. Len(p) \in Nat
  OBVIOUS
<1> QED
  BY <1>1, <1>2, <1>3

\* The subschema of a field is the one its name leads to.
LEMMA AtAppend ==
  ASSUME NEW q \in Seq(STRING \X Nat), NEW e \in STRING \X Nat
  PROVE  At(Append(q, e)) = Append(At(q), e[1])
<1>1. PICK p : p = Append(q, e)
  OBVIOUS
<1>2. PICK r : r = Append(At(q), e[1])
  OBVIOUS
<1>3. /\ Len(q) \in Nat /\ p \in Seq(STRING \X Nat) /\ Len(p) = Len(q) + 1
      /\ \A i \in 1..Len(q) : p[i] = q[i]
      /\ p[Len(q) + 1] = e
  BY <1>1
<1>4. e[1] \in STRING
  OBVIOUS
<1>5. /\ r \in Seq(STRING) /\ Len(r) = Len(q) + 1
      /\ \A i \in 1..Len(q) : r[i] = q[i][1]
      /\ r[Len(q) + 1] = e[1]
  BY <1>2, <1>4, AtSteps
<1>6. ASSUME NEW i \in 1..Len(At(p)) PROVE At(p)[i] = r[i]
  <2>1. At(p)[i] = p[i][1] /\ (i \in 1..Len(q) \/ i = Len(q) + 1)
    BY <1>3, AtSteps
  <2> QED
    BY <1>3, <1>5, <2>1
<1>7. At(p) = r
  BY <1>3, <1>5, <1>6, AtSteps, SeqEqual
<1> QED
  BY <1>1, <1>2, <1>7

-----------------------------------------------------------------------------
(***************************************************************************)
(* What is said in strict mode.                                            *)
(***************************************************************************)
Given(v, s) ==
  UNION {{Append(p, Field(n)) : n \in s[At(p)].props} : p \in Described(v, s)}

\* Such a field, and the subschema that describes it.
IsField(s, c, q, n) ==
  /\ c = Append(q, Field(n)) /\ c \in Seq(STRING \X Nat) /\ c # <<>> /\ Front(c) = q /\ Last(c)[1] = n
  /\ At(c) # <<>> /\ At(c) \in DOMAIN s /\ Front(At(c)) = At(q) /\ Last(At(c)) = n
  /\ n # Item

LEMMA GivenField ==
  ASSUME NEW s, IsSchema(s), NEW v, IsValue(v),
         NEW q \in Described(v, s), NEW n \in s[At(q)].props
  PROVE  /\ Append(q, Field(n)) \in Given(v, s)
         /\ IsField(s, Append(q, Field(n)), q, n)
<1>1. q \in Seq(STRING \X Nat) /\ At(q) \in DOMAIN s
  BY DEF Described, IsValue
<1>2. n \in STRING /\ n # Item /\ Append(At(q), n) \in DOMAIN s
  BY <1>1 DEF IsSchema
<1>3. Field(n) \in STRING \X Nat /\ Field(n)[1] = n
  BY <1>2 DEF Field
<1>4. PICK c : c = Append(q, Field(n))
  OBVIOUS
<1>5. c \in Seq(STRING \X Nat) /\ c # <<>> /\ Front(c) = q /\ Last(c)[1] = n
  BY <1>1, <1>3, <1>4, AppendParts
<1>6. At(c) = Append(At(q), n) /\ At(q) \in Seq(STRING)
  BY <1>1, <1>3, <1>4, AtAppend, AtSteps
<1>7. PICK r : r = At(c)
  OBVIOUS
<1>8. Front(r) = At(q) /\ Last(r) = n /\ r # <<>>
  BY <1>2, <1>6, <1>7, AppendParts
<1>9. Append(q, Field(n)) \in Given(v, s)
  BY DEF Given
<1> QED
  BY <1>2, <1>4, <1>5, <1>6, <1>7, <1>8, <1>9 DEF IsField

LEMMA SaidAt ==
  ASSUME NEW s, NEW v
  PROVE  /\ DOMAIN Said(v, s) = DOMAIN v \cup Given(v, s)
         /\ \A p \in DOMAIN v : Said(v, s)[p] = v[p]
         /\ \A p \in Given(v, s) \ DOMAIN v : Said(v, s)[p] = Null
  BY DEF Said, Given

LEMMA GivenBy ==
  ASSUME NEW s, IsSchema(s), NEW v, IsValue(v), NEW c \in Given(v, s)
  PROVE  \E q \in Described(v, s) : \E n \in s[At(q)].props : IsField(s, c, q, n)
<1>1. PICK q \in Described(v, s) : \E n \in s[At(q)].props : c = Append(q, Field(n))
  BY DEF Given
<1>2. PICK n \in s[At(q)].props : c = Append(q, Field(n))
  BY <1>1
<1>3. IsField(s, Append(q, Field(n)), q, n)
  BY GivenField
<1> QED
  BY <1>2, <1>3

\* The fields of a described object: those of a meaning are properties the schema
\* names, and all of these are said.
LEMMA FieldsMeant ==
  ASSUME NEW s, IsSchema(s), NEW v, IsValue(v), Fits(s, v), NEW q \in Described(v, s)
  PROVE  /\ Names(v, q) \subseteq s[At(q)].props
         /\ \A n \in Names(v, q) : Append(q, Field(n)) \in DOMAIN v
<1> SUFFICES ASSUME NEW n \in Names(v, q)
             PROVE  n \in s[At(q)].props /\ Append(q, Field(n)) \in DOMAIN v
  OBVIOUS
<1>1. PICK c \in DOMAIN v : c # <<>> /\ Front(c) = q /\ n = Last(c)[1]
  BY DEF Names
<1>2. v[q].type = "object" /\ At(q) \in DOMAIN s
  BY DEF Described
<1>3. n \in s[At(q)].props
  BY <1>1, <1>2 DEF Fits, InDescribed
<1>4. Last(c) = Field(n)
  BY <1>1, <1>2 DEF IsValue
<1>5. c = Append(q, Field(n))
  BY <1>1, <1>4, FrontAndLast DEF IsValue
<1> QED
  BY <1>1, <1>3, <1>5

LEMMA FieldsSaid ==
  ASSUME NEW s, IsSchema(s), NEW v, IsValue(v), Fits(s, v), NEW q \in Described(v, s)
  PROVE  Names(Said(v, s), q) = s[At(q)].props
<1> DEFINE u == Said(v, s)
<1>0. /\ DOMAIN u = DOMAIN v \cup Given(v, s)
      /\ \A p \in DOMAIN v : u[p] = v[p]
      /\ \A p \in Given(v, s) \ DOMAIN v : u[p] = Null
  BY SaidAt
<1>1. ASSUME NEW n \in s[At(q)].props PROVE n \in Names(u, q)
  <2>1. PICK c : c = Append(q, Field(n))
    OBVIOUS
  <2>2. c \in Given(v, s) /\ IsField(s, c, q, n)
    BY <2>1, GivenField
  <2>3. c \in DOMAIN u
    BY <2>2, <1>0
  <2> QED
    BY <2>2, <2>3 DEF Names, IsField
<1>2. ASSUME NEW n \in Names(u, q) PROVE n \in s[At(q)].props
  <2>1. PICK c \in DOMAIN u : c # <<>> /\ Front(c) = q /\ n = Last(c)[1]
    BY DEF Names
  <2>2. CASE c \in DOMAIN v
    BY <2>1, <2>2, FieldsMeant DEF Names
  <2>3. CASE c \in Given(v, s)
    <3>1. \E p \in Described(v, s) : \E m \in s[At(p)].props : IsField(s, c, p, m)
      BY <2>3, GivenBy
    <3> QED
      BY <2>1, <3>1 DEF IsField
  <2> QED
    BY <2>1, <2>2, <2>3, <1>0
<1> QED
  BY <1>1, <1>2

\* A position of the meaning: what the schema takes there, its strict form takes
\* when everything is said.
LEMMA MeantTaken ==
  ASSUME NEW s, IsSchema(s), NEW v, IsValue(v), Fits(s, v),
         NEW p \in DOMAIN v, At(p) \in DOMAIN s
  PROVE  Admits(Strict(s)[At(p)], Said(v, s), p)
<1> DEFINE u == Said(v, s)
           n == s[At(p)]
           t == Tight(n)
           m == Strict(s)[At(p)]
<1>1. u[p] = v[p]
  BY SaidAt
<1>2. IsNode(n)
  BY DEF IsSchema
<1>3. /\ Allows(n, v[p])
      /\ n.anyOf # {} => \E b \in n.anyOf : Allows(b, v[p])
      /\ v[p].type = "object" => n.required \subseteq Names(v, p)
  BY <1>2 DEF Fits, Accepts, Admits, IsNode
<1>4. m = t \/ m = Nullable(t)
  BY DEF Strict
<1>5. /\ Allows(m, v[p])
      /\ n.anyOf \subseteq m.anyOf /\ (n.anyOf = {} => m.anyOf = {})
      /\ m.props = n.props /\ m.required = t.required
  <2>1. CASE m = t
    BY <1>2, <1>3, <2>1, TightNode DEF Allows
  <2>2. CASE m = Nullable(t)
    <3>1. /\ m.types = IF n.types = {} THEN {} ELSE n.types \cup {"null"}
          /\ n.enum \subseteq m.enum /\ (n.enum = {} => m.enum = {})
          /\ n.anyOf \subseteq m.anyOf /\ (n.anyOf = {} => m.anyOf = {})
          /\ m.props = n.props /\ m.required = t.required
      <4> HIDE DEF n, m
      <4> QED
        BY <1>2, <2>2, NullableNode
    <3> HIDE DEF t, n, m, u
    <3> QED
      BY <1>3, <3>1 DEF Allows
  <2> QED
    BY <1>4, <2>1, <2>2
<1>6. ASSUME v[p].type = "object"
      PROVE  m.required \subseteq Names(u, p) /\ Names(u, p) \subseteq m.props
  <2>1. p \in Described(v, s)
    BY <1>6 DEF Described
  <2>2. Names(u, p) = n.props /\ Names(v, p) \subseteq n.props
    BY <2>1, FieldsSaid, FieldsMeant
  <2>3. t.required = n.props \/ t.required = n.required
    BY <1>2, TightNode
  <2> QED
    BY <1>3, <1>5, <1>6, <2>2, <2>3
<1> HIDE DEF m, n, t, u
<1> QED
  BY <1>1, <1>3, <1>5, <1>6 DEF Admits, m, u

\* A property that is left alone is optional, so null is taken for it.
LEMMA NullTaken ==
  ASSUME NEW s, IsSchema(s), NEW v, IsValue(v), Fits(s, v),
         NEW c \in Given(v, s), c \notin DOMAIN v
  PROVE  Admits(Strict(s)[At(c)], Said(v, s), c) /\ Erased(Said(v, s), s, c)
<1> DEFINE u == Said(v, s)
<1>0. /\ DOMAIN u = DOMAIN v \cup Given(v, s)
      /\ \A p \in DOMAIN v : u[p] = v[p]
      /\ \A p \in Given(v, s) \ DOMAIN v : u[p] = Null
  BY SaidAt
<1>1. PICK q \in Described(v, s) : \E n \in s[At(q)].props : IsField(s, c, q, n)
  BY GivenBy
<1>2. PICK n \in s[At(q)].props : IsField(s, c, q, n)
  BY <1>1
<1>3. /\ c # <<>> /\ Front(c) = q /\ Last(c)[1] = n /\ At(c) \in DOMAIN s
      /\ Front(At(c)) = At(q) /\ Last(At(c)) = n /\ At(c) # <<>> /\ n # Item
  BY <1>2 DEF IsField
<1>4. q \in DOMAIN v /\ v[q].type = "object" /\ At(q) \in DOMAIN s
  BY DEF Described
<1>5. n \notin s[At(q)].required
  <2>1. IsNode(s[At(q)]) /\ Admits(s[At(q)], v, q)
    BY <1>4 DEF IsSchema, Fits, Accepts
  <2>2. s[At(q)].required \subseteq Names(v, q)
    BY <1>4, <2>1 DEF Admits, IsNode
  <2> QED
    BY <1>2, <2>2, FieldsMeant DEF IsField
<1>6. u[c] = Null /\ u[q] = v[q]
  <2>1. c \in Given(v, s) \ DOMAIN v
    OBVIOUS
  <2> QED
    BY <1>4, <2>1, <1>0
<1>7. Strict(s)[At(c)] = Nullable(Tight(s[At(c)])) /\ IsNode(s[At(c)])
  BY <1>3, <1>5 DEF Strict, Optional, IsSchema
<1>8. Admits(Strict(s)[At(c)], u, c)
  <2> DEFINE k == s[At(c)]
             m == Nullable(Tight(k))
  <2>1. \/ m.orNull
        \/ /\ k.types # {} /\ m.types = k.types \cup {"null"}
           /\ m.enum = {} \/ Null \in m.enum
           /\ m.anyOf = {}
        \/ /\ k.anyOf # {} /\ m.types = {} /\ m.enum = {}
           /\ NullOnly \in m.anyOf
    <3> HIDE DEF m, k
    <3>1. IsNode(k)
      BY <1>7 DEF k
    <3>2. k.anyOf # {} => k.types = {} /\ k.enum = {}
      BY <3>1 DEF IsNode
    <3> QED
      BY <3>1, <3>2, NullableNode DEF m
  <2>2. Null.type = "null" /\ NullOnly.types = {"null"} /\ NullOnly.enum = {}
    BY DEF Null, NullOnly, Branch
  <2>3. u[c].type # "object"
    BY <1>6, <2>2
  <2> HIDE DEF m, u
  <2>4. Admits(m, u, c)
    BY <1>6, <2>1, <2>2, <2>3 DEF Admits, Allows
  <2> QED
    BY <1>7, <2>4 DEF m
<1>9. Erased(u, s, c)
  BY <1>3, <1>4, <1>5, <1>6 DEF Erased, InDescribed
<1> QED
  BY <1>8, <1>9

\* The model can say what the schema lets it mean.
LEMMA SaidIsAccepted ==
  ASSUME NEW s, IsSchema(s), NEW v, IsValue(v), Fits(s, v)
  PROVE  Accepts(Strict(s), Said(v, s))
<1> SUFFICES ASSUME NEW p \in DOMAIN Said(v, s), At(p) \in DOMAIN Strict(s)
             PROVE  Admits(Strict(s)[At(p)], Said(v, s), p)
  BY DEF Accepts
<1>1. At(p) \in DOMAIN s
  BY DEF Strict
<1> QED
  BY <1>1, MeantTaken, NullTaken, SaidAt

\* ... and what it says is taken back to what it meant.
LEMMA PruneInvertsSaid ==
  ASSUME NEW s, IsSchema(s), NEW v, IsValue(v), Fits(s, v)
  PROVE  Prune(Said(v, s), s) = v
<1> DEFINE u == Said(v, s)
<1>1. ASSUME NEW p \in DOMAIN v PROVE p \in Kept(u, s)
  <2>1. ASSUME NEW c \in Prefixes(p), Erased(u, s, c) PROVE FALSE
    <3>1. c \in DOMAIN v /\ c # <<>>
      BY <2>1 DEF IsValue, Erased, InDescribed
    <3>2. Front(c) \in DOMAIN v
      <4>1. c \in Seq(STRING \X Nat) /\ Prefixes(c) \subseteq DOMAIN v
        BY <3>1 DEF IsValue
      <4>2. Front(c) \in Prefixes(c)
        BY <3>1, <4>1, PrefixesOf
      <4> QED
        BY <4>1, <4>2
    <3>3. u[c] = v[c] /\ u[Front(c)] = v[Front(c)]
      BY <3>1, <3>2, SaidAt
    <3>4. InDescribed(v, s, c) /\ v[c] = Null
      BY <2>1, <3>3 DEF Erased, InDescribed
    <3> QED
      BY <2>1, <3>1, <3>4 DEF Fits, Erased
  <2> QED
    BY <2>1, SaidAt DEF Kept
<1>2. ASSUME NEW p \in Kept(u, s) PROVE p \in DOMAIN v
  <2>1. SUFFICES ASSUME p \notin DOMAIN v PROVE FALSE
    OBVIOUS
  <2>2. p \in Given(v, s)
    BY <2>1, SaidAt DEF Kept
  <2>3. Erased(u, s, p)
    BY <2>1, <2>2, NullTaken
  <2>4. p \in Seq(STRING \X Nat)
    BY <2>2, GivenBy DEF IsField
  <2> QED
    BY <2>3, <2>4, PrefixesOf DEF Kept
<1>3. Kept(u, s) = DOMAIN v
  BY <1>1, <1>2
<1>4. Prune(u, s) = [p \in DOMAIN v |-> v[p]]
  <2>1. \A p \in DOMAIN v : u[p] = v[p]
    BY SaidAt
  <2>2. Prune(u, s) = [p \in DOMAIN v |-> u[p]]
    BY <1>3 DEF Prune
  <2> HIDE DEF u
  <2> QED
    BY <2>1, <2>2
<1> QED
  BY <1>4 DEF IsValue

-----------------------------------------------------------------------------
(***************************************************************************)
(* What is said by a model that means nothing the schema foresees.         *)
(***************************************************************************)
LEMMA PrefixesSplit ==
  ASSUME NEW S, NEW p \in Seq(S), p # <<>>
  PROVE  Prefixes(p) \subseteq Prefixes(Front(p)) \cup {p}
<1>1. PICK q : q = Front(p)
  OBVIOUS
<1>2. q \in Seq(S) /\ p = Append(q, Last(p)) /\ Last(p) \in S
  BY <1>1, FrontAndLast
<1>3. Len(q) \in Nat /\ Len(p) = Len(q) + 1
  BY <1>2
<1>4. ASSUME NEW l \in 0..Len(q) PROVE SubSeq(p, 1, l) = SubSeq(q, 1, l)
  BY <1>2, <1>3, <1>4
<1>5. SubSeq(p, 1, Len(p)) = p
  BY SubSeqFull
<1>6. \A l \in 0..Len(p) : l \in 0..Len(q) \/ l = Len(p)
  BY <1>3
<1> QED
  BY <1>1, <1>4, <1>5, <1>6 DEF Prefixes

LEMMA FrontAt ==
  ASSUME NEW p \in Seq(STRING \X Nat), p # <<>>
  PROVE  At(p) # <<>> /\ Front(At(p)) = At(Front(p)) /\ Last(At(p)) = Last(p)[1]
<1>1. PICK q \in Seq(STRING \X Nat), e \in STRING \X Nat :
        q = Front(p) /\ e = Last(p) /\ p = Append(q, e)
  BY FrontAndLast
<1>2. PICK a \in Seq(STRING), n \in STRING : a = At(q) /\ n = e[1]
  BY AtSteps
<1>3. At(p) = Append(a, n)
  BY <1>1, <1>2, AtAppend
<1>4. Append(a, n) # <<>> /\ Front(Append(a, n)) = a /\ Last(Append(a, n)) = n
  BY AppendParts
<1> QED
  BY <1>1, <1>2, <1>3, <1>4

\* Of what is said, the null of an optional property does not stay.
LEMMA OptionalGiven ==
  ASSUME NEW s, IsSchema(s), NEW u, IsValue(u), NEW p \in Kept(u, s),
         At(p) \in DOMAIN s, Optional(s, At(p))
  PROVE  u[p] # Null
<1>1. p \in DOMAIN u /\ p \in Seq(STRING \X Nat)
  BY DEF Kept, IsValue
<1>2. p # <<>>
  BY DEF Optional, At
<1>3. Front(At(p)) = At(Front(p)) /\ Last(At(p)) = Last(p)[1]
  BY <1>1, <1>2, FrontAt
<1>4. u[Front(p)].type = "object"
  BY <1>1, <1>2, <1>3 DEF IsValue, Optional
<1>5. At(Front(p)) \in DOMAIN s
  BY <1>3 DEF IsSchema, Optional
<1>6. ~Erased(u, s, p)
  BY <1>1, PrefixesOf DEF Kept
<1> QED
  BY <1>2, <1>3, <1>4, <1>5, <1>6 DEF Erased, InDescribed, Optional

\* A required property that is said stays.
LEMMA RequiredStays ==
  ASSUME NEW s, IsSchema(s), NEW u, IsValue(u), NEW p \in Kept(u, s),
         At(p) \in DOMAIN s, NEW n \in Names(u, p), n \in s[At(p)].required
  PROVE  n \in Names(Prune(u, s), p)
<1>1. PICK c \in DOMAIN u : c # <<>> /\ Front(c) = p /\ n = Last(c)[1]
  BY DEF Names
<1>2. Prefixes(c) \subseteq Prefixes(p) \cup {c}
  BY <1>1, PrefixesSplit DEF IsValue
<1>3. ~Erased(u, s, c)
  BY <1>1 DEF Erased
<1>4. c \in Kept(u, s)
  BY <1>2, <1>3 DEF Kept
<1> QED
  BY <1>1, <1>4 DEF Names, Prune

LEMMA StaysWasSaid ==
  ASSUME NEW s, NEW u, NEW p
  PROVE  Names(Prune(u, s), p) \subseteq Names(u, p)
<1>1. DOMAIN Prune(u, s) \subseteq DOMAIN u
  BY DEF Prune, Kept
<1> QED
  BY <1>1 DEF Names

-----------------------------------------------------------------------------
(***************************************************************************)
(* The calls of tools are the providers'.                                  *)
(***************************************************************************)
LEMMA ToolStep ==
  ASSUME [ToolNext]_toolVars
  PROVE  [Next]_vars
<1>1. ASSUME NEW r \in Run, Continue(r) PROVE Proceed(r)
  BY <1>1 DEF Continue, Hear, Proceed
<1>2. CASE \E r \in Run : Continue(r) \/ ((Start(r) \/ Cancel(r)) /\ heard' = Silence)
  BY <1>1, <1>2 DEF Next
<1>3. CASE Rest
  BY <1>3 DEF Next
<1>4. CASE UNCHANGED toolVars
  BY <1>4 DEF toolVars, vars
<1> QED
  BY <1>2, <1>3, <1>4 DEF ToolNext

\* What is heard comes from a meaning that fits its tool.
Sayings == heard \in StrictCalls \cup {Silence}

LEMMA HeardStep ==
  ASSUME Sayings, [ToolNext]_toolVars
  PROVE  Sayings'
<1>1. ASSUME NEW r \in Run, Continue(r) PROVE heard' \in StrictCalls \cup {Silence}
  BY <1>1 DEF Continue, Hear
<1>2. heard' \in StrictCalls \cup {Silence} \/ heard' = heard
  BY <1>1 DEF ToolNext, toolVars
<1> QED
  BY <1>2 DEF Sayings, StrictCalls, Input

\* A meaning that fits arrives ...
LEMMA InputOfMeaning ==
  ASSUME NEW tool \in Tools, NEW v \in Inputs, Fits(tool, v)
  PROVE  Input(tool, v, TRUE) = v
<1>1. IsSchema(tool) /\ IsValue(v)
  BY ToolsAssumption, InputsAssumption
<1>2. Accepts(Strict(tool), Said(v, tool)) /\ Prune(Said(v, tool), tool) = v
  BY <1>1, SaidIsAccepted, PruneInvertsSaid
<1> QED
  BY <1>2 DEF Input, Parsed

\* ... and arguments that broke off arrive as none.
LEMMA NoFieldsStay == ASSUME NEW s PROVE Prune(NoFields, s) = NoFields
<1>1. \A c \in Prefixes(<<>>) : c = <<>>
  BY DEF Prefixes
<1>2. <<>> \in Kept(NoFields, s)
  BY <1>1 DEF Kept, Erased, InDescribed, NoFields
<1>3. Kept(NoFields, s) = {<<>>}
  BY <1>2 DEF Kept, NoFields
<1> QED
  BY <1>3 DEF Prune, NoFields

LEMMA InputOfFragment ==
  ASSUME NEW tool \in Tools, NEW v \in Inputs, Fits(tool, v)
  PROVE  Input(tool, v, FALSE) = NoFields
<1>1. IsSchema(tool) /\ IsValue(v)
  BY ToolsAssumption, InputsAssumption
<1> QED
  BY <1>1, SaidIsAccepted, NoFieldsStay DEF Input, Parsed

-----------------------------------------------------------------------------
(***************************************************************************)
(* The theorems.                                                           *)
(***************************************************************************)

\* Runs, routes, semaphores and queues keep their shapes, and no semaphore ever
\* counts more permits than it was made with.
THEOREM TypeCorrect == Spec => []TypeOK
<1>1. IInv => TypeOK
  <2> SUFFICES ASSUME IInv PROVE TypeOK
    OBVIOUS
  <2>1. ASSUME NEW l \in Limiter PROVE free[l] \in 0..MaxConcurrent
    BY HeldFinite, LimiterAssumption DEF IInv, Limits, Conserved
  <2> QED
    BY <2>1 DEF IInv, Limits, Routes, Calls, TypeOK
<1> QED
  BY <1>1, Inductive, PTL

\* The shared ceiling (limits.py, DESIGN 4.8): however many models the hints
\* resolve to, and however calls fail or are cancelled, the calls in flight behind
\* the table's limiter are at most max_concurrent.
THEOREM SharedCeiling == Spec => []CeilingHolds
<1>1. IInv => CeilingHolds
  <2> SUFFICES ASSUME IInv PROVE CeilingHolds
    OBVIOUS
  <2> DEFINE flying == {r \in Run : at[r] = "flying" /\ Shares(r)}
  <2>1. flying \subseteq Held(at, "table")
    BY DEF IInv, Routes, Wired, Active, Held
  <2>2. Cardinality(flying) <= Cardinality(Held(at, "table")) /\ Cardinality(flying) \in Nat
    <3>1. IsFiniteSet(Held(at, "table"))
      BY HeldFinite
    <3> HIDE DEF flying
    <3> QED
      BY <2>1, <3>1, FS_Subset, FS_CardinalityType
  <2>3. "table" \in Limiter /\ free["table"] \in Nat
    BY DEF IInv, Limits, Limiter
  <2>4. free["table"] + Cardinality(Held(at, "table")) = MaxConcurrent
    BY <2>3 DEF IInv, Limits, Conserved
  <2> QED
    BY <2>2, <2>3, <2>4, HeldFinite, LimiterAssumption DEF CeilingHolds
<1> QED
  BY <1>1, Inductive, PTL

\* The honour-or-declare rule (agent_loop.py, _route): a run's calls reach the
\* provider and model its hints name, with the effort they name, for any table and
\* whatever the cache of instances holds.
THEOREM HintsAreHonoured == Spec => []RouteIsHonoured
<1>1. IInv => RouteIsHonoured
  BY DEF IInv, Routes
<1> QED
  BY <1>1, Inductive, PTL

\* A loop whose answers carry tool calls makes the steps of Providers and no others
\* of its variables: the ceiling and the routes hold of it too.
THEOREM ToolCallsRefine == ToolSpec => Spec
<1>1. ToolInit => Init
  BY DEF ToolInit
<1> QED
  BY <1>1, ToolStep, PTL DEF ToolSpec, Spec

\* "ToolCall.input carries only the fields the model chose to set, whichever
\* provider produced it" (providers/types.py): for any tools, and any meaning that a
\* tool's schema allows, the handler gets that meaning, or no field of it when the
\* arguments did not parse.
THEOREM InputsAreMeant == ToolSpec => []ToolInputIsMeant
<1>1. ToolInit => Sayings
  BY DEF ToolInit, Sayings
<1>2. Sayings => ToolInputIsMeant
  <2> SUFFICES ASSUME heard \in StrictCalls
               PROVE  heard.input = IF heard.whole THEN heard.meant ELSE NoFields
    BY DEF Sayings, ToolInputIsMeant
  <2>1. PICK c \in {x \in Tools \X Inputs \X BOOLEAN : Fits(x[1], x[2])} :
          heard = [meant |-> c[2], whole |-> c[3], input |-> Input(c[1], c[2], c[3])]
    BY DEF StrictCalls
  <2>2. Input(c[1], c[2], c[3]) = IF c[3] THEN c[2] ELSE NoFields
    BY InputOfMeaning, InputOfFragment
  <2> QED
    BY <2>1, <2>2
<1> QED
  BY <1>1, <1>2, HeardStep, PTL DEF ToolSpec

\* The way back is sound whatever the model says: an input that the strict schema
\* accepts is, without its introduced nulls, one that the tool's own schema accepts
\* (if it requires no property that it does not describe, which the strict form
\* forbids to say).
THEOREM InputsConform ==
  ASSUME NEW s, IsSchema(s), \A x \in DOMAIN s : s[x].required \subseteq s[x].props,
         NEW u, IsValue(u), Accepts(Strict(s), u)
  PROVE  Accepts(s, Prune(u, s))
<1> DEFINE w == Prune(u, s)
<1> SUFFICES ASSUME NEW p \in DOMAIN w, At(p) \in DOMAIN s
             PROVE  Admits(s[At(p)], w, p)
  BY DEF Accepts
<1> DEFINE n == s[At(p)]
           m == Strict(s)[At(p)]
<1>1. p \in Kept(u, s) /\ p \in DOMAIN u /\ w[p] = u[p]
  BY DEF Prune, Kept
<1>2. IsNode(n) /\ n.required \subseteq n.props
  BY DEF IsSchema
<1>3. Admits(m, u, p)
  BY <1>1 DEF Accepts, Strict
<1>4. m = Tight(n) \/ (m = Nullable(Tight(n)) /\ u[p] # Null)
  BY <1>1, OptionalGiven DEF Strict
<1>5. /\ Allows(n, u[p])
      /\ n.anyOf # {} => \E b \in n.anyOf : Allows(b, u[p])
      /\ u[p].type = "object" => m.required \subseteq Names(u, p)
                                 /\ (m.closed => Names(u, p) \subseteq n.props)
      /\ m.required = Tight(n).required /\ m.closed = Tight(n).closed
  <2>1. CASE m = Tight(n)
    <3>1. /\ m.types = n.types /\ m.enum = n.enum /\ m.anyOf = n.anyOf /\ m.props = n.props
          /\ ~m.orNull
      <4> HIDE DEF n, m
      <4> QED
        BY <1>2, <2>1, TightNode
    <3> HIDE DEF n, m
    <3> QED
      BY <1>3, <2>1, <3>1 DEF Admits, Allows
  <2>2. CASE m = Nullable(Tight(n)) /\ u[p] # Null
    <3>1. u[p].type # "null" /\ ~Allows(NullOnly, u[p])
      BY <1>1, <2>2 DEF IsValue, NullOnly, Branch, Allows
    <3>2. /\ m.types = IF n.types = {} THEN {} ELSE n.types \cup {"null"}
          /\ m.enum \subseteq n.enum \cup {Null} /\ (n.enum = {} <=> m.enum = {})
          /\ m.anyOf \subseteq n.anyOf \cup {NullOnly} /\ (n.anyOf = {} <=> m.anyOf = {})
          /\ m.props = n.props
          /\ m.required = Tight(n).required /\ m.closed = Tight(n).closed
      <4> HIDE DEF n, m
      <4> QED
        BY <1>2, <2>2, NullableNode
    <3> HIDE DEF n, m
    <3> QED
      BY <1>3, <2>2, <3>1, <3>2 DEF Admits, Allows
  <2> QED
    BY <1>4, <2>1, <2>2
<1>6. ASSUME u[p].type = "object"
      PROVE  /\ n.required \subseteq Names(w, p)
             /\ n.closed => Names(w, p) \subseteq n.props
  <2>1. n.required \subseteq m.required /\ (n.closed => m.closed)
    <3> HIDE DEF n, m
    <3> QED
      BY <1>2, <1>5, TightNode
  <2>2. n.required \subseteq Names(w, p)
    BY <1>1, <1>5, <1>6, <2>1, RequiredStays
  <2>3. Names(w, p) \subseteq Names(u, p)
    BY StaysWasSaid
  <2> QED
    BY <1>5, <1>6, <2>1, <2>2, <2>3
<1> HIDE DEF n, m, w
<1> QED
  BY <1>1, <1>5, <1>6 DEF Admits, n
=============================================================================
