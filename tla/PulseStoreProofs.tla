-------------------------- MODULE PulseStoreProofs --------------------------
(***************************************************************************)
(* Proofs about PulseStore, for any rhythms, workers, leases, horizons and *)
(* bounds.                                                                 *)
(*                                                                         *)
(* OneOwner and SnapshotCurrent are not inductive: they need to know that  *)
(* claim ids are fresh (no two workers share one, none was issued ahead),  *)
(* and that the lease of an accepted claim ends when the claim does.       *)
(***************************************************************************)
EXTENDS PulseStore, TLAPS

\* Claim ids come from the counter, and claims were taken in the past.
ClaimsIssued ==
  /\ \A k \in Key : lease[k].id <= issued
  /\ \A w \in Worker : claim[w] # NoClaim =>
       claim[w].id <= issued /\ claim[w].at <= now

\* No two workers hold the same claim.
ClaimsDistinct ==
  \A v, w \in Worker :
    claim[v] # NoClaim /\ claim[w] # NoClaim /\ claim[v].id = claim[w].id => v = w

\* The store's lease is the accepted claim's.
LeasesMatch ==
  \A w \in Worker : Active(w) => lease[claim[w].key].until = claim[w].until

\* The store accepts every claim that has not expired.
UnexpiredActive == \A w \in Worker : Unexpired(w) => Active(w)

IInv == /\ TypeOK /\ ClaimsIssued /\ ClaimsDistinct
        /\ LeasesMatch /\ UnexpiredActive /\ SnapshotCurrent

-----------------------------------------------------------------------------
LEMMA InitIInv == Init => IInv
<1> SUFFICES ASSUME Init PROVE IInv
  OBVIOUS
<1> USE TimeAssumption DEF Init, NoLease
<1>1. TypeOK
  BY DEF TypeOK, State, Time
<1>2. ClaimsIssued /\ ClaimsDistinct
  BY DEF ClaimsIssued, ClaimsDistinct
<1>3. LeasesMatch /\ UnexpiredActive /\ SnapshotCurrent
  BY DEF LeasesMatch, UnexpiredActive, SnapshotCurrent, Active, Unexpired
<1> QED
  BY <1>1, <1>2, <1>3 DEF IInv

\* A grant: the id is new, and the rhythm had no unexpired claim.
LEMMA ClaimDueIInv ==
  ASSUME IInv, NEW w \in Worker, NEW k \in Key, ClaimDue(w, k)
  PROVE  IInv'
<1> USE TimeAssumption, NoClaimAssumption DEF IInv
<1> DEFINE id == issued + 1
           c == [key |-> k, id |-> id, until |-> now + Lease, at |-> now,
                 state |-> state[k]]
<1>1. /\ claim' = [claim EXCEPT ![w] = c]
      /\ lease' = [lease EXCEPT ![k] = [id |-> id, until |-> now + Lease]]
      /\ issued' = id /\ now' = now /\ state' = state
      /\ claim[w] = NoClaim
  BY DEF ClaimDue
<1>2. c \in Claim
  BY DEF TypeOK, Claim, Time
<1>3. c # NoClaim
  BY <1>2
<1>4. TypeOK'
  BY <1>1, <1>2 DEF TypeOK, Time
<1>5. /\ claim' \in [Worker -> Claim \cup {NoClaim}] /\ claim'[w] = c
      /\ \A v \in Worker : v # w => claim'[v] = claim[v]
      /\ lease'[k] = [id |-> id, until |-> now + Lease]
      /\ \A j \in Key : j # k => lease'[j] = lease[j]
  BY <1>1, <1>2 DEF TypeOK
<1>6. ClaimsIssued'
  <2>1. \A j \in Key : lease'[j].id <= issued'
    BY <1>1, <1>5 DEF ClaimsIssued, TypeOK
  <2>2. ASSUME NEW v \in Worker, claim'[v] # NoClaim
        PROVE  claim'[v].id <= issued' /\ claim'[v].at <= now'
    <3>1. CASE v = w
      BY <1>1, <1>5, <3>1 DEF TypeOK
    <3>2. CASE v # w
      BY <1>1, <1>5, <2>2, <3>2 DEF ClaimsIssued, TypeOK, Claim
    <3> QED
      BY <3>1, <3>2
  <2> QED
    BY <2>1, <2>2 DEF ClaimsIssued
<1>7. ClaimsDistinct'
  <2> SUFFICES ASSUME NEW u \in Worker, NEW v \in Worker,
                      claim'[u] # NoClaim, claim'[v] # NoClaim,
                      claim'[u].id = claim'[v].id
               PROVE  u = v
    BY DEF ClaimsDistinct
  <2>1. \A x \in Worker : x # w /\ claim[x] # NoClaim => claim[x].id # id
    BY DEF ClaimsIssued, TypeOK, Claim
  <2>2. c.id = id
    OBVIOUS
  <2> QED
    BY <1>5, <2>1, <2>2 DEF ClaimsDistinct
<1>8. ASSUME NEW v \in Worker, v # w, Active(v)'
      PROVE  Active(v) /\ claim[v].key # k /\ claim[v].key \in Key
  <2>1. claim[v] # NoClaim /\ lease'[claim[v].key].id = claim[v].id
    BY <1>5, <1>8 DEF Active
  <2>2. claim[v].key \in Key /\ claim[v].id # id
    BY <2>1 DEF ClaimsIssued, TypeOK, Claim
  <2> QED
    BY <1>5, <2>1, <2>2 DEF Active
<1>9. LeasesMatch'
  <2> SUFFICES ASSUME NEW v \in Worker, Active(v)'
               PROVE  lease'[claim'[v].key].until = claim'[v].until
    BY DEF LeasesMatch
  <2>1. CASE v = w
    BY <1>5, <2>1
  <2>2. CASE v # w
    BY <1>5, <1>8, <2>2 DEF LeasesMatch
  <2> QED
    BY <2>1, <2>2
<1>10. SnapshotCurrent'
  <2> SUFFICES ASSUME NEW v \in Worker, Active(v)'
               PROVE  claim'[v].state = state'[claim'[v].key]
    BY DEF SnapshotCurrent
  <2>1. CASE v = w
    BY <1>1, <1>5, <2>1
  <2>2. CASE v # w
    BY <1>1, <1>5, <1>8, <2>2 DEF SnapshotCurrent
  <2> QED
    BY <2>1, <2>2
<1>11. UnexpiredActive'
  <2> SUFFICES ASSUME NEW v \in Worker, Unexpired(v)'
               PROVE  Active(v)'
    BY DEF UnexpiredActive
  <2>1. CASE v = w
    BY <1>3, <1>5, <2>1 DEF Active
  <2>2. CASE v # w
    <3>1. Unexpired(v) /\ Active(v)
      BY <1>1, <1>5, <2>2 DEF Unexpired, UnexpiredActive
    <3>2. claim[v] \in Claim /\ lease[claim[v].key].until > now
      BY <3>1 DEF LeasesMatch, Unexpired, TypeOK
    <3>3. claim[v].key # k
      BY <3>1, <3>2 DEF ClaimDue, Free, Active, TypeOK, Claim, Time
    <3> QED
      BY <1>5, <2>2, <3>1, <3>2, <3>3 DEF Active, Claim
  <2> QED
    BY <2>1, <2>2
<1> QED
  BY <1>4, <1>6, <1>7, <1>9, <1>10, <1>11

\* A settlement: only the owner's claim goes, and nobody else was accepted for
\* its rhythm.
LEMMA SettleIInv ==
  ASSUME IInv, NEW w \in Worker, NEW s \in State, Settle(w, s),
         s.attempt <= now, s.generated <= now, s.delivered <= now
  PROVE  IInv'
<1> USE TimeAssumption, NoClaimAssumption DEF IInv
<1> DEFINE k == claim[w].key
<1>1. /\ claim[w] \in Claim /\ k \in Key /\ lease[k].id = claim[w].id
      /\ claim' = [claim EXCEPT ![w] = NoClaim]
      /\ lease' = [lease EXCEPT ![k] = NoLease]
      /\ state' = [state EXCEPT ![k] = s]
      /\ now' = now /\ issued' = issued
  BY DEF Settle, Active, TypeOK, Claim
<1>2. TypeOK'
  BY <1>1 DEF TypeOK, NoLease, Time, State
<1>3. /\ claim'[w] = NoClaim /\ lease'[k] = NoLease
      /\ \A v \in Worker : v # w => claim'[v] = claim[v]
      /\ \A j \in Key : j # k => lease'[j] = lease[j] /\ state'[j] = state[j]
  BY <1>1 DEF TypeOK
<1>4. ClaimsIssued'
  BY <1>1, <1>3 DEF ClaimsIssued, NoLease, TypeOK
<1>5. ClaimsDistinct'
  BY <1>3 DEF ClaimsDistinct
<1>6. ASSUME NEW v \in Worker, v # w, Active(v)
      PROVE  claim[v].key # k /\ claim[v].key \in Key
  BY <1>1, <1>6 DEF Active, ClaimsDistinct, TypeOK, Claim
<1>7. ASSUME NEW v \in Worker, Active(v)'
      PROVE  v # w /\ Active(v) /\ claim'[v] = claim[v]
  <2>1. v # w /\ claim[v] # NoClaim /\ claim'[v] = claim[v]
    BY <1>3, <1>7 DEF Active
  <2>2. claim[v].key \in Key /\ claim[v].id # 0
    BY <2>1 DEF TypeOK, Claim
  <2>3. claim[v].key # k
    BY <1>3, <1>7, <2>1, <2>2 DEF Active, NoLease
  <2> QED
    BY <1>3, <1>7, <2>1, <2>2, <2>3 DEF Active
<1>8. LeasesMatch' /\ SnapshotCurrent'
  BY <1>3, <1>6, <1>7 DEF LeasesMatch, SnapshotCurrent
<1>9. UnexpiredActive'
  <2> SUFFICES ASSUME NEW v \in Worker, Unexpired(v)'
               PROVE  Active(v)'
    BY DEF UnexpiredActive
  <2>1. v # w /\ claim'[v] = claim[v] /\ Unexpired(v)
    BY <1>1, <1>3 DEF Unexpired
  <2>2. Active(v)
    BY <2>1 DEF UnexpiredActive
  <2> QED
    BY <1>3, <1>6, <2>1, <2>2 DEF Active
<1> QED
  BY <1>2, <1>4, <1>5, <1>8, <1>9

\* A worker lets go of a claim: the store does not change.
LEMMA LetGoIInv ==
  ASSUME IInv, NEW w \in Worker, claim' = [claim EXCEPT ![w] = NoClaim],
         UNCHANGED <<now, issued, state, lease>>
  PROVE  IInv'
<1> USE NoClaimAssumption DEF IInv
<1>1. claim'[w] = NoClaim /\ \A v \in Worker : v # w => claim'[v] = claim[v]
  BY DEF TypeOK
<1>2. TypeOK'
  BY DEF TypeOK
<1>3. ClaimsIssued' /\ ClaimsDistinct'
  BY <1>1 DEF ClaimsIssued, ClaimsDistinct
<1>4. \A v \in Worker : Active(v)' => v # w /\ Active(v)
  BY <1>1 DEF Active
<1>5. LeasesMatch' /\ SnapshotCurrent'
  BY <1>1, <1>4 DEF LeasesMatch, SnapshotCurrent
<1>6. UnexpiredActive'
  BY <1>1 DEF UnexpiredActive, Unexpired, Active
<1> QED
  BY <1>2, <1>3, <1>5, <1>6

\* What a completion writes is a state with no time stamp from the future.
LEMMA CompletedState ==
  ASSUME IInv, NEW w \in Worker, claim[w] # NoClaim, NEW o \in Outcome,
         NEW next \in Nat, NEW occ \in Nat
  PROVE  LET s == Completed(state[claim[w].key], claim[w], o, next, occ) IN
         s \in State /\ s.attempt <= now /\ s.generated <= now /\ s.delivered <= now
<1>1. claim[w] \in Claim /\ claim[w].at <= now /\ claim[w].at \in Nat
      /\ state[claim[w].key] \in State
      /\ state[claim[w].key].attempt <= now /\ state[claim[w].key].generated <= now
      /\ state[claim[w].key].delivered <= now
  BY DEF IInv, TypeOK, ClaimsIssued, Claim, Time
<1> QED
  BY <1>1 DEF Completed, Stamped, State, Time

LEMMA AdvanceIInv == ASSUME IInv, Advance PROVE IInv'
<1> USE TimeAssumption DEF IInv, Advance
<1>1. TypeOK'
  <2>1. now' \in 1..MaxTime /\ now <= now'
    BY DEF TypeOK
  <2>2. \A k \in Key : /\ state'[k].attempt <= now' /\ state'[k].generated <= now'
                        /\ state'[k].delivered <= now'
    BY <2>1 DEF TypeOK, State, Time
  <2> QED
    BY <2>1, <2>2 DEF TypeOK
<1>2. ClaimsIssued' /\ ClaimsDistinct'
  BY DEF ClaimsIssued, ClaimsDistinct, TypeOK, Claim, Time
<1>3. \A w \in Worker : Active(w)' <=> Active(w)
  BY DEF Active
<1>4. LeasesMatch' /\ SnapshotCurrent'
  BY <1>3 DEF LeasesMatch, SnapshotCurrent
<1>5. \A w \in Worker : Unexpired(w)' => Unexpired(w)
  BY DEF Unexpired, TypeOK, Claim, Time
<1>6. UnexpiredActive'
  BY <1>3, <1>5 DEF UnexpiredActive
<1> QED
  BY <1>1, <1>2, <1>4, <1>6

LEMMA NextIInv == IInv /\ [Next]_vars => IInv'
<1> SUFFICES ASSUME IInv, [Next]_vars PROVE IInv'
  OBVIOUS
<1>1. CASE Advance
  BY <1>1, AdvanceIInv
<1>2. CASE Rest \/ UNCHANGED vars
  BY <1>2 DEF Rest, vars, IInv, TypeOK, ClaimsIssued, ClaimsDistinct, LeasesMatch,
              UnexpiredActive, SnapshotCurrent, Active, Unexpired
<1>3. ASSUME NEW w \in Worker, NEW k \in Key, ClaimDue(w, k) PROVE IInv'
  BY <1>3, ClaimDueIInv
<1>4. ASSUME NEW w \in Worker, NEW next \in Horizons, NEW o \in Outcomes,
             NEW occ \in Occurrences, Complete(w, o, next, occ)
      PROVE  IInv'
  <2>1. next \in Nat /\ occ \in Nat /\ o \in Outcome /\ claim[w] # NoClaim
    BY <1>4, TimeAssumption, OutcomeAssumption DEF Complete, Settle, Active
  <2> QED
    BY <1>4, <2>1, CompletedState, SettleIInv DEF Complete
<1>5. ASSUME NEW w \in Worker, NEW next \in Horizons, Abandon(w, next)
      PROVE  IInv'
  <2> DEFINE s == [state[claim[w].key] EXCEPT !.next = next]
  <2>1. claim[w].key \in Key /\ next \in Nat
    BY <1>5, TimeAssumption DEF Abandon, Settle, Active, IInv, TypeOK, Claim
  <2>2. s \in State /\ s.attempt <= now /\ s.generated <= now /\ s.delivered <= now
    BY <2>1 DEF IInv, TypeOK, State, Time
  <2> QED
    BY <1>5, <2>2, SettleIInv DEF Abandon
<1>6. ASSUME NEW w \in Worker, Refused(w) \/ Lose(w) PROVE IInv'
  BY <1>6, LetGoIInv DEF Refused, Lose
<1> QED
  BY <1>1, <1>2, <1>3, <1>4, <1>5, <1>6 DEF Next, Work

-----------------------------------------------------------------------------
LEMMA Inductive == Spec => []IInv
<1> QED
  BY InitIInv, NextIInv, PTL DEF Spec

\* The store's state is always well formed, and no rhythm carries a time stamp
\* from the future (InMemoryPulseStore, all methods).
THEOREM TypeCorrect == Spec => []TypeOK
<1>1. IInv => TypeOK
  BY DEF IInv
<1> QED
  BY <1>1, Inductive, PTL

\* At most one worker owns a rhythm's unexpired claim, and the store accepts it
\* (claim_due, _require_active).
THEOREM AtMostOneOwner == Spec => []OneOwner
<1>1. IInv => OneOwner
  BY DEF IInv, OneOwner, UnexpiredActive, ClaimsDistinct, Active, Unexpired, TypeOK,
         Claim
<1> QED
  BY <1>1, Inductive, PTL

\* A completion the store accepts replaces the very state its firing was
\* evaluated on: no update is lost (claim_due's snapshot, complete, abandon).
THEOREM NoLostUpdate == Spec => []SnapshotCurrent
<1>1. IInv => SnapshotCurrent
  BY DEF IInv
<1> QED
  BY <1>1, Inductive, PTL
=============================================================================
