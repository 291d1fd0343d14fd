----------------------------- MODULE PulseStore -----------------------------
(***************************************************************************)
(* The pulse store (InMemoryPulseStore in src/dainframe/pulse/store.py):   *)
(* durable state per rhythm, and leased claims by which at most one worker *)
(* owns a firing.  The methods suspend nowhere while they hold the store's *)
(* lock, so each is one step.                                              *)
(*                                                                         *)
(* Times are ticks of a clock the workers share, 0 stands for None; claim  *)
(* ids are fresh uuids, here the number of claims granted so far.          *)
(***************************************************************************)
EXTENDS Naturals

CONSTANTS Key,          \* the rhythms
          Worker,       \* the pulse loops that share the store
          Lease,        \* how long a claim is exclusive
          NoClaim,
          Outcomes,     \* the outcomes workers report
          Horizons,     \* the next_check times they compute
          Occurrences,  \* the calendar occurrences they record
          MaxTime,      \* bound: the clock
          ClaimLimit    \* bound: claims ever granted

ASSUME TimeAssumption ==
  /\ Lease \in Nat /\ MaxTime \in Nat \ {0} /\ ClaimLimit \in Nat
  /\ Horizons \subseteq Nat /\ Occurrences \subseteq Nat

Time == Nat

\* PulseState, and the part of PulseOutcome the store reads.
State == [next : Time, attempt : Time, generated : Time, delivered : Time,
          occurrence : Time]
Outcome == [status : {"skipped", "denied", "cancelled", "activated", "failed"},
            generated : BOOLEAN, delivered : BOOLEAN]
Claim == [key : Key, id : Nat \ {0}, until : Time, at : Time, state : State]

ASSUME NoClaimAssumption == NoClaim \notin Claim
ASSUME OutcomeAssumption == Outcomes \subseteq Outcome

VARIABLES now,      \* the clock
          issued,   \* claims granted so far
          state,    \* _states
          lease,    \* _leases; id 0 when the key has none
          claim     \* the claim each worker is working on

vars == <<now, issued, state, lease, claim>>

NoLease == [id |-> 0, until |-> 0]

TypeOK ==
  /\ now \in 1..MaxTime
  /\ issued \in Nat
  /\ state \in [Key -> State]
  /\ \A k \in Key : /\ state[k].attempt <= now /\ state[k].generated <= now
                    /\ state[k].delivered <= now
  /\ lease \in [Key -> [id : Nat, until : Time]]
  /\ claim \in [Worker -> Claim \cup {NoClaim}]

Init ==
  /\ now = 1
  /\ issued = 0
  /\ state = [k \in Key |-> [next |-> 0, attempt |-> 0, generated |-> 0,
                             delivered |-> 0, occurrence |-> 0]]
  /\ lease = [k \in Key |-> NoLease]
  /\ claim = [w \in Worker |-> NoClaim]

Advance ==
  /\ now < MaxTime
  /\ now' = now + 1
  /\ UNCHANGED <<issued, state, lease, claim>>

\* Mutant: a claim is free one tick too early.
FreeEarly(k) == lease[k].id = 0 \/ lease[k].until <= now + 1

\* No lease, or an expired one.
Free(k) == lease[k].id = 0 \/ lease[k].until <= now

Due(k) == state[k].next <= now

\* claim_due: a due firing nobody owns gets a fresh exclusive claim with the
\* snapshot of the state its evaluation reads.
ClaimDue(w, k) ==
  LET id == issued + 1 IN
  /\ claim[w] = NoClaim /\ issued < ClaimLimit
  /\ Free(k) /\ Due(k)
  /\ issued' = id
  /\ lease' = [lease EXCEPT ![k] = [id |-> id, until |-> now + Lease]]
  /\ claim' = [claim EXCEPT ![w] = [key |-> k, id |-> id, until |-> now + Lease,
                                    at |-> now, state |-> state[k]]]
  /\ UNCHANGED <<now, state>>

\* Mutant: any lease on the key will do.
ActiveAnyLease(w) == claim[w] # NoClaim /\ lease[claim[w].key].id # 0

\* _require_active: the key's lease is still this claim's.
Active(w) == claim[w] # NoClaim /\ lease[claim[w].key].id = claim[w].id

Stamped(old, yes, c) == IF yes THEN c.at ELSE old

\* The state a completion leaves; outcome.at is the time of the claim.
Completed(s, c, o, next, occ) ==
  [next |-> next,
   attempt |-> Stamped(s.attempt, o.status \in {"activated", "failed"}, c),
   generated |-> Stamped(s.generated, o.generated, c),
   delivered |-> Stamped(s.delivered, o.delivered, c),
   occurrence |-> IF occ = 0 THEN s.occurrence ELSE occ]

Settle(w, s) ==
  LET k == claim[w].key IN
  /\ Active(w)
  /\ claim' = [claim EXCEPT ![w] = NoClaim]
  /\ lease' = [lease EXCEPT ![k] = NoLease]
  /\ state' = [state EXCEPT ![k] = s]
  /\ UNCHANGED <<now, issued>>

\* complete: one write of the whole outcome, then the claim is gone.
Complete(w, o, next, occ) ==
  Settle(w, Completed(state[claim[w].key], claim[w], o, next, occ))

\* abandon: only the retry horizon is written.
Abandon(w, next) == Settle(w, [state[claim[w].key] EXCEPT !.next = next])

\* complete or abandon with a claim another worker took over: StaleClaimError.
Refused(w) ==
  /\ claim[w] # NoClaim /\ ~Active(w)
  /\ claim' = [claim EXCEPT ![w] = NoClaim]
  /\ UNCHANGED <<now, issued, state, lease>>

\* The worker dies or gives up without a word: its lease stays behind.
Lose(w) ==
  /\ claim[w] # NoClaim
  /\ claim' = [claim EXCEPT ![w] = NoClaim]
  /\ UNCHANGED <<now, issued, state, lease>>

Work(w) ==
  \/ /\ Active(w)
     /\ \E next \in Horizons :
          \/ \E o \in Outcomes, occ \in Occurrences : Complete(w, o, next, occ)
          \/ Abandon(w, next)
  \/ Refused(w)
  \/ Lose(w)

\* The model's time is up.
Rest == now = MaxTime /\ UNCHANGED vars

Next ==
  \/ Advance
  \/ Rest
  \/ \E w \in Worker : Work(w) \/ \E k \in Key : ClaimDue(w, k)

Spec == Init /\ [][Next]_vars

-----------------------------------------------------------------------------
(***************************************************************************)
(* Properties.                                                             *)
(***************************************************************************)

\* At most one owner: no two workers hold unexpired claims on one rhythm, and
\* an unexpired claim is not taken from its worker: the store would accept it.
Unexpired(w) == claim[w] # NoClaim /\ claim[w].until > now

OneOwner ==
  /\ \A v, w \in Worker :
       Unexpired(v) /\ Unexpired(w) /\ claim[v].key = claim[w].key => v = w
  /\ \A w \in Worker : Unexpired(w) => Active(w)

\* No lost update: a worker the store would still accept evaluated the very
\* state it is about to replace, however long it took and whoever had claims on
\* the rhythm in the meantime.
SnapshotCurrent ==
  \A w \in Worker : Active(w) => claim[w].state = state[claim[w].key]
=============================================================================
