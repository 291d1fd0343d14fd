--------------------------- MODULE DeliveryLedger ---------------------------
(***************************************************************************)
(* The bounded in-process delivery ledger (BoundedDeliveryLedger in        *)
(* src/dainframe/core/delivery.py): pending texts frozen behind opaque     *)
(* ids, idempotent confirmation that appends the one message event, and    *)
(* two FIFO retention caps.  InMemoryDeliveryLedger is the same ledger     *)
(* with caps nothing reaches.                                              *)
(*                                                                         *)
(* Pending ids are fresh uuids that are only compared for equality: here   *)
(* the k-th id staged is the number k, so that the insertion order of the  *)
(* _pending dict is the order of the numbers.  The history is the event    *)
(* store the confirmations append to (only their events are shown), and    *)
(* _confirmed maps an id to the position of its event: confirmations are   *)
(* serialised by the ledger's lock, so the insertion order of that dict    *)
(* is the order of the positions.                                          *)
(***************************************************************************)
EXTENDS Naturals, Sequences, FiniteSets

CONSTANTS Caller,           \* the tasks that confirm deliveries
          NoCaller,         \* the lock's holder when it is free
          MaxUnconfirmed,   \* max_unconfirmed
          MaxConfirmed,     \* max_confirmed
          StageLimit,       \* bound: ids ever staged
          RestartLimit      \* bound: restarts of the process

ASSUME CallerAssumption == NoCaller \notin Caller
ASSUME CapAssumption == MaxUnconfirmed \in Nat /\ MaxConfirmed \in Nat
ASSUME LimitAssumption == StageLimit \in Nat /\ RestartLimit \in Nat

VARIABLES issued,      \* how many ids were ever staged
          pending,     \* the ids _pending holds
          confirmed,   \* _confirmed: id -> position of its event
          history,     \* the message events appended, in order
          receipts,    \* the ids whose text the platform confirmed sending
          lock,        \* the holder of the ledger's asyncio.Lock
          pc,          \* where each caller is in confirm()
          want,        \* the id each caller confirms
          reply,       \* what each caller's last confirm() gave it
          born         \* what a restart found: [issued, recorded, count]

ledgerVars == <<issued, pending, confirmed, lock>>
callVars == <<pc, want, reply>>
vars == <<issued, pending, confirmed, history, receipts, lock, pc, want, reply,
          born>>

Pid == 1..StageLimit

\* What confirm() gave a caller: the position of the event, an exception (the
\* ledger's KeyError or the event store's own), or nothing yet.
Event(k) == [result |-> "event", at |-> k]
Raised(e) == [result |-> e, at |-> 0]
NoReply == Raised("none")
Reply == [result : {"none", "event", "KeyError", "StoreError"}, at : Nat]

TypeOK ==
  /\ issued \in 0..StageLimit
  /\ pending \in SUBSET (1..issued)
  /\ history \in Seq(Pid)
  /\ \E S \in SUBSET (1..issued) : confirmed \in [S -> 1..Len(history)]
  /\ receipts \in SUBSET (1..issued)
  /\ lock \in Caller \cup {NoCaller}
  /\ pc \in [Caller -> {"idle", "waiting", "appending"}]
  /\ want \in [Caller -> {0} \cup Pid]
  /\ reply \in [Caller -> Reply]
  /\ born \in [issued : Nat, recorded : Nat, count : 0..RestartLimit]

Init ==
  /\ issued = 0
  /\ pending = {}
  /\ confirmed = [p \in {} |-> 1]
  /\ history = <<>>
  /\ receipts = {}
  /\ lock = NoCaller
  /\ pc = [c \in Caller |-> "idle"]
  /\ want = [c \in Caller |-> 0]
  /\ reply = [c \in Caller |-> NoReply]
  /\ born = [issued |-> 0, recorded |-> 0, count |-> 0]

\* async with self._lock: the lock is free.
\* Mutant: the ledger takes no lock.
Unlocked == TRUE
LockFree == lock = NoCaller

Unconfirmed(P) == P \ DOMAIN confirmed

\* _prune_unconfirmed: the oldest unconfirmed entries beyond the cap fall off.
Pruned(P) ==
  {p \in P : \/ p \in DOMAIN confirmed
             \/ Cardinality({q \in Unconfirmed(P) : q > p}) < MaxUnconfirmed}

\* Mutant: the newest confirmation is evicted.
KeptOldest(conf) ==
  {p \in DOMAIN conf :
     Cardinality({q \in DOMAIN conf : conf[q] < conf[p]}) < MaxConfirmed}

\* What the eviction loop of confirm() leaves of _confirmed: the newest
\* MaxConfirmed entries.
Kept(conf) ==
  {p \in DOMAIN conf :
     Cardinality({q \in DOMAIN conf : conf[q] > conf[p]}) < MaxConfirmed}

(***************************************************************************)
(* stage(): under the lock, insert and prune.  It suspends nowhere once it *)
(* has the lock, so it is one step.                                        *)
(***************************************************************************)
Stage ==
  /\ LockFree
  /\ issued < StageLimit
  /\ issued' = issued + 1
  /\ pending' = Pruned(pending \cup {issued + 1})
  /\ UNCHANGED <<confirmed, history, receipts, lock, callVars, born>>

\* The platform confirms the send of a staged text.  The sender holds the
\* frozen PendingDelivery stage() returned: it does not ask the ledger.
Send(p) ==
  /\ p \in 1..issued
  /\ receipts' = receipts \cup {p}
  /\ UNCHANGED <<ledgerVars, history, callVars, born>>

\* A caller with a receipt enters confirm() and waits for the lock.
Confirm(c, p) ==
  /\ pc[c] = "idle"
  /\ p \in receipts
  /\ pc' = [pc EXCEPT ![c] = "waiting"]
  /\ want' = [want EXCEPT ![c] = p]
  /\ reply' = [reply EXCEPT ![c] = NoReply]
  /\ UNCHANGED <<ledgerVars, history, receipts, born>>

Return(c, r) ==
  /\ pc' = [pc EXCEPT ![c] = "idle"]
  /\ reply' = [reply EXCEPT ![c] = r]
  /\ UNCHANGED want

\* Mutant: the latest event of the store is returned.
ReturnLatest(c) ==
  /\ pc[c] = "waiting" /\ LockFree
  /\ want[c] \in DOMAIN confirmed
  /\ Return(c, Event(Len(history)))
  /\ UNCHANGED <<ledgerVars, history, receipts, born>>

\* With the lock: an id already confirmed gets its event again.
ReturnAlready(c) ==
  /\ pc[c] = "waiting" /\ LockFree
  /\ want[c] \in DOMAIN confirmed
  /\ Return(c, Event(confirmed[want[c]]))
  /\ UNCHANGED <<ledgerVars, history, receipts, born>>

\* With the lock: an id the ledger does not hold raises KeyError.
RaiseUnknown(c) ==
  /\ pc[c] = "waiting" /\ LockFree
  /\ want[c] \notin DOMAIN confirmed \cup pending
  /\ Return(c, Raised("KeyError"))
  /\ UNCHANGED <<ledgerVars, history, receipts, born>>

\* With the lock: await events.append(...), still holding it.
BeginAppend(c) ==
  /\ pc[c] = "waiting" /\ LockFree
  /\ want[c] \in pending \ DOMAIN confirmed
  /\ lock' = c
  /\ pc' = [pc EXCEPT ![c] = "appending"]
  /\ UNCHANGED <<issued, pending, confirmed, history, receipts, want, reply, born>>

\* The position the store gives the event it appends.
\* Mutant: positions count from zero.
ZeroBasedPosition == Len(history)
NextPosition == Len(history) + 1

\* The append returned the event: mark, evict, release.
FinishAppend(c) ==
  LET event == NextPosition
      conf == [p \in DOMAIN confirmed \cup {want[c]} |->
                 IF p = want[c] THEN event ELSE confirmed[p]]
  IN  /\ pc[c] = "appending"
      /\ history' = Append(history, want[c])
      /\ confirmed' = [p \in Kept(conf) |-> conf[p]]
      /\ pending' = pending \ (DOMAIN conf \ Kept(conf))
      /\ lock' = NoCaller
      /\ Return(c, Event(event))
      /\ UNCHANGED <<issued, receipts, born>>

\* Mutants: the lock stays held; the event was committed all the same.
FailAppendHolding(c) ==
  /\ pc[c] = "appending"
  /\ Return(c, Raised("StoreError"))
  /\ UNCHANGED <<ledgerVars, history, receipts, born>>
FailAppendCommitted(c) ==
  /\ pc[c] = "appending"
  /\ history' = Append(history, want[c])
  /\ lock' = NoCaller
  /\ Return(c, Raised("StoreError"))
  /\ UNCHANGED <<issued, pending, confirmed, receipts, born>>

\* The append raised, or the task was cancelled in it, before it committed:
\* `async with` releases the lock and nothing is marked.
FailAppend(c) ==
  /\ pc[c] = "appending"
  /\ lock' = NoCaller
  /\ Return(c, Raised("StoreError"))
  /\ UNCHANGED <<issued, pending, confirmed, history, receipts, born>>

\* The process restarts: a new ledger is empty; the events of the app's store
\* and the receipts of the platform remain.
Restart ==
  /\ born.count < RestartLimit
  /\ pending' = {}
  /\ confirmed' = [p \in {} |-> 1]
  /\ lock' = NoCaller
  /\ pc' = [c \in Caller |-> "idle"]
  /\ want' = [c \in Caller |-> 0]
  /\ reply' = [c \in Caller |-> NoReply]
  /\ born' = [issued |-> issued, recorded |-> Len(history),
              count |-> born.count + 1]
  /\ UNCHANGED <<issued, history, receipts>>

EndAppend(c) == FinishAppend(c) \/ FailAppend(c)

Step(c) == ReturnAlready(c) \/ RaiseUnknown(c) \/ BeginAppend(c) \/ EndAppend(c)

Next ==
  \/ Stage
  \/ \E p \in Pid : Send(p) \/ \E c \in Caller : Confirm(c, p)
  \/ \E c \in Caller : Step(c)
  \/ Restart

(***************************************************************************)
(* Fairness: asyncio.Lock serves its waiters first come first served, so a *)
(* caller that waits gets the lock (strong fairness of its next step), and *)
(* the app's event store answers every append.                             *)
(***************************************************************************)
Fairness == \A c \in Caller : SF_vars(Step(c)) /\ WF_vars(EndAppend(c))

Spec == Init /\ [][Next]_vars
FairSpec == Spec /\ Fairness

-----------------------------------------------------------------------------
(***************************************************************************)
(* Properties.                                                             *)
(***************************************************************************)

\* However many callers confirm the same id, in whatever order, with failed
\* appends, evictions and restarts between them, the history holds at most one
\* event of it: confirm() is idempotent, and where it cannot know any more it
\* raises KeyError instead of recording twice.
RecordedAtMostOnce ==
  \A j, k \in DOMAIN history : history[j] = history[k] => j = k

\* Retention forgets the oldest and nothing else.  Both caps hold at every moment,
\* even while an append is in flight (the ledger does not leak: what
\* BoundedDeliveryLedger exists for).  Of the deliveries recorded since the
\* process started, the newest MaxConfirmed can be confirmed again and give back
\* the very event that recorded them (the window of idempotence); of the ids
\* staged since then, the newest MaxUnconfirmed are in the ledger or already
\* recorded, and confirmed entries do not count against their cap.
EvictsOldestFirst ==
  /\ Cardinality(DOMAIN confirmed) <= MaxConfirmed
  /\ Cardinality(Unconfirmed(pending)) <= MaxUnconfirmed
  /\ \A k \in DOMAIN history :
       k > born.recorded /\ k + MaxConfirmed > Len(history) =>
         /\ history[k] \in DOMAIN confirmed \cap pending
         /\ confirmed[history[k]] = k
  /\ \A p \in 1..issued :
       p > born.issued /\ p + MaxUnconfirmed > issued =>
         p \in pending \/ \E k \in DOMAIN history : history[k] = p

\* An event handed to a caller is the event of the id it confirmed.
RepliesNameTheEvent ==
  \A c \in Caller :
    reply[c].result = "event" =>
      reply[c].at \in DOMAIN history /\ history[reply[c].at] = want[c]

\* The ledger implements the delivery contract.
Abstract == INSTANCE ConfirmedHistory WITH
  Delivery <- Pid,
  Place <- Nat,
  entries <- {[at |-> k, what |-> history[k]] : k \in DOMAIN history}

ImplementsContract == Abstract!Spec

\* Every confirm() comes to an end (or its process does): no caller waits for
\* the lock for ever.
ConfirmReturns == \A c \in Caller : pc[c] # "idle" ~> pc[c] = "idle"
=============================================================================
