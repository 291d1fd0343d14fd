------------------------ MODULE DeliveryLedgerProofs ------------------------
(***************************************************************************)
(* Proofs about DeliveryLedger, for any callers, caps and bounds.          *)
(*                                                                         *)
(* RecordedAtMostOnce is not inductive: an append in flight must be known  *)
(* to record something new.  What makes it so is that an entry that is     *)
(* pending and not confirmed was never recorded (confirmation and eviction *)
(* keep the two dicts in step), and that a caller which appends holds the  *)
(* lock, under which nobody stages, prunes or confirms.                    *)
(***************************************************************************)
EXTENDS DeliveryLedger, FiniteSetTheorems, WellFoundedInduction, TLAPS

\* An entry the ledger would confirm is not in the history.
UnconfirmedUnrecorded ==
  \A k \in DOMAIN history : history[k] \notin Unconfirmed(pending)

\* Only what was staged is in the history.
RecordedWasIssued == \A k \in DOMAIN history : history[k] \in 1..issued

\* _confirmed points at the events of its ids.
ConfirmedPoints ==
  \A p \in DOMAIN confirmed :
    confirmed[p] \in DOMAIN history /\ history[confirmed[p]] = p

\* A caller in its append holds the lock, on an entry not confirmed yet.
AppenderHolds ==
  \A c \in Caller : pc[c] = "appending" =>
    lock = c /\ want[c] \in Unconfirmed(pending)

\* Callers work for receipts.
WantsReceipt == \A c \in Caller : pc[c] # "idle" => want[c] \in receipts

IInv == /\ TypeOK /\ UnconfirmedUnrecorded /\ RecordedWasIssued
        /\ ConfirmedPoints /\ AppenderHolds /\ WantsReceipt
        /\ RecordedAtMostOnce /\ RepliesNameTheEvent

-----------------------------------------------------------------------------
LEMMA LimitIsNat == StageLimit \in Nat /\ Pid \subseteq Nat
  BY LimitAssumption DEF Pid

\* What an append does to the history.
LEMMA AppendedHistory ==
  ASSUME NEW S, NEW s \in Seq(S), NEW e \in S
  PROVE  /\ Append(s, e) \in Seq(S)
         /\ Len(Append(s, e)) = Len(s) + 1
         /\ DOMAIN Append(s, e) = DOMAIN s \cup {Len(s) + 1}
         /\ \A k \in DOMAIN s : Append(s, e)[k] = s[k]
         /\ Append(s, e)[Len(s) + 1] = e
         /\ Len(s) + 1 \notin DOMAIN s
  OBVIOUS

LEMMA InitIInv == Init => IInv
<1> SUFFICES ASSUME Init PROVE IInv
  OBVIOUS
<1> USE LimitAssumption DEF Init
<1>1. TypeOK
  <2>1. confirmed \in [{} -> 1..Len(history)] /\ {} \in SUBSET (1..issued)
    OBVIOUS
  <2>2. \E S \in SUBSET (1..issued) : confirmed \in [S -> 1..Len(history)]
    BY <2>1
  <2> QED  BY <2>2 DEF TypeOK, NoReply, Raised, Reply
<1>2. DOMAIN history = {} /\ DOMAIN confirmed = {}
  OBVIOUS
<1> QED
  BY <1>1, <1>2 DEF IInv, UnconfirmedUnrecorded, RecordedWasIssued,
     ConfirmedPoints, AppenderHolds, WantsReceipt, RecordedAtMostOnce,
     RepliesNameTheEvent, NoReply, Raised

LEMMA NextId == ASSUME NEW n \in Nat PROVE 1..(n + 1) = 1..n \cup {n + 1}
  OBVIOUS

LEMMA PrunedTakesAway == ASSUME NEW P PROVE Pruned(P) \subseteq P
  BY DEF Pruned

\* Staging: the new id is in no history, and pruning only takes away.
LEMMA StageIInv == IInv /\ Stage => IInv'
<1> SUFFICES ASSUME IInv, Stage PROVE IInv'
  OBVIOUS
<1> USE DEF IInv, Stage, callVars
<1>1. issued \in Nat /\ issued' = issued + 1 /\ issued' \in 0..StageLimit
  BY LimitIsNat DEF TypeOK
<1>2. /\ pending' \subseteq pending \cup {issued + 1}
      /\ pending' \subseteq 1..issued' /\ 1..issued \subseteq 1..issued'
  <2>1. pending' \subseteq pending \cup {issued + 1}
    BY PrunedTakesAway
  <2>2. pending \subseteq 1..issued
    BY DEF TypeOK
  <2>3. 1..issued' = 1..issued \cup {issued + 1}
    BY <1>1, NextId
  <2> QED  BY <2>1, <2>2, <2>3
<1>3. TypeOK'
  <2>1. PICK S \in SUBSET (1..issued) : confirmed \in [S -> 1..Len(history)]
    BY DEF TypeOK
  <2>2. S \in SUBSET (1..issued') /\ confirmed' \in [S -> 1..Len(history')]
    BY <1>2, <2>1
  <2>3. receipts' \in SUBSET (1..issued')
    BY <1>2 DEF TypeOK
  <2> QED  BY <1>1, <1>2, <2>2, <2>3 DEF TypeOK
<1>4. RecordedWasIssued'
  BY <1>2 DEF RecordedWasIssued
<1>5. UnconfirmedUnrecorded'
  <2>1. \A k \in DOMAIN history : history[k] # issued + 1
    BY <1>1 DEF RecordedWasIssued
  <2> QED  BY <1>2, <2>1 DEF UnconfirmedUnrecorded, Unconfirmed
<1>6. \A c \in Caller : pc[c] # "appending"
  BY CallerAssumption DEF AppenderHolds, LockFree
<1> QED
  BY <1>3, <1>4, <1>5, <1>6 DEF ConfirmedPoints, AppenderHolds, WantsReceipt,
     RecordedAtMostOnce, RepliesNameTheEvent

\* Sends and calls.
LEMMA SendIInv == ASSUME IInv, NEW p \in Pid, Send(p) PROVE IInv'
<1> USE DEF IInv, Send, ledgerVars, callVars
<1>1. TypeOK'
  BY DEF TypeOK
<1> QED
  BY <1>1 DEF UnconfirmedUnrecorded, Unconfirmed, RecordedWasIssued,
     ConfirmedPoints, AppenderHolds, WantsReceipt, RecordedAtMostOnce,
     RepliesNameTheEvent

LEMMA ConfirmIInv ==
  ASSUME IInv, NEW p \in Pid, NEW c \in Caller, Confirm(c, p) PROVE IInv'
<1> USE DEF IInv, Confirm, ledgerVars
<1>1. NoReply \in Reply /\ NoReply.result # "event"
  BY DEF NoReply, Raised, Reply
<1>2. TypeOK'
  BY <1>1 DEF TypeOK
<1>3. UnconfirmedUnrecorded' /\ RecordedWasIssued' /\ ConfirmedPoints'
  BY DEF UnconfirmedUnrecorded, Unconfirmed, RecordedWasIssued, ConfirmedPoints
<1>4. AppenderHolds' /\ WantsReceipt'
  BY DEF AppenderHolds, Unconfirmed, WantsReceipt, TypeOK
<1>5. RecordedAtMostOnce' /\ RepliesNameTheEvent'
  BY <1>1 DEF RecordedAtMostOnce, RepliesNameTheEvent, TypeOK
<1> QED  BY <1>2, <1>3, <1>4, <1>5

\* A call that ends without an append.
LEMMA ReturnIInv ==
  ASSUME IInv, NEW c \in Caller, NEW r \in Reply, Return(c, r),
         r.result = "event" => r.at \in DOMAIN history /\ history[r.at] = want[c],
         UNCHANGED <<issued, pending, confirmed, history, receipts, born>>,
         lock' = lock \/ (lock = c /\ lock' = NoCaller),
         \A d \in Caller : pc'[d] = "appending" => lock' = lock
  PROVE  IInv'
<1> USE DEF IInv, Return
<1>1. TypeOK'
  BY DEF TypeOK
<1>2. UnconfirmedUnrecorded' /\ RecordedWasIssued' /\ ConfirmedPoints'
  BY DEF UnconfirmedUnrecorded, Unconfirmed, RecordedWasIssued, ConfirmedPoints
<1>3. AppenderHolds' /\ WantsReceipt'
  BY DEF AppenderHolds, Unconfirmed, WantsReceipt, TypeOK
<1>4. RecordedAtMostOnce' /\ RepliesNameTheEvent'
  BY DEF RecordedAtMostOnce, RepliesNameTheEvent, TypeOK
<1> QED  BY <1>1, <1>2, <1>3, <1>4

LEMMA QuietIInv ==
  ASSUME IInv, NEW c \in Caller,
         ReturnAlready(c) \/ RaiseUnknown(c) \/ FailAppend(c)
  PROVE  IInv'
<1> USE DEF ledgerVars
<1>1. CASE ReturnAlready(c)
  <2>1. /\ confirmed[want[c]] \in DOMAIN history
        /\ history[confirmed[want[c]]] = want[c]
        /\ confirmed[want[c]] \in Nat
    BY <1>1 DEF IInv, ReturnAlready, ConfirmedPoints, TypeOK
  <2>2. Event(confirmed[want[c]]) \in Reply
    BY <2>1 DEF Event, Reply
  <2> QED  BY <1>1, <2>1, <2>2, ReturnIInv DEF ReturnAlready, Event
<1>2. CASE RaiseUnknown(c)
  <2>1. Raised("KeyError") \in Reply /\ Raised("KeyError").result # "event"
    BY DEF Raised, Reply
  <2> QED  BY <1>2, <2>1, ReturnIInv DEF RaiseUnknown
<1>3. CASE FailAppend(c)
  <2>1. Raised("StoreError") \in Reply /\ Raised("StoreError").result # "event"
    BY DEF Raised, Reply
  <2>2. lock = c
    BY <1>3 DEF FailAppend, IInv, AppenderHolds
  <2>3. \A d \in Caller : pc'[d] # "appending"
    BY <1>3, <2>2 DEF FailAppend, Return, IInv, AppenderHolds, TypeOK
  <2> QED  BY <1>3, <2>1, <2>2, <2>3, ReturnIInv DEF FailAppend
<1> QED  BY <1>1, <1>2, <1>3

LEMMA BeginAppendIInv ==
  ASSUME IInv, NEW c \in Caller, BeginAppend(c) PROVE IInv'
<1> USE DEF IInv, BeginAppend
<1>1. TypeOK'
  BY DEF TypeOK
<1>2. UnconfirmedUnrecorded' /\ RecordedWasIssued' /\ ConfirmedPoints'
  BY DEF UnconfirmedUnrecorded, Unconfirmed, RecordedWasIssued, ConfirmedPoints
<1>3. \A d \in Caller : pc[d] # "appending"
  BY CallerAssumption DEF AppenderHolds, LockFree
<1>4. AppenderHolds' /\ WantsReceipt'
  BY <1>3 DEF AppenderHolds, Unconfirmed, WantsReceipt, TypeOK
<1>5. RecordedAtMostOnce' /\ RepliesNameTheEvent'
  BY DEF RecordedAtMostOnce, RepliesNameTheEvent
<1> QED  BY <1>1, <1>2, <1>4, <1>5

\* The append returned: one new event, and the two dicts stay in step.
LEMMA FinishAppendIInv ==
  ASSUME IInv, NEW c \in Caller, FinishAppend(c) PROVE IInv'
<1> DEFINE event == Len(history) + 1
           conf == [p \in DOMAIN confirmed \cup {want[c]} |->
                      IF p = want[c] THEN event ELSE confirmed[p]]
<1>1. /\ pc[c] = "appending"
      /\ history' = Append(history, want[c])
      /\ confirmed' = [p \in Kept(conf) |-> conf[p]]
      /\ pending' = pending \ (DOMAIN conf \ Kept(conf))
      /\ lock' = NoCaller
      /\ Return(c, Event(event))
      /\ UNCHANGED <<issued, receipts, born>>
  BY DEF FinishAppend, NextPosition
<1>2. /\ want[c] \in Unconfirmed(pending) /\ lock = c
      /\ want[c] \in Pid /\ want[c] \in 1..issued
  <2>1. want[c] \in Unconfirmed(pending) /\ lock = c
    BY <1>1 DEF IInv, AppenderHolds
  <2>2. Unconfirmed(pending) \subseteq 1..issued /\ 1..issued \subseteq Pid
    BY LimitIsNat DEF IInv, TypeOK, Unconfirmed, Pid
  <2> QED  BY <2>1, <2>2
<1>3. /\ history' \in Seq(Pid) /\ Len(history') = event /\ event \in Nat
      /\ DOMAIN history' = DOMAIN history \cup {event}
      /\ \A k \in DOMAIN history : history'[k] = history[k]
      /\ history'[event] = want[c]
      /\ event \notin DOMAIN history
  <2>1. history \in Seq(Pid)
    BY DEF IInv, TypeOK
  <2> QED  BY <1>1, <1>2, <2>1, AppendedHistory
<1>4. Kept(conf) \subseteq DOMAIN confirmed \cup {want[c]}
  BY DEF Kept
<1>5. /\ DOMAIN confirmed' = Kept(conf)
      /\ \A p \in DOMAIN confirmed' :
           confirmed'[p] = IF p = want[c] THEN event ELSE confirmed[p]
  BY <1>1, <1>4
<1>6. Unconfirmed(pending)' \subseteq Unconfirmed(pending) \ {want[c]}
  BY <1>1, <1>5 DEF Unconfirmed
<1> HIDE DEF conf, event
<1>7. TypeOK'
  <2>1. PICK S \in SUBSET (1..issued) : confirmed \in [S -> 1..Len(history)]
    BY DEF IInv, TypeOK
  <2>2. Kept(conf) \in SUBSET (1..issued')
    BY <1>1, <1>2, <1>4, <2>1
  <2>3. \A p \in Kept(conf) : confirmed'[p] \in 1..Len(history')
    <3>1. Len(history) \in Nat /\ event = Len(history) + 1
      BY DEF event, IInv, TypeOK
    <3> QED  BY <1>3, <1>4, <1>5, <2>1, <3>1
  <2>4. confirmed' \in [Kept(conf) -> 1..Len(history')]
    BY <1>1, <1>5, <2>3
  <2>5. reply' \in [Caller -> Reply] /\ pc' \in [Caller -> {"idle", "waiting", "appending"}]
    BY <1>1, <1>3 DEF Return, Event, Reply, IInv, TypeOK
  <2>6. pending' \in SUBSET (1..issued') /\ want' = want
    BY <1>1 DEF IInv, TypeOK, Return
  <2>7. \E T \in SUBSET (1..issued') : confirmed' \in [T -> 1..Len(history')]
    BY <2>2, <2>4
  <2> QED
    BY <1>1, <1>3, <2>5, <2>6, <2>7 DEF IInv, TypeOK
<1>8. UnconfirmedUnrecorded'
  BY <1>3, <1>6 DEF IInv, UnconfirmedUnrecorded
<1>9. RecordedWasIssued'
  BY <1>1, <1>2, <1>3 DEF IInv, RecordedWasIssued
<1>10. ConfirmedPoints'
  BY <1>3, <1>4, <1>5 DEF IInv, ConfirmedPoints
<1>11. AppenderHolds' /\ WantsReceipt'
  <2>1. \A d \in Caller : pc'[d] # "appending" /\ want'[d] = want[d]
    BY <1>1, <1>2 DEF IInv, AppenderHolds, TypeOK, Return
  <2>2. \A d \in Caller : pc'[d] # "idle" => pc[d] # "idle"
    BY <1>1 DEF IInv, TypeOK, Return
  <2> QED  BY <1>1, <2>1, <2>2 DEF IInv, AppenderHolds, WantsReceipt
<1>12. RecordedAtMostOnce'
  <2>1. \A k \in DOMAIN history : history[k] # want[c]
    BY <1>2 DEF IInv, UnconfirmedUnrecorded
  <2> QED  BY <1>3, <2>1 DEF IInv, RecordedAtMostOnce
<1>13. RepliesNameTheEvent'
  <2>1. reply' = [reply EXCEPT ![c] = Event(event)] /\ want' = want
    BY <1>1 DEF Return, event
  <2> QED
    BY <1>3, <2>1 DEF IInv, RepliesNameTheEvent, TypeOK, Event
<1> QED
  BY <1>7, <1>8, <1>9, <1>10, <1>11, <1>12, <1>13 DEF IInv

LEMMA RestartIInv == IInv /\ Restart => IInv'
<1> SUFFICES ASSUME IInv, Restart PROVE IInv'
  OBVIOUS
<1> USE DEF IInv, Restart
<1>1. DOMAIN confirmed' = {} /\ NoReply \in Reply /\ NoReply.result # "event"
  BY DEF NoReply, Raised, Reply
<1>2. TypeOK'
  <2>1. confirmed' \in [{} -> 1..Len(history')] /\ {} \in SUBSET (1..issued')
    OBVIOUS
  <2>2. \E S \in SUBSET (1..issued') : confirmed' \in [S -> 1..Len(history')]
    BY <2>1
  <2>3. Len(history) \in Nat /\ issued \in Nat /\ born.count + 1 \in 0..RestartLimit
    BY LimitAssumption DEF TypeOK
  <2> QED  BY <1>1, <2>2, <2>3 DEF TypeOK
<1> QED
  BY <1>1, <1>2 DEF UnconfirmedUnrecorded, Unconfirmed, RecordedWasIssued,
     ConfirmedPoints, AppenderHolds, WantsReceipt, RecordedAtMostOnce,
     RepliesNameTheEvent

LEMMA NextIInv == IInv /\ [Next]_vars => IInv'
<1> SUFFICES ASSUME IInv, [Next]_vars PROVE IInv'
  OBVIOUS
<1>1. CASE UNCHANGED vars
  BY <1>1 DEF vars, IInv, TypeOK, UnconfirmedUnrecorded, Unconfirmed,
     RecordedWasIssued, ConfirmedPoints, AppenderHolds, WantsReceipt,
     RecordedAtMostOnce, RepliesNameTheEvent
<1>2. CASE Stage
  BY <1>2, StageIInv
<1>3. ASSUME NEW p \in Pid, Send(p) \/ \E c \in Caller : Confirm(c, p)
      PROVE  IInv'
  BY <1>3, SendIInv, ConfirmIInv
<1>4. ASSUME NEW c \in Caller, Step(c) PROVE IInv'
  BY <1>4, QuietIInv, BeginAppendIInv, FinishAppendIInv DEF Step, EndAppend
<1>5. CASE Restart
  BY <1>5, RestartIInv
<1> QED  BY <1>1, <1>2, <1>3, <1>4, <1>5 DEF Next

LEMMA Inductive == Spec => []IInv
  BY InitIInv, NextIInv, PTL DEF Spec

\* The dicts, the history and the callers keep their shapes: in particular
\* _confirmed never points beyond the history.
THEOREM TypeCorrect == Spec => []TypeOK
<1>1. IInv => TypeOK
  BY DEF IInv
<1> QED  BY <1>1, Inductive, PTL

\* confirm() is idempotent: whatever the callers, the caps, the failures of the
\* event store and the restarts, no delivery is recorded twice.
THEOREM Idempotence == Spec => []RecordedAtMostOnce
<1>1. IInv => RecordedAtMostOnce
  BY DEF IInv
<1> QED  BY <1>1, Inductive, PTL

\* A caller is never handed the event of another delivery.
THEOREM HonestReplies == Spec => []RepliesNameTheEvent
<1>1. IInv => RepliesNameTheEvent
  BY DEF IInv
<1> QED  BY <1>1, Inductive, PTL

-----------------------------------------------------------------------------
(***************************************************************************)
(* The ledger implements ConfirmedHistory.                                 *)
(***************************************************************************)
LEMMA InitImplements == Init => Abstract!Init
  BY DEF Init, Abstract!Init

LEMMA AppendIsRecord ==
  ASSUME IInv, NEW c \in Caller, FinishAppend(c)
  PROVE  Abstract!Record
<1> DEFINE event == Len(history) + 1
           new == [at |-> event, what |-> want[c]]
           entries == {[at |-> k, what |-> history[k]] : k \in DOMAIN history}
<1>1. history' = Append(history, want[c]) /\ UNCHANGED receipts /\ pc[c] = "appending"
  BY DEF FinishAppend
<1>2. /\ want[c] \in Unconfirmed(pending) /\ want[c] \in receipts
      /\ want[c] \in Pid
  <2>1. want[c] \in Unconfirmed(pending) /\ want[c] \in receipts
    BY <1>1 DEF IInv, AppenderHolds, WantsReceipt
  <2>2. Unconfirmed(pending) \subseteq 1..issued /\ 1..issued \subseteq Pid
    BY LimitIsNat DEF IInv, TypeOK, Unconfirmed, Pid
  <2> QED  BY <2>1, <2>2
<1>3. /\ event \in Nat /\ DOMAIN history' = DOMAIN history \cup {event}
      /\ \A k \in DOMAIN history : history'[k] = history[k]
      /\ history'[event] = want[c]
      /\ event \notin DOMAIN history
  <2>1. history \in Seq(Pid)
    BY DEF IInv, TypeOK
  <2> QED  BY <1>1, <1>2, <2>1, AppendedHistory
<1>4. \A k \in DOMAIN history : history[k] # want[c]
  BY <1>2 DEF IInv, UnconfirmedUnrecorded
<1> HIDE DEF event
<1>5. {[at |-> k, what |-> history'[k]] : k \in DOMAIN history'}
        = entries \cup {new}
  BY <1>3
<1>6. new \in [at : Nat, what : Pid] /\ new.what \in receipts /\ new \notin entries
  BY <1>2, <1>3
<1>7. \A f \in entries : f.what # new.what /\ f.at # new.at
  BY <1>3, <1>4
<1> QED  BY <1>1, <1>5, <1>6, <1>7 DEF Abstract!Record

LEMMA NextImplements == IInv /\ [Next]_vars => [Abstract!Next]_(Abstract!vars)
<1> SUFFICES ASSUME IInv, [Next]_vars PROVE [Abstract!Next]_(Abstract!vars)
  OBVIOUS
<1>1. CASE UNCHANGED <<receipts, history>>
  BY <1>1 DEF Abstract!vars
<1>2. ASSUME NEW p \in Pid, Send(p) PROVE Abstract!Send
  <2>1. receipts \subseteq Pid
    BY LimitIsNat DEF IInv, TypeOK, Pid
  <2> QED  BY <1>2, <2>1 DEF Send, Abstract!Send
<1>3. ASSUME NEW c \in Caller, FinishAppend(c) PROVE Abstract!Record
  BY <1>3, AppendIsRecord
<1>4. CASE \/ Stage \/ Restart
           \/ \E p \in Pid : \E c \in Caller : Confirm(c, p)
           \/ \E c \in Caller : \/ ReturnAlready(c) \/ RaiseUnknown(c)
                                \/ BeginAppend(c) \/ FailAppend(c)
           \/ UNCHANGED vars
  <2>1. UNCHANGED <<receipts, history>>
    BY <1>4 DEF Stage, Restart, Confirm, ReturnAlready, RaiseUnknown, BeginAppend,
       FailAppend, vars
  <2> QED  BY <1>1, <2>1
<1> QED
  BY <1>2, <1>3, <1>4 DEF Next, Step, EndAppend, Abstract!Next

\* The ledger implements the delivery contract of its module header: prose
\* enters the history only after a confirmed send, at most once, and what
\* entered stays where it is; a run of the ledger is a run of ConfirmedHistory.
THEOREM Refinement == Spec => ImplementsContract
  BY InitImplements, NextImplements, Inductive, PTL
     DEF Spec, ImplementsContract, Abstract!Spec

-----------------------------------------------------------------------------
(***************************************************************************)
(* Retention.  What is left of the two dicts is a question of counting:    *)
(* an entry stays if fewer than the cap are newer.  Two lemmas about sets  *)
(* of numbers say what that leaves: the cap, and the newest.               *)
(***************************************************************************)
LEMMA Least ==
  ASSUME NEW S \in SUBSET Nat, S # {}
  PROVE  \E n \in S : \A m \in S : n <= m
<1>1. PICK x \in S : \A y \in S : <<y, x>> \notin OpToRel(<, Nat)
  BY NatLessThanWellFounded, WFMin
<1>2. OpToRel(<, Nat) = {ss \in Nat \X Nat : ss[1] < ss[2]}
  BY Zenon DEF OpToRel
<1>3. \A y \in S : ~(y < x)
  <2> SUFFICES ASSUME NEW y \in S, y < x PROVE FALSE
    OBVIOUS
  <2>1. <<y, x>> \in {ss \in Nat \X Nat : ss[1] < ss[2]}
    OBVIOUS
  <2> QED  BY <1>1, <1>2, <2>1
<1> QED  BY <1>3

LEMMA IntervalSize ==
  ASSUME NEW a \in Nat, NEW b \in Nat
  PROVE  /\ IsFiniteSet(a..b)
         /\ a <= b + 1 => Cardinality(a..b) = b + 1 - a
<1>1. a \in Int /\ b \in Int
  OBVIOUS
<1>2. /\ IsFiniteSet(a..b)
      /\ Cardinality(a..b) = IF a > b THEN 0 ELSE b - a + 1
  BY <1>1, FS_Interval, Zenon
<1> QED  BY <1>2

\* The entries of S newer than p, by their positions f.
Newer(S, f, p) == {q \in S : f[q] > f[p]}

\* Those with fewer than cap newer ones are no more than cap.
LEMMA NoMoreThanCap ==
  ASSUME NEW S, IsFiniteSet(S), NEW f \in [S -> Nat], NEW cap \in Nat,
         \A p, q \in S : f[p] = f[q] => p = q,
         NEW K \in SUBSET S,
         \A p \in K : Cardinality(Newer(S, f, p)) < cap
  PROVE  IsFiniteSet(K) /\ Cardinality(K) <= cap
<1>1. IsFiniteSet(K)
  BY FS_Subset
<1>2. CASE K = {}
  BY <1>1, <1>2, FS_EmptySet
<1>3. CASE K # {}
  <2>1. {f[p] : p \in K} \in SUBSET Nat /\ {f[p] : p \in K} # {}
    BY <1>3
  <2>2. PICK n \in {f[p] : p \in K} : \A m \in {f[p] : p \in K} : n <= m
    BY <2>1, Least
  <2>3. PICK p \in K : \A q \in K : f[p] <= f[q]
    BY <2>2
  <2> DEFINE N == Newer(S, f, p)
  <2>4. N \in SUBSET S
    BY DEF Newer
  <2>5. IsFiniteSet(N) /\ Cardinality(N) \in Nat /\ Cardinality(N) < cap
    BY <2>4, FS_Subset, FS_CardinalityType
  <2>6. K \in SUBSET (N \cup {p})
    <3> SUFFICES ASSUME NEW q \in K, q # p PROVE q \in N
      OBVIOUS
    <3>1. f[p] <= f[q] /\ f[p] # f[q] /\ f[p] \in Nat /\ f[q] \in Nat
      BY <2>3
    <3> QED  BY <3>1 DEF Newer
  <2> HIDE DEF N
  <2>7. /\ IsFiniteSet(N \cup {p}) /\ Cardinality(N \cup {p}) \in Nat
        /\ Cardinality(N \cup {p}) <= Cardinality(N) + 1
    <3>1. /\ IsFiniteSet(N \cup {p})
          /\ Cardinality(N \cup {p}) =
               IF p \in N THEN Cardinality(N) ELSE Cardinality(N) + 1
      BY <2>5, FS_AddElement, Zenon
    <3> QED  BY <2>5, <3>1
  <2>8. Cardinality(K) <= Cardinality(N \cup {p}) /\ Cardinality(K) \in Nat
    BY <1>1, <2>6, <2>7, FS_Subset, FS_CardinalityType
  <2> QED  BY <1>1, <2>5, <2>7, <2>8
<1> QED  BY <1>2, <1>3

\* Of positions up to n, no more than n - k come after k.
LEMMA FewAreNewer ==
  ASSUME NEW T, NEW f \in [T -> Nat], NEW k \in Nat, NEW n \in Nat, k <= n,
         \A p, q \in T : f[p] = f[q] => p = q,
         \A q \in T : f[q] > k /\ f[q] <= n
  PROVE  Cardinality(T) <= n - k
<1>1. f \in Injection(T, (k + 1)..n)
  <2>1. f \in [T -> (k + 1)..n]
    OBVIOUS
  <2> QED  BY <2>1 DEF Injection, IsInjective
<1>2. IsFiniteSet((k + 1)..n) /\ Cardinality((k + 1)..n) = n - k
  <2>1. k + 1 \in Nat /\ k + 1 <= n + 1 /\ n + 1 - (k + 1) = n - k
    OBVIOUS
  <2> QED  BY <2>1, IntervalSize
<1> QED  BY <1>1, <1>2, FS_Injection

(***************************************************************************)
(* EvictsOldestFirst is inductive with one more fact: a confirmed entry is *)
(* pending too, because pruning spares it and eviction takes both.         *)
(***************************************************************************)
ConfirmedIsPending == DOMAIN confirmed \subseteq pending
FitsConfirmed == Cardinality(DOMAIN confirmed) <= MaxConfirmed
FitsUnconfirmed == Cardinality(Unconfirmed(pending)) <= MaxUnconfirmed
WindowOfIdempotence ==
  \A k \in DOMAIN history :
    k > born.recorded /\ k + MaxConfirmed > Len(history) =>
      /\ history[k] \in DOMAIN confirmed
      /\ confirmed[history[k]] = k
Held(p) == p \in pending \/ \E k \in DOMAIN history : history[k] = p
NewestHeld ==
  \A p \in 1..issued : p > born.issued /\ p + MaxUnconfirmed > issued => Held(p)

Retention == /\ ConfirmedIsPending /\ FitsConfirmed /\ FitsUnconfirmed
             /\ WindowOfIdempotence /\ NewestHeld

LEMMA RetentionSuffices == Retention => EvictsOldestFirst
  BY DEF Retention, ConfirmedIsPending, FitsConfirmed, FitsUnconfirmed,
     WindowOfIdempotence, NewestHeld, Held, EvictsOldestFirst

LEMMA InitRetention == Init => Retention
<1> SUFFICES ASSUME Init PROVE Retention
  OBVIOUS
<1>1. DOMAIN confirmed = {} /\ Unconfirmed(pending) = {} /\ DOMAIN history = {}
  BY DEF Init, Unconfirmed
<1>2. Cardinality({}) = 0
  BY FS_EmptySet
<1>3. 1..issued = {}
  BY DEF Init
<1> QED
  BY <1>1, <1>2, <1>3, CapAssumption
  DEF Retention, ConfirmedIsPending, FitsConfirmed, FitsUnconfirmed,
      WindowOfIdempotence, NewestHeld

LEMMA StageRetention == IInv /\ Retention /\ Stage => Retention'
<1> SUFFICES ASSUME IInv, Retention, Stage PROVE Retention'
  OBVIOUS
<1> DEFINE P == pending \cup {issued + 1}
           U == Unconfirmed(P)
           id == [p \in U |-> p]
<1>1. /\ issued \in Nat /\ issued' = issued + 1
      /\ pending' = Pruned(P)
      /\ confirmed' = confirmed /\ history' = history /\ born' = born
      /\ born.issued \in Nat
  BY LimitIsNat DEF Stage, IInv, TypeOK
<1>2. P \in SUBSET (1..(issued + 1)) /\ DOMAIN confirmed \subseteq 1..issued
  <2>1. pending \in SUBSET (1..issued) /\ DOMAIN confirmed \subseteq 1..issued
    BY DEF IInv, TypeOK
  <2>2. 1..(issued + 1) = 1..issued \cup {issued + 1}
    BY <1>1, NextId
  <2> QED  BY <2>1, <2>2
<1>3. /\ IsFiniteSet(U) /\ U \in SUBSET (1..(issued + 1))
      /\ U \in SUBSET Nat
  <2>1. U \in SUBSET (1..(issued + 1))
    BY <1>2 DEF Unconfirmed
  <2>2. IsFiniteSet(1..(issued + 1))
    <3>1. 1 \in Nat /\ issued + 1 \in Nat
      BY <1>1
    <3> QED  BY <3>1, IntervalSize, Zenon
  <2>3. U \in SUBSET Nat
    <3>1. 1..(issued + 1) \subseteq Nat
      BY <1>1
    <3> HIDE DEF U
    <3> QED  BY <2>1, <3>1
  <2>4. IsFiniteSet(U)
    BY <2>1, <2>2, FS_Subset, Zenon
  <2> QED  BY <2>1, <2>3, <2>4
<1>4. ConfirmedIsPending'
  BY <1>1 DEF Retention, ConfirmedIsPending, Pruned
<1>5. FitsUnconfirmed'
  <2> DEFINE K == Unconfirmed(Pruned(P))
  <2>1. K \in SUBSET U /\ \A p \in K : Cardinality({q \in U : q > p}) < MaxUnconfirmed
    BY DEF Pruned, Unconfirmed
  <2>2. id \in [U -> Nat] /\ \A p, q \in U : id[p] = id[q] => p = q
    BY <1>3
  <2>3. \A p \in K : Newer(U, id, p) = {q \in U : q > p}
    BY <2>1 DEF Newer
  <2>4. \A p \in K : Cardinality(Newer(U, id, p)) < MaxUnconfirmed
    BY <2>1, <2>3
  <2> HIDE DEF U, id, K
  <2>5. Cardinality(K) <= MaxUnconfirmed
    BY <1>3, <2>1, <2>2, <2>4, CapAssumption, NoMoreThanCap
  <2>6. Unconfirmed(pending)' = K
    BY <1>1 DEF K, Unconfirmed
  <2> QED  BY <2>5, <2>6 DEF FitsUnconfirmed
<1>6. FitsConfirmed' /\ WindowOfIdempotence'
  BY <1>1 DEF Retention, FitsConfirmed, WindowOfIdempotence
<1>7. NewestHeld'
  <2> SUFFICES ASSUME NEW p \in 1..(issued + 1), p > born.issued,
                      p + MaxUnconfirmed > issued + 1
               PROVE  Held(p)'
    BY <1>1 DEF NewestHeld
  <2>1. CASE \E k \in DOMAIN history : history[k] = p
    BY <1>1, <2>1 DEF Held
  <2>2. CASE ~ \E k \in DOMAIN history : history[k] = p
    <3>1. p \in P
      <4>1. p = issued + 1 \/ (p \in 1..issued /\ p + MaxUnconfirmed > issued)
        BY <1>1, CapAssumption
      <4> QED  BY <2>2, <4>1 DEF Retention, NewestHeld, Held
    <3> DEFINE T == {q \in U : q > p}
               here == [q \in T |-> q]
    <3>2. Cardinality(T) <= (issued + 1) - p
      <4>1. T \in SUBSET Nat /\ \A q \in T : q > p /\ q <= issued + 1
        <5> SUFFICES ASSUME NEW q \in T PROVE q \in Nat /\ q > p /\ q <= issued + 1
          OBVIOUS
        <5>1. q \in U /\ q > p
          OBVIOUS
        <5> QED  BY <1>1, <1>3, <5>1
      <4> HIDE DEF T
      <4>2. /\ here \in [T -> Nat]
            /\ \A q, r \in T : here[q] = here[r] => q = r
            /\ \A q \in T : here[q] > p /\ here[q] <= issued + 1
        BY <4>1
      <4>3. p \in Nat /\ issued + 1 \in Nat /\ p <= issued + 1
        BY <1>1
      <4> HIDE DEF here
      <4> QED  BY <4>2, <4>3, FewAreNewer
    <3>3. Cardinality(T) \in Nat
      <4>1. T \in SUBSET U
        OBVIOUS
      <4> QED  BY <1>3, <4>1, FS_Subset, FS_CardinalityType
    <3>4. Cardinality(T) < MaxUnconfirmed
      BY <1>1, <3>2, <3>3, CapAssumption
    <3>5. p \in Pruned(P)
      BY <3>1, <3>4 DEF Pruned
    <3> QED  BY <1>1, <3>5 DEF Held
  <2> QED  BY <2>1, <2>2
<1> QED  BY <1>4, <1>5, <1>6, <1>7 DEF Retention

LEMMA FinishAppendRetention ==
  ASSUME IInv, Retention, NEW c \in Caller, FinishAppend(c) PROVE Retention'
<1> DEFINE event == Len(history) + 1
           D == DOMAIN confirmed \cup {want[c]}
           conf == [p \in D |-> IF p = want[c] THEN event ELSE confirmed[p]]
<1>1. /\ pc[c] = "appending"
      /\ history' = Append(history, want[c])
      /\ confirmed' = [p \in Kept(conf) |-> conf[p]]
      /\ pending' = pending \ (D \ Kept(conf))
      /\ issued' = issued /\ born' = born
  BY DEF FinishAppend, NextPosition
<1>2. /\ want[c] \in pending /\ want[c] \notin DOMAIN confirmed
      /\ want[c] \in 1..issued /\ want[c] \in Pid
  <2>1. want[c] \in Unconfirmed(pending)
    BY <1>1 DEF IInv, AppenderHolds
  <2>2. Unconfirmed(pending) \subseteq 1..issued /\ 1..issued \subseteq Pid
    BY LimitIsNat DEF IInv, TypeOK, Unconfirmed, Pid
  <2> QED  BY <2>1, <2>2 DEF Unconfirmed
<1>3. /\ history' \in Seq(Pid) /\ Len(history') = event /\ event \in Nat
      /\ DOMAIN history' = DOMAIN history \cup {event}
      /\ \A k \in DOMAIN history : history'[k] = history[k]
      /\ history'[event] = want[c]
      /\ event \notin DOMAIN history
      /\ \A k \in DOMAIN history : k \in Nat /\ k < event
      /\ Len(history) \in Nat /\ event = Len(history) + 1
  <2>1. history \in Seq(Pid)
    BY DEF IInv, TypeOK
  <2> QED  BY <1>1, <1>2, <2>1, AppendedHistory
<1>4. /\ conf \in [D -> Nat] /\ \A p \in D : conf[p] <= event
      /\ conf[want[c]] = event
      /\ \A p \in DOMAIN confirmed : conf[p] = confirmed[p]
      /\ \A p, q \in D : conf[p] = conf[q] => p = q
  <2>1. \A p \in DOMAIN confirmed :
          confirmed[p] \in DOMAIN history /\ history[confirmed[p]] = p
    BY DEF IInv, ConfirmedPoints
  <2>2. /\ conf[want[c]] = event
        /\ \A p \in DOMAIN confirmed :
             conf[p] = confirmed[p] /\ conf[p] \in Nat /\ conf[p] < event
    BY <1>2, <1>3, <2>1
  <2>3. \A p, q \in DOMAIN confirmed : conf[p] = conf[q] => p = q
    BY <2>1, <2>2
  <2> QED  BY <1>3, <2>2, <2>3
<1>5. IsFiniteSet(D) /\ D \in SUBSET pending
  <2>1. D \in SUBSET pending
    BY <1>2 DEF Retention, ConfirmedIsPending
  <2>2. pending \in SUBSET (1..issued) /\ issued \in Nat
    BY LimitIsNat DEF IInv, TypeOK
  <2>3. IsFiniteSet(1..issued)
    BY <2>2, IntervalSize
  <2> QED  BY <2>1, <2>2, <2>3, FS_Subset
<1>6. DOMAIN conf = D
  OBVIOUS
<1> HIDE DEF conf, D, event
<1>7. /\ Kept(conf) \in SUBSET D
      /\ \A p \in D : p \in Kept(conf) <=> Cardinality(Newer(D, conf, p)) < MaxConfirmed
  BY <1>6 DEF Kept, Newer
<1>8. /\ DOMAIN confirmed' = Kept(conf)
      /\ \A p \in Kept(conf) : confirmed'[p] = conf[p]
  BY <1>1
<1>9. ConfirmedIsPending'
  BY <1>1, <1>5, <1>7, <1>8 DEF ConfirmedIsPending
<1>10. FitsConfirmed'
  <2>1. Cardinality(Kept(conf)) <= MaxConfirmed
    BY <1>4, <1>5, <1>7, CapAssumption, NoMoreThanCap
  <2> QED  BY <1>8, <2>1 DEF FitsConfirmed
<1>11. FitsUnconfirmed'
  <2>1. Unconfirmed(pending)' \in SUBSET Unconfirmed(pending)
    BY <1>1, <1>7, <1>8 DEF Unconfirmed, D
  <2>2. Unconfirmed(pending) \in SUBSET (1..issued) /\ issued \in Nat
    BY LimitIsNat DEF IInv, TypeOK, Unconfirmed
  <2>3. IsFiniteSet(Unconfirmed(pending))
    <3>1. IsFiniteSet(1..issued)
      BY <2>2, IntervalSize
    <3> QED  BY <2>2, <3>1, FS_Subset
  <2>4. /\ Cardinality(Unconfirmed(pending)') \in Nat
        /\ Cardinality(Unconfirmed(pending)) \in Nat
        /\ Cardinality(Unconfirmed(pending)') <= Cardinality(Unconfirmed(pending))
    BY <2>1, <2>3, FS_Subset, FS_CardinalityType
  <2> QED  BY <2>4, CapAssumption DEF Retention, FitsUnconfirmed
<1>12. WindowOfIdempotence'
  <2> SUFFICES ASSUME NEW k \in DOMAIN history', k > born.recorded,
                      k + MaxConfirmed > event
               PROVE  /\ history'[k] \in DOMAIN confirmed'
                      /\ confirmed'[history'[k]] = k
    BY <1>1, <1>3 DEF WindowOfIdempotence
  <2> DEFINE p == history'[k]
  <2>1. k \in Nat /\ k <= event /\ p \in D /\ conf[p] = k
    <3>1. CASE k = event
      BY <1>3, <1>4, <3>1 DEF D
    <3>2. CASE k \in DOMAIN history
      <4>1. k + MaxConfirmed > Len(history) /\ p = history[k]
        BY <1>3, <3>2, CapAssumption
      <4>2. p \in DOMAIN confirmed /\ confirmed[p] = k
        BY <3>2, <4>1 DEF Retention, WindowOfIdempotence
      <4> QED  BY <1>3, <1>4, <3>2, <4>2 DEF D
    <3> QED  BY <1>3, <3>1, <3>2
  <2> HIDE DEF p
  <2> DEFINE T == Newer(D, conf, p)
             there == [q \in T |-> conf[q]]
  <2>2. T \in SUBSET D /\ \A q \in T : conf[q] > k /\ conf[q] <= event
    BY <1>4, <2>1 DEF Newer
  <2> HIDE DEF T
  <2>3. /\ there \in [T -> Nat]
        /\ \A q, r \in T : there[q] = there[r] => q = r
        /\ \A q \in T : there[q] > k /\ there[q] <= event
    BY <1>4, <2>2
  <2> HIDE DEF there
  <2>4. Cardinality(T) <= event - k
    BY <1>3, <2>1, <2>3, FewAreNewer
  <2>5. Cardinality(T) \in Nat
    BY <1>5, <2>2, FS_Subset, FS_CardinalityType
  <2>6. Cardinality(T) < MaxConfirmed
    BY <1>3, <2>1, <2>4, <2>5, CapAssumption
  <2>7. p \in Kept(conf)
    BY <1>7, <2>1, <2>6 DEF T
  <2> QED  BY <1>8, <2>1, <2>7 DEF p
<1>13. NewestHeld'
  <2> SUFFICES ASSUME NEW p \in 1..issued, Held(p) PROVE Held(p)'
    BY <1>1 DEF Retention, NewestHeld
  <2>1. \A k \in DOMAIN history :
          k \in DOMAIN history' /\ history'[k] = history[k]
    BY <1>3
  <2>2. CASE \E k \in DOMAIN history : history[k] = p
    BY <2>1, <2>2 DEF Held
  <2>3. CASE p \in pending /\ p \notin D
    BY <1>1, <2>3 DEF Held
  <2>4. CASE p \in DOMAIN confirmed
    BY <2>1, <2>4 DEF Held, IInv, ConfirmedPoints
  <2>5. CASE p = want[c]
    BY <1>3, <2>5 DEF Held
  <2> QED  BY <2>2, <2>3, <2>4, <2>5 DEF Held, D
<1> QED  BY <1>9, <1>10, <1>11, <1>12, <1>13 DEF Retention

LEMMA RestartRetention == IInv /\ Restart => Retention'
<1> SUFFICES ASSUME IInv, Restart PROVE Retention'
  OBVIOUS
<1>1. DOMAIN confirmed' = {} /\ pending' = {} /\ Unconfirmed(pending)' = {}
  BY DEF Restart, Unconfirmed
<1>2. /\ born'.issued = issued /\ born'.recorded = Len(history)
      /\ issued' = issued /\ history' = history
  BY DEF Restart
<1>3. \A k \in DOMAIN history : ~(k > Len(history))
  BY DEF IInv, TypeOK
<1>4. \A p \in 1..issued : ~(p > issued)
  BY LimitIsNat DEF IInv, TypeOK
<1>5. Cardinality({}) = 0
  BY FS_EmptySet
<1>6. FitsConfirmed' /\ FitsUnconfirmed' /\ ConfirmedIsPending'
  BY <1>1, <1>5, CapAssumption
  DEF FitsConfirmed, FitsUnconfirmed, ConfirmedIsPending
<1>7. WindowOfIdempotence' /\ NewestHeld'
  BY <1>2, <1>3, <1>4 DEF WindowOfIdempotence, NewestHeld
<1> QED  BY <1>6, <1>7 DEF Retention

LEMMA NextRetention == IInv /\ Retention /\ [Next]_vars => Retention'
<1> SUFFICES ASSUME IInv, Retention, [Next]_vars PROVE Retention'
  OBVIOUS
<1>1. CASE UNCHANGED <<issued, pending, confirmed, history, born>>
  <2>1. /\ issued' = issued /\ pending' = pending /\ confirmed' = confirmed
        /\ history' = history /\ born' = born
    BY <1>1
  <2> QED
    BY <2>1
    DEF Retention, ConfirmedIsPending, FitsConfirmed, FitsUnconfirmed,
        Unconfirmed, WindowOfIdempotence, NewestHeld, Held
<1>2. CASE Stage
  BY <1>2, StageRetention
<1>3. ASSUME NEW c \in Caller, FinishAppend(c) PROVE Retention'
  BY <1>3, FinishAppendRetention
<1>4. CASE Restart
  BY <1>4, RestartRetention
<1>5. CASE \/ \E p \in Pid : Send(p) \/ \E c \in Caller : Confirm(c, p)
           \/ \E c \in Caller : \/ ReturnAlready(c) \/ RaiseUnknown(c)
                                \/ BeginAppend(c) \/ FailAppend(c)
           \/ UNCHANGED vars
  <2>1. UNCHANGED <<issued, pending, confirmed, history, born>>
    BY <1>5 DEF Send, Confirm, ReturnAlready, RaiseUnknown, BeginAppend,
       FailAppend, ledgerVars, vars
  <2> QED  BY <1>1, <2>1
<1> QED  BY <1>2, <1>3, <1>4, <1>5 DEF Next, Step, EndAppend

\* Both caps hold at every moment, and what they evict is the oldest: the
\* newest MaxConfirmed events recorded since the start can be confirmed again,
\* the newest MaxUnconfirmed ids staged since then are held or recorded.
THEOREM FIFORetention == Spec => []EvictsOldestFirst
<1>1. IInv /\ Retention /\ [Next]_vars => Retention'
  BY NextRetention
<1> QED  BY InitRetention, <1>1, RetentionSuffices, Inductive, PTL DEF Spec
=============================================================================
