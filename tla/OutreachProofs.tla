---------------------------- MODULE OutreachProofs ----------------------------
(***************************************************************************)
(* Proofs about Outreach, for any stacks of gates, rhythms, processes,     *)
(* zones, days and thinking times.                                         *)
(***************************************************************************)
EXTENDS Outreach, FiniteSetTheorems, WellFoundedInduction, TLAPS

\* A set of numbers has a least one.
LEMMA Least ==
  ASSUME NEW S \in SUBSET Nat, S # {}
  PROVE  Min(S) \in S /\ \A m \in S : Min(S) <= m
<1>1. PICK x \in S : \A y \in S : <<y, x>> \notin OpToRel(<, Nat)
  BY NatLessThanWellFounded, WFMin
<1>2. OpToRel(<, Nat) = {ss \in Nat \X Nat : ss[1] < ss[2]}
  BY Zenon DEF OpToRel
<1>3. \A y \in S : x <= y
  <2> SUFFICES ASSUME NEW y \in S, y < x PROVE FALSE
    OBVIOUS
  <2>1. <<y, x>> \in {ss \in Nat \X Nat : ss[1] < ss[2]}
    OBVIOUS
  <2> QED  BY <1>1, <1>2, <2>1
<1> QED  BY <1>3 DEF Min

\* A stack allows what each of its gates allows.
LEMMA AllAgree ==
  ASSUME NEW r, NEW t, setup \in Setups, AllOf(r, t).allowed,
         NEW i \in DOMAIN setup.stack
  PROVE  Verdict(setup.stack[i], r, t).allowed
<1> DEFINE verdicts == [j \in DOMAIN setup.stack |-> Verdict(setup.stack[j], r, t)]
           I == {j \in 1..Len(verdicts) : ~verdicts[j].allowed}
<1>1. /\ Len(verdicts) = Len(setup.stack) /\ DOMAIN setup.stack = 1..Len(setup.stack)
      /\ verdicts[i] = Verdict(setup.stack[i], r, t)
  BY SetupAssumption
<1>2. AllOf(r, t) = LET denial == IF I # {} THEN Min(I) ELSE 0
                    IN  IF denial = 0 THEN Clear ELSE verdicts[denial]
  BY DEF AllOf, SelectInSeq
<1>3. I \in SUBSET Nat /\ \A j \in I : j # 0 /\ ~verdicts[j].allowed
  OBVIOUS
<1>4. ~verdicts[i].allowed => i \in I
  BY <1>1
<1> HIDE DEF I, verdicts
<1>5. I = {}
  <2> SUFFICES ASSUME I # {} PROVE FALSE
    OBVIOUS
  <2>1. Min(I) \in I
    BY <1>3, Least
  <2> QED  BY <1>2, <1>3, <2>1
<1> QED  BY <1>1, <1>4, <1>5

-----------------------------------------------------------------------------
(***************************************************************************)
(* The night.                                                              *)
(***************************************************************************)
\* What is left of a number within a day of the first one.
LEMMA Wrapped ==
  ASSUME NEW N \in Nat \ {0}, NEW x \in Int, NEW m \in 0..(N - 1),
         x = m \/ x = m + N \/ x = m - N
  PROVE  x % N = m
<1> DEFINE q == x \div N
           e == x % N
<1>1. q \in Int /\ e \in 0..(N - 1) /\ x = N * q + e
  OBVIOUS
<1> HIDE DEF q, e
<1>2. CASE q >= 2
  <2>1. N * q >= N * 2
    BY <1>1, <1>2
  <2> QED  BY <1>1, <2>1
<1>3. CASE q <= -2
  <2>1. N * q <= N * (-2)
    BY <1>1, <1>3
  <2> QED  BY <1>1, <2>1
<1>4. CASE q \in {-1, 0, 1}
  <2>1. N * q \in {-N, 0, N}
    BY <1>4
  <2> QED  BY <1>1, <2>1 DEF e
<1> QED  BY <1>1, <1>2, <1>3, <1>4

\* The hours that InHours compares are those of the night that it means.
LEMMA HoursOfTheNight ==
  ASSUME NEW hours, hours.start \in 0..(Day - 1), hours.end \in 0..(Day - 1),
         NEW h \in Night(hours)
  PROVE  InHours(h, hours)
<1> DEFINE a == hours.start
           b == hours.end
           length == (b - a) % Day
<1>1. Day \in Nat \ {0}
  BY BoundAssumption
<1>2. PICK i \in 0..(length - 1) : h = (a + i) % Day
  BY DEF Night
<1>3. a \in 0..(Day - 1) /\ b \in 0..(Day - 1)
  OBVIOUS
<1>4. InHours(h, hours) = IF a > b THEN h >= a \/ h < b ELSE a <= h /\ h < b
  BY DEF InHours
<1> HIDE DEF a, b
<1>5. CASE a <= b
  <2>1. length = b - a
    <3> DEFINE x == b - a
    <3>1. x \in 0..(Day - 1)
      BY <1>1, <1>3, <1>5
    <3> HIDE DEF x
    <3> QED  BY <1>1, <3>1, Wrapped DEF x
  <2> HIDE DEF length
  <2> DEFINE x == a + i
  <2>2. x \in 0..(Day - 1) /\ a <= x /\ x < b
    BY <1>1, <1>2, <1>3, <1>5, <2>1
  <2>3. h = x % Day
    BY <1>2
  <2> HIDE DEF x
  <2>4. h = x
    <3>1. x \in Int /\ x \in 0..(Day - 1)
      BY <2>2
    <3>2. x % Day = x
      BY <1>1, <3>1, Wrapped, Zenon
    <3> QED  BY <2>3, <3>2
  <2> QED  BY <1>4, <1>5, <2>2, <2>4
<1>6. CASE a > b
  <2>1. length = b - a + Day
    <3> DEFINE x == b - a
               m == x + Day
    <3>1. x \in Int /\ m \in 0..(Day - 1) /\ x = m - Day
      BY <1>1, <1>3, <1>6
    <3> HIDE DEF x, m
    <3>2. x % Day = m
      BY <1>1, <3>1, Wrapped
    <3> QED  BY <3>2 DEF x, m
  <2> HIDE DEF length
  <2> DEFINE x == a + i
  <2>2. x \in Nat /\ a <= x /\ x < b + Day /\ h = x % Day
    BY <1>1, <1>2, <1>3, <1>6, <2>1
  <2> HIDE DEF x
  <2>3. CASE x < Day
    <3>1. h = x
      BY <1>1, <2>2, <2>3, Wrapped
    <3> QED  BY <1>3, <1>4, <1>6, <2>2, <3>1
  <2>4. CASE x >= Day
    <3> DEFINE m == x - Day
    <3>1. m \in 0..(Day - 1) /\ x = m + Day /\ m < b
      BY <1>1, <1>3, <2>2, <2>4
    <3> HIDE DEF m
    <3>2. h = m
      BY <1>1, <2>2, <3>1, Wrapped
    <3> QED  BY <1>3, <1>4, <1>6, <3>1, <3>2
  <2> QED  BY <1>1, <2>2, <2>3, <2>4
<1> QED  BY <1>3, <1>5, <1>6

\* It is a waking hour for every gate of quiet hours.
Waking(t) ==
  \A g \in Gates("quiet") : setup.zone # NoZone /\ Hour(t) \notin Night(g.hours)

\* The gates let no firing through that was claimed at night.
LEMMA ClearedByDay ==
  ASSUME setup \in Setups, NEW r, NEW t, AllOf(r, t).allowed
  PROVE  Waking(t)
<1> SUFFICES ASSUME NEW g \in Gates("quiet")
             PROVE  setup.zone # NoZone /\ Hour(t) \notin Night(g.hours)
  BY DEF Waking
<1>1. PICK i \in DOMAIN setup.stack : g = setup.stack[i] /\ g.kind = "quiet"
  BY DEF Gates, Range
<1>2. Verdict(g, r, t).allowed
  BY <1>1, AllAgree
<1>3. QuietHours(g, t).allowed
  BY <1>1, <1>2 DEF Verdict
<1>4. setup.zone # NoZone /\ ~InHours(Hour(t), g.hours)
  BY <1>3 DEF QuietHours, Denied
<1>5. g.hours.start \in 0..(Day - 1) /\ g.hours.end \in 0..(Day - 1)
  BY <1>1, SetupAssumption
<1> QED  BY <1>4, <1>5, HoursOfTheNight

\* A firing the gates let through was claimed in a waking hour, Think hours ago at
\* most.
Timed ==
  /\ setup \in Setups /\ now \in Nat
  /\ at \in [Rhythm -> Nat] /\ cleared \in [Rhythm -> BOOLEAN]
  /\ \A r \in Rhythm : at[r] # 0 => at[r] <= now /\ now <= at[r] + Think
Rested == \A r \in Rhythm : cleared[r] => at[r] # 0 /\ Waking(at[r])
Logged == \E S : log \in Seq(S)

\* What was heard was begun in a waking hour.
Heard ==
  \A e \in Range(log) : IsOutreach(e) =>
    \E t \in (e.at - Think)..e.at : Waking(t)

NInv == Timed /\ Rested /\ Logged /\ Heard

LEMMA NInvQuiet == NInv => NightIsQuiet
<1> SUFFICES ASSUME NInv, NEW g \in Gates("quiet"), NEW e \in Range(log), IsOutreach(e)
             PROVE  /\ setup.zone # NoZone
                    /\ \E t \in (e.at - Think)..e.at : Hour(t) \notin Night(g.hours)
  BY DEF NightIsQuiet
<1> QED  BY DEF NInv, Heard, Waking

LEMMA InitNInv == Init => NInv
<1> SUFFICES ASSUME Init PROVE NInv
  OBVIOUS
<1>1. Timed /\ Rested
  BY BoundAssumption DEF Init, Timed, Rested
<1>2. log \in Seq({}) /\ Range(log) = {}
  BY DEF Init, Range
<1> QED  BY <1>1, <1>2 DEF NInv, Logged, Heard

\* What a step appends to the log.
LEMMA RangeOfAppend ==
  ASSUME NEW S, NEW s \in Seq(S), NEW e
  PROVE  Range(Append(s, e)) = Range(s) \cup {e} /\ \E T : Append(s, e) \in Seq(T)
<1> DEFINE T == S \cup {e}
<1>1. s \in Seq(T) /\ e \in T
  OBVIOUS
<1> HIDE DEF T
<1>2. /\ Append(s, e) \in Seq(T) /\ Len(Append(s, e)) = Len(s) + 1
      /\ \A i \in 1..Len(s) : Append(s, e)[i] = s[i]
      /\ Append(s, e)[Len(s) + 1] = e
  BY <1>1
<1>3. DOMAIN Append(s, e) = DOMAIN s \cup {Len(s) + 1} /\ DOMAIN s = 1..Len(s)
  BY <1>1, <1>2
<1> QED  BY <1>2, <1>3 DEF Range

\* What the log says stays heard, and what is added must be begun by day.
LEMMA Hears ==
  ASSUME NInv, NEW e, log' = Append(log, e), setup' = setup,
         IsOutreach(e) => \E t \in (e.at - Think)..e.at : Waking(t)
  PROVE  Logged' /\ Heard'
<1>1. PICK S : log \in Seq(S)
  BY DEF NInv, Logged
<1>2. Range(log') = Range(log) \cup {e} /\ Logged'
  BY <1>1, RangeOfAppend DEF Logged
<1>3. \A t : Waking(t)' <=> Waking(t)
  BY DEF Waking, Gates, Hour
<1> QED  BY <1>2, <1>3 DEF NInv, Heard

LEMMA SetupStays == [Next]_vars => setup' = setup
BY DEF Next, Advance, Rest, UserSpeaks, UserActs, Shows, AgentTalks, Claim, Deny, Pass,
       Speak, Finish, End, vars

LEMMA NextNInv == NInv /\ [Next]_vars => NInv'
<1> SUFFICES ASSUME NInv, [Next]_vars PROVE NInv'
  OBVIOUS
<1>1. /\ setup \in Setups /\ now \in Nat /\ Think \in Nat
      /\ at \in [Rhythm -> Nat] /\ cleared \in [Rhythm -> BOOLEAN]
      /\ \A r \in Rhythm : at[r] # 0 => at[r] <= now /\ now <= at[r] + Think
      /\ \A r \in Rhythm : cleared[r] => at[r] # 0 /\ Waking(at[r])
  BY BoundAssumption DEF NInv, Timed, Rested
<1>2. setup' = setup
  BY SetupStays
<1>3. \A t : Waking(t)' <=> Waking(t)
  BY <1>2 DEF Waking, Gates, Hour
<1>4. ASSUME UNCHANGED log PROVE Logged' /\ Heard'
  BY <1>2, <1>3, <1>4 DEF NInv, Logged, Heard
<1>5. ASSUME UNCHANGED <<now, at, cleared>> PROVE Timed' /\ Rested'
  BY <1>1, <1>2, <1>3, <1>5 DEF Timed, Rested
<1>6. ASSUME NEW r \in Rhythm, NEW horizon, End(r, horizon) PROVE Timed' /\ Rested'
  BY <1>1, <1>2, <1>3, <1>6 DEF End, Timed, Rested
<1>7. CASE Advance
  <2>1. Timed'
    BY <1>1, <1>2, <1>7 DEF Advance, Timed, Firings
  <2>2. Rested' /\ log' = log
    BY <1>1, <1>3, <1>7 DEF Advance, Rested
  <2> QED  BY <1>4, <2>1, <2>2 DEF NInv
<1>8. CASE UNCHANGED vars
  BY <1>4, <1>5, <1>8 DEF vars, NInv
<1>9. ASSUME NEW kind, NEW when, Shows(kind, when) PROVE NInv'
  <2> DEFINE e == [by |-> User, kind |-> kind, proactive |-> FALSE, at |-> when]
  <2>1. log' = Append(log, e) /\ ~IsOutreach(e)
    BY <1>9 DEF Shows, Record, IsOutreach
  <2> HIDE DEF e
  <2>2. Timed' /\ Rested'
    BY <1>5, <1>9 DEF Shows
  <2> QED  BY <1>2, <2>1, <2>2, Hears DEF NInv
<1>10. ASSUME NEW a, AgentTalks(a) PROVE NInv'
  <2> DEFINE e == [by |-> a, kind |-> "message", proactive |-> FALSE, at |-> now]
  <2>1. log' = Append(log, e) /\ ~IsOutreach(e)
    BY <1>10 DEF AgentTalks, Record, IsOutreach
  <2> HIDE DEF e
  <2>2. Timed' /\ Rested'
    BY <1>5, <1>10 DEF AgentTalks
  <2> QED  BY <1>2, <2>1, <2>2, Hears DEF NInv
<1>11. ASSUME NEW r \in Rhythm, Claim(r) PROVE NInv'
  <2>1. /\ at[r] = 0 /\ at' = [at EXCEPT ![r] = now]
        /\ now' = now /\ log' = log /\ cleared' = cleared
    BY <1>11 DEF Claim
  <2>2. Timed'
    BY <1>1, <1>2, <2>1 DEF Timed
  <2>3. Rested'
    BY <1>1, <1>3, <2>1 DEF Rested
  <2> QED  BY <1>4, <2>1, <2>2, <2>3 DEF NInv
<1>12. ASSUME NEW r \in Rhythm, Deny(r) \/ Finish(r) PROVE NInv'
  <2>1. UNCHANGED log /\ \E horizon : End(r, horizon)
    BY <1>12 DEF Deny, Finish, End
  <2> QED  BY <1>4, <1>6, <2>1 DEF NInv
<1>13. ASSUME NEW r \in Rhythm, Pass(r) PROVE NInv'
  <2>1. /\ at[r] # 0 /\ AllOf(r, at[r]).allowed
        /\ cleared' = [cleared EXCEPT ![r] = TRUE]
        /\ now' = now /\ log' = log /\ at' = at
    BY <1>13 DEF Pass
  <2>2. Waking(at[r])
    BY <1>1, <2>1, ClearedByDay
  <2>3. Timed' /\ Rested'
    BY <1>1, <1>2, <1>3, <2>1, <2>2 DEF Timed, Rested
  <2> QED  BY <1>4, <2>1, <2>3 DEF NInv
<1>14. ASSUME NEW r \in Rhythm, NEW a, Speak(r, a) PROVE NInv'
  <2> DEFINE e == [by |-> a, kind |-> "message", proactive |-> TRUE, at |-> now]
  <2>1. cleared[r] /\ log' = Append(log, e) /\ UNCHANGED <<now, at, cleared>>
    BY <1>14 DEF Speak, Record
  <2>2. at[r] \in (e.at - Think)..e.at /\ Waking(at[r])
    BY <1>1, <2>1
  <2> HIDE DEF e
  <2>3. Logged' /\ Heard'
    BY <1>2, <2>1, <2>2, Hears
  <2> QED  BY <1>5, <2>1, <2>3 DEF NInv
<1> QED
  BY <1>7, <1>8, <1>9, <1>10, <1>11, <1>12, <1>13, <1>14 DEF Next, Rest, UserSpeaks, UserActs

\* Behind a gate of quiet hours, whatever else is in the stack, nothing is heard
\* that was begun at night, and nothing at all where the zone is unknown: for any
\* hours, also those that wrap midnight, any zone and any number of processes.
THEOREM NightsAreQuiet == Spec => []NightIsQuiet
<1> QED
  BY InitNInv, NextNInv, NInvQuiet, PTL DEF Spec
-----------------------------------------------------------------------------
(***************************************************************************)
(* Places in a log: the greatest of some, the newest n of them.            *)
(***************************************************************************)
LEMMA Greatest ==
  ASSUME NEW b \in Nat, NEW S \in SUBSET (0..b), S # {}
  PROVE  Max(S) \in S /\ \A m \in S : m <= Max(S)
<1> DEFINE D == {d \in 0..b : b - d \in S}
<1>1. D \in SUBSET Nat /\ D # {}
  <2>1. PICK n \in S : TRUE
    OBVIOUS
  <2>2. b - n \in 0..b /\ b - (b - n) = n
    OBVIOUS
  <2> QED  BY <2>1, <2>2
<1>2. Min(D) \in D /\ \A e \in D : Min(D) <= e
  BY <1>1, Least
<1> DEFINE d == Min(D)
<1>3. b - d \in S /\ d \in 0..b
  BY <1>2
<1>4. \A e \in D : d <= e
  BY <1>2
<1> HIDE DEF d
<1>5. \A m \in S : m <= b - d
  <2> SUFFICES ASSUME NEW m \in S PROVE m <= b - d
    OBVIOUS
  <2>1. b - m \in 0..b /\ b - (b - m) = m
    OBVIOUS
  <2>2. b - m \in D
    BY <2>1
  <2> QED  BY <1>3, <1>4, <2>1, <2>2
<1>6. \E n \in S : \A m \in S : m <= n
  BY <1>3, <1>5
<1> QED  BY <1>6 DEF Max

LEMMA Counted ==
  ASSUME NEW b \in Nat, NEW S \in SUBSET (0..b)
  PROVE  IsFiniteSet(S) /\ Cardinality(S) \in Nat
         /\ \A T \in SUBSET S : IsFiniteSet(T) /\ Cardinality(T) \in Nat
                                /\ Cardinality(T) <= Cardinality(S)
<1>1. S \in SUBSET Nat /\ \A s \in S : s <= b
  OBVIOUS
<1>2. IsFiniteSet(S)
  BY <1>1, FS_BoundedSetOfNaturals
<1> QED  BY <1>2, FS_Subset, FS_CardinalityType

\* What is not among the newest n is older than all of them, and they are n.
LEMMA NewestOfMany ==
  ASSUME NEW b \in Nat, NEW S \in SUBSET (0..b), NEW n \in Nat,
         NEW i \in S, i \notin Newest(S, n)
  PROVE  /\ \A j \in Newest(S, n) : i < j
         /\ Cardinality(Newest(S, n)) >= n
<1> DEFINE After(j) == {k \in S : k > j}
<1>0. n # 0
  BY DEF Newest
<1>1. \A j \in S : After(j) \in SUBSET S /\ IsFiniteSet(After(j)) /\ Cardinality(After(j)) \in Nat
  BY Counted
<1>2. Newest(S, n) = {j \in S : Cardinality(After(j)) < n}
  BY <1>0 DEF Newest
<1> HIDE DEF After
<1>3. ASSUME NEW j \in Newest(S, n) PROVE i < j
  <2>0. j \in S /\ j \in Int /\ i \in Int
    <3>1. j \in S
      BY <1>2, <1>3
    <3> QED  BY <3>1
  <2> SUFFICES ASSUME j <= i PROVE FALSE
    BY <2>0
  <2>1. j \in S /\ Cardinality(After(j)) < n /\ ~(Cardinality(After(i)) < n)
    BY <1>2, <1>3
  <2>2. After(i) \in SUBSET After(j)
    <3> SUFFICES ASSUME NEW k \in S, k > i PROVE k > j
      BY DEF After
    <3>1. k \in Int /\ i \in Int /\ j \in Int
      BY <2>1
    <3> QED  BY <3>1
  <2>3. Cardinality(After(i)) <= Cardinality(After(j))
    <3>1. IsFiniteSet(After(j))
      BY <1>1, <2>1
    <3> QED  BY <2>2, <3>1, FS_Subset
  <2> QED  BY <1>1, <2>1, <2>3
<1>4. Cardinality(Newest(S, n)) >= n
  <2> DEFINE O == S \ Newest(S, n)
             m == Max(O)
  <2>1. O \in SUBSET (0..b) /\ O # {}
    OBVIOUS
  <2> HIDE DEF O
  <2>2. m \in O /\ \A k \in O : k <= m
    BY <2>1, Greatest
  <2> HIDE DEF m
  <2>3. m \in S /\ ~(Cardinality(After(m)) < n)
    BY <1>2, <2>2 DEF O
  <2>4. After(m) \in SUBSET Newest(S, n)
    <3> SUFFICES ASSUME NEW k \in S, k > m PROVE k \notin O
      BY DEF After, O
    <3>1. k \in Int /\ m \in Int
      BY <2>3
    <3> QED  BY <2>2, <3>1
  <2>5. Newest(S, n) \in SUBSET S
    BY <1>2
  <2>6. /\ Cardinality(After(m)) <= Cardinality(Newest(S, n))
        /\ Cardinality(Newest(S, n)) \in Nat
    <3>1. Newest(S, n) \in SUBSET (0..b)
      BY <2>5
    <3> QED  BY <2>4, <3>1, Counted
  <2> QED  BY <1>1, <2>3, <2>6
<1> QED  BY <1>3, <1>4

-----------------------------------------------------------------------------
(***************************************************************************)
(* The log: who wrote what, in which order.                                *)
(***************************************************************************)
InOrder ==
  \A i, j \in DOMAIN log :
    i < j /\ IsMessage(log[i]) /\ IsMessage(log[j]) => log[i].at <= log[j].at

Dated ==
  /\ Logged /\ setup \in Setups /\ now \in Nat \ {0}
  /\ \A i \in DOMAIN log : /\ log[i].at \in 1..now
                           /\ IsOutreach(log[i]) => log[i].by \in Crew

Told == Dated /\ InOrder

LEMMA Places ==
  ASSUME Logged
  PROVE  DOMAIN log \in SUBSET (0..Len(log)) /\ Len(log) \in Nat
         /\ DOMAIN log = 1..Len(log)
BY DEF Logged

\* After a message of a chain that users can only break by writing, none of the
\* messages is the user's.
LEMMA ChainUnbroken ==
  ASSUME Told, NEW i \in Chain({"message"}), NEW j \in DOMAIN log, i < j,
         IsMessage(log[j])
  PROVE  ~ByUser(log[j])
<1> SUFFICES ASSUME ByUser(log[j]) PROVE FALSE
  OBVIOUS
<1>1. i \in DOMAIN log /\ IsMessage(log[i])
  BY DEF Chain, Outreaches, IsOutreach
<1>2. log[j].at < log[i].at
  BY DEF Chain, IsMessage
<1>3. log[i].at <= log[j].at
  BY <1>1 DEF Told, InOrder
<1>4. log[i].at \in Nat /\ log[j].at \in Nat
  BY <1>1 DEF Told, Dated
<1> QED  BY <1>2, <1>3, <1>4

-----------------------------------------------------------------------------
(***************************************************************************)
(* What a gate saw when it said yes.                                       *)
(***************************************************************************)
Spoken(kinds, A) == {i \in Chain(kinds) : log[i].by \in A}

LEMMA CrowdCounted ==
  ASSUME Told
  PROVE  IsFiniteSet(Crowd) /\ Cardinality(Crowd) \in Nat
<1>1. DOMAIN log \in SUBSET (0..Len(log)) /\ Len(log) \in Nat
  BY Places DEF Told, Dated
<1>2. Crowd \in SUBSET (0..Len(log))
  BY <1>1 DEF Crowd, Chatter, Messages
<1> QED  BY <1>1, <1>2, Counted

\* A window that has room for the crew's cap beside the agents' talk holds the whole
\* chain: what is newer than a message of the chain is chain or talk.
LEMMA BackoffSees ==
  ASSUME Told, NEW g, NEW r, NEW t, Backoff(g, r, t).allowed,
         g.kind = "backoff", HasRoom(g), g.crewCap \in Nat, g.window \in Nat
  PROVE  Chain({"message"}) \in SUBSET UnansweredProactive(Newest(Messages, g.window))
<1> DEFINE C == Chain({"message"})
           W == Newest(Messages, g.window)
           seen == UnansweredProactive(W)
<1>1. ~(Cardinality(seen) >= g.crewCap)
  BY DEF Backoff, Denied
<1>2. /\ Len(log) \in Nat /\ DOMAIN log \in SUBSET (0..Len(log))
      /\ W \in SUBSET Messages /\ Messages \in SUBSET DOMAIN log
      /\ C \in SUBSET Messages /\ seen \in SUBSET W
  BY Places DEF Told, Dated, Newest, Messages, UnansweredProactive, Chain, Outreaches,
                IsOutreach
<1>3. ASSUME NEW i \in C, \A j \in W : i < j PROVE W \in SUBSET (seen \cup Crowd)
  <2> SUFFICES ASSUME NEW j \in W, j \notin seen PROVE j \in Crowd
    OBVIOUS
  <2>1. \A k \in Messages : k \in DOMAIN log /\ k \in Nat /\ i \in Nat /\ IsMessage(log[k])
    BY <1>2 DEF Messages
  <2>2. \A k \in Messages : k = j \/ k > j => ~ByUser(log[k])
    <3> SUFFICES ASSUME NEW k \in Messages, k = j \/ k > j PROVE ~ByUser(log[k])
      OBVIOUS
    <3>1. i < k
      BY <1>2, <1>3, <2>1
    <3> QED  BY <2>1, <3>1, ChainUnbroken
  <2>3. ~IsOutreach(log[j])
    BY <1>2, <2>2 DEF UnansweredProactive, ByUser
  <2> QED  BY <1>2, <2>2, <2>3 DEF Crowd, Chatter
<1>4. C \in SUBSET W
  <2> SUFFICES ASSUME NEW i \in C, i \notin W PROVE FALSE
    OBVIOUS
  <2>1. (\A j \in W : i < j) /\ Cardinality(W) >= g.window
    BY <1>2, NewestOfMany
  <2>2. W \in SUBSET (seen \cup Crowd)
    BY <1>3, <2>1
  <2>3. g.window # 0
    BY <1>2 DEF Newest
  <2>4. g.crewCap + Cardinality(Crowd) <= g.window
    BY <2>3 DEF HasRoom
  <2> HIDE DEF W, seen
  <2>5. IsFiniteSet(seen) /\ Cardinality(seen) \in Nat /\ Cardinality(W) \in Nat
    <3>1. seen \in SUBSET (0..Len(log)) /\ W \in SUBSET (0..Len(log))
      BY <1>2
    <3> QED  BY <1>2, <3>1, Counted
  <2>6. IsFiniteSet(Crowd) /\ Cardinality(Crowd) \in Nat
    BY CrowdCounted
  <2>7. /\ IsFiniteSet(seen \cup Crowd) /\ IsFiniteSet(seen \cap Crowd)
        /\ Cardinality(seen \cup Crowd)
             = Cardinality(seen) + Cardinality(Crowd) - Cardinality(seen \cap Crowd)
    BY <2>5, <2>6, FS_Union, FS_Intersection
  <2>8. /\ Cardinality(seen \cup Crowd) \in Nat /\ Cardinality(seen \cap Crowd) \in Nat
        /\ Cardinality(W) <= Cardinality(seen \cup Crowd)
    BY <2>2, <2>7, FS_CardinalityType, FS_Subset
  <2> QED  BY <1>1, <2>1, <2>4, <2>5, <2>6, <2>7, <2>8
<1> SUFFICES ASSUME NEW i \in C PROVE i \in seen
  OBVIOUS
<1>5. i \in W /\ IsOutreach(log[i])
  BY <1>4 DEF Chain, Outreaches
<1>6. \A k \in W : k > i => log[k].by # User
  BY <1>2, ChainUnbroken DEF Messages, ByUser
<1> QED  BY <1>5, <1>6 DEF UnansweredProactive

\* So its caps are caps of the chain.
LEMMA BackoffCaps ==
  ASSUME Told, NEW g, NEW r, NEW t, Backoff(g, r, t).allowed,
         g.kind = "backoff", HasRoom(g), g.crewCap \in Nat, g.window \in Nat,
         g.authorCap \in Nat
  PROVE  /\ Cardinality(Chain({"message"})) < g.crewCap
         /\ g.authorCap # 0 =>
              Cardinality(Spoken({"message"}, {setup.actor[r]})) < g.authorCap
<1> DEFINE C == Chain({"message"})
           seen == UnansweredProactive(Newest(Messages, g.window))
           mine == {i \in seen : log[i].by = setup.actor[r]}
           O == Spoken({"message"}, {setup.actor[r]})
<1>1. /\ ~(Cardinality(seen) >= g.crewCap)
      /\ g.authorCap # 0 => ~(Cardinality(mine) >= g.authorCap)
  BY DEF Backoff, Denied
<1>2. Len(log) \in Nat /\ seen \in SUBSET (0..Len(log)) /\ mine \in SUBSET seen
  BY Places DEF Told, Dated, Newest, Messages, UnansweredProactive
<1>3. C \in SUBSET seen
  BY BackoffSees
<1>4. O \in SUBSET mine
  BY <1>3 DEF Spoken
<1> HIDE DEF C, O, seen, mine
<1>5. mine \in SUBSET (0..Len(log))
  BY <1>2
<1>6. /\ Cardinality(C) <= Cardinality(seen) /\ Cardinality(C) \in Nat
      /\ Cardinality(seen) \in Nat
  BY <1>2, <1>3, Counted
<1>7. /\ Cardinality(O) <= Cardinality(mine) /\ Cardinality(O) \in Nat
      /\ Cardinality(mine) \in Nat
  BY <1>2, <1>4, <1>5, Counted
<1>8. Cardinality(C) < g.crewCap
  BY <1>1, <1>6
<1>9. g.authorCap # 0 => Cardinality(O) < g.authorCap
  BY <1>1, <1>7
<1> QED  BY <1>8, <1>9 DEF C, O

-----------------------------------------------------------------------------
(***************************************************************************)
(* The ladder.                                                             *)
(***************************************************************************)
LEMMA TriesGrow ==
  ASSUME NEW rungs, NEW n \in Nat, NEW k \in 0..n,
         \A i \in 1..n : rungs[i].tries \in Nat
  PROVE  /\ Tries(rungs, k) \in Nat /\ Tries(rungs, n) \in Nat
         /\ Tries(rungs, k) <= Tries(rungs, n)
<1> DEFINE Block(i) == {i} \X (1..rungs[i].tries)
           S == {Block(i) : i \in 1..n}
           T == {Block(i) : i \in 1..k}
<1>1. IsFiniteSet(S)
  <2> DEFINE f == [i \in 1..n |-> Block(i)]
  <2>1. f \in Surjection(1..n, S)
    BY DEF Surjection
  <2>2. IsFiniteSet(1..n)
    <3>1. 1 \in Int /\ n \in Int
      OBVIOUS
    <3> QED  BY <3>1, FS_Interval, Zenon
  <2> QED  BY <2>1, <2>2, FS_Surjection
<1>2. \A B \in S : IsFiniteSet(B)
  <2> SUFFICES ASSUME NEW i \in 1..n PROVE IsFiniteSet(Block(i))
    OBVIOUS
  <2>1. 1 \in Int /\ rungs[i].tries \in Int
    OBVIOUS
  <2>2. IsFiniteSet(1..rungs[i].tries)
    BY <2>1, FS_Interval, Zenon
  <2> QED  BY <2>2, FS_Singleton, FS_Product, Zenon
<1>3. T \in SUBSET S
  OBVIOUS
<1>4. Tries(rungs, k) = Cardinality(UNION T) /\ Tries(rungs, n) = Cardinality(UNION S)
  BY DEF Tries
<1> HIDE DEF S, T
<1>5. IsFiniteSet(UNION S) /\ UNION T \in SUBSET (UNION S)
  BY <1>1, <1>2, <1>3, FS_UNION
<1> QED  BY <1>4, <1>5, FS_Subset, FS_CardinalityType

LEMMA TriesTotal ==
  ASSUME NEW g, Len(g.rungs) \in Nat, \A k \in 1..Len(g.rungs) : g.rungs[k].tries \in Nat
  PROVE  /\ FiniteTries(g) \in Nat
         /\ \A k \in 1..Len(g.rungs) :
              Tries(g.rungs, k) \in Nat /\ Tries(g.rungs, k) <= FiniteTries(g)
<1>1. \A k \in 0..Len(g.rungs) :
        /\ Tries(g.rungs, k) \in Nat /\ Tries(g.rungs, Len(g.rungs)) \in Nat
        /\ Tries(g.rungs, k) <= Tries(g.rungs, Len(g.rungs))
  BY TriesGrow
<1>2. Len(g.rungs) \in 0..Len(g.rungs) /\ \A k \in 1..Len(g.rungs) : k \in 0..Len(g.rungs)
  OBVIOUS
<1> QED  BY <1>1, <1>2 DEF FiniteTries

\* What the ladder counts, how long it waits then, and when that is over.
Unanswered(g) ==
  {i \in Newest(Outreaches, FiniteTries(g) + 1) : log[i].at > Presence(g)}
Wait(g) == WaitFor(g, Cardinality(Unanswered(g)))
Due(g) == Max({log[i].at : i \in Unanswered(g)}) + Wait(g)
Landing(g) ==
  IF ~g.daily \/ InHours(Hour(Due(g)), g.hours) THEN Due(g)
                                               ELSE AtHour(g.hours.start, Due(g))

LEMMA CadenceInSteps ==
  ASSUME NEW g, NEW t
  PROVE  Cadence(g, t) =
           IF Unanswered(g) = {} THEN Clear
           ELSE IF Wait(g) = 0 \/ (g.daily /\ setup.zone = NoZone) THEN Denied(0)
           ELSE IF t < Landing(g) THEN Denied(Bounded(g, Landing(g), t))
           ELSE IF g.daily /\ ~InHours(Hour(t), g.hours)
             THEN Denied(Bounded(g, AtHour(g.hours.start, t), t))
           ELSE Clear
BY DEF Cadence, Unanswered, Wait, Due, Landing

\* The wait is that of a rung that covers the count.
LEMMA WaitOfRung ==
  ASSUME NEW g, NEW n, WaitFor(g, n) # 0,
         DOMAIN g.rungs = 1..Len(g.rungs), Len(g.rungs) \in Nat
  PROVE  \E k \in 1..Len(g.rungs) :
           /\ g.rungs[k].tries = 0 \/ n <= Tries(g.rungs, k)
           /\ WaitFor(g, n) = g.rungs[k].every
<1> DEFINE rungs == {k \in DOMAIN g.rungs : g.rungs[k].tries = 0 \/ n <= Tries(g.rungs, k)}
<1>1. rungs # {} /\ WaitFor(g, n) = g.rungs[Min(rungs)].every
  BY DEF WaitFor
<1>2. rungs \in SUBSET Nat
  OBVIOUS
<1>3. Min(rungs) \in rungs
  <2> HIDE DEF rungs
  <2> QED  BY <1>1, <1>2, Least
<1> QED  BY <1>1, <1>3

\* The ladder's wait covers the chain, and what is unanswered is as new as it.
LEMMA CadenceSees ==
  ASSUME Told, NEW g, NEW t, Cadence(g, t).allowed,
         DOMAIN g.rungs = 1..Len(g.rungs), Len(g.rungs) \in Nat,
         \A k \in 1..Len(g.rungs) : g.rungs[k].tries \in Nat,
         Chain(g.presence) # {}
  PROVE  /\ Unanswered(g) # {} /\ Wait(g) # 0
         /\ \A i \in Chain(g.presence) : \E j \in Unanswered(g) : log[i].at <= log[j].at
         /\ \E k \in 1..Len(g.rungs) :
              /\ Wait(g) = g.rungs[k].every
              /\ \/ g.rungs[k].tries = 0
                 \/ Cardinality(Chain(g.presence)) <= Tries(g.rungs, k)
<1> DEFINE C == Chain(g.presence)
           n == FiniteTries(g) + 1
           sent == Newest(Outreaches, n)
           shown == {i \in DOMAIN log : log[i].by = User /\ log[i].kind \in g.presence}
           cutoff == Presence(g)
           U == Unanswered(g)
<1>1. U = {} \/ Wait(g) # 0
  BY CadenceInSteps DEF Denied
<1>2. /\ FiniteTries(g) \in Nat /\ \A k \in 1..Len(g.rungs) :
         Tries(g.rungs, k) \in Nat /\ Tries(g.rungs, k) <= FiniteTries(g)
  BY TriesTotal
<1>3. n \in Nat /\ n > FiniteTries(g) /\ n > 0
  BY <1>2
<1> HIDE DEF n
<1>4. /\ Len(log) \in Nat /\ DOMAIN log \in SUBSET (0..Len(log))
      /\ sent \in SUBSET Outreaches /\ Outreaches \in SUBSET DOMAIN log
      /\ C \in SUBSET Outreaches /\ U \in SUBSET sent
      /\ U = {i \in sent : log[i].at > cutoff}
  BY Places DEF Told, Dated, Newest, Outreaches, Chain, Unanswered, n
<1>5. \A i \in DOMAIN log : log[i].at \in 1..now /\ log[i].at \in Nat /\ now \in Nat
  BY DEF Told, Dated
<1>6. cutoff \in {0} \cup {log[i].at : i \in shown}
  <2> DEFINE T == {0} \cup {log[i].at : i \in shown}
  <2>1. T \in SUBSET (0..now) /\ T # {} /\ now \in Nat
    BY <1>5 DEF Told, Dated
  <2>2. cutoff = Max(T)
    BY DEF Presence
  <2> HIDE DEF T, cutoff
  <2>3. cutoff \in T
    BY <2>1, <2>2, Greatest
  <2> QED  BY <2>3 DEF T
<1>7. cutoff \in Nat
  BY <1>5, <1>6
<1>8. ASSUME NEW i \in C PROVE log[i].at > cutoff
  <2>1. log[i].at > 0
    BY <1>4, <1>5
  <2>2. \A k \in shown : log[k].at < log[i].at
    BY DEF Chain, ByUser
  <2> QED  BY <1>4, <1>5, <1>6, <2>1, <2>2
<1> HIDE DEF cutoff, sent, U, shown
<1>9. ASSUME NEW i \in C, i \notin sent
      PROVE  /\ U = sent /\ sent # {} /\ Cardinality(sent) >= n
             /\ \A j \in sent : log[i].at <= log[j].at
  <2>1. (\A j \in sent : i < j) /\ Cardinality(sent) >= n
    BY <1>3, <1>4, <1>9, NewestOfMany DEF sent
  <2>2. \A j \in sent : log[i].at <= log[j].at
    <3> SUFFICES ASSUME NEW j \in sent PROVE log[i].at <= log[j].at
      OBVIOUS
    <3>1. /\ i \in DOMAIN log /\ j \in DOMAIN log /\ i < j
          /\ IsMessage(log[i]) /\ IsMessage(log[j])
      BY <1>4, <2>1 DEF Outreaches, IsOutreach
    <3> QED  BY <3>1 DEF Told, InOrder
  <2>3. \A j \in sent : log[j].at > cutoff
    <3> SUFFICES ASSUME NEW j \in sent PROVE log[j].at > cutoff
      OBVIOUS
    <3>1. log[i].at \in Nat /\ log[j].at \in Nat
      BY <1>4, <1>5
    <3>2. log[i].at > cutoff /\ log[i].at <= log[j].at
      BY <1>8, <2>2
    <3> QED  BY <1>7, <3>1, <3>2
  <2>4. sent # {}
    <3>1. Cardinality({}) = 0
      BY FS_EmptySet
    <3>2. ASSUME sent = {} PROVE FALSE
      <4>1. Cardinality(sent) = 0
        BY <3>1, <3>2, Zenon
      <4> QED  BY <1>3, <2>1, <4>1
    <3> QED  BY <3>2
  <2> QED  BY <1>4, <2>1, <2>2, <2>3, <2>4
<1>10. \A i \in C : \E j \in U : log[i].at <= log[j].at
  <2> SUFFICES ASSUME NEW i \in C PROVE \E j \in U : log[i].at <= log[j].at
    OBVIOUS
  <2>1. CASE i \notin sent
    BY <1>9, <2>1
  <2>2. CASE i \in sent
    <3>1. i \in U /\ log[i].at \in Nat
      BY <1>4, <1>5, <1>8, <2>2
    <3> QED  BY <3>1
  <2> QED  BY <2>1, <2>2
<1>11. U # {} /\ Wait(g) # 0
  BY <1>1, <1>10
<1>12. /\ U \in SUBSET (0..Len(log)) /\ Cardinality(U) \in Nat
       /\ Cardinality(C) \in Nat /\ (C \in SUBSET U => Cardinality(C) <= Cardinality(U))
  <2>1. U \in SUBSET (0..Len(log)) /\ C \in SUBSET (0..Len(log))
    BY <1>4
  <2> HIDE DEF C
  <2> QED  BY <1>4, <2>1, Counted
<1>13. PICK k \in 1..Len(g.rungs) :
         /\ g.rungs[k].tries = 0 \/ Cardinality(U) <= Tries(g.rungs, k)
         /\ Wait(g) = g.rungs[k].every
  BY <1>11, WaitOfRung DEF Wait, U
<1>14. g.rungs[k].tries = 0 \/ Cardinality(C) <= Tries(g.rungs, k)
  <2>1. CASE C \in SUBSET sent
    <3>1. C \in SUBSET U
      BY <1>4, <1>8, <2>1
    <3> HIDE DEF C
    <3> QED  BY <1>2, <1>12, <1>13, <3>1
  <2>2. ASSUME NEW i \in C, i \notin sent PROVE g.rungs[k].tries = 0
    <3>1. Cardinality(U) >= n
      BY <1>9, <2>2
    <3>2. Tries(g.rungs, k) \in Nat /\ Tries(g.rungs, k) <= FiniteTries(g)
      BY <1>2
    <3>3. ~(Cardinality(U) <= Tries(g.rungs, k))
      BY <1>2, <1>3, <1>12, <3>1, <3>2
    <3> QED  BY <1>13, <3>3
  <2> QED  BY <2>1, <2>2
<1> QED  BY <1>10, <1>11, <1>13, <1>14 DEF U

\* A ladder of counted rungs says yes only while its tries last.
LEMMA CadenceCaps ==
  ASSUME Told, NEW g, NEW t, Cadence(g, t).allowed,
         g.rungs \in Seq(Range(g.rungs)),
         \A k \in DOMAIN g.rungs : g.rungs[k].tries \in Nat \ {0}
  PROVE  /\ FiniteTries(g) \in Nat
         /\ Cardinality(Chain(g.presence)) <= FiniteTries(g)
<1> DEFINE C == Chain(g.presence)
           m == Cardinality(C)
<1>1. /\ DOMAIN g.rungs = 1..Len(g.rungs) /\ Len(g.rungs) \in Nat
      /\ \A k \in 1..Len(g.rungs) : g.rungs[k].tries \in Nat /\ g.rungs[k].tries # 0
  OBVIOUS
<1>2. /\ FiniteTries(g) \in Nat /\ \A k \in 1..Len(g.rungs) :
         Tries(g.rungs, k) \in Nat /\ Tries(g.rungs, k) <= FiniteTries(g)
  BY <1>1, TriesTotal
<1>3. m \in Nat
  <2>1. Len(log) \in Nat /\ C \in SUBSET (0..Len(log))
    BY Places DEF Told, Dated, Chain, Outreaches
  <2> HIDE DEF C
  <2> QED  BY <2>1, Counted
<1>4. CASE C = {}
  <2>1. Cardinality({}) = 0
    BY FS_EmptySet
  <2> HIDE DEF C
  <2>2. m = 0
    BY <1>4, <2>1, Zenon
  <2> QED  BY <1>2, <1>3, <2>2 DEF C
<1>5. CASE C # {}
  <2>1. PICK k \in 1..Len(g.rungs) : g.rungs[k].tries = 0 \/ m <= Tries(g.rungs, k)
    BY <1>1, <1>5, CadenceSees
  <2> HIDE DEF m
  <2>2. m <= FiniteTries(g)
    BY <1>1, <1>2, <1>3, <2>1
  <2> QED  BY <1>2, <2>2 DEF m
<1> QED  BY <1>4, <1>5

-----------------------------------------------------------------------------
(***************************************************************************)
(* Steps, as far as the log is concerned.                                  *)
(***************************************************************************)
\* The log grows by N, places after all others.
Grows(N) ==
  /\ Logged' /\ setup' = setup
  /\ DOMAIN log' = DOMAIN log \cup N
  /\ \A n \in N : n \in Nat /\ \A i \in DOMAIN log : i < n
  /\ \A i \in DOMAIN log : log'[i] = log[i]

LEMMA OneMore ==
  ASSUME Logged, setup' = setup, NEW e, log' = Append(log, e)
  PROVE  /\ Grows({Len(log) + 1}) /\ log'[Len(log) + 1] = e
<1>1. PICK S : log \in Seq(S)
  BY DEF Logged
<1>2. Logged'
  BY <1>1, RangeOfAppend DEF Logged
<1>3. /\ Len(log) \in Nat /\ DOMAIN log = 1..Len(log)
      /\ DOMAIN log' = 1..(Len(log) + 1)
      /\ log'[Len(log) + 1] = e /\ \A i \in 1..Len(log) : log'[i] = log[i]
  <2> DEFINE T == S \cup {e}
  <2>1. log \in Seq(T) /\ e \in T
    BY <1>1
  <2> HIDE DEF T
  <2> QED  BY <2>1
<1> QED  BY <1>2, <1>3 DEF Grows

\* What is recorded keeps the log in order.
LEMMA Tells ==
  ASSUME Told, NEW N, Grows(N), now' \in Nat, now <= now',
         \A n \in N : /\ log'[n].at \in 1..now'
                      /\ IsMessage(log'[n]) => log'[n].at = now'
                      /\ IsOutreach(log'[n]) => log'[n].by \in Crew
  PROVE  Told'
<1>1. /\ DOMAIN log' = DOMAIN log \cup N
      /\ \A i \in DOMAIN log : log'[i] = log[i] /\ i \in Nat
      /\ \A n \in N : n \in Nat /\ \A i \in DOMAIN log : i < n
      /\ now \in Nat /\ setup' = setup /\ Logged' /\ Crew' = Crew
  BY Places DEF Grows, Told, Dated, Crew
<1>2. \A i \in DOMAIN log' : /\ log'[i].at \in 1..now'
                             /\ IsOutreach(log'[i]) => log'[i].by \in Crew
  BY <1>1 DEF Told, Dated
<1>3. Dated'
  BY <1>1, <1>2 DEF Told, Dated
<1>4. InOrder'
  <2> SUFFICES ASSUME NEW i \in DOMAIN log', NEW j \in DOMAIN log', i < j,
                      IsMessage(log'[i]), IsMessage(log'[j])
               PROVE  log'[i].at <= log'[j].at
    BY DEF InOrder
  <2>1. CASE j \in N
    BY <1>1, <1>2, <2>1
  <2>2. CASE j \notin N
    <3>1. i \in DOMAIN log /\ j \in DOMAIN log
      BY <1>1, <2>2
    <3> QED  BY <1>1, <3>1 DEF Told, InOrder
  <2> QED  BY <2>1, <2>2
<1> QED  BY <1>3, <1>4 DEF Told

LEMMA InitTold == Init => Told
<1> SUFFICES ASSUME Init PROVE Told
  OBVIOUS
<1>1. log \in Seq({}) /\ DOMAIN log = {} /\ setup \in Setups /\ now = 1
  BY DEF Init
<1> QED  BY <1>1 DEF Told, Dated, Logged, InOrder

\* A firing says a line.
Speech == \E r \in Rhythm : \E a \in setup.cast[r] : Speak(r, a)

\* A step records nothing or one event, dated now when it is a message, and outreach
\* only when a firing speaks.
LEMMA StepRecords ==
  ASSUME Told, [Next]_vars
  PROVE  /\ setup' = setup /\ now' \in Nat /\ now <= now'
         /\ \/ log' = log /\ ~Speech
            \/ \E e : /\ log' = Append(log, e) /\ now' = now /\ e.at \in 1..now
                      /\ IsMessage(e) \/ ~ByUser(e) => e.at = now
                      /\ IsOutreach(e) => e.by \in Crew /\ Speech
<1>1. setup' = setup
  BY SetupStays
<1>2. now \in Nat /\ now > 0 /\ now + 1 \in Nat /\ now \in 1..now
  BY DEF Told, Dated
<1>3. CASE Speech
  <2>0. PICK r \in Rhythm : \E a \in setup.cast[r] : Speak(r, a)
    BY <1>3 DEF Speech
  <2>1. PICK a \in setup.cast[r] : Speak(r, a)
    BY <2>0
  <2>2. a \in Crew
    <3>1. setup \in Setups /\ DOMAIN setup.cast = Rhythm
      BY SetupAssumption DEF Told, Dated
    <3> QED  BY <3>1 DEF Crew, Range
  <2> DEFINE e == [by |-> a, kind |-> "message", proactive |-> TRUE, at |-> now]
  <2>3. log' = Append(log, e) /\ now' = now /\ e.at = now /\ e.by = a
    BY <2>1 DEF Speak, Record
  <2> HIDE DEF e
  <2> QED  BY <1>1, <1>2, <1>3, <2>2, <2>3
<1>4. ASSUME NEW kind, NEW when \in 1..now, Shows(kind, when), kind # "message" \/ when = now,
             ~Speech
      PROVE  \E e : /\ log' = Append(log, e) /\ now' = now /\ e.at \in 1..now
                    /\ IsMessage(e) \/ ~ByUser(e) => e.at = now
                    /\ ~IsOutreach(e)
  <2> DEFINE e == [by |-> User, kind |-> kind, proactive |-> FALSE, at |-> when]
  <2>1. /\ log' = Append(log, e) /\ now' = now /\ e.at = when /\ ~IsOutreach(e)
        /\ IsMessage(e) => kind = "message"
        /\ ByUser(e)
    BY <1>4 DEF Shows, Record, IsOutreach, IsMessage, ByUser
  <2> HIDE DEF e
  <2> QED  BY <1>4, <2>1
<1>5. ASSUME NEW a, AgentTalks(a)
      PROVE  \E e : /\ log' = Append(log, e) /\ now' = now /\ e.at \in 1..now
                    /\ IsMessage(e) \/ ~ByUser(e) => e.at = now
                    /\ ~IsOutreach(e)
  <2> DEFINE e == [by |-> a, kind |-> "message", proactive |-> FALSE, at |-> now]
  <2>1. log' = Append(log, e) /\ now' = now /\ e.at = now /\ ~IsOutreach(e)
    BY <1>5 DEF AgentTalks, Record, IsOutreach
  <2> HIDE DEF e
  <2> QED  BY <1>2, <2>1
<1>6. CASE ~Speech /\ ([Next]_vars)
  <2>1. CASE Advance
    BY <1>1, <1>2, <1>6, <2>1 DEF Advance
  <2>2. CASE UNCHANGED vars
    BY <1>1, <1>2, <1>6, <2>2 DEF vars
  <2>3. CASE UserSpeaks
    BY <1>1, <1>2, <1>4, <1>6, <2>3 DEF UserSpeaks, Shows
  <2>4. ASSUME NEW when \in 1..now, UserActs(when)
        PROVE  \E e : /\ log' = Append(log, e) /\ now' = now /\ e.at \in 1..now
                      /\ IsMessage(e) \/ ~ByUser(e) => e.at = now
                      /\ ~IsOutreach(e)
    BY <1>2, <1>4, <1>6, <2>4 DEF UserActs
  <2>5. ASSUME NEW r \in Rhythm, Claim(r) \/ Deny(r) \/ Pass(r) \/ Finish(r)
        PROVE  log' = log /\ now' = now
    BY <2>5 DEF Claim, Deny, Pass, Finish, End
  <2> QED
    BY <1>1, <1>2, <1>5, <1>6, <2>1, <2>2, <2>3, <2>4, <2>5 DEF Next, Rest, Speech
<1> QED  BY <1>3, <1>6

\* A step records no outreach, or it is a firing that speaks.
Mute == \E N : Grows(N) /\ \A n \in N : ~IsOutreach(log'[n])

LEMMA LogStep ==
  ASSUME Told, [Next]_vars
  PROVE  Told' /\ (Mute \/ Speech)
<1>1. /\ Logged /\ setup' = setup /\ now' \in Nat /\ now <= now'
  BY StepRecords DEF Told, Dated
<1>2. CASE log' = log
  <2>1. Grows({})
    BY <1>1, <1>2 DEF Grows, Logged
  <2> QED  BY <1>1, <2>1, Tells DEF Mute
<1>3. CASE log' # log
  <2>1. PICK e : /\ log' = Append(log, e) /\ now' = now /\ e.at \in 1..now
                 /\ IsMessage(e) => e.at = now
                 /\ IsOutreach(e) => e.by \in Crew /\ Speech
    BY <1>3, StepRecords
  <2> DEFINE n == Len(log) + 1
  <2>2. Grows({n}) /\ log'[n] = e
    BY <1>1, <2>1, OneMore
  <2> HIDE DEF n
  <2>3. Told'
    BY <1>1, <2>1, <2>2, Tells
  <2>4. ~IsOutreach(e) => Mute
    BY <2>2 DEF Mute
  <2> QED  BY <2>1, <2>3, <2>4
<1> QED  BY <1>2, <1>3

\* Talk leaves less and less room in a window, until the user writes, which ends
\* every chain that a BackoffGate looks for.
LEMMA RoomStep ==
  ASSUME Told, [Next]_vars
  PROVE  Chain({"message"})' = {} \/ \A g : HasRoom(g)' /\ {g.crewCap, g.window} \subseteq Nat
                                            => HasRoom(g)
<1>1. Told' /\ setup' = setup
  BY LogStep, SetupStays
<1>2. ASSUME Crowd \in SUBSET Crowd', NEW g, HasRoom(g)', {g.crewCap, g.window} \subseteq Nat
      PROVE  HasRoom(g)
  <2> DEFINE D == Crowd'
  <2>1. DOMAIN log' = 1..Len(log') /\ Len(log') \in Nat
    BY <1>1 DEF Told, Dated, Logged
  <2>2. D \in SUBSET (0..Len(log'))
    BY <2>1 DEF Crowd, Chatter, Messages
  <2>3. IsFiniteSet(Crowd) /\ Cardinality(Crowd) \in Nat
    BY CrowdCounted
  <2> HIDE DEF D
  <2>4. Cardinality(D) \in Nat /\ Cardinality(Crowd) <= Cardinality(D)
    BY <1>2, <2>1, <2>2, Counted DEF D
  <2>5. CASE g.kind = "backoff" /\ g.window # 0
    <3>1. g.crewCap + Cardinality(D) <= g.window
      BY <1>2, <2>5 DEF HasRoom, D
    <3> QED  BY <1>2, <2>3, <2>4, <3>1 DEF HasRoom
  <2> QED  BY <2>5 DEF HasRoom
<1>3. CASE log' = log
  <2>1. Crowd' = Crowd
    BY <1>3 DEF Crowd, Chatter, Messages, ByUser
  <2> QED  BY <1>2, <2>1
<1>4. CASE log' # log
  <2>1. PICK e : /\ log' = Append(log, e) /\ now' = now
                 /\ IsMessage(e) \/ ~ByUser(e) => e.at = now
    BY <1>4, StepRecords
  <2> DEFINE n == Len(log) + 1
  <2>2. Grows({n}) /\ log'[n] = e
    BY <1>1, <2>1, OneMore DEF Told, Dated
  <2> HIDE DEF n
  <2>3. CASE ByUser(e) /\ IsMessage(e)
    <3> SUFFICES ASSUME NEW i \in Chain({"message"})' PROVE FALSE
      OBVIOUS
    <3>1. n \in DOMAIN log' /\ ByUser(log'[n]) /\ log'[n].kind = "message"
          /\ log'[n].at = now
      BY <2>1, <2>2, <2>3 DEF Grows, IsMessage
    <3>2. now < log'[i].at /\ i \in DOMAIN log'
      BY <3>1 DEF Chain, Outreaches
    <3>3. log'[i].at \in 1..now /\ now \in Nat
      BY <1>1, <2>1, <3>2 DEF Told, Dated
    <3> QED  BY <3>2, <3>3
  <2>4. CASE ~(ByUser(e) /\ IsMessage(e))
    <3>1. Crowd \in SUBSET Crowd'
      BY <2>2, <2>4 DEF Grows, Crowd, Chatter, Messages, ByUser
    <3> QED  BY <1>2, <3>1
  <2> QED  BY <2>3, <2>4
<1> QED  BY <1>3, <1>4

-----------------------------------------------------------------------------
(***************************************************************************)
(* What was said of a chain, and what is on its way.                       *)
(***************************************************************************)
\* The lines that firings may still say under the verdict they have.
Waiting(A) ==
  {p \in Rhythm \X (1..setup.lines) :
     cleared[p[1]] /\ said[p[1]] < p[2] /\ setup.cast[p[1]] \cap A # {}}
Own(A) == {r \in Rhythm : setup.cast[r] \cap A # {}}
Load(kinds, A) == Cardinality(Spoken(kinds, A)) + Cardinality(Waiting(A))

Saying == said \in [Rhythm -> Nat]
Slots == Cardinality(Firings) <= setup.processes

AllFinite ==
  /\ \A kinds, A : IsFiniteSet(Spoken(kinds, A)) /\ Cardinality(Spoken(kinds, A)) \in Nat
  /\ \A A : IsFiniteSet(Waiting(A)) /\ Cardinality(Waiting(A)) \in Nat
  /\ \A A : IsFiniteSet(Own(A)) /\ Cardinality(Own(A)) \in Nat
  /\ \A kinds, A : Load(kinds, A) \in Nat
  /\ IsFiniteSet(Firings) /\ Cardinality(Firings) \in Nat

LEMMA Finite == Told => AllFinite
<1> SUFFICES ASSUME Told PROVE AllFinite
  OBVIOUS
<1>1. DOMAIN log \in SUBSET (0..Len(log)) /\ Len(log) \in Nat
  BY Places DEF Told, Dated
<1>2. \A kinds, A : Spoken(kinds, A) \in SUBSET (0..Len(log))
  BY <1>1 DEF Spoken, Chain, Outreaches
<1>3. \A S \in SUBSET Rhythm : IsFiniteSet(S) /\ Cardinality(S) \in Nat
  BY RhythmAssumption, FS_Subset, FS_CardinalityType
<1>4. Firings \in SUBSET Rhythm /\ \A A : Own(A) \in SUBSET Rhythm
  BY DEF Own, Firings
<1>5. \A kinds, A : IsFiniteSet(Spoken(kinds, A)) /\ Cardinality(Spoken(kinds, A)) \in Nat
  BY <1>1, <1>2, Counted
<1>6. \A A : IsFiniteSet(Waiting(A)) /\ Cardinality(Waiting(A)) \in Nat
  <2> DEFINE P == Rhythm \X (1..setup.lines)
  <2>1. setup.lines \in Int /\ 1 \in Int
    BY SetupAssumption DEF Told, Dated
  <2>2. IsFiniteSet(1..setup.lines)
    BY <2>1, FS_Interval, Zenon
  <2>3. IsFiniteSet(P)
    BY <2>2, RhythmAssumption, FS_Product, Zenon
  <2>4. \A A : Waiting(A) \in SUBSET P
    BY DEF Waiting
  <2> HIDE DEF P
  <2> QED  BY <2>3, <2>4, FS_Subset, FS_CardinalityType
<1>7. \A kinds, A : Load(kinds, A) \in Nat
  BY <1>5, <1>6 DEF Load
<1> QED  BY <1>3, <1>4, <1>5, <1>6, <1>7 DEF AllFinite

LEMMA LinesCounted ==
  ASSUME NEW R \in SUBSET Rhythm, NEW lines \in Nat, NEW n \in Nat, Cardinality(R) <= n,
         NEW S \in SUBSET (R \X (1..lines))
  PROVE  Cardinality(S) <= n * lines
<1> DEFINE P == R \X (1..lines)
           c == Cardinality(R)
<1>1. IsFiniteSet(R) /\ c \in Nat
  BY RhythmAssumption, FS_Subset, FS_CardinalityType
<1>2. 1 \in Int /\ lines \in Int
  OBVIOUS
<1>3. IsFiniteSet(1..lines) /\ Cardinality(1..lines) = lines
  BY <1>2, FS_Interval
<1>4. IsFiniteSet(P) /\ Cardinality(P) = c * lines
  BY <1>1, <1>3, FS_Product
<1> HIDE DEF P
<1>5. Cardinality(S) <= Cardinality(P) /\ IsFiniteSet(S)
  BY <1>4, FS_Subset DEF P
<1>6. Cardinality(S) \in Nat
  BY <1>5, FS_CardinalityType
<1> DEFINE d == n - c
<1>7. d \in Nat /\ n = c + d
  BY <1>1
<1> HIDE DEF c, d
<1>8. n * lines = c * lines + d * lines /\ d * lines \in Nat /\ c * lines \in Nat
  BY <1>1, <1>7
<1> QED  BY <1>4, <1>5, <1>6, <1>8

\* No more than every process all the lines of a script; of some authors no more
\* than all the lines of the rhythms that may cast them.
FewWaiting ==
  /\ Reach \in Nat /\ Reach > 0
  /\ \A A : /\ Cardinality(Waiting(A)) <= Reach
            /\ Cardinality(Waiting(A)) <= Cardinality(Own(A)) * setup.lines

LEMMA FewAreWaiting == NInv /\ Told /\ Slots => FewWaiting
<1> SUFFICES ASSUME NInv, Told, Slots PROVE FewWaiting
  OBVIOUS
<1>1. setup.processes \in Nat /\ setup.processes > 0 /\ setup.lines \in Nat /\ setup.lines > 0
  BY SetupAssumption DEF Told, Dated
<1>2. Reach \in Nat /\ Reach > 0
  <2> DEFINE n == setup.processes
             m == setup.lines
  <2>1. n \in Nat /\ n > 0 /\ m \in Nat /\ m > 0
    BY <1>1
  <2> HIDE DEF n, m
  <2>2. n * m \in Nat /\ n * m >= 1 * m
    BY <2>1
  <2>3. n * m > 0
    BY <2>1, <2>2
  <2> QED  BY <2>2, <2>3 DEF Reach, n, m
<1> SUFFICES ASSUME NEW A
             PROVE  /\ Cardinality(Waiting(A)) <= Reach
                    /\ Cardinality(Waiting(A)) <= Cardinality(Own(A)) * setup.lines
  BY <1>2 DEF FewWaiting
<1>3. \A r \in Rhythm : cleared[r] => at[r] # 0
  BY DEF NInv, Rested
<1>4. /\ Waiting(A) \in SUBSET (Firings \X (1..setup.lines)) /\ Firings \in SUBSET Rhythm
      /\ Waiting(A) \in SUBSET (Own(A) \X (1..setup.lines)) /\ Own(A) \in SUBSET Rhythm
  BY <1>3 DEF Waiting, Firings, Own
<1>5. Cardinality(Own(A)) \in Nat /\ Cardinality(Own(A)) <= Cardinality(Own(A))
  BY Finite DEF AllFinite
<1>6. Cardinality(Waiting(A)) <= Reach
  BY <1>1, <1>4, LinesCounted DEF Slots, Reach
<1>7. Cardinality(Waiting(A)) <= Cardinality(Own(A)) * setup.lines
  BY <1>1, <1>4, <1>5, LinesCounted
<1> QED  BY <1>6, <1>7

\* Outreach is by the crew.
LEMMA ChainIsSpoken ==
  ASSUME Told PROVE \A kinds : Spoken(kinds, Crew) = Chain(kinds)
BY DEF Told, Dated, Spoken, Chain, Outreaches

\* A line that is said was waiting.
LEMMA SpokenWaits ==
  ASSUME Told, Saying, NEW r \in Rhythm, NEW a \in setup.cast[r], Speak(r, a), NEW A
  PROVE  /\ Waiting(A)' \in SUBSET Waiting(A)
         /\ a \in A => Cardinality(Waiting(A)') = Cardinality(Waiting(A)) - 1
<1> DEFINE W == Waiting(A)
           p == <<r, said[r] + 1>>
<1>1. /\ setup' = setup /\ cleared' = cleared /\ cleared[r] /\ said[r] < setup.lines
      /\ said' = [said EXCEPT ![r] = @ + 1] /\ said \in [Rhythm -> Nat]
      /\ said'[r] = said[r] + 1 /\ \A q \in Rhythm : q # r => said'[q] = said[q]
  BY DEF Speak, Saying
<1>2. setup.lines \in Nat
  BY SetupAssumption DEF Told, Dated
<1>3. \A q \in Rhythm, l \in 1..setup.lines :
        said'[q] < l <=> said[q] < l /\ <<q, l>> # p
  BY <1>1, <1>2
<1>4. W' = W \ {p}
  <2>1. W' \in SUBSET (Rhythm \X (1..setup.lines)) /\ W \in SUBSET (Rhythm \X (1..setup.lines))
    BY <1>1 DEF Waiting
  <2>2. \A q \in Rhythm, l \in 1..setup.lines :
          <<q, l>> \in W' <=> <<q, l>> \in W /\ <<q, l>> # p
    BY <1>1, <1>3 DEF Waiting
  <2> HIDE DEF W, p
  <2> QED  BY <2>1, <2>2
<1>5. a \in A => p \in W
  BY <1>1, <1>2 DEF Waiting
<1>6. IsFiniteSet(W)
  BY Finite DEF AllFinite
<1> HIDE DEF W, p
<1>7. p \in W => Cardinality(W') = Cardinality(W) - 1
  BY <1>4, <1>6, FS_RemoveElement
<1> QED  BY <1>4, <1>5, <1>7 DEF W

\* A step that is not a gate's yes makes no more of what is said and under way.
LEMMA LoadFalls ==
  ASSUME NInv, Told, Told', Saying, [Next]_vars, ~ \E r \in Rhythm : Pass(r),
         NEW kinds, NEW A
  PROVE  Load(kinds, A)' <= Load(kinds, A)
<1> DEFINE K == Spoken(kinds, A)
           W == Waiting(A)
<1>1. /\ IsFiniteSet(K) /\ Cardinality(K) \in Nat
      /\ IsFiniteSet(W) /\ Cardinality(W) \in Nat
  BY Finite DEF AllFinite
<1>2. /\ Load(kinds, A) = Cardinality(K) + Cardinality(W)
      /\ Load(kinds, A)' = Cardinality(K') + Cardinality(W')
  BY DEF Load
<1>3. ASSUME K' \in SUBSET K, W' \in SUBSET W PROVE Load(kinds, A)' <= Load(kinds, A)
  <2> HIDE DEF K, W
  <2>1. /\ Cardinality(K') <= Cardinality(K) /\ IsFiniteSet(K')
        /\ Cardinality(W') <= Cardinality(W) /\ IsFiniteSet(W')
    BY <1>1, <1>3, FS_Subset
  <2>2. Cardinality(K') \in Nat /\ Cardinality(W') \in Nat
    BY <2>1, FS_CardinalityType
  <2> QED  BY <1>1, <1>2, <2>1, <2>2
<1>4. ASSUME Mute PROVE K' \in SUBSET K
  <2>1. PICK N : Grows(N) /\ \A n \in N : ~IsOutreach(log'[n])
    BY <1>4 DEF Mute
  <2> QED  BY <2>1 DEF Grows, Spoken, Chain, Outreaches
<1>5. ASSUME ~Speech PROVE W' \in SUBSET W
  <2>1. cleared \in [Rhythm -> BOOLEAN] /\ said \in [Rhythm -> Nat] /\ setup' = setup
    BY SetupStays DEF NInv, Timed, Saying
  <2>2. \A r \in Rhythm : cleared'[r] => cleared[r] /\ said'[r] = said[r]
    BY <1>5, <2>1 DEF Next, Advance, Rest, UserSpeaks, UserActs, Shows, AgentTalks, Claim,
                      Deny, Finish, End, Speech, vars
  <2> QED  BY <2>1, <2>2 DEF Waiting
<1>6. CASE Mute /\ ~Speech
  BY <1>3, <1>4, <1>5, <1>6
<1>7. CASE Speech
  <2>0. PICK r \in Rhythm : \E a \in setup.cast[r] : Speak(r, a)
    BY <1>7 DEF Speech
  <2>1. PICK a \in setup.cast[r] : Speak(r, a)
    BY <2>0
  <2> DEFINE e == [by |-> a, kind |-> "message", proactive |-> TRUE, at |-> now]
             n == Len(log) + 1
  <2>2. log' = Append(log, e) /\ Logged /\ setup' = setup /\ e.by = a
    BY <2>1 DEF Speak, Record, Told, Dated
  <2> HIDE DEF e
  <2>3. Grows({n}) /\ log'[n] = e
    BY <2>2, OneMore
  <2> HIDE DEF n
  <2>4. K' \in SUBSET (K \cup {n}) /\ (a \notin A => K' \in SUBSET K)
    BY <2>2, <2>3 DEF Grows, Spoken, Chain, Outreaches
  <2>5. W' \in SUBSET W /\ (a \in A => Cardinality(W') = Cardinality(W) - 1)
    BY <2>1, SpokenWaits
  <2>6. CASE a \in A
    <3> HIDE DEF K, W
    <3>1. /\ IsFiniteSet(K \cup {n})
          /\ Cardinality(K \cup {n}) = Cardinality(K) \/ Cardinality(K \cup {n}) = Cardinality(K) + 1
      BY <1>1, FS_AddElement
    <3>2. Cardinality(K') <= Cardinality(K \cup {n}) /\ IsFiniteSet(K')
      BY <2>4, <3>1, FS_Subset
    <3>3. Cardinality(K') \in Nat
      BY <3>2, FS_CardinalityType
    <3> QED  BY <1>1, <1>2, <2>5, <2>6, <3>1, <3>2, <3>3
  <2> QED  BY <1>3, <2>4, <2>5, <2>6
<1> QED  BY <1>6, <1>7, LogStep

\* A gate's yes adds the lines of the firing; there are no more firings than
\* processes, nor than rhythms that may cast their authors.
LEMMA LoadAtPass ==
  ASSUME NInv', Told, Told', Slots', NEW r \in Rhythm, Pass(r), NEW kinds, NEW A
  PROVE  /\ Load(kinds, A)' <= Cardinality(Spoken(kinds, A)) + Reach
         /\ Load(kinds, A)' <= Cardinality(Spoken(kinds, A)) + Cardinality(Own(A)) * setup.lines
         /\ r \notin Own(A) => Load(kinds, A)' <= Load(kinds, A)
<1> DEFINE K == Spoken(kinds, A)
           W == Waiting(A)
           own == Cardinality(Own(A)) * setup.lines
<1>1. /\ setup' = setup /\ log' = log /\ said' = said
      /\ cleared' = [cleared EXCEPT ![r] = TRUE]
  BY DEF Pass
<1>2. K' = K /\ Own(A)' = Own(A) /\ Reach' = Reach
  BY <1>1 DEF Spoken, Chain, Outreaches, Own, Reach
<1>3. /\ Reach' \in Nat /\ Cardinality(W)' <= Reach'
      /\ Cardinality(W)' <= (Cardinality(Own(A)) * setup.lines)'
  <2>1. FewWaiting'
    BY FewAreWaiting, PTL
  <2> QED  BY <2>1 DEF FewWaiting
<1>4. r \notin Own(A) => W' \in SUBSET W
  BY <1>1 DEF Waiting, Own
<1>5. /\ Load(kinds, A) = Cardinality(K) + Cardinality(W)
      /\ Load(kinds, A)' = Cardinality(K') + Cardinality(W')
  BY DEF Load
<1>6. /\ Cardinality(K) \in Nat /\ IsFiniteSet(W) /\ Cardinality(W) \in Nat
      /\ own \in Nat /\ Cardinality(W') \in Nat
  <2>1. /\ Cardinality(K) \in Nat /\ IsFiniteSet(W) /\ Cardinality(W) \in Nat
        /\ Cardinality(Own(A)) \in Nat
    BY Finite DEF AllFinite
  <2>2. AllFinite'
    BY Finite, PTL
  <2>3. setup.lines \in Nat
    BY SetupAssumption DEF Told, Dated
  <2> QED  BY <2>1, <2>2, <2>3 DEF AllFinite
<1>7. own' = own
  BY <1>1, <1>2
<1> HIDE DEF K, W, own
<1>8. r \notin Own(A) => Cardinality(W') <= Cardinality(W)
  BY <1>4, <1>6, FS_Subset
<1>9. /\ Load(kinds, A)' <= Cardinality(K) + Reach
      /\ Load(kinds, A)' <= Cardinality(K) + own
      /\ r \notin Own(A) => Load(kinds, A)' <= Load(kinds, A)
  BY <1>2, <1>3, <1>5, <1>6, <1>7, <1>8 DEF own
<1> QED  BY <1>9 DEF K, own

-----------------------------------------------------------------------------
(***************************************************************************)
(* The caps, with what is under way counted as said.                       *)
(***************************************************************************)
Capped(g) == \A k \in DOMAIN g.rungs : g.rungs[k].tries # 0

\* Only rhythms of its own let an author speak.
ItsOwn(a) == \A r \in Own({a}) : setup.actor[r] = a

\* A gate with a cap of 0 lets nobody through.
Licensed == \A g \in Gates("backoff"), r \in Rhythm : cleared[r] => g.crewCap # 0
CrewKept ==
  \A g \in Gates("backoff") : HasRoom(g) => Load({"message"}, Crew) < g.crewCap + Reach
AuthorsKept ==
  \A g \in Gates("backoff") : HasRoom(g) /\ g.authorCap # 0 =>
    \A a \in Crew : ItsOwn(a) =>
      /\ Load({"message"}, {a}) < g.authorCap + Reach
      /\ Load({"message"}, {a}) < g.authorCap + Cardinality(Own({a})) * setup.lines
LaddersKept ==
  \A g \in Gates("cadence") : Capped(g) => Load(g.presence, Crew) <= FiniteTries(g) + Reach

CInv ==
  Told /\ Saying /\ Slots /\ Licensed /\ CrewKept /\ AuthorsKept /\ LaddersKept

LEMMA GateOfStack ==
  ASSUME Told
  PROVE  /\ setup.processes \in Nat /\ setup.lines \in Nat /\ setup.lines > 0
         /\ \A g \in Gates("backoff") :
              /\ {g.crewCap, g.window} \subseteq Nat
              /\ g.authorCap \in Nat /\ g.kind = "backoff"
         /\ \A g \in Gates("cadence") :
              /\ g.kind = "cadence" /\ g.rungs \in Seq(Range(g.rungs))
              /\ \A k \in DOMAIN g.rungs : g.rungs[k].tries \in Nat
         /\ \A kind : \A g \in Gates(kind) : \E i \in DOMAIN setup.stack : g = setup.stack[i]
<1>1. setup \in Setups
  BY DEF Told, Dated
<1>2. \A kind : \A g \in Gates(kind) :
        g.kind = kind /\ \E i \in DOMAIN setup.stack : g = setup.stack[i]
  BY DEF Gates, Range
<1>3. setup.processes \in Nat /\ setup.lines \in Nat /\ setup.lines > 0
  BY <1>1, SetupAssumption
<1>4. \A i \in DOMAIN setup.stack : LET g == setup.stack[i] IN
        /\ g.kind = "backoff" => g.authorCap \in Nat /\ g.crewCap \in Nat /\ g.window \in Nat
        /\ g.kind = "cadence" =>
             /\ g.rungs \in Seq(Range(g.rungs))
             /\ \A k \in DOMAIN g.rungs : g.rungs[k].tries \in Nat
  BY <1>1, SetupAssumption
<1> QED  BY <1>2, <1>3, <1>4

\* A ladder has a number of tries.
LEMMA LadderIsFinite ==
  ASSUME Told, NEW g \in Gates("cadence") PROVE FiniteTries(g) \in Nat
<1>1. /\ DOMAIN g.rungs = 1..Len(g.rungs) /\ Len(g.rungs) \in Nat
      /\ \A k \in DOMAIN g.rungs : g.rungs[k].tries \in Nat
  BY GateOfStack
<1>2. \A i \in 1..Len(g.rungs) : g.rungs[i].tries \in Nat
  BY <1>1
<1>3. Len(g.rungs) \in 0..Len(g.rungs)
  BY <1>1
<1> QED  BY <1>1, <1>2, <1>3, TriesGrow DEF FiniteTries

LEMMA CInvSuffices == NInv /\ CInv => CapsHold
<1> SUFFICES ASSUME NInv, CInv PROVE CapsHold
  OBVIOUS
<1>1. Told /\ FewWaiting /\ AllFinite /\ Reach \in Nat
  <2>1. FewWaiting /\ AllFinite
    BY FewAreWaiting, Finite DEF CInv
  <2> QED  BY <2>1 DEF CInv, FewWaiting
<1>2. \A kinds, A : /\ Cardinality(Spoken(kinds, A)) \in Nat
                    /\ Cardinality(Spoken(kinds, A)) <= Load(kinds, A)
                    /\ Load(kinds, A) \in Nat
                    /\ Cardinality(Own(A)) \in Nat
  BY <1>1 DEF Load, AllFinite
<1>3. ASSUME NEW g \in Gates("backoff"), HasRoom(g)
      PROVE  Cardinality(Chain({"message"})) < g.crewCap + Reach
  <2>1. Load({"message"}, Crew) < g.crewCap + Reach
    BY <1>3 DEF CInv, CrewKept
  <2>2. Spoken({"message"}, Crew) = Chain({"message"})
    BY <1>1, ChainIsSpoken
  <2>3. /\ Cardinality(Spoken({"message"}, Crew)) <= Load({"message"}, Crew)
        /\ Cardinality(Spoken({"message"}, Crew)) \in Nat
        /\ Load({"message"}, Crew) \in Nat /\ g.crewCap \in Nat
    BY <1>1, <1>2, GateOfStack
  <2> QED  BY <1>1, <2>1, <2>2, <2>3
<1>4. ASSUME NEW g \in Gates("backoff"), HasRoom(g), g.authorCap # 0, NEW a \in Crew, ItsOwn(a)
      PROVE  Cardinality(Spoken({"message"}, {a}))
               < g.authorCap + Min({setup.processes, Cardinality(Own({a}))}) * setup.lines
  <2> DEFINE own == Cardinality(Own({a}))
             k == Cardinality(Spoken({"message"}, {a}))
             m == Min({setup.processes, own})
  <2>1. /\ Load({"message"}, {a}) < g.authorCap + setup.processes * setup.lines
        /\ Load({"message"}, {a}) < g.authorCap + own * setup.lines
    BY <1>4 DEF CInv, AuthorsKept, Reach
  <2>2. k \in Nat /\ k <= Load({"message"}, {a}) /\ Load({"message"}, {a}) \in Nat
        /\ own \in Nat /\ setup.processes \in Nat /\ setup.lines \in Nat /\ g.authorCap \in Nat
    BY <1>1, <1>2, GateOfStack
  <2>3. m \in {setup.processes, own}
    <3> DEFINE S == {setup.processes, own}
    <3>1. S \in SUBSET Nat /\ S # {}
      BY <2>2
    <3> HIDE DEF S
    <3> QED  BY <3>1, Least DEF S
  <2> HIDE DEF own, k, m
  <2>4. /\ setup.processes * setup.lines \in Nat /\ own * setup.lines \in Nat
    BY <2>2
  <2>5. k < g.authorCap + setup.processes * setup.lines /\ k < g.authorCap + own * setup.lines
    BY <2>1, <2>2, <2>4
  <2>6. k < g.authorCap + m * setup.lines
    BY <2>3, <2>5
  <2> QED  BY <2>6 DEF k, m, own
<1>5. ASSUME NEW g \in Gates("cadence"), Capped(g)
      PROVE  Cardinality(Chain(g.presence)) <= FiniteTries(g) + Reach
  <2>1. Load(g.presence, Crew) <= FiniteTries(g) + Reach
    BY <1>5 DEF CInv, LaddersKept
  <2>2. Spoken(g.presence, Crew) = Chain(g.presence)
    BY <1>1, ChainIsSpoken
  <2>3. FiniteTries(g) \in Nat
    BY <1>1, LadderIsFinite
  <2>4. /\ Cardinality(Spoken(g.presence, Crew)) <= Load(g.presence, Crew)
        /\ Cardinality(Spoken(g.presence, Crew)) \in Nat
        /\ Load(g.presence, Crew) \in Nat
    BY <1>2
  <2> QED  BY <1>1, <2>1, <2>2, <2>3, <2>4
<1>6. \A a : /\ Own({a}) = {r \in Rhythm : a \in setup.cast[r]}
             /\ Spoken({"message"}, {a}) = {i \in Chain({"message"}) : log[i].by = a}
  BY DEF Own, Spoken
<1> QED  BY <1>3, <1>4, <1>5, <1>6 DEF CapsHold, Capped, ItsOwn

LEMMA InitCInv == Init => CInv
<1> SUFFICES ASSUME Init PROVE CInv
  OBVIOUS
<1>1. Told /\ NInv
  BY InitTold, InitNInv
<1>2. /\ \A kinds, A : Spoken(kinds, A) = {} /\ Waiting(A) = {}
      /\ Firings = {} /\ Cardinality({}) = 0
  <2>1. DOMAIN log = {} /\ \A r \in Rhythm : at[r] = 0 /\ ~cleared[r]
    BY DEF Init
  <2>2. Cardinality({}) = 0
    BY FS_EmptySet
  <2> QED  BY <2>1, <2>2 DEF Spoken, Chain, Outreaches, Waiting, Firings
<1>3. /\ \A kinds, A : Load(kinds, A) = 0
      /\ Cardinality(Firings) = 0
  <2>1. \A kinds, A : Cardinality(Spoken(kinds, A)) = 0 /\ Cardinality(Waiting(A)) = 0
    BY <1>2, Zenon
  <2>2. Cardinality(Firings) = 0
    BY <1>2, Zenon
  <2> QED  BY <2>1, <2>2 DEF Load
<1>4. Slots
  BY <1>1, <1>3, GateOfStack DEF Slots
<1>5. Reach \in Nat /\ Reach > 0
  BY <1>1, <1>4, FewAreWaiting DEF FewWaiting
<1>6. CrewKept
  BY <1>1, <1>3, <1>5, GateOfStack DEF CrewKept
<1>7. AuthorsKept
  <2>1. \A A : Cardinality(Own(A)) * setup.lines \in Nat
    BY <1>1, Finite, GateOfStack DEF AllFinite
  <2> QED  BY <1>1, <1>3, <1>5, <2>1, GateOfStack DEF AuthorsKept
<1>8. LaddersKept
  BY <1>1, <1>3, <1>5, LadderIsFinite DEF LaddersKept
<1>9. Saying /\ Licensed
  BY DEF Init, Saying, Licensed
<1> QED  BY <1>1, <1>4, <1>6, <1>7, <1>8, <1>9 DEF CInv

LEMMA NextSlots == NInv /\ CInv /\ [Next]_vars => Slots'
<1> SUFFICES ASSUME NInv, CInv, [Next]_vars PROVE Slots'
  OBVIOUS
<1>1. at \in [Rhythm -> Nat] /\ Told /\ Slots
  BY DEF NInv, Timed, CInv
<1>2. /\ IsFiniteSet(Firings) /\ Cardinality(Firings) \in Nat
      /\ setup.processes \in Nat
  BY <1>1, Finite, GateOfStack DEF AllFinite
<1>3. setup' = setup
  BY SetupStays
<1>4. ASSUME Firings' \in SUBSET Firings PROVE Slots'
  <2>1. /\ Cardinality(Firings') <= Cardinality(Firings) /\ IsFiniteSet(Firings')
    BY <1>2, <1>4, FS_Subset
  <2>2. Cardinality(Firings') \in Nat
    BY <2>1, FS_CardinalityType
  <2> QED  BY <1>1, <1>2, <1>3, <2>1, <2>2 DEF Slots
<1>5. ASSUME NEW r \in Rhythm, Claim(r) PROVE Slots'
  <2>1. at' = [at EXCEPT ![r] = now] /\ Cardinality(Firings) < setup.processes
    BY <1>5 DEF Claim
  <2> DEFINE F == Firings \cup {r}
  <2>2. Firings' \in SUBSET F
    BY <1>1, <2>1 DEF Firings
  <2>3. /\ IsFiniteSet(F)
        /\ Cardinality(F) = Cardinality(Firings) \/ Cardinality(F) = Cardinality(Firings) + 1
    BY <1>2, FS_AddElement
  <2> HIDE DEF F
  <2>4. Cardinality(Firings') <= Cardinality(F) /\ IsFiniteSet(Firings')
    BY <2>2, <2>3, FS_Subset
  <2>5. Cardinality(Firings') \in Nat
    BY <2>4, FS_CardinalityType
  <2> QED  BY <1>2, <1>3, <2>1, <2>3, <2>4, <2>5 DEF Slots
<1>6. ASSUME NEW r \in Rhythm, Deny(r) \/ Finish(r) PROVE Slots'
  <2>1. at' = [at EXCEPT ![r] = 0]
    BY <1>6 DEF Deny, Finish, End
  <2>2. Firings' \in SUBSET Firings
    BY <1>1, <2>1 DEF Firings
  <2> QED  BY <1>4, <2>2
<1>7. CASE at' = at
  <2>1. Firings' = Firings
    BY <1>7 DEF Firings
  <2> QED  BY <1>4, <2>1
<1> QED
  BY <1>5, <1>6, <1>7
     DEF Next, Advance, Rest, UserSpeaks, UserActs, Shows, AgentTalks, Pass, Speak, vars

LEMMA NextSaying == NInv /\ Saying /\ [Next]_vars => Saying'
<1> SUFFICES ASSUME Saying, [Next]_vars PROVE Saying'
  OBVIOUS
<1>1. ASSUME NEW r \in Rhythm, NEW a, Speak(r, a) PROVE Saying'
  BY <1>1 DEF Saying, Speak
<1>2. ASSUME NEW r \in Rhythm, Deny(r) \/ Finish(r) PROVE Saying'
  BY <1>2 DEF Saying, Deny, Finish, End
<1>3. CASE said' = said
  BY <1>3 DEF Saying
<1> QED
  BY <1>1, <1>2, <1>3
     DEF Next, Advance, Rest, UserSpeaks, UserActs, Shows, AgentTalks, Claim, Pass, vars

\* What gates say of a firing that passes.
LEMMA PassedAll ==
  ASSUME Told, NEW r, Pass(r), NEW kind, NEW g \in Gates(kind)
  PROVE  Verdict(g, r, at[r]).allowed
<1>1. setup \in Setups /\ AllOf(r, at[r]).allowed
  BY DEF Pass, Told, Dated
<1>2. PICK i \in DOMAIN setup.stack : g = setup.stack[i]
  BY GateOfStack
<1> QED  BY <1>1, <1>2, AllAgree

LEMMA NextLicensed ==
  ASSUME NInv, CInv, [Next]_vars PROVE Licensed'
<1>1. Told /\ Licensed /\ setup' = setup
  BY SetupStays DEF CInv
<1>2. Gates("backoff")' = Gates("backoff") /\ cleared \in [Rhythm -> BOOLEAN]
  BY <1>1 DEF Gates, NInv, Timed
<1>3. ASSUME NEW r \in Rhythm, Pass(r) PROVE Licensed'
  <2>1. cleared' = [cleared EXCEPT ![r] = TRUE]
    BY <1>3 DEF Pass
  <2>2. ASSUME NEW g \in Gates("backoff") PROVE g.crewCap # 0
    <3> DEFINE seen == UnansweredProactive(Newest(Messages, g.window))
    <3>1. Verdict(g, r, at[r]).allowed /\ g.kind = "backoff" /\ g.crewCap \in Nat
      BY <1>1, <1>3, PassedAll, GateOfStack
    <3>2. ~(Cardinality(seen) >= g.crewCap)
      BY <3>1 DEF Verdict, Backoff, Denied
    <3>3. seen \in SUBSET (0..Len(log)) /\ Len(log) \in Nat
      BY <1>1, Places DEF Told, Dated, Newest, Messages, UnansweredProactive
    <3> HIDE DEF seen
    <3>4. Cardinality(seen) \in Nat
      BY <3>3, Counted
    <3> QED  BY <3>1, <3>2, <3>4
  <2> QED  BY <1>1, <1>2, <2>1, <2>2 DEF Licensed
<1>4. CASE \A r \in Rhythm : cleared'[r] => cleared[r]
  BY <1>1, <1>2, <1>4 DEF Licensed
<1>5. ASSUME NEW r \in Rhythm, Deny(r) \/ Finish(r)
      PROVE  \A q \in Rhythm : cleared'[q] => cleared[q]
  BY <1>2, <1>5 DEF Deny, Finish, End
<1> QED
  BY <1>3, <1>4, <1>5
     DEF Next, Advance, Rest, UserSpeaks, UserActs, Shows, AgentTalks, Claim, Speak, vars

\* The bounds when the user has just written: nothing is in the chain, and what waits
\* was let through by a gate with a cap.
FreshLoad ==
  \A A : \A g \in Gates("backoff") :
    /\ Load({"message"}, A) < g.crewCap + Reach
    /\ Load({"message"}, A) <= Reach
    /\ Load({"message"}, A) <= Cardinality(Own(A)) * setup.lines

LEMMA FreshStart ==
  NInv /\ Told /\ Slots /\ Licensed /\ Chain({"message"}) = {} => FreshLoad
<1> SUFFICES ASSUME NInv, Told, Slots, Licensed, Chain({"message"}) = {}, NEW A,
                    NEW g \in Gates("backoff")
             PROVE  /\ Load({"message"}, A) < g.crewCap + Reach
                    /\ Load({"message"}, A) <= Reach
                    /\ Load({"message"}, A) <= Cardinality(Own(A)) * setup.lines
  BY DEF FreshLoad
<1>1. FewWaiting /\ AllFinite /\ g.crewCap \in Nat
  BY FewAreWaiting, Finite, GateOfStack
<1>2. Cardinality(Spoken({"message"}, A)) = 0
  <2>1. Spoken({"message"}, A) = {}
    BY DEF Spoken
  <2> QED  BY <2>1, FS_EmptySet, Zenon
<1>3. Load({"message"}, A) = Cardinality(Waiting(A)) /\ Cardinality(Waiting(A)) \in Nat
  BY <1>1, <1>2 DEF Load, AllFinite
<1>4. Cardinality(Waiting(A)) < g.crewCap + Reach
  <2>1. CASE g.crewCap # 0
    BY <1>1, <1>3, <2>1 DEF FewWaiting
  <2>2. CASE g.crewCap = 0
    <3>1. Waiting(A) = {}
      BY <2>2 DEF Waiting, Licensed
    <3>2. Cardinality(Waiting(A)) = 0
      BY <3>1, FS_EmptySet, Zenon
    <3> QED  BY <1>1, <2>2, <3>2 DEF FewWaiting
  <2> QED  BY <2>1, <2>2
<1> QED  BY <1>1, <1>3, <1>4 DEF FewWaiting

LEMMA NextCInv == NInv /\ CInv /\ [Next]_vars => CInv'
<1> SUFFICES ASSUME NInv, CInv, [Next]_vars PROVE CInv'
  OBVIOUS
<1>1. /\ Told /\ Told' /\ Slots' /\ Saying /\ Saying' /\ Licensed'
      /\ NInv' /\ AllFinite /\ AllFinite' /\ FewWaiting
  <2>1. Told /\ Told' /\ Slots' /\ Saying /\ Saying' /\ Licensed' /\ NInv' /\ FewWaiting
    BY LogStep, NextSlots, NextSaying, NextLicensed, NextNInv, FewAreWaiting DEF CInv
  <2> QED  BY <2>1, Finite, PTL
<1>2. setup' = setup
  BY SetupStays
<1>3. /\ Crew' = Crew /\ Reach' = Reach
      /\ \A kind : Gates(kind)' = Gates(kind)
      /\ \A A : Own(A)' = Own(A)
      /\ \A a : ItsOwn(a)' <=> ItsOwn(a)
  BY <1>2 DEF Crew, Reach, Gates, Own, ItsOwn
<1>4. \A kinds, A : /\ Load(kinds, A) \in Nat /\ Load(kinds, A)' \in Nat
                    /\ Cardinality(Spoken(kinds, A)) \in Nat
                    /\ Cardinality(Own(A)) * setup.lines \in Nat
  BY <1>1, GateOfStack DEF AllFinite
<1>5. Reach \in Nat /\ Reach > 0
  BY <1>1 DEF FewWaiting
<1>6. ASSUME Chain({"message"})' = {} PROVE CrewKept' /\ AuthorsKept'
  <2>0. (Chain({"message"}) = {})'
    BY <1>6
  <2>1. FreshLoad'
    BY <1>1, <2>0, FreshStart, PTL
  <2>2. \A A : \A g \in Gates("backoff") :
          /\ Load({"message"}, A)' < g.crewCap + Reach
          /\ Load({"message"}, A)' <= Reach
          /\ Load({"message"}, A)' <= Cardinality(Own(A)) * setup.lines
    BY <1>2, <1>3, <2>1 DEF FreshLoad
  <2>3. CrewKept'
    BY <1>3, <2>2 DEF CrewKept
  <2>4. ASSUME NEW g \in Gates("backoff"), g.authorCap # 0, NEW a
        PROVE  /\ Load({"message"}, {a})' < g.authorCap + Reach
               /\ Load({"message"}, {a})' < g.authorCap + Cardinality(Own({a})) * setup.lines
    <3>1. g.authorCap \in Nat
      BY <1>1, GateOfStack
    <3> QED  BY <1>4, <1>5, <2>2, <2>4, <3>1
  <2>5. AuthorsKept'
    BY <1>2, <1>3, <2>4 DEF AuthorsKept
  <2> QED  BY <2>3, <2>5
<1>7. ASSUME ~ \E r \in Rhythm : Pass(r) PROVE CInv'
  <2>1. \A kinds, A : Load(kinds, A)' <= Load(kinds, A)
    BY <1>1, <1>7, LoadFalls
  <2>2. ASSUME \A g : HasRoom(g)' /\ {g.crewCap, g.window} \subseteq Nat => HasRoom(g)
        PROVE  CrewKept' /\ AuthorsKept'
    <3>1. \A g \in Gates("backoff") : HasRoom(g)' => HasRoom(g)
      BY <1>1, <2>2, GateOfStack
    <3>2. ASSUME NEW g \in Gates("backoff"), HasRoom(g)'
          PROVE  Load({"message"}, Crew)' < g.crewCap + Reach
      <4>1. Load({"message"}, Crew) < g.crewCap + Reach /\ g.crewCap \in Nat
        BY <1>1, <3>1, <3>2, GateOfStack DEF CInv, CrewKept
      <4>2. /\ Load({"message"}, Crew)' <= Load({"message"}, Crew)
            /\ Load({"message"}, Crew)' \in Nat /\ Load({"message"}, Crew) \in Nat
        BY <1>3, <1>4, <2>1
      <4> QED  BY <1>5, <4>1, <4>2
    <3>3. ASSUME NEW g \in Gates("backoff"), HasRoom(g)', g.authorCap # 0, NEW a \in Crew,
                 ItsOwn(a)
          PROVE  /\ Load({"message"}, {a})' < g.authorCap + Reach
                 /\ Load({"message"}, {a})' < g.authorCap + Cardinality(Own({a})) * setup.lines
      <4>1. /\ Load({"message"}, {a}) < g.authorCap + Reach
            /\ Load({"message"}, {a}) < g.authorCap + Cardinality(Own({a})) * setup.lines
            /\ g.authorCap \in Nat
        BY <1>1, <3>1, <3>3, GateOfStack DEF CInv, AuthorsKept
      <4>2. /\ Load({"message"}, {a})' <= Load({"message"}, {a})
            /\ Load({"message"}, {a})' \in Nat /\ Load({"message"}, {a}) \in Nat
            /\ Cardinality(Own({a})) * setup.lines \in Nat
        BY <1>4, <2>1
      <4> QED  BY <1>5, <4>1, <4>2
    <3>4. CrewKept'
      BY <1>3, <3>2 DEF CrewKept
    <3>5. AuthorsKept'
      BY <1>2, <1>3, <3>3 DEF AuthorsKept
    <3> QED  BY <3>4, <3>5
  <2>3. CrewKept' /\ AuthorsKept'
    BY <1>1, <1>6, <2>2, RoomStep
  <2>4. LaddersKept'
    <3> SUFFICES ASSUME NEW g \in Gates("cadence"), Capped(g)
                 PROVE  Load(g.presence, Crew)' <= FiniteTries(g) + Reach
      BY <1>3 DEF LaddersKept
    <3>1. Load(g.presence, Crew) <= FiniteTries(g) + Reach /\ FiniteTries(g) \in Nat
      BY <1>1, LadderIsFinite DEF CInv, LaddersKept
    <3>2. /\ Load(g.presence, Crew)' <= Load(g.presence, Crew)
          /\ Load(g.presence, Crew)' \in Nat /\ Load(g.presence, Crew) \in Nat
      BY <1>3, <1>4, <2>1
    <3> QED  BY <1>5, <3>1, <3>2
  <2> QED  BY <1>1, <2>3, <2>4 DEF CInv
<1>8. ASSUME NEW r \in Rhythm, Pass(r) PROVE CInv'
  <2>1. \A kind : \A g \in Gates(kind) : Verdict(g, r, at[r]).allowed
    BY <1>1, <1>8, PassedAll
  <2>2. \A kinds, A :
          /\ Load(kinds, A)' <= Cardinality(Spoken(kinds, A)) + Reach
          /\ Load(kinds, A)' <= Cardinality(Spoken(kinds, A)) + Cardinality(Own(A)) * setup.lines
          /\ r \notin Own(A) => Load(kinds, A)' <= Load(kinds, A)
    BY <1>1, <1>8, LoadAtPass
  <2>3. \A kinds : Spoken(kinds, Crew) = Chain(kinds)
    BY <1>1, ChainIsSpoken
  <2>4. \A g : HasRoom(g)' <=> HasRoom(g)
    BY <1>8 DEF Pass, HasRoom, Crowd, Chatter, Messages
  <2>5. ASSUME NEW g \in Gates("backoff"), HasRoom(g)
        PROVE  /\ Cardinality(Chain({"message"})) < g.crewCap
               /\ g.authorCap # 0 =>
                    Cardinality(Spoken({"message"}, {setup.actor[r]})) < g.authorCap
               /\ g.crewCap \in Nat /\ g.authorCap \in Nat
    <3>1. g.crewCap \in Nat /\ g.window \in Nat /\ g.authorCap \in Nat /\ g.kind = "backoff"
      BY <1>1, GateOfStack
    <3>2. Backoff(g, r, at[r]).allowed
      BY <2>1, <3>1 DEF Verdict
    <3> QED  BY <1>1, <2>5, <3>1, <3>2, BackoffCaps
  <2>6. CrewKept'
    <3> SUFFICES ASSUME NEW g \in Gates("backoff"), HasRoom(g)
                 PROVE  Load({"message"}, Crew)' < g.crewCap + Reach
      BY <1>3, <2>4 DEF CrewKept
    <3>1. /\ Load({"message"}, Crew)' <= Cardinality(Chain({"message"})) + Reach
          /\ Cardinality(Chain({"message"})) \in Nat /\ Load({"message"}, Crew)' \in Nat
      BY <1>3, <1>4, <2>2, <2>3
    <3>2. Cardinality(Chain({"message"})) < g.crewCap /\ g.crewCap \in Nat
      BY <2>5
    <3> QED  BY <1>5, <3>1, <3>2
  <2>7. AuthorsKept'
    <3> SUFFICES ASSUME NEW g \in Gates("backoff"), HasRoom(g), g.authorCap # 0,
                        NEW a \in Crew, ItsOwn(a)
                 PROVE  /\ Load({"message"}, {a})' < g.authorCap + Reach
                        /\ Load({"message"}, {a})'
                             < g.authorCap + Cardinality(Own({a})) * setup.lines
      BY <1>2, <1>3, <2>4 DEF AuthorsKept
    <3> DEFINE k == Cardinality(Spoken({"message"}, {a}))
               own == Cardinality(Own({a})) * setup.lines
               load == Load({"message"}, {a})
    <3>0. k \in Nat /\ own \in Nat /\ load \in Nat /\ load' \in Nat
      BY <1>4
    <3>1. CASE a = setup.actor[r]
      <4>1. load' <= k + Reach /\ load' <= k + own
        BY <2>2
      <4>2. k < g.authorCap /\ g.authorCap \in Nat
        BY <2>5, <3>1
      <4> HIDE DEF load, k, own
      <4>3. load' < g.authorCap + Reach /\ load' < g.authorCap + own
        BY <1>5, <3>0, <4>1, <4>2
      <4> QED  BY <4>3 DEF load, own
    <3>2. CASE a # setup.actor[r]
      <4>1. r \notin Own({a})
        BY <3>2 DEF ItsOwn
      <4>2. load' <= load
        BY <2>2, <4>1
      <4>3. load < g.authorCap + Reach /\ load < g.authorCap + own /\ g.authorCap \in Nat
        BY <1>1, GateOfStack DEF CInv, AuthorsKept
      <4> HIDE DEF load, k, own
      <4>4. load' < g.authorCap + Reach /\ load' < g.authorCap + own
        BY <1>5, <3>0, <4>2, <4>3
      <4> QED  BY <4>4 DEF load, own
    <3> QED  BY <3>1, <3>2
  <2>8. LaddersKept'
    <3> SUFFICES ASSUME NEW g \in Gates("cadence"), Capped(g)
                 PROVE  Load(g.presence, Crew)' <= FiniteTries(g) + Reach
      BY <1>3 DEF LaddersKept
    <3>1. /\ g.kind = "cadence" /\ g.rungs \in Seq(Range(g.rungs))
          /\ \A k \in DOMAIN g.rungs : g.rungs[k].tries \in Nat \ {0}
      BY <1>1, GateOfStack DEF Capped
    <3>2. Cadence(g, at[r]).allowed
      BY <2>1, <3>1 DEF Verdict
    <3>3. FiniteTries(g) \in Nat /\ Cardinality(Chain(g.presence)) <= FiniteTries(g)
      BY <1>1, <3>1, <3>2, CadenceCaps
    <3>4. /\ Load(g.presence, Crew)' <= Cardinality(Chain(g.presence)) + Reach
          /\ Cardinality(Chain(g.presence)) \in Nat /\ Load(g.presence, Crew)' \in Nat
      BY <1>3, <1>4, <2>2, <2>3
    <3> QED  BY <1>5, <3>3, <3>4
  <2> QED  BY <1>1, <2>6, <2>7, <2>8 DEF CInv
<1> QED  BY <1>7, <1>8

\* Being ignored silences: the crew's cap, the cap of an author whom only rhythms of
\* its own let speak and the tries of a ladder bound what is really sent until the
\* user shows up again, except for the lines of the firings under way, whatever the
\* stacks, rhythms, casts, scripts and rungs are and however late devices sync; the
\* caps of a backoff hold as long as the agents' talk leaves room in its window for
\* the crew's cap.
THEOREM CapsAreKept == Spec => []CapsHold
<1> QED
  BY InitNInv, NextNInv, InitCInv, NextCInv, CInvSuffices, PTL DEF Spec

-----------------------------------------------------------------------------
(***************************************************************************)
(* Hours that pass, and powers of two.                                     *)
(***************************************************************************)
LEMMA Remainder ==
  ASSUME NEW N \in Nat \ {0}, NEW q \in Int, NEW m \in 0..(N - 1)
  PROVE  (N * q + m) % N = m
<1> DEFINE x == N * q + m
           p == x \div N
           e == x % N
           d == q - p
<1>1. x \in Int /\ p \in Int /\ e \in 0..(N - 1) /\ x = N * p + e
  OBVIOUS
<1>2. d \in Int /\ N * d = e - m
  BY <1>1
<1> HIDE DEF x, p, e, d
<1>3. CASE d >= 1
  <2>1. N * d >= N * 1
    BY <1>2, <1>3
  <2> QED  BY <1>1, <1>2, <2>1
<1>4. CASE d <= -1
  <2>1. N * d <= N * (-1)
    BY <1>2, <1>4
  <2> QED  BY <1>1, <1>2, <2>1
<1>5. CASE d = 0
  BY <1>1, <1>2, <1>5 DEF e, x
<1> QED  BY <1>2, <1>3, <1>4, <1>5

\* After k hours it is k hours later, or that less a day.
LEMMA HourGoesOn ==
  ASSUME setup.zone \in Nat, NEW t \in Nat, NEW k \in 0..(Day - 1)
  PROVE  /\ Hour(t) \in 0..(Day - 1)
         /\ Hour(t + k) = IF Hour(t) + k < Day THEN Hour(t) + k
                                               ELSE Hour(t) + k - Day
<1> DEFINE x == t + setup.zone
           q == x \div Day
           h == x % Day
           s == h + k
<1>1. Day \in Nat \ {0}
  BY BoundAssumption
<1>2. x \in Nat /\ q \in Int /\ h \in 0..(Day - 1) /\ x = Day * q + h
  BY <1>1
<1>3. Hour(t) = h /\ Hour(t + k) = (x + k) % Day
  <2>1. (t + k) + setup.zone = x + k
    OBVIOUS
  <2> QED  BY <2>1 DEF Hour
<1> HIDE DEF x, q, h
<1>7. x + k = Day * q + s
  <2> DEFINE d == Day * q
  <2>1. d \in Int /\ x = d + h
    BY <1>1, <1>2
  <2> HIDE DEF d
  <2>2. x + k = d + s
    BY <1>2, <2>1
  <2> QED  BY <2>2 DEF d
<1>4. CASE s < Day
  <2>1. s \in 0..(Day - 1)
    BY <1>1, <1>2, <1>4
  <2> HIDE DEF s
  <2>2. (Day * q + s) % Day = s
    BY <1>1, <1>2, <2>1, Remainder
  <2> QED  BY <1>2, <1>3, <1>4, <1>7, <2>2 DEF s
<1>5. CASE s >= Day
  <2> DEFINE m == s - Day
             p == q + 1
  <2>1. m \in 0..(Day - 1) /\ p \in Int /\ Day * q + s = Day * p + m
    BY <1>1, <1>2, <1>5
  <2> HIDE DEF s, m, p
  <2>2. (Day * p + m) % Day = m
    BY <1>1, <2>1, Remainder
  <2>3. Hour(t + k) = m
    BY <1>3, <1>7, <2>1, <2>2
  <2> QED  BY <1>1, <1>2, <1>3, <1>5, <2>3 DEF m, s
<1>6. s \in Int
  BY <1>1, <1>2
<1> QED  BY <1>1, <1>2, <1>3, <1>4, <1>5, <1>6

\* AtHour is the next time at which it is that hour.
LEMMA NextTime ==
  ASSUME setup.zone \in Nat, NEW t \in Nat, NEW hour \in 0..(Day - 1)
  PROVE  /\ AtHour(hour, t) \in Nat /\ t <= AtHour(hour, t)
         /\ AtHour(hour, t) - t \in 0..(Day - 1)
         /\ AtHour(hour, t) = t + (IF hour < Hour(t) THEN hour - Hour(t) + Day
                                                     ELSE hour - Hour(t))
         /\ Hour(AtHour(hour, t)) = hour
<1>1. Day \in Nat \ {0}
  BY BoundAssumption
<1> DEFINE h == Hour(t)
           k == IF hour < h THEN hour - h + Day ELSE hour - h
<1>2. h \in 0..(Day - 1)
  <2>1. 0 \in 0..(Day - 1)
    BY <1>1
  <2> QED  BY <2>1, HourGoesOn
<1>3. AtHour(hour, t) = IF t - h + hour < t THEN t - h + hour + Day ELSE t - h + hour
  BY DEF AtHour
<1> HIDE DEF h
<1>4. k \in 0..(Day - 1)
  BY <1>1, <1>2
<1>5. AtHour(hour, t) = t + k /\ AtHour(hour, t) \in Nat
  BY <1>1, <1>2, <1>3
<1>6. Hour(t + k) = IF h + k < Day THEN h + k ELSE h + k - Day
  BY <1>4, HourGoesOn DEF h
<1>7. Hour(t + k) = hour
  BY <1>1, <1>2, <1>6
<1> QED  BY <1>4, <1>5, <1>7 DEF h

\* From within the hours it stays within them until their end, from without it
\* stays without until their start.
LEMMA HoursLast ==
  ASSUME setup.zone \in Nat, NEW t \in Nat, NEW hours,
         hours.start \in 0..(Day - 1), hours.end \in 0..(Day - 1),
         hours.start # hours.end
  PROVE  /\ InHours(Hour(t), hours) =>
              /\ AtHour(hours.end, t) > t
              /\ ~InHours(Hour(AtHour(hours.end, t)), hours)
              /\ \A u \in t..(AtHour(hours.end, t) - 1) : InHours(Hour(u), hours)
         /\ ~InHours(Hour(t), hours) =>
              /\ AtHour(hours.start, t) > t
              /\ InHours(Hour(AtHour(hours.start, t)), hours)
              /\ \A u \in t..(AtHour(hours.start, t) - 1) : ~InHours(Hour(u), hours)
<1> DEFINE a == hours.start
           b == hours.end
           h == Hour(t)
           In(x) == IF a > b THEN x >= a \/ x < b ELSE a <= x /\ x < b
<1>1. Day \in Nat \ {0} /\ a \in 0..(Day - 1) /\ b \in 0..(Day - 1) /\ a # b
  BY BoundAssumption
<1>2. \A x : InHours(x, hours) <=> In(x)
  BY DEF InHours
<1> HIDE DEF a, b
<1>3. h \in 0..(Day - 1) /\ \A k \in 0..(Day - 1) :
        Hour(t + k) = IF h + k < Day THEN h + k ELSE h + k - Day
  <2>1. 0 \in 0..(Day - 1)
    BY <1>1
  <2> QED  BY <2>1, HourGoesOn
<1> HIDE DEF h
<1>8. h \in 0..(Day - 1)
  BY <1>3
<1>4. \A hour \in 0..(Day - 1) :
        /\ AtHour(hour, t) \in Nat /\ Hour(AtHour(hour, t)) = hour
        /\ AtHour(hour, t) - t \in 0..(Day - 1)
        /\ AtHour(hour, t) = t + (IF hour < h THEN hour - h + Day ELSE hour - h)
  BY NextTime DEF h
<1>6. ASSUME In(h)
      PROVE  /\ AtHour(b, t) > t /\ ~In(b)
             /\ \A u \in t..(AtHour(b, t) - 1) : In(Hour(u))
  <2> DEFINE w == AtHour(b, t)
  <2>1. w \in Nat /\ w - t \in 0..(Day - 1)
        /\ w = t + (IF b < h THEN b - h + Day ELSE b - h)
    BY <1>1, <1>4
  <2> HIDE DEF w
  <2>2. ~In(b) /\ b # h
    BY <1>1, <1>8, <1>6
  <2>3. w > t
    BY <1>1, <1>8, <2>1, <2>2
  <2>4. ASSUME NEW u \in t..(w - 1) PROVE In(Hour(u))
    <3> DEFINE k == u - t
    <3>1. k \in 0..(Day - 1) /\ t + k = u /\ k < w - t
      BY <1>1, <2>1
    <3>2. Hour(u) = IF h + k < Day THEN h + k ELSE h + k - Day
      BY <1>3, <3>1
    <3> HIDE DEF k
    <3> QED  BY <1>1, <1>8, <1>6, <2>1, <3>1, <3>2
  <2> QED  BY <2>2, <2>3, <2>4 DEF w
<1>7. ASSUME ~In(h)
      PROVE  /\ AtHour(a, t) > t /\ In(a)
             /\ \A u \in t..(AtHour(a, t) - 1) : ~In(Hour(u))
  <2> DEFINE w == AtHour(a, t)
  <2>1. w \in Nat /\ w - t \in 0..(Day - 1)
        /\ w = t + (IF a < h THEN a - h + Day ELSE a - h)
    BY <1>1, <1>4
  <2> HIDE DEF w
  <2>2. In(a) /\ a # h
    BY <1>1, <1>8, <1>7
  <2>3. w > t
    BY <1>1, <1>8, <2>1, <2>2
  <2>4. ASSUME NEW u \in t..(w - 1) PROVE ~In(Hour(u))
    <3> DEFINE k == u - t
    <3>1. k \in 0..(Day - 1) /\ t + k = u /\ k < w - t
      BY <1>1, <2>1
    <3>2. Hour(u) = IF h + k < Day THEN h + k ELSE h + k - Day
      BY <1>3, <3>1
    <3> HIDE DEF k
    <3> QED  BY <1>1, <1>8, <1>7, <2>1, <3>1, <3>2
  <2> QED  BY <2>2, <2>3, <2>4 DEF w
<1> HIDE DEF In
<1> QED  BY <1>1, <1>2, <1>4, <1>6, <1>7 DEF a, b, h

\* Powers of two are numbers of subsets.
LEMMA Powers ==
  ASSUME NEW n \in Nat
  PROVE  /\ 2 ^ n \in Nat /\ 2 ^ n > 0
         /\ \A m \in 0..n : 2 ^ m <= 2 ^ n
<1>1. \A k \in Nat : /\ IsFiniteSet(SUBSET (1..k)) /\ 2 ^ k = Cardinality(SUBSET (1..k))
  <2> SUFFICES ASSUME NEW k \in Nat
               PROVE  IsFiniteSet(SUBSET (1..k)) /\ 2 ^ k = Cardinality(SUBSET (1..k))
    OBVIOUS
  <2>1. 1 \in Int /\ k \in Int
    OBVIOUS
  <2>2. IsFiniteSet(1..k) /\ Cardinality(1..k) = IF 1 > k THEN 0 ELSE k - 1 + 1
    BY <2>1, FS_Interval, Zenon
  <2>3. Cardinality(1..k) = k
    BY <2>2
  <2>4. IsFiniteSet(SUBSET (1..k)) /\ Cardinality(SUBSET (1..k)) = 2 ^ Cardinality(1..k)
    BY <2>2, FS_SUBSET, Zenon
  <2> QED  BY <2>3, <2>4, Zenon
<1>2. \A k \in Nat : Cardinality(SUBSET (1..k)) \in Nat /\ Cardinality(SUBSET (1..k)) # 0
  <2> SUFFICES ASSUME NEW k \in Nat
               PROVE  /\ Cardinality(SUBSET (1..k)) \in Nat
                      /\ Cardinality(SUBSET (1..k)) # 0
    OBVIOUS
  <2>1. {} \in SUBSET (1..k)
    OBVIOUS
  <2> DEFINE S == SUBSET (1..k)
  <2>2. IsFiniteSet(S) /\ S # {}
    BY <1>1, <2>1
  <2> HIDE DEF S
  <2>3. Cardinality(S) \in Nat /\ Cardinality(S) # 0
    BY <2>2, FS_CardinalityType, FS_EmptySet
  <2> QED  BY <2>3 DEF S
<1>3. ASSUME NEW m \in 0..n PROVE 2 ^ m <= 2 ^ n
  <2>1. m \in Nat /\ SUBSET (1..m) \in SUBSET (SUBSET (1..n))
    OBVIOUS
  <2>2. Cardinality(SUBSET (1..m)) <= Cardinality(SUBSET (1..n))
    BY <1>1, <2>1, FS_Subset
  <2>3. 2 ^ m = Cardinality(SUBSET (1..m)) /\ 2 ^ n = Cardinality(SUBSET (1..n))
    BY <1>1, <2>1
  <2> QED  BY <2>2, <2>3, Zenon
<1>4. 2 ^ n = Cardinality(SUBSET (1..n))
  BY <1>1
<1>5. 2 ^ n \in Nat /\ 2 ^ n > 0
  <2> DEFINE c == Cardinality(SUBSET (1..n))
  <2>1. c \in Nat /\ c # 0 /\ 2 ^ n = c
    BY <1>2, <1>4
  <2> HIDE DEF c
  <2> QED  BY <2>1
<1> QED  BY <1>3, <1>5

-----------------------------------------------------------------------------
(***************************************************************************)
(* The horizons of the gates.                                              *)
(***************************************************************************)
\* The gates of a deployment.
LEMMA GatesOfSetup ==
  ASSUME setup \in Setups, NEW g \in Range(setup.stack)
  PROVE  /\ Think \in Nat /\ setup.zone \in Nat \cup {NoZone}
         /\ g.kind \in GateKind
         /\ g.kind = "backoff" =>
              /\ g.base \in Nat /\ g.base > Think /\ g.authorCap \in Nat
              /\ g.crewCap \in Nat /\ g.window \in Nat
         /\ g.kind = "quiet" =>
              g.hours.start \in 0..(Day - 1) /\ g.hours.end \in 0..(Day - 1)
         /\ g.kind = "cadence" =>
              /\ g.maxSleep \in Nat /\ g.daily \in BOOLEAN
              /\ g.daily => /\ g.hours.start \in 0..(Day - 1)
                            /\ g.hours.end \in 0..(Day - 1)
                            /\ g.hours.start # g.hours.end
              /\ DOMAIN g.rungs = 1..Len(g.rungs) /\ Len(g.rungs) \in Nat
              /\ \A k \in 1..Len(g.rungs) :
                   /\ g.rungs[k].every \in Nat /\ g.rungs[k].every > Think
                   /\ g.rungs[k].tries \in Nat
                   /\ g.rungs[k].tries = 0 => k = Len(g.rungs)
<1>1. PICK i \in DOMAIN setup.stack : g = setup.stack[i]
  BY DEF Range
<1>2. Think \in Nat
  BY BoundAssumption
<1>3. setup.zone \in Nat \cup {NoZone} /\ g.kind \in GateKind
  BY <1>1, SetupAssumption
<1>4. g.kind = "backoff" =>
        /\ g.base \in Nat /\ g.base > Think /\ g.authorCap \in Nat
        /\ g.crewCap \in Nat /\ g.window \in Nat
  BY <1>1, SetupAssumption
<1>5. g.kind = "quiet" =>
        g.hours.start \in 0..(Day - 1) /\ g.hours.end \in 0..(Day - 1)
  BY <1>1, SetupAssumption
<1>6. g.kind = "cadence" =>
        /\ g.maxSleep \in Nat /\ g.daily \in BOOLEAN
        /\ g.daily => /\ g.hours.start \in 0..(Day - 1)
                      /\ g.hours.end \in 0..(Day - 1)
                      /\ g.hours.start # g.hours.end
        /\ g.rungs \in Seq(Range(g.rungs))
        /\ \A k \in DOMAIN g.rungs :
             /\ g.rungs[k].every \in Nat /\ g.rungs[k].every > Think
             /\ g.rungs[k].tries \in Nat
             /\ g.rungs[k].tries = 0 => k = Len(g.rungs)
  BY <1>1, SetupAssumption
<1>7. g.kind = "cadence" => DOMAIN g.rungs = 1..Len(g.rungs) /\ Len(g.rungs) \in Nat
  BY <1>6
<1> QED  BY <1>2, <1>3, <1>4, <1>5, <1>6, <1>7

\* The wait of a backoff ends at a time.
LEMMA WakesInTime ==
  ASSUME Told, NEW g, g.base \in Nat,
         UnansweredProactive(Newest(Messages, g.window)) # {}
  PROVE  LET seen == UnansweredProactive(Newest(Messages, g.window)) IN
         log[Max(seen)].at + g.base * 2 ^ (Cardinality(seen) - 1) \in Nat
<1> DEFINE seen == UnansweredProactive(Newest(Messages, g.window))
<1>1. /\ seen \in SUBSET (0..Len(log)) /\ seen \in SUBSET DOMAIN log /\ Len(log) \in Nat
      /\ seen # {}
  BY Places DEF Told, Dated, UnansweredProactive, Newest, Messages
<1> HIDE DEF seen
<1>2. Max(seen) \in seen /\ Cardinality(seen) \in Nat
  BY <1>1, Greatest, Counted
<1>3. Cardinality(seen) # 0
  BY <1>1, Counted, FS_EmptySet
<1>4. Cardinality(seen) - 1 \in Nat
  BY <1>2, <1>3
<1> DEFINE p == 2 ^ (Cardinality(seen) - 1)
<1>5. p \in Nat
  BY <1>4, Powers
<1>6. log[Max(seen)].at \in Nat
  BY <1>1, <1>2 DEF Told, Dated
<1> HIDE DEF p
<1>7. g.base * p \in Nat
  BY <1>5
<1>8. log[Max(seen)].at + g.base * p \in Nat
  BY <1>6, <1>7
<1> QED  BY <1>8 DEF p, seen

LEMMA BackoffHorizon ==
  ASSUME Told, NEW g, g.base \in Nat, NEW r, ~Backoff(g, r, now).allowed
  PROVE  LET retry == Backoff(g, r, now).retry IN
         IF retry = 0 THEN \A t \in Nat : ~Backoff(g, r, t).allowed
         ELSE /\ retry \in Nat /\ retry > now /\ Backoff(g, r, retry).allowed
              /\ \A t \in now..(retry - 1) : ~Backoff(g, r, t).allowed
<1> DEFINE seen == UnansweredProactive(Newest(Messages, g.window))
           mine == {i \in seen : log[i].by = setup.actor[r]}
           full == \/ Cardinality(seen) >= g.crewCap
                   \/ g.authorCap # 0 /\ Cardinality(mine) >= g.authorCap
           wake == log[Max(seen)].at + g.base * 2 ^ (Cardinality(seen) - 1)
<1>1. \A t : Backoff(g, r, t) = IF full THEN Denied(0)
                               ELSE IF seen # {} /\ t < wake THEN Denied(wake) ELSE Clear
  BY DEF Backoff
<1>2. CASE full
  <2> HIDE DEF full, seen, wake
  <2> QED  BY <1>1, <1>2 DEF Denied
<1>3. CASE ~full
  <2>1. seen # {} /\ now < wake
    <3> HIDE DEF full, seen, wake
    <3> QED  BY <1>1, <1>3 DEF Clear
  <2>2. wake \in Nat
    BY <2>1, WakesInTime
  <2>3. now \in Nat
    BY DEF Told, Dated
  <2> HIDE DEF full, seen, wake
  <2>4. Backoff(g, r, now).retry = wake /\ wake # 0
    BY <1>1, <1>3, <2>1, <2>2, <2>3 DEF Denied
  <2>5. Backoff(g, r, wake).allowed
    <3>1. ~(wake < wake)
      BY <2>2
    <3> QED  BY <1>1, <1>3, <3>1 DEF Clear
  <2>6. \A t \in now..(wake - 1) : ~Backoff(g, r, t).allowed
    <3> SUFFICES ASSUME NEW t \in now..(wake - 1) PROVE ~Backoff(g, r, t).allowed
      OBVIOUS
    <3>1. t < wake
      BY <2>2, <2>3
    <3> QED  BY <1>1, <1>3, <2>1, <3>1 DEF Denied
  <2> QED  BY <2>1, <2>2, <2>4, <2>5, <2>6
<1> QED  BY <1>2, <1>3

LEMMA QuietHoursHorizon ==
  ASSUME setup.zone \in Nat \cup {NoZone}, now \in Nat, NEW g,
         g.hours.start \in 0..(Day - 1), g.hours.end \in 0..(Day - 1),
         ~QuietHours(g, now).allowed
  PROVE  LET retry == QuietHours(g, now).retry IN
         IF retry = 0 THEN \A t \in Nat : ~QuietHours(g, t).allowed
         ELSE /\ retry \in Nat /\ retry > now /\ QuietHours(g, retry).allowed
              /\ \A t \in now..(retry - 1) : ~QuietHours(g, t).allowed
<1>1. CASE setup.zone = NoZone
  BY <1>1 DEF QuietHours, Denied
<1>2. CASE setup.zone # NoZone
  <2> DEFINE w == AtHour(g.hours.end, now)
  <2>1. /\ \A t : QuietHours(g, t).allowed <=> ~InHours(Hour(t), g.hours)
        /\ InHours(Hour(now), g.hours) /\ QuietHours(g, now).retry = w
    BY <1>2 DEF QuietHours, Denied, Clear
  <2>2. g.hours.start # g.hours.end
    <3>1. CASE g.hours.start = g.hours.end
      <4> DEFINE h == Hour(now)
                 b == g.hours.end
      <4>1. 0 \in 0..(Day - 1) /\ b \in 0..(Day - 1)
        BY BoundAssumption
      <4>2. h \in 0..(Day - 1)
        BY <1>2, <4>1, HourGoesOn
      <4>3. b <= h /\ h < b
        <5>1. InHours(h, g.hours) = (b <= h /\ h < b)
          BY <3>1, <4>1 DEF InHours
        <5> QED  BY <2>1, <5>1
      <4> HIDE DEF h, b
      <4> QED  BY <4>1, <4>2, <4>3
    <3> QED  BY <3>1
  <2>3. /\ w > now /\ ~InHours(Hour(w), g.hours)
        /\ \A u \in now..(w - 1) : InHours(Hour(u), g.hours)
    BY <1>2, <2>1, <2>2, HoursLast
  <2>4. w \in Nat
    BY <1>2, NextTime
  <2> HIDE DEF w
  <2> QED  BY <2>1, <2>3, <2>4
<1> QED  BY <1>1, <1>2

\* It is due when the wait after the last message is over.
LEMMA DueInTime ==
  ASSUME Told, NEW g \in Range(setup.stack), g.kind = "cadence",
         Unanswered(g) # {}, Wait(g) # 0
  PROVE  /\ Due(g) \in Nat /\ Wait(g) \in Nat /\ Wait(g) > Think
         /\ \A i \in Unanswered(g) : log[i].at \in Nat /\ log[i].at + Wait(g) <= Due(g)
<1>1. setup \in Setups /\ now \in Nat
  BY DEF Told, Dated
<1>2. Wait(g) \in Nat /\ Wait(g) > Think
  <2>1. /\ DOMAIN g.rungs = 1..Len(g.rungs) /\ Len(g.rungs) \in Nat
        /\ \A k \in 1..Len(g.rungs) : g.rungs[k].every \in Nat /\ g.rungs[k].every > Think
    BY <1>1, GatesOfSetup
  <2>2. \E k \in 1..Len(g.rungs) : Wait(g) = g.rungs[k].every
    BY <2>1, WaitOfRung DEF Wait
  <2> QED  BY <2>1, <2>2
<1> DEFINE T == {log[i].at : i \in Unanswered(g)}
<1>3. \A i \in Unanswered(g) : log[i].at \in 1..now
  BY DEF Told, Dated, Unanswered, Newest, Outreaches
<1>4. T \in SUBSET (0..now) /\ T # {}
  BY <1>1, <1>3
<1>5. \A i \in Unanswered(g) : log[i].at \in T
  OBVIOUS
<1>6. Due(g) = Max(T) + Wait(g)
  BY DEF Due
<1> HIDE DEF T
<1>7. Max(T) \in T /\ \A m \in T : m <= Max(T)
  BY <1>1, <1>4, Greatest
<1>8. Max(T) \in Nat /\ Due(g) \in Nat
  <2>1. Max(T) \in 0..now
    BY <1>4, <1>7
  <2> QED  BY <1>1, <1>2, <1>6, <2>1
<1>9. \A i \in Unanswered(g) : log[i].at \in Nat /\ log[i].at <= Max(T)
  <2> SUFFICES ASSUME NEW i \in Unanswered(g)
               PROVE  log[i].at \in Nat /\ log[i].at <= Max(T)
    OBVIOUS
  <2>1. log[i].at \in 1..now /\ log[i].at \in T
    BY <1>3, <1>5
  <2> QED  BY <1>1, <1>7, <2>1
<1>10. \A i \in Unanswered(g) : log[i].at + Wait(g) <= Due(g)
  <2> SUFFICES ASSUME NEW i \in Unanswered(g) PROVE log[i].at + Wait(g) <= Due(g)
    OBVIOUS
  <2>1. log[i].at \in Nat /\ log[i].at <= Max(T)
    BY <1>9
  <2> QED  BY <1>2, <1>6, <1>8, <2>1
<1> QED  BY <1>2, <1>8, <1>9, <1>10

\* It lands within the delivery hours, not before it is due.
LEMMA LandsInHours ==
  ASSUME Told, NEW g \in Range(setup.stack), g.kind = "cadence",
         Unanswered(g) # {}, Wait(g) # 0, g.daily => setup.zone # NoZone
  PROVE  /\ Landing(g) \in Nat /\ Due(g) <= Landing(g)
         /\ g.daily => InHours(Hour(Landing(g)), g.hours)
<1>1. setup \in Setups /\ Due(g) \in Nat
  BY DueInTime DEF Told, Dated
<1>2. CASE ~g.daily \/ InHours(Hour(Due(g)), g.hours)
  BY <1>1, <1>2 DEF Landing
<1>3. CASE g.daily /\ ~InHours(Hour(Due(g)), g.hours)
  <2>1. Landing(g) = AtHour(g.hours.start, Due(g))
    BY <1>3 DEF Landing
  <2>2. /\ setup.zone \in Nat /\ g.hours.start \in 0..(Day - 1)
        /\ g.hours.end \in 0..(Day - 1) /\ g.hours.start # g.hours.end
    BY <1>1, <1>3, GatesOfSetup
  <2>3. InHours(Hour(AtHour(g.hours.start, Due(g))), g.hours)
    BY <1>1, <1>3, <2>2, HoursLast
  <2>4. /\ AtHour(g.hours.start, Due(g)) \in Nat
        /\ Due(g) <= AtHour(g.hours.start, Due(g))
    BY <1>1, <2>2, NextTime
  <2> QED  BY <2>1, <2>3, <2>4
<1> QED  BY <1>2, <1>3

LEMMA BoundedSleep ==
  ASSUME NEW g, g.maxSleep \in Nat, NEW t \in Nat, NEW w \in Nat, w > t
  PROVE  /\ Bounded(g, w, t) \in Nat /\ Bounded(g, w, t) > t /\ Bounded(g, w, t) <= w
         /\ \/ Bounded(g, w, t) = w
            \/ g.maxSleep # 0 /\ Bounded(g, w, t) = t + g.maxSleep
<1>1. CASE g.maxSleep = 0
  BY <1>1 DEF Bounded
<1>2. CASE g.maxSleep # 0
  <2> DEFINE s == t + g.maxSleep
             S == {w, s}
  <2>1. s \in Nat /\ s > t /\ S \in SUBSET Nat /\ S # {}
    BY <1>2
  <2>2. Bounded(g, w, t) = Min(S)
    BY <1>2 DEF Bounded
  <2>3. Min(S) \in S /\ \A m \in S : Min(S) <= m
    <3> HIDE DEF S
    <3> QED  BY <2>1, Least
  <2> HIDE DEF s
  <2>4. Min(S) \in {w, s} /\ Min(S) <= w
    BY <2>3
  <2> HIDE DEF S
  <2> QED  BY <1>2, <2>1, <2>2, <2>4 DEF s
<1> QED  BY <1>1, <1>2

LEMMA CadenceHorizon ==
  ASSUME Told, NEW g \in Range(setup.stack), g.kind = "cadence", ~Cadence(g, now).allowed
  PROVE  LET retry == Cadence(g, now).retry IN
         IF retry = 0 THEN \A t \in Nat : ~Cadence(g, t).allowed
         ELSE /\ retry \in Nat /\ retry > now
              /\ \A t \in now..(retry - 1) : ~Cadence(g, t).allowed
              /\ \/ Cadence(g, retry).allowed
                 \/ g.maxSleep # 0 /\ retry = now + g.maxSleep
<1>1. /\ setup \in Setups /\ now \in Nat /\ g.maxSleep \in Nat
      /\ setup.zone \in Nat \cup {NoZone}
  BY GatesOfSetup DEF Told, Dated
<1> DEFINE never == Wait(g) = 0 \/ (g.daily /\ setup.zone = NoZone)
           l == Landing(g)
           Shut(t) == g.daily /\ ~InHours(Hour(t), g.hours)
           w == AtHour(g.hours.start, now)
<1>2. Unanswered(g) # {}
  BY CadenceInSteps DEF Clear
<1>3. \A t : Cadence(g, t) =
        IF never THEN Denied(0)
        ELSE IF t < l THEN Denied(Bounded(g, l, t))
        ELSE IF Shut(t) THEN Denied(Bounded(g, AtHour(g.hours.start, t), t))
        ELSE Clear
  BY <1>2, CadenceInSteps
<1>4. CASE never
  <2> HIDE DEF never, l, Shut
  <2> QED  BY <1>3, <1>4 DEF Denied
<1>5. CASE ~never
  <2>1. l \in Nat /\ ~Shut(l)
    BY <1>2, <1>5, LandsInHours
  <2>2. \A t : Cadence(g, t).allowed <=> ~(t < l) /\ ~Shut(t)
    <3> HIDE DEF never, l, Shut
    <3> QED  BY <1>3, <1>5 DEF Denied, Clear
  <2>3. CASE now < l
    <3> HIDE DEF never, l, Shut
    <3> DEFINE retry == Bounded(g, l, now)
    <3>1. /\ retry \in Nat /\ retry > now /\ retry <= l
          /\ retry = l \/ (g.maxSleep # 0 /\ retry = now + g.maxSleep)
      BY <1>1, <2>1, <2>3, BoundedSleep
    <3>2. Cadence(g, now).retry = retry
      BY <1>3, <1>5, <2>3 DEF Denied
    <3> HIDE DEF retry
    <3>3. \A t \in now..(retry - 1) : t < l
      BY <1>1, <2>1, <3>1
    <3>4. ~(l < l)
      BY <2>1
    <3> QED  BY <1>1, <2>1, <2>2, <3>1, <3>2, <3>3, <3>4
  <2>4. CASE ~(now < l)
    <3>1. Shut(now)
      <4> HIDE DEF Shut, l
      <4> QED  BY <2>2, <2>4
    <3>2. /\ setup.zone \in Nat /\ g.hours.start \in 0..(Day - 1)
          /\ g.hours.end \in 0..(Day - 1) /\ g.hours.start # g.hours.end
      BY <1>1, <1>5, <3>1, GatesOfSetup
    <3>3. w \in Nat /\ w > now /\ ~Shut(w) /\ \A u \in now..(w - 1) : Shut(u)
      BY <1>1, <3>1, <3>2, HoursLast, NextTime
    <3> DEFINE retry == Bounded(g, w, now)
    <3>4. Cadence(g, now).retry = retry
      <4> HIDE DEF never, l, Shut
      <4> QED  BY <1>3, <1>5, <2>4, <3>1 DEF Denied
    <3> HIDE DEF never, l, Shut, w
    <3>5. /\ retry \in Nat /\ retry > now /\ retry <= w
          /\ retry = w \/ (g.maxSleep # 0 /\ retry = now + g.maxSleep)
      BY <1>1, <3>3, BoundedSleep
    <3> HIDE DEF retry
    <3>6. \A t \in now..(retry - 1) : t \in now..(w - 1)
      BY <1>1, <3>3, <3>5
    <3>7. ~(w < l)
      BY <1>1, <2>1, <2>4, <3>3
    <3> QED  BY <1>1, <2>2, <3>3, <3>4, <3>5, <3>6, <3>7
  <2> QED  BY <2>3, <2>4
<1> QED  BY <1>4, <1>5

LEMMA ExactWhenTold == Told => HorizonsAreExact
<1> SUFFICES ASSUME Told, NEW g \in Range(setup.stack), NEW r \in Rhythm,
                    ~Verdict(g, r, now).allowed
             PROVE  LET retry == Verdict(g, r, now).retry IN
                    IF retry = 0 THEN \A t \in now..Ahead : ~Verdict(g, r, t).allowed
                    ELSE /\ retry > now
                         /\ \A t \in now..(retry - 1) : ~Verdict(g, r, t).allowed
                         /\ \/ Verdict(g, r, retry).allowed
                            \/ /\ g.kind = "cadence" /\ g.maxSleep # 0
                               /\ retry = now + g.maxSleep
  BY DEF HorizonsAreExact
<1>1. setup \in Setups /\ now \in Nat
  BY DEF Told, Dated
<1>2. \A t \in now..Ahead : t \in Nat
  BY <1>1
<1>3. CASE g.kind = "backoff"
  <2>1. \A t : Verdict(g, r, t) = Backoff(g, r, t)
    BY <1>3 DEF Verdict
  <2>2. g.base \in Nat
    BY <1>1, <1>3, GatesOfSetup
  <2> QED  BY <1>2, <2>1, <2>2, BackoffHorizon
<1>4. CASE g.kind = "quiet"
  <2>1. \A t : Verdict(g, r, t) = QuietHours(g, t)
    BY <1>4 DEF Verdict
  <2>2. /\ setup.zone \in Nat \cup {NoZone}
        /\ g.hours.start \in 0..(Day - 1) /\ g.hours.end \in 0..(Day - 1)
    BY <1>1, <1>4, GatesOfSetup
  <2> QED  BY <1>1, <1>2, <2>1, <2>2, QuietHoursHorizon
<1>5. CASE g.kind = "cadence"
  <2>1. \A t : Verdict(g, r, t) = Cadence(g, t)
    BY <1>5 DEF Verdict
  <2> QED  BY <1>2, <1>5, <2>1, CadenceHorizon
<1>6. g.kind \in GateKind
  BY <1>1, GatesOfSetup
<1> QED  BY <1>3, <1>4, <1>5, <1>6 DEF GateKind

\* A denial names the very time at which the gate will say yes if nobody does
\* anything (or the recheck after max_sleep, if that is earlier), and a denial
\* without one is for ever: for any hours, zones, intervals, ladders and logs.
THEOREM ExactHorizons == Spec => []HorizonsAreExact
<1>1. CInv => HorizonsAreExact
  BY ExactWhenTold DEF CInv
<1> QED
  BY <1>1, InitNInv, NextNInv, InitCInv, NextCInv, PTL DEF Spec

-----------------------------------------------------------------------------
(***************************************************************************)
(* Types.  The horizon of a denial is a time, whenever it is asked for.    *)
(***************************************************************************)
LEMMA RetryIsATime ==
  ASSUME Told, NEW g \in Range(setup.stack), NEW r, NEW t \in Nat
  PROVE  Verdict(g, r, t).retry \in Nat
<1>1. setup \in Setups
  BY DEF Told, Dated
<1>2. CASE g.kind = "backoff"
  <2> DEFINE seen == UnansweredProactive(Newest(Messages, g.window))
             mine == {i \in seen : log[i].by = setup.actor[r]}
             full == \/ Cardinality(seen) >= g.crewCap
                     \/ g.authorCap # 0 /\ Cardinality(mine) >= g.authorCap
             wake == log[Max(seen)].at + g.base * 2 ^ (Cardinality(seen) - 1)
  <2>1. Verdict(g, r, t) = IF full THEN Denied(0)
                           ELSE IF seen # {} /\ t < wake THEN Denied(wake) ELSE Clear
    BY <1>2 DEF Verdict, Backoff
  <2>2. g.base \in Nat
    BY <1>1, <1>2, GatesOfSetup
  <2>3. seen # {} => wake \in Nat
    BY <2>2, WakesInTime
  <2> HIDE DEF full, seen, wake
  <2> QED  BY <2>1, <2>3 DEF Denied, Clear
<1>3. CASE g.kind = "quiet"
  <2>1. Verdict(g, r, t) = QuietHours(g, t)
    BY <1>3 DEF Verdict
  <2>2. g.hours.end \in 0..(Day - 1) /\ setup.zone \in Nat \cup {NoZone}
    BY <1>1, <1>3, GatesOfSetup
  <2>3. setup.zone # NoZone => AtHour(g.hours.end, t) \in Nat
    BY <2>2, NextTime
  <2> QED  BY <2>1, <2>3 DEF QuietHours, Denied, Clear
<1>4. CASE g.kind = "cadence"
  <2>1. Verdict(g, r, t) = Cadence(g, t)
    BY <1>4 DEF Verdict
  <2>2. g.maxSleep \in Nat /\ g.daily \in BOOLEAN /\ setup.zone \in Nat \cup {NoZone}
    BY <1>1, <1>4, GatesOfSetup
  <2> DEFINE never == Wait(g) = 0 \/ (g.daily /\ setup.zone = NoZone)
             l == Landing(g)
             w == AtHour(g.hours.start, t)
             Shut == g.daily /\ ~InHours(Hour(t), g.hours)
  <2>3. \/ Cadence(g, t) = Clear \/ Cadence(g, t) = Denied(0)
        \/ /\ Unanswered(g) # {} /\ ~never
           /\ \/ t < l /\ Cadence(g, t) = Denied(Bounded(g, l, t))
              \/ Shut /\ Cadence(g, t) = Denied(Bounded(g, w, t))
    BY CadenceInSteps
  <2>4. ASSUME Unanswered(g) # {}, ~never, t < l PROVE Bounded(g, l, t) \in Nat
    <3>1. l \in Nat
      BY <1>4, <2>4, LandsInHours
    <3> HIDE DEF l
    <3> QED  BY <2>2, <2>4, <3>1, BoundedSleep
  <2>5. ASSUME Unanswered(g) # {}, ~never, Shut PROVE Bounded(g, w, t) \in Nat
    <3>1. /\ setup.zone \in Nat /\ g.hours.start \in 0..(Day - 1)
          /\ g.hours.end \in 0..(Day - 1) /\ g.hours.start # g.hours.end
      BY <1>1, <1>4, <2>5, GatesOfSetup
    <3>2. w \in Nat /\ w > t
      BY <2>5, <3>1, HoursLast, NextTime
    <3> HIDE DEF w
    <3> QED  BY <2>2, <3>2, BoundedSleep
  <2> HIDE DEF never, l, w, Shut
  <2> QED  BY <2>1, <2>3, <2>4, <2>5 DEF Denied, Clear
<1>5. g.kind \in GateKind
  BY <1>1, GatesOfSetup
<1> QED  BY <1>2, <1>3, <1>4, <1>5 DEF GateKind

LEMMA StackRetryIsATime ==
  ASSUME Told, NEW r, NEW t \in Nat
  PROVE  AllOf(r, t).retry \in Nat
<1> DEFINE verdicts == [j \in DOMAIN setup.stack |-> Verdict(setup.stack[j], r, t)]
           I == {j \in 1..Len(verdicts) : ~verdicts[j].allowed}
<1>1. setup \in Setups
  BY DEF Told, Dated
<1>2. /\ Len(verdicts) = Len(setup.stack) /\ DOMAIN setup.stack = 1..Len(setup.stack)
  BY <1>1, SetupAssumption
<1>3. AllOf(r, t) = LET denial == IF I # {} THEN Min(I) ELSE 0
                    IN  IF denial = 0 THEN Clear ELSE verdicts[denial]
  BY DEF AllOf, SelectInSeq
<1>4. I \in SUBSET Nat /\ I \in SUBSET DOMAIN setup.stack /\ 0 \notin I
  BY <1>2
<1>5. \A j \in DOMAIN setup.stack : verdicts[j].retry \in Nat
  BY RetryIsATime DEF Range
<1> HIDE DEF I, verdicts
<1>6. CASE I = {}
  BY <1>3, <1>6 DEF Clear
<1>7. CASE I # {}
  <2>1. Min(I) \in I
    BY <1>4, <1>7, Least
  <2> QED  BY <1>3, <1>4, <1>5, <1>7, <2>1 DEF Clear
<1> QED  BY <1>6, <1>7

LEMMA InitTyped == Init => TypeOK
<1> SUFFICES ASSUME Init PROVE TypeOK
  OBVIOUS
<1>1. setup \in Setups /\ setup.until \in 1..MaxTime /\ setup.lines \in Nat
  BY SetupAssumption DEF Init
<1>2. MaxTime \in Nat /\ 1 \in 1..setup.until
  BY <1>1, BoundAssumption
<1> QED  BY <1>1, <1>2 DEF Init, TypeOK

LEMMA NextTyped ==
  ASSUME TypeOK, Told, [Next]_vars
  PROVE  TypeOK'
<1>1. /\ setup \in Setups /\ now \in 1..setup.until
      /\ setup.until \in 1..MaxTime /\ MaxTime \in Nat /\ setup.lines \in Nat
      /\ log \in Seq(Event) /\ next \in [Rhythm -> Nat]
      /\ at \in [Rhythm -> 0..MaxTime] /\ \A r \in Rhythm : at[r] <= now
      /\ cleared \in [Rhythm -> BOOLEAN]
      /\ \A r \in Rhythm : cleared[r] => at[r] # 0
      /\ said \in [Rhythm -> 0..setup.lines]
      /\ \A r \in Rhythm : said[r] # 0 => cleared[r]
  BY BoundAssumption, SetupAssumption DEF TypeOK
<1>2. setup' = setup
  BY SetupStays
<1>3. now \in 1..MaxTime
  BY <1>1
<1>4. Crew \in SUBSET Agent /\ \A r \in Rhythm : \A a \in setup.cast[r] : a \in Crew
  <2>1. DOMAIN setup.cast = Rhythm
    BY <1>1, SetupAssumption
  <2> QED  BY <1>1, <2>1 DEF Crew, Agent, Range
<1>5. ASSUME NEW e \in Event, Record(e) PROVE log' \in Seq(Event)
  BY <1>1, <1>5 DEF Record
<1>6. ASSUME NEW r \in Rhythm, NEW horizon \in Nat, End(r, horizon) PROVE TypeOK'
  BY <1>1, <1>6 DEF End, TypeOK
<1>7. ASSUME UNCHANGED <<now, next, at, cleared, said>>, log' \in Seq(Event) PROVE TypeOK'
  BY <1>1, <1>2, <1>7 DEF TypeOK
<1>8. CASE Advance
  <2>1. now' \in 1..setup.until /\ now' \in Nat /\ now <= now'
    BY <1>1, <1>8 DEF Advance
  <2>2. \A r \in Rhythm : at[r] <= now'
    BY <1>1, <2>1
  <2> QED  BY <1>1, <1>8, <2>1, <2>2 DEF Advance, TypeOK
<1>9. CASE UNCHANGED vars
  BY <1>1, <1>7, <1>9 DEF vars
<1>10. ASSUME NEW kind \in {"message", "action"}, NEW when \in 1..now, Shows(kind, when)
       PROVE  TypeOK'
  <2> DEFINE e == [by |-> User, kind |-> kind, proactive |-> FALSE, at |-> when]
  <2>1. when \in 1..MaxTime
    BY <1>1, <1>3
  <2>2. e \in Event /\ Record(e)
    BY <1>10, <2>1 DEF Shows, Event
  <2> HIDE DEF e
  <2> QED  BY <1>5, <1>7, <1>10, <2>2 DEF Shows
<1>11. ASSUME NEW a \in Crew, AgentTalks(a) PROVE TypeOK'
  <2> DEFINE e == [by |-> a, kind |-> "message", proactive |-> FALSE, at |-> now]
  <2>1. e \in Event /\ Record(e)
    BY <1>3, <1>4, <1>11 DEF AgentTalks, Event
  <2> HIDE DEF e
  <2> QED  BY <1>5, <1>7, <1>11, <2>1 DEF AgentTalks
<1>12. ASSUME NEW r \in Rhythm, Claim(r) PROVE TypeOK'
  BY <1>1, <1>3, <1>12 DEF Claim, TypeOK
<1>13. \A r \in Rhythm : at[r] \in Nat /\ at[r] + 1 \in Nat /\ at[r] + DenialRecheck \in Nat
  BY <1>1, BoundAssumption
<1>14. ASSUME NEW r \in Rhythm, Deny(r) PROVE TypeOK'
  <2>1. AllOf(r, at[r]).retry \in Nat
    BY <1>13, StackRetryIsATime
  <2>2. PICK horizon \in Nat : End(r, horizon)
    BY <1>13, <1>14, <2>1 DEF Deny
  <2> QED  BY <1>6, <2>2
<1>15. ASSUME NEW r \in Rhythm, Pass(r) PROVE TypeOK'
  BY <1>1, <1>15 DEF Pass, TypeOK
<1>16. ASSUME NEW r \in Rhythm, NEW a \in setup.cast[r], Speak(r, a) PROVE TypeOK'
  <2> DEFINE e == [by |-> a, kind |-> "message", proactive |-> TRUE, at |-> now]
  <2>1. a \in Agent
    BY <1>4
  <2>2. e \in Event /\ Record(e)
    BY <1>3, <1>16, <2>1 DEF Speak, Event
  <2> HIDE DEF e
  <2>3. log' \in Seq(Event)
    BY <1>5, <2>2
  <2>4. /\ said' = [said EXCEPT ![r] = @ + 1] /\ said[r] < setup.lines
        /\ cleared[r] /\ UNCHANGED <<setup, now, next, at, cleared>>
    BY <1>16 DEF Speak
  <2>5. said' \in [Rhythm -> 0..setup.lines]
    BY <1>1, <2>4
  <2>6. \A q \in Rhythm : said'[q] # 0 => cleared'[q]
    BY <1>1, <2>4
  <2> QED  BY <1>1, <2>3, <2>4, <2>5, <2>6 DEF TypeOK
<1>17. ASSUME NEW r \in Rhythm, Finish(r) PROVE TypeOK'
  BY <1>6, <1>13, <1>17 DEF Finish
<1>18. UserSpeaks => TypeOK'
  <2>1. now \in 1..now
    BY <1>1
  <2> QED  BY <1>10, <2>1 DEF UserSpeaks
<1>19. \A when \in 1..now : UserActs(when) => TypeOK'
  BY <1>10 DEF UserActs
<1> QED
  BY <1>8, <1>9, <1>11, <1>12, <1>14, <1>15, <1>16, <1>17, <1>18, <1>19 DEF Next, Rest

\* Events, horizons and firings keep their types: in particular every horizon that
\* a stack of gates computes from a log is a time, and no firing is let through
\* that was not claimed.
THEOREM TypeCorrect == Spec => []TypeOK
<1>1. CInv => Told
  BY DEF CInv
<1> QED
  BY <1>1, InitTyped, NextTyped, InitNInv, NextNInv, InitCInv, NextCInv, PTL DEF Spec

-----------------------------------------------------------------------------
(***************************************************************************)
(* The quiet that the gates ask for grows with the chain.                  *)
(***************************************************************************)
Counting == Gates("backoff") \cup Gates("cadence")

\* Ladders are climbed: no rung waits less than the one before it.
Rising(g) ==
  \A k, l \in 1..Len(g.rungs) : k <= l => g.rungs[k].every <= g.rungs[l].every
LaddersRise ==
  \A s \in Setups : \A g \in Range(s.stack) : g.kind = "cadence" => Rising(g)

LEMMA LadderClimbs ==
  ASSUME setup \in Setups, NEW g \in Range(setup.stack), g.kind = "cadence", Rising(g),
         NEW k \in 1..Len(g.rungs), NEW n \in Nat,
         g.rungs[k].tries = 0 \/ n <= Tries(g.rungs, k),
         NEW m \in 1..n
  PROVE  /\ Quiet(g, m) \in Nat /\ Quiet(g, m) > Think
         /\ Quiet(g, m) <= g.rungs[k].every
<1> DEFINE rungs == g.rungs
           L == Len(rungs)
           T(l) == Tries(rungs, l)
           covers == {l \in 1..L : rungs[l].tries = 0 \/ m <= T(l)}
           fits == {l \in DOMAIN rungs : T(l - 1) < m /\ (rungs[l].tries = 0 \/ m <= T(l))}
           c == CHOOSE l \in fits : TRUE
<1>1. /\ DOMAIN rungs = 1..L /\ L \in Nat
      /\ \A l \in 1..L : /\ rungs[l].every \in Nat /\ rungs[l].every > Think
                         /\ rungs[l].tries \in Nat
                         /\ rungs[l].tries = 0 => l = L
  BY GatesOfSetup
<1>2. Quiet(g, m) = IF fits = {} THEN 0 ELSE rungs[c].every
  BY DEF Quiet
<1>3. \A i \in 0..L : \A j \in 0..i : T(j) \in Nat /\ T(i) \in Nat /\ T(j) <= T(i)
  <2> SUFFICES ASSUME NEW i \in 0..L, NEW j \in 0..i
               PROVE  T(j) \in Nat /\ T(i) \in Nat /\ T(j) <= T(i)
    OBVIOUS
  <2>1. i \in Nat /\ \A l \in 1..i : rungs[l].tries \in Nat
    BY <1>1
  <2> HIDE DEF rungs
  <2> QED  BY <2>1, TriesGrow
<1>4. T(0) = 0
  <2>1. {{i} \X (1..rungs[i].tries) : i \in 1..0} = {}
    OBVIOUS
  <2>2. UNION {{i} \X (1..rungs[i].tries) : i \in 1..0} = {}
    BY <2>1
  <2>3. Cardinality({}) = 0
    BY FS_EmptySet
  <2>4. T(0) = Cardinality(UNION {{i} \X (1..rungs[i].tries) : i \in 1..0})
    BY DEF Tries
  <2> QED  BY <2>2, <2>3, <2>4, Zenon
<1>5. L \in Nat /\ k \in 1..L /\ (rungs[k].tries = 0 \/ n <= T(k))
  BY <1>1
<1>6. \A i, j \in 1..L : i <= j => rungs[i].every <= rungs[j].every
  BY DEF Rising
<1> HIDE DEF rungs, L, T
<1>7. k \in covers
  <2>1. T(k) \in Nat
    BY <1>3, <1>5
  <2> QED  BY <1>5, <2>1
<1>8. fits # {}
  <2> DEFINE l == Min(covers)
  <2>1. l \in covers /\ \A j \in covers : l <= j
    <3>1. covers \in SUBSET Nat /\ covers # {}
      BY <1>7
    <3> HIDE DEF covers
    <3> QED  BY <3>1, Least
  <2> HIDE DEF l
  <2>2. l \in 1..L /\ (rungs[l].tries = 0 \/ m <= T(l))
    BY <2>1
  <2>3. T(l - 1) < m
    <3>1. CASE l = 1
      <4>1. l - 1 = 0
        BY <3>1
      <4> QED  BY <1>4, <4>1
    <3>2. CASE l # 1
      <4>1. l - 1 \in 1..L /\ ~(l <= l - 1) /\ l - 1 \in 0..L /\ l - 1 \in 0..(l - 1)
        BY <1>5, <2>2, <3>2
      <4>2. T(l - 1) \in Nat
        BY <1>3, <4>1
      <4>3. ~(m <= T(l - 1))
        BY <2>1, <4>1
      <4> QED  BY <4>2, <4>3
    <3> QED  BY <3>1, <3>2
  <2>4. l \in fits
    BY <1>1, <2>2, <2>3 DEF rungs, L
  <2> QED  BY <2>4
<1>9. c \in fits
  BY <1>8
<1> HIDE DEF c
<1>10. c \in 1..L /\ T(c - 1) < m
  BY <1>1, <1>9
<1>11. c <= k
  <2> SUFFICES ASSUME k < c PROVE FALSE
    BY <1>5, <1>10
  <2>1. c - 1 \in 0..L /\ k \in 0..(c - 1) /\ k # L
    BY <1>5, <1>10
  <2>2. T(k) \in Nat /\ T(c - 1) \in Nat /\ T(k) <= T(c - 1)
    BY <1>3, <2>1
  <2>3. n <= T(k)
    BY <1>1, <1>5, <2>1
  <2> QED  BY <1>10, <2>2, <2>3
<1>12. rungs[c].every <= rungs[k].every
  BY <1>5, <1>6, <1>10, <1>11
<1>13. rungs[c].every \in Nat /\ rungs[c].every > Think
  BY <1>1, <1>10
<1> HIDE DEF fits
<1> QED  BY <1>2, <1>8, <1>12, <1>13 DEF rungs

LEMMA QuietRises ==
  ASSUME setup \in Setups, LaddersRise, NEW g \in Counting,
         NEW n \in Nat, Quiet(g, n) # 0, NEW m \in 1..n
  PROVE  /\ Quiet(g, m) \in Nat /\ Quiet(g, m) > Think
         /\ Quiet(g, n) \in Nat /\ Quiet(g, m) <= Quiet(g, n)
<1>1. g \in Range(setup.stack) /\ g.kind \in {"backoff", "cadence"}
  BY DEF Counting, Gates
<1>2. CASE g.kind = "backoff"
  <2>1. g.base \in Nat /\ g.base > Think /\ Think \in Nat
    BY <1>1, <1>2, GatesOfSetup
  <2> DEFINE p == 2 ^ (m - 1)
             q == 2 ^ (n - 1)
  <2>2. p \in Nat /\ q \in Nat /\ p > 0 /\ p <= q
    <3>1. m - 1 \in Nat /\ n - 1 \in Nat /\ m - 1 \in 0..(n - 1)
      OBVIOUS
    <3> DEFINE a == m - 1
               b == n - 1
    <3> HIDE DEF a, b
    <3>2. a \in Nat /\ b \in Nat /\ a \in 0..b
      BY <3>1 DEF a, b
    <3>3. 2 ^ a \in Nat /\ 2 ^ a > 0 /\ 2 ^ b \in Nat /\ 2 ^ a <= 2 ^ b
      BY <3>2, Powers
    <3> QED  BY <3>3 DEF a, b
  <2>3. Quiet(g, m) = g.base * p /\ Quiet(g, n) = g.base * q
    BY <1>2 DEF Quiet
  <2> HIDE DEF p, q
  <2> DEFINE x == g.base
  <2>4. x \in Nat /\ x > Think
    BY <2>1
  <2> HIDE DEF x
  <2>5. x * p \in Nat /\ x * q \in Nat /\ x * 1 <= x * p /\ x * p <= x * q
    BY <2>2, <2>4
  <2>6. x * p > Think
    BY <2>1, <2>4, <2>5
  <2> QED  BY <2>3, <2>5, <2>6 DEF x
<1>3. CASE g.kind = "cadence"
  <2> DEFINE fits == {k \in DOMAIN g.rungs :
                        /\ Tries(g.rungs, k - 1) < n
                        /\ g.rungs[k].tries = 0 \/ n <= Tries(g.rungs, k)}
             k == CHOOSE l \in fits : TRUE
  <2>1. Quiet(g, n) = IF fits = {} THEN 0 ELSE g.rungs[k].every
    BY <1>3 DEF Quiet
  <2>2. k \in fits /\ Quiet(g, n) = g.rungs[k].every
    <3>1. fits # {}
      BY <2>1
    <3>2. k \in fits
      BY <3>1
    <3> QED  BY <2>1, <3>1, <3>2
  <2> HIDE DEF k
  <2>3. k \in 1..Len(g.rungs) /\ (g.rungs[k].tries = 0 \/ n <= Tries(g.rungs, k))
        /\ g.rungs[k].every \in Nat
    BY <1>1, <1>3, <2>2, GatesOfSetup
  <2>4. Rising(g)
    BY <1>1, <1>3 DEF LaddersRise
  <2> QED  BY <1>1, <1>3, <2>2, <2>3, <2>4, LadderClimbs
<1> QED  BY <1>1, <1>2, <1>3

Kinds(g) == IF g.kind = "backoff" THEN {"message"} ELSE g.presence
ChainOf(g) == Chain(Kinds(g))
NthOf(g, i) == Cardinality({j \in ChainOf(g) : j <= i})

\* What a message asks for before the next one, and when that is over.
QuietOver(g, i, t) ==
  /\ Quiet(g, NthOf(g, i)) # 0
  /\ log[i].at + Quiet(g, NthOf(g, i)) <= t

LEMMA Numbers ==
  ASSUME Told, NEW g
  PROVE  /\ ChainOf(g) \in SUBSET (0..Len(log)) /\ Len(log) \in Nat
         /\ ChainOf(g) \in SUBSET DOMAIN log
         /\ IsFiniteSet(ChainOf(g)) /\ Cardinality(ChainOf(g)) \in Nat
         /\ \A S \in SUBSET ChainOf(g) :
              IsFiniteSet(S) /\ Cardinality(S) \in Nat
         /\ \A i \in ChainOf(g) : /\ NthOf(g, i) \in 1..Cardinality(ChainOf(g))
                                 /\ log[i].at \in Nat /\ i \in Nat
<1> DEFINE C == ChainOf(g)
<1>1. /\ C \in SUBSET (0..Len(log)) /\ Len(log) \in Nat /\ C \in SUBSET DOMAIN log
  BY Places DEF Told, Dated, ChainOf, Chain, Outreaches
<1>2. \A i \in C : log[i].at \in Nat
  BY <1>1 DEF Told, Dated
<1>3. /\ IsFiniteSet(C) /\ Cardinality(C) \in Nat
      /\ \A S \in SUBSET C : /\ IsFiniteSet(S) /\ Cardinality(S) \in Nat
                             /\ Cardinality(S) <= Cardinality(C)
  <2> HIDE DEF C
  <2> QED  BY <1>1, Counted
<1>4. ASSUME NEW i \in C PROVE NthOf(g, i) \in 1..Cardinality(C)
  <2> DEFINE S == {j \in C : j <= i}
  <2>1. i \in S /\ S \in SUBSET C
    BY <1>1
  <2>2. NthOf(g, i) = Cardinality(S)
    BY DEF NthOf
  <2> HIDE DEF S, C
  <2>3. Cardinality(S) # 0
    BY <1>3, <2>1, FS_EmptySet
  <2> QED  BY <1>3, <2>1, <2>2, <2>3
<1> QED  BY <1>1, <1>2, <1>3, <1>4

\* A gate that says yes says so after the quiet that each message asks for.
LEMMA YesAfterQuiet ==
  ASSUME Told, LaddersRise, NEW g \in Counting, HasRoom(g), NEW r, NEW t \in Nat,
         Verdict(g, r, t).allowed, NEW i \in ChainOf(g)
  PROVE  QuietOver(g, i, t) /\ log[i].at + Think < t
<1> DEFINE C == ChainOf(g)
           n == NthOf(g, i)
           u == Cardinality(C)
<1>1. /\ g \in Range(setup.stack) /\ g.kind \in {"backoff", "cadence"}
      /\ setup \in Setups /\ now \in Nat /\ Think \in Nat
  BY BoundAssumption DEF Counting, Gates, Told, Dated
<1>2. n \in 1..u /\ u \in Nat /\ log[i].at \in Nat
  BY Numbers
<1>3. SUFFICES \E q, a \in Nat : /\ Quiet(g, n) \in Nat /\ Quiet(g, n) > Think
                                /\ Quiet(g, n) <= q /\ log[i].at <= a /\ a + q <= t
  <2>1. ASSUME NEW q \in Nat, NEW a \in Nat, Quiet(g, n) \in Nat, Quiet(g, n) > Think,
               Quiet(g, n) <= q, log[i].at <= a, a + q <= t
        PROVE  /\ Quiet(g, n) # 0 /\ log[i].at + Quiet(g, n) <= t
               /\ log[i].at + Think < t
    <3> HIDE DEF n
    <3> QED  BY <1>1, <1>2, <2>1
  <2> QED  BY <1>3, <2>1 DEF QuietOver
<1>4. CASE g.kind = "backoff"
  <2> DEFINE seen == UnansweredProactive(Newest(Messages, g.window))
             m == Cardinality(seen)
             a == log[Max(seen)].at
             q == g.base * 2 ^ (m - 1)
  <2>1. /\ g.crewCap \in Nat /\ g.window \in Nat
        /\ g.base \in Nat /\ g.base > Think
    BY <1>1, <1>4, GatesOfSetup
  <2>2. Backoff(g, r, t).allowed
    BY <1>4 DEF Verdict
  <2>3. C = Chain({"message"}) /\ C \in SUBSET seen
    BY <1>4, <2>1, <2>2, BackoffSees DEF ChainOf, Kinds
  <2>4. seen # {} => ~(t < a + q)
    BY <2>2 DEF Backoff, Denied
  <2>5. seen \in SUBSET (0..Len(log)) /\ Len(log) \in Nat
        /\ seen \in SUBSET Messages /\ Messages \in SUBSET DOMAIN log
    BY Places DEF Told, Dated, UnansweredProactive, Newest, Messages
  <2>6. i \in seen /\ seen # {}
    BY <2>3
  <2> HIDE DEF seen, C
  <2>7. Max(seen) \in seen /\ i <= Max(seen)
    BY <2>5, <2>6, Greatest
  <2>8. log[i].at <= a /\ a \in Nat
    <3>1. /\ i \in DOMAIN log /\ Max(seen) \in DOMAIN log
          /\ IsMessage(log[i]) /\ IsMessage(log[Max(seen)])
      BY <2>5, <2>6, <2>7 DEF Messages
    <3>2. log[Max(seen)].at \in Nat
      BY <3>1 DEF Told, Dated
    <3>3. i = Max(seen) \/ i < Max(seen)
      BY <2>5, <2>6, <2>7
    <3>4. i < Max(seen) => log[i].at <= log[Max(seen)].at
      BY <3>1 DEF Told, InOrder
    <3> QED  BY <1>2, <3>2, <3>3, <3>4
  <2>9. m \in Nat /\ u <= m
    BY <2>3, <2>5, Counted
  <2> HIDE DEF m, a, u, n
  <2>10. n \in 1..m
    BY <1>2, <2>9
  <2> DEFINE p == 2 ^ (m - 1)
  <2>11. p \in Nat /\ p > 0
    <3>1. m - 1 \in Nat
      BY <2>9, <2>10
    <3> DEFINE k == m - 1
    <3> HIDE DEF k
    <3>2. 2 ^ k \in Nat /\ 2 ^ k > 0
      BY <3>1, Powers DEF k
    <3> QED  BY <3>2 DEF k
  <2>12. Quiet(g, m) = q
    BY <1>4 DEF Quiet
  <2>13. q \in Nat /\ q # 0
    <3> HIDE DEF p
    <3>1. g.base * p \in Nat /\ g.base * 1 <= g.base * p
      BY <2>1, <2>11
    <3>2. g.base * p # 0
      BY <1>1, <2>1, <3>1
    <3> QED  BY <3>1, <3>2 DEF p
  <2>14. Quiet(g, n) \in Nat /\ Quiet(g, n) > Think /\ Quiet(g, n) <= q
    <3> HIDE DEF q
    <3> QED  BY <1>1, <2>9, <2>10, <2>12, <2>13, QuietRises
  <2>15. a + q <= t
    <3> HIDE DEF q
    <3> QED  BY <2>4, <2>6, <2>8, <2>13 DEF a, q, m
  <2> HIDE DEF q
  <2> QED  BY <2>8, <2>13, <2>14, <2>15
<1>5. CASE g.kind = "cadence"
  <2>1. /\ DOMAIN g.rungs = 1..Len(g.rungs) /\ Len(g.rungs) \in Nat
        /\ \A k \in 1..Len(g.rungs) : g.rungs[k].tries \in Nat
        /\ setup.zone \in Nat \cup {NoZone}
    BY <1>1, <1>5, GatesOfSetup
  <2>2. Cadence(g, t).allowed /\ C = Chain(g.presence) /\ C # {} /\ Rising(g)
    BY <1>1, <1>5 DEF Verdict, ChainOf, Kinds, LaddersRise
  <2>3. /\ Unanswered(g) # {} /\ Wait(g) # 0
        /\ \A j \in C : \E l \in Unanswered(g) : log[j].at <= log[l].at
        /\ \E k \in 1..Len(g.rungs) :
             /\ Wait(g) = g.rungs[k].every
             /\ g.rungs[k].tries = 0 \/ u <= Tries(g.rungs, k)
    BY <2>1, <2>2, CadenceSees
  <2>4. PICK k \in 1..Len(g.rungs) :
          /\ Wait(g) = g.rungs[k].every
          /\ g.rungs[k].tries = 0 \/ u <= Tries(g.rungs, k)
    BY <2>3
  <2>5. PICK l \in Unanswered(g) : log[i].at <= log[l].at
    BY <2>3
  <2>6. /\ Due(g) \in Nat /\ Wait(g) \in Nat
        /\ log[l].at \in Nat /\ log[l].at + Wait(g) <= Due(g)
    BY <1>1, <1>5, <2>3, DueInTime
  <2>7. ~(g.daily /\ setup.zone = NoZone) /\ ~(t < Landing(g))
    BY <2>2, <2>3, CadenceInSteps DEF Denied
  <2>8. Landing(g) \in Nat /\ Due(g) <= Landing(g)
    BY <1>1, <1>5, <2>3, <2>7, LandsInHours
  <2>9. log[l].at + Wait(g) <= t
    BY <2>6, <2>7, <2>8
  <2>10. Quiet(g, n) \in Nat /\ Quiet(g, n) > Think /\ Quiet(g, n) <= Wait(g)
    <3> HIDE DEF n, u
    <3> QED  BY <1>1, <1>2, <1>5, <2>2, <2>4, LadderClimbs
  <2> QED  BY <2>5, <2>6, <2>9, <2>10
<1> QED  BY <1>1, <1>4, <1>5

-----------------------------------------------------------------------------
(***************************************************************************)
(* A firing speaks after the quiet.                                        *)
(***************************************************************************)
\* The firings that a gate has let through, and what was said since one began.
Passed == {r \in Rhythm : cleared[r]}
Fresh(g, r) == {i \in ChainOf(g) : log[i].at >= at[r]}

\* Who is let through has room: what was said since was waiting then.
RoomToSpeak ==
  \A g \in Counting, r \in Passed : HasRoom(g) =>
    Cardinality(Fresh(g, r)) + Cardinality(Waiting(Crew)) <= Reach
BegunAfterQuiet ==
  \A g \in Counting, r \in Passed : HasRoom(g) =>
    \A i \in ChainOf(g) \ Fresh(g, r) : QuietOver(g, i, at[r])

SInv == RoomToSpeak /\ BegunAfterQuiet

LEMMA InitSInv == Init => SInv
<1> SUFFICES ASSUME Init PROVE SInv
  OBVIOUS
<1>1. Passed = {}
  BY DEF Init, Passed
<1> QED  BY <1>1 DEF SInv, RoomToSpeak, BegunAfterQuiet

\* Of a chain, those up to a message and those after it.
LEMMA ChainSplit ==
  ASSUME Told, NEW g, NEW i \in ChainOf(g)
  PROVE  LET L == {j \in ChainOf(g) : j > i} IN
         /\ IsFiniteSet(L) /\ Cardinality(L) \in Nat /\ i \notin L
         /\ Cardinality(ChainOf(g)) = NthOf(g, i) + Cardinality(L)
<1> DEFINE C == ChainOf(g)
           I == {j \in C : j <= i}
           L == {j \in C : j > i}
<1>1. /\ I \in SUBSET C /\ L \in SUBSET C /\ \A j \in C : j \in Nat
  BY Numbers
<1>2. IsFiniteSet(I) /\ IsFiniteSet(L) /\ Cardinality(I) \in Nat /\ Cardinality(L) \in Nat
  <2> HIDE DEF I, L
  <2> QED  BY <1>1, Numbers
<1>3. I \cup L = C /\ I \cap L = {} /\ i \notin L
  BY <1>1
<1>4. NthOf(g, i) = Cardinality(I)
  BY DEF NthOf
<1> HIDE DEF I, L, C
<1>5. Cardinality(I \cup L) = Cardinality(I) + Cardinality(L) - Cardinality(I \cap L)
  BY <1>2, FS_Union
<1>6. Cardinality(I \cap L) = 0
  BY <1>3, FS_EmptySet, Zenon
<1>7. Cardinality(C) = NthOf(g, i) + Cardinality(L)
  <2>1. Cardinality(I \cup L) = Cardinality(C)
    BY <1>3, Zenon
  <2> QED  BY <1>2, <1>4, <1>5, <1>6, <2>1
<1> QED  BY <1>2, <1>3, <1>7 DEF C, L

\* Who speaks has lines waiting, so what was said since its claim is bounded, and a
\* message that is followed by more is not of that kind.
LEMMA SaysAfterQuiet ==
  ASSUME NInv, CInv, LaddersRise, SInv, [Next]_vars,
         NEW r \in Rhythm, said'[r] > said[r],
         NEW g \in Counting, HasRoom(g), NEW i \in ChainOf(g),
         NthOf(g, i) + (said[r] + Reach - setup.lines) <= Cardinality(ChainOf(g))
  PROVE  log[i].at + Quiet(g, NthOf(g, i)) <= now
<1>1. Told /\ FewWaiting /\ AllFinite /\ said \in [Rhythm -> Nat]
  BY FewAreWaiting, Finite DEF CInv, Saying
<1>2. PICK a \in setup.cast[r] : Speak(r, a)
  <2>1. ASSUME NEW q \in Rhythm, Deny(q) \/ Finish(q) PROVE FALSE
    BY <1>1, <2>1 DEF Deny, Finish, End
  <2>2. ASSUME NEW q \in Rhythm, NEW b, Speak(q, b), q # r PROVE FALSE
    BY <1>1, <2>2 DEF Speak
  <2>3. said' # said
    BY <1>1
  <2> QED
    BY <2>1, <2>2, <2>3
       DEF Next, Advance, Rest, UserSpeaks, UserActs, Shows, AgentTalks, Claim, Pass, vars
<1>3. /\ cleared[r] /\ said[r] < setup.lines /\ said[r] \in Nat /\ setup.lines \in Nat
      /\ r \in Passed /\ Reach \in Nat /\ a \in Crew
  <2>1. setup \in Setups /\ DOMAIN setup.cast = Rhythm
    BY <1>1, SetupAssumption DEF Told, Dated
  <2>2. a \in Crew
    BY <2>1 DEF Crew, Range
  <2> QED  BY <1>1, <1>2, <2>2, GateOfStack DEF Speak, Passed, FewWaiting
<1>4. Cardinality(Waiting(Crew)) >= setup.lines - said[r]
  <2> DEFINE first == said[r] + 1
             rest == first..setup.lines
             S == {r} \X rest
             W == Waiting(Crew)
  <2>1. IsFiniteSet(rest) /\ Cardinality(rest) = setup.lines - said[r]
    <3>1. first \in Int /\ setup.lines \in Int /\ first <= setup.lines
      BY <1>3
    <3>2. setup.lines - first + 1 = setup.lines - said[r]
      BY <1>3
    <3> HIDE DEF first
    <3> QED  BY <3>1, <3>2, FS_Interval
  <2>2. IsFiniteSet({r}) /\ Cardinality({r}) = 1
    BY FS_Singleton
  <2>3. S \in SUBSET W
    BY <1>3 DEF Waiting
  <2>4. IsFiniteSet(W) /\ Cardinality(W) \in Nat
    BY <1>1 DEF AllFinite
  <2> HIDE DEF rest, W
  <2>5. Cardinality(S) = 1 * (setup.lines - said[r])
    BY <2>1, <2>2, FS_Product
  <2> HIDE DEF S
  <2>6. Cardinality(S) <= Cardinality(W)
    BY <2>3, <2>4, FS_Subset
  <2> QED  BY <1>3, <2>4, <2>5, <2>6 DEF W
<1> DEFINE F == Fresh(g, r)
           L == {j \in ChainOf(g) : j > i}
<1>5. /\ Cardinality(F) + Cardinality(Waiting(Crew)) <= Reach
      /\ IsFiniteSet(F) /\ Cardinality(F) \in Nat /\ Cardinality(Waiting(Crew)) \in Nat
  <2>1. Cardinality(F) + Cardinality(Waiting(Crew)) <= Reach
    BY <1>3 DEF SInv, RoomToSpeak
  <2>2. F \in SUBSET ChainOf(g)
    BY DEF Fresh
  <2>3. Cardinality(Waiting(Crew)) \in Nat
    BY <1>1 DEF AllFinite
  <2> HIDE DEF F
  <2> QED  BY <1>1, <2>1, <2>2, <2>3, Numbers
<1>6. /\ at[r] \in Nat /\ at[r] <= now /\ now \in Nat
  BY <1>3 DEF NInv, Timed, Rested
<1>7. i \notin F
  <2> SUFFICES ASSUME i \in F PROVE FALSE
    OBVIOUS
  <2>1. \A j \in L : j \in F
    <3> SUFFICES ASSUME NEW j \in ChainOf(g), i < j PROVE j \in Fresh(g, r)
      BY <1>1, Numbers
    <3>1. /\ i \in DOMAIN log /\ j \in DOMAIN log
          /\ IsMessage(log[i]) /\ IsMessage(log[j])
      BY DEF ChainOf, Chain, Outreaches, IsOutreach
    <3>2. log[i].at <= log[j].at
      BY <1>1, <3>1 DEF Told, InOrder
    <3>3. log[i].at >= at[r] /\ log[i].at \in Nat /\ log[j].at \in Nat
      BY <1>1, Numbers DEF Fresh
    <3>4. log[j].at >= at[r]
      BY <1>6, <3>2, <3>3
    <3> QED  BY <3>4 DEF Fresh
  <2>2. /\ IsFiniteSet(L) /\ Cardinality(L) \in Nat /\ i \notin L
        /\ Cardinality(ChainOf(g)) = NthOf(g, i) + Cardinality(L)
    BY <1>1, ChainSplit
  <2>3. NthOf(g, i) \in Nat
    BY <1>1, Numbers
  <2> DEFINE K == L \cup {i}
  <2>4. K \in SUBSET F
    BY <2>1
  <2> HIDE DEF F, L
  <2>5. IsFiniteSet(K) /\ Cardinality(K) = Cardinality(L) + 1
    BY <2>2, FS_AddElement
  <2> HIDE DEF K
  <2>6. Cardinality(K) <= Cardinality(F)
    BY <1>5, <2>4, FS_Subset
  <2> QED  BY <1>3, <1>4, <1>5, <2>2, <2>3, <2>5, <2>6
<1>8. QuietOver(g, i, at[r])
  BY <1>3, <1>7 DEF SInv, BegunAfterQuiet
<1> DEFINE q == Quiet(g, NthOf(g, i))
<1>9. q \in Nat /\ log[i].at \in Nat
  <2> DEFINE n == NthOf(g, i)
  <2>1. setup \in Setups /\ n \in Nat /\ n \in 1..n /\ log[i].at \in Nat
    BY <1>1, Numbers DEF Told, Dated
  <2>2. Quiet(g, n) # 0
    BY <1>8 DEF QuietOver
  <2> HIDE DEF n
  <2>3. Quiet(g, n) \in Nat
    BY <2>1, <2>2, QuietRises
  <2> QED  BY <2>1, <2>3 DEF n
<1>10. log[i].at + q <= at[r]
  BY <1>8 DEF QuietOver
<1> HIDE DEF q
<1>11. log[i].at + q <= now
  BY <1>6, <1>9, <1>10
<1> QED  BY <1>11 DEF q

\* In a chain that lost messages, or got a new last one, each has its quiet:
\* it is not further from the beginning.
LEMMA QuietKept ==
  ASSUME Told, Told', LaddersRise, setup' = setup, NEW g \in Counting, NEW i \in ChainOf(g),
         i \in ChainOf(g)', log'[i] = log[i],
         \A j \in ChainOf(g)' : j <= i => j \in ChainOf(g),
         NEW t \in Nat, QuietOver(g, i, t)
  PROVE  /\ Quiet(g, NthOf(g, i))' \in Nat /\ Quiet(g, NthOf(g, i))' # 0
         /\ log'[i].at + Quiet(g, NthOf(g, i))' <= t
<1> DEFINE S == {j \in ChainOf(g) : j <= i}
           T == {j \in ChainOf(g)' : j <= i}
<1>1. /\ NthOf(g, i) = Cardinality(S) /\ NthOf(g, i)' = Cardinality(T)
      /\ T \in SUBSET S /\ S \in SUBSET ChainOf(g) /\ T # {} /\ i \in Nat
  <2>1. i \in Nat
    BY Numbers
  <2>2. i \in T
    BY <2>1
  <2> QED  BY <2>1, <2>2 DEF NthOf
<1> DEFINE n == NthOf(g, i)
           m == Cardinality(T)
<1>2. IsFiniteSet(S) /\ Cardinality(S) \in Nat /\ n \in Nat /\ log[i].at \in Nat
  <2> HIDE DEF S, T
  <2>1. IsFiniteSet(S) /\ Cardinality(S) \in Nat
    BY <1>1, Numbers
  <2> QED  BY <1>1, <2>1, Numbers
<1> HIDE DEF S, T
<1>3. m \in 1..n
  <2>1. IsFiniteSet(T) /\ m <= Cardinality(S)
    BY <1>1, <1>2, FS_Subset
  <2>2. m \in Nat /\ m # 0
    BY <1>1, <2>1, FS_CardinalityType, FS_EmptySet
  <2> QED  BY <1>1, <1>2, <2>1, <2>2
<1>4. setup \in Setups
  BY DEF Told, Dated
<1>5. Quiet(g, n) # 0 /\ log[i].at + Quiet(g, n) <= t
  BY DEF QuietOver
<1>6. NthOf(g, i)' = m
  BY <1>1
<1> HIDE DEF n, m
<1>7. /\ Quiet(g, m) \in Nat /\ Quiet(g, m) > Think
      /\ Quiet(g, n) \in Nat /\ Quiet(g, m) <= Quiet(g, n)
  BY <1>2, <1>3, <1>4, <1>5, QuietRises
<1>8. Quiet(g, m) # 0 /\ log[i].at + Quiet(g, m) <= t
  BY <1>2, <1>5, <1>7, BoundAssumption
<1>9. Quiet(g, NthOf(g, i))' = Quiet(g, m)
  BY <1>6 DEF Quiet
<1> QED  BY <1>7, <1>8, <1>9

LEMMA ChainGrows ==
  ASSUME setup' = setup, NEW N, Grows(N), NEW g
  PROVE  /\ ChainOf(g)' \in SUBSET (ChainOf(g) \cup N)
         /\ (\A n \in N : ~IsOutreach(log'[n])) => ChainOf(g)' \in SUBSET ChainOf(g)
         /\ \A i \in ChainOf(g) : log'[i] = log[i]
<1>1. /\ \A i \in DOMAIN log : log'[i] = log[i] /\ i \in DOMAIN log'
      /\ DOMAIN log' = DOMAIN log \cup N
  BY DEF Grows
<1>2. \A kinds : Chain(kinds)' \in SUBSET (Chain(kinds) \cup N)
  BY <1>1 DEF Chain, Outreaches
<1>3. ASSUME \A n \in N : ~IsOutreach(log'[n])
      PROVE  \A kinds : Chain(kinds)' \in SUBSET Chain(kinds)
  BY <1>1, <1>3 DEF Chain, Outreaches
<1>4. ChainOf(g)' = Chain(Kinds(g))' /\ ChainOf(g) = Chain(Kinds(g))
  BY DEF ChainOf, Kinds
<1>5. \A i \in ChainOf(g) : i \in DOMAIN log
  BY DEF ChainOf, Chain, Outreaches
<1> QED  BY <1>1, <1>2, <1>3, <1>4, <1>5

\* A step that is no gate's yes: what it adds to a chain was waiting, and is too new
\* to ask anything of the firings that were let through before it.
LEMMA StepIsFine ==
  ASSUME NInv, CInv, LaddersRise, SInv, [Next]_vars, ~ \E r \in Rhythm : Pass(r)
  PROVE  SInv'
<1>1. /\ Told /\ Told' /\ Saying /\ setup' = setup /\ FewWaiting' /\ AllFinite /\ AllFinite'
  <2>1. Told /\ Told' /\ Saying /\ Slots' /\ NInv' /\ setup' = setup
    BY LogStep, NextSlots, NextNInv, SetupStays DEF CInv
  <2> QED  BY <2>1, FewAreWaiting, Finite, PTL
<1>2. /\ Counting' = Counting /\ Crew' = Crew /\ Reach' = Reach
      /\ \A g \in Counting : /\ g.kind = "backoff" => {g.crewCap, g.window} \subseteq Nat
                             /\ g.kind # "backoff" => HasRoom(g)
  BY <1>1, GateOfStack DEF Counting, Gates, Crew, Reach, HasRoom
<1>3. /\ \A r \in Passed' : /\ r \in Passed /\ at'[r] = at[r]
                            /\ at[r] \in Nat /\ at[r] <= now
      /\ now \in Nat
  <2>1. /\ at \in [Rhythm -> Nat] /\ cleared \in [Rhythm -> BOOLEAN] /\ now \in Nat
        /\ \A r \in Passed : r \in Rhythm /\ at[r] # 0 /\ at[r] \in Nat /\ at[r] <= now
    BY DEF NInv, Timed, Rested, Passed
  <2>2. CASE at' = at /\ cleared' = cleared
    BY <2>1, <2>2 DEF Passed
  <2>3. ASSUME NEW r \in Rhythm, Claim(r)
        PROVE  \A q \in Passed' : q \in Passed /\ at'[q] = at[q]
    <3>1. cleared' = cleared /\ at' = [at EXCEPT ![r] = now] /\ at[r] = 0
      BY <2>3 DEF Claim
    <3>2. Passed' = Passed /\ r \notin Passed
      BY <2>1, <3>1 DEF Passed
    <3> QED  BY <2>1, <3>1, <3>2
  <2>4. ASSUME NEW r \in Rhythm, Deny(r) \/ Finish(r)
        PROVE  \A q \in Passed' : q \in Passed /\ at'[q] = at[q]
    <3>1. cleared' = [cleared EXCEPT ![r] = FALSE] /\ at' = [at EXCEPT ![r] = 0]
      BY <2>4 DEF Deny, Finish, End
    <3>2. Passed' = Passed \ {r}
      BY <2>1, <3>1 DEF Passed
    <3> QED  BY <2>1, <3>1, <3>2
  <2> QED
    BY <2>1, <2>2, <2>3, <2>4
       DEF Next, Advance, Rest, UserSpeaks, UserActs, Shows, AgentTalks, Speak, vars
<1>4. PICK N : /\ Grows(N) /\ \A n \in N : n \notin DOMAIN log
               /\ \/ /\ Speech /\ \E n : N = {n} /\ log'[n].at = now
                  \/ ~Speech /\ \A n \in N : ~IsOutreach(log'[n])
  <2>1. CASE log' = log /\ ~Speech
    <3>1. Grows({})
      BY <1>1, <2>1 DEF Grows, Told, Dated, Logged
    <3> QED  BY <2>1, <3>1
  <2>2. ASSUME NEW e, log' = Append(log, e)
        PROVE  \E n : /\ Grows({n}) /\ n \notin DOMAIN log /\ log'[n] = e
    <3> DEFINE n == Len(log) + 1
    <3>1. Grows({n}) /\ log'[n] = e
      BY <1>1, <2>2, OneMore DEF Told, Dated
    <3>2. DOMAIN log = 1..Len(log) /\ Len(log) \in Nat
      BY <1>1, Places DEF Told, Dated
    <3>3. n \notin DOMAIN log
      BY <3>2
    <3> HIDE DEF n
    <3> QED  BY <3>1, <3>3
  <2>3. ASSUME Speech
        PROVE  \E e : /\ log' = Append(log, e) /\ IsMessage(e) /\ e.at = now
    <3>0. PICK r \in Rhythm : \E a \in setup.cast[r] : Speak(r, a)
      BY <2>3 DEF Speech
    <3>1. PICK a \in setup.cast[r] : Speak(r, a)
      BY <3>0
    <3> DEFINE e == [by |-> a, kind |-> "message", proactive |-> TRUE, at |-> now]
    <3>2. log' = Append(log, e) /\ IsMessage(e) /\ e.at = now
      BY <3>1 DEF Speak, Record, IsMessage
    <3> HIDE DEF e
    <3> QED  BY <3>2
  <2>4. CASE Speech
    BY <2>2, <2>3, <2>4
  <2>5. CASE ~Speech
    <3> SUFFICES ASSUME NEW e, log' = Append(log, e), ~IsOutreach(e)
                 PROVE  \E M : /\ Grows(M) /\ \A n \in M : n \notin DOMAIN log
                               /\ \A n \in M : ~IsOutreach(log'[n])
      BY <1>1, <2>1, <2>5, StepRecords
    <3>1. PICK n : Grows({n}) /\ n \notin DOMAIN log /\ log'[n] = e
      BY <2>2
    <3> DEFINE M == {n}
    <3>2. \A m \in M : m \notin DOMAIN log /\ ~IsOutreach(log'[m])
      BY <3>1
    <3>3. Grows(M)
      BY <3>1
    <3> HIDE DEF M
    <3> QED  BY <3>2, <3>3
  <2> QED  BY <2>4, <2>5
<1> SUFFICES ASSUME NEW g \in Counting, NEW r \in Passed', HasRoom(g)'
             PROVE  /\ Cardinality(Fresh(g, r))' + Cardinality(Waiting(Crew))' <= Reach
                    /\ \A i \in ChainOf(g)' \ Fresh(g, r)' : QuietOver(g, i, at[r])'
  BY <1>2 DEF SInv, RoomToSpeak, BegunAfterQuiet
<1> DEFINE F == Fresh(g, r)
           W == Waiting(Crew)
<1>5. Cardinality(W)' \in Nat /\ Cardinality(W)' <= Reach
  BY <1>1, <1>2 DEF AllFinite, FewWaiting
<1>6. CASE ChainOf(g)' = {}
  <2>1. F' = {}
    BY <1>6 DEF Fresh
  <2>2. Cardinality(F)' = 0
    <3> HIDE DEF F
    <3> QED  BY <2>1, FS_EmptySet, Zenon
  <2> QED  BY <1>5, <1>6, <2>2
<1>7. CASE ChainOf(g)' # {}
  <2>1. HasRoom(g)
    <3>1. g.kind = "backoff" => ChainOf(g)' = Chain({"message"})'
      BY DEF ChainOf, Kinds
    <3> QED  BY <1>1, <1>2, <1>7, <3>1, RoomStep
  <2>2. /\ r \in Passed /\ at'[r] = at[r] /\ at[r] \in Nat /\ at[r] <= now /\ now \in Nat
    BY <1>3
  <2>3. Cardinality(F) + Cardinality(W) <= Reach
    BY <2>1, <2>2 DEF SInv, RoomToSpeak
  <2>4. /\ ChainOf(g)' \in SUBSET (ChainOf(g) \cup N)
        /\ ~Speech => ChainOf(g)' \in SUBSET ChainOf(g)
        /\ \A i \in ChainOf(g) : log'[i] = log[i]
    BY <1>1, <1>4, ChainGrows
  <2>5. /\ F' \in SUBSET (F \cup N)
        /\ ~Speech => F' \in SUBSET F
    BY <2>2, <2>4 DEF Fresh
  <2>6. /\ IsFiniteSet(F) /\ Cardinality(F) \in Nat /\ IsFiniteSet(W) /\ Cardinality(W) \in Nat
        /\ Reach \in Nat
    <3>1. F \in SUBSET ChainOf(g)
      BY DEF Fresh
    <3> HIDE DEF F
    <3> QED  BY <1>1, <1>2, <3>1, Numbers DEF AllFinite, FewWaiting
  <2>7. Cardinality(F)' + Cardinality(W)' <= Reach
    <3>1. CASE Speech
      <4>1. PICK n : N = {n}
        BY <1>4, <3>1
      <4>2. Cardinality(W)' = Cardinality(W) - 1
        <5>0. PICK q \in Rhythm : \E a \in setup.cast[q] : Speak(q, a)
          BY <3>1 DEF Speech
        <5>1. PICK a \in setup.cast[q] : Speak(q, a)
          BY <5>0
        <5>2. a \in Crew
          <6>1. setup \in Setups /\ DOMAIN setup.cast = Rhythm
            BY <1>1, SetupAssumption DEF Told, Dated
          <6> QED  BY <6>1 DEF Crew, Range
        <5>3. \A A : a \in A => Cardinality(Waiting(A)') = Cardinality(Waiting(A)) - 1
          BY <1>1, <5>1, SpokenWaits
        <5>4. Waiting(Crew)' = {p \in Rhythm \X (1..setup'.lines) :
                 cleared'[p[1]] /\ said'[p[1]] < p[2] /\ setup'.cast[p[1]] \cap Crew' # {}}
          BY DEF Waiting
        <5> QED  BY <1>2, <5>2, <5>3
      <4> HIDE DEF F, W
      <4>3. /\ IsFiniteSet(F \cup {n})
            /\ Cardinality(F \cup {n}) = Cardinality(F) \/ Cardinality(F \cup {n}) = Cardinality(F) + 1
        BY <2>6, FS_AddElement
      <4>4. Cardinality(F') <= Cardinality(F \cup {n}) /\ IsFiniteSet(F')
        BY <2>5, <4>1, <4>3, FS_Subset
      <4>5. Cardinality(F') \in Nat
        BY <4>4, FS_CardinalityType
      <4> QED  BY <2>3, <2>6, <4>2, <4>3, <4>4, <4>5
    <3>2. CASE ~Speech
      <4>1. W' \in SUBSET W
        <5>1. cleared \in [Rhythm -> BOOLEAN] /\ said \in [Rhythm -> Nat]
          BY <1>1 DEF NInv, Timed, Saying
        <5>2. \A q \in Rhythm : cleared'[q] => cleared[q] /\ said'[q] = said[q]
          BY <3>2, <5>1 DEF Next, Advance, Rest, UserSpeaks, UserActs, Shows, AgentTalks,
                            Claim, Deny, Finish, End, Speech, vars
        <5> QED  BY <1>1, <1>2, <5>2 DEF Waiting
      <4>2. F' \in SUBSET F
        BY <2>5, <3>2
      <4> HIDE DEF F, W
      <4>3. /\ Cardinality(F') <= Cardinality(F) /\ IsFiniteSet(F')
            /\ Cardinality(W') <= Cardinality(W)
        BY <2>6, <4>1, <4>2, FS_Subset
      <4>4. Cardinality(F') \in Nat
        BY <4>3, FS_CardinalityType
      <4> QED  BY <1>5, <2>3, <2>6, <4>3, <4>4
    <3> QED  BY <3>1, <3>2
  <2>8. ASSUME NEW i \in ChainOf(g)', i \notin Fresh(g, r)' PROVE QuietOver(g, i, at[r])'
    <3>1. i \in ChainOf(g) /\ log'[i] = log[i]
      BY <1>4, <2>2, <2>4, <2>8 DEF Fresh
    <3>2. QuietOver(g, i, at[r])
      <4>1. i \notin Fresh(g, r)
        BY <2>2, <3>1, <2>8 DEF Fresh
      <4> QED  BY <2>1, <2>2, <3>1, <4>1 DEF SInv, BegunAfterQuiet
    <3>3. \A j \in ChainOf(g)' : j <= i => j \in ChainOf(g)
      <4> SUFFICES ASSUME NEW j \in ChainOf(g)', j <= i, j \in N PROVE FALSE
        BY <2>4
      <4>1. i \in DOMAIN log /\ i \in Nat
        BY <1>1, <3>1, Numbers
      <4>2. i < j /\ j \in Nat
        BY <1>4, <4>1 DEF Grows
      <4> QED  BY <4>1, <4>2
    <3>4. /\ Quiet(g, NthOf(g, i))' # 0
          /\ log'[i].at + Quiet(g, NthOf(g, i))' <= at[r]
      BY <1>1, <2>2, <2>8, <3>1, <3>2, <3>3, QuietKept
    <3> QED  BY <2>2, <3>4 DEF QuietOver
  <2> QED  BY <2>7, <2>8
<1> QED  BY <1>6, <1>7

\* Whoever passes the gate does so after the quiet: nobody has spoken since any
\* of the firings under way began.
LEMMA PassIsFine ==
  ASSUME NInv, CInv, LaddersRise, SInv, [Next]_vars, NEW r \in Rhythm, Pass(r)
  PROVE  SInv'
<1>1. /\ Told /\ setup' = setup /\ log' = log /\ at' = at /\ now' = now /\ at[r] # 0
      /\ cleared' = [cleared EXCEPT ![r] = TRUE]
  BY DEF Pass, CInv
<1>2. /\ at \in [Rhythm -> Nat] /\ cleared \in [Rhythm -> BOOLEAN] /\ now \in Nat
      /\ Think \in Nat /\ setup \in Setups
      /\ \A q \in Rhythm : at[q] # 0 => at[q] <= now /\ now <= at[q] + Think
      /\ \A q \in Passed : q \in Rhythm /\ at[q] # 0
  BY BoundAssumption DEF NInv, Timed, Rested, Passed
<1>3. /\ Counting' = Counting /\ Reach' = Reach
      /\ \A g : /\ ChainOf(g)' = ChainOf(g) /\ \A i : NthOf(g, i)' = NthOf(g, i)
                /\ HasRoom(g)' <=> HasRoom(g)
                /\ \A q : Fresh(g, q)' = Fresh(g, q)
  BY <1>1 DEF Counting, Gates, ChainOf, Chain, Outreaches, Kinds, NthOf, Reach, HasRoom,
              Crowd, Chatter, Messages, Fresh
<1>4. Passed' = Passed \cup {r}
  BY <1>1, <1>2 DEF Passed
<1>5. FewWaiting' /\ AllFinite'
  <2>1. NInv' /\ Told' /\ Slots'
    BY NextNInv, NextSlots, LogStep DEF CInv
  <2> QED  BY <2>1, FewAreWaiting, Finite, PTL
<1>6. \A g \in Counting : HasRoom(g) => \A i \in ChainOf(g) :
        QuietOver(g, i, at[r]) /\ log[i].at + Think < at[r] /\ log[i].at \in Nat
  <2> SUFFICES ASSUME NEW g \in Counting, HasRoom(g), NEW i \in ChainOf(g)
               PROVE  /\ QuietOver(g, i, at[r]) /\ log[i].at + Think < at[r]
                      /\ log[i].at \in Nat
    OBVIOUS
  <2>1. Verdict(g, r, at[r]).allowed
    BY <1>1, PassedAll DEF Counting
  <2> QED  BY <1>1, <1>2, <2>1, YesAfterQuiet, Numbers
<1>7. ASSUME NEW g \in Counting, HasRoom(g), NEW q \in Passed' PROVE Fresh(g, q) = {}
  <2> SUFFICES ASSUME NEW i \in ChainOf(g), log[i].at >= at[q] PROVE FALSE
    BY DEF Fresh
  <2>1. q \in Rhythm /\ at[q] # 0
    BY <1>1, <1>2, <1>4, <1>7
  <2>2. /\ at[q] \in Nat /\ at[r] \in Nat /\ now <= at[q] + Think /\ at[r] <= now
    BY <1>1, <1>2, <2>1
  <2>3. log[i].at + Think < at[r] /\ log[i].at \in Nat
    BY <1>6, <1>7
  <2> QED  BY <1>2, <2>2, <2>3
<1>8. RoomToSpeak'
  <2> SUFFICES ASSUME NEW g \in Counting, NEW q \in Passed', HasRoom(g)
               PROVE  Cardinality(Fresh(g, q))' + Cardinality(Waiting(Crew))' <= Reach
    BY <1>3 DEF RoomToSpeak
  <2>1. Fresh(g, q)' = {}
    BY <1>3, <1>7
  <2>2. Cardinality(Fresh(g, q))' = 0
    BY <2>1, FS_EmptySet, Zenon
  <2>3. Cardinality(Waiting(Crew))' <= Reach /\ Cardinality(Waiting(Crew))' \in Nat
    BY <1>3, <1>5 DEF FewWaiting, AllFinite
  <2> QED  BY <2>2, <2>3
<1>9. ASSUME NEW g, NEW i, NEW q PROVE QuietOver(g, i, at[q])' <=> QuietOver(g, i, at[q])
  <2>1. at'[q] = at[q] /\ log'[i] = log[i] /\ NthOf(g, i)' = NthOf(g, i)
    BY <1>1, <1>3
  <2>2. Quiet(g, NthOf(g, i))' = Quiet(g, NthOf(g, i))
    BY <2>1 DEF Quiet
  <2> QED  BY <2>1, <2>2 DEF QuietOver
<1>10. BegunAfterQuiet'
  <2> SUFFICES ASSUME NEW g \in Counting, NEW q \in Passed', HasRoom(g),
                      NEW i \in ChainOf(g), i \notin Fresh(g, q)'
               PROVE  QuietOver(g, i, at[q])
    <3>1. \A h \in Counting, p \in Passed' : \A j \in ChainOf(h) :
            QuietOver(h, j, at[p])' <=> QuietOver(h, j, at[p])
      BY <1>9
    <3> QED  BY <1>3, <3>1 DEF BegunAfterQuiet
  <2>1. CASE q = r
    BY <1>6, <2>1
  <2>2. CASE q # r
    <3>1. q \in Passed /\ i \notin Fresh(g, q)
      BY <1>4, <1>7, <2>2
    <3> QED  BY <3>1 DEF SInv, BegunAfterQuiet
  <2> QED  BY <2>1, <2>2
<1> QED  BY <1>8, <1>10 DEF SInv

\* No nagging: where no rung of a ladder waits less than the one before it, a line
\* comes after the quiet that the messages before its firing call for (with several
\* processes: all of them but the lines that others may say meanwhile), whatever
\* user, late devices and other firings do between the claim and the words, for any
\* gates that count, scripts, rhythms, zones and processes; of a backoff as long as
\* the agents' talk leaves room in its window.
THEOREM NobodyNags == LaddersRise => (Spec => NoNagging)
<1> SUFFICES ASSUME LaddersRise PROVE Spec => NoNagging
  OBVIOUS
<1>1. NInv /\ CInv /\ SInv /\ [Next]_vars => SInv'
  BY StepIsFine, PassIsFine
<1> DEFINE Kept ==
  \A r \in Rhythm : said'[r] > said[r] =>
    \A g \in Gates("backoff") \cup Gates("cadence") : HasRoom(g) =>
      LET chain == Chain(IF g.kind = "backoff" THEN {"message"} ELSE g.presence)
          Nth(i) == Cardinality({j \in chain : j <= i})
          unheard == said[r] + Reach - setup.lines
      IN  \A i \in chain : Nth(i) + unheard <= Cardinality(chain) =>
            log[i].at + Quiet(g, Nth(i)) <= now
<1>2. NInv /\ CInv /\ SInv /\ [Next]_vars => Kept
  BY SaysAfterQuiet DEF Counting, ChainOf, Kinds, NthOf
<1>3. NoNagging <=> [][Kept]_vars
  BY DEF NoNagging
<1> HIDE DEF Kept
<1> QED
  BY <1>1, <1>2, <1>3, InitNInv, NextNInv, InitCInv, NextCInv, InitSInv, PTL DEF Spec
==============================================================================
