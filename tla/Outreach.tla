------------------------------- MODULE Outreach -------------------------------
(***************************************************************************)
(* The gates that keep outreach from becoming nagging (BackoffGate,        *)
(* QuietHoursGate and AllOf in src/dainframe/pulse/gates.py, CadenceGate   *)
(* in pulse/cadence.py) and the rhythms of one stream that consult them.   *)
(*                                                                         *)
(* The gates keep no state: they read the stream's event log through       *)
(* EventQuery windows.  A firing captures `now` when it is claimed, reads  *)
(* the log later, with that `now`, and says the lines of its script later  *)
(* still, all of them under that one verdict: the user, devices that sync  *)
(* old events, agents who talk and the firings of other processes come     *)
(* between.                                                                *)
(*                                                                         *)
(* A tick is an hour.  A zone is its offset from UTC, or unresolvable;     *)
(* changes of the offset are left out.  Outreach and what the user does,   *)
(* which gates compare, have distinct times, as with a clock of            *)
(* microseconds.                                                           *)
(***************************************************************************)
EXTENDS Integers, FiniteSetsExt, SequencesExt

CONSTANTS Rhythm,
          Setups,         \* the deployments considered
          User, NoZone,
          Day,            \* hours in a day
          DenialRecheck,  \* the loop's recheck after a denial without horizon
          Think,          \* bound: hours from the claim to the words
          MaxTime, Ahead  \* bounds: the clock, how far horizons are looked for

GateKind == {"backoff", "quiet", "cadence"}

\* A gate stack, the processes that run the rhythms, the actor that each rhythm is
\* planned for, the agents its director may cast and the lines of its scripts; the
\* stream's zone; what user and agents do besides, how often, and until when the
\* clock runs (bounds).  A gate always waits longer than a firing takes; a night may
\* be empty (start = end).
ASSUME SetupAssumption ==
  \A s \in Setups :
    /\ s.processes \in Nat \ {0} /\ s.lines \in Nat \ {0}
    /\ s.visits \in Nat /\ s.chatter \in Nat /\ s.until \in 1..MaxTime
    /\ s.zone \in Nat \cup {NoZone}
    /\ s.habits \subseteq {"message", "talk", "action"}
    /\ DOMAIN s.actor = Rhythm /\ DOMAIN s.cast = Rhythm
    /\ User \notin UNION Range(s.cast)
    /\ s.stack \in Seq(Range(s.stack))
    /\ \A i \in DOMAIN s.stack : LET g == s.stack[i] IN
         /\ g.kind \in GateKind
         /\ g.kind = "backoff" =>
              /\ g.base \in Nat /\ g.base > Think /\ g.authorCap \in Nat
              /\ g.crewCap \in Nat /\ g.window \in Nat
         /\ g.kind = "quiet" => {g.hours.start, g.hours.end} \subseteq 0..(Day - 1)
         /\ g.kind = "cadence" =>
              /\ g.maxSleep \in Nat /\ g.daily \in BOOLEAN
              /\ g.daily => /\ {g.hours.start, g.hours.end} \subseteq 0..(Day - 1)
                            /\ g.hours.start # g.hours.end
              /\ g.rungs \in Seq(Range(g.rungs))
              /\ \A k \in DOMAIN g.rungs :
                   /\ g.rungs[k].every \in Nat /\ g.rungs[k].every > Think
                   /\ g.rungs[k].tries \in Nat
                   /\ g.rungs[k].tries = 0 => k = Len(g.rungs)

\* A source lists finitely many rhythms.
ASSUME RhythmAssumption == IsFiniteSet(Rhythm)

ASSUME BoundAssumption ==
  /\ Day \in Nat \ {0} /\ DenialRecheck \in Nat \ {0}
  /\ Think \in Nat /\ MaxTime \in Nat \ {0} /\ Ahead \in Nat

VARIABLES setup,   \* the deployment; it never changes
          now,
          log,     \* the stream's events in the order of their insertion
          next,    \* the horizon of each rhythm in the pulse store
          at,      \* the `now` a firing captured (0: no firing)
          cleared, \* the gates let the firing through
          said     \* the lines it has said since

vars == <<setup, now, log, next, at, cleared, said>>

Agent == UNION {UNION Range(s.cast) : s \in Setups}
Event == [by : Agent \cup {User}, kind : {"message", "action"},
          proactive : BOOLEAN, at : 1..MaxTime]

TypeOK ==
  /\ setup \in Setups
  /\ now \in 1..setup.until
  /\ log \in Seq(Event)
  /\ next \in [Rhythm -> Nat]
  /\ at \in [Rhythm -> 0..MaxTime] /\ \A r \in Rhythm : at[r] <= now
  /\ cleared \in [Rhythm -> BOOLEAN]
  /\ \A r \in Rhythm : cleared[r] => at[r] # 0
  /\ said \in [Rhythm -> 0..setup.lines]
  /\ \A r \in Rhythm : said[r] # 0 => cleared[r]

Init ==
  /\ setup \in Setups
  /\ now = 1
  /\ log = <<>>
  /\ next = [r \in Rhythm |-> 1]
  /\ at = [r \in Rhythm |-> 0]
  /\ cleared = [r \in Rhythm |-> FALSE]
  /\ said = [r \in Rhythm |-> 0]

-----------------------------------------------------------------------------
(***************************************************************************)
(* What the gates read.                                                    *)
(***************************************************************************)
IsMessage(e) == e.kind = "message"
IsOutreach(e) == e.by # User /\ IsMessage(e) /\ e.proactive

Messages == {i \in DOMAIN log : IsMessage(log[i])}
Outreaches == {i \in DOMAIN log : IsOutreach(log[i])}

\* Mutant: off by one.
NewestButOne(S, n) ==
  {i \in S : n = 0 \/ Cardinality({j \in S : j > i}) < n - 1}

\* The last n of the places that a query selects (all of them messages); a limit of
\* 0 is none.
Newest(S, n) == {i \in S : n = 0 \/ Cardinality({j \in S : j > i}) < n}

\* Proactive messages after the last message of the user in the window; the
\* whole window counts when the user is not in it.
UnansweredProactive(window) ==
  {i \in window : /\ IsOutreach(log[i])
                  /\ \A j \in window : j > i => log[j].by # User}

\* Mutant: no wrap.
InHoursFlat(h, hours) == hours.start <= h /\ h < hours.end

\* Local hours; in [start, end), which wraps midnight when start > end.
Hour(t) == (t + setup.zone) % Day
InHours(h, hours) ==
  IF hours.start > hours.end THEN h >= hours.start \/ h < hours.end
                             ELSE hours.start <= h /\ h < hours.end

\* Mutant: an hour that is over today is not looked for tomorrow.
AtHourToday(hour, t) == t - Hour(t) + hour

\* The first time from t on at which it is `hour` locally.
AtHour(hour, t) ==
  LET today == t - Hour(t) + hour IN IF today < t THEN today + Day ELSE today

-----------------------------------------------------------------------------
(***************************************************************************)
(* The gates.  A verdict carries the horizon of a denial (0: none).        *)
(***************************************************************************)
Clear == [allowed |-> TRUE, retry |-> 0]
Denied(retry) == [allowed |-> FALSE, retry |-> retry]

\* BackoffGate.check: the caps of the crew and of the author, then a wait that
\* doubles with each unanswered message.
Backoff(g, r, t) ==
  LET seen == UnansweredProactive(Newest(Messages, g.window))
      mine == {i \in seen : log[i].by = setup.actor[r]}
      retry == log[Max(seen)].at + g.base * 2 ^ (Cardinality(seen) - 1)
  IN  IF \/ Cardinality(seen) >= g.crewCap
         \/ g.authorCap # 0 /\ Cardinality(mine) >= g.authorCap
        THEN Denied(0)
      ELSE IF seen # {} /\ t < retry THEN Denied(retry) ELSE Clear

\* QuietHoursGate.check: fails closed when the zone is unknown.
QuietHours(g, t) ==
  IF setup.zone = NoZone THEN Denied(0)
  ELSE IF InHours(Hour(t), g.hours) THEN Denied(AtHour(g.hours.end, t))
  ELSE Clear

\* Cadence.finite_tries: the waits of the rungs up to k (an uncounted rung has
\* no tries and comes last).
Tries(rungs, k) == Cardinality(UNION {{i} \X (1..rungs[i].tries) : i \in 1..k})
FiniteTries(g) == Tries(g.rungs, Len(g.rungs))

\* Cadence.wait_for: the wait after the n-th unanswered message (0: exhausted).
WaitFor(g, n) ==
  LET rungs == {k \in DOMAIN g.rungs :
                  g.rungs[k].tries = 0 \/ n <= Tries(g.rungs, k)}
  IN  IF rungs = {} THEN 0 ELSE g.rungs[Min(rungs)].every

\* Mutant: showing up answers whatever was recorded before.
PresenceInserted(g) ==
  LET shown == {i \in DOMAIN log : log[i].by = User /\ log[i].kind \in g.presence}
  IN  Max({0} \cup {log[i].at : i \in 1..Max({0} \cup shown)})

\* The newest time at which the user showed up, whenever it was recorded.
Presence(g) ==
  LET shown == {i \in DOMAIN log : log[i].by = User /\ log[i].kind \in g.presence}
  IN  Max({0} \cup {log[i].at : i \in shown})

\* CadenceGate._bounded: a denial is reconsidered within max_sleep (0: never).
Bounded(g, retry, t) ==
  IF g.maxSleep = 0 THEN retry ELSE Min({retry, t + g.maxSleep})

\* CadenceGate.check: the ladder, then the delivery hours.
Cadence(g, t) ==
  LET sent == Newest(Outreaches, FiniteTries(g) + 1)
      cutoff == Presence(g)
      unanswered == {i \in sent : log[i].at > cutoff}
      wait == WaitFor(g, Cardinality(unanswered))
      due == Max({log[i].at : i \in unanswered}) + wait
      retry == IF ~g.daily \/ InHours(Hour(due), g.hours) THEN due
                                                ELSE AtHour(g.hours.start, due)
  IN  IF unanswered = {} THEN Clear
      ELSE IF wait = 0 \/ (g.daily /\ setup.zone = NoZone) THEN Denied(0)
      ELSE IF t < retry THEN Denied(Bounded(g, retry, t))
      ELSE IF g.daily /\ ~InHours(Hour(t), g.hours)
        THEN Denied(Bounded(g, AtHour(g.hours.start, t), t))
      ELSE Clear

Verdict(g, r, t) ==
  CASE g.kind = "backoff" -> Backoff(g, r, t)
    [] g.kind = "quiet" -> QuietHours(g, t)
    [] g.kind = "cadence" -> Cadence(g, t)

\* AllOf.check: the first denial wins; an empty stack allows everything.
AllOf(r, t) ==
  LET verdicts == [i \in DOMAIN setup.stack |-> Verdict(setup.stack[i], r, t)]
      denial == SelectInSeq(verdicts, LAMBDA v : ~v.allowed)
  IN  IF denial = 0 THEN Clear ELSE verdicts[denial]

-----------------------------------------------------------------------------
(***************************************************************************)
(* The stream and its rhythms.                                             *)
(***************************************************************************)
ByUser(e) == e.by = User
Crew == UNION Range(setup.cast)
Chatter == {i \in Messages : ~ByUser(log[i]) /\ ~IsOutreach(log[i])}
Firings == {r \in Rhythm : at[r] # 0}

Record(e) == log' = Append(log, e)

\* The user does something at a time.
Shows(kind, when) ==
  /\ kind \in setup.habits
  /\ Cardinality({i \in DOMAIN log : ByUser(log[i])}) < setup.visits
  /\ \A i \in Outreaches : log[i].at # when
  /\ Record([by |-> User, kind |-> kind, proactive |-> FALSE, at |-> when])
  /\ UNCHANGED <<setup, now, next, at, cleared, said>>

\* The user writes.
UserSpeaks == Shows("message", now)

\* The user does something, which the app records now or when a device syncs.
UserActs(when) == Shows("action", when)

\* An agent says something that is no outreach: an answer, or talk among agents.
AgentTalks(a) ==
  /\ "talk" \in setup.habits /\ Cardinality(Chatter) < setup.chatter
  /\ Record([by |-> a, kind |-> "message", proactive |-> FALSE, at |-> now])
  /\ UNCHANGED <<setup, now, next, at, cleared, said>>

\* No firing thinks for longer than Think.
Advance ==
  /\ now < setup.until
  /\ \A r \in Firings : now < at[r] + Think
  /\ now' = now + 1
  /\ UNCHANGED <<setup, log, next, at, cleared, said>>

\* A process takes a rhythm whose horizon has come; it runs one at a time.
Claim(r) ==
  /\ at[r] = 0 /\ next[r] <= now
  /\ Cardinality(Firings) < setup.processes
  /\ at' = [at EXCEPT ![r] = now]
  /\ UNCHANGED <<setup, now, log, next, cleared, said>>

End(r, horizon) ==
  /\ at' = [at EXCEPT ![r] = 0]
  /\ cleared' = [cleared EXCEPT ![r] = FALSE]
  /\ said' = [said EXCEPT ![r] = 0]
  /\ next' = [next EXCEPT ![r] = horizon]
  /\ UNCHANGED <<setup, now, log>>

\* A gate says no: the firing ends with the gate's horizon or the loop's.
Deny(r) ==
  /\ at[r] # 0 /\ ~cleared[r]
  /\ LET v == AllOf(r, at[r]) IN
       /\ ~v.allowed
       /\ End(r, IF v.retry # 0 THEN v.retry ELSE at[r] + DenialRecheck)

Pass(r) ==
  /\ at[r] # 0 /\ ~cleared[r]
  /\ AllOf(r, at[r]).allowed
  /\ cleared' = [cleared EXCEPT ![r] = TRUE]
  /\ UNCHANGED <<setup, now, log, next, at, said>>

\* The engine delivers and records the next line of the script; nobody asks the
\* gates again.
Speak(r, a) ==
  /\ cleared[r] /\ said[r] < setup.lines
  /\ \A i \in DOMAIN log : ByUser(log[i]) => log[i].at # now
  /\ Record([by |-> a, kind |-> "message", proactive |-> TRUE, at |-> now])
  /\ said' = [said EXCEPT ![r] = @ + 1]
  /\ UNCHANGED <<setup, now, next, at, cleared>>

\* The firing ends, with all of its lines said or without: cancelled, silent,
\* failed on the way.  The rhythm is due again soon, so that only the gates hold it
\* back.
Finish(r) ==
  /\ cleared[r]
  /\ End(r, at[r] + 1)

Rest == now = setup.until /\ UNCHANGED vars

Next ==
  \/ Advance \/ Rest \/ UserSpeaks
  \/ \E when \in 1..now : UserActs(when)
  \/ \E a \in Crew : AgentTalks(a)
  \/ \E r \in Rhythm : \/ Claim(r) \/ Deny(r) \/ Pass(r) \/ Finish(r)
                       \/ \E a \in setup.cast[r] : Speak(r, a)

Spec == Init /\ [][Next]_vars

-----------------------------------------------------------------------------
(***************************************************************************)
(* Properties.  A chain is the outreach since the user last showed up, by  *)
(* the time of the events: what a gate would find in a log in order of     *)
(* time, without windows.                                                  *)
(***************************************************************************)
Chain(kinds) ==
  {i \in Outreaches : \A j \in DOMAIN log :
     ByUser(log[j]) /\ log[j].kind \in kinds => log[j].at < log[i].at}

Gates(kind) == {g \in Range(setup.stack) : g.kind = kind}

\* What the firings that a gate let through may say before others hear of it.
Reach == setup.processes * setup.lines

\* The agents' talk since the user's last message, and whether it leaves room for
\* the crew's cap in the window of a gate.
Crowd == {i \in Chatter : \A j \in Messages : j > i => ~ByUser(log[j])}
HasRoom(g) ==
  g.kind = "backoff" => g.window = 0 \/ g.crewCap + Cardinality(Crowd) <= g.window

\* Being ignored silences: the crew's cap, the cap of an author (of one whom only
\* rhythms of its own let speak) and an exhausted ladder hold for the messages
\* that were really sent, except for what the firings under way were let through
\* with; those of a backoff as long as talk does not push outreach out of its
\* window.
CapsHold ==
  /\ \A g \in Gates("backoff") : HasRoom(g) =>
       LET chain == Chain({"message"}) IN
         /\ Cardinality(chain) < g.crewCap + Reach
         /\ g.authorCap # 0 => \A a \in Crew :
              LET own == {r \in Rhythm : a \in setup.cast[r]} IN
                (\A r \in own : setup.actor[r] = a) =>
                  Cardinality({i \in chain : log[i].by = a}) <
                    g.authorCap + Min({setup.processes, Cardinality(own)}) * setup.lines
  /\ \A g \in Gates("cadence") :
       (\A k \in DOMAIN g.rungs : g.rungs[k].tries # 0) =>
         Cardinality(Chain(g.presence)) <= FiniteTries(g) + Reach

\* The wait of the rung whose tries cover the n-th message (0: there is none).
Quiet(g, n) ==
  IF g.kind = "backoff" THEN g.base * 2 ^ (n - 1)
  ELSE LET rungs == {k \in DOMAIN g.rungs :
                       /\ Tries(g.rungs, k - 1) < n
                       /\ g.rungs[k].tries = 0 \/ n <= Tries(g.rungs, k)}
       IN  IF rungs = {} THEN 0 ELSE g.rungs[CHOOSE k \in rungs : TRUE].every

\* No nagging: a line comes after the quiet that the messages before its firing
\* call for, whatever the user, late devices and the other rhythms did between the
\* claim and the words.  With one process those are all of the chain but the lines
\* that the firing itself has said; what other processes may have under way is
\* not heard either.
NoNagging ==
  [][\A r \in Rhythm : said'[r] > said[r] =>
       \A g \in Gates("backoff") \cup Gates("cadence") : HasRoom(g) =>
         LET chain == Chain(IF g.kind = "backoff" THEN {"message"} ELSE g.presence)
             Nth(i) == Cardinality({j \in chain : j <= i})
             unheard == said[r] + Reach - setup.lines
         IN  \A i \in chain : Nth(i) + unheard <= Cardinality(chain) =>
               log[i].at + Quiet(g, Nth(i)) <= now]_vars

\* The night, hour by hour from its start.
Night(hours) ==
  {(hours.start + i) % Day : i \in 0..(((hours.end - hours.start) % Day) - 1)}

\* The night is quiet: what is heard in it was begun before it, at most Think
\* hours ago; and where the zone is unknown nothing is heard.
NightIsQuiet ==
  \A g \in Gates("quiet"), e \in Range(log) :
    IsOutreach(e) => /\ setup.zone # NoZone
                     /\ \E t \in (e.at - Think)..e.at : Hour(t) \notin Night(g.hours)

\* The horizon of a denial is exact: if nobody does anything, it is the first
\* time at which the gate says yes (or max_sleep from now, if that is earlier),
\* and a denial without horizon would last for ever.  A horizon too early spins
\* the loop, one too late sleeps through the moment.
HorizonsAreExact ==
  \A g \in Range(setup.stack), r \in Rhythm :
    LET retry == Verdict(g, r, now).retry
        Yes(t) == Verdict(g, r, t).allowed
    IN  ~Yes(now) =>
          IF retry = 0 THEN \A t \in now..Ahead : ~Yes(t)
          ELSE /\ retry > now
               /\ \A t \in now..(retry - 1) : ~Yes(t)
               /\ \/ Yes(retry)
                  \/ g.kind = "cadence" /\ g.maxSleep # 0 /\ retry = now + g.maxSleep
=============================================================================
