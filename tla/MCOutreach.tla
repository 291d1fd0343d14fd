----------------------------- MODULE MCOutreach -----------------------------
(***************************************************************************)
(* Outreach for TLC: the deployments of its run.                           *)
(***************************************************************************)
EXTENDS Outreach, TLC

CONSTANTS r1, r2, ada, bob

\* Two agents with a rhythm each, and one agent with both; scripts for the actor
\* alone, and one rhythm's scripts for both agents.
Each == r1 :> ada @@ r2 :> bob
Both == r1 :> ada @@ r2 :> ada
Alone(actor) == [r \in Rhythm |-> {actor[r]}]
Together == r1 :> {ada, bob} @@ r2 :> {bob}

Doubling(crewCap, authorCap, window) ==
  [kind |-> "backoff", crewCap |-> crewCap, authorCap |-> authorCap, base |-> 3,
   window |-> window]
Nights == [kind |-> "quiet", hours |-> [start |-> 4, end |-> 1]]

Ladders(rungs, daily, presence) ==
  [kind |-> "cadence", rungs |-> rungs,
   daily |-> daily, hours |-> [start |-> 5, end |-> 2], maxSleep |-> 3,
   presence |-> presence]
Capped == Ladders(<<[every |-> 3, tries |-> 2]>>, FALSE, {"message", "action"})
Mornings == Ladders(<<[every |-> 3, tries |-> 1], [every |-> 4, tries |-> 0]>>,
                    TRUE, {"message"})

Deployment(stack, actor, cast, processes, lines, zone, habits, visits, chatter, until) ==
  [stack |-> stack, actor |-> actor, cast |-> cast, processes |-> processes,
   lines |-> lines, zone |-> zone, habits |-> habits, visits |-> visits,
   chatter |-> chatter, until |-> until]

Deployments ==
  {Deployment(<<Doubling(2, 1, 3)>>, Each, Alone(Each), 2, 1, 0, {"message"}, 1, 0, 5),
   Deployment(<<Doubling(2, 1, 0)>>, Each, Together, 2, 2, 0, {}, 0, 0, 4),
   Deployment(<<Doubling(2, 0, 3)>>, Both, Alone(Both), 1, 2, 0,
              {"message", "talk"}, 1, 2, 4),
   Deployment(<<Capped>>, Both, Alone(Both), 1, 2, 0, {"action"}, 2, 0, 5),
   Deployment(<<Nights, Doubling(3, 2, 3)>>, Each, Alone(Each), 1, 1, 2,
              {"message", "talk"}, 1, 1, 6),
   Deployment(<<Mornings, Nights>>, Both, Alone(Both), 2, 1, 3, {"message"}, 1, 0, 7),
   Deployment(<<Nights, Mornings>>, Each, Alone(Each), 1, 1, NoZone,
              {"message", "talk"}, 1, 1, 7)}
=============================================================================
