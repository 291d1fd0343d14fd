------------------------------ MODULE MCEngine ------------------------------
(***************************************************************************)
(* Engine for TLC: the casts of its runs.  Each cast keeps one group of    *)
(* hazards and leaves the others out, so that every interleaving of its    *)
(* tasks is explored.                                                      *)
(***************************************************************************)
EXTENDS Engine, TLC

CONSTANTS h1, h2, h3, s1, s2, ada, bob, eve

MCAgent == {ada, bob}
MCSpeaker == {ada, bob, eve}

Owed(a) == [speaker |-> a, response |-> "required", delivery |-> "direct",
            target |-> FALSE]
Private(a) == [speaker |-> a, response |-> "silent", delivery |-> "none",
               target |-> FALSE]
Frozen(a) == [speaker |-> a, response |-> "optional", delivery |-> "pending",
              target |-> TRUE]

\* Turns: nothing said after an action, prose after an action, a provider that died
\* after two tools of which one is recorded, a refusal and an errored outcome after
\* an action, a provider that failed at its first call.
Shrugs == [kind |-> "ok", text |-> FALSE, actions |-> <<TRUE>>]
ActsAndSays == [kind |-> "ok", text |-> TRUE, actions |-> <<TRUE>>]
Dies == [kind |-> "after_tools", text |-> FALSE, actions |-> <<FALSE, TRUE>>]
Refuses == [kind |-> "refused", text |-> FALSE, actions |-> <<TRUE>>]
Errs == [kind |-> "errored", text |-> TRUE, actions |-> <<TRUE>>]
FailsAtOnce == [kind |-> "provider", text |-> FALSE, actions |-> <<>>]

\* A user's message and a guarded check-in, on one stream or on two.
UserTurn(s) == [stream |-> s, inbound |-> TRUE, guarded |-> FALSE, target |-> TRUE]
CheckIn(s) == [stream |-> s, inbound |-> FALSE, guarded |-> TRUE, target |-> TRUE]
Routeless(s) == [stream |-> s, inbound |-> TRUE, guarded |-> FALSE, target |-> FALSE]

TurnsStimuli == {UserTurn(s1), CheckIn(s1)}
TurnsScripts == {<<>>, <<Private(bob), Owed(ada)>>}
TurnsOutcomes == {Shrugs, ActsAndSays}
TurnsPoints == {"entry", "act", "append"}
HandleSymmetry == Permutations(Handle)

LinesStimuli == {UserTurn(s1), Routeless(s2)}
LinesScripts ==
  {<<Owed(eve), Frozen(ada)>>, <<Private(ada), Owed(eve)>>, <<Owed(bob), Private(eve)>>}
LinesOutcomes == {ActsAndSays, Shrugs, Dies, Refuses, Errs, FailsAtOnce}
LinesPoints == {"entry"} \cup HandlePoint
=============================================================================
