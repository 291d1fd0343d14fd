------------------------------- MODULE MCPulse -------------------------------
(***************************************************************************)
(* Pulse for TLC: the rhythms and the engine results of its runs.          *)
(***************************************************************************)
EXTENDS Pulse, TLC

CONSTANTS k1, k2

Came(delivered, pending, errored) ==
  [status |-> "completed", delivered |-> delivered, pending |-> pending,
   errored |-> errored]
Ended(status) == [NoResult EXCEPT !.status = status]

\* Results of scripts with one line of prose, and of longer ones.
OneLine == {Came(TRUE, 0, FALSE), Came(FALSE, 1, FALSE), Came(FALSE, 0, TRUE),
            Ended("cancelled"), Ended("noop")}
TwoLines == {Came(TRUE, 1, FALSE), Came(FALSE, 2, FALSE), Came(TRUE, 0, TRUE)}
AnyLines == OneLine \cup TwoLines

\* As in the code's defaults, the grace of a late occurrence covers a retry.
Rhythmic(kind, every, results) ==
  [kind |-> kind, every |-> every, jitter |-> 0, marks |-> {0}, change |-> 0,
   shift |-> 0, fireOnce |-> FALSE, grace |-> 2, results |-> results]

\* A morning brief of one line, the same on the day the clocks are set back right
\* after it or forward over it; a check-in of several lines; a brief beside a
\* decided rhythm; and a chime that sounds twice in the hour that is repeated.
Brief == Rhythmic("calendar", 4, OneLine)
Moved(r, change, shift) == [r EXCEPT !.change = change, !.shift = shift]
CheckIn == [Rhythmic("last_delivered", 4, AnyLines) EXCEPT !.jitter = 1]
Chime == Moved([Rhythmic("calendar", 8, OneLine) EXCEPT !.marks = {4, 5}], 6, -2)
Alone(r) == k1 :> r

BriefOrCheckIn ==
  {Alone(Brief), Alone(Moved(Brief, 5, -1)), Alone(Moved(Brief, 4, 1)),
   Alone(CheckIn)}
CheckInOnly == {Alone(CheckIn)}
ChimeOnly == {Alone(Chime)}
Mixed ==
  {k1 :> [Rhythmic("calendar", 2, AnyLines) EXCEPT !.fireOnce = TRUE] @@
   k2 :> Rhythmic("dynamic", 2, AnyLines)}

WorkerSymmetry == Permutations(Worker)
=============================================================================
