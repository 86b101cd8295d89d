------------------------- MODULE MCHealingEvidence -------------------------
EXTENDS HealingEvidence

MCMetrics == {"outcome", "rule"}
MCKeys == {"gate", "breach", "failure", "win"}
MCWriters == 0..MaxTurns
MCMatched == {"gate", "breach"}
MCTargets == <<"outcome", "rule">>
MCBaselines == {[m \in MCMetrics |-> 2], [m \in MCMetrics |-> IF m = "rule" THEN 2 ELSE NoScore]}

Nothing == [traces |-> 0, turns |-> 0, notices |-> 0, captures |-> 0, edits |-> 0,
            rounds |-> 0, restarts |-> 0, forgets |-> 0, files |-> {}]

Both == [m \in MCMetrics |-> 2]
OneMetric == [m \in MCMetrics |-> IF m = "rule" THEN 2 ELSE NoScore]
Files == {CaseFile(1, {}, "win", TRUE, Both),
          CaseFile(2, {"gate"}, "failure", TRUE, Both),
          CaseFile(3, {"failure", "gate"}, "failure", TRUE, OneMetric)}
Wins == {CaseFile(1, {}, "win", TRUE, Both),
         CaseFile(2, {"failure"}, "win", TRUE, Both),
         CaseFile(3, {"win"}, "win", TRUE, OneMetric)}

\* The gate over many turns or many traces; notices against the host and crashes,
\* also at a set that is full; rounds over a set that changes under them, or of more
\* wins than a sample takes; and one turn all the way to a round.
MCScenarios ==
  {[Nothing EXCEPT !.traces = 2, !.turns = 3],
   [Nothing EXCEPT !.traces = 2, !.turns = 2, !.restarts = 1],
   [Nothing EXCEPT !.traces = 3, !.turns = 2],
   [Nothing EXCEPT !.traces = 2, !.turns = 2, !.forgets = 1],
   [Nothing EXCEPT !.turns = 2, !.notices = 2, !.captures = 2, !.edits = 1, !.restarts = 1],
   [Nothing EXCEPT !.traces = 2, !.turns = 1, !.notices = 1, !.captures = 1, !.restarts = 1, !.files = Files],
   [Nothing EXCEPT !.rounds = 1, !.captures = 1, !.files = Files],
   [Nothing EXCEPT !.rounds = 1, !.captures = 1, !.files = Wins],
   [Nothing EXCEPT !.rounds = 1, !.edits = 1, !.files = Files],
   [Nothing EXCEPT !.traces = 2, !.turns = 1, !.notices = 1, !.rounds = 1]}
=============================================================================
