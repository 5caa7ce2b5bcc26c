---------------------------- MODULE MCReference ----------------------------
(***************************************************************************)
(* Two dispatches over a repository of two files: with sessions that write *)
(* and commit, the orchestrator once or twice, or with a collection of     *)
(* left-over worktrees.                                                    *)
(***************************************************************************)
EXTENDS Reference, TLC

MCWork == (0 :> "x") @@ (1 :> "one") @@ (2 :> "two")
MCHead == [f \in Files |-> IF f = "new" THEN "none" ELSE "h"]
Clean == [head |-> MCHead, tree |-> MCHead]
\* A dirty and an untracked file.
Dirty == [head |-> MCHead, tree |-> [f \in Files |-> "o"]]
Left == [exists |-> TRUE, reg |-> TRUE, lock |-> "own", links |-> TRUE, fresh |-> FALSE, foreign |-> FALSE]
Leftovers == {Left, [Left EXCEPT !.lock = "init"], [Left EXCEPT !.lock = "user"],
              [Left EXCEPT !.exists = FALSE, !.links = FALSE], [Left EXCEPT !.reg = FALSE, !.lock = "none"],
              [Left EXCEPT !.reg = FALSE, !.lock = "none", !.foreign = TRUE]}
\* The orchestrator writes n times, the producer of dispatch 1 m times.
Writes(n, m) == (0 :> n) @@ (1 :> m) @@ (2 :> 0)
Base == [start |-> Clean, left |-> NoDir, collects |-> FALSE, who |-> {1}, captures |-> {1}, writes |-> Writes(2, 1)]
MCScenarios ==
  {[Base EXCEPT !.writes = Writes(1, 1)], [Base EXCEPT !.start = Dirty, !.writes = Writes(1, 0)]}
  \cup {[Base EXCEPT !.captures = {}]}
  \cup {[Base EXCEPT !.start = s, !.who = {1, 2}, !.captures = {}, !.writes = Writes(0, 1)] : s \in {Clean, Dirty}}
  \cup {[Base EXCEPT !.left = l, !.collects = TRUE, !.writes = Writes(0, 0)] : l \in Leftovers}
=============================================================================
