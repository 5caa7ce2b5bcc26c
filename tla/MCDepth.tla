------------------------------ MODULE MCDepth ------------------------------
(* A chain of four sessions: user, started by the user; child, which the     *)
(* plugin created and the host reports as a root, or an ordinary one;        *)
(* grandchild; and farthest.  Two of them fit into the tracker.              *)
EXTENDS Depth

CONSTANTS user, child, grandchild, farthest

MCIds == {user, child, grandchild, farthest}
MCCreator ==
  [x \in MCIds |-> CASE x = user -> None [] x = child -> user
                     [] x = grandchild -> child [] x = farthest -> grandchild]
MCScenarios ==
    {[plugin |-> {child}, existing |-> {user}, asks |-> {farthest}, deletes |-> {grandchild},
      lapses |-> 1, failures |-> 1, waiters |-> 2],
     [plugin |-> {}, existing |-> {user, child}, asks |-> {child, grandchild},
      deletes |-> {child}, lapses |-> 0, failures |-> 1, waiters |-> 1]}
=============================================================================
