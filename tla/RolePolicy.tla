------------------------------ MODULE RolePolicy ------------------------------
(***************************************************************************)
(* The pure rules of roles mode: what a role dispatch is granted and the   *)
(* tier window it runs in (src/routing/roles/policy.ts), the role's        *)
(* maximum (authority.ts) and the place of a path in a work root           *)
(* (work-root.ts).                                                         *)
(*                                                                         *)
(* Actions are reduced to one member per class the rules tell apart:       *)
(* "read" stands for read, glob, grep and router_git, "run" for router_run *)
(* and "web" for webfetch, websearch and context7.  A role is a record     *)
(* [kind, mode, allow, deny, floor, ceiling].  Ranks count from 1.         *)
(***************************************************************************)
EXTENDS Integers, Sequences, FiniteSets, SequencesExt

\* "No tier", "no root", "no model": the code's null.
None == "none"

LOCAL_ACTIONS == {"read"}
EXEC == {"run"}
WRITE == {"edit"}
EGRESS == {"web", "execute"}
\* Where e stands in the sequence s; 0 when it is not there.
At(s, e) == SelectInSeq(s, LAMBDA x : x = e)
Clamp(n, lo, hi) == IF n < lo THEN lo ELSE IF n > hi THEN hi ELSE n
Larger(m, n) == IF m >= n THEN m ELSE n

-----------------------------------------------------------------------------
(* Detection and grants                                                    *)

DETECTION == <<"none", "grader", "deterministic">>
strength(d) == Larger(1, At(DETECTION, d))

\* The router's own gate is deterministic; anything else is capped at "grader".
effectiveDetection(verifies, routerGate, claim, acceptance) ==
  IF ~verifies THEN "none"
  ELSE IF routerGate THEN "deterministic"
  ELSE DETECTION[Clamp(strength(claim), 1, Clamp(strength(acceptance), 1, 2))]

\* Write without read-and-run is the base of an implementing role only.
dynamicBase(kind) ==
  IF kind = "implement" THEN LOCAL_ACTIONS \cup WRITE ELSE LOCAL_ACTIONS

\* The separation rule: a grant never mixes egress with the other classes.
Separated(actions) ==
  IF actions \cap EGRESS # {} /\ actions \ EGRESS # {} THEN actions \ EGRESS ELSE actions

grantFor(role, needs, widened, workRoot) ==
  LET max == role.allow \ role.deny
      derived == dynamicBase(role.kind)
                 \cup {a \in WRITE : "edit" \in needs}
                 \cup {a \in EXEC : needs \cap {"shell", "network"} # {}}
      actions == IF role.mode = "fixed" THEN max ELSE max \cap (derived \cup widened)
  IN  [actions |-> IF workRoot = None THEN Separated(actions) \ (WRITE \cup EXEC)
                   ELSE Separated(actions),
       root |-> workRoot]

\* The role's maximum; `execute` is never part of it.
roleMax(role) == (role.allow \ role.deny) \ {"execute"}

-----------------------------------------------------------------------------
(* Tier windows                                                            *)

BUILTIN_TIERS == <<"fast", "medium", "heavy">>
tierIndex(tier) == At(BUILTIN_TIERS, tier)

\* The weakest tier a grant may run on, by how its work will be checked.
authorityFloor(grant, detection, risk, scope) ==
  LET write == grant.actions \cap WRITE # {}
      exec == grant.actions \cap EXEC # {}
  IN  CASE write /\ exec -> IF detection = "deterministic" THEN "medium" ELSE "heavy"
        [] write /\ ~exec /\ detection = "deterministic" ->
             IF risk = "low" /\ scope = "single" THEN "fast" ELSE "medium"
        [] write /\ ~exec /\ detection = "grader" -> "medium"
        [] write /\ ~exec /\ detection = "none" -> IF risk = "high" THEN "heavy" ELSE "medium"
        [] OTHER -> "fast"

\* A floor that is not on the preset rounds up, and an unknown one goes to the top.
placeFloor(tier, order) ==
  LET rank == tierIndex(tier)
      up == SelectInSeq(order, LAMBDA t : tierIndex(t) >= rank)
  IN  CASE At(order, tier) > 0 -> At(order, tier)
        [] At(order, tier) = 0 /\ rank = 0 -> Len(order)
        [] At(order, tier) = 0 /\ rank > 0 /\ up > 0 -> up
        [] OTHER -> IF rank = 1 THEN 1 ELSE Len(order)

\* A ceiling rounds down; an unknown one bounds nothing.
placeCeiling(tier, order) ==
  LET rank == tierIndex(tier)
      down == SelectLastInSeq(order, LAMBDA t : tierIndex(t) \in 1..rank)
  IN  CASE At(order, tier) > 0 -> At(order, tier)
        [] At(order, tier) = 0 /\ rank = 0 -> Len(order)
        [] OTHER -> Larger(down, 1)

RISK_ORDER == <<"low", "medium", "high">>
SCOPE_ORDER == <<"single", "multi", "repo">>
highest(order, a, b) == IF At(order, b) > At(order, a) THEN b ELSE a

\* The facts a dispatch is bounded by: the highest risk and scope any source claims.
effectiveFacts(facts, claimed) ==
  [facts EXCEPT !.risk = highest(RISK_ORDER, facts.risk, claimed.risk),
                !.scope = highest(SCOPE_ORDER, facts.scope, claimed.scope)]

\* The window [floor, ceiling] of a dispatch and its pin, as tiers of `order`:
\* the floor is the highest of its four sources, and it lifts the ceiling and the pin.
tierBounds(role, grant, facts, detection, floorTier, runningTier, pinTier, order) ==
  LET sources == {role.floor, authorityFloor(grant, detection, facts.risk, facts.scope),
                  floorTier, runningTier} \ {None}
      placed == {placeFloor(t, order) : t \in sources}
      floor == CHOOSE n \in placed : \A m \in placed : m <= n
      ceiling == Larger(placeCeiling(role.ceiling, order), floor)
      pin == At(order, pinTier)
  IN  [floor |-> order[floor], ceiling |-> order[ceiling],
       pinned |-> IF pin = 0 THEN None ELSE order[Clamp(pin, floor, ceiling)]]

-----------------------------------------------------------------------------
(* Paths.  A path is a sequence of names below the file system's root; the *)
(* directories that exist are a set of paths and `links` sends a link to   *)
(* the path it stands for.                                                 *)

\* canonicalAuthorityPath: the real path of the longest existing prefix, then the rest;
\* undefined (<<>>) for a link that leads nowhere and for ".." below a missing directory.
canonicalAuthorityPath(path, exist, links) ==
  LET real(n) == LET p == SubSeq(path, 1, n) IN IF p \in DOMAIN links THEN links[p] ELSE p
      found == {n \in 1..Len(path) : real(n) \in exist}
      head == CHOOSE n \in found : \A m \in found : m <= n
      tail == SubSeq(path, head + 1, Len(path))
      dangling == \E n \in 1..Len(path) :
                    SubSeq(path, 1, n) \in DOMAIN links /\ real(n) \notin exist
  IN  IF found = {} \/ dangling \/ Contains(tail, "..") THEN <<>> ELSE real(head) \o tail

insideWorkRoot(target, root) == IsPrefix(root, target)

=============================================================================
