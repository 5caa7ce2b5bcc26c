------------------------------- MODULE Depth -------------------------------
(***************************************************************************)
(* The depth tracker (router/depth.ts) and the depth guard that asks it    *)
(* (router/depth-guard.ts).  The tracker learns who started which session  *)
(* from three sources: the host's creation events, the host's answer to a  *)
(* parent lookup, and the plugin's own record of the children it created,  *)
(* which the host reports as roots.  What it knows is bounded (eviction),  *)
(* ages (sweep), is memoised along the chain of parents (fresh), and is    *)
(* completed by lookups that are shared, time out and answer late.         *)
(*                                                                         *)
(* The host tells the truth and a session has one creator, so links never  *)
(* conflict; the hop cap of 32, the overflow of the parent list and the    *)
(* fetch budget are out of reach of such a tree and are left out.  The     *)
(* victim of an eviction is any tracked session other than the protected   *)
(* one: the order of use is not modelled.  A lapse of the idle time is     *)
(* the flag old on everything that is not touched afterwards.              *)
(***************************************************************************)
EXTENDS Integers, FiniteSets, TLC

CONSTANTS Ids,         \* sessions
          None,        \* no session
          Creator,     \* who started the session, or None: what really happened
          Scenarios,   \* [plugin, existing, asks, deletes, lapses, failures, waiters]: sessions
                       \* the plugin creates; that are older than it; that dispatch; that
                       \* are deleted.  Bounds: lapses of the idle time, lookups of a
                       \* live session that fail, callers that await one walk
          MaxEntries,  \* opts.maxEntries
          Limit        \* enforcement.maxDelegationDepth

ASSUME DepthAssumption ==
    /\ None \notin Ids
    /\ Creator \in [Ids -> Ids \union {None}]
    /\ {MaxEntries, Limit} \subseteq Nat \ {0}
    /\ \A s \in Scenarios : {s.lapses, s.failures, s.waiters} \subseteq Nat

VARIABLES scenario,  \* the sessions' kinds
          node,      \* lru and pins: tracked session -> what is known of it
          ghost,     \* held and loose: evicted session -> [links, old]
          walk,      \* walks: session -> the walk under way for it
          lookup,    \* lookups: sessions with a request awaited by a walk
          stray,     \* detached lookups that may still answer
          failed,    \* failedAt: sessions whose lookup is throttled
          live,      \* sessions the host has created
          deleted,   \* sessions the host has deleted
          told,      \* creation events and plugin records delivered: <<id, source>>
          ans,       \* the answer of depthOf just given and the guard's verdict on it
          active,    \* sessions recorded or answered for since the last lapse
          gone,      \* plugin children that expired with no active descendant
          capped,    \* evidence of a plugin child was given up at a cap (and warned of)
          age, fails

vars == <<scenario, node, ghost, walk, lookup, stray, failed, live, deleted,
          told, ans, active, gone, capped, age, fails>>
tables == <<node, ghost>>
hostState == <<scenario, live, deleted, told>>
requests == <<lookup, stray, failed>>

Plugin == scenario.plugin

\* What the host reports as the parent of a session.
HostParent(id) == IF id \in Plugin THEN None ELSE Creator[id]

LinksOf(p) == IF p = None THEN {} ELSE {p}

\* The depth of a session and the sessions above it, as they really are.
TrueDepth[id \in Ids] == IF Creator[id] = None THEN 0 ELSE 1 + TrueDepth[Creator[id]]
Above[id \in Ids] == IF Creator[id] = None THEN {} ELSE {Creator[id]} \union Above[Creator[id]]

Highest(S) == CHOOSE x \in S : \A y \in S : y <= x
Larger(a, b) == Highest({a, b})

Without(f, S) == [x \in DOMAIN f \ S |-> f[x]]

-----------------------------------------------------------------------------
(* Nodes.                                                                  *)

makeNode(links, plugin) ==
    [links |-> links, plugin |-> plugin, pinned |-> plugin,
     depth |-> IF links = {} /\ ~plugin THEN 0 ELSE 1,
     resolved |-> links = {},
     rootSeen |-> links = {} /\ ~plugin,
     fresh |-> FALSE, gap |-> None, old |-> FALSE]

\* invalidate: the memos below id that rest on it.  Only fresh ones carry on.
invalidate(N, id) ==
    LET below[S \in SUBSET DOMAIN N] ==
            LET more == S \union {k \in DOMAIN N :
                          /\ N[k].fresh
                          /\ N[k].links \cap (S \union {id}) # {}}
            IN IF more = S THEN S ELSE below[more]
    IN [k \in DOMAIN N |-> IF k \in below[{}] THEN [N[k] EXCEPT !.fresh = FALSE] ELSE N[k]]

changed(N, id) == invalidate([N EXCEPT ![id].fresh = FALSE], id)

\* addLink, addRoot and the plugin's own evidence, on one node.
addLink(n, p) ==
    IF p \in n.links THEN n
    ELSE [n EXCEPT !.links = @ \union {p}, !.resolved = FALSE, !.depth = Larger(@, 1),
                   !.pinned = @ \/ (~n.plugin /\ (n.rootSeen \/ n.links # {}))]

addRoot(n) ==
    IF n.plugin THEN n
    ELSE IF n.links # {} THEN [n EXCEPT !.pinned = TRUE]
    ELSE [n EXCEPT !.rootSeen = TRUE]

asPlugin(n) ==
    IF n.plugin THEN n
    ELSE [n EXCEPT !.plugin = TRUE, !.pinned = TRUE, !.depth = Larger(@, 1)]

absorb(into, from) ==
    LET a == IF from.plugin THEN asPlugin(into) ELSE into
        b == IF from.rootSeen THEN addRoot(a) ELSE a
        c == IF from.links \subseteq b.links THEN b
             ELSE addLink(b, CHOOSE p \in from.links : p \notin b.links)
    IN [c EXCEPT !.depth = Larger(@, from.depth), !.old = @ /\ from.old]

\* Two nodes hold the same evidence.
sameEvidence(a, b) ==
    /\ a.links = b.links /\ a.plugin = b.plugin
    /\ a.depth = b.depth /\ a.resolved = b.resolved

\* Mutated form: the children that lacked the session keep their memo.
adoptQuietly(N, id, n) ==
    LET copies == {walk[w].learned[id] : w \in {v \in DOMAIN walk : id \in DOMAIN walk[v].learned}}
        full[S \in SUBSET copies] ==
            IF S = {} THEN n
            ELSE LET c == CHOOSE x \in S : TRUE IN absorb(full[S \ {c}], c)
    IN (id :> [full[copies] EXCEPT !.fresh = FALSE]) @@ N

\* adopt: a node becomes tracked and takes in what live walks learned of it.
adopt(N, id, n) ==
    LET copies == {walk[w].learned[id] : w \in {v \in DOMAIN walk : id \in DOMAIN walk[v].learned}}
        full[S \in SUBSET copies] ==
            IF S = {} THEN n
            ELSE LET c == CHOOSE x \in S : TRUE IN absorb(full[S \ {c}], c)
    IN invalidate((id :> [full[copies] EXCEPT !.fresh = FALSE]) @@ N, id)

\* applyLink: evidence (p, or None for a root) about id from one source.
applyLink(N, id, p, source) ==
    IF id \notin DOMAIN N
    THEN adopt(N, id, makeNode(LinksOf(p), source = "plugin"))
    ELSE LET a == IF source = "plugin" THEN asPlugin(N[id]) ELSE N[id]
             b == IF p # None THEN addLink(a, p)
                  ELSE IF source # "plugin" THEN addRoot(a) ELSE a
             M == [N EXCEPT ![id] = b]
         IN IF sameEvidence(N[id], b) THEN M ELSE changed(M, id)

-----------------------------------------------------------------------------
(* climb and memoize.                                                      *)

\* climb: the depth, whether every ancestor is known, and the first unknown
\* one.  N is what is tracked, L what this caller learned; a fresh memo stands
\* for the chain above it unless L holds something that is not tracked.
climb(N, L, start, useFresh) ==
    LET all == N @@ L
        short == useFresh /\ DOMAIN L \subseteq DOMAIN N
        visit[id \in DOMAIN all] ==
            LET n == all[id]
                known == n.links \cap DOMAIN all
                missing == IF n.resolved THEN {} ELSE n.links \ DOMAIN all
                up == {visit[p] : p \in known}
                derived == Highest({IF n.links # {} \/ n.plugin THEN 1 ELSE 0}
                                   \union {u.depth + 1 : u \in up})
                gaps == missing \union {u.gap : u \in {v \in up : v.gap # None}}
            IN IF short /\ n.fresh
               THEN [depth |-> n.depth, gap |-> n.gap, visited |-> {id}, excess |-> {}]
               ELSE [depth |-> Larger(n.depth, derived),
                     gap |-> IF gaps = {} THEN None ELSE CHOOSE g \in gaps : TRUE,
                     visited |-> {id} \union UNION {u.visited : u \in up},
                     excess |-> (IF gaps = {} /\ n.depth > derived THEN {id} ELSE {})
                                \union UNION {u.excess : u \in up}]
    IN [at \in DOMAIN all |-> visit[at]]

\* The sessions whose idle time a read of start restarts: the chain it rests on.
chain(N, start) ==
    LET up[S \in SUBSET DOMAIN N] ==
            LET more == S \union (DOMAIN N \cap UNION {N[s].links : s \in S})
            IN IF more = S THEN S ELSE up[more]
    IN up[{start}]

\* memoize, without the trim that ends it.
memoize(N, L, start) ==
    LET r == climb(N, L, start, TRUE)
        order == r[start].visited
        adopted[S \in SUBSET order] ==
            IF S = {} THEN N
            ELSE LET id == CHOOSE x \in S : TRUE
                     M == adopted[S \ {id}]
                 IN IF id \in DOMAIN M THEN M ELSE adopt(M, id, L[id])
        M == adopted[order]
        memo == [id \in DOMAIN M |->
            IF id \notin order THEN M[id]
            ELSE [M[id] EXCEPT !.depth = Larger(@, r[id].depth),
                               !.resolved = @ \/ r[id].gap = None,
                               !.fresh = TRUE, !.gap = r[id].gap,
                               !.pinned = @ \/ id \in r[start].excess]]
    IN [id \in DOMAIN memo |-> IF id \in chain(memo, start) THEN [memo[id] EXCEPT !.old = FALSE]
                               ELSE memo[id]]

-----------------------------------------------------------------------------
(* Eviction, ghosts and what a live walk keeps of a dropped node.          *)

\* drop, for a set: the links leave with the node; an evicted or expired
\* parent takes its children's absolute memo with it, a forgotten one does not.
drop(N, V, why) ==
    LET unresolved == [k \in DOMAIN N \ V |->
            IF why # "forget" /\ N[k].links \cap V # {}
            THEN [N[k] EXCEPT !.resolved = FALSE] ELSE N[k]]
        each[S \in SUBSET V] ==
            IF S = {} THEN unresolved
            ELSE LET id == CHOOSE x \in S : TRUE IN invalidate(each[S \ {id}], id)
    IN each[V]

\* trim: who is evicted so that at most MaxEntries stay, sparing start.
trimmed(N, start) ==
    LET plain == {id \in DOMAIN N : ~N[id].pinned}
        pinned == DOMAIN N \ plain
        excess == Cardinality(DOMAIN N) - MaxEntries
        fromPlain == IF excess <= 0 THEN 0
                     ELSE IF excess < Cardinality(plain) THEN excess ELSE Cardinality(plain)
        fromPins == IF Cardinality(pinned) > MaxEntries THEN Cardinality(pinned) - MaxEntries ELSE 0
    IN {V \in SUBSET DOMAIN N :
          /\ Cardinality(V \cap plain) = fromPlain
          /\ Cardinality(V \cap pinned) = fromPins
          /\ start \in V => \/ start \in plain /\ plain \subseteq V
                            \/ start \in pinned /\ pinned \subseteq V}

\* bury: the links of the evicted are remembered, at most MaxEntries of them;
\* a ghost nothing links to (loose) goes before one that bridges a gap (held).
buried(N, V, G) ==
    LET H == Without(G, DOMAIN N \ V)
        new == {id \in V : N[id].links # {}}
    IN [id \in DOMAIN H \union new |->
          IF id \in new THEN [links |-> N[id].links, old |-> N[id].old] ELSE H[id]]

loose(N, G) == {g \in DOMAIN G :
                  /\ \A k \in DOMAIN N : g \notin N[k].links
                  /\ \A h \in DOMAIN G : g \notin G[h].links}

unburied(N, G) ==
    LET excess == Cardinality(DOMAIN G) - MaxEntries
    IN {U \in SUBSET DOMAIN G :
          /\ Cardinality(U) = IF excess > 0 THEN excess ELSE 0
          /\ U \subseteq loose(N, G) \/ loose(N, G) \subseteq U}

\* The tables become N (not yet trimmed) for a read or a record of start.
\* What is dropped stays with the walks that have learned it.
Store(N, start) ==
    \E V \in trimmed(N, start) :
      LET M == drop(N, V, "evict")
          G == buried(N, V, ghost)
      IN \E U \in unburied(M, G) :
           /\ node' = M
           /\ ghost' = Without(G, U)
           /\ capped' = (capped \/ (\E id \in V : N[id].pinned)
                                \/ (\E g \in U : Above[g] \cap Plugin # {}))

\* learned of every walk, once the tables are N before they are trimmed.
Learned(N) ==
    [w \in DOMAIN walk |->
       [walk[w] EXCEPT !.learned =
          [id \in DOMAIN @ |-> IF id \in DOMAIN N THEN [N[id] EXCEPT !.fresh = FALSE] ELSE @[id]]]]

-----------------------------------------------------------------------------
(* Answers.                                                                *)

\* checkDispatch, in enforced mode: an unknown depth is let through.
checkDispatch(depth) == IF depth >= 0 /\ depth + 1 > Limit THEN "block" ELSE "allow"

\* The evidence about the plugin's children above id has been delivered, was
\* not given up at a cap and did not expire while nothing below it was active.
EvidenceHeld(id) ==
    /\ ~capped
    /\ \A p \in Plugin \cap ({id} \union Above[id]) :
          /\ p \notin scenario.existing /\ <<p, "plugin">> \in told
          /\ p \notin gone \union deleted

NoAnswer == [id |-> None, depth |-> -1, complete |-> FALSE, verdict |-> "allow", held |-> FALSE]
Silent == ans' = NoAnswer

Answered(id, depth, complete) ==
    /\ ans' = [id |-> id, depth |-> depth, complete |-> complete,
               verdict |-> checkDispatch(depth), held |-> EvidenceHeld(id)]
    /\ active' = IF depth >= 0 THEN active \union {id} ELSE active

\* floor: answer with what is known.
floor(id, L) ==
    IF id \notin DOMAIN (node @@ L)
    THEN /\ Answered(id, -1, FALSE)
         /\ UNCHANGED <<tables, capped>>
    ELSE LET N == memoize(node, L, id)
         IN /\ Store(N, id)
            /\ Answered(id, climb(node, L, id, TRUE)[id].depth, climb(node, L, id, TRUE)[id].gap = None)

\* What an exact climb lacks: the first unknown session, or None.
need(id, L) == IF id \notin DOMAIN (node @@ L) THEN id ELSE climb(node, L, id, TRUE)[id].gap

\* The ids a climb has put into learned.
Visited(id, L) ==
    IF id \notin DOMAIN (node @@ L) THEN L
    ELSE LET all == node @@ L
             seen == climb(node, L, id, TRUE)[id].visited
         IN [x \in seen \union DOMAIN L |-> [all[x] EXCEPT !.fresh = FALSE]]

\* Promise callbacks run before the next event: no walk has one to run.
Settled == \A w \in DOMAIN walk : walk[w].got = "no"

Init ==
    /\ scenario \in Scenarios
    /\ node = <<>> /\ ghost = <<>> /\ walk = <<>>
    /\ lookup = {} /\ stray = {} /\ failed = {}
    /\ live = scenario.existing /\ deleted = {} /\ told = {}
    /\ ans = NoAnswer
    /\ active = scenario.existing /\ gone = {} /\ capped = FALSE
    /\ age = 0 /\ fails = 0

\* record: evidence from an event, a lookup or the plugin.
record(id, p, source) ==
    LET A == applyLink(node, id, p, source)
        N == memoize(A, (id :> A[id]), id)
    IN /\ Store(N, id)
       /\ walk' = Learned(N)

-----------------------------------------------------------------------------
(* The host and the plugin.                                                *)

\* The host creates a session for one whose dispatch was admitted.  The plugin
\* records a child of its own before it prompts it.
Create(id) ==
    /\ Settled
    /\ Silent
    /\ id \notin live \union deleted
    /\ Creator[id] # None => Creator[id] \in live \cap active
    /\ Creator[id] \in Plugin => <<Creator[id], "plugin">> \in told
    /\ live' = live \union {id}
    /\ UNCHANGED <<scenario, deleted, told, tables, walk, requests, active, gone, capped, age, fails>>

\* recordRoot and recordCreated: the creation event arrives.
recordCreated(id) ==
    /\ Settled
    /\ Silent
    /\ id \in live \ scenario.existing
    /\ <<id, "event">> \notin told
    /\ record(id, HostParent(id), "event")
    /\ told' = told \union {<<id, "event">>}
    /\ active' = active \union {id}
    /\ UNCHANGED <<scenario, live, deleted, requests, gone, age, fails>>

\* recordPluginChild: the plugin notes the child it has created.
recordPluginChild(id) ==
    /\ Settled
    /\ Silent
    /\ id \in (live \cap Plugin) \ scenario.existing
    /\ <<id, "plugin">> \notin told
    /\ record(id, Creator[id], "plugin")
    /\ told' = told \union {<<id, "plugin">>}
    /\ active' = active \union {id}
    /\ UNCHANGED <<scenario, live, deleted, requests, gone, age, fails>>

\* Mutated form: the requests under way for the session are left to answer.
cancelledRequestsKept(id) == /\ lookup' = lookup \ {id}
                             /\ stray' = IF id \in lookup THEN stray \union {id} ELSE stray

\* The requests for a forgotten session are cancelled: a late answer is void.
cancelledRequests(id) == /\ lookup' = lookup \ {id}
                         /\ stray' = stray \ {id}

\* forget: the session is deleted.  A walk for it ends without an answer, the
\* walks that await its lookup go on with what they have, and none keeps its node.
forget(id) ==
    /\ Settled
    /\ Silent
    /\ id \in live \cap scenario.deletes
    /\ {<<id, "event">>, <<id, "plugin">>} \cap told # {} \/ id \in scenario.existing
    /\ live' = live \ {id}
    /\ deleted' = deleted \union {id}
    /\ node' = IF id \in DOMAIN node THEN drop(node, {id}, "forget") ELSE node
    /\ ghost' = Without(ghost, {id})
    /\ failed' = failed \ {id}
    /\ cancelledRequests(id)
    /\ walk' = [w \in DOMAIN walk \ {id} |->
                  [walk[w] EXCEPT !.learned = Without(@, {id}),
                                  !.got = IF walk[w].pending = id THEN "failure" ELSE @]]
    /\ UNCHANGED <<scenario, told, active, gone, capped, age, fails>>

-----------------------------------------------------------------------------
(* depthOf.                                                                *)

\* A caller asks.  What is known may answer at once; a throttled lookup is
\* answered with the floor; else the caller joins the walk for id, or starts it.
depthOf(id) ==
    /\ Settled
    /\ id \in live \cap scenario.asks
    /\ LET missing == need(id, <<>>)
           L == Visited(id, <<>>)
       IN \/ /\ missing = None \/ (missing \in failed /\ missing \notin lookup)
             /\ floor(id, L)
             /\ walk' = IF id \in DOMAIN node THEN Learned(memoize(node, L, id)) ELSE walk
             /\ UNCHANGED requests
          \/ /\ missing # None /\ (missing \notin failed \/ missing \in lookup)
             /\ IF id \in DOMAIN walk
                THEN /\ walk[id].waiters < scenario.waiters
                     /\ walk' = [walk EXCEPT ![id].waiters = @ + 1,
                                             ![id].learned = @ @@ L]
                     /\ UNCHANGED lookup
                ELSE /\ walk' = (id :> [learned |-> L, pending |-> missing, waiters |-> 1, got |-> "no"])
                                @@ walk
                     /\ lookup' = lookup \union {missing}
             /\ Silent
             /\ UNCHANGED <<tables, capped, active, stray, failed>>
    /\ UNCHANGED <<hostState, gone, age, fails>>

\* startLookup's request returns: the host's answer is recorded, whether a
\* walk still awaits it or not, and lifts the throttle.  A request sent after
\* the session was deleted can only fail.
LookupAnswers(id) ==
    /\ Settled
    /\ Silent
    /\ id \in (lookup \union stray)
    /\ id \in deleted => id \in stray
    /\ LET A == applyLink(node, id, HostParent(id), "backend")
           N == memoize(A, (id :> A[id]), id)
       IN /\ Store(N, id)
          /\ walk' = [w \in DOMAIN walk |->
                        IF walk[w].pending = id /\ id \in lookup
                        THEN [Learned(N)[w] EXCEPT !.got = "answer", !.learned = (id :> N[id]) @@ @]
                        ELSE Learned(N)[w]]
    /\ lookup' = lookup \ {id}
    /\ stray' = IF id \in lookup THEN stray ELSE stray \ {id}
    /\ failed' = failed \ {id}
    /\ UNCHANGED <<hostState, active, gone, age, fails>>

\* The request is rejected.  Only a lookup that is still awaited is throttled.
LookupFails(id) ==
    /\ Settled
    /\ Silent
    /\ id \in (lookup \union stray)
    /\ id \in deleted \/ fails < scenario.failures
    /\ fails' = IF id \in deleted THEN fails ELSE fails + 1
    /\ failed' = IF id \in lookup THEN failed \union {id} ELSE failed
    /\ walk' = [w \in DOMAIN walk |->
                  IF walk[w].pending = id /\ id \in lookup
                  THEN [walk[w] EXCEPT !.got = "failure"] ELSE walk[w]]
    /\ lookup' = lookup \ {id}
    /\ stray' = IF id \in lookup THEN stray ELSE stray \ {id}
    /\ UNCHANGED <<hostState, tables, active, gone, capped, age>>

\* run: the walk goes on after its lookup, to an answer or to the next lookup.
WalkContinues(w) ==
    /\ walk[w].got # "no"
    /\ LET L == walk[w].learned
           missing == need(w, L)
       IN \/ /\ walk[w].got = "failure" \/ missing = None
                \/ (missing \in failed /\ missing \notin lookup)
             /\ floor(w, L)
             /\ walk' = Without(IF w \in DOMAIN (node @@ L) THEN Learned(memoize(node, L, w)) ELSE walk, {w})
             /\ UNCHANGED requests
          \/ /\ walk[w].got = "answer" /\ missing # None
             /\ missing \notin failed \/ missing \in lookup
             /\ walk' = [walk EXCEPT ![w].pending = missing, ![w].got = "no", ![w].learned = Visited(w, L)]
             /\ lookup' = lookup \union {missing}
             /\ Silent
             /\ UNCHANGED <<tables, capped, active, stray, failed>>
    /\ UNCHANGED <<hostState, gone, age, fails>>

\* A caller's deadline passes.  The last one ends the walk; its lookup, if no
\* other walk awaits it, is detached and throttled, and may still answer.
DepthTimeout(w) ==
    /\ Settled
    /\ LET L == walk[w].learned
           last == walk[w].waiters = 1
           id == walk[w].pending
           alone == last /\ \A v \in DOMAIN walk \ {w} : walk[v].pending # id
           after == IF w \in DOMAIN (node @@ L) THEN Learned(memoize(node, L, w)) ELSE walk
       IN /\ floor(w, L)
          /\ walk' = IF last THEN Without(after, {w}) ELSE [after EXCEPT ![w].waiters = @ - 1]
          /\ IF alone /\ id \in lookup
             THEN /\ lookup' = lookup \ {id}
                  /\ stray' = stray \union ({id} \ deleted)
                  /\ failed' = failed \union {id}
             ELSE UNCHANGED requests
    /\ UNCHANGED <<hostState, gone, age, fails>>

\* throttled: DEPTH_LOOKUP_RETRY_MS have passed.
RetryAllowed(id) ==
    /\ Settled
    /\ Silent
    /\ id \in failed
    /\ failed' = failed \ {id}
    /\ UNCHANGED <<hostState, tables, walk, lookup, stray, active, gone, capped, age, fails>>

-----------------------------------------------------------------------------
(* Idle time.                                                              *)

\* The idle time (an hour) passes: no caller waits that long (2 s), and no
\* event of the host is that late.
Lapse ==
    /\ Settled
    /\ Silent
    /\ age < scenario.lapses
    /\ walk = <<>>
    /\ \A id \in live \ scenario.existing :
          /\ <<id, "event">> \in told
          /\ id \in Plugin => <<id, "plugin">> \in told
    /\ age' = age + 1
    /\ node' = [id \in DOMAIN node |-> [node[id] EXCEPT !.old = TRUE]]
    /\ ghost' = [id \in DOMAIN ghost |-> [ghost[id] EXCEPT !.old = TRUE]]
    /\ active' = {}
    /\ UNCHANGED <<hostState, walk, requests, gone, capped, fails>>

\* Mutated form: the walk up from what is recent does not cross a ghost.
ancestryTracked(S) ==
    LET up[T \in SUBSET (DOMAIN node \union DOMAIN ghost)] ==
            LET more == T \union (DOMAIN node \cap UNION {node[s].links : s \in T \cap DOMAIN node})
            IN IF more = T THEN T ELSE up[more]
    IN up[S]

\* ancestry: everything remembered above S, across ghosts too.
ancestry(S) ==
    LET remembered == DOMAIN node \union DOMAIN ghost
        links(x) == IF x \in DOMAIN node THEN node[x].links ELSE ghost[x].links
        up[T \in SUBSET remembered] ==
            LET more == T \union (remembered \cap UNION {links(s) : s \in T})
            IN IF more = T THEN T ELSE up[more]
    IN up[S]

\* sweep: the idle go, but not what a recent session descends from.
sweep ==
    /\ Settled
    /\ Silent
    /\ LET recent == {id \in DOMAIN node : ~node[id].old} \union {id \in DOMAIN ghost : ~ghost[id].old}
           kept == ancestry(recent)
           expired == DOMAIN node \ kept
       IN /\ expired \union (DOMAIN ghost \ kept) # {}
          /\ node' = drop(node, expired, "expire")
          /\ ghost' = Without(ghost, DOMAIN ghost \ kept)
          /\ walk' = Learned(node)
          /\ gone' = gone \union {p \in expired \cap Plugin :
                                    \A s \in active : s # p /\ p \notin Above[s]}
    /\ UNCHANGED <<hostState, requests, active, capped, age, fails>>

Next ==
    \/ \E id \in Ids : \/ Create(id) \/ recordCreated(id) \/ recordPluginChild(id)
                       \/ forget(id) \/ depthOf(id) \/ LookupAnswers(id)
                       \/ LookupFails(id) \/ RetryAllowed(id)
    \/ \E w \in DOMAIN walk : WalkContinues(w) \/ DepthTimeout(w)
    \/ Lapse
    \/ sweep

Spec == Init /\ [][Next]_vars

-----------------------------------------------------------------------------
(* Properties.                                                             *)

\* A memo marked fresh is what a climb of everything tracked would compute
\* now: no event, late answer, eviction, expiry or deletion above a session
\* leaves its memo behind (invalidate stops at memos that are not fresh).
FreshIsCurrent ==
    \A id \in DOMAIN node : node[id].fresh =>
        LET now == climb(node, <<>>, id, FALSE)[id]
        IN node[id].depth = now.depth /\ node[id].gap = now.gap

\* The guard never refuses a dispatch that is within the limit, and an answer
\* given without a warning is the session's depth: a dispatch beyond the limit
\* is refused, however its chain was learned, evicted, swept and looked up.
AnswersExact ==
    ans.id # None =>
        /\ ans.depth <= TrueDepth[ans.id]
        /\ ans.verdict = "block" => TrueDepth[ans.id] + 1 > Limit
        /\ (ans.complete /\ ans.held) =>
              /\ ans.depth = TrueDepth[ans.id]
              /\ TrueDepth[ans.id] + 1 > Limit => ans.verdict = "block"

\* A deleted session never comes back into the tables, neither by the answer
\* of a lookup that was under way nor from what a walk had learned.
NoResurrection == deleted \cap (DOMAIN node \union DOMAIN ghost) = {}

\* What the depth guard knows of a session and what it answers is the truth (resolve, block).
DepthIsTrue == FreshIsCurrent /\ AnswersExact
=============================================================================
