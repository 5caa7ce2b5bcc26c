---------------------------- MODULE SessionStore ----------------------------
(***************************************************************************)
(* The read caps of subagent sessions (router/sessions.ts,                 *)
(* createSessionStore): what the plugin counts for a child session and     *)
(* what it tells the child after each read-only call.                      *)
(*                                                                         *)
(* The store is driven by the hooks of index.ts.  A message to a session   *)
(* of a tier's agent registers a dispatch; the same session at the same    *)
(* tier again is a resume, which renews the round's count and keeps the    *)
(* total and the fingerprints.  Calls of one session overlap.  A message   *)
(* to any session may sweep the sessions nobody has touched for an hour.   *)
(* A dispatch's text is what the parsers find in it.                       *)
(***************************************************************************)
EXTENDS Integers, FiniteSets, FiniteSetsExt, SequencesExt

CONSTANTS Sessions,     \* sessions of one plugin instance
          None,         \* no tier, no state
          AgentTier,    \* agent -> the tier it is registered under, or None
          TierCaps,     \* tier -> read-only calls of one dispatch
          Texts,        \* [asks, n, reason, signals, broad, paths]: the CAP directive
                        \* ("nothing", "none" or "number" and its n), a reason: line, the
                        \* tiers whose patterns match, a list of steps or subjects, the files
          Reads,        \* fingerprints of read-only calls
          Limits        \* bounds: [dispatches, reads, troubles] of a behaviour

\* The cap "none": numeric caps are positive.
Uncapped == 0

CUMULATIVE_CAP_MULTIPLIER == 3
MAX_TRIVIAL_PATHS == 1

\* The tiers an entry can be of: a role child's entry is kept under the role agent's name.
Tiers == DOMAIN TierCaps \union {"role"}

\* subagentCapState's entry (SubagentState).
Entry == [tierName : Tiers, cap : Nat, calls : Nat, dispatches : Nat, totalCalls : Nat,
          seen : SUBSET Reads, trivial : BOOLEAN]

ASSUME CapsAssumption ==
    /\ TierCaps \in [DOMAIN TierCaps -> Nat \ {0}]
    /\ \A agent \in DOMAIN AgentTier : AgentTier[agent] \in DOMAIN TierCaps \union {None}
    /\ \A text \in Texts : text.n \in Nat
    /\ None \notin Entry

VARIABLES tracked,    \* subagentSessionIDs, which are the sessions with a stamp
          caps,       \* session -> subagentCapState's entry, or None
          stale,      \* sessions whose stamp is an hour old
          flights,    \* tool calls under way: [s, fp, watched]
          banner,     \* the banner of the latest read, or None
          bypassed,   \* the plugin's switch
          log,        \* session -> its dispatches and reads since it was last forgotten
          spent       \* [dispatches, reads, troubles] so far

vars == <<tracked, caps, stale, flights, banner, bypassed, log, spent>>

----------------------------------------------------------------------------
(* A dispatch's text.                                                      *)

\* CAP:0 is no directive.
parseCapDirective(text) ==
    CASE text.asks = "none" -> Uncapped
      [] text.asks = "number" /\ text.n > 0 -> text.n
      [] OTHER -> None

\* CAP:none counts only with a stated reason.
override(text) ==
    IF parseCapDirective(text) = Uncapped /\ ~text.reason THEN None ELSE parseCapDirective(text)

baseline(tier) == TierCaps[tier]

dispatchCap(text, tier) == IF override(text) = None THEN baseline(tier) ELSE override(text)

\* A single-shot lookup of the fast tier.
classifyTrivial(text, tier) ==
    /\ tier = "fast" /\ text.signals = {"fast"}
    /\ ~text.broad /\ text.paths <= MAX_TRIVIAL_PATHS

----------------------------------------------------------------------------
(* The store's operations on a session's entry.                            *)

Fresh(tier, cap, trivial) ==
    [tierName |-> tier, cap |-> cap, calls |-> 0, dispatches |-> 1, totalCalls |-> 0,
     seen |-> {}, trivial |-> trivial]

\* Mutated form: a resume starts from nothing.
ResumedFresh(state, cap, trivial) == Fresh(state.tierName, cap, trivial)

Resumed(state, cap, trivial) ==
    [state EXCEPT !.cap = cap, !.calls = 0, !.dispatches = @ + 1, !.trivial = trivial]

\* registerFromChatMessage.
registered(state, tier, text) ==
    IF state # None /\ state.tierName = tier
    THEN Resumed(state, dispatchCap(text, tier), classifyTrivial(text, tier))
    ELSE Fresh(tier, dispatchCap(text, tier), classifyTrivial(text, tier))

repeats(state, fp) == fp \in state.seen

Counted(state, fp) ==
    [state EXCEPT !.calls = @ + 1, !.totalCalls = @ + 1, !.seen = @ \union {fp}]

readCapReached(state) == state.cap # Uncapped /\ state.calls >= state.cap

\* buildCapBanner, of the entry after the call was counted.
buildCapBanner(s, fp, redundant, state) ==
    [session |-> s, fp |-> fp, redundant |-> redundant,
     reached |-> readCapReached(state),
     exceeded |-> /\ state.cap # Uncapped /\ state.dispatches > 1
                  /\ state.totalCalls > state.cap * CUMULATIVE_CAP_MULTIPLIER]

touch(s) == stale' = stale \ {s}

Note(s, event) == log' = [log EXCEPT ![s] = Append(@, event)]

Spend(what) ==
    /\ spent[what] < Limits[what]
    /\ spent' = [spent EXCEPT ![what] = @ + 1]

\* The sessions a sweep evicts: all that are stale, or none while it is throttled.
Swept == {stale, {}}

evict(of, gone, nothing) == [x \in Sessions |-> IF x \in gone THEN nothing ELSE of[x]]

\* What ran in a session that was deleted, for an hour, or past the switch is not owed a banner.
Unwatched(gone) ==
    {IF f.s \in gone THEN [f EXCEPT !.watched = FALSE] ELSE f : f \in flights}

----------------------------------------------------------------------------
(* The hooks.                                                              *)

\* chat.message of an agent no tier stands for: only the sweep.
Chat ==
    /\ ~bypassed /\ stale # {}
    /\ tracked' = tracked \ stale
    /\ caps' = evict(caps, stale, None)
    /\ log' = evict(log, stale, <<>>)
    /\ stale' = {}
    /\ UNCHANGED <<flights, banner, bypassed, spent>>

\* chat.message of a tier's agent: the sweep, then registerFromChatMessage.
Dispatch(s, agent, text) ==
    /\ ~bypassed /\ AgentTier[agent] # None /\ Spend("dispatches")
    /\ \E gone \in Swept, tier \in {AgentTier[agent]} :
          /\ tracked' = (tracked \ gone) \union {s}
          /\ stale' = stale \ (gone \union {s})
          /\ caps' = [evict(caps, gone, None) EXCEPT ![s] = registered(@, tier, text)]
          /\ log' = [evict(log, gone, <<>>) EXCEPT ![s] =
                        Append(@, [kind |-> "dispatch", tier |-> tier,
                                   cap |-> dispatchCap(text, tier),
                                   trivial |-> classifyTrivial(text, tier)])]
    /\ UNCHANGED <<flights, banner, bypassed>>

\* session.created, or a lookup that finds a parent: a child without a tier.
markChildSession(s) ==
    /\ s \notin tracked
    /\ tracked' = tracked \union {s}
    /\ touch(s)
    /\ UNCHANGED <<caps, flights, banner, bypassed, log, spent>>

\* The delegate tool's child, and a role child with a cap of its own: never trivial.
registerProducerSession(s, tier, cap) ==
    /\ Spend("dispatches")
    /\ tracked' = tracked \union {s}
    /\ caps' = [caps EXCEPT ![s] = Fresh(tier, cap, FALSE)]
    /\ touch(s)
    /\ Note(s, [kind |-> "producer", tier |-> tier, cap |-> cap, trivial |-> FALSE])
    /\ UNCHANGED <<flights, banner, bypassed>>

\* A routed resume of a role child keeps the cap unless it names one (override(text)).
resumeRoleSession(s, cap) ==
    /\ ~bypassed /\ caps[s] # None /\ Spend("dispatches")
    /\ \E now \in {IF cap = None THEN caps[s].cap ELSE cap} :
          /\ caps' = [caps EXCEPT ![s] = Resumed(@, now, @.trivial)]
          /\ Note(s, [kind |-> "resume", tier |-> caps[s].tierName, cap |-> now,
                      trivial |-> caps[s].trivial])
    /\ touch(s)
    /\ UNCHANGED <<tracked, flights, banner, bypassed>>

\* Mutated form: the start of a call is no sign of life.
touchIfTrackedNot(s) == UNCHANGED stale

touchIfTracked(s) == IF caps[s] # None THEN touch(s) ELSE UNCHANGED stale

\* tool.execute.before of a call the guard lets through.
Start(s, fp) ==
    /\ Cardinality(flights) < 2 /\ Spend("reads")
    /\ [s |-> s, fp |-> fp, watched |-> TRUE] \notin flights
    /\ IF bypassed THEN UNCHANGED stale ELSE touchIfTracked(s)
    /\ flights' = flights \union {[s |-> s, fp |-> fp, watched |-> ~bypassed /\ caps[s] # None]}
    /\ UNCHANGED <<tracked, caps, banner, bypassed, log>>

\* tool.execute.after: recordToolCall.
Finish(f) ==
    /\ flights' = flights \ {f}
    /\ IF bypassed \/ caps[f.s] = None
       THEN UNCHANGED <<caps, stale, banner, log>>
       ELSE /\ caps' = [caps EXCEPT ![f.s] = Counted(@, f.fp)]
            /\ banner' = buildCapBanner(f.s, f.fp, repeats(caps[f.s], f.fp), caps'[f.s])
            /\ touch(f.s)
            /\ Note(f.s, [kind |-> "read", fp |-> f.fp])
    /\ UNCHANGED <<tracked, bypassed, spent>>

\* session.deleted, and the delegate tool when it is done with a child.
unregister(s) ==
    /\ s \in tracked /\ Spend("troubles")
    /\ tracked' = tracked \ {s}
    /\ caps' = [caps EXCEPT ![s] = None]
    /\ stale' = stale \ {s}
    /\ flights' = Unwatched({s})
    /\ log' = [log EXCEPT ![s] = <<>>]
    /\ UNCHANGED <<banner, bypassed>>

\* An hour without a touch; a call that takes the whole hour is not protected.
Hour ==
    /\ stale # tracked /\ Spend("troubles")
    /\ stale' = tracked
    /\ flights' = Unwatched(Sessions)
    /\ UNCHANGED <<tracked, caps, banner, bypassed, log>>

Bypass ==
    /\ Spend("troubles")
    /\ bypassed' = ~bypassed
    /\ flights' = Unwatched(Sessions)
    /\ UNCHANGED <<tracked, caps, stale, banner, log>>

Init ==
    /\ tracked = {} /\ stale = {} /\ flights = {}
    /\ caps = [s \in Sessions |-> None]
    /\ banner = None /\ bypassed = FALSE
    /\ log = [s \in Sessions |-> <<>>]
    /\ spent = [dispatches |-> 0, reads |-> 0, troubles |-> 0]

\* noteRoleDispatch and applyPendingRoleCap: a role's dispatch registers the cap it names,
\* under the role agent's name.
RoleDispatch(s, cap) ==
    \/ resumeRoleSession(s, cap)
    \/ cap # None /\ registerProducerSession(s, "role", cap)

Next ==
    \/ Chat \/ Hour \/ Bypass
    \/ \E s \in Sessions :
          \/ \E agent \in DOMAIN AgentTier, text \in Texts : Dispatch(s, agent, text)
          \/ \E fp \in Reads : Start(s, fp)
          \/ \E tier \in DOMAIN TierCaps : registerProducerSession(s, tier, baseline(tier))
          \/ \E text \in Texts : RoleDispatch(s, override(text))
          \/ markChildSession(s) \/ unregister(s)
    \/ \E f \in flights : Finish(f)

Spec == Init /\ [][Next]_vars

----------------------------------------------------------------------------
(* Properties.                                                             *)

Dispatches == {"dispatch", "producer", "resume"}

\* Where the session's current count began: at the latest dispatch that found it without an
\* entry or at another tier, or made it a producer.
Begins(events, i) ==
    LET prior == Max({0} \union {j \in 1..i - 1 : events[j].kind \in Dispatches})
    IN /\ events[i].kind \in Dispatches
       /\ \/ events[i].kind = "producer"
          \/ IF prior = 0 THEN TRUE ELSE events[prior].tier # events[i].tier

Life(events) ==
    CHOOSE i \in DOMAIN events :
        Begins(events, i) /\ \A j \in i + 1..Len(events) : ~Begins(events, j)

Latest(events) == Max({i \in DOMAIN events : events[i].kind \in Dispatches})

After(events, i, kinds) == {j \in i..Len(events) : events[j].kind \in kinds}

\* The banner a child reads is right about the life of its session: a read is called redundant
\* exactly when the session has made it before, in this dispatch or an earlier one at the tier;
\* the cap is reported reached exactly when the reads of the latest dispatch, of overlapping calls
\* too, come to the cap that dispatch was given; and a resumed session is told to return exactly
\* when its reads over all dispatches pass three times the current cap (sessions.ts:103-150).
BannerTellsTruth ==
    banner # None /\ log[banner.session] # <<>> /\ Last(log[banner.session]).kind = "read" =>
        LET events == log[banner.session]
            cap == events[Latest(events)].cap
            all == After(events, Life(events), {"read"})
        IN /\ banner.redundant <=> \E j \in all \ {Len(events)} : events[j].fp = banner.fp
           /\ banner.reached <=>
                 cap # Uncapped /\ Cardinality(After(events, Latest(events), {"read"})) >= cap
           /\ banner.exceeded <=>
                 /\ cap # Uncapped
                 /\ Cardinality(After(events, Life(events), Dispatches)) > 1
                 /\ Cardinality(all) > cap * CUMULATIVE_CAP_MULTIPLIER

\* The guard judges a working session by its latest dispatch: a sweep never takes the entry of a
\* session while a call that began less than an hour ago runs, and the entry's tier, cap and
\* single-shot mark are those of the dispatch that came last (sessions.ts:455-478, 541-555).
WorkIsJudgedByLatest ==
    /\ \A f \in flights : f.watched => caps[f.s] # None
    /\ \A s \in Sessions : caps[s] # None =>
          LET dispatch == log[s][Latest(log[s])]
          IN <<caps[s].tierName, caps[s].cap, caps[s].trivial>>
                = <<dispatch.tier, dispatch.cap, dispatch.trivial>>

\* The caps of the store follow the session's history (sessions.ts).
StoreFollowsSession == BannerTellsTruth /\ WorkIsJudgedByLatest
=============================================================================
