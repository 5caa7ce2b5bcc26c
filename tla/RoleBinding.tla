----------------------------- MODULE RoleBinding -----------------------------
(***************************************************************************)
(* The grant registry of src/routing/roles/binding.ts and the authority    *)
(* requests of authority.ts, as operations on their state.                 *)
(*                                                                         *)
(* The registry is [pending, bound, inflight, retired, deleted]: pending   *)
(* is a function from calls to [parent, agent, nonce, grant, by, nr], bound *)
(* one from child sessions to [kind, grant, parent, agent], inflight one   *)
(* from child sessions to the token of the running bind, retired and       *)
(* deleted are sets.  The requests are a function from child sessions to   *)
(* [parent, call, actions, annotated].                                     *)
(* `nr` is the place of an entry in the order its map was filled in.       *)
(* Time-to-live and size limits are the step ExpirePending of the module   *)
(* that owns the registry.                                                 *)
(***************************************************************************)
EXTENDS RolePolicy, Functions

NoOne == "nobody"

-----------------------------------------------------------------------------
(* binding.ts                                                              *)

NewRegistry == [pending |-> <<>>, bound |-> <<>>, inflight |-> <<>>, retired |-> {}, deleted |-> {}]

remember(map, key, value) == [x \in DOMAIN map \cup {key} |-> IF x = key THEN value ELSE map[x]]

\* The place of what is added next, and the oldest of some entries (at most one).
NextNr(map) == 1 + Max({0} \cup {map[x].nr : x \in DOMAIN map})
Oldest(map, S) == {x \in S : \A y \in S : map[x].nr <= map[y].nr}

\* removePending: the nonces of the removed slots are never accepted again.
removePending(reg, keys) ==
  [reg EXCEPT !.pending = Restrict(@, DOMAIN @ \ keys),
              !.retired = @ \cup {reg.pending[k].nonce : k \in DOMAIN reg.pending \cap keys}]

isDeleted(reg, id) == id \in reg.deleted

\* restrict: what is left of a grant under the role's maximum as it is now.
restrict(actions, root, max) ==
  LET kept == Separated(actions \cap max)
  IN  [actions |-> IF root = None THEN kept \ EXEC ELSE kept, root |-> root]

view(binding, max) ==
  [kind |-> binding.kind, grant |-> restrict(binding.grant.actions, binding.grant.root, max)]

exact(entry) ==
  [kind |-> "exact", grant |-> entry.grant, parent |-> entry.parent, agent |-> entry.agent]
unknown(parent, agent) ==
  [kind |-> "unknown", grant |-> [actions |-> LOCAL_ACTIONS, root |-> None],
   parent |-> parent, agent |-> agent]

\* registerPending: a retired nonce, a deleted parent and another call's nonce are refused;
\* a second registration of a call retires its first nonce and keeps a claim on the same one.
registerPending(reg, call, entry) ==
  LET same == call \in DOMAIN reg.pending /\ reg.pending[call].nonce = entry.nonce
      cleared == IF same THEN [reg EXCEPT !.pending = Restrict(@, DOMAIN @ \ {call})]
                 ELSE removePending(reg, {call})
      taken == \E k \in DOMAIN reg.pending \ {call} : reg.pending[k].nonce = entry.nonce
      slot == [parent |-> entry.parent, agent |-> entry.agent, nonce |-> entry.nonce,
               grant |-> entry.grant, by |-> IF same THEN reg.pending[call].by ELSE NoOne,
               nr |-> NextNr(cleared.pending)]
  IN  IF isDeleted(reg, entry.parent) \/ entry.nonce \in reg.retired \/ taken THEN reg
      ELSE [cleared EXCEPT !.pending = remember(@, call, slot)]

\* The nonce a session carries: in its first prompt or in its title, None when neither has
\* one or the two disagree.
NonceOf(session) ==
  IF session.prompt # None /\ session.title # None /\ session.prompt # session.title THEN None
  ELSE IF session.prompt # None THEN session.prompt ELSE session.title

\* Mutated form: any session that shows the nonce is served.
UnclaimedAlways(slot, child) == TRUE

\* A slot serves one session: the first that presented its nonce.
Unclaimed(slot, child) == slot.by \in {NoOne, child}

\* Binds the session to one of the slots, if there is one, and claims it.
BindTo(reg, slots, child, session) ==
  IF slots = {} THEN [binding |-> unknown(session.parent, session.agent), reg |-> reg]
  ELSE LET at == CHOOSE k \in slots : TRUE
       IN  [binding |-> exact(reg.pending[at]),
            reg |-> [reg EXCEPT !.pending =
                       remember(@, at, [parent |-> @[at].parent, agent |-> @[at].agent,
                                        nonce |-> @[at].nonce, grant |-> @[at].grant,
                                        by |-> child, nr |-> @[at].nr])]]

SlotsFor(reg, child, session) ==
  {k \in DOMAIN reg.pending : /\ reg.pending[k].parent = session.parent
                              /\ reg.pending[k].agent = session.agent
                              /\ Unclaimed(reg.pending[k], child)}

\* Mutated form: a session takes the oldest pending slot of its parent and agent.
decideBindingByAgent(reg, child, session) ==
  BindTo(reg, Oldest(reg.pending, SlotsFor(reg, child, session)), child, session)

\* decide, after its session lookup: the slot its nonce names, which is the only one.
decideBinding(reg, child, session) ==
  BindTo(reg, {k \in SlotsFor(reg, child, session) :
                 NonceOf(session) # None /\ reg.pending[k].nonce = NonceOf(session)}, child, session)

\* The end of bind: cached only by the bind that is still the running one, and not for a
\* session deleted meanwhile.
settleBind(reg, child, token, binding, cacheable) ==
  LET running == child \in DOMAIN reg.inflight /\ (IF child \in DOMAIN reg.inflight
                                                   THEN reg.inflight[child] = token ELSE FALSE)
      cached == running /\ cacheable /\ ~isDeleted(reg, child) /\ ~isDeleted(reg, binding.parent)
  IN  [reg EXCEPT
         !.bound = IF cached THEN remember(@, child, binding) ELSE @,
         !.inflight = IF running THEN Restrict(@, DOMAIN @ \ {child}) ELSE @]

\* widen: the added actions stay inside the maximum, need a root to write or run, and never
\* mix egress with the rest.
widen(reg, child, actions, max) ==
  LET b == reg.bound[child]
      before == restrict(b.grant.actions, b.grant.root, max)
      fit == {a \in actions \cap max : /\ a \notin before.actions \cup {"execute"}
                                       /\ a \in WRITE \cup EXEC => before.root # None}
      added == IF before.actions = {} THEN Separated(fit)
               ELSE {a \in fit : \A h \in before.actions : h \in EGRESS <=> a \in EGRESS}
  IN  [reg EXCEPT !.bound =
         remember(@, child, [kind |-> b.kind, parent |-> b.parent, agent |-> b.agent,
                             grant |-> [actions |-> before.actions \cup added, root |-> before.root]])]

evictCall(reg, call) == removePending(reg, {call})

evict(reg, session) ==
  LET r == removePending(reg, {k \in DOMAIN reg.pending : reg.pending[k].parent = session})
      kept == {c \in DOMAIN r.bound : c # session /\ r.bound[c].parent # session}
  IN  [r EXCEPT !.deleted = @ \cup {session}, !.bound = Restrict(@, kept),
                !.inflight = Restrict(@, DOMAIN @ \ {session})]

-----------------------------------------------------------------------------
(* authority.ts                                                            *)

\* What requestAuthority records: inside the maximum, not granted yet, and not for a fixed
\* role; a write or a run only for a child that has a work root.
Requestable(role, grant, actions) ==
  {a \in actions : /\ a \in roleMax(role) \ grant.actions
                   /\ role.mode # "fixed"
                   /\ a \in WRITE \cup EXEC => grant.root # None}

\* An annotated request is over: a new one starts afresh.
requestAuthority(requests, child, parent, role, grant, actions) ==
  LET inside == Requestable(role, grant, actions)
      open == {c \in DOMAIN requests \cap {child} : ~requests[c].annotated}
      record == IF open # {} THEN [requests[child] EXCEPT !.actions = @ \cup inside]
                ELSE [parent |-> parent, call |-> NoOne, actions |-> inside, annotated |-> FALSE]
  IN  IF inside = {} THEN requests ELSE remember(requests, child, record)

Without(requests, gone) == Restrict(requests, DOMAIN requests \ gone)

markAnnotated(requests, child, call, parent) ==
  IF child \notin DOMAIN requests THEN requests
  ELSE IF requests[child].annotated THEN requests
  ELSE [requests EXCEPT ![child] = [@ EXCEPT !.call = call, !.annotated = TRUE, !.parent = parent]]

discardAuthority(requests, child, call) ==
  Without(requests, {c \in DOMAIN requests \cap {child} : ~requests[c].annotated \/ requests[c].call = call})

\* resumeCheck: the resume that directly follows the call the request was annotated in, by
\* the same parent, of a dynamic role that is still bound.
resumeCheck(requests, reg, child, role, parent, afterCall, exactOnly) ==
  IF child \notin DOMAIN requests THEN "none"
  ELSE LET r == requests[child]
       IN  IF ~r.annotated \/ r.parent # parent \/ r.call # afterCall \/ role.mode = "fixed"
              \/ child \notin DOMAIN reg.bound
           THEN "dropped"
           ELSE IF exactOnly /\ reg.bound[child].kind # "exact" THEN "bindingUnknown" ELSE "widened"

\* previewAuthority: what consuming the request now would add, without changing anything.
previewAuthority(requests, reg, child, role) ==
  (requests[child].actions \cap roleMax(role))
  \ restrict(reg.bound[child].grant.actions, reg.bound[child].grant.root, roleMax(role)).actions

\* consumeAuthority, for a request that is there: it is gone whatever the check says.
consumeAuthority(requests, reg, child, role, parent, afterCall) ==
  [requests |-> Without(requests, {child}),
   reg |-> IF child \in DOMAIN requests
              /\ resumeCheck(requests, reg, child, role, parent, afterCall, TRUE) = "widened"
           THEN widen(reg, child, requests[child].actions, roleMax(role)) ELSE reg]

evictAuthority(requests, session) ==
  Without(requests, {c \in DOMAIN requests : c = session \/ requests[c].parent = session})

=============================================================================
