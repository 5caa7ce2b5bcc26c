------------------------------ MODULE HookCaps ------------------------------
(***************************************************************************)
(* The read caps of the hook scripts (hooks/scripts): the same counters as *)
(* SessionStore's, for a host whose hooks are processes of one call.       *)
(*                                                                         *)
(* Every tool call runs a guard before (subagent-guard.mjs) and, when it   *)
(* succeeds, a counter after (cap-banner.mjs).  What they know is a file   *)
(* per session, read whole and replaced by a rename, without a lock: the   *)
(* calls of one assistant message run in parallel and lose each other's    *)
(* counts.  A new session's start deletes files nobody wrote for a day,    *)
(* looking first and deleting after.  A hook that fails or is killed lets  *)
(* the call pass.                                                          *)
(*                                                                         *)
(* One session is modelled: a subagent's, or the orchestrator's, which has *)
(* a counter per turn and is only ever nudged.                             *)
(***************************************************************************)
EXTENDS Integers, FiniteSets

CONSTANTS Slots,         \* parallel calls of one assistant message
          Prints,        \* fingerprints of read-only calls
          Nil,           \* no file, no call
          HookScenarios, \* [tier, env, perTier, mode, cap, faults]: the session's agent_type,
                         \* the enforcement settings at the start, its cap, and what goes wrong
          HookLimits     \* bounds: [messages, faults]

\* What a session's cap file may hold.
CapFile == [calls : Nat, seen : SUBSET Prints, old : BOOLEAN]

\* A message has finitely many calls; a cap is a positive integer (lib/config.mjs:149-151).
ASSUME HookAssumption ==
  /\ IsFiniteSet(Slots)
  /\ Nil \notin CapFile
  /\ \A s \in HookScenarios : s.cap \in Nat \ {0}

ORCHESTRATOR_TURN_CAP == 2

VARIABLES config,     \* the scenario
          state,      \* state.json: [mode, bypass]
          file,       \* the session's cap file: [calls, seen, old], or Nil
          turn,       \* its turn file: [reads, old], or Nil
          calls,      \* slot -> [fp, pc, snap, enforced]
          doomed,     \* files a garbage collection has seen old and not deleted yet
          said,       \* the lines of the latest denial, warning, banner or nudge: [kind, fp, n]
          made,       \* reads of the session so far: [prints, n, turn]
          message,    \* the latest assistant message: [present, recorded]
          rounds,     \* messages in which enforced reads were counted
          used        \* [messages, faults] so far

hvars == <<config, state, file, turn, calls, doomed, said, made, message, rounds, used>>

----------------------------------------------------------------------------
(* Settings.                                                               *)

isSubagent == config.tier # Nil

\* resolveEnforcementMode: the environment, the tier's own mode, the persisted mode.
resolveEnforcementMode ==
    CASE config.env = "1" -> "enforced"
      [] config.env = "0" -> "off"
      [] config.env \notin {"0", "1"} /\ config.perTier # Nil -> config.perTier
      [] OTHER -> state.mode

----------------------------------------------------------------------------
(* lib/caps.mjs.  One step reads a file, another replaces it.              *)

initSubagentState == [calls |-> 0, seen |-> {}, old |-> FALSE]

\* Mutated form: the count so far is compared, not the call that would be made.
atCapLate(snap) == snap.calls > config.cap

atCap(snap) == snap.calls + 1 > config.cap

\* Mutated form: a fingerprint of a call the guard saw counts as run.
isRedundantAsked(snap, fp) == fp \in snap.seen \union {calls[k].fp : k \in Slots}

isRedundant(snap, fp) == fp \in snap.seen

recordReadCall(snap, fp) == [calls |-> snap.calls + 1, seen |-> snap.seen \union {fp}, old |-> FALSE]

bumpTurnReads(reads) == [reads |-> reads + 1, old |-> FALSE]

resetTurnReads == [reads |-> 0, old |-> FALSE]

----------------------------------------------------------------------------
(* What the model is told.  A line about the cap carries the calls counted *)
(* when it was written.                                                    *)

Repeat(kind, fp, n) == [kind |-> kind, fp |-> fp, n |-> n]
OfCap(kind, n) == [kind |-> kind, fp |-> Nil, n |-> n]

denyReason(snap, fp) ==
    IF isRedundant(snap, fp) THEN {Repeat("redundant", fp, snap.calls)}
    ELSE {OfCap("reached", snap.calls)}

advisoryContext(snap, fp) ==
    (IF isRedundant(snap, fp) THEN {Repeat("redundant", fp, snap.calls)} ELSE {})
        \union CASE atCap(snap) -> {OfCap("reached", snap.calls)}
                 [] ~atCap(snap) /\ config.cap - (snap.calls + 1) <= 1 -> {OfCap("warning", snap.calls)}
                 [] OTHER -> {}

\* The banner of a call that has been recorded; `again`: it had run before.
capBanner(count, fp, again) ==
    (IF again THEN {Repeat("ran before", fp, count)} ELSE {})
        \union CASE count >= config.cap -> {OfCap("reached", count)}
                 [] count < config.cap /\ config.cap - count <= 2 -> {OfCap("warning", count)}
                 [] OTHER -> {}

----------------------------------------------------------------------------
(* The processes of a call.                                                *)

Idle == [fp |-> Nil, pc |-> "idle", snap |-> Nil, enforced |-> FALSE]

AllIdle == \A k \in Slots : calls[k] = Idle

Moves(k, pc, snap, enforced) ==
    calls' = [calls EXCEPT ![k] = [fp |-> @.fp, pc |-> pc, snap |-> snap, enforced |-> enforced]]
ReadsInto(k, pc, snap) == Moves(k, pc, snap, calls[k].enforced)
Becomes(k, pc) == ReadsInto(k, pc, Nil)
Runs(k, enforced) == Moves(k, "run", Nil, enforced)
Ends(k) == calls' = [calls EXCEPT ![k] = Idle]

Spends(what) ==
    /\ used[what] < HookLimits[what]
    /\ used' = [used EXCEPT ![what] = @ + 1]

\* The host starts the calls of an assistant message; the ones before have ended.
Message(fps) ==
    /\ AllIdle /\ Spends("messages") /\ \E k \in Slots : fps[k] # Nil
    /\ calls' = [k \in Slots |-> IF fps[k] = Nil THEN Idle
                                 ELSE [Idle EXCEPT !.fp = fps[k], !.pc = "pre"]]
    /\ message' = [present |-> file # Nil, recorded |-> FALSE]
    /\ rounds' = IF message.present /\ message.recorded THEN rounds + 1 ELSE rounds
    /\ made' = [made EXCEPT !.turn = @ + Cardinality({k \in Slots : fps[k] # Nil})]
    /\ UNCHANGED <<config, state, file, turn, doomed, said>>

Held == <<config, state, doomed, message, rounds, used>>

\* subagent-guard.mjs on a known cap state: denied when enforced, warned otherwise.
Decide(k, snap) ==
    LET violation == isRedundant(snap, calls[k].fp) \/ atCap(snap)
        enforced == resolveEnforcementMode = "enforced"
    IN /\ IF violation /\ enforced THEN Ends(k)
          ELSE Runs(k, enforced)
       /\ said' = CASE ~violation -> said
                    [] violation /\ enforced -> denyReason(snap, calls[k].fp)
                    [] OTHER -> advisoryContext(snap, calls[k].fp)

Guard(k) ==
    /\ calls[k].pc = "pre" /\ isSubagent
    /\ IF state.bypass \/ resolveEnforcementMode = "off" THEN Becomes(k, "run") /\ UNCHANGED said
       ELSE IF file = Nil THEN Becomes(k, "init") /\ UNCHANGED said
       ELSE Decide(k, file)
    /\ UNCHANGED <<file, turn, made>> /\ UNCHANGED Held

\* A new file denies nothing: a cap is at least one.
GuardInits(k) ==
    /\ calls[k].pc = "init"
    /\ file' = initSubagentState
    /\ Runs(k, resolveEnforcementMode = "enforced")
    /\ UNCHANGED <<turn, said, made>> /\ UNCHANGED Held

\* The orchestrator's guard counts and never denies.
BumpReads(k) ==
    /\ calls[k].pc = "pre" /\ ~isSubagent
    /\ IF state.bypass THEN Ends(k)
       ELSE ReadsInto(k, "bump", IF turn = Nil THEN 0 ELSE turn.reads)
    /\ UNCHANGED <<file, turn, said, made>> /\ UNCHANGED Held

BumpWrites(k) ==
    /\ calls[k].pc = "bump"
    /\ turn' = bumpTurnReads(calls[k].snap)
    /\ said' = IF turn'.reads > ORCHESTRATOR_TURN_CAP
               THEN {OfCap("nudge", turn'.reads)} ELSE said
    /\ Ends(k)
    /\ UNCHANGED <<file, made>> /\ UNCHANGED Held

\* The tool itself; a failed one has no PostToolUse.
Run(k, ok) ==
    /\ calls[k].pc = "run"
    /\ IF ok THEN Becomes(k, "post") ELSE Ends(k)
    /\ made' = IF ok THEN [prints |-> made.prints \union {calls[k].fp}, n |-> made.n + 1, turn |-> made.turn]
               ELSE made
    /\ UNCHANGED <<file, turn, said>> /\ UNCHANGED Held

\* cap-banner.mjs: read, create if missing, write.  It does not look at the mode.
Count(k) ==
    /\ calls[k].pc = "post"
    /\ CASE state.bypass -> Ends(k)
         [] ~state.bypass /\ file = Nil -> Becomes(k, "create")
         [] OTHER -> ReadsInto(k, "write", file)
    /\ UNCHANGED <<file, turn, said, made>> /\ UNCHANGED Held

CountCreates(k) ==
    /\ calls[k].pc = "create"
    /\ file' = initSubagentState
    /\ ReadsInto(k, "write", initSubagentState)
    /\ UNCHANGED <<turn, said, made>> /\ UNCHANGED Held

CountWrites(k) ==
    /\ calls[k].pc = "write"
    /\ file' = recordReadCall(calls[k].snap, calls[k].fp)
    /\ said' = capBanner(file'.calls, calls[k].fp, isRedundant(calls[k].snap, calls[k].fp))
    /\ message' = [message EXCEPT !.recorded = @ \/ calls[k].enforced]
    /\ Ends(k)
    /\ UNCHANGED <<config, state, turn, doomed, made, rounds, used>>

\* A hook process fails or is killed at its time limit: the call goes on.
Die(k) ==
    /\ "die" \in config.faults /\ Spends("faults")
    /\ calls[k].pc \in {"pre", "init", "bump", "post", "create", "write"}
    /\ IF calls[k].pc \in {"pre", "init"} /\ isSubagent THEN Becomes(k, "run") ELSE Ends(k)
    /\ UNCHANGED <<config, state, file, turn, doomed, said, made, message, rounds>>

----------------------------------------------------------------------------
(* The rest of the host.                                                   *)

\* protocol-inject.mjs on the user's next prompt, bypassed or not.
Prompt ==
    /\ AllIdle /\ ~isSubagent /\ made.turn # 0
    /\ turn' = resetTurnReads
    /\ made' = [made EXCEPT !.turn = 0]
    /\ said' = {}
    /\ UNCHANGED <<config, state, file, calls, doomed, message, rounds, used>>

\* cli.mjs: a command replaces one field of state.json (writeState).
writeState(new) ==
    /\ "command" \in config.faults /\ Spends("faults")
    /\ state' = new
    /\ UNCHANGED <<config, file, turn, calls, doomed, said, made, message, rounds>>

\* /bypass on, off, or neither: the other.
buildBypassOutput(arg) ==
    writeState([state EXCEPT !.bypass = CASE arg = "on" -> TRUE [] arg = "off" -> FALSE [] OTHER -> ~@])

\* /router enforce; another mode is answered and not written.
buildRouterOutput(mode) ==
    mode \in {"off", "advisory", "enforced"} /\ writeState([state EXCEPT !.mode = mode])

Day ==
    /\ "day" \in config.faults /\ AllIdle /\ doomed = {} /\ Spends("faults")
    /\ file' = IF file = Nil THEN Nil ELSE [file EXCEPT !.old = TRUE]
    /\ turn' = IF turn = Nil THEN Nil ELSE [turn EXCEPT !.old = TRUE]
    /\ UNCHANGED <<config, state, calls, doomed, said, made, message, rounds>>

\* session-start.mjs, gcCapFiles: what it looked at may have been replaced when it deletes.
CollectLooks ==
    /\ doomed' = {f \in {"file"} : file # Nil /\ file.old} \union {f \in {"turn"} : turn # Nil /\ turn.old}
    /\ doomed' # {} /\ doomed = {}
    /\ UNCHANGED <<config, state, file, turn, calls, said, made, message, rounds, used>>

CollectDeletes ==
    /\ doomed # {} /\ doomed' = {}
    /\ file' = IF "file" \in doomed THEN Nil ELSE file
    /\ turn' = IF "turn" \in doomed THEN Nil ELSE turn
    /\ rounds' = IF "file" \in doomed THEN 0 ELSE rounds
    /\ message' = IF "file" \in doomed THEN [message EXCEPT !.present = FALSE] ELSE message
    /\ UNCHANGED <<config, state, calls, said, made, used>>

HookState ==
    /\ state = [mode |-> config.mode, bypass |-> FALSE]
    /\ file = Nil /\ turn = Nil /\ doomed = {} /\ said = {} /\ rounds = 0
    /\ calls = [k \in Slots |-> Idle]
    /\ made = [prints |-> {}, n |-> 0, turn |-> 0]
    /\ message = [present |-> FALSE, recorded |-> FALSE]
    /\ used = [messages |-> 0, faults |-> 0]

HookInit == config \in HookScenarios /\ HookState

HookNext ==
    \/ \E fps \in [Slots -> Prints \union {Nil}] : Message(fps)
    \/ \E k \in Slots :
          \/ Guard(k) \/ GuardInits(k) \/ BumpReads(k) \/ BumpWrites(k)
          \/ \E ok \in BOOLEAN : Run(k, ok)
          \/ Count(k) \/ CountCreates(k) \/ CountWrites(k) \/ Die(k)
    \/ Prompt \/ Day \/ CollectLooks \/ CollectDeletes
    \/ \E arg \in {"on", "off", ""} : buildBypassOutput(arg)
    \/ \E mode \in {"off", "advisory", "enforced"} : buildRouterOutput(mode)

HookSpec == HookInit /\ [][HookNext]_hvars

----------------------------------------------------------------------------
(* Properties.                                                             *)

\* No race of the hook processes turns a call away without cause, or says what is not so: a call
\* is denied or warned as redundant only when the session has run that very call to its end, the
\* reads it is told it has used have been made, the cap is said to be reached only when they are
\* at it, and the orchestrator is told of no more direct reads than this turn has begun
\* (caps.mjs:162-200, subagent-guard.mjs:46).
AdviceIsTrue ==
    \A line \in said :
        /\ line.kind \in {"redundant", "ran before"} => line.fp \in made.prints
        /\ line.kind \in {"reached", "warning", "ran before"} => line.n <= made.n
        /\ line.kind = "reached" => line.n >= config.cap
        /\ line.kind = "nudge" => line.n <= made.turn

\* Lost counts cannot keep an enforced cap from being reached: of the messages that find a cap
\* file and have an enforced read counted, there are never more than the cap, however many calls
\* each runs in parallel, so that the reads of a subagent stay within the cap times that number
\* (caps.mjs:185-193).  A garbage collection starts the count again.
ReadsBounded ==
    rounds + (IF message.present /\ message.recorded THEN 1 ELSE 0) <= config.cap
=============================================================================
