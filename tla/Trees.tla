------------------------------- MODULE Trees --------------------------------
(***************************************************************************)
(* What the verification reads of a working tree and what it concludes:    *)
(* the snapshot of verify/tree.ts, the attribution of changed files of     *)
(* verify/dispatch.ts (delta) and the reference of verify/reference.ts.    *)
(*                                                                         *)
(* g is the repository: g.tree and g.head give every file its content in   *)
(* the working tree and in the commit HEAD, "none" where it is absent.  A  *)
(* commit records the whole tree.  Reading takes several git commands; the *)
(* operators take the repository of each moment as an argument.            *)
(***************************************************************************)
EXTENDS Integers, FiniteSets, Sequences

CONSTANTS
  Files,
  DependencyFiles,     \* DEPENDENCY_FILES: manifests and lock files
  MaxDigestFiles,      \* MAX_DIGEST_FILES
  MaxUntrackedFiles    \* MAX_UNTRACKED_FILES

Nowhere == [f \in Files |-> "none"]

\* git status: the files that differ from HEAD, untracked ones included.
Listed(g) == {f \in Files : g.tree[f] # g.head[f]}
Untracked(g) == {f \in Files : g.head[f] = "none" /\ g.tree[f] # "none"}

NoDigests == [ok |-> FALSE, of |-> <<>>]
\* The content identities of some paths; none when they are too many.
digestPaths(g, paths) ==
  IF Cardinality(paths) > MaxDigestFiles THEN NoDigests
  ELSE [ok |-> TRUE, of |-> [p \in paths |-> g.tree[p]]]

NoSnapshot == [ok |-> FALSE, head |-> Nowhere, files |-> {}, print |-> <<>>, digests |-> NoDigests]

\* The three reads of snapshotTree: HEAD, then the status with the diffs and
\* the untracked contents (the fingerprint), then the digests.
snapshotHead(g) == [NoSnapshot EXCEPT !.head = g.head]
snapshotStatus(s, g) ==
  [s EXCEPT !.files = Listed(g), !.print = [f \in Listed(g) |-> <<g.head[f], g.tree[f]>>]]
snapshotDigests(s, g, paths) == [s EXCEPT !.ok = TRUE, !.digests = digestPaths(g, paths)]

\* The files that commits since the dispatch touched; a diff that cannot run
\* is not the same as none.
committedSinceDispatch(before, now, g, diffRuns) ==
  CASE ~before.ok \/ ~now.ok \/ before.head = now.head -> [ok |-> TRUE, files |-> {}]
    [] diffRuns -> [ok |-> TRUE, files |-> {f \in Files : before.head[f] # g.head[f]}]
    [] OTHER -> [ok |-> FALSE, files |-> {}]

\* Files already dirty at dispatch that changed since: by their digests, or
\* all of them when a digest is missing.
Reworked(before, now) ==
  CASE before.print = now.print -> {}
    [] ~before.digests.ok \/ ~now.digests.ok -> before.files
    [] OTHER -> {f \in DOMAIN before.digests.of :
                   ~(f \in now.files /\ f \in DOMAIN now.digests.of /\ now.digests.of[f] = before.digests.of[f])}

\* The files a dispatch changed: those its sessions were seen to write, those
\* dirty now and not before, those reworked, and those committed.
delta(before, observed, now, committed) ==
  [files |-> observed \cup committed.files
             \cup (IF before.ok /\ now.ok THEN (now.files \ before.files) \cup Reworked(before, now) ELSE {}),
   available |-> before.ok /\ now.ok /\ committed.ok]

-----------------------------------------------------------------------------
(* The reference.                                                          *)

NoReference == [ok |-> FALSE, commit |-> Nowhere, tracked |-> <<>>, untracked |-> <<>>]

\* The three reads of captureInner: git stash create, the digests of the dirty
\* tracked files, and the untracked files with theirs.
captureStash(g) ==
  [NoReference EXCEPT !.commit = [f \in Files |-> IF g.head[f] = "none" THEN "none" ELSE g.tree[f]]]
captureTracked(r, head, g) ==
  [r EXCEPT !.tracked = [f \in {x \in Files : r.commit[x] # head[x] /\ g.tree[x] # "none"} |-> g.tree[f]]]
captureUntracked(r, g) ==
  IF Cardinality(Untracked(g)) > MaxUntrackedFiles THEN NoReference
  ELSE [r EXCEPT !.ok = TRUE, !.untracked = [f \in Untracked(g) |-> g.tree[f]]]

\* What materialize makes of it: the commit checked out, the untracked files
\* that are still what they were copied over it, and the rest left out.
Converted(r) == {f \in DOMAIN r.tracked : r.commit[f] # r.tracked[f]}
Lost(r, g) == {f \in DOMAIN r.untracked : g.tree[f] # r.untracked[f]}
Content(r, g) ==
  [f \in Files |-> IF f \in DOMAIN r.untracked /\ f \notin Lost(r, g) THEN r.untracked[f] ELSE r.commit[f]]

\* Files that differ from the reference by the time of the drift check; a
\* dependency file among them means that the linked node_modules differ.
Drifted(r, g, lost) ==
  lost \cup {f \in Files : (g.head[f] # "none" \/ r.commit[f] # "none") /\ g.tree[f] # r.commit[f]}
       \cup (Untracked(g) \ DOMAIN r.untracked)
=============================================================================
