----------------------------- MODULE MCOutcomes -----------------------------
(* The outcome store: the processes that share outcomes.json ("sync") and   *)
(* the flusher of one of them ("flusher").  A behaviour runs one.           *)
EXTENDS OutcomeSync, OutcomeFlusher

VARIABLE which

mcvars == <<vars, syncVars, which>>

AnyInit == which \in {"sync", "flusher"} /\ SyncInit /\ Init

Sync == which = "sync" /\ UNCHANGED <<vars, which>>
Flusher == which = "flusher" /\ UNCHANGED <<syncVars, which>>

AnyNext ==
  \/ Sync /\ SyncNext
  \/ Flusher /\ Next

\* The fairness of each specification, for the behaviours that run it.
AnyFairness ==
  /\ \A p \in Procs : WF_mcvars(Sync /\ Flushes(p)) /\ SF_mcvars(Sync /\ LockFile(p))
  /\ WF_mcvars(Sync /\ RecoverLock)
  /\ WF_mcvars(Flusher /\ (Load \/ FinishDispose)) /\ WF_mcvars(Flusher /\ TimerFires)
  /\ \A f \in Flights : WF_mcvars(Flusher /\ FlushSteps(f))
  /\ \A c \in AllCallers : WF_mcvars(Flusher /\ call[c].state = "resumed" /\ FlushNow(c))

AnySpec == AnyInit /\ [][AnyNext]_mcvars /\ AnyFairness

\* Nothing stays pending: what a process recorded reaches the file, and what
\* was queued or asked to be flushed is written, without being asked for again
\* (persist.ts doFlush and startFlush).
NothingStaysPending ==
  /\ which = "sync" => EventuallySaved
  /\ EventuallyFlushed
=============================================================================
