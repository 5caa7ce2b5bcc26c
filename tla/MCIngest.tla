------------------------------ MODULE MCIngest ------------------------------
(* Two instances, on one directory, on two, and one of them static.        *)
EXTENDS Ingest

CONSTANTS i1, i2, d1, d2

MCRungs == <<[tier |-> 1, model |-> "small"], [tier |-> 2, model |-> "large"]>>
MCAlike == {<<"large", "large-latest">>}

Together == [i \in {i1, i2} |-> d1]
Apart == (i1 :> d1) @@ (i2 :> d2)
Half == (i1 :> d1) @@ (i2 :> Off)

Base == [slow |-> {}, role |-> FALSE, producer |-> [tier |-> 2, model |-> "large"],
         graders |-> {}, troubles |-> 1, runs |-> 2, steps |-> 1]

\* Steps and ends of two runs, taken in any order by the instances.
Steps == {[home |-> h, faults |-> {"delete", "silence", "correct", "chat", "switch", "dispose"}]
          @@ Base : h \in {Together, Apart, Half}}
         \union {[home |-> Together, steps |-> 2, runs |-> 1, faults |-> {"silence", "dispose"}] @@ Base}

\* Verdicts, refusals and signals: two calls of a role whose hooks judge one registration or
\* two; a tier's, around changes of the settings; and both for one call of a role.
Graders == {Nil, [tier |-> 2, model |-> "other"], [tier |-> 2, model |-> "small"],
            [tier |-> 2, model |-> "large-latest"]}
Judged == [home |-> Half, graders |-> Graders, steps |-> 0] @@ Base
Verdicts == {[role |-> TRUE, troubles |-> 0, faults |-> {}] @@ Judged,
             [faults |-> {"switch"}] @@ Judged,
             [role |-> TRUE, runs |-> 1, faults |-> {"switch"}] @@ Judged}

\* A model catalog that is slow, fails and ages.
Catalogs == {[home |-> Half, slow |-> {i1}, steps |-> 2, runs |-> 1, troubles |-> 2,
              faults |-> {"catalog", "dispose"}] @@ Base}

MCScenarios == Steps \union Verdicts \union Catalogs
=============================================================================
