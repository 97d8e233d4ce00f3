-------------------------- MODULE MCKnowledgeBase --------------------------
(***************************************************************************)
(* Two domains with two documents and one, in batches of two.              *)
(***************************************************************************)
EXTENDS KnowledgeBase

MCDomainDocs == [enterprise |-> <<"e1", "e2">>, ics |-> <<"i1">>]
MCIds == {"e1", "e2", "i1"}

Plain == [domains |-> <<"enterprise", "ics">>, limit |-> 9, model |-> "v3", size |-> 4,
          demo |-> FALSE, clear |-> FALSE, version |-> "19"]

\* A first run, and runs that share its documents: a rebuild of the first of
\* them with --clear, another model, another vector size, and the two that have
\* the same fingerprint and other vectors: a demo and a newer ATT&CK version.
MCConfigs == {Plain, [Plain EXCEPT !.clear = TRUE, !.limit = 1],
              [Plain EXCEPT !.model = "v4"], [Plain EXCEPT !.size = 8],
              [Plain EXCEPT !.demo = TRUE], [Plain EXCEPT !.version = "20"]}

MCVectors == [model : {"random", "v3", "v4"}, version : {"19", "20"}]
=============================================================================
