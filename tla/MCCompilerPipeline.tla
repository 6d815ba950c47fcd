-------------------------- MODULE MCCompilerPipeline --------------------------
(* Small sets of passes, and every option a build has. *)
EXTENDS CompilerPipelineProperties

MCPassIds == 1..4

\* Every two of the passes share a node, and one node is made by all of them.
\* An edge of the first leads to a node that only the second makes.
MCNodes == {"all", "12", "13", "23", "2"}
MCNodesOf == <<{"all", "12", "13"}, {"all", "12", "23", "2"}, {"all", "13", "23"}, {}>>
MCEdgesOf == <<{<<"all", "2">>}, {<<"all", "12">>}, {<<"23", "all">>}, {}>>

\* A pass with nothing declared but its stage.
Pass(i, s) == [id |-> i, stage |-> s, requires |-> {}, after |-> {}, before |-> {}]

MCStages == <<"source-inventory", "core-compiler-passes", "optimization-passes",
              "graph-validation", "artifact-commit">>
Triples == {<<1, 2, 4>>, <<4, 2, 1>>, <<2, 2, 3>>, <<3, 2, 2>>, <<2, 3, 5>>, <<2, 2, 5>>,
            <<2, 2, 2>>, <<5, 1, 2>>, <<4, 4, 5>>}

\* Two dependencies among three passes, each declared in one of three ways,
\* and those of them that are declared twice.
Ends == {<<1, 2>>, <<2, 1>>, <<2, 3>>, <<3, 2>>, <<1, 3>>, <<3, 3>>}
Declared(t, requires, after, before) ==
  [i \in 1..3 |->
    [Pass(i, MCStages[t[i]]) EXCEPT
       !.requires = {f \in 1..3 : <<f, i>> \in requires},
       !.after = {f \in 1..3 : <<f, i>> \in after},
       !.before = {g \in 1..3 : <<i, g>> \in before}]]

Dependent ==
  {Declared(t, r, a, {}) : t \in Triples, r \in {{e} : e \in Ends}, a \in {{e} : e \in Ends}}
    \cup {Declared(t, {}, {<<1, 2>>}, {e}) : t \in Triples, e \in Ends}

Invalids == {
  <<Pass(1, "frontend-parsing"), Pass(1, "graph-validation")>>,
  <<Pass(1, "no-such-stage")>>,
  <<[Pass(1, "frontend-parsing") EXCEPT !.before = {4}]>> }

MCDeclarations == Dependent \cup Invalids
MCInvocations == [write : BOOLEAN, cacheEnabled : BOOLEAN]
=============================================================================
