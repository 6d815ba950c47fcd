------------------------------ MODULE MCEnhancers ------------------------------
(* Nine enhancers: six of the CLI's, in the order of their ids, and three     *)
(* that a caller of the library might add.                                    *)
EXTENDS EnhancerProperties

\* 1 architecture-report, 2 capability-catalog, 3 history, 4 markdown-docs,
\* 5 semantic-index, 6 semantics; 7 is asynchronous and may throw, 8 wants a
\* version there is not, and 9 and 4 wait for each other.
MCEnhancers == 1..9
MCArtifacts == {"Architecture", "Catalog", "History", "Docs", "SemanticIndex", "Semantics",
                "Seventh", "Eighth", "Ninth"}
MCRequires == [e \in 1..9 |->
  CASE e \in {4, 7} -> {"Architecture"} [] e = 8 -> {"Architecture"} [] e = 9 -> {"Docs"}
    [] OTHER -> {}]
MCOptional == [e \in 1..9 |->
  CASE e \in {2, 6} -> {"SemanticIndex"} [] e = 4 -> {"Ninth"} [] e = 7 -> {"Eighth"}
    [] OTHER -> {}]
MCDependsOn == [e \in 1..9 |-> IF e = 7 THEN {1} ELSE {}]
MCAwaits == [e \in 1..9 |-> IF e = 9 THEN {"Seventh"} ELSE {}]
MCProduces == [e \in 1..9 |->
  CASE e = 1 -> {"Architecture"} [] e = 2 -> {"Catalog"} [] e = 3 -> {"History"}
    [] e = 4 -> {"Docs"} [] e = 5 -> {"SemanticIndex"} [] e = 6 -> {"Semantics"}
    [] e = 7 -> {"Seventh"} [] e = 8 -> {"Eighth"} [] e = 9 -> {"Ninth"}]

Selections == {{2, 5, 6}, {1, 2, 4}, {1, 3}, {1, 7, 8}, {4}, {1, 4, 7, 9}}
MCCalls == [chosen : Selections, preloads : BOOLEAN, parallel : BOOLEAN,
            incremental : BOOLEAN]
MCPrompt == 1..6 \cup {8, 9}
=============================================================================
