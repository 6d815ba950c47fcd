---------------------------- MODULE MCArtifactStore ----------------------------
(* Two builders and two readers over ontoly-output and .ontoly. *)
EXTENDS ArtifactProperties, TLC

\* `ontoly build`, `ontoly output . --output .ontoly` and `ontoly build --output .ontoly
\* --bundle`, which writes both directories; a build of `ontoly watch`.
Bundle(dir) == <<[kind |-> "bundle", dir |-> dir]>>
Persist == <<[kind |-> "persist", dir |-> ".ontoly"]>>
MCPrograms ==
  "b1" :> {Bundle("ontoly-output"), Bundle(".ontoly"), Persist \o Bundle("ontoly-output")}
    @@ "b2" :> {Persist}
MCQuestions == "r1" :> {"search", "query"} @@ "r2" :> {"serve"}
Budget(b, a, e, k, t) ==
  [builds |-> b, asks |-> a, edits |-> e, kills |-> k, together |-> t]
MCBudgets ==
  {Budget(2, 1, 1, 0, 1), Budget(1, 2, 0, 0, 1), Budget(2, 1, 0, 1, 1), Budget(2, 0, 0, 1, 2)}
=============================================================================
