---------------------------- MODULE MCGuardrail ----------------------------
(* Four texts, two of which differ in whitespace only.                    *)
EXTENDS Guardrail

MCTexts == {"a", "a ", "b", "c"}
MCnormalize == [x \in MCTexts |-> IF x = "a " THEN "a" ELSE x]
MCConfigs ==
  { [static |-> TRUE, llm |-> "sync", closed |-> TRUE, reject |-> TRUE],
    [static |-> FALSE, llm |-> "sync", closed |-> TRUE, reject |-> FALSE],
    [static |-> FALSE, llm |-> "async", closed |-> TRUE, reject |-> TRUE],
    [static |-> TRUE, llm |-> "off", closed |-> TRUE, reject |-> TRUE] }
=============================================================================
