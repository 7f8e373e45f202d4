------------------------------ MODULE MCSettings -------------------------------
(* Values for the model checker: two environments, and payloads that touch every
   audited group, set both chunk sizes, one of them, or equal ones, and break the
   schema's bounds or a provider's need of a URL. *)
EXTENDS Settings, TLC

MCEnvironment(min, max) ==
  [c \in ProviderFields |-> IF c = "llm_provider" THEN "llama-cpp" ELSE
                            IF c = "embedding_provider" THEN "fake" ELSE "configured"]
  @@ [c \in {"cleanup_on_logout", "guardrails_input_enabled", "guardrails_output_enabled",
             "rate_limit_enabled", "audit_log_ui_enabled", "retention_notice_enabled"} |-> TRUE]
  @@ [c \in TracingFields |-> FALSE]
  @@ [c \in {"rag_min_chunk_size"} |-> min] @@ [c \in {"rag_chunk_size"} |-> max]
  @@ [c \in EvalConfigFields |-> 300] @@ [c \in {"rag_similarity_threshold"} |-> None]
  @@ [c \in Column |-> 1]
MCEnvs == {MCEnvironment(500, 1000), MCEnvironment(100, 400)}
MCOneEnv == {MCEnvironment(500, 1000)}

MCPayload(f) == f @@ [c \in Column |-> None]
MCPair(min, max) == [rag_min_chunk_size |-> min, rag_chunk_size |-> max]
MCPayloads ==
  {MCPayload(f) : f \in
     {[llm_provider |-> "fake", llm_url |-> "", retention_notice_enabled |-> FALSE,
       conversation_retention_hours |-> 0, rate_limit_enabled |-> FALSE],
      [llm_url |-> "", tracing_enabled |-> TRUE],
      [rag_max_results |-> 3, max_input_length |-> 8000] @@ MCPair(600, 1200),
      [audit_log_ui_enabled |-> FALSE, eval_case_run_timeout_seconds |-> 10] @@ MCPair(450, 600),
      [rag_min_chunk_size |-> 1100], MCPair(700, 700),
      [rate_limit_chat_refill_per_minute |-> 0]}}
MCSymmetry == Permutations(Request) \cup Permutations(Process)
================================================================================
