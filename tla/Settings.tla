------------------------------- MODULE Settings -------------------------------
(***************************************************************************)
(* The admin's runtime settings: the one system_settings row that           *)
(* overrides the environment, the audit trail of its columns, and the       *)
(* guardrail_patterns rows with theirs.                                     *)
(*                                                                          *)
(* A handler is a coroutine that awaits nothing: on one event loop it runs  *)
(* to its end.  Two processes (a rollout overlaps two pods) interleave      *)
(* between database statements, at READ COMMITTED.  The ORM writes only the *)
(* columns whose new value differs from the one it loaded, so a handler     *)
(* that decided on an older row leaves the other columns of a newer one     *)
(* alone.  From its first UPDATE or INSERT to its COMMIT a handler is one   *)
(* action: the row lock keeps every other writer waiting.                   *)
(*                                                                          *)
(* Left out: GET /api/settings and the other reads (they commit nothing),   *)
(* updated_by and updated_at, the labels and texts of patterns.  Values are *)
(* numbers, Booleans and, for the provider columns, strings; a ratio or a   *)
(* distance is counted in tenths.                                           *)
(***************************************************************************)
EXTENDS Integers, Sequences, FiniteSets, Functions

CONSTANTS
  Process,    \* backend processes sharing the database
  Request,    \* requests in flight at once, over all processes
  Envs,       \* environments a process may start with: column -> default
  Payloads,   \* bodies of PUT /api/settings: column -> value, None if omitted
  BuiltIns,   \* pattern ids the code defines
  Customs,    \* ids of admin-added patterns
  None,       \* NULL: no override
  MaxWrites   \* bound: audited writes after which no handler begins

ProviderFields ==
  {"llm_provider", "llm_url", "llm_model",
   "embedding_provider", "embedding_url", "embedding_model"}

RetentionFields ==
  {"conversation_retention_hours", "cleanup_on_logout", "knowledge_base_purge_days",
   "api_key_purge_days", "chat_turn_version_retention_days"}

GuardrailFields == {"max_input_length", "guardrails_input_enabled", "guardrails_output_enabled"}

TracingFields == {"tracing_enabled"}

RateLimitFields ==
  {"rate_limit_enabled", "rate_limit_chat_capacity", "rate_limit_chat_refill_per_minute",
   "rate_limit_auth_capacity", "rate_limit_auth_refill_per_minute"}

RetentionNoticeFields == {"retention_notice_enabled"}

AuditLogUiFields == {"audit_log_ui_enabled"}

RagConfigFields ==
  {"rag_similarity_threshold", "rag_max_results", "rag_min_chunk_size", "rag_chunk_size",
   "rag_chunk_overlap_ratio", "rag_max_excerpt_chars"}

EvalConfigFields == {"eval_case_run_timeout_seconds"}

\* The columns whose changes are audited: all but the providers'.
Audited ==
  RetentionFields \cup GuardrailFields \cup TracingFields \cup RateLimitFields
    \cup RetentionNoticeFields \cup AuditLogUiFields \cup RagConfigFields \cup EvalConfigFields

Column == ProviderFields \cup Audited

\* Bounds the environment is checked against too: Field(ge=..., le=...) of Settings.
Counted ==
  (RateLimitFields \ {"rate_limit_enabled"})
    \cup {"rag_max_results", "rag_min_chunk_size", "rag_chunk_size", "rag_max_excerpt_chars"}

InStartupBounds(c, v) ==
  /\ c \in Counted => v >= 1
  /\ c = "rag_chunk_overlap_ratio" => v \in 0 .. 9
  /\ c = "eval_case_run_timeout_seconds" => v \in 10 .. 3600

\* The start-up validator: min < max over the environment's own pair.
StartsWith(e) ==
  /\ \A c \in Column : InStartupBounds(c, e[c])
  /\ e["rag_min_chunk_size"] < e["rag_chunk_size"]

ASSUME EnvAssumption == \A e \in Envs : DOMAIN e = Column /\ StartsWith(e)
ASSUME PayloadAssumption == \A b \in Payloads : b = [c \in Column |-> b[c]]
ASSUME IdAssumption == BuiltIns \cap Customs = {}
ASSUME NoneAssumption == None \notin BOOLEAN
ASSUME ProcessAssumption == IsFiniteSet(Process)

VARIABLES
  serving,   \* the processes that run: one, or two of a rollout
  env,       \* per process: its environment
  row,       \* the committed settings row: column -> override, NoRow before the first save
  trail,     \* committed audit entries of the settings, one set per save, in order
  patterns,  \* committed pattern rows: id -> enabled
  moves,     \* committed audit entries per pattern id, in order
  req,       \* per request: its handler's local state
  blind,     \* history: a save found no row when it validated but one when it wrote
  split      \* history: a save set one of the two chunk sizes and not the other

vars == <<serving, env, row, trail, patterns, moves, req, blind, split>>

Phase == {"idle", "save", "upsert", "toggle", "delete", "apply"}

Resting == [pc |-> "idle", proc |-> None]

NoRow == [c \in {} |-> None]

Init ==
  /\ serving \in {Process} \cup {{p} : p \in Process}
  /\ env \in [Process -> Envs]
  /\ row = NoRow
  /\ trail = <<>>
  /\ patterns = [x \in {} |-> TRUE]
  /\ moves = [x \in BuiltIns \cup Customs |-> <<>>]
  /\ req = [q \in Request |-> Resting]
  /\ blind = FALSE
  /\ split = FALSE

\* The event loop of p runs no handler.
LoopFree(p) == \A q \in Request : req[q].pc # "idle" => req[q].proc # p

Writes == FoldFunction(+, Len(trail), [x \in DOMAIN moves |-> Len(moves[x])])

Accept(q, p, handler) ==
  /\ Writes < MaxWrites
  /\ p \in serving
  /\ req[q].pc = "idle"
  /\ LoopFree(p)
  /\ req' = [req EXCEPT ![q] = handler]

Respond(q) == req' = [req EXCEPT ![q] = Resting]

Store == <<row, trail, patterns, moves, blind, split>>
Processes == <<serving, env>>
--------------------------------------------------------------------------------
(* What the services resolve: the override if there is one, else the default. *)

Overrides(r) == [c \in Column |-> IF r = NoRow THEN None ELSE r[c]]

Resolved(r, e, c) == IF Overrides(r)[c] # None THEN Overrides(r)[c] ELSE e[c]

LlmConfig(r, e) ==
  [provider |-> Resolved(r, e, "llm_provider"), url |-> Resolved(r, e, "llm_url"),
   model |-> Resolved(r, e, "llm_model")]

EmbeddingConfig(r, e) ==
  [provider |-> Resolved(r, e, "embedding_provider"), url |-> Resolved(r, e, "embedding_url"),
   model |-> Resolved(r, e, "embedding_model")]

RagConfig(r, e) == [c \in RagConfigFields |-> Resolved(r, e, c)]
RateLimitConfig(r, e) == [c \in RateLimitFields |-> Resolved(r, e, c)]
EvalConfig(r, e) == [c \in EvalConfigFields |-> Resolved(r, e, c)]
--------------------------------------------------------------------------------
(* PUT /api/settings. *)

\* Mutant of InBounds: the request schema states no bounds.
InBoundsNone(c, v) == TRUE

\* The bounds of the request schema.
InBounds(c, v) ==
  /\ InStartupBounds(c, v)
  /\ c \in RetentionFields \ {"cleanup_on_logout"} => v >= 0
  /\ c = "max_input_length" => v \in 1 .. 8000
  /\ c = "rag_similarity_threshold" => v \in 0 .. 20

WellFormed(b) == \A c \in Column : b[c] # None => InBounds(c, b[c])

LlmProviders == {"fake", "llama-cpp", "openai-compatible"}
EmbeddingProviders == {"fake", "llama-cpp"}

\* Every provider but the in-process one needs a URL.
RequiresUrl(provider) == provider # "fake"

ProviderAccepted(b, provider, url, effective, known) ==
  /\ b[provider] # None => b[provider] \in known
  /\ LET applies == IF b[provider] # None THEN b[provider] ELSE effective
     IN  ~ (RequiresUrl(applies) /\ b[url] = "")

\* Mutant of ChunkBoundsAccepted: a minimum equal to the maximum passes.
ChunkBoundsAcceptedEqual(b, r, e) ==
  LET pair == [c \in RagConfigFields |-> IF b[c] # None THEN b[c] ELSE RagConfig(r, e)[c]]
  IN  pair["rag_min_chunk_size"] <= pair["rag_chunk_size"]

\* The pair the payload gives, each half completed from what is effective now.
ChunkBoundsAccepted(b, r, e) ==
  LET pair == [c \in RagConfigFields |-> IF b[c] # None THEN b[c] ELSE RagConfig(r, e)[c]]
  IN  pair["rag_min_chunk_size"] < pair["rag_chunk_size"]

Accepted(b, r, e) ==
  /\ WellFormed(b)
  /\ ProviderAccepted(b, "llm_provider", "llm_url", LlmConfig(r, e).provider, LlmProviders)
  /\ ProviderAccepted(b, "embedding_provider", "embedding_url",
                      EmbeddingConfig(r, e).provider, EmbeddingProviders)
  /\ ChunkBoundsAccepted(b, r, e)

\* The first SELECT and every check; a refused payload changes nothing.
BeginSave(q, p) ==
  /\ \E b \in Payloads :
       /\ Accepted(b, row, env[p])
       /\ Accept(q, p, [pc |-> "save", proc |-> p, body |-> b, seen |-> row, target |-> row])
  /\ UNCHANGED <<Processes, Store>>

\* The second SELECT, of upsert.  It returns the object the session already holds,
\* unrefreshed; only a session that holds none yet can find a newer row here.
FindRow(q) ==
  /\ req[q].pc = "save"
  /\ req' = [req EXCEPT ![q].pc = "upsert",
               ![q].target = IF req[q].seen = NoRow THEN row ELSE req[q].seen]
  /\ UNCHANGED <<Processes, Store>>

Changes(action, fields, previous, current) ==
  {[action |-> action, field |-> c, old |-> previous[c], new |-> current[c]] :
     c \in {d \in fields : previous[d] # current[d]}}

RetentionChanges(old, new) == Changes("retention.update", RetentionFields, old, new)
GuardrailChanges(old, new) == Changes("guardrail.config_update", GuardrailFields, old, new)
TracingChanges(old, new) == Changes("tracing.config_update", TracingFields, old, new)
RateLimitChanges(old, new) == Changes("rate_limit.config_update", RateLimitFields, old, new)
AuditLogUiChanges(old, new) == Changes("audit_log_ui.config_update", AuditLogUiFields, old, new)
RetentionNoticeChanges(old, new) ==
  Changes("retention_notice.config_update", RetentionNoticeFields, old, new)

RagConfigChanges(old, new) == Changes("rag_config.config_update", RagConfigFields, old, new)
EvalConfigChanges(old, new) == Changes("eval_config.config_update", EvalConfigFields, old, new)

AuditEntries(old, new) ==
  RetentionChanges(old, new) \cup GuardrailChanges(old, new) \cup TracingChanges(old, new)
    \cup RateLimitChanges(old, new) \cup AuditLogUiChanges(old, new)
    \cup RetentionNoticeChanges(old, new) \cup RagConfigChanges(old, new)
    \cup EvalConfigChanges(old, new)

\* Mutant of Merged: an omitted field keeps its override.
MergedKeeping(loaded, b) ==
  [c \in Column |-> IF b[c] # None \/ row = NoRow THEN b[c] ELSE row[c]]

\* The UPDATE sets the columns the payload changes against the loaded row.
Merged(loaded, b) == [c \in Column |-> IF b[c] # Overrides(loaded)[c] THEN b[c] ELSE row[c]]

\* The old values, captured from the row first read.
Previous(q) == Overrides(req[q].seen)

\* upsert's INSERT or UPDATE, the audit entries and the COMMIT.  An INSERT that
\* meets a row of another process fails on the primary key and commits nothing.
Save(q) ==
  /\ req[q].pc = "upsert"
  /\ Respond(q)
  /\ LET b == req[q].body
         loaded == req[q].target
     IN  IF loaded = NoRow /\ row # NoRow
         THEN UNCHANGED Store
         ELSE /\ row' = IF loaded = NoRow THEN b ELSE Merged(loaded, b)
              /\ trail' = Append(trail, AuditEntries(Previous(q), b))
              /\ blind' = (blind \/ req[q].seen # loaded)
              /\ split' = (split \/ (b["rag_min_chunk_size"] = None) # (b["rag_chunk_size"] = None))
              /\ UNCHANGED <<patterns, moves>>
  /\ UNCHANGED Processes
--------------------------------------------------------------------------------
(* The guardrail's patterns. *)

Known(x) == x \in DOMAIN patterns
With(x, enabled) == [y \in DOMAIN patterns \cup {x} |-> IF y = x THEN enabled ELSE patterns[y]]
Without(x) == [y \in DOMAIN patterns \ {x} |-> patterns[y]]
Record(x, what) == moves' = [moves EXCEPT ![x] = Append(@, what)]

\* Mutant of Word: the trail gets the flag's own words.
WordRaw(enabled) == IF enabled THEN "True" ELSE "False"

Word(enabled) == IF enabled THEN "enabled" ELSE "disabled"

Seeded == [x \in DOMAIN patterns \cup BuiltIns |-> IF Known(x) THEN patterns[x] ELSE TRUE]

\* A chat turn commits the built-in rows its config resolution found missing; an
\* insert another session was faster with is dropped with its savepoint.
SeedBuiltIns ==
  /\ ~ BuiltIns \subseteq DOMAIN patterns
  /\ patterns' = Seeded
  /\ UNCHANGED <<Processes, row, trail, moves, req, blind, split>>

CreatePattern(q, p, x) ==
  /\ Writes < MaxWrites
  /\ p \in serving /\ req[q].pc = "idle" /\ LoopFree(p)
  /\ moves[x] = <<>>
  /\ patterns' = With(x, TRUE)
  /\ Record(x, "created")
  /\ UNCHANGED <<Processes, row, trail, req, blind, split>>

\* The handlers' own SELECT: an unknown id is answered 404.
BeginToggle(q, p, x) ==
  /\ Known(x)
  /\ \E enabled \in BOOLEAN :
       Accept(q, p, [pc |-> "toggle", proc |-> p, id |-> x, was |-> patterns[x], to |-> enabled])
  /\ UNCHANGED <<Processes, Store>>

Deletable(x) == Known(x) /\ x \in Customs

BeginDelete(q, p, x) ==
  /\ Deletable(x)
  /\ Accept(q, p, [pc |-> "delete", proc |-> p, id |-> x])
  /\ UNCHANGED <<Processes, Store>>

\* The repository's SELECT of the row found it gone: nothing is written, but the
\* entry is recorded all the same.
PatternGone(q) ==
  /\ req[q].pc \in {"toggle", "delete"}
  /\ ~ Known(req[q].id)
  /\ Respond(q)
  /\ CASE req[q].pc = "delete" -> Record(req[q].id, "deleted")
       [] req[q].pc = "toggle" /\ req[q].was # req[q].to -> Record(req[q].id, Word(req[q].to))
       [] OTHER -> UNCHANGED moves
  /\ UNCHANGED <<Processes, row, trail, patterns, blind, split>>

\* It found it: the value loaded first stays the one an UPDATE is decided by.
PatternFound(q) ==
  /\ req[q].pc \in {"toggle", "delete"}
  /\ Known(req[q].id)
  /\ req' = [req EXCEPT ![q] =
       [pc |-> "apply", proc |-> req[q].proc, id |-> req[q].id,
        was |-> IF req[q].pc = "toggle" THEN req[q].was ELSE None,
        to |-> IF req[q].pc = "toggle" THEN req[q].to ELSE None]]
  /\ UNCHANGED <<Processes, Store>>

\* DELETE; no row matched is a warning, not an error.
ApplyDelete(q) ==
  /\ req[q].pc = "apply" /\ req[q].to = None
  /\ patterns' = Without(req[q].id)
  /\ Record(req[q].id, "deleted")
  /\ Respond(q)
  /\ UNCHANGED <<Processes, row, trail, blind, split>>

\* Mutant of Updated: a row deleted since is inserted again.
UpdatedAnew(q) == req[q].was # req[q].to

\* Nothing to write when the loaded value is the wanted one.  An UPDATE that
\* matches no row fails, and the request with it.
Updated(q) == req[q].was # req[q].to /\ Known(req[q].id)

ApplyToggle(q) ==
  /\ req[q].pc = "apply" /\ req[q].to # None
  /\ Respond(q)
  /\ IF Updated(q)
     THEN /\ patterns' = With(req[q].id, req[q].to)
          /\ Record(req[q].id, Word(req[q].to))
     ELSE UNCHANGED <<patterns, moves>>
  /\ UNCHANGED <<Processes, row, trail, blind, split>>
--------------------------------------------------------------------------------
\* A process restarts, with an environment that may have changed.
Restart(p) ==
  /\ p \in serving
  /\ \E e \in Envs : env' = [env EXCEPT ![p] = e]
  /\ req' = [q \in Request |-> IF req[q].proc = p THEN Resting ELSE req[q]]
  /\ UNCHANGED <<serving, Store>>

Next ==
  \/ \E q \in Request :
       \/ FindRow(q) \/ Save(q) \/ PatternGone(q) \/ PatternFound(q)
       \/ ApplyDelete(q) \/ ApplyToggle(q)
       \/ \E p \in Process :
            \/ BeginSave(q, p)
            \/ \E x \in Customs : CreatePattern(q, p, x)
            \/ \E x \in BuiltIns \cup Customs : BeginToggle(q, p, x) \/ BeginDelete(q, p, x)
  \/ SeedBuiltIns
  \/ \E p \in Process : Restart(p)

Spec == Init /\ [][Next]_vars
--------------------------------------------------------------------------------
(* Properties. *)

\* Every variable keeps its type; the entries of a pattern are one of four words.
TypeOK ==
  /\ serving \subseteq Process
  /\ env \in [Process -> Envs]
  /\ row # NoRow => DOMAIN row = Column
  /\ \A i \in DOMAIN trail : \A x \in trail[i] : x.field \in Audited /\ x.old # x.new
  /\ DOMAIN patterns \subseteq BuiltIns \cup Customs
  /\ \A x \in DOMAIN moves : moves[x] \in Seq({"created", "enabled", "disabled", "deleted"})
  /\ \A q \in Request : req[q].pc \in Phase /\ (req[q].pc # "idle" => req[q].proc \in serving)

LimitsUsable(p) ==
  \A c \in RateLimitFields \ {"rate_limit_enabled"} : RateLimitConfig(row, env[p])[c] >= 1

CeilingsUsable(p) ==
  \A c \in Counted \cap RagConfigFields : RagConfig(row, env[p])[c] >= 1

OverlapUsable(p) == RagConfig(row, env[p])["rag_chunk_overlap_ratio"] < 10

TimeoutUsable(p) == EvalConfig(row, env[p])["eval_case_run_timeout_seconds"] \in 10 .. 3600

\* What the limiter divides by, the ceiling retrieval clamps to, the chunk sizes
\* and the eval timeout are in range for every process, whatever mix of columns
\* overlapping saves leave and whatever environment the process started with.
ConfigsUsable ==
  \A p \in serving :
    LimitsUsable(p) /\ CeilingsUsable(p) /\ OverlapUsable(p) /\ TimeoutUsable(p)

\* The value the entries leave a column with.
Told(c) ==
  LET at == {j \in DOMAIN trail : \E x \in trail[j] : x.field = c}
  IN  IF at = {} THEN None
      ELSE LET last == CHOOSE j \in at : \A k \in at : k <= j
           IN  (CHOOSE x \in trail[last] : x.field = c).new

\* Replaying the audit trail gives the stored overrides, column by column, even when
\* two processes save over rows they read before the other's write.  (Not so when a
\* save validated against no row and then found another's: see blind.)
TrailMatchesRow ==
  ~ blind => \A c \in Audited : Told(c) = Overrides(row)[c]

Ordered(p) ==
  LET rag == RagConfig(row, env[p]) IN rag["rag_min_chunk_size"] < rag["rag_chunk_size"]

\* With one process, and admins who always set both chunk sizes or neither, the
\* effective range is never inverted, through restarts with other environments too.
BoundsFromPairs == Cardinality(serving) = 1 /\ ~ split => \A p \in serving : Ordered(p)

\* The effective chunk-size range is never inverted by a save.  Not so: the check
\* completes an omitted half with its current override, the write clears it.
ChunkBoundsOrdered == \A p \in serving : Ordered(p)

Words(x) == {moves[x][i] : i \in DOMAIN moves[x]}
Switches(x) == {i \in DOMAIN moves[x] : moves[x][i] \in {"enabled", "disabled"}}

\* The last switch in the entries of x is off.
ToldOff(x) ==
  \E i \in Switches(x) : moves[x][i] = "disabled" /\ \A j \in Switches(x) : j <= i

\* A pattern's row is as its entries tell: present unless deleted (a built-in never
\* is), switched as last toggled, under racing toggles, deletions and seedings.
PatternTrail ==
  \A x \in BuiltIns \cup Customs :
    /\ Words(x) # {} => (Known(x) <=> "deleted" \notin Words(x))
    /\ x \in BuiltIns => "deleted" \notin Words(x)
    /\ Known(x) => patterns[x] = ~ ToldOff(x)
================================================================================
