---------------------------- MODULE Settings_proofs ----------------------------
(***************************************************************************)
(* Theorems about Settings for any number of processes and requests, any    *)
(* environments, payloads and pattern ids.                                  *)
(***************************************************************************)
EXTENDS Settings, FiniteSetTheorems, TLAPS

Ids == BuiltIns \cup Customs
Value == (UNION {{b[c] : c \in Column} : b \in Payloads}) \cup {None}
Override == [Column -> Value]
Rows == Override \cup {NoRow}
AnyWord == {"created", "enabled", "disabled", "deleted"}
Action ==
  {"retention.update", "guardrail.config_update", "tracing.config_update",
   "rate_limit.config_update", "audit_log_ui.config_update", "retention_notice.config_update",
   "rag_config.config_update", "eval_config.config_update"}
Entry == {x \in [action : Action, field : Audited, old : Value, new : Value] : x.old # x.new}

Saving == [pc : {"save", "upsert"}, proc : Process, body : Payloads, seen : Rows, target : Rows]
Toggling == [pc : {"toggle"}, proc : Process, id : Ids, was : BOOLEAN, to : BOOLEAN]
Deleting == [pc : {"delete"}, proc : Process, id : Ids]
Applying == [pc : {"apply"}, proc : Process, id : Ids,
             was : BOOLEAN \cup {None}, to : BOOLEAN \cup {None}]
Handler == {Resting} \cup Saving \cup Toggling \cup Deleting \cup Applying

Busy(q) == req[q].pc # "idle"

\* The types of everything, down to the local state of a handler.
TypeInv ==
  /\ serving \subseteq Process
  /\ env \in [Process -> Envs]
  /\ row \in Rows
  /\ trail \in Seq(SUBSET Entry)
  /\ patterns \in [DOMAIN patterns -> BOOLEAN] /\ DOMAIN patterns \subseteq Ids
  /\ moves \in [Ids -> Seq(AnyWord)]
  /\ req \in [Request -> Handler]
  /\ \A q \in Request : Busy(q) => req[q].proc \in serving

\* The fields of a handler, by the statement it is at, and the other way round.
LEMMA HandlerFields ==
  ASSUME NEW h \in Handler
  PROVE  /\ h.pc \in {"save", "upsert"} => h \in Saving
         /\ h.pc = "toggle" => h \in Toggling
         /\ h.pc = "delete" => h \in Deleting
         /\ h.pc = "apply" => h \in Applying
         /\ h.pc # "idle" => h.proc \in Process
         /\ h.pc \in Phase
BY DEF Handler, Resting, Saving, Toggling, Deleting, Applying, Phase

LEMMA HandlerKinds ==
  /\ Resting \in Handler /\ Saving \subseteq Handler /\ Toggling \subseteq Handler
  /\ Deleting \subseteq Handler /\ Applying \subseteq Handler
BY DEF Handler

\* One step of one handler keeps the handlers typed and on a process that serves.
LEMMA StepHandler ==
  ASSUME TypeInv, NEW q \in Request, NEW h \in Handler, req' = [req EXCEPT ![q] = h],
         h.pc # "idle" => h.proc \in serving, serving' = serving
  PROVE  /\ req' \in [Request -> Handler]
         /\ \A r \in Request : Busy(r)' => req'[r].proc \in serving'
BY DEF TypeInv, Busy

LEMMA PayloadIsOverride == ASSUME NEW b \in Payloads PROVE b \in Override
<1>1. \A c \in Column : b[c] \in Value
  BY DEF Value
<1>2. b = [c \in Column |-> b[c]]
  BY PayloadAssumption
<1>3. [c \in Column |-> b[c]] \in Override
  BY <1>1 DEF Override
<1>4. QED
  BY <1>2, <1>3

\* "No row" is none of the rows: they have columns.
LEMMA NoRowIsNoOverride == NoRow \notin Override
<1>1. "llm_url" \in Column
  BY DEF Column, ProviderFields
<1>2. DOMAIN NoRow = {}
  BY DEF NoRow
<1>3. \A r \in Override : DOMAIN r = Column
  BY DEF Override
<1>4. QED
  BY <1>1, <1>2, <1>3

LEMMA OverridesType == ASSUME NEW r \in Rows PROVE Overrides(r) \in Override
<1>1. None \in Value
  BY DEF Value
<1>2. \A c \in Column : (IF r = NoRow THEN None ELSE r[c]) \in Value
  BY <1>1 DEF Rows, Override
<1>3. QED
  BY <1>2 DEF Overrides, Override

LEMMA EntryType ==
  ASSUME NEW action \in Action, NEW c \in Audited, NEW old \in Override, NEW new \in Override,
         old[c] # new[c]
  PROVE  [action |-> action, field |-> c, old |-> old[c], new |-> new[c]] \in Entry
<1>1. Audited \subseteq Column
  BY DEF Column
<1>2. old[c] \in Value /\ new[c] \in Value
  BY <1>1 DEF Override
<1>3. QED
  BY <1>2 DEF Entry

LEMMA ChangesAreEntries ==
  ASSUME NEW fields, fields \subseteq Audited, NEW action \in Action,
         NEW old \in Override, NEW new \in Override
  PROVE  Changes(action, fields, old, new) \subseteq Entry
BY EntryType DEF Changes

LEMMA AuditEntriesType ==
  ASSUME NEW old \in Override, NEW new \in Override
  PROVE  AuditEntries(old, new) \in SUBSET Entry
<1>1. /\ RetentionFields \subseteq Audited /\ GuardrailFields \subseteq Audited
      /\ TracingFields \subseteq Audited /\ RateLimitFields \subseteq Audited
      /\ RetentionNoticeFields \subseteq Audited /\ AuditLogUiFields \subseteq Audited
      /\ RagConfigFields \subseteq Audited /\ EvalConfigFields \subseteq Audited
  BY DEF Audited
<1>2. RetentionChanges(old, new) \subseteq Entry
  BY <1>1, ChangesAreEntries DEF Action, RetentionChanges
<1>3. GuardrailChanges(old, new) \subseteq Entry
  BY <1>1, ChangesAreEntries DEF Action, GuardrailChanges
<1>4. TracingChanges(old, new) \subseteq Entry
  BY <1>1, ChangesAreEntries DEF Action, TracingChanges
<1>5. RateLimitChanges(old, new) \subseteq Entry
  BY <1>1, ChangesAreEntries DEF Action, RateLimitChanges
<1>6. AuditLogUiChanges(old, new) \subseteq Entry
  BY <1>1, ChangesAreEntries DEF Action, AuditLogUiChanges
<1>7. RetentionNoticeChanges(old, new) \subseteq Entry
  BY <1>1, ChangesAreEntries DEF Action, RetentionNoticeChanges
<1>8. RagConfigChanges(old, new) \subseteq Entry
  BY <1>1, ChangesAreEntries DEF Action, RagConfigChanges
<1>9. EvalConfigChanges(old, new) \subseteq Entry
  BY <1>1, ChangesAreEntries DEF Action, EvalConfigChanges
<1>10. QED
  BY <1>2, <1>3, <1>4, <1>5, <1>6, <1>7, <1>8, <1>9 DEF AuditEntries

\* What an UPDATE leaves: the payload's columns and those of the stored row.
LEMMA MergedType ==
  ASSUME row \in Override, NEW b \in Payloads, NEW loaded
  PROVE  Merged(loaded, b) \in Override
<1>1. b \in Override
  BY PayloadIsOverride
<1>2. \A c \in Column : (IF b[c] # Overrides(loaded)[c] THEN b[c] ELSE row[c]) \in Value
  BY <1>1 DEF Override
<1>3. QED
  BY <1>2 DEF Merged, Override
--------------------------------------------------------------------------------
(* A row that was once read is there: only the first save inserts one, and no
   handler deletes it. *)
RowStays ==
  \A q \in Request : req[q].pc \in {"save", "upsert"} =>
    /\ req[q].seen # NoRow => row # NoRow
    /\ req[q].target # NoRow => row # NoRow

Typed == TypeInv /\ RowStays

LEMMA InitTyped == Init => Typed
<1>1. ASSUME Init PROVE TypeInv
  <2>1. row \in Rows
    BY <1>1 DEF Init, Rows
  <2>2. serving \subseteq Process /\ env \in [Process -> Envs]
    BY <1>1 DEF Init
  <2>3. trail \in Seq(SUBSET Entry)
    BY <1>1 DEF Init
  <2>4. patterns \in [DOMAIN patterns -> BOOLEAN] /\ DOMAIN patterns \subseteq Ids
    BY <1>1 DEF Init
  <2>5. moves \in [Ids -> Seq(AnyWord)]
    BY <1>1 DEF Init, Ids
  <2>6. /\ req \in [Request -> Handler]
        /\ \A q \in Request : Busy(q) => req[q].proc \in serving
    BY <1>1, HandlerKinds DEF Init, Busy, Resting
  <2>7. QED
    BY <2>1, <2>2, <2>3, <2>4, <2>5, <2>6 DEF TypeInv
<1>2. ASSUME Init PROVE RowStays
  BY <1>2 DEF Init, RowStays, Resting
<1>3. QED
  BY <1>1, <1>2 DEF Typed

\* The commit of a save: what it leaves in the row and the trail.
LEMMA SaveType ==
  ASSUME Typed, NEW q \in Request, Save(q)
  PROVE  /\ row' \in Rows /\ (row # NoRow => row' # NoRow)
         /\ trail' \in Seq(SUBSET Entry)
<1> DEFINE b == req[q].body
           loaded == req[q].target
<1>1. req[q] \in Saving
  BY HandlerFields DEF Save, Typed, TypeInv
<1>2. b \in Payloads /\ b \in Override /\ loaded \in Rows /\ req[q].seen \in Rows
  BY <1>1, PayloadIsOverride DEF Saving
<1>3. CASE loaded = NoRow /\ row # NoRow
  BY <1>3 DEF Save, Store, Typed, TypeInv
<1>4. CASE ~ (loaded = NoRow /\ row # NoRow)
  <2>1. /\ row' = IF loaded = NoRow THEN b ELSE Merged(loaded, b)
        /\ trail' = Append(trail, AuditEntries(Previous(q), b))
    BY <1>4 DEF Save
  <2>2. loaded # NoRow => row # NoRow
    BY DEF Save, Typed, RowStays
  <2>3. loaded # NoRow => Merged(loaded, b) \in Override
    BY <2>2, <1>2, MergedType DEF Typed, TypeInv, Rows
  <2>4. row' \in Override
    BY <2>1, <2>3, <1>2
  <2>5. AuditEntries(Previous(q), b) \in SUBSET Entry
    BY <1>2, OverridesType, AuditEntriesType DEF Previous
  <2>6. trail' \in Seq(SUBSET Entry)
    BY <2>1, <2>5 DEF Typed, TypeInv
  <2>7. QED
    BY <2>4, <2>6, NoRowIsNoOverride DEF Rows
<1>5. QED
  BY <1>3, <1>4

\* A handler that begins: its process serves, and nothing else but req changes.
LEMMA AcceptTyped ==
  ASSUME Typed, NEW q \in Request, NEW p \in Process, NEW h \in Handler,
         Accept(q, p, h), h.proc = p, UNCHANGED <<Processes, Store>>
  PROVE  TypeInv'
<1>1. serving' = serving /\ p \in serving /\ req' = [req EXCEPT ![q] = h]
  BY DEF Accept, Processes
<1>2. /\ req' \in [Request -> Handler]
      /\ \A r \in Request : Busy(r)' => req'[r].proc \in serving'
  BY <1>1, StepHandler DEF Typed
<1>3. QED
  BY <1>2 DEF Typed, TypeInv, Processes, Store

\* A handler that answers.
LEMMA RespondTyped ==
  ASSUME Typed, NEW q \in Request, Respond(q), UNCHANGED Processes
  PROVE  /\ req' \in [Request -> Handler]
         /\ \A r \in Request : Busy(r)' => req'[r].proc \in serving'
         /\ serving' \subseteq Process /\ env' \in [Process -> Envs]
<1>1. Resting \in Handler /\ Resting.pc = "idle"
  BY HandlerKinds DEF Resting
<1>2. req' = [req EXCEPT ![q] = Resting] /\ serving' = serving /\ env' = env
  BY DEF Respond, Processes
<1>3. QED
  BY <1>1, <1>2, StepHandler DEF Typed, TypeInv

\* One more word in the trail of a pattern.
LEMMA RecordType ==
  ASSUME moves \in [Ids -> Seq(AnyWord)], NEW x \in Ids, NEW w \in AnyWord, Record(x, w)
  PROVE  moves' \in [Ids -> Seq(AnyWord)]
<1>1. Append(moves[x], w) \in Seq(AnyWord)
  OBVIOUS
<1>2. QED
  BY <1>1 DEF Record

LEMMA WordType == ASSUME NEW enabled PROVE Word(enabled) \in AnyWord
BY DEF Word, AnyWord

LEMMA WithType ==
  ASSUME patterns \in [DOMAIN patterns -> BOOLEAN], DOMAIN patterns \subseteq Ids,
         NEW x \in Ids, NEW enabled \in BOOLEAN, patterns' = With(x, enabled)
  PROVE  patterns' \in [DOMAIN patterns' -> BOOLEAN] /\ DOMAIN patterns' \subseteq Ids
BY DEF With

LEMMA SavesTyped ==
  ASSUME Typed, NEW q \in Request,
         (\E p \in Process : BeginSave(q, p)) \/ FindRow(q) \/ Save(q)
  PROVE  TypeInv'
<1>1. ASSUME NEW p \in Process, BeginSave(q, p) PROVE TypeInv'
  <2>1. PICK b \in Payloads :
          Accept(q, p, [pc |-> "save", proc |-> p, body |-> b, seen |-> row, target |-> row])
    BY <1>1 DEF BeginSave
  <2>2. [pc |-> "save", proc |-> p, body |-> b, seen |-> row, target |-> row] \in Saving
    BY DEF Saving, Typed, TypeInv
  <2>3. QED
    BY <1>1, <2>1, <2>2, HandlerKinds, AcceptTyped DEF BeginSave
<1>2. CASE FindRow(q)
  <2> DEFINE h == [req[q] EXCEPT !.pc = "upsert",
                     !.target = IF req[q].seen = NoRow THEN row ELSE req[q].seen]
  <2>1. req[q] \in Saving /\ req[q].proc \in serving
    BY <1>2, HandlerFields DEF FindRow, Typed, TypeInv, Busy
  <2>2. h \in Saving /\ h.proc \in serving
    BY <2>1 DEF Saving, Typed, TypeInv
  <2>3. req' = [req EXCEPT ![q] = h] /\ serving' = serving
    BY <1>2 DEF FindRow, Processes, Typed, TypeInv
  <2>4. /\ req' \in [Request -> Handler]
        /\ \A r \in Request : Busy(r)' => req'[r].proc \in serving'
    BY <2>2, <2>3, HandlerKinds, StepHandler DEF Typed
  <2>5. QED
    BY <1>2, <2>4 DEF FindRow, Typed, TypeInv, Processes, Store
<1>3. CASE Save(q)
  <2>1. patterns' = patterns /\ moves' = moves
    BY <1>3 DEF Save, Store
  <2>2. row' \in Rows /\ trail' \in Seq(SUBSET Entry)
    BY <1>3, SaveType
  <2>3. Respond(q) /\ UNCHANGED Processes
    BY <1>3 DEF Save
  <2>4. QED
    BY <2>1, <2>2, <2>3, RespondTyped DEF Typed, TypeInv
<1>4. QED
  BY <1>1, <1>2, <1>3

LEMMA PatternsTyped ==
  ASSUME Typed, NEW q \in Request,
         \/ PatternGone(q) \/ PatternFound(q) \/ ApplyDelete(q) \/ ApplyToggle(q)
         \/ \E p \in Process : \/ \E x \in Customs : CreatePattern(q, p, x)
                               \/ \E x \in Ids : BeginToggle(q, p, x) \/ BeginDelete(q, p, x)
  PROVE  TypeInv'
<1> USE DEF Typed
<1>1. ASSUME NEW p \in Process, NEW x \in Customs, CreatePattern(q, p, x) PROVE TypeInv'
  <2>1. patterns' \in [DOMAIN patterns' -> BOOLEAN] /\ DOMAIN patterns' \subseteq Ids
    BY <1>1, WithType DEF CreatePattern, TypeInv, Ids
  <2>2. moves' \in [Ids -> Seq(AnyWord)]
    BY <1>1, RecordType DEF CreatePattern, TypeInv, Ids, AnyWord
  <2>3. QED
    BY <1>1, <2>1, <2>2 DEF CreatePattern, TypeInv, Processes, Busy
<1>2. ASSUME NEW p \in Process, NEW x \in Ids, BeginToggle(q, p, x) PROVE TypeInv'
  <2>1. PICK enabled \in BOOLEAN :
          Accept(q, p, [pc |-> "toggle", proc |-> p, id |-> x, was |-> patterns[x], to |-> enabled])
    BY <1>2 DEF BeginToggle
  <2>2. patterns[x] \in BOOLEAN
    BY <1>2 DEF BeginToggle, Known, TypeInv
  <2>3. [pc |-> "toggle", proc |-> p, id |-> x, was |-> patterns[x], to |-> enabled] \in Toggling
    BY <2>2 DEF Toggling
  <2>4. QED
    BY <1>2, <2>1, <2>3, HandlerKinds, AcceptTyped DEF BeginToggle
<1>3. ASSUME NEW p \in Process, NEW x \in Ids, BeginDelete(q, p, x) PROVE TypeInv'
  <2>1. [pc |-> "delete", proc |-> p, id |-> x] \in Deleting
    BY DEF Deleting
  <2>2. QED
    BY <1>3, <2>1, HandlerKinds, AcceptTyped DEF BeginDelete
<1>4. CASE PatternGone(q)
  <2>1. req[q].id \in Ids
    BY <1>4, HandlerFields DEF PatternGone, TypeInv, Toggling, Deleting
  <2>2. moves' \in [Ids -> Seq(AnyWord)]
    <3>1. CASE req[q].pc = "delete"
      BY <1>4, <2>1, <3>1, RecordType DEF PatternGone, TypeInv, AnyWord
    <3>2. CASE req[q].pc = "toggle" /\ req[q].was # req[q].to
      <4>1. Record(req[q].id, Word(req[q].to))
        BY <1>4, <3>2 DEF PatternGone
      <4>2. QED
        BY <2>1, <4>1, RecordType, WordType DEF TypeInv
    <3>3. CASE req[q].pc = "toggle" /\ req[q].was = req[q].to
      BY <1>4, <3>3 DEF PatternGone, TypeInv
    <3>4. QED
      BY <1>4, <3>1, <3>2, <3>3 DEF PatternGone
  <2>3. QED
    BY <1>4, <2>2, RespondTyped DEF PatternGone, TypeInv
<1>5. CASE PatternFound(q)
  <2> DEFINE h == [pc |-> "apply", proc |-> req[q].proc, id |-> req[q].id,
                   was |-> IF req[q].pc = "toggle" THEN req[q].was ELSE None,
                   to |-> IF req[q].pc = "toggle" THEN req[q].to ELSE None]
  <2>1. req[q].id \in Ids /\ req[q].proc \in Process /\ req[q].proc \in serving
    BY <1>5, HandlerFields DEF PatternFound, TypeInv, Toggling, Deleting, Busy
  <2>2. req[q].pc = "toggle" => req[q].was \in BOOLEAN /\ req[q].to \in BOOLEAN
    BY HandlerFields DEF TypeInv, Toggling
  <2>3. h \in Applying /\ h.proc \in serving
    BY <2>1, <2>2 DEF Applying
  <2>4. req' = [req EXCEPT ![q] = h] /\ serving' = serving
    BY <1>5 DEF PatternFound, Processes
  <2>5. /\ req' \in [Request -> Handler]
        /\ \A r \in Request : Busy(r)' => req'[r].proc \in serving'
    BY <2>3, <2>4, HandlerKinds, StepHandler
  <2>6. QED
    BY <1>5, <2>5 DEF PatternFound, TypeInv, Processes, Store
<1>6. CASE ApplyDelete(q)
  <2>1. req[q].id \in Ids
    BY <1>6, HandlerFields DEF ApplyDelete, TypeInv, Applying
  <2>2. moves' \in [Ids -> Seq(AnyWord)]
    BY <1>6, <2>1, RecordType DEF ApplyDelete, TypeInv, AnyWord
  <2>3. patterns' \in [DOMAIN patterns' -> BOOLEAN] /\ DOMAIN patterns' \subseteq Ids
    BY <1>6 DEF ApplyDelete, Without, TypeInv
  <2>4. QED
    BY <1>6, <2>2, <2>3, RespondTyped DEF ApplyDelete, TypeInv
<1>7. CASE ApplyToggle(q)
  <2>1. req[q].id \in Ids /\ req[q].to \in BOOLEAN
    BY <1>7, HandlerFields DEF ApplyToggle, TypeInv, Applying
  <2>2. /\ patterns' \in [DOMAIN patterns' -> BOOLEAN] /\ DOMAIN patterns' \subseteq Ids
        /\ moves' \in [Ids -> Seq(AnyWord)]
    <3>1. CASE Updated(q)
      BY <1>7, <2>1, <3>1, WithType, RecordType, WordType DEF ApplyToggle, TypeInv
    <3>2. CASE ~ Updated(q)
      BY <1>7, <3>2 DEF ApplyToggle, TypeInv
    <3>3. QED
      BY <3>1, <3>2
  <2>3. QED
    BY <1>7, <2>2, RespondTyped DEF ApplyToggle, TypeInv
<1>8. QED
  BY <1>1, <1>2, <1>3, <1>4, <1>5, <1>6, <1>7

LEMMA OthersTyped ==
  ASSUME Typed, SeedBuiltIns \/ (\E p \in Process : Restart(p)) \/ UNCHANGED vars
  PROVE  TypeInv'
<1> USE DEF Typed
<1>1. CASE SeedBuiltIns
  <2>1. patterns' \in [DOMAIN patterns' -> BOOLEAN] /\ DOMAIN patterns' \subseteq Ids
    BY <1>1 DEF SeedBuiltIns, Seeded, Known, TypeInv, Ids
  <2>2. QED
    BY <1>1, <2>1 DEF SeedBuiltIns, TypeInv, Processes, Busy
<1>2. ASSUME NEW p \in Process, Restart(p) PROVE TypeInv'
  <2>1. env' \in [Process -> Envs] /\ serving' = serving
    BY <1>2 DEF Restart, TypeInv
  <2>2. /\ req' \in [Request -> Handler]
        /\ \A r \in Request : Busy(r)' => req'[r].proc \in serving'
    BY <1>2, <2>1, HandlerKinds DEF Restart, TypeInv, Busy, Resting
  <2>3. QED
    BY <1>2, <2>1, <2>2 DEF Restart, TypeInv, Store
<1>3. CASE UNCHANGED vars
  BY <1>3 DEF vars, TypeInv, Busy
<1>4. QED
  BY <1>1, <1>2, <1>3
--------------------------------------------------------------------------------
(* The steps by what they do to the saves under way: those of a save, and all the
   others, which leave the row and every saving handler alone. *)

SaveStep(q) == (\E p \in Process : BeginSave(q, p)) \/ FindRow(q) \/ Save(q)

OtherStep ==
  \/ \E q \in Request :
       \/ PatternGone(q) \/ PatternFound(q) \/ ApplyDelete(q) \/ ApplyToggle(q)
       \/ \E p \in Process : \/ \E x \in Customs : CreatePattern(q, p, x)
                             \/ \E x \in Ids : BeginToggle(q, p, x) \/ BeginDelete(q, p, x)
  \/ SeedBuiltIns \/ (\E p \in Process : Restart(p)) \/ UNCHANGED vars

LEMMA StepKinds == [Next]_vars => OtherStep \/ \E q \in Request : SaveStep(q)
BY DEF Next, OtherStep, SaveStep, Ids

SavesAlone ==
  \A r \in Request : req'[r].pc \in {"save", "upsert"} => req'[r] = req[r]

LEMMA OtherStepFrame ==
  ASSUME Typed, OtherStep
  PROVE  row' = row /\ split' = split /\ serving' = serving /\ SavesAlone
<1>1. row' = row /\ split' = split /\ serving' = serving
  BY DEF OtherStep, PatternGone, PatternFound, ApplyDelete, ApplyToggle, CreatePattern, BeginToggle,
         BeginDelete, SeedBuiltIns, Restart, vars, Processes, Store
<1>2. req \in [Request -> Handler]
  BY DEF Typed, TypeInv
<1>3. ASSUME NEW q \in Request, PatternGone(q) \/ ApplyDelete(q) \/ ApplyToggle(q) PROVE SavesAlone
  BY <1>2, <1>3 DEF PatternGone, ApplyDelete, ApplyToggle, Respond, Resting, SavesAlone
<1>4. ASSUME NEW q \in Request, PatternFound(q) PROVE SavesAlone
  BY <1>2, <1>4 DEF PatternFound, SavesAlone
<1>5. ASSUME NEW q \in Request, NEW p \in Process, NEW x, CreatePattern(q, p, x) PROVE SavesAlone
  BY <1>5 DEF CreatePattern, SavesAlone
<1>6. ASSUME NEW q \in Request, NEW p \in Process, NEW x, BeginToggle(q, p, x) PROVE SavesAlone
  BY <1>2, <1>6 DEF BeginToggle, Accept, SavesAlone
<1>7. ASSUME NEW q \in Request, NEW p \in Process, NEW x, BeginDelete(q, p, x) PROVE SavesAlone
  BY <1>2, <1>7 DEF BeginDelete, Accept, SavesAlone
<1>8. ASSUME SeedBuiltIns \/ UNCHANGED vars PROVE SavesAlone
  BY <1>8 DEF SeedBuiltIns, vars, SavesAlone
<1>9. ASSUME NEW p \in Process, Restart(p) PROVE SavesAlone
  BY <1>9 DEF Restart, Resting, SavesAlone
<1>10. QED
  BY <1>1, <1>3, <1>4, <1>5, <1>6, <1>7, <1>8, <1>9 DEF OtherStep

\* What each statement of a save does to its own handler and to the others.
LEMMA BeginSaveFrame ==
  ASSUME Typed, NEW q \in Request, NEW p \in Process, BeginSave(q, p)
  PROVE  /\ row' = row /\ split' = split /\ serving' = serving
         /\ \A r \in Request \ {q} : req'[r] = req[r]
         /\ \E b \in Payloads :
              /\ Accepted(b, row, env[p])
              /\ req'[q] = [pc |-> "save", proc |-> p, body |-> b, seen |-> row, target |-> row]
BY DEF BeginSave, Accept, Processes, Store, Typed, TypeInv

LEMMA FindRowFrame ==
  ASSUME Typed, NEW q \in Request, FindRow(q)
  PROVE  /\ row' = row /\ split' = split /\ serving' = serving
         /\ \A r \in Request \ {q} : req'[r] = req[r]
         /\ req[q] \in Saving /\ req'[q] \in Saving /\ req'[q].pc = "upsert"
         /\ req'[q].proc = req[q].proc /\ req'[q].body = req[q].body
         /\ req'[q].seen = req[q].seen
         /\ req'[q].target = IF req[q].seen = NoRow THEN row ELSE req[q].seen
<1>1. req[q] \in Saving /\ row \in Rows /\ req \in [Request -> Handler]
  BY HandlerFields DEF FindRow, Typed, TypeInv
<1>2. req'[q] = [req[q] EXCEPT !.pc = "upsert",
                   !.target = IF req[q].seen = NoRow THEN row ELSE req[q].seen]
  BY <1>1 DEF FindRow
<1>3. QED
  BY <1>1, <1>2 DEF FindRow, Processes, Store, Saving

LEMMA SaveFrame ==
  ASSUME Typed, NEW q \in Request, Save(q)
  PROVE  /\ serving' = serving /\ req[q] \in Saving /\ req[q].pc = "upsert"
         /\ \A r \in Request \ {q} : req'[r] = req[r]
         /\ req'[q] = Resting
         /\ \/ row' = row /\ split' = split
            \/ /\ req[q].target = NoRow => row = NoRow
               /\ row' = IF req[q].target = NoRow THEN req[q].body
                         ELSE Merged(req[q].target, req[q].body)
               /\ split' = (split \/ (req[q].body["rag_min_chunk_size"] = None)
                                       # (req[q].body["rag_chunk_size"] = None))
<1>1. req[q] \in Saving /\ req \in [Request -> Handler]
  BY HandlerFields DEF Save, Typed, TypeInv
<1>2. serving' = serving /\ req' = [req EXCEPT ![q] = Resting] /\ req[q].pc = "upsert"
  BY DEF Save, Processes, Respond
<1>3. QED
  BY <1>1, <1>2 DEF Save, Store
--------------------------------------------------------------------------------
(* Type correctness. *)

LEMMA NextTyped == Typed /\ [Next]_vars => Typed'
<1> SUFFICES ASSUME Typed, [Next]_vars PROVE Typed'
  OBVIOUS
<1>1. CASE OtherStep
  <2>1. TypeInv'
    BY <1>1, PatternsTyped, OthersTyped DEF OtherStep
  <2>2. RowStays'
    BY <1>1, OtherStepFrame DEF Typed, RowStays, SavesAlone
  <2>3. QED
    BY <2>1, <2>2 DEF Typed
<1>2. ASSUME NEW q \in Request, SaveStep(q) PROVE Typed'
  <2>1. TypeInv'
    BY <1>2, SavesTyped DEF SaveStep
  <2>2. ASSUME NEW p \in Process, BeginSave(q, p) PROVE RowStays'
    <3>1. PICK b \in Payloads :
            req'[q] = [pc |-> "save", proc |-> p, body |-> b, seen |-> row, target |-> row]
      BY <2>2, BeginSaveFrame
    <3>2. row' = row /\ \A r \in Request \ {q} : req'[r] = req[r]
      BY <2>2, BeginSaveFrame
    <3>3. QED
      BY <3>1, <3>2 DEF Typed, RowStays
  <2>3. ASSUME FindRow(q) PROVE RowStays'
    <3>1. req[q].pc = "save"
      BY <2>3 DEF FindRow
    <3>2. /\ row' = row /\ \A r \in Request \ {q} : req'[r] = req[r]
          /\ req'[q].seen = req[q].seen
          /\ req'[q].target = IF req[q].seen = NoRow THEN row ELSE req[q].seen
      BY <2>3, FindRowFrame
    <3>3. QED
      BY <3>1, <3>2 DEF Typed, RowStays
  <2>4. ASSUME Save(q) PROVE RowStays'
    <3>1. row # NoRow => row' # NoRow
      BY <2>4, SaveType
    <3>2. req'[q] = Resting /\ \A r \in Request \ {q} : req'[r] = req[r]
      BY <2>4, SaveFrame
    <3>3. QED
      BY <3>1, <3>2 DEF Typed, RowStays, Resting
  <2>5. QED
    BY <1>2, <2>1, <2>2, <2>3, <2>4 DEF SaveStep, Typed
<1>3. QED
  BY <1>1, <1>2, StepKinds

LEMMA TypedGivesTypeOK == Typed => TypeOK
<1> SUFFICES ASSUME Typed PROVE TypeOK
  OBVIOUS
<1>1. row # NoRow => DOMAIN row = Column
  BY DEF Typed, TypeInv, Rows, Override
<1>2. \A i \in DOMAIN trail : \A x \in trail[i] : x.field \in Audited /\ x.old # x.new
  <2>1. \A i \in DOMAIN trail : trail[i] \in SUBSET Entry
    BY DEF Typed, TypeInv
  <2>2. \A x \in Entry : x.field \in Audited /\ x.old # x.new
    BY DEF Entry
  <2>3. QED
    BY <2>1, <2>2
<1>3. \A x \in DOMAIN moves : moves[x] \in Seq({"created", "enabled", "disabled", "deleted"})
  BY DEF Typed, TypeInv, AnyWord
<1>4. \A q \in Request : req[q].pc \in Phase /\ (req[q].pc # "idle" => req[q].proc \in serving)
  BY HandlerFields DEF Typed, TypeInv, Busy
<1>5. QED
  BY <1>1, <1>2, <1>3, <1>4 DEF TypeOK, Typed, TypeInv, Ids

\* Whatever the environments, payloads and ids: the state keeps its types, the trail
\* names audited columns that changed, and every busy handler is on a process that runs.
THEOREM TypeCorrect == Spec => []TypeOK
<1>1. Init => Typed
  BY InitTyped
<1>2. Typed /\ [Next]_vars => Typed'
  BY NextTyped
<1>3. Typed => TypeOK
  BY TypedGivesTypeOK
<1>4. QED
  BY <1>1, <1>2, <1>3, PTL DEF Spec
--------------------------------------------------------------------------------
(* The configurations in effect. *)

Within(r) == \A c \in Column : Overrides(r)[c] # None => InBounds(c, Overrides(r)[c])

\* The stored overrides, and every payload under way, keep the schema's bounds.
ConfigInv ==
  /\ Typed
  /\ Within(row)
  /\ \A q \in Request : req[q].pc \in {"save", "upsert"} => WellFormed(req[q].body)

LEMMA WithinPayload == ASSUME NEW b \in Payloads, WellFormed(b) PROVE Within(b)
<1>1. Overrides(b) = [c \in Column |-> b[c]]
  BY PayloadIsOverride, NoRowIsNoOverride DEF Overrides
<1>2. QED
  BY <1>1 DEF Within, WellFormed

LEMMA WithinMerged ==
  ASSUME row \in Override, Within(row), NEW b \in Payloads, WellFormed(b), NEW loaded
  PROVE  Within(Merged(loaded, b))
<1>1. Merged(loaded, b) \in Override
  BY MergedType
<1>2. \A c \in Column : Overrides(row)[c] = row[c]
  BY NoRowIsNoOverride DEF Overrides
<1>3. \A c \in Column : Overrides(Merged(loaded, b))[c] \in {b[c], row[c]}
  BY <1>1, NoRowIsNoOverride DEF Overrides, Merged
<1>4. QED
  BY <1>2, <1>3 DEF Within, WellFormed

LEMMA InitConfig == Init => ConfigInv
<1> SUFFICES ASSUME Init PROVE ConfigInv
  OBVIOUS
<1>1. Within(row)
  BY DEF Init, Within, Overrides
<1>2. \A q \in Request : req[q].pc = "idle"
  BY DEF Init, Resting
<1>3. QED
  BY <1>1, <1>2, InitTyped DEF ConfigInv

LEMMA NextConfig == ConfigInv /\ [Next]_vars => ConfigInv'
<1> SUFFICES ASSUME ConfigInv, [Next]_vars PROVE ConfigInv'
  OBVIOUS
<1>1. Typed /\ Typed'
  BY NextTyped DEF ConfigInv
<1> DEFINE Bodies == \A q \in Request : req[q].pc \in {"save", "upsert"} => WellFormed(req[q].body)
<1>2. ASSUME OtherStep PROVE Within(row)' /\ Bodies'
  <2>1. row' = row /\ SavesAlone
    BY <1>1, <1>2, OtherStepFrame
  <2>2. Within(row)'
    BY <2>1 DEF ConfigInv, Within, Overrides
  <2>3. QED
    BY <2>1, <2>2 DEF ConfigInv, SavesAlone
<1>3. ASSUME NEW q \in Request, SaveStep(q) PROVE Within(row)' /\ Bodies'
  <2>1. ASSUME NEW p \in Process, BeginSave(q, p) PROVE Within(row)' /\ Bodies'
    <3>1. PICK b \in Payloads :
            /\ Accepted(b, row, env[p])
            /\ req'[q] = [pc |-> "save", proc |-> p, body |-> b, seen |-> row, target |-> row]
      BY <1>1, <2>1, BeginSaveFrame
    <3>2. row' = row /\ \A r \in Request \ {q} : req'[r] = req[r]
      BY <1>1, <2>1, BeginSaveFrame
    <3>3. WellFormed(b)
      BY <3>1 DEF Accepted
    <3>4. Within(row)'
      BY <3>2 DEF ConfigInv, Within, Overrides
    <3>5. QED
      BY <3>1, <3>2, <3>3, <3>4 DEF ConfigInv
  <2>2. ASSUME FindRow(q) PROVE Within(row)' /\ Bodies'
    <3>1. row' = row /\ req'[q].body = req[q].body /\ \A r \in Request \ {q} : req'[r] = req[r]
      BY <1>1, <2>2, FindRowFrame
    <3>2. req[q].pc = "save"
      BY <2>2 DEF FindRow
    <3>3. Within(row)'
      BY <3>1 DEF ConfigInv, Within, Overrides
    <3>4. QED
      BY <3>1, <3>2, <3>3 DEF ConfigInv
  <2>3. ASSUME Save(q) PROVE Within(row)' /\ Bodies'
    <3>1. /\ req[q] \in Saving /\ req[q].pc = "upsert" /\ req'[q] = Resting
          /\ \A r \in Request \ {q} : req'[r] = req[r]
          /\ \/ row' = row
             \/ row' = IF req[q].target = NoRow THEN req[q].body
                       ELSE Merged(req[q].target, req[q].body)
      BY <1>1, <2>3, SaveFrame
    <3>2. req[q].body \in Payloads /\ WellFormed(req[q].body)
      BY <3>1 DEF Saving, ConfigInv
    <3>3. req[q].target # NoRow => row \in Override
      BY <1>1, <3>1 DEF Typed, TypeInv, RowStays, Rows
    <3>4. row' = row => Within(row)'
      BY DEF ConfigInv, Within, Overrides
    <3>5. Within(req[q].body)
      BY <3>2, WithinPayload
    <3>6. req[q].target # NoRow => Within(Merged(req[q].target, req[q].body))
      BY <3>2, <3>3, WithinMerged DEF ConfigInv
    <3>7. Within(row')
      BY <3>1, <3>4, <3>5, <3>6
    <3>8. QED
      BY <3>1, <3>7 DEF ConfigInv, Resting
  <2>4. QED
    BY <1>3, <2>1, <2>2, <2>3 DEF SaveStep
<1>4. QED
  BY <1>1, <1>2, <1>3, StepKinds DEF ConfigInv

\* An override in bounds, and else the environment's value in bounds, is in bounds.
LEMMA ResolvedInBounds ==
  ASSUME NEW r, Within(r), NEW e \in Envs, NEW c \in Column
  PROVE  InStartupBounds(c, Resolved(r, e, c))
<1>1. InStartupBounds(c, e[c])
  BY EnvAssumption DEF StartsWith
<1>2. Overrides(r)[c] # None => InStartupBounds(c, Overrides(r)[c])
  BY DEF Within, InBounds
<1>3. QED
  BY <1>1, <1>2 DEF Resolved

LEMMA ConfigGivesUsable == ConfigInv => ConfigsUsable
<1> SUFFICES ASSUME ConfigInv PROVE ConfigsUsable
  OBVIOUS
<1>1. Counted \subseteq Column /\ RagConfigFields \subseteq Column /\ EvalConfigFields \subseteq Column
  BY DEF Column, Audited, Counted, RateLimitFields, RagConfigFields
<1>2. \A p \in serving : \A c \in Column : InStartupBounds(c, Resolved(row, env[p], c))
  BY ResolvedInBounds DEF ConfigInv, Typed, TypeInv
<1>3. \A p \in serving : \A c \in Counted : Resolved(row, env[p], c) >= 1
  BY <1>1, <1>2 DEF InStartupBounds
<1>4. \A p \in serving : LimitsUsable(p)
  BY <1>3 DEF LimitsUsable, RateLimitConfig, Counted
<1>5. \A p \in serving : CeilingsUsable(p)
  BY <1>3 DEF CeilingsUsable, RagConfig
<1>6. \A p \in serving : OverlapUsable(p)
  <2>1. "rag_chunk_overlap_ratio" \in RagConfigFields
    BY DEF RagConfigFields
  <2>2. \A p \in serving : RagConfig(row, env[p])["rag_chunk_overlap_ratio"] \in 0 .. 9
    BY <1>1, <1>2, <2>1 DEF InStartupBounds, RagConfig
  <2>3. QED
    BY <2>2 DEF OverlapUsable
<1>7. \A p \in serving : TimeoutUsable(p)
  BY <1>1, <1>2 DEF InStartupBounds, EvalConfig, EvalConfigFields, TimeoutUsable
<1>8. QED
  BY <1>4, <1>5, <1>6, <1>7 DEF ConfigsUsable

\* For any payloads, processes and interleaving of saves: no process ever resolves a
\* limit, ceiling, chunk size or timeout that the code cannot work with.
THEOREM ConfigsCorrect == Spec => []ConfigsUsable
<1>1. Init => ConfigInv
  BY InitConfig
<1>2. ConfigInv /\ [Next]_vars => ConfigInv'
  BY NextConfig
<1>3. ConfigInv => ConfigsUsable
  BY ConfigGivesUsable
<1>4. QED
  BY <1>1, <1>2, <1>3, PTL DEF Spec
--------------------------------------------------------------------------------
(* The order of the chunk sizes, when one process serves. *)

PairSet(r) == r["rag_min_chunk_size"] # None /\ r["rag_chunk_size"] # None
PairUnset(r) == r["rag_min_chunk_size"] = None /\ r["rag_chunk_size"] = None
InOrder(r) == PairSet(r) => r["rag_min_chunk_size"] < r["rag_chunk_size"]

\* One event loop runs one handler.
LoopsApart ==
  \A q, r \in Request : Busy(q) /\ Busy(r) /\ req[q].proc = req[r].proc => q = r

\* What a save knows of the row: with one process, no other handler can change it
\* meanwhile.  And a payload that gives both sizes gives them in order.
SaveKnows ==
  \A q \in Request :
    /\ req[q].pc \in {"save", "upsert"} => InOrder(req[q].body)
    /\ req[q].pc = "save" => req[q].seen = row
    /\ req[q].pc = "upsert" => req[q].target = row

RowPaired == ~ split /\ row # NoRow => (PairSet(row) \/ PairUnset(row)) /\ InOrder(row)

PairInv ==
  /\ Typed
  /\ LoopsApart
  /\ Cardinality(serving) = 1 => SaveKnows /\ RowPaired

LEMMA AcceptApart ==
  ASSUME Typed, LoopsApart, NEW q \in Request, NEW p \in Process, NEW h, Accept(q, p, h), h.proc = p
  PROVE  LoopsApart'
BY DEF Accept, LoopFree, LoopsApart, Busy, Typed, TypeInv

\* A step of one handler that stays on its process or goes idle keeps the loops apart.
LEMMA StepApart ==
  ASSUME Typed, LoopsApart, NEW q \in Request,
         \A r \in Request \ {q} : req'[r] = req[r],
         Busy(q)' => Busy(q) /\ req'[q].proc = req[q].proc
  PROVE  LoopsApart'
BY DEF LoopsApart, Busy

LEMMA NextApart == Typed /\ LoopsApart /\ [Next]_vars => LoopsApart'
<1> SUFFICES ASSUME Typed, LoopsApart, [Next]_vars PROVE LoopsApart'
  OBVIOUS
<1> USE DEF Typed, TypeInv
<1>1. ASSUME NEW q \in Request, NEW p \in Process, BeginSave(q, p) PROVE LoopsApart'
  <2>1. PICK b \in Payloads :
          Accept(q, p, [pc |-> "save", proc |-> p, body |-> b, seen |-> row, target |-> row])
    BY <1>1 DEF BeginSave
  <2>2. QED
    BY <2>1, AcceptApart
<1>2. ASSUME NEW q \in Request, FindRow(q) PROVE LoopsApart'
  <2>1. /\ \A r \in Request \ {q} : req'[r] = req[r]
        /\ req'[q].proc = req[q].proc
    BY <1>2, FindRowFrame
  <2>2. Busy(q)
    BY <1>2 DEF FindRow, Busy
  <2>3. QED
    BY <2>1, <2>2, StepApart
<1>3. ASSUME NEW q \in Request,
             Save(q) \/ PatternGone(q) \/ ApplyDelete(q) \/ ApplyToggle(q)
      PROVE LoopsApart'
  <2>1. req' = [req EXCEPT ![q] = Resting]
    BY <1>3 DEF Save, PatternGone, ApplyDelete, ApplyToggle, Respond
  <2>2. QED
    BY <2>1, StepApart DEF Busy, Resting
<1>4. ASSUME NEW q \in Request, PatternFound(q) PROVE LoopsApart'
  <2>1. /\ \A r \in Request \ {q} : req'[r] = req[r]
        /\ req'[q].proc = req[q].proc /\ Busy(q)
    BY <1>4 DEF PatternFound, Busy
  <2>2. QED
    BY <2>1, StepApart
<1>5. ASSUME NEW q \in Request, NEW p \in Process, NEW x \in Ids, BeginToggle(q, p, x)
      PROVE LoopsApart'
  <2>1. PICK enabled \in BOOLEAN :
          Accept(q, p, [pc |-> "toggle", proc |-> p, id |-> x, was |-> patterns[x], to |-> enabled])
    BY <1>5 DEF BeginToggle
  <2>2. QED
    BY <2>1, AcceptApart
<1>6. ASSUME NEW q \in Request, NEW p \in Process, NEW x \in Ids, BeginDelete(q, p, x)
      PROVE LoopsApart'
  BY <1>6, AcceptApart DEF BeginDelete
<1>7. ASSUME \/ \E q \in Request, p \in Process, x \in Customs : CreatePattern(q, p, x)
             \/ SeedBuiltIns \/ UNCHANGED vars
      PROVE LoopsApart'
  BY <1>7 DEF CreatePattern, SeedBuiltIns, vars, LoopsApart, Busy
<1>8. ASSUME NEW p \in Process, Restart(p) PROVE LoopsApart'
  <2>1. \A r \in Request : Busy(r)' => req'[r] = req[r] /\ Busy(r)
    BY <1>8 DEF Restart, Busy, Resting
  <2>2. QED
    BY <2>1 DEF LoopsApart
<1>9. QED
  BY <1>1, <1>2, <1>3, <1>4, <1>5, <1>6, <1>7, <1>8 DEF Next, Ids

\* With one process serving, a busy handler is the only one.
LEMMA OnlyHandler ==
  ASSUME Typed, LoopsApart, Cardinality(serving) = 1, NEW q \in Request, Busy(q),
         NEW r \in Request \ {q}
  PROVE  req[r].pc = "idle"
<1>1. IsFiniteSet(serving)
  BY ProcessAssumption, FS_Subset DEF Typed, TypeInv
<1>2. PICK s : serving = {s}
  BY <1>1, FS_Singleton
<1>3. QED
  BY <1>2 DEF Typed, TypeInv, LoopsApart, Busy

\* A payload that gives both sizes is accepted only if it gives them in order.
LEMMA AcceptedInOrder ==
  ASSUME NEW b, NEW r, NEW e, Accepted(b, r, e)
  PROVE  InOrder(b)
<1> DEFINE pair == [c \in RagConfigFields |-> IF b[c] # None THEN b[c] ELSE RagConfig(r, e)[c]]
<1>1. pair["rag_min_chunk_size"] < pair["rag_chunk_size"]
  BY DEF Accepted, ChunkBoundsAccepted
<1>2. "rag_min_chunk_size" \in RagConfigFields /\ "rag_chunk_size" \in RagConfigFields
  BY DEF RagConfigFields
<1>3. SUFFICES ASSUME PairSet(b) PROVE b["rag_min_chunk_size"] < b["rag_chunk_size"]
  BY DEF InOrder
<1>4. pair["rag_min_chunk_size"] = b["rag_min_chunk_size"] /\ pair["rag_chunk_size"] = b["rag_chunk_size"]
  BY <1>2, <1>3 DEF PairSet
<1>5. QED
  BY <1>1, <1>4

\* An UPDATE over the row as it is leaves the payload.
LEMMA MergedOverItself ==
  ASSUME row \in Override, NEW b \in Payloads
  PROVE  Merged(row, b) = b
<1>1. \A c \in Column : Overrides(row)[c] = row[c]
  BY NoRowIsNoOverride DEF Overrides
<1>2. Merged(row, b) = [c \in Column |-> b[c]]
  BY <1>1 DEF Merged
<1>3. QED
  BY <1>2, PayloadAssumption

LEMMA InitPair == Init => PairInv
<1> SUFFICES ASSUME Init PROVE PairInv
  OBVIOUS
<1>1. \A q \in Request : req[q].pc = "idle"
  BY DEF Init, Resting
<1>2. RowPaired
  BY DEF Init, RowPaired
<1>3. QED
  BY <1>1, <1>2, InitTyped DEF PairInv, LoopsApart, SaveKnows, Busy

LEMMA NextPair == PairInv /\ [Next]_vars => PairInv'
<1> SUFFICES ASSUME PairInv, [Next]_vars PROVE PairInv'
  OBVIOUS
<1>1. Typed /\ LoopsApart /\ Typed' /\ LoopsApart'
  BY NextTyped, NextApart DEF PairInv
<1>2. ASSUME OtherStep, Cardinality(serving') = 1 PROVE SaveKnows' /\ RowPaired'
  <2>1. row' = row /\ split' = split /\ serving' = serving /\ SavesAlone
    BY <1>1, <1>2, OtherStepFrame
  <2>2. SaveKnows /\ RowPaired
    BY <1>2, <2>1 DEF PairInv
  <2>3. SaveKnows'
    BY <2>1, <2>2 DEF SaveKnows, SavesAlone
  <2>4. RowPaired'
    BY <2>1, <2>2 DEF RowPaired
  <2>5. QED
    BY <2>3, <2>4
<1>3. ASSUME NEW q \in Request, SaveStep(q), Cardinality(serving') = 1 PROVE SaveKnows' /\ RowPaired'
  <2>1. ASSUME NEW p \in Process, BeginSave(q, p) PROVE SaveKnows' /\ RowPaired'
    <3>1. PICK b \in Payloads :
            /\ Accepted(b, row, env[p])
            /\ req'[q] = [pc |-> "save", proc |-> p, body |-> b, seen |-> row, target |-> row]
      BY <1>1, <2>1, BeginSaveFrame
    <3>2. /\ row' = row /\ split' = split /\ serving' = serving
          /\ \A r \in Request \ {q} : req'[r] = req[r]
      BY <1>1, <2>1, BeginSaveFrame
    <3>3. SaveKnows /\ RowPaired
      BY <1>3, <3>2 DEF PairInv
    <3>4. InOrder(b)
      BY <3>1, AcceptedInOrder
    <3>5. SaveKnows'
      BY <3>1, <3>2, <3>3, <3>4 DEF SaveKnows
    <3>6. RowPaired'
      BY <3>2, <3>3 DEF RowPaired
    <3>7. QED
      BY <3>5, <3>6
  <2>2. ASSUME FindRow(q) PROVE SaveKnows' /\ RowPaired'
    <3>1. /\ row' = row /\ split' = split /\ serving' = serving
          /\ \A r \in Request \ {q} : req'[r] = req[r]
          /\ req'[q].pc = "upsert" /\ req'[q].body = req[q].body
          /\ req'[q].target = IF req[q].seen = NoRow THEN row ELSE req[q].seen
      BY <1>1, <2>2, FindRowFrame
    <3>2. SaveKnows /\ RowPaired
      BY <1>3, <3>1 DEF PairInv
    <3>3. req[q].pc = "save"
      BY <2>2 DEF FindRow
    <3>4. SaveKnows'
      BY <3>1, <3>2, <3>3 DEF SaveKnows
    <3>5. RowPaired'
      BY <3>1, <3>2 DEF RowPaired
    <3>6. QED
      BY <3>4, <3>5
  <2>3. ASSUME Save(q) PROVE SaveKnows' /\ RowPaired'
    <3> DEFINE b == req[q].body
    <3>1. /\ serving' = serving /\ req[q] \in Saving /\ req[q].pc = "upsert"
          /\ \A r \in Request \ {q} : req'[r] = req[r]
          /\ req'[q] = Resting
      BY <1>1, <2>3, SaveFrame
    <3>2. \/ row' = row /\ split' = split
          \/ /\ row' = IF req[q].target = NoRow THEN b ELSE Merged(req[q].target, b)
             /\ split' = (split \/ (b["rag_min_chunk_size"] = None) # (b["rag_chunk_size"] = None))
      BY <1>1, <2>3, SaveFrame
    <3>3. SaveKnows /\ RowPaired
      BY <1>3, <3>1 DEF PairInv
    <3>4. \A r \in Request \ {q} : req[r].pc = "idle"
      BY <1>1, <1>3, <3>1, OnlyHandler DEF Busy
    <3>5. SaveKnows'
      BY <3>1, <3>4 DEF SaveKnows, Resting
    <3>6. b \in Payloads /\ InOrder(b) /\ req[q].target = row
      BY <3>1, <3>3 DEF SaveKnows, Saving
    <3>7. row # NoRow => Merged(row, b) = b
      BY <1>1, <3>6, MergedOverItself DEF Typed, TypeInv, Rows
    <3>8. CASE row' = row /\ split' = split
      BY <3>3, <3>5, <3>8 DEF RowPaired
    <3>9. CASE /\ row' = b
               /\ split' = (split \/ (b["rag_min_chunk_size"] = None) # (b["rag_chunk_size"] = None))
      <4>1. ~ split' => PairSet(b) \/ PairUnset(b)
        BY <3>9 DEF PairSet, PairUnset
      <4>2. QED
        BY <3>5, <3>6, <3>9, <4>1 DEF RowPaired
    <3>10. QED
      BY <3>2, <3>6, <3>7, <3>8, <3>9
  <2>4. QED
    BY <1>3, <2>1, <2>2, <2>3 DEF SaveStep
<1>4. QED
  BY <1>1, <1>2, <1>3, StepKinds DEF PairInv

LEMMA PairGivesBounds == PairInv => BoundsFromPairs
<1> SUFFICES ASSUME PairInv, Cardinality(serving) = 1, ~ split, NEW p \in serving
             PROVE  Ordered(p)
  BY DEF BoundsFromPairs
<1>1. env[p] \in Envs /\ row \in Rows
  BY DEF PairInv, Typed, TypeInv
<1>2. env[p]["rag_min_chunk_size"] < env[p]["rag_chunk_size"]
  BY <1>1, EnvAssumption DEF StartsWith
<1>3. {"rag_min_chunk_size", "rag_chunk_size"} \subseteq RagConfigFields \cap Column
  BY DEF RagConfigFields, Column, Audited
<1>4. /\ RagConfig(row, env[p])["rag_min_chunk_size"] = Resolved(row, env[p], "rag_min_chunk_size")
      /\ RagConfig(row, env[p])["rag_chunk_size"] = Resolved(row, env[p], "rag_chunk_size")
  BY <1>3 DEF RagConfig
<1>5. Resolved(row, env[p], "rag_min_chunk_size") < Resolved(row, env[p], "rag_chunk_size")
  <2>1. CASE row = NoRow \/ PairUnset(row)
    <3>1. /\ Overrides(row)["rag_min_chunk_size"] = None
          /\ Overrides(row)["rag_chunk_size"] = None
      BY <1>3, <2>1 DEF Overrides, PairUnset
    <3>2. /\ Resolved(row, env[p], "rag_min_chunk_size") = env[p]["rag_min_chunk_size"]
          /\ Resolved(row, env[p], "rag_chunk_size") = env[p]["rag_chunk_size"]
      BY <3>1 DEF Resolved
    <3>3. QED
      BY <1>2, <3>2
  <2>2. CASE row # NoRow /\ PairSet(row)
    <3>1. /\ Overrides(row)["rag_min_chunk_size"] = row["rag_min_chunk_size"]
          /\ Overrides(row)["rag_chunk_size"] = row["rag_chunk_size"]
      BY <1>3, <2>2 DEF Overrides
    <3>2. /\ Resolved(row, env[p], "rag_min_chunk_size") = row["rag_min_chunk_size"]
          /\ Resolved(row, env[p], "rag_chunk_size") = row["rag_chunk_size"]
      BY <2>2, <3>1 DEF Resolved, PairSet
    <3>3. row["rag_min_chunk_size"] < row["rag_chunk_size"]
      BY <2>2 DEF PairInv, RowPaired, InOrder
    <3>4. QED
      BY <3>2, <3>3
  <2>3. QED
    BY <2>1, <2>2 DEF PairInv, RowPaired
<1>6. QED
  BY <1>4, <1>5 DEF Ordered

\* For any environments, payloads and requests: one process whose admins set the two
\* chunk sizes together, or neither, never serves an empty chunk-size range.
THEOREM BoundsCorrect == Spec => []BoundsFromPairs
<1>1. Init => PairInv
  BY InitPair
<1>2. PairInv /\ [Next]_vars => PairInv'
  BY NextPair
<1>3. PairInv => BoundsFromPairs
  BY PairGivesBounds
<1>4. QED
  BY <1>1, <1>2, <1>3, PTL DEF Spec
--------------------------------------------------------------------------------
(* The trail replays to the row. *)

\* The saves that changed column c, and that one of them is the last.
At(c) == {j \in DOMAIN trail : \E x \in trail[j] : x.field = c}
HasLast(c) == At(c) # {} => \E j \in At(c) : \A k \in At(c) : k <= j

ReplayInv ==
  /\ Typed
  /\ \A c \in Audited : HasLast(c)
  /\ TrailMatchesRow

\* The entries are one for each of the columns that change, and no other.
Covers(entries, fields, old, new) ==
  /\ \A x \in entries : old[x.field] # new[x.field] /\ x.new = new[x.field]
  /\ \A c \in fields : old[c] # new[c] => \E x \in entries : x.field = c

LEMMA ChangesCover ==
  ASSUME NEW action \in Action, NEW fields, NEW old, NEW new
  PROVE  Covers(Changes(action, fields, old, new), fields, old, new)
<1> DEFINE entry(c) == [action |-> action, field |-> c, old |-> old[c], new |-> new[c]]
<1>1. \A c \in fields : old[c] # new[c] => entry(c) \in Changes(action, fields, old, new)
  BY DEF Changes
<1>2. \A x \in Changes(action, fields, old, new) :
        \E c \in fields : old[c] # new[c] /\ x = entry(c)
  BY DEF Changes
<1>3. \A c : entry(c).field = c /\ entry(c).new = new[c]
  OBVIOUS
<1> HIDE DEF entry
<1>4. QED
  BY <1>1, <1>2, <1>3 DEF Covers

LEMMA EntriesCover ==
  ASSUME NEW old, NEW new
  PROVE  Covers(AuditEntries(old, new), Audited, old, new)
<1>1. Covers(RetentionChanges(old, new), RetentionFields, old, new)
  BY ChangesCover DEF Action, RetentionChanges
<1>2. Covers(GuardrailChanges(old, new), GuardrailFields, old, new)
  BY ChangesCover DEF Action, GuardrailChanges
<1>3. Covers(TracingChanges(old, new), TracingFields, old, new)
  BY ChangesCover DEF Action, TracingChanges
<1>4. Covers(RateLimitChanges(old, new), RateLimitFields, old, new)
  BY ChangesCover DEF Action, RateLimitChanges
<1>5. Covers(AuditLogUiChanges(old, new), AuditLogUiFields, old, new)
  BY ChangesCover DEF Action, AuditLogUiChanges
<1>6. Covers(RetentionNoticeChanges(old, new), RetentionNoticeFields, old, new)
  BY ChangesCover DEF Action, RetentionNoticeChanges
<1>7. Covers(RagConfigChanges(old, new), RagConfigFields, old, new)
  BY ChangesCover DEF Action, RagConfigChanges
<1>8. Covers(EvalConfigChanges(old, new), EvalConfigFields, old, new)
  BY ChangesCover DEF Action, EvalConfigChanges
<1>9. QED
  BY <1>1, <1>2, <1>3, <1>4, <1>5, <1>6, <1>7, <1>8 DEF Covers, AuditEntries, Audited

\* What one more set of entries makes of the last one told.
LEMMA ToldAppended ==
  ASSUME Typed, NEW c \in Audited, HasLast(c), NEW E \in SUBSET Entry, trail' = Append(trail, E)
  PROVE  /\ HasLast(c)'
         /\ (\E x \in E : x.field = c) => \E x \in E : x.field = c /\ Told(c)' = x.new
         /\ ~ (\E x \in E : x.field = c) => Told(c)' = Told(c)
<1> DEFINE n == Len(trail) + 1
<1>1. /\ trail \in Seq(SUBSET Entry) /\ DOMAIN trail = 1 .. Len(trail) /\ Len(trail) \in Nat
      /\ DOMAIN trail' = 1 .. n /\ trail'[n] = E
      /\ \A j \in 1 .. Len(trail) : trail'[j] = trail[j]
  BY DEF Typed, TypeInv
<1>2. CASE \E x \in E : x.field = c
  <2>1. n \in At(c)' /\ \A k \in At(c)' : k <= n
    BY <1>1, <1>2 DEF At
  <2>2. HasLast(c)'
    BY <2>1 DEF HasLast
  <2>3. \A j \in At(c)' : (\A k \in At(c)' : k <= j) => j = n
    BY <1>1, <2>1 DEF At
  <2>4. (CHOOSE j \in At(c)' : \A k \in At(c)' : k <= j) = n
    BY <2>1, <2>3
  <2>5. Told(c)' = (CHOOSE x \in E : x.field = c).new
    BY <1>1, <2>1, <2>4 DEF Told, At
  <2>6. QED
    BY <1>2, <2>2, <2>5
<1>3. CASE ~ \E x \in E : x.field = c
  <2>1. At(c)' = At(c)
    BY <1>1, <1>3 DEF At
  <2>2. HasLast(c)'
    BY <2>1 DEF HasLast
  <2>3. CASE At(c) = {}
    BY <1>3, <2>1, <2>2, <2>3 DEF Told, At
  <2>4. CASE At(c) # {}
    <3> DEFINE last == CHOOSE j \in At(c) : \A k \in At(c) : k <= j
    <3>1. last \in At(c)
      BY <2>4 DEF HasLast
    <3>2. trail'[last] = trail[last]
      BY <1>1, <3>1 DEF At
    <3>3. Told(c) = (CHOOSE x \in trail[last] : x.field = c).new
      BY <2>4 DEF Told, At
    <3>4. Told(c)' = (CHOOSE x \in trail'[last] : x.field = c).new
      BY <2>1, <2>4 DEF Told, At
    <3>5. QED
      BY <1>3, <2>2, <3>2, <3>3, <3>4
  <2>5. QED
    BY <2>3, <2>4
<1>4. QED
  BY <1>2, <1>3

LEMMA InitReplay == Init => ReplayInv
<1> SUFFICES ASSUME Init PROVE ReplayInv
  OBVIOUS
<1>1. \A c : At(c) = {}
  BY DEF Init, At
<1>2. \A c : Told(c) = None
  BY <1>1 DEF Told, At
<1>3. \A c \in Audited : Overrides(row)[c] = None
  BY DEF Init, Overrides, Column
<1>4. QED
  BY <1>1, <1>2, <1>3, InitTyped DEF ReplayInv, HasLast, TrailMatchesRow

\* Most steps leave the row, its trail and the history variable alone.
LEMMA ReplayUnchanged ==
  ASSUME ReplayInv, row' = row, trail' = trail, blind' = blind
  PROVE  (\A c \in Audited : HasLast(c)') /\ TrailMatchesRow'
<1>1. \A c : At(c)' = At(c)
  BY DEF At
<1>2. \A c : Told(c)' = Told(c)
  BY DEF Told
<1>3. Overrides(row)' = Overrides(row)
  BY DEF Overrides
<1>4. \A c \in Audited : HasLast(c)'
  BY <1>1 DEF ReplayInv, HasLast
<1>5. TrailMatchesRow'
  BY <1>2, <1>3 DEF ReplayInv, TrailMatchesRow
<1>6. QED
  BY <1>4, <1>5

\* The commit of a save that found the row it validated against.
LEMMA SaveReplays ==
  ASSUME ReplayInv, Typed', NEW q \in Request, Save(q)
  PROVE  (\A c \in Audited : HasLast(c)') /\ TrailMatchesRow'
<1> DEFINE b == req[q].body
           seen == req[q].seen
           loaded == req[q].target
           E == AuditEntries(Previous(q), b)
<1>1. Typed
  BY DEF ReplayInv
<1>2. /\ req[q].pc = "upsert" /\ b \in Payloads /\ b \in Override
      /\ loaded \in Rows /\ seen \in Rows
  BY <1>1, SaveFrame, PayloadIsOverride DEF Saving
<1>3. CASE loaded = NoRow /\ row # NoRow
  BY <1>3, ReplayUnchanged DEF Save, Store
<1>4. CASE ~ (loaded = NoRow /\ row # NoRow)
  <2>1. /\ row' = IF loaded = NoRow THEN b ELSE Merged(loaded, b)
        /\ trail' = Append(trail, E)
        /\ blind' = (blind \/ seen # loaded)
    BY <1>4 DEF Save
  <2>2. E \in SUBSET Entry
    BY <1>2, OverridesType, AuditEntriesType DEF Previous
  <2>3. \A c \in Audited : HasLast(c)'
    BY <1>1, <2>1, <2>2, ToldAppended DEF ReplayInv
  <2>4. ASSUME ~ blind', NEW c \in Audited PROVE Told(c)' = Overrides(row')[c]
    <3>1. ~ blind /\ seen = loaded
      BY <2>1, <2>4
    <3>2. Told(c) = Overrides(row)[c]
      BY <3>1 DEF ReplayInv, TrailMatchesRow
    <3>3. c \in Column /\ HasLast(c)
      BY DEF Column, ReplayInv
    <3>4. Covers(E, Audited, Overrides(loaded), b)
      BY <3>1, EntriesCover DEF Previous
    <3>5. Overrides(row')[c] = IF b[c] # Overrides(loaded)[c] THEN b[c] ELSE Overrides(row)[c]
      <4>1. CASE loaded = NoRow
        <5>1. row = NoRow /\ row' = b /\ b # NoRow
          BY <1>2, <1>4, <2>1, <4>1, NoRowIsNoOverride
        <5>2. Overrides(row')[c] = b[c] /\ Overrides(row)[c] = None /\ Overrides(loaded)[c] = None
          BY <3>3, <4>1, <5>1 DEF Overrides
        <5>3. QED
          BY <5>2
      <4>2. CASE loaded # NoRow
        <5>1. row # NoRow /\ row \in Override
          BY <1>1, <1>2, <4>2 DEF Typed, TypeInv, RowStays, Rows
        <5>2. row' = Merged(loaded, b) /\ row' # NoRow
          BY <1>2, <2>1, <4>2, <5>1, MergedType, NoRowIsNoOverride
        <5>3. Overrides(row')[c] = row'[c] /\ Overrides(row)[c] = row[c]
          BY <3>3, <5>1, <5>2 DEF Overrides
        <5>4. row'[c] = IF b[c] # Overrides(loaded)[c] THEN b[c] ELSE row[c]
          BY <3>3, <5>2 DEF Merged
        <5>5. QED
          BY <5>3, <5>4
      <4>3. QED
        BY <4>1, <4>2
    <3>6. CASE b[c] # Overrides(loaded)[c]
      <4>1. \E x \in E : x.field = c
        BY <3>4, <3>6 DEF Covers
      <4>2. \E x \in E : x.field = c /\ Told(c)' = x.new
        BY <1>1, <2>1, <2>2, <3>3, <4>1, ToldAppended
      <4>3. Told(c)' = b[c]
        BY <3>4, <4>2 DEF Covers
      <4>4. QED
        BY <3>5, <3>6, <4>3
    <3>7. CASE b[c] = Overrides(loaded)[c]
      <4>1. ~ \E x \in E : x.field = c
        BY <3>4, <3>7 DEF Covers
      <4>2. Told(c)' = Told(c)
        BY <1>1, <2>1, <2>2, <3>3, <4>1, ToldAppended
      <4>3. QED
        BY <3>2, <3>5, <3>7, <4>2
    <3>8. QED
      BY <3>6, <3>7
  <2>5. QED
    BY <2>3, <2>4 DEF TrailMatchesRow
<1>5. QED
  BY <1>3, <1>4

LEMMA NextReplay == ReplayInv /\ [Next]_vars => ReplayInv'
<1> SUFFICES ASSUME ReplayInv, [Next]_vars PROVE ReplayInv'
  OBVIOUS
<1>1. Typed /\ Typed'
  BY NextTyped DEF ReplayInv
<1>2. ASSUME OtherStep \/ \E q \in Request : FindRow(q) \/ \E p \in Process : BeginSave(q, p)
      PROVE  (\A c \in Audited : HasLast(c)') /\ TrailMatchesRow'
  <2>1. row' = row /\ trail' = trail /\ blind' = blind
    BY <1>2 DEF OtherStep, PatternGone, PatternFound, ApplyDelete, ApplyToggle, CreatePattern,
                BeginToggle, BeginDelete, SeedBuiltIns, Restart, vars, Processes, Store,
                FindRow, BeginSave
  <2>2. QED
    BY <2>1, ReplayUnchanged
<1>3. ASSUME NEW q \in Request, Save(q)
      PROVE  (\A c \in Audited : HasLast(c)') /\ TrailMatchesRow'
  BY <1>1, <1>3, SaveReplays
<1>4. QED
  BY <1>1, <1>2, <1>3, StepKinds DEF ReplayInv, SaveStep

\* For any number of processes and any interleaving of partial saves over stale rows:
\* replaying the audit trail gives the stored overrides, unless some save validated
\* against no row and then found another's.
THEOREM ReplayCorrect == Spec => []TrailMatchesRow
<1>1. Init => ReplayInv
  BY InitReplay
<1>2. ReplayInv /\ [Next]_vars => ReplayInv'
  BY NextReplay
<1>3. ReplayInv => TrailMatchesRow
  BY DEF ReplayInv
<1>4. QED
  BY <1>1, <1>2, <1>3, PTL DEF Spec
--------------------------------------------------------------------------------
(* Why a pattern's row is as its entries tell.  Who deletes a row says so in the    *)
(* same step, and a row deleted once does not come back: a creation needs an id no  *)
(* entry names, a switch of a row that is gone fails or records without a row, and  *)
(* the seeding of a built-in finds one missing only before its first entry.         *)

TrailOf(x) ==
  /\ Words(x) # {} => (Known(x) <=> "deleted" \notin Words(x))
  /\ x \in BuiltIns => "deleted" \notin Words(x)
  /\ Known(x) => patterns[x] = ~ ToldOff(x)

\* The row is there, or an entry says it was deleted.
Accounted(x) == Known(x) \/ "deleted" \in Words(x)

\* A handler that loaded a row can count on that, and only a custom one is deleted.
Aimed(q) ==
  /\ req[q].pc \in {"toggle", "delete", "apply"} => Accounted(req[q].id)
  /\ req[q].pc = "delete" \/ (req[q].pc = "apply" /\ req[q].to = None) => req[q].id \in Customs

PatternInv == Typed /\ (\A x \in Ids : TrailOf(x)) /\ \A q \in Request : Aimed(q)

\* A further entry is the last word on the switch if it is one, and else leaves it.
LEMMA Recorded ==
  ASSUME TypeInv, NEW x \in Ids, NEW w \in AnyWord, Record(x, w)
  PROVE  /\ Words(x)' = Words(x) \cup {w}
         /\ w \in {"enabled", "disabled"} => (ToldOff(x)' <=> w = "disabled")
         /\ w \notin {"enabled", "disabled"} => (ToldOff(x)' <=> ToldOff(x))
         /\ \A y \in Ids \ {x} : moves'[y] = moves[y]
<1>1. PICK n \in Nat : n = Len(moves[x]) /\ DOMAIN moves[x] = 1 .. n
  BY DEF TypeInv
<1>2. /\ DOMAIN moves'[x] = 1 .. n + 1
      /\ moves'[x][n + 1] = w
      /\ \A i \in 1 .. n : moves'[x][i] = moves[x][i]
      /\ \A y \in Ids \ {x} : moves'[y] = moves[y]
  BY <1>1 DEF Record, TypeInv
<1>3. Words(x)' = Words(x) \cup {w}
  BY <1>1, <1>2 DEF Words
<1>4. CASE w \in {"enabled", "disabled"}
  <2>1. n + 1 \in Switches(x)' /\ \A i \in Switches(x)' : i \in Nat /\ i <= n + 1
    BY <1>1, <1>2, <1>4 DEF Switches
  <2>2. ToldOff(x)' <=> w = "disabled"
    BY <1>2, <2>1 DEF ToldOff
  <2>3. QED
    BY <1>2, <1>3, <1>4, <2>2
<1>5. CASE w \notin {"enabled", "disabled"}
  <2>1. /\ Switches(x)' = Switches(x)
        /\ \A i \in Switches(x) : moves'[x][i] = moves[x][i]
    BY <1>1, <1>2, <1>5 DEF Switches
  <2>2. ToldOff(x)' <=> ToldOff(x)
    BY <2>1 DEF ToldOff
  <2>3. QED
    BY <1>2, <1>3, <1>5, <2>2
<1>6. QED
  BY <1>4, <1>5

\* An id without a new entry tells what it told, of a row that is as it was.
LEMMA NotRecorded ==
  ASSUME NEW x, moves'[x] = moves[x]
  PROVE  Words(x)' = Words(x) /\ (ToldOff(x)' <=> ToldOff(x))
BY DEF Words, ToldOff, Switches

LEMMA TrailKept ==
  ASSUME NEW x, TrailOf(x), moves'[x] = moves[x],
         Known(x)' <=> Known(x), Known(x) => patterns'[x] = patterns[x]
  PROVE  TrailOf(x)' /\ (Accounted(x) => Accounted(x)')
BY NotRecorded DEF TrailOf, Accounted

\* No entry, no switch.
LEMMA NothingTold == ASSUME NEW x, Words(x) = {} PROVE ~ ToldOff(x)
BY DEF Words, ToldOff, Switches

\* Steps that leave rows and entries alone.
LEMMA StoreKept ==
  ASSUME PatternInv, UNCHANGED <<patterns, moves>>
  PROVE  \A x \in Ids : TrailOf(x)' /\ (Accounted(x) => Accounted(x)')
BY TrailKept DEF PatternInv, Known

\* What the handlers that stay as they are count on, once no row is unaccounted for.
LEMMA AimKept ==
  ASSUME Typed, NEW q \in Request, Aimed(q), req'[q] = req[q],
         \A x \in Ids : Accounted(x) => Accounted(x)'
  PROVE  Aimed(q)'
<1>1. req[q].pc \in {"toggle", "delete", "apply"} => req[q].id \in Ids
  BY HandlerFields DEF Typed, TypeInv, Toggling, Deleting, Applying
<1>2. QED
  BY <1>1 DEF Aimed

LEMMA Idle == ASSUME NEW q \in Request, req'[q].pc = "idle" PROVE Aimed(q)'
BY DEF Aimed

\* A step that has answered q and written the row of x or its entry.
LEMMA Answered ==
  ASSUME PatternInv, NEW q \in Request, NEW x \in Ids, Respond(q),
         \A y \in Ids \ {x} :
           moves'[y] = moves[y] /\ (Known(y)' <=> Known(y)) /\ (Known(y) => patterns'[y] = patterns[y]),
         TrailOf(x)', Accounted(x) => Accounted(x)'
  PROVE  (\A y \in Ids : TrailOf(y)') /\ \A u \in Request : Aimed(u)'
<1>1. \A y \in Ids \ {x} : TrailOf(y)' /\ (Accounted(y) => Accounted(y)')
  BY TrailKept DEF PatternInv
<1>2. \A y \in Ids : TrailOf(y)' /\ (Accounted(y) => Accounted(y)')
  BY <1>1
<1>3. req'[q].pc = "idle" /\ \A u \in Request \ {q} : req'[u] = req[u]
  BY DEF Respond, Resting, PatternInv, Typed, TypeInv
<1>4. \A u \in Request \ {q} : Aimed(u)'
  BY <1>2, <1>3, AimKept DEF PatternInv
<1>5. Aimed(q)'
  BY <1>3, Idle
<1>6. QED
  BY <1>2, <1>4, <1>5

\* Switches and deletions that found the row, or found it gone.
LEMMA AppliedTold ==
  ASSUME PatternInv, NEW q \in Request, PatternGone(q) \/ ApplyDelete(q) \/ ApplyToggle(q)
  PROVE  (\A x \in Ids : TrailOf(x)') /\ \A u \in Request : Aimed(u)'
<1> USE DEF PatternInv, Typed
<1>1. req[q].pc \in {"toggle", "delete", "apply"} /\ Respond(q)
  BY DEF PatternGone, ApplyDelete, ApplyToggle
<1>2. PICK x \in Ids : x = req[q].id
  BY <1>1, HandlerFields DEF TypeInv, Toggling, Deleting, Applying
<1>3. TrailOf(x) /\ Accounted(x)
  BY <1>1, <1>2 DEF Aimed
<1>4. CASE PatternGone(q)
  <2>1. /\ patterns' = patterns /\ ~ Known(x) /\ "deleted" \in Words(x) /\ x \notin BuiltIns
    BY <1>2, <1>3, <1>4 DEF PatternGone, Accounted, TrailOf
  <2>2. moves' = moves \/ \E w \in AnyWord : Record(x, w)
    BY <1>2, <1>4, WordType DEF PatternGone, AnyWord
  <2>3. "deleted" \in Words(x)' /\ \A y \in Ids \ {x} : moves'[y] = moves[y]
    BY <2>1, <2>2, Recorded DEF Words
  <2>4. TrailOf(x)' /\ Accounted(x)'
    BY <2>1, <2>3 DEF TrailOf, Accounted, Known
  <2>5. QED
    BY <1>1, <2>1, <2>3, <2>4, Answered DEF Known
<1>5. CASE ApplyDelete(q)
  <2>1. x \in Customs /\ x \notin BuiltIns
    BY <1>2, <1>5, IdAssumption DEF ApplyDelete, Aimed
  <2>2. /\ ~ Known(x)'
        /\ \A y \in Ids \ {x} : (Known(y)' <=> Known(y)) /\ (Known(y) => patterns'[y] = patterns[y])
    BY <1>2, <1>5 DEF ApplyDelete, Without, Known
  <2>3. Record(x, "deleted") /\ "deleted" \in AnyWord
    BY <1>2, <1>5 DEF ApplyDelete, AnyWord
  <2>4. "deleted" \in Words(x)' /\ \A y \in Ids \ {x} : moves'[y] = moves[y]
    BY <2>3, Recorded
  <2>5. TrailOf(x)' /\ Accounted(x)'
    BY <2>1, <2>2, <2>4 DEF TrailOf, Accounted
  <2>6. QED
    BY <1>1, <2>2, <2>4, <2>5, Answered
<1>6. CASE ApplyToggle(q) /\ Updated(q)
  <2>1. PICK to \in BOOLEAN : to = req[q].to
    BY <1>6, HandlerFields DEF ApplyToggle, TypeInv, Applying
  <2>2. Known(x) /\ patterns' = With(x, to) /\ Record(x, Word(to))
    BY <1>2, <1>6, <2>1 DEF ApplyToggle, Updated
  <2>3. /\ Known(x)' /\ patterns'[x] = to
        /\ \A y \in Ids \ {x} : (Known(y)' <=> Known(y)) /\ (Known(y) => patterns'[y] = patterns[y])
    BY <2>2 DEF With, Known
  <2>4. PICK w \in AnyWord : w = Word(to)
    BY WordType
  <2>5. w \in {"enabled", "disabled"} /\ (to <=> w # "disabled")
    BY <2>4 DEF Word
  <2>6. /\ Words(x)' = Words(x) \cup {w} /\ (ToldOff(x)' <=> w = "disabled")
        /\ \A y \in Ids \ {x} : moves'[y] = moves[y]
    BY <2>2, <2>4, <2>5, Recorded
  <2>7. "deleted" \notin Words(x)'
    BY <1>3, <2>2, <2>5, <2>6 DEF TrailOf
  <2>8. patterns'[x] = ~ ToldOff(x)'
    BY <2>3, <2>5, <2>6
  <2>9. TrailOf(x)' /\ Accounted(x)'
    BY <2>3, <2>7, <2>8 DEF TrailOf, Accounted
  <2>10. QED
    BY <1>1, <2>3, <2>6, <2>9, Answered
<1>7. CASE ApplyToggle(q) /\ ~ Updated(q)
  <2>1. UNCHANGED <<patterns, moves>>
    BY <1>7 DEF ApplyToggle
  <2>2. QED
    BY <1>1, <2>1, StoreKept, Answered DEF Known
<1>8. QED
  BY <1>4, <1>5, <1>6, <1>7

\* The handlers that begin or go on have found the row.
LEMMA FoundTold ==
  ASSUME PatternInv, NEW q \in Request,
         \/ PatternFound(q)
         \/ \E p \in Process, x \in Ids : BeginToggle(q, p, x) \/ BeginDelete(q, p, x)
  PROVE  (\A x \in Ids : TrailOf(x)') /\ \A u \in Request : Aimed(u)'
<1> USE DEF PatternInv, Typed
<1>1. UNCHANGED <<patterns, moves>> /\ \A u \in Request \ {q} : req'[u] = req[u]
  BY DEF PatternFound, BeginToggle, BeginDelete, Store, Accept, TypeInv
<1>2. \A x \in Ids : TrailOf(x)' /\ (Accounted(x) => Accounted(x)')
  BY <1>1, StoreKept
<1>3. \A u \in Request \ {q} : Aimed(u)'
  BY <1>1, <1>2, AimKept
<1>4. ASSUME NEW p \in Process, NEW x \in Ids, BeginToggle(q, p, x) PROVE Aimed(q)'
  <2>1. PICK enabled \in BOOLEAN :
          req'[q] = [pc |-> "toggle", proc |-> p, id |-> x, was |-> patterns[x], to |-> enabled]
    BY <1>4 DEF BeginToggle, Accept, TypeInv
  <2>2. Accounted(x)'
    BY <1>2, <1>4 DEF BeginToggle, Accounted
  <2>3. QED
    BY <2>1, <2>2 DEF Aimed
<1>5. ASSUME NEW p \in Process, NEW x \in Ids, BeginDelete(q, p, x) PROVE Aimed(q)'
  <2>1. req'[q] = [pc |-> "delete", proc |-> p, id |-> x] /\ Known(x) /\ x \in Customs
    BY <1>5 DEF BeginDelete, Deletable, Accept, TypeInv
  <2>2. Accounted(x)'
    BY <1>2, <2>1 DEF Accounted
  <2>3. QED
    BY <2>1, <2>2 DEF Aimed
<1>6. ASSUME PatternFound(q) PROVE Aimed(q)'
  <2>1. req[q].id \in Ids /\ Known(req[q].id)
    BY <1>6, HandlerFields DEF PatternFound, TypeInv, Toggling, Deleting
  <2>2. /\ req'[q].pc = "apply" /\ req'[q].id = req[q].id
        /\ req'[q].to = IF req[q].pc = "toggle" THEN req[q].to ELSE None
    BY <1>6 DEF PatternFound, TypeInv
  <2>3. req[q].pc = "toggle" => req[q].to # None
    BY NoneAssumption, HandlerFields DEF TypeInv, Toggling
  <2>4. req'[q].to = None => req[q].id \in Customs
    BY <1>6, <2>2, <2>3 DEF PatternFound, Aimed
  <2>5. PICK x \in Ids : x = req[q].id /\ Accounted(x)'
    BY <1>2, <2>1, <2>2 DEF Accounted
  <2>6. QED
    BY <2>2, <2>4, <2>5 DEF Aimed
<1>7. Aimed(q)'
  BY <1>4, <1>5, <1>6
<1>8. QED
  BY <1>2, <1>3, <1>7

\* New rows: of an id without entries, or of built-ins, which are never deleted.
LEMMA AddedTold ==
  ASSUME PatternInv,
         \/ \E q \in Request, p \in Process, x \in Customs : CreatePattern(q, p, x)
         \/ SeedBuiltIns
  PROVE  (\A x \in Ids : TrailOf(x)') /\ \A u \in Request : Aimed(u)'
<1> USE DEF PatternInv, Typed
<1>1. req' = req
  BY DEF CreatePattern, SeedBuiltIns
<1>2. ASSUME NEW q \in Request, NEW p \in Process, NEW c \in Customs, CreatePattern(q, p, c)
      PROVE  \A x \in Ids : TrailOf(x)' /\ (Accounted(x) => Accounted(x)')
  <2>1. /\ c \in Ids /\ moves[c] = <<>> /\ patterns' = With(c, TRUE)
        /\ Record(c, "created") /\ "created" \in AnyWord
    BY <1>2 DEF CreatePattern, Ids, AnyWord
  <2>2. Words(c) = {}
    BY <2>1 DEF Words
  <2>3. /\ Words(c)' = {"created"} /\ (ToldOff(c)' <=> ToldOff(c))
        /\ \A x \in Ids \ {c} : moves'[x] = moves[x]
    BY <2>1, <2>2, Recorded
  <2>4. ~ ToldOff(c)'
    BY <2>2, <2>3, NothingTold
  <2>5. /\ Known(c)' /\ patterns'[c] = TRUE
        /\ \A x \in Ids \ {c} : (Known(x)' <=> Known(x)) /\ (Known(x) => patterns'[x] = patterns[x])
    BY <2>1 DEF With, Known
  <2>6. TrailOf(c)' /\ Accounted(c)'
    BY <2>3, <2>4, <2>5 DEF TrailOf, Accounted
  <2>7. QED
    BY <2>3, <2>5, <2>6, TrailKept
<1>3. ASSUME SeedBuiltIns, NEW x \in Ids
      PROVE  TrailOf(x)' /\ (Accounted(x) => Accounted(x)')
  <2>1. patterns' = Seeded /\ moves' = moves
    BY <1>3 DEF SeedBuiltIns
  <2>2. CASE Known(x) \/ x \notin BuiltIns
    <3>1. (Known(x)' <=> Known(x)) /\ (Known(x) => patterns'[x] = patterns[x])
      BY <2>1, <2>2 DEF Seeded, Known
    <3>2. QED
      BY <2>1, <3>1, TrailKept
  <2>3. CASE ~ Known(x) /\ x \in BuiltIns
    <3>1. Words(x) = {}
      BY <2>3 DEF TrailOf
    <3>2. Words(x)' = {} /\ ~ ToldOff(x)'
      BY <2>1, <3>1, NotRecorded, NothingTold
    <3>3. Known(x)' /\ patterns'[x] = TRUE
      BY <2>1, <2>3 DEF Seeded, Known
    <3>4. QED
      BY <3>2, <3>3 DEF TrailOf, Accounted
  <2>4. QED
    BY <2>2, <2>3
<1>4. \A x \in Ids : TrailOf(x)' /\ (Accounted(x) => Accounted(x)')
  BY <1>2, <1>3
<1>5. QED
  BY <1>1, <1>4, AimKept

\* The steps of a save, a restart, a stutter: no handler of a pattern begins or goes on.
LEMMA ElsewhereTold ==
  ASSUME PatternInv,
         \/ \E q \in Request : SaveStep(q)
         \/ \E p \in Process : Restart(p)
         \/ UNCHANGED vars
  PROVE  (\A x \in Ids : TrailOf(x)') /\ \A u \in Request : Aimed(u)'
<1> USE DEF PatternInv, Typed
<1>1. UNCHANGED <<patterns, moves>>
  BY DEF SaveStep, BeginSave, FindRow, Save, Restart, Store, vars
<1>2. \A x \in Ids : TrailOf(x)' /\ (Accounted(x) => Accounted(x)')
  BY <1>1, StoreKept
<1>3. \A u \in Request : req'[u] = req[u] \/ req'[u].pc \in {"idle", "save", "upsert"}
  <2>1. ASSUME NEW q \in Request, SaveStep(q)
        PROVE  \A u \in Request : req'[u] = req[u] \/ req'[u].pc \in {"idle", "save", "upsert"}
    <3>1. ASSUME NEW p \in Process, BeginSave(q, p)
          PROVE  \A u \in Request : req'[u] = req[u] \/ req'[u].pc \in {"idle", "save", "upsert"}
      BY <3>1 DEF BeginSave, Accept, TypeInv
    <3>2. CASE FindRow(q)
      <4>1. req[q] \in Saving
        BY <3>2, HandlerFields DEF FindRow, TypeInv
      <4>2. QED
        BY <3>2, <4>1 DEF FindRow, TypeInv, Saving
    <3>3. CASE Save(q)
      BY <3>3, SaveFrame DEF Resting
    <3>4. QED
      BY <2>1, <3>1, <3>2, <3>3 DEF SaveStep
  <2>2. CASE (\E p \in Process : Restart(p)) \/ UNCHANGED vars
    BY <2>2 DEF Restart, Resting, vars
  <2>3. QED
    BY <2>1, <2>2
<1>4. ASSUME NEW u \in Request PROVE Aimed(u)'
  <2>1. CASE req'[u] = req[u]
    BY <1>2, <2>1, AimKept
  <2>2. CASE req'[u].pc \in {"idle", "save", "upsert"}
    BY <2>2 DEF Aimed
  <2>3. QED
    BY <1>3, <2>1, <2>2
<1>5. QED
  BY <1>2, <1>4

LEMMA InitPattern == Init => PatternInv
<1> SUFFICES ASSUME Init PROVE PatternInv
  OBVIOUS
<1>1. \A x \in Ids : Words(x) = {} /\ ~ Known(x)
  BY DEF Init, Words, Known, Ids
<1>2. \A q \in Request : Aimed(q)
  BY DEF Init, Aimed, Resting
<1>3. QED
  BY <1>1, <1>2, InitTyped DEF PatternInv, TrailOf

LEMMA NextPattern == PatternInv /\ [Next]_vars => PatternInv'
<1> SUFFICES ASSUME PatternInv, [Next]_vars PROVE PatternInv'
  OBVIOUS
<1>1. Typed'
  BY NextTyped DEF PatternInv
<1>2. (\A x \in Ids : TrailOf(x)') /\ \A u \in Request : Aimed(u)'
  BY StepKinds, AppliedTold, FoundTold, AddedTold, ElsewhereTold DEF OtherStep
<1>3. QED
  BY <1>1, <1>2 DEF PatternInv

\* Whatever toggles, deletions and seedings race, in any number of processes: a
\* pattern's row is there, gone, on or off as its audit entries tell.
THEOREM PatternsCorrect == Spec => []PatternTrail
<1>1. PatternInv => PatternTrail
  BY DEF PatternInv, PatternTrail, TrailOf, Ids
<1>2. QED
  BY InitPattern, NextPattern, <1>1, PTL DEF Spec
================================================================================
