----------------------------- MODULE Revisions -----------------------------
(***************************************************************************)
(* The seven revisions of src/backend/alembic/versions, each the sequence  *)
(* of statements of its upgrade() and of its downgrade().  A foreign key   *)
(* and a CHECK are named by their column, an index by the columns it       *)
(* reads, a unique index by its columns and its WHERE status = 'active'.   *)
(* Column types and lengths are left out.                                  *)
(***************************************************************************)
EXTENDS Schema

Vocabulary(name) ==
    CASE name = "message role" -> {"system", "user", "assistant", "tool"}
      [] name = "content type" -> {"text", "markdown"}
      [] name = "message status" -> {"pending", "streaming", "completed", "failed"}
      [] name = "relationship level" -> {"l0", "l1", "l2", "l3", "l4", "l5", "l6"}
      [] name = "task status" -> {"pending", "processing", "completed", "failed"}
      [] name = "run status" -> {"running", "completed", "failed", "cancelled"}
      [] name = "step kind" -> {"model", "tool"}
      [] name = "step status" -> {"completed", "failed"}

\* A CHECK on a range of numbers: its column and its bounds, which no modelled row meets.
Range01 == {"0..1"}
NonNegative == {"0.."}

\* The columns of every table: id is written by the application or the statement.
Stamped(required, optional, defaulted) ==
    Columns(required \cup {"id"}, optional,
            ("created_at" :> Default("now")) @@ ("updated_at" :> Default("now")) @@ defaulted)
Metadata == "metadata" :> Default("{}")

ByUser == Key("user_id", "users", "cascade")

(* 20260718_0001: users, conversations, messages, refresh sessions.        *)

Users == CreateTable("users",
    Stamped({"email", "username", "password_hash"}, {"last_login_at"},
            ("is_active" :> Default("true")) @@ ("is_verified" :> Default("false"))),
    {}, <<>>, {{"email"}, {"username"}})

Conversations == CreateTable("conversations",
    Stamped({"user_id"}, {"title", "provider", "model", "system_prompt"}, Metadata),
    {ByUser}, <<>>, {})

Messages == CreateTable("messages",
    Stamped({"conversation_id", "role", "content", "content_type", "status"},
            {"provider_message_id", "token_usage"}, Metadata),
    {Key("conversation_id", "conversations", "cascade")},
    ("role" :> Vocabulary("message role")) @@ ("content_type" :> Vocabulary("content type"))
      @@ ("status" :> Vocabulary("message status")), {})

RefreshSessions == CreateTable("refresh_sessions",
    Stamped({"user_id", "token_jti", "token_hash", "token_family_id", "expires_at"},
            {"revoked_at", "replaced_by_session_id", "device_name", "user_agent", "ip_address"}, <<>>),
    {ByUser, Key("replaced_by_session_id", "refresh_sessions", "set null")},
    <<>>, {{"token_jti"}})

MessageIndexes == <<"conversation_id", "role", "status", "provider_message_id">>
SessionIndexes == <<"user_id", "token_family_id", "expires_at">>

Upgrade1 ==
    <<Users, Conversations>> \o AddIndexes("conversations", <<"user_id">>)
    \o <<Messages>> \o AddIndexes("messages", MessageIndexes)
    \o <<RefreshSessions>> \o AddIndexes("refresh_sessions", SessionIndexes)

Downgrade1 ==
    DropIndexes("refresh_sessions", SessionIndexes) \o <<DropTable("refresh_sessions")>>
    \o DropIndexes("messages", MessageIndexes) \o <<DropTable("messages")>>
    \o DropIndexes("conversations", <<"user_id">>) \o <<DropTable("conversations"), DropTable("users")>>

(* 20260722_0002: chat lifecycle, pagination and idempotency.              *)

ActivityIndex == <<"user_id", "last_message_at", "created_at", "id">>
TimelineIndex == <<"conversation_id", "created_at", "id">>

Upgrade2 ==
    <<AddColumn("conversations", "last_message_at", Optional),
      AddColumn("conversations", "archived_at", Optional)>>
    \o AddIndexes("conversations", <<"last_message_at", "archived_at">>)
    \o <<AddIndex("conversations", ActivityIndex),
         AddColumn("messages", "parent_message_id", Optional),
         AddColumn("messages", "client_message_id", Optional),
         AddKey("messages", Key("parent_message_id", "messages", "set null"))>>
    \o AddIndexes("messages", <<"parent_message_id", "client_message_id">>)
    \o <<AddUnique("messages", {"conversation_id", "client_message_id"}, FALSE),
         AddIndex("messages", TimelineIndex)>>

Downgrade2 ==
    <<DropIndex("messages", TimelineIndex),
      DropUnique("messages", {"conversation_id", "client_message_id"}, FALSE)>>
    \o DropIndexes("messages", <<"client_message_id", "parent_message_id">>)
    \o <<DropKey("messages", "parent_message_id"),
         DropColumn("messages", "client_message_id"), DropColumn("messages", "parent_message_id"),
         DropIndex("conversations", ActivityIndex)>>
    \o DropIndexes("conversations", <<"archived_at", "last_message_at">>)
    \o <<DropColumn("conversations", "archived_at"), DropColumn("conversations", "last_message_at")>>

(* 20260722_0003: versioned characters and personas, relationships.        *)

Characters == CreateTable("characters",
    Stamped({"user_id", "current_version"},
            {"avatar_url", "provider", "model", "temperature", "max_tokens", "archived_at"}, Metadata),
    {ByUser}, <<>>, {})

CharacterVersions == CreateTable("character_versions",
    Stamped({"character_id", "version", "name"},
            {"summary", "personality", "speaking_style", "scenario", "greeting",
             "system_instructions"}, Metadata),
    {Key("character_id", "characters", "cascade")}, <<>>, {{"character_id", "version"}})

Personas == CreateTable("personas",
    Stamped({"user_id", "current_version"}, {"archived_at"}, Metadata), {ByUser}, <<>>, {})

PersonaVersions == CreateTable("persona_versions",
    Stamped({"persona_id", "version", "name"},
            {"description", "pronouns", "background", "traits", "writing_style"}, Metadata),
    {Key("persona_id", "personas", "cascade")}, <<>>, {{"persona_id", "version"}})

Relationships == CreateTable("relationships",
    Stamped({"conversation_id", "user_id", "character_id", "level", "affection_score", "turn_count"},
            {"status", "context", "last_change_reason"}, Metadata),
    {ByUser, Key("conversation_id", "conversations", "cascade"),
     Key("character_id", "characters", "cascade")},
    ("affection_score" :> {"-100..100"}) @@ ("turn_count" :> NonNegative)
      @@ ("level" :> Vocabulary("relationship level")),
    {{"conversation_id"}})

RelationshipEvents == CreateTable("relationship_events",
    Stamped({"relationship_id", "previous_level", "new_level", "previous_score", "new_score",
             "score_delta", "reason"}, {"source_message_id"}, Metadata),
    {Key("relationship_id", "relationships", "cascade"),
     Key("source_message_id", "messages", "set null")}, <<>>, {})

UpdatedIndex == <<"user_id", "updated_at", "id">>
RelationshipIndexes == <<"conversation_id", "user_id", "character_id">>

\* The columns that link a conversation to its profile, with their tables.
Links == <<<<"character_id", "characters">>, <<"character_version_id", "character_versions">>,
           <<"persona_id", "personas">>, <<"persona_version_id", "persona_versions">>>>
LinkColumn(l) ==
    <<AddColumn("conversations", l[1], Optional),
      AddKey("conversations", Key(l[1], l[2], "set null")), AddIndex("conversations", <<l[1]>>)>>
UnlinkColumn(l) ==
    <<DropIndex("conversations", <<l[1]>>), DropKey("conversations", l[1]),
      DropColumn("conversations", l[1])>>

Upgrade3 ==
    <<Characters>> \o AddIndexes("characters", <<"user_id", "archived_at">>)
    \o <<AddIndex("characters", UpdatedIndex), CharacterVersions>>
    \o AddIndexes("character_versions", <<"character_id">>)
    \o <<Personas>> \o AddIndexes("personas", <<"user_id", "archived_at">>)
    \o <<AddIndex("personas", UpdatedIndex), PersonaVersions>>
    \o AddIndexes("persona_versions", <<"persona_id">>)
    \o LinkColumn(Links[1]) \o LinkColumn(Links[2]) \o LinkColumn(Links[3]) \o LinkColumn(Links[4])
    \o <<AddColumn("conversations", "temperature", Optional),
         AddColumn("conversations", "max_tokens", Optional), Relationships>>
    \o AddIndexes("relationships", RelationshipIndexes)
    \o <<RelationshipEvents>>
    \o AddIndexes("relationship_events", <<"relationship_id", "source_message_id">>)

Downgrade3 ==
    DropIndexes("relationship_events", <<"source_message_id", "relationship_id">>)
    \o <<DropTable("relationship_events")>>
    \o DropIndexes("relationships", RelationshipIndexes)
    \o <<DropTable("relationships"), DropColumn("conversations", "max_tokens"),
         DropColumn("conversations", "temperature")>>
    \o UnlinkColumn(Links[4]) \o UnlinkColumn(Links[3]) \o UnlinkColumn(Links[2]) \o UnlinkColumn(Links[1])
    \o DropIndexes("persona_versions", <<"persona_id">>)
    \o <<DropTable("persona_versions"), DropIndex("personas", UpdatedIndex)>>
    \o DropIndexes("personas", <<"archived_at", "user_id">>) \o <<DropTable("personas")>>
    \o DropIndexes("character_versions", <<"character_id">>)
    \o <<DropTable("character_versions"), DropIndex("characters", UpdatedIndex)>>
    \o DropIndexes("characters", <<"archived_at", "user_id">>) \o <<DropTable("characters")>>

(* 20260723_0004: memories, conversation summaries, memory tasks.          *)

LegacyScopes == {"user", "character", "relationship", "world", "conversation"}
LegacyKinds == {"fact", "preference", "event", "promise", "boundary", "goal", "relationship", "world"}
LegacyStatuses == {"active", "superseded", "archived"}
Identity == {"user_id", "scope", "normalized_key", "conversation_id", "character_id", "persona_id"}

Memories == CreateTable("memories",
    Stamped({"user_id", "scope", "kind", "status", "normalized_key", "content", "importance",
             "confidence", "access_count"},
            {"conversation_id", "character_id", "persona_id", "source_message_id",
             "superseded_by_id", "embedding", "last_accessed_at", "expires_at"}, Metadata),
    {ByUser, Key("conversation_id", "conversations", "cascade"),
     Key("character_id", "characters", "cascade"), Key("persona_id", "personas", "set null"),
     Key("source_message_id", "messages", "set null"),
     Key("superseded_by_id", "memories", "set null")},
    ("scope" :> LegacyScopes) @@ ("kind" :> LegacyKinds) @@ ("status" :> LegacyStatuses)
      @@ ("importance" :> Range01) @@ ("confidence" :> Range01), {})

ConversationSummaries == CreateTable("conversation_summaries",
    Stamped({"conversation_id", "content", "source_message_count", "estimated_tokens"},
            {"covered_through_message_id", "covered_through_created_at", "provider", "model"}, Metadata),
    {Key("conversation_id", "conversations", "cascade"),
     Key("covered_through_message_id", "messages", "set null")},
    <<>>, {{"conversation_id"}})

MemoryTasks == CreateTable("memory_tasks",
    Stamped({"conversation_id", "trigger_message_id", "status", "attempts", "available_at"},
            {"locked_at", "finished_at", "last_error"}, Metadata),
    {Key("conversation_id", "conversations", "cascade"), Key("trigger_message_id", "messages", "cascade")},
    "status" :> Vocabulary("task status"), {{"trigger_message_id"}})

MemoryIndexes ==
    <<"user_id", "conversation_id", "character_id", "persona_id", "source_message_id",
      "superseded_by_id", "scope", "kind", "status", "normalized_key", "expires_at">>
StatusIndex == <<"user_id", "status", "updated_at">>
ScopeIndex == <<"user_id", "scope", "conversation_id", "character_id">>
SummaryIndexes == <<"conversation_id", "covered_through_created_at">>
TaskIndexes == <<"conversation_id", "trigger_message_id", "status", "available_at">>
ClaimIndex == <<"status", "available_at", "created_at">>

Upgrade4 ==
    <<Memories>> \o AddIndexes("memories", MemoryIndexes)
    \o <<AddIndex("memories", StatusIndex), AddIndex("memories", ScopeIndex),
         AddUnique("memories", Identity, TRUE), AddIndex("memories", <<"content">>),
         ConversationSummaries>>
    \o AddIndexes("conversation_summaries", SummaryIndexes)
    \o <<MemoryTasks>> \o AddIndexes("memory_tasks", TaskIndexes)
    \o <<AddIndex("memory_tasks", ClaimIndex)>>

Downgrade4 ==
    <<DropIndex("memory_tasks", ClaimIndex)>> \o DropIndexes("memory_tasks", TaskIndexes)
    \o <<DropTable("memory_tasks")>> \o DropIndexes("conversation_summaries", SummaryIndexes)
    \o <<DropTable("conversation_summaries"), DropIndex("memories", <<"content">>),
         DropUnique("memories", Identity, TRUE), DropIndex("memories", ScopeIndex),
         DropIndex("memories", StatusIndex)>>
    \o DropIndexes("memories", MemoryIndexes) \o <<DropTable("memories")>>

(* 20260827_0005: the bridge to the revised models.                        *)

AddColumns(t, cs) == [i \in DOMAIN cs |-> AddColumn(t, cs[i], Optional)]
DropColumns(t, cs) == [i \in DOMAIN cs |-> DropColumn(t, cs[i])]
AlterColumns(t, cs, col) == [i \in DOMAIN cs |-> AlterColumn(t, cs[i], col)]

CharacterTexts == <<"name", "tagline", "description", "personality", "scenario", "system_prompt", "greeting">>
\* The last two are keys of the JSON column attributes.
PersonaTexts == <<"name", "description", "instructions", "attributes_traits", "attributes_pronouns">>
Bookkeeping == <<"status", "normalized_key", "confidence", "access_count">>
ImportanceIndex == <<"user_id", "scope", "importance">>

\* A foreign key of memories dropped and created again with another rule.
Rebind(c, to, del) == <<DropKey("memories", c), AddKey("memories", Key(c, to, del))>>

BridgeCharacters ==
    AddColumns("characters", CharacterTexts)
    \o <<AddColumn("characters", "is_active", Default("true")),
         Sql("project characters"), Sql("name characters"),
         AlterColumn("characters", "name", Required),
         AlterColumn("characters", "current_version", Default("1")),
         AddIndex("characters", <<"name">>)>>

BridgePersonas ==
    AddColumns("personas", PersonaTexts)
    \o <<AddColumn("personas", "is_default", Default("false")),
         AddColumn("personas", "attributes", Default("{}")),
         Sql("project personas"), Sql("name personas"),
         AlterColumn("personas", "name", Required),
         AlterColumn("personas", "current_version", Default("1"))>>
    \o AddIndexes("personas", <<"name", "is_default">>)

DropMemoryChecks ==
    <<DropCheck("memories", "scope"), DropCheck("memories", "kind"), DropCheck("memories", "status")>>

\* Mutant: the values are mapped before they are kept.
MapMemoriesFirst ==
    <<Sql("map scopes"), Sql("keep scopes"), Sql("map kinds"), Sql("keep kinds"), Sql("archive memories")>>
MapMemories ==
    <<Sql("keep scopes"), Sql("map scopes"), Sql("keep kinds"), Sql("map kinds"), Sql("archive memories")>>

RelaxMemories ==
    AlterColumns("memories", Bookkeeping, Optional)
    \o <<DropUnique("memories", Identity, TRUE)>>
    \o Rebind("conversation_id", "conversations", "set null")
    \o Rebind("character_id", "characters", "set null")
    \o <<AddIndex("memories", <<"archived_at">>), AddIndex("memories", ImportanceIndex)>>

\* Mutant: the values are mapped while the old vocabularies are still checked.
BridgeMemoriesChecked ==
    <<AddColumn("memories", "archived_at", Optional)>> \o MapMemories \o DropMemoryChecks \o RelaxMemories
BridgeMemories ==
    <<AddColumn("memories", "archived_at", Optional)>> \o DropMemoryChecks \o MapMemories \o RelaxMemories

Upgrade5 == BridgeCharacters \o BridgePersonas \o BridgeMemories

RestoreMemories ==
    <<Sql("fill bookkeeping"), Sql("map revised kinds")>>
    \o AlterColumns("memories", Bookkeeping, Required)
    \o <<AddCheck("memories", "scope", LegacyScopes), AddCheck("memories", "kind", LegacyKinds),
         AddCheck("memories", "status", LegacyStatuses),
         AddUnique("memories", Identity, TRUE), DropColumn("memories", "archived_at")>>

UnbridgeMemories ==
    <<DropIndex("memories", ImportanceIndex), DropIndex("memories", <<"archived_at">>)>>
    \o Rebind("character_id", "characters", "cascade")
    \o Rebind("conversation_id", "conversations", "cascade")
    \o RestoreMemories

UnbridgeCharacters ==
    <<Sql("version characters"), Sql("synchronize characters"),
      DropIndex("characters", <<"name">>), AlterColumn("characters", "current_version", Required),
      DropColumn("characters", "is_active")>>
    \o DropColumns("characters", CharacterTexts)

UnbridgePersonas ==
    <<Sql("version personas"), Sql("synchronize personas")>>
    \o DropIndexes("personas", <<"is_default", "name">>)
    \o <<AlterColumn("personas", "current_version", Required),
         DropColumn("personas", "attributes"), DropColumn("personas", "is_default")>>
    \o DropColumns("personas", PersonaTexts)

Downgrade5 == UnbridgeMemories \o UnbridgeCharacters \o UnbridgePersonas

(* 20260827_0006: knowledge.                                               *)

KnowledgeSources == CreateTable("knowledge_sources",
    Stamped({"user_id", "name", "source_type", "status"}, {}, Metadata), {ByUser}, <<>>, {})

KnowledgeChunks == CreateTable("knowledge_chunks",
    Stamped({"source_id", "user_id", "ordinal", "content", "content_hash", "token_estimate"}, {}, Metadata),
    {ByUser, Key("source_id", "knowledge_sources", "cascade")}, <<>>, {{"source_id", "ordinal"}})

Upgrade6 ==
    <<KnowledgeSources>> \o AddIndexes("knowledge_sources", <<"user_id", "status">>)
    \o <<KnowledgeChunks>>
    \o AddIndexes("knowledge_chunks", <<"source_id", "user_id", "content_hash", "content">>)

Downgrade6 ==
    DropIndexes("knowledge_chunks", <<"content", "content_hash", "user_id", "source_id">>)
    \o <<DropTable("knowledge_chunks")>>
    \o DropIndexes("knowledge_sources", <<"status", "user_id">>) \o <<DropTable("knowledge_sources")>>

(* 20260828_0007: agent runs and steps.                                    *)

AgentRuns == CreateTable("agent_runs",
    Stamped({"user_id", "conversation_id", "provider", "status", "started_at"},
            {"user_message_id", "assistant_message_id", "model", "completed_at", "error_code",
             "error_message"},
            ("allowed_tools" :> Default("[]")) @@ ("step_count" :> Default("0"))
              @@ ("tool_call_count" :> Default("0")) @@ Metadata),
    {ByUser, Key("conversation_id", "conversations", "cascade"),
     Key("user_message_id", "messages", "set null"), Key("assistant_message_id", "messages", "set null")},
    ("status" :> Vocabulary("run status")) @@ ("step_count" :> NonNegative)
      @@ ("tool_call_count" :> NonNegative), {})

AgentSteps == CreateTable("agent_steps",
    Stamped({"agent_run_id", "step_number", "kind", "status"},
            {"tool_call_id", "tool_name", "duration_ms", "error_code", "error_message"},
            ("input" :> Default("{}")) @@ ("output" :> Default("{}"))),
    {Key("agent_run_id", "agent_runs", "cascade")},
    ("step_number" :> {"1.."}) @@ ("kind" :> Vocabulary("step kind"))
      @@ ("status" :> Vocabulary("step status")) @@ ("duration_ms" :> NonNegative),
    {{"agent_run_id", "step_number"}})

RunIndexes == <<"user_id", "conversation_id", "user_message_id", "assistant_message_id", "status", "started_at">>
StepIndexes == <<"agent_run_id", "kind", "status">>

Upgrade7 ==
    <<AgentRuns>> \o AddIndexes("agent_runs", RunIndexes)
    \o <<AgentSteps>> \o AddIndexes("agent_steps", StepIndexes)

Downgrade7 ==
    DropIndexes("agent_steps", StepIndexes) \o <<DropTable("agent_steps")>>
    \o DropIndexes("agent_runs", RunIndexes) \o <<DropTable("agent_runs")>>

-----------------------------------------------------------------------------

HeadRevision == 7
Upgrades == <<Upgrade1, Upgrade2, Upgrade3, Upgrade4, Upgrade5, Upgrade6, Upgrade7>>
Downgrades == <<Downgrade1, Downgrade2, Downgrade3, Downgrade4, Downgrade5, Downgrade6, Downgrade7>>
=============================================================================
