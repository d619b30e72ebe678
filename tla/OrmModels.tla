------------------------------ MODULE OrmModels ------------------------------
(***************************************************************************)
(* What the ORM classes that app/models/loader.py loads expect of the      *)
(* database at the head revision.  Of each mapped class: the columns every *)
(* INSERT writes (must), the columns the class also maps (may), its        *)
(* foreign keys, its unique constraints, its indexes, and the values its   *)
(* enumerated columns take.  BaseEntity adds id, which it writes, and the  *)
(* two timestamps, which the database fills.                               *)
(***************************************************************************)
EXTENDS Revisions

Mapped(must, may, keys, uniques, indexes, values) ==
    [must |-> must \cup {"id"}, may |-> may \cup {"created_at", "updated_at"},
     keys |-> keys, uniques |-> uniques, indexes |-> indexes, values |-> values]

Owned == Key("user_id", "users", "cascade")
Linked(c, to) == Key(c, to, "set null")
Part(c, to) == Key(c, to, "cascade")

MemoryScope == {"user", "character", "conversation"}
MemoryKind == {"fact", "preference", "relationship", "summary", "note"}

User == Mapped({"email", "username", "password_hash", "is_active", "is_verified"}, {"last_login_at"},
               {}, {{"email"}, {"username"}}, {}, <<>>)

RefreshSession ==
    Mapped({"user_id", "token_jti", "token_hash", "token_family_id", "expires_at"},
           {"revoked_at", "replaced_by_session_id", "device_name", "user_agent", "ip_address"},
           {Owned, Linked("replaced_by_session_id", "refresh_sessions")}, {{"token_jti"}},
           {<<"user_id">>, <<"token_family_id">>, <<"expires_at">>}, <<>>)

Conversation ==
    Mapped({"user_id", "metadata"},
           {"title", "provider", "model", "system_prompt", "character_id", "persona_id",
            "last_message_at", "archived_at"},
           {Owned, Linked("character_id", "characters"), Linked("persona_id", "personas")}, {},
           {<<"user_id">>, <<"character_id">>, <<"persona_id">>, <<"last_message_at">>, <<"archived_at">>},
           <<>>)

Message ==
    Mapped({"conversation_id", "role", "content", "content_type", "status", "metadata"},
           {"parent_message_id", "client_message_id", "provider_message_id", "token_usage"},
           {Part("conversation_id", "conversations"), Linked("parent_message_id", "messages")},
           {{"conversation_id", "client_message_id"}},
           {<<"conversation_id">>, <<"parent_message_id">>, <<"client_message_id">>, <<"role">>,
            <<"status">>, <<"provider_message_id">>},
           ("role" :> {"system", "user", "assistant", "tool"}) @@ ("content_type" :> {"text", "markdown"})
             @@ ("status" :> {"pending", "streaming", "completed", "failed"}))

Character ==
    Mapped({"user_id", "name", "is_active", "metadata"},
           {"tagline", "description", "personality", "scenario", "system_prompt", "greeting", "avatar_url"},
           {Owned}, {}, {<<"user_id">>, <<"name">>}, <<>>)

Persona ==
    Mapped({"user_id", "name", "is_default", "attributes"}, {"description", "instructions"},
           {Owned}, {}, {<<"user_id">>, <<"name">>, <<"is_default">>}, <<>>)

Memory ==
    Mapped({"user_id", "scope", "kind", "content", "importance", "metadata"},
           {"conversation_id", "character_id", "source_message_id", "archived_at", "last_accessed_at"},
           {Owned, Linked("conversation_id", "conversations"), Linked("character_id", "characters"),
            Linked("source_message_id", "messages")}, {},
           {<<"user_id">>, <<"conversation_id">>, <<"character_id">>, <<"source_message_id">>,
            <<"scope">>, <<"kind">>, <<"archived_at">>, <<"user_id", "scope", "importance">>},
           ("scope" :> MemoryScope) @@ ("kind" :> MemoryKind))

KnowledgeSource ==
    Mapped({"user_id", "name", "source_type", "status", "metadata"}, {}, {Owned}, {},
           {<<"user_id">>, <<"status">>}, <<>>)

KnowledgeChunk ==
    Mapped({"source_id", "user_id", "ordinal", "content", "content_hash", "token_estimate", "metadata"},
           {}, {Owned, Part("source_id", "knowledge_sources")}, {{"source_id", "ordinal"}},
           {<<"source_id">>, <<"user_id">>, <<"content_hash">>}, <<>>)

AgentRun ==
    Mapped({"user_id", "conversation_id", "provider", "status", "allowed_tools", "step_count",
            "tool_call_count", "started_at", "metadata"},
           {"user_message_id", "assistant_message_id", "model", "completed_at", "error_code",
            "error_message"},
           {Owned, Part("conversation_id", "conversations"), Linked("user_message_id", "messages"),
            Linked("assistant_message_id", "messages")}, {},
           {<<"user_id">>, <<"conversation_id">>, <<"user_message_id">>, <<"assistant_message_id">>,
            <<"status">>, <<"started_at">>},
           "status" :> {"running", "completed", "failed", "cancelled"})

AgentStep ==
    Mapped({"agent_run_id", "step_number", "kind", "status", "input", "output"},
           {"tool_call_id", "tool_name", "duration_ms", "error_code", "error_message"},
           {Part("agent_run_id", "agent_runs")}, {{"agent_run_id", "step_number"}},
           {<<"agent_run_id">>, <<"kind">>, <<"status">>},
           ("kind" :> {"model", "tool"}) @@ ("status" :> {"completed", "failed"}))

\* load_all_models: the tables the application uses.
Models ==
    [users |-> User, refresh_sessions |-> RefreshSession, conversations |-> Conversation,
     messages |-> Message, characters |-> Character, personas |-> Persona, memories |-> Memory,
     knowledge_sources |-> KnowledgeSource, knowledge_chunks |-> KnowledgeChunk,
     agent_runs |-> AgentRun, agent_steps |-> AgentStep]

\* An INSERT of the class gives every required column a value, and the table
\* has the columns, the keys, the constraints and the indexes the class declares
\* and takes the values it writes.
Fits(m, d) ==
    /\ m.must \cup m.may \subseteq DOMAIN d.cols
    /\ \A c \in DOMAIN d.cols : d.cols[c] = Required => c \in m.must
    /\ m.keys \subseteq d.keys
    /\ \A u \in m.uniques : [on |-> u, active |-> FALSE] \in d.uniques
    /\ m.indexes \subseteq d.indexes
    /\ \A c \in DOMAIN m.values \cap DOMAIN d.checks : m.values[c] \subseteq d.checks[c]

\* No key of a mapped column deletes or clears otherwise than the class declares.
NoOtherKeys(m, d) ==
    \A k \in d.keys : k.col \in m.must \cup m.may => k \in m.keys

\* No unique constraint the class does not know of restricts its rows.
NoOtherUniques(m, d) ==
    \A u \in d.uniques : u.on \subseteq m.must \cup m.may => u.on \in m.uniques

ModelsFitTables(tables) ==
    \A t \in DOMAIN Models :
        t \in DOMAIN tables /\ Fits(Models[t], tables[t])
        /\ NoOtherKeys(Models[t], tables[t]) /\ NoOtherUniques(Models[t], tables[t])
=============================================================================
