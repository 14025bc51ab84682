---------------------------- MODULE CatalogueTool ----------------------------
(***************************************************************************)
(* The tables, request and response models, and routes of the tools        *)
(* domain: models/tool.py, schemas/v31_tool.py and                         *)
(* api/v1/endpoints/v31_tool.py.  Catalogue explains the fields.           *)
(***************************************************************************)
EXTENDS Catalogue

ToolCategoryTable ==
  [ name |-> "tool_category", primary |-> {"id"}, required |-> {"code", "name"},
    defaulted |-> PrimaryKeyMixin \cup TimestampMixin \cup {"sort_order", "status"},
    nullable |-> SoftDeleteMixin \cup {"parent_id", "icon_url"}, keys |-> {},
    liveKeys |-> {{"code"}}, refs |-> [parent_id |-> "tool_category"],
    checks |-> {} ]

ToolCategorySchema ==
  [ requires |-> {"code", "name"},
    accepts |-> {"parent_id", "icon_url", "sort_order", "status"},
    lenient |-> SoftDeleteMixin \cup {"icon_url"}, hides |-> {},
    filters |-> {"parent_id", "code", "status"} ]

ToolCategoryRoutes ==
  Routes("tool-category", "TOOL_MANAGE", ToolCategoryTable, ToolCategorySchema)

ToolTable ==
  [ name |-> "tool", primary |-> {"id"},
    required |-> {"category_id", "code", "name", "execution_mode"},
    defaulted |-> PrimaryKeyMixin \cup TimestampMixin \cup {"lifecycle_status",
        "visibility", "sort_order", "is_recommended"},
    nullable |-> SoftDeleteMixin \cup {"description", "component_key", "tags"},
    keys |-> {}, liveKeys |-> {{"code"}},
    refs |-> [category_id |-> "tool_category"], checks |-> {} ]

ToolSchema ==
  [ requires |-> {"category_id", "code", "name", "execution_mode"},
    accepts |-> {"description", "component_key", "lifecycle_status", "visibility",
        "sort_order", "is_recommended", "tags"},
    lenient |-> SoftDeleteMixin \cup {"description", "component_key", "tags"},
    hides |-> {}, filters |-> {"category_id", "code", "visibility"} ]

ToolRoutes ==
  Routes("tool", "TOOL_MANAGE", ToolTable, ToolSchema)

ToolVersionTable ==
  [ name |-> "tool_version", primary |-> {"id"},
    required |-> {"tool_id", "version"},
    defaulted |-> PrimaryKeyMixin \cup {"status", "created_at"},
    nullable |-> {"config", "published_at"}, keys |-> {{"tool_id", "version"}},
    liveKeys |-> {}, refs |-> [tool_id |-> "tool"], checks |-> {} ]

ToolVersionSchema ==
  [ requires |-> {"tool_id", "version"},
    accepts |-> {"config", "status", "published_at"},
    lenient |-> {"config", "published_at"}, hides |-> {},
    filters |-> {"tool_id", "status"} ]

ToolVersionRoutes ==
  Routes("tool-version", "TOOL_MANAGE", ToolVersionTable, ToolVersionSchema)

ToolComponentRegistryTable ==
  [ name |-> "tool_component_registry", primary |-> {"id"},
    required |-> {"component_key", "component_type", "implementation_ref"},
    defaulted |-> PrimaryKeyMixin \cup TimestampMixin \cup {"status"},
    nullable |-> {}, keys |-> {{"component_key"}}, liveKeys |-> {},
    refs |-> NoRefs, checks |-> {} ]

ToolComponentRegistrySchema ==
  [ requires |-> {"component_key", "component_type", "implementation_ref"},
    accepts |-> {"status"}, lenient |-> {}, hides |-> {},
    filters |-> {"status"} ]

ToolComponentRegistryRoutes ==
  Routes("tool-component-registry", "TOOL_MANAGE",
         ToolComponentRegistryTable, ToolComponentRegistrySchema)

ToolAccessPolicyTable ==
  [ name |-> "tool_access_policy", primary |-> {"id"},
    required |-> {"tool_id", "subject_type"},
    defaulted |-> PrimaryKeyMixin \cup TimestampMixin \cup {"enabled"},
    nullable |-> {"user_level_id", "quota_config"}, keys |-> {},
    liveKeys |-> {},
    refs |-> [tool_id |-> "tool", user_level_id |-> "biz_user_level"],
    checks |-> {} ]

ToolAccessPolicySchema ==
  [ requires |-> {"tool_id", "subject_type"},
    accepts |-> {"user_level_id", "enabled", "quota_config"},
    lenient |-> {"quota_config"}, hides |-> {},
    filters |-> {"tool_id", "user_level_id"} ]

ToolAccessPolicyRoutes ==
  Routes("tool-access-policy", "TOOL_MANAGE",
         ToolAccessPolicyTable, ToolAccessPolicySchema)

ToolUsageEventTable ==
  [ name |-> "tool_usage_event", primary |-> {"id"}, required |-> {"tool_id"},
    defaulted |-> PrimaryKeyMixin \cup {"created_at"},
    nullable |-> {"user_id", "anonymous_id_hash", "result", "duration_ms", "execution_mode",
        "trace_id"},
    keys |-> {}, liveKeys |-> {}, refs |-> [user_id |-> "biz_user"],
    checks |-> {} ]

ToolUsageEventSchema ==
  [ requires |-> {"tool_id"},
    accepts |-> {"user_id", "anonymous_id_hash", "result", "duration_ms", "execution_mode",
        "trace_id"},
    lenient |-> {"anonymous_id_hash", "result", "duration_ms", "execution_mode",
        "trace_id"},
    hides |-> {}, filters |-> {"user_id"} ]

ToolUsageEventRoutes ==
  Routes("tool-usage-event", "TOOL_MANAGE", ToolUsageEventTable, ToolUsageEventSchema)

ToolUsageDailyTable ==
  [ name |-> "tool_usage_daily", primary |-> {"id"},
    required |-> {"tool_id", "stat_date"},
    defaulted |-> PrimaryKeyMixin \cup {"total_count", "success_count", "failure_count",
        "guest_count", "user_count", "unique_user_count"},
    nullable |-> {"avg_duration_ms"}, keys |-> {{"tool_id", "stat_date"}},
    liveKeys |-> {}, refs |-> NoRefs, checks |-> {} ]

ToolUsageDailySchema ==
  [ requires |-> {"tool_id", "stat_date"},
    accepts |-> {"total_count", "success_count", "failure_count", "guest_count",
        "user_count", "unique_user_count", "avg_duration_ms"},
    lenient |-> {"avg_duration_ms"}, hides |-> {}, filters |-> {} ]

ToolUsageDailyRoutes ==
  Routes("tool-usage-daily", "TOOL_MANAGE", ToolUsageDailyTable, ToolUsageDailySchema)

ToolRecentUsageTable ==
  [ name |-> "tool_recent_usage", primary |-> {"id"},
    required |-> {"user_id", "tool_id"},
    defaulted |-> PrimaryKeyMixin \cup {"last_used_at", "use_count"},
    nullable |-> {}, keys |-> {{"user_id", "tool_id"}}, liveKeys |-> {},
    refs |-> [user_id |-> "biz_user", tool_id |-> "tool"], checks |-> {} ]

ToolRecentUsageSchema ==
  [ requires |-> {"user_id", "tool_id"},
    accepts |-> {"last_used_at", "use_count"}, lenient |-> {}, hides |-> {},
    filters |-> {"user_id", "tool_id"} ]

ToolRecentUsageRoutes ==
  Routes("tool-recent-usage", "TOOL_MANAGE",
         ToolRecentUsageTable, ToolRecentUsageSchema)

ToolPopularityDailyTable ==
  [ name |-> "tool_popularity_daily", primary |-> {"id"},
    required |-> {"tool_id", "stat_date"},
    defaulted |-> PrimaryKeyMixin \cup {"score"}, nullable |-> {"rank_no"},
    keys |-> {{"tool_id", "stat_date"}}, liveKeys |-> {}, refs |-> NoRefs,
    checks |-> {} ]

ToolPopularityDailySchema ==
  [ requires |-> {"tool_id", "stat_date"}, accepts |-> {"score", "rank_no"},
    lenient |-> {"rank_no"}, hides |-> {}, filters |-> {} ]

ToolPopularityDailyRoutes ==
  Routes("tool-popularity-daily", "TOOL_MANAGE",
         ToolPopularityDailyTable, ToolPopularityDailySchema)

(* Every entity of the domain.                                             *)
ToolDomain ==
  {ToolCategoryRoutes, ToolRoutes, ToolVersionRoutes, ToolComponentRegistryRoutes,
   ToolAccessPolicyRoutes, ToolUsageEventRoutes, ToolUsageDailyRoutes,
   ToolRecentUsageRoutes, ToolPopularityDailyRoutes}

=============================================================================
