---------------------------- MODULE CatalogueGrowth ----------------------------
(***************************************************************************)
(* The tables, request and response models, and routes of the growth       *)
(* centre: models/growth.py, schemas/v31_growth.py and                     *)
(* api/v1/endpoints/v31_growth.py.  Catalogue explains the fields.         *)
(***************************************************************************)
EXTENDS Catalogue

BizUserGrowthAccountTable ==
  [ name |-> "biz_user_growth_account", primary |-> {"id"},
    required |-> {"user_id"},
    defaulted |-> PrimaryKeyMixin \cup TimestampMixin \cup {"total_growth_points"},
    nullable |-> {"current_level_id"}, keys |-> {{"user_id"}}, liveKeys |-> {},
    refs |-> [current_level_id |-> "biz_user_level"], checks |-> {} ]

BizUserGrowthAccountSchema ==
  [ requires |-> {"user_id"},
    accepts |-> {"total_growth_points", "current_level_id"}, lenient |-> {},
    hides |-> {}, filters |-> {"current_level_id"} ]

BizUserGrowthAccountRoutes ==
  Routes("biz-user-growth-account", "GROWTH_MANAGE",
         BizUserGrowthAccountTable, BizUserGrowthAccountSchema)

BizUserPointAccountTable ==
  [ name |-> "biz_user_point_account", primary |-> {"id"},
    required |-> {"user_id"},
    defaulted |-> PrimaryKeyMixin \cup TimestampMixin \cup {"total_earned_points",
        "total_spent_points", "balance_points"},
    nullable |-> {}, keys |-> {{"user_id"}}, liveKeys |-> {}, refs |-> NoRefs,
    checks |-> {"total_earned_points >= 0", "total_spent_points >= 0",
        "balance_points >= 0"} ]

BizUserPointAccountSchema ==
  [ requires |-> {"user_id"},
    accepts |-> {"total_earned_points", "total_spent_points", "balance_points"},
    lenient |-> {}, hides |-> {}, filters |-> {} ]

BizUserPointAccountRoutes ==
  Routes("biz-user-point-account", "GROWTH_MANAGE",
         BizUserPointAccountTable, BizUserPointAccountSchema)

BizGrowthRuleTable ==
  [ name |-> "biz_growth_rule", primary |-> {"id"},
    required |-> {"code", "name", "source_type", "event_type", "reward_points"},
    defaulted |-> PrimaryKeyMixin \cup TimestampMixin \cup {"requires_success", "status"},
    nullable |-> {"daily_limit", "weekly_limit", "monthly_limit", "cooldown_seconds",
        "effective_from", "effective_to", "description"},
    keys |-> {{"code"}}, liveKeys |-> {}, refs |-> NoRefs, checks |-> {} ]

BizGrowthRuleSchema ==
  [ requires |-> {"code", "name", "source_type", "event_type", "reward_points"},
    accepts |-> {"daily_limit", "weekly_limit", "monthly_limit", "cooldown_seconds",
        "requires_success", "status", "effective_from", "effective_to", "description"},
    lenient |-> {"daily_limit", "weekly_limit", "monthly_limit", "cooldown_seconds",
        "effective_from", "effective_to", "description"},
    hides |-> {}, filters |-> {"code", "status"} ]

BizGrowthRuleRoutes ==
  Routes("biz-growth-rule", "GROWTH_MANAGE", BizGrowthRuleTable, BizGrowthRuleSchema)

BizPointRuleTable ==
  [ name |-> "biz_point_rule", primary |-> {"id"},
    required |-> {"code", "name", "source_type", "event_type", "reward_points"},
    defaulted |-> PrimaryKeyMixin \cup TimestampMixin \cup {"requires_success", "status"},
    nullable |-> {"daily_limit", "weekly_limit", "monthly_limit", "cooldown_seconds",
        "effective_from", "effective_to", "description"},
    keys |-> {{"code"}}, liveKeys |-> {}, refs |-> NoRefs, checks |-> {} ]

BizPointRuleSchema ==
  [ requires |-> {"code", "name", "source_type", "event_type", "reward_points"},
    accepts |-> {"daily_limit", "weekly_limit", "monthly_limit", "cooldown_seconds",
        "requires_success", "status", "effective_from", "effective_to", "description"},
    lenient |-> {"daily_limit", "weekly_limit", "monthly_limit", "cooldown_seconds",
        "effective_from", "effective_to", "description"},
    hides |-> {}, filters |-> {"code", "status"} ]

BizPointRuleRoutes ==
  Routes("biz-point-rule", "GROWTH_MANAGE", BizPointRuleTable, BizPointRuleSchema)

BizGrowthEventTable ==
  [ name |-> "biz_growth_event", primary |-> {"id"},
    required |-> {"event_id", "user_id", "source_type", "event_type", "idempotency_key"},
    defaulted |-> PrimaryKeyMixin \cup {"processed", "created_at"},
    nullable |-> {"source_id", "event_data", "processed_at"},
    keys |-> {{"event_id"}, {"idempotency_key"}}, liveKeys |-> {},
    refs |-> NoRefs, checks |-> {} ]

BizGrowthEventSchema ==
  [ requires |-> {"event_id", "user_id", "source_type", "event_type", "idempotency_key"},
    accepts |-> {"source_id", "event_data", "processed", "processed_at"},
    lenient |-> {"source_id", "event_data", "processed_at"}, hides |-> {},
    filters |-> {} ]

BizGrowthEventRoutes ==
  Routes("biz-growth-event", "GROWTH_MANAGE", BizGrowthEventTable, BizGrowthEventSchema)

BizUserGrowthTransactionTable ==
  [ name |-> "biz_user_growth_transaction", primary |-> {"id"},
    required |-> {"user_id", "change_points", "balance_after", "source_type",
        "transaction_type", "operator_type"},
    defaulted |-> PrimaryKeyMixin \cup {"created_at"},
    nullable |-> {"rule_id", "source_id", "event_id", "description", "operator_id"},
    keys |-> {}, liveKeys |-> {}, refs |-> [rule_id |-> "biz_growth_rule"],
    checks |-> {} ]

BizUserGrowthTransactionSchema ==
  [ requires |-> {"user_id", "change_points", "balance_after", "source_type",
      "transaction_type", "operator_type"},
    accepts |-> {"rule_id", "source_id", "event_id", "description"},
    lenient |-> {"source_id", "event_id", "description", "operator_id"},
    hides |-> {}, filters |-> {"rule_id"} ]

BizUserGrowthTransactionRoutes ==
  Routes("biz-user-growth-transaction", "GROWTH_MANAGE",
         BizUserGrowthTransactionTable, BizUserGrowthTransactionSchema)

BizUserPointTransactionTable ==
  [ name |-> "biz_user_point_transaction", primary |-> {"id"},
    required |-> {"user_id", "change_points", "balance_after", "source_type",
        "transaction_type", "operator_type"},
    defaulted |-> PrimaryKeyMixin \cup {"created_at"},
    nullable |-> {"rule_id", "source_id", "event_id", "description", "operator_id"},
    keys |-> {}, liveKeys |-> {}, refs |-> [rule_id |-> "biz_point_rule"],
    checks |-> {} ]

BizUserPointTransactionSchema ==
  [ requires |-> {"user_id", "change_points", "balance_after", "source_type",
      "transaction_type", "operator_type"},
    accepts |-> {"rule_id", "source_id", "event_id", "description"},
    lenient |-> {"source_id", "event_id", "description", "operator_id"},
    hides |-> {}, filters |-> {"rule_id"} ]

BizUserPointTransactionRoutes ==
  Routes("biz-user-point-transaction", "GROWTH_MANAGE",
         BizUserPointTransactionTable, BizUserPointTransactionSchema)

BizUserLevelHistoryTable ==
  [ name |-> "biz_user_level_history", primary |-> {"id"},
    required |-> {"user_id", "to_level_id", "growth_points", "change_type"},
    defaulted |-> PrimaryKeyMixin \cup {"created_at"},
    nullable |-> {"from_level_id", "reason"}, keys |-> {}, liveKeys |-> {},
    refs |-> [from_level_id |-> "biz_user_level", to_level_id |-> "biz_user_level"],
    checks |-> {} ]

BizUserLevelHistorySchema ==
  [ requires |-> {"user_id", "to_level_id", "growth_points", "change_type"},
    accepts |-> {"from_level_id", "reason"}, lenient |-> {"reason"},
    hides |-> {}, filters |-> {"from_level_id", "to_level_id"} ]

BizUserLevelHistoryRoutes ==
  Routes("biz-user-level-history", "GROWTH_MANAGE",
         BizUserLevelHistoryTable, BizUserLevelHistorySchema)

BizUserLevelBenefitTable ==
  [ name |-> "biz_user_level_benefit", primary |-> {"id"},
    required |-> {"level_id", "benefit_type", "benefit_code"},
    defaulted |-> PrimaryKeyMixin \cup TimestampMixin \cup {"status"},
    nullable |-> {"benefit_value"}, keys |-> {}, liveKeys |-> {},
    refs |-> [level_id |-> "biz_user_level"], checks |-> {} ]

BizUserLevelBenefitSchema ==
  [ requires |-> {"level_id", "benefit_type", "benefit_code"},
    accepts |-> {"benefit_value", "status"}, lenient |-> {"benefit_value"},
    hides |-> {}, filters |-> {"level_id", "status"} ]

BizUserLevelBenefitRoutes ==
  Routes("biz-user-level-benefit", "GROWTH_MANAGE",
         BizUserLevelBenefitTable, BizUserLevelBenefitSchema)

BizCosmeticTable ==
  [ name |-> "biz_cosmetic", primary |-> {"id"},
    required |-> {"code", "name", "cosmetic_type"},
    defaulted |-> PrimaryKeyMixin \cup TimestampMixin \cup {"status"},
    nullable |-> SoftDeleteMixin \cup {"image_url", "animation_url", "rarity",
        "description"},
    keys |-> {}, liveKeys |-> {{"code"}}, refs |-> NoRefs, checks |-> {} ]

BizCosmeticSchema ==
  [ requires |-> {"code", "name", "cosmetic_type"},
    accepts |-> {"image_url", "animation_url", "rarity", "status", "description"},
    lenient |-> SoftDeleteMixin \cup {"image_url", "animation_url", "rarity",
        "description"},
    hides |-> {}, filters |-> {"code", "status"} ]

BizCosmeticRoutes ==
  Routes("biz-cosmetic", "GROWTH_MANAGE", BizCosmeticTable, BizCosmeticSchema)

BizUserCosmeticTable ==
  [ name |-> "biz_user_cosmetic", primary |-> {"id"},
    required |-> {"user_id", "cosmetic_id", "source_type"},
    defaulted |-> PrimaryKeyMixin \cup {"acquired_at"},
    nullable |-> {"source_id"}, keys |-> {{"user_id", "cosmetic_id"}},
    liveKeys |-> {}, refs |-> [cosmetic_id |-> "biz_cosmetic"], checks |-> {} ]

BizUserCosmeticSchema ==
  [ requires |-> {"user_id", "cosmetic_id", "source_type"},
    accepts |-> {"source_id", "acquired_at"}, lenient |-> {"source_id"},
    hides |-> {}, filters |-> {"cosmetic_id"} ]

BizUserCosmeticRoutes ==
  Routes("biz-user-cosmetic", "GROWTH_MANAGE",
         BizUserCosmeticTable, BizUserCosmeticSchema)

BizUserEquipmentTable ==
  [ name |-> "biz_user_equipment", primary |-> {"id"}, required |-> {"user_id"},
    defaulted |-> PrimaryKeyMixin \cup {"updated_at"},
    nullable |-> {"avatar_cosmetic_id", "avatar_frame_cosmetic_id", "crown_cosmetic_id",
        "badge_cosmetic_id", "title_cosmetic_id", "name_effect_cosmetic_id"},
    keys |-> {{"user_id"}}, liveKeys |-> {},
    refs |-> [avatar_cosmetic_id |-> "biz_cosmetic", avatar_frame_cosmetic_id |->
        "biz_cosmetic", crown_cosmetic_id |-> "biz_cosmetic", badge_cosmetic_id |->
        "biz_cosmetic", title_cosmetic_id |-> "biz_cosmetic", name_effect_cosmetic_id |->
        "biz_cosmetic"],
    checks |-> {} ]

BizUserEquipmentSchema ==
  [ requires |-> {"user_id"},
    accepts |-> {"avatar_cosmetic_id", "avatar_frame_cosmetic_id", "crown_cosmetic_id",
        "badge_cosmetic_id", "title_cosmetic_id", "name_effect_cosmetic_id"},
    lenient |-> {}, hides |-> {},
    filters |-> {"avatar_cosmetic_id", "avatar_frame_cosmetic_id", "crown_cosmetic_id",
        "badge_cosmetic_id", "title_cosmetic_id", "name_effect_cosmetic_id"} ]

BizUserEquipmentRoutes ==
  Routes("biz-user-equipment", "GROWTH_MANAGE",
         BizUserEquipmentTable, BizUserEquipmentSchema)

BizTaskTable ==
  [ name |-> "biz_task", primary |-> {"id"},
    required |-> {"code", "name", "task_type"},
    defaulted |-> PrimaryKeyMixin \cup TimestampMixin \cup {"reward_growth_points",
        "reward_points", "repeat_type", "status"},
    nullable |-> {"target_value", "effective_from", "effective_to"},
    keys |-> {{"code"}}, liveKeys |-> {}, refs |-> NoRefs, checks |-> {} ]

BizTaskSchema ==
  [ requires |-> {"code", "name", "task_type"},
    accepts |-> {"target_value", "reward_growth_points", "reward_points", "repeat_type",
        "status", "effective_from", "effective_to"},
    lenient |-> {"target_value", "effective_from", "effective_to"},
    hides |-> {}, filters |-> {"code", "status"} ]

BizTaskRoutes ==
  Routes("biz-task", "GROWTH_MANAGE", BizTaskTable, BizTaskSchema)

BizUserTaskTable ==
  [ name |-> "biz_user_task", primary |-> {"id"},
    required |-> {"user_id", "task_id"},
    defaulted |-> PrimaryKeyMixin \cup {"progress", "status", "created_at"},
    nullable |-> {"completed_at", "claimed_at"},
    keys |-> {{"user_id", "task_id"}}, liveKeys |-> {},
    refs |-> [task_id |-> "biz_task"], checks |-> {} ]

BizUserTaskSchema ==
  [ requires |-> {"user_id", "task_id"},
    accepts |-> {"progress", "status", "completed_at", "claimed_at"},
    lenient |-> {"completed_at", "claimed_at"}, hides |-> {},
    filters |-> {"task_id", "status"} ]

BizUserTaskRoutes ==
  Routes("biz-user-task", "GROWTH_MANAGE", BizUserTaskTable, BizUserTaskSchema)

BizAchievementTable ==
  [ name |-> "biz_achievement", primary |-> {"id"},
    required |-> {"code", "name", "achievement_type"},
    defaulted |-> PrimaryKeyMixin \cup TimestampMixin \cup {"reward_growth_points",
        "reward_points", "status"},
    nullable |-> {"icon_url", "target_value", "reward_cosmetic_id"},
    keys |-> {{"code"}}, liveKeys |-> {},
    refs |-> [reward_cosmetic_id |-> "biz_cosmetic"], checks |-> {} ]

BizAchievementSchema ==
  [ requires |-> {"code", "name", "achievement_type"},
    accepts |-> {"icon_url", "target_value", "reward_growth_points", "reward_points",
        "reward_cosmetic_id", "status"},
    lenient |-> {"icon_url", "target_value"}, hides |-> {},
    filters |-> {"code", "reward_cosmetic_id", "status"} ]

BizAchievementRoutes ==
  Routes("biz-achievement", "GROWTH_MANAGE", BizAchievementTable, BizAchievementSchema)

BizUserAchievementTable ==
  [ name |-> "biz_user_achievement", primary |-> {"id"},
    required |-> {"user_id", "achievement_id"},
    defaulted |-> PrimaryKeyMixin \cup {"progress", "created_at"},
    nullable |-> {"completed_at"}, keys |-> {{"user_id", "achievement_id"}},
    liveKeys |-> {}, refs |-> [achievement_id |-> "biz_achievement"],
    checks |-> {} ]

BizUserAchievementSchema ==
  [ requires |-> {"user_id", "achievement_id"},
    accepts |-> {"progress", "completed_at"}, lenient |-> {"completed_at"},
    hides |-> {}, filters |-> {"achievement_id"} ]

BizUserAchievementRoutes ==
  Routes("biz-user-achievement", "GROWTH_MANAGE",
         BizUserAchievementTable, BizUserAchievementSchema)

(* Every entity of the domain.                                             *)
GrowthDomain ==
  {BizUserGrowthAccountRoutes, BizUserPointAccountRoutes, BizGrowthRuleRoutes,
   BizPointRuleRoutes, BizGrowthEventRoutes, BizUserGrowthTransactionRoutes,
   BizUserPointTransactionRoutes, BizUserLevelHistoryRoutes, BizUserLevelBenefitRoutes,
   BizCosmeticRoutes, BizUserCosmeticRoutes, BizUserEquipmentRoutes, BizTaskRoutes,
   BizUserTaskRoutes, BizAchievementRoutes, BizUserAchievementRoutes}

=============================================================================
