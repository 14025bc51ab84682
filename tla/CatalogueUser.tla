---------------------------- MODULE CatalogueUser ----------------------------
(***************************************************************************)
(* The tables, request and response models, and routes of the business     *)
(* users domain: models/biz_user.py, schemas/v31_biz_user.py and           *)
(* api/v1/endpoints/v31_biz_user.py.  Catalogue explains the fields.       *)
(***************************************************************************)
EXTENDS Catalogue

BizUserLevelTable ==
  [ name |-> "biz_user_level", primary |-> {"id"},
    required |-> {"code", "name", "level_value", "required_growth_points"},
    defaulted |-> PrimaryKeyMixin \cup TimestampMixin \cup {"status", "sort_order"},
    nullable |-> SoftDeleteMixin \cup {"icon_url", "description"}, keys |-> {},
    liveKeys |-> {{"code"}, {"level_value"}}, refs |-> NoRefs, checks |-> {} ]

BizUserLevelSchema ==
  [ requires |-> {"code", "name", "level_value", "required_growth_points"},
    accepts |-> {"icon_url", "status", "sort_order", "description"},
    lenient |-> SoftDeleteMixin \cup {"icon_url", "description"}, hides |-> {},
    filters |-> {"code", "status"} ]

BizUserLevelRoutes ==
  Routes("biz-user-level", "BIZ_USER_MANAGE", BizUserLevelTable, BizUserLevelSchema)

BizUserTable ==
  [ name |-> "biz_user", primary |-> {"id"}, required |-> {"username"},
    defaulted |-> PrimaryKeyMixin \cup TimestampMixin \cup {"status",
        "must_change_password"},
    nullable |-> SoftDeleteMixin \cup {"user_level_id", "password_changed_at",
        "password_expires_at", "last_login_at", "last_login_ip"},
    keys |-> {}, liveKeys |-> {{"username"}},
    refs |-> [user_level_id |-> "biz_user_level"], checks |-> {} ]

BizUserSchema ==
  [ requires |-> {"username"},
    accepts |-> {"status", "user_level_id", "must_change_password", "password_changed_at",
        "password_expires_at", "last_login_at", "last_login_ip"},
    lenient |-> SoftDeleteMixin \cup {"password_changed_at", "password_expires_at",
        "last_login_at", "last_login_ip"},
    hides |-> {}, filters |-> {"status", "user_level_id"} ]

BizUserRoutes ==
  Routes("biz-user", "BIZ_USER_MANAGE", BizUserTable, BizUserSchema)

BizUserProfileTable ==
  [ name |-> "biz_user_profile", primary |-> {"id", "user_id"},
    required |-> {"user_id"}, defaulted |-> PrimaryKeyMixin \cup TimestampMixin,
    nullable |-> {"nickname", "avatar_url", "bio", "gender", "birthday"},
    keys |-> {}, liveKeys |-> {}, refs |-> NoRefs, checks |-> {} ]

BizUserProfileSchema ==
  [ requires |-> {"user_id"},
    accepts |-> {"nickname", "avatar_url", "bio", "gender", "birthday"},
    lenient |-> {"nickname", "avatar_url", "bio", "gender", "birthday"},
    hides |-> {}, filters |-> {} ]

BizUserProfileRoutes ==
  Routes("biz-user-profile", "BIZ_USER_MANAGE",
         BizUserProfileTable, BizUserProfileSchema)

BizUserLoginIdentityTable ==
  [ name |-> "biz_user_login_identity", primary |-> {"id"},
    required |-> {"user_id", "identity_type", "normalized_value"},
    defaulted |-> PrimaryKeyMixin \cup TimestampMixin \cup {"verified", "is_primary"},
    nullable |-> {}, keys |-> {{"identity_type", "normalized_value"}},
    liveKeys |-> {}, refs |-> [user_id |-> "biz_user"], checks |-> {} ]

BizUserLoginIdentitySchema ==
  [ requires |-> {"user_id", "identity_type", "normalized_value"},
    accepts |-> {"verified", "is_primary"}, lenient |-> {}, hides |-> {},
    filters |-> {"user_id"} ]

BizUserLoginIdentityRoutes ==
  Routes("biz-user-login-identity", "BIZ_USER_MANAGE",
         BizUserLoginIdentityTable, BizUserLoginIdentitySchema)

BizUserSessionTable ==
  [ name |-> "biz_user_session", primary |-> {"id"},
    required |-> {"user_id", "session_id", "login_at", "expires_at"},
    defaulted |-> PrimaryKeyMixin,
    nullable |-> {"ip", "user_agent", "last_seen_at", "revoked_at", "revoke_reason"},
    keys |-> {{"session_id"}}, liveKeys |-> {},
    refs |-> [user_id |-> "biz_user"], checks |-> {} ]

BizUserSessionSchema ==
  [ requires |-> {"user_id", "session_id", "login_at", "expires_at"},
    accepts |-> {"ip", "user_agent", "last_seen_at", "revoked_at", "revoke_reason"},
    lenient |-> {"ip", "user_agent", "last_seen_at", "revoked_at", "revoke_reason"},
    hides |-> {}, filters |-> {"user_id"} ]

BizUserSessionRoutes ==
  Routes("biz-user-session", "BIZ_USER_MANAGE",
         BizUserSessionTable, BizUserSessionSchema)

BizUserLoginLogTable ==
  [ name |-> "biz_user_login_log", primary |-> {"id"},
    required |-> {"user_id", "success"},
    defaulted |-> PrimaryKeyMixin \cup {"created_at"},
    nullable |-> {"fail_reason", "ip", "user_agent"}, keys |-> {},
    liveKeys |-> {}, refs |-> [user_id |-> "biz_user"], checks |-> {} ]

BizUserLoginLogSchema ==
  [ requires |-> {"user_id", "success"},
    accepts |-> {"fail_reason", "ip", "user_agent"},
    lenient |-> {"fail_reason", "ip", "user_agent"}, hides |-> {},
    filters |-> {"user_id"} ]

BizUserLoginLogRoutes ==
  Routes("biz-user-login-log", "BIZ_USER_MANAGE",
         BizUserLoginLogTable, BizUserLoginLogSchema)

BizUserPasswordHistoryTable ==
  [ name |-> "biz_user_password_history", primary |-> {"id"},
    required |-> {"user_id", "password_hash"},
    defaulted |-> PrimaryKeyMixin \cup TimestampMixin, nullable |-> {},
    keys |-> {}, liveKeys |-> {}, refs |-> [user_id |-> "biz_user"],
    checks |-> {} ]

BizUserPasswordHistorySchema ==
  [ requires |-> {"user_id"}, accepts |-> {}, lenient |-> {},
    hides |-> {"password_hash"}, filters |-> {"user_id"} ]

BizUserPasswordHistoryRoutes ==
  Routes("biz-user-password-history", "BIZ_USER_MANAGE",
         BizUserPasswordHistoryTable, BizUserPasswordHistorySchema)

BizUserVerificationTable ==
  [ name |-> "biz_user_verification", primary |-> {"id"},
    required |-> {"user_id", "identity_type", "token_hash"},
    defaulted |-> PrimaryKeyMixin \cup {"verified", "created_at"},
    nullable |-> {"expires_at"}, keys |-> {}, liveKeys |-> {},
    refs |-> [user_id |-> "biz_user"], checks |-> {} ]

BizUserVerificationSchema ==
  [ requires |-> {"user_id", "identity_type", "token_hash"},
    accepts |-> {"expires_at", "verified"}, lenient |-> {"expires_at"},
    hides |-> {}, filters |-> {"user_id"} ]

BizUserVerificationRoutes ==
  Routes("biz-user-verification", "BIZ_USER_MANAGE",
         BizUserVerificationTable, BizUserVerificationSchema)

(* Every entity of the domain.                                             *)
UserDomain ==
  {BizUserLevelRoutes, BizUserRoutes, BizUserProfileRoutes, BizUserLoginIdentityRoutes,
   BizUserSessionRoutes, BizUserLoginLogRoutes, BizUserPasswordHistoryRoutes,
   BizUserVerificationRoutes}

=============================================================================
