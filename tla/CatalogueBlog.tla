---------------------------- MODULE CatalogueBlog ----------------------------
(***************************************************************************)
(* The tables, request and response models, and routes of the blog:        *)
(* models/blog.py, schemas/v31_blog.py and api/v1/endpoints/v31_blog.py.   *)
(* Catalogue explains the fields.                                          *)
(***************************************************************************)
EXTENDS Catalogue

BlogAuthorTable ==
  [ name |-> "blog_author", primary |-> {"id"},
    required |-> {"user_id", "author_name"},
    defaulted |-> PrimaryKeyMixin \cup TimestampMixin \cup {"status"},
    nullable |-> {"approved_at", "approved_by"}, keys |-> {{"user_id"}},
    liveKeys |-> {}, refs |-> [approved_by |-> "admin_users"], checks |-> {} ]

BlogAuthorSchema ==
  [ requires |-> {"user_id", "author_name"},
    accepts |-> {"status", "approved_at"}, lenient |-> {"approved_at"},
    hides |-> {}, filters |-> {"status"} ]

BlogAuthorRoutes ==
  Routes("blog-author", "BLOG_MANAGE", BlogAuthorTable, BlogAuthorSchema)

BlogAuthorApplicationTable ==
  [ name |-> "blog_author_application", primary |-> {"id"},
    required |-> {"user_id"},
    defaulted |-> PrimaryKeyMixin \cup TimestampMixin \cup {"status"},
    nullable |-> {"application_reason", "reviewed_by", "reviewed_at", "review_remark"},
    keys |-> {}, liveKeys |-> {},
    refs |-> [user_id |-> "biz_user", reviewed_by |-> "admin_users"],
    checks |-> {} ]

BlogAuthorApplicationSchema ==
  [ requires |-> {"user_id"},
    accepts |-> {"application_reason", "status", "reviewed_at", "review_remark"},
    lenient |-> {"application_reason", "reviewed_at", "review_remark"},
    hides |-> {}, filters |-> {"user_id", "status"} ]

BlogAuthorApplicationRoutes ==
  Routes("blog-author-application", "BLOG_MANAGE",
         BlogAuthorApplicationTable, BlogAuthorApplicationSchema)

BlogCategoryTable ==
  [ name |-> "blog_category", primary |-> {"id"}, required |-> {"code", "name"},
    defaulted |-> PrimaryKeyMixin \cup TimestampMixin \cup {"sort_order", "status"},
    nullable |-> SoftDeleteMixin \cup {"parent_id"}, keys |-> {},
    liveKeys |-> {{"code"}}, refs |-> [parent_id |-> "blog_category"],
    checks |-> {} ]

BlogCategorySchema ==
  [ requires |-> {"code", "name"},
    accepts |-> {"parent_id", "sort_order", "status"},
    lenient |-> SoftDeleteMixin, hides |-> {},
    filters |-> {"parent_id", "code", "status"} ]

BlogCategoryRoutes ==
  Routes("blog-category", "BLOG_MANAGE", BlogCategoryTable, BlogCategorySchema)

BlogArticleTable ==
  [ name |-> "blog_article", primary |-> {"id"},
    required |-> {"author_id", "title", "slug", "content"},
    defaulted |-> PrimaryKeyMixin \cup TimestampMixin \cup {"status", "view_count",
        "like_count", "favorite_count", "comment_count"},
    nullable |-> SoftDeleteMixin \cup {"category_id", "summary", "cover_url",
        "published_at"},
    keys |-> {}, liveKeys |-> {{"slug"}},
    refs |-> [author_id |-> "blog_author", category_id |-> "blog_category"],
    checks |-> {} ]

BlogArticleSchema ==
  [ requires |-> {"author_id", "title", "slug", "content"},
    accepts |-> {"category_id", "summary", "cover_url", "status", "published_at",
        "view_count", "like_count", "favorite_count", "comment_count"},
    lenient |-> SoftDeleteMixin \cup {"summary", "cover_url", "published_at"},
    hides |-> {}, filters |-> {"author_id", "category_id", "status"} ]

BlogArticleRoutes ==
  Routes("blog-article", "BLOG_MANAGE", BlogArticleTable, BlogArticleSchema)

BlogArticleVersionTable ==
  [ name |-> "blog_article_version", primary |-> {"id"},
    required |-> {"article_id", "version_no", "title", "content", "created_by"},
    defaulted |-> PrimaryKeyMixin \cup {"created_at"}, nullable |-> {"summary"},
    keys |-> {{"article_id", "version_no"}}, liveKeys |-> {},
    refs |-> [article_id |-> "blog_article", created_by |-> "admin_users"],
    checks |-> {} ]

BlogArticleVersionSchema ==
  [ requires |-> {"article_id", "version_no", "title", "content"},
    accepts |-> {"summary"}, lenient |-> {"summary"}, hides |-> {},
    filters |-> {"article_id"} ]

BlogArticleVersionRoutes ==
  Routes("blog-article-version", "BLOG_MANAGE",
         BlogArticleVersionTable, BlogArticleVersionSchema)

BlogTagTable ==
  [ name |-> "blog_tag", primary |-> {"id"}, required |-> {"code", "name"},
    defaulted |-> PrimaryKeyMixin \cup {"status", "created_at"},
    nullable |-> {}, keys |-> {{"code"}}, liveKeys |-> {}, refs |-> NoRefs,
    checks |-> {} ]

BlogTagSchema ==
  [ requires |-> {"code", "name"}, accepts |-> {"status"}, lenient |-> {},
    hides |-> {}, filters |-> {"code", "status"} ]

BlogTagRoutes ==
  Routes("blog-tag", "BLOG_MANAGE", BlogTagTable, BlogTagSchema)

BlogArticleTagTable ==
  [ name |-> "blog_article_tag", primary |-> {"article_id", "tag_id"},
    required |-> {"article_id", "tag_id"}, defaulted |-> {}, nullable |-> {},
    keys |-> {}, liveKeys |-> {},
    refs |-> [article_id |-> "blog_article", tag_id |-> "blog_tag"],
    checks |-> {} ]

BlogArticleTagSchema ==
  [ requires |-> {"article_id", "tag_id"}, accepts |-> {}, lenient |-> {},
    hides |-> {}, filters |-> {"article_id", "tag_id"} ]

BlogArticleTagRoutes ==
  Routes("blog-article-tag", "BLOG_MANAGE", BlogArticleTagTable, BlogArticleTagSchema)

BlogCommentTable ==
  [ name |-> "blog_comment", primary |-> {"id"},
    required |-> {"article_id", "user_id", "content"},
    defaulted |-> PrimaryKeyMixin \cup TimestampMixin \cup {"status"},
    nullable |-> SoftDeleteMixin \cup {"parent_id"}, keys |-> {},
    liveKeys |-> {},
    refs |-> [article_id |-> "blog_article", user_id |-> "biz_user", parent_id |->
        "blog_comment"],
    checks |-> {} ]

BlogCommentSchema ==
  [ requires |-> {"article_id", "user_id", "content"},
    accepts |-> {"parent_id", "status"}, lenient |-> SoftDeleteMixin,
    hides |-> {}, filters |-> {"article_id", "user_id", "parent_id", "status"} ]

BlogCommentRoutes ==
  Routes("blog-comment", "BLOG_MANAGE", BlogCommentTable, BlogCommentSchema)

BlogLikeTable ==
  [ name |-> "blog_like", primary |-> {"id", "user_id", "article_id"},
    required |-> {"user_id", "article_id"},
    defaulted |-> PrimaryKeyMixin \cup {"created_at"}, nullable |-> {},
    keys |-> {}, liveKeys |-> {},
    refs |-> [user_id |-> "biz_user", article_id |-> "blog_article"],
    checks |-> {} ]

BlogLikeSchema ==
  [ requires |-> {"user_id", "article_id"}, accepts |-> {}, lenient |-> {},
    hides |-> {}, filters |-> {"user_id", "article_id"} ]

BlogLikeRoutes ==
  Routes("blog-like", "BLOG_MANAGE", BlogLikeTable, BlogLikeSchema)

BlogFavoriteTable ==
  [ name |-> "blog_favorite", primary |-> {"id", "user_id", "article_id"},
    required |-> {"user_id", "article_id"},
    defaulted |-> PrimaryKeyMixin \cup {"created_at"}, nullable |-> {},
    keys |-> {}, liveKeys |-> {},
    refs |-> [user_id |-> "biz_user", article_id |-> "blog_article"],
    checks |-> {} ]

BlogFavoriteSchema ==
  [ requires |-> {"user_id", "article_id"}, accepts |-> {}, lenient |-> {},
    hides |-> {}, filters |-> {"user_id", "article_id"} ]

BlogFavoriteRoutes ==
  Routes("blog-favorite", "BLOG_MANAGE", BlogFavoriteTable, BlogFavoriteSchema)

BlogUserFollowTable ==
  [ name |-> "blog_user_follow",
    primary |-> {"id", "follower_user_id", "followed_user_id"},
    required |-> {"follower_user_id", "followed_user_id"},
    defaulted |-> PrimaryKeyMixin \cup {"created_at"}, nullable |-> {},
    keys |-> {}, liveKeys |-> {},
    refs |-> [follower_user_id |-> "biz_user", followed_user_id |-> "biz_user"],
    checks |-> {"follower_user_id <> followed_user_id"} ]

BlogUserFollowSchema ==
  [ requires |-> {"follower_user_id", "followed_user_id"}, accepts |-> {},
    lenient |-> {}, hides |-> {},
    filters |-> {"follower_user_id", "followed_user_id"} ]

BlogUserFollowRoutes ==
  Routes("blog-user-follow", "BLOG_MANAGE", BlogUserFollowTable, BlogUserFollowSchema)

(* Every entity of the domain.                                             *)
BlogDomain ==
  {BlogAuthorRoutes, BlogAuthorApplicationRoutes, BlogCategoryRoutes, BlogArticleRoutes,
   BlogArticleVersionRoutes, BlogTagRoutes, BlogArticleTagRoutes, BlogCommentRoutes,
   BlogLikeRoutes, BlogFavoriteRoutes, BlogUserFollowRoutes}

=============================================================================
