----------------------------- MODULE Catalogue -----------------------------
(***************************************************************************)
(* How the generated V3.1 domains are described: what the four CatalogueX   *)
(* modules say of each entity, and the rule by which                        *)
(* scripts/gen_v31_crud.py wrote the request and response models from the   *)
(* tables.                                                                  *)
(*                                                                          *)
(* A table is a record of sets of column names:                             *)
(*   primary    the primary key                                             *)
(*   required   NOT NULL, and nothing fills them in                         *)
(*   defaulted  NOT NULL, with a default the ORM fills in                   *)
(*   nullable   may be NULL                                                 *)
(*   keys       unique constraints and unique indexes, each a column set    *)
(*   liveKeys   unique indexes WHERE deleted_at IS NULL                     *)
(*   refs       foreign keys, from column to table                          *)
(*   checks     CHECK constraints, as written                               *)
(* A schema is the record of                                                *)
(*   requires   what a creation must name                                   *)
(*   accepts    what it may name besides; an update may name all of both    *)
(*   lenient    columns whose response field admits NULL                    *)
(*   hides      columns the response has no field for                       *)
(*   filters    columns a list may be restricted by                         *)
(***************************************************************************)
EXTENDS Naturals, Sequences, FiniteSets, TLC

PrimaryKeyMixin == {"id"}
TimestampMixin  == {"created_at", "updated_at"}
SoftDeleteMixin == {"deleted_at"}

(* Written where a table has no foreign key.                                *)
NoRefs == [column \in {} |-> ""]

Columns(table) == table.required \cup table.defaulted \cup table.nullable

(* Columns no request ever names: _NEVER_REQUEST, _SERVER_MANAGED and       *)
(* _SENSITIVE of the generator.                                             *)
NeverRequested == {"id", "created_at", "updated_at", "deleted_at"}
ServerManaged  == {"created_by", "created_by_username", "updated_by", "approved_by",
                   "reviewed_by", "operator_id", "operator_username"}
Sensitive      == {"password_hash", "password", "salt", "secret", "token", "access_token",
                   "refresh_token", "totp_secret", "mfa_secret", "credential"}
Filterable     == {"status", "type", "code", "category", "visibility", "state", "level",
                   "kind"}

Requestable(table) == Columns(table) \ (NeverRequested \cup ServerManaged \cup Sensitive)

(* The schema the generator writes for a table.  A foreign key is typed     *)
(* SnowflakeId before its being nullable is looked at.                      *)
GeneratedSchema(table) ==
  [ requires |-> Requestable(table) \cap table.required,
    accepts  |-> Requestable(table) \ table.required,
    lenient  |-> table.nullable \ (DOMAIN table.refs \cup Sensitive),
    hides    |-> Columns(table) \cap Sensitive,
    filters  |-> Requestable(table) \cap (Filterable \cup DOMAIN table.refs) ]

(* The routes of one entity: five operations under one prefix, each behind  *)
(* the domain's only permission; those that write commit in the endpoint.   *)
Routes(prefix, permission, table, schema) ==
  [ prefix |-> prefix, permission |-> permission, table |-> table, schema |-> schema,
    reads |-> {"list", "get"}, writes |-> {"create", "update", "delete"} ]

-----------------------------------------------------------------------------
(* What a table and its schema amount to for the code in crud/base.py.      *)

HasSoftDelete(entity) == "deleted_at" \in Columns(entity.table)
HasId(entity)         == "id" \in Columns(entity.table)

Named(entity) == entity.schema.requires \cup entity.schema.accepts

(* _apply_server_fields fills these in on a creation.                       *)
FilledIn(entity) == Columns(entity.table) \cap {"created_by", "created_by_username"}

(* A creation can satisfy NOT NULL.                                         *)
Creatable(entity) == entity.table.required \subseteq Named(entity) \cup FilledIn(entity)

(* Columns that may hold NULL and whose response field does not admit it.   *)
Strict(entity) == entity.table.nullable \ (entity.schema.lenient \cup entity.schema.hides)

(* Some of them cannot be filled in by any request: no answer is possible.  *)
Unanswerable(entity) == ~(Strict(entity) \subseteq Named(entity) \cup FilledIn(entity))

=============================================================================
