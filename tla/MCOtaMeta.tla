------------------------------ MODULE MCOtaMeta -----------------------------
(* OtaMeta with two boot attempts before a rollback.                       *)
EXTENDS OtaMeta
=============================================================================
