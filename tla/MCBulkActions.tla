---------------------------- MODULE MCBulkActions ----------------------------
(* Small instances of BulkActions.                                          *)
EXTENDS BulkActions

\* Everything, and what a criterion lets through.
TwoFilters == {Entities, {2}}

=============================================================================
