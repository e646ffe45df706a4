--------------------------- MODULE MCAuditHistory ---------------------------
(* The model values of MCTwoWaySync for the rows with their history.        *)
EXTENDS MCTwoWaySync, AuditHistory
=============================================================================
