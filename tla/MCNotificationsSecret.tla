----------------------- MODULE MCNotificationsSecret -----------------------
(* Model-checking instance of NotificationsSecret: two transient API       *)
(* errors and three writes by the rest of the cluster, enough for an error *)
(* and a user write to land between two calls of one reconcile, and for a  *)
(* namespace deletion to follow a drift or a delete.                       *)
EXTENDS NotificationsSecret

MCMaxFaults == 2
MCMaxEnvEvents == 3
=============================================================================
