------------------------------ MODULE MCRedisTLS ------------------------------
(* Small instance of RedisTLS: the server configuration and the sentinel   *)
(* configuration, two failures, three writes to the secret.                *)
EXTENDS RedisTLS

MCTemplates == {"redis.conf", "sentinel.conf"}
MCMaxFaults == 2
MCMaxEnvEvents == 3
=============================================================================
