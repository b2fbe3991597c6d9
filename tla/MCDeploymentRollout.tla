----------------------- MODULE MCDeploymentRollout -----------------------
(* Model-checking instance of DeploymentRollout: two writes by another    *)
(* writer, so that one can land between the trigger's Get and its Update  *)
(* on two calls in a row; two template changes by the callback, and one   *)
(* failed Get.                                                            *)
EXTENDS DeploymentRollout

MCMaxEnvWrites == 2
MCMaxStamps == 2
MCMaxFaults == 1
=============================================================================
