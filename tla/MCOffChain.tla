----------------------------- MODULE MCOffChain -----------------------------
(***************************************************************************)
(* What runs beside the account in one run: the cache of events and the    *)
(* audit of the clients, the deployment, and the configuration of the      *)
(* tools. The first two meet in the events of the account, the last two in *)
(* config/<chainId>.json, of which the tools have the copy in their        *)
(* package, and in nothing else, so a behaviour is one of one of them.     *)
(***************************************************************************)
EXTENDS MCEventCache, Audit, Deployment, ConfigStore

VARIABLE scene

\* Commitments are alike: C1 stands for the first one to be executed.
FirstIsC1 == commitments # <<>> => Head(commitments) = C1

OffChainInit ==
  /\ scene \in {"cache", "audit", "deployment", "tools"}
  /\ CacheInit /\ AuditInit /\ Init /\ StoreInit
  /\ scene # "deployment" => chain = "public" /\ known = {} /\ bundlerUrl

CacheScene ==
  scene = "cache" /\ CacheNext /\ FirstIsC1' /\ UNCHANGED <<scene, auditVars, vars, storeVars>>

AuditScene == scene = "audit" /\ AuditNext /\ UNCHANGED <<scene, eventVars, vars, storeVars>>

DeploymentScene ==
  scene = "deployment" /\ Next /\ UNCHANGED <<scene, eventVars, auditVars, storeVars>>

ToolsScene == scene = "tools" /\ StoreNext /\ UNCHANGED <<scene, eventVars, auditVars, vars>>

OffChainNext == CacheScene \/ AuditScene \/ DeploymentScene \/ ToolsScene

OffChainSpec ==
  /\ OffChainInit
  /\ [][OffChainNext]_<<scene, eventVars, auditVars, vars, storeVars>>
  /\ WF_eventVars(scene = "cache" /\ HolderStep)
  /\ WF_auditVars(scene = "audit" /\ AuditStep)
  /\ WF_vars(scene = "deployment" /\ Mine)
  /\ WF_vars(scene = "deployment" /\ MineProxy)
  /\ WF_vars(scene = "deployment" /\ ScriptStep)
=============================================================================
