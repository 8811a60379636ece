-------------------------------- MODULE HybridNode --------------------------------
(***************************************************************************)
(* The HybridNode runtime (hybridnode-core): load_config refuses a         *)
(* configuration that contradicts itself, run loads the identity from the  *)
(* conductor and connects the SD-WAN controller as the mode asks for, and  *)
(* then serves until a signal.  One node, the agent Self, which runs the   *)
(* app as packaged: its conductor has a cell only when it let Self join.   *)
(***************************************************************************)
EXTENDS PrivateNetwork

CONSTANTS
  Self,         (* this node's agent                                        *)
  NodeConfigs   (* configurations someone may write                         *)

ASSUME NodeAssumption ==
  /\ Self \in Packaged
  /\ NodeConfigs \subseteq
       [mode : {"hybridnode", "holochain_only", "sdwan_only"},
        private : BOOLEAN,      (* security.private_network                 *)
        bootstrap : BOOLEAN,    (* bootstrap_mode is "private"              *)
        url : BOOLEAN,          (* bootstrap_url is set                     *)
        holochain : BOOLEAN,    (* version, app id, ports and loopback url  *)
        strict : BOOLEAN,       (* mtls_strict and tls_verify               *)
        provider : {"mock", "other"}]

VARIABLES
  config,    (* the configuration file                                      *)
  stage,     (* where run is                                                *)
  identity   (* the agent key was loaded                                    *)

nodeVars == <<config, stage, identity>>

Stages == {"stopped", "identity", "sdwan", "ready"}

NodeTypeOK ==
  /\ NetTypeOK
  /\ config \in NodeConfigs /\ stage \in Stages /\ identity \in BOOLEAN

NodeInit ==
  /\ NetInit
  /\ config \in NodeConfigs
  /\ stage = "stopped" /\ identity = FALSE

(* Mutant of ValidConfig: any mode with a private network.                 *)
ValidConfigAnyMode(c) ==
  /\ c.holochain /\ c.strict
  /\ c.private = c.bootstrap
  /\ c.bootstrap => c.url

(* HybridNodeConfig::validate                                              *)
ValidConfig(c) ==
  /\ c.holochain /\ c.strict
  /\ ~(c.mode = "sdwan_only" /\ c.private)
  /\ c.private = c.bootstrap
  /\ c.bootstrap => c.url

(* HybridNode::from_config and the match of run.                           *)
StartNode ==
  /\ stage = "stopped" /\ ValidConfig(config)
  /\ stage' = IF config.mode = "sdwan_only" THEN "sdwan" ELSE "identity"
  /\ UNCHANGED <<netVars, config, identity>>

(* load_from_conductor: an error without a conductor or a cell.            *)
LoadIdentityFromConductor ==
  /\ stage = "identity" /\ Self \in joined
  /\ identity' = TRUE
  /\ stage' = IF config.mode = "holochain_only" THEN "ready" ELSE "sdwan"
  /\ UNCHANGED <<netVars, config>>

(* sdwan::connect: only the mock provider is implemented.                  *)
ConnectSdwan ==
  /\ stage = "sdwan" /\ config.provider = "mock"
  /\ stage' = "ready"
  /\ UNCHANGED <<netVars, config, identity>>

(* An error of either, or a signal.                                        *)
StopNode ==
  /\ stage # "stopped"
  /\ stage' = "stopped" /\ identity' = FALSE
  /\ UNCHANGED <<netVars, config>>

EditConfig ==
  /\ stage = "stopped"
  /\ config' \in NodeConfigs
  /\ UNCHANGED <<netVars, stage, identity>>

NodeNext ==
  \/ NetStep /\ UNCHANGED nodeVars
  \/ StartNode \/ LoadIdentityFromConductor \/ ConnectSdwan
  \/ StopNode \/ EditConfig

NodeSpec == NodeInit /\ [][NodeNext]_<<netVars, nodeVars>>

(* A node that runs as a member of a private network has the identity the  *)
(* administrator of that network admitted: no mode, and no mixture of      *)
(* settings, skips it.  (The DNA has a private flag of its own, which      *)
(* nothing compares with the configuration's.)                             *)
PrivateNodeAdmitted ==
  stage = "ready" /\ config.private => identity /\ Admitted(Self)
=============================================================================
