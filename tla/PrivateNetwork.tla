----------------------------- MODULE PrivateNetwork -----------------------------
(***************************************************************************)
(* Admission to a HybridNode network: the administrator's tool             *)
(* (tools/private-network-proof) signs a proof for one agent and one       *)
(* network, and genesis_self_check of the integrity zome verifies it       *)
(* against the properties baked into the DNA.  The check runs on the agent *)
(* that joins, and there only: validate has no case for the package its    *)
(* peers receive.                                                          *)
(*                                                                         *)
(* A signature is the key that made it over exactly these fields; any      *)
(* other bytes are Forged.                                                 *)
(***************************************************************************)
EXTENDS Integers, FiniteSets

CONSTANTS
  Agent,      (* agents that may install the app                            *)
  Packaged,   (* those that run it as packaged: the conductor performs the  *)
              (* self-check, the coordinator zome is the repository's       *)
  Network,    (* network ids that are not empty                             *)
  Signer,     (* keys the tool can be run with                              *)
  Forged,     (* a signature no key made over the proof's fields            *)
  None,       (* an empty network id, no admin key, no proof                *)
  Dnas,       (* properties of the DNA                                      *)
  MaxProofs   (* proofs signed in a behaviour (bounds the model)            *)

Proofs == [network : Network, to : Agent, signer : Signer \cup {Forged}]

ASSUME NetworkAssumption ==
  /\ Packaged \subseteq Agent
  /\ Dnas \subseteq [private : BOOLEAN, network : Network \cup {None},
                     admin : Signer \cup {None}]
  /\ Forged \notin Signer /\ None \notin Signer /\ None \notin Network
  /\ None \notin [network : Network, to : Agent, signer : Signer \cup {Forged}]
  /\ MaxProofs \in Nat

VARIABLES
  dna,      (* HybridNodeDnaProperties of the network                       *)
  proofs,   (* proofs the tool has signed                                   *)
  joined    (* agents with a provisioned cell                               *)

netVars == <<dna, proofs, joined>>

NetTypeOK ==
  /\ dna \in Dnas
  /\ proofs \subseteq [network : Network, to : Agent, signer : Signer]
  /\ joined \subseteq Agent

NetInit == dna \in Dnas /\ proofs = {} /\ joined = {}

(* make_proof: whoever has a seed signs a proof with it.                   *)
MakeProof(network, to, signer) ==
  /\ proofs' = proofs \cup {[network |-> network, to |-> to, signer |-> signer]}
  /\ Cardinality(proofs') <= MaxProofs
  /\ UNCHANGED <<dna, joined>>

(* What an agent can present: a proof that was signed, for itself or for   *)
(* another, here or elsewhere, one with altered bytes, or nothing.         *)
Presentable ==
  proofs \cup [network : Network, to : Agent, signer : {Forged}] \cup {None}

(* Mutant of SelfCheck: the network of the proof is not compared.          *)
SelfCheckAnyNetwork(agent, proof) ==
  \/ ~dna.private
  \/ /\ dna.network # None /\ dna.admin # None
     /\ proof # None
     /\ proof.to = agent
     /\ proof.signer = dna.admin

(* genesis_self_check                                                      *)
SelfCheck(agent, proof) ==
  \/ ~dna.private
  \/ /\ dna.network # None /\ dna.admin # None
     /\ proof # None
     /\ proof.to = agent
     /\ proof.network = dna.network
     /\ proof.signer = dna.admin

(* The conductor provisions the cell of an agent that passes.  Nobody else *)
(* looks at the proof.                                                     *)
Join(agent, proof) ==
  /\ proof \in Presentable
  /\ agent \in Packaged => SelfCheck(agent, proof)
  /\ joined' = joined \cup {agent}
  /\ UNCHANGED <<dna, proofs>>

NetStep ==
  \/ \E network \in Network, to \in Agent, signer \in Signer :
       MakeProof(network, to, signer)
  \/ \E agent \in Agent : \E proof \in Presentable : Join(agent, proof)

(* The administrator of a private network signed for this agent and it.    *)
Admitted(agent) ==
  dna.private => [network |-> dna.network, to |-> agent, signer |-> dna.admin]
                   \in proofs
=============================================================================
