-------------------------------- MODULE TrustZome --------------------------------
(***************************************************************************)
(* The trust records of the hybridnode zomes: attestations, manifests,     *)
(* layer claims, warrants and their refutations.  The coordinator commits  *)
(* what it is given; the integrity zome decides what an author may commit. *)
(*                                                                         *)
(* A record keeps its author next to its own fields, which may name any    *)
(* agent.  A record and its link, which validate_create_link ties to it,   *)
(* are committed together and are one element of the state.                *)
(***************************************************************************)
EXTENDS PrivateNetwork

CONSTANTS
  Manifest,   (* model manifests that may be published                      *)
  MaxRecords  (* records at a time, manifests aside (bounds the model)      *)

ASSUME TrustAssumption == MaxRecords \in Nat

VARIABLES
  attestations,  (* author, agent                                           *)
  manifests,     (* published manifests                                     *)
  claims,        (* author, agent, manifest, whether there are layers in it *)
  warrants,      (* author, accuser, accused                                *)
  refutations    (* author, by, warrant                                     *)

trustVars == <<attestations, manifests, claims, warrants, refutations>>

Attestations == [author : Agent, agent : Agent, ram : BOOLEAN]
Claims == [author : Agent, agent : Agent, manifest : Manifest, layers : BOOLEAN]
Warrants == [author : Agent, accuser : Agent, accused : Agent]
Refutations == [author : Agent, by : Agent, warrant : Warrants]

TrustTypeOK ==
  /\ NetTypeOK
  /\ attestations \subseteq Attestations
  /\ manifests \subseteq Manifest
  /\ claims \subseteq Claims
  /\ warrants \subseteq Warrants
  /\ refutations \subseteq Refutations

TrustInit ==
  /\ NetInit
  /\ attestations = {} /\ manifests = {} /\ claims = {}
  /\ warrants = {} /\ refutations = {}

-----------------------------------------------------------------------------
(* validate_node_attestation                                               *)
ValidAttestation(r) == r.agent = r.author /\ r.ram

(* validate_model_claim: start < end; num_layers is not looked at.         *)
ValidClaim(r) == r.agent = r.author /\ r.layers

ValidWarrant(r) == r.accuser = r.author
ValidRefutation(r) == r.by = r.author

Room ==
  Cardinality(attestations) + Cardinality(claims) + Cardinality(warrants)
    + Cardinality(refutations) < MaxRecords

(* validate looks at created entries.  An updated one is valid whatever it *)
(* holds, and so is a link to it; the packaged coordinator only creates.   *)
MayCommit(author, valid) ==
  author \in joined /\ Room /\ (author \in Packaged => valid)

(* publish_attestation; a later one of the same agent replaces it for the  *)
(* reader.                                                                 *)
PublishAttestation(r) ==
  /\ MayCommit(r.author, ValidAttestation(r))
  /\ attestations' = attestations \cup {r}
  /\ UNCHANGED <<netVars, manifests, claims, warrants, refutations>>

PublishModelManifest(m) ==
  /\ joined # {}
  /\ manifests' = manifests \cup {m}
  /\ UNCHANGED <<netVars, attestations, claims, warrants, refutations>>

(* claim_model, whose agent is agent_info's.                               *)
ClaimModel(r) ==
  /\ r.manifest \in manifests /\ MayCommit(r.author, ValidClaim(r))
  /\ claims' = claims \cup {r}
  /\ UNCHANGED <<netVars, attestations, manifests, warrants, refutations>>

PublishWarrant(r) ==
  /\ MayCommit(r.author, ValidWarrant(r))
  /\ warrants' = warrants \cup {r}
  /\ UNCHANGED <<netVars, attestations, manifests, claims, refutations>>

RefuteWarrant(r) ==
  /\ r.warrant \in warrants /\ MayCommit(r.author, ValidRefutation(r))
  /\ refutations' = refutations \cup {r}
  /\ UNCHANGED <<netVars, attestations, manifests, claims, warrants>>

(* The author of a link may delete it, and readers no longer find the      *)
(* record; no function of the packaged coordinator does.                   *)
DeleteLinks(author) ==
  LET Others(records) == {r \in records : r.author # author}
  IN  /\ author \in joined \ Packaged
      /\ attestations' \in {attestations, Others(attestations)}
      /\ claims' \in {claims, Others(claims)}
      /\ warrants' \in {warrants, Others(warrants)}
      /\ refutations' \in {refutations, Others(refutations)}
      /\ UNCHANGED <<netVars, manifests>>

(* get_node_attestation and get_active_warrants                            *)
Attested(agent) == \E r \in attestations : r.agent = agent
ActiveWarrants(agent) == {w \in warrants : w.accused = agent}

(* verify_node_attestation.  Refutations and the age of an attestation do  *)
(* not enter: a warrant counts for ever and no status is Expired.          *)
VerifyNodeAttestation(agent) ==
  IF ~Attested(agent) THEN "missing"
  ELSE IF ActiveWarrants(agent) # {} THEN "sanctioned" ELSE "valid"

TrustNext ==
  \/ NetStep /\ UNCHANGED trustVars
  \/ \E r \in Attestations : PublishAttestation(r)
  \/ \E m \in Manifest : PublishModelManifest(m)
  \/ \E r \in Claims : ClaimModel(r)
  \/ \E r \in Warrants : PublishWarrant(r)
  \/ \E w \in warrants, a, by \in Agent :
       RefuteWarrant([author |-> a, by |-> by, warrant |-> w])
  \/ \E a \in Agent : DeleteLinks(a)

TrustSpec == TrustInit /\ [][TrustNext]_<<netVars, trustVars>>

-----------------------------------------------------------------------------
(* Who committed the records that a verdict about the agent rests on.      *)
Sources(agent) ==
  {r.author : r \in {a \in attestations : a.agent = agent}}
    \cup {w.author : w \in ActiveWarrants(agent)}

(* Whoever else is a member, a verdict of verify_node_attestation that     *)
(* rests on agents which run the app as packaged is about an agent the     *)
(* administrator signed for, in this network and none other, on what that  *)
(* agent said itself, and a sanction rests on accusers who were signed for *)
(* too.  Nothing of the kind holds of the records of other members.        *)
VerdictsFromAdmitted ==
  \A agent \in Agent :
    VerifyNodeAttestation(agent) # "missing" /\ Sources(agent) \subseteq Packaged =>
      /\ Admitted(agent)
      /\ \A r \in attestations : r.agent = agent => r.author = agent
      /\ \A w \in ActiveWarrants(agent) : Admitted(w.accuser)
=============================================================================
