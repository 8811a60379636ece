------------------------------ MODULE NodeIdentity ------------------------------
(***************************************************************************)
(* Where a node's ed25519 transport key lives (ainonymous-quic/src/mtls.rs):*)
(* a seed in the keyring of the operating system and a seed file next to   *)
(* it.  The daemon loads the keyring first; a rotation only rewrites the   *)
(* file.  The keyring may be unusable at any call (no service, a locked    *)
(* session), and then the file decides.  std::fs::write truncates before   *)
(* it writes, so a process that stops inside it leaves no usable seed.     *)
(*                                                                         *)
(* A key is a number: NodeIdentity::generate mints the next one.           *)
(***************************************************************************)
EXTENDS Integers

CONSTANTS
  Node,     (* the nodes of the mesh                                        *)
  MaxKey,   (* keys minted in a behaviour (bounds the model)                *)
  NoKey,    (* no seed stored                                               *)
  Torn      (* a seed file that does not hold 32 bytes                      *)

Key == 1 .. MaxKey

ASSUME IdentityAssumption ==
  /\ MaxKey \in Nat
  /\ NoKey \notin Nat /\ Torn \notin Nat /\ NoKey # Torn

VARIABLES
  file,     (* file[n]: the seed file                                       *)
  keyring,  (* keyring[n]: the seed in the keyring of the OS                *)
  minted    (* keys generated so far                                        *)

idVars == <<file, keyring, minted>>

IdTypeOK ==
  /\ file \in [Node -> Key \cup {NoKey, Torn}]
  /\ keyring \in [Node -> Key \cup {NoKey}]
  /\ minted \in 0 .. MaxKey

IdInit ==
  /\ file = [n \in Node |-> NoKey]
  /\ keyring = [n \in Node |-> NoKey]
  /\ minted = 0

Generate(k) ==
  /\ minted < MaxKey
  /\ k = minted + 1
  /\ minted' = k

(* get_password answers with a seed.                                       *)
LoadKeyring(n, k) ==
  /\ keyring[n] \in Key
  /\ k = keyring[n]
  /\ UNCHANGED idVars

(* get_password answers NoEntry: a new seed goes to both places, and       *)
(* either write may fail without stopping the daemon.                      *)
GenerateBoth(n, k) ==
  /\ keyring[n] = NoKey
  /\ Generate(k)
  /\ keyring' \in {keyring, [keyring EXCEPT ![n] = k]}
  /\ file' \in {file, [file EXCEPT ![n] = k]}

(* The keyring is unusable: load_or_generate reads the file ...            *)
LoadFile(n, k) ==
  /\ file[n] \in Key
  /\ k = file[n]
  /\ UNCHANGED idVars

(* ... or creates it; the daemon does not start when that write fails, nor *)
(* when the file is torn.                                                  *)
GenerateFile(n, k) ==
  /\ file[n] = NoKey
  /\ Generate(k)
  /\ file' = [file EXCEPT ![n] = k]
  /\ UNCHANGED keyring

LoadIdentity(n, k) ==
  \/ LoadKeyring(n, k)
  \/ GenerateBoth(n, k)
  \/ LoadFile(n, k)
  \/ GenerateFile(n, k)

(* rotate_file: refuses a torn file, then overwrites it with a new seed.   *)
(* The keyring keeps the seed it has.                                      *)
RotateFile(n, k) ==
  /\ file[n] # Torn
  /\ Generate(k)
  /\ file' = [file EXCEPT ![n] = k]
  /\ UNCHANGED keyring

(* The process stops inside fs::write.                                     *)
TearFile(n) ==
  /\ file[n] # Torn
  /\ file' = [file EXCEPT ![n] = Torn]
  /\ UNCHANGED <<keyring, minted>>
=============================================================================
