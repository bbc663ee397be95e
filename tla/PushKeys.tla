------------------------------ MODULE PushKeys ------------------------------
(***************************************************************************)
(* The server process and the VAPID key it signs pushes with: the start,   *)
(* where config.Load takes the key of the environment, the saved one, or   *)
(* makes one and tries to save it; serving; and the stop, which loses the  *)
(* rooms.  A write of the key file may fail or be cut short, and a start   *)
(* may die at any point.                                                   *)
(***************************************************************************)
EXTENDS Naturals

CONSTANTS
  EnvKeys,    \* what the operator may have set: subset of {"none", "pair", "mismatch"}
  Disks,      \* what the key file's directory may be: subset of {"durable", "unwritable", "failing"}
  MaxKeys     \* bound: pairs generated

ASSUMPTION EnvKeysAssumption == EnvKeys \subseteq {"none", "pair", "mismatch"}
ASSUMPTION DisksAssumption == Disks \subseteq {"durable", "unwritable", "failing"}
ASSUMPTION MaxKeysAssumption == MaxKeys \in Nat

VARIABLES
  env,        \* VAPID_PRIVATE_KEY and VAPID_PUBLIC_KEY
  disk,       \* what os.WriteFile does to the key file
  file,       \* the key file: a key, or NoKey when it is missing or unreadable
  keys,       \* keys generated so far; the environment's is number 1
  proc,       \* "down", "loaded" (config.Load has returned) or "up" (serving)
  key         \* cfg.VAPIDKeys of the running process

serverVars == <<env, disk, file, keys, proc, key>>

NoKey == 0
EnvKey == 1
Key == 1..(MaxKeys + 1)

KeysInit ==
  /\ env \in EnvKeys
  /\ disk \in Disks
  /\ file = NoKey
  /\ keys = EnvKey
  /\ proc = "down"
  /\ key = NoKey

-----------------------------------------------------------------------------
(* config.Load *)

\* LoadVAPIDKeys refuses a public key that is not the private key's: the
\* process exits instead, and "mismatch" enables nothing.
LoadFromEnv ==
  /\ env = "pair"
  /\ key' = EnvKey
  /\ UNCHANGED <<file, keys>>

LoadFromFile ==
  /\ env = "none"
  /\ file # NoKey
  /\ key' = file
  /\ UNCHANGED <<file, keys>>

\* MUTANT: the file is written when the process stops, not when it starts.
SaveLater(new) == UNCHANGED file

\* The new key is used whether or not it could be saved; a write that fails
\* half-way leaves a file that will not parse.
Save(new) ==
  file' = IF disk = "durable" THEN new ELSE IF disk = "failing" THEN NoKey ELSE file

\* A file that is missing or does not hold a key pair is written anew.
Generate ==
  /\ env = "none"
  /\ file = NoKey
  /\ keys <= MaxKeys
  /\ keys' = keys + 1
  /\ key' = keys + 1
  /\ Save(keys + 1)

Load ==
  /\ proc = "down"
  /\ LoadFromEnv \/ LoadFromFile \/ Generate
  /\ proc' = "loaded"
  /\ UNCHANGED <<env, disk>>

\* The process dies after the file was truncated and before it was written.
DieWriting ==
  /\ proc = "down"
  /\ env = "none"
  /\ file = NoKey
  /\ keys <= MaxKeys
  /\ keys' = keys + 1
  /\ UNCHANGED <<env, disk, file, proc, key>>

\* main: the listener is bound and Serve runs.
Listen ==
  /\ proc = "loaded"
  /\ proc' = "up"
  /\ UNCHANGED <<env, disk, file, keys, key>>

\* SIGTERM, a failure, or a bind that fails.  main returns as soon as Serve
\* does and leaves Shutdown's wait behind, so requests are cut off either way.
Stop ==
  /\ proc # "down"
  /\ proc' = "down"
  /\ key' = NoKey
  /\ UNCHANGED <<env, disk, file, keys>>

-----------------------------------------------------------------------------
\* The key comes from the environment, or can be saved.
Durable == env = "pair" \/ disk = "durable"

KeysTypeOK ==
  /\ env \in EnvKeys
  /\ disk \in Disks
  /\ keys \in Key
  /\ file \in 0..keys
  /\ proc \in {"down", "loaded", "up"}
  /\ key \in 0..keys
=============================================================================
