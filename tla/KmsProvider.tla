---------------------------- MODULE KmsProvider ----------------------------
(***************************************************************************)
(* src/src/security/kms.rs: threads fetch the active key, and look up the  *)
(* key of a version they met before, while another thread rotates it.      *)
(* get_active_key reads the version and the key under two locks, one after *)
(* the other; rotate_key changes both under both.                          *)
(***************************************************************************)
EXTENDS Naturals

CONSTANTS
  Holders,       \* threads that call get_active_key
  Materials,     \* key material
  InitialKey,    \* what new() was given, a member of Materials
  NoKey,         \* the empty key of unwrap_or_default
  MaxVersion     \* bound: versions

VARIABLES
  current_version,
  keys,         \* version -> key material; NoKey is no entry
  fetching,     \* holder -> the version get_active_key has read, 0 outside it
  used          \* the <<version, key>> pairs get_active_key has returned

kmsVars == <<current_version, keys, fetching, used>>

Init ==
  /\ current_version = 1
  /\ keys = [v \in 1..MaxVersion |-> IF v = 1 THEN InitialKey ELSE NoKey]
  /\ fetching = [h \in Holders |-> 0]
  /\ used = {}

\* get_active_key: the version is read.
ReadVersion(h) ==
  /\ fetching[h] = 0
  /\ fetching' = [fetching EXCEPT ![h] = current_version]
  /\ UNCHANGED <<current_version, keys, used>>

\* Mutant: the key of the version that is current by now.
ReadCurrentKey(h) ==
  /\ fetching[h] # 0
  /\ used' = used \cup {<<fetching[h], keys[current_version]>>}
  /\ fetching' = [fetching EXCEPT ![h] = 0]
  /\ UNCHANGED <<current_version, keys>>

\* get_active_key: the key of that version is read and both are returned.
ReadKey(h) ==
  /\ fetching[h] # 0
  /\ used' = used \cup {<<fetching[h], keys[fetching[h]]>>}
  /\ fetching' = [fetching EXCEPT ![h] = 0]
  /\ UNCHANGED <<current_version, keys>>

\* rotate_key
RotateKey(m) ==
  /\ current_version < MaxVersion
  /\ keys' = [keys EXCEPT ![current_version + 1] = m]
  /\ current_version' = current_version + 1
  /\ UNCHANGED <<fetching, used>>

Next ==
  \/ \E h \in Holders : ReadVersion(h) \/ ReadKey(h)
  \/ \E m \in Materials : RotateKey(m)

Spec == Init /\ [][Next]_kmsVars

-----------------------------------------------------------------------------
\* Whatever is rotated between the two reads, the key a holder got is the one
\* get_key_by_version returns for the version it got, then and ever after: what
\* was encrypted under it can be decrypted.
KeyOfItsVersion == \A p \in used : keys[p[1]] = p[2] /\ p[2] # NoKey
=============================================================================
