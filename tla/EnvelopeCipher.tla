---------------------------- MODULE EnvelopeCipher ----------------------------
(***************************************************************************)
(* At-rest encryption of src/cipher.rs: which cipher a process builds from *)
(* its settings, and what becomes of stored rows as replicas with other    *)
(* settings come and go.                                                   *)
(*                                                                         *)
(* Each context (a tenant, a cluster) has one row.  A replica seals a      *)
(* value under a context in one step and saves the row in a later one, as  *)
(* encrypt is awaited first; other replicas, restarts and crashes fall in  *)
(* between.  A misplaced row is one the database holds under a context it  *)
(* was not written for.                                                    *)
(*                                                                         *)
(* AES-GCM is ideal: a sealed row opens under its key and context only.    *)
(* Vault is external, and modelled from the requests the code makes.       *)
(***************************************************************************)
EXTENDS Naturals, FiniteSets

CONSTANTS
    Contexts,   \* the contexts callers encrypt under
    Values,     \* plaintexts
    Keys,       \* well-formed master keys
    Unset,      \* no master key setting, or an empty one
    Blank,      \* a setting of white space only
    Malformed,  \* a setting that is not 32 bytes in base64
    Replicas,   \* the processes that share the rows
    Required,   \* require_encryption of build_strict
    WithVault,  \* the build has the kms feature and may be given a Vault
    Derived,    \* the Vault Transit key was created with derived=true
    Stopped,    \* a replica that is not running
    NoRow,      \* a context without a row
    Nothing     \* no value, no result, no cipher

ASSUME CipherAssumption ==
    /\ Required \in BOOLEAN /\ WithVault \in BOOLEAN /\ Derived \in BOOLEAN
    /\ Nothing \notin Values /\ Nothing \notin Contexts
    /\ {Unset, Blank, Malformed} \cap Keys = {}

Settings == Keys \cup {Unset, Blank, Malformed}

Noop     == [kind |-> "noop", key |-> Nothing]
Local(k) == [kind |-> "local", key |-> k]
Vault    == [kind |-> "vault", key |-> Nothing]

Ciphers == {Noop, Vault} \cup {Local(k) : k \in Keys}

ASSUME RowsAreTold ==
    /\ Stopped \notin Ciphers /\ Nothing \notin Ciphers
    /\ NoRow \notin [sealed : Ciphers, context : Contexts, value : Values]

(***************************************************************************)
(* A row: the cipher it was sealed with (Noop: it is the plaintext), the   *)
(* context bound into it, and what it holds.                               *)
(***************************************************************************)
Row == [sealed : Ciphers, context : Contexts, value : Values]

VARIABLES
    cipher,     \* cipher[r]: what replica r built at boot, or Stopped
    vaultUp,    \* Vault answers within the client's timeout
    pending,    \* pending[r]: the row r has sealed and not saved yet, and for
                \* which context, or Nothing
    rows,       \* rows[c]: the row of context c
    origin,     \* origin[c]: the cipher of the replica that saved row c for c;
                \* Nothing once the row is misplaced
    written     \* the values callers have encrypted, with their context

vars == <<cipher, vaultUp, pending, rows, origin, written>>

Ok(v) == [ok |-> TRUE, value |-> v]
Err   == [ok |-> FALSE, value |-> Nothing]

\* The bytes of a sealed row, handed out as if they were a value.
Ciphertext == Ok(Nothing)

-----------------------------------------------------------------------------
(***************************************************************************)
(* The builders.  build takes any setting but an empty one for a key;      *)
(* build_strict trims it first, and refuses plaintext where encryption is  *)
(* required.                                                               *)
(***************************************************************************)
FromMasterKey(s) == IF s \in Keys THEN Local(s) ELSE Stopped

\* Mutant: a process without a key falls back to plaintext.
BuildStrict_NoGuard(s) ==
    IF s \in {Unset, Blank} THEN Noop ELSE FromMasterKey(s)

BuildStrict(s) ==
    IF s \notin {Unset, Blank} THEN FromMasterKey(s)
    ELSE IF Required THEN Stopped
    ELSE Noop

Build(s) == IF s = Unset THEN Noop ELSE FromMasterKey(s)

\* What the settings s may lead to: build is for deployments that do not
\* require encryption.
Built(s) == {BuildStrict(s)} \cup (IF Required THEN {} ELSE {Build(s)})

(***************************************************************************)
(* encrypt and decrypt of the three ciphers.                               *)
(***************************************************************************)
\* Mutant: the context is not the one the caller gave.
Seal_AnyContext(ci, c, v) ==
    [sealed |-> ci, context |-> CHOOSE x \in Contexts : TRUE, value |-> v]

Seal(ci, c, v) == [sealed |-> ci, context |-> c, value |-> v]

\* Mutant: the context is not bound into the associated data.
OpenLocal_NoContext(ci, c, row) ==
    IF row.sealed = ci THEN Ok(row.value) ELSE Err

\* A row too short for a nonce, one of another cipher and one bound to
\* another context are errors alike.
OpenLocal(ci, c, row) ==
    IF row.sealed = ci /\ row.context = c THEN Ok(row.value) ELSE Err

\* Vault refuses what it did not seal; with a derived key, also what it
\* sealed under another context.
OpenVault(c, row) ==
    IF vaultUp /\ row.sealed = Vault /\ (Derived => row.context = c)
    THEN Ok(row.value) ELSE Err

OpenNoop(row) == IF row.sealed = Noop THEN Ok(row.value) ELSE Ciphertext

Open(ci, c, row) ==
    CASE ci.kind = "noop"  -> OpenNoop(row)
      [] ci.kind = "local" -> OpenLocal(ci, c, row)
      [] OTHER             -> OpenVault(c, row)

-----------------------------------------------------------------------------
\* The rows of a database that was used before encryption was configured.
Init ==
    /\ cipher = [r \in Replicas |-> Stopped]
    /\ vaultUp = WithVault
    /\ pending = [r \in Replicas |-> Nothing]
    /\ rows \in [Contexts -> {NoRow} \cup [sealed : {Noop}, context : Contexts, value : Values]]
    /\ \A c \in Contexts : rows[c] # NoRow => rows[c].context = c
    /\ origin = [c \in Contexts |-> IF rows[c] = NoRow THEN Nothing ELSE Noop]
    /\ written = {}

\* A replica starts with the settings it is given; an error leaves it stopped.
Boot(r) ==
    /\ cipher[r] = Stopped
    /\ \/ \E s \in Settings : \E ci \in Built(s) :
              cipher' = [cipher EXCEPT ![r] = ci]
       \/ WithVault /\ cipher' = [cipher EXCEPT ![r] = Vault]
    /\ UNCHANGED <<vaultUp, pending, rows, origin, written>>

\* Mutant: a write in flight outlives the process that sealed it.
Halt_KeepsPending(r) ==
    /\ cipher[r] # Stopped
    /\ cipher' = [cipher EXCEPT ![r] = Stopped]
    /\ UNCHANGED <<vaultUp, pending, rows, origin, written>>

\* A replica stops or crashes, and what it has not saved is lost.
Halt(r) ==
    /\ cipher[r] # Stopped
    /\ cipher' = [cipher EXCEPT ![r] = Stopped]
    /\ pending' = [pending EXCEPT ![r] = Nothing]
    /\ UNCHANGED <<vaultUp, rows, origin, written>>

\* encrypt, awaited; it fails, and changes nothing, when Vault does not answer.
Encrypt(r, c, v) ==
    /\ cipher[r] # Stopped
    /\ cipher[r] = Vault => vaultUp
    /\ pending[r] = Nothing
    /\ pending' = [pending EXCEPT ![r] = [target |-> c, row |-> Seal(cipher[r], c, v)]]
    /\ written' = written \cup {<<c, v>>}
    /\ UNCHANGED <<cipher, vaultUp, rows, origin>>

\* The caller stores the bytes it got.
Save(r) ==
    /\ pending[r] # Nothing
    /\ rows' = [rows EXCEPT ![pending[r].target] = pending[r].row]
    /\ origin' = [origin EXCEPT ![pending[r].target] = cipher[r]]
    /\ pending' = [pending EXCEPT ![r] = Nothing]
    /\ UNCHANGED <<cipher, vaultUp, written>>

\* The database comes to hold the row of one context under another.
Misplace(from, to) ==
    /\ from # to /\ rows[from] # NoRow
    /\ rows' = [rows EXCEPT ![to] = rows[from]]
    /\ origin' = [origin EXCEPT ![to] = Nothing]
    /\ UNCHANGED <<cipher, vaultUp, pending, written>>

VaultFlips ==
    /\ WithVault
    /\ vaultUp' = ~vaultUp
    /\ UNCHANGED <<cipher, pending, rows, origin, written>>

\* What a caller of replica r that loads the row of context c gets; it
\* changes nothing.
CanRead(r, c) == cipher[r] # Stopped /\ rows[c] # NoRow
Decrypt(r, c) == Open(cipher[r], c, rows[c])

Next ==
    \/ \E r \in Replicas :
          \/ Boot(r) \/ Halt(r) \/ Save(r)
          \/ \E c \in Contexts, v \in Values : Encrypt(r, c, v)
    \/ \E from, to \in Contexts : Misplace(from, to)
    \/ VaultFlips

Spec == Init /\ [][Next]_vars
-----------------------------------------------------------------------------
(***************************************************************************)
(* Properties.                                                             *)
(***************************************************************************)
Pending == [target : Contexts, row : Row]

\* Every row and every write in flight is whole; a write in flight is its
\* replica's own, and dies with it.
TypeOK ==
    /\ cipher \in [Replicas -> Ciphers \cup {Stopped}]
    /\ vaultUp \in BOOLEAN
    /\ pending \in [Replicas -> Pending \cup {Nothing}]
    /\ \A r \in Replicas : pending[r] # Nothing => pending[r].row.sealed = cipher[r]
    /\ rows \in [Contexts -> Row \cup {NoRow}]
    /\ origin \in [Contexts -> Ciphers \cup {Nothing}]
    /\ written \subseteq Contexts \X Values

\* A successful read of a context returns a value some caller encrypted under
\* that context: never another context's, whatever row the database holds,
\* never ciphertext, and never a plaintext put into the row from outside.
\* (build_strict with require_encryption, and a derived key if on Vault.)
ReadsAreOwn ==
    Required /\ (WithVault => Derived) =>
        \A r \in Replicas, c \in Contexts :
            CanRead(r, c) /\ Decrypt(r, c).ok => <<c, Decrypt(r, c).value>> \in written

\* Under require_encryption no replica, whatever its settings, adds a
\* plaintext row to the database.
NothingSavedInTheClear ==
    [][Required => \A r \in Replicas : Save(r) =>
           rows'[pending[r].target].sealed # Noop]_rows

\* A read fails for a reason: the row was saved by a replica with another
\* cipher (an earlier master key, no encryption, Vault), the database
\* misplaced it, or Vault is down.  So a rollout that keeps the key loses no
\* row, across crashes and other replicas' writes.
FailuresAreDue ==
    \A r \in Replicas, c \in Contexts :
        CanRead(r, c) /\ ~Decrypt(r, c).ok =>
            \/ origin[c] # cipher[r]
            \/ cipher[r] = Vault /\ ~vaultUp
=============================================================================
