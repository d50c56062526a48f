------------------------- MODULE EnvelopeCipherProofs -------------------------
(***************************************************************************)
(* Proofs about EnvelopeCipher, for any contexts, values, master keys and  *)
(* replicas, with and without Vault.                                       *)
(***************************************************************************)
EXTENDS EnvelopeCipher, TLAPS

USE DEF Noop, Local, Vault

LEMMA CiphersAreTold ==
    \A k \in Keys : /\ Local(k) \in Ciphers /\ Local(k) # Noop
                    /\ Local(k) # Vault /\ Local(k) # Stopped
  BY RowsAreTold DEF Ciphers

\* What a boot can leave: never Noop where encryption is required, never
\* Vault, which has a boot of its own.
LEMMA BuiltCiphers ==
    ASSUME NEW s \in Settings, NEW ci \in Built(s)
    PROVE  /\ ci \in Ciphers \cup {Stopped}
           /\ Required => ci # Noop
           /\ ci # Vault
<1>1. Noop \in Ciphers /\ Noop # Vault /\ Stopped # Noop /\ Stopped # Vault
  BY RowsAreTold DEF Ciphers
<1> QED BY <1>1, CiphersAreTold DEF Built, Build, BuildStrict, FromMasterKey

(***************************************************************************)
(* Type correctness.                                                       *)
(***************************************************************************)
LEMMA TypeStep == TypeOK /\ [Next]_vars => TypeOK'
<1> SUFFICES ASSUME TypeOK, [Next]_vars PROVE TypeOK'
  OBVIOUS
<1> USE DEF TypeOK
<1>1. ASSUME NEW r \in Replicas, Boot(r) PROVE TypeOK'
  <2>1. cipher' \in [Replicas -> Ciphers \cup {Stopped}]
    BY <1>1, BuiltCiphers DEF Boot, Ciphers
  <2>2. pending[r] = Nothing
    BY <1>1, RowsAreTold DEF Boot, Pending, Row
  <2> QED BY <1>1, <2>1, <2>2 DEF Boot
<1>2. ASSUME NEW r \in Replicas, Halt(r) PROVE TypeOK'
  BY <1>2 DEF Halt
<1>3. ASSUME NEW r \in Replicas, NEW c \in Contexts, NEW v \in Values, Encrypt(r, c, v)
      PROVE  TypeOK'
  <2>1. Seal(cipher[r], c, v) \in Row /\ Seal(cipher[r], c, v).sealed = cipher[r]
    BY <1>3 DEF Encrypt, Seal, Row
  <2> QED BY <1>3, <2>1 DEF Encrypt, Pending
<1>4. ASSUME NEW r \in Replicas, Save(r) PROVE TypeOK'
  <2>1. /\ pending[r].target \in Contexts /\ pending[r].row \in Row
        /\ cipher[r] \in Ciphers
    BY <1>4 DEF Save, Pending, Row
  <2> QED BY <1>4, <2>1 DEF Save
<1>5. ASSUME NEW from \in Contexts, NEW to \in Contexts, Misplace(from, to) PROVE TypeOK'
  BY <1>5 DEF Misplace
<1>6. CASE VaultFlips
  BY <1>6 DEF VaultFlips
<1>7. CASE UNCHANGED vars
  BY <1>7 DEF vars
<1> QED BY <1>1, <1>2, <1>3, <1>4, <1>5, <1>6, <1>7 DEF Next

\* Rows and writes in flight stay whole, and a write in flight dies with the
\* replica that sealed it (cipher.rs: encrypt returns the bytes to store).
THEOREM TypeCorrect == Spec => []TypeOK
<1>1. Init => TypeOK
  BY CipherAssumption DEF Init, TypeOK, Row, Ciphers
<1>2. TypeOK /\ [Next]_vars => TypeOK'
  BY TypeStep
<1> QED BY <1>1, <1>2, PTL DEF Spec

(***************************************************************************)
(* The provenance of rows.                                                 *)
(***************************************************************************)
\* A row of a context saved for it is bound to it, under the cipher that
\* saved it.
OriginOK ==
    \A c \in Contexts :
        origin[c] # Nothing => /\ rows[c] # NoRow
                               /\ rows[c].sealed = origin[c]
                               /\ rows[c].context = c

PendingOK ==
    \A r \in Replicas :
        pending[r] # Nothing =>
            /\ pending[r].row.context = pending[r].target
            /\ <<pending[r].row.context, pending[r].row.value>> \in written

\* What is not plaintext was encrypted by a caller.
SealedOK ==
    \A c \in Contexts :
        rows[c] # NoRow /\ rows[c].sealed # Noop =>
            <<rows[c].context, rows[c].value>> \in written

CiphersOK ==
    \A r \in Replicas : /\ Required => cipher[r] # Noop
                        /\ cipher[r] = Vault => WithVault

Inv == TypeOK /\ OriginOK /\ PendingOK /\ SealedOK /\ CiphersOK

LEMMA InvInit == Init => Inv
<1> SUFFICES ASSUME Init PROVE Inv
  OBVIOUS
<1>1. TypeOK
  BY CipherAssumption DEF Init, TypeOK, Row, Ciphers
<1>2. Stopped # Noop /\ Stopped # Vault /\ Noop # Nothing
  BY RowsAreTold DEF Ciphers
<1> QED BY <1>1, <1>2 DEF Init, Inv, OriginOK, PendingOK, SealedOK, CiphersOK

LEMMA InvStep == Inv /\ [Next]_vars => Inv'
<1> SUFFICES ASSUME Inv, [Next]_vars PROVE Inv'
  OBVIOUS
<1>0. TypeOK' /\ TypeOK
  BY TypeStep DEF Inv
<1> USE DEF Inv, OriginOK, PendingOK, SealedOK, CiphersOK
<1>1. ASSUME NEW r \in Replicas, Boot(r) PROVE Inv'
  <2>1. CiphersOK'
    <3>1. ASSUME NEW s \in Settings, NEW ci \in Built(s),
                 cipher' = [cipher EXCEPT ![r] = ci]
          PROVE  CiphersOK'
      BY <3>1, <1>0, BuiltCiphers DEF TypeOK
    <3>2. CASE WithVault /\ cipher' = [cipher EXCEPT ![r] = Vault]
      BY <3>2, <1>0 DEF TypeOK
    <3> QED BY <1>1, <3>1, <3>2 DEF Boot
  <2> QED BY <1>0, <1>1, <2>1 DEF Boot
<1>2. ASSUME NEW r \in Replicas, Halt(r) PROVE Inv'
  <2>1. Stopped # Noop /\ Stopped # Vault
    BY RowsAreTold DEF Ciphers
  <2> QED BY <1>0, <1>2, <2>1 DEF Halt, TypeOK
<1>3. ASSUME NEW r \in Replicas, NEW c \in Contexts, NEW v \in Values, Encrypt(r, c, v)
      PROVE  Inv'
  <2>1. PendingOK'
    BY <1>0, <1>3 DEF Encrypt, Seal, TypeOK
  <2> QED BY <1>0, <1>3, <2>1 DEF Encrypt
<1>4. ASSUME NEW r \in Replicas, Save(r) PROVE Inv'
  <2>1. /\ pending[r].target \in Contexts /\ pending[r].row \in Row
        /\ pending[r].row.sealed = cipher[r] /\ pending[r].row # NoRow
    BY <1>0, <1>4, RowsAreTold DEF Save, TypeOK, Pending, Row
  <2>2. OriginOK'
    BY <1>0, <1>4, <2>1 DEF Save, TypeOK
  <2>3. SealedOK'
    BY <1>0, <1>4, <2>1 DEF Save, TypeOK
  <2> QED BY <1>0, <1>4, <2>2, <2>3 DEF Save, TypeOK
<1>5. ASSUME NEW from \in Contexts, NEW to \in Contexts, Misplace(from, to) PROVE Inv'
  BY <1>0, <1>5 DEF Misplace, TypeOK
<1>6. CASE VaultFlips
  BY <1>0, <1>6 DEF VaultFlips
<1>7. CASE UNCHANGED vars
  BY <1>0, <1>7 DEF vars
<1> QED BY <1>1, <1>2, <1>3, <1>4, <1>5, <1>6, <1>7 DEF Next

LEMMA Invariance == Spec => []Inv
  BY InvInit, InvStep, PTL DEF Spec

(***************************************************************************)
(* What a reader gets.                                                     *)
(***************************************************************************)
LEMMA OwnReads == Inv => ReadsAreOwn
<1> SUFFICES ASSUME Inv, Required, WithVault => Derived,
                    NEW r \in Replicas, NEW c \in Contexts,
                    CanRead(r, c), Decrypt(r, c).ok
             PROVE  <<c, Decrypt(r, c).value>> \in written
  BY DEF ReadsAreOwn
<1> DEFINE row == rows[c]
<1>1. cipher[r] \in Ciphers /\ cipher[r] # Noop /\ row \in Row /\ row # NoRow
  BY DEF Inv, TypeOK, CiphersOK, CanRead
<1>2. CASE cipher[r] = Vault
  <2>1. Open(cipher[r], c, row) = OpenVault(c, row) /\ WithVault
    BY <1>2 DEF Open, Inv, CiphersOK
  <2>2. row.sealed = Vault /\ row.context = c /\ OpenVault(c, row) = Ok(row.value)
    BY <2>1 DEF OpenVault, Decrypt, Err
  <2>3. Decrypt(r, c).value = row.value /\ row.sealed # Noop
    BY <2>1, <2>2 DEF Decrypt, Ok
  <2> QED BY <1>1, <2>2, <2>3 DEF Inv, SealedOK
<1>3. ASSUME NEW k \in Keys, cipher[r] = Local(k)
      PROVE  <<c, Decrypt(r, c).value>> \in written
  <2>1. Open(cipher[r], c, row) = OpenLocal(cipher[r], c, row)
    BY <1>3 DEF Open
  <2>2. /\ row.sealed = cipher[r] /\ row.context = c
        /\ OpenLocal(cipher[r], c, row) = Ok(row.value)
    BY <2>1 DEF OpenLocal, Decrypt, Err
  <2>3. Decrypt(r, c).value = row.value /\ row.sealed # Noop
    BY <1>1, <2>1, <2>2 DEF Decrypt, Ok
  <2> QED BY <1>1, <2>2, <2>3 DEF Inv, SealedOK
<1> QED BY <1>1, <1>2, <1>3 DEF Ciphers

LEMMA DueFailures == Inv => FailuresAreDue
<1> SUFFICES ASSUME Inv, NEW r \in Replicas, NEW c \in Contexts, CanRead(r, c),
                    origin[c] = cipher[r], cipher[r] = Vault => vaultUp
             PROVE  Decrypt(r, c).ok
  BY DEF FailuresAreDue
<1> DEFINE row == rows[c]
<1>1. cipher[r] \in Ciphers /\ origin[c] # Nothing
  BY RowsAreTold DEF Inv, TypeOK, CanRead
<1>2. row.sealed = cipher[r] /\ row.context = c
  BY <1>1 DEF Inv, OriginOK
<1>3. Open(cipher[r], c, row) = Ok(row.value)
  <2>1. CASE cipher[r] = Noop
    BY <1>2, <2>1 DEF Open, OpenNoop
  <2>2. CASE cipher[r] = Vault
    BY <1>2, <2>2 DEF Open, OpenVault
  <2>3. ASSUME NEW k \in Keys, cipher[r] = Local(k)
        PROVE  Open(cipher[r], c, row) = Ok(row.value)
    BY <1>2, <2>3 DEF Open, OpenLocal
  <2> QED BY <1>1, <2>1, <2>2, <2>3 DEF Ciphers
<1> QED BY <1>3 DEF Decrypt, Ok

\* With encryption required, and a derived key where Vault is used, a
\* successful decrypt returns what was encrypted under that very context.
THEOREM ReadsReturnOwn == Spec => []ReadsAreOwn
  BY Invariance, OwnReads, PTL

\* A replica reads every row saved under its own cipher, Vault permitting.
THEOREM NoRowIsLost == Spec => []FailuresAreDue
  BY Invariance, DueFailures, PTL

\* build_strict with require_encryption never leads to a plaintext write.
THEOREM NeverInTheClear == Spec => NothingSavedInTheClear
<1>1. Inv /\ [Next]_vars =>
          [Required => \A r \in Replicas : Save(r) =>
              rows'[pending[r].target].sealed # Noop]_rows
  <2> SUFFICES ASSUME Inv, Required, NEW r \in Replicas, Save(r)
               PROVE  rows'[pending[r].target].sealed # Noop
    OBVIOUS
  <2>1. /\ pending[r].target \in Contexts
        /\ pending[r].row.sealed = cipher[r]
        /\ rows \in [Contexts -> Row \cup {NoRow}]
    BY DEF Save, Inv, TypeOK, Pending
  <2>2. rows'[pending[r].target] = pending[r].row
    BY <2>1 DEF Save
  <2> QED BY <2>1, <2>2 DEF Inv, CiphersOK
<1> QED BY <1>1, Invariance, PTL DEF Spec, NothingSavedInTheClear
=============================================================================
