----------------------------- MODULE VaultProofs -----------------------------
(***************************************************************************)
(* Theorems about Vault, for every number of providers, keys, versions and *)
(* overlapping requests.                                                   *)
(***************************************************************************)
EXTENDS Vault, WellFoundedInduction, TLAPS

-----------------------------------------------------------------------------
(* Encryption *)

\* The version that encrypts is one of those at hand: there is a largest one.
LEMMA CurrentKey ==
    ASSUME keys \in Keyring
    PROVE  Current \in DOMAIN keys /\ Current \in 1..MaxVersion
<1>0. PICK V \in (SUBSET (1..MaxVersion)) \ {{}} : keys \in [V -> Material]
  BY DEF Keyring
<1>1. DOMAIN keys \subseteq 1..MaxVersion /\ DOMAIN keys # {}
  <2>1. DOMAIN keys = V
    BY <1>0
  <2>2. V \subseteq 1..MaxVersion /\ V # {}
    BY <1>0
  <2>3. QED
    BY <2>1, <2>2
<1> DEFINE Left == {n \in Nat : \E v \in DOMAIN keys : n = MaxVersion - v}
<1>2. Left \subseteq Nat /\ Left # {}
  BY <1>1, VaultAssumption
<1>3. PICK n \in Left : \A m \in Left : ~ (<<m, n>> \in OpToRel(<, Nat))
  <2> HIDE DEF Left
  <2>1. QED
    BY <1>2, NatLessThanWellFounded, WFMin
<1>4. \A m \in Left : ~ (m < n)
  BY <1>2, <1>3 DEF OpToRel
<1>5. PICK v \in DOMAIN keys : n = MaxVersion - v
  OBVIOUS
<1>6. ASSUME NEW w \in DOMAIN keys PROVE w <= v
  <2>1. v \in 1..MaxVersion /\ w \in 1..MaxVersion
    BY <1>1
  <2>2. MaxVersion - w \in Left
    BY <2>1, VaultAssumption
  <2>3. ~ (MaxVersion - w < MaxVersion - v)
    BY <1>4, <1>5, <2>2
  <2> HIDE DEF Left
  <2>4. QED
    BY <2>1, <2>3, VaultAssumption
<1>7. QED
  BY <1>1, <1>6 DEF Current

\* What is encrypted now can be read now.
LEMMA EncryptedReadable ==
    ASSUME keys \in Keyring, NEW secrets \in Secrets
    PROVE  /\ Encrypted(secrets) \in Blob
           /\ Encrypted(secrets).secrets = secrets
           /\ Encrypted(secrets).version = Current
           /\ ReadableWith(keys, Encrypted(secrets))
<1>1. Current \in DOMAIN keys /\ Current \in 1..MaxVersion
  BY CurrentKey
<1>2. keys[Current] \in Material
  BY <1>1 DEF Keyring
<1>3. QED
  BY <1>1, <1>2 DEF Encrypted, Blob, ReadableWith

-----------------------------------------------------------------------------
(* Secrets and updates *)

\* Naming the fields of a set of secrets one by one is naming them all.
LEMMA FieldByField ==
    ASSUME NEW was \in Secrets, NEW item \in Item
    PROVE  [f \in DOMAIN was |-> IF item[f] # None THEN item[f] ELSE was[f]]
             = Merged(was, item)
BY DEF Secrets, Item, Merged

LEMMA MergedSecrets ==
    ASSUME NEW was \in Secrets, NEW item \in Item
    PROVE  Merged(was, item) \in Secrets
BY DEF Secrets, Item, Merged

LEMMA EmptySecrets == Empty \in Secrets
BY DEF Empty, Secrets

-----------------------------------------------------------------------------
(* Rows and jobs *)

LEMMA NoRowHasNoId == NoRow.id = None /\ NoRow.key_version = 0 /\ NoRow.hint = None
BY DEF NoRow

LEMMA RowKinds ==
    ASSUME NEW row \in CredentialRow
    PROVE  /\ row = NoRow <=> row.id = None
           /\ row.id \in Row \cup {None} /\ row.hint \in Key \cup {None}
           /\ row.key_version \in 0..MaxVersion
           /\ row # NoRow => row \in [id: Row, blob: Blob, key_version: 1..MaxVersion,
                                      hint: Key \cup {None}]
<1>1. CASE row = NoRow
  BY <1>1, VaultAssumption DEF NoRow
<1>2. CASE row \in [id: Row, blob: Blob, key_version: 1..MaxVersion, hint: Key \cup {None}]
  <2>1. row.id \in Row /\ row.key_version \in 1..MaxVersion
    BY <1>2
  <2>2. row.id # None /\ row # NoRow
    BY <2>1, VaultAssumption DEF NoRow
  <2>3. QED
    BY <1>2, <2>1, <2>2
<1>3. QED
  BY <1>1, <1>2 DEF CredentialRow

LEMMA JobKinds ==
    ASSUME NEW job \in Job
    PROVE  /\ job.op \in {"idle", "save", "import", "clear"}
           /\ job.op = "idle" => job = Idle
           /\ job.op \in {"save", "import"} => job.update \in Update
           /\ job.op = "import" => job.rest \in SUBSET Item /\ job.replace \in BOOLEAN
           /\ job.op = "clear" => job.listed \in [Provider -> Row \cup {None}]
<1>1. CASE job = Idle
  BY <1>1 DEF Idle
<1>2. CASE job \in [op: {"save"}, update: Update]
  BY <1>2
<1>3. CASE job \in [op: {"import"}, update: Update, rest: SUBSET Item, replace: BOOLEAN]
  BY <1>3
<1>4. CASE job \in [op: {"clear"}, listed: [Provider -> Row \cup {None}]]
  BY <1>4
<1>5. QED
  BY <1>1, <1>2, <1>3, <1>4 DEF Job

LEMMA UpdateKinds ==
    ASSUME NEW update \in Update
    PROVE  /\ update.item \in Item /\ update.item.provider \in Provider
           /\ update.id \in Row \cup {None} /\ update.secrets \in Secrets
           /\ update.key_version \in 0..MaxVersion /\ update.hint \in Key \cup {None}
BY DEF Update, Item

LEMMA IdleJob == Idle \in Job /\ Idle.op = "idle"
BY DEF Job, Idle

\* What a job in flight is about.
LEMMA AboutJob ==
    ASSUME NEW job \in Job
    PROVE  /\ job.op = "save" => About(job) = {job.update.item.provider}
           /\ job.op = "import" =>
                About(job) = {i.provider : i \in {job.update.item} \cup job.rest}
           /\ job.op \in {"idle", "clear"} => About(job) = {}
           /\ job.op \in {"save", "import"} <=> About(job) # {}
           /\ job.op \in {"save", "import"} => job.update.item.provider \in About(job)
<1>1. CASE job.op = "save"
  BY <1>1 DEF About
<1>2. CASE job.op = "import"
  BY <1>2 DEF About
<1>3. CASE job.op \in {"idle", "clear"}
  BY <1>3 DEF About
<1>4. QED
  BY <1>1, <1>2, <1>3, JobKinds

\* A request holds one key of a provider's rows at most.
LEMMA HoldsOne ==
    ASSUME TypeOK, NEW t \in Thread, NEW p \in Provider, NEW a \in Row, NEW b \in Row,
           Holds(t, p, a), Holds(t, p, b)
    PROVE  a = b
<1>1. threads[t] \in Job
  BY DEF TypeOK
<1>2. QED
  BY <1>1, AboutJob DEF Holds, Doing

\* The key of a row that is inserted is held by no request.
LEMMA NewIdFree ==
    ASSUME TypeOK, NEW t \in Thread, NEW p \in Provider,
           \A id \in Row : ~Holds(t, p, id)
    PROVE  NewId(p) \in Row /\ \A u \in Thread : ~Holds(u, p, NewId(p))
<1> DEFINE held == [u \in Thread \ {t} |->
                      IF \E id \in Row : Holds(u, p, id) THEN CHOOSE id \in Row : Holds(u, p, id)
                                                         ELSE CHOOSE id \in Row : TRUE]
<1>1. held \in [Thread \ {t} -> Row]
  BY RowAssumption
<1>2. PICK id \in Row : \A u \in Thread \ {t} : held[u] # id
  BY <1>1, RowAssumption
<1>3. ASSUME NEW u \in Thread, Holds(u, p, id) PROVE FALSE
  <2>1. u \in Thread \ {t}
    BY <1>3
  <2>2. held[u] \in Row /\ Holds(u, p, held[u])
    BY <1>3, <2>1
  <2>3. held[u] = id
    BY <1>3, <2>2, HoldsOne
  <2>4. QED
    BY <1>2, <2>1, <2>3
<1>4. QED
  BY <1>3 DEF NewId

-----------------------------------------------------------------------------
(* What an update writes *)

\* An update that agrees with its row, and may be written.
Sound(t, update) ==
    LET p == update.item.provider
    IN  /\ update \in Update /\ Accepted(update) /\ rows[p].id = update.id
        /\ update.id = None =>
             /\ update.secrets = Empty /\ update.key_version = 0 /\ update.hint = None
             /\ \A id \in Row : ~Holds(t, p, id)
        /\ update.id # None =>
             /\ rows[p].key_version \in {update.key_version, Current}
             /\ stored[p] # Unknown => /\ update.secrets = rows[p].blob.secrets
                                       /\ update.hint = rows[p].hint

\* What is known to be stored after an item is.
Replaced(was, item) ==
    IF was = Unknown THEN Unknown
    ELSE Merged(IF was = None THEN Empty ELSE was, item)

\* What is stored for a provider, if it is known, is what its row has.
LEMMA StoredInRow ==
    ASSUME IInv, NEW p \in Provider
    PROVE  /\ rows[p] \in CredentialRow
           /\ rows[p] # NoRow /\ stored[p] # Unknown =>
                /\ ReadableWith(keys, rows[p].blob)
                /\ stored[p] = rows[p].blob.secrets /\ stored[p] \in Secrets
           /\ rows[p] = NoRow => stored[p] = None /\ stored[p] # Unknown
<1> USE DEF IInv
<1>1. rows[p] \in CredentialRow
  BY DEF TypeOK
<1>2. ASSUME rows[p] # NoRow, stored[p] # Unknown
      PROVE  /\ ReadableWith(keys, rows[p].blob)
             /\ stored[p] = rows[p].blob.secrets /\ stored[p] \in Secrets
  <2>1. stored[p] # None /\ Exported(p) = stored[p]
    BY <1>2 DEF HistoryOK, StoredIsExported
  <2>2. ReadableWith(keys, rows[p].blob) /\ stored[p] = rows[p].blob.secrets
    BY <2>1 DEF Exported
  <2>3. QED
    BY <1>2, <2>1, <2>2 DEF TypeOK
<1>3. QED
  BY <1>1, <1>2, VaultAssumption DEF HistoryOK

\* What an item reads agrees with the row.
LEMMA ReadAgrees ==
    ASSUME IInv, NEW item \in Item
    PROVE  LET update == Read(item)
               p == item.provider
           IN  /\ update \in Update /\ update.item = item /\ update.id = rows[p].id
               /\ update.key_version = rows[p].key_version /\ update.hint = rows[p].hint
               /\ update.id = None => update.secrets = Empty /\ update.key_version = 0
                                      /\ update.hint = None
               /\ update.id # None /\ stored[p] # Unknown =>
                    update.secrets = rows[p].blob.secrets
<1> DEFINE p == item.provider
           row == rows[p]
           secrets == IF row = NoRow THEN Empty ELSE Decrypted(row.blob)
<1>1. p \in Provider /\ row \in CredentialRow
  BY DEF IInv, TypeOK, Item
<1>2. row # NoRow => row.blob.secrets \in Secrets
  BY <1>1, RowKinds DEF Blob
<1>3. secrets \in Secrets
  BY <1>2, EmptySecrets DEF Decrypted
<1>4. Read(item) = [item |-> item, id |-> row.id, secrets |-> secrets,
                    key_version |-> row.key_version, hint |-> row.hint]
  BY DEF Read
<1>5. row # NoRow /\ stored[p] # Unknown => secrets = row.blob.secrets
  BY <1>1, StoredInRow DEF Decrypted
<1>6. row = NoRow => secrets = Empty
  OBVIOUS
<1>7. /\ row.id \in Row \cup {None} /\ row.key_version \in 0..MaxVersion
      /\ row.hint \in Key \cup {None} /\ (row.id = None <=> row = NoRow)
  BY <1>1, RowKinds
<1> HIDE DEF secrets, row, p
<1>8. Read(item) \in Update
  BY <1>3, <1>4, <1>7 DEF Update
<1>9. row = NoRow => row.key_version = 0 /\ row.hint = None
  BY NoRowHasNoId
<1>10. QED
  BY <1>4, <1>5, <1>6, <1>7, <1>8, <1>9 DEF row, p

\* The row that a sound update leaves is as it should be.
LEMMA SoundWrites ==
    ASSUME IInv, NEW t \in Thread, NEW update, Sound(t, update)
    PROVE  LET p == update.item.provider
               new == Updated(update)
               now == Replaced(stored[p], update.item)
           IN  /\ p \in Provider /\ new \in CredentialRow /\ new # NoRow
               /\ now \in Secrets \cup {Unknown} /\ now # None
               /\ ReadableWith(keys, new.blob)
               /\ now # Unknown => now = new.blob.secrets /\ new.hint = new.blob.secrets.api_key
               /\ new.key_version = Current /\ new.blob.version = Current
               /\ p \notin Keyless => new.blob.secrets.api_key # None
               /\ new.id = rows[p].id \/ \A u \in Thread : ~Holds(u, p, new.id)
<1> USE DEF IInv
<1> DEFINE p == update.item.provider
           merged == Merged(update.secrets, update.item)
           new == Updated(update)
           now == Replaced(stored[p], update.item)
<1>1. /\ update \in Update /\ Accepted(update) /\ rows[p].id = update.id
  BY DEF Sound
<1>2. /\ update.item \in Item /\ p \in Provider /\ update.secrets \in Secrets
      /\ update.id \in Row \cup {None}
  BY <1>1, UpdateKinds
<1>3. merged \in Secrets
  BY <1>2, MergedSecrets
<1>4. rows[p] \in CredentialRow /\ keys \in Keyring
  BY <1>2 DEF TypeOK
<1>5. /\ Encrypted(merged) \in Blob /\ Encrypted(merged).secrets = merged
      /\ Encrypted(merged).version = Current /\ ReadableWith(keys, Encrypted(merged))
  BY <1>3, <1>4, EncryptedReadable
<1>6. Current \in 1..MaxVersion /\ Current # 0
  BY <1>4, CurrentKey
<1> DEFINE id == IF update.id = None THEN NewId(p) ELSE update.id
           version == Written(update.key_version, Current, rows[p].key_version)
           hint == Written(update.hint, Hint(update), rows[p].hint)
<1>7. new = [id |-> id, blob |-> Encrypted(merged), key_version |-> version, hint |-> hint]
  BY DEF Updated
<1>8. id \in Row /\ (id = rows[p].id \/ \A u \in Thread : ~Holds(u, p, id))
  BY <1>1, <1>2, NewIdFree DEF Sound
<1>9. version = Current
  <2>1. CASE update.id = None
    BY <1>6, <2>1 DEF Sound, Written
  <2>2. CASE update.id # None
    BY <2>2 DEF Sound, Written
  <2>3. QED
    BY <2>1, <2>2
<1>10. hint \in Key \cup {None} /\ (stored[p] # Unknown => hint = merged.api_key)
  <2>1. Hint(update) = merged.api_key /\ merged.api_key \in Key \cup {None}
    BY <1>3 DEF Hint, Secrets
  <2>2. rows[p].hint \in Key \cup {None}
    BY <1>4, RowKinds
  <2>3. update.id = None => update.hint = None /\ rows[p].hint = None
    BY <1>1, <1>4, RowKinds, NoRowHasNoId DEF Sound
  <2>4. update.id # None /\ stored[p] # Unknown => update.hint = rows[p].hint
    BY DEF Sound
  <2>5. QED
    BY <2>1, <2>2, <2>3, <2>4 DEF Written
<1>11. /\ stored[p] = Unknown => now = Unknown
       /\ stored[p] # Unknown => now = merged
  <2>1. CASE stored[p] = Unknown
    BY <2>1 DEF Replaced
  <2>2. CASE stored[p] # Unknown /\ update.id = None
    <3>1. rows[p] = NoRow /\ stored[p] = None
      BY <1>1, <1>2, <1>4, <2>2, RowKinds, StoredInRow
    <3>2. QED
      BY <2>2, <3>1 DEF Sound, Replaced
  <2>3. CASE stored[p] # Unknown /\ update.id # None
    <3>1. rows[p] # NoRow
      BY <1>1, <1>4, <2>3, RowKinds
    <3>2. stored[p] = update.secrets /\ stored[p] # None
      BY <1>2, <2>3, <3>1, StoredInRow DEF Sound, HistoryOK
    <3>3. QED
      BY <2>3, <3>2 DEF Replaced
  <2>4. QED
    BY <2>1, <2>2, <2>3
<1>12. p \notin Keyless => merged.api_key # None
  BY <1>1 DEF Accepted
<1>13. merged # None /\ merged # Unknown /\ Unknown # None
  BY <1>3, VaultAssumption DEF Secrets
<1> HIDE DEF id, version, hint, merged
<1>14. /\ new \in CredentialRow /\ new # NoRow /\ new.id = id
       /\ new.blob = Encrypted(merged) /\ new.key_version = version /\ new.hint = hint
  <2>1. new.id = id /\ new.blob = Encrypted(merged) /\ new.key_version = version
        /\ new.hint = hint
    BY <1>7
  <2>2. new \in [id: Row, blob: Blob, key_version: 1..MaxVersion, hint: Key \cup {None}]
    BY <1>5, <1>6, <1>7, <1>8, <1>9, <1>10
  <2>3. new \in CredentialRow
    BY <2>2 DEF CredentialRow
  <2>4. new # NoRow
    BY <1>8, <2>1, VaultAssumption, NoRowHasNoId
  <2>5. QED
    BY <2>1, <2>3, <2>4
<1> HIDE DEF new, now
<1>15. QED
  BY <1>2, <1>3, <1>5, <1>8, <1>9, <1>10, <1>11, <1>12, <1>13, <1>14 DEF p, new, now

-----------------------------------------------------------------------------
(* What one step can do to a row *)

\* A sound update is what is in flight in a request whose row is still there.
LEMMA SoundJob ==
    ASSUME IInv, NEW t \in Thread, Updating(t), Applicable(threads[t].update)
    PROVE  Sound(t, threads[t].update)
<1> DEFINE update == threads[t].update
           p == update.item.provider
<1>1. threads[t] \in Job /\ update \in Update
  BY JobKinds DEF IInv, TypeOK, Updating
<1>2. /\ Accepted(update) /\ rows[p].id = update.id
      /\ update.id = None =>
           update.secrets = Empty /\ update.key_version = 0 /\ update.hint = None
      /\ update.id # None =>
           /\ rows[p].key_version \in {update.key_version, Current}
           /\ stored[p] # Unknown => update.secrets = rows[p].blob.secrets
                                     /\ update.hint = rows[p].hint
  BY DEF IInv, UpdatesOK, Applicable
<1>3. ASSUME update.id = None, NEW id \in Row, Holds(t, p, id) PROVE FALSE
  <2>1. ~Doing(t, "clear")
    BY DEF Updating, Doing
  <2>2. QED
    BY <1>3, <2>1, VaultAssumption DEF Holds
<1>4. QED
  BY <1>1, <1>2, <1>3 DEF Sound

\* So is what an import reads under the write lock.
LEMMA SoundRead ==
    ASSUME IInv, NEW t \in Thread, Doing(t, "import"), NEW item \in threads[t].rest,
           Accepted(Read(item))
    PROVE  Sound(t, Read(item)) /\ Read(item).item = item /\ item \in Item
<1> DEFINE p == item.provider
           update == Read(item)
<1>1. threads[t] \in Job /\ item \in Item /\ p \in Provider
  BY JobKinds DEF IInv, TypeOK, Doing, Item
<1>2. /\ update \in Update /\ update.item = item /\ update.id = rows[p].id
      /\ update.key_version = rows[p].key_version /\ update.hint = rows[p].hint
      /\ update.id = None => update.secrets = Empty /\ update.key_version = 0
                             /\ update.hint = None
      /\ update.id # None /\ stored[p] # Unknown =>
           update.secrets = rows[p].blob.secrets
  BY <1>1, ReadAgrees
<1>3. threads[t].update.item.provider # p
  BY DEF IInv, JobsOK, Items, Doing
<1>4. \A id \in Row : ~Holds(t, p, id)
  BY <1>3 DEF Holds, Doing
<1> HIDE DEF update
<1>5. Accepted(update)
  BY DEF update
<1>6. Sound(t, update)
  BY <1>2, <1>4, <1>5 DEF Sound
<1>7. QED
  BY <1>1, <1>2, <1>6 DEF update

\* What is recorded of items of different providers.
LEMMA RecordedOne ==
    ASSUME TypeOK, NEW p \in Provider, NEW items \in SUBSET Item, NEW item \in items,
           item.provider = p, \A i \in items : i.provider = p => i = item
    PROVE  Recorded(items)[p] = Replaced(stored[p], item)
<1>1. (CHOOSE i \in items : i.provider = p) = item
  OBVIOUS
<1>2. \E i \in items : i.provider = p
  OBVIOUS
<1> DEFINE was == IF stored[p] = None THEN Empty ELSE stored[p]
<1>3. stored[p] # Unknown => was \in Secrets
  BY EmptySecrets DEF TypeOK
<1>4. stored[p] # Unknown =>
        [f \in DOMAIN was |-> IF item[f] # None THEN item[f] ELSE was[f]] = Merged(was, item)
  BY <1>3, FieldByField
<1>5. Recorded(items)[p] = IF stored[p] # Unknown
                           THEN [f \in DOMAIN was |-> IF item[f] # None THEN item[f] ELSE was[f]]
                           ELSE stored[p]
  BY <1>1, <1>2 DEF Recorded
<1>6. QED
  BY <1>4, <1>5 DEF Replaced

LEMMA RecordedOthers ==
    ASSUME NEW p \in Provider, NEW items, \A i \in items : i.provider # p
    PROVE  Recorded(items)[p] = stored[p]
BY DEF Recorded

\* A row written by a request.
Writes(t, p) ==
    /\ Updating(t) /\ p \in About(threads[t]) /\ threads'[t] = Idle
    /\ \E update : /\ Sound(t, update) /\ update.item.provider = p
                   /\ rows'[p] = Updated(update)
                   /\ stored'[p] = Replaced(stored[p], update.item)

LEMMA SaveWrites ==
    ASSUME IInv, NEW t \in Thread, CommitSave(t), NEW p \in Provider
    PROVE  Writes(t, p) \/ (rows'[p] = rows[p] /\ stored'[p] = stored[p])
<1> DEFINE update == threads[t].update
<1>1. threads[t] \in Job /\ Updating(t) /\ threads[t].op = "save" /\ Sound(t, update)
  BY SoundJob DEF CommitSave, Doing, Updating, IInv, TypeOK
<1>2. update.item \in Item
  BY <1>1, JobKinds, UpdateKinds DEF Updating
<1>3. CASE update.item.provider = p
  <2>1. rows'[p] = Updated(update)
    BY <1>3 DEF CommitSave, IInv, TypeOK
  <2>2. Recorded({update.item})[p] = Replaced(stored[p], update.item)
    BY <1>2, <1>3, RecordedOne DEF IInv
  <2>3. stored'[p] = Replaced(stored[p], update.item) /\ threads'[t] = Idle
    BY <2>2 DEF CommitSave, Finish, IInv, TypeOK
  <2>4. p \in About(threads[t])
    BY <1>1, <1>3, AboutJob
  <2>5. QED
    BY <1>1, <1>3, <2>1, <2>3, <2>4 DEF Writes
<1>4. CASE update.item.provider # p
  <2>1. rows'[p] = rows[p]
    BY <1>4 DEF CommitSave, IInv, TypeOK
  <2>2. stored'[p] = stored[p]
    BY <1>4, RecordedOthers DEF CommitSave
  <2>3. QED
    BY <2>1, <2>2
<1>5. QED
  BY <1>3, <1>4

LEMMA ImportWrites ==
    ASSUME IInv, NEW t \in Thread, CommitImport(t), NEW p \in Provider
    PROVE  \/ Writes(t, p)
           \/ rows'[p] = rows[p] /\ stored'[p] = stored[p]
           \/ rows'[p] = NoRow /\ stored'[p] = None
<1> DEFINE job == threads[t]
           updates == {job.update} \cup {u \in {Read(i) : i \in job.rest} : Accepted(u)}
           seen == {u.item.provider : u \in updates}
           items == {u.item : u \in updates}
<1>1. /\ job \in Job /\ Updating(t) /\ Doing(t, "import") /\ job.op = "import"
      /\ Sound(t, job.update) /\ job.update.item \in Item
  <2>1. job \in Job /\ Updating(t) /\ Doing(t, "import") /\ job.op = "import"
    BY DEF CommitImport, Doing, Updating, IInv, TypeOK
  <2>2. QED
    BY <2>1, SoundJob, JobKinds, UpdateKinds DEF CommitImport
<1>2. ASSUME NEW u \in updates
      PROVE  /\ Sound(t, u) /\ u.item \in Item /\ u.item \in Items(job)
             /\ u.item = job.update.item => u = job.update
             /\ u.item # job.update.item => u = Read(u.item)
  <2>1. CASE u = job.update
    BY <1>1, <2>1 DEF Items
  <2>2. ASSUME NEW i \in job.rest, u = Read(i), Accepted(u)
        PROVE  Sound(t, u) /\ u.item = i /\ i \in Item
    BY <1>1, <2>2, SoundRead
  <2>3. job.update.item \notin job.rest
    BY <1>1 DEF IInv, JobsOK
  <2>4. QED
    BY <1>1, <2>1, <2>2, <2>3 DEF Items
<1>3. \A u, v \in updates : u.item.provider = v.item.provider => u = v
  <2>1. \A i, j \in Items(job) : i.provider = j.provider => i = j
    BY <1>1 DEF IInv, JobsOK
  <2> HIDE DEF updates, job
  <2>2. QED
    BY <1>2, <2>1
<1>4. /\ rows'[p] = (IF p \in seen THEN Updated(CHOOSE u \in updates : u.item.provider = p)
                     ELSE IF job.replace THEN NoRow ELSE rows[p])
      /\ stored'[p] = (IF p \in seen \/ ~job.replace THEN Recorded(items)[p] ELSE None)
      /\ threads'[t] = Idle
  BY DEF CommitImport, Finish, IInv, TypeOK
<1>5. \A i \in Items(job) : i.provider \in About(job)
  BY <1>1, AboutJob DEF Items
<1> HIDE DEF updates, job
<1>6. CASE p \in seen
  <2>1. PICK u \in updates : u.item.provider = p
    BY <1>6
  <2>2. (CHOOSE v \in updates : v.item.provider = p) = u
    BY <1>3, <2>1
  <2>3. items \in SUBSET Item /\ u.item \in items /\ \A i \in items : i.provider = p => i = u.item
    BY <1>2, <1>3, <2>1
  <2>4. Recorded(items)[p] = Replaced(stored[p], u.item)
    <3> HIDE DEF items
    <3>1. QED
      BY <2>1, <2>3, RecordedOne DEF IInv
  <2>5. Sound(t, u) /\ p \in About(job)
    BY <1>2, <1>5, <2>1
  <2>6. QED
    BY <1>1, <1>4, <1>6, <2>1, <2>2, <2>4, <2>5 DEF Writes, job
<1>7. CASE p \notin seen
  <2>1. \A i \in items : i.provider # p
    BY <1>7
  <2>2. Recorded(items)[p] = stored[p]
    <3> HIDE DEF items
    <3>1. QED
      BY <2>1, RecordedOthers
  <2>3. QED
    BY <1>4, <1>7, <2>2
<1>8. QED
  BY <1>6, <1>7

\* A row that is found gone, or was not there.
Drops(p) == rows'[p] = NoRow /\ stored'[p] = None

Keeps(p) == rows'[p] = rows[p] /\ stored'[p] = stored[p]

Blurs(p) == rows'[p] = rows[p] /\ rows[p] # NoRow /\ stored'[p] = Unknown

\* In a step a row is written, deleted or kept; with the keys of the service that is
\* running, or it is started with others and every request is over.
LEMMA RowStep ==
    ASSUME IInv, [Next]_vars, NEW p \in Provider
    PROVE  \/ /\ keys' = keys
              /\ (\E t \in Thread : Writes(t, p)) \/ Drops(p) \/ Keeps(p) \/ Blurs(p)
           \/ /\ keys' \in Keyring /\ \A t \in Thread : threads'[t] = Idle
              /\ \/ Blurs(p)
                 \/ Keeps(p) /\ (rows[p] = NoRow \/ ReadableWith(keys', rows[p].blob))
<1> DEFINE Goal == /\ keys' = keys
                   /\ (\E t \in Thread : Writes(t, p)) \/ Drops(p) \/ Keeps(p) \/ Blurs(p)
<1>1. CASE UNCHANGED vars
  BY <1>1 DEF vars, Keeps
<1>2. ASSUME NEW t \in Thread, NEW ps, NotesOverlap(t, ps), UNCHANGED <<rows, keys>>
      PROVE  Goal
  BY <1>2 DEF NotesOverlap, Keeps, Blurs
<1>3. ASSUME NEW t \in Thread, NEW q \in Provider, NEW key \in Typed[q], BeginSave(t, q, key)
      PROVE  Goal
  BY <1>2, <1>3 DEF BeginSave
<1>4. ASSUME NEW t \in Thread, CommitSave(t) PROVE Goal
  BY <1>4, SaveWrites DEF CommitSave, Keeps
<1>5. ASSUME NEW t \in Importer, NEW items \in Pushes, NEW replace \in BOOLEAN,
             NEW first \in items, NEW refused \in SUBSET items,
             BeginImport(t, items, first, refused, replace)
      PROVE  Goal
  <2>1. t \in Thread
    BY VaultAssumption
  <2>2. NotesOverlap(t, {i.provider : i \in items}) /\ UNCHANGED <<rows, keys>>
    BY <1>5 DEF BeginImport
  <2>3. QED
    BY <1>2, <2>1, <2>2
<1>6. ASSUME NEW t \in Importer, CommitImport(t) PROVE Goal
  <2>1. t \in Thread
    BY VaultAssumption
  <2>2. keys' = keys
    BY <1>6 DEF CommitImport
  <2>3. QED
    BY <1>6, <2>1, <2>2, ImportWrites DEF Keeps, Drops
<1>7. ASSUME NEW t \in Importer, NEW items \in Pushes, BeginClear(t, items) PROVE Goal
  BY <1>7 DEF BeginClear, Keeps
<1>8. ASSUME NEW ps, Deleted(ps) PROVE Drops(p) \/ Keeps(p)
  BY <1>8 DEF Deleted, Drops, Keeps
<1>9. ASSUME NEW t \in Importer, CommitClear(t) PROVE Goal
  BY <1>8, <1>9 DEF CommitClear
<1>10. ASSUME NEW t \in Thread, RequestFails(t) PROVE Goal
  BY <1>10 DEF RequestFails, Keeps
<1>11. ASSUME NEW q \in Provider, Delete(q) PROVE Goal
  BY <1>8, <1>11 DEF Delete
<1>12. ASSUME NEW ring \in Keyring, Restart(ring)
       PROVE  /\ keys' \in Keyring /\ \A t \in Thread : threads'[t] = Idle
              /\ \/ Blurs(p)
                 \/ Keeps(p) /\ (rows[p] = NoRow \/ ReadableWith(keys', rows[p].blob))
  BY <1>12 DEF Restart, Blurs, Keeps
<1>13. QED
  BY <1>1, <1>3, <1>4, <1>5, <1>6, <1>7, <1>9, <1>10, <1>11, <1>12 DEF Next

-----------------------------------------------------------------------------
(* Every step keeps what is true of rows *)

LEMMA StepRows ==
    ASSUME IInv, [Next]_vars, NEW p \in Provider
    PROVE  /\ rows'[p] \in CredentialRow /\ stored'[p] \in Secrets \cup {None, Unknown}
           /\ rows'[p] = NoRow <=> stored'[p] = None
           /\ rows'[p] # NoRow /\ stored'[p] # Unknown =>
                /\ ReadableWith(keys', rows'[p].blob)
                /\ stored'[p] = rows'[p].blob.secrets
           /\ rows'[p] # NoRow =>
                /\ p \notin Keyless => rows'[p].blob.secrets.api_key # None
                /\ rows'[p].key_version = rows'[p].blob.version
                /\ stored'[p] # Unknown => rows'[p].hint = rows'[p].blob.secrets.api_key
<1>0. rows[p] \in CredentialRow /\ stored[p] \in Secrets \cup {None, Unknown}
  BY DEF IInv, TypeOK
<1>1. /\ rows[p] = NoRow <=> stored[p] = None
      /\ rows[p] # NoRow =>
           /\ p \notin Keyless => rows[p].blob.secrets.api_key # None
           /\ rows[p].key_version = rows[p].blob.version
           /\ stored[p] # Unknown => rows[p].hint = rows[p].blob.secrets.api_key
  BY DEF IInv, HistoryOK, NeverBlank, ColumnsMatch
<1>2. rows[p] # NoRow /\ stored[p] # Unknown =>
        ReadableWith(keys, rows[p].blob) /\ stored[p] = rows[p].blob.secrets
  BY StoredInRow
<1>3. CASE keys' = keys /\ \E t \in Thread : Writes(t, p)
  <2>0. PICK t \in Thread : Writes(t, p)
    BY <1>3
  <2>1. PICK update : /\ Sound(t, update) /\ update.item.provider = p
                      /\ rows'[p] = Updated(update)
                      /\ stored'[p] = Replaced(stored[p], update.item)
    BY <2>0 DEF Writes
  <2>2. /\ rows'[p] \in CredentialRow /\ rows'[p] # NoRow
        /\ stored'[p] \in Secrets \cup {Unknown} /\ stored'[p] # None
        /\ ReadableWith(keys, rows'[p].blob)
        /\ stored'[p] # Unknown => /\ stored'[p] = rows'[p].blob.secrets
                                   /\ rows'[p].hint = rows'[p].blob.secrets.api_key
        /\ rows'[p].key_version = Current /\ rows'[p].blob.version = Current
        /\ p \notin Keyless => rows'[p].blob.secrets.api_key # None
    BY <2>1, SoundWrites
  <2>3. QED
    BY <1>3, <2>2
<1>4. CASE Drops(p)
  BY <1>4, VaultAssumption DEF Drops, CredentialRow
<1>5. CASE Keeps(p) /\ (keys' = keys \/ rows[p] = NoRow \/ ReadableWith(keys', rows[p].blob))
  BY <1>0, <1>1, <1>2, <1>5 DEF Keeps
<1>6. CASE Blurs(p)
  BY <1>0, <1>1, <1>6, VaultAssumption DEF Blurs
<1>7. QED
  BY <1>3, <1>4, <1>5, <1>6, RowStep

LEMMA StepHistoryOK == ASSUME IInv, [Next]_vars PROVE HistoryOK'
BY StepRows DEF HistoryOK

LEMMA StepNeverBlank == ASSUME IInv, [Next]_vars PROVE NeverBlank'
BY StepRows DEF NeverBlank

LEMMA StepColumnsMatch == ASSUME IInv, [Next]_vars PROVE ColumnsMatch'
BY StepRows DEF ColumnsMatch

LEMMA StepStoredIsExported == ASSUME IInv, [Next]_vars PROVE StoredIsExported'
<1>1. ASSUME NEW p \in Provider, stored'[p] # Unknown
      PROVE  (IF rows'[p] # NoRow /\ ReadableWith(keys', rows'[p].blob)
              THEN rows'[p].blob.secrets ELSE None) = stored'[p]
  BY <1>1, StepRows
<1>2. QED
  BY <1>1 DEF StoredIsExported, Exported

-----------------------------------------------------------------------------
(* Every step keeps what is true of requests *)

\* What a request that begins has in hand.
BeginsUpdate(t, update) ==
    /\ update \in Update /\ Accepted(update)
    /\ update.id = rows[update.item.provider].id
    /\ update.key_version = rows[update.item.provider].key_version
    /\ update.hint = rows[update.item.provider].hint
    /\ update.id = None => update.secrets = Empty /\ update.key_version = 0
                           /\ update.hint = None
    /\ update.id # None /\ stored[update.item.provider] # Unknown =>
         update.secrets = rows[update.item.provider].blob.secrets

\* The updates of a row that are in flight when another begins are noted.
Noted(t) ==
    /\ \A u \in Thread \ {t} : threads'[u] = threads[u]
    /\ UNCHANGED <<rows, keys>>
    /\ \A p \in About(threads'[t]) \cap Provider :
         rows[p] # NoRow /\ (\E u \in Thread \ {t} : p \in About(threads[u]))
           => stored'[p] = Unknown
    /\ \A p \in Provider : stored'[p] = Unknown \/ stored'[p] = stored[p]

BeginsOne(t) ==
    \/ /\ threads'[t].op = "save" /\ threads'[t] \in Job
       /\ BeginsUpdate(t, threads'[t].update) /\ Noted(t)
    \/ /\ threads'[t].op = "import" /\ threads'[t] \in Job
       /\ BeginsUpdate(t, threads'[t].update) /\ Noted(t)
       /\ threads'[t].update.item \notin threads'[t].rest
       /\ \A i, j \in Items(threads'[t]) : i.provider = j.provider => i = j
    \/ /\ threads'[t].op = "clear" /\ threads'[t] \in Job
       /\ \A u \in Thread \ {t} : threads'[u] = threads[u]
       /\ UNCHANGED <<rows, keys, stored>>

LEMMA SaveBegins ==
    ASSUME IInv, NEW t \in Thread, NEW p \in Provider, NEW key \in Typed[p],
           BeginSave(t, p, key)
    PROVE  BeginsOne(t)
<1> DEFINE item == [provider |-> p, api_key |-> key, extra |-> None]
           update == Read(item)
<1>1. key \in Key \cup {None} /\ item \in Item /\ item.provider = p
  BY VaultAssumption DEF Item
<1>2. BeginsUpdate(t, update) /\ update.item = item /\ update \in Update
  <2> HIDE DEF item
  <2>1. QED
    BY <1>1, ReadAgrees DEF BeginSave, BeginsUpdate, item
<1> HIDE DEF update, item
<1>3. /\ threads'[t] = [op |-> "save", update |-> update]
      /\ \A u \in Thread \ {t} : threads'[u] = threads[u]
  BY DEF BeginSave, Begin, IInv, TypeOK, update, item
<1>4. threads'[t] \in Job
  BY <1>2, <1>3 DEF Job
<1>5. About(threads'[t]) = {p}
  BY <1>1, <1>2, <1>3, <1>4, AboutJob
<1>6. Noted(t)
  BY <1>3, <1>5 DEF BeginSave, NotesOverlap, Noted
<1>7. QED
  BY <1>2, <1>3, <1>4, <1>6 DEF BeginsOne

LEMMA ImportBegins ==
    ASSUME IInv, NEW t \in Thread, NEW items \in Pushes, NEW replace \in BOOLEAN,
           NEW first \in items, NEW refused \in SUBSET items,
           BeginImport(t, items, first, refused, replace)
    PROVE  BeginsOne(t)
<1> DEFINE update == Read(first)
           rest == {i \in items \ ({first} \cup refused) : ~Blank(i)}
<1>1. /\ items \in SUBSET Item /\ first \in Item /\ rest \in SUBSET items /\ first \notin rest
      /\ \A i, j \in items : i.provider = j.provider => i = j
  BY VaultAssumption DEF Item
<1>2. BeginsUpdate(t, update) /\ update.item = first /\ update \in Update
  BY <1>1, ReadAgrees DEF BeginImport, BeginsUpdate
<1>3. /\ threads'[t] = [op |-> "import", update |-> update, replace |-> replace, rest |-> rest]
      /\ \A u \in Thread \ {t} : threads'[u] = threads[u]
  BY DEF BeginImport, Begin, IInv, TypeOK
<1> HIDE DEF update, rest
<1>4. threads'[t] \in Job
  <2>1. rest \in SUBSET Item
    BY <1>1
  <2>2. threads'[t] \in [op: {"import"}, update: Update, rest: SUBSET Item, replace: BOOLEAN]
    BY <1>2, <1>3, <2>1
  <2>3. QED
    BY <2>2 DEF Job
<1>5. Items(threads'[t]) \subseteq items
  BY <1>1, <1>2, <1>3 DEF Items
<1>6. About(threads'[t]) \subseteq {i.provider : i \in items}
  BY <1>1, <1>2, <1>3, <1>4, AboutJob
<1>7. Noted(t)
  BY <1>3, <1>6 DEF BeginImport, NotesOverlap, Noted
<1>8. QED
  BY <1>1, <1>2, <1>3, <1>4, <1>5, <1>7 DEF BeginsOne

\* A request is as it was, over, or begins in this step.
LEMMA ThreadStep ==
    ASSUME IInv, [Next]_vars, NEW t \in Thread
    PROVE  \/ threads'[t] = threads[t] /\ keys' = keys
           \/ threads'[t] = Idle
           \/ BeginsOne(t)
<1> DEFINE Kept == threads'[t] = threads[t] \/ threads'[t] = Idle
<1>1. CASE UNCHANGED vars
  BY <1>1 DEF vars
<1>2. ASSUME NEW u \in Thread, Finish(u) PROVE Kept
  BY <1>2 DEF Finish, IInv, TypeOK
<1>3. ASSUME NEW u \in Thread, u # t, NEW job, Begin(u, job) PROVE Kept
  BY <1>3 DEF Begin, IInv, TypeOK
<1>4. ASSUME NEW u \in Thread, NEW p \in Provider, NEW key \in Typed[p], BeginSave(u, p, key)
      PROVE  (Kept /\ keys' = keys) \/ BeginsOne(t)
  BY <1>3, <1>4, SaveBegins DEF BeginSave
<1>5. ASSUME NEW u \in Importer, NEW items \in Pushes, NEW replace \in BOOLEAN,
             NEW first \in items, NEW refused \in SUBSET items,
             BeginImport(u, items, first, refused, replace)
      PROVE  (Kept /\ keys' = keys) \/ BeginsOne(t)
  <2>1. u \in Thread
    BY VaultAssumption
  <2>2. QED
    BY <1>3, <1>5, <2>1, ImportBegins DEF BeginImport
<1>6. ASSUME NEW u \in Importer, NEW items \in Pushes, BeginClear(u, items)
      PROVE  (Kept /\ keys' = keys) \/ BeginsOne(t)
  <2>1. u \in Thread
    BY VaultAssumption
  <2>2. CASE u # t
    BY <1>3, <1>6, <2>1, <2>2 DEF BeginClear
  <2>3. CASE u = t
    <3>1. /\ threads'[t] = [op |-> "clear", listed |-> [p \in Provider |-> rows[p].id]]
          /\ \A v \in Thread \ {t} : threads'[v] = threads[v]
      BY <1>6, <2>3 DEF BeginClear, Begin, IInv, TypeOK
    <3>2. [p \in Provider |-> rows[p].id] \in [Provider -> Row \cup {None}]
      BY RowKinds DEF IInv, TypeOK
    <3>3. threads'[t] \in Job /\ threads'[t].op = "clear"
      BY <3>1, <3>2 DEF Job
    <3>4. QED
      BY <1>6, <3>1, <3>3 DEF BeginClear, BeginsOne
  <2>4. QED
    BY <2>2, <2>3
<1>7. ASSUME NEW u \in Thread, CommitSave(u) \/ CommitImport(u) \/ CommitClear(u) \/ RequestFails(u)
      PROVE  Kept /\ keys' = keys
  BY <1>2, <1>7 DEF CommitSave, CommitImport, CommitClear, RequestFails
<1>8. ASSUME NEW p \in Provider, Delete(p) PROVE Kept /\ keys' = keys
  BY <1>8 DEF Delete
<1>9. ASSUME NEW ring \in Keyring, Restart(ring) PROVE threads'[t] = Idle
  BY <1>9 DEF Restart
<1>10. Importer \subseteq Thread
  BY VaultAssumption
<1>11. QED
  BY <1>1, <1>4, <1>5, <1>6, <1>7, <1>8, <1>9, <1>10 DEF Next

LEMMA StepTypeOK == ASSUME IInv, [Next]_vars PROVE TypeOK'
<1>1. keys' \in Keyring
  BY DEF IInv, TypeOK, Next, vars, BeginSave, CommitSave, BeginImport, CommitImport,
         BeginClear, CommitClear, RequestFails, Delete, Restart
<1>2. /\ rows' = [p \in Provider |-> rows'[p]]
      /\ stored' = [p \in Provider |-> stored'[p]]
  BY DEF IInv, TypeOK, Next, vars, BeginSave, CommitSave, BeginImport, CommitImport,
         BeginClear, CommitClear, RequestFails, Delete, Restart, NotesOverlap, Deleted, Recorded
<1>3. threads' = [t \in Thread |-> threads'[t]]
  BY DEF IInv, TypeOK, Next, vars, BeginSave, CommitSave, BeginImport, CommitImport,
         BeginClear, CommitClear, RequestFails, Delete, Restart, Begin, Finish
<1>4. \A t \in Thread : threads'[t] \in Job
  BY ThreadStep, IdleJob DEF BeginsOne, IInv, TypeOK
<1>5. \A p \in Provider : rows'[p] \in CredentialRow /\ stored'[p] \in Secrets \cup {None, Unknown}
  BY StepRows
<1>6. QED
  BY <1>1, <1>2, <1>3, <1>4, <1>5 DEF TypeOK

LEMMA StepJobsOK == ASSUME IInv, [Next]_vars PROVE JobsOK'
<1>1. ASSUME NEW t \in Thread, threads'[t].op = "import"
      PROVE  /\ threads'[t].update.item \notin threads'[t].rest
             /\ \A i, j \in Items(threads'[t]) : i.provider = j.provider => i = j
  <2>1. CASE threads'[t] = threads[t]
    BY <1>1, <2>1 DEF IInv, JobsOK, Doing
  <2>2. CASE threads'[t] = Idle
    BY <1>1, <2>2, IdleJob
  <2>3. CASE BeginsOne(t)
    BY <1>1, <2>3 DEF BeginsOne
  <2>4. QED
    BY <2>1, <2>2, <2>3, ThreadStep
<1>2. QED
  BY <1>1 DEF JobsOK, Doing

\* The update of a request that goes on still agrees with its row, if it is there.
LEMMA KeptUpdate ==
    ASSUME IInv, [Next]_vars, NEW t \in Thread, Updating(t), threads'[t] = threads[t],
           keys' = keys, threads[t] # Idle,
           threads[t].update.id # None,
           rows'[threads[t].update.item.provider].id = threads[t].update.id
    PROVE  LET update == threads[t].update
               p == update.item.provider
           IN  /\ rows'[p].key_version \in {update.key_version, Current}
               /\ stored'[p] # Unknown =>
                    /\ update.secrets = rows'[p].blob.secrets
                    /\ update.hint = rows'[p].hint
                    /\ \A u \in Thread \ {t} : p \notin About(threads'[u])
<1> DEFINE update == threads[t].update
           p == update.item.provider
<1>1. threads[t] \in Job /\ update \in Update /\ p \in Provider /\ p \in About(threads[t])
  BY JobKinds, UpdateKinds, AboutJob DEF IInv, TypeOK, Updating
<1>2. update.id \in Row /\ Holds(t, p, update.id)
  BY <1>1, UpdateKinds, AboutJob DEF Holds
<1>3. rows[p].id = update.id =>
        /\ rows[p].key_version \in {update.key_version, Current}
        /\ stored[p] # Unknown =>
             /\ update.secrets = rows[p].blob.secrets /\ update.hint = rows[p].hint
             /\ \A u \in Thread \ {t} : p \notin About(threads[u])
  BY DEF IInv, UpdatesOK
<1> HIDE DEF update, p
<1>4. ASSUME NEW w \in Thread, Writes(w, p)
      PROVE  /\ rows'[p].key_version = Current
             /\ stored'[p] = Unknown
  <2>1. PICK written : /\ Sound(w, written) /\ written.item.provider = p
                       /\ rows'[p] = Updated(written)
                       /\ stored'[p] = Replaced(stored[p], written.item)
    BY <1>4 DEF Writes
  <2>2. rows'[p].key_version = Current /\ rows'[p].id = rows[p].id
    BY <1>2, <2>1, SoundWrites DEF update, p
  <2>3. w \in Thread \ {t} /\ p \in About(threads[w])
    BY <1>4 DEF Writes
  <2>4. stored[p] = Unknown
    BY <1>3, <2>2, <2>3 DEF update, p
  <2>5. QED
    BY <2>1, <2>2, <2>4 DEF Replaced
<1>5. ASSUME Drops(p) PROVE FALSE
  BY <1>2, <1>5, NoRowHasNoId, VaultAssumption DEF Drops, update, p
<1>6. ASSUME Keeps(p) \/ Blurs(p)
      PROVE  /\ rows'[p].key_version \in {update.key_version, Current}
             /\ stored'[p] # Unknown =>
                    /\ update.secrets = rows'[p].blob.secrets
                    /\ update.hint = rows'[p].hint
                    /\ \A u \in Thread \ {t} : p \notin About(threads[u])
  BY <1>3, <1>6 DEF Keeps, Blurs, update, p
<1>7. ASSUME NEW u \in Thread \ {t}, p \in About(threads'[u]), p \notin About(threads[u])
      PROVE  stored'[p] = Unknown
  <2>1. BeginsOne(u)
    BY <1>7, ThreadStep, IdleJob, AboutJob
  <2>2. threads'[u] \in Job /\ threads'[u].op # "clear"
    BY <1>7, <2>1, AboutJob DEF BeginsOne
  <2>3. Noted(u)
    BY <2>1, <2>2 DEF BeginsOne
  <2>4. rows[p] = rows'[p] /\ rows[p] # NoRow
    BY <1>2, <2>3, NoRowHasNoId, VaultAssumption DEF Noted, update, p
  <2>5. QED
    BY <1>1, <1>7, <2>3, <2>4 DEF Noted
<1>8. QED
  BY <1>1, <1>4, <1>5, <1>6, <1>7, RowStep DEF update, p

\* The update of a request that begins agrees with its row.
LEMMA BegunUpdate ==
    ASSUME IInv, NEW t \in Thread, BeginsOne(t), threads'[t].op \in {"save", "import"}
    PROVE  LET update == threads'[t].update
               p == update.item.provider
           IN  /\ Accepted(update) /\ keys' = keys
               /\ update.id = None =>
                    update.secrets = Empty /\ update.key_version = 0 /\ update.hint = None
               /\ update.id # None =>
                    /\ rows'[p].key_version = update.key_version
                    /\ stored'[p] # Unknown =>
                         /\ update.secrets = rows'[p].blob.secrets
                         /\ update.hint = rows'[p].hint
                         /\ \A u \in Thread \ {t} : p \notin About(threads'[u])
<1> DEFINE update == threads'[t].update
           p == update.item.provider
<1>1. threads'[t] \in Job /\ BeginsUpdate(t, update) /\ Noted(t)
  BY DEF BeginsOne
<1>2. p \in Provider /\ p \in About(threads'[t]) /\ rows[p] \in CredentialRow
  BY <1>1, UpdateKinds, AboutJob DEF BeginsUpdate, IInv, TypeOK
<1> HIDE DEF update, p
<1>3. rows' = rows /\ keys' = keys /\ (stored'[p] # Unknown => stored[p] # Unknown)
  BY <1>1, <1>2 DEF Noted
<1>4. update.id # None => rows[p] # NoRow
  BY <1>1, NoRowHasNoId DEF BeginsUpdate, p
<1>5. ASSUME update.id # None, stored'[p] # Unknown, NEW u \in Thread \ {t}
      PROVE  p \notin About(threads'[u])
  BY <1>1, <1>2, <1>4, <1>5 DEF Noted
<1>6. QED
  BY <1>1, <1>3, <1>5 DEF BeginsUpdate, update, p

LEMMA StepUpdatesOK == ASSUME IInv, [Next]_vars PROVE UpdatesOK'
<1>1. ASSUME NEW t \in Thread, threads'[t].op \in {"save", "import"}
      PROVE  LET update == threads'[t].update
                 p == update.item.provider
             IN  /\ keys' = keys /\ Accepted(update)
                 /\ update.id = None =>
                      update.secrets = Empty /\ update.key_version = 0 /\ update.hint = None
                 /\ update.id # None /\ rows'[p].id = update.id =>
                      /\ rows'[p].key_version \in {update.key_version, Current}
                      /\ stored'[p] # Unknown =>
                           /\ update.secrets = rows'[p].blob.secrets
                           /\ update.hint = rows'[p].hint
                           /\ \A u \in Thread \ {t} : p \notin About(threads'[u])
  <2>1. CASE threads'[t] = threads[t] /\ keys' = keys
    <3>1. Updating(t) /\ threads[t] # Idle
      BY <1>1, <2>1, IdleJob DEF Updating
    <3>2. /\ Accepted(threads[t].update)
          /\ threads[t].update.id = None =>
               /\ threads[t].update.secrets = Empty /\ threads[t].update.key_version = 0
               /\ threads[t].update.hint = None
      BY <3>1 DEF IInv, UpdatesOK
    <3>3. QED
      BY <2>1, <3>1, <3>2, KeptUpdate
  <2>2. CASE BeginsOne(t)
    BY <1>1, <2>2, BegunUpdate
  <2>3. QED
    BY <1>1, <2>1, <2>2, ThreadStep, IdleJob
<1>2. keys' = keys => Current' = Current
  BY DEF Current
<1>3. QED
  BY <1>1, <1>2 DEF UpdatesOK, Updating, Accepted

-----------------------------------------------------------------------------
(* Theorems *)

LEMMA InitIInv == Init => IInv
<1> SUFFICES ASSUME Init PROVE IInv
  OBVIOUS
<1>1. 1 \in 1..MaxVersion
  BY VaultAssumption
<1>2. keys \in Keyring
  <2>1. {1} \in (SUBSET (1..MaxVersion)) \ {{}}
    BY <1>1
  <2>2. QED
    BY <2>1 DEF Init, Keyring
<1>3. TypeOK
  <2>1. rows \in [Provider -> CredentialRow] /\ threads \in [Thread -> Job]
    BY IdleJob DEF Init, CredentialRow
  <2>2. stored \in [Provider -> Secrets \cup {None, Unknown}]
    BY DEF Init
  <2>3. QED
    BY <1>2, <2>1, <2>2 DEF TypeOK
<1>4. HistoryOK /\ NeverBlank /\ ColumnsMatch
  BY DEF Init, HistoryOK, NeverBlank, ColumnsMatch
<1>5. StoredIsExported
  BY DEF Init, StoredIsExported, Exported
<1>6. JobsOK /\ UpdatesOK
  BY IdleJob DEF Init, JobsOK, UpdatesOK, Doing, Updating
<1>7. QED
  BY <1>3, <1>4, <1>5, <1>6 DEF IInv

\* IInv holds of every state of every run: the rows and what was saved agree, and so do
\* the updates in flight with the rows they have read.
THEOREM Invariance == Spec => []IInv
<1>1. IInv /\ [Next]_vars => IInv'
  BY StepTypeOK, StepHistoryOK, StepJobsOK, StepUpdatesOK, StepStoredIsExported,
     StepNeverBlank, StepColumnsMatch DEF IInv
<1>2. QED
  BY <1>1, InitIInv, PTL DEF Spec

\* The rows, the keys at hand and the requests have their types: in particular every row
\* that is inserted has a key of its own, and is encrypted with a version that was there.
THEOREM TypeCorrect == Spec => []TypeOK
<1>1. IInv => TypeOK
  BY DEF IInv
<1>2. QED
  BY <1>1, Invariance, PTL

\* What a trusted application is given is what was saved, field by field, through saves,
\* imports, deletions, new encryption keys and requests that fail.  The exception: nothing
\* is said of a row two updates of which overlapped, or whose encryption key was taken
\* away, before it is deleted.
THEOREM SavedIsExported == Spec => []StoredIsExported
<1>1. IInv => StoredIsExported
  BY DEF IInv
<1>2. QED
  BY <1>1, Invariance, PTL

\* The row of a provider that needs an API key never loses it, overlapping updates and
\* blobs that cannot be decrypted included.
THEOREM KeysAreNotBlanked == Spec => []NeverBlank
<1>1. IInv => NeverBlank
  BY DEF IInv
<1>2. QED
  BY <1>1, Invariance, PTL

\* The columns that are written apart from the blob agree with it: the version always,
\* the hint unless two updates overlapped.
THEOREM ColumnsAgree == Spec => []ColumnsMatch
<1>1. IInv => ColumnsMatch
  BY DEF IInv
<1>2. QED
  BY <1>1, Invariance, PTL
=============================================================================
