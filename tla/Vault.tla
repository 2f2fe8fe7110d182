-------------------------------- MODULE Vault --------------------------------
(***************************************************************************)
(* The key vault of one user (tg11/vault.py, tg11/crypto.py): a row for    *)
(* each AI provider, whose secrets are one encrypted blob.  The user saves *)
(* and deletes keys (plain functions on the thread pool), a trusted        *)
(* application imports and exports them, and the operator changes the      *)
(* encryption keys in the environment and restarts the service.            *)
(*                                                                         *)
(* An update reads its row, decrypts it, merges and writes the whole blob: *)
(* Begin... reads, Commit... writes.  An import takes the write lock with  *)
(* its first row, and does the rest under it, in its Commit.  A deletion   *)
(* goes by the key of the row it found, and is one step: what overlaps it  *)
(* comes before it, or finds its row gone.                                 *)
(***************************************************************************)
EXTENDS FiniteSets, Integers

CONSTANTS
    Provider,   \* AI providers
    Keyless,    \* those that need no API key: custom_openai
    Key,        \* API keys
    Extra,      \* values of another field of the secrets
    Row,        \* keys of rows, per provider, that exist or are held at once
    Thread,     \* requests in flight
    Importer,   \* those of them that may be imports
    Typed,      \* the API keys that the user enters for each provider, or leaves blank
    Pushes,     \* what applications push: an item for each of some providers
    MaxVersion, \* bound on the versions of encryption keys
    Material,   \* encryption keys
    None,
    Unknown     \* what is stored is not what was saved last, until it is deleted

ASSUME VaultAssumption ==
    /\ Keyless \subseteq Provider
    /\ None # Unknown
    /\ {None, Unknown} \cap (Key \cup Extra \cup Row) = {}
    /\ {None, Unknown} \cap [api_key: Key \cup {None}, extra: Extra \cup {None}] = {}
    /\ Importer \subseteq Thread
    /\ Typed \in [Provider -> SUBSET (Key \cup {None})]
    /\ Pushes \subseteq SUBSET [provider: Provider, api_key: Key \cup {None},
                               extra: Extra \cup {None}]
    /\ \A items \in Pushes : \A i, j \in items : i.provider = j.provider => i = j
    /\ MaxVersion \in Nat \ {0}

\* There is always a new key for a row: the requests but one hold one each at most.
ASSUME RowAssumption ==
    /\ Row # {}
    /\ \A t \in Thread : \A f \in [Thread \ {t} -> Row] :
         \E id \in Row : \A u \in Thread \ {t} : f[u] # id

VARIABLES
    rows,       \* the user's row for each provider: there is one at most
    keys,       \* the encryption keys at hand, by version
    threads,    \* what each request in flight has read
    stored      \* history: what was saved for a provider, field by field

vars == <<rows, keys, threads, stored>>

-----------------------------------------------------------------------------

Secrets == [api_key: Key \cup {None}, extra: Extra \cup {None}]
Empty   == [api_key |-> None, extra |-> None]

\* A blob is its secrets and the key it was encrypted with.
Blob == [secrets: Secrets, version: 1..MaxVersion, material: Material]

\* `hint` stands for the API key it shows the end of.
NoRow == [id |-> None, key_version |-> 0, hint |-> None]
CredentialRow ==
    {NoRow} \cup [id: Row, blob: Blob, key_version: 1..MaxVersion, hint: Key \cup {None}]

Keyring == UNION {[V -> Material] : V \in (SUBSET (1..MaxVersion)) \ {{}}}

Item == [provider: Provider, api_key: Key \cup {None}, extra: Extra \cup {None}]

\* What an update has read of the row it is to change: NoRow's columns for an insert.
Update ==
    [item: Item, id: Row \cup {None}, secrets: Secrets, key_version: 0..MaxVersion,
     hint: Key \cup {None}]

Idle == [op |-> "idle"]
Job ==
         {Idle}
    \cup [op: {"save"}, update: Update]
    \cup [op: {"import"}, update: Update, rest: SUBSET Item, replace: BOOLEAN]
    \cup [op: {"clear"}, listed: [Provider -> Row \cup {None}]]

\* A row is as its columns are declared, and encrypted with a key that was at hand;
\* no request holds what an update could not have read.
TypeOK ==
    /\ rows \in [Provider -> CredentialRow]
    /\ keys \in Keyring
    /\ threads \in [Thread -> Job]
    /\ stored \in [Provider -> Secrets \cup {None, Unknown}]

Init ==
    /\ rows = [p \in Provider |-> NoRow]
    /\ keys \in [{1} -> Material]
    /\ threads = [t \in Thread |-> Idle]
    /\ stored = [p \in Provider |-> None]

-----------------------------------------------------------------------------
(* Encryption *)

Current == CHOOSE v \in DOMAIN keys : \A w \in DOMAIN keys : w <= v

Encrypted(secrets) == [secrets |-> secrets, version |-> Current, material |-> keys[Current]]

ReadableWith(ring, blob) ==
    blob.version \in DOMAIN ring /\ ring[blob.version] = blob.material

\* A blob that cannot be decrypted is taken for an empty one.
Decrypted(blob) == IF ReadableWith(keys, blob) THEN blob.secrets ELSE Empty

-----------------------------------------------------------------------------
(* Requests *)

Begin(t, job) == threads[t] = Idle /\ threads' = [threads EXCEPT ![t] = job]
Finish(t)     == threads' = [threads EXCEPT ![t] = Idle]
Doing(t, op)  == threads[t].op = op

\* Rolled back: its row is gone, or was inserted by another request, or there was no
\* write lock for 30 seconds.
RequestFails(t) ==
    /\ threads[t] # Idle
    /\ Finish(t)
    /\ UNCHANGED <<rows, keys, stored>>

\* History: two updates of a row are in flight at once.  The later one writes back
\* what it has read.
About(job) ==
    CASE job.op = "save"   -> {job.update.item.provider}
      [] job.op = "import" -> {i.provider : i \in {job.update.item} \cup job.rest}
      [] OTHER             -> {}
NotesOverlap(t, ps) ==
    stored' = [p \in Provider |->
        IF /\ p \in ps /\ rows[p] # NoRow
           /\ \E u \in Thread \ {t} : p \in About(threads[u])
        THEN Unknown ELSE stored[p]]

\* The key of a new row is not one that a request holds.
Holds(t, p, id) ==
    \/ About(threads[t]) # {} /\ threads[t].update.item.provider = p /\ threads[t].update.id = id
    \/ Doing(t, "clear") /\ threads[t].listed[p] = id
NewId(p) == CHOOSE id \in Row : \A t \in Thread : ~Holds(t, p, id)

-----------------------------------------------------------------------------
(* upsert *)

\* Mutant of Merged: the secrets that are not given are left out.
MergedFresh(secrets, item) ==
    [api_key |-> item.api_key, extra |-> item.extra]

Merged(secrets, item) ==
    [api_key |-> IF item.api_key # None THEN item.api_key ELSE secrets.api_key,
     extra   |-> IF item.extra # None THEN item.extra ELSE secrets.extra]

\* The update an item asks for, by what its row is now.
Read(item) ==
    LET row == rows[item.provider]
    IN  [item |-> item, id |-> row.id,
         secrets |-> IF row = NoRow THEN Empty ELSE Decrypted(row.blob),
         key_version |-> row.key_version, hint |-> row.hint]

\* Mutant of Accepted: an API key is not required.
AcceptedAny(update) == TRUE

\* "API key is required"
Accepted(update) ==
    \/ Merged(update.secrets, update.item).api_key # None
    \/ update.item.provider \in Keyless

\* Mutant of Hint: of the key that was given.
HintGiven(update) == update.item.api_key

Hint(update) == Merged(update.secrets, update.item).api_key

\* A column that was read as `was` and is assigned `new`, when it is `now`.
Written(was, new, now) == IF new = was THEN now ELSE new

\* The row an update leaves; a blob is never the same twice, and always written.
Updated(update) ==
    LET p == update.item.provider
    IN  [id          |-> IF update.id = None THEN NewId(p) ELSE update.id,
         blob        |-> Encrypted(Merged(update.secrets, update.item)),
         key_version |-> Written(update.key_version, Current, rows[p].key_version),
         hint        |-> Written(update.hint, Hint(update), rows[p].hint)]

\* Mutant of Applicable: a row is written back, whether it is there or not.
ApplicableAny(update) == TRUE

\* UPDATE by primary key, or the unique constraint
Applicable(update) == rows[update.item.provider].id = update.id

\* History: the fields that an item names are replaced.
Recorded(items) ==
    [p \in Provider |->
        IF stored[p] # Unknown /\ \E i \in items : i.provider = p
        THEN LET was == IF stored[p] = None THEN Empty ELSE stored[p]
                 i   == CHOOSE i \in items : i.provider = p
             IN  [f \in DOMAIN was |-> IF i[f] # None THEN i[f] ELSE was[f]]
        ELSE stored[p]]

\* vault_save
BeginSave(t, p, key) ==
    LET update == Read([provider |-> p, api_key |-> key, extra |-> None])
    IN  /\ Accepted(update)
        /\ Begin(t, [op |-> "save", update |-> update])
        /\ NotesOverlap(t, {p})
        /\ UNCHANGED <<rows, keys>>

CommitSave(t) ==
    /\ Doing(t, "save")
    /\ LET update == threads[t].update
       IN  /\ Applicable(update)
           /\ rows' = [rows EXCEPT ![update.item.provider] = Updated(update)]
           /\ stored' = Recorded({update.item})
    /\ Finish(t)
    /\ UNCHANGED keys

-----------------------------------------------------------------------------
(* import_from_app *)

\* An item without a secret is skipped.
Blank(item) == item.api_key = None /\ item.extra = None

\* Items that come before the first accepted one are refused by what is read now.
BeginImport(t, items, first, refused, replace) ==
    LET update == Read(first)
    IN  /\ ~Blank(first) /\ Accepted(update)
        /\ refused \subseteq items \ {first} /\ \A i \in refused : ~Accepted(Read(i))
        /\ Begin(t, [op |-> "import", update |-> update, replace |-> replace,
                     rest |-> {i \in items \ ({first} \cup refused) : ~Blank(i)}])
        /\ NotesOverlap(t, {i.provider : i \in items})
        /\ UNCHANGED <<rows, keys>>

\* The rest is read under the write lock.  With `replace`, the rows of providers that
\* nothing was written for are deleted.
CommitImport(t) ==
    /\ Doing(t, "import")
    /\ LET job     == threads[t]
           updates == {job.update} \cup {u \in {Read(i) : i \in job.rest} : Accepted(u)}
           seen    == {u.item.provider : u \in updates}
       IN  /\ Applicable(job.update)
           /\ rows' = [p \in Provider |->
                 IF p \in seen THEN Updated(CHOOSE u \in updates : u.item.provider = p)
                 ELSE IF job.replace THEN NoRow
                 ELSE rows[p]]
           /\ stored' = [p \in Provider |->
                 IF p \in seen \/ ~job.replace THEN Recorded({u.item : u \in updates})[p]
                 ELSE None]
    /\ Finish(t)
    /\ UNCHANGED keys

\* An import that writes nothing and replaces deletes the rows that it lists.
BeginClear(t, items) ==
    /\ \A i \in items : Blank(i) \/ ~Accepted(Read(i))
    /\ Begin(t, [op |-> "clear", listed |-> [p \in Provider |-> rows[p].id]])
    /\ UNCHANGED <<rows, keys, stored>>

Deleted(ps) ==
    /\ rows'   = [p \in Provider |-> IF p \in ps THEN NoRow ELSE rows[p]]
    /\ stored' = [p \in Provider |-> IF p \in ps THEN None ELSE stored[p]]

CommitClear(t) ==
    /\ Doing(t, "clear")
    /\ Deleted({p \in Provider : rows[p].id = threads[t].listed[p]})
    /\ Finish(t)
    /\ UNCHANGED keys

\* vault_delete
Delete(p) ==
    /\ rows[p] # NoRow
    /\ Deleted({p})
    /\ UNCHANGED <<keys, threads>>

\* The keys are read from the environment once, by a service that is started.
Restart(ring) ==
    /\ keys' = ring
    /\ threads' = [t \in Thread |-> Idle]
    /\ stored' = [p \in Provider |->
           IF rows[p] # NoRow /\ ~ReadableWith(ring, rows[p].blob) THEN Unknown
           ELSE stored[p]]
    /\ UNCHANGED rows

-----------------------------------------------------------------------------

Next ==
    \/ \E t \in Thread, p \in Provider : \E key \in Typed[p] : BeginSave(t, p, key)
    \/ \E t \in Thread : CommitSave(t)
    \/ \E t \in Importer, items \in Pushes, replace \in BOOLEAN :
         \E first \in items, refused \in SUBSET items :
           BeginImport(t, items, first, refused, replace)
    \/ \E t \in Importer : CommitImport(t)
    \/ \E t \in Importer, items \in Pushes : BeginClear(t, items)
    \/ \E t \in Importer : CommitClear(t)
    \/ \E t \in Thread : RequestFails(t)
    \/ \E p \in Provider : Delete(p)
    \/ \E ring \in Keyring : Restart(ring)

Spec == Init /\ [][Next]_vars

-----------------------------------------------------------------------------
(* Properties *)

\* export_for_app: rows that cannot be decrypted are left out.
Exported(p) ==
    IF rows[p] # NoRow /\ ReadableWith(keys, rows[p].blob) THEN rows[p].blob.secrets ELSE None

\* An application is given what was saved, field by field and whoever saved it, through
\* new encryption keys, failed and refused requests and deletions that overlap a save:
\* unless two updates of its row overlapped, or the key of its row was taken away.
StoredIsExported ==
    \A p \in Provider : stored[p] # Unknown => Exported(p) = stored[p]

\* "never blank an existing key": the row of a provider that needs an API key has one,
\* also when updates overlap, and when an update finds a blob it cannot decrypt.
NeverBlank ==
    \A p \in Provider \ Keyless : rows[p] # NoRow => rows[p].blob.secrets.api_key # None

\* The version that is kept beside the blob is the one that can decrypt it, and the hint
\* that is shown belongs to the key that is stored, unless two updates overlapped (a
\* column is written only when it differs from what was read) or its key was lost.
ColumnsMatch ==
    \A p \in Provider : rows[p] # NoRow =>
        /\ rows[p].key_version = rows[p].blob.version
        /\ stored[p] # Unknown => rows[p].hint = rows[p].blob.secrets.api_key

\* What is stored is known to be nothing exactly when there is no row.
HistoryOK == \A p \in Provider : rows[p] = NoRow <=> stored[p] = None

\* The items of an import in flight are of different providers.
Items(job) == {job.update.item} \cup IF job.op = "import" THEN job.rest ELSE {}
JobsOK ==
    \A t \in Thread : Doing(t, "import") =>
        /\ threads[t].update.item \notin threads[t].rest
        /\ \A i, j \in Items(threads[t]) : i.provider = j.provider => i = j

\* An update in flight is an accepted one.  While its row is the one it has read, and
\* no other update of it is in flight, it agrees with it.
Updating(t) == threads[t].op \in {"save", "import"}
UpdatesOK ==
    \A t \in Thread : Updating(t) =>
        LET update == threads[t].update
            p      == update.item.provider
        IN  /\ Accepted(update)
            /\ update.id = None =>
                 update.secrets = Empty /\ update.key_version = 0 /\ update.hint = None
            /\ update.id # None /\ rows[p].id = update.id =>
                 /\ rows[p].key_version \in {update.key_version, Current}
                 /\ stored[p] # Unknown =>
                      /\ update.secrets = rows[p].blob.secrets
                      /\ update.hint = rows[p].hint
                      /\ \A u \in Thread \ {t} : p \notin About(threads[u])

\* The inductive invariant behind the theorems of VaultProofs.
IInv ==
    /\ TypeOK
    /\ HistoryOK
    /\ JobsOK
    /\ UpdatesOK
    /\ StoredIsExported
    /\ NeverBlank
    /\ ColumnsMatch
=============================================================================
