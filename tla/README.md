# TG11 Accounts in TLA+

A verification development for TG11 Accounts (`src/tg11`, an OpenID provider on
FastAPI, SQLAlchemy and SQLite) and for the Django client its applications use
(`src/clients/django`). TLA+ modules model the program, TLC checks them on small
instances, and TLAPS proves theorems about them for every size.

## 1. The system

One process, `uvicorn --workers 1` (`deploy/systemd/tg11-accounts.service:11`),
and one SQLite file in WAL mode. What concurrency there is comes from three
facts, and every module is derived from them:

1. **Plain `def` handlers run on a thread pool** and overlap. `get_db`
   (`models.py:336`) opens a session per request, commits when the handler has
   returned, and rolls everything back when it raises. The sessions do not
   autoflush, a SELECT starts no transaction (so there is no snapshot), and an
   UPDATE writes the columns the handler assigned, without testing what it read.
   A handler is therefore *reads, then later a blind write of its columns*.
2. **`async def` handlers run on the event loop**, one body at a time. A body has
   no `await` after its first read except for the request's form, but its commit
   is done later by a thread: other bodies run in between.
3. **One writer at a time.** A flush takes SQLite's write lock until the commit.

A failure (an exception, 30 s of waiting for the lock, the end of the process)
loses a request's writes as a whole; what was committed before it stays.

### Inventory

| Component | State | Operations | What makes it correct | Status |
| --- | --- | --- | --- | --- |
| Authorization server: `oidc.py`, handlers in `web.py` | `authorization_codes`, `tokens`, `consents` | authorize, consent, redeem, refresh, revoke, withdraw, disconnect | a code is exchanged once; tokens keep their grant; nothing unapproved; what is over stays over | **Grants** |
| Login sessions: `accounts.py`, `web.py` | `user_sessions`, signed cookie | sign in, log out, revoke, expire; ended by password changes | an ended session yields no tokens | **Grants**; which proof made a session: **MFA**; cookies: **Authorize** |
| Passwords, registration, action links | `users`, `action_tokens` | register, login, verify, forgot, reset | links used once; a reset shuts out the old password | **Contact** |
| Second factors: `mfa.py` | `totp_devices`, `recovery_codes`, `_attempts` in memory | provision, confirm, verify, disable, regenerate | a code is accepted once; no factor is swapped or lost; guesses are bounded; `amr` is never optimistic | **MFA** |
| Email and phone: `profile.py` | `users.email/phone`, `action_tokens` | request, confirm, cancel, verify, remove | what is marked verified was proved | **Contact** |
| Wallet: `payments.py` | `payment_methods`, `payment_holds`, and the provider's | complete setup, default, remove, place, capture, release | the row agrees with the provider; a hold ends once; one default | **Holds** (but the default) |
| Entitlements: `entitlements.py` | `entitlements`, `allowance_usage`, `credit_ledger` | grant, revoke, consume, add, spend | no overspending, all or nothing | **Entitlements** |
| AI key vault: `vault.py`, `crypto.py` | `ai_vault_credentials`, keys in the environment | upsert, import, delete, export | no key is lost by another field's or provider's update | **Vault** |
| Application links: `profile.py:382` | `application_identity_links` | register | one identity per legacy account | not modelled: one insert or overwrite under a unique constraint, read only to be shown |
| Relying party: `clients/django/tg11_auth` | Django session (flow), `TG11IdentityLink` | login, link, callback, logout, unlink | a callback completes only the flow that started it; one link per subject and user | **SignIn**, **Links** |
| Browser flow of `/oauth/authorize` | `reauth` cookie, session age | login page, second factor, consent page, redirect | fresh sign-in when asked; consent by who was asked; it ends | **Authorize**, **SignIn** |
| Store: `models.py:295-345` | connections, write lock | begin, flush, commit, roll back | requests do not wait for each other for ever | its rules are in every module; progress is not modelled |
| Signing keys, discovery | `signing_keys` | create at first use | one active key | not planned |
| Profile pages, media, mail, SMS, templates, configuration, command line, hashing, ciphers | | | | not modelled: I/O, form fields, primitives |

### How they interact

* Sessions are read by every handler (`get_session`) and end in six places; each
  of these must revoke the tokens of the session, because `refresh` looks at
  neither the session nor the consent.
* Consents are read by `authorize` and by the application API (`_consented`), and
  changed by the consent page and by two withdrawal handlers.
* The relying party talks to the server through redirects and `/oauth/token`;
  the callback and the token request can be repeated, late or never come.
* Wallet and vault are reached by applications through access tokens or client
  credentials; the wallet calls Stripe and PayPal between its reads and commit.

## 2. The modules

| Module | What it is |
| --- | --- |
| `Grants` | The authorization server and login sessions: one action per handler, or two when other requests can come between its reads and its commit. Its safety properties and the inductive invariant. |
| `GrantLedger` | The abstract promise: a ledger of grants, each exchanged once or void, and of their tokens. |
| `GrantsRefinement` | The mapping under which `Grants` implements `GrantLedger`. |
| `GrantsClaims` | What comments, messages and documents say and the code does not do. |
| `GrantsProofs` | The theorems about `Grants`: its properties, and that it implements `GrantLedger`. |
| `MCGrants` | Definitions for the instances TLC checks. |
| `MFA` | The second factors of an account and the proof its sessions rest on, with its properties and inductive invariant. |
| `MFAClaims` | What the comments of `mfa.py` say and the code does not do. |
| `MFAProofs` | The theorems about `MFA`. |
| `MCMFA` | Definitions for its instances. |
| `Holds` | The wallet of a user, the holds applications place on it and the payment provider, with its properties, its inductive invariant and one claim of a message that fails. |
| `HoldsProofs` | The theorems about `Holds`. |
| `MCHolds` | Definitions for its instances. |
| `Contact`, `MCContact` | Accounts and how they are reached: registration, passwords, reset and confirmation links, email, phone. |
| `ContactProofs` | The theorems about `Contact`. |
| `Entitlements`, `MCEntitlements` | Grants, the allowance they raise, what was used of it, and credits. |
| `EntitlementsProofs` | The theorems about `Entitlements`. |
| `Authorize` | A browser's tabs on their way through the authorize endpoint, the login page, the second step and the consent page, with the cookies they share. |
| `SignIn`, `MCSignIn` | `Authorize` composed with the flow and the callback of the Django client: a sign-in from end to end. |
| `SignInProofs` | The theorems about `Authorize` and `SignIn`. |
| `Links`, `MCLinks` | Which local account of an application an identity signs in to: linking, creating, unlinking, revoking. |
| `LinksProofs` | The theorems about `Links`. |
| `Vault`, `MCVault` | The key vault of a user and the encryption keys of the service. |
| `VaultProofs` | The theorems about `Vault`. |

### Grants and the code

* `sessions`, `consents`, `codes` are the tables of the same names. `responses`
  is the table `tokens`, with the access token and the refresh token of one
  `token_response` in one row. An identifier stands for the hash of a token that
  is its key in the table. `active` is `users.is_active`, which only an
  administrator changes. Redirect URI, PKCE and client secret are one Boolean,
  `proved`, of `RedeemCode`: they do not change what a redemption commits, only
  whether the request goes on.
* `threads` are requests of `def` handlers in flight. `Begin...`, `Authorize`,
  `AllowConsent` and `RevokeToken` take what the handler reads; `Commit...` writes
  the columns it assigned to the rows *as they are then*. A handler's reads are
  taken as one instant: they are single-table SELECTs in a row, and the gap that
  matters, between them and the commit, is there.
* `loop` is the queue of `/oauth/token` requests between their body and their
  commit. `RedeemCode` runs when the queue is empty (its `db.commit()` needs the
  write lock in the body) and commits `used_at` at once; `CommitMint` commits the
  tokens. `Refresh` reads, `CommitRotate` writes. `ReplayCode` and `ReuseRefresh`
  are refused requests: they change history only, and that is what two of the
  findings are about.
* `/oauth/revoke` is async too, but flushes nothing in its body: it is a thread.
* `GrantedRows` is what SQLAlchemy's column-wise UPDATE can make of a consent
  that changed since it was read. A column is written only if its new value
  differs from the one read; the stored text of a scope is sorted by a merge and
  not by an insert, so that equal sets may or may not be written.
* Expiry may come at any moment to anything still valid. Clocks are not modelled.
* `asked`, and the fields `replayed`, `code`, `parent` and `reused`, are history:
  no action's guard depends on them except those of the refused requests.

### MFA and the code

* One account: the handlers of two accounts share no row and no entry of
  `_attempts`. `devices` and `recovery` are its rows of `totp_devices` and
  `recovery_codes`; a row that was deleted is kept as "deleted", because a request
  may still hold it. `sessions` is `user_sessions` with `amr`, and the code the
  session was started with: that is history, the code keeps only the method. The
  end of a session is in `Grants`.
* A one-time code is the device whose secret made it and its step of 30 s; the
  codes of different steps and devices are taken to differ. `now` is the step of
  the clock. Step 0, the year 1970, is left out: `last_used_step = 0` is "none".
* `device_for` has no ORDER BY. SQLite finds the rows of a user through the index
  on `user_id`, in the order they were inserted; `IsFirst` is that choice.
* An action named after a handler takes its reads, at one instant; `Commit...`
  writes. `provision`, `confirm` and `regenerate_recovery_codes` flush in the
  handler, after their reads; the flush takes the write lock and the commit
  follows, so both are one `Commit...`. An UPDATE of a row that is gone fails and
  rolls the request back (`CommitVerify` and `CommitConfirm` are then not possible,
  and `RequestFails` is); a DELETE of it is only logged (`Deleted`, `Reissued`).
* `attempts` changes while a request runs and is not rolled back with it. Each
  function on `_attempts` is one step here; the gap inside `_record_attempt` could
  lose a failure, so that no bound on guesses is claimed.
* `pending` is the cookie between the two steps of a sign-in. It names a user and is
  not used up: any number of second steps may follow until it expires.

### Holds and the code

* One user and one application, which has the consent and owns the holds it names:
  who may is in `Grants`. `methods` and `holds` are `payment_methods` and
  `payment_holds`; an identifier of `Hold` stands for both the row and its
  authorization (`external_id`).
* `tokens` and `auths` are the provider's and external. Stripe and PayPal have one
  interface, and differ in what they accept: the model's provider takes any amount
  that is captured (PayPal may take more than it holds) and ends an authorization
  whenever it likes. A call is refused, or succeeds; its answer may be lost
  (`Answer`), which the code takes for a refusal.
* Each handler is `Begin...` (its reads and checks), `Call...` (the call to the
  provider) and `Commit...`. `place_hold` flushes its row before it calls the
  provider, and nobody else writes until it commits (`Unlocked`); the others flush
  after the call, so `Commit...` is their flush and commit.
* Creating and capturing a hold are `async`. The bodies of two of them do not run at
  once, but a capture reads its hold and then awaits its body, so its `Begin...` is
  apart from its call; for the rest the model lets more happen than one event loop
  does, which is safe for what it shows.
* Any active method may be the default one; which of them is, is left out, and with it
  `set_default`. `begin_setup` writes nothing.
* `expires_at` is never read and the status "expired" never set: a hold that was
  captured or ran out without the service being told stays "authorized", and its
  method cannot be removed. That is why `RowsTellTruth` says of an authorized row
  only that the provider knows it.

### Contact and the code

* `users`, `links` and `sessions` are `users`, `action_tokens` and `user_sessions`;
  `cookies` the signed cookies between the two steps of a sign-in, which prove the
  first factor and are not used up. `to` of a link is where it was sent; of the links
  only `change_email` carries its address in the row (`payload`), `verify_email` acts
  on whatever address the account has when it is opened.
* Every handler is a plain function. Where what it read matters to what it writes it is
  `Begin...` and `Commit...`; the others write what does not depend on a read that
  could be stale, in one step. `Written` is the column-wise UPDATE: a column that is
  assigned the value that was read is not written, so that a concurrent change of it
  stays.
* `authenticate` is called by the login page, and by `security_recovery` and
  `security_disable`, which ask for the password again. A sign-in that is refused
  because the address is not verified, and those two, commit nothing here but the
  replacement of a weak hash: jobs of "login" that do not sign in (`OnlyRehashes`).
* `password` of a session and of a cookie is history: what it rests on. `weak` is a hash
  with fewer iterations than the release uses; `authenticate` replaces it.
* `is_active` is in `Grants`, attempts and second factors in `MFA`.
* `overlapped` is history: accounts two of whose requests about the phone overlapped.
  `phone_set` and `phone_verify` of one user at once can leave a number marked verified
  that was not answered; that is why `PhoneProved` leaves these accounts out.

### Entitlements and the code

* One kind of grant and one key. `limit` and `period` of a row are its allowance;
  `usage` is `allowance_usage` by period, for the period that is running: a new one has
  no row (`NewPeriod`), and requests in flight go on writing the old one ("past").
  `balance` is the sum of `credit_ledger`.
* `consume` is async: its body reads and flushes, a thread commits. The body of the next
  request reads before that commit. `BeginSpend` and `BeginOpen` take the reads,
  `CommitSpend` and `CommitOpen` the writes. The insert of a period's first row takes the
  write lock *before* the balance is read, so that `CommitOpen` reads it.
* Commands of `cli.py` are processes of their own, and read and write in the same way.
* Of several grants with the largest limit the code takes the first; here any.

### Authorize, SignIn and the code

* `Request` is a tab with the authorization request in it. A handler takes the cookies
  that the jar holds when its request is sent (`jar`), and what it sets is stored when
  the answer arrives (`reply`, `Arrive`): another tab's answer may come in between. An
  answer that sets nothing arrives at once.
* `csrf_token_for` and `csrf_protect` are the two sides of the CSRF token: the session's
  when the handler loaded the session, else the cookie's. `proof` is the `reauth` cookie,
  bound to the session and the request. A 403 makes the tab load its form again.
* `old` stands for the age of a session against a `max_age`; `max_age=0` is never met
  without a new login. Random values are drawn again once nothing holds them (`Fresh`).
* Left out: wrong passwords and codes (they show the form again; `MFA` counts them),
  requests that are refused before the session is looked at, and registration from the
  login page.
* In `SignIn`, `flow` is the one flow the client keeps in its stored session: `_start`
  overwrites it. The tab number stands for `state`, `nonce` and the PKCE verifier. What
  the linking rules make of the identity is, here, a callback that signs in or fails.
* A callback loads the session and takes the flow out of what it has loaded
  (`views.py:175`), exchanges the code over the network (194), and signs in (221);
  Django's session middleware saves the session when the view has returned. So it is
  `CallbackBegins`, which leaves the stored flow alone, and `CallbackSignsIn` or
  `CallbackFails`. In between another tab may start a flow (`Start`), sign out
  (`Logout`), or bring back a second code of the same flow, whose callback finds the
  flow still stored. `calling` says what has become of the session a callback has
  loaded: still as it was ("same"), given another flow ("changed"), or replaced
  ("gone"), as `login()` and `logout()` do. `login()` makes a new session of the loaded
  one, whatever is stored by now; a callback that fails saves the loaded one over it,
  which drops a flow started meanwhile, or cannot when it is gone. `Call` bounds how
  many callbacks run at once. A tab shows the application's page as soon as its callback
  has begun, so that its address can be opened again meanwhile.

### Links and the code

* `account` and `link` are the application's rows, `session` a browser's Django session,
  `idp` what TG11 says of each identity (external). A callback goes through `Redeem`
  (the flow is taken out, the code exchanged), `FindLink`/`FindAccount`/`FindOwnLink`
  (the reads of the transaction) and a `Commit...`. A unique constraint that is broken,
  and an UPDATE of a row that is gone, take everything back (`RolledBack`).
* `resolve_user` is a transaction of its own, committed when it returns
  (`views.py:209`). The session is signed in afterwards (`_login_user`, 221) and is not
  part of it: a callback waits in the step "committed", and `LoginUser` signs in to the
  account whatever has become of the link. `link_to_current_user` signs nobody in.
* `CommitTouch` writes the columns it names (`update_fields`); `CommitRelink` saves the
  whole row, which inserts it again under its key if it was deleted.
* `unlink` looks for a password (`Unlink`, `views.py:263`) and deletes the links there
  are by then (`DeleteLinks`, 270).
* Left out: whether a local account is active, an application's own guards and hooks,
  changes of a local address, `TG11_AUTH_ALLOW_LOCKOUT`, and the late save of the
  session, which is in `SignIn`: here a callback takes the flow out of the stored session
  at once. A second callback of the same flow is then, to these properties, one for
  another flow that the same browser started.

### Vault and the code

* One user, with a row for each provider at most (the unique constraint); `id` tells a
  row from one inserted later. The secrets of a row are two fields, the API key and
  another; `hint` stands for the key whose last characters it shows. A blob names the
  version and the key it was encrypted with; it can be decrypted while that version is in
  the environment with that key.
* `Restart` is the operator's change of the environment. Labels, base URLs and other
  configuration in the clear are left out.
* An import takes the write lock with the first row it writes and does the rest under it:
  `BeginImport` has the first item's reads, `CommitImport` everything else. Two imports
  have their bodies one after the other on the event loop, so `Importer` is one thread in
  the instance; what overlaps it are the user's saves and deletions. An application pushes
  one item for a provider: a second one in the same push is left out.
* `stored` is history: what was saved, field by field. It is `Unknown` once two updates of
  a row overlapped (the later one writes back what it had read) or the row could not be
  decrypted (the next update takes it for empty), until the row is deleted.

## 3. What the runs check

| Run | Instance | Shows |
| --- | --- | --- |
| `grants_ledger` | one user and session, a trusted and an untrusted client, 1 code, 2 responses, 1 thread, `MaxLoop` 1 | `TypeOK`; `CodeExchangedOnce`; `TokensMatchCode`; `ImplementsLedger` |
| `grants_overlap` | one user and client, 2 sessions, 2 threads, 1 code, 1 response, `MaxLoop` 1 | `WithinApproval`; `EndedSessionStaysEnded`; `WithdrawnStaysWithdrawn` |
| `grants_replay` | small | **violated**: `ReplayRevokesTokens` |
| `mfa_factor` | 2 devices, 2 recovery codes issued one at a time, 2 sessions, 2 threads, 2 steps, `MaxAttempts` 1 | `TypeOK`; `OneFactor`; `FactorStaysOn`; `SpentStaysSpent` |
| `mfa_swap` | the same | **violated**: `ConfirmedLeftAlone` |
| `holds` | 2 methods on one token, 2 holds, 2 threads, `MaxAmount` 2 | `TypeOK`; `RowsTellTruth`; `NeverMoreThanHeld`; `SettledOnce`; `RemovedNotCharged` |
| `contact` | 1 user, 3 addresses, 2 numbers, 2 passwords, 2 links, 1 session, 2 threads | `TypeOK`; `EmailProved`; `PhoneProved`; `ReplacedStaysReplaced`; `SpentDoesNothing` |
| `entitlements` | 1 application, 2 grants, 1 period, 2 threads, limits, amounts and credits up to 2 | `TypeOK`; `UsedWithinLimit`; `PaidInFull`; `RevokedStaysRevoked` |
| `signin` | 2 tabs that ask for a new login, 2 callbacks at once, an account with a second factor and one without, `MaxDetours` 1 | `STypeOK`; `FreshLogin`; `ConsentWasShown`; `SignsInLatestOnce` |
| `signin_ends` | the same tabs and accounts, three kinds of request, `MaxDetours` 0 | `StartedEnds` (liveness) |
| `links` | 2 accounts, 2 identities, 2 addresses, 2 callbacks, 1 browser | `TypeOK`; `NotLockedOut`; `RevokedStaysRevoked`; `NeverRepointed`; `LinkedWithProof`; `SignsInLinked` |
| `vault` | 2 providers, one of which needs no API key, 2 API keys, 2 threads, 2 versions and 2 encryption keys | `TypeOK`; `StoredIsExported`; `NeverBlank`; `ColumnsMatch` |

`CodeExchangedOnce`, `TokensMatchCode` and `WithinApproval` are said in the module.
`EndedSessionStaysEnded` and `WithdrawnStaysWithdrawn` are what the code does
promise about the end of a session or a consent. "Ended" excludes what is still
outstanding: an unused code, a live refresh token, or a request in flight may
still yield tokens after a logout (a code issued just before a logout can be
redeemed after it, `oidc.py:165` looks at no session). Once none is left, no
sequence of requests, refreshes included, revives the session or the grant.

`OneFactor` holds although two overlapping `enable` requests leave two devices
waiting: only the first row can be confirmed, and no row comes before it.
`FactorStaysOn` and `SpentStaysSpent` are to `MFA` what the last two are to
`Grants`: once the requests that read the account without the factor (or the code
before it was used) are over, nothing but a request to disable it with a code
takes the factor away, no session starts on the password alone, and a used or
replaced code signs nobody in. What happens before they are over is disagreements 2
and 6.

`RowsTellTruth` and `SettledOnce` hold although a capture and a release of one hold
may both read it as authorized: the provider ends an authorization once, and the
row is written by the request whose call ended it, never without a call's success.
`NeverMoreThanHeld` rests on the comparison in `capture_hold` alone.
`RemovedNotCharged` is what the removal of a method does promise: once the requests
that read it as active are over, no hold is placed on it (before, disagreement 7).

`EmailProved` is what applications that link accounts by address rely on. It holds
although links of earlier addresses stay good: `verify_email` marks whatever address
the account has by then, but an address only takes another's place through
`change_email`, which proves it. `ReplacedStaysReplaced` is the promise of a reset that
the code does keep: once no request or cookie of before is left, the old password signs
nobody in, and no rehash brings it back. `SpentDoesNothing` says so of links.

`UsedWithinLimit` holds whatever overlaps, because each request writes a value within
the limit it read; what overlapping requests break is that everything given out is on
record, so `PaidInFull` is said of requests that do not overlap on a row (the first
requests of a period, which insert it, may).

`FreshLogin` and `ConsentWasShown` relate what a tab shows, what the cookie jar holds by
then and what a login has proved. `SignsInLatestOnce` says that a callback signs in for
the flow started last, and once, and states its exception: a callback whose session was
given another flow, or was replaced, while it exchanged its code. Such a callback signs
in all the same, after a sign-out too (disagreement 9 is the case of two callbacks of
one flow). What is left for the property to say is that a callback that nothing
overtook is for the latest flow: nothing an older tab brings back later is answered,
nor a second code after the first callback has returned. `StartedEnds` is the promise
that `prompt=login`, `max_age` and `acr_values` end: see Fairness.

`NotLockedOut` says that an account without a password has a link; a revoked one counts,
although it signs nobody in (an administrator revokes it, `unlink` does not look at its
status). It needs the reads of unlinking and of a callback to be looked at again by the
database, as the unique constraints do, and, since the check of `unlink` is not looked at
again, that nothing in the client takes a password away. `LinkedWithProof` names, for
each new row, the callback that made it, of that identity, and what connects that
callback with that account: the flow was started signed in to it, or its own address is
one TG11 has verified for the identity, or it was created with the link and has the
identity's address. `SignsInLinked` has two halves. When the transaction of a sign-in
commits, its account is linked to its identity; that rests on the UPDATE of a row that
is gone being an error. And the session is then signed in to that account and no other.
Between the two the link may be removed, and since it was read it may have been revoked:
the code signs in all the same, and nothing else is claimed.

`StoredIsExported` is the vault's promise as a whole. `NeverBlank` has no exception: a
row of a provider that needs an API key has one even when updates overlap and when the
blob could not be decrypted. `ColumnsMatch` is about columns that are written apart.

**Bounds.** Each identifier is used once, so the constants bound how many rows
ever exist, and `MaxLoop` bounds the queue of token requests. A second writer
waits on the event loop inside its first flush, so that the real queue never
has more than two entries; `grants_twice` uses 2, the other runs 1. One code and
two responses are what an exchange and one rotation need; two threads and two
sessions are what a pair of conflicting handlers needs, one of which may be a
password change made in the other session. The theorems hold for every value of
all of these. In `MFA`, `MaxDevice` and `Recovery` bound the rows ever inserted: two of
each are an old and a new one, and two overlapping enrolments. `MaxStep` 2 has codes
before, at and after the clock; `MaxAttempts` 1 makes the limit bite at once. In
`Holds`, two methods that share a token are a card saved by loading the page twice,
two holds are one to settle and one to be placed meanwhile, and amounts up to 2 have
captures of nothing said, part, all and more. In
`Contact`, two links are one that is stale and one that is not, three addresses the old,
the asked for and one asked for later. In `Entitlements`, a limit of 2 above a free limit
of 1 can be granted, revoked and used beyond. In `SignIn`, two tabs are what it takes to
disturb one, and two callbacks at once are one that is overtaken and the one that
overtakes it; `MaxDetours` 1 loses a session or a proof of login once, or opens a
request's URL again (a sign-out at TG11 loses the session besides); `Draws` 20 random values per tab are more than the browser and its two tabs
can hold at once (`DrawsAssumption`), so that there is always a fresh one. In `Links`,
`Keys` 3 rows per account are an
old one, a new one and one a callback still holds; `Registered` gives each identity an
address of its own, as TG11 does. In `Vault`, `Typed` and `Pushes` bound
what is entered and pushed: each field alone, both providers at once, and one whose item
has no secret. Apart from `SignIn`, where every tab may have had its answer, the
models have no final state (an administrator, or somebody signing in, may always act), so deadlock is checked and never found. Symmetry is used for
sessions, codes, responses, threads, tabs and accounts, and for identities together with
their addresses, which are interchangeable, and only in runs whose
properties are all safety properties, for which it is sound.

**Fairness.** Only `SignIn` assumes any: weak fairness of each tab (the browser follows
redirects, the service answers, the person fills in the form that is shown, the
application handles its callback), of each callback under way, and of `PendingExpires`, the 300 seconds of
`MFA_PENDING_MAX_AGE` that the first factor is remembered. All are needed. Without the
first two nothing need happen. Without the last TLC finds a loop: `mfa_page` does not load
the session, so its form carries the CSRF cookie's token, and when another tab has
signed in meanwhile `csrf_protect` compares it with the session's; the right code is
refused with 403 each time the page is loaded, until the cookie of the first factor
expires and the tab starts over. `StartedEnds` asks that from some time on the user does
not keep the sign-in from ending (`Interrupts`): another tab signing in over and over,
or second steps that always come too late. In the other modules whether a user or an
application continues is theirs to decide, and no liveness is claimed.

**Mutants.** For each property its module holds a plausibly wrong version of one
definition (a comment says "Mutant of"), put before the right one: a code not
marked used, the two kinds of token swapped, the client's scopes in place of the
code's, a rotation that leaves the old token live, a consent or session checked
without its scope, its revocation or its expiry; a one-time code accepted again in
its own step, any device confirmed, an enrolment that looks at no enabled factor; a
release that ignores the provider's answer, a capture of any amount, a hold on a
removed method; a weak hash replaced before the password is verified, a used reset link
accepted, a confirmation that takes the pending address; an allowance given as a whole
or computed below zero, a period opened twice, a grant that writes the status; a CSRF
token of any origin, a proof of login not bound to its request, a login asked for again
and again, a flow kept after its callback; a link saved as a whole, an account linked by
an address nobody verified, a sign-in through a row that is gone, an unlinking that is
never refused; secrets replaced
instead of merged, a hint of what was given. Each breaks the property.

### Disagreements found

Two have a run that shows them:

1. `oidc.py:170`: *"replay: revoke everything minted from this code's session for
   safety"*. The handler assigns `revoked_at`, then raises, and `get_db` rolls back:
   nothing is revoked (`grants_replay`).
2. `mfa.py:105`: *"An existing confirmed device is left alone - re-enrolling must go
   through `disable()` first"*. `provision` reads the device while it is not
   confirmed; `confirm` commits; the DELETE, by primary key, removes the confirmed
   device. Its successor is not confirmed, so the account has no second factor
   (`mfa_swap`).

The following have a claim in the module and a configuration to run by hand, which
ends with a counterexample:

3. `docs/TG11_IDENTITY.md:111`: *"reuse of a rotated token revokes the chain"*.
   `refresh` refuses and revokes nothing. (`revoke_token` would follow
   `parent_id`, `oidc.py:281`, but no caller of `_mint` sets it.) `grants_reuse.cfg`
4. Same line: *"rotated on every use"*. Two overlapping refreshes both read the row
   as live; both are answered, and one token has two successors. `grants_twice.cfg`
5. `web.py:737`: *"will have to ask for access again"*. The withdrawn row keeps its
   scopes, and `grant_consent` merges them into the next consent
   (`oidc.py:142`): allowing one scope restores all of them. `grants_ask_again.cfg`
6. `mfa.py:13`: *"replaying the same code inside its own window is refused"*, and
   recovery codes are *"single use"*. Two overlapping second steps read the row
   before either commits, and both are accepted. `mfa_replay.cfg`
7. `payments.py:364`: *"This method has an active hold; it can be removed once the
   hold is captured or released."* `remove_method` looks for an authorized hold and
   writes later; `place_hold` reads the method as active and commits its row
   meanwhile. Both commit, and the removed method has an active hold. `holds_removed.cfg`
8. `profile.py:153`: *"Email change cancelled"*. `email_change_cancel` clears the
   pending address and leaves the confirmation link good: opening it changes the
   address all the same. `contact_cancel.cfg`

9. `views.py:175`: *"single use, whatever happens next"*, of a flow. It leaves the stored
   session only when the callback's answer is written, after the exchange: a second
   callback of the flow that arrives before, with a second code (the server's address
   opened twice), finds it there, and both sign in. `signin_twice.cfg`

And two were met while modelling and have no claim:

10. `vault.py:80`: *"replace=True also removes vault entries for providers the app did
   not send"*. An item that was sent without a secret, or that was refused, is skipped and
   not in `seen`, so the entry of a provider that *was* sent is removed too.
11. `web.py:431`, the second step's CSRF token: see Fairness.

## 4. What is proved

Every theorem holds for any number of users, tabs, requests, rows and values; the
assumptions on constants are named where they are used. All are checked by TLC on the
instances of the runs, as each module with an `ASSUME` is extended by one. Every safety
property of every passing run is stated by a theorem; only liveness is not.

The proofs have one shape. The invariants a reader cares about are not inductive, because a
commit trusts what its request read earlier, so each module has an `IInv` that adds what a
request in flight can rely on. Lemmas about each table say in which few ways a step changes
a row; the proof of a conjunct then considers these ways and not every action.

### `GrantsProofs`

Under `GrantsAssumption` (trusted clients are clients, offline access is a scope, every
client has allowed scopes, "no response" is not a response, `MaxLoop` is a natural number):

| Theorem | Statement |
| --- | --- |
| `Invariance` | `Spec => []IInv` |
| `TypeCorrect` | `Spec => []TypeOK` |
| `CodesExchangedOnce` | `Spec => []CodeExchangedOnce` |
| `TokensNeverWiden` | `Spec => []TokensMatchCode` |
| `NothingUnapproved` | `Spec => []WithinApproval` |
| `KeepsTheLedger` | `Spec => ImplementsLedger` |
| `EndedIsFinal` | `Spec => EndedSessionStaysEnded` |
| `WithdrawnIsFinal` | `Spec => WithdrawnStaysWithdrawn` |

`IInv` adds:

* `QueueOK`: a queued mint belongs to a used code that no token descends from yet
  and is the *first* in the queue, so no two mints of a code are ever queued; the
  row a queued rotation read still exists. Without it `CommitMint` could break
  `CodeExchangedOnce` and `TokensMatchCode`.
* `JobsOK`: an authorization in flight asks for scopes its user has allowed, and a
  consent in flight has read scopes that were allowed. Without it the blind writes
  of `CommitAuthorize` and `CommitConsent` could break `WithinApproval`.
* `KindsOK`: a request that will rotate or revoke a refresh token has found one. The
  refinement needs it: a rotation is a step of the ledger only on a row that has one.

Lemmas say which actions change a variable and how (`CodesChange`, `LoopChange`,
`ResponsesChange`, `ThreadsChange`, `ConsentsChange`) and what every step keeps
(`CodesKept`: a code stays the same grant and once used stays used; `ResponsesKept`;
`IssuedOnlyBy`: new rows come from mints and rotations; `ApprovalGrows`).

*The refinement.* `LedgerNow` and `LedgerNext` write out the mapping before and after a
step. A code is used in `Grants` from `RedeemCode` on; in the ledger it stays open while
its mint is queued, and is exchanged by `CommitMint`: `MintAtHead`,
`ExchangedStep` and `NotExchangedYet` say when that state changes, and `FailedStep` that a
mint lost with its request leaves a code that is void. Then there is one lemma for each
kind of step (`AuthorizedStep`, `ConsentedStep`, `MintedStep`, `RotatedStep`, ...), and
`TokensWither` covers every handler that only ends tokens.

*What is over.* `EndedSessionStaysEnded` and `WithdrawnStaysWithdrawn` say nothing while
an unused code, a live refresh token or a request in flight is left, any of which may still
yield live tokens after a logout or a withdrawal. From then on they are one argument
about a set `K` of grants: `OutNow(K)` says that nothing of `K` is outstanding. `OpenFrom`
and `LiveFrom` trace a code that is open, and a token that is live, after a step to what
was open, live or in flight before it, and `StaysOut` concludes that `K` stays out unless
somebody starts an authorization for it. For an ended session nobody can (`OverStaysOver`);
for a withdrawn consent it takes the user's `AllowConsent` (`NotGivenStays`).

### `MFAProofs`

Every property of `mfa_factor`, under `MFAAssumption` (the numbers are natural numbers):

| Theorem | Statement |
| --- | --- |
| `FactorInvariance` | `Spec => []IInv` |
| `FactorTypeCorrect` | `Spec => []TypeOK` |
| `OneFactorEver` | `Spec => []OneFactor` |
| `EnabledStaysEnabled` | `Spec => FactorStaysOn` |
| `SpentCodesStaySpent` | `Spec => SpentStaysSpent` |

`OneFactor` is not inductive: a confirmation commits whatever device its request
read. `IInv` says that a device which is confirmed, or about to be, is the first
one there is (`ConfirmedFirst`, `ConfirmsFirst`), which rows inserted in order
(`InOrder`) cannot undo. `DevicesChange` lists the four ways a device changes;
`FirstKept` derives that a first device stays the first. The two action properties
need only types, and lemmas that say which step puts what in flight
(`UnawareOnlyBy`, `ProofsOnlyBy`) and what a commit may write (`LastChanges`,
`RecoveryChanges`, `SessionsChange`).

### `HoldsProofs`

Every property of `holds`, under `HoldsAssumption` (`MaxAmount` is a natural number):

| Theorem | Statement |
| --- | --- |
| `Invariance` | `Spec => []IInv` |
| `TypeCorrect` | `Spec => []TypeOK` |
| `RowsAreTrue` | `Spec => []RowsTellTruth` |
| `CapturedWithinHold` | `Spec => []NeverMoreThanHeld` |
| `SettledIsFinal` | `Spec => SettledOnce` |
| `RemovedIsNotCharged` | `Spec => RemovedNotCharged` |

A commit writes without looking again, so `RowsTellTruth` needs to know what each
request holds when it commits. `WritingOK`: the outcome in its hands is still the
provider's, the row is still authorized, and no other request has an outcome for the
same hold. It is kept because only a call that found the authorization held
produces an outcome, and from then on it is not held (`AuthsKept`), while the row is
authorized because a row that says otherwise is of an authorization that is over.
`PlacedOK` says the same of a row about to be inserted. `CaptureOK` and `SameAmount`
carry the comparison of `capture_hold` across the await to the provider's own
amount. `RowsKept` (a row keeps its method, its amount and how it ended) gives
`SettledOnce`.

### `EntitlementsProofs`

Every property of `entitlements`, under `EntitlementsAssumption` (limits and amounts are
natural numbers, and "all" and "past" are names of nothing else):

| Theorem | Statement |
| --- | --- |
| `Invariance` | `Spec => []IInv` |
| `TypeCorrect` | `Spec => []TypeOK` |
| `UsedStaysWithinLimit` | `Spec => []UsedWithinLimit` |
| `EverythingIsPaidFor` | `Spec => []PaidInFull` |
| `RevokedIsFinal` | `Spec => RevokedStaysRevoked` |

`UsedWithinLimit` is kept by writes that do not look at the row again, so `IInv` says
what they carry: `LimitsOK` (every limit in force has been recorded for its period),
and `ConsumingOK` (a request that will insert a row goes by a recorded limit, and what
one will write into a row is within one). When a period ends the limits are those in
force, and `LateThreads` shows that no request is left that would write into the new
row. `ReadOK` (the rows an operator's command has read stay there) makes a grant and a
revocation of one row keep its kind, and `RowsChange`, which lists what a step does to a
row, gives the action property. `AllowanceGives` bounds `FromAllowance` for all inputs.


`PaidInFull` compares the row with a history of what was given out, and is kept by a blind
write only if nobody else has written since the read. `SpendingOK` says so: until two
requests overlap on a row, the one that will write into it is alone, the row is as it has
read it, and the credits it counts on are there. The requests that open a period may
overlap, and are safe for another reason: all but one of the inserts fail.

### `ContactProofs`

Every property of `contact`, under `ContactAssumption` ("none" is no address or number):

| Theorem | Statement |
| --- | --- |
| `Invariance` | `Spec => []IInv` |
| `TypeCorrect` | `Spec => []TypeOK` |
| `VerifiedIsProved` | `Spec => []EmailProved` |
| `NumberIsProved` | `Spec => []PhoneProved` |
| `SpentStaysSpent` | `Spec => SpentDoesNothing` |
| `ReplacedIsGone` | `Spec => ReplacedStaysReplaced` |

`IInv` adds four things. `OwnersOK`: what is sent or signed in belongs to users that
exist. `VerifyLinksOK`, on which `EmailProved` rests: a `verify_email` link, which acts on
whatever address the account has when it is opened, was sent to that address, or the
address has been proved already. `JobsOK`: a request in flight holds a link of its kind
and of its user. `PhoneJobsOK`: until two requests about a phone overlap, the one in
flight is alone and the row is as it has read it.

`UserStep`, `LinkStep`, `SessionStep` and `ThreadStep` list the ways in which a step
changes a user (created, password rewritten, address asked for, verified, moved, phone), a
link, a session and a request. `ReplacedStaysReplaced` then follows a password that is on
its way nowhere: every session, cookie and request that carries one after a step has it
from one that carried it before, or from somebody who chose it.

### `LinksProofs`

Every property of `links`, under `SettingsAssumption`, `RegisteredAssumption` (each
identity has an address of its own at first), `NoneAssumption` ("none" is nothing else) and `KeysAssumption`: a table has more keys for rows than callbacks hold. In
the code the database gives a row its key, and the table is not full:

| Theorem | Statement |
| --- | --- |
| `Invariance` | `Spec => []IInv` |
| `TypeCorrect` | `Spec => []TypeOK` |
| `NobodyIsLockedOut` | `Spec => []NotLockedOut` |
| `RevokedIsFinal` | `Spec => RevokedStaysRevoked` |
| `RowsKeepTheirOwner` | `Spec => NeverRepointed` |
| `LinksAreProved` | `Spec => LinkedWithProof` |
| `SignsInToTheLinked` | `Spec => SignsInLinked` |

A row that is unlinked while a callback holds it may be inserted again, and its key may be
given to a row that is new. `HeldOK` is what makes this harmless: the row a callback holds
is gone or of the identity it has read there, because a new row takes a key nobody holds
(`NewRowFree`: the least such key exists, by well-foundedness of the natural numbers).
`JobsOK` says what a callback has read and cannot have changed: who started a flow that
links, the claims it goes by, the account it found and, where it will attach the two,
that the account's address is the claims'. `UnlinkingOK` says that an account whose links
are about to be deleted has a password still, which is what the check and the deletion
of `unlink`, two steps apart, need for `NotLockedOut`. `SessionsOK` binds the flow in a
browser to the user signed in there, and `ClaimsOK` a verified address to those TG11 has
shown. `LinkStep`, `AccountStep`, `SessionStep` and `JobStep` list what a step may do. The
action properties follow from `LinkStep`, from `RowStep` (a row keeps its account and its
identity, and is revived by its user's linking again alone), from `NewRowProven` (who made
a row that is new, and with which of the three proofs) and from `CommitIsLinked` (what the
transaction of a callback leaves behind); `LeavesCommitted` says that a callback that has
committed does nothing else but sign in.

### `SignInProofs`

Every safety property of `signin`, under `WithFactorAssumption`, `BoundsAssumption`,
`NoneAssumption` and `DrawsAssumption`: the tabs are finitely many, and there are more
random values than a browser and its tabs can hold (in the code they are long random
strings):

| Theorem | Statement |
| --- | --- |
| `Invariance` | `SSpec => []IInv` |
| `TypeCorrect` | `SSpec => []STypeOK` |
| `LoginIsFresh` | `SSpec => FreshLogin` |
| `ConsentIsAnswered` | `SSpec => ConsentWasShown` |
| `LatestSignsInOnce` | `SSpec => SignsInLatestOnce` |

`FreshIs` is first: a value drawn is in no cookie, page, answer or history. Each value in
use has a holder, a place in the jar or in one of the tabs (`InUseIsHeld`); there are six
places each, and fewer places than values, so by the pigeonhole principle one is left.

Then every handler's answer is shown to meet one contract, `Answering`, which says what an
answer to a tab may set, and the invariant is proved from the contract alone
(`AnsweredType`, `AnsweredProofs`, `AnsweredTokens`). `IInv` adds to the types:
`RequestsOK` and `RepliesOK` (where a tab can be that follows no request, and what can be
under way to it); `ProofsOK`, on which `FreshLogin` rests: a proof of login in the jar is
of the last login for its request, or an answer that takes it out is under way; and
`TokensOK`, on which `ConsentWasShown` rests: a consent page carries the id of its
account's session, which is nobody else's and no CSRF cookie. The last needs fresh values;
`FreshLogin` does not. `FlowOK` says that the stored flow is the one started last and has
signed nobody in, and so is the flow of every callback whose session is still as it was
loaded: that is where the exception of `SignsInLatestOnce` comes from. Callbacks under
way are preserved by three lemmas, for steps that take a flow or a callback away
(`AppShrinks`), that replace the session (`AppOrphans`) and that start one (`StartSafe`).

### `VaultProofs`

Every property of `vault`, under `VaultAssumption` (what is entered and pushed is of its
type, one item for a provider, and there is a version) and `RowAssumption`: a new row can
always be told from those that requests hold:

| Theorem | Statement |
| --- | --- |
| `Invariance` | `Spec => []IInv` |
| `TypeCorrect` | `Spec => []TypeOK` |
| `SavedIsExported` | `Spec => []StoredIsExported` |
| `KeysAreNotBlanked` | `Spec => []NeverBlank` |
| `ColumnsAgree` | `Spec => []ColumnsMatch` |

`SavedIsExported` says nothing of a row two updates of which overlapped or whose key was
taken away (`Unknown`): there the code loses fields that nobody replaced.

An update writes secrets that it has merged with what it read, and only the columns that
differ. `UpdatesOK` says when that is right: the update is an accepted one, and while its
row is the one it has read and no other update of it is in flight, secrets, hint and
version agree with it; the version may have become the current one meanwhile. `HistoryOK`
ties the history to the rows and `JobsOK` keeps the items of an import apart. `RowStep`
lists what a step does to a row: a sound update, a deletion, nothing, or nothing but the
loss of what is known of it. `CurrentKey` finds the largest version at hand by
well-foundedness, so that what is encrypted can be decrypted.

### What stays with TLC

`StartedEnds` is liveness under fairness, which these provers cannot show. The claims that
fail (`GrantsClaims`, `MFAClaims`, and those in `Holds` and `Contact`) are counterexamples.

## 5. What is not modelled

* In the authorization server: the contents of ID tokens, `/oauth/userinfo` and other reads, client administration, deletion of
  users (no code deletes one).
* In `Holds`, the default method, currencies, and listing of methods and holds.
* Time as a number. Everything that expires may expire at any moment, which
  includes every schedule a clock could produce; `MFA` has the steps of the clock.
* Progress of writers: the body of an async handler that waits for SQLite's write lock
  on the event loop (`models.py:300`) may keep the holder of the lock from its commit.
  How long depends on the scheduling of asyncio and its thread pool; after 30 s the wait
  ends in a failure, which every module has as `RequestFails`.
* What is left out of a module is said with it in section 2.
* The components marked so in the inventory, with the reasons in `PROJECT.json`.

## 6. Plan

| # | Modules | Runs | Proved |
| --- | --- | --- | --- |
| 1 | `Grants`, `GrantLedger`, `GrantsRefinement`, `GrantsClaims`, `GrantsProofs` | three | every property of the passing runs, the refinement included |
| 2 | `MFA`, `MFAClaims`, `MFAProofs` | two | every property of the passing run |
| 3 | `Holds`, `HoldsProofs` | one | every property |
| 4 | `Contact`, `ContactProofs` | one | every property |
| 5 | `Entitlements`, `EntitlementsProofs` | one | every property |
| 6 | `Authorize`, `SignIn`, `SignInProofs` | two | every property but `StartedEnds` |
| 7 | `Links`, `LinksProofs` | one | every property |
| 8 | `Vault`, `VaultProofs` | one | every property |

Left: lemmas worth stating as theorems of their own (`FreshIs`, `AllowanceGives`), and an
abstract specification of the wallet or of the sign-in in the manner of `GrantLedger`.
