# Specification of the personal ERP server

TLA+ modules for the server (`src/server/src/modules`) and for the web client
that calls it (`src/web/src`): what the services do to stock, documents,
receivables, prices, files and sessions when requests interleave, transactions
are retried, requests are repeated and the process dies, and what the client
sends when answers are lost and its lists are stale. TLC checks the models on
small instances; TLAPS proves theorems about them for every value of the
constants. The models are written from the code; the documents under `src/docs`
are quoted where they say what should hold.

## 1. The system

A NestJS server over one PostgreSQL database (Prisma). One process, many
requests: Node runs one handler at a time between two `await`s, so handlers
interleave at every database call. The web client is a React application in any
number of tabs of a browser; it only calls the REST API and keeps nothing but
tokens, fetched lists and open forms.

Three ways of writing occur, and most of the hard behaviour is where they meet:

- **plain updates**: a handler reads rows, checks them, and updates in a later
  statement (documents, orders, master data, prices, locations, sessions,
  files, backups). Nothing protects what was checked.
- **Serializable transactions** (`serializableTransaction`): up to three
  attempts on P2034; the closure runs again from its start. Rows read *inside*
  are safe; values captured *before* are not read again.
- **the posting kernel** (`InventoryPostingService.post`): the only writer of
  stock; a serializable transaction with an idempotency record
  (`scope`, `Idempotency-Key`, hash of the content) and a `finalize` callback in
  which the calling service completes its document.

The schema has unique indexes (idempotency scope and key, batch numbers, one
receivable or payable per source, one inspection per return) and no CHECK
constraints or triggers. `reservedQuantity` is never written and `expiresAt` of
an idempotency record is never read.

| component | state | operations | hard behaviour | what makes it correct |
|---|---|---|---|---|
| posting kernel (`inventory-posting.service.ts`) | balances, batches, transactions with lines and allocations, idempotency records | `post` | conflicts and retries, replays, errors after some lines were written, crash before the answer, rounding of averages | no negative stock, ledger explains balances and batches, each document posted once and whole, replays name their posting |
| inventory documents, locations (`inventory.service.ts`) | openings, adjustments, transfers, channel allocations, locations | create, post, import, activate, deactivate | checks in one statement, writes in another; imports repeated | inactive locations hold no stock; an import is saved once |
| sales (`sales.service.ts`) | orders, issues, returns, receivables, refunds, prices | create, confirm, cancel, edit, post | captured values in `finalize`; documents edited while they are posted; quotas nobody reserves | issued ≤ ordered and = moved, one receivable per issue with its revenue, returns ≤ issued, refunds conserved |
| purchase (`purchase.service.ts`) | orders, receipts, returns, payables, prices | create, edit, confirm, cancel, post | as in sales; receipts of cancelled orders | received ≤ ordered, payable balances, returns within receipts |
| quality (`quality.service.ts`) | inspections, issues, claims, settlements | inspect, confirm, claim, settle | settlement prepared and posted in two transactions; stale settled amount | split conserves quantity, settled ≤ claimed, a settlement is posted once and never forgotten |
| finance (`finance.service.ts`) | payments, receipts, adjustments, bills, account transactions, supplier credits | create, post | many drafts on one outstanding amount; a credit used twice in one payment | original = paid + credited + adjusted + outstanding; account transactions match documents |
| backup (`backup/*.ts`) | backup records and files, maintenance flag, running flags | backup, verify, lock, restore, retention, startup compensation | flags read before awaits and set after; crash in the middle of a restore; retention against lock | at most one task, a locked backup survives, flags are always released, a failed restore returns to the protection backup |
| files (`files.service.ts`, storage providers) | assets, product images, local objects, objects at OneDrive | upload, delete, store for a backup | staged copy and remote copy, errors and lost answers between them, clean-up that fails, uploads side by side | an image can be read, a staged copy stays until OneDrive has the file, 12 images and one primary, no orphans |
| OneDrive (`files/onedrive/**`) | connection metadata, encrypted token cache, state of an authorisation in memory | connect, status, disconnect | an authorisation runs on in the background; disconnect and status probes run between its awaits; restart, move to another machine | only a verified drive is saved, one flow at a time unless a disconnect has let go of one, a disconnect lasts, the page leaves "authorising" |
| master data (`master-data.service.ts`) | products, skus, categories, suppliers, customers, channels | create, update, deactivate, list, export | references checked outside the writes that use them; an export reads page after page | a reference is chosen while it is active, an export misses no row |
| prices (in `sales.service.ts`, `purchase.service.ts`) | prices with period and minimum quantity | create, update, resolve | overlap checked in another statement; resolution asks key by key | periods do not overlap, the most specific price answers |
| locations (in `inventory.service.ts`) | a tree of locations | create, update, deactivate | children and stock counted before the status is written | a closed location is empty |
| authentication (`auth/**`) and the browser's session (`web/src/lib/axios`) | refresh sessions, cookie, access tokens | login, refresh, logout, change of password | find, revoke and create are three statements; tabs share a cookie; calls share a renewal | a renewal is refused only for a cause, an ended session stays ended |
| web pages (`web/src/features/**`) | fetched lists, open forms, submissions | open, submit, click, answer, refetch | lists older than the row; chains of calls; a second submit after a lost answer | one opening makes one document; what is offered is refused only if the row moved |
| audit (`audit/**`) | audit rows | record, query | written after the commit; its error may undo what it reports | modelled where it matters (`WriteAudit`, `AuditStored`); queries only read |
| health, configuration, controllers, DTOs | — | — | — | not modelled: stateless |

Calls between them: every service posts stock through the kernel; sales and
purchase create receivables and payables that finance settles and that their
own returns adjust; quality posts inspections and settlements through the
kernel and creates credits and compensation receivables that finance consumes;
backup stores its dumps through files and puts the whole API in maintenance;
files keep their content at OneDrive while it is connected; documents, prices
and locations refer to master data; the web client calls all of them with the
token that authentication gave it, and a maintenance, a restart or a lost answer
reaches the user through it.

## 2. Modules

| module | models |
|---|---|
| `StockLedger` | abstract specification of the kernel: a document is posted at most once, wholly, and leaves no cell negative |
| `InventoryPosting` | `post()` step by step, `serializableTransaction`, creation and submission of documents, activation of locations, crashes |
| `InventoryDocuments` | what the services pass to `post()` for an opening, an adjustment, a transfer, a purchase return |
| `InventoryLedger` | properties of the kernel and the refinement of `StockLedger` |
| `InventoryPostingProofs` | TLAPS proofs |
| `Totals` | the sum of the values of a function over a finite set, used wherever the services or the database add up |
| `TotalProofs` | TLAPS proofs about such sums, used by the proofs of inventory, sales, purchase, finance and quality; the least number of a set |
| `Quantities` | quantities per item and what they come to, shared by sales and purchase |
| `SalesOrder` | orders, issues, returns, receivables, channel quotas; two steps per handler |
| `SalesLedger` | properties of sales |
| `SalesProofs` | TLAPS proofs |
| `PurchaseOrder` | orders, receipts, returns, payables; two steps per handler |
| `PurchaseLedger` | properties of purchase |
| `PurchaseProofs` | TLAPS proofs |
| `DebtLedger` | abstract specification of settling: a document settles all its lines at once, at most once, none beyond what is due |
| `Finance` | payments, receipts, adjustments, expense bills, the debts and credits they settle, account transactions |
| `FinanceLedger` | properties of finance and the refinement of `DebtLedger` |
| `QualityClaim` | inspections, claims, settlements |
| `QualityLedger` | properties of quality |
| `QualityProofs` | TLAPS proofs |
| `Backup` | backups, verification, locks, retention, restores, imports, maintenance |
| `BackupHistory` | properties of backups and restores |
| `OneDrive` | the connection with OneDrive, its background authorisation, the page that polls |
| `OneDriveConnection` | its properties, and the instance for TLC |
| `StorageProofs` | TLAPS proofs about backups, the connection and files |
| `FileStorage` | assets, images and objects at two providers; uploads, deletions, faults |
| `FileCustody` | its properties |
| `MasterData` | rows that refer to each other: create, update, deactivate, list, export |
| `PriceBook` | prices over master data: create, update, resolve |
| `LocationTree` | locations over master data, beside postings that move stock |
| `Catalogue` | the composition of the three, and its properties |
| `CatalogueProofs` | TLAPS proofs |
| `Session` | refresh sessions of the server, tokens and renewals of the browser |
| `Screens` | what each dialog and row button offers, calls and fetches again; what the server asks of the row |
| `WebClient` | pages, forms and submissions over `Session` and `Screens` |
| `WebSafety` | its properties |
| `FinanceWebProofs` | TLAPS proofs about finance, and about the web client |
| `MC...` | one per component but OneDrive: the small instances for TLC |

A component is a module with its state and actions, a module that extends it
with its properties, an MC module that gives the constants their values, and
mostly a module of proofs that extends the properties.
`SalesOrder` and `PurchaseOrder` use the kernel as one step, whose atomicity is
what `InventoryPosting` shows. `Catalogue` and `WebClient` compose: in one,
requests for master data, prices and locations interleave on the same rows; in
the other, every call of a page goes out with the token of its tab, waits for
the renewal of another, and may be answered after its page is gone.

### InventoryPosting

`balance`, `batch`, `journal` (transactions with their lines and allocations),
`idem` and `docStatus` are the tables; `req` holds the requests in progress,
`tx` the open transaction with private copies of what it has changed and the
closure's local `outboundCosts`. A commit publishes the copies, a rollback
drops them. Serializable isolation is modelled by having one transaction open
at a time; that a real one would conflict is `SerializationFailure`, possible at
every step of an open transaction. `PostLine` is one turn of the loop over the lines (balance, moving
average, ledger line), `AllocateBatch` one batch of `allocateFifo`, `Commit`
creates the batches, runs the caller's `finalize` and saves the idempotency
record. Average and value are integers scaled as their columns are, rounded
half up by `RoundDiv`. `CheckDeactivate`/`Deactivate` are the two statements of
`deactivateLocation`; `UpdateLocationStatus` is `updateLocation`. `WriteAudit`
is the audit record after the commit. Requests lost in a `Crash` may be
submitted again with the same or another key.

The request hash is not a variable: the content posted under a document's
scope is the document's input, which no modelled operation changes once the
document exists. The P2034 backoff has no duration.

### SalesOrder

A handler is two steps: `Load...` reads and checks outside any transaction and
keeps what the code keeps in `proc`; the second step writes. Documents are
written by plain updates (`UpdateIssue` asks nothing of the row it writes), and
`PostIssue`/`PostReturn` are the kernel's transaction with the `finalize` of the
handler, one step since the kernel is checked on its own. What `finalize` takes
from the closure comes from `proc` (quantities, revenue, the outstanding amount
of the receivable), what it reads again comes from the tables. `stock` and
`ledger` stand for the kernel's balance and for the lines of the posted
document. Each sku is issued from one location; a location an issue lacks
(`located`) must be set by `updateIssue` before it can be posted. Prices are
the snapshot on the order item. `PostReceipt` is the effect of
`FinanceService.postReceipt` on a receivable, read and written in one
transaction. Status of a receivable and the quantity returned per order item
are functions of the amounts and are left out. Each `include` is read at one
point in time.

### PurchaseOrder

Built as `SalesOrder` is. `updateOrder` deletes the items of an order and
creates others: `ver` counts the generations, a receipt names the one it was
created for, and the foreign key of receipt items (ON DELETE RESTRICT) is the
guard that refuses to delete what a receipt names. Locations and batches are
those of the kernel, which may refuse a posting for reasons of its own.

### Finance

Posting reads everything it writes inside one Serializable transaction and
looks its key up again there, so it is one step. A draft is checked and inserted
in two statements; nobody sees it in between and posting checks it again, so
creating one is a step too. `debt` holds payables, customer refunds,
receivables and compensation receivables with the columns the code writes
(`paid`, `credited`, `outstanding`, status); `credit` holds supplier credits;
`entries` the account transactions. Debts are there from the start: who raises
them, and who writes their outstanding amount from a stale read, are
`SalesOrder`, `PurchaseOrder` and `QualityClaim`.

### QualityClaim

`confirmInspection` reads a draft inspection in one step and confirms it in the
kernel's transaction. `settleClaim` is four steps: it looks its key up and
validates the payload; saves settlement and idempotency record in a first
transaction; reads settlement and claim again; posts in a second transaction
with the claim it has read. A request may end between any two of them
(`Stops`), which is a refusal or a failure as well as the end of the process. Each return
has one item, hence at most one claim of one item.

### Backup

A request is a process with a step for each write to the database, to the files
or to the flags of the server. `db` holds the business data and the backup
history: a restore replaces both by what was dumped. `dump`, `local` and
`stored` are the files, which no restore touches. The guard of the maintenance
mode lets the routes of this service through and refuses the business ones, but
a business write that was admitted earlier may still commit
(`Admit`/`CommitWrite`). `pg_dump`, `pg_restore` and the migrations are calls
that copy or replace the database, or fail (`FailBackup`, `FailRestore`).
Retention is the code's rule over tiers of periods; the instance has the code's
limits of 7 days, 4 weeks and 12 months. `Crash` resets processes and flags and
keeps database and files. `proc[p].before` is a history variable for the
properties.

`bootstrapRestore` is the public route of a server without an administrator.
`LoadBootstrap` is its check, `EnterBootstrap` the call of `enter()` several
awaits later, `OverwriteDatabase` the `pg_restore` of the upload and
`RecordImport` the row it writes. The upload comes from a server that has an
administrator and whose backups are not here, so the database ends with one
and with an empty history but for the imported row. That row says VERIFIED, but
its file has the name `.bootstrap.dump`, under which no other operation looks for
it: it is never `Readable`. The other way round, `materialize` asks only for the
local file, so a restore goes on from it when the row of its source has gone since
it was read, and `rehydrateRestoredBackup` writes the row again. `CreateAdmin` (`auth.bootstrap`) is not stopped by
maintenance, because the hash of the password comes between the guard and its
transaction; no other business write is admitted without an administrator.

### OneDrive

`service` is the memory of `OneDriveService` (`authorizationState`,
`authorizationTask`, `cancelDeviceCode`, `lastRuntimeError`), `database` the two
rows it keeps, `flow` where each background authorisation is between its
awaits. `Finally` resets the service whatever attempt is the current one by then,
as the `finally` of `startConnection` does. `status` is three steps (metadata,
accounts, drive) and writes the metadata it has read back; `disconnect` is four.
`HasAccount` and `RemoveAccounts` are what MSAL does around `beforeCacheAccess`
and `afterCacheAccess`; the row encrypted on another machine is "FOREIGN", and
reading it throws. The settings page is in the module because what it offers (a
disconnect only beside an account) and how long it asks depend on what it shows.
The server starts without a connection or with that of an earlier run. `verified`,
`adrift` and `left` are for the properties: that a drive was seen, that the reset
of a disconnect emptied the slot under an attempt that goes on, and that a
disconnect met nothing else in progress.

### FileStorage

A request is a program counter over the files of its request, with a step per
await of `storeFile` and of `uploadProductImages`: stage locally, create the row,
choose a name at OneDrive, upload, switch the row to the remote item, delete the
staged copy, read count and largest sort order, create the image, record. `Fault`
makes the call of the step fail; `UploadRemote` may also lose the answer of an
upload that happened. An item at OneDrive is named by the file it was created
for: an upload under a name that is taken by then replaces the content of that
item (`Target`). `leaked` and `raced` say, for the properties only, that a
clean-up failed or that two requests about images overlapped.

### Catalogue

`MasterData` keeps one table of rows with a resource, a status and references;
`ensureActive` is a step for each reference (`CheckReference`), the write another.
`Matching`, `Listed`, `Page` and `HasNextPage` are `list` and `paginationMeta` as pure
operators, and `exportCsv` takes one page per step. `PriceBook` holds the prices
of sales and of purchase, which are kept by the same rules; `Overlap`,
`Effective`, `EffectivePrices` and `Beats` are its pure part, `Resolve` and
`LookUp` ask one key after the other as `findPrice` does. `LocationTree` adds
leaves, stock and postings; `Sensible` is what `validateLocation` decides
without reading. Fields that decide nothing are left out, and a code that is
taken is refused by its unique index without a change. History variables
(`lapsed`, `raced`, `crossed`, `patched`) tell a property which of the code's
windows a write came through.

### Session, Screens and WebClient

`Session` has the rows of `RefreshSession`, the cookie that tabs share, the
access token in the memory of each tab and `refreshRequest`, the one renewal that
the calls of a tab share. `refresh` is four steps (find, revoke by id, create,
answer), `login` three, `logout` two; a request may fail between two statements
(a logout also at its audit record, when the session is revoked already and the
page, told of an error, goes on being shown), time out in the client while the
server goes on, and be forgotten by a reload.
`call` is a request to the API: refused without a fresh token, it renews or waits
for the renewal and goes out once more (`Unauthorized`, `Accepted`). `parent`,
`fates` and `met` are history variables.

`Screens` is the table of the 28 dialogs and row buttons: the statuses for which
a page offers them, the calls a submission makes one after the other, whether
the form remembers a call that succeeded or looks at its row again. Beside it
stands what the server's handlers accept and how the row moves. `WebClient` runs
them: fetch, open, close, submit, click, the server's handling, the answer that is
heard or lost, and the lists the hook fetches again. A call is handled once; what
the page makes of it happens when it hears. The user may also go to another page
of the tab and back, which has no variable of its own: it closes the dialog
(`CloseForm`), a success then finds no mounted list and only marks the fetched ones
stale (`Away`), and a dialog opened since may or may not be the one the submission
began in (`Reached`). That one stays mounted when it is closed, so the product saved
by an earlier opening is remembered by the next, which then sends its images to that
product. What a form contains, and that a refetch may fail, are left out.

## 3. Runs

Bounds are in the configurations; a bound of the model (not of the system) is
marked "bound" where the constant is declared.

| run | shows | instance |
|---|---|---|
| `inventory_posting` | stock within bounds, ledger and batches explained, whole postings, and the refinement of `StockLedger` | 2 locations, 1 sku, 2 stock statuses, 5 documents (opening, adjustment in and out, transfer, purchase return), 3 batches, 1 key, 2 requests, 2 attempts, 1 crash |
| `inventory_answers` | posted once, replies name their posting, every request is answered | 1 location, 3 documents (two reuse a batch number), 2 keys, 2 requests, 2 attempts, a location going in and out of use; with fairness |
| `sales_order` | issues, quotas, receivables and refunds agree with the ledger; settled documents stay | 2 orders of 2 units (one with a quota of 1, one without default location), 3 issues, 1 return, 1 key, 2 requests |
| `purchase_order` | received and returned agree with the ledger; a receipt locks the content of its order; returns are credited in full | 1 order of up to 2 units at one of 2 suppliers, replaced once, 2 receipts, 2 returns, 1 key, 2 requests |
| `finance` | debts, documents and accounts agree; settling implements `DebtLedger` | 2 payables and 1 credit with a supplier, a refund, a receivable, a compensation; 2 payments, 1 receipt, 1 adjustment, 2 keys, amounts up to 2, totals up to 3 |
| `quality_claim` | stock moves once, a key has one settlement, each settlement is owed once | 2 returns (2 units of a supplier, 1 of none), 6 payloads of 5 settlement types, 2 settlements, 2 keys, 2 requests |
| `backup` | one restore or import at a time replaces the database, behind a protection; it completes or rolls back; no flag stays set and there is never no backup | 2 backups of one day, 1 business write, 1 change of a lock, 2 requests; with and without an administrator at the start |
| `backup_source` | expected violation: the backup that is being restored is expired and deleted | 2 backups of one day, 1 request |
| `onedrive` | only a verified drive is saved, one flow at a time unless a disconnect has let go of one, a disconnect lasts, the page leaves "authorising" | 2 authorisations, with or without an earlier connection, 1 restart here or on another computer, a page that asks for ever; with fairness |
| `files` | images can be read or still have their staged copy; limit and primary; no orphans | an upload of 2 images and one of 1 with a common name, 1 backup file, 1 deletion, limit of 2 images, 1 fault |
| `catalogue` | an export misses no row, prices are sound, closed locations are empty, references are chosen while active | 1 category, 2 products and 1 to come, 1 customer, 1 channel, 2 locations and 1 to come, 2 prices and 2 to come under 2 of the 4 kinds of keys, 2 times, 2 quantities, pages of 1 row, 2 requests |
| `web` | a renewal is refused for a cause, an ended session stays ended, one opening makes one document, what is offered is refused only if the row moved | 2 tabs of a browser, one with the page, 2 calls side by side; budgets of requests, expiries, faults, openings and changes elsewhere |

### Why the bounds are enough

Every conflict in the code is between two requests (one that read, one that
wrote in between); a third adds no new pair.

- *Inventory*: the documents make each branch of the loop happen: two batches at
  different costs consumed in one line, a transfer that carries its cost group to
  another location, an insufficient line after a written one, a preferred batch,
  a retry after each step. Two attempts exercise retry and exhaustion; the
  code's third repeats the second.
- *Orders*: two units per order give partial and full issues and receipts, and a
  follow-up draft.
- *Finance*: two payments on two payables that share one credit give every order
  in which drafts become too large, and the amounts cross what is outstanding.
- *Quality*: two settlements under two keys give repetition under the same key,
  under another, and two validated against the same claim.
- *Backup*: of two backups one is restored and one protects it, which is all a
  restore involves; an import needs one. What two leave out: a backup begun while
  another request's restore replaces the database, and retention beyond the
  first day. The theorems of `StorageProofs` have no such bound.
- *OneDrive*: the service has one slot for an attempt; two attempts are enough
  for the second to find what the first left, in memory, in the cache and in the
  row, also after a restart. The earlier connection makes a disconnect possible
  while both are unused, so that one can begin during it and the other after it.
  The theorems of `StorageProofs` hold for any number of both.
- *Files*: two of three names clash, the limit is one less than what both uploads
  bring, so that it is met at the count and overrun by two that count together.
  One fault at any step is every single failure; a clean-up that fails is a fault of
  its own, and is told apart (`leaked`). The theorems of `StorageProofs` hold for
  any requests and any number of faults.
- *Catalogue*: pages of one row put each row on a page of its own, so that a write
  can fall between any two; a price and its neighbour meet, touch or leave a
  gap with two times; `general` is the least and `customer` a more specific key,
  and a customer's price that begins later makes the order of look-ups matter.
- *Web*: the three sorts of budget look at different things. Renewals are raced by
  many requests and expiries with one screen that sends two calls side by side
  or one dialog; screens are run one after the other with a fault, a second
  opening and a change elsewhere, but no expiry. Of the dialogs and buttons that
  have the same row, calls and memory one stands for all (`Representatives`).

Deadlock is checked in `inventory_posting`, `inventory_answers`, `finance` and
`onedrive`. It is off in the others, where the documents, requests, settlements
or backups of the bound run out and nothing is left to do.

### Fairness

`inventory_answers`: weak fairness of each server step, because every `await` on
an open transaction returns; strong fairness of beginning a transaction, because
a waiting request is one of finitely many that the database serves. Users,
crashes and conflicts are not fair. The attempts are what ends: without the count
in `serializableTransaction` a request could meet conflicts for ever.

`onedrive`: weak fairness of each background authorisation (`Background(a)`),
because MSAL stops polling when the device code has expired and Graph and the
database answer or fail; of `Status`, because the page's `refetchInterval` asks
while it shows an authorisation; and of a disconnect that has begun. Nobody
has to enter the code, to start, to disconnect or to restart. From this,
`PageLeavesAuthorizing`: the `finally` of every attempt and the polls bring the
page out of "authorising".

The other runs claim no liveness. In the backup module the flags are shown to be
owned by a request in progress (`FlagsOwned`), whose last step, in a `finally`,
resets them; in the web module a call waits for a renewal that is always
answered, timed out or forgotten.

### What is refuted

`SourceSurvives` (run `backup_source`): the backup that protects a restore ends
with retention; with OneDrive connected the source of the restore, if it is of
the same day and not locked, is no longer the last of its day and is deleted
before it is restored. The rollback keeps the data; the restore point is gone.

Other statements that the code or its documents suggest are defined in the
property modules and do not hold. They have no run; a configuration with the
constants named here and the statement as its INVARIANT shows each.

| statement | what happens | constants |
|---|---|---|
| `SalesLedger.ReceivableBalances` | `postReturn` writes an outstanding amount computed from a receivable read before the transaction; a receipt posted in between is undone in `outstandingAmount` and kept in `receivedAmount`. The purchase service has the same code for payables. | those of `MCSalesOrder.cfg` with one order of two units at price 1, its item, no virtual channel, stock of 2; two issues, one return |
| `SalesLedger.ReturnsWithinIssue` | `updateIssue` writes over an issue that was posted after its check; the item then claims more than left the stock, and two concurrent returns exceed what was issued | the same with two returns |
| `FinanceLedger.CreditsApplyWhatTheyPay` | `postPayment` reads its credits once, before the loop over the allocations; of two allocations on one credit the second overwrites what the first applied, so part of the credit can be spent again | those of `MCFinance.cfg` with one payment |
| `QualityLedger.SettledWithinClaim` | two settlements of one claim are validated and posted against a settled amount read before the other was posted; both are owed, and together exceed the claim | those of `MCQualityClaim.cfg` with one return of two units, settled by cash and self-bear |
| `FileCustody.EveryFileStagedUntilSynced` | ADR-023 keeps the staged copy until OneDrive has the file; the error of an audit record, after the copy was deleted, deletes the remote item and leaves the row FAILED without any copy | those of `MCFileStorage.cfg` |
| `BackupHistory.ClosedToImports` | `docs/15-backup-recovery.md:123` says that the public import closes as soon as the database has an administrator; one can be created between the check of `bootstrapRestore` and its `pg_restore` | those of `MCBackupSource.cfg` |

States that the models reach and for which no run is kept:

- an inactive location that holds stock, by `updateLocation`, which does not
  check, or by a posting between the count and the update of
  `deactivateLocation`;
- a cancelled sales order one of whose issues was posted after the check of
  `cancelOrder`, and a cancelled order that `confirmOrder` writes CONFIRMED;
- a cancelled purchase order that the posting of a draft receipt makes
  RECEIVED (`postReceipt` does not ask for its status); the list of orders does
  not tell of draft receipts, so the page offers a cancellation that it cannot
  know to be refused;
- the retry of the post that completed a sales order, or of the confirmation of
  an inspection, refused before the kernel can find its idempotency record;
- a settlement saved in the first transaction of `settleClaim` and never posted:
  repeating the request under its key returns it as it is, while `docs/12`,
  section 10, counts on the original result of the settlement;
- a verified backup whose manifest counts a row that its dump lacks, because
  the records are counted after the dump; each restore of it is rolled back;
- a backup locked after retention had read it, and deleted although `docs/15`
  keeps locked restore points for ever;
- two device authorisations in flight: one begun while a disconnect was under
  way, whose reset empties the slot, and one begun afterwards;
- a product with more images than the limit, or with no or two primary ones,
  after uploads or deletions side by side;
- a session that outlives a logout or a change of the password, because a
  renewal with the same token had found it before and creates its successor
  after;
- a product dialog that was closed while its first call was under way, opened again
  for another product and reached by that call's success (`Reached`): when the upload
  that follows fails, submitting the new form sends its images to the earlier
  product and creates none;
- a list fetched before a submission from which the user went to another page: back
  on the page, the row is offered as it was until the list is fetched again.

## 4. Proofs

Each theorem about a state is Init, step, and a PTL conclusion from an inductive
invariant. Lemmas called `StepKinds` sort the actions by what they change, so that
a step proof has a case per kind and not one per action. Where a property compares
what is stored with what documents say, the invariant ties together what a request
has read, what its transaction holds and what its commit will publish.

### Sums

`TotalProofs` shows what the other modules need of `Total`. The definition is the
fold of the community modules, which takes the elements of a set in an order fixed
by CHOOSE. `StrongSubsetInduction` is induction over the subsets of a finite set
with the goal given as a set of subsets, so that no operator is passed as a
parameter. With it `SumsExist` and `SumsUnique` characterise the fold, and
`TotalRemove` shows that any element may be taken out first: the sum does not depend
on the order. The rest follows: `TotalPlus`, `TotalSplit`, `TotalMonotone`,
`TotalNat`, `TotalAppended` (sums over a sequence that grows at its end),
`TotalOfGroup` (one row changes and may move into or out of the group that is summed,
which is what posting a document does), and `Columns...` for tables of
quantities. Each of the theorems with a sum comes down to these: one document is
posted, so one term is added, and the stored amount changes by that term.

Sums need finite sets, hence the assumptions that issues, receipts, returns,
settlements, debts, documents and items are finite, as tables are.

### The posting kernel

`InventoryPostingProofs` proves, for any sets of locations, skus, documents,
keys and requests, any inputs that satisfy `InputAssumption`, any number of
attempts and crashes:

| theorem | property | inductive invariant |
|---|---|---|
| `TypeCorrect` | `TypeOK` | `TypeInv`: the types, the attempts of a request bounded by its state (`RequestsBound`), and answers that are postings (`AnswersBound`) |
| `NoNegativeStock` | `NonNegativeStock` | `StockInv`: the private copies are not negative either, else the commit would publish them |
| `BatchesWithinReceipt` | `BatchWithinReceipt` | `BatchInv`: the same for the private batches, and FIFO takes no more than what remains |
| `StockStaysWithinBounds` | `StockWithinBounds` | the three above |
| `PostedOnlyOnce` | `PostedOnce` | itself: `Commit` asks for a draft, and the document becomes POSTED as its posting is appended |
| `RepliesNameTheirPosting` | `ReplyNamesItsPosting` | `AnswerInv`: idempotency records name postings of their document and key |
| `PostingsAreWhole` | `JournalMatchesInput` | `LinesInv`: the lines of the open transaction are a prefix of those of its document |
| `LedgerExplainsBalances` | `LedgerExplainsBalance` | `LedgerInv`: a private row differs from the stored one by what the private lines move in its cell |
| `AllocationsExplain` | `AllocationsExplainBatches` | `AllocInv`: the same for batches and private allocations (`BatchesTaken`), and each line that is traced is allocated but for what the current one still needs (`LinesGiven`) |
| `BatchesCover` | `BatchesCoverAvailable` | `CoverInv`: so far an open transaction took from the batches of a sku what it took from its available stock, but for the lines that are not traced and for what the current line still needs (`StillNeeded`); at the commit the first come to no more than the batches that the document brings (`BackedAssumption`), and the second is 0 |
| `ValueNeverDrifts` | `ValueTracksCost` | `CostInv`: the same bound for private rows; `MovedGap` shows that a movement rounds value and average of one exact amount, so that errors do not add up |
| `KernelImplementsLedger` | `ImplementsStockLedger` | the ledger, whole postings and stock: a commit is `Post` of its document, whose `Net` is the sum of its lines; every other step stutters |

`Committed` and `LineAtHand` say what a commit and a line write. The assumptions are
`InputAssumption` and, for `BatchesCover`, `BackedAssumption` of `InventoryLedger`:
the kernel would lose track of its batches if a caller brought available stock in
without a batch. None does: `postOpening`, `postAdjustment`, `postReceipt` and the
replacement of a claim pass a batch for each such line, `postTransfer` takes out
what it brings in, `postReturn` of sales brings nothing into available stock, and
`confirmInspection` gives the good quantity back to the batches it came from (which
`QualityClaim` models). TLC evaluates both assumptions in each run of the kernel.

### Finance

`FinanceWebProofs` proves, for any accounts, finitely many debts and documents, any
credits and keys, and documents that list any number of targets with any amounts:

| theorem | property | argument |
|---|---|---|
| `TypeCorrect` | `TypeOK` | with it no debt is settled below 0 and no credit applied beyond its amount: posting compares with what it reads in its own transaction |
| `DebtsBalance` | `DebtBalances` | `SettledRow`: a line that fits moves what it settles from outstanding to paid and credited |
| `DocumentsPostedOnce` | `PostedOnce` | `CommitOnce`: posting asks for a draft without entries and keys |
| `DebtsStaySound` | `DebtsSound` | the three above |
| `SettledIsPosted` | `SettledByPosted` | what is paid and credited on a debt is a sum over documents; a posting adds the line it has for the debt |
| `AccountsStayTrue` | `AccountsHoldTheCash` | the account transactions are of the cash of a document, which is the sum of its lines; summed by account they are what was received less what was paid |
| `FinanceImplementsDebtLedger` | `ImplementsDebtLedger` | Init maps to Init; `SettlingRefines`: a posting is `Settle` of its lines; `OtherStepsStutter` for all others |

They share the inductive invariant `FinInv`: the first three properties,
`LinesSettle` (each line of a document settles something, so that none is a
stutter on its debt) and `AdjustmentsSettleNothing`. `StepKinds` sorts the steps
into drafting, settling, adjusting and the status of an account. The assumptions
are `FinanceAssumption` (amounts are positive, kinds of rows are disjoint) and
`FinanceIsFinite`.

### Sales, purchase, quality

`SalesProofs`, `PurchaseProofs` and `QualityProofs` prove, for any orders, suppliers,
payloads, keys and requests and finitely many items, issues, receipts, returns and
settlements:

| theorem | property | inductive invariant |
|---|---|---|
| `QuotasCover` | `QuotaCovers` | `SalesInv`: documents and the requests that will write them list items of their order only (`Rows`, `Requests`), what was issued fits the order and is what is gone of the quota (`Counted`) |
| `SettledStay` | `SettledDocumentsStay` | the same; each write is one of a draft, or asks again for one |
| `IssuedPosted` | `IssuedIsPosted` | `SalesBooks` (`SalesBooksInvariant`): an issue is worth what it lists, and a request holds that worth (`Documents`, `Handlers`); drafts have moved nothing (`Books`) |
| `DocumentsAreCharged` | `DocumentsCharged` | the same, with `Charged`: issued quantities, receivables and what returns took off them or made owed are sums over posted documents |
| `ReceiptsLockOrders` | `OrderLockedByReceipt` | `PurchaseInv`: a receipt names items its order still has (`Receipts`), and what a request has read of an order that a receipt names is still true (`Requests`) |
| `PurchasesAgree` | `ReceiptsAndReturnsAgree` | `PurchaseBooks` (`PurchaseBooksInvariant`): a receipt is never edited, so that what a request has read of it is what it lists; a return is of a posted receipt; `Agreed`, the three sums of the property |
| `SettlementHasOneKey` | `SettlementPerKey` | `ClaimInv`: the records of the keys name the settlements, each once (`OneToOne`) |
| `SettlementsAreOwedOnce` | `OwedOnce`, part of `SettlementsOwed` | the same |
| `StockIsExplained` | `StockExplained` | `QualityBooks` (`QualityBooksInvariant`): stock is what was pending, what inspections split and what settlements moved (`StockMoved`); batches got back what was found good |
| `SettlementsWerePosted` | `SettlementsOwed` | `ClaimInv` and `QualityBooks`: what a request has read as settled comes to no more than what was posted by then, and postings only grow |

Each invariant carries what a handler read earlier over to its write. In sales
nothing that was read is needed for the quota: order and quota change together in the
one transaction that compares them. The quantities and the revenue that `postIssue`
took from its closure may be those of an issue that was edited meanwhile; they belong
to one another all the same, and it is they that the books contain. In purchase the
foreign key of the receipt items is the reason: the items of an order cannot be
replaced behind a receipt, nor can a receipt of replaced items be written, so that
the supplier `postReceipt` had read is the one the payable is owed to. In quality
the key is looked up again in the transaction that saves settlement and record, and
the draft in the one that posts it; the settled amount is written from a stale read,
so that of the two directions only one holds: a claim never counts more as settled
than was posted, and may count less. The assumptions are `SalesAssumption`,
`PurchaseAssumption`, `QualityAssumption` and `PriceAssumption`.

### Backups

`StorageProofs` proves, for any business rows, requests and backups, any non-empty set
of tiers of retention and any changes of locks, with and without OneDrive:

| theorem | property | argument |
|---|---|---|
| `BackupInvariant` | `BackupInv` | see below |
| `RestoresStayExclusive` | `RestoresExclusive` | `Alone`: who holds maintenance entered while nobody did, and flags change hands together with the step of their owner |
| `RestoresRollBack` | `RestoreRollsBack` | `Kept`: what a restore found is in its protection before `pg_restore`, and a dump does not change after it was written |
| `RetentionInvariant` | `RetentionInv` | see below |
| `BackupsStayRecoverable` | `AlwaysRecoverable` | retention always keeps a file that is there |

`BackupInv` is `TypeOK`, and five parts that each carry one reason. `Actors`: a
request at a step has what that step needs. `Alone`: one request backs up, one
holds maintenance, and the flags say so. `Numbered`: no two requests work on
the same number, and an unused number has no dump. `Dumped`: a dump is written
once, and restores work with dumps that exist. `Kept`: at each step of a restore
the database, or the dump that would bring it back, still holds what the
restore had found. Mutual exclusion comes from `enter()` alone: `restoreRunning`,
read before an await and set after it, is not used in the proof. `StepKinds`
sorts the actions into those that do not touch a restore (`Quiet`), the end of
requests (`Stops`) and the ways a request goes on: it backs up, replaces the
database, takes a number, enters, hands over. Each part of the invariant
is then kept kind by kind.

That a file is always left is not inductive: it is a matter of whom retention may
expire, and the rows it reads may have been put back by a restore. `RetentionInv`
says why it holds. `Held`: a backup that is about to expire others, or to lose its
local copy, has a file itself. `Latest`: it is the last that ended, so the tiers,
which keep the last of their latest period, keep it; unless its own row is unknown,
because a restore put back a history without it. `Unknown` is about that case: no
dump but its own knows a backup in progress, so no history that comes back holds a
row that ends after it. `Timed`: no row, stored, dumped or remembered, is from later
than now; and `Aimed`: a restore aims at a backup that has ended. The assumption is
`BackupAssumption`; the code has three tiers, and with none retention would expire
everything.

### OneDrive

For any finite number of authorisations and any number of restarts:

| theorem | property | inductive invariant |
|---|---|---|
| `ConnectionStaysSound` | `ConnectionSound` | `ConnectionInv`: types, `Seen` (who has metadata in hand got it from the table or from the drive) and `Slot` (an attempt in flight that nobody let go of is the task of the service) |
| `DisconnectLasts` | `DisconnectHolds` | the same with `Leaving`: what a disconnect has deleted so far stays deleted while no attempt is in flight |

`Slot` is why `adrift` is in the model: without it the induction fails at the reset
of `disconnect`, which forgets an attempt begun after its first step, and with an
earlier connection two authorisations reach the state. The assumption is
`OneDriveAssumption`.

### Files

For any finite set of files, any uploads, backups and deletions, any names of which
those of images and of backups differ (they are in different folders), any limit
and any number of faults and stops of the server:

| theorem | property | inductive invariant |
|---|---|---|
| `FilesInvariant` | `FilesBooks` | the four parts below |
| `UploadsStayKept` | `UploadsKept` | `FilesInv` and `RemoteInv` |
| `GalleryInOrder` | `GalleryUnlessRaced` | `FilesInv` and `GalleryInv` |
| `NothingOrphaned` | `NoOrphans` | `FilesInv`, `RemoteInv` and `OrphanInv` |

`FilesInv` divides the life of a file: it waits (`FilesWait`), its request stores it
(`RequestRow`), or it is settled (`Settled`), and images and the targets of deletions
are settled. A step of a request therefore disturbs no other file, and a deletion
none that is being stored (`RequestFrame`, `DeletionFrame`, `Undisturbed`). The
staged copy and the local object follow. `RemoteInv` is about OneDrive, where the
upload goes by name. `NamesAgree`: whoever refers to an item has its name. A file is
`Single` when no upload that it may have overlapped has its name; then nobody takes
its name between the question and the upload (`SingleReq`), and nobody else
writes or deletes its item (`OwnItem`, `ItemGone`). This is why `ImagesReadable`
leaves out files that clash, and it is inductive only together with `GalleryInv`:
that two uploads with one name met is known from `OneAtATime`. `GalleryInv` holds
while no two requests about the images overlapped: then what was read, the count
and who is primary, is still so at the write (`Counted`), and the room for the
rest of the upload is there (`RoomLeft`). `OrphanInv` follows an object from the call
that makes it to the row that accounts for it or the call that deletes it; a row is
marked deleted only after that call (`Undone`), and an item that nobody has created
yet is referred to by nobody (`ItemsOld`). The assumption is `FileStorageAssumption`.

### Catalogue

`CatalogueProofs` proves, for any rows, references, prices, periods, locations and
requests:

| theorem | property | inductive invariant |
|---|---|---|
| `ReferencesAreChosenWhileActive` | `ChosenWhileActive` | `CatalogueInv`: each reference of a request is still to be looked at, is active, or was taken out of use after the look, and then the request is told (`MasterKept`) |
| `PricesStayDisjoint` | `PricesDisjointUnlessRaced`, part of `PricesSound` | the same: a price about to be written overlaps no other, or is told that another was written since (`PriceKept`) |
| `PricesStaySound` | `PricesSound` | the same with `Resolutions`: the keys that had an effective price all the time are among those still to be looked at, so that the one that answers is beaten by none of them |
| `ExportsMissNone` | `ExportMissesNone` | `ExportInv`: the rows there were when the export began are still listed, and what it has not written of them comes after the pages it has read (`Covers`) |
| `ClosedLocationsStayEmpty` | `ClosedLocationsAreEmpty` | `CatalogueInv` with `Tree`: at its write a location request that nothing happened around still finds its row without the stock and the children it counted, and its parent in use (`Knows`) |

None of these properties is inductive: what makes each true is what a request
had read some steps before, and the invariant says how long that stays true. No
write of master data takes a location out of use, nor the other way round, so the
parts compose (`MasterElsewhere`, `PricesElsewhere`).

What an export lists is a filtered sequence, a recursive function (`Matching`).
`FoundExists` and `FoundAgree` show by the least counterexample that it is defined and
depends on the rows alone, `FoundRows` that it has those that match and no others.
`ListedGrows` is what the export needs of it: without a filter a row that is created is
listed last, or first when the newest come first, so that each row that is still to be
written keeps its place or moves to a later one; and no row is removed. `PageRows` and
`LastPage` are the arithmetic of `list` and `paginationMeta`.

The assumptions are `MasterAssumption` (finitely many rows, those of the start refer to
rows, a page has a row or more) and `PriceBookAssumption`
(the prices of the start do not overlap, and None is no key).

### Sessions and web pages

`FinanceWebProofs` also proves, for any tabs, any finite number of calls, any budgets
of requests, expiries, faults and openings, any start status and any of the screens
of the table:

| theorem | property | inductive invariant |
|---|---|---|
| `RefusalsHaveCauses` | `RefusedHasCause` | `RefusalInvariant`: a revoked session was ended, or lost, or is being renewed by a request whose answer is still to come, be it the one in the cookie (`CookieExplained`) or the one that another request carries (`RenewalExplained`) |
| `EndedStayEnded` | `EndedUnlessRaced` | `EndingInvariant`: there is a set that holds the sessions the user ended and all that were renewed from them without a race (`EndedSet`), and none in it is live or about to be renewed by a request that met no other (`Spared`) |
| `OpeningsDoneOnce` | `DonePerOpening` | `OpeningInvariant`: what an opening has done and what is still under way for it come to one more than the answers it lost; once all was answered, and the user can submit again, to no more than these (`OpeningForm`) |
| `RefusedWhenMoved` | `RefusedOnlyIfMoved` | `OpeningInvariant` and `OfferInvariant`: a page that knows the current version of the row offers only what its status allows, and has heard of no submission after the version it shows (`ViewForm`, `KnowsRow`), and so has each submission it made (`JobKnows`) |

All four rest on `SessionShape`: requests with one token have met, a renewal shares
its session only with those, and what it was given is known to nobody before it is
heard. The property about ended sessions follows the chain of renewals by recursion;
its invariant says the same with a set, so that the least session that the recursion
counts as ended and the set leaves out is a contradiction (`LeastOf`), and no
induction over sessions is needed. `WebSteps` sorts the steps.
The last theorem goes through the table of `Screens` once: a screen offers only
statuses from which the server takes its first call, and each of its calls leaves the
row where it was, or where the next call or the page that asked finds it. In this
proof the version that a page was told of belongs to the page: what one page heard
does not excuse another. The assumptions are `SessionBounds` and `WebBounds`, about
the numbers of the instance.

### Only model-checked

- The two liveness properties: out of the prover's reach, as ENABLED is.

## 5. Plan

Done: the components of section 1 as described above, in the order kernel,
sales, purchase, finance, quality, backup, OneDrive, files, catalogue, sessions
and web pages; proofs about all of them. What is left, in this order:

1. The import key of openings and `createChannelAllocation`: allocations against
   available stock, with the quotas that `SalesOrder` has as constants.
2. `Session` under the requests of `Catalogue`: which requests a session that
   ends in the middle still lets through.

Recursion is written with folds or recursive functions throughout, so that
every module can be proved about. One MC module per component, two requests,
one or two documents of each kind; a run per question, and where a component
needs a new one it takes the place of one that says less.

## 6. Not modelled

- `createChannelAllocation` and the import key and preview of openings (planned
  above). `createAccount` adds a row that the finance model has from the start.
- Queries: lists with their filters, analytics, reports, the history of
  stock, the queries of the audit log. They read what the models keep and change
  nothing. `list` and `exportCsv` are modelled for master data, where a page
  can miss a row, in the order of creation, which is the default: ordered by a column
  that an update changes, an export can miss the row that the update moves.
- In the web client: fields and validation of forms, tables, filters, charts,
  the state of a list in the URL, and the pages of backups, files and audit.
  What a dialog does with an answer is modelled, what it shows is not.
- Health, configuration, controllers and the validation of DTOs: they keep no
  state. Formats of fields and codes; texts of documents.
- Refresh tokens that expire after 30 days: the server then refuses, as it
  does for a session that was revoked.
- Rows read without `orderBy` are taken in one order, so the idempotency conflict
  that another order of the same items could cause is not in the model.
- Libraries and services (Prisma and PostgreSQL, `pg_dump` and `pg_restore`, MSAL
  and Microsoft Graph, the browser) are external: what they do is taken from how
  the code uses them, faults included.
