# A TLA+ model of the panel

This directory holds the formal model of this repository: an Xray control panel
(web UI, background jobs, node synchronisation) with a Telegram shop that sells
metered proxy configs out of a prepaid wallet. It says what is modelled, what TLC
checks, what TLAPS proves, and what is left.

The server lives in `src/internal` (Go), the pages in `src/frontend/src`
(TypeScript, React). Three things make them hard to test:

* Everything on the server runs in one process on many goroutines - HTTP handlers, a
  bot dispatcher that starts a goroutine per update, and cron jobs that may overlap -
  and most operations are several SQL statements that are *not* one transaction.
* Much of the state is kept twice: a wallet and its ledger, a config row and the
  Xray client it stands for, the recorded configuration and the one the core runs,
  a configuration as text and as an object, a list and the browser's cache of it.
* A page is a set of callbacks. Clicks, answers, timers and messages come in any order,
  and what a callback read before its `await` may be stale after it.

Wherever another goroutine or callback, a crash or a failed statement falls between two
steps, the copies can part. Those gaps are what the modules keep, and
arithmetic, text and I/O are what they leave out.

## Inventory

| Part | State | Operations | Hard because |
|---|---|---|---|
| Shop wallet and ledger (`service/shop.go`) | `bot_users`: balance, totals; `wallet_transactions` | `User`, `credit`, `Adjust` | read, add, write back; two SQL dialects |
| Wallet top-ups (`shop.go`) | `wallet_top_ups`: status, receipt, code, bonus | request, receipt, approve, reject | several admins and the buyer act on one row |
| Discount codes (`shop_discount.go`) | `discount_codes`, `discount_redemptions` | create, enable, delete, validate, redeem | limits counted in one statement, used in another |
| Shop billing (`shop.go`, `job/shop_billing_job.go`) | `bot_configs.charged_*`, the client's meter | `BillAll` | debit and bookkeeping are separate; runs overlap |
| Shop configs (`shop.go`) | `bot_configs`: active, paused | create, pause, resume, delete, `AddVolume`, `reconcileWallets` | decides on rows read earlier, beside the owner |
| Client enable switch (`client_inbound_apply.go`) | the client's enable flag | `setClientEnabled` = look, then toggle | a toggle is not a set |
| Traffic writer (`traffic_writer.go`) | queue, writer goroutine | start, stop, submit | mutex held while the queue is full; stop races submit |
| Xray lifecycle (`xray.go`, `xray/process.go`, three jobs) | process, recorded configuration, restart flag, manual-stop mark | restart, hot apply, stop, crash watch | jobs and handlers ask for opposite things; API calls fail half way |
| Live updates (`api/websocket.ts`, `api/websocketBridge.ts`, `hooks/use{Inbounds,Clients}.ts`) | browser socket, timers, query cache | connect, reconnect, invalidate, refetch, poll, own writes | messages are dropped, debounced and overtaken by answers |
| Inbound dialog (`pages/inbounds/form`) | form of one inbound | change protocol, network, security, masks, node, clients; save | each choice rewrites other fields, in any order |
| Xray page (`pages/xray`, `hooks/useXraySetting.ts`) | the template as text and as an object, dialogs that remember a row | edit outbounds, rules, balancers, lists; save, refetch | two copies, stale indices, tags that are referred to |
| Clients page (`pages/clients`, `hooks/useClients.ts`) | one dialog, its client, form and requests | add, edit, switch, delete | the dialog opens after an `await`; a save is up to four requests |
| Client mutations (`client_crud.go`, `client_bulk.go`, `client_locks.go`) | inbound JSON and its mirror tables | create, update, attach, detach, delete, bulk | writes before it refuses; per-inbound locks; tombstones |
| Resellers (`admin.go`) | users, quotas, inbounds held down and why | enforce, suspend, release, reset | two reasons to hold one inbound down |
| Local traffic (`inbound_traffic.go`) | counters of clients and inbounds | add, renew, disable | one transaction of many steps, errors swallowed |
| Node synchronisation (`node_traffic_sync_job.go`, `inbound_node.go`) | dirty mark, snapshots, global traffic | reconcile, merge, push | remote state, stale snapshots |
| MTProto sidecars (`mtproto/manager.go`) | processes, counters | ensure, remove, scrape | lock released during the scrape |
| Event bus, WebSocket hub | bounded channels | publish, dispatch, stop | lossy when full; stop |
| Sales bot life cycle (`salesbot/salesbot.go`) | running poller, token | reconcile, start, stop | decided under a lock, done outside it |
| Login limiter, sessions | sliding windows under one mutex | allow, fail, succeed | sequential |
| Share links and wire adapters (`frontend/src/lib/xray`) | none | to and from links, forms, JSON | round trips |
| Other pages, settings, subscriptions, notification bot, e-mail, LDAP, scripts | | | data, wording and I/O |

How they meet: the bot and the web handlers call the shop service, whose money
path is `credit`. `BillAll` reads the meters that local traffic accounting (and,
for nodes, the synchronisation) writes through the traffic writer, and ends in
`reconcileWallets`, which switches clients through the client service; that in
turn pushes to the running Xray core or marks it for restart, which the Xray
lifecycle acts on within half a minute. Resellers and spent clients are disabled
along the same path. The pages post to the handlers in front of these services and hear of
changes by others through the hub, whose messages only say what to fetch again.

What makes each part correct: a balance is explained by its ledger; a request is
decided once and paid once; a code is not used beyond its limits; traffic is
charged once and completely; an empty wallet has nothing running and a full one
everything its owner did not pause; every write submitted is applied exactly once
and answered; the core ends up running the stored configuration unless an operator
stopped it; an inbound is down exactly while somebody has a reason to hold it down; a page
shows its own changes at once and those of others in the end; what a dialog saves is what it
showed, of the row it showed, and fits the schema the server and the core expect.

## Modules

| Module | What it is |
|---|---|
| `Wallet` | the wallet row and ledger line: what a movement does to each |
| `AtomicWallet` | abstract: balance, totals and ledger change in one step |
| `WalletLedger` | `User` and `credit` as transactions under both SQL dialects |
| `TopUpRequest` | abstract: a request is open, then decided, and paid if approved |
| `ShopTopUp` | requests, receipts, approvals, rejections and discount codes, one action per statement |
| `Tariff` | what a meter reading costs |
| `PayAsYouGo` | abstract: the total charged is the price of traffic that was moved |
| `ClientSwitch` | `setClientEnabled`: look, read, write the opposite |
| `ShopBilling` | `BillAll`, `reconcileWallets`, and the owner's and admin's calls around it |
| `TrafficWriter` | the queue in front of every counter transaction: start, stop, submit, the writer goroutine |
| `XrayLifecycle` | the core, its recorded configuration, and everybody who starts, patches, stops and watches it |
| `LiveSocket` | the browser's WebSocket client |
| `LiveData` | one list page kept fresh over that socket |
| `InboundForm` | the dialog of one inbound, with all that a choice rewrites |
| `XrayTemplate` | the template and its pure edits: placing, removing, renaming, observatories |
| `XraySettings` | the Xray page: two copies of the template, dialogs, save, refetch, other sessions |
| `ClientsPage` | rows and dialog of the Clients page, with the client service behind it |
| `...Proofs` | the theorems about the module of that name; `XrayProofs` about `XrayLifecycle` and `XraySettings` |
| `MC...` | TLC instances that need definitions |

`ShopTopUp` uses `Wallet` for what a credit does, `ShopBilling` extends
`Tariff` and `ClientSwitch`; in both, `credit` is a single step: `WalletLedger`
shows that it may be, on SQLite. `LiveData` extends `LiveSocket` and `XraySettings`
`XrayTemplate`.

### The wallet

`WalletLedger` has the wallet rows, the ledger, and a transaction per goroutine
that remembers the row it read. `Begin` is the `SELECT` of `credit`, `Commit` the
`UPDATE` with the absolute sums and the `INSERT` of the ledger line, `Rollback` a
statement that fails. The constant `ImmediateTx` says what `Begin` waits for: SQLite is
opened with `_txlock=immediate` (`database/db.go`), so transactions are serialised;
Postgres runs READ COMMITTED, so they are not.

### Top-ups and codes

`ShopTopUp` keeps the request, code and redemption rows and, for each handler
goroutine, the point between two statements where it is and what it read before.
Each database statement is one action named after the handler and the statement:
`ApproveLoad` (the status check), `ApproveMark` (the conditional update that claims
the request), `ApproveCredit`, `RedeemValidate`, `RedeemClaim` (the conditional
increment of the use count), `RedeemRecord`, `CreditBonus`, `StampBonus`;
`RejectLoad`/`RejectWrite`; `ReceiptLoad`/`ReceiptWrite`; `CodeLoad`/`CodeWrite`.
`Fail` is any of them returning an error, `Crash` the panel dying. `payments` and
`bonuses` are ghosts that count what each request was credited, `dropped` holds the requests
whose approval was cut off, by either, between `ApproveMark` and `ApproveCredit`.

### Billing

`ShopBilling` has the wallet, the config rows, the meter and age of each config,
the client and, for each goroutine, its place in `BillAll` or in an owner's call. A
run reads the rows (`StartRun`), then the meters (`ReadMeters`), then for each config
debits and books traffic before days (`Debit`, `Book`), then reads all wallets
(`ReadWallets`), then the configs of each user (`ReadConfigs`), and for each config
that is not as its wallet wants it calls the client switch (`SwitchConfig`, the
steps of `ClientSwitch`, `FollowSwitch`). `moved`, `debited` and `orphans` are ghosts: traffic
ever moved, which a meter reset does not forget, money ever debited, and configs that an error or a
restart parted from their client: a failed insert after the client was made, a removal of the
client that failed and was ignored, a crash between client and row.

### The traffic writer

`TrafficWriter` keeps what `StartTrafficWriter` makes - queue, context, done channel,
goroutine - per *generation*, because a submitter may still hold those of a writer
that has been stopped and replaced. `tw` is the generation the package variables name.
`Start`, `Stop`, `Stopped` are the halves of the two exported functions between which
they wait; `Ask`, `GoDirect`, `Enqueue`, `Block`, `Unblock`, `GiveUp`, `ApplyDirect` and
`Receive` are the places of `submitTrafficWrite`; `Take`, `Apply`, `Cancelled` and `Exit` are
the two `select`s of `runTrafficWriter`. The package mutex is a variable only where it is
held across a wait: from `Block` to `Unblock` or `GiveUp`. What a transaction does is its
caller's affair: it succeeds or fails (`safeApply` makes a panic a failure), and the
ghost `applied` counts its successes.

### The Xray core

`XrayLifecycle` numbers the versions of the stored template and of the one inbound, so that a
configuration is a pair of numbered rows and "older" has a meaning. `core` is the process:
what it serves, whether it was told to stop, and the sessions open on it; `snap` is `p.config`.
`RestartXray` is the steps of a caller past the lock: `ReadTemplate`, `ReadInbounds`,
`Decide` (nothing to do, hot apply, or restart), the API calls of a hot apply in any order and
each of them able to fail, then stop, signal, wait and start. The callers are the cron job that
honours the restart flag, the health check with its two looks, the traffic job, the operator's
restart and stop buttons, and the handler that saves the template. An inbound is switched by
the editor: delete and add through the API, then the restart flag. `Crash` and `Reap` are the
process dying and `cmd.Wait` returning. `StopFails` is a signal that fails or a wait that times
out: `StopXray` returns the error with the manual mark set and the process alive, a restart logs it
and starts a new process in its place; `LateExit` is a process that goes after such a stop. Ghosts:
`owed`, clients disabled by the traffic job
whose sessions are open; `excused`, a restart that could not read its configuration or a stop that failed; `alarmed`.
AddTraffic is one step. Not modelled: outbounds in the hot diff, callers that do what a
modelled one does, a process that outlives the one started in its place, renewals, and the
replacement of an inbound inside `addInboundReconciling`, which is one step.

### Live updates

`LiveSocket` is the class `WebSocketClient`: `this.ws`, the state of each browser socket, the
reconnect timer; its events may come for a socket that has been replaced. `LiveData` adds
one page, Inbounds or Clients: versions of the list at the server and in the cache, the request
on its way, the messages on the socket, the debounce timer and the suppression after own
changes of the bridge, the poll of the Clients page, and a change of the page's own.
A message may be lost because the hub's channel is full (`MaxChan`) or the socket is not open.

### The inbound dialog

`InboundForm` keeps a form as its discriminators: protocol, network and security of the
stream, which of their slices are there, UDP masks, node, share strategy, the clients and
whether they still have their credentials and whether their ids are UUIDs. Every handler of the dialog is an action with all it
resets, in the order in which the effects run. `OpenEdit` opens on the stored row or, when that cannot be
fetched, on the row of the list, whose clients have no credentials. The list of nodes is late
(`NodesArrive`) or fails (`NodesFail`), which the page takes for an empty list. `Submit` posts what the schema lets through;
the server keeps a row, which the dialog opens again.
Not modelled: fallback rows, key and certificate generators, the raw JSON editors, the
automatic tag, other masks, a row of the list that was hydrated earlier and is stale.

### The Xray page

`XrayTemplate` has the pure edits on outbounds (tag and `dialerProxy`), rules (target and which
lists they match), balancers and the two observatories. `XraySettings` holds a template twice,
as the text that is saved and the object that is shown; dialogs that remember the
row they were opened on; the poll that offers Save; saving with its lost answers; refetches;
another session's save; a change of the outbound subscriptions. Confirming a dialog
whose row has gone leaves a hole in the array (`Hole`). Text that does not parse is `Broken`.
Not modelled: what is in a list, other sections, WARP and Nord dialogs, DNS, outbound tests,
the raw editors of one section and of the observatories.

### The Clients page

`ClientsPage` keeps for each row the stored client: e-mail in its record and in its inbounds,
subscription id, credential, switch, how many entries each inbound has of it, external links. `EditClick`
and `Hydrated` are the halves of `onEdit`: an answer that arrives while the dialog is open
replaces the client the dialog is about but not its form. `Submit` fixes the requests of a save,
`Request` carries out the next one, `RequestLost` loses it or its answer, `Saved` closes
whichever dialog is open. The requests are `Update`, `Detach`, `SetExternalLinks` and `Create`
of the client service, with the writes they make before they refuse, and `Attach`, which is not one step: it
reads the client and where it is (`AttachReads`), then appends it to one inbound after the other under the lock
of that inbound only (`AttachAppends`), and goes on when its answer is lost (`stray`, `StrayAppends`) or
for another session (`AttachedElsewhere`). A credential is whose it is and a password: the client's own, or one that
was made for a Shadowsocks-2022 inbound (`Keyed`), by the dialog (`Opened`, `Chosen`) or by the
server (`Filled`). "made" is said of a client as soon as one of its entries has such a password. A row's switch
fetches and writes back (`ToggleClick`, `ToggleWrites`); other sessions edit, attach and delete.
Not modelled: bulk actions, import, groups, resets, paging. Other values of a client are saved
with the switch, and stand behind it.

## Runs

Every run passes. It shows what the code keeps; what it does not keep is under "Also violated".

| Run | Shows |
|---|---|
| `wallet_sqlite` | with serialised transactions every balance is the sum of its ledger, and `credit` implements the atomic wallet, totals included |
| `topup_one_at_a_time` | one call at a time, with failing statements and restarts in the middle: requests implement `TopUpRequest` - decided once, paid once, and only when approved |
| `topup_approvals` | two concurrent approvals: nothing is paid twice, no code exceeds its uses, every bonus has a recorded use; through failing statements and restarts an approved request is paid, unless one of them hit between its mark and its credit |
| `billing_one_run` | one run beside an owner who makes, pauses, resumes and deletes, with resets and failing debits, inserts and removals: usage is charged exactly once, books match, no client runs unbilled but for the failed inserts and removals |
| `billing_enforced` | an unfunded or blocked wallet cuts its configs off for good, a funded one brings them back |
| `billing_recovers` | two runs at once, crashes, failing statements: traffic never stays unbilled |
| `writer_start_stop` | three submitters, a queue of one, two goroutines that start and stop: one writer at most, each write is applied once and its submitter told so, nobody is told the writer is gone, writes are serial until the writer is stopped, everybody returns |
| `xray_lifecycle` | two acts of people and one failure (a crash, a call or a stop that fails) between the steps of every job: between restarts the core serves what is recorded, its configuration never goes back, while the panel takes it for stopped by hand it is gone or was told to go, only crashes raise the alarm, a crashed core comes back, and with `RestartOnDisable` on the sessions of a client the traffic job disabled end |
| `live_data` | a session whose connection comes and goes: one socket per client object at most, never a client without socket and timer, own changes stay visible, the Clients page converges |
| `inbound_form` | one inbound added and edited twice, with every order of choices, on the full row or the list's, with nodes late or failing: the schema refuses nothing for a field no tab shows, unless the row was the list's; a stream fits its protocol; clients survive, and with the full row and UUIDs for ids their credentials too; the share strategy stays as chosen unless the nodes failed |
| `xray_page` | two edits with dialogs left open, saves, lost answers, refetches, a rival session: text and object agree, observatories are there for the balancers that need them, rules keep their targets, a save is not reverted, unsaved changes can be saved |
| `clients_page` | answers that cross, saves that fail half way and are repeated, switches, deletions, another session: a reported success is what was shown; identities stay with their clients and passwords are replaced only for Shadowsocks-2022; no inbound gets a client twice but by a repeated add or overlapping attaches |

**Bounds.** Two users, requests, codes, configs or goroutines are what a race
needs; more of them only repeat it. `MaxCalls` bounds the calls (and, in billing, the
faults) of one behaviour, high enough that each run goes through a complete life
of what it is about (request, code, approval; create, use, empty, top up, come back). Two
traffic units per gigabyte and a price of 3 make a part-gigabyte round; a top-up
smaller than what a client may move empties the wallet. One buyer owns all configs,
because configs of different buyers share no state. Three submitters and a queue of one
make one write applied, one queued and one waiting for room; two generations let a
writer be replaced while its predecessor's submitters still wait. `xray_lifecycle`: `MaxActs` = 2 are the
acts of operators and editors (two of them conflict), `MaxFaults` = 1 a failed call or stop or a crash; jobs
run without bound; `RestartOnDisable` is on, without it `DisabledAreCutOff` claims nothing. `live_data`: two browser sockets, reused once closed; two changes of the list; a channel
of two messages. `inbound_form`: one protocol of each shape, one transport of each kind (`tcp`, `kcp`), the strategies `node` and `listen`, one client, three
dialogs. `xray_page`: two stored templates, two edits, one save by each session. `clients_page`: two clients
and room for a third, `MaxEdits` = 1 field typed and `MaxMishaps` = 1 of: a lost request, an add,
a switch, a change or an attach by somebody else; clicks, answers and saves are not bounded. One of the two
inbounds is Shadowsocks-2022. There is one stray attach at a time; a client that is being attached is not
deleted, renamed or added once more; and a client with two entries in an inbound is left alone.
That is enough for a lost answer whose attach still runs while the save is repeated.
`CHECK_DEADLOCK FALSE` is there where calls are bounded: when they are used up, the system is at rest.

**Fairness.** `FairSpec` of `ShopTopUp` has weak fairness of the next step of
every call that has begun: a goroutine is scheduled until it returns, fails or dies with the panel. `ShopBilling`
has the same for calls, and weak fairness of `Run(b)`: cron starts the job again
every minute. `TrafficWriter` has weak fairness of each submitter, of the writer and
of a `Stop` that has begun: goroutines run and transactions end. That is enough for the
mutex too, because each submitter makes `MaxWrites` calls and then leaves it to the others;
Go's mutex gives the same under any load, since it turns fair once a waiter has starved for a
millisecond. `XrayLifecycle` has weak fairness of every caller's next step, of the restart cron and the
health check, and of `Reap`: goroutines run, cron fires for ever, the system reaps the process. `FairSpec`
of `LiveData` lets a reconnect timer fire and a socket open while the server is up, requests be read and
answered, messages be received, and the timers of bridge and poll fire; nothing is assumed of the server
coming back, which is why `ClientsConverge` is conditional. `XraySettings` has weak fairness of the poll that compares
text with what was saved. Nothing is assumed of users, admins, traffic or time, and nothing
about failures: they may happen whenever their bound allows.

**Type invariants.** Each module has a `TypeOK`. Where it is proved (below) no run repeats it.

## Also violated, not kept as runs

Each of these is the named property in the named instance after the change given, or was read
off a trace of the module while it was written. They are what the code does, not slips of
the model.

Shop:

* `Explained` with `ImmediateTx` = FALSE: two credits on Postgres lose one movement from the
  balance, contrary to "a balance and its explanation can never disagree".
* `PaidOnce` with receipts while two handlers approve: `AttachTopUpReceipt` checks the status it read
  and then writes two columns by id, the status among them, so it reopens a paid request, which the next
  approval pays again (`shop.go:229-240`; the comment at 240-242 says that cannot happen). Likewise a rejection
  between two approvals: it writes "rejected" over the first one's mark, and the second, which loaded
  the request before, still finds it not approved (`shop.go:253`) and pays again.
* `ApprovedIsPaid` without its exception: when the credit fails after the mark (`shop.go:261-265`), or the panel
  dies there, the request stays approved and nobody ever pays it.
* `EveryClientBilled` without its exceptions: `CreateConfig` leaves the enabled client when the row cannot be
  inserted (`shop.go:394-396`), `DeleteConfig` drops the row although the client could not be removed (`shop.go:500-502`).
* `ImplementsTopUpRequest` with two handlers: reject and approve decided at once end rejected and
  paid (`RejectTopUp` writes by id alone). Two requests of one buyer with the same code,
  approved at once, both redeem it (`redeemDiscount` counts, then inserts).
* `ImplementsPayAsYouGo` with two billers, or with a crash between debit and book: the same traffic
  is debited twice. `shop.go` says of the crash that it "cannot double-charge".
* `PausedStaysOff` with pauses beside a run: a run that read the row before the pause switches the
  config on again.
* `CutOff` with two billers or with pauses: two toggles of one client leave it on
  while its row says inactive, and no later run looks at the client. `CutOff` with both prices zero and
  a block: `BillAll` returns before it reconciles.
* `ComesBack` with a crash: the client was switched off but its row still says
  active, so nothing switches it back on.
* `EverythingBilled` with resets: a meter below what was charged makes traffic free
  until it has caught up.

Traffic writer: `Serialised` after a stop. Once the writer is cancelled, submitters apply their
writes themselves, side by side with the one being drained.

Xray core:

* `DisabledAreCutOff` without its premise: with `RestartOnDisable` off the cron's restart turns out to be a hot apply,
  which leaves the client's session open, though the job's comment (`xray_traffic_job.go:61-67`) relies on it.
* `GetXrayConfig` calls `AddTraffic(nil, nil)` and drops its answer (`xray.go:129`), so clients it disables are not
  followed by a restart and keep their sessions (they are not in `owed`); a failed `GetXrayConfig` after the flag was
  cleared loses the request.
* A stop that fails or times out leaves the core running with the manual mark set: the health check
  will not restart it when it dies.
* An inbound enabled through the API and disabled again before the snapshot follows is not removed, contrary to
  `inbound.go:955-957`; a toggle back whose API call fails leaves the inbound missing; `AddInbound`
  pushes before it commits.
* A manual stop need not last: any restart that gets the mutex after it takes the mark away and starts the core
  (`xray.go:916`), also one the flag, a saved template or the health check asked for before, against "a
  manually stopped xray stays stopped" (`xray_setting.go:146-148`). `ManualStopHolds` relates mark and process only.

Live updates: `AnnouncedInboundsFetched` - an invalidate message about inbounds is swallowed shortly after an own
change, and the Inbounds page has no poll that would make up for it.

Inbound dialog: `AlwaysParses` without its exception (`InboundsPage.tsx:521-534`: a dialog opened on the list's row is refused
by the schema for credentials no tab shows, or after a change of protocol posts new ones); an id that is not a UUID
is regenerated by a change between vless and vmess (`protocol-migration.ts:133`, `142`); `NodeStrategyKept` without its
exception (`useNodesQuery.ts:79` counts a failed request as fetched, and a stored `node` is saved as `listen`);
`AcknowledgedOnce` (a protocol that is changed and changed back gives clients new credentials, and the save asks nothing); reality under vmess or
ws and tls under kcp can be reached and saved; UDP masks stay, hidden, after kcp is left; a form opened
before somebody added a client saves without that client; the answer to a save closes whichever
dialog is open.

Xray page: edits typed before a refetch lands, or unsaved ones when the subscriptions change, are
overwritten (`useXraySetting.ts:154-171`), and the effect described at 152-153 is skipped when the data is structurally equal;
a renamed outbound stays in `observatory.subjectSelector`; deleting an outbound leaves its rules dangling; clearing one list
drops every rule it was merged from, lists of other kinds included; duplicate tags can be typed in the outbound dialog; test
results stay with the index when rows move. A balancer dialog confirmed over a template that lost two balancers meanwhile leaves a
hole, at which the next edit of a balancer throws (`balancer-helpers.ts:40`).

Clients page:

* A rename always ends as failed: the requests after the first use the old e-mail, which no longer exists.
  The retry ends in "record not found".
* A rename together with a subscription id in use leaves the record renamed and the inbounds with the
  old name; the client cannot be edited any more ("empty client ID").
* Two attaches of one client that overlap - one that still runs after its answer was lost and its repetition, or those of two
  sessions - both append it: `Attach` reads where the client is without the inbound's lock, and `AddInboundClient`
  does not look for it under its own subscription id. The one that ends last also writes back the values it read
  over an update made meanwhile.
* Choosing a Shadowsocks-2022 inbound, or opening the dialog on a row of the list that has one, replaces the password in
  the form (`ClientFormModal.tsx:386-393`), and the server makes one where it needs to (`client_crud.go:135-138`): the
  client's other inbounds that use the password get the new one.
* A create that is repeated after its answer was lost puts the client into its inbounds once more. Create ignores the
  form's switch: the client is enabled.
* When fetching the secrets fails, the dialog opens from the row, and saving clears external links, flow,
  security, reverse and Telegram id.
* The switch of a row drops the device limit and can overwrite a save; edits of a client without
  inbounds are lost silently; after a half-failed save the differences are told from the inbounds at opening, so an inbound
  put back in the form is not attached again; an answer closes another client's dialog.

Share links (read, not modelled): `inbound-link.ts` emits parameters of vmess links that
`outbound-link-parser.ts` drops; Shadowsocks links lose their stream settings; Trojan and Hysteria passwords
are not percent-decoded.

## Proofs

TLAPS proves, for all values of the constants that satisfy the named assumptions:

* `WalletLedgerProofs`: `Typed`; `LedgerExplains` and `CreditIsAtomic` for serialised
  transactions. The inductive invariant adds that a wallet row a goroutine
  remembers inside a transaction is still the row in the database - which is
  precisely what READ COMMITTED does not give.
* `ShopTopUpProofs`: `Typed`; `UsesAreLimited`, inductive together with the types
  because the conditional update tests the count it increments; `ApprovalPaysOnce`
  (`PaidOnce`), for every call of the module, failures and crashes included, in behaviours in which no step writes
  another status over an approved one (`StaysApproved`), which only a receipt or a rejection that read the request before
  it was approved does. Its invariant `PaidInv`
  says that a request is paid or has one handler about to pay it only if it is marked
  approved, and never both; at most one handler ever is past the mark. With one handler
  at a time (`OneHandler`), failures and restarts included, `OneAtATimeIsRight` refines
  `TopUpRequest`: by `Undisturbed`, what a handler loaded is still true when it decides or pays,
  and its other steps decide and pay nothing (`Aside`). `BonusesAreExplained`, wherever codes are not
  deleted: `BonusInv` counts, for each request, the goroutines that have recorded a redemption and
  not yet granted it, and for each code those that have claimed a use and not yet recorded it; bonuses and
  granters together are at most the redemptions, redemptions and recorders at most the uses. `ApprovalsAreInHand`
  is the safety half of `ApprovedIsPaid`: an approved request that is
  not paid has a goroutine that is going to pay it, or is one of `dropped`. It needs no assumption about receipts,
  rejections or failures.
* `TrafficWriterProofs`: `Typed`; `AtMostOneWriter`; `NobodyAbandoned` and
  `AnswersAreTrue`; `SerialisedWhileRunning`, because no submitter applies a write itself
  before a generation is cancelled (`NoDetour`). The first invariant, `Generations`, says that only the generation the
  package names has a running writer, that a writer drains only when cancelled and leaves
  an empty queue, and that a submitter waits for room only in a writer that has not been
  cancelled - which holds because it keeps the mutex `Stop` needs. The second, `Answers`,
  follows a request: it is in one queue or one writer's hand, once, while its submitter waits
  for that very generation (`Pending`); who waits has an answer or such a request (`Served`);
  and the effects so far are those reported or about to be (`Counted`).
* `ShopBillingProofs`: `Typed`; `NoClientUnbilled` (`EveryClientBilled`), crashes and failures
  included: the exceptions, in `orphans`, are part of the property; `RowsTellWhatWasDebited` (`BooksMatchLedger`) and the refinement
  `BillingIsPayAsYouGo` for one biller, no crash and no lost update of a row - exactly what
  the runs below "Also violated" need to break them. Every step either makes or deletes a config or
  leaves rows and clients in being (`StepKinds`), and either counts money or leaves it
  alone (`QuietSteps`), so each invariant looks at six or seven actions. `OneMaker`: whoever makes a
  config has its name to itself until the row is there. `ClientsKnown`: a client has a row or
  an owner about to insert one. `Books`: a bill starts from what was debited
  (`BillRight`), and between a debit and its booking just one item differs from the row
  (`Booking`). `Pricing`: what is owed is the price of a meter reading not above the
  traffic ever moved.
* `LiveDataProofs`: `Typed`; `OneSocketAtATime` and `NeverSilent`; `OwnChangesStay`. The socket's
  invariant `SocketInv` adds that a reconnect timer is set only while `this.ws` is none or
  dead - which is what makes its callback safe; a page's step is a socket step or leaves the
  socket alone (`PageSteps`). `Told` says that what a request has read is at least
  the newest change the page was told had succeeded.
* `XrayProofs`, about the core: `Typed`, with the mutual exclusion of callers; `StoppedByHand`, `RestartsDoNotGoBack`,
  `CoreIsAsRecorded`, `IntendedStopsAreSilent`, `DisabledAreInHand`. A step is that of the caller inside the lock or somebody
  else's, and the latter leaves marks, snapshot and process alone but for a crash and what the API
  pushes (`ElsewhereLeavesAlone`, `ElsewhereTouchesCore`); so each argument has one lemma for the caller and one for
  everybody else. `StopMarks`: the manual mark is set exactly if the caller inside is
  stopping, and one that stops never reaches the steps that start. `Fresh`: what the caller inside has read lies between snapshot and database. A process that was told to stop and is still there is the one
  exception `ManualStopHolds` has. `Patched`:
  the core serves the snapshot until a hot apply begins, and during it the new configuration
  but for the calls still to be made (`Halfway`). `Alarms`: a
  process the panel stops is marked before it exits. `DisabledAreInHand` is the safety half of
  `DisabledAreCutOff`: sessions end with the process (`Owing`), so while one is owed the core lives, the job's forced
  restart can neither find nothing to do nor apply hot, and whoever else stops the core ends the session earlier.
  It claims nothing once a read or a stop has failed (`excused`).
* `XrayProofs`, about the page that edits the core's template: `PageTyped`; `TextIsShown`;
  `SavesAreNotReverted`, because what the page was told was stored is at most what the server holds, and
  a fetch is sent again when a save is acknowledged (`VersionInv`); `ObservatoriesFollow`; `TargetsFollow`. The
  templates shown, stored, being saved and being fetched are all in order, since any of them may become the one
  that is shown, and each argument says in which respect. `ObservatoryInv`: the observatories fit (`Fit`).
  Edits of outbounds and rules keep the balancers' strategies, renames included (`RenamedFits`), and edits of
  balancers match the observatories whatever they were (`SyncedFits`), at rows that are gone too (`PlacedRows`).
  `TagsInv`: the schema's shape, and no two balancers with one tag (`Distinct`), which the balancer dialog keeps
  because it compares with the rows there are now. The outbound dialog compares with the rows there were when it was
  opened, so nothing keeps outbounds apart, and `TargetsKept` says nothing while two have one tag, nor of a row
  without a tag. `Followed` says what a rename does to every row, and `PlacedAt` which rows a dialog
  confirmed on a row leaves where they were. `SetsAreListable` (the rules `ruleSetter`
  keeps have an order) is an induction over finite sets of positions, argued from a least counterexample. The assumptions are
  those XraySettings makes of stored configurations: typed, observatories that fit, balancer tags apart.
* `InboundFormProofs`: `Typed`; `NoHiddenRefusal` (`AlwaysParses`), `StoredRowsFit` (`StreamFitsProtocol`),
  `EditingKeepsClients`, `LateNodesDoNotClobber`. `FitInv` relates stream, security, slices and protocol in the form
  as well as in the row the server keeps, so that each handler is looked at on its own; `ClientInv` says
  that the credential of its protocol is the one the form was opened with, `NodeInv` that a strategy nobody chose goes with its node.
  The exceptions - the list's row, ids that are not UUIDs, nodes that failed - are part of the properties.
* `ClientsPageProofs`: `Typed`; `NoSecondEntries`, `CredentialsAreKept`, `SavesWhatIsShown`. `Known` adds to
  the types that no two rows have one e-mail and that a dialog, its client and its save are of the same kind. `HydrateInv`: an
  answer on its way still tells the truth about a client nobody else wrote. `DialogInv`: the client a dialog was
  opened for is as stored, but for inbounds that a save is changing or a failed one may have changed (`Shown`).
  `OursInv`: the attach of a save knows a client nobody else wrote as it is, and has put it wherever the save wants it
  but where it has still to append. For `NoSecondEntries` an attach that has had no other beside it appends only where the
  client is not. `SaveInv`: of the
  requests of a save, those made have been carried out (`Written`) and those left will finish it (`Going`).

Each proof is a module that extends the component, has one lemma per action or group of actions and
conjunct they can disturb, and ends in a PTL step.

Every invariant and every action property the runs check is proved for any constants the modules' assumptions
allow, where named above without crashes or lost updates. Only model-checked: liveness under fairness;
`ApprovalsAreInHand` and `DisabledAreInHand` prove the safety halves of two of these properties.
No module has a recursive operator.

## Plan

Done: the modules above. In this order:

1. `AddVolume` and the traffic cap in `ShopBilling`.
2. `ResellerEnforcement`: quotas, suspension, release, reset, last super-admin.
3. Share links: link and form as records, checked for round trips.
4. `LocalTraffic`, composed with `TrafficWriter`; renewals.
5. `NodeSync`: dirty mark, reconcile, snapshot merge, tombstones.
6. `MtprotoManager`, `SalesBotLifecycle`, `EventBus`; groups, hosts and nodes pages.

Runs stay few: one passing run per module and question, two processes of each kind.

## Not modelled, and why

Parsing and generating Xray, Clash and share-link documents, HTTP plumbing, settings,
translations, Telegram wording, tables, charts and the installers keep no state whose
interleavings matter. The settings, shop and reseller pages are forms over one document
each. `generated/schemas.ts` and the endpoint documentation are data. Money is an integer in the code and here; 64-bit
overflow is out of reach of the amounts the settings allow (`shop.go:175-182`). Ledger and discount listings
only read. In the server's modules a client's details (UUID, flow, limits) are data: a client is absent, on or off.
