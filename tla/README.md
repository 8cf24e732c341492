# Verification of the company operating system

TLA+ modules about the code in `src/`, the TLC configurations that check them on
small instances, and proofs checked by the TLAPS proof system. Line numbers refer
to `src/`; `PROJECT.json` maps every definition to the lines it stands for (those of
`BridgeFamilies`, which only choose the definition of a family, to the handler of one;
the lines of the others are at the definitions they choose).

Run from this directory: `tlc -config MCBridgeCommand.cfg MCBridgeCommand` for a run
(section 3 pairs configurations and modules), `tlapm BridgeCommandProofs.tla` for
the proofs of a module.

## 1. Inventory

The program is a company system (ERP) that exists in two generations over the same
PostgreSQL tables. The MoonBit one is a domain library of immutable values
(`foundation`, `finance`, `operations`, `investment`, `intelligence`), persistence
under it (`persistence`), a planning adapter (`integration`), offline migration
(`migration`), and, on top, the native HTTP service
(`cmd/postgres_company_service`) behind a session gateway
(`cmd/postgres_company_gateway`). The Python one is the bridge it replaces
(`scripts/company_postgres_service.py`): a threaded HTTP server over a pool of
psql processes with the whole command and read surface of the ERP, and the tools
that stage, promote and compare the data of the source ERP
(`scripts/company_*_apply.py`, `company_sqlite_*`, `company_migration_cutover_gate`).
The repository keeps the bridge as "frozen comparison evidence"
(`docs/IMPLEMENTATION_STATUS.md:142-143`), that is, as the reference the native ports
are compared with, and so its behaviour is worth a model of its own.

| Component | State | Operations | Interacts by | Hard behaviour | Correct when |
|---|---|---|---|---|---|
| Company command pipeline (`cmd/postgres_company_service/main.mbt`) | `company_record` (receipts, audit events), `company_aggregate_projection` (revisions) | one command per HTTP request: create, update, submit, approve, reject, resubmit, void, delete, confirm, review, blacklist, effect | short `psql` processes (`persistence/postgres/process.mbt`); tables shared by all requests | nothing is held between the statements of a request; three inserts that each give way to a conflict; psql cut off at 120 s with the transaction still queued; client retries | revisions never fork or skip, decisions stand, replies are true, the whole acts as one indivisible register |
| Bridge: commands (`scripts/company_postgres_service.py`) | the same two tables, with receipts and advisory locks in the database | 34 families of commands, from expense claims to notification messages | a session of the pool, statement by statement | checks before the transaction, reads inside it without a lock in some families, one retry on a new session, a killed session that still commits, midnight | one key stands for one revision, an accepted reply is about one's own command, a refusal is final, a retry is replayed |
| Bridge: server, pool, routes (same file) | the queue of sessions, the processes and their pipes | take, start, write, read to the marker, time out, replace, put back, close | worker threads share the queue; some two hundred routes | a hung or dead psql, rows left in a pipe, everybody waiting, shutdown | no session lost or shared, no foreign rows, every request answered but where a process blocks its thread, every endpoint reachable |
| Bridge: read model (same file) | staged rows of the source ERP, promoted aggregates, local revisions | lists, pages, queues, reports, dashboards | computed from the three layers at every request | rows are staged, promoted and commanded in any order; each read has filters of its own | the reads agree with each other; decisions and read marks stay |
| Migration and rehearsal scripts (`scripts/company_postgres_*_apply.py`, `company_sqlite_*.py`, parity scripts, cutover gate) | raw rows, promoted revisions, links, receipts; SQLite copies; reports in a work directory | stage, promote, link, compare, back up, judge | concurrent operators, the service, reports of earlier passes | a tool killed between rows and receipt, run again, beside another; stale reports | receipts attest what is stored, retries end in a receipt, ready means this pass is in |
| Durable record store (`persistence/store`) | live, pending and backup snapshot files; the opened value | open, transact, backup, restore | files | crash or error between or inside the writes | nothing acknowledged is lost silently, batches stay whole |
| Project-plan adapter (`integration/moonflow_adapter`) | five immutable output files per attempt; the input artifacts | execute, reconcile | several processes over one workspace | races between runs, stops half way, inputs edited during a run | one result per idempotency key, every result backed by its trail |
| Access directory (`foundation/access`, `foundation/identity.mbt`) | roles, assignments, separation rules, delegations; grants in circulation | add, assign, revoke, delegate, issue | grants are values others keep | rules and assignments in any order; grants outlive their source | no pair of assignments defeats a rule, no grant exceeds its source |
| Approval workflow (`operations/workflow`) | process instance: step, status, actions | start, decide, decide through a delegation | takes grants of the directory | directory changes between decisions; Int32 weights | quorums are real, one voice per actor, decisions stand |
| Commitments, budget, settlement (`operations/commitment`, `operations/settlement`, `finance/budget.mbt`) | commitment and settlement values, budget line, reservations | submit, approve, perform, cancel; reserve, consume, release; settle | budget link, accounting link | a value that was overtaken presented once more | the budget is never overrun |
| Accounting book and event log (`finance/accounting`, `finance/ledger.mbt`) | accounts, periods, entries, events | open, post, soft-close, close, reopen, append | events built by commitments and settlements | posting against closing; one source in two journals | one entry and event per source, backed by what was performed |
| Treasury (`finance/treasury`) | cash account, movements, bank statements | request, approve, release, cancel, import, match, reconcile, trace | accounting events by reference | stale movement values presented again; same id twice | cash moves once, reconciled statements are cash that moved |
| Other domain values (`finance/*`, `operations/*`, `investment`), persistence schema, cash plans | one immutable value each | guarded transitions | accounting links | long sequences of calls | lifecycles are respected |
| Intelligence, native migration and tools, gateways, frontend, smoke scripts | none shared, or sessions | analysis, translation, proxying, reports | files, HTTP | none concurrent over state of their own | tests reach them |

`PROJECT.json` lists these parts with their status and, for those left out, the
reason; its `hazards` list names the lines where each hard behaviour bites.

## 2. Modules

Tables and constants first, then one module per component with its state machine and
properties, then the modules that compose components. Before a definition that a
plausible bug would change stand its *fault forms* (`Name_Fault`, commented `Fault:`),
which the properties must reject.

| Module | Models | Builds on |
|---|---|---|
| `CommandRows` | the lifecycle tables of nine families of the native service; revisions and what a command writes | |
| `CommandRegister` | abstract specification: read, check and append in one step | `CommandRows` |
| `CompanyCommand` | the request pipeline of the native service | `CommandRows`; implements `CommandRegister` |
| `BridgeTables` | what a family of the bridge consists of | |
| `BridgeProcurement`, `BridgeCommercial`, `BridgeAdministration` | the tables of its 34 families | `BridgeTables` |
| `BridgeFamilies` | one name per table, and the states commands can bring a record to | the three above |
| `BridgeRegister` | abstract specification: one whole revision and its receipt per key | `BridgeFamilies` |
| `BridgeCommand` | a command of the bridge, statement by statement | `BridgeFamilies`; implements `BridgeRegister` |
| `BridgePool` | the sessions, their processes and pipes | |
| `BridgeRoutes` | the endpoints and how each answers | `BridgeFamilies` |
| `BridgeServer` | requests on threads: route, queries on the pool, reply, shutdown | `BridgePool`, `BridgeRoutes` |
| `BridgeLedger` | the three layers of rows the reads are computed from | `BridgeFamilies` |
| `BridgeSpendingViews`, `BridgeSupplierViews`, `BridgeWorkViews`, `BridgeCashViews`, `BridgeDashboards` | the reads, each the set of rows it answers with or is summed over | `BridgeLedger` and each other |
| `MigrationTarget` | the PostgreSQL tools, their crashes and repetitions, beside the service | |
| `MigrationRehearsal` | the SQLite rehearsal, the comparisons, the backup and the gate | `MigrationTarget` |
| `DurableStore` | the store value and its file-backed form | |
| `MoonflowAdapter` | the adapter's processes and files | |
| `AccessDirectory` | the directory and its grants | |
| `ApprovalWorkflow` | an approval instance together with the directory it draws on | `AccessDirectory` |
| `SpendControl`, `AccountingBook`, `Treasury` | commitments, budget and settlements; the book and its log; the account, its movements and statements | |
| `CompanyMoney` | the composition of the three, from the commitment to the bank statement | the three above |
| `*Proofs` | theorems (section 5) about `CompanyCommand`, `BridgeCommand`, `BridgeServer` with the ledger and all its reads, `DurableStore`, `MoonflowAdapter`, `ApprovalWorkflow` with `AccessDirectory`, `CompanyMoney`, and the migration (`MigrationProofs`) | the module named |
| `MC*` | the instances TLC checks | the module named |

### How the native command pipeline maps to the code

State: `rows` is `company_aggregate_projection`; `receipts` and `audits` are the
`company_record` rows of the two types; `phase`, `cmd`, `seen` and `reply` are the
local state of the task that serves a request. A step is one psql process or the
computation between two: `Receive` (a request arrives; the same command may arrive
again at any time), `Quote`/`RefuseApplication` (`payment_create_request` reads the
contract, before any receipt is looked for), `ReplayOrConflict`/`NoReceipt`
(`existing_expense_command`), `ReadLatest`, `Refuse`/`Admit` (the guards),
`Commit` (the transaction and the answer 200/201, whatever the inserts did),
`Orphan` and `LateCommit` (psql killed by its timeout while the server still runs
the transaction), `Fail`. The transaction takes a table lock, so it is one step;
its three `INSERT ... ON CONFLICT DO NOTHING` are `InsertReceipt`, `InsertRow` and
`InsertAudit`, each with the uniqueness constraints of
`scripts/postgres_target_schema.sql`.

The families share this pipeline and differ in tables and small predicates of
`CommandRows`, each a difference found in the code: the states and successor
states (`Guard`, `NextState`), who may act (`OwnerBound`: the applicant of a claim,
the creator of a plan; `ScopeBound`: a request that names the principal and scope of
the record), whether that is looked at before the state (`OwnerFirst`), whether
imported rows block a creation (`ProtectsImported`, `ChecksVisible`), and the order
of the statements: fund plans and dispatches read their aggregate before the receipt
and not at all for a creation (`ReadsFirst`), and the approval of a dispatch that
does not exist is refused on the spot (`MissDispatch`).

`Keys`, `Actors`, `Values` are opaque: a payload is one value, of which the amount
matters, and for some commands whether it is in `Favourable` (a revenue created as
received, a supplier reviewed as qualified or strategic, a marketing change that
names a state). `owner` is the record's applicant, principal and scope, or creator.
`KeyPerCommand` says whether clients mint a key per command (as the runtime documents
ask) or reuse keys at will.

### How the bridge's commands map to the code

Every command function of the bridge is a row of tables: where a creation takes its
identity from, what the clock fills in, the queries before the transaction (`Pre`:
look for the receipt, compare it, read the record, a related one, one of the same
code), the guard on the state that the read shows (`Shown`, `Admits`), the statements
of the transaction in order (`Txn`), what the transaction itself checks again
(`Rechecks`), and the state it leaves (`Leaves`). `BridgeCommand` runs a table:
`PreStep` and `PreReply` are one query and its outcome; `Lock`
(`pg_advisory_xact_lock`), `InsertKey` (the insert into `company_record`, which waits
for an uncommitted one under the same key), `Read`, `Number` (`max(revision) + 1`),
`Write` (the insert into the projection, which waits likewise and fails on a
duplicate) and `Commit` are the statements, each alone since PostgreSQL runs them
READ COMMITTED and other sessions commit between them. A failed statement or a time-out
(`AfterFailure`) runs the transaction once more on a new session (`PsqlPool.execute`,
lines 466-499), except in the families that call it themselves (`Single`). A killed
session is in `orphans`: it keeps its locks until the server notices
(`OrphanRollsBack`) and may still commit if COMMIT was the statement under way
(`OrphanCommits`).

A creation of milestones may bring several (`Batch`), which the code inserts in the
order of the client (6684-6706): besides its own the request inserts one that all such
requests name, before it or after it (`MilestoneBatch`). `Sibling` and `Beside` are its
number and its insert, on which two batches may wait for each other as each waits for the
milestone of the other (`Crossed`); PostgreSQL then ends one of them (`Deadlock`).

A request's data is one of `Bodies` and, where the code branches on it, a wish
(`wants`). `fit` stands for the related record (the contract of a payment, the tender of
an award), `day` for the clock.

### How the bridge's server maps to the code

`BridgePool`: `idle` is the queue of sessions, `running` those with a psql process,
`silent` those whose process no longer answers, `pipe` whose rows a session has still to
say, and `call` how far the query of each thread is. `Check` looks whether the pool is
closed; `Acquire` and `Exhaust` are `queue.get` with its deadline; `Submit` starts a
process unless one runs and writes the query to it (`NoProcess` when that fails);
`Receive` reads the rows up to the marker; `Fail` is the deadline, an SQL error or a
process that is gone, each of which discards the process and with it what its pipe still
held (`Discarded`). The deadline is set after the write and looked at between lines
(350-361), so a thread whose write does not fit the pipe of a silent process, or whose
process falls silent within a line (`Stall`), is "blocked": nothing but the end of the
process lets it go on. A process that outlives `terminate` and `kill` by a second each
makes `close` raise what nobody catches (330-341): the query, and with it the connection,
ends without a reply ("dropped", `Ending`); `Look`, `Put` and `End` are the way out, with the second run of a query
that failed (`Tried`); `Close` and `Die` strike between any two steps. `BridgeServer`
gives every endpoint its calls (the queries a handler makes, in order) and its outcomes
(`Treatments`): a request arrives on a thread (`Arrive`), makes its calls one by one
(`NextCall`, `Settle`, `Returned`) and is answered (`Reply`). `BridgeRoutes` has the
routes in the order of `do_GET`, `do_POST`, `do_PATCH` and `do_DELETE` with their
patterns.

### How the bridge's reads map to the code

`BridgeLedger` has three layers: `raw` (rows of the source as staged), `promoted`
(those that were also projected) and `local` (latest revisions of what commands
wrote). `Import` and `Promote` change them, and commands, of which `commands` has those
under way: `Undertake` is the look at the record before the transaction (and, for
`read_all`, at the messages of the user), `LookUp` what the transaction reads, `Store` its
insert, which comes after whatever was stored in between; `GiveUp` stands for any refusal
or failure. Which commands notice that another was stored meanwhile follows from their
transaction in `BridgeFamilies`: those with the lock of the record (`Locked`) and those
whose number was fixed before (`Fixed`, their insert would be a duplicate) do, the others,
suppliers and message marks among them, store over it. Guard and effect are those of
`BridgeFamilies`. A read is an operator on the layers, with the filters of its
function: which layer covers which, what it takes for deleted, paid, overdue. A figure
is the set of rows it is summed over, so that two figures agree exactly when their sets
do, whatever the amounts. Caps on the number of rows are left out. Some reads are
modelled and used by no property, as nothing else shows the same thing: budget pages
of expenses, awards of the source, the project lifecycle, placements, channels,
materials and campaigns, differences of versions, the approval pick list, fund
dispatches and the sales page.

### How the migration tools map to the code

`MigrationTarget`: an operator runs a tool on a file (`Start`). `Begin`, `Check` and
`Insert` are its first transaction, under the lock that the script takes (`Locks`; the
raw tool takes none); then come the hash of what is stored (`HashRows`), the receipt
(`FindReceipt`, `FileReceipt`) and its verification (`Verify`), each a query of its own.
`Crash` kills a tool between any two steps, and `Command` is the service that writes into
the same projection meanwhile. A hash is the set of rows it covers: equal sets, equal
hashes. `MigrationRehearsal`: a pass of `erp_migration_rehearsal.sh` takes the files of its
plan one after the other, for each the SQLite tool (`Apply`), the comparison of rows
(`CompareRows`), the tool once more (`Replay`) and, for links, the search for those of the
receipt (`Reconcile`), then `BackUp` and `Gate`; `Kill` ends it anywhere, and its reports stay
in the work directory for the next pass, under the name of their mapping, so that a pass
with the same mappings overwrites them. What the gate is told to count is the script's: the
numbers are written there, one for each mapping it was given (`Usual`, 767-850), and those
of promotions and links are passed on only if base, accounting and advance-offset mapping
are all given (`Compared`, 851-857); without the typed mapping it is not asked at all.

### How the others map

*DurableStore*: `files` what the three paths hold, `mem` the value the process
holds, `job` the file operation in progress. A write is two steps (`Truncate`,
`Fill`), so that `Crash` and `FileIo` strike with the file torn.
`AfterFill` is the order pending, live, remove of `transact`.

*MoonflowAdapter*: `files` by reference, `inputs` the input artifacts as they are
now, `runs` where each process stands. Creating and filling an output file are
separate (`Create`, `Fill`); `Compare` is `immutable_text_ref` on a file that
exists; `Stop` and `Edit` strike between any two steps.

*AccessDirectory*: `grants` is every grant value ever issued. The grants that
operations need (`rbac:...`) are themselves taken from `grants`.

*ApprovalWorkflow*: `instance` next to the directory's variables; `Next` is a step of
either. Weights wrap at `IntLimit` as Int32 does at 2^31.

*CompanyMoney*: the domain packages do not call each other; a caller brings their
values together. So `SpendControl`, `AccountingBook` and `Treasury` keep the budget
line, the book and its log, the account and the statements at their latest value, and
*every* commitment, reservation, settlement, event and movement that an operation ever
returned stays there to be presented again. A step of `CompanyMoney` is a step of one
of them; what one needs of another (a performed commitment to recognise, an event to
trace a line to) is looked up in the values of the other. The accounts of a journal are
an argument of each call (`postings`), so that the ledger and the log may be told of one
commitment under different ones.

## 3. Runs

| Run | Configuration, module | Question | Instance |
|---|---|---|---|
| `command_record` | `MCCommandRecord`, `MCCompanyCommand` | do revisions, receipts, audits and decisions of one record stay sound, in each native family, when commands race, are retried, time out and commit late? | 4 requests over 2 to 7 commands of one of 10 records (9 families, one supplier imported), a key each |
| `command_shared` | `MCCommandShared`, `MCCompanyCommand` | does the pipeline implement the register, do applications fit a contract revision that existed, is every request answered, with keys reused? | 3 requests over 7 commands of an imported and a local contract and an application, 2 keys |
| `lost_update` | `MCLostUpdate`, `MCCompanyCommand` | (violation) does an accepted command write its revision? | 3 requests on the expense claim |
| `bridge_commands` | `MCBridgeCommand` | does every family of the bridge implement its register; are replies true, refusals final, retries replayed; does nobody wait in a circle but two crossed batches? | 2 requests, 2 keys, 2 bodies in each of 34 families, from every state commands reach; one disturbance, two in eleven families |
| `bridge_server` | `BridgeServer` | is a session ever lost, shared or dirty, a request left hanging though its own thread is not blocked, an endpoint hidden? | 2 threads, 1 session, 2 deaths, 1 query of several, every endpoint, identifiers that are words of other routes |
| `bridge_records` | `MCBridgeRecords` | do the reads on contracts, applications, milestones, suppliers, tenders and splits agree, whatever order rows arrive in? | 8 small worlds of one or two rows a table, one or two records and one command under way, two in one world of suppliers; day 5 |
| `bridge_figures` | `MCBridgeFigures` | do the pages on work and the dashboards and reports on money agree; do decisions and read marks stay? | 16 small worlds, as above, two commands under way in the inbox; day 10 |
| `migration` | `MCMigration` | do receipts attest what is stored, does every retry end, is a store called ready only with every file of the pass in it? | 2 operators, 1 crash, 2 passes, 8 worlds of files; plans with and without the mappings that make the script count |
| `durable_store` | `MCDurableStore` | is anything acknowledged lost, or a batch split? | 3 faults, 2 schema versions |
| `moonflow` | `MCMoonflowAdapter` | one result per key, a complete trail, someone delivers? | 3 processes, 3 flows sharing a key or an attempt, 1 stop, 1 edit |
| `approval` | `MCApproval`, `MCApprovalWorkflow` | separation, ceilings, quorums, one voice, four eyes, while the directory changes? | 2 actors, 3 roles, 2 assignments, 1 rule, 1 delegation, 2 steps, Int wrapping at 4 |
| `treasury` | `MCTreasury` | is the budget held, do books and bank tell of what was performed, does cash move once? | 4 worlds: budgeting, bookkeeping, paying, moving; 2 to 4 values a table |

Sizes: `bridge_commands` about 1.8 million distinct states, `moonflow` 1.1 million,
`bridge_server` 847,000, `bridge_records` 568,000, `bridge_figures` 72,000, `migration`
41,000, the others 100,000 to 400,000; each within minutes.

### Why the bounds are enough

*Native commands.* A fork, a lost revision or a broken decision needs one request to
create the record, one to move it on and two that read the same revision: four
requests, which may also all be retries of one command. With a key per command,
requests on different records touch no common row, and a family's behaviour does not
depend on the others: `OneRecord` lets TLC follow the requests on one record at a time.
Keys only matter when two requests share one, so three requests suffice for reuse.

*Bridge commands.* The record starts in any state that commands bring it to
(`Reachable`, itself computed from the tables), so that no request is spent on getting
there; two requests then race on it, or one with its own second attempt and its own
killed session. A disturbance (a resend, a time-out, a related record that changes,
midnight) costs a factor of ten in states, so two in a row are left to eleven families
that between them have every kind of transaction: with and without the lock, number
read first or last, guard repeated or not, receipt compared or not.

*Server.* With one session and two threads every wait, every theft and every stale row
can happen; a thread serves one request of every endpoint. Two deaths let a process
fall silent under a thread and end, or the session be replaced and its next process go too. The theorems of section 5
remove the bounds on threads, sessions, deaths and queries.

*Reads.* Two reads disagree over one row, or over two of one identity in two layers; a
world holds all rows of a table that its reads can tell apart, one or two at a time,
and commands that cover, remove or precede them. Two commands under way at once, where one
may store over the other, are left to the worlds of suppliers and of messages, whose
properties are about what came before; elsewhere a command stores a latest revision
that another order of single commands leaves as well.

*Migration.* Two files of one run that overlap, differ, or number one aggregate
together; a crash anywhere; a command that takes an identity or a revision; two
passes, since the second finds what the first left.

*Store.* Losing the last copy takes two faults (the pending file torn, then the live
one); three let a fault also hit the recovery. Batches have several records so that a
part of one would show.

*Adapter.* The files of an attempt compete in pairs; the third process can find what
both left. One stop and one edit already meet every file and every read of a run;
since a torn file is never repaired, one stop is seen by all later runs.

*Approval.* Two actors, since every property speaks of at most two actions; weights up
to 3 with Int wrapping at 4, so that two claims at the step without assignees wrap.

*Money.* Two commitments that one line cannot both cover; a settlement with the identity
of its commitment; differences in a report that cancel; two movements of one id,
two of equal amounts, a balance that covers one outflow but not both until the inflow
is released, statements that share a movement or do not add up.

### Symmetry, deadlock, fairness

Requests, keys, bodies and adapter processes are interchangeable and are symmetry sets
where only safety is checked; `command_shared`, `bridge_server` and `migration` check
liveness and use none. Deadlock is checked in `bridge_commands` and `bridge_server`,
whose `Rest` is the only state they may stop in (in the second with threads that are
blocked for good): a thread that waits for a session for ever would be found, and so would
transactions that wait for each other with nothing else to happen; `SomeoneProceeds` also
finds those where a client or the clock could still do something. The other
instances can stop (all requests answered, all operations refused), so there it is
not checked.

`FairSpec` of `CompanyCommand` assumes weak fairness of the steps `Serve(t)` of
each request: the HTTP server schedules every accepted connection, and `run_sql`
returns or is cut off after 120 seconds (`persistence/postgres/process.mbt:108`).
`BridgeServer` assumes weak fairness of `Serve(q)`, the steps of each thread, the
time-outs among them: the wait for a session has a deadline (line 448) and so has the
wait for the next line (353-358). The write of a query and the rest of a line have none,
and of a thread that is blocked there nothing is assumed. `MigrationTarget` assumes that a tool that was started goes on
and that an operator starts a tool again whose file has no receipt: strong fairness,
as the lock it needs is taken and freed by others meanwhile. Nothing is assumed of
clients, of late commits, of deaths or of crashes.

## 4. What the runs show

*Native commands.* Revisions never fork (`NoFork`) and follow each other legally
(`LegalHistory`); accepted replies name a revision that exists or an event already
applied (`AcceptedIsSettled`); with a key per command each revision has its receipt
and audit event (`RevisionsTraceable`); an application fits a contract revision that
existed (`ApplicationsQuoted`); the pipeline implements the register; every request
is answered.

*Bridge commands.* Under one key at most one revision appears, whole, with its
receipt, computed from a revision of its record that admits the command, in the serial
families from the latest one (`Promise`). Accepted replies are about one's own command
(`AcceptedIsMine`), first refusals are final (`RefusalIsFinal`), accepted commands
without a generated identity or date are replayed when sent again (`RetryIsReplayed`, in
the families and types that look for the receipt first: see `AskedFirst`). Transactions
take the lock of the record, the key and the revision in this order, so that they do not
wait for each other in a circle, but for two batches of milestones that name the same ones
in opposite orders, of which PostgreSQL ends one (`SomeoneProceeds`).

*Bridge server.* No session is lost or shared and no transaction goes to more than two
(`SessionsAccounted`), no rows of another query are answered (`RowsAreMine`), every
request comes to an end unless its own thread is blocked for good by a process that
neither goes on nor ends (`Answered`; a request behind it gets its 503), and every endpoint
and every type of command is reached (`EveryRouteServes`).

*Bridge reads.* `SpendingAgrees`, `SuppliersAgree`, `WorkAgrees` and `FiguresAgree` say,
read by read, what equals, contains or excludes what, as far as the code has it so;
the places where it does not are listed below. A barred supplier becomes one that a
contract may be signed with again only by a command that had read it before it was barred
(`BarredStaysBarred`), what was decided on a warning stays decided (`DecisionsStay`),
messages are read by their readers only and stay read unless two commands to read all
of them crossed (`InboxMoves`).

*Migration.* The tables are as if tools and service took turns (`TablesSound`), receipts
attest what is stored (`ReceiptsAttest`), a file whose rows are in gets its receipt in
the end (`ReceiptRepaired`), and a store that the rehearsal calls ready has every file of
the pass with its receipt, and nothing else in the tables the gate was told to count, if
the files are of the size that the script has written down; what an earlier pass left in
the other tables goes unseen (`RehearsalTold`).

*The rest.* The durable store never opens short of an acknowledged record, reopens to the
candidate once the pending file is complete, survives one fault and keeps batches whole.
One key has one adapter result, with its trail; undisturbed runs of one request
never all fail. Grants never widen, decisions are sound, separation rules hold over pairs
of assignments, and separated steps are decided by two people except through the ways
`FourEyes` names. The budget is held, ledger and log tell of what was performed or paid,
once and for the same amount, statements of cash that moved, and cash moves once per
movement id.

The disagreement between code and documents that a run shows (`findings` in
`PROJECT.json`): `lost_update`, of two commands on one revision the loser is answered
200 with a revision it did not write; the document says each accepted command writes
one.

### Further disagreements met while modelling

The properties above are stated so that they hold beside these; each can be read off the
definition named by its line.

- A key used for two different commands at once is accepted twice by the native service
  (lookup `main.mbt:1649`, insert `:1805`); "the second gets 409"
  (`docs/ERP_EXPENSE_RUNTIME_VERTICAL.md:46-48`).
- In the bridge an approval and a rejection of one expense may both be accepted: state and
  number are read by two statements without a lock (`company_postgres_service.py:22997`,
  `:23046`), against the same document.
- A bridge command with a date left to the clock, sent again after midnight, is not the
  stored request any more and is refused (`:18339`); `docs/ERP_FUND_RUNTIME_AUDIT.md:42`
  promises the replay.
- `execute_read` keeps, it says, "command execution strictly single-attempt" (`:466-470`);
  most commands run through it (`query_lines`, `:481`) and are tried twice. The receipt
  makes the second run harmless.
- A separation rule is accepted while an actor holds both sides through one role
  (`access.mbt:372`, `docs/AUTHORITY_CONTROLS.md:10`).
- Two statements match one movement (`statement.mbt:341`,
  `docs/IMPLEMENTATION_STATUS.md:264`).
- A run stopped between creating and filling a file leaves one that reconcile can neither
  parse nor replace (`io.mbt:115`, `docs/MOONFLOW_PROJECT_PLAN.md:78-81`).
- A failed write of the pending file leaves it torn, and open refuses the store although
  the live file is intact (`durable.mbt:63`, comment at 52-55).

### Observations: commands

- A retry that overtakes its original answers with its own result, not the stored
  receipt. A fund plan created a second time is answered 201 without a revision
  (`main.mbt:12508`); a transition of a sales revenue moves the record to whatever
  principal and scope the request names.
- Preferences, dictionary options and projects replay a stored result without comparing
  the request; dictionary options, report templates and warnings answer a racing request
  under the same key from someone else's receipt. A report template created and
  deleted under one key replays the creation.
- Codes that must be unique are looked for before the transaction, so that two keys may
  both pass (`service.py:11391`). Milestone, supplier, subscription and dynamic-cost
  transactions do not look at the state again; the related record (the supplier of an award
  `:5610`, the contract of a payment, the sale of a receivable) may have changed.
- Task reports and plan tasks are guarded before the receipt, so that a retry of an
  accepted one is refused (`:10285-10300`, `:22629`). After an answer that nobody
  knows, a refusal may hide one's own late commit.
- A marketing update stores any state it is given. The amount check of payments counts
  imported applications only, as does the native one (`main.mbt:2690`). The native search
  for imported rows ends after 500 (`main.mbt:13608`).
- `read_all` lists and merges before it takes the lock (`:20555-20574`) and inserts that
  list under it (`:20635-20639`): of two at once the older list may be stored last, and a
  message that was read is unread again until the next one.
- A supplier command reads the payload (`:5213-5217`) and the number (`:5261-5263`) with two
  statements and no lock: an update that saw `active` while a blacklisting commits stores
  `active` after it, and contracts may be signed with the supplier again.
- Two creations of milestones under different keys that name the same milestones in opposite
  orders wait for each other (`:6684-6706`) until PostgreSQL ends one, which `query_lines`
  tries again.
- `projects(pool, id, ...)` limits the rows before it looks for the identity, and the
  project commands ask for one row (`:15728`).

### Observations: server

- The deadline of a query is set after it was written and flushed (`:350-353`), and a line
  is read to its end without one (`:361`): a process that stops reading, or stops within a
  line, keeps its thread and its session. `close` waits a second after `terminate` and one
  after `kill` (`:330-341`); a process that outlives both raises `TimeoutExpired`, which no
  handler catches, and the client's connection ends without a reply.
- Closing the pool while a thread has a session leaks its process (`:457`); an exhausted
  pool is asked once more. A command that committed is answered 503 when its alias fails
  to read the record again.
- `plan/tasks/{id}/report` answers 200 and `delivery/tasks/{id}/report` 201; a number that
  does not parse is answered 503; the 404 of an unknown PATCH comes before authorization.

### Observations: reads

- "Paid" in the contract list counts fully paid applications, in source list and reports
  partly paid ones too. Dashboards and cash flow see staged rows only, not commands. A
  local contract that was deleted shows the imported one again; an imported milestone with
  a local revision is listed and counted twice; the count of milestones in the list leaves
  out local ones that the page shows; a staged row that was not promoted and a local
  record of one identity are both in the source list.
- Deleted imported tasks stay in plan lists and not in project counts. Supplier statistics
  take a missing `enabled` as no, the list as yes; an empty short name matches contracts
  without a supplier; a disabled draft can be previewed as one to sign with. The gap alert
  looks for a revenue state that nothing sets. `f_balance` leaves out what is being
  approved. Overview, KPI and the second group dashboard count deleted contracts and
  applications, the third does not; KPI ignores "overdue" for key nodes; "this month's
  plan" of the project KPI is always 0 (`:15161-15169`); the third group dashboard divides
  by 10,000 what its leaves take as divided. Channels count deleted placements. The budget
  check judges each split alone. An approval without actions is shown to everyone, one
  without assignees to nobody who filters. Pages made of several queries are not one
  snapshot.

### Observations: migration

- The raw tool takes no lock: two snapshots race silently, rows are skipped and the
  receipt still says applied. Running it again after any local command ends in a receipt
  conflict or a failed verification (`target_apply.py:202`).
- A second promotion file of one cohort commits its rows before its receipt is refused. In
  SQLite the raw tool commits before it counts, so that a second, disjoint snapshot spoils
  the work directory.
- A pass without the accounting or the advance-offset mapping has only the raw rows
  counted (`erp_migration_rehearsal.sh:854-857`, `cutover_gate.py:410-412`): in a work
  directory that is used again it can be called ready over promotions, links and reports
  of an earlier pass. A pass without the typed mapping leaves the earlier verdict there.
- The gate does not tie parity reports to the snapshot and promotion files, reads reports
  that earlier passes left, and on an error leaves the previous verdict where it was. The
  shell port of the SQLite tools does plan and apply in separate calls, the Python one in
  one transaction. SQLite parity compares keys, cross parity contents too.

### Observations: money and adapter

- The accounts of a journal are given with each call (`accounting.mbt:11-15`,
  `settlement.mbt:163-167`) and nothing compares them: the ledger and the event log can hold
  one commitment under different accounts.
- Settlements are measured against their commitment one by one and may exceed it together
  (`settlement.mbt:65`); movements are not summed against the settlement they name.
  A commitment can reserve more than once; a reservation can be consumed or given back
  twice and then draws on others' (the line still holds). A performed value of a commitment
  cancelled since can be recognised and settled. `reconcile_to_ledger` looks at the source
  identity, not its type, in whatever events the caller presents. The balance of a report
  is over totals, so opposite differences cancel; ledger entries do not record their
  period; an ordinary close needs no report. Balances near the largest Int64 wrap
  (`treasury.mbt:226`).
- A pending file left by an interrupted transaction outlives a restore and is what opens
  next. Two processes on one store path overwrite each other (`durable.mbt:26`). A plan
  request edited between the digest check (`execution.mbt:230`) and its second read
  (`:233`), to one that names the same evidence, is planned under the old digest.

## 5. Proofs

Theorems hold for every value of the constants, from the ASSUMEs of the modules and the
hypotheses a theorem states. TLC evaluates both in the runs: the hypotheses are ASSUMEs of
`MCBridgeFigures`, `MCBridgeRecords`, `MCDurableStore` and `MCMoonflowAdapter`, but for
`KeyPerCommand`, of which below. Every safety proof has the same shape: an inductive
invariant, that `Init` establishes it, that each action preserves it, and that it implies
the property.

| Module | Theorems | Says for every instance |
|---|---|---|
| `CompanyCommandProofs` | `TypeCorrect`, `NoForkHolds`, `LegalHistoryHolds`, `StoreIsAppendOnly`, `DecisionsStandHolds`, `Refinement`, `AcceptedIsSettledHolds`, `RevisionsTraceableHolds`, `ApplicationsQuotedHolds` | histories never fork, are legal, only grow, stop at a decision; the pipeline implements the register; an accepted reply is true; with a key per command a revision has its receipt and audit; an application fitted what its contract once had |
| `BridgeCommandProofs` | `OnceCorrect`, `AcceptedCorrect`, `RefusalIsFinalHolds`, `RetryIsReplayedHolds`, `SomeoneProceedsHolds`, `PromiseHolds` | one revision per key, exactly with its receipt; an accepted request has its own; a first refusal leaves nothing behind; an accepted command is not refused when repeated; transactions never wait in a circle but for two crossed batches; the bridge implements `BridgeRegister` |
| `BridgeServerProofs`, the pool | `SessionsCorrect`, `RowsCorrect` | sessions are neither lost nor shared; no query reads rows of another |
| `BridgeServerProofs`, the routes | `EveryRouteServesHolds` | of the routes that match a path one serves it, and every type of command of every family has a route, whatever words identifiers are |
| `BridgeServerProofs`, the reads | `LedgerTypeCorrect`, `SuppliersAgreeHolds`, `BarredStaysBarredHolds`, `SpendingAgreesHolds`, `InboxMovesHolds`, `DecisionsStayHolds`, `WorkAgreesHolds`, `FiguresAgreeHolds` | one row per identity in each layer; the reads on suppliers, spending, messages, warnings, work and money agree, for any rows in any order |
| `MigrationProofs` | `TablesSoundHolds`, `ReceiptsAttestHolds`, `RehearsalToldHolds` | the tables are as if tools and service had taken turns; receipts attest what is stored; a ready rehearsal holds its files, and nothing else in what the gate was told to count |
| `DurableStoreProofs` | `TypeCorrect`, `NoSilentLossHolds`, `CommitPointHolds`, `DataSurvivesHolds` | nothing acknowledged is lost silently, for any number of faults; one fault never takes the last copy, and none splits a batch |
| `MoonflowAdapterProofs` | `ImmutableCorrect`, `TrailCorrect`, `OneResultCorrect`, `ReconcileCorrect`, `SomeoneDeliversHolds` | files stay, trails are complete, one key has one result, racing executions do not all fail, for any number of runs, stops and edits |
| `ApprovalWorkflowProofs` | `DirTypeCorrect`, `SeparationCorrect`, `GrantsCorrect`, `IssuedFromForceCorrect`, `FourEyesCorrect`, `DirectoryCorrect`, `DecisionsCorrect` | separation over pairs of assignments; no grant is wider than its source; who decides two separated steps does so in one of three named ways; a step is passed with its weight, unopposed, each actor speaking once |
| `CompanyMoneyProofs` | `BudgetCorrect`, `BooksCorrect`, `PeriodsCorrect`, `LedgerTraceCorrect`, `BalanceCorrect`, `MoneyTypeCorrect`, `StatementsCorrect` | the budget is held, the books are backed, periods move on, the balance is every released movement once, a reconciled statement is cash that moved |

*Native pipeline.* `IInv` is `TypeOK /\ Grounded /\ Admitted /\ NoFork /\ Dense /\
LegalHistory`. `NoFork` and `LegalHistory` are not inductive: nothing in them says what a
pending transaction carries. `Grounded` says the revision a request read is still on
file, `Admitted` that a request about to commit has passed the guards on that revision,
whatever happened since. `Dense` says revisions have no gaps: so building on a revision
that is not the latest collides with an existing number, the primary key makes the insert
give way, and an insert that succeeds extends the latest one. `DecisionsStandHolds`
follows, since the guards admit nothing after a final state and that state is then the
latest; and `Refinement`, every step being a step of `CommandRegister` or a stutter: the
stale read is harmless because a transaction that succeeds has read the latest revision
after all. For the replies (`Settled`), an insert that gave way found a revision of that
number, or its own event, and revisions stay. `Traced` says of receipts, revisions and
audits which request they stem from, so that a receipt that gave way to another of its
key gave way to one of its own command; this needs `KeyPerCommand`, which is a
hypothesis: it is true in the run `command_record`, that checks the property, and false
in `command_shared`, that does not. `Quoted` carries the comparison with the contract's
amount from the quote to the commit. Assumed: each aggregate has a family, workloads are
commands, applications name a contract, amounts are naturals.

*Bridge commands.* What a transaction has inserted and not committed is visible to no
property, and everything depends on it. `IInv` therefore gives a session that took the
step "key" or "write" a *claim*, on its key or on a number of its record: no two
sessions, killed ones included, have the same one (`Apart`), and nothing stored meets it
(`Clear`). Waiting for uncommitted inserts (`KeyFree`, `RowFree`) is what makes a new
claim free; a session that begins again has dropped its claims, and its killed
predecessor keeps them until it ends; a commit meets only its own. `Known` says that a
receipt read before is still the one stored, and that an accepted request has its own:
receipts appear where there were none. That every family's transaction inserts a receipt
and a revision (`Programs`) is proved from the tables. `Telling` adds what a client may
conclude: every session, killed ones included, was started by a request that bears its
key (`Named`), a request that is sent again keeps what it asked for, and one that was
accepted before has its receipt; so a first refusal leaves nothing that could still
commit, and a repetition meets its own receipt. `Serving` adds what the register needs:
revisions of a record are numbered from one without a gap (`Dense`), at most one session
is under the lock of a record (`Alone`), and what a session read of its record is still
so when it inserts, because it holds the lock or because its number would be taken
(`Works`). Every step is then one of `BridgeRegister` or a stutter. That nobody waits in a
circle, but two batches, needs of `IInv` that what is left of a transaction is always the
end of one of seven programs, so that a session with the lock, the key or the revision
still ahead does not hold it (`Ahead`); and of the milestone that batches have in common
that only one session at a time has inserted it, at the latest number (`Lone`, inductive
beside the rest). Among the sessions the furthest then waits for nobody, or it waits for
a batch that waits for it (`FurthestProceeds`). Assumed: the families
are the code's, nothing (`None`) is neither a key, a request nor a record, and identities
that clients give, that keys yield and that are generated differ (`IdentityAssumption`).

*Bridge server.* `IInv` is that a session is idle once or in one call (`Holds`), that the
queue and the calls together have every session (`SessionsKept`), that a pipe only has
rows of the call that holds the session, and none while it is idle and its process runs
(`Piped`), and how far each request has come (`Turn`). The last is needed to know that a
call ends before the next begins. The count of sessions uses the library's facts on
finite cardinality. Assumed: deaths and queries are naturals, sessions are numbered,
`None` is none of them.

*Bridge routes.* The code tries routes in the order it spells them out, and the order
matters where one path matches several. `Alone` says of a group of routes tried together
that no path matches two of them; `Before` of two groups in turn that a route of the one
either differs from every route of the other in a word both spell out (`Apart`) or is
`Literal`, no part of it an identifier. Where groups are all alone and each before the
next ones, every path that is matched is served by one route (`OrderedServes`), for any
words that identifiers may be: what a literal route takes from a later one is its own
path and no other. The tables of the five methods are shown to be such, group by group
(`OrdersOrdered`), and that every type of every family is asked for by some route is shown
family by family (`FamiliesRouted`).

*Bridge reads.* That two reads agree is a fact about one state, and false of many: two
rows of one identity, a promotion whose row is gone, a local application that is paid
would each tear two pages apart. `LedgerInv` is what all of them need: one row per
identity in every table, finitely many, of those the world may hold (`RawInv`); one
latest revision per record (`LocalInv`); a promotion has its row, and if it is of a plan
or an application, its contract (`PromotedInv`); a local application is never paid
(`PaymentInv`). It is inductive under staging, promotion and any number of commands at once, what they
have found included. From
it the properties follow read by read; only two need more. Who marks *all* messages marks
those there are (`InboxInv`), so a later one arrives unread; and a family holds finitely
many records (`LocalFinite`), as the summaries count them. Sums are a chapter of their
own: `MapThenSumSet` is a fold, which is shown to add one element to the sum of the
others, whichever is taken first, by induction over the numbers or subsets for which the
claim holds *as a set*, as the prover cannot take a predicate. `GroupsAddUp` then says
that counting group by group counts the union once, which is what the badge and the
summaries of tasks do. That a project with a risk is among the top ones uses that no more
projects than there are can be ahead of it.

The worlds are arbitrary but for what the theorems name. Rows are records with an
identity, drafts have a state, and what is promoted is staged (`LedgerAssumption`).
`HasProcurement`, `HasSpending`, `HasInbox`, `HasFindings`, `HasWork` and `HasFigures`
say that the tables and families a property is about are there, that amounts, days and
times are integers, and that names are not the empty word that stands for no filter;
beyond that: a staged application has one of the four classes the service normalises it
to (`company_postgres_service.py:6926`), a drafted milestone names its contract, and a mark
of all messages names none. The source system's tables are taken as they come: a project
may have several active cost versions, several leaves of one code, several instances of a
stage, none of which this code rules out (it takes the first row it finds,
`company_postgres_service.py:13870`). The properties say what then still holds: the codes
of a project's cost dashboard are among its planned ones, and are all of them if one
version is active; a stage that is shown as begun is in the funnel, and the funnel has no
others if the stage has one instance.

*Migration.* `TargetInv`: what is stored is what a file or a command says (`Origin`),
every key once, revisions from one to some number (`Numbers`), and what a tool with the
lock has checked stays so until it inserts (`Locking`); what it says it did is there.
The raw tool takes no lock: its inserts
give way to rows of the same keys, and a receipt of it is of the rows that are there.
`RehearsalInv`: the SQLite store is a union of whole files, each with its receipt
(`LiteInv`), and a pass knows which files it has been through (`PassInv`), so that a store
called ready has those of its plan; where a table is counted and the number is that of the
files of the plan, it can have no row besides. Assumed (`WorldsAssumption`): files and commands are
well-formed, their rows distinguish themselves by keys, commands use identities of their
own.

*Store.* `Kept`: the opened value and each of the two files that parses hold everything
acknowledged. `Extends`: so does the store a pending job is writing, and a transaction
past its first write has the whole candidate in the pending file. A torn file only
removes a candidate for opening. `Spared` follows the one fault: before it the live file
is whole or being written from one that is. `Unsplit` says that every file and value has
all of a batch or nothing; `DataSurvivesHolds` assumes `Separate`, that batches of
different transactions share no record, without which a record of one would be a part of
the other; it is an ASSUME of the run.

*Adapter.* `Owned`: a torn file is being written by one run, or by none for ever, so that
only its owner ever fills it. `Reached`: what a run knows of the files it has passed
(`Knows`), that is, the identity under its key, its intent, its plan and its receipt are
what it would have written itself. A result is written by a run that knows all of them,
so its trail is complete; and two results under one key come from one attempt and one
plan, as both runs found the same identity, intent and plan on file. `OneDelivers` is for
runs that are not disturbed (`Alone`): then every file that is written has the one text
of the flow, a torn one has an owner that is still running, and a run that failed did so
over such a file, so the last owner has nobody to fail over. It assumes that there is a
run and that a flow's request names the evidence it is bound to (`NamesItsEvidence`).

*Directory and approval.* Assignments of one actor are checked against the rules by
`assign_role`, and rules against assignments by `add_sod_rule`, so `SeparationHolds` is
inductive with the shape of the directory; grants need what was in force when they were
issued. For `FourEyes`, every decision keeps the grant it was made with, so that two
decisions of one actor lead to two assignments, which separation forbids, or to one of
the ways named. For `DecisionsSound`, weights are whole, so that a sum that wrapped is
never larger than the sum (`WrapBounds`), a step is left only with its weight
(`QuorumReached`), and nobody speaks twice for more than assigned (`OneVoice`). Assumed:
delegations have distinct identifiers, who sets the directory up (`AdminGrants`) does not
decide, a workflow has steps, and assignees are finitely many with positive weights.

*Money.* Reserved and consumed never exceed the allocation, whatever values are presented
(`BudgetCorrect`); journals have the identity of their event, and events that of a
performed commitment or of a settlement (`JournalsBacked`), which makes an entry or log
line traceable (`BooksCorrect`, `LedgerTraceCorrect`). `CashInv` has the balance with the
set of identities applied, which nothing takes back: a movement is added when its
identity is new, and the sum of the released ones is independent of their order. A
statement is matched line by line to movements that were released, and its sum is theirs
(`StatementsSound`). Assumed: amounts are naturals (balances of statements integers),
callers give every commitment and every settlement an identity of its own, and a
statement has finitely many lines, no two of one identity (`from_statement`).

`DirTypeCorrect`, `IssuedFromForceCorrect`, `ImmutableCorrect`, `ReconcileCorrect`,
`PeriodsCorrect`, `LedgerTraceCorrect`, `OnceCorrect`, `TypeCorrect`, `MoneyTypeCorrect`,
`LedgerTypeCorrect`, `StoreIsAppendOnly` and `DecisionsStandHolds` state properties that
no run lists; they were checked by TLC when they were written. `SeparationCorrect` is of
the directory alone what `FourEyes` says of it beside an approval.

Only model-checked is liveness (`EveryRequestAnswered`, `Answered`, `ReceiptRepaired`),
which is outside the prover. Every other property of a run that passes is stated by a
theorem.

No module declares a RECURSIVE operator; sums are folds, and what is said of them is
proved as described above.

## 6. Limits of the models

- *Native commands.* Imported rows are what the lookup returns; that a fund plan needs an
  imported project is left out, as is the supplier rescore command. Each instance has one
  invoice direction and one marketing resource type; an invoice's first state (`issued` or
  `received`) is one state, and `completed` stands for every state a marketing change
  can name. `paid` payment applications do not occur: no command of the service sets
  `pay_state`, so the guard on it is always passed and left out.
- *Bridge commands.* Requests of one instance are of one family and on one record or on
  records derived from their keys; no command reads a record of another family but
  through `fit`. Attachments, provider settings, webhooks and exports, which call outside
  services, are left out. Of a batch of milestones two are inserted, its own and one that all
batches name, in either order; the second is not followed beyond its number (`Siblings`).
- *Bridge server.* Whether a query fits the pipe is left open, as is how much of a line was
  said. A request's body is present or not.
- *Bridge reads.* LIMITs, sorting, formatting and texts are left out; amounts are opaque,
  so nothing is said about rounding. A batch of milestones is one of them. A staged batch is rows one after another, so that a
  read may come between them. AI hub, policy radar, investment and asset views are left
  out.
- *Migration.* File formats and checks of single fields are left out: a row is valid. Of the
  script's two dozen mappings there are five (snapshot, base, typed, advance-offset and
  accounting), one of each effect on what the gate is asked.
- *Store.* One process at a time uses a path; the package has no lock and documents none.
- *Adapter.* The digest of the inputs is read as one step although it reads one file after
  another; what `prepare` computes from dates and work packages is opaque.
- *Directory.* One principal; identifiers are already validated.
- *Money.* Unbounded integers; one currency; authority is in the directory.
- Service-level evidence of workflows, cash plans of the domain library, payload text and
  wording of errors are left out.

### Not modelled

Subledgers, tax, financing, fixed assets, investment and the other domain values: immutable
values with guarded transitions and arithmetic, without interleavings. The read endpoints
of the native service, and the commands it has besides the nine families: ports of the
bridge's, which are modelled. The gateways, the read-model server and the frontend: I/O
and sessions in front of what is modelled. The native migration packages and tools: row
translation and reports. The smoke scripts are tests.

## 7. Plan

Done: (1) the native command pipeline with its register and proofs; (2) the durable store
with proofs; (3) the adapter; (4) directory and approval; (5) the composition from
commitment to bank statement; (6) the bridge: commands with their register, server and
pool, routes, reads; (7) migration and rehearsal; (8) proofs for the adapter, the
directory, the approval, the money, the bridge's server and commands; (9) proofs of the
remaining safety properties: replies and traces of the native pipeline, refusals,
repetitions and the register of the bridge, the reads, the migration, sums and quorums;
(10) the routes of the bridge and the absence of circular waits; hypotheses on a world that
the code does not justify dropped, and the others evaluated by TLC.

Next: the facts on sums and on rows that two proof modules state each for itself, once.
