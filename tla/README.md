# Skaffari in TLA+

Skaffari is a web application (C++, Qt, Cutelyst) that manages the domains,
user accounts and email addresses of a mail server built from Postfix, Cyrus
IMAP and pam-mysql. It writes the tables these programs read, it tells the
IMAP server which mailboxes and quotas to have, and it keeps a few derived
columns of its own. There is no layer between the handlers and the database:
almost every request is a sequence of autocommitted SQL statements and IMAP
commands, and several threads and processes run such sequences at the same
time. What can go wrong is therefore in the order of the statements, and this
is what the modules model.

Source paths below are relative to the repository.

## 1. Inventory

### Components

| component | state it keeps | operations | what is hard | what makes it correct |
|---|---|---|---|---|
| Account provisioning (`src/objects/account.cpp`, `src/accounteditor.cpp`, `DomainEditor::add_account`) | tables `accountuser` and `virtual`, `domain.accountcount`, mailboxes on the IMAP server | create, remove, check | no transactions, hand-written rollback, statements of two requests interleave, IMAP answers get lost, the process dies | no address delivers to an account that does not exist, no mailbox without an account, an address belongs to one account, the counter counts, a failed removal can be retried |
| Domain removal (`Domain::remove`) | table `domain` and everything above | sweep over the accounts, then one transaction | accounts change while the sweep runs; accounts that cannot be read | nothing of the domain is left, nothing else is touched |
| Storage quotas (same files, `Account::update`) | `accountuser.quota`, `domain.domainquota`, `domain.domainquotaused`, quotas on the IMAP server | create, remove, update, check, update of a domain | relative updates and recomputation of one column, values read early and used late, unsigned differences, two stores written one after the other | the used quota is the sum, the limit holds, the stores agree or are brought to agree |
| Administrators and sessions (`src/objects/adminaccount.cpp`, `src/admineditor.cpp`, `src/myaccount.cpp`, `src/login.cpp`, `src/logout.cpp`, `src/authstoresql.cpp`) | tables `adminuser`, `domainadmin`, the copy of the row in every session | login, logout, create, update, updateOwn, remove | permissions are decided by the copy in the session; the row is read by one statement and written by another | super users stay, assignments refer to what exists, user names are keys |
| Domain creation and update (`src/objects/domain.cpp`) | `domain`, `folder`, `domainadmin`, the transaction of the thread's connection | create, update | returns between BEGIN and COMMIT without ROLLBACK; parents chosen from a list read earlier | domains are whole or absent; parents exist and have no parent |
| Addresses and forwards (`Account::updateEmail` ... `changeKeepLocal`) | `virtual` | add, change, remove addresses; add, change, remove forwards; catch-all | Unicode and ACE twin rows; read-modify-write of the list of forwards; decisions by the account as it was read | twins stay together, an address has one owner, the last address stays, requests on forwards take effect at one moment |
| IMAP client (`src/imap/`) | one socket per request, a tag counter | login, mailbox, quota and folder commands | timeouts, late answers, a connection that ends | an answer is attributed to its command, success means done, every session ends |
| Autoconfig servers (`src/objects/autoconfigserver.cpp`, `src/autoconfig.cpp`, `src/autodiscover.cpp`) | tables `autoconfig`, `autoconfig_global`, a list in memcached | list, create, update, remove, answer a mail client | a read-through cache that writers invalidate, without a lock | what is cached is in the end what the table says |
| Configuration (`src/utils/skaffariconfig.cpp`, `src/settingseditor.cpp`) | table `options`, its values in memcached, values read at the start | get, set | write-through cache, a lock per process | a cached option is that of the table |
| Account status updater (`cmd/accountstatusupdater.cpp`) | `accountuser.status` | a sweep by a systemd timer | rows change while the sweep runs | the status follows the dates in the end |
| Setup and command line tools, import from web-cyradm (`cmd/`) | configuration file, schema, first super user, all tables | setup, import, test | a run breaks off at any step and is run again; a failed read is taken for an empty table | a successful run leaves what the test and the application need; repeating it helps |
| Validators, value classes, template plugins, templates, passwords | none between requests | pure functions and output | - | - |

Interaction: the controllers (`AccountEditor`, `DomainEditor`, `AdminEditor`,
`MyAccount`) read the object the request is about in their `base` action, put
it into the stash and call the methods of `Account`, `Domain` and
`AdminAccount`, which use it as it was then. These methods share nothing but
the database and the IMAP server. `Domain::remove` calls `Account::remove`.
`Skaffari::postFork` gives each thread a database connection of its own.

The hazards, each with the line where it bites and the properties that cover
it, are listed in `PROJECT.json`.

### What is modelled

| module | models |
|---|---|
| `AccountProvisioning` | accounts, addresses, mailboxes, the counter, domain removal |
| `AccountAddresses`, `ForwardLists` | addresses and forwards of an account; what the forwards promise |
| `DomainQuota` | quotas |
| `DomainTransactions` | creation, change and removal of domains in transactions that outlive requests |
| `AdminAccounts` | administrators and sessions |
| `SettingsCache` | options, autoconfig servers, memcached |
| `ImapSession` | one session with the IMAP server |
| `AccountStatus` | the status column, its updater and the check |
| `Installation` | setup, import, test |

The `..._proofs` modules hold the theorems, each about the module it is named after; the `MC...` modules define the instances of the runs.
`PROJECT.json` has the status of every component.

## 2. Plan

The modules above and the proofs of section 5 are done. What is left, in this order:

1. `Provisioning`: an abstract specification of accounts (an account exists, is
   absent, or is in transition) that `AccountProvisioning` refines.
2. The IMAP parser as a recursive function over short token sequences.

## 3. Modules

Every variable is named after the column or object it stands for. A request is
a record in `task[w]` (or `request[w]`) whose `pc` names the next statement, and
every action is one autocommitted statement or IMAP command together with the
local computation that follows it. `Begin...` actions are the controllers: what
they read of the database goes into the task.

### AccountProvisioning

* `CheckAlias` ... `CountUp`, `UndoVirtual`, `UndoAccount` are `Account::create`
  in the order of its statements (account.cpp:492-887), including the ACE twin
  of an address in an internationalised domain and the catch-all.
  `CreateMailbox` depends on `imapcreatemailbox`, constant `CreateMode`.
* `DeleteMailbox`, `DeleteVirtual`, `DeleteAccount`, `CountDown` are
  `Account::remove` (889-978). The last of them changes `accountcount` and
  `domainquotaused`, both unsigned, in one UPDATE (964): MySQL refuses the whole
  statement when either would go below 0. Quotas are not in this module, so
  `CountDown` may be refused at any time, and must be at a count of 0.
* `ListMailboxes`, `CreateMissing` are the part of `Account::check` that makes a
  missing mailbox (1446-1502).
* `BeginSweep`, `NextAccount`, `DropDomain` are `Domain::remove`
  (domain.cpp:787-953), which runs `Account::remove` as a sub-routine: the
  removal task remembers the sweep it belongs to.
* `Failure` is a failed statement (`OnError` follows the code's error path), a
  lost answer to an IMAP command, or the end of the process.
* `skewed` and `recreated` are history variables. The first records the domains
  whose counter a failure, a refused decrement, for whichever column, or a second
  deletion of the same account has left wrong, the second the users whose mailbox a
  check has made. `DomainQuota` has both columns and says when a decrement is refused:
  never, while requests follow one another and nothing fails (`UsedIsSum`).

### AccountAddresses, ForwardLists

Accounts that exist, and table `virtual` (account.cpp:1305-2214). `virtual` holds
the rows that are addresses, `forwardRows` the rows whose alias is a user name.
The task keeps the account as `AccountEditor::base` read it.

* `BeginAdd`, `BeginChange`, `BeginRemove`, `BeginCatchAll` start the requests of
  the forms. `CheckAddress` and `GetAddress` are the two SELECTs that look for the
  address; `InsertAddress`, `InsertAce`, `LinkAce`, `UndoAddress`, `UndoAce` are
  `addEmail`; `ChangeAddress` and `TwinFails` are the transaction of `updateEmail`,
  whose inner errors are ignored; `RemoveAce` and `RemoveAddress` are `removeEmail`;
  `DropCatchAll` ... `RemoveCatchAllAce` are the catch-all part of `Account::update`.
* `BeginAddForward` ... `BeginKeepLocal`, `QueryForwards` and `AddForward`,
  `RemoveForward`, `EditForward`, `ChangeKeepLocal` are the read-modify-write of the
  list of forwards.
* With `fqun` the name of an account is the address it was created with
  (account.cpp:500-503), and nothing keeps anybody from forwarding mail to it
  (accounteditor.cpp:742-745). `NameLocal` gives the local part of such names, and `Forward`
  may hold users. `ListOf` reads a list as `queryFowards` does (441-446), which leaves an
  account that forwards to nobody but itself with an empty list beside a row.
* `CreateAccount` and `RemoveVirtual`, `RemoveForwards`, `RemoveAccount` let accounts
  come and go.
* `ForwardLists` says what forwards are for an administrator: a set of addresses
  and a switch, changed by requests each of which takes effect at one moment or not
  at all. `Lists == INSTANCE ForwardLists WITH ...` maps the rows of the accounts to it
  whose names are no forwards (`PlainUser`).

### DomainQuota

One domain. `InsertAccount`, `CreateMailbox`, `SetNewQuota`, `CountUp`, `Undo`
are `Account::create`; `DeleteMailbox`, `SelectQuota`, `DeleteAccount`,
`CountDown` are `Account::remove`; `SetQuota`, `UpdateAccount`, `UpdateUsed` are
`Account::update`; `GetQuota`, `DefaultMailbox`, `DefaultAccount`, `CheckUsed`,
`Align` are `Account::check`. The quota that updates and checks work with is not
the row's: `AccountGet` (account.cpp:1171-1195) decides where it comes
from. With a usage in memcached (`cached`) it is the row's; without one it is the IMAP
server's answer, 0 if GETQUOTA fails, and the row's again if the login fails. `ListAccounts`
puts usages into memcached as `Account::list` does, `Expire` is memcached dropping one, and
`UseMemcached` is the option. `QuotaUnknown` is the second GETQUOTA, that of the check
itself, failing: it goes on with 0 (1502). `SetDomainQuota` is the committed transaction of
`Domain::update`. `Count` is the relative update of the counter and the sum,
`Recompute` the absolute one; the sum of an empty table is NULL and is refused.
`FreeQuota` is the unsigned difference of the controllers, modulo `Wrap`.

### DomainTransactions

`Domain::create`, `remove` and `update` (domain.cpp:333-1144), the transactions of
`AdminAccount`, and `AutoconfigServer` as an example of a request with one
autocommitted statement. `db` is what is committed; `conn[w]` is the connection of a
thread: whether a transaction is open, what it has written, whether it holds the
locks of a scan, and the snapshot its SELECTs see. `View` is what a SELECT returns,
`Current` what an INSERT or UPDATE meets, `Locked` who has to wait. `Commit`,
`Rollback` and `LeaveOpen` are the three ways a request leaves its transaction; the
`Fail...` actions take the one that the code's error path takes. `Begin(w)` commits
what the thread's last request left open, as `START TRANSACTION` does.

### AdminAccounts

`session[s]` is the copy of the row that login stores and every permission is
decided by. `CheckName` and `InsertAdmin`, `UpdateAdmin`, `DeleteAdmin`,
`UpdateOwn` are the statements or transactions of `AdminAccount`; foreign keys
and the unique index are part of them. The answers "You are not allowed to ..."
are the guards `MayGrant` and `MayManage`.

### SettingsCache

Tables `options`, `accountuser` (ids only) and `autoconfig_global`, and their copies in
memcached, `cached[k]` and `list`.

* `ReadOptions`, `LookOption`, `SelectOption`, `FillOption` are
  `SkaffariConfig::getDbOption` and the `value` templates on top of it
  (skaffariconfig.cpp:286-467); `SaveOptions`, `WriteOption`, `StoreOption` are
  `setDbOption`, called for each option of a page. `MayRead` and `MayWrite` are the
  `QReadWriteLock` of a process.
* `ShowServers`, `LookList`, `SelectList`, `FillList` are `AutoconfigServer::list`;
  `InsertServer`, `GetServer`, `UpdateServer`, `DeleteServer`, `DropList` the changes
  (autoconfigserver.cpp:191-402).
* `AskConfiguration`, `LookUpAddress`, `ReadProvider` are the answer to a mail client
  (autoconfig.cpp, autodiscover.cpp), which reads both.
* `Expire...` is memcached dropping a value; a call of memcached may be lost, a
  SELECT may fail (a default constructed value is cached then), a process may end.

### ImapSession

One request and its session (imap.cpp:38-1368). `Calls` is the sequence of methods
each request makes, with what it does when a method fails; a method becomes a
sequence of commands in `todo`, of which those whose result is already known are
skipped. `PlanDeletions` and `DeleteNext` are the loop of `deleteMailbox`
(imap.cpp:314-388): the folders and the name of the mailbox are fixed before it, with the
delimiter as it is known then, and the deepest folder goes first. `Folders` is the order in
which `createFolder` is called. `Send` writes a command with the tag of `GetTag`, `Receive` is `checkResponse`
on what the server has sent, `TimeOut` a wait that ended without the answer, after
which the session may go on with the next method. `Answer` and `Hangup` are the server
(external): answers come in order, late or never. `StaleParse` is what `ImapParser`
makes of a line that belongs to another answer. `WantedBy` is the quota a request works
with; for a check that is what `Account::get` took from the IMAP server or the row, which
`DomainQuota` models. `checkUnlimited` is a check that works with no quota, which a failed
GETQUOTA satisfies.

### AccountStatus

`row[a]` has the two dates and the column `status` that pam_mysql reads.
`Begin` is `AccountEditor::base`; `Update`, which writes both dates, and `Check` are the parts of
`Account::update` and `Account::check` that write dates and status
(account.cpp:1121-1217, 1303-1341, 1556-1604); `Select` and `UpdateStatus` are the run
of `skaffaricmd --update-account-status` (accountstatusupdater.cpp:37-120), `Abort`
its end at any point, `Tick` time.

### Installation

`file` is the configuration file, `base` the database: its tables, the version of
the schema, super users, domains with their counters, accounts. `tool` is the
program that runs, step by step: `OpenDatabase` ... `FinishSetup` are `Setup::exec` and
what it calls (cmd/setup.cpp:42-483), `ReadSource` ... `WriteConfiguration` are
`WebCyradmImporter::exec` (cmd/webcyradmimporter.cpp:51-880). `TestPasses` is
`Tester::exec`. `Break` ends a run anywhere. The SQL file is sent at once, MySQL commits
its statements one by one, and `Database::installDatabase` notices the error of the first
only (database.cpp:163). So `Installed(b, stop)` is what the file comes to when the server
refuses the tables `stop`, and the program goes on as after success. As shipped, the file
declares `virtual` with an AUTO_INCREMENT column that is no key (0.0.1.sql:114-123), which
MySQL refuses: `Refusable` has that server and one that accepts the table. `Stops` leaves open
whether the server looks at the definition of a table that exists.
`BreakInstallation` is a process that is killed within the file, or another statement of it
that fails, after which the program goes on. `Read` is a SELECT
that may fail, and a failed one counts as an empty result where the code says so.
`Rows`, `Row` and `Over` write and overwrite rows of a table, here and in
`DomainTransactions`; only the MC modules use module TLC, about which nothing can be proved.

## 4. Runs

| run | instance | what it shows |
|---|---|---|
| `Managed` | 2 workers, 2 users, 2 domains (one internationalised), ids 1 to 2 and one per worker, no failures; 2.7 million states | the inductive invariant; the counter is exact up to requests in progress; no stray address or mailbox; accounts are complete; addresses disappear only for a reason |
| `OneWorker` | 1 worker, 2 users, 2 local parts, 2 failures, fair; 43 thousand states | the counter up to recorded failures; after one failure no address is stray; addresses are unique when requests do not overlap; checking and removing again gets rid of every account in the end |
| `QuotaAlone` | 1 worker, 2 accounts, all requests, memcached, 2 failures; 447 thousand states | used quota is the sum and no decrement is refused, requests keep the limit, the stores agree, and after failures a change that asked the IMAP server, or a check that has the row's quota, brings them together |
| `QuotaRepair` | 2 workers, accounts created, changed and checked, memcached, 1 failure, fair; 268 thousand states | concurrent requests without failures never leave the used quota too low; checks that find the usages in memcached bring the stores together for good |
| `Admins` | 2 sessions, 2 super users, 1 further user name, ids 1 to 3, 2 passwords; 367 thousand states | the inductive invariant, super users stay and nobody else changes their passwords, assignments are consistent, keys are unique |
| `Addresses` | 1 worker, 2 users (one with a fully qualified name), 2 local parts, an internationalised home domain and another one, 2 spellings of a forward and the name of the second user as another, 1 failure; 1.1 million states | Unicode and ACE rows stay together, addresses have one owner, one row of forwards, the last address stays, and `ForwardLists` is implemented for the account nobody can forward to, whatever fails and whatever the other does |
| `Transactions` | 1 worker, 3 names (one internationalised), ids 1 to 4, 2 failures; 2.4 million states | domains are whole or absent although transactions stay open; parents exist and are top-level |
| `Caches` | 2 threads of a process, 2 options, 1 default account, 1 server, 2 changes, 1 failure, fair; 858 thousand states | a cached option is that of the table while nothing fails; everything cached is in the end what the tables say |
| `ImapSession` | all eight requests, a folder in a folder, a server without NAMESPACE, answers late, lost, or of another command; fair; 437 thousand states | a status is that of its command; success means done; every session ends |
| `Installation` | a new machine and one in use, a server that refuses table `virtual` and one that does not, all mechanisms, 2 names of super users, 1 imported domain, 3 accounts, 3 failures, fair; 261 thousand states | what a successful setup and import leave; repeated setups succeed |
| `AccountStatus` | 2 accounts, 1 worker, 2 time steps, 2 changes of both dates, 1 failure, fair; 194 thousand states | the status follows the dates in the end |

One run shows the program doing something else than its documentation says:

| run | what happens |
|---|---|
| `CheckStatus` | an account whose date has passed is checked, the check ends well and the column keeps its old status: `Account::get` fills the status in from the dates instead of reading it (account.cpp:1214), so `Account::check` finds no difference (1572); CHANGELOG:20 says the check updates it |

### With the constants changed

The properties name their conditions, and outside of them TLC finds the following.
These observations have no run of their own.

Accounts:

* two workers, `AliasUnique`: two creations that look for an address before either
  inserts it give it to two accounts (account.cpp, `CheckAlias`);
* two workers, a counter that is exact when all are idle: a removal overtakes the end
  of a creation, whose UPDATE comes last (account.cpp:964), and
  `accountcount` stays 1 without accounts;
* two workers, or one failure, a removed domain without leftovers: an account created
  while the sweep runs stays (domain.cpp:797; domain.h:429 promises that accounts and
  mailboxes go), and an account the sweep cannot read is skipped and the domain deleted all
  the same (domain.cpp:808);
* mode DoNotCreate and two workers: `AddressOfUser` fails, no mailbox keeps removal and
  creation apart. `AccountCountExact` holds there, too, with 2 failures.

Addresses:

* with two workers `ForwardsImplemented` fails, one of two requests that read the
  same list is lost;
* for an account whose name is an address (`fqun`) `OneForwardRow` and `ForwardsImplemented`
  would fail with one worker and no failure: forwarding mail to its own name leaves a row
  that holds only the account, which reads like no forwards, and the next forward is INSERTed
  as a second row (account.cpp:441-446, accounteditor.cpp:742-745). Both properties are about
  the other accounts; one with such a name runs beside them in `Addresses`.

Quotas:

* two workers that create and update, `UsedIsSum`: a recomputation counts an account's quota
  before its creation adds it (account.cpp:1411-1415, 1532), and with removals the decrement of line 964 can be
  refused because the used quota would go below 0, which leaves `accountcount` too high, too;
* `{create, domain}`: once the limit has been lowered below the sum, the unsigned free quota
  of domaineditor.cpp:574 wraps and every creation fits;
* two workers, `LimitKept`: two creations together exceed the limit; with one, only
  `Account::check` does, which gives the default quota whatever the limit is
  (the exception in `LimitKept`);
* `UsedNotTooLow` also holds for `{create, remove, domain}` with 3 accounts and for
  `{create, update, check, domain}` with 2, but not for removals
  together with updates or checks; theorem `NotTooLow` is about both of the former;
* `UseMemcached = FALSE`, `ChecksAlign`: its premise, the usages of all accounts in memcached,
  never holds while there are accounts, and without it the conclusion is false. A check takes the quota from
  the IMAP server, compares the server with itself (account.cpp:1188, 1541) and never finds
  that the row differs. Only a change of the account brings the two together then
  (`RequestsAlign`, which holds with and without memcached).

Transactions:

* two threads, `ParentsAreTop`: a form read before another request changed the parents
  makes a parent of a child. `TypeOK` and `WholeDomains` hold with two threads
  (two names, ids 1 to 3, 1 failure);
* `AnswersLast` fails: after `Domain::update` has returned with an open transaction
  (domain.cpp:1013), the next request of the thread answers with success, but its rows
  are only committed by the next BEGIN, and are lost if the server ends before.

Caches:

* two processes break `OptionCacheFresh`, since each has its own lock;
* nothing of the kind holds for the list of servers, where a reader can store an old list
  after the writer has dropped the cached one; it stays until it expires;
* a failed SELECT caches a default constructed value for the storage duration although
  the log says "using default" (skaffariconfig.cpp:352), and a removed default account
  stays cached as long.

IMAP:

* `StaleParse = {"endless"}` violates `SessionEnds`: the loop of imapparser.cpp:11-33 does not
  advance where neither a string nor a list nor a literal begins;
* a server that also has the capability NAMESPACE and `{"refused", "taken"}` violates
  `ReportedDone`: a late answer of another kind is read as the delimiter, the folders are
  listed under a wrong name, so none are found, and once a later NAMESPACE has been answered
  the mailbox itself is deleted; the request is reported as done although the folders remain
  (imap.cpp:325-388, 1217-1252). `NamesStay` names this combination, and the part of `ReportedDone`
  that is about removals has it as a condition. The run has the capability ID only, so the
  condition is true in it; with both capabilities the rest of the property passes (one line of
  the MC module). The theorem is about all capabilities.
* Two tests of `!_folder.isEmpty()` (imap.cpp:270, 622) are the wrong way round, and are
  modelled as they are.

Installation:

* with the SQL file as it is shipped, a setup on a new machine says it was successful and leaves
  no `virtual`, `systeminfo` or `options`, so no version: the test fails, the
  application cannot work, and setting up again changes nothing. An import there imports
  domains and accounts and fails at the addresses; where `virtual` has been made by other
  means it stays, because `clear()` ends at a table before it, and the import can succeed.
  `SetupUsable` says of a setup what is true there, too, and has the version as the condition of the rest;
* `PLAIN` and `CRAM-MD5`: the check of the login reads the answer the
  wrong way round (cmd/imap.cpp:223, 262), so credentials that are malformed are accepted.
  A setup with them passes the test, but `Startable` is violated, and is claimed for the
  other mechanisms only;
* `ImportReplaces` fails: the result of `clear()` is ignored
  (webcyradmimporter.cpp:433-440);
* `<>(last = "setup")` without `Torn` fails: an import that ends between dropping
  a table and installing again leaves a version number that setup believes;
* administrators keep the type numbers of web-cyradm, so an import leaves no super user
  and the next setup asks for one; a lost IMAP answer imports a quota of 0; accounts of
  a domain that was not found get domain id 0, that of the IMAP server's administrator.

Observations that need no model: nothing compares `accountcount` with `maxaccounts`; the form
offers a super user the type SuperUser, which `AdminAccount::create` then refuses
(adminaccount.cpp:235, the guard `MayGrant`); the old password that `updateOwn` asks for is the
one in the session, so a second session asks for the password before the last change
(adminaccount.cpp:672, `UpdateOwn` leaves `session` alone); "Settings successfully saved." is
shown although the errors of `setDbOption` are ignored; the importer looks for keys
of the PBKDF2 settings that `askPbkdf2Config` does not return, so they are 0;
`--import-setup` does nothing; nothing creates autoconfig servers of a domain.

### Bounds

`MaxId` bounds the number of rows that are inserted, `MaxFaults` the failures,
`MaxChanges` the changes, `MaxServer` the servers, `MaxTime` the clock. They are in guards
of the first action of a request, or of the environment's actions, so a request
that has begun is never cut short by a bound. In `DomainTransactions` the row
an INSERT makes needs an id, too, and creations that find none left do not begin.

Two workers are enough for the races above, since each is between two requests,
and two users with two ids let a user name be used again while a request still
holds the first row. Two domains are needed because a sweep must not touch the
other one, and one of them is internationalised so that twins occur. Quotas of
0 to 2 KiB distinguish unlimited, fitting, exceeding and default; `Wrap = 16` is
larger than any sum the instance reaches, so that only a negative difference
wraps, as with 2^54. Two spellings of one forward address and one other are needed
since the comparison ignores case. Four domain ids are two domains with their ACE rows,
or a parent with children. A folder inside a folder is the smallest mailbox for which the
order of deletion matters. Two changes and a failure let a reader of the cache span a
write and its loss. Three failures in `Installation` are a broken setup, a broken
import and one more.

Workers, users, local parts, names and sessions are symmetric where the run has no liveness
property and no domain or user is treated specially.

### Deadlock

Checking is off where the system may idle for ever: when the bound on insertions is
reached and all accounts are gone, when a session has ended. In `AccountStatus`,
`Installation` and `CheckStatus` it is on.

### Fairness

* `WF_vars(Step(w))`, `WF_vars(Continue(w))`: a worker that serves a request carries on
  with it, since every statement and every IMAP command has a timeout.
* `SF_vars(BeginRemove)` and `SF_vars(BeginCheck)`: the administrator who wants an account
  to be gone, or checked, tries again whenever it is possible; this is an assumption about
  people and is used by `OneWorker` and `QuotaRepair` only.
* `ImapSession`: `WF_vars(Client)` only. The server and the network may be silent.
* `Caches`: weak fairness of expiry, since entries are stored with a duration.
* `AccountStatus`: `WF_vars(Run)`. The timer starts the updater every half hour
  (skaffari-update-account-status.timer) and a run goes through its rows.
* `Installation`: a run goes on (weak), the operator starts the setup again until one
  succeeds and finds a free name for the super user sooner or later (strong).

Failures and all other requests are not fair.

## 5. Theorems

For every number of workers, users, domains, failures and identifiers
(`AccountProvisioning_proofs`):

* `TypeCorrect`: `TypeOK` is an invariant.
* `NoStrayAddress`, `NoStrayMailbox`: with managed mailboxes, no failure and no
  mailbox made by a check, no address and no mailbox belongs to an account that
  does not exist.
* `Inductive`: the invariant `IInv` they follow from. The properties are not
  inductive: a removal holds an id and a user name it read long ago, and a
  creation writes addresses for a row it inserted before. `RowsKeyed` says that
  ids and user names identify rows and that the id in a request is not another
  user's. `MailboxIsToken` says why the statements of a removal do not get
  between those of a creation: the mailbox is made after the last address, a
  removal must delete the mailbox before it deletes addresses, and the IMAP
  server lets only one request do so. While a creation has not made its mailbox
  there is none, no removal has passed it, and the row is there. The lemmas treat
  creations, removals and the rest in turn; steps that touch neither rows nor
  mailboxes are handled together (`QuietClean`).

For every number of sessions, names, passwords, domains and super users
(`AdminAccounts_proofs`):

* `SuperUsersRemain`: the super users are exactly those inserted at setup.
* `AssignmentsConsistent`, `KeysUnique`: assignments refer to existing domains
  and to domain managers that exist; ids and user names are keys.
* `Inductive`: `IInv`. `SuperUsersFixed` alone is not inductive, because a request
  that has passed the permission check writes a row later. `NoTaskOnSuperUser`
  closes the gap: the check compares the type in the session with the type of
  the row, no type exceeds that of a super user, so no request that is under way
  is about a super user or grants that type, whatever has happened to the
  session's own row since login. The counter of ids is above those of the setup, so no new
  administrator gets one of them.

For every number of threads, options, default accounts and servers
(`SettingsCache_proofs`):

* `TypeCorrect`: `TypeOK` is an invariant, with any number of processes and with
  failures; it contains that what is cached for a key is a value of that key.
* `CacheFresh`: if all threads belong to one process (`SingleProcess`, an
  assumption of the theorem and not of the module), `OptionCacheFresh` is an
  invariant. By itself it is not inductive: a reader stores what it selected some
  steps ago. The invariant `FreshInv` adds that no thread holds the write lock
  while another holds a lock (`Exclusive`), that what a reader is about to store is
  still the row's value (`FillsFresh`), that what a writer is about to store is what
  it has written (`StoresFresh`), and that a cached value that differs from the
  table is one such a writer is about to replace (`StaleIsWritten`). Each step of a
  reader or writer is one lemma; the steps that touch neither options nor their
  cache are handled together (`CalmFresh`).

For `AccountProvisioning` again (the second half of `AccountProvisioning_proofs`):

* `CountExact`: the counter of a domain is the number of its rows, up to those that a
  request has inserted and not counted or deleted and not discounted, and up to the
  domains in `skewed`, where a decrement was refused for either of its two columns; any number of workers. `CountInv` adds that these sets are
  finite, whatever the number of workers, that a request works on rows of its own
  domain, and what each set gains and loses in a step (`OneElement`).
* `AddressesStayWithUser`: without failures an address goes only by a request on its own
  account, with its domain, or as a catch-all that is moved; an action property, from `IInv`.
* `AccountsComplete`: with managed mailboxes and no failures an account nobody works on
  has its mailbox and an address in its domain, for any number of workers.
* `NoStrayAfterOneFault`, `AliasesUnique` for a single worker (that property names
  its number of workers itself, and so needs that there are finitely many). `Settled` says
  of each statement of a creation or removal what it has left to undo: `OneFaultNoStray`
  itself says nothing of the statement between two others. `AliasesUnique` adds
  that the answer of `CheckAlias` is still true when the address is inserted, and that
  an address and its ACE form come and go together.

For every set of quotas, every limit and number of accounts (`DomainQuota_proofs`):

* `TypesCorrect`, for any number of workers and failures. It needs `Keyed`, that ids identify
  rows: what a removal has read of its row is a sum over the rows of that id.
* For one worker and any order of its requests, with and without memcached, `UsedSums`, `StoresAgree` and `LimitsKept`.
  `Alone` says what is true between two statements of a request: how far the two columns are
  from sum and number (`Summed`), that the row is there (`HasRow`) and every row has its mailbox
  (`Housed`), at which statements the
  stores may differ (`Matched`), and that a quota that was compared with the limit still
  fits when it is written (`Fits`).
* `RequestsBringTogether`: `RequestsAlign`, for one worker and after any failures. `Prepared` says
  for each statement of a change or check what it knows of the row and of the mailbox, by where
  it has the quota from.
* `NotTooLow`: `UsedNotTooLow` for any number of workers, if accounts are not removed, or
  neither changed nor checked (all three together violate it, section 4).
  Without removals `Covered` says that what the column lacks is owed by requests that are on
  their way to a statement that adds it, and that this stays so if any of the creations were
  undone. With removals `Balanced` accounts for what removals have still to subtract,
  and `Tokens` says that a request that works on a row finds it as it was: only one removal gets
  past the IMAP server, and none takes a row that is being created.
* The sum over the rows is a fold, that is a recursive function. That its value does not depend
  on the order in which elements are taken would be an induction over data; it is proved
  by a smallest counterexample instead: the proper subsets of a finite set
  are well-founded, so if some subset is summed up wrongly, one has subsets
  that are all summed up right (`SmallestSet`).

For every number of users, addresses, domains and failures (`AccountAddresses_proofs`):

* `TypesCorrect`, for any number of workers.
* For one worker: `OneRow` (an account whose name is no forward has one row of forwards at most, and
  it is not empty; no row of any account outlives it),
  `ForwardsRefined` (every step is a step of `ForwardLists` for these accounts or a stutter, whatever
  accounts with fully qualified names do: the refinement of the run `Addresses`, for all constants), `LastAddressStays`, `AliasesUnique`,
  `TwinsStayTogether`. `ForwardsRead` says that the list a request has read is still the one
  in the table when it is written. `AddressInv` says what the rows are while an address, its
  ACE form and their references to each other are written one after the other, for each
  statement and whatever fails (`RowsWell` and what each request knows), `SmoothInv` what
  holds besides as long as nothing has failed: an error path leaves twins apart, and
  then aliases of ACE form may be taken twice.

For `DomainTransactions` (`DomainTransactions_proofs`):

* `TypesCorrect` and `DomainsWhole`, for any number of threads, names and failures.
  `WholeDomains` is about what is committed, and a commit makes visible what was written
  many steps ago, perhaps by an earlier request that left its transaction open. `WholeInv`
  says what each connection has pending at each statement (`PendingFits`), that only a
  removal locks the table and that no two connections write one row (`Locks`), and that an
  id that was read once is that domain or none (`Ids`, from AUTO_INCREMENT).
* `ParentsTop`, for one thread. `ParentInv` adds that a snapshot is what is committed, that
  the parent chosen from the form is still of the top level, and that a domain of the top
  level never gets a parent: this is what makes up for `Domain::update` looking at the
  old parent instead of the new one.

For every set of requests, folders and capabilities, and whatever a late line is taken for
(`ImapSession_proofs`):

* `StatusesOwn`: `OwnStatus`. It speaks of the one moment at which a status is read. `SessionInv`
  says which tags are under way at every other moment: none above the last one given out; the tag
  that is waited for once, behind everything else; and after a login no longer the first
  tag, which `logout()` uses again when it begins the tags anew.
* `SuccessIsDone`: `ReportedDone`, whose part about removals has the condition `NamesStay`: without it
  that part is false (section 4). `DoneInv` says, from the end of a request back to the server: the call
  that does what the request is for is still to come or has worked, as long as nothing has
  failed (`OnTheWay`), and is none whose failure is passed over (`CallFits`); its last command
  does the work (`WorkFits`), and when a mailbox is removed no folder has been forgotten, or
  the client does not know the delimiter and asks for names the server refuses (`RemovalFits`,
  `Blind`); the answer OK to a command is under way only when its effect is there, together
  with the lines the client reads of it (`Effect`); and nothing still under way undoes it
  (`NetFits`). It needs `SessionInv`: that an OK is the command's own. The quota in it is the one the request
  works with (`WantedBy`), which need not be the row's.

For every set of names, domains and accounts and any number of failures
(`Installation_proofs`):

* `SetupsAreUsable`: what a setup leaves that has ended well, for all mechanisms, whichever tables
  the server refuses and whichever statement of the SQL file has failed unnoticed. `VersionInv`
  says when the version is there: always after the installation, if nothing is refused and nothing has failed.
* `ImportsAreComplete`: what an import leaves that has ended well.
* `InstallationInv` says for each step of a setup and of an import what the steps before it
  have made sure, also of a configuration file or database that an earlier run has
  left half done, and that only the program that runs can take it away again.

"One worker" in a theorem is the hypothesis `Worker = {w0}`: requests follow one another. It
is needed: with two workers TLC finds `AliasUnique`, `ForwardsImplemented`, `ParentsAreTop`,
`UsedIsSum` and `LimitKept` violated (section 4), by requests that read the same rows before
either writes.

Assumptions on constants: `ProvisioningAssumption`, `AdminAssumption`, `CacheAssumption`,
`AddressAssumption`, `KeyAssumption` and the others of `DomainTransactions`, `ImapAssumption`,
`InstallationAssumption` and `QuotaAssumption`, which TLC evaluates in every run of their modules.
They say that numbers are numbers, that distinct kinds of keys are distinct, and in `DomainQuota`
that the threads are finitely many.

What the proofs changed in the models:

* `LastAddressKept` was false with two failures, which no run had: after another failure the
  undoing of an addition, too, may take the last address. Its first conjunct now names that
  statement beside the removal's.
* The sums of `DomainQuota` are written with `SumFunction`, since the operator over
  a set with a LAMBDA that stood there cannot be expanded by the prover.
* The deletion of folders was one step that named its commands as if nothing could be learnt on
  the way; the proof of `OwnStatus` asked what they are, and it is now the loop of the code.
* `ReportedDone` was to be proved for all capabilities and is false for some (section 4), so
  its part about removals has a condition.
* A quota is read from a line only if the line has no tag (`Understood`): a status line could be
  taken for one, which `getQuota` does not do (imap.cpp:1165-1181).

Only model-checked:

* liveness (`RetriesRemoveAccounts`, `ChecksAlign`, `CachesCatchUp`, `SessionEnds`,
  `StatusCatchesUp`, `RepeatedSetup`), since the prover has no rules for fairness and
  ENABLED here.

## 6. Not modelled

* In `AccountProvisioning`: addresses for child domains in `Account::create`
  (`Domain::get` always leaves the list of children empty, so the loop never
  runs), folders and their subscription, log entries. They are written
  by statements whose errors are only logged and nothing above reads them.
* In `AccountAddresses`: `updated_at`, the syntax of addresses, accounts of a
  second domain (addresses in a second domain are there).
* In `DomainQuota`: user names that are used again, so a mailbox is identified
  by the id of its account; the mode in which mailboxes are not managed; the
  time between LIST and CREATE in a check, which `AccountProvisioning` has.
* In `AdminAccounts`: display settings, which domains a session may work on, and
  transactions left open, which `DomainTransactions` has.
* In `DomainTransactions`: the accounts of a domain, and the columns of a domain
  that refer to no other row.
* In `SettingsCache`: installations without memcached, where there is nothing to
  keep in step, and the storage usage of accounts in memcached, which `DomainQuota` has.
* In `ImapSession`: the first of the two SETQUOTA a check sends when the domain has a quota
  and the server none, of which the second decides; TLS, the greeting, and the parser itself, of which only the
  outcome on a line of another answer is modelled.
* In `Installation`: the dialogue, passwords and locale; of a group of the configuration
  file only whether it is there and, for database and IMAP server, whether it is right.
* Not at all: `SetupImporter` and `ConfigChecker`, which nothing reaches; the IMAP plugin;
  rendering, templates and template plugins; password generation and hashing; value
  classes and validators. They are pure functions, output, or library calls.
