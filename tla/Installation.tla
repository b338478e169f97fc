---------------------------- MODULE Installation ----------------------------
(***************************************************************************)
(* The command line utility skaffaricmd: --setup, which asks for a          *)
(* configuration and prepares the database, --import-web-cyradm, which      *)
(* fills the database from the one of web-cyradm, and --test.  An operator  *)
(* runs them one after the other; each of them works step by step on the    *)
(* configuration file and on the database, without a transaction around     *)
(* the steps, and may break off at any of them.  What counts is what the    *)
(* next run, and the application, make of what it left behind.              *)
(***************************************************************************)
EXTENDS Naturals, Sequences, FiniteSets, FiniteSetsExt

CONSTANTS
  Mechs,      \* the authentication mechanisms the operator may choose
  AdminName,  \* the names the operator may give to a super user
  WebDomain,  \* the domains in the database of web-cyradm
  WebAccount, \* the accounts there: user name -> domain, or Server
  WebAdmin,   \* the administrators there
  OldDomain,  \* a domain of an installation that is in use
  OldAccount, \* its account
  CyrusAdmin, \* the user name of the administrator of the IMAP server
  Server,     \* domain id 0: the accounts of no domain
  ImapQuota,  \* the quota an account has on the IMAP server
  MaxFaults   \* bound on broken runs, lost answers and changed passwords

\* The ids of the domains are those AUTO_INCREMENT has given them, from 1.
ASSUME InstallationAssumption == Server \notin WebDomain /\ MaxFaults \in Nat

VARIABLES
  file,   \* the configuration file and whether its credentials are right
  base,   \* the database
  tool,   \* the program that is running and its next step
  last,   \* how the last run ended: none, failed, setup, import, changed
  faults

vars == <<file, base, tool, last, faults>>

----------------------------------------------------------------------------
(* The database: the tables that matter here in the order of their names,   *)
(* and which table the foreign keys of a table need.                        *)

Table == 1 .. 8
AccountUser == 1
AdminUser   == 2
DomainTable == 3
DomainAdmin == 4
Options     == 5
Settings    == 6
SystemInfo  == 7
Virtual     == 8

References(t) ==
  CASE t = DomainAdmin -> {AdminUser, DomainTable}
    [] t = Settings    -> {AdminUser}
    [] OTHER           -> {}

\* The order in which 0.0.1.sql creates them; the version is its last statement.
CreationOrder == <<AccountUser, AdminUser, DomainTable, DomainAdmin, Settings, Virtual, SystemInfo, Options>>
CreatedFirst(n) == {CreationOrder[i] : i \in 1 .. n}

\* The file gives the table virtual an AUTO_INCREMENT column without a key,
\* which MySQL refuses; with the key the server refuses nothing.
Refusable == {{Virtual}, {}}
\* The tables the file comes to, when the server refuses some.
CreatedUntil(stop) ==
  {CreationOrder[i] : i \in {k \in 1 .. Len(CreationOrder) : CreatedFirst(k) \intersect stop = {}}}

NoRows == [x \in {} |-> x]
Row(k, r) == [x \in {k} |-> r]
\* Rows that are inserted, beside those that are there
Over(new, old) == [x \in DOMAIN new \union DOMAIN old |-> IF x \in DOMAIN new THEN new[x] ELSE old[x]]

Rows(b, t, rows) == IF t \in b.tables THEN rows ELSE NoRows
DropRows(b) ==
  [b EXCEPT !.admins = Rows(b, AdminUser, @), !.domains = Rows(b, DomainTable, @),
            !.accounts = Rows(b, AccountUser, @), !.version = @ /\ SystemInfo \in b.tables]

\* A DROP TABLE is refused while the foreign key of another table needs it.
Refused(tables, t) == \E u \in tables : u > t /\ t \in References(u)

\* Database::clear ends at the first table it cannot drop.
Clear(b) ==
  LET left == {t \in b.tables : \E s \in b.tables : s <= t /\ Refused(b.tables, s)}
  IN  DropRows([b EXCEPT !.tables = left])

InstalledOnce(b, stop) ==
  IF b.tables = {} THEN [b EXCEPT !.tables = CreatedUntil(stop), !.version = (stop = {})] ELSE b
\* Every table is created IF NOT EXISTS.  All statements are sent at once and
\* only the error of the first is noticed: where one fails the rest is not
\* executed, and neither that nor a second version makes a difference.
Installed(b, stop) == [b EXCEPT !.tables = @ \union CreatedUntil(stop), !.version = @ \/ stop = {}]
\* Servers differ in whether they look at the definition of a table that exists.
Stops(b) == {b.refused, b.refused \ b.tables}

\* The file ends after n tables.
VersionWithTable(b, n) ==
  [b EXCEPT !.tables = @ \union (CreatedFirst(n) \intersect CreatedUntil(b.refused \ @)),
            !.version = @ \/ (n >= 7 /\ b.refused = {})]
PartlyInstalled(b, n) ==
  [b EXCEPT !.tables = @ \union (CreatedFirst(n) \intersect CreatedUntil(b.refused \ @))]

InstalledVersion(b) == b.version
SuperUsers(b) == {n \in DOMAIN b.admins : b.admins[n] = "super"}
CyrusAdmins(b) == {a \in DOMAIN b.accounts : b.accounts[a].domain = Server}

----------------------------------------------------------------------------
(* The IMAP client of the utility.  It sends what PLAIN and CRAM-MD5 need    *)
(* in a form that no server can accept, and takes a refusal for success.     *)

Malformed(mech) == mech \in {"PLAIN", "CRAM-MD5"}
Accepted(mech, right) == ~Malformed(mech) /\ right
LoginReports(mech, right) ==
  IF Malformed(mech) THEN ~Accepted(mech, right) ELSE Accepted(mech, right)
\* GETQUOTA; without an answer it is 0.
QuotaAnswer(a, answered) == IF answered THEN ImapQuota[a] ELSE 0

----------------------------------------------------------------------------
(* Running a tool *)

Idle == [step |-> "idle", fresh |-> FALSE]
Running == tool.step # "idle"
At(step) == tool.step = step
Go(step) == tool' = [tool EXCEPT !.step = step] /\ UNCHANGED last
End(how) == tool' = Idle /\ last' = how
Fault == faults < MaxFaults /\ faults' = faults + 1
NoFault == UNCHANGED faults
\* A SELECT that failed reads like one that found nothing.
Read(found) == \/ found /\ NoFault
               \/ ~found /\ NoFault
               \/ Fault
Write(g) == file' = [file EXCEPT !.groups = @ \union {g}]
\* Asked for in any case in a first run, otherwise if the operator wants to.
Ask(g) == Write(g) \/ (~tool.fresh /\ UNCHANGED file)

\* Setup::exec: whether the file exists decides what is asked for.
StartSetup ==
  /\ ~Running
  /\ tool' = [step |-> "open", fresh |-> file.groups = {}]
  /\ last' = "none"
  /\ UNCHANGED <<file, base, faults>>

\* The database is opened with what the file says, or else with what the
\* operator enters until it opens, and that is written to the file.
OpenDatabase ==
  /\ At("open")
  /\ file' = [file EXCEPT !.groups = @ \union {"Database"}, !.db = TRUE]
  /\ Go("layout")
  /\ UNCHANGED <<base, faults>>

CheckLayout ==
  /\ At("layout")
  /\ \/ InstalledVersion(base) /\ NoFault /\ UNCHANGED base
     \/ /\ IF InstalledVersion(base) THEN Fault ELSE NoFault
        /\ \E stop \in Stops(base) : base' = Installed(base, stop)
  /\ Go("admins")
  /\ UNCHANGED file

CheckAdmin ==
  /\ At("admins")
  /\ \/ /\ SuperUsers(base) # {} /\ NoFault
        /\ Write("Admins") \/ UNCHANGED file
        /\ Go("userPasswords")
     \/ /\ IF SuperUsers(base) = {} THEN NoFault ELSE Fault
        /\ UNCHANGED file
        /\ Go("newAdmin")
  /\ UNCHANGED base

\* Database::setAdmin: the administrator and the settings in a transaction.
MaySetAdmin(n) == {AdminUser, Settings} \subseteq base.tables /\ n \notin DOMAIN base.admins

SetAdmin(n) ==
  /\ At("newAdmin") /\ MaySetAdmin(n)
  /\ base' = [base EXCEPT !.admins = Over(Row(n, "super"), @)]
  /\ Go("adminGroup")
  /\ UNCHANGED <<file, faults>>

CannotSetAdmin ==
  /\ At("newAdmin") /\ \E n \in AdminName : ~MaySetAdmin(n)
  /\ End("failed")
  /\ UNCHANGED <<file, base, faults>>

WriteAdmins ==
  /\ At("adminGroup")
  /\ Write("Admins")
  /\ Go("userPasswords")
  /\ UNCHANGED <<base, faults>>

AskAccounts ==
  /\ At("userPasswords")
  /\ Ask("Accounts")
  /\ Go("cyrus")
  /\ UNCHANGED <<base, faults>>

CheckCyrusAdmin ==
  /\ At("cyrus")
  /\ \/ CyrusAdmins(base) # {} /\ NoFault /\ Go("imap")
     \/ (IF CyrusAdmins(base) = {} THEN NoFault ELSE Fault) /\ Go("newCyrus")
  /\ UNCHANGED <<file, base>>

MaySetCyrusAdmin == AccountUser \in base.tables /\ CyrusAdmin \notin DOMAIN base.accounts

SetCyrusAdmin ==
  /\ At("newCyrus") /\ MaySetCyrusAdmin
  /\ base' = [base EXCEPT !.accounts = Over(Row(CyrusAdmin, [domain |-> Server, quota |-> 0]), @)]
  /\ Go("imap")
  /\ UNCHANGED <<file, faults>>

CannotSetCyrusAdmin ==
  /\ At("newCyrus") /\ ~MaySetCyrusAdmin
  /\ End("failed")
  /\ UNCHANGED <<file, base, faults>>

\* The file's credentials are kept when the login succeeds and the operator
\* does not want to change them.
KeepImap ==
  /\ At("imap")
  /\ ~tool.fresh /\ "IMAP" \in file.groups /\ LoginReports(file.mech, file.imap)
  /\ Go("behavior")
  /\ UNCHANGED <<file, base, faults>>

ImapEntries == Mechs \X BOOLEAN

\* Otherwise the operator is asked until a login succeeds.
AskImap(entry) ==
  /\ At("imap") /\ LoginReports(entry[1], entry[2])
  /\ file' = [file EXCEPT !.groups = @ \union {"IMAP"}, !.mech = entry[1], !.imap = entry[2]]
  /\ Go("behavior")
  /\ UNCHANGED <<base, faults>>

FinishSetup ==
  /\ At("behavior")
  /\ Ask("Behavior")
  /\ End("setup")
  /\ UNCHANGED <<base, faults>>

SetupStep ==
  \/ OpenDatabase \/ CheckLayout
  \/ CheckAdmin \/ (\E n \in AdminName : SetAdmin(n)) \/ CannotSetAdmin \/ WriteAdmins
  \/ AskAccounts \/ CheckCyrusAdmin \/ SetCyrusAdmin \/ CannotSetCyrusAdmin
  \/ KeepImap \/ (\E entry \in ImapEntries : AskImap(entry)) \/ FinishSetup

----------------------------------------------------------------------------
(* WebCyradmImporter::exec *)

StartImport ==
  /\ ~Running
  /\ tool' = [step |-> "source", fresh |-> FALSE]
  /\ last' = "none"
  /\ UNCHANGED <<file, base, faults>>

\* The configuration of web-cyradm may be missing or not understood.
ReadSource ==
  /\ At("source")
  /\ Go("connect") \/ End("failed")
  /\ UNCHANGED <<file, base, faults>>

\* Three loops that ask until both databases and the IMAP server are connected.
ConnectAll ==
  /\ At("connect")
  /\ Go("confirm")
  /\ UNCHANGED <<file, base, faults>>

\* The new settings, and whether everything may be deleted.
Confirm ==
  /\ At("confirm")
  /\ Go("clear") \/ End("failed")
  /\ UNCHANGED <<file, base, faults>>

\* What clear() returns is not looked at.
ClearDatabase ==
  /\ At("clear")
  /\ base' = Clear(base)
  /\ Go("install")
  /\ UNCHANGED <<file, faults>>

InstallAgain ==
  /\ At("install")
  /\ \E stop \in Stops(base) : base' = Installed(base, stop)
  /\ Go("domains")
  /\ UNCHANGED <<file, faults>>

\* The rows that can be inserted into a table, which may be missing.
Insertable(t, keys, rows) == IF t \in base.tables THEN keys \ DOMAIN rows ELSE {}

\* Row by row; domain_name is unique.
ImportDomains ==
  /\ At("domains") /\ DomainTable \in base.tables
  /\ WebDomain \intersect DOMAIN base.domains = {}
  /\ base' = [base EXCEPT !.domains = Over([d \in WebDomain |-> [count |-> 0, used |-> 0]], @)]
  /\ Go("folders")
  /\ UNCHANGED <<file, faults>>

\* The table is missing, or a domain is there already: those before it have
\* been inserted.
CannotImportDomains ==
  /\ At("domains")
  /\ DomainTable \notin base.tables \/ WebDomain \intersect DOMAIN base.domains # {}
  /\ \E some \in SUBSET Insertable(DomainTable, WebDomain, base.domains) :
       base' = [base EXCEPT !.domains = Over([d \in some |-> [count |-> 0, used |-> 0]], @)]
  /\ End("failed")
  /\ UNCHANGED <<file, faults>>

\* A folder gets no special use, which a server in strict mode refuses.
ImportFolders ==
  /\ At("folders")
  /\ Go("people") \/ End("failed")
  /\ UNCHANGED <<file, base, faults>>

\* The type of an administrator is copied, and web-cyradm does not know the
\* type of a super user.  The assignments and settings come with them.
ImportAdmins ==
  /\ At("people") /\ {AdminUser, DomainAdmin, Settings} \subseteq base.tables
  /\ WebAdmin \intersect DOMAIN base.admins = {}
  /\ base' = [base EXCEPT !.admins = Over([n \in WebAdmin |-> "other"], @)]
  /\ Go("accounts")
  /\ UNCHANGED <<file, faults>>

\* A table is missing, a name is taken, or an assignment names what is not there.
CannotImportAdmins ==
  /\ At("people")
  /\ \E some \in SUBSET Insertable(AdminUser, WebAdmin, base.admins) :
       base' = [base EXCEPT !.admins = Over([n \in some |-> "other"], @)]
  /\ End("failed")
  /\ UNCHANGED <<file, faults>>

\* domainNameId has 0 for a domain it does not know.
DomainId(d) == IF d \in WebDomain THEN d ELSE Server
WebRow(a, answered) ==
  [domain |-> DomainId(WebAccount[a]), quota |-> QuotaAnswer(a, answered)]

ImportAccounts ==
  /\ At("accounts") /\ AccountUser \in base.tables
  /\ DOMAIN WebAccount \intersect DOMAIN base.accounts = {}
  /\ \E unanswered \in SUBSET DOMAIN WebAccount :
       /\ IF unanswered = {} THEN NoFault ELSE Fault
       /\ base' = [base EXCEPT !.accounts =
                     Over([a \in DOMAIN WebAccount |-> WebRow(a, a \notin unanswered)], @)]
  /\ Go("addresses")
  /\ UNCHANGED file

PartOfAccounts ==
  /\ At("accounts") /\ IF AccountUser \in base.tables THEN Fault ELSE NoFault
  /\ \E some \in SUBSET Insertable(AccountUser, DOMAIN WebAccount, base.accounts) :
       base' = [base EXCEPT !.accounts = Over([a \in some |-> WebRow(a, TRUE)], @)]
  /\ End("failed")
  /\ UNCHANGED file

\* Addresses, aliases and the log; the table virtual may be missing, and a row
\* that was left behind may be in the way.
ImportAddresses ==
  /\ At("addresses")
  /\ (Virtual \in base.tables /\ Go("count")) \/ End("failed")
  /\ UNCHANGED <<file, base, faults>>

AccountsOf(b, d) == {a \in DOMAIN b.accounts : b.accounts[a].domain = d}
QuotaOf(accounts, as) == FoldSet(LAMBDA a, sum : accounts[a].quota + sum, 0, as)
CountsOnly(b, d) == [b.domains[d] EXCEPT !.count = Cardinality(AccountsOf(b, d))]
Counts(b, d) == [count |-> Cardinality(AccountsOf(b, d)), used |-> QuotaOf(b.accounts, AccountsOf(b, d))]

\* Each imported domain gets its counters.
UpdateDomains ==
  /\ At("count")
  /\ base' = [base EXCEPT !.domains =
                [d \in DOMAIN @ |-> IF d \in WebDomain THEN Counts(base, d) ELSE @[d]]]
  /\ Go("passwords")
  /\ UNCHANGED <<file, faults>>

\* Every imported administrator gets a new password.
SetPasswords ==
  /\ At("passwords")
  /\ Go("configuration")
  /\ UNCHANGED <<file, base, faults>>

\* The file is written at the very end; a mechanism it had before stays.
WriteConfiguration ==
  /\ At("configuration")
  /\ file' = [file EXCEPT !.groups = {"Accounts", "Admins", "Database", "IMAP", "Behavior"},
                          !.db = TRUE, !.imap = TRUE]
  /\ End("import")
  /\ UNCHANGED <<base, faults>>

ImportStep ==
  \/ ReadSource \/ ConnectAll \/ Confirm
  \/ ClearDatabase \/ InstallAgain \/ ImportDomains \/ CannotImportDomains
  \/ ImportFolders \/ ImportAdmins \/ CannotImportAdmins \/ ImportAccounts \/ PartOfAccounts
  \/ ImportAddresses \/ UpdateDomains \/ SetPasswords \/ WriteConfiguration

----------------------------------------------------------------------------
(* A run breaks off: the program is killed, or a statement fails, before a  *)
(* step.  In the middle of the installation the program may be killed, too, *)
(* but a statement that fails there is not noticed.                         *)

Break ==
  /\ Running /\ Fault
  /\ End("failed")
  /\ UNCHANGED <<file, base>>

BreakInstallation ==
  /\ (At("layout") /\ ~InstalledVersion(base)) \/ At("install")
  /\ Fault
  /\ \E n \in 1 .. Len(CreationOrder) : base' = PartlyInstalled(base, n)
  /\ End("failed") \/ Go(IF At("layout") THEN "admins" ELSE "domains")
  /\ UNCHANGED file

\* Between two runs, a password in the file becomes wrong.
PasswordChanged ==
  /\ ~Running /\ Fault
  /\ \/ file.db /\ file' = [file EXCEPT !.db = FALSE]
     \/ file.imap /\ file' = [file EXCEPT !.imap = FALSE]
  /\ last' = "changed"
  /\ UNCHANGED <<base, tool>>

----------------------------------------------------------------------------
Nothing(refused) ==
  [tables |-> {}, refused |-> refused, version |-> FALSE, admins |-> NoRows, domains |-> NoRows, accounts |-> NoRows]
InUse(n, refused) ==
  [tables |-> Table, refused |-> refused, version |-> TRUE, admins |-> Row(n, "super"),
   domains |-> Row(OldDomain, [count |-> 1, used |-> 1]),
   accounts |-> Over(Row(CyrusAdmin, [domain |-> Server, quota |-> 0]), Row(OldAccount, [domain |-> OldDomain, quota |-> 1]))]

\* A new machine, or an installation that was set up and is in use.
Init ==
  /\ \/ (\E refused \in Refusable : base = Nothing(refused)) /\ file = [groups |-> {}, db |-> FALSE, imap |-> FALSE, mech |-> "CLEAR"]
     \/ /\ \E n \in AdminName, refused \in Refusable : base = InUse(n, refused)
        /\ file = [groups |-> {"Accounts", "Admins", "Database", "IMAP", "Behavior"},
                   db |-> TRUE, imap |-> TRUE, mech |-> "CLEAR"]
  /\ tool = Idle /\ last = "none" /\ faults = 0

Next ==
  \/ StartSetup \/ SetupStep \/ StartImport \/ ImportStep
  \/ Break \/ BreakInstallation \/ PasswordChanged

Spec == Init /\ [][Next]_vars

\* The operator runs the setup again until it succeeds, with a name for the
\* super user that is free, and a run goes on until it ends.
Fairness ==
  /\ SF_vars(StartSetup /\ last # "setup")
  /\ WF_vars(SetupStep) /\ WF_vars(ImportStep)
  /\ SF_vars(\E n \in AdminName : SetAdmin(n))
FairSpec == Spec /\ Fairness

----------------------------------------------------------------------------
OpensDatabase == "Database" \in file.groups /\ file.db

\* Tester::exec
TestPasses ==
  /\ OpensDatabase
  /\ InstalledVersion(base)
  /\ SuperUsers(base) # {}
  /\ LoginReports(file.mech, file.imap)

\* Skaffari::init, and what its requests need.
Startable ==
  /\ OpensDatabase /\ base.tables = Table
  /\ "IMAP" \in file.groups /\ file.imap

\* Whatever broken runs, failed reads, imports and changed passwords there
\* were before it, a setup that says it was successful leaves a super user, the
\* administrator of the IMAP server and a configuration with which the database
\* opens and the login seems to succeed.  When the version is there the test
\* passes, and the application can work with it unless the mechanism is one the
\* utility cannot check.  The version is there, too, unless the server refuses
\* a table or a statement has failed: neither keeps the setup from being
\* successful (setup.cpp:42-470, database.cpp:163).
SetupUsable ==
  last = "setup" =>
    /\ OpensDatabase /\ SuperUsers(base) # {} /\ CyrusAdmins(base) # {}
    /\ "IMAP" \in file.groups /\ LoginReports(file.mech, file.imap)
    /\ InstalledVersion(base) => TestPasses
    /\ InstalledVersion(base) /\ ~Malformed(file.mech) => Startable
    /\ base.refused = {} /\ faults = 0 => InstalledVersion(base)

\* An import that says it was successful has brought every domain and every
\* account of web-cyradm, and the counters of each domain are those of its
\* accounts (webcyradmimporter.cpp:455-803).
ImportComplete ==
  last = "import" =>
    /\ WebDomain \subseteq DOMAIN base.domains
    /\ \A a \in DOMAIN WebAccount : a \in DOMAIN base.accounts /\ base.accounts[a].domain = DomainId(WebAccount[a])
    /\ \A d \in WebDomain :
         /\ base.domains[d].count = Cardinality({a \in DOMAIN WebAccount : WebAccount[a] = d})
         /\ base.domains[d].used = QuotaOf(base.accounts, AccountsOf(base, d))

\* An import leaves nothing of what the database held before: "This will
\* delete all content in the Skaffari database." (webcyradmimporter.cpp:435)
ImportReplaces == last = "import" => DOMAIN base.domains = WebDomain

\* An import that ended between dropping a table and creating the tables again.
Torn == InstalledVersion(base) /\ base.tables # Table

\* Repeated setups succeed in the end, whatever broke off before, unless an
\* import has left the database without a table the version vouches for.
RepeatedSetup == <>(last = "setup") \/ <>[](~Running => Torn)
=============================================================================
