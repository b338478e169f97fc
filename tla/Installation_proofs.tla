-------------------------- MODULE Installation_proofs --------------------------
(***************************************************************************)
(* Theorems about Installation.                                            *)
(*                                                                         *)
(* SetupUsable and ImportComplete speak of the moment at which a tool ends *)
(* with success.  The inductive invariant says what a setup (SetupFits)    *)
(* and an import (ImportFits) rely on at each of their steps, because the  *)
(* steps before were made, and what every tool leaves of the database      *)
(* wherever it breaks off (IsBase): a version vouches for all tables but   *)
(* one, the one that an import drops first.  Nothing vouches for a version: *)
(* VersionInv says when it is there.                                       *)
(***************************************************************************)
EXTENDS Installation, FiniteSetTheorems, TLAPS

-----------------------------------------------------------------------------
(* The inductive invariant *)

Group == {"Accounts", "Admins", "Database", "IMAP", "Behavior"}

IsFile(f) ==
    f \in [groups : SUBSET Group, db : BOOLEAN, imap : BOOLEAN, mech : Mechs \union {"CLEAR"}]

Fields == {"tables", "refused", "version", "admins", "domains", "accounts"}

IsBase(b) ==
    /\ DOMAIN b = Fields /\ b = [f \in Fields |-> b[f]]
    /\ b.tables \subseteq Table
    /\ b.version \in BOOLEAN
    /\ b.version => Table \ {AccountUser} \subseteq b.tables
    /\ AccountUser \notin b.tables => DOMAIN b.accounts = {}

\* The steps of a setup that come after one that has made something sure
Opened == {"layout", "admins", "newAdmin", "adminGroup", "userPasswords", "cyrus", "newCyrus", "imap", "behavior"}
Versioned == Opened \ {"layout"}
Staffed == Opened \ {"layout", "admins", "newAdmin"}
Complete == {"imap", "behavior"}

SetupFits(step, f, b) ==
    /\ step \in Opened => "Database" \in f.groups /\ f.db
    /\ step \in Staffed => SuperUsers(b) # {}
    /\ step \in Complete => CyrusAdmins(b) # {}
    /\ step = "behavior" => "IMAP" \in f.groups /\ LoginReports(f.mech, f.imap)

\* The same for an import
Installing == {"domains", "folders", "people", "accounts", "addresses", "count", "passwords", "configuration"}
Emptied == {"install", "domains", "folders", "people", "accounts"}
WithDomains == Installing \ {"domains"}
WithAccounts == {"addresses", "count", "passwords", "configuration"}
Counted == {"passwords", "configuration"}

HasDomains(b) == WebDomain \subseteq DOMAIN b.domains

HasAccounts(b) ==
    /\ DOMAIN b.accounts = DOMAIN WebAccount
    /\ \A a \in DOMAIN WebAccount : b.accounts[a].domain = DomainId(WebAccount[a])

HasCounts(b) ==
    \A d \in WebDomain :
        /\ b.domains[d].count = Cardinality(AccountsOf(b, d))
        /\ b.domains[d].used = QuotaOf(b.accounts, AccountsOf(b, d))

ImportFits(step, b) ==
    /\ step \in Emptied => DOMAIN b.accounts = {}
    /\ step \in WithDomains => HasDomains(b)
    /\ step \in WithAccounts => HasAccounts(b)
    /\ step \in Counted => HasCounts(b)

OtherSteps == {"idle", "open", "source", "connect", "confirm", "clear"}
Steps == Opened \union Emptied \union Installing \union OtherSteps

IsTool(t) == t \in [step : Steps, fresh : BOOLEAN]

\* What a tool that has ended with success has left
SetupLeft(f, b) ==
    /\ "Database" \in f.groups /\ f.db /\ "IMAP" \in f.groups /\ LoginReports(f.mech, f.imap)
    /\ SuperUsers(b) # {} /\ CyrusAdmins(b) # {}

ImportLeft(b) == HasDomains(b) /\ HasAccounts(b) /\ HasCounts(b)

LastFits(step, how, f, b) ==
    /\ step # "idle" => how = "none"
    /\ how = "setup" => SetupLeft(f, b)
    /\ how = "import" => ImportLeft(b)

InstallationInv ==
    /\ IsFile(file) /\ IsBase(base) /\ IsTool(tool)
    /\ SetupFits(tool.step, file, base)
    /\ ImportFits(tool.step, base)
    /\ LastFits(tool.step, last, file, base)

\* With a file that the server accepts and with no failure the version is there.
VersionInv ==
    /\ faults \in Nat
    /\ tool.step \in Versioned \/ last = "setup" => (base.refused = {} /\ faults = 0 => base.version)

-----------------------------------------------------------------------------
(* The database *)

\* Rows beside others: the keys of both, and their own values for the new ones.
LEMMA OverRows ==
    ASSUME NEW new, NEW old
    PROVE  /\ DOMAIN Over(new, old) = DOMAIN new \union DOMAIN old
           /\ \A x \in DOMAIN new : Over(new, old)[x] = new[x]
           /\ \A x \in DOMAIN old \ DOMAIN new : Over(new, old)[x] = old[x]
BY DEF Over

\* After a DROP TABLE the fields of a database are those of before, but for rows
\* without a table.
LEMMA DroppedRows ==
    ASSUME NEW b, DOMAIN b = Fields, b = [f \in Fields |-> b[f]]
    PROVE  LET c == DropRows(b)
           IN  /\ DOMAIN c = Fields /\ c = [f \in Fields |-> c[f]]
               /\ c.tables = b.tables /\ c.version = (b.version /\ SystemInfo \in b.tables)
               /\ c.accounts = Rows(b, AccountUser, b.accounts)
BY DEF Fields, DropRows

\* The file comes to tables of the database only, and to all of them when the
\* server refuses none.
LEMMA CreatedTables ==
    /\ \A n \in 1 .. 8 : CreatedFirst(n) \subseteq Table
    /\ \A stop : CreatedUntil(stop) \subseteq Table
    /\ CreatedUntil({}) = Table
<1> USE DEF CreationOrder, Table, AccountUser, AdminUser, DomainTable, DomainAdmin, Options, Settings,
        SystemInfo, Virtual
<1>1. ASSUME NEW i \in 1 .. 8 PROVE CreationOrder[i] \in Table
    OBVIOUS
<1>2. Len(CreationOrder) = 8
    OBVIOUS
<1>3. \A t \in Table : \E i \in 1 .. 8 : t = CreationOrder[i]
    <2>1. /\ CreationOrder[1] = 1 /\ CreationOrder[2] = 2 /\ CreationOrder[3] = 3 /\ CreationOrder[4] = 4
          /\ CreationOrder[5] = 6 /\ CreationOrder[6] = 8 /\ CreationOrder[7] = 7 /\ CreationOrder[8] = 5
        OBVIOUS
    <2>2. Table = {1, 2, 3, 4, 5, 6, 7, 8}
        OBVIOUS
    <2> HIDE DEF CreationOrder, Table
    <2> QED
        BY <2>1, <2>2
<1> HIDE DEF CreationOrder, Table
<1>4. \A n \in 1 .. 8 : CreatedFirst(n) \subseteq Table
    BY <1>1 DEF CreatedFirst
<1>5. \A stop : CreatedUntil(stop) \subseteq Table
    BY <1>1, <1>2 DEF CreatedUntil
<1>6. Table \subseteq CreatedUntil({})
    BY <1>2, <1>3 DEF CreatedUntil
<1> QED
    BY <1>4, <1>5, <1>6

\* Database::installDatabase creates tables, may add the version when it has
\* created all, and touches nothing that is there.
LEMMA InstalledBase ==
    ASSUME NEW b, IsBase(b), NEW stop
    PROVE  /\ IsBase(Installed(b, stop))
           /\ stop = {} => Installed(b, stop).version
           /\ Installed(b, stop).refused = b.refused /\ Installed(b, stop).accounts = b.accounts
<1> DEFINE tables == b.tables \union CreatedUntil(stop)
           version == b.version \/ stop = {}
           c == [b EXCEPT !.tables = tables, !.version = version]
<1>1. /\ tables \subseteq Table /\ b.tables \subseteq tables
      /\ stop = {} => tables = Table
    BY CreatedTables DEF IsBase
<1>2. /\ version \in BOOLEAN /\ (stop = {} => version)
      /\ version => Table \ {AccountUser} \subseteq tables
    BY <1>1 DEF IsBase
<1> HIDE DEF tables, version
<1>3. /\ DOMAIN c = Fields /\ c = [f \in Fields |-> c[f]]
      /\ c.tables = tables /\ c.version = version
      /\ c.refused = b.refused /\ c.accounts = b.accounts
    BY DEF IsBase, Fields
<1>4. Installed(b, stop) = c
    BY DEF Installed, tables, version
<1> HIDE DEF c
<1>5. IsBase(c)
    BY <1>1, <1>2, <1>3 DEF IsBase
<1> QED
    BY <1>2, <1>3, <1>4, <1>5

\* An installation that ends after some of the tables leaves the version alone.
LEMMA PartlyInstalledBase ==
    ASSUME NEW b, IsBase(b), NEW n \in 1 .. 8
    PROVE  IsBase(PartlyInstalled(b, n)) /\ PartlyInstalled(b, n).accounts = b.accounts
<1> DEFINE tables == b.tables \union (CreatedFirst(n) \intersect CreatedUntil(b.refused \ b.tables))
           c == [b EXCEPT !.tables = tables]
<1>1. tables \subseteq Table /\ b.tables \subseteq tables
    BY CreatedTables DEF IsBase
<1>2. PartlyInstalled(b, n) = c
    BY DEF PartlyInstalled
<1> HIDE DEF tables
<1>3. /\ DOMAIN c = Fields /\ c = [f \in Fields |-> c[f]]
      /\ c.tables = tables /\ c.version = b.version /\ c.accounts = b.accounts
    BY DEF IsBase, Fields
<1> HIDE DEF c
<1>4. IsBase(c)
    BY <1>1, <1>3 DEF IsBase
<1> QED
    BY <1>2, <1>3, <1>4

\* The table of the accounts has the first name and no other table needs it:
\* Database::clear drops it always.  It never gets past the administrators
\* while their assignments or settings are there: with a version, all but the
\* accounts stays.
LEMMA ClearedBase ==
    ASSUME NEW b, IsBase(b)
    PROVE  IsBase(Clear(b)) /\ DOMAIN Clear(b).accounts = {}
<1> DEFINE left == {t \in b.tables : \E s \in b.tables : s <= t /\ Refused(b.tables, s)}
           e == [b EXCEPT !.tables = left]
           c == DropRows(e)
<1>1. /\ DOMAIN e = Fields /\ e = [f \in Fields |-> e[f]]
      /\ e.tables = left /\ e.version = b.version
    BY DEF IsBase, Fields
<1>2. Clear(b) = c
    BY DEF Clear
<1>3. AccountUser \notin left
    <2>1. SUFFICES ASSUME NEW s \in b.tables, s <= AccountUser, Refused(b.tables, s)
                   PROVE  FALSE
        OBVIOUS
    <2>2. s = AccountUser
        BY <2>1 DEF IsBase, Table, AccountUser
    <2>3. PICK u \in b.tables : u > s /\ s \in References(u)
        BY <2>1 DEF Refused
    <2> QED
        BY <2>2, <2>3 DEF References, AccountUser, AdminUser, DomainTable, DomainAdmin, Settings
<1>4. ASSUME Table \ {AccountUser} \subseteq b.tables
      PROVE  Table \ {AccountUser} \subseteq left
    <2>1. AdminUser \in b.tables /\ DomainAdmin \in b.tables
        BY <1>4 DEF Table, AccountUser, AdminUser, DomainAdmin
    <2>2. Refused(b.tables, AdminUser)
        BY <2>1 DEF Refused, References, AdminUser, DomainAdmin, DomainTable
    <2>3. \A t \in Table \ {AccountUser} : AdminUser <= t
        BY DEF Table, AccountUser, AdminUser
    <2> QED
        BY <1>4, <2>1, <2>2, <2>3
<1>5. left \subseteq Table
    BY DEF IsBase
<1> HIDE DEF left, e
<1>6. /\ DOMAIN c = Fields /\ c = [f \in Fields |-> c[f]]
      /\ c.tables = left /\ c.version = (b.version /\ SystemInfo \in left)
      /\ c.accounts = Rows(e, AccountUser, e.accounts)
    BY <1>1, DroppedRows
<1>7. DOMAIN c.accounts = {}
    BY <1>1, <1>3, <1>6 DEF Rows, NoRows
<1>8. c.version \in BOOLEAN /\ (c.version => Table \ {AccountUser} \subseteq left)
    BY <1>4, <1>6 DEF IsBase
<1> HIDE DEF c
<1>9. IsBase(c)
    BY <1>5, <1>6, <1>7, <1>8 DEF IsBase
<1> QED
    BY <1>2, <1>7, <1>9

-----------------------------------------------------------------------------
(* The steps of a setup *)

\* Going on to another step and ending leave the tool well-formed.
LEMMA GoStep ==
    ASSUME NEW s \in Steps, IsTool(tool), Go(s)
    PROVE  IsTool(tool') /\ tool'.step = s /\ last' = last
BY DEF IsTool, Go

LEMMA EndStep ==
    ASSUME NEW how, End(how)
    PROVE  IsTool(tool') /\ tool'.step = "idle" /\ last' = how
BY DEF IsTool, End, Idle, Steps, OtherSteps

\* Writing a group of the configuration file touches nothing of the others.
LEMMA AskStep ==
    ASSUME NEW g \in Group, IsFile(file), Ask(g)
    PROVE  /\ IsFile(file') /\ file.groups \subseteq file'.groups
           /\ file'.db = file.db /\ file'.imap = file.imap /\ file'.mech = file.mech
BY DEF IsFile, Ask, Write

LEMMA WriteStep ==
    ASSUME NEW g \in Group, IsFile(file), Write(g)
    PROVE  Ask(g)
BY DEF Ask

LEMMA OpenDatabaseStep ==
    ASSUME InstallationInv, OpenDatabase
    PROVE  InstallationInv'
<1>1. IsFile(file') /\ "Database" \in file'.groups /\ file'.db
    BY DEF InstallationInv, OpenDatabase, IsFile, Group
<1>2. IsTool(tool') /\ tool'.step = "layout" /\ last' = last
    <2>1. "layout" \in Steps
        BY DEF Steps, Opened
    <2> QED
        BY <2>1, GoStep DEF InstallationInv, OpenDatabase
<1>3. base' = base /\ last = "none"
    BY DEF InstallationInv, OpenDatabase, LastFits, At
<1> QED
    BY <1>1, <1>2, <1>3 DEF InstallationInv, SetupFits, ImportFits, LastFits, Opened, Versioned,
       Staffed, Complete, Installing, Emptied, WithDomains, WithAccounts, Counted

\* The layout is there, or is installed again when it was not found.
LEMMA CheckLayoutStep ==
    ASSUME InstallationInv, CheckLayout
    PROVE  InstallationInv'
<1>1. IsTool(tool') /\ tool'.step = "admins" /\ last' = last
    <2>1. "admins" \in Steps
        BY DEF Steps, Opened
    <2> QED
        BY <2>1, GoStep DEF InstallationInv, CheckLayout
<1>2. IsBase(base')
    BY InstalledBase DEF InstallationInv, CheckLayout
<1>3. file' = file /\ last = "none" /\ "Database" \in file.groups /\ file.db
    BY DEF InstallationInv, CheckLayout, LastFits, SetupFits, At, Opened
<1> QED
    BY <1>1, <1>2, <1>3 DEF InstallationInv, SetupFits, ImportFits, LastFits, Opened, Versioned,
       Staffed, Complete, Installing, Emptied, WithDomains, WithAccounts, Counted

LEMMA CheckAdminStep ==
    ASSUME InstallationInv, CheckAdmin
    PROVE  InstallationInv'
<1>1. /\ base' = base /\ last = "none"
      /\ "Database" \in file.groups /\ file.db
    BY DEF InstallationInv, CheckAdmin, LastFits, SetupFits, At, Opened, Versioned
<1>2. CASE SuperUsers(base) # {} /\ Ask("Admins") /\ Go("userPasswords")
    <2>1. "userPasswords" \in Steps /\ "Admins" \in Group
        BY DEF Steps, Opened, Group
    <2>2. IsTool(tool') /\ tool'.step = "userPasswords" /\ last' = last
        BY <1>2, <2>1, GoStep DEF InstallationInv
    <2>3. IsFile(file') /\ "Database" \in file'.groups /\ file'.db
        BY <1>1, <1>2, <2>1, AskStep DEF InstallationInv
    <2> QED
        BY <1>1, <1>2, <2>2, <2>3 DEF InstallationInv, SetupFits, ImportFits, LastFits, Opened, Versioned,
           Staffed, Complete, Installing, Emptied, WithDomains, WithAccounts, Counted
<1>3. CASE SuperUsers(base) # {} /\ file' = file /\ Go("userPasswords")
    <2>1. "userPasswords" \in Steps
        BY DEF Steps, Opened
    <2>2. IsTool(tool') /\ tool'.step = "userPasswords" /\ last' = last
        BY <1>3, <2>1, GoStep DEF InstallationInv
    <2> QED
        BY <1>1, <1>3, <2>2 DEF InstallationInv, SetupFits, ImportFits, LastFits, Opened, Versioned,
           Staffed, Complete, Installing, Emptied, WithDomains, WithAccounts, Counted
<1>4. CASE file' = file /\ Go("newAdmin")
    <2>1. "newAdmin" \in Steps
        BY DEF Steps, Opened
    <2>2. IsTool(tool') /\ tool'.step = "newAdmin" /\ last' = last
        BY <1>4, <2>1, GoStep DEF InstallationInv
    <2> QED
        BY <1>1, <1>4, <2>2 DEF InstallationInv, SetupFits, ImportFits, LastFits, Opened, Versioned,
           Staffed, Complete, Installing, Emptied, WithDomains, WithAccounts, Counted
<1> QED
    BY <1>2, <1>3, <1>4 DEF CheckAdmin, Ask

\* The new super user is one.
LEMMA SetAdminStep ==
    ASSUME InstallationInv, NEW n, SetAdmin(n)
    PROVE  InstallationInv'
<1> DEFINE rows == Over(Row(n, "super"), base.admins)
           c == [base EXCEPT !.admins = rows]
<1>1. IsTool(tool') /\ tool'.step = "adminGroup" /\ last' = last
    <2>1. "adminGroup" \in Steps
        BY DEF Steps, Opened
    <2> QED
        BY <2>1, GoStep DEF InstallationInv, SetAdmin
<1>2. /\ file' = file /\ last = "none" /\ "Database" \in file.groups /\ file.db
      /\ IsBase(base) /\ base' = c
    BY DEF InstallationInv, SetAdmin, LastFits, SetupFits, At, Opened, Versioned
<1>3. n \in DOMAIN rows /\ rows[n] = "super"
    BY DEF Over, Row
<1> HIDE DEF rows
<1>4. /\ DOMAIN c = Fields /\ c = [f \in Fields |-> c[f]]
      /\ c.admins = rows /\ c.tables = base.tables /\ c.version = base.version /\ c.accounts = base.accounts
    BY <1>2 DEF IsBase, Fields
<1> HIDE DEF c
<1>5. IsBase(c) /\ SuperUsers(c) # {}
    BY <1>2, <1>3, <1>4 DEF IsBase, SuperUsers
<1> QED
    BY <1>1, <1>2, <1>4, <1>5 DEF InstallationInv, SetupFits, ImportFits, LastFits, Opened, Versioned,
       Staffed, Complete, Installing, Emptied, WithDomains, WithAccounts, Counted

LEMMA WriteAdminsStep ==
    ASSUME InstallationInv, WriteAdmins
    PROVE  InstallationInv'
<1>1. "userPasswords" \in Steps /\ "Admins" \in Group
    BY DEF Steps, Opened, Group
<1>2. IsTool(tool') /\ tool'.step = "userPasswords" /\ last' = last
    BY <1>1, GoStep DEF InstallationInv, WriteAdmins
<1>3. /\ base' = base /\ last = "none" /\ "Database" \in file.groups /\ file.db
      /\ SuperUsers(base) # {}
    BY DEF InstallationInv, WriteAdmins, LastFits, SetupFits, At, Opened, Versioned, Staffed
<1>4. IsFile(file') /\ "Database" \in file'.groups /\ file'.db
    BY <1>1, <1>3, WriteStep, AskStep DEF InstallationInv, WriteAdmins
<1> QED
    BY <1>2, <1>3, <1>4 DEF InstallationInv, SetupFits, ImportFits, LastFits, Opened, Versioned,
       Staffed, Complete, Installing, Emptied, WithDomains, WithAccounts, Counted

LEMMA AskAccountsStep ==
    ASSUME InstallationInv, AskAccounts
    PROVE  InstallationInv'
<1>1. "cyrus" \in Steps /\ "Accounts" \in Group
    BY DEF Steps, Opened, Group
<1>2. IsTool(tool') /\ tool'.step = "cyrus" /\ last' = last
    BY <1>1, GoStep DEF InstallationInv, AskAccounts
<1>3. /\ base' = base /\ last = "none" /\ "Database" \in file.groups /\ file.db
      /\ SuperUsers(base) # {}
    BY DEF InstallationInv, AskAccounts, LastFits, SetupFits, At, Opened, Versioned, Staffed
<1>4. IsFile(file') /\ "Database" \in file'.groups /\ file'.db
    BY <1>1, <1>3, AskStep DEF InstallationInv, AskAccounts
<1> QED
    BY <1>2, <1>3, <1>4 DEF InstallationInv, SetupFits, ImportFits, LastFits, Opened, Versioned,
       Staffed, Complete, Installing, Emptied, WithDomains, WithAccounts, Counted

LEMMA CheckCyrusAdminStep ==
    ASSUME InstallationInv, CheckCyrusAdmin
    PROVE  InstallationInv'
<1>1. "imap" \in Steps /\ "newCyrus" \in Steps
    BY DEF Steps, Opened
<1>2. /\ base' = base /\ file' = file /\ last = "none" /\ "Database" \in file.groups /\ file.db
      /\ SuperUsers(base) # {}
    BY DEF InstallationInv, CheckCyrusAdmin, LastFits, SetupFits, At, Opened, Versioned, Staffed
<1>3. CASE CyrusAdmins(base) # {} /\ Go("imap")
    <2>1. IsTool(tool') /\ tool'.step = "imap" /\ last' = last
        BY <1>1, <1>3, GoStep DEF InstallationInv
    <2> QED
        BY <1>2, <1>3, <2>1 DEF InstallationInv, SetupFits, ImportFits, LastFits, Opened, Versioned,
           Staffed, Complete, Installing, Emptied, WithDomains, WithAccounts, Counted
<1>4. CASE Go("newCyrus")
    <2>1. IsTool(tool') /\ tool'.step = "newCyrus" /\ last' = last
        BY <1>1, <1>4, GoStep DEF InstallationInv
    <2> QED
        BY <1>2, <1>4, <2>1 DEF InstallationInv, SetupFits, ImportFits, LastFits, Opened, Versioned,
           Staffed, Complete, Installing, Emptied, WithDomains, WithAccounts, Counted
<1> QED
    BY <1>3, <1>4 DEF CheckCyrusAdmin

\* The new row is that of an administrator of the IMAP server, and its table is
\* there: only now the version and the tables agree.
LEMMA SetCyrusAdminStep ==
    ASSUME InstallationInv, SetCyrusAdmin
    PROVE  InstallationInv'
<1> DEFINE row == [domain |-> Server, quota |-> 0]
           rows == Over(Row(CyrusAdmin, row), base.accounts)
           c == [base EXCEPT !.accounts = rows]
<1>1. IsTool(tool') /\ tool'.step = "imap" /\ last' = last
    <2>1. "imap" \in Steps
        BY DEF Steps, Opened
    <2> QED
        BY <2>1, GoStep DEF InstallationInv, SetCyrusAdmin
<1>2. /\ file' = file /\ last = "none" /\ "Database" \in file.groups /\ file.db
      /\ SuperUsers(base) # {} /\ IsBase(base) /\ base' = c
      /\ AccountUser \in base.tables
    BY DEF InstallationInv, SetCyrusAdmin, MaySetCyrusAdmin, LastFits, SetupFits, At, Opened, Versioned, Staffed
<1>3. CyrusAdmin \in DOMAIN rows /\ rows[CyrusAdmin] = row
    BY DEF Over, Row
<1>4. row.domain = Server
    OBVIOUS
<1> HIDE DEF row, rows
<1>5. /\ DOMAIN c = Fields /\ c = [f \in Fields |-> c[f]]
      /\ c.accounts = rows /\ c.tables = base.tables /\ c.version = base.version /\ c.admins = base.admins
    BY <1>2 DEF IsBase, Fields
<1> HIDE DEF c
<1>6. IsBase(c)
    BY <1>2, <1>5 DEF IsBase
<1>7. SuperUsers(c) = SuperUsers(base) /\ CyrusAdmins(c) # {}
    BY <1>3, <1>4, <1>5 DEF SuperUsers, CyrusAdmins
<1> QED
    BY <1>1, <1>2, <1>5, <1>6, <1>7 DEF InstallationInv, SetupFits, ImportFits, LastFits, Opened, Versioned,
       Staffed, Complete, Installing, Emptied, WithDomains, WithAccounts, Counted

\* A tool that ends without success leaves a database that is well-formed.
LEMMA FailedStep ==
    ASSUME InstallationInv, IsBase(base'), file' = file, End("failed")
    PROVE  InstallationInv'
<1>1. IsTool(tool') /\ tool'.step = "idle" /\ last' = "failed"
    BY EndStep
<1> QED
    BY <1>1 DEF InstallationInv, SetupFits, ImportFits, LastFits, Opened, Versioned,
       Staffed, Complete, Installing, Emptied, WithDomains, WithAccounts, Counted

LEMMA KeepImapStep ==
    ASSUME InstallationInv, KeepImap
    PROVE  InstallationInv'
<1>1. "behavior" \in Steps
    BY DEF Steps, Opened
<1>2. IsTool(tool') /\ tool'.step = "behavior" /\ last' = last
    BY <1>1, GoStep DEF InstallationInv, KeepImap
<1>3. /\ base' = base /\ file' = file /\ last = "none" /\ "Database" \in file.groups /\ file.db
      /\ SuperUsers(base) # {} /\ CyrusAdmins(base) # {}
    BY DEF InstallationInv, KeepImap, LastFits, SetupFits, At, Opened, Versioned, Staffed, Complete
<1>4. "IMAP" \in file.groups /\ LoginReports(file.mech, file.imap)
    BY DEF KeepImap
<1> QED
    BY <1>2, <1>3, <1>4 DEF InstallationInv, SetupFits, ImportFits, LastFits, Opened, Versioned,
       Staffed, Complete, Installing, Emptied, WithDomains, WithAccounts, Counted

LEMMA AskImapStep ==
    ASSUME InstallationInv, NEW entry \in ImapEntries, AskImap(entry)
    PROVE  InstallationInv'
<1>1. "behavior" \in Steps
    BY DEF Steps, Opened
<1>2. IsTool(tool') /\ tool'.step = "behavior" /\ last' = last
    BY <1>1, GoStep DEF InstallationInv, AskImap
<1>3. /\ base' = base /\ last = "none" /\ "Database" \in file.groups /\ file.db
      /\ SuperUsers(base) # {} /\ CyrusAdmins(base) # {}
    BY DEF InstallationInv, AskImap, LastFits, SetupFits, At, Opened, Versioned, Staffed, Complete
<1>4. entry[1] \in Mechs /\ entry[2] \in BOOLEAN
    BY DEF ImapEntries
<1>5. /\ IsFile(file') /\ "IMAP" \in file'.groups /\ file'.mech = entry[1] /\ file'.imap = entry[2]
      /\ "Database" \in file'.groups /\ file'.db
    BY <1>3, <1>4 DEF InstallationInv, AskImap, IsFile, Group
<1>6. LoginReports(file'.mech, file'.imap)
    BY <1>5 DEF AskImap
<1> QED
    BY <1>2, <1>3, <1>5, <1>6 DEF InstallationInv, SetupFits, ImportFits, LastFits, Opened, Versioned,
       Staffed, Complete, Installing, Emptied, WithDomains, WithAccounts, Counted

LEMMA FinishSetupStep ==
    ASSUME InstallationInv, FinishSetup
    PROVE  InstallationInv'
<1>1. IsTool(tool') /\ tool'.step = "idle" /\ last' = "setup" /\ "Behavior" \in Group
    BY EndStep DEF FinishSetup, Group
<1>2. /\ base' = base /\ "Database" \in file.groups /\ file.db /\ "IMAP" \in file.groups /\ LoginReports(file.mech, file.imap)
      /\ SuperUsers(base) # {} /\ CyrusAdmins(base) # {}
    BY DEF InstallationInv, FinishSetup, SetupFits, At, Opened, Versioned, Staffed, Complete
<1>3. /\ IsFile(file') /\ "Database" \in file'.groups /\ file'.db
      /\ "IMAP" \in file'.groups /\ LoginReports(file'.mech, file'.imap)
    BY <1>1, <1>2, AskStep DEF InstallationInv, FinishSetup
<1> QED
    BY <1>1, <1>2, <1>3 DEF InstallationInv, SetupFits, ImportFits, LastFits, SetupLeft, Opened, Versioned,
       Staffed, Complete, Installing, Emptied, WithDomains, WithAccounts, Counted

-----------------------------------------------------------------------------
(* The steps of an import *)

\* The steps that only go on
LEMMA StartStep ==
    ASSUME InstallationInv, StartSetup \/ StartImport
    PROVE  InstallationInv'
<1>1. IsTool(tool') /\ tool'.step \in {"open", "source"} /\ last' = "none"
    <2>1. CASE StartSetup
        <3>1. \E first \in BOOLEAN : tool' = [step |-> "open", fresh |-> first]
            BY <2>1, Zenon DEF StartSetup
        <3> QED
            BY <2>1, <3>1 DEF StartSetup, IsTool, Steps, OtherSteps
    <2>2. CASE StartImport
        BY <2>2 DEF StartImport, IsTool, Steps, OtherSteps
    <2> QED
        BY <2>1, <2>2
<1>2. base' = base /\ file' = file
    BY DEF StartSetup, StartImport
<1> QED
    BY <1>1, <1>2 DEF InstallationInv, SetupFits, ImportFits, LastFits, Opened, Versioned,
       Staffed, Complete, Installing, Emptied, WithDomains, WithAccounts, Counted

LEMMA AskBeforeImportStep ==
    ASSUME InstallationInv, ReadSource \/ ConnectAll \/ Confirm
    PROVE  InstallationInv'
<1>1. base' = base /\ file' = file /\ last = "none" /\ IsBase(base')
    BY DEF InstallationInv, ReadSource, ConnectAll, Confirm, At, LastFits
<1>2. CASE End("failed")
    BY <1>1, <1>2, FailedStep
<1>3. CASE Go("connect") \/ Go("confirm") \/ Go("clear")
    <2>1. {"connect", "confirm", "clear"} \subseteq Steps
        BY DEF Steps, OtherSteps
    <2>2. IsTool(tool') /\ tool'.step \in {"connect", "confirm", "clear"} /\ last' = last
        BY <1>3, <2>1, GoStep DEF InstallationInv
    <2> QED
        BY <1>1, <2>2 DEF InstallationInv, SetupFits, ImportFits, LastFits, Opened, Versioned,
           Staffed, Complete, Installing, Emptied, WithDomains, WithAccounts, Counted
<1> QED
    BY <1>2, <1>3 DEF ReadSource, ConnectAll, Confirm

LEMMA ClearDatabaseStep ==
    ASSUME InstallationInv, ClearDatabase
    PROVE  InstallationInv'
<1>1. IsTool(tool') /\ tool'.step = "install" /\ last' = last
    <2>1. "install" \in Steps
        BY DEF Steps, Emptied
    <2> QED
        BY <2>1, GoStep DEF InstallationInv, ClearDatabase
<1>2. IsBase(base') /\ DOMAIN base'.accounts = {}
    BY ClearedBase DEF InstallationInv, ClearDatabase
<1>3. file' = file /\ last = "none"
    BY DEF InstallationInv, ClearDatabase, LastFits, At
<1> QED
    BY <1>1, <1>2, <1>3 DEF InstallationInv, SetupFits, ImportFits, LastFits, Opened, Versioned,
       Staffed, Complete, Installing, Emptied, WithDomains, WithAccounts, Counted

LEMMA InstallAgainStep ==
    ASSUME InstallationInv, InstallAgain
    PROVE  InstallationInv'
<1>1. IsTool(tool') /\ tool'.step = "domains" /\ last' = last
    <2>1. "domains" \in Steps
        BY DEF Steps, Emptied
    <2> QED
        BY <2>1, GoStep DEF InstallationInv, InstallAgain
<1>2. IsBase(base') /\ DOMAIN base'.accounts = {}
    <2>1. DOMAIN base.accounts = {}
        BY DEF InstallationInv, InstallAgain, ImportFits, At, Emptied
    <2> QED
        BY <2>1, InstalledBase DEF InstallationInv, InstallAgain
<1>3. file' = file /\ last = "none"
    BY DEF InstallationInv, InstallAgain, LastFits, At
<1> QED
    BY <1>1, <1>2, <1>3 DEF InstallationInv, SetupFits, ImportFits, LastFits, Opened, Versioned,
       Staffed, Complete, Installing, Emptied, WithDomains, WithAccounts, Counted

\* Inserting rows of domains or of administrators, whichever these are
LEMMA DomainRowsBase ==
    ASSUME NEW b, IsBase(b), NEW rows
    PROVE  LET c == [b EXCEPT !.domains = Over(rows, @)]
           IN  /\ IsBase(c) /\ c.tables = b.tables /\ c.accounts = b.accounts
               /\ DOMAIN c.domains = DOMAIN rows \union DOMAIN b.domains
<1> DEFINE more == Over(rows, b.domains)
           c == [b EXCEPT !.domains = more]
<1>1. DOMAIN more = DOMAIN rows \union DOMAIN b.domains
    BY OverRows
<1> HIDE DEF more
<1>2. /\ DOMAIN c = Fields /\ c = [f \in Fields |-> c[f]]
      /\ c.domains = more /\ c.tables = b.tables /\ c.version = b.version /\ c.accounts = b.accounts
    BY DEF IsBase, Fields
<1> HIDE DEF c
<1>3. IsBase(c)
    BY <1>2 DEF IsBase
<1> QED
    BY <1>1, <1>2, <1>3 DEF c, more

LEMMA AdminRowsBase ==
    ASSUME NEW b, IsBase(b), NEW rows
    PROVE  LET c == [b EXCEPT !.admins = Over(rows, @)]
           IN  /\ IsBase(c) /\ c.tables = b.tables /\ c.accounts = b.accounts
               /\ c.domains = b.domains
<1> DEFINE more == Over(rows, b.admins)
           c == [b EXCEPT !.admins = more]
<1> HIDE DEF more
<1>2. /\ DOMAIN c = Fields /\ c = [f \in Fields |-> c[f]]
      /\ c.domains = b.domains /\ c.tables = b.tables /\ c.version = b.version /\ c.accounts = b.accounts
    BY DEF IsBase, Fields
<1> HIDE DEF c
<1>3. IsBase(c)
    BY <1>2 DEF IsBase
<1> QED
    BY <1>2, <1>3 DEF c, more

LEMMA ImportDomainsStep ==
    ASSUME InstallationInv, ImportDomains
    PROVE  InstallationInv'
<1> DEFINE rows == [d \in WebDomain |-> [count |-> 0, used |-> 0]]
<1>1. IsTool(tool') /\ tool'.step = "folders" /\ last' = last
    <2>1. "folders" \in Steps
        BY DEF Steps, Emptied
    <2> QED
        BY <2>1, GoStep DEF InstallationInv, ImportDomains
<1>2. /\ file' = file /\ last = "none" /\ IsBase(base)
      /\ DOMAIN base.accounts = {}
    BY DEF InstallationInv, ImportDomains, LastFits, ImportFits, At, Emptied, Installing
<1>3. base' = [base EXCEPT !.domains = Over(rows, @)]
    BY DEF ImportDomains
<1>4. DOMAIN rows = WebDomain
    OBVIOUS
<1> HIDE DEF rows
<1>5. /\ IsBase(base') /\ DOMAIN base'.accounts = {}
      /\ HasDomains(base')
    BY <1>2, <1>3, <1>4, DomainRowsBase DEF HasDomains
<1> QED
    BY <1>1, <1>2, <1>5 DEF InstallationInv, SetupFits, ImportFits, LastFits, Opened, Versioned,
       Staffed, Complete, Installing, Emptied, WithDomains, WithAccounts, Counted

LEMMA CannotImportDomainsStep ==
    ASSUME InstallationInv, CannotImportDomains
    PROVE  InstallationInv'
<1>1. PICK some \in SUBSET Insertable(DomainTable, WebDomain, base.domains) :
          base' = [base EXCEPT !.domains = Over([d \in some |-> [count |-> 0, used |-> 0]], @)]
    BY DEF CannotImportDomains
<1>2. IsBase(base')
    BY <1>1, DomainRowsBase DEF InstallationInv
<1> QED
    BY <1>2, FailedStep DEF CannotImportDomains

LEMMA ImportFoldersStep ==
    ASSUME InstallationInv, ImportFolders
    PROVE  InstallationInv'
<1>1. /\ base' = base /\ file' = file /\ last = "none" /\ IsBase(base')
      /\ DOMAIN base.accounts = {} /\ HasDomains(base)
    BY DEF InstallationInv, ImportFolders, LastFits, ImportFits, At, Emptied, Installing, WithDomains
<1>2. CASE End("failed")
    BY <1>1, <1>2, FailedStep
<1>3. CASE Go("people")
    <2>1. "people" \in Steps
        BY DEF Steps, Emptied
    <2>2. IsTool(tool') /\ tool'.step = "people" /\ last' = last
        BY <1>3, <2>1, GoStep DEF InstallationInv
    <2> QED
        BY <1>1, <2>2 DEF InstallationInv, SetupFits, ImportFits, LastFits, Opened, Versioned,
           Staffed, Complete, Installing, Emptied, WithDomains, WithAccounts, Counted
<1> QED
    BY <1>2, <1>3 DEF ImportFolders

LEMMA ImportAdminsStep ==
    ASSUME InstallationInv, ImportAdmins
    PROVE  InstallationInv'
<1>1. IsTool(tool') /\ tool'.step = "accounts" /\ last' = last
    <2>1. "accounts" \in Steps
        BY DEF Steps, Emptied
    <2> QED
        BY <2>1, GoStep DEF InstallationInv, ImportAdmins
<1>2. /\ file' = file /\ last = "none" /\ IsBase(base)
      /\ DOMAIN base.accounts = {} /\ HasDomains(base)
    BY DEF InstallationInv, ImportAdmins, LastFits, ImportFits, At, Emptied, Installing, WithDomains
<1>3. base' = [base EXCEPT !.admins = Over([n \in WebAdmin |-> "other"], @)]
    BY DEF ImportAdmins
<1>4. /\ IsBase(base') /\ DOMAIN base'.accounts = {}
      /\ HasDomains(base')
    BY <1>2, <1>3, AdminRowsBase DEF HasDomains
<1> QED
    BY <1>1, <1>2, <1>4 DEF InstallationInv, SetupFits, ImportFits, LastFits, Opened, Versioned,
       Staffed, Complete, Installing, Emptied, WithDomains, WithAccounts, Counted

LEMMA CannotImportAdminsStep ==
    ASSUME InstallationInv, CannotImportAdmins
    PROVE  InstallationInv'
<1>1. PICK some \in SUBSET Insertable(AdminUser, WebAdmin, base.admins) :
          base' = [base EXCEPT !.admins = Over([n \in some |-> "other"], @)]
    BY DEF CannotImportAdmins
<1>2. IsBase(base')
    BY <1>1, AdminRowsBase DEF InstallationInv
<1> QED
    BY <1>2, FailedStep DEF CannotImportAdmins

\* Accounts are inserted into the table there is.
LEMMA AccountRowsBase ==
    ASSUME NEW b, IsBase(b), NEW rows, AccountUser \in b.tables \/ DOMAIN rows = {}
    PROVE  LET c == [b EXCEPT !.accounts = Over(rows, @)]
           IN  /\ IsBase(c) /\ c.tables = b.tables /\ c.accounts = Over(rows, b.accounts)
               /\ c.domains = b.domains
<1> DEFINE more == Over(rows, b.accounts)
           c == [b EXCEPT !.accounts = more]
<1>1. AccountUser \notin b.tables => DOMAIN more = {}
    <2>1. DOMAIN more = DOMAIN rows \union DOMAIN b.accounts
        BY OverRows
    <2>2. AccountUser \notin b.tables => DOMAIN b.accounts = {}
        BY DEF IsBase
    <2> HIDE DEF more
    <2> QED
        BY <2>1, <2>2
<1> HIDE DEF more
<1>2. /\ DOMAIN c = Fields /\ c = [f \in Fields |-> c[f]]
      /\ c.domains = b.domains /\ c.tables = b.tables /\ c.version = b.version /\ c.accounts = more
    BY DEF IsBase, Fields
<1> HIDE DEF c
<1>3. IsBase(c)
    BY <1>1, <1>2 DEF IsBase
<1> QED
    BY <1>2, <1>3 DEF c, more

\* With the table emptied, the accounts are those of web-cyradm and no other.
LEMMA ImportAccountsStep ==
    ASSUME InstallationInv, ImportAccounts
    PROVE  InstallationInv'
<1>1. IsTool(tool') /\ tool'.step = "addresses" /\ last' = last
    <2>1. "addresses" \in Steps
        BY DEF Steps, Installing
    <2> QED
        BY <2>1, GoStep DEF InstallationInv, ImportAccounts
<1>2. /\ file' = file /\ last = "none" /\ IsBase(base)
      /\ DOMAIN base.accounts = {} /\ HasDomains(base)
    BY DEF InstallationInv, ImportAccounts, LastFits, ImportFits, At, Emptied, Installing, WithDomains
<1>3. PICK unanswered \in SUBSET DOMAIN WebAccount :
          base' = [base EXCEPT !.accounts =
                     Over([a \in DOMAIN WebAccount |-> WebRow(a, a \notin unanswered)], @)]
    BY DEF ImportAccounts
<1> DEFINE rows == [a \in DOMAIN WebAccount |-> WebRow(a, a \notin unanswered)]
<1>4. DOMAIN rows = DOMAIN WebAccount
    OBVIOUS
<1>5. \A a \in DOMAIN WebAccount : rows[a].domain = DomainId(WebAccount[a])
    <2>1. ASSUME NEW a \in DOMAIN WebAccount
          PROVE  rows[a] = WebRow(a, a \notin unanswered)
        BY Zenon
    <2>2. \A a, q : WebRow(a, q).domain = DomainId(WebAccount[a])
        BY DEF WebRow
    <2> QED
        BY <2>1, <2>2, Zenon
<1> HIDE DEF rows
<1>6. /\ IsBase(base') /\ base'.domains = base.domains
      /\ base'.accounts = Over(rows, base.accounts)
    <2>1. AccountUser \in base.tables
        BY DEF ImportAccounts
    <2> QED
        BY <1>2, <1>3, <2>1, AccountRowsBase DEF rows
<1>7. HasAccounts(base')
    <2>1. /\ DOMAIN Over(rows, base.accounts) = DOMAIN rows \union DOMAIN base.accounts
          /\ \A a \in DOMAIN rows : Over(rows, base.accounts)[a] = rows[a]
        BY OverRows
    <2>2. DOMAIN rows \union DOMAIN base.accounts = DOMAIN WebAccount
        BY <1>2, <1>4
    <2> QED
        BY <1>4, <1>5, <1>6, <2>1, <2>2 DEF HasAccounts
<1>8. HasDomains(base')
    BY <1>2, <1>6 DEF HasDomains
<1> QED
    BY <1>1, <1>2, <1>6, <1>7, <1>8 DEF InstallationInv, SetupFits, ImportFits, LastFits, Opened, Versioned,
       Staffed, Complete, Installing, Emptied, WithDomains, WithAccounts, Counted

LEMMA PartOfAccountsStep ==
    ASSUME InstallationInv, PartOfAccounts
    PROVE  InstallationInv'
<1>1. IsBase(base)
    BY DEF InstallationInv
<1>2. PICK some \in SUBSET Insertable(AccountUser, DOMAIN WebAccount, base.accounts) :
          base' = [base EXCEPT !.accounts = Over([a \in some |-> WebRow(a, TRUE)], @)]
    BY DEF PartOfAccounts
<1> DEFINE rows == [a \in some |-> WebRow(a, TRUE)]
<1>3. DOMAIN rows = some
    OBVIOUS
<1>4. AccountUser \in base.tables \/ DOMAIN rows = {}
    BY <1>2, <1>3 DEF Insertable
<1> HIDE DEF rows
<1>5. IsBase([base EXCEPT !.accounts = Over(rows, @)])
    BY <1>1, <1>4, AccountRowsBase
<1>6. IsBase(base')
    BY <1>2, <1>5 DEF rows
<1> QED
    BY <1>6, FailedStep DEF PartOfAccounts

LEMMA ImportAddressesStep ==
    ASSUME InstallationInv, ImportAddresses
    PROVE  InstallationInv'
<1>1. /\ base' = base /\ file' = file /\ last = "none" /\ IsBase(base')
      /\ HasDomains(base) /\ HasAccounts(base)
    BY DEF InstallationInv, ImportAddresses, LastFits, ImportFits, At, Installing, WithDomains, WithAccounts
<1>2. CASE End("failed")
    BY <1>1, <1>2, FailedStep
<1>3. CASE Go("count")
    <2>1. "count" \in Steps
        BY DEF Steps, Installing
    <2>2. IsTool(tool') /\ tool'.step = "count" /\ last' = last
        BY <1>3, <2>1, GoStep DEF InstallationInv
    <2> QED
        BY <1>1, <2>2 DEF InstallationInv, SetupFits, ImportFits, LastFits, Opened, Versioned,
           Staffed, Complete, Installing, Emptied, WithDomains, WithAccounts, Counted
<1> QED
    BY <1>2, <1>3 DEF ImportAddresses

\* The counters are taken from the accounts, which the update does not touch.
LEMMA UpdateDomainsStep ==
    ASSUME InstallationInv, UpdateDomains
    PROVE  InstallationInv'
<1> DEFINE new == [d \in DOMAIN base.domains |-> IF d \in WebDomain THEN Counts(base, d) ELSE base.domains[d]]
           c == [base EXCEPT !.domains = new]
<1>1. IsTool(tool') /\ tool'.step = "passwords" /\ last' = last
    <2>1. "passwords" \in Steps
        BY DEF Steps, Installing
    <2> QED
        BY <2>1, GoStep DEF InstallationInv, UpdateDomains
<1>2. /\ file' = file /\ last = "none" /\ IsBase(base)
      /\ HasDomains(base) /\ HasAccounts(base)
    BY DEF InstallationInv, UpdateDomains, LastFits, ImportFits, At, Installing, WithDomains, WithAccounts
<1>3. base' = c
    BY DEF UpdateDomains
<1>4. DOMAIN new = DOMAIN base.domains /\ \A d \in WebDomain : new[d] = Counts(base, d)
    BY <1>2 DEF HasDomains
<1> HIDE DEF new
<1>5. /\ DOMAIN c = Fields /\ c = [f \in Fields |-> c[f]]
      /\ c.domains = new /\ c.tables = base.tables /\ c.version = base.version /\ c.accounts = base.accounts
    BY <1>2 DEF IsBase, Fields
<1> HIDE DEF c
<1>6. IsBase(c)
    BY <1>2, <1>5 DEF IsBase
<1>7. HasDomains(c) /\ HasAccounts(c)
    BY <1>2, <1>4, <1>5 DEF HasDomains, HasAccounts
<1>8. HasCounts(c)
    <2>1. ASSUME NEW d \in WebDomain
          PROVE  /\ c.domains[d].count = Cardinality(AccountsOf(c, d))
                 /\ c.domains[d].used = QuotaOf(c.accounts, AccountsOf(c, d))
        <3>1. AccountsOf(c, d) = AccountsOf(base, d)
            BY <1>5 DEF AccountsOf
        <3>2. c.domains[d] = Counts(base, d)
            BY <1>4, <1>5
        <3>3. /\ Counts(base, d).count = Cardinality(AccountsOf(base, d))
              /\ Counts(base, d).used = QuotaOf(base.accounts, AccountsOf(base, d))
            BY DEF Counts
        <3>4. QuotaOf(c.accounts, AccountsOf(c, d)) = QuotaOf(base.accounts, AccountsOf(base, d))
            BY <1>5, <3>1
        <3> QED
            BY <3>1, <3>2, <3>3, <3>4
    <2> QED
        BY <2>1 DEF HasCounts
<1> QED
    BY <1>1, <1>2, <1>3, <1>5, <1>6, <1>7, <1>8 DEF InstallationInv, SetupFits, ImportFits, LastFits, Opened,
       Versioned, Staffed, Complete, Installing, Emptied, WithDomains, WithAccounts, Counted

LEMMA SetPasswordsStep ==
    ASSUME InstallationInv, SetPasswords
    PROVE  InstallationInv'
<1>1. IsTool(tool') /\ tool'.step = "configuration" /\ last' = last
    <2>1. "configuration" \in Steps
        BY DEF Steps, Installing
    <2> QED
        BY <2>1, GoStep DEF InstallationInv, SetPasswords
<1>2. /\ base' = base /\ file' = file /\ last = "none" /\ IsBase(base)
      /\ HasDomains(base) /\ HasAccounts(base) /\ HasCounts(base)
    BY DEF InstallationInv, SetPasswords, LastFits, ImportFits, At, Installing, WithDomains, WithAccounts, Counted
<1> QED
    BY <1>1, <1>2 DEF InstallationInv, SetupFits, ImportFits, LastFits, Opened,
       Versioned, Staffed, Complete, Installing, Emptied, WithDomains, WithAccounts, Counted

LEMMA WriteConfigurationStep ==
    ASSUME InstallationInv, WriteConfiguration
    PROVE  InstallationInv'
<1>1. IsTool(tool') /\ tool'.step = "idle" /\ last' = "import"
    BY EndStep DEF WriteConfiguration
<1>2. /\ base' = base /\ IsBase(base)
      /\ HasDomains(base) /\ HasAccounts(base) /\ HasCounts(base)
    BY DEF InstallationInv, WriteConfiguration, ImportFits, At, Installing, WithDomains, WithAccounts, Counted
<1>3. IsFile(file')
    BY DEF InstallationInv, WriteConfiguration, IsFile, Group
<1> QED
    BY <1>1, <1>2, <1>3 DEF InstallationInv, SetupFits, ImportFits, LastFits, ImportLeft, Opened,
       Versioned, Staffed, Complete, Installing, Emptied, WithDomains, WithAccounts, Counted

-----------------------------------------------------------------------------
(* Runs that break off, and what happens between two runs *)

LEMMA BreakStep ==
    ASSUME InstallationInv, Break \/ CannotSetAdmin \/ CannotSetCyrusAdmin
    PROVE  InstallationInv'
<1>1. base' = base /\ file' = file /\ End("failed")
    BY DEF Break, CannotSetAdmin, CannotSetCyrusAdmin
<1>2. IsBase(base')
    BY <1>1 DEF InstallationInv
<1> QED
    BY <1>1, <1>2, FailedStep

LEMMA BreakInstallationStep ==
    ASSUME InstallationInv, BreakInstallation
    PROVE  InstallationInv'
<1>1. PICK n \in 1 .. 8 : base' = PartlyInstalled(base, n)
    <2>1. Len(CreationOrder) = 8
        BY DEF CreationOrder
    <2> QED
        BY <2>1 DEF BreakInstallation
<1>2. /\ IsBase(base') /\ base'.accounts = base.accounts /\ file' = file
    BY <1>1, PartlyInstalledBase DEF InstallationInv, BreakInstallation
<1>3. CASE End("failed")
    BY <1>2, <1>3, FailedStep
<1>4. CASE At("layout") /\ Go("admins")
    <2>1. "admins" \in Steps
        BY DEF Steps, Opened
    <2>2. IsTool(tool') /\ tool'.step = "admins" /\ last' = last
        BY <1>4, <2>1, GoStep DEF InstallationInv
    <2>3. last = "none" /\ "Database" \in file.groups /\ file.db
        BY <1>4 DEF InstallationInv, LastFits, SetupFits, At, Opened
    <2> QED
        BY <1>2, <2>2, <2>3 DEF InstallationInv, SetupFits, ImportFits, LastFits, Opened,
           Staffed, Complete, Installing, Emptied, WithDomains, WithAccounts, Counted
<1>5. CASE At("install") /\ Go("domains")
    <2>1. "domains" \in Steps
        BY DEF Steps, Emptied
    <2>2. IsTool(tool') /\ tool'.step = "domains" /\ last' = last
        BY <1>5, <2>1, GoStep DEF InstallationInv
    <2>3. last = "none" /\ DOMAIN base.accounts = {}
        BY <1>5 DEF InstallationInv, LastFits, ImportFits, At, Emptied
    <2> QED
        BY <1>2, <2>2, <2>3 DEF InstallationInv, SetupFits, ImportFits, LastFits, Opened,
           Staffed, Complete, Installing, Emptied, WithDomains, WithAccounts, Counted
<1>6. (At("layout") /\ Go("admins")) \/ (At("install") /\ Go("domains")) \/ End("failed")
    BY DEF BreakInstallation, At
<1> QED
    BY <1>3, <1>4, <1>5, <1>6

LEMMA PasswordChangedStep ==
    ASSUME InstallationInv, PasswordChanged
    PROVE  InstallationInv'
<1>1. base' = base /\ tool' = tool /\ tool.step = "idle" /\ last' = "changed"
    BY DEF PasswordChanged, Running
<1>2. IsFile(file')
    <2>1. CASE file' = [file EXCEPT !.db = FALSE]
        BY <2>1 DEF InstallationInv, IsFile
    <2>2. CASE file' = [file EXCEPT !.imap = FALSE]
        BY <2>2 DEF InstallationInv, IsFile
    <2> QED
        BY <2>1, <2>2 DEF PasswordChanged
<1> QED
    BY <1>1, <1>2 DEF InstallationInv, SetupFits, ImportFits, LastFits, Opened,
       Versioned, Staffed, Complete, Installing, Emptied, WithDomains, WithAccounts, Counted

-----------------------------------------------------------------------------
(* The theorems *)

LEMMA InstallationInit ==
    Init => InstallationInv
<1> SUFFICES ASSUME Init PROVE InstallationInv
    OBVIOUS
<1>1. IsTool(tool) /\ tool.step = "idle" /\ last = "none"
    BY DEF Init, Idle, IsTool, Steps, OtherSteps
<1>2. IsFile(file)
    <2>1. CASE file = [groups |-> {}, db |-> FALSE, imap |-> FALSE, mech |-> "CLEAR"]
        BY <2>1 DEF IsFile
    <2>2. CASE file = [groups |-> {"Accounts", "Admins", "Database", "IMAP", "Behavior"},
                       db |-> TRUE, imap |-> TRUE, mech |-> "CLEAR"]
        BY <2>2 DEF IsFile, Group
    <2> QED
        BY <2>1, <2>2 DEF Init
<1>3. IsBase(base)
    <2>1. ASSUME NEW refused, base = Nothing(refused)
          PROVE  IsBase(base)
        BY <2>1 DEF Nothing, NoRows, IsBase, Fields
    <2>2. ASSUME NEW n, NEW refused, base = InUse(n, refused)
          PROVE  IsBase(base)
        <3>1. AccountUser \in Table
            BY DEF AccountUser, Table
        <3> QED
            BY <2>2, <3>1 DEF InUse, IsBase, Fields
    <2> QED
        BY <2>1, <2>2 DEF Init
<1> QED
    BY <1>1, <1>2, <1>3 DEF InstallationInv, SetupFits, ImportFits, LastFits, Opened,
       Versioned, Staffed, Complete, Installing, Emptied, WithDomains, WithAccounts, Counted

LEMMA InstallationStep ==
    ASSUME InstallationInv, [Next]_vars
    PROVE  InstallationInv'
<1>1. CASE SetupStep
    BY <1>1, OpenDatabaseStep, CheckLayoutStep, CheckAdminStep, SetAdminStep, BreakStep, WriteAdminsStep,
       AskAccountsStep, CheckCyrusAdminStep, SetCyrusAdminStep, KeepImapStep, AskImapStep, FinishSetupStep
       DEF SetupStep
<1>2. CASE ImportStep
    BY <1>2, AskBeforeImportStep, ClearDatabaseStep, InstallAgainStep, ImportDomainsStep,
       CannotImportDomainsStep, ImportFoldersStep, ImportAdminsStep, CannotImportAdminsStep,
       ImportAccountsStep, PartOfAccountsStep, ImportAddressesStep, UpdateDomainsStep, SetPasswordsStep,
       WriteConfigurationStep
       DEF ImportStep
<1>3. CASE StartSetup \/ StartImport \/ Break \/ BreakInstallation \/ PasswordChanged
    BY <1>3, StartStep, BreakStep, BreakInstallationStep, PasswordChangedStep
<1>4. CASE UNCHANGED vars
    BY <1>4 DEF vars, InstallationInv
<1> QED
    BY <1>1, <1>2, <1>3, <1>4 DEF Next

\* A version disappears with its table only, and nothing but the beginning of
\* a run comes before the installation.
LEMMA VersionStep ==
    ASSUME InstallationInv, VersionInv, [Next]_vars
    PROVE  VersionInv'
<1> USE DEF VersionInv
<1>1. faults' \in Nat /\ (faults' = 0 => faults = 0)
    <2>1. faults' = faults \/ faults' = faults + 1
        BY DEF Next, vars, SetupStep, ImportStep, StartSetup, StartImport, OpenDatabase, CheckLayout, CheckAdmin,
           SetAdmin, CannotSetAdmin, WriteAdmins, AskAccounts, CheckCyrusAdmin, SetCyrusAdmin, CannotSetCyrusAdmin,
           KeepImap, AskImap, FinishSetup, ReadSource, ConnectAll, Confirm, ClearDatabase, InstallAgain,
           ImportDomains, CannotImportDomains, ImportFolders, ImportAdmins, CannotImportAdmins, ImportAccounts,
           PartOfAccounts, ImportAddresses, UpdateDomains, SetPasswords, WriteConfiguration, Break,
           BreakInstallation, PasswordChanged, Fault, NoFault
    <2> QED
        BY <2>1
<1> DEFINE Kept == base'.version = base.version /\ base'.refused = base.refused
<1>2. ASSUME Kept, tool.step \in Versioned
      PROVE  VersionInv'
    BY <1>1, <1>2
<1>3. ASSUME tool'.step \notin Versioned, last' # "setup"
      PROVE  VersionInv'
    BY <1>1, <1>3
<1>4. ASSUME NEW how, how # "setup", End(how)
      PROVE  VersionInv'
    BY <1>1, <1>4 DEF End, Idle, Versioned, Opened
<1>5. ASSUME NEW step, step \notin Versioned, Go(step), tool.step # "idle"
      PROVE  VersionInv'
    BY <1>1, <1>5 DEF Go, InstallationInv, LastFits, IsTool
<1>6. CASE CheckLayout
    <2>1. CASE UNCHANGED base /\ InstalledVersion(base)
        BY <1>1, <2>1 DEF InstalledVersion
    <2>2. CASE \E stop \in Stops(base) : base' = Installed(base, stop)
        <3>1. PICK stop \in Stops(base) : base' = Installed(base, stop)
            BY <2>2
        <3>2. base.refused = {} => stop = {}
            BY DEF Stops
        <3> QED
            BY <1>1, <3>1, <3>2, InstalledBase DEF InstallationInv
    <2> QED
        BY <1>6, <2>1, <2>2 DEF CheckLayout
<1>7. CASE BreakInstallation
    BY <1>1, <1>7 DEF BreakInstallation, Fault
<1>8. CASE CheckAdmin \/ WriteAdmins \/ AskAccounts \/ CheckCyrusAdmin \/ KeepImap \/ FinishSetup
           \/ (\E entry \in ImapEntries : AskImap(entry))
    BY <1>2, <1>8 DEF CheckAdmin, WriteAdmins, AskAccounts, CheckCyrusAdmin, KeepImap, FinishSetup, AskImap, At,
       Versioned, Opened
<1>9. CASE (\E n \in AdminName : SetAdmin(n)) \/ SetCyrusAdmin
    <2>1. Kept
        BY <1>9 DEF SetAdmin, SetCyrusAdmin, InstallationInv, IsBase, Fields
    <2>2. tool.step \in Versioned
        BY <1>9 DEF SetAdmin, SetCyrusAdmin, At, Versioned, Opened
    <2> QED
        BY <1>2, <2>1, <2>2
<1>10. CASE CannotSetAdmin \/ CannotSetCyrusAdmin \/ CannotImportDomains \/ CannotImportAdmins \/ PartOfAccounts
            \/ WriteConfiguration \/ Break
    BY <1>4, <1>10 DEF CannotSetAdmin, CannotSetCyrusAdmin, CannotImportDomains, CannotImportAdmins, PartOfAccounts,
       WriteConfiguration, Break
<1>11. CASE OpenDatabase \/ ReadSource \/ ConnectAll \/ Confirm \/ ClearDatabase \/ InstallAgain \/ ImportDomains
            \/ ImportFolders \/ ImportAdmins \/ ImportAccounts \/ ImportAddresses \/ UpdateDomains \/ SetPasswords
    <2>1. tool.step # "idle"
        BY <1>11 DEF OpenDatabase, ReadSource, ConnectAll, Confirm, ClearDatabase, InstallAgain, ImportDomains,
           ImportFolders, ImportAdmins, ImportAccounts, ImportAddresses, UpdateDomains, SetPasswords, At
    <2>2. End("failed") \/ \E step \in {"layout"} \union OtherSteps \union Emptied \union Installing : Go(step)
        BY <1>11 DEF OpenDatabase, ReadSource, ConnectAll, Confirm, ClearDatabase, InstallAgain, ImportDomains,
           ImportFolders, ImportAdmins, ImportAccounts, ImportAddresses, UpdateDomains, SetPasswords,
           OtherSteps, Emptied, Installing
    <2>3. ({"layout"} \union OtherSteps \union Emptied \union Installing) \intersect Versioned = {}
        BY DEF Versioned, Opened, OtherSteps, Emptied, Installing
    <2> QED
        BY <1>4, <1>5, <2>1, <2>2, <2>3
<1>12. CASE StartSetup \/ StartImport
    BY <1>3, <1>12 DEF StartSetup, StartImport, Versioned, Opened
<1>13. CASE PasswordChanged
    BY <1>3, <1>13 DEF PasswordChanged, Running, Versioned, Opened
<1>14. CASE UNCHANGED vars
    BY <1>14 DEF vars
<1> QED
    BY <1>6, <1>7, <1>8, <1>9, <1>10, <1>11, <1>12, <1>13, <1>14 DEF Next, SetupStep, ImportStep

LEMMA VersionInit ==
    Init => VersionInv
BY DEF Init, VersionInv, Idle, Versioned, Opened

\* What a successful setup has left is what the test and the application want:
\* a row of the IMAP server's administrator is only in a table that exists, and
\* with that table the version vouches for all.
LEMMA SetupLeftUsable ==
    ASSUME InstallationInv, VersionInv
    PROVE  SetupUsable
<1> SUFFICES ASSUME last = "setup"
             PROVE  /\ OpensDatabase /\ SuperUsers(base) # {} /\ CyrusAdmins(base) # {}
                    /\ "IMAP" \in file.groups /\ LoginReports(file.mech, file.imap)
                    /\ InstalledVersion(base) => TestPasses
                    /\ InstalledVersion(base) /\ ~Malformed(file.mech) => Startable
                    /\ base.refused = {} /\ faults = 0 => InstalledVersion(base)
    BY DEF SetupUsable
<1>1. SetupLeft(file, base) /\ IsBase(base) /\ IsFile(file)
    BY DEF InstallationInv, LastFits
<1>2. AccountUser \in base.tables
    BY <1>1 DEF SetupLeft, IsBase, CyrusAdmins
<1>3. base.version => base.tables = Table
    BY <1>1, <1>2 DEF SetupLeft, IsBase
<1>4. ~Malformed(file.mech) => file.imap
    BY <1>1 DEF SetupLeft, LoginReports, Accepted, IsFile
<1> QED
    BY <1>1, <1>3, <1>4 DEF SetupLeft, TestPasses, Startable, OpensDatabase, InstalledVersion, VersionInv

\* SetupUsable: what a setup that says it was successful has left, whatever
\* broke off before it and wherever, whichever tables the server refused and
\* whichever failures of the installation nobody noticed; with the version
\* there is an installation that the test passes, and that the application can
\* work with unless the operator has chosen PLAIN or CRAM-MD5, whose login
\* the utility takes for successful when the server refuses it
\* (setup.cpp:42-470, database.cpp:137-173).
THEOREM SetupsAreUsable == Spec => []SetupUsable
<1>1. InstallationInv /\ [Next]_vars => InstallationInv'
    BY InstallationStep
<1>2. InstallationInv /\ VersionInv /\ [Next]_vars => VersionInv'
    BY VersionStep
<1>3. InstallationInv /\ VersionInv => SetupUsable
    BY SetupLeftUsable
<1> QED
    BY <1>1, <1>2, <1>3, InstallationInit, VersionInit, PTL DEF Spec

\* The accounts of a domain are those web-cyradm has in it: a domain that is
\* known has an id of its own, and only that has no other meaning.
LEMMA ImportLeftComplete ==
    ASSUME InstallationInv
    PROVE  ImportComplete
<1> SUFFICES ASSUME last = "import"
             PROVE  /\ HasDomains(base) /\ HasAccounts(base)
                    /\ \A d \in WebDomain :
                          /\ base.domains[d].count = Cardinality({a \in DOMAIN WebAccount : WebAccount[a] = d})
                          /\ base.domains[d].used = QuotaOf(base.accounts, AccountsOf(base, d))
    BY DEF ImportComplete, HasDomains, HasAccounts
<1>1. HasDomains(base) /\ HasAccounts(base) /\ HasCounts(base)
    BY DEF InstallationInv, LastFits, ImportLeft
<1>2. ASSUME NEW d \in WebDomain
      PROVE  AccountsOf(base, d) = {a \in DOMAIN WebAccount : WebAccount[a] = d}
    <2>1. ASSUME NEW a \in DOMAIN WebAccount
          PROVE  base.accounts[a].domain = d <=> WebAccount[a] = d
        BY <1>1, InstallationAssumption DEF HasAccounts, DomainId
    <2> QED
        BY <1>1, <2>1 DEF AccountsOf, HasAccounts
<1> QED
    BY <1>1, <1>2 DEF HasCounts

\* ImportComplete: an import that says it was successful has brought every
\* domain and every account of web-cyradm, and the counters of each domain are
\* those of its accounts, whatever was in the database and whatever answers of
\* the IMAP server were lost (webcyradmimporter.cpp:455-803).
THEOREM ImportsAreComplete == Spec => []ImportComplete
<1>1. InstallationInv /\ [Next]_vars => InstallationInv'
    BY InstallationStep
<1>2. InstallationInv => ImportComplete
    BY ImportLeftComplete
<1> QED
    BY <1>1, <1>2, InstallationInit, PTL DEF Spec

=============================================================================
