------------------------ MODULE AccountProvisioning ------------------------
(***************************************************************************)
(* User accounts of Skaffari and the three places that have to agree about *)
(* them: the MySQL tables accountuser and virtual, the per-domain counter  *)
(* domain.accountcount, and the mailboxes of the IMAP server.              *)
(*                                                                         *)
(* Every request is served by one worker (a thread or a process with its   *)
(* own autocommit database connection) that issues one SQL statement or    *)
(* IMAP command after the other.  Requests of different workers interleave *)
(* between any two of them: no request below runs in a transaction, except *)
(* for the last step of Domain::remove.                                    *)
(*                                                                         *)
(* Left out here: quotas (see DomainQuota) and the child domain addresses   *)
(* of Account::create, whose loop never runs because Domain::get leaves    *)
(* the list of children empty (src/src/objects/domain.cpp:614-622).        *)
(***************************************************************************)
EXTENDS Integers, FiniteSets

CONSTANTS
    Worker,         \* threads and processes that serve requests
    User,           \* account user names
    Local,          \* local parts of email addresses
    CatchAll,       \* the empty local part: a catch-all address "@domain"
    Domain,         \* rows of table domain at the start
    IdnDomain,      \* domains with an internationalised name
    CreateMode,     \* SkaffariConfig::imapCreatemailbox()
    MaxId,          \* bound: no account is requested after this many inserts
    MaxFaults       \* bound: failed statements, lost replies and crashes

CreateModes ==
    {"DoNotCreate", "LoginAfterCreation", "OnlySetQuota", "CreateBySkaffari"}

ASSUME ProvisioningAssumption ==
    /\ CatchAll \notin Local
    /\ IdnDomain \subseteq Domain
    /\ CreateMode \in CreateModes
    /\ MaxId \in Nat
    /\ MaxFaults \in Nat

\* Skaffari is responsible for the mailboxes, directly or indirectly.
Managed == CreateMode # "DoNotCreate"

VARIABLES
    accountuser,    \* rows of table accountuser
    virtual,        \* rows of table virtual that belong to a user
    domain,         \* rows of table domain
    accountcount,   \* column accountcount of every domain
    nextId,         \* AUTO_INCREMENT of accountuser
    mailbox,        \* users that have a mailbox on the IMAP server
    task,           \* what every worker is doing
    faults,         \* failures so far
    skewed,         \* history: domains whose counter the code left wrong
    recreated       \* history: users whose mailbox Account::check has made

tables == <<accountuser, virtual, domain, accountcount, nextId>>

history == <<skewed, recreated>>

vars == <<tables, mailbox, task, faults, history>>

-----------------------------------------------------------------------------
(* Requests *)

\* Statements of Account::create after which the new row is in accountuser
\* and the domain's counter does not include it yet.
UncountedPC ==
    {"insertAddress", "insertAce", "linkAce", "dropCatchAll", "insertCatchAll",
     "insertCatchAllAce", "linkCatchAll", "createMailbox", "countUp",
     "undoVirtual", "undoAccount"}

CreatePC == {"checkAlias", "insertAccount"} \cup UncountedPC

RemovePC == {"deleteMailbox", "deleteVirtual", "deleteAccount", "countDown"}

CheckPC == {"listMailboxes", "createMissing"}

SweepPC == {"nextAccount", "dropDomain"}

Idle == [pc |-> "idle"]

\* Account::create
CreateTask ==
    [pc : CreatePC, user : User, local : Local, dom : Domain,
     catchall : BOOLEAN, id : Nat]

\* Account::remove, called by AccountEditor::remove ("sweep" is FALSE) or by
\* Domain::remove, which still has the accounts "todo" before it
RemoveTask ==
    [pc : RemovePC, user : User, dom : Domain, id : Nat, sweep : BOOLEAN,
     target : Domain, todo : SUBSET Nat]

\* Account::check, with the account read at the start of the request
CheckTask == [pc : CheckPC, user : User, dom : Domain]

\* Domain::remove between two accounts
SweepTask == [pc : SweepPC, target : Domain, todo : SUBSET Nat]

Task == {Idle} \cup CreateTask \cup RemoveTask \cup CheckTask \cup SweepTask

Row == [id : Nat, user : User, dom : Domain]

Address == [local : Local \cup {CatchAll}, dom : Domain, ace : BOOLEAN]

TypeOK ==
    /\ accountuser \subseteq Row
    /\ virtual \subseteq [alias : Address, user : User]
    /\ domain \subseteq Domain
    /\ accountcount \in [Domain -> Nat]
    /\ nextId \in Nat
    /\ mailbox \subseteq User
    /\ task \in [Worker -> Task]
    /\ faults \in Nat
    /\ skewed \subseteq Domain
    /\ recreated \subseteq User

Init ==
    /\ accountuser = {}
    /\ virtual = {}
    /\ domain = Domain
    /\ accountcount = [d \in Domain |-> 0]
    /\ nextId = 1
    /\ mailbox = {}
    /\ task = [w \in Worker |-> Idle]
    /\ faults = 0
    /\ skewed = {}
    /\ recreated = {}

At(w, p) == task[w].pc = p

Goto(w, p) == task' = [task EXCEPT ![w].pc = p]

Finish(w) == task' = [task EXCEPT ![w] = Idle]

AccountsOf(d) == {r \in accountuser : r.dom = d}

UserRows(u) == {r \in accountuser : r.user = u}

\* insertVirtual(): one address for the account that w creates.
InsertVirtual(w, l, ace) ==
    virtual' = virtual \cup
        {[alias |-> [local |-> l, dom |-> task[w].dom, ace |-> ace],
          user |-> task[w].user]}

\* Mutant: the addresses are looked up in the wrong column, as removeAlias() does.
RemoveVirtualByAlias(u) == UNCHANGED virtual

\* removeVirtual(username)
RemoveVirtual(u) == virtual' = {v \in virtual : v.user # u}

\* Mutant: the statement is prepared and never executed.
ForgetAccountByID(i) == UNCHANGED accountuser

\* removeAccountByID(id)
RemoveAccountByID(i) == accountuser' = {r \in accountuser : r.id # i}

\* Deleting an id that is gone succeeds; a counter update may still follow.
MarkIfGone(w, i) ==
    skewed' = IF \E r \in accountuser : r.id = i
              THEN skewed ELSE skewed \cup {task[w].dom}

-----------------------------------------------------------------------------
(* Account::create *)

\* DomainEditor::add_account has read the domain.  Its look for another account
\* of that user name proves nothing by the time of the INSERT, and is not made
\* for the user name that is used when "domainasprefix" is set.
BeginCreate(w) ==
    \E u \in User, l \in Local, d \in domain, ca \in BOOLEAN :
        /\ At(w, "idle")
        /\ nextId <= MaxId
        /\ task' = [task EXCEPT ![w] =
               [pc |-> "checkAlias", user |-> u, local |-> l, dom |-> d,
                catchall |-> ca, id |-> 0]]
        /\ UNCHANGED <<tables, mailbox, faults, history>>

\* aliasExists(): SELECT username FROM virtual WHERE alias = :alias
AliasExists(a) == \E v \in virtual : v.alias = a

CheckAlias(w) ==
    /\ At(w, "checkAlias")
    /\ IF AliasExists([local |-> task[w].local, dom |-> task[w].dom, ace |-> FALSE])
       THEN Finish(w)
       ELSE Goto(w, "insertAccount")
    /\ UNCHANGED <<tables, mailbox, faults, history>>

\* INSERT INTO accountuser; the key on username refuses a second row.
InsertAccount(w) ==
    /\ At(w, "insertAccount")
    /\ IF UserRows(task[w].user) # {}
       THEN /\ Finish(w)
            /\ UNCHANGED <<accountuser, nextId>>
       ELSE /\ accountuser' = accountuser \cup
                   {[id |-> nextId, user |-> task[w].user, dom |-> task[w].dom]}
            /\ nextId' = nextId + 1
            /\ task' = [task EXCEPT ![w].pc = "insertAddress",
                                    ![w].id = nextId]
    /\ UNCHANGED <<virtual, domain, accountcount, mailbox, faults, history>>

\* The statement that follows the account's own addresses.
AfterAddress(w) == IF task[w].catchall THEN "dropCatchAll" ELSE "createMailbox"

InsertAddress(w) ==
    /\ At(w, "insertAddress")
    /\ InsertVirtual(w, task[w].local, FALSE)
    /\ Goto(w, IF task[w].dom \in IdnDomain THEN "insertAce" ELSE AfterAddress(w))
    /\ UNCHANGED <<accountuser, domain, accountcount, nextId, mailbox, faults, history>>

InsertAce(w) ==
    /\ At(w, "insertAce")
    /\ InsertVirtual(w, task[w].local, TRUE)
    /\ Goto(w, "linkAce")
    /\ UNCHANGED <<accountuser, domain, accountcount, nextId, mailbox, faults, history>>

\* updateAceID(): the column ace_id is read by nothing in this module.
LinkAce(w) ==
    /\ At(w, "linkAce")
    /\ Goto(w, AfterAddress(w))
    /\ UNCHANGED <<tables, mailbox, faults, history>>

\* Mutant: only the form that is not ACE encoded.
IdnCatchAllOf(d) == {a \in Address : a.local = CatchAll /\ a.dom = d /\ ~a.ace}

\* Mutant: every address that ends like the catch-all address.
LikeCatchAllOf(d) == {a \in Address : a.dom = d}

\* The catch-all address of d, and its ACE form for an IDN domain.
CatchAllOf(d) ==
    {a \in Address : a.local = CatchAll /\ a.dom = d /\ (a.ace => d \in IdnDomain)}

\* A new catch-all account replaces the one the domain has, in both forms.
DropCatchAll(w) ==
    /\ At(w, "dropCatchAll")
    /\ virtual' = {v \in virtual : v.alias \notin CatchAllOf(task[w].dom)}
    /\ Goto(w, "insertCatchAll")
    /\ UNCHANGED <<accountuser, domain, accountcount, nextId, mailbox, faults, history>>

InsertCatchAll(w) ==
    /\ At(w, "insertCatchAll")
    /\ InsertVirtual(w, CatchAll, FALSE)
    /\ Goto(w, IF task[w].dom \in IdnDomain THEN "insertCatchAllAce"
                                            ELSE "createMailbox")
    /\ UNCHANGED <<accountuser, domain, accountcount, nextId, mailbox, faults, history>>

InsertCatchAllAce(w) ==
    /\ At(w, "insertCatchAllAce")
    /\ InsertVirtual(w, CatchAll, TRUE)
    /\ Goto(w, "linkCatchAll")
    /\ UNCHANGED <<accountuser, domain, accountcount, nextId, mailbox, faults, history>>

LinkCatchAll(w) ==
    /\ At(w, "linkCatchAll")
    /\ Goto(w, "createMailbox")
    /\ UNCHANGED <<tables, mailbox, faults, history>>

\* CREATE is refused for a mailbox that exists.  In the other modes the new
\* user logs in, which is refused when the row with the password is gone and
\* makes the server create the mailbox if it has to.
MailboxRefused(w) ==
    IF CreateMode = "CreateBySkaffari"
    THEN task[w].user \in mailbox
    ELSE \A r \in accountuser : r.id # task[w].id

CreateMailbox(w) ==
    /\ At(w, "createMailbox")
    /\ \/ /\ ~Managed
          /\ UNCHANGED mailbox
          /\ Goto(w, "countUp")
       \/ /\ Managed /\ MailboxRefused(w)
          /\ UNCHANGED mailbox
          /\ Goto(w, "undoVirtual")
       \/ /\ Managed /\ ~MailboxRefused(w)
          /\ mailbox' = mailbox \cup {task[w].user}
          /\ Goto(w, "countUp")
    /\ UNCHANGED <<tables, faults, history>>

\* UPDATE domain SET accountcount = accountcount + 1; no row, no effect.
CountUp(w) ==
    /\ At(w, "countUp")
    /\ accountcount' = [accountcount EXCEPT ![task[w].dom] =
           IF task[w].dom \in domain THEN @ + 1 ELSE @]
    /\ Finish(w)
    /\ UNCHANGED <<accountuser, virtual, domain, nextId, mailbox, faults, history>>

\* Error paths: removeVirtual(username), then removeAccountByID(id).
UndoVirtual(w) ==
    /\ At(w, "undoVirtual")
    /\ RemoveVirtual(task[w].user)
    /\ Goto(w, "undoAccount")
    /\ UNCHANGED <<accountuser, domain, accountcount, nextId, mailbox, faults, history>>

UndoAccount(w) ==
    /\ At(w, "undoAccount")
    /\ RemoveAccountByID(task[w].id)
    /\ MarkIfGone(w, task[w].id)
    /\ Finish(w)
    /\ UNCHANGED <<virtual, domain, accountcount, nextId, mailbox, faults,
                   recreated>>

-----------------------------------------------------------------------------
(* Account::remove *)

\* AccountEditor::base has read some domain and the account.
BeginRemove(w, u) ==
    \E r \in UserRows(u) :
        /\ At(w, "idle")
        /\ domain # {}
        /\ task' = [task EXCEPT ![w] =
               [pc |-> "deleteMailbox", user |-> r.user, dom |-> r.dom,
                id |-> r.id, sweep |-> FALSE, target |-> r.dom, todo |-> {}]]
        /\ UNCHANGED <<tables, mailbox, faults, history>>

\* Mutant: Account::remove goes on when there was no mailbox to delete.
TolerateMissing(w) == FALSE

\* Imap::deleteMailbox() fails for a mailbox that does not exist; that matters
\* unless mailboxes are not Skaffari's business.
CannotDelete(w) == Managed /\ task[w].user \notin mailbox

DeleteMailbox(w) ==
    /\ At(w, "deleteMailbox")
    /\ IF CannotDelete(w)
       THEN /\ Finish(w)
            /\ UNCHANGED mailbox
       ELSE /\ mailbox' = mailbox \ {task[w].user}
            /\ Goto(w, "deleteVirtual")
    /\ UNCHANGED <<tables, faults, history>>

\* removeAlias(), removeVirtual()
DeleteVirtual(w) ==
    /\ At(w, "deleteVirtual")
    /\ RemoveVirtual(task[w].user)
    /\ Goto(w, "deleteAccount")
    /\ UNCHANGED <<accountuser, domain, accountcount, nextId, mailbox, faults, history>>

\* DELETE of the forwards, removeAccountByID()
DeleteAccount(w) ==
    /\ At(w, "deleteAccount")
    /\ RemoveAccountByID(task[w].id)
    /\ MarkIfGone(w, task[w].id)
    /\ Goto(w, "countDown")
    /\ UNCHANGED <<virtual, domain, accountcount, nextId, mailbox, faults,
                   recreated>>

\* An account is done: the request ends, or Domain::remove goes on.
AccountRemoved(w) ==
    IF task[w].sweep
    THEN task' = [task EXCEPT ![w] =
             [pc |-> "nextAccount", target |-> task[w].target,
              todo |-> task[w].todo \ {task[w].id}]]
    ELSE Finish(w)

\* Column accountcount is UNSIGNED: MySQL refuses the decrement at 0.
OutOfRange(d) == d \in domain /\ accountcount[d] = 0

\* UPDATE domain SET accountcount = accountcount - 1, domainquotaused =
\* domainquotaused - quota; no row, no effect.  Both columns are UNSIGNED and
\* change together or not at all: the statement is refused, which is only
\* logged, at an accountcount of 0, and whenever the used quota is less than
\* the account's.  Module DomainQuota says when that is the case; here it may
\* be at any time.
CountDown(w) ==
    LET d == task[w].dom IN
    /\ At(w, "countDown")
    /\ \/ /\ ~OutOfRange(d)
          /\ accountcount' = [accountcount EXCEPT ![d] =
                 IF d \in domain THEN @ - 1 ELSE @]
          /\ UNCHANGED skewed
       \/ /\ d \in domain
          /\ skewed' = skewed \cup {d}
          /\ UNCHANGED accountcount
    /\ AccountRemoved(w)
    /\ UNCHANGED <<accountuser, virtual, domain, nextId, mailbox, faults,
                   recreated>>

-----------------------------------------------------------------------------
(* Account::check *)

\* AccountEditor::base has read the account; Account::check needs its domain.
BeginCheck(w, u) ==
    \E r \in UserRows(u) :
        /\ At(w, "idle")
        /\ r.dom \in domain
        /\ task' = [task EXCEPT ![w] =
               [pc |-> "listMailboxes", user |-> r.user, dom |-> r.dom]]
        /\ UNCHANGED <<tables, mailbox, faults, history>>

\* Imap::getMailboxes()
ListMailboxes(w) ==
    /\ At(w, "listMailboxes")
    /\ IF Managed /\ task[w].user \notin mailbox
       THEN Goto(w, "createMissing")
       ELSE Finish(w)
    /\ UNCHANGED <<tables, mailbox, faults, history>>

\* Mutant: the missing mailbox is reported and not created.
OnlyReportMissing(w) == Finish(w) /\ UNCHANGED <<mailbox, recreated>>

\* Imap::createMailbox(), refused for a mailbox that exists by now.
MakeMissingMailbox(w) ==
    /\ mailbox' = mailbox \cup {task[w].user}
    /\ recreated' = IF task[w].user \in mailbox
                    THEN recreated ELSE recreated \cup {task[w].user}
    /\ Finish(w)

CreateMissing(w) ==
    /\ At(w, "createMissing")
    /\ MakeMissingMailbox(w)
    /\ UNCHANGED <<tables, faults, skewed>>

-----------------------------------------------------------------------------
(* Domain::remove *)

\* SELECT id FROM accountuser WHERE domain_id = :domain_id
BeginSweep(w) ==
    \E d \in domain :
        /\ At(w, "idle")
        /\ task' = [task EXCEPT ![w] =
               [pc |-> "nextAccount", target |-> d,
                todo |-> {r.id : r \in AccountsOf(d)}]]
        /\ UNCHANGED <<tables, mailbox, faults, history>>

\* Account::get() for the next id; an account that is gone is skipped.
NextAccount(w) ==
    /\ At(w, "nextAccount")
    /\ \/ /\ task[w].todo = {}
          /\ Goto(w, "dropDomain")
       \/ \E r \in accountuser :
             /\ r.id \in task[w].todo
             /\ task' = [task EXCEPT ![w] =
                    [pc |-> "deleteMailbox", user |-> r.user, dom |-> r.dom,
                     id |-> r.id, sweep |-> TRUE, target |-> task[w].target,
                     todo |-> task[w].todo]]
       \/ \E i \in task[w].todo :
             /\ \A r \in accountuser : r.id # i
             /\ task' = [task EXCEPT ![w].todo = @ \ {i}]
    /\ UNCHANGED <<tables, mailbox, faults, history>>

\* One transaction: all addresses of the domain, then its row.
DropDomain(w) ==
    /\ At(w, "dropDomain")
    /\ virtual' = {v \in virtual : v.alias.dom # task[w].target}
    /\ domain' = domain \ {task[w].target}
    /\ Finish(w)
    /\ UNCHANGED <<accountuser, accountcount, nextId, mailbox, faults, history>>

-----------------------------------------------------------------------------
(* Failures *)

Fault == /\ faults < MaxFaults
         /\ faults' = faults + 1

\* A statement whose failure leaves an account that is not counted, or an
\* account counted that is gone.
SkewingPC == {"linkAce", "countUp", "undoAccount", "countDown"}

\* Where a failed statement or command leads; nothing has been changed by it.
OnError(w) ==
    \/ /\ task[w].pc \in {"checkAlias", "insertAccount", "linkAce", "countUp",
                          "undoAccount", "deleteMailbox", "deleteVirtual",
                          "deleteAccount", "dropDomain", "listMailboxes",
                          "createMissing"}
       /\ Finish(w)
    \/ /\ At(w, "insertAddress") \/ At(w, "undoVirtual")
       /\ Goto(w, "undoAccount")
    \/ /\ \/ task[w].pc \in {"insertAce", "dropCatchAll", "insertCatchAll",
                             "insertCatchAllAce", "linkCatchAll"}
          \/ At(w, "createMailbox") /\ Managed
       /\ Goto(w, "undoVirtual")
    \/ /\ At(w, "deleteMailbox") /\ ~Managed
       /\ Goto(w, "deleteVirtual")
    \/ /\ At(w, "countDown")
       /\ AccountRemoved(w)
    \/ \E i \in (IF At(w, "nextAccount") THEN task[w].todo ELSE {}) :
          task' = [task EXCEPT ![w].todo = @ \ {i}]

StatementFails(w) ==
    /\ Fault
    /\ OnError(w)
    /\ skewed' = IF task[w].pc \in SkewingPC
                 THEN skewed \cup {task[w].dom} ELSE skewed
    /\ UNCHANGED <<tables, mailbox, recreated>>

\* The IMAP server has done its part, but the reply timed out, or a later
\* command of the same step failed (SETQUOTA in mode OnlySetQuota).
MailboxReplyLost(w) ==
    /\ Fault
    /\ \/ /\ At(w, "createMailbox")
          /\ Managed /\ ~MailboxRefused(w)
          /\ mailbox' = mailbox \cup {task[w].user}
          /\ Goto(w, "undoVirtual")
          /\ UNCHANGED recreated
       \/ /\ At(w, "deleteMailbox")
          /\ mailbox' = mailbox \ {task[w].user}
          /\ IF Managed THEN Finish(w) ELSE Goto(w, "deleteVirtual")
          /\ UNCHANGED recreated
       \/ /\ At(w, "createMissing")
          /\ MakeMissingMailbox(w)
    /\ UNCHANGED <<tables, skewed>>

\* The process dies and is started again; nothing it did is undone.
Crash(w) ==
    /\ ~At(w, "idle")
    /\ Fault
    /\ Finish(w)
    /\ skewed' = IF task[w].pc \in UncountedPC \cup {"countDown"}
                 THEN skewed \cup {task[w].dom} ELSE skewed
    /\ UNCHANGED <<tables, mailbox, recreated>>

-----------------------------------------------------------------------------

CreateStep(w) ==
    \/ CheckAlias(w) \/ InsertAccount(w) \/ InsertAddress(w) \/ InsertAce(w)
    \/ LinkAce(w) \/ DropCatchAll(w) \/ InsertCatchAll(w)
    \/ InsertCatchAllAce(w) \/ LinkCatchAll(w) \/ CreateMailbox(w)
    \/ CountUp(w) \/ UndoVirtual(w) \/ UndoAccount(w)

RemoveStep(w) ==
    \/ DeleteMailbox(w) \/ DeleteVirtual(w) \/ DeleteAccount(w) \/ CountDown(w)

CheckStep(w) == ListMailboxes(w) \/ CreateMissing(w)

SweepStep(w) == NextAccount(w) \/ DropDomain(w)

Begin(w) ==
    \/ BeginCreate(w) \/ BeginSweep(w)
    \/ \E u \in User : BeginRemove(w, u) \/ BeginCheck(w, u)

Step(w) == CreateStep(w) \/ RemoveStep(w) \/ CheckStep(w) \/ SweepStep(w)

Failure(w) == StatementFails(w) \/ MailboxReplyLost(w) \/ Crash(w)

Next ==
    \E w \in Worker :
        Begin(w) \/ Step(w) \/ Failure(w)

Spec == Init /\ [][Next]_vars

-----------------------------------------------------------------------------
(* Properties *)

Uncounted(d) == {w \in Worker : task[w].pc \in UncountedPC /\ task[w].dom = d}

NotDiscounted(d) == {w \in Worker : At(w, "countDown") /\ task[w].dom = d}

\* domain.accountcount is moved by separate statements, after the row of the
\* account was inserted or deleted (account.cpp:841, account.cpp:964).  At
\* every moment it differs from the number of rows by exactly the requests
\* between the two statements, unless one of the events recorded in "skewed"
\* has happened: a failure or crash between the two, a removal of an account
\* that another request had removed already, or a decrement that MySQL refused
\* because the count or the used quota would fall below zero.
AccountCountExact ==
    \A d \in domain \ skewed :
        accountcount[d] + Cardinality(Uncounted(d))
            = Cardinality(AccountsOf(d)) + Cardinality(NotDiscounted(d))

\* Column username of table virtual: "the name of the user the address belongs
\* to, this is empty if it is a forward" (database-layout.dox:749).  The user
\* an address belongs to exists.
AddressOfUser ==
    \A v \in virtual : UserRows(v.user) # {}

\* If Skaffari manages the mailboxes, nothing fails and Account::check has
\* made no mailbox, then no interleaving of creations and removals leaves an
\* address that delivers to an account that does not exist.  Only the mailbox
\* keeps a removal from overtaking the creation of the same account:
\* Account::remove gets past the mailbox (account.cpp:908) only after
\* Account::create has written all its addresses.
AddressHasAccount ==
    Managed /\ faults = 0 /\ recreated = {} => AddressOfUser

\* Under the same conditions the mailbox of a user outlives the user's account
\* at no time: Account::remove deletes the mailbox first (account.cpp:908),
\* Account::create makes it last (account.cpp:711).
MailboxHasAccount ==
    Managed /\ faults = 0 /\ recreated = {} =>
        \A u \in mailbox : UserRows(u) # {}

\* Account::create after the row and before the mailbox
BeforeMailbox == UncountedPC \ {"countUp", "undoVirtual", "undoAccount"}

\* Account::remove after the mailbox and before the row is deleted
PastMailbox == {"deleteVirtual", "deleteAccount"}

\* What AddressHasAccount and MailboxHasAccount rest on.  Rows are identified
\* by their id and by their user name; the id a request holds is no other
\* user's, and two creations do not share one.
RowsKeyed ==
    /\ \A r \in accountuser : r.id < nextId
    /\ \A r1, r2 \in accountuser :
           r1.id = r2.id \/ r1.user = r2.user => r1 = r2
    /\ \A w \in Worker : task[w].pc \in UncountedPC \cup RemovePC =>
           /\ task[w].id < nextId
           /\ \A r \in accountuser :
                  r.id = task[w].id => r.user = task[w].user
    /\ \A w1, w2 \in Worker :
           /\ task[w1].pc \in UncountedPC
           /\ task[w2].pc \in UncountedPC
           /\ task[w1].id = task[w2].id
           => w1 = w2

\* An account that is being created has its row and no mailbox; no removal
\* that has passed the mailbox holds its id; the row such a removal is about
\* to delete has no mailbox and, in the end, no address (account.cpp:562-711
\* against account.cpp:908-955).
MailboxIsToken ==
    Managed /\ faults = 0 /\ recreated = {} =>
        \A w \in Worker :
            /\ task[w].pc \notin {"undoVirtual", "undoAccount"}
            /\ task[w].pc \in BeforeMailbox =>
                   /\ task[w].user \notin mailbox
                   /\ \E r \in accountuser : r.id = task[w].id
                   /\ \A x \in Worker :
                          task[x].pc \in PastMailbox => task[x].id # task[w].id
            /\ task[w].pc \in PastMailbox =>
                   \A r \in accountuser : r.id = task[w].id =>
                       /\ r.user \notin mailbox
                       /\ At(w, "deleteAccount") =>
                              \A v \in virtual : v.user # r.user

\* The inductive invariant of the proofs in AccountProvisioning_proofs.
IInv ==
    /\ TypeOK
    /\ RowsKeyed
    /\ MailboxIsToken
    /\ AddressHasAccount
    /\ MailboxHasAccount

\* The requests that are about to change what belongs to user u.
Touching(u) ==
    {w \in Worker : task[w].pc \in CreatePC \cup RemovePC /\ task[w].user = u}

\* If nothing fails, an account no request is working on is complete: it has a
\* mailbox, so that Account::remove can succeed later, and an address.  It is
\* not complete when its domain is gone, or when a removal that had read an
\* earlier account of the same user name took both from it (account.cpp:908,
\* :933), which "skewed" records.
AccountComplete ==
    Managed /\ faults = 0 /\ recreated = {} /\ skewed = {} =>
        \A r \in accountuser :
            \/ r.dom \notin domain
            \/ Touching(r.user) # {}
            \/ /\ r.user \in mailbox
               /\ \E v \in virtual : v.user = r.user /\ v.alias.dom = r.dom

\* Requests that follow one another tolerate one failure: whatever statement,
\* reply or process is lost, every address still delivers to an account, since
\* the rollback of Account::create deletes the addresses before the account
\* (account.cpp:835-837) and so does Account::remove.
OneFaultNoStray ==
    Cardinality(Worker) = 1 /\ faults <= 1 => AddressOfUser

\* "The email address %1 is already in use by another user." (account.cpp:524)
\* An address belongs to one user only.
AliasUnique ==
    \A v1, v2 \in virtual : v1.alias = v2.alias => v1 = v2

\* "Removes the Domain and all of their accounts from the database and the
\* IMAP server." (domain.h:429)  No account is left in a domain that is gone.
DomainRemovedClean ==
    \A r \in accountuser : r.dom \in domain

\* Column accountcount: "number of accounts that belong to this domain"
\* (database-layout.dox:353).  It is right whenever no request is running.
CountWhenIdle ==
    (\A w \in Worker : At(w, "idle")) =>
        \A d \in domain : accountcount[d] = Cardinality(AccountsOf(d))

\* An action property: as long as nothing fails, the addresses of an account
\* disappear only by a request for that user, or with the domain, or because
\* another account takes over the catch-all address.
AddressesKept ==
    [][faults = 0 => \A v \in virtual \ virtual' :
          \/ Touching(v.user) # {}
          \/ v.alias.dom \notin domain'
          \/ v.alias.local = CatchAll]_vars

-----------------------------------------------------------------------------
(* Retries *)

\* Requests that have begun are carried on, and the administrator checks and
\* removes every account again and again.
RetrySpec ==
    /\ Spec
    /\ \A w \in Worker : WF_vars(Step(w))
    /\ \A w \in Worker, u \in User :
           SF_vars(BeginRemove(w, u)) /\ SF_vars(BeginCheck(w, u))

\* Whatever failed, checking and removing again gets rid of an account in the
\* end, unless its domain has been removed: Account::check (account.cpp:1490)
\* restores the mailbox without which Account::remove refuses to go on.
RetriesRemoveAccounts ==
    <>[](\A r \in accountuser : r.dom \notin domain)
=============================================================================
