-------------------------- MODULE DomainTransactions --------------------------
(***************************************************************************)
(* The requests that write in a transaction: Domain::create, remove and    *)
(* update, AdminAccount::create, update and updateOwn, next to requests    *)
(* that write with a single statement, such as a new autoconfig server.    *)
(*                                                                         *)
(* Every thread of the server has one connection and keeps it between the  *)
(* requests it serves.  Some error paths return after transaction() with   *)
(* neither commit() nor rollback(): the transaction stays open, statements *)
(* of later requests of that thread take part in it unseen by the other    *)
(* threads, its locks and its snapshot stay, and the next BEGIN commits    *)
(* it.  The database below is what MySQL does with that: what a connection *)
(* has written is private until the commit, the rows it wrote are locked,  *)
(* and its SELECTs see the state of its first one.                         *)
(*                                                                         *)
(* A domain's accounts are the subject of AccountProvisioning.  Here a     *)
(* domain is its row, the row of its ACE name, its folders and its role    *)
(* addresses.                                                              *)
(***************************************************************************)
EXTENDS Integers

CONSTANTS
    Worker,         \* threads of the server
    Name,           \* names of domains
    IdnName,        \* those with a different ACE form
    Use,            \* special uses of folders
    Other,          \* key of the rows of administrators and autoconfig servers
    MaxId,          \* bound: ids of rows of table domain
    MaxFaults       \* bound: failures of statements and ends of the server

ASSUME DomainAssumption ==
    IdnName \subseteq Name /\ MaxId \in Nat /\ MaxFaults \in Nat

VARIABLES
    db,             \* what is committed: key -> row
    conn,           \* the connection of every thread
    task,           \* the request every thread serves
    nextId,         \* AUTO_INCREMENT of table domain
    faults

vars == <<db, conn, task, nextId, faults>>

-----------------------------------------------------------------------------
(* The database *)

Id == 1 .. MaxId

NoRow == [name |-> "none"]

\* A row of table domain and its rows of table folder
DomainRow ==
    [name : Name, parent : 0 .. MaxId, idn : 0 .. MaxId, ace : 0 .. MaxId,
     folders : SUBSET Use]

\* Table domain by id, the role addresses by the name of their domain, and for
\* other rows a value that every save changes.
Key == Id \cup Name \cup {Other}

\* The keys of different tables are different.
ASSUME KeyAssumption ==
    Other \notin Id \cup Name /\ \A n \in Name : n \notin Id

IsRow(r) == r # NoRow

\* A statement writes rows over those that are there.
Rows(k, r) == [i \in {k} |-> r]

Over(rows, s) ==
    [k \in DOMAIN rows \cup DOMAIN s |-> IF k \in DOMAIN rows THEN rows[k] ELSE s[k]]

NoSnapshot == << >>

Closed == [open |-> FALSE, pending |-> << >>, scan |-> FALSE, snapshot |-> NoSnapshot]

Opened == [Closed EXCEPT !.open = TRUE]

\* What a SELECT of thread w returns
View(w) ==
    IF ~conn[w].open THEN db
    ELSE Over(conn[w].pending, IF conn[w].snapshot = NoSnapshot THEN db ELSE conn[w].snapshot)

\* What an UPDATE or a DELETE of thread w works on
Current(w) == Over(conn[w].pending, db)

\* The first SELECT of a transaction makes its snapshot.
Seen(w) ==
    IF conn[w].open /\ conn[w].snapshot = NoSnapshot
    THEN [conn EXCEPT ![w].snapshot = db]
    ELSE conn

Locked(w, k) ==
    \E v \in Worker \ {w} :
        \/ k \in DOMAIN conn[v].pending
        \/ k \in Id /\ conn[v].scan

\* A statement without an index locks the whole table.
TableLocked(w) == \E i \in Id : Locked(w, i)

\* A statement outside a transaction is committed by itself.
Write(w, rows) ==
    /\ \A k \in DOMAIN rows : ~Locked(w, k)
    /\ IF conn[w].open
       THEN /\ conn' = [conn EXCEPT ![w].pending = Over(rows, @)]
            /\ UNCHANGED db
       ELSE /\ db' = Over(rows, db)
            /\ UNCHANGED conn

\* BEGIN WORK commits what an earlier request has left open.
Begin(w) ==
    /\ db' = Current(w)
    /\ conn' = [conn EXCEPT ![w] = Opened]

\* Mutant: what was written is not forgotten.
CommitAgain(w) ==
    /\ db' = Current(w)
    /\ conn' = [conn EXCEPT ![w].open = FALSE]

Commit(w) ==
    /\ db' = Current(w)
    /\ conn' = [conn EXCEPT ![w] = Closed]

Rollback(w) ==
    /\ conn' = [conn EXCEPT ![w] = Closed]
    /\ UNCHANGED db

\* An error path without rollback()
LeaveOpen(w) == UNCHANGED <<db, conn>>

-----------------------------------------------------------------------------
(* Requests *)

Idle == [pc |-> "idle"]

CreateTask ==
    [pc : {"insertDomain", "insertFolders", "insertAce", "linkAce", "findParent",
           "addRole", "commit"},
     op : {"create"}, name : Name, parent : 0 .. MaxId, folders : SUBSET Use,
     role : BOOLEAN, id : 0 .. MaxId, ace : 0 .. MaxId]

\* "old" is the domain as the request has found it.
UpdateTask ==
    [pc : {"begin", "checkParent", "updateDomain", "updateFolders", "commit"},
     op : {"update"}, id : Id, old : DomainRow, parent : 0 .. MaxId,
     folders : SUBSET Use]

RemoveTask ==
    [pc : {"begin", "adoptChildren", "deleteAce", "deleteDomain", "commit"},
     op : {"remove"}, id : Id, old : DomainRow]

AdminTask == [pc : {"begin", "updateAdmin", "commit"}, op : {"admin"}]

Task == {Idle} \cup CreateTask \cup UpdateTask \cup RemoveTask \cup AdminTask

\* A connection that is not in a transaction has nothing pending.
IsConnection(c) ==
    /\ c.open \in BOOLEAN /\ c.scan \in BOOLEAN
    /\ DOMAIN c.pending \subseteq Key
    /\ \A k \in DOMAIN c.pending :
          c.pending[k] \in (IF k \in Id THEN {NoRow} \cup DomainRow ELSE BOOLEAN)
    /\ c.snapshot = NoSnapshot \/ DOMAIN c.snapshot = Key
    /\ ~c.open => c = Closed

TypeOK ==
    /\ DOMAIN db = Key
    /\ \A i \in Id : db[i] \in {NoRow} \cup DomainRow
    /\ \A k \in Key \ Id : db[k] \in BOOLEAN
    /\ \A w \in Worker : IsConnection(conn[w])
    /\ \A w \in Worker : task[w] \in Task
    /\ nextId \in 1 .. MaxId + 1
    /\ faults \in 0 .. MaxFaults

Init ==
    /\ db = [k \in Key |-> IF k \in Id THEN NoRow ELSE FALSE]
    /\ conn = [w \in Worker |-> Closed]
    /\ task = [w \in Worker |-> Idle]
    /\ nextId = 1
    /\ faults = 0

At(w, op, p) == task[w].pc = p /\ task[w].op = op

IsIdle(w) == task[w].pc = "idle"

Goto(w, p) == task' = [task EXCEPT ![w].pc = p]

Finish(w) == task' = [task EXCEPT ![w] = Idle]

CountFault == faults < MaxFaults /\ faults' = faults + 1

IsIdn(n) == n \in IdnName

\* A row that is a domain, not the ACE form of one
IsDomain(r) == IsRow(r) /\ r.idn = 0

\* SimpleDomain::get()
Exists(s, i) == i \in Id /\ IsDomain(s[i])

\* Domain::get(): a domain whose parent is gone is not valid.
Valid(s, i) == Exists(s, i) /\ (s[i].parent = 0 \/ Exists(s, s[i].parent))

\* SimpleDomain::list(orphansOnly): the parents that the forms offer
Orphans(s) == {i \in Id : IsDomain(s[i]) /\ s[i].parent = 0}

\* SkValidatorUniqueDb
NameUsed(s, n) == \E i \in Id : IsRow(s[i]) /\ s[i].name = n

\* UNIQUE KEY domain_name, against rows that are not committed too: those make
\* the INSERT wait, and so does a table that is locked.
KeyFree(w, n) ==
    /\ ~NameUsed(Current(w), n)
    /\ \A v \in Worker \ {w} :
          /\ ~conn[v].scan
          /\ \A k \in DOMAIN conn[v].pending \cap Id :
                IsRow(conn[v].pending[k]) => conn[v].pending[k].name # n

\* A failed statement, an expired wait for a lock: Rollback or LeaveOpen
FailedStatement(w) == CountFault /\ Finish(w) /\ UNCHANGED nextId

-----------------------------------------------------------------------------
(* Domain::create *)

BeginCreate(w) ==
    \E n \in Name, p \in {0} \cup Orphans(View(w)), fs \in SUBSET Use, r \in BOOLEAN :
        /\ IsIdle(w)
        /\ ~NameUsed(View(w), n)
        /\ nextId + (IF IsIdn(n) THEN 1 ELSE 0) <= MaxId
        /\ Begin(w)
        /\ task' = [task EXCEPT ![w] =
               [pc |-> "insertDomain", op |-> "create", name |-> n, parent |-> p,
                folders |-> fs, role |-> r, id |-> 0, ace |-> 0]]
        /\ UNCHANGED <<nextId, faults>>

InsertDomain(w) ==
    LET t == task[w]
        row == [name |-> t.name, parent |-> t.parent, idn |-> 0, ace |-> 0, folders |-> {}]
    IN
    /\ At(w, "create", "insertDomain")
    /\ nextId <= MaxId
    /\ KeyFree(w, t.name)
    /\ Write(w, Rows(nextId, row))
    /\ task' = [task EXCEPT ![w].pc = "insertFolders", ![w].id = nextId]
    /\ nextId' = nextId + 1
    /\ UNCHANGED faults

InsertFolders(w) ==
    LET t == task[w] IN
    /\ At(w, "create", "insertFolders")
    /\ Write(w, Rows(t.id, [Current(w)[t.id] EXCEPT !.folders = t.folders]))
    /\ Goto(w, IF IsIdn(t.name) THEN "insertAce" ELSE "findParent")
    /\ UNCHANGED <<nextId, faults>>

InsertAce(w) ==
    LET t == task[w]
        row == [name |-> t.name, parent |-> 0, idn |-> t.id, ace |-> 0, folders |-> {}]
    IN
    /\ At(w, "create", "insertAce")
    /\ nextId <= MaxId
    /\ Write(w, Rows(nextId, row))
    /\ task' = [task EXCEPT ![w].pc = "linkAce", ![w].ace = nextId]
    /\ nextId' = nextId + 1
    /\ UNCHANGED faults

LinkAce(w) ==
    LET t == task[w] IN
    /\ At(w, "create", "linkAce")
    /\ Write(w, Rows(t.id, [Current(w)[t.id] EXCEPT !.ace = t.ace]))
    /\ Goto(w, "findParent")
    /\ UNCHANGED <<nextId, faults>>

\* A parent that is gone rolls the creation back.
FindParent(w) ==
    LET t == task[w] IN
    /\ At(w, "create", "findParent")
    /\ IF t.parent = 0 \/ Exists(View(w), t.parent)
       THEN /\ Goto(w, IF t.role THEN "addRole" ELSE "commit")
            /\ conn' = IF t.parent = 0 THEN conn ELSE Seen(w)
            /\ UNCHANGED db
       ELSE Rollback(w) /\ Finish(w)
    /\ UNCHANGED <<nextId, faults>>

\* Account::addEmail() with the id of the new domain, on the same connection
AddRole(w) ==
    /\ At(w, "create", "addRole")
    /\ Write(w, Rows(task[w].name, TRUE))
    /\ Goto(w, "commit")
    /\ UNCHANGED <<nextId, faults>>

\* Mutant: the transaction of a failed creation is left to the connection.
OpenCreation(w) == LeaveOpen(w)

\* Every error of create but the first one rolls back; before the first one
\* nothing is written.
CreationFailed(w) ==
    IF task[w].pc = "insertDomain" THEN Rollback(w) \/ LeaveOpen(w) ELSE Rollback(w)

FailCreate(w) ==
    /\ task[w].pc \in {"insertDomain", "insertFolders", "insertAce", "linkAce",
                       "findParent", "addRole"}
    /\ task[w].op = "create"
    /\ CreationFailed(w)
    /\ FailedStatement(w)

-----------------------------------------------------------------------------
(* Domain::remove, after the accounts *)

BeginRemove(w) ==
    \E i \in Id :
        /\ IsIdle(w)
        /\ Valid(View(w), i)
        /\ conn' = Seen(w)
        /\ task' = [task EXCEPT ![w] =
               [pc |-> "begin", op |-> "remove", id |-> i, old |-> View(w)[i]]]
        /\ UNCHANGED <<db, nextId, faults>>

StartRemove(w) ==
    /\ At(w, "remove", "begin")
    /\ Begin(w)
    /\ Goto(w, "adoptChildren")
    /\ UNCHANGED <<nextId, faults>>

\* UPDATE domain SET parent_id = :new_parent_id WHERE parent_id = ...: no form
\* sends a new parent.
Adopted(w, p) ==
    LET s == Current(w)
        Children == {i \in Id : IsRow(s[i]) /\ s[i].parent = p}
    IN  [i \in Children |-> [s[i] EXCEPT !.parent = 0]]

AdoptChildren(w) ==
    /\ At(w, "remove", "adoptChildren")
    /\ ~TableLocked(w)
    /\ conn' = [conn EXCEPT ![w].pending = Over(Adopted(w, task[w].id), @), ![w].scan = TRUE]
    /\ Goto(w, IF task[w].old.ace # 0 THEN "deleteAce" ELSE "deleteDomain")
    /\ UNCHANGED <<db, nextId, faults>>

\* The addresses with the ACE name, which are not modelled, and its row
DeleteAce(w) ==
    LET s == Current(w)
        Twins == {i \in Id : IsRow(s[i]) /\ s[i].idn = task[w].id}
    IN
    /\ At(w, "remove", "deleteAce")
    /\ Write(w, [i \in Twins |-> NoRow])
    /\ Goto(w, "deleteDomain")
    /\ UNCHANGED <<nextId, faults>>

\* The addresses with the name, then the row and what hangs on it
DeleteDomain(w) ==
    LET t == task[w] IN
    /\ At(w, "remove", "deleteDomain")
    /\ Write(w, Over(Rows(t.old.name, FALSE), Rows(t.id, NoRow)))
    /\ Goto(w, "commit")
    /\ UNCHANGED <<nextId, faults>>

\* UPDATE cannot be prepared: nothing is written and the transaction stays
\* open.  Everything later rolls back.
FailRemove(w) ==
    /\ task[w].pc \in {"adoptChildren", "deleteAce", "deleteDomain"}
    /\ task[w].op = "remove"
    /\ IF task[w].pc = "adoptChildren" THEN Rollback(w) \/ LeaveOpen(w) ELSE Rollback(w)
    /\ FailedStatement(w)

-----------------------------------------------------------------------------
(* Domain::update *)

\* The parent is one of the list, not the domain itself.
BeginUpdate(w) ==
    \E i \in Id, p \in {0} \cup Orphans(View(w)), fs \in SUBSET Use :
        /\ IsIdle(w)
        /\ Valid(View(w), i)
        /\ p # i
        /\ conn' = Seen(w)
        /\ task' = [task EXCEPT ![w] =
               [pc |-> "begin", op |-> "update", id |-> i, old |-> View(w)[i],
                parent |-> p, folders |-> fs]]
        /\ UNCHANGED <<db, nextId, faults>>

StartUpdate(w) ==
    /\ At(w, "update", "begin")
    /\ Begin(w)
    /\ Goto(w, IF task[w].parent \in {0, task[w].old.parent} THEN "updateDomain" ELSE "checkParent")
    /\ UNCHANGED <<nextId, faults>>

\* Mutant: the new parent is looked at, as the message says.
NewParentFound(w) == Exists(View(w), task[w].parent)

\* "if (!d->parent)": the old parent is looked at.  A domain of the top level
\* never gets a parent, and a parent that is gone is accepted.
ParentFound(w) == task[w].old.parent # 0

\* The answer "can not find parent domain" leaves the transaction open.
CheckParent(w) ==
    /\ At(w, "update", "checkParent")
    /\ conn' = Seen(w)
    /\ IF ParentFound(w) THEN Goto(w, "updateDomain") ELSE Finish(w)
    /\ UNCHANGED <<db, nextId, faults>>

\* UPDATE domain ... WHERE id = :id changes no row when there is none.
UpdateDomain(w) ==
    LET t == task[w]
        r == Current(w)[t.id]
    IN
    /\ At(w, "update", "updateDomain")
    /\ IF IsRow(r)
       THEN Write(w, Rows(t.id, [r EXCEPT !.parent = t.parent]))
       ELSE ~Locked(w, t.id) /\ UNCHANGED <<db, conn>>
    /\ Goto(w, IF t.folders = t.old.folders THEN "commit" ELSE "updateFolders")
    /\ UNCHANGED <<nextId, faults>>

\* A folder of a domain that is gone violates the foreign key.  Errors of the
\* folders leave the transaction open.
UpdateFolders(w) ==
    LET t == task[w]
        r == Current(w)[t.id]
        Added == t.folders \ t.old.folders
        Gone == t.old.folders \ t.folders
    IN
    /\ At(w, "update", "updateFolders")
    /\ IF IsRow(r)
       THEN /\ Write(w, Rows(t.id, [r EXCEPT !.folders = (@ \ Gone) \cup Added]))
            /\ Goto(w, "commit")
       ELSE /\ ~Locked(w, t.id)
            /\ UNCHANGED <<db, conn>>
            /\ IF Added = {} THEN Goto(w, "commit") ELSE Finish(w)
    /\ UNCHANGED <<nextId, faults>>

\* The UPDATE cannot be prepared, or fails; any statement about a folder fails.
FailUpdate(w) ==
    /\ task[w].pc \in {"updateDomain", "updateFolders"}
    /\ task[w].op = "update"
    /\ IF task[w].pc = "updateDomain" THEN Rollback(w) \/ LeaveOpen(w) ELSE LeaveOpen(w)
    /\ FailedStatement(w)

-----------------------------------------------------------------------------
(* AdminAccount::create, update and updateOwn; requests with one statement *)

BeginAdmin(w) ==
    /\ IsIdle(w)
    /\ Begin(w)
    /\ task' = [task EXCEPT ![w] = [pc |-> "updateAdmin", op |-> "admin"]]
    /\ UNCHANGED <<nextId, faults>>

UpdateAdmin(w) ==
    /\ At(w, "admin", "updateAdmin")
    /\ Write(w, Rows(Other, ~Current(w)[Other]))
    /\ Goto(w, "commit")
    /\ UNCHANGED <<nextId, faults>>

\* The password cannot be encrypted or the statement not be prepared: the
\* transaction stays open with nothing in it.  A failed statement rolls back.
FailAdmin(w) ==
    /\ At(w, "admin", "updateAdmin")
    /\ Rollback(w) \/ LeaveOpen(w)
    /\ FailedStatement(w)

\* AutoconfigServer::update, for one: answered with success.
SaveServer(w) ==
    /\ IsIdle(w)
    /\ Write(w, Rows(Other, ~Current(w)[Other]))
    /\ UNCHANGED <<task, nextId, faults>>

-----------------------------------------------------------------------------
(* The end of every transaction *)

CommitTask(w) ==
    /\ task[w].pc = "commit"
    /\ Commit(w)
    /\ Finish(w)
    /\ UNCHANGED <<nextId, faults>>

\* The connection is lost with the COMMIT or with its answer.
FailCommit(w) ==
    /\ task[w].pc = "commit"
    /\ Commit(w) \/ Rollback(w)
    /\ FailedStatement(w)

\* The server ends: nobody has written anything that is not committed.
Restart ==
    /\ CountFault
    /\ conn' = [w \in Worker |-> Closed]
    /\ task' = [w \in Worker |-> Idle]
    /\ UNCHANGED <<db, nextId>>

Create(w) ==
    \/ BeginCreate(w)
    \/ InsertDomain(w)
    \/ InsertFolders(w)
    \/ InsertAce(w)
    \/ LinkAce(w)
    \/ FindParent(w)
    \/ AddRole(w)
    \/ FailCreate(w)

Remove(w) ==
    \/ BeginRemove(w)
    \/ StartRemove(w)
    \/ AdoptChildren(w)
    \/ DeleteAce(w)
    \/ DeleteDomain(w)
    \/ FailRemove(w)

Update(w) ==
    \/ BeginUpdate(w)
    \/ StartUpdate(w)
    \/ CheckParent(w)
    \/ UpdateDomain(w)
    \/ UpdateFolders(w)
    \/ FailUpdate(w)

Small(w) ==
    \/ BeginAdmin(w)
    \/ UpdateAdmin(w)
    \/ FailAdmin(w)
    \/ SaveServer(w)
    \/ CommitTask(w)
    \/ FailCommit(w)

Next ==
    \/ \E w \in Worker : Create(w) \/ Remove(w) \/ Update(w) \/ Small(w)
    \/ Restart

Spec == Init /\ [][Next]_vars

-----------------------------------------------------------------------------
(* Properties *)

\* What is committed holds whole domains only: a domain with its ACE form or
\* without one, linked both ways, and role addresses of domains that exist.
\* Creations and removals fail at any statement and the next request of the
\* thread commits what they leave behind.
WholeDomains ==
    /\ \A i \in Id : IsRow(db[i]) =>
          IF db[i].idn = 0
          THEN /\ IsIdn(db[i].name) <=> db[i].ace # 0
               /\ db[i].ace # 0 => IsRow(db[db[i].ace]) /\ db[db[i].ace].idn = i
          ELSE IsDomain(db[db[i].idn]) /\ db[db[i].idn].ace = i
    /\ \A n \in Name : db[n] => NameUsed(db, n)

\* The parent of a domain exists, or Domain::get refuses the domain for ever,
\* and has no parent itself.  Nothing but the list of the forms says the latter:
\* Domain::update accepts a descendant as parent.  With two threads a form that
\* was read before another request changed the parents breaks both.
ParentsAreTop ==
    \A i \in Id : IsRow(db[i]) /\ db[i].parent # 0 =>
        Exists(db, db[i].parent) /\ db[db[i].parent].parent = 0

\* The result of a request that was answered with success is committed
\* (autoconfigserver.h:237, "returns \c true on success, otherwise \c false").
AnswersLast ==
    \A w \in Worker : IsIdle(w) => Other \notin DOMAIN conn[w].pending

=============================================================================
