---------------------------- MODULE AdminAccounts ----------------------------
(***************************************************************************)
(* The administrators of Skaffari: the tables adminuser and domainadmin,   *)
(* the sessions of logged in administrators, and the requests to create,   *)
(* change and remove administrators and to change the own account.         *)
(*                                                                         *)
(* A session keeps a copy of the administrator's row made at login;  every *)
(* permission is decided by the type in that copy.  The row an edit or a   *)
(* removal is about is read by AdminEditor::base and written by a later    *)
(* statement, so requests of two sessions interleave between the two.      *)
(*                                                                         *)
(* Left out here: display settings, the domains a session may work on, and *)
(* transactions left open by a failure after BEGIN (see the README).       *)
(***************************************************************************)
EXTENDS Integers, FiniteSets

CONSTANTS
    Session,        \* browsers with a session
    Name,           \* user names for new administrators
    Password,
    Domain,         \* rows of table domain at the start
    Roots,          \* number of super users that skaffaricmd has inserted
    MaxId           \* bound: no administrator is requested after this id

ASSUME AdminAssumption == Roots \in Nat \ {0} /\ MaxId \in Nat

VARIABLES
    adminuser,      \* rows of table adminuser
    domainadmin,    \* rows of table domainadmin
    domain,         \* ids of the rows of table domain
    nextId,         \* AUTO_INCREMENT of adminuser
    session,        \* the administrator that is logged in
    task            \* the request of the session that is being served

tables == <<adminuser, domainadmin, domain, nextId>>

vars == <<tables, session, task>>

-----------------------------------------------------------------------------

Disabled == 0
DomainMaster == 127
Administrator == 254
SuperUser == 255

AdminAccountType == {Disabled, DomainMaster, Administrator, SuperUser}

\* The user names of the first super users are written as their ids.
RootId == 1 .. Roots

Row == [id : Nat, username : Name \cup RootId, type : AdminAccountType,
        password : Password]

NoUser == [id |-> 0, type |-> Disabled]

\* What the session keeps of the row
User == [id : Nat, type : AdminAccountType, password : Password]

Idle == [pc |-> "idle"]

CreateTask ==
    [pc : {"checkName", "insertAdmin"}, username : Name,
     type : AdminAccountType, password : Password, domains : SUBSET Domain]

UpdateTask ==
    [pc : {"updateAdmin"}, id : Nat, type : AdminAccountType,
     password : SUBSET Password, domains : SUBSET Domain]

RemoveTask == [pc : {"deleteAdmin"}, id : Nat]

OwnTask == [pc : {"updateOwn"}, id : Nat, password : Password]

Task == {Idle} \cup CreateTask \cup UpdateTask \cup RemoveTask \cup OwnTask

TypeOK ==
    /\ adminuser \subseteq Row
    /\ domainadmin \subseteq Domain \X Nat
    /\ domain \subseteq Domain
    /\ nextId \in Nat
    /\ session \in [Session -> {NoUser} \cup User]
    /\ task \in [Session -> Task]

\* Database::setAdmin() of skaffaricmd has inserted the super users.
Init ==
    /\ \E p \in [RootId -> Password] :
          adminuser = {[id |-> i, username |-> i, type |-> SuperUser,
                        password |-> p[i]] : i \in RootId}
    /\ domainadmin = {}
    /\ domain = Domain
    /\ nextId = Roots + 1
    /\ session = [s \in Session |-> NoUser]
    /\ task = [s \in Session |-> Idle]

At(s, p) == task[s].pc = p

Start(s, t) == task' = [task EXCEPT ![s] = t]

Finish(s) == task' = [task EXCEPT ![s] = Idle]

\* AdminAccount::getUserType()
UserType(s) == session[s].type

\* AdminEditor::Auto
IsAdministrator(s) == UserType(s) >= Administrator

\* What the form offers and its validator accepts
AllowedTypes(s) ==
    {t \in AdminAccountType :
        t # Disabled /\ (UserType(s) = SuperUser \/ t < UserType(s))}

\* Mutant: off by one.
MayGrantOwn(s, t) == t <= UserType(s)

\* create() and update() refuse to give an administrator this type.
MayGrant(s, t) == t < UserType(s)

\* Mutant: off by one.
MayManageEqual(s, t) == t <= UserType(s)

\* base() and remove() refuse to work on an administrator of this type.
MayManage(s, t) == t < UserType(s)

\* Mutant: the domains the form sent, whatever the type is.
AllDomains(t, ds) == ds

\* Only domain managers get domains.
AssignedDomains(t, ds) == IF t < Administrator THEN ds ELSE {}

\* Mutant: the key covers nothing.
NeverTaken(n) == FALSE

\* UNIQUE KEY username
NameTaken(n) == \E r \in adminuser : r.username = n

\* Mutant: the foreign keys do not cascade.
KeepAssignments(i) == domainadmin

\* ON DELETE CASCADE: domainadmin without the rows of administrator i
WithoutAdmin(i) == {da \in domainadmin : da[2] # i}

-----------------------------------------------------------------------------
(* Sessions *)

\* AuthStoreSql::findUser() and the check of the password
Login(s) ==
    \E r \in adminuser :
        /\ At(s, "idle")
        /\ r.type > 0
        /\ session' = [session EXCEPT ![s] =
               [id |-> r.id, type |-> r.type, password |-> r.password]]
        /\ UNCHANGED <<tables, task>>

Logout(s) ==
    /\ At(s, "idle") /\ session[s] # NoUser
    /\ session' = [session EXCEPT ![s] = NoUser]
    /\ UNCHANGED <<tables, task>>

-----------------------------------------------------------------------------
(* AdminAccount::create *)

BeginCreate(s) ==
    \E n \in Name, t \in AllowedTypes(s), p \in Password, ds \in SUBSET Domain :
        /\ At(s, "idle") /\ IsAdministrator(s)
        /\ nextId <= MaxId
        /\ MayGrant(s, t)
        /\ Start(s, [pc |-> "checkName", username |-> n, type |-> t,
                     password |-> p, domains |-> ds])
        /\ UNCHANGED <<tables, session>>

\* SELECT id FROM adminuser WHERE username = :username
CheckName(s) ==
    /\ At(s, "checkName")
    /\ IF \E r \in adminuser : r.username = task[s].username
       THEN Finish(s)
       ELSE task' = [task EXCEPT ![s].pc = "insertAdmin"]
    /\ UNCHANGED <<tables, session>>

\* One transaction: the row, its settings and its domains.  The key on the
\* user name or a domain that is gone rolls it back; the id is used up.
InsertAdmin(s) ==
    LET t == task[s]
        ds == AssignedDomains(t.type, t.domains)
    IN
    /\ At(s, "insertAdmin")
    /\ IF NameTaken(t.username) \/ ~(ds \subseteq domain)
       THEN UNCHANGED <<adminuser, domainadmin>>
       ELSE /\ adminuser' = adminuser \cup
                   {[id |-> nextId, username |-> t.username, type |-> t.type,
                     password |-> t.password]}
            /\ domainadmin' = domainadmin \cup (ds \X {nextId})
    /\ nextId' = nextId + 1
    /\ Finish(s)
    /\ UNCHANGED <<domain, session>>

-----------------------------------------------------------------------------
(* AdminAccount::update *)

\* The only super user keeps the type: no row read by base gets this far.
LastSuperUser(r, t) ==
    /\ r.type = SuperUser /\ t # SuperUser
    /\ Cardinality({x \in adminuser : x.type = SuperUser}) <= 1

\* AdminEditor::base reads the row.  The field for the password may be empty.
BeginUpdate(s) ==
    \E r \in adminuser, t \in AllowedTypes(s),
       p \in {{}} \cup {{q} : q \in Password}, ds \in SUBSET Domain :
        /\ At(s, "idle") /\ IsAdministrator(s)
        /\ MayManage(s, r.type)
        /\ MayGrant(s, t) /\ ~LastSuperUser(r, t)
        /\ Start(s, [pc |-> "updateAdmin", id |-> r.id, type |-> t,
                     password |-> p, domains |-> ds])
        /\ UNCHANGED <<tables, session>>

\* The row of administrator i after UPDATE adminuser SET type, password
WithUpdate(r, t) ==
    IF r.id # t.id THEN r
    ELSE [r EXCEPT !.type = t.type,
                   !.password = IF t.password = {} THEN @
                                ELSE CHOOSE p \in t.password : TRUE]

\* One transaction: type and password, then the list of domains anew.  A
\* domain or an administrator that is gone makes the INSERT fail.
UpdateAdmin(s) ==
    LET t == task[s]
        ds == AssignedDomains(t.type, t.domains)
        gone == \A r \in adminuser : r.id # t.id
    IN
    /\ At(s, "updateAdmin")
    /\ IF ds # {} /\ (gone \/ ~(ds \subseteq domain))
       THEN UNCHANGED <<adminuser, domainadmin>>
       ELSE /\ adminuser' = {WithUpdate(r, t) : r \in adminuser}
            /\ domainadmin' = WithoutAdmin(t.id) \cup (ds \X {t.id})
    /\ Finish(s)
    /\ UNCHANGED <<domain, nextId, session>>

-----------------------------------------------------------------------------
(* AdminAccount::remove *)

BeginRemove(s) ==
    \E r \in adminuser :
        /\ At(s, "idle") /\ IsAdministrator(s)
        /\ MayManage(s, r.type)
        /\ ~LastSuperUser(r, Disabled)
        /\ Start(s, [pc |-> "deleteAdmin", id |-> r.id])
        /\ UNCHANGED <<tables, session>>

DeleteAdmin(s) ==
    /\ At(s, "deleteAdmin")
    /\ adminuser' = {r \in adminuser : r.id # task[s].id}
    /\ domainadmin' = WithoutAdmin(task[s].id)
    /\ Finish(s)
    /\ UNCHANGED <<domain, nextId, session>>

-----------------------------------------------------------------------------
(* AdminAccount::updateOwn, with a new password *)

\* MyAccount::index reads the row.  The old password has to be the one the
\* session knows.
BeginUpdateOwn(s) ==
    \E r \in adminuser, p \in Password :
        /\ At(s, "idle") /\ session[s] # NoUser
        /\ r.id = session[s].id
        /\ Start(s, [pc |-> "updateOwn", id |-> r.id, password |-> p])
        /\ UNCHANGED <<tables, session>>

\* One transaction: password and settings.  The session keeps the old one.
UpdateOwn(s) ==
    /\ At(s, "updateOwn")
    /\ adminuser' = {IF r.id = task[s].id
                     THEN [r EXCEPT !.password = task[s].password]
                     ELSE r : r \in adminuser}
    /\ Finish(s)
    /\ UNCHANGED <<domainadmin, domain, nextId, session>>

-----------------------------------------------------------------------------

\* The last statement of Domain::remove, with ON DELETE CASCADE
DropDomain(s) ==
    \E d \in domain :
        /\ At(s, "idle") /\ IsAdministrator(s)
        /\ domain' = domain \ {d}
        /\ domainadmin' = {da \in domainadmin : da[1] # d}
        /\ UNCHANGED <<adminuser, nextId, session, task>>

\* A statement fails or the process dies: the transaction is rolled back.
Fail(s) ==
    /\ ~At(s, "idle")
    /\ Finish(s)
    /\ UNCHANGED <<tables, session>>

Next ==
    \E s \in Session :
        \/ Login(s) \/ Logout(s)
        \/ BeginCreate(s) \/ CheckName(s) \/ InsertAdmin(s)
        \/ BeginUpdate(s) \/ UpdateAdmin(s)
        \/ BeginRemove(s) \/ DeleteAdmin(s)
        \/ BeginUpdateOwn(s) \/ UpdateOwn(s)
        \/ DropDomain(s) \/ Fail(s)

Spec == Init /\ [][Next]_vars

-----------------------------------------------------------------------------
(* Properties *)

\* However requests interleave and however old the copies in the sessions are,
\* the super users are the ones that skaffaricmd has made: the web interface
\* neither removes nor demotes one (adminaccount.cpp:505, :816), and so the
\* system never ends up without a super user.
SuperUsersFixed ==
    {r.id : r \in {x \in adminuser : x.type = SuperUser}} = RootId

\* A domain is assigned to administrators only that exist and are domain
\* managers (adminaccount.cpp:338, :593): the lists are written in the
\* transaction that writes the type, and cascade with either side.
DomainAdminsConsistent ==
    \A da \in domainadmin :
        /\ da[1] \in domain
        /\ \E r \in adminuser : r.id = da[2] /\ r.type < Administrator

\* Ids and user names identify administrators, although two requests can pass
\* the check of the user name (adminaccount.cpp:241) together.
AdminsKeyed ==
    /\ \A r \in adminuser : r.id < nextId
    /\ \A r1, r2 \in adminuser :
           r1.id = r2.id \/ r1.username = r2.username => r1 = r2

\* What SuperUsersFixed rests on: no request is about to write a super user's
\* row or the type SuperUser.
NoTaskOnSuperUser ==
    \A s \in Session :
        /\ task[s].pc \in {"updateAdmin", "deleteAdmin"} =>
               task[s].id \notin RootId
        /\ task[s].pc \in {"checkName", "insertAdmin", "updateAdmin"} =>
               task[s].type # SuperUser

\* The inductive invariant of the proofs in AdminAccounts_proofs.
IInv ==
    /\ TypeOK
    /\ AdminsKeyed
    /\ NoTaskOnSuperUser
    /\ SuperUsersFixed
    /\ DomainAdminsConsistent
    /\ nextId > Roots

\* An action property: a super user's password is changed by nobody but a
\* session of that super user (adminaccount.cpp:661, admineditor.cpp:102).
SuperUserPasswordOwn ==
    [][\A r \in adminuser, r2 \in adminuser' :
          r.id = r2.id /\ r.id \in RootId /\ r.password # r2.password =>
              \E s \in Session : session[s].id = r.id /\ At(s, "updateOwn")]_vars
=============================================================================
