------------------------- MODULE AdminAccounts_proofs -------------------------
(***************************************************************************)
(* Theorems about AdminAccounts, for any number of sessions, names,        *)
(* passwords, domains and super users.                                     *)
(***************************************************************************)
EXTENDS AdminAccounts, TLAPS

-----------------------------------------------------------------------------
(* Type correctness *)

\* The statement a request is at tells which kind of request it is.
LEMMA TaskKinds ==
    ASSUME TypeOK, NEW s \in Session
    PROVE  /\ task[s] \in Task
           /\ task[s].pc \in {"checkName", "insertAdmin"} => task[s] \in CreateTask
           /\ task[s].pc = "updateAdmin" => task[s] \in UpdateTask
           /\ task[s].pc = "deleteAdmin" => task[s] \in RemoveTask
           /\ task[s].pc = "updateOwn" => task[s] \in OwnTask
  BY DEF TypeOK, Task, Idle, CreateTask, UpdateTask, RemoveTask, OwnTask

\* A request that ends leaves a well-typed table of requests.
LEMMA FinishType ==
    ASSUME TypeOK, NEW s \in Session, Finish(s)
    PROVE  task' \in [Session -> Task]
  BY DEF TypeOK, Finish, Task

\* So does a request that begins.
LEMMA StartType ==
    ASSUME TypeOK, NEW s \in Session, NEW t \in Task, Start(s, t)
    PROVE  task' \in [Session -> Task]
  BY DEF TypeOK, Start

\* The domains of a request are assigned, or none at all.
LEMMA AssignedType ==
    ASSUME NEW t, NEW ds \in SUBSET Domain
    PROVE  /\ AssignedDomains(t, ds) \subseteq Domain
           /\ AssignedDomains(t, ds) # {} => t < Administrator
  BY DEF AssignedDomains

\* A permission is decided by a type that an administrator can have.
LEMMA UserTypeKnown ==
    ASSUME TypeOK, NEW s \in Session
    PROVE  UserType(s) \in AdminAccountType
  BY DEF TypeOK, UserType, NoUser, User, AdminAccountType

\* The transaction of an update leaves rows that are well typed.
LEMMA WithUpdateType ==
    ASSUME NEW r \in Row, NEW t \in UpdateTask
    PROVE  /\ WithUpdate(r, t) \in Row
           /\ WithUpdate(r, t).id = r.id
           /\ WithUpdate(r, t).username = r.username
           /\ r.id # t.id => WithUpdate(r, t) = r
           /\ r.id = t.id => WithUpdate(r, t).type = t.type
  <1>1. t.password # {} => (CHOOSE p \in t.password : TRUE) \in Password
    BY DEF UpdateTask
  <1> QED
    BY <1>1 DEF WithUpdate, Row, UpdateTask

\* Every step of a session leaves the state well typed.
LEMMA TypeStep ==
    ASSUME TypeOK, [Next]_vars
    PROVE  TypeOK'
  <1> USE DEF At
  <1>1. CASE UNCHANGED vars
    BY <1>1 DEF vars, tables, TypeOK
  <1> SUFFICES ASSUME NEW s \in Session,
                      \/ Login(s) \/ Logout(s)
                      \/ BeginCreate(s) \/ CheckName(s) \/ InsertAdmin(s)
                      \/ BeginUpdate(s) \/ UpdateAdmin(s)
                      \/ BeginRemove(s) \/ DeleteAdmin(s)
                      \/ BeginUpdateOwn(s) \/ UpdateOwn(s)
                      \/ DropDomain(s) \/ Fail(s)
               PROVE  TypeOK'
    BY <1>1 DEF Next
  <1>2. CASE Login(s)
    BY <1>2 DEF Login, TypeOK, tables, Row, User
  <1>3. CASE Logout(s)
    BY <1>3 DEF Logout, TypeOK, tables
  <1>4. CASE BeginCreate(s)
    <2>1. PICK n \in Name, t \in AllowedTypes(s), p \in Password,
               ds \in SUBSET Domain :
            /\ Start(s, [pc |-> "checkName", username |-> n, type |-> t,
                         password |-> p, domains |-> ds])
            /\ UNCHANGED <<tables, session>>
      BY <1>4 DEF BeginCreate
    <2>2. t \in AdminAccountType
      BY DEF AllowedTypes
    <2>3. [pc |-> "checkName", username |-> n, type |-> t, password |-> p,
           domains |-> ds] \in Task
      BY <2>2 DEF Task, CreateTask
    <2>4. task' \in [Session -> Task]
      BY <2>1, <2>3, StartType DEF TypeOK
    <2> QED
      BY <2>1, <2>4 DEF TypeOK, tables
  <1>5. CASE CheckName(s)
    <2>1. [task[s] EXCEPT !.pc = "insertAdmin"] \in Task
      BY <1>5, TaskKinds DEF CheckName, Task, CreateTask
    <2>2. task' \in [Session -> Task]
      BY <1>5, <2>1, FinishType DEF CheckName, TypeOK
    <2> QED
      BY <1>5, <2>2 DEF CheckName, TypeOK, tables
  <1>6. CASE InsertAdmin(s)
    <2>1. task[s] \in CreateTask
      BY <1>6, TaskKinds DEF InsertAdmin
    <2>2. task' \in [Session -> Task] /\ nextId' \in Nat
      BY <1>6, FinishType DEF InsertAdmin, TypeOK
    <2>3. adminuser' \subseteq Row
      BY <1>6, <2>1 DEF InsertAdmin, TypeOK, Row, CreateTask
    <2>4. AssignedDomains(task[s].type, task[s].domains) \subseteq Domain
      BY <2>1, AssignedType DEF CreateTask
    <2>5. domainadmin' \subseteq Domain \X Nat
      BY <1>6, <2>4 DEF InsertAdmin, TypeOK
    <2> QED
      BY <1>6, <2>2, <2>3, <2>5 DEF InsertAdmin, TypeOK
  <1>7. CASE BeginUpdate(s)
    <2>1. PICK r \in adminuser, t \in AllowedTypes(s),
               p \in {{}} \cup {{q} : q \in Password}, ds \in SUBSET Domain :
            /\ Start(s, [pc |-> "updateAdmin", id |-> r.id, type |-> t,
                         password |-> p, domains |-> ds])
            /\ UNCHANGED <<tables, session>>
      BY <1>7 DEF BeginUpdate
    <2>2. t \in AdminAccountType /\ r.id \in Nat /\ p \in SUBSET Password
      BY DEF AllowedTypes, TypeOK, Row
    <2>3. [pc |-> "updateAdmin", id |-> r.id, type |-> t, password |-> p,
           domains |-> ds] \in Task
      BY <2>2 DEF Task, UpdateTask
    <2>4. task' \in [Session -> Task]
      BY <2>1, <2>3, StartType DEF TypeOK
    <2> QED
      BY <2>1, <2>4 DEF TypeOK, tables
  <1>8. CASE UpdateAdmin(s)
    <2>1. task[s] \in UpdateTask
      BY <1>8, TaskKinds DEF UpdateAdmin
    <2>2. task' \in [Session -> Task]
      BY <1>8, FinishType DEF UpdateAdmin
    <2>3. adminuser' \subseteq Row
      BY <1>8, <2>1, WithUpdateType DEF UpdateAdmin, TypeOK
    <2>4. AssignedDomains(task[s].type, task[s].domains) \subseteq Domain
          /\ task[s].id \in Nat
      BY <2>1, AssignedType DEF UpdateTask
    <2>5. domainadmin' \subseteq Domain \X Nat
      BY <1>8, <2>4 DEF UpdateAdmin, TypeOK, WithoutAdmin
    <2> QED
      BY <1>8, <2>2, <2>3, <2>5 DEF UpdateAdmin, TypeOK
  <1>9. CASE BeginRemove(s)
    <2>1. PICK r \in adminuser :
            /\ Start(s, [pc |-> "deleteAdmin", id |-> r.id])
            /\ UNCHANGED <<tables, session>>
      BY <1>9 DEF BeginRemove
    <2>2. [pc |-> "deleteAdmin", id |-> r.id] \in Task
      BY DEF Task, RemoveTask, TypeOK, Row
    <2> QED
      BY <2>1, <2>2, StartType DEF TypeOK, tables
  <1>10. CASE DeleteAdmin(s)
    <2>1. task' \in [Session -> Task]
      BY <1>10, FinishType DEF DeleteAdmin
    <2> QED
      BY <1>10, <2>1 DEF DeleteAdmin, TypeOK, WithoutAdmin
  <1>11. CASE BeginUpdateOwn(s)
    <2>1. PICK r \in adminuser, p \in Password :
            /\ Start(s, [pc |-> "updateOwn", id |-> r.id, password |-> p])
            /\ UNCHANGED <<tables, session>>
      BY <1>11 DEF BeginUpdateOwn
    <2>2. [pc |-> "updateOwn", id |-> r.id, password |-> p] \in Task
      BY DEF Task, OwnTask, TypeOK, Row
    <2> QED
      BY <2>1, <2>2, StartType DEF TypeOK, tables
  <1>12. CASE UpdateOwn(s)
    <2>1. task[s] \in OwnTask
      BY <1>12, TaskKinds DEF UpdateOwn
    <2>2. task' \in [Session -> Task]
      BY <1>12, FinishType DEF UpdateOwn
    <2>3. adminuser' \subseteq Row
      BY <1>12, <2>1 DEF UpdateOwn, TypeOK, Row, OwnTask
    <2> QED
      BY <1>12, <2>2, <2>3 DEF UpdateOwn, TypeOK
  <1>13. CASE DropDomain(s)
    BY <1>13 DEF DropDomain, TypeOK
  <1>14. CASE Fail(s)
    BY <1>14, FinishType DEF Fail, TypeOK, tables
  <1> QED
    BY <1>2, <1>3, <1>4, <1>5, <1>6, <1>7, <1>8, <1>9, <1>10, <1>11, <1>12,
       <1>13, <1>14

-----------------------------------------------------------------------------
(* Keys *)

\* An own change keeps everything of a row but the password.
LEMMA OwnRows ==
    ASSUME TypeOK, NEW s \in Session, UpdateOwn(s), NEW r2 \in adminuser'
    PROVE  \E r \in adminuser : /\ r2.id = r.id
                                /\ r2.username = r.username
                                /\ r2.type = r.type
                                /\ r.id # task[s].id => r2 = r
                                /\ r.id = task[s].id =>
                                      r2 = [r EXCEPT !.password = task[s].password]
  <1>1. PICK r \in adminuser : r2 = IF r.id = task[s].id
                                    THEN [r EXCEPT !.password = task[s].password]
                                    ELSE r
    BY DEF UpdateOwn
  <1>2. r \in Row
    BY DEF TypeOK
  <1> QED
    BY <1>1, <1>2 DEF Row

\* A key that is in use is never given away again: ids come from the counter,
\* user names are refused by the index.
LEMMA KeysStep ==
    ASSUME TypeOK, AdminsKeyed, [Next]_vars
    PROVE  AdminsKeyed'
  <1>1. CASE UNCHANGED <<adminuser, nextId>>
    BY <1>1 DEF AdminsKeyed
  <1>2. ASSUME NEW s \in Session, InsertAdmin(s)
        PROVE  AdminsKeyed'
    <2> DEFINE t == task[s]
               new == [id |-> nextId, username |-> t.username, type |-> t.type,
                       password |-> t.password]
    <2>1. nextId \in Nat /\ nextId' = nextId + 1
      BY <1>2 DEF InsertAdmin, TypeOK
    <2>2. \A r \in adminuser : r.id \in Nat /\ r.id < nextId
      BY DEF TypeOK, Row, AdminsKeyed
    <2>3. CASE adminuser' = adminuser
      BY <2>1, <2>2, <2>3 DEF AdminsKeyed
    <2>4. CASE adminuser' = adminuser \cup {new} /\ ~NameTaken(t.username)
      <3>1. \A r \in adminuser : r.id # new.id /\ r.username # new.username
        BY <2>1, <2>2, <2>4 DEF NameTaken
      <3>2. \A r \in adminuser' : r.id < nextId'
        BY <2>1, <2>2, <2>4
      <3> QED
        BY <2>4, <3>1, <3>2 DEF AdminsKeyed
    <2> QED
      BY <1>2, <2>3, <2>4 DEF InsertAdmin
  <1>3. ASSUME NEW s \in Session, UpdateAdmin(s)
        PROVE  AdminsKeyed'
    <2>1. task[s] \in UpdateTask
      BY <1>3, TaskKinds DEF UpdateAdmin, At
    <2>2. CASE adminuser' = adminuser
      BY <1>3, <2>2 DEF UpdateAdmin, AdminsKeyed
    <2>3. CASE adminuser' = {WithUpdate(r, task[s]) : r \in adminuser}
      <3>1. \A r \in adminuser : /\ WithUpdate(r, task[s]).id = r.id
                                 /\ WithUpdate(r, task[s]).username = r.username
        BY <2>1, WithUpdateType DEF TypeOK
      <3> QED
        BY <1>3, <2>3, <3>1 DEF UpdateAdmin, AdminsKeyed
    <2> QED
      BY <1>3, <2>2, <2>3 DEF UpdateAdmin
  <1>4. ASSUME NEW s \in Session, DeleteAdmin(s)
        PROVE  AdminsKeyed'
    BY <1>4 DEF DeleteAdmin, AdminsKeyed
  <1>5. ASSUME NEW s \in Session, UpdateOwn(s)
        PROVE  AdminsKeyed'
    <2>1. nextId' = nextId
      BY <1>5 DEF UpdateOwn
    <2>2. \A r \in adminuser' : r.id < nextId'
      BY <1>5, <2>1, OwnRows DEF AdminsKeyed
    <2>3. ASSUME NEW r1 \in adminuser', NEW r2 \in adminuser',
                 r1.id = r2.id \/ r1.username = r2.username
          PROVE  r1 = r2
      BY <1>5, <2>3, OwnRows DEF AdminsKeyed
    <2> QED
      BY <2>2, <2>3 DEF AdminsKeyed
  <1> QED
    BY <1>1, <1>2, <1>3, <1>4, <1>5 DEF Next, vars, tables, Login, Logout,
       BeginCreate, CheckName, BeginUpdate, BeginRemove, BeginUpdateOwn,
       DropDomain, Fail

\* Ids are never handed out below the ids of the first super users.
LEMMA NextIdStep ==
    ASSUME TypeOK, nextId > Roots, [Next]_vars
    PROVE  nextId' > Roots
  <1>1. nextId' \in {nextId, nextId + 1}
    BY DEF Next, vars, tables, Login, Logout, BeginCreate, CheckName,
       InsertAdmin, BeginUpdate, UpdateAdmin, BeginRemove, DeleteAdmin,
       BeginUpdateOwn, UpdateOwn, DropDomain, Fail
  <1> QED
    BY <1>1, AdminAssumption DEF TypeOK

-----------------------------------------------------------------------------
(* Super users *)

\* The type of a row tells whether skaffaricmd has made it.
LEMMA SuperUserRows ==
    ASSUME AdminsKeyed, SuperUsersFixed, NEW r \in adminuser
    PROVE  r.type = SuperUser <=> r.id \in RootId
  BY DEF AdminsKeyed, SuperUsersFixed

\* Nobody manages an administrator of the type SuperUser, or grants it.
LEMMA BelowSuperUser ==
    ASSUME TypeOK, NEW s \in Session, NEW t
    PROVE  /\ MayManage(s, t) => t # SuperUser
           /\ MayGrant(s, t) => t # SuperUser
  BY UserTypeKnown DEF MayManage, MayGrant, AdminAccountType, Disabled,
     DomainMaster, Administrator, SuperUser

\* A step of one session leaves the requests of the others alone.
LEMMA OtherTasks ==
    ASSUME TypeOK, NEW s \in Session, NEW o \in Session \ {s}, NEW t,
           Finish(s) \/ Start(s, t) \/ task' = [task EXCEPT ![s].pc = t]
    PROVE  task'[o] = task[o]
  BY DEF TypeOK, Finish, Start

\* No request begins that would write a super user's row or make a super user.
LEMMA TasksStep ==
    ASSUME TypeOK, AdminsKeyed, SuperUsersFixed, NoTaskOnSuperUser, [Next]_vars
    PROVE  NoTaskOnSuperUser'
  <1> DEFINE Harmless(t) ==
               /\ t.pc \in {"updateAdmin", "deleteAdmin"} => t.id \notin RootId
               /\ t.pc \in {"checkName", "insertAdmin", "updateAdmin"} =>
                      t.type # SuperUser
  <1>1. \A s \in Session : Harmless(task[s])
    BY DEF NoTaskOnSuperUser
  <1>2. Harmless(Idle)
    BY DEF Idle
  <1>3. CASE UNCHANGED task
    BY <1>3 DEF NoTaskOnSuperUser
  <1>4. ASSUME NEW s \in Session, NEW t, Harmless(t),
               task' = [task EXCEPT ![s] = t]
        PROVE  NoTaskOnSuperUser'
    <2>1. \A o \in Session : Harmless(task'[o])
      BY <1>1, <1>4 DEF TypeOK
    <2> QED
      BY <2>1 DEF NoTaskOnSuperUser
  <1>5. ASSUME NEW s \in Session, BeginCreate(s)
        PROVE  NoTaskOnSuperUser'
    <2>1. PICK n \in Name, t \in AllowedTypes(s), p \in Password,
               ds \in SUBSET Domain :
            \/ MayGrant(s, t) /\ Start(s, [pc |-> "checkName", username |-> n,
                   type |-> t, password |-> p, domains |-> ds])
            \/ UNCHANGED task
      BY <1>5 DEF BeginCreate
    <2>2. MayGrant(s, t) => Harmless([pc |-> "checkName", username |-> n,
                   type |-> t, password |-> p, domains |-> ds])
      BY BelowSuperUser
    <2> QED
      BY <1>3, <1>4, <2>1, <2>2 DEF Start
  <1>6. ASSUME NEW s \in Session, CheckName(s)
        PROVE  NoTaskOnSuperUser'
    <2>1. Harmless([task[s] EXCEPT !.pc = "insertAdmin"])
      BY <1>1, <1>6, TaskKinds DEF CheckName, At, CreateTask
    <2> QED
      BY <1>2, <1>4, <1>6, <2>1 DEF CheckName, Finish
  <1>7. ASSUME NEW s \in Session, BeginUpdate(s)
        PROVE  NoTaskOnSuperUser'
    <2>1. PICK r \in adminuser, t \in AllowedTypes(s),
               p \in {{}} \cup {{q} : q \in Password}, ds \in SUBSET Domain :
            /\ MayManage(s, r.type)
            /\ \/ MayGrant(s, t) /\ Start(s, [pc |-> "updateAdmin",
                      id |-> r.id, type |-> t, password |-> p, domains |-> ds])
               \/ UNCHANGED task
      BY <1>7 DEF BeginUpdate
    <2>2. r.id \notin RootId
      BY <2>1, SuperUserRows, BelowSuperUser
    <2>3. MayGrant(s, t) => Harmless([pc |-> "updateAdmin", id |-> r.id,
                   type |-> t, password |-> p, domains |-> ds])
      BY <2>2, BelowSuperUser
    <2> QED
      BY <1>3, <1>4, <2>1, <2>3 DEF Start
  <1>8. ASSUME NEW s \in Session, BeginRemove(s)
        PROVE  NoTaskOnSuperUser'
    <2>1. PICK r \in adminuser :
            /\ MayManage(s, r.type)
            /\ Start(s, [pc |-> "deleteAdmin", id |-> r.id])
      BY <1>8 DEF BeginRemove
    <2>2. Harmless([pc |-> "deleteAdmin", id |-> r.id])
      BY <2>1, SuperUserRows, BelowSuperUser
    <2> QED
      BY <1>4, <2>1, <2>2 DEF Start
  <1>9. ASSUME NEW s \in Session, BeginUpdateOwn(s)
        PROVE  NoTaskOnSuperUser'
    <2>1. PICK r \in adminuser, p \in Password :
            Start(s, [pc |-> "updateOwn", id |-> r.id, password |-> p])
      BY <1>9 DEF BeginUpdateOwn
    <2> QED
      BY <1>4, <2>1 DEF Start
  <1>10. ASSUME NEW s \in Session, Finish(s)
         PROVE  NoTaskOnSuperUser'
    BY <1>2, <1>4, <1>10 DEF Finish
  <1> QED
    BY <1>3, <1>5, <1>6, <1>7, <1>8, <1>9, <1>10 DEF Next, vars, Login,
       Logout, InsertAdmin, UpdateAdmin, DeleteAdmin, UpdateOwn, DropDomain,
       Fail

\* The super users stay the same: what a step writes or deletes is the row of
\* another administrator, or keeps the type.
LEMMA SuperUsersStep ==
    ASSUME TypeOK, AdminsKeyed, SuperUsersFixed, NoTaskOnSuperUser,
           nextId > Roots, [Next]_vars
    PROVE  SuperUsersFixed'
  <1>1. \A r \in adminuser : r.type = SuperUser <=> r.id \in RootId
    BY SuperUserRows
  <1>2. \A i \in RootId : \E r \in adminuser : r.id = i /\ r.type = SuperUser
    BY DEF SuperUsersFixed
  <1> DEFINE Kept ==
          /\ \A r \in adminuser' : r.type = SuperUser => r.id \in RootId
          /\ \A i \in RootId : \E r \in adminuser' : r.id = i /\ r.type = SuperUser
  <1>3. SUFFICES Kept
    BY DEF SuperUsersFixed
  <1>4. CASE UNCHANGED adminuser
    BY <1>1, <1>2, <1>4
  <1>5. ASSUME NEW s \in Session, InsertAdmin(s)
        PROVE  Kept
    <2>1. task[s].type # SuperUser
      BY <1>5 DEF InsertAdmin, At, NoTaskOnSuperUser
    <2> QED
      BY <1>1, <1>2, <1>5, <2>1 DEF InsertAdmin
  <1>6. ASSUME NEW s \in Session, UpdateAdmin(s)
        PROVE  Kept
    <2>1. task[s] \in UpdateTask
      BY <1>6, TaskKinds DEF UpdateAdmin, At
    <2>2. task[s].id \notin RootId /\ task[s].type # SuperUser
      BY <1>6 DEF UpdateAdmin, At, NoTaskOnSuperUser
    <2>3. \A r \in adminuser :
             /\ WithUpdate(r, task[s]).id = r.id
             /\ r.id # task[s].id => WithUpdate(r, task[s]) = r
             /\ r.id = task[s].id => WithUpdate(r, task[s]).type = task[s].type
      BY <2>1, WithUpdateType DEF TypeOK
    <2>4. CASE adminuser' = {WithUpdate(r, task[s]) : r \in adminuser}
      BY <1>1, <1>2, <2>2, <2>3, <2>4
    <2> QED
      BY <1>4, <1>6, <2>4 DEF UpdateAdmin
  <1>7. ASSUME NEW s \in Session, DeleteAdmin(s)
        PROVE  Kept
    <2>1. task[s].id \notin RootId
      BY <1>7 DEF DeleteAdmin, At, NoTaskOnSuperUser
    <2> QED
      BY <1>1, <1>2, <1>7, <2>1 DEF DeleteAdmin
  <1>8. ASSUME NEW s \in Session, UpdateOwn(s)
        PROVE  Kept
    <2>1. \A r \in adminuser' : r.type = SuperUser => r.id \in RootId
      BY <1>1, <1>8, OwnRows
    <2>2. ASSUME NEW i \in RootId
          PROVE  \E r \in adminuser' : r.id = i /\ r.type = SuperUser
      <3>1. PICK r \in adminuser : r.id = i /\ r.type = SuperUser
        BY <1>2
      <3>2. [r EXCEPT !.password = task[s].password].id = i
            /\ [r EXCEPT !.password = task[s].password].type = SuperUser
        BY <3>1 DEF TypeOK, Row
      <3> QED
        BY <1>8, <3>1, <3>2 DEF UpdateOwn
    <2> QED
      BY <2>1, <2>2
  <1> QED
    BY <1>4, <1>5, <1>6, <1>7, <1>8 DEF Next, vars, tables, Login, Logout,
       BeginCreate, CheckName, BeginUpdate, BeginRemove, BeginUpdateOwn,
       DropDomain, Fail

-----------------------------------------------------------------------------
(* Domains of administrators *)

\* What is assigned stays assigned to a domain manager that exists.
LEMMA DomainAdminsStep ==
    ASSUME TypeOK, DomainAdminsConsistent, AdminsKeyed, [Next]_vars
    PROVE  DomainAdminsConsistent'
  <1>1. CASE UNCHANGED <<adminuser, domainadmin, domain>>
    BY <1>1 DEF DomainAdminsConsistent
  <1>2. ASSUME NEW s \in Session, InsertAdmin(s)
        PROVE  DomainAdminsConsistent'
    <2> DEFINE t == task[s]
               ds == AssignedDomains(t.type, t.domains)
               new == [id |-> nextId, username |-> t.username, type |-> t.type,
                       password |-> t.password]
    <2>1. ds # {} => t.type < Administrator
      BY DEF AssignedDomains
    <2>2. CASE UNCHANGED <<adminuser, domainadmin>>
      BY <1>2, <2>2 DEF InsertAdmin, DomainAdminsConsistent
    <2>3. CASE /\ ds \subseteq domain
               /\ adminuser' = adminuser \cup {new}
               /\ domainadmin' = domainadmin \cup (ds \X {nextId})
      <3>1. ASSUME NEW da \in ds \X {nextId}
            PROVE  /\ da[1] \in domain
                   /\ \E r \in adminuser' : r.id = da[2] /\ r.type < Administrator
        <4>1. da[1] \in ds /\ da[2] = nextId
          OBVIOUS
        <4>2. new \in adminuser' /\ new.id = da[2] /\ new.type < Administrator
          BY <2>1, <2>3, <4>1
        <4> QED
          BY <2>3, <4>1, <4>2
      <3> QED
        BY <1>2, <2>3, <3>1 DEF InsertAdmin, DomainAdminsConsistent
    <2> QED
      BY <1>2, <2>2, <2>3 DEF InsertAdmin
  <1>3. ASSUME NEW s \in Session, UpdateAdmin(s)
        PROVE  DomainAdminsConsistent'
    <2> DEFINE t == task[s]
               ds == AssignedDomains(t.type, t.domains)
    <2>1. t \in UpdateTask
      BY <1>3, TaskKinds DEF UpdateAdmin, At
    <2>2. CASE UNCHANGED <<adminuser, domainadmin>>
      BY <1>3, <2>2 DEF UpdateAdmin, DomainAdminsConsistent
    <2>3. CASE /\ ds # {} => /\ \E r \in adminuser : r.id = t.id
                             /\ ds \subseteq domain
               /\ adminuser' = {WithUpdate(r, t) : r \in adminuser}
               /\ domainadmin' = WithoutAdmin(t.id) \cup (ds \X {t.id})
      <3>1. \A r \in adminuser :
               /\ WithUpdate(r, t) \in adminuser'
               /\ WithUpdate(r, t).id = r.id
               /\ r.id # t.id => WithUpdate(r, t) = r
               /\ r.id = t.id => WithUpdate(r, t).type = t.type
        BY <2>1, <2>3, WithUpdateType DEF TypeOK
      <3>2. ASSUME NEW da \in WithoutAdmin(t.id)
            PROVE  /\ da[1] \in domain
                   /\ \E r \in adminuser' : r.id = da[2] /\ r.type < Administrator
        BY <3>1 DEF WithoutAdmin, DomainAdminsConsistent
      <3>3. ASSUME NEW da \in ds \X {t.id}
            PROVE  /\ da[1] \in domain
                   /\ \E r \in adminuser' : r.id = da[2] /\ r.type < Administrator
        <4>1. ds # {} /\ t.type < Administrator
          BY DEF AssignedDomains
        <4> QED
          BY <2>3, <3>1, <4>1
      <3> QED
        BY <1>3, <2>3, <3>2, <3>3 DEF UpdateAdmin, DomainAdminsConsistent
    <2> QED
      BY <1>3, <2>2, <2>3 DEF UpdateAdmin
  <1>4. ASSUME NEW s \in Session, DeleteAdmin(s)
        PROVE  DomainAdminsConsistent'
    BY <1>4 DEF DeleteAdmin, DomainAdminsConsistent, WithoutAdmin
  <1>5. ASSUME NEW s \in Session, UpdateOwn(s)
        PROVE  DomainAdminsConsistent'
    <2>1. ASSUME NEW r \in adminuser
          PROVE  \E r2 \in adminuser' : r2.id = r.id /\ r2.type = r.type
      <3> DEFINE r2 == IF r.id = task[s].id
                       THEN [r EXCEPT !.password = task[s].password]
                       ELSE r
      <3>1. r2 \in adminuser'
        BY <1>5 DEF UpdateOwn
      <3>2. r2.id = r.id /\ r2.type = r.type
        BY DEF TypeOK, Row
      <3> QED
        BY <3>1, <3>2
    <2>2. ASSUME NEW da \in domainadmin
          PROVE  \E r2 \in adminuser' : r2.id = da[2] /\ r2.type < Administrator
      <3>1. PICK r \in adminuser : r.id = da[2] /\ r.type < Administrator
        BY DEF DomainAdminsConsistent
      <3> QED
        BY <2>1, <3>1
    <2>3. UNCHANGED <<domainadmin, domain>>
      BY <1>5 DEF UpdateOwn
    <2> QED
      BY <2>2, <2>3 DEF DomainAdminsConsistent
  <1>6. ASSUME NEW s \in Session, DropDomain(s)
        PROVE  DomainAdminsConsistent'
    BY <1>6 DEF DropDomain, DomainAdminsConsistent
  <1> QED
    BY <1>1, <1>2, <1>3, <1>4, <1>5, <1>6 DEF Next, vars, tables, Login,
       Logout, BeginCreate, CheckName, BeginUpdate, BeginRemove,
       BeginUpdateOwn, Fail

-----------------------------------------------------------------------------
(* The theorems *)

\* The tables that skaffaricmd leaves behind satisfy the invariant.
LEMMA InitIInv == Init => IInv
  <1> SUFFICES ASSUME Init PROVE IInv
    OBVIOUS
  <1>1. PICK p \in [RootId -> Password] :
           adminuser = {[id |-> i, username |-> i, type |-> SuperUser,
                         password |-> p[i]] : i \in RootId}
    BY DEF Init
  <1>2. RootId \subseteq Nat /\ \A i \in RootId : i < nextId
    BY AdminAssumption DEF RootId, Init
  <1>3. TypeOK
    BY <1>1, <1>2, AdminAssumption DEF Init, TypeOK, Row, AdminAccountType,
       Task, RootId
  <1>4. AdminsKeyed
    BY <1>1, <1>2 DEF AdminsKeyed
  <1>5. SuperUsersFixed
    <2>1. \A r \in adminuser : r.type = SuperUser /\ r.id \in RootId
      BY <1>1
    <2>2. ASSUME NEW i \in RootId
          PROVE  \E r \in adminuser : r.id = i
      <3> DEFINE r == [id |-> i, username |-> i, type |-> SuperUser,
                       password |-> p[i]]
      <3>1. r \in adminuser
        BY <1>1
      <3> QED
        BY <3>1
    <2> QED
      BY <2>1, <2>2 DEF SuperUsersFixed
  <1>6. NoTaskOnSuperUser /\ DomainAdminsConsistent /\ nextId > Roots
    BY AdminAssumption DEF Init, NoTaskOnSuperUser, DomainAdminsConsistent, Idle
  <1> QED
    BY <1>3, <1>4, <1>5, <1>6 DEF IInv

\* Every step, of whatever session, keeps the invariant.
LEMMA StepIInv == IInv /\ [Next]_vars => IInv'
  BY TypeStep, KeysStep, NextIdStep, TasksStep, SuperUsersStep,
     DomainAdminsStep DEF IInv

\* The invariant of AdminAccount's requests: rows are keyed, assignments are
\* consistent and no request in progress is about a super user.
THEOREM Inductive == Spec => []IInv
  BY InitIInv, StepIInv, PTL DEF Spec

\* create(), update() and remove() never make, demote or delete a super user,
\* so the ones made by skaffaricmd remain, whatever the sessions know.
THEOREM SuperUsersRemain == Spec => []SuperUsersFixed
  <1>1. IInv => SuperUsersFixed
    BY DEF IInv
  <1> QED
    BY Inductive, <1>1, PTL

\* The domains written by create() and update() belong to domain managers
\* that exist, and are domains that exist.
THEOREM AssignmentsConsistent == Spec => []DomainAdminsConsistent
  <1>1. IInv => DomainAdminsConsistent
    BY DEF IInv
  <1> QED
    BY Inductive, <1>1, PTL

\* The index decides between two creations that have both found the user name
\* unused: ids and user names stay unique.
THEOREM KeysUnique == Spec => []AdminsKeyed
  <1>1. IInv => AdminsKeyed
    BY DEF IInv
  <1> QED
    BY Inductive, <1>1, PTL

-----------------------------------------------------------------------------
(* Passwords of super users *)

\* updateOwn() writes the row that the session had when it read the form: the
\* browser neither logs in nor out while its request is served.
OwnTaskOfSession ==
    \A s \in Session : At(s, "updateOwn") => task[s].id = session[s].id

\* Every request for the own account stays one for the account of the session.
LEMMA OwnTaskStep ==
    ASSUME TypeOK, OwnTaskOfSession, [Next]_vars
    PROVE  OwnTaskOfSession'
  <1> DEFINE Own(t, u) == t.pc = "updateOwn" => t.id = u.id
  <1>1. \A o \in Session : Own(task[o], session[o])
    BY DEF OwnTaskOfSession, At
  <1>2. SUFFICES \A o \in Session : Own(task'[o], session'[o])
    BY DEF OwnTaskOfSession, At
  <1>3. CASE UNCHANGED <<task, session>>
    BY <1>1, <1>3
  <1>4. ASSUME NEW s \in Session, At(s, "idle"), UNCHANGED task,
               \A o \in Session \ {s} : session'[o] = session[o]
        PROVE  \A o \in Session : Own(task'[o], session'[o])
    BY <1>1, <1>4 DEF At
  <1>5. ASSUME NEW s \in Session, NEW t, Own(t, session[s]),
               task' = [task EXCEPT ![s] = t], UNCHANGED session
        PROVE  \A o \in Session : Own(task'[o], session'[o])
    BY <1>1, <1>5 DEF TypeOK
  <1>6. ASSUME NEW s \in Session, Login(s) \/ Logout(s)
        PROVE  \A o \in Session : Own(task'[o], session'[o])
    <2>1. \A o \in Session \ {s} : session'[o] = session[o]
      BY <1>6 DEF Login, Logout, TypeOK
    <2> QED
      BY <1>4, <1>6, <2>1 DEF Login, Logout
  <1>7. ASSUME NEW s \in Session, BeginCreate(s)
        PROVE  \A o \in Session : Own(task'[o], session'[o])
    <2>1. PICK n \in Name, t \in AllowedTypes(s), p \in Password,
               ds \in SUBSET Domain :
            /\ Start(s, [pc |-> "checkName", username |-> n, type |-> t,
                         password |-> p, domains |-> ds])
            /\ UNCHANGED session
      BY <1>7 DEF BeginCreate
    <2> QED
      BY <1>5, <2>1 DEF Start
  <1>8. ASSUME NEW s \in Session, BeginUpdate(s)
         PROVE  \A o \in Session : Own(task'[o], session'[o])
    <2>1. PICK r \in adminuser, t \in AllowedTypes(s),
               p \in {{}} \cup {{q} : q \in Password}, ds \in SUBSET Domain :
            /\ Start(s, [pc |-> "updateAdmin", id |-> r.id, type |-> t,
                         password |-> p, domains |-> ds])
            /\ UNCHANGED session
      BY <1>8 DEF BeginUpdate
    <2> QED
      BY <1>5, <2>1 DEF Start
  <1>9. ASSUME NEW s \in Session, BeginRemove(s)
         PROVE  \A o \in Session : Own(task'[o], session'[o])
    BY <1>5, <1>9 DEF BeginRemove, Start
  <1>10. ASSUME NEW s \in Session, CheckName(s)
        PROVE  \A o \in Session : Own(task'[o], session'[o])
    <2>1. [task[s] EXCEPT !.pc = "insertAdmin"].pc # "updateOwn"
      BY <1>10, TaskKinds DEF CheckName, At, CreateTask
    <2> QED
      BY <1>5, <1>10, <2>1 DEF CheckName, Finish, Idle
  <1>11. ASSUME NEW s \in Session, BeginUpdateOwn(s)
        PROVE  \A o \in Session : Own(task'[o], session'[o])
    BY <1>5, <1>11 DEF BeginUpdateOwn, Start
  <1>12. ASSUME NEW s \in Session, Finish(s), UNCHANGED session
         PROVE  \A o \in Session : Own(task'[o], session'[o])
    BY <1>5, <1>12 DEF Finish, Idle
  <1> QED
    BY <1>3, <1>6, <1>7, <1>8, <1>9, <1>10, <1>11, <1>12 DEF Next, vars,
       InsertAdmin, UpdateAdmin, DeleteAdmin, UpdateOwn, DropDomain, Fail

\* One step changes a super user's password only as the super user's own change.
LEMMA PasswordStep ==
    ASSUME IInv, OwnTaskOfSession, [Next]_vars,
           NEW r \in adminuser, NEW r2 \in adminuser',
           r.id = r2.id, r.id \in RootId, r.password # r2.password
    PROVE  \E s \in Session : session[s].id = r.id /\ At(s, "updateOwn")
  <1> USE DEF IInv
  <1>1. \A x \in adminuser : x.id = r.id => x = r
    BY DEF AdminsKeyed
  <1>2. CASE UNCHANGED adminuser
    BY <1>1, <1>2
  <1>3. ASSUME NEW s \in Session, InsertAdmin(s)
        PROVE  FALSE
    <2>1. r2 \in adminuser \/ r2.id = nextId
      BY <1>3 DEF InsertAdmin
    <2>2. r.id # nextId
      BY DEF AdminsKeyed, TypeOK, Row
    <2> QED
      BY <1>1, <2>1, <2>2
  <1>4. ASSUME NEW s \in Session, UpdateAdmin(s)
        PROVE  FALSE
    <2>1. task[s] \in UpdateTask /\ task[s].id \notin RootId
      BY <1>4, TaskKinds DEF UpdateAdmin, At, NoTaskOnSuperUser
    <2>2. PICK x \in adminuser : r2 = x \/ r2 = WithUpdate(x, task[s])
      BY <1>4 DEF UpdateAdmin
    <2>3. WithUpdate(x, task[s]).id = x.id
          /\ (x.id # task[s].id => WithUpdate(x, task[s]) = x)
      BY <2>1, WithUpdateType DEF TypeOK
    <2> QED
      BY <1>1, <2>1, <2>2, <2>3
  <1>5. ASSUME NEW s \in Session, DeleteAdmin(s)
        PROVE  FALSE
    BY <1>1, <1>5 DEF DeleteAdmin
  <1>6. ASSUME NEW s \in Session, UpdateOwn(s)
        PROVE  session[s].id = r.id /\ At(s, "updateOwn")
    <2>1. At(s, "updateOwn") /\ task[s].id = session[s].id
      BY <1>6 DEF UpdateOwn, OwnTaskOfSession
    <2>2. PICK x \in adminuser : r2.id = x.id /\ (x.id # task[s].id => r2 = x)
      BY <1>6, OwnRows
    <2> QED
      BY <1>1, <2>1, <2>2
  <1> QED
    BY <1>2, <1>3, <1>4, <1>5, <1>6 DEF Next, vars, tables, Login, Logout,
       BeginCreate, CheckName, BeginUpdate, BeginRemove, BeginUpdateOwn,
       DropDomain, Fail

\* update() cannot reach the row of a super user, and updateOwn() reaches the
\* row of its session only: nobody else changes the password of a super user.
THEOREM PasswordsOwn == Spec => SuperUserPasswordOwn
  <1>1. Init => OwnTaskOfSession
    BY DEF Init, OwnTaskOfSession, At, Idle
  <1>2. IInv /\ OwnTaskOfSession /\ [Next]_vars => OwnTaskOfSession'
    BY OwnTaskStep DEF IInv
  <1>3. IInv /\ OwnTaskOfSession /\ [Next]_vars =>
            [\A r \in adminuser, r2 \in adminuser' :
                r.id = r2.id /\ r.id \in RootId /\ r.password # r2.password =>
                    \E s \in Session : session[s].id = r.id
                                       /\ At(s, "updateOwn")]_vars
    BY PasswordStep
  <1> QED
    BY Inductive, <1>1, <1>2, <1>3, PTL DEF Spec, SuperUserPasswordOwn

=============================================================================
