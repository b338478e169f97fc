--------------------- MODULE AccountProvisioning_proofs ---------------------
(***************************************************************************)
(* Theorems about AccountProvisioning, for every number of workers, users, *)
(* addresses and domains, and without the bounds of the model runs being   *)
(* small.  The second half is about the counter of a domain and the        *)
(* completeness of its accounts, and about what holds in addition when one *)
(* worker serves one request after the other.                              *)
(***************************************************************************)
EXTENDS AccountProvisioning, FiniteSetTheorems, TLAPS

-----------------------------------------------------------------------------
(* Type correctness *)

\* The statement a request is at tells which kind of request it is.
LEMMA TaskKinds ==
    ASSUME TypeOK, NEW w \in Worker
    PROVE  /\ task[w] \in Task
           /\ task[w].pc \in CreatePC => task[w] \in CreateTask
           /\ task[w].pc \in RemovePC => task[w] \in RemoveTask
           /\ task[w].pc \in CheckPC => task[w] \in CheckTask
           /\ task[w].pc \in SweepPC => task[w] \in SweepTask
  BY DEF TypeOK, Task, Idle, CreateTask, RemoveTask, CheckTask, SweepTask,
         CreatePC, UncountedPC, RemovePC, CheckPC, SweepPC

\* A request that ends, or goes on with another statement of its kind.
LEMMA FinishType ==
    ASSUME TypeOK, NEW w \in Worker, Finish(w)
    PROVE  task' \in [Worker -> Task]
  BY DEF TypeOK, Finish, Task

\* A request that goes on with a statement of the same function keeps the type.
LEMMA GotoType ==
    ASSUME TypeOK, NEW w \in Worker, NEW p, Goto(w, p),
           \/ task[w].pc \in CreatePC /\ p \in CreatePC
           \/ task[w].pc \in RemovePC /\ p \in RemovePC
           \/ task[w].pc \in CheckPC /\ p \in CheckPC
           \/ task[w].pc \in SweepPC /\ p \in SweepPC
    PROVE  task' \in [Worker -> Task]
  <1>1. [task[w] EXCEPT !.pc = p] \in Task
    <2>1. CASE task[w].pc \in CreatePC /\ p \in CreatePC
      BY <2>1, TaskKinds DEF Task, CreateTask
    <2>2. CASE task[w].pc \in RemovePC /\ p \in RemovePC
      BY <2>2, TaskKinds DEF Task, RemoveTask
    <2>3. CASE task[w].pc \in CheckPC /\ p \in CheckPC
      BY <2>3, TaskKinds DEF Task, CheckTask
    <2>4. CASE task[w].pc \in SweepPC /\ p \in SweepPC
      BY <2>4, TaskKinds DEF Task, SweepTask
    <2> QED
      BY <2>1, <2>2, <2>3, <2>4
  <1> QED
    BY <1>1 DEF TypeOK, Goto

\* The end of Account::remove, alone or within Domain::remove.
LEMMA AccountRemovedType ==
    ASSUME TypeOK, NEW w \in Worker, task[w].pc \in RemovePC, AccountRemoved(w)
    PROVE  task' \in [Worker -> Task]
  <1> DEFINE next == [pc |-> "nextAccount", target |-> task[w].target,
                      todo |-> task[w].todo \ {task[w].id}]
  <1>1. next \in SweepTask
    BY TaskKinds DEF SweepTask, SweepPC, RemoveTask
  <1>2. CASE task[w].sweep
    BY <1>1, <1>2 DEF AccountRemoved, TypeOK, Task
  <1>3. CASE ~task[w].sweep
    BY <1>3, FinishType DEF AccountRemoved
  <1> QED
    BY <1>2, <1>3

\* Every statement of Account::create leaves the state well typed.
LEMMA CreateStepType ==
    ASSUME TypeOK, NEW w \in Worker, CreateStep(w)
    PROVE  TypeOK'
  <1> USE DEF At
  <1>1. /\ task[w].pc \in CreatePC
        /\ task[w] \in CreateTask
    BY TaskKinds DEF CreateStep, CheckAlias, InsertAccount, InsertAddress,
       InsertAce, LinkAce, DropCatchAll, InsertCatchAll, InsertCatchAllAce,
       LinkCatchAll, CreateMailbox, CountUp, UndoVirtual, UndoAccount,
       CreatePC, UncountedPC
  <1>2. ASSUME NEW l \in Local \cup {CatchAll}, NEW ace \in BOOLEAN,
               InsertVirtual(w, l, ace)
        PROVE  virtual' \subseteq [alias : Address, user : User]
    BY <1>1, <1>2 DEF InsertVirtual, TypeOK, CreateTask, Address
  <1>3. AfterAddress(w) \in CreatePC
    BY DEF AfterAddress, CreatePC, UncountedPC
  <1>4. CASE CheckAlias(w)
    <2>1. task' \in [Worker -> Task]
      BY <1>1, <1>4, FinishType, GotoType DEF CheckAlias, CreatePC
    <2> QED
      BY <1>4, <2>1 DEF CheckAlias, TypeOK, tables, history
  <1>5. CASE InsertAccount(w)
    <2>1. CASE UserRows(task[w].user) # {}
      <3>1. task' \in [Worker -> Task]
        BY <1>5, <2>1, FinishType DEF InsertAccount
      <3> QED
        BY <1>5, <2>1, <3>1 DEF InsertAccount, TypeOK, history
    <2>2. CASE UserRows(task[w].user) = {}
      <3>1. [task[w] EXCEPT !.pc = "insertAddress", !.id = nextId] \in CreateTask
        BY <1>1 DEF CreateTask, TypeOK, CreatePC, UncountedPC
      <3>2. task' \in [Worker -> Task]
        BY <1>5, <2>2, <3>1 DEF InsertAccount, TypeOK, Task
      <3>3. accountuser' \subseteq Row /\ nextId' \in Nat
        BY <1>1, <1>5, <2>2 DEF InsertAccount, TypeOK, Row, CreateTask
      <3> QED
        BY <1>5, <3>2, <3>3 DEF InsertAccount, TypeOK, history
    <2> QED
      BY <2>1, <2>2
  <1>6. CASE InsertAddress(w)
    <2>1. task' \in [Worker -> Task]
      BY <1>1, <1>3, <1>6, GotoType DEF InsertAddress, CreatePC, UncountedPC
    <2>2. virtual' \subseteq [alias : Address, user : User]
      BY <1>1, <1>2, <1>6 DEF InsertAddress, CreateTask
    <2> QED
      BY <1>6, <2>1, <2>2 DEF InsertAddress, TypeOK, history
  <1>7. CASE InsertAce(w)
    <2>1. task' \in [Worker -> Task]
      BY <1>1, <1>7, GotoType DEF InsertAce, CreatePC, UncountedPC
    <2>2. virtual' \subseteq [alias : Address, user : User]
      BY <1>1, <1>2, <1>7 DEF InsertAce, CreateTask
    <2> QED
      BY <1>7, <2>1, <2>2 DEF InsertAce, TypeOK, history
  <1>8. CASE LinkAce(w)
    <2>1. task' \in [Worker -> Task]
      BY <1>1, <1>3, <1>8, GotoType DEF LinkAce
    <2> QED
      BY <1>8, <2>1 DEF LinkAce, TypeOK, tables, history
  <1>9. CASE DropCatchAll(w)
    <2>1. task' \in [Worker -> Task]
      BY <1>1, <1>9, GotoType DEF DropCatchAll, CreatePC, UncountedPC
    <2> QED
      BY <1>9, <2>1 DEF DropCatchAll, TypeOK, history
  <1>10. CASE InsertCatchAll(w)
    <2>1. task' \in [Worker -> Task]
      BY <1>1, <1>10, GotoType DEF InsertCatchAll, CreatePC, UncountedPC
    <2>2. virtual' \subseteq [alias : Address, user : User]
      BY <1>2, <1>10 DEF InsertCatchAll
    <2> QED
      BY <1>10, <2>1, <2>2 DEF InsertCatchAll, TypeOK, history
  <1>11. CASE InsertCatchAllAce(w)
    <2>1. task' \in [Worker -> Task]
      BY <1>1, <1>11, GotoType DEF InsertCatchAllAce, CreatePC, UncountedPC
    <2>2. virtual' \subseteq [alias : Address, user : User]
      BY <1>2, <1>11 DEF InsertCatchAllAce
    <2> QED
      BY <1>11, <2>1, <2>2 DEF InsertCatchAllAce, TypeOK, history
  <1>12. CASE LinkCatchAll(w)
    <2>1. task' \in [Worker -> Task]
      BY <1>1, <1>12, GotoType DEF LinkCatchAll, CreatePC, UncountedPC
    <2> QED
      BY <1>12, <2>1 DEF LinkCatchAll, TypeOK, tables, history
  <1>13. CASE CreateMailbox(w)
    <2>1. task' \in [Worker -> Task]
      BY <1>1, <1>13, GotoType DEF CreateMailbox, CreatePC, UncountedPC
    <2>2. mailbox' \subseteq User
      BY <1>1, <1>13 DEF CreateMailbox, TypeOK, CreateTask
    <2> QED
      BY <1>13, <2>1, <2>2 DEF CreateMailbox, TypeOK, tables, history
  <1>14. CASE CountUp(w)
    <2>1. task' \in [Worker -> Task]
      BY <1>14, FinishType DEF CountUp
    <2>2. accountcount' \in [Domain -> Nat]
      BY <1>1, <1>14 DEF CountUp, TypeOK, CreateTask
    <2> QED
      BY <1>14, <2>1, <2>2 DEF CountUp, TypeOK, history
  <1>15. CASE UndoVirtual(w)
    <2>1. task' \in [Worker -> Task]
      BY <1>1, <1>15, GotoType DEF UndoVirtual, CreatePC, UncountedPC
    <2> QED
      BY <1>15, <2>1 DEF UndoVirtual, RemoveVirtual, TypeOK, history
  <1>16. CASE UndoAccount(w)
    <2>1. task' \in [Worker -> Task]
      BY <1>16, FinishType DEF UndoAccount
    <2>2. accountuser' \subseteq Row /\ skewed' \subseteq Domain
      BY <1>1, <1>16 DEF UndoAccount, RemoveAccountByID, MarkIfGone, TypeOK,
         CreateTask
    <2> QED
      BY <1>16, <2>1, <2>2 DEF UndoAccount, TypeOK
  <1> QED
    BY <1>4, <1>5, <1>6, <1>7, <1>8, <1>9, <1>10, <1>11, <1>12, <1>13, <1>14,
       <1>15, <1>16 DEF CreateStep

\* So does every statement of Account::remove.
LEMMA RemoveStepType ==
    ASSUME TypeOK, NEW w \in Worker, RemoveStep(w)
    PROVE  TypeOK'
  <1> USE DEF At
  <1>1. /\ task[w].pc \in RemovePC
        /\ task[w] \in RemoveTask
    BY TaskKinds DEF RemoveStep, DeleteMailbox, DeleteVirtual, DeleteAccount,
       CountDown, RemovePC
  <1>2. CASE DeleteMailbox(w)
    <2>1. task' \in [Worker -> Task]
      BY <1>1, <1>2, FinishType, GotoType DEF DeleteMailbox, RemovePC
    <2>2. mailbox' \subseteq User
      BY <1>2 DEF DeleteMailbox, TypeOK
    <2> QED
      BY <1>2, <2>1, <2>2 DEF DeleteMailbox, TypeOK, tables, history
  <1>3. CASE DeleteVirtual(w)
    <2>1. task' \in [Worker -> Task]
      BY <1>1, <1>3, GotoType DEF DeleteVirtual, RemovePC
    <2> QED
      BY <1>3, <2>1 DEF DeleteVirtual, RemoveVirtual, TypeOK, history
  <1>4. CASE DeleteAccount(w)
    <2>1. task' \in [Worker -> Task]
      BY <1>1, <1>4, GotoType DEF DeleteAccount, RemovePC
    <2>2. accountuser' \subseteq Row /\ skewed' \subseteq Domain
      BY <1>1, <1>4 DEF DeleteAccount, RemoveAccountByID, MarkIfGone, TypeOK,
         RemoveTask
    <2> QED
      BY <1>4, <2>1, <2>2 DEF DeleteAccount, TypeOK
  <1>5. CASE CountDown(w)
    <2>1. task' \in [Worker -> Task]
      BY <1>1, <1>5, AccountRemovedType DEF CountDown
    <2>2. accountcount' \in [Domain -> Nat] /\ skewed' \subseteq Domain
      <3>1. task[w].dom \in Domain
        BY <1>1 DEF RemoveTask
      <3>2. CASE UNCHANGED accountcount
        BY <1>5, <3>1, <3>2 DEF CountDown, TypeOK
      <3>3. CASE accountcount' # accountcount
        BY <1>5, <3>1, <3>3 DEF CountDown, OutOfRange, TypeOK
      <3> QED
        BY <3>2, <3>3
    <2> QED
      BY <1>5, <2>1, <2>2 DEF CountDown, TypeOK
  <1> QED
    BY <1>2, <1>3, <1>4, <1>5 DEF RemoveStep

\* So does every statement of Account::check.
LEMMA CheckStepType ==
    ASSUME TypeOK, NEW w \in Worker, CheckStep(w)
    PROVE  TypeOK'
  <1> USE DEF At
  <1>1. /\ task[w].pc \in CheckPC
        /\ task[w] \in CheckTask
    BY TaskKinds DEF CheckStep, ListMailboxes, CreateMissing, CheckPC
  <1>2. CASE ListMailboxes(w)
    <2>1. task' \in [Worker -> Task]
      BY <1>1, <1>2, FinishType, GotoType DEF ListMailboxes, CheckPC
    <2> QED
      BY <1>2, <2>1 DEF ListMailboxes, TypeOK, tables, history
  <1>3. CASE CreateMissing(w)
    <2>1. task' \in [Worker -> Task]
      BY <1>3, FinishType DEF CreateMissing, MakeMissingMailbox
    <2>2. mailbox' \subseteq User /\ recreated' \subseteq User
      BY <1>1, <1>3 DEF CreateMissing, MakeMissingMailbox, TypeOK, CheckTask
    <2> QED
      BY <1>3, <2>1, <2>2 DEF CreateMissing, TypeOK, tables
  <1> QED
    BY <1>2, <1>3 DEF CheckStep

\* Domain::remove goes on without account i.
LEMMA SkipType ==
    ASSUME TypeOK, NEW w \in Worker, At(w, "nextAccount"), NEW i,
           task' = [task EXCEPT ![w].todo = @ \ {i}]
    PROVE  task' \in [Worker -> Task]
  <1>1. task[w] \in SweepTask
    BY TaskKinds DEF At, SweepPC
  <1>2. [task[w] EXCEPT !.todo = @ \ {i}] \in SweepTask
    BY <1>1 DEF SweepTask
  <1> QED
    BY <1>2 DEF TypeOK, Task

\* So does every step of Domain::remove.
LEMMA SweepStepType ==
    ASSUME TypeOK, NEW w \in Worker, SweepStep(w)
    PROVE  TypeOK'
  <1>1. /\ task[w].pc \in SweepPC
        /\ task[w] \in SweepTask
    BY TaskKinds DEF SweepStep, NextAccount, DropDomain, SweepPC, At
  <1>2. CASE NextAccount(w)
    <2>1. task' \in [Worker -> Task]
      <3>1. CASE task[w].todo = {} /\ Goto(w, "dropDomain")
        BY <1>1, <3>1, GotoType DEF SweepPC
      <3>2. ASSUME NEW r \in accountuser, r.id \in task[w].todo,
                   task' = [task EXCEPT ![w] =
                       [pc |-> "deleteMailbox", user |-> r.user, dom |-> r.dom,
                        id |-> r.id, sweep |-> TRUE,
                        target |-> task[w].target, todo |-> task[w].todo]]
            PROVE  task' \in [Worker -> Task]
        <4>1. [pc |-> "deleteMailbox", user |-> r.user, dom |-> r.dom,
               id |-> r.id, sweep |-> TRUE,
               target |-> task[w].target, todo |-> task[w].todo] \in RemoveTask
          BY <1>1 DEF RemoveTask, RemovePC, SweepTask, TypeOK, Row
        <4> QED
          BY <3>2, <4>1 DEF TypeOK, Task
      <3>3. ASSUME NEW i \in task[w].todo,
                   task' = [task EXCEPT ![w].todo = @ \ {i}]
            PROVE  task' \in [Worker -> Task]
        BY <1>2, <3>3, SkipType DEF NextAccount
      <3> QED
        BY <1>2, <3>1, <3>2, <3>3 DEF NextAccount
    <2> QED
      BY <1>2, <2>1 DEF NextAccount, TypeOK, tables, history
  <1>3. CASE DropDomain(w)
    <2>1. task' \in [Worker -> Task]
      BY <1>3, FinishType DEF DropDomain
    <2> QED
      BY <1>3, <2>1 DEF DropDomain, TypeOK, history
  <1> QED
    BY <1>2, <1>3 DEF SweepStep

\* The rows and ids that a new request carries are well typed.
LEMMA BeginType ==
    ASSUME TypeOK, NEW w \in Worker, Begin(w)
    PROVE  TypeOK'
  <1>1. ASSUME NEW u \in User, NEW l \in Local, NEW d \in domain,
               NEW ca \in BOOLEAN
        PROVE  [pc |-> "checkAlias", user |-> u, local |-> l, dom |-> d,
                catchall |-> ca, id |-> 0] \in CreateTask
    BY DEF CreateTask, CreatePC, TypeOK
  <1>2. ASSUME NEW r \in accountuser
        PROVE  /\ [pc |-> "deleteMailbox", user |-> r.user, dom |-> r.dom,
                   id |-> r.id, sweep |-> FALSE, target |-> r.dom,
                   todo |-> {}] \in RemoveTask
               /\ [pc |-> "listMailboxes", user |-> r.user, dom |-> r.dom]
                     \in CheckTask
    BY DEF RemoveTask, RemovePC, CheckTask, CheckPC, TypeOK, Row
  <1>3. ASSUME NEW d \in domain
        PROVE  [pc |-> "nextAccount", target |-> d,
                todo |-> {r.id : r \in AccountsOf(d)}] \in SweepTask
    BY DEF SweepTask, SweepPC, TypeOK, AccountsOf, Row
  <1>4. CASE BeginCreate(w)
    BY <1>1, <1>4 DEF BeginCreate, TypeOK, Task, tables, history
  <1>5. CASE BeginSweep(w)
    BY <1>3, <1>5 DEF BeginSweep, TypeOK, Task, tables, history
  <1>6. ASSUME NEW u \in User, BeginRemove(w, u)
        PROVE  TypeOK'
    BY <1>2, <1>6 DEF BeginRemove, UserRows, TypeOK, Task, tables, history
  <1>7. ASSUME NEW u \in User, BeginCheck(w, u)
        PROVE  TypeOK'
    BY <1>2, <1>7 DEF BeginCheck, UserRows, TypeOK, Task, tables, history
  <1> QED
    BY <1>4, <1>5, <1>6, <1>7 DEF Begin

\* The error path of a request stays within the request's kind.
LEMMA OnErrorType ==
    ASSUME TypeOK, NEW w \in Worker, OnError(w)
    PROVE  task' \in [Worker -> Task]
  <1> USE DEF At
  <1>1. CASE Finish(w)
    BY <1>1, FinishType
  <1>2. CASE /\ task[w].pc \in CreatePC
             /\ Goto(w, "undoAccount") \/ Goto(w, "undoVirtual")
    BY <1>2, GotoType DEF CreatePC, UncountedPC
  <1>3. CASE task[w].pc = "deleteMailbox" /\ Goto(w, "deleteVirtual")
    BY <1>3, GotoType DEF RemovePC
  <1>4. CASE task[w].pc = "countDown" /\ AccountRemoved(w)
    BY <1>4, AccountRemovedType DEF RemovePC
  <1>5. CASE /\ task[w].pc = "nextAccount"
             /\ \E i \in task[w].todo : task' = [task EXCEPT ![w].todo = @ \ {i}]
    BY <1>5, SkipType
  <1> QED
    BY <1>1, <1>2, <1>3, <1>4, <1>5 DEF OnError, CreatePC, UncountedPC

\* A failed statement, a lost reply or a crash leaves the state well typed.
LEMMA FailureType ==
    ASSUME TypeOK, NEW w \in Worker, Failure(w)
    PROVE  TypeOK'
  <1>1. faults' \in Nat
    BY DEF Failure, StatementFails, MailboxReplyLost, Crash, Fault, TypeOK
  <1>2. task[w].pc \in CreatePC \cup RemovePC => task[w].dom \in Domain
    BY TaskKinds DEF CreateTask, RemoveTask
  <1>3. task[w].pc \in CreatePC \cup RemovePC \cup CheckPC =>
            task[w].user \in User
    BY TaskKinds DEF CreateTask, RemoveTask, CheckTask
  <1>4. CASE StatementFails(w)
    <2>1. skewed' \subseteq Domain
      BY <1>2, <1>4 DEF StatementFails, SkewingPC, CreatePC, UncountedPC,
         RemovePC, TypeOK
    <2> QED
      BY <1>1, <1>4, <2>1, OnErrorType DEF StatementFails, TypeOK, tables
  <1>5. CASE MailboxReplyLost(w)
    <2>1. task' \in [Worker -> Task]
      BY <1>5, FinishType, GotoType DEF MailboxReplyLost, MakeMissingMailbox,
         At, CreatePC, UncountedPC, RemovePC
    <2>2. mailbox' \subseteq User /\ recreated' \subseteq User
      BY <1>3, <1>5 DEF MailboxReplyLost, MakeMissingMailbox, At, CreatePC,
         UncountedPC, RemovePC, CheckPC, TypeOK
    <2> QED
      BY <1>1, <1>5, <2>1, <2>2 DEF MailboxReplyLost, TypeOK, tables
  <1>6. CASE Crash(w)
    <2>1. skewed' \subseteq Domain
      BY <1>2, <1>6 DEF Crash, CreatePC, RemovePC, TypeOK
    <2>2. task' \in [Worker -> Task]
      BY <1>6, FinishType DEF Crash
    <2> QED
      BY <1>1, <1>6, <2>1, <2>2 DEF Crash, TypeOK, tables
  <1> QED
    BY <1>4, <1>5, <1>6 DEF Failure

\* Every request stays well-formed, whatever other requests and failures come
\* between its statements: a request that resumes after an error or after the
\* removal of one account of a domain has everything its next statement needs.
THEOREM TypeCorrect == Spec => []TypeOK
  <1>1. Init => TypeOK
    BY ProvisioningAssumption DEF Init, TypeOK, Task
  <1>2. TypeOK /\ [Next]_vars => TypeOK'
    <2> SUFFICES ASSUME TypeOK, [Next]_vars
                 PROVE  TypeOK'
      OBVIOUS
    <2>1. CASE Next
      BY <2>1, CreateStepType, RemoveStepType, CheckStepType, SweepStepType,
         BeginType, FailureType DEF Next, Step
    <2>2. CASE UNCHANGED vars
      BY <2>2 DEF vars, tables, history, TypeOK
    <2> QED
      BY <2>1, <2>2
  <1> QED
    BY <1>1, <1>2, PTL DEF Spec

-----------------------------------------------------------------------------
(* Keys: RowsKeyed *)

\* A request that holds the id of an account.
Holds(t) == t.pc \in UncountedPC \cup RemovePC

\* Only w moves, and if it holds an id after the step, it held it before.
KeepsKeys(w) ==
    /\ \A x \in Worker : x # w => task'[x] = task[x]
    /\ Holds(task'[w]) =>
           /\ Holds(task[w])
           /\ task'[w].id = task[w].id
           /\ task'[w].user = task[w].user
           /\ task'[w].pc \in UncountedPC => task[w].pc \in UncountedPC

\* A request that ends holds no row any more.
LEMMA FinishKeeps ==
    ASSUME TypeOK, NEW w \in Worker, Finish(w)
    PROVE  KeepsKeys(w) /\ task'[w].pc = "idle"
  BY DEF TypeOK, Finish, Idle, KeepsKeys, Holds, UncountedPC, RemovePC

\* What a request is about does not change when it goes on.
LEMMA GotoKeeps ==
    ASSUME TypeOK, NEW w \in Worker, NEW p, Goto(w, p),
           task[w].pc \in CreatePC \cup RemovePC
    PROVE  /\ \A x \in Worker : x # w => task'[x] = task[x]
           /\ task'[w].pc = p
           /\ task'[w].id = task[w].id
           /\ task'[w].user = task[w].user
  <1>1. task'[w] = [task[w] EXCEPT !.pc = p]
    BY DEF TypeOK, Goto
  <1>2. task[w] \in CreateTask \/ task[w] \in RemoveTask
    BY TaskKinds
  <1>3. /\ task'[w].pc = p
        /\ task'[w].id = task[w].id
        /\ task'[w].user = task[w].user
    BY <1>1, <1>2 DEF CreateTask, RemoveTask
  <1> QED
    BY <1>3 DEF TypeOK, Goto

\* The end of Account::remove takes up no other row.
LEMMA AccountRemovedKeeps ==
    ASSUME TypeOK, NEW w \in Worker, task[w].pc \in RemovePC, AccountRemoved(w)
    PROVE  KeepsKeys(w) /\ task'[w].pc \in {"idle", "nextAccount"}
  <1>1. CASE task[w].sweep
    BY <1>1 DEF AccountRemoved, TypeOK, KeepsKeys, Holds, UncountedPC, RemovePC
  <1>2. CASE ~task[w].sweep
    BY <1>2, FinishKeeps DEF AccountRemoved
  <1> QED
    BY <1>1, <1>2

\* Domain::remove and Account::check hold no id between two accounts.
LEMMA ListKeeps ==
    ASSUME TypeOK, NEW w \in Worker,
           \/ At(w, "listMailboxes") /\ Goto(w, "createMissing")
           \/ At(w, "nextAccount") /\ Goto(w, "dropDomain")
           \/ /\ At(w, "nextAccount")
              /\ \E i \in task[w].todo : task' = [task EXCEPT ![w].todo = @ \ {i}]
    PROVE  /\ KeepsKeys(w)
           /\ task'[w].pc \in {"createMissing", "dropDomain", "nextAccount"}
  <1>1. task[w] \in CheckTask \/ task[w] \in SweepTask
    BY TaskKinds DEF At, CheckPC, SweepPC
  <1>2. task'[w].pc \in {"createMissing", "dropDomain", "nextAccount"}
    BY <1>1 DEF Goto, At, TypeOK, CheckTask, SweepTask
  <1> QED
    BY <1>2 DEF Goto, TypeOK, KeepsKeys, Holds, UncountedPC, RemovePC

\* Keys survive a step that inserts no row and after which nobody holds an id
\* it did not hold before.
LEMMA KeysFrame ==
    ASSUME RowsKeyed, NEW w \in Worker, KeepsKeys(w),
           accountuser' \subseteq accountuser, nextId' = nextId
    PROVE  RowsKeyed'
  <1>1. \A x \in Worker : Holds(task'[x]) =>
            /\ Holds(task[x])
            /\ task'[x].id = task[x].id
            /\ task'[x].user = task[x].user
            /\ task'[x].pc \in UncountedPC => task[x].pc \in UncountedPC
    BY DEF KeepsKeys
  <1>2. \A r \in accountuser' : r.id < nextId'
    BY DEF RowsKeyed
  <1>3. \A r1, r2 \in accountuser' :
            r1.id = r2.id \/ r1.user = r2.user => r1 = r2
    BY DEF RowsKeyed
  <1>4. ASSUME NEW x \in Worker, task'[x].pc \in UncountedPC \cup RemovePC
        PROVE  /\ task'[x].id < nextId'
               /\ \A r \in accountuser' :
                      r.id = task'[x].id => r.user = task'[x].user
    BY <1>1, <1>4 DEF RowsKeyed, Holds
  <1>5. ASSUME NEW x \in Worker, NEW y \in Worker,
               task'[x].pc \in UncountedPC, task'[y].pc \in UncountedPC,
               task'[x].id = task'[y].id
        PROVE  x = y
    BY <1>1, <1>5 DEF RowsKeyed, Holds
  <1> QED
    BY <1>2, <1>3, <1>4, <1>5 DEF RowsKeyed

\* The row that Account::create inserts has a new id and a new user name.
LEMMA InsertAccountKeys ==
    ASSUME TypeOK, RowsKeyed, NEW w \in Worker, InsertAccount(w),
           UserRows(task[w].user) = {}
    PROVE  /\ RowsKeyed'
           /\ \A x \in Worker : x # w => task'[x] = task[x]
           /\ task'[w].pc = "insertAddress"
           /\ task'[w].id = nextId
           /\ task'[w].user = task[w].user
  <1> DEFINE new == [id |-> nextId, user |-> task[w].user, dom |-> task[w].dom]
  <1>1. /\ accountuser' = accountuser \cup {new}
        /\ nextId' = nextId + 1
        /\ task' = [task EXCEPT ![w].pc = "insertAddress", ![w].id = nextId]
    BY DEF InsertAccount
  <1>2. task[w] \in CreateTask
    BY TaskKinds DEF InsertAccount, At, CreatePC
  <1>3. /\ task'[w].pc = "insertAddress"
        /\ task'[w].id = nextId
        /\ task'[w].user = task[w].user
        /\ \A x \in Worker : x # w => task'[x] = task[x]
    BY <1>1, <1>2 DEF TypeOK, CreateTask
  <1>4. /\ new.id = nextId /\ new.user = task[w].user
        /\ \A r \in accountuser : r.id < nextId /\ r.id # nextId
        /\ \A r \in accountuser : r.user # task[w].user
        /\ nextId \in Nat
        /\ \A r \in accountuser : r.id \in Nat
    BY DEF RowsKeyed, UserRows, TypeOK, Row
  <1>5. /\ \A r \in accountuser' : r.id < nextId'
        /\ \A r \in accountuser' :
               r \in accountuser \/ (r.id = nextId /\ r.user = task[w].user)
        /\ nextId < nextId'
    BY <1>1, <1>4
  <1>6. \A r1, r2 \in accountuser' :
            r1.id = r2.id \/ r1.user = r2.user => r1 = r2
    BY <1>1, <1>4 DEF RowsKeyed
  <1>7. ASSUME NEW x \in Worker, task[x].pc \in UncountedPC \cup RemovePC
        PROVE  task[x].id \in Nat /\ task[x].id < nextId
    BY <1>7, TaskKinds DEF RowsKeyed, CreatePC, CreateTask, RemoveTask
  <1>8. ASSUME NEW x \in Worker, task'[x].pc \in UncountedPC \cup RemovePC
        PROVE  /\ task'[x].id < nextId'
               /\ \A r \in accountuser' :
                      r.id = task'[x].id => r.user = task'[x].user
    <2>1. CASE x = w
      BY <1>3, <1>4, <1>5, <2>1
    <2>2. CASE x # w
      <3>1. /\ task[x].pc \in UncountedPC \cup RemovePC
            /\ task'[x].id = task[x].id
            /\ task'[x].user = task[x].user
        BY <1>3, <1>8, <2>2
      <3>2. \A r \in accountuser :
                r.id = task[x].id => r.user = task[x].user
        BY <3>1 DEF RowsKeyed
      <3>3. task[x].id \in Nat /\ task[x].id < nextId
        BY <1>7, <3>1
      <3>4. task'[x].id < nextId'
        BY <1>1, <1>4, <3>1, <3>3
      <3> QED
        BY <1>4, <1>5, <3>1, <3>2, <3>3, <3>4
    <2> QED
      BY <2>1, <2>2
  <1>9. ASSUME NEW x \in Worker, NEW y \in Worker,
               task'[x].pc \in UncountedPC, task'[y].pc \in UncountedPC,
               task'[x].id = task'[y].id
        PROVE  x = y
    <2>1. CASE x # w /\ y # w
      BY <1>3, <1>9, <2>1 DEF RowsKeyed
    <2>2. CASE x = w /\ y # w
      BY <1>3, <1>4, <1>7, <1>9, <2>2
    <2>3. CASE x # w /\ y = w
      BY <1>3, <1>4, <1>7, <1>9, <2>3
    <2> QED
      BY <2>1, <2>2, <2>3
  <1>10. RowsKeyed'
    BY <1>5, <1>6, <1>8, <1>9 DEF RowsKeyed
  <1> QED
    BY <1>3, <1>10

-----------------------------------------------------------------------------
(* What a step does to the rows, the addresses and the mailboxes *)

UndoPC == {"undoVirtual", "undoAccount"}

\* A step that neither inserts nor deletes an account, nor adds an address,
\* nor makes or deletes a mailbox (but for one that Account::check makes), and
\* that does not end between the row and the mailbox.
Quiet(w) ==
    /\ KeepsKeys(w)
    /\ accountuser' = accountuser
    /\ nextId' = nextId
    /\ virtual' \subseteq virtual
    /\ recreated' = {} => mailbox' = mailbox
    /\ task'[w].pc \notin BeforeMailbox \cup PastMailbox \cup UndoPC

\* Account::remove begins, on its own or as part of Domain::remove.
NewRemoval(w) ==
    /\ \A x \in Worker : x # w => task'[x] = task[x]
    /\ task'[w].pc = "deleteMailbox"
    /\ \E r \in accountuser : task'[w].id = r.id /\ task'[w].user = r.user
    /\ UNCHANGED <<tables, mailbox, faults, history>>

\* A statement of Account::create between the row and the mailbox.
AddressStep(w) ==
    /\ KeepsKeys(w)
    /\ task[w].pc \in BeforeMailbox
    /\ task'[w].pc \in BeforeMailbox
    /\ UNCHANGED <<accountuser, nextId, mailbox, faults, history>>
    /\ \A v \in virtual' : v \in virtual \/ v.user = task[w].user

\* The statements of Account::remove and of the rollback of Account::create
\* keep the id they work on.
LEMMA UndoKeeps ==
    ASSUME TypeOK, NEW w \in Worker
    PROVE  /\ UndoVirtual(w) => KeepsKeys(w)
           /\ UndoAccount(w) => KeepsKeys(w)
  BY FinishKeeps, GotoKeeps DEF UndoVirtual, UndoAccount, At, CreatePC,
     UncountedPC, KeepsKeys, Holds

\* Account::remove works on one row from its first statement to its last.
LEMMA RemoveKeeps ==
    ASSUME TypeOK, NEW w \in Worker
    PROVE  /\ DeleteMailbox(w) => KeepsKeys(w)
           /\ DeleteVirtual(w) => KeepsKeys(w) /\ task'[w].pc = "deleteAccount"
           /\ DeleteAccount(w) => KeepsKeys(w) /\ task'[w].pc = "countDown"
  BY FinishKeeps, GotoKeeps DEF DeleteMailbox, DeleteVirtual, DeleteAccount, At,
     RemovePC, UncountedPC, KeepsKeys, Holds

\* Account::create goes on to the counter, or undoes what it has done.
LEMMA CreateMailboxKeeps ==
    ASSUME TypeOK, NEW w \in Worker, CreateMailbox(w)
    PROVE  KeepsKeys(w) /\ task'[w].pc \in {"countUp", "undoVirtual"}
  BY GotoKeeps DEF CreateMailbox, At, CreatePC, UncountedPC, KeepsKeys, Holds

\* The statements of Account::create between the row and the mailbox write
\* addresses of the own account only.
LEMMA AddressSteps ==
    ASSUME TypeOK, NEW w \in Worker,
           \/ InsertAddress(w) \/ InsertAce(w) \/ LinkAce(w) \/ DropCatchAll(w)
           \/ InsertCatchAll(w) \/ InsertCatchAllAce(w) \/ LinkCatchAll(w)
    PROVE  AddressStep(w)
  <1> USE DEF At
  <1>1. \E p \in BeforeMailbox : Goto(w, p)
    BY DEF InsertAddress, InsertAce, LinkAce, DropCatchAll, InsertCatchAll,
       InsertCatchAllAce, LinkCatchAll, AfterAddress, BeforeMailbox, UncountedPC
  <1>2. task[w].pc \in BeforeMailbox
    BY DEF InsertAddress, InsertAce, LinkAce, DropCatchAll, InsertCatchAll,
       InsertCatchAllAce, LinkCatchAll, BeforeMailbox, UncountedPC
  <1>3. KeepsKeys(w) /\ task'[w].pc \in BeforeMailbox
    BY <1>1, <1>2, GotoKeeps DEF BeforeMailbox, CreatePC, KeepsKeys, Holds
  <1>4. UNCHANGED <<accountuser, nextId, mailbox, faults, history>>
    BY DEF InsertAddress, InsertAce, LinkAce, DropCatchAll, InsertCatchAll,
       InsertCatchAllAce, LinkCatchAll, tables
  <1>5. \A v \in virtual' : v \in virtual \/ v.user = task[w].user
    BY DEF InsertAddress, InsertAce, LinkAce, DropCatchAll, InsertCatchAll,
       InsertCatchAllAce, LinkCatchAll, tables, InsertVirtual
  <1> QED
    BY <1>2, <1>3, <1>4, <1>5 DEF AddressStep

\* The steps that neither take up a row nor touch rows, addresses or mailboxes
\* in a way that the invariants speak of.
LEMMA QuietSteps ==
    ASSUME TypeOK, NEW w \in Worker,
           \/ CheckAlias(w) \/ CountUp(w) \/ CountDown(w) \/ CheckStep(w)
           \/ DropDomain(w) \/ BeginCreate(w) \/ BeginSweep(w)
           \/ \E u \in User : BeginCheck(w, u)
           \/ InsertAccount(w) /\ UserRows(task[w].user) # {}
           \/ NextAccount(w) /\ ~NewRemoval(w)
    PROVE  Quiet(w)
  <1> USE DEF At
  <1> DEFINE Apart == {"idle", "checkAlias", "insertAccount", "listMailboxes",
                       "createMissing", "nextAccount", "dropDomain"}
  <1>1. Apart \cap (BeforeMailbox \cup PastMailbox \cup UndoPC) = {}
    BY DEF BeforeMailbox, PastMailbox, UndoPC, UncountedPC
  <1>2. ASSUME Finish(w) PROVE KeepsKeys(w) /\ task'[w].pc \in Apart
    BY <1>2, FinishKeeps
  <1>3. CASE CheckAlias(w)
    <2>1. KeepsKeys(w) /\ task'[w].pc \in Apart
      BY <1>2, <1>3, GotoKeeps DEF CheckAlias, CreatePC, KeepsKeys, Holds,
         UncountedPC, RemovePC
    <2> QED
      BY <1>1, <1>3, <2>1 DEF CheckAlias, Quiet, tables, history
  <1>4. CASE CountUp(w)
    BY <1>1, <1>2, <1>4 DEF CountUp, Quiet, history
  <1>5. CASE CountDown(w)
    BY <1>1, <1>5, AccountRemovedKeeps DEF CountDown, RemovePC, Quiet, history
  <1>6. CASE CheckStep(w)
    <2>1. CASE ListMailboxes(w)
      BY <1>1, <1>2, <2>1, ListKeeps DEF ListMailboxes, Quiet, tables, history
    <2>2. CASE CreateMissing(w)
      <3>1. task[w].user \in User
        BY <2>2, TaskKinds DEF CreateMissing, CheckPC, CheckTask
      <3>2. recreated' = {} => mailbox' = mailbox
        BY <2>2, <3>1 DEF CreateMissing, MakeMissingMailbox, TypeOK
      <3> QED
        BY <1>1, <1>2, <2>2, <3>2 DEF CreateMissing, MakeMissingMailbox, Quiet, tables
    <2> QED
      BY <1>6, <2>1, <2>2 DEF CheckStep
  <1>7. CASE DropDomain(w)
    BY <1>1, <1>2, <1>7 DEF DropDomain, Quiet, history
  <1>8. ASSUME task'[w].pc \in Apart, \A x \in Worker : x # w => task'[x] = task[x]
        PROVE  KeepsKeys(w) /\ task'[w].pc \in Apart
    BY <1>8 DEF KeepsKeys, Holds, UncountedPC, RemovePC
  <1>9. CASE BeginCreate(w)
    <2>1. /\ task'[w].pc = "checkAlias"
          /\ \A x \in Worker : x # w => task'[x] = task[x]
      BY <1>9 DEF BeginCreate, TypeOK
    <2> QED
      BY <1>1, <1>8, <1>9, <2>1 DEF BeginCreate, Quiet, tables, history
  <1>10. CASE BeginSweep(w)
    BY <1>1, <1>8, <1>10 DEF BeginSweep, Quiet, tables, history, TypeOK
  <1>11. CASE \E u \in User : BeginCheck(w, u)
    <2>1. /\ task'[w].pc = "listMailboxes"
          /\ \A x \in Worker : x # w => task'[x] = task[x]
      BY <1>11 DEF BeginCheck, TypeOK
    <2> QED
      BY <1>1, <1>8, <1>11, <2>1 DEF BeginCheck, Quiet, tables, history
  <1>12. CASE InsertAccount(w) /\ UserRows(task[w].user) # {}
    BY <1>1, <1>2, <1>12 DEF InsertAccount, Quiet, history
  <1>13. CASE NextAccount(w) /\ ~NewRemoval(w)
    <2>1. ASSUME NEW r \in accountuser,
                 task' = [task EXCEPT ![w] =
                     [pc |-> "deleteMailbox", user |-> r.user, dom |-> r.dom,
                      id |-> r.id, sweep |-> TRUE,
                      target |-> task[w].target, todo |-> task[w].todo]]
          PROVE  FALSE
      BY <1>13, <2>1 DEF NextAccount, NewRemoval, TypeOK
    <2>2. KeepsKeys(w) /\ task'[w].pc \in Apart
      BY <1>13, <2>1, ListKeeps DEF NextAccount
    <2> QED
      BY <1>1, <1>13, <2>2 DEF NextAccount, Quiet, tables, history
  <1> QED
    BY <1>3, <1>4, <1>5, <1>6, <1>7, <1>9, <1>10, <1>11, <1>12, <1>13

\* AccountEditor::remove takes up a row of the table.
LEMMA BeginRemoveIsNewRemoval ==
    ASSUME TypeOK, NEW w \in Worker, NEW u \in User, BeginRemove(w, u)
    PROVE  NewRemoval(w)
  BY DEF BeginRemove, NewRemoval, UserRows, TypeOK

\* Every step that is not a failure is one of these.
LEMMA StepKinds ==
    ASSUME TypeOK, NEW w \in Worker, Begin(w) \/ Step(w)
    PROVE  \/ Quiet(w)
           \/ NewRemoval(w)
           \/ InsertAccount(w) /\ UserRows(task[w].user) = {}
           \/ AddressStep(w)
           \/ CreateMailbox(w)
           \/ UndoVirtual(w) \/ UndoAccount(w)
           \/ DeleteMailbox(w) \/ DeleteVirtual(w) \/ DeleteAccount(w)
  <1>1. CASE Begin(w)
    BY <1>1, QuietSteps, BeginRemoveIsNewRemoval DEF Begin
  <1>2. CASE CreateStep(w)
    BY <1>2, QuietSteps, AddressSteps DEF CreateStep
  <1>3. CASE RemoveStep(w)
    BY <1>3, QuietSteps DEF RemoveStep
  <1>4. CASE CheckStep(w) \/ SweepStep(w)
    BY <1>4, QuietSteps DEF SweepStep
  <1> QED
    BY <1>1, <1>2, <1>3, <1>4 DEF Step

\* A failure leaves a request with the row it had, or without any.
LEMMA FailureKeeps ==
    ASSUME TypeOK, NEW w \in Worker, Failure(w)
    PROVE  KeepsKeys(w) /\ UNCHANGED <<accountuser, nextId>>
  <1> USE DEF At
  <1>1. UNCHANGED <<accountuser, nextId>>
    BY DEF Failure, StatementFails, MailboxReplyLost, Crash, tables
  <1>2. CASE Finish(w)
    BY <1>1, <1>2, FinishKeeps
  <1>3. CASE /\ task[w].pc \in UncountedPC
             /\ Goto(w, "undoAccount") \/ Goto(w, "undoVirtual")
    BY <1>1, <1>3, GotoKeeps DEF CreatePC, UncountedPC, KeepsKeys, Holds
  <1>4. CASE task[w].pc = "deleteMailbox" /\ Goto(w, "deleteVirtual")
    BY <1>1, <1>4, GotoKeeps DEF RemovePC, UncountedPC, KeepsKeys, Holds
  <1>5. CASE task[w].pc = "countDown" /\ AccountRemoved(w)
    BY <1>1, <1>5, AccountRemovedKeeps DEF RemovePC
  <1>6. CASE /\ task[w].pc = "nextAccount"
             /\ \E i \in task[w].todo : task' = [task EXCEPT ![w].todo = @ \ {i}]
    BY <1>1, <1>6, ListKeeps
  <1>7. CASE StatementFails(w)
    BY <1>2, <1>3, <1>4, <1>5, <1>6, <1>7 DEF StatementFails, OnError, UncountedPC
  <1>8. CASE MailboxReplyLost(w)
    BY <1>2, <1>3, <1>4, <1>8 DEF MailboxReplyLost, MakeMissingMailbox, UncountedPC
  <1>9. CASE Crash(w)
    BY <1>2, <1>9 DEF Crash
  <1> QED
    BY <1>7, <1>8, <1>9 DEF Failure

-----------------------------------------------------------------------------
(* Keys and tokens are kept *)

\* A removal that begins holds the id and the user name of one row.
LEMMA NewRemovalKeys ==
    ASSUME TypeOK, RowsKeyed, NEW w \in Worker, NewRemoval(w)
    PROVE  RowsKeyed'
  <1>1. accountuser' = accountuser /\ nextId' = nextId
    BY DEF NewRemoval, tables
  <1>2. PICK r \in accountuser : task'[w].id = r.id /\ task'[w].user = r.user
    BY DEF NewRemoval
  <1>3. ASSUME NEW x \in Worker, task'[x].pc \in UncountedPC \cup RemovePC
        PROVE  /\ task'[x].id < nextId'
               /\ \A q \in accountuser' :
                      q.id = task'[x].id => q.user = task'[x].user
    <2>1. CASE x = w
      BY <1>1, <1>2, <2>1 DEF RowsKeyed
    <2>2. CASE x # w
      <3>1. task'[x] = task[x]
        BY <2>2 DEF NewRemoval
      <3> QED
        BY <1>1, <1>3, <3>1 DEF RowsKeyed
    <2> QED
      BY <2>1, <2>2
  <1>4. \A x \in Worker : task'[x].pc \in UncountedPC => task'[x] = task[x]
    BY DEF NewRemoval, UncountedPC
  <1>5. ASSUME NEW x \in Worker, NEW y \in Worker,
               task'[x].pc \in UncountedPC, task'[y].pc \in UncountedPC,
               task'[x].id = task'[y].id
        PROVE  x = y
    BY <1>4, <1>5 DEF RowsKeyed
  <1> QED
    BY <1>1, <1>3, <1>5 DEF RowsKeyed

\* Ids and user names identify rows after every step (RowsKeyed).
LEMMA KeysStep ==
    ASSUME TypeOK, RowsKeyed, NEW w \in Worker, Begin(w) \/ Step(w) \/ Failure(w)
    PROVE  RowsKeyed'
  <1>1. CASE Failure(w)
    BY <1>1, FailureKeeps, KeysFrame
  <1>2. CASE Quiet(w)
    BY <1>2, KeysFrame DEF Quiet
  <1>3. CASE NewRemoval(w)
    BY <1>3, NewRemovalKeys
  <1>4. CASE InsertAccount(w) /\ UserRows(task[w].user) = {}
    BY <1>4, InsertAccountKeys
  <1>5. CASE AddressStep(w)
    BY <1>5, KeysFrame DEF AddressStep
  <1>6. CASE CreateMailbox(w)
    BY <1>6, CreateMailboxKeeps, KeysFrame DEF CreateMailbox, tables
  <1>7. CASE UndoVirtual(w) \/ UndoAccount(w)
    BY <1>7, UndoKeeps, KeysFrame DEF UndoVirtual, UndoAccount, RemoveAccountByID
  <1>8. CASE DeleteMailbox(w) \/ DeleteVirtual(w) \/ DeleteAccount(w)
    BY <1>8, RemoveKeeps, KeysFrame DEF DeleteMailbox, DeleteVirtual,
       DeleteAccount, RemoveAccountByID, tables
  <1> QED
    BY <1>1, <1>2, <1>3, <1>4, <1>5, <1>6, <1>7, <1>8, StepKinds

\* The condition of the three invariants.
Orderly == Managed /\ faults = 0 /\ recreated = {}

\* The three invariants under that condition, for one request at a time.
Token(w) ==
    /\ task[w].pc \notin UndoPC
    /\ task[w].pc \in BeforeMailbox =>
           /\ task[w].user \notin mailbox
           /\ \E r \in accountuser : r.id = task[w].id
           /\ \A x \in Worker :
                  task[x].pc \in PastMailbox => task[x].id # task[w].id
    /\ task[w].pc \in PastMailbox =>
           \A r \in accountuser : r.id = task[w].id =>
               /\ r.user \notin mailbox
               /\ At(w, "deleteAccount") =>
                      \A v \in virtual : v.user # r.user

Clean == /\ \A w \in Worker : Token(w)
         /\ \A v \in virtual : UserRows(v.user) # {}
         /\ \A u \in mailbox : UserRows(u) # {}

\* The three parts of IInv about failure-free runs are Clean under Orderly.
LEMMA CleanIsGoal ==
    /\ MailboxIsToken /\ AddressHasAccount /\ MailboxHasAccount
           <=> (Orderly => Clean)
  BY DEF MailboxIsToken, AddressHasAccount, AddressOfUser, MailboxHasAccount,
     Orderly, Clean, Token, UndoPC

\* A request that is neither between row and mailbox nor past the mailbox
\* leaves the others their tokens.
LEMMA QuietClean ==
    ASSUME TypeOK, RowsKeyed, Clean, NEW w \in Worker,
           \A x \in Worker : x # w => task'[x] = task[x],
           accountuser' = accountuser,
           virtual' \subseteq virtual,
           mailbox' = mailbox,
           task'[w].pc \notin BeforeMailbox \cup PastMailbox \cup UndoPC
    PROVE  Clean'
  <1>1. ASSUME NEW x \in Worker PROVE Token(x)'
    <2>1. CASE x = w
      BY <2>1 DEF Token
    <2>2. CASE x # w
      <3>1. task'[x] = task[x] /\ Token(x)
        BY <2>2 DEF Clean
      <3>2. ASSUME NEW y \in Worker, task'[y].pc \in PastMailbox
            PROVE  task[y].pc \in PastMailbox /\ task'[y].id = task[y].id
        BY <3>2
      <3> QED
        BY <3>1, <3>2 DEF Token, At
    <2> QED
      BY <2>1, <2>2
  <1> QED
    BY <1>1 DEF Clean, UserRows

\* The new row comes without mailbox and without addresses.
LEMMA InsertAccountClean ==
    ASSUME TypeOK, RowsKeyed, Clean, NEW w \in Worker, InsertAccount(w),
           UserRows(task[w].user) = {}
    PROVE  Clean'
  <1> DEFINE new == [id |-> nextId, user |-> task[w].user, dom |-> task[w].dom]
  <1>1. /\ accountuser' = accountuser \cup {new}
        /\ UNCHANGED <<virtual, mailbox>>
    BY DEF InsertAccount
  <1>2. /\ \A x \in Worker : x # w => task'[x] = task[x]
        /\ task'[w].pc = "insertAddress"
        /\ task'[w].id = nextId
        /\ task'[w].user = task[w].user
    BY InsertAccountKeys
  <1>3. new.id = nextId /\ new.user = task[w].user
    OBVIOUS
  <1>4. task[w].user \notin mailbox
    BY DEF Clean
  <1>5. ASSUME NEW y \in Worker, y # w, task[y].pc \in PastMailbox
        PROVE  task[y].id # nextId
    <2>1. task[y].id < nextId /\ task[y].id \in Nat /\ nextId \in Nat
      BY <1>5, TaskKinds DEF RowsKeyed, PastMailbox, RemovePC, RemoveTask, TypeOK
    <2> QED
      BY <2>1
  <1>6. ASSUME NEW x \in Worker PROVE Token(x)'
    <2>1. CASE x = w
      <3>1. \E r \in accountuser' : r.id = task'[w].id
        BY <1>1, <1>2, <1>3
      <3>2. ASSUME NEW y \in Worker, task'[y].pc \in PastMailbox
            PROVE  task'[y].id # task'[w].id
        <4>1. y # w
          BY <1>2, <3>2 DEF PastMailbox
        <4> QED
          BY <1>2, <1>5, <3>2, <4>1
      <3> QED
        BY <1>1, <1>2, <1>4, <2>1, <3>1, <3>2 DEF Token, UndoPC, PastMailbox
    <2>2. CASE x # w
      <3>1. task'[x] = task[x] /\ Token(x)
        BY <1>2, <2>2 DEF Clean
      <3>2. ASSUME NEW y \in Worker, task'[y].pc \in PastMailbox
            PROVE  task[y].pc \in PastMailbox /\ task'[y].id = task[y].id
        BY <1>2, <3>2 DEF PastMailbox
      <3>3. ASSUME task[x].pc \in PastMailbox, NEW r \in accountuser',
                   r.id = task[x].id
            PROVE  r \in accountuser
        BY <1>1, <1>3, <1>5, <2>2, <3>3
      <3> QED
        BY <1>1, <3>1, <3>2, <3>3 DEF Token, At
    <2> QED
      BY <2>1, <2>2
  <1>7. \A u : UserRows(u) # {} => UserRows(u)' # {}
    BY <1>1 DEF UserRows
  <1> QED
    BY <1>1, <1>6, <1>7 DEF Clean

\* The row of an account that is being created is the only one of its user.
LEMMA CreatorsRow ==
    ASSUME TypeOK, RowsKeyed, Clean, NEW w \in Worker,
           task[w].pc \in BeforeMailbox
    PROVE  \E r \in accountuser :
               /\ r.id = task[w].id /\ r.user = task[w].user
               /\ \A q \in accountuser :
                      q.user = task[w].user \/ q.id = task[w].id => q = r
  BY DEF Clean, Token, RowsKeyed, BeforeMailbox

\* A new address belongs to the row of the request that inserts it.
LEMMA AddressClean ==
    ASSUME TypeOK, RowsKeyed, Clean, NEW w \in Worker, AddressStep(w)
    PROVE  Clean'
  <1>1. /\ UNCHANGED <<accountuser, mailbox>>
        /\ task[w].pc \in BeforeMailbox
        /\ task'[w].pc \in BeforeMailbox
        /\ task'[w].id = task[w].id
        /\ task'[w].user = task[w].user
        /\ \A x \in Worker : x # w => task'[x] = task[x]
        /\ \A v \in virtual' : v \in virtual \/ v.user = task[w].user
    BY DEF AddressStep, KeepsKeys, Holds, BeforeMailbox
  <1>2. PICK row \in accountuser :
            /\ row.id = task[w].id /\ row.user = task[w].user
            /\ \A q \in accountuser :
                   q.user = task[w].user \/ q.id = task[w].id => q = row
    BY <1>1, CreatorsRow
  <1>3. \A y \in Worker : task'[y].pc \in PastMailbox =>
            task[y].pc \in PastMailbox /\ task'[y] = task[y]
    BY <1>1 DEF BeforeMailbox, PastMailbox, UncountedPC
  <1>4. ASSUME NEW x \in Worker PROVE Token(x)'
    <2>1. CASE x = w
      <3>1. task[w].pc \notin PastMailbox /\ task'[w].pc \notin PastMailbox \cup UndoPC
        BY <1>1 DEF BeforeMailbox, PastMailbox, UndoPC, UncountedPC
      <3>2. Token(w)
        BY DEF Clean
      <3> QED
        BY <1>1, <1>3, <2>1, <3>1, <3>2 DEF Token
    <2>2. CASE x # w
      <3>1. task'[x] = task[x] /\ Token(x)
        BY <1>1, <2>2 DEF Clean
      <3>2. ASSUME task[x].pc \in PastMailbox, At(x, "deleteAccount"),
                   NEW r \in accountuser, r.id = task[x].id,
                   NEW v \in virtual'
            PROVE  v.user # r.user
        <4>1. task[x].id # task[w].id
          BY <1>1, <3>2 DEF Clean, Token
        <4>2. r.user # task[w].user
          BY <1>2, <3>2, <4>1
        <4>3. CASE v \in virtual
          BY <3>1, <3>2, <4>3 DEF Token
        <4> QED
          BY <1>1, <4>2, <4>3
      <3> QED
        BY <1>1, <1>3, <3>1, <3>2 DEF Token, At
    <2> QED
      BY <2>1, <2>2
  <1>5. \A v \in virtual' : UserRows(v.user)' # {}
    BY <1>1, <1>2 DEF Clean, UserRows
  <1> QED
    BY <1>1, <1>4, <1>5 DEF Clean, UserRows

\* The IMAP server gives the mailbox to one creation, whose row is there.
LEMMA CreateMailboxClean ==
    ASSUME TypeOK, RowsKeyed, Managed, Clean, NEW w \in Worker, CreateMailbox(w)
    PROVE  Clean'
  <1>1. task[w].pc \in BeforeMailbox
    BY DEF CreateMailbox, At, BeforeMailbox, UncountedPC
  <1>2. PICK row \in accountuser :
            /\ row.id = task[w].id /\ row.user = task[w].user
            /\ \A q \in accountuser :
                   q.user = task[w].user \/ q.id = task[w].id => q = row
    BY <1>1, CreatorsRow
  <1>3. ~MailboxRefused(w)
    BY <1>1, <1>2 DEF MailboxRefused, Clean, Token
  <1>4. /\ mailbox' = mailbox \cup {task[w].user}
        /\ UNCHANGED <<accountuser, virtual>>
        /\ task'[w].pc = "countUp"
        /\ \A x \in Worker : x # w => task'[x] = task[x]
    BY <1>3, GotoKeeps DEF CreateMailbox, tables, At, CreatePC, UncountedPC
  <1>5. \A y \in Worker : task'[y].pc \in PastMailbox =>
            task[y].pc \in PastMailbox /\ task'[y] = task[y]
    BY <1>4 DEF PastMailbox
  <1>6. ASSUME NEW x \in Worker PROVE Token(x)'
    <2>1. CASE x = w
      BY <1>4, <2>1 DEF Token, UndoPC, BeforeMailbox, PastMailbox
    <2>2. CASE x # w
      <3>1. task'[x] = task[x] /\ Token(x)
        BY <1>4, <2>2 DEF Clean
      <3>2. ASSUME task[x].pc \in BeforeMailbox
            PROVE  task[x].user # task[w].user
        <4>1. PICK r \in accountuser : r.id = task[x].id /\ r.user = task[x].user
          BY <3>2, CreatorsRow
        <4>2. task[x].id # task[w].id
          BY <1>1, <2>2, <3>2 DEF RowsKeyed, BeforeMailbox
        <4> QED
          BY <1>2, <4>1, <4>2
      <3>3. ASSUME task[x].pc \in PastMailbox, NEW r \in accountuser,
                   r.id = task[x].id
            PROVE  r.user # task[w].user
        <4>1. task[x].id # task[w].id
          BY <1>1, <3>3 DEF Clean, Token
        <4> QED
          BY <1>2, <3>3, <4>1
      <3> QED
        BY <1>4, <1>5, <3>1, <3>2, <3>3 DEF Token, At
    <2> QED
      BY <2>1, <2>2
  <1>7. \A u \in mailbox' : UserRows(u)' # {}
    BY <1>2, <1>4 DEF Clean, UserRows
  <1> QED
    BY <1>4, <1>6, <1>7 DEF Clean, UserRows

\* Account::remove passes a mailbox: no account of that user is being created
\* then, and the row the removal is about to delete is left without a mailbox.
LEMMA DeleteMailboxClean ==
    ASSUME TypeOK, RowsKeyed, Managed, Clean, NEW w \in Worker, DeleteMailbox(w)
    PROVE  Clean'
  <1>1. /\ task[w].pc = "deleteMailbox"
        /\ UNCHANGED <<accountuser, virtual>>
        /\ \A r \in accountuser : r.id = task[w].id => r.user = task[w].user
    BY DEF DeleteMailbox, At, tables, RowsKeyed, RemovePC
  <1>2. CASE CannotDelete(w)
    <2>1. KeepsKeys(w) /\ task'[w].pc = "idle" /\ mailbox' = mailbox
      BY <1>2, FinishKeeps DEF DeleteMailbox
    <2> QED
      BY <1>1, <2>1, QuietClean DEF KeepsKeys, BeforeMailbox, PastMailbox,
         UndoPC, UncountedPC
  <1>3. CASE ~CannotDelete(w)
    <2>1. /\ task[w].user \in mailbox
          /\ mailbox' = mailbox \ {task[w].user}
          /\ task'[w].pc = "deleteVirtual"
          /\ task'[w].id = task[w].id
          /\ \A x \in Worker : x # w => task'[x] = task[x]
      BY <1>1, <1>3, GotoKeeps DEF DeleteMailbox, CannotDelete, RemovePC
    <2>2. ASSUME NEW x \in Worker, task[x].pc \in BeforeMailbox
          PROVE  task[x].id # task[w].id
      <3>1. task[x].user \notin mailbox
        BY <2>2 DEF Clean, Token
      <3>2. PICK r \in accountuser : r.id = task[x].id /\ r.user = task[x].user
        BY <2>2, CreatorsRow
      <3> QED
        BY <1>1, <2>1, <3>1, <3>2
    <2>3. ASSUME NEW x \in Worker PROVE Token(x)'
      <3>1. CASE x = w
        BY <1>1, <2>1, <3>1 DEF Token, At, UndoPC, BeforeMailbox, UncountedPC
      <3>2. CASE x # w
        <4>1. task'[x] = task[x] /\ Token(x)
          BY <2>1, <3>2 DEF Clean
        <4>2. ASSUME NEW y \in Worker, task'[y].pc \in PastMailbox,
                     task[x].pc \in BeforeMailbox
              PROVE  task'[y].id # task[x].id
          <5>1. CASE y = w
            BY <2>1, <2>2, <4>2, <5>1
          <5>2. CASE y # w
            BY <2>1, <4>1, <4>2, <5>2 DEF Token
          <5> QED
            BY <5>1, <5>2
        <4> QED
          BY <1>1, <2>1, <4>1, <4>2 DEF Token, At
      <3> QED
        BY <3>1, <3>2
    <2> QED
      BY <1>1, <2>1, <2>3 DEF Clean, UserRows
  <1> QED
    BY <1>2, <1>3

\* The request that has deleted the mailbox is the only one past it, and
\* leaves the row without addresses.
LEMMA DeleteVirtualClean ==
    ASSUME TypeOK, RowsKeyed, Clean, NEW w \in Worker, DeleteVirtual(w)
    PROVE  Clean'
  <1>1. /\ task[w].pc = "deleteVirtual"
        /\ UNCHANGED <<accountuser, mailbox>>
        /\ virtual' = {v \in virtual : v.user # task[w].user}
        /\ \A r \in accountuser : r.id = task[w].id => r.user = task[w].user
    BY DEF DeleteVirtual, RemoveVirtual, At, RowsKeyed, RemovePC
  <1>2. /\ task'[w].pc = "deleteAccount"
        /\ task'[w].id = task[w].id
        /\ \A x \in Worker : x # w => task'[x] = task[x]
    BY <1>1, GotoKeeps DEF DeleteVirtual, RemovePC
  <1>3. \A y \in Worker : task'[y].pc \in PastMailbox =>
            task[y].pc \in PastMailbox /\ task'[y].id = task[y].id
    BY <1>1, <1>2 DEF PastMailbox
  <1>4. ASSUME NEW x \in Worker PROVE Token(x)'
    <2>1. Token(x)
      BY DEF Clean
    <2>2. CASE x = w
      BY <1>1, <1>2, <2>1, <2>2 DEF Token, At, UndoPC, BeforeMailbox,
         UncountedPC, PastMailbox
    <2>3. CASE x # w
      BY <1>1, <1>2, <1>3, <2>1, <2>3 DEF Token, At
    <2> QED
      BY <2>2, <2>3
  <1> QED
    BY <1>1, <1>4 DEF Clean, UserRows

\* The row that Account::remove deletes has neither mailbox nor address left,
\* and it is not that of an account being created.
LEMMA DeleteAccountClean ==
    ASSUME TypeOK, RowsKeyed, Clean, NEW w \in Worker, DeleteAccount(w)
    PROVE  Clean'
  <1>1. /\ task[w].pc = "deleteAccount"
        /\ UNCHANGED <<virtual, mailbox>>
        /\ accountuser' = {r \in accountuser : r.id # task[w].id}
    BY DEF DeleteAccount, RemoveAccountByID, At
  <1>2. /\ task'[w].pc = "countDown"
        /\ \A x \in Worker : x # w => task'[x] = task[x]
    BY <1>1, GotoKeeps DEF DeleteAccount, RemovePC
  <1>3. \A y \in Worker : task'[y].pc \in PastMailbox =>
            task[y].pc \in PastMailbox /\ task'[y] = task[y]
    BY <1>2 DEF PastMailbox
  <1>4. ASSUME NEW x \in Worker PROVE Token(x)'
    <2>1. CASE x = w
      BY <1>2, <2>1 DEF Token, UndoPC, BeforeMailbox, PastMailbox, UncountedPC
    <2>2. CASE x # w
      <3>1. task'[x] = task[x] /\ Token(x)
        BY <1>2, <2>2 DEF Clean
      <3>2. ASSUME task[x].pc \in BeforeMailbox
            PROVE  \E r \in accountuser' : r.id = task[x].id
        BY <1>1, <3>1, <3>2 DEF Clean, Token, PastMailbox
      <3> QED
        BY <1>1, <1>3, <3>1, <3>2 DEF Token, At
    <2> QED
      BY <2>1, <2>2
  <1>5. ASSUME NEW u,
               u \in mailbox \/ \E v \in virtual : v.user = u
        PROVE  UserRows(u)' # {}
    <2>1. PICK r \in accountuser : r.user = u
      BY <1>5 DEF Clean, UserRows
    <2>2. r.id # task[w].id
      <3>1. Token(w)
        BY DEF Clean
      <3> QED
        BY <1>1, <1>5, <2>1, <3>1 DEF Token, At, PastMailbox
    <2> QED
      BY <1>1, <2>1, <2>2 DEF UserRows
  <1> QED
    BY <1>1, <1>4, <1>5 DEF Clean

\* Without a failure no creation is rolled back once its row is inserted.
LEMMA NoRollback ==
    ASSUME Clean, NEW w \in Worker
    PROVE  ~UndoVirtual(w) /\ ~UndoAccount(w)
  BY DEF Clean, Token, UndoPC, UndoVirtual, UndoAccount, At

\* Every step keeps rows, addresses and mailboxes in agreement.
LEMMA CleanStep ==
    ASSUME IInv, Orderly, Orderly', NEW w \in Worker,
           Begin(w) \/ Step(w) \/ Failure(w)
    PROVE  Clean'
  <1>1. TypeOK /\ RowsKeyed /\ Clean /\ Managed
    BY CleanIsGoal DEF IInv, Orderly
  <1>2. ~Failure(w)
    BY <1>1 DEF Failure, StatementFails, MailboxReplyLost, Crash, Fault, Orderly,
       TypeOK
  <1>3. CASE Quiet(w)
    BY <1>1, <1>3, QuietClean DEF Quiet, KeepsKeys, Orderly
  <1>4. CASE NewRemoval(w)
    BY <1>1, <1>4, QuietClean DEF NewRemoval, tables, BeforeMailbox, PastMailbox,
       UndoPC, UncountedPC
  <1>5. CASE InsertAccount(w) /\ UserRows(task[w].user) = {}
    BY <1>1, <1>5, InsertAccountClean
  <1>6. CASE AddressStep(w)
    BY <1>1, <1>6, AddressClean
  <1>7. CASE CreateMailbox(w)
    BY <1>1, <1>7, CreateMailboxClean
  <1>8. CASE DeleteMailbox(w)
    BY <1>1, <1>8, DeleteMailboxClean
  <1>9. CASE DeleteVirtual(w)
    BY <1>1, <1>9, DeleteVirtualClean
  <1>10. CASE DeleteAccount(w)
    BY <1>1, <1>10, DeleteAccountClean
  <1> QED
    BY <1>1, <1>2, <1>3, <1>4, <1>5, <1>6, <1>7, <1>8, <1>9, <1>10, NoRollback,
       StepKinds

\* Failures and mailboxes restored by Account::check are never forgotten.
LEMMA HistoryGrows ==
    ASSUME TypeOK, NEW w \in Worker, Begin(w) \/ Step(w) \/ Failure(w)
    PROVE  Orderly' => Orderly
  <1>1. CASE Begin(w)
    BY <1>1 DEF Begin, BeginCreate, BeginRemove, BeginCheck, BeginSweep, Orderly,
       history
  <1>2. CASE Step(w)
    <2>1. faults' = faults
      BY <1>2 DEF Step, CreateStep, RemoveStep, CheckStep, SweepStep, CheckAlias,
         InsertAccount, InsertAddress, InsertAce, LinkAce, DropCatchAll,
         InsertCatchAll, InsertCatchAllAce, LinkCatchAll, CreateMailbox, CountUp,
         UndoVirtual, UndoAccount, DeleteMailbox, DeleteVirtual, DeleteAccount,
         CountDown, ListMailboxes, CreateMissing, NextAccount, DropDomain
    <2>2. recreated' = {} => recreated = {}
      BY <1>2 DEF Step, CreateStep, RemoveStep, CheckStep, SweepStep, CheckAlias,
         InsertAccount, InsertAddress, InsertAce, LinkAce, DropCatchAll,
         InsertCatchAll, InsertCatchAllAce, LinkCatchAll, CreateMailbox, CountUp,
         UndoVirtual, UndoAccount, DeleteMailbox, DeleteVirtual, DeleteAccount,
         CountDown, ListMailboxes, CreateMissing, NextAccount, DropDomain,
         MakeMissingMailbox, history
    <2> QED
      BY <2>1, <2>2 DEF Orderly
  <1>3. CASE Failure(w)
    <2>1. faults' = faults + 1
      BY <1>3 DEF Failure, StatementFails, MailboxReplyLost, Crash, Fault
    <2> QED
      BY <2>1 DEF Orderly, TypeOK
  <1> QED
    BY <1>1, <1>2, <1>3

\* IInv is an inductive invariant: the mailbox is a token that a removal takes
\* and only a finished creation gives out.
THEOREM Inductive == Spec => []IInv
  <1>1. Init => IInv
    <2> SUFFICES ASSUME Init PROVE IInv
      OBVIOUS
    <2>1. TypeOK
      BY DEF Init, TypeOK, Task
    <2>2. RowsKeyed
      BY DEF Init, RowsKeyed, Idle, UncountedPC, RemovePC
    <2>3. Clean
      BY DEF Init, Clean, Token, Idle, UndoPC, BeforeMailbox, PastMailbox,
         UncountedPC
    <2> QED
      BY <2>1, <2>2, <2>3, CleanIsGoal DEF IInv
  <1>2. IInv /\ [Next]_vars => IInv'
    <2> SUFFICES ASSUME IInv, [Next]_vars PROVE IInv'
      OBVIOUS
    <2>1. ASSUME NEW w \in Worker, Begin(w) \/ Step(w) \/ Failure(w)
          PROVE  IInv'
      <3>1. TypeOK'
        BY <2>1, CreateStepType, RemoveStepType, CheckStepType, SweepStepType,
           BeginType, FailureType DEF Step, IInv
      <3>2. RowsKeyed'
        BY <2>1, KeysStep DEF IInv
      <3>3. Orderly' => Orderly
        BY <2>1, HistoryGrows DEF IInv
      <3>4. Orderly' => Clean'
        BY <2>1, <3>3, CleanStep
      <3>5. (MailboxIsToken /\ AddressHasAccount /\ MailboxHasAccount)'
        BY <3>4 DEF MailboxIsToken, AddressHasAccount, AddressOfUser,
           MailboxHasAccount, Orderly, Clean, Token, UndoPC
      <3> QED
        BY <3>1, <3>2, <3>5 DEF IInv
    <2>2. CASE UNCHANGED vars
      BY <2>2 DEF vars, tables, history, IInv, TypeOK, RowsKeyed, MailboxIsToken,
         AddressHasAccount, AddressOfUser, MailboxHasAccount, UserRows, At
    <2> QED
      BY <2>1, <2>2 DEF Next
  <1> QED
    BY <1>1, <1>2, PTL DEF Spec

\* Account::create and Account::remove, interleaved in any way by any number of
\* workers, leave no address behind that delivers to no account, as long as
\* Skaffari manages the mailboxes, nothing fails and no mailbox was restored.
THEOREM NoStrayAddress == Spec => []AddressHasAccount
  BY Inductive, PTL DEF IInv

\* Under the same conditions they leave no mailbox behind either.
THEOREM NoStrayMailbox == Spec => []MailboxHasAccount
  BY Inductive, PTL DEF IInv


-----------------------------------------------------------------------------
(* What every step has in common *)

\* Where a request of Account::create or Account::remove goes on, it stays
\* with its account and its domain.
LEMMA GotoStays ==
    ASSUME TypeOK, NEW w \in Worker, NEW p, Goto(w, p),
           task[w].pc \in CreatePC \cup RemovePC
    PROVE  /\ task'[w].pc = p
           /\ task'[w].id = task[w].id
           /\ task'[w].user = task[w].user
           /\ task'[w].dom = task[w].dom
  <1>1. task'[w] = [task[w] EXCEPT !.pc = p]
    BY DEF TypeOK, Goto
  <1>2. task[w] \in CreateTask \/ task[w] \in RemoveTask
    BY TaskKinds
  <1> QED
    BY <1>1, <1>2 DEF CreateTask, RemoveTask

\* A request that ends is idle.
LEMMA FinishIdle ==
    ASSUME TypeOK, NEW w \in Worker, Finish(w)
    PROVE  task'[w] = Idle
  BY DEF TypeOK, Finish

\* A step of one worker is no step of another.
LEMMA OthersWait ==
    ASSUME TypeOK, NEW w \in Worker, Begin(w) \/ Step(w) \/ Failure(w)
    PROVE  \A x \in Worker : x # w => task'[x] = task[x]
  <1> USE DEF TypeOK, Finish, Goto
  <1>1. CASE Begin(w)
    BY <1>1 DEF Begin, BeginCreate, BeginSweep, BeginRemove, BeginCheck
  <1>2. CASE CreateStep(w)
    BY <1>2 DEF CreateStep, CheckAlias, InsertAccount, InsertAddress, InsertAce,
       LinkAce, DropCatchAll, InsertCatchAll, InsertCatchAllAce, LinkCatchAll,
       CreateMailbox, CountUp, UndoVirtual, UndoAccount
  <1>3. CASE RemoveStep(w)
    BY <1>3 DEF RemoveStep, DeleteMailbox, DeleteVirtual, DeleteAccount,
       CountDown, AccountRemoved
  <1>4. CASE CheckStep(w) \/ SweepStep(w)
    BY <1>4 DEF CheckStep, ListMailboxes, CreateMissing, MakeMissingMailbox,
       SweepStep, NextAccount, DropDomain
  <1>5. CASE StatementFails(w)
    BY <1>5 DEF StatementFails, OnError, AccountRemoved
  <1>6. CASE MailboxReplyLost(w) \/ Crash(w)
    BY <1>6 DEF MailboxReplyLost, MakeMissingMailbox, Crash
  <1> QED
    BY <1>1, <1>2, <1>3, <1>4, <1>5, <1>6 DEF Step, Failure

-----------------------------------------------------------------------------
(* Sets that differ in one element *)

\* How often x is in S.
One(x, S) == IF x \in S THEN 1 ELSE 0

\* The size of a finite set moves by the one element that comes or goes.
LEMMA OneElement ==
    ASSUME NEW S, NEW T, NEW x, IsFiniteSet(S), S \ {x} = T \ {x}
    PROVE  /\ IsFiniteSet(T)
           /\ Cardinality(S) \in Nat
           /\ Cardinality(T) \in Nat
           /\ Cardinality(T) = Cardinality(S) + One(x, T) - One(x, S)
  <1> DEFINE R == S \ {x}
  <1>1. /\ IsFiniteSet(R)
        /\ Cardinality(R) = IF x \in S THEN Cardinality(S) - 1 ELSE Cardinality(S)
    BY FS_RemoveElement
  <1>2. /\ IsFiniteSet(R \cup {x})
        /\ Cardinality(R \cup {x}) = Cardinality(R) + 1
    BY <1>1, FS_AddElement
  <1>3. T = IF x \in T THEN R \cup {x} ELSE R
    OBVIOUS
  <1>4. IsFiniteSet(T)
    BY <1>1, <1>2, <1>3
  <1>5. /\ Cardinality(S) \in Nat
        /\ Cardinality(T) \in Nat
        /\ Cardinality(R) \in Nat
    BY <1>1, <1>4, FS_CardinalityType
  <1>6. Cardinality(T) = Cardinality(R) + One(x, T)
    BY <1>2, <1>3, <1>5 DEF One
  <1>7. Cardinality(S) = Cardinality(R) + One(x, S)
    BY <1>1, <1>5 DEF One
  <1>8. One(x, S) \in Nat /\ One(x, T) \in Nat
    BY DEF One
  <1> QED
    BY <1>4, <1>5, <1>6, <1>7, <1>8

-----------------------------------------------------------------------------
(* The counter: AccountCountExact *)

\* A request works on rows of the domain it is about.
RowsInDomain ==
    \A w \in Worker : Holds(task[w]) =>
        \A r \in accountuser : r.id = task[w].id => r.dom = task[w].dom

\* There are finitely many accounts and requests, whatever the number of
\* workers: a finite set of Skaffari's processes has made finitely many steps.
FinitelyMany ==
    /\ IsFiniteSet(accountuser)
    /\ \A d \in Domain : /\ IsFiniteSet(Uncounted(d))
                         /\ IsFiniteSet(NotDiscounted(d))

CountInv ==
    /\ RowsInDomain
    /\ FinitelyMany
    /\ AccountCountExact

\* If w holds a row after a step, it is the one it held or one of the table.
HoldsRow(w) ==
    Holds(task'[w]) =>
        \/ /\ Holds(task[w])
           /\ task'[w].id = task[w].id
           /\ task'[w].dom = task[w].dom
        \/ \E r \in accountuser : task'[w].id = r.id /\ task'[w].dom = r.dom

\* A step that neither moves a counter nor inserts or deletes a row, and after
\* which the request w is counted as before, unless its domain is skewed.
CountStill(w) ==
    /\ HoldsRow(w)
    /\ UNCHANGED <<accountuser, accountcount, nextId>>
    /\ \/ /\ task[w].pc \in UncountedPC
          /\ task'[w].pc \in UncountedPC
          /\ task'[w].dom = task[w].dom
       \/ /\ task'[w].pc \notin UncountedPC \cup {"countDown"}
          /\ \/ task[w].pc \notin UncountedPC \cup {"countDown"}
             \/ task[w].dom \in skewed'

\* A request that is over, or in a part of the code that holds no row, is not
\* counted.
LEMMA ApartIsStill ==
    ASSUME TypeOK, NEW w \in Worker,
           UNCHANGED <<accountuser, accountcount, nextId>>,
           task'[w].pc \in {"idle", "checkAlias", "insertAccount",
                            "listMailboxes", "createMissing", "nextAccount",
                            "dropDomain"},
           \/ task[w].pc \notin UncountedPC \cup {"countDown"}
           \/ task[w].dom \in skewed'
    PROVE  CountStill(w)
  BY DEF CountStill, HoldsRow, Holds, UncountedPC, RemovePC

\* A request that goes on, in Account::create before the counter or in
\* Account::remove before the row, is counted as before.
LEMMA GoingOnIsStill ==
    ASSUME TypeOK, NEW w \in Worker, NEW p, Goto(w, p),
           UNCHANGED <<accountuser, accountcount, nextId>>,
           \/ task[w].pc \in UncountedPC /\ p \in UncountedPC
           \/ /\ task[w].pc \in RemovePC \ {"countDown"}
              /\ p \in RemovePC \ {"countDown"}
    PROVE  CountStill(w)
  <1>1. /\ task'[w].pc = p
        /\ task'[w].id = task[w].id
        /\ task'[w].dom = task[w].dom
    BY GotoStays DEF CreatePC
  <1>2. RemovePC \cap UncountedPC = {}
    BY DEF RemovePC, UncountedPC
  <1> QED
    BY <1>1, <1>2 DEF CountStill, HoldsRow, Holds

\* Account::create, but for the row and the counter.
LEMMA CreateIsStill ==
    ASSUME TypeOK, NEW w \in Worker,
           \/ CheckAlias(w) \/ InsertAddress(w) \/ InsertAce(w) \/ LinkAce(w)
           \/ DropCatchAll(w) \/ InsertCatchAll(w) \/ InsertCatchAllAce(w)
           \/ LinkCatchAll(w) \/ CreateMailbox(w) \/ UndoVirtual(w)
           \/ InsertAccount(w) /\ UserRows(task[w].user) # {}
    PROVE  CountStill(w)
  <1> USE DEF At
  <1>1. CASE CheckAlias(w)
    <2>1. task'[w].pc \in {"idle", "insertAccount"}
      BY <1>1, FinishIdle, GotoStays DEF CheckAlias, CreatePC, Idle
    <2> QED
      BY <1>1, <2>1, ApartIsStill DEF CheckAlias, tables, UncountedPC
  <1>2. CASE InsertAccount(w) /\ UserRows(task[w].user) # {}
    BY <1>2, FinishIdle, ApartIsStill DEF InsertAccount, Idle, UncountedPC
  <1>3. CASE \/ InsertAddress(w) \/ InsertAce(w) \/ LinkAce(w)
             \/ DropCatchAll(w) \/ InsertCatchAll(w) \/ InsertCatchAllAce(w)
             \/ LinkCatchAll(w) \/ CreateMailbox(w) \/ UndoVirtual(w)
    <2>1. \E p \in UncountedPC : Goto(w, p)
      BY <1>3 DEF InsertAddress, InsertAce, LinkAce, DropCatchAll,
         InsertCatchAll, InsertCatchAllAce, LinkCatchAll, CreateMailbox,
         UndoVirtual, AfterAddress, UncountedPC
    <2>2. /\ task[w].pc \in UncountedPC
          /\ UNCHANGED <<accountuser, accountcount, nextId>>
      BY <1>3 DEF InsertAddress, InsertAce, LinkAce, DropCatchAll,
         InsertCatchAll, InsertCatchAllAce, LinkCatchAll, CreateMailbox,
         UndoVirtual, UncountedPC, tables
    <2> QED
      BY <2>1, <2>2, GoingOnIsStill
  <1> QED
    BY <1>1, <1>2, <1>3

\* A request that takes up a row of the table to remove it.
LEMMA RemovalIsStill ==
    ASSUME TypeOK, NEW w \in Worker, NEW r \in accountuser,
           UNCHANGED <<accountuser, accountcount, nextId>>,
           task'[w].pc = "deleteMailbox",
           task'[w].id = r.id, task'[w].dom = r.dom,
           task[w].pc \notin UncountedPC \cup {"countDown"}
    PROVE  CountStill(w)
  BY DEF CountStill, HoldsRow, UncountedPC

\* Account::remove before the row, Account::check, Domain::remove and the
\* beginning of every request.
LEMMA OtherIsStill ==
    ASSUME TypeOK, NEW w \in Worker,
           \/ DeleteMailbox(w) \/ DeleteVirtual(w) \/ CheckStep(w)
           \/ SweepStep(w) \/ Begin(w)
    PROVE  CountStill(w)
  <1> USE DEF At
  <1>1. CASE DeleteMailbox(w)
    <2>1. task[w].pc = "deleteMailbox" /\ UNCHANGED <<accountuser, accountcount, nextId>>
      BY <1>1 DEF DeleteMailbox, tables
    <2>2. CASE Finish(w)
      BY <2>1, <2>2, FinishIdle, ApartIsStill DEF Idle, UncountedPC
    <2>3. CASE Goto(w, "deleteVirtual")
      BY <2>1, <2>3, GoingOnIsStill DEF RemovePC
    <2> QED
      BY <1>1, <2>2, <2>3 DEF DeleteMailbox
  <1>2. CASE DeleteVirtual(w)
    BY <1>2, GoingOnIsStill DEF DeleteVirtual, RemovePC
  <1>3. CASE CheckStep(w)
    <2>1. /\ task[w].pc \notin UncountedPC \cup {"countDown"}
          /\ UNCHANGED <<accountuser, accountcount, nextId>>
      BY <1>3 DEF CheckStep, ListMailboxes, CreateMissing, tables, UncountedPC
    <2>2. task'[w].pc \in {"idle", "createMissing"}
      BY <1>3, FinishIdle, ListKeeps, TaskKinds DEF CheckStep, ListMailboxes,
         CreateMissing, MakeMissingMailbox, Idle, Goto, TypeOK, CheckPC, CheckTask
    <2> QED
      BY <2>1, <2>2, ApartIsStill
  <1>4. CASE SweepStep(w)
    <2>1. /\ task[w].pc \notin UncountedPC \cup {"countDown"}
          /\ UNCHANGED <<accountuser, accountcount, nextId>>
      BY <1>4 DEF SweepStep, NextAccount, DropDomain, tables, UncountedPC
    <2>2. CASE DropDomain(w)
      BY <2>1, <2>2, FinishIdle, ApartIsStill DEF DropDomain, Idle
    <2>3. ASSUME NEW r \in accountuser,
                 task' = [task EXCEPT ![w] =
                     [pc |-> "deleteMailbox", user |-> r.user, dom |-> r.dom,
                      id |-> r.id, sweep |-> TRUE,
                      target |-> task[w].target, todo |-> task[w].todo]]
          PROVE  CountStill(w)
      BY <2>1, <2>3, RemovalIsStill DEF TypeOK
    <2>4. CASE /\ task[w].pc = "nextAccount"
               /\ \/ Goto(w, "dropDomain")
                  \/ \E i \in task[w].todo :
                        task' = [task EXCEPT ![w].todo = @ \ {i}]
      <3>1. task'[w].pc \in {"createMissing", "dropDomain", "nextAccount"}
        BY <2>4, ListKeeps
      <3> QED
        BY <2>1, <3>1, ApartIsStill
    <2> QED
      BY <1>4, <2>2, <2>3, <2>4 DEF SweepStep, NextAccount
  <1>5. CASE Begin(w)
    <2>1. /\ task[w].pc \notin UncountedPC \cup {"countDown"}
          /\ UNCHANGED <<accountuser, accountcount, nextId>>
      BY <1>5 DEF Begin, BeginCreate, BeginSweep, BeginRemove, BeginCheck,
         tables, UncountedPC
    <2>2. CASE BeginCreate(w) \/ BeginSweep(w) \/ \E u \in User : BeginCheck(w, u)
      <3>1. task'[w].pc \in {"checkAlias", "nextAccount", "listMailboxes"}
        BY <2>2 DEF BeginCreate, BeginSweep, BeginCheck, TypeOK
      <3> QED
        BY <2>1, <3>1, ApartIsStill
    <2>3. ASSUME NEW u \in User, BeginRemove(w, u) PROVE CountStill(w)
      BY <2>1, <2>3, RemovalIsStill DEF BeginRemove, UserRows, TypeOK
    <2> QED
      BY <1>5, <2>2, <2>3 DEF Begin
  <1> QED
    BY <1>1, <1>2, <1>3, <1>4, <1>5

\* A failure that leaves an account uncounted, or counted and gone, is
\* recorded: the domain is skewed from then on.
LEMMA FailureIsStill ==
    ASSUME TypeOK, NEW w \in Worker, Failure(w)
    PROVE  CountStill(w)
  <1> USE DEF At
  <1> DEFINE counted == UncountedPC \cup {"countDown"}
  <1>1. UNCHANGED <<accountuser, accountcount, nextId>>
    BY DEF Failure, StatementFails, MailboxReplyLost, Crash, tables
  <1>2. ASSUME Finish(w), task[w].pc \notin counted \/ task[w].dom \in skewed'
        PROVE  CountStill(w)
    BY <1>1, <1>2, FinishIdle, ApartIsStill DEF Idle
  <1>3. ASSUME task[w].pc \in UncountedPC,
               Goto(w, "undoAccount") \/ Goto(w, "undoVirtual")
        PROVE  CountStill(w)
    BY <1>1, <1>3, GoingOnIsStill DEF UncountedPC
  <1>4. ASSUME task[w].pc = "deleteMailbox", Goto(w, "deleteVirtual")
        PROVE  CountStill(w)
    BY <1>1, <1>4, GoingOnIsStill DEF RemovePC
  <1>5. CASE StatementFails(w)
    <2>1. task[w].pc \in SkewingPC => task[w].dom \in skewed'
      BY <1>5 DEF StatementFails
    <2>2. CASE /\ task[w].pc \in {"checkAlias", "insertAccount", "linkAce",
                       "countUp", "undoAccount", "deleteMailbox",
                       "deleteVirtual", "deleteAccount", "dropDomain",
                       "listMailboxes", "createMissing"}
               /\ Finish(w)
      BY <1>2, <2>1, <2>2 DEF SkewingPC, UncountedPC
    <2>3. CASE task[w].pc = "countDown" /\ AccountRemoved(w)
      <3>1. task'[w].pc \in {"idle", "nextAccount"}
        BY <2>3, AccountRemovedKeeps DEF RemovePC
      <3> QED
        BY <1>1, <2>1, <2>3, <3>1, ApartIsStill DEF SkewingPC
    <2>4. CASE /\ task[w].pc = "nextAccount"
               /\ \E i \in task[w].todo :
                     task' = [task EXCEPT ![w].todo = @ \ {i}]
      <3>1. task'[w].pc \in {"createMissing", "dropDomain", "nextAccount"}
        BY <2>4, ListKeeps
      <3> QED
        BY <1>1, <2>4, <3>1, ApartIsStill DEF UncountedPC
    <2> QED
      BY <1>3, <1>4, <1>5, <2>2, <2>3, <2>4 DEF StatementFails, OnError,
         UncountedPC
  <1>6. CASE MailboxReplyLost(w)
    BY <1>2, <1>3, <1>4, <1>6 DEF MailboxReplyLost, MakeMissingMailbox,
       UncountedPC
  <1>7. CASE Crash(w)
    BY <1>2, <1>7 DEF Crash
  <1> QED
    BY <1>5, <1>6, <1>7 DEF Failure

\* The accounts of one domain are finitely many.
LEMMA AccountsFinite ==
    ASSUME FinitelyMany, NEW d
    PROVE  IsFiniteSet(AccountsOf(d)) /\ Cardinality(AccountsOf(d)) \in Nat
  BY FS_Subset, FS_CardinalityType DEF FinitelyMany, AccountsOf

\* What each of the five statements that matter does to the sums of domain d.
CountMoves(w, d) ==
    accountcount'[d] + One(w, Uncounted(d)') - One(w, Uncounted(d))
            - One(w, NotDiscounted(d)') + One(w, NotDiscounted(d))
        = accountcount[d] + Cardinality(AccountsOf(d)') - Cardinality(AccountsOf(d))

\* If every sum moves as the statements say, the counter stays exact.
LEMMA MovesKeepCount ==
    ASSUME TypeOK, TypeOK', FinitelyMany, NEW w \in Worker, NEW d \in Domain,
           \A x \in Worker : x # w => task'[x] = task[x],
           CountMoves(w, d),
           Cardinality(AccountsOf(d)') \in Nat,
           Cardinality(AccountsOf(d)) \in Nat,
           accountcount[d] + Cardinality(Uncounted(d))
               = Cardinality(AccountsOf(d)) + Cardinality(NotDiscounted(d))
    PROVE  accountcount'[d] + Cardinality(Uncounted(d)')
               = Cardinality(AccountsOf(d)') + Cardinality(NotDiscounted(d)')
  <1>1. /\ Uncounted(d) \ {w} = Uncounted(d)' \ {w}
        /\ NotDiscounted(d) \ {w} = NotDiscounted(d)' \ {w}
    BY DEF Uncounted, NotDiscounted, At
  <1>2. /\ Cardinality(Uncounted(d)) \in Nat /\ Cardinality(Uncounted(d)') \in Nat
        /\ Cardinality(Uncounted(d)') = Cardinality(Uncounted(d))
               + One(w, Uncounted(d)') - One(w, Uncounted(d))
    BY <1>1, OneElement DEF FinitelyMany
  <1>3. /\ Cardinality(NotDiscounted(d)) \in Nat
        /\ Cardinality(NotDiscounted(d)') \in Nat
        /\ Cardinality(NotDiscounted(d)') = Cardinality(NotDiscounted(d))
               + One(w, NotDiscounted(d)') - One(w, NotDiscounted(d))
    BY <1>1, OneElement DEF FinitelyMany
  <1>4. accountcount[d] \in Nat /\ accountcount'[d] \in Nat
    BY DEF TypeOK
  <1>5. \A S : One(w, S) \in Nat
    BY DEF One
  <1> QED
    BY <1>2, <1>3, <1>4, <1>5 DEF CountMoves

\* A step of no account to the counter of domain d.
LEMMA StillMoves ==
    ASSUME TypeOK, FinitelyMany, NEW w \in Worker, CountStill(w),
           NEW d \in Domain \ skewed'
    PROVE  CountMoves(w, d)
  <1>1. UncountedPC \cap {"countDown"} = {}
    BY DEF UncountedPC
  <1>2. /\ w \in Uncounted(d)' <=> w \in Uncounted(d)
        /\ w \in NotDiscounted(d)' <=> w \in NotDiscounted(d)
    BY <1>1 DEF CountStill, Uncounted, NotDiscounted, At
  <1>3. AccountsOf(d)' = AccountsOf(d) /\ accountcount' = accountcount
    BY DEF CountStill, AccountsOf
  <1>4. One(w, Uncounted(d)') = One(w, Uncounted(d))
    BY <1>2 DEF One
  <1>5. One(w, NotDiscounted(d)') = One(w, NotDiscounted(d))
    BY <1>2 DEF One
  <1>6. \A S : One(w, S) \in Nat
    BY DEF One
  <1>7. accountcount[d] \in Nat /\ Cardinality(AccountsOf(d)) \in Nat
    BY AccountsFinite DEF TypeOK
  <1> QED
    BY <1>3, <1>4, <1>5, <1>6, <1>7 DEF CountMoves

\* Account::create inserts the row, and is to count it from then on.
LEMMA InsertAccountMoves ==
    ASSUME TypeOK, FinitelyMany, RowsKeyed, NEW w \in Worker, InsertAccount(w),
           UserRows(task[w].user) = {}, NEW d \in Domain
    PROVE  CountMoves(w, d) /\ IsFiniteSet(accountuser')
  <1> DEFINE new == [id |-> nextId, user |-> task[w].user, dom |-> task[w].dom]
  <1>1. /\ task[w].pc = "insertAccount"
        /\ accountuser' = accountuser \cup {new}
        /\ task' = [task EXCEPT ![w].pc = "insertAddress", ![w].id = nextId]
        /\ accountcount' = accountcount
    BY DEF InsertAccount, At
  <1>2. task[w] \in CreateTask
    BY <1>1, TaskKinds DEF CreatePC
  <1>3. task'[w].pc = "insertAddress" /\ task'[w].dom = task[w].dom
    BY <1>1, <1>2 DEF TypeOK, CreateTask
  <1>4. new \notin accountuser
    BY DEF RowsKeyed, TypeOK, Row
  <1>5. /\ w \notin Uncounted(d)
        /\ w \in Uncounted(d)' <=> task[w].dom = d
        /\ w \notin NotDiscounted(d)
        /\ w \notin NotDiscounted(d)'
    BY <1>1, <1>3 DEF Uncounted, NotDiscounted, At, UncountedPC
  <1>6. /\ AccountsOf(d)' \ {new} = AccountsOf(d) \ {new}
        /\ new \notin AccountsOf(d)
        /\ new \in AccountsOf(d)' <=> task[w].dom = d
    BY <1>1, <1>4 DEF AccountsOf
  <1>7. Cardinality(AccountsOf(d)') = Cardinality(AccountsOf(d))
            + One(new, AccountsOf(d)') - One(new, AccountsOf(d))
    BY <1>6, AccountsFinite, OneElement
  <1>8. IsFiniteSet(accountuser')
    BY <1>1, FS_AddElement DEF FinitelyMany
  <1>9. accountcount[d] \in Nat /\ Cardinality(AccountsOf(d)) \in Nat
    BY AccountsFinite DEF TypeOK
  <1>10. /\ One(w, Uncounted(d)) = 0
         /\ One(w, NotDiscounted(d)) = 0
         /\ One(w, NotDiscounted(d)') = 0
         /\ One(new, AccountsOf(d)) = 0
         /\ One(w, Uncounted(d)') = One(new, AccountsOf(d)')
         /\ One(w, Uncounted(d)') \in Nat
    BY <1>5, <1>6 DEF One
  <1> QED
    BY <1>1, <1>7, <1>8, <1>9, <1>10 DEF CountMoves

\* One statement deletes one row of the request's domain, or none: then the
\* domain is skewed.
LEMMA RowDeleted ==
    ASSUME TypeOK, FinitelyMany, RowsKeyed, RowsInDomain, NEW w \in Worker,
           Holds(task[w]), RemoveAccountByID(task[w].id),
           MarkIfGone(w, task[w].id), NEW d \in Domain \ skewed'
    PROVE  /\ IsFiniteSet(accountuser')
           /\ Cardinality(AccountsOf(d)') = Cardinality(AccountsOf(d))
                  - (IF task[w].dom = d THEN 1 ELSE 0)
  <1>1. /\ accountuser' = {r \in accountuser : r.id # task[w].id}
        /\ accountuser' \subseteq accountuser
    BY DEF RemoveAccountByID
  <1>2. IsFiniteSet(accountuser')
    BY <1>1, FS_Subset DEF FinitelyMany
  <1>3. CASE \E r \in accountuser : r.id = task[w].id
    <2>1. PICK x \in accountuser : x.id = task[w].id
      BY <1>3
    <2>2. /\ x.dom = task[w].dom
          /\ \A r \in accountuser : r.id = task[w].id => r = x
      BY <2>1 DEF RowsInDomain, RowsKeyed
    <2>3. /\ AccountsOf(d)' \ {x} = AccountsOf(d) \ {x}
          /\ x \notin AccountsOf(d)'
          /\ x \in AccountsOf(d) <=> task[w].dom = d
      BY <1>1, <2>1, <2>2 DEF AccountsOf
    <2>4. /\ Cardinality(AccountsOf(d)) \in Nat
          /\ Cardinality(AccountsOf(d)') = Cardinality(AccountsOf(d))
                 + One(x, AccountsOf(d)') - One(x, AccountsOf(d))
      BY <2>3, AccountsFinite, OneElement
    <2>5. /\ One(x, AccountsOf(d)') = 0
          /\ One(x, AccountsOf(d)) = IF task[w].dom = d THEN 1 ELSE 0
      BY <2>3 DEF One
    <2> QED
      BY <1>2, <2>4, <2>5
  <1>4. CASE \A r \in accountuser : r.id # task[w].id
    <2>1. AccountsOf(d)' = AccountsOf(d) /\ task[w].dom # d
      BY <1>1, <1>4 DEF AccountsOf, MarkIfGone
    <2>2. Cardinality(AccountsOf(d)) \in Nat
      BY AccountsFinite
    <2> QED
      BY <1>2, <2>1, <2>2
  <1> QED
    BY <1>3, <1>4

\* The rollback of Account::create takes back a row that was not counted.
LEMMA UndoAccountMoves ==
    ASSUME TypeOK, FinitelyMany, RowsKeyed, RowsInDomain, NEW w \in Worker,
           UndoAccount(w), NEW d \in Domain \ skewed'
    PROVE  CountMoves(w, d) /\ IsFiniteSet(accountuser')
  <1>1. /\ task[w].pc = "undoAccount"
        /\ task'[w] = Idle
        /\ accountcount' = accountcount
        /\ Holds(task[w])
    BY FinishIdle DEF UndoAccount, At, Holds, UncountedPC
  <1>2. /\ IsFiniteSet(accountuser')
        /\ Cardinality(AccountsOf(d)') = Cardinality(AccountsOf(d))
               - (IF task[w].dom = d THEN 1 ELSE 0)
    BY <1>1, RowDeleted DEF UndoAccount
  <1>3. /\ One(w, Uncounted(d)) = IF task[w].dom = d THEN 1 ELSE 0
        /\ One(w, Uncounted(d)') = 0
        /\ One(w, NotDiscounted(d)) = 0
        /\ One(w, NotDiscounted(d)') = 0
    BY <1>1 DEF One, Uncounted, NotDiscounted, At, UncountedPC, Idle
  <1>4. accountcount[d] \in Nat /\ Cardinality(AccountsOf(d)) \in Nat
    BY AccountsFinite DEF TypeOK
  <1> QED
    BY <1>1, <1>2, <1>3, <1>4 DEF CountMoves

\* Account::remove deletes a row, and is to discount it from then on.
LEMMA DeleteAccountMoves ==
    ASSUME TypeOK, FinitelyMany, RowsKeyed, RowsInDomain, NEW w \in Worker,
           DeleteAccount(w), NEW d \in Domain \ skewed'
    PROVE  CountMoves(w, d) /\ IsFiniteSet(accountuser')
  <1>1. /\ task[w].pc = "deleteAccount"
        /\ task'[w].pc = "countDown"
        /\ task'[w].dom = task[w].dom
        /\ accountcount' = accountcount
        /\ Holds(task[w])
    BY GotoStays DEF DeleteAccount, At, Holds, RemovePC
  <1>2. /\ IsFiniteSet(accountuser')
        /\ Cardinality(AccountsOf(d)') = Cardinality(AccountsOf(d))
               - (IF task[w].dom = d THEN 1 ELSE 0)
    BY <1>1, RowDeleted DEF DeleteAccount
  <1>3. /\ One(w, NotDiscounted(d)') = IF task[w].dom = d THEN 1 ELSE 0
        /\ One(w, NotDiscounted(d)) = 0
        /\ One(w, Uncounted(d)) = 0
        /\ One(w, Uncounted(d)') = 0
    BY <1>1 DEF One, Uncounted, NotDiscounted, At, UncountedPC
  <1>4. accountcount[d] \in Nat /\ Cardinality(AccountsOf(d)) \in Nat
    BY AccountsFinite DEF TypeOK
  <1> QED
    BY <1>1, <1>2, <1>3, <1>4 DEF CountMoves

\* The two statements that move the counter of a domain that is there.
LEMMA CounterMoves ==
    ASSUME TypeOK, FinitelyMany, NEW w \in Worker,
           CountUp(w) \/ CountDown(w), NEW d \in domain \ skewed'
    PROVE  CountMoves(w, d) /\ IsFiniteSet(accountuser')
  <1>1. /\ accountuser' = accountuser
        /\ AccountsOf(d)' = AccountsOf(d)
        /\ IsFiniteSet(accountuser')
    BY DEF CountUp, CountDown, AccountsOf, FinitelyMany
  <1>2. /\ accountcount \in [Domain -> Nat]
        /\ d \in Domain
        /\ accountcount[d] \in Nat
        /\ Cardinality(AccountsOf(d)) \in Nat
    BY AccountsFinite DEF TypeOK
  <1>3. CASE CountUp(w)
    <2>1. /\ task[w].pc = "countUp"
          /\ task'[w] = Idle
          /\ accountcount'[d] = accountcount[d]
                 + (IF task[w].dom = d THEN 1 ELSE 0)
      BY <1>2, <1>3, FinishIdle DEF CountUp, At
    <2>2. /\ One(w, Uncounted(d)) = IF task[w].dom = d THEN 1 ELSE 0
          /\ One(w, Uncounted(d)') = 0
          /\ One(w, NotDiscounted(d)) = 0
          /\ One(w, NotDiscounted(d)') = 0
      BY <2>1 DEF One, Uncounted, NotDiscounted, At, UncountedPC, Idle
    <2> QED
      BY <1>1, <1>2, <2>1, <2>2 DEF CountMoves
  <1>4. CASE CountDown(w)
    <2>1. /\ task[w].pc = "countDown"
          /\ task'[w].pc \in {"idle", "nextAccount"}
      BY <1>4, AccountRemovedKeeps DEF CountDown, At, RemovePC
    <2>2. accountcount'[d] = accountcount[d] - (IF task[w].dom = d THEN 1 ELSE 0)
      <3>1. CASE task[w].dom = d
        BY <1>2, <1>4, <3>1 DEF CountDown
      <3>2. CASE task[w].dom # d
        BY <1>2, <1>4, <3>2 DEF CountDown
      <3> QED
        BY <3>1, <3>2
    <2>3. /\ One(w, NotDiscounted(d)) = IF task[w].dom = d THEN 1 ELSE 0
          /\ One(w, NotDiscounted(d)') = 0
          /\ One(w, Uncounted(d)) = 0
          /\ One(w, Uncounted(d)') = 0
      BY <2>1 DEF One, Uncounted, NotDiscounted, At, UncountedPC
    <2> QED
      BY <1>1, <1>2, <2>2, <2>3 DEF CountMoves
  <1> QED
    BY <1>3, <1>4

\* Every step is one of these, as far as rows and counters are concerned.
LEMMA CountKinds ==
    ASSUME TypeOK, NEW w \in Worker, Begin(w) \/ Step(w) \/ Failure(w)
    PROVE  \/ CountStill(w)
           \/ InsertAccount(w) /\ UserRows(task[w].user) = {}
           \/ UndoAccount(w) \/ DeleteAccount(w)
           \/ CountUp(w) \/ CountDown(w)
  <1>1. CASE CreateStep(w)
    BY <1>1, CreateIsStill DEF CreateStep
  <1>2. CASE RemoveStep(w) \/ CheckStep(w) \/ SweepStep(w) \/ Begin(w)
    BY <1>2, OtherIsStill DEF RemoveStep
  <1>3. CASE Failure(w)
    BY <1>3, FailureIsStill
  <1> QED
    BY <1>1, <1>2, <1>3 DEF Step

\* Domains go, and what was skewed stays skewed.
LEMMA SkewedGrows ==
    ASSUME TypeOK, NEW w \in Worker, Begin(w) \/ Step(w) \/ Failure(w)
    PROVE  domain' \subseteq domain /\ skewed \subseteq skewed'
  <1>1. CASE Begin(w)
    BY <1>1 DEF Begin, BeginCreate, BeginRemove, BeginCheck, BeginSweep, tables,
       history
  <1>2. CASE CreateStep(w)
    BY <1>2 DEF CreateStep, CheckAlias, InsertAccount, InsertAddress, InsertAce,
       LinkAce, DropCatchAll, InsertCatchAll, InsertCatchAllAce, LinkCatchAll,
       CreateMailbox, CountUp, UndoVirtual, UndoAccount, MarkIfGone, tables,
       history
  <1>3. CASE RemoveStep(w)
    BY <1>3 DEF RemoveStep, DeleteMailbox, DeleteVirtual, DeleteAccount,
       CountDown, MarkIfGone, tables, history
  <1>4. CASE CheckStep(w) \/ SweepStep(w)
    BY <1>4 DEF CheckStep, SweepStep, ListMailboxes, CreateMissing, NextAccount,
       DropDomain, tables, history
  <1>5. CASE Failure(w)
    BY <1>5 DEF Failure, StatementFails, MailboxReplyLost, Crash, tables
  <1> QED
    BY <1>1, <1>2, <1>3, <1>4, <1>5 DEF Step

\* Rows come and go one by one.
LEMMA RowsStayFinite ==
    ASSUME TypeOK, FinitelyMany, NEW w \in Worker,
           Begin(w) \/ Step(w) \/ Failure(w)
    PROVE  IsFiniteSet(accountuser')
  <1>1. CASE InsertAccount(w) /\ UserRows(task[w].user) = {}
    <2>1. \E new : accountuser' = accountuser \cup {new}
      BY <1>1 DEF InsertAccount
    <2> QED
      BY <2>1, FS_AddElement DEF FinitelyMany
  <1>2. CASE UndoAccount(w) \/ DeleteAccount(w)
    <2>1. accountuser' \subseteq accountuser
      BY <1>2 DEF UndoAccount, DeleteAccount, RemoveAccountByID
    <2> QED
      BY <2>1, FS_Subset DEF FinitelyMany
  <1>3. CASE CountStill(w) \/ CountUp(w) \/ CountDown(w)
    BY <1>3 DEF CountStill, CountUp, CountDown, FinitelyMany
  <1> QED
    BY <1>1, <1>2, <1>3, CountKinds

\* A request and the row it holds are of the same domain after every step.
LEMMA RowsInDomainStep ==
    ASSUME TypeOK, RowsKeyed, RowsInDomain, NEW w \in Worker,
           Begin(w) \/ Step(w) \/ Failure(w)
    PROVE  RowsInDomain'
  <1>1. \A x \in Worker : x # w => task'[x] = task[x]
    BY OthersWait
  <1>2. CASE InsertAccount(w) /\ UserRows(task[w].user) = {}
    <2> DEFINE new == [id |-> nextId, user |-> task[w].user, dom |-> task[w].dom]
    <2>1. /\ accountuser' = accountuser \cup {new}
          /\ task' = [task EXCEPT ![w].pc = "insertAddress", ![w].id = nextId]
      BY <1>2 DEF InsertAccount
    <2>2. task[w] \in CreateTask
      BY <1>2, TaskKinds DEF InsertAccount, At, CreatePC
    <2>3. task'[w].id = nextId /\ task'[w].dom = task[w].dom
      BY <2>1, <2>2 DEF TypeOK, CreateTask
    <2>4. \A r \in accountuser : r.id # nextId
      BY DEF RowsKeyed, TypeOK, Row
    <2>5. ASSUME NEW x \in Worker, Holds(task[x])
          PROVE  task[x].id # nextId
      <3>1. task[x].id \in Nat
        BY <2>5, TaskKinds DEF Holds, CreatePC, CreateTask, RemoveTask
      <3> QED
        BY <2>5, <3>1 DEF RowsKeyed, Holds, TypeOK
    <2>6. ASSUME NEW x \in Worker, Holds(task'[x]),
                 NEW r \in accountuser', r.id = task'[x].id
          PROVE  r.dom = task'[x].dom
      <3>1. CASE x = w
        BY <2>1, <2>3, <2>4, <2>6, <3>1
      <3>2. CASE x # w
        <4>1. task'[x] = task[x] /\ r.id # nextId
          BY <1>1, <2>5, <2>6, <3>2
        <4>2. r \in accountuser
          BY <2>1, <4>1
        <4> QED
          BY <2>6, <4>1, <4>2 DEF RowsInDomain
      <3> QED
        BY <3>1, <3>2
    <2> QED
      BY <2>6 DEF RowsInDomain
  <1>3. ASSUME HoldsRow(w), accountuser' \subseteq accountuser
        PROVE  RowsInDomain'
    <2>1. ASSUME NEW x \in Worker, Holds(task'[x]),
                 NEW r \in accountuser', r.id = task'[x].id
          PROVE  r.dom = task'[x].dom
      BY <1>1, <1>3, <2>1 DEF HoldsRow, RowsInDomain, RowsKeyed
    <2> QED
      BY <2>1 DEF RowsInDomain
  <1>4. CASE CountStill(w)
    BY <1>3, <1>4 DEF CountStill
  <1>5. CASE UndoAccount(w) \/ CountUp(w)
    <2>1. task'[w] = Idle
      BY <1>5, FinishIdle DEF UndoAccount, CountUp
    <2> QED
      BY <1>3, <1>5, <2>1 DEF HoldsRow, Holds, Idle, UncountedPC, RemovePC,
         UndoAccount, CountUp, RemoveAccountByID
  <1>6. CASE DeleteAccount(w)
    <2>1. HoldsRow(w)
      BY <1>6, GotoStays DEF DeleteAccount, At, HoldsRow, Holds, RemovePC
    <2> QED
      BY <1>3, <1>6, <2>1 DEF DeleteAccount, RemoveAccountByID
  <1>7. CASE CountDown(w)
    <2>1. task'[w].pc \in {"idle", "nextAccount"}
      BY <1>7, AccountRemovedKeeps DEF CountDown, At, RemovePC
    <2> QED
      BY <1>3, <1>7, <2>1 DEF HoldsRow, Holds, UncountedPC, RemovePC, CountDown
  <1> QED
    BY <1>2, <1>4, <1>5, <1>6, <1>7, CountKinds

\* Every step moves counter, rows and requests by the same amount.
LEMMA CountStep ==
    ASSUME TypeOK, TypeOK', RowsKeyed, CountInv, NEW w \in Worker,
           Begin(w) \/ Step(w) \/ Failure(w)
    PROVE  CountInv'
  <1>1. \A x \in Worker : x # w => task'[x] = task[x]
    BY OthersWait
  <1>2. RowsInDomain'
    BY RowsInDomainStep DEF CountInv
  <1>3. FinitelyMany'
    <2>1. IsFiniteSet(accountuser')
      BY RowsStayFinite DEF CountInv
    <2>2. ASSUME NEW d \in Domain
          PROVE  IsFiniteSet(Uncounted(d)') /\ IsFiniteSet(NotDiscounted(d)')
      <3>1. /\ Uncounted(d) \ {w} = Uncounted(d)' \ {w}
            /\ NotDiscounted(d) \ {w} = NotDiscounted(d)' \ {w}
        BY <1>1 DEF Uncounted, NotDiscounted, At
      <3> QED
        BY <3>1, OneElement DEF CountInv, FinitelyMany
    <2> QED
      BY <2>1, <2>2 DEF FinitelyMany
  <1>4. ASSUME NEW d \in domain' \ skewed'
        PROVE  accountcount'[d] + Cardinality(Uncounted(d)')
                   = Cardinality(AccountsOf(d)') + Cardinality(NotDiscounted(d)')
    <2>1. d \in domain \ skewed /\ d \in Domain
      BY SkewedGrows DEF TypeOK
    <2>2. CountMoves(w, d)
      BY <2>1, CountKinds, StillMoves, InsertAccountMoves, UndoAccountMoves,
         DeleteAccountMoves, CounterMoves DEF CountInv
    <2>3. /\ Cardinality(AccountsOf(d)) \in Nat
          /\ Cardinality(AccountsOf(d)') \in Nat
      <3>1. /\ AccountsOf(d) \in SUBSET accountuser
            /\ AccountsOf(d)' \in SUBSET accountuser'
        BY DEF AccountsOf
      <3> QED
        BY <1>3, <3>1, FS_Subset, FS_CardinalityType DEF CountInv, FinitelyMany
    <2>4. accountcount[d] + Cardinality(Uncounted(d))
              = Cardinality(AccountsOf(d)) + Cardinality(NotDiscounted(d))
      BY <2>1 DEF CountInv, AccountCountExact
    <2> QED
      BY <1>1, <2>1, <2>2, <2>3, <2>4, MovesKeepCount DEF CountInv
  <1> QED
    BY <1>2, <1>3, <1>4 DEF CountInv, AccountCountExact

\* In the first state nothing is there to be counted.
LEMMA CountInit ==
    ASSUME Init
    PROVE  CountInv
  <1>1. \A d : /\ Uncounted(d) = {}
               /\ NotDiscounted(d) = {}
               /\ AccountsOf(d) = {}
    BY DEF Init, Uncounted, NotDiscounted, AccountsOf, At, Idle, UncountedPC
  <1>2. Cardinality({}) = 0 /\ IsFiniteSet({})
    BY FS_EmptySet
  <1>3. RowsInDomain
    BY DEF Init, RowsInDomain
  <1>4. FinitelyMany
    BY <1>1, <1>2 DEF Init, FinitelyMany
  <1>5. AccountCountExact
    BY <1>1, <1>2 DEF Init, AccountCountExact
  <1> QED
    BY <1>3, <1>4, <1>5 DEF CountInv

\* Column accountcount of a domain is off from the number of its accounts by
\* exactly the requests that are between the statement for the row and the one
\* for the counter (account.cpp:841, account.cpp:964), for any number of
\* workers, until a failure, a second removal or a decrement at zero skews it.
THEOREM CountExact == Spec => []AccountCountExact
  <1>1. Init => CountInv
    BY CountInit
  <1>2. /\ IInv /\ IInv'
        /\ CountInv /\ [Next]_vars
        => CountInv'
    <2> SUFFICES ASSUME IInv, IInv', CountInv, [Next]_vars PROVE CountInv'
      OBVIOUS
    <2>1. CASE Next
      BY <2>1, CountStep DEF Next, IInv
    <2>2. CASE UNCHANGED vars
      BY <2>2 DEF vars, tables, history, CountInv, RowsInDomain, FinitelyMany,
         AccountCountExact, Uncounted, NotDiscounted, AccountsOf, At
    <2> QED
      BY <2>1, <2>2
  <1>3. CountInv => AccountCountExact
    BY DEF CountInv
  <1> QED
    BY <1>1, <1>2, <1>3, Inductive, PTL DEF Spec

-----------------------------------------------------------------------------
(* Addresses do not vanish: AddressesKept *)

\* Only four statements delete addresses of users.
LEMMA AddressesStay ==
    ASSUME NEW w \in Worker, Begin(w) \/ Step(w) \/ Failure(w),
           ~UndoVirtual(w), ~DeleteVirtual(w), ~DropCatchAll(w), ~DropDomain(w)
    PROVE  virtual \subseteq virtual'
  <1>1. CASE Begin(w)
    BY <1>1 DEF Begin, BeginCreate, BeginRemove, BeginCheck, BeginSweep, tables
  <1>2. CASE CreateStep(w)
    BY <1>2 DEF CreateStep, CheckAlias, InsertAccount, InsertAddress, InsertAce,
       LinkAce, InsertCatchAll, InsertCatchAllAce, LinkCatchAll, CreateMailbox,
       CountUp, UndoAccount, InsertVirtual, tables
  <1>3. CASE RemoveStep(w) \/ CheckStep(w) \/ SweepStep(w)
    BY <1>3 DEF RemoveStep, DeleteMailbox, DeleteAccount, CountDown, CheckStep,
       ListMailboxes, CreateMissing, SweepStep, NextAccount, tables
  <1>4. CASE Failure(w)
    BY <1>4 DEF Failure, StatementFails, MailboxReplyLost, Crash, tables
  <1> QED
    BY <1>1, <1>2, <1>3, <1>4 DEF Step

\* An address of a user is deleted by a request for that user, with its domain
\* or as a catch-all address, by whatever statement and at whatever moment
\* (account.cpp:662, :933, domain.cpp:908).
THEOREM AddressesStayWithUser == Spec => AddressesKept
  <1> DEFINE kept == faults = 0 => \A v \in virtual \ virtual' :
                         \/ Touching(v.user) # {}
                         \/ v.alias.dom \notin domain'
                         \/ v.alias.local = CatchAll
  <1>1. TypeOK /\ [Next]_vars => [kept]_vars
    <2> SUFFICES ASSUME TypeOK, NEW w \in Worker,
                        Begin(w) \/ Step(w) \/ Failure(w),
                        NEW v \in virtual \ virtual'
                 PROVE  \/ Touching(v.user) # {}
                        \/ v.alias.dom \notin domain'
                        \/ v.alias.local = CatchAll
      BY DEF Next
    <2>1. CASE UndoVirtual(w) \/ DeleteVirtual(w)
      <3>1. /\ task[w].pc \in CreatePC \cup RemovePC
            /\ v.user = task[w].user
        BY <2>1 DEF UndoVirtual, DeleteVirtual, RemoveVirtual, At, CreatePC,
           UncountedPC, RemovePC
      <3> QED
        BY <3>1 DEF Touching
    <2>2. CASE DropCatchAll(w)
      BY <2>2 DEF DropCatchAll, CatchAllOf
    <2>3. CASE DropDomain(w)
      BY <2>3 DEF DropDomain
    <2> QED
      BY <2>1, <2>2, <2>3, AddressesStay
  <1> QED
    BY <1>1, TypeCorrect, PTL DEF Spec, AddressesKept

-----------------------------------------------------------------------------
(* Completeness: AccountComplete *)

\* User u has an address in domain d that is not its catch-all address.
HasAddress(u, d) ==
    \E v \in virtual : /\ v.user = u
                       /\ v.alias.dom = d
                       /\ v.alias.local # CatchAll

\* A removal past the mailbox has the user to itself: there is a row, and
\* neither a mailbox nor another request between the two.
Alone(x) ==
    task[x].pc \in PastMailbox =>
        /\ task[x].user \notin mailbox
        /\ UserRows(task[x].user) # {}
        /\ \A y \in Worker :
               /\ task[y].pc \in BeforeMailbox => task[y].user # task[x].user
               /\ task[y].pc \in PastMailbox /\ task[y].user = task[x].user
                      => y = x

\* A creation that goes on to the mailbox has written the address.
Written(x) ==
    task[x].pc \in BeforeMailbox \ {"insertAddress"} /\ task[x].dom \in domain
        => HasAddress(task[x].user, task[x].dom)

\* An account is complete, or some request is about to make it complete or to
\* remove it.
CaredFor(r) ==
    \/ r.dom \notin domain
    \/ \E x \in Worker : task[x].pc \in PastMailbox /\ task[x].user = r.user
    \/ \E x \in Worker : task[x].pc \in BeforeMailbox /\ task[x].id = r.id
    \/ r.user \in mailbox /\ HasAddress(r.user, r.dom)

Complete == /\ \A x \in Worker : Alone(x) /\ Written(x)
            /\ \A r \in accountuser : CaredFor(r)

\* No failure, no restored mailbox and no domain with a skewed counter.
Smooth == Orderly /\ skewed = {}

\* A request that is in neither part of the code leaves accounts complete.
LEMMA ApartComplete ==
    ASSUME Complete, NEW w \in Worker,
           \A x \in Worker : x # w => task'[x] = task[x],
           task[w].pc \notin BeforeMailbox \cup PastMailbox,
           task'[w].pc \notin BeforeMailbox \cup PastMailbox,
           UNCHANGED <<accountuser, mailbox>>, domain' \subseteq domain,
           \A v \in virtual : v \in virtual' \/ v.alias.dom \notin domain'
    PROVE  Complete'
  <1>1. \A x \in Worker :
            task'[x].pc \in BeforeMailbox \cup PastMailbox
            \/ task[x].pc \in BeforeMailbox \cup PastMailbox
            => task'[x] = task[x]
    OBVIOUS
  <1>2. \A u, d : HasAddress(u, d) => HasAddress(u, d)' \/ d \notin domain'
    BY DEF HasAddress
  <1>3. \A u : UserRows(u)' = UserRows(u)
    BY DEF UserRows
  <1>4. ASSUME NEW x \in Worker PROVE Alone(x)'
    BY <1>1, <1>3 DEF Complete, Alone
  <1>5. ASSUME NEW x \in Worker PROVE Written(x)'
    BY <1>1, <1>2 DEF Complete, Written
  <1>6. ASSUME NEW r \in accountuser' PROVE CaredFor(r)'
    BY <1>1, <1>2 DEF Complete, CaredFor
  <1> QED
    BY <1>4, <1>5, <1>6 DEF Complete

\* Most steps are of that kind.
LEMMA StillComplete ==
    ASSUME TypeOK, Complete, NEW w \in Worker, recreated' = {},
           \/ Begin(w) \/ CheckAlias(w) \/ CountUp(w) \/ CountDown(w)
           \/ CheckStep(w) \/ SweepStep(w)
           \/ InsertAccount(w) /\ UserRows(task[w].user) # {}
           \/ DeleteMailbox(w) /\ CannotDelete(w)
    PROVE  Complete'
  <1> USE DEF At
  <1>1. \A x \in Worker : x # w => task'[x] = task[x]
    BY OthersWait DEF Step, CreateStep, RemoveStep
  <1>2. task[w].pc \notin BeforeMailbox \cup PastMailbox
    BY DEF Begin, BeginCreate, BeginSweep, BeginRemove, BeginCheck, CheckAlias,
       CountUp, CountDown, CheckStep, ListMailboxes, CreateMissing, SweepStep,
       NextAccount, DropDomain, InsertAccount, DeleteMailbox, BeforeMailbox,
       PastMailbox, UncountedPC
  <1>3. task'[w].pc \notin BeforeMailbox \cup PastMailbox
    <2>1. CASE Quiet(w)
      BY <2>1 DEF Quiet
    <2>2. CASE NewRemoval(w)
      BY <2>2 DEF NewRemoval, BeforeMailbox, PastMailbox, UncountedPC
    <2>3. CASE DeleteMailbox(w) /\ CannotDelete(w)
      BY <2>3, FinishIdle DEF DeleteMailbox, Idle, BeforeMailbox, PastMailbox,
         UncountedPC
    <2> QED
      BY <2>1, <2>2, <2>3, QuietSteps, BeginRemoveIsNewRemoval DEF Begin,
         SweepStep
  <1>4. mailbox' = mailbox
    <2>1. CASE CreateMissing(w)
      <3>1. task[w].user \in User
        BY <2>1, TaskKinds DEF CreateMissing, CheckPC, CheckTask
      <3> QED
        BY <2>1, <3>1 DEF CreateMissing, MakeMissingMailbox, TypeOK
    <2> QED
      BY <2>1 DEF Begin, BeginCreate, BeginSweep, BeginRemove, BeginCheck,
         CheckAlias, CountUp, CountDown, CheckStep, ListMailboxes, SweepStep,
         NextAccount, DropDomain, InsertAccount, DeleteMailbox
  <1>5. accountuser' = accountuser /\ domain' \subseteq domain
    BY DEF Begin, BeginCreate, BeginSweep, BeginRemove, BeginCheck, CheckAlias,
       CountUp, CountDown, CheckStep, ListMailboxes, CreateMissing, SweepStep,
       NextAccount, DropDomain, InsertAccount, DeleteMailbox, tables
  <1>6. \A v \in virtual : v \in virtual' \/ v.alias.dom \notin domain'
    BY DEF Begin, BeginCreate, BeginSweep, BeginRemove, BeginCheck, CheckAlias,
       CountUp, CountDown, CheckStep, ListMailboxes, CreateMissing, SweepStep,
       NextAccount, DropDomain, InsertAccount, DeleteMailbox, tables
  <1> QED
    BY <1>1, <1>2, <1>3, <1>4, <1>5, <1>6, ApartComplete

\* Account::create inserts a row for which it cares, and no removal is past the
\* mailbox of that user.
LEMMA InsertAccountComplete ==
    ASSUME TypeOK, RowsKeyed, Complete, NEW w \in Worker, InsertAccount(w),
           UserRows(task[w].user) = {}
    PROVE  Complete'
  <1> DEFINE new == [id |-> nextId, user |-> task[w].user, dom |-> task[w].dom]
  <1>1. /\ accountuser' = accountuser \cup {new}
        /\ UNCHANGED <<virtual, domain, mailbox>>
        /\ task[w].pc = "insertAccount"
    BY DEF InsertAccount, At
  <1>2. /\ task'[w].pc = "insertAddress"
        /\ task'[w].id = nextId
        /\ task'[w].user = task[w].user
        /\ \A x \in Worker : x # w => task'[x] = task[x]
    BY InsertAccountKeys
  <1>3. "insertAddress" \in BeforeMailbox /\ "insertAddress" \notin PastMailbox
        /\ "insertAccount" \notin BeforeMailbox \cup PastMailbox
    BY DEF BeforeMailbox, PastMailbox, UncountedPC
  <1>4. \A u : UserRows(u) # {} => UserRows(u)' # {}
    BY <1>1 DEF UserRows
  <1>5. \A u, d : HasAddress(u, d)' <=> HasAddress(u, d)
    BY <1>1 DEF HasAddress
  <1>6. ASSUME NEW x \in Worker, task'[x].pc \in PastMailbox
        PROVE  /\ task'[x] = task[x]
               /\ task[x].user # task[w].user
    BY <1>2, <1>3, <1>6 DEF Complete, Alone
  <1>7. ASSUME NEW x \in Worker PROVE Alone(x)'
    <2> SUFFICES ASSUME task'[x].pc \in PastMailbox
                 PROVE  /\ task'[x].user \notin mailbox'
                        /\ UserRows(task[x].user)' # {}
                        /\ \A y \in Worker :
                               /\ task'[y].pc \in BeforeMailbox =>
                                      task'[y].user # task'[x].user
                               /\ /\ task'[y].pc \in PastMailbox
                                  /\ task'[y].user = task'[x].user
                                  => y = x
      BY DEF Alone
    <2>1. /\ task'[x] = task[x]
          /\ task[x].user # task[w].user
          /\ Alone(x)
      BY <1>6 DEF Complete
    <2>2. ASSUME NEW y \in Worker
          PROVE  /\ task'[y].pc \in BeforeMailbox =>
                        task'[y].user # task'[x].user
                 /\ /\ task'[y].pc \in PastMailbox
                    /\ task'[y].user = task'[x].user
                    => y = x
      <3>1. CASE y = w
        BY <1>2, <1>3, <2>1, <3>1
      <3>2. CASE y # w
        BY <1>2, <2>1, <3>2 DEF Alone
      <3> QED
        BY <3>1, <3>2
    <2> QED
      BY <1>1, <1>4, <2>1, <2>2 DEF Alone, UserRows
  <1>8. ASSUME NEW x \in Worker PROVE Written(x)'
    BY <1>1, <1>2, <1>5 DEF Complete, Written
  <1>9. ASSUME NEW r \in accountuser' PROVE CaredFor(r)'
    <2>1. CASE r = new
      BY <1>2, <1>3, <2>1 DEF CaredFor
    <2>2. CASE r \in accountuser
      <3>1. CaredFor(r)
        BY <2>2 DEF Complete
      <3>2. \A x \in Worker : task[x].pc \in BeforeMailbox \cup PastMailbox =>
                task'[x] = task[x]
        BY <1>1, <1>2, <1>3
      <3> QED
        BY <1>1, <1>5, <3>1, <3>2 DEF CaredFor
    <2> QED
      BY <1>1, <2>1, <2>2
  <1> QED
    BY <1>7, <1>8, <1>9 DEF Complete

\* The statements of Account::create between the row and the mailbox: the
\* first one writes the address, the others leave it there.
LEMMA AddressWritten ==
    ASSUME TypeOK, NEW w \in Worker,
           \/ InsertAddress(w) \/ InsertAce(w) \/ LinkAce(w) \/ DropCatchAll(w)
           \/ InsertCatchAll(w) \/ InsertCatchAllAce(w) \/ LinkCatchAll(w)
    PROVE  /\ \A u, d : HasAddress(u, d) => HasAddress(u, d)'
           /\ task[w].pc = "insertAddress" =>
                  HasAddress(task[w].user, task[w].dom)'
           /\ task[w].pc \in BeforeMailbox
           /\ task'[w].pc \in BeforeMailbox \ {"insertAddress"}
           /\ task'[w].id = task[w].id
           /\ task'[w].user = task[w].user
           /\ task'[w].dom = task[w].dom
           /\ UNCHANGED <<accountuser, domain, mailbox>>
  <1> USE DEF At
  <1>1. \E p \in BeforeMailbox \ {"insertAddress"} : Goto(w, p)
    BY DEF InsertAddress, InsertAce, LinkAce, DropCatchAll, InsertCatchAll,
       InsertCatchAllAce, LinkCatchAll, AfterAddress, BeforeMailbox, UncountedPC
  <1>2. task[w].pc \in BeforeMailbox
    BY DEF InsertAddress, InsertAce, LinkAce, DropCatchAll, InsertCatchAll,
       InsertCatchAllAce, LinkCatchAll, BeforeMailbox, UncountedPC
  <1>3. UNCHANGED <<accountuser, domain, mailbox>>
    BY DEF InsertAddress, InsertAce, LinkAce, DropCatchAll, InsertCatchAll,
       InsertCatchAllAce, LinkCatchAll, tables
  <1>4. \A v \in virtual : v \in virtual' \/ v.alias.local = CatchAll
    BY DEF InsertAddress, InsertAce, LinkAce, DropCatchAll, InsertCatchAll,
       InsertCatchAllAce, LinkCatchAll, InsertVirtual, CatchAllOf, tables
  <1>5. ASSUME task[w].pc = "insertAddress"
        PROVE  HasAddress(task[w].user, task[w].dom)'
    <2> DEFINE v == [alias |-> [local |-> task[w].local, dom |-> task[w].dom,
                                ace |-> FALSE],
                     user |-> task[w].user]
    <2>1. v \in virtual'
      BY <1>5 DEF InsertAddress, InsertAce, LinkAce, DropCatchAll,
         InsertCatchAll, InsertCatchAllAce, LinkCatchAll, InsertVirtual
    <2>2. task[w].local \in Local
      BY <1>5, TaskKinds DEF CreatePC, UncountedPC, CreateTask
    <2>3. /\ v.user = task[w].user
          /\ v.alias.dom = task[w].dom
          /\ v.alias.local # CatchAll
      BY <2>2, ProvisioningAssumption
    <2>4. /\ task'[w].user = task[w].user
          /\ task'[w].dom = task[w].dom
      BY <1>1, <1>2, GotoStays DEF BeforeMailbox, CreatePC
    <2> QED
      BY <2>1, <2>3, <2>4 DEF HasAddress
  <1>6. \A u, d : HasAddress(u, d) => HasAddress(u, d)'
    BY <1>4 DEF HasAddress
  <1> QED
    BY <1>1, <1>2, <1>3, <1>5, <1>6, GotoStays DEF BeforeMailbox, CreatePC

\* So they leave accounts complete.
LEMMA AddressComplete ==
    ASSUME TypeOK, RowsKeyed, Complete, NEW w \in Worker,
           \/ InsertAddress(w) \/ InsertAce(w) \/ LinkAce(w) \/ DropCatchAll(w)
           \/ InsertCatchAll(w) \/ InsertCatchAllAce(w) \/ LinkCatchAll(w)
    PROVE  Complete'
  <1>1. /\ task[w].pc \in BeforeMailbox
        /\ task'[w].pc \in BeforeMailbox
        /\ task'[w].id = task[w].id
        /\ task'[w].user = task[w].user
        /\ task'[w].dom = task[w].dom
        /\ UNCHANGED <<accountuser, domain, mailbox>>
        /\ \A u, d : HasAddress(u, d) => HasAddress(u, d)'
        /\ \A x \in Worker : x # w => task'[x] = task[x]
    BY AddressWritten, OthersWait DEF Step, CreateStep
  <1>2. BeforeMailbox \cap PastMailbox = {}
    BY DEF BeforeMailbox, PastMailbox, UncountedPC
  <1>3. \A x \in Worker :
            /\ task'[x].user = task[x].user
            /\ task'[x].pc \in BeforeMailbox <=> task[x].pc \in BeforeMailbox
            /\ task'[x].pc \in PastMailbox <=> task[x].pc \in PastMailbox
    BY <1>1, <1>2
  <1>4. ASSUME NEW x \in Worker PROVE Alone(x)'
    BY <1>1, <1>3 DEF Complete, Alone, UserRows
  <1>5. ASSUME NEW x \in Worker PROVE Written(x)'
    <2>1. CASE x = w /\ task[w].pc = "insertAddress"
      <3>1. HasAddress(task[w].user, task[w].dom)'
        BY <2>1, AddressWritten
      <3> QED
        BY <1>1, <2>1, <3>1 DEF Written
    <2>2. CASE x = w /\ task[w].pc # "insertAddress"
      BY <1>1, <2>2 DEF Complete, Written, HasAddress
    <2>3. CASE x # w
      BY <1>1, <2>3 DEF Complete, Written
    <2> QED
      BY <2>1, <2>2, <2>3
  <1>6. ASSUME NEW r \in accountuser' PROVE CaredFor(r)'
    <2>1. CaredFor(r)
      BY <1>1 DEF Complete
    <2> QED
      BY <1>1, <1>3, <2>1 DEF CaredFor
  <1> QED
    BY <1>4, <1>5, <1>6 DEF Complete

\* The creation that gets the mailbox has its address: the account is complete.
LEMMA CreateMailboxComplete ==
    ASSUME TypeOK, RowsKeyed, RowsInDomain, Managed, Clean, Complete,
           NEW w \in Worker, CreateMailbox(w)
    PROVE  Complete'
  <1>1. /\ task[w].pc = "createMailbox"
        /\ task[w].pc \in BeforeMailbox \ {"insertAddress"}
        /\ UNCHANGED <<accountuser, domain, virtual>>
    BY DEF CreateMailbox, At, BeforeMailbox, UncountedPC, tables
  <1>2. PICK row \in accountuser :
            /\ row.id = task[w].id /\ row.user = task[w].user
            /\ \A q \in accountuser :
                   q.user = task[w].user \/ q.id = task[w].id => q = row
    BY <1>1, CreatorsRow
  <1>3. row.dom = task[w].dom
    BY <1>1, <1>2 DEF RowsInDomain, Holds, BeforeMailbox
  <1>4. ~MailboxRefused(w)
    BY <1>1, <1>2 DEF MailboxRefused, Clean, Token
  <1>5. /\ mailbox' = mailbox \cup {task[w].user}
        /\ task'[w].pc = "countUp"
        /\ \A x \in Worker : x # w => task'[x] = task[x]
    BY <1>1, <1>4, GotoStays, OthersWait DEF CreateMailbox, CreatePC,
       UncountedPC, Step, CreateStep
  <1>6. "countUp" \notin BeforeMailbox \cup PastMailbox
        /\ task[w].pc \notin PastMailbox
    BY <1>1 DEF BeforeMailbox, PastMailbox
  <1>7. \A u, d : HasAddress(u, d)' <=> HasAddress(u, d)
    BY <1>1 DEF HasAddress
  <1>8. ASSUME NEW x \in Worker PROVE Alone(x)'
    BY <1>1, <1>5, <1>6 DEF Complete, Alone, UserRows
  <1>9. ASSUME NEW x \in Worker PROVE Written(x)'
    BY <1>1, <1>5, <1>6, <1>7 DEF Complete, Written
  <1>10. ASSUME NEW r \in accountuser' PROVE CaredFor(r)'
    <2>1. CaredFor(r)
      BY <1>1 DEF Complete
    <2>2. CASE r = row
      <3>1. r.dom \in domain => HasAddress(r.user, r.dom)
        BY <1>1, <1>2, <1>3, <2>2 DEF Complete, Written
      <3> QED
        BY <1>1, <1>2, <1>5, <1>7, <2>2, <3>1 DEF CaredFor
    <2>3. CASE r # row
      <3>1. \A x \in Worker :
                \/ task[x].pc \in PastMailbox
                \/ task[x].pc \in BeforeMailbox /\ task[x].id = r.id
                => task'[x] = task[x]
        BY <1>1, <1>2, <1>5, <1>6, <2>3
      <3> QED
        BY <1>1, <1>5, <1>7, <2>1, <3>1 DEF CaredFor
    <2> QED
      BY <2>2, <2>3
  <1> QED
    BY <1>8, <1>9, <1>10 DEF Complete

\* A removal that gets past the mailbox takes the account over.
LEMMA DeleteMailboxComplete ==
    ASSUME TypeOK, RowsKeyed, Managed, Clean, Complete,
           NEW w \in Worker, DeleteMailbox(w), ~CannotDelete(w)
    PROVE  Complete'
  <1>1. /\ task[w].pc = "deleteMailbox"
        /\ task[w].user \in mailbox
        /\ mailbox' = mailbox \ {task[w].user}
        /\ UNCHANGED <<accountuser, domain, virtual>>
    BY DEF DeleteMailbox, At, tables, CannotDelete
  <1>2. /\ task'[w].pc = "deleteVirtual"
        /\ task'[w].user = task[w].user
        /\ \A x \in Worker : x # w => task'[x] = task[x]
    BY <1>1, GotoStays, OthersWait DEF DeleteMailbox, RemovePC, Step, RemoveStep
  <1>3. /\ "deleteMailbox" \notin BeforeMailbox \cup PastMailbox
        /\ "deleteVirtual" \notin BeforeMailbox
        /\ "deleteVirtual" \in PastMailbox
    BY DEF BeforeMailbox, PastMailbox, UncountedPC
  <1>4. \A u, d : HasAddress(u, d)' <=> HasAddress(u, d)
    BY <1>1 DEF HasAddress
  <1>5. UserRows(task[w].user) # {}
    BY <1>1 DEF Clean
  <1>6. \A y \in Worker : task[y].pc \in BeforeMailbox \cup PastMailbox =>
            task[y].user # task[w].user
    BY <1>1 DEF Clean, Token, Complete, Alone
  <1>7. ASSUME NEW x \in Worker PROVE Alone(x)'
    <2>1. CASE x = w
      BY <1>1, <1>2, <1>3, <1>5, <1>6, <2>1 DEF Alone, UserRows
    <2>2. CASE x # w
      <3>1. task'[x] = task[x] /\ Alone(x)
        BY <1>2, <2>2 DEF Complete
      <3> QED
        BY <1>1, <1>2, <1>3, <1>6, <2>2, <3>1 DEF Alone, UserRows
    <2> QED
      BY <2>1, <2>2
  <1>8. ASSUME NEW x \in Worker PROVE Written(x)'
    BY <1>1, <1>2, <1>3, <1>4 DEF Complete, Written
  <1>9. ASSUME NEW r \in accountuser' PROVE CaredFor(r)'
    <2>1. CaredFor(r)
      BY <1>1 DEF Complete
    <2>2. \A x \in Worker : task[x].pc \in BeforeMailbox \cup PastMailbox =>
              task'[x] = task[x]
      BY <1>1, <1>2, <1>3
    <2> QED
      BY <1>1, <1>2, <1>3, <1>4, <2>1, <2>2 DEF CaredFor
  <1> QED
    BY <1>7, <1>8, <1>9 DEF Complete

\* It deletes the addresses of an account it cares for.
LEMMA DeleteVirtualComplete ==
    ASSUME TypeOK, RowsKeyed, Complete, NEW w \in Worker, DeleteVirtual(w)
    PROVE  Complete'
  <1>1. /\ task[w].pc = "deleteVirtual"
        /\ virtual' = {v \in virtual : v.user # task[w].user}
        /\ UNCHANGED <<accountuser, domain, mailbox>>
    BY DEF DeleteVirtual, RemoveVirtual, At
  <1>2. /\ task'[w].pc = "deleteAccount"
        /\ task'[w].user = task[w].user
        /\ \A x \in Worker : x # w => task'[x] = task[x]
    BY <1>1, GotoStays, OthersWait DEF DeleteVirtual, RemovePC, Step, RemoveStep
  <1>3. /\ {"deleteVirtual", "deleteAccount"} \cap BeforeMailbox = {}
        /\ {"deleteVirtual", "deleteAccount"} \subseteq PastMailbox
    BY DEF BeforeMailbox, PastMailbox, UncountedPC
  <1>4. \A u, d : u # task[w].user => (HasAddress(u, d)' <=> HasAddress(u, d))
    BY <1>1 DEF HasAddress
  <1>5. \A x \in Worker :
            /\ task'[x].user = task[x].user
            /\ task'[x].pc \in PastMailbox <=> task[x].pc \in PastMailbox
            /\ task'[x].pc \in BeforeMailbox <=> task[x].pc \in BeforeMailbox
            /\ task[x].pc \in BeforeMailbox => task'[x] = task[x]
    BY <1>1, <1>2, <1>3
  <1>6. ASSUME NEW x \in Worker PROVE Alone(x)'
    BY <1>1, <1>5 DEF Complete, Alone, UserRows
  <1>7. ASSUME NEW x \in Worker PROVE Written(x)'
    <2>1. task[x].pc \in BeforeMailbox => task[x].user # task[w].user
      BY <1>1, <1>3 DEF Complete, Alone
    <2> QED
      BY <1>1, <1>4, <1>5, <2>1 DEF Complete, Written
  <1>8. ASSUME NEW r \in accountuser' PROVE CaredFor(r)'
    <2>1. CaredFor(r)
      BY <1>1 DEF Complete
    <2>2. CASE r.user = task[w].user
      BY <1>2, <1>3, <2>2 DEF CaredFor
    <2>3. CASE r.user # task[w].user
      BY <1>1, <1>4, <1>5, <2>1, <2>3 DEF CaredFor
    <2> QED
      BY <2>2, <2>3
  <1> QED
    BY <1>6, <1>7, <1>8 DEF Complete

\* It deletes the row, or the domain's counter is skewed.
LEMMA DeleteAccountComplete ==
    ASSUME TypeOK, RowsKeyed, Complete, NEW w \in Worker, DeleteAccount(w),
           skewed' = {}
    PROVE  Complete'
  <1>1. /\ task[w].pc = "deleteAccount"
        /\ accountuser' = {r \in accountuser : r.id # task[w].id}
        /\ UNCHANGED <<virtual, domain, mailbox>>
    BY DEF DeleteAccount, RemoveAccountByID, At
  <1>2. PICK row \in accountuser : row.id = task[w].id
    BY <1>1 DEF DeleteAccount, MarkIfGone
  <1>3. /\ row.user = task[w].user
        /\ \A r \in accountuser : r.user = task[w].user => r = row
        /\ \A r \in accountuser : r # row => r \in accountuser'
        /\ row \notin accountuser'
    BY <1>1, <1>2 DEF RowsKeyed, RemovePC
  <1>4. /\ task'[w].pc = "countDown"
        /\ \A x \in Worker : x # w => task'[x] = task[x]
    BY <1>1, GotoStays, OthersWait DEF DeleteAccount, RemovePC, Step, RemoveStep
  <1>5. /\ "countDown" \notin BeforeMailbox \cup PastMailbox
        /\ "deleteAccount" \notin BeforeMailbox
        /\ "deleteAccount" \in PastMailbox
    BY DEF BeforeMailbox, PastMailbox, UncountedPC
  <1>6. \A u, d : HasAddress(u, d)' <=> HasAddress(u, d)
    BY <1>1 DEF HasAddress
  <1>7. ASSUME NEW x \in Worker PROVE Alone(x)'
    <2>1. ASSUME x # w, task[x].pc \in PastMailbox
          PROVE  \E r \in accountuser' : r.user = task[x].user
      <3>1. task[x].user # task[w].user
        BY <1>1, <1>5, <2>1 DEF Complete, Alone
      <3>2. PICK r \in accountuser : r.user = task[x].user
        BY <2>1 DEF Complete, Alone, UserRows
      <3> QED
        BY <1>3, <3>1, <3>2
    <2> QED
      BY <1>1, <1>4, <1>5, <2>1 DEF Complete, Alone, UserRows
  <1>8. ASSUME NEW x \in Worker PROVE Written(x)'
    BY <1>1, <1>4, <1>5, <1>6 DEF Complete, Written
  <1>9. ASSUME NEW r \in accountuser' PROVE CaredFor(r)'
    <2>1. CaredFor(r) /\ r.user # task[w].user
      BY <1>1, <1>3 DEF Complete
    <2>2. \A x \in Worker :
              \/ task[x].pc \in PastMailbox /\ task[x].user = r.user
              \/ task[x].pc \in BeforeMailbox
              => task'[x] = task[x]
      BY <1>1, <1>4, <1>5, <2>1
    <2> QED
      BY <1>1, <1>6, <2>1, <2>2 DEF CaredFor
  <1> QED
    BY <1>7, <1>8, <1>9 DEF Complete

\* Without a failure every step leaves every account complete or cared for.
LEMMA CompleteStep ==
    ASSUME IInv, RowsInDomain, Smooth, Smooth', Complete, NEW w \in Worker,
           Begin(w) \/ Step(w) \/ Failure(w)
    PROVE  Complete'
  <1>1. TypeOK /\ RowsKeyed /\ Clean /\ Managed /\ skewed' = {} /\ recreated' = {}
    BY CleanIsGoal DEF IInv, Smooth, Orderly
  <1>2. ~Failure(w)
    BY <1>1 DEF Failure, StatementFails, MailboxReplyLost, Crash, Fault, Smooth,
       Orderly, TypeOK
  <1>3. CASE CreateStep(w)
    BY <1>1, <1>3, StillComplete, InsertAccountComplete, AddressComplete,
       CreateMailboxComplete, NoRollback DEF CreateStep
  <1>4. CASE RemoveStep(w)
    BY <1>1, <1>4, StillComplete, DeleteMailboxComplete, DeleteVirtualComplete,
       DeleteAccountComplete DEF RemoveStep
  <1>5. CASE Begin(w) \/ CheckStep(w) \/ SweepStep(w)
    BY <1>1, <1>5, StillComplete
  <1> QED
    BY <1>2, <1>3, <1>4, <1>5 DEF Step

\* What has failed or been skewed is not forgotten.
LEMMA SmoothBefore ==
    ASSUME TypeOK, NEW w \in Worker, Begin(w) \/ Step(w) \/ Failure(w), Smooth'
    PROVE  Smooth
  BY HistoryGrows, SkewedGrows DEF Smooth

\* An account that no request is working on has its mailbox and an address in
\* its domain, whatever creations and removals of any number of workers have
\* been interleaved: Account::create takes care of the row it has inserted
\* (account.cpp:562-711), Account::remove of the one whose mailbox it has
\* deleted (account.cpp:908-955).
THEOREM AccountsComplete == Spec => []AccountComplete
  <1> DEFINE Inv == RowsInDomain /\ (Smooth => Complete)
  <1>1. Init => Inv
    <2> SUFFICES ASSUME Init PROVE Inv
      OBVIOUS
    <2>1. RowsInDomain
      BY DEF Init, RowsInDomain
    <2>2. Complete
      BY DEF Init, Complete, Alone, Written, Idle, BeforeMailbox, PastMailbox,
         UncountedPC
    <2> QED
      BY <2>1, <2>2
  <1>2. IInv /\ IInv' /\ Inv /\ [Next]_vars => Inv'
    <2> SUFFICES ASSUME IInv, Inv, [Next]_vars PROVE Inv'
      OBVIOUS
    <2>1. ASSUME NEW w \in Worker, Begin(w) \/ Step(w) \/ Failure(w)
          PROVE  Inv'
      <3>1. RowsInDomain'
        BY <2>1, RowsInDomainStep DEF IInv
      <3>2. Smooth' => Complete'
        BY <2>1, SmoothBefore, CompleteStep DEF IInv
      <3> QED
        BY <3>1, <3>2
    <2>2. CASE UNCHANGED vars
      BY <2>2 DEF vars, tables, history, RowsInDomain, Smooth, Orderly, Complete,
         Alone, Written, CaredFor, HasAddress, UserRows
    <2> QED
      BY <2>1, <2>2 DEF Next
  <1>3. IInv /\ Inv => AccountComplete
    <2> SUFFICES ASSUME IInv, Inv, Smooth, NEW r \in accountuser,
                        r.dom \in domain, Touching(r.user) = {}
                 PROVE  /\ r.user \in mailbox
                        /\ \E v \in virtual :
                               v.user = r.user /\ v.alias.dom = r.dom
      BY DEF AccountComplete, Smooth, Orderly
    <2>1. CaredFor(r)
      BY DEF Complete
    <2>2. ASSUME NEW x \in Worker, task[x].pc \in PastMailbox,
                 task[x].user = r.user
          PROVE  FALSE
      BY <2>2 DEF Touching, PastMailbox, RemovePC
    <2>3. ASSUME NEW x \in Worker, task[x].pc \in BeforeMailbox,
                 task[x].id = r.id
          PROVE  FALSE
      BY <2>3 DEF IInv, RowsKeyed, Touching, BeforeMailbox, CreatePC
    <2> QED
      BY <2>1, <2>2, <2>3 DEF CaredFor, HasAddress
  <1> QED
    BY <1>1, <1>2, <1>3, Inductive, PTL DEF Spec

-----------------------------------------------------------------------------
(* One failure, requests one after the other: OneFaultNoStray *)

\* With at most one failure so far, the request of w has the row it works on;
\* where it is about to delete that row no address is left; and before the
\* failure it is not undoing anything, and only users have mailboxes.
Settled(w) ==
    /\ AddressOfUser
    /\ Holds(task[w]) /\ task[w].pc # "countDown" =>
           \E r \in accountuser : r.id = task[w].id
    /\ task[w].pc \in CheckPC => UserRows(task[w].user) # {}
    /\ task[w].pc \in {"insertAddress", "undoAccount", "deleteAccount"} =>
           \A v \in virtual : v.user # task[w].user
    /\ faults = 0 =>
           /\ task[w].pc \notin UndoPC
           /\ \A u \in mailbox : UserRows(u) # {}
           /\ task[w].pc \in BeforeMailbox \cup PastMailbox =>
                  task[w].user \notin mailbox

\* A request that ends, or is between two accounts, has nothing to keep.
LEMMA ApartSettled ==
    ASSUME NEW w \in Worker, Settled(w),
           task'[w].pc \in {"idle", "checkAlias", "insertAccount", "nextAccount",
                            "dropDomain", "countDown"},
           accountuser' = accountuser, virtual' \subseteq virtual,
           faults' = 0 => faults = 0 /\ \A u \in mailbox' : UserRows(u) # {}
    PROVE  Settled(w)'
  <1>1. AddressOfUser'
    BY DEF Settled, AddressOfUser, UserRows
  <1>2. /\ task'[w].pc \notin CheckPC
        /\ task'[w].pc \notin UndoPC
        /\ task'[w].pc \notin BeforeMailbox \cup PastMailbox
        /\ task'[w].pc \notin {"insertAddress", "undoAccount", "deleteAccount"}
        /\ Holds(task'[w]) => task'[w].pc = "countDown"
    BY DEF CheckPC, UndoPC, BeforeMailbox, PastMailbox, Holds, UncountedPC,
       RemovePC
  <1>3. \A u : UserRows(u)' = UserRows(u)
    BY DEF UserRows
  <1> QED
    BY <1>1, <1>2, <1>3 DEF Settled

\* A request that goes on with the same row and neither adds addresses nor
\* loses its place.
LEMMA GoingOnSettled ==
    ASSUME TypeOK, NEW w \in Worker, Settled(w), NEW p, Goto(w, p),
           \/ /\ task[w].pc \in UncountedPC
              /\ p \in UncountedPC \ {"insertAddress"}
           \/ /\ task[w].pc \in RemovePC \ {"countDown"}
              /\ p \in RemovePC \ {"countDown"},
           p \in {"undoAccount", "deleteAccount"} =>
               \A v \in virtual' : v.user # task[w].user,
           UNCHANGED accountuser, AddressOfUser',
           faults' = 0 =>
               /\ faults = 0
               /\ p \notin UndoPC
               /\ mailbox' \subseteq mailbox \cup {task[w].user}
               /\ UserRows(task[w].user) # {}
               /\ p \in BeforeMailbox \cup PastMailbox =>
                      task[w].user \notin mailbox'
    PROVE  Settled(w)'
  <1>1. /\ task'[w].pc = p
        /\ task'[w].id = task[w].id
        /\ task'[w].user = task[w].user
    BY GotoStays DEF CreatePC
  <1>2. Holds(task[w]) /\ task[w].pc # "countDown"
    BY DEF Holds, UncountedPC
  <1>3. p \notin CheckPC /\ p # "insertAddress"
    BY DEF CheckPC, UncountedPC, RemovePC
  <1>4. \A u : UserRows(u)' = UserRows(u)
    BY DEF UserRows
  <1> QED
    BY <1>1, <1>2, <1>3, <1>4 DEF Settled

\* The row a request of Account::create or Account::remove holds is its user's.
LEMMA OwnRow ==
    ASSUME RowsKeyed, NEW w \in Worker, Settled(w), Holds(task[w]),
           task[w].pc # "countDown"
    PROVE  /\ \E r \in accountuser : r.id = task[w].id /\ r.user = task[w].user
           /\ UserRows(task[w].user) # {}
  BY DEF RowsKeyed, Settled, Holds, UserRows

\* Account::create before its row is inserted, and when it is.
LEMMA CreateBeginsSettled ==
    ASSUME TypeOK, RowsKeyed, NEW w \in Worker, Settled(w),
           CheckAlias(w) \/ InsertAccount(w)
    PROVE  Settled(w)'
  <1>1. CASE CheckAlias(w)
    <2>1. task'[w].pc \in {"idle", "insertAccount"}
      BY <1>1, FinishIdle, GotoStays DEF CheckAlias, At, CreatePC, Idle
    <2> QED
      BY <1>1, <2>1, ApartSettled DEF CheckAlias, tables, Settled
  <1>2. CASE InsertAccount(w) /\ UserRows(task[w].user) # {}
    BY <1>2, FinishIdle, ApartSettled DEF InsertAccount, Idle, Settled
  <1>3. CASE InsertAccount(w) /\ UserRows(task[w].user) = {}
    <2> DEFINE new == [id |-> nextId, user |-> task[w].user, dom |-> task[w].dom]
    <2>1. /\ accountuser' = accountuser \cup {new}
          /\ UNCHANGED <<virtual, mailbox, faults>>
      BY <1>3 DEF InsertAccount
    <2>2. /\ task'[w].pc = "insertAddress"
          /\ task'[w].id = nextId
          /\ task'[w].user = task[w].user
      BY <1>3, InsertAccountKeys
    <2>3. \A u : UserRows(u) # {} => UserRows(u)' # {}
      BY <2>1 DEF UserRows
    <2>4. AddressOfUser'
      BY <2>1, <2>3 DEF Settled, AddressOfUser
    <2>5. \A v \in virtual' : v.user # task'[w].user
      BY <1>3, <2>1, <2>2 DEF Settled, AddressOfUser
    <2>6. faults' = 0 => task'[w].user \notin mailbox'
      BY <1>3, <2>1, <2>2 DEF Settled
    <2>7. \E r \in accountuser' : r.id = task'[w].id
      <3>1. new \in accountuser' /\ new.id = nextId
        BY <2>1
      <3> QED
        BY <2>2, <3>1
    <2> QED
      BY <2>1, <2>2, <2>3, <2>4, <2>5, <2>6, <2>7 DEF Settled, CheckPC, UndoPC
  <1> QED
    BY <1>2, <1>1, <1>3

\* Account::create writes addresses of its own row.
LEMMA AddressSettled ==
    ASSUME TypeOK, RowsKeyed, NEW w \in Worker, Settled(w),
           \/ InsertAddress(w) \/ InsertAce(w) \/ LinkAce(w) \/ DropCatchAll(w)
           \/ InsertCatchAll(w) \/ InsertCatchAllAce(w) \/ LinkCatchAll(w)
    PROVE  Settled(w)'
  <1>1. \E p \in BeforeMailbox \ {"insertAddress"} : Goto(w, p)
    BY DEF InsertAddress, InsertAce, LinkAce, DropCatchAll, InsertCatchAll,
       InsertCatchAllAce, LinkCatchAll, AfterAddress, BeforeMailbox, UncountedPC
  <1>2. PICK p \in BeforeMailbox \ {"insertAddress"} : Goto(w, p)
    BY <1>1
  <1>3. AddressStep(w)
    BY AddressSteps
  <1>4. /\ task[w].pc \in UncountedPC
        /\ p \in UncountedPC \ {"insertAddress"}
        /\ p \notin {"undoAccount", "deleteAccount"}
        /\ p \notin UndoPC
        /\ Holds(task[w]) /\ task[w].pc # "countDown"
    BY <1>2, <1>3 DEF AddressStep, BeforeMailbox, UncountedPC, UndoPC, Holds
  <1>5. UserRows(task[w].user) # {}
    BY <1>4, OwnRow
  <1>6. AddressOfUser'
    BY <1>3, <1>5 DEF AddressStep, Settled, AddressOfUser, UserRows
  <1>7. /\ UNCHANGED <<accountuser, faults>>
        /\ faults' = 0 => /\ mailbox' \subseteq mailbox \cup {task[w].user}
                          /\ task[w].user \notin mailbox'
    BY <1>3 DEF AddressStep, Settled
  <1> QED
    BY <1>2, <1>4, <1>5, <1>6, <1>7, GoingOnSettled

\* Without a failure the mailbox is not refused; with one, it may be.
LEMMA CreateMailboxSettled ==
    ASSUME TypeOK, RowsKeyed, NEW w \in Worker, Settled(w), CreateMailbox(w)
    PROVE  Settled(w)'
  <1>1. /\ task[w].pc = "createMailbox"
        /\ task[w].pc \in UncountedPC
        /\ task[w].pc \in BeforeMailbox
        /\ Holds(task[w]) /\ task[w].pc # "countDown"
        /\ UNCHANGED <<accountuser, virtual, faults>>
    BY DEF CreateMailbox, At, UncountedPC, BeforeMailbox, Holds, tables
  <1>2. /\ UserRows(task[w].user) # {}
        /\ \E r \in accountuser : r.id = task[w].id
    BY <1>1, OwnRow
  <1>3. AddressOfUser'
    BY <1>1 DEF Settled, AddressOfUser, UserRows
  <1>4. faults = 0 => ~MailboxRefused(w)
    BY <1>1, <1>2 DEF MailboxRefused, Settled
  <1>5. mailbox' \subseteq mailbox \cup {task[w].user}
    BY DEF CreateMailbox
  <1>6. CASE Goto(w, "countUp")
    BY <1>1, <1>2, <1>3, <1>5, <1>6, GoingOnSettled DEF UncountedPC, UndoPC,
       BeforeMailbox, PastMailbox
  <1>7. CASE Goto(w, "undoVirtual") /\ MailboxRefused(w)
    BY <1>1, <1>2, <1>3, <1>4, <1>5, <1>7, GoingOnSettled DEF UncountedPC
  <1> QED
    BY <1>6, <1>7 DEF CreateMailbox

\* The rollback, and Account::remove past the mailbox, delete the addresses of
\* a user and only then the user's row.
LEMMA DeletionSettled ==
    ASSUME TypeOK, RowsKeyed, NEW w \in Worker, Settled(w),
           \/ UndoVirtual(w) \/ UndoAccount(w)
           \/ DeleteVirtual(w) \/ DeleteAccount(w)
    PROVE  Settled(w)'
  <1> USE DEF At
  <1>1. ASSUME UndoVirtual(w) \/ DeleteVirtual(w)
        PROVE  Settled(w)'
    <2>1. /\ \/ task[w].pc = "undoVirtual" /\ Goto(w, "undoAccount")
             \/ task[w].pc = "deleteVirtual" /\ Goto(w, "deleteAccount")
          /\ virtual' = {v \in virtual : v.user # task[w].user}
          /\ UNCHANGED <<accountuser, mailbox, faults>>
      BY <1>1 DEF UndoVirtual, DeleteVirtual, RemoveVirtual
    <2>2. AddressOfUser'
      BY <2>1 DEF Settled, AddressOfUser, UserRows
    <2>3. UserRows(task[w].user) # {}
      BY <2>1, OwnRow DEF Holds, UncountedPC, RemovePC
    <2>4. CASE task[w].pc = "undoVirtual" /\ Goto(w, "undoAccount")
      <3>1. faults # 0
        BY <2>4 DEF Settled, UndoPC
      <3> QED
        BY <2>1, <2>2, <2>4, <3>1, GoingOnSettled DEF UncountedPC
    <2>5. CASE task[w].pc = "deleteVirtual" /\ Goto(w, "deleteAccount")
      <3>1. faults = 0 => task[w].user \notin mailbox
        BY <2>5 DEF Settled, PastMailbox
      <3> QED
        BY <2>1, <2>2, <2>3, <2>5, <3>1, GoingOnSettled DEF RemovePC, UndoPC
    <2> QED
      BY <2>1, <2>4, <2>5
  <1>2. ASSUME UndoAccount(w) \/ DeleteAccount(w)
        PROVE  Settled(w)'
    <2>1. /\ task[w].pc \in {"undoAccount", "deleteAccount"}
          /\ task[w].pc = "undoAccount" \/ task[w].pc \in PastMailbox
          /\ accountuser' = {r \in accountuser : r.id # task[w].id}
          /\ UNCHANGED <<virtual, mailbox, faults>>
      BY <1>2 DEF UndoAccount, DeleteAccount, RemoveAccountByID, PastMailbox
    <2>2. task'[w].pc \in {"idle", "countDown"}
      BY <1>2, FinishIdle, GotoStays DEF UndoAccount, DeleteAccount, Idle,
         RemovePC
    <2>3. \A r \in accountuser : r.user # task[w].user => r \in accountuser'
      BY <2>1 DEF RowsKeyed, UncountedPC, RemovePC
    <2>4. \A u : u # task[w].user /\ UserRows(u) # {} => UserRows(u)' # {}
      BY <2>3 DEF UserRows
    <2>5. AddressOfUser'
      BY <2>1, <2>4 DEF Settled, AddressOfUser
    <2>6. faults = 0 => \A u \in mailbox : u # task[w].user
      BY <2>1 DEF Settled, UndoPC
    <2>7. faults' = 0 => \A u \in mailbox' : UserRows(u)' # {}
      BY <2>1, <2>4, <2>6 DEF Settled
    <2>8. /\ task'[w].pc \notin CheckPC
          /\ task'[w].pc \notin UndoPC
          /\ task'[w].pc \notin BeforeMailbox \cup PastMailbox
          /\ Holds(task'[w]) => task'[w].pc = "countDown"
      BY <2>2 DEF CheckPC, UndoPC, BeforeMailbox, PastMailbox, Holds, UncountedPC,
         RemovePC
    <2> QED
      BY <2>2, <2>5, <2>7, <2>8 DEF Settled
  <1> QED
    BY <1>1, <1>2

\* Account::remove deletes the mailbox of its row, or gives up.
LEMMA DeleteMailboxSettled ==
    ASSUME TypeOK, RowsKeyed, NEW w \in Worker, Settled(w), DeleteMailbox(w)
    PROVE  Settled(w)'
  <1>1. /\ task[w].pc = "deleteMailbox"
        /\ mailbox' \subseteq mailbox
        /\ UNCHANGED <<accountuser, virtual, faults>>
    BY DEF DeleteMailbox, At, tables
  <1>2. AddressOfUser'
    BY <1>1 DEF Settled, AddressOfUser, UserRows
  <1>3. CASE Finish(w)
    BY <1>1, <1>3, FinishIdle, ApartSettled DEF Idle, Settled
  <1>4. CASE Goto(w, "deleteVirtual") /\ mailbox' = mailbox \ {task[w].user}
    <2>1. UserRows(task[w].user) # {}
      BY <1>1, OwnRow DEF Holds, RemovePC
    <2> QED
      BY <1>1, <1>2, <1>4, <2>1, GoingOnSettled DEF RemovePC, UndoPC
  <1> QED
    BY <1>3, <1>4 DEF DeleteMailbox

\* Account::check makes a mailbox only for a user whose account it has read.
LEMMA CheckSettled ==
    ASSUME TypeOK, NEW w \in Worker, Settled(w), CheckStep(w)
    PROVE  Settled(w)'
  <1> USE DEF At
  <1>1. /\ task[w].pc \in CheckPC
        /\ UserRows(task[w].user) # {}
        /\ UNCHANGED <<accountuser, virtual, faults>>
        /\ mailbox' \subseteq mailbox \cup {task[w].user}
    BY DEF CheckStep, ListMailboxes, CreateMissing, MakeMissingMailbox, CheckPC,
       Settled, tables
  <1>2. faults' = 0 => faults = 0 /\ \A u \in mailbox' : UserRows(u) # {}
    BY <1>1 DEF Settled
  <1>3. CASE Finish(w)
    BY <1>1, <1>2, <1>3, FinishIdle, ApartSettled DEF Idle
  <1>4. CASE Goto(w, "createMissing")
    <2>1. /\ task'[w].pc = "createMissing"
          /\ task'[w].user = task[w].user
      BY <1>1, <1>4, TaskKinds DEF Goto, TypeOK, CheckTask
    <2>2. \A u : UserRows(u)' = UserRows(u)
      BY <1>1 DEF UserRows
    <2>3. AddressOfUser'
      BY <1>1, <2>2 DEF Settled, AddressOfUser
    <2>4. ~Holds(task'[w]) /\ task'[w].pc \notin BeforeMailbox \cup PastMailbox
      BY <2>1 DEF Holds, UncountedPC, RemovePC, BeforeMailbox, PastMailbox
    <2> QED
      BY <1>1, <1>2, <2>1, <2>2, <2>3, <2>4 DEF Settled, UndoPC
  <1> QED
    BY <1>3, <1>4 DEF CheckStep, ListMailboxes, CreateMissing, MakeMissingMailbox

\* A removal takes up a row of the table.
LEMMA RemovalSettled ==
    ASSUME NEW w \in Worker, Settled(w), NewRemoval(w)
    PROVE  Settled(w)'
  <1>1. /\ task'[w].pc = "deleteMailbox"
        /\ \E r \in accountuser : task'[w].id = r.id
        /\ UNCHANGED <<accountuser, virtual, mailbox, faults>>
    BY DEF NewRemoval, tables
  <1>2. \A u : UserRows(u)' = UserRows(u)
    BY <1>1 DEF UserRows
  <1>3. AddressOfUser'
    BY <1>1, <1>2 DEF Settled, AddressOfUser
  <1> QED
    BY <1>1, <1>2, <1>3 DEF Settled, CheckPC, UndoPC, BeforeMailbox, PastMailbox,
       UncountedPC

\* Domain::remove, the counters and the beginning of every request.
LEMMA OtherSettled ==
    ASSUME TypeOK, NEW w \in Worker, Settled(w),
           CountUp(w) \/ CountDown(w) \/ SweepStep(w) \/ Begin(w)
    PROVE  Settled(w)'
  <1> USE DEF At
  <1>1. /\ UNCHANGED <<accountuser, mailbox, faults>>
        /\ virtual' \subseteq virtual
    BY DEF CountUp, CountDown, SweepStep, NextAccount, DropDomain, Begin,
       BeginCreate, BeginRemove, BeginCheck, BeginSweep, tables
  <1>2. ASSUME task'[w].pc \in {"idle", "checkAlias", "nextAccount", "dropDomain"}
        PROVE  Settled(w)'
    BY <1>1, <1>2, ApartSettled DEF Settled
  <1>3. CASE CountUp(w) \/ DropDomain(w)
    BY <1>2, <1>3, FinishIdle DEF CountUp, DropDomain, Idle
  <1>4. CASE CountDown(w)
    BY <1>2, <1>4, AccountRemovedKeeps DEF CountDown, RemovePC
  <1>5. CASE NextAccount(w) /\ ~NewRemoval(w)
    <2>1. ASSUME NEW r \in accountuser,
                 task' = [task EXCEPT ![w] =
                     [pc |-> "deleteMailbox", user |-> r.user, dom |-> r.dom,
                      id |-> r.id, sweep |-> TRUE,
                      target |-> task[w].target, todo |-> task[w].todo]]
          PROVE  FALSE
      BY <1>5, <2>1 DEF NextAccount, NewRemoval, TypeOK
    <2>2. task'[w].pc \in {"createMissing", "dropDomain", "nextAccount"}
      BY <1>5, <2>1, ListKeeps DEF NextAccount
    <2>3. task'[w].pc # "createMissing"
      BY <1>5, <2>1, TaskKinds DEF NextAccount, Goto, TypeOK, SweepPC, SweepTask
    <2> QED
      BY <1>2, <2>2, <2>3
  <1>6. CASE BeginCreate(w) \/ BeginSweep(w)
    <2>1. task'[w].pc \in {"checkAlias", "nextAccount"}
      BY <1>6 DEF BeginCreate, BeginSweep, TypeOK
    <2> QED
      BY <1>2, <2>1
  <1>7. ASSUME NEW u \in User, BeginCheck(w, u) PROVE Settled(w)'
    <2>1. /\ task'[w].pc = "listMailboxes"
          /\ UserRows(task'[w].user) # {}
      BY <1>7 DEF BeginCheck, TypeOK, UserRows
    <2>2. \A x : UserRows(x)' = UserRows(x)
      BY <1>1 DEF UserRows
    <2>3. AddressOfUser'
      BY <1>1, <2>2 DEF Settled, AddressOfUser
    <2>4. ~Holds(task'[w]) /\ task'[w].pc \notin BeforeMailbox \cup PastMailbox
      BY <2>1 DEF Holds, UncountedPC, RemovePC, BeforeMailbox, PastMailbox
    <2> QED
      BY <1>1, <2>1, <2>2, <2>3, <2>4 DEF Settled, UndoPC
  <1> QED
    BY <1>3, <1>4, <1>5, <1>6, <1>7, RemovalSettled, BeginRemoveIsNewRemoval
       DEF SweepStep, Begin

\* The first failure finds nothing being undone, and leaves addresses only
\* where the account stays or is rolled back after its addresses.
LEMMA FailureSettled ==
    ASSUME TypeOK, RowsKeyed, NEW w \in Worker, Settled(w), Failure(w),
           faults' <= 1
    PROVE  Settled(w)'
  <1> USE DEF At
  <1>1. /\ faults = 0 /\ faults' # 0
        /\ UNCHANGED <<accountuser, virtual>>
        /\ task[w].pc \notin UndoPC
    <2>1. faults' = faults + 1
      BY DEF Failure, StatementFails, MailboxReplyLost, Crash, Fault
    <2>2. faults = 0
      BY <2>1 DEF TypeOK
    <2> QED
      BY <2>1, <2>2 DEF Settled, Failure, StatementFails, MailboxReplyLost, Crash,
         tables
  <1>2. AddressOfUser'
    BY <1>1 DEF Settled, AddressOfUser, UserRows
  <1>3. CASE task'[w].pc \in {"idle", "nextAccount"}
    BY <1>1, <1>3, ApartSettled
  <1>4. CASE Finish(w)
    BY <1>3, <1>4, FinishIdle DEF Idle
  <1>5. CASE Goto(w, "undoAccount") /\ task[w].pc = "insertAddress"
    <2>1. \A v \in virtual' : v.user # task[w].user
      BY <1>1, <1>5 DEF Settled
    <2> QED
      BY <1>1, <1>2, <1>5, <2>1, GoingOnSettled DEF UncountedPC
  <1>6. CASE Goto(w, "undoVirtual") /\ task[w].pc \in UncountedPC
    BY <1>1, <1>2, <1>6, GoingOnSettled DEF UncountedPC
  <1>7. CASE Goto(w, "deleteVirtual") /\ task[w].pc = "deleteMailbox"
    BY <1>1, <1>2, <1>7, GoingOnSettled DEF RemovePC
  <1>8. CASE task[w].pc = "countDown" /\ AccountRemoved(w)
    BY <1>3, <1>8, AccountRemovedKeeps DEF RemovePC
  <1>9. CASE /\ task[w].pc = "nextAccount"
             /\ \E i \in task[w].todo : task' = [task EXCEPT ![w].todo = @ \ {i}]
    <2>1. task'[w].pc = "nextAccount"
      BY <1>9, TaskKinds DEF TypeOK, SweepPC, SweepTask
    <2> QED
      BY <1>3, <2>1
  <1>10. CASE StatementFails(w)
    BY <1>1, <1>4, <1>5, <1>6, <1>7, <1>8, <1>9, <1>10 DEF StatementFails, OnError,
       UndoPC, UncountedPC
  <1>11. CASE MailboxReplyLost(w) \/ Crash(w)
    BY <1>4, <1>6, <1>7, <1>11 DEF MailboxReplyLost, MakeMissingMailbox, Crash,
       UncountedPC
  <1> QED
    BY <1>10, <1>11 DEF Failure

\* Every step with at most one failure so far.
LEMMA SettledStep ==
    ASSUME TypeOK, RowsKeyed, NEW w \in Worker, Settled(w), faults' <= 1,
           Begin(w) \/ Step(w) \/ Failure(w)
    PROVE  Settled(w)'
  BY CreateBeginsSettled, AddressSettled, CreateMailboxSettled, DeletionSettled,
     DeleteMailboxSettled, CheckSettled, OtherSettled, FailureSettled
     DEF Step, CreateStep, RemoveStep

\* Failures are counted.
LEMMA FaultsGrow ==
    ASSUME TypeOK, NEW w \in Worker, Begin(w) \/ Step(w) \/ Failure(w)
    PROVE  faults' \in {faults, faults + 1}
  <1>1. CASE Begin(w)
    BY <1>1 DEF Begin, BeginCreate, BeginRemove, BeginCheck, BeginSweep
  <1>2. CASE CreateStep(w)
    BY <1>2 DEF CreateStep, CheckAlias, InsertAccount, InsertAddress, InsertAce,
       LinkAce, DropCatchAll, InsertCatchAll, InsertCatchAllAce, LinkCatchAll,
       CreateMailbox, CountUp, UndoVirtual, UndoAccount
  <1>3. CASE RemoveStep(w) \/ CheckStep(w) \/ SweepStep(w)
    BY <1>3 DEF RemoveStep, DeleteMailbox, DeleteVirtual, DeleteAccount,
       CountDown, CheckStep, ListMailboxes, CreateMissing, SweepStep, NextAccount,
       DropDomain
  <1>4. CASE Failure(w)
    BY <1>4 DEF Failure, StatementFails, MailboxReplyLost, Crash, Fault
  <1> QED
    BY <1>1, <1>2, <1>3, <1>4 DEF Step

\* Requests that follow one another leave no address without an account, in
\* any mode of creating mailboxes, even if one statement, reply or process is
\* lost: all deletions go from the addresses to the account (account.cpp:835,
\* account.cpp:933-955).
THEOREM NoStrayAfterOneFault ==
    ASSUME IsFiniteSet(Worker)
    PROVE  Spec => []OneFaultNoStray
  <1> DEFINE Inv == faults <= 1 => \A w \in Worker : Settled(w)
  <1>1. CASE Cardinality(Worker) # 1
    <2>1. OneFaultNoStray
      BY <1>1 DEF OneFaultNoStray
    <2> QED
      BY <2>1, PTL
  <1>2. CASE Cardinality(Worker) = 1
    <2>1. PICK w0 : Worker = {w0}
      BY <1>2, FS_Singleton
    <2>2. Init => Inv
      <3> SUFFICES ASSUME Init, NEW w \in Worker PROVE Settled(w)
        OBVIOUS
      <3>1. task[w].pc = "idle"
        BY DEF Init, Idle
      <3> QED
        BY <3>1 DEF Init, Settled, AddressOfUser, Holds, UncountedPC, RemovePC,
           CheckPC, UndoPC, BeforeMailbox, PastMailbox
    <2>3. IInv /\ Inv /\ [Next]_vars => Inv'
      <3> SUFFICES ASSUME IInv, Inv, [Next]_vars PROVE Inv'
        OBVIOUS
      <3>1. ASSUME NEW w \in Worker, Begin(w) \/ Step(w) \/ Failure(w),
                   faults' <= 1
            PROVE  \A x \in Worker : Settled(x)'
        <4>1. faults <= 1
          BY <3>1, FaultsGrow DEF IInv, TypeOK
        <4>2. Settled(w)'
          BY <3>1, <4>1, SettledStep DEF IInv
        <4> QED
          BY <2>1, <4>2
      <3>2. CASE UNCHANGED vars
        BY <3>2 DEF vars, tables, Settled, AddressOfUser, UserRows
      <3> QED
        BY <3>1, <3>2 DEF Next
    <2>4. Inv => OneFaultNoStray
      BY <2>1 DEF OneFaultNoStray, Settled
    <2> QED
      BY <2>2, <2>3, <2>4, Inductive, PTL DEF Spec
  <1> QED
    BY <1>1, <1>2

-----------------------------------------------------------------------------
(* Requests one after the other: AliasUnique *)

\* An address that is not in its ACE form.
Plain(l, d) == [local |-> l, dom |-> d, ace |-> FALSE]

Has(u, a) == \E v \in virtual : v.user = u /\ v.alias = a

\* An address in ACE form is of an IDN domain, and its user has it in the other
\* form, too.
AcePaired ==
    \A v \in virtual : v.alias.ace =>
        /\ v.alias.dom \in IdnDomain
        /\ Has(v.user, Plain(v.alias.local, v.alias.dom))

\* What Account::create knows when it is about to insert an address.
Checked(w) ==
    /\ task[w].pc \in {"insertAccount", "insertAddress"} =>
           ~AliasExists(Plain(task[w].local, task[w].dom))
    /\ task[w].pc = "insertAce" =>
           Has(task[w].user, Plain(task[w].local, task[w].dom))
    /\ task[w].pc = "insertCatchAll" =>
           ~AliasExists(Plain(CatchAll, task[w].dom))
    /\ task[w].pc = "insertCatchAllAce" =>
           Has(task[w].user, Plain(CatchAll, task[w].dom))
    /\ task[w].pc \in {"insertAce", "insertCatchAllAce"} =>
           task[w].dom \in IdnDomain

Unique(w) == AliasUnique /\ AcePaired /\ Checked(w)

InsertingPC == {"insertAccount", "insertAddress", "insertAce", "insertCatchAll",
                "insertCatchAllAce"}

\* Deleting both forms of an address keeps the pairs.
LEMMA DeletionUnique ==
    ASSUME AliasUnique, AcePaired, virtual' \subseteq virtual,
           \A v, x \in virtual :
               /\ v \in virtual'
               /\ v.alias.ace
               /\ v.alias.dom \in IdnDomain
               /\ x.user = v.user
               /\ x.alias = Plain(v.alias.local, v.alias.dom)
               => x \in virtual'
    PROVE  AliasUnique' /\ AcePaired'
  <1>1. AliasUnique'
    BY DEF AliasUnique
  <1>2. AcePaired'
    BY DEF AcePaired, Has
  <1> QED
    BY <1>1, <1>2

\* Inserting an address that is not there, without its ACE form.
LEMMA PlainInserted ==
    ASSUME AliasUnique, AcePaired, NEW w \in Worker, NEW l,
           InsertVirtual(w, l, FALSE), ~AliasExists(Plain(l, task[w].dom))
    PROVE  /\ AliasUnique' /\ AcePaired'
           /\ \E v \in virtual' : /\ v.user = task[w].user
                                  /\ v.alias = Plain(l, task[w].dom)
  <1> DEFINE new == [alias |-> Plain(l, task[w].dom), user |-> task[w].user]
  <1>1. virtual' = virtual \cup {new}
    BY DEF InsertVirtual, Plain
  <1>2. \A v \in virtual : v.alias # new.alias
    BY DEF AliasExists
  <1>3. AliasUnique'
    BY <1>1, <1>2 DEF AliasUnique
  <1>4. new.alias.ace = FALSE
    BY DEF Plain
  <1>5. AcePaired'
    BY <1>1, <1>4 DEF AcePaired, Has
  <1>6. /\ new.user = task[w].user
        /\ new.alias = Plain(l, task[w].dom)
    OBVIOUS
  <1> HIDE DEF new
  <1> QED
    BY <1>1, <1>3, <1>5, <1>6

\* Inserting the ACE form of an address that the user has.
LEMMA AceInserted ==
    ASSUME TypeOK, AliasUnique, AcePaired, NEW w \in Worker,
           task[w] \in CreateTask, NEW l \in Local \cup {CatchAll},
           InsertVirtual(w, l, TRUE), Has(task[w].user, Plain(l, task[w].dom)),
           task[w].dom \in IdnDomain
    PROVE  AliasUnique' /\ AcePaired'
  <1> DEFINE a == [local |-> l, dom |-> task[w].dom, ace |-> TRUE]
  <1> DEFINE new == [alias |-> a, user |-> task[w].user]
  <1>1. virtual' = virtual \cup {new}
    BY DEF InsertVirtual
  <1>2. PICK own \in virtual : /\ own.user = task[w].user
                               /\ own.alias = Plain(l, task[w].dom)
    BY DEF Has
  <1>3. ASSUME NEW v \in virtual, v.alias = a
        PROVE  v = new
    <2>1. v.alias.ace /\ v.alias.local = l /\ v.alias.dom = task[w].dom
      BY <1>3
    <2>2. PICK x \in virtual : /\ x.user = v.user
                               /\ x.alias = Plain(l, task[w].dom)
      BY <2>1 DEF AcePaired, Has
    <2>3. x = own
      BY <1>2, <2>2 DEF AliasUnique
    <2>4. v.user = task[w].user
      BY <1>2, <2>2, <2>3
    <2>5. v \in [alias : Address, user : User]
      BY DEF TypeOK
    <2> QED
      BY <1>3, <2>4, <2>5
  <1>4. AliasUnique'
    <2>1. new.alias = a
      OBVIOUS
    <2> HIDE DEF new, a
    <2> QED
      BY <1>1, <1>3, <2>1 DEF AliasUnique
  <1>5. /\ new.alias.ace
        /\ new.alias.local = l
        /\ new.alias.dom = task[w].dom
        /\ new.user = task[w].user
    OBVIOUS
  <1>6. AcePaired'
    <2>1. ASSUME NEW v \in virtual', v.alias.ace
          PROVE  /\ v.alias.dom \in IdnDomain
                 /\ \E x \in virtual' :
                        /\ x.user = v.user
                        /\ x.alias = Plain(v.alias.local, v.alias.dom)
      <3>1. CASE v \in virtual
        BY <1>1, <2>1, <3>1 DEF AcePaired, Has
      <3>2. CASE v = new
        BY <1>1, <1>2, <1>5, <3>2
      <3> QED
        BY <1>1, <3>1, <3>2
    <2> QED
      BY <2>1 DEF AcePaired, Has
  <1> QED
    BY <1>4, <1>6

\* A request that goes on in Account::create keeps its address.
LEMMA GotoLocal ==
    ASSUME TypeOK, NEW w \in Worker, NEW p, Goto(w, p), task[w].pc \in CreatePC
    PROVE  task'[w].local = task[w].local
  <1>1. task'[w] = [task[w] EXCEPT !.pc = p]
    BY DEF TypeOK, Goto
  <1>2. task[w] \in CreateTask
    BY TaskKinds
  <1> QED
    BY <1>1, <1>2 DEF CreateTask

\* Account::create: the statements that insert an address.
LEMMA InsertionUnique ==
    ASSUME TypeOK, NEW w \in Worker, Unique(w),
           \/ InsertAddress(w) \/ InsertAce(w)
           \/ InsertCatchAll(w) \/ InsertCatchAllAce(w)
    PROVE  Unique(w)'
  <1> USE DEF At
  <1>1. task[w] \in CreateTask /\ task[w].pc \in CreatePC
    BY TaskKinds DEF InsertAddress, InsertAce, InsertCatchAll, InsertCatchAllAce,
       CreatePC, UncountedPC
  <1>2. ASSUME NEW p, Goto(w, p), p \notin InsertingPC
        PROVE  Checked(w)'
    BY <1>1, <1>2, GotoStays DEF Checked, InsertingPC
  <1>3. CASE InsertAddress(w)
    <2>1. /\ AliasUnique' /\ AcePaired'
          /\ \E v \in virtual' : /\ v.user = task[w].user
                                 /\ v.alias = Plain(task[w].local, task[w].dom)
      BY <1>3, PlainInserted DEF InsertAddress, Unique, Checked
    <2>2. CASE task[w].dom \in IdnDomain
      <3>1. Goto(w, "insertAce")
        BY <1>3, <2>2 DEF InsertAddress
      <3>2. /\ task'[w].pc = "insertAce"
            /\ task'[w].user = task[w].user
            /\ task'[w].dom = task[w].dom
            /\ task'[w].local = task[w].local
        BY <1>1, <3>1, GotoStays, GotoLocal
      <3> QED
        BY <2>1, <2>2, <3>2 DEF Unique, Checked, Has
    <2>3. CASE task[w].dom \notin IdnDomain
      <3>1. Checked(w)'
        BY <1>2, <1>3, <2>3 DEF InsertAddress, AfterAddress, InsertingPC
      <3> QED
        BY <2>1, <3>1 DEF Unique
    <2> QED
      BY <2>2, <2>3
  <1>4. CASE InsertCatchAll(w)
    <2>1. /\ AliasUnique' /\ AcePaired'
          /\ \E v \in virtual' : /\ v.user = task[w].user
                                 /\ v.alias = Plain(CatchAll, task[w].dom)
      BY <1>4, PlainInserted DEF InsertCatchAll, Unique, Checked
    <2>2. CASE task[w].dom \in IdnDomain
      <3>1. /\ task'[w].pc = "insertCatchAllAce"
            /\ task'[w].user = task[w].user
            /\ task'[w].dom = task[w].dom
        BY <1>1, <1>4, <2>2, GotoStays DEF InsertCatchAll
      <3> QED
        BY <2>1, <2>2, <3>1 DEF Unique, Checked, Has
    <2>3. CASE task[w].dom \notin IdnDomain
      <3>1. Checked(w)'
        BY <1>2, <1>4, <2>3 DEF InsertCatchAll, InsertingPC
      <3> QED
        BY <2>1, <3>1 DEF Unique
    <2> QED
      BY <2>2, <2>3
  <1>5. CASE InsertAce(w) \/ InsertCatchAllAce(w)
    <2>1. \E l \in Local \cup {CatchAll} :
              /\ InsertVirtual(w, l, TRUE)
              /\ Has(task[w].user, Plain(l, task[w].dom))
      BY <1>1, <1>5 DEF InsertAce, InsertCatchAllAce, Unique, Checked, CreateTask
    <2>2. task[w].dom \in IdnDomain
      BY <1>5 DEF InsertAce, InsertCatchAllAce, Unique, Checked
    <2>3. AliasUnique' /\ AcePaired'
      BY <1>1, <2>1, <2>2, AceInserted DEF Unique
    <2>4. Checked(w)'
      BY <1>2, <1>5 DEF InsertAce, InsertCatchAllAce, InsertingPC
    <2> QED
      BY <2>3, <2>4 DEF Unique
  <1> QED
    BY <1>3, <1>4, <1>5

\* Account::create before its row is there.
LEMMA CheckedBefore ==
    ASSUME TypeOK, RowsKeyed, NEW w \in Worker, Unique(w),
           CheckAlias(w) \/ InsertAccount(w)
    PROVE  Unique(w)'
  <1> USE DEF At
  <1>1. task[w] \in CreateTask /\ task[w].pc \in CreatePC
    BY TaskKinds DEF CheckAlias, InsertAccount, CreatePC
  <1>2. virtual' = virtual
    BY DEF CheckAlias, InsertAccount, tables
  <1>3. AliasUnique' /\ AcePaired'
    BY <1>2 DEF Unique, AliasUnique, AcePaired, Has
  <1>4. CASE Finish(w)
    BY <1>3, <1>4, FinishIdle DEF Unique, Checked, Idle
  <1>5. CASE CheckAlias(w) /\ ~Finish(w)
    <2>1. /\ Goto(w, "insertAccount")
          /\ ~AliasExists(Plain(task[w].local, task[w].dom))
      BY <1>5 DEF CheckAlias, Plain
    <2>2. /\ task'[w].pc = "insertAccount"
          /\ task'[w].dom = task[w].dom
          /\ task'[w].local = task[w].local
      BY <1>1, <2>1, GotoStays, GotoLocal
    <2> QED
      BY <1>2, <1>3, <2>1, <2>2 DEF Unique, Checked, AliasExists
  <1>6. CASE InsertAccount(w) /\ ~Finish(w)
    <2>1. /\ task[w].pc = "insertAccount"
          /\ task' = [task EXCEPT ![w].pc = "insertAddress", ![w].id = nextId]
      BY <1>6 DEF InsertAccount
    <2>2. /\ task'[w].pc = "insertAddress"
          /\ task'[w].dom = task[w].dom
          /\ task'[w].local = task[w].local
      BY <1>1, <2>1 DEF TypeOK, CreateTask
    <2> QED
      BY <1>2, <1>3, <2>1, <2>2 DEF Unique, Checked, AliasExists
  <1> QED
    BY <1>4, <1>5, <1>6

\* The catch-all address of the domain goes in both forms before the new one is
\* inserted.
LEMMA DropCatchAllUnique ==
    ASSUME TypeOK, NEW w \in Worker, Unique(w), DropCatchAll(w)
    PROVE  Unique(w)'
  <1>1. /\ virtual' = {v \in virtual : v.alias \notin CatchAllOf(task[w].dom)}
        /\ Goto(w, "insertCatchAll")
        /\ task[w].pc \in CreatePC
    BY DEF DropCatchAll, At, CreatePC, UncountedPC
  <1>2. task'[w].pc = "insertCatchAll" /\ task'[w].dom = task[w].dom
    BY <1>1, GotoStays
  <1>3. ASSUME NEW v \in virtual', NEW x \in virtual, v.alias.ace,
               v.alias.dom \in IdnDomain,
               x.alias = Plain(v.alias.local, v.alias.dom)
        PROVE  x \in virtual'
    <2>1. v.alias \in Address /\ x.alias \in Address
      BY <1>1 DEF TypeOK
    <2>2. x.alias.local = v.alias.local /\ x.alias.dom = v.alias.dom
      BY <1>3 DEF Plain
    <2>3. x.alias \notin CatchAllOf(task[w].dom)
      BY <1>1, <1>3, <2>1, <2>2 DEF CatchAllOf
    <2> QED
      BY <1>1, <2>3
  <1>4. AliasUnique' /\ AcePaired'
    BY <1>1, <1>3, DeletionUnique DEF Unique
  <1>5. ASSUME NEW v \in virtual', v.alias = Plain(CatchAll, task[w].dom)
        PROVE  FALSE
    <2>1. v.alias \in Address /\ v.alias \notin CatchAllOf(task[w].dom)
      BY <1>1 DEF TypeOK
    <2> QED
      BY <1>5, <2>1 DEF CatchAllOf, Plain
  <1>6. Checked(w)'
    BY <1>2, <1>5 DEF Checked, AliasExists
  <1> QED
    BY <1>4, <1>6 DEF Unique

\* Every other step deletes both forms of an address or none, and is not about
\* to insert one.
LEMMA OtherUnique ==
    ASSUME TypeOK, NEW w \in Worker, Unique(w),
           \/ LinkAce(w) \/ LinkCatchAll(w) \/ CreateMailbox(w) \/ CountUp(w)
           \/ UndoVirtual(w) \/ UndoAccount(w) \/ RemoveStep(w)
           \/ CheckStep(w) \/ SweepStep(w) \/ Begin(w) \/ Failure(w)
    PROVE  Unique(w)'
  <1> USE DEF At
  <1>1. \/ virtual' = virtual
        \/ RemoveVirtual(task[w].user)
        \/ virtual' = {v \in virtual : v.alias.dom # task[w].target}
    BY DEF LinkAce, LinkCatchAll, CreateMailbox, CountUp, UndoVirtual, UndoAccount,
       RemoveStep, DeleteMailbox, DeleteVirtual, DeleteAccount, CountDown,
       CheckStep, ListMailboxes, CreateMissing, SweepStep, NextAccount, DropDomain,
       Begin, BeginCreate, BeginRemove, BeginCheck, BeginSweep, Failure,
       StatementFails, MailboxReplyLost, Crash, tables
  <1>2. AliasUnique' /\ AcePaired'
    BY <1>1, DeletionUnique DEF Unique, RemoveVirtual, Plain
  <1>3. task'[w].pc \notin InsertingPC
    <2>1. ASSUME NEW p, Goto(w, p), task[w].pc \in CreatePC \cup RemovePC
          PROVE  task'[w].pc = p
      BY <2>1, GotoStays
    <2>2. Finish(w) => task'[w].pc = "idle"
      BY FinishIdle DEF Idle
    <2>3. CASE \/ LinkAce(w) \/ LinkCatchAll(w) \/ CreateMailbox(w) \/ CountUp(w)
               \/ UndoVirtual(w) \/ UndoAccount(w)
      BY <2>1, <2>2, <2>3 DEF LinkAce, LinkCatchAll, CreateMailbox, CountUp,
         UndoVirtual, UndoAccount, AfterAddress, CreatePC, UncountedPC,
         InsertingPC
    <2>4. CASE RemoveStep(w)
      BY <2>1, <2>2, <2>4, AccountRemovedKeeps DEF RemoveStep, DeleteMailbox,
         DeleteVirtual, DeleteAccount, CountDown, RemovePC, InsertingPC
    <2>5. CASE CheckStep(w)
      BY <2>2, <2>5, ListKeeps DEF CheckStep, ListMailboxes, CreateMissing,
         MakeMissingMailbox, InsertingPC
    <2>6. CASE Quiet(w) /\ (SweepStep(w) \/ Begin(w))
      <3>1. task'[w].pc \notin InsertingPC \ {"insertAccount"}
        BY <2>6 DEF Quiet, BeforeMailbox, UncountedPC, InsertingPC
      <3>2. task'[w].pc # "insertAccount"
        <4>1. CASE DropDomain(w)
          BY <2>2, <4>1 DEF DropDomain
        <4>2. CASE Begin(w)
          BY <4>2 DEF Begin, BeginCreate, BeginRemove, BeginCheck, BeginSweep,
             TypeOK
        <4>3. CASE NextAccount(w)
          BY <4>3, ListKeeps DEF NextAccount, TypeOK
        <4> QED
          BY <2>6, <4>1, <4>2, <4>3 DEF SweepStep
      <3> QED
        BY <3>1, <3>2
    <2>7. CASE NewRemoval(w)
      BY <2>7 DEF NewRemoval, InsertingPC
    <2>8. CASE SweepStep(w) \/ Begin(w)
      BY <2>6, <2>7, <2>8, QuietSteps, BeginRemoveIsNewRemoval DEF SweepStep, Begin
    <2>9. CASE Failure(w)
      <3>1. CASE /\ task[w].pc = "nextAccount"
                 /\ \E i \in task[w].todo :
                       task' = [task EXCEPT ![w].todo = @ \ {i}]
        BY <3>1, ListKeeps DEF InsertingPC
      <3>2. CASE task[w].pc = "countDown" /\ AccountRemoved(w)
        BY <3>2, AccountRemovedKeeps DEF RemovePC, InsertingPC
      <3>3. CASE StatementFails(w)
        BY <2>1, <2>2, <3>1, <3>2, <3>3 DEF StatementFails, OnError, CreatePC,
           UncountedPC, RemovePC, InsertingPC
      <3>4. CASE MailboxReplyLost(w) \/ Crash(w)
        BY <2>1, <2>2, <3>4 DEF MailboxReplyLost, MakeMissingMailbox, Crash,
           CreatePC, UncountedPC, RemovePC, InsertingPC
      <3> QED
        BY <2>9, <3>3, <3>4 DEF Failure
    <2> QED
      BY <2>3, <2>4, <2>5, <2>8, <2>9
  <1>4. Checked(w)'
    BY <1>3 DEF Checked, InsertingPC
  <1> QED
    BY <1>2, <1>4 DEF Unique

\* Every step of a worker that has the database for itself.
LEMMA UniqueStep ==
    ASSUME TypeOK, RowsKeyed, NEW w \in Worker, Unique(w),
           Begin(w) \/ Step(w) \/ Failure(w)
    PROVE  Unique(w)'
  BY CheckedBefore, InsertionUnique, DropCatchAllUnique, OtherUnique
     DEF Step, CreateStep

\* With a single worker no address is given to two users, whatever statements
\* fail: the check of Account::create (account.cpp:524) still holds when the
\* address is inserted, and an address and its ACE form come and go together.
\* With two workers this is false: table virtual has no key on column alias.
THEOREM AliasesUnique ==
    ASSUME NEW w0, Worker = {w0}
    PROVE  Spec => []AliasUnique
  <1>1. Init => Unique(w0)
    BY DEF Init, Unique, AliasUnique, AcePaired, Checked, Idle
  <1>2. IInv /\ Unique(w0) /\ [Next]_vars => Unique(w0)'
    <2> SUFFICES ASSUME IInv, Unique(w0), [Next]_vars PROVE Unique(w0)'
      OBVIOUS
    <2>1. CASE Next
      BY <2>1, UniqueStep DEF Next, IInv
    <2>2. CASE UNCHANGED vars
      BY <2>2 DEF vars, tables, Unique, AliasUnique, AcePaired, Has, Checked,
         AliasExists
    <2> QED
      BY <2>1, <2>2
  <1>3. Unique(w0) => AliasUnique
    BY DEF Unique
  <1> QED
    BY <1>1, <1>2, <1>3, Inductive, PTL DEF Spec
=============================================================================
