----------------------- MODULE AccountAddresses_proofs -----------------------
(***************************************************************************)
(* Theorems about AccountAddresses, for any number of users, local parts,  *)
(* domains, forwards and failures.  Types and ids need nothing else; what  *)
(* the requests promise about addresses and forwards needs that they do    *)
(* not overlap, and is stated for one worker.                              *)
(***************************************************************************)
EXTENDS AccountAddresses, FiniteSetTheorems, TLAPS

-----------------------------------------------------------------------------
(* Type correctness *)

AllTasks == {Idle} \cup AddressTask \cup ForwardTask \cup AccountTask

\* The statement a request is at tells which kind of request it is.
LEMMA TaskKinds ==
    ASSUME TypeOK, NEW w \in Worker
    PROVE  /\ task[w] \in AllTasks
           /\ task[w].pc \in AddressPC => task[w] \in AddressTask
           /\ task[w].pc \in ForwardPC => task[w] \in ForwardTask
           /\ task[w].pc \in AccountPC => task[w] \in AccountTask
           /\ task[w].pc \in {"idle"} \cup AddressPC \cup ForwardPC \cup AccountPC
  <1>1. task[w] \in AllTasks
    BY DEF TypeOK, AllTasks
  <1>2. CASE task[w] = Idle
    BY <1>1, <1>2 DEF Idle, AddressPC, AddPC, ChangePC, RemovePC, CatchAllPC,
       ForwardPC, AccountPC
  <1>3. CASE task[w] \in AddressTask
    <2>1. task[w].pc \in AddressPC
      BY <1>3 DEF AddressTask
    <2> QED
      BY <1>1, <1>3, <2>1 DEF AddressPC, AddPC, ChangePC, RemovePC, CatchAllPC,
         ForwardPC, AccountPC
  <1>4. CASE task[w] \in ForwardTask
    <2>1. task[w].pc \in ForwardPC
      BY <1>4 DEF ForwardTask
    <2> QED
      BY <1>1, <1>4, <2>1 DEF AddressPC, AddPC, ChangePC, RemovePC, CatchAllPC,
         ForwardPC, AccountPC
  <1>5. CASE task[w] \in AccountTask
    <2>1. task[w].pc \in AccountPC
      BY <1>5 DEF AccountTask
    <2> QED
      BY <1>1, <1>5, <2>1 DEF AddressPC, AddPC, ChangePC, RemovePC, CatchAllPC,
         ForwardPC, AccountPC
  <1> QED
    BY <1>1, <1>2, <1>3, <1>4, <1>5 DEF AllTasks

\* A step of a request changes the request of its worker only.
LEMMA TaskType ==
    ASSUME TypeOK, NEW w \in Worker, NEW t \in AllTasks,
           task' = [task EXCEPT ![w] = t]
    PROVE  /\ task' \in [Worker -> AllTasks]
           /\ task'[w] = t
           /\ \A v \in Worker \ {w} : task'[v] = task[v]
  BY DEF TypeOK, AllTasks

\* So does one that ends the request.
LEMMA FinishType ==
    ASSUME TypeOK, NEW w \in Worker, Finish(w)
    PROVE  /\ task' \in [Worker -> AllTasks]
           /\ task'[w] = Idle
           /\ \A v \in Worker \ {w} : task'[v] = task[v]
  BY TaskType DEF Finish, AllTasks

\* A request about an address goes on to another statement about it.
LEMMA AddressNext ==
    ASSUME TypeOK, NEW w \in Worker, task[w].pc \in AddressPC,
           NEW p \in AddressPC, NEW i \in Nat, NEW a \in Nat
    PROVE  [task[w] EXCEPT !.pc = p, !.id = i, !.aceId = a] \in AllTasks
  <1>1. task[w] \in AddressTask
    BY TaskKinds
  <1> QED
    BY <1>1 DEF AllTasks, AddressTask

\* Going on does not touch what the request is about.
LEMMA GotoAddress ==
    ASSUME TypeOK, NEW w \in Worker, task[w].pc \in AddressPC,
           NEW p \in AddressPC, Goto(w, p)
    PROVE  /\ task' \in [Worker -> AllTasks]
           /\ task'[w] = [task[w] EXCEPT !.pc = p]
           /\ \A v \in Worker \ {w} : task'[v] = task[v]
  <1>1. task[w] \in AddressTask
    BY TaskKinds
  <1>2. [task[w] EXCEPT !.pc = p] \in AllTasks
    BY <1>1 DEF AllTasks, AddressTask
  <1>3. task' = [task EXCEPT ![w] = [task[w] EXCEPT !.pc = p]]
    BY DEF Goto, TypeOK
  <1> QED
    BY <1>2, <1>3, TaskType

\* The same for a request that removes an account.
LEMMA GotoAccount ==
    ASSUME TypeOK, NEW w \in Worker, task[w].pc \in AccountPC,
           NEW p \in AccountPC, Goto(w, p)
    PROVE  /\ task' \in [Worker -> AllTasks]
           /\ task'[w] = [task[w] EXCEPT !.pc = p]
           /\ \A v \in Worker \ {w} : task'[v] = task[v]
  <1>1. task[w] \in AccountTask
    BY TaskKinds
  <1>2. [task[w] EXCEPT !.pc = p] \in AllTasks
    BY <1>1 DEF AllTasks, AccountTask
  <1>3. task' = [task EXCEPT ![w] = [task[w] EXCEPT !.pc = p]]
    BY DEF Goto, TypeOK
  <1> QED
    BY <1>2, <1>3, TaskType

\* Where an address request goes when its statement has failed.
LEMMA OnErrorKnown ==
    ASSUME TypeOK, NEW w \in Worker, OnError(w) # "idle"
    PROVE  /\ task[w].pc \in AddressPC
           /\ OnError(w) \in AddressPC
  BY DEF OnError, At, AddressPC, AddPC, ChangePC, RemovePC, CatchAllPC

\* A request begins: for an address,
LEMMA StartType ==
    ASSUME TypeOK, NEW w \in Worker, NEW p \in AddressPC,
           NEW op \in {"add", "change", "remove", "catchall"}, NEW u \in User,
           NEW old \in Alias, NEW new \in Alias, Start(w, p, op, u, old, new)
    PROVE  /\ task' \in [Worker -> AllTasks]
           /\ task'[w] = [pc |-> p, op |-> op, user |-> u, old |-> old, new |-> new,
                          id |-> 0, aceId |-> 0]
           /\ \A v \in Worker \ {w} : task'[v] = task[v]
  <1> DEFINE t == [pc |-> p, op |-> op, user |-> u, old |-> old, new |-> new,
                   id |-> 0, aceId |-> 0]
  <1>1. t \in AllTasks
    BY DEF AllTasks, AddressTask
  <1>2. task' = [task EXCEPT ![w] = t]
    BY DEF Start
  <1> HIDE DEF t
  <1>3. task'[w] = t /\ task' \in [Worker -> AllTasks]
        /\ \A v \in Worker \ {w} : task'[v] = task[v]
    BY <1>1, <1>2, TaskType
  <1> QED
    BY <1>3 DEF t

\* or for a forward.
LEMMA StartForwardType ==
    ASSUME TypeOK, NEW w \in Worker, NEW r \in ForwardRequest, StartForward(w, r)
    PROVE  /\ task' \in [Worker -> AllTasks]
           /\ task'[w] = [pc |-> "queryForwards", request |-> r, list |-> {}]
           /\ \A v \in Worker \ {w} : task'[v] = task[v]
  <1> DEFINE t == [pc |-> "queryForwards", request |-> r, list |-> {}]
  <1>1. t \in AllTasks
    BY DEF AllTasks, ForwardTask, ForwardPC, Dest
  <1>2. task' = [task EXCEPT ![w] = t]
    BY DEF StartForward
  <1> HIDE DEF t
  <1>3. task'[w] = t /\ task' \in [Worker -> AllTasks]
        /\ \A v \in Worker \ {w} : task'[v] = task[v]
    BY <1>1, <1>2, TaskType
  <1> QED
    BY <1>3 DEF t

\* The addresses that the requests are about.
LEMMA AddressType ==
    /\ \A l \in Local \cup {CatchAll}, d \in Domain : Address(l, d) \in Alias
    /\ \A a \in Alias : AceOf(a) \in Alias
    /\ CatchAllAddress \in Alias
  BY DEF Address, Alias, AceOf, CatchAllAddress, Domain

LEMMA AddressesOfType ==
    ASSUME TypeOK, NEW u, NEW a \in AddressesOf(u)
    PROVE  /\ a \in Alias
           /\ \E r \in virtual : r.alias = a /\ r.user = u /\ r.idn = 0
           /\ a.local # CatchAll
  BY DEF AddressesOf, RowsOf, TypeOK, VirtualRow

\* Statements on single rows.
LEMMA InsertType ==
    ASSUME TypeOK, NEW w \in Worker, task[w].pc \in AddressPC,
           NEW i \in Nat, NEW a \in Alias, InsertVirtual(w, i, a)
    PROVE  virtual' \subseteq VirtualRow /\ nextId' \in Nat
  <1>1. task[w].user \in User
    BY TaskKinds DEF AddressTask
  <1>2. NewRow(nextId, i, 0, a, task[w].user) \in VirtualRow
    BY <1>1 DEF NewRow, VirtualRow, TypeOK
  <1> QED
    BY <1>2 DEF InsertVirtual, TypeOK

LEMMA LinkType ==
    ASSUME TypeOK, NEW i \in Nat, NEW a \in Nat, UpdateAceID(i, a)
    PROVE  virtual' \subseteq VirtualRow
  <1>1. ASSUME NEW r \in virtual
        PROVE  [r EXCEPT !.ace = a] \in VirtualRow
    BY DEF TypeOK, VirtualRow
  <1> QED
    BY <1>1 DEF UpdateAceID, TypeOK

\* The transaction of updateEmail, whatever fails in it.
LEMMA ChangedType ==
    ASSUME TypeOK, NEW w \in Worker, NEW twin \in BOOLEAN, NEW link \in BOOLEAN,
           ChangeAddress(w, twin, link)
    PROVE  virtual' \subseteq VirtualRow /\ nextId' \in Nat
  <1> DEFINE t == task[w]
             wasIdn == t.aceId > 0
             aceId == CASE wasIdn /\ IsIdn(t.new) -> t.aceId
                        [] ~wasIdn /\ IsIdn(t.new) /\ twin -> nextId
                        [] OTHER -> 0
             Moved(r) == IF r.id = t.id
                         THEN [r EXCEPT !.alias = t.new, !.ace = IF link THEN aceId ELSE @]
                         ELSE IF twin /\ wasIdn /\ IsIdn(t.new) /\ r.id = t.aceId
                         THEN [r EXCEPT !.alias = AceOf(t.new)]
                         ELSE r
  <1>1. t \in AddressTask /\ t.new \in Alias /\ t.id \in Nat /\ t.aceId \in Nat
        /\ t.user \in User
    BY TaskKinds DEF ChangeAddress, At, AddressPC, ChangePC, AddressTask
  <1>2. aceId \in Nat /\ nextId \in Nat
    BY <1>1 DEF TypeOK
  <1> HIDE DEF aceId
  <1>3. ASSUME NEW r \in virtual
        PROVE  Moved(r) \in VirtualRow
    <2>1. r \in VirtualRow
      BY DEF TypeOK
    <2>2. AceOf(t.new) \in Alias
      BY <1>1, AddressType
    <2> QED
      BY <1>1, <1>2, <2>1, <2>2 DEF VirtualRow
  <1>4. NewRow(nextId, t.id, 0, AceOf(t.new), t.user) \in VirtualRow
    BY <1>1, <1>2, AddressType DEF NewRow, VirtualRow
  <1>5. {Moved(r) : r \in virtual} \subseteq VirtualRow
    BY <1>3
  <1>6. virtual' \subseteq {Moved(r) : r \in virtual}
                       \cup {NewRow(nextId, t.id, 0, AceOf(t.new), t.user)}
    BY DEF ChangeAddress, Changed, aceId
  <1>7. nextId' \in Nat
    BY <1>2 DEF ChangeAddress
  <1> QED
    BY <1>4, <1>5, <1>6, <1>7

\* Requests begin with what the forms send and the tables hold.
LEMMA BeginType ==
    ASSUME TypeOK, NEW w \in Worker, NEW u \in User, Begin(w, u)
    PROVE  /\ task' \in [Worker -> AllTasks]
           /\ \A v \in Worker \ {w} : task'[v] = task[v]
           /\ UNCHANGED <<accountuser, virtual, forwardRows, nextId, faults>>
  <1> DEFINE Kept == /\ task' \in [Worker -> AllTasks]
                     /\ \A v \in Worker \ {w} : task'[v] = task[v]
                     /\ UNCHANGED <<accountuser, virtual, forwardRows, nextId, faults>>
  <1> SUFFICES Kept
    OBVIOUS
  <1>1. CASE BeginRemoveAccount(w, u)
    <2>1. [pc |-> "removeVirtual", user |-> u] \in AllTasks
      BY DEF AllTasks, AccountTask, AccountPC
    <2> QED
      BY <1>1, <2>1, TaskType DEF BeginRemoveAccount
  <1>2. CASE BeginAdd(w, u)
    <2>1. "checkAddress" \in AddressPC
      BY DEF AddressPC
    <2> QED
      BY <1>2, <2>1, StartType, AddressType DEF BeginAdd
  <1>3. CASE BeginChange(w, u)
    <2>1. "checkAddress" \in AddressPC
      BY DEF AddressPC
    <2> QED
      BY <1>3, <2>1, StartType, AddressType, AddressesOfType DEF BeginChange
  <1>4. CASE BeginRemove(w, u)
    <2>1. "getAddress" \in AddressPC
      BY DEF AddressPC
    <2> QED
      BY <1>4, <2>1, StartType, AddressesOfType DEF BeginRemove
  <1>5. CASE BeginCatchAll(w, u)
    <2>1. {"removeCatchAll", "dropCatchAll"} \subseteq AddressPC
      BY DEF AddressPC, CatchAllPC
    <2>2. Address(CatchAll, Home) \in Alias
      BY AddressType DEF CatchAllAddress
    <2> QED
      BY <1>5, <2>1, <2>2, StartType DEF BeginCatchAll
  <1>6. CASE BeginAddForward(w, u)
    <2>1. PICK f \in Forward :
             StartForward(w, [op |-> "add", user |-> u, new |-> f])
      BY <1>6 DEF BeginAddForward
    <2>2. [op |-> "add", user |-> u, new |-> f] \in ForwardRequest
      BY DEF ForwardRequest
    <2> QED
      BY <2>1, <2>2, StartForwardType DEF StartForward
  <1>7. CASE BeginRemoveForward(w, u)
    <2>1. PICK f \in Forward :
             StartForward(w, [op |-> "remove", user |-> u, old |-> f])
      BY <1>7 DEF BeginRemoveForward
    <2>2. [op |-> "remove", user |-> u, old |-> f] \in ForwardRequest
      BY DEF ForwardRequest
    <2> QED
      BY <2>1, <2>2, StartForwardType DEF StartForward
  <1>8. CASE BeginEditForward(w, u)
    <2>1. PICK f \in Forward, g \in Forward :
             StartForward(w, [op |-> "edit", user |-> u, old |-> f, new |-> g])
      BY <1>8 DEF BeginEditForward
    <2>2. [op |-> "edit", user |-> u, old |-> f, new |-> g] \in ForwardRequest
      BY DEF ForwardRequest
    <2> QED
      BY <2>1, <2>2, StartForwardType DEF StartForward
  <1>9. CASE BeginKeepLocal(w, u)
    <2>1. PICK k \in BOOLEAN :
             StartForward(w, [op |-> "keep", user |-> u, keep |-> k])
      BY <1>9 DEF BeginKeepLocal
    <2>2. [op |-> "keep", user |-> u, keep |-> k] \in ForwardRequest
      BY DEF ForwardRequest
    <2> QED
      BY <2>1, <2>2, StartForwardType DEF StartForward
  <1> QED
    BY <1>1, <1>2, <1>3, <1>4, <1>5, <1>6, <1>7, <1>8, <1>9 DEF Begin

\* What the statements of a request leave in its worker, and that they leave
\* the other workers' requests alone.
LEMMA StepTasks ==
    ASSUME TypeOK, NEW w \in Worker, Step(w) \/ Failure(w)
    PROVE  /\ task' \in [Worker -> AllTasks]
           /\ \A v \in Worker \ {w} : task'[v] = task[v]
  <1> DEFINE Kept == /\ task' \in [Worker -> AllTasks]
                     /\ \A v \in Worker \ {w} : task'[v] = task[v]
  <1> SUFFICES Kept
    OBVIOUS
  <1>1. CASE Finish(w)
    BY <1>1, FinishType
  <1>2. CASE \E q \in AccountPC : task[w].pc \in AccountPC /\ Goto(w, q)
    BY <1>2, GotoAccount
  <1>3. CASE \E q \in AddressPC : task[w].pc \in AddressPC /\ Goto(w, q)
    BY <1>3, GotoAddress
  <1>4. ASSUME NEW t \in AllTasks, task' = [task EXCEPT ![w] = t]
        PROVE  Kept
    BY <1>4, TaskType
  <1>5. CASE RemoveVirtual(w) \/ RemoveForwards(w) \/ RemoveAccount(w)
    BY <1>1, <1>2, <1>5 DEF RemoveVirtual, RemoveForwards, RemoveAccount, At,
       AccountPC
  <1>6. CASE CheckAddress(w)
    BY <1>1, <1>3, <1>6 DEF CheckAddress, At, AddressPC, AddPC
  <1>7. CASE GetAddress(w)
    <2>1. CASE Finish(w)
      BY <1>1, <2>1
    <2>2. CASE ~Finish(w)
      <3> DEFINE q(r) == IF task[w].op = "change" THEN "changeAddress"
                         ELSE IF r.ace > 0 THEN "removeAce"
                         ELSE "removeAddress"
      <3>1. PICK r \in virtual : task' = [task EXCEPT ![w].pc = q(r),
                                     ![w].id = r.id, ![w].aceId = r.ace]
        BY <1>7, <2>2 DEF GetAddress
      <3>2. q(r) \in AddressPC /\ r.id \in Nat /\ r.ace \in Nat
            /\ task[w].pc \in AddressPC
        BY <1>7 DEF TypeOK, VirtualRow, AddressPC, ChangePC, RemovePC, GetAddress, At
      <3> HIDE DEF q
      <3>3. task' = [task EXCEPT ![w] =
                       [task[w] EXCEPT !.pc = q(r), !.id = r.id, !.aceId = r.ace]]
        BY <3>1 DEF TypeOK
      <3> QED
        BY <1>4, <3>2, <3>3, AddressNext
    <2> QED
      BY <2>1, <2>2
  <1>8. CASE InsertAddress(w) \/ InsertCatchAll(w)
    <2>1. CASE Finish(w)
      BY <1>1, <2>1
    <2>2. CASE ~Finish(w)
      <3>1. PICK q \in {"insertAce", "insertCatchAllAce"} :
               task' = [task EXCEPT ![w].pc = q, ![w].id = nextId]
        BY <1>8, <2>2 DEF InsertAddress, InsertCatchAll
      <3>2. task[w].pc \in AddressPC /\ q \in AddressPC
        BY <1>8 DEF InsertAddress, InsertCatchAll, At, AddressPC, AddPC, CatchAllPC
      <3>3. task[w].aceId \in Nat /\ nextId \in Nat /\ task[w] \in AddressTask
        BY <3>2, TaskKinds DEF AddressTask, TypeOK
      <3>4. task' = [task EXCEPT ![w] =
              [task[w] EXCEPT !.pc = q, !.id = nextId, !.aceId = task[w].aceId]]
        BY <3>1, <3>3 DEF TypeOK, AddressTask
      <3> QED
        BY <1>4, <3>2, <3>3, <3>4, AddressNext
    <2> QED
      BY <2>1, <2>2
  <1>9. CASE InsertAce(w) \/ InsertCatchAllAce(w)
    <2>1. PICK q \in {"linkAce", "linkCatchAll"} :
             task' = [task EXCEPT ![w].pc = q, ![w].aceId = nextId]
      BY <1>9 DEF InsertAce, InsertCatchAllAce
    <2>2. task[w].pc \in AddressPC /\ q \in AddressPC
      BY <1>9 DEF InsertAce, InsertCatchAllAce, At, AddressPC, AddPC, CatchAllPC
    <2>3. task[w].id \in Nat /\ nextId \in Nat /\ task[w] \in AddressTask
      BY <2>2, TaskKinds DEF AddressTask, TypeOK
    <2>4. task' = [task EXCEPT ![w] =
            [task[w] EXCEPT !.pc = q, !.id = task[w].id, !.aceId = nextId]]
      BY <2>1, <2>3 DEF TypeOK, AddressTask
    <2> QED
      BY <1>4, <2>2, <2>3, <2>4, AddressNext
  <1>10. CASE LinkAce(w) \/ UndoAce(w) \/ RemoveAddress(w) \/ ChangeAll(w)
                \/ LinkCatchAll(w) \/ UndoCatchAll(w) \/ RemoveCatchAllAce(w)
    BY <1>1, <1>10 DEF LinkAce, UndoAce, RemoveAddress, ChangeAll, ChangeAddress,
       LinkCatchAll, UndoCatchAll, RemoveCatchAllAce
  <1>11. CASE UndoAddress(w) \/ RemoveAce(w) \/ DropCatchAll(w) \/ RemoveCatchAll(w)
    BY <1>1, <1>3, <1>11 DEF UndoAddress, RemoveAce, DropCatchAll, RemoveCatchAll,
       At, AddressPC, AddPC, RemovePC, CatchAllPC
  <1>12. CASE QueryForwards(w)
    <2>1. CASE Finish(w)
      BY <1>1, <2>1
    <2>2. CASE ~Finish(w)
      <3> DEFINE list == ListOf(task[w].request.user)
      <3>1. task' = [task EXCEPT ![w].pc = "writeForwards", ![w].list = list]
        BY <1>12, <2>2 DEF QueryForwards
      <3>2. task[w] \in ForwardTask
        BY <1>12, TaskKinds DEF QueryForwards, At, ForwardPC
      <3>3. task[w].request.user \in User
        BY <3>2 DEF ForwardTask, ForwardRequest
      <3>4. list \in Dest
        BY <3>3 DEF TypeOK, ListOf, Dest
      <3> HIDE DEF list
      <3>5. [task[w] EXCEPT !.pc = "writeForwards", !.list = list] \in AllTasks
        BY <3>2, <3>4 DEF AllTasks, ForwardTask, ForwardPC
      <3>6. task' = [task EXCEPT ![w] =
                       [task[w] EXCEPT !.pc = "writeForwards", !.list = list]]
        BY <3>1, <3>2 DEF TypeOK
      <3> QED
        BY <1>4, <3>5, <3>6
    <2> QED
      BY <2>1, <2>2
  <1>13. CASE AddForward(w) \/ RemoveForward(w) \/ EditForward(w) \/ ChangeKeepLocal(w)
    BY <1>1, <1>13 DEF AddForward, RemoveForward, EditForward, ChangeKeepLocal, Writes
  <1>14. CASE Failure(w)
    BY <1>1, <1>3, <1>14, OnErrorKnown DEF Failure, StatementFails, TwinFails,
       ChangeAddress, Crash
  <1> QED
    BY <1>5, <1>6, <1>7, <1>8, <1>9, <1>10, <1>11, <1>12, <1>13, <1>14 DEF Step

\* The list that a request of this kind writes.
LEMMA RequestType ==
    ASSUME TypeOK, NEW w \in Worker, task[w].pc = "writeForwards"
    PROVE  LET r == task[w].request IN
           /\ task[w].list \in Dest
           /\ r.user \in User
           /\ r.op \in {"add", "edit"} => r.new \in Forward
           /\ r.op \in {"remove", "edit"} => r.old \in Forward
           /\ r.op = "keep" => r.keep \in BOOLEAN
  <1>1. task[w] \in ForwardTask
    BY TaskKinds DEF ForwardPC
  <1> QED
    BY <1>1 DEF ForwardTask, ForwardRequest

\* UPDATE and DELETE keep the rows of forwards well typed.
LEMMA UpdateForwardsType ==
    ASSUME TypeOK, NEW u \in User, NEW list \in Dest,
           UpdateForwards(u, list) \/ DeleteForwards(u)
                \/ forwardRows' = [forwardRows EXCEPT ![u] = Append(@, list)]
    PROVE  forwardRows' \in [User -> Seq(Dest)]
  <1>1. forwardRows \in [User -> Seq(Dest)] /\ forwardRows[u] \in Seq(Dest)
    BY DEF TypeOK
  <1>2. Append(forwardRows[u], list) \in Seq(Dest)
    BY <1>1
  <1>3. [i \in DOMAIN forwardRows[u] |-> list] \in Seq(Dest)
    <2>1. DOMAIN forwardRows[u] = 1 .. Len(forwardRows[u])
          /\ Len(forwardRows[u]) \in Nat
      BY <1>1
    <2> QED
      BY <2>1
  <1>4. << >> \in Seq(Dest)
    OBVIOUS
  <1>5. UpdateForwards(u, list) =>
           forwardRows' = [forwardRows EXCEPT ![u] =
                             [i \in DOMAIN forwardRows[u] |-> list]]
    BY DEF UpdateForwards
  <1>6. DeleteForwards(u) => forwardRows' = [forwardRows EXCEPT ![u] = << >>]
    BY DEF DeleteForwards
  <1> QED
    BY <1>1, <1>2, <1>3, <1>4, <1>5, <1>6

\* Statements keep the rows well typed.
LEMMA StepRows ==
    ASSUME TypeOK, NEW w \in Worker, Step(w) \/ Failure(w)
    PROVE  /\ virtual' \subseteq VirtualRow /\ nextId' \in Nat
           /\ forwardRows' \in [User -> Seq(Dest)]
           /\ accountuser' \subseteq accountuser
           /\ faults' \in Nat
  <1> DEFINE Small == faults' \in Nat /\ accountuser' \subseteq accountuser
  <1>1. Small
    <2>1. CASE RemoveVirtual(w) \/ RemoveForwards(w) \/ RemoveAccount(w)
      BY <2>1 DEF RemoveVirtual, RemoveForwards, RemoveAccount, TypeOK
    <2>2. CASE CheckAddress(w) \/ GetAddress(w) \/ QueryForwards(w)
      BY <2>2 DEF CheckAddress, GetAddress, QueryForwards, TypeOK
    <2>3. CASE InsertAddress(w) \/ InsertAce(w) \/ LinkAce(w) \/ UndoAddress(w)
                  \/ UndoAce(w) \/ RemoveAce(w) \/ RemoveAddress(w) \/ ChangeAll(w)
      BY <2>3 DEF InsertAddress, InsertAce, LinkAce, UndoAddress, UndoAce, RemoveAce,
         RemoveAddress, ChangeAll, ChangeAddress, TypeOK
    <2>4. CASE DropCatchAll(w) \/ InsertCatchAll(w) \/ InsertCatchAllAce(w)
                  \/ LinkCatchAll(w) \/ UndoCatchAll(w) \/ RemoveCatchAll(w)
                  \/ RemoveCatchAllAce(w)
      BY <2>4 DEF DropCatchAll, InsertCatchAll, InsertCatchAllAce, LinkCatchAll,
         UndoCatchAll, RemoveCatchAll, RemoveCatchAllAce, TypeOK
    <2>5. CASE AddForward(w) \/ RemoveForward(w) \/ EditForward(w) \/ ChangeKeepLocal(w)
      BY <2>5 DEF AddForward, RemoveForward, EditForward, ChangeKeepLocal, Writes, TypeOK
    <2>6. CASE Failure(w)
      <3>1. Fault /\ UNCHANGED accountuser
        BY <2>6 DEF Failure, StatementFails, TwinFails, Crash, ChangeAddress
      <3> QED
        BY <3>1 DEF Fault, TypeOK
    <2> QED
      BY <2>1, <2>2, <2>3, <2>4, <2>5, <2>6 DEF Step
  <1> DEFINE RowsKept == forwardRows' \in [User -> Seq(Dest)]
  <1>2. CASE UNCHANGED virtual /\ (Writes(w, "add") \/ Writes(w, "remove")
               \/ Writes(w, "edit") \/ Writes(w, "keep"))
             /\ (AddForward(w) \/ RemoveForward(w) \/ EditForward(w) \/ ChangeKeepLocal(w))
    <2> DEFINE r == task[w].request
    <2>1. /\ task[w].list \in Dest
          /\ r.user \in User
          /\ r.op \in {"add", "edit"} => r.new \in Forward
          /\ r.op \in {"remove", "edit"} => r.old \in Forward
      BY <1>2, RequestType DEF Writes, At
    <2> DEFINE kept == ForwardsIn(r.user, task[w].list)
    <2>2. task[w].list \cup {r.user} \in Dest /\ task[w].list \ {r.user} \in Dest
          /\ Joined(r.user, task[w].list, kept \ {r.old}) \in Dest
      BY <2>1 DEF Dest, Joined, ForwardsIn
    <2>3. r.op \in {"add", "edit"} =>
             /\ Joined(r.user, task[w].list, kept \cup {r.new}) \in Dest
             /\ Joined(r.user, task[w].list, (kept \ {r.old}) \cup {r.new}) \in Dest
      BY <2>1 DEF Dest, Joined, ForwardsIn
    <2> HIDE DEF kept
    <2>4. RowsKept /\ nextId' \in {nextId, nextId + 1}
      <3>1. CASE AddForward(w)
        BY <3>1, <2>1, <2>3, UpdateForwardsType DEF AddForward, Writes, kept
      <3>2. CASE RemoveForward(w)
        BY <3>2, <2>1, <2>2, UpdateForwardsType DEF RemoveForward, Writes, kept
      <3>3. CASE EditForward(w)
        BY <3>3, <2>1, <2>3, UpdateForwardsType DEF EditForward, Writes, kept
      <3>4. CASE ChangeKeepLocal(w)
        BY <3>4, <2>1, <2>2, UpdateForwardsType DEF ChangeKeepLocal, Writes
      <3> QED
        BY <1>2, <3>1, <3>2, <3>3, <3>4
    <2> QED
      BY <1>1, <1>2, <2>4 DEF TypeOK
  <1>3. CASE RemoveForwards(w)
    <2>1. task[w].user \in User
      BY <1>3, TaskKinds DEF RemoveForwards, At, AccountPC, AccountTask
    <2>2. {} \in Dest
      BY DEF Dest
    <2> QED
      BY <1>1, <1>3, <2>1, <2>2, UpdateForwardsType DEF RemoveForwards, TypeOK
  <1>4. CASE virtual' \subseteq virtual /\ UNCHANGED <<nextId, forwardRows>>
    BY <1>1, <1>4 DEF TypeOK
  <1>5. CASE InsertAddress(w) \/ InsertAce(w) \/ InsertCatchAll(w) \/ InsertCatchAllAce(w)
    <2>1. task[w].pc \in AddressPC
      BY <1>5 DEF InsertAddress, InsertAce, InsertCatchAll, InsertCatchAllAce, At,
         AddressPC, AddPC, CatchAllPC
    <2>2. task[w].new \in Alias /\ task[w].id \in Nat
      BY <2>1, TaskKinds DEF AddressTask
    <2>3. virtual' \subseteq VirtualRow /\ nextId' \in Nat
      BY <1>5, <2>1, <2>2, InsertType, AddressType DEF InsertAddress, InsertAce,
         InsertCatchAll, InsertCatchAllAce
    <2> QED
      BY <1>1, <1>5, <2>3 DEF InsertAddress, InsertAce, InsertCatchAll,
         InsertCatchAllAce, TypeOK
  <1>6. CASE LinkAce(w) \/ LinkCatchAll(w)
    <2>1. task[w].pc \in AddressPC
      BY <1>6 DEF LinkAce, LinkCatchAll, At, AddressPC, AddPC, CatchAllPC
    <2>2. task[w].id \in Nat /\ task[w].aceId \in Nat
      BY <2>1, TaskKinds DEF AddressTask
    <2> QED
      BY <1>1, <1>6, <2>2, LinkType DEF LinkAce, LinkCatchAll, TypeOK
  <1>7. CASE ChangeAll(w) \/ TwinFails(w)
    BY <1>1, <1>7, ChangedType DEF ChangeAll, TwinFails, ChangeAddress, TypeOK
  <1> QED
    BY <1>2, <1>3, <1>4, <1>5, <1>6, <1>7 DEF Step, Failure, StatementFails, Crash,
       RemoveVirtual, RemoveAccount, CheckAddress, GetAddress,
       UndoAddress, UndoAce, RemoveAce, RemoveAddress, DropCatchAll, UndoCatchAll,
       RemoveCatchAll, RemoveCatchAllAce, QueryForwards, RemoveVirtualByID, DeleteRows,
       AddForward, RemoveForward, EditForward, ChangeKeepLocal, Writes

\* An account begins with one address, in both forms if it has two.
LEMMA CreateRows ==
    ASSUME TypeOK, NEW w \in Worker, NEW u \in User, NEW l \in Local, CreateAccount(w, u, l)
    PROVE  virtual' \subseteq VirtualRow /\ nextId' \in Nat
  <1> DEFINE a == Address(l, Home)
  <1>1. a \in Alias /\ AceOf(a) \in Alias
    BY AddressType DEF Domain
  <1>2. nextId \in Nat /\ nextId + 1 \in Nat /\ nextId + 2 \in Nat
    BY DEF TypeOK
  <1>3. NewRow(nextId, 0, nextId + 1, a, u) \in VirtualRow
        /\ NewRow(nextId + 1, nextId, 0, AceOf(a), u) \in VirtualRow
        /\ NewRow(nextId, 0, 0, a, u) \in VirtualRow
    BY <1>1, <1>2 DEF NewRow, VirtualRow
  <1> QED
    BY <1>2, <1>3 DEF CreateAccount, TypeOK

\* Every step leaves the state well typed.
LEMMA TypeStep ==
    ASSUME TypeOK, [Next]_vars
    PROVE  TypeOK'
  <1>1. CASE UNCHANGED vars
    BY <1>1 DEF vars, TypeOK
  <1> SUFFICES ASSUME NEW w \in Worker,
                      \/ \E u \in User : Begin(w, u)
                      \/ \E u \in User, l \in Local : CreateAccount(w, u, l)
                      \/ Step(w) \/ Failure(w)
               PROVE  TypeOK'
    BY <1>1 DEF Next
  <1>2. CASE \E u \in User : Begin(w, u)
    BY <1>2, BeginType DEF TypeOK, AllTasks
  <1>3. CASE \E u \in User, l \in Local : CreateAccount(w, u, l)
    <2>1. virtual' \subseteq VirtualRow /\ nextId' \in Nat
      BY <1>3, CreateRows
    <2> QED
      BY <1>3, <2>1 DEF CreateAccount, TypeOK
  <1>4. CASE Step(w) \/ Failure(w)
    BY <1>4, StepTasks, StepRows DEF TypeOK, AllTasks
  <1> QED
    BY <1>2, <1>3, <1>4

\* Whatever requests are served, and however they fail and overlap, the tables
\* and the requests keep their types.
THEOREM TypesCorrect == Spec => []TypeOK
  <1>1. Init => TypeOK
    BY AddressAssumption DEF Init, TypeOK, Idle
  <1> QED
    BY <1>1, TypeStep, PTL DEF Spec

-----------------------------------------------------------------------------
(* Forwards *)

\* What a request knows of the forwards it has read stays true until it writes,
\* and a removal has deleted the forwards before it deletes the account.
ReadWell(t) ==
    /\ t.pc = "queryForwards" => t.request.user \in accountuser
    /\ t.pc = "writeForwards" =>
          /\ t.request.user \in accountuser
          /\ t.list = ListOf(t.request.user)
          /\ ~RefusesList(t.request, t.list)
    /\ t.pc = "removeAccount" => forwardRows[t.user] = << >>

ForwardsRead == \A w \in Worker : ReadWell(task[w])

\* The requests about addresses.
AddressStep(w) ==
    \/ CheckAddress(w) \/ GetAddress(w)
    \/ InsertAddress(w) \/ InsertAce(w) \/ LinkAce(w) \/ UndoAddress(w) \/ UndoAce(w)
    \/ RemoveAce(w) \/ RemoveAddress(w) \/ ChangeAll(w)
    \/ DropCatchAll(w) \/ InsertCatchAll(w) \/ InsertCatchAllAce(w) \/ LinkCatchAll(w)
    \/ UndoCatchAll(w) \/ RemoveCatchAll(w) \/ RemoveCatchAllAce(w)

ForwardWrite(w) ==
    AddForward(w) \/ RemoveForward(w) \/ EditForward(w) \/ ChangeKeepLocal(w)

\* EmailAddress::get() leaves a row it has found in the request.
FoundBy(w, r) ==
    /\ r.alias = task[w].old
    /\ task[w].op = "change" => task'[w].pc = "changeAddress"
    /\ task[w].op # "change" /\ r.ace > 0 => task'[w].pc = "removeAce"
    /\ task[w].op # "change" /\ ~(r.ace > 0) => task'[w].pc = "removeAddress"
    /\ task'[w].id = r.id /\ task'[w].aceId = r.ace
    /\ task'[w].op = task[w].op /\ task'[w].user = task[w].user
    /\ task'[w].old = task[w].old /\ task'[w].new = task[w].new

LEMMA GetEffect ==
    ASSUME TypeOK, NEW w \in Worker, GetAddress(w)
    PROVE  Finish(w) \/ \E r \in virtual : FoundBy(w, r)
  <1> DEFINE q(r) == IF task[w].op = "change" THEN "changeAddress"
                     ELSE IF r.ace > 0 THEN "removeAce"
                     ELSE "removeAddress"
  <1>5. CASE Finish(w)
    BY <1>5
  <1> SUFFICES ASSUME ~Finish(w)
               PROVE  Finish(w) \/ \E r \in virtual : FoundBy(w, r)
    BY <1>5
  <1>1. PICK r \in virtual :
           /\ r.alias = task[w].old
           /\ task' = [task EXCEPT ![w].pc = q(r), ![w].id = r.id, ![w].aceId = r.ace]
    BY DEF GetAddress
  <1>2. /\ task[w].op = "change" => q(r) = "changeAddress"
        /\ task[w].op # "change" /\ r.ace > 0 => q(r) = "removeAce"
        /\ task[w].op # "change" /\ ~(r.ace > 0) => q(r) = "removeAddress"
    OBVIOUS
  <1> HIDE DEF q
  <1>3. task[w] \in AddressTask
    BY TaskKinds DEF GetAddress, At, AddressPC
  <1>4. /\ task'[w].pc = q(r) /\ task'[w].id = r.id /\ task'[w].aceId = r.ace
        /\ task'[w].op = task[w].op /\ task'[w].user = task[w].user
        /\ task'[w].old = task[w].old /\ task'[w].new = task[w].new
    BY <1>1, <1>3 DEF TypeOK, AddressTask
  <1> QED
    BY <1>1, <1>2, <1>4 DEF FoundBy

\* They stay requests about addresses and leave the forwards alone.
LEMMA AddressQuiet ==
    ASSUME TypeOK, NEW w \in Worker, AddressStep(w) \/ TwinFails(w)
    PROVE  /\ task[w].pc \in AddressPC
           /\ task'[w].pc \in {"idle"} \cup AddressPC
           /\ UNCHANGED <<accountuser, forwardRows>>
  <1> DEFINE Quiet == /\ task[w].pc \in AddressPC
                      /\ task'[w].pc \in {"idle"} \cup AddressPC
                      /\ UNCHANGED <<accountuser, forwardRows>>
  <1> SUFFICES Quiet
    OBVIOUS
  <1>1. ASSUME Finish(w)
        PROVE  task'[w].pc \in {"idle"} \cup AddressPC
    BY <1>1, FinishType DEF Idle
  <1>2. ASSUME task[w].pc \in AddressPC, NEW q \in AddressPC,
               \/ Goto(w, q)
               \/ \E i : task' = [task EXCEPT ![w].pc = q, ![w].id = i]
               \/ \E a : task' = [task EXCEPT ![w].pc = q, ![w].aceId = a]
        PROVE  task'[w].pc \in {"idle"} \cup AddressPC
    <2>1. task[w] \in AddressTask
      BY <1>2, TaskKinds
    <2>2. CASE Goto(w, q)
      BY <2>1, <2>2 DEF Goto, TypeOK, AddressTask
    <2>3. ASSUME NEW i, task' = [task EXCEPT ![w].pc = q, ![w].id = i]
          PROVE  task'[w].pc = q
      BY <2>1, <2>3 DEF TypeOK, AddressTask
    <2>4. ASSUME NEW a, task' = [task EXCEPT ![w].pc = q, ![w].aceId = a]
          PROVE  task'[w].pc = q
      BY <2>1, <2>4 DEF TypeOK, AddressTask
    <2> QED
      BY <1>2, <2>2, <2>3, <2>4
  <1>3. CASE CheckAddress(w)
    <2>1. task[w].pc \in AddressPC /\ {"insertAddress", "getAddress"} \subseteq AddressPC
      BY <1>3 DEF CheckAddress, At, AddressPC, AddPC
    <2> QED
      BY <1>1, <1>2, <1>3, <2>1 DEF CheckAddress
  <1>4. CASE GetAddress(w)
    <2>1. task[w].pc \in AddressPC
          /\ {"changeAddress", "removeAce", "removeAddress"} \subseteq AddressPC
      BY <1>4 DEF GetAddress, At, AddressPC, ChangePC, RemovePC
    <2>2. CASE \E r \in virtual : FoundBy(w, r)
      BY <1>4, <2>1, <2>2 DEF FoundBy, GetAddress
    <2> QED
      BY <1>1, <1>4, <2>1, <2>2, GetEffect DEF GetAddress
  <1>5. CASE InsertAddress(w) \/ InsertAce(w) \/ InsertCatchAll(w) \/ InsertCatchAllAce(w)
    <2>1. task[w].pc \in AddressPC /\ {"insertAce", "linkAce", "insertCatchAllAce",
             "linkCatchAll"} \subseteq AddressPC
      BY <1>5 DEF InsertAddress, InsertAce, InsertCatchAll, InsertCatchAllAce, At,
         AddressPC, AddPC, CatchAllPC
    <2> QED
      BY <1>1, <1>2, <1>5, <2>1 DEF InsertAddress, InsertAce, InsertCatchAll,
         InsertCatchAllAce
  <1>6. CASE LinkAce(w) \/ UndoAddress(w) \/ UndoAce(w) \/ RemoveAce(w) \/ RemoveAddress(w)
    <2>1. task[w].pc \in AddressPC /\ {"undoAce", "removeAddress"} \subseteq AddressPC
      BY <1>6 DEF LinkAce, UndoAddress, UndoAce, RemoveAce, RemoveAddress, At,
         AddressPC, AddPC, RemovePC
    <2> QED
      BY <1>1, <1>2, <1>6, <2>1 DEF LinkAce, UndoAddress, UndoAce, RemoveAce, RemoveAddress
  <1>7. CASE ChangeAll(w) \/ TwinFails(w)
    <2>1. task[w].pc \in AddressPC
      BY <1>7 DEF ChangeAll, TwinFails, ChangeAddress, At, AddressPC, ChangePC
    <2> QED
      BY <1>1, <1>7, <2>1 DEF ChangeAll, TwinFails, ChangeAddress
  <1>8. CASE DropCatchAll(w) \/ LinkCatchAll(w) \/ UndoCatchAll(w) \/ RemoveCatchAll(w)
                \/ RemoveCatchAllAce(w)
    <2>1. task[w].pc \in AddressPC
          /\ {"insertCatchAll", "removeCatchAllAce"} \subseteq AddressPC
      BY <1>8 DEF DropCatchAll, LinkCatchAll, UndoCatchAll, RemoveCatchAll,
         RemoveCatchAllAce, At, AddressPC, CatchAllPC
    <2> QED
      BY <1>1, <1>2, <1>8, <2>1 DEF DropCatchAll, LinkCatchAll, UndoCatchAll,
         RemoveCatchAll, RemoveCatchAllAce
  <1> QED
    BY <1>3, <1>4, <1>5, <1>6, <1>7, <1>8 DEF AddressStep

\* A failure in the middle of a request: the request ends or undoes something.
LEMMA FailureQuiet ==
    ASSUME TypeOK, NEW w \in Worker, StatementFails(w) \/ Crash(w)
    PROVE  /\ \/ task'[w] = Idle
              \/ task[w].pc \in AddressPC /\ task'[w].pc \in AddressPC
           /\ UNCHANGED <<accountuser, virtual, forwardRows, nextId>>
  <1>1. CASE Finish(w)
    BY <1>1, FinishType DEF StatementFails, Crash
  <1>2. CASE OnError(w) # "idle" /\ Goto(w, OnError(w))
    <2>1. task[w].pc \in AddressPC /\ OnError(w) \in AddressPC
      BY <1>2, OnErrorKnown
    <2>2. task'[w] = [task[w] EXCEPT !.pc = OnError(w)] /\ task[w] \in AddressTask
      BY <1>2, <2>1, GotoAddress, TaskKinds
    <2>3. task'[w].pc = OnError(w)
      BY <2>2 DEF AddressTask
    <2> QED
      BY <2>1, <2>3 DEF StatementFails, Crash
  <1> QED
    BY <1>1, <1>2 DEF StatementFails, Crash

\* The list that a request leaves behind if it has read "list".
Written(r, list) ==
    IF r.op = "add" THEN list \cup {r.new}
    ELSE IF r.op = "remove" THEN (IF IsEmptied(ForwardsIn(r.user, list) \ {r.old}) THEN {}
                                  ELSE list \ {r.old})
    ELSE IF r.op = "edit" THEN (list \ {r.old}) \cup {r.new}
    ELSE IF list = {} THEN {}
    ELSE IF r.keep THEN list \cup {r.user}
    ELSE list \ {r.user}

\* A row of forwards, if there is one, has a forward.
LEMMA TidyRows ==
    ASSUME TypeOK, OneForwardRow, NEW u \in PlainUser
    PROVE  \/ forwardRows[u] = << >> /\ ListOf(u) = {}
           \/ /\ forwardRows[u] = <<ListOf(u)>>
              /\ ListOf(u) \in Dest /\ ~(ListOf(u) \subseteq {u})
              /\ u \in accountuser
  <1>1. CASE forwardRows[u] = << >>
    BY <1>1 DEF ListOf
  <1>2. CASE forwardRows[u] # << >>
    <2>1. /\ forwardRows[u] \in Seq(Dest) /\ Len(forwardRows[u]) = 1
          /\ ~(forwardRows[u][1] \subseteq {u}) /\ u \in accountuser
      BY <1>2 DEF TypeOK, OneForwardRow, PlainUser
    <2>2. ListOf(u) = forwardRows[u][1] /\ forwardRows[u][1] \in Dest
      BY <1>2, <2>1 DEF ListOf
    <2>3. forwardRows[u] = <<forwardRows[u][1]>>
      BY <2>1
    <2> QED
      BY <2>1, <2>2, <2>3
  <1> QED
    BY <1>1, <1>2

\* An UPDATE reaches the one row, if there is one.
LEMMA UpdateOne ==
    ASSUME TypeOK, OneForwardRow, NEW u \in PlainUser, NEW list \in Dest,
           UpdateForwards(u, list)
    PROVE  /\ forwardRows'[u] = IF ListOf(u) = {} THEN << >> ELSE <<list>>
           /\ \A x \in User \ {u} : forwardRows'[x] = forwardRows[x]
  <1>1. forwardRows \in [User -> Seq(Dest)]
    BY DEF TypeOK
  <1>2. forwardRows'[u] = [i \in DOMAIN forwardRows[u] |-> list]
        /\ \A x \in User \ {u} : forwardRows'[x] = forwardRows[x]
    BY <1>1 DEF UpdateForwards, PlainUser
  <1>3. CASE forwardRows[u] = << >> /\ ListOf(u) = {}
    BY <1>2, <1>3
  <1>4. CASE forwardRows[u] = <<ListOf(u)>> /\ ~(ListOf(u) \subseteq {u})
    <2>1. ListOf(u) # {}
      BY <1>4
    <2>2. DOMAIN forwardRows[u] = {1}
      BY <1>4
    <2>3. [i \in {1} |-> list] = <<list>>
      OBVIOUS
    <2> QED
      BY <1>2, <2>1, <2>2, <2>3
  <1> QED
    BY <1>3, <1>4, TidyRows

\* Writing a list touches no row of another account.
LEMMA WriteOthers ==
    ASSUME TypeOK, NEW w \in Worker, ForwardWrite(w)
    PROVE  /\ task[w].pc = "writeForwards" /\ task[w] \in ForwardTask
           /\ task'[w] = Idle /\ UNCHANGED <<accountuser, virtual, faults>>
           /\ task[w].request.user \in User
           /\ \A x \in User \ {task[w].request.user} : forwardRows'[x] = forwardRows[x]
  <1> DEFINE u == task[w].request.user
  <1>1. /\ task[w].pc = "writeForwards" /\ task[w] \in ForwardTask
        /\ task'[w] = Idle /\ UNCHANGED <<accountuser, virtual, faults>>
    BY TaskKinds, FinishType DEF ForwardWrite, AddForward, RemoveForward, EditForward,
       ChangeKeepLocal, Writes, At, ForwardPC
  <1>2. u \in User
    BY <1>1, RequestType
  <1>3. forwardRows \in [User -> Seq(Dest)]
    BY DEF TypeOK
  <1>4. \E rows : forwardRows' = [forwardRows EXCEPT ![u] = rows]
    BY DEF ForwardWrite, AddForward, RemoveForward, EditForward, ChangeKeepLocal,
       UpdateForwards, DeleteForwards
  <1> QED
    BY <1>1, <1>2, <1>3, <1>4

\* Reading, changing and writing a list without another request in between:
\* the row that results, whatever the request is, if the name of the account is
\* no forward.
LEMMA WriteEffect ==
    ASSUME TypeOK, OneForwardRow, NEW w \in Worker, ReadWell(task[w]), ForwardWrite(w),
           task[w].request.user \in PlainUser
    PROVE  LET r == task[w].request
               L == Written(r, ListOf(r.user))
           IN  /\ ~RefusesList(r, ListOf(r.user))
               /\ r.user \in accountuser
               /\ \/ L = {} /\ forwardRows'[r.user] = << >>
                  \/ /\ forwardRows'[r.user] = <<L>>
                     /\ L \in Dest /\ ~(L \subseteq {r.user})
  <1> DEFINE r == task[w].request
             u == r.user
             list == ListOf(u)
             kept == ForwardsIn(u, list)
             L == Written(r, list)
             Wrote == \/ L = {} /\ forwardRows'[u] = << >>
                      \/ /\ forwardRows'[u] = <<L>>
                         /\ L \in Dest /\ ~(L \subseteq {u})
  <1>1. task[w].pc = "writeForwards" /\ task[w] \in ForwardTask
    BY WriteOthers
  <1>2. task[w].list = list /\ u \in accountuser /\ ~RefusesList(r, list)
    BY <1>1 DEF ReadWell
  <1>3. u \in PlainUser /\ u \in User /\ u \notin Forward /\ list \in Dest
        /\ (r.op \in {"add", "edit"} => r.new \in Forward /\ r.new # u)
        /\ (r.op \in {"remove", "edit"} => r.old \in Forward /\ r.old # u)
        /\ (r.op = "keep" => r.keep \in BOOLEAN)
    BY <1>1, <1>2, RequestType DEF PlainUser
  <1>4. forwardRows \in [User -> Seq(Dest)]
    BY DEF TypeOK
  <1>5. \/ forwardRows[u] = << >> /\ list = {}
        \/ forwardRows[u] = <<list>> /\ ~(list \subseteq {u})
    BY <1>3, TidyRows
  <1>6. kept = list \ {u} /\ \A forwards : Joined(u, list, forwards) = forwards \cup (list \cap {u})
    BY DEF ForwardsIn, Joined
  <1> HIDE DEF kept
  <1>7. list \subseteq Forward \cup User
    BY <1>3 DEF Dest
  <1>8. r.op = "edit" => \E g \in list : g \in Forward
    BY <1>2 DEF RefusesList, Contains, ForwardsIn
  <1>9. ASSUME AddForward(w) PROVE Wrote
    <2>1. r.op = "add" /\ L = list \cup {r.new}
      BY <1>9 DEF AddForward, Writes, Written
    <2>2. L \in Dest /\ ~(L \subseteq {u})
      BY <1>3, <2>1 DEF Dest
    <2>3. Joined(u, list, kept \cup {r.new}) = L
      BY <1>6, <2>1
    <2>4. CASE kept = {}
      <3>1. forwardRows[u] = << >>
        BY <1>5, <1>6, <2>4
      <3>2. forwardRows' = [forwardRows EXCEPT ![u] = Append(@, L)]
        BY <1>2, <1>9, <2>3, <2>4 DEF AddForward, kept
      <3>3. Append(<< >>, L) = <<L>>
        OBVIOUS
      <3> QED
        BY <1>3, <1>4, <2>2, <3>1, <3>2, <3>3
    <2>5. CASE kept # {}
      <3>1. UpdateForwards(u, L)
        BY <1>2, <1>9, <2>3, <2>5 DEF AddForward, kept
      <3>2. list # {}
        BY <1>6, <2>5
      <3> QED
        BY <1>3, <2>2, <3>1, <3>2, UpdateOne
    <2> QED
      BY <2>4, <2>5
  <1>10. ASSUME RemoveForward(w) PROVE Wrote
    <2>1. r.op = "remove" /\ L = IF IsEmptied(kept \ {r.old}) THEN {} ELSE list \ {r.old}
      BY <1>10 DEF RemoveForward, Writes, Written, kept
    <2>2. CASE IsEmptied(kept \ {r.old})
      <3>1. DeleteForwards(u) /\ L = {}
        BY <1>2, <1>10, <2>1, <2>2 DEF RemoveForward, kept
      <3> QED
        BY <1>3, <1>4, <3>1 DEF DeleteForwards
    <2>3. CASE ~IsEmptied(kept \ {r.old})
      <3>1. Joined(u, list, kept \ {r.old}) = list \ {r.old} /\ L = list \ {r.old}
        BY <1>3, <1>6, <2>1, <2>3
      <3>2. UpdateForwards(u, L)
        BY <1>2, <1>10, <2>3, <3>1 DEF RemoveForward, kept
      <3>3. L \in Dest /\ ~(L \subseteq {u}) /\ list # {}
        BY <1>3, <1>6, <2>3, <3>1 DEF Dest, IsEmptied
      <3> QED
        BY <1>3, <3>2, <3>3, UpdateOne
    <2> QED
      BY <2>2, <2>3
  <1>11. ASSUME EditForward(w) PROVE Wrote
    <2>1. r.op = "edit" /\ L = (list \ {r.old}) \cup {r.new}
      BY <1>11 DEF EditForward, Writes, Written
    <2>2. Joined(u, list, (kept \ {r.old}) \cup {r.new}) = L
      BY <1>3, <1>6, <2>1
    <2>3. UpdateForwards(u, L)
      BY <1>2, <1>11, <2>2 DEF EditForward, kept
    <2>4. L \in Dest /\ ~(L \subseteq {u}) /\ list # {}
      BY <1>3, <1>8, <2>1 DEF Dest
    <2> QED
      BY <1>3, <2>3, <2>4, UpdateOne
  <1>12. ASSUME ChangeKeepLocal(w) PROVE Wrote
    <2> DEFINE K == IF r.keep THEN list \cup {u} ELSE list \ {u}
    <2>1. r.op = "keep" /\ L = IF list = {} THEN {} ELSE K
      BY <1>12 DEF ChangeKeepLocal, Writes, Written
    <2>2. UpdateForwards(u, K) /\ K \in Dest
      BY <1>2, <1>3, <1>12 DEF ChangeKeepLocal, Dest
    <2>3. list # {} => ~(K \subseteq {u})
      BY <1>5
    <2> HIDE DEF K
    <2>4. forwardRows'[u] = (IF list = {} THEN << >> ELSE <<K>>)
      BY <1>3, <2>2, UpdateOne
    <2> QED
      BY <2>1, <2>2, <2>3, <2>4
  <1>13. Wrote
    BY <1>9, <1>10, <1>11, <1>12 DEF ForwardWrite
  <1> QED
    BY <1>2, <1>13

\* A request that begins has read nothing yet, of an account that exists.
LEMMA BeginQuiet ==
    ASSUME TypeOK, NEW w \in Worker, NEW u \in User, Begin(w, u)
    PROVE  /\ At(w, "idle")
           /\ task'[w].pc \in {"removeVirtual", "queryForwards"} \cup AddressPC
           /\ task'[w].pc = "queryForwards" => task'[w].request.user \in accountuser
           /\ UNCHANGED <<accountuser, virtual, forwardRows, nextId, faults>>
  <1>1. CASE BeginRemoveAccount(w, u)
    BY <1>1 DEF BeginRemoveAccount, TypeOK
  <1>2. CASE BeginAdd(w, u) \/ BeginChange(w, u) \/ BeginRemove(w, u) \/ BeginCatchAll(w, u)
    <2>1. {"checkAddress", "getAddress", "dropCatchAll", "removeCatchAll"} \subseteq AddressPC
          /\ "queryForwards" \notin AddressPC
      BY DEF AddressPC, AddPC, ChangePC, RemovePC, CatchAllPC
    <2>2. ASSUME NEW p \in AddressPC, NEW op, NEW old, NEW new, Start(w, p, op, u, old, new)
          PROVE  task'[w].pc \in AddressPC
      BY <2>2 DEF Start, TypeOK
    <2>3. CASE BeginAdd(w, u)
      BY <2>1, <2>2, <2>3 DEF BeginAdd, CanStart
    <2>4. CASE BeginChange(w, u)
      BY <2>1, <2>2, <2>4 DEF BeginChange, CanStart
    <2>5. CASE BeginRemove(w, u)
      BY <2>1, <2>2, <2>5 DEF BeginRemove
    <2>6. CASE BeginCatchAll(w, u)
      BY <2>1, <2>2, <2>6 DEF BeginCatchAll, CanStart
    <2> QED
      BY <1>2, <2>1, <2>3, <2>4, <2>5, <2>6
  <1>3. CASE BeginAddForward(w, u) \/ BeginRemoveForward(w, u)
             \/ BeginEditForward(w, u) \/ BeginKeepLocal(w, u)
    <2>1. ASSUME NEW r, r.user = u, Editable(u), StartForward(w, r)
          PROVE  /\ At(w, "idle") /\ task'[w].pc = "queryForwards"
                 /\ task'[w].request.user \in accountuser
                 /\ UNCHANGED <<accountuser, virtual, forwardRows, nextId, faults>>
      BY <2>1 DEF StartForward, Editable, TypeOK
    <2> QED
      BY <1>3, <2>1 DEF BeginAddForward, BeginRemoveForward, BeginEditForward, BeginKeepLocal
  <1> QED
    BY <1>1, <1>2, <1>3 DEF Begin

\* Reading leaves the list in the request, or refuses.
LEMMA QueryEffect ==
    ASSUME TypeOK, NEW w \in Worker, QueryForwards(w)
    PROVE  LET r == task[w].request
           IN  /\ task[w].pc = "queryForwards"
               /\ \/ task'[w] = Idle
                  \/ /\ task'[w].pc = "writeForwards" /\ task'[w].request = r
                     /\ task'[w].list = ListOf(r.user)
                     /\ ~RefusesList(r, ListOf(r.user))
               /\ UNCHANGED <<accountuser, virtual, forwardRows, nextId, faults>>
  <1>1. task[w] \in ForwardTask
    BY TaskKinds DEF QueryForwards, At, ForwardPC
  <1>2. CASE Finish(w)
    BY <1>2, FinishType DEF QueryForwards, At
  <1>3. CASE ~RefusesList(task[w].request, ListOf(task[w].request.user))
    BY <1>1, <1>3 DEF QueryForwards, At, TypeOK, ForwardTask
  <1> QED
    BY <1>2, <1>3 DEF QueryForwards

\* The removal of an account: addresses, forwards, account.
LEMMA RemovalEffect ==
    ASSUME TypeOK, NEW w \in Worker
    PROVE  /\ RemoveVirtual(w) =>
                /\ task[w].pc = "removeVirtual" /\ task[w] \in AccountTask
                /\ task'[w].pc = "removeForwards" /\ task'[w].user = task[w].user
                /\ UNCHANGED <<accountuser, forwardRows>>
           /\ RemoveForwards(w) =>
                /\ task[w].pc = "removeForwards" /\ task[w] \in AccountTask
                /\ task'[w].pc = "removeAccount" /\ task'[w].user = task[w].user
                /\ forwardRows'[task[w].user] = << >>
                /\ \A x \in User \ {task[w].user} : forwardRows'[x] = forwardRows[x]
                /\ UNCHANGED accountuser
           /\ RemoveAccount(w) =>
                /\ task[w].pc = "removeAccount" /\ task[w] \in AccountTask
                /\ task'[w] = Idle
                /\ accountuser' = accountuser \ {task[w].user}
                /\ UNCHANGED forwardRows
  <1>1. ASSUME task[w].pc \in AccountPC
        PROVE  task[w] \in AccountTask
    BY <1>1, TaskKinds
  <1>2. CASE RemoveVirtual(w)
    <2>1. task[w] \in AccountTask
      BY <1>1, <1>2 DEF RemoveVirtual, At, AccountPC
    <2> QED
      BY <1>2, <2>1 DEF RemoveVirtual, RemoveForwards, RemoveAccount, At, Goto, TypeOK,
         AccountTask
  <1>3. CASE RemoveForwards(w)
    <2>1. task[w] \in AccountTask
      BY <1>1, <1>3 DEF RemoveForwards, At, AccountPC
    <2> QED
      BY <1>3, <2>1 DEF RemoveVirtual, RemoveForwards, RemoveAccount, DeleteForwards, At,
         Goto, TypeOK, AccountTask
  <1>4. CASE RemoveAccount(w)
    <2>1. task[w] \in AccountTask
      BY <1>1, <1>4 DEF RemoveAccount, At, AccountPC
    <2> QED
      BY <1>4, <2>1, FinishType DEF RemoveVirtual, RemoveForwards, RemoveAccount, At
  <1> QED
    BY <1>2, <1>3, <1>4

\* The other requests about forwards, if there were any, would not be asked:
\* with one worker, what a request has read is still true when it writes.
LEMMA ForwardsStep ==
    ASSUME NEW w0, Worker = {w0}, TypeOK, OneForwardRow, ForwardsRead, [Next]_vars
    PROVE  OneForwardRow' /\ ForwardsRead'
  <1>1. CASE UNCHANGED vars
    BY <1>1 DEF vars, OneForwardRow, ForwardsRead, ReadWell, ListOf, RefusesList
  <1> SUFFICES ASSUME NEW w \in Worker,
                      \/ \E u \in User : Begin(w, u)
                      \/ \E u \in User, l \in Local : CreateAccount(w, u, l)
                      \/ Step(w) \/ Failure(w)
               PROVE  OneForwardRow' /\ ForwardsRead'
    BY <1>1 DEF Next
  <1>2. ASSUME ReadWell(task[w])'
        PROVE  ForwardsRead'
    BY <1>2 DEF ForwardsRead
  <1>3. ReadWell(task[w])
    BY DEF ForwardsRead
  <1>4. {"queryForwards", "writeForwards", "removeAccount", "removeVirtual",
         "removeForwards", "idle"} \cap AddressPC = {}
    BY DEF AddressPC, AddPC, ChangePC, RemovePC, CatchAllPC
  <1>5. ASSUME UNCHANGED <<accountuser, forwardRows>>
        PROVE  OneForwardRow'
    BY <1>5 DEF OneForwardRow
  <1>6. ASSUME task'[w].pc \notin {"queryForwards", "writeForwards", "removeAccount"}
        PROVE  ReadWell(task[w])'
    BY <1>6 DEF ReadWell
  <1>7. CASE \E u \in User : Begin(w, u)
    <2>1. ReadWell(task[w])'
      BY <1>4, <1>7, BeginQuiet DEF ReadWell
    <2> QED
      BY <1>2, <1>5, <1>7, <2>1, BeginQuiet
  <1>8. CASE \E u \in User, l \in Local : CreateAccount(w, u, l)
    <2>1. accountuser \subseteq accountuser' /\ UNCHANGED <<forwardRows, task>>
          /\ task[w].pc = "idle"
      BY <1>8 DEF CreateAccount, CanStart, At
    <2> QED
      BY <1>2, <1>6, <2>1 DEF OneForwardRow
  <1>9. CASE RemoveVirtual(w) \/ RemoveForwards(w) \/ RemoveAccount(w)
    <2>1. OneForwardRow'
      BY <1>3, <1>9, RemovalEffect DEF OneForwardRow, ReadWell
    <2>2. ReadWell(task[w])'
      BY <1>9, RemovalEffect DEF ReadWell, Idle
    <2> QED
      BY <1>2, <2>1, <2>2
  <1>10. CASE AddressStep(w) \/ TwinFails(w)
    BY <1>2, <1>4, <1>5, <1>6, <1>10, AddressQuiet
  <1>11. CASE StatementFails(w) \/ Crash(w)
    <2>1. task'[w].pc \notin {"queryForwards", "writeForwards", "removeAccount"}
      BY <1>4, <1>11, FailureQuiet DEF Idle
    <2> QED
      BY <1>2, <1>5, <1>6, <1>11, <2>1, FailureQuiet
  <1>12. CASE QueryForwards(w)
    <2>1. ReadWell(task[w])'
      BY <1>3, <1>12, QueryEffect DEF ReadWell, Idle, ListOf, RefusesList
    <2> QED
      BY <1>2, <1>5, <1>12, <2>1, QueryEffect
  <1>13. CASE ForwardWrite(w)
    <2> DEFINE v == task[w].request.user
               L == Written(task[w].request, ListOf(v))
    <2>1. /\ task[w].pc = "writeForwards" /\ task'[w] = Idle
          /\ UNCHANGED accountuser /\ v \in User
          /\ \A x \in User \ {v} : forwardRows'[x] = forwardRows[x]
      BY <1>13, WriteOthers
    <2>2. v \in accountuser
      BY <1>3, <2>1 DEF ReadWell
    <2>3. v \in PlainUser => \/ forwardRows'[v] = << >>
                            \/ /\ forwardRows'[v] = <<L>>
                               /\ ~(L \subseteq {v})
      BY <1>3, <1>13, WriteEffect
    <2> HIDE DEF L
    <2>4. ASSUME NEW u \in User, forwardRows'[u] # << >>
          PROVE  /\ u \in accountuser'
                 /\ u \in PlainUser => /\ Len(forwardRows'[u]) = 1
                                       /\ ~(forwardRows'[u][1] \subseteq {u})
      <3>1. CASE u = v
        <4>1. Len(<<L>>) = 1 /\ <<L>>[1] = L
          OBVIOUS
        <4> QED
          BY <2>1, <2>2, <2>3, <2>4, <3>1, <4>1
      <3>2. CASE u # v
        BY <2>1, <2>4, <3>2 DEF OneForwardRow
      <3> QED
        BY <3>1, <3>2
    <2>5. OneForwardRow'
      BY <2>4 DEF OneForwardRow
    <2> QED
      BY <1>2, <1>6, <2>1, <2>5 DEF Idle
  <1>14. Step(w) => \/ RemoveVirtual(w) \/ RemoveForwards(w) \/ RemoveAccount(w)
                    \/ AddressStep(w) \/ QueryForwards(w) \/ ForwardWrite(w)
    BY DEF Step, AddressStep, ForwardWrite
  <1>15. Failure(w) => TwinFails(w) \/ StatementFails(w) \/ Crash(w)
    BY DEF Failure
  <1> QED
    BY <1>7, <1>8, <1>9, <1>10, <1>11, <1>12, <1>13, <1>14, <1>15

\* What addForward and removeForward rely on is true when requests do not
\* overlap: no row of forwards outlives its account, and an account whose name is
\* not an address that mail can be forwarded to has at most one row, which has a
\* forward, whatever fails in between.
THEOREM OneRow ==
    ASSUME NEW w0, Worker = {w0}
    PROVE  Spec => []OneForwardRow
  <1>1. Init => TypeOK /\ OneForwardRow /\ ForwardsRead
    BY AddressAssumption DEF Init, TypeOK, OneForwardRow, ForwardsRead, ReadWell, Idle
  <1>2. TypeOK /\ OneForwardRow /\ ForwardsRead /\ [Next]_vars
            => (TypeOK /\ OneForwardRow /\ ForwardsRead)'
    BY TypeStep, ForwardsStep
  <1> QED
    BY <1>1, <1>2, PTL DEF Spec

-----------------------------------------------------------------------------
(* The forwards as an administrator sees them *)

\* The lists of an account name forwards and the account.
OwnNames == \A u \in PlainUser : ListOf(u) \subseteq Forward \cup {u}

\* The lists that a write leaves.
LEMMA WrittenList ==
    ASSUME TypeOK, OneForwardRow, NEW w \in Worker, ReadWell(task[w]), ForwardWrite(w),
           NEW u \in PlainUser
    PROVE  LET r == task[w].request
           IN  ListOf(u)' = IF u = r.user THEN Written(r, ListOf(u)) ELSE ListOf(u)
  <1> DEFINE r == task[w].request
             L == Written(r, ListOf(r.user))
  <1>1. /\ \A x \in User \ {r.user} : forwardRows'[x] = forwardRows[x]
        /\ u \in User
    BY WriteOthers DEF PlainUser
  <1>2. u = r.user => L = Written(r, ListOf(u))
    OBVIOUS
  <1>3. u = r.user => \/ L = {} /\ forwardRows'[u] = << >>
                      \/ forwardRows'[u] = <<L>>
    BY WriteEffect
  <1> HIDE DEF L
  <1>4. <<L>> # << >> /\ Head(<<L>>) = L
    OBVIOUS
  <1>5. CASE u = r.user
    BY <1>2, <1>3, <1>4, <1>5 DEF ListOf
  <1>6. CASE u # r.user
    BY <1>1, <1>6 DEF ListOf
  <1> QED
    BY <1>5, <1>6

\* The forwards, or the rows of them, change in two ways only.
LEMMA ForwardRowsChange ==
    ASSUME TypeOK, [Next]_vars, ~UNCHANGED forwardRows
    PROVE  \E w \in Worker : RemoveForwards(w) \/ ForwardWrite(w)
  <1> SUFFICES ASSUME NEW w \in Worker,
                      \/ \E u \in User : Begin(w, u)
                      \/ \E u \in User, l \in Local : CreateAccount(w, u, l)
                      \/ Step(w) \/ Failure(w)
               PROVE  RemoveForwards(w) \/ ForwardWrite(w)
    BY DEF Next, vars
  <1>1. CASE \E u \in User : Begin(w, u)
    BY <1>1, BeginQuiet
  <1>2. CASE \E u \in User, l \in Local : CreateAccount(w, u, l)
    BY <1>2 DEF CreateAccount
  <1>3. CASE AddressStep(w) \/ TwinFails(w)
    BY <1>3, AddressQuiet
  <1>4. CASE StatementFails(w) \/ Crash(w)
    BY <1>4, FailureQuiet
  <1>5. CASE RemoveVirtual(w) \/ RemoveAccount(w)
    BY <1>5, RemovalEffect
  <1>6. CASE QueryForwards(w)
    BY <1>6, QueryEffect
  <1>7. Step(w) => \/ RemoveVirtual(w) \/ RemoveForwards(w) \/ RemoveAccount(w)
                   \/ AddressStep(w) \/ QueryForwards(w) \/ ForwardWrite(w)
    BY DEF Step, AddressStep, ForwardWrite
  <1>8. Failure(w) => TwinFails(w) \/ StatementFails(w) \/ Crash(w)
    BY DEF Failure
  <1> QED
    BY <1>1, <1>2, <1>3, <1>4, <1>5, <1>6, <1>7, <1>8

LEMMA OwnNamesStep ==
    ASSUME TypeOK, OneForwardRow, ForwardsRead, OwnNames, [Next]_vars
    PROVE  OwnNames'
  <1>1. CASE UNCHANGED forwardRows
    BY <1>1 DEF OwnNames, ListOf
  <1>2. ASSUME NEW w \in Worker, RemoveForwards(w)
        PROVE  OwnNames'
    <2>1. /\ forwardRows'[task[w].user] = << >>
          /\ \A x \in User \ {task[w].user} : forwardRows'[x] = forwardRows[x]
      BY <1>2, RemovalEffect
    <2> QED
      BY <2>1 DEF OwnNames, ListOf, PlainUser
  <1>3. ASSUME NEW w \in Worker, ForwardWrite(w)
        PROVE  OwnNames'
    <2> DEFINE r == task[w].request
    <2>1. r \in ForwardRequest
      BY <1>3, WriteOthers DEF ForwardTask
    <2>2. /\ r.op \in {"add", "remove", "edit", "keep"}
          /\ r.op \in {"add", "edit"} => r.new \in Forward
      BY <2>1 DEF ForwardRequest
    <2>3. ASSUME NEW u \in PlainUser
          PROVE  ListOf(u)' \subseteq Forward \cup {u}
      <3>1. ListOf(u) \subseteq Forward \cup {u}
        BY DEF OwnNames
      <3>2. u = r.user => Written(r, ListOf(u)) \subseteq Forward \cup {u}
        BY <2>2, <3>1 DEF Written
      <3>3. ListOf(u)' = IF u = r.user THEN Written(r, ListOf(u)) ELSE ListOf(u)
        BY <1>3, WrittenList DEF ForwardsRead
      <3> QED
        BY <3>1, <3>2, <3>3
    <2> QED
      BY <2>3 DEF OwnNames
  <1> QED
    BY <1>1, <1>2, <1>3, ForwardRowsChange

\* What a request of the only worker asks for.
LEMMA AskedKnown ==
    ASSUME NEW t
    PROVE  /\ t.pc \in ForwardPC =>
                  AskedOf(t) = IF t.request.user \in PlainUser THEN t.request
                               ELSE Lists!NoRequest
           /\ t.pc \in {"removeVirtual", "removeForwards"} =>
                  AskedOf(t) = IF t.user \in PlainUser THEN [op |-> "clear", user |-> t.user]
                               ELSE Lists!NoRequest
           /\ t.pc \notin ForwardPC \cup {"removeVirtual", "removeForwards"} =>
                  AskedOf(t) = Lists!NoRequest
  BY DEF AskedOf, ForwardPC, Lists!NoRequest

\* The lists of the accounts whose name is no forward stay.
LEMMA ListsSame ==
    ASSUME \A u \in PlainUser : ListOf(u)' = ListOf(u)
    PROVE  /\ [u \in PlainUser |-> ForwardsIn(u, ListOf(u))]'
                 = [u \in PlainUser |-> ForwardsIn(u, ListOf(u))]
           /\ {u \in PlainUser : u \in ListOf(u)}' = {u \in PlainUser : u \in ListOf(u)}
  BY DEF ForwardsIn

\* Nothing happens to the lists, and the request goes on as it is.
LEMMA ListsStutter ==
    ASSUME NEW w0, Worker = {w0}, \A u \in PlainUser : ListOf(u)' = ListOf(u),
           AskedOf(task'[w0]) = AskedOf(task[w0])
    PROVE  UNCHANGED Lists!vars
  <1>1. \A w \in Worker : AskedOf(task'[w]) = AskedOf(task[w])
    OBVIOUS
  <1> QED
    BY <1>1, ListsSame DEF Lists!vars, AskedOf

\* Nothing happens to the lists, and the request is over.
LEMMA ListsDecline ==
    ASSUME NEW w0, Worker = {w0}, \A u \in PlainUser : ListOf(u)' = ListOf(u),
           AskedOf(task'[w0]) = Lists!NoRequest
    PROVE  Lists!Next
  <1>1. Lists!Answered(w0)
    BY DEF Lists!Answered, AskedOf
  <1>2. Lists!Decline(w0)
    BY <1>1, ListsSame DEF Lists!Decline
  <1> QED
    BY <1>2 DEF Lists!Next

\* The lists stay if the rows do.
LEMMA RowsSame ==
    ASSUME UNCHANGED forwardRows
    PROVE  \A u \in PlainUser : ListOf(u)' = ListOf(u)
  BY DEF ListOf

\* A request is asked.
LEMMA ListsAsk ==
    ASSUME NEW w0, Worker = {w0}, UNCHANGED forwardRows,
           AskedOf(task[w0]) = Lists!NoRequest, AskedOf(task'[w0]) \in Lists!Request
    PROVE  Lists!Next
  <1>1. \A u \in PlainUser : ListOf(u)' = ListOf(u)
    BY RowsSame
  <1>2. Lists!Ask(w0)
    <2> DEFINE r == AskedOf(task'[w0])
    <2>1. [w \in Worker |-> AskedOf(task[w])]'
            = [[w \in Worker |-> AskedOf(task[w])] EXCEPT ![w0] = r]
      BY DEF AskedOf
    <2>2. [w \in Worker |-> AskedOf(task[w])][w0] = Lists!NoRequest
      OBVIOUS
    <2> QED
      BY <1>1, <2>1, <2>2, ListsSame DEF Lists!Ask
  <1> QED
    BY <1>2 DEF Lists!Next

\* The removal of an account clears its list.
LEMMA ListsClear ==
    ASSUME NEW w0, Worker = {w0}, TypeOK, RemoveForwards(w0)
    PROVE  Lists!Next
  <1> DEFINE u == task[w0].user
             a == [w \in Worker |-> AskedOf(task[w])]
             f == [x \in PlainUser |-> ForwardsIn(x, ListOf(x))]
             k == {x \in PlainUser : x \in ListOf(x)}
  <1>1. /\ task[w0].pc = "removeForwards" /\ task[w0] \in AccountTask
        /\ task'[w0].pc = "removeAccount"
        /\ forwardRows'[u] = << >>
        /\ \A x \in User \ {u} : forwardRows'[x] = forwardRows[x]
    BY RemovalEffect
  <1>2. AskedOf(task'[w0]) = Lists!NoRequest
    BY <1>1, AskedKnown DEF ForwardPC
  <1>3. \A x \in PlainUser : ListOf(x)' = IF x = u THEN {} ELSE ListOf(x)
    BY <1>1 DEF ListOf, PlainUser
  <1>4. CASE u \notin PlainUser
    BY <1>2, <1>3, <1>4, ListsDecline
  <1>5. CASE u \in PlainUser
    <2>1. a[w0] = [op |-> "clear", user |-> u]
      BY <1>1, <1>5, AskedKnown DEF ForwardPC
    <2>2. Lists!Answered(w0)
      BY <1>2 DEF Lists!Answered, AskedOf
    <2>3. f' = [f EXCEPT ![u] = {}]
      BY <1>3, <1>5 DEF ForwardsIn
    <2>4. k' = k \ {u}
      BY <1>3
    <2>5. a[w0].op = "clear" /\ a[w0].user = u
      BY <2>1
    <2>6. Lists!Serve(w0)
      BY <2>2, <2>3, <2>4, <2>5 DEF Lists!Serve, Lists!Clear
    <2> QED
      BY <2>6 DEF Lists!Next
  <1> QED
    BY <1>4, <1>5

\* Writing a list back serves the request, as if it had been read, changed and
\* written at once.
LEMMA ListsServe ==
    ASSUME NEW w0, Worker = {w0}, TypeOK, OneForwardRow, ForwardsRead, OwnNames,
           ForwardWrite(w0)
    PROVE  Lists!Next
  <1> DEFINE r == task[w0].request
             u == r.user
             a == [w \in Worker |-> AskedOf(task[w])]
             f == [x \in PlainUser |-> ForwardsIn(x, ListOf(x))]
             k == {x \in PlainUser : x \in ListOf(x)}
  <1>1. ReadWell(task[w0])
    BY DEF ForwardsRead
  <1>2. /\ task[w0] \in ForwardTask /\ task'[w0] = Idle
        /\ task[w0].pc \in ForwardPC
        /\ \A x \in User \ {u} : forwardRows'[x] = forwardRows[x]
        /\ AskedOf(task'[w0]) = Lists!NoRequest
    BY WriteOthers, AskedKnown DEF Idle, ForwardPC
  <1>3. CASE u \notin PlainUser
    <2>1. \A x \in PlainUser : ListOf(x)' = ListOf(x)
      BY <1>2, <1>3 DEF PlainUser, ListOf
    <2> QED
      BY <1>2, <2>1, ListsDecline
  <1> SUFFICES ASSUME u \in PlainUser
               PROVE  Lists!Next
    BY <1>3
  <1>4. /\ r \in ForwardRequest
        /\ r.op \in {"add", "remove", "edit", "keep"}
        /\ r.op \in {"add", "edit"} => r.new \in Forward
        /\ r.op \in {"remove", "edit"} => r.old \in Forward
        /\ r.op = "keep" => r.keep \in BOOLEAN
        /\ a[w0] = r
    BY <1>2, AskedKnown DEF ForwardTask, ForwardRequest
  <1>5. Lists!Answered(w0)
    BY <1>2 DEF Lists!Answered, AskedOf
  <1>6. \A x \in PlainUser : ListOf(x)' = IF x = u THEN Written(r, ListOf(x)) ELSE ListOf(x)
    BY <1>1, WrittenList
  <1>7. \A x \in PlainUser : /\ ListOf(x) \subseteq Forward \cup {x} /\ x \notin Forward
                            /\ ForwardsIn(x, ListOf(x)) = ListOf(x) \ {x}
                            /\ ForwardsIn(x, ListOf(x))' = ListOf(x)' \ {x}
    BY DEF OwnNames, PlainUser, ForwardsIn
  <1>8. \A x \in PlainUser : ListOf(x) = {} \/ ListOf(x) \ {x} # {}
    BY TidyRows
  <1>9. /\ w0 \in Worker
        /\ f = [x \in PlainUser |-> ListOf(x) \ {x}]
        /\ f' = [x \in PlainUser |-> ListOf(x)' \ {x}]
    BY <1>7
  <1>10. CASE r.op = "add"
    <2>1. \A x \in PlainUser :
             ListOf(x)' = IF x = u THEN ListOf(x) \cup {r.new} ELSE ListOf(x)
      BY <1>6, <1>10 DEF Written
    <2>2. f' = [f EXCEPT ![u] = @ \cup {r.new}]
      <3>1. \A x \in PlainUser : ListOf(x)' \ {x}
               = IF x = u THEN (ListOf(x) \ {x}) \cup {r.new} ELSE ListOf(x) \ {x}
        BY <1>4, <1>7, <1>10, <2>1
      <3> QED
        BY <1>9, <3>1
    <2>3. \A x \in PlainUser : x \in ListOf(x)' <=> x \in ListOf(x)
      BY <1>4, <1>7, <1>10, <2>1
    <2>4. Lists!Serve(w0)
      BY <1>4, <1>5, <1>10, <2>2, <2>3 DEF Lists!Serve, Lists!Add
    <2> QED
      BY <1>9, <2>4 DEF Lists!Next
  <1>11. CASE r.op = "remove"
    <2>1. \A x \in PlainUser :
             ListOf(x)' = IF x = u
                          THEN (IF (ListOf(x) \ {x}) \ {r.old} = {} THEN {}
                                ELSE ListOf(x) \ {r.old})
                          ELSE ListOf(x)
      BY <1>6, <1>7, <1>11 DEF Written, IsEmptied, ForwardsIn
    <2>2. \A x \in PlainUser : ListOf(x)' \ {x}
             = IF x = u THEN (ListOf(x) \ {x}) \ {r.old} ELSE ListOf(x) \ {x}
      BY <1>4, <1>7, <1>11, <2>1
    <2>3. \A x \in PlainUser : x \in ListOf(x)' <=> x \in ListOf(x) /\ ListOf(x)' \ {x} # {}
      BY <1>4, <1>7, <1>8, <1>11, <2>1
    <2>4. f' = [f EXCEPT ![u] = @ \ {r.old}]
      BY <1>9, <2>2
    <2>5. k' = {x \in k : f'[x] # {}}
      BY <1>9, <2>3
    <2>6. Lists!Serve(w0)
      BY <1>4, <1>5, <1>11, <2>4, <2>5 DEF Lists!Serve, Lists!Remove
    <2> QED
      BY <1>9, <2>6 DEF Lists!Next
  <1>12. CASE r.op = "edit"
    <2>1. \A x \in PlainUser : ListOf(x)'
             = IF x = u THEN (ListOf(x) \ {r.old}) \cup {r.new} ELSE ListOf(x)
      BY <1>6, <1>12 DEF Written
    <2>2. f' = [f EXCEPT ![u] = (@ \ {r.old}) \cup {r.new}]
      <3>1. \A x \in PlainUser : ListOf(x)' \ {x}
               = IF x = u THEN ((ListOf(x) \ {x}) \ {r.old}) \cup {r.new} ELSE ListOf(x) \ {x}
        BY <1>4, <1>7, <1>12, <2>1
      <3> QED
        BY <1>9, <3>1
    <2>3. \A x \in PlainUser : x \in ListOf(x)' <=> x \in ListOf(x)
      BY <1>4, <1>7, <1>12, <2>1
    <2>4. Lists!Serve(w0)
      BY <1>4, <1>5, <1>12, <2>2, <2>3 DEF Lists!Serve, Lists!Edit
    <2> QED
      BY <1>9, <2>4 DEF Lists!Next
  <1>13. CASE r.op = "keep" /\ ListOf(u) = {}
    <2>1. \A x \in PlainUser : ListOf(x)' = ListOf(x)
      BY <1>6, <1>13 DEF Written
    <2> QED
      BY <1>2, <2>1, ListsDecline
  <1>14. CASE r.op = "keep" /\ ListOf(u) # {}
    <2>1. \A x \in PlainUser : ListOf(x)' \ {x} = ListOf(x) \ {x}
      BY <1>6, <1>14 DEF Written
    <2>2. k' = IF r.keep THEN k \cup {u} ELSE k \ {u}
      BY <1>4, <1>6, <1>14 DEF Written
    <2>3. f' = f /\ f[u] # {}
      BY <1>8, <1>9, <1>14, <2>1
    <2>4. Lists!Serve(w0)
      BY <1>4, <1>5, <1>14, <2>2, <2>3 DEF Lists!Serve, Lists!Keep
    <2> QED
      BY <1>9, <2>4 DEF Lists!Next
  <1> QED
    BY <1>4, <1>10, <1>11, <1>12, <1>13, <1>14

\* The state of the forwards, to be kept by every step.
ForwardsInv == TypeOK /\ OneForwardRow /\ ForwardsRead /\ OwnNames

\* Every step is a step of the lists, or nothing happens to them.
LEMMA ListsStep ==
    ASSUME NEW w0, Worker = {w0}, ForwardsInv, [Next]_vars
    PROVE  [Lists!Next]_Lists!vars
  <1> USE DEF ForwardsInv
  <1>1. CASE UNCHANGED vars
    BY <1>1, ListsStutter, RowsSame DEF vars
  <1> SUFFICES ASSUME \/ \E u \in User : Begin(w0, u)
                      \/ \E u \in User, l \in Local : CreateAccount(w0, u, l)
                      \/ Step(w0) \/ Failure(w0)
               PROVE  Lists!Next \/ UNCHANGED Lists!vars
    BY <1>1 DEF Next
  <1>2. w0 \in Worker
    OBVIOUS
  <1>3. \A p \in {"idle"} \cup AddressPC :
           p \notin ForwardPC \cup {"removeVirtual", "removeForwards"}
    BY DEF AddressPC, AddPC, ChangePC, RemovePC, CatchAllPC, ForwardPC
  <1>4. CASE \E u \in User : Begin(w0, u)
    <2>1. AskedOf(task[w0]) = Lists!NoRequest /\ UNCHANGED forwardRows
          /\ task'[w0].pc \in {"removeVirtual", "queryForwards"} \cup AddressPC
      BY <1>2, <1>4, BeginQuiet, AskedKnown DEF At, ForwardPC
    <2>2. task'[w0] \in AllTasks
      BY <1>2, <1>4, BeginType DEF AllTasks
    <2>3. CASE task'[w0].pc \in AddressPC
      BY <1>3, <2>1, <2>3, ListsDecline, RowsSame, AskedKnown
    <2>4. CASE task'[w0].pc = "removeVirtual"
      <3>1. task'[w0] \in AccountTask
        BY <1>3, <2>2, <2>4 DEF AllTasks, AccountTask, AddressTask, ForwardTask, ForwardPC, Idle
      <3>2. CASE task'[w0].user \in PlainUser
        <4>1. AskedOf(task'[w0]) = [op |-> "clear", user |-> task'[w0].user]
          BY <2>4, <3>2, AskedKnown
        <4>2. AskedOf(task'[w0]) \in Lists!Request
          BY <3>2, <4>1 DEF Lists!Request
        <4> QED
          BY <2>1, <4>2, ListsAsk
      <3>3. CASE task'[w0].user \notin PlainUser
        BY <2>1, <2>4, <3>3, AskedKnown, ListsDecline, RowsSame
      <3> QED
        BY <3>2, <3>3
    <2>5. CASE task'[w0].pc = "queryForwards"
      <3>1. task'[w0] \in ForwardTask
        BY <1>3, <2>2, <2>5 DEF AllTasks, AccountTask, AddressTask, ForwardTask, AccountPC,
           ForwardPC, Idle
      <3>2. CASE task'[w0].request.user \in PlainUser
        <4>1. AskedOf(task'[w0]) = task'[w0].request /\ task'[w0].request \in ForwardRequest
          BY <2>5, <3>1, <3>2, AskedKnown DEF ForwardTask, ForwardPC
        <4>2. AskedOf(task'[w0]) \in Lists!Request
          BY <3>2, <4>1 DEF Lists!Request, ForwardRequest
        <4> QED
          BY <2>1, <4>2, ListsAsk
      <3>3. CASE task'[w0].request.user \notin PlainUser
        BY <2>1, <2>5, <3>3, AskedKnown, ListsDecline, RowsSame DEF ForwardPC
      <3> QED
        BY <3>2, <3>3
    <2> QED
      BY <2>1, <2>3, <2>4, <2>5
  <1>5. CASE \E u \in User, l \in Local : CreateAccount(w0, u, l)
    BY <1>5, ListsStutter, RowsSame DEF CreateAccount
  <1>6. CASE RemoveVirtual(w0)
    BY <1>2, <1>6, RemovalEffect, ListsStutter, RowsSame, AskedKnown
  <1>7. CASE RemoveForwards(w0)
    BY <1>7, ListsClear
  <1>8. CASE RemoveAccount(w0)
    <2>1. AskedOf(task'[w0]) = Lists!NoRequest /\ UNCHANGED forwardRows
      BY <1>2, <1>8, RemovalEffect, AskedKnown DEF Idle, ForwardPC
    <2> QED
      BY <2>1, ListsDecline, RowsSame
  <1>9. CASE AddressStep(w0) \/ TwinFails(w0)
    <2>1. AskedOf(task'[w0]) = Lists!NoRequest /\ UNCHANGED forwardRows
      <3>1. task'[w0].pc \in {"idle"} \cup AddressPC /\ UNCHANGED forwardRows
        BY <1>2, <1>9, AddressQuiet
      <3> QED
        BY <1>3, <3>1, AskedKnown
    <2> QED
      BY <2>1, ListsDecline, RowsSame
  <1>10. CASE StatementFails(w0) \/ Crash(w0)
    <2>1. AskedOf(task'[w0]) = Lists!NoRequest /\ UNCHANGED forwardRows
      <3>1. task'[w0].pc \in {"idle"} \cup AddressPC /\ UNCHANGED forwardRows
        BY <1>2, <1>10, FailureQuiet DEF Idle
      <3> QED
        BY <1>3, <3>1, AskedKnown
    <2> QED
      BY <2>1, ListsDecline, RowsSame
  <1>11. CASE QueryForwards(w0)
    <2>1. CASE task'[w0] = Idle
      BY <1>2, <1>11, <2>1, QueryEffect, ListsDecline, RowsSame, AskedKnown DEF Idle, ForwardPC
    <2>2. CASE task'[w0].pc = "writeForwards" /\ task'[w0].request = task[w0].request
      BY <1>2, <1>11, <2>2, QueryEffect, ListsStutter, RowsSame, AskedKnown DEF ForwardPC
    <2> QED
      BY <1>2, <1>11, <2>1, <2>2, QueryEffect
  <1>12. CASE ForwardWrite(w0)
    BY <1>12, ListsServe
  <1>13. Step(w0) => \/ RemoveVirtual(w0) \/ RemoveForwards(w0) \/ RemoveAccount(w0)
                     \/ AddressStep(w0) \/ QueryForwards(w0) \/ ForwardWrite(w0)
    BY DEF Step, AddressStep, ForwardWrite
  <1>14. Failure(w0) => TwinFails(w0) \/ StatementFails(w0) \/ Crash(w0)
    BY DEF Failure
  <1> QED
    BY <1>4, <1>5, <1>6, <1>7, <1>8, <1>9, <1>10, <1>11, <1>12, <1>13, <1>14

\* Reading a list of forwards, changing it in memory and writing it back
\* implements ForwardLists, whatever fails, as long as requests do not overlap and
\* for every account whose name is no forward: a request takes effect on what the
\* account has at one moment, or not at all.  What accounts with fully qualified
\* names do beside them makes no difference.
THEOREM ForwardsRefined ==
    ASSUME NEW w0, Worker = {w0}
    PROVE  Spec => ForwardsImplemented
  <1>1. Init => ForwardsInv /\ Lists!Init
    <2> SUFFICES ASSUME Init PROVE ForwardsInv /\ Lists!Init
      OBVIOUS
    <2>1. TypeOK /\ OneForwardRow /\ ForwardsRead
      BY AddressAssumption DEF Init, TypeOK, OneForwardRow, ForwardsRead, ReadWell, Idle
    <2>2. \A u \in User : ListOf(u) = {}
      BY DEF Init, ListOf
    <2>3. AskedOf(task[w0]) = Lists!NoRequest
      BY AskedKnown DEF Init, Idle, ForwardPC
    <2> QED
      BY <2>1, <2>2, <2>3 DEF ForwardsInv, OwnNames, PlainUser, ForwardsIn, Lists!Init
  <1>2. ForwardsInv /\ [Next]_vars => ForwardsInv'
    BY TypeStep, ForwardsStep, OwnNamesStep DEF ForwardsInv
  <1>3. ForwardsInv /\ [Next]_vars => [Lists!Next]_Lists!vars
    BY ListsStep
  <1> QED
    BY <1>1, <1>2, <1>3, PTL DEF Spec, ForwardsImplemented, Lists!Spec

-----------------------------------------------------------------------------
(* The rows of addresses *)

\* An address as users know it: no ACE form, no catch-all address.
Plain(a) == ~a.ace /\ a.local # CatchAll

\* Ids are keys and grow.
IdsKeyed(rows, n) ==
    /\ n > 0
    /\ \A r \in rows : r.id > 0 /\ r.id < n /\ r.ace < n
    /\ \A q, r \in rows : q.id = r.id => q = r

\* Rows with an idn_id are those of ACE forms, of internationalised domains.
\* Catch-all addresses belong to the domain of the account.
FormsKept(rows) ==
    \A r \in rows : /\ r.idn = 0 <=> ~r.alias.ace
                    /\ r.alias.local = CatchAll => r.alias.dom = Home
                    /\ r.alias.ace => IsIdn(r.alias)

\* An ace_id does not point to a Unicode form.
AcePointed(rows) == \A q, r \in rows : q.ace > 0 /\ r.id = q.ace => r.alias.ace

\* No address of a user is there twice.
PlainUnique(rows) == \A q, r \in rows : q.alias = r.alias /\ Plain(r.alias) => q = r

RowsWell(rows, n) ==
    IdsKeyed(rows, n) /\ FormsKept(rows) /\ AcePointed(rows) /\ PlainUnique(rows)

LEMMA RowType ==
    ASSUME NEW r \in VirtualRow
    PROVE  /\ r.id \in Nat /\ r.idn \in Nat /\ r.ace \in Nat /\ r.user \in User
           /\ r.alias \in Alias
  BY DEF VirtualRow

LEMMA AliasType ==
    ASSUME NEW a \in Alias
    PROVE  /\ a.local \in Local \cup {CatchAll} /\ a.dom \in Domain /\ a.ace \in BOOLEAN
           /\ AceOf(a) \in Alias
           /\ AceOf(a).local = a.local /\ AceOf(a).dom = a.dom /\ AceOf(a).ace = TRUE
           /\ IsIdn(AceOf(a)) <=> IsIdn(a)
  BY DEF Alias, AceOf, IsIdn

\* The Unicode form is known from the ACE form.
LEMMA AceInjective ==
    ASSUME NEW a \in Alias, NEW b \in Alias, ~a.ace, ~b.ace, AceOf(a) = AceOf(b)
    PROVE  a = b
  <1>1. a.local = b.local /\ a.dom = b.dom
    <2>1. AceOf(a).local = a.local /\ AceOf(a).dom = a.dom
      BY AliasType
    <2>2. AceOf(b).local = b.local /\ AceOf(b).dom = b.dom
      BY AliasType
    <2> QED
      BY <2>1, <2>2
  <1>2. a.ace = FALSE /\ b.ace = FALSE
    BY AliasType
  <1> QED
    BY <1>1, <1>2 DEF Alias

\* Rows may go.
LEMMA RowsDeleted ==
    ASSUME NEW rows, NEW n, RowsWell(rows, n), NEW some \in SUBSET rows
    PROVE  RowsWell(some, n)
  BY DEF RowsWell, IdsKeyed, FormsKept, AcePointed, PlainUnique

\* A row may come that has the next id and the form its idn_id says, and that is
\* not an address that is there.
LEMMA RowsInserted ==
    ASSUME NEW rows \in SUBSET VirtualRow, NEW n \in Nat, RowsWell(rows, n),
           NEW i \in Nat, NEW e \in Nat, NEW a \in Alias, NEW u \in User,
           e = 0 \/ e = n + 1,
           i = 0 <=> ~a.ace,
           a.local = CatchAll => a.dom = Home,
           a.ace => IsIdn(a),
           \A r \in rows : r.alias # a \/ ~Plain(a)
    PROVE  LET all == rows \cup {NewRow(n, i, e, a, u)}
           IN  /\ IdsKeyed(all, n + 2) /\ FormsKept(all) /\ AcePointed(all)
               /\ PlainUnique(all)
               /\ e = 0 => RowsWell(all, n + 1)
  <1> DEFINE new == NewRow(n, i, e, a, u)
             all == rows \cup {new}
  <1>1. /\ new.id = n /\ new.idn = i /\ new.ace = e /\ new.alias = a
        /\ n < n + 1 /\ n < n + 2 /\ n + 1 < n + 2 /\ n > 0
    BY DEF NewRow, RowsWell, IdsKeyed
  <1> HIDE DEF new
  <1>2. ASSUME NEW r \in rows
        PROVE  r.id < n /\ r.ace < n /\ r.id \in Nat /\ r.ace \in Nat /\ r.id > 0
    BY RowType DEF RowsWell, IdsKeyed
  <1>3. IdsKeyed(all, n + 2)
    BY <1>1, <1>2 DEF RowsWell, IdsKeyed
  <1>4. FormsKept(all)
    BY <1>1 DEF RowsWell, FormsKept
  <1>5. AcePointed(all)
    <2> SUFFICES ASSUME NEW q \in all, NEW r \in all, q.ace > 0, r.id = q.ace
                 PROVE  r.alias.ace
      BY DEF AcePointed
    <2>1. CASE q \in rows /\ r \in rows
      BY <2>1 DEF RowsWell, AcePointed
    <2>2. CASE q \in rows /\ r = new
      BY <1>1, <1>2, <2>2
    <2>3. CASE q = new
      BY <1>1, <1>2, <2>3
    <2> QED
      BY <2>1, <2>2, <2>3
  <1>6. PlainUnique(all)
    BY <1>1 DEF RowsWell, PlainUnique
  <1>7. e = 0 => IdsKeyed(all, n + 1)
    BY <1>1, <1>2 DEF RowsWell, IdsKeyed
  <1> QED
    BY <1>3, <1>4, <1>5, <1>6, <1>7 DEF RowsWell, new

\* updateAceID() on a row.
Linked(r, i, a) == IF r.id = i THEN [r EXCEPT !.ace = a] ELSE r

LinkedRows(rows, i, a) == {Linked(r, i, a) : r \in rows}

LEMMA LinkedFields ==
    ASSUME NEW r \in VirtualRow, NEW i, NEW a
    PROVE  /\ Linked(r, i, a).id = r.id /\ Linked(r, i, a).idn = r.idn
           /\ Linked(r, i, a).user = r.user /\ Linked(r, i, a).alias = r.alias
           /\ Linked(r, i, a).ace = IF r.id = i THEN a ELSE r.ace
  BY DEF Linked, VirtualRow

\* A row may get a pointer to the row of an ACE form.
LEMMA RowsLinked ==
    ASSUME NEW rows \in SUBSET VirtualRow, NEW n \in Nat, RowsWell(rows, n),
           NEW i, NEW a \in Nat, a < n, \A r \in rows : r.id = a => r.alias.ace
    PROVE  RowsWell(LinkedRows(rows, i, a), n)
  <1> DEFINE all == LinkedRows(rows, i, a)
  <1>1. ASSUME NEW s \in all
        PROVE  \E r \in rows : /\ s = Linked(r, i, a) /\ s.id = r.id /\ s.idn = r.idn
                               /\ s.alias = r.alias
                               /\ s.ace = IF r.id = i THEN a ELSE r.ace
    BY <1>1, LinkedFields DEF LinkedRows
  <1> HIDE DEF all
  <1>2. IdsKeyed(all, n)
    <2>1. n > 0
      BY DEF RowsWell, IdsKeyed
    <2>2. ASSUME NEW s \in all
          PROVE  s.id > 0 /\ s.id < n /\ s.ace < n
      BY <1>1, <2>2 DEF RowsWell, IdsKeyed
    <2>3. ASSUME NEW q \in all, NEW s \in all, q.id = s.id
          PROVE  q = s
      BY <1>1, <2>3 DEF RowsWell, IdsKeyed
    <2> QED
      BY <2>1, <2>2, <2>3 DEF IdsKeyed
  <1>3. FormsKept(all)
    BY <1>1 DEF RowsWell, FormsKept
  <1>4. AcePointed(all)
    <2> SUFFICES ASSUME NEW q \in all, NEW s \in all, q.ace > 0, s.id = q.ace
                 PROVE  s.alias.ace
      BY DEF AcePointed
    <2>1. PICK r \in rows : q.ace = IF r.id = i THEN a ELSE r.ace
      BY <1>1
    <2>2. PICK x \in rows : s.id = x.id /\ s.alias = x.alias
      BY <1>1
    <2> QED
      BY <2>1, <2>2 DEF RowsWell, AcePointed
  <1>5. PlainUnique(all)
    BY <1>1 DEF RowsWell, PlainUnique
  <1> QED
    BY <1>2, <1>3, <1>4, <1>5 DEF RowsWell, all

\* updateEmail on a row: row i gets the address a and the ace_id e, row j its
\* ACE form.
Moved(r, i, j, a, e) ==
    IF r.id = i THEN [r EXCEPT !.alias = a, !.ace = e]
    ELSE IF r.id = j THEN [r EXCEPT !.alias = AceOf(a)]
    ELSE r

MovedRows(rows, i, j, a, e) == {Moved(r, i, j, a, e) : r \in rows}

LEMMA MovedFields ==
    ASSUME NEW r \in VirtualRow, NEW i, NEW j, NEW a \in Alias, NEW e
    PROVE  LET s == Moved(r, i, j, a, e) IN
           /\ s.id = r.id /\ s.idn = r.idn /\ s.user = r.user
           /\ r.id = i => s.alias = a /\ s.ace = e
           /\ r.id # i /\ r.id = j => s.alias = AceOf(a) /\ s.ace = r.ace
           /\ r.id # i /\ r.id # j => s = r
  BY DEF Moved, VirtualRow

\* The address of row i may become one that nobody has, if row j is its ACE form.
LEMMA RowsMoved ==
    ASSUME NEW rows \in SUBSET VirtualRow, NEW n \in Nat, RowsWell(rows, n),
           NEW x \in rows, Plain(x.alias), NEW a \in Alias, Plain(a),
           \A r \in rows : r.alias # a,
           NEW e \in Nat, e < n, \A r \in rows : r.id = e => r.alias.ace,
           NEW j \in Nat, j # 0 => j = x.ace /\ IsIdn(a)
    PROVE  RowsWell(MovedRows(rows, x.id, j, a, e), n)
  <1> DEFINE all == MovedRows(rows, x.id, j, a, e)
  <1>1. x.id \in Nat /\ AceOf(a) \in Alias /\ AceOf(a).ace = TRUE /\ ~Plain(AceOf(a))
        /\ AceOf(a).local # CatchAll /\ (IsIdn(a) => IsIdn(AceOf(a)))
    BY RowType, AliasType DEF Plain
  <1>2. ASSUME NEW r \in rows, r.id = j
        PROVE  r.alias.ace /\ r.id # x.id
    <2>1. j # 0
      BY <1>2 DEF RowsWell, IdsKeyed
    <2>2. r.alias.ace
      BY <1>2, <2>1 DEF RowsWell, AcePointed
    <2> QED
      BY <2>2 DEF RowsWell, IdsKeyed, Plain
  <1>3. ASSUME NEW s \in all
        PROVE  \E r \in rows :
                 /\ s = Moved(r, x.id, j, a, e) /\ s.id = r.id /\ s.idn = r.idn
                 /\ \/ r = x /\ s.alias = a /\ s.ace = e
                    \/ r # x /\ r.id = j /\ s.alias = AceOf(a) /\ s.ace = r.ace
                    \/ r # x /\ r.id # j /\ s = r
    <2>1. PICK r \in rows : s = Moved(r, x.id, j, a, e)
      BY <1>3 DEF MovedRows
    <2>2. r = x <=> r.id = x.id
      BY DEF RowsWell, IdsKeyed
    <2> QED
      BY <2>1, <2>2, MovedFields
  <1> HIDE DEF all
  <1>4. IdsKeyed(all, n)
    <2>1. n > 0
      BY DEF RowsWell, IdsKeyed
    <2>2. ASSUME NEW s \in all
          PROVE  s.id > 0 /\ s.id < n /\ s.ace < n
      BY <1>3, <2>2 DEF RowsWell, IdsKeyed
    <2>3. ASSUME NEW q \in all, NEW s \in all, q.id = s.id
          PROVE  q = s
      <3>1. PICK r \in rows : q = Moved(r, x.id, j, a, e) /\ q.id = r.id
        BY <1>3
      <3>2. PICK y \in rows : s = Moved(y, x.id, j, a, e) /\ s.id = y.id
        BY <1>3
      <3>3. r = y
        BY <2>3, <3>1, <3>2 DEF RowsWell, IdsKeyed
      <3> QED
        BY <3>1, <3>2, <3>3
    <2> QED
      BY <2>1, <2>2, <2>3 DEF IdsKeyed
  <1>5. FormsKept(all)
    <2> SUFFICES ASSUME NEW s \in all
                 PROVE  /\ s.idn = 0 <=> ~s.alias.ace
                        /\ s.alias.local = CatchAll => s.alias.dom = Home
                        /\ s.alias.ace => IsIdn(s.alias)
      BY DEF FormsKept
    <2>1. PICK r \in rows :
             /\ s.idn = r.idn
             /\ \/ r = x /\ s.alias = a
                \/ r.id = j /\ s.alias = AceOf(a)
                \/ s = r
      BY <1>3
    <2>2. CASE r = x /\ s.alias = a
      BY <2>1, <2>2 DEF RowsWell, FormsKept, Plain
    <2>3. CASE r.id = j /\ s.alias = AceOf(a)
      <3>1. j # 0 /\ r.idn # 0
        BY <1>2, <2>3 DEF RowsWell, FormsKept, IdsKeyed
      <3> QED
        BY <1>1, <2>1, <2>3, <3>1
    <2>4. CASE s = r
      BY <2>4 DEF RowsWell, FormsKept
    <2> QED
      BY <2>1, <2>2, <2>3, <2>4
  <1>6. AcePointed(all)
    <2> SUFFICES ASSUME NEW q \in all, NEW s \in all, q.ace > 0, s.id = q.ace
                 PROVE  s.alias.ace
      BY DEF AcePointed
    <2>1. PICK y \in rows : q.ace = e \/ q.ace = y.ace
      BY <1>3
    <2>2. PICK r \in rows :
             /\ s.id = r.id
             /\ \/ r = x
                \/ s.alias = AceOf(a)
                \/ s = r
      BY <1>3
    <2>3. r.alias.ace
      BY <2>1, <2>2 DEF RowsWell, AcePointed
    <2> QED
      BY <1>1, <2>2, <2>3 DEF Plain
  <1>7. PlainUnique(all)
    <2> SUFFICES ASSUME NEW q \in all, NEW s \in all, q.alias = s.alias, Plain(s.alias)
                 PROVE  q = s
      BY DEF PlainUnique
    <2>1. PICK y \in rows : /\ q = Moved(y, x.id, j, a, e)
                            /\ \/ y = x /\ q.alias = a
                               \/ y # x /\ q.alias = AceOf(a)
                               \/ y # x /\ q = y
      BY <1>3
    <2>2. PICK r \in rows : /\ s = Moved(r, x.id, j, a, e)
                            /\ \/ r = x /\ s.alias = a
                               \/ r # x /\ s.alias = AceOf(a)
                               \/ r # x /\ s = r
      BY <1>3
    <2>3. y = r
      BY <1>1, <2>1, <2>2 DEF RowsWell, PlainUnique
    <2> QED
      BY <2>1, <2>2, <2>3
  <1> QED
    BY <1>4, <1>5, <1>6, <1>7 DEF RowsWell, all

-----------------------------------------------------------------------------
(* What the requests know about addresses *)

Used(rows, a) == \E r \in rows : r.alias = a

Owns(rows, u, a) == Plain(a) /\ \E r \in rows : r.user = u /\ r.alias = a

\* The account has another address, and another one in its own domain if the
\* address is of this domain.
OthersRemain(rows, u, a) ==
    /\ \E r \in rows : r.user = u /\ Plain(r.alias) /\ r.alias # a
    /\ a.dom = Home =>
          \E r \in rows : r.user = u /\ Plain(r.alias) /\ r.alias # a /\ r.alias.dom = Home

AceOnly(rows, n, i) == i < n /\ \A r \in rows : r.id = i => r.alias.ace

NewThere(rows, t) ==
    \E r \in rows : r.id = t.id /\ r.alias = t.new /\ r.user = t.user /\ r.ace = 0

AceThere(rows, t) ==
    \E r \in rows : r.id = t.aceId /\ r.idn = t.id /\ r.alias = AceOf(t.new) /\ r.user = t.user

OldThere(rows, t) ==
    \E r \in rows : r.id = t.id /\ r.alias = t.old /\ r.user = t.user /\ r.ace = t.aceId

\* What a request has read, checked or written is still so.
Checked(rows, n, t) ==
    /\ t.pc \in {"checkAddress", "getAddress", "changeAddress"} \cup AddPC => Plain(t.new)
    /\ t.pc \in {"checkAddress", "insertAddress", "insertAce"} => t.aceId = 0
    /\ t.pc = "checkAddress" => t.op \in {"add", "change"}
    /\ t.pc \in {"checkAddress", "getAddress"} => t.op = "add" \/ Owns(rows, t.user, t.old)
    /\ t.pc = "getAddress" => \/ t.op = "change" /\ ~Used(rows, t.new)
                              \/ t.op = "remove" /\ OthersRemain(rows, t.user, t.old)
    /\ t.pc \in {"insertAddress", "changeAddress"} => ~Used(rows, t.new)
    /\ t.pc \in {"changeAddress"} \cup RemovePC => Plain(t.old) /\ OldThere(rows, t)
    /\ t.pc \in RemovePC => OthersRemain(rows, t.user, t.old)
    /\ t.pc = "removeAce" => t.aceId > 0
    /\ t.pc \in CatchAllPC => t.new = CatchAllAddress
    /\ t.pc \in {"insertAce", "insertCatchAllAce", "linkAce", "linkCatchAll"} =>
          IsIdn(t.new) /\ NewThere(rows, t)
    /\ t.pc \in {"linkAce", "linkCatchAll"} => AceThere(rows, t)
    /\ t.pc = "undoAddress" => \A r \in rows : r.id = t.id => r.user = t.user
    /\ t.pc = "undoAce" \/ (t.pc = "undoAddress" /\ t.aceId # 0) => AceOnly(rows, n, t.aceId)

\* Other requests know nothing about addresses.
LEMMA CheckedOther ==
    ASSUME NEW rows, NEW n, NEW t, t.pc \notin AddressPC
    PROVE  Checked(rows, n, t)
  BY DEF Checked, AddressPC, AddPC, ChangePC, RemovePC, CatchAllPC

\* The rows that updateEmail leaves.
LEMMA ChangedRows ==
    ASSUME TypeOK, RowsWell(virtual, nextId), NEW w \in Worker,
           NEW twin \in BOOLEAN, NEW link \in BOOLEAN, ChangeAddress(w, twin, link),
           OldThere(virtual, task[w])
    PROVE  LET t == task[w]
               row == NewRow(nextId, t.id, 0, AceOf(t.new), t.user)
           IN  /\ t \in AddressTask
               /\ \E j \in Nat, e \in Nat :
                    LET moved == MovedRows(virtual, t.id, j, t.new, e) IN
                    /\ j # 0 => j = t.aceId /\ IsIdn(t.new)
                    /\ \/ /\ t.aceId = 0 /\ IsIdn(t.new) /\ (e = nextId \/ (~link /\ e = 0))
                          /\ virtual' = moved \cup {row} /\ nextId' = nextId + 1
                       \/ /\ t.aceId > 0 /\ ~IsIdn(t.new) /\ (e = 0 \/ (~link /\ e = t.aceId))
                          /\ virtual' = {r \in moved : r.id # t.aceId} /\ nextId' = nextId
                       \/ /\ t.aceId > 0 /\ IsIdn(t.new) /\ e = t.aceId
                          /\ j = t.aceId \/ ~twin
                          /\ virtual' = moved /\ nextId' = nextId
                       \/ /\ t.aceId = 0 /\ ~IsIdn(t.new) /\ e = 0
                          /\ virtual' = moved /\ nextId' = nextId
                       \/ /\ ~twin /\ e \in {0, t.aceId}
                          /\ virtual' = moved /\ nextId' = nextId
  <1> DEFINE t == task[w]
             j == IF twin /\ t.aceId > 0 /\ IsIdn(t.new) THEN t.aceId ELSE 0
             e == IF ~link THEN t.aceId
                  ELSE IF t.aceId > 0 /\ IsIdn(t.new) THEN t.aceId
                  ELSE IF t.aceId = 0 /\ IsIdn(t.new) /\ twin THEN nextId
                  ELSE 0
             aceId == CASE t.aceId > 0 /\ IsIdn(t.new) -> t.aceId
                        [] ~(t.aceId > 0) /\ IsIdn(t.new) /\ twin -> nextId
                        [] OTHER -> 0
             Changing(r) == IF r.id = t.id
                            THEN [r EXCEPT !.alias = t.new, !.ace = IF link THEN aceId ELSE @]
                            ELSE IF twin /\ t.aceId > 0 /\ IsIdn(t.new) /\ r.id = t.aceId
                            THEN [r EXCEPT !.alias = AceOf(t.new)]
                            ELSE r
             moved == MovedRows(virtual, t.id, j, t.new, e)
             row == NewRow(nextId, t.id, 0, AceOf(t.new), t.user)
  <1>1. t \in AddressTask /\ t.aceId \in Nat
    BY TaskKinds DEF ChangeAddress, At, AddressPC, ChangePC, AddressTask
  <1>2. ASSUME NEW r \in virtual
        PROVE  Changing(r) = Moved(r, t.id, j, t.new, e)
    <2>1. link => aceId = e
      BY <1>1
    <2>2. r.id = t.id => r.ace = t.aceId
      BY DEF OldThere, RowsWell, IdsKeyed
    <2>3. r.id # 0
      BY DEF RowsWell, IdsKeyed
    <2>4. (IF link THEN aceId ELSE t.aceId) = e
      BY <2>1
    <2> HIDE DEF e, aceId
    <2>5. CASE r.id = t.id
      BY <2>2, <2>4, <2>5 DEF Moved
    <2>6. CASE r.id # t.id
      BY <2>3, <2>6 DEF Moved
    <2> QED
      BY <2>5, <2>6
  <1> DEFINE changed == {Changing(r) : r \in virtual}
  <1>3. virtual' = IF ~twin THEN changed
                   ELSE IF t.aceId > 0 /\ ~IsIdn(t.new) THEN {r \in changed : r.id # t.aceId}
                   ELSE IF ~(t.aceId > 0) /\ IsIdn(t.new)
                   THEN changed \cup {NewRow(nextId, t.id, 0, AceOf(t.new), t.user)}
                   ELSE changed
    BY DEF ChangeAddress, Changed
  <1>4. nextId' = IF twin /\ t.aceId = 0 /\ IsIdn(t.new) THEN nextId + 1 ELSE nextId
    BY DEF ChangeAddress
  <1>5. changed = moved
    <2> HIDE DEF Changing, e, j
    <2> QED
      BY <1>2 DEF MovedRows
  <1> DEFINE rest == {r \in moved : r.id # t.aceId}
  <1>6. /\ twin /\ t.aceId = 0 /\ IsIdn(t.new) => virtual' = moved \cup {row}
        /\ twin /\ t.aceId > 0 /\ ~IsIdn(t.new) => virtual' = rest
        /\ ~twin \/ (t.aceId > 0 <=> IsIdn(t.new)) => virtual' = moved
    <2>1. virtual' = IF ~twin THEN moved
                     ELSE IF t.aceId > 0 /\ ~IsIdn(t.new) THEN rest
                     ELSE IF ~(t.aceId > 0) /\ IsIdn(t.new) THEN moved \cup {row}
                     ELSE moved
      <3> HIDE DEF changed, moved, row
      <3> QED
        BY <1>3, <1>5 DEF row
    <2> HIDE DEF changed, moved, row, rest
    <2> QED
      BY <1>1, <2>1
  <1> HIDE DEF rest
  <1> HIDE DEF moved
  <1> DEFINE Shape ==
        /\ j # 0 => j = t.aceId /\ IsIdn(t.new)
        /\ \/ /\ t.aceId = 0 /\ IsIdn(t.new) /\ (e = nextId \/ (~link /\ e = 0))
              /\ virtual' = moved \cup {row} /\ nextId' = nextId + 1
           \/ /\ t.aceId > 0 /\ ~IsIdn(t.new) /\ (e = 0 \/ (~link /\ e = t.aceId))
              /\ virtual' = rest /\ nextId' = nextId
           \/ /\ t.aceId > 0 /\ IsIdn(t.new) /\ e = t.aceId
              /\ j = t.aceId \/ ~twin
              /\ virtual' = moved /\ nextId' = nextId
           \/ /\ t.aceId = 0 /\ ~IsIdn(t.new) /\ e = 0
              /\ virtual' = moved /\ nextId' = nextId
           \/ /\ ~twin /\ e \in {0, t.aceId}
              /\ virtual' = moved /\ nextId' = nextId
  <1>7. Shape
    <2>1. t.aceId = 0 \/ t.aceId > 0
      BY <1>1
    <2>2. CASE twin /\ t.aceId = 0 /\ IsIdn(t.new)
      <3>1. virtual' = moved \cup {row} /\ nextId' = nextId + 1
        BY <1>4, <1>6, <2>2
      <3>2. j = 0 /\ (e = nextId \/ (~link /\ e = 0))
        <4>1. CASE link
          BY <1>1, <2>2, <4>1
        <4>2. CASE ~link
          BY <1>1, <2>2, <4>2
        <4> QED
          BY <4>1, <4>2
      <3> QED
        BY <2>2, <3>1, <3>2
    <2>3. CASE twin /\ t.aceId > 0 /\ ~IsIdn(t.new)
      <3>1. virtual' = rest /\ nextId' = nextId
        BY <1>1, <1>4, <1>6, <2>3
      <3>2. j = 0 /\ (e = 0 \/ (~link /\ e = t.aceId))
        <4>1. CASE link
          BY <1>1, <2>3, <4>1
        <4>2. CASE ~link
          BY <1>1, <2>3, <4>2
        <4> QED
          BY <4>1, <4>2
      <3> QED
        BY <2>3, <3>1, <3>2
    <2>4. CASE twin /\ t.aceId > 0 /\ IsIdn(t.new)
      <3>1. virtual' = moved /\ nextId' = nextId
        BY <1>1, <1>4, <1>6, <2>4
      <3>2. j = t.aceId /\ e = t.aceId
        BY <1>1, <2>4
      <3> QED
        BY <2>4, <3>1, <3>2
    <2>5. CASE twin /\ t.aceId = 0 /\ ~IsIdn(t.new)
      <3>1. virtual' = moved /\ nextId' = nextId
        BY <1>1, <1>4, <1>6, <2>5
      <3>2. j = 0 /\ e = 0
        BY <1>1, <2>5
      <3> QED
        BY <2>5, <3>1, <3>2
    <2>6. CASE ~twin
      <3>1. virtual' = moved /\ nextId' = nextId
        BY <1>1, <1>4, <1>6, <2>6
      <3>2. j = 0 /\ e \in {0, t.aceId}
        BY <1>1, <2>6
      <3> QED
        BY <2>6, <3>1, <3>2
    <2> QED
      BY <2>1, <2>2, <2>3, <2>4, <2>5, <2>6
  <1>8. j \in Nat /\ e \in Nat
    BY <1>1 DEF TypeOK
  <1> HIDE DEF j, e
  <1> QED
    BY <1>1, <1>7, <1>8 DEF moved, rest

\* The forms of the catch-all address are no addresses of users.
LEMMA CatchAllKnown ==
    /\ CatchAllAddress \in Alias /\ CatchAllAddress.local = CatchAll
    /\ CatchAllAddress.dom = Home /\ ~CatchAllAddress.ace /\ ~Plain(CatchAllAddress)
    /\ AceOf(CatchAllAddress) \in Alias /\ AceOf(CatchAllAddress).ace
    /\ AceOf(CatchAllAddress).local = CatchAll /\ AceOf(CatchAllAddress).dom = Home
    /\ ~Plain(AceOf(CatchAllAddress))
    /\ IsIdn(AceOf(CatchAllAddress)) <=> IsIdn(CatchAllAddress)
  <1>1. CatchAllAddress = [local |-> CatchAll, dom |-> Home, ace |-> FALSE]
    BY DEF CatchAllAddress, Address
  <1>2. CatchAllAddress \in Alias
    BY <1>1 DEF Alias, Domain
  <1>3. /\ AceOf(CatchAllAddress) \in Alias /\ AceOf(CatchAllAddress).ace = TRUE
        /\ AceOf(CatchAllAddress).local = CatchAll /\ AceOf(CatchAllAddress).dom = Home
    BY <1>1 DEF AceOf, Alias, Domain
  <1>4. IsIdn(AceOf(CatchAllAddress)) <=> IsIdn(CatchAllAddress)
    BY <1>1, <1>3 DEF IsIdn
  <1> QED
    BY <1>1, <1>2, <1>3, <1>4 DEF Plain

\* The statements that only delete rows, and those that leave them alone.
LEMMA RowsShrink ==
    ASSUME NEW w \in Worker,
           \/ RemoveVirtual(w) \/ RemoveForwards(w) \/ RemoveAccount(w)
           \/ CheckAddress(w) \/ GetAddress(w)
           \/ UndoAddress(w) \/ UndoAce(w) \/ RemoveAce(w) \/ RemoveAddress(w)
           \/ DropCatchAll(w) \/ UndoCatchAll(w) \/ RemoveCatchAll(w) \/ RemoveCatchAllAce(w)
           \/ QueryForwards(w)
           \/ AddForward(w) \/ RemoveForward(w) \/ EditForward(w) \/ ChangeKeepLocal(w)
           \/ StatementFails(w) \/ Crash(w)
    PROVE  virtual' \subseteq virtual /\ nextId' \in {nextId, nextId + 1}
  BY DEF RemoveVirtual, RemoveForwards, RemoveAccount, CheckAddress, GetAddress,
     UndoAddress, UndoAce, RemoveAce, RemoveAddress, DropCatchAll, UndoCatchAll,
     RemoveCatchAll, RemoveCatchAllAce, QueryForwards, AddForward, RemoveForward,
     EditForward, ChangeKeepLocal, Writes, StatementFails, Crash, DeleteRows,
     RemoveVirtualByID

\* The statements of updateEmail keep the table in order, even if some of them fail.
LEMMA ChangedWell ==
    ASSUME TypeOK, RowsWell(virtual, nextId), NEW w \in Worker,
           NEW twin \in BOOLEAN, NEW link \in BOOLEAN, ChangeAddress(w, twin, link),
           Checked(virtual, nextId, task[w])
    PROVE  RowsWell(virtual', nextId')
  <1> DEFINE t == task[w]
             row == NewRow(nextId, t.id, 0, AceOf(t.new), t.user)
  <1>1. t.pc = "changeAddress" /\ OldThere(virtual, t) /\ Plain(t.old) /\ Plain(t.new)
        /\ ~Used(virtual, t.new)
    BY DEF ChangeAddress, At, Checked
  <1>2. t \in AddressTask
    BY <1>1, ChangedRows
  <1>3. t.new \in Alias /\ t.aceId \in Nat /\ t.id \in Nat /\ t.user \in User
        /\ nextId \in Nat /\ virtual \in SUBSET VirtualRow
    BY <1>2 DEF AddressTask, TypeOK
  <1>4. PICK x \in virtual : x.id = t.id /\ x.alias = t.old /\ x.user = t.user
                             /\ x.ace = t.aceId
    BY <1>1 DEF OldThere
  <1>5. PICK j \in Nat, e \in Nat :
          LET moved == MovedRows(virtual, t.id, j, t.new, e) IN
          /\ j # 0 => j = t.aceId /\ IsIdn(t.new)
          /\ \/ /\ t.aceId = 0 /\ IsIdn(t.new) /\ (e = nextId \/ e = 0)
                /\ virtual' = moved \cup {row} /\ nextId' = nextId + 1
             \/ e \in {0, t.aceId} /\ virtual' \subseteq moved /\ nextId' = nextId
    <2>1. ASSUME NEW moved
          PROVE  {r \in moved : r.id # t.aceId} \subseteq moved
      OBVIOUS
    <2> QED
      BY <1>1, <2>1, ChangedRows
  <1>6. \A r \in virtual : r.alias # t.new
    BY <1>1 DEF Used
  <1>7. x.id \in Nat /\ x.id > 0 /\ x.ace < nextId
        /\ \A r \in virtual : r.id > 0 /\ r.id < nextId
    BY <1>3, <1>4 DEF RowsWell, IdsKeyed
  <1>8. \A r \in virtual : r.id = t.aceId => r.alias.ace
    BY <1>3, <1>4, <1>7 DEF RowsWell, AcePointed
  <1>9. Plain(x.alias)
    BY <1>1, <1>4
  <1>10. CASE /\ t.aceId = 0 /\ IsIdn(t.new) /\ (e = nextId \/ e = 0)
              /\ virtual' = MovedRows(virtual, t.id, j, t.new, e) \cup {row}
              /\ nextId' = nextId + 1
    <2> DEFINE all == virtual \cup {row}
    <2>1. /\ AceOf(t.new) \in Alias /\ AceOf(t.new).ace /\ ~Plain(AceOf(t.new))
          /\ AceOf(t.new).local # CatchAll /\ IsIdn(AceOf(t.new))
      BY <1>1, <1>3, <1>10, AliasType DEF Plain
    <2>2. RowsWell(all, nextId + 1)
      <3>1. /\ t.id = 0 <=> ~AceOf(t.new).ace
            /\ AceOf(t.new).local = CatchAll => AceOf(t.new).dom = Home
            /\ AceOf(t.new).ace => IsIdn(AceOf(t.new))
            /\ \A r \in virtual : r.alias # AceOf(t.new) \/ ~Plain(AceOf(t.new))
            /\ 0 \in Nat /\ (0 = 0 \/ 0 = nextId + 1)
        BY <1>3, <1>4, <1>7, <2>1
      <3> QED
        BY <1>3, <2>1, <3>1, RowsInserted
    <2>3. row \in VirtualRow /\ row.id = nextId /\ row.alias.ace /\ row.alias # t.new
      BY <1>1, <1>3, <2>1 DEF NewRow, VirtualRow, Plain
    <2> HIDE DEF row
    <2>4. e < nextId + 1 /\ \A r \in all : r.id = e => r.alias.ace
      BY <1>3, <1>7, <1>8, <1>10, <2>3
    <2>5. all \in SUBSET VirtualRow /\ x \in all /\ \A r \in all : r.alias # t.new
      BY <1>3, <1>6, <2>3
    <2>6. j # 0 => j = x.ace /\ IsIdn(t.new)
      BY <1>4, <1>5
    <2> HIDE DEF all
    <2>7. RowsWell(MovedRows(all, x.id, j, t.new, e), nextId + 1)
      BY <1>1, <1>3, <1>9, <2>2, <2>4, <2>5, <2>6, RowsMoved
    <2>8. row.id # t.id /\ row.id # j
      BY <1>3, <1>4, <1>5, <1>7, <1>10, <2>3
    <2>9. Moved(row, t.id, j, t.new, e) = row
      BY <2>8 DEF Moved
    <2>10. MovedRows(all, t.id, j, t.new, e) = MovedRows(virtual, t.id, j, t.new, e) \cup {row}
      BY <2>9 DEF all, MovedRows
    <2> QED
      BY <1>4, <1>10, <2>7, <2>10
  <1>11. CASE /\ e \in {0, t.aceId} /\ virtual' \subseteq MovedRows(virtual, t.id, j, t.new, e)
              /\ nextId' = nextId
    <2>1. e < nextId /\ \A r \in virtual : r.id = e => r.alias.ace
      BY <1>3, <1>4, <1>7, <1>8, <1>11
    <2>2. j # 0 => j = x.ace /\ IsIdn(t.new)
      BY <1>4, <1>5
    <2>3. RowsWell(MovedRows(virtual, x.id, j, t.new, e), nextId)
      BY <1>1, <1>3, <1>6, <1>9, <2>1, <2>2, RowsMoved
    <2> QED
      BY <1>4, <1>11, <2>3, RowsDeleted
  <1> QED
    BY <1>5, <1>10, <1>11

\* What an INSERT of a request needs to keep the table in order.
LEMMA InsertWell ==
    ASSUME TypeOK, RowsWell(virtual, nextId), NEW w \in Worker,
           NEW i \in Nat, NEW a \in Alias, InsertVirtual(w, i, a),
           task[w] \in AddressTask,
           i = 0 <=> ~a.ace,
           a.local = CatchAll => a.dom = Home,
           a.ace => IsIdn(a),
           ~Plain(a) \/ ~Used(virtual, a)
    PROVE  RowsWell(virtual', nextId')
  <1>1. virtual' = virtual \cup {NewRow(nextId, i, 0, a, task[w].user)} /\ nextId' = nextId + 1
    BY DEF InsertVirtual
  <1>2. task[w].user \in User /\ nextId \in Nat /\ virtual \in SUBSET VirtualRow /\ 0 \in Nat
    BY DEF AddressTask, TypeOK
  <1>3. \A r \in virtual : r.alias # a \/ ~Plain(a)
    BY DEF Used
  <1>4. RowsWell(virtual \cup {NewRow(nextId, i, 0, a, task[w].user)}, nextId + 1)
    BY <1>2, <1>3, RowsInserted
  <1> QED
    BY <1>1, <1>4

\* A new account gets an address that nobody has.
LEMMA CreateWell ==
    ASSUME TypeOK, RowsWell(virtual, nextId), NEW w \in Worker,
           NEW u \in User, NEW l \in Local, CreateAccount(w, u, l)
    PROVE  RowsWell(virtual', nextId')
  <1> DEFINE a == Address(l, Home)
             e == IF IsIdn(a) THEN nextId + 1 ELSE 0
             first == virtual \cup {NewRow(nextId, 0, e, a, u)}
             twin == NewRow(nextId + 1, nextId, 0, AceOf(a), u)
  <1>1. a \in Alias /\ ~a.ace /\ a.local # CatchAll /\ a.dom = Home
    BY AddressAssumption DEF Address, Alias, Domain
  <1>2. ~InUse(a) /\ nextId \in Nat /\ virtual \in SUBSET VirtualRow
    BY DEF CreateAccount, TypeOK
  <1>3. nextId > 0
    BY DEF RowsWell, IdsKeyed
  <1>4. \A r \in virtual : r.alias # a \/ ~Plain(a)
    BY <1>2 DEF InUse
  <1>5. e \in Nat /\ (e = 0 \/ e = nextId + 1) /\ 0 \in Nat
    BY <1>2
  <1>6. IF IsIdn(a) THEN virtual' = first \cup {twin} /\ nextId' = nextId + 2
                   ELSE virtual' = first /\ nextId' = nextId + 1
    BY DEF CreateAccount
  <1> HIDE DEF a, e
  <1>7. /\ IdsKeyed(first, nextId + 2) /\ FormsKept(first) /\ AcePointed(first)
        /\ PlainUnique(first) /\ (e = 0 => RowsWell(first, nextId + 1))
    BY <1>1, <1>2, <1>4, <1>5, RowsInserted
  <1>8. CASE ~IsIdn(a)
    BY <1>6, <1>7, <1>8 DEF e
  <1>9. CASE IsIdn(a)
    <2>1. /\ AceOf(a) \in Alias /\ AceOf(a).ace /\ ~Plain(AceOf(a)) /\ AceOf(a).local # CatchAll
          /\ IsIdn(AceOf(a))
      BY <1>1, <1>9, AliasType DEF Plain
    <2>2. /\ twin.id = nextId + 1 /\ twin.idn = nextId /\ twin.ace = 0 /\ twin.alias = AceOf(a)
      BY DEF NewRow
    <2>3. \A r \in first : r.id < nextId + 1 /\ r.id \in Nat /\ r.ace \in Nat
      <3>1. \A r \in virtual : r.id < nextId /\ r.id \in Nat /\ r.ace \in Nat
        BY <1>2, RowType DEF RowsWell, IdsKeyed
      <3> QED
        BY <1>2, <1>5, <3>1 DEF NewRow
    <2> HIDE DEF first, twin
    <2>4. IdsKeyed(first \cup {twin}, nextId + 2)
      BY <1>2, <1>3, <1>7, <2>2, <2>3 DEF IdsKeyed
    <2>5. FormsKept(first \cup {twin})
      BY <1>3, <1>7, <2>1, <2>2 DEF FormsKept
    <2>6. AcePointed(first \cup {twin})
      BY <1>7, <2>1, <2>2 DEF AcePointed
    <2>7. PlainUnique(first \cup {twin})
      BY <1>7, <2>1, <2>2 DEF PlainUnique
    <2> QED
      BY <1>6, <1>9, <2>4, <2>5, <2>6, <2>7 DEF RowsWell
  <1> QED
    BY <1>8, <1>9

\* Whoever has checked before it writes keeps the table in order: ids are keys,
\* pointers point to ACE forms, and no address of a user is there twice.
LEMMA RowsStep ==
    ASSUME TypeOK, RowsWell(virtual, nextId),
           \A w \in Worker : Checked(virtual, nextId, task[w]), [Next]_vars
    PROVE  RowsWell(virtual', nextId')
  <1>1. ASSUME virtual' \subseteq virtual, nextId' \in {nextId, nextId + 1}
        PROVE  RowsWell(virtual', nextId')
    <2>1. RowsWell(virtual', nextId)
      BY <1>1, RowsDeleted
    <2>2. nextId \in Nat /\ \A r \in virtual' : r.id \in Nat /\ r.ace \in Nat
      BY <1>1, RowType DEF TypeOK
    <2> QED
      BY <1>1, <2>1, <2>2 DEF RowsWell, IdsKeyed
  <1>2. CASE UNCHANGED vars
    BY <1>1, <1>2 DEF vars
  <1> SUFFICES ASSUME NEW w \in Worker,
                      \/ \E u \in User : Begin(w, u)
                      \/ \E u \in User, l \in Local : CreateAccount(w, u, l)
                      \/ Step(w) \/ Failure(w)
               PROVE  RowsWell(virtual', nextId')
    BY <1>2 DEF Next
  <1> DEFINE t == task[w]
  <1>3. Checked(virtual, nextId, t)
    OBVIOUS
  <1>4. CASE \E u \in User : Begin(w, u)
    BY <1>1, <1>4, BeginQuiet
  <1>5. CASE \E u \in User, l \in Local : CreateAccount(w, u, l)
    BY <1>5, CreateWell
  <1>6. \A r \in virtual : r.id > 0 /\ r.id \in Nat
    BY RowType DEF TypeOK, RowsWell, IdsKeyed
  <1>7. ASSUME t.pc \in AddressPC
        PROVE  /\ t \in AddressTask /\ t.new \in Alias /\ t.id \in Nat /\ t.aceId \in Nat
               /\ t.user \in User
    BY <1>7, TaskKinds DEF AddressTask
  <1>8. CASE InsertAddress(w)
    <2>1. t.pc = "insertAddress" /\ Plain(t.new) /\ ~Used(virtual, t.new) /\ t.pc \in AddressPC
      BY <1>3, <1>8 DEF InsertAddress, At, Checked, AddressPC, AddPC
    <2>2. InsertVirtual(w, 0, t.new)
      BY <1>8 DEF InsertAddress
    <2> QED
      BY <1>7, <2>1, <2>2, InsertWell DEF Plain
  <1>9. CASE InsertCatchAll(w)
    <2>1. InsertVirtual(w, 0, CatchAllAddress) /\ t.pc \in AddressPC
      BY <1>9 DEF InsertCatchAll, At, AddressPC, CatchAllPC
    <2> QED
      BY <1>7, <2>1, InsertWell, CatchAllKnown
  <1>10. CASE InsertAce(w) \/ InsertCatchAllAce(w)
    <2>1. /\ t.pc \in AddressPC /\ IsIdn(t.new) /\ NewThere(virtual, t)
          /\ (t.new = CatchAllAddress \/ Plain(t.new))
          /\ InsertVirtual(w, t.id, AceOf(t.new))
      BY <1>3, <1>10 DEF InsertAce, InsertCatchAllAce, At, Checked, AddressPC, AddPC, CatchAllPC
    <2>2. t.id # 0
      BY <1>6, <2>1 DEF NewThere
    <2>3. /\ AceOf(t.new) \in Alias /\ AceOf(t.new).ace /\ ~Plain(AceOf(t.new))
          /\ IsIdn(AceOf(t.new)) /\ (AceOf(t.new).local = CatchAll => AceOf(t.new).dom = Home)
      <3>1. t.new \in Alias
        BY <1>7, <2>1
      <3>2. CASE t.new = CatchAllAddress
        BY <2>1, <3>2, CatchAllKnown
      <3>3. CASE Plain(t.new)
        BY <2>1, <3>1, <3>3, AliasType DEF Plain
      <3> QED
        BY <2>1, <3>2, <3>3
    <2> QED
      BY <1>7, <2>1, <2>2, <2>3, InsertWell
  <1>11. CASE LinkAce(w) \/ LinkCatchAll(w)
    <2>1. /\ t.pc \in AddressPC /\ AceThere(virtual, t) /\ UpdateAceID(t.id, t.aceId)
          /\ nextId' = nextId /\ (t.new = CatchAllAddress \/ Plain(t.new))
      BY <1>3, <1>11 DEF LinkAce, LinkCatchAll, At, Checked, AddressPC, AddPC, CatchAllPC
    <2>2. virtual' = LinkedRows(virtual, t.id, t.aceId)
      BY <2>1 DEF UpdateAceID, Linked, LinkedRows
    <2>3. PICK x \in virtual : x.id = t.aceId /\ x.alias = AceOf(t.new)
      BY <2>1 DEF AceThere
    <2>4. x.alias.ace
      BY <1>7, <2>1, <2>3, AliasType
    <2>5. t.aceId < nextId /\ \A r \in virtual : r.id = t.aceId => r.alias.ace
      BY <2>3, <2>4 DEF RowsWell, IdsKeyed
    <2> QED
      BY <1>7, <2>1, <2>2, <2>5, RowsLinked DEF TypeOK
  <1>12. CASE ChangeAll(w) \/ TwinFails(w)
    BY <1>3, <1>12, ChangedWell DEF ChangeAll, TwinFails
  <1> QED
    BY <1>1, <1>4, <1>5, <1>8, <1>9, <1>10, <1>11, <1>12, RowsShrink DEF Step, Failure

\* The addresses of an account, as the pages show them.
LEMMA AddressesOwned ==
    ASSUME TypeOK, RowsWell(virtual, nextId), NEW u
    PROVE  AddressesOf(u) = {a \in Alias : Owns(virtual, u, a)}
  <1>1. \A r \in virtual : r.idn = 0 <=> ~r.alias.ace
    BY DEF RowsWell, FormsKept
  <1>2. \A r \in virtual : r.alias \in Alias
    BY RowType DEF TypeOK
  <1> QED
    BY <1>1, <1>2 DEF AddressesOf, RowsOf, Owns, Plain

\* The controllers leave another address when they remove one.
LEMMA RemovalAllowed ==
    ASSUME TypeOK, RowsWell(virtual, nextId), NEW u, NEW a \in AddressesOf(u),
           MayRemove(u, a)
    PROVE  OthersRemain(virtual, u, a)
  <1> DEFINE S == AddressesOf(u)
             H == {b \in S : b.dom = Home}
  <1>1. \E b \in S : b # a
    <2> SUFFICES ASSUME \A b \in S : b = a
                 PROVE  FALSE
      OBVIOUS
    <2>1. S = {a}
      OBVIOUS
    <2>2. Cardinality(S) = 1
      BY <2>1, FS_Singleton
    <2> QED
      BY <2>2 DEF MayRemove
  <1>2. ASSUME a.dom = Home
        PROVE  \E b \in S : b # a /\ b.dom = Home
    <2> SUFFICES ASSUME \A b \in S : b.dom = Home => b = a
                 PROVE  FALSE
      OBVIOUS
    <2>1. H = {a}
      BY <1>2
    <2>2. Cardinality(H) = 1
      BY <2>1, FS_Singleton
    <2> QED
      BY <1>2, <2>2 DEF MayRemove
  <1>3. \A b \in S : Plain(b) /\ \E r \in virtual : r.user = u /\ r.alias = b
    BY AddressesOwned DEF Owns
  <1> QED
    BY <1>1, <1>2, <1>3 DEF OthersRemain

\* Going on does not change what the request is about.
LEMMA GotoFields ==
    ASSUME TypeOK, NEW w \in Worker, task[w].pc \in AddressPC,
           NEW q \in AddressPC, Goto(w, q)
    PROVE  /\ task'[w].pc = q /\ task'[w].op = task[w].op /\ task'[w].user = task[w].user
           /\ task'[w].old = task[w].old /\ task'[w].new = task[w].new
           /\ task'[w].id = task[w].id /\ task'[w].aceId = task[w].aceId
  <1>1. task'[w] = [task[w] EXCEPT !.pc = q] /\ task[w] \in AddressTask
    BY GotoAddress, TaskKinds
  <1> QED
    BY <1>1 DEF AddressTask

\* A request begins with what the page it was sent from has shown.
LEMMA BeginChecked ==
    ASSUME TypeOK, RowsWell(virtual, nextId), NEW w \in Worker, NEW u \in User, Begin(w, u)
    PROVE  Checked(virtual', nextId', task'[w])
  <1>1. virtual' = virtual /\ nextId' = nextId
    BY BeginQuiet
  <1>2. CASE task'[w].pc \notin AddressPC
    BY <1>2, CheckedOther
  <1>3. CASE BeginAdd(w, u)
    <2>1. PICK l \in Local, d \in Domain :
            Start(w, "checkAddress", "add", u, Address(l, d), Address(l, d))
      BY <1>3 DEF BeginAdd
    <2>2. Plain(Address(l, d)) /\ Address(l, d) \in Alias
      BY AddressAssumption DEF Plain, Address, Alias
    <2>3. "checkAddress" \in AddressPC
      BY DEF AddressPC
    <2>4. task'[w] = [pc |-> "checkAddress", op |-> "add", user |-> u, old |-> Address(l, d),
                      new |-> Address(l, d), id |-> 0, aceId |-> 0]
      BY <2>1, <2>2, <2>3, StartType
    <2> QED
      BY <2>2, <2>4 DEF Checked, AddPC, RemovePC, CatchAllPC
  <1>4. CASE BeginChange(w, u)
    <2>1. PICK l \in Local, d \in Domain, old \in AddressesOf(u) :
            Start(w, "checkAddress", "change", u, old, Address(l, d))
      BY <1>4 DEF BeginChange
    <2>2. /\ Plain(Address(l, d)) /\ Address(l, d) \in Alias
          /\ old \in Alias /\ Owns(virtual, u, old)
      BY AddressAssumption, AddressesOwned DEF Plain, Address, Alias
    <2>3. "checkAddress" \in AddressPC
      BY DEF AddressPC
    <2>4. task'[w] = [pc |-> "checkAddress", op |-> "change", user |-> u, old |-> old,
                      new |-> Address(l, d), id |-> 0, aceId |-> 0]
      BY <2>1, <2>2, <2>3, StartType
    <2> QED
      BY <1>1, <2>2, <2>4 DEF Checked, AddPC, RemovePC, CatchAllPC
  <1>5. CASE BeginRemove(w, u)
    <2>1. PICK old \in AddressesOf(u) :
            MayRemove(u, old) /\ Start(w, "getAddress", "remove", u, old, old)
      BY <1>5 DEF BeginRemove
    <2>2. old \in Alias /\ Owns(virtual, u, old) /\ Plain(old) /\ OthersRemain(virtual, u, old)
      BY <2>1, AddressesOwned, RemovalAllowed DEF Owns
    <2>3. "getAddress" \in AddressPC
      BY DEF AddressPC
    <2>4. task'[w] = [pc |-> "getAddress", op |-> "remove", user |-> u, old |-> old,
                      new |-> old, id |-> 0, aceId |-> 0]
      BY <2>1, <2>2, <2>3, StartType
    <2> QED
      BY <1>1, <2>2, <2>4 DEF Checked, AddPC, RemovePC, CatchAllPC
  <1>6. CASE BeginCatchAll(w, u)
    <2>1. PICK p \in {"removeCatchAll", "dropCatchAll"} :
            Start(w, p, "catchall", u, CatchAllAddress, CatchAllAddress)
      BY <1>6 DEF BeginCatchAll, CatchAllAddress
    <2>2. p \in AddressPC
      BY DEF AddressPC, CatchAllPC
    <2>3. task'[w] = [pc |-> p, op |-> "catchall", user |-> u, old |-> CatchAllAddress,
                      new |-> CatchAllAddress, id |-> 0, aceId |-> 0]
      BY <2>1, <2>2, StartType, CatchAllKnown
    <2> QED
      BY <2>1, <2>3 DEF Checked, AddPC, RemovePC, CatchAllPC
  <1>7. CASE BeginRemoveAccount(w, u)
    <2>1. task'[w].pc = "removeVirtual"
      BY <1>7 DEF BeginRemoveAccount, TypeOK
    <2> QED
      BY <1>2, <2>1 DEF AddressPC, AddPC, ChangePC, RemovePC, CatchAllPC
  <1>8. CASE BeginAddForward(w, u) \/ BeginRemoveForward(w, u)
             \/ BeginEditForward(w, u) \/ BeginKeepLocal(w, u)
    <2>1. task'[w].pc = "queryForwards"
      BY <1>8 DEF BeginAddForward, BeginRemoveForward, BeginEditForward, BeginKeepLocal,
         StartForward, TypeOK
    <2> QED
      BY <1>2, <2>1 DEF AddressPC, AddPC, ChangePC, RemovePC, CatchAllPC
  <1> QED
    BY <1>3, <1>4, <1>5, <1>6, <1>7, <1>8 DEF Begin

LEMMA FinishChecked ==
    ASSUME TypeOK, NEW w \in Worker, Finish(w)
    PROVE  Checked(virtual', nextId', task'[w])
  <1>1. task'[w].pc \notin AddressPC
    BY FinishType DEF Idle, AddressPC, AddPC, ChangePC, RemovePC, CatchAllPC
  <1> QED
    BY <1>1, CheckedOther

\* The steps of addEmail and of the catch-all that write rows.
LEMMA InsertChecked ==
    ASSUME TypeOK, RowsWell(virtual, nextId), NEW w \in Worker,
           Checked(virtual, nextId, task[w]),
           \/ InsertAddress(w) \/ InsertAce(w) \/ InsertCatchAll(w) \/ InsertCatchAllAce(w)
    PROVE  Checked(virtual', nextId', task'[w])
  <1> DEFINE t == task[w]
             s == task'[w]
  <1>1. t.pc \in AddressPC
    BY DEF InsertAddress, InsertAce, InsertCatchAll, InsertCatchAllAce, At, AddressPC,
       AddPC, CatchAllPC
  <1>2. t \in AddressTask
    BY <1>1, TaskKinds
  <1>3. \A i, e, a, u : LET r == NewRow(i, e, 0, a, u)
                        IN  r.id = i /\ r.idn = e /\ r.ace = 0 /\ r.alias = a /\ r.user = u
    BY DEF NewRow
  <1>4. CASE InsertAddress(w)
    <2>1. /\ Plain(t.new) /\ t.aceId = 0 /\ t.pc = "insertAddress"
          /\ virtual' = virtual \cup {NewRow(nextId, 0, 0, t.new, t.user)}
      BY <1>4 DEF InsertAddress, InsertVirtual, At, Checked, AddPC
    <2>2. CASE IsIdn(t.new)
      <3>1. task' = [task EXCEPT ![w].pc = "insertAce", ![w].id = nextId]
        BY <1>4, <2>2 DEF InsertAddress
      <3>2. s.pc = "insertAce" /\ s.user = t.user /\ s.new = t.new /\ s.id = nextId /\ s.aceId = 0
        BY <1>2, <2>1, <3>1 DEF TypeOK, AddressTask
      <3>3. NewThere(virtual', s)
        BY <1>3, <2>1, <3>2 DEF NewThere
      <3> QED
        BY <2>1, <2>2, <3>2, <3>3 DEF Checked, AddPC, RemovePC, CatchAllPC
    <2>3. CASE ~IsIdn(t.new)
      BY <1>4, <2>3, FinishChecked DEF InsertAddress
    <2> QED
      BY <2>2, <2>3
  <1>5. CASE InsertCatchAll(w)
    <2>1. /\ t.new = CatchAllAddress
          /\ virtual' = virtual \cup {NewRow(nextId, 0, 0, CatchAllAddress, t.user)}
      BY <1>5 DEF InsertCatchAll, InsertVirtual, At, Checked, CatchAllPC
    <2>2. CASE IsIdn(CatchAllAddress)
      <3>1. task' = [task EXCEPT ![w].pc = "insertCatchAllAce", ![w].id = nextId]
        BY <1>5, <2>2 DEF InsertCatchAll
      <3>2. /\ s.pc = "insertCatchAllAce" /\ s.user = t.user /\ s.new = CatchAllAddress
            /\ s.id = nextId
        BY <1>2, <2>1, <3>1 DEF TypeOK, AddressTask
      <3>3. NewThere(virtual', s)
        BY <1>3, <2>1, <3>2 DEF NewThere
      <3> QED
        BY <2>2, <3>2, <3>3 DEF Checked, AddPC, RemovePC, CatchAllPC
    <2>3. CASE ~IsIdn(CatchAllAddress)
      BY <1>5, <2>3, FinishChecked DEF InsertCatchAll
    <2> QED
      BY <2>2, <2>3
  <1>6. CASE InsertAce(w) \/ InsertCatchAllAce(w)
    <2> DEFINE q == IF t.pc = "insertAce" THEN "linkAce" ELSE "linkCatchAll"
    <2>1. /\ IsIdn(t.new) /\ NewThere(virtual, t)
          /\ t.pc = "insertAce" => Plain(t.new)
          /\ t.pc # "insertAce" => t.new = CatchAllAddress
          /\ virtual' = virtual \cup {NewRow(nextId, t.id, 0, AceOf(t.new), t.user)}
          /\ task' = [task EXCEPT ![w].pc = q, ![w].aceId = nextId]
      BY <1>6 DEF InsertAce, InsertCatchAllAce, InsertVirtual, At, Checked, AddPC, CatchAllPC
    <2>2. q \in {"linkAce", "linkCatchAll"} /\ (q = "linkAce" <=> t.pc = "insertAce")
      OBVIOUS
    <2> HIDE DEF q
    <2>3. s.pc = q /\ s.user = t.user /\ s.new = t.new /\ s.id = t.id /\ s.aceId = nextId
      BY <1>2, <2>1 DEF TypeOK, AddressTask
    <2>4. NewThere(virtual', s)
      BY <2>1, <2>3 DEF NewThere
    <2>5. AceThere(virtual', s)
      BY <1>3, <2>1, <2>3 DEF AceThere
    <2> QED
      BY <2>1, <2>2, <2>3, <2>4, <2>5 DEF Checked, AddPC, RemovePC, CatchAllPC
  <1> QED
    BY <1>4, <1>5, <1>6

\* canAddAddress() and EmailAddress::get().
LEMMA LookupChecked ==
    ASSUME TypeOK, RowsWell(virtual, nextId), NEW w \in Worker,
           Checked(virtual, nextId, task[w]), CheckAddress(w) \/ GetAddress(w)
    PROVE  Checked(virtual', nextId', task'[w])
  <1> DEFINE t == task[w]
             s == task'[w]
  <1>1. t.pc \in {"checkAddress", "getAddress"} /\ t.pc \in AddressPC
        /\ virtual' = virtual /\ nextId' = nextId
    BY DEF CheckAddress, GetAddress, At, AddressPC
  <1>2. CASE Finish(w)
    BY <1>2, FinishChecked
  <1>3. ASSUME CheckAddress(w), ~Finish(w)
        PROVE  Checked(virtual', nextId', s)
    <2> DEFINE q == IF t.op = "add" THEN "insertAddress" ELSE "getAddress"
    <2>1. t.pc = "checkAddress" /\ Goto(w, q) /\ ~InUse(t.new)
      BY <1>3 DEF CheckAddress, At, Refused
    <2>2. q \in AddressPC /\ (t.op = "add" => q = "insertAddress")
          /\ (t.op = "change" => q = "getAddress")
      BY DEF AddressPC, AddPC
    <2>3. /\ Plain(t.new) /\ t.aceId = 0 /\ t.op \in {"add", "change"}
          /\ (t.op = "add" \/ Owns(virtual, t.user, t.old)) /\ ~Used(virtual, t.new)
      BY <2>1 DEF Checked, InUse, Used
    <2> HIDE DEF q
    <2>4. s.pc = q /\ s.op = t.op /\ s.user = t.user /\ s.old = t.old /\ s.new = t.new
          /\ s.id = t.id /\ s.aceId = t.aceId
      BY <1>1, <2>1, <2>2, GotoFields
    <2>5. CASE t.op = "add"
      BY <1>1, <2>2, <2>3, <2>4, <2>5 DEF Checked, AddPC, RemovePC, CatchAllPC
    <2>6. CASE t.op = "change"
      BY <1>1, <2>2, <2>3, <2>4, <2>6 DEF Checked, AddPC, RemovePC, CatchAllPC
    <2> QED
      BY <2>3, <2>5, <2>6
  <1>4. ASSUME GetAddress(w), NEW r \in virtual, FoundBy(w, r)
        PROVE  Checked(virtual', nextId', s)
    <2>1. t.pc = "getAddress"
      BY <1>4 DEF GetAddress, At
    <2>2. \/ t.op = "change" /\ ~Used(virtual, t.new)
          \/ t.op = "remove" /\ OthersRemain(virtual, t.user, t.old)
      BY <2>1 DEF Checked
    <2>3. Plain(t.new) /\ Owns(virtual, t.user, t.old)
      BY <2>1, <2>2 DEF Checked
    <2>4. PICK x \in virtual : x.user = t.user /\ x.alias = t.old
      BY <2>3 DEF Owns
    <2>5. r = x
      BY <1>4, <2>3, <2>4 DEF FoundBy, Owns, RowsWell, PlainUnique
    <2>6. /\ s.id = r.id /\ s.aceId = r.ace /\ s.user = t.user /\ s.old = t.old
          /\ s.new = t.new /\ r.alias = t.old
      BY <1>4 DEF FoundBy
    <2>7. OldThere(virtual, s) /\ Plain(s.old)
      BY <2>3, <2>4, <2>5, <2>6 DEF OldThere, Owns
    <2>8. CASE t.op = "change"
      <3>1. s.pc = "changeAddress"
        BY <1>4, <2>8 DEF FoundBy
      <3> QED
        BY <1>1, <2>2, <2>3, <2>6, <2>7, <2>8, <3>1 DEF Checked, AddPC, RemovePC, CatchAllPC
    <2>9. CASE t.op = "remove"
      <3>1. (s.pc = "removeAce" /\ r.ace > 0) \/ s.pc = "removeAddress"
        BY <1>4, <2>9 DEF FoundBy
      <3> QED
        BY <1>1, <2>2, <2>3, <2>6, <2>7, <2>9, <3>1 DEF Checked, AddPC, RemovePC, CatchAllPC
    <2> QED
      BY <2>2, <2>8, <2>9
  <1> QED
    BY <1>2, <1>3, <1>4, GetEffect

\* What follows when rows have been deleted, or when a statement has failed.
LEMMA UndoChecked ==
    ASSUME TypeOK, RowsWell(virtual, nextId), NEW w \in Worker,
           Checked(virtual, nextId, task[w]),
           \/ UndoAddress(w) \/ UndoAce(w) \/ RemoveAce(w) \/ RemoveAddress(w)
           \/ DropCatchAll(w) \/ UndoCatchAll(w) \/ RemoveCatchAll(w) \/ RemoveCatchAllAce(w)
           \/ LinkAce(w) \/ LinkCatchAll(w) \/ ChangeAll(w) \/ TwinFails(w)
           \/ StatementFails(w) \/ Crash(w)
    PROVE  Checked(virtual', nextId', task'[w])
  <1> DEFINE t == task[w]
             s == task'[w]
  <1>1. CASE Finish(w)
    BY <1>1, FinishChecked
  <1>2. ASSUME t.pc \in AddressPC, NEW q \in AddressPC, Goto(w, q)
        PROVE  s.pc = q /\ s.op = t.op /\ s.user = t.user /\ s.old = t.old /\ s.new = t.new
               /\ s.id = t.id /\ s.aceId = t.aceId
    BY <1>2, GotoFields
  <1>3. ASSUME t.pc \in CatchAllPC, NEW q \in {"insertCatchAll", "removeCatchAllAce", "undoCatchAll"},
               Goto(w, q)
        PROVE  Checked(virtual', nextId', s)
    <2>1. t.pc \in AddressPC /\ q \in AddressPC /\ t.new = CatchAllAddress
      BY <1>3 DEF AddressPC, CatchAllPC, Checked
    <2>2. s.pc = q /\ s.new = CatchAllAddress
      BY <1>2, <1>3, <2>1
    <2> QED
      BY <1>3, <2>2 DEF Checked, AddPC, RemovePC, CatchAllPC
  <1>4. CASE DropCatchAll(w) \/ UndoCatchAll(w) \/ RemoveCatchAll(w) \/ RemoveCatchAllAce(w)
    BY <1>1, <1>3, <1>4 DEF DropCatchAll, UndoCatchAll, RemoveCatchAll, RemoveCatchAllAce,
       At, CatchAllPC
  <1>5. ASSUME virtual' \subseteq virtual, nextId' = nextId, t.pc \in AddressPC,
               t.new = t.new, Plain(t.new), Goto(w, "undoAce"),
               AceOnly(virtual, nextId, t.aceId)
        PROVE  Checked(virtual', nextId', s)
    <2>1. "undoAce" \in AddressPC
      BY DEF AddressPC, AddPC
    <2>2. s.pc = "undoAce" /\ s.new = t.new /\ s.aceId = t.aceId
      BY <1>2, <1>5, <2>1
    <2>3. AceOnly(virtual', nextId', s.aceId)
      BY <1>5, <2>2 DEF AceOnly
    <2> QED
      BY <1>5, <2>2, <2>3 DEF Checked, AddPC, RemovePC, CatchAllPC
  <1>6. CASE UndoAddress(w)
    <2>1. /\ t.pc = "undoAddress" /\ virtual' \subseteq virtual /\ nextId' = nextId
          /\ Plain(t.new) /\ t.pc \in AddressPC
          /\ t.aceId # 0 => AceOnly(virtual, nextId, t.aceId)
      BY <1>6 DEF UndoAddress, At, RemoveVirtualByID, DeleteRows, Checked, AddressPC, AddPC
    <2> QED
      BY <1>1, <1>5, <1>6, <2>1 DEF UndoAddress
  <1>7. CASE RemoveAce(w)
    <2>1. /\ t.pc = "removeAce" /\ nextId' = nextId /\ Goto(w, "removeAddress")
          /\ virtual' = virtual \ {r \in virtual : r.id = t.aceId}
          /\ Plain(t.old) /\ OldThere(virtual, t) /\ t.aceId > 0
          /\ OthersRemain(virtual, t.user, t.old)
          /\ t.pc \in AddressPC /\ "removeAddress" \in AddressPC
      BY <1>7 DEF RemoveAce, At, RemoveVirtualByID, DeleteRows, Checked, AddressPC, RemovePC
    <2>2. s.pc = "removeAddress" /\ s.user = t.user /\ s.old = t.old /\ s.new = t.new
          /\ s.id = t.id /\ s.aceId = t.aceId
      BY <1>2, <2>1
    <2>3. PICK x \in virtual : x.id = t.id /\ x.alias = t.old /\ x.user = t.user
                               /\ x.ace = t.aceId
      BY <2>1 DEF OldThere
    <2>4. \A r \in virtual : r.id = t.aceId => r.alias.ace
      BY <2>1, <2>3 DEF RowsWell, AcePointed
    <2>5. \A r \in virtual : Plain(r.alias) => r \in virtual'
      BY <2>1, <2>4 DEF Plain
    <2>6. OldThere(virtual', s)
      BY <2>1, <2>2, <2>3, <2>5 DEF OldThere
    <2>7. OthersRemain(virtual', s.user, s.old)
      BY <2>1, <2>2, <2>5 DEF OthersRemain
    <2> QED
      BY <2>1, <2>2, <2>6, <2>7 DEF Checked, AddPC, RemovePC, CatchAllPC
  <1>8. CASE StatementFails(w)
    <2>1. virtual' = virtual /\ nextId' = nextId
      BY <1>8 DEF StatementFails
    <2>2. CASE OnError(w) = "idle"
      BY <1>1, <1>8, <2>2 DEF StatementFails
    <2>3. CASE t.pc \in {"dropCatchAll", "linkCatchAll"}
      <3>1. OnError(w) \in {"insertCatchAll", "undoCatchAll"}
        BY <2>3 DEF OnError, At
      <3>2. Goto(w, OnError(w)) /\ t.pc \in CatchAllPC
        BY <1>8, <2>3, <3>1 DEF StatementFails, CatchAllPC
      <3> QED
        BY <1>3, <3>1, <3>2
    <2>4. CASE t.pc = "undoAddress" /\ OnError(w) # "idle"
      <3>1. OnError(w) = "undoAce" /\ t.aceId > 0
        BY <2>4 DEF OnError, At
      <3>2. Goto(w, "undoAce") /\ t.pc \in AddressPC
        BY <1>8, <2>4, <3>1 DEF StatementFails, AddressPC, AddPC
      <3>3. Plain(t.new) /\ AceOnly(virtual, nextId, t.aceId)
        BY <2>4, <3>1 DEF Checked, AddPC
      <3> QED
        BY <1>5, <2>1, <3>2, <3>3
    <2>5. CASE t.pc \in {"insertAce", "linkAce"}
      <3>1. OnError(w) = "undoAddress"
        BY <2>5 DEF OnError, At
      <3>2. Goto(w, "undoAddress") /\ t.pc \in AddressPC /\ "undoAddress" \in AddressPC
        BY <1>8, <2>5, <3>1 DEF StatementFails, AddressPC, AddPC
      <3>3. s.pc = "undoAddress" /\ s.user = t.user /\ s.new = t.new /\ s.id = t.id
            /\ s.aceId = t.aceId
        BY <1>2, <3>2
      <3>4. Plain(t.new) /\ NewThere(virtual, t)
            /\ (t.pc = "insertAce" => t.aceId = 0) /\ (t.pc = "linkAce" => AceThere(virtual, t))
        BY <2>5 DEF Checked, AddPC
      <3>5. \A r \in virtual : r.id = t.id => r.user = t.user
        BY <3>4 DEF NewThere, RowsWell, IdsKeyed
      <3>6. t.aceId # 0 => AceOnly(virtual, nextId, t.aceId)
        <4> SUFFICES ASSUME t.aceId # 0
                     PROVE  AceOnly(virtual, nextId, t.aceId)
          OBVIOUS
        <4>1. PICK x \in virtual : x.id = t.aceId /\ x.alias = AceOf(t.new)
          BY <2>5, <3>4 DEF AceThere
        <4>2. t.new \in Alias
          BY <3>2, TaskKinds DEF AddressTask
        <4>3. x.alias.ace
          BY <4>1, <4>2, AliasType
        <4> QED
          BY <4>1, <4>3 DEF AceOnly, RowsWell, IdsKeyed
      <3> QED
        BY <2>1, <3>3, <3>4, <3>5, <3>6 DEF Checked, AddPC, RemovePC, CatchAllPC
    <2> QED
      BY <2>2, <2>3, <2>4, <2>5 DEF OnError, At
  <1> QED
    BY <1>1, <1>4, <1>6, <1>7, <1>8 DEF UndoAce, RemoveAddress, LinkAce, LinkCatchAll,
       ChangeAll, TwinFails, ChangeAddress, Crash

\* What a request knows stays true while it goes on.
LEMMA CheckedStep ==
    ASSUME TypeOK, RowsWell(virtual, nextId), NEW w \in Worker,
           Checked(virtual, nextId, task[w]),
           \/ \E u \in User : Begin(w, u)
           \/ \E u \in User, l \in Local : CreateAccount(w, u, l)
           \/ Step(w) \/ Failure(w)
    PROVE  Checked(virtual', nextId', task'[w])
  <1>1. CASE \E u \in User : Begin(w, u)
    BY <1>1, BeginChecked
  <1>2. CASE \E u \in User, l \in Local : CreateAccount(w, u, l)
    <2>1. task'[w].pc = "idle"
      BY <1>2 DEF CreateAccount, CanStart, At
    <2> QED
      BY <2>1, CheckedOther DEF AddressPC, AddPC, ChangePC, RemovePC, CatchAllPC
  <1>3. CASE RemoveVirtual(w) \/ RemoveForwards(w) \/ RemoveAccount(w)
    <2>1. task[w].pc \in AccountPC
      BY <1>3 DEF RemoveVirtual, RemoveForwards, RemoveAccount, At, AccountPC
    <2>2. CASE Finish(w)
      BY <2>2, FinishChecked
    <2>3. ASSUME NEW q \in AccountPC, Goto(w, q)
          PROVE  task'[w].pc = q
      BY <2>1, <2>3, TaskKinds DEF Goto, TypeOK, AccountTask
    <2>4. CASE \E q \in AccountPC : Goto(w, q)
      <3>1. task'[w].pc \in AccountPC
        BY <2>3, <2>4
      <3> QED
        BY <3>1, CheckedOther DEF AccountPC, AddressPC, AddPC, ChangePC, RemovePC, CatchAllPC
    <2> QED
      BY <1>3, <2>2, <2>4 DEF RemoveVirtual, RemoveForwards, RemoveAccount, AccountPC
  <1>4. CASE QueryForwards(w)
    <2>1. CASE Finish(w)
      BY <2>1, FinishChecked
    <2>2. CASE ~Finish(w)
      <3>1. task[w] \in ForwardTask
        BY <1>4, TaskKinds DEF QueryForwards, At, ForwardPC
      <3>2. PICK x : task' = [task EXCEPT ![w].pc = "writeForwards", ![w].list = x]
        BY <1>4, <2>2 DEF QueryForwards
      <3>3. task'[w].pc = "writeForwards"
        BY <3>1, <3>2 DEF TypeOK, ForwardTask
      <3> QED
        BY <3>3, CheckedOther DEF AddressPC, AddPC, ChangePC, RemovePC, CatchAllPC
    <2> QED
      BY <2>1, <2>2
  <1>5. CASE AddForward(w) \/ RemoveForward(w) \/ EditForward(w) \/ ChangeKeepLocal(w)
    BY <1>5, FinishChecked DEF AddForward, RemoveForward, EditForward, ChangeKeepLocal, Writes
  <1> QED
    BY <1>1, <1>2, <1>3, <1>4, <1>5, InsertChecked, LookupChecked, UndoChecked DEF Step, Failure

-----------------------------------------------------------------------------
(* The last address *)

\* All addresses of the account are still there, wherever they are kept.
Stay(rows, others, u) ==
    \A r \in rows : r.user = u /\ Plain(r.alias) =>
        \E s \in others : s.user = u /\ s.alias = r.alias

\* What a step can do to the addresses of an account: nothing, remove or undo,
\* change one into another, or remove one that is not the last.
LEMMA AddressesAfter ==
    ASSUME TypeOK, RowsWell(virtual, nextId),
           \A w \in Worker : Checked(virtual, nextId, task[w]), [Next]_vars, NEW u
    PROVE  \/ Stay(virtual, virtual', u)
           \/ \E w \in Worker : /\ task[w].pc \in {"removeVirtual", "undoAddress"}
                               /\ task[w].user = u
           \/ /\ \E w \in Worker : task[w].pc = "changeAddress" /\ task[w].user = u
              /\ \E s \in virtual' : s.user = u /\ Plain(s.alias)
           \/ \E a : /\ OthersRemain(virtual, u, a)
                     /\ \A r \in virtual : r.user = u /\ Plain(r.alias) /\ r.alias # a
                                              => r \in virtual'
  <1> DEFINE Goal ==
           \/ Stay(virtual, virtual', u)
           \/ \E w \in Worker : /\ task[w].pc \in {"removeVirtual", "undoAddress"}
                               /\ task[w].user = u
           \/ /\ \E w \in Worker : task[w].pc = "changeAddress" /\ task[w].user = u
              /\ \E s \in virtual' : s.user = u /\ Plain(s.alias)
           \/ \E a : /\ OthersRemain(virtual, u, a)
                     /\ \A r \in virtual : r.user = u /\ Plain(r.alias) /\ r.alias # a
                                              => r \in virtual'
  <1> SUFFICES Goal
    OBVIOUS
  <1>1. ASSUME virtual \subseteq virtual'
        PROVE  Goal
    BY <1>1 DEF Stay
  <1>2. CASE UNCHANGED vars
    BY <1>1, <1>2 DEF vars
  <1> SUFFICES ASSUME NEW w \in Worker,
                      \/ \E v \in User : Begin(w, v)
                      \/ \E v \in User, l \in Local : CreateAccount(w, v, l)
                      \/ Step(w) \/ Failure(w)
               PROVE  Goal
    BY <1>2 DEF Next
  <1> DEFINE t == task[w]
  <1>3. ASSUME \A r \in virtual : r.user = u /\ Plain(r.alias) => r \in virtual'
        PROVE  Goal
    BY <1>3 DEF Stay
  <1>4. CASE \E v \in User : Begin(w, v)
    BY <1>1, <1>4, BeginQuiet
  <1>5. CASE \E v \in User, l \in Local : CreateAccount(w, v, l)
    BY <1>1, <1>5 DEF CreateAccount
  <1>6. CASE RemoveVirtual(w)
    <2>1. CASE t.user = u
      BY <1>6, <2>1 DEF RemoveVirtual, At
    <2>2. CASE t.user # u
      BY <1>3, <1>6, <2>2 DEF RemoveVirtual, DeleteRows
    <2> QED
      BY <2>1, <2>2
  <1>7. CASE UndoAddress(w)
    <2>1. t.pc = "undoAddress" /\ virtual' = virtual \ {r \in virtual : r.id = t.id}
          /\ \A r \in virtual : r.id = t.id => r.user = t.user
      BY <1>7 DEF UndoAddress, At, RemoveVirtualByID, DeleteRows, Checked
    <2>2. CASE t.user = u
      BY <2>1, <2>2
    <2>3. CASE t.user # u
      BY <1>3, <2>1, <2>3
    <2> QED
      BY <2>2, <2>3
  <1>8. CASE UndoAce(w) \/ RemoveAce(w)
    <2>1. virtual' = virtual \ {r \in virtual : r.id = t.aceId}
      BY <1>8 DEF UndoAce, RemoveAce, RemoveVirtualByID, DeleteRows
    <2>2. \A r \in virtual : r.id = t.aceId => r.alias.ace
      <3>1. CASE UndoAce(w)
        BY <3>1 DEF UndoAce, At, Checked, AceOnly
      <3>2. CASE RemoveAce(w)
        <4>1. t.aceId > 0 /\ OldThere(virtual, t)
          BY <3>2 DEF RemoveAce, At, Checked, RemovePC
        <4> QED
          BY <4>1 DEF OldThere, RowsWell, AcePointed
      <3> QED
        BY <1>8, <3>1, <3>2
    <2> QED
      BY <1>3, <2>1, <2>2 DEF Plain
  <1>9. CASE RemoveAddress(w)
    <2>1. /\ virtual' = virtual \ {r \in virtual : r.id = t.id}
          /\ OldThere(virtual, t) /\ OthersRemain(virtual, t.user, t.old)
      BY <1>9 DEF RemoveAddress, At, RemoveVirtualByID, DeleteRows, Checked, RemovePC
    <2>2. PICK x \in virtual : x.id = t.id /\ x.alias = t.old /\ x.user = t.user
      BY <2>1 DEF OldThere
    <2>3. \A r \in virtual : r.id = t.id => r = x
      BY <2>2 DEF RowsWell, IdsKeyed
    <2>4. CASE t.user = u
      BY <2>1, <2>2, <2>3, <2>4
    <2>5. CASE t.user # u
      BY <1>3, <2>1, <2>2, <2>3, <2>5
    <2> QED
      BY <2>4, <2>5
  <1>10. CASE ChangeAll(w) \/ TwinFails(w)
    <2>1. PICK twin \in BOOLEAN, link \in BOOLEAN : ChangeAddress(w, twin, link)
      BY <1>10 DEF ChangeAll, TwinFails
    <2>2. t.pc = "changeAddress" /\ Plain(t.new) /\ Plain(t.old) /\ OldThere(virtual, t)
      BY <2>1 DEF ChangeAddress, At, Checked
    <2>3. t \in AddressTask /\ virtual \subseteq VirtualRow
      BY <2>1, <2>2, ChangedRows DEF TypeOK
    <2>4. t.new \in Alias
      BY <2>3 DEF AddressTask
    <2>5. PICK j, e : /\ j # 0 => j = t.aceId
                      /\ \/ MovedRows(virtual, t.id, j, t.new, e) \subseteq virtual'
                         \/ /\ t.aceId > 0
                            /\ virtual' = {r \in MovedRows(virtual, t.id, j, t.new, e) :
                                              r.id # t.aceId}
      BY <2>1, <2>2, ChangedRows
    <2>6. PICK x \in virtual : x.id = t.id /\ x.alias = t.old /\ x.user = t.user
                               /\ x.ace = t.aceId
      BY <2>2 DEF OldThere
    <2>7. \A r \in virtual : t.aceId > 0 /\ r.id = t.aceId => ~Plain(r.alias)
      BY <2>6 DEF Plain, RowsWell, AcePointed
    <2>8. \A r \in virtual : r.id # 0 /\ (r.id = t.id => r = x)
      BY <2>6 DEF RowsWell, IdsKeyed
    <2>9. ASSUME NEW r \in virtual, Plain(r.alias), r # x
          PROVE  r \in virtual'
      <3>1. r.id # t.id /\ r.id # j /\ (t.aceId > 0 => r.id # t.aceId)
        <4>1. t.aceId \in Nat
          BY <2>3 DEF AddressTask
        <4> QED
          BY <2>5, <2>7, <2>8, <2>9, <4>1
      <3>2. Moved(r, t.id, j, t.new, e) = r
        BY <3>1 DEF Moved
      <3>3. r \in MovedRows(virtual, t.id, j, t.new, e)
        BY <3>2 DEF MovedRows
      <3> QED
        BY <2>5, <3>1, <3>3
    <2>10. \E s \in virtual' : s.user = t.user /\ s.alias = t.new
      <3> DEFINE s == Moved(x, t.id, j, t.new, e)
      <3>1. s.id = t.id /\ s.user = t.user /\ s.alias = t.new
        BY <2>3, <2>4, <2>6, MovedFields
      <3>2. s \in MovedRows(virtual, t.id, j, t.new, e)
        BY DEF MovedRows
      <3>3. t.aceId > 0 => t.id # t.aceId
        BY <2>2, <2>6, <2>7
      <3> HIDE DEF s
      <3> QED
        BY <2>5, <3>1, <3>2, <3>3
    <2>11. CASE t.user = u
      BY <2>2, <2>10, <2>11
    <2>12. CASE t.user # u
      BY <1>3, <2>6, <2>9, <2>12
    <2> QED
      BY <2>11, <2>12
  <1>11. CASE DropCatchAll(w) \/ UndoCatchAll(w) \/ RemoveCatchAll(w) \/ RemoveCatchAllAce(w)
    <2>1. \A r \in virtual : Plain(r.alias) =>
            r.alias \notin CatchAllForms /\ r.alias # CatchAllAddress
            /\ r.alias # AceOf(CatchAllAddress)
      BY CatchAllKnown DEF CatchAllForms
    <2> QED
      BY <1>3, <1>11, <2>1 DEF DropCatchAll, UndoCatchAll, RemoveCatchAll, RemoveCatchAllAce,
         DeleteRows
  <1>12. CASE InsertAddress(w) \/ InsertAce(w) \/ InsertCatchAll(w) \/ InsertCatchAllAce(w)
    BY <1>1, <1>12 DEF InsertAddress, InsertAce, InsertCatchAll, InsertCatchAllAce, InsertVirtual
  <1>13. CASE LinkAce(w) \/ LinkCatchAll(w)
    <2>1. virtual' = LinkedRows(virtual, t.id, t.aceId)
      BY <1>13 DEF LinkAce, LinkCatchAll, UpdateAceID, Linked, LinkedRows
    <2>2. \A r \in virtual : /\ Linked(r, t.id, t.aceId) \in virtual'
                             /\ Linked(r, t.id, t.aceId).user = r.user
                             /\ Linked(r, t.id, t.aceId).alias = r.alias
      BY <2>1, LinkedFields DEF LinkedRows, TypeOK
    <2> QED
      BY <2>2 DEF Stay
  <1>14. CASE RemoveForwards(w) \/ RemoveAccount(w) \/ CheckAddress(w) \/ GetAddress(w)
              \/ QueryForwards(w) \/ AddForward(w) \/ RemoveForward(w) \/ EditForward(w)
              \/ ChangeKeepLocal(w) \/ StatementFails(w) \/ Crash(w)
    BY <1>1, <1>14 DEF RemoveForwards, RemoveAccount, CheckAddress, GetAddress, QueryForwards,
       AddForward, RemoveForward, EditForward, ChangeKeepLocal, Writes, StatementFails, Crash
  <1> QED
    BY <1>4, <1>5, <1>6, <1>7, <1>8, <1>9, <1>10, <1>11, <1>12, <1>13, <1>14 DEF Step, Failure

\* What the theorem needs to know about the state: the table is in order, and
\* what a request has checked still holds.
AddressInv ==
    /\ TypeOK
    /\ RowsWell(virtual, nextId)
    /\ \A w \in Worker : Checked(virtual, nextId, task[w])

LEMMA AddressInit ==
    ASSUME Init
    PROVE  AddressInv
  <1>1. TypeOK
    BY AddressAssumption DEF Init, TypeOK, Idle
  <1>2. RowsWell(virtual, nextId)
    BY DEF Init, RowsWell, IdsKeyed, FormsKept, AcePointed, PlainUnique
  <1>3. \A w \in Worker : Checked(virtual, nextId, task[w])
    <2>1. \A w \in Worker : task[w].pc \notin AddressPC
      BY DEF Init, Idle, AddressPC, AddPC, ChangePC, RemovePC, CatchAllPC
    <2> QED
      BY <2>1, CheckedOther
  <1> QED
    BY <1>1, <1>2, <1>3 DEF AddressInv

LEMMA AddressNextStep ==
    ASSUME NEW w0, Worker = {w0}, AddressInv, [Next]_vars
    PROVE  AddressInv'
  <1>1. TypeOK'
    BY TypeStep DEF AddressInv
  <1>2. RowsWell(virtual', nextId')
    BY RowsStep DEF AddressInv
  <1>3. Checked(virtual', nextId', task'[w0])
    <2>1. CASE UNCHANGED vars
      BY <2>1 DEF AddressInv, vars
    <2>2. CASE Next
      BY <2>2, CheckedStep DEF AddressInv, Next
    <2> QED
      BY <2>1, <2>2
  <1> QED
    BY <1>1, <1>2, <1>3 DEF AddressInv

\* The same on the pages, before and after the step.
LEMMA LastKept ==
    ASSUME AddressInv, AddressInv', [Next]_vars, NEW u
    PROVE  /\ AddressesOf(u) # {} /\ AddressesOf(u)' = {} =>
                 \E w \in Worker : /\ task[w].pc \in {"removeVirtual", "undoAddress"}
                                  /\ task[w].user = u
           /\ (\E a \in AddressesOf(u) : a.dom = Home)
                 /\ (\A a \in AddressesOf(u)' : a.dom # Home) =>
                 \E w \in Worker : /\ task[w].pc \in {"removeVirtual", "changeAddress", "undoAddress"}
                                  /\ task[w].user = u
  <1>1. AddressesOf(u) = {a \in Alias : Owns(virtual, u, a)}
    BY AddressesOwned DEF AddressInv
  <1>2. AddressesOf(u)' = {a \in Alias : Owns(virtual', u, a)}
    <2>1. \A r \in virtual' : (r.idn = 0 <=> ~r.alias.ace) /\ r.alias \in Alias
      BY RowType DEF AddressInv, RowsWell, FormsKept, TypeOK
    <2> QED
      BY <2>1 DEF AddressesOf, RowsOf, Owns, Plain
  <1>3. \A s \in virtual' : s.alias \in Alias
    BY RowType DEF AddressInv, TypeOK
  <1>4. ASSUME Stay(virtual, virtual', u)
        PROVE  AddressesOf(u) \subseteq AddressesOf(u)'
    BY <1>1, <1>2, <1>4 DEF Stay, Owns
  <1>5. ASSUME NEW s \in virtual', s.user = u, Plain(s.alias)
        PROVE  s.alias \in AddressesOf(u)'
    BY <1>2, <1>3, <1>5 DEF Owns
  <1>6. ASSUME NEW a, OthersRemain(virtual, u, a),
               \A r \in virtual : r.user = u /\ Plain(r.alias) /\ r.alias # a => r \in virtual'
        PROVE  /\ AddressesOf(u)' # {}
               /\ (\E b \in AddressesOf(u) : b.dom = Home) =>
                      \E b \in AddressesOf(u)' : b.dom = Home
    <2>1. AddressesOf(u)' # {}
      BY <1>5, <1>6 DEF OthersRemain
    <2>2. ASSUME NEW b \in AddressesOf(u), b.dom = Home
          PROVE  \E c \in AddressesOf(u)' : c.dom = Home
      <3>1. PICK r \in virtual : r.user = u /\ r.alias = b /\ Plain(r.alias)
        BY <1>1 DEF Owns
      <3>2. CASE b # a
        BY <1>5, <1>6, <2>2, <3>1, <3>2
      <3>3. CASE b = a
        BY <1>5, <1>6, <2>2, <3>3 DEF OthersRemain
      <3> QED
        BY <3>2, <3>3
    <2> QED
      BY <2>1, <2>2
  <1>7. \/ Stay(virtual, virtual', u)
        \/ \E w \in Worker : /\ task[w].pc \in {"removeVirtual", "undoAddress"}
                            /\ task[w].user = u
        \/ /\ \E w \in Worker : task[w].pc = "changeAddress" /\ task[w].user = u
           /\ \E s \in virtual' : s.user = u /\ Plain(s.alias)
        \/ \E a : /\ OthersRemain(virtual, u, a)
                  /\ \A r \in virtual : r.user = u /\ Plain(r.alias) /\ r.alias # a
                                           => r \in virtual'
    BY AddressesAfter DEF AddressInv
  <1> QED
    BY <1>4, <1>5, <1>6, <1>7

\* However many statements fail, an account loses its last address, and the last
\* one of its own domain, only by what says so: the removal of the account, the
\* undoing of an addition, the change into an address of another domain.
THEOREM LastAddressStays ==
    ASSUME NEW w0, Worker = {w0}
    PROVE  Spec => LastAddressKept
  <1>1. Init => AddressInv
    BY AddressInit
  <1>2. AddressInv /\ [Next]_vars => AddressInv'
    BY AddressNextStep
  <1>3. AddressInv /\ AddressInv' /\ [Next]_vars =>
          [\A u \in accountuser :
             /\ AddressesOf(u) # {} /\ AddressesOf(u)' = {} =>
                    \E w \in Worker : /\ task[w].pc \in {"removeVirtual", "undoAddress"}
                                     /\ task[w].user = u
             /\ (\E a \in AddressesOf(u) : a.dom = Home)
                   /\ (\A a \in AddressesOf(u)' : a.dom # Home) =>
                    \E w \in Worker : /\ task[w].pc \in {"removeVirtual", "changeAddress", "undoAddress"}
                                     /\ task[w].user = u]_vars
    BY LastKept
  <1> QED
    BY <1>1, <1>2, <1>3, PTL DEF Spec, LastAddressKept

-----------------------------------------------------------------------------
(* The two forms of an address, without failures *)

\* An address of an internationalised domain and its ACE form.
Twins(q, r) ==
    /\ q.id = r.idn /\ q.ace = r.id /\ q.user = r.user
    /\ ~q.alias.ace /\ AceOf(q.alias) = r.alias

\* Every row has its twin, unless its domain has one form only.
Strict(rows) ==
    /\ \A r \in rows : r.alias.ace => \E q \in rows : Twins(q, r)
    /\ \A q \in rows : ~q.alias.ace =>
          IF q.ace = 0 THEN ~IsIdn(q.alias)
          ELSE IsIdn(q.alias) /\ \E r \in rows : Twins(q, r)

CatchAllIn(rows) == {r \in rows : r.alias.local = CatchAll}

\* The rows a request has written one of, or deleted one of.
InWork(rows, t) ==
    {r \in rows :
        \/ t.pc \in {"insertAce", "insertCatchAllAce", "removeAddress"} /\ r.id = t.id
        \/ t.pc \in {"linkAce", "linkCatchAll"} /\ r.id \in {t.id, t.aceId}
        \/ t.pc = "removeCatchAllAce" /\ r.alias.local = CatchAll}

NoTwice(rows) == \A q, r \in rows : q.alias = r.alias => q = r

OneCatchAll(rows) == \A q, r \in CatchAllIn(rows) : q.user = r.user

\* The table as long as nothing fails.
Smooth(rows, t) ==
    /\ t.pc \notin {"undoAddress", "undoAce", "undoCatchAll"}
    /\ t.pc = "insertCatchAll" => CatchAllIn(rows) = {}
    /\ t.pc \in {"removeCatchAll", "removeCatchAllAce"} =>
          \A r \in CatchAllIn(rows) : r.user = t.user
    /\ t.pc = "removeCatchAllAce" => \A r \in CatchAllIn(rows) : r.alias.ace
    /\ NoTwice(rows)
    /\ OneCatchAll(rows)
    /\ Strict(rows \ InWork(rows, t))

\* The statements before which the table is not just in order.
BusyPC == {"undoAddress", "undoAce", "undoCatchAll", "insertCatchAll", "removeCatchAll",
           "removeCatchAllAce", "insertAce", "insertCatchAllAce", "removeAddress", "linkAce",
           "linkCatchAll"}

LEMMA SmoothQuiet ==
    ASSUME NEW rows, NEW t, t.pc \notin BusyPC
    PROVE  Smooth(rows, t) <=> NoTwice(rows) /\ OneCatchAll(rows) /\ Strict(rows)
  <1>1. InWork(rows, t) = {}
    BY DEF InWork, BusyPC
  <1>2. rows \ {} = rows
    OBVIOUS
  <1> QED
    BY <1>1, <1>2 DEF Smooth, BusyPC

\* Twins go together.
LEMMA StrictDeleted ==
    ASSUME NEW rows, Strict(rows), NEW some,
           \A q, r \in rows : Twins(q, r) => (q \in some <=> r \in some)
    PROVE  Strict(rows \ some)
  <1>1. ASSUME NEW r \in rows \ some, r.alias.ace
        PROVE  \E q \in rows \ some : Twins(q, r)
    BY <1>1 DEF Strict
  <1>2. ASSUME NEW q \in rows \ some, ~q.alias.ace
        PROVE  IF q.ace = 0 THEN ~IsIdn(q.alias)
               ELSE IsIdn(q.alias) /\ \E r \in rows \ some : Twins(q, r)
    BY <1>2 DEF Strict
  <1> QED
    BY <1>1, <1>2 DEF Strict

\* They come together, or alone if there is one form only.
LEMMA StrictSingle ==
    ASSUME NEW rows, Strict(rows), NEW x, ~x.alias.ace, x.ace = 0, ~IsIdn(x.alias)
    PROVE  Strict(rows \cup {x})
  BY DEF Strict

LEMMA StrictPair ==
    ASSUME NEW rows, Strict(rows), NEW x, NEW y, Twins(x, y), x.ace # 0, IsIdn(x.alias),
           y.alias.ace
    PROVE  Strict(rows \cup {x, y})
  <1> DEFINE all == rows \cup {x, y}
  <1>1. ~x.alias.ace
    BY DEF Twins
  <1>2. ASSUME NEW r \in all, r.alias.ace
        PROVE  \E q \in all : Twins(q, r)
    <2>1. CASE r \in rows
      BY <1>2, <2>1 DEF Strict
    <2>2. CASE r = y
      BY <2>2
    <2> QED
      BY <1>1, <1>2, <2>1, <2>2
  <1>3. ASSUME NEW q \in all, ~q.alias.ace
        PROVE  IF q.ace = 0 THEN ~IsIdn(q.alias)
               ELSE IsIdn(q.alias) /\ \E r \in all : Twins(q, r)
    <2>1. CASE q \in rows
      BY <1>3, <2>1 DEF Strict
    <2>2. CASE q = x
      BY <2>2
    <2> QED
      BY <1>3, <2>1, <2>2
  <1> QED
    BY <1>2, <1>3 DEF Strict

\* Nobody has the ACE form of an address nobody has.
LEMMA AceUnused ==
    ASSUME NEW rows \in SUBSET VirtualRow, Strict(rows), NEW a \in Alias, ~a.ace,
           \A r \in rows : r.alias # a
    PROVE  \A r \in rows : r.alias # AceOf(a)
  <1> SUFFICES ASSUME NEW r \in rows, r.alias = AceOf(a)
               PROVE  FALSE
    OBVIOUS
  <1>1. r.alias.ace
    BY AliasType
  <1>2. PICK q \in rows : ~q.alias.ace /\ AceOf(q.alias) = AceOf(a)
    BY <1>1 DEF Strict, Twins
  <1>3. q.alias \in Alias
    BY RowType
  <1> QED
    BY <1>2, <1>3, AceInjective

\* A row of an address nobody has does not disturb the others.
LEMMA NoTwiceInserted ==
    ASSUME NEW rows, NoTwice(rows), NEW x, \A r \in rows : r.alias # x.alias
    PROVE  NoTwice(rows \cup {x})
  BY DEF NoTwice

LEMMA Fewer ==
    ASSUME NEW rows, NEW some \in SUBSET rows
    PROVE  /\ NoTwice(rows) => NoTwice(some)
           /\ OneCatchAll(rows) => OneCatchAll(some)
           /\ CatchAllIn(some) \subseteq CatchAllIn(rows)
  BY DEF NoTwice, OneCatchAll, CatchAllIn

\* The forms of the catch-all address are all there is without a local part.
LEMMA CatchAllRows ==
    ASSUME NEW rows \in SUBSET VirtualRow, FormsKept(rows), NEW r \in rows
    PROVE  /\ r.alias.local = CatchAll <=> r.alias \in CatchAllForms
           /\ r.alias.local = CatchAll /\ ~r.alias.ace <=> r.alias = CatchAllAddress
           /\ r.alias.local = CatchAll /\ r.alias.ace <=> r.alias = AceOf(CatchAllAddress)
  <1>1. r.alias \in Alias /\ r.alias.ace \in BOOLEAN
    BY RowType, AliasType
  <1>2. ASSUME r.alias.local = CatchAll
        PROVE  r.alias.dom = Home /\ (r.alias.ace => IsIdn(r.alias))
    BY <1>2 DEF FormsKept
  <1>3. CatchAllAddress = [local |-> CatchAll, dom |-> Home, ace |-> FALSE]
    BY DEF CatchAllAddress, Address
  <1>4. AceOf(CatchAllAddress) = [local |-> CatchAll, dom |-> Home, ace |-> TRUE]
    <2> DEFINE a == AceOf(CatchAllAddress)
    <2>1. a \in Alias /\ a.local = CatchAll /\ a.dom = Home /\ a.ace
      BY CatchAllKnown
    <2> HIDE DEF a
    <2>2. a.ace = TRUE /\ a = [local |-> a.local, dom |-> a.dom, ace |-> a.ace]
      BY <2>1 DEF Alias
    <2> QED
      BY <2>1, <2>2 DEF a
  <1>a. r.alias = [local |-> r.alias.local, dom |-> r.alias.dom, ace |-> r.alias.ace]
    BY <1>1 DEF Alias
  <1>5. r.alias.local = CatchAll /\ ~r.alias.ace <=> r.alias = CatchAllAddress
    <2>1. ASSUME r.alias.local = CatchAll, ~r.alias.ace
          PROVE  r.alias = CatchAllAddress
      <3>1. r.alias.ace = FALSE /\ r.alias.dom = Home
        BY <1>1, <1>2, <2>1
      <3> QED
        BY <1>3, <1>a, <2>1, <3>1
    <2> QED
      BY <2>1, CatchAllKnown
  <1>6. r.alias.local = CatchAll /\ r.alias.ace <=> r.alias = AceOf(CatchAllAddress)
    <2>1. ASSUME r.alias.local = CatchAll, r.alias.ace
          PROVE  r.alias = AceOf(CatchAllAddress)
      <3>1. r.alias.ace = TRUE /\ r.alias.dom = Home
        BY <1>1, <1>2, <2>1
      <3> QED
        BY <1>4, <1>a, <2>1, <3>1
    <2> QED
      BY <2>1, CatchAllKnown
  <1>7. r.alias.local = CatchAll /\ r.alias.ace => IsIdn(CatchAllAddress)
    BY <1>2, <1>3 DEF IsIdn
  <1>8. r.alias.local = CatchAll <=> r.alias \in CatchAllForms
    BY <1>5, <1>6, <1>7 DEF CatchAllForms
  <1> QED
    BY <1>5, <1>6, <1>8

\* Twins have the local part in common.
LEMMA TwinsLocal ==
    ASSUME NEW q \in VirtualRow, NEW r \in VirtualRow, Twins(q, r)
    PROVE  q.alias.local = r.alias.local /\ r.alias.ace /\ ~q.alias.ace /\ q.user = r.user
           /\ q.ace = r.id
  <1>1. q.alias \in Alias
    BY RowType
  <1>2. AceOf(q.alias).local = q.alias.local /\ AceOf(q.alias).ace
    BY <1>1, AliasType
  <1> QED
    BY <1>2 DEF Twins

\* Where requests begin.
LEMMA BeginSmooth ==
    ASSUME TypeOK, RowsWell(virtual, nextId), NEW w \in Worker, NEW u \in User, Begin(w, u),
           Smooth(virtual, task[w])
    PROVE  Smooth(virtual', task'[w])
  <1> DEFINE s == task'[w]
  <1>1. virtual' = virtual /\ task[w].pc = "idle"
    BY BeginQuiet DEF At
  <1>2. NoTwice(virtual) /\ OneCatchAll(virtual) /\ Strict(virtual)
    BY <1>1, SmoothQuiet DEF BusyPC
  <1>3. CASE s.pc \notin BusyPC
    BY <1>1, <1>2, <1>3, SmoothQuiet
  <1>4. CASE BeginAdd(w, u) \/ BeginChange(w, u) \/ BeginRemove(w, u)
    <2>1. PICK p, op, old, new :
            p \in {"checkAddress", "getAddress"} /\ Start(w, p, op, u, old, new)
      BY <1>4 DEF BeginAdd, BeginChange, BeginRemove
    <2>2. s.pc = p
      BY <2>1 DEF Start, TypeOK
    <2> QED
      BY <1>3, <2>1, <2>2 DEF BusyPC
  <1>5. CASE BeginCatchAll(w, u)
    <2> DEFINE p == IF IsCatchAll(u) THEN "removeCatchAll" ELSE "dropCatchAll"
    <2>1. s.pc = p /\ s.user = u
      BY <1>5 DEF BeginCatchAll, Start, TypeOK
    <2>2. CASE IsCatchAll(u)
      <3>1. PICK r \in CatchAllIn(virtual) : r.user = u
        BY <2>2 DEF IsCatchAll, RowsOf, CatchAllIn
      <3>2. \A q \in CatchAllIn(virtual) : q.user = u
        BY <1>2, <3>1 DEF OneCatchAll
      <3>3. InWork(virtual, s) = {} /\ virtual \ {} = virtual
        BY <2>1, <2>2 DEF InWork
      <3> QED
        BY <1>1, <1>2, <2>1, <2>2, <3>2, <3>3 DEF Smooth
    <2>3. CASE ~IsCatchAll(u)
      BY <1>3, <2>1, <2>3 DEF BusyPC
    <2> QED
      BY <2>2, <2>3
  <1>6. CASE BeginRemoveAccount(w, u)
    <2>1. s.pc = "removeVirtual"
      BY <1>6 DEF BeginRemoveAccount, TypeOK
    <2> QED
      BY <1>3, <2>1 DEF BusyPC
  <1>7. CASE BeginAddForward(w, u) \/ BeginRemoveForward(w, u)
             \/ BeginEditForward(w, u) \/ BeginKeepLocal(w, u)
    <2>1. s.pc = "queryForwards"
      BY <1>7 DEF BeginAddForward, BeginRemoveForward, BeginEditForward, BeginKeepLocal,
         StartForward, TypeOK
    <2> QED
      BY <1>3, <2>1 DEF BusyPC
  <1> QED
    BY <1>4, <1>5, <1>6, <1>7 DEF Begin

LEMMA FinishSmooth ==
    ASSUME TypeOK, NEW w \in Worker, Finish(w),
           NoTwice(virtual'), OneCatchAll(virtual'), Strict(virtual')
    PROVE  Smooth(virtual', task'[w])
  <1>1. task'[w].pc \notin BusyPC
    BY FinishType DEF Idle, BusyPC
  <1> QED
    BY <1>1, SmoothQuiet

\* Statements that delete.
LEMMA DeleteSmooth ==
    ASSUME TypeOK, RowsWell(virtual, nextId), NEW w \in Worker,
           Checked(virtual, nextId, task[w]), Smooth(virtual, task[w]),
           \/ RemoveVirtual(w) \/ UndoAddress(w) \/ UndoAce(w) \/ RemoveAce(w)
           \/ RemoveAddress(w) \/ DropCatchAll(w) \/ UndoCatchAll(w) \/ RemoveCatchAll(w)
           \/ RemoveCatchAllAce(w)
    PROVE  Smooth(virtual', task'[w])
  <1> DEFINE t == task[w]
             s == task'[w]
  <1>1. virtual' \subseteq virtual
    BY RowsShrink
  <1>2. NoTwice(virtual') /\ OneCatchAll(virtual') /\ CatchAllIn(virtual') \subseteq CatchAllIn(virtual)
    BY <1>1, Fewer DEF Smooth
  <1>3. virtual \in SUBSET VirtualRow /\ FormsKept(virtual)
    BY DEF TypeOK, RowsWell
  <1>4. ASSUME t.pc \notin BusyPC
        PROVE  Strict(virtual)
    BY <1>4, SmoothQuiet
  <1>5. ~UndoAddress(w) /\ ~UndoAce(w) /\ ~UndoCatchAll(w)
    BY DEF Smooth, UndoAddress, UndoAce, UndoCatchAll, At
  <1>6. CASE RemoveVirtual(w)
    <2>1. t.pc = "removeVirtual" /\ Goto(w, "removeForwards")
          /\ virtual' = virtual \ {r \in virtual : r.user = t.user}
      BY <1>6 DEF RemoveVirtual, At, DeleteRows
    <2>2. s.pc = "removeForwards"
      BY <2>1, TaskKinds DEF Goto, TypeOK, AccountTask, AccountPC
    <2>3. Strict(virtual)
      BY <1>4, <2>1 DEF BusyPC
    <2>4. \A q, r \in virtual : Twins(q, r) => q.user = r.user
      BY DEF Twins
    <2>5. Strict(virtual')
      BY <2>1, <2>3, <2>4, StrictDeleted
    <2> QED
      BY <1>2, <2>2, <2>5, SmoothQuiet DEF BusyPC
  <1>7. CASE RemoveAce(w)
    <2>1. /\ t.pc = "removeAce" /\ Goto(w, "removeAddress") /\ t.aceId > 0
          /\ virtual' = virtual \ {r \in virtual : r.id = t.aceId}
          /\ Plain(t.old) /\ OldThere(virtual, t)
          /\ t.pc \in AddressPC /\ "removeAddress" \in AddressPC
      BY <1>7 DEF RemoveAce, At, RemoveVirtualByID, DeleteRows, Checked, AddressPC, RemovePC
    <2>2. s.pc = "removeAddress" /\ s.id = t.id
      BY <2>1, GotoFields
    <2>3. PICK x \in virtual : x.id = t.id /\ x.alias = t.old /\ x.ace = t.aceId
      BY <2>1 DEF OldThere
    <2>4. Strict(virtual)
      BY <1>4, <2>1 DEF BusyPC
    <2>5. PICK y \in virtual : Twins(x, y)
      <3>1. x.ace # 0 /\ ~x.alias.ace
        BY <1>3, <2>1, <2>3, RowType DEF Plain
      <3> QED
        BY <2>4, <3>1 DEF Strict
    <2>6. \A r \in virtual : (r.id = t.id <=> r = x) /\ (r.id = t.aceId <=> r = y)
      BY <2>3, <2>5 DEF Twins, RowsWell, IdsKeyed
    <2>7. ASSUME NEW q \in virtual, NEW r \in virtual, Twins(q, r)
          PROVE  q \in {x, y} <=> r \in {x, y}
      <3>1. ~x.alias.ace /\ y.alias.ace /\ ~q.alias.ace /\ r.alias.ace
        BY <1>3, <2>5, <2>7, TwinsLocal
      <3>2. q = x <=> r = y
        BY <2>5, <2>7 DEF Twins, RowsWell, IdsKeyed
      <3> QED
        BY <3>1, <3>2
    <2>8. Strict(virtual \ {x, y})
      BY <2>4, <2>7, StrictDeleted
    <2>9. virtual' \ InWork(virtual', s) = virtual \ {x, y}
      BY <2>1, <2>2, <2>6 DEF InWork
    <2> QED
      BY <1>2, <2>2, <2>8, <2>9 DEF Smooth
  <1>8. CASE RemoveAddress(w)
    <2>1. /\ t.pc = "removeAddress" /\ Finish(w)
          /\ virtual' = virtual \ {r \in virtual : r.id = t.id}
      BY <1>8 DEF RemoveAddress, At, RemoveVirtualByID, DeleteRows
    <2>2. virtual' = virtual \ InWork(virtual, t)
      BY <2>1 DEF InWork
    <2> QED
      BY <1>2, <2>1, <2>2, FinishSmooth DEF Smooth
  <1>9. \A q, r \in virtual :
           Twins(q, r) => (q \in CatchAllIn(virtual) <=> r \in CatchAllIn(virtual))
    BY <1>3, TwinsLocal DEF CatchAllIn
  <1>10. CASE DropCatchAll(w)
    <2>1. /\ t.pc = "dropCatchAll" /\ Goto(w, "insertCatchAll")
          /\ virtual' = virtual \ {r \in virtual : r.alias \in CatchAllForms}
          /\ t.pc \in AddressPC /\ "insertCatchAll" \in AddressPC
      BY <1>10 DEF DropCatchAll, At, DeleteRows, AddressPC, CatchAllPC
    <2>2. s.pc = "insertCatchAll"
      BY <2>1, GotoFields
    <2>3. virtual' = virtual \ CatchAllIn(virtual)
      BY <1>3, <2>1, CatchAllRows DEF CatchAllIn
    <2>4. Strict(virtual')
      <3>1. Strict(virtual)
        BY <1>4, <2>1 DEF BusyPC
      <3> QED
        BY <1>9, <2>3, <3>1, StrictDeleted
    <2>5. CatchAllIn(virtual') = {}
      BY <2>3 DEF CatchAllIn
    <2>6. virtual' \ InWork(virtual', s) = virtual'
      BY <2>2 DEF InWork
    <2> QED
      BY <1>2, <2>2, <2>4, <2>5, <2>6 DEF Smooth
  <1>11. CASE RemoveCatchAll(w)
    <2>1. /\ t.pc = "removeCatchAll" /\ \A r \in CatchAllIn(virtual) : r.user = t.user
          /\ virtual' = virtual \ {r \in virtual : r.alias = CatchAllAddress /\ r.user = t.user}
      BY <1>11 DEF RemoveCatchAll, At, DeleteRows, Smooth
    <2>2. virtual \ InWork(virtual, t) = virtual
      BY <2>1 DEF InWork
    <2>3. Strict(virtual \ CatchAllIn(virtual))
      BY <1>9, <2>2, StrictDeleted DEF Smooth
    <2>4. virtual' = virtual \ {r \in CatchAllIn(virtual) : ~r.alias.ace}
      BY <1>3, <2>1, CatchAllRows DEF CatchAllIn
    <2>5. CASE IsIdn(CatchAllAddress)
      <3>1. /\ Goto(w, "removeCatchAllAce") /\ t.pc \in AddressPC
            /\ "removeCatchAllAce" \in AddressPC
        BY <1>11, <2>1, <2>5 DEF RemoveCatchAll, AddressPC, CatchAllPC
      <3>2. s.pc = "removeCatchAllAce" /\ s.user = t.user
        BY <3>1, GotoFields
      <3>3. virtual' \ InWork(virtual', s) = virtual \ CatchAllIn(virtual)
        BY <2>4, <3>2 DEF InWork, CatchAllIn
      <3>4. \A r \in CatchAllIn(virtual') : r.alias.ace /\ r.user = t.user
        BY <1>2, <2>1, <2>4 DEF CatchAllIn
      <3> QED
        BY <1>2, <2>3, <3>2, <3>3, <3>4 DEF Smooth
    <2>6. CASE ~IsIdn(CatchAllAddress)
      <3>1. \A r \in CatchAllIn(virtual) : ~r.alias.ace
        BY <1>3, <2>6, CatchAllRows, CatchAllKnown DEF CatchAllIn, FormsKept
      <3>2. virtual' = virtual \ CatchAllIn(virtual)
        BY <2>4, <3>1
      <3>3. Finish(w)
        BY <1>11, <2>6 DEF RemoveCatchAll
      <3> QED
        BY <1>2, <2>3, <3>2, <3>3, FinishSmooth
    <2> QED
      BY <2>5, <2>6
  <1>12. CASE RemoveCatchAllAce(w)
    <2>1. /\ t.pc = "removeCatchAllAce" /\ Finish(w)
          /\ \A r \in CatchAllIn(virtual) : r.user = t.user /\ r.alias.ace
          /\ virtual' = virtual \ {r \in virtual : r.alias = AceOf(CatchAllAddress)
                                                   /\ r.user = t.user}
      BY <1>12 DEF RemoveCatchAllAce, At, DeleteRows, Smooth
    <2>2. virtual' = virtual \ CatchAllIn(virtual)
      BY <1>3, <2>1, CatchAllRows DEF CatchAllIn
    <2>3. virtual \ InWork(virtual, t) = virtual \ CatchAllIn(virtual)
      BY <2>1 DEF InWork, CatchAllIn
    <2> QED
      BY <1>2, <2>1, <2>2, <2>3, FinishSmooth DEF Smooth
  <1> QED
    BY <1>5, <1>6, <1>7, <1>8, <1>10, <1>11, <1>12

\* Statements that insert.
LEMMA InsertSmooth ==
    ASSUME TypeOK, RowsWell(virtual, nextId), NEW w \in Worker,
           Checked(virtual, nextId, task[w]), Smooth(virtual, task[w]),
           \/ InsertAddress(w) \/ InsertCatchAll(w) \/ InsertAce(w) \/ InsertCatchAllAce(w)
    PROVE  Smooth(virtual', task'[w])
  <1> DEFINE t == task[w]
             s == task'[w]
  <1>1. virtual \in SUBSET VirtualRow /\ FormsKept(virtual) /\ nextId \in Nat
        /\ \A r \in virtual : r.id # nextId /\ r.id > 0
    BY RowType DEF TypeOK, RowsWell, IdsKeyed
  <1>2. NoTwice(virtual) /\ OneCatchAll(virtual)
    BY DEF Smooth
  <1>3. t \in AddressTask /\ t.new \in Alias
    BY TaskKinds DEF InsertAddress, InsertCatchAll, InsertAce, InsertCatchAllAce, At,
       AddressPC, AddPC, CatchAllPC, AddressTask
  <1>4. CASE InsertAddress(w) \/ InsertCatchAll(w)
    <2> DEFINE x == NewRow(nextId, 0, 0, t.new, t.user)
               p == IF t.pc = "insertAddress" THEN "insertAce" ELSE "insertCatchAllAce"
    <2>1. /\ t.pc \in {"insertAddress", "insertCatchAll"}
          /\ t.pc = "insertAddress" => Plain(t.new) /\ ~Used(virtual, t.new)
          /\ t.pc = "insertCatchAll" => t.new = CatchAllAddress /\ CatchAllIn(virtual) = {}
      BY <1>4 DEF InsertAddress, InsertCatchAll, At, Checked, AddPC, CatchAllPC, Smooth
    <2>2. /\ virtual' = virtual \cup {x}
          /\ IF IsIdn(t.new) THEN task' = [task EXCEPT ![w].pc = p, ![w].id = nextId]
                             ELSE Finish(w)
      BY <1>4, <2>1 DEF InsertAddress, InsertCatchAll, At, InsertVirtual
    <2>3. x.id = nextId /\ x.ace = 0 /\ x.alias = t.new /\ x.user = t.user
      BY DEF NewRow
    <2> HIDE DEF x
    <2>4. ~t.new.ace /\ \A r \in virtual : r.alias # t.new
      BY <2>1, CatchAllKnown DEF Plain, Used, CatchAllIn
    <2>5. NoTwice(virtual')
      BY <1>2, <2>2, <2>3, <2>4, NoTwiceInserted
    <2>6. CatchAllIn(virtual') = CatchAllIn(virtual) \/ CatchAllIn(virtual') = {x}
      BY <2>1, <2>2, <2>3, CatchAllKnown DEF CatchAllIn, Plain
    <2>7. OneCatchAll(virtual')
      BY <1>2, <2>6 DEF OneCatchAll
    <2>8. Strict(virtual)
      <3>1. virtual \ InWork(virtual, t) = virtual
        BY <2>1 DEF InWork
      <3> QED
        BY <3>1 DEF Smooth
    <2>9. CASE IsIdn(t.new)
      <3>1. p \in {"insertAce", "insertCatchAllAce"}
        OBVIOUS
      <3> HIDE DEF p
      <3>2. s.pc = p /\ s.id = nextId
        BY <1>3, <2>2, <2>9 DEF TypeOK, AddressTask
      <3>3. virtual' \ InWork(virtual', s) = virtual
        BY <1>1, <2>2, <2>3, <3>1, <3>2 DEF InWork
      <3> QED
        BY <2>5, <2>7, <2>8, <3>1, <3>2, <3>3 DEF Smooth
    <2>10. CASE ~IsIdn(t.new)
      <3>1. Strict(virtual')
        BY <2>2, <2>3, <2>4, <2>8, <2>10, StrictSingle
      <3> QED
        BY <2>2, <2>5, <2>7, <2>10, <3>1, FinishSmooth
    <2> QED
      BY <2>9, <2>10
  <1>5. CASE InsertAce(w) \/ InsertCatchAllAce(w)
    <2> DEFINE y == NewRow(nextId, t.id, 0, AceOf(t.new), t.user)
               p == IF t.pc = "insertAce" THEN "linkAce" ELSE "linkCatchAll"
    <2>1. /\ t.pc \in {"insertAce", "insertCatchAllAce"} /\ NewThere(virtual, t)
          /\ t.pc = "insertAce" => Plain(t.new)
          /\ t.pc = "insertCatchAllAce" => t.new = CatchAllAddress
      BY <1>5 DEF InsertAce, InsertCatchAllAce, At, Checked, AddPC, CatchAllPC
    <2>2. /\ virtual' = virtual \cup {y}
          /\ task' = [task EXCEPT ![w].pc = p, ![w].aceId = nextId]
      BY <1>5, <2>1 DEF InsertAce, InsertCatchAllAce, At, InsertVirtual
    <2>3. y.id = nextId /\ y.alias = AceOf(t.new) /\ y.user = t.user
      BY DEF NewRow
    <2> HIDE DEF y
    <2>4. p \in {"linkAce", "linkCatchAll"}
      OBVIOUS
    <2> HIDE DEF p
    <2>5. s.pc = p /\ s.id = t.id /\ s.aceId = nextId
      BY <1>3, <2>2 DEF TypeOK, AddressTask
    <2>6. PICK x \in virtual : x.id = t.id /\ x.alias = t.new /\ x.user = t.user
      BY <2>1 DEF NewThere
    <2>7. \A r \in virtual : r.id = t.id <=> r = x
      BY <2>6 DEF RowsWell, IdsKeyed
    <2>8. Strict(virtual \ {x})
      <3>1. virtual \ InWork(virtual, t) = virtual \ {x}
        BY <2>1, <2>7 DEF InWork
      <3> QED
        BY <3>1 DEF Smooth
    <2>9. ~t.new.ace /\ AceOf(t.new).ace /\ AceOf(t.new).local = t.new.local
      BY <1>3, <2>1, CatchAllKnown, AliasType DEF Plain
    <2>10. \A r \in virtual : r.alias # AceOf(t.new)
      <3>1. \A r \in virtual \ {x} : r.alias # t.new
        BY <1>2, <2>6 DEF NoTwice
      <3>2. \A r \in virtual \ {x} : r.alias # AceOf(t.new)
        BY <1>1, <1>3, <2>8, <2>9, <3>1, AceUnused
      <3> QED
        BY <2>6, <2>9, <3>2
    <2>11. NoTwice(virtual')
      BY <1>2, <2>2, <2>3, <2>10, NoTwiceInserted
    <2>12. OneCatchAll(virtual')
      BY <1>2, <2>2, <2>3, <2>6, <2>9 DEF OneCatchAll, CatchAllIn
    <2>13. virtual' \ InWork(virtual', s) = virtual \ {x}
      <3>1. InWork(virtual', s) = {x, y}
        BY <1>1, <2>2, <2>3, <2>4, <2>5, <2>7 DEF InWork
      <3>2. y \notin virtual
        BY <1>1, <2>3
      <3> QED
        BY <2>2, <3>1, <3>2
    <2> QED
      BY <2>4, <2>5, <2>8, <2>11, <2>12, <2>13 DEF Smooth
  <1> QED
    BY <1>4, <1>5

\* updateAceID() makes the two rows twins.
LEMMA LinkSmooth ==
    ASSUME TypeOK, RowsWell(virtual, nextId), NEW w \in Worker,
           Checked(virtual, nextId, task[w]), Smooth(virtual, task[w]),
           LinkAce(w) \/ LinkCatchAll(w)
    PROVE  Smooth(virtual', task'[w])
  <1> DEFINE t == task[w]
  <1>1. /\ t.pc \in {"linkAce", "linkCatchAll"} /\ Finish(w)
        /\ NewThere(virtual, t) /\ AceThere(virtual, t) /\ IsIdn(t.new)
        /\ t.pc = "linkAce" => Plain(t.new)
        /\ t.pc = "linkCatchAll" => t.new = CatchAllAddress
    BY DEF LinkAce, LinkCatchAll, At, Checked, AddPC, CatchAllPC
  <1>2. virtual' = LinkedRows(virtual, t.id, t.aceId)
    BY DEF LinkAce, LinkCatchAll, UpdateAceID, Linked, LinkedRows
  <1>3. t.new \in Alias /\ virtual \in SUBSET VirtualRow
    <2>1. t.pc \in AddressPC
      BY <1>1 DEF AddressPC, AddPC, CatchAllPC
    <2> QED
      BY <2>1, TaskKinds DEF AddressTask, TypeOK
  <1>4. PICK x \in virtual : x.id = t.id /\ x.alias = t.new /\ x.user = t.user
    BY <1>1 DEF NewThere
  <1>5. PICK y \in virtual : y.id = t.aceId /\ y.idn = t.id /\ y.alias = AceOf(t.new)
                             /\ y.user = t.user
    BY <1>1 DEF AceThere
  <1>6. ~t.new.ace /\ AceOf(t.new).ace
    BY <1>1, <1>3, CatchAllKnown, AliasType DEF Plain
  <1>7. \A r \in virtual : (r.id = t.id <=> r = x) /\ (r.id = t.aceId <=> r = y) /\ r.id # 0
    BY <1>4, <1>5 DEF RowsWell, IdsKeyed
  <1> DEFINE rest == virtual \ {x, y}
             z == Linked(x, t.id, t.aceId)
  <1>8. /\ z.id = t.id /\ z.ace = t.aceId /\ z.alias = t.new /\ z.user = t.user
    BY <1>3, <1>4, LinkedFields
  <1>9. virtual' = rest \cup {z, y}
    <2>1. \A r \in virtual \ {x} : Linked(r, t.id, t.aceId) = r
      BY <1>7 DEF Linked
    <2>2. y # x
      BY <1>4, <1>5, <1>6
    <2> QED
      BY <1>2, <2>1, <2>2 DEF LinkedRows
  <1>10. Strict(rest)
    <2>1. virtual \ InWork(virtual, t) = rest
      BY <1>1, <1>7 DEF InWork
    <2> QED
      BY <2>1 DEF Smooth
  <1>11. \A s \in virtual' : \E r \in virtual : /\ s = Linked(r, t.id, t.aceId)
                                               /\ s.alias = r.alias /\ s.user = r.user
    BY <1>2, <1>3, LinkedFields DEF LinkedRows
  <1>12. NoTwice(virtual') /\ OneCatchAll(virtual')
    BY <1>11 DEF Smooth, NoTwice, OneCatchAll, CatchAllIn
  <1> HIDE DEF rest, z
  <1>13. Twins(z, y) /\ z.ace # 0 /\ IsIdn(z.alias) /\ y.alias.ace
    BY <1>1, <1>5, <1>6, <1>7, <1>8 DEF Twins
  <1>14. Strict(virtual')
    BY <1>9, <1>10, <1>13, StrictPair
  <1> QED
    BY <1>1, <1>12, <1>14, FinishSmooth

\* The rows of updateEmail, apart from those that stay.
LEMMA MovedOne ==
    ASSUME NEW rows, NEW x \in rows, NEW i, NEW j, NEW a, NEW e,
           \A r \in rows : (r.id = i <=> r = x) /\ r.id # j
    PROVE  MovedRows(rows, i, j, a, e) = (rows \ {x}) \cup {Moved(x, i, j, a, e)}
  <1>1. \A r \in rows \ {x} : Moved(r, i, j, a, e) = r
    BY DEF Moved
  <1> QED
    BY <1>1 DEF MovedRows

LEMMA MovedTwo ==
    ASSUME NEW rows, NEW x \in rows, NEW y \in rows, NEW i, NEW j, NEW a, NEW e,
           \A r \in rows : (r.id = i <=> r = x) /\ (r.id = j <=> r = y)
    PROVE  MovedRows(rows, i, j, a, e)
             = (rows \ {x, y}) \cup {Moved(x, i, j, a, e), Moved(y, i, j, a, e)}
  <1>1. \A r \in rows \ {x, y} : Moved(r, i, j, a, e) = r
    BY DEF Moved
  <1> QED
    BY <1>1 DEF MovedRows

\* updateEmail, if nothing fails: the twin goes, comes or is renamed as well.
LEMMA ChangeSmooth ==
    ASSUME TypeOK, RowsWell(virtual, nextId), NEW w \in Worker,
           Checked(virtual, nextId, task[w]), Smooth(virtual, task[w]), ChangeAll(w)
    PROVE  Smooth(virtual', task'[w])
  <1> DEFINE t == task[w]
             row == NewRow(nextId, t.id, 0, AceOf(t.new), t.user)
  <1>1. /\ ChangeAddress(w, TRUE, TRUE) /\ t.pc = "changeAddress" /\ Finish(w)
        /\ Plain(t.new) /\ Plain(t.old) /\ ~Used(virtual, t.new) /\ OldThere(virtual, t)
    BY DEF ChangeAll, ChangeAddress, At, Checked
  <1>2. NoTwice(virtual) /\ OneCatchAll(virtual) /\ Strict(virtual)
    BY <1>1, SmoothQuiet DEF BusyPC
  <1>3. t \in AddressTask
    BY <1>1, ChangedRows
  <1>a. PICK twin \in BOOLEAN, link \in BOOLEAN :
           twin = TRUE /\ link = TRUE /\ ChangeAddress(w, twin, link)
    BY <1>1
  <1>b. \E j \in Nat, e \in Nat :
          LET moved == MovedRows(virtual, t.id, j, t.new, e) IN
          /\ j # 0 => j = t.aceId /\ IsIdn(t.new)
          /\ \/ /\ t.aceId = 0 /\ IsIdn(t.new) /\ (e = nextId \/ (~link /\ e = 0))
                /\ virtual' = moved \cup {row} /\ nextId' = nextId + 1
             \/ /\ t.aceId > 0 /\ ~IsIdn(t.new) /\ (e = 0 \/ (~link /\ e = t.aceId))
                /\ virtual' = {r \in moved : r.id # t.aceId} /\ nextId' = nextId
             \/ /\ t.aceId > 0 /\ IsIdn(t.new) /\ e = t.aceId
                /\ j = t.aceId \/ ~twin
                /\ virtual' = moved /\ nextId' = nextId
             \/ /\ t.aceId = 0 /\ ~IsIdn(t.new) /\ e = 0
                /\ virtual' = moved /\ nextId' = nextId
             \/ /\ ~twin /\ e \in {0, t.aceId}
                /\ virtual' = moved /\ nextId' = nextId
    BY <1>1, <1>a, ChangedRows
  <1>4. PICK j \in Nat, e \in Nat :
          LET moved == MovedRows(virtual, t.id, j, t.new, e) IN
          /\ j # 0 => j = t.aceId /\ IsIdn(t.new)
          /\ \/ /\ t.aceId = 0 /\ IsIdn(t.new) /\ e = nextId
                /\ virtual' = moved \cup {row}
             \/ /\ t.aceId > 0 /\ ~IsIdn(t.new) /\ e = 0
                /\ virtual' = {r \in moved : r.id # t.aceId}
             \/ /\ t.aceId > 0 /\ IsIdn(t.new) /\ e = t.aceId /\ j = t.aceId
                /\ virtual' = moved
             \/ /\ t.aceId = 0 /\ ~IsIdn(t.new) /\ e = 0
                /\ virtual' = moved
    BY <1>a, <1>b
  <1>5. /\ virtual \in SUBSET VirtualRow /\ nextId \in Nat /\ nextId > 0
        /\ t.new \in Alias /\ t.aceId \in Nat
    BY <1>3 DEF TypeOK, AddressTask, RowsWell, IdsKeyed
  <1>6. PICK x \in virtual : x.id = t.id /\ x.alias = t.old /\ x.user = t.user
                             /\ x.ace = t.aceId
    BY <1>1 DEF OldThere
  <1>7. \A r \in virtual : (r.id = t.id <=> r = x) /\ r.id # 0
    BY <1>6 DEF RowsWell, IdsKeyed
  <1>8. /\ ~t.new.ace /\ t.new.local # CatchAll /\ ~x.alias.ace
        /\ AceOf(t.new).ace /\ AceOf(t.new).local # CatchAll
        /\ \A r \in virtual : r.alias # t.new
    BY <1>1, <1>5, <1>6, AliasType DEF Plain, Used
  <1>9. \A r \in virtual : r.alias # AceOf(t.new)
    BY <1>2, <1>5, <1>8, AceUnused
  <1> DEFINE z == Moved(x, t.id, j, t.new, e)
  <1>10. z.id = t.id /\ z.user = t.user /\ z.alias = t.new /\ z.ace = e
    BY <1>5, <1>6, MovedFields
  <1> HIDE DEF z
  <1>11. row.id = nextId /\ row.idn = t.id /\ row.alias = AceOf(t.new) /\ row.user = t.user
    BY DEF NewRow
  <1> HIDE DEF row
  <1>12. CASE t.aceId = 0
    <2> DEFINE rest == virtual \ {x}
    <2>1. Strict(rest)
      <3>1. \A q, r \in virtual : Twins(q, r) => q # x /\ r # x
        <4>1. ASSUME NEW q \in virtual, NEW r \in virtual, Twins(q, r)
              PROVE  q # x /\ r # x
          BY <1>5, <1>6, <1>7, <1>8, <1>12, <4>1, TwinsLocal
        <4> QED
          BY <4>1
      <3> QED
        BY <1>2, <3>1, StrictDeleted
    <2>2. j = 0
      BY <1>4, <1>12
    <2>3. MovedRows(virtual, t.id, j, t.new, e) = rest \cup {z}
      BY <1>7, <2>2, MovedOne DEF z
    <2>4. NoTwice(rest \cup {z})
      <3>1. NoTwice(rest) /\ \A r \in rest : r.alias # z.alias
        BY <1>2, <1>8, <1>10, Fewer
      <3> QED
        BY <3>1, NoTwiceInserted
    <2>5. OneCatchAll(rest \cup {z}) /\ OneCatchAll(rest \cup {z, row})
      BY <1>2, <1>8, <1>10, <1>11 DEF OneCatchAll, CatchAllIn
    <2>6. CASE IsIdn(t.new)
      <3>1. e = nextId /\ virtual' = rest \cup {z, row}
        BY <1>4, <1>12, <2>3, <2>6
      <3>2. Twins(z, row) /\ z.ace # 0 /\ IsIdn(z.alias) /\ row.alias.ace
        BY <1>5, <1>8, <1>10, <1>11, <2>6, <3>1 DEF Twins
      <3> HIDE DEF rest
      <3>3. Strict(virtual')
        BY <2>1, <3>1, <3>2, StrictPair
      <3>4. \A r \in rest \cup {z} : r.alias # row.alias
        BY <1>8, <1>9, <1>10, <1>11 DEF rest
      <3>5. NoTwice((rest \cup {z}) \cup {row})
        BY <2>4, <3>4, NoTwiceInserted
      <3>6. (rest \cup {z}) \cup {row} = virtual'
        BY <3>1
      <3> QED
        BY <1>1, <2>5, <3>1, <3>3, <3>5, <3>6, FinishSmooth
    <2>7. CASE ~IsIdn(t.new)
      <3>1. e = 0 /\ virtual' = rest \cup {z}
        BY <1>4, <1>12, <2>3, <2>7
      <3> HIDE DEF rest
      <3>2. Strict(virtual')
        BY <1>8, <1>10, <2>1, <2>7, <3>1, StrictSingle
      <3> QED
        BY <1>1, <2>4, <2>5, <3>1, <3>2, FinishSmooth
    <2> QED
      BY <2>6, <2>7
  <1>13. CASE t.aceId > 0
    <2>1. PICK y \in virtual : Twins(x, y)
      BY <1>2, <1>5, <1>6, <1>8, <1>13 DEF Strict
    <2>2. /\ y.id = t.aceId /\ y.idn = t.id /\ y.user = t.user /\ y.alias.ace /\ y # x
          /\ \A r \in virtual : r.id = t.aceId <=> r = y
      <3>1. y.alias.ace /\ y.user = x.user /\ x.ace = y.id
        BY <1>5, <2>1, TwinsLocal
      <3> QED
        BY <1>6, <1>8, <2>1, <3>1 DEF Twins, RowsWell, IdsKeyed
    <2> DEFINE rest == virtual \ {x, y}
    <2>3. Strict(rest)
      <3>1. ASSUME NEW q \in virtual, NEW r \in virtual, Twins(q, r)
            PROVE  q \in {x, y} <=> r \in {x, y}
        <4>1. ~q.alias.ace /\ r.alias.ace
          BY <1>5, <3>1, TwinsLocal
        <4>2. q = x <=> r = y
          BY <2>1, <3>1 DEF Twins, RowsWell, IdsKeyed
        <4> QED
          BY <1>8, <2>2, <4>1, <4>2
      <3> QED
        BY <1>2, <3>1, StrictDeleted
    <2>4. NoTwice(rest \cup {z})
      <3>1. NoTwice(rest) /\ \A r \in rest : r.alias # z.alias
        BY <1>2, <1>8, <1>10, Fewer
      <3> QED
        BY <3>1, NoTwiceInserted
    <2>5. CASE IsIdn(t.new)
      <3> DEFINE v == Moved(y, t.id, j, t.new, e)
      <3>1. e = t.aceId /\ j = t.aceId /\ virtual' = MovedRows(virtual, t.id, j, t.new, e)
        BY <1>4, <1>13, <2>5
      <3>2. virtual' = rest \cup {z, v}
        BY <1>7, <2>2, <3>1, MovedTwo DEF z
      <3>3. /\ v.id = t.aceId /\ v.idn = t.id /\ v.user = t.user /\ v.alias = AceOf(t.new)
        BY <1>5, <1>7, <2>2, <3>1, MovedFields
      <3> HIDE DEF v
      <3>4. Twins(z, v) /\ z.ace # 0 /\ IsIdn(z.alias) /\ v.alias.ace
        BY <1>8, <1>10, <1>13, <2>5, <3>1, <3>3 DEF Twins
      <3>5. OneCatchAll(virtual')
        BY <1>2, <1>8, <1>10, <3>2, <3>3 DEF OneCatchAll, CatchAllIn
      <3>6. \A r \in rest \cup {z} : r.alias # v.alias
        BY <1>8, <1>9, <1>10, <3>3
      <3> HIDE DEF rest
      <3>7. Strict(virtual')
        BY <2>3, <3>2, <3>4, StrictPair
      <3>8. NoTwice((rest \cup {z}) \cup {v})
        BY <2>4, <3>6, NoTwiceInserted
      <3>9. (rest \cup {z}) \cup {v} = virtual'
        BY <3>2
      <3> QED
        BY <1>1, <3>5, <3>7, <3>8, <3>9, FinishSmooth
    <2>6. CASE ~IsIdn(t.new)
      <3>1. /\ e = 0 /\ j = 0
            /\ virtual' = {r \in MovedRows(virtual, t.id, j, t.new, e) : r.id # t.aceId}
        BY <1>4, <1>13, <2>6
      <3>2. MovedRows(virtual, t.id, j, t.new, e) = (virtual \ {x}) \cup {z}
        BY <1>7, <3>1, MovedOne DEF z
      <3>3. virtual' = rest \cup {z}
        BY <1>6, <1>10, <2>2, <3>1, <3>2
      <3>4. OneCatchAll(virtual')
        BY <1>2, <1>8, <1>10, <3>3 DEF OneCatchAll, CatchAllIn
      <3> HIDE DEF rest
      <3>5. Strict(virtual')
        BY <1>8, <1>10, <2>3, <2>6, <3>1, <3>3, StrictSingle
      <3> QED
        BY <1>1, <2>4, <3>3, <3>4, <3>5, FinishSmooth
    <2> QED
      BY <2>5, <2>6
  <1> QED
    BY <1>5, <1>12, <1>13

\* A new account comes with both forms of its address.
LEMMA CreateSmooth ==
    ASSUME TypeOK, RowsWell(virtual, nextId), NEW w \in Worker,
           NEW u \in User, NEW l \in Local, CreateAccount(w, u, l), Smooth(virtual, task[w])
    PROVE  Smooth(virtual', task'[w])
  <1> DEFINE a == Address(l, Home)
             x == NewRow(nextId, 0, nextId + 1, a, u)
             y == NewRow(nextId + 1, nextId, 0, AceOf(a), u)
             z == NewRow(nextId, 0, 0, a, u)
  <1>1. a \in Alias /\ ~a.ace /\ a.local # CatchAll
    BY AddressAssumption DEF Address, Alias, Domain
  <1>2. /\ task' = task /\ task[w].pc = "idle" /\ \A r \in virtual : r.alias # a
        /\ IF IsIdn(a) THEN virtual' = virtual \cup {x, y} ELSE virtual' = virtual \cup {z}
    BY DEF CreateAccount, CanStart, At, InUse
  <1>3. /\ x.id = nextId /\ x.ace = nextId + 1 /\ x.alias = a /\ x.user = u
        /\ y.id = nextId + 1 /\ y.idn = nextId /\ y.alias = AceOf(a) /\ y.user = u
        /\ z.ace = 0 /\ z.alias = a /\ z.user = u
    BY DEF NewRow
  <1> HIDE DEF a, x, y, z
  <1>4. NoTwice(virtual) /\ OneCatchAll(virtual) /\ Strict(virtual)
    BY <1>2, SmoothQuiet DEF BusyPC
  <1>5. virtual \in SUBSET VirtualRow /\ nextId \in Nat
    BY DEF TypeOK
  <1>6. AceOf(a).ace /\ AceOf(a).local # CatchAll /\ \A r \in virtual : r.alias # AceOf(a)
    <2>1. \A r \in virtual : r.alias # AceOf(a)
      BY <1>1, <1>2, <1>4, <1>5, AceUnused
    <2>2. AceOf(a).ace = TRUE /\ AceOf(a).local = a.local
      BY <1>1, AliasType
    <2> QED
      BY <1>1, <2>1, <2>2
  <1>7. NoTwice(virtual') /\ OneCatchAll(virtual') /\ Strict(virtual')
    <2>1. CASE IsIdn(a)
      <3>1. NoTwice(virtual \cup {x})
        BY <1>2, <1>3, <1>4, NoTwiceInserted
      <3>2. \A r \in virtual \cup {x} : r.alias # y.alias
        BY <1>1, <1>3, <1>6
      <3>3. NoTwice((virtual \cup {x}) \cup {y})
        BY <3>1, <3>2, NoTwiceInserted
      <3>4. (virtual \cup {x}) \cup {y} = virtual'
        BY <1>2, <2>1
      <3>5. OneCatchAll(virtual')
        BY <1>1, <1>2, <1>3, <1>4, <1>6, <2>1 DEF OneCatchAll, CatchAllIn
      <3>6. Twins(x, y) /\ x.ace # 0 /\ IsIdn(x.alias) /\ y.alias.ace
        BY <1>1, <1>3, <1>5, <1>6, <2>1 DEF Twins
      <3>7. Strict(virtual')
        BY <1>2, <1>4, <2>1, <3>6, StrictPair
      <3> QED
        BY <3>3, <3>4, <3>5, <3>7
    <2>2. CASE ~IsIdn(a)
      <3>1. NoTwice(virtual')
        BY <1>2, <1>3, <1>4, <2>2, NoTwiceInserted
      <3>2. OneCatchAll(virtual')
        BY <1>1, <1>2, <1>3, <1>4, <2>2 DEF OneCatchAll, CatchAllIn
      <3>3. Strict(virtual')
        BY <1>1, <1>2, <1>3, <1>4, <2>2, StrictSingle
      <3> QED
        BY <3>1, <3>2, <3>3
    <2> QED
      BY <2>1, <2>2
  <1> QED
    BY <1>2, <1>7, SmoothQuiet DEF BusyPC

\* Steps that leave the rows alone.
LEMMA ReadSmooth ==
    ASSUME TypeOK, RowsWell(virtual, nextId), NEW w \in Worker,
           Checked(virtual, nextId, task[w]), Smooth(virtual, task[w]),
           \/ CheckAddress(w) \/ GetAddress(w) \/ RemoveForwards(w) \/ RemoveAccount(w)
           \/ QueryForwards(w)
           \/ AddForward(w) \/ RemoveForward(w) \/ EditForward(w) \/ ChangeKeepLocal(w)
    PROVE  Smooth(virtual', task'[w])
  <1> DEFINE t == task[w]
             s == task'[w]
  <1>1. /\ virtual' = virtual
        /\ t.pc \in {"checkAddress", "getAddress", "removeForwards", "removeAccount",
                     "queryForwards", "writeForwards"}
    BY DEF CheckAddress, GetAddress, RemoveForwards, RemoveAccount, QueryForwards, AddForward,
       RemoveForward, EditForward, ChangeKeepLocal, Writes, At
  <1>2. NoTwice(virtual) /\ OneCatchAll(virtual) /\ Strict(virtual)
    BY <1>1, SmoothQuiet DEF BusyPC
  <1>3. CASE s.pc \notin BusyPC
    BY <1>1, <1>2, <1>3, SmoothQuiet
  <1>4. CASE Finish(w)
    BY <1>1, <1>2, <1>4, FinishSmooth
  <1>5. ASSUME CheckAddress(w), ~Finish(w)
        PROVE  Smooth(virtual', s)
    <2>1. PICK q \in {"insertAddress", "getAddress"} : Goto(w, q)
      BY <1>5 DEF CheckAddress
    <2>2. q \in AddressPC /\ t.pc \in AddressPC
      BY <1>5 DEF CheckAddress, At, AddressPC, AddPC
    <2>3. s.pc = q
      BY <2>1, <2>2, GotoFields
    <2> QED
      BY <1>3, <2>3 DEF BusyPC
  <1>6. ASSUME GetAddress(w), NEW r \in virtual, FoundBy(w, r)
        PROVE  Smooth(virtual', s)
    <2>1. t.pc = "getAddress"
      BY <1>6 DEF GetAddress, At
    <2>2. (t.op = "change" \/ t.op = "remove") /\ Plain(t.old)
      BY <2>1 DEF Checked, Owns
    <2>3. ~r.alias.ace /\ r.alias = t.old
      BY <1>6, <2>2 DEF FoundBy, Plain
    <2>4. CASE t.op = "change" \/ r.ace > 0
      <3>1. s.pc \in {"changeAddress", "removeAce"}
        BY <1>6, <2>2, <2>4 DEF FoundBy
      <3> QED
        BY <1>3, <3>1 DEF BusyPC
    <2>5. CASE t.op # "change" /\ ~(r.ace > 0)
      <3>1. s.pc = "removeAddress" /\ s.id = r.id
        BY <1>6, <2>5 DEF FoundBy
      <3>2. r.ace = 0 /\ virtual \in SUBSET VirtualRow
        BY <2>5, RowType DEF TypeOK
      <3>3. ASSUME NEW p \in virtual, NEW q \in virtual, Twins(p, q)
            PROVE  p # r /\ q # r
        BY <2>3, <3>2, <3>3, TwinsLocal DEF RowsWell, IdsKeyed
      <3>4. Strict(virtual \ {r})
        BY <1>2, <3>3, StrictDeleted
      <3>5. InWork(virtual, s) = {r}
        BY <3>1 DEF InWork, RowsWell, IdsKeyed
      <3> QED
        BY <1>1, <1>2, <3>1, <3>4, <3>5 DEF Smooth
    <2> QED
      BY <2>4, <2>5
  <1>7. CASE RemoveForwards(w)
    <2>1. t.pc = "removeForwards" /\ Goto(w, "removeAccount")
      BY <1>7 DEF RemoveForwards, At
    <2>2. s.pc = "removeAccount"
      BY <2>1, TaskKinds DEF Goto, TypeOK, AccountTask, AccountPC
    <2> QED
      BY <1>3, <2>2 DEF BusyPC
  <1>8. CASE QueryForwards(w) /\ ~Finish(w)
    <2>1. task[w] \in ForwardTask
      BY <1>8, TaskKinds DEF QueryForwards, At, ForwardPC
    <2>2. PICK x : task' = [task EXCEPT ![w].pc = "writeForwards", ![w].list = x]
      BY <1>8 DEF QueryForwards
    <2>3. s.pc = "writeForwards"
      BY <2>1, <2>2 DEF TypeOK, ForwardTask
    <2> QED
      BY <1>3, <2>3 DEF BusyPC
  <1> QED
    BY <1>4, <1>5, <1>6, <1>7, <1>8, GetEffect DEF RemoveAccount, AddForward, RemoveForward,
       EditForward, ChangeKeepLocal, Writes

\* The two forms of an address are kept together by every request that nothing
\* interrupts.
SmoothInv == AddressInv /\ (faults = 0 => \A w \in Worker : Smooth(virtual, task[w]))

LEMMA SmoothStep ==
    ASSUME NEW w0, Worker = {w0}, SmoothInv, [Next]_vars
    PROVE  SmoothInv'
  <1>1. AddressInv'
    BY AddressNextStep DEF SmoothInv
  <1>2. TypeOK /\ RowsWell(virtual, nextId) /\ Checked(virtual, nextId, task[w0])
    BY DEF SmoothInv, AddressInv
  <1>3. CASE UNCHANGED vars
    BY <1>1, <1>3 DEF SmoothInv, vars
  <1>4. CASE Failure(w0)
    <2>1. faults' # 0
      <3>1. faults \in Nat
        BY <1>2 DEF TypeOK
      <3>2. faults' = faults + 1
        BY <1>4 DEF Failure, StatementFails, TwinFails, Crash, Fault
      <3> QED
        BY <3>1, <3>2
    <2> QED
      BY <1>1, <2>1 DEF SmoothInv
  <1>5. CASE ~Failure(w0) /\ Next
    <2>1. \/ \E u \in User : Begin(w0, u)
          \/ \E u \in User, l \in Local : CreateAccount(w0, u, l)
          \/ Step(w0)
      BY <1>5 DEF Next
    <2>2. faults' = faults
      <3>1. CASE \E u \in User : Begin(w0, u)
        BY <1>2, <3>1, BeginQuiet
      <3>2. CASE \E u \in User, l \in Local : CreateAccount(w0, u, l)
        BY <3>2 DEF CreateAccount
      <3>3. CASE Step(w0)
        BY <3>3 DEF Step, RemoveVirtual, RemoveForwards, RemoveAccount, CheckAddress,
           GetAddress, InsertAddress, InsertAce, LinkAce, UndoAddress, UndoAce, RemoveAce,
           RemoveAddress, ChangeAll, DropCatchAll, InsertCatchAll, InsertCatchAllAce,
           LinkCatchAll, UndoCatchAll, RemoveCatchAll, RemoveCatchAllAce, QueryForwards,
           AddForward, RemoveForward, EditForward, ChangeKeepLocal, Writes
      <3> QED
        BY <2>1, <3>1, <3>2, <3>3
    <2>3. ASSUME faults = 0
          PROVE  Smooth(virtual', task'[w0])
      <3>1. Smooth(virtual, task[w0])
        BY <2>3 DEF SmoothInv
      <3> QED
        BY <1>2, <2>1, <3>1, BeginSmooth, CreateSmooth, DeleteSmooth, InsertSmooth, LinkSmooth,
           ChangeSmooth, ReadSmooth DEF Step
    <2> QED
      BY <1>1, <2>2, <2>3 DEF SmoothInv
  <1> QED
    BY <1>3, <1>4, <1>5

LEMMA SmoothInit ==
    ASSUME Init
    PROVE  SmoothInv
  <1>1. \A w \in Worker : task[w].pc \notin BusyPC
    BY DEF Init, Idle, BusyPC
  <1>2. NoTwice(virtual) /\ OneCatchAll(virtual) /\ Strict(virtual)
    BY DEF Init, NoTwice, OneCatchAll, CatchAllIn, Strict
  <1> QED
    BY <1>1, <1>2, AddressInit, SmoothQuiet DEF SmoothInv

\* An address belongs to one account, whatever fails; its ACE form and the
\* catch-all address do as long as nothing fails.
THEOREM AliasesUnique ==
    ASSUME NEW w0, Worker = {w0}
    PROVE  Spec => []AliasUnique
  <1>1. SmoothInv => AliasUnique
    <2> SUFFICES ASSUME SmoothInv, NEW q \in virtual, NEW r \in virtual, q.alias = r.alias
                 PROVE  q = r \/ (faults > 0 /\ (r.alias.ace \/ r.alias.local = CatchAll))
      BY DEF AliasUnique
    <2>1. CASE Plain(r.alias)
      BY <2>1 DEF SmoothInv, AddressInv, RowsWell, PlainUnique
    <2>2. CASE faults = 0
      BY <2>2 DEF SmoothInv, Smooth, NoTwice
    <2>3. CASE ~Plain(r.alias) /\ faults # 0
      BY <2>3 DEF SmoothInv, AddressInv, TypeOK, Plain
    <2> QED
      BY <2>1, <2>2, <2>3
  <1> QED
    BY <1>1, SmoothInit, SmoothStep, PTL DEF Spec

\* As long as nothing fails, the two rows of an internationalised address point at
\* each other between the requests, and there is one catch-all address.
THEOREM TwinsStayTogether ==
    ASSUME NEW w0, Worker = {w0}
    PROVE  Spec => []TwinsTogether
  <1>1. SmoothInv => TwinsTogether
    <2> SUFFICES ASSUME SmoothInv, faults = 0, AllIdle
                 PROVE  /\ \A r \in virtual :
                             IF r.alias.ace
                             THEN \E q \in virtual : /\ q.id = r.idn /\ q.ace = r.id
                                                    /\ q.user = r.user /\ AceOf(q.alias) = r.alias
                             ELSE IF IsIdn(r.alias)
                             THEN \E q \in virtual : q.id = r.ace /\ q.idn = r.id
                             ELSE r.ace = 0
                        /\ \A q, r \in virtual :
                             q.alias.local = CatchAll /\ r.alias.local = CatchAll
                               => q.user = r.user
      BY DEF TwinsTogether
    <2>1. task[w0].pc \notin BusyPC /\ Smooth(virtual, task[w0])
      BY DEF SmoothInv, AllIdle, At, BusyPC
    <2>2. OneCatchAll(virtual) /\ Strict(virtual)
      BY <2>1, SmoothQuiet
    <2>3. ASSUME NEW r \in virtual
          PROVE  IF r.alias.ace
                 THEN \E q \in virtual : /\ q.id = r.idn /\ q.ace = r.id
                                        /\ q.user = r.user /\ AceOf(q.alias) = r.alias
                 ELSE IF IsIdn(r.alias)
                 THEN \E q \in virtual : q.id = r.ace /\ q.idn = r.id
                 ELSE r.ace = 0
      <3>1. CASE r.alias.ace
        BY <2>2, <3>1 DEF Strict, Twins
      <3>2. CASE ~r.alias.ace /\ IsIdn(r.alias)
        BY <2>2, <3>2 DEF Strict, Twins
      <3>3. CASE ~r.alias.ace /\ ~IsIdn(r.alias)
        BY <2>2, <3>3 DEF Strict
      <3> QED
        BY <3>1, <3>2, <3>3
    <2> QED
      BY <2>2, <2>3 DEF OneCatchAll, CatchAllIn
  <1> QED
    BY <1>1, SmoothInit, SmoothStep, PTL DEF Spec

=============================================================================
