-------------------------- MODULE AccountAddresses --------------------------
(***************************************************************************)
(* The addresses and forwards of existing accounts: table virtual.         *)
(*                                                                         *)
(* An address of an internationalised domain is two rows, one with the     *)
(* Unicode and one with the ACE form of the domain.  idn_id of the second  *)
(* points to the first, ace_id of the first to the second.  Both are       *)
(* written by statements of their own: only updateEmail runs in a          *)
(* transaction, and it ignores the errors inside.  A forward is a row      *)
(* whose alias is the user name and whose dest is a list that is read,     *)
(* changed in memory and written back.                                     *)
(*                                                                         *)
(* The task of a worker holds the account as AccountEditor::base read it   *)
(* at the start of the request ("stash").  All accounts belong to Home.    *)
(*                                                                         *)
(* With fully qualified user names (fqun) the name of an account is the    *)
(* address it was created with.  Then mail can be forwarded to it, and its *)
(* forwards have an alias that is an address.                              *)
(*                                                                         *)
(* Left out: updated_at, validation of the address syntax; that            *)
(* EmailAddress::get() takes a row of forwards for the address, which it   *)
(* can only do when another request has just removed that address.         *)
(***************************************************************************)
EXTENDS Integers, FiniteSets, Sequences

CONSTANTS
    Worker,         \* threads and processes that serve requests
    User,           \* account user names
    Local,          \* local parts of email addresses
    NameLocal,      \* the local parts of the user names that are fully qualified
    CatchAll,       \* the empty local part: a catch-all address "@domain"
    Home,           \* the domain the accounts belong to
    OtherDomain,    \* further domains, for free addresses
    IdnDomain,      \* domains with an internationalised name
    Forward,        \* forward addresses, user names among them if fully qualified
    Folded,         \* forward addresses that differ in case only have one image
    FreeAddress,    \* Domain::isFreeAddressEnabled() of Home
    ForwardUser,    \* bound: accounts whose forwards are edited
    MaxId,          \* bound: no request starts after this many rows
    MaxFaults       \* bound: failed statements and crashes

Domain == {Home} \cup OtherDomain

ASSUME AddressAssumption ==
    /\ CatchAll \notin Local
    /\ IdnDomain \subseteq Domain
    /\ FreeAddress \in BOOLEAN
    /\ MaxId \in Nat
    /\ MaxFaults \in Nat
    /\ DOMAIN NameLocal \subseteq User

VARIABLES
    accountuser,    \* users that have a row in accountuser
    virtual,        \* rows of table virtual that are addresses
    forwardRows,    \* dest of the rows that are forwards, in the order of ids
    nextId,         \* AUTO_INCREMENT of virtual
    task,           \* what every worker is doing
    faults          \* failures so far

vars == <<accountuser, virtual, forwardRows, nextId, task, faults>>

-----------------------------------------------------------------------------
(* Rows and requests *)

Alias == [local : Local \cup {CatchAll}, dom : Domain, ace : BOOLEAN]

VirtualRow == [id : Nat, idn : Nat, ace : Nat, alias : Alias, user : User]

\* A list of forwards may hold the user's own name: keep a copy.
Dest == SUBSET (Forward \cup User)

Idle == [pc |-> "idle"]

AddPC == {"insertAddress", "insertAce", "linkAce", "undoAddress", "undoAce"}
ChangePC == {"changeAddress"}
RemovePC == {"removeAce", "removeAddress"}
CatchAllPC == {"dropCatchAll", "insertCatchAll", "insertCatchAllAce", "linkCatchAll",
               "undoCatchAll", "removeCatchAll", "removeCatchAllAce"}
AddressPC == {"checkAddress", "getAddress"} \cup AddPC \cup ChangePC \cup RemovePC \cup CatchAllPC
ForwardPC == {"queryForwards", "writeForwards"}
AccountPC == {"removeVirtual", "removeForwards", "removeAccount"}

\* addEmail, updateEmail, removeEmail and the catch-all of Account::update:
\* "new" is the address to add, "old" the one to change or to remove.
AddressTask ==
    [pc : AddressPC, op : {"add", "change", "remove", "catchall"}, user : User,
     old : Alias, new : Alias, id : Nat, aceId : Nat]

\* addForward, removeForward, editForward, changeKeepLocal
ForwardRequest ==
    [op : {"add"}, user : User, new : Forward]
        \cup [op : {"remove"}, user : User, old : Forward]
        \cup [op : {"edit"}, user : User, old : Forward, new : Forward]
        \cup [op : {"keep"}, user : User, keep : BOOLEAN]

ForwardTask == [pc : ForwardPC, request : ForwardRequest, list : Dest]

\* Account::remove, as far as virtual is concerned
AccountTask == [pc : AccountPC, user : User]

TypeOK ==
    /\ accountuser \subseteq User
    /\ virtual \subseteq VirtualRow
    /\ forwardRows \in [User -> Seq(Dest)]
    /\ nextId \in Nat
    /\ task \in [Worker -> {Idle} \cup AddressTask \cup ForwardTask \cup AccountTask]
    /\ faults \in Nat

Init ==
    /\ accountuser = {}
    /\ virtual = {}
    /\ forwardRows = [u \in User |-> << >>]
    /\ nextId = 1
    /\ task = [w \in Worker |-> Idle]
    /\ faults = 0

At(w, p) == task[w].pc = p

Goto(w, p) == task' = [task EXCEPT ![w].pc = p]

Finish(w) == task' = [task EXCEPT ![w] = Idle]

\* No bound on new rows is reached.
CanStart(w) == At(w, "idle") /\ nextId <= MaxId

Address(l, d) == [local |-> l, dom |-> d, ace |-> FALSE]

AceOf(a) == [a EXCEPT !.ace = TRUE]

IsIdn(a) == a.dom \in IdnDomain

NewRow(i, idn, ace, a, u) == [id |-> i, idn |-> idn, ace |-> ace, alias |-> a, user |-> u]

\* queryAddresses(): the addresses of an account, without the ACE forms.
RowsOf(u) == {r \in virtual : r.user = u /\ r.idn = 0}

AddressesOf(u) == {r.alias : r \in {q \in RowsOf(u) : q.alias.local # CatchAll}}

IsCatchAll(u) == \E r \in RowsOf(u) : r.alias.local = CatchAll

InUse(a) == \E r \in virtual : r.alias = a

\* The alias of the forwards of an account with a fully qualified name.
ForwardsOf(a) ==
    \E u \in DOMAIN NameLocal : forwardRows[u] # << >> /\ a = Address(NameLocal[u], Home)

\* insertVirtual(): one row; its id is what the statement returns.
InsertVirtual(w, idn, a) ==
    /\ virtual' = virtual \cup {NewRow(nextId, idn, 0, a, task[w].user)}
    /\ nextId' = nextId + 1

DeleteRows(rows) == virtual' = virtual \ rows

\* removeVirtualByID()
RemoveVirtualByID(i) == DeleteRows({r \in virtual : r.id = i})

\* Mutant: the error value of a statement that returned no id is written.
NoAceID(i, aceId) ==
    virtual' = {IF r.id = i THEN [r EXCEPT !.ace = -1] ELSE r : r \in virtual}

\* updateAceID()
UpdateAceID(i, aceId) ==
    virtual' = {IF r.id = i THEN [r EXCEPT !.ace = aceId] ELSE r : r \in virtual}

-----------------------------------------------------------------------------
(* Accounts come and go *)

\* A whole Account::create, whose steps are the subject of AccountProvisioning.
CreateAccount(w, u, l) ==
    /\ CanStart(w)
    /\ u \notin accountuser
    /\ u \in DOMAIN NameLocal => l = NameLocal[u]
    /\ ~InUse(Address(l, Home)) /\ ~ForwardsOf(Address(l, Home))
    /\ LET a == Address(l, Home) IN
       IF IsIdn(a)
       THEN /\ virtual' = virtual \cup {NewRow(nextId, 0, nextId + 1, a, u),
                                        NewRow(nextId + 1, nextId, 0, AceOf(a), u)}
            /\ nextId' = nextId + 2
       ELSE /\ virtual' = virtual \cup {NewRow(nextId, 0, 0, a, u)}
            /\ nextId' = nextId + 1
    /\ accountuser' = accountuser \cup {u}
    /\ UNCHANGED <<forwardRows, task, faults>>

BeginRemoveAccount(w, u) ==
    /\ At(w, "idle")
    /\ u \in accountuser
    /\ task' = [task EXCEPT ![w] = [pc |-> "removeVirtual", user |-> u]]
    /\ UNCHANGED <<accountuser, virtual, forwardRows, nextId, faults>>

RemoveVirtual(w) ==
    /\ At(w, "removeVirtual")
    /\ DeleteRows({r \in virtual : r.user = task[w].user})
    /\ Goto(w, "removeForwards")
    /\ UNCHANGED <<accountuser, forwardRows, nextId, faults>>

\* DELETE FROM virtual WHERE alias = :username AND username = ''
DeleteForwards(u) == forwardRows' = [forwardRows EXCEPT ![u] = << >>]

RemoveForwards(w) ==
    /\ At(w, "removeForwards")
    /\ DeleteForwards(task[w].user)
    /\ Goto(w, "removeAccount")
    /\ UNCHANGED <<accountuser, virtual, nextId, faults>>

RemoveAccount(w) ==
    /\ At(w, "removeAccount")
    /\ accountuser' = accountuser \ {task[w].user}
    /\ Finish(w)
    /\ UNCHANGED <<virtual, forwardRows, nextId, faults>>

-----------------------------------------------------------------------------
(* Addresses: what the controllers check in the account they have read *)

Start(w, p, op, u, old, new) ==
    task' = [task EXCEPT ![w] = [pc |-> p, op |-> op, user |-> u, old |-> old, new |-> new,
                                 id |-> 0, aceId |-> 0]]

BeginAdd(w, u) ==
    \E l \in Local, d \in Domain :
        /\ CanStart(w)
        /\ u \in accountuser
        /\ Address(l, d) \notin AddressesOf(u)
        /\ Start(w, "checkAddress", "add", u, Address(l, d), Address(l, d))
        /\ UNCHANGED <<accountuser, virtual, forwardRows, nextId, faults>>

BeginChange(w, u) ==
    \E l \in Local, d \in Domain, old \in AddressesOf(u) :
        /\ CanStart(w)
        /\ u \in accountuser
        /\ Address(l, d) \notin AddressesOf(u)
        /\ Start(w, "checkAddress", "change", u, old, Address(l, d))
        /\ UNCHANGED <<accountuser, virtual, forwardRows, nextId, faults>>

\* Mutant: the last address may go.
AnyAddress(u, a) == TRUE

\* The last address stays, and the last one in the account's own domain.
MayRemove(u, a) ==
    /\ Cardinality(AddressesOf(u)) > 1
    /\ a.dom = Home => Cardinality({b \in AddressesOf(u) : b.dom = Home}) >= 2

BeginRemove(w, u) ==
    \E old \in AddressesOf(u) :
        /\ At(w, "idle")
        /\ u \in accountuser
        /\ MayRemove(u, old)
        /\ Start(w, "getAddress", "remove", u, old, old)
        /\ UNCHANGED <<accountuser, virtual, forwardRows, nextId, faults>>

\* Account::update does something about the catch-all if the wish differs from
\* what the account was when it was read.
BeginCatchAll(w, u) ==
    /\ CanStart(w)
    /\ u \in accountuser
    /\ Start(w, IF IsCatchAll(u) THEN "removeCatchAll" ELSE "dropCatchAll", "catchall", u,
             Address(CatchAll, Home), Address(CatchAll, Home))
    /\ UNCHANGED <<accountuser, virtual, forwardRows, nextId, faults>>

-----------------------------------------------------------------------------
(* Addresses: statements *)

\* Mutant: the address is looked up among the account's own ones only.
OwnUse(w) == \E r \in RowsOf(task[w].user) : r.alias = task[w].new

\* canAddAddress(): other domains only when addresses are free, and there may be
\* no row with the address yet.  The ACE form is not looked up.
Refused(w) ==
    \/ ~FreeAddress /\ task[w].new.dom # Home
    \/ InUse(task[w].new)
    \/ ForwardsOf(task[w].new)

CheckAddress(w) ==
    /\ At(w, "checkAddress")
    /\ IF Refused(w) THEN Finish(w)
       ELSE Goto(w, IF task[w].op = "add" THEN "insertAddress" ELSE "getAddress")
    /\ UNCHANGED <<accountuser, virtual, forwardRows, nextId, faults>>

\* EmailAddress::get(): a row with the address, whoever it belongs to.  A row
\* with an ace_id is taken for an internationalised address.
GetAddress(w) ==
    /\ At(w, "getAddress")
    /\ IF InUse(task[w].old)
       THEN \E r \in virtual :
              /\ r.alias = task[w].old
              /\ task' = [task EXCEPT
                     ![w].pc = IF task[w].op = "change" THEN "changeAddress"
                               ELSE IF r.ace > 0 THEN "removeAce"
                               ELSE "removeAddress",
                     ![w].id = r.id, ![w].aceId = r.ace]
       ELSE Finish(w)
    /\ UNCHANGED <<accountuser, virtual, forwardRows, nextId, faults>>

\* addEmail
InsertAddress(w) ==
    /\ At(w, "insertAddress")
    /\ InsertVirtual(w, 0, task[w].new)
    /\ IF IsIdn(task[w].new)
       THEN task' = [task EXCEPT ![w].pc = "insertAce", ![w].id = nextId]
       ELSE Finish(w)
    /\ UNCHANGED <<accountuser, forwardRows, faults>>

InsertAce(w) ==
    /\ At(w, "insertAce")
    /\ InsertVirtual(w, task[w].id, AceOf(task[w].new))
    /\ task' = [task EXCEPT ![w].pc = "linkAce", ![w].aceId = nextId]
    /\ UNCHANGED <<accountuser, forwardRows, faults>>

LinkAce(w) ==
    /\ At(w, "linkAce")
    /\ UpdateAceID(task[w].id, task[w].aceId)
    /\ Finish(w)
    /\ UNCHANGED <<accountuser, forwardRows, nextId, faults>>

\* Error paths of addEmail: removeVirtualByID of what has been inserted.
UndoAddress(w) ==
    /\ At(w, "undoAddress")
    /\ RemoveVirtualByID(task[w].id)
    /\ IF task[w].aceId = 0 THEN Finish(w) ELSE Goto(w, "undoAce")
    /\ UNCHANGED <<accountuser, forwardRows, nextId, faults>>

UndoAce(w) ==
    /\ At(w, "undoAce")
    /\ RemoveVirtualByID(task[w].aceId)
    /\ Finish(w)
    /\ UNCHANGED <<accountuser, forwardRows, nextId, faults>>

\* removeEmail: the ACE form first.
RemoveAce(w) ==
    /\ At(w, "removeAce")
    /\ RemoveVirtualByID(task[w].aceId)
    /\ Goto(w, "removeAddress")
    /\ UNCHANGED <<accountuser, forwardRows, nextId, faults>>

RemoveAddress(w) ==
    /\ At(w, "removeAddress")
    /\ RemoveVirtualByID(task[w].id)
    /\ Finish(w)
    /\ UNCHANGED <<accountuser, forwardRows, nextId, faults>>

\* The rows after the statements of updateEmail: "twin" says whether the
\* statements on the ACE row worked, "link" whether those on ace_id did.  Their
\* errors are ignored, and a failed INSERT returns the id 0.
\* Mutant: an address that leaves an internationalised domain keeps its ACE row.
ForgetTwin(w, twin, link) ==
    {IF r.id = task[w].id THEN [r EXCEPT !.alias = task[w].new, !.ace = 0] ELSE r
        : r \in virtual}

Changed(w, twin, link) ==
    LET t == task[w]
        wasIdn == t.aceId > 0
        aceId == CASE wasIdn /\ IsIdn(t.new) -> t.aceId
                   [] ~wasIdn /\ IsIdn(t.new) /\ twin -> nextId
                   [] OTHER -> 0
        moved == {IF r.id = t.id
                  THEN [r EXCEPT !.alias = t.new, !.ace = IF link THEN aceId ELSE @]
                  ELSE IF twin /\ wasIdn /\ IsIdn(t.new) /\ r.id = t.aceId
                  THEN [r EXCEPT !.alias = AceOf(t.new)]
                  ELSE r : r \in virtual}
    IN  IF ~twin THEN moved
        ELSE IF wasIdn /\ ~IsIdn(t.new) THEN {r \in moved : r.id # t.aceId}
        ELSE IF ~wasIdn /\ IsIdn(t.new)
        THEN moved \cup {NewRow(nextId, t.id, 0, AceOf(t.new), t.user)}
        ELSE moved

\* BEGIN ... COMMIT
ChangeAddress(w, twin, link) ==
    /\ At(w, "changeAddress")
    /\ virtual' = Changed(w, twin, link)
    /\ nextId' = IF twin /\ task[w].aceId = 0 /\ IsIdn(task[w].new) THEN nextId + 1 ELSE nextId
    /\ Finish(w)
    /\ UNCHANGED <<accountuser, forwardRows>>

ChangeAll(w) ==
    /\ ChangeAddress(w, TRUE, TRUE)
    /\ UNCHANGED faults

-----------------------------------------------------------------------------
(* The catch-all of Account::update *)

CatchAllAddress == Address(CatchAll, Home)

CatchAllForms == IF IsIdn(CatchAllAddress) THEN {CatchAllAddress, AceOf(CatchAllAddress)}
                                           ELSE {CatchAllAddress}

DropCatchAll(w) ==
    /\ At(w, "dropCatchAll")
    /\ DeleteRows({r \in virtual : r.alias \in CatchAllForms})
    /\ Goto(w, "insertCatchAll")
    /\ UNCHANGED <<accountuser, forwardRows, nextId, faults>>

InsertCatchAll(w) ==
    /\ At(w, "insertCatchAll")
    /\ InsertVirtual(w, 0, CatchAllAddress)
    /\ IF IsIdn(CatchAllAddress)
       THEN task' = [task EXCEPT ![w].pc = "insertCatchAllAce", ![w].id = nextId]
       ELSE Finish(w)
    /\ UNCHANGED <<accountuser, forwardRows, faults>>

InsertCatchAllAce(w) ==
    /\ At(w, "insertCatchAllAce")
    /\ InsertVirtual(w, task[w].id, AceOf(CatchAllAddress))
    /\ task' = [task EXCEPT ![w].pc = "linkCatchAll", ![w].aceId = nextId]
    /\ UNCHANGED <<accountuser, forwardRows, faults>>

LinkCatchAll(w) ==
    /\ At(w, "linkCatchAll")
    /\ UpdateAceID(task[w].id, task[w].aceId)
    /\ Finish(w)
    /\ UNCHANGED <<accountuser, forwardRows, nextId, faults>>

\* After a failed link the Unicode form is deleted again, the ACE form is not.
UndoCatchAll(w) ==
    /\ At(w, "undoCatchAll")
    /\ DeleteRows({r \in virtual : r.alias = CatchAllAddress})
    /\ Finish(w)
    /\ UNCHANGED <<accountuser, forwardRows, nextId, faults>>

RemoveCatchAll(w) ==
    /\ At(w, "removeCatchAll")
    /\ DeleteRows({r \in virtual : r.alias = CatchAllAddress /\ r.user = task[w].user})
    /\ IF IsIdn(CatchAllAddress) THEN Goto(w, "removeCatchAllAce") ELSE Finish(w)
    /\ UNCHANGED <<accountuser, forwardRows, nextId, faults>>

RemoveCatchAllAce(w) ==
    /\ At(w, "removeCatchAllAce")
    /\ DeleteRows({r \in virtual : r.alias = AceOf(CatchAllAddress) /\ r.user = task[w].user})
    /\ Finish(w)
    /\ UNCHANGED <<accountuser, forwardRows, nextId, faults>>

-----------------------------------------------------------------------------
(* Forwards *)

StartForward(w, request) ==
    /\ At(w, "idle")
    /\ task' = [task EXCEPT ![w] = [pc |-> "queryForwards", request |-> request, list |-> {}]]
    /\ UNCHANGED <<accountuser, virtual, forwardRows, nextId, faults>>

\* The destinations of an account as queryFowards() finds them: of its first row.
ListOf(u) == IF forwardRows[u] = << >> THEN {} ELSE Head(forwardRows[u])

\* What it makes of them: the forwards and, if the own name is among them, the
\* wish to keep a copy.
ForwardsIn(u, list) == list \ {u}

\* A changed list of forwards, with the wish to keep a copy as it was read.
Joined(u, list, forwards) == forwards \cup (list \cap {u})

Editable(u) == u \in accountuser \cap ForwardUser

BeginAddForward(w, u) ==
    \E f \in Forward :
        /\ Editable(u) /\ CanStart(w)
        /\ StartForward(w, [op |-> "add", user |-> u, new |-> f])

\* Only remove_forward looks into the account it has read, with regard to case.
BeginRemoveForward(w, u) ==
    \E f \in ForwardsIn(u, ListOf(u)) \cap Forward :
        /\ Editable(u)
        /\ StartForward(w, [op |-> "remove", user |-> u, old |-> f])

BeginEditForward(w, u) ==
    \E f, g \in Forward :
        /\ Editable(u)
        /\ StartForward(w, [op |-> "edit", user |-> u, old |-> f, new |-> g])

BeginKeepLocal(w, u) ==
    \E k \in BOOLEAN :
        /\ Editable(u)
        /\ StartForward(w, [op |-> "keep", user |-> u, keep |-> k])

\* QStringList::contains(..., Qt::CaseInsensitive)
Contains(forwards, f) == \E g \in forwards \cap Forward : Folded[g] = Folded[f]

\* The list that was read does not allow the request.
RefusesList(r, list) ==
    \/ r.op \in {"add", "edit"} /\ Contains(ForwardsIn(r.user, list), r.new)
    \/ r.op \in {"remove", "edit"} /\ ~Contains(ForwardsIn(r.user, list), r.old)
    \/ r.op = "keep" /\ r.keep = (r.user \in list)

QueryForwards(w) ==
    LET r == task[w].request
        list == ListOf(r.user)
    IN  /\ At(w, "queryForwards")
        /\ IF RefusesList(r, list)
           THEN Finish(w)
           ELSE task' = [task EXCEPT ![w].pc = "writeForwards", ![w].list = list]
        /\ UNCHANGED <<accountuser, virtual, forwardRows, nextId, faults>>

\* UPDATE reaches all rows of the account, and none if there is none.
UpdateForwards(u, list) ==
    forwardRows' = [forwardRows EXCEPT ![u] = [i \in DOMAIN @ |-> list]]

Writes(w, op) ==
    /\ At(w, "writeForwards")
    /\ task[w].request.op = op
    /\ Finish(w)
    /\ UNCHANGED <<accountuser, virtual, faults>>

\* Whether there is a row is told by the forwards that were read.
AddForward(w) ==
    LET r == task[w].request
        forwards == ForwardsIn(r.user, task[w].list)
        list == Joined(r.user, task[w].list, forwards \cup {r.new})
    IN  /\ Writes(w, "add")
        /\ IF forwards = {}
           THEN forwardRows' = [forwardRows EXCEPT ![r.user] = Append(@, list)] /\ nextId' = nextId + 1
           ELSE UpdateForwards(r.user, list) /\ UNCHANGED nextId

\* Mutant: the list without forwards is written like any other.
NeverEmpty(forwards) == FALSE

\* removeForward() deletes the row with the last forward.
IsEmptied(forwards) == forwards = {}

RemoveForward(w) ==
    LET r == task[w].request
        forwards == ForwardsIn(r.user, task[w].list) \ {r.old}
    IN  /\ Writes(w, "remove")
        /\ IF IsEmptied(forwards) THEN DeleteForwards(r.user)
           ELSE UpdateForwards(r.user, Joined(r.user, task[w].list, forwards))
        /\ UNCHANGED nextId

\* Mutant: the new forward is appended, the old one stays.
AppendForward(w) ==
    /\ Writes(w, "edit")
    /\ UpdateForwards(task[w].request.user, task[w].list \cup {task[w].request.new})
    /\ UNCHANGED nextId

EditForward(w) ==
    LET r == task[w].request
        forwards == (ForwardsIn(r.user, task[w].list) \ {r.old}) \cup {r.new}
    IN  /\ Writes(w, "edit")
        /\ UpdateForwards(r.user, Joined(r.user, task[w].list, forwards))
        /\ UNCHANGED nextId

ChangeKeepLocal(w) ==
    LET r == task[w].request IN
    /\ Writes(w, "keep")
    /\ UpdateForwards(r.user, IF r.keep THEN task[w].list \cup {r.user}
                                       ELSE task[w].list \ {r.user})
    /\ UNCHANGED nextId

-----------------------------------------------------------------------------
(* Failures *)

Fault ==
    /\ faults < MaxFaults
    /\ faults' = faults + 1

\* What follows a statement that failed.
OnError(w) ==
    CASE At(w, "insertAce") -> "undoAddress"
      [] At(w, "linkAce") -> "undoAddress"
      [] At(w, "undoAddress") /\ task[w].aceId > 0 -> "undoAce"
      [] At(w, "dropCatchAll") -> "insertCatchAll"
      [] At(w, "linkCatchAll") -> "undoCatchAll"
      [] OTHER -> "idle"

StatementFails(w) ==
    /\ ~At(w, "idle")
    /\ Fault
    /\ IF OnError(w) = "idle" THEN Finish(w) ELSE Goto(w, OnError(w))
    /\ UNCHANGED <<accountuser, virtual, forwardRows, nextId>>

\* Statements of updateEmail after the first one fail and are not looked at.
TwinFails(w) ==
    /\ Fault
    /\ task[w].pc = "changeAddress" /\ (task[w].aceId > 0 \/ IsIdn(task[w].new))
    /\ \/ ChangeAddress(w, FALSE, TRUE)
       \/ ChangeAddress(w, TRUE, FALSE)

Crash(w) ==
    /\ ~At(w, "idle")
    /\ Fault
    /\ Finish(w)
    /\ UNCHANGED <<accountuser, virtual, forwardRows, nextId>>

-----------------------------------------------------------------------------
(* Specification *)

Begin(w, u) ==
    \/ BeginRemoveAccount(w, u)
    \/ BeginAdd(w, u)
    \/ BeginChange(w, u)
    \/ BeginRemove(w, u)
    \/ BeginCatchAll(w, u)
    \/ BeginAddForward(w, u) \/ BeginRemoveForward(w, u)
    \/ BeginEditForward(w, u) \/ BeginKeepLocal(w, u)

Step(w) ==
    \/ RemoveVirtual(w) \/ RemoveForwards(w) \/ RemoveAccount(w)
    \/ CheckAddress(w) \/ GetAddress(w)
    \/ InsertAddress(w) \/ InsertAce(w) \/ LinkAce(w) \/ UndoAddress(w) \/ UndoAce(w)
    \/ RemoveAce(w) \/ RemoveAddress(w) \/ ChangeAll(w)
    \/ DropCatchAll(w) \/ InsertCatchAll(w) \/ InsertCatchAllAce(w) \/ LinkCatchAll(w)
    \/ UndoCatchAll(w) \/ RemoveCatchAll(w) \/ RemoveCatchAllAce(w)
    \/ QueryForwards(w)
    \/ AddForward(w) \/ RemoveForward(w) \/ EditForward(w) \/ ChangeKeepLocal(w)

Failure(w) == StatementFails(w) \/ TwinFails(w) \/ Crash(w)

Next ==
    \E w \in Worker :
        \/ \E u \in User : Begin(w, u)
        \/ \E u \in User, l \in Local : CreateAccount(w, u, l)
        \/ Step(w)
        \/ Failure(w)

Spec == Init /\ [][Next]_vars

-----------------------------------------------------------------------------
(* Properties *)

AllIdle == \A w \in Worker : At(w, "idle")

\* Without failures the two forms of an address stay together: the ACE row and
\* its Unicode row point at each other, name the same address and deliver to
\* the same account, and only addresses of internationalised domains have an
\* ACE row; this holds for catch-all addresses, too, of which there is one.
TwinsTogether ==
    faults = 0 /\ AllIdle =>
        /\ \A r \in virtual :
             IF r.alias.ace
             THEN \E q \in virtual : /\ q.id = r.idn /\ q.ace = r.id
                                    /\ q.user = r.user /\ AceOf(q.alias) = r.alias
             ELSE IF IsIdn(r.alias)
             THEN \E q \in virtual : q.id = r.ace /\ q.idn = r.id
             ELSE r.ace = 0
        /\ \A q, r \in virtual :
             q.alias.local = CatchAll /\ r.alias.local = CatchAll => q.user = r.user

\* An address belongs to one account as long as requests do not overlap, however
\* many accounts, additions and changes there are.  Failures can leave ACE forms
\* and catch-all addresses behind that another account then gets as well, but
\* never make an address as such belong to two accounts.
AliasUnique ==
    \A q, r \in virtual :
        q.alias = r.alias =>
            q = r \/ (faults > 0 /\ (r.alias.ace \/ r.alias.local = CatchAll))

\* The accounts whose mail nobody can forward to themselves.
PlainUser == User \ Forward

\* What addForward and removeForward rely on when they choose between INSERT,
\* UPDATE and DELETE: an account has at most one row of forwards, and a row has a
\* forward besides the account's own name.  Only an account whose name is itself
\* an address can be forwarded to itself, and then has a row without forwards
\* that the next addForward does not see.  For no account a row outlives it, or
\* else the next account of that name would forward its mail.
OneForwardRow ==
    \A u \in User : forwardRows[u] # << >> =>
        /\ u \in accountuser
        /\ u \in PlainUser => Len(forwardRows[u]) = 1 /\ ~(forwardRows[u][1] \subseteq {u})

\* However many statements fail, an account loses its last address only when it
\* is removed, or when that address was being added to an account that had none.
\* It loses its last address in its own domain only in these cases and when that
\* address is changed into one of another domain.
LastAddressKept ==
    [][\A u \in accountuser :
          /\ AddressesOf(u) # {} /\ AddressesOf(u)' = {} =>
                 \E w \in Worker : /\ task[w].pc \in {"removeVirtual", "undoAddress"}
                                  /\ task[w].user = u
          /\ (\E a \in AddressesOf(u) : a.dom = Home)
                /\ (\A a \in AddressesOf(u)' : a.dom # Home) =>
                 \E w \in Worker : /\ task[w].pc \in {"removeVirtual", "changeAddress", "undoAddress"}
                                  /\ task[w].user = u]_vars

-----------------------------------------------------------------------------
(* Refinement: the forwards as an administrator sees them *)

AskedOf(t) ==
    CASE t.pc \in ForwardPC /\ t.request.user \in PlainUser -> t.request
      [] t.pc \in {"removeVirtual", "removeForwards"} /\ t.user \in PlainUser ->
            [op |-> "clear", user |-> t.user]
      [] OTHER -> [op |-> "none"]

Lists == INSTANCE ForwardLists WITH
    User <- PlainUser,
    forwards <- [u \in PlainUser |-> ForwardsIn(u, ListOf(u))],
    keepLocal <- {u \in PlainUser : u \in ListOf(u)},
    asked <- [w \in Worker |-> AskedOf(task[w])]

\* Reading a list, changing it in memory and writing it back implements requests
\* that take effect at one moment, as long as requests do not overlap and
\* whatever fails, for every account whose name is no address.
ForwardsImplemented == Lists!Spec
=============================================================================
