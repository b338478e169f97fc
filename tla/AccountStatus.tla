---------------------------- MODULE AccountStatus ----------------------------
(***************************************************************************)
(* The status of an account: pam_mysql reads a column of accountuser to     *)
(* learn that the account or its password has expired.  The column follows  *)
(* from two dates of the same row and from the time, but nothing computes   *)
(* it when it is read: it is written by the updater, which a timer runs as  *)
(* a process of its own, and by the check of an account.  Both work from    *)
(* dates they have read before, while requests change the dates.            *)
(***************************************************************************)
EXTENDS Naturals, FiniteSets

CONSTANTS
  Account,
  Worker,     \* the threads of the application
  MaxTime,    \* bound on the clock
  MaxChanges, \* bound on requests that change dates
  MaxFaults   \* bound on failed statements and killed updaters

VARIABLES
  row,      \* accountuser: the two dates and the status of every account
  now,
  request,  \* per worker: what it does, and the account as it was read
  updater,  \* the rows the updater selected, and those still to be looked at
  changes,
  faults

vars == <<row, now, request, updater, changes, faults>>

\* Bound: the last of them never passes.
Date == 1 .. MaxTime
Flag == {"ACCT_EXPIRED", "NEW_AUTHTOK_REQD"}

----------------------------------------------------------------------------
\* Account::calcStatus
CalcStatus(validUntil, pwdExpire, time) ==
  {f \in Flag : \/ f = "ACCT_EXPIRED" /\ validUntil < time
                \/ f = "NEW_AUTHTOK_REQD" /\ pwdExpire < time}

StatusOf(r) == CalcStatus(r.valid_until, r.pwd_expire, now)

NoRequest == [does |-> "nothing"]
NotRunning == [selected |-> [a \in {} |-> 0], todo |-> {}]

NoFault == UNCHANGED faults
Fault == faults < MaxFaults /\ faults' = faults + 1

----------------------------------------------------------------------------
(* Requests *)

\* The account the request is about: the dates are those of the row, the
\* status is not.
Get(a) ==
  [id |-> a, valid_until |-> row[a].valid_until, pwd_expire |-> row[a].pwd_expire,
   status |-> StatusOf(row[a])]

Begin(w) ==
  /\ request[w] = NoRequest
  /\ \E a \in Account, does \in {"update", "check"} :
       request' = [request EXCEPT ![w] = [does |-> does, account |-> Get(a)]]
  /\ UNCHANGED <<row, now, updater, changes, faults>>

\* Account::update writes both dates, which the form has to have, and neither
\* looks at nor writes the status.
Update(w) ==
  /\ request[w].does = "update" /\ changes < MaxChanges
  /\ \E valid \in Date, expire \in Date :
       row' = [row EXCEPT ![request[w].account.id].valid_until = valid,
                          ![request[w].account.id].pwd_expire = expire]
  /\ request' = [request EXCEPT ![w] = NoRequest]
  /\ changes' = changes + 1
  /\ UNCHANGED <<now, updater, faults>>

\* The end of Account::check.
Check(w) ==
  /\ request[w].does = "check"
  /\ LET a == request[w].account
         new == CalcStatus(a.valid_until, a.pwd_expire, now)
     IN  \/ a.status = new /\ NoFault /\ UNCHANGED row
         \/ a.status # new /\ NoFault /\ row' = [row EXCEPT ![a.id].status = new]
         \/ a.status # new /\ Fault /\ UNCHANGED row
  /\ request' = [request EXCEPT ![w] = NoRequest]
  /\ UNCHANGED <<now, updater, changes>>

\* A request ends before it gets there.
GiveUp(w) ==
  /\ request[w] # NoRequest
  /\ request' = [request EXCEPT ![w] = NoRequest]
  /\ UNCHANGED <<row, now, updater, changes, faults>>

----------------------------------------------------------------------------
(* The updater *)

\* AccountStatusUpdater::exec selects all accounts once...
Select ==
  /\ updater = NotRunning
  /\ updater' = [selected |-> row, todo |-> Account]
  /\ UNCHANGED <<row, now, request, changes, faults>>

NeverLowered(old, r) == old \union StatusOf(r)
NewStatus(old, r) == StatusOf(r)

\* ...and writes the status of those whose selected status is not the one
\* of the selected dates.
UpdateStatus(a) ==
  /\ a \in updater.todo
  /\ LET r == updater.selected[a]
         new == NewStatus(r.status, r)
     IN  IF r.status = new THEN UNCHANGED row ELSE row' = [row EXCEPT ![a].status = new]
  /\ updater' = IF updater.todo = {a} THEN NotRunning ELSE [updater EXCEPT !.todo = @ \ {a}]
  /\ UNCHANGED <<now, request, changes, faults>>

\* A failed UPDATE ends the run, as does the end of the process.
Abort ==
  /\ updater # NotRunning /\ Fault
  /\ updater' = NotRunning
  /\ UNCHANGED <<row, now, request, changes>>

----------------------------------------------------------------------------
Tick ==
  /\ now < MaxTime
  /\ now' = now + 1
  /\ UNCHANGED <<row, request, updater, changes, faults>>

\* Accounts as Account::create leaves them.
Init ==
  /\ row \in [Account -> [valid_until : Date, pwd_expire : Date, status : {{}}]]
  /\ now = 0
  /\ request = [w \in Worker |-> NoRequest]
  /\ updater = NotRunning
  /\ changes = 0 /\ faults = 0

Run == Select \/ \E a \in Account : UpdateStatus(a)

Next ==
  \/ \E w \in Worker : Begin(w) \/ Update(w) \/ Check(w) \/ GiveUp(w)
  \/ Run \/ Abort \/ Tick

Spec == Init /\ [][Next]_vars

\* The timer runs the updater again and again
\* (skaffari-update-account-status.timer), and a run goes on until it ends.
FairSpec == Spec /\ WF_vars(Run)

----------------------------------------------------------------------------
\* Once neither the dates change nor the time passes one, the status of every
\* account is and stays the one of its dates, whatever an updater or a check
\* with older dates wrote after they had changed, and whatever failed
\* (accountstatusupdater.cpp:66-106, account.cpp:1556-1594).
StatusCatchesUp == <>[](\A a \in Account : row[a].status = StatusOf(row[a]))

\* A check that ends without an error leaves the account with the status of
\* its dates: "The account check route and skaffaricmd
\* --update-account-status can be used to update the status column."
\* (CHANGELOG:20)
CheckUpdatesStatus ==
  [][\A w \in Worker :
       request[w].does = "check" /\ Check(w) /\ faults' = faults =>
         LET a == request[w].account
         IN  row'[a.id].status = CalcStatus(a.valid_until, a.pwd_expire, now)]_vars
=============================================================================
