----------------------------- MODULE DomainQuota -----------------------------
(***************************************************************************)
(* Storage quotas of one domain: the quota of every account in the table   *)
(* accountuser and on the IMAP server, the limit domain.domainquota, and   *)
(* the sum domain.domainquotaused that the limit is compared with.         *)
(*                                                                         *)
(* Creating and removing accounts changes the sum relatively, changing and *)
(* checking them sets it to SELECT SUM(quota).  Requests read the domain   *)
(* and the account once and then issue one autocommitted statement or IMAP *)
(* command after the other.  The quota they take for the account's is the  *)
(* IMAP server's, or the row's if memcached holds the account's usage.     *)
(* Quotas are in KiB.                                                      *)
(*                                                                         *)
(* Left out here: addresses (see AccountProvisioning), user names that are *)
(* used again, and a mailbox that is made while Account::check lists it.   *)
(***************************************************************************)
EXTENDS Integers, FiniteSets, Functions

CONSTANTS
    Worker,         \* threads and processes that serve requests
    Requests,       \* what the administrators ask for in a run
    Quota,          \* quotas that the forms send
    DefaultQuota,   \* Domain::quota() or the configured default
    UseMemcached,   \* SkaffariConfig::useMemcached()
    Wrap,           \* KiB in the range of quota_size_t: 2^54
    MaxId,          \* bound: accounts created in a run
    MaxFaults       \* bound: failed statements, lost replies and crashes

ASSUME QuotaAssumption ==
    /\ Requests \subseteq {"create", "remove", "update", "check", "domain"}
    /\ Quota \subseteq 0 .. Wrap - 1
    /\ DefaultQuota \in 1 .. Wrap - 1
    /\ UseMemcached \in BOOLEAN
    /\ Wrap \in Nat /\ MaxId \in Nat /\ MaxFaults \in Nat
    /\ IsFiniteSet(Worker)

VARIABLES
    accountuser,        \* rows of table accountuser: id and quota
    domainquota,        \* column domainquota of the domain, 0: no limit
    domainquotaused,    \* column domainquotaused
    accountcount,       \* column accountcount
    nextId,             \* AUTO_INCREMENT of accountuser
    imapquota,          \* quota of every mailbox on the IMAP server
    cached,             \* accounts whose usage memcached holds
    task,               \* what every worker is doing
    faults              \* failures so far

counters == <<domainquotaused, accountcount>>

vars == <<accountuser, domainquota, counters, nextId, imapquota, cached, task,
          faults>>

-----------------------------------------------------------------------------

Ids == 1 .. MaxId

Idle == [pc |-> "idle"]

KiB == Quota \cup {0, DefaultQuota}

CreateTask == [pc : {"insertAccount", "createMailbox", "setNewQuota", "countUp", "undo"},
               id : Nat, quota : KiB]

RemoveTask == [pc : {"deleteMailbox", "selectQuota", "deleteAccount", "countDown"},
               id : Nat, quota : KiB]

\* Where Account::get has an account's quota from, "none" if GETQUOTA failed
Source == {"row", "imap", "none"}

UpdateTask == [pc : {"setQuota", "updateAccount", "recompute"},
               id : Nat, quota : KiB, source : Source]

\* "quota" is what Account::get took for the account's, "seen" the answer to
\* the GETQUOTA of the check itself.
CheckTask == [pc : {"getQuota", "defaultMailbox", "defaultAccount",
                    "recomputeChecked", "align"},
              id : Nat, quota : KiB, source : Source, seen : KiB,
              limited : BOOLEAN]

Task == {Idle} \cup CreateTask \cup RemoveTask \cup UpdateTask \cup CheckTask

Row == [id : Nat, quota : KiB]

TypeOK ==
    /\ accountuser \subseteq Row
    /\ domainquota \in Quota
    /\ domainquotaused \in Nat /\ accountcount \in Nat /\ nextId \in Nat
    /\ imapquota \in [DOMAIN imapquota -> KiB] /\ DOMAIN imapquota \subseteq Nat
    /\ cached \subseteq Nat
    /\ task \in [Worker -> Task]
    /\ faults \in 0 .. MaxFaults

\* Domain::create
Init ==
    /\ accountuser = {}
    /\ domainquota \in Quota
    /\ domainquotaused = 0 /\ accountcount = 0
    /\ nextId = 1
    /\ imapquota = [i \in {} |-> 0]
    /\ cached = {}
    /\ task = [w \in Worker |-> Idle]
    /\ faults = 0

At(w, p) == task[w].pc = p

Goto(w, p) == task' = [task EXCEPT ![w].pc = p]

Start(w, t) == task' = [task EXCEPT ![w] = t]

Finish(w) == task' = [task EXCEPT ![w] = Idle]

HasMailbox(i) == i \in DOMAIN imapquota

\* Mutant: bytes for KiB.
SetMailboxBytes(i, q) == imapquota' = [imapquota EXCEPT ![i] = q * 1024]

\* Imap::setQuota() for a mailbox that is there
SetMailboxQuota(i, q) == imapquota' = [imapquota EXCEPT ![i] = q]

\* Imap::createMailbox(): a mailbox has no quota until it gets one.
MakeMailbox(i) ==
    imapquota' = [j \in DOMAIN imapquota \cup {i} |-> IF j = i THEN 0 ELSE imapquota[j]]

\* Imap::deleteMailbox()
DropMailbox(i) == imapquota' = [j \in DOMAIN imapquota \ {i} |-> imapquota[j]]

\* Imap::getQuota(): an answer without a quota counts as 0.
MailboxQuota(i) == IF HasMailbox(i) THEN imapquota[i] ELSE 0

\* The usage of an account goes to memcached.
Remember(i) == cached' = IF UseMemcached THEN cached \cup {i} ELSE cached

\* Account::get: with a cached usage the quota of the account is the row's,
\* else what the IMAP server says.  Each of LOGIN and GETQUOTA may fail.  The
\* row and the quota are read in one step: what happens between the two could
\* have happened before.
AccountGet(r, quota, source) ==
    \/ /\ r.id \in cached
       /\ quota = r.quota /\ source = "row"
       /\ UNCHANGED <<cached, faults>>
    \/ /\ r.id \notin cached
       /\ quota = MailboxQuota(r.id) /\ source = "imap"
       /\ Remember(r.id)
       /\ UNCHANGED faults
    \/ /\ r.id \notin cached
       /\ faults < MaxFaults /\ faults' = faults + 1
       /\ \/ quota = 0 /\ source = "none" /\ Remember(r.id)
          \/ quota = r.quota /\ source = "row" /\ UNCHANGED cached

\* UPDATE accountuser SET quota = q WHERE id = i
SetAccountQuota(i, q) ==
    accountuser' = {IF r.id = i THEN [r EXCEPT !.quota = q] ELSE r : r \in accountuser}

\* SELECT SUM(quota) FROM accountuser
SumOf(rows) == SumFunction([r \in rows |-> r.quota])

\* What is left of the limit for an account that has "own" already.  The
\* difference is unsigned.
FreeQuota(own) == (domainquota - domainquotaused + own) % Wrap

\* Mutant: forgets what other accounts have.
AdmitsAlone(q, own) == domainquota = 0 \/ q \in 1 .. domainquota

\* The validator of the form, and the check in add_account
Admits(q, own) == domainquota = 0 \/ q \in 1 .. FreeQuota(own)

\* Mutant: the count only.
CountOnly(n, q) == accountcount' = accountcount + n /\ UNCHANGED domainquotaused

\* UPDATE domain SET accountcount, domainquotaused relatively.  MySQL refuses a
\* negative result in either column, and the error is only logged.
Count(n, q) ==
    IF accountcount + n >= 0 /\ domainquotaused + q >= 0
    THEN /\ accountcount' = accountcount + n
         /\ domainquotaused' = domainquotaused + q
    ELSE UNCHANGED counters

\* Mutant: the column is not refreshed.
KeepUsed == UNCHANGED counters

\* UPDATE domain SET domainquotaused = (SELECT SUM(quota) ...).  The sum of no
\* rows is NULL, which the column refuses.
Recompute ==
    /\ domainquotaused' = IF accountuser = {} THEN domainquotaused
                          ELSE SumOf(accountuser)
    /\ UNCHANGED accountcount

-----------------------------------------------------------------------------
(* DomainEditor::add_account and Account::create *)

BeginCreate(w) ==
    \E q \in Quota :
        /\ "create" \in Requests
        /\ At(w, "idle")
        /\ nextId + Cardinality({x \in Worker : At(x, "insertAccount")}) <= MaxId
        /\ Admits(q, 0)
        /\ Start(w, [pc |-> "insertAccount", id |-> 0, quota |-> q])
        /\ UNCHANGED <<accountuser, domainquota, counters, nextId, imapquota, cached, faults>>

InsertAccount(w) ==
    /\ At(w, "insertAccount")
    /\ accountuser' = accountuser \cup {[id |-> nextId, quota |-> task[w].quota]}
    /\ nextId' = nextId + 1
    /\ Start(w, [task[w] EXCEPT !.pc = "createMailbox", !.id = nextId])
    /\ UNCHANGED <<domainquota, counters, imapquota, cached, faults>>

\* Fails if a check has made the mailbox.
CreateMailbox(w) ==
    /\ At(w, "createMailbox")
    /\ IF HasMailbox(task[w].id)
       THEN UNCHANGED imapquota /\ Goto(w, "undo")
       ELSE MakeMailbox(task[w].id) /\ Goto(w, "setNewQuota")
    /\ UNCHANGED <<accountuser, domainquota, counters, nextId, cached, faults>>

\* That the server refuses is only logged.
SetNewQuota(w) ==
    /\ At(w, "setNewQuota")
    /\ IF HasMailbox(task[w].id)
       THEN SetMailboxQuota(task[w].id, task[w].quota)
       ELSE UNCHANGED imapquota
    /\ Goto(w, "countUp")
    /\ UNCHANGED <<accountuser, domainquota, counters, nextId, cached, faults>>

CountUp(w) ==
    /\ At(w, "countUp")
    /\ Count(1, task[w].quota)
    /\ Remember(task[w].id)
    /\ Finish(w)
    /\ UNCHANGED <<accountuser, domainquota, nextId, imapquota, faults>>

\* removeAccountByID() after the IMAP server has refused the mailbox
Undo(w) ==
    /\ At(w, "undo")
    /\ accountuser' = {r \in accountuser : r.id # task[w].id}
    /\ Finish(w)
    /\ UNCHANGED <<domainquota, counters, nextId, imapquota, cached, faults>>

-----------------------------------------------------------------------------
(* Account::remove *)

BeginRemove(w) ==
    \E r \in accountuser :
        /\ "remove" \in Requests
        /\ At(w, "idle")
        /\ Start(w, [pc |-> "deleteMailbox", id |-> r.id, quota |-> 0])
        /\ UNCHANGED <<accountuser, domainquota, counters, nextId, imapquota, cached, faults>>

\* The IMAP server refuses to delete a mailbox twice.
DeleteMailbox(w) ==
    /\ At(w, "deleteMailbox")
    /\ IF HasMailbox(task[w].id)
       THEN DropMailbox(task[w].id) /\ Goto(w, "selectQuota")
       ELSE Finish(w) /\ UNCHANGED imapquota
    /\ UNCHANGED <<accountuser, domainquota, counters, nextId, cached, faults>>

\* SELECT quota: 0 if the row is gone
SelectQuota(w) ==
    LET mine == {r \in accountuser : r.id = task[w].id} IN
    /\ At(w, "selectQuota")
    /\ Start(w, [task[w] EXCEPT !.pc = "deleteAccount", !.quota = SumOf(mine)])
    /\ UNCHANGED <<accountuser, domainquota, counters, nextId, imapquota, cached, faults>>

DeleteAccount(w) ==
    /\ At(w, "deleteAccount")
    /\ accountuser' = {r \in accountuser : r.id # task[w].id}
    /\ Goto(w, "countDown")
    /\ UNCHANGED <<domainquota, counters, nextId, imapquota, cached, faults>>

CountDown(w) ==
    /\ At(w, "countDown")
    /\ Count(-1, -task[w].quota)
    /\ Finish(w)
    /\ UNCHANGED <<accountuser, domainquota, nextId, imapquota, cached, faults>>

-----------------------------------------------------------------------------
(* AccountEditor::edit and Account::update *)

BeginUpdate(w) ==
    \E r \in accountuser, q \in Quota, quota \in KiB, source \in Source :
        /\ "update" \in Requests
        /\ At(w, "idle")
        /\ AccountGet(r, quota, source)
        /\ Admits(q, quota)
        /\ Start(w, [pc |-> IF q # quota THEN "setQuota" ELSE "updateAccount",
                     id |-> r.id, quota |-> q, source |-> source])
        /\ UNCHANGED <<accountuser, domainquota, counters, nextId, imapquota>>

SetQuota(w) ==
    /\ At(w, "setQuota")
    /\ IF HasMailbox(task[w].id)
       THEN SetMailboxQuota(task[w].id, task[w].quota) /\ Goto(w, "updateAccount")
       ELSE UNCHANGED imapquota /\ Finish(w)
    /\ UNCHANGED <<accountuser, domainquota, counters, nextId, cached, faults>>

UpdateAccount(w) ==
    /\ At(w, "updateAccount")
    /\ SetAccountQuota(task[w].id, task[w].quota)
    /\ Goto(w, "recompute")
    /\ UNCHANGED <<domainquota, counters, nextId, imapquota, cached, faults>>

UpdateUsed(w) ==
    /\ At(w, "recompute")
    /\ Recompute
    /\ Finish(w)
    /\ UNCHANGED <<accountuser, domainquota, nextId, imapquota, cached, faults>>

-----------------------------------------------------------------------------
(* AccountEditor::check and Account::check *)

BeginCheck(w, i) ==
    \E r \in accountuser, quota \in KiB, source \in Source :
        /\ "check" \in Requests
        /\ At(w, "idle")
        /\ r.id = i
        /\ AccountGet(r, quota, source)
        /\ Start(w, [pc |-> "getQuota", id |-> i, quota |-> quota, source |-> source,
                     seen |-> 0, limited |-> domainquota > 0])
        /\ UNCHANGED <<accountuser, domainquota, counters, nextId, imapquota>>

\* In a limited domain every account needs a quota, on the IMAP server and in
\* the database.
AfterGetQuota(t, seen) ==
    IF t.limited /\ seen = 0 THEN "defaultMailbox"
    ELSE IF t.limited /\ t.quota = 0 THEN "defaultAccount"
    ELSE "align"

\* LIST, CREATE if the mailbox is missing
MakeIfMissing(i) == IF HasMailbox(i) THEN UNCHANGED imapquota ELSE MakeMailbox(i)

\* LIST, CREATE, GETQUOTA
GetQuota(w) ==
    LET t == task[w]
        seen == MailboxQuota(t.id)
    IN
    /\ At(w, "getQuota")
    /\ MakeIfMissing(t.id)
    /\ Start(w, [t EXCEPT !.pc = AfterGetQuota(t, seen), !.seen = seen])
    /\ UNCHANGED <<accountuser, domainquota, counters, nextId, cached, faults>>

DefaultMailbox(w) ==
    LET t == task[w] IN
    /\ At(w, "defaultMailbox")
    /\ IF HasMailbox(t.id)
       THEN /\ SetMailboxQuota(t.id, DefaultQuota)
            /\ Start(w, [t EXCEPT !.pc = AfterGetQuota(t, DefaultQuota),
                                  !.seen = DefaultQuota])
       ELSE UNCHANGED imapquota /\ Finish(w)
    /\ UNCHANGED <<accountuser, domainquota, counters, nextId, cached, faults>>

DefaultAccount(w) ==
    /\ At(w, "defaultAccount")
    /\ SetAccountQuota(task[w].id, DefaultQuota)
    /\ Start(w, [task[w] EXCEPT !.pc = "recomputeChecked", !.quota = DefaultQuota])
    /\ UNCHANGED <<domainquota, counters, nextId, imapquota, cached, faults>>

CheckUsed(w) ==
    /\ At(w, "recomputeChecked")
    /\ Recompute
    /\ Goto(w, "align")
    /\ UNCHANGED <<accountuser, domainquota, nextId, imapquota, cached, faults>>

\* Mutant: what the IMAP server has is left alone.
ReportOnly(w) ==
    /\ At(w, "align")
    /\ Finish(w)
    /\ UNCHANGED <<accountuser, domainquota, counters, nextId, imapquota, cached, faults>>

Align(w) ==
    LET t == task[w] IN
    /\ At(w, "align")
    /\ IF t.seen # t.quota /\ HasMailbox(t.id)
       THEN SetMailboxQuota(t.id, t.quota)
       ELSE UNCHANGED imapquota
    /\ Remember(t.id)
    /\ Finish(w)
    /\ UNCHANGED <<accountuser, domainquota, counters, nextId, faults>>

-----------------------------------------------------------------------------

\* Domain::update: nothing compares the new limit with what is assigned.
SetDomainQuota(w) ==
    /\ "domain" \in Requests
    /\ At(w, "idle")
    /\ domainquota' \in Quota
    /\ UNCHANGED <<accountuser, counters, nextId, imapquota, cached, task, faults>>

\* Account::list asks for the usage of every account it shows.
ListAccounts ==
    /\ \E r \in accountuser : Remember(r.id)
    /\ UNCHANGED <<accountuser, domainquota, counters, nextId, imapquota, task, faults>>

\* memcached keeps a usage for 900 seconds at most.
Expire ==
    /\ \E i \in cached : cached' = cached \ {i}
    /\ UNCHANGED <<accountuser, domainquota, counters, nextId, imapquota, task, faults>>

\* The GETQUOTA of a check fails: the check goes on with a quota of 0.
QuotaUnknown(w) ==
    LET t == task[w] IN
    /\ At(w, "getQuota")
    /\ MakeIfMissing(t.id)
    /\ Start(w, [t EXCEPT !.pc = AfterGetQuota(t, 0), !.source = "none"])

\* A statement or an IMAP command fails: most end the request, some are only
\* logged, and a quota that cannot be read counts as 0.
StatementFails(w) ==
    \/ /\ CASE At(w, "createMailbox")    -> Goto(w, "undo")
            [] At(w, "setNewQuota")      -> Goto(w, "countUp")
            [] At(w, "selectQuota")      -> Goto(w, "deleteAccount")
            [] At(w, "recomputeChecked") -> Goto(w, "align")
            [] OTHER                     -> Finish(w)
       /\ UNCHANGED imapquota
    \/ QuotaUnknown(w)

\* The IMAP server has done what it was told, its answer is lost.
ReplyLost(w) ==
    \/ /\ At(w, "createMailbox") /\ ~HasMailbox(task[w].id)
       /\ MakeMailbox(task[w].id)
       /\ Goto(w, "undo")
    \/ /\ At(w, "getQuota") /\ ~HasMailbox(task[w].id)
       /\ MakeMailbox(task[w].id)
       /\ Finish(w)
    \/ /\ At(w, "deleteMailbox") /\ HasMailbox(task[w].id)
       /\ DropMailbox(task[w].id)
       /\ Finish(w)
    \/ /\ At(w, "setQuota") \/ At(w, "align")
       /\ HasMailbox(task[w].id)
       /\ SetMailboxQuota(task[w].id, task[w].quota)
       /\ Finish(w)
    \/ /\ At(w, "defaultMailbox") /\ HasMailbox(task[w].id)
       /\ SetMailboxQuota(task[w].id, DefaultQuota)
       /\ Finish(w)

\* The process ends between two statements.
Crash(w) == Finish(w) /\ UNCHANGED imapquota

Failure(w) ==
    /\ faults < MaxFaults
    /\ ~At(w, "idle")
    /\ StatementFails(w) \/ ReplyLost(w) \/ Crash(w)
    /\ faults' = faults + 1
    /\ UNCHANGED <<accountuser, domainquota, counters, nextId, cached>>

Begin(w) ==
    \/ BeginCreate(w) \/ BeginRemove(w) \/ BeginUpdate(w)
    \/ \E i \in Ids : BeginCheck(w, i)
    \/ SetDomainQuota(w)

Step(w) ==
    \/ InsertAccount(w) \/ CreateMailbox(w) \/ SetNewQuota(w) \/ CountUp(w) \/ Undo(w)
    \/ DeleteMailbox(w) \/ SelectQuota(w) \/ DeleteAccount(w) \/ CountDown(w)
    \/ SetQuota(w) \/ UpdateAccount(w) \/ UpdateUsed(w)
    \/ GetQuota(w) \/ DefaultMailbox(w) \/ DefaultAccount(w) \/ CheckUsed(w)
    \/ Align(w)

Next ==
    \/ \E w \in Worker : Begin(w) \/ Step(w) \/ Failure(w)
    \/ ListAccounts
    \/ Expire

Spec == Init /\ [][Next]_vars

\* A worker carries on with its request;  administrators check every account
\* again and again.
Fairness ==
    /\ \A w \in Worker : WF_vars(Step(w))
    /\ \A i \in Ids : SF_vars(\E w \in Worker : BeginCheck(w, i))

FairSpec == Spec /\ Fairness

-----------------------------------------------------------------------------
(* Properties *)

Busy(pcs) == {w \in Worker : task[w].pc \in pcs}

QuotasOf(workers) == SumFunction([w \in workers |-> task[w].quota])

AllIdle == \A w \in Worker : At(w, "idle")

\* domainquotaused is the "overall quota assigned to all accounts in this
\* domain" (database-layout.dox:321) and accountcount the number of its rows
\* whenever no request is being served, as long as requests follow one another
\* and nothing has failed.  So MySQL refuses none of their decrements
\* (account.cpp:964).
UsedIsSum ==
    Cardinality(Worker) = 1 /\ AllIdle /\ faults = 0 =>
        /\ domainquotaused = SumOf(accountuser)
        /\ accountcount = Cardinality(accountuser)

\* Concurrent requests may leave the used quota too high, never too low: what
\* the column is behind the rows is covered by the creations that have not
\* added their quota yet and by the changes that have not summed up yet, and
\* what a removal is still to subtract is in it (account.cpp:841, 964, 1411,
\* 1532).  Removals and changes together are not that safe: a sum in between
\* already leaves out what the removal subtracts again.
UsedNotTooLow ==
    faults = 0 =>
        domainquotaused
            + QuotasOf(Busy({"createMailbox", "setNewQuota", "countUp", "undo",
                             "recompute", "recomputeChecked"}))
        >= SumOf(accountuser) + QuotasOf(Busy({"countDown"}))

\* "Total storage quota for all user accounts belonging to this domain"
\* (domaineditor.cpp:444): requests that follow one another never take the
\* accounts from within the limit to beyond it (domaineditor.cpp:574,
\* accounteditor.cpp:101), except for Account::check, which gives an account
\* without a quota the default one, whatever is left (account.cpp:1521).
LimitKept ==
    [][\/ domainquota = 0 \/ domainquota' # domainquota
       \/ SumOf(accountuser) > domainquota
       \/ faults > 0
       \/ \E w \in Worker : At(w, "defaultAccount")
       \/ SumOf(accountuser') <= domainquota]_vars

\* "There is not enough free quota on this domain." (domaineditor.cpp:653):
\* a creation that begins fits into what the domain has left.
CreationFits ==
    [][\A w \in Worker :
          At(w, "idle") /\ task'[w].pc = "insertAccount" /\ domainquota > 0 =>
              domainquotaused + task'[w].quota <= domainquota]_vars

\* The two stores agree about the quota of the account r, if it has a mailbox.
AgreeAbout(r) == HasMailbox(r.id) => imapquota[r.id] = r.quota

QuotasAgree == \A r \in accountuser : AgreeAbout(r)

\* Between requests of a single worker the stores agree (account.cpp:1288),
\* as long as nothing has failed.
QuotasAgreeWhenIdle == AllIdle /\ faults = 0 => QuotasAgree

\* Which request brings the stores together again, after whatever failures, is
\* a matter of where it has the account's quota from (account.cpp:1171-1195).
\* A change that asked the IMAP server does, whether it sends the quota there
\* or finds that it need not (account.cpp:1288).  A check does when it has the
\* row's (account.cpp:1541): one that asked the IMAP server compares the server
\* with itself.
RequestsAlign ==
    [][\A w \in Worker, r \in accountuser' :
          /\ Cardinality(Worker) = 1
          /\ ~At(w, "idle") /\ task[w].id = r.id
          /\ task'[w] = Idle /\ faults' = faults
          /\ \/ At(w, "recompute") /\ task[w].source = "imap"
             \/ At(w, "align") /\ task[w].source = "row"
          => AgreeAbout(r)']_vars

\* The usages of all accounts are in memcached.  A check puts the one of its
\* account there again (account.cpp:1659), for another 900 seconds.
AllCached == \A r \in accountuser : r.id \in cached

\* Whatever concurrent updates, lost answers and crashes have left behind:
\* once nobody changes quotas any more and the usages stay in memcached,
\* Account::check brings the stores together for good (account.cpp:1541).
ChecksAlign ==
    <>[](AllCached /\ \A w \in Worker : task[w].pc \notin {"setQuota", "updateAccount"})
        => <>[]QuotasAgree
=============================================================================
