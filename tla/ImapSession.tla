------------------------------ MODULE ImapSession ------------------------------
(***************************************************************************)
(* One object of class Imap, from the request that makes it to its end: a  *)
(* connection to the IMAP server, commands with tags, answers that may be  *)
(* late and timeouts that most callers survive.                            *)
(*                                                                         *)
(* The server executes commands in their order and its lines arrive in     *)
(* theirs, but a command waits only so long.  After a timeout the client   *)
(* sends the next command on the same connection, and reads the lines of   *)
(* the late answer as the first lines of that command's answer.            *)
(*                                                                         *)
(* A request works on the mailbox of one account.  Texts are abstracted:   *)
(* names of mailboxes are right or wrong, and so is the delimiter they are *)
(* built with.  The delimiter in the configuration is the server's.  Of    *)
(* two SETQUOTA in a row, which a check sends when the server has no quota *)
(* and the domain one, only the second is modelled.                        *)
(***************************************************************************)
EXTENDS Integers, Sequences, FiniteSets

CONSTANTS
    Request,        \* the requests that are served, of AllRequests
    Folder,         \* folders of the mailbox
    Below,          \* [Folder -> SUBSET Folder]: the folders below each
    Folders,        \* the folders in the order in which a request names them
    Capabilities,   \* of the server: a subset of {"ID", "NAMESPACE"}
    StaleParse      \* what ImapParser makes of a line of another answer: too
                    \* little, a name or a delimiter, or a loop without an end

\* An update is one that changes the quota, checkUnlimited is the check of an
\* account without a quota.
AllRequests ==
    {"create", "quotaOnly", "subscribe", "remove", "check", "checkUnlimited", "list", "update"}

ASSUME ImapAssumption ==
    /\ Request \subseteq AllRequests
    /\ Below \in [Folder -> SUBSET Folder]
    /\ Folders \in Seq(Folder)
    /\ Folder \cap {"root", "wrong"} = {}
    /\ Capabilities \subseteq {"ID", "NAMESPACE"}
    /\ StaleParse \subseteq {"refused", "taken", "endless"} /\ StaleParse # {}

VARIABLES
    request,        \* the request that is served
    steps,          \* the calls of Imap it still has to make
    todo,           \* the commands of the call that is running
    waiting,        \* the command that was sent and has no answer yet
    client,         \* members of the Imap object and its socket
    outcome,        \* of the request
    conn,           \* the server's side of the connection
    box             \* the mailbox on the server

vars == <<request, steps, todo, waiting, client, outcome, conn, box>>

-----------------------------------------------------------------------------
(* The server *)

Root == "root"
Wrong == "wrong"            \* a name that was built with a wrong delimiter

\* The quota a request works with: that of the form, or of a check the one that
\* Account::get has taken from the IMAP server or, when the usage of the account
\* was in memcached, from the row.  Bound: 1 is this quota, 0 is any other and none.
WantedBy(r) == IF r = "checkUnlimited" THEN 0 ELSE 1

Boxes ==
    [exists : BOOLEAN, folders : SUBSET Folder, rights : SUBSET (Folder \cup {Root}), quota : 0 .. 1]

NoConnection == [open |-> FALSE, commands |-> << >>, lines |-> << >>]

Exists(t) == IF t = Root THEN box.exists ELSE t \in box.folders

\* Deleting needs the right, and nothing below the folder.
Deletable(t) ==
    /\ t \in box.rights
    /\ IF t = Root THEN box.exists
       ELSE t \in box.folders /\ Below[t] \cap box.folders = {}

Accepts(c) ==
    CASE c.do = "CREATE"    -> IF c.at = Root THEN ~box.exists
                               ELSE c.at # Wrong /\ box.exists /\ c.at \notin box.folders
      [] c.do \in {"SETACL", "SUBSCRIBE"} -> c.at # Wrong /\ Exists(c.at)
      [] c.do = "DELETE"    -> c.at # Wrong /\ Deletable(c.at)
      [] c.do \in {"SETQUOTA", "GETQUOTA"} -> c.at # Wrong /\ box.exists
      [] c.do = "NAMESPACE" -> "NAMESPACE" \in Capabilities
      [] c.do = "ID"        -> "ID" \in Capabilities
      [] OTHER              -> TRUE

After(c) ==
    CASE c.do = "CREATE" /\ c.at = Root   -> [box EXCEPT !.exists = TRUE]
      [] c.do = "CREATE" /\ c.at # Root   -> [box EXCEPT !.folders = @ \cup {c.at}]
      [] c.do = "SETACL"                  -> [box EXCEPT !.rights = @ \cup {c.at}]
      [] c.do = "DELETE" /\ c.at = Root   -> [box EXCEPT !.exists = FALSE, !.rights = @ \ {Root}]
      [] c.do = "DELETE" /\ c.at # Root   -> [box EXCEPT !.folders = @ \ {c.at}, !.rights = @ \ {c.at}]
      [] c.do = "SETQUOTA"                -> [box EXCEPT !.quota = WantedBy(request)]
      [] OTHER                            -> box

\* The untagged lines: what the parser of the command is interested in
DataOf(c) ==
    CASE c.do = "FOLDERS"   -> IF c.at = Wrong THEN {} ELSE box.folders
      [] c.do = "MAILBOXES" -> IF box.exists /\ c.at # Wrong THEN {Root} ELSE {}
      [] c.do = "GETQUOTA"  -> {box.quota}
      [] OTHER              -> {}

\* A line: the command it belongs to, its tag, and what it says.  All untagged
\* lines of an answer are one of these, in front of the tagged one.
Untagged(c) == [tag |-> 0, of |-> c.number, do |-> c.do, says |-> DataOf(c)]
Tagged(c, status) == [tag |-> c.tag, of |-> c.number, do |-> c.do, says |-> status]

HasData(c) ==
    \/ c.do \in {"CAPABILITY", "ID", "NAMESPACE", "DELIMITER", "MAILBOXES", "GETQUOTA"}
    \/ c.do = "FOLDERS" /\ DataOf(c) # {}

\* The server may refuse to authenticate anybody.
Answer ==
    /\ conn.commands # << >>
    /\ LET c == Head(conn.commands)
           answer(status) ==
               (IF status = "OK" /\ HasData(c) THEN <<Untagged(c)>> ELSE << >>) \o <<Tagged(c, status)>>
       IN \E status \in (IF ~Accepts(c) THEN {"NO"}
                         ELSE IF c.do = "AUTHENTICATE" THEN {"OK", "NO"} ELSE {"OK"}) :
              /\ conn' = [conn EXCEPT !.commands = Tail(@), !.lines = @ \o answer(status)]
              /\ box' = IF status = "OK" THEN After(c) ELSE box
    /\ UNCHANGED <<request, steps, todo, waiting, client, outcome>>

\* The server or the network ends the connection, the client notices later.
Hangup ==
    /\ conn.open
    /\ conn' = NoConnection
    /\ UNCHANGED <<request, steps, todo, waiting, client, outcome, box>>

-----------------------------------------------------------------------------
(* The calls of a request *)

\* A call, and whether the request goes on when it fails: to the next call, to
\* logout() or to the end
Call(op, f, fails) == [op |-> op, folder |-> f, fails |-> fails]

EachFolder(op) == [i \in DOMAIN Folders |-> Call(op, Folders[i], "next")]

Logout == Call("logout", Root, "next")

\* Account::create by the modes CreateBySkaffari and OnlySetQuota, the second
\* part of create, remove, check, list and update
Calls(r) ==
    CASE r = "create"    -> <<Call("login", Root, "end"), Call("createMailbox", Root, "logout"),
                              Call("setQuota", Root, "next")>> \o EachFolder("createFolder") \o <<Logout>>
      [] r = "quotaOnly" -> <<Call("login", Root, "logout"), Logout, Call("login", Root, "end"),
                              Call("setQuota", Root, "logout"), Logout>>
      [] r = "subscribe" -> <<Call("login", Root, "end"), Call("subscribeFolder", Root, "next")>>
                              \o EachFolder("subscribeFolder") \o EachFolder("setSpecialUse")
      [] r = "remove"    -> <<Call("login", Root, "end"), Call("deleteMailbox", Root, "logout"), Logout>>
      [] r \in {"check", "checkUnlimited"} ->
                            <<Call("login", Root, "end"), Call("getMailboxes", Root, "logout"),
                              Call("createIfMissing", Root, "logout"), Call("getQuota", Root, "next"),
                              Call("correctQuota", Root, "logout"), Logout>>
      [] r = "list"      -> <<Call("login", Root, "next"), Call("getQuota", Root, "next"),
                              Call("getQuota", Root, "next"), Logout>>
      [] r = "update"    -> <<Call("login", Root, "end"), Call("setQuota", Root, "end")>>

\* A command still to be sent.  Its tag is taken here when it is sent, in the code
\* sometimes before the names are looked up: tags are only compared for equality.
Todo(do, at) == [do |-> do, at |-> at]

\* getUserMailboxName and getInboxFolder ask for the namespaces, getDelimeter
\* once more, and then for the delimiter, as long as nothing is known.
Lookup == <<Todo("NAMESPACE", Root), Todo("NAMESPACE", Root), Todo("DELIMITER", Root)>>

\* The name of the mailbox is looked up, then the command sent.
Named(do, at) == Append(Lookup, Todo(do, at))

LoginCommands ==
    <<Todo("CAPABILITY", Root), Todo("AUTHENTICATE", Root), Todo("CAPABILITY", Root),
      Todo("ID", Root), Todo("NAMESPACE", "login")>>

-----------------------------------------------------------------------------
(* The client *)

Idle == [do |-> "none"]

\* The members of the object that was just made; mboxes is the last result of
\* getMailboxes, quota that of getQuota, number counts the commands sent and
\* took is the answer that was taken last.
NewClient ==
    [sock |-> FALSE, loggedIn |-> FALSE, tag |-> 0, caps |-> FALSE, namespaces |-> FALSE,
     delimiter |-> "unset", mboxes |-> {}, quota |-> 0, number |-> 0, took |-> [of |-> 0, command |-> 0]]

Init ==
    /\ request \in Request
    /\ steps = Calls(request)
    /\ todo = << >>
    /\ waiting = Idle
    /\ client = NewClient
    /\ outcome = "running"
    /\ conn = NoConnection
    /\ box \in {b \in Boxes : b.rights = {} /\ (~b.exists => b.folders = {} /\ b.quota = 0)}

IsWaiting == waiting # Idle
IsServed == outcome \in {"running", "failing"}
IsBetween == IsServed /\ ~IsWaiting /\ todo = << >>

\* Mutant: the number of the tag is not counted up.
SameTag == IF client.tag = 0 THEN 1 ELSE client.tag

\* Imap::getTag
GetTag == client.tag + 1

\* disconnectFromHost, with abort() if that takes too long
Disconnected(c) == [c EXCEPT !.sock = FALSE]

\* Imap::disconnectOnError
DisconnectedOnError(c) == [Disconnected(c) EXCEPT !.loggedIn = FALSE]

\* The rest of the request's calls when the first of them has failed
RestAfter(fails) ==
    CASE fails = "next"   -> Tail(steps)
      [] fails = "logout" -> <<steps[Len(steps)]>>
      [] fails = "end"    -> << >>

\* The failure of calls whose errors are only logged is none of the request.
Failed(fails) == IF fails = "next" THEN outcome ELSE "failing"

\* After the last call the request has its result.
CallEnds(rest, result) ==
    /\ steps' = rest
    /\ todo' = << >>
    /\ outcome' = IF rest # << >> THEN result
                  ELSE IF result = "failing" THEN "failed" ELSE "done"

CallSucceeds == CallEnds(Tail(steps), outcome)

CallFails == CallEnds(RestAfter(Head(steps).fails), Failed(Head(steps).fails))

\* The next command of the call, or its end
Proceed ==
    IF Len(todo) > 1
    THEN todo' = Tail(todo) /\ UNCHANGED <<steps, outcome>>
    ELSE CallSucceeds

-----------------------------------------------------------------------------
(* Beginning a call *)

\* Imap::login connects, waits for the greeting and starts the encryption.
Connect ==
    /\ IsBetween /\ steps # << >> /\ Head(steps).op = "login"
    /\ ~client.loggedIn
    /\ \/ /\ client' = [client EXCEPT !.sock = TRUE]
          /\ conn' = [NoConnection EXCEPT !.open = TRUE]
          /\ todo' = LoginCommands
          /\ UNCHANGED <<steps, outcome>>
       \/ /\ CallFails
          /\ client' = DisconnectedOnError(client)
          /\ conn' = NoConnection
    /\ UNCHANGED <<request, waiting, box>>

\* Account::check skips what is in order, as far as it knows.
IsSkipped(op) ==
    \/ op = "createIfMissing" /\ Root \in client.mboxes
    \/ op = "correctQuota" /\ client.quota = WantedBy(request)

\* list() asks for quotas only while it is logged in.
IsRefused(op) == op = "getQuota" /\ request = "list" /\ ~client.loggedIn

Start(op) == IsBetween /\ steps # << >> /\ Head(steps).op = op

\* A call that sends one command after looking up the name
StartNamed(op, command) ==
    /\ Start(op)
    /\ IF IsSkipped(op) \/ IsRefused(op)
       THEN CallSucceeds /\ UNCHANGED client
       ELSE /\ todo' = Named(command, Head(steps).folder)
            /\ UNCHANGED <<steps, outcome, client>>
    /\ UNCHANGED <<request, waiting, conn, box>>

CreateMailbox == StartNamed("createMailbox", "CREATE") \/ StartNamed("createIfMissing", "CREATE")
CreateFolder == StartNamed("createFolder", "CREATE")
SubscribeFolder == StartNamed("subscribeFolder", "SUBSCRIBE")
SetQuota == StartNamed("setQuota", "SETQUOTA") \/ StartNamed("correctQuota", "SETQUOTA")
GetQuota == StartNamed("getQuota", "GETQUOTA")
GetMailboxes == StartNamed("getMailboxes", "MAILBOXES")

\* deleteMailbox begins with the folders to be deleted.
DeleteMailbox == StartNamed("deleteMailbox", "FOLDERS")

\* setSpecialUse takes every name that can be encoded for one that can not.
SetSpecialUse ==
    /\ Start("setSpecialUse")
    /\ CallFails
    /\ UNCHANGED <<request, waiting, client, conn, box>>

\* logout() of an object that is not logged in does nothing; else the tags begin
\* anew, even for its own command.
StartLogout ==
    /\ Start("logout")
    /\ IF client.loggedIn
       THEN /\ client' = [client EXCEPT !.loggedIn = FALSE, !.tag = 0]
            /\ IF client.sock
               THEN todo' = <<Todo("LOGOUT", Root)>> /\ UNCHANGED <<steps, outcome>>
               ELSE CallSucceeds
       ELSE CallSucceeds /\ UNCHANGED client
    /\ UNCHANGED <<request, waiting, conn, box>>

-----------------------------------------------------------------------------
(* Sending a command *)

\* What is known already is not asked for.
IsNeedless(t) ==
    \/ t.do = "ID" /\ ~(client.caps /\ "ID" \in Capabilities)
    \/ t.do = "NAMESPACE" /\ t.at = "login" /\ ~(client.caps /\ "NAMESPACE" \in Capabilities)
    \/ t.do = "NAMESPACE" /\ t.at # "login" /\ client.namespaces
    \/ t.do = "DELIMITER" /\ (client.namespaces \/ client.delimiter # "unset")

Skip ==
    /\ IsServed /\ ~IsWaiting /\ todo # << >> /\ IsNeedless(Head(todo))
    /\ Proceed
    /\ UNCHANGED <<request, waiting, client, conn, box>>

\* The name is built when the command is sent.
Target(t) ==
    IF t.do \in {"CREATE", "SETACL", "SUBSCRIBE", "SETQUOTA", "GETQUOTA", "FOLDERS", "MAILBOXES"}
       /\ ~client.namespaces /\ client.delimiter = "wrong"
    THEN Wrong ELSE t.at

\* What begins a series of commands is none itself.
IsCommand(t) == t.do \notin {"PLAN", "EACH"}

\* Commands whose failure the call overlooks
IsOverlooked(do) == do \in {"CAPABILITY", "ID", "NAMESPACE", "DELIMITER"}

\* How a call goes on when the command at its head has failed
CommandFails(do, c) ==
    IF IsOverlooked(do) THEN client' = c /\ Proceed
    ELSE /\ client' = IF do \in {"AUTHENTICATE", "GETQUOTA", "LOGOUT"} THEN DisconnectedOnError(c) ELSE c
         /\ CallFails

Send ==
    /\ IsServed /\ ~IsWaiting /\ todo # << >> /\ IsCommand(Head(todo)) /\ ~IsNeedless(Head(todo))
    /\ client.sock /\ conn.open
    /\ LET t == Head(todo)
           c == [do |-> t.do, at |-> Target(t), tag |-> GetTag, number |-> client.number + 1]
       IN /\ waiting' = c
          /\ conn' = [conn EXCEPT !.commands = Append(@, c)]
          /\ client' = [client EXCEPT !.number = @ + 1, !.tag = GetTag]
    /\ UNCHANGED <<request, steps, todo, outcome, box>>

\* write() fails on a socket that is not connected any more.
SendFails ==
    /\ IsServed /\ ~IsWaiting /\ todo # << >> /\ IsCommand(Head(todo)) /\ ~IsNeedless(Head(todo))
    /\ ~(client.sock /\ conn.open)
    /\ CommandFails(Head(todo).do, [client EXCEPT !.sock = FALSE])
    /\ UNCHANGED <<request, waiting, conn, box>>

-----------------------------------------------------------------------------
(* Deleting a mailbox: the folders are listed, then deleted one by one *)

\* How many folders a folder is below of; a name of another answer is below none.
Depth(f) == Cardinality({g \in Folder : f # Wrong /\ f \in Below[g]})

\* Each mailbox gets the right first.
Deletion(t, name) == Append(Named("SETACL", t), Todo("DELETE", name))

IsNext(do) == IsServed /\ ~IsWaiting /\ todo # << >> /\ Head(todo).do = do

\* The delimiter and the root of all names are fixed before the first deletion.
PlanDeletions ==
    /\ IsNext("PLAN")
    /\ todo' = <<Todo("EACH", [left |-> Head(todo).at, root |-> Target(Todo("MAILBOXES", Root))])>>
    /\ UNCHANGED <<request, steps, waiting, client, outcome, conn, box>>

\* The deepest folders come first, in any order, and the root is the last.
DeleteNext ==
    /\ IsNext("EACH")
    /\ LET left == Head(todo).at.left
           root == Head(todo).at.root
           name(f) == IF root = Wrong THEN Wrong ELSE f
       IN IF left = {} THEN todo' = Deletion(Root, root)
          ELSE \E f \in {g \in left : \A h \in left : Depth(h) <= Depth(g)} :
                   todo' = Append(Deletion(name(f), name(f)),
                                  Todo("EACH", [left |-> left \ {f}, root |-> root]))
    /\ UNCHANGED <<request, steps, waiting, client, outcome, conn, box>>

-----------------------------------------------------------------------------
(* Taking the answer: Imap::checkResponse2 *)

\* Mutant: any tagged line ends the answer.
IsAnyStatus(line, tag) == line.tag # 0

\* The first line that begins with the tag
IsStatus(line, tag) == line.tag = tag

StatusAt == {i \in DOMAIN conn.lines : IsStatus(conn.lines[i], waiting.tag)}

FirstStatus == CHOOSE i \in StatusAt : \A j \in StatusAt : i <= j

AnswerLines == SubSeq(conn.lines, 1, FirstStatus - 1)

IsOwn(line) == line.of = waiting.number

\* Some commands take the first line for theirs, some take all of them.
Understood ==
    CASE waiting.do = "GETQUOTA"  -> AnswerLines # << >> /\ AnswerLines[1].do = "GETQUOTA" /\ AnswerLines[1].tag = 0
      [] waiting.do = "NAMESPACE" -> AnswerLines # << >> /\ AnswerLines[1].do = "NAMESPACE" /\ AnswerLines[1].tag = 0
      [] waiting.do \in {"FOLDERS", "MAILBOXES", "DELIMITER", "ID"} -> \A i \in DOMAIN AnswerLines : IsOwn(AnswerLines[i])
      [] OTHER -> TRUE

Says == UNION {AnswerLines[i].says : i \in {j \in DOMAIN AnswerLines : AnswerLines[j].tag = 0}}

\* With the tag, the lines before it are read, and the lines after it stay.
Taken ==
    [client EXCEPT !.took = [of |-> conn.lines[FirstStatus].of, command |-> waiting.number]]

Rest == [conn EXCEPT !.lines = SubSeq(@, FirstStatus + 1, Len(@))]

\* What the parser makes of the answer
Parses == IF Understood THEN {"understood"} ELSE StaleParse

\* An answer that leads the parser into its loop ends the request for good.
Loops == outcome' = "looping" /\ client' = Taken /\ UNCHANGED <<steps, todo>>

LearnDelimiter(p) ==
    /\ client' = [Taken EXCEPT !.delimiter = CASE p = "understood" -> "right" [] p = "taken" -> "wrong" [] OTHER -> @]
    /\ Proceed

LearnMailboxes(p) == client' = [Taken EXCEPT !.mboxes = IF p = "refused" THEN {} ELSE Says] /\ Proceed

LearnFolders(p) ==
    /\ client' = Taken
    /\ IF p = "refused" THEN CallFails
       ELSE /\ todo' = Append(Lookup, Todo("PLAN", IF p = "taken" THEN Says \cup {Wrong} ELSE Says))
            /\ UNCHANGED <<steps, outcome>>

LearnQuota(p) ==
    IF p = "understood"
    THEN client' = [Taken EXCEPT !.quota = CHOOSE q \in AnswerLines[1].says : TRUE] /\ Proceed
    ELSE client' = [Taken EXCEPT !.quota = 0] /\ CallFails

LearnId == client' = Taken /\ Proceed

LearnCapabilities == client' = [Taken EXCEPT !.caps = TRUE] /\ Proceed

LearnNamespaces == client' = [Taken EXCEPT !.namespaces = @ \/ Understood] /\ Proceed

\* authPlain and the others want the '+' of the server in front; the LOGIN that
\* replaces them as long as no capabilities are known does not.
Authenticate ==
    IF client.caps /\ AnswerLines # << >>
    THEN client' = DisconnectedOnError(Taken) /\ CallFails
    ELSE client' = [Taken EXCEPT !.loggedIn = TRUE] /\ Proceed

LearnParsed(p) ==
    CASE waiting.do = "ID"        -> LearnId
      [] waiting.do = "DELIMITER" -> LearnDelimiter(p)
      [] waiting.do = "MAILBOXES" -> LearnMailboxes(p)
      [] waiting.do = "FOLDERS"   -> LearnFolders(p)
      [] waiting.do = "GETQUOTA"  -> LearnQuota(p)

\* The command has succeeded.
Learn ==
    CASE waiting.do = "CAPABILITY"   -> LearnCapabilities
      [] waiting.do = "AUTHENTICATE" -> Authenticate
      [] waiting.do = "NAMESPACE"    -> LearnNamespaces
      [] waiting.do = "LOGOUT"       -> client' = Disconnected(Taken) /\ Proceed
      [] waiting.do \in {"ID", "DELIMITER", "MAILBOXES", "FOLDERS", "GETQUOTA"} ->
             \E p \in Parses : IF p = "endless" THEN Loops ELSE LearnParsed(p)
      [] OTHER -> client' = Taken /\ Proceed

\* Mutant: only BAD is a failure.
IsNotBad(line) == line.says # "BAD"

IsOk(line) == line.says = "OK"

Receive ==
    /\ IsWaiting /\ StatusAt # {}
    /\ IF IsOk(conn.lines[FirstStatus]) THEN Learn
       ELSE CommandFails(waiting.do,
                         IF waiting.do = "GETQUOTA" THEN [Taken EXCEPT !.quota = 0] ELSE Taken)
    /\ conn' = IF client'.sock THEN Rest ELSE NoConnection
    /\ waiting' = Idle
    /\ UNCHANGED <<request, box>>

\* Mutant: a command waits until the answer is there.
MayNotTimeOut == FALSE

MayTimeOut == StatusAt = {}

\* Nothing more has arrived for 30 seconds, or the connection is gone.  Lines
\* that came in the meantime have been read and are lost.
TimeOut ==
    /\ IsWaiting /\ MayTimeOut
    /\ CommandFails(waiting.do, IF waiting.do = "GETQUOTA" THEN [client EXCEPT !.quota = 0] ELSE client)
    /\ conn' = IF client'.sock THEN [conn EXCEPT !.lines = << >>] ELSE NoConnection
    /\ waiting' = Idle
    /\ UNCHANGED <<request, box>>

\* The object goes out of scope and closes its socket.
Destroy ==
    /\ ~IsServed /\ client.sock
    /\ outcome # "looping"
    /\ client' = Disconnected(client)
    /\ conn' = NoConnection
    /\ UNCHANGED <<request, steps, todo, waiting, outcome, box>>

Client ==
    \/ Connect
    \/ CreateMailbox \/ CreateFolder \/ SubscribeFolder \/ SetQuota \/ GetQuota
    \/ GetMailboxes \/ DeleteMailbox
    \/ SetSpecialUse \/ StartLogout
    \/ PlanDeletions \/ DeleteNext
    \/ Skip \/ Send \/ SendFails \/ Receive \/ TimeOut
    \/ Destroy

Next == Client \/ Answer \/ Hangup

Spec == Init /\ [][Next]_vars

\* The thread that serves the request goes on.  Nothing is asked of the server or
\* of the network: answers may stay away for ever.
FairSpec == Spec /\ WF_vars(Client)

-----------------------------------------------------------------------------
(* Properties *)

\* The status that ends the wait for a command's answer is the status of that
\* command: neither the late answer of one that was given up, nor one with the
\* same tag from before logout() began the tags anew, is taken for it.
OwnStatus == client.took.of = client.took.command

\* Names of mailboxes are built with a wrong delimiter only where no answer to
\* NAMESPACE can correct them while a mailbox is deleted.
NamesStay == "NAMESPACE" \notin Capabilities \/ "taken" \notin StaleParse

\* A request that is answered with success has done its work on the server: the
\* mailbox is there, or it is gone with its folders if the names stay the same,
\* or it has the quota the request works with.  That need not be the quota of
\* the account's row, and of the check of an account without a quota, which
\* takes a failed GETQUOTA for the answer it wants, nothing is said.  Each
\* relies on the statuses of many commands, with answers that come late or not
\* at all (account.cpp:549-700, 889-978, 1289-1303, 1464-1552).
ReportedDone ==
    outcome = "done" =>
        /\ request = "create" => box.exists
        /\ request = "remove" /\ NamesStay => ~box.exists /\ box.folders = {}
        /\ request \in {"quotaOnly", "update", "check"} => box.quota = WantedBy(request)

\* A request ends, whatever the server does: every wait for it has a limit.
SessionEnds == <>(outcome \in {"done", "failed"})

=============================================================================
