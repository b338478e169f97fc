--------------------------- MODULE ImapSession_proofs ---------------------------
(***************************************************************************)
(* Theorems about ImapSession.                                             *)
(*                                                                         *)
(* OwnStatus speaks of the moment a status is taken.  It holds because of  *)
(* what is under way at every other moment: statuses of commands that were *)
(* given up stay between the server and the client for as long as they     *)
(* like, and the tags begin anew with every logout.  The inductive         *)
(* invariant says which tags are under way: none above the last one given  *)
(* out; after a login not the first, which logout() will use again; and    *)
(* the tag that is waited for only once, as the last of all, so that       *)
(* nothing is left when it has been read.                                  *)
(*                                                                         *)
(* ReportedDone speaks of the end of a request.  The second invariant,     *)
(* DoneInv, says what leads there: as long as nothing has failed, the call *)
(* that does what the request is for is still to come or has worked; its   *)
(* last command is the one that does it; and a status OK for that command  *)
(* is under way only after the server has done it.                         *)
(***************************************************************************)
EXTENDS ImapSession, SequenceTheorems, TLAPS

-----------------------------------------------------------------------------
(* The inductive invariant *)

IsSeq(s) == \E S : s \in Seq(S)

ClientFields ==
    {"sock", "loggedIn", "tag", "caps", "namespaces", "delimiter", "mboxes", "quota", "number", "took"}

IsClient(c) ==
    /\ DOMAIN c = ClientFields /\ c = [f \in ClientFields |-> c[f]]
    /\ c.sock \in BOOLEAN /\ c.loggedIn \in BOOLEAN
    /\ c.tag \in Nat /\ c.number \in Nat

ConnFields == {"open", "commands", "lines"}

IsConn(c) ==
    /\ DOMAIN c = ConnFields /\ c = [f \in ConnFields |-> c[f]]
    /\ c.open \in BOOLEAN
    /\ IsSeq(c.commands) /\ IsSeq(c.lines)
    /\ \A i \in 1 .. Len(c.commands) : c.commands[i].tag \in Nat \ {0}
    /\ \A i \in 1 .. Len(c.lines) : c.lines[i].tag \in Nat

\* Nothing is under way between the client and the server.
Silent(c) == c.commands = << >> /\ c.lines = << >>

\* No tag above n, no tag n, is under way.
AtMost(c, n) ==
    /\ \A i \in 1 .. Len(c.commands) : c.commands[i].tag <= n
    /\ \A i \in 1 .. Len(c.lines) : c.lines[i].tag <= n

Free(c, n) ==
    /\ \A i \in 1 .. Len(c.commands) : c.commands[i].tag # n
    /\ \A i \in 1 .. Len(c.lines) : c.lines[i].tag # n

\* A tag that is under way belongs to the command, as the last thing there is.
OnlyOwn(c, w) ==
    /\ \A i \in 1 .. Len(c.commands) :
          c.commands[i].tag = w.tag => i = Len(c.commands) /\ c.commands[i].number = w.number
    /\ \A i \in 1 .. Len(c.lines) :
          c.lines[i].tag = w.tag =>
              c.commands = << >> /\ i = Len(c.lines) /\ c.lines[i].of = w.number

\* LOGOUT is the only command of its call.
TodoFits(t) == IsSeq(t) /\ \A i \in 1 .. Len(t) : t[i].do = "LOGOUT" => Len(t) = 1

LoggingOut(t) == t # << >> /\ t[1].do = "LOGOUT"

\* What the client waits for
WaitFits(w, t, c, n) ==
    w # Idle =>
        /\ w.tag = c.tag /\ c.tag # 0 /\ w.number = c.number
        /\ t # << >> /\ t[1].do = w.do
        /\ OnlyOwn(n, w)

\* Which tags are under way
TagsFit(w, t, c, n) ==
    IF LoggingOut(t)
    THEN ~c.loggedIn /\ (w = Idle => c.tag = 0 /\ Free(n, 1))
    ELSE AtMost(n, c.tag) /\ (c.loggedIn => c.tag >= 1 /\ Free(n, 1))

SessionInv ==
    /\ IsClient(client) /\ IsConn(conn) /\ TodoFits(todo)
    /\ OwnStatus
    /\ ~client.sock \/ ~conn.open => Silent(conn)
    /\ WaitFits(waiting, todo, client, conn)
    /\ TagsFit(waiting, todo, client, conn)

-----------------------------------------------------------------------------
(* Sequences *)

LEMMA SeqAppend ==
    ASSUME NEW s, IsSeq(s), NEW e
    PROVE  /\ IsSeq(Append(s, e))
           /\ Len(Append(s, e)) = Len(s) + 1
           /\ \A i \in 1 .. Len(s) : Append(s, e)[i] = s[i]
           /\ Append(s, e)[Len(s) + 1] = e
<1>1. PICK S : s \in Seq(S)
    BY DEF IsSeq
<1>2. s \in Seq(S \cup {e})
    BY <1>1
<1>3. Append(s, e) \in Seq(S \cup {e})
    BY <1>2
<1> QED
    BY <1>2, <1>3 DEF IsSeq

LEMMA SeqTail ==
    ASSUME NEW s, IsSeq(s), s # << >>
    PROVE  /\ IsSeq(Tail(s)) /\ Len(s) \in Nat \ {0} /\ Head(s) = s[1]
           /\ Len(Tail(s)) = Len(s) - 1
           /\ \A i \in 1 .. Len(s) - 1 : Tail(s)[i] = s[i + 1]
<1>1. PICK S : s \in Seq(S)
    BY DEF IsSeq
<1> QED
    BY <1>1 DEF IsSeq

LEMMA SeqConcat ==
    ASSUME NEW s, NEW t, IsSeq(s), IsSeq(t)
    PROVE  /\ IsSeq(s \o t)
           /\ Len(s \o t) = Len(s) + Len(t)
           /\ \A i \in 1 .. Len(s) : (s \o t)[i] = s[i]
           /\ \A i \in 1 .. Len(t) : (s \o t)[Len(s) + i] = t[i]
<1>1. PICK S : s \in Seq(S)
    BY DEF IsSeq
<1>2. PICK T : t \in Seq(T)
    BY DEF IsSeq
<1>3. s \in Seq(S \cup T) /\ t \in Seq(S \cup T)
    BY <1>1, <1>2
<1> HIDE DEF IsSeq
<1> QED
    BY <1>3, ConcatProperties DEF IsSeq
LEMMA SeqEmpty ==
    IsSeq(<< >>) /\ Len(<< >>) = 0
BY DEF IsSeq

LEMMA SeqPair ==
    ASSUME NEW a, NEW b
    PROVE  /\ IsSeq(<<a>>) /\ Len(<<a>>) = 1 /\ <<a>>[1] = a
           /\ IsSeq(<<a, b>>) /\ Len(<<a, b>>) = 2 /\ <<a, b>>[1] = a /\ <<a, b>>[2] = b
<1>1. <<a>> \in Seq({a}) /\ <<a, b>> \in Seq({a, b})
    OBVIOUS
<1> QED
    BY <1>1 DEF IsSeq

\* The commands of a call that does not log out
NoLogout(t) == IsSeq(t) /\ \A i \in 1 .. Len(t) : t[i].do # "LOGOUT"

LEMMA NoLogoutFits ==
    ASSUME NEW t, NoLogout(t)
    PROVE  TodoFits(t) /\ ~LoggingOut(t)
<1>1. TodoFits(t)
    BY DEF NoLogout, TodoFits
<1>2. ASSUME t # << >> PROVE 1 \in 1 .. Len(t)
    BY <1>2, SeqTail DEF NoLogout
<1> QED
    BY <1>1, <1>2 DEF NoLogout, LoggingOut

LEMMA NoLogoutAppend ==
    ASSUME NEW t, NoLogout(t), NEW do, do # "LOGOUT", NEW at
    PROVE  NoLogout(Append(t, Todo(do, at)))
<1> DEFINE e == Todo(do, at)
           q == Append(t, e)
<1>1. e.do # "LOGOUT"
    BY DEF Todo
<1> HIDE DEF e
<1>2. /\ IsSeq(q) /\ Len(q) = Len(t) + 1
      /\ \A i \in 1 .. Len(t) : q[i] = t[i]
      /\ q[Len(t) + 1] = e
    BY SeqAppend DEF NoLogout
<1>3. Len(t) \in Nat
    BY DEF NoLogout, IsSeq
<1> HIDE DEF q
<1>4. \A i \in 1 .. Len(q) : q[i].do # "LOGOUT"
    BY <1>1, <1>2, <1>3 DEF NoLogout
<1>5. NoLogout(q)
    BY <1>2, <1>4 DEF NoLogout
<1> QED
    BY <1>5 DEF q, e

LEMMA NoLogoutEmpty == NoLogout(<< >>)
BY SeqEmpty DEF NoLogout

LEMMA NoLogoutLookup == NoLogout(Lookup)
<1>1. Lookup = Append(Append(Append(<< >>, Todo("NAMESPACE", Root)), Todo("NAMESPACE", Root)), Todo("DELIMITER", Root))
    BY DEF Lookup
<1>2. NoLogout(Append(<< >>, Todo("NAMESPACE", Root)))
    BY NoLogoutAppend, NoLogoutEmpty
<1>3. NoLogout(Append(Append(<< >>, Todo("NAMESPACE", Root)), Todo("NAMESPACE", Root)))
    BY NoLogoutAppend, <1>2
<1> QED
    BY <1>1, <1>3, NoLogoutAppend

LEMMA NoLogoutNamed ==
    ASSUME NEW do, do # "LOGOUT", NEW at
    PROVE  NoLogout(Named(do, at))
BY NoLogoutLookup, NoLogoutAppend DEF Named

LEMMA NoLogoutLogin == NoLogout(LoginCommands)
<1> DEFINE q == LoginCommands
<1>1. \E S : q \in Seq(S)
    <2>1. q \in Seq({Todo("CAPABILITY", Root), Todo("AUTHENTICATE", Root), Todo("ID", Root), Todo("NAMESPACE", "login")})
        BY DEF LoginCommands
    <2> QED
        BY <2>1
<1>2. Len(q) = 5
    BY DEF LoginCommands
<1>3. /\ q[1].do = "CAPABILITY" /\ q[2].do = "AUTHENTICATE" /\ q[3].do = "CAPABILITY"
      /\ q[4].do = "ID" /\ q[5].do = "NAMESPACE"
    BY DEF LoginCommands, Todo
<1> HIDE DEF q
<1>4. \A i \in 1 .. Len(q) : q[i].do # "LOGOUT"
    BY <1>2, <1>3
<1>5. NoLogout(q)
    BY <1>1, <1>4 DEF NoLogout, IsSeq
<1> QED
    BY <1>5 DEF q

\* The next command of a call, or none
LEMMA ProceedStep ==
    ASSUME TodoFits(todo), Proceed
    PROVE  NoLogout(todo')
<1>1. CASE Len(todo) > 1 /\ todo' = Tail(todo)
    <2>1. todo # << >> /\ IsSeq(todo)
        BY <1>1, SeqEmpty DEF TodoFits
    <2>2. /\ IsSeq(Tail(todo)) /\ Len(todo) \in Nat \ {0}
          /\ Len(Tail(todo)) = Len(todo) - 1
          /\ \A i \in 1 .. Len(todo) - 1 : Tail(todo)[i] = todo[i + 1]
        BY <2>1, SeqTail
    <2>3. \A i \in 1 .. Len(todo) : todo[i].do # "LOGOUT"
        BY <1>1, <2>2 DEF TodoFits
    <2>4. \A i \in 1 .. Len(todo) - 1 : i + 1 \in 1 .. Len(todo)
        BY <2>2
    <2> QED
        BY <1>1, <2>2, <2>3, <2>4 DEF NoLogout
<1>2. CASE todo' = << >>
    BY <1>2, NoLogoutEmpty
<1> QED
    BY <1>1, <1>2 DEF Proceed, CallSucceeds, CallEnds

LEMMA CallEndsStep ==
    ASSUME CallSucceeds \/ CallFails
    PROVE  NoLogout(todo')
BY NoLogoutEmpty DEF CallSucceeds, CallFails, CallEnds

-----------------------------------------------------------------------------
(* The client and the connection *)

LEMMA SilentFits ==
    ASSUME NEW c, Silent(c)
    PROVE  /\ \A n : AtMost(c, n) /\ Free(c, n)
           /\ \A w : OnlyOwn(c, w)
<1>1. 1 .. Len(c.commands) = {} /\ 1 .. Len(c.lines) = {}
    BY SeqEmpty DEF Silent
<1> QED
    BY <1>1 DEF AtMost, Free, OnlyOwn

LEMMA NoConnectionFits ==
    /\ IsConn(NoConnection) /\ Silent(NoConnection) /\ ~NoConnection.open
    /\ IsConn([NoConnection EXCEPT !.open = TRUE]) /\ Silent([NoConnection EXCEPT !.open = TRUE])
<1> DEFINE c == NoConnection
           d == [NoConnection EXCEPT !.open = TRUE]
<1>1. /\ DOMAIN c = ConnFields /\ c = [f \in ConnFields |-> c[f]]
      /\ c.open = FALSE /\ c.commands = << >> /\ c.lines = << >>
    BY DEF NoConnection, ConnFields
<1>2. /\ DOMAIN d = ConnFields /\ d = [f \in ConnFields |-> d[f]]
      /\ d.open = TRUE /\ d.commands = << >> /\ d.lines = << >>
    BY DEF NoConnection, ConnFields
<1> HIDE DEF c, d
<1>3. 1 .. Len(<< >>) = {}
    BY SeqEmpty
<1>4. IsConn(c) /\ Silent(c) /\ ~c.open
    BY <1>1, <1>3, SeqEmpty DEF IsConn, Silent
<1>5. IsConn(d) /\ Silent(d)
    BY <1>2, <1>3, SeqEmpty DEF IsConn, Silent
<1> QED
    BY <1>4, <1>5 DEF c, d

\* What a client becomes that is to keep its tag and count
Follows(c, d) ==
    /\ IsClient(d)
    /\ d.tag = c.tag /\ d.number = c.number /\ d.took = c.took
    /\ d.loggedIn => c.loggedIn
    /\ d.sock => c.sock

LEMMA FollowsItself ==
    ASSUME NEW c, IsClient(c)
    PROVE  Follows(c, c)
BY DEF Follows

LEMMA DisconnectedFollows ==
    ASSUME NEW c, IsClient(c)
    PROVE  /\ Follows(c, Disconnected(c)) /\ ~Disconnected(c).sock
           /\ Follows(c, DisconnectedOnError(c)) /\ ~DisconnectedOnError(c).sock
           /\ ~DisconnectedOnError(c).loggedIn
           /\ Follows(c, [c EXCEPT !.sock = FALSE]) /\ ~[c EXCEPT !.sock = FALSE].sock
           /\ Follows(c, [c EXCEPT !.quota = 0])
<1> DEFINE d == [c EXCEPT !.sock = FALSE]
           e == [d EXCEPT !.loggedIn = FALSE]
           q == [c EXCEPT !.quota = 0]
<1>1. /\ DOMAIN d = ClientFields /\ d = [f \in ClientFields |-> d[f]]
      /\ d.sock = FALSE /\ d.loggedIn = c.loggedIn /\ d.tag = c.tag /\ d.number = c.number /\ d.took = c.took
    BY DEF IsClient, ClientFields
<1>2. /\ DOMAIN q = ClientFields /\ q = [f \in ClientFields |-> q[f]]
      /\ q.sock = c.sock /\ q.loggedIn = c.loggedIn /\ q.tag = c.tag /\ q.number = c.number /\ q.took = c.took
    BY DEF IsClient, ClientFields
<1> HIDE DEF d, q
<1>3. /\ DOMAIN e = ClientFields /\ e = [f \in ClientFields |-> e[f]]
      /\ e.sock = FALSE /\ e.loggedIn = FALSE /\ e.tag = c.tag /\ e.number = c.number /\ e.took = c.took
    BY <1>1 DEF ClientFields
<1> HIDE DEF e
<1>4. Follows(c, d) /\ Follows(c, e) /\ Follows(c, q)
    BY <1>1, <1>2, <1>3 DEF Follows, IsClient
<1>5. Disconnected(c) = d /\ DisconnectedOnError(c) = e
    BY DEF Disconnected, DisconnectedOnError, d, e
<1> QED
    BY <1>1, <1>3, <1>4, <1>5 DEF d, q

LEMMA FollowsTransitive ==
    ASSUME NEW c, NEW d, NEW e, Follows(c, d), Follows(d, e)
    PROVE  Follows(c, e)
BY DEF Follows

\* A failed command changes nothing of the tags, and a failed LOGOUT ends the
\* connection.
LEMMA CommandFailsStep ==
    ASSUME TodoFits(todo), NEW do, NEW c, IsClient(c), CommandFails(do, c)
    PROVE  /\ Follows(c, client') /\ NoLogout(todo')
           /\ do = "LOGOUT" => ~client'.sock /\ ~client'.loggedIn
<1>1. CASE IsOverlooked(do)
    BY <1>1, ProceedStep, FollowsItself DEF CommandFails, IsOverlooked
<1>2. CASE ~IsOverlooked(do)
    <2>1. NoLogout(todo')
        BY <1>2, CallEndsStep DEF CommandFails
    <2>2. CASE do \in {"AUTHENTICATE", "GETQUOTA", "LOGOUT"}
        <3>1. client' = DisconnectedOnError(c)
            BY <1>2, <2>2 DEF CommandFails
        <3> QED
            BY <2>1, <3>1, DisconnectedFollows
    <2>3. CASE do \notin {"AUTHENTICATE", "GETQUOTA", "LOGOUT"}
        <3>1. client' = c
            BY <1>2, <2>3 DEF CommandFails
        <3> QED
            BY <2>1, <2>3, <3>1, FollowsItself
    <2> QED
        BY <2>2, <2>3
<1> QED
    BY <1>1, <1>2

\* A step that sends and receives nothing, with a call that is no logout
LEMMA QuietStep ==
    ASSUME SessionInv, waiting = Idle, waiting' = waiting, conn' = conn, ~LoggingOut(todo),
           client' = client, NoLogout(todo')
    PROVE  SessionInv'
<1>1. TodoFits(todo') /\ ~LoggingOut(todo')
    BY NoLogoutFits
<1>2. AtMost(conn, client.tag) /\ (client.loggedIn => client.tag >= 1 /\ Free(conn, 1))
    BY DEF SessionInv, TagsFit
<1>3. WaitFits(waiting', todo', client', conn') /\ TagsFit(waiting', todo', client', conn')
    BY <1>1, <1>2 DEF WaitFits, TagsFit
<1> QED
    BY <1>1, <1>3 DEF SessionInv, OwnStatus

\* A step after which nothing is under way any more, with a call that is no logout
LEMMA SilentStep ==
    ASSUME SessionInv, waiting' = Idle, IsConn(conn'), Silent(conn'), IsClient(client'),
           client'.loggedIn => client'.tag >= 1,
           client'.took.of = client'.took.command,
           NoLogout(todo')
    PROVE  SessionInv'
<1>1. TodoFits(todo') /\ ~LoggingOut(todo')
    BY NoLogoutFits
<1>2. AtMost(conn', client'.tag) /\ Free(conn', 1)
    BY SilentFits
<1>3. WaitFits(waiting', todo', client', conn') /\ TagsFit(waiting', todo', client', conn')
    BY <1>1, <1>2 DEF WaitFits, TagsFit
<1> QED
    BY <1>1, <1>3 DEF SessionInv, OwnStatus

\* The connection is lost; what the client waits for is still waited for.
LEMMA LostStep ==
    ASSUME SessionInv, waiting' = waiting, todo' = todo, IsConn(conn'), Silent(conn'),
           Follows(client, client')
    PROVE  SessionInv'
<1>1. AtMost(conn', client.tag) /\ Free(conn', 1) /\ OnlyOwn(conn', waiting)
    BY SilentFits
<1>2. WaitFits(waiting', todo', client', conn') /\ TagsFit(waiting', todo', client', conn')
    BY <1>1 DEF SessionInv, WaitFits, TagsFit, Follows
<1> QED
    BY <1>2 DEF SessionInv, OwnStatus, Follows

-----------------------------------------------------------------------------
(* Beginning a call *)

LEMMA ConnectStep ==
    ASSUME SessionInv, Connect
    PROVE  SessionInv'
<1>1. waiting' = Idle /\ client.loggedIn = FALSE /\ IsClient(client) /\ client.took.of = client.took.command
    BY DEF SessionInv, Connect, IsBetween, IsWaiting, OwnStatus, IsClient
<1>2. CASE /\ client' = [client EXCEPT !.sock = TRUE]
           /\ conn' = [NoConnection EXCEPT !.open = TRUE]
           /\ todo' = LoginCommands
    <2>1. /\ IsClient(client') /\ client'.loggedIn = FALSE /\ client'.took = client.took
        BY <1>1, <1>2 DEF IsClient, ClientFields
    <2> QED
        BY <1>1, <1>2, <2>1, SilentStep, NoConnectionFits, NoLogoutLogin
<1>3. CASE CallFails /\ client' = DisconnectedOnError(client) /\ conn' = NoConnection
    <2>1. Follows(client, client') /\ ~client'.loggedIn
        BY <1>1, <1>3, DisconnectedFollows
    <2>2. NoLogout(todo')
        BY <1>3, CallEndsStep
    <2> QED
        BY <1>1, <1>3, <2>1, <2>2, SilentStep, NoConnectionFits DEF Follows
<1> QED
    BY <1>2, <1>3 DEF Connect

LEMMA StartNamedStep ==
    ASSUME SessionInv, NEW op, NEW command, command # "LOGOUT", StartNamed(op, command)
    PROVE  SessionInv'
<1>1. waiting = Idle /\ waiting' = waiting /\ conn' = conn /\ client' = client /\ ~LoggingOut(todo)
    BY DEF StartNamed, Start, IsBetween, IsWaiting, LoggingOut
<1>2. NoLogout(todo')
    BY NoLogoutNamed, CallEndsStep DEF StartNamed
<1> QED
    BY <1>1, <1>2, QuietStep

LEMMA SetSpecialUseStep ==
    ASSUME SessionInv, SetSpecialUse
    PROVE  SessionInv'
<1>1. waiting = Idle /\ waiting' = waiting /\ conn' = conn /\ client' = client /\ ~LoggingOut(todo)
    BY DEF SetSpecialUse, Start, IsBetween, IsWaiting, LoggingOut
<1>2. NoLogout(todo')
    BY CallEndsStep DEF SetSpecialUse
<1> QED
    BY <1>1, <1>2, QuietStep

\* The tags begin anew, and the first of them is not under way: it was given out
\* before the login that has succeeded.
LEMMA StartLogoutStep ==
    ASSUME SessionInv, StartLogout
    PROVE  SessionInv'
<1>1. waiting = Idle /\ waiting' = waiting /\ conn' = conn /\ ~LoggingOut(todo)
    BY DEF StartLogout, Start, IsBetween, IsWaiting, LoggingOut
<1>2. CASE ~client.loggedIn
    <2>1. client' = client /\ NoLogout(todo')
        BY <1>2, CallEndsStep DEF StartLogout
    <2> QED
        BY <1>1, <2>1, QuietStep
<1>3. CASE client.loggedIn
    <2>1. client' = [client EXCEPT !.loggedIn = FALSE, !.tag = 0]
        BY <1>3 DEF StartLogout
    <2>2. /\ IsClient(client') /\ client'.loggedIn = FALSE /\ client'.tag = 0
          /\ client'.took = client.took /\ client'.sock = client.sock
        BY <2>1 DEF SessionInv, IsClient, ClientFields
    <2>3. client'.took.of = client'.took.command
        BY <2>2 DEF SessionInv, OwnStatus
    <2>4. CASE client.sock
        <3>1. todo' = <<Todo("LOGOUT", Root)>>
            BY <1>3, <2>4 DEF StartLogout
        <3>2. IsSeq(todo') /\ Len(todo') = 1 /\ todo'[1].do = "LOGOUT"
            BY <3>1, SeqPair DEF Todo
        <3>3. TodoFits(todo') /\ LoggingOut(todo')
            BY <3>2, SeqEmpty DEF TodoFits, LoggingOut
        <3>4. Free(conn, 1)
            BY <1>1, <1>3 DEF SessionInv, TagsFit
        <3>5. WaitFits(waiting', todo', client', conn') /\ TagsFit(waiting', todo', client', conn')
            BY <1>1, <2>2, <3>3, <3>4 DEF WaitFits, TagsFit
        <3> QED
            BY <1>1, <2>2, <2>3, <3>3, <3>5 DEF SessionInv, OwnStatus
    <2>5. CASE ~client.sock
        <3>1. NoLogout(todo')
            BY <1>3, <2>5, CallEndsStep DEF StartLogout
        <3>2. IsConn(conn') /\ Silent(conn')
            BY <1>1, <2>5 DEF SessionInv
        <3> QED
            BY <1>1, <2>2, <2>3, <3>1, <3>2, SilentStep
    <2> QED
        BY <2>4, <2>5
<1> QED
    BY <1>2, <1>3

-----------------------------------------------------------------------------
(* Commands *)

LEMMA HeadIsFirst ==
    ASSUME TodoFits(todo), todo # << >>
    PROVE  Head(todo) = todo[1]
BY SeqTail DEF TodoFits

LEMMA SkipStep ==
    ASSUME SessionInv, Skip
    PROVE  SessionInv'
<1>1. waiting = Idle /\ waiting' = waiting /\ conn' = conn /\ client' = client
    BY DEF Skip, IsWaiting
<1>2. Head(todo) = todo[1]
    BY HeadIsFirst DEF SessionInv, Skip
<1>3. ~LoggingOut(todo)
    BY <1>2 DEF Skip, IsNeedless, LoggingOut
<1>4. NoLogout(todo')
    BY ProceedStep DEF SessionInv, Skip
<1> QED
    BY <1>1, <1>3, <1>4, QuietStep

LEMMA PlanDeletionsStep ==
    ASSUME SessionInv, PlanDeletions
    PROVE  SessionInv'
<1>1. waiting = Idle /\ waiting' = waiting /\ conn' = conn /\ client' = client
    BY DEF PlanDeletions, IsNext, IsWaiting
<1>2. Head(todo) = todo[1]
    BY HeadIsFirst DEF SessionInv, PlanDeletions, IsNext
<1>3. ~LoggingOut(todo)
    BY <1>2 DEF PlanDeletions, IsNext, LoggingOut
<1>4. NoLogout(todo')
    <2>1. PICK at : todo' = Append(<< >>, Todo("EACH", at))
        BY DEF PlanDeletions
    <2> QED
        BY <2>1, NoLogoutEmpty, NoLogoutAppend
<1> QED
    BY <1>1, <1>3, <1>4, QuietStep

LEMMA DeleteNextStep ==
    ASSUME SessionInv, DeleteNext
    PROVE  SessionInv'
<1>1. waiting = Idle /\ waiting' = waiting /\ conn' = conn /\ client' = client
    BY DEF DeleteNext, IsNext, IsWaiting
<1>2. Head(todo) = todo[1]
    BY HeadIsFirst DEF SessionInv, DeleteNext, IsNext
<1>3. ~LoggingOut(todo)
    BY <1>2 DEF DeleteNext, IsNext, LoggingOut
<1>4. ASSUME NEW t, NEW name
      PROVE  NoLogout(Deletion(t, name))
    BY NoLogoutNamed, NoLogoutAppend DEF Deletion
<1>5. \E t, name, at : todo' \in {Deletion(t, name), Append(Deletion(t, name), Todo("EACH", at))}
    BY DEF DeleteNext
<1>6. NoLogout(todo')
    BY <1>4, <1>5, NoLogoutAppend
<1> QED
    BY <1>1, <1>3, <1>6, QuietStep

LEMMA SendFailsStep ==
    ASSUME SessionInv, SendFails
    PROVE  SessionInv'
<1> DEFINE c == [client EXCEPT !.sock = FALSE]
<1>1. waiting' = Idle /\ conn' = conn /\ CommandFails(Head(todo).do, c) /\ IsClient(client)
    BY DEF SendFails, IsWaiting, SessionInv
<1>2. Follows(client, c)
    BY <1>1, DisconnectedFollows
<1> HIDE DEF c
<1>3. Follows(c, client') /\ NoLogout(todo')
    BY <1>1, <1>2, CommandFailsStep DEF SessionInv, Follows
<1>4. Silent(conn) /\ IsConn(conn)
    BY DEF SessionInv, SendFails
<1>5. Follows(client, client')
    BY <1>2, <1>3, FollowsTransitive
<1>6. client'.loggedIn => client'.tag >= 1
    <2>1. ASSUME client'.loggedIn PROVE client.loggedIn /\ client.tag >= 1
        BY <1>5, <2>1 DEF SessionInv, TagsFit, Follows
    <2> QED
        BY <1>5, <2>1 DEF Follows
<1>7. client'.took.of = client'.took.command
    BY <1>5 DEF SessionInv, OwnStatus, Follows
<1> QED
    BY <1>1, <1>3, <1>4, <1>5, <1>6, <1>7, SilentStep DEF Follows

LEMMA LostConnectionStep ==
    ASSUME SessionInv, Hangup \/ Destroy
    PROVE  SessionInv'
<1>1. waiting' = waiting /\ todo' = todo /\ conn' = NoConnection
    BY DEF Hangup, Destroy
<1>2. Follows(client, client')
    BY FollowsItself, DisconnectedFollows DEF SessionInv, Hangup, Destroy
<1> QED
    BY <1>1, <1>2, LostStep, NoConnectionFits

\* The tag of a new command is not under way.
LEMMA SendStep ==
    ASSUME SessionInv, Send
    PROVE  SessionInv'
<1> DEFINE t == Head(todo)
           c == [do |-> t.do, at |-> Target(t), tag |-> GetTag, number |-> client.number + 1]
           old == conn.commands
           new == Append(old, c)
<1>1. /\ waiting = Idle /\ waiting' = c /\ todo' = todo /\ todo # << >>
      /\ conn' = [conn EXCEPT !.commands = new]
      /\ client' = [client EXCEPT !.number = @ + 1, !.tag = GetTag]
      /\ client.sock /\ conn.open
    BY DEF Send, IsWaiting
<1>2. IsClient(client) /\ IsConn(conn) /\ TodoFits(todo)
    BY DEF SessionInv
<1>3. todo[1].do = c.do /\ c.tag = client.tag + 1 /\ c.number = client.number + 1
    BY <1>1, <1>2, HeadIsFirst DEF GetTag
<1>4. /\ IsClient(client') /\ client'.tag = client.tag + 1 /\ client'.number = client.number + 1
      /\ client'.loggedIn = client.loggedIn /\ client'.sock = client.sock /\ client'.took = client.took
    <2>1. client' = [client EXCEPT !.number = client.number + 1, !.tag = client.tag + 1]
        BY <1>1 DEF GetTag
    <2>2. /\ DOMAIN client' = ClientFields /\ client' = [f \in ClientFields |-> client'[f]]
          /\ client'.tag = client.tag + 1 /\ client'.number = client.number + 1
          /\ client'.loggedIn = client.loggedIn /\ client'.sock = client.sock /\ client'.took = client.took
        BY <1>2, <2>1 DEF IsClient, ClientFields
    <2> QED
        BY <1>2, <2>2 DEF IsClient
<1>5. c # Idle
    <2>1. "tag" \in DOMAIN c /\ "tag" \notin DOMAIN Idle
        BY DEF Idle
    <2> QED
        BY <2>1
<1> HIDE DEF c, t
<1>6. /\ IsSeq(new) /\ Len(new) = Len(old) + 1 /\ Len(old) \in Nat
      /\ \A i \in 1 .. Len(old) : new[i] = old[i]
      /\ new[Len(old) + 1] = c
    <2>1. IsSeq(old)
        BY <1>2 DEF IsConn
    <2>2. Len(old) \in Nat
        BY <2>1 DEF IsSeq
    <2> QED
        BY <2>1, <2>2, SeqAppend
<1> HIDE DEF new
<1>7. /\ DOMAIN conn' = ConnFields /\ conn' = [f \in ConnFields |-> conn'[f]]
      /\ conn'.open = conn.open /\ conn'.commands = new /\ conn'.lines = conn.lines
    BY <1>1, <1>2 DEF IsConn, ConnFields
<1> HIDE DEF old
<1>8. \A i \in 1 .. Len(new) : i \in 1 .. Len(old) \/ i = Len(old) + 1
    BY <1>6
<1>9. IsConn(conn')
    <2>1. c.tag \in Nat \ {0}
        BY <1>2, <1>3 DEF IsClient
    <2>2. \A i \in 1 .. Len(old) : old[i].tag \in Nat \ {0}
        BY <1>2 DEF IsConn, old
    <2>3. \A i \in 1 .. Len(new) : new[i].tag \in Nat \ {0}
        BY <1>6, <1>8, <2>1, <2>2
    <2> QED
        BY <1>2, <1>6, <1>7, <2>3 DEF IsConn
<1>10. \A i \in 1 .. Len(old) : old[i].tag # c.tag
    <2>1. CASE LoggingOut(todo)
        BY <1>1, <1>2, <1>3, <2>1 DEF SessionInv, TagsFit, Free, IsClient, old
    <2>2. CASE ~LoggingOut(todo)
        <3>1. \A i \in 1 .. Len(old) : old[i].tag <= client.tag /\ old[i].tag \in Nat
            BY <1>2, <2>2 DEF SessionInv, TagsFit, AtMost, IsConn, old
        <3> QED
            BY <1>2, <1>3, <3>1 DEF IsClient
    <2> QED
        BY <2>1, <2>2
<1>11. \A i \in 1 .. Len(conn.lines) : conn.lines[i].tag # c.tag
    <2>1. CASE LoggingOut(todo)
        BY <1>1, <1>2, <1>3, <2>1 DEF SessionInv, TagsFit, Free, IsClient
    <2>2. CASE ~LoggingOut(todo)
        <3>1. \A i \in 1 .. Len(conn.lines) : conn.lines[i].tag <= client.tag /\ conn.lines[i].tag \in Nat
            BY <1>2, <2>2 DEF SessionInv, TagsFit, AtMost, IsConn
        <3> QED
            BY <1>2, <1>3, <3>1 DEF IsClient
    <2> QED
        BY <2>1, <2>2
<1>12. OnlyOwn(conn', c)
    <2>1. ASSUME NEW i \in 1 .. Len(new), new[i].tag = c.tag
          PROVE  i = Len(new) /\ new[i].number = c.number
        BY <1>6, <1>8, <1>10, <2>1
    <2> QED
        BY <1>7, <1>11, <2>1 DEF OnlyOwn
<1>13. WaitFits(waiting', todo', client', conn')
    <2>1. client'.tag = c.tag /\ client'.tag # 0 /\ client'.number = c.number
        BY <1>2, <1>3, <1>4 DEF IsClient
    <2> QED
        BY <1>1, <1>3, <1>12, <2>1 DEF WaitFits
<1>14. TagsFit(waiting', todo', client', conn')
    <2>1. CASE LoggingOut(todo)
        BY <1>1, <1>4, <1>5, <2>1 DEF SessionInv, TagsFit
    <2>2. CASE ~LoggingOut(todo)
        <3>1. AtMost(conn, client.tag) /\ (client.loggedIn => client.tag >= 1 /\ Free(conn, 1))
            BY <2>2 DEF SessionInv, TagsFit
        <3>2. \A i \in 1 .. Len(new) : new[i].tag <= client.tag + 1
            <4>1. \A i \in 1 .. Len(old) : old[i].tag <= client.tag /\ old[i].tag \in Nat
                BY <1>2, <3>1 DEF AtMost, IsConn, old
            <4> QED
                BY <1>2, <1>3, <1>6, <1>8, <4>1 DEF IsClient
        <3>3. \A i \in 1 .. Len(conn.lines) : conn.lines[i].tag <= client.tag + 1
            <4>1. \A i \in 1 .. Len(conn.lines) : conn.lines[i].tag <= client.tag /\ conn.lines[i].tag \in Nat
                BY <1>2, <3>1 DEF AtMost, IsConn
            <4> QED
                BY <1>2, <4>1 DEF IsClient
        <3>4. AtMost(conn', client'.tag)
            BY <1>4, <1>7, <3>2, <3>3 DEF AtMost
        <3>5. ASSUME client.loggedIn
              PROVE  client.tag + 1 >= 1 /\ Free(conn', 1)
            <4>1. Free(conn, 1) /\ c.tag # 1 /\ client.tag + 1 >= 1
                BY <1>2, <1>3, <3>1, <3>5 DEF IsClient
            <4>2. \A i \in 1 .. Len(new) : new[i].tag # 1
                BY <1>6, <1>8, <4>1 DEF Free, old
            <4> QED
                BY <1>7, <4>1, <4>2 DEF Free
        <3> QED
            BY <1>1, <1>4, <2>2, <3>4, <3>5 DEF TagsFit
    <2> QED
        BY <2>1, <2>2
<1>15. ~client'.sock \/ ~conn'.open => Silent(conn')
    BY <1>1, <1>4, <1>7
<1> QED
    BY <1>1, <1>2, <1>4, <1>9, <1>13, <1>14, <1>15 DEF SessionInv, OwnStatus

\* The lines of an answer: none but the last has a tag, and that is the
\* command's.
IsAnswer(a, c) ==
    /\ IsSeq(a) /\ Len(a) \in Nat \ {0}
    /\ \A i \in 1 .. Len(a) - 1 : a[i].tag = 0
    /\ a[Len(a)].tag = c.tag /\ a[Len(a)].of = c.number

LEMMA AnswerLinesOf ==
    ASSUME NEW c, NEW status
    PROVE  /\ IsAnswer(<<Untagged(c)>> \o <<Tagged(c, status)>>, c)
           /\ IsAnswer(<< >> \o <<Tagged(c, status)>>, c)
<1> DEFINE u == Untagged(c)
           t == Tagged(c, status)
<1>1. u.tag = 0 /\ t.tag = c.tag /\ t.of = c.number
    BY DEF Untagged, Tagged
<1> HIDE DEF u, t
<1>2. IsSeq(<<u>>) /\ IsSeq(<<t>>) /\ Len(<<u>>) = 1 /\ Len(<<t>>) = 1 /\ <<u>>[1] = u /\ <<t>>[1] = t
    BY SeqPair
<1>3. IsAnswer(<<u>> \o <<t>>, c)
    <2> DEFINE a == <<u>> \o <<t>>
    <2>1. /\ IsSeq(a) /\ Len(a) = 2 /\ a[1] = u /\ a[2] = t
        <3>1. /\ IsSeq(a) /\ Len(a) = Len(<<u>>) + Len(<<t>>)
              /\ \A i \in 1 .. Len(<<u>>) : a[i] = <<u>>[i]
              /\ \A i \in 1 .. Len(<<t>>) : a[Len(<<u>>) + i] = <<t>>[i]
            BY <1>2, SeqConcat
        <3> HIDE DEF a
        <3> QED
            BY <1>2, <3>1
    <2> HIDE DEF a
    <2>2. IsAnswer(a, c)
        BY <1>1, <2>1 DEF IsAnswer
    <2> QED
        BY <2>2 DEF a
<1>4. IsAnswer(<< >> \o <<t>>, c)
    <2> DEFINE a == << >> \o <<t>>
    <2>1. /\ IsSeq(a) /\ Len(a) = 1 /\ a[1] = t
        <3>1. /\ IsSeq(a) /\ Len(a) = Len(<< >>) + Len(<<t>>)
              /\ \A i \in 1 .. Len(<<t>>) : a[Len(<< >>) + i] = <<t>>[i]
            BY <1>2, SeqConcat, SeqEmpty
        <3> HIDE DEF a
        <3> QED
            BY <1>2, <3>1, SeqEmpty
    <2> HIDE DEF a
    <2>2. IsAnswer(a, c)
        BY <1>1, <2>1 DEF IsAnswer
    <2> QED
        BY <2>2 DEF a
<1> QED
    BY <1>3, <1>4 DEF u, t

\* An answer has no tag its command has not had, and comes after all others.
LEMMA AnswerStep ==
    ASSUME SessionInv, Answer
    PROVE  SessionInv'
<1> DEFINE c == Head(conn.commands)
           rest == Tail(conn.commands)
           old == conn.lines
<1>1. conn.commands # << >> /\ UNCHANGED <<request, steps, todo, waiting, client, outcome>>
    BY DEF Answer
<1>2. PICK a : IsAnswer(a, c) /\ conn' = [conn EXCEPT !.commands = rest, !.lines = old \o a]
    <2>1. PICK status : conn' = [conn EXCEPT !.commands = Tail(@), !.lines = @ \o
              ((IF status = "OK" /\ HasData(c) THEN <<Untagged(c)>> ELSE << >>) \o <<Tagged(c, status)>>)]
        BY DEF Answer
    <2>2. CASE status = "OK" /\ HasData(c)
        BY <2>1, <2>2, AnswerLinesOf
    <2>3. CASE ~(status = "OK" /\ HasData(c))
        BY <2>1, <2>3, AnswerLinesOf
    <2> QED
        BY <2>2, <2>3
<1> DEFINE new == old \o a
<1>3. IsClient(client) /\ IsConn(conn) /\ TodoFits(todo)
    BY DEF SessionInv
<1>4. /\ IsSeq(rest) /\ Len(conn.commands) \in Nat \ {0} /\ c = conn.commands[1]
      /\ Len(rest) = Len(conn.commands) - 1
      /\ \A i \in 1 .. Len(conn.commands) - 1 : rest[i] = conn.commands[i + 1]
    BY <1>1, <1>3, SeqTail DEF IsConn
<1>5. /\ IsSeq(new) /\ Len(new) = Len(old) + Len(a)
      /\ \A i \in 1 .. Len(old) : new[i] = old[i]
      /\ \A i \in 1 .. Len(a) : new[Len(old) + i] = a[i]
    BY <1>2, <1>3, SeqConcat DEF IsAnswer, IsConn
<1>6. Len(old) \in Nat /\ Len(a) \in Nat \ {0}
    BY <1>2, <1>3 DEF IsAnswer, IsConn, IsSeq
<1>7. /\ DOMAIN conn' = ConnFields /\ conn' = [f \in ConnFields |-> conn'[f]]
      /\ conn'.open = conn.open /\ conn'.commands = rest /\ conn'.lines = new
    BY <1>2, <1>3 DEF IsConn, ConnFields
<1>8. c.tag \in Nat \ {0}
    BY <1>3, <1>4 DEF IsConn
<1>9. \A i \in 1 .. Len(rest) : i + 1 \in 1 .. Len(conn.commands) /\ rest[i] = conn.commands[i + 1]
    BY <1>4
<1> HIDE DEF c, rest, old, new
\* A line is one there was, or without a tag, or the last one with the
\* command's tag.
<1>10. \A i \in 1 .. Len(new) :
          \/ i \in 1 .. Len(old) /\ new[i] = old[i]
          \/ new[i].tag = 0
          \/ i = Len(new) /\ new[i].tag = c.tag /\ new[i].of = c.number
    <2>1. TAKE i \in 1 .. Len(new)
    <2>2. CASE i <= Len(old)
        BY <1>5, <1>6, <2>2
    <2>3. CASE i > Len(old)
        <3> DEFINE j == i - Len(old)
        <3>1. j \in 1 .. Len(a) /\ i = Len(old) + j
            BY <1>5, <1>6, <2>3
        <3> HIDE DEF j
        <3>2. new[i] = a[j]
            BY <1>5, <3>1
        <3>3. CASE j = Len(a)
            BY <1>2, <1>5, <1>6, <3>1, <3>2, <3>3 DEF IsAnswer
        <3>4. CASE j # Len(a)
            <4>1. j \in 1 .. Len(a) - 1
                BY <1>6, <3>1, <3>4
            <4> QED
                BY <1>2, <3>2, <4>1 DEF IsAnswer
        <3> QED
            BY <3>3, <3>4
    <2> QED
        BY <1>6, <2>2, <2>3
<1>11. IsConn(conn')
    <2>1. \A i \in 1 .. Len(rest) : rest[i].tag \in Nat \ {0}
        BY <1>3, <1>9 DEF IsConn
    <2>2. \A i \in 1 .. Len(old) : old[i].tag \in Nat
        BY <1>3 DEF IsConn, old
    <2>3. \A i \in 1 .. Len(new) : new[i].tag \in Nat
        <3>1. TAKE i \in 1 .. Len(new)
        <3>2. new[i].tag = 0 \/ new[i].tag = c.tag \/ (i \in 1 .. Len(old) /\ new[i] = old[i])
            BY <1>10
        <3> QED
            BY <1>8, <2>2, <3>2
    <2> QED
        BY <1>3, <1>4, <1>5, <1>7, <2>1, <2>3 DEF IsConn
<1>12. ASSUME NEW n \in Nat, AtMost(conn, n)
       PROVE  AtMost(conn', n)
    <2>1. c.tag <= n
        BY <1>4, <1>12 DEF AtMost
    <2>2. \A i \in 1 .. Len(rest) : rest[i].tag <= n
        BY <1>9, <1>12 DEF AtMost
    <2>3. \A i \in 1 .. Len(old) : old[i].tag <= n
        BY <1>12 DEF AtMost, old
    <2>4. \A i \in 1 .. Len(new) : new[i].tag <= n
        BY <1>10, <2>1, <2>3
    <2> QED
        BY <1>7, <2>2, <2>4 DEF AtMost
<1>13. ASSUME Free(conn, 1)
       PROVE  Free(conn', 1)
    <2>1. c.tag # 1
        BY <1>4, <1>13 DEF Free
    <2>2. \A i \in 1 .. Len(rest) : rest[i].tag # 1
        BY <1>9, <1>13 DEF Free
    <2>3. \A i \in 1 .. Len(old) : old[i].tag # 1
        BY <1>13 DEF Free, old
    <2>4. \A i \in 1 .. Len(new) : new[i].tag # 1
        BY <1>10, <2>1, <2>3
    <2> QED
        BY <1>7, <2>2, <2>4 DEF Free
<1>14. ASSUME NEW w, w.tag # 0, OnlyOwn(conn, w)
       PROVE  OnlyOwn(conn', w)
    <2>1. ASSUME NEW i \in 1 .. Len(rest), rest[i].tag = w.tag
          PROVE  i = Len(rest) /\ rest[i].number = w.number
        <3>1. i + 1 = Len(conn.commands) /\ conn.commands[i + 1].number = w.number
            BY <1>9, <1>14, <2>1 DEF OnlyOwn
        <3> QED
            BY <1>4, <1>9, <3>1
    <2>2. ASSUME NEW i \in 1 .. Len(new), new[i].tag = w.tag
          PROVE  rest = << >> /\ i = Len(new) /\ new[i].of = w.number
        <3>1. \A j \in 1 .. Len(old) : old[j].tag # w.tag
            BY <1>1, <1>14 DEF OnlyOwn, old
        <3>2. i = Len(new) /\ c.tag = w.tag /\ new[i].of = c.number
            BY <1>10, <1>14, <2>2, <3>1
        <3>3. 1 = Len(conn.commands) /\ c.number = w.number
            <4>1. 1 \in 1 .. Len(conn.commands) /\ conn.commands[1].tag = w.tag
                BY <1>4, <3>2
            <4> QED
                BY <1>4, <1>14, <4>1 DEF OnlyOwn
        <3>4. rest = << >>
            BY <1>4, <3>3 DEF IsSeq
        <3> QED
            BY <3>2, <3>3, <3>4
    <2> QED
        BY <1>7, <2>1, <2>2 DEF OnlyOwn
<1>15. WaitFits(waiting', todo', client', conn')
    <2>1. CASE waiting = Idle
        BY <1>1, <2>1 DEF WaitFits
    <2>2. CASE waiting # Idle
        <3>1. waiting.tag # 0 /\ OnlyOwn(conn, waiting)
            BY <2>2 DEF SessionInv, WaitFits
        <3>2. OnlyOwn(conn', waiting)
            BY <1>14, <3>1
        <3> QED
            BY <1>1, <2>2, <3>2 DEF SessionInv, WaitFits
    <2> QED
        BY <2>1, <2>2
<1>16. TagsFit(waiting', todo', client', conn')
    <2>1. client.tag \in Nat
        BY <1>3 DEF IsClient
    <2> QED
        BY <1>1, <1>12, <1>13, <2>1 DEF SessionInv, TagsFit
<1>17. ~client'.sock \/ ~conn'.open => Silent(conn')
    BY <1>1, <1>7 DEF SessionInv, Silent
<1> QED
    BY <1>1, <1>3, <1>11, <1>15, <1>16, <1>17 DEF SessionInv, OwnStatus

-----------------------------------------------------------------------------
(* Answers and timeouts *)

\* The status that is taken is the command's own, and nothing is left after it.
LEMMA StatusIsOwn ==
    ASSUME SessionInv, waiting # Idle, StatusAt # {}
    PROVE  /\ conn.lines[FirstStatus].of = waiting.number
           /\ IsConn(Rest) /\ Silent(Rest)
           /\ FirstStatus = Len(conn.lines) /\ FirstStatus \in 1 .. Len(conn.lines)
           /\ conn.lines[FirstStatus].tag = waiting.tag
<1>1. IsConn(conn) /\ OnlyOwn(conn, waiting)
    BY DEF SessionInv, WaitFits
<1>2. IsSeq(conn.lines) /\ Len(conn.lines) \in Nat
    BY <1>1 DEF IsConn, IsSeq
<1>3. DOMAIN conn.lines = 1 .. Len(conn.lines)
    BY <1>2 DEF IsSeq
<1>4. \A i \in StatusAt : i \in 1 .. Len(conn.lines) /\ conn.lines[i].tag = waiting.tag
    BY <1>3 DEF StatusAt, IsStatus
<1>5. \A i \in StatusAt :
          conn.commands = << >> /\ i = Len(conn.lines) /\ conn.lines[i].of = waiting.number
    BY <1>1, <1>4 DEF OnlyOwn
<1>6. \A i, j \in StatusAt : i <= j
    BY <1>2, <1>5
<1>7. FirstStatus \in StatusAt
    <2>1. \E i \in StatusAt : \A j \in StatusAt : i <= j
        BY <1>6
    <2> QED
        BY <2>1 DEF FirstStatus
<1>8. conn.commands = << >> /\ FirstStatus = Len(conn.lines) /\ conn.lines[FirstStatus].of = waiting.number
    BY <1>5, <1>7
<1>9. SubSeq(conn.lines, FirstStatus + 1, Len(conn.lines)) = << >>
    BY <1>2, <1>8 DEF IsSeq
<1>10. Rest = [conn EXCEPT !.lines = << >>]
    BY <1>9 DEF Rest
<1>11. /\ DOMAIN Rest = ConnFields /\ Rest = [f \in ConnFields |-> Rest[f]]
       /\ Rest.open = conn.open /\ Rest.commands = << >> /\ Rest.lines = << >>
    BY <1>1, <1>8, <1>10 DEF IsConn, ConnFields
<1>12. 1 .. Len(<< >>) = {}
    BY SeqEmpty
<1>13. IsConn(Rest)
    BY <1>1, <1>11, <1>12, SeqEmpty DEF IsConn
<1> QED
    BY <1>4, <1>7, <1>8, <1>11, <1>13 DEF Silent

\* The client with the answer it has taken
LEMMA TakenFits ==
    ASSUME SessionInv, waiting # Idle, StatusAt # {}
    PROVE  /\ IsClient(Taken) /\ Taken.tag = client.tag /\ Taken.number = client.number
           /\ Taken.loggedIn = client.loggedIn /\ Taken.sock = client.sock
           /\ Taken.took.of = Taken.took.command
<1> DEFINE took == [of |-> conn.lines[FirstStatus].of, command |-> waiting.number]
           c == [client EXCEPT !.took = took]
<1>1. IsClient(client)
    BY DEF SessionInv
<1>2. took.of = took.command
    BY StatusIsOwn
<1> HIDE DEF took
<1>3. /\ DOMAIN c = ClientFields /\ c = [f \in ClientFields |-> c[f]]
      /\ c.tag = client.tag /\ c.number = client.number
      /\ c.loggedIn = client.loggedIn /\ c.sock = client.sock /\ c.took = took
    BY <1>1 DEF IsClient, ClientFields
<1> HIDE DEF c
<1>4. IsClient(c)
    BY <1>1, <1>3 DEF IsClient
<1> QED
    BY <1>2, <1>3, <1>4 DEF Taken, c, took

\* What a client becomes that has learned something, or has logged in
Learned(c, d) ==
    /\ IsClient(d)
    /\ d.tag = c.tag /\ d.took = c.took

LEMMA LearnedFields ==
    ASSUME NEW c, IsClient(c), NEW x
    PROVE  /\ Learned(c, c)
           /\ Learned(c, [c EXCEPT !.delimiter = x])
           /\ Learned(c, [c EXCEPT !.mboxes = x])
           /\ Learned(c, [c EXCEPT !.quota = x])
           /\ Learned(c, [c EXCEPT !.caps = x])
           /\ Learned(c, [c EXCEPT !.namespaces = x])
           /\ Learned(c, [c EXCEPT !.loggedIn = TRUE])
BY DEF Learned, IsClient, ClientFields

LEMMA FollowsLearned ==
    ASSUME NEW c, NEW d, Follows(c, d)
    PROVE  Learned(c, d)
BY DEF Follows, Learned

\* Whatever an answer teaches the client, it keeps its tag; the answer to LOGOUT
\* closes the connection.
LEMMA LearnStep ==
    ASSUME SessionInv, waiting # Idle, StatusAt # {}, Learn
    PROVE  Learned(Taken, client') /\ NoLogout(todo')
<1>1. IsClient(Taken) /\ TodoFits(todo) /\ todo[1].do = waiting.do /\ todo # << >>
    BY TakenFits DEF SessionInv, WaitFits
<1>2. CASE waiting.do = "CAPABILITY"
    <2>1. client' = [Taken EXCEPT !.caps = TRUE] /\ Proceed
        BY <1>2 DEF Learn, LearnCapabilities
    <2> QED
        BY <1>1, <2>1, LearnedFields, ProceedStep
<1>3. CASE waiting.do = "AUTHENTICATE"
    <2>1. Authenticate
        BY <1>3 DEF Learn
    <2>2. CASE client' = DisconnectedOnError(Taken) /\ CallFails
        BY <1>1, <2>2, DisconnectedFollows, FollowsLearned, CallEndsStep
    <2>3. CASE client' = [Taken EXCEPT !.loggedIn = TRUE] /\ Proceed
        BY <1>1, <2>3, LearnedFields, ProceedStep
    <2> QED
        BY <2>1, <2>2, <2>3 DEF Authenticate
<1>4. CASE waiting.do = "NAMESPACE"
    <2>1. PICK x : client' = [Taken EXCEPT !.namespaces = x] /\ Proceed
        BY <1>4 DEF Learn, LearnNamespaces
    <2> QED
        BY <1>1, <2>1, LearnedFields, ProceedStep
<1>5. CASE waiting.do = "LOGOUT"
    <2>1. client' = Disconnected(Taken) /\ Proceed
        BY <1>5 DEF Learn
    <2> QED
        BY <1>1, <2>1, DisconnectedFollows, FollowsLearned, ProceedStep
<1>6. CASE waiting.do \in {"ID", "DELIMITER", "MAILBOXES", "FOLDERS", "GETQUOTA"}
    <2>1. PICK p \in Parses : IF p = "endless" THEN Loops ELSE LearnParsed(p)
        BY <1>6 DEF Learn
    <2>2. CASE p = "endless"
        <3>1. client' = Taken /\ todo' = todo
            BY <2>1, <2>2 DEF Loops
        <3>2. Len(todo) \in Nat \ {0}
            BY <1>1, SeqTail DEF TodoFits
        <3>3. \A i \in 1 .. Len(todo) : todo[i].do # "LOGOUT"
            BY <1>1, <1>6, <3>2 DEF TodoFits
        <3> QED
            BY <1>1, <3>1, <3>3, LearnedFields DEF TodoFits, NoLogout
    <2>3. CASE p # "endless" /\ waiting.do = "ID"
        <3>1. client' = Taken /\ Proceed
            BY <2>1, <2>3 DEF LearnParsed, LearnId
        <3> QED
            BY <1>1, <3>1, LearnedFields, ProceedStep
    <2>4. CASE p # "endless" /\ waiting.do = "DELIMITER"
        <3>1. LearnDelimiter(p)
            BY <2>1, <2>4 DEF LearnParsed
        <3>2. PICK x : client' = [Taken EXCEPT !.delimiter = x] /\ Proceed
            BY <3>1 DEF LearnDelimiter
        <3> QED
            BY <1>1, <3>2, LearnedFields, ProceedStep
    <2>5. CASE p # "endless" /\ waiting.do = "MAILBOXES"
        <3>1. LearnMailboxes(p)
            BY <2>1, <2>5 DEF LearnParsed
        <3>2. PICK x : client' = [Taken EXCEPT !.mboxes = x] /\ Proceed
            BY <3>1 DEF LearnMailboxes
        <3> QED
            BY <1>1, <3>2, LearnedFields, ProceedStep
    <2>6. CASE p # "endless" /\ waiting.do = "FOLDERS"
        <3>1. LearnFolders(p)
            BY <2>1, <2>6 DEF LearnParsed
        <3>2. client' = Taken
            BY <3>1 DEF LearnFolders
        <3>3. CallFails \/ \E at : todo' = Append(Lookup, Todo("PLAN", at))
            BY <3>1 DEF LearnFolders
        <3> QED
            BY <1>1, <3>2, <3>3, LearnedFields, CallEndsStep, NoLogoutLookup, NoLogoutAppend
    <2>7. CASE p # "endless" /\ waiting.do = "GETQUOTA"
        <3>1. LearnQuota(p)
            BY <2>1, <2>7 DEF LearnParsed
        <3>2. PICK x : client' = [Taken EXCEPT !.quota = x] /\ (Proceed \/ CallFails)
            BY <3>1 DEF LearnQuota
        <3> QED
            BY <1>1, <3>2, LearnedFields, ProceedStep, CallEndsStep
    <2> QED
        BY <1>6, <2>2, <2>3, <2>4, <2>5, <2>6, <2>7
<1>7. CASE waiting.do \notin {"CAPABILITY", "AUTHENTICATE", "NAMESPACE", "LOGOUT",
                              "ID", "DELIMITER", "MAILBOXES", "FOLDERS", "GETQUOTA"}
    <2>1. client' = Taken /\ Proceed
        BY <1>7 DEF Learn
    <2> QED
        BY <1>1, <2>1, LearnedFields, ProceedStep
<1> QED
    BY <1>2, <1>3, <1>4, <1>5, <1>6, <1>7

LEMMA ReceiveStep ==
    ASSUME SessionInv, Receive
    PROVE  SessionInv'
<1>1. waiting # Idle /\ StatusAt # {} /\ waiting' = Idle
    BY DEF Receive, IsWaiting
<1>2. IsClient(Taken) /\ TodoFits(todo) /\ client.tag \in Nat \ {0}
    BY <1>1, TakenFits DEF SessionInv, WaitFits, IsClient
<1>3. Learned(Taken, client') /\ NoLogout(todo')
    <2>1. CASE Learn
        BY <1>1, <2>1, LearnStep
    <2>2. ASSUME NEW c, c = Taken \/ c = [Taken EXCEPT !.quota = 0], CommandFails(waiting.do, c)
          PROVE  Learned(Taken, client') /\ NoLogout(todo')
        <3>1. Follows(Taken, c)
            BY <1>2, <2>2, FollowsItself, DisconnectedFollows
        <3>2. Follows(c, client') /\ NoLogout(todo')
            BY <1>2, <2>2, <3>1, CommandFailsStep DEF Follows
        <3> QED
            BY <3>1, <3>2, FollowsTransitive, FollowsLearned
    <2>3. Learn \/ \E c \in {Taken, [Taken EXCEPT !.quota = 0]} : CommandFails(waiting.do, c)
        BY DEF Receive
    <2> QED
        BY <2>1, <2>2, <2>3
<1>4. IsConn(conn') /\ Silent(conn')
    <2>1. conn' = Rest \/ conn' = NoConnection
        BY DEF Receive
    <2> QED
        BY <1>1, <2>1, StatusIsOwn, NoConnectionFits
<1>5. IsClient(client') /\ client'.tag >= 1 /\ client'.took.of = client'.took.command
    <2>1. Taken.tag = client.tag /\ Taken.took.of = Taken.took.command
        BY <1>1, TakenFits
    <2> QED
        BY <1>2, <1>3, <2>1 DEF Learned
<1> QED
    BY <1>1, <1>3, <1>4, <1>5, SilentStep

\* After a timeout the command may still be under way, but none with a tag that is
\* to come.
LEMMA TimeOutStep ==
    ASSUME SessionInv, TimeOut
    PROVE  SessionInv'
<1>1. waiting # Idle /\ waiting' = Idle
    BY DEF TimeOut, IsWaiting
<1>2. IsClient(client) /\ IsConn(conn) /\ TodoFits(todo) /\ todo # << >> /\ todo[1].do = waiting.do
    BY <1>1 DEF SessionInv, WaitFits
<1>3. /\ Follows(client, client') /\ NoLogout(todo')
      /\ waiting.do = "LOGOUT" => ~client'.sock
    <2>1. PICK c \in {client, [client EXCEPT !.quota = 0]} : CommandFails(waiting.do, c)
        BY DEF TimeOut
    <2>2. Follows(client, c)
        BY <1>2, <2>1, FollowsItself, DisconnectedFollows
    <2>3. /\ Follows(c, client') /\ NoLogout(todo')
          /\ waiting.do = "LOGOUT" => ~client'.sock
        BY <1>2, <2>1, <2>2, CommandFailsStep DEF Follows
    <2> QED
        BY <2>2, <2>3, FollowsTransitive
<1>4. /\ IsClient(client') /\ client'.took.of = client'.took.command
      /\ client'.loggedIn => client'.tag >= 1
    <2>1. client.tag >= 1
        BY <1>1, <1>2 DEF SessionInv, WaitFits, IsClient
    <2> QED
        BY <1>3, <2>1 DEF SessionInv, OwnStatus, Follows
<1>5. CASE ~client'.sock
    <2>1. conn' = NoConnection
        BY <1>5 DEF TimeOut
    <2> QED
        BY <1>1, <1>3, <1>4, <2>1, NoConnectionFits, SilentStep
<1>6. CASE client'.sock
    <2>1. conn' = [conn EXCEPT !.lines = << >>]
        BY <1>6 DEF TimeOut
    <2>2. /\ DOMAIN conn' = ConnFields /\ conn' = [f \in ConnFields |-> conn'[f]]
          /\ conn'.open = conn.open /\ conn'.commands = conn.commands /\ conn'.lines = << >>
        BY <1>2, <2>1 DEF IsConn, ConnFields
    <2>3. 1 .. Len(<< >>) = {}
        BY SeqEmpty
    <2>4. IsConn(conn')
        BY <1>2, <2>2, <2>3, SeqEmpty DEF IsConn
    <2>5. ~LoggingOut(todo)
        BY <1>2, <1>3, <1>6 DEF LoggingOut
    <2>6. AtMost(conn, client.tag) /\ (client.loggedIn => client.tag >= 1 /\ Free(conn, 1))
        BY <2>5 DEF SessionInv, TagsFit
    <2>7. AtMost(conn', client'.tag) /\ (client'.loggedIn => client'.tag >= 1 /\ Free(conn', 1))
        BY <1>3, <2>2, <2>3, <2>6 DEF AtMost, Free, Follows
    <2>8. TodoFits(todo') /\ ~LoggingOut(todo')
        BY <1>3, NoLogoutFits
    <2>9. WaitFits(waiting', todo', client', conn') /\ TagsFit(waiting', todo', client', conn')
        BY <1>1, <2>7, <2>8 DEF WaitFits, TagsFit
    <2>10. ~client'.sock \/ ~conn'.open => Silent(conn')
        BY <1>6, <2>2 DEF SessionInv, Silent
    <2> QED
        BY <1>4, <2>4, <2>8, <2>9, <2>10 DEF SessionInv, OwnStatus
<1> QED
    BY <1>5, <1>6

-----------------------------------------------------------------------------
(* The theorem *)

LEMMA SessionInit ==
    Init => SessionInv
<1> SUFFICES ASSUME Init PROVE SessionInv
    OBVIOUS
<1>1. /\ IsClient(client) /\ client.loggedIn = FALSE /\ client.took.of = client.took.command
    BY DEF Init, NewClient, IsClient, ClientFields
<1>2. IsConn(conn) /\ Silent(conn)
    BY NoConnectionFits DEF Init
<1>3. TodoFits(todo) /\ ~LoggingOut(todo)
    BY NoLogoutEmpty, NoLogoutFits DEF Init
<1>4. AtMost(conn, client.tag)
    BY <1>2, SilentFits
<1>5. WaitFits(waiting, todo, client, conn) /\ TagsFit(waiting, todo, client, conn)
    BY <1>1, <1>3, <1>4 DEF Init, WaitFits, TagsFit
<1> QED
    BY <1>1, <1>2, <1>3, <1>5 DEF SessionInv, OwnStatus

LEMMA SessionStep ==
    ASSUME SessionInv, [Next]_vars
    PROVE  SessionInv'
<1>1. CASE Connect
    BY <1>1, ConnectStep
<1>2. CASE CreateMailbox \/ CreateFolder \/ SubscribeFolder \/ SetQuota \/ GetQuota
           \/ GetMailboxes \/ DeleteMailbox
    <2>1. \E op, command : command # "LOGOUT" /\ StartNamed(op, command)
        BY <1>2 DEF CreateMailbox, CreateFolder, SubscribeFolder, SetQuota, GetQuota, GetMailboxes, DeleteMailbox
    <2> QED
        BY <2>1, StartNamedStep
<1>3. CASE SetSpecialUse \/ StartLogout
    BY <1>3, SetSpecialUseStep, StartLogoutStep
<1>4. CASE PlanDeletions \/ DeleteNext
    BY <1>4, PlanDeletionsStep, DeleteNextStep
<1>5. CASE Skip \/ Send \/ SendFails \/ Receive \/ TimeOut
    BY <1>5, SkipStep, SendStep, SendFailsStep, ReceiveStep, TimeOutStep
<1>6. CASE Answer \/ Hangup \/ Destroy
    BY <1>6, AnswerStep, LostConnectionStep
<1>7. CASE UNCHANGED vars
    BY <1>7 DEF vars, SessionInv, OwnStatus
<1> QED
    BY <1>1, <1>2, <1>3, <1>4, <1>5, <1>6, <1>7 DEF Next, Client

\* OwnStatus: the status that ends the wait for a command is that command's,
\* whatever the server can do, whichever answers come late or are lost, and
\* although the tags begin anew with logout(): the answer to a command that was
\* given up is never taken for the answer to another
\* (imap.cpp:773-776, 826-843, 902-946).
THEOREM StatusesOwn == Spec => []OwnStatus
<1>1. SessionInv /\ [Next]_vars => SessionInv'
    BY SessionStep
<1>2. SessionInv => OwnStatus
    BY DEF SessionInv
<1> QED
    BY <1>1, <1>2, SessionInit, PTL DEF Spec

-----------------------------------------------------------------------------
(* What success is made of *)

Blind(c) == ~c.namespaces /\ c.delimiter = "wrong"

\* What a request that is done has done
Reached(r, b) ==
    /\ r = "create" => b.exists
    /\ r = "remove" => ~b.exists /\ b.folders = {}
    /\ r \in {"quotaOnly", "update", "check"} => b.quota = WantedBy(r)

\* The call that does it
Key(r) ==
    CASE r = "create" -> "createMailbox"
      [] r = "remove" -> "deleteMailbox"
      [] r \in {"quotaOnly", "update"} -> "setQuota"
      [] r = "check" -> "correctQuota"
      [] OTHER -> "none"

\* A request does not go on as if nothing had happened when that call has failed.
CallFits(c, r) ==
    /\ c.fails \in {"next", "logout", "end"}
    /\ c.op = Key(r) => c.fails # "next" /\ c.folder = Root
    /\ c.op = "deleteMailbox" => r = "remove"
    /\ r = "remove" => c.op \in {"login", "deleteMailbox", "logout"}

CallsFit(s, r) == IsSeq(s) /\ \A i \in 1 .. Len(s) : CallFits(s[i], r)

Awaits(s, r) == \E i \in 1 .. Len(s) : s[i].op = Key(r)

\* As long as nothing has failed, the key call is still to come or has worked.
OnTheWay(r, s, o, b) ==
    /\ o \in {"running", "done"} => Reached(r, b) \/ Awaits(s, r)
    /\ o = "done" => s = << >>

\* What is created is not deleted, and what is deleted is not created.
KindFits(do, r) ==
    IF r = "remove" THEN do # "CREATE" ELSE do \notin {"DELETE", "FOLDERS", "PLAN", "EACH"}

CommandsFit(t, r) ==
    \A i \in 1 .. Len(t) :
        /\ KindFits(t[i].do, r)
        /\ t[i].do = "FOLDERS" => t[i].at = Root
        /\ t[i].do \in {"PLAN", "EACH"} => i = Len(t)

LastOf(t) == t[Len(t)]

Deletes(t) == {t[j].at : j \in {j \in 1 .. Len(t) : t[j].do = "DELETE"}}

\* No folder is forgotten: it is still to be deleted, or the names are such that
\* the last deletion is refused.
RemovalFits(t, b, c) ==
    LET last == LastOf(t)
    IN /\ last.do \in {"FOLDERS", "PLAN", "EACH", "DELETE"}
       /\ last.do = "PLAN" => b.folders \subseteq last.at \/ Blind(c)
       /\ last.do = "EACH" =>
              /\ last.at.root \in {Root, Wrong}
              /\ last.at.root = Wrong \/ b.folders \subseteq last.at.left \cup Deletes(t)
       /\ last.do = "DELETE" => last.at = Wrong \/ (last.at = Root /\ b.folders = {})

\* The last command of the key call does what the request is for.
WorkFits(t, r, b, c) ==
    /\ r = "create" => LastOf(t).do = "CREATE" /\ LastOf(t).at = Root
    /\ r \in {"quotaOnly", "update", "check"} => LastOf(t).do = "SETQUOTA"
    /\ r = "remove" => RemovalFits(t, b, c)

Working(t, s, r, b, c) ==
    t # << >> => s # << >> /\ (s[1].op = Key(r) => WorkFits(t, r, b, c))

\* What is under way
NetFits(n, r, b) ==
    /\ \A i \in 1 .. Len(n.commands) : KindFits(n.commands[i].do, r)
    /\ \A i \in 1 .. Len(n.lines) :
          n.lines[i].do = "GETQUOTA" /\ n.lines[i].tag = 0 =>
              n.lines[i].says # {} /\ (WantedBy(r) \in n.lines[i].says => b.quota = WantedBy(r))

\* What it means that a command has succeeded
Effect(w, n, b, r) ==
    /\ w.do = "CREATE" => w.at # Wrong /\ (w.at = Root => b.exists)
    /\ w.do = "SETQUOTA" => b.quota = WantedBy(r)
    /\ w.do = "DELETE" => w.at # Wrong /\ w.at \notin b.folders /\ (w.at = Root => ~b.exists)
    /\ w.do = "NAMESPACE" => "NAMESPACE" \in Capabilities
    /\ w.do = "FOLDERS" =>
          \/ w.at = Wrong \/ b.folders = {}
          \/ \E j \in 1 .. Len(n.lines) - 1 : n.lines[j].tag = 0 /\ b.folders \subseteq n.lines[j].says

AnswerFits(w, n, b, r) ==
    /\ \A i \in 1 .. Len(n.commands) : n.commands[i].tag = w.tag => n.commands[i] = w
    /\ \A i \in 1 .. Len(n.lines) :
          n.lines[i].tag = w.tag /\ n.lines[i].says = "OK" => Effect(w, n, b, r)

SentFits(w, t, c) ==
    /\ IsCommand(w)
    /\ w.at \in {t[1].at, Wrong}
    /\ w.do = "DELETE" => w.at = t[1].at
    /\ w.do = "FOLDERS" /\ w.at = Wrong => Blind(c)
    /\ w.do = "DELIMITER" => c.delimiter = "unset"

KnownFits(c, b, r) ==
    /\ c.quota = WantedBy(r) /\ WantedBy(r) # 0 => b.quota = WantedBy(r)
    /\ c.delimiter = "wrong" => "taken" \in StaleParse

BoxFields == {"exists", "folders", "rights", "quota"}

BoxFits(b) == DOMAIN b = BoxFields /\ b = [f \in BoxFields |-> b[f]] /\ Root \notin b.folders

DoneInv ==
    /\ BoxFits(box) /\ KnownFits(client, box, request) /\ NetFits(conn, request, box)
    /\ CallsFit(steps, request) /\ OnTheWay(request, steps, outcome, box)
    /\ CommandsFit(todo, request) /\ Working(todo, steps, request, box, client)
    /\ waiting # Idle => IsServed /\ SentFits(waiting, todo, client) /\ AnswerFits(waiting, conn, box, request)

CallPart(s, t, o, r, b, c) ==
    CallsFit(s, r) /\ OnTheWay(r, s, o, b) /\ CommandsFit(t, r) /\ Working(t, s, r, b, c)

LEMMA KeyValues ==
    ASSUME NEW r
    PROVE  /\ Key(r) \in {"createMailbox", "deleteMailbox", "setQuota", "correctQuota", "none"}
           /\ Key(r) = "createMailbox" => r = "create"
           /\ Key(r) = "deleteMailbox" => r = "remove"
           /\ Key(r) = "correctQuota" => r = "check"
           /\ Key(r) = "setQuota" => r \in {"quotaOnly", "update"}
           /\ Key(r) = "none" => \A b : Reached(r, b)
BY DEF Key, Reached

\* The rest of a request's calls
LEMMA TailFits ==
    ASSUME NEW s, NEW r, CallsFit(s, r), s # << >>
    PROVE  /\ CallsFit(Tail(s), r)
           /\ CallFits(s[1], r) /\ Head(s) = s[1]
           /\ Awaits(s, r) => s[1].op = Key(r) \/ Awaits(Tail(s), r)
           /\ CallsFit(<<s[Len(s)]>>, r)
<1>1. /\ IsSeq(Tail(s)) /\ Len(s) \in Nat \ {0} /\ Head(s) = s[1]
      /\ Len(Tail(s)) = Len(s) - 1
      /\ \A i \in 1 .. Len(s) - 1 : Tail(s)[i] = s[i + 1]
    BY SeqTail DEF CallsFit
<1>2. \A i \in 1 .. Len(s) - 1 : i + 1 \in 1 .. Len(s)
    BY <1>1
<1>3. CallsFit(Tail(s), r)
    BY <1>1, <1>2 DEF CallsFit
<1>4. ASSUME NEW i \in 1 .. Len(s), s[i].op = Key(r), s[1].op # Key(r)
      PROVE  Awaits(Tail(s), r)
    <2>1. i # 1
        BY <1>4
    <2>2. i - 1 \in 1 .. Len(Tail(s)) /\ Tail(s)[i - 1] = s[i]
        BY <1>1, <2>1
    <2> QED
        BY <1>4, <2>2 DEF Awaits
<1>5. CallsFit(<<s[Len(s)]>>, r)
    <2>1. CallFits(s[Len(s)], r)
        BY <1>1 DEF CallsFit
    <2>2. IsSeq(<<s[Len(s)]>>) /\ Len(<<s[Len(s)]>>) = 1 /\ <<s[Len(s)]>>[1] = s[Len(s)]
        BY SeqPair
    <2> QED
        BY <2>1, <2>2 DEF CallsFit
<1>6. CallFits(s[1], r)
    BY <1>1 DEF CallsFit
<1> QED
    BY <1>1, <1>3, <1>4, <1>5, <1>6 DEF Awaits

LEMMA NothingLeft ==
    ASSUME NEW r
    PROVE  /\ CallsFit(<< >>, r) /\ CommandsFit(<< >>, r)
           /\ \A s, b, c : Working(<< >>, s, r, b, c)
BY SeqEmpty DEF CallsFit, CommandsFit, Working

LEMMA CallFailsWorks ==
    ASSUME CallsFit(steps, request), OnTheWay(request, steps, outcome, box), steps # << >>, IsServed, CallFails
    PROVE  CallPart(steps', todo', outcome', request, box, client')
<1> DEFINE fails == steps[1].fails
<1>1. Head(steps) = steps[1] /\ CallFits(steps[1], request)
    BY TailFits
<1>2. CallEnds(RestAfter(fails), Failed(fails))
    BY <1>1 DEF CallFails
<1>3. steps' = RestAfter(fails) /\ todo' = << >>
    BY <1>2 DEF CallEnds
<1>4. CallsFit(steps', request)
    <2>1. CASE fails = "next"
        BY <1>3, <2>1, TailFits DEF RestAfter
    <2>2. CASE fails = "logout"
        BY <1>3, <2>2, TailFits DEF RestAfter
    <2>3. CASE fails = "end"
        BY <1>3, <2>3, NothingLeft DEF RestAfter
    <2> QED
        BY <1>1, <2>1, <2>2, <2>3 DEF CallFits
<1>5. OnTheWay(request, steps', outcome', box)
    <2>1. CASE fails = "next"
        <3>1. outcome' = IF steps' # << >> THEN outcome ELSE IF outcome = "failing" THEN "failed" ELSE "done"
            BY <1>2, <1>3, <2>1 DEF CallEnds, Failed
        <3>2. steps[1].op # Key(request)
            BY <1>1, <2>1 DEF CallFits
        <3>3. Awaits(steps, request) => Awaits(steps', request)
            BY <1>3, <2>1, <3>2, TailFits DEF RestAfter
        <3>4. \/ outcome' \notin {"running", "done"}
              \/ outcome \in {"running", "done"}
              \/ steps' = << >> /\ outcome # "failing"
            BY <3>1
        <3> QED
            BY <3>1, <3>3, <3>4 DEF OnTheWay, IsServed
    <2>2. CASE fails # "next"
        BY <1>2, <2>2 DEF CallEnds, Failed, OnTheWay
    <2> QED
        BY <2>1, <2>2
<1> QED
    BY <1>3, <1>4, <1>5, NothingLeft DEF CallPart

LEMMA CallSucceedsWorks ==
    ASSUME CallsFit(steps, request), OnTheWay(request, steps, outcome, box), steps # << >>, IsServed, CallSucceeds,
           steps[1].op = Key(request) => Reached(request, box)
    PROVE  CallPart(steps', todo', outcome', request, box, client')
<1>1. /\ steps' = Tail(steps) /\ todo' = << >>
      /\ outcome' = IF steps' # << >> THEN outcome ELSE IF outcome = "failing" THEN "failed" ELSE "done"
    BY DEF CallSucceeds, CallEnds
<1>2. CallsFit(steps', request) /\ (Awaits(steps, request) => Reached(request, box) \/ Awaits(steps', request))
    BY <1>1, TailFits
<1>3. OnTheWay(request, steps', outcome', box)
    BY <1>1, <1>2 DEF OnTheWay, IsServed
<1> QED
    BY <1>1, <1>2, <1>3, NothingLeft DEF CallPart

\* A call ends or goes on with its next command, and what the command was for
\* has been done.
LEMMA ProceedWorks ==
    ASSUME CallPart(steps, todo, outcome, request, box, client), IsSeq(todo), todo # << >>,
           IsServed, Proceed,
           todo[1].do = "DELETE" => todo[1].at \notin box.folders,
           Len(todo) = 1 /\ steps[1].op = Key(request) => Reached(request, box)
    PROVE  CallPart(steps', todo', outcome', request, box, client)
<1>1. steps # << >> /\ CallsFit(steps, request) /\ OnTheWay(request, steps, outcome, box)
    BY DEF CallPart, Working
<1>2. /\ IsSeq(Tail(todo)) /\ Len(todo) \in Nat \ {0}
      /\ Len(Tail(todo)) = Len(todo) - 1
      /\ \A i \in 1 .. Len(todo) - 1 : Tail(todo)[i] = todo[i + 1]
    BY SeqTail
<1>3. CASE ~(Len(todo) > 1)
    <2>1. CallSucceeds /\ Len(todo) = 1
        BY <1>2, <1>3 DEF Proceed
    <2>2. CallPart(steps', todo', outcome', request, box, client')
        BY <1>1, <2>1, CallSucceedsWorks
    <2>3. todo' = << >>
        BY <2>1 DEF CallSucceeds, CallEnds
    <2> QED
        BY <2>2, <2>3, NothingLeft DEF CallPart
<1>4. CASE Len(todo) > 1
    <2> DEFINE t == Tail(todo)
    <2>1. todo' = t /\ steps' = steps /\ outcome' = outcome
        BY <1>4 DEF Proceed
    <2>2. /\ Len(t) \in Nat \ {0} /\ LastOf(t) = LastOf(todo)
          /\ \A i \in 1 .. Len(t) : i + 1 \in 1 .. Len(todo) /\ t[i] = todo[i + 1]
        BY <1>2, <1>4 DEF LastOf
    <2> HIDE DEF t
    <2>3. CommandsFit(t, request)
        <3>1. CommandsFit(todo, request)
            BY DEF CallPart
        <3>2. ASSUME NEW i \in 1 .. Len(t)
              PROVE  /\ KindFits(t[i].do, request)
                     /\ t[i].do = "FOLDERS" => t[i].at = Root
                     /\ t[i].do \in {"PLAN", "EACH"} => i = Len(t)
            <4>1. i + 1 \in 1 .. Len(todo) /\ t[i] = todo[i + 1] /\ Len(t) = Len(todo) - 1
                BY <1>2, <2>2 DEF t
            <4>2. /\ KindFits(todo[i + 1].do, request)
                  /\ todo[i + 1].do = "FOLDERS" => todo[i + 1].at = Root
                  /\ todo[i + 1].do \in {"PLAN", "EACH"} => i + 1 = Len(todo)
                BY <3>1, <4>1 DEF CommandsFit
            <4>3. t[i].do \in {"PLAN", "EACH"} => i = Len(t)
                <5>1. CASE t[i].do \in {"PLAN", "EACH"}
                    <6>1. todo[i + 1].do \in {"PLAN", "EACH"}
                        BY <4>1, <5>1
                    <6>2. i + 1 = Len(todo)
                        BY <4>2, <6>1
                    <6>3. Len(t) = Len(todo) - 1 /\ Len(todo) \in Nat /\ i \in Nat
                        BY <1>2, <4>1
                    <6>4. i = Len(t)
                        BY <6>2, <6>3
                    <6> QED
                        BY <6>4
                <5> QED
                    BY <5>1
            <4> QED
                BY <4>1, <4>2, <4>3
        <3> QED
            BY <3>2 DEF CommandsFit
    <2>4. Working(t, steps, request, box, client)
        <3>1. steps[1].op = Key(request) => WorkFits(todo, request, box, client)
            BY DEF CallPart, Working
        <3>2. ASSUME NEW x \in Deletes(todo), x \in box.folders
              PROVE  x \in Deletes(t)
            <4>1. PICK j \in 1 .. Len(todo) : todo[j].do = "DELETE" /\ todo[j].at = x
                BY DEF Deletes
            <4>2. j # 1
                BY <3>2, <4>1
            <4>3. j - 1 \in 1 .. Len(t) /\ t[j - 1] = todo[j]
                BY <1>2, <4>2 DEF t
            <4> QED
                BY <4>1, <4>3 DEF Deletes
        <3>3. RemovalFits(todo, box, client) => RemovalFits(t, box, client)
            BY <2>2, <3>2 DEF RemovalFits
        <3>4. WorkFits(todo, request, box, client) => WorkFits(t, request, box, client)
            BY <2>2, <3>3 DEF WorkFits
        <3> QED
            BY <1>1, <3>1, <3>4 DEF Working
    <2> QED
        BY <1>1, <2>1, <2>3, <2>4 DEF CallPart
<1> QED
    BY <1>3, <1>4

\* The command that does what the request is for is none whose failure is
\* overlooked.
LEMMA LastOfKey ==
    ASSUME CallPart(steps, todo, outcome, request, box, client), todo # << >>, Len(todo) = 1,
           steps[1].op = Key(request)
    PROVE  \/ Reached(request, box)
           \/ request = "create" /\ todo[1].do = "CREATE" /\ todo[1].at = Root
           \/ request \in {"quotaOnly", "update", "check"} /\ todo[1].do = "SETQUOTA"
           \/ request = "remove" /\ RemovalFits(todo, box, client)
<1>1. WorkFits(todo, request, box, client) /\ LastOf(todo) = todo[1]
    BY DEF CallPart, Working, LastOf
<1> QED
    BY <1>1 DEF WorkFits, Reached

LEMMA NeutralWorks ==
    ASSUME CallPart(steps, todo, outcome, request, box, client), IsSeq(todo), todo # << >>,
           IsServed, Proceed,
           todo[1].do \notin {"CREATE", "SETQUOTA", "FOLDERS", "PLAN", "EACH", "DELETE"}
    PROVE  CallPart(steps', todo', outcome', request, box, client)
<1>1. ASSUME Len(todo) = 1, steps[1].op = Key(request)
      PROVE  Reached(request, box)
    <2>1. LastOf(todo) = todo[1]
        BY <1>1 DEF LastOf
    <2> QED
        BY <1>1, <2>1, LastOfKey DEF RemovalFits
<1> QED
    BY <1>1, ProceedWorks

LEMMA CommandFailsWorks ==
    ASSUME CallPart(steps, todo, outcome, request, box, client), IsSeq(todo), todo # << >>,
           IsServed, NEW c, CommandFails(todo[1].do, c)
    PROVE  CallPart(steps', todo', outcome', request, box, client)
<1>1. CASE IsOverlooked(todo[1].do)
    <2>1. Proceed
        BY <1>1 DEF CommandFails
    <2> QED
        BY <1>1, <2>1, NeutralWorks DEF IsOverlooked
<1>2. CASE ~IsOverlooked(todo[1].do)
    <2>1. CallFails
        BY <1>2 DEF CommandFails
    <2>2. todo' = << >>
        BY <2>1 DEF CallFails, CallEnds
    <2>3. CallPart(steps', todo', outcome', request, box, client')
        BY <2>1, CallFailsWorks DEF CallPart, Working
    <2> QED
        BY <2>2, <2>3, NothingLeft DEF CallPart
<1> QED
    BY <1>1, <1>2

-----------------------------------------------------------------------------
(* What stays as it is *)

\* The client goes on without seeing, if it was blind, and knows no other quota.
Keeps(c, d) ==
    /\ d.namespaces = c.namespaces /\ d.delimiter = c.delimiter
    /\ d.quota \in {c.quota, 0}

LEMMA KeepsItself ==
    ASSUME NEW c, IsClient(c)
    PROVE  /\ Keeps(c, c)
           /\ \A x : Keeps(c, [c EXCEPT !.sock = x])
           /\ \A x : Keeps(c, [c EXCEPT !.took = x])
           /\ Keeps(c, [c EXCEPT !.sock = FALSE, !.loggedIn = FALSE])
           /\ Keeps(c, [c EXCEPT !.loggedIn = FALSE, !.tag = 0])
           /\ Keeps(c, Disconnected(c)) /\ Keeps(c, DisconnectedOnError(c))
           /\ \A x, y : Keeps(c, [c EXCEPT !.number = x, !.tag = y])
           /\ Keeps(c, [c EXCEPT !.quota = 0])
<1>1. /\ "namespaces" \in DOMAIN c /\ "delimiter" \in DOMAIN c /\ "quota" \in DOMAIN c
      /\ "sock" \in DOMAIN c /\ "loggedIn" \in DOMAIN c /\ "tag" \in DOMAIN c
    BY DEF IsClient, ClientFields
<1> QED
    BY <1>1 DEF Keeps, Disconnected, DisconnectedOnError

LEMMA KeepsTransitive ==
    ASSUME NEW c, NEW d, NEW e, Keeps(c, d), Keeps(d, e)
    PROVE  Keeps(c, e)
BY DEF Keeps

LEMMA CommandFailsKeeps ==
    ASSUME NEW c, IsClient(c), NEW do, CommandFails(do, c)
    PROVE  Keeps(c, client')
BY KeepsItself DEF CommandFails

LEMMA StaysBlind ==
    ASSUME NEW c, NEW d, NEW s, NEW t, NEW o, NEW r, NEW b,
           r # "remove" \/ (Blind(c) => Blind(d)), CallPart(s, t, o, r, b, c)
    PROVE  CallPart(s, t, o, r, b, d)
<1>1. Working(t, s, r, b, c) => Working(t, s, r, b, d)
    BY DEF Working, WorkFits, RemovalFits
<1> QED
    BY <1>1 DEF CallPart

LEMMA KeepsFits ==
    ASSUME NEW c, NEW d, Keeps(c, d), NEW b, NEW r, KnownFits(c, b, r)
    PROVE  /\ KnownFits(d, b, r)
           /\ Blind(c) => Blind(d)
BY DEF KnownFits, Keeps, Blind

\* Nothing is waited for after the step, and the server has done nothing.
LEMMA WaitOver ==
    ASSUME DoneInv, request' = request, box' = box, waiting' = Idle, KnownFits(client', box, request),
           NetFits(conn', request, box), CallPart(steps', todo', outcome', request, box, client')
    PROVE  DoneInv'
BY DEF DoneInv, CallPart

LEMMA SilentNet ==
    ASSUME NEW n, Silent(n)
    PROVE  \A r, b : NetFits(n, r, b)
<1>1. 1 .. Len(n.commands) = {} /\ 1 .. Len(n.lines) = {}
    BY SeqEmpty DEF Silent
<1> QED
    BY <1>1 DEF NetFits

-----------------------------------------------------------------------------
(* Calls and their commands *)

\* A series of commands with nothing in it that begins another
Plain(t, r) ==
    IsSeq(t) /\ CommandsFit(t, r) /\ \A i \in 1 .. Len(t) : t[i].do \notin {"PLAN", "EACH"}

LEMMA PlainEmpty == \A r : Plain(<< >>, r)
BY SeqEmpty, NothingLeft DEF Plain

LEMMA AppendFits ==
    ASSUME NEW t, NEW r, Plain(t, r), NEW do, NEW at, KindFits(do, r), do = "FOLDERS" => at = Root
    PROVE  /\ CommandsFit(Append(t, Todo(do, at)), r)
           /\ do \notin {"PLAN", "EACH"} => Plain(Append(t, Todo(do, at)), r)
           /\ LastOf(Append(t, Todo(do, at))) = Todo(do, at)
           /\ do = "DELETE" => at \in Deletes(Append(t, Todo(do, at)))
           /\ Deletes(t) \subseteq Deletes(Append(t, Todo(do, at)))
           /\ Append(t, Todo(do, at)) # << >>
<1> DEFINE e == Todo(do, at)
           q == Append(t, e)
<1>1. e.do = do /\ e.at = at
    BY DEF Todo
<1> HIDE DEF e
<1>2. /\ IsSeq(q) /\ Len(q) = Len(t) + 1 /\ Len(t) \in Nat
      /\ \A i \in 1 .. Len(t) : q[i] = t[i]
      /\ q[Len(t) + 1] = e
    <2>1. IsSeq(t)
        BY DEF Plain
    <2>2. Len(t) \in Nat
        BY <2>1 DEF IsSeq
    <2> QED
        BY <2>1, <2>2, SeqAppend
<1> HIDE DEF q
<1>3. \A i \in 1 .. Len(q) : i \in 1 .. Len(t) \/ i = Len(q)
    BY <1>2
<1>4. \A i \in 1 .. Len(t) :
        /\ KindFits(t[i].do, r)
        /\ t[i].do = "FOLDERS" => t[i].at = Root
        /\ t[i].do \notin {"PLAN", "EACH"}
    BY DEF Plain, CommandsFit
<1>5. CommandsFit(q, r)
    <2>1. ASSUME NEW i \in 1 .. Len(q)
          PROVE  /\ KindFits(q[i].do, r)
                 /\ q[i].do = "FOLDERS" => q[i].at = Root
                 /\ q[i].do \in {"PLAN", "EACH"} => i = Len(q)
        <3>1. CASE i \in 1 .. Len(t)
            <4>1. q[i] = t[i]
                BY <1>2, <3>1
            <4> QED
                BY <1>4, <3>1, <4>1
        <3>2. CASE i = Len(q)
            <4>1. q[i] = e
                BY <1>2, <3>2
            <4> QED
                BY <1>1, <3>2, <4>1
        <3> QED
            BY <1>3, <3>1, <3>2
    <2> QED
        BY <2>1 DEF CommandsFit
<1>6. do \notin {"PLAN", "EACH"} => Plain(q, r)
    BY <1>1, <1>2, <1>3, <1>4, <1>5 DEF Plain
<1>7. LastOf(q) = e
    BY <1>2 DEF LastOf
<1>8. do = "DELETE" => at \in Deletes(q)
    <2>1. Len(t) + 1 \in 1 .. Len(q)
        BY <1>2
    <2> QED
        BY <1>1, <1>2, <2>1 DEF Deletes
<1>9. Deletes(t) \subseteq Deletes(q)
    <2>1. \A i \in 1 .. Len(t) : i \in 1 .. Len(q) /\ q[i] = t[i]
        BY <1>2
    <2> QED
        BY <2>1 DEF Deletes
<1>10. q # << >>
    BY <1>2, SeqEmpty
<1> QED
    BY <1>5, <1>6, <1>7, <1>8, <1>9, <1>10 DEF q, e

LEMMA LookupPlain == \A r : Plain(Lookup, r)
<1> TAKE r
<1>1. KindFits("NAMESPACE", r) /\ KindFits("DELIMITER", r)
    BY DEF KindFits
<1>2. Lookup = Append(Append(Append(<< >>, Todo("NAMESPACE", Root)), Todo("NAMESPACE", Root)), Todo("DELIMITER", Root))
    BY DEF Lookup
<1>3. Plain(Append(<< >>, Todo("NAMESPACE", Root)), r)
    BY <1>1, AppendFits, PlainEmpty
<1>4. Plain(Append(Append(<< >>, Todo("NAMESPACE", Root)), Todo("NAMESPACE", Root)), r)
    BY <1>1, <1>3, AppendFits
<1> QED
    BY <1>1, <1>2, <1>4, AppendFits

LEMMA LoginFits == \A r : CommandsFit(LoginCommands, r)
<1> TAKE r
<1> DEFINE q == LoginCommands
<1>1. Len(q) = 5
    BY DEF LoginCommands
<1>2. /\ q[1].do = "CAPABILITY" /\ q[2].do = "AUTHENTICATE" /\ q[3].do = "CAPABILITY"
      /\ q[4].do = "ID" /\ q[5].do = "NAMESPACE"
    BY DEF LoginCommands, Todo
<1> HIDE DEF q
<1>3. \A i \in 1 .. Len(q) : q[i].do \in {"CAPABILITY", "AUTHENTICATE", "ID", "NAMESPACE"}
    BY <1>1, <1>2
<1>4. CommandsFit(q, r)
    BY <1>3 DEF CommandsFit, KindFits
<1> QED
    BY <1>4 DEF q

\* What DoneInv says of calls
LEMMA CallsNow ==
    ASSUME SessionInv, DoneInv
    PROVE  /\ CallPart(steps, todo, outcome, request, box, client)
           /\ IsSeq(todo) /\ IsClient(client) /\ IsConn(conn)
           /\ KnownFits(client, box, request) /\ NetFits(conn, request, box)
           /\ todo # << >> => steps # << >> /\ Head(todo) = todo[1] /\ Len(todo) \in Nat \ {0}
           /\ steps # << >> => CallFits(steps[1], request) /\ Head(steps) = steps[1]
<1>1. CallPart(steps, todo, outcome, request, box, client)
    BY DEF DoneInv, CallPart
<1>2. IsSeq(todo)
    BY DEF SessionInv, TodoFits
<1>3. todo # << >> => steps # << >> /\ Head(todo) = todo[1] /\ Len(todo) \in Nat \ {0}
    BY <1>2, SeqTail DEF DoneInv, Working
<1>4. steps # << >> => CallFits(steps[1], request) /\ Head(steps) = steps[1]
    BY TailFits DEF DoneInv
<1> QED
    BY <1>1, <1>2, <1>3, <1>4 DEF DoneInv, SessionInv

LEMMA ConnectDone ==
    ASSUME SessionInv, DoneInv, Connect
    PROVE  DoneInv'
<1>1. /\ request' = request /\ box' = box /\ waiting' = Idle /\ IsServed
      /\ steps # << >> /\ Head(steps).op = "login"
    BY DEF Connect, IsBetween, IsWaiting
<1>2. /\ CallPart(steps, todo, outcome, request, box, client) /\ IsClient(client)
      /\ KnownFits(client, box, request) /\ steps[1].op # Key(request)
    BY <1>1, CallsNow, KeyValues
<1>3. Keeps(client, client')
    <2>1. client' \in {[client EXCEPT !.sock = TRUE], DisconnectedOnError(client)}
        BY DEF Connect
    <2>2. Keeps(client, [client EXCEPT !.sock = TRUE]) /\ Keeps(client, DisconnectedOnError(client))
        BY <1>2, KeepsItself
    <2> QED
        BY <2>1, <2>2
<1>4. NetFits(conn', request, box)
    BY NoConnectionFits, SilentNet DEF Connect
<1>5. CallPart(steps', todo', outcome', request, box, client)
    <2>1. CASE CallFails
        <3>1. todo' = << >>
            BY <2>1 DEF CallFails, CallEnds
        <3>2. CallPart(steps', todo', outcome', request, box, client')
            BY <1>1, <1>2, <2>1, CallFailsWorks DEF CallPart
        <3> QED
            BY <3>1, <3>2, NothingLeft DEF CallPart
    <2>2. CASE todo' = LoginCommands /\ UNCHANGED <<steps, outcome>>
        <3>1. Working(todo', steps', request, box, client)
            BY <1>1, <1>2, <2>2 DEF Working
        <3> QED
            BY <1>2, <2>2, <3>1, LoginFits DEF CallPart
    <2> QED
        BY <2>1, <2>2 DEF Connect
<1>6. KnownFits(client', box, request) /\ CallPart(steps', todo', outcome', request, box, client')
    BY <1>2, <1>3, <1>5, KeepsFits, StaysBlind
<1> QED
    BY <1>1, <1>4, <1>6, WaitOver

\* The command a call sends for its own sake
CommandOf(op, command) ==
    /\ command \notin {"DELETE", "PLAN", "EACH"}
    /\ command = "CREATE" => op \in {"createMailbox", "createIfMissing", "createFolder"}
    /\ op = "createMailbox" => command = "CREATE"
    /\ op \in {"setQuota", "correctQuota"} => command = "SETQUOTA"
    /\ op = "deleteMailbox" <=> command = "FOLDERS"

LEMMA StartNamedDone ==
    ASSUME SessionInv, DoneInv, NEW op, NEW command, CommandOf(op, command), StartNamed(op, command)
    PROVE  DoneInv'
<1>1. /\ request' = request /\ box' = box /\ waiting' = Idle /\ IsServed
      /\ steps # << >> /\ Head(steps).op = op /\ client' = client /\ conn' = conn
    BY DEF StartNamed, Start, IsBetween, IsWaiting
<1>2. /\ CallPart(steps, todo, outcome, request, box, client) /\ KnownFits(client, box, request)
      /\ NetFits(conn, request, box)
      /\ CallFits(steps[1], request) /\ Head(steps) = steps[1] /\ steps[1].op = op
    BY <1>1, CallsNow
<1>3. CASE IsSkipped(op) \/ IsRefused(op)
    <2>1. CallSucceeds
        BY <1>3 DEF StartNamed
    <2>2. op = Key(request) => Reached(request, box)
        <3>1. CASE op = "correctQuota" /\ client.quota = WantedBy(request)
            BY <1>2, <3>1, KeyValues DEF Reached, KnownFits, WantedBy
        <3>2. CASE op \in {"createIfMissing", "getQuota"}
            BY <3>2, KeyValues
        <3> QED
            BY <1>3, <3>1, <3>2 DEF IsSkipped, IsRefused
    <2>3. CallPart(steps', todo', outcome', request, box, client')
        BY <1>1, <1>2, <2>1, <2>2, CallSucceedsWorks DEF CallPart
    <2> QED
        BY <1>1, <1>2, <2>3, WaitOver
<1>4. CASE ~(IsSkipped(op) \/ IsRefused(op))
    <2> DEFINE at == steps[1].folder
    <2>1. todo' = Append(Lookup, Todo(command, at)) /\ steps' = steps /\ outcome' = outcome
        BY <1>2, <1>4 DEF StartNamed, Named
    <2>2. KindFits(command, request)
        BY <1>2 DEF CallFits, CommandOf, KindFits
    <2>3. command = "FOLDERS" => at = Root
        BY <1>2 DEF CallFits, CommandOf, Key
    <2>4. /\ CommandsFit(todo', request)
          /\ LastOf(todo').do = command /\ LastOf(todo').at = at
        BY <2>1, <2>2, <2>3, AppendFits, LookupPlain DEF Todo
    <2>5. op = Key(request) => WorkFits(todo', request, box, client)
        <3> SUFFICES ASSUME op = Key(request) PROVE WorkFits(todo', request, box, client)
            OBVIOUS
        <3>1. at = Root
            BY <1>2 DEF CallFits
        <3>2. request = "create" => command = "CREATE"
            BY DEF Key, CommandOf
        <3>3. request \in {"quotaOnly", "update", "check"} => command = "SETQUOTA"
            BY DEF Key, CommandOf
        <3>4. request = "remove" => command = "FOLDERS"
            BY DEF Key, CommandOf
        <3> QED
            BY <2>4, <3>1, <3>2, <3>3, <3>4 DEF WorkFits, RemovalFits
    <2>6. CallPart(steps', todo', outcome', request, box, client')
        BY <1>1, <1>2, <2>1, <2>4, <2>5 DEF CallPart, Working
    <2> QED
        BY <1>1, <1>2, <2>6, WaitOver
<1> QED
    BY <1>3, <1>4

LEMMA SetSpecialUseDone ==
    ASSUME SessionInv, DoneInv, SetSpecialUse
    PROVE  DoneInv'
<1>1. /\ request' = request /\ box' = box /\ waiting' = Idle /\ IsServed
      /\ steps # << >> /\ client' = client /\ conn' = conn /\ CallFails
    BY DEF SetSpecialUse, Start, IsBetween, IsWaiting
<1>2. CallPart(steps', todo', outcome', request, box, client')
    BY <1>1, CallsNow, CallFailsWorks DEF CallPart
<1> QED
    BY <1>1, <1>2, CallsNow, WaitOver

LEMMA StartLogoutDone ==
    ASSUME SessionInv, DoneInv, StartLogout
    PROVE  DoneInv'
<1>1. /\ request' = request /\ box' = box /\ waiting' = Idle /\ IsServed
      /\ steps # << >> /\ Head(steps).op = "logout" /\ conn' = conn
    BY DEF StartLogout, Start, IsBetween, IsWaiting
<1>2. /\ CallPart(steps, todo, outcome, request, box, client) /\ KnownFits(client, box, request)
      /\ NetFits(conn, request, box) /\ IsClient(client) /\ steps[1].op # Key(request)
    BY <1>1, CallsNow, KeyValues
<1>3. Keeps(client, client')
    BY <1>2, KeepsItself DEF StartLogout
<1>4. CallPart(steps', todo', outcome', request, box, client)
    <2>1. CASE CallSucceeds
        <3>1. todo' = << >>
            BY <2>1 DEF CallSucceeds, CallEnds
        <3>2. CallPart(steps', todo', outcome', request, box, client')
            BY <1>1, <1>2, <2>1, CallSucceedsWorks DEF CallPart
        <3> QED
            BY <3>1, <3>2, NothingLeft DEF CallPart
    <2>2. CASE todo' = <<Todo("LOGOUT", Root)>> /\ UNCHANGED <<steps, outcome>>
        <3>1. todo' = Append(<< >>, Todo("LOGOUT", Root)) /\ KindFits("LOGOUT", request)
            BY <2>2 DEF KindFits
        <3>2. CommandsFit(todo', request)
            BY <3>1, AppendFits, PlainEmpty
        <3>3. Working(todo', steps', request, box, client)
            BY <1>1, <1>2, <2>2 DEF Working
        <3> QED
            BY <1>2, <2>2, <3>2, <3>3 DEF CallPart
    <2> QED
        BY <2>1, <2>2 DEF StartLogout
<1>5. KnownFits(client', box, request) /\ CallPart(steps', todo', outcome', request, box, client')
    BY <1>2, <1>3, <1>4, KeepsFits, StaysBlind
<1> QED
    BY <1>1, <1>2, <1>5, WaitOver

-----------------------------------------------------------------------------
(* Commands *)

LEMMA SkipDone ==
    ASSUME SessionInv, DoneInv, Skip
    PROVE  DoneInv'
<1>1. /\ request' = request /\ box' = box /\ waiting' = Idle /\ IsServed /\ todo # << >>
      /\ IsNeedless(Head(todo)) /\ Proceed /\ client' = client /\ conn' = conn
    BY DEF Skip, IsWaiting
<1>2. todo[1].do \in {"ID", "NAMESPACE", "DELIMITER"}
    BY <1>1, CallsNow DEF IsNeedless
<1>3. CallPart(steps', todo', outcome', request, box, client)
    BY <1>1, <1>2, CallsNow, NeutralWorks
<1> QED
    BY <1>1, <1>3, CallsNow, WaitOver

LEMMA SendFailsDone ==
    ASSUME SessionInv, DoneInv, SendFails
    PROVE  DoneInv'
<1> DEFINE c == [client EXCEPT !.sock = FALSE]
<1>1. /\ request' = request /\ box' = box /\ waiting' = Idle /\ IsServed /\ todo # << >>
      /\ CommandFails(Head(todo).do, c) /\ conn' = conn
    BY DEF SendFails, IsWaiting
<1>2. IsClient(client) /\ Keeps(client, c) /\ IsClient(c)
    BY CallsNow, KeepsItself, DisconnectedFollows DEF Follows
<1> HIDE DEF c
<1>3. CommandFails(todo[1].do, c)
    BY <1>1, CallsNow
<1>4. Keeps(client, client')
    BY <1>2, <1>3, CommandFailsKeeps, KeepsTransitive
<1>5. CallPart(steps', todo', outcome', request, box, client)
    BY <1>1, <1>3, CallsNow, CommandFailsWorks
<1>6. KnownFits(client', box, request) /\ CallPart(steps', todo', outcome', request, box, client')
    BY <1>4, <1>5, CallsNow, KeepsFits, StaysBlind
<1> QED
    BY <1>1, <1>6, CallsNow, WaitOver

LEMMA TimeOutDone ==
    ASSUME SessionInv, DoneInv, TimeOut
    PROVE  DoneInv'
<1>1. /\ request' = request /\ box' = box /\ waiting # Idle /\ waiting' = Idle
    BY DEF TimeOut, IsWaiting
<1>2. /\ IsServed /\ todo # << >> /\ todo[1].do = waiting.do
    BY <1>1 DEF DoneInv, SessionInv, WaitFits
<1>3. PICK c \in {client, [client EXCEPT !.quota = 0]} : CommandFails(todo[1].do, c)
    BY <1>2 DEF TimeOut
<1>4. IsClient(client) /\ Keeps(client, c) /\ IsClient(c)
    <2>1. IsClient(client)
        BY CallsNow
    <2>2. /\ Keeps(client, client) /\ Keeps(client, [client EXCEPT !.quota = 0])
          /\ IsClient([client EXCEPT !.quota = 0])
        BY <2>1, KeepsItself, DisconnectedFollows DEF Follows
    <2> QED
        BY <1>3, <2>1, <2>2
<1>5. Keeps(client, client')
    BY <1>3, <1>4, CommandFailsKeeps, KeepsTransitive
<1>6. CallPart(steps', todo', outcome', request, box, client)
    BY <1>2, <1>3, CallsNow, CommandFailsWorks
<1>7. KnownFits(client', box, request) /\ CallPart(steps', todo', outcome', request, box, client')
    BY <1>5, <1>6, CallsNow, KeepsFits, StaysBlind
<1>8. NetFits(conn', request, box)
    <2>1. CASE conn' = NoConnection
        BY <2>1, NoConnectionFits, SilentNet
    <2>2. CASE conn' = [conn EXCEPT !.lines = << >>]
        <3>1. conn'.commands = conn.commands /\ conn'.lines = << >>
            BY <2>2, CallsNow DEF IsConn, ConnFields
        <3>2. 1 .. Len(conn'.lines) = {}
            BY <3>1, SeqEmpty
        <3> QED
            BY <3>1, <3>2, CallsNow DEF NetFits
    <2> QED
        BY <2>1, <2>2 DEF TimeOut
<1> QED
    BY <1>1, <1>7, <1>8, WaitOver

LEMMA LostConnectionDone ==
    ASSUME SessionInv, DoneInv, Hangup \/ Destroy
    PROVE  DoneInv'
<1>1. /\ UNCHANGED <<request, box, waiting, todo, steps, outcome>> /\ conn' = NoConnection
      /\ client' \in {client, Disconnected(client)}
    BY DEF Hangup, Destroy
<1>2. Keeps(client, client')
    BY <1>1, CallsNow, KeepsItself
<1>3. NetFits(conn', request, box)
    BY <1>1, NoConnectionFits, SilentNet
<1>4. KnownFits(client', box, request) /\ CallPart(steps', todo', outcome', request, box, client')
    BY <1>1, <1>2, CallsNow, KeepsFits, StaysBlind
<1>5. ASSUME waiting # Idle
      PROVE  IsServed' /\ SentFits(waiting', todo', client') /\ AnswerFits(waiting', conn', box', request)
    <2>1. IsServed /\ SentFits(waiting, todo, client)
        BY <1>5 DEF DoneInv
    <2>2. 1 .. Len(conn'.commands) = {} /\ 1 .. Len(conn'.lines) = {}
        BY <1>1, NoConnectionFits, SeqEmpty DEF Silent
    <2>3. AnswerFits(waiting', conn', box', request)
        BY <2>2 DEF AnswerFits
    <2>4. IsServed'
        BY <1>1, <2>1 DEF IsServed
    <2>5. SentFits(waiting', todo', client')
        BY <1>1, <1>2, <2>1 DEF SentFits, Keeps, Blind
    <2> QED
        BY <2>3, <2>4, <2>5
<1> QED
    BY <1>1, <1>3, <1>4, <1>5 DEF DoneInv, CallPart

LEMMA TargetFits ==
    ASSUME NEW t
    PROVE  /\ Target(t) \in {t.at, Wrong}
           /\ t.do = "DELETE" => Target(t) = t.at
           /\ t.do \in {"FOLDERS", "MAILBOXES"} =>
                  Target(t) = IF Blind(client) THEN Wrong ELSE t.at
BY DEF Target, Blind

LEMMA SendDone ==
    ASSUME SessionInv, DoneInv, Send, SessionInv'
    PROVE  DoneInv'
<1> DEFINE t == Head(todo)
           c == [do |-> t.do, at |-> Target(t), tag |-> GetTag, number |-> client.number + 1]
<1>1. /\ UNCHANGED <<request, box, steps, todo, outcome>> /\ IsServed /\ todo # << >>
      /\ waiting' = c /\ conn' = [conn EXCEPT !.commands = Append(@, c)]
      /\ client' = [client EXCEPT !.number = @ + 1, !.tag = GetTag]
      /\ ~IsNeedless(t) /\ IsCommand(t)
    BY DEF Send
<1>2. c.do = t.do /\ c.at = Target(t) /\ t = todo[1]
    BY <1>1, CallsNow
<1>3. c # Idle
    <2>1. "tag" \in DOMAIN c /\ "tag" \notin DOMAIN Idle
        BY DEF Idle
    <2> QED
        BY <2>1
<1> HIDE DEF c
<1>4. Keeps(client, client')
    BY <1>1, CallsNow, KeepsItself
<1>5. KnownFits(client', box, request) /\ CallPart(steps', todo', outcome', request, box, client')
    BY <1>1, <1>4, CallsNow, KeepsFits, StaysBlind
<1>6. /\ conn'.commands = Append(conn.commands, c) /\ conn'.lines = conn.lines
      /\ IsSeq(conn.commands) /\ Len(conn.commands) \in Nat
    <2>1. IsSeq(conn.commands)
        BY CallsNow DEF IsConn
    <2>2. Len(conn.commands) \in Nat
        BY <2>1 DEF IsSeq
    <2> QED
        BY <1>1, <2>1, <2>2, CallsNow DEF IsConn, ConnFields
<1>7. /\ Len(conn'.commands) = Len(conn.commands) + 1
      /\ \A i \in 1 .. Len(conn.commands) : conn'.commands[i] = conn.commands[i]
      /\ conn'.commands[Len(conn.commands) + 1] = c
    BY <1>6, SeqAppend
<1>8. \A i \in 1 .. Len(conn'.commands) : i \in 1 .. Len(conn.commands) \/ i = Len(conn.commands) + 1
    BY <1>6, <1>7
<1>9. KindFits(c.do, request)
    <2>1. 1 \in 1 .. Len(todo)
        BY <1>1, CallsNow
    <2> QED
        BY <1>2, <2>1 DEF DoneInv, CommandsFit
<1>10. NetFits(conn', request, box)
    <2>1. \A i \in 1 .. Len(conn'.commands) : KindFits(conn'.commands[i].do, request)
        BY <1>7, <1>8, <1>9, CallsNow DEF NetFits
    <2> QED
        BY <1>6, <2>1, CallsNow DEF NetFits
<1>11. SentFits(waiting', todo', client')
    <2>1. c.do = "DELIMITER" => client.delimiter = "unset"
        BY <1>1, <1>2 DEF IsNeedless
    <2>2. ASSUME c.do = "FOLDERS", c.at = Wrong
          PROVE  Blind(client)
        <3>1. todo[1].at = Root
            <4>1. 1 \in 1 .. Len(todo)
                BY <1>1, CallsNow
            <4> QED
                BY <1>2, <2>2, <4>1 DEF DoneInv, CommandsFit
        <3> QED
            BY <1>2, <2>2, <3>1, TargetFits DEF Root, Wrong
    <2>3. c.at \in {todo[1].at, Wrong} /\ (c.do = "DELETE" => c.at = todo[1].at)
        BY <1>2, TargetFits
    <2>4. IsCommand(c)
        BY <1>1, <1>2 DEF IsCommand
    <2> QED
        BY <1>1, <1>4, <2>1, <2>2, <2>3, <2>4 DEF SentFits, Keeps, Blind
<1>12. AnswerFits(waiting', conn', box', request)
    <2>1. OnlyOwn(conn', c)
        BY <1>1, <1>3 DEF SessionInv, WaitFits
    <2>2. \A i \in 1 .. Len(conn'.commands) : conn'.commands[i].tag = c.tag => conn'.commands[i] = c
        BY <1>6, <1>7, <2>1 DEF OnlyOwn
    <2>3. conn'.commands # << >>
        <3>1. Len(conn'.commands) # 0
            BY <1>6, <1>7
        <3> QED
            BY <3>1, SeqEmpty
    <2>4. \A i \in 1 .. Len(conn'.lines) : conn'.lines[i].tag # c.tag
        BY <2>1, <2>3 DEF OnlyOwn
    <2> QED
        BY <1>1, <2>2, <2>4 DEF AnswerFits
<1>13. IsServed' /\ BoxFits(box')
    BY <1>1 DEF IsServed, DoneInv
<1> QED
    BY <1>1, <1>5, <1>10, <1>11, <1>12, <1>13 DEF DoneInv, CallPart

-----------------------------------------------------------------------------
(* Deletions *)

LEMMA PlanDeletionsDone ==
    ASSUME SessionInv, DoneInv, PlanDeletions
    PROVE  DoneInv'
<1> DEFINE at == [left |-> todo[1].at, root |-> Target(Todo("MAILBOXES", Root))]
<1>1. /\ request' = request /\ box' = box /\ waiting' = Idle /\ conn' = conn /\ client' = client
      /\ steps' = steps /\ outcome' = outcome
      /\ todo # << >> /\ todo[1].do = "PLAN" /\ todo' = <<Todo("EACH", at)>>
    BY CallsNow DEF PlanDeletions, IsNext, IsWaiting
<1>2. Len(todo) = 1 /\ request = "remove"
    <2>1. 1 \in 1 .. Len(todo)
        BY <1>1, CallsNow
    <2> QED
        BY <1>1, <2>1 DEF DoneInv, CommandsFit, KindFits
<1>3. at.left = todo[1].at /\ at.root = IF Blind(client) THEN Wrong ELSE Root
    BY TargetFits DEF Todo
<1> HIDE DEF at
<1>4. KindFits("EACH", request)
    BY <1>2 DEF KindFits
<1>5. CommandsFit(todo', request) /\ LastOf(todo').do = "EACH" /\ LastOf(todo').at = at
    <2>1. todo' = Append(<< >>, Todo("EACH", at))
        BY <1>1
    <2> QED
        <3>1. Plain(<< >>, request)
            BY PlainEmpty
        <3>2. CommandsFit(todo', request) /\ LastOf(todo') = Todo("EACH", at)
            BY <1>4, <2>1, <3>1, AppendFits
        <3> QED
            BY <3>2 DEF Todo
<1>6. ASSUME steps[1].op = Key(request)
      PROVE  WorkFits(todo', request, box, client)
    <2>1. RemovalFits(todo, box, client) /\ LastOf(todo) = todo[1]
        BY <1>1, <1>2, <1>6 DEF DoneInv, Working, WorkFits, LastOf
    <2>2. box.folders \subseteq at.left \/ Blind(client)
        BY <1>1, <1>3, <2>1 DEF RemovalFits
    <2>3. RemovalFits(todo', box, client)
        BY <1>3, <1>5, <2>2 DEF RemovalFits
    <2> QED
        BY <1>2, <2>3 DEF WorkFits
<1>7. CallPart(steps', todo', outcome', request, box, client')
    BY <1>1, <1>5, <1>6, CallsNow DEF CallPart, Working
<1> QED
    BY <1>1, <1>7, CallsNow, WaitOver

LEMMA DeletionFits ==
    ASSUME NEW r, r = "remove", NEW t, NEW name
    PROVE  /\ Plain(Deletion(t, name), r)
           /\ name \in Deletes(Deletion(t, name))
           /\ LastOf(Deletion(t, name)) = Todo("DELETE", name)
           /\ Deletion(t, name) # << >>
<1>1. KindFits("SETACL", r) /\ KindFits("DELETE", r)
    BY DEF KindFits
<1>2. Plain(Named("SETACL", t), r)
    BY <1>1, LookupPlain, AppendFits DEF Named
<1> QED
    BY <1>1, <1>2, AppendFits DEF Deletion

LEMMA DeleteNextDone ==
    ASSUME SessionInv, DoneInv, DeleteNext
    PROVE  DoneInv'
<1> DEFINE left == todo[1].at.left
           root == todo[1].at.root
           name(f) == IF root = Wrong THEN Wrong ELSE f
           next(f) == [left |-> left \ {f}, root |-> root]
<1>1. /\ request' = request /\ box' = box /\ waiting' = Idle /\ conn' = conn /\ client' = client
      /\ steps' = steps /\ outcome' = outcome
      /\ todo # << >> /\ todo[1].do = "EACH"
      /\ \/ left = {} /\ todo' = Deletion(Root, root)
         \/ \E f \in left : todo' = Append(Deletion(name(f), name(f)), Todo("EACH", next(f)))
    BY CallsNow DEF DeleteNext, IsNext, IsWaiting
<1>2. Len(todo) = 1 /\ request = "remove"
    <2>1. 1 \in 1 .. Len(todo)
        BY <1>1, CallsNow
    <2> QED
        BY <1>1, <2>1 DEF DoneInv, CommandsFit, KindFits
<1>3. Deletes(todo) = {}
    BY <1>1, <1>2 DEF Deletes
<1>4. ASSUME steps[1].op = Key(request)
      PROVE  root \in {Root, Wrong} /\ (root = Wrong \/ box.folders \subseteq left)
    <2>1. RemovalFits(todo, box, client) /\ LastOf(todo) = todo[1]
        BY <1>1, <1>2, <1>4 DEF DoneInv, Working, WorkFits, LastOf
    <2> QED
        BY <1>1, <1>3, <2>1 DEF RemovalFits
<1>5. KindFits("EACH", request)
    BY <1>2 DEF KindFits
<1>6. /\ CommandsFit(todo', request)
      /\ steps[1].op = Key(request) => RemovalFits(todo', box, client)
    <2>1. CASE left = {} /\ todo' = Deletion(Root, root)
        <3>1. CommandsFit(todo', request) /\ LastOf(todo').do = "DELETE" /\ LastOf(todo').at = root
            BY <1>2, <2>1, DeletionFits DEF Plain, Todo
        <3> QED
            BY <1>4, <2>1, <3>1 DEF RemovalFits
    <2>2. ASSUME NEW f \in left, todo' = Append(Deletion(name(f), name(f)), Todo("EACH", next(f)))
          PROVE  /\ CommandsFit(todo', request)
                 /\ steps[1].op = Key(request) => RemovalFits(todo', box, client)
        <3>1. next(f).left = left \ {f} /\ next(f).root = root
            OBVIOUS
        <3> DEFINE n == name(f)
                   e == next(f)
        <3> HIDE DEF n, e
        <3>2. Plain(Deletion(n, n), request) /\ n \in Deletes(Deletion(n, n))
            BY <1>2, DeletionFits
        <3>3. /\ CommandsFit(todo', request) /\ n \in Deletes(todo')
              /\ LastOf(todo').do = "EACH" /\ LastOf(todo').at = e
            <4>1. todo' = Append(Deletion(n, n), Todo("EACH", e))
                BY <2>2 DEF n, e
            <4> QED
                BY <1>5, <3>2, <4>1, AppendFits DEF Todo
        <3>4. ASSUME steps[1].op = Key(request)
              PROVE  RemovalFits(todo', box, client)
            <4>1. e.left = left \ {f} /\ e.root = root
                BY <3>1 DEF e
            <4>2. e.root \in {Root, Wrong}
                BY <1>4, <3>4, <4>1
            <4>3. e.root = Wrong \/ box.folders \subseteq e.left \cup Deletes(todo')
                <5>1. root # Wrong => n = f
                    BY DEF n
                <5> QED
                    BY <1>4, <3>3, <3>4, <4>1, <5>1
            <4> QED
                BY <3>3, <4>2, <4>3 DEF RemovalFits
        <3> QED
            BY <3>3, <3>4
    <2> QED
        BY <1>1, <2>1, <2>2
<1>7. CallPart(steps', todo', outcome', request, box, client')
    BY <1>1, <1>2, <1>6, CallsNow DEF CallPart, Working, WorkFits
<1> QED
    BY <1>1, <1>7, CallsNow, WaitOver

-----------------------------------------------------------------------------
(* What the server does *)

\* What is reached stays, as long as no command of another kind is under way.
Advances(b, d, r) ==
    /\ r = "remove" => d.folders \subseteq b.folders /\ (~b.exists => ~d.exists)
    /\ r # "remove" /\ b.exists => d.exists
    /\ b.quota = WantedBy(r) => d.quota = WantedBy(r)

LEMMA AfterAdvances ==
    ASSUME BoxFits(box), NEW c, KindFits(c.do, request)
    PROVE  BoxFits(After(c)) /\ Advances(box, After(c), request)
<1>1. /\ DOMAIN box = BoxFields /\ box = [f \in BoxFields |-> box[f]] /\ Root \notin box.folders
    BY DEF BoxFits
<1>2. CASE c.do = "CREATE" /\ c.at = Root
    <2>1. After(c) = [box EXCEPT !.exists = TRUE]
        BY <1>2 DEF After
    <2> QED
        BY <1>1, <1>2, <2>1 DEF BoxFits, Advances, KindFits, BoxFields
<1>3. CASE c.do = "CREATE" /\ c.at # Root
    <2>1. After(c) = [box EXCEPT !.folders = box.folders \cup {c.at}]
        BY <1>3 DEF After
    <2> QED
        BY <1>1, <1>3, <2>1 DEF BoxFits, Advances, KindFits, BoxFields
<1>4. CASE c.do = "SETACL"
    <2>1. \E x : After(c) = [box EXCEPT !.rights = x]
        BY <1>4 DEF After
    <2> QED
        BY <1>1, <2>1 DEF BoxFits, Advances, BoxFields
<1>5. CASE c.do = "DELETE" /\ c.at = Root
    <2>1. \E x : After(c) = [box EXCEPT !.exists = FALSE, !.rights = x]
        BY <1>5 DEF After
    <2>2. request = "remove"
        BY <1>5 DEF KindFits
    <2> QED
        BY <1>1, <2>1, <2>2 DEF BoxFits, Advances, BoxFields
<1>6. CASE c.do = "DELETE" /\ c.at # Root
    <2>1. \E x : After(c) = [box EXCEPT !.folders = box.folders \ {c.at}, !.rights = x]
        BY <1>6 DEF After
    <2>2. request = "remove"
        BY <1>6 DEF KindFits
    <2> QED
        BY <1>1, <2>1, <2>2 DEF BoxFits, Advances, BoxFields
<1>7. CASE c.do = "SETQUOTA"
    <2>1. After(c) = [box EXCEPT !.quota = WantedBy(request)]
        BY <1>7 DEF After
    <2> QED
        BY <1>1, <2>1 DEF BoxFits, Advances, BoxFields
<1>8. CASE c.do \notin {"CREATE", "SETACL", "DELETE", "SETQUOTA"}
    <2>1. After(c) = box
        BY <1>8 DEF After
    <2> QED
        BY <2>1 DEF BoxFits, Advances
<1> QED
    BY <1>2, <1>3, <1>4, <1>5, <1>6, <1>7, <1>8

LEMMA AdvanceFits ==
    ASSUME NEW b, NEW d, NEW r, Advances(b, d, r)
    PROVE  /\ \A c : KnownFits(c, b, r) => KnownFits(c, d, r)
           /\ \A s, t, o, c : CallPart(s, t, o, r, b, c) => CallPart(s, t, o, r, d, c)
<1>1. Reached(r, b) => Reached(r, d)
    BY DEF Reached, Advances
<1>2. ASSUME r = "remove", NEW t, NEW c, RemovalFits(t, b, c)
      PROVE  RemovalFits(t, d, c)
    BY <1>2 DEF RemovalFits, Advances
<1>3. \A s, t, c : Working(t, s, r, b, c) => Working(t, s, r, d, c)
    BY <1>2 DEF Working, WorkFits
<1>4. \A s, o : OnTheWay(r, s, o, b) => OnTheWay(r, s, o, d)
    BY <1>1 DEF OnTheWay
<1> QED
    BY <1>3, <1>4 DEF CallPart, KnownFits, Advances

\* A command that was accepted has had its effect.
LEMMA AcceptedEffect ==
    ASSUME BoxFits(box), NEW c, Accepts(c), c.do # "FOLDERS", NEW n
    PROVE  Effect(c, n, After(c), request)
<1>1. /\ DOMAIN box = BoxFields /\ box = [f \in BoxFields |-> box[f]] /\ Root \notin box.folders
    BY DEF BoxFits
<1>2. CASE c.do = "CREATE"
    <2>1. c.at # Wrong
        BY <1>2 DEF Accepts, Root, Wrong
    <2>2. c.at = Root => After(c) = [box EXCEPT !.exists = TRUE]
        BY <1>2 DEF After
    <2> QED
        BY <1>1, <1>2, <2>1, <2>2 DEF Effect, BoxFields
<1>3. CASE c.do = "SETQUOTA"
    <2>1. After(c) = [box EXCEPT !.quota = WantedBy(request)]
        BY <1>3 DEF After
    <2> QED
        BY <1>1, <1>3, <2>1 DEF Effect, BoxFields
<1>4. CASE c.do = "DELETE"
    <2>1. c.at # Wrong
        BY <1>4 DEF Accepts
    <2>2. CASE c.at = Root
        <3>1. \E x : After(c) = [box EXCEPT !.exists = FALSE, !.rights = x]
            BY <1>4, <2>2 DEF After
        <3> QED
            BY <1>1, <1>4, <2>1, <2>2, <3>1 DEF Effect, BoxFields
    <2>3. CASE c.at # Root
        <3>1. \E x : After(c) = [box EXCEPT !.folders = box.folders \ {c.at}, !.rights = x]
            BY <1>4, <2>3 DEF After
        <3> QED
            BY <1>1, <1>4, <2>1, <2>3, <3>1 DEF Effect, BoxFields
    <2> QED
        BY <2>2, <2>3
<1>5. CASE c.do = "NAMESPACE"
    BY <1>5 DEF Accepts, Effect
<1>6. CASE c.do \notin {"CREATE", "SETQUOTA", "DELETE", "NAMESPACE", "FOLDERS"}
    BY <1>6 DEF Effect
<1> QED
    BY <1>2, <1>3, <1>4, <1>5, <1>6

\* The lines of an answer
LEMMA AnswerData ==
    ASSUME NEW c, NEW status,
           NEW a, a = (IF status = "OK" /\ HasData(c) THEN <<Untagged(c)>> ELSE << >>) \o <<Tagged(c, status)>>
    PROVE  /\ IsSeq(a) /\ Len(a) \in {1, 2}
           /\ a[Len(a)] = Tagged(c, status)
           /\ Len(a) = 2 => a[1] = Untagged(c)
           /\ status = "OK" /\ HasData(c) => Len(a) = 2
<1> DEFINE u == Untagged(c)
           t == Tagged(c, status)
<1> HIDE DEF u, t
<1>1. IsSeq(<<u>>) /\ IsSeq(<<t>>) /\ Len(<<u>>) = 1 /\ Len(<<t>>) = 1 /\ <<u>>[1] = u /\ <<t>>[1] = t
    BY SeqPair
<1>2. CASE status = "OK" /\ HasData(c)
    <2>1. a = <<u>> \o <<t>>
        BY <1>2 DEF u, t
    <2>2. /\ IsSeq(a) /\ Len(a) = Len(<<u>>) + Len(<<t>>)
          /\ \A i \in 1 .. Len(<<u>>) : a[i] = <<u>>[i]
          /\ \A i \in 1 .. Len(<<t>>) : a[Len(<<u>>) + i] = <<t>>[i]
        BY <1>1, <2>1, SeqConcat
    <2>3. IsSeq(a) /\ Len(a) = 2 /\ a[1] = u /\ a[2] = t
        BY <1>1, <2>2
    <2> QED
        BY <2>3 DEF u, t
<1>3. CASE ~(status = "OK" /\ HasData(c))
    <2> DEFINE none == << >>
    <2>1. a = none \o <<t>> /\ IsSeq(none) /\ Len(none) = 0
        BY <1>3, SeqEmpty DEF t
    <2> HIDE DEF none
    <2>2. /\ IsSeq(a) /\ Len(a) = Len(none) + Len(<<t>>)
          /\ \A i \in 1 .. Len(<<t>>) : a[Len(none) + i] = <<t>>[i]
        BY <1>1, <2>1, SeqConcat
    <2>3. IsSeq(a) /\ Len(a) = 1 /\ a[1] = t
        BY <1>1, <2>1, <2>2
    <2> QED
        BY <1>3, <2>3 DEF t
<1> QED
    BY <1>2, <1>3

LEMMA AnswerDone ==
    ASSUME SessionInv, DoneInv, Answer, SessionInv'
    PROVE  DoneInv'
<1> DEFINE c == Head(conn.commands)
           rest == Tail(conn.commands)
           old == conn.lines
<1>1. /\ UNCHANGED <<request, steps, todo, waiting, client, outcome>> /\ conn.commands # << >>
      /\ IsConn(conn) /\ BoxFits(box)
    BY DEF Answer, DoneInv, SessionInv
<1>2. PICK status \in {"OK", "NO"} :
          /\ status = "OK" => Accepts(c)
          /\ conn' = [conn EXCEPT !.commands = rest, !.lines = old \o
                 ((IF status = "OK" /\ HasData(c) THEN <<Untagged(c)>> ELSE << >>) \o <<Tagged(c, status)>>)]
          /\ box' = IF status = "OK" THEN After(c) ELSE box
    BY DEF Answer
<1> DEFINE a == (IF status = "OK" /\ HasData(c) THEN <<Untagged(c)>> ELSE << >>) \o <<Tagged(c, status)>>
           new == old \o a
<1>3. /\ IsSeq(a) /\ Len(a) \in {1, 2}
      /\ a[Len(a)] = Tagged(c, status)
      /\ Len(a) = 2 => a[1] = Untagged(c)
      /\ status = "OK" /\ HasData(c) => Len(a) = 2
    BY AnswerData
<1>4. conn'.commands = rest /\ conn'.lines = new
    BY <1>1, <1>2 DEF IsConn, ConnFields
<1>5. /\ IsSeq(rest) /\ Len(conn.commands) \in Nat \ {0} /\ c = conn.commands[1]
      /\ Len(rest) = Len(conn.commands) - 1
      /\ \A i \in 1 .. Len(rest) : i + 1 \in 1 .. Len(conn.commands) /\ rest[i] = conn.commands[i + 1]
    <2>1. /\ IsSeq(rest) /\ Len(conn.commands) \in Nat \ {0} /\ c = conn.commands[1]
          /\ Len(rest) = Len(conn.commands) - 1
          /\ \A i \in 1 .. Len(conn.commands) - 1 : rest[i] = conn.commands[i + 1]
        BY <1>1, SeqTail DEF IsConn
    <2> QED
        BY <2>1
<1> HIDE DEF a
<1>6. IsSeq(old) /\ Len(old) \in Nat
    <2>1. IsSeq(old)
        BY <1>1 DEF IsConn
    <2> QED
        BY <2>1 DEF IsSeq
<1>7. /\ IsSeq(new) /\ Len(new) = Len(old) + Len(a)
      /\ \A i \in 1 .. Len(old) : new[i] = old[i]
      /\ \A i \in 1 .. Len(a) : new[Len(old) + i] = a[i]
    BY <1>3, <1>6, SeqConcat
<1>8. c.tag \in Nat \ {0} /\ KindFits(c.do, request)
    <2>1. 1 \in 1 .. Len(conn.commands)
        BY <1>5
    <2> QED
        BY <1>1, <1>5, <2>1 DEF IsConn, DoneInv, NetFits
<1>9. BoxFits(box') /\ Advances(box, box', request)
    <2>1. Advances(box, box, request)
        BY DEF Advances
    <2> QED
        BY <1>1, <1>2, <1>8, <2>1, AfterAdvances
<1> HIDE DEF c, rest, old, new
<1>10. /\ KnownFits(client', box', request)
       /\ CallPart(steps', todo', outcome', request, box', client')
    BY <1>1, <1>9, CallsNow, AdvanceFits
\* A line is one there was, the data of the answer, or its status.
<1>11. ASSUME NEW i \in 1 .. Len(new)
       PROVE  \/ i \in 1 .. Len(old) /\ new[i] = old[i]
              \/ i = Len(old) + 1 /\ Len(a) = 2 /\ new[i] = Untagged(c)
              \/ i = Len(new) /\ new[i] = Tagged(c, status)
    <2>1. CASE i \in 1 .. Len(old)
        BY <1>7, <2>1
    <2>2. CASE i \notin 1 .. Len(old)
        <3>1. i - Len(old) \in 1 .. Len(a) /\ i = Len(old) + (i - Len(old))
            BY <1>3, <1>6, <1>7, <2>2
        <3>2. new[i] = a[i - Len(old)]
            BY <1>7, <3>1
        <3>3. CASE i - Len(old) = Len(a)
            BY <1>3, <1>6, <1>7, <3>2, <3>3
        <3>4. CASE i - Len(old) # Len(a)
            <4>1. i - Len(old) = 1 /\ Len(a) = 2
                BY <1>3, <3>1, <3>4
            <4> QED
                BY <1>3, <1>6, <3>1, <3>2, <4>1
        <3> QED
            BY <3>3, <3>4
    <2> QED
        BY <2>1, <2>2
<1>12. NetFits(conn', request, box')
    <2>1. \A i \in 1 .. Len(rest) : KindFits(rest[i].do, request)
        BY <1>5, CallsNow DEF NetFits
    <2>2. ASSUME NEW i \in 1 .. Len(new), new[i].do = "GETQUOTA", new[i].tag = 0
          PROVE  new[i].says # {} /\ (WantedBy(request) \in new[i].says => box'.quota = WantedBy(request))
        <3>1. CASE i \in 1 .. Len(old) /\ new[i] = old[i]
            BY <1>9, <2>2, <3>1, CallsNow DEF NetFits, Advances, old
        <3>2. CASE new[i] = Untagged(c)
            <4>1. new[i].do = c.do /\ new[i].says = DataOf(c)
                BY <3>2 DEF Untagged
            <4>2. new[i].says = {box.quota}
                BY <2>2, <4>1 DEF DataOf
            <4> QED
                BY <1>9, <4>2 DEF Advances
        <3>3. CASE new[i] = Tagged(c, status)
            BY <1>8, <2>2, <3>3 DEF Tagged
        <3> QED
            BY <1>11, <3>1, <3>2, <3>3
    <2> QED
        BY <1>4, <2>1, <2>2 DEF NetFits
<1>13. ASSUME waiting # Idle
       PROVE  IsServed' /\ SentFits(waiting', todo', client') /\ AnswerFits(waiting', conn', box', request)
    <2>1. IsServed /\ SentFits(waiting, todo, client) /\ AnswerFits(waiting, conn, box, request)
        BY <1>13 DEF DoneInv
    <2>2. IsServed' /\ SentFits(waiting', todo', client')
        BY <1>1, <2>1 DEF IsServed
    <2>3. \A i \in 1 .. Len(rest) : rest[i].tag = waiting.tag => rest[i] = waiting
        BY <1>5, <2>1 DEF AnswerFits
    <2>4. OnlyOwn(conn, waiting) /\ OnlyOwn(conn', waiting) /\ waiting.tag # 0
        BY <1>1, <1>13 DEF SessionInv, WaitFits
    <2>5. ASSUME NEW i \in 1 .. Len(new), new[i].tag = waiting.tag, new[i].says = "OK"
          PROVE  Effect(waiting, conn', box', request)
        <3>1. i = Len(new)
            BY <1>4, <2>4, <2>5 DEF OnlyOwn
        <3>2. i \notin 1 .. Len(old) /\ i = Len(old) + Len(a)
            BY <1>3, <1>6, <1>7, <3>1
        <3>3. new[i] = Tagged(c, status)
            BY <1>3, <1>7, <3>2
        <3>4. c.tag = waiting.tag /\ status = "OK"
            BY <2>5, <3>3 DEF Tagged
        <3>5. c = waiting
            <4>1. 1 \in 1 .. Len(conn.commands)
                BY <1>5
            <4> QED
                BY <1>5, <2>1, <3>4, <4>1 DEF AnswerFits
        <3>6. Accepts(c) /\ box' = After(c)
            BY <1>2, <3>4 DEF c
        <3>7. CASE c.do # "FOLDERS"
            BY <1>1, <3>5, <3>6, <3>7, AcceptedEffect
        <3>8. CASE c.do = "FOLDERS"
            <4>1. box' = box
                BY <3>6, <3>8 DEF After
            <4>2. CASE c.at = Wrong \/ box.folders = {}
                BY <3>5, <3>8, <4>1, <4>2 DEF Effect
            <4>3. CASE c.at # Wrong /\ box.folders # {}
                <5>1. DataOf(c) = box.folders /\ HasData(c)
                    BY <3>8, <4>3 DEF DataOf, HasData
                <5>2. Len(a) = 2 /\ a[1] = Untagged(c)
                    BY <1>3, <3>4, <5>1
                <5> DEFINE j == Len(old) + 1
                <5>3. j \in 1 .. Len(new) - 1 /\ new[j] = Untagged(c)
                    BY <1>6, <1>7, <5>2
                <5>4. new[j].tag = 0 /\ new[j].says = box.folders
                    BY <5>1, <5>3 DEF Untagged
                <5>5. \E k \in 1 .. Len(conn'.lines) - 1 :
                          conn'.lines[k].tag = 0 /\ box'.folders \subseteq conn'.lines[k].says
                    BY <1>4, <4>1, <5>3, <5>4
                <5> QED
                    BY <3>5, <3>8, <5>5 DEF Effect
            <4> QED
                BY <4>2, <4>3
        <3> QED
            BY <3>7, <3>8
    <2>6. AnswerFits(waiting', conn', box', request)
        BY <1>1, <1>4, <2>3, <2>5 DEF AnswerFits
    <2> QED
        BY <2>2, <2>6
<1> QED
    BY <1>1, <1>9, <1>10, <1>12, <1>13 DEF DoneInv, CallPart

-----------------------------------------------------------------------------
(* Answers *)

\* A blind client stays blind while it removes a mailbox: it never learns the names
\* of the server's mailboxes, or it never was.
LEMMA LearnFits ==
    ASSUME SessionInv, DoneInv, request # "remove" \/ NamesStay,
           waiting # Idle, StatusAt # {}, IsOk(conn.lines[FirstStatus]), Learn
    PROVE  /\ KnownFits(client', box, request)
           /\ CallPart(steps', todo', outcome', request, box, client')
<1>1. /\ IsServed /\ todo # << >> /\ todo[1].do = waiting.do
      /\ SentFits(waiting, todo, client) /\ AnswerFits(waiting, conn, box, request)
    BY DEF DoneInv, SessionInv, WaitFits
<1>2. /\ CallPart(steps, todo, outcome, request, box, client)
      /\ IsSeq(todo) /\ IsClient(client) /\ IsConn(conn) /\ KnownFits(client, box, request)
      /\ NetFits(conn, request, box)
    BY CallsNow
<1>3. /\ FirstStatus = Len(conn.lines) /\ FirstStatus \in 1 .. Len(conn.lines)
      /\ conn.lines[FirstStatus].tag = waiting.tag /\ conn.lines[FirstStatus].says = "OK"
    BY StatusIsOwn DEF IsOk
<1>4. Effect(waiting, conn, box, request)
    BY <1>1, <1>3 DEF AnswerFits
<1>5. IsClient(Taken) /\ Keeps(client, Taken)
    BY <1>2, TakenFits, KeepsItself DEF Taken
<1>6. ASSUME Keeps(client, client'), CallPart(steps', todo', outcome', request, box, client)
      PROVE  /\ KnownFits(client', box, request)
             /\ CallPart(steps', todo', outcome', request, box, client')
    BY <1>2, <1>6, KeepsFits, StaysBlind
<1>7. ASSUME waiting.do \notin {"CREATE", "SETQUOTA", "FOLDERS", "PLAN", "EACH", "DELETE"}, Proceed
      PROVE  CallPart(steps', todo', outcome', request, box, client)
    BY <1>1, <1>2, <1>7, NeutralWorks
<1>8. ASSUME CallFails
      PROVE  CallPart(steps', todo', outcome', request, box, client)
    <2>1. todo' = << >>
        BY <1>8 DEF CallFails, CallEnds
    <2>2. CallPart(steps', todo', outcome', request, box, client')
        BY <1>1, <1>2, <1>8, CallFailsWorks DEF CallPart, Working
    <2> QED
        BY <2>1, <2>2, NothingLeft DEF CallPart
<1>9. AnswerLines = SubSeq(conn.lines, 1, Len(conn.lines) - 1) /\ DOMAIN AnswerLines = 1 .. Len(conn.lines) - 1
      /\ \A i \in 1 .. Len(conn.lines) - 1 : AnswerLines[i] = conn.lines[i]
    <2>1. IsSeq(conn.lines) /\ Len(conn.lines) \in Nat \ {0}
        <3>1. IsSeq(conn.lines)
            BY <1>2 DEF IsConn
        <3>2. Len(conn.lines) \in Nat
            BY <3>1 DEF IsSeq
        <3> QED
            BY <1>3, <3>1, <3>2
    <2>2. AnswerLines = SubSeq(conn.lines, 1, Len(conn.lines) - 1)
        BY <1>3 DEF AnswerLines
    <2> QED
        BY <2>1, <2>2 DEF IsSeq
<1>10. CASE waiting.do = "CAPABILITY"
    <2>1. client' = [Taken EXCEPT !.caps = TRUE] /\ Proceed
        BY <1>10 DEF Learn, LearnCapabilities
    <2>2. Keeps(Taken, client')
        BY <1>5, <2>1 DEF Keeps, IsClient, ClientFields
    <2>3. Keeps(client, client')
        BY <1>5, <2>2, KeepsTransitive
    <2> QED
        BY <1>6, <1>7, <1>10, <2>1, <2>3
<1>11. CASE waiting.do = "AUTHENTICATE"
    <2>1. Authenticate
        BY <1>11 DEF Learn
    <2>2. CASE client' = DisconnectedOnError(Taken) /\ CallFails
        <3>1. Keeps(client, client')
            BY <1>5, <2>2, KeepsItself, KeepsTransitive
        <3> QED
            BY <1>6, <1>8, <2>2, <3>1
    <2>3. CASE client' = [Taken EXCEPT !.loggedIn = TRUE] /\ Proceed
        <3>1. Keeps(Taken, client')
            BY <1>5, <2>3 DEF Keeps, IsClient, ClientFields
        <3>2. Keeps(client, client')
            BY <1>5, <3>1, KeepsTransitive
        <3> QED
            BY <1>6, <1>7, <1>11, <2>3, <3>2
    <2> QED
        BY <2>1, <2>2, <2>3 DEF Authenticate
<1>12. CASE waiting.do = "NAMESPACE"
    <2>1. PICK x : client' = [Taken EXCEPT !.namespaces = x] /\ Proceed
        BY <1>12 DEF Learn, LearnNamespaces
    <2>2. "NAMESPACE" \in Capabilities
        BY <1>4, <1>12 DEF Effect
    <2>3. client'.delimiter = client.delimiter /\ client'.quota = client.quota
        BY <1>2, <1>5, <2>1 DEF Keeps, IsClient, ClientFields, Taken
    <2>4. KnownFits(client', box, request) /\ (request # "remove" \/ (Blind(client) => Blind(client')))
        BY <1>2, <2>2, <2>3 DEF KnownFits, Blind, NamesStay
    <2>5. CallPart(steps', todo', outcome', request, box, client)
        BY <1>7, <1>12, <2>1
    <2> QED
        BY <2>4, <2>5, StaysBlind
<1>13. CASE waiting.do = "LOGOUT"
    <2>1. client' = Disconnected(Taken) /\ Proceed
        BY <1>13 DEF Learn
    <2>2. Keeps(client, client')
        BY <1>5, <2>1, KeepsItself, KeepsTransitive
    <2> QED
        BY <1>6, <1>7, <1>13, <2>1, <2>2
<1>14. CASE waiting.do \in {"ID", "DELIMITER", "MAILBOXES", "FOLDERS", "GETQUOTA"}
    <2>1. PICK p \in Parses : IF p = "endless" THEN Loops ELSE LearnParsed(p)
        BY <1>14 DEF Learn
    <2>2. CASE p = "endless"
        <3>1. client' = Taken /\ todo' = todo /\ steps' = steps /\ outcome' = "looping"
            BY <2>1, <2>2 DEF Loops
        <3>2. OnTheWay(request, steps', outcome', box)
            BY <3>1 DEF OnTheWay
        <3>3. CallPart(steps', todo', outcome', request, box, client)
            BY <1>2, <3>1, <3>2 DEF CallPart
        <3> QED
            BY <1>5, <1>6, <3>1, <3>3
    <2>3. CASE p # "endless" /\ waiting.do = "ID"
        <3>1. client' = Taken /\ Proceed
            BY <2>1, <2>3 DEF LearnParsed, LearnId
        <3> QED
            BY <1>5, <1>6, <1>7, <2>3, <3>1
    <2>4. CASE p # "endless" /\ waiting.do = "DELIMITER"
        <3>1. LearnDelimiter(p)
            BY <2>1, <2>4 DEF LearnParsed
        <3>2. PICK x : /\ client' = [Taken EXCEPT !.delimiter = x] /\ Proceed
                       /\ x = "wrong" => p = "taken" \/ x = Taken.delimiter
            <4>1. client' = [Taken EXCEPT !.delimiter =
                      CASE p = "understood" -> "right" [] p = "taken" -> "wrong" [] OTHER -> Taken.delimiter]
                BY <3>1 DEF LearnDelimiter
            <4>2. Proceed
                BY <3>1 DEF LearnDelimiter
            <4> QED
                BY <4>1, <4>2
        <3>3. client.delimiter = "unset"
            BY <1>1, <2>4 DEF SentFits
        <3>4. p = "taken" => "taken" \in StaleParse
            BY <2>1 DEF Parses
        <3>5. client'.delimiter = x /\ client'.quota = Taken.quota
            BY <1>5, <3>2 DEF IsClient, ClientFields
        <3>6. Taken.delimiter = "unset" /\ Taken.quota = client.quota
            BY <1>2, <3>3 DEF Taken, IsClient, ClientFields
        <3>7. KnownFits(client', box, request) /\ ~Blind(client)
            BY <1>2, <3>2, <3>3, <3>4, <3>5, <3>6 DEF KnownFits, Blind
        <3>8. CallPart(steps', todo', outcome', request, box, client)
            BY <1>7, <2>4, <3>2
        <3> QED
            BY <3>7, <3>8, StaysBlind
    <2>5. CASE p # "endless" /\ waiting.do = "MAILBOXES"
        <3>1. LearnMailboxes(p)
            BY <2>1, <2>5 DEF LearnParsed
        <3>2. PICK x : client' = [Taken EXCEPT !.mboxes = x] /\ Proceed
            BY <3>1 DEF LearnMailboxes
        <3>3. Keeps(Taken, client')
            BY <1>5, <3>2 DEF Keeps, IsClient, ClientFields
        <3>4. Keeps(client, client')
            BY <1>5, <3>3, KeepsTransitive
        <3> QED
            BY <1>6, <1>7, <2>5, <3>2, <3>4
    <2>6. CASE p # "endless" /\ waiting.do = "FOLDERS"
        <3>1. LearnFolders(p) /\ client' = Taken
            BY <2>1, <2>6 DEF LearnParsed, LearnFolders
        <3>2. CASE CallFails
            BY <1>5, <1>6, <1>8, <3>1, <3>2
        <3>3. CASE p # "refused"
            <4> DEFINE at == IF p = "taken" THEN Says \cup {Wrong} ELSE Says
            <4>1. todo' = Append(Lookup, Todo("PLAN", at)) /\ steps' = steps /\ outcome' = outcome
                BY <3>1, <3>3 DEF LearnFolders
            <4>2. Says \subseteq at
                OBVIOUS
            <4> HIDE DEF at
            <4>3. box.folders \subseteq Says \/ Blind(client)
                <5>1. CASE waiting.at = Wrong
                    BY <1>1, <2>6, <5>1 DEF SentFits
                <5>2. CASE box.folders = {}
                    BY <5>2
                <5>3. ASSUME NEW j \in 1 .. Len(conn.lines) - 1,
                             conn.lines[j].tag = 0, box.folders \subseteq conn.lines[j].says
                      PROVE  box.folders \subseteq Says
                    <6>1. j \in DOMAIN AnswerLines /\ AnswerLines[j] = conn.lines[j]
                        BY <1>9
                    <6> QED
                        BY <5>3, <6>1 DEF Says
                <5> QED
                    BY <1>4, <2>6, <5>1, <5>2, <5>3 DEF Effect
            <4>4. request = "remove"
                <5>1. 1 \in 1 .. Len(todo)
                    BY <1>1, CallsNow
                <5> QED
                    BY <1>1, <2>6, <5>1 DEF DoneInv, CommandsFit, KindFits
            <4>5. KindFits("PLAN", request)
                BY <4>4 DEF KindFits
            <4>6. CommandsFit(todo', request) /\ LastOf(todo') = Todo("PLAN", at)
                BY <4>1, <4>5, LookupPlain, AppendFits
            <4>7. WorkFits(todo', request, box, client)
                BY <4>2, <4>3, <4>4, <4>6 DEF WorkFits, RemovalFits, Todo
            <4>8. CallPart(steps', todo', outcome', request, box, client)
                BY <1>1, <1>2, <4>1, <4>6, <4>7 DEF CallPart, Working
            <4> QED
                BY <1>5, <1>6, <3>1, <4>8
        <3> QED
            BY <3>1, <3>2, <3>3 DEF LearnFolders
    <2>7. CASE p # "endless" /\ waiting.do = "GETQUOTA"
        <3>1. LearnQuota(p)
            BY <2>1, <2>7 DEF LearnParsed
        <3>2. CASE p # "understood"
            <4>1. client' = [Taken EXCEPT !.quota = 0] /\ CallFails
                BY <3>1, <3>2 DEF LearnQuota
            <4>2. Keeps(client, client')
                BY <1>5, <4>1, KeepsItself, KeepsTransitive
            <4> QED
                BY <1>6, <1>8, <4>1, <4>2
        <3>3. CASE p = "understood"
            <4> DEFINE q == CHOOSE q \in AnswerLines[1].says : TRUE
            <4>1. client' = [Taken EXCEPT !.quota = q] /\ Proceed
                BY <3>1, <3>3 DEF LearnQuota
            <4>2. Understood
                <5>1. "understood" \notin StaleParse
                    BY ImapAssumption
                <5> QED
                    BY <2>1, <3>3, <5>1 DEF Parses
            <4>3. /\ AnswerLines # << >> /\ AnswerLines[1].do = "GETQUOTA" /\ AnswerLines[1].tag = 0
                BY <2>7, <4>2 DEF Understood
            <4>4. 1 \in 1 .. Len(conn.lines) - 1
                <5>1. IsSeq(conn.lines) /\ Len(conn.lines) \in Nat
                    <6>1. IsSeq(conn.lines)
                        BY <1>2 DEF IsConn
                    <6> QED
                        BY <6>1 DEF IsSeq
                <5>2. CASE Len(conn.lines) - 1 >= 1
                    BY <5>1, <5>2
                <5>3. CASE ~(Len(conn.lines) - 1 >= 1)
                    <6>1. AnswerLines = << >>
                        BY <1>9, <5>1, <5>3 DEF IsSeq
                    <6> QED
                        BY <4>3, <6>1
                <5> QED
                    BY <5>2, <5>3
            <4>5. AnswerLines[1] = conn.lines[1] /\ 1 \in 1 .. Len(conn.lines)
                BY <1>3, <1>9, <4>4
            <4>6. AnswerLines[1].says # {} /\ (WantedBy(request) \in AnswerLines[1].says => box.quota = WantedBy(request))
                BY <1>2, <4>3, <4>5 DEF NetFits
            <4>7. q = WantedBy(request) => box.quota = WantedBy(request)
                BY <4>6
            <4> HIDE DEF q
            <4>8. client'.quota = q /\ client'.delimiter = Taken.delimiter /\ client'.namespaces = Taken.namespaces
                BY <1>5, <4>1 DEF IsClient, ClientFields
            <4>9. KnownFits(client', box, request) /\ (Blind(client) => Blind(client'))
                BY <1>2, <1>5, <4>7, <4>8 DEF KnownFits, Blind, Keeps
            <4>10. CallPart(steps', todo', outcome', request, box, client)
                BY <1>7, <2>7, <4>1
            <4> QED
                BY <4>9, <4>10, StaysBlind
        <3> QED
            BY <3>2, <3>3
    <2> QED
        BY <1>14, <2>2, <2>3, <2>4, <2>5, <2>6, <2>7
<1>15. CASE waiting.do \notin {"CAPABILITY", "AUTHENTICATE", "NAMESPACE", "LOGOUT",
                               "ID", "DELIMITER", "MAILBOXES", "FOLDERS", "GETQUOTA"}
    <2>1. client' = Taken /\ Proceed
        BY <1>15 DEF Learn
    <2>2. waiting.do = "DELETE" => waiting.at = todo[1].at /\ waiting.at # Wrong
                                   /\ waiting.at \notin box.folders
        BY <1>1, <1>4 DEF SentFits, Effect
    <2>3. ASSUME Len(todo) = 1, steps[1].op = Key(request)
          PROVE  Reached(request, box)
        <3>1. LastOf(todo) = todo[1]
            BY <2>3 DEF LastOf
        <3>2. CASE request = "create" /\ todo[1].do = "CREATE" /\ todo[1].at = Root
            <4>1. waiting.at = Root
                BY <1>1, <1>4, <3>2 DEF SentFits, Effect
            <4> QED
                BY <1>1, <1>4, <3>2, <4>1 DEF Effect, Reached
        <3>3. CASE request \in {"quotaOnly", "update", "check"} /\ todo[1].do = "SETQUOTA"
            BY <1>1, <1>4, <3>3 DEF Effect, Reached
        <3>4. CASE request = "remove" /\ RemovalFits(todo, box, client)
            <4>1. todo[1].do \in {"FOLDERS", "PLAN", "EACH", "DELETE"}
                BY <3>1, <3>4 DEF RemovalFits
            <4>2. CASE todo[1].do = "DELETE"
                <5>1. todo[1].at = Root /\ box.folders = {}
                    BY <1>1, <2>2, <3>1, <3>4, <4>2 DEF RemovalFits
                <5> QED
                    BY <1>1, <1>4, <2>2, <3>4, <4>2, <5>1 DEF Effect, Reached
            <4>3. CASE todo[1].do \in {"PLAN", "EACH"}
                BY <1>1, <4>3 DEF SentFits, IsCommand
            <4> QED
                BY <1>1, <1>15, <4>1, <4>2, <4>3
        <3> QED
            BY <1>1, <1>2, <2>3, <3>2, <3>3, <3>4, LastOfKey
    <2>4. CallPart(steps', todo', outcome', request, box, client)
        BY <1>1, <1>2, <2>1, <2>2, <2>3, ProceedWorks
    <2> QED
        BY <1>5, <1>6, <2>1, <2>4
<1> QED
    BY <1>10, <1>11, <1>12, <1>13, <1>14, <1>15

LEMMA ReceiveDone ==
    ASSUME SessionInv, DoneInv, request # "remove" \/ NamesStay, Receive
    PROVE  DoneInv'
<1>1. waiting # Idle /\ StatusAt # {} /\ waiting' = Idle /\ request' = request /\ box' = box
    BY DEF Receive, IsWaiting
<1>2. IsServed /\ todo # << >> /\ todo[1].do = waiting.do /\ IsClient(client)
    BY <1>1 DEF DoneInv, SessionInv, WaitFits
<1>3. NetFits(conn', request, box)
    <2>1. conn' \in {Rest, NoConnection}
        BY DEF Receive
    <2>2. Silent(Rest) /\ Silent(NoConnection)
        BY <1>1, StatusIsOwn, NoConnectionFits
    <2>3. Silent(conn')
        BY <2>1, <2>2
    <2> QED
        BY <2>3, SilentNet
<1>4. CASE IsOk(conn.lines[FirstStatus])
    <2>1. Learn
        BY <1>4 DEF Receive
    <2> QED
        BY <1>1, <1>3, <1>4, <2>1, LearnFits, WaitOver
<1>5. CASE ~IsOk(conn.lines[FirstStatus])
    <2>1. PICK c \in {Taken, [Taken EXCEPT !.quota = 0]} : CommandFails(todo[1].do, c)
        BY <1>2, <1>5 DEF Receive
    <2>2. IsClient(Taken) /\ Keeps(client, Taken)
        BY <1>1, <1>2, TakenFits, KeepsItself DEF Taken
    <2>3. /\ Keeps(Taken, [Taken EXCEPT !.quota = 0]) /\ Keeps(Taken, Taken)
          /\ IsClient([Taken EXCEPT !.quota = 0])
        BY <2>2, KeepsItself, DisconnectedFollows DEF Follows
    <2>4. IsClient(c) /\ Keeps(client, c)
        BY <2>1, <2>2, <2>3, KeepsTransitive
    <2>5. Keeps(client, client')
        BY <2>1, <2>4, CommandFailsKeeps, KeepsTransitive
    <2>6. CallPart(steps', todo', outcome', request, box, client)
        BY <1>2, <2>1, CallsNow, CommandFailsWorks
    <2>7. KnownFits(client', box, request) /\ CallPart(steps', todo', outcome', request, box, client')
        BY <2>5, <2>6, CallsNow, KeepsFits, StaysBlind
    <2> QED
        BY <1>1, <1>3, <2>7, WaitOver
<1> QED
    BY <1>4, <1>5

-----------------------------------------------------------------------------
(* Success *)

LEMMA ConcatCalls ==
    ASSUME NEW s, NEW t, NEW r, CallsFit(s, r), CallsFit(t, r)
    PROVE  /\ CallsFit(s \o t, r)
           /\ Awaits(s, r) => Awaits(s \o t, r)
<1> DEFINE q == s \o t
<1>1. IsSeq(s) /\ IsSeq(t)
    BY DEF CallsFit
<1>2. Len(s) \in Nat /\ Len(t) \in Nat
    BY <1>1 DEF IsSeq
<1>3. /\ IsSeq(q) /\ Len(q) = Len(s) + Len(t)
      /\ \A i \in 1 .. Len(s) : q[i] = s[i]
      /\ \A i \in 1 .. Len(t) : q[Len(s) + i] = t[i]
    BY <1>1, SeqConcat
<1> HIDE DEF q
<1>4. ASSUME NEW i \in 1 .. Len(q)
      PROVE  CallFits(q[i], r)
    <2>1. CASE i \in 1 .. Len(s)
        BY <1>3, <2>1 DEF CallsFit
    <2>2. CASE i \notin 1 .. Len(s)
        <3>1. i - Len(s) \in 1 .. Len(t) /\ i = Len(s) + (i - Len(s))
            BY <1>2, <1>3, <2>2
        <3>2. q[i] = t[i - Len(s)]
            BY <1>3, <3>1
        <3> QED
            BY <3>1, <3>2 DEF CallsFit
    <2> QED
        BY <2>1, <2>2
<1>5. CallsFit(q, r)
    BY <1>3, <1>4 DEF CallsFit
<1>6. Awaits(s, r) => Awaits(q, r)
    <2>1. \A i \in 1 .. Len(s) : i \in 1 .. Len(q) /\ q[i] = s[i]
        BY <1>2, <1>3
    <2> QED
        BY <2>1 DEF Awaits
<1> QED
    BY <1>5, <1>6 DEF q

LEMMA OneCall ==
    ASSUME NEW c, NEW r, CallFits(c, r)
    PROVE  CallsFit(<<c>>, r) /\ (c.op = Key(r) => Awaits(<<c>>, r))
<1>1. IsSeq(<<c>>) /\ Len(<<c>>) = 1 /\ <<c>>[1] = c
    BY SeqPair
<1>2. 1 .. Len(<<c>>) = {1}
    BY <1>1
<1> QED
    BY <1>1, <1>2 DEF CallsFit, Awaits

LEMMA EachFolderFits ==
    ASSUME NEW op, NEW r, r \notin {"remove"}, op \notin {Key(r), "deleteMailbox"}
    PROVE  CallsFit(EachFolder(op), r)
<1>1. Folders \in Seq(Folder)
    BY ImapAssumption
<1>2. Len(Folders) \in Nat /\ DOMAIN Folders = 1 .. Len(Folders)
    BY <1>1
<1> DEFINE e == EachFolder(op)
           S == {Call(op, f, "next") : f \in Folder}
<1>3. e = [i \in 1 .. Len(Folders) |-> Call(op, Folders[i], "next")]
    BY <1>2 DEF EachFolder
<1>4. \A i \in 1 .. Len(Folders) : Folders[i] \in Folder
    BY <1>1
<1>5. e \in [1 .. Len(Folders) -> S]
    BY <1>3, <1>4
<1>6. e \in Seq(S) /\ Len(e) = Len(Folders)
    BY <1>2, <1>5, SeqDef
<1>7. \A i \in 1 .. Len(e) : e[i].op = op /\ e[i].fails = "next"
    BY <1>3, <1>6 DEF Call
<1> HIDE DEF e, S
<1>8. CallsFit(e, r)
    BY <1>6, <1>7 DEF CallsFit, CallFits, IsSeq
<1> QED
    BY <1>8 DEF e

LEMMA SomeCalls ==
    ASSUME NEW r, NEW a, NEW b, NEW c, NEW d, NEW e, NEW f,
           CallFits(a, r), CallFits(b, r), CallFits(c, r), CallFits(d, r), CallFits(e, r), CallFits(f, r)
    PROVE  /\ CallsFit(<<a, b>>, r) /\ (b.op = Key(r) => Awaits(<<a, b>>, r))
           /\ CallsFit(<<a, b, c>>, r) /\ (b.op = Key(r) => Awaits(<<a, b, c>>, r))
           /\ CallsFit(<<a, b, c, d>>, r)
           /\ CallsFit(<<a, b, c, d, e>>, r) /\ (d.op = Key(r) => Awaits(<<a, b, c, d, e>>, r))
           /\ CallsFit(<<a, b, c, d, e, f>>, r) /\ (e.op = Key(r) => Awaits(<<a, b, c, d, e, f>>, r))
<1>1. CallsFit(<<a, b>>, r) /\ (b.op = Key(r) => Awaits(<<a, b>>, r))
    <2> DEFINE q == <<a, b>>
    <2>1. q \in Seq({a, b}) /\ Len(q) = 2 /\ q[1] = a /\ q[2] = b
        OBVIOUS
    <2> HIDE DEF q
    <2>2. IsSeq(q)
        BY <2>1 DEF IsSeq
    <2>3. 1 .. Len(q) = 1 .. 2
        BY <2>1
    <2>4. \A i \in 1 .. 2 : CallFits(q[i], r)
        BY <2>1
    <2>5. b.op = Key(r) => Awaits(q, r)
        BY <2>1 DEF Awaits
    <2>6. CallsFit(q, r)
        BY <2>2, <2>3, <2>4 DEF CallsFit
    <2> QED
        BY <2>5, <2>6 DEF q
<1>2. CallsFit(<<a, b, c>>, r) /\ (b.op = Key(r) => Awaits(<<a, b, c>>, r))
    <2> DEFINE q == <<a, b, c>>
    <2>1. q \in Seq({a, b, c}) /\ Len(q) = 3 /\ q[1] = a /\ q[2] = b /\ q[3] = c
        OBVIOUS
    <2> HIDE DEF q
    <2>2. IsSeq(q)
        BY <2>1 DEF IsSeq
    <2>3. 1 .. Len(q) = 1 .. 3
        BY <2>1
    <2>4. \A i \in 1 .. 3 : CallFits(q[i], r)
        BY <2>1
    <2>5. b.op = Key(r) => Awaits(q, r)
        BY <2>1 DEF Awaits
    <2>6. CallsFit(q, r)
        BY <2>2, <2>3, <2>4 DEF CallsFit
    <2> QED
        BY <2>5, <2>6 DEF q
<1>3. CallsFit(<<a, b, c, d>>, r)
    <2> DEFINE q == <<a, b, c, d>>
    <2>1. q \in Seq({a, b, c, d}) /\ Len(q) = 4 /\ q[1] = a /\ q[2] = b /\ q[3] = c /\ q[4] = d
        OBVIOUS
    <2> HIDE DEF q
    <2>2. IsSeq(q)
        BY <2>1 DEF IsSeq
    <2>3. 1 .. Len(q) = 1 .. 4
        BY <2>1
    <2>4. \A i \in 1 .. 4 : CallFits(q[i], r)
        BY <2>1
    <2>5. CallsFit(q, r)
        BY <2>2, <2>3, <2>4 DEF CallsFit
    <2> QED
        BY <2>5 DEF q
<1>4. CallsFit(<<a, b, c, d, e>>, r) /\ (d.op = Key(r) => Awaits(<<a, b, c, d, e>>, r))
    <2> DEFINE q == <<a, b, c, d, e>>
    <2>1. q \in Seq({a, b, c, d, e}) /\ Len(q) = 5 /\ q[1] = a /\ q[2] = b /\ q[3] = c /\ q[4] = d /\ q[5] = e
        OBVIOUS
    <2> HIDE DEF q
    <2>2. IsSeq(q)
        BY <2>1 DEF IsSeq
    <2>3. 1 .. Len(q) = 1 .. 5
        BY <2>1
    <2>4. \A i \in 1 .. 5 : CallFits(q[i], r)
        BY <2>1
    <2>5. d.op = Key(r) => Awaits(q, r)
        BY <2>1 DEF Awaits
    <2>6. CallsFit(q, r)
        BY <2>2, <2>3, <2>4 DEF CallsFit
    <2> QED
        BY <2>5, <2>6 DEF q
<1>5. CallsFit(<<a, b, c, d, e, f>>, r) /\ (e.op = Key(r) => Awaits(<<a, b, c, d, e, f>>, r))
    <2> DEFINE q == <<a, b, c, d, e, f>>
    <2>1. /\ q \in Seq({a, b, c, d, e, f}) /\ Len(q) = 6
          /\ q[1] = a /\ q[2] = b /\ q[3] = c /\ q[4] = d /\ q[5] = e /\ q[6] = f
        OBVIOUS
    <2> HIDE DEF q
    <2>2. IsSeq(q)
        BY <2>1 DEF IsSeq
    <2>3. 1 .. Len(q) = 1 .. 6
        BY <2>1
    <2>4. \A i \in 1 .. 6 : CallFits(q[i], r)
        BY <2>1
    <2>5. e.op = Key(r) => Awaits(q, r)
        BY <2>1 DEF Awaits
    <2>6. CallsFit(q, r)
        BY <2>2, <2>3, <2>4 DEF CallsFit
    <2> QED
        BY <2>5, <2>6 DEF q
<1> QED
    BY <1>1, <1>2, <1>3, <1>4, <1>5

\* Every request makes the call that does what it is for.
LEMMA CallsAtFirst ==
    ASSUME NEW r \in AllRequests
    PROVE  CallsFit(Calls(r), r) /\ ((\A b : Reached(r, b)) \/ Awaits(Calls(r), r))
<1>1. CASE r = "create"
    <2> DEFINE first == <<Call("login", Root, "end"), Call("createMailbox", Root, "logout"),
                          Call("setQuota", Root, "next")>>
    <2>1. CallsFit(first, r) /\ Awaits(first, r)
        <3>1. /\ CallFits(Call("login", Root, "end"), r) /\ CallFits(Call("createMailbox", Root, "logout"), r)
              /\ CallFits(Call("setQuota", Root, "next"), r) /\ Call("createMailbox", Root, "logout").op = Key(r)
            BY <1>1 DEF CallFits, Key, Call
        <3> QED
            BY <3>1, SomeCalls
    <2>2. CallsFit(EachFolder("createFolder"), r)
        BY <1>1, EachFolderFits DEF Key
    <2>3. CallsFit(<<Logout>>, r)
        <3>1. CallFits(Logout, r)
            BY <1>1 DEF CallFits, Key, Call, Logout
        <3> QED
            BY <3>1, OneCall
    <2> HIDE DEF first
    <2>4. CallsFit(first \o EachFolder("createFolder"), r) /\ Awaits(first \o EachFolder("createFolder"), r)
        BY <2>1, <2>2, ConcatCalls
    <2>5. Calls(r) = (first \o EachFolder("createFolder")) \o <<Logout>>
        BY <1>1 DEF Calls, first
    <2> QED
        BY <2>3, <2>4, <2>5, ConcatCalls
<1>2. CASE r = "quotaOnly"
    <2>1. /\ CallFits(Call("login", Root, "logout"), r) /\ CallFits(Logout, r)
          /\ CallFits(Call("login", Root, "end"), r) /\ CallFits(Call("setQuota", Root, "logout"), r)
          /\ Call("setQuota", Root, "logout").op = Key(r)
        BY <1>2 DEF CallFits, Key, Call, Logout
    <2>2. Calls(r) = <<Call("login", Root, "logout"), Logout, Call("login", Root, "end"),
                       Call("setQuota", Root, "logout"), Logout>>
        BY <1>2 DEF Calls
    <2> QED
        BY <2>1, <2>2, SomeCalls
<1>3. CASE r = "subscribe"
    <2> DEFINE first == <<Call("login", Root, "end"), Call("subscribeFolder", Root, "next")>>
    <2>1. CallsFit(first, r)
        <3>1. /\ CallFits(Call("login", Root, "end"), r) /\ CallFits(Call("subscribeFolder", Root, "next"), r)
            BY <1>3 DEF CallFits, Key, Call
        <3> QED
            BY <3>1, SomeCalls
    <2>2. CallsFit(EachFolder("subscribeFolder"), r) /\ CallsFit(EachFolder("setSpecialUse"), r)
        BY <1>3, EachFolderFits DEF Key
    <2> HIDE DEF first
    <2>3. CallsFit(first \o EachFolder("subscribeFolder"), r)
        BY <2>1, <2>2, ConcatCalls
    <2>4. Calls(r) = (first \o EachFolder("subscribeFolder")) \o EachFolder("setSpecialUse")
        BY <1>3 DEF Calls, first
    <2>5. \A b : Reached(r, b)
        BY <1>3 DEF Reached
    <2> QED
        BY <2>2, <2>3, <2>4, <2>5, ConcatCalls
<1>4. CASE r = "remove"
    <2>1. /\ CallFits(Call("login", Root, "end"), r) /\ CallFits(Call("deleteMailbox", Root, "logout"), r)
          /\ CallFits(Logout, r) /\ Call("deleteMailbox", Root, "logout").op = Key(r)
        BY <1>4 DEF CallFits, Key, Call, Logout
    <2>2. Calls(r) = <<Call("login", Root, "end"), Call("deleteMailbox", Root, "logout"), Logout>>
        BY <1>4 DEF Calls
    <2> QED
        BY <2>1, <2>2, SomeCalls
<1>5. CASE r \in {"check", "checkUnlimited"}
    <2>1. /\ CallFits(Call("login", Root, "end"), r) /\ CallFits(Call("getMailboxes", Root, "logout"), r)
          /\ CallFits(Call("createIfMissing", Root, "logout"), r) /\ CallFits(Call("getQuota", Root, "next"), r)
          /\ CallFits(Call("correctQuota", Root, "logout"), r) /\ CallFits(Logout, r)
          /\ r = "check" => Call("correctQuota", Root, "logout").op = Key(r)
        BY <1>5 DEF CallFits, Key, Call, Logout
    <2>2. Calls(r) = <<Call("login", Root, "end"), Call("getMailboxes", Root, "logout"),
                       Call("createIfMissing", Root, "logout"), Call("getQuota", Root, "next"),
                       Call("correctQuota", Root, "logout"), Logout>>
        BY <1>5 DEF Calls
    <2>3. r = "checkUnlimited" => \A b : Reached(r, b)
        BY DEF Reached
    <2> QED
        BY <1>5, <2>1, <2>2, <2>3, SomeCalls
<1>6. CASE r = "list"
    <2>1. /\ CallFits(Call("login", Root, "next"), r) /\ CallFits(Call("getQuota", Root, "next"), r)
          /\ CallFits(Logout, r)
        BY <1>6 DEF CallFits, Key, Call, Logout
    <2>2. Calls(r) = <<Call("login", Root, "next"), Call("getQuota", Root, "next"),
                       Call("getQuota", Root, "next"), Logout>>
        BY <1>6 DEF Calls
    <2>3. \A b : Reached(r, b)
        BY <1>6 DEF Reached
    <2> QED
        BY <2>1, <2>2, <2>3, SomeCalls
<1>7. CASE r = "update"
    <2>1. /\ CallFits(Call("login", Root, "end"), r) /\ CallFits(Call("setQuota", Root, "end"), r)
          /\ Call("setQuota", Root, "end").op = Key(r)
        BY <1>7 DEF CallFits, Key, Call
    <2>2. Calls(r) = <<Call("login", Root, "end"), Call("setQuota", Root, "end")>>
        BY <1>7 DEF Calls
    <2> QED
        BY <2>1, <2>2, SomeCalls
<1> QED
    BY <1>1, <1>2, <1>3, <1>4, <1>5, <1>6, <1>7 DEF AllRequests

LEMMA DoneInit ==
    Init => DoneInv
<1> SUFFICES ASSUME Init PROVE DoneInv
    OBVIOUS
<1>1. request \in AllRequests /\ steps = Calls(request) /\ todo = << >> /\ waiting = Idle /\ outcome = "running"
    BY ImapAssumption DEF Init
<1>2. BoxFits(box)
    <2>1. box \in Boxes
        BY DEF Init
    <2>2. DOMAIN box = BoxFields /\ box = [f \in BoxFields |-> box[f]] /\ box.folders \subseteq Folder
        BY <2>1 DEF Boxes, BoxFields
    <2>3. Root \notin Folder
        BY ImapAssumption DEF Root
    <2> QED
        BY <2>2, <2>3 DEF BoxFits
<1>3. client.quota = 0 /\ client.delimiter = "unset"
    BY DEF Init, NewClient
<1>4. NetFits(conn, request, box)
    BY NoConnectionFits, SilentNet DEF Init
<1>5. CallsFit(steps, request) /\ OnTheWay(request, steps, outcome, box)
    BY <1>1, CallsAtFirst DEF OnTheWay
<1>6. KnownFits(client, box, request)
    BY <1>3 DEF KnownFits
<1>7. CommandsFit(todo, request) /\ Working(todo, steps, request, box, client)
    <2>1. todo = << >>
        BY <1>1
    <2>2. CommandsFit(<< >>, request) /\ Working(<< >>, steps, request, box, client)
        BY NothingLeft
    <2> QED
        BY <2>1, <2>2
<1>8. waiting = Idle
    BY <1>1
<1> QED
    BY <1>2, <1>4, <1>5, <1>6, <1>7, <1>8 DEF DoneInv

LEMMA DoneStep ==
    ASSUME SessionInv, DoneInv, request # "remove" \/ NamesStay,
           [Next]_vars
    PROVE  DoneInv'
<1>1. CASE Connect
    BY <1>1, ConnectDone
<1>2. CASE CreateMailbox \/ CreateFolder \/ SubscribeFolder \/ SetQuota \/ GetQuota
           \/ GetMailboxes \/ DeleteMailbox
    <2>1. \E op, command : CommandOf(op, command) /\ StartNamed(op, command)
        BY <1>2 DEF CommandOf, CreateMailbox, CreateFolder, SubscribeFolder, SetQuota, GetQuota,
                    GetMailboxes, DeleteMailbox
    <2> QED
        BY <2>1, StartNamedDone
<1>3. CASE SetSpecialUse \/ StartLogout
    BY <1>3, SetSpecialUseDone, StartLogoutDone
<1>4. CASE PlanDeletions \/ DeleteNext
    BY <1>4, PlanDeletionsDone, DeleteNextDone
<1>5. CASE Skip \/ SendFails \/ Receive \/ TimeOut
    BY <1>5, SkipDone, SendFailsDone, ReceiveDone, TimeOutDone
<1>6. CASE Send \/ Answer
    BY <1>6, SessionStep, SendDone, AnswerDone
<1>7. CASE Hangup \/ Destroy
    BY <1>7, LostConnectionDone
<1>8. CASE UNCHANGED vars
    BY <1>8 DEF vars, DoneInv, IsServed
<1> QED
    BY <1>1, <1>2, <1>3, <1>4, <1>5, <1>6, <1>7, <1>8 DEF Next, Client

LEMMA RequestStays ==
    [Next]_vars => request' = request
BY DEF vars, Next, Client, Connect, CreateMailbox, CreateFolder, SubscribeFolder, SetQuota, GetQuota,
       GetMailboxes, DeleteMailbox, StartNamed, SetSpecialUse, StartLogout, PlanDeletions, DeleteNext,
       Skip, Send, SendFails, Receive, TimeOut, Destroy, Answer, Hangup

\* A request that is answered with success has done its work on the server, for
\* any folders and whichever answers come late or not at all.  Only a mailbox whose
\* names change while it is deleted may be left (imap.cpp:314-388,
\* account.cpp:549-700, 889-978, 1289-1303, 1464-1552).
THEOREM SuccessIsDone == Spec => []ReportedDone
<1> DEFINE Steady == request # "remove" \/ NamesStay
           Inv == SessionInv /\ (Steady => DoneInv)
<1>1. Inv /\ [Next]_vars => Inv'
    <2> SUFFICES ASSUME Inv, [Next]_vars PROVE Inv'
        OBVIOUS
    <2>1. SessionInv'
        BY SessionStep
    <2>2. request' = request
        BY RequestStays
    <2>3. Steady' => Steady
        BY <2>2 DEF NamesStay
    <2>4. Steady => DoneInv'
        BY DoneStep
    <2> QED
        BY <2>1, <2>3, <2>4
<1>2. Init => Inv
    BY SessionInit, DoneInit
<1>3. Inv => ReportedDone
    <2> SUFFICES ASSUME Inv, Steady, outcome = "done" PROVE Reached(request, box)
        BY DEF ReportedDone, Reached
    <2>1. steps = << >> /\ (Reached(request, box) \/ Awaits(steps, request))
        BY DEF DoneInv, OnTheWay
    <2> QED
        BY <2>1, SeqEmpty DEF Awaits
<1> QED
    BY <1>1, <1>2, <1>3, PTL DEF Spec

=============================================================================
