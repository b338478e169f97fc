----------------------- MODULE DomainTransactions_proofs -----------------------
(***************************************************************************)
(* Theorems about DomainTransactions.                                      *)
(*                                                                         *)
(* WholeDomains is proved for any number of threads.  It is not inductive: *)
(* what a connection has pending becomes visible at its commit, and that   *)
(* may be the BEGIN of a later request.  The inductive invariant says what *)
(* every connection has pending at every statement of every request        *)
(* (PendingFits), that what is left open by an error path is harmless, and *)
(* which locks and ids keep the threads apart.                             *)
(*                                                                         *)
(* ParentsAreTop is proved for one thread, from that invariant and from    *)
(* what a request relies on that has read the list of parents (ParentFits).*)
(***************************************************************************)
EXTENDS DomainTransactions, TLAPS

-----------------------------------------------------------------------------
(* The inductive invariant *)

\* Rows of any part of the database
IsRows(p) ==
    /\ DOMAIN p \subseteq Key
    /\ p = [k \in DOMAIN p |-> p[k]]
    /\ \A i \in DOMAIN p \cap Id : p[i] \in {NoRow} \cup DomainRow
    /\ \A k \in DOMAIN p \ Id : p[k] \in BOOLEAN

IsTable(s) == IsRows(s) /\ DOMAIN s = Key

Fields == {"open", "pending", "scan", "snapshot"}

IsConn(c) ==
    /\ DOMAIN c = Fields /\ c = [f \in Fields |-> c[f]]
    /\ c.open \in BOOLEAN /\ c.scan \in BOOLEAN
    /\ IsRows(c.pending)
    /\ c.snapshot = NoSnapshot \/ IsTable(c.snapshot)
    /\ ~c.open => c = Closed

Data ==
    /\ IsTable(db)
    /\ conn = [w \in Worker |-> conn[w]]
    /\ \A w \in Worker : IsConn(conn[w])

Types ==
    /\ Data
    /\ task \in [Worker -> Task]
    /\ nextId \in 1 .. MaxId + 1
    /\ faults \in 0 .. MaxFaults

\* Two versions of the row of one domain: parent and folders may differ.
SameShape(r, s) ==
    /\ IsRow(r) /\ IsRow(s)
    /\ r.name = s.name /\ r.idn = s.idn /\ r.ace = s.ace

\* WholeDomains of any table, and an ACE row has the name of its domain.
Whole(s) ==
    /\ \A i \in Id : IsRow(s[i]) =>
          IF s[i].idn = 0
          THEN /\ IsIdn(s[i].name) <=> s[i].ace # 0
               /\ s[i].ace # 0 => IsRow(s[s[i].ace]) /\ s[s[i].ace].idn = i
          ELSE IsDomain(s[s[i].idn]) /\ s[s[i].idn].ace = i /\ s[s[i].idn].name = s[i].name
    /\ \A n \in Name : s[n] => NameUsed(s, n)

\* Pending rows p over the table d that change no more than parents, folders
\* and rows of other tables
KeptRows(p, d) ==
    \A k \in DOMAIN p : k \notin Name /\ (k \in Id => SameShape(p[k], d[k]))

\* What Domain::create has written so far
CreatedRows(t, p, d) ==
    /\ DOMAIN p \cap Id = {t.id, t.ace} \ {0}
    /\ DOMAIN p \cap Name \subseteq {t.name}
    /\ \A i \in DOMAIN p \cap Id : d[i] = NoRow /\ IsRow(p[i]) /\ p[i].name = t.name
    /\ t.pc = "insertDomain" <=> t.id = 0
    /\ t.pc = "insertDomain" => DOMAIN p = {}
    /\ t.id # 0 => p[t.id].idn = 0 /\ p[t.id].ace = (IF t.pc = "linkAce" THEN 0 ELSE t.ace)
    /\ t.ace # 0 => t.ace # t.id /\ p[t.ace].idn = t.id
    /\ t.pc \in {"insertDomain", "insertFolders", "insertAce"} => t.ace = 0
    /\ t.pc = "insertAce" => IsIdn(t.name)
    /\ t.pc = "linkAce" => IsIdn(t.name) /\ t.ace # 0
    /\ t.pc \in {"findParent", "addRole", "commit"} => (IsIdn(t.name) <=> t.ace # 0)

\* What Domain::remove has written so far
RemovedRows(t, p, d) ==
    /\ t.pc \in {"begin", "adoptChildren", "deleteAce"} => KeptRows(p, d)
    /\ t.pc \in {"deleteDomain", "commit"} =>
          /\ \A i \in DOMAIN p \cap Id :
                \/ SameShape(p[i], d[i])
                \/ p[i] = NoRow /\ (i = t.id \/ (IsRow(d[i]) /\ d[i].idn = t.id))
          /\ \A i \in Id : IsRow(d[i]) /\ d[i].idn = t.id => i \in DOMAIN p /\ p[i] = NoRow
          /\ \A n \in DOMAIN p \cap Name : n = t.old.name
    /\ t.pc = "commit" =>
          /\ t.id \in DOMAIN p /\ p[t.id] = NoRow
          /\ t.old.name \in DOMAIN p /\ p[t.old.name] = FALSE

PendingFits(t, p, d) ==
    /\ t \in CreateTask => CreatedRows(t, p, d)
    /\ t \in RemoveTask => RemovedRows(t, p, d)
    /\ t \notin CreateTask \cup RemoveTask => KeptRows(p, d)

\* The transaction a request works in is open, and only a removal locks the
\* table.
ConnFits(t, c) ==
    /\ t.pc \notin {"idle", "begin"} => c.open
    /\ c.scan <=> t \in RemoveTask /\ t.pc \in {"deleteAce", "deleteDomain", "commit"}

\* Rows are locked by one connection.
Locks ==
    \A v, w \in Worker : v # w =>
        /\ DOMAIN conn[v].pending \cap DOMAIN conn[w].pending = {}
        /\ conn[v].scan => DOMAIN conn[w].pending \cap Id = {} /\ ~conn[w].scan

\* The ids of a creation that has not ended
NewIds(t) == IF t \in CreateTask THEN {t.id, t.ace} \ {0} ELSE {}

IsNew(i) == \E w \in Worker : i \in NewIds(task[w])

\* r is what some thread has once read as row i: if i has a row now, it is the
\* same domain.
OldRow(i, r) ==
    /\ i < nextId
    /\ ~IsNew(i)
    /\ IsRow(db[i]) => SameShape(db[i], r)

Ids ==
    /\ \A i \in Id : IsRow(db[i]) => i < nextId
    /\ \A w \in Worker : \A i \in NewIds(task[w]) : i < nextId
    /\ \A w \in Worker : task[w] \in RemoveTask =>
          OldRow(task[w].id, task[w].old) /\ task[w].old.idn = 0
    /\ \A w \in Worker : conn[w].snapshot # NoSnapshot =>
          \A i \in Id : IsRow(conn[w].snapshot[i]) => OldRow(i, conn[w].snapshot[i])

WholeInv ==
    /\ Types
    /\ Whole(db)
    /\ \A w \in Worker : PendingFits(task[w], conn[w].pending, db)
    /\ \A w \in Worker : ConnFits(task[w], conn[w])
    /\ Locks
    /\ Ids

-----------------------------------------------------------------------------
(* Rows *)

LEMMA KeysApart ==
    /\ \A i \in Id : i \in Key /\ i \notin Name /\ i # Other /\ i \in Nat /\ i # 0
    /\ \A n \in Name : n \in Key /\ n \notin Id /\ n # Other
    /\ Other \in Key /\ Other \notin Id /\ Other \notin Name
  BY DomainAssumption, KeyAssumption DEF Id, Key

LEMMA RowIsRow == \A r \in DomainRow : IsRow(r) /\ r # NoRow
  BY DEF DomainRow, NoRow, IsRow

LEMMA NoRowIsNoRow == ~IsRow(NoRow)
  BY DEF IsRow

LEMMA OverRows ==
    ASSUME NEW p, NEW q, IsRows(p), IsRows(q)
    PROVE  /\ IsRows(Over(p, q))
           /\ DOMAIN Over(p, q) = DOMAIN p \cup DOMAIN q
           /\ \A k \in DOMAIN p : Over(p, q)[k] = p[k]
           /\ \A k \in DOMAIN q \ DOMAIN p : Over(p, q)[k] = q[k]
  <1> DEFINE r == Over(p, q)
  <1>1. DOMAIN r = DOMAIN p \cup DOMAIN q
    BY DEF Over
  <1>2. /\ \A k \in DOMAIN p : r[k] = p[k]
        /\ \A k \in DOMAIN q \ DOMAIN p : r[k] = q[k]
    BY DEF Over
  <1>3. r = [k \in DOMAIN r |-> r[k]]
    BY DEF Over
  <1>4. DOMAIN r \subseteq Key
    BY <1>1 DEF IsRows
  <1>5. \A i \in DOMAIN r \cap Id : r[i] \in {NoRow} \cup DomainRow
    BY <1>1, <1>2 DEF IsRows
  <1>6. \A k \in DOMAIN r \ Id : r[k] \in BOOLEAN
    BY <1>1, <1>2 DEF IsRows
  <1> QED
    BY <1>1, <1>2, <1>3, <1>4, <1>5, <1>6 DEF IsRows

LEMMA OverTable ==
    ASSUME NEW p, NEW q, IsRows(p), IsTable(q)
    PROVE  /\ IsTable(Over(p, q))
           /\ \A k \in DOMAIN p : Over(p, q)[k] = p[k]
           /\ \A k \in Key \ DOMAIN p : Over(p, q)[k] = q[k]
  <1>1. IsRows(q) /\ DOMAIN q = Key
    BY DEF IsTable
  <1>2. DOMAIN p \subseteq Key
    BY DEF IsRows
  <1>3. /\ IsRows(Over(p, q))
        /\ DOMAIN Over(p, q) = DOMAIN p \cup DOMAIN q
        /\ \A k \in DOMAIN p : Over(p, q)[k] = p[k]
        /\ \A k \in DOMAIN q \ DOMAIN p : Over(p, q)[k] = q[k]
    BY <1>1, OverRows
  <1>4. DOMAIN Over(p, q) = Key
    BY <1>1, <1>2, <1>3
  <1> QED
    BY <1>1, <1>3, <1>4 DEF IsTable

\* The rows of one statement
LEMMA DomainRows ==
    ASSUME NEW i \in Id, NEW r \in {NoRow} \cup DomainRow
    PROVE  IsRows(Rows(i, r)) /\ DOMAIN Rows(i, r) = {i} /\ Rows(i, r)[i] = r
  <1>1. i \in Key
    BY KeysApart
  <1> QED
    BY <1>1 DEF IsRows, Rows

LEMMA OtherRows ==
    ASSUME NEW k \in Key \ Id, NEW b \in BOOLEAN
    PROVE  IsRows(Rows(k, b)) /\ DOMAIN Rows(k, b) = {k} /\ Rows(k, b)[k] = b
  <1> DEFINE R == Rows(k, b)
  <1>1. DOMAIN R = {k} /\ R[k] = b /\ R = [j \in DOMAIN R |-> R[j]]
    BY DEF Rows
  <1> HIDE DEF R
  <1>2. R[k] \in BOOLEAN
    BY <1>1
  <1>3. k \in Key \ Id
    OBVIOUS
  <1>4. DOMAIN R \subseteq Key /\ DOMAIN R \cap Id = {}
    BY <1>1, <1>3
  <1>5. \A j \in DOMAIN R \ Id : R[j] \in BOOLEAN
    BY <1>1, <1>2
  <1>6. IsRows(R)
    BY <1>1, <1>4, <1>5 DEF IsRows
  <1> QED
    BY <1>1, <1>6 DEF R

-----------------------------------------------------------------------------
(* Connections *)

LEMMA ConnFields ==
    /\ IsConn(Closed) /\ IsConn(Opened) /\ Opened.open /\ ~Closed.open
    /\ \A c \in {Closed, Opened} : ~c.scan /\ DOMAIN c.pending = {} /\ c.snapshot = NoSnapshot
  <1>1. /\ DOMAIN Closed = Fields /\ Closed = [f \in Fields |-> Closed[f]]
        /\ Closed.open = FALSE /\ Closed.pending = << >>
        /\ Closed.scan = FALSE /\ Closed.snapshot = NoSnapshot
    BY DEF Closed, Fields
  <1>2. /\ DOMAIN Opened = Fields /\ Opened = [f \in Fields |-> Opened[f]]
        /\ Opened.open = TRUE /\ Opened.pending = << >>
        /\ Opened.scan = FALSE /\ Opened.snapshot = NoSnapshot
    BY <1>1 DEF Opened, Fields
  <1>3. IsRows(<< >>) /\ DOMAIN << >> = {}
    BY DEF IsRows
  <1>4. IsConn(Closed)
    BY <1>1, <1>3 DEF IsConn
  <1>5. IsConn(Opened)
    BY <1>2, <1>3 DEF IsConn
  <1> QED
    BY <1>1, <1>2, <1>3, <1>4, <1>5

LEMMA PendingConn ==
    ASSUME NEW c, IsConn(c), c.open, NEW p, IsRows(p)
    PROVE  /\ IsConn([c EXCEPT !.pending = p])
           /\ [c EXCEPT !.pending = p].pending = p
           /\ [c EXCEPT !.pending = p].open
           /\ [c EXCEPT !.pending = p].scan = c.scan
           /\ [c EXCEPT !.pending = p].snapshot = c.snapshot
  <1> DEFINE d == [c EXCEPT !.pending = p]
  <1>1. DOMAIN c = Fields /\ c = [f \in Fields |-> c[f]]
    BY DEF IsConn
  <1>2. DOMAIN d = Fields /\ d = [f \in Fields |-> d[f]]
    BY <1>1 DEF Fields
  <1>3. d.open = c.open /\ d.pending = p /\ d.scan = c.scan /\ d.snapshot = c.snapshot
    BY <1>1 DEF Fields
  <1> HIDE DEF d
  <1>4. IsConn(d)
    BY <1>2, <1>3 DEF IsConn
  <1> QED
    BY <1>3, <1>4 DEF d

LEMMA SnapshotConn ==
    ASSUME NEW c, IsConn(c), c.open, NEW s, IsTable(s)
    PROVE  /\ IsConn([c EXCEPT !.snapshot = s])
           /\ [c EXCEPT !.snapshot = s].pending = c.pending
           /\ [c EXCEPT !.snapshot = s].open
           /\ [c EXCEPT !.snapshot = s].scan = c.scan
           /\ [c EXCEPT !.snapshot = s].snapshot = s
  <1> DEFINE d == [c EXCEPT !.snapshot = s]
  <1>1. DOMAIN c = Fields /\ c = [f \in Fields |-> c[f]]
    BY DEF IsConn
  <1>2. DOMAIN d = Fields /\ d = [f \in Fields |-> d[f]]
    BY <1>1 DEF Fields
  <1>3. d.open = c.open /\ d.pending = c.pending /\ d.scan = c.scan /\ d.snapshot = s
    BY <1>1 DEF Fields
  <1> HIDE DEF d
  <1>4. IsConn(d)
    BY <1>2, <1>3 DEF IsConn
  <1> QED
    BY <1>3, <1>4 DEF d

\* One connection is replaced.
LEMMA SetConn ==
    ASSUME Data, NEW w \in Worker, NEW c, IsConn(c), conn' = [conn EXCEPT ![w] = c], IsTable(db')
    PROVE  /\ Data'
           /\ conn'[w] = c
           /\ \A v \in Worker \ {w} : conn'[v] = conn[v]
  <1>1. conn = [v \in Worker |-> conn[v]]
    BY DEF Data
  <1>2. DOMAIN conn = Worker
    BY <1>1
  <1>3. conn'[w] = c /\ \A v \in Worker \ {w} : conn'[v] = conn[v]
    BY <1>2
  <1>4. conn' = [v \in Worker |-> conn'[v]]
    BY <1>2
  <1>5. \A v \in Worker : IsConn(conn'[v])
    BY <1>3 DEF Data
  <1> QED
    BY <1>3, <1>4, <1>5 DEF Data

LEMMA SameConn ==
    ASSUME Data, conn' = conn, IsTable(db')
    PROVE  Data'
  BY DEF Data

\* What the statements do to the database and the connections
LEMMA WriteEffect ==
    ASSUME Data, NEW w \in Worker, NEW rows, IsRows(rows), Write(w, rows)
    PROVE  /\ Data'
           /\ \A v \in Worker \ {w} : conn'[v] = conn[v]
           /\ conn'[w].open = conn[w].open
           /\ conn'[w].scan = conn[w].scan
           /\ conn'[w].snapshot = conn[w].snapshot
           /\ conn[w].open => conn'[w].pending = Over(rows, conn[w].pending) /\ db' = db
           /\ ~conn[w].open => conn' = conn /\ db' = Over(rows, db)
           /\ \A k \in DOMAIN rows, v \in Worker \ {w} :
                 k \notin DOMAIN conn[v].pending /\ (k \in Id => ~conn[v].scan)
  <1>1. \A k \in DOMAIN rows, v \in Worker \ {w} :
           k \notin DOMAIN conn[v].pending /\ (k \in Id => ~conn[v].scan)
    BY DEF Write, Locked
  <1>2. IsConn(conn[w]) /\ IsTable(db) /\ IsRows(conn[w].pending)
    BY DEF Data, IsConn
  <1>3. CASE conn[w].open
    <2> DEFINE p == Over(rows, conn[w].pending)
               c == [conn[w] EXCEPT !.pending = p]
    <2>1. conn' = [conn EXCEPT ![w] = c] /\ db' = db
      BY <1>3 DEF Write
    <2>2. IsRows(p)
      BY <1>2, OverRows
    <2>3. /\ IsConn(c) /\ c.pending = p /\ c.open
          /\ c.scan = conn[w].scan /\ c.snapshot = conn[w].snapshot
      BY <1>2, <1>3, <2>2, PendingConn
    <2> HIDE DEF c
    <2>4. Data' /\ conn'[w] = c /\ \A v \in Worker \ {w} : conn'[v] = conn[v]
      BY <1>2, <2>1, <2>3, SetConn
    <2>5. conn'[w].open = conn[w].open
      BY <1>3, <2>3, <2>4, <1>2 DEF IsConn
    <2> QED
      BY <1>1, <1>3, <2>1, <2>3, <2>4, <2>5
  <1>4. CASE ~conn[w].open
    <2>1. conn' = conn /\ db' = Over(rows, db)
      BY <1>4 DEF Write
    <2>2. IsTable(db')
      BY <1>2, <2>1, OverTable
    <2>3. Data'
      BY <2>1, <2>2, SameConn
    <2> QED
      BY <1>1, <1>4, <2>1, <2>3
  <1> QED
    BY <1>3, <1>4

\* BEGIN and COMMIT
LEMMA CommitEffect ==
    ASSUME Data, NEW w \in Worker, NEW c \in {Opened, Closed},
           db' = Current(w), conn' = [conn EXCEPT ![w] = c]
    PROVE  /\ Data'
           /\ \A v \in Worker \ {w} : conn'[v] = conn[v]
           /\ conn'[w] = c
           /\ db' = Over(conn[w].pending, db)
           /\ \A k \in DOMAIN conn[w].pending : db'[k] = conn[w].pending[k]
           /\ \A k \in Key \ DOMAIN conn[w].pending : db'[k] = db[k]
  <1>1. IsConn(conn[w]) /\ IsTable(db) /\ IsRows(conn[w].pending)
    BY DEF Data, IsConn
  <1>2. db' = Over(conn[w].pending, db)
    BY DEF Current
  <1>3. /\ IsTable(db')
        /\ \A k \in DOMAIN conn[w].pending : db'[k] = conn[w].pending[k]
        /\ \A k \in Key \ DOMAIN conn[w].pending : db'[k] = db[k]
    BY <1>1, <1>2, OverTable
  <1>4. IsConn(c)
    BY ConnFields
  <1>5. /\ Data' /\ conn'[w] = c
        /\ \A v \in Worker \ {w} : conn'[v] = conn[v]
    BY <1>3, <1>4, SetConn
  <1> QED
    BY <1>2, <1>3, <1>5

LEMMA RollbackEffect ==
    ASSUME Data, NEW w \in Worker, Rollback(w)
    PROVE  /\ Data'
           /\ \A v \in Worker \ {w} : conn'[v] = conn[v]
           /\ conn'[w] = Closed
           /\ db' = db
  <1>1. IsTable(db') /\ IsConn(Closed) /\ db' = db
    BY ConnFields DEF Data, Rollback
  <1>2. /\ Data' /\ conn'[w] = Closed
        /\ \A v \in Worker \ {w} : conn'[v] = conn[v]
    BY <1>1, SetConn DEF Rollback
  <1> QED
    BY <1>1, <1>2

LEMMA SeenEffect ==
    ASSUME Data, NEW w \in Worker, conn' = Seen(w), db' = db
    PROVE  /\ Data'
           /\ \A v \in Worker \ {w} : conn'[v] = conn[v]
           /\ conn'[w].open = conn[w].open
           /\ conn'[w].scan = conn[w].scan
           /\ conn'[w].pending = conn[w].pending
           /\ conn'[w].snapshot \in {conn[w].snapshot, db}
  <1>1. IsConn(conn[w]) /\ IsTable(db) /\ IsTable(db')
    BY DEF Data
  <1>2. CASE conn[w].open /\ conn[w].snapshot = NoSnapshot
    <2> DEFINE c == [conn[w] EXCEPT !.snapshot = db]
    <2>1. conn' = [conn EXCEPT ![w] = c]
      BY <1>2 DEF Seen
    <2>2. /\ IsConn(c) /\ c.pending = conn[w].pending /\ c.open
          /\ c.scan = conn[w].scan /\ c.snapshot = db
      BY <1>1, <1>2, SnapshotConn
    <2> HIDE DEF c
    <2>3. Data' /\ conn'[w] = c /\ \A v \in Worker \ {w} : conn'[v] = conn[v]
      BY <1>1, <2>1, <2>2, SetConn
    <2>4. conn'[w].open = conn[w].open
      BY <1>2, <1>1, <2>2, <2>3 DEF IsConn
    <2> QED
      BY <2>2, <2>3, <2>4
  <1>3. CASE ~(conn[w].open /\ conn[w].snapshot = NoSnapshot)
    <2>1. conn' = conn
      BY <1>3 DEF Seen
    <2> QED
      BY <1>1, <2>1, SameConn
  <1> QED
    BY <1>2, <1>3

\* What a thread reads and writes on
LEMMA Views ==
    ASSUME Data, NEW w \in Worker
    PROVE  /\ IsTable(View(w)) /\ IsTable(Current(w))
           /\ \A k \in DOMAIN conn[w].pending : Current(w)[k] = conn[w].pending[k]
           /\ \A k \in Key \ DOMAIN conn[w].pending : Current(w)[k] = db[k]
           /\ \A k \in Key : \/ View(w)[k] = db[k]
                             \/ conn[w].snapshot # NoSnapshot /\ View(w)[k] = conn[w].snapshot[k]
                             \/ k \in DOMAIN conn[w].pending /\ View(w)[k] = conn[w].pending[k]
  <1> DEFINE p == conn[w].pending
             s == IF conn[w].snapshot = NoSnapshot THEN db ELSE conn[w].snapshot
  <1>1. IsRows(p) /\ IsTable(db) /\ IsTable(s)
    BY DEF Data, IsConn
  <1>2. /\ IsTable(Current(w))
        /\ \A k \in DOMAIN p : Current(w)[k] = p[k]
        /\ \A k \in Key \ DOMAIN p : Current(w)[k] = db[k]
    BY <1>1, OverTable DEF Current
  <1>3. CASE ~conn[w].open
    BY <1>1, <1>2, <1>3 DEF View
  <1>4. CASE conn[w].open
    <2>1. View(w) = Over(p, s)
      BY <1>4 DEF View
    <2> HIDE DEF s
    <2>2. /\ IsTable(View(w))
          /\ \A k \in DOMAIN p : View(w)[k] = p[k]
          /\ \A k \in Key \ DOMAIN p : View(w)[k] = s[k]
      BY <1>1, <2>1, OverTable
    <2> QED
      BY <1>2, <2>2 DEF s
  <1> QED
    BY <1>3, <1>4

-----------------------------------------------------------------------------
(* Requests *)

LEMMA TaskKinds ==
    ASSUME NEW t \in Task
    PROVE  /\ t.pc = "idle" => t = Idle
           /\ t = Idle => t.pc = "idle" /\ t \notin CreateTask \cup RemoveTask /\ NewIds(t) = {}
           /\ t.pc # "idle" /\ t.op = "create" => t \in CreateTask
           /\ t.pc # "idle" /\ t.op = "update" => t \in UpdateTask
           /\ t.pc # "idle" /\ t.op = "remove" => t \in RemoveTask
           /\ t.pc # "idle" /\ t.op = "admin" => t \in AdminTask
           /\ t \in CreateTask => t.op = "create" /\ t \notin RemoveTask
           /\ t \in UpdateTask => t \notin CreateTask /\ t \notin RemoveTask
           /\ t \in AdminTask => t \notin CreateTask /\ t \notin RemoveTask
           /\ t \in RemoveTask => t.op = "remove" /\ t \notin CreateTask
           /\ t \notin CreateTask => NewIds(t) = {}
  BY DEF Task, Idle, CreateTask, UpdateTask, RemoveTask, AdminTask, NewIds

LEMMA CreateGoto ==
    ASSUME NEW t \in CreateTask,
           NEW p \in {"insertDomain", "insertFolders", "insertAce", "linkAce", "findParent",
                      "addRole", "commit"}
    PROVE  LET u == [t EXCEPT !.pc = p] IN
           /\ u \in CreateTask /\ u \in Task
           /\ u.pc = p /\ u.name = t.name /\ u.id = t.id /\ u.ace = t.ace
  BY DEF CreateTask, Task

LEMMA UpdateGoto ==
    ASSUME NEW t \in UpdateTask,
           NEW p \in {"begin", "checkParent", "updateDomain", "updateFolders", "commit"}
    PROVE  LET u == [t EXCEPT !.pc = p] IN
           /\ u \in UpdateTask /\ u \in Task /\ u.pc = p
           /\ u.id = t.id /\ u.old = t.old /\ u.parent = t.parent
  BY DEF UpdateTask, Task

LEMMA RemoveGoto ==
    ASSUME NEW t \in RemoveTask,
           NEW p \in {"begin", "adoptChildren", "deleteAce", "deleteDomain", "commit"}
    PROVE  LET u == [t EXCEPT !.pc = p] IN
           /\ u \in RemoveTask /\ u \in Task /\ u.pc = p /\ u.id = t.id /\ u.old = t.old
  BY DEF RemoveTask, Task

LEMMA AdminGoto ==
    ASSUME NEW t \in AdminTask, NEW p \in {"begin", "updateAdmin", "commit"}
    PROVE  LET u == [t EXCEPT !.pc = p] IN u \in AdminTask /\ u \in Task /\ u.pc = p
  BY DEF AdminTask, Task

\* One thread goes on.
LEMMA SetTask ==
    ASSUME task \in [Worker -> Task], NEW w \in Worker, NEW t \in Task,
           task' = [task EXCEPT ![w] = t]
    PROVE  /\ task' \in [Worker -> Task]
           /\ task'[w] = t
           /\ \A v \in Worker \ {w} : task'[v] = task[v]
  OBVIOUS

LEMMA GotoTask ==
    ASSUME task \in [Worker -> Task], NEW w \in Worker, NEW p, Goto(w, p),
           [task[w] EXCEPT !.pc = p] \in Task
    PROVE  /\ task' \in [Worker -> Task]
           /\ task'[w] = [task[w] EXCEPT !.pc = p]
           /\ \A v \in Worker \ {w} : task'[v] = task[v]
  BY DEF Goto

LEMMA FinishTask ==
    ASSUME task \in [Worker -> Task], NEW w \in Worker, Finish(w)
    PROVE  /\ task' \in [Worker -> Task]
           /\ task'[w] = Idle
           /\ \A v \in Worker \ {w} : task'[v] = task[v]
  BY DEF Finish, Task

-----------------------------------------------------------------------------
(* What is pending, for any tables *)

LEMMA ShapeTrans ==
    ASSUME NEW a, NEW b, NEW c, SameShape(a, b), SameShape(b, c)
    PROVE  SameShape(a, c)
  BY DEF SameShape

LEMMA ShapeSame == \A r : IsRow(r) => SameShape(r, r)
  BY DEF SameShape

\* The pending rows of a thread do not notice what others commit elsewhere.
LEMMA FitsElsewhere ==
    ASSUME NEW t, NEW p, NEW d, NEW e, PendingFits(t, p, d),
           \A i \in DOMAIN p \cap Id : e[i] = d[i],
           t \in RemoveTask /\ t.pc \in {"deleteDomain", "commit"} => \A i \in Id : e[i] = d[i]
    PROVE  PendingFits(t, p, e)
  <1>1. KeptRows(p, d) => KeptRows(p, e)
    BY DEF KeptRows
  <1>2. t \in CreateTask => CreatedRows(t, p, e)
    <2> SUFFICES ASSUME t \in CreateTask PROVE CreatedRows(t, p, e)
      OBVIOUS
    <2>1. CreatedRows(t, p, d)
      BY DEF PendingFits
    <2> QED
      BY <2>1 DEF CreatedRows
  <1>3. t \in RemoveTask => RemovedRows(t, p, e)
    <2> SUFFICES ASSUME t \in RemoveTask PROVE RemovedRows(t, p, e)
      OBVIOUS
    <2>1. RemovedRows(t, p, d)
      BY DEF PendingFits
    <2> QED
      BY <1>1, <2>1 DEF RemovedRows
  <1> QED
    BY <1>1, <1>2, <1>3 DEF PendingFits

\* What the rows of a table refer to
LEMMA RowFields ==
    ASSUME NEW s, IsTable(s), NEW i \in Id, IsRow(s[i])
    PROVE  /\ s[i] \in DomainRow
           /\ s[i].name \in Name
           /\ s[i].ace # 0 => s[i].ace \in Id
           /\ s[i].idn # 0 => s[i].idn \in Id
  <1>1. i \in Key
    BY KeysApart
  <1>2. s[i] \in DomainRow
    BY <1>1 DEF IsTable, IsRows, IsRow
  <1> QED
    BY <1>2, DomainAssumption DEF DomainRow, Id

\* Two tables whose rows differ in parents and folders only are both whole.
LEMMA WholeShape ==
    ASSUME NEW d, NEW e, IsTable(d), IsTable(e), Whole(d),
           \A i \in Id : IsRow(d[i]) \/ IsRow(e[i]) => SameShape(e[i], d[i]),
           \A n \in Name : e[n] => d[n]
    PROVE  Whole(e)
  <1>1. \A i \in Id : IsRow(e[i]) =>
          IF e[i].idn = 0
          THEN /\ IsIdn(e[i].name) <=> e[i].ace # 0
               /\ e[i].ace # 0 => IsRow(e[e[i].ace]) /\ e[e[i].ace].idn = i
          ELSE IsDomain(e[e[i].idn]) /\ e[e[i].idn].ace = i /\ e[e[i].idn].name = e[i].name
    <2> SUFFICES ASSUME NEW i \in Id, IsRow(e[i])
                 PROVE  IF e[i].idn = 0
                        THEN /\ IsIdn(e[i].name) <=> e[i].ace # 0
                             /\ e[i].ace # 0 => IsRow(e[e[i].ace]) /\ e[e[i].ace].idn = i
                        ELSE /\ IsDomain(e[e[i].idn]) /\ e[e[i].idn].ace = i
                             /\ e[e[i].idn].name = e[i].name
      OBVIOUS
    <2>1. SameShape(e[i], d[i])
      OBVIOUS
    <2>2. IsRow(d[i]) /\ e[i].idn = d[i].idn /\ e[i].ace = d[i].ace /\ e[i].name = d[i].name
      BY <2>1 DEF SameShape
    <2>3. /\ d[i].ace # 0 => d[i].ace \in Id
          /\ d[i].idn # 0 => d[i].idn \in Id
      BY <2>2, RowFields
    <2>4. CASE d[i].idn = 0
      <3>1. /\ IsIdn(d[i].name) <=> d[i].ace # 0
            /\ d[i].ace # 0 => IsRow(d[d[i].ace]) /\ d[d[i].ace].idn = i
        BY <2>2, <2>4 DEF Whole
      <3>2. d[i].ace # 0 => IsRow(e[d[i].ace]) /\ e[d[i].ace].idn = i
        BY <2>3, <3>1 DEF SameShape
      <3> QED
        BY <2>2, <2>4, <3>1, <3>2
    <2>5. CASE d[i].idn # 0
      <3> DEFINE j == d[i].idn
      <3>1. IsDomain(d[j]) /\ d[j].ace = i /\ d[j].name = d[i].name
        BY <2>2, <2>5 DEF Whole
      <3>2. IsRow(d[j]) /\ d[j].idn = 0
        BY <3>1 DEF IsDomain
      <3>3. SameShape(e[j], d[j])
        BY <2>3, <2>5, <3>2
      <3>4. IsDomain(e[j]) /\ e[j].ace = i /\ e[j].name = d[i].name
        BY <3>1, <3>2, <3>3 DEF SameShape, IsDomain
      <3> QED
        BY <2>2, <2>5, <3>4
    <2> QED
      BY <2>4, <2>5
  <1>2. \A n \in Name : e[n] => NameUsed(e, n)
    <2> SUFFICES ASSUME NEW n \in Name, e[n] PROVE NameUsed(e, n)
      OBVIOUS
    <2>1. PICK i \in Id : IsRow(d[i]) /\ d[i].name = n
      BY DEF Whole, NameUsed
    <2>2. SameShape(e[i], d[i])
      BY <2>1
    <2> QED
      BY <2>1, <2>2 DEF SameShape, NameUsed
  <1> QED
    BY <1>1, <1>2 DEF Whole

LEMMA KeptCommit ==
    ASSUME NEW p, NEW d, NEW e, IsTable(d), IsTable(e), IsRows(p), Whole(d), KeptRows(p, d),
           \A k \in DOMAIN p : e[k] = p[k],
           \A k \in Key \ DOMAIN p : e[k] = d[k]
    PROVE  /\ Whole(e)
           /\ \A i \in Id : IsRow(e[i]) => SameShape(e[i], d[i])
  <1>1. \A i \in Id : IsRow(d[i]) \/ IsRow(e[i]) => SameShape(e[i], d[i])
    <2> SUFFICES ASSUME NEW i \in Id, IsRow(d[i]) \/ IsRow(e[i]) PROVE SameShape(e[i], d[i])
      OBVIOUS
    <2>1. CASE i \in DOMAIN p
      BY <2>1 DEF KeptRows
    <2>2. CASE i \notin DOMAIN p
      <3>1. e[i] = d[i]
        BY <2>2, KeysApart
      <3> QED
        BY <3>1, ShapeSame
    <2> QED
      BY <2>1, <2>2
  <1>2. \A n \in Name : e[n] => d[n]
    BY KeysApart DEF KeptRows
  <1>3. Whole(e)
    BY <1>1, <1>2, WholeShape
  <1> QED
    BY <1>1, <1>3

\* The rows of a creation are whole among themselves, and no other row knows
\* their ids.
LEMMA CreatedCommit ==
    ASSUME NEW t \in CreateTask, t.pc = "commit",
           NEW p, NEW d, NEW e, IsTable(d), IsTable(e), IsRows(p), Whole(d), CreatedRows(t, p, d),
           \A k \in DOMAIN p : e[k] = p[k],
           \A k \in Key \ DOMAIN p : e[k] = d[k]
    PROVE  /\ Whole(e)
           /\ \A i \in Id : IsRow(e[i]) => SameShape(e[i], d[i]) \/ i \in NewIds(t)
  <1> DEFINE a == t.id
             b == t.ace
             N == {a, b} \ {0}
  <1>1. a # 0 /\ DOMAIN p \cap Id = N /\ DOMAIN p \cap Name \subseteq {t.name}
    BY DEF CreatedRows
  <1>2. a \in Id /\ a \in N /\ N \subseteq Id /\ NewIds(t) = N
    BY <1>1 DEF NewIds
  <1>3. \A i \in N : e[i] = p[i] /\ IsRow(e[i]) /\ e[i].name = t.name /\ ~IsRow(d[i])
    BY <1>1, NoRowIsNoRow DEF CreatedRows
  <1>4. \A i \in Id \ N : e[i] = d[i]
    BY <1>1, KeysApart
  <1>5. e[a].idn = 0 /\ e[a].ace = b /\ (IsIdn(t.name) <=> b # 0)
    BY <1>1, <1>2, <1>3 DEF CreatedRows
  <1>6. b # 0 => b \in N /\ e[b].idn = a
    BY <1>1, <1>2, <1>3 DEF CreatedRows
  <1>7. \A i \in Id \ N : IsRow(e[i]) => IsRow(d[i]) /\ SameShape(e[i], d[i])
    BY <1>4, ShapeSame
  <1> HIDE DEF a, b, N
  <1>8. ASSUME NEW i \in Id, IsRow(e[i])
        PROVE  IF e[i].idn = 0
               THEN /\ IsIdn(e[i].name) <=> e[i].ace # 0
                    /\ e[i].ace # 0 => IsRow(e[e[i].ace]) /\ e[e[i].ace].idn = i
               ELSE /\ IsDomain(e[e[i].idn]) /\ e[e[i].idn].ace = i
                    /\ e[e[i].idn].name = e[i].name
    <2>1. CASE i = a
      BY <1>2, <1>3, <1>5, <1>6, <2>1
    <2>2. CASE i \in N /\ i # a
      <3>1. i = b /\ b # 0 /\ e[i].idn = a
        BY <2>2, <1>6 DEF N
      <3>2. IsDomain(e[a])
        BY <1>2, <1>3, <1>5 DEF IsDomain
      <3> QED
        BY <1>1, <1>2, <1>3, <1>5, <2>2, <3>1, <3>2
    <2>3. CASE i \notin N
      <3>1. e[i] = d[i] /\ IsRow(d[i])
        BY <1>4, <1>8, <2>3
      <3>2. /\ d[i].ace # 0 => d[i].ace \in Id
            /\ d[i].idn # 0 => d[i].idn \in Id
        BY <3>1, RowFields
      <3>3. CASE d[i].idn = 0
        <4>1. /\ IsIdn(d[i].name) <=> d[i].ace # 0
              /\ d[i].ace # 0 => IsRow(d[d[i].ace]) /\ d[d[i].ace].idn = i
          BY <3>1, <3>3 DEF Whole
        <4>2. d[i].ace # 0 => e[d[i].ace] = d[d[i].ace]
          BY <1>3, <1>4, <3>2, <4>1
        <4> QED
          BY <3>1, <3>3, <4>1, <4>2
      <3>4. CASE d[i].idn # 0
        <4> DEFINE j == d[i].idn
        <4>1. IsDomain(d[j]) /\ d[j].ace = i /\ d[j].name = d[i].name
          BY <3>1, <3>4 DEF Whole
        <4>2. j \in Id /\ j \notin N
          BY <1>3, <3>2, <3>4, <4>1 DEF IsDomain
        <4>3. e[j] = d[j]
          BY <1>4, <4>2
        <4> QED
          BY <3>1, <3>4, <4>1, <4>3
      <3> QED
        BY <3>3, <3>4
    <2> QED
      BY <2>1, <2>2, <2>3
  <1>9. ASSUME NEW n \in Name, e[n] PROVE NameUsed(e, n)
    <2>1. CASE n = t.name
      BY <1>2, <1>3, <2>1 DEF NameUsed
    <2>2. CASE n # t.name
      <3>1. n \in Key \ DOMAIN p
        BY <1>1, <2>2, KeysApart
      <3>2. d[n]
        BY <1>9, <3>1
      <3>3. PICK i \in Id : IsRow(d[i]) /\ d[i].name = n
        BY <3>2 DEF Whole, NameUsed
      <3>4. e[i] = d[i]
        BY <1>3, <1>4, <3>3
      <3> QED
        BY <3>3, <3>4 DEF NameUsed
    <2> QED
      BY <2>1, <2>2
  <1>10. Whole(e)
    BY <1>8, <1>9 DEF Whole
  <1> QED
    BY <1>2, <1>7, <1>10

\* A removal takes a domain, its ACE form and its role addresses, or nothing.
LEMMA RemovedCommit ==
    ASSUME NEW t \in RemoveTask, t.pc = "commit", t.old.idn = 0,
           NEW p, NEW d, NEW e, IsTable(d), IsTable(e), IsRows(p), Whole(d), RemovedRows(t, p, d),
           IsRow(d[t.id]) => SameShape(d[t.id], t.old),
           \A k \in DOMAIN p : e[k] = p[k],
           \A k \in Key \ DOMAIN p : e[k] = d[k]
    PROVE  /\ Whole(e)
           /\ \A i \in Id : IsRow(e[i]) => SameShape(e[i], d[i])
  <1> DEFINE a == t.id
             n0 == t.old.name
  <1>1. /\ a \in Id /\ n0 \in Name
    BY DEF RemoveTask, DomainRow
  <1>2. ~IsRow(e[a]) /\ e[n0] = FALSE
    BY NoRowIsNoRow DEF RemovedRows
  <1>3. \A i \in Id : IsRow(d[i]) /\ d[i].idn = a => ~IsRow(e[i])
    BY NoRowIsNoRow DEF RemovedRows
  <1>4. \A i \in Id : \/ e[i] = d[i]
                      \/ SameShape(e[i], d[i])
                      \/ ~IsRow(e[i]) /\ (i = a \/ (IsRow(d[i]) /\ d[i].idn = a))
    BY KeysApart, NoRowIsNoRow DEF RemovedRows
  <1>5. \A n \in Name : n # n0 => e[n] = d[n]
    BY KeysApart DEF RemovedRows
  <1>6. IsRow(d[a]) => d[a].idn = 0 /\ d[a].name = n0
    BY DEF SameShape
  <1>7. \A i \in Id : IsRow(e[i]) => SameShape(e[i], d[i]) /\ IsRow(d[i])
    BY <1>4, ShapeSame DEF SameShape
  <1>8. \A i \in Id : IsRow(d[i]) /\ i # a /\ d[i].idn # a => SameShape(e[i], d[i])
    BY <1>4, ShapeSame
  <1>9. \A i \in Id : IsRow(e[i]) => i # a /\ d[i].idn # a
    BY <1>2, <1>3, <1>7
  <1>10. ASSUME NEW i \in Id, IsRow(e[i])
         PROVE  IF e[i].idn = 0
                THEN /\ IsIdn(e[i].name) <=> e[i].ace # 0
                     /\ e[i].ace # 0 => IsRow(e[e[i].ace]) /\ e[e[i].ace].idn = i
                ELSE /\ IsDomain(e[e[i].idn]) /\ e[e[i].idn].ace = i
                     /\ e[e[i].idn].name = e[i].name
    <2>1. IsRow(d[i]) /\ e[i].idn = d[i].idn /\ e[i].ace = d[i].ace /\ e[i].name = d[i].name
      BY <1>7, <1>10 DEF SameShape
    <2>2. i # a /\ d[i].idn # a
      BY <1>9, <1>10
    <2>3. /\ d[i].ace # 0 => d[i].ace \in Id
          /\ d[i].idn # 0 => d[i].idn \in Id
      BY <2>1, RowFields
    <2>4. CASE d[i].idn = 0
      <3>1. /\ IsIdn(d[i].name) <=> d[i].ace # 0
            /\ d[i].ace # 0 => IsRow(d[d[i].ace]) /\ d[d[i].ace].idn = i
        BY <2>1, <2>4 DEF Whole
      <3>2. ASSUME d[i].ace # 0
            PROVE  IsRow(e[d[i].ace]) /\ e[d[i].ace].idn = i
        <4> DEFINE j == d[i].ace
        <4>1. j \in Id /\ IsRow(d[j]) /\ d[j].idn = i
          BY <2>3, <3>1, <3>2
        <4>2. j # a
          BY <1>6, <4>1, KeysApart
        <4>3. SameShape(e[j], d[j])
          BY <1>8, <2>2, <4>1, <4>2
        <4> QED
          BY <4>1, <4>3 DEF SameShape
      <3> QED
        BY <2>1, <2>4, <3>1, <3>2
    <2>5. CASE d[i].idn # 0
      <3> DEFINE j == d[i].idn
      <3>1. IsDomain(d[j]) /\ d[j].ace = i /\ d[j].name = d[i].name
        BY <2>1, <2>5 DEF Whole
      <3>2. j \in Id /\ j # a /\ IsRow(d[j]) /\ d[j].idn = 0
        BY <2>2, <2>3, <2>5, <3>1 DEF IsDomain
      <3>3. SameShape(e[j], d[j])
        BY <1>1, <1>8, <3>2, KeysApart
      <3>4. IsDomain(e[j]) /\ e[j].ace = i /\ e[j].name = d[i].name
        BY <3>1, <3>2, <3>3 DEF SameShape, IsDomain
      <3> QED
        BY <2>1, <2>5, <3>4
    <2> QED
      BY <2>4, <2>5
  <1>11. ASSUME NEW n \in Name, e[n] PROVE NameUsed(e, n)
    <2>1. n # n0
      BY <1>2, <1>11
    <2>2. d[n]
      BY <1>5, <1>11, <2>1
    <2>3. PICK i \in Id : IsRow(d[i]) /\ d[i].name = n
      BY <2>2 DEF Whole, NameUsed
    <2>4. i # a
      BY <1>6, <2>1, <2>3
    <2>5. d[i].idn # a
      <3> SUFFICES ASSUME d[i].idn = a PROVE FALSE
        OBVIOUS
      <3>1. a # 0
        BY <1>1, KeysApart
      <3>2. IsDomain(d[a]) /\ d[a].name = d[i].name
        BY <2>3, <3>1 DEF Whole
      <3> QED
        BY <1>6, <2>1, <2>3, <3>2 DEF IsDomain
    <2>6. SameShape(e[i], d[i])
      BY <1>8, <2>3, <2>4, <2>5
    <2> QED
      BY <2>3, <2>6 DEF SameShape, NameUsed
  <1>12. Whole(e)
    BY <1>10, <1>11 DEF Whole
  <1> QED
    BY <1>7, <1>12

-----------------------------------------------------------------------------
(* What a step of one thread has to show *)

\* Nothing is committed but what the thread has pending.
DbStep(w) ==
    /\ Whole(db')
    /\ \A i \in Id : db'[i] = db[i] \/ i \in DOMAIN conn[w].pending
    /\ \A i \in Id : IsRow(db'[i]) => SameShape(db'[i], db[i]) \/ i \in NewIds(task[w])

\* The other connections keep what they have, and nothing new is locked that
\* they have locked.
ConnStep(w) ==
    /\ Data'
    /\ \A v \in Worker \ {w} : conn'[v] = conn[v]
    /\ \A v \in Worker \ {w}, k \in DOMAIN conn'[w].pending :
          \/ k \in DOMAIN conn[w].pending
          \/ k \notin DOMAIN conn[v].pending /\ (k \in Id => ~conn[v].scan)
    /\ conn'[w].scan =>
          \/ conn[w].scan
          \/ \A v \in Worker \ {w} : DOMAIN conn[v].pending \cap Id = {} /\ ~conn[v].scan
    /\ conn'[w].snapshot # NoSnapshot =>
          \A i \in Id : IsRow(conn'[w].snapshot[i]) => OldRow(i, conn'[w].snapshot[i])

\* Ids are given once.
TaskStep(w) ==
    /\ task' \in [Worker -> Task]
    /\ \A v \in Worker \ {w} : task'[v] = task[v]
    /\ nextId' \in nextId .. MaxId + 1
    /\ faults' \in 0 .. MaxFaults
    /\ \A i \in NewIds(task'[w]) : i \in NewIds(task[w]) \/ i \in nextId .. nextId' - 1
    /\ task'[w] \in RemoveTask =>
          OldRow(task'[w].id, task'[w].old) /\ task'[w].old.idn = 0

FitStep(w) ==
    /\ PendingFits(task'[w], conn'[w].pending, db')
    /\ ConnFits(task'[w], conn'[w])

\* What was read once stays old.
LEMMA OldRowStep ==
    ASSUME WholeInv, NEW w \in Worker, DbStep(w), TaskStep(w)
    PROVE  \A i \in Id : \A r : OldRow(i, r) => OldRow(i, r)'
  <1> SUFFICES ASSUME NEW i \in Id, NEW r, OldRow(i, r) PROVE OldRow(i, r)'
    OBVIOUS
  <1>1. nextId \in Nat /\ nextId' \in Nat /\ nextId' >= nextId /\ i \in Nat
    BY DomainAssumption, KeysApart DEF WholeInv, Types, TaskStep
  <1>2. i < nextId /\ i < nextId'
    BY <1>1 DEF OldRow
  <1>3. \A v \in Worker : i \notin NewIds(task[v])
    BY DEF OldRow, IsNew
  <1>4. \A v \in Worker : i \notin NewIds(task'[v])
    BY <1>1, <1>2, <1>3 DEF TaskStep
  <1>5. ~IsNew(i)'
    BY <1>4 DEF IsNew, NewIds
  <1>6. IsRow(db'[i]) => SameShape(db'[i], r)
    <2> SUFFICES ASSUME IsRow(db'[i]) PROVE SameShape(db'[i], r)
      OBVIOUS
    <2>1. SameShape(db'[i], db[i])
      BY <1>3 DEF DbStep
    <2>2. SameShape(db[i], r)
      BY <2>1 DEF OldRow, SameShape
    <2> QED
      BY <2>1, <2>2, ShapeTrans
  <1>7. (IsRow(db[i]) => SameShape(db[i], r))'
    BY <1>6 DEF SameShape, IsRow
  <1> QED
    BY <1>2, <1>5, <1>7 DEF OldRow

LEMMA WholeStep ==
    ASSUME WholeInv, NEW w \in Worker, DbStep(w), ConnStep(w), TaskStep(w), FitStep(w)
    PROVE  WholeInv'
  <1>1. nextId \in Nat /\ nextId' \in Nat /\ nextId' >= nextId /\ nextId' \in 1 .. MaxId + 1
    BY DomainAssumption DEF WholeInv, Types, TaskStep
  <1>2. Types'
    BY <1>1 DEF ConnStep, TaskStep, Types
  <1>3. Whole(db)'
    BY DEF DbStep, Whole, IsRow, IsDomain, IsIdn, NameUsed
  <1>4. ASSUME NEW v \in Worker
        PROVE  PendingFits(task'[v], conn'[v].pending, db') /\ ConnFits(task'[v], conn'[v])
    <2>1. CASE v = w
      BY <2>1 DEF FitStep
    <2>2. CASE v # w
      <3>1. task'[v] = task[v] /\ conn'[v] = conn[v]
        BY <2>2 DEF TaskStep, ConnStep
      <3>2. PendingFits(task[v], conn[v].pending, db) /\ ConnFits(task[v], conn[v])
        BY DEF WholeInv
      <3>3. \A i \in DOMAIN conn[v].pending \cap Id : db'[i] = db[i]
        BY <2>2 DEF WholeInv, Locks, DbStep
      <3>4. ASSUME task[v] \in RemoveTask, task[v].pc \in {"deleteDomain", "commit"}
            PROVE  \A i \in Id : db'[i] = db[i]
        <4>1. conn[v].scan
          BY <3>2, <3>4 DEF ConnFits
        <4>2. DOMAIN conn[w].pending \cap Id = {}
          BY <2>2, <4>1 DEF WholeInv, Locks
        <4> QED
          BY <4>2 DEF DbStep
      <3>5. PendingFits(task[v], conn[v].pending, db')
        BY <3>2, <3>3, <3>4, FitsElsewhere
      <3> QED
        BY <3>1, <3>2, <3>5
    <2> QED
      BY <2>1, <2>2
  <1>5. Locks'
    <2> SUFFICES ASSUME NEW v \in Worker, NEW u \in Worker, v # u
                 PROVE  /\ DOMAIN conn'[v].pending \cap DOMAIN conn'[u].pending = {}
                        /\ conn'[v].scan => /\ DOMAIN conn'[u].pending \cap Id = {}
                                            /\ ~conn'[u].scan
      BY DEF Locks
    <2>1. CASE v # w /\ u # w
      BY <2>1 DEF WholeInv, Locks, ConnStep
    <2>2. CASE v = w
      <3>1. conn'[u] = conn[u]
        BY <2>2 DEF ConnStep
      <3>2. DOMAIN conn[v].pending \cap DOMAIN conn[u].pending = {}
        BY DEF WholeInv, Locks
      <3>3. conn[v].scan => DOMAIN conn[u].pending \cap Id = {} /\ ~conn[u].scan
        BY DEF WholeInv, Locks
      <3>4. \A k \in DOMAIN conn'[v].pending : k \notin DOMAIN conn[u].pending
        BY <2>2, <3>2 DEF ConnStep
      <3>5. conn'[v].scan => DOMAIN conn[u].pending \cap Id = {} /\ ~conn[u].scan
        BY <2>2, <3>3 DEF ConnStep
      <3> QED
        BY <3>1, <3>4, <3>5
    <2>3. CASE u = w
      <3>1. conn'[v] = conn[v]
        BY <2>3 DEF ConnStep
      <3>2. DOMAIN conn[v].pending \cap DOMAIN conn[u].pending = {}
        BY DEF WholeInv, Locks
      <3>3. conn[v].scan => DOMAIN conn[u].pending \cap Id = {} /\ ~conn[u].scan
        BY DEF WholeInv, Locks
      <3>4. \A k \in DOMAIN conn'[u].pending : k \notin DOMAIN conn[v].pending
        BY <2>3, <3>2 DEF ConnStep
      <3>5. conn[v].scan => \A k \in DOMAIN conn'[u].pending : k \notin Id
        BY <2>3, <3>3 DEF ConnStep
      <3>6. conn[v].scan => ~conn'[u].scan
        BY <2>3, <3>3 DEF ConnStep
      <3> QED
        BY <3>1, <3>4, <3>5, <3>6
    <2> QED
      BY <2>1, <2>2, <2>3
  <1>6. Ids'
    <2>1. \A i \in Id : \A r : OldRow(i, r) => OldRow(i, r)'
      BY OldRowStep
    <2>2. \A i \in Id : IsRow(db'[i]) => i < nextId'
      <3> SUFFICES ASSUME NEW i \in Id, IsRow(db'[i]) PROVE i < nextId'
        OBVIOUS
      <3>1. SameShape(db'[i], db[i]) \/ i \in NewIds(task[w])
        BY DEF DbStep
      <3>2. i < nextId
        BY <3>1 DEF SameShape, WholeInv, Ids
      <3> QED
        BY <1>1, <3>2, KeysApart
    <2>3. \A v \in Worker : \A i \in NewIds(task'[v]) : i < nextId'
      <3> SUFFICES ASSUME NEW v \in Worker, NEW i \in NewIds(task'[v]) PROVE i < nextId'
        OBVIOUS
      <3>1. i \in NewIds(task[v]) \/ i \in nextId .. nextId' - 1
        BY DEF TaskStep
      <3>2. i \in NewIds(task[v]) => i \in Nat
        BY DomainAssumption DEF NewIds, CreateTask
      <3>3. i \in NewIds(task[v]) => i < nextId
        BY DEF WholeInv, Ids
      <3> QED
        BY <1>1, <3>1, <3>2, <3>3
    <2>4. \A v \in Worker : task'[v] \in RemoveTask =>
             OldRow(task'[v].id, task'[v].old) /\ task'[v].old.idn = 0
      BY DEF TaskStep, WholeInv, Ids
    <2>5. \A v \in Worker : conn'[v].snapshot # NoSnapshot =>
             \A i \in Id : IsRow(conn'[v].snapshot[i]) => OldRow(i, conn'[v].snapshot[i])
      BY DEF ConnStep, WholeInv, Ids
    <2>6. \A v \in Worker : task'[v] \in RemoveTask =>
             \A i, r : i = task'[v].id /\ r = task'[v].old => OldRow(i, r)' /\ r.idn = 0
      BY <2>1, <2>4 DEF RemoveTask
    <2>7. \A v \in Worker : conn'[v].snapshot # NoSnapshot =>
             \A i \in Id : \A r : r = conn'[v].snapshot[i] /\ IsRow(r) => OldRow(i, r)'
      BY <2>1, <2>5
    <2> QED
      BY <2>2, <2>3, <2>6, <2>7 DEF Ids
  <1> QED
    BY <1>2, <1>3, <1>4, <1>5, <1>6 DEF WholeInv

-----------------------------------------------------------------------------
(* Statements *)

LEMMA InvFacts ==
    ASSUME WholeInv, NEW w \in Worker
    PROVE  /\ Data /\ IsTable(db) /\ Whole(db)
           /\ IsConn(conn[w]) /\ IsRows(conn[w].pending)
           /\ task \in [Worker -> Task] /\ task[w] \in Task
           /\ PendingFits(task[w], conn[w].pending, db)
           /\ ConnFits(task[w], conn[w])
           /\ nextId \in Nat /\ nextId \in 1 .. MaxId + 1
           /\ faults \in 0 .. MaxFaults /\ faults \in Nat
  BY DomainAssumption DEF WholeInv, Types, Data, IsConn

\* The ids of a creation have no committed row.
LEMMA NewIsNoRow ==
    ASSUME WholeInv, NEW i \in Id, IsNew(i)
    PROVE  ~IsRow(db[i])
  <1>1. PICK w \in Worker : i \in NewIds(task[w])
    BY DEF IsNew
  <1>2. task[w] \in CreateTask /\ i \in {task[w].id, task[w].ace} \ {0}
    BY <1>1 DEF NewIds
  <1>3. CreatedRows(task[w], conn[w].pending, db)
    BY <1>2, InvFacts DEF PendingFits
  <1> QED
    BY <1>2, <1>3, NoRowIsNoRow DEF CreatedRows

LEMMA CommittedIsOld ==
    ASSUME WholeInv, NEW i \in Id, IsRow(db[i])
    PROVE  OldRow(i, db[i])
  BY NewIsNoRow, ShapeSame DEF OldRow, WholeInv, Ids

LEMMA DbStays ==
    ASSUME WholeInv, NEW w \in Worker, db' = db
    PROVE  DbStep(w)
  BY InvFacts, ShapeSame DEF DbStep

LEMMA SnapshotStays ==
    ASSUME WholeInv, NEW w \in Worker, conn'[w].snapshot \in {conn[w].snapshot, db, NoSnapshot}
    PROVE  conn'[w].snapshot # NoSnapshot =>
              \A i \in Id : IsRow(conn'[w].snapshot[i]) => OldRow(i, conn'[w].snapshot[i])
  <1>1. CASE conn'[w].snapshot = conn[w].snapshot
    BY <1>1 DEF WholeInv, Ids
  <1>2. CASE conn'[w].snapshot = db
    BY <1>2, CommittedIsOld
  <1>3. CASE conn'[w].snapshot = NoSnapshot
    BY <1>3
  <1> QED
    BY <1>1, <1>2, <1>3

LEMMA StayStep ==
    ASSUME WholeInv, NEW w \in Worker, UNCHANGED <<db, conn>>
    PROVE  DbStep(w) /\ ConnStep(w) /\ conn'[w] = conn[w]
  <1>1. DbStep(w)
    BY DbStays
  <1>2. Data'
    BY InvFacts, SameConn
  <1>3. conn'[w].snapshot # NoSnapshot =>
              \A i \in Id : IsRow(conn'[w].snapshot[i]) => OldRow(i, conn'[w].snapshot[i])
    BY SnapshotStays
  <1> QED
    BY <1>1, <1>2, <1>3 DEF ConnStep

LEMMA RollbackStep ==
    ASSUME WholeInv, NEW w \in Worker, Rollback(w)
    PROVE  DbStep(w) /\ ConnStep(w) /\ conn'[w] = Closed /\ db' = db
  <1>1. Data' /\ (\A v \in Worker \ {w} : conn'[v] = conn[v]) /\ conn'[w] = Closed /\ db' = db
    BY InvFacts, RollbackEffect
  <1>2. ~conn'[w].scan /\ DOMAIN conn'[w].pending = {} /\ conn'[w].snapshot = NoSnapshot
    BY <1>1, ConnFields
  <1>3. DbStep(w)
    BY <1>1, DbStays
  <1> QED
    BY <1>1, <1>2, <1>3 DEF ConnStep

LEMMA SeenStep ==
    ASSUME WholeInv, NEW w \in Worker, conn' = Seen(w), db' = db
    PROVE  /\ DbStep(w) /\ ConnStep(w)
           /\ conn'[w].open = conn[w].open
           /\ conn'[w].scan = conn[w].scan
           /\ conn'[w].pending = conn[w].pending
  <1>1. /\ Data'
        /\ \A v \in Worker \ {w} : conn'[v] = conn[v]
        /\ conn'[w].open = conn[w].open
        /\ conn'[w].scan = conn[w].scan
        /\ conn'[w].pending = conn[w].pending
        /\ conn'[w].snapshot \in {conn[w].snapshot, db}
    BY InvFacts, SeenEffect
  <1>2. DbStep(w)
    BY DbStays
  <1>3. conn'[w].snapshot # NoSnapshot =>
              \A i \in Id : IsRow(conn'[w].snapshot[i]) => OldRow(i, conn'[w].snapshot[i])
    BY <1>1, SnapshotStays
  <1> QED
    BY <1>1, <1>2, <1>3 DEF ConnStep

LEMMA WriteStep ==
    ASSUME WholeInv, NEW w \in Worker, conn[w].open, NEW rows, IsRows(rows), Write(w, rows)
    PROVE  /\ DbStep(w) /\ ConnStep(w) /\ db' = db
           /\ conn'[w].open
           /\ conn'[w].scan = conn[w].scan
           /\ DOMAIN conn'[w].pending = DOMAIN conn[w].pending \cup DOMAIN rows
           /\ \A k \in DOMAIN rows : conn'[w].pending[k] = rows[k]
           /\ \A k \in DOMAIN conn[w].pending \ DOMAIN rows :
                 conn'[w].pending[k] = conn[w].pending[k]
  <1>1. /\ Data'
        /\ \A v \in Worker \ {w} : conn'[v] = conn[v]
        /\ conn'[w].open
        /\ conn'[w].scan = conn[w].scan
        /\ conn'[w].snapshot = conn[w].snapshot
        /\ conn'[w].pending = Over(rows, conn[w].pending) /\ db' = db
        /\ \A k \in DOMAIN rows, v \in Worker \ {w} :
              k \notin DOMAIN conn[v].pending /\ (k \in Id => ~conn[v].scan)
    BY InvFacts, WriteEffect
  <1>2. /\ DOMAIN conn'[w].pending = DOMAIN conn[w].pending \cup DOMAIN rows
        /\ \A k \in DOMAIN rows : conn'[w].pending[k] = rows[k]
        /\ \A k \in DOMAIN conn[w].pending \ DOMAIN rows :
              conn'[w].pending[k] = conn[w].pending[k]
    <2>1. IsRows(conn[w].pending)
      BY InvFacts
    <2>2. /\ DOMAIN Over(rows, conn[w].pending) = DOMAIN rows \cup DOMAIN conn[w].pending
          /\ \A k \in DOMAIN rows : Over(rows, conn[w].pending)[k] = rows[k]
          /\ \A k \in DOMAIN conn[w].pending \ DOMAIN rows :
                Over(rows, conn[w].pending)[k] = conn[w].pending[k]
      BY <2>1, OverRows
    <2> QED
      BY <1>1, <2>2
  <1>3. DbStep(w)
    BY <1>1, DbStays
  <1>4. conn'[w].snapshot # NoSnapshot =>
              \A i \in Id : IsRow(conn'[w].snapshot[i]) => OldRow(i, conn'[w].snapshot[i])
    BY <1>1, SnapshotStays
  <1>5. ConnStep(w)
    BY <1>1, <1>2, <1>4 DEF ConnStep
  <1> QED
    BY <1>1, <1>2, <1>3, <1>5

\* What may be committed: a creation that has ended, a removal that has ended or
\* not begun, and anything that keeps the shape of the domains.
IsCommittable(t) ==
    /\ t \in CreateTask => t.pc = "commit"
    /\ t \in RemoveTask => t.pc \in {"begin", "commit"}

LEMMA CommitStep ==
    ASSUME WholeInv, NEW w \in Worker, NEW c \in {Opened, Closed}, IsCommittable(task[w]),
           db' = Current(w), conn' = [conn EXCEPT ![w] = c]
    PROVE  DbStep(w) /\ ConnStep(w) /\ conn'[w] = c
  <1> DEFINE t == task[w]
             p == conn[w].pending
  <1>1. /\ Data'
        /\ \A v \in Worker \ {w} : conn'[v] = conn[v]
        /\ conn'[w] = c
        /\ \A k \in DOMAIN p : db'[k] = p[k]
        /\ \A k \in Key \ DOMAIN p : db'[k] = db[k]
    BY InvFacts, CommitEffect
  <1>2. ~conn'[w].scan /\ DOMAIN conn'[w].pending = {} /\ conn'[w].snapshot = NoSnapshot
    BY <1>1, ConnFields
  <1>3. IsTable(db) /\ IsTable(db') /\ IsRows(p) /\ Whole(db) /\ PendingFits(t, p, db)
    BY <1>1, InvFacts DEF Data
  <1>4. Whole(db') /\ \A i \in Id : IsRow(db'[i]) => SameShape(db'[i], db[i]) \/ i \in NewIds(t)
    <2>1. CASE t \in CreateTask
      <3>1. CreatedRows(t, p, db) /\ t.pc = "commit"
        BY <1>3, <2>1 DEF PendingFits, IsCommittable
      <3> QED
        BY <1>1, <1>3, <2>1, <3>1, CreatedCommit
    <2>2. CASE t \in RemoveTask /\ t.pc = "commit"
      <3>1. RemovedRows(t, p, db)
        BY <1>3, <2>2 DEF PendingFits
      <3>2. t.old.idn = 0 /\ (IsRow(db[t.id]) => SameShape(db[t.id], t.old))
        BY <2>2 DEF WholeInv, Ids, OldRow
      <3> QED
        BY <1>1, <1>3, <2>2, <3>1, <3>2, RemovedCommit
    <2>3. CASE ~(t \in CreateTask) /\ ~(t \in RemoveTask /\ t.pc = "commit")
      <3>1. KeptRows(p, db)
        BY <1>3, <2>3 DEF PendingFits, RemovedRows, IsCommittable
      <3> QED
        BY <1>1, <1>3, <3>1, KeptCommit
    <2> QED
      BY <2>1, <2>2, <2>3
  <1>5. \A i \in Id : db'[i] = db[i] \/ i \in DOMAIN p
    BY <1>1, KeysApart
  <1>6. DbStep(w)
    BY <1>4, <1>5 DEF DbStep
  <1>7. ConnStep(w)
    BY <1>1, <1>2 DEF ConnStep
  <1> QED
    BY <1>1, <1>6, <1>7

-----------------------------------------------------------------------------
(* Every action keeps the invariant *)

LEMMA EmptyIsKept == \A p, d : DOMAIN p = {} => KeptRows(p, d)
  BY DEF KeptRows

\* A request ends with what is pending rolled back, committed or harmless.
LEMMA EndStep ==
    ASSUME WholeInv, NEW w \in Worker, DbStep(w), ConnStep(w), Finish(w), nextId' = nextId,
           faults' \in 0 .. MaxFaults, KeptRows(conn'[w].pending, db'), ~conn'[w].scan
    PROVE  WholeInv'
  <1>1. /\ task' \in [Worker -> Task] /\ task'[w] = Idle
        /\ \A v \in Worker \ {w} : task'[v] = task[v]
    BY InvFacts, FinishTask
  <1>2. task'[w].pc = "idle" /\ task'[w] \notin CreateTask \cup RemoveTask /\ NewIds(task'[w]) = {}
    BY <1>1, TaskKinds
  <1>3. nextId' \in nextId .. MaxId + 1
    BY InvFacts, DomainAssumption
  <1>4. TaskStep(w)
    BY <1>1, <1>2, <1>3 DEF TaskStep
  <1>5. FitStep(w)
    BY <1>2 DEF FitStep, PendingFits, ConnFits
  <1> QED
    BY <1>4, <1>5, WholeStep

LEMMA RollbackEnds ==
    ASSUME WholeInv, NEW w \in Worker, Rollback(w), Finish(w), nextId' = nextId,
           faults' \in 0 .. MaxFaults
    PROVE  WholeInv'
  <1>1. DbStep(w) /\ ConnStep(w) /\ conn'[w] = Closed
    BY RollbackStep
  <1>2. KeptRows(conn'[w].pending, db') /\ ~conn'[w].scan
    BY <1>1, ConnFields, EmptyIsKept
  <1> QED
    BY <1>1, <1>2, EndStep

LEMMA LeftOpenEnds ==
    ASSUME WholeInv, NEW w \in Worker, LeaveOpen(w), Finish(w), nextId' = nextId,
           faults' \in 0 .. MaxFaults, KeptRows(conn[w].pending, db), ~conn[w].scan
    PROVE  WholeInv'
  <1>1. DbStep(w) /\ ConnStep(w) /\ conn'[w] = conn[w] /\ db' = db
    BY StayStep DEF LeaveOpen
  <1> QED
    BY <1>1, EndStep

LEMMA FaultCounted ==
    ASSUME WholeInv, NEW w \in Worker, FailedStatement(w)
    PROVE  Finish(w) /\ nextId' = nextId /\ faults' \in 0 .. MaxFaults
  BY InvFacts, DomainAssumption DEF FailedStatement, CountFault

\* A request of the other kinds goes on.
LEMMA PlainStep ==
    ASSUME WholeInv, NEW w \in Worker, DbStep(w), ConnStep(w), nextId' = nextId, faults' = faults,
           task' \in [Worker -> Task], \A v \in Worker \ {w} : task'[v] = task[v],
           task'[w] \notin CreateTask, task'[w] \notin RemoveTask,
           KeptRows(conn'[w].pending, db'), ~conn'[w].scan,
           task'[w].pc \notin {"idle", "begin"} => conn'[w].open
    PROVE  WholeInv'
  <1>1. nextId' \in nextId .. MaxId + 1 /\ faults' \in 0 .. MaxFaults
    BY InvFacts
  <1>2. NewIds(task'[w]) = {}
    BY DEF NewIds
  <1>3. TaskStep(w)
    BY <1>1, <1>2 DEF TaskStep
  <1>4. FitStep(w)
    BY DEF FitStep, PendingFits, ConnFits
  <1> QED
    BY <1>3, <1>4, WholeStep

\* Between requests, what is pending is kept.
LEMMA IdleFacts ==
    ASSUME WholeInv, NEW w \in Worker, IsIdle(w)
    PROVE  /\ task[w] \notin CreateTask /\ task[w] \notin RemoveTask
           /\ IsCommittable(task[w])
           /\ KeptRows(conn[w].pending, db)
           /\ ~conn[w].scan
  <1>1. task[w] \notin CreateTask /\ task[w] \notin RemoveTask
    BY InvFacts, TaskKinds DEF IsIdle
  <1>2. PendingFits(task[w], conn[w].pending, db) /\ ConnFits(task[w], conn[w])
    BY InvFacts
  <1> QED
    BY <1>1, <1>2 DEF PendingFits, ConnFits, IsCommittable

LEMMA BeginStep ==
    ASSUME WholeInv, NEW w \in Worker, IsCommittable(task[w]), Begin(w)
    PROVE  /\ DbStep(w) /\ ConnStep(w)
           /\ conn'[w].open /\ ~conn'[w].scan /\ DOMAIN conn'[w].pending = {}
           /\ KeptRows(conn'[w].pending, db')
  <1>1. DbStep(w) /\ ConnStep(w) /\ conn'[w] = Opened
    BY CommitStep DEF Begin
  <1> QED
    BY <1>1, ConnFields, EmptyIsKept

-----------------------------------------------------------------------------
(* Domain::create *)

LEMMA CreateFacts ==
    ASSUME WholeInv, NEW w \in Worker, NEW p, At(w, "create", p), p # "idle"
    PROVE  /\ task[w] \in CreateTask /\ task[w].pc = p
           /\ task[w] \notin RemoveTask
           /\ CreatedRows(task[w], conn[w].pending, db)
           /\ p # "begin" => conn[w].open
           /\ ~conn[w].scan
  <1>1. task[w] \in CreateTask /\ task[w].pc = p /\ task[w] \notin RemoveTask
    BY InvFacts, TaskKinds DEF At
  <1> QED
    BY <1>1, InvFacts DEF PendingFits, ConnFits

\* A creation goes on.
LEMMA CreateStep ==
    ASSUME WholeInv, NEW w \in Worker, DbStep(w), ConnStep(w), faults' = faults,
           nextId' \in nextId .. MaxId + 1,
           task' \in [Worker -> Task], \A v \in Worker \ {w} : task'[v] = task[v],
           task'[w] \in CreateTask, CreatedRows(task'[w], conn'[w].pending, db'),
           \A i \in NewIds(task'[w]) : i \in NewIds(task[w]) \/ i \in nextId .. nextId' - 1,
           conn'[w].open, ~conn'[w].scan
    PROVE  WholeInv'
  <1>1. task'[w] \notin RemoveTask
    BY TaskKinds DEF Task
  <1>2. TaskStep(w)
    BY <1>1, InvFacts DEF TaskStep
  <1>3. FitStep(w)
    BY <1>1 DEF FitStep, PendingFits, ConnFits
  <1> QED
    BY <1>2, <1>3, WholeStep

LEMMA CreateGoes ==
    ASSUME WholeInv, NEW w \in Worker, task[w] \in CreateTask,
           NEW p \in {"insertDomain", "insertFolders", "insertAce", "linkAce", "findParent",
                      "addRole", "commit"},
           Goto(w, p)
    PROVE  /\ task' \in [Worker -> Task]
           /\ \A v \in Worker \ {w} : task'[v] = task[v]
           /\ task'[w] \in CreateTask /\ task'[w].pc = p /\ task'[w].name = task[w].name
           /\ task'[w].id = task[w].id /\ task'[w].ace = task[w].ace
           /\ NewIds(task'[w]) = NewIds(task[w])
  <1> DEFINE t == task[w]
             u == [t EXCEPT !.pc = p]
  <1>1. /\ u \in CreateTask /\ u \in Task
        /\ u.pc = p /\ u.name = t.name /\ u.id = t.id /\ u.ace = t.ace
    BY CreateGoto
  <1>2. /\ task' \in [Worker -> Task] /\ task'[w] = u
        /\ \A v \in Worker \ {w} : task'[v] = task[v]
    BY <1>1, InvFacts, GotoTask
  <1> HIDE DEF u
  <1>3. NewIds(u) = NewIds(t)
    BY <1>1 DEF NewIds
  <1> QED
    BY <1>1, <1>2, <1>3

LEMMA CreateGetsId ==
    ASSUME NEW t \in CreateTask, NEW i \in 0 .. MaxId
    PROVE  /\ [t EXCEPT !.pc = "insertFolders", !.id = i] \in CreateTask
           /\ [t EXCEPT !.pc = "linkAce", !.ace = i] \in CreateTask
  BY DEF CreateTask

LEMMA BeginCreateWhole ==
    ASSUME WholeInv, NEW w \in Worker, BeginCreate(w)
    PROVE  WholeInv'
  <1>1. PICK n \in Name, p \in {0} \cup Orphans(View(w)), fs \in SUBSET Use, r \in BOOLEAN :
           /\ IsIdle(w)
           /\ Begin(w)
           /\ task' = [task EXCEPT ![w] =
                  [pc |-> "insertDomain", op |-> "create", name |-> n, parent |-> p,
                   folders |-> fs, role |-> r, id |-> 0, ace |-> 0]]
           /\ UNCHANGED <<nextId, faults>>
    BY DEF BeginCreate
  <1> DEFINE t == [pc |-> "insertDomain", op |-> "create", name |-> n, parent |-> p,
                   folders |-> fs, role |-> r, id |-> 0, ace |-> 0]
  <1>2. /\ DbStep(w) /\ ConnStep(w)
        /\ conn'[w].open /\ ~conn'[w].scan /\ DOMAIN conn'[w].pending = {}
    BY <1>1, IdleFacts, BeginStep
  <1>3. p \in 0 .. MaxId
    BY DomainAssumption DEF Orphans, Id
  <1>4. t \in CreateTask
    BY <1>3, DomainAssumption DEF CreateTask
  <1>5. t.pc = "insertDomain" /\ t.id = 0 /\ t.ace = 0
    OBVIOUS
  <1>6. task' = [task EXCEPT ![w] = t]
    BY <1>1
  <1> HIDE DEF t
  <1>7. task' \in [Worker -> Task] /\ task'[w] = t /\ \A v \in Worker \ {w} : task'[v] = task[v]
    BY <1>4, <1>6, InvFacts, SetTask DEF Task
  <1>8. CreatedRows(t, conn'[w].pending, db')
    BY <1>2, <1>5 DEF CreatedRows
  <1>9. NewIds(t) = {}
    BY <1>5 DEF NewIds
  <1>10. nextId' \in nextId .. MaxId + 1 /\ faults' = faults
    BY <1>1, InvFacts, DomainAssumption
  <1> QED
    BY <1>2, <1>4, <1>7, <1>8, <1>9, <1>10, CreateStep

LEMMA InsertDomainWhole ==
    ASSUME WholeInv, NEW w \in Worker, InsertDomain(w)
    PROVE  WholeInv'
  <1> DEFINE t == task[w]
             p == conn[w].pending
             row == [name |-> t.name, parent |-> t.parent, idn |-> 0, ace |-> 0, folders |-> {}]
             u == task'[w]
  <1>1. At(w, "create", "insertDomain") /\ nextId <= MaxId /\ Write(w, Rows(nextId, row))
    BY DEF InsertDomain
  <1>2. /\ t \in CreateTask /\ t.pc = "insertDomain"
        /\ CreatedRows(t, p, db) /\ conn[w].open /\ ~conn[w].scan
    BY <1>1, CreateFacts
  <1>3. nextId \in Id /\ nextId # 0
    BY <1>1, InvFacts, DomainAssumption DEF Id
  <1>4. row \in DomainRow /\ row.name = t.name /\ row.idn = 0 /\ row.ace = 0
    BY <1>2, DomainAssumption DEF CreateTask, DomainRow
  <1> HIDE DEF row
  <1>5. IsRow(row)
    BY <1>4, RowIsRow
  <1>6. /\ IsRows(Rows(nextId, row)) /\ DOMAIN Rows(nextId, row) = {nextId}
        /\ Rows(nextId, row)[nextId] = row
    BY <1>3, <1>4, DomainRows
  <1>7. /\ DbStep(w) /\ ConnStep(w) /\ db' = db
        /\ conn'[w].open /\ conn'[w].scan = conn[w].scan
        /\ DOMAIN conn'[w].pending = DOMAIN p \cup {nextId}
        /\ conn'[w].pending[nextId] = row
    BY <1>1, <1>2, <1>6, WriteStep
  <1>8. DOMAIN p = {} /\ t.ace = 0
    BY <1>2 DEF CreatedRows
  <1>9. task' = [task EXCEPT ![w] = [t EXCEPT !.pc = "insertFolders", !.id = nextId]]
    BY InvFacts DEF InsertDomain
  <1>10. [t EXCEPT !.pc = "insertFolders", !.id = nextId] \in CreateTask
    <2>1. nextId \in 0 .. MaxId
      BY <1>1, InvFacts, DomainAssumption
    <2> QED
      BY <1>2, <2>1, CreateGetsId
  <1>11. /\ task' \in [Worker -> Task] /\ \A v \in Worker \ {w} : task'[v] = task[v]
         /\ u = [t EXCEPT !.pc = "insertFolders", !.id = nextId]
    BY <1>9, <1>10, InvFacts, SetTask DEF Task
  <1>12. u.pc = "insertFolders" /\ u.id = nextId /\ u.ace = 0 /\ u.name = t.name
    BY <1>2, <1>8, <1>11 DEF CreateTask
  <1>13. db[nextId] = NoRow
    BY <1>3, KeysApart, InvFacts DEF WholeInv, Ids, IsRow
  <1>14. CreatedRows(u, conn'[w].pending, db')
    BY <1>3, <1>4, <1>5, <1>7, <1>8, <1>12, <1>13, KeysApart DEF CreatedRows
  <1>15. nextId' = nextId + 1 /\ faults' = faults
    BY DEF InsertDomain
  <1>16. nextId' \in nextId .. MaxId + 1 /\ NewIds(u) \subseteq {nextId}
    BY <1>1, <1>12, <1>15, InvFacts, DomainAssumption DEF NewIds
  <1>17. \A i \in NewIds(u) : i \in nextId .. nextId' - 1
    BY <1>15, <1>16, InvFacts
  <1> QED
    BY <1>2, <1>7, <1>10, <1>11, <1>14, <1>15, <1>16, <1>17, CreateStep

LEMMA InsertFoldersWhole ==
    ASSUME WholeInv, NEW w \in Worker, InsertFolders(w)
    PROVE  WholeInv'
  <1> DEFINE t == task[w]
             p == conn[w].pending
             row == [Current(w)[t.id] EXCEPT !.folders = t.folders]
             u == task'[w]
             pc == IF IsIdn(t.name) THEN "insertAce" ELSE "findParent"
  <1>1. At(w, "create", "insertFolders") /\ Write(w, Rows(t.id, row)) /\ Goto(w, pc)
    BY DEF InsertFolders
  <1>2. /\ t \in CreateTask /\ t.pc = "insertFolders"
        /\ CreatedRows(t, p, db) /\ conn[w].open /\ ~conn[w].scan
    BY <1>1, CreateFacts
  <1>3. t.id # 0 /\ t.ace = 0 /\ DOMAIN p \cap Id = {t.id}
    BY <1>2 DEF CreatedRows
  <1>4. t.id \in Id /\ t.id \in DOMAIN p
    BY <1>3
  <1>5. Current(w)[t.id] = p[t.id]
    BY <1>4, InvFacts, Views
  <1>6. IsRow(p[t.id]) /\ p[t.id].name = t.name /\ p[t.id].idn = 0 /\ p[t.id].ace = 0
    BY <1>2, <1>3, <1>4 DEF CreatedRows
  <1>7. p[t.id] \in DomainRow
    BY <1>4, <1>6, InvFacts DEF IsRows, IsRow
  <1>8. row \in DomainRow /\ row.name = t.name /\ row.idn = 0 /\ row.ace = 0
    BY <1>2, <1>5, <1>6, <1>7 DEF CreateTask, DomainRow
  <1> HIDE DEF row
  <1>9. IsRow(row)
    BY <1>8, RowIsRow
  <1>10. /\ IsRows(Rows(t.id, row)) /\ DOMAIN Rows(t.id, row) = {t.id}
         /\ Rows(t.id, row)[t.id] = row
    BY <1>4, <1>8, DomainRows
  <1>11. /\ DbStep(w) /\ ConnStep(w) /\ db' = db
         /\ conn'[w].open /\ conn'[w].scan = conn[w].scan
         /\ DOMAIN conn'[w].pending = DOMAIN p \cup {t.id}
         /\ conn'[w].pending[t.id] = row
    BY <1>1, <1>2, <1>10, WriteStep
  <1>12. u \in CreateTask /\ u.pc = pc /\ u.name = t.name /\ u.id = t.id /\ u.ace = t.ace
    BY <1>1, <1>2, CreateGoes
  <1>13. task' \in [Worker -> Task] /\ \A v \in Worker \ {w} : task'[v] = task[v]
    BY <1>1, <1>2, CreateGoes
  <1>14. CreatedRows(u, conn'[w].pending, db')
    BY <1>2, <1>3, <1>4, <1>8, <1>9, <1>11, <1>12 DEF CreatedRows
  <1>15. nextId' = nextId /\ faults' = faults
    BY DEF InsertFolders
  <1>16. nextId' \in nextId .. MaxId + 1 /\ NewIds(u) = NewIds(t)
    BY <1>2, <1>12, <1>15, InvFacts, DomainAssumption DEF NewIds
  <1> QED
    BY <1>2, <1>11, <1>12, <1>13, <1>14, <1>15, <1>16, CreateStep

LEMMA InsertAceWhole ==
    ASSUME WholeInv, NEW w \in Worker, InsertAce(w)
    PROVE  WholeInv'
  <1> DEFINE t == task[w]
             p == conn[w].pending
             row == [name |-> t.name, parent |-> 0, idn |-> t.id, ace |-> 0, folders |-> {}]
             u == task'[w]
  <1>1. At(w, "create", "insertAce") /\ nextId <= MaxId /\ Write(w, Rows(nextId, row))
    BY DEF InsertAce
  <1>2. /\ t \in CreateTask /\ t.pc = "insertAce"
        /\ CreatedRows(t, p, db) /\ conn[w].open /\ ~conn[w].scan
    BY <1>1, CreateFacts
  <1>3. nextId \in Id /\ nextId # 0 /\ nextId \in 0 .. MaxId
    BY <1>1, InvFacts, DomainAssumption DEF Id
  <1>4. row \in DomainRow /\ row.name = t.name /\ row.idn = t.id
    BY <1>2, DomainAssumption DEF CreateTask, DomainRow
  <1> HIDE DEF row
  <1>5. IsRow(row)
    BY <1>4, RowIsRow
  <1>6. /\ IsRows(Rows(nextId, row)) /\ DOMAIN Rows(nextId, row) = {nextId}
        /\ Rows(nextId, row)[nextId] = row
    BY <1>3, <1>4, DomainRows
  <1>7. /\ DbStep(w) /\ ConnStep(w) /\ db' = db
        /\ conn'[w].open /\ conn'[w].scan = conn[w].scan
        /\ DOMAIN conn'[w].pending = DOMAIN p \cup {nextId}
        /\ conn'[w].pending[nextId] = row
        /\ \A k \in DOMAIN p \ {nextId} : conn'[w].pending[k] = p[k]
    BY <1>1, <1>2, <1>6, WriteStep
  <1>8. DOMAIN p \cap Id = {t.id} /\ t.ace = 0 /\ t.id # 0 /\ IsIdn(t.name)
    BY <1>2 DEF CreatedRows
  <1>9. task' = [task EXCEPT ![w] = [t EXCEPT !.pc = "linkAce", !.ace = nextId]]
    BY InvFacts DEF InsertAce
  <1>10. [t EXCEPT !.pc = "linkAce", !.ace = nextId] \in CreateTask
    BY <1>2, <1>3, CreateGetsId
  <1>11. /\ task' \in [Worker -> Task] /\ \A v \in Worker \ {w} : task'[v] = task[v]
         /\ u = [t EXCEPT !.pc = "linkAce", !.ace = nextId]
    BY <1>9, <1>10, InvFacts, SetTask DEF Task
  <1>12. u.pc = "linkAce" /\ u.ace = nextId /\ u.id = t.id /\ u.name = t.name
    BY <1>2, <1>11 DEF CreateTask
  <1>13. db[nextId] = NoRow
    BY <1>3, KeysApart, InvFacts DEF WholeInv, Ids, IsRow
  <1>14. t.id < nextId /\ nextId # t.id
    BY <1>2, <1>8, InvFacts, DomainAssumption DEF WholeInv, Ids, NewIds, CreateTask
  <1>15. CreatedRows(u, conn'[w].pending, db')
    <2>1. DOMAIN conn'[w].pending \cap Id = {u.id, u.ace} \ {0}
      BY <1>3, <1>7, <1>8, <1>12
    <2>2. DOMAIN conn'[w].pending \cap Name \subseteq {u.name}
      BY <1>2, <1>3, <1>7, <1>12, KeysApart DEF CreatedRows
    <2>3. t.id \in DOMAIN p /\ conn'[w].pending[t.id] = p[t.id]
      BY <1>7, <1>8, <1>14
    <2>4. /\ db[t.id] = NoRow /\ IsRow(p[t.id]) /\ p[t.id].name = t.name
          /\ p[t.id].idn = 0 /\ p[t.id].ace = 0
      BY <1>2, <1>8, <2>3 DEF CreatedRows
    <2>5. \A i \in DOMAIN conn'[w].pending \cap Id :
             /\ db'[i] = NoRow /\ IsRow(conn'[w].pending[i])
             /\ conn'[w].pending[i].name = u.name
      BY <1>4, <1>5, <1>7, <1>12, <1>13, <2>1, <2>3, <2>4
    <2> QED
      BY <1>3, <1>4, <1>7, <1>8, <1>12, <1>14, <2>1, <2>2, <2>3, <2>4, <2>5 DEF CreatedRows
  <1>16. nextId' = nextId + 1 /\ faults' = faults
    BY DEF InsertAce
  <1>17. nextId' \in nextId .. MaxId + 1 /\ NewIds(u) \subseteq {t.id, nextId} /\ t.id \in NewIds(t)
    BY <1>1, <1>2, <1>8, <1>12, <1>16, InvFacts, DomainAssumption DEF NewIds
  <1>18. \A i \in NewIds(u) : i \in NewIds(t) \/ i \in nextId .. nextId' - 1
    BY <1>16, <1>17, InvFacts
  <1> QED
    BY <1>2, <1>7, <1>10, <1>11, <1>15, <1>16, <1>17, <1>18, CreateStep

LEMMA LinkAceWhole ==
    ASSUME WholeInv, NEW w \in Worker, LinkAce(w)
    PROVE  WholeInv'
  <1> DEFINE t == task[w]
             p == conn[w].pending
             row == [Current(w)[t.id] EXCEPT !.ace = t.ace]
             u == task'[w]
  <1>1. At(w, "create", "linkAce") /\ Write(w, Rows(t.id, row)) /\ Goto(w, "findParent")
    BY DEF LinkAce
  <1>2. /\ t \in CreateTask /\ t.pc = "linkAce"
        /\ CreatedRows(t, p, db) /\ conn[w].open /\ ~conn[w].scan
    BY <1>1, CreateFacts
  <1>3. /\ t.id # 0 /\ t.ace # 0 /\ t.ace # t.id /\ IsIdn(t.name)
        /\ DOMAIN p \cap Id = {t.id, t.ace}
    BY <1>2 DEF CreatedRows
  <1>4. t.id \in Id /\ t.id \in DOMAIN p /\ t.ace \in DOMAIN p
    BY <1>3
  <1>5. Current(w)[t.id] = p[t.id]
    BY <1>4, InvFacts, Views
  <1>6. IsRow(p[t.id]) /\ p[t.id].name = t.name /\ p[t.id].idn = 0
    BY <1>2, <1>3, <1>4 DEF CreatedRows
  <1>7. p[t.id] \in DomainRow
    BY <1>4, <1>6, InvFacts DEF IsRows, IsRow
  <1>8. row \in DomainRow /\ row.name = t.name /\ row.idn = 0 /\ row.ace = t.ace
    BY <1>2, <1>5, <1>6, <1>7 DEF CreateTask, DomainRow
  <1> HIDE DEF row
  <1>9. IsRow(row)
    BY <1>8, RowIsRow
  <1>10. /\ IsRows(Rows(t.id, row)) /\ DOMAIN Rows(t.id, row) = {t.id}
         /\ Rows(t.id, row)[t.id] = row
    BY <1>4, <1>8, DomainRows
  <1>11. /\ DbStep(w) /\ ConnStep(w) /\ db' = db
         /\ conn'[w].open /\ conn'[w].scan = conn[w].scan
         /\ DOMAIN conn'[w].pending = DOMAIN p \cup {t.id}
         /\ conn'[w].pending[t.id] = row
         /\ \A k \in DOMAIN p \ {t.id} : conn'[w].pending[k] = p[k]
    BY <1>1, <1>2, <1>10, WriteStep
  <1>12. u \in CreateTask /\ u.pc = "findParent" /\ u.name = t.name /\ u.id = t.id /\ u.ace = t.ace
    BY <1>1, <1>2, CreateGoes
  <1>13. task' \in [Worker -> Task] /\ \A v \in Worker \ {w} : task'[v] = task[v]
    BY <1>1, <1>2, CreateGoes
  <1>14. conn'[w].pending[t.ace] = p[t.ace]
    BY <1>3, <1>4, <1>11
  <1>15. CreatedRows(u, conn'[w].pending, db')
    BY <1>2, <1>3, <1>4, <1>8, <1>9, <1>11, <1>12, <1>14 DEF CreatedRows
  <1>16. nextId' = nextId /\ faults' = faults
    BY DEF LinkAce
  <1>17. nextId' \in nextId .. MaxId + 1 /\ NewIds(u) = NewIds(t)
    BY <1>2, <1>12, <1>16, InvFacts, DomainAssumption DEF NewIds
  <1> QED
    BY <1>2, <1>11, <1>12, <1>13, <1>15, <1>16, <1>17, CreateStep

LEMMA FindParentWhole ==
    ASSUME WholeInv, NEW w \in Worker, FindParent(w)
    PROVE  WholeInv'
  <1> DEFINE t == task[w]
             p == conn[w].pending
             u == task'[w]
             pc == IF t.role THEN "addRole" ELSE "commit"
  <1>1. At(w, "create", "findParent") /\ nextId' = nextId /\ faults' = faults
    BY DEF FindParent
  <1>2. /\ t \in CreateTask /\ t.pc = "findParent"
        /\ CreatedRows(t, p, db) /\ conn[w].open /\ ~conn[w].scan
    BY <1>1, CreateFacts
  <1>3. CASE t.parent = 0 \/ Exists(View(w), t.parent)
    <2>1. /\ Goto(w, pc) /\ db' = db
          /\ conn' = IF t.parent = 0 THEN conn ELSE Seen(w)
      BY <1>3 DEF FindParent
    <2>2. /\ DbStep(w) /\ ConnStep(w) /\ conn'[w].pending = p
          /\ conn'[w].open /\ ~conn'[w].scan
      <3>1. CASE t.parent = 0
        BY <1>2, <2>1, <3>1, StayStep
      <3>2. CASE t.parent # 0
        BY <1>2, <2>1, <3>2, SeenStep
      <3> QED
        BY <3>1, <3>2
    <2>3. u \in CreateTask /\ u.pc = pc /\ u.name = t.name /\ u.id = t.id /\ u.ace = t.ace
      BY <1>2, <2>1, CreateGoes
    <2>4. task' \in [Worker -> Task] /\ \A v \in Worker \ {w} : task'[v] = task[v]
      BY <1>2, <2>1, CreateGoes
    <2>5. CreatedRows(u, conn'[w].pending, db')
      BY <1>2, <2>1, <2>2, <2>3 DEF CreatedRows
    <2>6. nextId' \in nextId .. MaxId + 1 /\ NewIds(u) = NewIds(t)
      BY <1>1, <1>2, <2>3, InvFacts, DomainAssumption DEF NewIds
    <2> QED
      BY <1>1, <2>2, <2>3, <2>4, <2>5, <2>6, CreateStep
  <1>4. CASE ~(t.parent = 0 \/ Exists(View(w), t.parent))
    <2>1. Rollback(w) /\ Finish(w)
      BY <1>4 DEF FindParent
    <2> QED
      BY <1>1, <2>1, InvFacts, RollbackEnds
  <1> QED
    BY <1>3, <1>4

LEMMA AddRoleWhole ==
    ASSUME WholeInv, NEW w \in Worker, AddRole(w)
    PROVE  WholeInv'
  <1> DEFINE t == task[w]
             p == conn[w].pending
             u == task'[w]
             rows == Rows(t.name, TRUE)
  <1>1. At(w, "create", "addRole") /\ Write(w, rows) /\ Goto(w, "commit")
    BY DEF AddRole
  <1>2. /\ t \in CreateTask /\ t.pc = "addRole"
        /\ CreatedRows(t, p, db) /\ conn[w].open /\ ~conn[w].scan
    BY <1>1, CreateFacts
  <1>3. t.name \in Name /\ t.name \in Key \ Id
    BY <1>2, KeysApart DEF CreateTask
  <1>4. IsRows(rows) /\ DOMAIN rows = {t.name}
    BY <1>3, OtherRows
  <1> HIDE DEF rows
  <1>5. /\ DbStep(w) /\ ConnStep(w) /\ db' = db
        /\ conn'[w].open /\ conn'[w].scan = conn[w].scan
        /\ DOMAIN conn'[w].pending = DOMAIN p \cup {t.name}
        /\ \A k \in DOMAIN p \ {t.name} : conn'[w].pending[k] = p[k]
    BY <1>1, <1>2, <1>4, WriteStep
  <1>6. u \in CreateTask /\ u.pc = "commit" /\ u.name = t.name /\ u.id = t.id /\ u.ace = t.ace
    BY <1>1, <1>2, CreateGoes
  <1>7. task' \in [Worker -> Task] /\ \A v \in Worker \ {w} : task'[v] = task[v]
    BY <1>1, <1>2, CreateGoes
  <1>8. \A i \in DOMAIN p \cap Id : conn'[w].pending[i] = p[i]
    BY <1>3, <1>5
  <1>9. DOMAIN conn'[w].pending \cap Id = DOMAIN p \cap Id
    BY <1>3, <1>5
  <1>10. CreatedRows(u, conn'[w].pending, db')
    BY <1>2, <1>5, <1>6, <1>8, <1>9 DEF CreatedRows
  <1>11. nextId' = nextId /\ faults' = faults
    BY DEF AddRole
  <1>12. nextId' \in nextId .. MaxId + 1 /\ NewIds(u) = NewIds(t)
    BY <1>2, <1>6, <1>11, InvFacts, DomainAssumption DEF NewIds
  <1> QED
    BY <1>2, <1>5, <1>6, <1>7, <1>10, <1>11, <1>12, CreateStep

LEMMA FailCreateWhole ==
    ASSUME WholeInv, NEW w \in Worker, FailCreate(w)
    PROVE  WholeInv'
  <1>1. Finish(w) /\ nextId' = nextId /\ faults' \in 0 .. MaxFaults
    BY FaultCounted DEF FailCreate
  <1>2. CASE Rollback(w)
    BY <1>1, <1>2, RollbackEnds
  <1>3. CASE ~Rollback(w)
    <2>1. task[w].pc = "insertDomain" /\ LeaveOpen(w) /\ At(w, "create", "insertDomain")
      BY <1>3 DEF FailCreate, CreationFailed, At
    <2>2. CreatedRows(task[w], conn[w].pending, db) /\ ~conn[w].scan
      BY <2>1, CreateFacts
    <2>3. KeptRows(conn[w].pending, db)
      BY <2>1, <2>2, EmptyIsKept DEF CreatedRows
    <2> QED
      BY <1>1, <2>1, <2>2, <2>3, LeftOpenEnds
  <1> QED
    BY <1>2, <1>3

-----------------------------------------------------------------------------
(* Domain::remove *)

LEMMA RemoveFacts ==
    ASSUME WholeInv, NEW w \in Worker, NEW p, At(w, "remove", p), p # "idle"
    PROVE  /\ task[w] \in RemoveTask /\ task[w].pc = p
           /\ task[w] \notin CreateTask
           /\ RemovedRows(task[w], conn[w].pending, db)
           /\ p # "begin" => conn[w].open
           /\ conn[w].scan <=> p \in {"deleteAce", "deleteDomain", "commit"}
           /\ OldRow(task[w].id, task[w].old) /\ task[w].old.idn = 0
           /\ task[w].id \in Id /\ task[w].old \in DomainRow
  <1>1. task[w] \in RemoveTask /\ task[w].pc = p /\ task[w] \notin CreateTask
    BY InvFacts, TaskKinds DEF At
  <1>2. OldRow(task[w].id, task[w].old) /\ task[w].old.idn = 0
    BY <1>1 DEF WholeInv, Ids
  <1>3. task[w].id \in Id /\ task[w].old \in DomainRow
    BY <1>1 DEF RemoveTask
  <1> QED
    BY <1>1, <1>2, <1>3, InvFacts DEF PendingFits, ConnFits

\* A removal goes on.
LEMMA RemoveStep ==
    ASSUME WholeInv, NEW w \in Worker, DbStep(w), ConnStep(w), faults' = faults, nextId' = nextId,
           task' \in [Worker -> Task], \A v \in Worker \ {w} : task'[v] = task[v],
           task'[w] \in RemoveTask, RemovedRows(task'[w], conn'[w].pending, db'),
           OldRow(task'[w].id, task'[w].old), task'[w].old.idn = 0,
           task'[w].pc # "begin" => conn'[w].open,
           conn'[w].scan <=> task'[w].pc \in {"deleteAce", "deleteDomain", "commit"}
    PROVE  WholeInv'
  <1>1. task'[w] \notin CreateTask /\ NewIds(task'[w]) = {}
    BY TaskKinds DEF Task
  <1>2. nextId' \in nextId .. MaxId + 1 /\ faults' \in 0 .. MaxFaults
    BY InvFacts
  <1>3. TaskStep(w)
    BY <1>1, <1>2 DEF TaskStep
  <1>4. FitStep(w)
    BY <1>1 DEF FitStep, PendingFits, ConnFits
  <1> QED
    BY <1>3, <1>4, WholeStep

LEMMA RemoveGoes ==
    ASSUME WholeInv, NEW w \in Worker, task[w] \in RemoveTask,
           NEW p \in {"begin", "adoptChildren", "deleteAce", "deleteDomain", "commit"},
           Goto(w, p)
    PROVE  /\ task' \in [Worker -> Task]
           /\ \A v \in Worker \ {w} : task'[v] = task[v]
           /\ task'[w] \in RemoveTask /\ task'[w].pc = p
           /\ task'[w].id = task[w].id /\ task'[w].old = task[w].old
  <1> DEFINE t == task[w]
             u == [t EXCEPT !.pc = p]
  <1>1. u \in RemoveTask /\ u \in Task /\ u.pc = p /\ u.id = t.id /\ u.old = t.old
    BY RemoveGoto
  <1>2. /\ task' \in [Worker -> Task] /\ task'[w] = u
        /\ \A v \in Worker \ {w} : task'[v] = task[v]
    BY <1>1, InvFacts, GotoTask
  <1> HIDE DEF u
  <1> QED
    BY <1>1, <1>2

LEMMA ShapeOfCommitted ==
    ASSUME NEW p, NEW d, KeptRows(p, d), NEW i \in DOMAIN p \cap Id
    PROVE  SameShape(p[i], d[i])
  BY DEF KeptRows

\* What a thread reads between its requests was once committed, and what it
\* reads by its own snapshot may be gone.
LEMMA ViewIsOld ==
    ASSUME WholeInv, NEW w \in Worker, KeptRows(conn[w].pending, db),
           NEW i \in Id, IsRow(View(w)[i])
    PROVE  OldRow(i, View(w)[i]) /\ View(w)[i] \in DomainRow
  <1>1. IsTable(View(w)) /\ i \in Key
    BY InvFacts, Views, KeysApart
  <1>2. View(w)[i] \in DomainRow
    BY <1>1, RowFields
  <1>3. CASE View(w)[i] = db[i]
    BY <1>2, <1>3, CommittedIsOld
  <1>4. CASE conn[w].snapshot # NoSnapshot /\ View(w)[i] = conn[w].snapshot[i]
    BY <1>2, <1>4 DEF WholeInv, Ids
  <1>5. CASE i \in DOMAIN conn[w].pending /\ View(w)[i] = conn[w].pending[i]
    <2>1. SameShape(View(w)[i], db[i])
      BY <1>5, ShapeOfCommitted
    <2>2. OldRow(i, db[i])
      BY <2>1, CommittedIsOld DEF SameShape
    <2>3. OldRow(i, View(w)[i])
      BY <2>1, <2>2 DEF OldRow, SameShape
    <2> QED
      BY <1>2, <2>3
  <1> QED
    BY <1>1, <1>3, <1>4, <1>5, InvFacts, Views

LEMMA BeginRemoveWhole ==
    ASSUME WholeInv, NEW w \in Worker, BeginRemove(w)
    PROVE  WholeInv'
  <1>1. PICK i \in Id :
           /\ IsIdle(w) /\ Valid(View(w), i) /\ conn' = Seen(w)
           /\ task' = [task EXCEPT ![w] =
                  [pc |-> "begin", op |-> "remove", id |-> i, old |-> View(w)[i]]]
           /\ UNCHANGED <<db, nextId, faults>>
    BY DEF BeginRemove
  <1> DEFINE old == View(w)[i]
             t == [pc |-> "begin", op |-> "remove", id |-> i, old |-> old]
  <1>2. KeptRows(conn[w].pending, db) /\ ~conn[w].scan
    BY <1>1, IdleFacts
  <1>3. IsRow(old) /\ old.idn = 0
    BY <1>1 DEF Valid, Exists, IsDomain
  <1>4. OldRow(i, old) /\ old \in DomainRow
    BY <1>2, <1>3, ViewIsOld
  <1>5. task' = [task EXCEPT ![w] = t]
    BY <1>1
  <1> HIDE DEF old
  <1>6. t \in RemoveTask /\ t.pc = "begin" /\ t.id = i /\ t.old = old
    BY <1>4 DEF RemoveTask
  <1> HIDE DEF t
  <1>7. task' \in [Worker -> Task] /\ task'[w] = t /\ \A v \in Worker \ {w} : task'[v] = task[v]
    BY <1>5, <1>6, InvFacts, SetTask DEF Task
  <1>8. /\ DbStep(w) /\ ConnStep(w) /\ db' = db
        /\ conn'[w].scan = conn[w].scan /\ conn'[w].pending = conn[w].pending
    BY <1>1, SeenStep
  <1>9. RemovedRows(t, conn'[w].pending, db')
    BY <1>2, <1>6, <1>8 DEF RemovedRows
  <1> QED
    BY <1>1, <1>2, <1>3, <1>4, <1>6, <1>7, <1>8, <1>9, RemoveStep

LEMMA StartRemoveWhole ==
    ASSUME WholeInv, NEW w \in Worker, StartRemove(w)
    PROVE  WholeInv'
  <1>1. At(w, "remove", "begin") /\ Begin(w) /\ Goto(w, "adoptChildren")
        /\ nextId' = nextId /\ faults' = faults
    BY DEF StartRemove
  <1>2. /\ task[w] \in RemoveTask /\ task[w].pc = "begin" /\ task[w] \notin CreateTask
        /\ OldRow(task[w].id, task[w].old) /\ task[w].old.idn = 0
    BY <1>1, RemoveFacts
  <1>3. IsCommittable(task[w])
    BY <1>2 DEF IsCommittable
  <1>4. /\ DbStep(w) /\ ConnStep(w)
        /\ conn'[w].open /\ ~conn'[w].scan
        /\ KeptRows(conn'[w].pending, db')
    BY <1>1, <1>3, BeginStep
  <1>5. /\ task' \in [Worker -> Task]
        /\ \A v \in Worker \ {w} : task'[v] = task[v]
        /\ task'[w] \in RemoveTask /\ task'[w].pc = "adoptChildren"
        /\ task'[w].id = task[w].id /\ task'[w].old = task[w].old
    BY <1>1, <1>2, RemoveGoes
  <1>6. RemovedRows(task'[w], conn'[w].pending, db')
    BY <1>4, <1>5 DEF RemovedRows
  <1> QED
    BY <1>1, <1>2, <1>4, <1>5, <1>6, RemoveStep

LEMMA CurrentShape ==
    ASSUME WholeInv, NEW w \in Worker, KeptRows(conn[w].pending, db), NEW i \in Id
    PROVE  IsRow(Current(w)[i]) \/ IsRow(db[i]) => SameShape(Current(w)[i], db[i])
  <1>1. i \in Key
    BY KeysApart
  <1>2. CASE i \in DOMAIN conn[w].pending
    <2>1. Current(w)[i] = conn[w].pending[i]
      BY <1>2, InvFacts, Views
    <2> QED
      BY <1>2, <2>1, ShapeOfCommitted
  <1>3. CASE i \notin DOMAIN conn[w].pending
    <2>1. Current(w)[i] = db[i]
      BY <1>1, <1>3, InvFacts, Views
    <2> QED
      BY <2>1, ShapeSame
  <1> QED
    BY <1>2, <1>3

LEMMA RowAdopted ==
    ASSUME NEW r \in DomainRow, NEW q, q = [r EXCEPT !.parent = 0]
    PROVE  q \in DomainRow /\ q.name = r.name /\ q.idn = r.idn /\ q.ace = r.ace
  BY DomainAssumption DEF DomainRow

\* The children keep their shape.
LEMMA AdoptedRows ==
    ASSUME WholeInv, NEW w \in Worker, NEW a
    PROVE  /\ IsRows(Adopted(w, a))
           /\ DOMAIN Adopted(w, a) \subseteq Id
           /\ \A i \in DOMAIN Adopted(w, a) : SameShape(Adopted(w, a)[i], Current(w)[i])
  <1> DEFINE s == Current(w)
             C == {i \in Id : IsRow(s[i]) /\ s[i].parent = a}
             r == Adopted(w, a)
  <1>1. r = [i \in C |-> [s[i] EXCEPT !.parent = 0]]
    BY DEF Adopted
  <1> HIDE DEF s, r
  <1>2. DOMAIN r = C /\ C \subseteq Id /\ \A i \in C : r[i] = [s[i] EXCEPT !.parent = 0]
    BY <1>1
  <1>3. IsTable(s)
    BY InvFacts, Views DEF s
  <1>4. ASSUME NEW i \in C
        PROVE  r[i] \in DomainRow /\ SameShape(r[i], s[i])
    <2>1. s[i] \in DomainRow /\ IsRow(s[i])
      BY <1>3, <1>4, RowFields
    <2>2. /\ r[i] \in DomainRow
          /\ r[i].name = s[i].name /\ r[i].idn = s[i].idn /\ r[i].ace = s[i].ace
      BY <1>2, <1>4, <2>1, RowAdopted
    <2> QED
      BY <2>1, <2>2, RowIsRow DEF SameShape
  <1>5. r = [i \in DOMAIN r |-> r[i]]
    BY <1>1
  <1>6. DOMAIN r \subseteq Key
    BY <1>2, KeysApart
  <1>7. IsRows(r)
    BY <1>2, <1>4, <1>5, <1>6 DEF IsRows
  <1> QED
    BY <1>2, <1>4, <1>7 DEF r, s

LEMMA AdoptChildrenWhole ==
    ASSUME WholeInv, NEW w \in Worker, AdoptChildren(w)
    PROVE  WholeInv'
  <1> DEFINE t == task[w]
             p == conn[w].pending
             rows == Adopted(w, t.id)
             q == Over(rows, p)
             c == [conn[w] EXCEPT !.pending = q, !.scan = TRUE]
             pc == IF t.old.ace # 0 THEN "deleteAce" ELSE "deleteDomain"
             u == task'[w]
  <1>1. /\ At(w, "remove", "adoptChildren") /\ ~TableLocked(w)
        /\ conn' = [conn EXCEPT ![w].pending = q, ![w].scan = TRUE]
        /\ Goto(w, pc) /\ db' = db /\ nextId' = nextId /\ faults' = faults
    BY DEF AdoptChildren
  <1>2. /\ t \in RemoveTask /\ t.pc = "adoptChildren"
        /\ RemovedRows(t, p, db) /\ conn[w].open
        /\ OldRow(t.id, t.old) /\ t.old.idn = 0 /\ t.id \in Id
    BY <1>1, RemoveFacts
  <1>3. KeptRows(p, db)
    BY <1>2 DEF RemovedRows
  <1>4. /\ IsRows(rows) /\ DOMAIN rows \subseteq Id
        /\ \A i \in DOMAIN rows : SameShape(rows[i], Current(w)[i])
    BY AdoptedRows
  <1> HIDE DEF rows
  <1>5. /\ IsRows(q) /\ DOMAIN q = DOMAIN rows \cup DOMAIN p
        /\ \A k \in DOMAIN rows : q[k] = rows[k]
        /\ \A k \in DOMAIN p \ DOMAIN rows : q[k] = p[k]
    BY <1>4, InvFacts, OverRows
  <1> HIDE DEF q
  <1>6. KeptRows(q, db)
    <2> SUFFICES ASSUME NEW k \in DOMAIN q
                 PROVE  k \notin Name /\ (k \in Id => SameShape(q[k], db[k]))
      BY DEF KeptRows
    <2>1. CASE k \in DOMAIN rows
      <3>1. k \in Id /\ k \notin Name /\ SameShape(q[k], Current(w)[k])
        BY <1>4, <1>5, <2>1, KeysApart
      <3>2. SameShape(Current(w)[k], db[k])
        BY <1>3, <3>1, CurrentShape DEF SameShape
      <3> QED
        BY <3>1, <3>2, ShapeTrans
    <2>2. CASE k \notin DOMAIN rows
      BY <1>3, <1>5, <2>2 DEF KeptRows
    <2> QED
      BY <2>1, <2>2
  <1>7. IsConn(conn[w])
    BY InvFacts
  <1>8. /\ IsConn(c) /\ c.pending = q /\ c.open /\ c.scan /\ c.snapshot = conn[w].snapshot
    <2>1. DOMAIN conn[w] = Fields /\ conn[w] = [f \in Fields |-> conn[w][f]]
      BY <1>7 DEF IsConn
    <2>2. DOMAIN c = Fields /\ c = [f \in Fields |-> c[f]]
      BY <2>1 DEF Fields
    <2>3. c.open = conn[w].open /\ c.pending = q /\ c.scan = TRUE /\ c.snapshot = conn[w].snapshot
      BY <2>1 DEF Fields
    <2> HIDE DEF c
    <2>4. IsConn(c)
      BY <1>2, <1>5, <1>7, <2>2, <2>3 DEF IsConn
    <2> QED
      BY <1>2, <2>3, <2>4
  <1>9. conn' = [conn EXCEPT ![w] = c]
    BY <1>1
  <1> HIDE DEF c
  <1>10. Data' /\ conn'[w] = c /\ \A v \in Worker \ {w} : conn'[v] = conn[v]
    BY <1>1, <1>8, <1>9, InvFacts, SetConn
  <1>11. \A i \in Id, v \in Worker \ {w} : i \notin DOMAIN conn[v].pending /\ ~conn[v].scan
    BY <1>1 DEF TableLocked, Locked
  <1>12. \A v \in Worker \ {w} : DOMAIN conn[v].pending \cap Id = {} /\ ~conn[v].scan
    BY <1>2, <1>11
  <1>13. conn'[w].snapshot # NoSnapshot =>
              \A i \in Id : IsRow(conn'[w].snapshot[i]) => OldRow(i, conn'[w].snapshot[i])
    BY <1>8, <1>10, SnapshotStays
  <1>14. \A v \in Worker \ {w}, k \in DOMAIN conn'[w].pending :
             k \in DOMAIN p \/ (k \notin DOMAIN conn[v].pending /\ (k \in Id => ~conn[v].scan))
    BY <1>4, <1>5, <1>8, <1>10, <1>12
  <1>15. ConnStep(w)
    BY <1>10, <1>12, <1>13, <1>14 DEF ConnStep
  <1>16. DbStep(w)
    BY <1>1, DbStays
  <1>17. /\ task' \in [Worker -> Task]
         /\ \A v \in Worker \ {w} : task'[v] = task[v]
         /\ u \in RemoveTask /\ u.pc = pc /\ u.id = t.id /\ u.old = t.old
    BY <1>1, <1>2, RemoveGoes
  <1>18. u.pc = "deleteDomain" => \A i \in Id : ~(IsRow(db[i]) /\ db[i].idn = t.id)
    <2> SUFFICES ASSUME t.old.ace = 0, NEW i \in Id, IsRow(db[i]), db[i].idn = t.id PROVE FALSE
      BY <1>17
    <2>1. t.id # 0 /\ i # 0
      BY <1>2, KeysApart
    <2>2. IsDomain(db[t.id]) /\ db[t.id].ace = i
      BY <2>1, InvFacts DEF Whole
    <2> QED
      BY <1>2, <2>1, <2>2 DEF OldRow, SameShape, IsDomain
  <1>19. RemovedRows(u, q, db)
    BY <1>6, <1>17, <1>18 DEF RemovedRows, KeptRows
  <1> QED
    BY <1>1, <1>2, <1>8, <1>10, <1>15, <1>16, <1>17, <1>19, RemoveStep

LEMMA DeleteAceWhole ==
    ASSUME WholeInv, NEW w \in Worker, DeleteAce(w)
    PROVE  WholeInv'
  <1> DEFINE t == task[w]
             p == conn[w].pending
             s == Current(w)
             T == {i \in Id : IsRow(s[i]) /\ s[i].idn = t.id}
             rows == [i \in T |-> NoRow]
             q == conn'[w].pending
             u == task'[w]
  <1>1. /\ At(w, "remove", "deleteAce") /\ Write(w, rows)
        /\ Goto(w, "deleteDomain") /\ nextId' = nextId /\ faults' = faults
    BY DEF DeleteAce
  <1>2. /\ t \in RemoveTask /\ t.pc = "deleteAce"
        /\ RemovedRows(t, p, db) /\ conn[w].open /\ conn[w].scan
        /\ OldRow(t.id, t.old) /\ t.old.idn = 0 /\ t.id \in Id
    BY <1>1, RemoveFacts
  <1>3. KeptRows(p, db)
    BY <1>2 DEF RemovedRows
  <1>4. \A i \in Id : IsRow(s[i]) \/ IsRow(db[i]) => SameShape(s[i], db[i])
    BY <1>3, CurrentShape
  <1> HIDE DEF s
  <1>5. \A i \in T : i \in Id /\ IsRow(db[i]) /\ db[i].idn = t.id
    BY <1>4 DEF SameShape
  <1>6. \A i \in Id : IsRow(db[i]) /\ db[i].idn = t.id => i \in T
    BY <1>4 DEF SameShape
  <1>7. DOMAIN rows = T /\ T \subseteq Id /\ \A i \in T : rows[i] = NoRow
    OBVIOUS
  <1>8. IsRows(rows)
    BY <1>7, KeysApart DEF IsRows
  <1> HIDE DEF T, rows
  <1>9. /\ DbStep(w) /\ ConnStep(w) /\ db' = db
        /\ conn'[w].open /\ conn'[w].scan = conn[w].scan
        /\ DOMAIN q = DOMAIN p \cup T
        /\ \A k \in T : q[k] = rows[k]
        /\ \A k \in DOMAIN p \ T : q[k] = p[k]
    BY <1>1, <1>2, <1>7, <1>8, WriteStep
  <1>10. /\ task' \in [Worker -> Task]
         /\ \A v \in Worker \ {w} : task'[v] = task[v]
         /\ u \in RemoveTask /\ u.pc = "deleteDomain" /\ u.id = t.id /\ u.old = t.old
    BY <1>1, <1>2, RemoveGoes
  <1>11. \A i \in DOMAIN q \cap Id :
            \/ SameShape(q[i], db[i])
            \/ q[i] = NoRow /\ IsRow(db[i]) /\ db[i].idn = t.id
    <2> SUFFICES ASSUME NEW i \in DOMAIN q \cap Id
                 PROVE  \/ SameShape(q[i], db[i])
                        \/ q[i] = NoRow /\ IsRow(db[i]) /\ db[i].idn = t.id
      OBVIOUS
    <2>1. CASE i \in T
      BY <1>5, <1>7, <1>9, <2>1
    <2>2. CASE i \notin T
      BY <1>3, <1>9, <2>2 DEF KeptRows
    <2> QED
      BY <2>1, <2>2
  <1>12. \A i \in Id : IsRow(db[i]) /\ db[i].idn = t.id => i \in DOMAIN q /\ q[i] = NoRow
    BY <1>6, <1>7, <1>9
  <1>13. DOMAIN q \cap Name = {}
    BY <1>3, <1>7, <1>9, KeysApart DEF KeptRows
  <1>14. RemovedRows(u, q, db')
    BY <1>9, <1>10, <1>11, <1>12, <1>13 DEF RemovedRows
  <1> QED
    BY <1>1, <1>2, <1>9, <1>10, <1>14, RemoveStep

LEMMA DeleteDomainWhole ==
    ASSUME WholeInv, NEW w \in Worker, DeleteDomain(w)
    PROVE  WholeInv'
  <1> DEFINE t == task[w]
             p == conn[w].pending
             n == t.old.name
             role == Rows(n, FALSE)
             row == Rows(t.id, NoRow)
             rows == Over(role, row)
             q == conn'[w].pending
             u == task'[w]
  <1>1. /\ At(w, "remove", "deleteDomain") /\ Write(w, rows)
        /\ Goto(w, "commit") /\ nextId' = nextId /\ faults' = faults
    BY DEF DeleteDomain
  <1>2. /\ t \in RemoveTask /\ t.pc = "deleteDomain"
        /\ RemovedRows(t, p, db) /\ conn[w].open /\ conn[w].scan
        /\ OldRow(t.id, t.old) /\ t.old.idn = 0 /\ t.id \in Id /\ t.old \in DomainRow
    BY <1>1, RemoveFacts
  <1>3. n \in Name /\ n \in Key \ Id /\ t.id \notin Name /\ n # t.id
    BY <1>2, KeysApart DEF DomainRow
  <1>4. IsRows(role) /\ DOMAIN role = {n} /\ role[n] = FALSE
    BY <1>3, OtherRows DEF Rows
  <1>5. IsRows(row) /\ DOMAIN row = {t.id} /\ row[t.id] = NoRow
    BY <1>2, DomainRows
  <1> HIDE DEF role, row
  <1>6. /\ IsRows(rows) /\ DOMAIN rows = {n, t.id}
        /\ rows[n] = FALSE /\ rows[t.id] = NoRow
    <2>1. /\ IsRows(rows) /\ DOMAIN rows = DOMAIN role \cup DOMAIN row
          /\ \A k \in DOMAIN role : rows[k] = role[k]
          /\ \A k \in DOMAIN row \ DOMAIN role : rows[k] = row[k]
      <3>1. IsRows(role) /\ IsRows(row)
        BY <1>4, <1>5
      <3> QED
        BY <3>1, OverRows
    <2> QED
      BY <1>3, <1>4, <1>5, <2>1
  <1> HIDE DEF rows
  <1>7. /\ DbStep(w) /\ ConnStep(w) /\ db' = db
        /\ conn'[w].open /\ conn'[w].scan = conn[w].scan
        /\ DOMAIN q = DOMAIN p \cup DOMAIN rows
        /\ \A k \in DOMAIN rows : q[k] = rows[k]
        /\ \A k \in DOMAIN p \ DOMAIN rows : q[k] = p[k]
    BY <1>1, <1>2, <1>6, WriteStep
  <1>8. /\ task' \in [Worker -> Task]
        /\ \A v \in Worker \ {w} : task'[v] = task[v]
        /\ u \in RemoveTask /\ u.pc = "commit" /\ u.id = t.id /\ u.old = t.old
    BY <1>1, <1>2, RemoveGoes
  <1>9. /\ t.id \in DOMAIN q /\ q[t.id] = NoRow
        /\ n \in DOMAIN q /\ q[n] = FALSE
        /\ \A k \in DOMAIN q \ {n, t.id} : k \in DOMAIN p /\ q[k] = p[k]
        /\ \A k \in DOMAIN p \ {n, t.id} : k \in DOMAIN q /\ q[k] = p[k]
    BY <1>6, <1>7
  <1>10. \A i \in DOMAIN q \cap Id :
            \/ SameShape(q[i], db[i])
            \/ q[i] = NoRow /\ (i = t.id \/ (IsRow(db[i]) /\ db[i].idn = t.id))
    BY <1>2, <1>3, <1>9 DEF RemovedRows
  <1>11. \A i \in Id : IsRow(db[i]) /\ db[i].idn = t.id => i \in DOMAIN q /\ q[i] = NoRow
    BY <1>2, <1>3, <1>9 DEF RemovedRows
  <1>12. \A k \in DOMAIN q \cap Name : k = n
    BY <1>2, <1>3, <1>9 DEF RemovedRows
  <1>13. RemovedRows(u, q, db')
    BY <1>7, <1>8, <1>9, <1>10, <1>11, <1>12 DEF RemovedRows
  <1> QED
    BY <1>1, <1>2, <1>7, <1>8, <1>13, RemoveStep

LEMMA FailRemoveWhole ==
    ASSUME WholeInv, NEW w \in Worker, FailRemove(w)
    PROVE  WholeInv'
  <1>1. Finish(w) /\ nextId' = nextId /\ faults' \in 0 .. MaxFaults
    BY FaultCounted DEF FailRemove
  <1>2. CASE Rollback(w)
    BY <1>1, <1>2, RollbackEnds
  <1>3. CASE ~Rollback(w)
    <2>1. task[w].pc = "adoptChildren" /\ LeaveOpen(w) /\ At(w, "remove", "adoptChildren")
      BY <1>3 DEF FailRemove, At
    <2>2. /\ RemovedRows(task[w], conn[w].pending, db) /\ ~conn[w].scan
      BY <2>1, RemoveFacts
    <2>3. KeptRows(conn[w].pending, db)
      BY <2>1, <2>2 DEF RemovedRows
    <2> QED
      BY <1>1, <2>1, <2>2, <2>3, LeftOpenEnds
  <1> QED
    BY <1>2, <1>3

-----------------------------------------------------------------------------
(* Domain::update *)

LEMMA UpdateFacts ==
    ASSUME WholeInv, NEW w \in Worker, NEW p, At(w, "update", p), p # "idle"
    PROVE  /\ task[w] \in UpdateTask /\ task[w].pc = p
           /\ IsCommittable(task[w])
           /\ KeptRows(conn[w].pending, db)
           /\ p # "begin" => conn[w].open
           /\ ~conn[w].scan
           /\ task[w].id \in Id /\ task[w].old \in DomainRow
           /\ task[w].parent \in 0 .. MaxId
  <1>1. /\ task[w] \in UpdateTask /\ task[w].pc = p
        /\ task[w] \notin CreateTask /\ task[w] \notin RemoveTask
    BY InvFacts, TaskKinds DEF At
  <1>2. task[w].id \in Id /\ task[w].old \in DomainRow /\ task[w].parent \in 0 .. MaxId
    BY <1>1 DEF UpdateTask
  <1>3. IsCommittable(task[w])
    BY <1>1 DEF IsCommittable
  <1> QED
    BY <1>1, <1>2, <1>3, InvFacts DEF PendingFits, ConnFits

LEMMA UpdateGoes ==
    ASSUME WholeInv, NEW w \in Worker, task[w] \in UpdateTask,
           NEW p \in {"begin", "checkParent", "updateDomain", "updateFolders", "commit"},
           Goto(w, p)
    PROVE  /\ task' \in [Worker -> Task]
           /\ \A v \in Worker \ {w} : task'[v] = task[v]
           /\ task'[w] \in UpdateTask /\ task'[w].pc = p
           /\ task'[w] \notin CreateTask /\ task'[w] \notin RemoveTask
           /\ task'[w].id = task[w].id /\ task'[w].old = task[w].old
           /\ task'[w].parent = task[w].parent
  <1> DEFINE t == task[w]
             u == [t EXCEPT !.pc = p]
  <1>1. /\ u \in UpdateTask /\ u \in Task /\ u.pc = p
        /\ u.id = t.id /\ u.old = t.old /\ u.parent = t.parent
    BY UpdateGoto
  <1>2. /\ task' \in [Worker -> Task] /\ task'[w] = u
        /\ \A v \in Worker \ {w} : task'[v] = task[v]
    BY <1>1, InvFacts, GotoTask
  <1> HIDE DEF u
  <1>3. u \notin CreateTask /\ u \notin RemoveTask
    BY <1>1, TaskKinds
  <1> QED
    BY <1>1, <1>2, <1>3

LEMMA BeginUpdateWhole ==
    ASSUME WholeInv, NEW w \in Worker, BeginUpdate(w)
    PROVE  WholeInv'
  <1>1. PICK i \in Id, p \in {0} \cup Orphans(View(w)), fs \in SUBSET Use :
           /\ IsIdle(w) /\ Valid(View(w), i) /\ p # i /\ conn' = Seen(w)
           /\ task' = [task EXCEPT ![w] =
                  [pc |-> "begin", op |-> "update", id |-> i, old |-> View(w)[i],
                   parent |-> p, folders |-> fs]]
           /\ UNCHANGED <<db, nextId, faults>>
    BY DEF BeginUpdate
  <1> DEFINE old == View(w)[i]
             t == [pc |-> "begin", op |-> "update", id |-> i, old |-> old,
                   parent |-> p, folders |-> fs]
  <1>2. KeptRows(conn[w].pending, db) /\ ~conn[w].scan
    BY <1>1, IdleFacts
  <1>3. IsRow(old)
    BY <1>1 DEF Valid, Exists, IsDomain
  <1>4. old \in DomainRow
    BY <1>2, <1>3, ViewIsOld
  <1>5. p \in 0 .. MaxId
    BY DomainAssumption DEF Orphans, Id
  <1>6. task' = [task EXCEPT ![w] = t]
    BY <1>1
  <1> HIDE DEF old
  <1>7. t \in UpdateTask /\ t.pc = "begin"
    BY <1>4, <1>5 DEF UpdateTask
  <1> HIDE DEF t
  <1>8. t \in Task
    BY <1>7 DEF Task
  <1>9. t \notin CreateTask /\ t \notin RemoveTask
    BY <1>7, <1>8, TaskKinds
  <1>10. task' \in [Worker -> Task] /\ task'[w] = t /\ \A v \in Worker \ {w} : task'[v] = task[v]
    BY <1>6, <1>8, InvFacts, SetTask
  <1>11. /\ DbStep(w) /\ ConnStep(w) /\ db' = db
         /\ conn'[w].scan = conn[w].scan /\ conn'[w].pending = conn[w].pending
    BY <1>1, SeenStep
  <1> QED
    BY <1>1, <1>2, <1>7, <1>9, <1>10, <1>11, PlainStep

LEMMA StartUpdateWhole ==
    ASSUME WholeInv, NEW w \in Worker, StartUpdate(w)
    PROVE  WholeInv'
  <1> DEFINE pc == IF task[w].parent \in {0, task[w].old.parent} THEN "updateDomain" ELSE "checkParent"
  <1>1. At(w, "update", "begin") /\ Begin(w) /\ Goto(w, pc) /\ nextId' = nextId /\ faults' = faults
    BY DEF StartUpdate
  <1>2. task[w] \in UpdateTask /\ IsCommittable(task[w])
    BY <1>1, UpdateFacts
  <1>3. /\ DbStep(w) /\ ConnStep(w)
        /\ conn'[w].open /\ ~conn'[w].scan
        /\ KeptRows(conn'[w].pending, db')
    BY <1>1, <1>2, BeginStep
  <1>4. /\ task' \in [Worker -> Task]
        /\ \A v \in Worker \ {w} : task'[v] = task[v]
        /\ task'[w] \notin CreateTask /\ task'[w] \notin RemoveTask
    BY <1>1, <1>2, UpdateGoes
  <1> QED
    BY <1>1, <1>3, <1>4, PlainStep

LEMMA CheckParentWhole ==
    ASSUME WholeInv, NEW w \in Worker, CheckParent(w)
    PROVE  WholeInv'
  <1>1. /\ At(w, "update", "checkParent") /\ conn' = Seen(w) /\ db' = db
        /\ Goto(w, "updateDomain") \/ Finish(w)
        /\ nextId' = nextId /\ faults' = faults
    BY DEF CheckParent
  <1>2. /\ task[w] \in UpdateTask /\ KeptRows(conn[w].pending, db)
        /\ conn[w].open /\ ~conn[w].scan
    BY <1>1, UpdateFacts
  <1>3. /\ DbStep(w) /\ ConnStep(w) /\ db' = db
        /\ conn'[w].open /\ ~conn'[w].scan /\ conn'[w].pending = conn[w].pending
    BY <1>1, <1>2, SeenStep
  <1>4. CASE Goto(w, "updateDomain")
    <2>1. /\ task' \in [Worker -> Task]
          /\ \A v \in Worker \ {w} : task'[v] = task[v]
          /\ task'[w] \notin CreateTask /\ task'[w] \notin RemoveTask
      BY <1>2, <1>4, UpdateGoes
    <2> QED
      BY <1>1, <1>2, <1>3, <2>1, PlainStep
  <1>5. CASE Finish(w)
    BY <1>1, <1>2, <1>3, <1>5, InvFacts, EndStep
  <1> QED
    BY <1>1, <1>4, <1>5

\* A statement that changes the parent or the folders of a row
LEMMA KeptWrite ==
    ASSUME WholeInv, NEW w \in Worker, conn[w].open, KeptRows(conn[w].pending, db),
           NEW i \in Id, NEW r \in DomainRow, SameShape(r, Current(w)[i]), Write(w, Rows(i, r))
    PROVE  /\ DbStep(w) /\ ConnStep(w) /\ db' = db
           /\ conn'[w].open /\ conn'[w].scan = conn[w].scan
           /\ KeptRows(conn'[w].pending, db')
  <1> DEFINE p == conn[w].pending
             q == conn'[w].pending
             rows == Rows(i, r)
  <1>1. IsRows(rows) /\ DOMAIN rows = {i} /\ rows[i] = r
    BY DomainRows
  <1> HIDE DEF rows
  <1>2. /\ DbStep(w) /\ ConnStep(w) /\ db' = db
        /\ conn'[w].open /\ conn'[w].scan = conn[w].scan
        /\ DOMAIN q = DOMAIN p \cup DOMAIN rows
        /\ \A k \in DOMAIN rows : q[k] = rows[k]
        /\ \A k \in DOMAIN p \ DOMAIN rows : q[k] = p[k]
    BY <1>1, WriteStep DEF rows
  <1>3. SameShape(Current(w)[i], db[i])
    BY CurrentShape DEF SameShape
  <1>4. SameShape(r, db[i])
    BY <1>3, ShapeTrans
  <1>5. i \notin Name
    BY KeysApart
  <1>6. KeptRows(q, db)
    BY <1>1, <1>2, <1>4, <1>5 DEF KeptRows
  <1> QED
    BY <1>2, <1>6

LEMMA RowChanged ==
    ASSUME NEW r \in DomainRow
    PROVE  /\ \A p \in 0 .. MaxId : \A q :
                 q = [r EXCEPT !.parent = p] => q \in DomainRow /\ SameShape(q, r)
           /\ \A f \in SUBSET Use : \A q :
                 q = [r EXCEPT !.folders = f] => q \in DomainRow /\ SameShape(q, r)
  <1>1. \A p \in 0 .. MaxId : \A q : q = [r EXCEPT !.parent = p] =>
           q \in DomainRow /\ q.name = r.name /\ q.idn = r.idn /\ q.ace = r.ace
    BY DEF DomainRow
  <1>2. \A f \in SUBSET Use : \A q : q = [r EXCEPT !.folders = f] =>
           q \in DomainRow /\ q.name = r.name /\ q.idn = r.idn /\ q.ace = r.ace
    BY DEF DomainRow
  <1> QED
    BY <1>1, <1>2, RowIsRow DEF SameShape

LEMMA UpdateDomainWhole ==
    ASSUME WholeInv, NEW w \in Worker, UpdateDomain(w)
    PROVE  WholeInv'
  <1> DEFINE t == task[w]
             r == Current(w)[t.id]
             row == [r EXCEPT !.parent = t.parent]
             pc == IF t.folders = t.old.folders THEN "commit" ELSE "updateFolders"
  <1>1. /\ At(w, "update", "updateDomain")
        /\ IF IsRow(r) THEN Write(w, Rows(t.id, row)) ELSE UNCHANGED <<db, conn>>
        /\ Goto(w, pc) /\ nextId' = nextId /\ faults' = faults
    BY DEF UpdateDomain
  <1>2. /\ t \in UpdateTask /\ KeptRows(conn[w].pending, db)
        /\ conn[w].open /\ ~conn[w].scan
        /\ t.id \in Id /\ t.parent \in 0 .. MaxId
    BY <1>1, UpdateFacts
  <1>3. /\ DbStep(w) /\ ConnStep(w)
        /\ conn'[w].open /\ ~conn'[w].scan
        /\ KeptRows(conn'[w].pending, db')
    <2>1. CASE IsRow(r)
      <3>1. IsTable(Current(w))
        BY InvFacts, Views
      <3>2. r \in DomainRow
        BY <1>2, <2>1, <3>1, RowFields
      <3>3. row \in DomainRow /\ SameShape(row, r)
        BY <1>2, <3>2, RowChanged
      <3>4. Write(w, Rows(t.id, row))
        BY <1>1, <2>1
      <3> HIDE DEF row
      <3> QED
        BY <1>2, <3>3, <3>4, KeptWrite
    <2>2. CASE ~IsRow(r)
      BY <1>1, <1>2, <2>2, StayStep
    <2> QED
      BY <2>1, <2>2
  <1>4. /\ task' \in [Worker -> Task]
        /\ \A v \in Worker \ {w} : task'[v] = task[v]
        /\ task'[w] \notin CreateTask /\ task'[w] \notin RemoveTask
    BY <1>1, <1>2, UpdateGoes
  <1> QED
    BY <1>1, <1>3, <1>4, PlainStep

LEMMA UpdateFoldersWhole ==
    ASSUME WholeInv, NEW w \in Worker, UpdateFolders(w)
    PROVE  WholeInv'
  <1> DEFINE t == task[w]
             r == Current(w)[t.id]
             added == t.folders \ t.old.folders
             gone == t.old.folders \ t.folders
             row == [r EXCEPT !.folders = (@ \ gone) \cup added]
  <1>1. /\ At(w, "update", "updateFolders")
        /\ IF IsRow(r) THEN Write(w, Rows(t.id, row)) ELSE UNCHANGED <<db, conn>>
        /\ Goto(w, "commit") \/ Finish(w)
        /\ nextId' = nextId /\ faults' = faults
    BY DEF UpdateFolders
  <1>2. /\ t \in UpdateTask /\ KeptRows(conn[w].pending, db)
        /\ conn[w].open /\ ~conn[w].scan
        /\ t.id \in Id /\ t.old \in DomainRow
    BY <1>1, UpdateFacts
  <1>3. /\ DbStep(w) /\ ConnStep(w)
        /\ conn'[w].open /\ ~conn'[w].scan
        /\ KeptRows(conn'[w].pending, db')
    <2>1. CASE IsRow(r)
      <3>1. IsTable(Current(w))
        BY InvFacts, Views
      <3>2. r \in DomainRow
        BY <1>2, <2>1, <3>1, RowFields
      <3>3. (r.folders \ gone) \cup added \in SUBSET Use
        BY <1>2, <3>2 DEF UpdateTask, DomainRow
      <3>4. row \in DomainRow /\ SameShape(row, r)
        BY <3>2, <3>3, RowChanged
      <3>5. Write(w, Rows(t.id, row))
        BY <1>1, <2>1
      <3> HIDE DEF row
      <3> QED
        BY <1>2, <3>4, <3>5, KeptWrite
    <2>2. CASE ~IsRow(r)
      BY <1>1, <1>2, <2>2, StayStep
    <2> QED
      BY <2>1, <2>2
  <1>4. CASE Goto(w, "commit")
    <2>1. /\ task' \in [Worker -> Task]
          /\ \A v \in Worker \ {w} : task'[v] = task[v]
          /\ task'[w] \notin CreateTask /\ task'[w] \notin RemoveTask
      BY <1>2, <1>4, UpdateGoes
    <2> QED
      BY <1>1, <1>3, <2>1, PlainStep
  <1>5. CASE Finish(w)
    BY <1>1, <1>3, <1>5, InvFacts, EndStep
  <1> QED
    BY <1>1, <1>4, <1>5

LEMMA FailUpdateWhole ==
    ASSUME WholeInv, NEW w \in Worker, FailUpdate(w)
    PROVE  WholeInv'
  <1>1. Finish(w) /\ nextId' = nextId /\ faults' \in 0 .. MaxFaults
    BY FaultCounted DEF FailUpdate
  <1>2. CASE Rollback(w)
    BY <1>1, <1>2, RollbackEnds
  <1>3. CASE ~Rollback(w)
    <2>1. LeaveOpen(w) /\ task[w].pc # "idle" /\ At(w, "update", task[w].pc)
      BY <1>3 DEF FailUpdate, At
    <2>2. KeptRows(conn[w].pending, db) /\ ~conn[w].scan
      BY <2>1, UpdateFacts
    <2> QED
      BY <1>1, <2>1, <2>2, LeftOpenEnds
  <1> QED
    BY <1>2, <1>3

-----------------------------------------------------------------------------
(* The other requests and the ends of all *)

LEMMA AdminFacts ==
    ASSUME WholeInv, NEW w \in Worker, NEW p, At(w, "admin", p), p # "idle"
    PROVE  /\ task[w] \in AdminTask /\ task[w].pc = p
           /\ IsCommittable(task[w])
           /\ KeptRows(conn[w].pending, db)
           /\ p # "begin" => conn[w].open
           /\ ~conn[w].scan
  <1>1. /\ task[w] \in AdminTask /\ task[w].pc = p
        /\ task[w] \notin CreateTask /\ task[w] \notin RemoveTask
    BY InvFacts, TaskKinds DEF At
  <1>2. IsCommittable(task[w])
    BY <1>1 DEF IsCommittable
  <1> QED
    BY <1>1, <1>2, InvFacts DEF PendingFits, ConnFits

LEMMA BeginAdminWhole ==
    ASSUME WholeInv, NEW w \in Worker, BeginAdmin(w)
    PROVE  WholeInv'
  <1> DEFINE t == [pc |-> "updateAdmin", op |-> "admin"]
  <1>1. /\ IsIdle(w) /\ Begin(w) /\ task' = [task EXCEPT ![w] = t]
        /\ nextId' = nextId /\ faults' = faults
    BY DEF BeginAdmin
  <1>2. /\ DbStep(w) /\ ConnStep(w)
        /\ conn'[w].open /\ ~conn'[w].scan
        /\ KeptRows(conn'[w].pending, db')
    BY <1>1, IdleFacts, BeginStep
  <1>3. t \in AdminTask
    BY DEF AdminTask
  <1> HIDE DEF t
  <1>4. t \in Task
    BY <1>3 DEF Task
  <1>5. t \notin CreateTask /\ t \notin RemoveTask
    BY <1>3, <1>4, TaskKinds
  <1>6. task' \in [Worker -> Task] /\ task'[w] = t /\ \A v \in Worker \ {w} : task'[v] = task[v]
    BY <1>1, <1>4, InvFacts, SetTask
  <1> QED
    BY <1>1, <1>2, <1>5, <1>6, PlainStep

\* A statement on the rows of other tables
LEMMA OtherWrite ==
    ASSUME WholeInv, NEW w \in Worker, KeptRows(conn[w].pending, db),
           NEW rows, IsRows(rows), DOMAIN rows = {Other}, Write(w, rows)
    PROVE  /\ DbStep(w) /\ ConnStep(w)
           /\ conn'[w].open = conn[w].open /\ conn'[w].scan = conn[w].scan
           /\ KeptRows(conn'[w].pending, db')
  <1> DEFINE p == conn[w].pending
             q == conn'[w].pending
  <1>1. Other \notin Id /\ Other \notin Name
    BY KeysApart
  <1>2. CASE conn[w].open
    <2>1. /\ DbStep(w) /\ ConnStep(w) /\ db' = db
          /\ conn'[w].open /\ conn'[w].scan = conn[w].scan
          /\ DOMAIN q = DOMAIN p \cup DOMAIN rows
          /\ \A k \in DOMAIN p \ DOMAIN rows : q[k] = p[k]
      BY <1>2, WriteStep
    <2>2. KeptRows(q, db')
      BY <1>1, <2>1 DEF KeptRows
    <2>3. conn'[w].open = conn[w].open
      BY <1>2, <2>1, InvFacts DEF ConnStep, Data, IsConn
    <2> QED
      BY <2>1, <2>2, <2>3
  <1>3. CASE ~conn[w].open
    <2>1. Data' /\ conn' = conn /\ db' = Over(rows, db)
      BY <1>3, InvFacts, WriteEffect
    <2>2. IsTable(db') /\ \A k \in Key \ {Other} : db'[k] = db[k]
      BY <2>1, InvFacts, OverTable
    <2>3. (\A i \in Id : db'[i] = db[i]) /\ (\A n \in Name : db'[n] = db[n])
      BY <2>2, KeysApart
    <2>4. \A i \in Id : IsRow(db[i]) \/ IsRow(db'[i]) => SameShape(db'[i], db[i])
      BY <2>3, ShapeSame
    <2>5. IsTable(db) /\ Whole(db)
      BY InvFacts
    <2>6. \A n \in Name : db'[n] => db[n]
      BY <2>3
    <2>7. Whole(db')
      BY <2>2, <2>4, <2>5, <2>6, WholeShape
    <2>8. DbStep(w)
      BY <2>3, <2>4, <2>7 DEF DbStep
    <2>9. conn'[w].snapshot # NoSnapshot =>
              \A i \in Id : IsRow(conn'[w].snapshot[i]) => OldRow(i, conn'[w].snapshot[i])
      BY <2>1, SnapshotStays
    <2>10. ConnStep(w)
      BY <2>1, <2>9 DEF ConnStep
    <2>11. KeptRows(q, db')
      BY <2>1, <2>3 DEF KeptRows
    <2> QED
      BY <2>1, <2>8, <2>10, <2>11
  <1> QED
    BY <1>2, <1>3

LEMMA OtherRow ==
    ASSUME WholeInv, NEW w \in Worker
    PROVE  LET rows == Rows(Other, ~Current(w)[Other])
           IN  IsRows(rows) /\ DOMAIN rows = {Other}
  <1>1. Other \in Key \ Id
    BY KeysApart
  <1>2. (~Current(w)[Other]) \in BOOLEAN
    OBVIOUS
  <1> QED
    BY <1>1, <1>2, OtherRows

LEMMA UpdateAdminWhole ==
    ASSUME WholeInv, NEW w \in Worker, UpdateAdmin(w)
    PROVE  WholeInv'
  <1> DEFINE rows == Rows(Other, ~Current(w)[Other])
  <1>1. /\ At(w, "admin", "updateAdmin") /\ Write(w, rows) /\ Goto(w, "commit")
        /\ nextId' = nextId /\ faults' = faults
    BY DEF UpdateAdmin
  <1>2. /\ task[w] \in AdminTask /\ KeptRows(conn[w].pending, db)
        /\ conn[w].open /\ ~conn[w].scan
    BY <1>1, AdminFacts
  <1>3. IsRows(rows) /\ DOMAIN rows = {Other}
    BY OtherRow
  <1> HIDE DEF rows
  <1>4. /\ DbStep(w) /\ ConnStep(w)
        /\ conn'[w].open /\ ~conn'[w].scan
        /\ KeptRows(conn'[w].pending, db')
    BY <1>1, <1>2, <1>3, OtherWrite
  <1> DEFINE u == [task[w] EXCEPT !.pc = "commit"]
  <1>5. u \in AdminTask /\ u \in Task
    BY <1>2, AdminGoto
  <1>6. /\ task' \in [Worker -> Task] /\ task'[w] = u
        /\ \A v \in Worker \ {w} : task'[v] = task[v]
    BY <1>1, <1>5, InvFacts, GotoTask
  <1> HIDE DEF u
  <1>7. u \notin CreateTask /\ u \notin RemoveTask
    BY <1>5, TaskKinds
  <1> QED
    BY <1>1, <1>4, <1>6, <1>7, PlainStep

LEMMA FailAdminWhole ==
    ASSUME WholeInv, NEW w \in Worker, FailAdmin(w)
    PROVE  WholeInv'
  <1>1. Finish(w) /\ nextId' = nextId /\ faults' \in 0 .. MaxFaults
    BY FaultCounted DEF FailAdmin
  <1>2. CASE Rollback(w)
    BY <1>1, <1>2, RollbackEnds
  <1>3. CASE ~Rollback(w)
    <2>1. LeaveOpen(w) /\ At(w, "admin", "updateAdmin")
      BY <1>3 DEF FailAdmin
    <2>2. KeptRows(conn[w].pending, db) /\ ~conn[w].scan
      BY <2>1, AdminFacts
    <2> QED
      BY <1>1, <2>1, <2>2, LeftOpenEnds
  <1> QED
    BY <1>2, <1>3

LEMMA SaveServerWhole ==
    ASSUME WholeInv, NEW w \in Worker, SaveServer(w)
    PROVE  WholeInv'
  <1> DEFINE rows == Rows(Other, ~Current(w)[Other])
  <1>1. /\ IsIdle(w) /\ Write(w, rows) /\ task' = task
        /\ nextId' = nextId /\ faults' = faults
    BY DEF SaveServer
  <1>2. /\ KeptRows(conn[w].pending, db) /\ ~conn[w].scan
        /\ task[w] \notin CreateTask /\ task[w] \notin RemoveTask
    BY <1>1, IdleFacts
  <1>3. IsRows(rows) /\ DOMAIN rows = {Other}
    BY OtherRow
  <1> HIDE DEF rows
  <1>4. /\ DbStep(w) /\ ConnStep(w) /\ ~conn'[w].scan
        /\ KeptRows(conn'[w].pending, db')
    BY <1>1, <1>2, <1>3, OtherWrite
  <1>5. task'[w].pc = "idle"
    BY <1>1 DEF IsIdle
  <1> QED
    BY <1>1, <1>2, <1>4, <1>5, InvFacts, PlainStep

LEMMA CommitFacts ==
    ASSUME WholeInv, NEW w \in Worker, task[w].pc = "commit"
    PROVE  IsCommittable(task[w])
  BY DEF IsCommittable

LEMMA CommitEnds ==
    ASSUME WholeInv, NEW w \in Worker, task[w].pc = "commit", Commit(w), Finish(w),
           nextId' = nextId, faults' \in 0 .. MaxFaults
    PROVE  WholeInv'
  <1>1. DbStep(w) /\ ConnStep(w) /\ conn'[w] = Closed
    BY CommitFacts, CommitStep DEF Commit
  <1>2. KeptRows(conn'[w].pending, db') /\ ~conn'[w].scan
    BY <1>1, ConnFields, EmptyIsKept
  <1> QED
    BY <1>1, <1>2, EndStep

LEMMA CommitTaskWhole ==
    ASSUME WholeInv, NEW w \in Worker, CommitTask(w)
    PROVE  WholeInv'
  BY CommitEnds, InvFacts DEF CommitTask

LEMMA FailCommitWhole ==
    ASSUME WholeInv, NEW w \in Worker, FailCommit(w)
    PROVE  WholeInv'
  <1>1. Finish(w) /\ nextId' = nextId /\ faults' \in 0 .. MaxFaults
    BY FaultCounted DEF FailCommit
  <1>2. CASE Commit(w)
    BY <1>1, <1>2, CommitEnds DEF FailCommit
  <1>3. CASE Rollback(w)
    BY <1>1, <1>3, RollbackEnds
  <1> QED
    BY <1>2, <1>3 DEF FailCommit

\* When the server ends, every connection does.
LEMMA RestartWhole ==
    ASSUME WholeInv, Restart
    PROVE  WholeInv'
  <1>1. /\ conn' = [w \in Worker |-> Closed] /\ task' = [w \in Worker |-> Idle]
        /\ db' = db /\ nextId' = nextId /\ CountFault
    BY DEF Restart
  <1>2. \A w \in Worker : conn'[w] = Closed /\ task'[w] = Idle
    BY <1>1
  <1>3. /\ IsTable(db) /\ Whole(db) /\ nextId \in 1 .. MaxId + 1
        /\ faults \in 0 .. MaxFaults /\ \A i \in Id : IsRow(db[i]) => i < nextId
    BY DEF WholeInv, Types, Data, Ids
  <1>4. faults' \in 0 .. MaxFaults
    BY <1>1, <1>3, DomainAssumption DEF CountFault
  <1>5. /\ IsConn(Closed) /\ ~Closed.scan /\ DOMAIN Closed.pending = {}
        /\ Closed.snapshot = NoSnapshot
    BY ConnFields
  <1>6. /\ Idle \in Task /\ Idle.pc = "idle" /\ NewIds(Idle) = {}
        /\ Idle \notin CreateTask /\ Idle \notin RemoveTask
    BY TaskKinds DEF Task
  <1>7. Types'
    BY <1>1, <1>2, <1>3, <1>4, <1>5, <1>6 DEF Types, Data
  <1>8. Whole(db')
    BY <1>1, <1>3
  <1>9. \A w \in Worker : PendingFits(task'[w], conn'[w].pending, db') /\ ConnFits(task'[w], conn'[w])
    BY <1>2, <1>5, <1>6, EmptyIsKept DEF PendingFits, ConnFits
  <1>10. Locks'
    BY <1>2, <1>5 DEF Locks
  <1>11. Ids'
    BY <1>1, <1>2, <1>3, <1>5, <1>6 DEF Ids
  <1>12. Whole(db)'
    BY <1>8 DEF Whole, IsRow, IsDomain, IsIdn, NameUsed
  <1> QED
    BY <1>7, <1>9, <1>10, <1>11, <1>12 DEF WholeInv

LEMMA InitWhole == Init => WholeInv
  <1> SUFFICES ASSUME Init PROVE WholeInv
    OBVIOUS
  <1>1. /\ db = [k \in Key |-> IF k \in Id THEN NoRow ELSE FALSE]
        /\ conn = [w \in Worker |-> Closed] /\ task = [w \in Worker |-> Idle]
        /\ nextId = 1 /\ faults = 0
    BY DEF Init
  <1>2. \A w \in Worker : conn[w] = Closed /\ task[w] = Idle
    BY <1>1
  <1>3. /\ IsConn(Closed) /\ ~Closed.scan /\ DOMAIN Closed.pending = {}
        /\ Closed.snapshot = NoSnapshot
    BY ConnFields
  <1>4. /\ Idle \in Task /\ Idle.pc = "idle" /\ NewIds(Idle) = {}
        /\ Idle \notin CreateTask /\ Idle \notin RemoveTask
    BY TaskKinds DEF Task
  <1>5. DOMAIN db = Key /\ db = [k \in DOMAIN db |-> db[k]]
    BY <1>1
  <1>6. \A i \in Id : db[i] = NoRow
    BY <1>1, KeysApart
  <1>7. \A k \in Key \ Id : db[k] = FALSE
    BY <1>1
  <1>8. IsTable(db)
    BY <1>5, <1>6, <1>7 DEF IsTable, IsRows
  <1>9. \A i \in Id : ~IsRow(db[i])
    BY <1>6, NoRowIsNoRow
  <1>10. Types
    BY <1>1, <1>2, <1>3, <1>4, <1>8, DomainAssumption DEF Types, Data
  <1>11. Whole(db)
    BY <1>7, <1>9, KeysApart DEF Whole
  <1>12. \A w \in Worker : PendingFits(task[w], conn[w].pending, db) /\ ConnFits(task[w], conn[w])
    BY <1>2, <1>3, <1>4, EmptyIsKept DEF PendingFits, ConnFits
  <1>13. Locks
    BY <1>2, <1>3 DEF Locks
  <1>14. Ids
    BY <1>2, <1>3, <1>4, <1>9 DEF Ids
  <1> QED
    BY <1>10, <1>11, <1>12, <1>13, <1>14 DEF WholeInv

LEMMA StutterWhole ==
    ASSUME WholeInv, UNCHANGED vars
    PROVE  WholeInv'
  <1>1. db' = db /\ conn' = conn /\ task' = task /\ nextId' = nextId /\ faults' = faults
    BY DEF vars
  <1>2. Types' /\ Whole(db)' /\ Locks'
    BY <1>1 DEF WholeInv, Types, Data, Locks
  <1>3. \A i, r : OldRow(i, r) => OldRow(i, r)'
    BY <1>1 DEF OldRow, IsNew
  <1>4. Ids'
    BY <1>1, <1>3 DEF WholeInv, Ids, OldRow, IsNew
  <1> QED
    BY <1>1, <1>2, <1>4 DEF WholeInv

LEMMA NextWhole == WholeInv /\ [Next]_vars => WholeInv'
  <1> SUFFICES ASSUME WholeInv, [Next]_vars PROVE WholeInv'
    OBVIOUS
  <1>1. CASE UNCHANGED vars
    BY <1>1, StutterWhole
  <1>2. CASE Restart
    BY <1>2, RestartWhole
  <1>3. ASSUME NEW w \in Worker, Create(w) PROVE WholeInv'
    BY <1>3, BeginCreateWhole, InsertDomainWhole, InsertFoldersWhole, InsertAceWhole,
       LinkAceWhole, FindParentWhole, AddRoleWhole, FailCreateWhole DEF Create
  <1>4. ASSUME NEW w \in Worker, Remove(w) PROVE WholeInv'
    BY <1>4, BeginRemoveWhole, StartRemoveWhole, AdoptChildrenWhole, DeleteAceWhole,
       DeleteDomainWhole, FailRemoveWhole DEF Remove
  <1>5. ASSUME NEW w \in Worker, Update(w) PROVE WholeInv'
    BY <1>5, BeginUpdateWhole, StartUpdateWhole, CheckParentWhole, UpdateDomainWhole,
       UpdateFoldersWhole, FailUpdateWhole DEF Update
  <1>6. ASSUME NEW w \in Worker, Small(w) PROVE WholeInv'
    BY <1>6, BeginAdminWhole, UpdateAdminWhole, FailAdminWhole, SaveServerWhole,
       CommitTaskWhole, FailCommitWhole DEF Small
  <1> QED
    BY <1>1, <1>2, <1>3, <1>4, <1>5, <1>6 DEF Next

LEMMA WholeAlways == Spec => []WholeInv
  <1> QED
    BY InitWhole, NextWhole, PTL DEF Spec

\* Every reachable state is well typed, and a connection that is in no
\* transaction has nothing pending, for any number of threads and failures.
THEOREM TypesCorrect == Spec => []TypeOK
  <1>1. WholeInv => TypeOK
    <2> SUFFICES ASSUME WholeInv PROVE TypeOK
      OBVIOUS
    <2>1. /\ DOMAIN db = Key
          /\ \A i \in Id : db[i] \in {NoRow} \cup DomainRow
          /\ \A k \in Key \ Id : db[k] \in BOOLEAN
      BY KeysApart DEF WholeInv, Types, Data, IsTable, IsRows
    <2>2. \A w \in Worker : IsConnection(conn[w])
      BY DEF WholeInv, Types, Data, IsConn, IsRows, IsTable, IsConnection
    <2> QED
      BY <2>1, <2>2 DEF WholeInv, Types, TypeOK
  <1> QED
    BY <1>1, WholeAlways, PTL

\* A domain is committed with its ACE form and its role addresses or not at all,
\* and removed so, for any number of threads: whatever statement fails, and
\* whoever commits what Domain::update and the other error paths leave open.
THEOREM DomainsWhole == Spec => []WholeDomains
  <1>1. WholeInv => WholeDomains
    BY DEF WholeInv, Whole, WholeDomains
  <1> QED
    BY <1>1, WholeAlways, PTL

-----------------------------------------------------------------------------
(* Parents *)

\* The rest is about one thread.  Two break it: a form that lists a parent is
\* sent after another request has moved or removed that parent.  One thread
\* still commits in a request what an earlier one has left open.

IsTop(s, i) == Exists(s, i) /\ s[i].parent = 0

\* ParentsAreTop of any table
Tops(s) ==
    \A i \in Id : IsRow(s[i]) /\ s[i].parent # 0 => IsTop(s, s[i].parent)

\* What a request relies on that has read the list of parents, the domain it
\* changes, or has seen its children off
ParentFits(t, s) ==
    /\ t \in CreateTask /\ t.pc = "insertDomain" /\ t.parent # 0 => IsTop(s, t.parent)
    /\ t \in UpdateTask /\ t.pc \in {"begin", "checkParent", "updateDomain"} =>
          /\ IsRow(s[t.id]) /\ s[t.id].parent = t.old.parent
          /\ t.parent # 0 => t.parent # t.id /\ IsTop(s, t.parent)
          /\ t.pc = "updateDomain" /\ t.parent # 0 => t.old.parent # 0
    /\ t \in RemoveTask /\ t.pc \in {"deleteAce", "deleteDomain", "commit"} =>
          \A i \in Id : IsRow(s[i]) => s[i].parent # t.id

\* A rollback leaves what is committed, a commit makes the rest of it.
ParentInv ==
    /\ WholeInv
    /\ Tops(db)
    /\ \A w \in Worker :
          /\ Tops(Current(w))
          /\ conn[w].snapshot \in {NoSnapshot, db}
          /\ ParentFits(task[w], Current(w))

\* Two tables with the same tree of domains
SameParents(e, s) ==
    \A i \in Id :
        /\ IsRow(e[i]) <=> IsRow(s[i])
        /\ IsRow(s[i]) => e[i].parent = s[i].parent /\ e[i].idn = s[i].idn

LEMMA SameTops ==
    ASSUME NEW s, NEW e, SameParents(e, s)
    PROVE  /\ Tops(s) => Tops(e)
           /\ \A i : IsTop(s, i) => IsTop(e, i)
           /\ \A t \in Task : ParentFits(t, s) => ParentFits(t, e)
  <1>1. \A i : IsTop(s, i) => IsTop(e, i)
    BY DEF SameParents, IsTop, Exists, IsDomain
  <1>2. Tops(s) => Tops(e)
    BY <1>1 DEF SameParents, Tops
  <1>3. ASSUME NEW t \in Task, ParentFits(t, s) PROVE ParentFits(t, e)
    <2>1. t \in UpdateTask => t.id \in Id
      BY DEF UpdateTask
    <2> QED
      BY <1>1, <1>3, <2>1 DEF ParentFits, SameParents
  <1> QED
    BY <1>1, <1>2, <1>3

\* Requests that rely on no parent
LEMMA FreeTasks ==
    ASSUME NEW t \in Task, NEW s
    PROVE  /\ t = Idle => ParentFits(t, s)
           /\ t \in AdminTask => ParentFits(t, s)
           /\ t \in CreateTask /\ t.pc # "insertDomain" => ParentFits(t, s)
           /\ t \in UpdateTask /\ t.pc \in {"updateFolders", "commit"} => ParentFits(t, s)
           /\ t \in RemoveTask /\ t.pc \in {"begin", "adoptChildren"} => ParentFits(t, s)
  BY DEF Task, Idle, CreateTask, UpdateTask, RemoveTask, AdminTask, ParentFits

LEMMA ParentFacts ==
    ASSUME ParentInv, NEW w \in Worker
    PROVE  /\ WholeInv /\ Data /\ IsTable(db) /\ IsTable(Current(w))
           /\ IsConn(conn[w]) /\ task[w] \in Task
           /\ Tops(db) /\ Tops(Current(w))
           /\ conn[w].snapshot \in {NoSnapshot, db}
           /\ ParentFits(task[w], Current(w))
  BY InvFacts, Views DEF ParentInv

\* One thread reads what it writes on.
LEMMA ViewIsCurrent ==
    ASSUME ParentInv, NEW w \in Worker, NEW k \in Key
    PROVE  View(w)[k] = Current(w)[k]
  <1>1. IsConn(conn[w]) /\ IsTable(db) /\ conn[w].snapshot \in {NoSnapshot, db}
    BY ParentFacts
  <1>2. CASE ~conn[w].open
    <2>1. DOMAIN conn[w].pending = {}
      BY <1>1, <1>2, ConnFields DEF IsConn
    <2> QED
      BY <1>2, <2>1, ParentFacts, Views DEF View
  <1>3. CASE conn[w].open
    BY <1>1, <1>3 DEF View, Current
  <1> QED
    BY <1>2, <1>3

LEMMA ViewOfTop ==
    ASSUME ParentInv, NEW w \in Worker, NEW p \in {0} \cup Orphans(View(w))
    PROVE  p # 0 => p \in Id /\ IsTop(Current(w), p)
  BY ViewIsCurrent, KeysApart DEF Orphans, IsTop, Exists

-----------------------------------------------------------------------------
(* What the statements do to the tree *)

TreeStep(w) ==
    /\ Tops(db')
    /\ Tops(Current(w)')
    /\ conn'[w].snapshot \in {NoSnapshot, db'}

LEMMA SameTree ==
    ASSUME ParentInv, NEW w \in Worker, db' = db, conn'[w].pending = conn[w].pending,
           conn'[w].snapshot \in {conn[w].snapshot, db}
    PROVE  TreeStep(w) /\ Current(w)' = Current(w)
  <1>1. Current(w)' = Current(w)
    BY DEF Current
  <1>2. Tops(db') /\ Tops(Current(w)')
    BY <1>1, ParentFacts DEF Tops, IsTop, Exists, IsDomain, IsRow
  <1> QED
    BY <1>1, <1>2, ParentFacts DEF TreeStep

LEMMA SeenTree ==
    ASSUME ParentInv, NEW w \in Worker, conn' = Seen(w), db' = db
    PROVE  TreeStep(w) /\ Current(w)' = Current(w)
  BY ParentFacts, SeenEffect, SameTree

LEMMA CommitTree ==
    ASSUME ParentInv, NEW w \in Worker, NEW c \in {Opened, Closed},
           db' = Current(w), conn' = [conn EXCEPT ![w] = c]
    PROVE  TreeStep(w) /\ Current(w)' = Current(w)
  <1>1. Data' /\ conn'[w] = c
    BY ParentFacts, CommitEffect
  <1>2. conn'[w].snapshot = NoSnapshot /\ DOMAIN conn'[w].pending = {}
    BY <1>1, ConnFields
  <1>3. IsTable(db')
    BY ParentFacts
  <1>4. db' = [k \in DOMAIN db' |-> db'[k]]
    BY <1>3 DEF IsTable, IsRows
  <1>5. Over(conn'[w].pending, db') = [k \in DOMAIN db' |-> db'[k]]
    BY <1>2 DEF Over
  <1>6. Current(w)' = db'
    BY <1>4, <1>5 DEF Current
  <1>7. Tops(db') /\ Tops(Current(w)')
    BY <1>6, ParentFacts DEF Tops, IsTop, Exists, IsDomain, IsRow
  <1> QED
    BY <1>2, <1>6, <1>7 DEF TreeStep

LEMMA RollbackTree ==
    ASSUME ParentInv, NEW w \in Worker, Rollback(w)
    PROVE  TreeStep(w)
  <1>1. db' = db /\ conn'[w] = Closed
    BY ParentFacts, RollbackEffect
  <1>2. conn'[w].snapshot = NoSnapshot /\ DOMAIN conn'[w].pending = {}
    BY <1>1, ConnFields
  <1>3. db' = [k \in DOMAIN db' |-> db'[k]]
    BY <1>1, ParentFacts DEF IsTable, IsRows
  <1>4. Over(conn'[w].pending, db') = [k \in DOMAIN db' |-> db'[k]]
    BY <1>2 DEF Over
  <1>5. Current(w)' = db'
    BY <1>3, <1>4 DEF Current
  <1>6. Tops(db') /\ Tops(Current(w)')
    BY <1>1, <1>5, ParentFacts DEF Tops, IsTop, Exists, IsDomain, IsRow
  <1> QED
    BY <1>2, <1>6 DEF TreeStep

\* A statement in a transaction: it is enough that the table it works on stays
\* a tree of two levels.
LEMMA WriteTree ==
    ASSUME ParentInv, NEW w \in Worker, conn[w].open, NEW rows, IsRows(rows), Write(w, rows)
    PROVE  /\ Tops(Current(w)') => TreeStep(w)
           /\ \A k \in DOMAIN rows : Current(w)'[k] = rows[k]
           /\ \A k \in Key \ DOMAIN rows : Current(w)'[k] = Current(w)[k]
  <1> DEFINE p == conn[w].pending
  <1>1. /\ db' = db /\ conn'[w].snapshot = conn[w].snapshot
        /\ conn'[w].pending = Over(rows, p) /\ Data'
    BY ParentFacts, WriteEffect
  <1>2. IsRows(p) /\ IsTable(db) /\ DOMAIN rows \subseteq Key
    BY ParentFacts DEF IsConn, IsRows
  <1>3. /\ IsRows(Over(rows, p))
        /\ DOMAIN Over(rows, p) = DOMAIN rows \cup DOMAIN p
        /\ \A k \in DOMAIN rows : Over(rows, p)[k] = rows[k]
        /\ \A k \in DOMAIN p \ DOMAIN rows : Over(rows, p)[k] = p[k]
    BY <1>2, OverRows
  <1>4. Current(w)' = Over(Over(rows, p), db)
    BY <1>1 DEF Current
  <1>5. /\ \A k \in DOMAIN rows : Current(w)'[k] = rows[k]
        /\ \A k \in DOMAIN p \ DOMAIN rows : Current(w)'[k] = p[k]
        /\ \A k \in Key \ (DOMAIN rows \cup DOMAIN p) : Current(w)'[k] = db[k]
    BY <1>2, <1>3, <1>4, OverTable
  <1>6. \A k \in Key \ DOMAIN rows : Current(w)'[k] = Current(w)[k]
    BY <1>5, ParentFacts, Views
  <1>7. Tops(db') /\ conn'[w].snapshot \in {NoSnapshot, db'}
    BY <1>1, ParentFacts DEF Tops, IsTop, Exists, IsDomain, IsRow
  <1> QED
    BY <1>5, <1>6, <1>7 DEF TreeStep

\* The row of a domain is changed in other fields.
LEMMA RowTree ==
    ASSUME ParentInv, NEW w \in Worker, conn[w].open, NEW i \in Id, NEW row \in DomainRow,
           IsRow(Current(w)[i]), row.parent = Current(w)[i].parent,
           row.idn = Current(w)[i].idn, Write(w, Rows(i, row))
    PROVE  TreeStep(w)
  <1>1. IsRows(Rows(i, row)) /\ DOMAIN Rows(i, row) = {i} /\ Rows(i, row)[i] = row
    BY DomainRows
  <1>2. /\ Tops(Current(w)') => TreeStep(w)
        /\ Current(w)'[i] = row
        /\ \A k \in Key \ {i} : Current(w)'[k] = Current(w)[k]
    BY <1>1, WriteTree
  <1>3. \A j \in Id : j = i \/ Current(w)'[j] = Current(w)[j]
    BY <1>2, KeysApart
  <1>4. SameParents(Current(w)', Current(w))
    BY <1>2, <1>3, RowIsRow DEF SameParents
  <1>5. Tops(Current(w)')
    BY <1>4, ParentFacts, SameTops
  <1> QED
    BY <1>2, <1>5

\* A row is inserted.
LEMMA InsertTree ==
    ASSUME ParentInv, NEW w \in Worker, conn[w].open, NEW i \in Id, NEW row \in DomainRow,
           ~IsRow(Current(w)[i]), row.parent # 0 => IsTop(Current(w), row.parent),
           Write(w, Rows(i, row))
    PROVE  TreeStep(w)
  <1> DEFINE s == Current(w)
             e == Current(w)'
  <1>1. IsRows(Rows(i, row)) /\ DOMAIN Rows(i, row) = {i} /\ Rows(i, row)[i] = row
    BY DomainRows
  <1>2. /\ Tops(e) => TreeStep(w)
        /\ e[i] = row
        /\ \A k \in Key \ {i} : e[k] = s[k]
    BY <1>1, WriteTree
  <1>3. \A j \in Id : j = i \/ e[j] = s[j]
    BY <1>2, KeysApart
  <1>4. Tops(s)
    BY ParentFacts
  <1> HIDE DEF s, e
  <1>5. \A p : IsTop(s, p) => IsTop(e, p)
    BY <1>3 DEF IsTop, Exists, IsDomain, s
  <1>6. Tops(e)
    BY <1>2, <1>3, <1>4, <1>5 DEF Tops, s
  <1> QED
    BY <1>2, <1>6

LEMMA EndTree ==
    ASSUME ParentInv, NEW w \in Worker, Finish(w)
    PROVE  ParentFits(task'[w], Current(w)')
  <1>1. task'[w] = Idle
    BY ParentFacts, InvFacts, FinishTask
  <1> QED
    BY <1>1, FreeTasks DEF Task

\* A request fails.
LEMMA FailTree ==
    ASSUME ParentInv, NEW w \in Worker, Rollback(w) \/ LeaveOpen(w), Finish(w)
    PROVE  TreeStep(w) /\ ParentFits(task'[w], Current(w)')
  <1>1. CASE Rollback(w)
    BY <1>1, RollbackTree, EndTree
  <1>2. CASE LeaveOpen(w)
    BY <1>2, SameTree, EndTree DEF LeaveOpen
  <1> QED
    BY <1>1, <1>2

-----------------------------------------------------------------------------
(* Every action keeps the tree *)

LEMMA BeginCreateTree ==
    ASSUME ParentInv, NEW w \in Worker, BeginCreate(w)
    PROVE  TreeStep(w) /\ ParentFits(task'[w], Current(w)')
  <1>1. PICK n \in Name, p \in {0} \cup Orphans(View(w)), fs \in SUBSET Use, r \in BOOLEAN :
           /\ Begin(w)
           /\ task' = [task EXCEPT ![w] =
                  [pc |-> "insertDomain", op |-> "create", name |-> n, parent |-> p,
                   folders |-> fs, role |-> r, id |-> 0, ace |-> 0]]
    BY DEF BeginCreate
  <1> DEFINE t == [pc |-> "insertDomain", op |-> "create", name |-> n, parent |-> p,
                   folders |-> fs, role |-> r, id |-> 0, ace |-> 0]
  <1>2. TreeStep(w) /\ Current(w)' = Current(w)
    BY <1>1, CommitTree DEF Begin
  <1>3. p # 0 => IsTop(Current(w), p)
    BY ViewOfTop
  <1>4. p \in 0 .. MaxId
    BY DomainAssumption DEF Orphans, Id
  <1>5. t \in CreateTask /\ t.parent = p
    BY <1>4, DomainAssumption DEF CreateTask
  <1>6. t \in Task /\ t \notin UpdateTask /\ t \notin RemoveTask
    BY <1>5, TaskKinds DEF Task
  <1>7. task' = [task EXCEPT ![w] = t]
    BY <1>1
  <1> HIDE DEF t
  <1>8. task'[w] = t
    BY <1>6, <1>7, ParentFacts, InvFacts
  <1>9. ParentFits(t, Current(w))
    BY <1>3, <1>5, <1>6 DEF ParentFits
  <1> QED
    BY <1>2, <1>8, <1>9

\* The ids that are to come have no row.
LEMMA NextIsFree ==
    ASSUME ParentInv, NEW w \in Worker, task[w] \in CreateTask,
           task[w].pc \in {"insertDomain", "insertAce"}, nextId \in Id
    PROVE  ~IsRow(Current(w)[nextId])
  <1> DEFINE t == task[w]
             p == conn[w].pending
  <1>1. CreatedRows(t, p, db)
    BY ParentFacts, InvFacts DEF PendingFits
  <1>2. DOMAIN p \cap Id \subseteq {t.id} \ {0}
    BY <1>1 DEF CreatedRows
  <1>3. t.id # 0 => t.id < nextId
    BY ParentFacts DEF WholeInv, Ids, NewIds
  <1>4. nextId \notin DOMAIN p
    BY <1>2, <1>3, ParentFacts, InvFacts
  <1>5. Current(w)[nextId] = db[nextId]
    BY <1>4, ParentFacts, Views, KeysApart
  <1> QED
    BY <1>5, ParentFacts, InvFacts DEF WholeInv, Ids

LEMMA CreateGoesTree ==
    ASSUME ParentInv, NEW w \in Worker, task[w] \in CreateTask,
           NEW p \in {"insertFolders", "insertAce", "linkAce", "findParent", "addRole", "commit"},
           Goto(w, p)
    PROVE  ParentFits(task'[w], Current(w)')
  <1>1. task'[w] \in CreateTask /\ task'[w].pc = p
    BY ParentFacts, CreateGoes
  <1> QED
    BY <1>1, FreeTasks DEF Task

LEMMA InsertDomainTree ==
    ASSUME ParentInv, NEW w \in Worker, InsertDomain(w)
    PROVE  TreeStep(w) /\ ParentFits(task'[w], Current(w)')
  <1> DEFINE t == task[w]
             row == [name |-> t.name, parent |-> t.parent, idn |-> 0, ace |-> 0, folders |-> {}]
             u == [t EXCEPT !.pc = "insertFolders", !.id = nextId]
  <1>1. /\ At(w, "create", "insertDomain") /\ nextId <= MaxId /\ Write(w, Rows(nextId, row))
        /\ task' = [task EXCEPT ![w] = u]
    BY ParentFacts, InvFacts DEF InsertDomain
  <1>2. t \in CreateTask /\ t.pc = "insertDomain" /\ conn[w].open
    BY <1>1, ParentFacts, CreateFacts
  <1>3. nextId \in Id /\ nextId \in 0 .. MaxId
    BY <1>1, ParentFacts, InvFacts, DomainAssumption DEF Id
  <1>4. row \in DomainRow /\ row.parent = t.parent
    BY <1>2, DomainAssumption DEF CreateTask, DomainRow
  <1> HIDE DEF row
  <1>5. ~IsRow(Current(w)[nextId])
    BY <1>2, <1>3, NextIsFree
  <1>6. t.parent # 0 => IsTop(Current(w), t.parent)
    BY <1>2, ParentFacts DEF ParentFits
  <1>7. TreeStep(w)
    BY <1>1, <1>2, <1>3, <1>4, <1>5, <1>6, InsertTree
  <1>8. u \in CreateTask /\ u.pc = "insertFolders"
    BY <1>2, <1>3, CreateGetsId DEF CreateTask
  <1> HIDE DEF u
  <1>9. task'[w] = u /\ u \in Task
    BY <1>1, <1>8, ParentFacts, InvFacts DEF Task
  <1> QED
    BY <1>7, <1>8, <1>9, FreeTasks

LEMMA InsertAceTree ==
    ASSUME ParentInv, NEW w \in Worker, InsertAce(w)
    PROVE  TreeStep(w) /\ ParentFits(task'[w], Current(w)')
  <1> DEFINE t == task[w]
             row == [name |-> t.name, parent |-> 0, idn |-> t.id, ace |-> 0, folders |-> {}]
             u == [t EXCEPT !.pc = "linkAce", !.ace = nextId]
  <1>1. /\ At(w, "create", "insertAce") /\ nextId <= MaxId /\ Write(w, Rows(nextId, row))
        /\ task' = [task EXCEPT ![w] = u]
    BY ParentFacts, InvFacts DEF InsertAce
  <1>2. t \in CreateTask /\ t.pc = "insertAce" /\ conn[w].open
    BY <1>1, ParentFacts, CreateFacts
  <1>3. nextId \in Id /\ nextId \in 0 .. MaxId
    BY <1>1, ParentFacts, InvFacts, DomainAssumption DEF Id
  <1>4. row \in DomainRow /\ row.parent = 0
    BY <1>2, DomainAssumption DEF CreateTask, DomainRow
  <1> HIDE DEF row
  <1>5. ~IsRow(Current(w)[nextId])
    BY <1>2, <1>3, NextIsFree
  <1>6. TreeStep(w)
    BY <1>1, <1>2, <1>3, <1>4, <1>5, InsertTree
  <1>7. u \in CreateTask /\ u.pc = "linkAce"
    BY <1>2, <1>3, CreateGetsId DEF CreateTask
  <1> HIDE DEF u
  <1>8. task'[w] = u /\ u \in Task
    BY <1>1, <1>7, ParentFacts, InvFacts DEF Task
  <1> QED
    BY <1>6, <1>7, <1>8, FreeTasks

\* The row of the new domain
LEMMA CreatedRow ==
    ASSUME ParentInv, NEW w \in Worker, task[w] \in CreateTask, task[w].pc # "insertDomain"
    PROVE  /\ task[w].id \in Id /\ IsRow(Current(w)[task[w].id])
           /\ Current(w)[task[w].id] \in DomainRow
  <1> DEFINE t == task[w]
             p == conn[w].pending
  <1>1. CreatedRows(t, p, db)
    BY ParentFacts, InvFacts DEF PendingFits
  <1>2. t.id # 0 /\ t.id \in DOMAIN p \cap Id /\ IsRow(p[t.id])
    BY <1>1 DEF CreatedRows
  <1>3. Current(w)[t.id] = p[t.id]
    BY <1>2, ParentFacts, Views
  <1> QED
    BY <1>2, <1>3, ParentFacts, RowFields

LEMMA InsertFoldersTree ==
    ASSUME ParentInv, NEW w \in Worker, InsertFolders(w)
    PROVE  TreeStep(w) /\ ParentFits(task'[w], Current(w)')
  <1> DEFINE t == task[w]
             r == Current(w)[t.id]
             row == [r EXCEPT !.folders = t.folders]
             pc == IF IsIdn(t.name) THEN "insertAce" ELSE "findParent"
  <1>1. At(w, "create", "insertFolders") /\ Write(w, Rows(t.id, row)) /\ Goto(w, pc)
    BY DEF InsertFolders
  <1>2. t \in CreateTask /\ t.pc = "insertFolders" /\ conn[w].open
    BY <1>1, ParentFacts, CreateFacts
  <1>3. t.id \in Id /\ IsRow(r) /\ r \in DomainRow /\ t.folders \in SUBSET Use
    BY <1>2, CreatedRow DEF CreateTask
  <1> HIDE DEF r
  <1>4. row \in DomainRow /\ row.parent = r.parent /\ row.idn = r.idn
    BY <1>3 DEF DomainRow
  <1> HIDE DEF row
  <1>5. TreeStep(w)
    BY <1>1, <1>2, <1>3, <1>4, RowTree DEF r
  <1> QED
    BY <1>1, <1>2, <1>5, CreateGoesTree

LEMMA LinkAceTree ==
    ASSUME ParentInv, NEW w \in Worker, LinkAce(w)
    PROVE  TreeStep(w) /\ ParentFits(task'[w], Current(w)')
  <1> DEFINE t == task[w]
             r == Current(w)[t.id]
             row == [r EXCEPT !.ace = t.ace]
  <1>1. At(w, "create", "linkAce") /\ Write(w, Rows(t.id, row)) /\ Goto(w, "findParent")
    BY DEF LinkAce
  <1>2. t \in CreateTask /\ t.pc = "linkAce" /\ conn[w].open
    BY <1>1, ParentFacts, CreateFacts
  <1>3. t.id \in Id /\ IsRow(r) /\ r \in DomainRow /\ t.ace \in 0 .. MaxId
    BY <1>2, CreatedRow DEF CreateTask
  <1> HIDE DEF r
  <1>4. row \in DomainRow /\ row.parent = r.parent /\ row.idn = r.idn
    BY <1>3 DEF DomainRow
  <1> HIDE DEF row
  <1>5. TreeStep(w)
    BY <1>1, <1>2, <1>3, <1>4, RowTree DEF r
  <1> QED
    BY <1>1, <1>2, <1>5, CreateGoesTree

LEMMA FindParentTree ==
    ASSUME ParentInv, NEW w \in Worker, FindParent(w)
    PROVE  TreeStep(w) /\ ParentFits(task'[w], Current(w)')
  <1> DEFINE t == task[w]
  <1>1. t \in CreateTask
    BY ParentFacts, CreateFacts DEF FindParent
  <1>2. CASE t.parent = 0 \/ Exists(View(w), t.parent)
    <2>1. /\ Goto(w, IF t.role THEN "addRole" ELSE "commit") /\ db' = db
          /\ conn' = IF t.parent = 0 THEN conn ELSE Seen(w)
      BY <1>2 DEF FindParent
    <2>2. CASE t.parent = 0
      BY <1>1, <2>1, <2>2, SameTree, CreateGoesTree
    <2>3. CASE t.parent # 0
      BY <1>1, <2>1, <2>3, SeenTree, CreateGoesTree
    <2> QED
      BY <2>2, <2>3
  <1>3. CASE ~(t.parent = 0 \/ Exists(View(w), t.parent))
    BY <1>3, FailTree DEF FindParent
  <1> QED
    BY <1>2, <1>3

\* A statement on the rows of other tables
LEMMA ApartTree ==
    ASSUME ParentInv, NEW w \in Worker, conn[w].open, NEW rows, IsRows(rows),
           DOMAIN rows \cap Id = {}, Write(w, rows)
    PROVE  TreeStep(w)
  <1>1. /\ Tops(Current(w)') => TreeStep(w)
        /\ \A k \in Key \ DOMAIN rows : Current(w)'[k] = Current(w)[k]
    BY WriteTree
  <1>2. SameParents(Current(w)', Current(w))
    BY <1>1, KeysApart DEF SameParents
  <1> QED
    BY <1>1, <1>2, ParentFacts, SameTops

LEMMA AddRoleTree ==
    ASSUME ParentInv, NEW w \in Worker, AddRole(w)
    PROVE  TreeStep(w) /\ ParentFits(task'[w], Current(w)')
  <1> DEFINE rows == Rows(task[w].name, TRUE)
  <1>1. At(w, "create", "addRole") /\ Write(w, rows) /\ Goto(w, "commit")
    BY DEF AddRole
  <1>2. task[w] \in CreateTask /\ conn[w].open
    BY <1>1, ParentFacts, CreateFacts
  <1>3. task[w].name \in Key \ Id
    BY <1>2, KeysApart DEF CreateTask
  <1>4. IsRows(rows) /\ DOMAIN rows \cap Id = {}
    BY <1>3, OtherRows
  <1> HIDE DEF rows
  <1> QED
    BY <1>1, <1>2, <1>4, ApartTree, CreateGoesTree

LEMMA FailCreateTree ==
    ASSUME ParentInv, NEW w \in Worker, FailCreate(w)
    PROVE  TreeStep(w) /\ ParentFits(task'[w], Current(w)')
  BY FailTree DEF FailCreate, CreationFailed, FailedStatement

LEMMA RemoveGoesTree ==
    ASSUME ParentInv, NEW w \in Worker, task[w] \in RemoveTask,
           NEW p \in {"adoptChildren", "deleteAce", "deleteDomain", "commit"},
           Goto(w, p),
           p # "adoptChildren" =>
              \A i \in Id : IsRow(Current(w)'[i]) => Current(w)'[i].parent # task[w].id
    PROVE  ParentFits(task'[w], Current(w)')
  <1>1. task'[w] \in RemoveTask /\ task'[w].pc = p /\ task'[w].id = task[w].id
    BY ParentFacts, RemoveGoes
  <1>2. task'[w] \in Task /\ task'[w] \notin CreateTask /\ task'[w] \notin UpdateTask
    BY <1>1, TaskKinds DEF Task
  <1> QED
    BY <1>1, <1>2 DEF ParentFits

LEMMA BeginRemoveTree ==
    ASSUME ParentInv, NEW w \in Worker, BeginRemove(w)
    PROVE  TreeStep(w) /\ ParentFits(task'[w], Current(w)')
  <1>1. PICK i \in Id :
           /\ IsIdle(w) /\ Valid(View(w), i) /\ conn' = Seen(w) /\ db' = db
           /\ task' = [task EXCEPT ![w] =
                  [pc |-> "begin", op |-> "remove", id |-> i, old |-> View(w)[i]]]
    BY DEF BeginRemove
  <1> DEFINE old == View(w)[i]
             t == [pc |-> "begin", op |-> "remove", id |-> i, old |-> old]
  <1>2. IsRow(old)
    BY <1>1 DEF Valid, Exists, IsDomain
  <1>3. old \in DomainRow
    BY <1>1, <1>2, ParentFacts, IdleFacts, ViewIsOld
  <1>4. task' = [task EXCEPT ![w] = t]
    BY <1>1
  <1> HIDE DEF old
  <1>5. t \in RemoveTask /\ t.pc = "begin"
    BY <1>3 DEF RemoveTask
  <1> HIDE DEF t
  <1>6. task'[w] = t /\ t \in Task
    BY <1>4, <1>5, ParentFacts, InvFacts DEF Task
  <1>7. TreeStep(w)
    BY <1>1, SeenTree
  <1> QED
    BY <1>5, <1>6, <1>7, FreeTasks

LEMMA StartRemoveTree ==
    ASSUME ParentInv, NEW w \in Worker, StartRemove(w)
    PROVE  TreeStep(w) /\ ParentFits(task'[w], Current(w)')
  <1>1. At(w, "remove", "begin") /\ Begin(w) /\ Goto(w, "adoptChildren")
    BY DEF StartRemove
  <1>2. task[w] \in RemoveTask
    BY <1>1, ParentFacts, RemoveFacts
  <1>3. TreeStep(w)
    BY <1>1, CommitTree DEF Begin
  <1> QED
    BY <1>1, <1>2, <1>3, RemoveGoesTree

\* The children of a domain that is removed become domains of the top level.
LEMMA AdoptChildrenTree ==
    ASSUME ParentInv, NEW w \in Worker, AdoptChildren(w)
    PROVE  TreeStep(w) /\ ParentFits(task'[w], Current(w)')
  <1> DEFINE t == task[w]
             s == Current(w)
             e == Current(w)'
             p == conn[w].pending
             C == {i \in Id : IsRow(s[i]) /\ s[i].parent = t.id}
             rows == Adopted(w, t.id)
             pc == IF t.old.ace # 0 THEN "deleteAce" ELSE "deleteDomain"
  <1>1. /\ At(w, "remove", "adoptChildren") /\ Goto(w, pc) /\ db' = db
        /\ conn' = [conn EXCEPT ![w].pending = Over(rows, @), ![w].scan = TRUE]
    BY DEF AdoptChildren
  <1>2. t \in RemoveTask /\ t.id \in Id
    BY <1>1, ParentFacts, RemoveFacts
  <1>3. conn = [v \in Worker |-> conn[v]] /\ IsConn(conn[w]) /\ IsTable(db) /\ IsRows(p)
    BY ParentFacts, InvFacts DEF Data
  <1>4. DOMAIN conn[w] = Fields
    BY <1>3 DEF IsConn
  <1>5. conn'[w].pending = Over(rows, p) /\ conn'[w].snapshot = conn[w].snapshot
    BY <1>1, <1>3, <1>4 DEF Fields
  <1>6. rows = [i \in C |-> [s[i] EXCEPT !.parent = 0]]
    BY DEF Adopted
  <1>7. IsRows(rows)
    BY ParentFacts, AdoptedRows
  <1>8. \A i \in C : s[i] \in DomainRow
    BY ParentFacts, RowFields
  <1>9. e = Over(Over(rows, p), db)
    BY <1>1, <1>5 DEF Current
  <1> HIDE DEF rows
  <1>10. /\ IsRows(Over(rows, p))
         /\ DOMAIN Over(rows, p) = DOMAIN rows \cup DOMAIN p
         /\ \A k \in DOMAIN rows : Over(rows, p)[k] = rows[k]
         /\ \A k \in DOMAIN p \ DOMAIN rows : Over(rows, p)[k] = p[k]
    BY <1>3, <1>7, OverRows
  <1>11. /\ \A k \in DOMAIN rows : e[k] = rows[k]
         /\ \A k \in DOMAIN p \ DOMAIN rows : e[k] = p[k]
         /\ \A k \in Key \ (DOMAIN rows \cup DOMAIN p) : e[k] = db[k]
    BY <1>3, <1>9, <1>10, OverTable
  <1>12. \A k \in Key \ DOMAIN rows : e[k] = s[k]
    BY <1>11, ParentFacts, Views
  <1>13. \A i \in C : e[i] = [s[i] EXCEPT !.parent = 0]
    BY <1>6, <1>11
  <1>14. DOMAIN rows = C
    BY <1>6
  <1>15. Tops(s)
    BY ParentFacts
  <1> HIDE DEF s, e
  <1>16. \A i \in C : IsRow(e[i]) /\ e[i].parent = 0 /\ e[i].idn = s[i].idn
    BY <1>8, <1>13, RowAdopted, RowIsRow DEF DomainRow
  <1>17. \A i \in Id \ C : e[i] = s[i]
    BY <1>12, <1>14, KeysApart
  <1> HIDE DEF C
  <1>18. C \subseteq Id /\ \A i \in C : IsRow(s[i])
    BY DEF C
  <1>19. \A i : IsTop(s, i) => IsTop(e, i)
    BY <1>16, <1>17, <1>18 DEF IsTop, Exists, IsDomain
  <1>20. Tops(e)
    BY <1>15, <1>16, <1>17, <1>19 DEF Tops
  <1>21. \A i \in Id : IsRow(e[i]) => e[i].parent # t.id
    BY <1>2, <1>16, <1>17, KeysApart DEF C
  <1>22. TreeStep(w)
    BY <1>1, <1>5, <1>20, ParentFacts DEF TreeStep, e
  <1>23. ParentFits(task'[w], e)
    BY <1>1, <1>2, <1>21, RemoveGoesTree DEF e
  <1> QED
    BY <1>22, <1>23 DEF e

LEMMA RemoveGone ==
    ASSUME ParentInv, NEW w \in Worker, task[w] \in RemoveTask,
           task[w].pc \in {"deleteAce", "deleteDomain", "commit"}
    PROVE  \A i \in Id : IsRow(Current(w)[i]) => Current(w)[i].parent # task[w].id
  BY ParentFacts DEF ParentFits

\* The row of an ACE form is no parent.
LEMMA DeleteAceTree ==
    ASSUME ParentInv, NEW w \in Worker, DeleteAce(w)
    PROVE  TreeStep(w) /\ ParentFits(task'[w], Current(w)')
  <1> DEFINE t == task[w]
             s == Current(w)
             e == Current(w)'
             Twins == {i \in Id : IsRow(s[i]) /\ s[i].idn = t.id}
             rows == [i \in Twins |-> NoRow]
  <1>1. At(w, "remove", "deleteAce") /\ Write(w, rows) /\ Goto(w, "deleteDomain")
    BY DEF DeleteAce
  <1>2. t \in RemoveTask /\ t.pc = "deleteAce" /\ t.id \in Id /\ conn[w].open
    BY <1>1, ParentFacts, RemoveFacts
  <1>3. DOMAIN rows = Twins /\ rows = [k \in DOMAIN rows |-> rows[k]]
    OBVIOUS
  <1>4. \A k \in Twins : rows[k] = NoRow /\ k \in Id /\ k \in Key
    BY KeysApart
  <1> HIDE DEF rows
  <1>5. IsRows(rows)
    BY <1>3, <1>4 DEF IsRows
  <1>6. /\ Tops(e) => TreeStep(w)
        /\ \A k \in Twins : e[k] = NoRow
        /\ \A k \in Key \ Twins : e[k] = s[k]
    BY <1>1, <1>2, <1>3, <1>4, <1>5, WriteTree
  <1>7. Tops(s) /\ \A i \in Id : IsRow(s[i]) => s[i].parent # t.id
    BY <1>2, ParentFacts, RemoveGone
  <1> HIDE DEF s, e
  <1>8. \A i \in Id : e[i] = s[i] \/ ~IsRow(e[i])
    BY <1>6, KeysApart, NoRowIsNoRow
  <1>9. \A i : IsTop(s, i) => IsTop(e, i)
    <2> SUFFICES ASSUME NEW i, IsTop(s, i) PROVE IsTop(e, i)
      OBVIOUS
    <2>1. i \in Id /\ i \notin Twins
      BY <1>2, KeysApart DEF IsTop, Exists, IsDomain
    <2>2. e[i] = s[i]
      BY <1>6, <2>1, KeysApart
    <2> QED
      BY <2>2 DEF IsTop, Exists, IsDomain
  <1>10. Tops(e)
    BY <1>7, <1>8, <1>9 DEF Tops
  <1>11. \A i \in Id : IsRow(e[i]) => e[i].parent # t.id
    BY <1>7, <1>8
  <1>12. ParentFits(task'[w], e)
    BY <1>1, <1>2, <1>11, RemoveGoesTree DEF e
  <1> QED
    BY <1>6, <1>10, <1>12 DEF e

\* A domain without children is removed.
LEMMA DeleteDomainTree ==
    ASSUME ParentInv, NEW w \in Worker, DeleteDomain(w)
    PROVE  TreeStep(w) /\ ParentFits(task'[w], Current(w)')
  <1> DEFINE t == task[w]
             s == Current(w)
             e == Current(w)'
             a == Rows(t.old.name, FALSE)
             b == Rows(t.id, NoRow)
             rows == Over(a, b)
  <1>1. At(w, "remove", "deleteDomain") /\ Write(w, rows) /\ Goto(w, "commit")
    BY DEF DeleteDomain
  <1>2. /\ t \in RemoveTask /\ t.pc = "deleteDomain" /\ conn[w].open
        /\ t.id \in Id /\ t.old \in DomainRow
    BY <1>1, ParentFacts, RemoveFacts
  <1>3. t.old.name \in Key \ Id /\ t.old.name # t.id
    BY <1>2, KeysApart DEF DomainRow
  <1>4. /\ IsRows(a) /\ DOMAIN a = {t.old.name}
        /\ IsRows(b) /\ DOMAIN b = {t.id} /\ b[t.id] = NoRow
    BY <1>2, <1>3, OtherRows, DomainRows
  <1> HIDE DEF a, b
  <1>5. IsRows(rows) /\ DOMAIN rows = {t.old.name, t.id} /\ rows[t.id] = NoRow
    <2>1. /\ IsRows(Over(a, b)) /\ DOMAIN Over(a, b) = DOMAIN a \cup DOMAIN b
          /\ \A k \in DOMAIN b \ DOMAIN a : Over(a, b)[k] = b[k]
      <3>1. IsRows(a) /\ IsRows(b)
        BY <1>4
      <3> QED
        BY <3>1, OverRows
    <2>2. DOMAIN a \cup DOMAIN b = {t.old.name, t.id}
      BY <1>4
    <2>3. t.id \in DOMAIN b \ DOMAIN a
      BY <1>3, <1>4
    <2> QED
      BY <1>4, <2>1, <2>2, <2>3
  <1> HIDE DEF rows
  <1>6. /\ Tops(e) => TreeStep(w)
        /\ e[t.id] = NoRow
        /\ \A k \in Key \ {t.old.name, t.id} : e[k] = s[k]
    BY <1>1, <1>2, <1>5, WriteTree
  <1>7. Tops(s) /\ \A i \in Id : IsRow(s[i]) => s[i].parent # t.id
    BY <1>2, ParentFacts, RemoveGone
  <1> HIDE DEF s, e
  <1>8. \A i \in Id : i # t.id => e[i] = s[i]
    BY <1>3, <1>6, KeysApart
  <1>9. \A i : i # t.id /\ IsTop(s, i) => IsTop(e, i)
    BY <1>8 DEF IsTop, Exists, IsDomain
  <1>10. \A i \in Id : e[i] = s[i] \/ ~IsRow(e[i])
    BY <1>6, <1>8, NoRowIsNoRow
  <1>11. Tops(e)
    BY <1>7, <1>9, <1>10 DEF Tops
  <1>12. \A i \in Id : IsRow(e[i]) => e[i].parent # t.id
    BY <1>7, <1>10
  <1>13. ParentFits(task'[w], e)
    BY <1>1, <1>2, <1>12, RemoveGoesTree DEF e
  <1> QED
    BY <1>6, <1>11, <1>13 DEF e

LEMMA FailRemoveTree ==
    ASSUME ParentInv, NEW w \in Worker, FailRemove(w)
    PROVE  TreeStep(w) /\ ParentFits(task'[w], Current(w)')
  BY FailTree DEF FailRemove, FailedStatement

\* What Domain::update relies on
UpdateRelies(t, s) ==
    /\ IsRow(s[t.id]) /\ s[t.id].parent = t.old.parent
    /\ t.parent # 0 => t.parent # t.id /\ IsTop(s, t.parent)

LEMMA UpdateFits ==
    ASSUME NEW t \in Task, NEW s, t \in UpdateTask
    PROVE  ParentFits(t, s) <=>
              (t.pc \in {"begin", "checkParent", "updateDomain"} =>
                  /\ UpdateRelies(t, s)
                  /\ t.pc = "updateDomain" /\ t.parent # 0 => t.old.parent # 0)
  <1>1. t \notin CreateTask /\ t \notin RemoveTask
    BY TaskKinds
  <1> QED
    BY <1>1 DEF ParentFits, UpdateRelies

LEMMA BeginUpdateTree ==
    ASSUME ParentInv, NEW w \in Worker, BeginUpdate(w)
    PROVE  TreeStep(w) /\ ParentFits(task'[w], Current(w)')
  <1>1. PICK i \in Id, p \in {0} \cup Orphans(View(w)), fs \in SUBSET Use :
           /\ IsIdle(w) /\ Valid(View(w), i) /\ p # i /\ conn' = Seen(w) /\ db' = db
           /\ task' = [task EXCEPT ![w] =
                  [pc |-> "begin", op |-> "update", id |-> i, old |-> View(w)[i],
                   parent |-> p, folders |-> fs]]
    BY DEF BeginUpdate
  <1> DEFINE old == View(w)[i]
             t == [pc |-> "begin", op |-> "update", id |-> i, old |-> old,
                   parent |-> p, folders |-> fs]
  <1>2. IsRow(old)
    BY <1>1 DEF Valid, Exists, IsDomain
  <1>3. old \in DomainRow
    BY <1>1, <1>2, ParentFacts, IdleFacts, ViewIsOld
  <1>4. old = Current(w)[i]
    BY ViewIsCurrent, KeysApart
  <1>5. p # 0 => IsTop(Current(w), p)
    BY ViewOfTop
  <1>6. p \in 0 .. MaxId
    BY DomainAssumption DEF Orphans, Id
  <1>7. task' = [task EXCEPT ![w] = t]
    BY <1>1
  <1> HIDE DEF old
  <1>8. t \in UpdateTask /\ t.pc = "begin" /\ t.id = i /\ t.old = old /\ t.parent = p
    BY <1>3, <1>6 DEF UpdateTask
  <1> HIDE DEF t
  <1>9. task'[w] = t /\ t \in Task
    BY <1>7, <1>8, ParentFacts, InvFacts DEF Task
  <1>10. UpdateRelies(t, Current(w))
    BY <1>1, <1>2, <1>4, <1>5, <1>8 DEF UpdateRelies
  <1>11. ParentFits(t, Current(w))
    BY <1>8, <1>9, <1>10, UpdateFits
  <1>12. TreeStep(w) /\ Current(w)' = Current(w)
    BY <1>1, SeenTree
  <1> QED
    BY <1>9, <1>11, <1>12

LEMMA StartUpdateTree ==
    ASSUME ParentInv, NEW w \in Worker, StartUpdate(w)
    PROVE  TreeStep(w) /\ ParentFits(task'[w], Current(w)')
  <1> DEFINE t == task[w]
             u == task'[w]
             pc == IF t.parent \in {0, t.old.parent} THEN "updateDomain" ELSE "checkParent"
  <1>1. At(w, "update", "begin") /\ Begin(w) /\ Goto(w, pc)
    BY DEF StartUpdate
  <1>2. t \in UpdateTask /\ t.pc = "begin"
    BY <1>1, ParentFacts, UpdateFacts
  <1>3. TreeStep(w) /\ Current(w)' = Current(w)
    BY <1>1, CommitTree DEF Begin
  <1>4. /\ u \in UpdateTask /\ u.pc = pc
        /\ u.id = t.id /\ u.old = t.old /\ u.parent = t.parent
    BY <1>1, <1>2, ParentFacts, UpdateGoes
  <1>5. UpdateRelies(t, Current(w))
    BY <1>2, ParentFacts, UpdateFits
  <1>6. UpdateRelies(u, Current(w))
    BY <1>4, <1>5 DEF UpdateRelies
  <1>7. u.pc = "updateDomain" /\ u.parent # 0 => u.old.parent # 0
    BY <1>4
  <1> HIDE DEF u
  <1>8. ParentFits(u, Current(w))
    BY <1>4, <1>6, <1>7, UpdateFits DEF Task
  <1> QED
    BY <1>3, <1>8 DEF u

LEMMA CheckParentTree ==
    ASSUME ParentInv, NEW w \in Worker, CheckParent(w)
    PROVE  TreeStep(w) /\ ParentFits(task'[w], Current(w)')
  <1> DEFINE t == task[w]
             u == task'[w]
  <1>1. /\ At(w, "update", "checkParent") /\ conn' = Seen(w) /\ db' = db
        /\ IF ParentFound(w) THEN Goto(w, "updateDomain") ELSE Finish(w)
    BY DEF CheckParent
  <1>2. t \in UpdateTask /\ t.pc = "checkParent"
    BY <1>1, ParentFacts, UpdateFacts
  <1>3. TreeStep(w) /\ Current(w)' = Current(w)
    BY <1>1, SeenTree
  <1>4. CASE ParentFound(w)
    <2>1. Goto(w, "updateDomain") /\ t.old.parent # 0
      BY <1>1, <1>4 DEF ParentFound
    <2>2. /\ u \in UpdateTask /\ u.pc = "updateDomain"
          /\ u.id = t.id /\ u.old = t.old /\ u.parent = t.parent
      BY <1>2, <2>1, ParentFacts, UpdateGoes
    <2>3. UpdateRelies(t, Current(w))
      BY <1>2, ParentFacts, UpdateFits
    <2>4. UpdateRelies(u, Current(w))
      BY <2>2, <2>3 DEF UpdateRelies
    <2> HIDE DEF u
    <2>5. ParentFits(u, Current(w))
      BY <2>1, <2>2, <2>4, UpdateFits DEF Task
    <2> QED
      BY <1>3, <2>5 DEF u
  <1>5. CASE ~ParentFound(w)
    BY <1>1, <1>3, <1>5, EndTree
  <1> QED
    BY <1>4, <1>5

LEMMA UpdateEndsTree ==
    ASSUME ParentInv, NEW w \in Worker, task[w] \in UpdateTask,
           NEW p \in {"updateFolders", "commit"}, Goto(w, p)
    PROVE  ParentFits(task'[w], Current(w)')
  <1>1. task'[w] \in UpdateTask /\ task'[w].pc = p
    BY ParentFacts, UpdateGoes
  <1> QED
    BY <1>1, FreeTasks DEF Task

\* A domain that gets a parent has had one, so that it is nobody's parent.
LEMMA UpdateDomainTree ==
    ASSUME ParentInv, NEW w \in Worker, UpdateDomain(w)
    PROVE  TreeStep(w) /\ ParentFits(task'[w], Current(w)')
  <1> DEFINE t == task[w]
             s == Current(w)
             e == Current(w)'
             r == s[t.id]
             row == [r EXCEPT !.parent = t.parent]
             pc == IF t.folders = t.old.folders THEN "commit" ELSE "updateFolders"
  <1>1. /\ At(w, "update", "updateDomain")
        /\ IF IsRow(r) THEN Write(w, Rows(t.id, row)) ELSE UNCHANGED <<db, conn>>
        /\ Goto(w, pc)
    BY DEF UpdateDomain
  <1>2. /\ t \in UpdateTask /\ t.pc = "updateDomain" /\ conn[w].open
        /\ t.id \in Id /\ t.parent \in 0 .. MaxId
    BY <1>1, ParentFacts, UpdateFacts
  <1>3. UpdateRelies(t, s) /\ (t.parent # 0 => t.old.parent # 0)
    BY <1>2, ParentFacts, UpdateFits
  <1>4. /\ IsRow(r) /\ r.parent = t.old.parent
        /\ t.parent # 0 => t.parent # t.id /\ IsTop(s, t.parent) /\ r.parent # 0
    BY <1>3 DEF UpdateRelies
  <1>5. Write(w, Rows(t.id, row))
    BY <1>1, <1>4
  <1>6. r \in DomainRow
    BY <1>2, <1>4, ParentFacts, RowFields
  <1>7. row \in DomainRow /\ IsRow(row) /\ row.parent = t.parent /\ row.idn = r.idn
    BY <1>2, <1>6, RowIsRow DEF DomainRow
  <1> HIDE DEF row
  <1>8. IsRows(Rows(t.id, row)) /\ DOMAIN Rows(t.id, row) = {t.id} /\ Rows(t.id, row)[t.id] = row
    BY <1>2, <1>7, DomainRows
  <1>9. /\ Tops(e) => TreeStep(w)
        /\ e[t.id] = row
        /\ \A k \in Key \ {t.id} : e[k] = s[k]
    BY <1>2, <1>5, <1>8, WriteTree
  <1>10. \A i \in Id : i = t.id \/ e[i] = s[i]
    BY <1>9, KeysApart
  <1>11. Tops(s)
    BY ParentFacts
  <1> HIDE DEF s, e
  <1>12. \A i : i # t.id /\ IsTop(s, i) => IsTop(e, i)
    BY <1>10 DEF IsTop, Exists, IsDomain
  <1>13. t.parent # 0 => IsTop(e, t.parent)
    BY <1>4, <1>12
  <1>14. IsTop(s, t.id) => IsTop(e, t.id)
    BY <1>2, <1>4, <1>7, <1>9 DEF IsTop, Exists, IsDomain
  <1>15. Tops(e)
    <2> SUFFICES ASSUME NEW i \in Id, IsRow(e[i]), e[i].parent # 0
                 PROVE  IsTop(e, e[i].parent)
      BY DEF Tops
    <2>1. CASE i = t.id
      BY <1>7, <1>9, <1>13, <2>1
    <2>2. CASE i # t.id
      <3>1. e[i] = s[i]
        BY <1>10, <2>2
      <3>2. IsTop(s, e[i].parent)
        BY <1>11, <3>1 DEF Tops
      <3> QED
        BY <1>12, <1>14, <3>2
    <2> QED
      BY <2>1, <2>2
  <1>16. ParentFits(task'[w], Current(w)')
    BY <1>1, <1>2, UpdateEndsTree
  <1> QED
    BY <1>9, <1>15, <1>16

LEMMA UpdateFoldersTree ==
    ASSUME ParentInv, NEW w \in Worker, UpdateFolders(w)
    PROVE  TreeStep(w) /\ ParentFits(task'[w], Current(w)')
  <1> DEFINE t == task[w]
             r == Current(w)[t.id]
             added == t.folders \ t.old.folders
             gone == t.old.folders \ t.folders
             row == [r EXCEPT !.folders = (@ \ gone) \cup added]
  <1>1. /\ At(w, "update", "updateFolders")
        /\ IF IsRow(r) THEN Write(w, Rows(t.id, row)) ELSE UNCHANGED <<db, conn>>
        /\ Goto(w, "commit") \/ Finish(w)
    BY DEF UpdateFolders
  <1>2. /\ t \in UpdateTask /\ conn[w].open
        /\ t.id \in Id /\ t.old \in DomainRow
    BY <1>1, ParentFacts, UpdateFacts
  <1>3. TreeStep(w)
    <2>1. CASE IsRow(r)
      <3>1. r \in DomainRow
        BY <1>2, <2>1, ParentFacts, RowFields
      <3>2. (r.folders \ gone) \cup added \in SUBSET Use
        BY <1>2, <3>1 DEF UpdateTask, DomainRow
      <3>3. row \in DomainRow /\ row.parent = r.parent /\ row.idn = r.idn
        BY <3>1, <3>2 DEF DomainRow
      <3>4. Write(w, Rows(t.id, row))
        BY <1>1, <2>1
      <3> HIDE DEF row
      <3> QED
        BY <1>2, <2>1, <3>3, <3>4, RowTree
    <2>2. CASE ~IsRow(r)
      BY <1>1, <2>2, SameTree
    <2> QED
      BY <2>1, <2>2
  <1>4. ParentFits(task'[w], Current(w)')
    BY <1>1, <1>2, UpdateEndsTree, EndTree
  <1> QED
    BY <1>3, <1>4

LEMMA FailUpdateTree ==
    ASSUME ParentInv, NEW w \in Worker, FailUpdate(w)
    PROVE  TreeStep(w) /\ ParentFits(task'[w], Current(w)')
  BY FailTree DEF FailUpdate, FailedStatement

LEMMA BeginAdminTree ==
    ASSUME ParentInv, NEW w \in Worker, BeginAdmin(w)
    PROVE  TreeStep(w) /\ ParentFits(task'[w], Current(w)')
  <1> DEFINE t == [pc |-> "updateAdmin", op |-> "admin"]
  <1>1. Begin(w) /\ task' = [task EXCEPT ![w] = t]
    BY DEF BeginAdmin
  <1>2. t \in AdminTask
    BY DEF AdminTask
  <1> HIDE DEF t
  <1>3. task'[w] = t /\ t \in Task
    BY <1>1, <1>2, ParentFacts, InvFacts DEF Task
  <1>4. TreeStep(w)
    BY <1>1, CommitTree DEF Begin
  <1> QED
    BY <1>2, <1>3, <1>4, FreeTasks

LEMMA UpdateAdminTree ==
    ASSUME ParentInv, NEW w \in Worker, UpdateAdmin(w)
    PROVE  TreeStep(w) /\ ParentFits(task'[w], Current(w)')
  <1> DEFINE rows == Rows(Other, ~Current(w)[Other])
             u == [task[w] EXCEPT !.pc = "commit"]
  <1>1. At(w, "admin", "updateAdmin") /\ Write(w, rows) /\ Goto(w, "commit")
    BY DEF UpdateAdmin
  <1>2. task[w] \in AdminTask /\ conn[w].open
    BY <1>1, ParentFacts, AdminFacts
  <1>3. IsRows(rows) /\ DOMAIN rows \cap Id = {}
    BY ParentFacts, OtherRow, KeysApart
  <1> HIDE DEF rows
  <1>4. TreeStep(w)
    BY <1>1, <1>2, <1>3, ApartTree
  <1>5. u \in AdminTask /\ u \in Task
    BY <1>2, AdminGoto
  <1>6. task'[w] = u
    BY <1>1, <1>5, ParentFacts, InvFacts, GotoTask
  <1> HIDE DEF u
  <1> QED
    BY <1>4, <1>5, <1>6, FreeTasks

LEMMA FailAdminTree ==
    ASSUME ParentInv, NEW w \in Worker, FailAdmin(w)
    PROVE  TreeStep(w) /\ ParentFits(task'[w], Current(w)')
  BY FailTree DEF FailAdmin, FailedStatement

\* A statement outside a transaction, or in one that was left open
LEMMA SaveServerTree ==
    ASSUME ParentInv, NEW w \in Worker, SaveServer(w)
    PROVE  TreeStep(w) /\ ParentFits(task'[w], Current(w)')
  <1> DEFINE rows == Rows(Other, ~Current(w)[Other])
  <1>1. IsIdle(w) /\ Write(w, rows) /\ task' = task
    BY DEF SaveServer
  <1>2. IsRows(rows) /\ DOMAIN rows = {Other}
    BY ParentFacts, OtherRow
  <1>3. DOMAIN rows \cap Id = {}
    BY <1>2, KeysApart
  <1> HIDE DEF rows
  <1>4. TreeStep(w)
    <2>1. CASE conn[w].open
      BY <1>1, <1>2, <1>3, <2>1, ApartTree
    <2>2. CASE ~conn[w].open
      <3>1. conn' = conn /\ db' = Over(rows, db)
        BY <1>1, <1>2, <2>2, ParentFacts, WriteEffect
      <3>2. conn[w] = Closed /\ DOMAIN conn[w].pending = {} /\ conn[w].snapshot = NoSnapshot
        BY <2>2, ParentFacts, ConnFields DEF IsConn
      <3>3. IsTable(db') /\ \A k \in Key \ {Other} : db'[k] = db[k]
        BY <1>2, <3>1, ParentFacts, OverTable
      <3>4. db' = [k \in DOMAIN db' |-> db'[k]]
        BY <3>3 DEF IsTable, IsRows
      <3>5. Over(conn'[w].pending, db') = [k \in DOMAIN db' |-> db'[k]]
        BY <3>1, <3>2 DEF Over
      <3>6. Current(w)' = db'
        BY <3>4, <3>5 DEF Current
      <3>7. SameParents(db', db)
        BY <3>3, KeysApart DEF SameParents
      <3>8. Tops(db')
        BY <3>7, ParentFacts, SameTops
      <3> QED
        BY <3>1, <3>2, <3>6, <3>8 DEF TreeStep
    <2> QED
      BY <2>1, <2>2
  <1>5. task[w] = Idle
    BY <1>1, ParentFacts, TaskKinds DEF IsIdle
  <1> QED
    BY <1>1, <1>4, <1>5, FreeTasks DEF Task

LEMMA CommitTaskTree ==
    ASSUME ParentInv, NEW w \in Worker, Commit(w), Finish(w)
    PROVE  TreeStep(w) /\ ParentFits(task'[w], Current(w)')
  BY CommitTree, EndTree DEF Commit

LEMMA SmallTree ==
    ASSUME ParentInv, NEW w \in Worker, Small(w)
    PROVE  TreeStep(w) /\ ParentFits(task'[w], Current(w)')
  <1>1. CASE CommitTask(w)
    BY <1>1, CommitTaskTree DEF CommitTask
  <1>2. CASE FailCommit(w)
    BY <1>2, CommitTaskTree, FailTree DEF FailCommit, FailedStatement
  <1> QED
    BY <1>1, <1>2, BeginAdminTree, UpdateAdminTree, FailAdminTree, SaveServerTree DEF Small

LEMMA RestartTree ==
    ASSUME ParentInv, NEW w \in Worker, Restart
    PROVE  TreeStep(w) /\ ParentFits(task'[w], Current(w)')
  <1>1. db' = db /\ conn'[w] = Closed /\ task'[w] = Idle
    BY DEF Restart
  <1>2. conn'[w].snapshot = NoSnapshot /\ DOMAIN conn'[w].pending = {}
    BY <1>1, ConnFields
  <1>3. db' = [k \in DOMAIN db' |-> db'[k]]
    BY <1>1, ParentFacts DEF IsTable, IsRows
  <1>4. Over(conn'[w].pending, db') = [k \in DOMAIN db' |-> db'[k]]
    BY <1>2 DEF Over
  <1>5. Current(w)' = db'
    BY <1>3, <1>4 DEF Current
  <1>6. TreeStep(w)
    BY <1>1, <1>2, <1>5, ParentFacts DEF TreeStep
  <1> QED
    BY <1>1, <1>6, FreeTasks DEF Task

LEMMA StutterTree ==
    ASSUME ParentInv, NEW w \in Worker, UNCHANGED vars
    PROVE  TreeStep(w) /\ ParentFits(task'[w], Current(w)')
  <1>1. db' = db /\ conn' = conn /\ task' = task
    BY DEF vars
  <1>2. TreeStep(w) /\ Current(w)' = Current(w)
    BY <1>1, SameTree
  <1> QED
    BY <1>1, <1>2, ParentFacts

LEMMA InitTree == Init => ParentInv
  <1> SUFFICES ASSUME Init PROVE ParentInv
    OBVIOUS
  <1>1. WholeInv
    BY InitWhole
  <1>2. \A i \in Id : ~IsRow(db[i])
    BY KeysApart, NoRowIsNoRow DEF Init
  <1>3. ASSUME NEW w \in Worker
        PROVE  /\ conn[w].snapshot = NoSnapshot /\ ParentFits(task[w], Current(w))
               /\ \A i \in Id : ~IsRow(Current(w)[i])
    <2>1. conn[w] = Closed /\ task[w] = Idle
      BY DEF Init
    <2>2. conn[w].snapshot = NoSnapshot /\ DOMAIN conn[w].pending = {}
      BY <2>1, ConnFields
    <2>3. \A i \in Id : Current(w)[i] = db[i]
      BY <1>1, <2>2, InvFacts, Views, KeysApart
    <2> QED
      BY <1>2, <2>1, <2>2, <2>3, FreeTasks DEF Task
  <1> QED
    BY <1>1, <1>2, <1>3 DEF ParentInv, Tops

\* One thread: nobody else commits, so that its snapshot is what is committed.
LEMMA NextTree ==
    ASSUME NEW w0, Worker = {w0}
    PROVE  ParentInv /\ [Next]_vars => ParentInv'
  <1> SUFFICES ASSUME ParentInv, [Next]_vars PROVE ParentInv'
    OBVIOUS
  <1>1. w0 \in Worker
    OBVIOUS
  <1>2. WholeInv'
    BY NextWhole DEF ParentInv
  <1>3. TreeStep(w0) /\ ParentFits(task'[w0], Current(w0)')
    <2>1. CASE UNCHANGED vars
      BY <1>1, <2>1, StutterTree
    <2>2. CASE Restart
      BY <1>1, <2>2, RestartTree
    <2>3. CASE Create(w0)
      BY <1>1, <2>3, BeginCreateTree, InsertDomainTree, InsertFoldersTree, InsertAceTree,
         LinkAceTree, FindParentTree, AddRoleTree, FailCreateTree DEF Create
    <2>4. CASE Remove(w0)
      BY <1>1, <2>4, BeginRemoveTree, StartRemoveTree, AdoptChildrenTree, DeleteAceTree,
         DeleteDomainTree, FailRemoveTree DEF Remove
    <2>5. CASE Update(w0)
      BY <1>1, <2>5, BeginUpdateTree, StartUpdateTree, CheckParentTree, UpdateDomainTree,
         UpdateFoldersTree, FailUpdateTree DEF Update
    <2>6. CASE Small(w0)
      BY <1>1, <2>6, SmallTree
    <2> QED
      BY <2>1, <2>2, <2>3, <2>4, <2>5, <2>6 DEF Next
  <1>4. Tops(db)' /\ Tops(Current(w0))' /\ conn'[w0].snapshot \in {NoSnapshot, db'}
    BY <1>3 DEF TreeStep, Tops, IsTop, Exists, IsDomain, IsRow
  <1>5. ParentFits(task[w0], Current(w0))'
    BY <1>3 DEF ParentFits, IsTop, Exists, IsDomain, IsRow, CreateTask, UpdateTask, RemoveTask,
       DomainRow, Id
  <1> QED
    BY <1>2, <1>4, <1>5 DEF ParentInv

\* With one thread the parent of every domain exists and has no parent itself:
\* Domain::update looks at the old parent instead of the new one, and what saves
\* it is that a domain of the top level then never gets a parent.
THEOREM ParentsTop ==
    ASSUME NEW w0, Worker = {w0}
    PROVE  Spec => []ParentsAreTop
  <1>1. ParentInv /\ [Next]_vars => ParentInv'
    BY NextTree
  <1>2. ParentInv => ParentsAreTop
    BY DEF ParentInv, Tops, IsTop, ParentsAreTop
  <1> QED
    BY InitTree, <1>1, <1>2, PTL DEF Spec

=============================================================================
