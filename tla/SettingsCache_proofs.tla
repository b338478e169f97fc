------------------------- MODULE SettingsCache_proofs -------------------------
(***************************************************************************)
(* Threads of one process never find an option in the cache that is not    *)
(* the one in the table, however many threads, options and accounts there  *)
(* are.                                                                    *)
(***************************************************************************)
EXTENDS SettingsCache, TLAPS

SingleProcess == \A v, w \in Worker : ProcessOf[v] = ProcessOf[w]

-----------------------------------------------------------------------------
(* The inductive invariant *)

\* The lock keeps its promise.
Exclusive ==
    \A v, w \in Worker : HoldsWrite(v) /\ v # w => ~HoldsWrite(w) /\ ~HoldsRead(w)

\* What a reader is about to store is what the table has.
FillsFresh ==
    faults = 0 =>
        \A w \in Worker : At(w, "fill") =>
            LET k == Head(request[w].todo) IN k \in Option => request[w].found = options[k]

\* So is what a writer is about to store.
StoresFresh ==
    \A w \in Worker : At(w, "store") =>
        LET k == Head(request[w].todo) IN k \in Option => request[w].form[k] = options[k]

\* Only a writer between the table and the cache leaves an option stale.
StaleIsWritten ==
    faults = 0 =>
        \A k \in Option : cached[k] # NoEntry /\ cached[k] # options[k] =>
            \E w \in Worker : At(w, "store") /\ Head(request[w].todo) = k

FreshInv == TypeOK /\ Exclusive /\ FillsFresh /\ StoresFresh /\ StaleIsWritten

-----------------------------------------------------------------------------
(* Requests *)

\* The request of w, and of nobody else, goes on to one of these points.
Moves(w, points) ==
    /\ request' = [request EXCEPT ![w] = request'[w]]
    /\ request'[w] \in Request
    /\ request'[w].at \in points

LEMMA TodoParts ==
    ASSUME NEW s \in Todo
    PROVE  /\ Head(s) \in Key
           /\ Tail(s) # << >> => Tail(s) \in Todo
BY DEF Todo

LEMMA Orders ==
    /\ DefaultsOrder \in Todo /\ ServiceOrder \in Todo
    /\ ProviderOrder # << >> => ProviderOrder \in Todo
    /\ \A k \in Key : <<k>> \in Todo
<1>1. DefaultsOrder \in Todo /\ ServiceOrder \in Todo
  BY CacheAssumption DEF CacheAssumption, Todo
<1>2. ProviderOrder # << >> => ProviderOrder \in Todo
  BY CacheAssumption DEF CacheAssumption, Todo, Key
<1>3. \A k \in Key : <<k>> \in Todo
  BY DEF Todo
<1> QED BY <1>1, <1>2, <1>3

\* Every point tells what kind of request it belongs to.
LEMMA Kinds ==
    ASSUME NEW r \in Request
    PROVE  /\ r.at \in {"look", "select", "fill", "provider"} => r \in ReadRequest
           /\ r.at \in {"write", "store"} => r \in SaveRequest
           /\ r.at \in {"lookup", "listLook", "listSelect", "listFill"} => r \in ListRequest
           /\ r.at \in {"got", "drop"} => r \in ChangeRequest
           /\ r.at = "idle" => r = Idle
BY DEF Request, Idle, ReadRequest, SaveRequest, ListRequest, ChangeRequest

LEMMA Readings ==
    /\ \A at \in {"look", "select", "provider"}, todo \in Todo, found \in Int,
          after \in {"page", "enabled", "provider"} :
           Reading(at, todo, found, after) \in Request
    /\ \A todo \in Todo : \A found \in Cacheable(Head(todo)) :
          \A after \in {"page", "enabled", "provider"} :
             found \in Int => Reading("fill", todo, found, after) \in Request
BY DEF Request, ReadRequest, Reading

LEMMA GoesTo ==
    ASSUME TypeOK, NEW w \in Worker, NEW r \in Request, Goto(w, r)
    PROVE  Moves(w, {r.at}) /\ request'[w] = r
BY DEF TypeOK, Goto, Moves

After == {"idle", "look", "provider", "lookup"}

LEMMA GotMoves ==
    ASSUME TypeOK, NEW w \in Worker, request[w] \in ReadRequest, NEW v, Got(w, v)
    PROVE  Moves(w, After)
<1> DEFINE r == request[w]
<1>1. r.todo \in Todo /\ r.after \in {"page", "enabled", "provider"}
  BY DEF ReadRequest
<1>2. CASE Tail(r.todo) # << >>
  <2> DEFINE q == Reading(IF r.after = "provider" THEN "provider" ELSE "look",
                          Tail(r.todo), NoRow, r.after)
  <2>1. q \in Request
    BY <1>1, <1>2, TodoParts, Readings DEF NoRow
  <2>2. Goto(w, q)
    BY <1>2 DEF Got
  <2>3. q.at \in After
    BY DEF Reading, After
  <2> QED BY <2>1, <2>2, <2>3, GoesTo DEF Moves
<1>3. CASE Tail(r.todo) = << >> /\ r.after = "enabled" /\ v # 0
  <2> DEFINE q == Listing("lookup", NoList, "enabled")
  <2>1. q \in Request
    BY DEF Listing, Request, ListRequest
  <2>2. Goto(w, q)
    BY <1>3 DEF Got
  <2>3. q.at \in After
    BY DEF Listing, After
  <2> QED BY <2>1, <2>2, <2>3, GoesTo DEF Moves
<1>4. CASE Tail(r.todo) = << >> /\ ~(r.after = "enabled" /\ v # 0)
  <2>1. Idle \in Request /\ Idle.at \in After
    BY DEF Request, Idle, After
  <2>2. Goto(w, Idle)
    BY <1>4 DEF Got
  <2> QED BY <2>1, <2>2, GoesTo DEF Moves
<1> QED BY <1>2, <1>3, <1>4

-----------------------------------------------------------------------------
(* Types of the keys *)

LEMMA Values ==
    /\ \A k \in Key : Stored(k) \subseteq Nat /\ Cacheable(k) \subseteq Nat
    /\ \A k \in Key : 0 \in Cacheable(k) /\ Stored(k) \subseteq Cacheable(k)
    /\ \A k \in Option : k \in Key /\ k \notin Role /\ Cacheable(k) = Value
    /\ \A k \in Role : k \in Key /\ k \notin Option /\ Cacheable(k) = Account \cup {0}
BY CacheAssumption DEF CacheAssumption, Stored, Cacheable, Key

LEMMA FormsTyped ==
    ASSUME TypeOK, NEW order, NEW form \in Forms(order)
    PROVE  form \in [Key -> Nat] /\ \A k \in Key : form[k] \in Cacheable(k)
<1>1. form \in [Key -> Value \cup accounts]
  BY DEF Forms
<1>2. Value \cup accounts \subseteq Nat
  BY CacheAssumption DEF CacheAssumption, TypeOK
<1>3. ASSUME NEW k \in Key PROVE form[k] \in Cacheable(k)
  <2>1. IF k \notin {order[i] : i \in DOMAIN order} THEN form[k] = 0
        ELSE form[k] \in (IF k \in Option THEN Value ELSE accounts \cup {0})
    BY DEF Forms
  <2>2. k \notin Option => k \in Role
    BY DEF Key
  <2> QED BY <2>1, <2>2, Values DEF TypeOK
<1> QED BY <1>1, <1>2, <1>3

-----------------------------------------------------------------------------
(* Where the actions take a request *)

LEMMA Beginnings ==
    ASSUME TypeOK, NEW w \in Worker
    PROVE  /\ ReadOptions(w) => Moves(w, {"look"})
           /\ AskConfiguration(w) => Moves(w, {"look"})
           /\ SaveOptions(w) => Moves(w, {"write"})
           /\ ShowServers(w) => Moves(w, {"listLook"})
           /\ InsertServer(w) => Moves(w, {"drop"})
           /\ GetServer(w) => Moves(w, {"got"})
<1>1. ASSUME ReadOptions(w) PROVE Moves(w, {"look"})
  <2>1. PICK todo \in {DefaultsOrder, ServiceOrder} \cup {<<k>> : k \in Key} :
           Goto(w, Reading("look", todo, NoRow, "page"))
    BY <1>1 DEF ReadOptions
  <2>2. Reading("look", todo, NoRow, "page") \in Request
    BY Orders, Readings DEF NoRow
  <2>3. Reading("look", todo, NoRow, "page").at = "look"
    BY DEF Reading
  <2> QED BY <2>1, <2>2, <2>3, GoesTo
<1>2. ASSUME AskConfiguration(w) PROVE Moves(w, {"look"})
  <2>1. <<Enabled>> \in Todo
    BY Orders, CacheAssumption DEF CacheAssumption, Key
  <2>2. Reading("look", <<Enabled>>, NoRow, "enabled") \in Request
    BY <2>1, Readings DEF NoRow
  <2>3. Reading("look", <<Enabled>>, NoRow, "enabled").at = "look"
    BY DEF Reading
  <2> QED BY <1>2, <2>2, <2>3, GoesTo DEF AskConfiguration
<1>3. ASSUME SaveOptions(w) PROVE Moves(w, {"write"})
  <2>1. PICK order \in {DefaultsOrder, ServiceOrder} : \E form \in Forms(order) :
           Goto(w, Saving("write", order, form))
    BY <1>3 DEF SaveOptions
  <2>2. PICK form \in Forms(order) : Goto(w, Saving("write", order, form))
    BY <2>1
  <2>3. Saving("write", order, form) \in Request
    BY Orders, FormsTyped DEF Saving, Request, SaveRequest
  <2>4. Saving("write", order, form).at = "write"
    BY DEF Saving
  <2> QED BY <2>2, <2>3, <2>4, GoesTo
<1>4. ASSUME ShowServers(w) PROVE Moves(w, {"listLook"})
  <2>1. Listing("listLook", NoList, "page") \in Request
    BY DEF Listing, Request, ListRequest
  <2>2. Listing("listLook", NoList, "page").at = "listLook"
    BY DEF Listing
  <2> QED BY <1>4, <2>1, <2>2, GoesTo DEF ShowServers
<1>5. ASSUME InsertServer(w) PROVE Moves(w, {"drop"})
  <2>1. nextServer \in ServerId
    BY <1>5, CacheAssumption DEF CacheAssumption, InsertServer, TypeOK, ServerId
  <2>2. Changing("drop", nextServer, NoServer) \in Request
    BY <2>1 DEF Changing, Request, ChangeRequest
  <2>3. Changing("drop", nextServer, NoServer).at = "drop"
    BY DEF Changing
  <2> QED BY <1>5, <2>2, <2>3, GoesTo DEF InsertServer
<1>6. ASSUME GetServer(w) PROVE Moves(w, {"got"})
  <2>1. PICK i \in ServerId : Goto(w, Changing("got", i, servers[i]))
    BY <1>6 DEF GetServer
  <2>2. servers[i] \in Host \cup {NoServer}
    BY DEF TypeOK, Servers
  <2>3. Changing("got", i, servers[i]) \in Request
    BY <2>2 DEF Changing, Request, ChangeRequest
  <2>4. Changing("got", i, servers[i]).at = "got"
    BY DEF Changing
  <2> QED BY <2>1, <2>3, <2>4, GoesTo
<1> QED BY <1>1, <1>2, <1>3, <1>4, <1>5, <1>6

LEMMA Filling ==
    ASSUME NEW r \in ReadRequest, NEW v
    PROVE  [r EXCEPT !.at = "fill", !.found = v] = Reading("fill", r.todo, v, r.after)
<1> DEFINE q == [r EXCEPT !.at = "fill"]
<1>1. q = Reading("fill", r.todo, r.found, r.after)
  BY DEF ReadRequest, Reading
<1>2. q \in [at : {"fill"}, todo : Todo, found : Int, after : {"page", "enabled", "provider"}]
      /\ q.todo = r.todo /\ q.after = r.after /\ q.at = "fill"
  BY <1>1 DEF ReadRequest, Reading
<1> HIDE DEF q
<1>3. [q EXCEPT !.found = v] = Reading("fill", r.todo, v, r.after)
  BY <1>2 DEF Reading
<1> QED BY <1>3 DEF q

LEMMA OptionMoves ==
    ASSUME TypeOK, NEW w \in Worker
    PROVE  /\ LookOption(w) => Moves(w, After \cup {"select"})
           /\ SelectOption(w) => Moves(w, After \cup {"fill"})
           /\ SelectOptionFails(w) => Moves(w, {"fill"})
           /\ FillOption(w) => Moves(w, After)
<1> DEFINE r == request[w]
           k == Head(r.todo)
<1> USE DEF At
<1>0. r \in Request
  BY DEF TypeOK
<1>1. ASSUME r.at \in {"look", "select", "fill"}
      PROVE  /\ r \in ReadRequest /\ r.todo \in Todo /\ k \in Key
             /\ r = Reading(r.at, r.todo, r.found, r.after)
             /\ r.found \in Int /\ r.after \in {"page", "enabled", "provider"}
  <2>1. r \in ReadRequest
    BY <1>0, <1>1, Kinds
  <2> QED BY <2>1, TodoParts DEF ReadRequest, Reading
<1>2. ASSUME LookOption(w) PROVE Moves(w, After \cup {"select"})
  <2>0. r.at = "look"
    BY <1>2 DEF LookOption
  <2>1. CASE cached[k] # NoEntry
    BY <1>1, <1>2, <2>0, <2>1, GotMoves DEF LookOption, Moves
  <2>2. CASE ~(cached[k] # NoEntry)
    <3>1. Goto(w, [r EXCEPT !.at = "select"])
      BY <1>2, <2>2 DEF LookOption
    <3>2. [r EXCEPT !.at = "select"] = Reading("select", r.todo, r.found, r.after)
      BY <1>1, <2>0 DEF Reading
    <3>3. Reading("select", r.todo, r.found, r.after) \in Request
      BY <1>1, <2>0, Readings
    <3>4. Reading("select", r.todo, r.found, r.after).at = "select"
      BY DEF Reading
    <3> QED BY <3>1, <3>2, <3>3, <3>4, GoesTo DEF Moves
  <2> QED BY <2>1, <2>2
<1>3. ASSUME NEW v \in Cacheable(k), r.at = "select", Goto(w, [r EXCEPT !.at = "fill", !.found = v])
      PROVE  Moves(w, {"fill"})
  <2>1. [r EXCEPT !.at = "fill", !.found = v] = Reading("fill", r.todo, v, r.after)
    BY <1>1, <1>3, Filling
  <2>2. v \in Int
    BY <1>1, <1>3, Values
  <2>3. Reading("fill", r.todo, v, r.after) \in Request
    BY <1>1, <1>3, <2>2, Readings
  <2>4. Reading("fill", r.todo, v, r.after).at = "fill"
    BY DEF Reading
  <2> QED BY <1>3, <2>1, <2>3, <2>4, GoesTo DEF Moves
<1>4. ASSUME SelectOption(w) PROVE Moves(w, After \cup {"fill"})
  <2>0. r.at = "select"
    BY <1>4 DEF SelectOption
  <2>1. CASE IsFound(Selected(k))
    <3>1. Selected(k) \in Cacheable(k)
      BY <1>1, <2>0, <2>1, Values DEF IsFound, Selected, TypeOK, Cacheable
    <3>2. Goto(w, [r EXCEPT !.at = "fill", !.found = Selected(k)])
      BY <1>4, <2>1 DEF SelectOption
    <3>3. Moves(w, {"fill"})
      BY <1>3, <2>0, <3>1, <3>2
    <3> QED BY <3>3 DEF Moves
  <2>2. CASE ~IsFound(Selected(k))
    BY <1>1, <1>4, <2>0, <2>2, GotMoves DEF SelectOption, Moves
  <2> QED BY <2>1, <2>2
<1>5. ASSUME SelectOptionFails(w) PROVE Moves(w, {"fill"})
  BY <1>1, <1>3, <1>5, Values DEF SelectOptionFails
<1>6. ASSUME FillOption(w) PROVE Moves(w, After)
  BY <1>1, <1>6, GotMoves DEF FillOption
<1> QED BY <1>2, <1>4, <1>5, <1>6

LEMMA SavedMoves ==
    ASSUME TypeOK, NEW w \in Worker, request[w] \in SaveRequest, Saved(w)
    PROVE  Moves(w, {"write", "idle"})
<1> DEFINE r == request[w]
<1>1. /\ r.todo \in Todo /\ r.form \in [Key -> Nat]
      /\ \A k \in Key : r.form[k] \in Cacheable(k)
  BY DEF SaveRequest
<1>2. CASE Tail(r.todo) # << >>
  <2>1. Tail(r.todo) \in Todo
    BY <1>1, <1>2, TodoParts
  <2>2. Saving("write", Tail(r.todo), r.form) \in Request
    BY <1>1, <2>1 DEF Saving, Request, SaveRequest
  <2>3. Saving("write", Tail(r.todo), r.form).at = "write"
    BY DEF Saving
  <2> QED BY <1>2, <2>2, <2>3, GoesTo DEF Saved, Moves
<1>3. CASE Tail(r.todo) = << >>
  <2>1. Idle \in Request /\ Idle.at = "idle"
    BY DEF Request, Idle
  <2> QED BY <1>3, <2>1, GoesTo DEF Saved, Moves
<1> QED BY <1>2, <1>3

LEMMA SaveMoves ==
    ASSUME TypeOK, NEW w \in Worker
    PROVE  /\ WriteOption(w) => Moves(w, {"store"})
           /\ WriteOptionFails(w) => Moves(w, {"write", "idle"})
           /\ StoreOption(w) => Moves(w, {"write", "idle"})
<1> DEFINE r == request[w]
<1> USE DEF At
<1>0. r \in Request
  BY DEF TypeOK
<1>1. r.at \in {"write", "store"} => r \in SaveRequest
  BY <1>0, Kinds
<1>2. ASSUME WriteOption(w) PROVE Moves(w, {"store"})
  <2>1. r \in SaveRequest
    BY <1>1, <1>2 DEF WriteOption
  <2>2. [r EXCEPT !.at = "store"] \in Request /\ [r EXCEPT !.at = "store"].at = "store"
    BY <2>1 DEF SaveRequest, Request
  <2> QED BY <1>2, <2>2, GoesTo DEF WriteOption
<1>3. ASSUME WriteOptionFails(w) PROVE Moves(w, {"write", "idle"})
  BY <1>1, <1>3, SavedMoves DEF WriteOptionFails
<1>4. ASSUME StoreOption(w) PROVE Moves(w, {"write", "idle"})
  BY <1>1, <1>4, SavedMoves DEF StoreOption
<1> QED BY <1>2, <1>3, <1>4

Outside == {"idle", "lookup", "listLook", "listSelect", "listFill", "provider", "got", "drop"}

LEMMA ListedMoves ==
    ASSUME TypeOK, NEW w \in Worker, request[w] \in ListRequest,
           request[w].after \in {"page", "provider", "discovered"}, NEW l, Listed(w, l)
    PROVE  Moves(w, Outside)
<1> DEFINE r == request[w]
<1>1. Idle \in Request /\ Idle.at \in Outside
  BY DEF Request, Idle, Outside
<1>2. ConfigAnswer(l) \in Request /\ ConfigAnswer(l).at \in Outside
  <2>1. CASE IsEmptyList(l) \/ ProviderOrder = << >>
    BY <1>1, <2>1 DEF ConfigAnswer
  <2>2. CASE ~(IsEmptyList(l) \/ ProviderOrder = << >>)
    <3>1. ConfigAnswer(l) = Reading("provider", ProviderOrder, NoRow, "provider")
      BY <2>2 DEF ConfigAnswer
    <3>2. Reading("provider", ProviderOrder, NoRow, "provider") \in Request
      BY <2>2, Orders, Readings DEF NoRow
    <3>3. Reading("provider", ProviderOrder, NoRow, "provider").at \in Outside
      BY DEF Reading, Outside
    <3> QED BY <3>1, <3>2, <3>3
  <2> QED BY <2>1, <2>2
<1>3. Goto(w, ConfigAnswer(l)) \/ Goto(w, Idle)
  BY DEF Listed, DiscoverAnswer
<1> QED BY <1>1, <1>2, <1>3, GoesTo DEF Moves

LEMMA ServerMoves ==
    ASSUME TypeOK, NEW w \in Worker
    PROVE  /\ LookUpAddress(w) => Moves(w, Outside)
           /\ LookList(w) => Moves(w, Outside)
           /\ SelectList(w) => Moves(w, Outside)
           /\ FillList(w) => Moves(w, Outside)
           /\ UpdateServer(w) => Moves(w, Outside)
           /\ DeleteServer(w) => Moves(w, Outside)
           /\ DropList(w) => Moves(w, Outside)
<1> DEFINE r == request[w]
<1> USE DEF At
<1>0. r \in Request /\ Idle \in Request /\ Idle.at \in Outside
  BY DEF TypeOK, Request, Idle, Outside
<1>1. r.at \in {"lookup", "listLook", "listSelect", "listFill"} => r \in ListRequest
  BY <1>0, Kinds
<1>2. r.at \in {"got", "drop"} => r \in ChangeRequest
  BY <1>0, Kinds
<1>3. ASSUME LookUpAddress(w) PROVE Moves(w, Outside)
  <2>1. \A a \in {"provider", "discovered"} :
           Listing("listLook", NoList, a) \in Request /\ Listing("listLook", NoList, a).at \in Outside
    BY DEF Listing, Request, ListRequest, Outside
  <2>2. PICK q \in {Idle} \cup {Listing("listLook", NoList, a) : a \in {"provider", "discovered"}} :
           Goto(w, q)
    BY <1>3 DEF LookUpAddress
  <2>3. q \in Request /\ q.at \in Outside
    BY <1>0, <2>1
  <2> QED BY <2>2, <2>3, GoesTo DEF Moves
<1>4. ASSUME r.at \in {"listLook", "listSelect", "listFill"}
      PROVE  r \in ListRequest /\ r.after \in {"page", "provider", "discovered"}
  BY <1>1, <1>4 DEF ListRequest, Request
<1>5. ASSUME LookList(w) PROVE Moves(w, Outside)
  <2>0. r.at = "listLook"
    BY <1>5 DEF LookList
  <2>1. CASE list # NoList
    BY <1>4, <1>5, <2>0, <2>1, ListedMoves DEF LookList
  <2>2. CASE list = NoList
    <3>1. [r EXCEPT !.at = "listSelect"] \in Request /\ [r EXCEPT !.at = "listSelect"].at = "listSelect"
      BY <1>4, <2>0 DEF ListRequest, Request
    <3> QED BY <1>5, <2>2, <3>1, GoesTo DEF LookList, Moves, Outside
  <2> QED BY <2>1, <2>2
<1>6. ASSUME SelectList(w) PROVE Moves(w, Outside)
  <2> DEFINE q == [r EXCEPT !.at = "listFill"]
             p == [q EXCEPT !.found = servers]
  <2>1. q \in [at : {"listFill"}, found : Servers \cup {NoList}, after : {"page", "provider", "discovered"}]
    BY <1>4, <1>6 DEF SelectList, ListRequest
  <2>2. Goto(w, p) \/ Goto(w, Idle)
    BY <1>6 DEF SelectList
  <2> HIDE DEF q
  <2>3. p \in Request /\ p.at = "listFill"
    BY <2>1 DEF TypeOK, ListRequest, Request
  <2> HIDE DEF p
  <2> QED BY <1>0, <2>2, <2>3, GoesTo DEF Moves, Outside
<1>7. ASSUME FillList(w) PROVE Moves(w, Outside)
  BY <1>4, <1>7, ListedMoves DEF FillList
<1>8. ASSUME UpdateServer(w) PROVE Moves(w, Outside)
  <2>1. [r EXCEPT !.at = "drop"] \in Request /\ [r EXCEPT !.at = "drop"].at = "drop"
    BY <1>2, <1>8 DEF UpdateServer, ChangeRequest, Request
  <2>2. Goto(w, Idle) \/ Goto(w, [r EXCEPT !.at = "drop"])
    BY <1>8 DEF UpdateServer
  <2> QED BY <1>0, <2>1, <2>2, GoesTo DEF Moves, Outside
<1>9. ASSUME DeleteServer(w) PROVE Moves(w, Outside)
  <2>1. [r EXCEPT !.at = "drop"] \in Request /\ [r EXCEPT !.at = "drop"].at = "drop"
    BY <1>2, <1>9 DEF DeleteServer, ChangeRequest, Request
  <2> QED BY <1>9, <2>1, GoesTo DEF DeleteServer, Moves, Outside
<1>10. ASSUME DropList(w) PROVE Moves(w, Outside)
  BY <1>0, <1>10, GoesTo DEF DropList, Moves
<1> QED BY <1>3, <1>5, <1>6, <1>7, <1>8, <1>9, <1>10

LEMMA ProviderMoves ==
    ASSUME TypeOK, NEW w \in Worker, ReadProvider(w)
    PROVE  Moves(w, {"look"})
<1> DEFINE r == request[w]
<1>1. r \in ReadRequest
  BY Kinds DEF TypeOK, ReadProvider, At
<1>2. [r EXCEPT !.at = "look"] \in Request /\ [r EXCEPT !.at = "look"].at = "look"
  BY <1>1 DEF ReadRequest, Request
<1> QED BY <1>2, GoesTo DEF ReadProvider

-----------------------------------------------------------------------------
(* Types *)

LEMMA RequestTyped ==
    ASSUME TypeOK, NEW w \in Worker, NEW points, Moves(w, points)
    PROVE  request' \in [Worker -> Request]
BY DEF TypeOK, Moves

LEMMA FaultTyped ==
    ASSUME TypeOK, faults' = faults \/ Fault
    PROVE  faults' \in 0 .. MaxFaults
BY CacheAssumption DEF CacheAssumption, TypeOK, Fault

LEMMA ChangeTyped ==
    ASSUME TypeOK, changes' = changes \/ Change
    PROVE  changes' \in 0 .. MaxChanges
BY CacheAssumption DEF CacheAssumption, TypeOK, Change

\* Most actions leave the options and their cache alone.
Calm == UNCHANGED <<options, cached>>

LEMMA CalmTyped ==
    ASSUME TypeOK, Calm, request' \in [Worker -> Request], accounts' \subseteq Account,
           servers' \in Servers, nextServer' \in 1 .. MaxServer + 1,
           list' \in Servers \cup {NoList},
           changes' = changes \/ Change, faults' = faults \/ Fault
    PROVE  TypeOK'
<1>1. options' \in [Key -> Int] /\ cached' \in [Key -> Int]
  BY DEF TypeOK, Calm
<1>2. \A k \in Key : /\ options'[k] \in Stored(k) \cup {NoRow}
                     /\ cached'[k] \in Cacheable(k) \cup {NoEntry}
  BY DEF TypeOK, Calm
<1> QED BY <1>1, <1>2, FaultTyped, ChangeTyped DEF TypeOK

LEMMA BeginningsTyped ==
    ASSUME TypeOK, NEW w \in Worker,
           \/ ReadOptions(w) \/ AskConfiguration(w) \/ SaveOptions(w)
           \/ ShowServers(w) \/ InsertServer(w) \/ GetServer(w)
    PROVE  TypeOK' /\ Calm
<1>0. request' \in [Worker -> Request]
  BY Beginnings, RequestTyped
<1>1. CASE ~InsertServer(w)
  <2>1. /\ UNCHANGED <<options, accounts, servers, nextServer, cached, list, faults>>
        /\ changes' = changes \/ Change
    BY <1>1 DEF ReadOptions, AskConfiguration, SaveOptions, ShowServers, GetServer, Tables
  <2>2. /\ accounts' \subseteq Account /\ servers' \in Servers /\ nextServer' \in 1 .. MaxServer + 1
        /\ list' \in Servers \cup {NoList} /\ Calm
    BY <2>1 DEF TypeOK, Calm
  <2> QED BY <1>0, <2>1, <2>2, CalmTyped
<1>2. CASE InsertServer(w)
  <2>1. /\ UNCHANGED <<options, accounts, cached, list, faults>> /\ Change
        /\ \E h \in Host : servers' = [servers EXCEPT ![nextServer] = h]
        /\ nextServer <= MaxServer /\ nextServer' = nextServer + 1
    BY <1>2 DEF InsertServer
  <2>2. servers' \in Servers
    BY <2>1 DEF TypeOK, Servers
  <2>3. nextServer' \in 1 .. MaxServer + 1
    BY <2>1, CacheAssumption DEF CacheAssumption, TypeOK
  <2>4. accounts' \subseteq Account /\ list' \in Servers \cup {NoList} /\ Calm
    BY <2>1 DEF TypeOK, Calm
  <2> QED BY <1>0, <2>1, <2>2, <2>3, <2>4, CalmTyped
<1> QED BY <1>1, <1>2

\* Steps of a request that touch neither the options nor their cache
CalmStep(w) ==
    \/ LookOption(w) \/ SelectOption(w) \/ SelectOptionFails(w) \/ WriteOptionFails(w)
    \/ LookUpAddress(w) \/ LookList(w) \/ SelectList(w) \/ FillList(w) \/ ReadProvider(w)
    \/ UpdateServer(w) \/ DeleteServer(w) \/ DropList(w)

LEMMA CalmStepTyped ==
    ASSUME TypeOK, NEW w \in Worker, CalmStep(w)
    PROVE  TypeOK' /\ Calm
<1>0. request' \in [Worker -> Request]
  BY OptionMoves, SaveMoves, ServerMoves, ProviderMoves, RequestTyped DEF CalmStep
<1>1. CASE \/ LookOption(w) \/ SelectOption(w) \/ SelectOptionFails(w) \/ WriteOptionFails(w)
           \/ LookUpAddress(w) \/ LookList(w) \/ SelectList(w) \/ ReadProvider(w)
  <2>1. /\ UNCHANGED <<options, accounts, servers, nextServer, cached, list, changes>>
        /\ faults' = faults \/ Fault
    BY <1>1 DEF LookOption, SelectOption, SelectOptionFails, WriteOptionFails,
                LookUpAddress, LookList, SelectList, ReadProvider, Tables
  <2>2. /\ accounts' \subseteq Account /\ servers' \in Servers /\ nextServer' \in 1 .. MaxServer + 1
        /\ list' \in Servers \cup {NoList} /\ Calm
    BY <2>1 DEF TypeOK, Calm
  <2> QED BY <1>0, <2>1, <2>2, CalmTyped
<1>2. CASE FillList(w) \/ DropList(w)
  <2>1. /\ UNCHANGED <<options, accounts, servers, nextServer, cached, changes>>
        /\ faults' = faults \/ Fault
        /\ list' \in {list, NoList, request[w].found}
        /\ FillList(w) \/ list' \in {list, NoList}
    BY <1>2 DEF FillList, DropList, Tables
  <2>2. FillList(w) => request[w].found \in Servers \cup {NoList}
    BY Kinds DEF FillList, At, ListRequest, TypeOK
  <2>3. /\ accounts' \subseteq Account /\ servers' \in Servers /\ nextServer' \in 1 .. MaxServer + 1
        /\ list' \in Servers \cup {NoList} /\ Calm
    BY <2>1, <2>2 DEF TypeOK, Calm
  <2> QED BY <1>0, <2>1, <2>3, CalmTyped
<1>3. CASE UpdateServer(w) \/ DeleteServer(w)
  <2>1. /\ UNCHANGED <<options, accounts, nextServer, cached, list, faults>>
        /\ changes' = changes \/ Change
    BY <1>3 DEF UpdateServer, DeleteServer
  <2>2. servers' \in Servers
    BY <1>3 DEF UpdateServer, DeleteServer, TypeOK, Servers
  <2>3. /\ accounts' \subseteq Account /\ nextServer' \in 1 .. MaxServer + 1
        /\ list' \in Servers \cup {NoList} /\ Calm
    BY <2>1 DEF TypeOK, Calm
  <2> QED BY <1>0, <2>1, <2>2, <2>3, CalmTyped
<1> QED BY <1>1, <1>2, <1>3 DEF CalmStep

LEMMA EnvironmentTyped ==
    ASSUME TypeOK, RemoveAccount \/ ExpireList \/ \E p \in Process : Crash(p)
    PROVE  TypeOK' /\ Calm
<1>1. CASE RemoveAccount
  BY <1>1, CalmTyped DEF RemoveAccount, TypeOK, Calm
<1>2. CASE ExpireList
  BY <1>2, CalmTyped DEF ExpireList, TypeOK, Calm, Tables
<1>3. CASE \E p \in Process : Crash(p)
  <2>1. PICK p \in Process : Crash(p)
    BY <1>3
  <2>2. Idle \in Request
    BY DEF Request
  <2>3. request' \in [Worker -> Request]
    BY <2>1, <2>2 DEF Crash, TypeOK
  <2> QED BY <2>1, <2>3, CalmTyped DEF Crash, TypeOK, Calm, Tables
<1> QED BY <1>1, <1>2, <1>3

\* A call of memcached for one key
LEMMA StoreInTyped ==
    ASSUME TypeOK, NEW k \in Key, NEW v \in Cacheable(k) \cup {NoEntry}, StoreIn(k, v)
    PROVE  /\ cached' \in [Key -> Int]
           /\ \A j \in Key : cached'[j] \in Cacheable(j) \cup {NoEntry}
           /\ faults' = faults \/ Fault
BY Values DEF StoreIn, TypeOK, NoEntry, Fault

LEMMA WritersTyped ==
    ASSUME TypeOK, NEW w \in Worker, FillOption(w) \/ WriteOption(w) \/ StoreOption(w)
    PROVE  TypeOK'
<1> DEFINE r == request[w]
           k == Head(r.todo)
<1> USE DEF At
<1>0. request' \in [Worker -> Request] /\ r \in Request
  BY OptionMoves, SaveMoves, RequestTyped DEF TypeOK
<1>1. CASE FillOption(w)
  <2>1. k \in Key /\ r.found \in Cacheable(k)
    BY <1>0, <1>1, Kinds, TodoParts DEF FillOption, ReadRequest
  <2>2. /\ cached' \in [Key -> Int]
        /\ \A j \in Key : cached'[j] \in Cacheable(j) \cup {NoEntry}
        /\ faults' = faults \/ Fault
    BY <1>1, <2>1, StoreInTyped DEF FillOption
  <2> QED BY <1>0, <1>1, <2>2, FaultTyped DEF FillOption, TypeOK, Tables
<1>2. CASE WriteOption(w)
  <2>1. k \in Key /\ r.form[k] \in Cacheable(k)
    BY <1>0, <1>2, Kinds, TodoParts DEF WriteOption, SaveRequest
  <2> DEFINE v == IF k \in Role /\ r.form[k] = 0 THEN NoRow ELSE r.form[k]
  <2>2. v \in Stored(k) \cup {NoRow}
    BY <2>1, Values DEF Stored, Cacheable, Key
  <2>3. v \in Int
    BY <2>1, <2>2, Values DEF NoRow
  <2>4. options' = [options EXCEPT ![k] = v]
    BY <1>2 DEF WriteOption
  <2> HIDE DEF v, k
  <2>5. options' \in [Key -> Int] /\ \A j \in Key : options'[j] \in Stored(j) \cup {NoRow}
    BY <2>2, <2>3, <2>4 DEF TypeOK
  <2> QED BY <1>0, <1>2, <2>5 DEF WriteOption, TypeOK
<1>3. CASE StoreOption(w)
  <2>1. k \in Key /\ r.form[k] \in Cacheable(k)
    BY <1>0, <1>3, Kinds, TodoParts DEF StoreOption, SaveRequest
  <2>2. \/ StoreIn(k, r.form[k]) \/ StoreIn(k, NoEntry) \/ UNCHANGED <<cached, faults>>
    BY <1>3 DEF StoreOption
  <2>3. /\ cached' \in [Key -> Int]
        /\ \A j \in Key : cached'[j] \in Cacheable(j) \cup {NoEntry}
        /\ faults' = faults \/ Fault
    <3>1. CASE StoreIn(k, r.form[k])
      BY <2>1, <3>1, StoreInTyped
    <3>2. CASE StoreIn(k, NoEntry)
      BY <2>1, <3>2, StoreInTyped
    <3>3. CASE UNCHANGED <<cached, faults>>
      BY <3>3 DEF TypeOK
    <3> QED BY <2>2, <3>1, <3>2, <3>3
  <2> QED BY <1>0, <1>3, <2>3, FaultTyped DEF StoreOption, TypeOK, Tables
<1> QED BY <1>1, <1>2, <1>3

LEMMA ExpireTyped ==
    ASSUME TypeOK, NEW k \in Key, ExpireOption(k)
    PROVE  TypeOK'
BY DEF ExpireOption, TypeOK, Tables, NoEntry

LEMMA Actions ==
    ASSUME Next
    PROVE  \/ \E w \in Worker :
                 \/ ReadOptions(w) \/ AskConfiguration(w) \/ SaveOptions(w)
                 \/ ShowServers(w) \/ InsertServer(w) \/ GetServer(w)
           \/ \E w \in Worker : CalmStep(w)
           \/ \E w \in Worker : FillOption(w) \/ WriteOption(w) \/ StoreOption(w)
           \/ RemoveAccount \/ ExpireList \/ \E p \in Process : Crash(p)
           \/ \E k \in Key : ExpireOption(k)
BY DEF Next, Continue, CalmStep

LEMMA InitTyped == ASSUME Init PROVE TypeOK
<1>1. Idle \in Request
  BY DEF Request
<1>2. servers \in Servers /\ list \in Servers \cup {NoList}
  BY DEF Init, Servers, NoServer
<1>3. options \in [Key -> Int] /\ cached \in [Key -> Int]
  BY DEF Init, NoRow, NoEntry
<1>4. \A k \in Key : options[k] = NoRow /\ cached[k] = NoEntry
  BY DEF Init
<1> QED BY <1>1, <1>2, <1>3, <1>4, CacheAssumption DEF CacheAssumption, Init, TypeOK

LEMMA StepTyped == ASSUME TypeOK, [Next]_vars PROVE TypeOK'
<1>1. CASE Next
  BY <1>1, Actions, BeginningsTyped, CalmStepTyped, EnvironmentTyped, WritersTyped, ExpireTyped
<1>2. CASE UNCHANGED vars
  BY <1>2 DEF vars, TypeOK
<1> QED BY <1>1, <1>2

\* Tables, cache and requests always have their types: what is cached and what
\* a request holds for a key is a value of that key (skaffariconfig.cpp:330-465).
THEOREM TypeCorrect == Spec => []TypeOK
BY InitTyped, StepTyped, PTL DEF Spec

-----------------------------------------------------------------------------
(* The lock *)

\* Who takes the lock finds it free; who has it may keep it.
LEMMA LockRespected ==
    ASSUME TypeOK, Exclusive, NEW w \in Worker, NEW points, Moves(w, points),
           HoldsWrite(w)' => HoldsWrite(w) \/ \A v \in Worker \ {w} : ~HoldsWrite(v) /\ ~HoldsRead(v),
           HoldsRead(w)' => HoldsRead(w) \/ \A v \in Worker \ {w} : ~HoldsWrite(v)
    PROVE  Exclusive'
<1>1. \A v \in Worker \ {w} : request'[v] = request[v]
  BY DEF TypeOK, Moves
<1>2. \A v \in Worker \ {w} : (HoldsWrite(v)' <=> HoldsWrite(v)) /\ (HoldsRead(v)' <=> HoldsRead(v))
  BY <1>1 DEF HoldsWrite, HoldsRead
<1>3. HoldsRead(w) => ~HoldsWrite(w)
  BY DEF HoldsRead, HoldsWrite
<1> QED BY <1>2, <1>3 DEF Exclusive

LEMMA OthersAll ==
    ASSUME SingleProcess, NEW w \in Worker
    PROVE  Others(w) = Worker \ {w}
BY DEF SingleProcess, Others

LEMMA ExclusiveKept ==
    ASSUME SingleProcess, TypeOK, Exclusive, [Next]_vars
    PROVE  Exclusive'
<1>1. ASSUME NEW w \in Worker, NEW points, Moves(w, points), points \cap {"look", "select", "fill", "write", "store"} = {}
      PROVE  Exclusive'
  <2>1. ~HoldsWrite(w)' /\ ~HoldsRead(w)'
    BY <1>1 DEF Moves, HoldsWrite, HoldsRead
  <2> QED BY <1>1, <2>1, LockRespected
<1>2. ASSUME NEW w \in Worker, HoldsRead(w) \/ MayRead(w), NEW points, Moves(w, points),
             points \cap {"write", "store"} = {}
      PROVE  Exclusive'
  <2>1. ~HoldsWrite(w)'
    BY <1>2 DEF Moves, HoldsWrite
  <2>2. HoldsRead(w) \/ \A v \in Worker \ {w} : ~HoldsWrite(v)
    BY <1>2, OthersAll DEF MayRead
  <2> QED BY <1>2, <2>1, <2>2, LockRespected
<1>3. ASSUME NEW w \in Worker, HoldsWrite(w) \/ MayWrite(w), NEW points, Moves(w, points),
             points \cap {"look", "select", "fill"} = {}
      PROVE  Exclusive'
  <2>1. ~HoldsRead(w)'
    BY <1>3 DEF Moves, HoldsRead
  <2>2. HoldsWrite(w) \/ \A v \in Worker \ {w} : ~HoldsWrite(v) /\ ~HoldsRead(v)
    BY <1>3, OthersAll DEF MayWrite
  <2> QED BY <1>3, <2>1, <2>2, LockRespected
<1>4. ASSUME NEW w \in Worker,
             \/ ReadOptions(w) \/ AskConfiguration(w) \/ SaveOptions(w)
             \/ ShowServers(w) \/ InsertServer(w) \/ GetServer(w)
      PROVE  Exclusive'
  <2>1. CASE ReadOptions(w) \/ AskConfiguration(w)
    BY <1>2, <2>1, Beginnings DEF ReadOptions, AskConfiguration
  <2>2. CASE SaveOptions(w)
    BY <1>3, <2>2, Beginnings DEF SaveOptions
  <2>3. CASE ShowServers(w) \/ InsertServer(w) \/ GetServer(w)
    BY <1>1, <2>3, Beginnings
  <2> QED BY <1>4, <2>1, <2>2, <2>3
<1>5. ASSUME NEW w \in Worker, CalmStep(w) \/ FillOption(w) \/ WriteOption(w) \/ StoreOption(w)
      PROVE  Exclusive'
  <2>1. CASE LookOption(w) \/ SelectOption(w) \/ SelectOptionFails(w) \/ FillOption(w)
    <3>1. HoldsRead(w)
      BY <2>1 DEF LookOption, SelectOption, SelectOptionFails, FillOption, At, HoldsRead
    <3>2. \E points : Moves(w, points) /\ points \cap {"write", "store"} = {}
      BY <2>1, OptionMoves DEF After
    <3> QED BY <1>2, <3>1, <3>2
  <2>2. CASE WriteOption(w) \/ WriteOptionFails(w) \/ StoreOption(w)
    <3>1. HoldsWrite(w)
      BY <2>2 DEF WriteOption, WriteOptionFails, StoreOption, At, HoldsWrite
    <3> QED BY <1>3, <2>2, <3>1, SaveMoves
  <2>3. CASE \/ LookUpAddress(w) \/ LookList(w) \/ SelectList(w) \/ FillList(w)
             \/ UpdateServer(w) \/ DeleteServer(w) \/ DropList(w)
    BY <1>1, <2>3, ServerMoves DEF Outside
  <2>4. CASE ReadProvider(w)
    BY <1>2, <2>4, ProviderMoves DEF ReadProvider
  <2> QED BY <1>5, <2>1, <2>2, <2>3, <2>4 DEF CalmStep
<1>6. CASE RemoveAccount \/ ExpireList \/ (\E k \in Key : ExpireOption(k)) \/ UNCHANGED vars
  <2>1. request' = request
    BY <1>6 DEF RemoveAccount, ExpireList, ExpireOption, vars
  <2> QED BY <2>1 DEF Exclusive, HoldsWrite, HoldsRead
<1>7. CASE \E p \in Process : Crash(p)
  <2>1. \A v \in Worker : request'[v] = request[v] \/ request'[v] = Idle
    BY <1>7 DEF Crash
  <2>2. \A v \in Worker : (HoldsWrite(v)' => HoldsWrite(v)) /\ (HoldsRead(v)' => HoldsRead(v))
    BY <2>1 DEF HoldsWrite, HoldsRead, Idle
  <2> QED BY <2>2 DEF Exclusive
<1> QED BY <1>4, <1>5, <1>6, <1>7, Actions

-----------------------------------------------------------------------------
(* The cache *)

Freshness == FillsFresh /\ StoresFresh /\ StaleIsWritten

\* A request that neither was nor is about to store anything
LEMMA CalmFresh ==
    ASSUME TypeOK, Freshness, Calm, NEW w \in Worker, NEW points, Moves(w, points),
           points \cap {"fill", "store"} = {}, ~At(w, "store"), faults' = faults \/ Fault
    PROVE  Freshness'
<1>1. \A v \in Worker \ {w} : request'[v] = request[v]
  BY DEF TypeOK, Moves
<1>2. request'[w].at \notin {"fill", "store"}
  BY DEF Moves
<1>3. faults' = 0 => faults = 0
  BY DEF Fault, TypeOK
<1>4. FillsFresh'
  BY <1>1, <1>2, <1>3 DEF Freshness, FillsFresh, At, Calm
<1>5. StoresFresh'
  BY <1>1, <1>2 DEF Freshness, StoresFresh, At, Calm
<1>6. StaleIsWritten'
  BY <1>1, <1>2, <1>3 DEF Freshness, StaleIsWritten, At, Calm
<1> QED BY <1>4, <1>5, <1>6 DEF Freshness

LEMMA SelectFresh ==
    ASSUME TypeOK, Freshness, NEW w \in Worker, SelectOption(w) \/ SelectOptionFails(w)
    PROVE  Freshness'
<1> DEFINE r == request[w]
           k == Head(r.todo)
<1>0. r \in ReadRequest /\ k \in Key /\ ~At(w, "store") /\ r.at = "select"
  BY Kinds, TodoParts DEF TypeOK, SelectOption, SelectOptionFails, At, ReadRequest
<1>1. CASE SelectOption(w) /\ ~IsFound(Selected(k))
  <2>1. Moves(w, After)
    BY <1>0, <1>1, GotMoves DEF SelectOption
  <2>2. Calm /\ faults' = faults
    BY <1>1 DEF SelectOption, Calm, Tables
  <2> QED BY <1>0, <2>1, <2>2, CalmFresh DEF After
<1>2. ASSUME NEW v, Goto(w, [r EXCEPT !.at = "fill", !.found = v]), Calm,
             faults' # 0 \/ (faults' = faults /\ (k \in Option => v = options[k]))
      PROVE  Freshness'
  <2>1. request' = [request EXCEPT ![w] = Reading("fill", r.todo, v, r.after)]
    BY <1>0, <1>2, Filling DEF Goto
  <2>2. \A u \in Worker \ {w} : request'[u] = request[u]
    BY <2>1 DEF TypeOK
  <2>3. request'[w] = Reading("fill", r.todo, v, r.after)
    BY <2>1 DEF TypeOK
  <2>4. request'[w].at = "fill" /\ request'[w].todo = r.todo /\ request'[w].found = v
    BY <2>3 DEF Reading
  <2>5. FillsFresh'
    BY <1>2, <2>2, <2>4 DEF Freshness, FillsFresh, At, Calm
  <2>6. StoresFresh'
    BY <1>2, <2>2, <2>4 DEF Freshness, StoresFresh, At, Calm
  <2>7. StaleIsWritten'
    BY <1>0, <1>2, <2>2, <2>4 DEF Freshness, StaleIsWritten, At, Calm
  <2> QED BY <2>5, <2>6, <2>7 DEF Freshness
<1>3. CASE SelectOption(w) /\ IsFound(Selected(k))
  <2>1. Goto(w, [r EXCEPT !.at = "fill", !.found = Selected(k)]) /\ Calm /\ faults' = faults
    BY <1>3 DEF SelectOption, Calm, Tables
  <2>2. k \in Option => Selected(k) = options[k]
    BY Values DEF Selected
  <2> QED BY <1>2, <2>1, <2>2
<1>4. CASE SelectOptionFails(w)
  <2>1. Goto(w, [r EXCEPT !.at = "fill", !.found = 0]) /\ Calm /\ faults' # 0
    BY <1>4 DEF SelectOptionFails, Calm, Tables, Fault, TypeOK
  <2> QED BY <1>2, <2>1
<1> QED BY <1>1, <1>3, <1>4

\* A reader that stores what it selected while no writer could change it.
LEMMA FillFresh ==
    ASSUME TypeOK, Freshness, NEW w \in Worker, FillOption(w)
    PROVE  Freshness'
<1> DEFINE r == request[w]
           k == Head(r.todo)
<1>0. /\ options' = options /\ (faults' = 0 => faults = 0) /\ At(w, "fill")
      /\ cached' = [cached EXCEPT ![k] = r.found] \/ faults' # 0
  BY DEF FillOption, StoreIn, Fault, TypeOK, Tables
<1>1. Moves(w, After) /\ ~At(w, "store")
  BY OptionMoves DEF FillOption, At
<1>2. \A v \in Worker \ {w} : request'[v] = request[v]
  BY <1>1 DEF TypeOK, Moves
<1>3. request'[w].at \notin {"fill", "store"}
  BY <1>1 DEF Moves, After
<1>4. FillsFresh'
  BY <1>0, <1>2, <1>3 DEF Freshness, FillsFresh, At
<1>5. StoresFresh'
  BY <1>0, <1>2, <1>3 DEF Freshness, StoresFresh, At
<1>6. StaleIsWritten'
  <2> SUFFICES ASSUME faults' = 0, NEW j \in Option, cached'[j] # NoEntry /\ cached'[j] # options'[j]
               PROVE  \E v \in Worker : At(v, "store")' /\ Head(request'[v].todo) = j
    BY DEF StaleIsWritten
  <2>1. j \in Key
    BY Values
  <2>2. cached' = [cached EXCEPT ![k] = r.found]
    BY <1>0
  <2>3. j = k => r.found = options[k]
    BY <1>0 DEF Freshness, FillsFresh
  <2>4. j # k
    BY <1>0, <2>1, <2>2, <2>3 DEF TypeOK
  <2>5. cached'[j] = cached[j]
    BY <2>1, <2>2, <2>4 DEF TypeOK
  <2>6. PICK v \in Worker : At(v, "store") /\ Head(request[v].todo) = j
    BY <1>0, <2>5 DEF Freshness, StaleIsWritten
  <2> QED BY <1>1, <1>2, <2>6 DEF At
<1> QED BY <1>4, <1>5, <1>6 DEF Freshness

\* A writer that has the lock for itself changes the table.
LEMMA WriteFresh ==
    ASSUME TypeOK, Exclusive, Freshness, NEW w \in Worker, WriteOption(w)
    PROVE  Freshness'
<1> DEFINE r == request[w]
           k == Head(r.todo)
<1>0. r \in SaveRequest /\ k \in Key /\ r.at = "write"
  BY Kinds, TodoParts DEF TypeOK, WriteOption, At, SaveRequest
<1>1. request' = [request EXCEPT ![w] = [r EXCEPT !.at = "store"]]
  BY DEF WriteOption, Goto
<1>2. \A v \in Worker \ {w} : request'[v] = request[v]
  BY <1>1 DEF TypeOK
<1>3. request'[w] = [r EXCEPT !.at = "store"]
  BY <1>1 DEF TypeOK
<1>4. request'[w].at = "store" /\ request'[w].todo = r.todo /\ request'[w].form = r.form
  BY <1>0, <1>3 DEF SaveRequest
<1>5. \A v \in Worker \ {w} : ~At(v, "store") /\ ~At(v, "fill")
  BY <1>0 DEF Exclusive, HoldsWrite, HoldsRead, At
<1>6. cached' = cached /\ faults' = faults
  BY DEF WriteOption
<1>7. /\ \A j \in Key : j # k => options'[j] = options[j]
      /\ k \in Option => options'[k] = r.form[k]
  <2>1. options' = [options EXCEPT ![k] = IF k \in Role /\ r.form[k] = 0 THEN NoRow ELSE r.form[k]]
    BY DEF WriteOption
  <2>2. k \in Option => k \notin Role
    BY Values
  <2> HIDE DEF k
  <2> QED BY <1>0, <2>1, <2>2 DEF TypeOK
<1>8. FillsFresh'
  BY <1>2, <1>4, <1>5 DEF FillsFresh, At
<1>9. StoresFresh'
  BY <1>2, <1>4, <1>5, <1>7 DEF StoresFresh, At
<1>10. StaleIsWritten'
  <2> SUFFICES ASSUME faults' = 0, NEW j \in Option, cached'[j] # NoEntry /\ cached'[j] # options'[j]
               PROVE  \E v \in Worker : At(v, "store")' /\ Head(request'[v].todo) = j
    BY DEF StaleIsWritten
  <2>1. CASE j = k
    BY <1>4, <2>1 DEF At
  <2>2. CASE j # k
    <3>1. cached[j] # NoEntry /\ cached[j] # options[j] /\ faults = 0
      BY <1>6, <1>7, <2>2, Values
    <3>2. \E v \in Worker : At(v, "store")
      BY <3>1 DEF Freshness, StaleIsWritten
    <3> QED BY <1>0, <1>5, <3>2 DEF At
  <2> QED BY <2>1, <2>2
<1> QED BY <1>8, <1>9, <1>10 DEF Freshness

\* And brings the cache up to it.
LEMMA StoreFresh ==
    ASSUME TypeOK, Exclusive, Freshness, NEW w \in Worker, StoreOption(w)
    PROVE  Freshness'
<1> DEFINE r == request[w]
           k == Head(r.todo)
<1>0. r \in SaveRequest /\ k \in Key /\ At(w, "store") /\ HoldsWrite(w)
  BY Kinds, TodoParts DEF TypeOK, StoreOption, At, SaveRequest, HoldsWrite
<1>1. Moves(w, {"write", "idle"})
  BY SaveMoves
<1>2. \A v \in Worker \ {w} : request'[v] = request[v]
  BY <1>1 DEF TypeOK, Moves
<1>3. request'[w].at \notin {"fill", "store"}
  BY <1>1 DEF Moves
<1>4. \A v \in Worker \ {w} : ~At(v, "store")
  BY <1>0 DEF Exclusive, HoldsWrite, At
<1>5. options' = options /\ (faults' = 0 => faults = 0)
  BY DEF StoreOption, StoreIn, Fault, TypeOK, Tables
<1>6. FillsFresh'
  BY <1>2, <1>3, <1>5 DEF Freshness, FillsFresh, At
<1>7. StoresFresh'
  BY <1>2, <1>3, <1>5 DEF Freshness, StoresFresh, At
<1>8. ASSUME faults' = 0, NEW j \in Option
      PROVE  cached'[j] = NoEntry \/ cached'[j] = options[j]
  <2>0. j \in Key /\ j \notin Role
    BY Values
  <2>1. CASE j = k
    <3>1. StoreIn(k, r.form[k])
      BY <2>0, <2>1 DEF StoreOption
    <3>2. cached' = [cached EXCEPT ![k] = r.form[k]]
      BY <1>8, <3>1 DEF StoreIn, Fault, TypeOK
    <3>3. r.form[k] = options[k]
      BY <1>0, <2>1 DEF Freshness, StoresFresh
    <3> QED BY <2>0, <2>1, <3>2, <3>3 DEF TypeOK
  <2>2. CASE j # k
    <3>1. \/ StoreIn(k, r.form[k]) \/ StoreIn(k, NoEntry) \/ cached' = cached
      BY DEF StoreOption
    <3>2. cached'[j] = cached[j]
      BY <2>0, <2>2, <3>1 DEF StoreIn, TypeOK
    <3>3. cached[j] = NoEntry \/ cached[j] = options[j]
      BY <1>0, <1>4, <1>5, <1>8, <2>2 DEF Freshness, StaleIsWritten, At
    <3> QED BY <3>2, <3>3
  <2> QED BY <2>1, <2>2
<1>9. StaleIsWritten'
  BY <1>5, <1>8 DEF StaleIsWritten
<1> QED BY <1>6, <1>7, <1>9 DEF Freshness

LEMMA EnvironmentFresh ==
    ASSUME TypeOK, Freshness,
           \/ RemoveAccount \/ ExpireList \/ \E p \in Process : Crash(p)
           \/ \E k \in Key : ExpireOption(k)
           \/ UNCHANGED vars
    PROVE  Freshness'
<1>1. CASE RemoveAccount \/ ExpireList \/ UNCHANGED vars
  <2>1. UNCHANGED <<options, cached, request, faults>>
    BY <1>1 DEF RemoveAccount, ExpireList, vars, Tables
  <2> QED BY <2>1 DEF Freshness, FillsFresh, StoresFresh, StaleIsWritten, At
<1>2. CASE \E p \in Process : Crash(p)
  <2>1. options' = options /\ cached' = cached /\ faults' # 0
    BY <1>2 DEF Crash, Fault, TypeOK, Tables
  <2>2. \A v \in Worker : request'[v] = request[v] \/ request'[v] = Idle
    BY <1>2 DEF Crash
  <2>3. Idle.at # "store"
    BY DEF Idle
  <2> QED BY <2>1, <2>2, <2>3 DEF Freshness, FillsFresh, StoresFresh, StaleIsWritten, At
<1>3. ASSUME NEW k \in Key, ExpireOption(k) PROVE Freshness'
  <2>1. UNCHANGED <<options, request, faults>> /\ cached' = [cached EXCEPT ![k] = NoEntry]
    BY <1>3 DEF ExpireOption, Tables
  <2>2. \A j \in Option : cached'[j] = NoEntry \/ cached'[j] = cached[j]
    BY <2>1, Values DEF TypeOK
  <2> QED BY <2>1, <2>2 DEF Freshness, FillsFresh, StoresFresh, StaleIsWritten, At
<1> QED BY <1>1, <1>2, <1>3

LEMMA FreshnessKept ==
    ASSUME TypeOK, Exclusive, Freshness, [Next]_vars
    PROVE  Freshness'
<1>1. ASSUME NEW w \in Worker,
             \/ ReadOptions(w) \/ AskConfiguration(w) \/ SaveOptions(w)
             \/ ShowServers(w) \/ InsertServer(w) \/ GetServer(w)
      PROVE  Freshness'
  <2>1. Calm /\ faults' = faults
    BY <1>1, BeginningsTyped DEF ReadOptions, AskConfiguration, SaveOptions, ShowServers,
       InsertServer, GetServer
  <2>2. ~At(w, "store")
    BY <1>1 DEF At, ReadOptions, AskConfiguration, SaveOptions, ShowServers, InsertServer, GetServer
  <2>3. Moves(w, {"look", "write", "listLook", "drop", "got"})
    BY <1>1, Beginnings DEF Moves
  <2> QED BY <2>1, <2>2, <2>3, CalmFresh
<1>2. ASSUME NEW w \in Worker, CalmStep(w), ~SelectOption(w), ~SelectOptionFails(w)
      PROVE  Freshness'
  <2>1. Calm
    BY <1>2, CalmStepTyped
  <2>2. faults' = faults \/ Fault
    BY <1>2 DEF CalmStep, LookOption, WriteOptionFails, LookUpAddress, LookList, SelectList,
       FillList, ReadProvider, UpdateServer, DeleteServer, DropList
  <2>3. ~At(w, "store")
    BY <1>2 DEF At, CalmStep, LookOption, WriteOptionFails, LookUpAddress, LookList, SelectList,
       FillList, ReadProvider, UpdateServer, DeleteServer, DropList
  <2>4. Moves(w, Outside \cup {"look", "select", "write"})
    BY <1>2, OptionMoves, SaveMoves, ServerMoves, ProviderMoves DEF CalmStep, Moves, After, Outside
  <2> QED BY <2>1, <2>2, <2>3, <2>4, CalmFresh DEF Outside
<1> QED BY <1>1, <1>2, Actions, SelectFresh, FillFresh, WriteFresh, StoreFresh, EnvironmentFresh

-----------------------------------------------------------------------------

\* Threads of one process never find an option in the cache that is not the one
\* in the table, unless a thread is saving that very option or something has
\* failed: getDbOption and setDbOption hold the lock from their statement to the
\* call of memcached (skaffariconfig.cpp:333-386).
THEOREM CacheFresh ==
    ASSUME SingleProcess
    PROVE  Spec => []OptionCacheFresh
<1>1. Init => FreshInv
  <2> SUFFICES ASSUME Init PROVE FreshInv
    OBVIOUS
  <2>1. \A w \in Worker : request[w].at = "idle"
    BY DEF Init, Idle
  <2>2. \A k \in Key : cached[k] = NoEntry
    BY DEF Init
  <2> QED BY <2>1, <2>2, InitTyped, Values DEF FreshInv, Exclusive, HoldsWrite, HoldsRead,
         FillsFresh, StoresFresh, StaleIsWritten, At
<1>2. FreshInv /\ [Next]_vars => FreshInv'
  BY SingleProcess, StepTyped, ExclusiveKept, FreshnessKept DEF FreshInv, Freshness
<1>3. FreshInv => OptionCacheFresh
  BY DEF FreshInv, StaleIsWritten, OptionCacheFresh, At, HoldsWrite
<1> QED BY <1>1, <1>2, <1>3, PTL DEF Spec
=============================================================================
