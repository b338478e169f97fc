----------------------------- MODULE SettingsCache -----------------------------
(***************************************************************************)
(* The settings in table options and the list of autoconfig servers, both  *)
(* cached in memcached, which all processes share and which outlives them. *)
(*                                                                         *)
(* Options are cached write-through and under a read-write lock that every *)
(* process has for itself: class SkaffariConfig.  Servers are cached       *)
(* read-through with no lock, and every change of their table removes the  *)
(* cached list: class AutoconfigServer.  A request for the configuration   *)
(* of a mail client (Autoconfig, Autodiscover) reads both.                 *)
(*                                                                         *)
(* Only the global servers are here, nothing in the program makes servers  *)
(* of a domain, and only an installation that uses memcached.              *)
(***************************************************************************)
EXTENDS Integers, Sequences, FiniteSets, TLC

CONSTANTS
    Worker,         \* threads that serve requests
    Process,        \* the processes they belong to
    ProcessOf,      \* [Worker -> Process]
    Option,         \* names of options
    Role,           \* options that name a default account
    Enabled,        \* the option that switches autoconfiguration on
    DefaultsOrder,  \* the options of the page of default values, as saved
    ServiceOrder,   \* the options of the autoconfiguration page, as saved
    ProviderOrder,  \* the options an autoconfig answer reads one by one
    Default,        \* [Option -> Value]: the defaults of the code
    Value,          \* values of options; 0 is a default constructed one
    Account,        \* ids of accounts, 0 is none of them
    Host,           \* what a server's form can say
    MaxServer,      \* bound: ids of table autoconfig_global
    MaxChanges,     \* bound: saved pages, changed servers, removed accounts
    MaxFaults       \* bound: failed SELECTs, failed calls of memcached, crashes

Key == Option \cup Role

ASSUME CacheAssumption ==
    /\ ProcessOf \in [Worker -> Process]
    /\ Option \cap Role = {} /\ Enabled \in Option
    /\ \A order \in {DefaultsOrder, ServiceOrder} : order \in Seq(Key) /\ order # << >>
    /\ ProviderOrder \in Seq(Option)
    /\ Default \in [Option -> Value] /\ Value \subseteq Nat /\ 0 \in Value
    /\ Account \subseteq Nat \ {0} /\ Host \subseteq Nat \ {0}
    /\ MaxServer \in Nat \ {0} /\ MaxChanges \in Nat /\ MaxFaults \in Nat

VARIABLES
    options,        \* table options: key -> value
    accounts,       \* ids of table accountuser
    servers,        \* table autoconfig_global: id -> server
    nextServer,     \* its AUTO_INCREMENT
    cached,         \* memcached: the options
    list,           \* memcached: the list of global servers
    request,        \* what every thread is doing
    changes,
    faults

vars == <<options, accounts, servers, nextServer, cached, list, request, changes, faults>>

-----------------------------------------------------------------------------
(* Tables, cache and requests *)

NoRow == -1
NoEntry == -2
NoServer == 0

\* The values that table options and the cache can have for a key; a cached
\* default account is the account itself, 0 an invalid one.
Stored(k) == IF k \in Option THEN Value ELSE Account
Cacheable(k) == Stored(k) \cup {0}

ServerId == 1 .. MaxServer
Servers == [ServerId -> Host \cup {NoServer}]
NoList == << >>

\* AutoconfigServer::list gives the rows in their order.
IsEmptyList(l) == \A i \in ServerId : l[i] = NoServer

Idle == [at |-> "idle"]

\* Reading options: the keys still to read under the lock held, what was found
\* for the first of them, and what comes after: the rest of an answer's options
\* or the answer to whether autoconfiguration is enabled.
Reading(at, todo, found, after) == [at |-> at, todo |-> todo, found |-> found, after |-> after]

\* Saving a page: the keys still to save and what the form says of each.
Saving(at, todo, form) == [at |-> at, todo |-> todo, form |-> form]

\* Listing the servers for a page or for an answer
Listing(at, found, after) == [at |-> at, found |-> found, after |-> after]

\* Changing the server i, which was found as the row was at the start
Changing(at, i, row) == [at |-> at, id |-> i, row |-> row]

Init ==
    /\ options \in [Key -> {NoRow}]
    /\ accounts = Account
    /\ servers = [i \in ServerId |-> NoServer]
    /\ nextServer = 1
    /\ cached = [k \in Key |-> NoEntry]
    /\ list = NoList
    /\ request = [w \in Worker |-> Idle]
    /\ changes = 0
    /\ faults = 0

At(w, at) == request[w].at = at

Goto(w, r) == request' = [request EXCEPT ![w] = r]

Fault ==
    /\ faults < MaxFaults
    /\ faults' = faults + 1

Change ==
    /\ changes < MaxChanges
    /\ changes' = changes + 1

Tables == <<options, accounts, servers, nextServer>>

-----------------------------------------------------------------------------
(* The lock of a process: held over all options of a page or one of them *)

HoldsRead(w) == request[w].at \in {"look", "select", "fill"}
HoldsWrite(w) == request[w].at \in {"write", "store"}

Others(w) == {v \in Worker \ {w} : ProcessOf[v] = ProcessOf[w]}

MayRead(w) == \A v \in Others(w) : ~HoldsWrite(v)

\* Mutant: writers only keep out each other.
MayWriteAnyTime(w) == \A v \in Others(w) : ~HoldsWrite(v)

MayWrite(w) == \A v \in Others(w) : ~HoldsWrite(v) /\ ~HoldsRead(v)

-----------------------------------------------------------------------------
(* SkaffariConfig: reading *)

\* getDefaultsSettings, getAutoconfigSettings and the getter of one option
ReadOptions(w) ==
    /\ At(w, "idle")
    /\ MayRead(w)
    /\ \E todo \in {DefaultsOrder, ServiceOrder} \cup {<<k>> : k \in Key} :
           Goto(w, Reading("look", todo, NoRow, "page"))
    /\ UNCHANGED <<Tables, cached, list, changes, faults>>

\* Autoconfig and Autodiscover ask for Enabled first.
AskConfiguration(w) ==
    /\ At(w, "idle")
    /\ MayRead(w)
    /\ Goto(w, Reading("look", <<Enabled>>, NoRow, "enabled"))
    /\ UNCHANGED <<Tables, cached, list, changes, faults>>

\* The option after the one that was read, or the end of the lock, which an
\* answer gives back after each of the provider's options.
Got(w, v) ==
    LET r == request[w] IN
    Goto(w, IF Tail(r.todo) # << >> 
            THEN Reading(IF r.after = "provider" THEN "provider" ELSE "look",
                         Tail(r.todo), NoRow, r.after)
            ELSE IF r.after = "enabled" /\ v # 0 THEN Listing("lookup", NoList, "enabled")
            ELSE Idle)

\* getDbOption and getDefaultAccount: what is cached is the answer.
LookOption(w) ==
    /\ At(w, "look")
    /\ LET k == Head(request[w].todo) IN
       IF cached[k] # NoEntry THEN Got(w, cached[k])
       ELSE Goto(w, [request[w] EXCEPT !.at = "select"])
    /\ UNCHANGED <<Tables, cached, list, changes, faults>>

\* The default account is found by a join with accountuser.
Selected(k) ==
    IF k \in Role /\ options[k] \notin accounts THEN NoRow ELSE options[k]

DefaultOf(k) == IF k \in Option THEN Default[k] ELSE 0

\* Mutant: the value is taken whether there is a row or not.
IsFoundAlways(v) == TRUE

\* QSqlQuery::next
IsFound(v) == v # NoRow

\* A missing row is answered with the default and not cached.
SelectOption(w) ==
    /\ At(w, "select")
    /\ LET k == Head(request[w].todo) IN
       IF IsFound(Selected(k))
       THEN Goto(w, [request[w] EXCEPT !.at = "fill", !.found = Selected(k)])
       ELSE Got(w, DefaultOf(k))
    /\ UNCHANGED <<Tables, cached, list, changes, faults>>

\* When the statement fails the value at hand is the one that memcached gave for
\* the missing key, a default constructed one, and it is cached like any other.
SelectOptionFails(w) ==
    /\ At(w, "select")
    /\ Fault
    /\ Goto(w, [request[w] EXCEPT !.at = "fill", !.found = 0])
    /\ UNCHANGED <<Tables, cached, list, changes>>

\* A call of memcached that fails is not noticed.
StoreIn(k, v) ==
    \/ cached' = [cached EXCEPT ![k] = v] /\ UNCHANGED faults
    \/ Fault /\ UNCHANGED cached

FillOption(w) ==
    /\ At(w, "fill")
    /\ StoreIn(Head(request[w].todo), request[w].found)
    /\ Got(w, request[w].found)
    /\ UNCHANGED <<Tables, list, changes>>

-----------------------------------------------------------------------------
(* SkaffariConfig: saving *)

\* SettingsEditor accepts a default account that exists, or none.
Forms(order) ==
    {f \in [Key -> Value \cup accounts] :
        \A k \in Key : IF k \notin {order[i] : i \in DOMAIN order} THEN f[k] = 0
                       ELSE f[k] \in (IF k \in Option THEN Value ELSE accounts \cup {0})}

SaveOptions(w) ==
    /\ At(w, "idle")
    /\ MayWrite(w)
    /\ Change
    /\ \E order \in {DefaultsOrder, ServiceOrder} : \E form \in Forms(order) :
           Goto(w, Saving("write", order, form))
    /\ UNCHANGED <<Tables, cached, list, faults>>

Saved(w) ==
    LET r == request[w] IN
    Goto(w, IF Tail(r.todo) # << >> THEN Saving("write", Tail(r.todo), r.form) ELSE Idle)

\* setDbOption writes the row, setDefaultAccount deletes it for account 0.
WriteOption(w) ==
    /\ At(w, "write")
    /\ LET k == Head(request[w].todo)
           v == request[w].form[k]
       IN options' = [options EXCEPT ![k] = IF k \in Role /\ v = 0 THEN NoRow ELSE v]
    /\ Goto(w, [request[w] EXCEPT !.at = "store"])
    /\ UNCHANGED <<accounts, servers, nextServer, cached, list, changes, faults>>

\* The failure is logged and neither told nor the end of the request.
WriteOptionFails(w) ==
    /\ At(w, "write")
    /\ Saved(w)
    /\ UNCHANGED <<Tables, cached, list, changes, faults>>

\* An account that has been removed meanwhile leaves the cache as it is.
StoreOption(w) ==
    /\ At(w, "store")
    /\ LET k == Head(request[w].todo)
           v == request[w].form[k]
       IN CASE k \in Option \/ v \in accounts -> StoreIn(k, v)
            [] k \in Role /\ v = 0            -> StoreIn(k, NoEntry)
            [] OTHER                          -> UNCHANGED <<cached, faults>>
    /\ Saved(w)
    /\ UNCHANGED <<Tables, list, changes>>

\* Account::remove and Domain::remove leave the options alone.
RemoveAccount ==
    /\ Change
    /\ \E a \in accounts : accounts' = accounts \ {a}
    /\ UNCHANGED <<options, servers, nextServer, cached, list, request, faults>>

-----------------------------------------------------------------------------
(* AutoconfigServer *)

\* The page of the settings
ShowServers(w) ==
    /\ At(w, "idle")
    /\ Goto(w, Listing("listLook", NoList, "page"))
    /\ UNCHANGED <<Tables, cached, list, changes, faults>>

\* The address and its domain are looked up: unknown, switched off for the
\* domain or with servers of its own, of which there are none, or global.
LookUpAddress(w) ==
    /\ At(w, "lookup")
    /\ \E r \in {Idle} \cup {Listing("listLook", NoList, a) : a \in {"provider", "discovered"}} :
           Goto(w, r)
    /\ UNCHANGED <<Tables, cached, list, changes, faults>>

\* Autodiscover answers with the servers, or with an error if there are none.
DiscoverAnswer == Idle

\* Autoconfig goes on with the provider's options.
ConfigAnswer(l) ==
    IF IsEmptyList(l) \/ ProviderOrder = << >> THEN Idle
    ELSE Reading("provider", ProviderOrder, NoRow, "provider")

Listed(w, l) ==
    Goto(w, CASE request[w].after = "provider"   -> ConfigAnswer(l)
              [] request[w].after = "discovered" -> DiscoverAnswer
              [] request[w].after = "page"       -> Idle)

LookList(w) ==
    /\ At(w, "listLook")
    /\ IF list # NoList THEN Listed(w, list)
       ELSE Goto(w, [request[w] EXCEPT !.at = "listSelect"])
    /\ UNCHANGED <<Tables, cached, list, changes, faults>>

SelectList(w) ==
    /\ At(w, "listSelect")
    /\ \/ Goto(w, [request[w] EXCEPT !.at = "listFill", !.found = servers])
       \/ Goto(w, Idle)                             \* the statement fails
    /\ UNCHANGED <<Tables, cached, list, changes, faults>>

FillList(w) ==
    /\ At(w, "listFill")
    /\ \/ list' = request[w].found /\ UNCHANGED faults
       \/ Fault /\ UNCHANGED list
    /\ Listed(w, request[w].found)
    /\ UNCHANGED <<Tables, cached, changes>>

\* Every option of an answer is read under the lock for itself.
ReadProvider(w) ==
    /\ At(w, "provider")
    /\ MayRead(w)
    /\ Goto(w, [request[w] EXCEPT !.at = "look"])
    /\ UNCHANGED <<Tables, cached, list, changes, faults>>

\* AutoconfigServer::create
InsertServer(w) ==
    /\ At(w, "idle")
    /\ nextServer <= MaxServer
    /\ Change
    /\ \E h \in Host : servers' = [servers EXCEPT ![nextServer] = h]
    /\ nextServer' = nextServer + 1
    /\ Goto(w, Changing("drop", nextServer, NoServer))
    /\ UNCHANGED <<options, accounts, cached, list, faults>>

\* AutoconfigServer::get of the pages that change or remove a server
GetServer(w) ==
    /\ At(w, "idle")
    /\ \E i \in ServerId :
           /\ servers[i] # NoServer
           /\ Goto(w, Changing("got", i, servers[i]))
    /\ UNCHANGED <<Tables, cached, list, changes, faults>>

\* AutoconfigServer::update: nothing to do when the form says what was found,
\* else an UPDATE that may find the row gone.
UpdateServer(w) ==
    /\ At(w, "got")
    /\ \E h \in Host :
           LET i == request[w].id IN
           IF h = request[w].row
           THEN Goto(w, Idle) /\ UNCHANGED <<servers, changes>>
           ELSE /\ Change
                /\ servers' = [servers EXCEPT ![i] = IF @ = NoServer THEN @ ELSE h]
                /\ Goto(w, [request[w] EXCEPT !.at = "drop"])
    /\ UNCHANGED <<options, accounts, nextServer, cached, list, faults>>

\* AutoconfigServer::remove
DeleteServer(w) ==
    /\ At(w, "got")
    /\ Change
    /\ servers' = [servers EXCEPT ![request[w].id] = NoServer]
    /\ Goto(w, [request[w] EXCEPT !.at = "drop"])
    /\ UNCHANGED <<options, accounts, nextServer, cached, list, faults>>

DropList(w) ==
    /\ At(w, "drop")
    /\ \/ list' = NoList /\ UNCHANGED faults
       \/ Fault /\ UNCHANGED list
    /\ Goto(w, Idle)
    /\ UNCHANGED <<Tables, cached, changes>>

-----------------------------------------------------------------------------
(* memcached and the processes *)

\* Mutant: stored for ever.
ExpiresNever(present) == FALSE

\* Every value is stored for MEMC_CONFIG_STORAGE_DURATION or
\* SK_AC_MEMC_AUTOCONFIG_STORAGE_DURATION.
Expires(present) == present

ExpireOption(k) ==
    /\ Expires(cached[k] # NoEntry)
    /\ cached' = [cached EXCEPT ![k] = NoEntry]
    /\ UNCHANGED <<Tables, list, request, changes, faults>>

ExpireList ==
    /\ Expires(list # NoList)
    /\ list' = NoList
    /\ UNCHANGED <<Tables, cached, request, changes, faults>>

Crash(p) ==
    /\ Fault
    /\ \E w \in Worker : ProcessOf[w] = p /\ ~At(w, "idle")
    /\ request' = [w \in Worker |-> IF ProcessOf[w] = p THEN Idle ELSE request[w]]
    /\ UNCHANGED <<Tables, cached, list, changes>>

\* What a request does once it has begun
Continue(w) ==
    \/ LookOption(w) \/ SelectOption(w) \/ SelectOptionFails(w) \/ FillOption(w)
    \/ WriteOption(w) \/ WriteOptionFails(w) \/ StoreOption(w)
    \/ LookUpAddress(w) \/ LookList(w) \/ SelectList(w) \/ FillList(w) \/ ReadProvider(w)
    \/ UpdateServer(w) \/ DeleteServer(w) \/ DropList(w)

Next ==
    \/ \E w \in Worker :
           \/ ReadOptions(w) \/ AskConfiguration(w) \/ SaveOptions(w)
           \/ ShowServers(w) \/ InsertServer(w) \/ GetServer(w)
           \/ Continue(w)
    \/ RemoveAccount
    \/ \E k \in Key : ExpireOption(k)
    \/ ExpireList
    \/ \E p \in Process : Crash(p)

Spec == Init /\ [][Next]_vars

\* A request that has begun goes on, and what is cached expires.  Nobody has to
\* ask for anything.
FairSpec ==
    /\ Spec
    /\ \A w \in Worker : WF_vars(Continue(w))
    /\ \A k \in Key : WF_vars(ExpireOption(k))
    /\ WF_vars(ExpireList)

-----------------------------------------------------------------------------
(* Properties *)

Todo == Seq(Key) \ {<< >>}

ReadRequest ==
    {r \in [at : {"look", "select", "fill", "provider"}, todo : Todo, found : Int,
            after : {"page", "enabled", "provider"}] :
        r.at = "fill" => r.found \in Cacheable(Head(r.todo))}
SaveRequest ==
    {r \in [at : {"write", "store"}, todo : Todo, form : [Key -> Nat]] :
        \A k \in Key : r.form[k] \in Cacheable(k)}
ListRequest ==
    [at : {"lookup"}, found : {NoList}, after : {"enabled"}]
        \cup [at : {"listLook", "listSelect", "listFill"}, found : Servers \cup {NoList},
              after : {"page", "provider", "discovered"}]
ChangeRequest == [at : {"got", "drop"}, id : ServerId, row : Host \cup {NoServer}]

Request == {Idle} \cup ReadRequest \cup SaveRequest \cup ListRequest \cup ChangeRequest

\* Types: what is stored, cached and held for a key has the type of the key.
TypeOK ==
    /\ options \in [Key -> Int] /\ cached \in [Key -> Int]
    /\ \A k \in Key : /\ options[k] \in Stored(k) \cup {NoRow}
                      /\ cached[k] \in Cacheable(k) \cup {NoEntry}
    /\ accounts \subseteq Account
    /\ servers \in Servers
    /\ nextServer \in 1 .. MaxServer + 1
    /\ list \in Servers \cup {NoList}
    /\ request \in [Worker -> Request]
    /\ changes \in 0 .. MaxChanges /\ faults \in 0 .. MaxFaults

\* Threads of one process always find an option in the cache as it is in the
\* table, unless one of them is saving it or something has failed: the lock is
\* held from the SELECT to the call of memcached on both sides
\* (SkaffariConfig::getDbOption, setDbOption).
OptionCacheFresh ==
    faults = 0 =>
        \A k \in Option : cached[k] # NoEntry /\ cached[k] # options[k] =>
            \E w \in Worker : HoldsWrite(w) /\ Head(request[w].todo) = k

\* Whatever is served from the cache is in the end what the tables say, after
\* lost calls of memcached, crashes, readers that stored an old list, removed
\* default accounts and failed SELECTs, once nobody makes changes any more.
CachesCatchUp ==
    <>[](/\ \A k \in Key : cached[k] \in {NoEntry, Selected(k)}
         /\ list \in {NoList, servers})

=============================================================================
