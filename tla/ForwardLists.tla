---------------------------- MODULE ForwardLists ----------------------------
(***************************************************************************)
(* What the forwards of an account promise to the administrators who edit  *)
(* them, without rows, lists and statements: every account has a set of    *)
(* forward addresses and a switch that keeps a copy in its own mailbox.  A *)
(* request takes effect on what the account has at one moment, or has no   *)
(* effect.  AccountAddresses is shown to implement this.                   *)
(***************************************************************************)
CONSTANTS Worker, User, Forward

VARIABLES
    forwards,       \* the forward addresses of every account
    keepLocal,      \* the accounts that keep a copy of what they forward
    asked           \* the request every worker has to serve

vars == <<forwards, keepLocal, asked>>

NoRequest == [op |-> "none"]

Request ==
    [op : {"add"}, user : User, new : Forward]
        \cup [op : {"remove"}, user : User, old : Forward]
        \cup [op : {"edit"}, user : User, old : Forward, new : Forward]
        \cup [op : {"keep"}, user : User, keep : BOOLEAN]
        \cup [op : {"clear"}, user : User]

Init ==
    /\ forwards = [u \in User |-> {}]
    /\ keepLocal = {}
    /\ asked = [w \in Worker |-> NoRequest]

Ask(w) ==
    /\ asked[w] = NoRequest
    /\ \E r \in Request : asked' = [asked EXCEPT ![w] = r]
    /\ UNCHANGED <<forwards, keepLocal>>

Answered(w) == asked' = [asked EXCEPT ![w] = NoRequest]

Add(w, r) ==
    /\ r.op = "add"
    /\ forwards' = [forwards EXCEPT ![r.user] = @ \cup {r.new}]
    /\ UNCHANGED keepLocal

\* With the last forward the wish to keep a copy goes, too.
Remove(w, r) ==
    /\ r.op = "remove"
    /\ forwards' = [forwards EXCEPT ![r.user] = @ \ {r.old}]
    /\ keepLocal' = {u \in keepLocal : forwards'[u] # {}}

Edit(w, r) ==
    /\ r.op = "edit"
    /\ forwards' = [forwards EXCEPT ![r.user] = (@ \ {r.old}) \cup {r.new}]
    /\ UNCHANGED keepLocal

\* A copy can only be kept of what is forwarded.
Keep(w, r) ==
    /\ r.op = "keep"
    /\ forwards[r.user] # {}
    /\ keepLocal' = IF r.keep THEN keepLocal \cup {r.user} ELSE keepLocal \ {r.user}
    /\ UNCHANGED forwards

\* The account is removed.
Clear(w, r) ==
    /\ r.op = "clear"
    /\ forwards' = [forwards EXCEPT ![r.user] = {}]
    /\ keepLocal' = keepLocal \ {r.user}

Serve(w) ==
    /\ LET r == asked[w] IN
       Add(w, r) \/ Remove(w, r) \/ Edit(w, r) \/ Keep(w, r) \/ Clear(w, r)
    /\ Answered(w)

\* The request is refused, or it fails.
Decline(w) ==
    /\ Answered(w)
    /\ UNCHANGED <<forwards, keepLocal>>

Next == \E w \in Worker : Ask(w) \/ Serve(w) \/ Decline(w)

Spec == Init /\ [][Next]_vars
=============================================================================
