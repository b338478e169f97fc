-------------------------- MODULE DomainQuota_proofs --------------------------
(***************************************************************************)
(* Theorems about DomainQuota, for every set of quotas, limit, number of   *)
(* accounts and failures.                                                  *)
(*                                                                         *)
(* The sum over the rows is a fold.  The first section derives what the    *)
(* other proofs need of it: the subsets of a finite set are well-founded,  *)
(* so a smallest counterexample takes the place of induction, the values   *)
(* of the fold exist, any two agree, and any element can be taken out.     *)
(*                                                                         *)
(* Types hold together with Keyed: ids identify rows, and the sum of the   *)
(* rows of one id is the quota of one.                                     *)
(*                                                                         *)
(* Alone is the state of a domain between two statements of a single       *)
(* worker: what the columns are short of (Summed), that the row of the     *)
(* request is there (HasRow), at which statements the stores may differ    *)
(* (Matched), and that what was admitted still fits (Fits).                *)
(*                                                                         *)
(* For workers that run at the same time, Covered says that what the       *)
(* column lacks is owed by requests that are on their way, even if any of  *)
(* the creations were undone; Balanced says the same next to removals, and *)
(* Tokens why a removal subtracts what its row had.                        *)
(***************************************************************************)
EXTENDS DomainQuota, FiniteSetTheorems, TLAPS

-----------------------------------------------------------------------------
(* Sums *)

\* The element a sum takes next
First(s) == CHOOSE x \in s : TRUE

LEMMA NextIn == ASSUME NEW s, s # {} PROVE First(s) \in s
  BY DEF First

\* g has the sums of f over the subsets of S.
Sums(g, f, S) ==
    g = [s \in SUBSET S |-> IF s = {} THEN 0 ELSE f[First(s)] + g[s \ {First(s)}]]

TheSums(f, S) == CHOOSE g : Sums(g, f, S)

LEMMA SumIs ==
    ASSUME NEW f, NEW S
    PROVE SumFunctionOnSet(f, S) = TheSums(f, S)[S]
  BY DEF SumFunctionOnSet, FoldFunctionOnSet, MapThenFoldSet, TheSums, Sums, First

\* Induction over the subsets of a finite set
LEMMA SmallestSet ==
    ASSUME NEW S, IsFiniteSet(S), NEW T, T \subseteq SUBSET S, T # {}
    PROVE  \E s \in T : \A t \in T : t \subseteq s => t = s
<1>1. IsWellFoundedOn(StrictSubsetOrdering(S), FiniteSubsetsOf(S))
  BY FS_StrictSubsetOrderingWellFounded
<1>2. FiniteSubsetsOf(S) = SUBSET S
  BY FS_FiniteSubsetsOfFinite
<1>3. \E s \in T : \A t \in T : ~ (<<t, s>> \in StrictSubsetOrdering(S))
  BY <1>1, <1>2, WFMin
<1> QED
  BY <1>3 DEF StrictSubsetOrdering

\* What a recursive definition says of its value
LEMMA SumsValue ==
    ASSUME NEW g, NEW f, NEW S, Sums(g, f, S), NEW s, s \subseteq S
    PROVE  /\ s = {} => g[s] = 0
           /\ s # {} => g[s] = f[First(s)] + g[s \ {First(s)}]
<1>1. g[s] = IF s = {} THEN 0 ELSE f[First(s)] + g[s \ {First(s)}]
  BY DEF Sums
<1> QED
  BY <1>1

\* Two definitions agree on what both define, if they sum the same values.
LEMMA SumsAgree ==
    ASSUME NEW f, NEW g, NEW R, NEW S, NEW p, NEW q, Sums(p, f, R), Sums(q, g, S),
           NEW s, s \subseteq R, s \subseteq S, IsFiniteSet(s), \A x \in s : f[x] = g[x]
    PROVE  p[s] = q[s]
<1> DEFINE T == {t \in SUBSET s : p[t] # q[t]}
<1> SUFFICES ASSUME T # {} PROVE FALSE
  OBVIOUS
<1>1. PICK t \in T : \A u \in T : u \subseteq t => u = t
  <2>1. T \subseteq SUBSET s
    OBVIOUS
  <2> HIDE DEF T
  <2> QED
    BY <2>1, SmallestSet
<1>2. t \subseteq R /\ t \subseteq S /\ t \subseteq s
  OBVIOUS
<1>3. CASE t = {}
  BY <1>1, <1>2, <1>3, SumsValue
<1>4. CASE t # {}
  <2> DEFINE x == First(t)
  <2>1. x \in t
    BY <1>4, NextIn
  <2>2. p[t \ {x}] = q[t \ {x}]
    BY <1>1, <1>2, <2>1
  <2>3. f[x] = g[x]
    BY <1>2, <2>1
  <2>4. p[t] = f[x] + p[t \ {x}] /\ q[t] = g[x] + q[t \ {x}]
    BY <1>2, <1>4, SumsValue
  <2> QED
    BY <1>1, <2>2, <2>3, <2>4
<1> QED
  BY <1>3, <1>4

\* There is such a definition over every finite set.
LEMMA SumsExist ==
    ASSUME NEW f, NEW S, IsFiniteSet(S)
    PROVE  Sums(TheSums(f, S), f, S)
<1> DEFINE T == {s \in SUBSET S : ~ \E g : Sums(g, f, s)}
<1>1. SUFFICES T = {}
  BY <1>1 DEF TheSums
<1> SUFFICES ASSUME T # {} PROVE FALSE
  OBVIOUS
<1>2. PICK s \in T : \A t \in T : t \subseteq s => t = s
  <2>1. T \subseteq SUBSET S
    OBVIOUS
  <2> HIDE DEF T
  <2> QED
    BY <2>1, SmallestSet
<1> DEFINE V(t) == TheSums(f, t)[t]
           x == First(s)
           value(t) == IF t = {} THEN 0 ELSE IF t = s THEN f[x] + V(s \ {x}) ELSE V(t)
           g == [t \in SUBSET s |-> value(t)]
<1>3. ASSUME NEW t, t \subseteq s, t # s PROVE Sums(TheSums(f, t), f, t)
  <2>1. t \notin T /\ t \in SUBSET S
    BY <1>2, <1>3
  <2> QED
    BY <2>1 DEF TheSums
<1>4. ASSUME NEW t \in SUBSET s
      PROVE  value(t) = IF t = {} THEN 0 ELSE f[First(t)] + g[t \ {First(t)}]
  <2>1. CASE t = {}
    BY <2>1
  <2>2. CASE t # {}
    <3> DEFINE y == First(t)
               u == t \ {y}
    <3>1. y \in t
      BY <2>2, NextIn
    <3>2. u \subseteq s /\ u # s /\ u \subseteq t
      BY <3>1
    <3>3. Sums(TheSums(f, u), f, u)
      BY <1>3, <3>2
    <3>4. V({}) = 0
      <4>1. s # {}
        BY <2>2
      <4>2. Sums(TheSums(f, {}), f, {})
        BY <4>1, <1>3
      <4> QED
        BY <4>2, SumsValue
    <3>5. g[u] = V(u)
      BY <3>2, <3>4
    <3>6. CASE t = s
      BY <2>2, <3>5, <3>6
    <3>7. CASE t # s
      <4>1. Sums(TheSums(f, t), f, t)
        BY <1>3, <3>7
      <4>2. TheSums(f, t)[t] = f[y] + TheSums(f, t)[u]
        BY <4>1, <2>2, SumsValue
      <4>3. IsFiniteSet(u)
        BY <3>2, FS_Subset
      <4>4. TheSums(f, t)[u] = TheSums(f, u)[u]
        BY <3>2, <3>3, <4>1, <4>3, SumsAgree
      <4> QED
        BY <2>2, <3>5, <3>7, <4>2, <4>4
    <3> QED
      BY <3>6, <3>7
  <2> QED
    BY <2>1, <2>2
<1>5. g = [t \in SUBSET s |-> IF t = {} THEN 0 ELSE f[First(t)] + g[t \ {First(t)}]]
  BY <1>4
<1>6. Sums(g, f, s)
  BY <1>5 DEF Sums
<1> QED
  BY <1>2, <1>6

LEMMA SumEmpty == ASSUME NEW f PROVE SumFunctionOnSet(f, {}) = 0
<1>1. Sums(TheSums(f, {}), f, {})
  BY SumsExist, FS_EmptySet
<1> QED
  BY <1>1, SumIs, SumsValue

LEMMA SumSame ==
    ASSUME NEW f, NEW g, NEW S, IsFiniteSet(S), \A x \in S : f[x] = g[x]
    PROVE  SumFunctionOnSet(f, S) = SumFunctionOnSet(g, S)
  BY SumsExist, SumsAgree, SumIs

LEMMA SumNext ==
    ASSUME NEW f, NEW S, IsFiniteSet(S), S # {}
    PROVE  SumFunctionOnSet(f, S) = f[First(S)] + SumFunctionOnSet(f, S \ {First(S)})
<1> DEFINE R == S \ {First(S)}
<1>1. IsFiniteSet(R)
  BY FS_Subset
<1>2. Sums(TheSums(f, S), f, S) /\ Sums(TheSums(f, R), f, R)
  BY <1>1, SumsExist
<1>3. TheSums(f, S)[R] = TheSums(f, R)[R]
  BY <1>1, <1>2, SumsAgree
<1> QED
  BY <1>2, <1>3, SumIs, SumsValue

\* A sum is a natural number, and any element can be taken from it.
LEMMA SumNat ==
    ASSUME NEW f, NEW S, IsFiniteSet(S), \A x \in S : f[x] \in Nat
    PROVE  SumFunctionOnSet(f, S) \in Nat
<1> DEFINE T == {s \in SUBSET S : SumFunctionOnSet(f, s) \notin Nat}
<1> SUFFICES ASSUME T # {} PROVE FALSE
  OBVIOUS
<1>1. PICK s \in T : \A t \in T : t \subseteq s => t = s
  <2>1. T \subseteq SUBSET S
    OBVIOUS
  <2> HIDE DEF T
  <2> QED
    BY <2>1, SmallestSet
<1>2. s # {}
  <2>1. SumFunctionOnSet(f, s) \notin Nat
    BY <1>1
  <2> QED
    BY <2>1, SumEmpty
<1>3. First(s) \in s /\ IsFiniteSet(s)
  BY <1>2, NextIn, FS_Subset
<1>4. SumFunctionOnSet(f, s \ {First(s)}) \in Nat
  BY <1>1, <1>3
<1>5. f[First(s)] \in Nat
  BY <1>3
<1> QED
  BY <1>1, <1>2, <1>3, <1>4, <1>5, SumNext

LEMMA SumWithout ==
    ASSUME NEW f, NEW S, IsFiniteSet(S), \A x \in S : f[x] \in Nat
    PROVE  \A e \in S : SumFunctionOnSet(f, S) = f[e] + SumFunctionOnSet(f, S \ {e})
<1> DEFINE Wrong(s, e) == SumFunctionOnSet(f, s) # f[e] + SumFunctionOnSet(f, s \ {e})
           T == {s \in SUBSET S : \E e \in s : Wrong(s, e)}
<1> SUFFICES ASSUME T # {} PROVE FALSE
  OBVIOUS
<1>1. PICK s \in T : \A t \in T : t \subseteq s => t = s
  <2>1. T \subseteq SUBSET S
    OBVIOUS
  <2> HIDE DEF T
  <2> QED
    BY <2>1, SmallestSet
<1>2. PICK e \in s : Wrong(s, e)
  OBVIOUS
<1> DEFINE x == First(s)
           rest == (s \ {x}) \ {e}
<1>3. x \in s /\ s \subseteq S /\ IsFiniteSet(s) /\ IsFiniteSet(rest)
  BY <1>2, NextIn, FS_Subset
<1>4. SumFunctionOnSet(f, s) = f[x] + SumFunctionOnSet(f, s \ {x})
  BY <1>2, <1>3, SumNext
<1>5. x # e
  BY <1>2, <1>4
<1>6. ASSUME NEW t, t \subseteq s, t # s, NEW y \in t PROVE ~Wrong(t, y)
  BY <1>1, <1>3, <1>6
<1>7. SumFunctionOnSet(f, s \ {x}) = f[e] + SumFunctionOnSet(f, rest)
  BY <1>2, <1>3, <1>5, <1>6
<1>8. SumFunctionOnSet(f, s \ {e}) = f[x] + SumFunctionOnSet(f, rest)
  <2>1. (s \ {e}) \ {x} = rest
    OBVIOUS
  <2>2. ~Wrong(s \ {e}, x)
    BY <1>2, <1>3, <1>5, <1>6
  <2> QED
    BY <2>1, <2>2
<1>9. SumFunctionOnSet(f, rest) \in Nat /\ f[x] \in Nat /\ f[e] \in Nat
  BY <1>2, <1>3, SumNat
<1> QED
  BY <1>2, <1>4, <1>7, <1>8, <1>9

\* The same of a whole function
LEMMA SumOfNone ==
    ASSUME NEW f, DOMAIN f = {}
    PROVE  SumFunction(f) = 0
  BY SumEmpty DEF SumFunction

LEMMA SumOfSome ==
    ASSUME NEW f, IsFiniteSet(DOMAIN f), \A x \in DOMAIN f : f[x] \in Nat
    PROVE  SumFunction(f) \in Nat
  BY SumNat DEF SumFunction

LEMMA SumOfAll ==
    ASSUME NEW f, NEW g, IsFiniteSet(DOMAIN f), \A x \in DOMAIN f : f[x] \in Nat,
           NEW e \in DOMAIN f, DOMAIN g = DOMAIN f \ {e}, \A x \in DOMAIN g : g[x] = f[x]
    PROVE  SumFunction(f) = f[e] + SumFunction(g)
<1>1. SumFunctionOnSet(f, DOMAIN f) = f[e] + SumFunctionOnSet(f, DOMAIN f \ {e})
  BY SumWithout
<1>2. IsFiniteSet(DOMAIN g)
  BY FS_Subset
<1>3. SumFunctionOnSet(g, DOMAIN g) = SumFunctionOnSet(f, DOMAIN g)
  BY <1>2, SumSame
<1> QED
  BY <1>1, <1>3 DEF SumFunction

-----------------------------------------------------------------------------
(* Sums over rows *)

LEMMA KiBNat == \A q \in KiB : q \in Nat /\ q \in Int
  BY QuotaAssumption DEF KiB

LEMMA SumOfRows ==
    ASSUME NEW rows, IsFiniteSet(rows), rows \subseteq Row
    PROVE  /\ SumOf(rows) \in Nat
           /\ rows = {} => SumOf(rows) = 0
           /\ \A r \in rows : SumOf(rows) = r.quota + SumOf(rows \ {r})
<1>1. \A r \in rows : r.quota \in Nat
  BY KiBNat DEF Row
<1> DEFINE f == [r \in rows |-> r.quota]
<1>2. IsFiniteSet(DOMAIN f) /\ \A r \in DOMAIN f : f[r] \in Nat
  BY <1>1
<1>3. SumOf(rows) \in Nat
  <2> HIDE DEF f
  <2>1. SumFunction(f) \in Nat
    BY <1>2, SumOfSome
  <2> QED
    BY <2>1 DEF f, SumOf
<1>4. ASSUME rows = {} PROVE SumOf(rows) = 0
  <2>1. DOMAIN f = {}
    BY <1>4
  <2> HIDE DEF f
  <2>2. SumFunction(f) = 0
    BY <2>1, SumOfNone
  <2> QED
    BY <2>2 DEF f, SumOf
<1>5. ASSUME NEW r \in rows PROVE SumOf(rows) = r.quota + SumOf(rows \ {r})
  <2> DEFINE g == [q \in rows \ {r} |-> q.quota]
  <2>1. DOMAIN g = DOMAIN f \ {r} /\ \A q \in DOMAIN g : g[q] = f[q]
    OBVIOUS
  <2>2. f[r] = r.quota /\ r \in DOMAIN f
    OBVIOUS
  <2> HIDE DEF f, g
  <2>3. SumFunction(f) = f[r] + SumFunction(g)
    BY <1>2, <2>1, <2>2, SumOfAll
  <2> QED
    BY <2>2, <2>3 DEF f, g, SumOf
<1> QED
  BY <1>3, <1>4, <1>5

\* A row that is added
LEMMA SumOfMore ==
    ASSUME NEW rows, IsFiniteSet(rows), rows \subseteq Row, NEW r \in Row, r \notin rows
    PROVE  /\ IsFiniteSet(rows \cup {r})
           /\ SumOf(rows \cup {r}) = SumOf(rows) + r.quota
<1>1. IsFiniteSet(rows \cup {r}) /\ rows \cup {r} \subseteq Row
  BY FS_AddElement
<1>2. (rows \cup {r}) \ {r} = rows
  OBVIOUS
<1>3. r.quota \in Nat
  BY KiBNat DEF Row
<1> QED
  BY <1>1, <1>2, <1>3, SumOfRows

-----------------------------------------------------------------------------
(* Types and keys *)

CreatePC == {"insertAccount", "createMailbox", "setNewQuota", "countUp", "undo"}
RemovePC == {"deleteMailbox", "selectQuota", "deleteAccount", "countDown"}
UpdatePC == {"setQuota", "updateAccount", "recompute"}
CheckPC == {"getQuota", "defaultMailbox", "defaultAccount", "recomputeChecked", "align"}

\* Ids identify rows, and AUTO_INCREMENT gives new ones.
Keyed ==
    /\ IsFiniteSet(accountuser)
    /\ \A r, s \in accountuser : r.id = s.id => r = s
    /\ \A r \in accountuser : r.id < nextId
    /\ \A i \in DOMAIN imapquota : i < nextId
    /\ \A w \in Worker : task[w].pc # "idle" => task[w].id < nextId
    /\ nextId > 0

QuotaInv == TypeOK /\ Keyed

\* The statement a request is at tells which kind of request it is.
LEMMA TaskKinds ==
    ASSUME TypeOK, NEW w \in Worker
    PROVE  /\ task[w] \in Task
           /\ task[w].pc \in CreatePC => task[w] \in CreateTask
           /\ task[w].pc \in RemovePC => task[w] \in RemoveTask
           /\ task[w].pc \in UpdatePC => task[w] \in UpdateTask
           /\ task[w].pc \in CheckPC => task[w] \in CheckTask
           /\ task[w].pc # "idle" => task[w].id \in Nat /\ task[w].quota \in KiB
  BY DEF TypeOK, Task, Idle, CreateTask, RemoveTask, UpdateTask, CheckTask,
         CreatePC, RemovePC, UpdatePC, CheckPC

\* The quota of the mailbox i is set, or the mailbox comes or goes.
LEMMA MailboxTypes ==
    ASSUME TypeOK, NEW i \in Nat, NEW q \in KiB,
           \/ HasMailbox(i) /\ SetMailboxQuota(i, q)
           \/ MakeMailbox(i)
           \/ DropMailbox(i)
           \/ UNCHANGED imapquota
    PROVE  /\ imapquota' \in [DOMAIN imapquota' -> KiB] /\ DOMAIN imapquota' \subseteq Nat
           /\ DOMAIN imapquota' \subseteq DOMAIN imapquota \cup {i}
  BY DEF TypeOK, KiB, HasMailbox, SetMailboxQuota, MakeMailbox, DropMailbox

\* A row that gets another quota, if it is there
LEMMA RowChanges ==
    ASSUME TypeOK, Keyed, NEW i \in Nat, NEW q \in KiB, SetAccountQuota(i, q)
    PROVE  \/ accountuser' = accountuser /\ \A r \in accountuser : r.id # i
           \/ \E r \in accountuser :
                 /\ r.id = i
                 /\ accountuser' = (accountuser \ {r}) \cup {[id |-> i, quota |-> q]}
<1> DEFINE set(r) == IF r.id = i THEN [r EXCEPT !.quota = q] ELSE r
<1>1. accountuser' = {set(r) : r \in accountuser}
  BY DEF SetAccountQuota
<1>2. CASE \A r \in accountuser : r.id # i
  BY <1>1, <1>2
<1>3. ASSUME NEW r \in accountuser, r.id = i
      PROVE  accountuser' = (accountuser \ {r}) \cup {[id |-> i, quota |-> q]}
  <2>1. set(r) = [id |-> i, quota |-> q]
    BY <1>3 DEF TypeOK, Row
  <2>2. \A s \in accountuser \ {r} : set(s) = s
    BY <1>3 DEF Keyed
  <2> HIDE DEF set
  <2> QED
    BY <1>1, <2>1, <2>2
<1> QED
  BY <1>2, <1>3

\* What remains finite, well typed and keyed
LEMMA RowTypes ==
    ASSUME TypeOK, Keyed, NEW i \in Nat, NEW q \in KiB, SetAccountQuota(i, q)
    PROVE  /\ accountuser' \subseteq Row /\ IsFiniteSet(accountuser')
           /\ \A r, s \in accountuser' : r.id = s.id => r = s
           /\ \A r \in accountuser' : r.id < nextId
<1>1. CASE accountuser' = accountuser
  BY <1>1 DEF TypeOK, Keyed
<1>2. ASSUME NEW r \in accountuser, r.id = i,
             accountuser' = (accountuser \ {r}) \cup {[id |-> i, quota |-> q]}
      PROVE  /\ accountuser' \subseteq Row /\ IsFiniteSet(accountuser')
             /\ \A s, t \in accountuser' : s.id = t.id => s = t
             /\ \A s \in accountuser' : s.id < nextId
  <2>1. IsFiniteSet(accountuser \ {r}) /\ IsFiniteSet((accountuser \ {r}) \cup {[id |-> i, quota |-> q]})
    BY FS_Subset, FS_AddElement DEF Keyed
  <2>2. [id |-> i, quota |-> q] \in Row
    BY DEF Row
  <2> QED
    BY <1>2, <2>1, <2>2 DEF TypeOK, Keyed
<1> QED
  BY <1>1, <1>2, RowChanges

LEMMA RecomputeTypes ==
    ASSUME TypeOK, Keyed, Recompute
    PROVE  domainquotaused' \in Nat /\ accountcount' \in Nat
  BY SumOfRows DEF TypeOK, Keyed, Recompute

LEMMA CountTypes ==
    ASSUME TypeOK, NEW n \in Int, NEW q \in Int, Count(n, q)
    PROVE  domainquotaused' \in Nat /\ accountcount' \in Nat
  BY DEF TypeOK, Count, counters

\* The row of an account, if it is there, has a quota of its own.
LEMMA SumOfMine ==
    ASSUME TypeOK, Keyed, NEW i \in Nat
    PROVE  SumOf({r \in accountuser : r.id = i}) \in KiB
<1> DEFINE mine == {r \in accountuser : r.id = i}
<1>1. IsFiniteSet(mine) /\ mine \subseteq Row
  BY FS_Subset DEF TypeOK, Keyed
<1>2. CASE mine = {}
  BY <1>1, <1>2, SumOfRows DEF KiB
<1>3. ASSUME NEW r \in Row, r \in mine PROVE SumOf(mine) \in KiB
  <2>1. mine \ {r} = {}
    BY <1>3 DEF Keyed
  <2>2. r.quota \in KiB /\ r.quota \in Nat
    BY KiBNat DEF Row
  <2> HIDE DEF mine
  <2>3. SumOf(mine) = r.quota + SumOf(mine \ {r}) /\ SumOf(mine \ {r}) = 0
    BY <1>1, <1>3, <2>1, SumOfRows, FS_EmptySet
  <2>4. r.quota + 0 = r.quota
    BY <2>2
  <2> QED
    BY <2>2, <2>3, <2>4
<1> QED
  BY <1>1, <1>2, <1>3

\* The invariant after a step that ends or goes on with a request
LEMMA TaskTypes ==
    ASSUME QuotaInv, NEW w \in Worker, NEW t \in Task, task' = [task EXCEPT ![w] = t],
           t.pc # "idle" => t.id < nextId',
           nextId' \in {nextId, nextId + 1}
    PROVE  /\ task' \in [Worker -> Task] /\ task'[w] = t
           /\ \A x \in Worker : x # w => task'[x] = task[x]
           /\ \A x \in Worker : task'[x].pc # "idle" => task'[x].id < nextId'
           /\ nextId' \in Nat /\ nextId' > 0
<1>1. task' \in [Worker -> Task] /\ task'[w] = t /\ \A x \in Worker : x # w => task'[x] = task[x]
  BY DEF QuotaInv, TypeOK
<1>2. \A x \in Worker : task[x].pc # "idle" => task[x].id \in Nat /\ task[x].id < nextId
  BY TaskKinds DEF QuotaInv, Keyed
<1>3. nextId \in Nat /\ nextId > 0
  BY DEF QuotaInv, TypeOK, Keyed
<1> QED
  BY <1>1, <1>2, <1>3

\* A request that ends, or goes on with a statement of its kind
LEMMA FinishTypes ==
    ASSUME QuotaInv, NEW w \in Worker, Finish(w), nextId' = nextId
    PROVE  /\ task' \in [Worker -> Task] /\ task'[w] = Idle
           /\ \A x \in Worker : x # w => task'[x] = task[x]
           /\ \A x \in Worker : task'[x].pc # "idle" => task'[x].id < nextId'
<1>1. Idle \in Task /\ Idle.pc = "idle"
  BY DEF Idle, Task
<1> QED
  BY <1>1, TaskTypes DEF Finish

LEMMA GotoTypes ==
    ASSUME QuotaInv, NEW w \in Worker, NEW p, Goto(w, p), nextId' = nextId,
           \/ task[w].pc \in CreatePC /\ p \in CreatePC
           \/ task[w].pc \in RemovePC /\ p \in RemovePC
           \/ task[w].pc \in UpdatePC /\ p \in UpdatePC
           \/ task[w].pc \in CheckPC /\ p \in CheckPC
    PROVE  /\ task' \in [Worker -> Task] /\ task'[w] = [task[w] EXCEPT !.pc = p]
           /\ task'[w].pc = p /\ task'[w].id = task[w].id /\ task'[w].quota = task[w].quota
           /\ \A x \in Worker : x # w => task'[x] = task[x]
           /\ \A x \in Worker : task'[x].pc # "idle" => task'[x].id < nextId'
<1> DEFINE t == [task[w] EXCEPT !.pc = p]
<1>1. t \in Task /\ t.pc = p /\ t.id = task[w].id /\ t.quota = task[w].quota /\ task[w].pc # "idle"
  <2>1. CASE task[w].pc \in CreatePC /\ p \in CreatePC
    BY <2>1, TaskKinds DEF QuotaInv, Task, CreateTask, CreatePC
  <2>2. CASE task[w].pc \in RemovePC /\ p \in RemovePC
    BY <2>2, TaskKinds DEF QuotaInv, Task, RemoveTask, RemovePC
  <2>3. CASE task[w].pc \in UpdatePC /\ p \in UpdatePC
    BY <2>3, TaskKinds DEF QuotaInv, Task, UpdateTask, UpdatePC
  <2>4. CASE task[w].pc \in CheckPC /\ p \in CheckPC
    BY <2>4, TaskKinds DEF QuotaInv, Task, CheckTask, CheckPC
  <2> QED
    BY <2>1, <2>2, <2>3, <2>4
<1>2. task' = [task EXCEPT ![w] = t]
  BY DEF Goto
<1>3. t.id < nextId'
  BY <1>1 DEF QuotaInv, Keyed
<1> HIDE DEF t
<1>4. task'[w] = t
  BY <1>2 DEF QuotaInv, TypeOK
<1> QED
  BY <1>1, <1>2, <1>3, <1>4, TaskTypes DEF t

\* The parts of the invariant that a step has to keep
LEMMA InvParts ==
    ASSUME QuotaInv,
           accountuser' \subseteq Row, IsFiniteSet(accountuser'),
           \A r, s \in accountuser' : r.id = s.id => r = s,
           \A r \in accountuser' : r.id < nextId',
           domainquota' \in Quota, domainquotaused' \in Nat, accountcount' \in Nat,
           nextId' \in Nat, nextId' > 0,
           imapquota' \in [DOMAIN imapquota' -> KiB], DOMAIN imapquota' \subseteq Nat,
           \A i \in DOMAIN imapquota' : i < nextId',
           task' \in [Worker -> Task],
           \A x \in Worker : task'[x].pc # "idle" => task'[x].id < nextId',
           cached' \subseteq Nat, faults' \in 0 .. MaxFaults
    PROVE  QuotaInv'
  BY DEF QuotaInv, TypeOK, Keyed

LEMMA RememberTypes ==
    ASSUME QuotaInv, NEW i \in Nat, Remember(i)
    PROVE  cached' \subseteq Nat
  BY DEF QuotaInv, TypeOK, Remember

\* Account::get
LEMMA GetTypes ==
    ASSUME QuotaInv, NEW r \in accountuser, NEW q, NEW src, AccountGet(r, q, src)
    PROVE  cached' \subseteq Nat /\ faults' \in 0 .. MaxFaults
<1>1. r.id \in Nat /\ cached \subseteq Nat /\ faults \in 0 .. MaxFaults
  BY DEF QuotaInv, TypeOK, Row
<1>2. Remember(r.id) \/ UNCHANGED cached
  BY DEF AccountGet
<1>3. faults' = faults \/ (faults < MaxFaults /\ faults' = faults + 1)
  BY DEF AccountGet
<1>4. cached' \subseteq Nat
  BY <1>1, <1>2, RememberTypes
<1>5. faults' \in 0 .. MaxFaults
  BY <1>1, <1>3, QuotaAssumption
<1> QED
  BY <1>4, <1>5

\* Whatever happens to the usages in memcached, nothing else changes.
Still == UNCHANGED <<accountuser, domainquota, domainquotaused, accountcount, nextId,
                     imapquota, task, faults>>

LEMMA NextKinds ==
    ASSUME QuotaInv, [Next]_vars
    PROVE  \/ Still /\ cached' \subseteq Nat
           \/ \E w \in Worker : Begin(w) \/ Step(w) \/ Failure(w)
<1>1. \A r \in accountuser : r.id \in Nat
  BY DEF QuotaInv, TypeOK, Row
<1>2. CASE ListAccounts
  BY <1>1, <1>2, RememberTypes DEF ListAccounts, Still, counters
<1>3. CASE Expire
  BY <1>3 DEF Expire, Still, counters, QuotaInv, TypeOK
<1>4. CASE UNCHANGED vars
  BY <1>4 DEF vars, Still, counters, QuotaInv, TypeOK
<1> QED
  BY <1>2, <1>3, <1>4 DEF Next

\* A request begins with one of the statements of its kind.
LEMMA BeginInv ==
    ASSUME QuotaInv, NEW w \in Worker, Begin(w)
    PROVE  QuotaInv'
<1> DEFINE Same == UNCHANGED <<accountuser, domainquota, domainquotaused, accountcount, nextId, imapquota>>
<1>1. ASSUME NEW t \in Task, Start(w, t), Same, t.pc # "idle" => t.id < nextId,
             cached' \subseteq Nat, faults' \in 0 .. MaxFaults
      PROVE  QuotaInv'
  <2>1. task' \in [Worker -> Task] /\ \A x \in Worker : task'[x].pc # "idle" => task'[x].id < nextId'
    BY <1>1, TaskTypes DEF Start
  <2> QED
    BY <1>1, <2>1, InvParts DEF QuotaInv, TypeOK, Keyed
<1>2. /\ \A r \in accountuser : r.id \in Nat /\ r.quota \in KiB /\ r.id < nextId
      /\ 0 \in KiB /\ Quota \subseteq KiB /\ 0 < nextId
      /\ cached \subseteq Nat /\ faults \in 0 .. MaxFaults
  BY DEF QuotaInv, TypeOK, Keyed, Row, KiB
<1>3. CASE BeginCreate(w)
  <2>1. PICK q \in Quota : Start(w, [pc |-> "insertAccount", id |-> 0, quota |-> q]) /\ Same
    BY <1>3 DEF BeginCreate, counters
  <2>2. [pc |-> "insertAccount", id |-> 0, quota |-> q] \in Task
    BY <1>2 DEF Task, CreateTask
  <2>3. UNCHANGED <<cached, faults>>
    BY <1>3 DEF BeginCreate
  <2> QED
    BY <1>1, <1>2, <2>1, <2>2, <2>3
<1>4. CASE BeginRemove(w)
  <2>1. PICK r \in accountuser : Start(w, [pc |-> "deleteMailbox", id |-> r.id, quota |-> 0]) /\ Same
    BY <1>4 DEF BeginRemove, counters
  <2>2. [pc |-> "deleteMailbox", id |-> r.id, quota |-> 0] \in Task
    BY <1>2 DEF Task, RemoveTask
  <2>3. UNCHANGED <<cached, faults>>
    BY <1>4 DEF BeginRemove
  <2> QED
    BY <1>1, <1>2, <2>1, <2>2, <2>3
<1>5. CASE BeginUpdate(w)
  <2>1. PICK r \in accountuser, q \in Quota, known \in KiB, src \in Source :
           /\ AccountGet(r, known, src)
           /\ Start(w, [pc |-> IF q # known THEN "setQuota" ELSE "updateAccount",
                        id |-> r.id, quota |-> q, source |-> src]) /\ Same
    BY <1>5 DEF BeginUpdate, counters
  <2>2. [pc |-> IF q # known THEN "setQuota" ELSE "updateAccount", id |-> r.id, quota |-> q,
         source |-> src] \in Task
    BY <1>2 DEF Task, UpdateTask
  <2> QED
    BY <1>1, <1>2, <2>1, <2>2, GetTypes
<1>6. CASE \E i \in Ids : BeginCheck(w, i)
  <2>1. PICK r \in accountuser, known \in KiB, src \in Source :
           /\ AccountGet(r, known, src)
           /\ Start(w, [pc |-> "getQuota", id |-> r.id, quota |-> known, source |-> src,
                        seen |-> 0, limited |-> domainquota > 0]) /\ Same
    BY <1>6 DEF BeginCheck, counters
  <2>2. [pc |-> "getQuota", id |-> r.id, quota |-> known, source |-> src, seen |-> 0,
         limited |-> domainquota > 0] \in Task
    BY <1>2 DEF Task, CheckTask
  <2> QED
    BY <1>1, <1>2, <2>1, <2>2, GetTypes
<1>7. CASE SetDomainQuota(w)
  BY <1>7, InvParts DEF SetDomainQuota, counters, QuotaInv, TypeOK, Keyed
<1> QED
  BY <1>3, <1>4, <1>5, <1>6, <1>7 DEF Begin

\* Account::create
LEMMA CreateInv ==
    ASSUME QuotaInv, NEW w \in Worker,
           InsertAccount(w) \/ CreateMailbox(w) \/ SetNewQuota(w) \/ CountUp(w) \/ Undo(w)
    PROVE  QuotaInv'
<1>1. CASE InsertAccount(w)
  <2> DEFINE t == [task[w] EXCEPT !.pc = "createMailbox", !.id = nextId]
             r == [id |-> nextId, quota |-> task[w].quota]
  <2>1. task[w] \in CreateTask /\ nextId \in Nat /\ nextId > 0
    BY <1>1, TaskKinds DEF QuotaInv, TypeOK, Keyed, InsertAccount, At, CreatePC
  <2>2. t \in Task /\ t.id = nextId /\ r \in Row
    BY <2>1 DEF CreateTask, Task, Row
  <2>3. task' = [task EXCEPT ![w] = t] /\ nextId' = nextId + 1 /\ accountuser' = accountuser \cup {r}
    BY <1>1 DEF InsertAccount, Start
  <2>4. task' \in [Worker -> Task] /\ \A x \in Worker : task'[x].pc # "idle" => task'[x].id < nextId'
    <3>1. t.id < nextId' /\ nextId' \in {nextId, nextId + 1}
      BY <2>1, <2>2, <2>3
    <3> HIDE DEF t
    <3> QED
      BY <2>2, <2>3, <3>1, TaskTypes
  <2>5. IsFiniteSet(accountuser') /\ accountuser' \subseteq Row
    BY <2>2, <2>3, FS_AddElement DEF QuotaInv, Keyed, TypeOK
  <2>6. /\ \A q, s \in accountuser' : q.id = s.id => q = s
        /\ \A s \in accountuser' : s.id < nextId'
        /\ \A i \in DOMAIN imapquota : i < nextId'
    BY <2>1, <2>3 DEF QuotaInv, Keyed, TypeOK, Row
  <2> QED
    BY <1>1, <2>1, <2>3, <2>4, <2>5, <2>6, InvParts DEF InsertAccount, counters, QuotaInv, TypeOK
<1>2. CASE CreateMailbox(w)
  <2>1. task[w].pc \in CreatePC /\ task[w].pc # "idle" /\ task[w].id \in Nat /\ task[w].id < nextId /\ 0 \in KiB
    BY <1>2, TaskKinds DEF CreateMailbox, At, CreatePC, QuotaInv, Keyed, KiB
  <2>2. \E p \in CreatePC : Goto(w, p)
    BY <1>2 DEF CreateMailbox, CreatePC
  <2>3. UNCHANGED <<accountuser, domainquota, domainquotaused, accountcount, nextId, cached, faults>>
    BY <1>2 DEF CreateMailbox, counters
  <2>4. task' \in [Worker -> Task] /\ \A x \in Worker : task'[x].pc # "idle" => task'[x].id < nextId'
    BY <2>1, <2>2, <2>3, GotoTypes
  <2>5. /\ imapquota' \in [DOMAIN imapquota' -> KiB] /\ DOMAIN imapquota' \subseteq Nat
        /\ \A i \in DOMAIN imapquota' : i < nextId
    BY <1>2, <2>1, MailboxTypes DEF CreateMailbox, QuotaInv, Keyed
  <2> QED
    BY <2>3, <2>4, <2>5, InvParts DEF QuotaInv, TypeOK, Keyed
<1>3. CASE SetNewQuota(w)
  <2>1. task[w].pc \in CreatePC /\ task[w].id \in Nat /\ task[w].id < nextId /\ task[w].quota \in KiB
    BY <1>3, TaskKinds DEF SetNewQuota, At, CreatePC, QuotaInv, Keyed
  <2>2. \E p \in CreatePC : Goto(w, p)
    BY <1>3 DEF SetNewQuota, CreatePC
  <2>3. UNCHANGED <<accountuser, domainquota, domainquotaused, accountcount, nextId, cached, faults>>
    BY <1>3 DEF SetNewQuota, counters
  <2>4. task' \in [Worker -> Task] /\ \A x \in Worker : task'[x].pc # "idle" => task'[x].id < nextId'
    BY <2>1, <2>2, <2>3, GotoTypes
  <2>5. /\ imapquota' \in [DOMAIN imapquota' -> KiB] /\ DOMAIN imapquota' \subseteq Nat
        /\ \A i \in DOMAIN imapquota' : i < nextId
    BY <1>3, <2>1, MailboxTypes DEF SetNewQuota, QuotaInv, Keyed
  <2> QED
    BY <2>3, <2>4, <2>5, InvParts DEF QuotaInv, TypeOK, Keyed
<1>4. CASE CountUp(w)
  <2>1. task[w].quota \in Int /\ task[w].id \in Nat
    BY <1>4, TaskKinds, KiBNat DEF CountUp, At, QuotaInv
  <2>4. cached' \subseteq Nat
    BY <1>4, <2>1, RememberTypes DEF CountUp
  <2>2. domainquotaused' \in Nat /\ accountcount' \in Nat
    BY <1>4, <2>1, CountTypes DEF CountUp, QuotaInv
  <2>3. task' \in [Worker -> Task] /\ \A x \in Worker : task'[x].pc # "idle" => task'[x].id < nextId'
    BY <1>4, FinishTypes DEF CountUp
  <2> QED
    BY <1>4, <2>2, <2>3, <2>4, InvParts DEF CountUp, QuotaInv, TypeOK, Keyed
<1>5. CASE Undo(w)
  <2>1. task' \in [Worker -> Task] /\ \A x \in Worker : task'[x].pc # "idle" => task'[x].id < nextId'
    BY <1>5, FinishTypes DEF Undo
  <2>2. accountuser' \subseteq accountuser /\ IsFiniteSet(accountuser')
    BY <1>5, FS_Subset DEF Undo, QuotaInv, Keyed
  <2> QED
    BY <1>5, <2>1, <2>2, InvParts DEF Undo, counters, QuotaInv, TypeOK, Keyed
<1> QED
  BY <1>1, <1>2, <1>3, <1>4, <1>5

\* A step that goes on with a statement of its kind, sets, makes or deletes no
\* mailbox but the request's, and leaves the tables alone
LEMMA MailboxInv ==
    ASSUME QuotaInv, NEW w \in Worker, task[w].pc # "idle", NEW q \in KiB,
           \/ HasMailbox(task[w].id) /\ SetMailboxQuota(task[w].id, q)
           \/ MakeMailbox(task[w].id)
           \/ DropMailbox(task[w].id)
           \/ UNCHANGED imapquota,
           \/ Finish(w)
           \/ \E p \in CreatePC : task[w].pc \in CreatePC /\ Goto(w, p)
           \/ \E p \in RemovePC : task[w].pc \in RemovePC /\ Goto(w, p)
           \/ \E p \in UpdatePC : task[w].pc \in UpdatePC /\ Goto(w, p)
           \/ \E p \in CheckPC : task[w].pc \in CheckPC /\ Goto(w, p)
           \/ \E t \in Task : Start(w, t) /\ t.pc # "idle" /\ t.id = task[w].id,
           UNCHANGED <<accountuser, domainquota, domainquotaused, accountcount, nextId>>,
           cached' \subseteq Nat, faults' \in 0 .. MaxFaults
    PROVE  QuotaInv'
<1>1. task[w].id \in Nat /\ task[w].id < nextId
  BY TaskKinds DEF QuotaInv, Keyed
<1>2. /\ imapquota' \in [DOMAIN imapquota' -> KiB] /\ DOMAIN imapquota' \subseteq Nat
      /\ \A i \in DOMAIN imapquota' : i < nextId
  BY <1>1, MailboxTypes DEF QuotaInv, Keyed
<1>3. task' \in [Worker -> Task] /\ \A x \in Worker : task'[x].pc # "idle" => task'[x].id < nextId'
  <2>1. ASSUME NEW t \in Task, Start(w, t), t.pc # "idle", t.id = task[w].id
        PROVE  task' \in [Worker -> Task] /\ \A x \in Worker : task'[x].pc # "idle" => task'[x].id < nextId'
    BY <1>1, <2>1, TaskTypes DEF Start
  <2> QED
    BY <2>1, FinishTypes, GotoTypes
<1> QED
  BY <1>2, <1>3, InvParts DEF QuotaInv, TypeOK, Keyed

\* Account::remove
LEMMA RemoveInv ==
    ASSUME QuotaInv, NEW w \in Worker,
           DeleteMailbox(w) \/ SelectQuota(w) \/ DeleteAccount(w) \/ CountDown(w)
    PROVE  QuotaInv'
<1>1. 0 \in KiB /\ task[w].pc \in RemovePC /\ task[w].pc # "idle" /\ faults \in 0 .. MaxFaults
      /\ task[w] \in RemoveTask /\ task[w].id \in Nat /\ cached \subseteq Nat
  BY TaskKinds DEF KiB, DeleteMailbox, SelectQuota, DeleteAccount, CountDown, At, RemovePC,
     QuotaInv, TypeOK
<1>2. CASE DeleteMailbox(w)
  BY <1>1, <1>2, MailboxInv DEF DeleteMailbox, RemovePC, counters
<1>3. CASE SelectQuota(w)
  <2> DEFINE sum == SumOf({r \in accountuser : r.id = task[w].id})
             t == [task[w] EXCEPT !.pc = "deleteAccount", !.quota = sum]
  <2>1. sum \in KiB
    BY <1>1, SumOfMine DEF QuotaInv
  <2> HIDE DEF sum
  <2>2. t \in Task /\ t.pc # "idle" /\ t.id = task[w].id
    BY <1>1, <2>1 DEF RemoveTask, Task
  <2>3. Start(w, t) /\ UNCHANGED <<accountuser, domainquota, domainquotaused, accountcount, nextId, imapquota, cached, faults>>
    BY <1>3 DEF SelectQuota, counters, sum
  <2> HIDE DEF t
  <2> QED
    BY <1>1, <2>2, <2>3, MailboxInv
<1>4. CASE DeleteAccount(w)
  <2>1. task' \in [Worker -> Task] /\ \A x \in Worker : task'[x].pc # "idle" => task'[x].id < nextId'
    BY <1>1, <1>4, GotoTypes DEF DeleteAccount, RemovePC
  <2>2. accountuser' \subseteq accountuser /\ IsFiniteSet(accountuser')
    BY <1>4, FS_Subset DEF DeleteAccount, QuotaInv, Keyed
  <2> QED
    BY <1>4, <2>1, <2>2, InvParts DEF DeleteAccount, counters, QuotaInv, TypeOK, Keyed
<1>5. CASE CountDown(w)
  <2> DEFINE q == -task[w].quota
  <2>1. q \in Int /\ -1 \in Int
    <3>1. task[w].quota \in Nat
      BY <1>1, KiBNat DEF RemoveTask
    <3> QED
      BY <3>1
  <2>4. Count(-1, q) /\ TypeOK
    BY <1>5 DEF CountDown, QuotaInv
  <2> HIDE DEF q
  <2>2. domainquotaused' \in Nat /\ accountcount' \in Nat
    BY <2>1, <2>4, CountTypes
  <2>3. task' \in [Worker -> Task] /\ \A x \in Worker : task'[x].pc # "idle" => task'[x].id < nextId'
    BY <1>5, FinishTypes DEF CountDown
  <2> QED
    BY <1>5, <2>2, <2>3, InvParts DEF CountDown, QuotaInv, TypeOK, Keyed
<1> QED
  BY <1>2, <1>3, <1>4, <1>5

\* Account::update
LEMMA UpdateInv ==
    ASSUME QuotaInv, NEW w \in Worker, SetQuota(w) \/ UpdateAccount(w) \/ UpdateUsed(w)
    PROVE  QuotaInv'
<1>1. /\ task[w].pc \in UpdatePC /\ task[w].pc # "idle" /\ faults \in 0 .. MaxFaults
      /\ task[w].id \in Nat /\ task[w].quota \in KiB /\ cached \subseteq Nat
  BY TaskKinds DEF SetQuota, UpdateAccount, UpdateUsed, At, UpdatePC, QuotaInv, TypeOK
<1>2. CASE SetQuota(w)
  BY <1>1, <1>2, MailboxInv DEF SetQuota, UpdatePC, counters
<1>3. CASE UpdateAccount(w)
  <2>1. task' \in [Worker -> Task] /\ \A x \in Worker : task'[x].pc # "idle" => task'[x].id < nextId'
    BY <1>1, <1>3, GotoTypes DEF UpdateAccount, UpdatePC
  <2>2. /\ accountuser' \subseteq Row /\ IsFiniteSet(accountuser')
        /\ \A r, s \in accountuser' : r.id = s.id => r = s
        /\ \A r \in accountuser' : r.id < nextId
    BY <1>1, <1>3, RowTypes DEF UpdateAccount, QuotaInv
  <2> QED
    BY <1>3, <2>1, <2>2, InvParts DEF UpdateAccount, counters, QuotaInv, TypeOK, Keyed
<1>4. CASE UpdateUsed(w)
  <2>1. task' \in [Worker -> Task] /\ \A x \in Worker : task'[x].pc # "idle" => task'[x].id < nextId'
    BY <1>4, FinishTypes DEF UpdateUsed
  <2>2. domainquotaused' \in Nat /\ accountcount' \in Nat
    BY <1>4, RecomputeTypes DEF UpdateUsed, QuotaInv
  <2> QED
    BY <1>4, <2>1, <2>2, InvParts DEF UpdateUsed, QuotaInv, TypeOK, Keyed
<1> QED
  BY <1>2, <1>3, <1>4

\* Account::check
LEMMA CheckInv ==
    ASSUME QuotaInv, NEW w \in Worker,
           GetQuota(w) \/ DefaultMailbox(w) \/ DefaultAccount(w) \/ CheckUsed(w) \/ Align(w)
    PROVE  QuotaInv'
<1>1. /\ task[w].pc \in CheckPC /\ task[w].pc # "idle" /\ faults \in 0 .. MaxFaults
      /\ task[w] \in CheckTask /\ task[w].id \in Nat /\ task[w].quota \in KiB
      /\ 0 \in KiB /\ DefaultQuota \in KiB /\ cached \subseteq Nat
  BY TaskKinds DEF GetQuota, DefaultMailbox, DefaultAccount, CheckUsed, Align, At, CheckPC,
     QuotaInv, TypeOK, KiB
<1>2. \A t, q : AfterGetQuota(t, q) \in {"defaultMailbox", "defaultAccount", "align"}
  BY DEF AfterGetQuota
<1>3. CASE GetQuota(w)
  <2> DEFINE seen == MailboxQuota(task[w].id)
             t == [task[w] EXCEPT !.pc = AfterGetQuota(task[w], seen), !.seen = seen]
  <2>1. seen \in KiB
    BY <1>1 DEF MailboxQuota, HasMailbox, QuotaInv, TypeOK
  <2>2. Start(w, t) /\ UNCHANGED <<accountuser, domainquota, domainquotaused, accountcount, nextId, cached, faults>>
    BY <1>3 DEF GetQuota, counters
  <2>3. UNCHANGED imapquota \/ MakeMailbox(task[w].id)
    BY <1>3 DEF GetQuota, MakeIfMissing
  <2> HIDE DEF seen
  <2>4. t \in Task /\ t.pc # "idle" /\ t.id = task[w].id
    BY <1>1, <1>2, <2>1 DEF CheckTask, Task
  <2> HIDE DEF t
  <2> QED
    BY <1>1, <2>2, <2>3, <2>4, MailboxInv
<1>4. CASE DefaultMailbox(w)
  <2> DEFINE t == [task[w] EXCEPT !.pc = AfterGetQuota(task[w], DefaultQuota), !.seen = DefaultQuota]
  <2>1. t \in Task /\ t.pc # "idle" /\ t.id = task[w].id
    BY <1>1, <1>2 DEF CheckTask, Task
  <2>2. /\ UNCHANGED <<accountuser, domainquota, domainquotaused, accountcount, nextId, cached, faults>>
        /\ \/ HasMailbox(task[w].id) /\ SetMailboxQuota(task[w].id, DefaultQuota) /\ Start(w, t)
           \/ UNCHANGED imapquota /\ Finish(w)
    BY <1>4 DEF DefaultMailbox, counters
  <2> HIDE DEF t
  <2> QED
    BY <1>1, <2>1, <2>2, MailboxInv
<1>5. CASE DefaultAccount(w)
  <2> DEFINE t == [task[w] EXCEPT !.pc = "recomputeChecked", !.quota = DefaultQuota]
  <2>1. t \in Task /\ t.pc # "idle" /\ t.id = task[w].id
    BY <1>1 DEF CheckTask, Task
  <2>2. Start(w, t)
    BY <1>5 DEF DefaultAccount
  <2>3. task' \in [Worker -> Task] /\ \A x \in Worker : task'[x].pc # "idle" => task'[x].id < nextId'
    <3>1. t.id < nextId' /\ nextId' \in {nextId, nextId + 1}
      BY <1>1, <1>5, <2>1 DEF DefaultAccount, QuotaInv, Keyed
    <3> HIDE DEF t
    <3> QED
      BY <2>1, <2>2, <3>1, TaskTypes DEF Start
  <2>4. /\ accountuser' \subseteq Row /\ IsFiniteSet(accountuser')
        /\ \A r, s \in accountuser' : r.id = s.id => r = s
        /\ \A r \in accountuser' : r.id < nextId
    BY <1>1, <1>5, RowTypes DEF DefaultAccount, QuotaInv
  <2> QED
    BY <1>5, <2>3, <2>4, InvParts DEF DefaultAccount, counters, QuotaInv, TypeOK, Keyed
<1>6. CASE CheckUsed(w)
  <2>1. task' \in [Worker -> Task] /\ \A x \in Worker : task'[x].pc # "idle" => task'[x].id < nextId'
    BY <1>1, <1>6, GotoTypes DEF CheckUsed, CheckPC
  <2>2. domainquotaused' \in Nat /\ accountcount' \in Nat
    BY <1>6, RecomputeTypes DEF CheckUsed, QuotaInv
  <2> QED
    BY <1>6, <2>1, <2>2, InvParts DEF CheckUsed, QuotaInv, TypeOK, Keyed
<1>7. CASE Align(w)
  <2>1. cached' \subseteq Nat
    BY <1>1, <1>7, RememberTypes DEF Align
  <2> QED
    BY <1>1, <1>7, <2>1, MailboxInv DEF Align, counters
<1> QED
  BY <1>3, <1>4, <1>5, <1>6, <1>7

\* Failed statements, lost answers, the end of the process
LEMMA FailureInv ==
    ASSUME QuotaInv, NEW w \in Worker, Failure(w)
    PROVE  QuotaInv'
<1>1. /\ task[w].pc # "idle" /\ task[w].quota \in KiB /\ 0 \in KiB /\ DefaultQuota \in KiB
      /\ faults' \in 0 .. MaxFaults /\ cached' \subseteq Nat
      /\ UNCHANGED <<accountuser, domainquota, domainquotaused, accountcount, nextId>>
  BY TaskKinds, QuotaAssumption DEF Failure, At, QuotaInv, TypeOK, KiB, counters
<1>2. CASE StatementFails(w) /\ ~QuotaUnknown(w)
  <2>1. \/ Finish(w)
        \/ \E p \in CreatePC : task[w].pc \in CreatePC /\ Goto(w, p)
        \/ \E p \in RemovePC : task[w].pc \in RemovePC /\ Goto(w, p)
        \/ \E p \in CheckPC : task[w].pc \in CheckPC /\ Goto(w, p)
    BY <1>2 DEF StatementFails, At, CreatePC, RemovePC, CheckPC
  <2>2. UNCHANGED imapquota
    BY <1>2 DEF StatementFails
  <2> QED
    BY <1>1, <2>1, <2>2, MailboxInv
<1>5. CASE QuotaUnknown(w)
  <2> DEFINE t == [task[w] EXCEPT !.pc = AfterGetQuota(task[w], 0), !.source = "none"]
  <2>1. Start(w, t) /\ (UNCHANGED imapquota \/ MakeMailbox(task[w].id))
    BY <1>5 DEF QuotaUnknown, MakeIfMissing
  <2>2. task[w] \in CheckTask
    BY <1>5, TaskKinds DEF QuotaUnknown, At, CheckPC, QuotaInv
  <2>3. AfterGetQuota(task[w], 0) \in {"defaultMailbox", "defaultAccount", "align"}
    BY DEF AfterGetQuota
  <2>4. t \in Task /\ t.pc # "idle" /\ t.id = task[w].id
    BY <2>2, <2>3 DEF CheckTask, Task, Source
  <2> HIDE DEF t
  <2> QED
    BY <1>1, <2>1, <2>4, MailboxInv
<1>3. CASE ReplyLost(w)
  <2>1. \/ Finish(w)
        \/ \E p \in CreatePC : task[w].pc \in CreatePC /\ Goto(w, p)
    BY <1>3 DEF ReplyLost, At, CreatePC
  <2>2. \E q \in KiB :
           \/ HasMailbox(task[w].id) /\ SetMailboxQuota(task[w].id, q)
           \/ MakeMailbox(task[w].id)
           \/ DropMailbox(task[w].id)
    BY <1>1, <1>3 DEF ReplyLost
  <2> QED
    BY <1>1, <2>1, <2>2, MailboxInv
<1>4. CASE Crash(w)
  BY <1>1, <1>4, MailboxInv DEF Crash
<1> QED
  BY <1>2, <1>3, <1>4, <1>5 DEF Failure

LEMMA InitInv == Init => QuotaInv
<1> SUFFICES ASSUME Init PROVE QuotaInv
  OBVIOUS
<1>1. TypeOK
  BY QuotaAssumption DEF Init, TypeOK, Task
<1>2. Keyed
  BY FS_EmptySet DEF Init, Keyed, Idle
<1> QED
  BY <1>1, <1>2 DEF QuotaInv

LEMMA StepInv == QuotaInv /\ [Next]_vars => QuotaInv'
<1> SUFFICES ASSUME QuotaInv, [Next]_vars PROVE QuotaInv'
  OBVIOUS
<1>1. ASSUME NEW w \in Worker, Begin(w) \/ Step(w) \/ Failure(w) PROVE QuotaInv'
  BY <1>1, BeginInv, CreateInv, RemoveInv, UpdateInv, CheckInv, FailureInv DEF Step
<1>2. CASE Still /\ cached' \subseteq Nat
  BY <1>2 DEF Still, QuotaInv, TypeOK, Keyed
<1> QED
  BY <1>1, <1>2, NextKinds

\* Every reachable state is well typed, for any number of workers and failures:
\* what a removal has read of its row is one quota, since ids are unique, and
\* what is written over the sum is the sum of finitely many.
THEOREM TypesCorrect == Spec => []TypeOK
<1>1. QuotaInv => TypeOK
  BY DEF QuotaInv
<1> QED
  BY <1>1, InitInv, StepInv, PTL DEF Spec

-----------------------------------------------------------------------------
(* One request after the other *)

Total == SumOf(accountuser)

RowIs(i, q) == [id |-> i, quota |-> q] \in accountuser

\* What the columns of the domain are while the request t is served
Summed(t) ==
    /\ t.pc \in {"createMailbox", "setNewQuota", "countUp"} =>
          domainquotaused + t.quota = Total /\ accountcount + 1 = Cardinality(accountuser)
    /\ t.pc = "countDown" =>
          domainquotaused = Total + t.quota /\ accountcount = Cardinality(accountuser) + 1
    /\ t.pc \in {"recompute", "recomputeChecked"} => accountcount = Cardinality(accountuser)
    /\ t.pc \notin {"createMailbox", "setNewQuota", "countUp", "countDown",
                    "recompute", "recomputeChecked"} =>
          domainquotaused = Total /\ accountcount = Cardinality(accountuser)

\* The account it is about is there.
HasRow(t) ==
    /\ t.pc # "undo"
    /\ t.pc \in {"createMailbox", "setNewQuota", "countUp", "deleteAccount", "recompute"} \cup CheckPC =>
          RowIs(t.id, t.quota)
    /\ t.pc \in {"deleteMailbox", "selectQuota", "setQuota", "updateAccount"} =>
          \E r \in accountuser : r.id = t.id

\* Statements at which the stores may differ about the account
Apart == {"setNewQuota", "updateAccount", "defaultMailbox", "defaultAccount",
          "recomputeChecked", "align"}

Matched(t) ==
    /\ t.pc = "createMailbox" => ~HasMailbox(t.id)
    /\ t.pc = "updateAccount" /\ HasMailbox(t.id) => imapquota[t.id] = t.quota
    /\ t.pc \in {"defaultMailbox", "defaultAccount", "recomputeChecked", "align"} =>
          HasMailbox(t.id) /\ imapquota[t.id] = t.seen
    /\ \A r \in accountuser :
          HasMailbox(r.id) /\ ~(r.id = t.id /\ t.pc \in Apart) => imapquota[r.id] = r.quota

\* Every other account has a mailbox.
Housed(t) ==
    \A r \in accountuser :
        \/ HasMailbox(r.id)
        \/ r.id = t.id /\ t.pc \in {"createMailbox", "selectQuota", "deleteAccount"}

\* What was admitted still fits.
Fits(t) ==
    domainquota > 0 /\ Total <= domainquota =>
        /\ t.pc = "insertAccount" => Total + t.quota <= domainquota
        /\ t.pc \in {"setQuota", "updateAccount"} =>
              \A r \in accountuser : r.id = t.id => Total - r.quota + t.quota <= domainquota

Alone(w) ==
    /\ Summed(task[w]) /\ HasRow(task[w]) /\ Matched(task[w]) /\ Housed(task[w])
    /\ Fits(task[w])

\* A row and the rest
LEMMA RowAndRest ==
    ASSUME QuotaInv, NEW r \in accountuser
    PROVE  /\ IsFiniteSet(accountuser \ {r}) /\ accountuser \ {r} \subseteq Row
           /\ Total \in Nat /\ r.quota \in Nat /\ SumOf(accountuser \ {r}) \in Nat
           /\ Total = r.quota + SumOf(accountuser \ {r})
           /\ Cardinality(accountuser) \in Nat /\ Cardinality(accountuser \ {r}) \in Nat
           /\ Cardinality(accountuser) = Cardinality(accountuser \ {r}) + 1
<1>1. IsFiniteSet(accountuser) /\ accountuser \subseteq Row /\ r \in Row
  BY DEF QuotaInv, TypeOK, Keyed
<1>2. IsFiniteSet(accountuser \ {r}) /\ accountuser \ {r} \subseteq Row
  BY <1>1, FS_Subset
<1>3. r.quota \in Nat
  BY <1>1, KiBNat DEF Row
<1>4. /\ Cardinality(accountuser) \in Nat /\ Cardinality(accountuser \ {r}) \in Nat
      /\ Cardinality(accountuser \ {r}) = Cardinality(accountuser) - 1
  BY <1>1, <1>2, FS_CardinalityType, FS_RemoveElement
<1> QED
  BY <1>1, <1>2, <1>3, <1>4, SumOfRows DEF Total

LEMMA TotalNat ==
    ASSUME QuotaInv
    PROVE  Total \in Nat /\ Cardinality(accountuser) \in Nat
  BY SumOfRows, FS_CardinalityType DEF QuotaInv, TypeOK, Keyed, Total

\* A row that replaces another, or comes in addition
LEMMA RowAndMore ==
    ASSUME NEW rows, IsFiniteSet(rows), rows \subseteq Row, NEW r \in Row, r \notin rows,
           accountuser' = rows \cup {r}
    PROVE  /\ Total' = SumOf(rows) + r.quota
           /\ Cardinality(accountuser') = Cardinality(rows) + 1
           /\ Cardinality(rows) \in Nat
<1>1. Total' = SumOf(rows) + r.quota
  BY SumOfMore DEF Total
<1>2. Cardinality(rows \cup {r}) = Cardinality(rows) + 1
  BY FS_AddElement
<1> QED
  BY <1>1, <1>2, FS_CardinalityType

\* The row of an account is set.
LEMMA RowSet ==
    ASSUME QuotaInv, NEW i \in Nat, NEW q \in KiB, SetAccountQuota(i, q),
           NEW r \in accountuser, r.id = i
    PROVE  /\ accountuser' = (accountuser \ {r}) \cup {[id |-> i, quota |-> q]}
           /\ Total' = Total - r.quota + q
           /\ Cardinality(accountuser') = Cardinality(accountuser)
<1>1. accountuser' = (accountuser \ {r}) \cup {[id |-> i, quota |-> q]}
  <2>1. \A s \in accountuser : s.id = i => s = r
    BY DEF QuotaInv, Keyed
  <2> QED
    BY <2>1, RowChanges DEF QuotaInv
<1>2. [id |-> i, quota |-> q] \in Row /\ [id |-> i, quota |-> q] \notin accountuser \ {r} /\ q \in Nat
  <2>1. ASSUME [id |-> i, quota |-> q] \in accountuser PROVE [id |-> i, quota |-> q] = r
    BY <2>1 DEF QuotaInv, Keyed
  <2> QED
    BY <2>1, KiBNat DEF Row
<1>3. Total' = SumOf(accountuser \ {r}) + q
  BY <1>1, <1>2, RowAndRest, RowAndMore
<1>4. Cardinality(accountuser') = Cardinality(accountuser \ {r}) + 1
  BY <1>1, <1>2, RowAndRest, RowAndMore
<1> QED
  BY <1>1, <1>2, <1>3, <1>4, RowAndRest

\* A row leaves.
LEMMA RowGone ==
    ASSUME QuotaInv, NEW r \in accountuser, accountuser' = {s \in accountuser : s.id # r.id}
    PROVE  /\ accountuser' = accountuser \ {r}
           /\ Total' = Total - r.quota
           /\ Cardinality(accountuser') = Cardinality(accountuser) - 1
<1>1. accountuser' = accountuser \ {r}
  BY DEF QuotaInv, Keyed
<1>2. Total' = SumOf(accountuser \ {r}) /\ Cardinality(accountuser') = Cardinality(accountuser \ {r})
  BY <1>1 DEF Total
<1>3. /\ SumOf(accountuser \ {r}) = Total - r.quota
      /\ Cardinality(accountuser \ {r}) = Cardinality(accountuser) - 1
  BY RowAndRest
<1> QED
  BY <1>1, <1>2, <1>3

\* What a removal reads of its row
LEMMA MineIs ==
    ASSUME QuotaInv, NEW i, \E r \in accountuser : r.id = i
    PROVE  RowIs(i, SumOf({r \in accountuser : r.id = i}))
<1> DEFINE mine == {r \in accountuser : r.id = i}
<1>1. PICK r \in accountuser : r.id = i
  OBVIOUS
<1>2. mine = {r} /\ r \in Row
  BY <1>1 DEF QuotaInv, Keyed, TypeOK
<1>3. r.quota \in Nat /\ r.quota + 0 = r.quota /\ r = [id |-> i, quota |-> r.quota]
  BY <1>1, <1>2, KiBNat DEF Row
<1>4. SumOf({r}) = r.quota
  <2>1. /\ IsFiniteSet({r}) /\ {r} \subseteq Row /\ r \in {r} /\ {r} \ {r} = {}
        /\ IsFiniteSet({}) /\ {} \subseteq Row
    BY <1>2, FS_EmptySet, FS_Singleton
  <2>2. SumOf({}) = 0
    BY <2>1, SumOfRows
  <2>3. SumOf({r}) = r.quota + SumOf({r} \ {r})
    BY <2>1, SumOfRows
  <2> QED
    BY <1>3, <2>1, <2>2, <2>3
<1> QED
  BY <1>1, <1>2, <1>3, <1>4 DEF RowIs

LEMMA NoWrap ==
    ASSUME NEW n \in Nat, n < Wrap
    PROVE  n % Wrap = n
  BY QuotaAssumption

\* Between the requests of a single worker Account::get says the same of an
\* account wherever it asks.
LEMMA GetAlone ==
    ASSUME NEW w \in Worker, Alone(w), task[w].pc = "idle", NEW r \in accountuser,
           NEW q, NEW src, AccountGet(r, q, src), faults' = faults, faults \in Nat
    PROVE  q = r.quota
<1>1. HasMailbox(r.id) /\ imapquota[r.id] = r.quota
  BY DEF Alone, Housed, Matched, Apart
<1> QED
  BY <1>1 DEF AccountGet, MailboxQuota

\* A request of the only worker that begins
LEMMA BeginAlone ==
    ASSUME QuotaInv, NEW w \in Worker, Alone(w), Begin(w), UNCHANGED faults
    PROVE  Alone(w)'
<1> DEFINE Same == UNCHANGED <<accountuser, domainquota, domainquotaused, accountcount, nextId, imapquota, faults>>
<1>1. /\ task[w].pc = "idle" /\ Total \in Nat
      /\ domainquota \in 0 .. Wrap - 1 /\ Wrap \in Nat /\ Quota \subseteq Nat
      /\ faults \in Nat
  <2>1. task[w].pc = "idle"
    BY DEF Begin, BeginCreate, BeginRemove, BeginUpdate, BeginCheck, SetDomainQuota, At
  <2>2. Quota \subseteq 0 .. Wrap - 1 /\ Wrap \in Nat /\ domainquota \in Quota
    BY QuotaAssumption DEF QuotaInv, TypeOK
  <2>3. faults \in Nat
    BY QuotaAssumption DEF QuotaInv, TypeOK
  <2> QED
    BY <2>1, <2>2, <2>3, TotalNat
<1>2. /\ domainquotaused = Total /\ accountcount = Cardinality(accountuser)
      /\ \A r \in accountuser : HasMailbox(r.id) => imapquota[r.id] = r.quota
  BY <1>1 DEF Alone, Summed, Matched, Apart
<1>9. ASSUME UNCHANGED <<accountuser, imapquota>> PROVE Housed(task[w])'
  BY <1>1, <1>9 DEF Alone, Housed, HasMailbox
<1>3. ASSUME NEW t, Start(w, t) PROVE task'[w] = t
  BY <1>3 DEF Start, QuotaInv, TypeOK
<1>4. CASE BeginCreate(w)
  <2>1. PICK q \in Quota :
           /\ Admits(q, 0) /\ Same
           /\ Start(w, [pc |-> "insertAccount", id |-> 0, quota |-> q])
    BY <1>4 DEF BeginCreate, counters
  <2>2. task'[w] = [pc |-> "insertAccount", id |-> 0, quota |-> q]
    BY <1>3, <2>1
  <2>3. domainquota > 0 /\ Total <= domainquota => Total + q <= domainquota
    <3>1. SUFFICES ASSUME domainquota > 0, Total <= domainquota PROVE Total + q <= domainquota
      OBVIOUS
    <3>2. (domainquota - domainquotaused + 0) % Wrap = domainquota - Total
      BY <1>1, <1>2, <3>1
    <3> QED
      BY <1>1, <2>1, <3>1, <3>2 DEF Admits, FreeQuota
  <2> QED
    BY <1>2, <1>9, <2>1, <2>2, <2>3 DEF Alone, Summed, HasRow, Matched, Fits, Total, Apart, CheckPC,
       HasMailbox, RowIs
<1>5. CASE BeginRemove(w)
  <2>1. PICK r \in accountuser :
           Same /\ Start(w, [pc |-> "deleteMailbox", id |-> r.id, quota |-> 0])
    BY <1>5 DEF BeginRemove, counters
  <2>2. task'[w] = [pc |-> "deleteMailbox", id |-> r.id, quota |-> 0]
    BY <1>3, <2>1
  <2> QED
    BY <1>2, <1>9, <2>1, <2>2 DEF Alone, Summed, HasRow, Matched, Fits, Total, Apart, CheckPC,
       HasMailbox, RowIs
<1>6. CASE BeginUpdate(w)
  <2>6. PICK r \in accountuser, q \in Quota, known \in KiB, src \in Source :
           /\ AccountGet(r, known, src)
           /\ Admits(q, known) /\ Same
           /\ Start(w, [pc |-> IF q # known THEN "setQuota" ELSE "updateAccount",
                        id |-> r.id, quota |-> q, source |-> src])
    BY <1>6 DEF BeginUpdate, counters
  <2>7. known = r.quota
    BY <1>1, <2>6, GetAlone
  <2>1. /\ Admits(q, r.quota) /\ Same
        /\ Start(w, [pc |-> IF q # r.quota THEN "setQuota" ELSE "updateAccount",
                     id |-> r.id, quota |-> q, source |-> src])
    BY <2>6, <2>7
  <2>2. /\ task'[w].pc = IF q # r.quota THEN "setQuota" ELSE "updateAccount"
        /\ task'[w].id = r.id /\ task'[w].quota = q
    BY <1>3, <2>1
  <2>3. r.quota \in Nat /\ r.quota <= Total /\ \A s \in accountuser : s.id = r.id => s = r
    <3>1. r.quota \in Nat /\ Total = r.quota + SumOf(accountuser \ {r}) /\ SumOf(accountuser \ {r}) \in Nat
      BY RowAndRest
    <3>2. \A s \in accountuser : s.id = r.id => s = r
      BY DEF QuotaInv, Keyed
    <3> QED
      BY <1>1, <3>1, <3>2
  <2>4. domainquota > 0 /\ Total <= domainquota => Total - r.quota + q <= domainquota
    <3>1. SUFFICES ASSUME domainquota > 0, Total <= domainquota PROVE Total - r.quota + q <= domainquota
      OBVIOUS
    <3> DEFINE free == domainquota - domainquotaused + r.quota
    <3>3. free \in Nat /\ free < Wrap /\ free = domainquota - Total + r.quota
      BY <1>1, <1>2, <2>3, <3>1
    <3>2. free % Wrap = domainquota - Total + r.quota
      <4> HIDE DEF free
      <4> QED
        BY <3>3, NoWrap
    <3> QED
      BY <1>1, <2>1, <2>3, <3>1, <3>2 DEF Admits, FreeQuota
  <2>5. HasMailbox(r.id) /\ q = r.quota => imapquota[r.id] = q
    BY <1>2
  <2> QED
    BY <1>2, <1>9, <2>1, <2>2, <2>3, <2>4, <2>5 DEF Alone, Summed, HasRow, Matched, Fits, Total, Apart,
       CheckPC, HasMailbox, RowIs
<1>7. CASE \E i \in Ids : BeginCheck(w, i)
  <2>4. PICK r \in accountuser, known \in KiB, src \in Source :
           /\ AccountGet(r, known, src) /\ Same
           /\ Start(w, [pc |-> "getQuota", id |-> r.id, quota |-> known, source |-> src,
                        seen |-> 0, limited |-> domainquota > 0])
    BY <1>7 DEF BeginCheck, counters
  <2>5. known = r.quota
    BY <1>1, <2>4, GetAlone
  <2>1. /\ Same
        /\ Start(w, [pc |-> "getQuota", id |-> r.id, quota |-> r.quota, source |-> src,
                     seen |-> 0, limited |-> domainquota > 0])
    BY <2>4, <2>5
  <2>2. task'[w].pc = "getQuota" /\ task'[w].id = r.id /\ task'[w].quota = r.quota
    BY <1>3, <2>1
  <2>3. RowIs(r.id, r.quota)
    BY DEF RowIs, QuotaInv, TypeOK, Row
  <2> QED
    BY <1>2, <1>9, <2>1, <2>2, <2>3 DEF Alone, Summed, HasRow, Matched, Fits, Total, Apart, CheckPC,
       HasMailbox, RowIs
<1>8. CASE SetDomainQuota(w)
  BY <1>1, <1>2, <1>8, <1>9 DEF SetDomainQuota, counters, Alone, Summed, HasRow, Matched, Fits, Total,
     Apart, CheckPC, HasMailbox, RowIs
<1> QED
  BY <1>4, <1>5, <1>6, <1>7, <1>8 DEF Begin

\* Account::create of the only worker
LEMMA CreateAlone ==
    ASSUME QuotaInv, NEW w \in Worker, Alone(w),
           InsertAccount(w) \/ CreateMailbox(w) \/ SetNewQuota(w) \/ CountUp(w) \/ Undo(w)
    PROVE  Alone(w)'
<1> DEFINE t == task[w]
<1>1. /\ t \in CreateTask /\ t.pc \in CreatePC /\ t.id \in Nat /\ t.quota \in KiB /\ t.quota \in Nat
      /\ Total \in Nat /\ Cardinality(accountuser) \in Nat /\ nextId \in Nat
      /\ domainquotaused \in Nat /\ accountcount \in Nat
  BY TaskKinds, TotalNat, KiBNat DEF InsertAccount, CreateMailbox, SetNewQuota, CountUp, Undo, At,
     CreatePC, QuotaInv, TypeOK
<1>2. ASSUME NEW p, Goto(w, p) PROVE task'[w].pc = p /\ task'[w].id = t.id /\ task'[w].quota = t.quota
  BY <1>1, <1>2 DEF Goto, QuotaInv, TypeOK, CreateTask
<1>3. ASSUME Finish(w) PROVE task'[w] = Idle
  BY <1>3 DEF Finish, QuotaInv, TypeOK
<1>4. CASE InsertAccount(w)
  <2> DEFINE row == [id |-> nextId, quota |-> t.quota]
  <2>1. /\ t.pc = "insertAccount"
        /\ accountuser' = accountuser \cup {row}
        /\ UNCHANGED <<domainquota, domainquotaused, accountcount, imapquota>>
    BY <1>4 DEF InsertAccount, At, counters
  <2>2. task'[w].pc = "createMailbox" /\ task'[w].id = nextId /\ task'[w].quota = t.quota
    BY <1>1, <1>4 DEF InsertAccount, Start, QuotaInv, TypeOK, CreateTask
  <2>3. row \in Row /\ row.id = nextId /\ row.quota = t.quota /\ \A r \in accountuser : r.id # nextId
    BY <1>1 DEF Row, QuotaInv, Keyed, TypeOK
  <2>4. Total' = Total + t.quota /\ Cardinality(accountuser') = Cardinality(accountuser) + 1
    <3>1. row \notin accountuser
      BY <2>3
    <3> HIDE DEF row
    <3> QED
      BY <2>1, <2>3, <3>1, RowAndMore DEF Total, QuotaInv, TypeOK, Keyed
  <2>5. ~HasMailbox(nextId)
    BY <1>1 DEF HasMailbox, QuotaInv, TypeOK, Keyed
  <2>6. Summed(task[w])'
    BY <1>1, <2>1, <2>2, <2>4 DEF Alone, Summed
  <2>7. HasRow(task[w])' /\ Fits(task[w])'
    BY <2>1, <2>2 DEF HasRow, Fits, RowIs, CheckPC
  <2>8. Matched(task[w])'
    BY <2>1, <2>2, <2>3, <2>5 DEF Alone, Matched, HasMailbox, Apart
  <2>9. Housed(task[w])'
    BY <2>1, <2>2, <2>3 DEF Alone, Housed, HasMailbox
  <2> QED
    BY <2>6, <2>7, <2>8, <2>9 DEF Alone
<1>5. CASE CreateMailbox(w)
  <2>1. /\ t.pc = "createMailbox" /\ ~HasMailbox(t.id)
        /\ UNCHANGED <<accountuser, domainquota, domainquotaused, accountcount>>
    BY <1>5 DEF CreateMailbox, At, counters, Alone, Matched
  <2>2. MakeMailbox(t.id) /\ task'[w].pc = "setNewQuota" /\ task'[w].id = t.id /\ task'[w].quota = t.quota
    BY <1>2, <1>5, <2>1 DEF CreateMailbox
  <2>3. Matched(task[w])'
    BY <2>1, <2>2 DEF Alone, Matched, HasMailbox, MakeMailbox, Apart
  <2>4. Housed(task[w])'
    BY <2>1, <2>2 DEF Alone, Housed, HasMailbox, MakeMailbox
  <2> QED
    BY <2>1, <2>2, <2>3, <2>4 DEF Alone, Summed, HasRow, Fits, RowIs, CheckPC, Total
<1>6. CASE SetNewQuota(w)
  <2>1. /\ t.pc = "setNewQuota" /\ RowIs(t.id, t.quota)
        /\ UNCHANGED <<accountuser, domainquota, domainquotaused, accountcount>>
    BY <1>6 DEF SetNewQuota, At, counters, Alone, HasRow
  <2>2. task'[w].pc = "countUp" /\ task'[w].id = t.id /\ task'[w].quota = t.quota
    BY <1>2, <1>6 DEF SetNewQuota
  <2>3. \A r \in accountuser : r.id = t.id => r.quota = t.quota
    BY <2>1 DEF RowIs, QuotaInv, Keyed
  <2>4. Matched(task[w])'
    BY <1>6, <2>1, <2>2, <2>3 DEF Alone, Matched, HasMailbox, SetNewQuota, SetMailboxQuota, Apart
  <2>5. Housed(task[w])'
    BY <1>6, <2>1, <2>2 DEF Alone, Housed, HasMailbox, SetNewQuota, SetMailboxQuota
  <2> QED
    BY <2>1, <2>2, <2>4, <2>5 DEF Alone, Summed, HasRow, Fits, RowIs, CheckPC, Total
<1>7. CASE CountUp(w)
  <2>1. t.pc = "countUp" /\ UNCHANGED <<accountuser, domainquota, imapquota>> /\ task'[w] = Idle
    BY <1>3, <1>7 DEF CountUp, At
  <2>2. domainquotaused' = domainquotaused + t.quota /\ accountcount' = accountcount + 1
    BY <1>1, <1>7 DEF CountUp, Count
  <2> QED
    BY <1>1, <2>1, <2>2 DEF Alone, Summed, HasRow, Matched, Housed, Fits, RowIs, CheckPC, Total,
       HasMailbox, Idle, Apart
<1>8. CASE Undo(w)
  BY <1>8 DEF Undo, At, Alone, HasRow
<1> QED
  BY <1>4, <1>5, <1>6, <1>7, <1>8

\* Account::remove of the only worker
LEMMA RemoveAlone ==
    ASSUME QuotaInv, NEW w \in Worker, Alone(w),
           DeleteMailbox(w) \/ SelectQuota(w) \/ DeleteAccount(w) \/ CountDown(w)
    PROVE  Alone(w)'
<1> DEFINE t == task[w]
<1>1. /\ t \in RemoveTask /\ t.pc \in RemovePC /\ t.id \in Nat /\ t.quota \in KiB /\ t.quota \in Nat
      /\ Total \in Nat /\ Cardinality(accountuser) \in Nat
      /\ domainquotaused \in Nat /\ accountcount \in Nat
  BY TaskKinds, TotalNat, KiBNat DEF DeleteMailbox, SelectQuota, DeleteAccount, CountDown, At,
     RemovePC, QuotaInv, TypeOK
<1>2. ASSUME NEW p, Goto(w, p) PROVE task'[w].pc = p /\ task'[w].id = t.id /\ task'[w].quota = t.quota
  BY <1>1, <1>2 DEF Goto, QuotaInv, TypeOK, RemoveTask
<1>3. ASSUME Finish(w) PROVE task'[w] = Idle
  BY <1>3 DEF Finish, QuotaInv, TypeOK
<1>4. CASE DeleteMailbox(w)
  <2>1. /\ t.pc = "deleteMailbox"
        /\ UNCHANGED <<accountuser, domainquota, domainquotaused, accountcount>>
    BY <1>4 DEF DeleteMailbox, At, counters
  <2>2. \/ UNCHANGED imapquota /\ task'[w] = Idle
        \/ DropMailbox(t.id) /\ task'[w].pc = "selectQuota" /\ task'[w].id = t.id
    BY <1>2, <1>3, <1>4 DEF DeleteMailbox
  <2>3. Matched(task[w])'
    BY <2>1, <2>2 DEF Alone, Matched, HasMailbox, DropMailbox, Apart, Idle
  <2>4. Housed(task[w])'
    BY <2>1, <2>2 DEF Alone, Housed, HasMailbox, DropMailbox, Idle
  <2> QED
    BY <2>1, <2>2, <2>3, <2>4 DEF Alone, Summed, HasRow, Fits, RowIs, CheckPC, Total, Idle
<1>5. CASE SelectQuota(w)
  <2>1. /\ t.pc = "selectQuota"
        /\ UNCHANGED <<accountuser, domainquota, domainquotaused, accountcount, imapquota>>
    BY <1>5 DEF SelectQuota, At, counters
  <2> DEFINE mine == {r \in accountuser : r.id = t.id}
  <2>2. /\ task'[w].pc = "deleteAccount" /\ task'[w].id = t.id /\ task'[w].quota = SumOf(mine)
    BY <1>1, <1>5 DEF SelectQuota, Start, QuotaInv, TypeOK, RemoveTask
  <2>3. RowIs(t.id, SumOf(mine))
    BY <2>1, MineIs DEF Alone, HasRow
  <2> QED
    BY <2>1, <2>2, <2>3 DEF Alone, Summed, HasRow, Matched, Housed, Fits, RowIs, CheckPC, Total,
       HasMailbox, Apart
<1>6. CASE DeleteAccount(w)
  <2>1. /\ t.pc = "deleteAccount" /\ RowIs(t.id, t.quota)
        /\ UNCHANGED <<domainquota, domainquotaused, accountcount, imapquota>>
    BY <1>6 DEF DeleteAccount, At, counters, Alone, HasRow
  <2>2. task'[w].pc = "countDown" /\ task'[w].id = t.id /\ task'[w].quota = t.quota
    BY <1>2, <1>6 DEF DeleteAccount
  <2>3. PICK r \in accountuser : r = [id |-> t.id, quota |-> t.quota]
    BY <2>1 DEF RowIs
  <2>4. accountuser' = {s \in accountuser : s.id # r.id} /\ r.quota = t.quota
    BY <1>6, <2>3 DEF DeleteAccount
  <2>5. /\ accountuser' = accountuser \ {r}
        /\ Total' = Total - t.quota /\ Cardinality(accountuser') = Cardinality(accountuser) - 1
    BY <2>4, RowGone
  <2>6. Summed(task[w])'
    BY <1>1, <2>1, <2>2, <2>5 DEF Alone, Summed
  <2>7. Housed(task[w])'
    <3>1. accountuser' = {s \in accountuser : s.id # t.id}
      BY <1>6 DEF DeleteAccount
    <3> QED
      BY <2>1, <3>1 DEF Alone, Housed, HasMailbox
  <2> QED
    BY <2>1, <2>2, <2>5, <2>6, <2>7 DEF Alone, HasRow, Matched, Fits, RowIs, CheckPC, HasMailbox, Apart
<1>7. CASE CountDown(w)
  <2>1. t.pc = "countDown" /\ UNCHANGED <<accountuser, domainquota, imapquota>> /\ task'[w] = Idle
    BY <1>3, <1>7 DEF CountDown, At
  <2>2. domainquotaused = Total + t.quota /\ accountcount = Cardinality(accountuser) + 1
    BY <2>1 DEF Alone, Summed
  <2>3. domainquotaused + (-t.quota) = Total /\ accountcount + (-1) = Cardinality(accountuser)
    BY <1>1, <2>2
  <2>4. domainquotaused' = Total /\ accountcount' = Cardinality(accountuser)
    BY <1>1, <1>7, <2>3 DEF CountDown, Count
  <2> QED
    BY <2>1, <2>4 DEF Alone, Summed, HasRow, Matched, Housed, Fits, RowIs, CheckPC, Total, HasMailbox,
       Idle, Apart
<1> QED
  BY <1>4, <1>5, <1>6, <1>7

\* Account::update of the only worker
LEMMA UpdateAlone ==
    ASSUME QuotaInv, NEW w \in Worker, Alone(w),
           SetQuota(w) \/ UpdateAccount(w) \/ UpdateUsed(w)
    PROVE  Alone(w)'
<1> DEFINE t == task[w]
<1>1. /\ t \in UpdateTask /\ t.pc \in UpdatePC /\ t.id \in Nat /\ t.quota \in KiB /\ t.quota \in Nat
      /\ Total \in Nat /\ Cardinality(accountuser) \in Nat
  BY TaskKinds, TotalNat, KiBNat DEF SetQuota, UpdateAccount, UpdateUsed, At, UpdatePC,
     QuotaInv, TypeOK
<1>2. ASSUME NEW p, Goto(w, p) PROVE task'[w].pc = p /\ task'[w].id = t.id /\ task'[w].quota = t.quota
  BY <1>1, <1>2 DEF Goto, QuotaInv, TypeOK, UpdateTask
<1>3. ASSUME Finish(w) PROVE task'[w] = Idle
  BY <1>3 DEF Finish, QuotaInv, TypeOK
<1>4. CASE SetQuota(w)
  <2>1. /\ t.pc = "setQuota"
        /\ UNCHANGED <<accountuser, domainquota, domainquotaused, accountcount>>
    BY <1>4 DEF SetQuota, At, counters
  <2>2. \/ /\ HasMailbox(t.id) /\ SetMailboxQuota(t.id, t.quota)
           /\ task'[w].pc = "updateAccount" /\ task'[w].id = t.id /\ task'[w].quota = t.quota
        \/ UNCHANGED imapquota /\ task'[w] = Idle
    BY <1>2, <1>3, <1>4 DEF SetQuota
  <2>3. Matched(task[w])'
    <3>1. ASSUME HasMailbox(t.id), SetMailboxQuota(t.id, t.quota),
                 task'[w].pc = "updateAccount", task'[w].id = t.id, task'[w].quota = t.quota
          PROVE  Matched(task[w])'
      <4>1. /\ DOMAIN imapquota' = DOMAIN imapquota /\ imapquota'[t.id] = t.quota
            /\ \A i \in DOMAIN imapquota : i # t.id => imapquota'[i] = imapquota[i]
        BY <3>1 DEF HasMailbox, SetMailboxQuota, QuotaInv, TypeOK
      <4> QED
        BY <2>1, <3>1, <4>1 DEF Alone, Matched, HasMailbox, Apart
    <3>2. ASSUME UNCHANGED imapquota, task'[w] = Idle PROVE Matched(task[w])'
      BY <2>1, <3>2 DEF Alone, Matched, HasMailbox, Apart, Idle
    <3> QED
      BY <2>2, <3>1, <3>2
  <2>4. Housed(task[w])'
    <3>1. DOMAIN imapquota' = DOMAIN imapquota
      BY <2>2 DEF SetMailboxQuota, QuotaInv, TypeOK
    <3> QED
      BY <2>1, <2>2, <3>1 DEF Alone, Housed, HasMailbox
  <2> QED
    BY <2>1, <2>2, <2>3, <2>4 DEF Alone, Summed, HasRow, Fits, RowIs, CheckPC, Total, Idle
<1>5. CASE UpdateAccount(w)
  <2>1. /\ t.pc = "updateAccount" /\ SetAccountQuota(t.id, t.quota)
        /\ UNCHANGED <<domainquota, domainquotaused, accountcount, imapquota>>
    BY <1>5 DEF UpdateAccount, At, counters
  <2>2. task'[w].pc = "recompute" /\ task'[w].id = t.id /\ task'[w].quota = t.quota
    BY <1>2, <1>5 DEF UpdateAccount
  <2>3. PICK r \in accountuser : r.id = t.id
    BY <2>1 DEF Alone, HasRow
  <2> DEFINE row == [id |-> t.id, quota |-> t.quota]
  <2>4. /\ accountuser' = (accountuser \ {r}) \cup {row}
        /\ Cardinality(accountuser') = Cardinality(accountuser)
    BY <1>1, <2>1, <2>3, RowSet
  <2>5. row.id = t.id /\ row.quota = t.quota /\ \A s \in accountuser : s.id = t.id => s = r
    BY <2>3 DEF QuotaInv, Keyed
  <2> HIDE DEF row
  <2>6. Matched(task[w])'
    BY <2>1, <2>2, <2>4, <2>5 DEF Alone, Matched, HasMailbox, Apart
  <2>7. Summed(task[w])'
    BY <2>1, <2>2, <2>4 DEF Alone, Summed
  <2>8. HasRow(task[w])' /\ Fits(task[w])'
    BY <2>2, <2>4 DEF HasRow, Fits, RowIs, CheckPC, row
  <2>9. Housed(task[w])'
    BY <2>1, <2>3, <2>4, <2>5 DEF Alone, Housed, HasMailbox
  <2> QED
    BY <2>6, <2>7, <2>8, <2>9 DEF Alone
<1>6. CASE UpdateUsed(w)
  <2>1. /\ t.pc = "recompute" /\ Recompute /\ task'[w] = Idle
        /\ UNCHANGED <<accountuser, domainquota, imapquota>>
    BY <1>3, <1>6 DEF UpdateUsed, At
  <2>2. accountuser # {}
    BY <2>1 DEF Alone, HasRow, RowIs
  <2>3. domainquotaused' = Total /\ accountcount' = accountcount
    BY <2>1, <2>2 DEF Recompute, Total
  <2> QED
    BY <2>1, <2>3 DEF Alone, Summed, HasRow, Matched, Housed, Fits, RowIs, CheckPC, Total, HasMailbox,
       Idle, Apart
<1> QED
  BY <1>4, <1>5, <1>6

\* Account::check of the only worker
LEMMA CheckAlone ==
    ASSUME QuotaInv, NEW w \in Worker, Alone(w),
           GetQuota(w) \/ DefaultMailbox(w) \/ DefaultAccount(w) \/ CheckUsed(w) \/ Align(w)
    PROVE  Alone(w)'
<1> DEFINE t == task[w]
<1>1. /\ t \in CheckTask /\ t.pc \in CheckPC /\ t.id \in Nat /\ t.quota \in KiB
      /\ Total \in Nat /\ Cardinality(accountuser) \in Nat /\ DefaultQuota \in KiB
  BY TaskKinds, TotalNat DEF GetQuota, DefaultMailbox, DefaultAccount, CheckUsed, Align, At, CheckPC,
     QuotaInv, TypeOK, KiB
<1>2. RowIs(t.id, t.quota)
  BY <1>1 DEF Alone, HasRow
<1>3. ASSUME NEW u, Start(w, u) PROVE task'[w] = u
  BY <1>3 DEF Start, QuotaInv, TypeOK
<1>4. ASSUME Finish(w) PROVE task'[w] = Idle
  BY <1>4 DEF Finish, QuotaInv, TypeOK
<1>5. \A u, q : AfterGetQuota(u, q) \in {"defaultMailbox", "defaultAccount", "align"}
  BY DEF AfterGetQuota
<1>6. /\ \A r \in accountuser : r.id = t.id => r.quota = t.quota
      /\ \A i \in DOMAIN imapquota : i \in Nat
  BY <1>2 DEF RowIs, QuotaInv, Keyed, TypeOK
<1>7. CASE GetQuota(w)
  <2> DEFINE seen == MailboxQuota(t.id)
             u == [t EXCEPT !.pc = AfterGetQuota(t, seen), !.seen = seen]
  <2>1. /\ t.pc = "getQuota" /\ task'[w] = u
        /\ UNCHANGED <<accountuser, domainquota, domainquotaused, accountcount>>
        /\ IF HasMailbox(t.id) THEN UNCHANGED imapquota ELSE MakeMailbox(t.id)
    BY <1>3, <1>7 DEF GetQuota, MakeIfMissing, At, counters
  <2>2. /\ u.pc \in {"defaultMailbox", "defaultAccount", "align"}
        /\ u.id = t.id /\ u.quota = t.quota /\ u.seen = seen
    BY <1>1, <1>5 DEF CheckTask
  <2>3. HasMailbox(t.id)' /\ imapquota'[t.id] = seen
    BY <2>1 DEF HasMailbox, MakeMailbox, MailboxQuota
  <2>4. \A i : HasMailbox(i)' /\ i # t.id => HasMailbox(i) /\ imapquota'[i] = imapquota[i]
    BY <2>1 DEF HasMailbox, MakeMailbox
  <2>6. \A i : HasMailbox(i) => HasMailbox(i)'
    BY <2>1 DEF HasMailbox, MakeMailbox
  <2> HIDE DEF seen, u
  <2>5. Matched(task[w])'
    BY <2>1, <2>2, <2>3, <2>4 DEF Alone, Matched, Apart
  <2>7. Housed(task[w])'
    BY <2>1, <2>2, <2>3, <2>6 DEF Alone, Housed
  <2> QED
    BY <1>2, <2>1, <2>2, <2>5, <2>7 DEF Alone, Summed, HasRow, Fits, RowIs, CheckPC, Total
<1>8. CASE DefaultMailbox(w)
  <2> DEFINE u == [t EXCEPT !.pc = AfterGetQuota(t, DefaultQuota), !.seen = DefaultQuota]
  <2>1. /\ t.pc = "defaultMailbox" /\ HasMailbox(t.id)
        /\ UNCHANGED <<accountuser, domainquota, domainquotaused, accountcount>>
    BY <1>8 DEF DefaultMailbox, At, counters, Alone, Matched
  <2>2. SetMailboxQuota(t.id, DefaultQuota) /\ task'[w] = u
    BY <1>3, <1>8, <2>1 DEF DefaultMailbox
  <2>3. /\ u.pc \in {"defaultMailbox", "defaultAccount", "align"}
        /\ u.id = t.id /\ u.quota = t.quota /\ u.seen = DefaultQuota
    BY <1>1, <1>5 DEF CheckTask
  <2>4. /\ DOMAIN imapquota' = DOMAIN imapquota /\ imapquota'[t.id] = DefaultQuota
        /\ \A i \in DOMAIN imapquota : i # t.id => imapquota'[i] = imapquota[i]
    BY <2>1, <2>2 DEF HasMailbox, SetMailboxQuota, QuotaInv, TypeOK
  <2> HIDE DEF u
  <2>5. Matched(task[w])'
    BY <2>1, <2>2, <2>3, <2>4 DEF Alone, Matched, HasMailbox, Apart
  <2>6. Housed(task[w])'
    BY <2>1, <2>2, <2>3, <2>4 DEF Alone, Housed, HasMailbox
  <2> QED
    BY <1>2, <2>1, <2>2, <2>3, <2>5, <2>6 DEF Alone, Summed, HasRow, Fits, RowIs, CheckPC, Total
<1>9. CASE DefaultAccount(w)
  <2> DEFINE u == [t EXCEPT !.pc = "recomputeChecked", !.quota = DefaultQuota]
             row == [id |-> t.id, quota |-> DefaultQuota]
  <2>1. /\ t.pc = "defaultAccount" /\ SetAccountQuota(t.id, DefaultQuota) /\ task'[w] = u
        /\ UNCHANGED <<domainquota, domainquotaused, accountcount, imapquota>>
    BY <1>3, <1>9 DEF DefaultAccount, At, counters
  <2>2. u.pc = "recomputeChecked" /\ u.id = t.id /\ u.quota = DefaultQuota /\ u.seen = t.seen
    BY <1>1 DEF CheckTask
  <2>3. PICK r \in accountuser : r.id = t.id
    BY <1>2 DEF RowIs
  <2>4. /\ accountuser' = (accountuser \ {r}) \cup {row}
        /\ Cardinality(accountuser') = Cardinality(accountuser)
    BY <1>1, <2>1, <2>3, RowSet
  <2>5. row.id = t.id /\ \A s \in accountuser : s.id = t.id => s = r
    BY <2>3 DEF QuotaInv, Keyed
  <2> HIDE DEF u, row
  <2>6. Matched(task[w])'
    BY <2>1, <2>2, <2>4, <2>5 DEF Alone, Matched, HasMailbox, Apart
  <2>7. Summed(task[w])'
    BY <2>1, <2>2, <2>4 DEF Alone, Summed
  <2>8. HasRow(task[w])' /\ Fits(task[w])'
    BY <2>1, <2>2, <2>4 DEF HasRow, Fits, RowIs, CheckPC, row
  <2>9. Housed(task[w])'
    BY <2>1, <2>2, <2>3, <2>4, <2>5 DEF Alone, Housed, HasMailbox
  <2> QED
    BY <2>6, <2>7, <2>8, <2>9 DEF Alone
<1>10. CASE CheckUsed(w)
  <2>1. /\ t.pc = "recomputeChecked" /\ Recompute
        /\ UNCHANGED <<accountuser, domainquota, imapquota>>
    BY <1>10 DEF CheckUsed, At
  <2>2. task'[w].pc = "align" /\ task'[w].id = t.id /\ task'[w].quota = t.quota /\ task'[w].seen = t.seen
    BY <1>1, <1>10 DEF CheckUsed, Goto, QuotaInv, TypeOK, CheckTask
  <2>3. domainquotaused' = Total /\ accountcount' = accountcount
    BY <1>2, <2>1 DEF Recompute, Total, RowIs
  <2> QED
    BY <1>2, <2>1, <2>2, <2>3 DEF Alone, Summed, HasRow, Matched, Housed, Fits, RowIs, CheckPC, Total,
       HasMailbox, Apart
<1>11. CASE Align(w)
  <2>1. /\ t.pc = "align" /\ task'[w] = Idle /\ HasMailbox(t.id) /\ imapquota[t.id] = t.seen
        /\ UNCHANGED <<accountuser, domainquota, domainquotaused, accountcount>>
    BY <1>4, <1>11 DEF Align, At, counters, Alone, Matched
  <2>2. (t.seen = t.quota /\ UNCHANGED imapquota) \/ SetMailboxQuota(t.id, t.quota)
    BY <1>11, <2>1 DEF Align
  <2>3. /\ DOMAIN imapquota' = DOMAIN imapquota /\ imapquota'[t.id] = t.quota
        /\ \A i \in DOMAIN imapquota : i # t.id => imapquota'[i] = imapquota[i]
    BY <2>1, <2>2 DEF HasMailbox, SetMailboxQuota, QuotaInv, TypeOK
  <2>4. Matched(task[w])'
    BY <1>6, <2>1, <2>3 DEF Alone, Matched, HasMailbox, Apart, Idle
  <2>5. Housed(task[w])'
    BY <2>1, <2>3 DEF Alone, Housed, HasMailbox
  <2> QED
    BY <2>1, <2>4, <2>5 DEF Alone, Summed, HasRow, Fits, RowIs, CheckPC, Total, Idle
<1> QED
  BY <1>7, <1>8, <1>9, <1>10, <1>11

LEMMA StepAlone ==
    ASSUME NEW w0, Worker = {w0}, QuotaInv, faults = 0 => Alone(w0), [Next]_vars
    PROVE  (faults = 0 => Alone(w0))'
<1>1. CASE Still
  BY <1>1 DEF Still, Alone, Summed, HasRow, Matched, Housed, Fits, RowIs, Total, HasMailbox
<1>2. CASE Failure(w0)
  BY <1>2 DEF Failure, QuotaInv, TypeOK
<1>3. CASE Begin(w0)
  <2>1. UNCHANGED faults \/ faults' = faults + 1
    <3>1. \A r, q, src : AccountGet(r, q, src) => faults' = faults \/ faults' = faults + 1
      BY DEF AccountGet
    <3> QED
      BY <1>3, <3>1 DEF Begin, BeginCreate, BeginRemove, BeginUpdate, BeginCheck, SetDomainQuota
  <2> QED
    BY <1>3, <2>1, BeginAlone DEF QuotaInv, TypeOK
<1>4. CASE Step(w0)
  <2>1. UNCHANGED faults
    BY <1>4 DEF Step, InsertAccount, CreateMailbox, SetNewQuota, CountUp, Undo, DeleteMailbox,
       SelectQuota, DeleteAccount, CountDown, SetQuota, UpdateAccount, UpdateUsed, GetQuota,
       DefaultMailbox, DefaultAccount, CheckUsed, Align
  <2> QED
    BY <1>4, <2>1, CreateAlone, RemoveAlone, UpdateAlone, CheckAlone DEF Step
<1> QED
  BY <1>1, <1>2, <1>3, <1>4, NextKinds

LEMMA AloneFrom == ASSUME Init, NEW w \in Worker PROVE Alone(w)
<1>1. Total = 0 /\ Cardinality(accountuser) = 0
  BY SumOfRows, FS_EmptySet DEF Init, Total
<1>2. task[w].pc = "idle"
  BY DEF Init, Idle
<1> QED
  BY <1>1, <1>2 DEF Init, Alone, Summed, HasRow, Matched, Housed, Fits, HasMailbox, CheckPC

\* While nothing has failed, a single worker is always where its request says.
LEMMA AloneAlways ==
    ASSUME NEW w0, Worker = {w0}
    PROVE  Spec => [](QuotaInv /\ (faults = 0 => Alone(w0)))
<1>1. Init => QuotaInv /\ (faults = 0 => Alone(w0))
  BY InitInv, AloneFrom
<1>2. /\ QuotaInv /\ (faults = 0 => Alone(w0))
      /\ [Next]_vars
      => (QuotaInv /\ (faults = 0 => Alone(w0)))'
  BY StepInv, StepAlone
<1> QED
  BY <1>1, <1>2, PTL DEF Spec

LEMMA OnlyWorker ==
    ASSUME Cardinality(Worker) = 1
    PROVE  \E w0 : Worker = {w0}
  BY QuotaAssumption, FS_Singleton

\* The column domainquotaused is the sum of the quotas of all accounts, and
\* accountcount their number, whenever no request is being served, as long as
\* nothing fails and one request is served after the other: for any quotas,
\* limits and number of accounts, with and without memcached, and for every
\* order of creations, removals, changes and checks.
THEOREM UsedSums == Spec => []UsedIsSum
<1>1. CASE Cardinality(Worker) = 1
  <2>1. PICK w0 : Worker = {w0}
    BY <1>1, OnlyWorker
  <2>2. QuotaInv /\ (faults = 0 => Alone(w0)) => UsedIsSum
    BY <2>1 DEF Alone, Summed, UsedIsSum, AllIdle, At, Total
  <2>3. Spec => [](QuotaInv /\ (faults = 0 => Alone(w0)))
    BY <2>1, AloneAlways
  <2> QED
    BY <2>2, <2>3, PTL
<1>2. CASE Cardinality(Worker) # 1
  <2>1. QuotaInv => UsedIsSum
    BY <1>2 DEF UsedIsSum
  <2> QED
    BY <2>1, InitInv, StepInv, PTL DEF Spec
<1> QED
  BY <1>1, <1>2

\* So long, accounts have on the IMAP server the quota that the table says.
THEOREM StoresAgree ==
    ASSUME NEW w0, Worker = {w0}
    PROVE  Spec => []QuotasAgreeWhenIdle
<1>1. QuotaInv /\ (faults = 0 => Alone(w0)) => QuotasAgreeWhenIdle
  BY DEF Alone, Matched, Apart, QuotasAgreeWhenIdle, QuotasAgree, AgreeAbout, AllIdle, At
<1> QED
  BY <1>1, AloneAlways, PTL

LEMMA LimitStep ==
    ASSUME NEW w0, Worker = {w0}, QuotaInv, faults = 0 => Alone(w0), [Next]_vars,
           domainquota # 0, domainquota' = domainquota, SumOf(accountuser) <= domainquota,
           faults = 0, ~At(w0, "defaultAccount")
    PROVE  SumOf(accountuser') <= domainquota
<1> DEFINE t == task[w0]
<1>1. /\ Total \in Nat /\ domainquota \in Nat /\ domainquota > 0 /\ Total <= domainquota
      /\ w0 \in Worker /\ Alone(w0)
  <2>1. domainquota \in Nat
    BY QuotaAssumption DEF QuotaInv, TypeOK
  <2> QED
    BY <2>1, TotalNat DEF Total
<1>2. SUFFICES Total' <= domainquota
  BY DEF Total
<1>3. CASE UNCHANGED accountuser
  BY <1>1, <1>3 DEF Total
<1>4. CASE InsertAccount(w0)
  <2> DEFINE row == [id |-> nextId, quota |-> t.quota]
  <2>1. t.pc = "insertAccount" /\ accountuser' = accountuser \cup {row} /\ t.quota \in KiB
    BY <1>1, <1>4, TaskKinds DEF InsertAccount, At, QuotaInv
  <2>2. row \in Row /\ row.quota = t.quota /\ row \notin accountuser
    BY <2>1 DEF Row, QuotaInv, Keyed, TypeOK
  <2> HIDE DEF row
  <2>3. Total' = Total + t.quota
    BY <2>1, <2>2, RowAndMore DEF Total, QuotaInv, TypeOK, Keyed
  <2> QED
    BY <1>1, <2>1, <2>3 DEF Alone, Fits
<1>5. CASE Undo(w0)
  BY <1>1, <1>5 DEF Undo, At, Alone, HasRow
<1>6. CASE DeleteAccount(w0)
  <2>1. t.pc = "deleteAccount" /\ RowIs(t.id, t.quota) /\ t.quota \in KiB
    BY <1>1, <1>6, TaskKinds DEF DeleteAccount, At, Alone, HasRow, QuotaInv
  <2>2. PICK r \in accountuser : r = [id |-> t.id, quota |-> t.quota]
    BY <2>1 DEF RowIs
  <2>3. accountuser' = {s \in accountuser : s.id # r.id} /\ r.quota \in Nat
    BY <1>6, <2>1, <2>2, KiBNat DEF DeleteAccount
  <2>4. Total' = Total - r.quota
    BY <2>3, RowGone
  <2> QED
    BY <1>1, <2>3, <2>4
<1>7. CASE UpdateAccount(w0)
  <2>1. /\ t.pc = "updateAccount" /\ SetAccountQuota(t.id, t.quota)
        /\ t.id \in Nat /\ t.quota \in KiB
    BY <1>1, <1>7, TaskKinds DEF UpdateAccount, At, QuotaInv
  <2>2. PICK r \in accountuser : r.id = t.id
    BY <1>1, <2>1 DEF Alone, HasRow
  <2>3. Total' = Total - r.quota + t.quota
    BY <2>1, <2>2, RowSet
  <2> QED
    BY <1>1, <2>1, <2>2, <2>3 DEF Alone, Fits
<1>8. \/ InsertAccount(w0) \/ Undo(w0) \/ DeleteAccount(w0) \/ UpdateAccount(w0)
      \/ UNCHANGED accountuser
  <2>1. CASE Still
    BY <2>1 DEF Still
  <2>2. CASE Begin(w0)
    BY <2>2 DEF Begin, BeginCreate, BeginRemove, BeginUpdate, BeginCheck, SetDomainQuota
  <2>3. CASE Failure(w0)
    BY <2>3 DEF Failure
  <2>4. CASE Step(w0)
    BY <2>4 DEF Step, CreateMailbox, SetNewQuota, CountUp, DeleteMailbox, SelectQuota, CountDown,
       SetQuota, UpdateUsed, GetQuota, DefaultMailbox, DefaultAccount, CheckUsed, Align, At
  <2> QED
    BY <2>1, <2>2, <2>3, <2>4, NextKinds
<1> QED
  BY <1>3, <1>4, <1>5, <1>6, <1>7, <1>8

\* Requests that follow one another never take the accounts of a domain from
\* within its limit to beyond it (domaineditor.cpp:574, accounteditor.cpp:101):
\* what the form was compared with is still true when the row is written.
THEOREM LimitsKept ==
    ASSUME NEW w0, Worker = {w0}
    PROVE  Spec => LimitKept
<1> DEFINE Kept ==
      \/ domainquota = 0 \/ domainquota' # domainquota
      \/ SumOf(accountuser) > domainquota
      \/ faults > 0
      \/ \E w \in Worker : At(w, "defaultAccount")
      \/ SumOf(accountuser') <= domainquota
<1>1. QuotaInv /\ (faults = 0 => Alone(w0)) /\ [Next]_vars => [Kept]_vars
  <2> SUFFICES ASSUME QuotaInv, faults = 0 => Alone(w0), [Next]_vars,
                      domainquota # 0, domainquota' = domainquota,
                      ~(SumOf(accountuser) > domainquota), ~(faults > 0),
                      ~At(w0, "defaultAccount")
               PROVE  SumOf(accountuser') <= domainquota
    OBVIOUS
  <2>1. faults = 0 /\ SumOf(accountuser) <= domainquota
    BY TotalNat, QuotaAssumption DEF QuotaInv, TypeOK, Total
  <2> QED
    BY <2>1, LimitStep
<1>2. Spec => [][Kept]_vars
  <2> HIDE DEF Kept
  <2> QED
    BY <1>1, AloneAlways, PTL DEF Spec
<1> QED
  BY <1>2 DEF LimitKept

-----------------------------------------------------------------------------
(* One request after the other, whatever has failed before *)

\* Tasks after a step of w
LEMMA TasksAfter ==
    ASSUME QuotaInv, NEW w \in Worker
    PROVE  /\ \A t : Start(w, t) =>
                 task'[w] = t /\ \A x \in Worker : x # w => task'[x] = task[x]
           /\ \A p : Goto(w, p) /\ task[w].pc # "idle" =>
                 /\ task'[w].pc = p /\ task'[w].id = task[w].id /\ task'[w].quota = task[w].quota
                 /\ \A x \in Worker : x # w => task'[x] = task[x]
           /\ Finish(w) =>
                 task'[w].pc = "idle" /\ \A x \in Worker : x # w => task'[x] = task[x]
<1>1. task \in [Worker -> Task]
  BY DEF QuotaInv, TypeOK
<1>2. ASSUME NEW p, Goto(w, p), task[w].pc # "idle"
      PROVE  /\ task'[w].pc = p /\ task'[w].id = task[w].id /\ task'[w].quota = task[w].quota
             /\ \A x \in Worker : x # w => task'[x] = task[x]
  <2>1. task[w] \in CreateTask \cup RemoveTask \cup UpdateTask \cup CheckTask
    BY <1>1, <1>2 DEF Task, Idle
  <2> QED
    BY <1>1, <1>2, <2>1 DEF Goto, CreateTask, RemoveTask, UpdateTask, CheckTask
<1> QED
  BY <1>1, <1>2 DEF Start, Finish, Idle

\* What a request that knows the quota of one store has made of the other
Prepared(t) ==
    /\ t.pc \in {"updateAccount", "recompute"} /\ t.source = "imap" /\ HasMailbox(t.id) =>
          imapquota[t.id] = t.quota
    /\ t.pc = "recompute" \/ (t.pc \in CheckPC /\ t.source = "row") =>
          \A r \in accountuser : r.id = t.id => r.quota = t.quota
    /\ t.pc \in CheckPC \ {"getQuota"} /\ t.source # "none" /\ HasMailbox(t.id) =>
          imapquota[t.id] = t.seen

LEMMA GetIs ==
    ASSUME NEW r, NEW q, NEW src, AccountGet(r, q, src)
    PROVE  /\ src = "row" => q = r.quota
           /\ src = "imap" => q = MailboxQuota(r.id)
  BY DEF AccountGet

LEMMA BeginPrepared ==
    ASSUME QuotaInv, NEW w \in Worker, Begin(w), Prepared(task[w])
    PROVE  Prepared(task[w])'
<1> DEFINE Same == UNCHANGED <<accountuser, imapquota>>
<1>1. CASE BeginCreate(w) \/ BeginRemove(w)
  <2>1. task'[w].pc \in {"insertAccount", "deleteMailbox"}
    <3>1. PICK t : Start(w, t) /\ t.pc \in {"insertAccount", "deleteMailbox"}
      <4>1. CASE BeginCreate(w)
        <5>1. PICK q \in Quota : Start(w, [pc |-> "insertAccount", id |-> 0, quota |-> q])
          BY <4>1 DEF BeginCreate
        <5>2. [pc |-> "insertAccount", id |-> 0, quota |-> q].pc = "insertAccount"
          OBVIOUS
        <5> QED
          BY <5>1, <5>2
      <4>2. CASE BeginRemove(w)
        <5>1. PICK r \in accountuser : Start(w, [pc |-> "deleteMailbox", id |-> r.id, quota |-> 0])
          BY <4>2 DEF BeginRemove
        <5>2. [pc |-> "deleteMailbox", id |-> r.id, quota |-> 0].pc = "deleteMailbox"
          OBVIOUS
        <5> QED
          BY <5>1, <5>2
      <4> QED
        BY <1>1, <4>1, <4>2
    <3> QED
      BY <3>1, TasksAfter
  <2> QED
    BY <2>1 DEF Prepared, CheckPC
<1>2. CASE BeginUpdate(w)
  <2>1. PICK r \in accountuser, q \in Quota, known \in KiB, src \in Source :
           /\ AccountGet(r, known, src) /\ Same
           /\ Start(w, [pc |-> IF q # known THEN "setQuota" ELSE "updateAccount",
                        id |-> r.id, quota |-> q, source |-> src])
    BY <1>2 DEF BeginUpdate
  <2>2. /\ task'[w].pc = IF q # known THEN "setQuota" ELSE "updateAccount"
        /\ task'[w].id = r.id /\ task'[w].quota = q /\ task'[w].source = src
    BY <2>1, TasksAfter
  <2>3. src = "imap" /\ HasMailbox(r.id) => known = imapquota[r.id]
    BY <2>1, GetIs DEF MailboxQuota
  <2> QED
    BY <2>1, <2>2, <2>3 DEF Prepared, HasMailbox, CheckPC
<1>3. CASE \E i \in Ids : BeginCheck(w, i)
  <2>1. PICK r \in accountuser, known \in KiB, src \in Source :
           /\ AccountGet(r, known, src) /\ Same
           /\ Start(w, [pc |-> "getQuota", id |-> r.id, quota |-> known, source |-> src,
                        seen |-> 0, limited |-> domainquota > 0])
    BY <1>3 DEF BeginCheck
  <2>2. /\ task'[w].pc = "getQuota" /\ task'[w].id = r.id /\ task'[w].quota = known
        /\ task'[w].source = src
    BY <2>1, TasksAfter
  <2>3. src = "row" => \A s \in accountuser : s.id = r.id => s.quota = known
    BY <2>1, GetIs DEF QuotaInv, Keyed
  <2> QED
    BY <2>1, <2>2, <2>3 DEF Prepared, HasMailbox
<1>4. CASE SetDomainQuota(w)
  BY <1>4 DEF SetDomainQuota, Prepared, HasMailbox
<1> QED
  BY <1>1, <1>2, <1>3, <1>4 DEF Begin

\* Account::update
LEMMA UpdatePrepared ==
    ASSUME QuotaInv, NEW w \in Worker, SetQuota(w) \/ UpdateAccount(w), Prepared(task[w])
    PROVE  Prepared(task[w])'
<1> DEFINE t == task[w]
<1>1. /\ t \in UpdateTask /\ t.id \in Nat /\ t.quota \in KiB
  BY TaskKinds DEF SetQuota, UpdateAccount, At, UpdatePC, QuotaInv
<1>2. ASSUME NEW p, Goto(w, p)
      PROVE  /\ task'[w].pc = p /\ task'[w].id = t.id /\ task'[w].quota = t.quota
             /\ task'[w].source = t.source
  BY <1>1, <1>2 DEF Goto, QuotaInv, TypeOK, UpdateTask
<1>3. CASE SetQuota(w) /\ HasMailbox(t.id)
  <2>1. SetMailboxQuota(t.id, t.quota) /\ Goto(w, "updateAccount")
    BY <1>3 DEF SetQuota
  <2>2. imapquota'[t.id] = t.quota
    BY <1>3, <2>1 DEF SetMailboxQuota, HasMailbox, QuotaInv, TypeOK
  <2> QED
    BY <1>2, <2>1, <2>2 DEF Prepared, CheckPC
<1>4. CASE SetQuota(w) /\ ~HasMailbox(t.id)
  <2>1. Finish(w) /\ t.pc # "idle"
    BY <1>4 DEF SetQuota, At
  <2>2. task'[w].pc = "idle"
    BY <2>1, TasksAfter
  <2> QED
    BY <2>2 DEF Prepared, CheckPC
<1>5. CASE UpdateAccount(w)
  <2>1. /\ t.pc = "updateAccount" /\ SetAccountQuota(t.id, t.quota) /\ imapquota' = imapquota
        /\ Goto(w, "recompute")
    BY <1>5 DEF UpdateAccount, At
  <2>2. \A r \in accountuser' : r.id = t.id => r.quota = t.quota
    <3> DEFINE set(r) == IF r.id = t.id THEN [r EXCEPT !.quota = t.quota] ELSE r
    <3>1. \A r \in accountuser : set(r).id = t.id => set(r).quota = t.quota
      BY DEF QuotaInv, TypeOK, Row
    <3>2. accountuser' = {set(r) : r \in accountuser}
      BY <2>1 DEF SetAccountQuota
    <3> HIDE DEF set
    <3> QED
      BY <3>1, <3>2
  <2> QED
    BY <1>2, <2>1, <2>2 DEF Prepared, HasMailbox, CheckPC
<1> QED
  BY <1>3, <1>4, <1>5

\* Account::check
LEMMA CheckPrepared ==
    ASSUME QuotaInv, NEW w \in Worker, Prepared(task[w]),
           GetQuota(w) \/ DefaultMailbox(w) \/ DefaultAccount(w) \/ CheckUsed(w)
    PROVE  Prepared(task[w])'
<1> DEFINE t == task[w]
<1>1. t \in CheckTask /\ t.id \in Nat /\ t.pc \in CheckPC
  BY TaskKinds DEF GetQuota, DefaultMailbox, DefaultAccount, CheckUsed, At, CheckPC, QuotaInv
<1>2. \A u, q : AfterGetQuota(u, q) \in {"defaultMailbox", "defaultAccount", "align"}
  BY DEF AfterGetQuota
<1>3. CASE GetQuota(w)
  <2> DEFINE seen == MailboxQuota(t.id)
             u == [t EXCEPT !.pc = AfterGetQuota(t, seen), !.seen = seen]
  <2>1. accountuser' = accountuser /\ MakeIfMissing(t.id) /\ Start(w, u)
    BY <1>3 DEF GetQuota
  <2>2. /\ u.pc \in {"defaultMailbox", "defaultAccount", "align"}
        /\ u.id = t.id /\ u.quota = t.quota /\ u.seen = seen /\ u.source = t.source
    BY <1>1, <1>2 DEF CheckTask
  <2>3. imapquota'[t.id] = seen
    BY <2>1 DEF MakeIfMissing, MakeMailbox, MailboxQuota, HasMailbox
  <2> HIDE DEF seen, u
  <2>4. task'[w] = u
    BY <2>1, TasksAfter
  <2> QED
    BY <1>1, <2>1, <2>2, <2>3, <2>4 DEF Prepared, CheckPC
<1>4. CASE DefaultMailbox(w) /\ HasMailbox(t.id)
  <2> DEFINE u == [t EXCEPT !.pc = AfterGetQuota(t, DefaultQuota), !.seen = DefaultQuota]
  <2>1. accountuser' = accountuser /\ SetMailboxQuota(t.id, DefaultQuota) /\ Start(w, u)
    BY <1>4 DEF DefaultMailbox
  <2>2. /\ u.pc \in {"defaultMailbox", "defaultAccount", "align"}
        /\ u.id = t.id /\ u.quota = t.quota /\ u.seen = DefaultQuota /\ u.source = t.source
    BY <1>1, <1>2 DEF CheckTask
  <2>3. imapquota'[t.id] = DefaultQuota
    BY <1>4, <2>1 DEF SetMailboxQuota, HasMailbox, QuotaInv, TypeOK
  <2> HIDE DEF u
  <2>4. task'[w] = u
    BY <2>1, TasksAfter
  <2> QED
    BY <1>1, <2>1, <2>2, <2>3, <2>4 DEF Prepared, CheckPC
<1>5. CASE DefaultMailbox(w) /\ ~HasMailbox(t.id)
  <2>1. Finish(w)
    BY <1>5 DEF DefaultMailbox
  <2>2. task'[w].pc = "idle"
    BY <2>1, TasksAfter
  <2> QED
    BY <2>2 DEF Prepared, CheckPC
<1>6. CASE DefaultAccount(w)
  <2> DEFINE u == [t EXCEPT !.pc = "recomputeChecked", !.quota = DefaultQuota]
             set(r) == IF r.id = t.id THEN [r EXCEPT !.quota = DefaultQuota] ELSE r
  <2>1. /\ t.pc = "defaultAccount" /\ SetAccountQuota(t.id, DefaultQuota) /\ imapquota' = imapquota
        /\ Start(w, u)
    BY <1>6 DEF DefaultAccount, At
  <2>2. /\ u.pc = "recomputeChecked" /\ u.id = t.id /\ u.quota = DefaultQuota
        /\ u.seen = t.seen /\ u.source = t.source
    BY <1>1 DEF CheckTask
  <2>3. \A r \in accountuser' : r.id = t.id => r.quota = DefaultQuota
    <3>1. \A r \in accountuser : set(r).id = t.id => set(r).quota = DefaultQuota
      BY DEF QuotaInv, TypeOK, Row
    <3>2. accountuser' = {set(r) : r \in accountuser}
      BY <2>1 DEF SetAccountQuota
    <3> HIDE DEF set
    <3> QED
      BY <3>1, <3>2
  <2> HIDE DEF u
  <2>4. task'[w] = u
    BY <2>1, TasksAfter
  <2> QED
    BY <1>1, <2>1, <2>2, <2>3, <2>4 DEF Prepared, HasMailbox, CheckPC
<1>7. CASE CheckUsed(w)
  <2>1. t.pc = "recomputeChecked" /\ UNCHANGED <<accountuser, imapquota>> /\ Goto(w, "align")
    BY <1>7 DEF CheckUsed, At
  <2>2. /\ task'[w].pc = "align" /\ task'[w].id = t.id /\ task'[w].quota = t.quota
        /\ task'[w].seen = t.seen /\ task'[w].source = t.source
    BY <1>1, <2>1 DEF Goto, QuotaInv, TypeOK, CheckTask
  <2> QED
    BY <2>1, <2>2 DEF Prepared, HasMailbox, CheckPC
<1> QED
  BY <1>3, <1>4, <1>5, <1>6, <1>7

LEMMA FailurePrepared ==
    ASSUME QuotaInv, NEW w \in Worker, Failure(w), Prepared(task[w])
    PROVE  Prepared(task[w])'
<1>1. task[w].pc # "idle" /\ accountuser' = accountuser
  BY DEF Failure, At
<1>2. CASE QuotaUnknown(w)
  <2> DEFINE t == [task[w] EXCEPT !.pc = AfterGetQuota(task[w], 0), !.source = "none"]
  <2>1. Start(w, t) /\ task[w] \in CheckTask
    BY <1>2, TaskKinds DEF QuotaUnknown, At, CheckPC, QuotaInv
  <2>2. t.pc \in {"defaultMailbox", "defaultAccount", "align"} /\ t.source = "none"
    BY <2>1 DEF CheckTask, AfterGetQuota
  <2> HIDE DEF t
  <2>3. task'[w] = t
    BY <2>1, TasksAfter
  <2> QED
    BY <2>2, <2>3 DEF Prepared
<1>3. CASE At(w, "recomputeChecked") /\ Goto(w, "align") /\ UNCHANGED imapquota
  <2>1. task[w] \in CheckTask
    BY <1>3, TaskKinds DEF At, CheckPC, QuotaInv
  <2>2. /\ task'[w].pc = "align" /\ task'[w].id = task[w].id /\ task'[w].quota = task[w].quota
        /\ task'[w].seen = task[w].seen /\ task'[w].source = task[w].source
    BY <1>3, <2>1 DEF Goto, QuotaInv, TypeOK, CheckTask
  <2> QED
    BY <1>1, <1>3, <2>2 DEF Prepared, HasMailbox, At, CheckPC
<1>4. CASE Finish(w) \/ Goto(w, "undo") \/ Goto(w, "countUp") \/ Goto(w, "deleteAccount")
  <2>1. task'[w].pc \in {"idle", "undo", "countUp", "deleteAccount"}
    BY <1>1, <1>4, TasksAfter
  <2> QED
    BY <2>1 DEF Prepared, CheckPC
<1> QED
  BY <1>2, <1>3, <1>4 DEF Failure, StatementFails, ReplyLost, Crash

LEMMA PreparedStep ==
    ASSUME NEW w0, Worker = {w0}, QuotaInv, Prepared(task[w0]), [Next]_vars
    PROVE  Prepared(task[w0])'
<1>1. CASE Still
  BY <1>1 DEF Still, Prepared, HasMailbox
<1>2. CASE Begin(w0)
  BY <1>2, BeginPrepared
<1>3. CASE Failure(w0)
  BY <1>3, FailurePrepared
<1>4. CASE SetQuota(w0) \/ UpdateAccount(w0)
  BY <1>4, UpdatePrepared
<1>5. CASE GetQuota(w0) \/ DefaultMailbox(w0) \/ DefaultAccount(w0) \/ CheckUsed(w0)
  BY <1>5, CheckPrepared
<1>6. CASE InsertAccount(w0)
  <2>1. task'[w0].pc = "createMailbox"
    <3>1. task[w0] \in CreateTask
      BY <1>6, TaskKinds DEF InsertAccount, At, CreatePC, QuotaInv
    <3> QED
      BY <1>6, <3>1 DEF InsertAccount, Start, QuotaInv, TypeOK, CreateTask
  <2> QED
    BY <2>1 DEF Prepared, CheckPC
<1>7. CASE SelectQuota(w0)
  <2>1. task'[w0].pc = "deleteAccount"
    <3>1. task[w0] \in RemoveTask
      BY <1>7, TaskKinds DEF SelectQuota, At, RemovePC, QuotaInv
    <3> QED
      BY <1>7, <3>1 DEF SelectQuota, Start, QuotaInv, TypeOK, RemoveTask
  <2> QED
    BY <2>1 DEF Prepared, CheckPC
<1>8. CASE \/ CreateMailbox(w0) \/ SetNewQuota(w0) \/ CountUp(w0) \/ Undo(w0)
           \/ DeleteMailbox(w0) \/ DeleteAccount(w0) \/ CountDown(w0) \/ UpdateUsed(w0) \/ Align(w0)
  <2>1. /\ task[w0].pc # "idle"
        /\ \/ Finish(w0) \/ Goto(w0, "undo") \/ Goto(w0, "setNewQuota") \/ Goto(w0, "countUp")
           \/ Goto(w0, "selectQuota") \/ Goto(w0, "countDown")
    BY <1>8 DEF CreateMailbox, SetNewQuota, CountUp, Undo, DeleteMailbox, DeleteAccount, CountDown,
       UpdateUsed, Align, At
  <2>2. task'[w0].pc \in {"idle", "undo", "setNewQuota", "countUp", "selectQuota", "countDown"}
    BY <2>1, TasksAfter
  <2> QED
    BY <2>2 DEF Prepared, CheckPC
<1> QED
  BY <1>1, <1>2, <1>3, <1>4, <1>5, <1>6, <1>7, <1>8, NextKinds DEF Step

LEMMA AlignStep ==
    ASSUME NEW w \in Worker, Worker = {w}, QuotaInv, Prepared(task[w]), [Next]_vars,
           NEW r \in accountuser', task[w].id = r.id, task'[w] = Idle, faults' = faults,
           \/ At(w, "recompute") /\ task[w].source = "imap"
           \/ At(w, "align") /\ task[w].source = "row"
    PROVE  AgreeAbout(r)'
<1>1. faults \in Nat
  BY QuotaAssumption DEF QuotaInv, TypeOK
<1>2. ~Failure(w) /\ ~Still /\ ~Begin(w)
  <2>1. task[w].pc # "idle" /\ task' # task
    BY DEF At, Idle
  <2>2. ~Failure(w)
    BY <1>1 DEF Failure
  <2>3. ~Still
    BY <2>1 DEF Still
  <2>4. ~Begin(w)
    BY <2>1 DEF At, Begin, BeginCreate, BeginRemove, BeginUpdate, BeginCheck, SetDomainQuota
  <2> QED
    BY <2>2, <2>3, <2>4
<1>3. Step(w)
  BY <1>2, NextKinds
<1>4. CASE At(w, "recompute")
  <2>1. UpdateUsed(w)
    BY <1>3, <1>4 DEF Step, At, InsertAccount, CreateMailbox, SetNewQuota, CountUp, Undo,
       DeleteMailbox, SelectQuota, DeleteAccount, CountDown, SetQuota, UpdateAccount, GetQuota,
       DefaultMailbox, DefaultAccount, CheckUsed, Align
  <2>2. UNCHANGED <<accountuser, imapquota>>
    BY <2>1 DEF UpdateUsed
  <2> QED
    BY <1>4, <2>2 DEF At, Prepared, AgreeAbout, HasMailbox
<1>5. CASE At(w, "align")
  <2>1. Align(w)
    BY <1>3, <1>5 DEF Step, At, InsertAccount, CreateMailbox, SetNewQuota, CountUp, Undo,
       DeleteMailbox, SelectQuota, DeleteAccount, CountDown, SetQuota, UpdateAccount, GetQuota,
       DefaultMailbox, DefaultAccount, CheckUsed, UpdateUsed
  <2>2. /\ accountuser' = accountuser /\ r.quota = task[w].quota
        /\ HasMailbox(r.id) => imapquota[r.id] = task[w].seen
    BY <1>5, <2>1 DEF Align, At, Prepared, CheckPC
  <2>3. \/ task[w].seen = task[w].quota /\ UNCHANGED imapquota
        \/ ~HasMailbox(r.id) /\ UNCHANGED imapquota
        \/ HasMailbox(r.id) /\ SetMailboxQuota(r.id, task[w].quota)
    BY <2>1 DEF Align
  <2> QED
    BY <2>2, <2>3 DEF AgreeAbout, HasMailbox, SetMailboxQuota, QuotaInv, TypeOK
<1> QED
  BY <1>4, <1>5

\* Whatever earlier requests have left behind, a change that knows the quota of
\* the mailbox and a check that knows the one of the row end with both the same
\* (account.cpp:1288, 1541), for any quotas and any failures before.
THEOREM RequestsBringTogether == Spec => RequestsAlign
<1> DEFINE Together == \A w \in Worker, r \in accountuser' :
      /\ Cardinality(Worker) = 1
      /\ ~At(w, "idle") /\ task[w].id = r.id
      /\ task'[w] = Idle /\ faults' = faults
      /\ \/ At(w, "recompute") /\ task[w].source = "imap"
         \/ At(w, "align") /\ task[w].source = "row"
      => AgreeAbout(r)'
<1>1. CASE Cardinality(Worker) = 1
  <2>1. PICK w0 : Worker = {w0}
    BY <1>1, OnlyWorker
  <2>2. Init => Prepared(task[w0])
    BY <2>1 DEF Init, Prepared, Idle, CheckPC
  <2>3. QuotaInv /\ Prepared(task[w0]) /\ [Next]_vars => Prepared(task[w0])'
    BY <2>1, PreparedStep
  <2>4. QuotaInv /\ Prepared(task[w0]) /\ [Next]_vars => [Together]_vars
    BY <2>1, AlignStep
  <2>5. Spec => [][Together]_vars
    <3> HIDE DEF Together
    <3> QED
      BY <2>2, <2>3, <2>4, InitInv, StepInv, PTL DEF Spec
  <2> QED
    BY <2>5 DEF RequestsAlign
<1>2. CASE Cardinality(Worker) # 1
  <2>1. [Next]_vars => [Together]_vars
    BY <1>2
  <2>2. Spec => [][Together]_vars
    <3> HIDE DEF Together
    <3> QED
      BY <2>1, PTL DEF Spec
  <2> QED
    BY <2>2 DEF RequestsAlign
<1> QED
  BY <1>1, <1>2

-----------------------------------------------------------------------------
(* Requests at the same time: creations, changes and checks *)

\* A sum is at least that of a part.
LEMMA SumOfPart ==
    ASSUME NEW rows, IsFiniteSet(rows), rows \subseteq Row, NEW part, part \subseteq rows
    PROVE  SumOf(part) \in Nat /\ SumOf(rows) \in Nat /\ SumOf(part) <= SumOf(rows)
<1> DEFINE T == {s \in SUBSET rows : part \subseteq s /\ ~(SumOf(part) <= SumOf(s))}
<1>1. ASSUME NEW s, s \subseteq rows
      PROVE  IsFiniteSet(s) /\ s \subseteq Row /\ SumOf(s) \in Nat
  BY <1>1, FS_Subset, SumOfRows
<1>2. T = {}
  <2> SUFFICES ASSUME T # {} PROVE FALSE
    OBVIOUS
  <2>1. PICK s \in T : \A t \in T : t \subseteq s => t = s
    <3>1. T \subseteq SUBSET rows
      OBVIOUS
    <3> HIDE DEF T
    <3> QED
      BY <3>1, SmallestSet
  <2>2. s # part
    BY <1>1
  <2>3. PICK e \in s : e \notin part
    BY <2>2
  <2>4. SumOf(part) <= SumOf(s \ {e})
    BY <2>1, <2>3
  <2>5. e.quota \in Nat /\ SumOf(s) = e.quota + SumOf(s \ {e})
    BY <1>1, <2>3, SumOfRows, KiBNat DEF Row
  <2>6. SumOf(s) \in Nat /\ SumOf(part) \in Nat /\ SumOf(s \ {e}) \in Nat
    BY <1>1
  <2> QED
    BY <2>1, <2>4, <2>5, <2>6
<1> QED
  BY <1>1, <1>2

\* Workers at these statements, and what their requests are about
In(tasks, pcs) == {w \in Worker : tasks[w].pc \in pcs}

Owed(tasks, workers) == SumFunction([w \in workers |-> tasks[w].quota])

LEMMA OwedOfWorkers ==
    ASSUME NEW tasks, NEW S, IsFiniteSet(S), \A w \in S : tasks[w].quota \in Nat
    PROVE  /\ Owed(tasks, S) \in Nat
           /\ S = {} => Owed(tasks, S) = 0
           /\ \A w \in S : Owed(tasks, S) = tasks[w].quota + Owed(tasks, S \ {w})
<1> DEFINE f == [w \in S |-> tasks[w].quota]
<1>1. IsFiniteSet(DOMAIN f) /\ \A w \in DOMAIN f : f[w] \in Nat
  OBVIOUS
<1>2. Owed(tasks, S) = SumFunction(f)
  BY DEF Owed
<1>3. S = {} => DOMAIN f = {}
  OBVIOUS
<1>4. ASSUME NEW w \in S PROVE SumFunction(f) = tasks[w].quota + Owed(tasks, S \ {w})
  <2> DEFINE g == [x \in S \ {w} |-> tasks[x].quota]
  <2>1. /\ DOMAIN g = DOMAIN f \ {w} /\ \A x \in DOMAIN g : g[x] = f[x]
        /\ w \in DOMAIN f /\ f[w] = tasks[w].quota
    OBVIOUS
  <2>2. Owed(tasks, S \ {w}) = SumFunction(g)
    BY DEF Owed
  <2> HIDE DEF f, g
  <2> QED
    BY <1>1, <2>1, <2>2, SumOfAll
<1> HIDE DEF f
<1> QED
  BY <1>1, <1>2, <1>3, <1>4, SumOfNone, SumOfSome

LEMMA OwedSame ==
    ASSUME NEW tasks, NEW others, NEW S, \A w \in S : tasks[w].quota = others[w].quota
    PROVE  Owed(tasks, S) = Owed(others, S)
<1>1. [w \in S |-> tasks[w].quota] = [w \in S |-> others[w].quota]
  OBVIOUS
<1> QED
  BY <1>1 DEF Owed

LEMMA OwedNat ==
    ASSUME QuotaInv, NEW S, S \subseteq Worker, \A w \in S : task[w].pc # "idle"
    PROVE  IsFiniteSet(S) /\ Owed(task, S) \in Nat /\ \A w \in S : task[w].quota \in Nat
<1>1. IsFiniteSet(S)
  BY QuotaAssumption, FS_Subset
<1>2. \A w \in S : task[w].quota \in Nat
  BY TaskKinds, KiBNat DEF QuotaInv
<1> QED
  BY <1>1, <1>2, OwedOfWorkers

\* Statements of creations whose row is there and not yet in the sum, and of
\* requests that write the sum
Creating == {"createMailbox", "setNewQuota", "countUp", "undo"}

Adding == Creating \cup {"recompute", "recomputeChecked"}

\* The rows that the creations of these workers have not inserted
RowsBut(rows, tasks, workers) == {r \in rows : \A w \in workers : r.id # tasks[w].id}

\* What the column lacks will be added, and would be even if any of the
\* creations were undone, whose rows may have got other quotas by then.
Covered(rows, used, tasks) ==
    \A X \in SUBSET In(tasks, Creating) :
        SumOf(RowsBut(rows, tasks, X)) <= used + Owed(tasks, In(tasks, Adding) \ X)

\* The parts of the invariant that the steps are about
LEMMA CoveredParts ==
    ASSUME QuotaInv, NEW X, X \subseteq Worker, NEW A, A \subseteq In(task, Adding)
    PROVE  LET rows == RowsBut(accountuser, task, X) IN
           /\ IsFiniteSet(rows) /\ rows \subseteq Row /\ SumOf(rows) \in Nat
           /\ SumOf(rows) <= Total
           /\ IsFiniteSet(A) /\ Owed(task, A) \in Nat /\ \A w \in A : task[w].quota \in Nat
           /\ domainquotaused \in Nat
<1> DEFINE rows == RowsBut(accountuser, task, X)
<1>1. rows \subseteq accountuser /\ IsFiniteSet(accountuser) /\ accountuser \subseteq Row
  BY DEF RowsBut, QuotaInv, Keyed, TypeOK
<1>2. IsFiniteSet(rows) /\ rows \subseteq Row
  BY <1>1, FS_Subset
<1>3. A \subseteq Worker /\ \A w \in A : task[w].pc # "idle"
  BY DEF In, Adding, Creating
<1>4. domainquotaused \in Nat
  BY DEF QuotaInv, TypeOK
<1> HIDE DEF rows
<1>5. SumOf(rows) \in Nat /\ SumOf(rows) <= Total
  BY <1>1, SumOfPart DEF Total
<1> QED
  BY <1>2, <1>3, <1>4, <1>5, OwedNat DEF rows

\* A step that neither begins nor ends an addition
LEMMA CoveredQuiet ==
    ASSUME Covered(accountuser, domainquotaused, task),
           UNCHANGED <<accountuser, domainquotaused>>,
           \A x \in Worker :
              \/ task'[x] = task[x]
              \/ task[x].pc \notin Adding /\ task'[x].pc \notin Adding
              \/ /\ task[x].pc \in Creating /\ task'[x].pc \in Creating
                 /\ task'[x].id = task[x].id /\ task'[x].quota = task[x].quota
    PROVE  Covered(accountuser', domainquotaused', task')
<1>1. In(task', Creating) = In(task, Creating) /\ In(task', Adding) = In(task, Adding)
  BY DEF In, Creating, Adding
<1>2. \A x \in In(task, Adding) : task'[x].id = task[x].id /\ task'[x].quota = task[x].quota
  BY DEF In, Adding
<1>3. ASSUME NEW X, X \subseteq In(task, Creating)
      PROVE  /\ RowsBut(accountuser', task', X) = RowsBut(accountuser, task, X)
             /\ Owed(task', In(task, Adding) \ X) = Owed(task, In(task, Adding) \ X)
  <2>1. \A x \in X : task'[x].id = task[x].id
    BY <1>2, <1>3 DEF In, Adding
  <2>2. RowsBut(accountuser', task', X) = RowsBut(accountuser, task, X)
    BY <2>1 DEF RowsBut
  <2> QED
    BY <1>2, <2>2, OwedSame
<1> QED
  BY <1>1, <1>3 DEF Covered

LEMMA CoveredInsert ==
    ASSUME QuotaInv, Covered(accountuser, domainquotaused, task), NEW w \in Worker, InsertAccount(w)
    PROVE  Covered(accountuser', domainquotaused', task')
<1> DEFINE A == In(task, Adding)
           q == task[w].quota
           row == [id |-> nextId, quota |-> q]
<1>1. /\ task[w].pc = "insertAccount" /\ q \in KiB /\ q \in Nat /\ nextId \in Nat
      /\ accountuser' = accountuser \cup {row} /\ domainquotaused' = domainquotaused
      /\ task[w] \in CreateTask
  BY TaskKinds, KiBNat DEF InsertAccount, At, QuotaInv, TypeOK, CreatePC, counters
<1>2. /\ task'[w].pc = "createMailbox" /\ task'[w].id = nextId /\ task'[w].quota = q
      /\ \A x \in Worker : x # w => task'[x] = task[x]
  BY <1>1 DEF InsertAccount, Start, QuotaInv, TypeOK, CreateTask
<1>3. /\ w \notin A /\ In(task', Adding) = A \cup {w} /\ In(task', Creating) = In(task, Creating) \cup {w}
      /\ In(task, Creating) \subseteq A
  BY <1>1, <1>2 DEF In, Adding, Creating
<1>4. /\ \A r \in accountuser : r.id # nextId
      /\ \A x \in In(task, Creating) : task[x].id # nextId
  BY <1>1 DEF QuotaInv, Keyed, TypeOK, Row, In, Creating
<1>5. row \in Row /\ row.id = nextId /\ row.quota = q /\ row \notin accountuser
  BY <1>1, <1>4 DEF Row
<1>6. SUFFICES ASSUME NEW X, X \subseteq In(task, Creating) \cup {w}
               PROVE  SumOf(RowsBut(accountuser', task', X))
                          <= domainquotaused' + Owed(task', (A \cup {w}) \ X)
  BY <1>3 DEF Covered
<1> HIDE DEF A, row, q
<1>7. \A Y : Y \subseteq A => Owed(task', Y) = Owed(task, Y)
  <2>1. A \subseteq Worker
    BY DEF A, In
  <2> QED
    BY <1>2, <1>3, <2>1, OwedSame
<1>8. CASE w \in X
  <2> DEFINE Y == X \ {w}
  <2>1. Y \subseteq In(task, Creating) /\ (A \cup {w}) \ X = A \ Y
    BY <1>3, <1>6, <1>8
  <2>2. \A x \in Y : x \in Worker /\ task'[x].id = task[x].id
    BY <1>2, <2>1 DEF In
  <2>3. RowsBut(accountuser', task', X) = RowsBut(accountuser, task, Y)
    BY <1>1, <1>2, <1>4, <1>5, <1>8, <2>2 DEF RowsBut
  <2>4. SumOf(RowsBut(accountuser, task, Y)) <= domainquotaused + Owed(task, A \ Y)
    BY <2>1 DEF Covered, A
  <2> QED
    BY <1>1, <1>7, <2>1, <2>3, <2>4
<1>9. CASE w \notin X
  <2> DEFINE rows == RowsBut(accountuser, task, X)
             R == A \ X
  <2>1. X \subseteq In(task, Creating) /\ X \subseteq Worker
    BY <1>6, <1>9 DEF In
  <2>2. \A x \in X : task'[x].id = task[x].id /\ task[x].id # nextId
    BY <1>2, <1>4, <1>9, <2>1
  <2>3. RowsBut(accountuser', task', X) = rows \cup {row}
    BY <1>1, <1>5, <2>2 DEF RowsBut
  <2>4. SumOf(rows) <= domainquotaused + Owed(task, R)
    BY <2>1 DEF Covered, A
  <2>5. /\ IsFiniteSet(rows) /\ rows \subseteq Row /\ SumOf(rows) \in Nat
        /\ IsFiniteSet(R) /\ Owed(task, R) \in Nat /\ \A x \in R : task[x].quota \in Nat
        /\ domainquotaused \in Nat
    BY <2>1, CoveredParts DEF A
  <2>6. row \notin rows
    BY <1>5 DEF RowsBut
  <2>7. (A \cup {w}) \ X = R \cup {w} /\ w \notin R /\ (R \cup {w}) \ {w} = R /\ R \subseteq A
    BY <1>3, <1>9
  <2>8. IsFiniteSet(R \cup {w}) /\ \A x \in R \cup {w} : task'[x].quota \in Nat
    <3>1. IsFiniteSet(R \cup {w})
      BY <2>5, FS_AddElement
    <3>2. \A x \in R : task'[x] = task[x]
      BY <1>2, <2>7 DEF A, In
    <3> QED
      BY <1>1, <1>2, <2>5, <3>1, <3>2
  <2> HIDE DEF rows, R
  <2>9. SumOf(rows \cup {row}) = SumOf(rows) + q
    BY <1>5, <2>5, <2>6, SumOfMore
  <2>10. Owed(task', R \cup {w}) = q + Owed(task', R)
    BY <1>2, <2>7, <2>8, OwedOfWorkers
  <2>11. Owed(task', (A \cup {w}) \ X) = q + Owed(task, R)
    BY <1>7, <2>7, <2>10
  <2>12. SumOf(RowsBut(accountuser', task', X)) = SumOf(rows) + q
    BY <2>3, <2>9
  <2>13. q \in Nat /\ domainquotaused' = domainquotaused
    BY <1>1
  <2> QED
    BY <2>4, <2>5, <2>11, <2>12, <2>13
<1> QED
  BY <1>8, <1>9

LEMMA CoveredCountUp ==
    ASSUME QuotaInv, Covered(accountuser, domainquotaused, task), NEW w \in Worker, CountUp(w)
    PROVE  Covered(accountuser', domainquotaused', task')
<1> DEFINE A == In(task, Adding)
           q == task[w].quota
<1>1. /\ task[w].pc = "countUp" /\ q \in Nat /\ domainquotaused \in Nat /\ accountcount \in Nat
      /\ accountuser' = accountuser /\ Count(1, q)
  BY TaskKinds, KiBNat DEF CountUp, At, QuotaInv, TypeOK
<1>2. domainquotaused' = domainquotaused + q
  BY <1>1 DEF Count
<1>3. task'[w].pc = "idle" /\ \A x \in Worker : x # w => task'[x] = task[x]
  BY DEF CountUp, Finish, QuotaInv, TypeOK, Idle
<1>4. /\ w \in A /\ In(task', Adding) = A \ {w} /\ In(task', Creating) = In(task, Creating) \ {w}
  BY <1>1, <1>3 DEF In, Adding, Creating
<1>5. SUFFICES ASSUME NEW X, X \subseteq In(task, Creating) \ {w}
               PROVE  SumOf(RowsBut(accountuser', task', X))
                          <= domainquotaused' + Owed(task', (A \ {w}) \ X)
  BY <1>4 DEF Covered
<1> DEFINE rows == RowsBut(accountuser, task, X)
           R == A \ X
<1>6. X \subseteq In(task, Creating) /\ X \subseteq Worker /\ R \subseteq A /\ A \subseteq Worker
  BY <1>5 DEF In
<1>7. SumOf(rows) <= domainquotaused + Owed(task, R)
  BY <1>6 DEF Covered
<1>8. RowsBut(accountuser', task', X) = rows
  <2>1. \A x \in X : task'[x] = task[x]
    BY <1>3, <1>5, <1>6
  <2> QED
    BY <1>1, <2>1 DEF RowsBut
<1>9. (A \ {w}) \ X = R \ {w} /\ w \in R /\ \A x \in R \ {w} : task'[x] = task[x]
  BY <1>3, <1>4, <1>5, <1>6
<1>10. SumOf(rows) \in Nat /\ IsFiniteSet(R) /\ \A x \in R : task[x].quota \in Nat
  BY <1>6, CoveredParts
<1> HIDE DEF A, rows, R
<1>11. Owed(task, R) = q + Owed(task, R \ {w})
  BY <1>9, <1>10, OwedOfWorkers
<1>12. Owed(task', R \ {w}) = Owed(task, R \ {w})
  BY <1>9, OwedSame
<1>13. Owed(task, R \ {w}) \in Nat
  <2>1. IsFiniteSet(R \ {w})
    BY <1>10, FS_Subset
  <2> QED
    BY <1>10, <2>1, OwedOfWorkers
<1>14. Owed(task', (A \ {w}) \ X) = Owed(task, R \ {w})
  BY <1>9, <1>12
<1>15. SumOf(RowsBut(accountuser', task', X)) = SumOf(rows)
  BY <1>8
<1> HIDE DEF q
<1> QED
  BY <1>1, <1>2, <1>7, <1>10, <1>11, <1>13, <1>14, <1>15

LEMMA CoveredUndo ==
    ASSUME QuotaInv, Covered(accountuser, domainquotaused, task), NEW w \in Worker, Undo(w)
    PROVE  Covered(accountuser', domainquotaused', task')
<1> DEFINE A == In(task, Adding)
<1>1. /\ task[w].pc = "undo" /\ domainquotaused' = domainquotaused
      /\ accountuser' = {r \in accountuser : r.id # task[w].id}
  BY DEF Undo, At, counters
<1>2. task'[w].pc = "idle" /\ \A x \in Worker : x # w => task'[x] = task[x]
  BY DEF Undo, Finish, QuotaInv, TypeOK, Idle
<1>3. /\ In(task', Adding) = A \ {w} /\ In(task', Creating) = In(task, Creating) \ {w}
      /\ w \in In(task, Creating) /\ A \subseteq Worker
  BY <1>1, <1>2 DEF In, Adding, Creating
<1>4. SUFFICES ASSUME NEW X, X \subseteq In(task, Creating) \ {w}
               PROVE  SumOf(RowsBut(accountuser', task', X))
                          <= domainquotaused' + Owed(task', (A \ {w}) \ X)
  BY <1>3 DEF Covered
<1> DEFINE Y == X \cup {w}
<1>5. Y \subseteq In(task, Creating) /\ (A \ {w}) \ X = A \ Y /\ X \subseteq Worker
  BY <1>3, <1>4 DEF In
<1>6. SumOf(RowsBut(accountuser, task, Y)) <= domainquotaused + Owed(task, A \ Y)
  BY <1>5 DEF Covered
<1>7. RowsBut(accountuser', task', X) = RowsBut(accountuser, task, Y)
  <2>1. \A x \in X : task'[x] = task[x]
    BY <1>2, <1>4, <1>5
  <2> QED
    BY <1>1, <2>1 DEF RowsBut
<1>8. Owed(task', A \ Y) = Owed(task, A \ Y)
  <2>1. \A x \in A \ Y : task'[x] = task[x]
    BY <1>2, <1>3
  <2> HIDE DEF A, Y
  <2> QED
    BY <2>1, OwedSame
<1> HIDE DEF A, Y
<1> QED
  BY <1>1, <1>5, <1>6, <1>7, <1>8

\* The row gets another quota, and the sum is still to be written.
LEMMA CoveredSet ==
    ASSUME QuotaInv, Covered(accountuser, domainquotaused, task), NEW w \in Worker,
           task[w].pc \notin Adding, task'[w].pc \in {"recompute", "recomputeChecked"},
           NEW i \in Nat, NEW q \in KiB, SetAccountQuota(i, q), task'[w].quota = q,
           domainquotaused' = domainquotaused,
           \A x \in Worker : x # w => task'[x] = task[x]
    PROVE  Covered(accountuser', domainquotaused', task')
<1> DEFINE A == In(task, Adding)
<1>1. /\ w \notin A /\ In(task', Adding) = A \cup {w} /\ In(task', Creating) = In(task, Creating)
      /\ A \subseteq Worker /\ In(task, Creating) \subseteq A
  BY DEF In, Adding, Creating
<1>2. q \in Nat
  BY KiBNat
<1>3. SUFFICES ASSUME NEW X, X \subseteq In(task, Creating)
               PROVE  SumOf(RowsBut(accountuser', task', X))
                          <= domainquotaused + Owed(task', (A \cup {w}) \ X)
  BY <1>1 DEF Covered
<1> DEFINE rows == RowsBut(accountuser, task, X)
           R == A \ X
<1>4. SumOf(rows) <= domainquotaused + Owed(task, R)
  BY <1>3 DEF Covered
<1>5. /\ X \subseteq Worker /\ (A \cup {w}) \ X = R \cup {w} /\ R \subseteq A /\ w \notin R
      /\ (R \cup {w}) \ {w} = R
      /\ \A x \in X \cup R : task'[x] = task[x]
  BY <1>1, <1>3
<1>6. /\ IsFiniteSet(rows) /\ rows \subseteq Row /\ SumOf(rows) \in Nat
      /\ IsFiniteSet(R) /\ Owed(task, R) \in Nat /\ \A x \in R : task[x].quota \in Nat
      /\ domainquotaused \in Nat
  BY <1>5, CoveredParts
<1>7. Owed(task', R \cup {w}) = q + Owed(task, R)
  <2>1. IsFiniteSet(R \cup {w}) /\ \A x \in R \cup {w} : task'[x].quota \in Nat
    <3>1. IsFiniteSet(R \cup {w})
      BY <1>6, FS_AddElement
    <3> QED
      BY <1>2, <1>5, <1>6, <3>1
  <2>2. \A x \in R : task'[x].quota = task[x].quota
    BY <1>5
  <2> HIDE DEF R, A
  <2>3. Owed(task', R) = Owed(task, R)
    BY <2>2, OwedSame
  <2>4. Owed(task', R \cup {w}) = task'[w].quota + Owed(task', (R \cup {w}) \ {w})
    BY <2>1, OwedOfWorkers
  <2> QED
    BY <1>5, <2>3, <2>4
<1>8. SumOf(RowsBut(accountuser', task', X)) <= SumOf(rows) + q
  <2>1. RowsBut(accountuser', task', X) = RowsBut(accountuser', task, X)
    BY <1>5 DEF RowsBut
  <2>2. CASE accountuser' = accountuser
    BY <1>2, <1>6, <2>1, <2>2
  <2>3. ASSUME NEW r \in accountuser, r.id = i,
               accountuser' = (accountuser \ {r}) \cup {[id |-> i, quota |-> q]}
        PROVE  SumOf(RowsBut(accountuser', task, X)) <= SumOf(rows) + q
    <3> DEFINE row == [id |-> i, quota |-> q]
               rest == rows \ {r}
    <3>1. row \in Row /\ row.id = i /\ row.quota = q
      BY DEF Row
    <3>2. rest \subseteq rows
      OBVIOUS
    <3> HIDE DEF row, rows
    <3>3. IsFiniteSet(rest) /\ rest \subseteq Row /\ SumOf(rest) \in Nat /\ SumOf(rest) <= SumOf(rows)
      BY <1>6, <3>2, SumOfPart, FS_Subset
    <3>4. CASE \E x \in X : task[x].id = i
      <4>1. RowsBut(accountuser', task, X) = rest
        BY <2>3, <3>1, <3>4 DEF RowsBut, rows, row
      <4> QED
        BY <1>2, <1>6, <3>3, <4>1
    <3>5. CASE \A x \in X : task[x].id # i
      <4>1. RowsBut(accountuser', task, X) = rest \cup {row}
        BY <2>3, <3>1, <3>5 DEF RowsBut, rows, row
      <4>2. row \notin rest
        <5>1. \A s \in rest : s.id # i
          BY <2>3 DEF rows, RowsBut, QuotaInv, Keyed
        <5> QED
          BY <3>1, <5>1
      <4>3. SumOf(rest \cup {row}) = SumOf(rest) + q
        <5> HIDE DEF rest
        <5> QED
          BY <3>1, <3>3, <4>2, SumOfMore
      <4> HIDE DEF rest
      <4> QED
        BY <1>2, <1>6, <3>3, <4>1, <4>3
    <3> QED
      BY <3>4, <3>5
  <2>4. \/ accountuser' = accountuser
        \/ \E r \in accountuser :
              r.id = i /\ accountuser' = (accountuser \ {r}) \cup {[id |-> i, quota |-> q]}
    BY RowChanges DEF QuotaInv
  <2> QED
    BY <2>1, <2>2, <2>3, <2>4
<1>9. SumOf(RowsBut(accountuser', task', X)) \in Nat
  <2>1. /\ accountuser' \subseteq Row /\ IsFiniteSet(accountuser')
    BY RowTypes DEF QuotaInv
  <2>2. RowsBut(accountuser', task', X) \subseteq accountuser'
    BY DEF RowsBut
  <2> QED
    BY <2>1, <2>2, SumOfPart
<1>10. Owed(task', (A \cup {w}) \ X) = q + Owed(task, R)
  BY <1>5, <1>7
<1> HIDE DEF A, R, rows
<1> QED
  BY <1>2, <1>4, <1>6, <1>8, <1>9, <1>10

LEMMA CoveredRecompute ==
    ASSUME QuotaInv, Covered(accountuser, domainquotaused, task), NEW w \in Worker, Recompute,
           UNCHANGED accountuser,
           task[w].pc \in {"recompute", "recomputeChecked"}, task'[w].pc \notin Adding,
           \A x \in Worker : x # w => task'[x] = task[x]
    PROVE  Covered(accountuser', domainquotaused', task')
<1> DEFINE A == In(task, Adding)
<1>1. /\ In(task', Adding) = A \ {w} /\ In(task', Creating) = In(task, Creating)
      /\ w \notin In(task, Creating)
  BY DEF In, Adding, Creating
<1>2. SUFFICES ASSUME NEW X, X \subseteq In(task, Creating)
               PROVE  SumOf(RowsBut(accountuser, task', X))
                          <= domainquotaused' + Owed(task', (A \ {w}) \ X)
  BY <1>1 DEF Covered
<1> DEFINE rows == RowsBut(accountuser, task, X)
           R == (A \ {w}) \ X
<1>3. X \subseteq Worker /\ R \subseteq A /\ \A x \in X \cup R : task'[x] = task[x]
  BY <1>1, <1>2 DEF In
<1>4. RowsBut(accountuser, task', X) = rows /\ Owed(task', R) = Owed(task, R)
  <2>1. RowsBut(accountuser, task', X) = rows
    BY <1>3 DEF RowsBut
  <2>2. \A x \in R : task'[x].quota = task[x].quota
    BY <1>3
  <2> HIDE DEF R
  <2>3. Owed(task', R) = Owed(task, R)
    BY <2>2, OwedSame
  <2> QED
    BY <2>1, <2>3
<1>5. /\ SumOf(rows) \in Nat /\ SumOf(rows) <= Total /\ Owed(task, R) \in Nat
      /\ domainquotaused \in Nat
  BY <1>3, CoveredParts
<1>6. Total \in Nat /\ accountuser = {} => Total = 0
  BY TotalNat, SumOfRows DEF QuotaInv, TypeOK, Keyed, Total
<1>7. domainquotaused' \in Nat /\ Total <= domainquotaused'
  BY <1>5, <1>6, TotalNat DEF Recompute, Total
<1>8. Total \in Nat
  BY TotalNat
<1> HIDE DEF A, R, rows
<1> QED
  BY <1>4, <1>5, <1>7, <1>8 DEF R

NoRemoval == \A w \in Worker : task[w].pc \notin RemovePC

\* The first statement of a request
LEMMA BeginTask ==
    ASSUME QuotaInv, NEW w \in Worker, Begin(w), ~SetDomainQuota(w)
    PROVE  /\ task[w].pc = "idle" /\ UNCHANGED <<accountuser, domainquotaused, imapquota>>
           /\ task'[w].pc \in {"insertAccount", "deleteMailbox", "setQuota", "updateAccount", "getQuota"}
           /\ task'[w].pc = "insertAccount" => "create" \in Requests
           /\ task'[w].pc = "deleteMailbox" => "remove" \in Requests
           /\ task'[w].pc \in {"setQuota", "updateAccount"} => "update" \in Requests
           /\ task'[w].pc = "getQuota" => "check" \in Requests
           /\ \A x \in Worker : x # w => task'[x] = task[x]
<1>1. CASE BeginCreate(w)
  <2>1. PICK q \in Quota : Start(w, [pc |-> "insertAccount", id |-> 0, quota |-> q])
    BY <1>1 DEF BeginCreate
  <2>2. task'[w].pc = "insertAccount" /\ \A x \in Worker : x # w => task'[x] = task[x]
    BY <2>1, TasksAfter
  <2> QED
    BY <1>1, <2>2 DEF BeginCreate, At, counters
<1>2. CASE BeginRemove(w)
  <2>1. PICK r \in accountuser : Start(w, [pc |-> "deleteMailbox", id |-> r.id, quota |-> 0])
    BY <1>2 DEF BeginRemove
  <2>2. task'[w].pc = "deleteMailbox" /\ \A x \in Worker : x # w => task'[x] = task[x]
    BY <2>1, TasksAfter
  <2> QED
    BY <1>2, <2>2 DEF BeginRemove, At, counters
<1>3. CASE BeginUpdate(w)
  <2>1. PICK r \in accountuser, q \in Quota, known \in KiB, src \in Source :
           Start(w, [pc |-> IF q # known THEN "setQuota" ELSE "updateAccount",
                     id |-> r.id, quota |-> q, source |-> src])
    BY <1>3 DEF BeginUpdate
  <2>2. /\ task'[w].pc \in {"setQuota", "updateAccount"}
        /\ \A x \in Worker : x # w => task'[x] = task[x]
    BY <2>1, TasksAfter
  <2> QED
    BY <1>3, <2>2 DEF BeginUpdate, At, counters
<1>4. CASE \E i \in Ids : BeginCheck(w, i)
  <2>1. PICK i \in Ids : BeginCheck(w, i)
    BY <1>4
  <2>2. PICK r \in accountuser, known \in KiB, src \in Source :
           Start(w, [pc |-> "getQuota", id |-> i, quota |-> known, source |-> src, seen |-> 0,
                     limited |-> domainquota > 0])
    BY <2>1 DEF BeginCheck
  <2>3. task'[w].pc = "getQuota" /\ \A x \in Worker : x # w => task'[x] = task[x]
    BY <2>2, TasksAfter
  <2> QED
    BY <2>1, <2>3 DEF BeginCheck, At, counters
<1> QED
  BY <1>1, <1>2, <1>3, <1>4 DEF Begin

\* What a step does to the statements that count
LEMMA QuietTasks ==
    ASSUME QuotaInv, NoRemoval, NEW w \in Worker,
           \/ Begin(w) \/ CreateMailbox(w) \/ SetNewQuota(w) \/ SetQuota(w)
           \/ GetQuota(w) \/ DefaultMailbox(w) \/ Align(w)
    PROVE  /\ UNCHANGED <<accountuser, domainquotaused>>
           /\ \A x \in Worker :
                \/ task'[x] = task[x]
                \/ task[x].pc \notin Adding /\ task'[x].pc \notin Adding
                \/ /\ task[x].pc \in Creating /\ task'[x].pc \in Creating
                   /\ task'[x].id = task[x].id /\ task'[x].quota = task[x].quota
<1>1. CASE Begin(w)
  <2>1. CASE SetDomainQuota(w)
    BY <2>1 DEF SetDomainQuota, counters
  <2>2. CASE ~SetDomainQuota(w)
    BY <1>1, <2>2, BeginTask DEF Adding, Creating
  <2> QED
    BY <2>1, <2>2
<1>2. CASE CreateMailbox(w) \/ SetNewQuota(w)
  <2>1. /\ task[w].pc \in Creating /\ UNCHANGED <<accountuser, domainquotaused>>
        /\ \E p \in Creating : Goto(w, p)
    BY <1>2 DEF CreateMailbox, SetNewQuota, At, Creating, counters
  <2> QED
    BY <2>1, TasksAfter DEF Creating
<1>3. CASE SetQuota(w)
  <2>1. /\ task[w].pc = "setQuota" /\ UNCHANGED <<accountuser, domainquotaused>>
        /\ Goto(w, "updateAccount") \/ Finish(w)
    BY <1>3 DEF SetQuota, At, counters
  <2> QED
    BY <2>1, TasksAfter DEF Adding, Creating
<1>4. CASE GetQuota(w) \/ DefaultMailbox(w)
  <2> DEFINE seen == MailboxQuota(task[w].id)
             t == [task[w] EXCEPT !.pc = AfterGetQuota(task[w], seen), !.seen = seen]
             u == [task[w] EXCEPT !.pc = AfterGetQuota(task[w], DefaultQuota), !.seen = DefaultQuota]
  <2>1. /\ task[w].pc \in {"getQuota", "defaultMailbox"}
        /\ UNCHANGED <<accountuser, domainquotaused>>
        /\ Start(w, t) \/ Start(w, u) \/ Finish(w)
    BY <1>4 DEF GetQuota, DefaultMailbox, At, counters
  <2>2. \A v, q : AfterGetQuota(v, q) \notin Adding
    BY DEF AfterGetQuota, Adding, Creating
  <2>3. task[w] \in CheckTask
    BY <2>1, TaskKinds DEF CheckPC, QuotaInv
  <2>4. t.pc \notin Adding /\ u.pc \notin Adding
    BY <2>2, <2>3 DEF CheckTask
  <2> HIDE DEF t, u
  <2> QED
    BY <2>1, <2>4, TasksAfter DEF Adding, Creating
<1>5. CASE Align(w)
  <2>1. task[w].pc = "align" /\ UNCHANGED <<accountuser, domainquotaused>> /\ Finish(w)
    BY <1>5 DEF Align, At, counters
  <2> QED
    BY <2>1, TasksAfter DEF Adding, Creating
<1> QED
  BY <1>1, <1>2, <1>3, <1>4, <1>5

LEMMA CoveredStep ==
    ASSUME QuotaInv, NoRemoval, Covered(accountuser, domainquotaused, task), [Next]_vars,
           faults = 0, faults' = 0
    PROVE  Covered(accountuser, domainquotaused, task)'
<1>1. CASE Still
  BY <1>1, CoveredQuiet DEF Still
<1>2. ASSUME NEW w \in Worker, Begin(w) \/ Step(w) \/ Failure(w)
      PROVE  Covered(accountuser', domainquotaused', task')
  <2>1. ~Failure(w)
    BY DEF Failure
  <2>2. CASE \/ Begin(w) \/ CreateMailbox(w) \/ SetNewQuota(w) \/ SetQuota(w)
             \/ GetQuota(w) \/ DefaultMailbox(w) \/ Align(w)
    BY <2>2, QuietTasks, CoveredQuiet
  <2>3. CASE InsertAccount(w)
    BY <2>3, CoveredInsert
  <2>4. CASE CountUp(w)
    BY <2>4, CoveredCountUp
  <2>5. CASE Undo(w)
    BY <2>5, CoveredUndo
  <2>6. CASE UpdateAccount(w)
    <3>1. /\ task[w].pc = "updateAccount" /\ task[w].id \in Nat /\ task[w].quota \in KiB
          /\ SetAccountQuota(task[w].id, task[w].quota) /\ domainquotaused' = domainquotaused
      BY <2>6, TaskKinds DEF UpdateAccount, At, QuotaInv, counters
    <3>2. /\ task'[w].pc = "recompute" /\ task'[w].quota = task[w].quota
          /\ \A x \in Worker : x # w => task'[x] = task[x]
      BY <2>6, <3>1, TasksAfter DEF UpdateAccount
    <3>3. task[w].pc \notin Adding
      BY <3>1 DEF Adding, Creating
    <3> QED
      BY <3>1, <3>2, <3>3, CoveredSet
  <2>7. CASE DefaultAccount(w)
    <3> DEFINE t == [task[w] EXCEPT !.pc = "recomputeChecked", !.quota = DefaultQuota]
    <3>1. /\ task[w].pc = "defaultAccount" /\ task[w].id \in Nat /\ DefaultQuota \in KiB
          /\ SetAccountQuota(task[w].id, DefaultQuota) /\ domainquotaused' = domainquotaused
          /\ Start(w, t)
      BY <2>7, TaskKinds DEF DefaultAccount, At, QuotaInv, counters, KiB
    <3>2. t.pc = "recomputeChecked" /\ t.quota = DefaultQuota
      BY <3>1, TaskKinds DEF QuotaInv, CheckPC, CheckTask
    <3> HIDE DEF t
    <3>3. task'[w] = t /\ \A x \in Worker : x # w => task'[x] = task[x]
      BY <3>1, TasksAfter
    <3>4. task[w].pc \notin Adding
      BY <3>1 DEF Adding, Creating
    <3> QED
      BY <3>1, <3>2, <3>3, <3>4, CoveredSet
  <2>8. CASE UpdateUsed(w) \/ CheckUsed(w)
    <3>1. /\ task[w].pc \in {"recompute", "recomputeChecked"} /\ Recompute
          /\ UNCHANGED accountuser /\ (Finish(w) \/ Goto(w, "align"))
      BY <2>8 DEF UpdateUsed, CheckUsed, At
    <3>2. task'[w].pc \notin Adding /\ \A x \in Worker : x # w => task'[x] = task[x]
      BY <3>1, TasksAfter DEF Adding, Creating
    <3> QED
      BY <2>8, <3>1, <3>2, CoveredRecompute DEF UpdateUsed, CheckUsed
  <2>9. ~(DeleteMailbox(w) \/ SelectQuota(w) \/ DeleteAccount(w) \/ CountDown(w))
    BY DEF NoRemoval, RemovePC, DeleteMailbox, SelectQuota, DeleteAccount, CountDown, At
  <2> QED
    BY <1>2, <2>1, <2>2, <2>3, <2>4, <2>5, <2>6, <2>7, <2>8, <2>9 DEF Step
<1> QED
  BY <1>1, <1>2, NextKinds

LEMMA NoRemovalStep ==
    ASSUME QuotaInv, NoRemoval, "remove" \notin Requests, [Next]_vars
    PROVE  NoRemoval'
<1>1. CASE Still
  BY <1>1 DEF Still, NoRemoval
<1>2. ASSUME NEW w \in Worker, Begin(w) \/ Step(w) \/ Failure(w) PROVE NoRemoval'
  <2>1. ASSUME task'[w].pc \notin RemovePC, \A x \in Worker : x # w => task'[x] = task[x]
        PROVE  NoRemoval'
    BY <2>1 DEF NoRemoval
  <2>2. CASE Finish(w) \/ \E p : Goto(w, p) /\ p \notin RemovePC /\ task[w].pc # "idle"
    BY <2>1, <2>2, TasksAfter DEF RemovePC
  <2>3. CASE \E t : Start(w, t) /\ t.pc \notin RemovePC
    BY <2>1, <2>3, TasksAfter
  <2>4. CASE Begin(w)
    <3>1. CASE SetDomainQuota(w)
      BY <3>1 DEF SetDomainQuota, NoRemoval
    <3>2. CASE ~SetDomainQuota(w)
      BY <2>1, <2>4, <3>2, BeginTask DEF RemovePC
    <3> QED
      BY <3>1, <3>2
  <2>5. CASE Failure(w)
    <3>1. task[w].pc # "idle" /\ task[w].pc # "selectQuota"
      BY <2>5 DEF Failure, At, NoRemoval, RemovePC
    <3>2. CASE QuotaUnknown(w)
      <4> DEFINE t == [task[w] EXCEPT !.pc = AfterGetQuota(task[w], 0), !.source = "none"]
      <4>1. Start(w, t) /\ task[w] \in CheckTask
        BY <3>2, TaskKinds DEF QuotaUnknown, At, CheckPC, QuotaInv
      <4>2. t.pc \notin RemovePC
        BY <4>1 DEF CheckTask, AfterGetQuota, RemovePC
      <4> HIDE DEF t
      <4> QED
        BY <2>3, <4>1, <4>2
    <3> QED
      BY <2>2, <2>5, <3>1, <3>2 DEF Failure, StatementFails, ReplyLost, Crash, RemovePC, At
  <2>6. CASE Step(w)
    <3>1. ~(DeleteMailbox(w) \/ SelectQuota(w) \/ DeleteAccount(w) \/ CountDown(w))
      BY DEF NoRemoval, RemovePC, DeleteMailbox, SelectQuota, DeleteAccount, CountDown, At
    <3>2. CASE InsertAccount(w) \/ GetQuota(w) \/ DefaultMailbox(w) \/ DefaultAccount(w)
      <4> DEFINE seen == MailboxQuota(task[w].id)
                 t1 == [task[w] EXCEPT !.pc = "createMailbox", !.id = nextId]
                 t2 == [task[w] EXCEPT !.pc = AfterGetQuota(task[w], seen), !.seen = seen]
                 t3 == [task[w] EXCEPT !.pc = AfterGetQuota(task[w], DefaultQuota),
                                       !.seen = DefaultQuota]
                 t4 == [task[w] EXCEPT !.pc = "recomputeChecked", !.quota = DefaultQuota]
      <4>1. \A v, q : AfterGetQuota(v, q) \notin RemovePC
        BY DEF AfterGetQuota, RemovePC
      <4>2. CASE InsertAccount(w)
        <5>1. Start(w, t1) /\ task[w] \in CreateTask
          BY <4>2, TaskKinds DEF InsertAccount, At, CreatePC, QuotaInv
        <5>2. t1.pc \notin RemovePC
          BY <5>1 DEF CreateTask, RemovePC
        <5> HIDE DEF t1
        <5> QED
          BY <2>3, <5>1, <5>2
      <4>3. CASE GetQuota(w) \/ DefaultMailbox(w) \/ DefaultAccount(w)
        <5>1. task[w] \in CheckTask
          BY <4>3, TaskKinds DEF GetQuota, DefaultMailbox, DefaultAccount, At, CheckPC, QuotaInv
        <5>2. Start(w, t2) \/ Start(w, t3) \/ Start(w, t4) \/ Finish(w)
          BY <4>3 DEF GetQuota, DefaultMailbox, DefaultAccount
        <5> HIDE DEF seen
        <5>3. t2.pc \notin RemovePC /\ t3.pc \notin RemovePC /\ t4.pc \notin RemovePC
          BY <4>1, <5>1 DEF CheckTask, RemovePC
        <5>4. task[w].pc # "idle"
          BY <5>1 DEF CheckTask
        <5> HIDE DEF t2, t3, t4
        <5> QED
          BY <2>2, <2>3, <5>2, <5>3, <5>4
      <4> QED
        BY <3>2, <4>2, <4>3
    <3>3. CASE ~(InsertAccount(w) \/ GetQuota(w) \/ DefaultMailbox(w) \/ DefaultAccount(w))
      BY <2>2, <2>6, <3>1, <3>3 DEF Step, CreateMailbox, SetNewQuota, CountUp, Undo, SetQuota,
         UpdateAccount, UpdateUsed, CheckUsed, Align, At, RemovePC
    <3> QED
      BY <3>2, <3>3
  <2> QED
    BY <1>2, <2>4, <2>5, <2>6
<1> QED
  BY <1>1, <1>2, NextKinds

LEMMA CoveredNotTooLow ==
    ASSUME QuotaInv, NoRemoval, faults = 0 => Covered(accountuser, domainquotaused, task)
    PROVE  UsedNotTooLow
<1> SUFFICES ASSUME faults = 0 PROVE UsedNotTooLow
  BY DEF UsedNotTooLow
<1>1. Busy({"createMailbox", "setNewQuota", "countUp", "undo", "recompute", "recomputeChecked"})
          = In(task, Adding)
  BY DEF Busy, In, Adding, Creating
<1>2. Busy({"countDown"}) = {}
  BY DEF Busy, NoRemoval, RemovePC
<1>3. /\ QuotasOf(In(task, Adding)) = Owed(task, In(task, Adding)) /\ QuotasOf({}) = Owed(task, {})
      /\ Owed(task, {}) = 0
  BY OwedOfWorkers, FS_EmptySet DEF QuotasOf, Owed
<1>4. SumOf(accountuser) <= domainquotaused + Owed(task, In(task, Adding))
  <2>1. RowsBut(accountuser, task, {}) = accountuser /\ In(task, Adding) \ {} = In(task, Adding)
    BY DEF RowsBut
  <2> QED
    BY <2>1 DEF Covered
<1>5. Owed(task, In(task, Adding)) \in Nat /\ domainquotaused \in Nat /\ SumOf(accountuser) \in Nat
  BY CoveredParts, TotalNat DEF Total
<1> HIDE DEF UsedNotTooLow
<1>6. domainquotaused + Owed(task, In(task, Adding)) >= SumOf(accountuser) + 0
  BY <1>4, <1>5
<1> QED
  BY <1>1, <1>2, <1>3, <1>6 DEF UsedNotTooLow

-----------------------------------------------------------------------------
(* Requests at the same time: creations and removals *)

NoChange == \A w \in Worker : task[w].pc \notin UpdatePC \cup CheckPC

\* Statements between which a mailbox cannot be there
Without == {"createMailbox", "selectQuota", "deleteAccount"}

\* Who makes or has deleted the mailbox of an account is alone with it until the
\* row is gone, and only the account's creation wrote the row.
Tokens ==
    /\ \A w \in In(task, Without) :
          ~HasMailbox(task[w].id) /\ \E r \in accountuser : r.id = task[w].id
    /\ \A w, x \in In(task, Without) : w # x => task[w].id # task[x].id
    /\ \A w \in In(task, {"deleteAccount"}) : RowIs(task[w].id, task[w].quota)
    /\ \A i \in DOMAIN imapquota : \E r \in accountuser : r.id = i
    /\ In(task, {"undo"}) = {}

Pending == {"createMailbox", "setNewQuota", "countUp"}

Balanced(rows, used, tasks) ==
    SumOf(rows) + Owed(tasks, In(tasks, {"countDown"})) <= used + Owed(tasks, In(tasks, Pending))

\* A worker comes to, leaves or is not among those that owe something.
LEMMA OwedJoins ==
    ASSUME QuotaInv, NEW w \in Worker, NEW S, S \subseteq Worker, w \notin S,
           \A x \in S : task[x].pc # "idle" /\ task'[x].quota = task[x].quota,
           task'[w].quota \in Nat
    PROVE  /\ Owed(task', S \cup {w}) = task'[w].quota + Owed(task, S)
           /\ Owed(task, S) \in Nat
<1>1. IsFiniteSet(S) /\ Owed(task, S) \in Nat /\ \A x \in S : task[x].quota \in Nat
  BY OwedNat
<1>2. IsFiniteSet(S \cup {w}) /\ \A x \in S \cup {w} : task'[x].quota \in Nat
  BY <1>1, FS_AddElement
<1>3. Owed(task', S \cup {w}) = task'[w].quota + Owed(task', (S \cup {w}) \ {w})
  BY <1>2, OwedOfWorkers
<1>4. (S \cup {w}) \ {w} = S
  OBVIOUS
<1>5. Owed(task', S) = Owed(task, S)
  BY OwedSame
<1> QED
  BY <1>1, <1>3, <1>4, <1>5

LEMMA OwedLeaves ==
    ASSUME QuotaInv, NEW w \in Worker, NEW S, S \subseteq Worker, w \in S,
           \A x \in S : task[x].pc # "idle",
           \A x \in S \ {w} : task'[x].quota = task[x].quota
    PROVE  /\ Owed(task, S) = task[w].quota + Owed(task', S \ {w})
           /\ Owed(task', S \ {w}) \in Nat /\ task[w].quota \in Nat
<1>1. IsFiniteSet(S) /\ \A x \in S : task[x].quota \in Nat
  BY OwedNat
<1>2. Owed(task, S) = task[w].quota + Owed(task, S \ {w})
  <2>1. \A x \in S : Owed(task, S) = task[x].quota + Owed(task, S \ {x})
    BY <1>1, OwedOfWorkers
  <2> QED
    BY <2>1
<1>3. Owed(task, S \ {w}) \in Nat
  <2>1. S \ {w} \subseteq Worker /\ \A x \in S \ {w} : task[x].pc # "idle"
    OBVIOUS
  <2> QED
    BY <2>1, OwedNat
<1>4. Owed(task', S \ {w}) = Owed(task, S \ {w})
  BY OwedSame
<1> QED
  BY <1>1, <1>2, <1>3, <1>4

LEMMA OwedStays ==
    ASSUME NEW P, \A x \in Worker : x \in In(task, P) <=> x \in In(task', P),
           \A x \in In(task, P) : task'[x].quota = task[x].quota
    PROVE  Owed(task', In(task', P)) = Owed(task, In(task, P))
<1>1. In(task', P) = In(task, P)
  BY DEF In
<1> QED
  BY <1>1, OwedSame

\* Neither rows nor the sum change, and nobody's addition begins or ends.
LEMMA BalancedQuiet ==
    ASSUME Balanced(accountuser, domainquotaused, task),
           UNCHANGED <<accountuser, domainquotaused>>,
           \A x \in Worker :
              \/ task'[x] = task[x]
              \/ /\ task[x].pc \notin Pending \cup {"countDown"}
                 /\ task'[x].pc \notin Pending \cup {"countDown"}
              \/ /\ task[x].pc \in Pending /\ task'[x].pc \in Pending
                 /\ task'[x].quota = task[x].quota
    PROVE  Balanced(accountuser', domainquotaused', task')
<1>1. Owed(task', In(task', Pending)) = Owed(task, In(task, Pending))
  <2>1. /\ \A x \in Worker : x \in In(task, Pending) <=> x \in In(task', Pending)
        /\ \A x \in In(task, Pending) : task'[x].quota = task[x].quota
    BY DEF In, Pending
  <2> QED
    BY <2>1, OwedStays
<1>2. Owed(task', In(task', {"countDown"})) = Owed(task, In(task, {"countDown"}))
  <2>1. /\ \A x \in Worker : x \in In(task, {"countDown"}) <=> x \in In(task', {"countDown"})
        /\ \A x \in In(task, {"countDown"}) : task'[x].quota = task[x].quota
    BY DEF In, Pending
  <2> QED
    BY <2>1, OwedStays
<1> QED
  BY <1>1, <1>2 DEF Balanced

\* The numbers in the balance
LEMMA BalancedNumbers ==
    ASSUME QuotaInv
    PROVE  /\ SumOf(accountuser) \in Nat /\ domainquotaused \in Nat
           /\ Owed(task, In(task, {"countDown"})) \in Nat
           /\ Owed(task, In(task, Pending)) \in Nat
<1>1. \A P : In(task, P) \subseteq Worker /\ \A x \in In(task, P) : task[x].pc \in P
  BY DEF In
<1>2. Owed(task, In(task, {"countDown"})) \in Nat
  <2>1. \A x \in In(task, {"countDown"}) : task[x].pc # "idle"
    BY <1>1
  <2> QED
    BY <1>1, <2>1, OwedNat
<1>3. Owed(task, In(task, Pending)) \in Nat
  <2>1. \A x \in In(task, Pending) : task[x].pc # "idle"
    BY <1>1 DEF Pending
  <2> QED
    BY <1>1, <2>1, OwedNat
<1> QED
  BY <1>2, <1>3, TotalNat DEF Total, QuotaInv, TypeOK

LEMMA BalancedInsert ==
    ASSUME QuotaInv, Balanced(accountuser, domainquotaused, task), NEW w \in Worker, InsertAccount(w)
    PROVE  Balanced(accountuser', domainquotaused', task')
<1> DEFINE q == task[w].quota
           row == [id |-> nextId, quota |-> q]
           S == In(task, Pending)
<1>1. /\ task[w].pc = "insertAccount" /\ q \in KiB /\ q \in Nat
      /\ accountuser' = accountuser \cup {row} /\ domainquotaused' = domainquotaused
      /\ task[w] \in CreateTask
  BY TaskKinds, KiBNat DEF InsertAccount, At, QuotaInv, TypeOK, CreatePC, counters
<1>2. /\ task'[w].pc = "createMailbox" /\ task'[w].quota = q
      /\ \A x \in Worker : x # w => task'[x] = task[x]
  BY <1>1 DEF InsertAccount, Start, QuotaInv, TypeOK, CreateTask
<1>3. SumOf(accountuser') = SumOf(accountuser) + q
  <2>1. row \in Row /\ row.quota = q /\ row \notin accountuser
    BY <1>1 DEF Row, QuotaInv, Keyed, TypeOK
  <2> HIDE DEF row
  <2> QED
    BY <1>1, <2>1, SumOfMore DEF QuotaInv, Keyed, TypeOK
<1>4. Owed(task', In(task', Pending)) = q + Owed(task, S)
  <2>1. /\ S \subseteq Worker /\ w \notin S /\ In(task', Pending) = S \cup {w}
        /\ \A x \in S : task[x].pc # "idle" /\ task'[x].quota = task[x].quota
    BY <1>1, <1>2 DEF In, Pending
  <2> HIDE DEF S
  <2>2. Owed(task', S \cup {w}) = task'[w].quota + Owed(task, S)
    BY <1>1, <1>2, <2>1, OwedJoins
  <2> QED
    BY <1>2, <2>1, <2>2
<1>5. Owed(task', In(task', {"countDown"})) = Owed(task, In(task, {"countDown"}))
  <2>1. /\ \A x \in Worker : x \in In(task, {"countDown"}) <=> x \in In(task', {"countDown"})
        /\ \A x \in In(task, {"countDown"}) : task'[x].quota = task[x].quota
    BY <1>1, <1>2 DEF In
  <2> QED
    BY <2>1, OwedStays
<1> HIDE DEF q, row
<1>6. q \in Nat /\ domainquotaused' = domainquotaused
  BY <1>1
<1> QED
  BY <1>3, <1>4, <1>5, <1>6, BalancedNumbers DEF Balanced

LEMMA BalancedCountUp ==
    ASSUME QuotaInv, Balanced(accountuser, domainquotaused, task), NEW w \in Worker, CountUp(w)
    PROVE  Balanced(accountuser', domainquotaused', task')
<1> DEFINE q == task[w].quota
           S == In(task, Pending)
<1>1. /\ task[w].pc = "countUp" /\ q \in Nat /\ domainquotaused \in Nat /\ accountcount \in Nat
      /\ accountuser' = accountuser /\ Count(1, q)
  BY TaskKinds, KiBNat DEF CountUp, At, QuotaInv, TypeOK
<1>2. domainquotaused' = domainquotaused + q
  BY <1>1 DEF Count
<1>3. task'[w].pc = "idle" /\ \A x \in Worker : x # w => task'[x] = task[x]
  BY TasksAfter DEF CountUp
<1>4. /\ Owed(task, S) = q + Owed(task', In(task', Pending))
      /\ Owed(task', In(task', Pending)) \in Nat
  <2>1. /\ S \subseteq Worker /\ w \in S /\ In(task', Pending) = S \ {w}
        /\ \A x \in S : task[x].pc # "idle"
        /\ \A x \in S \ {w} : task'[x].quota = task[x].quota
    BY <1>1, <1>3 DEF In, Pending
  <2> HIDE DEF S
  <2>2. /\ Owed(task, S) = task[w].quota + Owed(task', S \ {w})
        /\ Owed(task', S \ {w}) \in Nat
    BY <2>1, OwedLeaves
  <2> QED
    BY <2>1, <2>2
<1>5. Owed(task', In(task', {"countDown"})) = Owed(task, In(task, {"countDown"}))
  <2>1. /\ \A x \in Worker : x \in In(task, {"countDown"}) <=> x \in In(task', {"countDown"})
        /\ \A x \in In(task, {"countDown"}) : task'[x].quota = task[x].quota
    BY <1>1, <1>3 DEF In
  <2> QED
    BY <2>1, OwedStays
<1> HIDE DEF q
<1>6. q \in Nat /\ accountuser' = accountuser
  BY <1>1
<1> QED
  BY <1>2, <1>4, <1>5, <1>6, BalancedNumbers DEF Balanced

\* The row had the quota that is still to be subtracted.
LEMMA BalancedDelete ==
    ASSUME QuotaInv, Balanced(accountuser, domainquotaused, task), Tokens,
           NEW w \in Worker, DeleteAccount(w)
    PROVE  Balanced(accountuser', domainquotaused', task')
<1> DEFINE q == task[w].quota
           S == In(task, {"countDown"})
<1>1. /\ task[w].pc = "deleteAccount" /\ q \in Nat /\ domainquotaused' = domainquotaused
      /\ accountuser' = {r \in accountuser : r.id # task[w].id}
  BY TaskKinds, KiBNat DEF DeleteAccount, At, QuotaInv, counters
<1>2. /\ task'[w].pc = "countDown" /\ task'[w].quota = q
      /\ \A x \in Worker : x # w => task'[x] = task[x]
  BY <1>1, TasksAfter DEF DeleteAccount
<1>3. SumOf(accountuser) = SumOf(accountuser') + q /\ SumOf(accountuser') \in Nat
  <2>1. RowIs(task[w].id, q)
    BY <1>1 DEF Tokens, In
  <2>2. PICK r \in accountuser : r = [id |-> task[w].id, quota |-> q]
    BY <2>1 DEF RowIs
  <2>3. accountuser' = {s \in accountuser : s.id # r.id} /\ r.quota = q
    BY <1>1, <2>2
  <2>4. Total' = Total - r.quota /\ accountuser' = accountuser \ {r}
    BY <2>3, RowGone
  <2>5. Total \in Nat /\ SumOf(accountuser \ {r}) \in Nat
    BY RowAndRest
  <2>6. SumOf(accountuser') = SumOf(accountuser) - q
    BY <2>3, <2>4 DEF Total
  <2>7. SumOf(accountuser') \in Nat
    BY <2>4, <2>5
  <2>8. SumOf(accountuser) \in Nat
    BY <2>5 DEF Total
  <2> HIDE DEF q
  <2>9. q \in Nat
    BY <1>1
  <2> QED
    BY <2>6, <2>7, <2>8, <2>9
<1>4. Owed(task', In(task', {"countDown"})) = q + Owed(task, S)
  <2>1. /\ S \subseteq Worker /\ w \notin S /\ In(task', {"countDown"}) = S \cup {w}
        /\ \A x \in S : task[x].pc # "idle" /\ task'[x].quota = task[x].quota
    BY <1>1, <1>2 DEF In
  <2> HIDE DEF S
  <2>2. Owed(task', S \cup {w}) = task'[w].quota + Owed(task, S)
    BY <1>1, <1>2, <2>1, OwedJoins
  <2> QED
    BY <1>2, <2>1, <2>2
<1>5. Owed(task', In(task', Pending)) = Owed(task, In(task, Pending))
  <2>1. /\ \A x \in Worker : x \in In(task, Pending) <=> x \in In(task', Pending)
        /\ \A x \in In(task, Pending) : task'[x].quota = task[x].quota
    BY <1>1, <1>2 DEF In, Pending
  <2> QED
    BY <2>1, OwedStays
<1> HIDE DEF q
<1>6. q \in Nat /\ domainquotaused' = domainquotaused
  BY <1>1
<1> QED
  BY <1>3, <1>4, <1>5, <1>6, BalancedNumbers DEF Balanced

\* A subtraction that the column refuses leaves too much in it.
LEMMA BalancedCountDown ==
    ASSUME QuotaInv, Balanced(accountuser, domainquotaused, task), NEW w \in Worker, CountDown(w)
    PROVE  Balanced(accountuser', domainquotaused', task')
<1> DEFINE q == task[w].quota
           S == In(task, {"countDown"})
<1>1. /\ task[w].pc = "countDown" /\ q \in Nat /\ domainquotaused \in Nat
      /\ accountuser' = accountuser /\ Count(-1, -q)
  BY TaskKinds, KiBNat DEF CountDown, At, QuotaInv, TypeOK
<1>2. domainquotaused' = domainquotaused \/ domainquotaused' = domainquotaused - q
  BY <1>1 DEF Count, counters
<1>3. task'[w].pc = "idle" /\ \A x \in Worker : x # w => task'[x] = task[x]
  BY TasksAfter DEF CountDown
<1>4. /\ Owed(task, S) = q + Owed(task', In(task', {"countDown"}))
      /\ Owed(task', In(task', {"countDown"})) \in Nat
  <2>1. /\ S \subseteq Worker /\ w \in S /\ In(task', {"countDown"}) = S \ {w}
        /\ \A x \in S : task[x].pc # "idle"
        /\ \A x \in S \ {w} : task'[x].quota = task[x].quota
    BY <1>1, <1>3 DEF In
  <2> HIDE DEF S
  <2>2. /\ Owed(task, S) = task[w].quota + Owed(task', S \ {w})
        /\ Owed(task', S \ {w}) \in Nat
    BY <2>1, OwedLeaves
  <2> QED
    BY <2>1, <2>2
<1>5. Owed(task', In(task', Pending)) = Owed(task, In(task, Pending))
  <2>1. /\ \A x \in Worker : x \in In(task, Pending) <=> x \in In(task', Pending)
        /\ \A x \in In(task, Pending) : task'[x].quota = task[x].quota
    BY <1>1, <1>3 DEF In, Pending
  <2> QED
    BY <2>1, OwedStays
<1> HIDE DEF q
<1>6. q \in Nat /\ accountuser' = accountuser
  BY <1>1
<1> QED
  BY <1>2, <1>4, <1>5, <1>6, BalancedNumbers DEF Balanced

LEMMA BalancedStep ==
    ASSUME QuotaInv, NoChange, Tokens, Balanced(accountuser, domainquotaused, task), [Next]_vars,
           faults = 0, faults' = 0
    PROVE  Balanced(accountuser, domainquotaused, task)'
<1>1. CASE Still
  BY <1>1, BalancedQuiet DEF Still
<1>2. ASSUME NEW w \in Worker, Begin(w) \/ Step(w) \/ Failure(w)
      PROVE  Balanced(accountuser', domainquotaused', task')
  <2>1. ~Failure(w)
    BY DEF Failure
  <2>2. CASE Begin(w)
    <3>1. CASE SetDomainQuota(w)
      BY <3>1, BalancedQuiet DEF SetDomainQuota, counters
    <3>2. CASE ~SetDomainQuota(w)
      <4>1. /\ UNCHANGED <<accountuser, domainquotaused>>
            /\ task[w].pc \notin Pending \cup {"countDown"}
            /\ task'[w].pc \notin Pending \cup {"countDown"}
            /\ \A x \in Worker : x # w => task'[x] = task[x]
        BY <2>2, <3>2, BeginTask DEF Pending
      <4> QED
        BY <4>1, BalancedQuiet
    <3> QED
      BY <3>1, <3>2
  <2>3. CASE CreateMailbox(w) \/ SetNewQuota(w)
    <3>1. /\ task[w].pc \in Pending /\ UNCHANGED <<accountuser, domainquotaused>>
          /\ \E p \in Pending : Goto(w, p)
      BY <2>3 DEF CreateMailbox, SetNewQuota, At, Pending, counters, Tokens, In, Without
    <3>2. /\ task'[w].pc \in Pending /\ task'[w].quota = task[w].quota
          /\ \A x \in Worker : x # w => task'[x] = task[x]
      BY <3>1, TasksAfter DEF Pending
    <3> QED
      BY <3>1, <3>2, BalancedQuiet
  <2>4. CASE DeleteMailbox(w) \/ SelectQuota(w)
    <3>1. /\ task[w].pc \notin Pending \cup {"countDown"}
          /\ UNCHANGED <<accountuser, domainquotaused>>
      BY <2>4 DEF DeleteMailbox, SelectQuota, At, Pending, counters
    <3>2. /\ task'[w].pc \in {"idle", "selectQuota", "deleteAccount"}
          /\ \A x \in Worker : x # w => task'[x] = task[x]
      <4>1. CASE DeleteMailbox(w)
        <5>1. task[w].pc # "idle" /\ (Finish(w) \/ Goto(w, "selectQuota"))
          BY <4>1 DEF DeleteMailbox, At
        <5> QED
          BY <5>1, TasksAfter
      <4>2. CASE SelectQuota(w)
        <5> DEFINE t == [task[w] EXCEPT !.pc = "deleteAccount",
                                        !.quota = SumOf({r \in accountuser : r.id = task[w].id})]
        <5>1. Start(w, t) /\ task[w] \in RemoveTask
          BY <4>2, TaskKinds DEF SelectQuota, At, RemovePC, QuotaInv
        <5>2. t.pc = "deleteAccount"
          BY <5>1 DEF RemoveTask
        <5> HIDE DEF t
        <5> QED
          BY <5>1, <5>2, TasksAfter
      <4> QED
        BY <2>4, <4>1, <4>2
    <3>3. task'[w].pc \notin Pending \cup {"countDown"}
      BY <3>2 DEF Pending
    <3> QED
      BY <3>1, <3>2, <3>3, BalancedQuiet
  <2>5. ~(Undo(w) \/ SetQuota(w) \/ UpdateAccount(w) \/ UpdateUsed(w) \/ GetQuota(w)
          \/ DefaultMailbox(w) \/ DefaultAccount(w) \/ CheckUsed(w) \/ Align(w))
    BY DEF NoChange, Tokens, In, UpdatePC, CheckPC, At, Undo, SetQuota, UpdateAccount, UpdateUsed,
       GetQuota, DefaultMailbox, DefaultAccount, CheckUsed, Align
  <2> QED
    BY <1>2, <2>1, <2>2, <2>3, <2>4, <2>5, BalancedInsert, BalancedCountUp, BalancedDelete,
       BalancedCountDown DEF Step
<1> QED
  BY <1>1, <1>2, NextKinds

\* The rows stay, mailboxes neither come nor go, and nobody comes to a statement
\* between which there is no mailbox.
LEMMA TokensQuiet ==
    ASSUME Tokens, accountuser' = accountuser, DOMAIN imapquota' = DOMAIN imapquota,
           \A x \in Worker :
              \/ task'[x] = task[x]
              \/ task'[x].pc \notin Without \cup {"undo"}
    PROVE  Tokens'
<1>1. \A P \in {Without, {"deleteAccount"}, {"undo"}} : \A x \in In(task', P) :
         x \in In(task, P) /\ task'[x] = task[x]
  BY DEF In, Without
<1> QED
  BY <1>1 DEF Tokens, HasMailbox, RowIs

LEMMA TokensInsert ==
    ASSUME QuotaInv, Tokens, NEW w \in Worker, InsertAccount(w)
    PROVE  Tokens'
<1> DEFINE row == [id |-> nextId, quota |-> task[w].quota]
<1>1. /\ task[w].pc = "insertAccount" /\ imapquota' = imapquota /\ nextId \in Nat
      /\ accountuser' = accountuser \cup {row} /\ task[w] \in CreateTask
  BY TaskKinds DEF InsertAccount, At, QuotaInv, TypeOK, CreatePC, counters
<1>2. /\ task'[w].pc = "createMailbox" /\ task'[w].id = nextId
      /\ \A x \in Worker : x # w => task'[x] = task[x]
  BY <1>1 DEF InsertAccount, Start, QuotaInv, TypeOK, CreateTask
<1>3. row.id = nextId /\ ~HasMailbox(nextId) /\ \A x \in In(task, Without) : task[x].id # nextId
  BY <1>1 DEF HasMailbox, QuotaInv, Keyed, TypeOK, In, Without
<1>4. /\ In(task', Without) = In(task, Without) \cup {w} /\ w \in Worker
      /\ In(task', {"deleteAccount"}) = In(task, {"deleteAccount"})
      /\ In(task', {"undo"}) = In(task, {"undo"})
      /\ w \notin In(task, Without) /\ w \notin In(task, {"deleteAccount"})
      /\ In(task, Without) \subseteq Worker /\ In(task, {"deleteAccount"}) \subseteq Worker
  BY <1>1, <1>2 DEF In, Without
<1>5. /\ \A x \in In(task', Without) : x # w => x \in In(task, Without) /\ task'[x] = task[x]
      /\ \A x \in In(task', {"deleteAccount"}) : x \in In(task, {"deleteAccount"}) /\ task'[x] = task[x]
  BY <1>2, <1>4
<1> HIDE DEF row
<1>6. \A x \in In(task', Without) :
         task'[x].id \notin DOMAIN imapquota' /\ \E r \in accountuser' : r.id = task'[x].id
  BY <1>1, <1>2, <1>3, <1>5 DEF Tokens, HasMailbox
<1>7. \A x, y \in In(task', Without) : x # y => task'[x].id # task'[y].id
  BY <1>2, <1>3, <1>5 DEF Tokens
<1>8. \A x \in In(task', {"deleteAccount"}) : [id |-> task'[x].id, quota |-> task'[x].quota] \in accountuser'
  BY <1>1, <1>5 DEF Tokens, RowIs
<1>9. \A i \in DOMAIN imapquota' : \E r \in accountuser' : r.id = i
  BY <1>1 DEF Tokens
<1> QED
  BY <1>4, <1>6, <1>7, <1>8, <1>9 DEF Tokens, HasMailbox, RowIs

LEMMA TokensCreate ==
    ASSUME QuotaInv, Tokens, NEW w \in Worker, CreateMailbox(w)
    PROVE  Tokens'
<1>1. task[w].pc = "createMailbox" /\ w \in In(task, Without) /\ accountuser' = accountuser
  BY DEF CreateMailbox, At, In, Without
<1>2. MakeMailbox(task[w].id) /\ Goto(w, "setNewQuota")
  BY <1>1 DEF CreateMailbox, Tokens
<1>3. task'[w].pc = "setNewQuota" /\ \A x \in Worker : x # w => task'[x] = task[x]
  BY <1>1, <1>2, TasksAfter
<1>4. \A P \in {Without, {"deleteAccount"}, {"undo"}} : \A x \in In(task', P) :
         x \in In(task, P) /\ task'[x] = task[x] /\ x # w
  BY <1>3 DEF In, Without
<1>5. DOMAIN imapquota' = DOMAIN imapquota \cup {task[w].id}
  BY <1>2 DEF MakeMailbox
<1>6. \A x \in In(task', Without) :
         task'[x].id \notin DOMAIN imapquota' /\ \E r \in accountuser' : r.id = task'[x].id
  BY <1>1, <1>4, <1>5 DEF Tokens, HasMailbox
<1>7. \A x, y \in In(task', Without) : x # y => task'[x].id # task'[y].id
  BY <1>4 DEF Tokens
<1>8. \A x \in In(task', {"deleteAccount"}) : [id |-> task'[x].id, quota |-> task'[x].quota] \in accountuser'
  BY <1>1, <1>4 DEF Tokens, RowIs
<1>9. \A i \in DOMAIN imapquota' : \E r \in accountuser' : r.id = i
  BY <1>1, <1>5 DEF Tokens
<1>10. In(task', {"undo"}) = {}
  BY <1>4 DEF Tokens
<1> QED
  BY <1>6, <1>7, <1>8, <1>9, <1>10 DEF Tokens, HasMailbox, RowIs

LEMMA TokensDrop ==
    ASSUME QuotaInv, Tokens, NEW w \in Worker, DeleteMailbox(w), HasMailbox(task[w].id)
    PROVE  Tokens'
<1>1. /\ task[w].pc = "deleteMailbox" /\ accountuser' = accountuser
      /\ DropMailbox(task[w].id) /\ Goto(w, "selectQuota")
  BY DEF DeleteMailbox, At
<1>2. /\ task'[w].pc = "selectQuota" /\ task'[w].id = task[w].id
      /\ \A x \in Worker : x # w => task'[x] = task[x]
  BY <1>1, TasksAfter
<1>3. /\ \A x \in In(task', Without) : x # w => x \in In(task, Without) /\ task'[x] = task[x]
      /\ \A P \in {{"deleteAccount"}, {"undo"}} : \A x \in In(task', P) :
            x \in In(task, P) /\ task'[x] = task[x]
  BY <1>2 DEF In, Without
<1>4. DOMAIN imapquota' = DOMAIN imapquota \ {task[w].id}
  BY <1>1 DEF DropMailbox
<1>5. \A x \in In(task', Without) :
         task'[x].id \notin DOMAIN imapquota' /\ \E r \in accountuser' : r.id = task'[x].id
  BY <1>1, <1>2, <1>3, <1>4 DEF Tokens, HasMailbox
<1>6. \A x, y \in In(task', Without) : x # y => task'[x].id # task'[y].id
  BY <1>2, <1>3 DEF Tokens
<1>7. \A x \in In(task', {"deleteAccount"}) : [id |-> task'[x].id, quota |-> task'[x].quota] \in accountuser'
  BY <1>1, <1>3 DEF Tokens, RowIs
<1>8. \A i \in DOMAIN imapquota' : \E r \in accountuser' : r.id = i
  BY <1>1, <1>4 DEF Tokens
<1>9. In(task', {"undo"}) = {}
  BY <1>3 DEF Tokens
<1> QED
  BY <1>5, <1>6, <1>7, <1>8, <1>9 DEF Tokens, HasMailbox, RowIs

LEMMA TokensSelect ==
    ASSUME QuotaInv, Tokens, NEW w \in Worker, SelectQuota(w)
    PROVE  Tokens'
<1> DEFINE sum == SumOf({r \in accountuser : r.id = task[w].id})
           t == [task[w] EXCEPT !.pc = "deleteAccount", !.quota = sum]
<1>1. /\ task[w].pc = "selectQuota" /\ w \in In(task, Without) /\ Start(w, t)
      /\ UNCHANGED <<accountuser, imapquota>> /\ task[w] \in RemoveTask
  BY TaskKinds DEF SelectQuota, At, In, Without, RemovePC, QuotaInv
<1>2. t.pc = "deleteAccount" /\ t.id = task[w].id /\ t.quota = sum
  BY <1>1 DEF RemoveTask
<1>3. RowIs(task[w].id, sum)
  BY <1>1, MineIs DEF Tokens
<1> HIDE DEF t, sum
<1>4. /\ task'[w].pc = "deleteAccount" /\ task'[w].id = task[w].id /\ task'[w].quota = sum
      /\ \A x \in Worker : x # w => task'[x] = task[x]
  BY <1>1, <1>2, TasksAfter
<1>5. /\ \A x \in In(task', Without) : x \in In(task, Without) /\ task'[x].id = task[x].id
      /\ \A x \in In(task', {"deleteAccount"}) :
            x # w => x \in In(task, {"deleteAccount"}) /\ task'[x] = task[x]
      /\ \A x \in In(task', {"undo"}) : x \in In(task, {"undo"})
  BY <1>1, <1>4 DEF In, Without
<1>6. \A x \in In(task', {"deleteAccount"}) : [id |-> task'[x].id, quota |-> task'[x].quota] \in accountuser'
  BY <1>1, <1>3, <1>4, <1>5 DEF Tokens, RowIs
<1> QED
  BY <1>1, <1>5, <1>6 DEF Tokens, HasMailbox, RowIs

LEMMA TokensDelete ==
    ASSUME QuotaInv, Tokens, NEW w \in Worker, DeleteAccount(w)
    PROVE  Tokens'
<1>1. /\ task[w].pc = "deleteAccount" /\ w \in In(task, Without) /\ imapquota' = imapquota
      /\ accountuser' = {r \in accountuser : r.id # task[w].id}
  BY DEF DeleteAccount, At, In, Without
<1>2. task'[w].pc = "countDown" /\ \A x \in Worker : x # w => task'[x] = task[x]
  BY <1>1, TasksAfter DEF DeleteAccount
<1>3. \A P \in {Without, {"deleteAccount"}, {"undo"}} : \A x \in In(task', P) :
         x \in In(task, P) /\ task'[x] = task[x] /\ x # w
  BY <1>2 DEF In, Without
<1>4. \A x \in In(task', Without) :
         task'[x].id \notin DOMAIN imapquota' /\ \E r \in accountuser' : r.id = task'[x].id
  <2> SUFFICES ASSUME NEW x \in In(task', Without)
               PROVE  task'[x].id \notin DOMAIN imapquota' /\ \E r \in accountuser' : r.id = task'[x].id
    OBVIOUS
  <2>1. x \in In(task, Without) /\ task'[x] = task[x] /\ task[x].id # task[w].id
    BY <1>1, <1>3 DEF Tokens
  <2>2. PICK r \in accountuser : r.id = task[x].id
    BY <2>1 DEF Tokens
  <2>3. r \in accountuser'
    BY <1>1, <2>1, <2>2
  <2> QED
    BY <1>1, <2>1, <2>2, <2>3 DEF Tokens, HasMailbox
<1>5. \A x, y \in In(task', Without) : x # y => task'[x].id # task'[y].id
  BY <1>3 DEF Tokens
<1>6. \A x \in In(task', {"deleteAccount"}) :
         [id |-> task'[x].id, quota |-> task'[x].quota] \in accountuser'
  <2> SUFFICES ASSUME NEW x \in In(task', {"deleteAccount"})
               PROVE  [id |-> task'[x].id, quota |-> task'[x].quota] \in accountuser'
    OBVIOUS
  <2> DEFINE r == [id |-> task[x].id, quota |-> task[x].quota]
  <2>1. x \in In(task, {"deleteAccount"}) /\ task'[x] = task[x] /\ x # w
    BY <1>3
  <2>2. x \in In(task, Without)
    BY <2>1 DEF In, Without
  <2>3. r \in accountuser /\ task[x].id # task[w].id
    BY <1>1, <2>1, <2>2 DEF Tokens, RowIs
  <2>4. r.id # task[w].id
    BY <2>3
  <2> HIDE DEF r
  <2>5. r \in accountuser'
    BY <1>1, <2>3, <2>4
  <2> QED
    BY <2>1, <2>5 DEF r
<1>7. \A i \in DOMAIN imapquota' : \E r \in accountuser' : r.id = i
  <2> SUFFICES ASSUME NEW i \in DOMAIN imapquota' PROVE \E r \in accountuser' : r.id = i
    OBVIOUS
  <2>1. i \in DOMAIN imapquota /\ i # task[w].id
    BY <1>1 DEF Tokens, HasMailbox
  <2>2. PICK r \in accountuser : r.id = i
    BY <2>1 DEF Tokens
  <2>3. r \in accountuser'
    BY <1>1, <2>1, <2>2
  <2> QED
    BY <2>2, <2>3
<1>8. In(task', {"undo"}) = {}
  BY <1>3 DEF Tokens
<1> QED
  BY <1>4, <1>5, <1>6, <1>7, <1>8 DEF Tokens, HasMailbox, RowIs

LEMMA TokensStep ==
    ASSUME QuotaInv, NoChange, Tokens, [Next]_vars, faults = 0, faults' = 0
    PROVE  Tokens'
<1>1. CASE Still
  BY <1>1, TokensQuiet DEF Still
<1>2. ASSUME NEW w \in Worker, Begin(w) \/ Step(w) \/ Failure(w) PROVE Tokens'
  <2>1. ~Failure(w)
    BY DEF Failure
  <2>2. CASE Begin(w)
    <3>1. CASE SetDomainQuota(w)
      BY <3>1, TokensQuiet DEF SetDomainQuota
    <3>2. CASE ~SetDomainQuota(w)
      <4>1. /\ accountuser' = accountuser /\ imapquota' = imapquota
            /\ task'[w].pc \notin Without \cup {"undo"}
            /\ \A x \in Worker : x # w => task'[x] = task[x]
        BY <2>2, <3>2, BeginTask DEF Without
      <4> QED
        BY <4>1, TokensQuiet
    <3> QED
      BY <3>1, <3>2
  <2>3. CASE SetNewQuota(w)
    <3>1. task[w].pc = "setNewQuota" /\ accountuser' = accountuser /\ Goto(w, "countUp")
      BY <2>3 DEF SetNewQuota, At
    <3>2. DOMAIN imapquota' = DOMAIN imapquota
      BY <2>3 DEF SetNewQuota, SetMailboxQuota
    <3>3. /\ task'[w].pc \notin Without \cup {"undo"}
          /\ \A x \in Worker : x # w => task'[x] = task[x]
      BY <3>1, TasksAfter DEF Without
    <3> QED
      BY <3>1, <3>2, <3>3, TokensQuiet
  <2>4. CASE \/ CountUp(w) \/ CountDown(w)
             \/ DeleteMailbox(w) /\ ~HasMailbox(task[w].id)
    <3>1. accountuser' = accountuser /\ imapquota' = imapquota /\ Finish(w)
      BY <2>4 DEF CountUp, CountDown, DeleteMailbox
    <3>2. /\ task'[w].pc \notin Without \cup {"undo"}
          /\ \A x \in Worker : x # w => task'[x] = task[x]
      BY <3>1, TasksAfter DEF Without
    <3> QED
      BY <3>1, <3>2, TokensQuiet
  <2>5. ~(Undo(w) \/ SetQuota(w) \/ UpdateAccount(w) \/ UpdateUsed(w) \/ GetQuota(w)
          \/ DefaultMailbox(w) \/ DefaultAccount(w) \/ CheckUsed(w) \/ Align(w))
    BY DEF NoChange, Tokens, In, UpdatePC, CheckPC, At, Undo, SetQuota, UpdateAccount, UpdateUsed,
       GetQuota, DefaultMailbox, DefaultAccount, CheckUsed, Align
  <2> QED
    BY <1>2, <2>1, <2>2, <2>3, <2>4, <2>5, TokensInsert, TokensCreate, TokensDrop, TokensSelect,
       TokensDelete DEF Step
<1> QED
  BY <1>1, <1>2, NextKinds

LEMMA NoChangeStep ==
    ASSUME QuotaInv, NoChange, Requests \cap {"update", "check"} = {}, [Next]_vars
    PROVE  NoChange'
<1> DEFINE Kinds == UpdatePC \cup CheckPC
<1>1. CASE Still
  BY <1>1 DEF Still, NoChange
<1>2. ASSUME NEW w \in Worker, Begin(w) \/ Step(w) \/ Failure(w) PROVE NoChange'
  <2>1. ASSUME task'[w].pc \notin Kinds, \A x \in Worker : x # w => task'[x] = task[x]
        PROVE  NoChange'
    BY <2>1 DEF NoChange
  <2>2. CASE Finish(w) \/ \E p : Goto(w, p) /\ p \notin Kinds /\ task[w].pc # "idle"
    BY <2>1, <2>2, TasksAfter DEF UpdatePC, CheckPC
  <2>3. CASE Begin(w)
    <3>1. CASE SetDomainQuota(w)
      BY <3>1 DEF SetDomainQuota, NoChange
    <3>2. CASE ~SetDomainQuota(w)
      BY <2>1, <2>3, <3>2, BeginTask DEF UpdatePC, CheckPC
    <3> QED
      BY <3>1, <3>2
  <2>4. ~(SetQuota(w) \/ UpdateAccount(w) \/ UpdateUsed(w) \/ GetQuota(w) \/ DefaultMailbox(w)
          \/ DefaultAccount(w) \/ CheckUsed(w) \/ Align(w))
    BY DEF NoChange, UpdatePC, CheckPC, At, SetQuota, UpdateAccount, UpdateUsed, GetQuota,
       DefaultMailbox, DefaultAccount, CheckUsed, Align
  <2>5. CASE InsertAccount(w) \/ SelectQuota(w)
    <3> DEFINE t1 == [task[w] EXCEPT !.pc = "createMailbox", !.id = nextId]
               t2 == [task[w] EXCEPT !.pc = "deleteAccount",
                                     !.quota = SumOf({r \in accountuser : r.id = task[w].id})]
    <3>1. CASE InsertAccount(w)
      <4>1. Start(w, t1) /\ task[w] \in CreateTask
        BY <3>1, TaskKinds DEF InsertAccount, At, CreatePC, QuotaInv
      <4>2. t1.pc = "createMailbox"
        BY <4>1 DEF CreateTask
      <4> HIDE DEF t1
      <4> QED
        BY <2>1, <4>1, <4>2, TasksAfter DEF UpdatePC, CheckPC
    <3>2. CASE SelectQuota(w)
      <4>1. Start(w, t2) /\ task[w] \in RemoveTask
        BY <3>2, TaskKinds DEF SelectQuota, At, RemovePC, QuotaInv
      <4>2. t2.pc = "deleteAccount"
        BY <4>1 DEF RemoveTask
      <4> HIDE DEF t2
      <4> QED
        BY <2>1, <4>1, <4>2, TasksAfter DEF UpdatePC, CheckPC
    <3> QED
      BY <2>5, <3>1, <3>2
  <2>6. CASE \/ CreateMailbox(w) \/ SetNewQuota(w) \/ CountUp(w) \/ Undo(w)
             \/ DeleteMailbox(w) \/ DeleteAccount(w) \/ CountDown(w)
    BY <2>2, <2>6 DEF CreateMailbox, SetNewQuota, CountUp, Undo, DeleteMailbox, DeleteAccount,
       CountDown, At, UpdatePC, CheckPC
  <2>7. CASE Failure(w)
    <3>1. task[w].pc # "idle" /\ task[w].pc \notin {"recomputeChecked", "setQuota", "defaultMailbox"}
      BY <2>7 DEF Failure, At, NoChange, UpdatePC, CheckPC
    <3>2. ~QuotaUnknown(w)
      BY DEF QuotaUnknown, At, NoChange, CheckPC
    <3> QED
      BY <2>2, <2>7, <3>1, <3>2 DEF Failure, StatementFails, ReplyLost, Crash, At, UpdatePC, CheckPC
  <2> QED
    BY <1>2, <2>3, <2>4, <2>5, <2>6, <2>7 DEF Step
<1> QED
  BY <1>1, <1>2, NextKinds

LEMMA BalancedNotTooLow ==
    ASSUME QuotaInv, NoChange, faults = 0 => Tokens /\ Balanced(accountuser, domainquotaused, task)
    PROVE  UsedNotTooLow
<1> SUFFICES ASSUME faults = 0 PROVE UsedNotTooLow
  BY DEF UsedNotTooLow
<1>1. Busy({"createMailbox", "setNewQuota", "countUp", "undo", "recompute", "recomputeChecked"})
          = In(task, Pending)
  BY DEF Busy, In, Pending, NoChange, UpdatePC, CheckPC, Tokens
<1>2. Busy({"countDown"}) = In(task, {"countDown"})
  BY DEF Busy, In
<1>3. \A S : QuotasOf(S) = Owed(task, S)
  BY DEF QuotasOf, Owed
<1>4. domainquotaused + Owed(task, In(task, Pending))
          >= SumOf(accountuser) + Owed(task, In(task, {"countDown"}))
  BY BalancedNumbers DEF Balanced
<1> QED
  BY <1>1, <1>2, <1>3, <1>4 DEF UsedNotTooLow

\* No request has begun, so nothing is owed and nobody holds an account.
LEMMA NothingOwed ==
    ASSUME Init
    PROVE  /\ NoRemoval /\ NoChange /\ Tokens
           /\ Covered(accountuser, domainquotaused, task)
           /\ Balanced(accountuser, domainquotaused, task)
<1>1. \A w \in Worker : task[w].pc = "idle"
  BY DEF Init, Idle
<1>2. /\ In(task, Creating) = {} /\ In(task, Adding) = {} /\ In(task, Without) = {}
      /\ In(task, Pending) = {} /\ In(task, {"countDown"}) = {}
      /\ In(task, {"deleteAccount"}) = {} /\ In(task, {"undo"}) = {}
  BY <1>1 DEF In, Creating, Adding, Without, Pending
<1>3. accountuser = {} /\ domainquotaused = 0 /\ DOMAIN imapquota = {}
  BY DEF Init
<1>4. SumOf({}) = 0 /\ Owed(task, {}) = 0
  BY SumOfRows, OwedOfWorkers, FS_EmptySet
<1>5. Covered(accountuser, domainquotaused, task)
  <2>1. RowsBut({}, task, {}) = {} /\ SUBSET {} = {{}} /\ {} \ {} = {} /\ 0 <= 0 + 0
    BY DEF RowsBut
  <2> QED
    BY <1>2, <1>3, <1>4, <2>1 DEF Covered
<1>6. Balanced(accountuser, domainquotaused, task)
  <2>1. SumOf(accountuser) = 0
    BY <1>3, <1>4
  <2>2. Owed(task, In(task, {"countDown"})) = 0 /\ Owed(task, In(task, Pending)) = 0
    BY <1>2, <1>4
  <2> QED
    BY <1>3, <2>1, <2>2 DEF Balanced
<1> QED
  BY <1>1, <1>2, <1>3, <1>5, <1>6 DEF NoRemoval, NoChange, Tokens, RemovePC, UpdatePC, CheckPC

LEMMA FaultsOnlyGrow ==
    ASSUME QuotaInv, [Next]_vars, faults' = 0
    PROVE  faults = 0
<1>1. faults \in Nat
  BY QuotaAssumption DEF QuotaInv, TypeOK
<1>2. faults' = faults \/ faults' = faults + 1
  <2>1. ASSUME NEW w \in Worker, Begin(w) PROVE faults' = faults \/ faults' = faults + 1
    <3>1. \A r, q, src : AccountGet(r, q, src) => faults' = faults \/ faults' = faults + 1
      BY DEF AccountGet
    <3> QED
      BY <2>1, <3>1 DEF Begin, BeginCreate, BeginRemove, BeginUpdate, BeginCheck, SetDomainQuota
  <2>2. ASSUME NEW w \in Worker, Step(w) PROVE UNCHANGED faults
    BY <2>2 DEF Step, InsertAccount, CreateMailbox, SetNewQuota, CountUp, Undo, DeleteMailbox,
       SelectQuota, DeleteAccount, CountDown, SetQuota, UpdateAccount, UpdateUsed, GetQuota,
       DefaultMailbox, DefaultAccount, CheckUsed, Align
  <2>3. ASSUME NEW w \in Worker, Failure(w) PROVE faults' = faults + 1
    BY <2>3 DEF Failure
  <2> QED
    BY <2>1, <2>2, <2>3, NextKinds DEF Still
<1> QED
  BY <1>1, <1>2

LEMMA NotTooLowWithoutRemovals ==
    ASSUME "remove" \notin Requests
    PROVE  Spec => []UsedNotTooLow
<1> DEFINE I == /\ QuotaInv /\ NoRemoval
                /\ faults = 0 => Covered(accountuser, domainquotaused, task)
<1>1. Init => I
  BY InitInv, NothingOwed
<1>2. I /\ [Next]_vars => I'
  <2> SUFFICES ASSUME I, [Next]_vars PROVE I'
    OBVIOUS
  <2>1. QuotaInv' /\ NoRemoval'
    BY StepInv, NoRemovalStep
  <2>2. ASSUME faults' = 0 PROVE Covered(accountuser, domainquotaused, task)'
    BY <2>2, FaultsOnlyGrow, CoveredStep
  <2> QED
    BY <2>1, <2>2
<1>3. I => UsedNotTooLow
  BY CoveredNotTooLow
<1> HIDE DEF I
<1> QED
  BY <1>1, <1>2, <1>3, PTL DEF Spec

LEMMA NotTooLowWithoutChanges ==
    ASSUME Requests \cap {"update", "check"} = {}
    PROVE  Spec => []UsedNotTooLow
<1> DEFINE I == /\ QuotaInv /\ NoChange
                /\ faults = 0 => Tokens /\ Balanced(accountuser, domainquotaused, task)
<1>1. Init => I
  BY InitInv, NothingOwed
<1>2. I /\ [Next]_vars => I'
  <2> SUFFICES ASSUME I, [Next]_vars PROVE I'
    OBVIOUS
  <2>1. QuotaInv' /\ NoChange'
    BY StepInv, NoChangeStep
  <2>2. ASSUME faults' = 0 PROVE (Tokens /\ Balanced(accountuser, domainquotaused, task))'
    BY <2>2, FaultsOnlyGrow, TokensStep, BalancedStep
  <2> QED
    BY <2>1, <2>2
<1>3. I => UsedNotTooLow
  BY BalancedNotTooLow
<1> HIDE DEF I
<1> QED
  BY <1>1, <1>2, <1>3, PTL DEF Spec

\* However many requests are served at the same time, the used quota is never
\* too low as long as nothing fails: neither while accounts are created, changed
\* and checked, nor while they are created and removed.  (Removals next to
\* changes are what it takes, since a sum in between leaves out a row whose quota
\* is subtracted again.)
THEOREM NotTooLow ==
    ASSUME "remove" \notin Requests \/ Requests \cap {"update", "check"} = {}
    PROVE  Spec => []UsedNotTooLow
  BY NotTooLowWithoutRemovals, NotTooLowWithoutChanges
===============================================================================
