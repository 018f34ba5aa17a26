----------------------------- MODULE Collections -----------------------------
(***************************************************************************)
(* The containers of libcore (arraylist.c, list.c, linked_list.c, queue.c, *)
(* stack.c, vector.c, hashmap.c, hashtable.c) and the reference counts of  *)
(* the objects in them (object.h, object.c).                               *)
(*                                                                         *)
(* Every operation runs under its container's mutex and counts are atomic, *)
(* so an operation is one step.  `held` are the references that callers    *)
(* own, of whatever thread: a caller adds only what it owns.  One          *)
(* container of the chosen form is in use: a sequence of objects, or a     *)
(* table of buckets with chains of [key, value].  Hashtable's iterator     *)
(* takes no lock: it is used by the thread that changes the table.         *)
(***************************************************************************)
EXTENDS Integers, Sequences, SequencesExt, FiniteSets, FiniteSetsExt

CONSTANTS Forms,                \* the containers to look at
          Objects, Keys, Nothing,
          Hash(_),              \* hash_str or hashCode of a key
          MaxHeld, MaxItems, MaxMods

VARIABLES form,
          refs,                 \* ref_count of every object; 0 when destroyed
          held,                 \* how many of them callers own
          leaked,               \* references that nobody can give back
          items,                \* linear containers
          buckets,              \* hash containers: capacity is the length
          keyRefs,              \* Hashtable's references to its keys
          mods,                 \* Hashtable's modCount
          iter,                 \* an iterator of the Hashtable, or Nothing
          latest                \* what was last put under every key: history

collVars == <<form, refs, held, leaked, items, buckets, keyRefs, mods, iter, latest>>
counts == <<refs, held, leaked>>
tables == <<buckets, keyRefs, mods, iter, latest>>

CollInit ==
    /\ form \in Forms
    /\ refs = [o \in Objects |-> 0] /\ held = refs /\ leaked = refs
    /\ items = <<>> /\ buckets = <<<<>>>>
    /\ keyRefs = [k \in Keys |-> 0] /\ mods = 0 /\ iter = Nothing
    /\ latest = [k \in Keys |-> Nothing]

(***************************************************************************)
(* References.                                                             *)
(***************************************************************************)
RETAIN(o) == refs' = [refs EXCEPT ![o] = @ + 1]
RELEASE(o) == refs' = [refs EXCEPT ![o] = @ - 1]
Times(s, o) == Cardinality({i \in DOMAIN s : s[i] = o})

Object_Init(o) ==
    /\ refs[o] = 0
    /\ refs' = [refs EXCEPT ![o] = 1] /\ held' = [held EXCEPT ![o] = 1]
    /\ UNCHANGED <<form, leaked, items>> /\ UNCHANGED tables

Share(o) ==
    /\ held[o] \in 1..MaxHeld - 1
    /\ RETAIN(o) /\ held' = [held EXCEPT ![o] = @ + 1]
    /\ UNCHANGED <<form, leaked, items>> /\ UNCHANGED tables

Drop(o) ==
    /\ held[o] > 0
    /\ RELEASE(o) /\ held' = [held EXCEPT ![o] = @ - 1]
    /\ UNCHANGED <<form, leaked, items>> /\ UNCHANGED tables

(***************************************************************************)
(* Linear containers.                                                      *)
(***************************************************************************)
\* The container takes a reference of its own; the caller keeps its
Insert(i, o) ==
    /\ held[o] > 0 /\ Len(items) < MaxItems
    /\ RETAIN(o) /\ items' = InsertAt(items, i, o)
    /\ UNCHANGED <<form, held, leaked>> /\ UNCHANGED tables

\* The container's reference goes to the caller
Detach(i) ==
    /\ i \in DOMAIN items /\ held[items[i]] < MaxHeld
    /\ held' = [held EXCEPT ![items[i]] = @ + 1] /\ items' = RemoveAt(items, i)
    /\ UNCHANGED <<form, refs, leaked>> /\ UNCHANGED tables

\* The container gives its reference back
GiveBack(i) ==
    /\ i \in DOMAIN items
    /\ RELEASE(items[i]) /\ items' = RemoveAt(items, i)
    /\ UNCHANGED <<form, held, leaked>> /\ UNCHANGED tables

\* The slot is emptied, and nobody has the reference
RemoveResult(i) ==
    /\ i \in DOMAIN items /\ leaked[items[i]] < MaxHeld
    /\ leaked' = [leaked EXCEPT ![items[i]] = @ + 1] /\ items' = RemoveAt(items, i)
    /\ UNCHANGED <<form, refs, held>> /\ UNCHANGED tables

Clear ==
    /\ items # <<>>
    /\ refs' = [o \in Objects |-> refs[o] - Times(items, o)] /\ items' = <<>>
    /\ UNCHANGED <<form, held, leaked>> /\ UNCHANGED tables

Back == Len(items)
impl_add == form = "ArrayList" /\ \E o \in Objects : Insert(Back + 1, o)
impl_remove == form = "ArrayList" /\ \E i \in DOMAIN items : GiveBack(i)
impl_detach == form = "ArrayList" /\ \E i \in DOMAIN items : Detach(i)
impl_removeResult == form = "ArrayList" /\ \E i \in DOMAIN items : RemoveResult(i)
impl_clear == form = "ArrayList" /\ Clear

impl_pushBack == form = "List" /\ \E o \in Objects : Insert(Back + 1, o)
impl_pushFront == form = "List" /\ \E o \in Objects : Insert(1, o)
impl_insertAt == form = "List" /\ \E i \in 1..Back + 1, o \in Objects : Insert(i, o)
impl_popBack == form = "List" /\ Detach(Back)
impl_popFront == form = "List" /\ Detach(1)
impl_removeAt == form = "List" /\ \E i \in DOMAIN items : Detach(i)
List_clear == form = "List" /\ Clear

impl_add_node == form = "LinkedList" /\ \E o \in Objects : Insert(Back + 1, o)
\* The first node that compares equal
impl_delete_node ==
    form = "LinkedList" /\ \E o \in ToSet(items) : GiveBack(Min({i \in DOMAIN items : items[i] = o}))

impl_enqueue == form = "Queue" /\ \E o \in Objects : Insert(Back + 1, o)
impl_dequeue == form = "Queue" /\ Detach(1)
impl_push == form = "Stack" /\ \E o \in Objects : Insert(Back + 1, o)
impl_pop == form = "Stack" /\ Detach(Back)
impl_push_back == form = "Vector" /\ \E o \in Objects : Insert(Back + 1, o)
impl_pop_back == form = "Vector" /\ Detach(Back)

\* RELEASE of the container itself: its finalizer gives back every element, and an empty
\* container of the same form takes its place
Finalize == form \in {"LinkedList", "Queue", "Stack", "Vector"} /\ Clear

(***************************************************************************)
(* Hash containers.                                                        *)
(***************************************************************************)
Bucket(k, n) == (Hash(k) % n) + 1
Slots(k) == {i \in DOMAIN buckets[Bucket(k, Len(buckets))] :
               buckets[Bucket(k, Len(buckets))][i].key = k}
Found(k) == Slots(k) # {}
Slot(k) == CHOOSE i \in Slots(k) : TRUE
Value(k) == buckets[Bucket(k, Len(buckets))][Slot(k)].value
Entries == UNION {ToSet(buckets[b]) : b \in DOMAIN buckets}
Size == FoldSet(LAMBDA b, n : n + Len(buckets[b]), 0, DOMAIN buckets)

Linked(t, k, o) ==
    LET b == Bucket(k, Len(t)) IN [t EXCEPT ![b] = <<[key |-> k, value |-> o]>> \o @]
Unlinked(k) == [buckets EXCEPT ![Bucket(k, Len(buckets))] = RemoveAt(@, Slot(k))]
Replaced(k, o) == [buckets EXCEPT ![Bucket(k, Len(buckets))][Slot(k)].value = o]

HashMap_put(k, o) ==
    /\ form = "HashMap" /\ held[o] > 0
    /\ IF Found(k)
       THEN /\ refs' = [[refs EXCEPT ![Value(k)] = @ - 1] EXCEPT ![o] = @ + 1]
            /\ buckets' = Replaced(k, o)
       ELSE RETAIN(o) /\ buckets' = Linked(buckets, k, o)
    /\ latest' = [latest EXCEPT ![k] = o]
    /\ UNCHANGED <<form, held, leaked, items, keyRefs, mods, iter>>

HashMap_remove(k) ==
    /\ form = "HashMap" /\ Found(k)
    /\ RELEASE(Value(k)) /\ buckets' = Unlinked(k)
    /\ latest' = [latest EXCEPT ![k] = Nothing]
    /\ UNCHANGED <<form, held, leaked, items, keyRefs, mods, iter>>

HashMap_detach(k) ==
    /\ form = "HashMap" /\ Found(k) /\ held[Value(k)] < MaxHeld
    /\ held' = [held EXCEPT ![Value(k)] = @ + 1] /\ buckets' = Unlinked(k)
    /\ latest' = [latest EXCEPT ![k] = Nothing]
    /\ UNCHANGED <<form, refs, leaked, items, keyRefs, mods, iter>>

RehashInPlace ==                                        \* mutant: chains keep their places
    LET n == 2 * Len(buckets) + 1
    IN [b \in 1..n |-> IF b \in DOMAIN buckets THEN buckets[b] ELSE <<>>]

\* A table of twice the capacity and one; every chain is moved front to front
rehash ==
    LET n == 2 * Len(buckets) + 1
        chain == FlattenSeq(buckets)
        Moved(b) == Reverse(SelectSeq(chain, LAMBDA e : Bucket(e.key, n) = b))
    IN [b \in 1..n |-> Moved(b)]

\* The table is rehashed before the key is looked for: threshold is 3/4 of the capacity
Grown == IF Size >= (3 * Len(buckets)) \div 4 THEN rehash ELSE buckets
grows == Grown # buckets

\* The old value's reference goes to the caller
ht_put(k, o) ==
    /\ form = "Hashtable" /\ held[o] > 0 /\ mods + 2 <= MaxMods
    /\ Found(k) => held[Value(k)] < MaxHeld
    /\ RETAIN(o)
    /\ IF Found(k)
       THEN LET b == Bucket(k, Len(Grown))
                i == CHOOSE j \in DOMAIN Grown[b] : Grown[b][j].key = k
            IN /\ buckets' = [Grown EXCEPT ![b][i].value = o]
               /\ held' = [held EXCEPT ![Value(k)] = @ + 1]
               /\ mods' = mods + IF grows THEN 1 ELSE 0
               /\ UNCHANGED keyRefs
       ELSE /\ buckets' = Linked(Grown, k, o)
            /\ keyRefs' = [keyRefs EXCEPT ![k] = @ + 1]
            /\ mods' = mods + IF grows THEN 2 ELSE 1
            /\ UNCHANGED held
    /\ latest' = [latest EXCEPT ![k] = o]
    /\ UNCHANGED <<form, leaked, items, iter>>

ht_remove(k) ==
    /\ form = "Hashtable" /\ Found(k) /\ held[Value(k)] < MaxHeld /\ mods < MaxMods
    /\ held' = [held EXCEPT ![Value(k)] = @ + 1]
    /\ buckets' = Unlinked(k) /\ keyRefs' = [keyRefs EXCEPT ![k] = @ - 1]
    /\ mods' = mods + 1 /\ latest' = [latest EXCEPT ![k] = Nothing]
    /\ UNCHANGED <<form, refs, leaked, items, iter>>

Emptied ==
    /\ refs' = [o \in Objects |-> refs[o] - FoldSet(LAMBDA b, n :
                    n + Cardinality({i \in DOMAIN buckets[b] : buckets[b][i].value = o}), 0, DOMAIN buckets)]
    /\ buckets' = [b \in DOMAIN buckets |-> <<>>]
    /\ latest' = [k \in Keys |-> Nothing]
    /\ UNCHANGED <<form, held, leaked, items, iter>>

HashMap_clear == form = "HashMap" /\ Entries # {} /\ Emptied /\ UNCHANGED <<keyRefs, mods>>
ht_clear ==
    /\ form = "Hashtable" /\ Entries # {} /\ mods < MaxMods /\ Emptied
    /\ keyRefs' = [k \in Keys |-> keyRefs[k] - IF Found(k) THEN 1 ELSE 0] /\ mods' = mods + 1

\* The iterator's next entry: the rest of its chain, then the next chain that is not empty
FirstFrom(b) ==
    LET full == {c \in b..Len(buckets) : buckets[c] # <<>>}
    IN IF full = {} THEN [bucket |-> Len(buckets) + 1, entry |-> Nothing]
       ELSE [bucket |-> Min(full) + 1, entry |-> Head(buckets[Min(full)]).key]

ht_iterator ==
    /\ form = "Hashtable" /\ iter = Nothing
    /\ iter' = [at |-> FirstFrom(1), expected |-> mods, seen |-> <<>>]
    /\ UNCHANGED <<form, items, buckets, keyRefs, mods, latest>> /\ UNCHANGED counts

it_next ==
    /\ iter # Nothing /\ iter.at.entry # Nothing /\ mods = iter.expected
    /\ LET k == iter.at.entry
           chain == buckets[Bucket(k, Len(buckets))]
       IN iter' = [iter EXCEPT !.seen = Append(@, k), !.at =
                     IF Slot(k) < Len(chain) THEN [@ EXCEPT !.entry = chain[Slot(k) + 1].key]
                     ELSE FirstFrom(@.bucket)]
    /\ UNCHANGED <<form, items, buckets, keyRefs, mods, latest>> /\ UNCHANGED counts

\* The caller is through with its iterator, or it was refused
DropIterator ==
    /\ iter # Nothing /\ (iter.at.entry = Nothing \/ mods # iter.expected)
    /\ iter' = Nothing
    /\ UNCHANGED <<form, items, buckets, keyRefs, mods, latest>> /\ UNCHANGED counts

CollNext ==
    \/ \E o \in Objects : Object_Init(o) \/ Share(o) \/ Drop(o)
    \/ impl_add \/ impl_remove \/ impl_detach \/ impl_removeResult \/ impl_clear
    \/ impl_pushBack \/ impl_pushFront \/ impl_insertAt \/ impl_popBack \/ impl_popFront
    \/ impl_removeAt \/ List_clear \/ impl_add_node \/ impl_delete_node \/ Finalize
    \/ impl_enqueue \/ impl_dequeue \/ impl_push \/ impl_pop \/ impl_push_back \/ impl_pop_back
    \/ \E k \in Keys : HashMap_remove(k) \/ HashMap_detach(k) \/ ht_remove(k)
    \/ \E k \in Keys, o \in Objects : HashMap_put(k, o) \/ ht_put(k, o)
    \/ HashMap_clear \/ ht_clear \/ ht_iterator \/ it_next \/ DropIterator

\* No container destroys what is still used or keeps what nobody uses: through every
\* sequence of additions, replacements, removals, transfers and clears, an object's
\* ref_count is exactly the references that callers own, that a container holds, and that
\* removeResult has dropped, and Hashtable owns one reference to each key it holds.
RefsCounted ==
    /\ \A o \in Objects :
         refs[o] = held[o] + leaked[o] + Times(items, o)
                   + Cardinality({e \in Entries : e.value = o})
    /\ \A k \in Keys : keyRefs[k] = IF form = "Hashtable" /\ Found(k) THEN 1 ELSE 0

\* A table is a map whatever its size and history: under every key get finds what was last
\* put there and not removed, across rehashes and in shared chains, no entry is out of
\* reach or twice there, and an iteration that ends unrefused has met every key once.
TableRight ==
    /\ \A k \in Keys : IF latest[k] = Nothing THEN ~Found(k) ELSE Found(k) /\ Value(k) = latest[k]
    /\ Size = Cardinality({k \in Keys : latest[k] # Nothing})
    /\ iter # Nothing /\ iter.at.entry = Nothing /\ iter.expected = mods
         => /\ ToSet(iter.seen) = {k \in Keys : Found(k)}
            /\ Len(iter.seen) = Cardinality(ToSet(iter.seen))

\* Every container holds what its history says, with the references that it owns.
CollectionsRight == TableRight /\ RefsCounted
=============================================================================
