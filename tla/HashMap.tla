------------------------------ MODULE HashMap -------------------------------
(***************************************************************************)
(* The hash table of stdlib/map.h: chains of entries, a table that doubles *)
(* when a call finds it loaded, entry by entry.  One table, one thread.    *)
(* strdup is taken to succeed (the code does not look), as is the          *)
(* allocation of the empty table.                                          *)
(***************************************************************************)
EXTENDS Container, Sequences, SequencesExt, FiniteSets

CONSTANTS Keys, Values,
          Hash,              \* hash_string of each key
          InitialCapacity    \* HASHMAP_INITIAL_CAPACITY

ASSUME HashAssumption == Hash \in [Keys -> Nat]
ASSUME CapacityAssumption == InitialCapacity \in Nat \ {0}

VARIABLES buckets,    \* the chains, less the entries that have moved
          size,
          new_buckets,
          at,         \* the chain that is being moved
          pc,         \* the function called, or where hashmap_set is
          arg,        \* the key and the value, or default, of the call
          ans         \* what the last query returned

vars == <<buckets, capacity, size, new_buckets, at, pc, arg, ans>>

Entry == [key : Keys, value : Values]
Empty(c) == [b \in 0..c-1 |-> << >>]
Index(k, c) == Hash[k] % c

(* The entry of a key in its chain: 0 if there is none, else the first.    *)
Find(k) ==
    LET chain == buckets[Index(k, capacity)]
        found == {i \in 1..Len(chain) : chain[i].key = k}
    IN  IF found = {} THEN 0 ELSE CHOOSE i \in found : \A j \in found : i <= j
Found(k) == buckets[Index(k, capacity)][Find(k)]

(* hashmap_create                                                          *)
Init == /\ capacity = InitialCapacity /\ buckets = Empty(InitialCapacity)
        /\ size = 0
        /\ new_buckets = Empty(0) /\ at = 0
        /\ pc = "ready" /\ arg \in Entry /\ ans = 0
-----------------------------------------------------------------------------
(* A call of one of the functions; some have no use for a key or a value.  *)
Functions == {"set", "get", "has", "remove", "size", "clear"}
Call(f, k, v) ==
    /\ pc = "ready" /\ pc' = f
    /\ arg' = [key |-> k, value |-> v]
    /\ UNCHANGED <<buckets, capacity, size, new_buckets, at, ans>>

(* hashmap_set: the test of the load, 0.75.                                *)
Loaded == 4 * size > 3 * capacity
Set ==
    /\ pc = "set"
    /\ pc' = IF Loaded THEN "resize" ELSE "put"
    /\ UNCHANGED <<buckets, capacity, size, new_buckets, at, arg, ans>>

(* hashmap_resize: without memory the table stays as it is.                *)
Resize ==
    /\ pc = "resize"
    /\ \/ /\ 2 * capacity <= MaxCapacity
          /\ new_buckets' = Empty(2 * capacity) /\ at' = 0 /\ pc' = "rehash"
       \/ pc' = "put" /\ UNCHANGED <<new_buckets, at>>
    /\ UNCHANGED <<buckets, capacity, size, arg, ans>>

(* Mutant: the index is taken in the old table.                            *)
MoveToOldIndex ==
    /\ pc = "rehash" /\ at < capacity /\ buckets[at] # << >>
    /\ LET e == Head(buckets[at])
       IN  new_buckets' = [new_buckets EXCEPT ![Index(e.key, capacity)] = <<e>> \o @]
    /\ buckets' = [buckets EXCEPT ![at] = Tail(@)]
    /\ UNCHANGED <<capacity, size, at, pc, arg, ans>>

(* The first entry of the chain goes to the front of its new chain.        *)
Move ==
    /\ pc = "rehash" /\ at < capacity /\ buckets[at] # << >>
    /\ LET e == Head(buckets[at])
       IN  new_buckets' = [new_buckets EXCEPT ![Index(e.key, 2 * capacity)] = <<e>> \o @]
    /\ buckets' = [buckets EXCEPT ![at] = Tail(@)]
    /\ UNCHANGED <<capacity, size, at, pc, arg, ans>>

NextChain ==
    /\ pc = "rehash" /\ at < capacity /\ buckets[at] = << >>
    /\ at' = at + 1
    /\ UNCHANGED <<buckets, capacity, size, new_buckets, pc, arg, ans>>

Swap ==
    /\ pc = "rehash" /\ at = capacity
    /\ buckets' = new_buckets /\ capacity' = 2 * capacity
    /\ new_buckets' = Empty(0) /\ at' = 0 /\ pc' = "put"
    /\ UNCHANGED <<size, arg, ans>>

(* The rest of hashmap_set: a key that is there gets the value, another    *)
(* one an entry at the front of its chain, if there is memory for it.      *)
Update == /\ Find(arg.key) # 0
          /\ buckets' = [buckets EXCEPT ![Index(arg.key, capacity)][Find(arg.key)].value = arg.value]
          /\ UNCHANGED size
Insert == /\ Find(arg.key) = 0
          /\ buckets' = [buckets EXCEPT ![Index(arg.key, capacity)] = <<arg>> \o @]
          /\ size' = size + 1

(* Mutant: the memory is asked for before the key is searched.             *)
PutAllocatesFirst == /\ pc = "put" /\ pc' = "ready"
                     /\ Update \/ Insert \/ UNCHANGED <<buckets, size>>
                     /\ UNCHANGED <<capacity, new_buckets, at, arg, ans>>

Put == /\ pc = "put" /\ pc' = "ready"
       /\ Update \/ Insert \/ (Find(arg.key) = 0 /\ UNCHANGED <<buckets, size>>)
       /\ UNCHANGED <<capacity, new_buckets, at, arg, ans>>
-----------------------------------------------------------------------------
(* A function that changes nothing returns.                                *)
Answer(f, a) == /\ pc = f /\ pc' = "ready" /\ ans' = a
                /\ UNCHANGED <<buckets, capacity, size, new_buckets, at, arg>>

Get    == Answer("get", IF Find(arg.key) # 0 THEN Found(arg.key).value ELSE arg.value)
HasKey == Answer("has", IF Find(arg.key) # 0 THEN 1 ELSE 0)
Size   == Answer("size", size)

(* hashmap_remove; of a key that is not there it does nothing.             *)
RemoveKey ==
    /\ pc = "remove" /\ pc' = "ready"
    /\ \/ /\ Find(arg.key) # 0
          /\ buckets' = [buckets EXCEPT ![Index(arg.key, capacity)] = RemoveAt(@, Find(arg.key))]
          /\ size' = size - 1
       \/ Find(arg.key) = 0 /\ UNCHANGED <<buckets, size>>
    /\ UNCHANGED <<capacity, new_buckets, at, arg, ans>>

(* hashmap_clear keeps the table.                                          *)
Clear == /\ pc = "clear" /\ pc' = "ready"
         /\ buckets' = Empty(capacity) /\ size' = 0
         /\ UNCHANGED <<capacity, new_buckets, at, arg, ans>>

Next == \/ \E f \in Functions, k \in Keys, v \in Values : Call(f, k, v)
        \/ Set \/ Resize \/ Move \/ NextChain \/ Swap \/ Put
        \/ Get \/ HasKey \/ Size \/ RemoveKey \/ Clear

Spec == Init /\ [][Next]_vars
-----------------------------------------------------------------------------
(* Every entry is where the index of its key finds it, under the capacity  *)
(* of the table it is in, no key is in the tables twice, and size counts   *)
(* the keys.                                                               *)
Entries(table) == UNION {Range(table[b]) : b \in DOMAIN table}
KeysOf(table)  == {e.key : e \in Entries(table)}
Placed(table, c) == \A b \in DOMAIN table : \A i \in DOMAIN table[b] : Index(table[b][i].key, c) = b
Once(table) == \A b \in DOMAIN table : \A i, j \in DOMAIN table[b] :
                  table[b][i].key = table[b][j].key => i = j
Reachable ==
    /\ Placed(buckets, capacity) /\ Placed(new_buckets, 2 * capacity)
    /\ Once(buckets) /\ Once(new_buckets) /\ KeysOf(buckets) \cap KeysOf(new_buckets) = {}
    /\ Cardinality(KeysOf(buckets) \cup KeysOf(new_buckets)) = size

(* The table is the dictionary its calls describe, whatever collides,      *)
(* whenever it grows or cannot grow: when a call returns, the key it was   *)
(* given, and no other, has been set, removed or looked up.                *)
All == Entries(buckets) \cup Entries(new_buckets)
Contents == [k \in {e.key : e \in All} |-> (CHOOSE e \in All : e.key = k).value]
Doing == IF pc \in {"resize", "rehash", "put"} THEN "set" ELSE pc
Abstract == INSTANCE Dictionary WITH dict <- Contents, doing <- Doing
IsDictionary == Abstract!Spec
=============================================================================
