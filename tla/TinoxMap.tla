------------------------------ MODULE TinoxMap ------------------------------
(***************************************************************************)
(* The open-addressing hash table behind Map<K, V> (runtime/runtime.c, the *)
(* tinox_map_* functions).  A slot holds a key, NULL or a tombstone;       *)
(* collisions are resolved by linear probing; a store grows the table when *)
(* three quarters of it are live.  Only live entries count towards the     *)
(* load: tombstones do not.                                                *)
(*                                                                         *)
(* Each runtime call is one action, except a store: it may have to rehash  *)
(* first, and the loop of map_rehash is one step per source slot.  A probe *)
(* loop is the search for the first slot in probe order that stops it; the *)
(* loop whose stop slot does not exist never ends, and the thread spins    *)
(* (pc = "spin").                                                          *)
(*                                                                         *)
(* Stored keys are either the map's own strdup copy (own = TRUE) or the    *)
(* caller's pointer (own = FALSE), as in the per-thread header maps.       *)
(***************************************************************************)
EXTENDS Integers, FiniteSets

CONSTANTS
    Keys, Vals,
    NoKey,        \* an empty slot (key == NULL)
    Tomb,         \* a removed entry (key == (char*)1)
    Hash,         \* the FNV-1a value of each key
    InitCap,      \* capacity at creation: 16, 8 or 4 in the code
    MaxCap,       \* bound: the table never grows past this in a run
    Borrowed,     \* borrowed_keys at creation
    Ops           \* the calls this map's user makes

AllOps == {"set", "set_borrow", "get", "contains", "remove", "len",
           "entries", "reset", "free"}

ASSUME MapAssumption ==
    /\ NoKey \notin Keys /\ Tomb \notin Keys /\ NoKey # Tomb
    /\ Hash \in [Keys -> Nat]
    /\ InitCap \in Nat /\ InitCap >= 4
    /\ MaxCap \in Nat
    /\ Borrowed \in BOOLEAN
    /\ Ops \subseteq AllOps
    /\ 0 \in Vals

VARIABLES
    cap, len, entries,   \* the TinoxMap struct
    borrowed,            \* its borrowed_keys flag
    pc,                  \* where the thread is: idle, rehash, store, spin, freed
    arg,                 \* the store in progress
    src, fresh,          \* map_rehash: loop index i and new_entries
    ret,                 \* the result of the last call
    badFree              \* a key the map does not own has been freed

vars == <<cap, len, entries, borrowed, pc, arg, src, fresh, ret, badFree>>

(***************************************************************************)
(* Slots and probing.  Home is map_hash: the mask & (cap - 1) is the       *)
(* remainder because capacities are powers of two.  At is the d-th slot of *)
(* the probe sequence idx = (idx + 1) & (cap - 1).                         *)
(***************************************************************************)
Slots(c) == 0 .. c - 1
Slot == [key : Keys \cup {NoKey, Tomb}, value : Vals, own : BOOLEAN]
EmptySlot == [key |-> NoKey, value |-> 0, own |-> FALSE]
Blank(c) == [i \in Slots(c) |-> EmptySlot]

Home(k, c) == Hash[k] % c
At(k, d, c) == IF Home(k, c) + d < c THEN Home(k, c) + d ELSE Home(k, c) + d - c

Live(e, i) == e[i].key \in Keys
LiveSlots(e, c) == {i \in Slots(c) : Live(e, i)}

(* The number of probes until one of the slots in stop is met. *)
Stops(k, c, stop) == {d \in Slots(c) : At(k, d, c) \in stop}
Probe(k, c, stop) == LET ds == Stops(k, c, stop)
                     IN  CHOOSE d \in ds : \A x \in ds : d <= x
SlotFor(k, c, stop) == At(k, Probe(k, c, stop), c)

(* Mutant: the store loop forgets to compare keys. *)
StoreStopNoCompare(k) == {i \in Slots(cap) : entries[i].key \in {NoKey, Tomb}}

(* Where a lookup of k stops, and where a store of k stops. *)
LookupStop(k) == {i \in Slots(cap) : entries[i].key \in {k, NoKey}}
StoreStop(k) == {i \in Slots(cap) : entries[i].key \in {k, NoKey, Tomb}}

LookupEnds(k) == Stops(k, cap, LookupStop(k)) # {}
Found(k) == LookupEnds(k) /\ entries[SlotFor(k, cap, LookupStop(k))].key = k
Lookup(k) == IF Found(k) THEN entries[SlotFor(k, cap, LookupStop(k))].value ELSE 0

-----------------------------------------------------------------------------
NoArg == [op |-> "none"]

Init ==
    /\ cap = InitCap
    /\ len = 0
    /\ entries = Blank(InitCap)
    /\ borrowed = Borrowed
    /\ pc = "idle"
    /\ arg = NoArg
    /\ src = 0
    /\ fresh = << >>
    /\ ret = <<"void">>
    /\ badFree = FALSE

table == <<cap, len, entries, borrowed, badFree>>
loop == <<arg, src, fresh>>

(***************************************************************************)
(* tinox_map_set and tinox_map_set_borrow up to the load check: the table  *)
(* is rehashed first when len * 4 >= cap * 3.                              *)
(***************************************************************************)
\* Mutant: numerator and denominator of the load factor swapped.
MustGrowSwapped == len * 3 >= cap * 4

MustGrow == len * 4 >= cap * 3

BeginStore(op, k, v) ==
    /\ pc = "idle"
    /\ op \in Ops
    /\ arg' = [op |-> op, key |-> k, value |-> v]
    /\ IF MustGrow
       THEN /\ 2 * cap <= MaxCap
            /\ pc' = "rehash"
            /\ fresh' = Blank(2 * cap)
       ELSE /\ pc' = "store"
            /\ UNCHANGED fresh
    /\ UNCHANGED <<table, src, ret>>

(* Mutant: the copy loop does not probe for an empty slot. *)
RehashStepNoProbe ==
    /\ pc = "rehash"
    /\ src < cap
    /\ IF Live(entries, src)
       THEN fresh' = [fresh EXCEPT ![Home(entries[src].key, 2 * cap)] = entries[src]]
       ELSE UNCHANGED fresh
    /\ src' = src + 1
    /\ UNCHANGED <<table, pc, arg, ret>>

(* map_rehash, one iteration: slot src is skipped or copied to the first  *)
(* empty slot of its probe sequence in the new table.                     *)
RehashStep ==
    /\ pc = "rehash"
    /\ src < cap
    /\ IF Live(entries, src)
       THEN LET k == entries[src].key
                free == {i \in Slots(2 * cap) : fresh[i].key = NoKey}
            IN  fresh' = [fresh EXCEPT ![SlotFor(k, 2 * cap, free)] = entries[src]]
       ELSE UNCHANGED fresh
    /\ src' = src + 1
    /\ UNCHANGED <<table, pc, arg, ret>>

(* The end of map_rehash: the new entries replace the old ones.  The old  *)
(* array is freed only if it is not borrowed; keys are carried over.      *)
RehashDone ==
    /\ pc = "rehash"
    /\ src = cap
    /\ entries' = fresh
    /\ cap' = 2 * cap
    /\ borrowed' = FALSE
    /\ pc' = "store"
    /\ src' = 0
    /\ fresh' = << >>
    /\ UNCHANGED <<len, badFree, arg, ret>>

(* The claimed slot: tinox_map_set copies the key unless the map borrows   *)
(* its keys, tinox_map_set_borrow never does.                              *)
NewSlot == [key |-> arg.key, value |-> arg.value,
            own |-> arg.op = "set" /\ ~borrowed]

(* The probe loop of a store: overwrite the value of the key if it is met *)
(* first, else claim the first empty slot or tombstone.                   *)
Store ==
    /\ pc = "store"
    /\ LET k == arg.key
           stop == StoreStop(k)
           i == SlotFor(k, cap, stop)
       IN  IF Stops(k, cap, stop) = {}
           THEN pc' = "spin" /\ UNCHANGED <<entries, len>>
           ELSE /\ pc' = "idle"
                /\ IF entries[i].key = k
                   THEN /\ entries' = [entries EXCEPT ![i].value = arg.value]
                        /\ UNCHANGED len
                   ELSE /\ entries' = [entries EXCEPT ![i] = NewSlot]
                        /\ len' = len + 1
    /\ arg' = NoArg
    /\ ret' = <<"void">>
    /\ UNCHANGED <<cap, borrowed, badFree, src, fresh>>

(* A lookup loop that meets neither the key nor an empty slot never ends. *)
Read(op, k, answer) ==
    /\ pc = "idle"
    /\ op \in Ops
    /\ IF LookupEnds(k)
       THEN ret' = answer /\ UNCHANGED pc
       ELSE pc' = "spin" /\ UNCHANGED ret
    /\ UNCHANGED <<table, loop>>

Get(k) == Read("get", k, <<"get", Lookup(k)>>)
Contains(k) == Read("contains", k, <<"contains", Found(k)>>)

(* Mutant: an empty slot instead of a tombstone. *)
RemovedEmpties == NoKey

(* What tinox_map_remove leaves behind. *)
Removed == Tomb

(* tinox_map_remove frees the stored key and leaves a tombstone. *)
Remove(k) ==
    /\ pc = "idle"
    /\ "remove" \in Ops
    /\ IF LookupEnds(k)
       THEN /\ IF Found(k)
               THEN LET i == SlotFor(k, cap, LookupStop(k)) IN
                    /\ entries' = [entries EXCEPT ![i].key = Removed]
                    /\ len' = len - 1
                    /\ badFree' = (badFree \/ ~entries[i].own)
               ELSE UNCHANGED <<entries, len, badFree>>
            /\ ret' = <<"void">>
            /\ UNCHANGED pc
       ELSE /\ pc' = "spin"
            /\ UNCHANGED <<entries, len, badFree, ret>>
    /\ UNCHANGED <<cap, borrowed, loop>>

Len ==
    /\ pc = "idle"
    /\ "len" \in Ops
    /\ ret' = <<"len", len>>
    /\ UNCHANGED <<table, pc, loop>>

(* tinox_map_keys / tinox_map_values: every live slot, in an array of len. *)
Entries ==
    /\ pc = "idle"
    /\ "entries" \in Ops
    /\ ret' = <<"entries", {<<entries[i].key, entries[i].value>> :
                                i \in LiveSlots(entries, cap)}>>
    /\ UNCHANGED <<table, pc, loop>>

(* Mutant: the count survives the reset. *)
ResetKeepsLen ==
    /\ pc = "idle"
    /\ "reset" \in Ops
    /\ entries' = Blank(cap)
    /\ ret' = <<"void">>
    /\ UNCHANGED <<cap, len, borrowed, badFree, pc, loop>>

(* Mutant: the reset leaves tombstones behind. *)
ResetLeavesTombs ==
    /\ pc = "idle"
    /\ "reset" \in Ops
    /\ entries' = [i \in Slots(cap) |-> [EmptySlot EXCEPT !.key = Tomb]]
    /\ len' = 0
    /\ ret' = <<"void">>
    /\ UNCHANGED <<cap, borrowed, badFree, pc, loop>>

(* tinox_map_reset, called between two requests on the per-thread maps. *)
Reset ==
    /\ pc = "idle"
    /\ "reset" \in Ops
    /\ entries' = Blank(cap)
    /\ len' = 0
    /\ ret' = <<"void">>
    /\ UNCHANGED <<cap, borrowed, badFree, pc, loop>>

(* tinox_map_free: nothing for a borrowed map, else every live key goes. *)
Free ==
    /\ pc = "idle"
    /\ "free" \in Ops
    /\ pc' = "freed"
    /\ badFree' = (badFree \/ (~borrowed /\ \E i \in LiveSlots(entries, cap) :
                                                ~entries[i].own))
    /\ UNCHANGED <<cap, len, entries, borrowed, loop, ret>>

Next ==
    \/ \E k \in Keys :
        \/ \E v \in Vals, op \in {"set", "set_borrow"} : BeginStore(op, k, v)
        \/ Get(k)
        \/ Contains(k)
        \/ Remove(k)
    \/ RehashStep
    \/ RehashDone
    \/ Store
    \/ Len
    \/ Entries
    \/ Reset
    \/ Free

Spec == Init /\ [][Next]_vars

-----------------------------------------------------------------------------
(* The state stays well formed: slots, indices and the store in progress   *)
(* have the types the C declarations give them.                            *)
TypeOK ==
    /\ cap \in Nat /\ cap >= 4
    /\ len \in Nat
    /\ entries \in [Slots(cap) -> Slot]
    /\ borrowed \in BOOLEAN
    /\ pc \in {"idle", "rehash", "store", "spin", "freed"}
    /\ pc \in {"rehash", "store"} =>
          arg \in [op : {"set", "set_borrow"}, key : Keys, value : Vals]
    /\ src \in 0 .. cap
    /\ pc = "rehash" => fresh \in [Slots(2 * cap) -> Slot]
    /\ badFree \in BOOLEAN

(* len, which sizes the arrays tinox_map_keys and tinox_map_values fill    *)
(* and drives the load check, is the number of live slots in every state,  *)
(* also while map_rehash copies them.                                      *)
LenCountsLive == len = Cardinality(LiveSlots(entries, cap))

(* map_rehash loses and invents nothing: it has copied exactly as many     *)
(* entries as were live among the slots it has passed.                     *)
RehashAccounts ==
    pc = "rehash" =>
        Cardinality(LiveSlots(fresh, 2 * cap)) =
            Cardinality({i \in LiveSlots(entries, cap) : i < src})

(* e is a table in which no live entry hides behind an empty slot of its   *)
(* own probe sequence, where every lookup would stop.                      *)
Reachable(e, c) ==
    \A i \in LiveSlots(e, c) :
        \E d \in Slots(c) :
            /\ At(e[i].key, d, c) = i
            /\ \A x \in 0 .. d - 1 : e[At(e[i].key, x, c)].key # NoKey

(* Every stored entry can be found, whatever was removed around it and     *)
(* wherever a rehash has moved it.                                         *)
ProbeReach ==
    /\ Reachable(entries, cap)
    /\ pc = "rehash" => Reachable(fresh, 2 * cap)

(* The probe loop of a store always ends: the load check leaves a slot     *)
(* that is empty or a tombstone.                                           *)
StoreEnds == pc = "store" => Stops(arg.key, cap, StoreStop(arg.key)) # {}

(* Every lookup loop ends (get, contains and remove return), as long as    *)
(* nothing is removed: tombstones are not counted in the load.             *)
LookupsEnd == \A k \in Keys : LookupEnds(k)

(* A removed key is absent: contains answers false right after remove.     *)
(* The code does not keep this promise (a store may duplicate a key behind *)
(* a tombstone).                                                           *)
RemoveRemoves == [][\A k \in Keys : Remove(k) /\ pc' = "idle" => ~Found(k)']_vars

(* Only keys the map owns are freed: the keys of a map made over borrowed  *)
(* storage belong to the request buffer or the arena they point into.  The *)
(* code does not keep this promise: tinox_map_remove does not ask.         *)
FreesOwnKeys == ~badFree

(* The table implements the abstract map: a lookup's answer is the map's   *)
(* value, and growing the table is invisible.                              *)
Content == [k \in {x \in Keys : Found(x)} |-> Lookup(k)]
Abs == INSTANCE AbstractMap WITH m <- Content
ImplementsMap == Abs!Spec
=============================================================================
